--------------------------- MODULE PublishPipeline ---------------------------
(***************************************************************************)
(* The publish-attempt processor of Content Operations                     *)
(* (backend/content_ops/publisher.py).                                     *)
(*                                                                         *)
(* One dispatched schedule owns one attempt per target channel.  Celery    *)
(* workers run process_due_publish_attempts: they list the processable     *)
(* attempts without a lock, then take each attempt through unlocked reads, *)
(* locking transactions and calls of Meta's Graph API.  Several workers    *)
(* overlap: the process scan starts every minute, publish-now starts one   *)
(* more, and a lost worker's task is delivered again.                      *)
(*                                                                         *)
(* Grain of atomicity.  A database transaction is one step: every one      *)
(* begins with _locked_attempt, which locks the attempt together with the  *)
(* schedule, draft, version and workspace rows it joins, so transactions   *)
(* of one workspace do not overlap.  A transaction that meets a lock held  *)
(* by another one reads None (skip_locked): action Miss.  An unlocked read *)
(* is one step, a Graph API call is one step, and anything may happen      *)
(* between two steps of a worker.                                          *)
(***************************************************************************)
EXTENDS Naturals, FiniteSets

CONSTANTS
  FacebookAttempts,      \* attempts whose channel is facebook_page
  InstagramAttempts,     \* attempts whose channel is instagram
  Workers,               \* Celery worker processes
  NoAttempt,             \* a worker holds no attempt
  MAX_PUBLISH_ATTEMPTS,  \* provider failures after which an attempt is terminal
  CounterCap,            \* bound: every counter saturates here
  MaxCrashes,            \* bound: worker processes lost in a behaviour
  LockContention         \* may a locking read meet a locked row?

Attempts == FacebookAttempts \cup InstagramAttempts

\* _dispatch_schedule fails a schedule without targets before it creates any attempt.
ASSUME ConstantsAssumption ==
  /\ Attempts # {}
  /\ IsFiniteSet(Workers)
  /\ FacebookAttempts \cap InstagramAttempts = {}
  /\ NoAttempt \notin Attempts
  /\ MAX_PUBLISH_ATTEMPTS \in Nat \ {0}
  /\ CounterCap \in Nat /\ CounterCap > MAX_PUBLISH_ATTEMPTS
  /\ MaxCrashes \in Nat
  /\ LockContention \in BOOLEAN

VARIABLES
  \* rows of the database
  state,           \* PublishAttempt.state
  attempt_count,   \* PublishAttempt.attempt_count
  container,       \* meta_container_id with its age: none, fresh or expired (past the TTL)
  schedule_state,  \* ContentSchedule.state
  draft_state,     \* ContentDraft.state
  fit,             \* do the preflight checks that read neither state pass for the attempt?
  recorded,        \* PublishedPost rows created for the attempt
  \* memory of a worker process
  pc,              \* the step the worker is about to take
  cur,             \* the attempt it is processing
  todo,            \* attempts its scan listed and it has not processed yet
  verdict,         \* the provider answer it holds: none, ok, retryable or terminal
  \* Meta, and history
  calls,           \* publish calls made for the attempt
  live,            \* posts of the attempt that exist on Meta
  crashes          \* worker processes lost so far

dbVars     == <<state, attempt_count, container, schedule_state, draft_state, fit, recorded>>
workerVars == <<pc, cur, todo, verdict>>
metaVars   == <<calls, live>>
vars       == <<dbVars, workerVars, metaVars, crashes>>

AttemptState ==
  {"queued", "blocked", "container_creating", "container_pending", "container_ready",
   "publishing", "published", "failed_retryable", "failed_terminal",
   "container_expired", "cancelled"}

\* Mutants of PUBLISHABLE_ATTEMPT_STATES: attempts left behind in publishing are taken
\* over; terminal failures may be processed again.
PublishableWithPublishing == {"queued", "failed_retryable", "publishing"}
PublishableWithTerminal == {"queued", "failed_retryable", "failed_terminal"}

PUBLISHABLE_ATTEMPT_STATES == {"queued", "failed_retryable"}

INSTAGRAM_PROCESSABLE_STATES ==
  PUBLISHABLE_ATTEMPT_STATES \cup {"container_pending", "container_ready"}

TERMINAL_OR_BLOCKED_ATTEMPT_STATES ==
  {"blocked", "cancelled", "container_expired", "failed_terminal", "published"}

\* The publishing draft states a refresh writes, and review states collapsed into one.
DraftState ==
  {"scheduled", "publishing", "published", "partially_published", "failed", "internal_review"}

ScheduleState == {"dispatching", "published", "partial", "failed"}

\* A worker inside a transaction-to-be: its next step takes the row locks.
LockingSteps ==
  {"block", "claim", "prepare", "pending", "ready", "expire", "fail", "done"}

Steps ==
  LockingSteps \cup {"idle", "start", "preflight", "call", "create", "inspect",
                     "poll", "recheck", "publish"}

TypeOK ==
  /\ state \in [Attempts -> AttemptState]
  /\ attempt_count \in [Attempts -> 0 .. CounterCap]
  /\ container \in [Attempts -> {"none", "fresh", "expired"}]
  /\ schedule_state \in ScheduleState
  /\ draft_state \in DraftState
  /\ fit \in [Attempts -> BOOLEAN]
  /\ recorded \in [Attempts -> 0 .. CounterCap]
  /\ pc \in [Workers -> Steps]
  /\ cur \in [Workers -> Attempts \cup {NoAttempt}]
  /\ todo \in [Workers -> SUBSET Attempts]
  /\ verdict \in [Workers -> {"none", "ok", "retryable", "terminal"}]
  /\ calls \in [Attempts -> 0 .. CounterCap]
  /\ live \in [Attempts -> 0 .. CounterCap]
  /\ crashes \in 0 .. MaxCrashes

-----------------------------------------------------------------------------
(* Helpers.                                                                *)

Bump(n) == IF n < CounterCap THEN n + 1 ELSE n

Goto(w, step) == pc' = [pc EXCEPT ![w] = step]

\* The worker is through with its attempt and takes the next one of its list.
Finish(w) ==
  /\ Goto(w, "idle")
  /\ cur' = [cur EXCEPT ![w] = NoAttempt]
  /\ verdict' = [verdict EXCEPT ![w] = "none"]

ScheduleStateOf(st) ==
  IF \A a \in Attempts : st[a] = "published" THEN "published"
  ELSE IF \A a \in Attempts : st[a] \in TERMINAL_OR_BLOCKED_ATTEMPT_STATES
  THEN IF \E a \in Attempts : st[a] = "published" THEN "partial" ELSE "failed"
  ELSE "dispatching"

\* Mutant of DraftStateOf: the schedule's state is stored on the draft as it is.
DraftStateLikeSchedule(sched) == sched

DraftStateOf(sched) ==
  CASE sched = "published" -> "published"
    [] sched = "partial" -> "partially_published"
    [] sched = "failed" -> "failed"
    [] OTHER -> "publishing"

\* Schedule and draft follow the attempts, whatever the draft's state was.
RefreshScheduleAndDraftState(st) ==
  /\ schedule_state' = ScheduleStateOf(st)
  /\ draft_state' = DraftStateOf(ScheduleStateOf(st))

\* Mutant of SaveState: the refresh is forgotten.
SaveWithoutRefresh(a, st) ==
  /\ state' = [state EXCEPT ![a] = st]
  /\ UNCHANGED <<schedule_state, draft_state>>

\* The processor's save of a new attempt state, with the refresh that follows it.
SaveState(a, st) ==
  /\ state' = [state EXCEPT ![a] = st]
  /\ RefreshScheduleAndDraftState([state EXCEPT ![a] = st])

-----------------------------------------------------------------------------
(* Just after _dispatch_schedule: each attempt was created queued or       *)
(* blocked; the draft keeps the state the schedule gave it.                *)

Init ==
  /\ state \in [Attempts -> {"queued", "blocked"}]
  /\ attempt_count = [a \in Attempts |-> 0]
  /\ container = [a \in Attempts |-> "none"]
  /\ schedule_state =
       IF \A a \in Attempts : state[a] = "blocked" THEN "failed" ELSE "dispatching"
  /\ draft_state = "scheduled"
  /\ fit \in [Attempts -> BOOLEAN]
  /\ recorded = [a \in Attempts |-> 0]
  /\ pc = [w \in Workers |-> "idle"]
  /\ cur = [w \in Workers |-> NoAttempt]
  /\ todo = [w \in Workers |-> {}]
  /\ verdict = [w \in Workers |-> "none"]
  /\ calls = [a \in Attempts |-> 0]
  /\ live = [a \in Attempts |-> 0]
  /\ crashes = 0

-----------------------------------------------------------------------------
(* Scans.                                                                  *)

\* Mutant of ScanDueAttempts: pending and ready containers are not listed.
ScanQueuedAttempts(w) ==
  LET due == {a \in Attempts : state[a] = "queued"} IN
  /\ pc[w] = "idle" /\ todo[w] = {} /\ due # {}
  /\ todo' = [todo EXCEPT ![w] = due]
  /\ UNCHANGED <<dbVars, pc, cur, verdict, metaVars, crashes>>

\* process_due_publish_attempts lists ids; they are stale as soon as they are read.
ScanDueAttempts(w) ==
  LET due == {a \in Attempts :
                \/ state[a] = "queued"
                \/ /\ a \in InstagramAttempts
                   /\ state[a] \in {"container_pending", "container_ready"}}
  IN
  /\ pc[w] = "idle" /\ todo[w] = {} /\ due # {}
  /\ todo' = [todo EXCEPT ![w] = due]
  /\ UNCHANGED <<dbVars, pc, cur, verdict, metaVars, crashes>>

\* The loop takes the listed attempts one by one (their order is not used).
TakeAttempt(w) ==
  /\ pc[w] = "idle"
  /\ \E a \in todo[w] :
       /\ cur' = [cur EXCEPT ![w] = a]
       /\ todo' = [todo EXCEPT ![w] = @ \ {a}]
  /\ Goto(w, "start")
  /\ UNCHANGED <<dbVars, verdict, metaVars, crashes>>

\* The task content_ops.tasks.process_content_publish_attempt: one Facebook Page
\* attempt by id, whatever its state.
ProcessContentPublishAttempt(w) ==
  /\ pc[w] = "idle" /\ todo[w] = {}
  /\ \E a \in FacebookAttempts : cur' = [cur EXCEPT ![w] = a]
  /\ Goto(w, "start")
  /\ UNCHANGED <<dbVars, todo, verdict, metaVars, crashes>>

\* The retry scan once next_retry_at has passed, or the retry endpoint at any time.
RequeueFailedPublishAttempt(a) ==
  /\ state[a] = "failed_retryable"
  /\ SaveState(a, "queued")
  /\ UNCHANGED <<attempt_count, container, fit, recorded, workerVars, metaVars, crashes>>

-----------------------------------------------------------------------------
(* Steps both channels share.                                              *)

\* The first, unlocked read: a published attempt is left alone.
Start(w) ==
  /\ pc[w] = "start"
  /\ IF state[cur[w]] = "published"
       THEN Finish(w)
       ELSE Goto(w, "preflight") /\ UNCHANGED <<cur, verdict>>
  /\ UNCHANGED <<dbVars, todo, metaVars, crashes>>

ProcessableStates(a) ==
  IF a \in InstagramAttempts THEN INSTAGRAM_PROCESSABLE_STATES ELSE PUBLISHABLE_ATTEMPT_STATES

PreflightReady(a) ==
  /\ state[a] \in ProcessableStates(a)
  /\ draft_state \in {"scheduled", "publishing"}
  /\ fit[a]

\* The second, unlocked read decides between blocking and processing.
Preflight(w) ==
  /\ pc[w] = "preflight"
  /\ Goto(w, IF ~PreflightReady(cur[w]) THEN "block"
             ELSE IF cur[w] \in InstagramAttempts THEN "prepare" ELSE "claim")
  /\ UNCHANGED <<dbVars, cur, todo, verdict, metaVars, crashes>>

\* The state found under the lock is overwritten whatever it is.
MarkAttemptBlocked(w) ==
  /\ pc[w] = "block"
  /\ SaveState(cur[w], "blocked")
  /\ Finish(w)
  /\ UNCHANGED <<attempt_count, container, fit, recorded, todo, metaVars, crashes>>

\* Mutants of FailureState: one failure too many; no limit at all.
FailureStateOffByOne(count, retryable) ==
  IF retryable /\ count <= MAX_PUBLISH_ATTEMPTS THEN "failed_retryable" ELSE "failed_terminal"
FailureStateUnlimited(count, retryable) ==
  IF retryable THEN "failed_retryable" ELSE "failed_terminal"

FailureState(count, retryable) ==
  IF retryable /\ count < MAX_PUBLISH_ATTEMPTS THEN "failed_retryable" ELSE "failed_terminal"

MarkProviderFailure(w) ==
  LET a == cur[w]
      next_attempt_count == Bump(attempt_count[a])
  IN
  /\ pc[w] = "fail"
  /\ attempt_count' = [attempt_count EXCEPT ![a] = next_attempt_count]
  /\ SaveState(a, FailureState(next_attempt_count, verdict[w] = "retryable"))
  /\ Finish(w)
  /\ UNCHANGED <<container, fit, recorded, todo, metaVars, crashes>>

\* A new post id gives a new PublishedPost row; an attempt already published keeps its own.
MarkAttemptPublished(w) ==
  LET a == cur[w] IN
  /\ pc[w] = "done"
  /\ IF state[a] = "published"
       THEN UNCHANGED <<state, attempt_count, schedule_state, draft_state, recorded>>
       ELSE /\ recorded' = [recorded EXCEPT ![a] = Bump(@)]
            /\ attempt_count' = [attempt_count EXCEPT ![a] = Bump(@)]
            /\ SaveState(a, "published")
  /\ Finish(w)
  /\ UNCHANGED <<container, fit, todo, metaVars, crashes>>

\* Meta may create the post and still not answer with it: a lost answer is raised as
\* retryable, an answer without a post id as terminal.
PublishCall(w) ==
  LET a == cur[w] IN
  /\ calls' = [calls EXCEPT ![a] = Bump(@)]
  /\ \E answer \in {"ok", "retryable", "terminal"}, posted \in BOOLEAN :
       /\ answer = "ok" => posted
       /\ live' = IF posted THEN [live EXCEPT ![a] = Bump(@)] ELSE live
       /\ verdict' = [verdict EXCEPT ![w] = answer]
       /\ Goto(w, IF answer = "ok" THEN "done" ELSE "fail")
  /\ UNCHANGED <<dbVars, cur, todo, crashes>>

-----------------------------------------------------------------------------
(* Facebook Page.                                                          *)

\* The claim: only the transaction that finds the attempt publishable calls Meta.
ClaimFacebookAttempt(w) ==
  LET a == cur[w] IN
  /\ pc[w] = "claim"
  /\ IF state[a] \in PUBLISHABLE_ATTEMPT_STATES
       THEN /\ state' = [state EXCEPT ![a] = "publishing"]
            /\ Goto(w, "call")
            /\ UNCHANGED <<cur, verdict>>
       ELSE Finish(w) /\ UNCHANGED state
  /\ UNCHANGED <<attempt_count, container, schedule_state, draft_state, fit, recorded,
                 todo, metaVars, crashes>>

CallFacebook(w) ==
  /\ pc[w] = "call"
  /\ PublishCall(w)

-----------------------------------------------------------------------------
(* Instagram: create a container, poll it, publish it.                     *)

PrepareInstagramAttempt(w) ==
  LET a == cur[w] IN
  /\ pc[w] = "prepare"
  /\ \/ /\ state[a] \in {"container_pending", "container_ready"}
        /\ Goto(w, "inspect")
        /\ UNCHANGED <<state, container, cur, verdict>>
     \/ /\ state[a] \in PUBLISHABLE_ATTEMPT_STATES
        /\ state' = [state EXCEPT ![a] = "container_creating"]
        /\ container' = [container EXCEPT ![a] = "none"]
        /\ Goto(w, "create")
        /\ UNCHANGED <<cur, verdict>>
     \/ /\ state[a] \notin INSTAGRAM_PROCESSABLE_STATES
        /\ Finish(w)
        /\ UNCHANGED <<state, container>>
  /\ UNCHANGED <<attempt_count, schedule_state, draft_state, fit, recorded,
                 todo, metaVars, crashes>>

CreateMediaContainer(w) ==
  /\ pc[w] = "create"
  /\ \/ Goto(w, "pending") /\ UNCHANGED verdict
     \/ \E error \in {"retryable", "terminal"} :
          /\ verdict' = [verdict EXCEPT ![w] = error]
          /\ Goto(w, "fail")
  /\ UNCHANGED <<dbVars, cur, todo, metaVars, crashes>>

MarkInstagramContainerPending(w) ==
  LET a == cur[w] IN
  /\ pc[w] = "pending"
  /\ container' = [container EXCEPT ![a] = "fresh"]
  /\ SaveState(a, "container_pending")
  /\ Goto(w, "inspect")
  /\ UNCHANGED <<attempt_count, fit, recorded, cur, todo, verdict, metaVars, crashes>>

\* An unlocked re-read: expired, still pending, or something else.
InspectInstagramAttempt(w) ==
  LET a == cur[w] IN
  /\ pc[w] = "inspect"
  /\ Goto(w, IF container[a] = "expired" THEN "expire"
             ELSE IF state[a] = "container_pending" THEN "poll" ELSE "recheck")
  /\ UNCHANGED <<dbVars, cur, todo, verdict, metaVars, crashes>>

\* ERROR is a retryable failure; an exception of the call carries its own kind.
GetMediaContainerStatus(w) ==
  /\ pc[w] = "poll"
  /\ \/ Finish(w)                                                 \* IN_PROGRESS
     \/ Goto(w, "ready") /\ UNCHANGED <<cur, verdict>>            \* FINISHED
     \/ Goto(w, "expire") /\ UNCHANGED <<cur, verdict>>           \* EXPIRED
     \/ \E error \in {"retryable", "terminal"} :                  \* ERROR, or raised
          /\ verdict' = [verdict EXCEPT ![w] = error]
          /\ Goto(w, "fail")
          /\ UNCHANGED cur
  /\ UNCHANGED <<dbVars, todo, metaVars, crashes>>

\* Mutant of MarkInstagramContainerReady: a finished container is taken for a post.
ReadyTakenForPublished(w) ==
  /\ pc[w] = "ready"
  /\ SaveState(cur[w], "container_ready")
  /\ Goto(w, "done")
  /\ UNCHANGED <<attempt_count, container, fit, recorded, cur, todo, verdict, metaVars, crashes>>

MarkInstagramContainerReady(w) ==
  /\ pc[w] = "ready"
  /\ SaveState(cur[w], "container_ready")
  /\ Goto(w, "recheck")
  /\ UNCHANGED <<attempt_count, container, fit, recorded, cur, todo, verdict, metaVars, crashes>>

\* The last, unlocked read before media_publish.
RecheckInstagramAttempt(w) ==
  /\ pc[w] = "recheck"
  /\ IF state[cur[w]] = "container_ready"
       THEN Goto(w, "publish") /\ UNCHANGED <<cur, verdict>>
       ELSE Finish(w)
  /\ UNCHANGED <<dbVars, todo, metaVars, crashes>>

\* media_publish is called on an unlocked row that nothing marks as being published.
PublishMediaContainer(w) ==
  /\ pc[w] = "publish"
  /\ PublishCall(w)

MarkInstagramContainerExpired(w) ==
  /\ pc[w] = "expire"
  /\ SaveState(cur[w], "container_expired")
  /\ Finish(w)
  /\ UNCHANGED <<attempt_count, container, fit, recorded, todo, metaVars, crashes>>

-----------------------------------------------------------------------------
(* What goes wrong around a worker, and what changes around an attempt.    *)

\* skip_locked: the row was locked, the transaction sees no attempt and writes nothing.
\* The two container marks return silently and the processor goes on.
Miss(w) ==
  /\ LockContention
  /\ pc[w] \in LockingSteps
  /\ CASE pc[w] = "pending" -> Goto(w, "inspect") /\ UNCHANGED <<cur, verdict>>
       [] pc[w] = "ready" -> Goto(w, "recheck") /\ UNCHANGED <<cur, verdict>>
       [] OTHER -> Finish(w)
  /\ UNCHANGED <<dbVars, todo, metaVars, crashes>>

\* The process is lost.  Its task is delivered again (acks_late), as a new scan.
Crash(w) ==
  /\ crashes < MaxCrashes
  /\ pc[w] # "idle" \/ todo[w] # {}
  /\ crashes' = crashes + 1
  /\ Finish(w)
  /\ todo' = [todo EXCEPT ![w] = {}]
  /\ UNCHANGED <<dbVars, metaVars>>

\* INSTAGRAM_CONTAINER_TTL passes.
ContainerAges(a) ==
  /\ container[a] = "fresh"
  /\ container' = [container EXCEPT ![a] = "expired"]
  /\ UNCHANGED <<state, attempt_count, schedule_state, draft_state, fit, recorded,
                 workerVars, metaVars, crashes>>

\* Identity, readiness, approval snapshot, version or media stop or start to pass preflight.
FitnessChanges(a) ==
  /\ fit' = [fit EXCEPT ![a] = ~@]
  /\ UNCHANGED <<state, attempt_count, container, schedule_state, draft_state, recorded,
                 workerVars, metaVars, crashes>>

\* submit-internal-review is accepted in every draft state.
SubmitInternalReview ==
  /\ draft_state # "internal_review"
  /\ draft_state' = "internal_review"
  /\ UNCHANGED <<state, attempt_count, container, schedule_state, fit, recorded,
                 workerVars, metaVars, crashes>>

-----------------------------------------------------------------------------
\* A worker's own progress on the attempt it holds.
WorkerStep(w) ==
  \/ TakeAttempt(w)
  \/ Start(w) \/ Preflight(w)
  \/ MarkAttemptBlocked(w) \/ MarkProviderFailure(w) \/ MarkAttemptPublished(w)
  \/ ClaimFacebookAttempt(w) \/ CallFacebook(w)
  \/ PrepareInstagramAttempt(w) \/ CreateMediaContainer(w)
  \/ MarkInstagramContainerPending(w) \/ InspectInstagramAttempt(w)
  \/ GetMediaContainerStatus(w) \/ MarkInstagramContainerReady(w)
  \/ RecheckInstagramAttempt(w) \/ PublishMediaContainer(w)
  \/ MarkInstagramContainerExpired(w)

Next ==
  \/ \E w \in Workers :
       \/ WorkerStep(w)
       \/ ScanDueAttempts(w) \/ ProcessContentPublishAttempt(w)
       \/ Miss(w) \/ Crash(w)
  \/ \E a \in Attempts :
       RequeueFailedPublishAttempt(a) \/ ContainerAges(a) \/ FitnessChanges(a)
  \/ SubmitInternalReview

Spec == Init /\ [][Next]_vars

\* A worker that holds an attempt goes on; beat enqueues the process scan and the retry
\* scan every minute, and the queue serves them between other tasks (strong fairness of
\* the scan); time passes for a container.  Nothing is assumed of users, of the directly
\* enqueued task, of lock contention or of crashes.
Fairness ==
  /\ \A w \in Workers : WF_vars(WorkerStep(w)) /\ SF_vars(ScanDueAttempts(w))
  /\ \A a \in Attempts : WF_vars(RequeueFailedPublishAttempt(a)) /\ WF_vars(ContainerAges(a))

FairSpec == Spec /\ Fairness

-----------------------------------------------------------------------------
(* Safety.                                                                 *)

\* From the claim to the transaction that stores the provider's answer.
InFacebookCall(w, a) == cur[w] = a /\ pc[w] \in {"call", "fail", "done"}

\* However scans, retries, blocked marks and crashes interleave, two workers never hold
\* a Graph API publish call of the same Facebook Page attempt: the claim transaction
\* (publisher.py, PUBLISHABLE_ATTEMPT_STATES under the row lock) lets one in, and nothing
\* but that worker's own answer makes the attempt publishable again.
FacebookCallExclusive ==
  \A a \in FacebookAttempts : \A v, w \in Workers :
    InFacebookCall(v, a) /\ InFacebookCall(w, a) => v = w

\* The retry budget: over its whole life a Facebook Page attempt makes at most
\* MAX_PUBLISH_ATTEMPTS publish calls, although attempt_count is only written after the
\* answer, requeueing does not reset it, and the direct task may skip the requeue.
FacebookRetryBudget ==
  \A a \in FacebookAttempts : calls[a] <= MAX_PUBLISH_ATTEMPTS

\* An attempt that used up its provider failures is never queued or retryable, on either
\* channel and also when failures of two workers are counted in one attempt.
WaitingAttemptsHaveBudget ==
  \A a \in Attempts :
    state[a] \in {"queued", "failed_retryable"} => attempt_count[a] < MAX_PUBLISH_ATTEMPTS

\* A stored outcome of a Facebook Page attempt is never replaced by another outcome and
\* never retried: a late preflight may block it, nothing else may touch it.
FacebookOutcomeStands ==
  [][\A a \in FacebookAttempts :
       state[a] \in {"published", "failed_terminal"} => state'[a] \in {state[a], "blocked"}]_vars

\* The schedule always is the aggregate of its attempts, although the claim and the
\* container preparation change an attempt without refreshing the schedule.
ScheduleFollowsAttempts == schedule_state = ScheduleStateOf(state)

\* Every PublishedPost row stands for a different post on Meta, and a published attempt
\* has a row, on both channels and also when two workers publish one container.
RecordedPostsAreLive ==
  \A a \in Attempts :
    /\ recorded[a] <= live[a]
    /\ state[a] = "published" => recorded[a] > 0

(* The abstract life of a Facebook Page attempt.                           *)

AtStep(a, steps) == \E w \in Workers : cur[w] = a /\ pc[w] \in steps

\* A worker's step counts before the row: a late preflight may block the row of an attempt
\* that is being called, and the answer then overwrites that.  What was recorded stays
\* delivered.
Phase(a) ==
  CASE AtStep(a, {"call"}) -> "held"
    [] AtStep(a, {"fail", "done"}) -> "asked"
    [] OTHER -> IF recorded[a] > 0 THEN "delivered"
                ELSE IF state[a] \in PUBLISHABLE_ATTEMPT_STATES THEN "waiting" ELSE "closed"

Lifecycle == INSTANCE AttemptLifecycle WITH
  Attempts <- FacebookAttempts, MaxTries <- MAX_PUBLISH_ATTEMPTS,
  phase <- [a \in FacebookAttempts |-> Phase(a)],
  tries <- [a \in FacebookAttempts |-> calls[a]],
  posts <- [a \in FacebookAttempts |-> live[a]]

\* The processor implements the abstract life: scans, overlapping workers, late blocks,
\* missed locks and crashes give no Facebook Page attempt a second holder, an uncounted
\* call or a call after it was delivered or closed.
FollowsLifecycle == Lifecycle!Spec

(* Liveness.                                                               *)

\* Without crashes and lock contention every attempt reaches, for good, a state the
\* process scan and the retry scan leave alone.
EveryAttemptSettles ==
  \A a \in Attempts : <>[](state[a] \in TERMINAL_OR_BLOCKED_ATTEMPT_STATES)
=============================================================================
