------------------------ MODULE PublishPipeline_proofs ------------------------
(***************************************************************************)
(* Theorems about PublishPipeline, for every set of attempts and workers,  *)
(* every retry maximum, any number of crashes and with or without lock     *)
(* contention, and the refinement of AttemptLifecycle.                     *)
(***************************************************************************)
EXTENDS PublishPipeline, FiniteSetTheorems, TLAPS

(***************************************************************************)
(* Type correctness.                                                       *)
(***************************************************************************)

\* A counter stays within the bound.
LEMMA BumpType ==
  ASSUME NEW n \in 0 .. CounterCap
  PROVE  Bump(n) \in 0 .. CounterCap
BY ConstantsAssumption DEF Bump

\* The two aggregates are states of a schedule and of a draft (_refresh_schedule_and_draft_state).
LEMMA AggregateType ==
  ASSUME NEW st
  PROVE  /\ ScheduleStateOf(st) \in ScheduleState
         /\ DraftStateOf(ScheduleStateOf(st)) \in DraftState
<1>1. ScheduleStateOf(st) \in ScheduleState
  BY DEF ScheduleStateOf, ScheduleState
<1>2. \A sched \in ScheduleState : DraftStateOf(sched) \in DraftState
  BY DEF DraftStateOf, ScheduleState, DraftState
<1> QED BY <1>1, <1>2

\* What SaveState writes has the right type.
LEMMA SaveStateType ==
  ASSUME TypeOK, NEW a, NEW st \in AttemptState, SaveState(a, st)
  PROVE  /\ state' \in [Attempts -> AttemptState]
         /\ schedule_state' \in ScheduleState
         /\ draft_state' \in DraftState
BY AggregateType DEF TypeOK, SaveState, RefreshScheduleAndDraftState

\* What a worker that finishes leaves behind has the right type.
LEMMA FinishType ==
  ASSUME TypeOK, NEW w \in Workers, Finish(w)
  PROVE  /\ pc' \in [Workers -> Steps]
         /\ cur' \in [Workers -> Attempts \cup {NoAttempt}]
         /\ verdict' \in [Workers -> {"none", "ok", "retryable", "terminal"}]
BY DEF TypeOK, Finish, Goto, Steps

\* Every variable keeps its type (PublishAttempt, ContentSchedule, ContentDraft choices).
THEOREM TypeCorrect == Spec => []TypeOK
<1>1. Init => TypeOK
  BY ConstantsAssumption DEF Init, TypeOK, AttemptState, ScheduleState, DraftState, Steps
<1>2. TypeOK /\ [Next]_vars => TypeOK'
  <2> SUFFICES ASSUME TypeOK, [Next]_vars PROVE TypeOK'
    OBVIOUS
  <2> USE DEF dbVars, workerVars, metaVars
  <2>1. ASSUME NEW w \in Workers, ScanDueAttempts(w) PROVE TypeOK'
    BY <2>1 DEF ScanDueAttempts, TypeOK
  <2>2. ASSUME NEW w \in Workers, TakeAttempt(w) PROVE TypeOK'
    BY <2>2 DEF TakeAttempt, TypeOK, Goto, Steps
  <2>3. ASSUME NEW w \in Workers, ProcessContentPublishAttempt(w) PROVE TypeOK'
    BY <2>3 DEF ProcessContentPublishAttempt, TypeOK, Goto, Steps, Attempts
  <2>4. ASSUME NEW w \in Workers, Start(w) PROVE TypeOK'
    BY <2>4, FinishType DEF Start, TypeOK, Goto, Steps
  <2>5. ASSUME NEW w \in Workers, Preflight(w) PROVE TypeOK'
    BY <2>5 DEF Preflight, TypeOK, Goto, Steps, LockingSteps
  <2>6. ASSUME NEW w \in Workers, MarkAttemptBlocked(w) PROVE TypeOK'
    <3>1. "blocked" \in AttemptState BY DEF AttemptState
    <3> QED BY <2>6, <3>1, SaveStateType, FinishType DEF MarkAttemptBlocked, TypeOK
  <2>7. ASSUME NEW w \in Workers, MarkProviderFailure(w) PROVE TypeOK'
    <3> DEFINE n == Bump(attempt_count[cur[w]])
               st == FailureState(n, verdict[w] = "retryable")
    <3>1. st \in AttemptState BY DEF FailureState, AttemptState
    <3>2. SaveState(cur[w], st) BY <2>7 DEF MarkProviderFailure
    <3>3. attempt_count' \in [Attempts -> 0 .. CounterCap]
      BY <2>7, BumpType DEF MarkProviderFailure, TypeOK
    <3> HIDE DEF n, st
    <3> QED BY <2>7, <3>1, <3>2, <3>3, SaveStateType, FinishType DEF MarkProviderFailure, TypeOK
  <2>8. ASSUME NEW w \in Workers, MarkAttemptPublished(w) PROVE TypeOK'
    <3>1. "published" \in AttemptState BY DEF AttemptState
    <3>2. /\ attempt_count' \in [Attempts -> 0 .. CounterCap]
          /\ recorded' \in [Attempts -> 0 .. CounterCap]
      BY <2>8, BumpType DEF MarkAttemptPublished, TypeOK
    <3>3. /\ state' \in [Attempts -> AttemptState]
          /\ schedule_state' \in ScheduleState
          /\ draft_state' \in DraftState
      BY <2>8, <3>1, SaveStateType DEF MarkAttemptPublished, TypeOK
    <3> QED BY <2>8, <3>2, <3>3, FinishType DEF MarkAttemptPublished, TypeOK
  <2>9. ASSUME NEW w \in Workers, PublishCall(w) PROVE TypeOK'
    <3>1. calls' \in [Attempts -> 0 .. CounterCap]
      BY <2>9, BumpType DEF PublishCall, TypeOK
    <3>2. PICK answer \in {"ok", "retryable", "terminal"}, posted \in BOOLEAN :
            /\ live' = IF posted THEN [live EXCEPT ![cur[w]] = Bump(@)] ELSE live
            /\ verdict' = [verdict EXCEPT ![w] = answer]
            /\ Goto(w, IF answer = "ok" THEN "done" ELSE "fail")
      BY <2>9 DEF PublishCall
    <3>3. live' \in [Attempts -> 0 .. CounterCap]
      BY <3>2, BumpType DEF TypeOK
    <3>4. /\ pc' \in [Workers -> Steps]
          /\ verdict' \in [Workers -> {"none", "ok", "retryable", "terminal"}]
      BY <3>2 DEF TypeOK, Goto, Steps, LockingSteps
    <3> QED BY <2>9, <3>1, <3>3, <3>4 DEF PublishCall, TypeOK
  <2>10. ASSUME NEW w \in Workers, ClaimFacebookAttempt(w) PROVE TypeOK'
    BY <2>10, FinishType DEF ClaimFacebookAttempt, TypeOK, Goto, Steps, AttemptState
  <2>11. ASSUME NEW w \in Workers, PrepareInstagramAttempt(w) PROVE TypeOK'
    BY <2>11, FinishType DEF PrepareInstagramAttempt, TypeOK, Goto, Steps, AttemptState
  <2>12. ASSUME NEW w \in Workers, CreateMediaContainer(w) PROVE TypeOK'
    BY <2>12 DEF CreateMediaContainer, TypeOK, Goto, Steps, LockingSteps
  <2>13. ASSUME NEW w \in Workers, MarkInstagramContainerPending(w) PROVE TypeOK'
    <3>1. "container_pending" \in AttemptState BY DEF AttemptState
    <3> QED
      BY <2>13, <3>1, SaveStateType DEF MarkInstagramContainerPending, TypeOK, Goto, Steps
  <2>14. ASSUME NEW w \in Workers, InspectInstagramAttempt(w) PROVE TypeOK'
    BY <2>14 DEF InspectInstagramAttempt, TypeOK, Goto, Steps, LockingSteps
  <2>15. ASSUME NEW w \in Workers, GetMediaContainerStatus(w) PROVE TypeOK'
    BY <2>15, FinishType DEF GetMediaContainerStatus, TypeOK, Goto, Steps, LockingSteps
  <2>16. ASSUME NEW w \in Workers, MarkInstagramContainerReady(w) PROVE TypeOK'
    <3>1. "container_ready" \in AttemptState BY DEF AttemptState
    <3> QED
      BY <2>16, <3>1, SaveStateType DEF MarkInstagramContainerReady, TypeOK, Goto, Steps
  <2>17. ASSUME NEW w \in Workers, RecheckInstagramAttempt(w) PROVE TypeOK'
    BY <2>17, FinishType DEF RecheckInstagramAttempt, TypeOK, Goto, Steps
  <2>18. ASSUME NEW w \in Workers, MarkInstagramContainerExpired(w) PROVE TypeOK'
    <3>1. "container_expired" \in AttemptState BY DEF AttemptState
    <3> QED BY <2>18, <3>1, SaveStateType, FinishType DEF MarkInstagramContainerExpired, TypeOK
  <2>19. ASSUME NEW w \in Workers, Miss(w) PROVE TypeOK'
    BY <2>19, FinishType DEF Miss, TypeOK, Goto, Steps
  <2>20. ASSUME NEW w \in Workers, Crash(w) PROVE TypeOK'
    BY <2>20, FinishType, ConstantsAssumption DEF Crash, TypeOK
  <2>21. ASSUME NEW a \in Attempts, RequeueFailedPublishAttempt(a) PROVE TypeOK'
    <3>1. "queued" \in AttemptState BY DEF AttemptState
    <3> QED BY <2>21, <3>1, SaveStateType DEF RequeueFailedPublishAttempt, TypeOK
  <2>22. ASSUME NEW a \in Attempts, ContainerAges(a) \/ FitnessChanges(a) PROVE TypeOK'
    BY <2>22 DEF ContainerAges, FitnessChanges, TypeOK
  <2>23. CASE SubmitInternalReview
    BY <2>23 DEF SubmitInternalReview, TypeOK, DraftState
  <2>24. CASE UNCHANGED vars
    BY <2>24 DEF vars, TypeOK
  <2> QED
    BY <2>1, <2>2, <2>3, <2>4, <2>5, <2>6, <2>7, <2>8, <2>9, <2>10, <2>11, <2>12, <2>13, <2>14,
       <2>15, <2>16, <2>17, <2>18, <2>19, <2>20, <2>21, <2>22, <2>23, <2>24
    DEF Next, WorkerStep, CallFacebook, PublishMediaContainer
<1> QED BY <1>1, <1>2, PTL DEF Spec

-----------------------------------------------------------------------------
(***************************************************************************)
(* The schedule is the aggregate of its attempts.                          *)
(***************************************************************************)

\* Moving an attempt between two states that are neither published nor final cannot change
\* the aggregate: what the claim and the container preparation rely on when they skip
\* _refresh_schedule_and_draft_state.
LEMMA AggregateIgnoresProgress ==
  ASSUME TypeOK, NEW a, NEW st \in AttemptState \ TERMINAL_OR_BLOCKED_ATTEMPT_STATES,
         state[a] \notin TERMINAL_OR_BLOCKED_ATTEMPT_STATES
  PROVE  ScheduleStateOf([state EXCEPT ![a] = st]) = ScheduleStateOf(state)
<1>1. CASE a \notin Attempts
  <2>1. [state EXCEPT ![a] = st] = state
    BY <1>1 DEF TypeOK
  <2> QED BY <2>1
<1>2. CASE a \in Attempts
  <2> DEFINE new == [state EXCEPT ![a] = st]
  <2>1. state[a] # "published" /\ new[a] # "published"
        /\ new[a] \notin TERMINAL_OR_BLOCKED_ATTEMPT_STATES
    BY <1>2 DEF TypeOK, TERMINAL_OR_BLOCKED_ATTEMPT_STATES
  <2> HIDE DEF new
  <2>2. ScheduleStateOf(new) = "dispatching" /\ ScheduleStateOf(state) = "dispatching"
    BY <1>2, <2>1 DEF ScheduleStateOf
  <2> QED BY <2>2 DEF new
<1> QED BY <1>1, <1>2

\* The aggregate follows what SaveState writes.
LEMMA SaveStateRefreshes ==
  ASSUME NEW a, NEW st, SaveState(a, st)
  PROVE  ScheduleFollowsAttempts'
BY DEF SaveState, RefreshScheduleAndDraftState, ScheduleFollowsAttempts, ScheduleStateOf

\* A step that leaves both alone keeps the aggregate.
LEMMA AggregateFrame ==
  ASSUME ScheduleFollowsAttempts, UNCHANGED <<state, schedule_state>>
  PROVE  ScheduleFollowsAttempts'
BY DEF ScheduleFollowsAttempts, ScheduleStateOf

\* The schedule's state is always the aggregate of its attempts' states
\* (_refresh_schedule_and_draft_state), whatever interleaves.
THEOREM AggregateHolds == Spec => []ScheduleFollowsAttempts
<1>1. Init => ScheduleFollowsAttempts
  <2> SUFFICES ASSUME Init PROVE ScheduleFollowsAttempts
    OBVIOUS
  <2>1. \A a \in Attempts : state[a] \in {"queued", "blocked"}
    BY DEF Init
  <2>2. PICK a \in Attempts : TRUE
    BY ConstantsAssumption
  <2>3. schedule_state =
          IF \A b \in Attempts : state[b] = "blocked" THEN "failed" ELSE "dispatching"
    BY DEF Init
  <2>4. \A b \in Attempts : state[b] # "published"
    BY <2>1
  <2>5. \A b \in Attempts :
          state[b] \in TERMINAL_OR_BLOCKED_ATTEMPT_STATES <=> state[b] = "blocked"
    BY <2>1 DEF TERMINAL_OR_BLOCKED_ATTEMPT_STATES
  <2> QED BY <2>2, <2>3, <2>4, <2>5 DEF ScheduleFollowsAttempts, ScheduleStateOf
<1>2. TypeOK /\ ScheduleFollowsAttempts /\ [Next]_vars => ScheduleFollowsAttempts'
  <2> SUFFICES ASSUME TypeOK, ScheduleFollowsAttempts, [Next]_vars
               PROVE  ScheduleFollowsAttempts'
    OBVIOUS
  <2>1. ASSUME NEW w \in Workers, ClaimFacebookAttempt(w) PROVE ScheduleFollowsAttempts'
    <3>1. CASE state[cur[w]] \in PUBLISHABLE_ATTEMPT_STATES
      <4>1. "publishing" \in AttemptState \ TERMINAL_OR_BLOCKED_ATTEMPT_STATES
        BY DEF AttemptState, TERMINAL_OR_BLOCKED_ATTEMPT_STATES
      <4>2. state[cur[w]] \notin TERMINAL_OR_BLOCKED_ATTEMPT_STATES
        BY <3>1 DEF PUBLISHABLE_ATTEMPT_STATES, TERMINAL_OR_BLOCKED_ATTEMPT_STATES
      <4>3. ScheduleStateOf(state') = ScheduleStateOf(state)
        BY <2>1, <3>1, <4>1, <4>2, AggregateIgnoresProgress DEF ClaimFacebookAttempt
      <4> QED BY <2>1, <4>3 DEF ClaimFacebookAttempt, ScheduleFollowsAttempts, ScheduleStateOf
    <3>2. CASE state[cur[w]] \notin PUBLISHABLE_ATTEMPT_STATES
      BY <2>1, <3>2, AggregateFrame DEF ClaimFacebookAttempt
    <3> QED BY <3>1, <3>2
  <2>2. ASSUME NEW w \in Workers, PrepareInstagramAttempt(w) PROVE ScheduleFollowsAttempts'
    <3>1. CASE state[cur[w]] \in PUBLISHABLE_ATTEMPT_STATES
      <4>1. "container_creating" \in AttemptState \ TERMINAL_OR_BLOCKED_ATTEMPT_STATES
        BY DEF AttemptState, TERMINAL_OR_BLOCKED_ATTEMPT_STATES
      <4>2. state[cur[w]] \notin TERMINAL_OR_BLOCKED_ATTEMPT_STATES
        BY <3>1 DEF PUBLISHABLE_ATTEMPT_STATES, TERMINAL_OR_BLOCKED_ATTEMPT_STATES
      <4>3. state' = [state EXCEPT ![cur[w]] = "container_creating"]
        BY <2>2, <3>1
        DEF PrepareInstagramAttempt, INSTAGRAM_PROCESSABLE_STATES, PUBLISHABLE_ATTEMPT_STATES
      <4>4. ScheduleStateOf(state') = ScheduleStateOf(state)
        BY <4>1, <4>2, <4>3, AggregateIgnoresProgress
      <4> QED
        BY <2>2, <4>4 DEF PrepareInstagramAttempt, ScheduleFollowsAttempts, ScheduleStateOf
    <3>2. CASE state[cur[w]] \notin PUBLISHABLE_ATTEMPT_STATES
      BY <2>2, <3>2, AggregateFrame DEF PrepareInstagramAttempt
    <3> QED BY <3>1, <3>2
  <2>3. ASSUME NEW w \in Workers, MarkAttemptPublished(w) PROVE ScheduleFollowsAttempts'
    BY <2>3, SaveStateRefreshes, AggregateFrame DEF MarkAttemptPublished
  <2>4. ASSUME NEW w \in Workers,
               \/ MarkAttemptBlocked(w) \/ MarkProviderFailure(w)
               \/ MarkInstagramContainerPending(w) \/ MarkInstagramContainerReady(w)
               \/ MarkInstagramContainerExpired(w)
        PROVE  ScheduleFollowsAttempts'
    BY <2>4, SaveStateRefreshes
    DEF MarkAttemptBlocked, MarkProviderFailure, MarkInstagramContainerPending,
        MarkInstagramContainerReady, MarkInstagramContainerExpired
  <2>5. ASSUME NEW a \in Attempts, RequeueFailedPublishAttempt(a) PROVE ScheduleFollowsAttempts'
    BY <2>5, SaveStateRefreshes DEF RequeueFailedPublishAttempt
  <2>6. ASSUME NEW w \in Workers,
               \/ ScanDueAttempts(w) \/ TakeAttempt(w) \/ ProcessContentPublishAttempt(w)
               \/ Start(w) \/ Preflight(w) \/ CallFacebook(w) \/ CreateMediaContainer(w)
               \/ InspectInstagramAttempt(w) \/ GetMediaContainerStatus(w)
               \/ RecheckInstagramAttempt(w) \/ PublishMediaContainer(w) \/ Miss(w) \/ Crash(w)
        PROVE  ScheduleFollowsAttempts'
    BY <2>6, AggregateFrame
    DEF ScanDueAttempts, TakeAttempt, ProcessContentPublishAttempt, Start, Preflight,
        CallFacebook, CreateMediaContainer, InspectInstagramAttempt, GetMediaContainerStatus,
        RecheckInstagramAttempt, PublishMediaContainer, PublishCall, Miss, Crash, dbVars
  <2>7. ASSUME NEW a \in Attempts, ContainerAges(a) \/ FitnessChanges(a)
        PROVE  ScheduleFollowsAttempts'
    BY <2>7, AggregateFrame DEF ContainerAges, FitnessChanges
  <2>8. CASE SubmitInternalReview \/ UNCHANGED vars
    BY <2>8, AggregateFrame DEF SubmitInternalReview, vars, dbVars
  <2> QED
    BY <2>1, <2>2, <2>3, <2>4, <2>5, <2>6, <2>7, <2>8 DEF Next, WorkerStep
<1> QED BY <1>1, <1>2, TypeCorrect, PTL DEF Spec

-----------------------------------------------------------------------------
(***************************************************************************)
(* Retry budget of both channels.                                          *)
(***************************************************************************)

\* Only the failure mark and the requeue make an attempt wait again, and the failure mark
\* looks at the number it has just stored; so no interleaving of two workers that count
\* their failures in one attempt leaves it waiting without budget.
THEOREM BudgetOfWaitingAttempts == Spec => []WaitingAttemptsHaveBudget
<1>1. Init => WaitingAttemptsHaveBudget
  BY ConstantsAssumption DEF Init, WaitingAttemptsHaveBudget
<1>2. TypeOK /\ WaitingAttemptsHaveBudget /\ [Next]_vars => WaitingAttemptsHaveBudget'
  <2> SUFFICES ASSUME TypeOK, WaitingAttemptsHaveBudget, [Next]_vars,
                      NEW a \in Attempts, state'[a] \in {"queued", "failed_retryable"}
               PROVE  attempt_count'[a] < MAX_PUBLISH_ATTEMPTS
    BY DEF WaitingAttemptsHaveBudget
  <2> DEFINE Waits == {"queued", "failed_retryable"}
  <2>1. ASSUME NEW b, NEW st \in AttemptState \ Waits, SaveState(b, st), UNCHANGED attempt_count
        PROVE  attempt_count'[a] < MAX_PUBLISH_ATTEMPTS
    BY <2>1 DEF SaveState, TypeOK, WaitingAttemptsHaveBudget
  <2>2. ASSUME NEW w \in Workers, MarkProviderFailure(w)
        PROVE  attempt_count'[a] < MAX_PUBLISH_ATTEMPTS
    <3> DEFINE n == Bump(attempt_count[cur[w]])
    <3>1. /\ state' = [state EXCEPT ![cur[w]] = FailureState(n, verdict[w] = "retryable")]
          /\ attempt_count' = [attempt_count EXCEPT ![cur[w]] = n]
      BY <2>2 DEF MarkProviderFailure, SaveState
    <3> HIDE DEF n
    <3>2. CASE cur[w] = a
      <4>1. state'[a] = FailureState(n, verdict[w] = "retryable") /\ attempt_count'[a] = n
        BY <3>1, <3>2 DEF TypeOK
      <4> QED BY <4>1 DEF FailureState
    <3>3. CASE cur[w] # a
      BY <3>1, <3>3 DEF TypeOK, WaitingAttemptsHaveBudget
    <3> QED BY <3>2, <3>3
  <2>3. ASSUME NEW w \in Workers, MarkAttemptPublished(w)
        PROVE  attempt_count'[a] < MAX_PUBLISH_ATTEMPTS
    BY <2>3 DEF MarkAttemptPublished, SaveState, TypeOK, WaitingAttemptsHaveBudget
  <2>4. ASSUME NEW w \in Workers, ClaimFacebookAttempt(w) \/ PrepareInstagramAttempt(w)
        PROVE  attempt_count'[a] < MAX_PUBLISH_ATTEMPTS
    BY <2>4 DEF ClaimFacebookAttempt, PrepareInstagramAttempt, TypeOK, WaitingAttemptsHaveBudget
  <2>5. ASSUME NEW w \in Workers,
               \/ MarkAttemptBlocked(w) \/ MarkInstagramContainerPending(w)
               \/ MarkInstagramContainerReady(w) \/ MarkInstagramContainerExpired(w)
        PROVE  attempt_count'[a] < MAX_PUBLISH_ATTEMPTS
    BY <2>5, <2>1
    DEF MarkAttemptBlocked, MarkInstagramContainerPending, MarkInstagramContainerReady,
        MarkInstagramContainerExpired, AttemptState
  <2>6. ASSUME NEW b \in Attempts, RequeueFailedPublishAttempt(b)
        PROVE  attempt_count'[a] < MAX_PUBLISH_ATTEMPTS
    BY <2>6 DEF RequeueFailedPublishAttempt, SaveState, TypeOK, WaitingAttemptsHaveBudget
  <2>7. ASSUME UNCHANGED <<state, attempt_count>>
        PROVE  attempt_count'[a] < MAX_PUBLISH_ATTEMPTS
    BY <2>7 DEF WaitingAttemptsHaveBudget
  <2>8. ASSUME NEW w \in Workers,
               \/ ScanDueAttempts(w) \/ TakeAttempt(w) \/ ProcessContentPublishAttempt(w)
               \/ Start(w) \/ Preflight(w) \/ CallFacebook(w) \/ CreateMediaContainer(w)
               \/ InspectInstagramAttempt(w) \/ GetMediaContainerStatus(w)
               \/ RecheckInstagramAttempt(w) \/ PublishMediaContainer(w) \/ Miss(w) \/ Crash(w)
        PROVE  attempt_count'[a] < MAX_PUBLISH_ATTEMPTS
    BY <2>8, <2>7
    DEF ScanDueAttempts, TakeAttempt, ProcessContentPublishAttempt, Start, Preflight,
        CallFacebook, CreateMediaContainer, InspectInstagramAttempt, GetMediaContainerStatus,
        RecheckInstagramAttempt, PublishMediaContainer, PublishCall, Miss, Crash, dbVars
  <2>9. ASSUME NEW b \in Attempts, ContainerAges(b) \/ FitnessChanges(b)
        PROVE  attempt_count'[a] < MAX_PUBLISH_ATTEMPTS
    BY <2>9, <2>7 DEF ContainerAges, FitnessChanges
  <2>10. CASE SubmitInternalReview \/ UNCHANGED vars
    BY <2>10, <2>7 DEF SubmitInternalReview, vars, dbVars
  <2> QED
    BY <2>2, <2>3, <2>4, <2>5, <2>6, <2>8, <2>9, <2>10 DEF Next, WorkerStep
<1> QED BY <1>1, <1>2, TypeCorrect, PTL DEF Spec

-----------------------------------------------------------------------------
(***************************************************************************)
(* Facebook Page attempts: one call at a time, a bounded number of calls,  *)
(* and outcomes that stand.                                                *)
(***************************************************************************)

\* A worker past its scan holds an attempt, and stays on the path of its channel.
WorkersHoldAttempts ==
  \A w \in Workers :
    /\ pc[w] # "idle" => cur[w] \in Attempts
    /\ cur[w] \in FacebookAttempts =>
         pc[w] \in {"idle", "start", "preflight", "block", "claim", "call", "fail", "done"}
    /\ cur[w] \in InstagramAttempts => pc[w] \notin {"claim", "call"}

\* From the claim to the stored answer only a late blocked mark changes the state.
ClaimIsVisible ==
  \A a \in FacebookAttempts : \A w \in Workers :
    InFacebookCall(w, a) => state[a] \in {"publishing", "blocked"}

\* Calls are covered by counted failures, but for the one call in flight.
CallsAreCounted ==
  \A a \in FacebookAttempts :
    /\ state[a] \in {"queued", "failed_retryable"} =>
         calls[a] <= attempt_count[a] /\ attempt_count[a] < MAX_PUBLISH_ATTEMPTS
    /\ \A w \in Workers : cur[w] = a =>
         /\ pc[w] = "call" =>
              calls[a] <= attempt_count[a] /\ attempt_count[a] < MAX_PUBLISH_ATTEMPTS
         /\ pc[w] \in {"fail", "done"} =>
              calls[a] <= attempt_count[a] + 1 /\ attempt_count[a] < MAX_PUBLISH_ATTEMPTS

FacebookInv ==
  ClaimIsVisible /\ FacebookCallExclusive /\ CallsAreCounted /\ FacebookRetryBudget

\* Workers keep to their channel's path.
LEMMA WorkersKeepToTheirPath == Spec => []WorkersHoldAttempts
<1> USE DEF WorkersHoldAttempts
<1>1. Init => WorkersHoldAttempts
  BY ConstantsAssumption DEF Init, Attempts
<1>2. TypeOK /\ WorkersHoldAttempts /\ [Next]_vars => WorkersHoldAttempts'
  <2> SUFFICES ASSUME TypeOK, WorkersHoldAttempts, [Next]_vars,
                      NEW v \in Workers
               PROVE  /\ pc'[v] # "idle" => cur'[v] \in Attempts
                      /\ cur'[v] \in FacebookAttempts =>
                           pc'[v] \in {"idle", "start", "preflight", "block", "claim", "call",
                                       "fail", "done"}
                      /\ cur'[v] \in InstagramAttempts => pc'[v] \notin {"claim", "call"}
    OBVIOUS
  <2> DEFINE Goal == /\ pc'[v] # "idle" => cur'[v] \in Attempts
                     /\ cur'[v] \in FacebookAttempts =>
                          pc'[v] \in {"idle", "start", "preflight", "block", "claim", "call",
                                      "fail", "done"}
                     /\ cur'[v] \in InstagramAttempts => pc'[v] \notin {"claim", "call"}
  <2>0. /\ FacebookAttempts \cap InstagramAttempts = {}
        /\ Attempts = FacebookAttempts \cup InstagramAttempts
        /\ NoAttempt \notin Attempts
        /\ pc \in [Workers -> Steps]
        /\ cur \in [Workers -> Attempts \cup {NoAttempt}]
        /\ todo \in [Workers -> SUBSET Attempts]
    BY ConstantsAssumption DEF Attempts, TypeOK
  <2>1. ASSUME NEW w \in Workers, TakeAttempt(w) \/ ProcessContentPublishAttempt(w) PROVE Goal
    BY <2>0, <2>1 DEF TakeAttempt, ProcessContentPublishAttempt, Goto
  <2>2. ASSUME NEW w \in Workers, Finish(w) PROVE Goal
    BY <2>0, <2>2 DEF Finish, Goto
  <2>3. ASSUME UNCHANGED <<pc, cur>> PROVE Goal
    BY <2>3
  <2>4. ASSUME NEW w \in Workers, Preflight(w) PROVE Goal
    BY <2>0, <2>4 DEF Preflight, Goto
  <2>5. ASSUME NEW w \in Workers, PublishCall(w), pc[w] \in {"call", "publish"} PROVE Goal
    <3>1. PICK step \in {"done", "fail"} : Goto(w, step)
      BY <2>5 DEF PublishCall
    <3> QED BY <2>0, <2>5, <3>1 DEF PublishCall, Goto
  <2>6. ASSUME NEW w \in Workers, ClaimFacebookAttempt(w) \/ Start(w) PROVE Goal
    BY <2>0, <2>2, <2>6 DEF ClaimFacebookAttempt, Start, Goto
  <2>7. ASSUME NEW w \in Workers, PrepareInstagramAttempt(w) PROVE Goal
    BY <2>0, <2>2, <2>7 DEF PrepareInstagramAttempt, Goto
  <2>8. ASSUME NEW w \in Workers, CreateMediaContainer(w) \/ InspectInstagramAttempt(w)
        PROVE Goal
    BY <2>0, <2>8 DEF CreateMediaContainer, InspectInstagramAttempt, Goto
  <2>9. ASSUME NEW w \in Workers, GetMediaContainerStatus(w) PROVE Goal
    BY <2>0, <2>2, <2>9 DEF GetMediaContainerStatus, Goto
  <2>10. ASSUME NEW w \in Workers,
                \/ MarkInstagramContainerPending(w) \/ MarkInstagramContainerReady(w)
                \/ RecheckInstagramAttempt(w)
         PROVE Goal
    BY <2>0, <2>2, <2>10
    DEF MarkInstagramContainerPending, MarkInstagramContainerReady, RecheckInstagramAttempt, Goto
  <2>11. ASSUME NEW w \in Workers, Miss(w) PROVE Goal
    BY <2>0, <2>2, <2>11 DEF Miss, Goto
  <2>12. ASSUME NEW w \in Workers,
                \/ MarkAttemptBlocked(w) \/ MarkProviderFailure(w) \/ MarkAttemptPublished(w)
                \/ MarkInstagramContainerExpired(w) \/ Crash(w)
         PROVE Goal
    BY <2>2, <2>12
    DEF MarkAttemptBlocked, MarkProviderFailure, MarkAttemptPublished,
        MarkInstagramContainerExpired, Crash
  <2>13. ASSUME NEW w \in Workers, ScanDueAttempts(w) PROVE Goal
    BY <2>3, <2>13 DEF ScanDueAttempts
  <2>14. ASSUME NEW a \in Attempts,
                RequeueFailedPublishAttempt(a) \/ ContainerAges(a) \/ FitnessChanges(a)
         PROVE Goal
    BY <2>3, <2>14 DEF RequeueFailedPublishAttempt, ContainerAges, FitnessChanges, workerVars
  <2>15. CASE SubmitInternalReview \/ UNCHANGED vars
    BY <2>3, <2>15 DEF SubmitInternalReview, vars, workerVars
  <2> QED
    BY <2>1, <2>4, <2>5, <2>6, <2>7, <2>8, <2>9, <2>10, <2>11, <2>12, <2>13, <2>14, <2>15
    DEF Next, WorkerStep, CallFacebook, PublishMediaContainer
<1> QED BY <1>1, <1>2, TypeCorrect, PTL DEF Spec

\* A step that at most blocks or requeues Facebook Page attempts, counts nothing for them and
\* lets nobody into a call.
LEMMA FacebookFrame ==
  ASSUME FacebookInv,
         \A a \in FacebookAttempts :
           /\ \/ state'[a] \in {state[a], "blocked"}
              \/ state[a] = "failed_retryable" /\ state'[a] = "queued"
           /\ attempt_count'[a] = attempt_count[a] /\ calls'[a] = calls[a]
           /\ \A w \in Workers :
                InFacebookCall(w, a)' => InFacebookCall(w, a) /\ pc'[w] = pc[w]
  PROVE  FacebookInv'
<1>1. ClaimIsVisible'
  BY DEF FacebookInv, ClaimIsVisible
<1>2. FacebookCallExclusive'
  BY DEF FacebookInv, FacebookCallExclusive
<1>3. CallsAreCounted'
  BY DEF FacebookInv, CallsAreCounted, InFacebookCall
<1>4. FacebookRetryBudget'
  BY DEF FacebookInv, FacebookRetryBudget
<1> QED BY <1>1, <1>2, <1>3, <1>4 DEF FacebookInv

\* The claim admits one worker, and only to an attempt with budget left.
LEMMA ClaimKeepsFacebookInv ==
  ASSUME TypeOK, FacebookInv, NEW w \in Workers, ClaimFacebookAttempt(w)
  PROVE  FacebookInv'
<1>1. CASE state[cur[w]] \in PUBLISHABLE_ATTEMPT_STATES /\ cur[w] \in FacebookAttempts
  <2>1. /\ state' = [state EXCEPT ![cur[w]] = "publishing"]
        /\ pc' = [pc EXCEPT ![w] = "call"]
        /\ UNCHANGED <<cur, attempt_count, calls>>
    BY <1>1 DEF ClaimFacebookAttempt, Goto, metaVars
  <2>2. \A v \in Workers : ~InFacebookCall(v, cur[w])
    BY <1>1 DEF FacebookInv, ClaimIsVisible, PUBLISHABLE_ATTEMPT_STATES
  <2>3. cur[w] \in Attempts
    BY <1>1 DEF Attempts
  <2>4. \A a \in FacebookAttempts, v \in Workers :
          InFacebookCall(v, a)' <=> InFacebookCall(v, a) \/ (v = w /\ a = cur[w])
    BY <2>1 DEF InFacebookCall, TypeOK
  <2>5. ClaimIsVisible'
    BY <2>1, <2>3, <2>4 DEF FacebookInv, ClaimIsVisible, TypeOK
  <2>6. FacebookCallExclusive'
    BY <2>2, <2>4 DEF FacebookInv, FacebookCallExclusive
  <2>7. CallsAreCounted'
    <3> SUFFICES ASSUME NEW a \in FacebookAttempts
                 PROVE  /\ state'[a] \in {"queued", "failed_retryable"} =>
                             calls[a] <= attempt_count[a] /\ attempt_count[a] < MAX_PUBLISH_ATTEMPTS
                        /\ \A v \in Workers : cur[v] = a =>
                             /\ pc'[v] = "call" => calls[a] <= attempt_count[a]
                                                   /\ attempt_count[a] < MAX_PUBLISH_ATTEMPTS
                             /\ pc'[v] \in {"fail", "done"} =>
                                  calls[a] <= attempt_count[a] + 1
                                  /\ attempt_count[a] < MAX_PUBLISH_ATTEMPTS
      BY <2>1 DEF CallsAreCounted
    <3> QED
      BY <1>1, <2>1, <2>3
      DEF FacebookInv, CallsAreCounted, PUBLISHABLE_ATTEMPT_STATES, TypeOK, Attempts
  <2>8. FacebookRetryBudget'
    BY <2>1 DEF FacebookInv, FacebookRetryBudget
  <2> QED BY <2>5, <2>6, <2>7, <2>8 DEF FacebookInv
<1>2. CASE ~(state[cur[w]] \in PUBLISHABLE_ATTEMPT_STATES /\ cur[w] \in FacebookAttempts)
  <2>1. \A a \in FacebookAttempts : state'[a] = state[a]
    BY <1>2 DEF ClaimFacebookAttempt, TypeOK, Attempts
  <2>2. \A a \in FacebookAttempts, v \in Workers :
          InFacebookCall(v, a)' => InFacebookCall(v, a) /\ pc'[v] = pc[v]
    BY <1>2, ConstantsAssumption
    DEF ClaimFacebookAttempt, InFacebookCall, Finish, Goto, TypeOK, Attempts
  <2> QED BY <2>1, <2>2, FacebookFrame DEF ClaimFacebookAttempt, metaVars
<1> QED BY <1>1, <1>2

\* The call uses one unit of budget; on the Instagram path it concerns no Facebook attempt.
LEMMA CallKeepsFacebookInv ==
  ASSUME TypeOK, WorkersHoldAttempts, FacebookInv, NEW w \in Workers,
         CallFacebook(w) \/ PublishMediaContainer(w)
  PROVE  FacebookInv'
<1>0. PublishCall(w) /\ pc[w] \in {"call", "publish"}
  BY DEF CallFacebook, PublishMediaContainer
<1>1. PICK step \in {"done", "fail"} : pc' = [pc EXCEPT ![w] = step]
  BY <1>0 DEF PublishCall, Goto
<1>2. /\ calls' = [calls EXCEPT ![cur[w]] = Bump(calls[cur[w]])]
      /\ UNCHANGED <<cur, state, attempt_count>>
  BY <1>0 DEF PublishCall, dbVars
<1>3. CASE cur[w] \in FacebookAttempts
  <2>1. InFacebookCall(w, cur[w]) /\ pc[w] = "call"
    BY <1>0, <1>3 DEF WorkersHoldAttempts, InFacebookCall
  <2>2. /\ calls[cur[w]] <= attempt_count[cur[w]] /\ attempt_count[cur[w]] < MAX_PUBLISH_ATTEMPTS
        /\ cur[w] \in Attempts
    BY <1>3, <2>1 DEF FacebookInv, CallsAreCounted, Attempts
  <2>3. /\ calls[cur[w]] \in Nat /\ attempt_count[cur[w]] \in Nat
        /\ \A a \in Attempts : calls[a] \in Nat /\ attempt_count[a] \in Nat
    BY <2>2, ConstantsAssumption DEF TypeOK
  <2>4. Bump(calls[cur[w]]) = calls[cur[w]] + 1
    BY <2>2, <2>3, ConstantsAssumption DEF Bump
  <2>5. /\ calls'[cur[w]] = calls[cur[w]] + 1
        /\ \A a \in FacebookAttempts : a # cur[w] => calls'[a] = calls[a]
    BY <1>2, <2>2, <2>4 DEF TypeOK, Attempts
  <2>6. \A a \in FacebookAttempts, v \in Workers : InFacebookCall(v, a)' <=> InFacebookCall(v, a)
    BY <1>1, <1>2, <2>1 DEF InFacebookCall, TypeOK
  <2>7. ClaimIsVisible' /\ FacebookCallExclusive'
    BY <1>2, <2>6 DEF FacebookInv, ClaimIsVisible, FacebookCallExclusive
  <2>8. \A v \in Workers : InFacebookCall(v, cur[w]) => v = w
    BY <1>3, <2>1 DEF FacebookInv, FacebookCallExclusive
  <2>9. state[cur[w]] \in {"publishing", "blocked"}
    BY <1>3, <2>1 DEF FacebookInv, ClaimIsVisible
  <2>10. CallsAreCounted'
    <3> SUFFICES ASSUME NEW a \in FacebookAttempts
                 PROVE  /\ state[a] \in {"queued", "failed_retryable"} =>
                             calls'[a] <= attempt_count[a] /\ attempt_count[a] < MAX_PUBLISH_ATTEMPTS
                        /\ \A v \in Workers : cur[v] = a =>
                             /\ pc'[v] = "call" => calls'[a] <= attempt_count[a]
                                                   /\ attempt_count[a] < MAX_PUBLISH_ATTEMPTS
                             /\ pc'[v] \in {"fail", "done"} =>
                                  calls'[a] <= attempt_count[a] + 1
                                  /\ attempt_count[a] < MAX_PUBLISH_ATTEMPTS
      BY <1>2 DEF CallsAreCounted
    <3>1. CASE a = cur[w]
      BY <1>1, <2>2, <2>3, <2>5, <2>8, <2>9, <3>1 DEF InFacebookCall, TypeOK
    <3>2. CASE a # cur[w]
      BY <1>1, <2>5, <3>2 DEF FacebookInv, CallsAreCounted, TypeOK
    <3> QED BY <3>1, <3>2
  <2>11. FacebookRetryBudget'
    <3>1. MAX_PUBLISH_ATTEMPTS \in Nat
      BY ConstantsAssumption
    <3>2. calls'[cur[w]] <= MAX_PUBLISH_ATTEMPTS
      BY <2>2, <2>3, <2>5, <3>1
    <3> QED BY <2>5, <3>2 DEF FacebookInv, FacebookRetryBudget
  <2> QED BY <2>7, <2>10, <2>11 DEF FacebookInv
<1>4. CASE cur[w] \notin FacebookAttempts
  <2>1. \A a \in FacebookAttempts : calls'[a] = calls[a]
    BY <1>2, <1>4 DEF TypeOK, Attempts
  <2>2. \A a \in FacebookAttempts, v \in Workers :
          InFacebookCall(v, a)' => InFacebookCall(v, a) /\ pc'[v] = pc[v]
    BY <1>1, <1>2, <1>4 DEF InFacebookCall, TypeOK
  <2> QED BY <1>2, <2>1, <2>2, FacebookFrame
<1> QED BY <1>3, <1>4

\* The stored answer is the one of the only call in flight, and settles the budget.
LEMMA AnswerKeepsFacebookInv ==
  ASSUME TypeOK, FacebookInv, NEW w \in Workers,
         MarkProviderFailure(w) \/ MarkAttemptPublished(w)
  PROVE  FacebookInv'
<1> DEFINE n == Bump(attempt_count[cur[w]])
<1>1. PICK st \in AttemptState :
        /\ \/ /\ state' = [state EXCEPT ![cur[w]] = st]
              /\ attempt_count' = [attempt_count EXCEPT ![cur[w]] = n]
              /\ st \notin {"queued"}
              /\ st = "failed_retryable" => n < MAX_PUBLISH_ATTEMPTS
           \/ UNCHANGED <<state, attempt_count>> /\ state[cur[w]] = "published"
        /\ UNCHANGED calls
        /\ pc[w] \in {"fail", "done"}
        /\ pc' = [pc EXCEPT ![w] = "idle"]
        /\ cur' = [cur EXCEPT ![w] = NoAttempt]
  <2>1. CASE MarkProviderFailure(w)
    <3> DEFINE st == FailureState(n, verdict[w] = "retryable")
    <3>1. st \in AttemptState /\ st # "queued" /\ (st = "failed_retryable" => n < MAX_PUBLISH_ATTEMPTS)
      BY DEF FailureState, AttemptState
    <3>2. /\ state' = [state EXCEPT ![cur[w]] = st]
          /\ attempt_count' = [attempt_count EXCEPT ![cur[w]] = n]
          /\ UNCHANGED calls
          /\ pc[w] = "fail"
          /\ pc' = [pc EXCEPT ![w] = "idle"]
          /\ cur' = [cur EXCEPT ![w] = NoAttempt]
      BY <2>1 DEF MarkProviderFailure, SaveState, Finish, Goto, metaVars
    <3> HIDE DEF n, st
    <3> QED BY <3>1, <3>2
  <2>2. CASE MarkAttemptPublished(w)
    BY <2>2 DEF MarkAttemptPublished, SaveState, Finish, Goto, metaVars, AttemptState
  <2> QED BY <2>1, <2>2
<1>2. \A a \in FacebookAttempts, v \in Workers :
        InFacebookCall(v, a)' => InFacebookCall(v, a) /\ v # w /\ pc'[v] = pc[v]
  BY <1>1 DEF InFacebookCall, TypeOK
<1>3. CASE cur[w] \in FacebookAttempts
  <2>0. PICK b \in FacebookAttempts : b = cur[w]
    BY <1>3
  <2>1. InFacebookCall(w, b)
    BY <1>1, <2>0 DEF InFacebookCall
  <2>2. \A v \in Workers : ~InFacebookCall(v, b)'
    BY <1>2, <2>1 DEF FacebookInv, FacebookCallExclusive
  <2>3. /\ calls[b] <= attempt_count[b] + 1
        /\ attempt_count[b] < MAX_PUBLISH_ATTEMPTS
        /\ state[b] \in {"publishing", "blocked"}
        /\ b \in Attempts
    <3>1. pc[w] \in {"fail", "done"} /\ cur[w] = b
      BY <1>1, <2>0
    <3> QED BY <2>1, <3>1 DEF FacebookInv, CallsAreCounted, ClaimIsVisible, Attempts
  <2>4. attempt_count[b] < CounterCap
    <3>1. MAX_PUBLISH_ATTEMPTS \in Nat /\ CounterCap \in Nat /\ CounterCap > MAX_PUBLISH_ATTEMPTS
      BY ConstantsAssumption
    <3>2. attempt_count[b] \in 0 .. CounterCap
      BY <2>3 DEF TypeOK
    <3> QED BY <2>3, <3>1, <3>2
  <2>5. n = attempt_count[b] + 1
    BY <2>0, <2>3, <2>4 DEF Bump
  <2> HIDE DEF n
  <2>6. /\ state'[b] = st /\ attempt_count'[b] = n
        /\ st # "queued" /\ (st = "failed_retryable" => n < MAX_PUBLISH_ATTEMPTS)
    BY <1>1, <2>0, <2>3 DEF TypeOK
  <2>7. \A a \in FacebookAttempts : a # b =>
          state'[a] = state[a] /\ attempt_count'[a] = attempt_count[a]
    BY <1>1, <2>0 DEF TypeOK, Attempts
  <2>8. ClaimIsVisible'
    BY <1>2, <2>2, <2>7 DEF FacebookInv, ClaimIsVisible
  <2>9. FacebookCallExclusive'
    BY <1>2 DEF FacebookInv, FacebookCallExclusive
  <2>10. CallsAreCounted'
    <3> SUFFICES ASSUME NEW a \in FacebookAttempts
                 PROVE  /\ state'[a] \in {"queued", "failed_retryable"} =>
                             calls[a] <= attempt_count'[a] /\ attempt_count'[a] < MAX_PUBLISH_ATTEMPTS
                        /\ \A v \in Workers : cur'[v] = a =>
                             /\ pc'[v] = "call" => calls[a] <= attempt_count'[a]
                                                   /\ attempt_count'[a] < MAX_PUBLISH_ATTEMPTS
                             /\ pc'[v] \in {"fail", "done"} =>
                                  calls[a] <= attempt_count'[a] + 1
                                  /\ attempt_count'[a] < MAX_PUBLISH_ATTEMPTS
      BY <1>1 DEF CallsAreCounted
    <3>1. CASE a = b
      <4>1. \A v \in Workers : cur'[v] = a => pc'[v] \notin {"call", "fail", "done"}
        BY <2>2, <3>1 DEF InFacebookCall
      <4> QED BY <2>3, <2>5, <2>6, <3>1, <4>1
    <3>2. CASE a # b
      <4>1. \A v \in Workers : cur'[v] = a /\ pc'[v] \in {"call", "fail", "done"} =>
              cur[v] = a /\ pc'[v] = pc[v]
        BY <1>2 DEF InFacebookCall
      <4> QED BY <2>7, <3>2, <4>1 DEF FacebookInv, CallsAreCounted
    <3> QED BY <3>1, <3>2
  <2>11. FacebookRetryBudget'
    BY <1>1 DEF FacebookInv, FacebookRetryBudget
  <2> QED BY <2>8, <2>9, <2>10, <2>11 DEF FacebookInv
<1>4. CASE cur[w] \notin FacebookAttempts
  <2>1. \A a \in FacebookAttempts : state'[a] = state[a] /\ attempt_count'[a] = attempt_count[a]
    BY <1>1, <1>4 DEF TypeOK, Attempts
  <2> QED BY <1>1, <1>2, <2>1, FacebookFrame
<1> QED BY <1>3, <1>4

\* Every other step of the processor.
LEMMA OtherStepsKeepFacebookInv ==
  ASSUME TypeOK, WorkersHoldAttempts, FacebookInv, NEW w \in Workers,
         \/ ScanDueAttempts(w) \/ TakeAttempt(w) \/ ProcessContentPublishAttempt(w)
         \/ Start(w) \/ Preflight(w) \/ MarkAttemptBlocked(w)
         \/ PrepareInstagramAttempt(w) \/ CreateMediaContainer(w)
         \/ MarkInstagramContainerPending(w) \/ InspectInstagramAttempt(w)
         \/ GetMediaContainerStatus(w) \/ MarkInstagramContainerReady(w)
         \/ RecheckInstagramAttempt(w) \/ MarkInstagramContainerExpired(w)
         \/ Miss(w) \/ Crash(w)
  PROVE  FacebookInv'
<1>0. /\ FacebookAttempts \cap InstagramAttempts = {}
      /\ Attempts = FacebookAttempts \cup InstagramAttempts
      /\ NoAttempt \notin Attempts
      /\ pc \in [Workers -> Steps]
      /\ cur \in [Workers -> Attempts \cup {NoAttempt}]
      /\ state \in [Attempts -> AttemptState]
  BY ConstantsAssumption DEF Attempts, TypeOK
<1>1. UNCHANGED <<attempt_count, calls>>
  BY DEF ScanDueAttempts, TakeAttempt, ProcessContentPublishAttempt, Start, Preflight,
         MarkAttemptBlocked, PrepareInstagramAttempt, CreateMediaContainer,
         MarkInstagramContainerPending, InspectInstagramAttempt, GetMediaContainerStatus,
         MarkInstagramContainerReady, RecheckInstagramAttempt, MarkInstagramContainerExpired,
         Miss, Crash, dbVars, metaVars
<1>2. \A a \in FacebookAttempts : state'[a] \in {state[a], "blocked"}
  <2>1. CASE MarkAttemptBlocked(w)
    BY <1>0, <2>1 DEF MarkAttemptBlocked, SaveState
  <2>2. CASE \/ PrepareInstagramAttempt(w) \/ MarkInstagramContainerPending(w)
             \/ MarkInstagramContainerReady(w) \/ MarkInstagramContainerExpired(w)
    <3>1. pc[w] \in {"prepare", "pending", "ready", "expire"}
      BY <2>2 DEF PrepareInstagramAttempt, MarkInstagramContainerPending,
                  MarkInstagramContainerReady, MarkInstagramContainerExpired
    <3>2. cur[w] \notin FacebookAttempts
      BY <3>1 DEF WorkersHoldAttempts
    <3>3. \/ UNCHANGED state
          \/ \E st \in AttemptState : state' = [state EXCEPT ![cur[w]] = st]
      BY <2>2 DEF PrepareInstagramAttempt, MarkInstagramContainerPending,
                  MarkInstagramContainerReady, MarkInstagramContainerExpired, SaveState,
                  AttemptState
    <3> QED BY <1>0, <3>2, <3>3
  <2>3. CASE UNCHANGED state
    BY <2>3
  <2> QED
    BY <2>1, <2>2, <2>3
    DEF ScanDueAttempts, TakeAttempt, ProcessContentPublishAttempt, Start, Preflight,
        CreateMediaContainer, InspectInstagramAttempt, GetMediaContainerStatus,
        RecheckInstagramAttempt, Miss, Crash, dbVars
<1>3. \A a \in FacebookAttempts, v \in Workers :
        InFacebookCall(v, a)' => InFacebookCall(v, a) /\ pc'[v] = pc[v]
  <2> SUFFICES ASSUME NEW a \in FacebookAttempts, NEW v \in Workers,
                      cur'[v] = a, pc'[v] \in {"call", "fail", "done"}
               PROVE  cur[v] = a /\ pc'[v] = pc[v]
    BY DEF InFacebookCall
  <2>1. CASE Finish(w)
    BY <1>0, <2>1 DEF Finish, Goto
  <2>2. CASE UNCHANGED <<pc, cur>>
    BY <2>2
  <2>3. CASE TakeAttempt(w) \/ ProcessContentPublishAttempt(w)
    BY <1>0, <2>3 DEF TakeAttempt, ProcessContentPublishAttempt, Goto
  <2>4. ASSUME NEW step \in {"preflight", "block", "prepare", "claim", "inspect", "create",
                             "pending", "poll", "recheck", "expire", "ready", "publish"},
               UNCHANGED cur, Goto(w, step)
        PROVE  cur[v] = a /\ pc'[v] = pc[v]
    BY <1>0, <2>4 DEF Goto
  <2>5. ASSUME pc[w] \in {"create", "poll"}, UNCHANGED cur, Goto(w, "fail")
        PROVE  cur[v] = a /\ pc'[v] = pc[v]
    BY <1>0, <2>5 DEF Goto, WorkersHoldAttempts
  <2>6. CASE Start(w)
    BY <2>1, <2>4, <2>6 DEF Start
  <2>7. CASE Preflight(w) \/ InspectInstagramAttempt(w)
    BY <2>4, <2>7 DEF Preflight, InspectInstagramAttempt
  <2>8. CASE PrepareInstagramAttempt(w)
    BY <2>1, <2>4, <2>8 DEF PrepareInstagramAttempt
  <2>9. CASE CreateMediaContainer(w)
    BY <2>4, <2>5, <2>9 DEF CreateMediaContainer
  <2>10. CASE GetMediaContainerStatus(w)
    BY <2>1, <2>4, <2>5, <2>10 DEF GetMediaContainerStatus
  <2>11. CASE \/ MarkInstagramContainerPending(w) \/ MarkInstagramContainerReady(w)
              \/ RecheckInstagramAttempt(w) \/ Miss(w)
    BY <2>1, <2>4, <2>11
    DEF MarkInstagramContainerPending, MarkInstagramContainerReady, RecheckInstagramAttempt, Miss
  <2>12. CASE MarkAttemptBlocked(w) \/ MarkInstagramContainerExpired(w) \/ Crash(w)
    BY <2>1, <2>12 DEF MarkAttemptBlocked, MarkInstagramContainerExpired, Crash
  <2>13. CASE ScanDueAttempts(w)
    BY <2>2, <2>13 DEF ScanDueAttempts
  <2> QED
    BY <2>3, <2>6, <2>7, <2>8, <2>9, <2>10, <2>11, <2>12, <2>13
<1> QED BY <1>1, <1>2, <1>3, FacebookFrame

\* FacebookInv holds throughout.
LEMMA FacebookInvariant == Spec => []FacebookInv
<1>1. Init => FacebookInv
  <2> SUFFICES ASSUME Init PROVE FacebookInv
    OBVIOUS
  <2>1. \A a \in FacebookAttempts, w \in Workers : ~InFacebookCall(w, a)
    BY DEF Init, InFacebookCall
  <2>2. 0 <= 0 /\ 0 < MAX_PUBLISH_ATTEMPTS /\ 0 <= MAX_PUBLISH_ATTEMPTS
    BY ConstantsAssumption
  <2>3. \A a \in FacebookAttempts : calls[a] = 0 /\ attempt_count[a] = 0
    BY DEF Init, Attempts
  <2>4. ClaimIsVisible /\ FacebookCallExclusive
    BY <2>1 DEF ClaimIsVisible, FacebookCallExclusive
  <2>5. CallsAreCounted
    <3> SUFFICES ASSUME NEW a \in FacebookAttempts
                 PROVE  calls[a] <= attempt_count[a] /\ attempt_count[a] < MAX_PUBLISH_ATTEMPTS
      BY <2>1 DEF CallsAreCounted, InFacebookCall
    <3> QED BY <2>2, <2>3
  <2>6. FacebookRetryBudget
    BY <2>2, <2>3 DEF FacebookRetryBudget
  <2> QED BY <2>4, <2>5, <2>6 DEF FacebookInv
<1>2. TypeOK /\ WorkersHoldAttempts /\ FacebookInv /\ [Next]_vars => FacebookInv'
  <2> SUFFICES ASSUME TypeOK, WorkersHoldAttempts, FacebookInv, [Next]_vars PROVE FacebookInv'
    OBVIOUS
  <2>1. ASSUME NEW a \in Attempts, RequeueFailedPublishAttempt(a) PROVE FacebookInv'
    <3>1. /\ state[a] = "failed_retryable"
          /\ state' = [state EXCEPT ![a] = "queued"]
          /\ UNCHANGED <<attempt_count, calls, pc, cur>>
      BY <2>1 DEF RequeueFailedPublishAttempt, SaveState, workerVars, metaVars
    <3>2. \A b \in FacebookAttempts :
            state'[b] = state[b] \/ (state[b] = "failed_retryable" /\ state'[b] = "queued")
      BY <3>1 DEF TypeOK, Attempts
    <3> QED BY <3>1, <3>2, FacebookFrame DEF InFacebookCall
  <2>2. ASSUME UNCHANGED <<state, attempt_count, calls, pc, cur>> PROVE FacebookInv'
    BY <2>2, FacebookFrame DEF InFacebookCall
  <2>3. ASSUME NEW a \in Attempts, ContainerAges(a) \/ FitnessChanges(a) PROVE FacebookInv'
    BY <2>2, <2>3 DEF ContainerAges, FitnessChanges, workerVars, metaVars
  <2>4. CASE SubmitInternalReview \/ UNCHANGED vars
    BY <2>2, <2>4 DEF SubmitInternalReview, vars, dbVars, workerVars, metaVars
  <2> QED
    BY <2>1, <2>3, <2>4, ClaimKeepsFacebookInv, CallKeepsFacebookInv, AnswerKeepsFacebookInv,
       OtherStepsKeepFacebookInv
    DEF Next, WorkerStep
<1> QED BY <1>1, <1>2, TypeCorrect, WorkersKeepToTheirPath, PTL DEF Spec

\* Two workers never hold a publish call of one Facebook Page attempt
\* (the claim of process_facebook_page_publish_attempt).
THEOREM FacebookCallsExclude == Spec => []FacebookCallExclusive
<1>1. FacebookInv => FacebookCallExclusive
  BY DEF FacebookInv
<1> QED BY <1>1, FacebookInvariant, PTL

\* A Facebook Page attempt makes at most MAX_PUBLISH_ATTEMPTS publish calls in its life
\* (_mark_provider_failure and the claim).
THEOREM FacebookCallsBounded == Spec => []FacebookRetryBudget
<1>1. FacebookInv => FacebookRetryBudget
  BY DEF FacebookInv
<1> QED BY <1>1, FacebookInvariant, PTL

\* A stored outcome of a Facebook Page attempt is only ever replaced by a late blocked mark.
THEOREM FacebookOutcomesStand == Spec => FacebookOutcomeStands
<1> DEFINE A == \A a \in FacebookAttempts :
                  state[a] \in {"published", "failed_terminal"} =>
                    state'[a] \in {state[a], "blocked"}
<1>1. TypeOK /\ WorkersHoldAttempts /\ FacebookInv /\ [Next]_vars => [A]_vars
  <2> SUFFICES ASSUME TypeOK, WorkersHoldAttempts, FacebookInv, Next,
                      NEW a \in FacebookAttempts, state[a] \in {"published", "failed_terminal"}
               PROVE  state'[a] \in {state[a], "blocked"}
    OBVIOUS
  <2>0. /\ FacebookAttempts \cap InstagramAttempts = {}
        /\ state \in [Attempts -> AttemptState]
        /\ a \in Attempts
    BY ConstantsAssumption DEF Attempts, TypeOK
  <2>1. ASSUME NEW w \in Workers, MarkProviderFailure(w) \/ MarkAttemptPublished(w)
        PROVE  state'[a] = state[a]
    <3>1. pc[w] \in {"fail", "done"}
      BY <2>1 DEF MarkProviderFailure, MarkAttemptPublished
    <3>2. cur[w] # a
      BY <3>1 DEF FacebookInv, ClaimIsVisible, InFacebookCall
    <3>3. \/ UNCHANGED state
          \/ \E st : state' = [state EXCEPT ![cur[w]] = st]
      BY <2>1 DEF MarkProviderFailure, MarkAttemptPublished, SaveState
    <3> QED BY <2>0, <3>2, <3>3
  <2>2. ASSUME NEW w \in Workers, ClaimFacebookAttempt(w) PROVE state'[a] = state[a]
    BY <2>0, <2>2 DEF ClaimFacebookAttempt, PUBLISHABLE_ATTEMPT_STATES
  <2>3. ASSUME NEW w \in Workers,
               \/ PrepareInstagramAttempt(w) \/ MarkInstagramContainerPending(w)
               \/ MarkInstagramContainerReady(w) \/ MarkInstagramContainerExpired(w)
        PROVE  state'[a] = state[a]
    <3>1. pc[w] \in {"prepare", "pending", "ready", "expire"}
      BY <2>3 DEF PrepareInstagramAttempt, MarkInstagramContainerPending,
                  MarkInstagramContainerReady, MarkInstagramContainerExpired
    <3>2. cur[w] # a
      BY <3>1 DEF WorkersHoldAttempts
    <3>3. \/ UNCHANGED state
          \/ \E st : state' = [state EXCEPT ![cur[w]] = st]
      BY <2>3 DEF PrepareInstagramAttempt, MarkInstagramContainerPending,
                  MarkInstagramContainerReady, MarkInstagramContainerExpired, SaveState
    <3> QED BY <2>0, <3>2, <3>3
  <2>4. ASSUME NEW w \in Workers, MarkAttemptBlocked(w)
        PROVE  state'[a] \in {state[a], "blocked"}
    BY <2>0, <2>4 DEF MarkAttemptBlocked, SaveState
  <2>5. ASSUME NEW b \in Attempts, RequeueFailedPublishAttempt(b) PROVE state'[a] = state[a]
    BY <2>0, <2>5 DEF RequeueFailedPublishAttempt, SaveState
  <2>6. ASSUME UNCHANGED state PROVE state'[a] = state[a]
    BY <2>6
  <2>7. ASSUME NEW w \in Workers,
               \/ ScanDueAttempts(w) \/ TakeAttempt(w) \/ ProcessContentPublishAttempt(w)
               \/ Start(w) \/ Preflight(w) \/ CallFacebook(w) \/ CreateMediaContainer(w)
               \/ InspectInstagramAttempt(w) \/ GetMediaContainerStatus(w)
               \/ RecheckInstagramAttempt(w) \/ PublishMediaContainer(w) \/ Miss(w) \/ Crash(w)
        PROVE  state'[a] = state[a]
    BY <2>6, <2>7
    DEF ScanDueAttempts, TakeAttempt, ProcessContentPublishAttempt, Start, Preflight,
        CallFacebook, CreateMediaContainer, InspectInstagramAttempt, GetMediaContainerStatus,
        RecheckInstagramAttempt, PublishMediaContainer, PublishCall, Miss, Crash, dbVars
  <2>8. ASSUME NEW b \in Attempts, ContainerAges(b) \/ FitnessChanges(b)
        PROVE  state'[a] = state[a]
    BY <2>6, <2>8 DEF ContainerAges, FitnessChanges
  <2>9. CASE SubmitInternalReview
    BY <2>6, <2>9 DEF SubmitInternalReview
  <2> QED
    BY <2>1, <2>2, <2>3, <2>4, <2>5, <2>7, <2>8, <2>9 DEF Next, WorkerStep
<1> QED
  BY <1>1, TypeCorrect, WorkersKeepToTheirPath, FacebookInvariant, PTL
  DEF Spec, FacebookOutcomeStands

-----------------------------------------------------------------------------
(***************************************************************************)
(* Recorded posts exist.                                                   *)
(***************************************************************************)

\* Workers that hold an answer with a post id and have not recorded it yet.
AboutToRecord(a) == {w \in Workers : pc[w] = "done" /\ cur[w] = a}

\* Recorded posts and answers about to be recorded are covered by posts on Meta (up to the
\* bound of the counters).
PostsCoverRecords ==
  \A a \in Attempts :
    live[a] = CounterCap \/ recorded[a] + Cardinality(AboutToRecord(a)) <= live[a]

PublishedHasRecord ==
  \A a \in Attempts : state[a] = "published" => recorded[a] > 0

\* A set of workers is finite, and removing some makes it no larger.
LEMMA FewerToRecord ==
  ASSUME NEW a \in Attempts
  PROVE  /\ IsFiniteSet(AboutToRecord(a))
         /\ Cardinality(AboutToRecord(a)) \in Nat
         /\ AboutToRecord(a)' \subseteq AboutToRecord(a) =>
              /\ Cardinality(AboutToRecord(a)') <= Cardinality(AboutToRecord(a))
              /\ Cardinality(AboutToRecord(a)') \in Nat
<1>1. IsFiniteSet(Workers)
  BY ConstantsAssumption
<1>2. IsFiniteSet(AboutToRecord(a))
  BY <1>1, FS_Subset DEF AboutToRecord
<1>3. Cardinality(AboutToRecord(a)) \in Nat
  BY <1>2, FS_CardinalityType
<1>4. ASSUME AboutToRecord(a)' \subseteq AboutToRecord(a)
      PROVE  /\ Cardinality(AboutToRecord(a)') <= Cardinality(AboutToRecord(a))
             /\ Cardinality(AboutToRecord(a)') \in Nat
  <2> DEFINE T == AboutToRecord(a)'
             S == AboutToRecord(a)
  <2>1. IsFiniteSet(T) /\ Cardinality(T) <= Cardinality(S)
    <3> HIDE DEF T
    <3>1. T \subseteq S BY <1>4 DEF T
    <3> QED BY <1>2, <3>1, FS_Subset
  <2>2. Cardinality(T) \in Nat
    <3> HIDE DEF T
    <3> QED BY <2>1, FS_CardinalityType
  <2> QED BY <2>1, <2>2
<1> QED BY <1>2, <1>3, <1>4

\* A step that records nothing and lets no worker reach the recording keeps the cover.
LEMMA CoverFrame ==
  ASSUME TypeOK, PostsCoverRecords, UNCHANGED <<recorded, live>>,
         \A v \in Workers : pc'[v] = "done" => pc[v] = "done" /\ cur'[v] = cur[v]
  PROVE  PostsCoverRecords'
<1> SUFFICES ASSUME NEW a \in Attempts
             PROVE  live[a] = CounterCap
                    \/ recorded[a] + Cardinality(AboutToRecord(a)') <= live[a]
  BY DEF PostsCoverRecords
<1>1. AboutToRecord(a)' \subseteq AboutToRecord(a)
  BY DEF AboutToRecord
<1>2. recorded[a] \in Nat /\ live[a] \in Nat
  BY ConstantsAssumption DEF TypeOK
<1>3. live[a] = CounterCap \/ recorded[a] + Cardinality(AboutToRecord(a)) <= live[a]
  BY DEF PostsCoverRecords
<1> QED BY <1>1, <1>2, <1>3, FewerToRecord

\* A call that answers with a post id has created the post.
LEMMA CallKeepsCover ==
  ASSUME TypeOK, PostsCoverRecords, NEW w \in Workers,
         CallFacebook(w) \/ PublishMediaContainer(w)
  PROVE  PostsCoverRecords'
<1>0. PublishCall(w) /\ pc[w] \in {"call", "publish"}
  BY DEF CallFacebook, PublishMediaContainer
<1>1. PICK posted \in BOOLEAN, step \in {"done", "fail"} :
        /\ step = "done" => posted
        /\ live' = IF posted THEN [live EXCEPT ![cur[w]] = Bump(live[cur[w]])] ELSE live
        /\ pc' = [pc EXCEPT ![w] = step]
        /\ UNCHANGED <<cur, recorded>>
  BY <1>0 DEF PublishCall, Goto, dbVars
<1> SUFFICES ASSUME NEW a \in Attempts
             PROVE  live'[a] = CounterCap
                    \/ recorded[a] + Cardinality(AboutToRecord(a)') <= live'[a]
  BY <1>1 DEF PostsCoverRecords
<1> DEFINE S == AboutToRecord(a)
           T == AboutToRecord(a)'
<1>2. /\ recorded[a] \in 0 .. CounterCap /\ live[a] \in 0 .. CounterCap
      /\ live[a] = CounterCap \/ recorded[a] + Cardinality(S) <= live[a]
      /\ IsFiniteSet(S) /\ Cardinality(S) \in Nat
      /\ CounterCap \in Nat
  BY FewerToRecord, ConstantsAssumption DEF TypeOK, PostsCoverRecords
<1>3. live'[a] = live[a] \/ live'[a] = Bump(live[a])
  BY <1>1 DEF TypeOK
<1>4. CASE step = "done" /\ cur[w] = a
  <2>1. T = S \cup {w} /\ w \notin S
    BY <1>0, <1>1, <1>4 DEF AboutToRecord, TypeOK
  <2>2. live'[a] = Bump(live[a])
    BY <1>1, <1>4 DEF TypeOK
  <2> HIDE DEF S, T
  <2>3. Cardinality(T) = Cardinality(S) + 1
    BY <1>2, <2>1, FS_AddElement
  <2>4. live'[a] = CounterCap \/ recorded[a] + Cardinality(T) <= live'[a]
    BY <1>2, <2>2, <2>3 DEF Bump
  <2> QED BY <2>4 DEF T
<1>5. CASE ~(step = "done" /\ cur[w] = a)
  <2>1. T \subseteq S
    BY <1>1, <1>5 DEF AboutToRecord, TypeOK
  <2>2. Cardinality(T) <= Cardinality(S) /\ Cardinality(T) \in Nat
    BY <2>1, FewerToRecord
  <2> HIDE DEF S, T
  <2>3. live'[a] = CounterCap \/ recorded[a] + Cardinality(T) <= live'[a]
    BY <1>2, <1>3, <2>2 DEF Bump
  <2> QED BY <2>3 DEF T
<1> QED BY <1>4, <1>5

\* Recording uses up the answer it records.
LEMMA RecordKeepsCover ==
  ASSUME TypeOK, PostsCoverRecords, NEW w \in Workers, MarkAttemptPublished(w)
  PROVE  PostsCoverRecords'
<1> SUFFICES ASSUME NEW a \in Attempts
             PROVE  live[a] = CounterCap
                    \/ recorded'[a] + Cardinality(AboutToRecord(a)') <= live[a]
  BY DEF PostsCoverRecords, MarkAttemptPublished, metaVars
<1> DEFINE S == AboutToRecord(a)
           T == AboutToRecord(a)'
<1>1. /\ recorded[a] \in 0 .. CounterCap /\ live[a] \in 0 .. CounterCap
      /\ live[a] = CounterCap \/ recorded[a] + Cardinality(S) <= live[a]
      /\ IsFiniteSet(S) /\ Cardinality(S) \in Nat
      /\ CounterCap \in Nat
  BY FewerToRecord, ConstantsAssumption DEF TypeOK, PostsCoverRecords
<1>2. /\ pc[w] = "done"
      /\ pc' = [pc EXCEPT ![w] = "idle"]
      /\ cur' = [cur EXCEPT ![w] = NoAttempt]
      /\ UNCHANGED recorded \/ recorded' = [recorded EXCEPT ![cur[w]] = Bump(recorded[cur[w]])]
  BY DEF MarkAttemptPublished, Finish, Goto
<1>3. CASE cur[w] = a
  <2>1. w \in S /\ T = S \ {w}
    BY <1>2, <1>3 DEF AboutToRecord, TypeOK
  <2>2. recorded'[a] \in {recorded[a], Bump(recorded[a])}
    BY <1>2, <1>3 DEF TypeOK
  <2> HIDE DEF S, T
  <2>3. Cardinality(T) = Cardinality(S) - 1
    BY <1>1, <2>1, FS_RemoveElement
  <2>4. live[a] = CounterCap \/ recorded'[a] + Cardinality(T) <= live[a]
    BY <1>1, <2>2, <2>3 DEF Bump
  <2> QED BY <2>4 DEF T
<1>4. CASE cur[w] # a
  <2>1. T \subseteq S /\ recorded'[a] = recorded[a]
    BY <1>2, <1>4 DEF AboutToRecord, TypeOK
  <2>2. Cardinality(T) <= Cardinality(S) /\ Cardinality(T) \in Nat
    BY <2>1, FewerToRecord
  <2> HIDE DEF S, T
  <2>3. live[a] = CounterCap \/ recorded'[a] + Cardinality(T) <= live[a]
    BY <1>1, <2>1, <2>2
  <2> QED BY <2>3 DEF T
<1> QED BY <1>3, <1>4

\* The cover holds throughout.
LEMMA CoverInvariant == Spec => []PostsCoverRecords
<1>1. Init => PostsCoverRecords
  <2> SUFFICES ASSUME Init, NEW a \in Attempts
               PROVE  recorded[a] + Cardinality(AboutToRecord(a)) <= live[a]
    BY DEF PostsCoverRecords
  <2>1. AboutToRecord(a) = {} /\ recorded[a] = 0 /\ live[a] = 0
    BY DEF Init, AboutToRecord
  <2> QED BY <2>1, FS_EmptySet
<1>2. TypeOK /\ PostsCoverRecords /\ [Next]_vars => PostsCoverRecords'
  <2> SUFFICES ASSUME TypeOK, PostsCoverRecords, [Next]_vars PROVE PostsCoverRecords'
    OBVIOUS
  <2> USE DEF dbVars, workerVars, metaVars
  <2>1. ASSUME NEW w \in Workers, Finish(w), UNCHANGED <<recorded, live>>
        PROVE  PostsCoverRecords'
    <3>1. \A v \in Workers : pc'[v] = "done" => pc[v] = "done" /\ cur'[v] = cur[v]
      BY <2>1 DEF Finish, Goto, TypeOK
    <3> QED BY <2>1, <3>1, CoverFrame
  <2>2. ASSUME NEW w \in Workers, NEW step \in Steps \ {"done"}, Goto(w, step),
               \A v \in Workers : v # w => cur'[v] = cur[v],
               UNCHANGED <<recorded, live>>
        PROVE  PostsCoverRecords'
    <3>1. \A v \in Workers : pc'[v] = "done" => pc[v] = "done" /\ cur'[v] = cur[v]
      BY <2>2 DEF Goto, TypeOK
    <3> QED BY <2>2, <3>1, CoverFrame
  <2>3. ASSUME UNCHANGED <<pc, cur, recorded, live>> PROVE PostsCoverRecords'
    BY <2>3, CoverFrame
  <2>4. ASSUME NEW w \in Workers, TakeAttempt(w) \/ ProcessContentPublishAttempt(w)
        PROVE  PostsCoverRecords'
    <3>1. \A v \in Workers : v # w => cur'[v] = cur[v]
      BY <2>4 DEF TakeAttempt, ProcessContentPublishAttempt, TypeOK
    <3> QED BY <2>2, <2>4, <3>1 DEF TakeAttempt, ProcessContentPublishAttempt, Steps
  <2>5. ASSUME NEW w \in Workers, Start(w) \/ RecheckInstagramAttempt(w)
        PROVE  PostsCoverRecords'
    BY <2>1, <2>2, <2>5 DEF Start, RecheckInstagramAttempt, Steps
  <2>6. ASSUME NEW w \in Workers, Preflight(w) \/ InspectInstagramAttempt(w)
        PROVE  PostsCoverRecords'
    BY <2>2, <2>6 DEF Preflight, InspectInstagramAttempt, Steps, LockingSteps
  <2>7. ASSUME NEW w \in Workers,
               \/ MarkAttemptBlocked(w) \/ MarkProviderFailure(w)
               \/ MarkInstagramContainerExpired(w) \/ Crash(w)
        PROVE  PostsCoverRecords'
    BY <2>1, <2>7
    DEF MarkAttemptBlocked, MarkProviderFailure, MarkInstagramContainerExpired, Crash
  <2>8. ASSUME NEW w \in Workers, ClaimFacebookAttempt(w) PROVE PostsCoverRecords'
    BY <2>1, <2>2, <2>8 DEF ClaimFacebookAttempt, Steps
  <2>9. ASSUME NEW w \in Workers, PrepareInstagramAttempt(w) PROVE PostsCoverRecords'
    BY <2>1, <2>2, <2>9 DEF PrepareInstagramAttempt, Steps
  <2>10. ASSUME NEW w \in Workers, CreateMediaContainer(w) \/ GetMediaContainerStatus(w)
         PROVE  PostsCoverRecords'
    BY <2>1, <2>2, <2>10 DEF CreateMediaContainer, GetMediaContainerStatus, Steps, LockingSteps
  <2>11. ASSUME NEW w \in Workers,
                MarkInstagramContainerPending(w) \/ MarkInstagramContainerReady(w)
         PROVE  PostsCoverRecords'
    BY <2>2, <2>11 DEF MarkInstagramContainerPending, MarkInstagramContainerReady, Steps
  <2>12. ASSUME NEW w \in Workers, Miss(w) PROVE PostsCoverRecords'
    BY <2>1, <2>2, <2>12 DEF Miss, Steps
  <2>13. ASSUME NEW w \in Workers, ScanDueAttempts(w) PROVE PostsCoverRecords'
    BY <2>3, <2>13 DEF ScanDueAttempts
  <2>14. ASSUME NEW a \in Attempts,
                RequeueFailedPublishAttempt(a) \/ ContainerAges(a) \/ FitnessChanges(a)
         PROVE  PostsCoverRecords'
    BY <2>3, <2>14 DEF RequeueFailedPublishAttempt, ContainerAges, FitnessChanges
  <2>15. CASE SubmitInternalReview \/ UNCHANGED vars
    BY <2>3, <2>15 DEF SubmitInternalReview, vars
  <2> QED
    BY <2>4, <2>5, <2>6, <2>7, <2>8, <2>9, <2>10, <2>11, <2>12, <2>13, <2>14, <2>15,
       CallKeepsCover, RecordKeepsCover
    DEF Next, WorkerStep
<1> QED BY <1>1, <1>2, TypeCorrect, PTL DEF Spec

\* Only the recording transaction writes `published`.
LEMMA PublishedIsRecorded == Spec => []PublishedHasRecord
<1>1. Init => PublishedHasRecord
  BY DEF Init, PublishedHasRecord
<1>2. TypeOK /\ PublishedHasRecord /\ [Next]_vars => PublishedHasRecord'
  <2> SUFFICES ASSUME TypeOK, PublishedHasRecord, [Next]_vars,
                      NEW a \in Attempts, state'[a] = "published"
               PROVE  recorded'[a] > 0
    BY DEF PublishedHasRecord
  <2>1. ASSUME state'[a] = state[a], UNCHANGED recorded PROVE recorded'[a] > 0
    BY <2>1 DEF PublishedHasRecord
  <2>2. ASSUME NEW w \in Workers, MarkAttemptPublished(w) PROVE recorded'[a] > 0
    <3>1. recorded[a] \in 0 .. CounterCap /\ CounterCap \in Nat /\ CounterCap > 0
      BY ConstantsAssumption DEF TypeOK
    <3>2. CASE cur[w] = a /\ state[a] # "published"
      <4>1. recorded'[a] = Bump(recorded[a])
        BY <2>2, <3>2 DEF MarkAttemptPublished, TypeOK
      <4> QED BY <3>1, <4>1 DEF Bump
    <3>3. CASE cur[w] # a
      <4>1. state'[a] = state[a] /\ recorded'[a] = recorded[a]
        BY <2>2, <3>3 DEF MarkAttemptPublished, SaveState, TypeOK
      <4> QED BY <4>1 DEF PublishedHasRecord
    <3>4. CASE cur[w] = a /\ state[a] = "published"
      BY <2>1, <2>2, <3>4 DEF MarkAttemptPublished
    <3> QED BY <3>2, <3>3, <3>4
  <2>3. ASSUME NEW b, NEW st, st # "published",
               state' = [state EXCEPT ![b] = st], UNCHANGED recorded
        PROVE  recorded'[a] > 0
    BY <2>1, <2>3 DEF TypeOK
  <2>4. ASSUME NEW w \in Workers,
               \/ MarkAttemptBlocked(w) \/ MarkProviderFailure(w)
               \/ MarkInstagramContainerPending(w) \/ MarkInstagramContainerReady(w)
               \/ MarkInstagramContainerExpired(w)
        PROVE  recorded'[a] > 0
    <3>1. \E b, st : st # "published" /\ state' = [state EXCEPT ![b] = st]
      <4> DEFINE st == FailureState(Bump(attempt_count[cur[w]]), verdict[w] = "retryable")
      <4>1. CASE MarkProviderFailure(w)
        <5>1. st # "published"
          BY DEF FailureState
        <5>2. state' = [state EXCEPT ![cur[w]] = st]
          BY <4>1 DEF MarkProviderFailure, SaveState
        <5> HIDE DEF st
        <5> QED BY <5>1, <5>2
      <4>2. CASE ~MarkProviderFailure(w)
        BY <2>4, <4>2
        DEF MarkAttemptBlocked, MarkInstagramContainerPending, MarkInstagramContainerReady,
            MarkInstagramContainerExpired, SaveState
      <4> QED BY <4>1, <4>2
    <3>2. UNCHANGED recorded
      BY <2>4
      DEF MarkAttemptBlocked, MarkProviderFailure, MarkInstagramContainerPending,
          MarkInstagramContainerReady, MarkInstagramContainerExpired
    <3> QED BY <2>3, <3>1, <3>2
  <2>5. ASSUME NEW w \in Workers, ClaimFacebookAttempt(w) \/ PrepareInstagramAttempt(w)
        PROVE  recorded'[a] > 0
    BY <2>1, <2>3, <2>5 DEF ClaimFacebookAttempt, PrepareInstagramAttempt
  <2>6. ASSUME NEW b \in Attempts, RequeueFailedPublishAttempt(b) PROVE recorded'[a] > 0
    BY <2>3, <2>6 DEF RequeueFailedPublishAttempt, SaveState
  <2>7. ASSUME NEW w \in Workers,
               \/ ScanDueAttempts(w) \/ TakeAttempt(w) \/ ProcessContentPublishAttempt(w)
               \/ Start(w) \/ Preflight(w) \/ CallFacebook(w) \/ CreateMediaContainer(w)
               \/ InspectInstagramAttempt(w) \/ GetMediaContainerStatus(w)
               \/ RecheckInstagramAttempt(w) \/ PublishMediaContainer(w) \/ Miss(w) \/ Crash(w)
        PROVE  recorded'[a] > 0
    BY <2>1, <2>7
    DEF ScanDueAttempts, TakeAttempt, ProcessContentPublishAttempt, Start, Preflight,
        CallFacebook, CreateMediaContainer, InspectInstagramAttempt, GetMediaContainerStatus,
        RecheckInstagramAttempt, PublishMediaContainer, PublishCall, Miss, Crash, dbVars
  <2>8. ASSUME NEW b \in Attempts, ContainerAges(b) \/ FitnessChanges(b)
        PROVE  recorded'[a] > 0
    BY <2>1, <2>8 DEF ContainerAges, FitnessChanges
  <2>9. CASE SubmitInternalReview \/ UNCHANGED vars
    BY <2>1, <2>9 DEF SubmitInternalReview, vars, dbVars
  <2> QED
    BY <2>2, <2>4, <2>5, <2>6, <2>7, <2>8, <2>9 DEF Next, WorkerStep
<1> QED BY <1>1, <1>2, TypeCorrect, PTL DEF Spec

\* Every recorded post of an attempt is a post of its own on Meta, and a published attempt
\* has a record (_mark_attempt_published), on both channels, for any number of workers that
\* publish one attempt at once.
THEOREM RecordsAreLive == Spec => []RecordedPostsAreLive
<1>1. TypeOK /\ PostsCoverRecords /\ PublishedHasRecord => RecordedPostsAreLive
  <2> SUFFICES ASSUME TypeOK, PostsCoverRecords, PublishedHasRecord, NEW a \in Attempts
               PROVE  recorded[a] <= live[a] /\ (state[a] = "published" => recorded[a] > 0)
    BY DEF RecordedPostsAreLive
  <2>1. recorded[a] \in 0 .. CounterCap /\ live[a] \in Nat /\ CounterCap \in Nat
    BY ConstantsAssumption DEF TypeOK
  <2>2. live[a] = CounterCap \/ recorded[a] + Cardinality(AboutToRecord(a)) <= live[a]
    BY DEF PostsCoverRecords
  <2>3. recorded[a] <= live[a]
    BY <2>1, <2>2, FewerToRecord
  <2> QED BY <2>3 DEF PublishedHasRecord
<1> QED BY <1>1, TypeCorrect, CoverInvariant, PublishedIsRecorded, PTL

(***************************************************************************)
(* PublishPipeline implements AttemptLifecycle: every step of the          *)
(* processor moves at most one Facebook Page attempt, by a step of its     *)
(* abstract life or by none.                                               *)
(***************************************************************************)

(***************************************************************************)
(* What a step does to a Facebook Page attempt.                            *)
(***************************************************************************)

CallSteps == {"call", "fail", "done"}

CountersStay(a) == recorded'[a] = recorded[a] /\ calls'[a] = calls[a] /\ live'[a] = live[a]

\* Nothing of it changes.
Same(a) ==
  /\ state'[a] = state[a] /\ CountersStay(a)
  /\ \A v \in Workers : /\ InFacebookCall(v, a)' <=> InFacebookCall(v, a)
                        /\ InFacebookCall(v, a) => pc'[v] = pc[v]

\* It is blocked or queued again, or loses a worker.
Quiet(a) ==
  /\ CountersStay(a)
  /\ state'[a] \in {state[a], "blocked"} \/ (state[a] = "failed_retryable" /\ state'[a] = "queued")
  /\ \A v \in Workers : InFacebookCall(v, a)' => InFacebookCall(v, a) /\ pc'[v] = pc[v]

\* It is claimed, called, given a failure, given a record.
Claimed(w, a) ==
  /\ CountersStay(a)
  /\ state[a] \in PUBLISHABLE_ATTEMPT_STATES /\ state'[a] = "publishing"
  /\ \A v \in Workers : InFacebookCall(v, a)' <=> v = w
  /\ pc'[w] = "call"

Called(w, a) ==
  /\ InFacebookCall(w, a) /\ pc[w] = "call"
  /\ state'[a] = state[a] /\ recorded'[a] = recorded[a]
  /\ calls[a] < MAX_PUBLISH_ATTEMPTS /\ calls'[a] = calls[a] + 1
  /\ live'[a] = live[a] \/ live'[a] = Bump(live[a])
  /\ \A v \in Workers : InFacebookCall(v, a)' <=> v = w
  /\ pc'[w] \in {"fail", "done"} /\ (pc'[w] = "done" => live'[a] = Bump(live[a]))

Failed(w, a) ==
  /\ InFacebookCall(w, a) /\ pc[w] = "fail" /\ CountersStay(a)
  /\ state'[a] \in {"failed_retryable", "failed_terminal"}
  /\ state'[a] = "failed_retryable" => calls[a] < MAX_PUBLISH_ATTEMPTS
  /\ \A v \in Workers : ~InFacebookCall(v, a)'

Recorded(w, a) ==
  /\ InFacebookCall(w, a) /\ pc[w] = "done"
  /\ calls'[a] = calls[a] /\ live'[a] = live[a]
  /\ state'[a] = "published" /\ recorded'[a] > 0
  /\ \A v \in Workers : ~InFacebookCall(v, a)'

Moved(a) ==
  Same(a) \/ Quiet(a) \/ \E w \in Workers : Claimed(w, a) \/ Called(w, a) \/ Failed(w, a) \/ Recorded(w, a)

\* At most attempt b is touched.
Touches(b) ==
  /\ \A a \in FacebookAttempts \ {b} : Same(a)
  /\ b \in FacebookAttempts => Moved(b)

ProcessorInv == TypeOK /\ WorkersHoldAttempts /\ FacebookInv

\* A worker's step writes its own memory and the row of the attempt it holds.
OwnStep(w) ==
  /\ \A v \in Workers \ {w} : pc'[v] = pc[v] /\ cur'[v] = cur[v]
  /\ cur'[w] = cur[w] \/ pc'[w] \notin CallSteps
  /\ \A a \in Attempts \ {cur[w]} : state'[a] = state[a] /\ CountersStay(a)

LEMMA OwnStepIsLocal ==
  ASSUME TypeOK, NEW w \in Workers, OwnStep(w)
  PROVE  \A a \in FacebookAttempts \ {cur[w]} : Same(a)
BY DEF OwnStep, Same, InFacebookCall, CallSteps, Attempts

\* Every step of a worker is of this shape.
LEMMA WorkerStepsAreOwn ==
  ASSUME ProcessorInv, NEW w \in Workers,
         WorkerStep(w) \/ ScanDueAttempts(w) \/ ProcessContentPublishAttempt(w) \/ Miss(w) \/ Crash(w)
  PROVE  OwnStep(w)
<1> USE DEF dbVars, workerVars, metaVars, CountersStay
<1>0. /\ pc \in [Workers -> Steps] /\ cur \in [Workers -> Attempts \cup {NoAttempt}]
      /\ state \in [Attempts -> AttemptState]
      /\ recorded \in [Attempts -> 0 .. CounterCap] /\ calls \in [Attempts -> 0 .. CounterCap]
      /\ live \in [Attempts -> 0 .. CounterCap]
  BY DEF ProcessorInv, TypeOK
<1>1. ASSUME Finish(w)
      PROVE  /\ \A v \in Workers \ {w} : pc'[v] = pc[v] /\ cur'[v] = cur[v]
             /\ cur'[w] = cur[w] \/ pc'[w] \notin CallSteps
  BY <1>0, <1>1 DEF Finish, Goto, CallSteps
<1>2. ASSUME NEW step, Goto(w, step), UNCHANGED cur
      PROVE  /\ \A v \in Workers \ {w} : pc'[v] = pc[v] /\ cur'[v] = cur[v]
             /\ cur'[w] = cur[w] \/ pc'[w] \notin CallSteps
  BY <1>0, <1>2 DEF Goto
<1>3. ASSUME NEW st, SaveState(cur[w], st) PROVE \A a \in Attempts \ {cur[w]} : state'[a] = state[a]
  BY <1>0, <1>3 DEF SaveState
<1>4. CASE ScanDueAttempts(w)
  BY <1>4 DEF ScanDueAttempts, OwnStep
<1>5. CASE TakeAttempt(w) \/ ProcessContentPublishAttempt(w)
  BY <1>0, <1>5 DEF TakeAttempt, ProcessContentPublishAttempt, Goto, OwnStep, CallSteps
<1>6. CASE Start(w)
  BY <1>1, <1>2, <1>6 DEF Start, OwnStep
<1>7. CASE Preflight(w) \/ CreateMediaContainer(w) \/ InspectInstagramAttempt(w) \/ GetMediaContainerStatus(w)
           \/ RecheckInstagramAttempt(w)
  BY <1>1, <1>2, <1>7 DEF Preflight, CreateMediaContainer, InspectInstagramAttempt,
     GetMediaContainerStatus, RecheckInstagramAttempt, OwnStep
<1>8. CASE MarkAttemptBlocked(w) \/ MarkInstagramContainerExpired(w) \/ MarkProviderFailure(w)
  BY <1>1, <1>3, <1>8 DEF MarkAttemptBlocked, MarkInstagramContainerExpired, MarkProviderFailure, OwnStep
<1>9. CASE MarkAttemptPublished(w)
  BY <1>0, <1>1, <1>3, <1>9 DEF MarkAttemptPublished, OwnStep
<1>10. CASE ClaimFacebookAttempt(w)
  BY <1>0, <1>1, <1>2, <1>10 DEF ClaimFacebookAttempt, OwnStep
<1>11. CASE CallFacebook(w) \/ PublishMediaContainer(w)
  <2>1. PICK step : Goto(w, step) /\ UNCHANGED cur
    BY <1>11 DEF CallFacebook, PublishMediaContainer, PublishCall
  <2>2. \A a \in Attempts \ {cur[w]} : state'[a] = state[a] /\ CountersStay(a)
    BY <1>0, <1>11 DEF CallFacebook, PublishMediaContainer, PublishCall
  <2> QED BY <1>2, <2>1, <2>2 DEF OwnStep
<1>12. CASE PrepareInstagramAttempt(w)
  BY <1>0, <1>1, <1>2, <1>12 DEF PrepareInstagramAttempt, OwnStep
<1>13. CASE MarkInstagramContainerPending(w) \/ MarkInstagramContainerReady(w)
  BY <1>2, <1>3, <1>13 DEF MarkInstagramContainerPending, MarkInstagramContainerReady, OwnStep
<1>14. CASE Miss(w)
  BY <1>1, <1>2, <1>14 DEF Miss, OwnStep
<1>15. CASE Crash(w)
  BY <1>1, <1>15 DEF Crash, OwnStep
<1> QED
  BY <1>4, <1>5, <1>6, <1>7, <1>8, <1>9, <1>10, <1>11, <1>12, <1>13, <1>14, <1>15 DEF WorkerStep

\* A worker of a Facebook Page attempt that neither claims, calls nor answers leaves it as it
\* is, blocks it, or is gone.
LEMMA OtherStepsAreQuiet ==
  ASSUME ProcessorInv, NEW w \in Workers, NEW b \in FacebookAttempts, cur[w] = b,
         \/ ScanDueAttempts(w) \/ TakeAttempt(w) \/ ProcessContentPublishAttempt(w)
         \/ Start(w) \/ Preflight(w) \/ MarkAttemptBlocked(w)
         \/ PrepareInstagramAttempt(w) \/ CreateMediaContainer(w)
         \/ MarkInstagramContainerPending(w) \/ InspectInstagramAttempt(w)
         \/ GetMediaContainerStatus(w) \/ MarkInstagramContainerReady(w)
         \/ RecheckInstagramAttempt(w) \/ PublishMediaContainer(w)
         \/ MarkInstagramContainerExpired(w) \/ Miss(w) \/ Crash(w)
  PROVE  Quiet(b)
<1> USE DEF dbVars, workerVars, metaVars
<1>0. /\ pc \in [Workers -> Steps] /\ cur \in [Workers -> Attempts \cup {NoAttempt}]
      /\ state \in [Attempts -> AttemptState] /\ NoAttempt \notin Attempts
      /\ pc[w] \in {"idle", "start", "preflight", "block", "claim", "call", "fail", "done"}
      /\ cur[w] \in Attempts /\ cur[w] \notin InstagramAttempts
  BY ConstantsAssumption DEF ProcessorInv, TypeOK, WorkersHoldAttempts, Attempts
<1>1. \/ ScanDueAttempts(w) \/ TakeAttempt(w) \/ ProcessContentPublishAttempt(w)
      \/ Start(w) \/ Preflight(w) \/ MarkAttemptBlocked(w) \/ Miss(w) \/ Crash(w)
  BY <1>0
     DEF PrepareInstagramAttempt, CreateMediaContainer, MarkInstagramContainerPending,
         InspectInstagramAttempt, GetMediaContainerStatus, MarkInstagramContainerReady,
         RecheckInstagramAttempt, PublishMediaContainer, MarkInstagramContainerExpired
<1>2. CountersStay(b) /\ state'[b] \in {state[b], "blocked"}
  BY <1>0, <1>1
     DEF ScanDueAttempts, TakeAttempt, ProcessContentPublishAttempt, Start, Preflight,
         MarkAttemptBlocked, Miss, Crash, CountersStay, SaveState
<1>3. OwnStep(w)
  BY WorkerStepsAreOwn DEF WorkerStep
<1>4. (pc'[w] = pc[w] /\ cur'[w] = cur[w]) \/ pc'[w] \notin CallSteps
  BY <1>0, <1>1
     DEF ScanDueAttempts, TakeAttempt, ProcessContentPublishAttempt, Start, Preflight,
         MarkAttemptBlocked, Miss, Crash, Finish, Goto, CallSteps
<1> QED BY <1>2, <1>3, <1>4 DEF Quiet, OwnStep, InFacebookCall, CallSteps

\* The others do what their names say.
LEMMA ClaimMoves ==
  ASSUME ProcessorInv, NEW w \in Workers, NEW b \in FacebookAttempts, cur[w] = b,
         ClaimFacebookAttempt(w)
  PROVE  Moved(b)
<1>0. /\ pc \in [Workers -> Steps] /\ cur \in [Workers -> Attempts \cup {NoAttempt}]
      /\ state \in [Attempts -> AttemptState] /\ NoAttempt \notin Attempts /\ b \in Attempts
  BY ConstantsAssumption DEF ProcessorInv, TypeOK, Attempts
<1>1. CountersStay(b)
  BY DEF ClaimFacebookAttempt, CountersStay, metaVars
<1>2. CASE state[b] \in PUBLISHABLE_ATTEMPT_STATES
  <2>1. \A v \in Workers : ~InFacebookCall(v, b)
    BY <1>2 DEF ProcessorInv, FacebookInv, ClaimIsVisible, PUBLISHABLE_ATTEMPT_STATES
  <2>2. state'[b] = "publishing" /\ pc' = [pc EXCEPT ![w] = "call"] /\ cur' = cur
    BY <1>0, <1>2 DEF ClaimFacebookAttempt, Goto
  <2>3. \A v \in Workers : InFacebookCall(v, b)' <=> v = w
    BY <1>0, <2>1, <2>2 DEF InFacebookCall
  <2>4. pc'[w] = "call"
    BY <1>0, <2>2
  <2> QED BY <1>1, <1>2, <2>2, <2>3, <2>4 DEF Claimed, Moved
<1>3. CASE state[b] \notin PUBLISHABLE_ATTEMPT_STATES
  <2>1. UNCHANGED state /\ Finish(w) /\ pc[w] = "claim"
    BY <1>3 DEF ClaimFacebookAttempt
  <2>2. \A v \in Workers : InFacebookCall(v, b)' => InFacebookCall(v, b) /\ pc'[v] = pc[v]
    BY <1>0, <2>1 DEF Finish, Goto, InFacebookCall
  <2> QED BY <1>1, <2>1, <2>2 DEF Quiet, Moved
<1> QED BY <1>2, <1>3

LEMMA CallMoves ==
  ASSUME ProcessorInv, NEW w \in Workers, NEW b \in FacebookAttempts, cur[w] = b, CallFacebook(w)
  PROVE  Called(w, b)
<1>0. /\ pc \in [Workers -> Steps] /\ cur \in [Workers -> Attempts \cup {NoAttempt}] /\ b \in Attempts
      /\ calls \in [Attempts -> 0 .. CounterCap] /\ live \in [Attempts -> 0 .. CounterCap]
  BY DEF ProcessorInv, TypeOK, Attempts
<1>1. pc[w] = "call" /\ InFacebookCall(w, b) /\ UNCHANGED <<state, recorded, cur>>
  BY DEF CallFacebook, PublishCall, InFacebookCall, dbVars
<1>2. calls' = [calls EXCEPT ![b] = Bump(calls[b])]
  BY DEF CallFacebook, PublishCall
<1>3. PICK answer \in {"ok", "retryable", "terminal"}, posted \in BOOLEAN :
        /\ answer = "ok" => posted
        /\ live' = IF posted THEN [live EXCEPT ![b] = Bump(live[b])] ELSE live
        /\ pc' = [pc EXCEPT ![w] = IF answer = "ok" THEN "done" ELSE "fail"]
  BY DEF CallFacebook, PublishCall, Goto
<1>4. calls[b] < MAX_PUBLISH_ATTEMPTS
  <2>1. calls[b] <= attempt_count[b] /\ attempt_count[b] < MAX_PUBLISH_ATTEMPTS
    BY <1>1 DEF ProcessorInv, FacebookInv, CallsAreCounted
  <2>2. attempt_count[b] \in Nat /\ calls[b] \in Nat /\ MAX_PUBLISH_ATTEMPTS \in Nat
    BY <1>0, ConstantsAssumption DEF ProcessorInv, TypeOK
  <2> QED BY <2>1, <2>2
<1>5. calls'[b] = calls[b] + 1
  BY <1>0, <1>2, <1>4, ConstantsAssumption DEF Bump
<1>6. live'[b] = live[b] \/ live'[b] = Bump(live[b])
  BY <1>0, <1>3
<1>7. pc'[w] \in {"fail", "done"} /\ (pc'[w] = "done" => live'[b] = Bump(live[b]))
  BY <1>0, <1>3
<1>8. \A v \in Workers : InFacebookCall(v, b)' <=> v = w
  <2>1. \A v \in Workers : InFacebookCall(v, b) => v = w
    BY <1>1 DEF ProcessorInv, FacebookInv, FacebookCallExclusive
  <2>2. \A v \in Workers \ {w} : pc'[v] = pc[v]
    BY <1>0, <1>3
  <2> QED BY <1>1, <1>7, <2>1, <2>2 DEF InFacebookCall
<1> QED BY <1>1, <1>4, <1>5, <1>6, <1>7, <1>8 DEF Called

LEMMA FailureMoves ==
  ASSUME ProcessorInv, NEW w \in Workers, NEW b \in FacebookAttempts, cur[w] = b, MarkProviderFailure(w)
  PROVE  Failed(w, b)
<1>0. /\ pc \in [Workers -> Steps] /\ cur \in [Workers -> Attempts \cup {NoAttempt}] /\ b \in Attempts
      /\ state \in [Attempts -> AttemptState] /\ NoAttempt \notin Attempts
      /\ attempt_count[b] \in 0 .. CounterCap /\ calls[b] \in 0 .. CounterCap
      /\ MAX_PUBLISH_ATTEMPTS \in Nat /\ CounterCap \in Nat
  BY ConstantsAssumption DEF ProcessorInv, TypeOK, Attempts
<1>1. pc[w] = "fail" /\ InFacebookCall(w, b) /\ Finish(w) /\ CountersStay(b)
  BY DEF MarkProviderFailure, InFacebookCall, CountersStay, metaVars
<1>2. calls[b] <= attempt_count[b] + 1 /\ attempt_count[b] < MAX_PUBLISH_ATTEMPTS
  BY <1>1 DEF ProcessorInv, FacebookInv, CallsAreCounted
<1>3. state'[b] = FailureState(Bump(attempt_count[b]), verdict[w] = "retryable")
  BY <1>0 DEF MarkProviderFailure, SaveState
<1>4. state'[b] = "failed_retryable" => Bump(attempt_count[b]) < MAX_PUBLISH_ATTEMPTS
  BY <1>3 DEF FailureState
<1>5. Bump(attempt_count[b]) = attempt_count[b] + 1
  BY <1>0, <1>2, ConstantsAssumption DEF Bump
<1>6. state'[b] = "failed_retryable" => calls[b] < MAX_PUBLISH_ATTEMPTS
  BY <1>0, <1>2, <1>4, <1>5
<1>7. \A v \in Workers : ~InFacebookCall(v, b)'
  <2>1. \A v \in Workers : InFacebookCall(v, b) => v = w
    BY <1>1 DEF ProcessorInv, FacebookInv, FacebookCallExclusive
  <2> QED BY <1>0, <1>1, <2>1 DEF Finish, Goto, InFacebookCall
<1> QED BY <1>1, <1>3, <1>6, <1>7 DEF Failed, FailureState

LEMMA RecordMoves ==
  ASSUME ProcessorInv, NEW w \in Workers, NEW b \in FacebookAttempts, cur[w] = b, MarkAttemptPublished(w)
  PROVE  Recorded(w, b)
<1>0. /\ pc \in [Workers -> Steps] /\ cur \in [Workers -> Attempts \cup {NoAttempt}] /\ b \in Attempts
      /\ state \in [Attempts -> AttemptState] /\ NoAttempt \notin Attempts
      /\ recorded \in [Attempts -> 0 .. CounterCap]
      /\ CounterCap \in Nat /\ CounterCap > 0
  BY ConstantsAssumption DEF ProcessorInv, TypeOK, Attempts
<1>1. pc[w] = "done" /\ InFacebookCall(w, b) /\ Finish(w) /\ UNCHANGED <<calls, live>>
  BY DEF MarkAttemptPublished, InFacebookCall, metaVars
<1>2. state[b] # "published"
  BY <1>1 DEF ProcessorInv, FacebookInv, ClaimIsVisible
<1>3. state'[b] = "published" /\ recorded'[b] = Bump(recorded[b])
  BY <1>0, <1>2 DEF MarkAttemptPublished, SaveState
<1>4. Bump(recorded[b]) > 0
  BY <1>0 DEF Bump
<1>5. \A v \in Workers : ~InFacebookCall(v, b)'
  <2>1. \A v \in Workers : InFacebookCall(v, b) => v = w
    BY <1>1 DEF ProcessorInv, FacebookInv, FacebookCallExclusive
  <2> QED BY <1>0, <1>1, <2>1 DEF Finish, Goto, InFacebookCall
<1> QED BY <1>1, <1>3, <1>4, <1>5 DEF Recorded

\* So every step of the processor moves at most one Facebook Page attempt.
LEMMA StepsTouchOne ==
  ASSUME ProcessorInv, [Next]_vars
  PROVE  \E b : Touches(b)
<1> USE DEF dbVars, workerVars, metaVars
<1>1. ASSUME NEW w \in Workers,
             WorkerStep(w) \/ ScanDueAttempts(w) \/ ProcessContentPublishAttempt(w) \/ Miss(w) \/ Crash(w)
      PROVE  \E b : Touches(b)
  <2>1. PICK b : b = cur[w]
    OBVIOUS
  <2>2. \A a \in FacebookAttempts \ {b} : Same(a)
    BY <1>1, <2>1, WorkerStepsAreOwn, OwnStepIsLocal DEF ProcessorInv
  <2>3. ASSUME b \in FacebookAttempts PROVE Moved(b)
    <3>1. CASE ClaimFacebookAttempt(w)
      BY <2>1, <2>3, <3>1, ClaimMoves
    <3>2. CASE CallFacebook(w) \/ MarkProviderFailure(w) \/ MarkAttemptPublished(w)
      BY <2>1, <2>3, <3>2, CallMoves, FailureMoves, RecordMoves DEF Moved
    <3>3. CASE ~(ClaimFacebookAttempt(w) \/ CallFacebook(w) \/ MarkProviderFailure(w)
                 \/ MarkAttemptPublished(w))
      BY <1>1, <2>1, <2>3, <3>3, OtherStepsAreQuiet DEF WorkerStep, Moved
    <3> QED BY <3>1, <3>2, <3>3
  <2> QED BY <2>2, <2>3 DEF Touches
<1>2. ASSUME NEW b \in Attempts, RequeueFailedPublishAttempt(b) PROVE \E c : Touches(c)
  <2>1. /\ state[b] = "failed_retryable" /\ state' = [state EXCEPT ![b] = "queued"]
        /\ UNCHANGED <<recorded, calls, live, pc, cur>>
    BY <1>2 DEF RequeueFailedPublishAttempt, SaveState
  <2>2. \A a \in FacebookAttempts \ {b} : Same(a)
    BY <2>1 DEF ProcessorInv, TypeOK, Same, CountersStay, InFacebookCall, Attempts
  <2>3. Quiet(b)
    BY <2>1 DEF ProcessorInv, TypeOK, Quiet, CountersStay, InFacebookCall
  <2> QED BY <2>2, <2>3 DEF Touches, Moved
<1>3. ASSUME UNCHANGED <<state, recorded, calls, live, pc, cur>> PROVE \E c : Touches(c)
  <2>1. \A a \in FacebookAttempts : Same(a)
    BY <1>3 DEF Same, CountersStay, InFacebookCall
  <2> QED BY <2>1 DEF Touches, Moved
<1>4. CASE SubmitInternalReview \/ UNCHANGED vars
           \/ \E a \in Attempts : ContainerAges(a) \/ FitnessChanges(a)
  BY <1>3, <1>4 DEF SubmitInternalReview, ContainerAges, FitnessChanges, vars
<1> QED BY <1>1, <1>2, <1>4 DEF Next

(***************************************************************************)
(* What the mapping rests on.                                              *)
(***************************************************************************)

\* A recorded attempt is not called again, and keeps a state no claim accepts.
RecordedRests ==
  \A a \in FacebookAttempts :
    recorded[a] > 0 =>
      state[a] \in {"published", "blocked"} /\ \A w \in Workers : ~InFacebookCall(w, a)

\* Posts are made by calls, and an answer with a post id has one behind it.
AnswersHavePosts ==
  \A a \in FacebookAttempts :
    /\ live[a] <= calls[a]
    /\ \A w \in Workers : InFacebookCall(w, a) /\ pc[w] = "done" => live[a] > 0

LifeInv == ProcessorInv /\ RecordedRests /\ AnswersHavePosts

\* The counters of an attempt are below the bound.
LEMMA CountersCount ==
  ASSUME LifeInv, NEW a \in FacebookAttempts
  PROVE  /\ recorded[a] \in Nat /\ calls[a] \in Nat /\ live[a] \in Nat
         /\ Bump(live[a]) = live[a] + 1
<1>1. /\ recorded[a] \in 0 .. CounterCap /\ calls[a] \in 0 .. CounterCap /\ live[a] \in 0 .. CounterCap
  BY DEF LifeInv, ProcessorInv, TypeOK, Attempts
<1>2. live[a] <= calls[a] /\ calls[a] <= MAX_PUBLISH_ATTEMPTS
  BY DEF LifeInv, AnswersHavePosts, ProcessorInv, FacebookInv, FacebookRetryBudget
<1>3. CounterCap \in Nat /\ MAX_PUBLISH_ATTEMPTS \in Nat /\ CounterCap > MAX_PUBLISH_ATTEMPTS
  BY ConstantsAssumption
<1>4. live[a] < CounterCap
  BY <1>1, <1>2, <1>3
<1> QED BY <1>1, <1>3, <1>4 DEF Bump

\* A step that moves an attempt as above keeps both facts about it.
LEMMA MoveKeepsLife ==
  ASSUME LifeInv, NEW a \in FacebookAttempts, Moved(a)
  PROVE  /\ recorded'[a] > 0 =>
              state'[a] \in {"published", "blocked"} /\ \A w \in Workers : ~InFacebookCall(w, a)'
         /\ live'[a] <= calls'[a]
         /\ \A w \in Workers : InFacebookCall(w, a)' /\ pc'[w] = "done" => live'[a] > 0
<1>0. /\ recorded[a] \in Nat /\ calls[a] \in Nat /\ live[a] \in Nat /\ Bump(live[a]) = live[a] + 1
  BY CountersCount
<1>1. /\ recorded[a] > 0 =>
           state[a] \in {"published", "blocked"} /\ \A w \in Workers : ~InFacebookCall(w, a)
      /\ live[a] <= calls[a]
      /\ \A w \in Workers : InFacebookCall(w, a) /\ pc[w] = "done" => live[a] > 0
  BY DEF LifeInv, RecordedRests, AnswersHavePosts
<1>2. CASE Same(a) \/ Quiet(a)
  BY <1>1, <1>2 DEF Same, Quiet, CountersStay
<1>3. ASSUME NEW w \in Workers, Claimed(w, a) PROVE
         /\ ~(recorded'[a] > 0) /\ live'[a] <= calls'[a]
         /\ \A v \in Workers : InFacebookCall(v, a)' => pc'[v] # "done"
  BY <1>1, <1>3 DEF Claimed, CountersStay, PUBLISHABLE_ATTEMPT_STATES
<1>4. ASSUME NEW w \in Workers, Called(w, a) PROVE
         /\ ~(recorded'[a] > 0) /\ live'[a] <= calls'[a]
         /\ \A v \in Workers : InFacebookCall(v, a)' /\ pc'[v] = "done" => live'[a] > 0
  <2>1. ~(recorded'[a] > 0)
    BY <1>1, <1>4 DEF Called
  <2>2. live'[a] <= calls'[a]
    BY <1>0, <1>1, <1>4 DEF Called
  <2>3. \A v \in Workers : InFacebookCall(v, a)' /\ pc'[v] = "done" => live'[a] > 0
    BY <1>0, <1>4 DEF Called
  <2> QED BY <2>1, <2>2, <2>3
<1>5. ASSUME NEW w \in Workers, Failed(w, a) PROVE
         /\ ~(recorded'[a] > 0) /\ live'[a] <= calls'[a] /\ \A v \in Workers : ~InFacebookCall(v, a)'
  BY <1>1, <1>5 DEF Failed, CountersStay
<1>6. ASSUME NEW w \in Workers, Recorded(w, a) PROVE
         /\ state'[a] = "published" /\ live'[a] <= calls'[a] /\ \A v \in Workers : ~InFacebookCall(v, a)'
  BY <1>1, <1>6 DEF Recorded
<1> QED BY <1>2, <1>3, <1>4, <1>5, <1>6 DEF Moved

LEMMA LifeStep == LifeInv /\ [Next]_vars /\ ProcessorInv' => LifeInv'
<1> SUFFICES ASSUME LifeInv, [Next]_vars, ProcessorInv' PROVE LifeInv'
  OBVIOUS
<1>1. \A a \in FacebookAttempts : Moved(a)
  BY StepsTouchOne DEF LifeInv, Touches, Moved
<1>2. RecordedRests' /\ AnswersHavePosts'
  BY <1>1, MoveKeepsLife DEF RecordedRests, AnswersHavePosts
<1> QED BY <1>2 DEF LifeInv

LEMMA LifeInvariant == Spec => []LifeInv
<1>1. Spec => []ProcessorInv
  BY TypeCorrect, WorkersKeepToTheirPath, FacebookInvariant, PTL DEF ProcessorInv
<1>2. Init => RecordedRests /\ AnswersHavePosts
  BY DEF Init, RecordedRests, AnswersHavePosts, InFacebookCall, Attempts
<1> QED BY <1>1, <1>2, LifeStep, PTL DEF Spec, LifeInv

(***************************************************************************)
(* The refinement.                                                         *)
(***************************************************************************)

\* The phase of an attempt by its one caller, or by its row when it has none.
LEMMA PhaseOfCalled ==
  ASSUME FacebookCallExclusive, NEW a \in FacebookAttempts, NEW w \in Workers, InFacebookCall(w, a)
  PROVE  Phase(a) = IF pc[w] = "call" THEN "held" ELSE "asked"
<1>1. \A v \in Workers : cur[v] = a /\ pc[v] \in {"call", "fail", "done"} => v = w
  BY DEF FacebookCallExclusive, InFacebookCall
<1>2. AtStep(a, {"call"}) <=> pc[w] = "call"
  BY <1>1 DEF AtStep, InFacebookCall
<1>3. AtStep(a, {"fail", "done"}) <=> pc[w] # "call"
  BY <1>1 DEF AtStep, InFacebookCall
<1> QED BY <1>2, <1>3 DEF Phase

LEMMA PhaseOfRow ==
  ASSUME NEW a \in FacebookAttempts, \A w \in Workers : ~InFacebookCall(w, a)
  PROVE  Phase(a) = IF recorded[a] > 0 THEN "delivered"
                    ELSE IF state[a] \in PUBLISHABLE_ATTEMPT_STATES THEN "waiting" ELSE "closed"
<1>1. ~AtStep(a, {"call"}) /\ ~AtStep(a, {"fail", "done"})
  BY DEF AtStep, InFacebookCall
<1> QED BY <1>1 DEF Phase

\* An attempt nothing changes keeps its phase.
LEMMA SameKeepsPhase ==
  ASSUME NEW a \in FacebookAttempts, Same(a)
  PROVE  Phase(a)' = Phase(a)
<1>1. AtStep(a, {"call"})' <=> AtStep(a, {"call"})
  BY DEF Same, AtStep, InFacebookCall
<1>2. AtStep(a, {"fail", "done"})' <=> AtStep(a, {"fail", "done"})
  BY DEF Same, AtStep, InFacebookCall
<1>3. recorded'[a] = recorded[a] /\ state'[a] = state[a]
  BY DEF Same, CountersStay
<1> QED BY <1>1, <1>2, <1>3 DEF Phase

\* A step of the abstract life, of one attempt.
GoesTo(a, from, to) == Phase(a) = from /\ Phase(a)' = to
Stays(a) == calls'[a] = calls[a] /\ live'[a] = live[a]
Lives(a) ==
  \/ Phase(a)' = Phase(a) /\ Stays(a)
  \/ GoesTo(a, "waiting", "held") /\ Stays(a)
  \/ /\ GoesTo(a, "held", "asked")
     /\ calls[a] < MAX_PUBLISH_ATTEMPTS /\ calls'[a] = calls[a] + 1
     /\ live'[a] \in {live[a], live[a] + 1}
  \/ live[a] > 0 /\ GoesTo(a, "asked", "delivered") /\ Stays(a)
  \/ calls[a] < MAX_PUBLISH_ATTEMPTS /\ GoesTo(a, "asked", "waiting") /\ Stays(a)
  \/ (\E from \in {"waiting", "held", "asked"} : GoesTo(a, from, "closed")) /\ Stays(a)

\* Each move is one.
LEMMA MovesAreLife ==
  ASSUME LifeInv, LifeInv', NEW a \in FacebookAttempts, Moved(a)
  PROVE  Lives(a)
<1>0. /\ recorded[a] \in Nat /\ calls[a] \in Nat /\ live[a] \in Nat /\ Bump(live[a]) = live[a] + 1
  BY CountersCount
<1>1. FacebookCallExclusive /\ FacebookCallExclusive'
  BY DEF LifeInv, ProcessorInv, FacebookInv
<1>2. \A w \in Workers : InFacebookCall(w, a) =>
        ~(recorded[a] > 0) /\ state[a] \in {"publishing", "blocked"}
  BY DEF LifeInv, RecordedRests, ProcessorInv, FacebookInv, ClaimIsVisible
<1>3. \A w \in Workers : InFacebookCall(w, a) => Phase(a) = IF pc[w] = "call" THEN "held" ELSE "asked"
  BY <1>1, PhaseOfCalled
<1>4. \A w \in Workers : InFacebookCall(w, a)' => Phase(a)' = IF pc'[w] = "call" THEN "held" ELSE "asked"
  <2> SUFFICES ASSUME NEW w \in Workers, InFacebookCall(w, a)'
               PROVE  Phase(a)' = IF pc'[w] = "call" THEN "held" ELSE "asked"
    OBVIOUS
  <2>1. \A v \in Workers : cur'[v] = a /\ pc'[v] \in {"call", "fail", "done"} => v = w
    BY <1>1 DEF FacebookCallExclusive, InFacebookCall
  <2>2. AtStep(a, {"call"})' <=> pc'[w] = "call"
    BY <2>1 DEF AtStep, InFacebookCall
  <2>3. AtStep(a, {"fail", "done"})' <=> pc'[w] # "call"
    BY <2>1 DEF AtStep, InFacebookCall
  <2> QED BY <2>2, <2>3 DEF Phase
<1>5. (\A w \in Workers : ~InFacebookCall(w, a)) =>
        Phase(a) = IF recorded[a] > 0 THEN "delivered"
                   ELSE IF state[a] \in PUBLISHABLE_ATTEMPT_STATES THEN "waiting" ELSE "closed"
  BY PhaseOfRow
<1>6. (\A w \in Workers : ~InFacebookCall(w, a)') =>
        Phase(a)' = IF recorded'[a] > 0 THEN "delivered"
                    ELSE IF state'[a] \in PUBLISHABLE_ATTEMPT_STATES THEN "waiting" ELSE "closed"
  <2> SUFFICES ASSUME \A w \in Workers : ~InFacebookCall(w, a)'
               PROVE  Phase(a)' = IF recorded'[a] > 0 THEN "delivered"
                                  ELSE IF state'[a] \in PUBLISHABLE_ATTEMPT_STATES THEN "waiting" ELSE "closed"
    OBVIOUS
  <2>1. ~AtStep(a, {"call"})' /\ ~AtStep(a, {"fail", "done"})'
    BY DEF AtStep, InFacebookCall
  <2> QED BY <2>1 DEF Phase
<1>7. CASE Same(a)
  BY <1>7, SameKeepsPhase DEF Same, CountersStay, Lives, Stays
<1>8. CASE Quiet(a)
  <2>1. recorded'[a] = recorded[a] /\ Stays(a)
    BY <1>8 DEF Quiet, CountersStay, Stays
  <2>2. CASE \E w \in Workers : InFacebookCall(w, a)'
    <3>1. PICK w \in Workers : InFacebookCall(w, a)'
      BY <2>2
    <3>2. InFacebookCall(w, a) /\ pc'[w] = pc[w]
      BY <1>8, <3>1 DEF Quiet
    <3>3. Phase(a)' = Phase(a)
      BY <1>3, <1>4, <3>1, <3>2
    <3> QED BY <2>1, <3>3 DEF Lives
  <2>3. CASE (\A w \in Workers : ~InFacebookCall(w, a)') /\ \E w \in Workers : InFacebookCall(w, a)
    <3>1. PICK w \in Workers : InFacebookCall(w, a)
      BY <2>3
    <3>2. ~(recorded[a] > 0) /\ state[a] \in {"publishing", "blocked"}
      BY <1>2, <3>1
    <3>3. state'[a] \in {"publishing", "blocked"}
      BY <1>8, <3>2 DEF Quiet
    <3>4. Phase(a)' = "closed"
      BY <1>6, <2>1, <2>3, <3>2, <3>3 DEF PUBLISHABLE_ATTEMPT_STATES
    <3>5. Phase(a) \in {"held", "asked"}
      BY <1>3, <3>1
    <3> QED BY <2>1, <3>4, <3>5 DEF Lives, GoesTo
  <2>4. CASE (\A w \in Workers : ~InFacebookCall(w, a)') /\ \A w \in Workers : ~InFacebookCall(w, a)
    <3>1. CASE recorded[a] > 0
      BY <1>5, <1>6, <2>1, <2>4, <3>1 DEF Lives
    <3>2. CASE ~(recorded[a] > 0)
      <4>1. \/ state'[a] \in {state[a], "blocked"}
            \/ state[a] \in PUBLISHABLE_ATTEMPT_STATES /\ state'[a] \in PUBLISHABLE_ATTEMPT_STATES
        BY <1>8 DEF Quiet, PUBLISHABLE_ATTEMPT_STATES
      <4>2. "blocked" \notin PUBLISHABLE_ATTEMPT_STATES
        BY DEF PUBLISHABLE_ATTEMPT_STATES
      <4>3. Phase(a) = IF state[a] \in PUBLISHABLE_ATTEMPT_STATES THEN "waiting" ELSE "closed"
        BY <1>5, <2>4, <3>2
      <4>4. Phase(a)' = IF state'[a] \in PUBLISHABLE_ATTEMPT_STATES THEN "waiting" ELSE "closed"
        BY <1>6, <2>1, <2>4, <3>2
      <4>5. Phase(a)' = Phase(a) \/ GoesTo(a, "waiting", "closed")
        BY <4>1, <4>2, <4>3, <4>4 DEF GoesTo
      <4> QED BY <2>1, <4>5 DEF Lives
    <3> QED BY <3>1, <3>2
  <2> QED BY <2>2, <2>3, <2>4
<1>9. ASSUME NEW w \in Workers, Claimed(w, a) PROVE Lives(a)
  <2>1. \A v \in Workers : ~InFacebookCall(v, a)
    BY <1>2, <1>9 DEF Claimed, PUBLISHABLE_ATTEMPT_STATES
  <2>2. ~(recorded[a] > 0)
    BY <1>9 DEF Claimed, LifeInv, RecordedRests, PUBLISHABLE_ATTEMPT_STATES
  <2>3. Phase(a) = "waiting"
    BY <1>5, <1>9, <2>1, <2>2 DEF Claimed
  <2>4. Phase(a)' = "held"
    BY <1>4, <1>9 DEF Claimed
  <2> QED BY <1>9, <2>3, <2>4 DEF Claimed, CountersStay, Lives, GoesTo, Stays
<1>10. ASSUME NEW w \in Workers, Called(w, a) PROVE Lives(a)
  <2>1. GoesTo(a, "held", "asked")
    BY <1>3, <1>4, <1>10 DEF Called, GoesTo
  <2> QED BY <1>0, <1>10, <2>1 DEF Called, Lives
<1>11. ASSUME NEW w \in Workers, Failed(w, a) PROVE Lives(a)
  <2>1. Phase(a) = "asked" /\ ~(recorded[a] > 0) /\ Stays(a) /\ recorded'[a] = recorded[a]
    BY <1>2, <1>3, <1>11 DEF Failed, CountersStay, Stays
  <2>2. Phase(a)' = IF state'[a] = "failed_retryable" THEN "waiting" ELSE "closed"
    BY <1>6, <1>11, <2>1 DEF Failed, PUBLISHABLE_ATTEMPT_STATES
  <2> QED BY <1>11, <2>1, <2>2 DEF Failed, Lives, GoesTo
<1>12. ASSUME NEW w \in Workers, Recorded(w, a) PROVE Lives(a)
  <2>1. Phase(a) = "asked" /\ live[a] > 0
    BY <1>3, <1>12 DEF Recorded, LifeInv, AnswersHavePosts
  <2>2. Phase(a)' = "delivered"
    BY <1>6, <1>12 DEF Recorded
  <2> QED BY <1>12, <2>1, <2>2 DEF Recorded, Lives, GoesTo, Stays
<1> QED BY <1>7, <1>8, <1>9, <1>10, <1>11, <1>12 DEF Moved

\* One attempt that lives and others that stay are a step of the abstract specification.
LEMMA LifeIsLifecycle ==
  ASSUME LifeInv, NEW b \in FacebookAttempts, Lives(b),
         \A a \in FacebookAttempts \ {b} : Phase(a)' = Phase(a) /\ Stays(a)
  PROVE  [Lifecycle!Next]_(Lifecycle!lifecycle)
<1> DEFINE ph == [a \in FacebookAttempts |-> Phase(a)]
           tr == [a \in FacebookAttempts |-> calls[a]]
           po == [a \in FacebookAttempts |-> live[a]]
           M == MAX_PUBLISH_ATTEMPTS
<1>1. Stays(b) => UNCHANGED <<tr, po>>
  BY DEF Stays
<1>2. Phase(b)' = Phase(b) => UNCHANGED ph
  BY DEF Stays
<1>3. \A from, to : GoesTo(b, from, to) => ph[b] = from /\ ph' = [ph EXCEPT ![b] = to]
  BY DEF GoesTo
<1>4. tr[b] = calls[b] /\ po[b] = live[b]
  OBVIOUS
<1>5. calls'[b] = calls[b] + 1 => tr' = [tr EXCEPT ![b] = @ + 1]
  BY DEF Stays
<1>6. /\ live'[b] = live[b] => po' = [po EXCEPT ![b] = @ + 0]
      /\ live'[b] = live[b] + 1 => po' = [po EXCEPT ![b] = @ + 1]
  <2>1. live[b] + 0 = live[b]
    BY CountersCount
  <2>2. live'[b] = live[b] => po' = po
    BY DEF Stays
  <2>3. [po EXCEPT ![b] = @ + 0] = po
    BY <2>1
  <2>4. live'[b] = live[b] + 1 => po' = [po EXCEPT ![b] = @ + 1]
    BY DEF Stays
  <2> QED BY <2>2, <2>3, <2>4
<1> HIDE DEF ph, tr, po
<1>7. \/ UNCHANGED <<ph, tr, po>>
      \/ /\ ph[b] = "waiting" /\ ph' = [ph EXCEPT ![b] = "held"] /\ UNCHANGED <<tr, po>>
      \/ /\ ph[b] = "held" /\ ph' = [ph EXCEPT ![b] = "asked"]
         /\ tr[b] < M /\ tr' = [tr EXCEPT ![b] = @ + 1]
         /\ \E made \in 0 .. 1 : po' = [po EXCEPT ![b] = @ + made]
      \/ /\ po[b] > 0 /\ ph[b] = "asked" /\ ph' = [ph EXCEPT ![b] = "delivered"] /\ UNCHANGED <<tr, po>>
      \/ /\ tr[b] < M /\ ph[b] = "asked" /\ ph' = [ph EXCEPT ![b] = "waiting"] /\ UNCHANGED <<tr, po>>
      \/ /\ \E from \in {"waiting", "held", "asked"} : ph[b] = from /\ ph' = [ph EXCEPT ![b] = "closed"]
         /\ UNCHANGED <<tr, po>>
  <2>1. CASE Phase(b)' = Phase(b) /\ Stays(b)
    BY <1>1, <1>2, <2>1
  <2>2. CASE GoesTo(b, "waiting", "held") /\ Stays(b)
    BY <1>1, <1>3, <2>2
  <2>3. CASE /\ GoesTo(b, "held", "asked")
             /\ calls[b] < MAX_PUBLISH_ATTEMPTS /\ calls'[b] = calls[b] + 1
             /\ live'[b] \in {live[b], live[b] + 1}
    <3>1. \E made \in 0 .. 1 : po' = [po EXCEPT ![b] = @ + made]
      <4>1. 0 \in 0 .. 1 /\ 1 \in 0 .. 1
        OBVIOUS
      <4> QED BY <1>6, <2>3, <4>1
    <3> QED BY <1>3, <1>4, <1>5, <2>3, <3>1
  <2>4. CASE live[b] > 0 /\ GoesTo(b, "asked", "delivered") /\ Stays(b)
    BY <1>1, <1>3, <1>4, <2>4
  <2>5. CASE calls[b] < MAX_PUBLISH_ATTEMPTS /\ GoesTo(b, "asked", "waiting") /\ Stays(b)
    BY <1>1, <1>3, <1>4, <2>5
  <2>6. CASE (\E from \in {"waiting", "held", "asked"} : GoesTo(b, from, "closed")) /\ Stays(b)
    BY <1>1, <1>3, <2>6
  <2> QED BY <2>1, <2>2, <2>3, <2>4, <2>5, <2>6 DEF Lives
<1>10. (UNCHANGED <<ph, tr, po>>) => UNCHANGED Lifecycle!lifecycle
  BY DEF ph, tr, po, Lifecycle!lifecycle
<1>11. ph[b] = "waiting" /\ ph' = [ph EXCEPT ![b] = "held"] /\ (UNCHANGED <<tr, po>>) => Lifecycle!Hold(b)
  BY DEF ph, tr, po, Lifecycle!Hold, Lifecycle!Moves
<1>12. /\ ph[b] = "held" /\ ph' = [ph EXCEPT ![b] = "asked"]
       /\ tr[b] < M /\ tr' = [tr EXCEPT ![b] = @ + 1]
       /\ \E made \in 0 .. 1 : po' = [po EXCEPT ![b] = @ + made]
       => Lifecycle!Ask(b)
  BY DEF ph, tr, po, Lifecycle!Ask, Lifecycle!Moves
<1>13. /\ po[b] > 0 /\ ph[b] = "asked" /\ ph' = [ph EXCEPT ![b] = "delivered"]
       /\ UNCHANGED <<tr, po>>
       => Lifecycle!Deliver(b)
  BY DEF ph, tr, po, Lifecycle!Deliver, Lifecycle!Moves
<1>14. /\ tr[b] < M /\ ph[b] = "asked" /\ ph' = [ph EXCEPT ![b] = "waiting"]
       /\ UNCHANGED <<tr, po>>
       => Lifecycle!WaitAgain(b)
  BY DEF ph, tr, po, Lifecycle!WaitAgain, Lifecycle!Moves
<1>15. /\ \E from \in {"waiting", "held", "asked"} : ph[b] = from /\ ph' = [ph EXCEPT ![b] = "closed"]
       /\ UNCHANGED <<tr, po>>
       => Lifecycle!Close(b)
  BY DEF ph, tr, po, Lifecycle!Close, Lifecycle!Moves
<1> QED BY <1>7, <1>10, <1>11, <1>12, <1>13, <1>14, <1>15 DEF Lifecycle!Next

\* However workers overlap, miss locks, are lost or block late, the processor gives every
\* Facebook Page attempt the life AttemptLifecycle describes.
THEOREM ImplementsLifecycle == Spec => FollowsLifecycle
<1>1. Init => Lifecycle!Init
  <2> SUFFICES ASSUME Init PROVE Lifecycle!Init
    OBVIOUS
  <2>1. \A a \in FacebookAttempts : Phase(a) \in {"waiting", "closed"} /\ calls[a] = 0 /\ live[a] = 0
    <3> SUFFICES ASSUME NEW a \in FacebookAttempts
                 PROVE  Phase(a) \in {"waiting", "closed"} /\ calls[a] = 0 /\ live[a] = 0
      OBVIOUS
    <3>1. \A w \in Workers : ~InFacebookCall(w, a)
      BY DEF Init, InFacebookCall
    <3>2. recorded[a] = 0 /\ calls[a] = 0 /\ live[a] = 0
      BY DEF Init, Attempts
    <3> QED BY <3>1, <3>2, PhaseOfRow
  <2> QED BY <2>1 DEF Lifecycle!Init
<1>2. LifeInv /\ LifeInv' /\ [Next]_vars => [Lifecycle!Next]_(Lifecycle!lifecycle)
  <2> SUFFICES ASSUME LifeInv, LifeInv', [Next]_vars PROVE [Lifecycle!Next]_(Lifecycle!lifecycle)
    OBVIOUS
  <2>1. PICK b : Touches(b)
    BY StepsTouchOne DEF LifeInv
  <2>2. \A a \in FacebookAttempts \ {b} : Phase(a)' = Phase(a) /\ Stays(a)
    BY <2>1, SameKeepsPhase DEF Touches, Same, CountersStay, Stays
  <2>3. CASE b \in FacebookAttempts
    BY <2>1, <2>2, <2>3, MovesAreLife, LifeIsLifecycle DEF Touches
  <2>4. CASE b \notin FacebookAttempts
    BY <2>2, <2>4 DEF Lifecycle!lifecycle, Stays
  <2> QED BY <2>3, <2>4
<1> QED BY <1>1, <1>2, LifeInvariant, PTL DEF Spec, FollowsLifecycle, Lifecycle!Spec
=============================================================================
