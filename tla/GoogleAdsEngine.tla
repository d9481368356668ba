--------------------------- MODULE GoogleAdsEngine ---------------------------
(***************************************************************************)
(* Which engine reads a tenant's Google Ads accounts: the row              *)
(* GoogleAdsSyncState (integrations/models.py), the SDK sync, the daily    *)
(* parity check and their automatic rollback to Airbyte                    *)
(* (integrations/tasks.py), and the provisioning request that chooses an   *)
(* engine (integrations/google_ads_views.py).  The rows fetched and        *)
(* compared are left out: a fetch succeeds or fails, a day agrees or not.  *)
(***************************************************************************)
EXTENDS Naturals, FiniteSets

CONSTANTS Accounts, NoAccount,
          Workers,     \* tasks under way
          MaxFaults    \* bound: workers lost, unexpected errors included

ASSUME ConstantsAssumption == NoAccount \notin Accounts /\ MaxFaults \in Nat
Engines == {"sdk", "airbyte"}
Jobs == {"sync", "parity"}
\* Counters are kept up to the threshold they are compared with.
Limit == [job \in Jobs |-> IF job = "sync" THEN 3 ELSE 2]

VARIABLES
  connected,  \* accounts with a Google credential
  known,      \* accounts with a sync state
  state,      \* GoogleAdsSyncState, the defaults where there is none yet
  worker,     \* what each task has in memory
  request,    \* the provisioning request under way
  streak,     \* history: failures in a row of each job
  disturbed,  \* history: accounts two tasks of one job held at once, or one was lost with
  faults      \* workers lost so far

vars == <<connected, known, state, worker, request, streak, disturbed, faults>>
history == <<streak, disturbed>>

\* GOOGLE_ADS_SYNC_ENGINE_DEFAULT is sdk.
NoFailures == [j \in Jobs |-> 0]
NewRow == [desired |-> "sdk", effective |-> "sdk", fallback |-> FALSE, failures |-> NoFailures]
AtRest == [job |-> "none", pc |-> "idle", todo |-> {}, acct |-> NoAccount, failures |-> NoFailures]
NoRequest == [pc |-> "none", acct |-> NoAccount, engine |-> "sdk", fallback |-> FALSE, effective |-> "sdk"]

Init ==
  /\ connected = {} /\ known = {}
  /\ state = [a \in Accounts |-> NewRow]
  /\ worker = [w \in Workers |-> AtRest]
  /\ request = NoRequest
  /\ streak = [a \in Accounts |-> NoFailures]
  /\ disturbed = {} /\ faults = 0

Entry(a, failures) == [acct |-> a, failures |-> failures]
\* The accounts whose rows a task has in memory.
Holds(w) == (IF worker[w].job = "parity" THEN {e.acct : e \in worker[w].todo} ELSE {})
            \cup ({worker[w].acct} \ {NoAccount})
\* Nothing is said of the failures of a disturbed account any more.
Disturb(A) == /\ disturbed' = disturbed \cup A
              /\ streak' = [a \in Accounts |-> IF a \in A THEN NoFailures ELSE streak[a]]
Remember(a, job, n) ==
  streak' = IF a \in disturbed THEN streak ELSE [streak EXCEPT ![a][job] = n]
\* A task of job that takes the rows of A while another has them disturbs them.
Take(job, A) ==
  Disturb(A \cap UNION {Holds(w) : w \in {v \in Workers : worker[v].job = job}})
Bumped(job, n) == IF n < Limit[job] THEN n + 1 ELSE n

(***************************************************************************)
(* OAuth exchange and disconnect; the row outlives the credential.         *)
(***************************************************************************)
Connect(a) ==
  /\ a \notin connected /\ connected' = connected \cup {a}
  /\ UNCHANGED <<known, state, worker, request, history, faults>>

Disconnect ==
  /\ connected # {} /\ connected' = {}
  /\ UNCHANGED <<known, state, worker, request, history, faults>>

(***************************************************************************)
(* sync_google_ads_sdk_incremental, hourly and from POST sync/.            *)
(***************************************************************************)
\* The next account, or the end of the task.
Onward(w, todo) ==
  worker' = [worker EXCEPT ![w] =
    IF todo = {} THEN AtRest ELSE [AtRest EXCEPT !.job = worker[w].job, !.pc = "next", !.todo = todo]]

StartSync(w) ==
  /\ worker[w].pc = "idle" /\ connected # {}
  /\ worker' = [worker EXCEPT ![w] = [AtRest EXCEPT !.job = "sync", !.pc = "next",
                  !.todo = {Entry(a, NoFailures) : a \in connected}]]
  /\ UNCHANGED <<connected, known, state, request, history, faults>>

\* get_or_create of the row; an account on Airbyte is skipped.
LoadState(w) ==
  /\ worker[w].job = "sync" /\ worker[w].pc = "next"
  /\ \E e \in worker[w].todo :
       /\ known' = known \cup {e.acct}
       /\ \/ /\ state[e.acct].effective # "sdk"
             /\ Onward(w, worker[w].todo \ {e}) /\ UNCHANGED <<streak, disturbed>>
          \/ /\ state[e.acct].effective = "sdk" /\ Take("sync", {e.acct})
             /\ worker' = [worker EXCEPT ![w].pc = "fetching", ![w].todo = @ \ {e},
                             ![w].acct = e.acct, ![w].failures = state[e.acct].failures]
  /\ UNCHANGED <<connected, state, request, faults>>

\* Mutant of Stored: the other job's counter is saved too, as it was loaded.
StoredBoth(a, failures, job, n) == [failures EXCEPT ![job] = n]
\* save(update_fields=...): this job's counter only, computed from the row in memory.
Stored(a, failures, job, n) == [state[a].failures EXCEPT ![job] = n]

\* Mutant of RollsBack: one failure too early.
RollsBackEarly(job, n) == n + 1 >= Limit[job]
RollsBack(job, n) == n >= Limit[job]

\* A failure is counted and saved, and a task that counted to the limit rolls back.
Fail(w, e, todo) ==
  LET a == e.acct   job == worker[w].job   n == Bumped(job, e.failures[job]) IN
  /\ state' = [state EXCEPT ![a].failures = Stored(a, e.failures, job, n)]
  /\ Remember(a, job, Bumped(job, streak[a][job]))
  /\ IF RollsBack(job, n)
     THEN worker' = [worker EXCEPT ![w] = [job |-> job, pc |-> "rollback", todo |-> todo,
                                           acct |-> a, failures |-> NoFailures]]
     ELSE Onward(w, todo)
  /\ UNCHANGED <<connected, known, request, disturbed, faults>>

Pass(w, e, todo) ==
  LET a == e.acct   job == worker[w].job IN
  /\ state' = [state EXCEPT ![a].failures = Stored(a, e.failures, job, 0)]
  /\ Remember(a, job, 0)
  /\ Onward(w, todo)
  /\ UNCHANGED <<connected, known, request, disturbed, faults>>

Fetched(w) == /\ worker[w].job = "sync" /\ worker[w].pc = "fetching"
InHand(w) == Entry(worker[w].acct, worker[w].failures)
SyncFails(w) == Fetched(w) /\ Fail(w, InHand(w), worker[w].todo)
\* A child customer whose queries fail does not make the sync fail.
SyncSucceeds(w) == Fetched(w) /\ Pass(w, InHand(w), worker[w].todo)

(***************************************************************************)
(* evaluate_google_ads_parity: every row is loaded before the first day is *)
(* compared, those already rolled back too.                                *)
(***************************************************************************)
StartParity(w) ==
  LET A == {a \in known : state[a].desired = "sdk"} IN
  /\ worker[w].pc = "idle" /\ A # {} /\ Take("parity", A)
  /\ worker' = [worker EXCEPT ![w] = [AtRest EXCEPT !.job = "parity", !.pc = "next",
                  !.todo = {Entry(a, state[a].failures) : a \in A}]]
  /\ UNCHANGED <<connected, known, state, request, faults>>

Evaluate(w) ==
  /\ worker[w].job = "parity" /\ worker[w].pc = "next"
  /\ \E e \in worker[w].todo : Fail(w, e, worker[w].todo \ {e}) \/ Pass(w, e, worker[w].todo \ {e})

(***************************************************************************)
(* _trigger_google_sdk_rollback; the alert it raises is left out.          *)
(***************************************************************************)
Rollback(w) ==
  LET a == worker[w].acct IN
  /\ worker[w].pc = "rollback"
  /\ state' = [state EXCEPT ![a].effective = "airbyte", ![a].fallback = TRUE]
  /\ Onward(w, worker[w].todo)
  /\ UNCHANGED <<connected, known, request, streak, disturbed, faults>>

\* A worker lost, or an error that is not a GoogleAdsSdkError: the rest is dropped.
LoseWorker(w) ==
  /\ worker[w].pc # "idle" /\ faults < MaxFaults /\ faults' = faults + 1
  /\ Disturb(IF worker[w].pc = "rollback" THEN {worker[w].acct} ELSE {})
  /\ worker' = [worker EXCEPT ![w] = AtRest]
  /\ UNCHANGED <<connected, known, state, request>>

(***************************************************************************)
(* GoogleAdsProvisionView: the row is loaded once Airbyte is set up, then  *)
(* both engines are saved.                                                 *)
(***************************************************************************)
\* Mutant of SyncEngine: whatever is asked for, or set as default, is stored.
SyncEngineAsAsked(asked) == asked
SyncEngine(asked) == IF asked \in Engines THEN asked ELSE "sdk"

StartProvision(a, asked) ==
  /\ request.pc = "none" /\ a \in connected
  /\ request' = [NoRequest EXCEPT !.pc = "setting up", !.acct = a, !.engine = SyncEngine(asked)]
  /\ UNCHANGED <<connected, known, state, worker, history, faults>>

FailProvision ==
  /\ request.pc # "none" /\ request' = NoRequest
  /\ UNCHANGED <<connected, known, state, worker, history, faults>>

LoadForProvision ==
  /\ request.pc = "setting up"
  /\ known' = known \cup {request.acct}
  /\ request' = [request EXCEPT !.pc = "saving", !.fallback = state[request.acct].fallback,
                                !.effective = IF state[request.acct].fallback THEN state[request.acct].effective ELSE "sdk"]
  /\ UNCHANGED <<connected, state, worker, history, faults>>

\* No code clears fallback_active: a rollback stands whatever engine is asked for, but where
\* the request loaded the row before it.
ChosenEngine == IF request.fallback THEN request.effective ELSE request.engine
SaveEngines ==
  /\ request.pc = "saving"
  /\ state' = [state EXCEPT ![request.acct].desired = request.engine,
                            ![request.acct].effective = ChosenEngine]
  /\ request' = NoRequest
  /\ UNCHANGED <<connected, known, worker, history, faults>>

WorkerStep(w) == LoadState(w) \/ SyncFails(w) \/ SyncSucceeds(w) \/ Evaluate(w) \/ Rollback(w)
Next ==
  \/ Disconnect \/ FailProvision \/ LoadForProvision \/ SaveEngines
  \/ \E a \in Accounts : Connect(a) \/ \E asked \in Engines \cup {"unknown"} : StartProvision(a, asked)
  \/ \E w \in Workers : StartSync(w) \/ StartParity(w) \/ WorkerStep(w) \/ LoseWorker(w)
Spec == Init /\ [][Next]_vars

-----------------------------------------------------------------------------
Counts == [Jobs -> 0 .. 3]
Rows == [desired : Engines, effective : Engines, fallback : BOOLEAN, failures : Counts]
Tasks == [job : Jobs \cup {"none"}, pc : {"idle", "next", "fetching", "rollback"},
          todo : SUBSET [acct : Accounts, failures : Counts],
          acct : Accounts \cup {NoAccount}, failures : Counts]
Provisionings == [pc : {"none", "setting up", "saving"}, acct : Accounts \cup {NoAccount},
                  engine : Engines, fallback : BOOLEAN, effective : Engines]

\* Every variable keeps its type.
TypeOK ==
  /\ connected \subseteq Accounts /\ known \subseteq Accounts
  /\ disturbed \subseteq Accounts
  /\ state \in [Accounts -> Rows] /\ streak \in [Accounts -> Counts]
  /\ worker \in [Workers -> Tasks]
  /\ request \in Provisionings
  /\ faults \in 0 .. MaxFaults

\* An account is rolled back only after three failed syncs or two failed parity checks in a
\* row, unless overlapping tasks confused the count.
RollbackIsEarned ==
  [][\A a \in Accounts \ disturbed :
       state'[a].fallback /\ ~state[a].fallback =>
         \E job \in Jobs : streak[a][job] >= Limit[job]]_vars

\* An account that failed so often is rolled back as soon as no task is at work on it; only
\* overlapping tasks, or one lost before the rollback, leave it on the SDK.
FailuresRollBack ==
  \A a \in Accounts \ disturbed :
    /\ \E job \in Jobs : streak[a][job] >= Limit[job]
    /\ \A w \in Workers : a \notin Holds(w)
    => state[a].fallback

=============================================================================
