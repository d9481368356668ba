------------------------ MODULE GoogleAdsEngine_proofs ------------------------
(***************************************************************************)
(* Theorems about GoogleAdsEngine, for any accounts, any number of tasks   *)
(* under way and any number of lost workers.                               *)
(***************************************************************************)
EXTENDS GoogleAdsEngine, TLAPS

(***************************************************************************)
(* Type correctness.                                                       *)
(***************************************************************************)

\* Counters start at zero and stay within their bound.
LEMMA CountersType ==
  /\ NoFailures \in Counts
  /\ \A job \in Jobs : Limit[job] \in {2, 3}
  /\ \A job \in Jobs, n \in 0 .. 3 : Bumped(job, n) \in 0 .. 3
BY DEF NoFailures, Counts, Jobs, Limit, Bumped

\* A task that is done or goes on to its next account is a task.
LEMMA OnwardType ==
  ASSUME TypeOK, NEW w \in Workers, NEW todo \in SUBSET [acct : Accounts, failures : Counts],
         Onward(w, todo)
  PROVE  worker' \in [Workers -> Tasks]
BY CountersType DEF TypeOK, Onward, AtRest, Tasks

\* Clearing the counts of disturbed accounts keeps the types of the history.
LEMMA DisturbType ==
  ASSUME TypeOK, NEW A \in SUBSET Accounts, Disturb(A)
  PROVE  disturbed' \subseteq Accounts /\ streak' \in [Accounts -> Counts]
BY CountersType DEF TypeOK, Disturb

\* What a task holds are accounts, and what taking them disturbs too.
LEMMA HoldsType ==
  ASSUME TypeOK
  PROVE  /\ \A w \in Workers : Holds(w) \subseteq Accounts
         /\ \A job, A : Take(job, A) => disturbed' \subseteq Accounts /\ streak' \in [Accounts -> Counts]
<1>1. ASSUME NEW w \in Workers PROVE Holds(w) \subseteq Accounts
  <2>1. worker[w] \in Tasks
    BY DEF TypeOK
  <2> QED BY <2>1 DEF Holds, Tasks
<1>2. ASSUME NEW job, NEW A, Take(job, A)
      PROVE  disturbed' \subseteq Accounts /\ streak' \in [Accounts -> Counts]
  <2> DEFINE shared == A \cap UNION {Holds(w) : w \in {v \in Workers : worker[v].job = job}}
  <2>1. shared \in SUBSET Accounts
    BY <1>1
  <2> QED BY <1>2, <2>1, DisturbType DEF Take
<1> QED BY <1>1, <1>2

\* Counting or clearing a failure keeps the types of the rows and of the history.
LEMMA StoreType ==
  ASSUME TypeOK, NEW a \in Accounts, NEW job \in Jobs, NEW n \in 0 .. 3, NEW m \in 0 .. 3,
         NEW failures, state' = [state EXCEPT ![a].failures = Stored(a, failures, job, n)],
         Remember(a, job, m)
  PROVE  state' \in [Accounts -> Rows] /\ streak' \in [Accounts -> Counts]
<1>1. state[a] \in Rows /\ streak[a] \in Counts
  BY DEF TypeOK
<1>2. [state[a].failures EXCEPT ![job] = n] \in Counts /\ [streak[a] EXCEPT ![job] = m] \in Counts
  BY <1>1 DEF Rows, Counts
<1>3. state' \in [Accounts -> Rows]
  BY <1>1, <1>2 DEF TypeOK, Stored, Rows
<1>4. streak' \in [Accounts -> Counts]
  BY <1>1, <1>2 DEF TypeOK, Remember
<1> QED BY <1>3, <1>4

\* So do a failure and a success, of either job.
LEMMA OutcomeType ==
  ASSUME TypeOK, NEW w \in Workers, worker[w].job \in Jobs,
         NEW e \in [acct : Accounts, failures : Counts],
         NEW todo \in SUBSET [acct : Accounts, failures : Counts],
         Fail(w, e, todo) \/ Pass(w, e, todo)
  PROVE  TypeOK'
<1> DEFINE a == e.acct  job == worker[w].job  n == Bumped(job, e.failures[job])
<1>1. a \in Accounts /\ e.failures[job] \in 0 .. 3 /\ streak[a][job] \in 0 .. 3
  BY DEF TypeOK, Counts
<1>2. n \in 0 .. 3 /\ Bumped(job, streak[a][job]) \in 0 .. 3
  BY <1>1, CountersType
<1>3. state' \in [Accounts -> Rows] /\ streak' \in [Accounts -> Counts]
  <2>1. CASE Fail(w, e, todo)
    BY <2>1, <1>1, <1>2, StoreType DEF Fail
  <2>2. CASE Pass(w, e, todo)
    <3>1. 0 \in 0 .. 3
      OBVIOUS
    <3> QED BY <2>2, <1>1, <3>1, StoreType DEF Pass
  <2> QED BY <2>1, <2>2
<1>4. worker' \in [Workers -> Tasks]
  <2>1. CASE Onward(w, todo)
    BY <2>1, OnwardType
  <2>2. CASE worker' = [worker EXCEPT ![w] = [job |-> job, pc |-> "rollback", todo |-> todo,
                                              acct |-> a, failures |-> NoFailures]]
    BY <2>2, <1>1, CountersType DEF TypeOK, Tasks
  <2> QED BY <2>1, <2>2 DEF Fail, Pass
<1> QED BY <1>3, <1>4 DEF TypeOK, Fail, Pass

\* What a task has in memory fits its step: an account in hand while it fetches or rolls
\* back, none otherwise, and each account once.
InOrder(t) ==
  /\ t.pc = "idle" => t = AtRest
  /\ t.pc = "fetching" => t.job = "sync"
  /\ t.pc # "idle" => t.job \in Jobs
  /\ t.pc \in {"fetching", "rollback"} <=> t.acct \in Accounts
  /\ \A e, f \in t.todo : e.acct = f.acct => e = f
  /\ \A e \in t.todo : e.acct # t.acct
WorkersInOrder == \A w \in Workers : InOrder(worker[w])

\* The steps of a task keep the types.
LEMMA WorkerType ==
  ASSUME TypeOK, WorkersInOrder, NEW w \in Workers, WorkerStep(w)
  PROVE  TypeOK'
<1>0. worker[w] \in Tasks
  BY DEF TypeOK
<1>1. CASE LoadState(w)
  <2>1. PICK e \in worker[w].todo :
          /\ known' = known \cup {e.acct}
          /\ \/ Onward(w, worker[w].todo \ {e}) /\ UNCHANGED <<streak, disturbed>>
             \/ /\ Take("sync", {e.acct})
                /\ worker' = [worker EXCEPT ![w].pc = "fetching", ![w].todo = @ \ {e},
                                ![w].acct = e.acct, ![w].failures = state[e.acct].failures]
    BY <1>1 DEF LoadState
  <2>2. e.acct \in Accounts /\ state[e.acct].failures \in Counts
        /\ worker[w].todo \ {e} \in SUBSET [acct : Accounts, failures : Counts]
    BY <1>0, <2>1 DEF TypeOK, Tasks, Rows
  <2>3. worker' \in [Workers -> Tasks]
    <3>1. CASE Onward(w, worker[w].todo \ {e})
      BY <3>1, <2>2, OnwardType
    <3>2. CASE worker' = [worker EXCEPT ![w].pc = "fetching", ![w].todo = @ \ {e},
                                ![w].acct = e.acct, ![w].failures = state[e.acct].failures]
      BY <3>2, <1>0, <2>2 DEF TypeOK, Tasks
    <3> QED BY <3>1, <3>2, <2>1
  <2>4. disturbed' \subseteq Accounts /\ streak' \in [Accounts -> Counts]
    BY <2>1, HoldsType DEF TypeOK
  <2> QED BY <1>1, <2>1, <2>2, <2>3, <2>4 DEF TypeOK, LoadState
<1>2. CASE SyncFails(w) \/ SyncSucceeds(w)
  <2>1. InHand(w) \in [acct : Accounts, failures : Counts] /\ worker[w].job \in Jobs
    BY <1>0, <1>2 DEF InHand, Entry, Tasks, SyncFails, SyncSucceeds, Fetched, Jobs, WorkersInOrder, InOrder
  <2>2. worker[w].todo \in SUBSET [acct : Accounts, failures : Counts]
    BY <1>0 DEF Tasks
  <2> QED BY <1>2, <2>1, <2>2, OutcomeType DEF SyncFails, SyncSucceeds
<1>3. CASE Evaluate(w)
  <2>1. PICK e \in worker[w].todo : Fail(w, e, worker[w].todo \ {e}) \/ Pass(w, e, worker[w].todo \ {e})
    BY <1>3 DEF Evaluate
  <2>2. /\ e \in [acct : Accounts, failures : Counts] /\ worker[w].job \in Jobs
        /\ worker[w].todo \ {e} \in SUBSET [acct : Accounts, failures : Counts]
    BY <1>0, <1>3 DEF Tasks, Evaluate, Jobs
  <2> QED BY <2>1, <2>2, OutcomeType
<1>4. CASE Rollback(w)
  <2>1. worker[w].todo \in SUBSET [acct : Accounts, failures : Counts]
    BY <1>0 DEF Tasks
  <2>2. worker' \in [Workers -> Tasks]
    BY <1>4, <2>1, OnwardType DEF Rollback
  <2>3. state' \in [Accounts -> Rows]
    BY <1>4 DEF Rollback, TypeOK, Rows, Engines
  <2> QED BY <1>4, <2>2, <2>3 DEF Rollback, TypeOK
<1> QED BY <1>1, <1>2, <1>3, <1>4 DEF WorkerStep

LEMMA WorkersStart == Init => WorkersInOrder
BY ConstantsAssumption DEF Init, WorkersInOrder, InOrder, AtRest

\* A task that goes on is in order.
LEMMA OnwardInOrder ==
  ASSUME TypeOK, WorkersInOrder, NEW w \in Workers, worker[w].job \in Jobs,
         NEW todo \in SUBSET worker[w].todo, Onward(w, todo)
  PROVE  WorkersInOrder'
<1> DEFINE t == IF todo = {} THEN AtRest
                ELSE [AtRest EXCEPT !.job = worker[w].job, !.pc = "next", !.todo = todo]
<1>1. worker' = [worker EXCEPT ![w] = t]
  BY DEF Onward
<1>2. worker[w].todo \subseteq [acct : Accounts, failures : Counts] /\ InOrder(worker[w])
  BY DEF TypeOK, Tasks, WorkersInOrder, InOrder
<1>3. InOrder(t)
  <2>1. InOrder(AtRest)
    BY ConstantsAssumption DEF InOrder, AtRest
  <2>2. InOrder([AtRest EXCEPT !.job = worker[w].job, !.pc = "next", !.todo = todo])
    BY <1>2, ConstantsAssumption DEF InOrder, AtRest
  <2> QED BY <2>1, <2>2
<1>4. \A v \in Workers : worker'[v] = IF v = w THEN t ELSE worker[v]
  BY <1>1 DEF TypeOK
<1> HIDE DEF t
<1> QED BY <1>3, <1>4 DEF WorkersInOrder, InOrder

\* So is one that has counted a failure or a success.
LEMMA OutcomeInOrder ==
  ASSUME TypeOK, WorkersInOrder, NEW w \in Workers, worker[w].job \in Jobs,
         NEW e \in [acct : Accounts, failures : Counts], NEW todo \in SUBSET worker[w].todo,
         \A f \in todo : f.acct # e.acct,
         Fail(w, e, todo) \/ Pass(w, e, todo)
  PROVE  WorkersInOrder'
<1>1. CASE Onward(w, todo)
  BY <1>1, OnwardInOrder
<1>2. CASE worker' = [worker EXCEPT ![w] = [job |-> worker[w].job, pc |-> "rollback", todo |-> todo,
                                            acct |-> e.acct, failures |-> NoFailures]]
  BY <1>2 DEF TypeOK, Tasks, WorkersInOrder, InOrder
<1> QED BY <1>1, <1>2 DEF Fail, Pass

\* The steps of a task keep it in order.
LEMMA WorkerInOrder ==
  ASSUME TypeOK, WorkersInOrder, NEW w \in Workers, WorkerStep(w)
  PROVE  WorkersInOrder'
<1>0. worker[w] \in Tasks
  BY DEF TypeOK
<1>1. CASE LoadState(w)
  <2>1. PICK e \in worker[w].todo :
          \/ Onward(w, worker[w].todo \ {e})
          \/ worker' = [worker EXCEPT ![w].pc = "fetching", ![w].todo = @ \ {e},
                           ![w].acct = e.acct, ![w].failures = state[e.acct].failures]
    BY <1>1 DEF LoadState
  <2>2. e.acct \in Accounts /\ worker[w].job = "sync" /\ worker[w].job \in Jobs
    BY <1>0, <1>1, <2>1 DEF Tasks, LoadState, Jobs
  <2>3. CASE Onward(w, worker[w].todo \ {e})
    BY <2>2, <2>3, OnwardInOrder
  <2>4. CASE worker' = [worker EXCEPT ![w].pc = "fetching", ![w].todo = @ \ {e},
                           ![w].acct = e.acct, ![w].failures = state[e.acct].failures]
    BY <2>2, <2>4 DEF TypeOK, Tasks, WorkersInOrder, InOrder
  <2> QED BY <2>1, <2>3, <2>4
<1>2. CASE SyncFails(w) \/ SyncSucceeds(w)
  <2>1. InHand(w) \in [acct : Accounts, failures : Counts] /\ worker[w].job \in Jobs
        /\ \A f \in worker[w].todo : f.acct # InHand(w).acct
    BY <1>0, <1>2 DEF InHand, Entry, Tasks, SyncFails, SyncSucceeds, Fetched, Jobs, WorkersInOrder, InOrder
  <2> QED BY <1>2, <2>1, OutcomeInOrder DEF SyncFails, SyncSucceeds
<1>3. CASE Evaluate(w)
  <2>1. PICK e \in worker[w].todo : Fail(w, e, worker[w].todo \ {e}) \/ Pass(w, e, worker[w].todo \ {e})
    BY <1>3 DEF Evaluate
  <2>2. /\ e \in [acct : Accounts, failures : Counts] /\ worker[w].job \in Jobs
        /\ \A f \in worker[w].todo \ {e} : f.acct # e.acct
    BY <1>0, <1>3 DEF Tasks, Evaluate, Jobs, WorkersInOrder, InOrder
  <2> QED BY <2>1, <2>2, OutcomeInOrder
<1>4. CASE Rollback(w)
  <2>1. worker[w].job \in Jobs
    BY <1>4 DEF Rollback, WorkersInOrder, InOrder
  <2> QED BY <1>4, <2>1, OnwardInOrder DEF Rollback
<1> QED BY <1>1, <1>2, <1>3, <1>4 DEF WorkerStep

RequestInOrder == request.pc # "none" => request.acct \in Accounts
TypeInv == TypeOK /\ WorkersInOrder /\ RequestInOrder

\* Every step keeps the types, and every task in order.
LEMMA TypeStep == TypeInv /\ [Next]_vars => TypeInv'
<1> SUFFICES ASSUME TypeOK, WorkersInOrder, RequestInOrder, [Next]_vars PROVE TypeInv'
  BY DEF TypeInv
<1>1. ASSUME NEW w \in Workers, StartSync(w) PROVE TypeInv'
  <2>1. {Entry(a, NoFailures) : a \in connected} \subseteq [acct : Accounts, failures : Counts]
    BY CountersType DEF TypeOK, Entry
  <2>2. worker' \in [Workers -> Tasks]
    BY <1>1, <2>1, CountersType DEF StartSync, AtRest, TypeOK, Tasks, Jobs
  <2>3. WorkersInOrder'
    BY <1>1, ConstantsAssumption DEF StartSync, AtRest, TypeOK, Tasks, Jobs, WorkersInOrder, InOrder, Entry
  <2> QED BY <1>1, <2>2, <2>3 DEF TypeInv, TypeOK, StartSync, history, RequestInOrder
<1>2. ASSUME NEW w \in Workers, StartParity(w) PROVE TypeInv'
  <2> DEFINE A == {a \in known : state[a].desired = "sdk"}
             todo == {Entry(a, state[a].failures) : a \in A}
  <2>1. todo \subseteq [acct : Accounts, failures : Counts]
    BY DEF TypeOK, Entry, Rows
  <2>2. worker' = [worker EXCEPT ![w] = [AtRest EXCEPT !.job = "parity", !.pc = "next", !.todo = todo]]
        /\ Take("parity", A)
    BY <1>2 DEF StartParity
  <2>3. worker' \in [Workers -> Tasks]
    <3> HIDE DEF todo
    <3> QED BY <2>1, <2>2, CountersType DEF AtRest, TypeOK, Tasks, Jobs
  <2>4. \A e, f \in todo : e.acct \in Accounts /\ (e.acct = f.acct => e = f)
    BY DEF TypeOK, Entry
  <2>5. WorkersInOrder'
    <3> HIDE DEF todo
    <3> QED BY <2>2, <2>4, ConstantsAssumption DEF AtRest, TypeOK, Tasks, Jobs, WorkersInOrder, InOrder
  <2>6. disturbed' \subseteq Accounts /\ streak' \in [Accounts -> Counts]
    BY <2>2, HoldsType
  <2> QED BY <1>2, <2>3, <2>5, <2>6 DEF TypeInv, TypeOK, StartParity, RequestInOrder
<1>3. ASSUME NEW w \in Workers, WorkerStep(w) PROVE TypeInv'
  <2>1. UNCHANGED request
    BY <1>3 DEF WorkerStep, LoadState, SyncFails, SyncSucceeds, Evaluate, Rollback, Fail, Pass
  <2> QED BY <1>3, <2>1, WorkerType, WorkerInOrder DEF TypeInv, RequestInOrder
<1>4. ASSUME NEW w \in Workers, LoseWorker(w) PROVE TypeInv'
  <2>1. (IF worker[w].pc = "rollback" THEN {worker[w].acct} ELSE {}) \in SUBSET Accounts
    BY DEF WorkersInOrder, InOrder
  <2>2. disturbed' \subseteq Accounts /\ streak' \in [Accounts -> Counts]
    BY <1>4, <2>1, DisturbType DEF LoseWorker
  <2>3. worker' \in [Workers -> Tasks] /\ WorkersInOrder'
    BY <1>4, CountersType, ConstantsAssumption DEF LoseWorker, TypeOK, Tasks, AtRest, WorkersInOrder, InOrder
  <2>4. faults' \in 0 .. MaxFaults
    BY <1>4, ConstantsAssumption DEF LoseWorker, TypeOK
  <2> QED BY <1>4, <2>2, <2>3, <2>4 DEF TypeInv, TypeOK, LoseWorker, RequestInOrder
<1>5. CASE Disconnect
  BY <1>5 DEF Disconnect, TypeInv, TypeOK, WorkersInOrder, RequestInOrder, history
<1>6. CASE FailProvision
  BY <1>6 DEF FailProvision, TypeInv, TypeOK, WorkersInOrder, RequestInOrder, history, NoRequest, Provisionings, Engines
<1>7. CASE LoadForProvision
  <2>1. request.acct \in Accounts => state[request.acct].fallback \in BOOLEAN
                                     /\ state[request.acct].effective \in Engines
    BY DEF TypeOK, Rows
  <2> QED BY <1>7, <2>1 DEF LoadForProvision, TypeInv, TypeOK, WorkersInOrder, RequestInOrder, history, Provisionings, Engines
<1>8. CASE SaveEngines
  <2>1. ChosenEngine \in Engines /\ request.engine \in Engines
    BY DEF ChosenEngine, TypeOK, Provisionings
  <2>2. state' \in [Accounts -> Rows]
    BY <1>8, <2>1 DEF SaveEngines, TypeOK, Rows
  <2> QED BY <1>8, <2>2 DEF SaveEngines, TypeInv, TypeOK, WorkersInOrder, RequestInOrder, history, Provisionings, NoRequest, Engines
<1>9. ASSUME NEW a \in Accounts,
             Connect(a) \/ \E asked \in Engines \cup {"unknown"} : StartProvision(a, asked)
      PROVE  TypeInv'
  <2>1. CASE Connect(a)
    BY <2>1 DEF Connect, TypeInv, TypeOK, WorkersInOrder, RequestInOrder, history
  <2>2. ASSUME NEW asked \in Engines \cup {"unknown"}, StartProvision(a, asked) PROVE TypeInv'
    <3>1. SyncEngine(asked) \in Engines
      BY DEF SyncEngine, Engines
    <3> QED BY <2>2, <3>1 DEF StartProvision, TypeInv, TypeOK, WorkersInOrder, RequestInOrder, history, Provisionings, NoRequest, Engines
  <2> QED BY <1>9, <2>1, <2>2
<1>10. CASE UNCHANGED vars
  BY <1>10 DEF vars, history, TypeInv, TypeOK, WorkersInOrder, RequestInOrder
<1> QED BY <1>1, <1>2, <1>3, <1>4, <1>5, <1>6, <1>7, <1>8, <1>9, <1>10 DEF Next

LEMMA TypeInvHolds == Spec => []TypeInv
<1>1. Init => TypeInv
  BY WorkersStart, CountersType, ConstantsAssumption
     DEF Init, TypeInv, TypeOK, RequestInOrder, NewRow, Rows, Engines, NoRequest, Provisionings, AtRest, Tasks
<1> QED BY <1>1, TypeStep, PTL DEF Spec

\* Every variable of the model always has its type.
THEOREM TypeCorrect == Spec => []TypeOK
BY TypeInvHolds, PTL DEF TypeInv

(***************************************************************************)
(* The counters.  An account is disturbed when two tasks of one job had    *)
(* its row in memory; of the others, the row, every copy in memory and the *)
(* history agree, and a count at the limit has a rollback under way until  *)
(* it has one behind it.                                                   *)
(***************************************************************************)

\* The copies whose counter a task has yet to use.
Copies(w) ==
  IF worker[w].job = "parity" THEN worker[w].todo
  ELSE IF worker[w].pc = "fetching" THEN {InHand(w)} ELSE {}

RowsAgree ==
  \A a \in Accounts \ disturbed, job \in Jobs : state[a].failures[job] = streak[a][job]
CopiesAgree ==
  \A a \in Accounts \ disturbed, w \in Workers : \A e \in Copies(w) :
    e.acct = a => e.failures[worker[w].job] = streak[a][worker[w].job]
OneTaskHolds ==
  \A a \in Accounts \ disturbed, v, w \in Workers :
    worker[v].job = worker[w].job /\ a \in Holds(v) /\ a \in Holds(w) => v = w
RollbackIsDue ==
  \A a \in Accounts \ disturbed, w \in Workers :
    worker[w].pc = "rollback" /\ worker[w].acct = a => streak[a][worker[w].job] >= Limit[worker[w].job]
LimitActs ==
  \A a \in Accounts \ disturbed, job \in Jobs :
    streak[a][job] >= Limit[job] =>
      state[a].fallback \/ \E w \in Workers : worker[w].pc = "rollback" /\ worker[w].acct = a
CountsInv == RowsAgree /\ CopiesAgree /\ OneTaskHolds /\ RollbackIsDue /\ LimitActs

\* What a task has a copy of or rolls back, it holds.
LEMMA CopiesAreHeld ==
  ASSUME TypeInv, NEW w \in Workers
  PROVE  /\ \A e \in Copies(w) : e \in [acct : Accounts, failures : Counts] /\ e.acct \in Holds(w)
         /\ worker[w].pc = "rollback" => worker[w].acct \in Holds(w) /\ worker[w].job \in Jobs
         /\ Copies(w) # {} => worker[w].job \in Jobs
         /\ worker[w].pc = "idle" => Holds(w) = {}
<1>1. worker[w] \in Tasks /\ InOrder(worker[w]) /\ NoAccount \notin Accounts
  BY ConstantsAssumption DEF TypeInv, TypeOK, WorkersInOrder
<1> QED BY <1>1 DEF Copies, Holds, InHand, Entry, Tasks, InOrder, Jobs, AtRest

\* The step of task w leaves the other tasks alone; w lets go of a, and of nothing it had not.
LetsGo(w, a) ==
  /\ \A v \in Workers \ {w} : worker'[v] = worker[v] /\ Holds(v)' = Holds(v) /\ Copies(v)' = Copies(v)
  /\ Holds(w)' \subseteq Holds(w)
  /\ \A e \in Copies(w)' : e \in Copies(w) /\ e.acct # a
  /\ worker'[w].job = worker[w].job \/ (Holds(w)' = {} /\ Copies(w)' = {})
  /\ worker'[w].pc = "rollback" => worker'[w].acct = a /\ worker'[w].job = worker[w].job

\* The other tasks have what they had.
LEMMA OthersKeep ==
  ASSUME NEW w, NEW v \in Workers, v # w, worker'[v] = worker[v]
  PROVE  Holds(v)' = Holds(v) /\ Copies(v)' = Copies(v)
BY DEF Holds, Copies, InHand, Entry

\* A task that goes on lets go of its account.
LEMMA OnwardLetsGo ==
  ASSUME TypeInv, NEW w \in Workers, NEW a \in Accounts, NEW todo \in SUBSET worker[w].todo,
         \A e \in todo : e.acct # a, Onward(w, todo)
  PROVE  LetsGo(w, a) /\ worker'[w].pc # "rollback"
<1> DEFINE t == IF todo = {} THEN AtRest
                ELSE [AtRest EXCEPT !.job = worker[w].job, !.pc = "next", !.todo = todo]
<1>1. \A v \in Workers : worker'[v] = IF v = w THEN t ELSE worker[v]
  BY DEF Onward, TypeInv, TypeOK
<1>2. t = [AtRest EXCEPT !.job = worker[w].job, !.pc = "next", !.todo = todo] \/ (t = AtRest /\ todo = {})
  OBVIOUS
<1> HIDE DEF t
<1>3. t.pc # "rollback" /\ t.pc # "fetching" /\ t.acct = NoAccount /\ t.todo = todo
      /\ (t.job = worker[w].job \/ (t.job = "none" /\ todo = {}))
  <2>1. CASE t = [AtRest EXCEPT !.job = worker[w].job, !.pc = "next", !.todo = todo]
    BY <2>1 DEF AtRest
  <2>2. CASE t = AtRest /\ todo = {}
    BY <2>2 DEF AtRest
  <2> QED BY <1>2, <2>1, <2>2
<1>4. worker'[w] = t
  BY <1>1
<1>5. Holds(w)' = (IF t.job = "parity" THEN {e.acct : e \in todo} ELSE {})
      /\ Copies(w)' = (IF t.job = "parity" THEN todo ELSE {})
  BY <1>3, <1>4 DEF Holds, Copies
<1>6. Holds(w)' \subseteq Holds(w) /\ Copies(w)' \subseteq Copies(w)
      /\ \A e \in Copies(w)' : e.acct # a
  BY <1>3, <1>5 DEF Holds, Copies
<1>7. worker'[w].job = worker[w].job \/ (Holds(w)' = {} /\ Copies(w)' = {})
  BY <1>3, <1>4, <1>5
<1>8. \A v \in Workers \ {w} : worker'[v] = worker[v] /\ Holds(v)' = Holds(v) /\ Copies(v)' = Copies(v)
  BY <1>1, OthersKeep
<1> QED BY <1>3, <1>4, <1>6, <1>7, <1>8 DEF LetsGo

\* So does one that counted a failure and is to roll the account back.
LEMMA RollbackLetsGo ==
  ASSUME TypeInv, NEW w \in Workers, NEW e \in Copies(w), NEW todo \in SUBSET worker[w].todo,
         \A f \in todo : f.acct # e.acct,
         worker' = [worker EXCEPT ![w] = [job |-> worker[w].job, pc |-> "rollback", todo |-> todo,
                                          acct |-> e.acct, failures |-> NoFailures]]
  PROVE  LetsGo(w, e.acct) /\ worker'[w].pc = "rollback" /\ worker'[w].acct = e.acct
<1> DEFINE t == [job |-> worker[w].job, pc |-> "rollback", todo |-> todo,
                 acct |-> e.acct, failures |-> NoFailures]
<1>1. \A v \in Workers : worker'[v] = IF v = w THEN t ELSE worker[v]
  BY DEF TypeInv, TypeOK
<1>2. worker'[w].pc = "rollback" /\ worker'[w].acct = e.acct /\ worker'[w].todo = todo
      /\ worker'[w].job = worker[w].job
  BY <1>1
<1>3. e.acct \in Accounts /\ e.acct \in Holds(w) /\ NoAccount \notin Accounts
  BY CopiesAreHeld, ConstantsAssumption
<1>4. Holds(w)' \subseteq Holds(w)
  BY <1>2, <1>3 DEF Holds
<1>5. \A f \in Copies(w)' : f \in Copies(w) /\ f.acct # e.acct
  BY <1>2 DEF Copies
<1>6. \A v \in Workers \ {w} : worker'[v] = worker[v] /\ Holds(v)' = Holds(v) /\ Copies(v)' = Copies(v)
  BY <1>1, OthersKeep
<1> QED BY <1>2, <1>4, <1>5, <1>6 DEF LetsGo

\* Letting go leaves at most one task of each job at an account.
LEMMA LettingGoKeepsOne ==
  ASSUME OneTaskHolds, NEW w \in Workers, NEW a, LetsGo(w, a), disturbed \subseteq disturbed'
  PROVE  OneTaskHolds'
<1> SUFFICES ASSUME NEW b \in Accounts \ disturbed', NEW u \in Workers, NEW v \in Workers,
                    worker'[u].job = worker'[v].job, b \in Holds(u)', b \in Holds(v)'
             PROVE  u = v
  BY DEF OneTaskHolds
<1>1. \A x \in Workers : b \in Holds(x)' => b \in Holds(x) /\ worker'[x].job = worker[x].job
  BY DEF LetsGo
<1> QED BY <1>1 DEF OneTaskHolds

\* A failure or a success of the only task of its job that holds the account keeps the counts.
LEMMA OutcomeKeepsCounts ==
  ASSUME TypeInv, CountsInv, NEW w \in Workers, NEW e \in Copies(w),
         NEW todo \in SUBSET worker[w].todo, \A f \in todo : f.acct # e.acct,
         worker[w].pc # "rollback", Fail(w, e, todo) \/ Pass(w, e, todo)
  PROVE  CountsInv'
<1> DEFINE a == e.acct
           job == worker[w].job
           n == IF Fail(w, e, todo) THEN Bumped(job, e.failures[job]) ELSE 0
           m == IF Fail(w, e, todo) THEN Bumped(job, streak[a][job]) ELSE 0
<1>1. a \in Accounts /\ a \in Holds(w) /\ job \in Jobs
  BY CopiesAreHeld
<1>2. /\ state' = [state EXCEPT ![a].failures = Stored(a, e.failures, job, n)]
      /\ Remember(a, job, m) /\ disturbed' = disturbed
  BY DEF Fail, Pass
<1>3. a \notin disturbed => n = m
  BY <1>1 DEF CountsInv, CopiesAgree
<1>4. LetsGo(w, a)
  BY <1>1, OnwardLetsGo, RollbackLetsGo DEF Fail, Pass
<1>5. n >= Limit[job] => worker'[w].pc = "rollback" /\ worker'[w].acct = a
  <2>1. CASE Fail(w, e, todo)
    BY <2>1, RollbackLetsGo DEF Fail, RollsBack
  <2>2. CASE ~Fail(w, e, todo)
    BY <2>2, <1>1, CountersType
  <2> QED BY <2>1, <2>2
<1>6. worker'[w].pc = "rollback" => n >= Limit[job]
  BY <1>1, OnwardLetsGo DEF Fail, Pass, RollsBack
<1> HIDE DEF n, m
<1>7. \A b \in Accounts, j \in Jobs :
        /\ state'[b].failures[j] = IF b = a /\ j = job THEN n ELSE state[b].failures[j]
        /\ state'[b].fallback = state[b].fallback
  BY <1>1, <1>2 DEF Stored, TypeInv, TypeOK, Rows, Counts
<1>8. \A b \in Accounts \ disturbed, j \in Jobs :
        streak'[b][j] = IF b = a /\ j = job THEN m ELSE streak[b][j]
  BY <1>1, <1>2 DEF Remember, TypeInv, TypeOK, Counts
<1>9. \A b \in Accounts \ disturbed, v \in Workers :
        b = a /\ v # w /\ b \in Holds(v) => worker[v].job # job
  BY <1>1 DEF CountsInv, OneTaskHolds
<1>10. RowsAgree'
  BY <1>2, <1>3, <1>7, <1>8 DEF CountsInv, RowsAgree
<1>11. CopiesAgree'
  <2> SUFFICES ASSUME NEW b \in Accounts \ disturbed, NEW v \in Workers, NEW f \in Copies(v)', f.acct = b
               PROVE  f.failures[worker'[v].job] = streak'[b][worker'[v].job]
    BY <1>2 DEF CopiesAgree
  <2>1. f \in Copies(v) /\ b \in Holds(v) /\ worker'[v].job = worker[v].job /\ worker[v].job \in Jobs
    BY <1>4, CopiesAreHeld DEF LetsGo
  <2>2. b = a => worker[v].job # job
    BY <1>4, <1>9, <2>1 DEF LetsGo
  <2>3. streak'[b][worker[v].job] = streak[b][worker[v].job]
    BY <1>8, <2>1, <2>2
  <2> QED BY <2>1, <2>3 DEF CountsInv, CopiesAgree
<1>12. OneTaskHolds'
  BY <1>2, <1>4, LettingGoKeepsOne DEF CountsInv
<1>13. RollbackIsDue'
  <2> SUFFICES ASSUME NEW b \in Accounts \ disturbed, NEW v \in Workers,
                      worker'[v].pc = "rollback", worker'[v].acct = b
               PROVE  streak'[b][worker'[v].job] >= Limit[worker'[v].job]
    BY <1>2 DEF RollbackIsDue
  <2>1. CASE v = w
    BY <2>1, <1>1, <1>3, <1>4, <1>6, <1>8 DEF LetsGo
  <2>2. CASE v # w
    <3>1. worker'[v] = worker[v]
      BY <1>4, <2>2 DEF LetsGo
    <3>2. b \in Holds(v) /\ worker[v].job \in Jobs
      BY <3>1, CopiesAreHeld
    <3> QED BY <1>8, <1>9, <2>2, <3>1, <3>2 DEF CountsInv, RollbackIsDue
  <2> QED BY <2>1, <2>2
<1>14. LimitActs'
  <2> SUFFICES ASSUME NEW b \in Accounts \ disturbed, NEW j \in Jobs, streak'[b][j] >= Limit[j]
               PROVE  state'[b].fallback \/ \E v \in Workers : worker'[v].pc = "rollback" /\ worker'[v].acct = b
    BY <1>2 DEF LimitActs
  <2>1. CASE b = a /\ j = job
    BY <2>1, <1>3, <1>5, <1>8
  <2>2. CASE ~(b = a /\ j = job)
    <3>1. streak[b][j] >= Limit[j]
      BY <1>8, <2>2
    <3>2. CASE state[b].fallback
      BY <1>7, <3>2
    <3>3. CASE ~state[b].fallback
      <4>1. PICK v \in Workers : worker[v].pc = "rollback" /\ worker[v].acct = b
        BY <3>1, <3>3 DEF CountsInv, LimitActs
      <4> QED BY <4>1, <1>4 DEF LetsGo
    <3> QED BY <3>2, <3>3
  <2> QED BY <2>1, <2>2
<1> QED BY <1>10, <1>11, <1>12, <1>13, <1>14 DEF CountsInv

\* Where only a task lets go of an account it need not hold any more, the counts are kept,
\* once the row of that account is rolled back if its rollback was due.
LEMMA LettingGoKeepsCounts ==
  ASSUME TypeInv, CountsInv, NEW w \in Workers, NEW a,
         LetsGo(w, a), worker'[w].pc # "rollback", disturbed \subseteq disturbed',
         \A b \in Accounts \ disturbed' : streak'[b] = streak[b],
         \A b \in Accounts \ disturbed' : /\ state'[b].failures = state[b].failures
                                          /\ state[b].fallback => state'[b].fallback,
         \A b \in Accounts \ disturbed' :
            worker[w].pc = "rollback" /\ worker[w].acct = b => state'[b].fallback
  PROVE  CountsInv'
<1>1. RowsAgree'
  BY DEF CountsInv, RowsAgree
<1>2. CopiesAgree'
  <2> SUFFICES ASSUME NEW b \in Accounts \ disturbed', NEW v \in Workers, NEW f \in Copies(v)', f.acct = b
               PROVE  f.failures[worker'[v].job] = streak'[b][worker'[v].job]
    BY DEF CopiesAgree
  <2>1. f \in Copies(v) /\ worker'[v].job = worker[v].job
    BY DEF LetsGo
  <2> QED BY <2>1 DEF CountsInv, CopiesAgree
<1>3. OneTaskHolds'
  BY LettingGoKeepsOne DEF CountsInv
<1>4. RollbackIsDue'
  <2> SUFFICES ASSUME NEW b \in Accounts \ disturbed', NEW v \in Workers,
                      worker'[v].pc = "rollback", worker'[v].acct = b
               PROVE  streak'[b][worker'[v].job] >= Limit[worker'[v].job]
    BY DEF RollbackIsDue
  <2>1. worker'[v] = worker[v]
    BY DEF LetsGo
  <2> QED BY <2>1 DEF CountsInv, RollbackIsDue
<1>5. LimitActs'
  <2> SUFFICES ASSUME NEW b \in Accounts \ disturbed', NEW j \in Jobs, streak'[b][j] >= Limit[j],
                      ~state'[b].fallback
               PROVE  \E v \in Workers : worker'[v].pc = "rollback" /\ worker'[v].acct = b
    BY DEF LimitActs
  <2>1. PICK v \in Workers : worker[v].pc = "rollback" /\ worker[v].acct = b
    BY DEF CountsInv, LimitActs
  <2> QED BY <2>1 DEF LetsGo
<1> QED BY <1>1, <1>2, <1>3, <1>4, <1>5 DEF CountsInv

\* A task that starts on the rows of A disturbs those that another task of its job has; of the
\* others its copies agree with the rows.
LEMMA TakingKeepsCounts ==
  ASSUME TypeInv, CountsInv, NEW w \in Workers, NEW job \in Jobs, NEW A \in SUBSET Accounts,
         Take(job, A), state' = state,
         \A v \in Workers \ {w} : worker'[v] = worker[v],
         worker[w].pc # "rollback", worker'[w].pc # "rollback", worker'[w].job = job,
         Holds(w)' = A,
         \A e \in Copies(w)' : e.acct \in A /\ e.failures = state[e.acct].failures
  PROVE  CountsInv'
<1>1. \A v \in Workers \ {w} : Holds(v)' = Holds(v) /\ Copies(v)' = Copies(v)
  BY OthersKeep
<1>2. /\ disturbed \subseteq disturbed'
      /\ \A b \in Accounts \ disturbed' : streak'[b] = streak[b]
      /\ \A b \in Accounts \ disturbed', v \in Workers :
           b \in A /\ worker[v].job = job => b \notin Holds(v)
  BY DEF Take, Disturb
<1>3. RowsAgree'
  BY <1>2 DEF CountsInv, RowsAgree
<1>4. CopiesAgree'
  <2> SUFFICES ASSUME NEW b \in Accounts \ disturbed', NEW v \in Workers, NEW f \in Copies(v)', f.acct = b
               PROVE  f.failures[worker'[v].job] = streak'[b][worker'[v].job]
    BY DEF CopiesAgree
  <2>1. CASE v = w
    BY <2>1, <1>2 DEF CountsInv, RowsAgree
  <2>2. CASE v # w
    BY <2>2, <1>1, <1>2 DEF CountsInv, CopiesAgree
  <2> QED BY <2>1, <2>2
<1>5. OneTaskHolds'
  <2> SUFFICES ASSUME NEW b \in Accounts \ disturbed', NEW u \in Workers, NEW v \in Workers, u # v,
                      worker'[u].job = worker'[v].job, b \in Holds(u)', b \in Holds(v)'
               PROVE  FALSE
    BY DEF OneTaskHolds
  <2>1. CASE u # w /\ v # w
    BY <2>1, <1>1, <1>2 DEF CountsInv, OneTaskHolds
  <2>2. CASE u = w \/ v = w
    BY <2>2, <1>1, <1>2
  <2> QED BY <2>1, <2>2
<1>6. RollbackIsDue'
  <2> SUFFICES ASSUME NEW b \in Accounts \ disturbed', NEW v \in Workers,
                      worker'[v].pc = "rollback", worker'[v].acct = b
               PROVE  streak'[b][worker'[v].job] >= Limit[worker'[v].job]
    BY DEF RollbackIsDue
  <2>1. worker'[v] = worker[v] /\ b \in Accounts \ disturbed
    BY <1>2
  <2> QED BY <2>1, <1>2 DEF CountsInv, RollbackIsDue
<1>7. LimitActs'
  <2> SUFFICES ASSUME NEW b \in Accounts \ disturbed', NEW j \in Jobs, streak'[b][j] >= Limit[j],
                      ~state'[b].fallback
               PROVE  \E v \in Workers : worker'[v].pc = "rollback" /\ worker'[v].acct = b
    BY DEF LimitActs
  <2>1. PICK v \in Workers : worker[v].pc = "rollback" /\ worker[v].acct = b
    BY <1>2 DEF CountsInv, LimitActs
  <2> QED BY <2>1
<1> QED BY <1>3, <1>4, <1>5, <1>6, <1>7 DEF CountsInv

\* Where no task and no count changes, the counts are kept.
LEMMA OthersKeepCounts ==
  ASSUME TypeInv, CountsInv, UNCHANGED <<worker, streak, disturbed>>,
         \A a \in Accounts : /\ state'[a].failures = state[a].failures
                             /\ state'[a].fallback = state[a].fallback
  PROVE  CountsInv'
<1>1. \A w : Holds(w)' = Holds(w) /\ Copies(w)' = Copies(w)
  BY DEF Holds, Copies, InHand, Entry
<1> QED BY <1>1 DEF CountsInv, RowsAgree, CopiesAgree, OneTaskHolds, RollbackIsDue, LimitActs

\* The steps of a task keep the counts.
LEMMA WorkerKeepsCounts ==
  ASSUME TypeInv, CountsInv, NEW w \in Workers, WorkerStep(w)
  PROVE  CountsInv'
<1>0. worker[w] \in Tasks /\ InOrder(worker[w]) /\ NoAccount \notin Accounts
  BY ConstantsAssumption DEF TypeInv, TypeOK, WorkersInOrder
<1>1. CASE LoadState(w)
  <2>1. PICK e \in worker[w].todo :
          \/ Onward(w, worker[w].todo \ {e}) /\ UNCHANGED <<streak, disturbed>>
          \/ /\ Take("sync", {e.acct})
             /\ worker' = [worker EXCEPT ![w].pc = "fetching", ![w].todo = @ \ {e},
                             ![w].acct = e.acct, ![w].failures = state[e.acct].failures]
    BY <1>1 DEF LoadState
  <2>2. e.acct \in Accounts /\ worker[w].job = "sync" /\ worker[w].pc = "next" /\ state' = state
    BY <1>0, <1>1 DEF Tasks, LoadState
  <2>3. CASE Onward(w, worker[w].todo \ {e}) /\ UNCHANGED <<streak, disturbed>>
    <3>1. \A f \in worker[w].todo \ {e} : f.acct # e.acct
      BY <1>0 DEF InOrder
    <3>2. LetsGo(w, e.acct) /\ worker'[w].pc # "rollback"
      BY <2>2, <2>3, <3>1, OnwardLetsGo
    <3> QED BY <2>2, <2>3, <3>2, LettingGoKeepsCounts
  <2>4. CASE /\ Take("sync", {e.acct})
             /\ worker' = [worker EXCEPT ![w].pc = "fetching", ![w].todo = @ \ {e},
                             ![w].acct = e.acct, ![w].failures = state[e.acct].failures]
    <3>1. /\ worker'[w].pc = "fetching" /\ worker'[w].job = "sync" /\ worker'[w].acct = e.acct
          /\ worker'[w].failures = state[e.acct].failures
          /\ \A v \in Workers \ {w} : worker'[v] = worker[v]
      BY <1>0, <2>2, <2>4 DEF TypeInv, TypeOK, Tasks
    <3>2. Holds(w)' = {e.acct} /\ Copies(w)' = {Entry(e.acct, state[e.acct].failures)}
      BY <1>0, <2>2, <3>1 DEF Holds, Copies, InHand, Entry
    <3>3. \A f \in Copies(w)' : f.acct \in {e.acct} /\ f.failures = state[f.acct].failures
      BY <3>2 DEF Entry
    <3> QED BY <2>2, <2>4, <3>1, <3>2, <3>3, TakingKeepsCounts DEF Jobs
  <2> QED BY <2>1, <2>3, <2>4
<1>2. CASE SyncFails(w) \/ SyncSucceeds(w)
  <2>1. /\ InHand(w) \in Copies(w) /\ worker[w].pc # "rollback"
        /\ \A f \in worker[w].todo : f.acct # InHand(w).acct
    BY <1>0, <1>2 DEF SyncFails, SyncSucceeds, Fetched, Copies, InHand, Entry, InOrder
  <2> QED BY <1>2, <2>1, OutcomeKeepsCounts DEF SyncFails, SyncSucceeds
<1>3. CASE Evaluate(w)
  <2>1. PICK e \in worker[w].todo : Fail(w, e, worker[w].todo \ {e}) \/ Pass(w, e, worker[w].todo \ {e})
    BY <1>3 DEF Evaluate
  <2>2. /\ e \in Copies(w) /\ worker[w].pc # "rollback"
        /\ \A f \in worker[w].todo \ {e} : f.acct # e.acct
    BY <1>0, <1>3 DEF Evaluate, Copies, InOrder
  <2> QED BY <2>1, <2>2, OutcomeKeepsCounts
<1>4. CASE Rollback(w)
  <2> DEFINE a == worker[w].acct
  <2>1. a \in Accounts /\ \A e \in worker[w].todo : e.acct # a
    BY <1>0, <1>4 DEF Rollback, InOrder
  <2>2. LetsGo(w, a) /\ worker'[w].pc # "rollback"
    BY <1>4, <2>1, OnwardLetsGo DEF Rollback
  <2>3. \A b \in Accounts : /\ state'[b].failures = state[b].failures
                            /\ state'[b].fallback = (b = a \/ state[b].fallback)
    BY <1>4 DEF Rollback, TypeInv, TypeOK, Rows
  <2> QED BY <1>4, <2>2, <2>3, LettingGoKeepsCounts DEF Rollback
<1> QED BY <1>1, <1>2, <1>3, <1>4 DEF WorkerStep

\* Every step keeps the counts.
LEMMA CountsStep == TypeInv /\ CountsInv /\ [Next]_vars => CountsInv'
<1> SUFFICES ASSUME TypeInv, CountsInv, [Next]_vars PROVE CountsInv'
  OBVIOUS
<1>0. \A w \in Workers : worker[w] \in Tasks /\ InOrder(worker[w])
  BY DEF TypeInv, TypeOK, WorkersInOrder
<1>1. ASSUME NEW w \in Workers, StartSync(w) PROVE CountsInv'
  <2>1. /\ worker'[w].job = "sync" /\ worker'[w].pc = "next" /\ worker'[w].acct = NoAccount
        /\ \A v \in Workers \ {w} : worker'[v] = worker[v]
        /\ state' = state /\ streak' = streak /\ disturbed' = disturbed
    BY <1>1 DEF StartSync, AtRest, TypeInv, TypeOK, history
  <2>2. Holds(w)' = {} /\ Copies(w)' = {}
    BY <2>1 DEF Holds, Copies
  <2>3. LetsGo(w, NoAccount)
    BY <2>1, <2>2, OthersKeep DEF LetsGo
  <2>4. worker[w].pc # "rollback"
    BY <1>1 DEF StartSync
  <2> QED BY <2>1, <2>3, <2>4, LettingGoKeepsCounts
<1>2. ASSUME NEW w \in Workers, StartParity(w) PROVE CountsInv'
  <2> DEFINE A == {a \in known : state[a].desired = "sdk"}
             todo == {Entry(a, state[a].failures) : a \in A}
  <2>1. /\ worker'[w].job = "parity" /\ worker'[w].pc = "next" /\ worker'[w].acct = NoAccount
        /\ worker'[w].todo = todo
        /\ \A v \in Workers \ {w} : worker'[v] = worker[v]
    BY <1>2 DEF StartParity, AtRest, TypeInv, TypeOK
  <2>2. state' = state /\ Take("parity", A) /\ worker[w].pc # "rollback"
    BY <1>2 DEF StartParity
  <2>3. A \in SUBSET Accounts /\ "parity" \in Jobs
    BY DEF TypeInv, TypeOK, Jobs
  <2>4. {e.acct : e \in todo} = A /\ \A e \in todo : e.acct \in A /\ e.failures = state[e.acct].failures
    <3>1. \A b \in A : Entry(b, state[b].failures) \in todo /\ Entry(b, state[b].failures).acct = b
      BY DEF Entry
    <3>2. \A e \in todo : e.acct \in A /\ e.failures = state[e.acct].failures
      BY DEF Entry
    <3> HIDE DEF todo, A
    <3> QED BY <3>1, <3>2
  <2>5. Holds(w)' = A /\ \A e \in Copies(w)' : e.acct \in A /\ e.failures = state[e.acct].failures
    <3> HIDE DEF todo, A
    <3> QED BY <2>1, <2>4 DEF Holds, Copies
  <2> HIDE DEF A
  <2> QED BY <2>1, <2>2, <2>3, <2>5, TakingKeepsCounts
<1>3. ASSUME NEW w \in Workers, WorkerStep(w) PROVE CountsInv'
  BY <1>3, WorkerKeepsCounts
<1>4. ASSUME NEW w \in Workers, LoseWorker(w) PROVE CountsInv'
  <2> DEFINE A == IF worker[w].pc = "rollback" THEN {worker[w].acct} ELSE {}
  <2>1. /\ worker'[w] = AtRest /\ \A v \in Workers \ {w} : worker'[v] = worker[v]
        /\ state' = state /\ Disturb(A)
    BY <1>4 DEF LoseWorker, TypeInv, TypeOK
  <2>2. Holds(w)' = {} /\ Copies(w)' = {} /\ worker'[w].pc # "rollback"
    BY <2>1 DEF Holds, Copies, AtRest
  <2>3. LetsGo(w, NoAccount)
    BY <2>1, <2>2, OthersKeep DEF LetsGo
  <2>4. /\ disturbed \subseteq disturbed'
        /\ \A b \in Accounts \ disturbed' : streak'[b] = streak[b]
                                            /\ (worker[w].pc = "rollback" => worker[w].acct # b)
    BY <2>1 DEF Disturb
  <2> QED BY <2>1, <2>2, <2>3, <2>4, LettingGoKeepsCounts
<1>5. CASE Disconnect \/ FailProvision \/ LoadForProvision
           \/ \E a \in Accounts : Connect(a) \/ \E asked \in Engines \cup {"unknown"} : StartProvision(a, asked)
  BY <1>5, OthersKeepCounts
     DEF Disconnect, FailProvision, LoadForProvision, Connect, StartProvision, history
<1>6. CASE SaveEngines
  <2>1. \A a \in Accounts : /\ state'[a].failures = state[a].failures
                            /\ state'[a].fallback = state[a].fallback
    BY <1>6 DEF SaveEngines, TypeInv, TypeOK, Rows
  <2> QED BY <1>6, <2>1, OthersKeepCounts DEF SaveEngines, history
<1>7. CASE UNCHANGED vars
  BY <1>7, OthersKeepCounts DEF vars
<1> QED BY <1>1, <1>2, <1>3, <1>4, <1>5, <1>6, <1>7 DEF Next

LEMMA CountsHold == Spec => [](TypeInv /\ CountsInv)
<1>1. Init => CountsInv
  <2> SUFFICES ASSUME Init PROVE CountsInv
    OBVIOUS
  <2>1. \A w \in Workers : Holds(w) = {} /\ Copies(w) = {} /\ worker[w].pc = "idle"
    BY ConstantsAssumption DEF Init, AtRest, Holds, Copies
  <2>2. RowsAgree /\ CopiesAgree /\ OneTaskHolds /\ RollbackIsDue
    BY <2>1 DEF Init, NewRow, RowsAgree, CopiesAgree, OneTaskHolds, RollbackIsDue
  <2>3. \A a \in Accounts, job \in Jobs : ~(streak[a][job] >= Limit[job])
    BY CountersType DEF Init, NoFailures
  <2> QED BY <2>2, <2>3 DEF CountsInv, LimitActs
<1> QED BY <1>1, TypeInvHolds, CountsStep, PTL DEF Spec

\* However often tasks overlap, workers are lost and requests choose an engine: an account that
\* was not disturbed and failed often enough is on its fallback once no task holds it.
THEOREM FailuresLeadToRollback == Spec => []FailuresRollBack
<1>1. TypeInv /\ CountsInv => FailuresRollBack
  <2> SUFFICES ASSUME TypeInv, CountsInv, NEW a \in Accounts \ disturbed, NEW job \in Jobs,
                      streak[a][job] >= Limit[job], \A w \in Workers : a \notin Holds(w)
               PROVE  state[a].fallback
    BY DEF FailuresRollBack
  <2> QED BY CopiesAreHeld DEF CountsInv, LimitActs
<1> QED BY <1>1, CountsHold, PTL

\* And it is rolled back after nothing less: three failed syncs or two failed checks in a row.
THEOREM RollbackIsAlwaysEarned == Spec => RollbackIsEarned
<1> DEFINE Earned == \A a \in Accounts \ disturbed :
                       state'[a].fallback /\ ~state[a].fallback =>
                         \E job \in Jobs : streak[a][job] >= Limit[job]
<1>1. TypeInv /\ CountsInv /\ [Next]_vars => [Earned]_vars
  <2> SUFFICES ASSUME TypeInv, CountsInv, Next, NEW a \in Accounts \ disturbed,
                      state'[a].fallback, ~state[a].fallback
               PROVE  \E job \in Jobs : streak[a][job] >= Limit[job]
    OBVIOUS
  <2>1. \A w \in Workers, e \in [acct : Accounts, failures : Counts] :
          \A todo : ~(Fail(w, e, todo) \/ Pass(w, e, todo))
    BY DEF Fail, Pass, TypeInv, TypeOK, Rows
  <2>2. \A w \in Workers : ~(SyncFails(w) \/ SyncSucceeds(w) \/ Evaluate(w))
    <3> SUFFICES ASSUME NEW w \in Workers, SyncFails(w) \/ SyncSucceeds(w) \/ Evaluate(w) PROVE FALSE
      OBVIOUS
    <3>1. worker[w] \in Tasks /\ InOrder(worker[w])
      BY DEF TypeInv, TypeOK, WorkersInOrder
    <3>2. CASE SyncFails(w) \/ SyncSucceeds(w)
      <4>1. InHand(w) \in [acct : Accounts, failures : Counts]
        BY <3>1, <3>2 DEF InHand, Entry, Tasks, InOrder, SyncFails, SyncSucceeds, Fetched
      <4> QED BY <2>1, <3>2, <4>1 DEF SyncFails, SyncSucceeds
    <3>3. CASE Evaluate(w)
      BY <2>1, <3>1, <3>3 DEF Evaluate, Tasks
    <3> QED BY <3>2, <3>3
  <2>3. ~SaveEngines
    BY DEF SaveEngines, TypeInv, TypeOK, Rows
  <2>4. PICK w \in Workers : Rollback(w)
    BY <2>2, <2>3
       DEF Next, WorkerStep, Disconnect, FailProvision, LoadForProvision, Connect, StartProvision,
           StartSync, StartParity, LoadState, LoseWorker
  <2>5. worker[w].pc = "rollback" /\ worker[w].acct = a
    BY <2>4 DEF Rollback, TypeInv, TypeOK, Rows
  <2> QED BY <2>5, CopiesAreHeld DEF CountsInv, RollbackIsDue
<1> QED BY <1>1, CountsHold, PTL DEF Spec, RollbackIsEarned
=============================================================================
