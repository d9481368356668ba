------------------------ MODULE GenerationJobs_proofs ------------------------
(***************************************************************************)
(* Theorems about GenerationJobs, for any jobs, workers, requests, quotas  *)
(* and token caps.                                                         *)
(***************************************************************************)
EXTENDS GenerationJobs, FiniteSetTheorems, TLAPS

(***************************************************************************)
(* Type correctness.                                                       *)
(***************************************************************************)

\* An operation under way is on a job, and an edit has seen a row.
OperationsHaveJobs ==
  /\ \A w \in Workers : worker[w].pc # "idle" <=> worker[w].job \in Jobs
  /\ \A u \in Users : user[u].pc \in {"cancelling", "patching"} <=> user[u].job \in Jobs
  /\ \A u \in Users : user[u].pc = "patching" => user[u].seen # "absent"
TypeInv == TypeOK /\ OperationsHaveJobs

\* The steps of requests keep the types.
LEMMA UserType ==
  ASSUME TypeInv, NEW u \in Users, UserStep(u)
  PROVE  TypeInv'
<1> USE DEF TypeInv, TypeOK, OperationsHaveJobs
<1>0. NoJob \notin Jobs /\ NoRequest \in [pc : UserPc, job : Jobs \cup {NoJob}, kind : Kinds,
                                          seen : Status, asked : Sizes \cup {0}]
  BY ConstantsAssumption DEF NoRequest, UserPc, Kinds, Status
<1>1. ASSUME NEW kind \in Kinds, NEW asked \in Sizes, RequestGeneration(u, kind, asked) PROVE TypeInv'
  BY <1>0, <1>1 DEF RequestGeneration, NoRequest, UserPc
<1>2. ASSUME NEW j \in Jobs, CreateJob(u, j) PROVE TypeInv'
  <2>1. user' \in [Users -> [pc : UserPc, job : Jobs \cup {NoJob}, kind : Kinds,
                             seen : Status, asked : Sizes \cup {0}]]
    BY <1>0, <1>2 DEF CreateJob
  <2> QED BY <1>0, <1>2, <2>1 DEF CreateJob, Status, NoRequest
<1>3. ASSUME NEW j \in Jobs, NEW pc \in {"cancelling", "patching"}, Open(u, j, pc) PROVE TypeInv'
  <2>1. mixed' \subseteq Jobs
    BY <1>3 DEF Open, Meet
  <2> QED BY <1>0, <1>3, <2>1 DEF Open, NoRequest, UserPc
<1>4. CASE SaveCancel(u)
  BY <1>0, <1>4 DEF SaveCancel, Status, NoRequest
<1>5. CASE SavePatch(u)
  BY <1>0, <1>5 DEF SavePatch, NoRequest
<1> QED BY <1>1, <1>2, <1>3, <1>4, <1>5 DEF UserStep, StartCancel, StartPatch

\* So do those of workers.
LEMMA WorkerType ==
  ASSUME TypeInv, NEW w \in Workers, WorkerStep(w)
  PROVE  TypeInv'
<1> USE DEF TypeInv, TypeOK, OperationsHaveJobs
<1>0. NoJob \notin Jobs /\ AtRest \in [pc : WorkerPc, job : Jobs \cup {NoJob}]
  BY ConstantsAssumption DEF AtRest, WorkerPc
<1>1. ASSUME NEW j \in Jobs, StartJob(w, j) PROVE TypeInv'
  <2>1. mixed' \subseteq Jobs
    BY <1>1 DEF StartJob, Meet
  <2> QED BY <1>0, <1>1, <2>1 DEF StartJob, WorkerPc
<1>2. CASE ClaimJob(w)
  BY <1>0, <1>2 DEF ClaimJob, Goto, Stop, AtRest, WorkerPc, Status
<1>3. CASE CallProvider(w)
  <2>1. used' \in Nat
    BY <1>3, ConstantsAssumption DEF CallProvider, Reported
  <2> QED BY <1>0, <1>3, <2>1 DEF CallProvider, Goto, WorkerPc, AfterAnswer
<1>4. CASE StoreResults(w)
  <2>1. batches' \in [Jobs -> 0 .. 2]
    BY <1>4 DEF StoreResults
  <2> QED BY <1>0, <1>4, <2>1 DEF StoreResults, Stored, Stop, AtRest, Status
<1>5. CASE MarkJobFailed(w)
  BY <1>0, <1>5 DEF MarkJobFailed, Stop, AtRest, Status
<1>6. CASE LoseWorker(w)
  BY <1>0, <1>6 DEF LoseWorker, Stop, AtRest
<1> QED BY <1>1, <1>2, <1>3, <1>4, <1>5, <1>6 DEF WorkerStep

LEMMA TypeInvHolds == Spec => []TypeInv
<1>1. Init => TypeInv
  BY ConstantsAssumption
     DEF Init, TypeInv, TypeOK, OperationsHaveJobs, AtRest, NoRequest, WorkerPc, UserPc, Kinds, Status
<1>2. TypeInv /\ [Next]_vars => TypeInv'
  <2> SUFFICES ASSUME TypeInv, [Next]_vars PROVE TypeInv'
    OBVIOUS
  <2>1. ASSUME NEW j \in Jobs, PostJob(j) \/ DeleteJob(j) PROVE TypeInv'
    <3>1. batches' \in [Jobs -> 0 .. 2] /\ mixed' \subseteq Jobs
      BY <2>1 DEF PostJob, DeleteJob, TypeInv, TypeOK
    <3> QED BY <2>1, <3>1 DEF PostJob, DeleteJob, TypeInv, TypeOK, OperationsHaveJobs, Status
  <2>2. CASE UNCHANGED vars
    BY <2>2 DEF vars, TypeInv, TypeOK, OperationsHaveJobs
  <2> QED BY <2>1, <2>2, UserType, WorkerType DEF Next
<1> QED BY <1>1, <1>2, PTL DEF Spec

\* Every variable of the model always has its type.
THEOREM TypeCorrect == Spec => []TypeOK
BY TypeInvHolds, PTL DEF TypeInv

(***************************************************************************)
(* Results are stored once.  A job that is not mixed has at most one       *)
(* operation under way, and what that operation read is still the case.    *)
(***************************************************************************)
Alone(j) ==
  /\ \A w \in Workers, v \in Workers : worker[w].job = j /\ worker[v].job = j => w = v
  /\ \A u \in Users, v \in Users : user[u].job = j /\ user[v].job = j => u = v
  /\ \A w \in Workers, u \in Users : ~(worker[w].job = j /\ user[u].job = j)

\* What the operation at work on the job knows of it.
UpToDate(j) ==
  /\ \A w \in Workers : worker[w].job = j =>
       /\ worker[w].pc \in {"checked", "erred"} => status[j] \in Startable
       /\ worker[w].pc \in {"calling", "answered"} => status[j] = "running"
  /\ \A u \in Users : user[u].job = j =>
       /\ user[u].pc = "cancelling" => status[j] \in {"queued", "running"}
       /\ user[u].pc = "patching" => user[u].seen = status[j]

Consistent(j) ==
  /\ batches[j] <= 1
  /\ status[j] # "absent" => (batches[j] = 1 <=> status[j] = "succeeded")

Orderly(j) == Alone(j) /\ UpToDate(j) /\ Consistent(j)
NoRowNoResults == \A j \in Jobs : status[j] = "absent" => batches[j] = 0
OnceInv == NoRowNoResults /\ \A j \in Jobs \ mixed : Orderly(j)

\* A step that leaves a job's row and the operations on it alone keeps it orderly.
LEMMA OthersStayOrderly ==
  ASSUME NEW j \in Jobs, Orderly(j), status'[j] = status[j], batches'[j] = batches[j],
         \A w \in Workers : worker'[w].job = j => worker'[w] = worker[w],
         \A u \in Users : user'[u].job = j => user'[u] = user[u]
  PROVE  Orderly(j)'
<1>1. Alone(j)'
  BY DEF Orderly, Alone
<1>2. UpToDate(j)'
  BY DEF Orderly, UpToDate
<1>3. Consistent(j)'
  BY DEF Orderly, Consistent
<1> QED BY <1>1, <1>2, <1>3 DEF Orderly

\* The steps of requests keep the jobs orderly.
LEMMA UserOnce ==
  ASSUME TypeInv, OnceInv, NEW u \in Users, UserStep(u)
  PROVE  OnceInv'
<1> USE DEF TypeInv, TypeOK, OperationsHaveJobs, OnceInv, NoRowNoResults
<1>0. NoRequest.job \notin Jobs
  BY ConstantsAssumption DEF NoRequest
<1>1. ASSUME NEW kind \in Kinds, NEW asked \in Sizes, RequestGeneration(u, kind, asked) PROVE OnceInv'
  <2>1. ASSUME NEW k \in Jobs \ mixed' PROVE Orderly(k)'
    BY <1>0, <1>1, OthersStayOrderly DEF RequestGeneration, NoRequest
  <2> QED BY <1>1, <2>1 DEF RequestGeneration
<1>2. ASSUME NEW j \in Jobs, CreateJob(u, j) PROVE OnceInv'
  <2>1. Busy(j)' = {} /\ Consistent(j)'
    BY <1>0, <1>2 DEF CreateJob, Unused, Busy, Consistent
  <2>2. Orderly(j)'
    BY <2>1 DEF Busy, Orderly, Alone, UpToDate
  <2>3. ASSUME NEW k \in Jobs \ mixed', k # j PROVE Orderly(k)'
    BY <1>0, <1>2, <2>3, OthersStayOrderly DEF CreateJob
  <2> QED BY <1>2, <2>2, <2>3 DEF CreateJob
<1>3. ASSUME NEW j \in Jobs, NEW pc \in {"cancelling", "patching"}, Open(u, j, pc),
             pc = "cancelling" => status[j] \in {"queued", "running"}
      PROVE OnceInv'
  <2> USE DEF Open, Meet
  <2>0. user' = [user EXCEPT ![u] = [NoRequest EXCEPT !.pc = pc, !.job = j, !.seen = status[j]]]
    BY <1>3
  <2>1. ASSUME j \notin mixed' PROVE Orderly(j)'
    <3>1. Busy(j) = {} /\ Orderly(j)
      BY <1>3, <2>1
    <3>2. /\ \A w \in Workers : worker'[w].job # j
          /\ \A v \in Users : user'[v].job = j => v = u
          /\ user'[u].pc = pc /\ user'[u].seen = status'[j]
      BY <1>3, <2>0, <3>1 DEF Busy, NoRequest
    <3>3. Alone(j)'
      BY <3>2 DEF Alone
    <3>4. UpToDate(j)'
      BY <1>3, <3>2 DEF UpToDate
    <3>5. Consistent(j)'
      BY <1>3, <3>1 DEF Orderly, Consistent
    <3> QED BY <3>3, <3>4, <3>5 DEF Orderly
  <2>2. ASSUME NEW k \in Jobs \ mixed', k # j PROVE Orderly(k)'
    BY <1>3, <2>0, <2>2, OthersStayOrderly DEF NoRequest
  <2> QED BY <1>3, <2>1, <2>2
<1>4. ASSUME NEW j \in Jobs, user[u].job = j, SaveCancel(u) \/ SavePatch(u) PROVE OnceInv'
  <2>1. /\ user' = [user EXCEPT ![u] = NoRequest]
        /\ UNCHANGED <<batches, worker, mixed>>
        /\ \A k \in Jobs : k # j => status'[k] = status[k]
    BY <1>4 DEF SaveCancel, SavePatch
  <2>2. status'[j] = "absent" => status[j] = "absent"
    BY <1>4 DEF SaveCancel, SavePatch
  <2>3. ASSUME j \notin mixed' PROVE Orderly(j)'
    <3>1. Orderly(j)
      BY <2>1, <2>3
    <3>2. Busy(j)' = {}
      BY <1>0, <1>4, <2>1, <3>1 DEF Orderly, Alone, Busy
    <3>3. Consistent(j)'
      BY <1>4, <2>1, <3>1 DEF Orderly, UpToDate, Consistent, SaveCancel, SavePatch
    <3> QED BY <3>2, <3>3 DEF Busy, Orderly, Alone, UpToDate
  <2>4. ASSUME NEW k \in Jobs \ mixed', k # j PROVE Orderly(k)'
    BY <1>0, <2>1, <2>4, OthersStayOrderly
  <2> QED BY <2>1, <2>2, <2>3, <2>4
<1> QED BY <1>1, <1>2, <1>3, <1>4 DEF UserStep, StartCancel, StartPatch, SaveCancel, SavePatch

\* So do those of workers.
LEMMA WorkerOnce ==
  ASSUME TypeInv, OnceInv, NEW w \in Workers, WorkerStep(w)
  PROVE  OnceInv'
<1> USE DEF TypeInv, TypeOK, OperationsHaveJobs, OnceInv, NoRowNoResults
<1>0. AtRest.job \notin Jobs
  BY ConstantsAssumption DEF AtRest
<1>1. ASSUME NEW j \in Jobs, StartJob(w, j) PROVE OnceInv'
  <2> PICK pc \in {"checked", "erred"} : worker' = [worker EXCEPT ![w] = [pc |-> pc, job |-> j]]
    BY <1>1 DEF StartJob
  <2>1. ASSUME j \notin mixed' PROVE Orderly(j)'
    <3>1. Busy(j) = {} /\ Orderly(j)
      BY <1>1, <2>1 DEF StartJob, Meet
    <3>2. /\ \A v \in Workers : worker'[v].job = j => v = w
          /\ \A u \in Users : user'[u].job # j
          /\ worker'[w].pc = pc
      BY <1>1, <3>1 DEF StartJob, Busy
    <3>3. Alone(j)'
      BY <3>2 DEF Alone
    <3>4. UpToDate(j)'
      BY <1>1, <3>2 DEF UpToDate, StartJob
    <3>5. Consistent(j)'
      BY <1>1, <3>1 DEF StartJob, Orderly, Consistent
    <3> QED BY <3>3, <3>4, <3>5 DEF Orderly
  <2>2. ASSUME NEW k \in Jobs \ mixed', k # j PROVE Orderly(k)'
    BY <1>1, <2>2, OthersStayOrderly DEF StartJob, Meet
  <2> QED BY <1>1, <2>1, <2>2 DEF StartJob
\* The steps of a run: on the job, and on it alone.
<1>2. ASSUME NEW j \in Jobs, worker[w].job = j,
             ClaimJob(w) \/ CallProvider(w) \/ StoreResults(w) \/ MarkJobFailed(w) \/ LoseWorker(w)
      PROVE OnceInv'
  <2>1. /\ UNCHANGED <<user, mixed>>
        /\ \A v \in Workers : v # w => worker'[v] = worker[v]
        /\ \A k \in Jobs : k # j => status'[k] = status[k] /\ batches'[k] = batches[k]
    BY <1>2 DEF ClaimJob, CallProvider, StoreResults, Stored, MarkJobFailed, LoseWorker, Goto, Stop
  <2>2. worker'[w].job \in {j, NoJob}
    BY <1>2 DEF ClaimJob, CallProvider, StoreResults, MarkJobFailed, LoseWorker, Goto, Stop, AtRest
  <2>3. status'[j] = "absent" => status[j] = "absent" /\ batches'[j] = batches[j]
    BY <1>2 DEF ClaimJob, Claimable, CallProvider, StoreResults, MayStore, Stored, MarkJobFailed, LoseWorker
  <2>4. ASSUME j \notin mixed' PROVE Orderly(j)'
    <3>1. Orderly(j)
      BY <2>1, <2>4
    <3>2. Alone(j)'
      BY <1>2, <2>1, <3>1 DEF Orderly, Alone
    <3>3. Consistent(j)' /\ (worker'[w].job = j =>
            /\ worker'[w].pc \in {"checked", "erred"} => status'[j] \in Startable
            /\ worker'[w].pc \in {"calling", "answered"} => status'[j] = "running")
      <4>1. CASE ClaimJob(w)
        BY <1>2, <3>1, <4>1, <1>0
           DEF ClaimJob, Claimable, Goto, Stop, Orderly, UpToDate, Consistent, Startable
      <4>2. CASE CallProvider(w)
        BY <1>2, <3>1, <4>2 DEF CallProvider, Goto, AfterAnswer, Orderly, UpToDate, Consistent, Startable
      <4>3. CASE StoreResults(w)
        BY <1>2, <3>1, <4>3, <1>0 DEF StoreResults, MayStore, Stored, Stop, Orderly, UpToDate, Consistent
      <4>4. CASE MarkJobFailed(w)
        BY <1>2, <3>1, <4>4, <1>0 DEF MarkJobFailed, Stop, Orderly, UpToDate, Consistent, Startable
      <4>5. CASE LoseWorker(w)
        BY <1>2, <3>1, <4>5, <1>0 DEF LoseWorker, Stop, Orderly, Consistent
      <4> QED BY <1>2, <4>1, <4>2, <4>3, <4>4, <4>5
    <3>4. UpToDate(j)'
      BY <1>2, <2>1, <3>1, <3>3 DEF Orderly, Alone, UpToDate
    <3> QED BY <3>2, <3>3, <3>4 DEF Orderly
  <2>5. ASSUME NEW k \in Jobs \ mixed', k # j PROVE Orderly(k)'
    BY <1>2, <2>1, <2>2, <2>5, OthersStayOrderly, ConstantsAssumption
  <2> QED BY <2>1, <2>3, <2>4, <2>5
<1> QED BY <1>1, <1>2 DEF WorkerStep, ClaimJob, CallProvider, StoreResults, MarkJobFailed, LoseWorker

LEMMA OnceInvHolds == Spec => []OnceInv
<1>1. Init => OnceInv
  BY ConstantsAssumption
     DEF Init, OnceInv, NoRowNoResults, Orderly, Alone, UpToDate, Consistent, AtRest, NoRequest
<1>2. TypeInv /\ OnceInv /\ [Next]_vars => OnceInv'
  <2> SUFFICES ASSUME TypeInv, OnceInv, [Next]_vars PROVE OnceInv'
    OBVIOUS
  <2> USE DEF TypeInv, TypeOK, OnceInv, NoRowNoResults
  <2>1. ASSUME NEW j \in Jobs, PostJob(j) PROVE OnceInv'
    <3>1. Orderly(j)'
      BY <2>1 DEF PostJob, Unused, Busy, Orderly, Alone, UpToDate, Consistent
    <3>2. ASSUME NEW k \in Jobs \ mixed', k # j PROVE Orderly(k)'
      BY <2>1, <3>2, OthersStayOrderly DEF PostJob
    <3> QED BY <2>1, <3>1, <3>2 DEF PostJob
  <2>2. ASSUME NEW j \in Jobs, DeleteJob(j) PROVE OnceInv'
    <3>1. ASSUME j \notin mixed' PROVE Orderly(j)'
      BY <2>2, <3>1 DEF DeleteJob, Busy, Orderly, Alone, UpToDate, Consistent
    <3>2. ASSUME NEW k \in Jobs \ mixed', k # j PROVE Orderly(k)'
      BY <2>2, <3>2, OthersStayOrderly DEF DeleteJob
    <3> QED BY <2>2, <3>1, <3>2 DEF DeleteJob
  <2>3. CASE UNCHANGED vars
    BY <2>3 DEF vars, Orderly, Alone, UpToDate, Consistent
  <2> QED BY <2>1, <2>2, <2>3, UserOnce, WorkerOnce DEF Next
<1> QED BY <1>1, <1>2, TypeInvHolds, PTL DEF Spec

\* A job on which no two operations ever overlapped stores results at most once, and has
\* them exactly when it is succeeded, however often its task is delivered.
THEOREM StoredAtMostOnce == Spec => []ResultsStoredOnce
<1>1. OnceInv => ResultsStoredOnce
  BY DEF OnceInv, Orderly, Consistent, ResultsStoredOnce
<1> QED BY <1>1, OnceInvHolds, PTL

(***************************************************************************)
(* The token cap.  A run that has passed the look at the cap may still     *)
(* spend one call's tokens; those calls are set aside beforehand.          *)
(***************************************************************************)
Promised == {w \in Workers : worker[w].pc \in {"checked", "calling"} /\ worker[w].job \in CaptionJobs}
TokensInv ==
  TokenCap > 0 => used + Cardinality(Promised) * MaxTokens <= TokenCap - 1 + Cardinality(Workers) * MaxTokens

LEMMA ProductGrows ==
  ASSUME NEW a \in Nat, NEW b \in Nat, NEW m \in Nat, a <= b
  PROVE  a * m <= b * m
OBVIOUS

LEMMA ProductStep ==
  ASSUME NEW a \in Nat, NEW m \in Nat
  PROVE  (a + 1) * m = a * m + m /\ a * m \in Nat
OBVIOUS

LEMMA PromisedIsFinite ==
  ASSUME NEW S, S \subseteq Workers
  PROVE  IsFiniteSet(S) /\ Cardinality(S) \in Nat /\ Cardinality(S) <= Cardinality(Workers)
BY ConstantsAssumption, FS_Subset, FS_CardinalityType

\* A step that promises no further call and spends nothing keeps the bound.
LEMMA NoNewPromise ==
  ASSUME TypeInv, TokensInv, Promised' \subseteq Promised, used' = used
  PROVE  TokensInv'
<1>1. IsFiniteSet(Promised) /\ Cardinality(Promised) \in Nat /\ Cardinality(Workers) \in Nat
  BY PromisedIsFinite, ConstantsAssumption, FS_CardinalityType DEF Promised
<1>2. Cardinality(Promised') \in Nat /\ Cardinality(Promised') <= Cardinality(Promised)
  BY <1>1, FS_Subset, FS_CardinalityType
<1>3. Cardinality(Promised') * MaxTokens <= Cardinality(Promised) * MaxTokens
  BY <1>1, <1>2, ProductGrows, ConstantsAssumption
<1>4. /\ Cardinality(Promised') * MaxTokens \in Nat /\ Cardinality(Promised) * MaxTokens \in Nat
      /\ Cardinality(Workers) * MaxTokens \in Nat
  BY <1>1, <1>2, ProductStep, ConstantsAssumption
<1> QED BY <1>3, <1>4, ConstantsAssumption DEF TokensInv, TypeInv, TypeOK

LEMMA WorkerTokens ==
  ASSUME TypeInv, TokensInv, NEW w \in Workers, WorkerStep(w)
  PROVE  TokensInv'
<1> USE DEF TypeInv, TypeOK
<1>1. ASSUME NEW j \in Jobs, StartJob(w, j), j \in CaptionJobs, ~OverTokenCap(j) PROVE TokensInv'
  <2>1. Cardinality(Promised') \in Nat /\ Cardinality(Promised') <= Cardinality(Workers)
        /\ Cardinality(Workers) \in Nat
    BY PromisedIsFinite, ConstantsAssumption, FS_CardinalityType DEF Promised
  <2>2. Cardinality(Promised') * MaxTokens <= Cardinality(Workers) * MaxTokens
    BY <2>1, ProductGrows, ConstantsAssumption
  <2>3. Cardinality(Promised') * MaxTokens \in Nat /\ Cardinality(Workers) * MaxTokens \in Nat
    BY <2>1, ProductStep, ConstantsAssumption
  <2>4. used' \in Nat /\ (TokenCap > 0 => used' <= TokenCap - 1)
    BY <1>1, ConstantsAssumption DEF StartJob, OverTokenCap
  <2> QED BY <2>2, <2>3, <2>4, ConstantsAssumption DEF TokensInv
<1>2. ASSUME NEW j \in Jobs, StartJob(w, j), j \notin CaptionJobs \/ OverTokenCap(j) PROVE TokensInv'
  <2>1. Promised' \subseteq Promised /\ used' = used
    BY <1>2 DEF StartJob, Promised
  <2> QED BY <2>1, NoNewPromise
<1>3. CASE CallProvider(w) /\ worker[w].job \in CaptionJobs
  <2>1. w \in Promised /\ Promised' = Promised \ {w}
    BY <1>3 DEF CallProvider, Promised, Goto, AfterAnswer
  <2>2. IsFiniteSet(Promised) /\ Cardinality(Workers) \in Nat
    BY PromisedIsFinite, ConstantsAssumption, FS_CardinalityType DEF Promised
  <2>3. Cardinality(Promised') \in Nat /\ Cardinality(Promised) = Cardinality(Promised') + 1
    <3>1. /\ IsFiniteSet(Promised \ {w}) /\ Cardinality(Promised) \in Nat
          /\ Cardinality(Promised \ {w}) = Cardinality(Promised) - 1
      BY <2>1, <2>2, FS_RemoveElement, FS_CardinalityType
    <3>2. Cardinality(Promised \ {w}) \in Nat
      BY <3>1, FS_CardinalityType
    <3> QED BY <2>1, <3>1, <3>2
  <2>4. Cardinality(Promised) * MaxTokens = Cardinality(Promised') * MaxTokens + MaxTokens
        /\ Cardinality(Promised') * MaxTokens \in Nat
    BY <2>3, ProductStep, ConstantsAssumption
  <2>5. used' \in Nat /\ used' <= used + MaxTokens
    BY <1>3, ConstantsAssumption DEF CallProvider, Reported
  <2>6. Cardinality(Workers) * MaxTokens \in Nat
    BY <2>2, ProductStep, ConstantsAssumption
  <2> QED BY <2>4, <2>5, <2>6, ConstantsAssumption DEF TokensInv
<1>4. CASE CallProvider(w) /\ worker[w].job \notin CaptionJobs
  <2>1. Promised' \subseteq Promised /\ used' = used
    BY <1>4 DEF CallProvider, Promised, Goto, AfterAnswer, Reported
  <2> QED BY <2>1, NoNewPromise
<1>5. CASE ClaimJob(w) \/ StoreResults(w) \/ MarkJobFailed(w) \/ LoseWorker(w)
  <2>1. Promised' \subseteq Promised /\ used' = used
    BY <1>5 DEF ClaimJob, StoreResults, MarkJobFailed, LoseWorker, Promised, Goto, Stop, AtRest
  <2> QED BY <2>1, NoNewPromise
<1> QED BY <1>1, <1>2, <1>3, <1>4, <1>5 DEF WorkerStep

LEMMA TokensInvHolds == Spec => []TokensInv
<1>1. Init => TokensInv
  <2> SUFFICES ASSUME Init PROVE TokensInv
    OBVIOUS
  <2>1. Promised = {} /\ used = 0
    BY DEF Init, Promised, AtRest
  <2>2. Cardinality(Promised) = 0 /\ Cardinality(Workers) \in Nat
    BY <2>1, FS_EmptySet, ConstantsAssumption, FS_CardinalityType
  <2>3. Cardinality(Promised) * MaxTokens = 0 /\ Cardinality(Workers) * MaxTokens \in Nat
    BY <2>2, ProductStep, ConstantsAssumption
  <2> QED BY <2>1, <2>3, ConstantsAssumption DEF TokensInv
<1>2. TypeInv /\ TokensInv /\ [Next]_vars => TokensInv'
  <2> SUFFICES ASSUME TypeInv, TokensInv, [Next]_vars PROVE TokensInv'
    OBVIOUS
  <2>1. ASSUME worker' = worker, used' = used PROVE TokensInv'
    BY <2>1, NoNewPromise DEF Promised
  <2>2. ASSUME NEW u \in Users, UserStep(u) PROVE worker' = worker /\ used' = used
    BY <2>2 DEF UserStep, RequestGeneration, CreateJob, StartCancel, StartPatch, Open, SaveCancel, SavePatch
  <2>3. ASSUME NEW j \in Jobs, PostJob(j) \/ DeleteJob(j) PROVE worker' = worker /\ used' = used
    BY <2>3 DEF PostJob, DeleteJob
  <2> QED BY <2>1, <2>2, <2>3, WorkerTokens DEF Next, vars
<1> QED BY <1>1, <1>2, TypeInvHolds, PTL DEF Spec

\* The tokens billed to a tenant exceed its cap by no more than one call of each worker.
THEOREM TokensStayBounded == Spec => []TokensBounded
<1>1. TypeInv /\ TokensInv => TokensBounded
  <2> SUFFICES ASSUME TypeInv, TokensInv PROVE TokensBounded
    OBVIOUS
  <2>1. Cardinality(Promised) \in Nat /\ Cardinality(Workers) \in Nat
    BY PromisedIsFinite, ConstantsAssumption, FS_CardinalityType DEF Promised
  <2>2. Cardinality(Promised) * MaxTokens \in Nat /\ Cardinality(Workers) * MaxTokens \in Nat
    BY <2>1, ProductStep, ConstantsAssumption
  <2> QED BY <2>2, ConstantsAssumption DEF TokensInv, TokensBounded, TypeInv, TypeOK
<1> QED BY <1>1, TypeInvHolds, TokensInvHolds, PTL
=============================================================================
