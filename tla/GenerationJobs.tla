-------------------------- MODULE GenerationJobs --------------------------
(***************************************************************************)
(* Caption and image generation jobs of one tenant (content_ops/           *)
(* generation.py, image_generation.py, metering.py and the job endpoints   *)
(* of views.py).  Requests check the quotas and create jobs; Celery runs a *)
(* job any number of times (redelivery, operators); users cancel, edit and *)
(* delete jobs.  The provider is called outside of any transaction.        *)
(***************************************************************************)
EXTENDS Naturals, FiniteSets, FiniteSetsExt

CONSTANTS CaptionJobs, ImageJobs,
          Workers,        \* Celery workers
          Users,          \* requests being served
          ActiveLimit, DailyLimit, SizeLimit,   \* the quotas, of each job type
          Sizes,          \* candidates or images a request may ask for
          TokenCap,       \* monthly_token_cap
          MaxTokens,      \* bound: tokens of one call
          NoJob

Jobs == CaptionJobs \cup ImageJobs

ASSUME ConstantsAssumption ==
  /\ IsFiniteSet(Workers) /\ NoJob \notin Jobs
  /\ TokenCap \in Nat /\ MaxTokens \in Nat
Kinds == {"caption", "image"}
JobsOf(kind) == IF kind = "caption" THEN CaptionJobs ELSE ImageJobs

Status == {"absent", "queued", "running", "succeeded", "failed", "cancelled"}
VARIABLES
  status,    \* GenerationJob.status; absent: no such row
  size,      \* candidate_count or count in prompt_policy_result
  batches,   \* history: times results were stored for a job (two stand for more)
  used,      \* tokens in the tenant's AIUsageRecords of this month
  worker,    \* what each worker has in memory
  user,      \* what each request has in memory
  mixed      \* history: jobs two operations worked on at once

vars == <<status, size, batches, used, worker, user, mixed>>

AtRest == [pc |-> "idle", job |-> NoJob]
WorkerPc == {"idle", "checked", "calling", "answered", "erred"}
NoRequest == [pc |-> "idle", job |-> NoJob, kind |-> "caption", seen |-> "absent", asked |-> 0]
UserPc == {"idle", "accepted", "cancelling", "patching"}

Init ==
  /\ status = [j \in Jobs |-> "absent"] /\ size = [j \in Jobs |-> 0]
  /\ batches = [j \in Jobs |-> 0] /\ used = 0
  /\ worker = [w \in Workers |-> AtRest]
  /\ user = [u \in Users |-> NoRequest]
  /\ mixed = {}

Busy(j) == {w \in Workers : worker[w].job = j} \cup {u \in Users : user[u].job = j}
\* A job becomes mixed when an operation starts on it while another is under way.
Meet(j) == mixed' = IF Busy(j) # {} THEN mixed \cup {j} ELSE mixed

(***************************************************************************)
(* Users.                                                                  *)
(***************************************************************************)
Active(kind) == {j \in JobsOf(kind) : status[j] \in {"queued", "running"}}
Recent(kind) == {j \in JobsOf(kind) : status[j] # "absent"}   \* all jobs are of the last 24 hours

\* enforce_caption_generation_quota, enforce_image_generation_quota.
WithinQuota(kind, asked) ==
  /\ Cardinality(Active(kind)) < ActiveLimit
  /\ Cardinality(Recent(kind)) < DailyLimit
  /\ MapThenSumSet(LAMBDA j : size[j], Recent(kind)) + asked <= SizeLimit

Unused(j) == status[j] = "absent" /\ Busy(j) = {}

\* A generation request passes the quota check ...
RequestGeneration(u, kind, asked) ==
  /\ user[u].pc = "idle" /\ WithinQuota(kind, asked)
  /\ user' = [user EXCEPT ![u] = [NoRequest EXCEPT !.pc = "accepted", !.kind = kind, !.asked = asked]]
  /\ UNCHANGED <<status, size, batches, used, worker, mixed>>

\* ... and creates the job in a later statement.
CreateJob(u, j) ==
  /\ user[u].pc = "accepted" /\ j \in JobsOf(user[u].kind) /\ Unused(j)
  /\ status' = [status EXCEPT ![j] = "queued"]
  /\ size' = [size EXCEPT ![j] = user[u].asked]
  /\ user' = [user EXCEPT ![u] = NoRequest]
  /\ mixed' = mixed \ {j}
  /\ UNCHANGED <<batches, used, worker>>

\* POST generation-jobs/ creates a queued job without a look at the quotas, and
\* without a count, for which the worker takes the default.
PostJob(j) ==
  /\ Unused(j)
  /\ status' = [status EXCEPT ![j] = "queued"]
  /\ mixed' = mixed \ {j}
  /\ UNCHANGED <<size, batches, used, worker, user>>

Open(u, j, pc) ==
  /\ user[u].pc = "idle" /\ status[j] # "absent"
  /\ user' = [user EXCEPT ![u] = [NoRequest EXCEPT !.pc = pc, !.job = j, !.seen = status[j]]]
  /\ Meet(j)
  /\ UNCHANGED <<status, size, batches, used, worker>>

StartCancel(u, j) == status[j] \in {"queued", "running"} /\ Open(u, j, "cancelling")
StartPatch(u, j) == Open(u, j, "patching")

\* cancel saves the status alone; the row may be gone.
SaveCancel(u) ==
  /\ user[u].pc = "cancelling"
  /\ status' = [status EXCEPT ![user[u].job] = IF @ = "absent" THEN @ ELSE "cancelled"]
  /\ user' = [user EXCEPT ![u] = NoRequest]
  /\ UNCHANGED <<size, batches, used, worker, mixed>>

\* PATCH saves the whole row as it was loaded, the status included; a row deleted in
\* between is inserted again.
SavePatch(u) ==
  /\ user[u].pc = "patching"
  /\ status' = [status EXCEPT ![user[u].job] = user[u].seen]
  /\ user' = [user EXCEPT ![u] = NoRequest]
  /\ UNCHANGED <<size, batches, used, worker, mixed>>

DeleteJob(j) ==
  /\ status[j] # "absent"
  /\ status' = [status EXCEPT ![j] = "absent"]
  /\ size' = [size EXCEPT ![j] = 0]
  /\ batches' = [batches EXCEPT ![j] = 0]
  /\ mixed' = IF Busy(j) # {} THEN mixed \cup {j} ELSE mixed \ {j}
  /\ UNCHANGED <<used, worker, user>>

(***************************************************************************)
(* Workers: process_content_caption_generation_job and                     *)
(* process_content_image_generation_job.                                   *)
(***************************************************************************)
Goto(w, pc) == worker' = [worker EXCEPT ![w].pc = pc]
Stop(w) == worker' = [worker EXCEPT ![w] = AtRest]
\* Mutant of OverTokenCap: the cap is only met when it is passed.
PassedTokenCap(j) == j \in CaptionJobs /\ TokenCap > 0 /\ used > TokenCap
\* tenant_over_token_cap: images are not metered in tokens, nor checked.
OverTokenCap(j) == j \in CaptionJobs /\ TokenCap > 0 /\ used >= TokenCap

Startable == {"queued", "running", "failed"}

\* The first look at the job, without a lock.  Any job is looked at: nothing tells a
\* redelivered message from the first one.
StartJob(w, j) ==
  /\ worker[w].pc = "idle" /\ status[j] \in Startable
  /\ \E pc \in {"checked", "erred"} :   \* erred: the brief is missing
       /\ (OverTokenCap(j) => pc = "erred")
       /\ worker' = [worker EXCEPT ![w] = [pc |-> pc, job |-> j]]
  /\ Meet(j)
  /\ UNCHANGED <<status, size, batches, used, user>>

Claimable(j) == status[j] \notin {"absent", "cancelled", "succeeded"}

\* The claim, under the row's lock.
ClaimJob(w) ==
  LET j == worker[w].job IN
  /\ worker[w].pc = "checked"
  /\ IF Claimable(j) THEN status' = [status EXCEPT ![j] = "running"] /\ Goto(w, "calling")
                     ELSE Stop(w) /\ UNCHANGED status
  /\ UNCHANGED <<size, batches, used, user, mixed>>

\* The answer may be usable, or an error, malformed, unsafe or empty.
AfterAnswer == {"answered", "erred"}
\* The tokens a call reports: images report none, and recording may fail silently.
Reported(j) == IF j \in CaptionJobs THEN 0 .. MaxTokens ELSE {0}

\* The provider call and the record of its usage.
CallProvider(w) ==
  /\ worker[w].pc = "calling"
  /\ \E tokens \in Reported(worker[w].job) : used' = used + tokens
  /\ \E pc \in AfterAnswer : Goto(w, pc)
  /\ UNCHANGED <<status, size, batches, user, mixed>>

\* The second transaction.  It stops at a cancelled job, but not at one that another
\* worker has brought to an end.  Nothing acceptable or storable fails the job.
MayStore(j) == status[j] \notin {"absent", "cancelled"}

\* Mutants of Stored: a literal that is no choice of the field; the status is not saved.
StoredAsCompleted(j) == status' = [status EXCEPT ![j] = "completed"]
StoredAlone(j) == UNCHANGED status
Stored(j) == status' = [status EXCEPT ![j] = "succeeded"]

StoreResults(w) ==
  LET j == worker[w].job IN
  /\ worker[w].pc = "answered"
  /\ \/ /\ MayStore(j) /\ Stored(j)
        /\ batches' = [batches EXCEPT ![j] = IF @ = 2 THEN 2 ELSE @ + 1]
     \/ /\ MayStore(j)
        /\ status' = [status EXCEPT ![j] = "failed"]
        /\ UNCHANGED batches
     \/ /\ ~MayStore(j) /\ UNCHANGED <<status, batches>>
  /\ Stop(w)
  /\ UNCHANGED <<size, used, user, mixed>>

\* _mark_job_failed looks at nothing: a cancelled or succeeded job fails as well.
MarkJobFailed(w) ==
  /\ worker[w].pc = "erred"
  /\ status' = [status EXCEPT ![worker[w].job] = IF @ = "absent" THEN @ ELSE "failed"]
  /\ Stop(w)
  /\ UNCHANGED <<size, batches, used, user, mixed>>

\* A lost worker, or an exception that is not a GenerationError: the job stays running.
LoseWorker(w) ==
  /\ worker[w].pc # "idle" /\ Stop(w)
  /\ UNCHANGED <<status, size, batches, used, user, mixed>>

UserStep(u) ==
  \/ \E kind \in Kinds, asked \in Sizes : RequestGeneration(u, kind, asked)
  \/ \E j \in Jobs : CreateJob(u, j) \/ StartCancel(u, j) \/ StartPatch(u, j)
  \/ SaveCancel(u) \/ SavePatch(u)
WorkerStep(w) ==
  \/ \E j \in Jobs : StartJob(w, j)
  \/ ClaimJob(w) \/ CallProvider(w) \/ StoreResults(w) \/ MarkJobFailed(w) \/ LoseWorker(w)

Next == \/ \E u \in Users : UserStep(u)
        \/ \E w \in Workers : WorkerStep(w)
        \/ \E j \in Jobs : PostJob(j) \/ DeleteJob(j)
Spec == Init /\ [][Next]_vars

-----------------------------------------------------------------------------
\* Every variable keeps its type; used is bounded by TokensBounded.
TypeOK ==
  /\ status \in [Jobs -> Status] /\ size \in [Jobs -> Sizes \cup {0}]
  /\ batches \in [Jobs -> 0 .. 2] /\ used \in Nat
  /\ worker \in [Workers -> [pc : WorkerPc, job : Jobs \cup {NoJob}]]
  /\ user \in [Users -> [pc : UserPc, job : Jobs \cup {NoJob}, kind : Kinds, seen : Status, asked : Sizes \cup {0}]]
  /\ mixed \subseteq Jobs

\* A job whose operations never overlapped stores results at most once, however often the
\* task is delivered, and is succeeded from then on: only overlapping runs, cancellations
\* or edits produce a batch twice or part the status from the results.
ResultsStoredOnce ==
  \A j \in Jobs \ mixed :
    /\ batches[j] <= 1
    /\ status[j] # "absent" => (batches[j] = 1 <=> status[j] = "succeeded")

\* The tokens billed exceed the cap by no more than one call of each worker.
TokensBounded == TokenCap > 0 => used <= TokenCap - 1 + Cardinality(Workers) * MaxTokens
=============================================================================
