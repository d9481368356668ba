------------------------ MODULE ReportExports_proofs ------------------------
(***************************************************************************)
(* Theorems about ReportExports, for any number of jobs, workers, versions *)
(* of the data, updates of the report and faults.                          *)
(***************************************************************************)
EXTENDS ReportExports, TLAPS

LEMMA NothingFacts ==
  /\ None \notin Jobs /\ None \notin Copy \cup Artifact /\ Partial \notin Artifact /\ None # Partial
  /\ MaxData \in Nat /\ MaxStamp \in Nat /\ MaxFaults \in Nat
BY BoundsAssumption, NoneAssumption

(***************************************************************************)
(* Type correctness, and what each kind of step does to the rows and       *)
(* memories it touches.                                                    *)
(***************************************************************************)
BusyHasJob ==
  \A w \in Workers : /\ worker[w].pc # "idle" <=> worker[w].job \in Jobs
                     /\ worker[w].pc \in {"writing", "written"} => worker[w].made # None
TypeInv == TypeOK /\ BusyHasJob

LEMMA PreviewType ==
  ASSUME TypeInv, NEW seen \in Stamped \cup Reports
  PROVE  /\ Preview(seen) \in Copy
         /\ Remembered(seen) \in [0..MaxStamp -> Copy \cup {None}]
<1>1. seen.stamp \in 0..MaxStamp /\ seen.edit \in 0..MaxStamp
  BY DEF Stamped, Reports
<1>2. [edit |-> seen.edit, data |-> data] \in Copy
  BY <1>1 DEF Copy, TypeInv, TypeOK
<1>3. cache \in [0..MaxStamp -> Copy \cup {None}]
  BY DEF TypeInv, TypeOK
<1> QED BY <1>1, <1>2, <1>3 DEF Preview, Remembered, CacheKey

LEMMA ContentType ==
  ASSUME TypeInv, NEW w \in Workers, NEW a \in Contents(worker[w])
  PROVE  /\ a \in Artifact /\ a.title = worker[w].edit
         /\ worker[w].frozen # None => a.source = "preview" /\ a.edit = worker[w].frozen.edit
                                                            /\ a.data = worker[w].frozen.data
         /\ worker[w].frozen = None => /\ a.source \in {"fetched", "default"} /\ a.edit = worker[w].edit
                                       /\ a.source = "fetched" => a.data = data
<1>1. worker[w] \in Memories /\ data \in 0..MaxData
  BY DEF TypeInv, TypeOK
<1>2. worker[w].edit \in 0..MaxStamp /\ worker[w].frozen \in Copy \cup {None}
  BY <1>1 DEF Memories
<1>3. CASE worker[w].frozen # None
  <2>1. PICK c \in Copy : c = worker[w].frozen
    BY <1>2, <1>3
  <2>2. a = [edit |-> c.edit, data |-> c.data, title |-> worker[w].edit, source |-> "preview"]
    BY <1>3, <2>1 DEF Contents, FromPreview
  <2> QED BY <1>2, <1>3, <2>1, <2>2 DEF Copy, Artifact
<1>4. CASE worker[w].frozen = None
  <2>1. \/ a = [edit |-> worker[w].edit, data |-> data, title |-> worker[w].edit, source |-> "fetched"]
        \/ a = [edit |-> worker[w].edit, data |-> 0, title |-> worker[w].edit, source |-> "default"]
    BY <1>4 DEF Contents, Live, Default
  <2> QED BY <1>1, <1>2, <1>4, <2>1, NothingFacts DEF Artifact
<1> QED BY <1>3, <1>4

\* A request that goes on keeps what was asked.
LEMMA GoesFacts ==
  ASSUME TypeInv, NEW i \in Jobs, NEW pc \in {"created", "refused", "done", "dead"}, Goes(i, pc)
  PROVE  /\ request' \in [Jobs -> Requests]
         /\ \A j \in Jobs : /\ request'[j].asked = request[j].asked
                            /\ j # i => request'[j] = request[j]
         /\ request'[i].pc = pc
<1>1. request \in [Jobs -> Requests]
  BY DEF TypeInv, TypeOK
<1>2. request' = [request EXCEPT ![i] = [@ EXCEPT !.pc = pc, !.seen = Forgotten]]
  BY <1>1 DEF Goes, Requests
<1>3. Forgotten \in Stamped
  BY NothingFacts DEF Forgotten, Stamped
<1>4. [request[i] EXCEPT !.pc = pc, !.seen = Forgotten] \in Requests
  BY <1>1, <1>3 DEF Requests
<1>5. /\ [request[i] EXCEPT !.pc = pc, !.seen = Forgotten].asked = request[i].asked
      /\ [request[i] EXCEPT !.pc = pc, !.seen = Forgotten].pc = pc
  BY <1>1 DEF Requests
<1> QED BY <1>1, <1>2, <1>4, <1>5

\* A step of a task that writes the file, or leaves it.
LEMMA WritesFacts ==
  ASSUME TypeInv, NEW w \in Workers, NEW k \in Jobs, worker[w].job = k,
         NEW what \in Artifact \cup {None, Partial}, NEW pc \in {"writing", "written", "broken"},
         NEW made \in Artifact \cup {None}, Writes(w, what, pc, made)
  PROVE  /\ file' \in [Jobs -> Artifact \cup {None, Partial}] /\ worker' \in [Workers -> Memories]
         /\ file'[k] = what /\ \A j \in Jobs : j # k => file'[j] = file[j]
         /\ \A v \in Workers : v # w => worker'[v] = worker[v]
         /\ worker'[w].pc = pc /\ worker'[w].job = k /\ worker'[w].made = made
         /\ worker'[w].told = worker[w].told
         /\ UNCHANGED <<data, report, cache, job, queue, request, doubt, faults>>
<1> DEFINE new == [worker[w] EXCEPT !.pc = pc, !.made = made]
<1>1. worker \in [Workers -> Memories] /\ file \in [Jobs -> Artifact \cup {None, Partial}]
  BY DEF TypeInv, TypeOK
<1>2. new \in Memories /\ new.pc = pc /\ new.job = k /\ new.made = made /\ new.told = worker[w].told
  BY <1>1 DEF Memories
<1>3. worker' = [worker EXCEPT ![w] = new]
  BY <1>1 DEF Writes
<1>4. file' = [file EXCEPT ![k] = what]
  BY DEF Writes
<1> QED BY <1>1, <1>2, <1>3, <1>4 DEF Writes

\* A save of the job: without its row the task ends.
LEMMA SaveFacts ==
  ASSUME TypeInv, NEW w \in Workers, NEW k \in Jobs, worker[w].job = k,
         NEW new \in JobRow, NEW next \in Memories, Save(w, new, next)
  PROVE  /\ job' \in [Jobs -> JobRow] /\ worker' \in [Workers -> Memories]
         /\ \A j \in Jobs : j # k => job'[j] = job[j]
         /\ \A v \in Workers : v # w => worker'[v] = worker[v]
         /\ Exists(k) => job'[k] = new /\ worker'[w] = next
         /\ ~Exists(k) => job' = job /\ worker'[w] = Idle
         /\ UNCHANGED <<data, report, cache, file, queue, request, doubt, faults>>
<1>1. worker \in [Workers -> Memories] /\ job \in [Jobs -> JobRow]
  BY DEF TypeInv, TypeOK
<1>2. Idle \in Memories
  BY NothingFacts DEF Idle, Memories, Deliveries, Tellings
<1>3. job' = IF Exists(k) THEN [job EXCEPT ![k] = new] ELSE job
  BY DEF Save
<1>4. worker' = [worker EXCEPT ![w] = IF Exists(k) THEN next ELSE Idle]
  BY DEF Save
<1> QED BY <1>1, <1>2, <1>3, <1>4 DEF Save

\* The message of the job j comes again.
LEMMA RedeliverFacts ==
  ASSUME TypeInv, NEW j \in Jobs, Redeliver(j)
  PROVE  /\ queue' \in [Jobs -> Nat] /\ \A i \in Jobs : i # j => queue'[i] = queue[i]
         /\ doubt' \in [redelivered : SUBSET Jobs, unsure : SUBSET Jobs]
         /\ doubt'.redelivered = doubt.redelivered \cup {j}
         /\ faults' \in 0..MaxFaults
         /\ UNCHANGED <<data, report, cache, job, file, request>>
<1>1. queue \in [Jobs -> Nat] /\ queue' = [queue EXCEPT ![j] = @ + 1]
  BY DEF TypeInv, TypeOK, Redeliver
<1>2. /\ doubt \in [redelivered : SUBSET Jobs, unsure : SUBSET Jobs]
      /\ doubt' = [doubt EXCEPT !.redelivered = @ \cup {j}]
  BY DEF TypeInv, TypeOK, Redeliver
<1>3. faults' \in 0..MaxFaults
  BY NothingFacts DEF TypeInv, TypeOK, Redeliver
<1>4. /\ doubt' \in [redelivered : SUBSET Jobs, unsure : SUBSET Jobs]
      /\ doubt'.redelivered = doubt.redelivered \cup {j}
  BY <1>2
<1> QED BY <1>1, <1>3, <1>4 DEF Redeliver

\* A worker takes the message of a job.
LEMMA TakeFacts ==
  ASSUME TypeInv, NEW w \in Workers, NEW i \in Jobs, Take(w, i)
  PROVE  /\ worker[w].pc = "idle" /\ queue[i] > 0
         /\ queue' \in [Jobs -> Nat] /\ queue'[i] = queue[i] - 1
         /\ \A j \in Jobs : j # i => queue'[j] = queue[j]
         /\ worker' \in [Workers -> Memories]
         /\ \A v \in Workers : v # w => worker'[v] = worker[v]
         /\ ~Exists(i) => worker' = worker
         /\ Exists(i) => /\ worker'[w].pc = "loaded" /\ worker'[w].job = i
                         /\ worker'[w].frozen = job[i].frozen /\ worker'[w].told = job[i].told
                         /\ worker'[w].edit = report.edit
         /\ UNCHANGED <<data, report, cache, job, file, request, doubt, faults>>
<1> DEFINE new == [pc |-> "loaded", job |-> i, delivery |-> job[i].delivery,
                   told |-> job[i].told, edit |-> report.edit, frozen |-> job[i].frozen,
                   made |-> None]
<1>1. /\ worker \in [Workers -> Memories] /\ job[i] \in JobRow /\ report \in Reports
      /\ queue \in [Jobs -> Nat]
  BY DEF TypeInv, TypeOK
<1>2. new \in Memories
  BY <1>1, NothingFacts DEF Memories, JobRow, Reports
<1>3. worker' = IF Exists(i) THEN [worker EXCEPT ![w] = new] ELSE worker
  BY DEF Take
<1>4. queue' = [queue EXCEPT ![i] = @ - 1] /\ queue[i] > 0
  BY DEF Take
<1>5. new.pc = "loaded" /\ new.job = i /\ new.frozen = job[i].frozen
      /\ new.told = job[i].told /\ new.edit = report.edit
  OBVIOUS
<1> HIDE DEF new
<1> QED BY <1>1, <1>2, <1>3, <1>4, <1>5 DEF Take

\* A request makes its job, or ends without one.
LEMMA CreateFacts ==
  ASSUME TypeInv, NEW i \in Jobs, CreateJob(i)
  PROVE  /\ request[i].pc = "open" /\ request[i].seen \in Stamped
         /\ request' \in [Jobs -> Requests]
         /\ \A j \in Jobs : /\ request'[j].asked = request[j].asked
                            /\ j # i => request'[j] = request[j] /\ job'[j] = job[j]
         /\ job' \in [Jobs -> JobRow] /\ report' \in Reports
         /\ report'.alive = report.alive /\ report'.edit = report.edit /\ report'.kind = report.kind
         /\ report'.stamp = report.stamp \/ report'.stamp = report.stamp + 1
         /\ cache' \in [0..MaxStamp -> Copy \cup {None}]
         /\ cache' = cache \/ cache' = Remembered(request[i].seen)
         /\ \/ request'[i].pc = "done" /\ UNCHANGED job
            \/ /\ report.alive /\ request'[i].pc \in {"created", "done"}
               /\ job'[i].status \in {"queued", "failed"}
               /\ job'[i].frozen \in {None, Preview(request[i].seen)} /\ job'[i].told = "none"
         /\ UNCHANGED <<data, file, queue, worker, doubt, faults>>
<1>1. /\ request \in [Jobs -> Requests] /\ job \in [Jobs -> JobRow] /\ report \in Reports
      /\ cache \in [0..MaxStamp -> Copy \cup {None}]
  BY DEF TypeInv, TypeOK
<1>2. request[i].pc = "open" /\ request[i].seen \in Stamped
  BY <1>1 DEF CreateJob, Requests
<1>3. PICK seen \in Stamped : seen = request[i].seen
  BY <1>2
<1>4. Preview(seen) \in Copy /\ Remembered(seen) \in [0..MaxStamp -> Copy \cup {None}]
  BY PreviewType
<1>5. cache' = cache \/ cache' = Remembered(seen)
  BY <1>3 DEF CreateJob
<1>6. PICK pc \in {"created", "done"} : Goes(i, pc)
  BY DEF CreateJob
<1>7. /\ request' \in [Jobs -> Requests]
      /\ \A j \in Jobs : /\ request'[j].asked = request[j].asked
                         /\ j # i => request'[j] = request[j]
      /\ request'[i].pc = pc
  BY <1>6, GoesFacts
<1>8. CASE Goes(i, "done") /\ UNCHANGED <<job, report>>
  <2>1. request'[i].pc = "done"
    BY <1>8, GoesFacts
  <2> QED BY <1>1, <1>2, <1>3, <1>4, <1>5, <1>7, <1>8, <2>1 DEF CreateJob
<1>9. CASE ~(Goes(i, "done") /\ UNCHANGED <<job, report>>)
  <2>1. PICK new : /\ job' = [job EXCEPT ![i] = new] /\ new \in JobRow
                   /\ new.status \in {"queued", "failed"} /\ new.frozen \in {None, Preview(seen)}
                   /\ new.told = "none"
    <3>1. PICK b \in BOOLEAN, dry \in BOOLEAN : job' = [job EXCEPT ![i] =
               [status |-> IF b THEN "failed" ELSE "queued", path |-> FALSE,
                frozen |-> IF seen.kind = "v1" /\ ~b THEN Preview(seen) ELSE None,
                delivery |-> CASE b -> "blocked" [] dry /\ ~b -> "queued"
                               [] ~dry /\ ~b -> "none",
                told |-> "none"]]
      <4>1. request[i].dry \in BOOLEAN
        BY <1>1 DEF Requests
      <4> DEFINE blocked == seen.kind = "v1" /\ ~ExportReady(Preview(seen))
      <4>2. blocked \in BOOLEAN
        OBVIOUS
      <4>3. job' = [job EXCEPT ![i] =
               [status |-> IF blocked THEN "failed" ELSE "queued", path |-> FALSE,
                frozen |-> IF seen.kind = "v1" /\ ~blocked THEN Preview(seen) ELSE None,
                delivery |-> CASE blocked -> "blocked" [] request[i].dry /\ ~blocked -> "queued"
                               [] ~request[i].dry /\ ~blocked -> "none",
                told |-> "none"]]
        BY <1>3, <1>9 DEF CreateJob
      <4> HIDE DEF blocked
      <4> QED BY <4>1, <4>2, <4>3
    <3>2. PICK frozen \in {None, Preview(seen)} : frozen = IF seen.kind = "v1" /\ ~b THEN Preview(seen) ELSE None
      OBVIOUS
    <3>3. PICK delivery \in Deliveries :
            delivery = CASE b -> "blocked" [] dry /\ ~b -> "queued" [] ~dry /\ ~b -> "none"
      BY DEF Deliveries
    <3>4. PICK new : new = [status |-> IF b THEN "failed" ELSE "queued", path |-> FALSE,
                            frozen |-> frozen, delivery |-> delivery, told |-> "none"]
      OBVIOUS
    <3>5. new \in JobRow
      BY <1>4, <3>4 DEF JobRow, Tellings
    <3>6. job' = [job EXCEPT ![i] = new]
      BY <3>1, <3>2, <3>3, <3>4
    <3>7. new.status \in {"queued", "failed"} /\ new.frozen = frozen /\ new.told = "none"
      BY <3>4
    <3> QED BY <3>5, <3>6, <3>7
  <2>2. /\ report' \in Reports /\ report.alive
        /\ report'.alive = report.alive /\ report'.edit = report.edit /\ report'.kind = report.kind
        /\ report'.stamp = report.stamp \/ report'.stamp = report.stamp + 1
    BY <1>1, <1>9, NothingFacts DEF CreateJob, Reports
  <2> QED BY <1>1, <1>2, <1>3, <1>4, <1>5, <1>7, <2>1, <2>2 DEF CreateJob
<1> QED BY <1>8, <1>9

\* A request that was told its message was not sent fails its job.
LEMMA RefusalFacts ==
  ASSUME TypeInv, NEW i \in Jobs, SaveRefusal(i)
  PROVE  /\ request' \in [Jobs -> Requests]
         /\ \A j \in Jobs : /\ request'[j].asked = request[j].asked
                            /\ j # i => request'[j] = request[j] /\ job'[j] = job[j]
         /\ request[i].pc = "refused" /\ request'[i].pc = "done"
         /\ job' \in [Jobs -> JobRow]
         /\ UNCHANGED job \/ (/\ Exists(i) /\ job'[i].status = "failed"
                             /\ job'[i].frozen = job[i].frozen /\ job'[i].told = job[i].told)
         /\ UNCHANGED <<data, report, cache, file, queue, worker, doubt, faults>>
<1>1. job \in [Jobs -> JobRow] /\ job[i] \in JobRow
  BY DEF TypeInv, TypeOK
<1>2. Goes(i, "done")
  BY DEF SaveRefusal
<1>3. CASE Exists(i)
  <2>1. PICK d \in Deliveries : job' = [job EXCEPT ![i] = [job[i] EXCEPT !.status = "failed", !.delivery = d]]
    <3>1. job' = [job EXCEPT ![i] =
            [job[i] EXCEPT !.status = "failed", !.delivery = IF request[i].dry THEN "failed" ELSE job[i].delivery]]
      BY <1>1, <1>3 DEF SaveRefusal, JobRow
    <3>2. (IF request[i].dry THEN "failed" ELSE job[i].delivery) \in Deliveries
      BY <1>1 DEF JobRow, Deliveries
    <3> QED BY <3>1, <3>2
  <2>2. PICK new : new = [job[i] EXCEPT !.status = "failed", !.delivery = d]
    OBVIOUS
  <2>3. /\ new \in JobRow /\ new.status = "failed" /\ new.frozen = job[i].frozen
        /\ new.told = job[i].told
    BY <1>1, <2>2 DEF JobRow
  <2> QED BY <1>1, <1>2, <1>3, <2>1, <2>2, <2>3, GoesFacts DEF SaveRefusal
<1>4. CASE ~Exists(i)
  BY <1>1, <1>2, <1>4, GoesFacts DEF SaveRefusal
<1> QED BY <1>3, <1>4

\* A worker is lost, or holds its message for too long.
LEMMA LossFacts ==
  ASSUME TypeInv, NEW w \in Workers, LoseWorker(w) \/ HoldTooLong(w)
  PROVE  \E k \in Jobs :
           /\ worker[w].job = k
           /\ worker' \in [Workers -> Memories]
           /\ \A v \in Workers : v # w => worker'[v] = worker[v]
           /\ worker'[w] \in {worker[w], Idle}
           /\ queue' \in [Jobs -> Nat] /\ \A i \in Jobs : i # k => queue'[i] = queue[i]
           /\ doubt' \in [redelivered : SUBSET Jobs, unsure : SUBSET Jobs]
           /\ doubt'.redelivered = doubt.redelivered \cup {k}
           /\ faults' \in 0..MaxFaults
           /\ UNCHANGED <<data, report, cache, job, file, request>>
<1>1. PICK k \in Jobs : worker[w].job = k
  BY DEF LoseWorker, HoldTooLong, TypeInv, BusyHasJob
<1>2. Redeliver(k)
  BY <1>1 DEF LoseWorker, HoldTooLong
<1>3. Idle \in Memories
  BY NothingFacts DEF Idle, Memories, Deliveries, Tellings
<1>4. worker \in [Workers -> Memories]
  BY DEF TypeInv, TypeOK
<1> WITNESS k \in Jobs
<1> QED BY <1>1, <1>2, <1>3, <1>4, RedeliverFacts DEF LoseWorker, HoldTooLong

LEMMA InitTyped == Init => TypeInv
<1> SUFFICES ASSUME Init PROVE TypeInv
  OBVIOUS
<1>1. report \in Reports
  <2>1. PICK k \in {"v1", "generic"} : report = [alive |-> TRUE, kind |-> k, edit |-> 0, stamp |-> 0]
    BY DEF Init
  <2> QED BY <2>1, NothingFacts DEF Reports
<1>2. NoJob \in JobRow /\ Unasked \in Requests /\ Idle \in Memories
  BY NothingFacts DEF NoJob, JobRow, Deliveries, Tellings, Unasked, Forgotten, Requests, Stamped, Copy, Idle,
                      Memories
<1>3. job \in [Jobs -> JobRow] /\ request \in [Jobs -> Requests] /\ worker \in [Workers -> Memories]
  BY <1>2 DEF Init
<1>4. BusyHasJob
  BY NothingFacts DEF Init, BusyHasJob, Idle
<1> QED BY <1>1, <1>3, <1>4, NothingFacts DEF Init, TypeInv, TypeOK

\* What a step of a task does: a save of the row, unless the row is gone, or a write of
\* the file.
TaskSaves(w, k) ==
  /\ UNCHANGED file
  /\ \/ ~Exists(k) /\ job' = job /\ worker'[w] = Idle
     \/ /\ Exists(k) /\ job'[k].frozen = job[k].frozen
        /\ \/ /\ worker[w].pc = "loaded" /\ job'[k].status = "running"
              /\ worker'[w].pc = "running" /\ worker'[w].job = k
              /\ worker'[w].frozen = worker[w].frozen /\ worker'[w].edit = worker[w].edit
              /\ worker'[w].told = worker[w].told /\ job'[k].told = job[k].told
           \/ /\ worker[w].pc = "written" /\ file[k] # None /\ job'[k].status = "completed"
              /\ job'[k].path /\ job'[k].delivery # "queued" /\ worker'[w] = Idle
              /\ job'[k].told = Told(worker[w])
           \/ job'[k].status = "failed" /\ worker'[w] = Idle /\ job'[k].told = job[k].told
TaskWrites(w, k) ==
  /\ UNCHANGED job /\ worker'[w].job = k /\ worker'[w].told = worker[w].told
  /\ \/ /\ worker[w].pc = "running" /\ file'[k] = Partial
        /\ worker'[w].pc = "writing" /\ worker'[w].made \in Contents(worker[w])
     \/ /\ worker[w].pc = "writing" /\ file'[k] = worker[w].made
        /\ worker'[w].pc = "written" /\ worker'[w].made = worker[w].made
     \/ /\ worker[w].pc = "running" /\ file'[k] = file[k]
        /\ worker'[w].pc = "written" /\ worker'[w].made \in Contents(worker[w])
     \/ worker[w].pc \in {"running", "writing"} /\ file'[k] = file[k] /\ worker'[w].pc = "broken"
TaskDoes(w, k) ==
  /\ worker[w].job = k /\ worker[w].pc # "idle"
  /\ UNCHANGED <<data, report, cache, queue, request, doubt, faults>>
  /\ job' \in [Jobs -> JobRow] /\ file' \in [Jobs -> Artifact \cup {None, Partial}]
  /\ worker' \in [Workers -> Memories]
  /\ \A j \in Jobs : j # k => job'[j] = job[j] /\ file'[j] = file[j]
  /\ \A v \in Workers : v # w => worker'[v] = worker[v]
  /\ TaskSaves(w, k) \/ TaskWrites(w, k)

LEMMA TaskFacts ==
  ASSUME TypeInv, NEW w \in Workers, TaskStep(w)
  PROVE  \E k \in Jobs : TaskDoes(w, k)
<1>1. worker[w].pc # "idle"
  BY DEF TaskStep, SetRunning, BeginFile, EndFile, NoFile, RenderFails, Complete, Fail, Verified
<1>2. PICK k \in Jobs : worker[w].job = k
  BY <1>1 DEF TypeInv, BusyHasJob
<1> WITNESS k \in Jobs
<1>3. /\ job \in [Jobs -> JobRow] /\ file \in [Jobs -> Artifact \cup {None, Partial}]
      /\ worker[w] \in Memories /\ worker \in [Workers -> Memories]
  BY DEF TypeInv, TypeOK
<1>4. Idle \in Memories
  BY NothingFacts DEF Idle, Memories, Deliveries, Tellings
<1>5. worker[w].made \in Artifact \cup {None} /\ file[k] \in Artifact \cup {None, Partial}
  BY <1>3 DEF Memories
<1>6. CASE SetRunning(w)
  <2>0. PICK new, next : /\ new = [job[k] EXCEPT !.status = "running"]
                         /\ next = [worker[w] EXCEPT !.pc = "running"]
    OBVIOUS
  <2>1. /\ new \in JobRow /\ new.status = "running" /\ new.frozen = job[k].frozen
        /\ next \in Memories /\ next.pc = "running" /\ next.job = k
        /\ next.frozen = worker[w].frozen /\ next.edit = worker[w].edit
        /\ next.told = worker[w].told /\ new.told = job[k].told
    <3>1. /\ new \in JobRow /\ new.status = "running" /\ new.frozen = job[k].frozen
          /\ new.told = job[k].told
      BY <1>3, <2>0 DEF JobRow
    <3>2. /\ next \in Memories /\ next.pc = "running" /\ next.job = k
          /\ next.frozen = worker[w].frozen /\ next.edit = worker[w].edit
          /\ next.told = worker[w].told
      BY <1>2, <1>3, <2>0 DEF Memories
    <3> QED BY <3>1, <3>2
  <2>2. Save(w, new, next) /\ worker[w].pc = "loaded"
    BY <1>2, <1>6, <2>0 DEF SetRunning
  <2> QED BY <1>1, <1>2, <1>3, <2>1, <2>2, SaveFacts DEF TaskDoes, TaskSaves
<1>7. CASE Complete(w)
  <2> PICK delivery : delivery = Delivered(worker[w].delivery)
    OBVIOUS
  <2>3. delivery \in Deliveries /\ delivery # "queued"
    BY <1>3 DEF Memories, Deliveries, Delivered
  <2>4. PICK told \in Tellings : told = Told(worker[w])
    <3>1. worker[w].told \in Tellings /\ worker[w].made \in Artifact
      BY <1>3, <1>5, <1>7 DEF Memories, TypeInv, BusyHasJob, Complete, Verified
    <3> QED BY <3>1 DEF Told, Tells, Tellings, Artifact
  <2>0. PICK new : new = [job[k] EXCEPT !.status = "completed", !.path = TRUE,
                                        !.delivery = delivery, !.told = told]
    OBVIOUS
  <2>1. /\ new \in JobRow /\ new.status = "completed" /\ new.frozen = job[k].frozen
        /\ new.path /\ new.delivery # "queued" /\ new.told = told
    BY <1>3, <2>0, <2>3, <2>4 DEF JobRow
  <2>2. Save(w, new, Idle) /\ worker[w].pc = "written" /\ file[k] # None
    BY <1>2, <1>7, <2>0, <2>4 DEF Complete, Verified
  <2> QED BY <1>1, <1>2, <1>3, <1>4, <2>1, <2>2, <2>4, SaveFacts DEF TaskDoes, TaskSaves
<1>8. CASE Fail(w)
  <2>0. PICK new : new = [job[k] EXCEPT !.status = "failed"]
    OBVIOUS
  <2>1. new \in JobRow /\ new.status = "failed" /\ new.frozen = job[k].frozen /\ new.told = job[k].told
    BY <1>3, <2>0 DEF JobRow
  <2>2. Save(w, new, Idle)
    BY <1>2, <1>8, <2>0 DEF Fail
  <2> QED BY <1>1, <1>2, <1>3, <1>4, <2>1, <2>2, SaveFacts DEF TaskDoes, TaskSaves
<1>9. CASE BeginFile(w)
  <2>1. PICK a \in Contents(worker[w]) : Writes(w, Partial, "writing", a)
    BY <1>9 DEF BeginFile
  <2>2. a \in Artifact
    BY ContentType
  <2> QED BY <1>1, <1>2, <1>3, <1>9, <2>1, <2>2, WritesFacts DEF BeginFile, TaskDoes, TaskWrites
<1>10. CASE EndFile(w)
  <2>1. PICK a \in Artifact : a = worker[w].made
    BY <1>5, <1>10 DEF EndFile, TypeInv, BusyHasJob
  <2>2. Writes(w, a, "written", a) /\ worker[w].pc = "writing"
    BY <1>10, <2>1 DEF EndFile
  <2> QED BY <1>1, <1>2, <1>3, <2>1, <2>2, WritesFacts DEF TaskDoes, TaskWrites
<1>11. CASE NoFile(w)
  <2>1. PICK a \in Contents(worker[w]) : Writes(w, file[k], "written", a)
    BY <1>2, <1>11 DEF NoFile
  <2>2. a \in Artifact
    BY ContentType
  <2> QED BY <1>1, <1>2, <1>3, <1>5, <1>11, <2>1, <2>2, WritesFacts DEF NoFile, TaskDoes, TaskWrites
<1>12. CASE RenderFails(w)
  BY <1>1, <1>2, <1>3, <1>5, <1>12, WritesFacts DEF RenderFails, TaskDoes, TaskWrites
<1> QED BY <1>6, <1>7, <1>8, <1>9, <1>10, <1>11, <1>12 DEF TaskStep

LEMMA TaskTyped ==
  ASSUME TypeInv, NEW w \in Workers, NEW k \in Jobs, TaskDoes(w, k)
  PROVE  TypeInv'
<1>1. \A a \in Contents(worker[w]) : a # None
  BY ContentType, NothingFacts
<1>2. BusyHasJob'
  BY <1>1, NothingFacts DEF TypeInv, BusyHasJob, TaskDoes, TaskSaves, TaskWrites, Idle
<1> QED BY <1>2 DEF TypeInv, TypeOK, TaskDoes

LEMMA StepTyped == ASSUME TypeInv, [Next]_vars PROVE TypeInv'
<1>0. TypeOK /\ BusyHasJob
  BY DEF TypeInv
<1> USE NothingFacts, <1>0 DEF TypeInv
<1>1. CASE NewData
  BY <1>1 DEF NewData, TypeOK, BusyHasJob
<1>2. ASSUME NEW k \in {"v1", "generic"}, EditReport(k) PROVE TypeInv'
  <2>1. report' \in Reports
    <3>1. report \in Reports /\ report.stamp + 1 \in 0..MaxStamp
      BY <1>2 DEF EditReport, TypeOK, Reports
    <3>2. report' = [report EXCEPT !.kind = k, !.stamp = report.stamp + 1, !.edit = report.stamp + 1]
      BY <1>2, <3>1 DEF EditReport, Reports
    <3> QED BY <3>1, <3>2 DEF Reports
  <2> QED BY <1>2, <2>1 DEF EditReport, TypeOK, BusyHasJob
<1>3. CASE DeleteReport
  <2>1. report' \in Reports
    BY <1>3 DEF DeleteReport, TypeOK, Reports
  <2>2. NoJob \in JobRow
    BY DEF NoJob, JobRow, Deliveries, Tellings
  <2> QED BY <1>3, <2>1, <2>2 DEF DeleteReport, TypeOK, BusyHasJob
<1>4. CASE PreviewReport
  <2>1. cache' \in [0..MaxStamp -> Copy \cup {None}]
    BY <1>4, PreviewType DEF PreviewReport, TypeOK
  <2> QED BY <1>4, <2>1 DEF PreviewReport, TypeOK, BusyHasJob
<1>5. ASSUME NEW s \in 0..MaxStamp, CacheExpires(s) PROVE TypeInv'
  BY <1>5 DEF CacheExpires, TypeOK, BusyHasJob
<1>6. ASSUME NEW i \in Jobs, NEW dry \in BOOLEAN, Open(i, dry) PROVE TypeInv'
  <2>1. PICK r : r = [pc |-> "open", dry |-> dry,
                      seen |-> [kind |-> report.kind, edit |-> report.edit, stamp |-> report.stamp],
                      asked |-> [edit |-> report.edit, data |-> data]]
    OBVIOUS
  <2>2. r \in Requests
    BY <2>1 DEF TypeOK, Requests, Reports, Stamped, Copy
  <2>3. request' \in [Jobs -> Requests]
    BY <1>6, <2>1, <2>2 DEF Open, TypeOK
  <2> QED BY <1>6, <2>3 DEF Open, TypeOK, BusyHasJob
<1>7. ASSUME NEW i \in Jobs, CreateJob(i) PROVE TypeInv'
  BY <1>7, CreateFacts DEF TypeOK, BusyHasJob
<1>8. ASSUME NEW i \in Jobs, Send(i) PROVE TypeInv'
  <2>1. Goes(i, "done")
    BY <1>8 DEF Send
  <2>2. request' \in [Jobs -> Requests]
    BY <2>1, GoesFacts
  <2>3. queue' \in [Jobs -> Nat]
    BY <1>8 DEF Send, TypeOK
  <2> QED BY <1>8, <2>2, <2>3 DEF Send, TypeOK, BusyHasJob
<1>9. ASSUME NEW i \in Jobs, SendFails(i) PROVE TypeInv'
  <2>1. Goes(i, "refused")
    BY <1>9 DEF SendFails
  <2>2. request' \in [Jobs -> Requests]
    BY <2>1, GoesFacts
  <2>3. doubt' \in [redelivered : SUBSET Jobs, unsure : SUBSET Jobs]
    BY <1>9 DEF SendFails, TypeOK
  <2>4. queue' \in [Jobs -> Nat]
    BY <1>9 DEF SendFails, TypeOK
  <2> QED BY <1>9, <2>2, <2>3, <2>4 DEF SendFails, TypeOK, BusyHasJob
<1>10. ASSUME NEW i \in Jobs, SaveRefusal(i) PROVE TypeInv'
  BY <1>10, RefusalFacts DEF TypeOK, BusyHasJob
<1>11. ASSUME NEW i \in Jobs, RequestDies(i) PROVE TypeInv'
  <2>1. Goes(i, "dead")
    BY <1>11 DEF RequestDies
  <2>2. request' \in [Jobs -> Requests]
    BY <2>1, GoesFacts
  <2> QED BY <1>11, <2>2 DEF RequestDies, TypeOK, BusyHasJob
<1>12. ASSUME NEW v \in Workers, NEW i \in Jobs, Take(v, i) PROVE TypeInv'
  <2>1. TypeOK'
    BY <1>12, TakeFacts DEF TypeOK
  <2>2. BusyHasJob'
    BY <1>12, TakeFacts DEF BusyHasJob
  <2> QED BY <2>1, <2>2
<1>13. ASSUME NEW v \in Workers, TaskStep(v) PROVE TypeInv'
  BY <1>13, TaskFacts, TaskTyped
<1>14. ASSUME NEW v \in Workers, LoseWorker(v) PROVE TypeInv'
  <2>1. TypeOK'
    BY <1>14, LossFacts DEF TypeOK
  <2>2. BusyHasJob'
    BY <1>14, LossFacts DEF BusyHasJob, Idle
  <2> QED BY <2>1, <2>2
<1>15. ASSUME NEW v \in Workers, HoldTooLong(v) PROVE TypeInv'
  <2>1. TypeOK'
    BY <1>15, LossFacts DEF TypeOK
  <2>2. BusyHasJob'
    BY <1>15, LossFacts DEF BusyHasJob, Idle
  <2> QED BY <2>1, <2>2
<1>16. CASE UNCHANGED vars
  BY <1>16 DEF vars, TypeOK, BusyHasJob
<1> QED BY <1>1, <1>2, <1>3, <1>4, <1>5, <1>6, <1>7, <1>8, <1>9, <1>10, <1>11, <1>12, <1>13, <1>14, <1>15, <1>16 DEF Next

\* Every variable keeps its type, in every behaviour.
THEOREM TypeCorrect == Spec => []TypeOK
<1>1. TypeInv => TypeOK
  BY DEF TypeInv
<1> QED BY InitTyped, StepTyped, <1>1, PTL DEF Spec

(***************************************************************************)
(* A completed job has its artifact.  A job that was delivered once has    *)
(* one message, or one task that took it, and is at rest after that.       *)
(***************************************************************************)
Unsent == {"none", "open", "created"}
Untouched ==
  \A j \in Jobs : request[j].pc \in Unsent =>
    /\ queue[j] = 0 /\ file[j] = None /\ job[j].status # "completed" /\ job[j].told = "none"
    /\ \A w \in Workers : worker[w].job # j
OneTask ==
  \A j \in Jobs : j \notin doubt.redelivered =>
    /\ queue[j] \in {0, 1}
    /\ queue[j] = 1 => file[j] = None /\ job[j].told = "none"
    /\ job[j].status = "completed" => queue[j] = 0
    /\ \A w \in Workers : worker[w].job = j =>
         /\ queue[j] = 0 /\ job[j].status # "completed" /\ job[j].told = "none" /\ worker[w].told = "none"
         /\ \A v \in Workers : worker[v].job = j => v = w
         /\ worker[w].pc \in {"loaded", "running"} => file[j] = None
         /\ worker[w].pc = "written" => file[j] \in {None, worker[w].made}
FilesInv == Untouched /\ OneTask /\ Downloadable

\* What keeps FilesInv: nothing it speaks of changes, but for requests that go on.
LEMMA FilesKept ==
  ASSUME TypeInv, FilesInv, UNCHANGED <<file, queue, worker, doubt>>,
         \A j \in Jobs : \/ job'[j] = job[j]
                         \/ job'[j].status # "completed" /\ job'[j].told \in {job[j].told, "none"},
         \A j \in Jobs : request'[j].pc \in Unsent => request[j].pc \in Unsent
  PROVE  FilesInv'
<1>1. Untouched'
  BY DEF FilesInv, Untouched
<1>2. OneTask'
  BY DEF FilesInv, OneTask
<1>3. Downloadable'
  BY DEF FilesInv, Downloadable
<1> QED BY <1>1, <1>2, <1>3 DEF FilesInv

\* A request sends the first message of its job, or fails to.
LEMMA FilesSent ==
  ASSUME TypeInv, FilesInv, NEW i \in Jobs, request[i].pc = "created", request'[i].pc \notin Unsent,
         \A j \in Jobs : j # i => request'[j] = request[j],
         queue' \in [Jobs -> Nat], queue'[i] \in {queue[i], queue[i] + 1},
         \A j \in Jobs : j # i => queue'[j] = queue[j],
         UNCHANGED <<job, file, worker, doubt.redelivered>>
  PROVE  FilesInv'
<1>0. /\ queue[i] = 0 /\ file[i] = None /\ job[i].status # "completed" /\ job[i].told = "none"
      /\ \A w \in Workers : worker[w].job # i
  BY DEF FilesInv, Untouched, Unsent
<1>1. Untouched'
  BY DEF FilesInv, Untouched
<1>2. OneTask'
  BY <1>0 DEF FilesInv, OneTask
<1>3. Downloadable'
  BY DEF FilesInv, Downloadable
<1> QED BY <1>1, <1>2, <1>3 DEF FilesInv

LEMMA FilesTaken ==
  ASSUME TypeInv, FilesInv, NEW w \in Workers, NEW i \in Jobs, Take(w, i)
  PROVE  FilesInv'
<1>0. TypeOK /\ BusyHasJob
  BY DEF TypeInv
<1>1. /\ worker[w].job \notin Jobs /\ queue[i] \in Nat /\ queue[i] > 0 /\ request[i].pc \notin Unsent
      /\ i \notin doubt.redelivered => \A v \in Workers : worker[v].job # i
  <2>1. queue[i] \in Nat /\ queue[i] > 0 /\ worker[w].pc = "idle"
    BY <1>0, TakeFacts DEF TypeOK
  <2>2. request[i].pc \notin Unsent
    BY <2>1 DEF FilesInv, Untouched
  <2>3. worker[w].job \notin Jobs
    BY <1>0, <2>1 DEF BusyHasJob
  <2>4. i \notin doubt.redelivered => \A v \in Workers : worker[v].job # i
    BY <2>1 DEF FilesInv, OneTask
  <2> QED BY <2>1, <2>2, <2>3, <2>4
<1>2. Untouched'
  BY <1>1, TakeFacts DEF FilesInv, Untouched
<1>3. OneTask'
  BY <1>1, TakeFacts DEF FilesInv, OneTask
<1>4. Downloadable'
  BY TakeFacts DEF FilesInv, Downloadable
<1> QED BY <1>2, <1>3, <1>4 DEF FilesInv

LEMMA FilesTask ==
  ASSUME TypeInv, FilesInv, NEW w \in Workers, NEW k \in Jobs, TaskDoes(w, k)
  PROVE  FilesInv'
<1>0. /\ Untouched /\ OneTask /\ Downloadable /\ BusyHasJob
      /\ request[k].pc \notin Unsent /\ worker[w].job = k
      /\ worker[w].made \in Artifact \cup {None} /\ worker[w].pc # "idle"
      /\ worker[w].pc \in {"writing", "written"} => worker[w].made \in Artifact
      /\ file[k] \in Artifact \cup {None, Partial}
  <2>1. worker[w] \in Memories /\ file[k] \in Artifact \cup {None, Partial}
    BY DEF TypeInv, TypeOK
  <2>2. worker[w].job = k /\ worker[w].pc # "idle"
    BY DEF TaskDoes
  <2>3. worker[w].made \in Artifact \cup {None}
    BY <2>1 DEF Memories
  <2> QED BY <2>1, <2>2, <2>3 DEF TypeInv, FilesInv, BusyHasJob, Untouched
<1>1. CASE TaskSaves(w, k)
  <2>1. Untouched'
    BY <1>0, <1>1, NothingFacts DEF TaskDoes, TaskSaves, Untouched, Idle
  <2>2. OneTask'
    BY <1>0, <1>1, NothingFacts DEF TaskDoes, TaskSaves, OneTask, Idle
  <2>3. Downloadable'
    BY <1>0, <1>1, NothingFacts DEF TaskDoes, TaskSaves, OneTask, Downloadable, Told
  <2> QED BY <2>1, <2>2, <2>3 DEF FilesInv
<1>2. CASE TaskWrites(w, k)
  <2>1. Untouched'
    BY <1>0, <1>2 DEF TaskDoes, TaskWrites, Untouched
  <2>2. OneTask'
    BY <1>0, <1>2, NothingFacts DEF TaskDoes, TaskWrites, OneTask
  <2>3. Downloadable'
    BY <1>0, <1>2, NothingFacts DEF TaskDoes, TaskWrites, OneTask, Downloadable
  <2> QED BY <2>1, <2>2, <2>3 DEF FilesInv
<1> QED BY <1>1, <1>2 DEF TaskDoes

LEMMA FilesLost ==
  ASSUME TypeInv, FilesInv, NEW w \in Workers, LoseWorker(w) \/ HoldTooLong(w)
  PROVE  FilesInv'
<1>1. PICK k \in Jobs :
           /\ worker[w].job = k
           /\ \A v \in Workers : v # w => worker'[v] = worker[v]
           /\ worker'[w] \in {worker[w], Idle}
           /\ \A i \in Jobs : i # k => queue'[i] = queue[i]
           /\ doubt'.redelivered = doubt.redelivered \cup {k}
           /\ UNCHANGED <<data, report, cache, job, file, request>>
  BY LossFacts
<1>2. Untouched'
  BY <1>1, NothingFacts DEF FilesInv, Untouched, Idle
<1>3. OneTask'
  BY <1>1, NothingFacts DEF FilesInv, OneTask, Idle
<1>4. Downloadable'
  BY <1>1 DEF FilesInv, Downloadable
<1> QED BY <1>2, <1>3, <1>4 DEF FilesInv

LEMMA FilesStep == ASSUME TypeInv, FilesInv, [Next]_vars PROVE FilesInv'
<1>0. request \in [Jobs -> Requests] /\ queue \in [Jobs -> Nat]
  BY DEF TypeInv, TypeOK
<1>1. CASE NewData
  BY <1>1, FilesKept DEF NewData
<1>2. ASSUME NEW k \in {"v1", "generic"}, EditReport(k) PROVE FilesInv'
  BY <1>2, FilesKept DEF EditReport
<1>3. CASE DeleteReport
  BY <1>3, FilesKept DEF DeleteReport, NoJob
<1>4. CASE PreviewReport
  BY <1>4, FilesKept DEF PreviewReport
<1>5. ASSUME NEW s \in 0..MaxStamp, CacheExpires(s) PROVE FilesInv'
  BY <1>5, FilesKept DEF CacheExpires
<1>6. ASSUME NEW i \in Jobs, NEW dry \in BOOLEAN, Open(i, dry) PROVE FilesInv'
  <2>1. \A j \in Jobs : request'[j].pc \in Unsent => request[j].pc \in Unsent
    BY <1>0, <1>6 DEF Open, Unsent
  <2> QED BY <1>6, <2>1, FilesKept DEF Open
<1>7. ASSUME NEW i \in Jobs, CreateJob(i) PROVE FilesInv'
  <2>1. \A j \in Jobs : request'[j].pc \in Unsent => request[j].pc \in Unsent
    BY <1>7, CreateFacts DEF Unsent
  <2>2. \A j \in Jobs : job'[j] = job[j] \/ (job'[j].status # "completed" /\ job'[j].told \in {job[j].told, "none"})
    BY <1>7, CreateFacts
  <2> QED BY <1>7, <2>1, <2>2, FilesKept DEF CreateJob
<1>8. ASSUME NEW i \in Jobs, Send(i) PROVE FilesInv'
  <2>1. Goes(i, "done")
    BY <1>8 DEF Send
  <2>2. request'[i].pc \notin Unsent /\ \A j \in Jobs : j # i => request'[j] = request[j]
    BY <2>1, GoesFacts DEF Unsent
  <2>3. /\ queue' \in [Jobs -> Nat] /\ queue'[i] \in {queue[i], queue[i] + 1}
        /\ \A j \in Jobs : j # i => queue'[j] = queue[j]
    BY <1>0, <1>8 DEF Send
  <2> QED BY <1>8, <2>2, <2>3, FilesSent DEF Send
<1>9. ASSUME NEW i \in Jobs, SendFails(i) PROVE FilesInv'
  <2>1. Goes(i, "refused")
    BY <1>9 DEF SendFails
  <2>2. request'[i].pc \notin Unsent /\ \A j \in Jobs : j # i => request'[j] = request[j]
    BY <2>1, GoesFacts DEF Unsent
  <2>3. /\ queue' \in [Jobs -> Nat] /\ queue'[i] \in {queue[i], queue[i] + 1}
        /\ \A j \in Jobs : j # i => queue'[j] = queue[j]
    BY <1>0, <1>9 DEF SendFails
  <2>4. doubt'.redelivered = doubt.redelivered
    BY <1>9 DEF SendFails, TypeInv, TypeOK
  <2> QED BY <1>9, <2>2, <2>3, <2>4, FilesSent DEF SendFails
<1>10. ASSUME NEW i \in Jobs, SaveRefusal(i) PROVE FilesInv'
  <2>1. \A j \in Jobs : request'[j].pc \in Unsent => request[j].pc \in Unsent
    BY <1>10, RefusalFacts DEF Unsent
  <2>2. \A j \in Jobs : job'[j] = job[j] \/ (job'[j].status # "completed" /\ job'[j].told \in {job[j].told, "none"})
    BY <1>10, RefusalFacts
  <2> QED BY <1>10, <2>1, <2>2, FilesKept DEF SaveRefusal
<1>11. ASSUME NEW i \in Jobs, RequestDies(i) PROVE FilesInv'
  <2>1. Goes(i, "dead")
    BY <1>11 DEF RequestDies
  <2>2. \A j \in Jobs : request'[j].pc \in Unsent => request[j].pc \in Unsent
    BY <2>1, GoesFacts DEF Unsent
  <2> QED BY <1>11, <2>2, FilesKept DEF RequestDies
<1>12. ASSUME NEW v \in Workers, NEW i \in Jobs, Take(v, i) PROVE FilesInv'
  BY <1>12, FilesTaken
<1>13. ASSUME NEW v \in Workers, TaskStep(v) PROVE FilesInv'
  BY <1>13, TaskFacts, FilesTask
<1>14. ASSUME NEW v \in Workers, LoseWorker(v) \/ HoldTooLong(v) PROVE FilesInv'
  BY <1>14, FilesLost
<1>15. CASE UNCHANGED vars
  BY <1>15, FilesKept DEF vars
<1> QED BY <1>1, <1>2, <1>3, <1>4, <1>5, <1>6, <1>7, <1>8, <1>9, <1>10, <1>11, <1>12, <1>13, <1>14, <1>15 DEF Next

LEMMA InitFiles == Init => FilesInv
<1> SUFFICES ASSUME Init PROVE FilesInv
  OBVIOUS
<1>1. Untouched /\ OneTask
  BY NothingFacts DEF Init, Untouched, OneTask, NoJob, Idle
<1>2. Downloadable
  BY DEF Init, Downloadable, NoJob
<1> QED BY <1>1, <1>2 DEF FilesInv

\* A completed job has a path and its artifact, whole unless its task was delivered again,
\* and a dry run's delivery is no longer queued: whatever is lost, deleted or refused.
THEOREM CompletedIsDownloadable == Spec => []Downloadable
<1>1. FilesInv => Downloadable
  BY DEF FilesInv
<1> QED BY InitTyped, StepTyped, InitFiles, FilesStep, <1>1, PTL DEF Spec

(***************************************************************************)
(* An artifact shows what was asked.  A stamp of the report tells its      *)
(* edit, in the row, in a preview and in a request that has yet to make    *)
(* its job, so that a preview frozen from the cache is of the right edit.  *)
(***************************************************************************)
Shown(s, e) ==
  \/ report.stamp = s /\ report.edit = e
  \/ \E j \in Jobs : request[j].pc = "open" /\ request[j].seen.stamp = s /\ request[j].seen.edit = e
  \/ cache[s] # None /\ cache[s].edit = e
StampsTell ==
  /\ report.edit <= report.stamp
  /\ \A s, e \in 0..MaxStamp : Shown(s, e) =>
       s <= report.stamp /\ \A f \in 0..MaxStamp : Shown(s, f) => e = f
AskedBefore ==
  \A j \in Jobs :
    /\ request[j].pc \in {"none", "open"} => ~Exists(j)
    /\ request[j].pc # "none" => request[j].asked.edit <= report.edit /\ request[j].asked.data <= data
    /\ request[j].pc = "open" => request[j].seen.edit = request[j].asked.edit
Fits(j, a) ==
  /\ a.edit >= request[j].asked.edit /\ a.title >= request[j].asked.edit
  /\ a.source = "preview" <=> job[j].frozen # None
  /\ job[j].frozen # None =>
       a.edit = request[j].asked.edit /\ a.edit = job[j].frozen.edit /\ a.data = job[j].frozen.data
  /\ a.source = "fetched" => a.data >= request[j].asked.data
FrozenAsAsked ==
  \A j \in Jobs : Exists(j) /\ job[j].frozen # None => job[j].frozen.edit = request[j].asked.edit
FilesFit == \A j \in Jobs, a \in Artifact : Exists(j) /\ file[j] = a => Fits(j, a)
MemoriesFit ==
  \A w \in Workers, j \in Jobs : Exists(j) /\ worker[w].job = j =>
    /\ worker[w].pc \in {"loaded", "running"} =>
         worker[w].frozen = job[j].frozen /\ worker[w].edit >= request[j].asked.edit
    /\ worker[w].pc = "writing" => \A a \in Artifact : worker[w].made = a => Fits(j, a)
ShowsInv == StampsTell /\ AskedBefore /\ FrozenAsAsked /\ FilesFit /\ MemoriesFit

\* Stamps keep telling edits if what shows one showed it before, or is of a new stamp.
LEMMA StampsKept ==
  ASSUME TypeInv, TypeInv', StampsTell, report'.edit <= report'.stamp, report'.stamp >= report.stamp,
         \A s, e \in 0..MaxStamp : Shown(s, e)' =>
           \/ Shown(s, e)
           \/ s > report.stamp /\ s = report'.stamp /\ e = report'.edit
  PROVE  StampsTell'
<1>1. report.stamp \in Nat /\ report'.stamp \in Nat
  <2>1. report \in Reports /\ report' \in Reports
    BY DEF TypeInv, TypeOK
  <2> QED BY <2>1, NothingFacts DEF Reports
<1>2. ASSUME NEW s \in 0..MaxStamp, NEW e \in 0..MaxStamp, Shown(s, e)'
      PROVE  s <= report'.stamp
  BY <1>1, <1>2, NothingFacts DEF StampsTell
<1>3. ASSUME NEW s \in 0..MaxStamp, NEW e \in 0..MaxStamp, NEW f \in 0..MaxStamp, Shown(s, e)', Shown(s, f)'
      PROVE  e = f
  <2>1. CASE s > report.stamp
    <3>1. ~Shown(s, e) /\ ~Shown(s, f)
      BY <1>1, <2>1, NothingFacts DEF StampsTell
    <3> QED BY <1>3, <3>1
  <2>2. CASE ~(s > report.stamp)
    <3>1. Shown(s, e) /\ Shown(s, f)
      BY <1>3, <2>2
    <3> QED BY <3>1 DEF StampsTell
  <2> QED BY <2>1, <2>2
<1> QED BY <1>2, <1>3 DEF StampsTell

\* What keeps the rest: jobs, files and memories do not change, but for jobs that are gone.
LEMMA FitsKept ==
  ASSUME AskedBefore, FrozenAsAsked, FilesFit, MemoriesFit, UNCHANGED <<file, worker>>,
         \A j \in Jobs : Exists(j)' => /\ Exists(j) /\ job'[j].frozen = job[j].frozen
                                       /\ request'[j].asked = request[j].asked
  PROVE  FrozenAsAsked' /\ FilesFit' /\ MemoriesFit'
<1>1. \A j \in Jobs, c \in Artifact : Exists(j)' /\ Fits(j, c) => Fits(j, c)'
  BY DEF Fits
<1>2. FrozenAsAsked'
  BY DEF FrozenAsAsked
<1>3. FilesFit'
  BY <1>1 DEF FilesFit
<1>4. MemoriesFit'
  BY <1>1 DEF MemoriesFit
<1> QED BY <1>2, <1>3, <1>4

\* A preview of a request shows the edit that the request saw.
LEMMA PreviewEdit ==
  ASSUME TypeInv, StampsTell, NEW seen \in Stamped \cup Reports, Shown(seen.stamp, seen.edit)
  PROVE  /\ Preview(seen).edit = seen.edit
         /\ \A s \in 0..MaxStamp, e \in 0..MaxStamp :
              Remembered(seen)[s] # None /\ Remembered(seen)[s].edit = e => Shown(s, e)
<1>1. seen.stamp \in 0..MaxStamp /\ seen.edit \in 0..MaxStamp
  BY DEF Stamped, Reports
<1>2. cache \in [0..MaxStamp -> Copy \cup {None}] /\ \A c \in Copy : c.edit \in 0..MaxStamp
  BY DEF TypeInv, TypeOK, Copy
<1>3. Preview(seen).edit = seen.edit
  <2>1. CASE cache[seen.stamp] = None
    BY <2>1 DEF Preview, CacheKey
  <2>2. CASE cache[seen.stamp] # None
    <3>1. PICK c \in Copy : cache[seen.stamp] = c
      BY <1>1, <1>2, <2>2
    <3>2. Shown(seen.stamp, c.edit) /\ c.edit \in 0..MaxStamp
      BY <1>2, <2>2, <3>1 DEF Shown
    <3> QED BY <1>1, <2>2, <3>1, <3>2 DEF StampsTell, Preview, CacheKey
  <2> QED BY <2>1, <2>2
<1>4. ASSUME NEW s \in 0..MaxStamp, NEW e \in 0..MaxStamp,
             Remembered(seen)[s] # None, Remembered(seen)[s].edit = e
      PROVE  Shown(s, e)
  <2>1. CASE s = seen.stamp
    <3>1. Remembered(seen)[s] = Preview(seen)
      BY <1>1, <1>2, <2>1 DEF Remembered, CacheKey
    <3> QED BY <1>3, <1>4, <2>1, <3>1
  <2>2. CASE s # seen.stamp
    <3>1. Remembered(seen)[s] = cache[s]
      BY <1>1, <1>2, <2>2 DEF Remembered, CacheKey
    <3> QED BY <1>4, <3>1 DEF Shown
  <2> QED BY <2>1, <2>2
<1> QED BY <1>3, <1>4

LEMMA ReportNumbers ==
  ASSUME TypeInv
  PROVE  /\ report.stamp \in Nat /\ report.edit \in Nat /\ data \in Nat
         /\ report.stamp \in 0..MaxStamp /\ report.edit \in 0..MaxStamp
<1>1. report \in Reports /\ data \in 0..MaxData
  BY DEF TypeInv, TypeOK
<1> QED BY <1>1, NothingFacts DEF Reports

LEMMA ShowsCreate ==
  ASSUME TypeInv, TypeInv', Untouched, ShowsInv, NEW i \in Jobs, CreateJob(i)
  PROVE  ShowsInv'
<1>0. /\ request[i].pc = "open"
      /\ \A j \in Jobs : /\ request'[j].asked = request[j].asked
                         /\ j # i => request'[j] = request[j] /\ job'[j] = job[j]
      /\ report'.edit = report.edit
      /\ report'.stamp = report.stamp \/ report'.stamp = report.stamp + 1
      /\ request'[i].pc \in {"created", "done"}
      /\ UNCHANGED <<data, file, worker>>
  BY CreateFacts
<1>1. PICK seen \in Stamped : seen = request[i].seen
  BY CreateFacts
<1>2. seen.stamp \in 0..MaxStamp /\ seen.edit \in 0..MaxStamp
  BY DEF Stamped
<1>3. Shown(seen.stamp, seen.edit)
  BY <1>0, <1>1, <1>2 DEF Shown
<1>4. /\ Preview(seen).edit = seen.edit
      /\ \A s \in 0..MaxStamp, e \in 0..MaxStamp :
              Remembered(seen)[s] # None /\ Remembered(seen)[s].edit = e => Shown(s, e)
  BY <1>3, PreviewEdit DEF ShowsInv
<1>5. cache' = cache \/ cache' = Remembered(seen)
  BY <1>1, CreateFacts
<1>6. \/ UNCHANGED job
      \/ job'[i].frozen \in {None, Preview(seen)}
  BY <1>1, CreateFacts
<1>7. StampsTell'
  <2>1. ASSUME NEW s \in 0..MaxStamp, NEW e \in 0..MaxStamp, Shown(s, e)'
        PROVE  Shown(s, e) \/ (s > report.stamp /\ s = report'.stamp /\ e = report'.edit)
    <3>1. CASE report'.stamp = s /\ report'.edit = e
      BY <1>0, <3>1, ReportNumbers DEF Shown
    <3>2. ASSUME NEW j \in Jobs, request'[j].pc = "open", request'[j].seen.stamp = s, request'[j].seen.edit = e
          PROVE  Shown(s, e)
      BY <1>0, <3>2 DEF Shown
    <3>3. CASE cache'[s] # None /\ cache'[s].edit = e
      BY <1>4, <1>5, <3>3 DEF Shown
    <3> QED BY <2>1, <3>1, <3>2, <3>3 DEF Shown
  <2>2. report'.edit <= report'.stamp /\ report'.stamp >= report.stamp
    BY <1>0, ReportNumbers DEF ShowsInv, StampsTell
  <2> QED BY <2>1, <2>2, StampsKept DEF ShowsInv
<1>8. AskedBefore'
  BY <1>0 DEF ShowsInv, AskedBefore, Exists
<1>9. FrozenAsAsked' /\ FilesFit' /\ MemoriesFit'
  <2>1. CASE UNCHANGED job
    BY <1>0, <2>1, FitsKept DEF ShowsInv, Exists
  <2>2. CASE job'[i].frozen \in {None, Preview(seen)}
    <3>1. file'[i] = None /\ \A w \in Workers : worker'[w].job # i
      BY <1>0 DEF Untouched, Unsent
    <3>2. seen.edit = request[i].asked.edit
      BY <1>0, <1>1 DEF ShowsInv, AskedBefore
    <3>3. \A j \in Jobs, c \in Artifact : j # i /\ Fits(j, c) => Fits(j, c)'
      BY <1>0 DEF Fits
    <3>4. FrozenAsAsked'
      BY <1>0, <1>4, <2>2, <3>2 DEF ShowsInv, FrozenAsAsked, Exists
    <3>5. FilesFit'
      BY <1>0, <3>1, <3>3, NothingFacts DEF ShowsInv, FilesFit, Exists
    <3>6. MemoriesFit'
      BY <1>0, <3>1, <3>3 DEF ShowsInv, MemoriesFit, Exists
    <3> QED BY <3>4, <3>5, <3>6
  <2> QED BY <1>6, <2>1, <2>2
<1> QED BY <1>7, <1>8, <1>9 DEF ShowsInv

LEMMA ShowsTask ==
  ASSUME TypeInv, FilesInv, ShowsInv, NEW w \in Workers, NEW k \in Jobs, TaskDoes(w, k)
  PROVE  ShowsInv'
<1>0. /\ worker[w].job = k /\ worker[w].pc # "idle"
      /\ UNCHANGED <<data, report, cache, queue, request, doubt, faults>>
      /\ \A j \in Jobs : j # k => job'[j] = job[j] /\ file'[j] = file[j]
      /\ \A v \in Workers : v # w => worker'[v] = worker[v]
      /\ \A j \in Jobs : Exists(j)' <=> Exists(j)
      /\ \A j \in Jobs : Exists(j) => job'[j].frozen = job[j].frozen
  BY DEF TaskDoes, TaskSaves, TaskWrites, Exists
<1>1. StampsTell'
  BY <1>0 DEF ShowsInv, StampsTell, Shown
<1>2. AskedBefore'
  BY <1>0 DEF ShowsInv, AskedBefore
<1>3. FrozenAsAsked'
  BY <1>0 DEF ShowsInv, FrozenAsAsked
<1>4. \A j \in Jobs, c \in Artifact : Exists(j) /\ Fits(j, c) => Fits(j, c)'
  BY <1>0 DEF Fits
<1>5. CASE TaskSaves(w, k)
  <2>1. FilesFit'
    BY <1>0, <1>4, <1>5 DEF ShowsInv, FilesFit, TaskSaves
  <2>2. MemoriesFit'
    BY <1>0, <1>4, <1>5, NothingFacts DEF ShowsInv, MemoriesFit, TaskSaves, Idle
  <2> QED BY <1>1, <1>2, <1>3, <2>1, <2>2 DEF ShowsInv
<1>6. CASE TaskWrites(w, k)
  <2>1. FilesFit'
    BY <1>0, <1>4, <1>6, NothingFacts DEF ShowsInv, FilesFit, MemoriesFit, TaskWrites
  <2>2. ASSUME Exists(k), worker[w].pc = "running", NEW a \in Contents(worker[w]) PROVE Fits(k, a)
    <3>1. worker[w].frozen = job[k].frozen /\ worker[w].edit >= request[k].asked.edit
      BY <1>0, <2>2 DEF ShowsInv, MemoriesFit
    <3>2. request[k].asked.edit \in Nat /\ request[k].asked.data \in Nat
      BY NothingFacts DEF TypeInv, TypeOK, Requests, Copy
    <3>3. CASE job[k].frozen # None
      <4>1. job[k].frozen.edit = request[k].asked.edit
        BY <2>2, <3>3 DEF ShowsInv, FrozenAsAsked
      <4> QED BY <3>1, <3>2, <3>3, <4>1, ContentType DEF Fits
    <3>4. CASE job[k].frozen = None
      <4>1. data >= request[k].asked.data
        <5>1. request[k].pc # "none"
          BY <2>2 DEF ShowsInv, AskedBefore
        <5> QED BY <3>2, <5>1, ReportNumbers DEF ShowsInv, AskedBefore
      <4> QED BY <3>1, <3>4, <4>1, ContentType DEF Fits
    <3> QED BY <3>3, <3>4
  <2>3. MemoriesFit'
    BY <1>0, <1>4, <1>6, <2>2 DEF ShowsInv, MemoriesFit, TaskWrites
  <2> QED BY <1>1, <1>2, <1>3, <2>1, <2>3 DEF ShowsInv
<1> QED BY <1>5, <1>6 DEF TaskDoes

\* Steps of the rest of the system that leave the report, the previews and the jobs.
LEMMA ShowsElsewhere ==
  ASSUME TypeInv, ShowsInv, UNCHANGED <<data, report, cache, file, worker>>,
         \A j \in Jobs : /\ request'[j].asked = request[j].asked
                         /\ request'[j] = request[j] \/ request'[j].pc \notin {"none", "open"}
                         /\ request[j].pc = "none" => request'[j].pc = "none"
                         /\ job'[j] = job[j]
                            \/ (Exists(j) /\ Exists(j)' /\ job'[j].frozen = job[j].frozen)
  PROVE  ShowsInv'
<1>1. StampsTell'
  <2>1. \A s, e \in 0..MaxStamp : Shown(s, e)' => Shown(s, e)
    BY DEF Shown
  <2> QED BY <2>1 DEF ShowsInv, StampsTell
<1>2. AskedBefore'
  BY DEF ShowsInv, AskedBefore, Exists
<1>3. FrozenAsAsked' /\ FilesFit' /\ MemoriesFit'
  BY FitsKept DEF ShowsInv, Exists
<1> QED BY <1>1, <1>2, <1>3 DEF ShowsInv

LEMMA ShowsStep == ASSUME TypeInv, TypeInv', FilesInv, ShowsInv, [Next]_vars PROVE ShowsInv'
<1>0. /\ StampsTell /\ AskedBefore /\ FrozenAsAsked /\ FilesFit /\ MemoriesFit
      /\ report \in Reports /\ request \in [Jobs -> Requests] /\ cache \in [0..MaxStamp -> Copy \cup {None}]
      /\ \A j \in Jobs : request[j].asked.edit \in Nat /\ request[j].asked.data \in Nat
  <2>1. report \in Reports /\ request \in [Jobs -> Requests] /\ cache \in [0..MaxStamp -> Copy \cup {None}]
    BY DEF TypeInv, TypeOK
  <2>2. \A j \in Jobs : request[j].asked.edit \in Nat /\ request[j].asked.data \in Nat
    BY <2>1, NothingFacts DEF Requests, Copy
  <2> QED BY <2>1, <2>2 DEF ShowsInv
<1>1. CASE NewData
  <2>1. StampsTell'
    BY <1>0, <1>1 DEF NewData, StampsTell, Shown
  <2>2. AskedBefore'
    BY <1>0, <1>1, ReportNumbers DEF NewData, AskedBefore, Exists
  <2>3. FrozenAsAsked' /\ FilesFit' /\ MemoriesFit'
    BY <1>0, <1>1, FitsKept DEF NewData, Exists
  <2> QED BY <2>1, <2>2, <2>3 DEF ShowsInv
<1>2. ASSUME NEW k \in {"v1", "generic"}, EditReport(k) PROVE ShowsInv'
  <2>1. report'.stamp = report.stamp + 1 /\ report'.edit = report.stamp + 1
    BY <1>0, <1>2 DEF EditReport, Reports
  <2>2. \A s, e \in 0..MaxStamp : Shown(s, e)' =>
          Shown(s, e) \/ (s > report.stamp /\ s = report'.stamp /\ e = report'.edit)
    BY <1>2, <2>1, ReportNumbers DEF EditReport, Shown
  <2>3. StampsTell'
    BY <1>0, <2>1, <2>2, StampsKept, ReportNumbers
  <2>4. AskedBefore'
    BY <1>0, <1>2, <2>1, ReportNumbers DEF EditReport, AskedBefore, Exists, StampsTell
  <2>5. FrozenAsAsked' /\ FilesFit' /\ MemoriesFit'
    BY <1>0, <1>2, FitsKept DEF EditReport, Exists
  <2> QED BY <2>3, <2>4, <2>5 DEF ShowsInv
<1>3. CASE DeleteReport
  <2>1. report'.stamp = report.stamp /\ report'.edit = report.edit /\ \A j \in Jobs : ~Exists(j)'
    BY <1>0, <1>3 DEF DeleteReport, Reports, Exists, NoJob
  <2>2. StampsTell'
    BY <1>0, <1>3, <2>1 DEF DeleteReport, StampsTell, Shown
  <2>3. AskedBefore'
    BY <1>0, <1>3, <2>1 DEF DeleteReport, AskedBefore
  <2>4. FrozenAsAsked' /\ FilesFit' /\ MemoriesFit'
    BY <2>1 DEF FrozenAsAsked, FilesFit, MemoriesFit
  <2> QED BY <2>2, <2>3, <2>4 DEF ShowsInv
<1>4. CASE PreviewReport
  <2>1. PICK seen \in Reports : seen = report
    BY <1>0
  <2>2. Shown(seen.stamp, seen.edit) /\ cache' = Remembered(seen)
    BY <1>4, <2>1 DEF PreviewReport, Shown
  <2>3. \A s \in 0..MaxStamp, e \in 0..MaxStamp :
              Remembered(seen)[s] # None /\ Remembered(seen)[s].edit = e => Shown(s, e)
    BY <1>0, <2>2, PreviewEdit
  <2>4. \A s, e \in 0..MaxStamp : Shown(s, e)' => Shown(s, e)
    BY <1>4, <2>2, <2>3 DEF PreviewReport, Shown
  <2>5. StampsTell'
    BY <1>0, <1>4, <2>4 DEF PreviewReport, StampsTell
  <2>6. AskedBefore'
    BY <1>0, <1>4 DEF PreviewReport, AskedBefore, Exists
  <2>7. FrozenAsAsked' /\ FilesFit' /\ MemoriesFit'
    BY <1>0, <1>4, FitsKept DEF PreviewReport, Exists
  <2> QED BY <2>5, <2>6, <2>7 DEF ShowsInv
<1>5. ASSUME NEW t \in 0..MaxStamp, CacheExpires(t) PROVE ShowsInv'
  <2>1. \A s, e \in 0..MaxStamp : Shown(s, e)' => Shown(s, e)
    BY <1>0, <1>5 DEF CacheExpires, Shown
  <2>2. StampsTell'
    BY <1>0, <1>5, <2>1 DEF CacheExpires, StampsTell
  <2>3. AskedBefore'
    BY <1>0, <1>5 DEF CacheExpires, AskedBefore, Exists
  <2>4. FrozenAsAsked' /\ FilesFit' /\ MemoriesFit'
    BY <1>0, <1>5, FitsKept DEF CacheExpires, Exists
  <2> QED BY <2>2, <2>3, <2>4 DEF ShowsInv
<1>6. ASSUME NEW i \in Jobs, NEW dry \in BOOLEAN, Open(i, dry) PROVE ShowsInv'
  <2>1. PICK r : /\ request' = [request EXCEPT ![i] = r]
                 /\ r = [pc |-> "open", dry |-> dry,
                      seen |-> [kind |-> report.kind, edit |-> report.edit, stamp |-> report.stamp],
                      asked |-> [edit |-> report.edit, data |-> data]]
    BY <1>6 DEF Open
  <2>2. /\ request'[i] = r /\ \A j \in Jobs : j # i => request'[j] = request[j]
        /\ r.pc = "open" /\ r.seen.edit = report.edit /\ r.seen.stamp = report.stamp
        /\ r.asked.edit = report.edit /\ r.asked.data = data
    BY <1>0, <2>1
  <2>3. ~Exists(i) /\ UNCHANGED <<data, report, cache, job, file, worker>>
    BY <1>0, <1>6 DEF Open, AskedBefore
  <2>4. \A s, e \in 0..MaxStamp : Shown(s, e)' => Shown(s, e)
    BY <2>2, <2>3 DEF Shown
  <2>5. StampsTell'
    BY <1>0, <2>3, <2>4 DEF StampsTell
  <2>6. AskedBefore'
    BY <1>0, <2>2, <2>3, ReportNumbers DEF AskedBefore, Exists
  <2>7. FrozenAsAsked' /\ FilesFit' /\ MemoriesFit'
    BY <1>0, <2>2, <2>3, FitsKept DEF Exists
  <2> QED BY <2>5, <2>6, <2>7 DEF ShowsInv
<1>7. ASSUME NEW i \in Jobs, CreateJob(i) PROVE ShowsInv'
  BY <1>7, ShowsCreate DEF FilesInv
<1>8. ASSUME NEW i \in Jobs, Send(i) PROVE ShowsInv'
  <2>1. Goes(i, "done") /\ request[i].pc = "created"
    BY <1>8 DEF Send
  <2> QED BY <1>8, <2>1, GoesFacts, ShowsElsewhere DEF Send
<1>9. ASSUME NEW i \in Jobs, SendFails(i) PROVE ShowsInv'
  <2>1. Goes(i, "refused") /\ request[i].pc = "created"
    BY <1>9 DEF SendFails
  <2> QED BY <1>9, <2>1, GoesFacts, ShowsElsewhere DEF SendFails
<1>10. ASSUME NEW i \in Jobs, SaveRefusal(i) PROVE ShowsInv'
  <2>1. \A j \in Jobs : job'[j] = job[j]
                            \/ (Exists(j) /\ Exists(j)' /\ job'[j].frozen = job[j].frozen)
    BY <1>10, RefusalFacts DEF Exists
  <2> QED BY <1>10, <2>1, RefusalFacts, ShowsElsewhere
<1>11. ASSUME NEW i \in Jobs, RequestDies(i) PROVE ShowsInv'
  <2>1. Goes(i, "dead") /\ request[i].pc # "none"
    BY <1>11 DEF RequestDies
  <2> QED BY <1>11, <2>1, GoesFacts, ShowsElsewhere DEF RequestDies
<1>12. ASSUME NEW v \in Workers, NEW i \in Jobs, Take(v, i) PROVE ShowsInv'
  <2>1. UNCHANGED <<data, report, cache, job, file, request, doubt, faults>>
    BY <1>12, TakeFacts
  <2>2. StampsTell' /\ AskedBefore' /\ FrozenAsAsked' /\ FilesFit'
    BY <1>0, <2>1 DEF StampsTell, Shown, AskedBefore, FrozenAsAsked, FilesFit, Fits, Exists
  <2>3. \A j \in Jobs, c \in Artifact : Fits(j, c) => Fits(j, c)'
    BY <2>1 DEF Fits
  <2>4. Exists(i) => request[i].asked.edit <= report.edit
    BY <1>0 DEF AskedBefore
  <2>5. MemoriesFit'
    BY <1>0, <1>12, <2>1, <2>3, <2>4, TakeFacts, ReportNumbers DEF MemoriesFit, Exists
  <2> QED BY <2>2, <2>5 DEF ShowsInv
<1>13. ASSUME NEW v \in Workers, TaskStep(v) PROVE ShowsInv'
  BY <1>13, TaskFacts, ShowsTask
<1>14. ASSUME NEW v \in Workers, LoseWorker(v) \/ HoldTooLong(v) PROVE ShowsInv'
  <2>1. /\ \A u \in Workers : u # v => worker'[u] = worker[u]
        /\ worker'[v] \in {worker[v], Idle}
        /\ UNCHANGED <<data, report, cache, job, file, request>>
    BY <1>14, LossFacts
  <2>2. StampsTell' /\ AskedBefore' /\ FrozenAsAsked' /\ FilesFit'
    BY <1>0, <2>1 DEF StampsTell, Shown, AskedBefore, FrozenAsAsked, FilesFit, Fits, Exists
  <2>3. \A j \in Jobs, c \in Artifact : Fits(j, c) => Fits(j, c)'
    BY <2>1 DEF Fits
  <2>4. MemoriesFit'
    BY <1>0, <2>1, <2>3, NothingFacts DEF MemoriesFit, Exists, Idle
  <2> QED BY <2>2, <2>4 DEF ShowsInv
<1>15. CASE UNCHANGED vars
  BY <1>15, ShowsElsewhere DEF vars
<1> QED BY <1>1, <1>2, <1>3, <1>4, <1>5, <1>6, <1>7, <1>8, <1>9, <1>10, <1>11, <1>12, <1>13, <1>14, <1>15 DEF Next

LEMMA InitShows == Init => ShowsInv
<1> SUFFICES ASSUME Init PROVE ShowsInv
  OBVIOUS
<1>1. \A j \in Jobs : ~Exists(j) /\ request[j].pc = "none"
  BY DEF Init, Exists, NoJob, Unasked
<1>2. StampsTell
  <2>1. report.edit = 0 /\ report.stamp = 0
    <3>1. PICK k \in {"v1", "generic"} : report = [alive |-> TRUE, kind |-> k, edit |-> 0, stamp |-> 0]
      BY DEF Init
    <3> QED BY <3>1
  <2>2. \A s \in 0..MaxStamp : cache[s] = None
    BY DEF Init
  <2> QED BY <1>1, <2>1, <2>2 DEF StampsTell, Shown
<1> QED BY <1>1, <1>2 DEF ShowsInv, AskedBefore, FrozenAsAsked, FilesFit, MemoriesFit

\* An artifact shows the report as it was asked for or later, a report.v1 report's exactly
\* the preview frozen then (under a title that may be later), and data as of the request or
\* later or the default metrics: however late, often or concurrently it is rendered, whatever
\* edits, syncs, expired previews and refused queries come between.
THEOREM ArtifactsShowWhatWasAsked == Spec => []ShowsWhatWasAsked
<1>1. ShowsInv => ShowsWhatWasAsked
  BY DEF ShowsInv, FilesFit, Fits, ShowsWhatWasAsked
<1> QED BY InitTyped, StepTyped, InitFiles, InitShows, FilesStep, ShowsStep, <1>1, PTL DEF Spec

=============================================================================
