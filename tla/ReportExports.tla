--------------------------- MODULE ReportExports ---------------------------
(***************************************************************************)
(* Export jobs of one report (analytics/phase2_views.py create_export,     *)
(* scheduled_dry_run and ExportDownloadView, reporting_delivery.py,        *)
(* reporting_report_preview.py and the task run_report_export_job).  A     *)
(* request freezes a preview of a report.v1 report into its job, through a *)
(* cache; other reports are rendered from the data of the moment, or from  *)
(* default metrics when that cannot be read.  The task may be delivered    *)
(* twice and its worker lost; the request may be told that a message it    *)
(* sent was not sent.                                                      *)
(***************************************************************************)
EXTENDS Naturals, FiniteSets

CONSTANTS Jobs, Workers,
          MaxData,     \* bound: versions of the tenant's data; of version 0 there are no rows
          MaxStamp,    \* bound: updates of the report
          MaxFaults,   \* bound: lost workers, requests and redeliveries
          None, Partial

ASSUME BoundsAssumption == MaxData \in Nat /\ MaxStamp \in Nat /\ MaxFaults \in Nat

Copy == [edit : 0..MaxStamp, data : 0..MaxData]   \* what a preview shows
\* What an artifact shows, and where its data came from; title: the report's name on it.
Artifact == [edit : 0..MaxStamp, data : 0..MaxData, title : 0..MaxStamp,
             source : {"preview", "fetched", "default"}]
ASSUME NoneAssumption ==
  None # Partial /\ None \notin Jobs \cup Copy \cup Artifact /\ Partial \notin Artifact

VARIABLES
  data,     \* the tenant's data: the aggregate view and the synced rows
  report,   \* the ReportDefinition; edit: the stamp of its last PATCH
  cache,    \* previews by the report's updated_at
  job,      \* ReportExportJob rows; frozen: metadata.report_preview.report_snapshot,
            \* told: metadata.snapshot_status
  file,     \* the artifact of each job on the shared disk
  queue,    \* messages for the job on the broker
  request,  \* what each export request has in memory; asked: history, what there was when it came
  worker,   \* what each Celery worker has in memory
  doubt,    \* history: jobs delivered again, and jobs sent with an error
  faults    \* faults so far

vars == <<data, report, cache, job, file, queue, request, worker, doubt, faults>>

NoJob == [status |-> "absent", path |-> FALSE, frozen |-> None, delivery |-> "none", told |-> "none"]
Forgotten == [kind |-> "v1", edit |-> 0, stamp |-> 0]
Unasked == [pc |-> "none", dry |-> FALSE, seen |-> Forgotten, asked |-> [edit |-> 0, data |-> 0]]
Idle == [pc |-> "idle", job |-> None, delivery |-> "none", told |-> "none", edit |-> 0,
         frozen |-> None, made |-> None]

Init ==
  /\ data = 0
  /\ report \in {[alive |-> TRUE, kind |-> k, edit |-> 0, stamp |-> 0] : k \in {"v1", "generic"}}
  /\ cache = [s \in 0..MaxStamp |-> None]
  /\ job = [j \in Jobs |-> NoJob] /\ file = [j \in Jobs |-> None]
  /\ queue = [j \in Jobs |-> 0]
  /\ request = [j \in Jobs |-> Unasked]
  /\ worker = [w \in Workers |-> Idle]
  /\ doubt = [redelivered |-> {}, unsure |-> {}] /\ faults = 0

Exists(j) == job[j].status # "absent"
Ended(j) == job[j].status \in {"completed", "failed"}

(***************************************************************************)
(* The report, its data and its previews.                                  *)
(***************************************************************************)
\* A sync or a new aggregate changes the data.
NewData ==
  /\ data < MaxData /\ data' = data + 1
  /\ UNCHANGED <<report, cache, job, file, queue, request, worker, doubt, faults>>

\* PATCH of filters or layout, which may make the report a report.v1 one or not.
EditReport(kind) ==
  /\ report.alive /\ report.stamp < MaxStamp
  /\ report' = [report EXCEPT !.kind = kind, !.stamp = @ + 1, !.edit = report.stamp + 1]
  /\ UNCHANGED <<data, cache, job, file, queue, request, worker, doubt, faults>>

\* Deleting the report deletes its jobs; the artifacts stay on disk.
DeleteReport ==
  /\ report.alive
  /\ report' = [report EXCEPT !.alive = FALSE]
  /\ job' = [j \in Jobs |-> NoJob]
  /\ UNCHANGED <<data, cache, file, queue, request, worker, doubt, faults>>

CacheKeyWithoutStamp(seen) == 0
\* _report_preview_cache_key: the report's updated_at is part of it.
CacheKey(seen) == seen.stamp

\* build_report_preview.
Preview(seen) ==
  IF cache[CacheKey(seen)] # None THEN cache[CacheKey(seen)] ELSE [edit |-> seen.edit, data |-> data]
Remembered(seen) == [cache EXCEPT ![CacheKey(seen)] = Preview(seen)]
\* Coverage blocks a preview without rows.
ExportReady(preview) == preview.data > 0

PreviewReport ==
  /\ report.alive /\ report.kind = "v1"
  /\ cache' = Remembered(report)
  /\ UNCHANGED <<data, report, job, file, queue, request, worker, doubt, faults>>

\* A cached preview lives for a minute.
CacheExpires(s) ==
  /\ cache[s] # None
  /\ cache' = [cache EXCEPT ![s] = None]
  /\ UNCHANGED <<data, report, job, file, queue, request, worker, doubt, faults>>

(***************************************************************************)
(* Requests for an export (create_export) and for a dry run of scheduled   *)
(* delivery (scheduled_dry_run), which only report.v1 reports have.        *)
(***************************************************************************)
Open(j, dry) ==
  /\ request[j].pc = "none" /\ report.alive
  /\ dry => report.kind = "v1"
  /\ request' = [request EXCEPT ![j] =
       [pc |-> "open", dry |-> dry,
        seen |-> [kind |-> report.kind, edit |-> report.edit, stamp |-> report.stamp],
        asked |-> [edit |-> report.edit, data |-> data]]]
  /\ UNCHANGED <<data, report, cache, job, file, queue, worker, doubt, faults>>

\* Once its job is made a request no longer needs the report.
Goes(j, pc) == request' = [request EXCEPT ![j].pc = pc, ![j].seen = Forgotten]

\* An export that is blocked makes no job (409) and neither does one of a report just
\* deleted; a blocked dry run makes a failed one.  A dry run also touches the report.
CreateJob(j) ==
  LET r == request[j]
      preview == Preview(r.seen)
      blocked == r.seen.kind = "v1" /\ ~ExportReady(preview)
  IN
  /\ r.pc = "open"
  /\ cache' = IF r.seen.kind = "v1" THEN Remembered(r.seen) ELSE cache
  /\ IF ~report.alive \/ (blocked /\ ~r.dry)
     THEN /\ Goes(j, "done") /\ UNCHANGED <<job, report>>
     ELSE /\ job' = [job EXCEPT ![j] =
               [status |-> IF blocked THEN "failed" ELSE "queued", path |-> FALSE,
                frozen |-> IF r.seen.kind = "v1" /\ ~blocked THEN preview ELSE None,
                delivery |-> CASE blocked -> "blocked" [] r.dry /\ ~blocked -> "queued"
                               [] ~r.dry /\ ~blocked -> "none",
                told |-> "none"]]
          /\ IF r.dry
             THEN /\ report.stamp < MaxStamp
                  /\ report' = [report EXCEPT !.stamp = @ + 1]
             ELSE UNCHANGED report
          /\ Goes(j, IF blocked THEN "done" ELSE "created")
  /\ UNCHANGED <<data, file, queue, worker, doubt, faults>>

Send(j) ==
  /\ request[j].pc = "created"
  /\ queue' = [queue EXCEPT ![j] = @ + 1]
  /\ Goes(j, "done")
  /\ UNCHANGED <<data, report, cache, job, file, worker, doubt, faults>>

\* delay raises; the broker may have taken the message all the same.
SendFails(j) ==
  /\ request[j].pc = "created"
  /\ \E taken \in 0..1 : queue' = [queue EXCEPT ![j] = @ + taken]
  /\ Goes(j, "refused")
  /\ doubt' = [doubt EXCEPT !.unsure = @ \cup {j}]
  /\ UNCHANGED <<data, report, cache, job, file, worker, faults>>

SaveRefusal(j) ==
  /\ request[j].pc = "refused"
  /\ IF Exists(j)
     THEN job' = [job EXCEPT ![j] =
            [@ EXCEPT !.status = "failed",
                      !.delivery = IF request[j].dry THEN "failed" ELSE job[j].delivery]]
     ELSE UNCHANGED job
  /\ Goes(j, "done")
  /\ UNCHANGED <<data, report, cache, file, queue, worker, doubt, faults>>

RequestDies(j) ==
  /\ request[j].pc \in {"open", "created", "refused"} /\ faults < MaxFaults
  /\ Goes(j, "dead")
  /\ faults' = faults + 1
  /\ UNCHANGED <<data, report, cache, job, file, queue, worker, doubt>>

(***************************************************************************)
(* run_report_export_job.                                                  *)
(***************************************************************************)
\* A job that is already completed or failed is taken as any other.
Take(w, j) ==
  /\ worker[w].pc = "idle" /\ queue[j] > 0
  /\ queue' = [queue EXCEPT ![j] = @ - 1]
  /\ worker' = IF Exists(j)
               THEN [worker EXCEPT ![w] = [pc |-> "loaded", job |-> j, delivery |-> job[j].delivery,
                       told |-> job[j].told, edit |-> report.edit, frozen |-> job[j].frozen,
                       made |-> None]]
               ELSE worker
  /\ UNCHANGED <<data, report, cache, job, file, request, doubt, faults>>

\* save(update_fields=...) raises when the row is gone, which ends the task.
Save(w, new, next) ==
  LET j == worker[w].job IN
  /\ job' = IF Exists(j) THEN [job EXCEPT ![j] = new] ELSE job
  /\ worker' = [worker EXCEPT ![w] = IF Exists(j) THEN next ELSE Idle]
  /\ UNCHANGED <<data, report, cache, file, queue, request, doubt, faults>>

SetRunning(w) ==
  /\ worker[w].pc = "loaded"
  /\ Save(w, [job[worker[w].job] EXCEPT !.status = "running"], [worker[w] EXCEPT !.pc = "running"])

\* A job with a report_snapshot in its metadata renders that, under the name the report had
\* when the task loaded it.
FromPreview(me) ==
  [edit |-> me.frozen.edit, data |-> me.frozen.data, title |-> me.edit, source |-> "preview"]
\* Another one renders the data of now under the filters that were loaded with the job.
Live(me) == [edit |-> me.edit, data |-> data, title |-> me.edit, source |-> "fetched"]
\* _snapshot_payload_for_tenant: metrics of nothing when the aggregate view has no row of
\* the tenant or the database refuses the query.
Default(me) == [Live(me) EXCEPT !.data = 0, !.source = "default"]
Contents(me) == IF me.frozen # None THEN {FromPreview(me)} ELSE {Live(me), Default(me)}

Writes(w, what, pc, made) ==
  /\ file' = [file EXCEPT ![worker[w].job] = what]
  /\ worker' = [worker EXCEPT ![w].pc = pc, ![w].made = made]
  /\ UNCHANGED <<data, report, cache, job, queue, request, doubt, faults>>

BeginFile(w) ==
  worker[w].pc = "running" /\ \E a \in Contents(worker[w]) : Writes(w, Partial, "writing", a)
EndFile(w) == worker[w].pc = "writing" /\ Writes(w, worker[w].made, "written", worker[w].made)
\* The exporter returns without an error and without a file.
NoFile(w) ==
  /\ worker[w].pc = "running"
  /\ \E a \in Contents(worker[w]) : Writes(w, file[worker[w].job], "written", a)
\* Rendering raises, before or after the file was opened.
RenderFails(w) ==
  /\ worker[w].pc \in {"running", "writing"}
  /\ Writes(w, file[worker[w].job], "broken", None)

VerifiedUnseen(w) == worker[w].pc = "written"
\* _verify_export_artifact: a file that is not empty.
Verified(w) == worker[w].pc = "written" /\ file[worker[w].job] # None

DeliveredAsStatus(delivery) == IF delivery = "queued" THEN "completed" ELSE delivery
\* The metadata is written as loaded; a queued dry run becomes rendered.
Delivered(delivery) == IF delivery = "queued" THEN "rendered" ELSE delivery

Tells(artifact) == IF artifact.source = "preview" THEN "none" ELSE artifact.source
\* What the job's metadata said when it was loaded wins over what this rendering would say.
Told(me) == IF me.told # "none" THEN me.told ELSE Tells(me.made)

Complete(w) ==
  /\ Verified(w)
  /\ Save(w, [job[worker[w].job] EXCEPT !.status = "completed", !.path = TRUE,
                !.delivery = Delivered(worker[w].delivery), !.told = Told(worker[w])], Idle)

Fail(w) ==
  /\ worker[w].pc = "broken" \/ (worker[w].pc = "written" /\ ~Verified(w))
  /\ Save(w, [job[worker[w].job] EXCEPT !.status = "failed"], Idle)

(***************************************************************************)
(* The broker delivers again: a worker is lost (acks_late), or holds a     *)
(* message for longer than the visibility timeout.                         *)
(***************************************************************************)
Redeliver(j) ==
  /\ queue' = [queue EXCEPT ![j] = @ + 1]
  /\ doubt' = [doubt EXCEPT !.redelivered = @ \cup {j}]
  /\ faults < MaxFaults /\ faults' = faults + 1
  /\ UNCHANGED <<data, report, cache, job, file, request>>

LoseAcknowledged(w) ==
  /\ worker[w].pc # "idle" /\ faults < MaxFaults /\ faults' = faults + 1
  /\ worker' = [worker EXCEPT ![w] = Idle]
  /\ UNCHANGED <<data, report, cache, job, file, queue, request, doubt>>
LoseWorker(w) ==
  /\ worker[w].pc # "idle"
  /\ Redeliver(worker[w].job)
  /\ worker' = [worker EXCEPT ![w] = Idle]

HoldTooLong(w) == worker[w].pc # "idle" /\ Redeliver(worker[w].job) /\ UNCHANGED worker

TaskStep(w) ==
  SetRunning(w) \/ BeginFile(w) \/ EndFile(w) \/ NoFile(w) \/ RenderFails(w) \/ Complete(w) \/ Fail(w)

Next ==
  \/ NewData \/ (\E k \in {"v1", "generic"} : EditReport(k)) \/ DeleteReport \/ PreviewReport
  \/ \E s \in 0..MaxStamp : CacheExpires(s)
  \/ \E j \in Jobs : \/ \E dry \in BOOLEAN : Open(j, dry)
                     \/ CreateJob(j) \/ Send(j) \/ SendFails(j) \/ SaveRefusal(j) \/ RequestDies(j)
  \/ \E w \in Workers : \/ \E j \in Jobs : Take(w, j)
                        \/ TaskStep(w) \/ LoseWorker(w) \/ HoldTooLong(w)

Spec == Init /\ [][Next]_vars

\* Requests go on unless they die; Celery keeps taking messages and every task ends.
Fairness ==
  /\ \A j \in Jobs : WF_vars(CreateJob(j) \/ Send(j) \/ SendFails(j) \/ SaveRefusal(j))
  /\ \A w \in Workers : WF_vars(TaskStep(w)) /\ WF_vars(\E j \in Jobs : Take(w, j))
FairSpec == Spec /\ Fairness

(***************************************************************************)
(* Properties.                                                             *)
(***************************************************************************)
Deliveries == {"none", "queued", "rendered", "failed", "blocked"}
Tellings == {"none", "fetched", "default"}
JobRow == [status : {"absent", "queued", "running", "completed", "failed"}, path : BOOLEAN,
           frozen : Copy \cup {None}, delivery : Deliveries, told : Tellings]
Stamped == [kind : {"v1", "generic"}, edit : 0..MaxStamp, stamp : 0..MaxStamp]
Reports == [alive : BOOLEAN, kind : {"v1", "generic"}, edit : 0..MaxStamp, stamp : 0..MaxStamp]
Requests == [pc : {"none", "open", "created", "refused", "done", "dead"}, dry : BOOLEAN,
             seen : Stamped, asked : Copy]
Memories == [pc : {"idle", "loaded", "running", "writing", "written", "broken"},
             job : Jobs \cup {None}, delivery : Deliveries, told : Tellings, edit : 0..MaxStamp,
             frozen : Copy \cup {None}, made : Artifact \cup {None}]
\* Every variable keeps its type.
TypeOK ==
  /\ data \in 0..MaxData /\ faults \in 0..MaxFaults
  /\ report \in Reports /\ cache \in [0..MaxStamp -> Copy \cup {None}]
  /\ job \in [Jobs -> JobRow] /\ file \in [Jobs -> Artifact \cup {None, Partial}]
  /\ queue \in [Jobs -> Nat] /\ request \in [Jobs -> Requests] /\ worker \in [Workers -> Memories]
  /\ doubt \in [redelivered : SUBSET Jobs, unsure : SUBSET Jobs]

\* A job that can be downloaded (completed, with a path) has an artifact; a dry run that was
\* completed is no longer told to be queued.  Unless its task was delivered again, the
\* artifact is whole, and the job's snapshot_status tells whether it shows the tenant's data
\* or default metrics: a second delivery renders again and leaves the first telling.
Downloadable ==
  \A j \in Jobs : job[j].status = "completed" =>
    /\ job[j].path /\ file[j] # None /\ job[j].delivery # "queued"
    /\ j \notin doubt.redelivered => file[j] \in Artifact /\ job[j].told = Tells(file[j])

\* An artifact of a report.v1 report has the content of the preview frozen for its export,
\* which shows the report as it was when the export was asked for, however late or often it
\* is rendered; only its title may be of a later edit.  The others show a report no older
\* than the request, and data no older unless they show the default metrics, which the
\* code puts in place of data it cannot read.
ShowsWhatWasAsked ==
  \A j \in Jobs : Exists(j) /\ file[j] \in Artifact =>
    LET a == file[j]
        asked == request[j].asked
        frozen == job[j].frozen
    IN
    /\ a.edit >= asked.edit /\ a.title >= asked.edit
    /\ a.source = "preview" <=> frozen # None
    /\ frozen # None => a.edit = asked.edit /\ a.edit = frozen.edit /\ a.data = frozen.data
    /\ a.source = "fetched" => a.data >= asked.data

\* A job comes to an end, whichever workers are lost, if its request lives to send it.
Settles ==
  \A j \in Jobs : job[j].status \in {"queued", "running"}
                    ~> Ended(j) \/ ~Exists(j) \/ request[j].pc = "dead"

=============================================================================
