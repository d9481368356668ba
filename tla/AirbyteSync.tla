--------------------------- MODULE AirbyteSync ---------------------------
(***************************************************************************)
(* The sync schedule of one tenant's Airbyte connections: the tasks that   *)
(* trigger jobs (core/tasks.py, integrations/airbyte/service.py), Airbyte's *)
(* webhook and the API of integrations/views.py, the refresh of the stored *)
(* state (backfill_ and reconcile_airbyte_sync_status) and the rows they   *)
(* all write (integrations/models.py).  Airbyte itself is external: jobs   *)
(* it creates, ends and reports.  Telemetry rows are left out.             *)
(***************************************************************************)
EXTENDS Naturals, Sequences, FiniteSetsExt

CONSTANTS NumConnections,
          Interval,           \* interval_minutes of every connection
          Workers,            \* tasks and webhook requests under way
          Outcomes,           \* how jobs may end
          Forces,             \* the settings of AIRBYTE_RECONCILE_FORCE_STALE_FAILURE
          Listed,             \* what Airbyte lists for AIRBYTE_DEFAULT_WORKSPACE_ID, if set
          MaxTime, MaxJobs, MaxFaults   \* bounds

Connections == 1 .. NumConnections   \* in the order of the queries
Times == 0 .. MaxTime                \* 0: no time
JobIds == 1 .. MaxJobs
Ended == {"succeeded", "failed"}
ASSUME OutcomesAssumption == Outcomes \subseteq Ended /\ Forces \subseteq BOOLEAN
ASSUME ListedAssumption == Listed \subseteq Nat
ASSUME BoundsAssumption ==
  /\ NumConnections \in Nat /\ Interval \in Nat
  /\ MaxTime \in Nat \ {0} /\ MaxJobs \in Nat /\ MaxFaults \in Nat
Statuses == {"", "running", "queued"} \cup Ended

VARIABLES
  now,
  jobs,      \* Airbyte's jobs, oldest first
  row,       \* AirbyteConnection
  shown,     \* TenantAirbyteSyncStatus
  worker,    \* what each worker has in memory
  editor,    \* a PATCH of a connection
  force,     \* AIRBYTE_RECONCILE_FORCE_STALE_FAILURE
  triggered, \* history: when the scheduler last triggered each connection
  disturbed, \* history: connections met by two operations, a failure, an odd answer or a
             \* request that stored its job
  faults     \* workers lost and PATCH requests so far

vars == <<now, jobs, row, shown, worker, editor, force, triggered, disturbed, faults>>

Sync(job, status, synced) == [job |-> job, status |-> status, synced |-> synced]
AtRest == [pc |-> "idle", todo |-> {}, conn |-> 0, job |-> 0, got |-> {}, saved |-> {}]
NoEdit == [conn |-> 0, sync |-> Sync(0, "", 0)]

Init ==
  /\ now = 1 /\ jobs = <<>>
  /\ row = [c \in Connections |-> [active |-> TRUE, sync |-> Sync(0, "", 0)]]
  /\ shown = [conn |-> 0, job |-> 0, status |-> ""]
  /\ worker = [w \in Workers |-> AtRest]
  /\ editor = NoEdit
  /\ force \in Forces
  /\ triggered = [c \in Connections |-> 0] /\ disturbed = {} /\ faults = 0

-----------------------------------------------------------------------------
ConnsOf(set) == {x.conn : x \in set}
Holds(w) == ConnsOf(worker[w].todo \cup worker[w].got \cup worker[w].saved)
            \cup ({worker[w].conn} \ {0})
Busy == (UNION {Holds(w) : w \in Workers}) \cup ({editor.conn} \ {0})
Meet(C) == disturbed' = disturbed \cup (C \cap Busy)
Least(set) == CHOOSE x \in set : \A y \in set : x.conn <= y.conn

Latest(c) == Max({j \in DOMAIN jobs : jobs[j].conn = c} \cup {0})

\* should_trigger of an interval schedule.
Due(c) == /\ row[c].active
          /\ row[c].sync.synced = 0 \/ row[c].sync.synced + Interval <= now

Update(c, j, status, at, loaded) ==
  [conn |-> c, job |-> j, status |-> status, at |-> at, loaded |-> loaded]

(***************************************************************************)
(* Airbyte, the clock and users.                                           *)
(***************************************************************************)
Elapse == /\ now < MaxTime /\ now' = now + 1
          /\ UNCHANGED <<jobs, row, shown, worker, editor, force, triggered, disturbed, faults>>

NewJob(c) == /\ Len(jobs) < MaxJobs
             /\ jobs' = Append(jobs, [conn |-> c, status |-> "running", at |-> now])

JobEnds(j) ==
  /\ j \in DOMAIN jobs /\ jobs[j].status = "running"
  /\ \E status \in Outcomes : jobs' = [jobs EXCEPT ![j].status = status, ![j].at = now]
  /\ UNCHANGED <<now, row, shown, worker, editor, force, triggered, disturbed, faults>>

\* AirbyteConnectionViewSet: POST sync/ and trigger-sync/ start a job and store nothing.
TriggerByUser(c) ==
  /\ NewJob(c)
  /\ UNCHANGED <<now, row, shown, worker, editor, force, triggered, disturbed, faults>>

StartPatch(c) ==
  /\ editor = NoEdit /\ faults < MaxFaults /\ faults' = faults + 1
  /\ editor' = [conn |-> c, sync |-> row[c].sync]
  /\ Meet({c})
  /\ UNCHANGED <<now, jobs, row, shown, worker, force, triggered>>

\* PATCH saves every column as it was loaded, those of the last sync included.
SavePatch ==
  /\ editor # NoEdit
  /\ \E active \in BOOLEAN :
       row' = [row EXCEPT ![editor.conn] = [active |-> active, sync |-> editor.sync]]
  /\ editor' = NoEdit
  /\ UNCHANGED <<now, jobs, shown, worker, force, triggered, disturbed, faults>>

(***************************************************************************)
(* _sync_provider_connections and trigger_scheduled_airbyte_syncs.         *)
(***************************************************************************)
Loaded(C) == {[conn |-> c, synced |-> row[c].sync.synced] : c \in C}
Begin(w, pc, C) ==
  /\ worker[w].pc = "idle" /\ C # {}
  /\ worker' = [worker EXCEPT ![w] = [AtRest EXCEPT !.pc = pc, !.todo = Loaded(C)]]
  /\ Meet(C)
  /\ UNCHANGED <<now, jobs, row, shown, editor, force, triggered, faults>>

StartSync(w) == Begin(w, "triggering", {c \in Connections : Due(c)})

\* An AirbyteClientError on the way: the updates so far are dropped, and the task is
\* retried from its start.
DropUpdates(w) ==
  /\ worker' = [worker EXCEPT ![w] = AtRest]
  /\ disturbed' = disturbed \cup ConnsOf(worker[w].got) \cup ({worker[w].conn} \ {0})

\* A trigger that fails may have created the job.
TriggerSync(w) ==
  LET c == Least(worker[w].todo).conn IN
  /\ worker[w].pc = "triggering"
  /\ \/ /\ NewJob(c)
        /\ worker' = [worker EXCEPT ![w].pc = "asking", ![w].conn = c, ![w].job = Len(jobs) + 1]
        /\ triggered' = [triggered EXCEPT ![c] = now]
        /\ UNCHANGED disturbed
     \/ UNCHANGED <<jobs, triggered>> /\ DropUpdates(w)
     \/ /\ NewJob(c) /\ triggered' = [triggered EXCEPT ![c] = now]
        /\ worker' = [worker EXCEPT ![w] = AtRest]
        /\ disturbed' = disturbed \cup ConnsOf(worker[w].got) \cup {c}
  /\ UNCHANGED <<now, row, shown, editor, force, faults>>

\* A job that has not ended may be reported without a time.
AnswerTimes(j) == IF jobs[j].status = "running" THEN {0, jobs[j].at} ELSE {jobs[j].at}

\* The pass over the connections: the next one, or the rows to be stored.
Proceed(w, pc, todo, got) ==
  worker' = [worker EXCEPT ![w] =
    IF todo # {} THEN [AtRest EXCEPT !.pc = pc, !.todo = todo, !.got = got]
    ELSE IF got # {} THEN [AtRest EXCEPT !.pc = "rows", !.got = got] ELSE AtRest]

GetJob(w) ==
  LET j == worker[w].job   p == Least(worker[w].todo) IN
  /\ worker[w].pc = "asking"
  /\ \/ \E at \in AnswerTimes(j) :
          /\ Proceed(w, "triggering", worker[w].todo \ {p},
                     worker[w].got \cup {Update(p.conn, j, jobs[j].status, at, p.synced)})
          /\ disturbed' = IF at = 0 THEN disturbed \cup {p.conn} ELSE disturbed
     \/ DropUpdates(w)
  /\ UNCHANGED <<now, jobs, row, shown, editor, force, triggered, faults>>

(***************************************************************************)
(* The sync requests of google_ads_views and connector_lifecycle_views,    *)
(* which store the job they started.                                       *)
(***************************************************************************)
StartRequest(w) == \E c \in Connections : Begin(w, "requesting", {c})

\* Google's stores the job as pending, with no time; the provider's queues it.  One that
\* fails stores nothing; the job it may have started is TriggerByUser's.
RequestSync(w) ==
  LET p == Least(worker[w].todo) IN
  /\ worker[w].pc = "requesting"
  /\ \/ /\ NewJob(p.conn)
        /\ \E pc \in {"rows", "queueing"} :
             worker' = [worker EXCEPT ![w] = [AtRest EXCEPT !.pc = pc,
               !.got = {Update(p.conn, Len(jobs) + 1, "running", 0, p.synced)}]]
        /\ disturbed' = disturbed \cup {p.conn}
     \/ UNCHANGED jobs /\ DropUpdates(w)
  /\ UNCHANGED <<now, row, shown, editor, force, triggered, faults>>

\* The provider's saves these columns only, and not the tenant's status.
QueueJob(w) ==
  LET u == Least(worker[w].got) IN
  /\ worker[w].pc = "queueing"
  /\ row' = [row EXCEPT ![u.conn].sync = Sync(u.job, "queued", row[u.conn].sync.synced)]
  /\ worker' = [worker EXCEPT ![w] = AtRest] /\ disturbed' = disturbed \cup {u.conn}
  /\ UNCHANGED <<now, jobs, shown, editor, force, triggered, faults>>

(***************************************************************************)
(* refresh_airbyte_sync_health: backfill, then reconcile.                  *)
(***************************************************************************)
\* Mutant of Refreshed: only rows that say running are refreshed.
RefreshedRunning == {c \in Connections : row[c].sync.status = "running"}
\* backfill_airbyte_sync_status takes every connection, inactive ones too; with a
\* workspace, those that Airbyte lists for it, unless the list is empty.  With none left
\* it fails, and so does the refresh.
Refreshed == IF Listed = {} THEN Connections ELSE Connections \cap Listed
StartBackfill(w) == Begin(w, "backfilling", Refreshed)

\* reconcile_airbyte_sync_status: active rows still running; how old makes them stale is
\* left open.
StartReconcile(w) ==
  \E C \in SUBSET {c \in Connections : row[c].active /\ row[c].sync.status = "running"} :
    Begin(w, "reconciling", C)

Forced(p, j) == IF force THEN {Update(p.conn, j, "failed", now, p.synced)} ELSE {}

\* What the latest job of a connection is stored as.  No answer and no job leave the row
\* as it is, unless failure is forced.
Resolved(pc, p) ==
  LET j == Latest(p.conn)
      unconfirmed == IF pc = "reconciling" THEN {Forced(p, row[p.conn].sync.job)} ELSE {{}} IN
  unconfirmed \cup
  IF j = 0 THEN {}
  ELSE IF pc = "reconciling" /\ jobs[j].status = "running" THEN {Forced(p, j)}
  ELSE {{Update(p.conn, j, jobs[j].status, at, p.synced)} : at \in AnswerTimes(j)}

LatestJob(w) ==
  LET p == Least(worker[w].todo) IN
  /\ worker[w].pc \in {"backfilling", "reconciling"}
  /\ \E found \in Resolved(worker[w].pc, p) :
       /\ Proceed(w, worker[w].pc, worker[w].todo \ {p}, worker[w].got \cup found)
       /\ disturbed' = disturbed \cup {u.conn : u \in {x \in found : x.at = 0}}
  /\ UNCHANGED <<now, jobs, row, shown, editor, force, triggered, faults>>

(***************************************************************************)
(* AirbyteWebhookView: a job's end may be reported never, late, or twice.  *)
(***************************************************************************)
Webhook(w, j) ==
  LET c == jobs[j].conn IN
  /\ j \in DOMAIN jobs /\ jobs[j].status \in Ended /\ worker[w].pc = "idle"
  /\ worker' = [worker EXCEPT ![w] = [AtRest EXCEPT !.pc = "rows",
                  !.got = {Update(c, j, jobs[j].status, jobs[j].at, row[c].sync.synced)}]]
  /\ disturbed' = disturbed \cup ({c} \cap Busy) \cup (IF j < row[c].sync.job THEN {c} ELSE {})
  /\ UNCHANGED <<now, jobs, row, shown, editor, force, triggered, faults>>

(***************************************************************************)
(* persist_sync_updates: every row, then the tenant's status for each.     *)
(***************************************************************************)
\* Mutants of SyncedAt: the time of the next sync; only a success counts as a sync.
SyncedAsNextDue(u) == u.at + Interval
SyncedOnSuccess(u) == IF u.status = "succeeded" THEN u.at ELSE u.loaded
\* completed_at is the time of the job's last change, whatever its status; without one
\* the time loaded with the row is stored again.
SyncedAt(u) == IF u.at # 0 THEN u.at ELSE u.loaded

SaveRow(w) ==
  LET u == Least(worker[w].got) IN
  /\ worker[w].pc = "rows"
  /\ row' = [row EXCEPT ![u.conn].sync = Sync(u.job, u.status, SyncedAt(u))]
  /\ worker' = [worker EXCEPT ![w].got = @ \ {u},
                              ![w].saved = @ \cup {[conn |-> u.conn, job |-> u.job, status |-> u.status]},
                              ![w].pc = IF worker[w].got = {u} THEN "statuses" ELSE @]
  /\ UNCHANGED <<now, jobs, shown, editor, force, triggered, disturbed, faults>>

\* Mutant of Copied: the job's id is left as it was.
CopiedWithoutJob(s) == [s EXCEPT !.job = shown.job]
\* record_connection copies the row as this worker stored it.
Copied(s) == s

SaveStatus(w) ==
  LET s == Least(worker[w].saved) IN
  /\ worker[w].pc = "statuses"
  /\ shown' = Copied(s)
  /\ worker' = [worker EXCEPT ![w] =
       IF worker[w].saved = {s} THEN AtRest ELSE [worker[w] EXCEPT !.saved = @ \ {s}]]
  /\ UNCHANGED <<now, jobs, row, editor, force, triggered, disturbed, faults>>

LoseWorker(w) ==
  /\ worker[w].pc # "idle" /\ faults < MaxFaults /\ faults' = faults + 1
  /\ worker' = [worker EXCEPT ![w] = AtRest]
  /\ disturbed' = disturbed \cup (Holds(w) \ ConnsOf(worker[w].todo)) \cup ({worker[w].conn} \ {0})
  /\ UNCHANGED <<now, jobs, row, shown, editor, force, triggered>>

WorkerStep(w) == \/ TriggerSync(w) \/ GetJob(w) \/ RequestSync(w) \/ QueueJob(w)
                 \/ LatestJob(w) \/ SaveRow(w) \/ SaveStatus(w)
Next == \/ Elapse \/ SavePatch
        \/ \E c \in Connections : TriggerByUser(c) \/ StartPatch(c)
        \/ \E j \in JobIds : JobEnds(j)
        \/ \E w \in Workers : \/ StartSync(w) \/ StartRequest(w) \/ StartBackfill(w) \/ StartReconcile(w)
                              \/ WorkerStep(w) \/ LoseWorker(w)
                              \/ \E j \in JobIds : Webhook(w, j)
Spec == Init /\ [][Next]_vars

\* Airbyte answers with the latest job of c.
Answered(w, c) == /\ LatestJob(w) /\ Least(worker[w].todo).conn = c
                  /\ worker'[w].got # worker[w].got
\* Jobs end; a worker that is not lost goes on; the hourly refresh runs, and Airbyte
\* answers it about each connection, again and again.
Fairness ==
  /\ \A j \in JobIds : WF_vars(JobEnds(j))
  /\ \A w \in Workers : /\ WF_vars(WorkerStep(w)) /\ SF_vars(StartBackfill(w))
                        /\ \A c \in Connections : SF_vars(Answered(w, c))
FairSpec == Spec /\ Fairness

-----------------------------------------------------------------------------
JobStatuses == {"running"} \cup Ended
AirbyteJobs == [conn : Connections, status : JobStatuses, at : Times]
Syncs == [job : 0 .. MaxJobs, status : Statuses, synced : Times]
Rows == [active : BOOLEAN, sync : Syncs]
Loads == [conn : Connections, synced : Times]
Updates == [conn : Connections, job : 0 .. MaxJobs, status : JobStatuses, at : Times, loaded : Times]
Copies == [conn : Connections, job : 0 .. MaxJobs, status : JobStatuses]
Memories == [pc : {"idle", "triggering", "asking", "requesting", "queueing", "backfilling",
                   "reconciling", "rows", "statuses"},
             todo : SUBSET Loads, conn : 0 .. NumConnections, job : 0 .. MaxJobs,
             got : SUBSET Updates, saved : SUBSET Copies]
\* Every variable keeps its type.
TypeOK ==
  /\ now \in Times /\ force \in BOOLEAN /\ faults \in 0 .. MaxFaults
  /\ jobs \in Seq(AirbyteJobs) /\ Len(jobs) <= MaxJobs
  /\ row \in [Connections -> Rows] /\ worker \in [Workers -> Memories]
  /\ shown \in [conn : 0 .. NumConnections, job : 0 .. MaxJobs, status : Statuses]
  /\ editor \in [conn : 0 .. NumConnections, sync : Syncs]
  /\ triggered \in [Connections -> Times] /\ disturbed \subseteq Connections

\* A row never says that a job ended, or how, unless it did and it is the connection's
\* own: true of what every path stores, stale or not, but for a forced failure.  And the
\* tenant's status is the row of the connection it names as soon as nobody is at work on
\* it; only overlapping writers, or one that died half way, leave them apart.
RowsTellTheTruth ==
  \A c \in Connections : LET s == row[c].sync IN
    /\ s.status # "" /\ ~force =>
         /\ s.job \in DOMAIN jobs /\ jobs[s.job].conn = c
         /\ s.status \in Ended => s.status = jobs[s.job].status
    /\ shown.conn = c /\ c \notin disturbed \cup Busy =>
         shown.job = s.job /\ shown.status = s.status

WorkerTriggers(c) ==
  /\ Len(jobs') > Len(jobs) /\ jobs'[Len(jobs')].conn = c
  /\ worker' # worker
\* The scheduler does not trigger a connection twice within its interval, unless one of
\* its operations failed, met another or was told no time.
IntervalKept ==
  [][\A c \in Connections \ disturbed' :
       WorkerTriggers(c) /\ triggered[c] # 0 => triggered[c] + Interval <= now]_vars

\* Whatever webhooks are lost, late or out of order, every row that the hourly refresh
\* takes shows its connection's latest job again and again.  The rows of other
\* workspaces depend on their webhooks.
Accurate(c) == Latest(c) # 0 => LET s == row[c].sync IN
                                 s.job = Latest(c) /\ s.status \in {jobs[s.job].status, "failed"}
RowsCatchUp == \A c \in Connections : Listed = {} \/ c \in Listed => []<>Accurate(c)
=============================================================================
