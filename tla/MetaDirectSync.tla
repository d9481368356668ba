---------------------------- MODULE MetaDirectSync ----------------------------
(***************************************************************************)
(* The sync state of one Meta ad account (MetaAccountSyncState) and all    *)
(* who write it: MetaSyncView and the slice it sends (integrations/tasks.py*)
(* sync_meta_reporting_slice), the hourly and daily tasks of the same      *)
(* three steps, the Airbyte webhook and Meta provisioning.  The tasks load *)
(* the row and save every column; the views save the columns they change.  *)
(***************************************************************************)
EXTENDS Naturals, FiniteSets

CONSTANTS Procs,        \* web and Celery processes
          MaxJobs,      \* bound: slices asked for
          MaxDays,      \* bound: days
          MaxRetries,   \* retries of a slice: five in the code
          MaxUpsets     \* bound: lost workers, broker errors, disconnects, and hourly tasks,
                        \* webhooks and provisionings, together

ASSUME BoundsAssumption == {MaxJobs, MaxRetries, MaxUpsets} \subseteq Nat /\ MaxDays \in Nat \ {0}

VARIABLES
  today,     \* the window a sync asked for now covers ends yesterday
  connected, \* whether the account has a credential
  row,       \* MetaAccountSyncState; job: the slice it says is pending or running; window 0: none
  asked,     \* the windows of the slices asked for
  broker,    \* how many messages of a slice, by the retries they count, wait for a worker
  proc,      \* what each process has in memory
  upsets,
  known,     \* history: windows of which some insights were stored, or which the row was
             \* given though their sync failed or had not begun
  dropped    \* history: jobs that were refused, or died or broke off with no message left
             \* and their last save undone, or found no credential

history == <<known, dropped>>
vars == <<today, connected, row, asked, broker, proc, upsets, history>>

Jobs == 1 .. MaxJobs
Windows == 1 .. MaxDays
Tries == 0 .. MaxRetries
Running == {"running", "pending"}
NoRow == [job |-> 0, status |-> "", rows |-> FALSE, window |-> 0, engine |-> "airbyte"]
AtRest == [pc |-> "idle", job |-> 0, phase |-> "", message |-> FALSE, tries |-> 0, window |-> 0,
           result |-> "", copy |-> NoRow]

Init ==
  /\ today = 1 /\ connected = TRUE /\ row = NoRow
  /\ asked = [j \in Jobs |-> 0] /\ broker = [j \in Jobs |-> [n \in Tries |-> 0]]
  /\ proc = [p \in Procs |-> AtRest] /\ upsets = 0
  /\ known = {} /\ dropped = {}

-----------------------------------------------------------------------------
Upset == upsets < MaxUpsets /\ upsets' = upsets + 1
At(p, pc) == proc[p].pc = pc
Slice(p) == proc[p].job # 0
Go(p, change) == proc' = [proc EXCEPT ![p] = change]
End(p) == Go(p, AtRest)
\* A step starts with the credential it finds; without one it does nothing.
Fetching(p, phase) ==
  [proc[p] EXCEPT !.pc = IF connected THEN "fetch" ELSE "skip", !.phase = phase, !.result = "", !.copy = NoRow]
\* The message of a slice is acknowledged when the slice is over; nobody waits for other runs.
Over(p, phase) ==
  LET me == proc[p] IN
  IF me.message
  THEN [AtRest EXCEPT !.pc = "ending", !.job = me.job, !.phase = phase, !.message = TRUE, !.tries = me.tries]
  ELSE AtRest
Sent(j, n, count) == broker' = [broker EXCEPT ![j][n] = @ + count]

Direct(j, status, rows, window) ==
  [job |-> j, status |-> status, rows |-> rows, window |-> window, engine |-> "direct"]
HasInsights(phase) == phase \in {"insights", "extended"}
Well(result) == result \in {"rows", "none"}

\* Mutant of Overlaid: a failure leaves the status of the row it loads.
OverlaidOnSuccess(me, phase, result) ==
  [row EXCEPT !.engine = "direct", !.job = IF phase = "start" THEN me.job ELSE @,
    !.status = IF phase = "start" THEN "running" ELSE IF Well(result) THEN "succeeded" ELSE @]
\* _touch_meta_sync_state: the row is loaded and a phase sets its columns over it; then all
\* of the row is saved.  The ones that start, fail and end a slice set every column.
Overlaid(me, phase, result) ==
  LET status == IF Well(result) THEN "succeeded" ELSE "failed" IN
  CASE phase = "start" -> Direct(me.job, "running", FALSE, me.window)
    [] phase = "assets" -> Direct(0, status, row.rows, row.window)
    [] HasInsights(phase) ->
         Direct(0, status, IF Well(result) THEN result = "rows" ELSE row.rows, me.window)
    [] phase \in {"final", "failing"} -> Direct(0, status, result = "rows", me.window)
Touching(me, phase, result) ==
  [me EXCEPT !.pc = "save", !.phase = phase, !.result = result, !.copy = Overlaid(me, phase, result)]

Midnight ==
  /\ today' \in Windows /\ today' = today + 1
  /\ UNCHANGED <<connected, row, asked, broker, proc, upsets, history>>

\* MetaLogoutView deletes the credentials and the sync states; an API delete the credential.
Disconnect ==
  /\ connected /\ Upset
  /\ connected' = FALSE /\ row' \in {row, NoRow}
  /\ UNCHANGED <<today, asked, broker, proc, history>>

Reconnect ==
  /\ ~connected /\ connected' = TRUE
  /\ UNCHANGED <<today, row, asked, broker, proc, upsets, history>>

(***************************************************************************)
(* MetaSyncView.  A job that says it runs, and began within the hour, is    *)
(* answered again and nothing changes; the hours are not modelled, so a     *)
(* request may always find it older.                                        *)
(***************************************************************************)
\* Mutant of Pending: the rows of the last sync stay.
PendingOverRows(j) == Direct(j, "pending", row.rows, today)
\* Mutant of Pending: a status no reader knows.
PendingSent(j) == Direct(j, "sent", FALSE, today)
Pending(j) == Direct(j, "pending", FALSE, today)
Post(p) ==
  /\ At(p, "idle") /\ connected
  /\ \E j \in Jobs :
       /\ asked[j] = 0 /\ \A i \in 1 .. j - 1 : asked[i] # 0
       /\ row' = Pending(j)
       /\ asked' = [asked EXCEPT ![j] = today]
       /\ Go(p, [AtRest EXCEPT !.pc = "sending", !.job = j, !.window = today])
  /\ UNCHANGED <<today, connected, broker, upsets, history>>

Send(p) ==
  /\ At(p, "sending") /\ Sent(proc[p].job, 0, 1) /\ End(p)
  /\ UNCHANGED <<today, connected, row, asked, upsets, history>>

\* A slice loads the row to start on it; one that finds no credential ends with an error,
\* which no retry follows and no save.
Begin(p, me) ==
  \/ connected /\ Go(p, Touching(me, "start", "")) /\ UNCHANGED dropped
  \/ ~connected /\ End(p) /\ dropped' = dropped \cup {me.job}

\* The broker fails, and may have the message: the request runs the slice itself.
SendFails(p) ==
  /\ At(p, "sending") /\ Upset
  /\ \E count \in {0, 1} : Sent(proc[p].job, 0, count)
  /\ Begin(p, proc[p])
  /\ UNCHANGED <<today, connected, row, asked, known>>

\* Any other error is the answer of the request.
SendRefused(p) ==
  /\ At(p, "sending") /\ Upset
  /\ dropped' = dropped \cup {proc[p].job} /\ End(p)
  /\ UNCHANGED <<today, connected, row, asked, broker, known>>

(***************************************************************************)
(* Tasks.                                                                  *)
(***************************************************************************)
Take(p, j, n) ==
  /\ At(p, "idle") /\ broker[j][n] > 0
  /\ broker' = [broker EXCEPT ![j][n] = @ - 1]
  /\ Begin(p, [AtRest EXCEPT !.job = j, !.message = TRUE, !.tries = n, !.window = asked[j]])
  /\ UNCHANGED <<today, connected, row, asked, upsets, known>>

\* sync_meta_accounts, sync_meta_hierarchy and sync_meta_insights_incremental.
StartHourly(p, phase) ==
  /\ At(p, "idle") /\ connected /\ Upset
  /\ Go(p, [AtRest EXCEPT !.pc = "fetch", !.phase = phase, !.window = today])
  /\ UNCHANGED <<today, connected, row, asked, broker, history>>

\* _sync_meta_accounts_core, then _sync_meta_hierarchy_core: both touch the row alike.
FetchAssets(p) ==
  /\ At(p, "fetch") /\ ~HasInsights(proc[p].phase)
  /\ \E result \in {"rows", "failed"} : Go(p, Touching(proc[p], proc[p].phase, result))
  /\ UNCHANGED <<today, connected, row, asked, broker, upsets, history>>

\* What Meta answered is stored, then the row is loaded.
FetchInsights(p) ==
  LET me == proc[p] IN
  /\ At(p, "fetch") /\ HasInsights(me.phase)
  /\ \E result \in {"rows", "none", "failed"} :
       /\ known' = known \cup (IF result = "rows" THEN {me.window} ELSE {})
       /\ Go(p, Touching(me, me.phase, result))
  /\ UNCHANGED <<today, connected, row, asked, broker, upsets, dropped>>

\* An error the steps do not name: a slice is failed; the longer second fetch is outside its try.
InTry(p) == Slice(p) /\ proc[p].phase # "extended"
\* Mutant of OnError: the slice ends with the error.
OnErrorEnd(p) == Over(p, "final")
OnError(p) == IF InTry(p) THEN Touching(proc[p], "failing", "failed") ELSE Over(p, "final")
Break(p) ==
  /\ proc[p].pc \in {"fetch", "skip"} /\ Upset
  /\ Go(p, OnError(p))
  /\ dropped' = IF Slice(p) /\ ~InTry(p) THEN dropped \cup {proc[p].job} ELSE dropped
  /\ UNCHANGED <<today, connected, row, asked, broker, known>>

\* The slice goes from step to step; no rows in thirty days are looked for in ninety.
Onward(p, result) ==
  LET me == proc[p] IN
  IF me.phase = "start" THEN Fetching(p, "assets")
  ELSE IF ~Slice(p) \/ me.phase \in {"final", "failing"} THEN Over(p, me.phase)
  ELSE IF ~Well(result) THEN IF me.phase = "extended" THEN Over(p, "final") ELSE Touching(me, "failing", result)
  ELSE CASE me.phase = "assets" -> Fetching(p, "insights")
         [] me.phase = "insights" /\ result = "none" -> Fetching(p, "extended")
         [] OTHER -> Touching(me, "final", result)

Save(p) ==
  LET me == proc[p] IN
  /\ At(p, "save")
  /\ row' = me.copy
  /\ known' = known \cup (IF HasInsights(me.phase) /\ ~Well(me.result) THEN {me.window} ELSE {})
  /\ Go(p, Onward(p, me.result))
  /\ UNCHANGED <<today, connected, asked, broker, upsets, dropped>>

\* A step that found no credential reports no rows and leaves the row alone.
Skip(p) ==
  /\ At(p, "skip") /\ Go(p, Onward(p, "none"))
  /\ UNCHANGED <<today, connected, row, asked, broker, upsets, history>>

\* retry_with_backoff: the retry is on the broker before the failed run is acknowledged.
Retry(p) ==
  LET me == proc[p] IN
  /\ At(p, "ending") /\ me.phase = "failing" /\ me.tries < MaxRetries
  /\ Sent(me.job, me.tries + 1, 1)
  /\ Go(p, [me EXCEPT !.phase = "final"])
  /\ UNCHANGED <<today, connected, row, asked, upsets, history>>

\* Whether an error is worth a retry is left open.
Acknowledge(p) ==
  /\ At(p, "ending") /\ End(p)
  /\ UNCHANGED <<today, connected, row, asked, broker, upsets, history>>

\* A lost worker's message is delivered again; a request that ran its slice is gone.
LoseWorker(p) ==
  LET me == proc[p] IN
  /\ ~At(p, "idle") /\ Upset /\ End(p)
  /\ broker' = IF me.message THEN [broker EXCEPT ![me.job][me.tries] = @ + 1] ELSE broker
  /\ dropped' = IF Slice(p) /\ ~me.message THEN dropped \cup {me.job} ELSE dropped
  /\ UNCHANGED <<today, connected, row, asked, known>>

(***************************************************************************)
(* Airbyte: the webhook of a job of its own, and MetaProvisionView.        *)
(***************************************************************************)
\* A failed job's row is no more active than that of one under way.
Webhook ==
  /\ Upset
  /\ \E status \in {"running", "succeeded"}, rows \in BOOLEAN :
       /\ rows => status = "succeeded"
       /\ row' = [job |-> 0, status |-> status, rows |-> rows, window |-> today, engine |-> "airbyte"]
       /\ known' = known \cup (IF rows THEN {today} ELSE {})
  /\ UNCHANGED <<today, connected, asked, broker, proc, dropped>>

Provision ==
  /\ Upset
  /\ row' = [row EXCEPT !.window = today, !.engine = "airbyte"]
  /\ known' = known \cup {today}
  /\ UNCHANGED <<today, connected, asked, broker, proc, dropped>>

TaskStep(p) ==
  Send(p) \/ FetchAssets(p) \/ FetchInsights(p) \/ Save(p) \/ Skip(p) \/ Retry(p) \/ Acknowledge(p)
Next ==
  \/ Midnight \/ Disconnect \/ Reconnect \/ Webhook \/ Provision
  \/ \E p \in Procs :
       \/ Post(p) \/ SendFails(p) \/ SendRefused(p)
       \/ TaskStep(p) \/ Break(p) \/ LoseWorker(p)
       \/ \E j \in Jobs, n \in Tries : Take(p, j, n)
       \/ \E phase \in {"assets", "insights"} : StartHourly(p, phase)
Spec == Init /\ [][Next]_vars

\* Processes go on, and idle workers take what the broker holds.
Fairness ==
  /\ \A p \in Procs : WF_vars(TaskStep(p))
  /\ WF_vars(\E p \in Procs, j \in Jobs, n \in Tries : Take(p, j, n))
FairSpec == Spec /\ Fairness

-----------------------------------------------------------------------------
SyncRows == [job : 0 .. MaxJobs, status : Running \cup {"", "succeeded", "failed"}, rows : BOOLEAN,
             window : 0 .. MaxDays, engine : {"airbyte", "direct"}]
Phases == {"start", "assets", "insights", "extended", "final", "failing"}
Results == {"", "rows", "none", "failed"}
Memories == [pc : {"idle", "sending", "fetch", "skip", "save", "ending"}, job : 0 .. MaxJobs,
             phase : Phases \cup {""}, message : BOOLEAN, tries : Tries, window : 0 .. MaxDays,
             result : Results, copy : SyncRows]
\* Every variable keeps its type; a slice nobody asked for has no message.
TypeOK ==
  /\ today \in Windows /\ connected \in BOOLEAN /\ row \in SyncRows /\ upsets \in 0 .. MaxUpsets
  /\ asked \in [Jobs -> 0 .. MaxDays] /\ broker \in [Jobs -> [Tries -> Nat]]
  /\ \A j \in Jobs, n \in Tries : asked[j] = 0 => broker[j][n] = 0
  /\ proc \in [Procs -> Memories] /\ known \subseteq Windows /\ dropped \subseteq Jobs

\* _meta_sync_state_is_active: what the status pages call an active, current account.
Active == row.status = "succeeded" /\ row.rows /\ row.engine = "direct"

\* An account is shown active only for a window whose insights are stored, though the
\* account and hierarchy steps call the row succeeded before any are stored, and whoever
\* saves a copy of an older row; unless that window's sync failed or provisioning named it.
ActiveHasData == Active => row.window \in known

\* A slice waits for a worker, or is run by a process that has not made its last save.
UnderWay(j) ==
  \/ \E n \in Tries : broker[j][n] > 0
  \/ \E p \in Procs : proc[p].job = j /\ proc[p].pc # "ending"
\* A row that says pending or running names a slice that is: a request answered with the
\* job under way is not answered with one that ended, failed or waits for nothing, through
\* retries sent before a lost worker's message is delivered again.  A slice that was never
\* sent, that lost its credential, or that died or broke off with nothing to run it again,
\* is the exception.
RunningIsUnderWay ==
  row.status \in Running /\ row.engine = "direct" /\ row.job \notin dropped
    => row.job # 0 /\ UnderWay(row.job)

\* Such a row comes to say something else, whatever else is at work on it.
RunningEnds ==
  (row.status \in Running /\ row.engine = "direct")
    ~> (row.status \notin Running \/ row.engine # "direct" \/ row.job \in dropped)
=============================================================================
