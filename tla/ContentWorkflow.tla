--------------------------- MODULE ContentWorkflow ---------------------------
(***************************************************************************)
(* From a draft to a publish call: versions, reviews, approvals, schedules *)
(* and their dispatch (views.py, models.py, serializers.py and             *)
(* scheduler.py of backend/content_ops), for one draft of one workspace.   *)
(*                                                                         *)
(* Grain of atomicity.  ATOMIC_REQUESTS is off: a request reads the draft  *)
(* once, works on that copy, and commits every save on its own.  A request *)
(* is therefore one step per read or save of shared rows, with `seen` the  *)
(* draft as the request loaded it.  The blocks under transaction.atomic    *)
(* (a new version, a decision, a dispatch) are one step.  A request may    *)
(* end after any step (an exception, a lost process).                      *)
(*                                                                         *)
(* Abstractions.  A schedule has one target, so it has at most one         *)
(* attempt, and one worker cut to the preflight and to the claim with the  *)
(* provider's answer (PublishPipeline has several of both, and what late   *)
(* marks of overlapping workers do to an attempt).  Time is abstract:      *)
(* a schedule may be due at any moment.  The approval mode of the          *)
(* workspace may be changed at any moment, so a publish-now may find       *)
(* either.  Draft states no code tells apart are one: generated stands for *)
(* draft too, changes_requested for the internal and the client one, and   *)
(* the decision changes_requested for rejected (which the code does not    *)
(* supersede, and nothing looks at again).  A failed attempt is blocked or *)
(* failed_terminal.                                                        *)
(***************************************************************************)
EXTENDS Naturals, FiniteSets

CONSTANTS
  Requests,     \* API requests being served
  Approvals,    \* ApprovalRequest rows that may be created
  Schedules,    \* ContentSchedule rows that may be created
  NoSchedule,   \* a request or worker holds no schedule
  MaxVersions,  \* bound: versions of the draft
  MaxOverlaps   \* bound: requests that begin while another is being served

ASSUME ConstantsAssumption ==
  /\ NoSchedule \notin Schedules
  /\ MaxVersions \in Nat \ {0}
  /\ MaxOverlaps \in Nat

VARIABLES
  \* rows of the database
  draft,        \* ContentDraft: its state and its active version (0: none)
  versions,     \* versions 1 .. versions of the draft exist
  approvals,    \* ApprovalRequest: version, reviewer, status
  schedules,    \* ContentSchedule: version, state, and of its approval snapshot:
                \* does it hold a client approval, was approval bypassed?
  attempt,      \* state of the schedule's PublishAttempt, or none; the block for a missing
                \* client approval is told from the other failures by its failure code
  \* memory of a request
  pc,           \* the step it is about to take
  seen,         \* of the draft as it was loaded, the columns used later
  quick,        \* is the request a publish-now?
  snapshot,     \* the approval snapshot it is building
  made,         \* the schedule it created and will dispatch
  \* memory of the scanning tasks
  due,          \* schedules the dispatch scan listed
  claiming,     \* the schedule whose attempt passed preflight
  \* history
  overlaps,     \* requests that began while another was being served
  approved,     \* versions a client ever approved
  posted        \* versions handed to the provider

rowVars     == <<draft, versions, approvals, schedules, attempt>>
requestVars == <<pc, seen, quick, snapshot, made>>
taskVars    == <<due, claiming>>
history     == <<overlaps, approved, posted>>
vars        == <<rowVars, requestVars, taskVars, history>>

Version == 0 .. MaxVersions

DraftState ==
  {"generated", "internal_review", "internal_approved", "client_review", "client_approved",
   "changes_requested", "scheduled", "publishing", "published", "failed"}

Draft == [state : DraftState, active : Version]

\* not_requested: the row does not exist yet.
Approval ==
  [version : Version, reviewer : {"internal", "client"},
   status : {"not_requested", "pending", "approved", "changes_requested", "superseded"}]

\* none: the row does not exist yet.  No code sets locked.
Schedule ==
  [version : Version,
   state : {"none", "scheduled", "dispatching", "published", "failed", "cancelled"},
   approved : BOOLEAN, bypass : BOOLEAN]

Step ==
  {"idle", "save_patch", "invalidate", "save_version", "request_internal", "enter_internal",
   "request_client", "enter_client", "check", "validate", "snapshot", "create",
   "enter_scheduled", "dispatch", "cancel", "enter_approved"}

TypeOK ==
  /\ draft \in Draft
  /\ versions \in Version
  /\ approvals \in [Approvals -> Approval]
  /\ schedules \in [Schedules -> Schedule]
  /\ attempt \in [Schedules -> {"none", "queued", "client_approval_missing", "failed",
                                "published"}]
  /\ pc \in [Requests -> Step]
  /\ seen \in [Requests -> Draft]
  /\ quick \in [Requests -> BOOLEAN]
  /\ snapshot \in [Requests -> [approved : BOOLEAN, bypass : BOOLEAN]]
  /\ made \in [Requests -> Schedules \cup {NoSchedule}]
  /\ due \subseteq Schedules
  /\ claiming \in Schedules \cup {NoSchedule}
  /\ overlaps \in 0 .. MaxOverlaps
  /\ approved \subseteq Version
  /\ posted \subseteq Version

NoDraft == [state |-> "generated", active |-> 0]
NoSnapshot == [approved |-> FALSE, bypass |-> FALSE]

\* A draft as POST drafts creates it, or as caption generation does.
Init ==
  /\ \/ draft = NoDraft /\ versions = 0
     \/ draft = [state |-> "generated", active |-> 1] /\ versions = 1
  /\ approvals = [a \in Approvals |->
                    [version |-> 0, reviewer |-> "internal", status |-> "not_requested"]]
  /\ schedules = [s \in Schedules |->
                    [version |-> 0, state |-> "none", approved |-> FALSE, bypass |-> FALSE]]
  /\ attempt = [s \in Schedules |-> "none"]
  /\ pc = [r \in Requests |-> "idle"]
  /\ seen = [r \in Requests |-> NoDraft]
  /\ quick = [r \in Requests |-> FALSE]
  /\ snapshot = [r \in Requests |-> NoSnapshot]
  /\ made = [r \in Requests |-> NoSchedule]
  /\ due = {}
  /\ claiming = NoSchedule
  /\ overlaps = 0
  /\ approved = {}
  /\ posted = {}

-----------------------------------------------------------------------------
(* Helpers.                                                                *)

Goto(r, step) == pc' = [pc EXCEPT ![r] = step]

\* The end of a request: its memory is gone.
Finish(r) ==
  /\ Goto(r, "idle")
  /\ seen' = [seen EXCEPT ![r] = NoDraft]
  /\ quick' = [quick EXCEPT ![r] = FALSE]
  /\ snapshot' = [snapshot EXCEPT ![r] = NoSnapshot]
  /\ made' = [made EXCEPT ![r] = NoSchedule]

\* A request arrives, at most MaxOverlaps times while another is being served.
Arrive(r) ==
  /\ pc[r] = "idle"
  /\ IF \A q \in Requests : pc[q] = "idle"
       THEN UNCHANGED overlaps
       ELSE overlaps < MaxOverlaps /\ overlaps' = overlaps + 1

\* get_object: the request keeps the columns it will use, and goes to its first step.
Load(r, columns, step) ==
  /\ Arrive(r)
  /\ Goto(r, step)
  /\ seen' = [seen EXCEPT ![r] = columns]
  /\ UNCHANGED <<rowVars, quick, snapshot, made, taskVars, approved, posted>>

ActiveVersion == [NoDraft EXCEPT !.active = draft.active]

\* Mutant of InvalidateApprovals: only pending requests are superseded.
InvalidatePending ==
  [a \in Approvals |->
     IF approvals[a].status = "pending"
       THEN [approvals[a] EXCEPT !.status = "superseded"] ELSE approvals[a]]

InvalidateApprovals ==
  [a \in Approvals |->
     IF approvals[a].status \in {"pending", "approved", "changes_requested"}
       THEN [approvals[a] EXCEPT !.status = "superseded"] ELSE approvals[a]]

HasCurrentClientApproval(v) ==
  \E a \in Approvals :
    approvals[a] = [version |-> v, reviewer |-> "client", status |-> "approved"]

-----------------------------------------------------------------------------
(* Drafts and versions.                                                    *)

PatchDraft(r) == Load(r, draft, "save_patch")

\* serializer.save writes every column: the state and, unless the client names another
\* version of the draft, the active version go back to what the request loaded.
SavePatch(r) ==
  /\ pc[r] = "save_patch"
  /\ \E v \in {seen[r].active} \cup 0 .. versions :
       /\ draft' = [seen[r] EXCEPT !.active = v]
       /\ IF v # seen[r].active
            THEN Goto(r, "invalidate") /\ UNCHANGED <<seen, quick, snapshot, made>>
            ELSE Finish(r)
  /\ UNCHANGED <<versions, approvals, schedules, attempt, taskVars, history>>

InvalidateAfterPatch(r) ==
  /\ pc[r] = "invalidate"
  /\ approvals' = InvalidateApprovals
  /\ Finish(r)
  /\ UNCHANGED <<draft, versions, schedules, attempt, taskVars, history>>

CreateVersion(r) == Load(r, [NoDraft EXCEPT !.state = draft.state], "save_version")

\* One transaction; the draft's state is the loaded one.
SaveVersion(r) ==
  /\ pc[r] = "save_version"
  /\ versions < MaxVersions
  /\ versions' = versions + 1
  /\ draft' = [state |-> seen[r].state, active |-> versions + 1]
  /\ approvals' = InvalidateApprovals
  /\ Finish(r)
  /\ UNCHANGED <<schedules, attempt, taskVars, history>>

-----------------------------------------------------------------------------
(* Reviews.                                                                *)

\* Accepted in every draft state.
SubmitInternalReview(r) ==
  /\ draft.active # 0
  /\ Load(r, ActiveVersion, "request_internal")

SubmitClientReview(r) ==
  /\ draft.active # 0
  /\ draft.state = "internal_approved"
  /\ Load(r, ActiveVersion, "request_client")

CreateApprovalRequest(r) ==
  /\ pc[r] \in {"request_internal", "request_client"}
  /\ \E a \in Approvals :
       /\ approvals[a].status = "not_requested"
       /\ approvals' = [approvals EXCEPT ![a] =
            [version |-> seen[r].active,
             reviewer |-> IF pc[r] = "request_client" THEN "client" ELSE "internal",
             status |-> "pending"]]
  /\ Goto(r, IF pc[r] = "request_client" THEN "enter_client" ELSE "enter_internal")
  /\ seen' = [seen EXCEPT ![r] = NoDraft]
  /\ UNCHANGED <<draft, versions, schedules, attempt, quick, snapshot, made,
                 taskVars, history>>

\* The saves of a state that end submit-*-review and unschedule.
EnteredState(step) ==
  CASE step = "enter_internal" -> "internal_review"
    [] step = "enter_client" -> "client_review"
    [] step = "enter_approved" -> "client_approved"

EnterState(r) ==
  /\ pc[r] \in {"enter_internal", "enter_client", "enter_approved"}
  /\ draft' = [draft EXCEPT !.state = EnteredState(pc[r])]
  /\ Finish(r)
  /\ UNCHANGED <<versions, approvals, schedules, attempt, taskVars, history>>

\* Mutant of MayDecide: the status found under the lock is not looked at.
MayDecideAgain(a) ==
  /\ approvals[a].status # "not_requested"
  /\ approvals[a].version = draft.active

\* _validate_decision_target, on rows locked by the transaction.
MayDecide(a) ==
  /\ approvals[a].status = "pending"
  /\ approvals[a].version = draft.active
  /\ draft.state =
       IF approvals[a].reviewer = "internal" THEN "internal_review" ELSE "client_review"

\* Mutant of DecidedState: the decision itself becomes the draft's state.
DecidedStateIsDecision(reviewer, decision) == decision

DecidedState(reviewer, decision) ==
  IF decision = "changes_requested" THEN "changes_requested"
  ELSE IF reviewer = "internal" THEN "internal_approved" ELSE "client_approved"

Decide(a, decision) ==
  /\ MayDecide(a)
  /\ approvals' = [approvals EXCEPT ![a].status = decision]
  /\ draft' = [draft EXCEPT !.state = DecidedState(approvals[a].reviewer, decision)]
  /\ approved' = IF decision = "approved" /\ approvals[a].reviewer = "client"
                   THEN approved \cup {approvals[a].version} ELSE approved
  /\ UNCHANGED <<versions, schedules, attempt, requestVars, taskVars, overlaps, posted>>

-----------------------------------------------------------------------------
(* Schedules.                                                              *)

ScheduleDraft(r) ==
  /\ draft.active # 0
  /\ Load(r, ActiveVersion, "check")

\* In a bypass workspace no approval is asked for.
PublishNow(r) ==
  /\ draft.active # 0
  /\ Arrive(r)
  /\ seen' = [seen EXCEPT ![r] = ActiveVersion]
  /\ quick' = [quick EXCEPT ![r] = TRUE]
  /\ \E bypass \in BOOLEAN :
       /\ snapshot' = [snapshot EXCEPT ![r].bypass = bypass]
       /\ Goto(r, IF bypass THEN "snapshot" ELSE "check")
  /\ UNCHANGED <<rowVars, made, taskVars, approved, posted>>

CheckApproval(r) ==
  /\ pc[r] = "check"
  /\ IF HasCurrentClientApproval(seen[r].active)
       THEN /\ Goto(r, IF quick[r] THEN "snapshot" ELSE "validate")
            /\ UNCHANGED <<seen, quick, snapshot, made>>
       ELSE Finish(r)
  /\ UNCHANGED <<rowVars, taskVars, history>>

\* ContentScheduleSerializer.validate reads the draft again; publish-now has no such check.
ValidateSchedule(r) ==
  /\ pc[r] = "validate"
  /\ IF draft.active = seen[r].active /\ draft.state = "client_approved"
       THEN Goto(r, "snapshot") /\ UNCHANGED <<seen, quick, snapshot, made>>
       ELSE Finish(r)
  /\ UNCHANGED <<rowVars, taskVars, history>>

\* The approvals are read once more, for the snapshot.
ApprovalSnapshot(r) ==
  /\ pc[r] = "snapshot"
  /\ snapshot' = [snapshot EXCEPT ![r].approved = HasCurrentClientApproval(seen[r].active)]
  /\ Goto(r, "create")
  /\ UNCHANGED <<rowVars, seen, quick, made, taskVars, history>>

CreateSchedule(r) ==
  /\ pc[r] = "create"
  /\ \E s \in Schedules :
       /\ schedules[s].state = "none"
       /\ schedules' = [schedules EXCEPT ![s] =
            [version |-> seen[r].active, state |-> "scheduled",
             approved |-> snapshot[r].approved, bypass |-> snapshot[r].bypass]]
       /\ made' = [made EXCEPT ![r] = IF quick[r] THEN s ELSE NoSchedule]
  /\ Goto(r, "enter_scheduled")
  /\ seen' = [seen EXCEPT ![r] = NoDraft]
  /\ snapshot' = [snapshot EXCEPT ![r] = NoSnapshot]
  /\ UNCHANGED <<draft, versions, approvals, attempt, quick, taskVars, history>>

EnterScheduled(r) ==
  /\ pc[r] = "enter_scheduled"
  /\ draft' = [draft EXCEPT !.state = "scheduled"]
  /\ IF quick[r]
       THEN Goto(r, "dispatch") /\ UNCHANGED <<seen, quick, snapshot, made>>
       ELSE Finish(r)
  /\ UNCHANGED <<versions, approvals, schedules, attempt, taskVars, history>>

Unschedule(r) == Load(r, NoDraft, "cancel")

\* One UPDATE with its WHERE; it waits for rows a dispatch has locked.
CancelSchedules(r) ==
  LET open == {s \in Schedules : schedules[s].state = "scheduled"} IN
  /\ pc[r] = "cancel"
  /\ schedules' = [s \in Schedules |->
                     IF s \in open THEN [schedules[s] EXCEPT !.state = "cancelled"]
                                   ELSE schedules[s]]
  /\ IF open # {}
       THEN Goto(r, "enter_approved") /\ UNCHANGED <<seen, quick, snapshot, made>>
       ELSE Finish(r)
  /\ UNCHANGED <<draft, versions, approvals, attempt, taskVars, history>>

-----------------------------------------------------------------------------
(* Dispatch.                                                               *)

ScheduleSnapshotIsCurrent(s) ==
  /\ draft.active = schedules[s].version
  /\ schedules[s].bypass \/ schedules[s].approved

\* Mutant of MayDispatch: the state found under the lock is not looked at.
MayDispatchListed(s) == schedules[s].state # "none"

MayDispatch(s) == schedules[s].state = "scheduled"

\* _get_or_create_attempt by its idempotency key, and the schedule's state after it.  A new
\* attempt is blocked at once when readiness says so.
GetOrCreateAttempt(s, created) ==
  /\ attempt' = [attempt EXCEPT ![s] = IF @ = "none" THEN created ELSE @]
  /\ schedules' = [schedules EXCEPT ![s].state =
       IF attempt[s] = "none" /\ created = "failed" THEN "failed" ELSE "dispatching"]

\* _dispatch_schedule under the schedule's and the draft's row locks.  It does nothing when
\* the schedule is no longer scheduled, or when another transaction holds one of the rows
\* (skip_locked).  The draft is left alone, also when the schedule fails.
DispatchSchedule(s) ==
  \/ UNCHANGED <<schedules, attempt>>
  \/ /\ MayDispatch(s) /\ ~ScheduleSnapshotIsCurrent(s)
     /\ schedules' = [schedules EXCEPT ![s].state = "failed"]
     /\ UNCHANGED attempt
  \/ /\ MayDispatch(s) /\ ScheduleSnapshotIsCurrent(s)
     /\ \E created \in {"queued", "failed"} : GetOrCreateAttempt(s, created)

\* The end of publish-now.
DispatchNow(r) ==
  /\ pc[r] = "dispatch"
  /\ DispatchSchedule(made[r])
  /\ Finish(r)
  /\ UNCHANGED <<draft, versions, approvals, taskVars, history>>

\* Beat's scan lists due schedules without a lock.
ScanDueSchedules ==
  LET open == {s \in Schedules : schedules[s].state = "scheduled"} IN
  /\ due = {}
  /\ draft.state = "scheduled" /\ open # {}
  /\ \E listed \in SUBSET open : due' = listed /\ listed # {}
  /\ UNCHANGED <<rowVars, requestVars, claiming, history>>

DispatchDueSchedule ==
  \E s \in due :
    /\ due' = due \ {s}
    /\ DispatchSchedule(s)
    /\ UNCHANGED <<draft, versions, approvals, requestVars, claiming, history>>

-----------------------------------------------------------------------------
(* The attempt: its unlocked preflight, then the claim and the provider's  *)
(* answer in one step (PublishPipeline has them apart).                    *)

\* Mutant of ApprovalSnapshotIsValid: the bypass of the dispatcher is honoured.
ApprovalSnapshotOrBypass(s) == schedules[s].approved \/ schedules[s].bypass

\* _validate_approval_snapshot asks for a client approval whatever the approval mode was.
ApprovalSnapshotIsValid(s) == schedules[s].approved

\* The state of the attempt, and _refresh_schedule_and_draft_state.
SaveAttempt(s, attempt_state, schedule_state, draft_state) ==
  /\ attempt' = [attempt EXCEPT ![s] = attempt_state]
  /\ schedules' = [schedules EXCEPT ![s].state = schedule_state]
  /\ draft' = [draft EXCEPT !.state = draft_state]

PreflightAttempt(s) ==
  LET current == /\ draft.state \in {"scheduled", "publishing"}
                 /\ draft.active = schedules[s].version
  IN
  /\ claiming = NoSchedule
  /\ attempt[s] = "queued"
  /\ \/ /\ current /\ ApprovalSnapshotIsValid(s)
        /\ claiming' = s
        /\ UNCHANGED <<attempt, schedules, draft>>
     \/ /\ current /\ ~ApprovalSnapshotIsValid(s)
        /\ SaveAttempt(s, "client_approval_missing", "failed", "failed")
        /\ UNCHANGED claiming
     \/ /\ SaveAttempt(s, "failed", "failed", "failed")  \* any other check of the preflight
        /\ UNCHANGED claiming
  /\ UNCHANGED <<versions, approvals, requestVars, due, history>>

\* A retryable failure is requeued.
PublishAttempt ==
  /\ claiming # NoSchedule
  /\ \/ SaveAttempt(claiming, "published", "published", "published")
     \/ SaveAttempt(claiming, "failed", "failed", "failed")
     \/ SaveAttempt(claiming, "queued", "dispatching", "publishing")
  /\ posted' = posted \cup {schedules[claiming].version}
  /\ claiming' = NoSchedule
  /\ UNCHANGED <<versions, approvals, requestVars, due, overlaps, approved>>

-----------------------------------------------------------------------------
\* The request ends early: what it saved stays, the rest does not happen.
Abort(r) ==
  /\ pc[r] # "idle"
  /\ Finish(r)
  /\ UNCHANGED <<rowVars, taskVars, history>>

Request(r) ==
  \/ PatchDraft(r) \/ SavePatch(r) \/ InvalidateAfterPatch(r)
  \/ CreateVersion(r) \/ SaveVersion(r)
  \/ SubmitInternalReview(r) \/ SubmitClientReview(r)
  \/ CreateApprovalRequest(r) \/ EnterState(r)
  \/ ScheduleDraft(r) \/ PublishNow(r) \/ CheckApproval(r) \/ ValidateSchedule(r)
  \/ ApprovalSnapshot(r) \/ CreateSchedule(r) \/ EnterScheduled(r) \/ DispatchNow(r)
  \/ Unschedule(r) \/ CancelSchedules(r)
  \/ Abort(r)

Next ==
  \/ \E r \in Requests : Request(r)
  \/ \E a \in Approvals, decision \in {"approved", "changes_requested"} : Decide(a, decision)
  \/ ScanDueSchedules \/ DispatchDueSchedule
  \/ \E s \in Schedules : PreflightAttempt(s)
  \/ PublishAttempt

Spec == Init /\ [][Next]_vars

-----------------------------------------------------------------------------
(* Safety.                                                                 *)

\* Only versions a client approved are handed to the provider, whatever the approval mode
\* and however stale the requests, scans and snapshots on the way are.  This holds of what
\* the code does; of bypass schedules it holds because the preflight refuses every one
\* without a client approval, against what the code around it intends (below).
PostedWasClientApproved == posted \subseteq approved

\* What models.py, publish_now and the dispatcher say of a bypass workspace: a version is
\* posted immediately, without a recorded client approval.  So no attempt of a bypass schedule
\* is blocked for the want of one.  It does not hold: ApprovalSnapshotIsValid never looks at
\* the approval mode.
BypassNeedsNoClientApproval ==
  \A s \in Schedules : schedules[s].bypass => attempt[s] # "client_approval_missing"

\* The workflow implements ScheduleLifecycle: whatever requests overlap, stop half-way or act
\* on stale copies, a schedule is made once, for a version and an approval that never
\* change, is dispatched once, is sent only if a client approved its version, and does not
\* come back once it is cancelled, failed or published (publish-now dispatches the schedule
\* it created without another look, the scan what it listed before).
AbstractSchedule(s) ==
  [phase |-> IF schedules[s].state \in {"none", "scheduled"} THEN schedules[s].state
             ELSE IF attempt[s] = "queued" THEN "queued" ELSE "ended",
   version |-> schedules[s].version,
   vouched |-> schedules[s].approved]
Lifecycle == INSTANCE ScheduleLifecycle WITH
  Versions <- Version, endorsed <- approved, sent <- posted,
  schedule <- [s \in Schedules |-> AbstractSchedule(s)]
FollowsLifecycle == Lifecycle!Spec

\* A schedule is dispatched once.  One that was cancelled, failed, or whose attempt came to
\* an end is left alone, although the scan may have listed it before and publish-now
\* dispatches the one it created without another look.
DispatchedOnce ==
  [][\A s \in Schedules :
       schedules[s].state \notin {"none", "scheduled"} /\ attempt[s] # "queued"
         => schedules'[s] = schedules[s] /\ attempt'[s] = attempt[s]]_vars

\* A decision stands: afterwards the request can only be superseded, and a superseded one
\* is never revived by a decision taken on the version it was for.
DecisionsStand ==
  [][\A a \in Approvals :
       approvals[a].status \in {"approved", "changes_requested", "superseded"}
         => approvals'[a] \in {approvals[a], [approvals[a] EXCEPT !.status = "superseded"]}]_vars

ApprovedIsActive ==
  \A a \in Approvals :
    approvals[a].status = "approved" => approvals[a].version = draft.active

\* An approval in force is for the active version.  Only the full-row save of a PATCH can
\* part the two: new versions and decisions keep them together from every stale copy.
OnlyPatchSeparatesApproval ==
  [][ApprovedIsActive /\ (\A r \in Requests : pc[r] = "save_patch" => pc'[r] = pc[r])
       => ApprovedIsActive']_vars
=============================================================================
