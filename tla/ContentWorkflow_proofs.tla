------------------------ MODULE ContentWorkflow_proofs ------------------------
(***************************************************************************)
(* Theorems about ContentWorkflow, for any numbers of requests, approvals, *)
(* schedules, versions and overlapping requests.                           *)
(***************************************************************************)
EXTENDS ContentWorkflow, TLAPS

(***************************************************************************)
(* Type correctness.                                                       *)
(***************************************************************************)

\* The memory of a request that ends is of the right type.
LEMMA FinishType ==
  ASSUME TypeOK, NEW r \in Requests, Finish(r)
  PROVE  /\ pc' \in [Requests -> Step]
         /\ seen' \in [Requests -> Draft]
         /\ quick' \in [Requests -> BOOLEAN]
         /\ snapshot' \in [Requests -> [approved : BOOLEAN, bypass : BOOLEAN]]
         /\ made' \in [Requests -> Schedules \cup {NoSchedule}]
BY ConstantsAssumption
   DEF TypeOK, Finish, Goto, NoDraft, NoSnapshot, Draft, DraftState, Version, Step

\* So is that of a request that loads the draft.
LEMMA LoadType ==
  ASSUME TypeOK, NEW r \in Requests, NEW columns \in Draft, NEW step \in Step,
         Load(r, columns, step)
  PROVE  TypeOK'
<1>1. overlaps' \in 0 .. MaxOverlaps
  BY ConstantsAssumption DEF TypeOK, Load, Arrive
<1> QED BY <1>1 DEF TypeOK, Load, Goto, rowVars, taskVars

\* Superseding approvals keeps their type.
LEMMA InvalidateType == TypeOK => InvalidateApprovals \in [Approvals -> Approval]
BY DEF TypeOK, InvalidateApprovals, Approval

\* A dispatch keeps the types of the schedules and the attempts.
LEMMA DispatchType ==
  ASSUME TypeOK, NEW s, DispatchSchedule(s)
  PROVE  /\ schedules' \in [Schedules -> Schedule]
         /\ attempt' \in [Schedules -> {"none", "queued", "client_approval_missing",
                                        "failed", "published"}]
<1>1. CASE UNCHANGED <<schedules, attempt>>
  BY <1>1 DEF TypeOK
<1>2. CASE schedules' = [schedules EXCEPT ![s].state = "failed"] /\ UNCHANGED attempt
  BY <1>2 DEF TypeOK, Schedule
<1>3. ASSUME NEW created \in {"queued", "failed"}, GetOrCreateAttempt(s, created)
      PROVE  /\ schedules' \in [Schedules -> Schedule]
             /\ attempt' \in [Schedules -> {"none", "queued", "client_approval_missing",
                                            "failed", "published"}]
  <2>1. CASE s \in Schedules
    BY <1>3, <2>1 DEF GetOrCreateAttempt, TypeOK, Schedule
  <2>2. CASE s \notin Schedules
    BY <1>3, <2>2 DEF GetOrCreateAttempt, TypeOK
  <2> QED BY <2>1, <2>2
<1> QED BY <1>1, <1>2, <1>3 DEF DispatchSchedule

\* What an attempt leaves in its own row, the schedule's and the draft's has their types.
LEMMA SaveAttemptType ==
  ASSUME TypeOK, NEW s \in Schedules,
         NEW at \in {"none", "queued", "client_approval_missing", "failed", "published"},
         NEW st \in {"dispatching", "published", "failed"}, NEW dr \in DraftState,
         SaveAttempt(s, at, st, dr)
  PROVE  /\ draft' \in Draft
         /\ schedules' \in [Schedules -> Schedule]
         /\ attempt' \in [Schedules -> {"none", "queued", "client_approval_missing",
                                        "failed", "published"}]
<1>1. draft' \in Draft
  BY DEF SaveAttempt, TypeOK, Draft
<1>2. schedules' \in [Schedules -> Schedule]
  BY DEF SaveAttempt, TypeOK, Schedule
<1>3. attempt' \in [Schedules -> {"none", "queued", "client_approval_missing", "failed",
                                 "published"}]
  BY DEF SaveAttempt, TypeOK
<1> QED BY <1>1, <1>2, <1>3

\* Every variable keeps its type (the choices of ContentDraft, ApprovalRequest,
\* ContentSchedule and PublishAttempt), and a request goes from step to step.
THEOREM TypeCorrect == Spec => []TypeOK
<1>1. Init => TypeOK
  <2> SUFFICES ASSUME Init PROVE TypeOK
    OBVIOUS
  <2>0. 0 \in Version /\ 1 \in Version
    BY ConstantsAssumption DEF Version
  <2>1. draft \in Draft /\ versions \in Version
    BY <2>0 DEF Init, NoDraft, Draft, DraftState
  <2>2. approvals \in [Approvals -> Approval] /\ schedules \in [Schedules -> Schedule]
    BY ConstantsAssumption DEF Init, Approval, Schedule, Version
  <2>3. seen \in [Requests -> Draft] /\ overlaps \in 0 .. MaxOverlaps
    BY ConstantsAssumption DEF Init, NoDraft, Draft, DraftState, Version
  <2>4. snapshot \in [Requests -> [approved : BOOLEAN, bypass : BOOLEAN]]
    BY DEF Init, NoSnapshot
  <2>5. /\ attempt \in [Schedules -> {"none", "queued", "client_approval_missing", "failed",
                                     "published"}]
        /\ pc \in [Requests -> Step]
        /\ quick \in [Requests -> BOOLEAN]
        /\ made \in [Requests -> Schedules \cup {NoSchedule}]
        /\ due \subseteq Schedules
        /\ claiming \in Schedules \cup {NoSchedule}
        /\ approved \subseteq Version
        /\ posted \subseteq Version
    BY DEF Init, Step
  <2> QED BY <2>1, <2>2, <2>3, <2>4, <2>5 DEF TypeOK
<1>2. TypeOK /\ [Next]_vars => TypeOK'
  <2> SUFFICES ASSUME TypeOK, [Next]_vars PROVE TypeOK'
    OBVIOUS
  <2> USE DEF rowVars, requestVars, taskVars, history
  <2>0. NoDraft \in Draft /\ ActiveVersion \in Draft
    BY ConstantsAssumption DEF TypeOK, NoDraft, ActiveVersion, Draft, DraftState, Version
  <2>1. ASSUME NEW r \in Requests, PatchDraft(r) PROVE TypeOK'
    BY <2>1, LoadType DEF PatchDraft, TypeOK, Step
  <2>2. ASSUME NEW r \in Requests, SavePatch(r) PROVE TypeOK'
    <3>1. draft' \in Draft
      BY <2>2, ConstantsAssumption DEF SavePatch, TypeOK, Draft, Version
    <3>2. CASE Finish(r)
      BY <2>2, <3>1, <3>2, FinishType DEF SavePatch, TypeOK
    <3>3. CASE Goto(r, "invalidate") /\ UNCHANGED <<seen, quick, snapshot, made>>
      BY <2>2, <3>1, <3>3 DEF SavePatch, TypeOK, Goto, Step
    <3> QED BY <2>2, <3>2, <3>3 DEF SavePatch
  <2>3. ASSUME NEW r \in Requests, InvalidateAfterPatch(r) PROVE TypeOK'
    BY <2>3, FinishType, InvalidateType DEF InvalidateAfterPatch, TypeOK
  <2>4. ASSUME NEW r \in Requests, CreateVersion(r) PROVE TypeOK'
    <3>1. [NoDraft EXCEPT !.state = draft.state] \in Draft
      BY <2>0 DEF TypeOK, Draft
    <3> QED BY <2>4, <3>1, LoadType DEF CreateVersion, Step
  <2>5. ASSUME NEW r \in Requests, SaveVersion(r) PROVE TypeOK'
    <3>1. versions' \in Version /\ draft' \in Draft
      BY <2>5, ConstantsAssumption DEF SaveVersion, TypeOK, Draft, Version
    <3> QED BY <2>5, <3>1, FinishType, InvalidateType DEF SaveVersion, TypeOK
  <2>6. ASSUME NEW r \in Requests, SubmitInternalReview(r) PROVE TypeOK'
    BY <2>0, <2>6, LoadType DEF SubmitInternalReview, Step
  <2>7. ASSUME NEW r \in Requests, SubmitClientReview(r) PROVE TypeOK'
    BY <2>0, <2>7, LoadType DEF SubmitClientReview, Step
  <2>8. ASSUME NEW r \in Requests, CreateApprovalRequest(r) PROVE TypeOK'
    <3>1. approvals' \in [Approvals -> Approval]
      BY <2>8 DEF CreateApprovalRequest, TypeOK, Approval, Draft
    <3> QED BY <2>0, <2>8, <3>1 DEF CreateApprovalRequest, TypeOK, Goto, Step
  <2>9. ASSUME NEW r \in Requests, EnterState(r) PROVE TypeOK'
    <3>1. draft' \in Draft
      BY <2>9 DEF EnterState, EnteredState, TypeOK, Draft, DraftState
    <3> QED BY <2>9, <3>1, FinishType DEF EnterState, TypeOK
  <2>10. ASSUME NEW a \in Approvals, NEW decision \in {"approved", "changes_requested"},
                Decide(a, decision)
         PROVE  TypeOK'
    <3>1. draft' \in Draft
      BY <2>10 DEF Decide, DecidedState, TypeOK, Draft, DraftState
    <3>2. approvals' \in [Approvals -> Approval]
      BY <2>10 DEF Decide, TypeOK, Approval
    <3>3. approved' \subseteq Version
      BY <2>10 DEF Decide, TypeOK, Approval
    <3> QED BY <2>10, <3>1, <3>2, <3>3 DEF Decide, TypeOK
  <2>11. ASSUME NEW r \in Requests, ScheduleDraft(r) PROVE TypeOK'
    BY <2>0, <2>11, LoadType DEF ScheduleDraft, Step
  <2>12. ASSUME NEW r \in Requests, PublishNow(r) PROVE TypeOK'
    <3>1. overlaps' \in 0 .. MaxOverlaps
      BY <2>12, ConstantsAssumption DEF PublishNow, Arrive, TypeOK
    <3> QED BY <2>0, <2>12, <3>1 DEF PublishNow, TypeOK, Goto, Step
  <2>13. ASSUME NEW r \in Requests, CheckApproval(r) PROVE TypeOK'
    <3>1. CASE Finish(r)
      BY <2>13, <3>1, FinishType DEF CheckApproval, TypeOK
    <3>2. CASE /\ Goto(r, IF quick[r] THEN "snapshot" ELSE "validate")
               /\ UNCHANGED <<seen, quick, snapshot, made>>
      BY <2>13, <3>2 DEF CheckApproval, TypeOK, Goto, Step
    <3> QED BY <2>13, <3>1, <3>2 DEF CheckApproval
  <2>14. ASSUME NEW r \in Requests, ValidateSchedule(r) PROVE TypeOK'
    <3>1. CASE Finish(r)
      BY <2>14, <3>1, FinishType DEF ValidateSchedule, TypeOK
    <3>2. CASE Goto(r, "snapshot") /\ UNCHANGED <<seen, quick, snapshot, made>>
      BY <2>14, <3>2 DEF ValidateSchedule, TypeOK, Goto, Step
    <3> QED BY <2>14, <3>1, <3>2 DEF ValidateSchedule
  <2>15. ASSUME NEW r \in Requests, ApprovalSnapshot(r) PROVE TypeOK'
    <3>1. HasCurrentClientApproval(seen[r].active) \in BOOLEAN
      BY DEF HasCurrentClientApproval
    <3> QED BY <2>15, <3>1 DEF ApprovalSnapshot, TypeOK, Goto, Step
  <2>16. ASSUME NEW r \in Requests, CreateSchedule(r) PROVE TypeOK'
    <3>1. schedules' \in [Schedules -> Schedule]
      BY <2>16 DEF CreateSchedule, TypeOK, Schedule, Draft
    <3> QED BY <2>0, <2>16, <3>1 DEF CreateSchedule, TypeOK, Goto, Step, NoSnapshot
  <2>17. ASSUME NEW r \in Requests, EnterScheduled(r) PROVE TypeOK'
    <3>1. draft' \in Draft
      BY <2>17 DEF EnterScheduled, TypeOK, Draft, DraftState
    <3>2. CASE Finish(r)
      BY <2>17, <3>1, <3>2, FinishType DEF EnterScheduled, TypeOK
    <3>3. CASE Goto(r, "dispatch") /\ UNCHANGED <<seen, quick, snapshot, made>>
      BY <2>17, <3>1, <3>3 DEF EnterScheduled, TypeOK, Goto, Step
    <3> QED BY <2>17, <3>2, <3>3 DEF EnterScheduled
  <2>18. ASSUME NEW r \in Requests, DispatchNow(r) PROVE TypeOK'
    BY <2>18, DispatchType, FinishType DEF DispatchNow, TypeOK
  <2>19. ASSUME NEW r \in Requests, Unschedule(r) PROVE TypeOK'
    BY <2>0, <2>19, LoadType DEF Unschedule, Step
  <2>20. ASSUME NEW r \in Requests, CancelSchedules(r) PROVE TypeOK'
    <3>1. schedules' \in [Schedules -> Schedule]
      BY <2>20 DEF CancelSchedules, TypeOK, Schedule
    <3>2. CASE Finish(r)
      BY <2>20, <3>1, <3>2, FinishType DEF CancelSchedules, TypeOK
    <3>3. CASE Goto(r, "enter_approved") /\ UNCHANGED <<seen, quick, snapshot, made>>
      BY <2>20, <3>1, <3>3 DEF CancelSchedules, TypeOK, Goto, Step
    <3> QED BY <2>20, <3>2, <3>3 DEF CancelSchedules
  <2>21. ASSUME NEW r \in Requests, Abort(r) PROVE TypeOK'
    BY <2>21, FinishType DEF Abort, TypeOK
  <2>22. CASE ScanDueSchedules
    BY <2>22 DEF ScanDueSchedules, TypeOK
  <2>23. CASE DispatchDueSchedule
    BY <2>23, DispatchType DEF DispatchDueSchedule, TypeOK
  <2>24. ASSUME NEW s \in Schedules, PreflightAttempt(s) PROVE TypeOK'
    <3>1. CASE claiming' = s /\ UNCHANGED <<attempt, schedules, draft>>
      BY <2>24, <3>1 DEF PreflightAttempt, TypeOK
    <3>2. CASE /\ \/ SaveAttempt(s, "client_approval_missing", "failed", "failed")
                  \/ SaveAttempt(s, "failed", "failed", "failed")
               /\ UNCHANGED claiming
      BY <2>24, <3>2, SaveAttemptType DEF PreflightAttempt, TypeOK, DraftState
    <3> QED BY <2>24, <3>1, <3>2 DEF PreflightAttempt
  <2>25. CASE PublishAttempt
    <3>1. posted' \subseteq Version /\ claiming' \in Schedules \cup {NoSchedule}
      BY <2>25 DEF PublishAttempt, TypeOK, Schedule
    <3>2. claiming \in Schedules
      BY <2>25 DEF PublishAttempt, TypeOK
    <3>3. \E at \in {"queued", "failed", "published"},
             st \in {"dispatching", "published", "failed"},
             dr \in DraftState : SaveAttempt(claiming, at, st, dr)
      BY <2>25 DEF PublishAttempt, DraftState
    <3>4. /\ draft' \in Draft
          /\ schedules' \in [Schedules -> Schedule]
          /\ attempt' \in [Schedules -> {"none", "queued", "client_approval_missing",
                                         "failed", "published"}]
      BY <3>2, <3>3, SaveAttemptType
    <3> QED BY <2>25, <3>1, <3>4 DEF PublishAttempt, TypeOK
  <2>26. CASE UNCHANGED vars
    BY <2>26 DEF vars, TypeOK
  <2> QED
    BY <2>1, <2>2, <2>3, <2>4, <2>5, <2>6, <2>7, <2>8, <2>9, <2>10, <2>11, <2>12, <2>13,
       <2>14, <2>15, <2>16, <2>17, <2>18, <2>19, <2>20, <2>21, <2>22, <2>23, <2>24, <2>25,
       <2>26
       DEF Next, Request
<1> QED BY <1>1, <1>2, PTL DEF Spec

(***************************************************************************)
(* What a dispatch, and later the attempt, may do to a schedule.           *)
(***************************************************************************)

\* A schedule that is not dispatched has no attempt; the attempt past its preflight still
\* waits.
AttemptsFollowDispatch ==
  /\ \A s \in Schedules :
       schedules[s].state \in {"none", "scheduled", "cancelled"} => attempt[s] = "none"
  /\ claiming # NoSchedule => attempt[claiming] = "queued"

\* How a step before publication changes a schedule and its attempt: it does not, it creates
\* the row, cancels it or dispatches it.
EarlyMove(s) ==
  \/ schedules'[s] = schedules[s] /\ attempt'[s] = attempt[s]
  \/ schedules[s].state = "none" /\ schedules'[s].state = "scheduled"
       /\ attempt'[s] = attempt[s]
  \/ schedules[s].state = "scheduled" /\ schedules'[s].state = "cancelled"
       /\ attempt'[s] = attempt[s]
  \/ schedules[s].state = "scheduled" /\ schedules'[s].state \in {"failed", "dispatching"}
       /\ attempt'[s] \in {attempt[s], "queued", "failed"}

\* How any step does: its waiting attempt may also come to an end or be tried again.
Move(s) ==
  \/ EarlyMove(s)
  \/ attempt[s] = "queued" /\ schedules'[s].state \in {"failed", "dispatching", "published"}

\* What the step does to the claim: nothing, or the attempt it is left with waits.
ClaimMove == claiming' # NoSchedule => attempt'[claiming'] = "queued"

\* A dispatch moves a schedule that is still scheduled, and only that one.
LEMMA DispatchMoves ==
  ASSUME TypeOK, NEW s, DispatchSchedule(s), NEW t \in Schedules
  PROVE  EarlyMove(t)
<1>1. CASE UNCHANGED <<schedules, attempt>>
  BY <1>1 DEF EarlyMove
<1>2. CASE /\ MayDispatch(s) /\ UNCHANGED attempt
           /\ schedules' = [schedules EXCEPT ![s].state = "failed"]
  BY <1>2 DEF EarlyMove, MayDispatch, TypeOK, Schedule
<1>3. ASSUME NEW created \in {"queued", "failed"}, MayDispatch(s), GetOrCreateAttempt(s, created)
      PROVE  EarlyMove(t)
  <2>1. CASE t = s
    BY <1>3, <2>1 DEF GetOrCreateAttempt, MayDispatch, EarlyMove, TypeOK, Schedule
  <2>2. CASE t # s
    BY <1>3, <2>2 DEF GetOrCreateAttempt, EarlyMove, TypeOK
  <2> QED BY <2>1, <2>2
<1> QED BY <1>1, <1>2, <1>3 DEF DispatchSchedule

\* Every step moves every schedule in one of these ways.
LEMMA StepMoves ==
  ASSUME TypeOK, AttemptsFollowDispatch, [Next]_vars, NEW t \in Schedules
  PROVE  /\ Move(t)
         /\ (EarlyMove(t) /\ claiming' = claiming) \/ ClaimMove
<1> USE DEF rowVars, requestVars, taskVars, history
<1>1. CASE UNCHANGED <<schedules, attempt, claiming>>
  BY <1>1 DEF EarlyMove, Move
<1>2. ASSUME NEW r \in Requests, CreateSchedule(r) PROVE EarlyMove(t) /\ claiming' = claiming
  BY <1>2 DEF CreateSchedule, EarlyMove, TypeOK
<1>3. ASSUME NEW r \in Requests, DispatchNow(r) PROVE EarlyMove(t) /\ claiming' = claiming
  BY <1>3, DispatchMoves DEF DispatchNow
<1>4. ASSUME NEW r \in Requests, CancelSchedules(r) PROVE EarlyMove(t) /\ claiming' = claiming
  BY <1>4 DEF CancelSchedules, EarlyMove, TypeOK, Schedule
<1>5. CASE DispatchDueSchedule
  <2>1. EarlyMove(t) /\ claiming' = claiming
    BY <1>5, DispatchMoves DEF DispatchDueSchedule
  <2> QED BY <2>1 DEF Move
<1>6. ASSUME NEW s \in Schedules, PreflightAttempt(s) PROVE Move(t) /\ ClaimMove
  BY <1>6 DEF PreflightAttempt, SaveAttempt, EarlyMove, Move, ClaimMove, TypeOK, Schedule
<1>7. CASE PublishAttempt
  <2>1. ClaimMove
    BY <1>7 DEF PublishAttempt, ClaimMove
  <2>2. Move(t)
    BY <1>7 DEF PublishAttempt, SaveAttempt, EarlyMove, Move, AttemptsFollowDispatch, TypeOK,
                Schedule
  <2> QED BY <2>1, <2>2
<1>8. ASSUME NEW r \in Requests, Request(r)
      PROVE  Move(t) /\ ((EarlyMove(t) /\ claiming' = claiming) \/ ClaimMove)
  <2>1. CASE CreateSchedule(r) \/ DispatchNow(r) \/ CancelSchedules(r)
    BY <1>2, <1>3, <1>4, <2>1 DEF Move
  <2>2. CASE ~(CreateSchedule(r) \/ DispatchNow(r) \/ CancelSchedules(r))
    BY <1>1, <1>8, <2>2
       DEF Request, PatchDraft, SavePatch, InvalidateAfterPatch, CreateVersion, SaveVersion,
           SubmitInternalReview, SubmitClientReview, CreateApprovalRequest, EnterState,
           ScheduleDraft, PublishNow, CheckApproval, ValidateSchedule, ApprovalSnapshot,
           EnterScheduled, Unschedule, Abort, Load
  <2> QED BY <2>1, <2>2
<1>9. CASE UNCHANGED vars
  BY <1>1, <1>9 DEF vars
<1> QED
  BY <1>1, <1>5, <1>6, <1>7, <1>8, <1>9 DEF Next, Decide, ScanDueSchedules

\* The invariant is inductive, next to the types.
LEMMA AttemptsFollowDispatchStep ==
  TypeOK /\ TypeOK' /\ AttemptsFollowDispatch /\ [Next]_vars => AttemptsFollowDispatch'
<1> SUFFICES ASSUME TypeOK, TypeOK', AttemptsFollowDispatch, [Next]_vars
             PROVE  AttemptsFollowDispatch'
  OBVIOUS
<1>1. ASSUME NEW t \in Schedules,
             schedules'[t].state \in {"none", "scheduled", "cancelled"}
      PROVE  attempt'[t] = "none"
  BY <1>1, StepMoves DEF EarlyMove, Move, AttemptsFollowDispatch
<1>2. ASSUME claiming' # NoSchedule PROVE attempt'[claiming'] = "queued"
  <2>1. CASE ClaimMove
    BY <1>2, <2>1 DEF ClaimMove
  <2>2. CASE ~ClaimMove
    <3>1. claiming' \in Schedules
      BY <1>2 DEF TypeOK
    <3>2. EarlyMove(claiming') /\ claiming' = claiming
      BY <2>2, <3>1, StepMoves
    <3>3. attempt[claiming] = "queued" /\ attempt'[claiming] = attempt[claiming]
      BY <1>2, <3>1, <3>2 DEF EarlyMove, AttemptsFollowDispatch
    <3> QED BY <3>2, <3>3
  <2> QED BY <2>1, <2>2
<1> QED BY <1>1, <1>2 DEF AttemptsFollowDispatch

\* It holds throughout.
LEMMA AttemptsFollowDispatchAlways == Spec => []AttemptsFollowDispatch
<1>1. Init => AttemptsFollowDispatch
  BY DEF Init, AttemptsFollowDispatch
<1>2. TypeOK /\ TypeOK' /\ AttemptsFollowDispatch /\ [Next]_vars => AttemptsFollowDispatch'
  BY AttemptsFollowDispatchStep
<1> QED BY <1>1, <1>2, TypeCorrect, PTL DEF Spec

\* A schedule is dispatched once (_dispatch_schedule looks at the state it finds under the
\* lock): one that was cancelled, failed or has ended is never touched again.
THEOREM DispatchesOnce == Spec => DispatchedOnce
<1>1. TypeOK /\ AttemptsFollowDispatch /\ [Next]_vars
        => [\A s \in Schedules :
              schedules[s].state \notin {"none", "scheduled"} /\ attempt[s] # "queued"
                => schedules'[s] = schedules[s] /\ attempt'[s] = attempt[s]]_vars
  BY StepMoves DEF EarlyMove, Move
<1> QED BY <1>1, TypeCorrect, AttemptsFollowDispatchAlways, PTL DEF Spec, DispatchedOnce

(***************************************************************************)
(* Decisions.                                                              *)
(***************************************************************************)

\* How a step changes one approval request: it does not, it creates or decides it, or
\* supersedes it.
LEMMA ApprovalMoves ==
  ASSUME TypeOK, [Next]_vars, NEW a \in Approvals
  PROVE  \/ approvals'[a] = approvals[a]
         \/ approvals[a].status \in {"not_requested", "pending"}
         \/ approvals'[a] = [approvals[a] EXCEPT !.status = "superseded"]
<1> DEFINE Kept == \/ approvals'[a] = approvals[a]
                   \/ approvals[a].status \in {"not_requested", "pending"}
                   \/ approvals'[a] = [approvals[a] EXCEPT !.status = "superseded"]
<1> USE DEF rowVars, requestVars, taskVars, history
<1>1. CASE approvals' = approvals
  BY <1>1
<1>2. CASE approvals' = InvalidateApprovals
  BY <1>2 DEF InvalidateApprovals
<1>3. ASSUME NEW r \in Requests, CreateApprovalRequest(r) PROVE Kept
  BY <1>3 DEF CreateApprovalRequest, TypeOK
<1>4. ASSUME NEW b \in Approvals, NEW decision \in {"approved", "changes_requested"},
             Decide(b, decision)
      PROVE  Kept
  BY <1>4 DEF Decide, MayDecide, TypeOK
<1>5. ASSUME NEW r \in Requests, Request(r) PROVE Kept
  BY <1>1, <1>2, <1>3, <1>5
     DEF Request, PatchDraft, SavePatch, InvalidateAfterPatch, CreateVersion, SaveVersion,
         SubmitInternalReview, SubmitClientReview, EnterState, ScheduleDraft, PublishNow,
         CheckApproval, ValidateSchedule, ApprovalSnapshot, CreateSchedule, EnterScheduled,
         DispatchNow, Unschedule, CancelSchedules, Abort, Load
<1> QED
  BY <1>1, <1>4, <1>5
     DEF Next, ScanDueSchedules, DispatchDueSchedule, PreflightAttempt, PublishAttempt, vars

\* A decision is taken once (_validate_decision_target on locked rows): an approved,
\* rejected or superseded request is never decided again.
THEOREM DecisionsAreFinal == Spec => DecisionsStand
<1>1. TypeOK /\ [Next]_vars
        => [\A a \in Approvals :
              approvals[a].status \in {"approved", "changes_requested", "superseded"}
                => approvals'[a] \in {approvals[a],
                                      [approvals[a] EXCEPT !.status = "superseded"]}]_vars
  BY ApprovalMoves
<1> QED BY <1>1, TypeCorrect, PTL DEF Spec, DecisionsStand

\* An approval in force stays one for the active version unless a PATCH is saved: a new
\* version supersedes it in its own transaction, and a decision is for the active version.
THEOREM PatchAloneSeparatesApproval == Spec => OnlyPatchSeparatesApproval
<1>1. TypeOK /\ [Next]_vars
        => [ApprovedIsActive /\ (\A r \in Requests : pc[r] = "save_patch" => pc'[r] = pc[r])
              => ApprovedIsActive']_vars
  <2> SUFFICES ASSUME TypeOK, [Next]_vars, ApprovedIsActive,
                      \A r \in Requests : pc[r] = "save_patch" => pc'[r] = pc[r]
               PROVE  ApprovedIsActive'
    OBVIOUS
  <2> USE DEF rowVars, requestVars, taskVars, history
  <2>1. CASE approvals' = approvals /\ draft'.active = draft.active
    BY <2>1 DEF ApprovedIsActive
  <2>2. CASE approvals' = InvalidateApprovals
    BY <2>2 DEF InvalidateApprovals, ApprovedIsActive, TypeOK, Approval
  <2>3. ASSUME NEW r \in Requests, SavePatch(r) PROVE FALSE
    BY <2>3 DEF SavePatch, Goto, Finish, TypeOK
  <2>4. ASSUME NEW r \in Requests, CreateApprovalRequest(r) PROVE ApprovedIsActive'
    BY <2>4 DEF CreateApprovalRequest, ApprovedIsActive, TypeOK
  <2>5. ASSUME NEW a \in Approvals, NEW decision \in {"approved", "changes_requested"},
               Decide(a, decision)
        PROVE  ApprovedIsActive'
    <3>1. draft'.active = draft.active /\ draft.active = approvals[a].version
      BY <2>5 DEF Decide, MayDecide, TypeOK, Draft
    <3>2. \A b \in Approvals : approvals'[b].version = approvals[b].version
      BY <2>5 DEF Decide, TypeOK, Approval
    <3>3. \A b \in Approvals : b # a => approvals'[b] = approvals[b]
      BY <2>5 DEF Decide, TypeOK
    <3> QED BY <3>1, <3>2, <3>3 DEF ApprovedIsActive
  <2>6. ASSUME NEW r \in Requests, EnterState(r) \/ EnterScheduled(r) PROVE ApprovedIsActive'
    BY <2>1, <2>6 DEF EnterState, EnterScheduled, TypeOK, Draft
  <2>7. ASSUME NEW s \in Schedules, PreflightAttempt(s) PROVE ApprovedIsActive'
    BY <2>1, <2>7 DEF PreflightAttempt, SaveAttempt, TypeOK, Draft
  <2>8. CASE PublishAttempt
    BY <2>1, <2>8 DEF PublishAttempt, SaveAttempt, TypeOK, Draft
  <2>9. ASSUME NEW r \in Requests, Request(r) PROVE ApprovedIsActive'
    BY <2>1, <2>2, <2>3, <2>4, <2>6, <2>9
       DEF Request, PatchDraft, InvalidateAfterPatch, CreateVersion, SaveVersion,
           SubmitInternalReview, SubmitClientReview, ScheduleDraft, PublishNow, CheckApproval,
           ValidateSchedule, ApprovalSnapshot, CreateSchedule, DispatchNow, Unschedule,
           CancelSchedules, Abort, Load
  <2> QED
    BY <2>1, <2>5, <2>7, <2>8, <2>9 DEF Next, ScanDueSchedules, DispatchDueSchedule, vars
<1> QED BY <1>1, TypeCorrect, PTL DEF Spec, OnlyPatchSeparatesApproval

(***************************************************************************)
(* From a client's approval to the provider.                               *)
(***************************************************************************)

\* Every copy of a client approval on the way (the request row, the snapshot a request
\* builds, the schedule's snapshot, the attempt past preflight) is of a version a client
\* approved.
ApprovalsCarried ==
  /\ \A a \in Approvals :
       approvals[a].reviewer = "client" /\ approvals[a].status = "approved"
         => approvals[a].version \in approved
  /\ \A r \in Requests :
       snapshot[r].approved => pc[r] = "create" /\ seen[r].active \in approved
  /\ \A s \in Schedules : schedules[s].approved => schedules[s].version \in approved
  /\ claiming # NoSchedule => schedules[claiming].approved
  /\ posted \subseteq approved

\* The approvals a request finds are of approved versions.
LEMMA CurrentApproval ==
  ASSUME ApprovalsCarried, NEW v, HasCurrentClientApproval(v)
  PROVE  v \in approved
BY DEF ApprovalsCarried, HasCurrentClientApproval

\* approved only grows.
LEMMA ApprovedGrows == [Next]_vars => approved \subseteq approved'
BY DEF Next, Request, PatchDraft, SavePatch, InvalidateAfterPatch, CreateVersion, SaveVersion,
       SubmitInternalReview, SubmitClientReview, CreateApprovalRequest, EnterState, Decide,
       ScheduleDraft, PublishNow, CheckApproval, ValidateSchedule, ApprovalSnapshot,
       CreateSchedule, EnterScheduled, DispatchNow, Unschedule, CancelSchedules, Abort, Load,
       ScanDueSchedules, DispatchDueSchedule, PreflightAttempt, PublishAttempt, vars, history

\* A dispatch touches neither a schedule's version nor its snapshot.
LEMMA DispatchKeepsSnapshot ==
  ASSUME TypeOK, NEW s, DispatchSchedule(s), NEW t \in Schedules
  PROVE  /\ schedules'[t].version = schedules[t].version
         /\ schedules'[t].approved = schedules[t].approved
<1>1. CASE UNCHANGED schedules
  BY <1>1
<1>2. ASSUME NEW st, schedules' = [schedules EXCEPT ![s].state = st]
      PROVE  /\ schedules'[t].version = schedules[t].version
             /\ schedules'[t].approved = schedules[t].approved
  <2>1. CASE t = s
    BY <1>2, <2>1 DEF TypeOK, Schedule
  <2>2. CASE t # s
    BY <1>2, <2>2 DEF TypeOK
  <2> QED BY <2>1, <2>2
<1> QED BY <1>1, <1>2 DEF DispatchSchedule, GetOrCreateAttempt

\* A schedule's snapshot is written once, when its row is created, from a snapshot that
\* holds a client approval only of an approved version.
LEMMA SnapshotMoves ==
  ASSUME TypeOK, ApprovalsCarried, [Next]_vars, NEW t \in Schedules
  PROVE  \/ /\ schedules'[t].version = schedules[t].version
            /\ schedules'[t].approved = schedules[t].approved
         \/ /\ schedules[t].state = "none" /\ claiming' = claiming
            /\ schedules'[t].approved => schedules'[t].version \in approved
<1> DEFINE Kept == /\ schedules'[t].version = schedules[t].version
                   /\ schedules'[t].approved = schedules[t].approved
           Created == /\ schedules[t].state = "none" /\ claiming' = claiming
                      /\ schedules'[t].approved => schedules'[t].version \in approved
<1> USE DEF rowVars, requestVars, taskVars, history
<1>1. CASE schedules' = schedules
  BY <1>1
<1>2. ASSUME NEW r \in Requests, CreateSchedule(r) PROVE Kept \/ Created
  BY <1>2 DEF CreateSchedule, ApprovalsCarried, TypeOK
<1>3. ASSUME NEW r \in Requests, DispatchNow(r) PROVE Kept
  BY <1>3, DispatchKeepsSnapshot DEF DispatchNow
<1>4. ASSUME NEW r \in Requests, CancelSchedules(r) PROVE Kept
  BY <1>4 DEF CancelSchedules, TypeOK, Schedule
<1>5. CASE DispatchDueSchedule
  BY <1>5, DispatchKeepsSnapshot DEF DispatchDueSchedule
<1>6. ASSUME NEW s, NEW st, schedules' = [schedules EXCEPT ![s].state = st] PROVE Kept
  BY <1>6 DEF TypeOK, Schedule
<1>7. CASE PublishAttempt
  BY <1>6, <1>7 DEF PublishAttempt, SaveAttempt
<1>8. ASSUME NEW r \in Requests, Request(r) PROVE Kept \/ Created
  BY <1>1, <1>2, <1>3, <1>4, <1>8
     DEF Request, PatchDraft, SavePatch, InvalidateAfterPatch, CreateVersion, SaveVersion,
         SubmitInternalReview, SubmitClientReview, CreateApprovalRequest, EnterState,
         ScheduleDraft, PublishNow, CheckApproval, ValidateSchedule, ApprovalSnapshot,
         EnterScheduled, Unschedule, Abort, Load
<1>9. ASSUME NEW s \in Schedules, PreflightAttempt(s) PROVE Kept
  BY <1>1, <1>6, <1>9 DEF PreflightAttempt, SaveAttempt
<1> QED
  BY <1>1, <1>5, <1>7, <1>8, <1>9 DEF Next, Decide, ScanDueSchedules, vars

\* The first conjunct: the request rows.
LEMMA RowsCarried ==
  ASSUME TypeOK, ApprovalsCarried, [Next]_vars, NEW a \in Approvals,
         approvals'[a].reviewer = "client", approvals'[a].status = "approved"
  PROVE  approvals'[a].version \in approved'
<1> USE DEF rowVars, requestVars, taskVars, history
<1>1. CASE approvals'[a] = approvals[a]
  BY <1>1, ApprovedGrows DEF ApprovalsCarried
<1>2. CASE approvals' = InvalidateApprovals
  BY <1>2 DEF InvalidateApprovals, TypeOK, Approval
<1>3. ASSUME NEW r \in Requests, CreateApprovalRequest(r)
      PROVE  approvals'[a].version \in approved'
  BY <1>1, <1>3 DEF CreateApprovalRequest, TypeOK
<1>4. ASSUME NEW b \in Approvals, NEW decision \in {"approved", "changes_requested"},
             Decide(b, decision)
      PROVE  approvals'[a].version \in approved'
  <2>1. CASE a = b
    BY <1>4, <2>1 DEF Decide, TypeOK, Approval
  <2>2. CASE a # b
    BY <1>1, <1>4, <2>2 DEF Decide, TypeOK
  <2> QED BY <2>1, <2>2
<1>5. ASSUME NEW r \in Requests, Request(r) PROVE approvals'[a].version \in approved'
  BY <1>1, <1>2, <1>3, <1>5
     DEF Request, PatchDraft, SavePatch, InvalidateAfterPatch, CreateVersion, SaveVersion,
         SubmitInternalReview, SubmitClientReview, EnterState, ScheduleDraft, PublishNow,
         CheckApproval, ValidateSchedule, ApprovalSnapshot, CreateSchedule, EnterScheduled,
         DispatchNow, Unschedule, CancelSchedules, Abort, Load
<1> QED
  BY <1>1, <1>4, <1>5
     DEF Next, ScanDueSchedules, DispatchDueSchedule, PreflightAttempt, PublishAttempt, vars

\* The second: the snapshot a request builds.
LEMMA MemoryCarried ==
  ASSUME TypeOK, ApprovalsCarried, [Next]_vars, NEW q \in Requests, snapshot'[q].approved
  PROVE  pc'[q] = "create" /\ seen'[q].active \in approved'
<1> DEFINE Goal == pc'[q] = "create" /\ seen'[q].active \in approved'
<1> USE DEF rowVars, requestVars, taskVars, history
<1>1. CASE /\ snapshot'[q].approved = snapshot[q].approved
           /\ pc'[q] = pc[q] /\ seen'[q] = seen[q]
  BY <1>1, ApprovedGrows DEF ApprovalsCarried
<1>2. ASSUME NEW r \in Requests, Finish(r) PROVE Goal
  BY <1>1, <1>2 DEF Finish, Goto, NoSnapshot, TypeOK
<1>3. ASSUME NEW r \in Requests, NEW columns, NEW step, Load(r, columns, step) PROVE Goal
  BY <1>1, <1>3 DEF Load, Arrive, Goto, ApprovalsCarried, TypeOK
<1>4. ASSUME NEW r \in Requests, PublishNow(r) PROVE Goal
  <2>1. pc[r] = "idle" /\ ~snapshot[r].approved
    BY <1>4 DEF PublishNow, Arrive, ApprovalsCarried
  <2>2. PICK bypass \in BOOLEAN : snapshot' = [snapshot EXCEPT ![r].bypass = bypass]
    BY <1>4 DEF PublishNow
  <2>3. q # r
    BY <2>1, <2>2 DEF TypeOK
  <2> QED BY <1>1, <1>4, <2>2, <2>3 DEF PublishNow, Goto, TypeOK
<1>5. ASSUME NEW r \in Requests, ApprovalSnapshot(r) PROVE Goal
  <2>1. CASE q = r
    <3>1. HasCurrentClientApproval(seen[r].active)
      BY <1>5, <2>1 DEF ApprovalSnapshot, TypeOK
    <3> QED BY <1>5, <2>1, <3>1, CurrentApproval DEF ApprovalSnapshot, Goto, TypeOK
  <2>2. CASE q # r
    BY <1>1, <1>5, <2>2 DEF ApprovalSnapshot, Goto, TypeOK
  <2> QED BY <2>1, <2>2
<1>6. ASSUME NEW r \in Requests, CreateSchedule(r) PROVE Goal
  BY <1>1, <1>6 DEF CreateSchedule, Goto, NoSnapshot, TypeOK
<1>7. ASSUME NEW r \in Requests, CreateApprovalRequest(r) PROVE Goal
  BY <1>1, <1>7 DEF CreateApprovalRequest, Goto, ApprovalsCarried, TypeOK
<1>8. ASSUME NEW r \in Requests, NEW step,
             pc[r] # "create", Goto(r, step), UNCHANGED <<seen, quick, snapshot, made>>
      PROVE  Goal
  BY <1>1, <1>8 DEF Goto, ApprovalsCarried, TypeOK
<1>9. ASSUME NEW r \in Requests, Request(r) PROVE Goal
  <2>1. CASE \/ SavePatch(r) \/ CheckApproval(r) \/ ValidateSchedule(r)
             \/ EnterScheduled(r) \/ CancelSchedules(r)
    BY <1>2, <1>8, <2>1
       DEF SavePatch, CheckApproval, ValidateSchedule, EnterScheduled, CancelSchedules
  <2>2. CASE \/ InvalidateAfterPatch(r) \/ SaveVersion(r) \/ EnterState(r) \/ DispatchNow(r)
             \/ Abort(r)
    BY <1>2, <2>2 DEF InvalidateAfterPatch, SaveVersion, EnterState, DispatchNow, Abort
  <2>3. CASE \/ PatchDraft(r) \/ CreateVersion(r) \/ SubmitInternalReview(r)
             \/ SubmitClientReview(r) \/ ScheduleDraft(r) \/ Unschedule(r)
    BY <1>3, <2>3
       DEF PatchDraft, CreateVersion, SubmitInternalReview, SubmitClientReview,
           ScheduleDraft, Unschedule
  <2> QED BY <1>4, <1>5, <1>6, <1>7, <1>9, <2>1, <2>2, <2>3 DEF Request
<1> QED
  BY <1>1, <1>9
     DEF Next, Decide, ScanDueSchedules, DispatchDueSchedule, PreflightAttempt,
         PublishAttempt, vars

\* The last two: the claimed attempt's schedule and what the provider was handed.
LEMMA ClaimCarried ==
  ASSUME TypeOK, TypeOK', AttemptsFollowDispatch, ApprovalsCarried, [Next]_vars
  PROVE  /\ claiming' # NoSchedule => schedules'[claiming'].approved
         /\ posted' \subseteq approved'
<1> USE DEF rowVars, requestVars, taskVars, history
<1>1. CASE claiming' = claiming /\ posted' = posted
  <2>1. posted' \subseteq approved'
    BY <1>1, ApprovedGrows DEF ApprovalsCarried
  <2>2. ASSUME claiming # NoSchedule PROVE schedules'[claiming].approved
    <3>1. claiming \in Schedules /\ schedules[claiming].state # "none"
      BY <2>2 DEF AttemptsFollowDispatch, TypeOK
    <3> QED BY <2>2, <3>1, SnapshotMoves DEF ApprovalsCarried
  <2> QED BY <1>1, <2>1, <2>2
<1>2. ASSUME NEW s \in Schedules, PreflightAttempt(s)
      PROVE  /\ claiming' # NoSchedule => schedules'[claiming'].approved
             /\ posted' \subseteq approved'
  BY <1>1, <1>2 DEF PreflightAttempt, ApprovalSnapshotIsValid, ApprovalsCarried, TypeOK
<1>3. CASE PublishAttempt
  BY <1>3, ApprovedGrows DEF PublishAttempt, ApprovalsCarried, TypeOK
<1>4. ASSUME NEW r \in Requests, Request(r) PROVE claiming' = claiming /\ posted' = posted
  BY <1>4
     DEF Request, PatchDraft, SavePatch, InvalidateAfterPatch, CreateVersion, SaveVersion,
         SubmitInternalReview, SubmitClientReview, CreateApprovalRequest, EnterState,
         ScheduleDraft, PublishNow, CheckApproval, ValidateSchedule, ApprovalSnapshot,
         CreateSchedule, EnterScheduled, DispatchNow, Unschedule, CancelSchedules, Abort, Load
<1> QED
  BY <1>1, <1>2, <1>3, <1>4 DEF Next, Decide, ScanDueSchedules, DispatchDueSchedule, vars

\* The invariant holds.
LEMMA ApprovalsCarriedAlways == Spec => []ApprovalsCarried
<1>1. Init => ApprovalsCarried
  BY DEF Init, ApprovalsCarried, NoSnapshot
<1>2. TypeOK /\ TypeOK' /\ AttemptsFollowDispatch /\ ApprovalsCarried /\ [Next]_vars
        => ApprovalsCarried'
  <2> SUFFICES ASSUME TypeOK, TypeOK', AttemptsFollowDispatch, ApprovalsCarried, [Next]_vars
               PROVE  ApprovalsCarried'
    OBVIOUS
  <2>1. ASSUME NEW s \in Schedules, schedules'[s].approved
        PROVE  schedules'[s].version \in approved'
    BY <2>1, SnapshotMoves, ApprovedGrows DEF ApprovalsCarried
  <2> QED BY <2>1, RowsCarried, MemoryCarried, ClaimCarried DEF ApprovalsCarried
<1> QED BY <1>1, <1>2, TypeCorrect, AttemptsFollowDispatchAlways, PTL DEF Spec

\* Whatever the approval mode, and however stale the copies on the way are, only versions
\* that a client approved are handed to the provider.
THEOREM PostsAreClientApproved == Spec => []PostedWasClientApproved
<1>1. ApprovalsCarried => PostedWasClientApproved
  BY DEF ApprovalsCarried, PostedWasClientApproved
<1> QED BY <1>1, ApprovalsCarriedAlways, PTL

(***************************************************************************)
(* The workflow implements ScheduleLifecycle.                              *)
(***************************************************************************)

\* What the abstract specification sees of a schedule stays as it is.
SameAbstract(s) == AbstractSchedule(s)' = AbstractSchedule(s)

\* A schedule comes to the phase.
Comes(s, phase) == AbstractSchedule(s)' = [AbstractSchedule(s) EXCEPT !.phase = phase]

\* A step in the life of a schedule, in the terms of the abstract specification.
LifeStep(s) ==
  LET now == AbstractSchedule(s) IN
  \/ /\ \/ SameAbstract(s)
        \/ /\ now.phase = "none"
           /\ \E v \in Version, ok \in BOOLEAN :
                /\ ok => v \in approved
                /\ AbstractSchedule(s)' = [phase |-> "scheduled", version |-> v, vouched |-> ok]
        \/ now.phase = "scheduled" /\ Comes(s, "queued")
        \/ now.phase \in {"scheduled", "queued"} /\ Comes(s, "ended")
     /\ UNCHANGED <<approved, posted>>
  \/ /\ now.phase = "queued" /\ now.vouched
     /\ SameAbstract(s) \/ Comes(s, "ended")
     /\ posted' = posted \cup {now.version} /\ UNCHANGED approved

\* A step in the life of one schedule is a step of the abstract specification.
LEMMA LifeStepIsLifecycle ==
  ASSUME NEW b \in Schedules, LifeStep(b), \A s \in Schedules \ {b} : SameAbstract(s)
  PROVE  [Lifecycle!Next]_(Lifecycle!vars)
<1> DEFINE sch == [s \in Schedules |-> AbstractSchedule(s)]
<1>1. sch[b] = AbstractSchedule(b)
  OBVIOUS
<1>2. sch' = [sch EXCEPT ![b] = AbstractSchedule(b)']
  BY DEF SameAbstract
<1>3. SameAbstract(b) => sch' = sch
  BY DEF SameAbstract
<1>4. \A phase : Comes(b, phase) => sch' = [sch EXCEPT ![b].phase = phase]
  BY <1>1, <1>2 DEF Comes
<1>5. sch' = [sch EXCEPT ![b].phase = "ended"]
        => sch' = [s \in Schedules |->
                     IF s \in {b} THEN [sch[s] EXCEPT !.phase = "ended"] ELSE sch[s]]
  OBVIOUS
<1> HIDE DEF sch
<1>6. \/ UNCHANGED <<sch, approved, posted>>
      \/ /\ sch[b].phase = "none"
         /\ \E v \in Version, ok \in BOOLEAN :
              /\ ok => v \in approved
              /\ sch' = [sch EXCEPT ![b] = [phase |-> "scheduled", version |-> v, vouched |-> ok]]
         /\ UNCHANGED <<approved, posted>>
      \/ /\ sch[b].phase = "scheduled" /\ sch' = [sch EXCEPT ![b].phase = "queued"]
         /\ UNCHANGED <<approved, posted>>
      \/ /\ sch[b].phase \in {"scheduled", "queued"} /\ sch' = [sch EXCEPT ![b].phase = "ended"]
         /\ UNCHANGED <<approved, posted>>
      \/ /\ sch[b].phase = "queued" /\ sch[b].vouched
         /\ sch' \in {sch, [sch EXCEPT ![b].phase = "ended"]}
         /\ posted' = posted \cup {sch[b].version} /\ UNCHANGED approved
  BY <1>1, <1>2, <1>3, <1>4 DEF LifeStep
<1>7. (UNCHANGED <<sch, approved, posted>>) => UNCHANGED Lifecycle!vars
  BY DEF sch, Lifecycle!vars
<1>8. /\ sch[b].phase = "none"
      /\ \E v \in Version, ok \in BOOLEAN :
           /\ ok => v \in approved
           /\ sch' = [sch EXCEPT ![b] = [phase |-> "scheduled", version |-> v, vouched |-> ok]]
      /\ UNCHANGED <<approved, posted>>
      => Lifecycle!Create(b)
  BY DEF sch, Lifecycle!Create
<1>9. /\ sch[b].phase = "scheduled" /\ sch' = [sch EXCEPT ![b].phase = "queued"]
      /\ UNCHANGED <<approved, posted>>
      => Lifecycle!Dispatch(b)
  BY DEF sch, Lifecycle!Dispatch
<1>10. /\ sch[b].phase \in {"scheduled", "queued"} /\ sch' = [sch EXCEPT ![b].phase = "ended"]
       /\ UNCHANGED <<approved, posted>>
       => Lifecycle!End({b})
  BY <1>5 DEF sch, Lifecycle!End
<1>11. /\ sch[b].phase = "queued" /\ sch[b].vouched
       /\ sch' \in {sch, [sch EXCEPT ![b].phase = "ended"]}
       /\ posted' = posted \cup {sch[b].version} /\ UNCHANGED approved
       => Lifecycle!Send(b)
  BY DEF sch, Lifecycle!Send
<1> QED BY <1>6, <1>7, <1>8, <1>9, <1>10, <1>11 DEF Lifecycle!Next

\* Nothing the abstract specification sees changes.
LEMMA StutterIsLifecycle ==
  ASSUME UNCHANGED <<schedules, attempt, approved, posted>>
  PROVE  [Lifecycle!Next]_(Lifecycle!vars)
BY DEF Lifecycle!vars, AbstractSchedule

\* A dispatch moves at most one schedule, which is scheduled, to its queue or its end.
LEMMA DispatchIsLifecycle ==
  ASSUME TypeOK, AttemptsFollowDispatch, NEW b, DispatchSchedule(b),
         UNCHANGED <<approved, posted>>
  PROVE  [Lifecycle!Next]_(Lifecycle!vars)
<1>1. CASE UNCHANGED <<schedules, attempt>>
  BY <1>1, StutterIsLifecycle
<1>2. ASSUME NEW st \in {"failed", "dispatching"}, NEW at \in {"none", "queued", "failed"},
             MayDispatch(b),
             schedules' = [schedules EXCEPT ![b].state = st],
             attempt' = [attempt EXCEPT ![b] = at],
             st = "dispatching" <=> at = "queued"
      PROVE  [Lifecycle!Next]_(Lifecycle!vars)
  <2>1. CASE b \notin Schedules
    BY <1>2, <2>1, StutterIsLifecycle DEF TypeOK
  <2>2. CASE b \in Schedules
    <3>1. schedules[b] \in Schedule /\ schedules[b].state = "scheduled"
      BY <1>2, <2>2 DEF MayDispatch, TypeOK
    <3>2. AbstractSchedule(b).phase = "scheduled"
      BY <3>1 DEF AbstractSchedule
    <3>3. /\ schedules'[b].state = st /\ attempt'[b] = at
          /\ schedules'[b].version = schedules[b].version
          /\ schedules'[b].approved = schedules[b].approved
      BY <1>2, <2>2, <3>1 DEF TypeOK, Schedule
    <3>4. Comes(b, "queued") \/ Comes(b, "ended")
      BY <1>2, <3>3 DEF Comes, AbstractSchedule
    <3>5. \A s \in Schedules \ {b} : SameAbstract(s)
      BY <1>2, <2>2 DEF SameAbstract, AbstractSchedule, TypeOK
    <3> QED BY <2>2, <3>2, <3>4, <3>5, LifeStepIsLifecycle DEF LifeStep
  <2> QED BY <2>1, <2>2
<1>3. CASE /\ MayDispatch(b) /\ UNCHANGED attempt
           /\ schedules' = [schedules EXCEPT ![b].state = "failed"]
  <2>1. CASE b \notin Schedules
    BY <1>3, <2>1, StutterIsLifecycle DEF TypeOK
  <2>2. CASE b \in Schedules
    <3>1. attempt[b] = "none"
      BY <1>3, <2>2 DEF AttemptsFollowDispatch, MayDispatch
    <3>2. attempt' = [attempt EXCEPT ![b] = "none"]
      BY <1>3, <2>2, <3>1 DEF TypeOK
    <3> QED BY <1>2, <1>3, <3>2
  <2> QED BY <2>1, <2>2
<1>4. ASSUME NEW created \in {"queued", "failed"}, MayDispatch(b), GetOrCreateAttempt(b, created)
      PROVE  [Lifecycle!Next]_(Lifecycle!vars)
  <2>1. CASE b \notin Schedules
    BY <1>4, <2>1, StutterIsLifecycle DEF TypeOK, GetOrCreateAttempt
  <2>2. CASE b \in Schedules
    <3>1. attempt[b] = "none"
      BY <1>4, <2>2 DEF AttemptsFollowDispatch, MayDispatch
    <3>2. /\ attempt' = [attempt EXCEPT ![b] = created]
          /\ schedules' = [schedules EXCEPT ![b].state =
                             IF created = "failed" THEN "failed" ELSE "dispatching"]
      BY <1>4, <2>2, <3>1 DEF TypeOK, GetOrCreateAttempt
    <3>3. CASE created = "queued"
      BY <1>2, <1>4, <3>2, <3>3
    <3>4. CASE created = "failed"
      BY <1>2, <1>4, <3>2, <3>4
    <3> QED BY <3>3, <3>4
  <2> QED BY <2>1, <2>2
<1> QED BY <1>1, <1>3, <1>4 DEF DispatchSchedule

\* A schedule is created once, with the approval its request found.
LEMMA CreateIsLifecycle ==
  ASSUME TypeOK, ApprovalsCarried, NEW r \in Requests, CreateSchedule(r)
  PROVE  [Lifecycle!Next]_(Lifecycle!vars)
<1> DEFINE row == [version |-> seen[r].active, state |-> "scheduled",
                   approved |-> snapshot[r].approved, bypass |-> snapshot[r].bypass]
<1>1. PICK b \in Schedules : /\ schedules[b].state = "none"
                             /\ schedules' = [schedules EXCEPT ![b] = row]
  BY DEF CreateSchedule
<1>2. /\ seen[r].active \in Version /\ snapshot[r].approved \in BOOLEAN
      /\ snapshot[r].approved => seen[r].active \in approved
  BY DEF TypeOK, Draft, ApprovalsCarried
<1>3. schedules'[b] = row
  BY <1>1 DEF TypeOK
<1>4. AbstractSchedule(b).phase = "none"
  BY <1>1 DEF AbstractSchedule
<1>5. AbstractSchedule(b)' = [phase |-> "scheduled", version |-> seen[r].active,
                              vouched |-> snapshot[r].approved]
  BY <1>3 DEF AbstractSchedule
<1>6. \A s \in Schedules \ {b} : SameAbstract(s)
  BY <1>1 DEF SameAbstract, AbstractSchedule, TypeOK, CreateSchedule
<1>7. UNCHANGED <<approved, posted>>
  BY DEF CreateSchedule, history
<1> QED BY <1>1, <1>2, <1>4, <1>5, <1>6, <1>7, LifeStepIsLifecycle DEF LifeStep

\* A cancellation ends the schedules that are still scheduled.
LEMMA CancelIsLifecycle ==
  ASSUME TypeOK, AttemptsFollowDispatch, NEW r \in Requests, CancelSchedules(r)
  PROVE  [Lifecycle!Next]_(Lifecycle!vars)
<1> DEFINE open == {s \in Schedules : schedules[s].state = "scheduled"}
           sch == [s \in Schedules |-> AbstractSchedule(s)]
<1>1. ASSUME NEW s \in open
      PROVE  AbstractSchedule(s).phase = "scheduled" /\ Comes(s, "ended")
  <2>1. schedules[s] \in Schedule /\ schedules[s].state = "scheduled" /\ attempt[s] = "none"
    BY DEF TypeOK, AttemptsFollowDispatch
  <2>2. schedules'[s] = [schedules[s] EXCEPT !.state = "cancelled"] /\ attempt'[s] = "none"
    BY <2>1 DEF CancelSchedules
  <2> QED BY <2>1, <2>2 DEF AbstractSchedule, Comes, Schedule
<1>2. ASSUME NEW s \in Schedules \ open PROVE SameAbstract(s)
  BY DEF CancelSchedules, SameAbstract, AbstractSchedule
<1>3. sch' = [s \in Schedules |->
                IF s \in open THEN [sch[s] EXCEPT !.phase = "ended"] ELSE sch[s]]
  BY <1>1, <1>2 DEF Comes, SameAbstract
<1>4. \A s \in open : sch[s].phase \in {"scheduled", "queued"}
  BY <1>1
<1>5. UNCHANGED <<approved, posted>>
  BY DEF CancelSchedules, history
<1>6. Lifecycle!End(open)
  BY <1>3, <1>4, <1>5 DEF Lifecycle!End
<1> QED BY <1>6 DEF Lifecycle!Next

\* A waiting attempt whose row and schedule are saved comes to its end, or waits on.
LEMMA SaveIsMove ==
  ASSUME TypeOK, AttemptsFollowDispatch, NEW b \in Schedules, attempt[b] = "queued",
         NEW at \in {"queued", "client_approval_missing", "failed", "published"},
         NEW st \in {"dispatching", "published", "failed"}, NEW dr, SaveAttempt(b, at, st, dr)
  PROVE  /\ AbstractSchedule(b).phase = "queued"
         /\ SameAbstract(b) \/ Comes(b, "ended")
         /\ \A s \in Schedules \ {b} : SameAbstract(s)
<1>1. schedules[b] \in Schedule /\ schedules[b].state \notin {"none", "scheduled"}
  BY DEF TypeOK, AttemptsFollowDispatch
<1>2. /\ schedules'[b].state = st /\ attempt'[b] = at
      /\ schedules'[b].version = schedules[b].version
      /\ schedules'[b].approved = schedules[b].approved
  BY <1>1 DEF SaveAttempt, TypeOK, Schedule
<1>3. AbstractSchedule(b).phase = "queued"
  BY <1>1 DEF AbstractSchedule
<1>4. SameAbstract(b) \/ Comes(b, "ended")
  BY <1>1, <1>2 DEF SameAbstract, Comes, AbstractSchedule
<1>5. \A s \in Schedules \ {b} : SameAbstract(s)
  BY DEF SaveAttempt, SameAbstract, AbstractSchedule, TypeOK
<1> QED BY <1>3, <1>4, <1>5

\* The preflight leaves the attempt waiting or ends it.
LEMMA PreflightIsLifecycle ==
  ASSUME TypeOK, AttemptsFollowDispatch, NEW b \in Schedules, PreflightAttempt(b)
  PROVE  [Lifecycle!Next]_(Lifecycle!vars)
<1>1. attempt[b] = "queued" /\ UNCHANGED <<approved, posted>>
  BY DEF PreflightAttempt, history
<1>2. CASE UNCHANGED <<schedules, attempt>>
  BY <1>1, <1>2, StutterIsLifecycle
<1>3. ASSUME NEW at \in {"client_approval_missing", "failed"},
             SaveAttempt(b, at, "failed", "failed")
      PROVE  [Lifecycle!Next]_(Lifecycle!vars)
  <2>1. /\ AbstractSchedule(b).phase = "queued"
        /\ SameAbstract(b) \/ Comes(b, "ended")
        /\ \A s \in Schedules \ {b} : SameAbstract(s)
    BY <1>1, <1>3, SaveIsMove
  <2> QED BY <1>1, <2>1, LifeStepIsLifecycle DEF LifeStep
<1> QED BY <1>2, <1>3 DEF PreflightAttempt

\* The provider is handed the version of a waiting attempt whose schedule was vouched for.
LEMMA PublishIsLifecycle ==
  ASSUME TypeOK, AttemptsFollowDispatch, ApprovalsCarried, PublishAttempt
  PROVE  [Lifecycle!Next]_(Lifecycle!vars)
<1>1. /\ claiming \in Schedules /\ attempt[claiming] = "queued"
      /\ schedules[claiming].approved
  BY DEF PublishAttempt, TypeOK, AttemptsFollowDispatch, ApprovalsCarried
<1>2. /\ AbstractSchedule(claiming).phase = "queued"
      /\ SameAbstract(claiming) \/ Comes(claiming, "ended")
      /\ \A s \in Schedules \ {claiming} : SameAbstract(s)
  BY <1>1, SaveIsMove DEF PublishAttempt
<1>3. AbstractSchedule(claiming).vouched
  BY <1>1 DEF AbstractSchedule
<1>4. posted' = posted \cup {AbstractSchedule(claiming).version} /\ UNCHANGED approved
  BY DEF PublishAttempt, AbstractSchedule
<1> QED BY <1>1, <1>2, <1>3, <1>4, LifeStepIsLifecycle DEF LifeStep

\* A client's approval of a version endorses it; other decisions are not seen.
LEMMA DecideIsLifecycle ==
  ASSUME TypeOK, NEW a \in Approvals, NEW decision \in {"approved", "changes_requested"},
         Decide(a, decision)
  PROVE  [Lifecycle!Next]_(Lifecycle!vars)
<1>1. UNCHANGED <<schedules, attempt, posted>> /\ approvals[a].version \in Version
  BY DEF Decide, TypeOK, Approval
<1>2. CASE approved' = approved
  BY <1>1, <1>2, StutterIsLifecycle
<1>3. CASE approved' = approved \cup {approvals[a].version}
  <2>1. Lifecycle!Endorse(approvals[a].version)
    BY <1>1, <1>3 DEF Lifecycle!Endorse, AbstractSchedule
  <2> QED BY <1>1, <2>1 DEF Lifecycle!Next
<1> QED BY <1>2, <1>3 DEF Decide

\* Whatever requests overlap, stop half-way or act on stale copies, the workflow gives every
\* schedule the life ScheduleLifecycle describes.
THEOREM ImplementsSchedules == Spec => FollowsLifecycle
<1>1. Init => Lifecycle!Init
  <2> SUFFICES ASSUME Init PROVE Lifecycle!Init
    OBVIOUS
  <2>1. 0 \in Version
    BY ConstantsAssumption DEF Version
  <2>2. ASSUME NEW s \in Schedules
        PROVE  AbstractSchedule(s) = [phase |-> "none", version |-> 0, vouched |-> FALSE]
    BY DEF Init, AbstractSchedule
  <2>3. approved = {} /\ posted = {}
    BY DEF Init
  <2> DEFINE New == [phase : {"none"}, version : Version, vouched : {FALSE}]
  <2>4. [phase |-> "none", version |-> 0, vouched |-> FALSE] \in New
    BY <2>1
  <2> HIDE DEF New
  <2>5. [s \in Schedules |-> AbstractSchedule(s)] \in [Schedules -> New]
    BY <2>2, <2>4
  <2> QED BY <2>3, <2>5 DEF Lifecycle!Init, New
<1>2. TypeOK /\ AttemptsFollowDispatch /\ ApprovalsCarried /\ [Next]_vars
        => [Lifecycle!Next]_(Lifecycle!vars)
  <2> SUFFICES ASSUME TypeOK, AttemptsFollowDispatch, ApprovalsCarried, [Next]_vars
               PROVE  [Lifecycle!Next]_(Lifecycle!vars)
    OBVIOUS
  <2> USE DEF rowVars, requestVars, taskVars, history
  <2>1. ASSUME NEW r \in Requests, DispatchNow(r) PROVE [Lifecycle!Next]_(Lifecycle!vars)
    BY <2>1, DispatchIsLifecycle DEF DispatchNow
  <2>2. ASSUME NEW r \in Requests, Request(r) PROVE [Lifecycle!Next]_(Lifecycle!vars)
    <3>1. CASE CreateSchedule(r) \/ DispatchNow(r) \/ CancelSchedules(r)
      BY <2>1, <3>1, CreateIsLifecycle, CancelIsLifecycle
    <3>2. CASE ~(CreateSchedule(r) \/ DispatchNow(r) \/ CancelSchedules(r))
      <4>1. UNCHANGED <<schedules, attempt, approved, posted>>
        BY <2>2, <3>2
           DEF Request, PatchDraft, SavePatch, InvalidateAfterPatch, CreateVersion,
               SaveVersion, SubmitInternalReview, SubmitClientReview, CreateApprovalRequest,
               EnterState, ScheduleDraft, PublishNow, CheckApproval, ValidateSchedule,
               ApprovalSnapshot, EnterScheduled, Unschedule, Abort, Load
      <4> QED BY <4>1, StutterIsLifecycle
    <3> QED BY <3>1, <3>2
  <2>3. CASE DispatchDueSchedule
    BY <2>3, DispatchIsLifecycle DEF DispatchDueSchedule
  <2>4. CASE ScanDueSchedules \/ UNCHANGED vars
    BY <2>4, StutterIsLifecycle DEF ScanDueSchedules, vars
  <2> QED
    BY <2>2, <2>3, <2>4, DecideIsLifecycle, PreflightIsLifecycle, PublishIsLifecycle DEF Next
<1> QED
  BY <1>1, <1>2, TypeCorrect, AttemptsFollowDispatchAlways, ApprovalsCarriedAlways, PTL
     DEF Spec, FollowsLifecycle, Lifecycle!Spec
=============================================================================
