SPECIFICATION Spec
CONSTANTS
  Requests = {r1, r2}
  Approvals = {a1, a2}
  Schedules = {s1}
  NoSchedule = NoSchedule
  MaxVersions = 2
  MaxOverlaps = 1
SYMMETRY Symmetry
INVARIANTS
  TypeOK
  PostedWasClientApproved
PROPERTIES
  FollowsLifecycle
  DecisionsStand
  OnlyPatchSeparatesApproval
