SPECIFICATION Spec
CONSTANTS
  Requests = {r1}
  Approvals = {a1}
  Schedules = {s1}
  NoSchedule = NoSchedule
  MaxVersions = 1
  MaxOverlaps = 0
SYMMETRY Symmetry
INVARIANTS
  BypassNeedsNoClientApproval
