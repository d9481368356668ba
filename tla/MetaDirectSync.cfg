SPECIFICATION FairSpec
CONSTANTS
  Procs = {p1, p2}
  MaxJobs = 2
  MaxDays = 2
  MaxRetries = 1
  MaxUpsets = 1
INVARIANTS
  TypeOK
  ActiveHasData
  RunningIsUnderWay
PROPERTIES
  RunningEnds
CHECK_DEADLOCK FALSE
