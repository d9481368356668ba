SPECIFICATION Spec
CONSTANTS
  NumConnections = 1
  Interval = 1
  Workers = {w1, w2}
  Outcomes = {"succeeded"}
  Forces = {FALSE}
  Listed = {}
  MaxTime = 2
  MaxJobs = 2
  MaxFaults = 1
SYMMETRY Symmetry
INVARIANTS
  TypeOK
  
PROPERTIES
  IntervalKept
CHECK_DEADLOCK FALSE
