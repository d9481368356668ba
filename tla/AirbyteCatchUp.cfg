SPECIFICATION FairSpec
CONSTANTS
  NumConnections = 3
  Interval = 1
  Workers = {w1}
  Outcomes = {"succeeded"}
  Forces = {FALSE, TRUE}
  Listed = {1, 2}
  MaxTime = 1
  MaxJobs = 2
  MaxFaults = 0
PROPERTIES
  RowsCatchUp
CHECK_DEADLOCK FALSE
