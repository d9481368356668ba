SPECIFICATION FairSpec
CONSTANTS
  Jobs = {j1}
  Workers = {w1, w2}
  MaxData = 1
  MaxStamp = 2
  MaxFaults = 1
  None = None
  Partial = Partial
INVARIANTS TypeOK Downloadable ShowsWhatWasAsked
PROPERTIES Settles
CHECK_DEADLOCK FALSE
