SPECIFICATION Spec
CONSTANTS
  CaptionJobs = {c1}
  ImageJobs = {i1}
  Workers = {w1, w2}
  Users = {u1}
  ActiveLimit = 2
  DailyLimit = 1
  SizeLimit = 2
  Sizes = {1}
  TokenCap = 1
  MaxTokens = 1
  NoJob = NoJob
SYMMETRY Symmetry
INVARIANTS
  TypeOK
  ResultsStoredOnce
  TokensBounded
CHECK_DEADLOCK FALSE
