SPECIFICATION Spec
CONSTANTS
  Accounts = {a1}
  NoAccount = NoAccount
  Workers = {w1, w2}
  MaxFaults = 2
INVARIANTS
  TypeOK
  FailuresRollBack
PROPERTIES
  RollbackIsEarned
SYMMETRY Symmetry
CHECK_DEADLOCK FALSE
