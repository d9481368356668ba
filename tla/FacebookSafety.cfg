SPECIFICATION Spec
CONSTANTS
  FacebookAttempts = {f1}
  InstagramAttempts = {}
  Workers = {w1, w2, w3}
  NoAttempt = NoAttempt
  MAX_PUBLISH_ATTEMPTS = 2
  CounterCap = 3
  MaxCrashes = 2
  LockContention = TRUE
SYMMETRY Symmetry
INVARIANTS
  FacebookCallExclusive
  FacebookRetryBudget
  WaitingAttemptsHaveBudget
PROPERTIES
  FacebookOutcomeStands
  FollowsLifecycle
