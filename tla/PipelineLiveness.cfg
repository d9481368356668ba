SPECIFICATION FairSpec
CONSTANTS
  FacebookAttempts = {}
  InstagramAttempts = {i1}
  Workers = {w1, w2}
  NoAttempt = NoAttempt
  MAX_PUBLISH_ATTEMPTS = 2
  CounterCap = 3
  MaxCrashes = 0
  LockContention = FALSE
INVARIANTS
  TypeOK
  ScheduleFollowsAttempts
  WaitingAttemptsHaveBudget
  RecordedPostsAreLive
PROPERTIES
  EveryAttemptSettles
