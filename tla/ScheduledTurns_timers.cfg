\* Two ids of either policy, a batch of one, lost replies, one eviction.
SPECIFICATION FairSpec
CONSTANTS
  Id = {1, 2}
  WhileActive = {1}
  Speech = {2}
  Batch = 1
  MaxPerScope = 2
  MaxAttempts = 2
  Backoff = 1
  CommitDelay = 1
  Routed = TRUE
  MaxClock = 2
  MaxArmings = 2
  MaxEvictions = 1
CHECK_DEADLOCK FALSE
INVARIANTS
  TypeOK
  NoTimerVanishes
  CommittedOnce
  LiveScopeWakes
PROPERTIES
  DueTurnsDispatch
