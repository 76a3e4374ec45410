SPECIFICATION FairSpec
CHECK_DEADLOCK FALSE
CONSTANTS
  Turns = {t1}
  Scopes = {a, b}
  Home = a
  Shared = {b}
  MaxSeq = 1
  MaxMints = 2
  Chains = 2
  Cap = 1
INVARIANTS TypeOK ShownOnce
PROPERTIES HeldFramesReleased StandsUnlessSuperseded TurnsSettle
