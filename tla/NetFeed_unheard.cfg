SPECIFICATION Spec
CHECK_DEADLOCK FALSE
CONSTANTS
  Turns = {t1}
  Scopes = {a}
  Home = a
  Shared = {a}
  MaxSeq = 2
  MaxMints = 1
  Chains = 1
  Cap = 2
INVARIANTS PeerFramesShown
