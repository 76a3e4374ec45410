\* Two committing scopes with two turns each, one cell and a definition cell.
SPECIFICATION Spec
CONSTANTS
  a = a
  b = b
  k1 = k1
  k2 = k2
  v1 = v1
  absent = absent
  none = none
  Sender = {a, b}
  Cell = {k1, k2}
  Definition = {k2}
  Version = {v1, absent}
  Absent = absent
  None = none
  Shape <- Riding
  MaxSeq = 2
  MaxTurns = 2
  MaxCommits = 1
  MaxAbandoned = 1
CHECK_DEADLOCK FALSE
SYMMETRY Symmetry
INVARIANTS
  TypeOK
  OneEventPerFact
  NoRidePassedOver
PROPERTIES
  ImplementsOwnerEffects
