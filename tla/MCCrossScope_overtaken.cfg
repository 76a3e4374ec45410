\* Relation facts of two turns, by the outbox and by the gateway.
SPECIFICATION Spec
CONSTANTS
  a = a
  k1 = k1
  k2 = k2
  v1 = v1
  absent = absent
  none = none
  Sender = {a}
  Cell = {k1, k2}
  Definition = {k2}
  Version = {v1, absent}
  Absent = absent
  None = none
  Shape <- Relating
  MaxSeq = 2
  MaxTurns = 2
  MaxCommits = 0
  MaxAbandoned = 0
CHECK_DEADLOCK FALSE
INVARIANT
  RelationFactsArrive
