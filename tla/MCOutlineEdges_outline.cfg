SPECIFICATION Spec
CONSTANTS
  Item = {i1, i2, i3}
  Root = root
  Actor = {u, v}
  Base = 4
  MaxCommits = 5
SYMMETRY Interchangeable
CHECK_DEADLOCK FALSE
INVARIANTS TypeOK EverySlotOpen
PROPERTIES ImplementsForest AskedSlot
