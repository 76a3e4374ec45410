\* Concurrency control: two cells, stale views, rebased and compacted submits, and every other writer of the scope.
SPECIFICATION Spec
CONSTANTS
  ActorOf <- MCActorOf
  Reads <- MCReads
  Writes <- MCWrites
  Output <- MCOutput
  IsDirect <- MCIsDirect
  Fault <- MCFault
  Actor = {"wizard", "guest"}
  ActivationCell = "a"
  Cell = {"a", "b"}
  Value = {0, 1}
  Key = {k1, k2}
  Request = {"copy_ab", "copy_ba", "diverged"}
  Retries = {FALSE}
  Stamped = {TRUE}
  OwnEpoch = {TRUE, FALSE}
  BaseGenerations <- MCAllGenerations
  TailLimit = 1
  ReplyLimit = 1
  ReceiptLimit = 1
  GuaranteedOutcomeCapacity = 1
  RetainedPayloadCap = 1
  Lease = 2
  MaxSeq = 3
  MaxGeneration = 4
  MaxClock = 0
  MaxOutcomes = 2
  MaxSnapshots = 1
SYMMETRY KeySymmetry
INVARIANTS
  RetainedBaseWindow
PROPERTIES
  Serializable
