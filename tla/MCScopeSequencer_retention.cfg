\* Retention and replay: four keys of two actors, tight quotas, one guarantee at a time, a short lease.
SPECIFICATION Spec
CONSTANTS
  ActorOf <- MCActorOf
  Reads <- MCReads
  Writes <- MCWrites
  Output <- MCOutput
  IsDirect <- MCIsDirect
  Fault <- MCFault
  Actor = {"wizard", "guest"}
  ActivationCell = "a"
  Cell = {"a"}
  Value = {0}
  Key = {k1, k2, k3, k4}
  Request = {"bump", "say", "forbidden"}
  Retries = {TRUE, FALSE}
  Stamped = {TRUE}
  OwnEpoch = {TRUE}
  BaseGenerations <- MCNoGeneration
  TailLimit = 1
  ReplyLimit = 0
  ReceiptLimit = 1
  GuaranteedOutcomeCapacity = 1
  RetainedPayloadCap = 1
  Lease = 1
  MaxSeq = 2
  MaxGeneration = 2
  MaxClock = 1
  MaxOutcomes = 4
  MaxSnapshots = 0
SYMMETRY KeySymmetry
INVARIANTS
  TypeOK
  OneOutcomePerKey
  GuaranteedOutcomeRetained
  TailRepliesRetained
  RetentionBound
  ReplayAnswersItsRequest
