\* Two turns race for the pins at one instant; retries of one key through time.
SPECIFICATION FairSpec
CONSTANTS
  Classes <- MCClasses
  Turn = {t1, t2}
  Key = {k1, k2}
  Scope = {s1, s2}
  Gateway = gw
  PinLease = 4
  ReplyLease = 1
  GuaranteedPinCapacity = 1
  TransientPinCapacity = 0
  MaxTurnAttempts = 1
  Skew = 1
  MaxFlight = 1
  MaxWire = 2
  MaxClock = 4
CONSTRAINT InstantOrAlone
INVARIANTS
  TypeOK
  PinCoversOutcome
  PinsBounded
PROPERTIES
  DecidedOnce
  EveryTurnSettles
