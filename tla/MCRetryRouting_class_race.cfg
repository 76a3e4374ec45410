\* Two turns use one key at one instant, under any retry classes.
SPECIFICATION Spec
CONSTANTS
  Classes <- MCAnyClass
  Turn = {t1, t2}
  Key = {k1}
  Scope = {s1}
  Gateway = gw
  PinLease = 1
  ReplyLease = 1
  GuaranteedPinCapacity = 1
  TransientPinCapacity = 1
  MaxTurnAttempts = 1
  Skew = 0
  MaxFlight = 0
  MaxWire = 2
  MaxClock = 0
CHECK_DEADLOCK FALSE
PROPERTIES
  GuaranteeHasItsPin
