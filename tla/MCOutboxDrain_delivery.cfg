\* One batched lane and two that go row by row, one per pass, through a crash.
SPECIFICATION FairSpec
CONSTANTS
  RouteOf <- MCRouteOf
  Backoff <- MCBackoff
  Lane = {1, 2, 3}
  Routes = 2
  RowsPerLane = 2
  LanesPerPass = 1
  MaxAttempts = 2
  MaxBackoff = 1
  MaxRows = 2
  MaxTotal = 3
  MaxSubmits = 1
  MaxCrashes = 2
CONSTRAINT MCBounds
INVARIANTS
  TypeOK
  NoSilentGap
  WakeStands
PROPERTIES
  RowsSettle
  ImplementsLanes
