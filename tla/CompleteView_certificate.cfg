\* One cell, three generations, two answers on their way.
SPECIFICATION Spec
CONSTANTS
  k1 = k1
  Key = {k1}
  Kinds = {"full", "seed", "touched", "targeted", "refresh", "exact", "head"}
  MaxGeneration = 3
  MaxFlights = 2
  MaxRides = 1
INVARIANTS
  TypeOK
  CertifiedReadsCurrent
