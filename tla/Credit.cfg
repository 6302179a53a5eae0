SPECIFICATION Spec
CONSTANTS
  r1 = r1
  r2 = r2
  k1 = k1
  k2 = k2
  s1 = s1
  x1 = x1
  x2 = x2
  None = None
  Other = Other
  Spends <- TwoSpends
  Residents = {x1, x2}
  ResidentOf <- OwnResidents
  Keys = {k1, k2}
  Sites = {s1}
  SiteOf <- OneSite
  Sources = {i1, i2}
  Workers = {w1, w2}
  Crons = {}
  LeaseLength = 1
  Window = 2
  ClockSkew = TRUE
SYMMETRY WorkerSymmetry
INVARIANTS
  TypeOK
  CreditConserved
  PlaceIffCompleted
  DeadlineReturnIsDue
  OneChargePerTarget
PROPERTIES
  KeepsPromise
