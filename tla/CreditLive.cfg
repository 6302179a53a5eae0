SPECIFICATION FairSpec
CONSTANTS
  r1 = r1
  r2 = r2
  k1 = k1
  k2 = k2
  s1 = s1
  x1 = x1
  x2 = x2
  None = None
  Other = Other
  Spends <- TwoSpends
  Residents = {x1}
  ResidentOf <- OneResident
  Keys = {k1}
  Sites = {s1}
  SiteOf <- OneSite
  Sources = {i1}
  Workers = {w1, c1}
  Crons = {c1}
  LeaseLength = 1
  Window = 2
  ClockSkew = FALSE
PROPERTIES
  SpendSettles
