SPECIFICATION Spec
CONSTANTS
  a1 = a1
  a2 = a2
  k1 = k1
  s1 = s1
  None = None
  Other = Other
  Attempts <- OneAttempt
  Keys = {k1}
  Sites = {s1}
  KeyOf <- OneKey
  SiteOf <- OneSite
  Workers = {w1}
  Crons = {}
  Requests = {"pay"}
  LeaseLength = 1
  Window = 1
  ClockSkew = FALSE
  MaxBlock = 2
  MaxTx = 1
INVARIANT SameAuthorizationIsServed
