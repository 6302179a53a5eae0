SPECIFICATION Spec
CONSTANTS
  a1 = a1
  a2 = a2
  k1 = k1
  s1 = s1
  None = None
  Other = Other
  Attempts <- OneAttempt
  Keys = {k1}
  Sites = {s1}
  KeyOf <- OneKey
  SiteOf <- OneSite
  Workers = {w1, w2}
  Crons = {}
  Requests = {"pay", "replay", "recheck"}
  LeaseLength = 1
  Window = 1
  ClockSkew = TRUE
  MaxBlock = 2
  MaxTx = 2
SYMMETRY WorkerSymmetry
INVARIANTS
  TypeOK
  FoundedIffCompleted
  FounderReviewIsProven
  ExpiredOnlyWhenDue
  BoundPaymentNeverInvalid
PROPERTY HistoryIsImmutable
