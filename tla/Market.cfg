SPECIFICATION FewMarketSpec
CONSTANTS
  Captures = {c1, c2}
  GiftCaptures = {c1, c2}
  MaxDisputes = 2
  MaxEvents = 3
  Listed = {{c1}, {c2}, {c1, c2}}
  Times = {1, 2}
  Residents = {r1, r2}
  Requests = {q1}
  FirstCapture = c1
  Bought = {g, w}
  Presented = {g}
  Weekly = {w}
  OrderLimit = 3
  SaleLimit = 2
  Hands = {h1, h2}
  OfferLimit = 2
  AttemptLimit = 2
  ReserveLimit = 2
  Vendor = s
  Lister = a
  Visitor = b
  Box = t
  LostLimit = 1
  None = None
CHECK_DEADLOCK FALSE
SYMMETRY Alike
INVARIANTS
  MarketTypeOK
  GiftFollowsDisputes
  DisputeAccounted
  ChargedAsOffered
  SoldAsPaid
  RetiredIsEmpty
  LuggageFollows
  AnswerIsTrue
  OneLockOrder
