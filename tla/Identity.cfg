SPECIFICATION IdentitySpec
CONSTANTS
  Codes = {k1}
  Calls = {c1, c2, c3, c4}
  MaxPairs = 4
  ConnMax = 2
  JunkMax = 1
  PruneBatch = 1
  None = None
  KeyCalls = {d1, d2}
  Stages = {x1, x2}
  LoneStage = {x3}
  SignIns = {s1, s2}
  PairingCodes = {p1}
  Handles = {h1, h2}
  Web = {w1, w2}
  Hosted = {o1}
  Confirmers = {c2, c3, c4}
  Staged = {t1, t2, t3}
  CodeSets = {g1}
  Resident = Resident
  Settled = 2
SYMMETRY IdentitySymmetry
INVARIANTS
  IdentityTypeOK
  OneRotationChain
  ExactRevocation
  KeyChangeIsOne
  NoGrantOfOldKey
  RegistrationIsExact
  OneConfirmationWins
