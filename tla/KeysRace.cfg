SPECIFICATION Spec
CONSTANTS
  x1 = x1
  x2 = x2
  x3 = x3
  p1 = p1
  p2 = p2
  s1 = s1
  s2 = s2
  c1 = c1
  c2 = c2
  c3 = c3
  MaxKeys = 1
  Recoveries = 1
  SetSize = 1
  Rotations = {x1}
  Pairings = {}
  Requests = {s1}
  Calls = {c1, c2}
  DailyMax = 1
  Serial = FALSE
SYMMETRY KeySymmetry
INVARIANTS
  NoGrantOfOldKey
