SPECIFICATION FewRoomsSpec
CONSTANTS
  Alone = {h0}
  Twins = {h1, h2}
  Rooms = {p1, p2}
  Requests = {i1, i2, i3}
  ChangeLimit = 2
  WalkLimit = 2
  LinePage = 1
  PingPage = 1
  HoldTicks = 1
  CueTicks = 1
  LineLimit = 3
  TalkTime = 4
  MinuteTicks = 1
  DayTicks = 3
  MinuteLines = 1
  DayLines = 2
  HeldLines = 1
  None = None
  Shut = {p2}
  PingLimit = 3
  MoveLimit = 1
  PingTime = 8
  ShortTime = 4
  Offer = 3
  AfterAnswer = 2
  AfterMiss = 1
  AfterNo = 4
  Misses = 1
  PingDay = 4
  Lobby = p1
  Things = {t1, t2}
  Pinned = {t2}
  RandomCap = 1
  Every = 1
  Quiet = 1
  TriesMax = 2
  EffectsMax = 2
  WakeTime = 2
  SettleLimit = 2
  DialLimit = 1
  WaitTicks = 1
  Repeats = 1
  PendingMax = 2
  Generations = 8
  EffectLimit = 3
  TimerTime = 3
  Runs = {w1, w2}
  Week = 2
  Cutoff = 1
  Entering = 1
  QuestionLimit = 2
  NoteLimit = 3
  ControlLimit = 1
  ContestTime = 4
  CountTime = 2
SYMMETRY RoomSymmetry
CHECK_DEADLOCK FALSE
INVARIANTS
  RoomsTypeOK
  AnswerComplete
  LeaseIsTrue
  PingManners
  TalkIsExact
  OwedOnce
  SettleReport
  ClosedExactly
