SPECIFICATION FairSpec
CONSTANTS
  a = a
  b = b
  c = c
  p1 = p1
  p2 = p2
  X = X
  Y = Y
  Z = Z
  fail = fail
  sleep = sleep
  None = None
  Threads = {a, b, c}
  Processes = {p1, p2}
  Names = {X, Y, Z}
  Actions = {fail, sleep}
  ProcessOf <- Owner
  Programs <- Scenarios
  OldBuild = TRUE
  MaxFailures = 1
  MayCrash = TRUE
  MaxPoints = 2
  RingSize = 2
  MaxPolls = 1
  MaxObjects = 3
  MaxClock = 1
  Word = 8
INVARIANTS TypeOK PointsSurvive BudgetExact VerifyAnswers
PROPERTY InitReturns
CHECK_DEADLOCK TRUE
