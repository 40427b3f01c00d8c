SPECIFICATION FairSpec
CONSTANTS
  t1 = t1
  t2 = t2
  c1 = c1
  c2 = c2
  NoFd = NoFd
  None = None
  Threads = {t1, t2}
  Callbacks = {c1, c2}
  Levels = {0, 1}
  Fds = {3, 4, 5}
  MaxCalls = 3
  MaxNesting = 1
INVARIANTS TypeOK FdsAccounted CallbackGetsItsLevel
PROPERTY CallsReturn
CHECK_DEADLOCK TRUE
