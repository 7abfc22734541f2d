SPECIFICATION UserSpec
VIEW UserView
CONSTANTS
  Elements = {e1, e2, e3}
  Keys = {k1, k2}
  Threads = {t1, t2}
  maxkeys = 2
  Calls = {c1, c2}
  Nodes = {n1, n2, n3}
  minintervalsec = 3
  Timers = {a, b}
  Waiters = {w}
  TIMER_ARRAY_SIZE = 2
  TIMER_LEVELS = 3
  Numsecs = {2, 5}
  MaxTime = 9
  MaxJump = 2
INVARIANTS
  NothingFreedInUse
  WheelInv OnTime NoMissedSecond
PROPERTIES
  Expires RateLimited EveryRequestRuns
  ContractHolds
CHECK_DEADLOCK FALSE
