SPECIFICATION WheelSpec
CONSTANTS
  Timers = {a}
  Waiters = {}
  TIMER_ARRAY_SIZE = 3
  TIMER_LEVELS = 3
  Numsecs = {27}
  MaxTime = 9
  MaxJump = 1
INVARIANTS NeverEarly
CHECK_DEADLOCK FALSE
