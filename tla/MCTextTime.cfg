SPECIFICATION Spec
CONSTANTS
  None = None
  Base = 2
  Slots = {d1, d2}
  DailyLimit = 1
  DaySeconds = 2
  Cutoff = 1
  TaskTTL = 1
  IdemTTL = 1
  MaxSecond = 4
SYMMETRY Symmetry
CHECK_DEADLOCK FALSE
INVARIANTS
  LimitAfterFirstSecond
  ExpiredWithinSecond
  RetryFindsLatest
