SPECIFICATION Spec
CONSTANTS
  Workers = {w1}
  Tasks = {t1, t2}
  NoTask = NoTask
  Sizes = {2}
  DefaultSize = 1
  MaxRetries = 1
  MaxFaults = 0
INVARIANT DefaultSizeIsSafe
CHECK_DEADLOCK FALSE
