SPECIFICATION FairSpec
CONSTANTS
  Workers = {w1, w2}
  Tasks = {t1, t2}
  NoTask = NoTask
  Sizes = {1, 2}
  DefaultSize = 1
  MaxRetries = 1
  MaxFaults = 1
INVARIANTS
  LockExcludes StoredPointsStay RacesCostNothing
PROPERTY BatchesEnd
CHECK_DEADLOCK FALSE
