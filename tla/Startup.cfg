SPECIFICATION FairSpec
CONSTANTS
  Servers = {api}
  Workers = {w1, w2}
  Messages = {m1}
  Attempts = 2
  MaxStarts = 4
  MaxFaults = 1
INVARIANTS
  OnlyConflictsLoseMessages UpMeansReady
PROPERTY StartsSettle
CHECK_DEADLOCK FALSE
