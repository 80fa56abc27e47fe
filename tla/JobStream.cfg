SPECIFICATION FairSpec
CONSTANTS
  Clients = {c1}
  MaxTasks = 4
  MaxEvents = 2
  MaxRetries = 1
  MaxFaults = 1
INVARIANTS
  PositionsShownOnce CompletedStreamIsComplete 
PROPERTY StreamsEnd
CHECK_DEADLOCK FALSE
