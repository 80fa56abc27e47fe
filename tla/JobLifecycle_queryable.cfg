SPECIFICATION Spec
CONSTANTS
  Files = {f1}
  Readable = {f1}
  MaxMessages = 6
  MaxRetries = 1
  MaxFaults = 0
INVARIANT CompletedJobIsQueryable
CHECK_DEADLOCK FALSE
