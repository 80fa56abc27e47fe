SPECIFICATION FairSpec
CONSTANTS
  Msgs = {m1}
  NoMsg = NoMsg
  Copies = {c1, c2, c3}
  MaxRetries = 1
  MaxFaults = 1
INVARIANTS NoMessageLost DeadLetteredAfterEveryRetry OneAttemptOnFirstConnection
PROPERTIES AtLeastOnce QueueDrains
CHECK_DEADLOCK FALSE
