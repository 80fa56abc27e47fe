SPECIFICATION FairSpec
CONSTANTS
  Files = {f1, f2}
  Readable = {f1}
  MaxMessages = 4
  MaxRetries = 1
  MaxFaults = 2
INVARIANTS
  RejectedUploadLeavesNoFiles AnalysedChunksReachStorage
  StoredChunksAreIndexed AcceptedJobIsTracked
PROPERTY AcceptedJobCompletes
CHECK_DEADLOCK FALSE
