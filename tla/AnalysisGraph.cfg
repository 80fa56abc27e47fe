SPECIFICATION FairSpec
CONSTANTS
  MaxChunks = 3
  Terms <- ChunkTerms
  MaxBatch = 4
  MaxAttempts = 3
  MaxFaults = 3
INVARIANTS
  TypeOK ReportCoversEveryChunk AttemptsAddUp ScoreNeverFlatters
PROPERTY AnalysisEnds
CHECK_DEADLOCK FALSE
