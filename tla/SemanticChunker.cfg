SPECIFICATION Spec
CONSTANTS
  MaxChunkSize = 6
  ChunkOverlap = 1
  MaxBlocks = 3
  Documents <- SmallDocuments
INVARIANTS
  TypeOK CutOnlyToFit TextIsKept ChunkTellsItsPlace ChunksAreChained
PROPERTY FallbackAdvances
