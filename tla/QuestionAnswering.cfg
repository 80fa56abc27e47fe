SPECIFICATION Spec
CONSTANTS
  d1 = d1
  d2 = d2
  Documents = {d1, d2}
  Asked = {d1}
  Last = 2
  Attributed <- MiddleChunks
  TopK = 1
  SummaryTopK = 2
  MaxTokens = 1
  MaxFaults = 1
INVARIANTS
  AnswersStayInJob ContextIsHitsAndNeighbours AnswersAreGrounded
  StreamIsWellFormed
CHECK_DEADLOCK FALSE
