SPECIFICATION Spec
CONSTANTS
  None = None
  Kinds = {"blk", "net"}
  QueueNum <- MCQueueNum
  Parts <- MCParts
  MaxRegions = 8
  MaxRequests <- MCMaxRequests
INVARIANTS TypeOK SetupAsWritten BlkTakenCovered
PROPERTIES RequestServed LineFalls
CHECK_DEADLOCK FALSE
