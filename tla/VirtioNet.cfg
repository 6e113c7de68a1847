SPECIFICATION Spec
CONSTANTS
  None = None
  Kinds = {"net"}
  QueueNum <- MCQueueNum
  Parts <- MCParts
  MaxRegions = 8
  MaxRequests <- MCNet
INVARIANT NetTakenCovered
CHECK_DEADLOCK FALSE
