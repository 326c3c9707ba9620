SPECIFICATION FairSpec
CONSTANTS
  Node <- TwoNodes
  Slots <- MixedSlots
  Target <- MixedTarget
  NumTags = 2
  PageWords = 2
  FifoDepth = 1
  SizedDepth = 1
  RecycleDepth = 1
  NumEng = 1
  JobDepth = 1
  NetDepth = 1
  MaxIssue = 1
  MaxPending = 3
INVARIANTS AcksMatch
PROPERTIES Completes
CHECK_DEADLOCK FALSE
