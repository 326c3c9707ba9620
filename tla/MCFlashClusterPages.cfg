SPECIFICATION Spec
CONSTANTS
  Node <- TwoNodes
  Slots <- PageSlots
  Target <- ToOne
  NumTags = 2
  PageWords = 2
  FifoDepth = 1
  SizedDepth = 1
  RecycleDepth = 1
  NumEng = 2
  JobDepth = 1
  NetDepth = 1
  MaxIssue = 0
  MaxPending = 3
INVARIANTS TagConservation ReadWordsMatch WriteDataMatches
