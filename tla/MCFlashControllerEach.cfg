SPECIFICATION FairSpec
CONSTANTS
  NumChips = 2
  Tag <- TwoTags
  ChipQDepth = 2
  FifoDepth = 2
  PageWords = 2
  BusCmdDepth = 1
  EncodeDepth = 1
  ReadTagDepth = 2
  AckDepth = 1
  Jobs <- MixedJobs
INVARIANTS TypeOK
PROPERTIES UserSpec Completes
