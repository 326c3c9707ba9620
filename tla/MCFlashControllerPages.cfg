SPECIFICATION Spec
CONSTANTS
  NumChips = 2
  Tag <- ThreeTags
  ChipQDepth = 2
  FifoDepth = 2
  PageWords = 2
  BusCmdDepth = 1
  EncodeDepth = 1
  ReadTagDepth = 2
  AckDepth = 1
  Jobs <- PageJobs
INVARIANTS ChipsAreReady QueuesNeverBlock ProgramsOwnPage NoReadError WordsKeepTheirTag

