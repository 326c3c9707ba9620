\* All programs.
SPECIFICATION FairSpec
CONSTANTS
  Programs <- AllPrograms
  SiRegs = {"r7", "r8"}
  MaxTries = 2
  NumMpEngines = 2
  SetupFirst = TRUE
  TagCount = 2
  WriteTagCount = 1
  Grant = 4
  GrantLevel = 2
  InQSize = 6
  HeadSize = 2
  BufferWays = 1
  WriteBuffers = 2
  ReadBuffers = 3
  CmdGrant = 2
  CmdLevel = 4
  CmdQSize = 6
INVARIANTS
  TypeOK
  PrintsMatch
  PageTagsExclusive
  OccurrencesReported
  GrantsExact
  CmdQueueHasRoom
  DoneAfterKeys
PROPERTY
  ProgramsEnd
CHECK_DEADLOCK FALSE
