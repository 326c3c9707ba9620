\* Violated: a wake-up between the look and the wait is lost.
SPECIFICATION FairSpec
CONSTANTS
  Programs <- FlashTestOnly
  SiRegs = {"r7", "r8"}
  MaxTries = 2
  NumMpEngines = 2
  SetupFirst = TRUE
  TagCount = 2
  WriteTagCount = 1
  Grant = 4
  GrantLevel = 2
  InQSize = 6
  HeadSize = 2
  BufferWays = 2
  WriteBuffers = 2
  ReadBuffers = 3
  CmdGrant = 2
  CmdLevel = 4
  CmdQSize = 6
PROPERTY
  TestEnds
CHECK_DEADLOCK FALSE
