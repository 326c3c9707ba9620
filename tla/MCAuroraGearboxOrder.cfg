\* One end sends two different packets: order, pairing of halves, liveness.
SPECIFICATION FairSpec
CONSTANTS
  a1 = a1
  a2 = a2
  b1 = b1
  b2 = b2
  Half <- MCHalf
  Data <- TwoPackets
  Senders <- OneEnd
  RecvQDepth = 4
  WindowSize = 2
  CounterMod = 8
  FifoDepth = 1
  SendQDepth = 1
  DrainDepth = 1
  WireDepth = 1
INVARIANTS TypeOK HalvesAlternate
PROPERTY ChannelSpec
