\* Both ends send: credits and data of the two directions share the link.
SPECIFICATION FairSpec
CONSTANTS
  a1 = a1
  a2 = a2
  b1 = b1
  b2 = b2
  Half <- MCHalf
  Data <- OnePacket
  Senders <- BothEnds
  RecvQDepth = 4
  WindowSize = 2
  CounterMod = 8
  FifoDepth = 1
  SendQDepth = 1
  DrainDepth = 1
  WireDepth = 1
INVARIANTS CreditConservation ReceiverHasRoom HalfKeepsCredit
PROPERTY BudgetReturns
VIEW CounterView
