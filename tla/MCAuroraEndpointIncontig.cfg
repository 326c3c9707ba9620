\* Two senders, two receivers, interleaved bursts.
SPECIFICATION Spec
CONSTANTS
  n1 = n1
  n2 = n2
  n3 = n3
  n4 = n4
  Node = {n1, n2, n3, n4}
  Flow <- TwoToTwo
  Msg = {1}
  Deployments <- DynamicTwoToTwo
  QSize = 1
  FlowStrideArg = 3
  ExtraSizeArg = 1
  FifoDepth = 2
  Contiguous = FALSE
INVARIANTS NoCircularWait
