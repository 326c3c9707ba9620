\* Two senders share a dynamic receiver whose stride is larger than qSize; two
\* nodes send to each other through static endpoints.
SPECIFICATION FairSpec
CONSTANTS
  n1 = n1
  n2 = n2
  n3 = n3
  n4 = n4
  Node = {n1, n2, n3}
  Flow <- AnyFlow
  Msg = {1, 2}
  Deployments <- EitherKind
  QSize = 2
  FlowStrideArg = 3
  ExtraSizeArg = 0
  FifoDepth = 1
  Contiguous = TRUE
INVARIANTS TypeOK PairAccounting RecvQHasRoom AckQHasRoom NoCircularWait
PROPERTIES ChannelSpec
