---------------------------- MODULE AuroraEndpoint ----------------------------
(***************************************************************************)
(* End-to-end flow control between the endpoints of one packet type on     *)
(* several nodes: mkAuroraEndpointDynamic and mkAuroraEndpointStatic in    *)
(* src/lib/AuroraExtEndpoint.bsv.  A sender owns a number of buffers at    *)
(* each receiver (qSize at first) and is given flowStride more by an ack.  *)
(* A dynamic receiver has extraSize buffers to give to whoever asks first; *)
(* a static one gives back what was used.                                  *)
(*                                                                         *)
(* The network of arbiters and links between the endpoints is taken as a   *)
(* FIFO for every pair of nodes.  The pairs of 16-bit registers Up and     *)
(* Down are read only as Up - Down, which is what is kept here.            *)
(***************************************************************************)
EXTENDS Integers, QueueOps, SequencesExt

CONSTANTS
  Node,           \* the nodes, NodeCount of them
  Flow,           \* the pairs <<from, to>> of nodes whose users may communicate
  Msg,            \* messages
  Deployments,    \* the kinds of endpoint, with the flows and messages used
  QSize,          \* qSize
  FlowStrideArg,  \* flowStride_
  ExtraSizeArg,   \* extraSize_ (dynamic endpoints only)
  FifoDepth,      \* depth of a mkFIFO, 2
  Contiguous      \* TRUE: a user ends a burst before it starts another

ASSUME NodeAssumption == IsFiniteSet(Node)
ASSUME FlowAssumption == \A f \in Flow : f \in Node \X Node /\ f[1] # f[2]
ASSUME SizeAssumption ==
  /\ {QSize, FlowStrideArg, FifoDepth} \subseteq Nat \ {0}
  /\ ExtraSizeArg \in Nat /\ Contiguous \in BOOLEAN
ASSUME DeploymentsAssumption ==
  Deployments \subseteq [dynamic : BOOLEAN, flows : SUBSET Flow, msgs : SUBSET Msg]

VARIABLES
  deployment,         \* the deployment, chosen once
  sendQ,              \* sendQ[n]: messages of n's user, [body, dst]
  packetSendQ,        \* packetSendQ[n]: packets for the network
  sendBudget,         \* sendBudget[n][m]: messages n may still send to m
  recvQ,              \* recvQ[n]: messages for n's user, [body, src]
  recvQAvail,         \* recvQAvail[n]: buffers n has not given to anyone
  ackQ,               \* ackQ[n]: senders waiting for an ack from n
  flowStrideCounter,  \* [n][m]: messages from m since n last queued an ack
  net,                \* net[n][m]: packets from n to m in the network
  burst               \* burst[n][m]: how far n's user is in a burst to m

\* TRUE: mkAuroraEndpointDynamic, FALSE: mkAuroraEndpointStatic.
Dynamic == deployment.dynamic
FlowStride == IF ~Dynamic /\ FlowStrideArg > QSize THEN QSize ELSE FlowStrideArg
\* Without the lower bound on extraSize.
ExtraSize_Unbounded == ExtraSizeArg

ExtraSize  == IF ExtraSizeArg < FlowStride THEN FlowStride ELSE ExtraSizeArg
NodeCount  == Cardinality(Node)
RecvQDepth == NodeCount * QSize + (IF Dynamic THEN ExtraSize ELSE 0)
AckQDepth  == NodeCount * (1 + QSize \div FlowStride)

sendVars == <<sendQ, sendBudget>>
recvVars == <<recvQ, flowStrideCounter>>
vars == <<deployment, sendVars, recvVars, packetSendQ, recvQAvail, ackQ, net, burst>>

Ack(m)     == [kind |-> "ack", dst |-> m]
Packet(s)  == [kind |-> "data", dst |-> s.dst, body |-> s.body]

Matrix(v) == [n \in Node |-> [m \in Node |-> v]]

Init ==
  /\ deployment \in Deployments
  /\ sendQ = [n \in Node |-> << >>] /\ packetSendQ = [n \in Node |-> << >>]
  /\ recvQ = [n \in Node |-> << >>] /\ ackQ = [n \in Node |-> << >>]
  /\ sendBudget = Matrix(QSize)
  /\ recvQAvail = [n \in Node |-> IF Dynamic THEN ExtraSize ELSE 0]
  /\ flowStrideCounter = Matrix(IF Dynamic THEN FlowStride - 1 ELSE 0)
  /\ net = Matrix(<< >>) /\ burst = Matrix(0)

-----------------------------------------------------------------------------
\* An ack sent without looking at the buffers left.
CanAck_IgnoresAvail(n) == ackQ[n] # << >>

\* insertAckQ is one rule: an ack goes first if there are buffers to give.
CanAck(n) == ackQ[n] # << >> /\ (Dynamic => recvQAvail[n] >= FlowStride)

\* Mutant: an ack does not set its buffers aside.
InsertAck_NoReserve(n) ==
  /\ CanAck(n) /\ Len(packetSendQ[n]) < FifoDepth
  /\ packetSendQ' = [packetSendQ EXCEPT ![n] = Append(@, Ack(Head(ackQ[n])))]
  /\ ackQ' = [ackQ EXCEPT ![n] = Tail(@)]
  /\ UNCHANGED <<deployment, sendVars, recvVars, recvQAvail, net, burst>>

InsertAck(n) ==
  /\ CanAck(n)
  /\ Len(packetSendQ[n]) < FifoDepth
  /\ packetSendQ' = [packetSendQ EXCEPT ![n] = Append(@, Ack(Head(ackQ[n])))]
  /\ ackQ' = [ackQ EXCEPT ![n] = Tail(@)]
  /\ recvQAvail' = IF Dynamic THEN [recvQAvail EXCEPT ![n] = @ - FlowStride]
                              ELSE recvQAvail
  /\ UNCHANGED <<deployment, sendVars, recvVars, net, burst>>

InsertData(n) ==
  /\ ~CanAck(n)
  /\ sendQ[n] # << >>
  /\ Len(packetSendQ[n]) < FifoDepth
  /\ LET s == Head(sendQ[n]) IN
       /\ sendBudget[n][s.dst] > 0
       /\ sendBudget' = [sendBudget EXCEPT ![n][s.dst] = @ - 1]
       /\ packetSendQ' = [packetSendQ EXCEPT ![n] = Append(@, Packet(s))]
  /\ sendQ' = [sendQ EXCEPT ![n] = Tail(@)]
  /\ UNCHANGED <<deployment, recvVars, recvQAvail, ackQ, net, burst>>

InsertAckQ(n) == InsertAck(n) \/ InsertData(n)

\* user.send
UserSend(n, m, b) ==
  /\ <<n, m>> \in deployment.flows /\ b \in deployment.msgs
  /\ Contiguous => \A k \in Node \ {m} : burst[n][k] = 0
  /\ Len(sendQ[n]) < FifoDepth
  /\ sendQ' = [sendQ EXCEPT ![n] = Append(@, [body |-> b, dst |-> m])]
  /\ burst' = [burst EXCEPT ![n][m] = (@ + 1) % FlowStride]
  /\ UNCHANGED <<deployment, sendBudget, recvVars, packetSendQ, recvQAvail, ackQ, net>>

\* Whether the message just read is the last of a stride of its sender; one
\* message early.
AckIsDue_Early(n, src) == flowStrideCounter[n][src] + 2 >= FlowStride
AckIsDue(n, src)       == flowStrideCounter[n][src] + 1 >= FlowStride

\* user.receive: the buffer is free again, and every flowStride messages of a
\* sender queue an ack for it.
UserReceive(n) ==
  /\ recvQ[n] # << >>
  /\ LET src == Head(recvQ[n]).src
         due == AckIsDue(n, src)
     IN /\ due => Len(ackQ[n]) < AckQDepth
        /\ ackQ' = IF due THEN [ackQ EXCEPT ![n] = Append(@, src)] ELSE ackQ
        /\ flowStrideCounter' =
             [flowStrideCounter EXCEPT ![n][src] = IF due THEN 0 ELSE @ + 1]
  /\ recvQAvail' = IF Dynamic THEN [recvQAvail EXCEPT ![n] = @ + 1] ELSE recvQAvail
  /\ recvQ' = [recvQ EXCEPT ![n] = Tail(@)]
  /\ UNCHANGED <<deployment, sendVars, packetSendQ, net, burst>>

\* cmd.receive: the arbiter takes a packet; it drops one whose destination is
\* the node itself (no flow has one).
CmdReceive(n) ==
  /\ packetSendQ[n] # << >>
  /\ LET p == Head(packetSendQ[n]) IN net' = [net EXCEPT ![n][p.dst] = Append(@, p)]
  /\ packetSendQ' = [packetSendQ EXCEPT ![n] = Tail(@)]
  /\ UNCHANGED <<deployment, sendVars, recvVars, recvQAvail, ackQ, burst>>

\* An ack that gives one message instead of a stride.
CmdSendAck_One(n, m) ==
  /\ sendBudget' = [sendBudget EXCEPT ![n][m] = @ + 1]
  /\ UNCHANGED recvQ

\* cmd.send: the arbiter delivers a packet from node m.
CmdSendAck(n, m) ==
  /\ sendBudget' = [sendBudget EXCEPT ![n][m] = @ + FlowStride]
  /\ UNCHANGED recvQ

\* A message dropped when others wait to be read.
CmdSendData_Drops(n, m) ==
  /\ recvQ' = [recvQ EXCEPT ![n] =
       IF @ = << >> THEN <<[body |-> Head(net[m][n]).body, src |-> m]>> ELSE @]
  /\ UNCHANGED sendBudget

CmdSendData(n, m) ==
  /\ Len(recvQ[n]) < RecvQDepth
  /\ recvQ' = [recvQ EXCEPT ![n] = Append(@, [body |-> Head(net[m][n]).body, src |-> m])]
  /\ UNCHANGED sendBudget

CmdSend(n, m) ==
  /\ net[m][n] # << >>
  /\ \/ Head(net[m][n]).kind = "ack" /\ CmdSendAck(n, m)
     \/ Head(net[m][n]).kind = "data" /\ CmdSendData(n, m)
  /\ net' = [net EXCEPT ![m][n] = Tail(@)]
  /\ UNCHANGED <<deployment, sendQ, flowStrideCounter, packetSendQ, recvQAvail, ackQ, burst>>

Next == \E n \in Node :
  \/ InsertAckQ(n) \/ UserReceive(n) \/ CmdReceive(n)
  \/ \E m \in Node : CmdSend(n, m) \/ \E b \in Msg : UserSend(n, m, b)

Spec == Init /\ [][Next]_vars

\* Each rule of an endpoint uses its own ends of the FIFOs, so none can hold
\* back another for ever.  An ack goes before data, but a node receives at most
\* one message a cycle and acks one in FlowStride of them (FlowStride > 1
\* wherever an endpoint is made), so insertAckQ also comes to send data.  The
\* user drains recvQ and ends the bursts it begins.
EndBurst(n, m) == burst[n][m] > 0 /\ \E b \in Msg : UserSend(n, m, b)
Fairness ==
  /\ \A n \in Node : /\ WF_vars(InsertAck(n)) /\ SF_vars(InsertData(n))
                     /\ WF_vars(UserReceive(n)) /\ WF_vars(CmdReceive(n))
  /\ \A f \in Flow : /\ WF_vars(CmdSend(f[1], f[2])) /\ WF_vars(CmdSend(f[2], f[1]))
                     /\ WF_vars(EndBurst(f[1], f[2]))
FairSpec == Spec /\ Fairness
-----------------------------------------------------------------------------
\* Packets from n to m that are in a set; messages of n that are unread at m,
\* and the number of strides that m owes n.
DataTo(m)         == [kind : {"data"}, dst : {m}, body : Msg]
UnderWay(n, m, S) == CountIn(net[n][m], S) + CountIn(packetSendQ[n], S)
Unread(n, m)      == CountIn(recvQ[m], [body : Msg, src : {n}])
Owed(n, m)        == CountIn(ackQ[m], {n}) + UnderWay(m, n, {Ack(n)})

TypeOK ==
  /\ \A n \in Node : \A i \in DOMAIN sendQ[n] : sendQ[n][i] \in [body : Msg, dst : Node]
  /\ \A n \in Node : \A i \in DOMAIN recvQ[n] : recvQ[n][i] \in [body : Msg, src : Node]
  /\ sendBudget \in [Node -> [Node -> 0 .. QSize + FlowStride - 1]]
  /\ recvQAvail \in [Node -> 0 .. RecvQDepth]
  /\ \A n \in Node : ackQ[n] \in Seq(Node) /\ Len(packetSendQ[n]) <= FifoDepth
  /\ flowStrideCounter \in [Node -> [Node -> 0 .. FlowStride - 1]]
  /\ burst \in [Node -> [Node -> 0 .. FlowStride - 1]]

\* Nothing a sender was given is lost or given twice: what n may send to m, has
\* under way or unread at m, plus what m owes n for messages it has read, is
\* always what n was given at first (insertAckQ, receive, cmd.send).
PairAccounting == \A n, m \in Node : n # m =>
  sendBudget[n][m] + UnderWay(n, m, DataTo(m)) + Unread(n, m)
    + FlowStride * Owed(n, m) + flowStrideCounter[m][n]
  = QSize + (IF Dynamic THEN FlowStride - 1 ELSE 0)

\* The receiver has a buffer for every message its senders may send: the
\* arbiter, which serves all endpoints of the node and passes on the packets
\* of other nodes, never waits for room in recvQ.
RecvQHasRoom == \A m \in Node :
  Len(recvQ[m]) + recvQAvail[m]
    + SumFunction([n \in Node |-> sendBudget[n][m] + UnderWay(n, m, DataTo(m))
                                    + FlowStride * UnderWay(m, n, {Ack(n)})])
  <= RecvQDepth

\* A user that reads a message is never held back by a full ackQ.
AckQHasRoom == \A n \in Node : recvQ[n] # << >> => Len(ackQ[n]) < AckQDepth

\* Senders never wait for each other's buffers in a circle: when nothing is
\* under way or unread, no ack can be sent and every user in a burst is held
\* back by a full sendQ, then no message waits for a buffer.
Waiting(n) == sendQ[n] # << >> /\ sendBudget[n][Head(sendQ[n]).dst] = 0
Quiet == \A n \in Node :
  /\ packetSendQ[n] = << >> /\ recvQ[n] = << >> /\ ~CanAck(n)
  /\ \A m \in Node : net[n][m] = << >>
                     /\ (burst[n][m] > 0 => Len(sendQ[n]) = FifoDepth)
  /\ sendQ[n] # << >> => Waiting(n)
NoCircularWait == Quiet => \A n \in Node : ~Waiting(n)

(***************************************************************************)
(* The endpoints implement FifoChannel: what is accepted on a flow and     *)
(* under way is what lies in the queues on its way, oldest first.          *)
(***************************************************************************)
BodiesIn(q, S) == LET k == Kept(q, S) IN [i \in DOMAIN k |-> k[i].body]
Pending == [f \in Flow |-> LET n == f[1]  m == f[2] IN
  BodiesIn(net[n][m], DataTo(m)) \o BodiesIn(packetSendQ[n], DataTo(m))
    \o BodiesIn(sendQ[n], [body : Msg, dst : {m}])]
Arrived == [f \in Flow |-> BodiesIn(recvQ[f[2]], [body : Msg, src : {f[1]}])]

Channel == INSTANCE FifoChannel WITH
  chan <- Pending, out <- Arrived, Data <- Msg, Route <- Flow

\* Messages of a flow are neither lost, duplicated nor overtaken, and each is
\* read in the end.
ChannelSpec == Channel!Spec
ChannelSafe == Channel!SafeSpec
=============================================================================
