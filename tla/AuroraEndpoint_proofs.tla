------------------------- MODULE AuroraEndpoint_proofs -------------------------
(***************************************************************************)
(* For any number of nodes, any flows, strides and queue sizes: a sender   *)
(* is given exactly the buffers that the receiver has set aside for it.    *)
(***************************************************************************)
EXTENDS AuroraEndpoint, QueueLemmas

Outgoing == [body : Msg, dst : Node]
Incoming == [body : Msg, src : Node]
AckPacket  == [kind : {"ack"}, dst : Node]
DataPacket == [kind : {"data"}, dst : Node, body : Msg]
AnyPacket  == AckPacket \cup DataPacket

\* The queues hold what they should, and a channel of the network only what is
\* meant for its end.
QueuesTyped ==
  /\ sendQ \in [Node -> Seq(Outgoing)]
  /\ recvQ \in [Node -> Seq(Incoming)]
  /\ packetSendQ \in [Node -> Seq(AnyPacket)]
  /\ ackQ \in [Node -> Seq(Node)]
  /\ net \in [Node -> [Node -> Seq(AnyPacket)]]
  /\ \A n, m \in Node : \A i \in DOMAIN net[n][m] : net[n][m][i].dst = m

CountersTyped ==
  /\ deployment \in Deployments
  /\ sendBudget \in [Node -> [Node -> Nat]]
  /\ flowStrideCounter \in [Node -> [Node -> 0 .. FlowStride - 1]]

\* The account of a pair of nodes, and what it always comes to: the share of
\* the receiver's buffers that the sender was given at first.
Account(n, m) ==
  sendBudget[n][m] + UnderWay(n, m, DataTo(m)) + Unread(n, m)
    + FlowStride * Owed(n, m) + flowStrideCounter[m][n]
Share == QSize + (IF Dynamic THEN FlowStride - 1 ELSE 0)
AllAccounts == \A n, m \in Node : Account(n, m) = Share

AccountInv == QueuesTyped /\ CountersTyped /\ AllAccounts

\* A stride is at least one message.
LEMMA StrideType == FlowStride \in Nat \ {0} /\ QSize \in Nat
BY SizeAssumption DEF FlowStride

\* Every term of an account is a number.
LEMMA TermsAreNumbers ==
  ASSUME QueuesTyped, CountersTyped, NEW n \in Node, NEW m \in Node
  PROVE  /\ sendBudget[n][m] \in Nat /\ flowStrideCounter[m][n] \in Nat
         /\ CountIn(net[n][m], DataTo(m)) \in Nat
         /\ CountIn(packetSendQ[n], DataTo(m)) \in Nat
         /\ CountIn(net[m][n], {Ack(n)}) \in Nat
         /\ CountIn(packetSendQ[m], {Ack(n)}) \in Nat
         /\ CountIn(ackQ[m], {n}) \in Nat
         /\ Unread(n, m) \in Nat /\ Owed(n, m) \in Nat
<1>1. /\ net[n][m] \in Seq(AnyPacket) /\ net[m][n] \in Seq(AnyPacket)
      /\ packetSendQ[n] \in Seq(AnyPacket) /\ packetSendQ[m] \in Seq(AnyPacket)
      /\ ackQ[m] \in Seq(Node) /\ recvQ[m] \in Seq(Incoming)
  BY DEF QueuesTyped
<1>2. sendBudget[n][m] \in Nat /\ flowStrideCounter[m][n] \in Nat
  BY StrideType DEF CountersTyped
<1>3. /\ CountIn(net[n][m], DataTo(m)) \in Nat
      /\ CountIn(packetSendQ[n], DataTo(m)) \in Nat
  BY <1>1, CountInType
<1>4. /\ CountIn(net[m][n], {Ack(n)}) \in Nat
      /\ CountIn(packetSendQ[m], {Ack(n)}) \in Nat
  BY <1>1, CountInType
<1>5. CountIn(ackQ[m], {n}) \in Nat /\ Unread(n, m) \in Nat
  BY <1>1, CountInType DEF Unread
<1> QED BY <1>2, <1>3, <1>4, <1>5 DEF Owed, UnderWay

\* At first every sender owns its share.
LEMMA InitAccount == Init => AccountInv
<1> SUFFICES ASSUME Init PROVE AccountInv
  OBVIOUS
<1>1. QueuesTyped
  BY DEF Init, QueuesTyped, Matrix
<1>2. CountersTyped
  BY StrideType DEF Init, CountersTyped, Matrix
<1>3. ASSUME NEW n \in Node, NEW m \in Node
      PROVE  Account(n, m) = Share
  <2>1. /\ net[n][m] = << >> /\ net[m][n] = << >> /\ packetSendQ[n] = << >>
        /\ packetSendQ[m] = << >> /\ ackQ[m] = << >> /\ recvQ[m] = << >>
    BY DEF Init, Matrix
  <2>2. UnderWay(n, m, DataTo(m)) = 0 /\ Unread(n, m) = 0 /\ Owed(n, m) = 0
    BY <2>1, CountInEmpty DEF UnderWay, Unread, Owed
  <2>3. /\ sendBudget[n][m] = QSize
        /\ flowStrideCounter[m][n] = IF Dynamic THEN FlowStride - 1 ELSE 0
    BY DEF Init, Matrix
  <2> QED BY <2>2, <2>3, StrideType DEF Account, Share
<1> QED BY <1>1, <1>2, <1>3 DEF AccountInv, AllAccounts, Share

\* What a packet is, and where it counts.
LEMMA PacketKinds ==
  ASSUME NEW m \in Node
  PROVE  /\ \A n \in Node : Ack(n) \in AckPacket /\ (Ack(n) \in {Ack(m)} <=> n = m)
         /\ \A n \in Node : Ack(n) \notin DataTo(m)
         /\ \A s \in Outgoing : /\ Packet(s) \in DataPacket
                                /\ Packet(s) \notin {Ack(m)}
                                /\ Packet(s) \in DataTo(m) <=> s.dst = m
         /\ \A p \in AnyPacket : p.dst = m =>
              /\ p.kind = "ack" => p = Ack(m) /\ p \notin DataTo(m)
              /\ p.kind = "data" => p \in DataTo(m) /\ p # Ack(m) /\ p.body \in Msg
         /\ \A p \in AnyPacket : p.dst # m => p # Ack(m) /\ p \notin DataTo(m)
         /\ \A p \in AnyPacket : p.kind \in {"ack", "data"} /\ p.dst \in Node
BY DEF Ack, Packet, AckPacket, DataPacket, AnyPacket, DataTo, Outgoing

-----------------------------------------------------------------------------
\* An ack leaves ackQ for the network: it stays owed.
LEMMA InsertAckKeeps ==
  ASSUME AccountInv, NEW k \in Node, InsertAck(k)
  PROVE  AccountInv'
<1> DEFINE d == Head(ackQ[k])
<1>1. QueuesTyped /\ CountersTyped /\ AllAccounts
  BY DEF AccountInv
<1>2. /\ ackQ[k] # << >> /\ ackQ' = [ackQ EXCEPT ![k] = Tail(@)]
      /\ packetSendQ' = [packetSendQ EXCEPT ![k] = Append(@, Ack(d))]
      /\ UNCHANGED <<deployment, sendQ, sendBudget, recvQ, flowStrideCounter, net>>
  BY DEF InsertAck, CanAck, sendVars, recvVars
<1>3. d \in Node /\ ackQ' \in [Node -> Seq(Node)]
  BY <1>1, <1>2, PopType DEF QueuesTyped
<1>4. Ack(d) \in AnyPacket
  BY <1>3, PacketKinds DEF AnyPacket
<1>5. packetSendQ' \in [Node -> Seq(AnyPacket)]
  BY <1>1, <1>2, <1>4, PushType DEF QueuesTyped
<1>6. QueuesTyped'
  BY <1>1, <1>2, <1>3, <1>5 DEF QueuesTyped
<1>7. CountersTyped' /\ FlowStride' = FlowStride /\ Dynamic' = Dynamic
  BY <1>1, <1>2 DEF CountersTyped, FlowStride, Dynamic
<1>8. ASSUME NEW n \in Node, NEW m \in Node
      PROVE  Account(n, m)' = Account(n, m)
  <2>0. /\ CountIn(packetSendQ[n], DataTo(m)) \in Nat
        /\ CountIn(packetSendQ[m], {Ack(n)}) \in Nat /\ CountIn(ackQ[m], {n}) \in Nat
    BY <1>1, TermsAreNumbers
  <2>a. /\ packetSendQ[n] \in Seq(AnyPacket) /\ packetSendQ[m] \in Seq(AnyPacket)
        /\ ackQ[m] \in Seq(Node)
        /\ \A j \in Node : packetSendQ'[j] = IF j = k THEN Append(packetSendQ[j], Ack(d))
                                                     ELSE packetSendQ[j]
        /\ ackQ'[m] = IF m = k THEN Tail(ackQ[m]) ELSE ackQ[m]
    BY <1>1, <1>2 DEF QueuesTyped
  <2>1. CountIn(packetSendQ'[n], DataTo(m)) = CountIn(packetSendQ[n], DataTo(m))
    <3>1. Ack(d) \notin DataTo(m)
      BY <1>3, PacketKinds
    <3> QED BY <1>4, <2>0, <2>a, <3>1, CountInAppend
  <2>2. CountIn(packetSendQ'[m], {Ack(n)})
          = CountIn(packetSendQ[m], {Ack(n)}) + IF m = k /\ Ack(d) \in {Ack(n)} THEN 1 ELSE 0
    BY <1>4, <2>0, <2>a, CountInAppend
  <2>3. CountIn(ackQ[m], {n}) = CountIn(ackQ'[m], {n}) + IF m = k /\ d \in {n} THEN 1 ELSE 0
    BY <1>2, <2>0, <2>a, CountInTail
  <2>4. Ack(d) \in {Ack(n)} <=> d \in {n}
    BY <1>3, PacketKinds
  <2>5. /\ CountIn(ackQ'[m], {n}) \in Nat /\ CountIn(ackQ[m], {n}) \in Nat
        /\ CountIn(packetSendQ[m], {Ack(n)}) \in Nat
        /\ CountIn(net[m][n], {Ack(n)}) \in Nat
    BY <1>1, <1>3, CountInType, TermsAreNumbers
  <2>6. Owed(n, m)' = Owed(n, m)
    BY <1>2, <2>2, <2>3, <2>4, <2>5 DEF Owed, UnderWay, Ack
  <2>7. UnderWay(n, m, DataTo(m))' = UnderWay(n, m, DataTo(m)) /\ Unread(n, m)' = Unread(n, m)
    BY <1>2, <2>1 DEF UnderWay, Unread, DataTo
  <2> QED BY <1>2, <1>7, <2>6, <2>7 DEF Account
<1> QED BY <1>1, <1>6, <1>7, <1>8 DEF AccountInv, AllAccounts, Share

\* A message leaves sendQ: a place of the budget is used.
LEMMA InsertDataKeeps ==
  ASSUME AccountInv, NEW k \in Node, InsertData(k)
  PROVE  AccountInv'
<1> DEFINE s == Head(sendQ[k])
<1>1. QueuesTyped /\ CountersTyped /\ AllAccounts
  BY DEF AccountInv
<1>2. /\ sendQ[k] # << >> /\ sendQ' = [sendQ EXCEPT ![k] = Tail(@)]
      /\ sendBudget[k][s.dst] > 0
      /\ sendBudget' = [sendBudget EXCEPT ![k][s.dst] = @ - 1]
      /\ packetSendQ' = [packetSendQ EXCEPT ![k] = Append(@, Packet(s))]
      /\ UNCHANGED <<deployment, ackQ, recvQ, flowStrideCounter, net>>
  BY DEF InsertData, recvVars
<1>3. s \in Outgoing /\ sendQ' \in [Node -> Seq(Outgoing)]
  BY <1>1, <1>2, PopType DEF QueuesTyped
<1>4. Packet(s) \in AnyPacket /\ s.dst \in Node
  BY <1>3, PacketKinds DEF AnyPacket, Outgoing
<1>5. packetSendQ' \in [Node -> Seq(AnyPacket)]
  BY <1>1, <1>2, <1>4, PushType DEF QueuesTyped
<1>6. QueuesTyped'
  BY <1>1, <1>2, <1>3, <1>5 DEF QueuesTyped
<1> HIDE DEF s
<1>b. sendBudget[k][s.dst] - 1 \in Nat
  BY <1>1, <1>2, <1>4 DEF CountersTyped
<1>c. /\ sendBudget' \in [Node -> [Node -> Nat]]
      /\ \A n, m \in Node : sendBudget'[n][m] =
           IF n = k /\ m = s.dst THEN sendBudget[k][s.dst] - 1 ELSE sendBudget[n][m]
  <2> DEFINE v == sendBudget[k][s.dst] - 1
  <2>1. sendBudget \in [Node -> [Node -> Nat]]
    BY <1>1 DEF CountersTyped
  <2>2. v \in Nat /\ sendBudget' = [sendBudget EXCEPT ![k][s.dst] = v]
    BY <1>2, <1>b
  <2> HIDE DEF v
  <2>3. /\ [sendBudget EXCEPT ![k][s.dst] = v] \in [Node -> [Node -> Nat]]
        /\ \A a \in Node, b \in Node : [sendBudget EXCEPT ![k][s.dst] = v][a][b] =
             IF a = k /\ b = s.dst THEN v ELSE sendBudget[a][b]
    <3>1. sendBudget[k] \in [Node -> Nat]
      BY <2>1
    <3>2. [sendBudget[k] EXCEPT ![s.dst] = v] \in [Node -> Nat]
      BY <1>4, <2>2, <3>1
    <3> QED BY <1>4, <2>1, <2>2, <3>1, <3>2
  <2> QED BY <2>2, <2>3 DEF v
<1>7. CountersTyped' /\ FlowStride' = FlowStride /\ Dynamic' = Dynamic
  BY <1>1, <1>2, <1>c DEF CountersTyped, FlowStride, Dynamic
<1>8. ASSUME NEW n \in Node, NEW m \in Node
      PROVE  Account(n, m)' = Account(n, m)
  <2>0. /\ CountIn(packetSendQ[n], DataTo(m)) \in Nat
        /\ CountIn(packetSendQ[m], {Ack(n)}) \in Nat
    BY <1>1, TermsAreNumbers
  <2>a. /\ packetSendQ[n] \in Seq(AnyPacket) /\ packetSendQ[m] \in Seq(AnyPacket)
        /\ \A j \in Node : packetSendQ'[j] = IF j = k THEN Append(packetSendQ[j], Packet(s))
                                                     ELSE packetSendQ[j]
    BY <1>1, <1>2 DEF QueuesTyped
  <2>1. CountIn(packetSendQ'[n], DataTo(m))
          = CountIn(packetSendQ[n], DataTo(m))
              + IF n = k /\ Packet(s) \in DataTo(m) THEN 1 ELSE 0
    BY <1>4, <2>0, <2>a, CountInAppend
  <2>2. CountIn(packetSendQ'[m], {Ack(n)}) = CountIn(packetSendQ[m], {Ack(n)})
    <3>1. Packet(s) \notin {Ack(n)}
      BY <1>3, PacketKinds
    <3> QED BY <1>4, <2>0, <2>a, <3>1, CountInAppend
  <2>3. Packet(s) \in DataTo(m) <=> s.dst = m
    BY <1>3, PacketKinds
  <2>4. sendBudget'[n][m] = sendBudget[n][m] - IF n = k /\ s.dst = m THEN 1 ELSE 0
    BY <1>1, <1>c, TermsAreNumbers
  <2>5. Owed(n, m)' = Owed(n, m) /\ Unread(n, m)' = Unread(n, m)
    BY <1>2, <2>2 DEF Owed, UnderWay, Unread, Ack
  <2>6. /\ sendBudget[n][m] \in Nat /\ CountIn(packetSendQ[n], DataTo(m)) \in Nat
        /\ CountIn(net[n][m], DataTo(m)) \in Nat
    BY <1>1, TermsAreNumbers
  <2>7. sendBudget'[n][m] + UnderWay(n, m, DataTo(m))' = sendBudget[n][m] + UnderWay(n, m, DataTo(m))
    BY <1>2, <2>1, <2>3, <2>4, <2>6 DEF UnderWay, DataTo
  <2> QED BY <1>2, <1>7, <2>5, <2>7 DEF Account
<1> QED BY <1>1, <1>6, <1>7, <1>8 DEF AccountInv, AllAccounts, Share

\* A message is read: every FlowStride-th one is turned into an ack that is due.
LEMMA UserReceiveKeeps ==
  ASSUME AccountInv, NEW k \in Node, UserReceive(k)
  PROVE  AccountInv'
<1> DEFINE src == Head(recvQ[k]).src
           due == AckIsDue(k, src)
<1>1. QueuesTyped /\ CountersTyped /\ AllAccounts
  BY DEF AccountInv
<1>2. /\ recvQ[k] # << >> /\ recvQ' = [recvQ EXCEPT ![k] = Tail(@)]
      /\ ackQ' = IF due THEN [ackQ EXCEPT ![k] = Append(@, src)] ELSE ackQ
      /\ flowStrideCounter' =
           [flowStrideCounter EXCEPT ![k][src] = IF due THEN 0 ELSE @ + 1]
      /\ UNCHANGED <<deployment, sendQ, sendBudget, packetSendQ, net>>
  BY DEF UserReceive, sendVars
<1>3. /\ Head(recvQ[k]) \in Incoming /\ src \in Node
      /\ recvQ' \in [Node -> Seq(Incoming)]
  <2>1. Head(recvQ[k]) \in Incoming /\ recvQ' \in [Node -> Seq(Incoming)]
    BY <1>1, <1>2, PopType DEF QueuesTyped
  <2> QED BY <2>1 DEF Incoming
<1>4. ackQ' \in [Node -> Seq(Node)]
  BY <1>1, <1>2, <1>3, PushType DEF QueuesTyped
<1>5. QueuesTyped'
  BY <1>1, <1>2, <1>3, <1>4 DEF QueuesTyped
<1>6. /\ FlowStride \in Nat \ {0} /\ flowStrideCounter[k][src] \in 0 .. FlowStride - 1
      /\ due <=> flowStrideCounter[k][src] = FlowStride - 1
  <2>1. flowStrideCounter[k][src] \in 0 .. FlowStride - 1
    <3> HIDE DEF src
    <3> QED BY <1>1, <1>3 DEF CountersTyped
  <2>2. due <=> flowStrideCounter[k][src] + 1 >= FlowStride
    BY DEF AckIsDue
  <2> HIDE DEF src, due
  <2> QED BY <2>1, <2>2, StrideType
<1>7. ASSUME NEW n \in Node, NEW m \in Node
      PROVE  flowStrideCounter'[m][n] =
               IF m = k /\ n = src THEN (IF due THEN 0 ELSE flowStrideCounter[m][n] + 1)
                                   ELSE flowStrideCounter[m][n]
  <2> HIDE DEF src, due
  <2> QED BY <1>1, <1>2, <1>3 DEF CountersTyped
<1>8. CountersTyped' /\ FlowStride' = FlowStride /\ Dynamic' = Dynamic
  <2> HIDE DEF src, due
  <2>1. FlowStride' = FlowStride /\ Dynamic' = Dynamic
    BY <1>2 DEF FlowStride, Dynamic
  <2>2. (IF due THEN 0 ELSE flowStrideCounter[k][src] + 1) \in 0 .. FlowStride - 1
    BY <1>6
  <2>3. flowStrideCounter' \in [Node -> [Node -> 0 .. FlowStride - 1]]
    BY <1>1, <1>2, <1>3, <2>2 DEF CountersTyped
  <2> QED BY <1>1, <1>2, <2>1, <2>3 DEF CountersTyped
<1>9. ASSUME NEW n \in Node, NEW m \in Node
      PROVE  Account(n, m)' = Account(n, m)
  <2> DEFINE I == [body : Msg, src : {n}]
  <2>0. CountIn(recvQ[m], I) \in Nat /\ CountIn(ackQ[m], {n}) \in Nat
    BY <1>1, TermsAreNumbers DEF Unread
  <2>2. Head(recvQ[k]) \in I <=> src = n
    BY <1>3 DEF Incoming
  <2>u. Unread(n, m) = CountIn(recvQ[m], I) /\ Unread(n, m)' = CountIn(recvQ'[m], I)
    BY DEF Unread
  <2> HIDE DEF I
  <2>a. /\ recvQ[m] \in Seq(Incoming) /\ ackQ[m] \in Seq(Node)
        /\ recvQ'[m] = IF m = k THEN Tail(recvQ[m]) ELSE recvQ[m]
        /\ ackQ'[m] = IF due /\ m = k THEN Append(ackQ[m], src) ELSE ackQ[m]
    BY <1>1, <1>2 DEF QueuesTyped
  <2>1. CountIn(recvQ[m], I) = CountIn(recvQ'[m], I) + IF m = k /\ Head(recvQ[k]) \in I THEN 1 ELSE 0
    BY <1>2, <2>0, <2>a, CountInTail
  <2> HIDE DEF src, due
  <2>3. CountIn(ackQ'[m], {n}) = CountIn(ackQ[m], {n}) + IF due /\ m = k /\ src = n THEN 1 ELSE 0
    BY <1>3, <2>0, <2>a, CountInAppend
  <2>4. Unread(n, m) = Unread(n, m)' + IF m = k /\ src = n THEN 1 ELSE 0
    BY <2>1, <2>2, <2>u
  <2>n. /\ CountIn(net[m][n], {Ack(n)}) \in Nat /\ CountIn(net[n][m], DataTo(m)) \in Nat
        /\ CountIn(packetSendQ[m], {Ack(n)}) \in Nat
        /\ CountIn(packetSendQ[n], DataTo(m)) \in Nat
        /\ Unread(n, m) \in Nat /\ Owed(n, m) \in Nat /\ flowStrideCounter[m][n] \in Nat
        /\ sendBudget[n][m] \in Nat
    BY <1>1, TermsAreNumbers
  <2>5. Owed(n, m)' = Owed(n, m) + IF due /\ m = k /\ src = n THEN 1 ELSE 0
    BY SMTT(30), <1>2, <2>0, <2>3, <2>n DEF Owed, UnderWay, Ack
  <2>6. /\ UnderWay(n, m, DataTo(m))' = UnderWay(n, m, DataTo(m))
        /\ sendBudget'[n][m] = sendBudget[n][m]
    BY <1>2 DEF UnderWay, DataTo
  <2>7. UnderWay(n, m, DataTo(m)) \in Nat
    BY <2>n DEF UnderWay
  <2>8. Unread(n, m)' \in Nat
    BY <1>5, <1>8, CountInType DEF QueuesTyped, Unread
  <2>9. FlowStride * Owed(n, m) \in Nat
    BY <1>6, <2>n
  <2>10. CASE m = k /\ n = src /\ due
    <3>1. Owed(n, m)' = Owed(n, m) + 1 /\ Unread(n, m) = Unread(n, m)' + 1
      BY <2>4, <2>5, <2>10
    <3>2. FlowStride * Owed(n, m)' = FlowStride * Owed(n, m) + FlowStride
      BY <1>6, <2>n, <3>1
    <3>3. flowStrideCounter'[m][n] = 0 /\ flowStrideCounter[m][n] = FlowStride - 1
      BY <1>6, <1>7, <2>10
    <3> QED BY <1>6, <1>8, <2>6, <2>7, <2>8, <2>9, <2>n, <3>1, <3>2, <3>3 DEF Account
  <2>11. CASE m = k /\ n = src /\ ~due
    <3>1. Owed(n, m)' = Owed(n, m) /\ Unread(n, m) = Unread(n, m)' + 1
      BY <2>4, <2>5, <2>11, <2>n
    <3>2. flowStrideCounter'[m][n] = flowStrideCounter[m][n] + 1
      BY <1>7, <2>11
    <3> QED BY <1>6, <1>8, <2>6, <2>7, <2>8, <2>9, <2>n, <3>1, <3>2 DEF Account
  <2>12. CASE ~(m = k /\ n = src)
    <3>1. Owed(n, m)' = Owed(n, m) /\ Unread(n, m) = Unread(n, m)'
      BY <2>4, <2>5, <2>8, <2>12, <2>n
    <3>2. flowStrideCounter'[m][n] = flowStrideCounter[m][n]
      BY <1>7, <2>12
    <3> QED BY <1>8, <2>6, <3>1, <3>2 DEF Account
  <2> QED BY <2>10, <2>11, <2>12
<1> QED BY <1>1, <1>5, <1>8, <1>9 DEF AccountInv, AllAccounts, Share

\* A packet enters the network.
LEMMA CmdReceiveKeeps ==
  ASSUME AccountInv, NEW k \in Node, CmdReceive(k)
  PROVE  AccountInv'
<1> DEFINE p == Head(packetSendQ[k])
           c == net[k][p.dst]
<1>1. QueuesTyped /\ CountersTyped /\ AllAccounts
  BY DEF AccountInv
<1>2. /\ packetSendQ[k] # << >> /\ packetSendQ' = [packetSendQ EXCEPT ![k] = Tail(@)]
      /\ net' = [net EXCEPT ![k][p.dst] = Append(c, p)]
      /\ UNCHANGED <<deployment, sendQ, sendBudget, recvQ, flowStrideCounter, ackQ>>
  BY DEF CmdReceive, sendVars, recvVars
<1>3. p \in AnyPacket /\ packetSendQ' \in [Node -> Seq(AnyPacket)]
  BY <1>1, <1>2, PopType DEF QueuesTyped
<1>4. p.dst \in Node /\ c \in Seq(AnyPacket)
  BY <1>1, <1>3, PacketKinds DEF QueuesTyped
<1>5. /\ net' \in [Node -> [Node -> Seq(AnyPacket)]]
      /\ \A n \in Node, m \in Node :
           net'[n][m] = IF n = k /\ m = p.dst THEN Append(c, p) ELSE net[n][m]
  <2>1. net \in [Node -> [Node -> Seq(AnyPacket)]] /\ Append(c, p) \in Seq(AnyPacket)
    BY <1>1, <1>3, <1>4 DEF QueuesTyped
  <2> DEFINE v == Append(c, p)
             g == [net EXCEPT ![k][p.dst] = v]
  <2>2. v \in Seq(AnyPacket) /\ net' = g
    BY <1>2, <2>1
  <2> HIDE DEF v
  <2>3. /\ g \in [Node -> [Node -> Seq(AnyPacket)]]
        /\ \A n \in Node, m \in Node :
             g[n][m] = IF n = k /\ m = p.dst THEN v ELSE net[n][m]
    BY ZenonT(60), <1>4, <2>1, <2>2, MatrixPut
  <2> HIDE DEF g
  <2>4. /\ net' \in [Node -> [Node -> Seq(AnyPacket)]]
        /\ \A n \in Node, m \in Node :
             net'[n][m] = IF n = k /\ m = p.dst THEN v ELSE net[n][m]
    BY <2>2, <2>3
  <2> QED BY <2>4 DEF v
<1>6. ASSUME NEW n \in Node, NEW m \in Node, NEW i \in DOMAIN net'[n][m]
      PROVE  net'[n][m][i].dst = m
  <2>1. net[n][m] \in Seq(AnyPacket) /\ \A j \in DOMAIN net[n][m] : net[n][m][j].dst = m
    BY <1>1 DEF QueuesTyped
  <2>2. CASE n = k /\ m = p.dst
    <3>1. net'[n][m] = Append(net[n][m], p)
      BY <1>5, <2>2
    <3> HIDE DEF p, c
    <3> QED BY <1>3, <2>1, <2>2, <3>1
  <2>3. CASE ~(n = k /\ m = p.dst)
    BY <1>5, <2>1, <2>3
  <2> QED BY <2>2, <2>3
<1>7. QueuesTyped'
  BY <1>1, <1>2, <1>3, <1>5, <1>6 DEF QueuesTyped
<1>8. CountersTyped' /\ FlowStride' = FlowStride /\ Dynamic' = Dynamic
  BY <1>1, <1>2 DEF CountersTyped, FlowStride, Dynamic
<1>9. ASSUME NEW n \in Node, NEW m \in Node, NEW K,
             \A q \in AnyPacket : q \in K => q.dst = m
      PROVE  UnderWay(n, m, K)' = UnderWay(n, m, K)
  <2>a. packetSendQ \in [Node -> Seq(AnyPacket)] /\ net \in [Node -> [Node -> Seq(AnyPacket)]]
    BY <1>1 DEF QueuesTyped
  <2>b. net'[n][m] = IF n = k /\ m = p.dst THEN Append(net[n][m], p) ELSE net[n][m]
    BY <1>5
  <2> HIDE DEF c
  <2>c. packetSendQ'[n] = IF n = k THEN Tail(packetSendQ[n]) ELSE packetSendQ[n]
    BY <1>2, <2>a
  <2>1. /\ packetSendQ[n] \in Seq(AnyPacket) /\ net[n][m] \in Seq(AnyPacket)
        /\ packetSendQ'[n] = IF n = k THEN Tail(packetSendQ[n]) ELSE packetSendQ[n]
        /\ net'[n][m] = IF n = k /\ m = p.dst THEN Append(net[n][m], p) ELSE net[n][m]
        /\ packetSendQ'[n] \in Seq(AnyPacket)
    BY <1>3, <2>a, <2>b, <2>c
  <2>2. /\ CountIn(packetSendQ[n], K) \in Nat /\ CountIn(net[n][m], K) \in Nat
        /\ CountIn(packetSendQ'[n], K) \in Nat
    BY <2>1, CountInType
  <2>3. CountIn(packetSendQ[n], K) = CountIn(packetSendQ'[n], K) + IF n = k /\ p \in K THEN 1 ELSE 0
    BY <1>2, <2>1, <2>2, CountInTail
  <2> HIDE DEF p
  <2>4. CountIn(net'[n][m], K) = CountIn(net[n][m], K) + IF n = k /\ m = p.dst /\ p \in K THEN 1 ELSE 0
    BY <1>3, <2>1, <2>2, CountInAppend
  <2>5. p \in K => p.dst = m
    BY <1>3, <1>9
  <2> QED BY <2>2, <2>3, <2>4, <2>5 DEF UnderWay
<1>10. ASSUME NEW n \in Node, NEW m \in Node
       PROVE  Account(n, m)' = Account(n, m)
  <2>1. /\ \A q \in AnyPacket : q \in DataTo(m) => q.dst = m
        /\ \A q \in AnyPacket : q \in {Ack(n)} => q.dst = n
    BY DEF DataTo, Ack
  <2>2. /\ UnderWay(n, m, DataTo(m))' = UnderWay(n, m, DataTo(m))
        /\ UnderWay(m, n, {Ack(n)})' = UnderWay(m, n, {Ack(n)})
    <3> DEFINE K == DataTo(m)
               L == {Ack(n)}
    <3>1. UnderWay(n, m, K)' = UnderWay(n, m, K)
      <4> HIDE DEF K
      <4> QED BY <1>9, <2>1 DEF K
    <3>2. UnderWay(m, n, L)' = UnderWay(m, n, L)
      BY <1>9, <2>1
    <3> QED BY <3>1, <3>2
  <2> QED BY <1>2, <1>8, <2>2 DEF Account, Owed, Unread
<1> QED BY <1>1, <1>7, <1>8, <1>10 DEF AccountInv, AllAccounts, Share

\* A packet leaves the network: a message becomes unread, or an ack becomes a
\* stride of budget.
LEMMA CmdSendKeeps ==
  ASSUME AccountInv, NEW k \in Node, NEW j \in Node, CmdSend(k, j)
  PROVE  AccountInv'
<1> DEFINE p == Head(net[j][k])
           rest == Tail(net[j][k])
<1>1. QueuesTyped /\ CountersTyped /\ AllAccounts
  BY DEF AccountInv
<1>2. /\ net[j][k] # << >> /\ net' = [net EXCEPT ![j][k] = rest]
      /\ \/ p.kind = "ack" /\ CmdSendAck(k, j)
         \/ p.kind = "data" /\ CmdSendData(k, j)
      /\ UNCHANGED <<deployment, sendQ, packetSendQ, flowStrideCounter, ackQ>>
  BY DEF CmdSend
<1>3. net \in [Node -> [Node -> Seq(AnyPacket)]] /\ net[j][k] \in Seq(AnyPacket)
  BY <1>1 DEF QueuesTyped
<1>4. /\ p \in AnyPacket /\ p.dst = k /\ rest \in Seq(AnyPacket)
      /\ \A i \in DOMAIN rest : rest[i].dst = k
  <2>1. \A i \in DOMAIN net[j][k] : net[j][k][i].dst = k
    BY <1>1 DEF QueuesTyped
  <2>2. DOMAIN rest = 1 .. Len(net[j][k]) - 1 /\ \A i \in DOMAIN rest : rest[i] = net[j][k][i + 1]
    BY <1>2, <1>3
  <2>3. DOMAIN net[j][k] = 1 .. Len(net[j][k]) /\ 1 \in DOMAIN net[j][k] /\ p = net[j][k][1]
    BY <1>2, <1>3
  <2>4. ASSUME NEW i \in DOMAIN rest PROVE rest[i].dst = k
    <3>1. i + 1 \in DOMAIN net[j][k]
      BY <2>2, <2>3
    <3> QED BY <2>1, <2>2, <3>1
  <2>5. p.dst = k
    BY <2>1, <2>3
  <2> QED BY <1>2, <1>3, <2>4, <2>5
<1>5. /\ net' \in [Node -> [Node -> Seq(AnyPacket)]]
      /\ \A n \in Node, m \in Node :
           net'[n][m] = IF n = j /\ m = k THEN rest ELSE net[n][m]
  <2> DEFINE g == [net EXCEPT ![j][k] = rest]
  <2>1. rest \in Seq(AnyPacket) /\ net' = g
    BY <1>2, <1>4
  <2> HIDE DEF rest
  <2>2. /\ g \in [Node -> [Node -> Seq(AnyPacket)]]
        /\ \A n \in Node, m \in Node : g[n][m] = IF n = j /\ m = k THEN rest ELSE net[n][m]
    BY ZenonT(60), <1>3, <2>1, MatrixPut
  <2> HIDE DEF g
  <2> QED BY <2>1, <2>2
<1>6. ASSUME NEW n \in Node, NEW m \in Node, NEW i \in DOMAIN net'[n][m]
      PROVE  net'[n][m][i].dst = m
  <2>1. \A l \in DOMAIN net[n][m] : net[n][m][l].dst = m
    BY <1>1 DEF QueuesTyped
  <2> HIDE DEF rest
  <2> QED BY <1>4, <1>5, <2>1
<1>7. ASSUME NEW n \in Node, NEW m \in Node, NEW K
      PROVE  /\ CountIn(net[n][m], K) = CountIn(net'[n][m], K)
                                         + IF n = j /\ m = k /\ p \in K THEN 1 ELSE 0
             /\ CountIn(net[n][m], K) \in Nat /\ CountIn(net'[n][m], K) \in Nat
  <2>1. CountIn(net[n][m], K) \in Nat /\ CountIn(net'[n][m], K) \in Nat
    BY <1>3, <1>5, CountInType
  <2>2. CountIn(net[j][k], K) = CountIn(rest, K) + IF p \in K THEN 1 ELSE 0
    BY <1>2, <1>3, CountInTail
  <2> HIDE DEF rest, p
  <2> QED BY SMTT(30), <1>5, <2>1, <2>2
<1>8. FlowStride' = FlowStride /\ Dynamic' = Dynamic
  BY <1>2 DEF FlowStride, Dynamic
<1>9. CASE p.kind = "ack" /\ CmdSendAck(k, j)
  <2>1. /\ sendBudget' = [sendBudget EXCEPT ![k][j] = @ + FlowStride]
        /\ recvQ' = recvQ
    BY <1>9 DEF CmdSendAck
  <2>2. QueuesTyped'
    <3> HIDE DEF rest
    <3> QED BY <1>1, <1>2, <1>5, <1>6, <2>1 DEF QueuesTyped
  <2>3. /\ sendBudget' \in [Node -> [Node -> Nat]]
        /\ \A n \in Node, m \in Node : sendBudget'[n][m] =
             sendBudget[n][m] + IF n = k /\ m = j THEN FlowStride ELSE 0
    <3>1. sendBudget \in [Node -> [Node -> Nat]] /\ FlowStride \in Nat
      BY <1>1, StrideType DEF CountersTyped
    <3>2. sendBudget[k] \in [Node -> Nat] /\ sendBudget[k][j] + FlowStride \in Nat
      BY <3>1
    <3>3. [sendBudget[k] EXCEPT ![j] = @ + FlowStride] \in [Node -> Nat]
      BY <3>2
    <3> QED BY <2>1, <3>1, <3>2, <3>3
  <2>4. CountersTyped'
    BY <1>1, <1>2, <1>8, <2>3 DEF CountersTyped
  <2>5. ASSUME NEW n \in Node, NEW m \in Node
        PROVE  Account(n, m)' = Account(n, m)
    <3>1. p \notin DataTo(m) /\ (p \in {Ack(n)} <=> n = k)
      BY <1>4, <1>9, PacketKinds
    <3> DEFINE K == DataTo(m)
               L == {Ack(n)}
    <3>2. /\ p \notin K /\ (p \in L <=> n = k)
          /\ UnderWay(n, m, K)' = CountIn(net'[n][m], K) + CountIn(packetSendQ[n], K)
          /\ UnderWay(m, n, L)' = CountIn(net'[m][n], L) + CountIn(packetSendQ[m], L)
          /\ Owed(n, m)' = CountIn(ackQ[m], {n}) + UnderWay(m, n, L)'
          /\ Owed(n, m) = CountIn(ackQ[m], {n}) + UnderWay(m, n, L)
          /\ CountIn(packetSendQ[n], K) \in Nat /\ CountIn(packetSendQ[m], L) \in Nat
      BY <1>1, <1>2, <3>1, TermsAreNumbers DEF UnderWay, Owed
    <3> HIDE DEF K, L, p
    <3>3. UnderWay(n, m, K)' = UnderWay(n, m, K)
      BY <1>7, <3>2 DEF UnderWay
    <3>4. CountIn(net[m][n], L) = CountIn(net'[m][n], L) + IF m = j /\ n = k THEN 1 ELSE 0
      BY <1>7, <3>2
    <3>5. /\ Owed(n, m) \in Nat /\ CountIn(ackQ[m], {n}) \in Nat /\ Unread(n, m) \in Nat
          /\ sendBudget[n][m] \in Nat /\ flowStrideCounter[m][n] \in Nat
          /\ FlowStride \in Nat
      BY <1>1, TermsAreNumbers, StrideType
    <3>6. UnderWay(n, m, K) \in Nat
      BY <1>7, <3>2 DEF UnderWay
    <3>7. Owed(n, m)' \in Nat /\ Owed(n, m) = Owed(n, m)' + IF m = j /\ n = k THEN 1 ELSE 0
      BY <1>7, <3>2, <3>4, <3>5 DEF UnderWay
    <3>8. Unread(n, m)' = Unread(n, m) /\ flowStrideCounter'[m][n] = flowStrideCounter[m][n]
      BY <1>2, <2>1 DEF Unread
    <3>9. sendBudget'[n][m] + FlowStride * Owed(n, m)' = sendBudget[n][m] + FlowStride * Owed(n, m)
      <4>1. CASE m = j /\ n = k
        <5>1. FlowStride * Owed(n, m) = FlowStride * Owed(n, m)' + FlowStride
          BY <3>5, <3>7, <4>1
        <5>2. FlowStride * Owed(n, m)' \in Nat
          BY <3>5, <3>7
        <5> QED BY <2>3, <3>5, <4>1, <5>1, <5>2
      <4>2. CASE ~(m = j /\ n = k)
        <5>1. sendBudget'[n][m] = sendBudget[n][m] /\ Owed(n, m)' = Owed(n, m)
          BY <2>3, <3>5, <3>7, <4>2
        <5> QED BY <5>1
      <4> QED BY <4>1, <4>2
    <3>10. FlowStride * Owed(n, m) \in Nat /\ FlowStride * Owed(n, m)' \in Nat /\ sendBudget'[n][m] \in Nat
      BY <2>3, <3>5, <3>7
    <3>11. /\ Account(n, m) = sendBudget[n][m] + UnderWay(n, m, K) + Unread(n, m)
                                + FlowStride * Owed(n, m) + flowStrideCounter[m][n]
           /\ Account(n, m)' = sendBudget'[n][m] + UnderWay(n, m, K)' + Unread(n, m)'
                                 + FlowStride * Owed(n, m)' + flowStrideCounter'[m][n]
      BY <1>8 DEF Account, K
    <3> DEFINE before == FlowStride * Owed(n, m)
               after  == FlowStride * Owed(n, m)'
    <3>12. /\ before \in Nat /\ after \in Nat /\ sendBudget'[n][m] \in Nat
           /\ sendBudget'[n][m] + after = sendBudget[n][m] + before
           /\ Account(n, m) = sendBudget[n][m] + UnderWay(n, m, K) + Unread(n, m)
                                + before + flowStrideCounter[m][n]
           /\ Account(n, m)' = sendBudget'[n][m] + UnderWay(n, m, K)' + Unread(n, m)'
                                 + after + flowStrideCounter'[m][n]
      BY <3>9, <3>10, <3>11
    <3> HIDE DEF before, after
    <3>13. Account(n, m)' = sendBudget'[n][m] + UnderWay(n, m, K) + Unread(n, m)
                              + after + flowStrideCounter[m][n]
      BY <3>3, <3>8, <3>12
    <3>14. sendBudget'[n][m] + UnderWay(n, m, K) + Unread(n, m) + after + flowStrideCounter[m][n]
             = sendBudget[n][m] + UnderWay(n, m, K) + Unread(n, m) + before + flowStrideCounter[m][n]
      <4>1. /\ sendBudget[n][m] \in Nat /\ Unread(n, m) \in Nat
            /\ UnderWay(n, m, K) \in Nat /\ flowStrideCounter[m][n] \in Nat
        BY <3>5, <3>6
      <4>2. /\ before \in Nat /\ after \in Nat /\ sendBudget'[n][m] \in Nat
            /\ sendBudget'[n][m] + after = sendBudget[n][m] + before
        BY <3>12
      <4> QED BY <4>1, <4>2
    <3> QED BY <3>12, <3>13, <3>14
  <2> QED BY <1>1, <1>8, <2>2, <2>4, <2>5 DEF AccountInv, AllAccounts, Share
<1>10. CASE p.kind = "data" /\ CmdSendData(k, j)
  <2> DEFINE r == [body |-> p.body, src |-> j]
  <2>1. /\ recvQ' = [recvQ EXCEPT ![k] = Append(@, r)]
        /\ sendBudget' = sendBudget
    BY <1>10 DEF CmdSendData
  <2>2. p \in DataTo(k) /\ p.body \in Msg
    BY <1>4, <1>10, PacketKinds
  <2>3. r \in Incoming /\ \A n \in Node : r \in [body : Msg, src : {n}] <=> n = j
    BY <2>2 DEF Incoming
  <2> HIDE DEF r
  <2>4. recvQ' \in [Node -> Seq(Incoming)]
    BY <1>1, <2>1, <2>3, PushType DEF QueuesTyped
  <2>5. QueuesTyped'
    <3> HIDE DEF rest
    <3> QED BY <1>1, <1>2, <1>5, <1>6, <2>4 DEF QueuesTyped
  <2>6. CountersTyped'
    BY <1>1, <1>2, <1>8, <2>1 DEF CountersTyped
  <2>7. ASSUME NEW n \in Node, NEW m \in Node
        PROVE  Account(n, m)' = Account(n, m)
    <3> DEFINE K == DataTo(m)
               L == {Ack(n)}
               I == [body : Msg, src : {n}]
    <3>1. p \in K <=> m = k
      BY <1>4, <2>2, PacketKinds
    <3>2. p \notin L
      BY <1>4, <1>10 DEF Ack
    <3>3. r \in I <=> n = j
      BY <2>3
    <3>4. /\ UnderWay(n, m, K)' = CountIn(net'[n][m], K) + CountIn(packetSendQ[n], K)
          /\ UnderWay(m, n, L)' = CountIn(net'[m][n], L) + CountIn(packetSendQ[m], L)
          /\ Owed(n, m)' = CountIn(ackQ[m], {n}) + UnderWay(m, n, L)'
          /\ Owed(n, m) = CountIn(ackQ[m], {n}) + UnderWay(m, n, L)
          /\ Unread(n, m) = CountIn(recvQ[m], I) /\ Unread(n, m)' = CountIn(recvQ'[m], I)
          /\ CountIn(packetSendQ[n], K) \in Nat /\ CountIn(packetSendQ[m], L) \in Nat
          /\ CountIn(recvQ[m], I) \in Nat
      BY <1>1, <1>2, TermsAreNumbers DEF UnderWay, Owed, Unread
    <3> HIDE DEF K, L, I, p
    <3>5. UnderWay(m, n, L)' = UnderWay(m, n, L)
      BY <1>7, <3>2, <3>4 DEF UnderWay
    <3>6. /\ UnderWay(n, m, K) = UnderWay(n, m, K)' + IF n = j /\ m = k THEN 1 ELSE 0
          /\ UnderWay(n, m, K)' \in Nat
      BY <1>7, <3>1, <3>4 DEF UnderWay
    <3>7. recvQ[m] \in Seq(Incoming) /\ recvQ'[m] = IF m = k THEN Append(recvQ[m], r) ELSE recvQ[m]
      BY <1>1, <2>1 DEF QueuesTyped
    <3>8. CountIn(recvQ'[m], I) = CountIn(recvQ[m], I) + IF m = k /\ n = j THEN 1 ELSE 0
      BY <2>3, <3>3, <3>4, <3>7, CountInAppend
    <3>9. sendBudget'[n][m] = sendBudget[n][m] /\ flowStrideCounter'[m][n] = flowStrideCounter[m][n]
          /\ Owed(n, m)' = Owed(n, m)
      BY <1>2, <2>1, <3>4, <3>5
    <3>10. UnderWay(n, m, K)' + Unread(n, m)' = UnderWay(n, m, K) + Unread(n, m)
      BY <3>4, <3>6, <3>8
    <3>11. /\ sendBudget[n][m] \in Nat /\ Unread(n, m)' \in Nat
           /\ UnderWay(n, m, K) \in Nat /\ Unread(n, m) \in Nat
      <4>1. sendBudget[n][m] \in Nat
        BY <1>1, TermsAreNumbers
      <4>2. UnderWay(n, m, K) \in Nat
        BY <3>6
      <4>3. Unread(n, m) \in Nat /\ Unread(n, m)' \in Nat
        BY <3>4, <3>8
      <4> QED BY <4>1, <4>2, <4>3
    <3>12. sendBudget'[n][m] + UnderWay(n, m, K)' + Unread(n, m)'
             = sendBudget[n][m] + UnderWay(n, m, K) + Unread(n, m)
      BY <3>6, <3>9, <3>10, <3>11
    <3> QED BY <1>8, <3>9, <3>12 DEF Account, K
  <2> QED BY <1>1, <1>8, <2>5, <2>6, <2>7 DEF AccountInv, AllAccounts, Share
<1> QED BY <1>2, <1>9, <1>10

\* What a user hands over waits in sendQ and counts for no account yet.
LEMMA UserSendKeeps ==
  ASSUME AccountInv, NEW k \in Node, NEW d \in Node, NEW b \in Msg, UserSend(k, d, b)
  PROVE  AccountInv'
<1> DEFINE s == [body |-> b, dst |-> d]
<1>1. QueuesTyped /\ CountersTyped /\ AllAccounts
  BY DEF AccountInv
<1>2. /\ sendQ' = [sendQ EXCEPT ![k] = Append(@, s)]
      /\ UNCHANGED <<deployment, sendBudget, recvQ, flowStrideCounter, packetSendQ, ackQ, net>>
  BY DEF UserSend, recvVars
<1>3. s \in Outgoing
  BY DEF Outgoing
<1>4. sendQ' \in [Node -> Seq(Outgoing)]
  BY <1>1, <1>2, <1>3, PushType DEF QueuesTyped
<1>5. QueuesTyped' /\ CountersTyped'
  <2>1. QueuesTyped'
    BY <1>1, <1>2, <1>4 DEF QueuesTyped
  <2>2. FlowStride' = FlowStride
    BY <1>2 DEF FlowStride, Dynamic
  <2> QED BY <1>1, <1>2, <2>1, <2>2 DEF CountersTyped
<1>6. ASSUME NEW n \in Node, NEW m \in Node
      PROVE  Account(n, m)' = Account(n, m)
  BY <1>2 DEF Account, Owed, Unread, UnderWay, DataTo, Ack, FlowStride, Dynamic
<1>7. Dynamic' = Dynamic /\ FlowStride' = FlowStride
  BY <1>2 DEF Dynamic, FlowStride
<1> QED BY <1>1, <1>5, <1>6, <1>7 DEF AccountInv, AllAccounts, Share

-----------------------------------------------------------------------------
\* The accounts are kept by every step.
LEMMA AccountHolds == Spec => []AccountInv
<1>1. Init => AccountInv
  BY InitAccount
<1>2. AccountInv /\ [Next]_vars => AccountInv'
  <2> SUFFICES ASSUME AccountInv, [Next]_vars PROVE AccountInv'
    OBVIOUS
  <2>1. ASSUME NEW n \in Node, InsertAckQ(n) PROVE AccountInv'
    BY <2>1, InsertAckKeeps, InsertDataKeeps DEF InsertAckQ
  <2>2. ASSUME NEW n \in Node, UserReceive(n) PROVE AccountInv'
    BY <2>2, UserReceiveKeeps
  <2>3. ASSUME NEW n \in Node, CmdReceive(n) PROVE AccountInv'
    BY <2>3, CmdReceiveKeeps
  <2>4. ASSUME NEW n \in Node, NEW m \in Node, CmdSend(n, m) PROVE AccountInv'
    BY <2>4, CmdSendKeeps
  <2>5. ASSUME NEW n \in Node, NEW m \in Node, NEW b \in Msg, UserSend(n, m, b)
        PROVE  AccountInv'
    BY <2>5, UserSendKeeps
  <2>6. CASE UNCHANGED vars
    <3>1. UNCHANGED <<deployment, sendQ, packetSendQ, sendBudget, recvQ,
                      flowStrideCounter, ackQ, net>>
      BY <2>6 DEF vars, sendVars, recvVars
    <3>2. QueuesTyped' /\ CountersTyped'
      BY <3>1 DEF AccountInv, QueuesTyped, CountersTyped, FlowStride, Dynamic
    <3>3. AllAccounts'
      <4>1. AllAccounts
        BY DEF AccountInv
      <4>2. FlowStride' = FlowStride /\ Dynamic' = Dynamic
        BY <3>1 DEF FlowStride, Dynamic
      <4>3. ASSUME NEW n \in Node, NEW m \in Node
            PROVE  /\ UnderWay(n, m, DataTo(m))' = UnderWay(n, m, DataTo(m))
                   /\ Unread(n, m)' = Unread(n, m) /\ Owed(n, m)' = Owed(n, m)
                   /\ sendBudget'[n][m] = sendBudget[n][m]
                   /\ flowStrideCounter'[m][n] = flowStrideCounter[m][n]
        BY <3>1 DEF Owed, Unread, UnderWay, DataTo, Ack
      <4> QED BY <4>1, <4>2, <4>3 DEF AllAccounts, Account, Share
    <3> QED BY <3>2, <3>3 DEF AccountInv
  <2> QED BY <2>1, <2>2, <2>3, <2>4, <2>5, <2>6 DEF Next
<1> QED BY <1>1, <1>2, PTL DEF Spec

\* For any number of nodes, any flows and any sizes, no buffer that a receiver
\* has set aside for a sender is lost or given twice, whether it is a place of
\* the budget, a message under way or unread, or an ack owed or under way.
THEOREM BuffersAccounted == Spec => []PairAccounting
<1>1. AccountInv => PairAccounting
  BY DEF AccountInv, AllAccounts, Account, Share, PairAccounting
<1> QED BY <1>1, AccountHolds, PTL

\* What one sender may have under way or unread at a receiver never exceeds its
\* share of recvQ: qSize, and for dynamic endpoints less than one stride more.
WithinShare == \A n, m \in Node : n # m =>
  UnderWay(n, m, DataTo(m)) + Unread(n, m)
    <= QSize + (IF Dynamic THEN FlowStride - 1 ELSE 0)

\* Every sender keeps to its share on every run of the endpoints: the credits it
\* holds are those its receiver set aside for it.
THEOREM SendersKeepTheirShare == Spec => []WithinShare
<1>1. AccountInv => WithinShare
  <2> SUFFICES ASSUME AccountInv, NEW n \in Node, NEW m \in Node, n # m
               PROVE  UnderWay(n, m, DataTo(m)) + Unread(n, m)
                        <= QSize + (IF Dynamic THEN FlowStride - 1 ELSE 0)
    BY DEF WithinShare
  <2> DEFINE U == UnderWay(n, m, DataTo(m))
             W == Unread(n, m)
             A == FlowStride * Owed(n, m)
             R == QSize + (IF Dynamic THEN FlowStride - 1 ELSE 0)
  <2>1. sendBudget[n][m] + U + W + A + flowStrideCounter[m][n] = R
    BY DEF AccountInv, AllAccounts, Account, Share
  <2>2. /\ sendBudget[n][m] \in Nat /\ W \in Nat /\ flowStrideCounter[m][n] \in Nat
        /\ Owed(n, m) \in Nat /\ CountIn(net[n][m], DataTo(m)) \in Nat
        /\ CountIn(packetSendQ[n], DataTo(m)) \in Nat
    BY TermsAreNumbers DEF AccountInv
  <2>3. U \in Nat
    BY <2>2 DEF UnderWay
  <2>4. A \in Nat
    BY <2>2, StrideType
  <2> HIDE DEF U, W, A, R
  <2>5. U + W <= R
    BY <2>1, <2>2, <2>3, <2>4
  <2> QED BY <2>5 DEF U, W, R
<1>2. Spec => []AccountInv
  BY AccountHolds
<1> QED BY <1>1, <1>2, PTL

-----------------------------------------------------------------------------
\* No node has to do with itself: the users of a flow are on two nodes.
Others(n) == Node \ {n}
Leaving(n) == {p \in AnyPacket : p.dst \in Others(n)}
KeepsToOthers(n) ==
  /\ sendQ[n] \in Seq([body : Msg, dst : Others(n)])
  /\ packetSendQ[n] \in Seq(Leaving(n))
  /\ recvQ[n] \in Seq([body : Msg, src : Others(n)])
  /\ ackQ[n] \in Seq(Others(n))
  /\ net[n][n] = << >>
NoSelf == \A n \in Node : KeepsToOthers(n)

\* No node has to do with itself at first ...
LEMMA InitNoSelf == Init => NoSelf
BY DEF Init, NoSelf, KeepsToOthers, Matrix

\* ... nor by an ack sent to a sender,
LEMMA InsertAckNoSelf ==
  ASSUME AccountInv, NoSelf, NEW k \in Node, InsertAck(k) PROVE NoSelf'
<1> DEFINE d == Head(ackQ[k])
<1>1. /\ ackQ[k] # << >> /\ ackQ' = [ackQ EXCEPT ![k] = Tail(@)]
      /\ packetSendQ' = [packetSendQ EXCEPT ![k] = Append(@, Ack(d))]
      /\ UNCHANGED <<sendQ, recvQ, net>>
  BY DEF InsertAck, CanAck, sendVars, recvVars
<1>2. ackQ[k] \in Seq(Others(k)) /\ packetSendQ[k] \in Seq(Leaving(k))
  BY DEF NoSelf, KeepsToOthers
<1>3. d \in Others(k) /\ Tail(ackQ[k]) \in Seq(Others(k))
  BY <1>1, <1>2
<1>4. Ack(d) \in Leaving(k)
  BY <1>3 DEF Leaving, AnyPacket, AckPacket, Ack, Others
<1>5. Append(packetSendQ[k], Ack(d)) \in Seq(Leaving(k))
  BY <1>2, <1>4
<1> HIDE DEF d
<1>6. ASSUME NEW n \in Node PROVE KeepsToOthers(n)'
  <2>1. KeepsToOthers(n) /\ ackQ \in [Node -> Seq(Node)] /\ packetSendQ \in [Node -> Seq(AnyPacket)]
    BY DEF NoSelf, AccountInv, QueuesTyped
  <2>2. /\ ackQ'[n] = IF n = k THEN Tail(ackQ[k]) ELSE ackQ[n]
        /\ packetSendQ'[n] = IF n = k THEN Append(packetSendQ[k], Ack(d)) ELSE packetSendQ[n]
    BY <1>1, <2>1
  <2> QED BY <1>1, <1>3, <1>5, <2>1, <2>2 DEF KeepsToOthers, Leaving, Others
<1> QED BY <1>6 DEF NoSelf

\* a message sent to a destination,
LEMMA InsertDataNoSelf ==
  ASSUME AccountInv, NoSelf, NEW k \in Node, InsertData(k) PROVE NoSelf'
<1> DEFINE s == Head(sendQ[k])
<1>1. /\ sendQ[k] # << >> /\ sendQ' = [sendQ EXCEPT ![k] = Tail(@)]
      /\ packetSendQ' = [packetSendQ EXCEPT ![k] = Append(@, Packet(s))]
      /\ UNCHANGED <<ackQ, recvQ, net>>
  BY DEF InsertData, recvVars
<1>2. /\ sendQ[k] \in Seq([body : Msg, dst : Others(k)])
      /\ packetSendQ[k] \in Seq(Leaving(k))
  BY DEF NoSelf, KeepsToOthers
<1>3. s \in [body : Msg, dst : Others(k)] /\ Tail(sendQ[k]) \in Seq([body : Msg, dst : Others(k)])
  BY <1>1, <1>2, HeadTailType
<1>4. Packet(s) \in Leaving(k)
  <2> HIDE DEF s
  <2> QED BY <1>3 DEF Leaving, AnyPacket, DataPacket, Packet, Others
<1>5. Append(packetSendQ[k], Packet(s)) \in Seq(Leaving(k))
  BY <1>2, <1>4
<1> HIDE DEF s
<1>6. ASSUME NEW n \in Node PROVE KeepsToOthers(n)'
  <2>1. KeepsToOthers(n) /\ sendQ \in [Node -> Seq(Outgoing)] /\ packetSendQ \in [Node -> Seq(AnyPacket)]
    BY DEF NoSelf, AccountInv, QueuesTyped
  <2>2. /\ sendQ'[n] = IF n = k THEN Tail(sendQ[k]) ELSE sendQ[n]
        /\ packetSendQ'[n] = IF n = k THEN Append(packetSendQ[k], Packet(s)) ELSE packetSendQ[n]
    BY <1>1, <2>1
  <2> QED BY <1>1, <1>3, <1>5, <2>1, <2>2 DEF KeepsToOthers, Leaving, Others
<1> QED BY <1>6 DEF NoSelf

\* a message read and perhaps to be acked,
LEMMA UserReceiveNoSelf ==
  ASSUME AccountInv, NoSelf, NEW k \in Node, UserReceive(k) PROVE NoSelf'
<1> DEFINE src == Head(recvQ[k]).src
           due == AckIsDue(k, src)
           K   == [body : Msg, src : Others(k)]
<1>1. /\ recvQ[k] # << >> /\ recvQ' = [recvQ EXCEPT ![k] = Tail(@)]
      /\ ackQ' = IF due THEN [ackQ EXCEPT ![k] = Append(@, src)] ELSE ackQ
      /\ UNCHANGED <<sendQ, packetSendQ, net>>
  BY DEF UserReceive, sendVars
<1>2. recvQ[k] \in Seq(K) /\ ackQ[k] \in Seq(Others(k))
  BY DEF NoSelf, KeepsToOthers
<1>3. Head(recvQ[k]) \in K /\ Tail(recvQ[k]) \in Seq(K)
  BY <1>1, <1>2, HeadTailType
<1>4. src \in Others(k)
  BY <1>3
<1>5. Append(ackQ[k], src) \in Seq(Others(k))
  BY <1>2, <1>4
<1> HIDE DEF src, due
<1>6. ASSUME NEW n \in Node PROVE KeepsToOthers(n)'
  <2>1. KeepsToOthers(n) /\ recvQ \in [Node -> Seq(Incoming)] /\ ackQ \in [Node -> Seq(Node)]
    BY DEF NoSelf, AccountInv, QueuesTyped
  <2>2. /\ recvQ'[n] = IF n = k THEN Tail(recvQ[k]) ELSE recvQ[n]
        /\ ackQ'[n] = IF due /\ n = k THEN Append(ackQ[k], src) ELSE ackQ[n]
    BY <1>1, <2>1
  <2> QED BY <1>1, <1>3, <1>5, <2>1, <2>2 DEF KeepsToOthers, Leaving, Others
<1> QED BY <1>6 DEF NoSelf

\* a packet taken by the network,
LEMMA CmdReceiveNoSelf ==
  ASSUME AccountInv, NoSelf, NEW k \in Node, CmdReceive(k) PROVE NoSelf'
<1> DEFINE p == Head(packetSendQ[k])
<1>1. /\ packetSendQ[k] # << >> /\ packetSendQ' = [packetSendQ EXCEPT ![k] = Tail(@)]
      /\ net' = [net EXCEPT ![k][p.dst] = Append(@, p)]
      /\ UNCHANGED <<sendQ, recvQ, ackQ>>
  BY DEF CmdReceive, sendVars, recvVars
<1>2. packetSendQ[k] \in Seq(Leaving(k))
  BY DEF NoSelf, KeepsToOthers
<1>3. p \in Leaving(k) /\ Tail(packetSendQ[k]) \in Seq(Leaving(k))
  BY <1>1, <1>2
<1>4. p.dst \in Node /\ p.dst # k
  BY <1>3 DEF Leaving, Others
<1> HIDE DEF p
<1>5. ASSUME NEW n \in Node PROVE KeepsToOthers(n)'
  <2>1. /\ KeepsToOthers(n) /\ packetSendQ \in [Node -> Seq(AnyPacket)]
        /\ net \in [Node -> [Node -> Seq(AnyPacket)]]
    BY DEF NoSelf, AccountInv, QueuesTyped
  <2>2. packetSendQ'[n] = IF n = k THEN Tail(packetSendQ[k]) ELSE packetSendQ[n]
    BY <1>1, <2>1
  <2>3. net'[n][n] = net[n][n]
    BY <1>1, <1>4, <2>1
  <2> QED BY <1>1, <1>3, <2>1, <2>2, <2>3 DEF KeepsToOthers, Leaving, Others
<1> QED BY <1>5 DEF NoSelf

\* a packet delivered,
LEMMA CmdSendNoSelf ==
  ASSUME AccountInv, NoSelf, NEW k \in Node, NEW j \in Node, CmdSend(k, j) PROVE NoSelf'
<1> DEFINE p == Head(net[j][k])
<1>1. /\ net[j][k] # << >> /\ net' = [net EXCEPT ![j][k] = Tail(@)]
      /\ UNCHANGED <<sendQ, packetSendQ, ackQ>>
      /\ \/ p.kind = "ack" /\ recvQ' = recvQ
         \/ /\ p.kind = "data"
            /\ recvQ' = [recvQ EXCEPT ![k] = Append(@, [body |-> p.body, src |-> j])]
  BY DEF CmdSend, CmdSendAck, CmdSendData
<1>2. j # k
  BY <1>1 DEF NoSelf, KeepsToOthers
<1>3. net[j][k] \in Seq(AnyPacket)
  BY DEF AccountInv, QueuesTyped
<1>4. p \in AnyPacket
  BY <1>1, <1>3
<1>5. p.kind = "data" => p.body \in Msg
  BY <1>4 DEF AnyPacket, AckPacket, DataPacket
<1> HIDE DEF p
<1>6. ASSUME NEW n \in Node PROVE KeepsToOthers(n)'
  <2>1. /\ KeepsToOthers(n) /\ recvQ \in [Node -> Seq(Incoming)]
        /\ net \in [Node -> [Node -> Seq(AnyPacket)]]
    BY DEF NoSelf, AccountInv, QueuesTyped
  <2>2. net'[n][n] = net[n][n]
    BY <1>1, <1>2, <2>1
  <2>3. recvQ'[n] \in Seq([body : Msg, src : Others(n)])
    <3> DEFINE K == [body : Msg, src : Others(n)]
               r == [body |-> p.body, src |-> j]
    <3>1. recvQ[n] \in Seq(K)
      BY <2>1 DEF KeepsToOthers
    <3>2. CASE recvQ' = recvQ \/ n # k
      <4>1. recvQ'[n] = recvQ[n]
        BY <1>1, <2>1, <3>2
      <4> QED BY <3>1, <4>1
    <3>3. CASE recvQ' # recvQ /\ n = k
      <4>1. r \in K
        BY <1>1, <1>2, <1>5, <3>3 DEF Others
      <4>2. recvQ'[n] = Append(recvQ[n], r)
        BY <1>1, <2>1, <3>3
      <4> HIDE DEF K, r
      <4>3. Append(recvQ[n], r) \in Seq(K)
        BY <3>1, <4>1
      <4> QED BY <4>2, <4>3 DEF K
    <3> QED BY <3>2, <3>3
  <2> QED BY <1>1, <2>1, <2>2, <2>3 DEF KeepsToOthers, Leaving, Others
<1> QED BY <1>6 DEF NoSelf

\* or a message handed over by the user of a flow.
LEMMA UserSendNoSelf ==
  ASSUME AccountInv, NoSelf, NEW k \in Node, NEW d \in Node, NEW b \in Msg, UserSend(k, d, b)
  PROVE  NoSelf'
<1> DEFINE s == [body |-> b, dst |-> d]
<1>1. /\ sendQ' = [sendQ EXCEPT ![k] = Append(@, s)] /\ <<k, d>> \in deployment.flows
      /\ UNCHANGED <<packetSendQ, recvQ, ackQ, net>>
  BY DEF UserSend, recvVars
<1>2. k # d
  <2>1. deployment \in Deployments
    BY DEF AccountInv, CountersTyped
  <2>2. <<k, d>> \in Flow
    BY <1>1, <2>1, DeploymentsAssumption
  <2> QED BY <2>2, FlowAssumption
<1>3. s \in [body : Msg, dst : Others(k)]
  BY <1>2 DEF Others
<1>4. ASSUME NEW n \in Node PROVE KeepsToOthers(n)'
  <2>1. KeepsToOthers(n) /\ sendQ \in [Node -> Seq(Outgoing)]
    BY DEF NoSelf, AccountInv, QueuesTyped
  <2> HIDE DEF s
  <2>2. sendQ'[n] = IF n = k THEN Append(sendQ[k], s) ELSE sendQ[n]
    BY <1>1, <2>1
  <2>3. sendQ'[n] \in Seq([body : Msg, dst : Others(n)])
    <3> DEFINE K == [body : Msg, dst : Others(n)]
    <3>1. sendQ[n] \in Seq(K) /\ (n = k => s \in K)
      BY <1>3, <2>1 DEF KeepsToOthers
    <3> HIDE DEF K
    <3>2. sendQ'[n] \in Seq(K)
      BY <2>2, <3>1
    <3> QED BY <3>2 DEF K
  <2> QED BY <1>1, <2>1, <2>3 DEF KeepsToOthers, Leaving, Others
<1> QED BY <1>4 DEF NoSelf

-----------------------------------------------------------------------------
\* A dynamic receiver knows where its extra buffers are: what it has not given
\* away, together with the strides begun and the acks it owes.
BuffersAvailable == \A m \in Node :
  IF Dynamic
    THEN recvQAvail[m] + NodeCount * (FlowStride - 1)
           = ExtraSize + FlowStride * Len(ackQ[m]) + SumFunctionOnSet(flowStrideCounter[m], Node)
    ELSE recvQAvail[m] = 0
AvailInv == recvQAvail \in [Node -> Nat] /\ BuffersAvailable

\* The numbers of nodes and of extra buffers, and the strides begun.
LEMMA NodeCountType == NodeCount \in Nat /\ IsFiniteSet(Node)
BY NodeAssumption, FS_CardinalityType DEF NodeCount

\* The spare depth is a number and covers a full stride.
LEMMA ExtraSizeType == ExtraSize \in Nat /\ ExtraSize >= FlowStride
BY SizeAssumption, StrideType DEF ExtraSize

\* The strides a receiver has under way add up to a number.
LEMMA StridesBegun ==
  ASSUME CountersTyped, NEW m \in Node
  PROVE  SumFunctionOnSet(flowStrideCounter[m], Node) \in Int
<1>1. \A n \in Node : flowStrideCounter[m][n] \in Int
  BY StrideType DEF CountersTyped
<1> QED BY <1>1, NodeCountType, SumType

\* A dynamic receiver starts with all its extra buffers.
LEMMA InitAvail == Init => AvailInv
<1> SUFFICES ASSUME Init PROVE AvailInv
  OBVIOUS
<1>1. recvQAvail \in [Node -> Nat]
  BY ExtraSizeType DEF Init
<1>2. ASSUME NEW m \in Node, Dynamic
      PROVE  recvQAvail[m] + NodeCount * (FlowStride - 1)
               = ExtraSize + FlowStride * Len(ackQ[m]) + SumFunctionOnSet(flowStrideCounter[m], Node)
  <2> DEFINE c == FlowStride - 1
             f == flowStrideCounter[m]
  <2>1. c \in Int /\ \A n \in Node : f[n] = c
    BY <1>2, StrideType DEF Init, Matrix
  <2>2. recvQAvail[m] = ExtraSize /\ Len(ackQ[m]) = 0
    BY <1>2 DEF Init
  <2> HIDE DEF c, f
  <2>3. SumFunctionOnSet(f, Node) <= NodeCount * c /\ SumFunctionOnSet(f, Node) >= NodeCount * c
    BY <2>1, NodeCountType, SumBounds DEF NodeCount
  <2>4. SumFunctionOnSet(f, Node) \in Int /\ NodeCount * c \in Int
    BY <2>1, NodeCountType, SumType
  <2>5. SumFunctionOnSet(f, Node) = NodeCount * c
    BY <2>3, <2>4
  <2>6. FlowStride * Len(ackQ[m]) = 0
    BY <2>2, StrideType
  <2> QED BY <2>2, <2>4, <2>5, <2>6, ExtraSizeType DEF c, f
<1>3. ASSUME NEW m \in Node, ~Dynamic PROVE recvQAvail[m] = 0
  BY <1>3 DEF Init
<1> QED BY <1>1, <1>2, <1>3 DEF AvailInv, BuffersAvailable

\* The quantities of one receiver, and when they are kept.
LEMMA AvailSame ==
  ASSUME CountersTyped, AvailInv, UNCHANGED <<deployment, recvQAvail, ackQ, flowStrideCounter>>
  PROVE  AvailInv'
BY DEF AvailInv, BuffersAvailable, Dynamic, FlowStride, ExtraSize

\* The buffers given away by an ack are those of a stride.
LEMMA InsertAckAvail ==
  ASSUME AccountInv, AvailInv, NEW k \in Node, InsertAck(k) PROVE AvailInv'
<1>1. /\ ackQ[k] # << >> /\ (Dynamic => recvQAvail[k] >= FlowStride)
      /\ ackQ' = [ackQ EXCEPT ![k] = Tail(@)]
      /\ recvQAvail' = IF Dynamic THEN [recvQAvail EXCEPT ![k] = @ - FlowStride]
                                  ELSE recvQAvail
      /\ UNCHANGED <<deployment, flowStrideCounter>>
  BY DEF InsertAck, CanAck, recvVars
<1>2. Dynamic' = Dynamic /\ FlowStride' = FlowStride /\ ExtraSize' = ExtraSize
  BY <1>1 DEF Dynamic, FlowStride, ExtraSize
<1>3. FlowStride \in Nat \ {0} /\ recvQAvail \in [Node -> Nat] /\ ackQ \in [Node -> Seq(Node)]
  BY StrideType DEF AvailInv, AccountInv, QueuesTyped
<1>4. recvQAvail' \in [Node -> Nat]
  <2>1. Dynamic => recvQAvail[k] - FlowStride \in Nat
    BY <1>1, <1>3
  <2> QED BY <1>1, <1>3, <2>1
<1>5. ASSUME NEW m \in Node, Dynamic
      PROVE  recvQAvail'[m] + NodeCount * (FlowStride - 1)
               = ExtraSize + FlowStride * Len(ackQ'[m]) + SumFunctionOnSet(flowStrideCounter[m], Node)
  <2>1. recvQAvail[m] + NodeCount * (FlowStride - 1)
          = ExtraSize + FlowStride * Len(ackQ[m]) + SumFunctionOnSet(flowStrideCounter[m], Node)
    BY <1>5 DEF AvailInv, BuffersAvailable
  <2>2. CASE m # k
    BY <1>1, <1>3, <1>5, <2>1, <2>2
  <2>3. CASE m = k
    <3>1. ackQ'[m] = Tail(ackQ[m]) /\ Len(ackQ[m]) \in Nat \ {0}
      BY <1>1, <1>3, <2>3
    <3>2. Len(ackQ'[m]) = Len(ackQ[m]) - 1
      BY <1>1, <1>3, <2>3, <3>1
    <3> DEFINE l == Len(ackQ[m])
               g == NodeCount * (FlowStride - 1)
               s == SumFunctionOnSet(flowStrideCounter[m], Node)
    <3>3. FlowStride * (l - 1) = FlowStride * l - FlowStride /\ FlowStride * l \in Nat
      BY <1>3, <3>1
    <3>4. recvQAvail'[m] = recvQAvail[m] - FlowStride /\ recvQAvail[m] \in Nat
      BY <1>1, <1>3, <1>5, <2>3
    <3>5. g \in Int /\ s \in Int /\ ExtraSize \in Nat
      BY <1>3, NodeCountType, ExtraSizeType, StridesBegun DEF AccountInv
    <3>6. recvQAvail[m] + g = ExtraSize + FlowStride * l + s
      BY <2>1
    <3> DEFINE w == FlowStride * l
    <3>7. FlowStride * Len(ackQ'[m]) = w - FlowStride /\ w \in Nat
      BY <3>2, <3>3
    <3>8. recvQAvail[m] + g = ExtraSize + w + s
      BY <3>6
    <3> HIDE DEF l, g, s, w
    <3>9. recvQAvail'[m] + g = ExtraSize + FlowStride * Len(ackQ'[m]) + s
      BY <1>3, <3>4, <3>5, <3>7, <3>8
    <3> QED BY <3>9 DEF g, s
  <2> QED BY <2>2, <2>3
<1>6. ASSUME NEW m \in Node, ~Dynamic PROVE recvQAvail'[m] = 0
  BY <1>1, <1>6 DEF AvailInv, BuffersAvailable
<1> QED BY <1>1, <1>2, <1>4, <1>5, <1>6 DEF AvailInv, BuffersAvailable

\* A buffer read out belongs to a stride begun, or completes one.
LEMMA UserReceiveAvail ==
  ASSUME AccountInv, AvailInv, NEW k \in Node, UserReceive(k) PROVE AvailInv'
<1> DEFINE src == Head(recvQ[k]).src
           due == AckIsDue(k, src)
<1>1. /\ recvQ[k] # << >>
      /\ ackQ' = IF due THEN [ackQ EXCEPT ![k] = Append(@, src)] ELSE ackQ
      /\ flowStrideCounter' =
           [flowStrideCounter EXCEPT ![k][src] = IF due THEN 0 ELSE @ + 1]
      /\ recvQAvail' = IF Dynamic THEN [recvQAvail EXCEPT ![k] = @ + 1] ELSE recvQAvail
      /\ UNCHANGED deployment
  BY DEF UserReceive
<1>2. Dynamic' = Dynamic /\ FlowStride' = FlowStride /\ ExtraSize' = ExtraSize
  BY <1>1 DEF Dynamic, FlowStride, ExtraSize
<1>3. /\ FlowStride \in Nat \ {0} /\ recvQAvail \in [Node -> Nat]
      /\ ackQ \in [Node -> Seq(Node)]
      /\ flowStrideCounter \in [Node -> [Node -> 0 .. FlowStride - 1]]
  BY StrideType DEF AvailInv, AccountInv, QueuesTyped, CountersTyped
<1>4. src \in Node
  <2>1. recvQ[k] \in Seq(Incoming)
    BY DEF AccountInv, QueuesTyped
  <2>2. Head(recvQ[k]) \in Incoming
    BY <1>1, <2>1
  <2> QED BY <2>2 DEF Incoming
<1>5. due <=> flowStrideCounter[k][src] + 1 >= FlowStride
  BY DEF AckIsDue
<1> HIDE DEF src, due
<1>6. recvQAvail' \in [Node -> Nat]
  BY <1>1, <1>3
<1>7. ASSUME NEW m \in Node, Dynamic
      PROVE  recvQAvail'[m] + NodeCount * (FlowStride - 1)
               = ExtraSize + FlowStride * Len(ackQ'[m]) + SumFunctionOnSet(flowStrideCounter'[m], Node)
  <2>1. recvQAvail[m] + NodeCount * (FlowStride - 1)
          = ExtraSize + FlowStride * Len(ackQ[m]) + SumFunctionOnSet(flowStrideCounter[m], Node)
    BY <1>7 DEF AvailInv, BuffersAvailable
  <2>2. CASE m # k
    BY <1>1, <1>3, <1>7, <2>1, <2>2
  <2>3. CASE m = k
    <3> DEFINE f == flowStrideCounter[m]
               e == flowStrideCounter'[m]
               l == Len(ackQ[m])
               g == NodeCount * (FlowStride - 1)
               s == SumFunctionOnSet(f, Node)
               z == SumFunctionOnSet(e, Node)
               w == FlowStride * l
    <3>1. f[src] \in 0 .. FlowStride - 1 /\ e[src] = IF due THEN 0 ELSE f[src] + 1
      BY <1>1, <1>3, <1>4, <2>3
    <3>2. \A y \in Node : y # src => f[y] = e[y]
      BY <1>1, <1>3, <1>4, <2>3
    <3>3. \A y \in Node : f[y] \in Int
      BY <1>3
    <3>4. recvQAvail'[m] = recvQAvail[m] + 1 /\ recvQAvail[m] \in Nat
      BY <1>1, <1>3, <1>7, <2>3
    <3>5. g \in Int /\ s \in Int /\ ExtraSize \in Nat /\ l \in Nat /\ w \in Nat
      BY <1>3, NodeCountType, ExtraSizeType, StridesBegun DEF AccountInv
    <3>6. Len(ackQ'[m]) = IF due THEN l + 1 ELSE l
      BY <1>1, <1>3, <1>4, <2>3
    <3>7. recvQAvail[m] + g = ExtraSize + w + s
      BY <2>1
    <3>8. FlowStride * (l + 1) = w + FlowStride
      BY <1>3, <3>5
    <3>9. FlowStride * Len(ackQ'[m]) = IF due THEN w + FlowStride ELSE w
      <4> HIDE DEF g, s, z, f, e
      <4> QED BY <3>6, <3>8
    <3> HIDE DEF f, e, l, g, s, w
    <3>10. \A y \in Node : f[y] \in Int /\ e[y] \in Int /\ (y # src => f[y] = e[y])
      <4>1. FlowStride \in Int /\ f[src] \in Int
        BY <1>3, <1>4, <3>3
      <4>2. e[src] \in Int
        BY <3>1, <4>1
      <4> QED BY <3>2, <3>3, <4>2
    <3>11. z = s - f[src] + e[src]
      BY <1>4, <3>10, NodeCountType, SumPut DEF s
    <3> HIDE DEF z
    <3>12. due => f[src] = FlowStride - 1
      BY <1>3, <1>5, <2>3, <3>1 DEF f
    <3>13. recvQAvail'[m] + g = ExtraSize + FlowStride * Len(ackQ'[m]) + z
      <4>1. f[src] \in Int
        BY <1>4, <3>3
      <4>2. CASE due
        <5>1. z = s - (FlowStride - 1)
          BY <1>3, <3>1, <3>5, <3>11, <3>12, <4>2
        <5>2. FlowStride * Len(ackQ'[m]) = w + FlowStride
          BY <3>9, <4>2
        <5> HIDE DEF g
        <5>3. recvQAvail[m] + 1 + g = ExtraSize + (w + FlowStride) + (s - (FlowStride - 1))
          <6>1. FlowStride \in Int /\ ExtraSize \in Int /\ recvQAvail[m] \in Int
            BY <1>3, <3>4, <3>5
          <6>2. g \in Int /\ w \in Int /\ s \in Int
            BY <3>5
          <6> QED BY <6>1, <6>2, <3>7, Regroup
        <5> QED BY <3>4, <5>1, <5>2, <5>3
      <4>3. CASE ~due
        <5>1. z = s + 1
          BY <3>1, <3>5, <3>11, <4>1, <4>3
        <5>2. FlowStride * Len(ackQ'[m]) = w
          BY <3>9, <4>3
        <5> HIDE DEF g
        <5>3. recvQAvail[m] + 1 + g = ExtraSize + w + (s + 1)
          <6>1. ExtraSize \in Int /\ recvQAvail[m] \in Int
            BY <3>4, <3>5
          <6>2. g \in Int /\ w \in Int /\ s \in Int
            BY <3>5
          <6> QED BY <6>1, <6>2, <3>7
        <5> QED BY <3>4, <5>1, <5>2, <5>3
      <4> QED BY <4>2, <4>3
    <3> QED BY <3>13 DEF g, z, e
  <2> QED BY <2>2, <2>3
<1>8. ASSUME NEW m \in Node, ~Dynamic PROVE recvQAvail'[m] = 0
  BY <1>1, <1>8 DEF AvailInv, BuffersAvailable
<1> QED BY <1>1, <1>2, <1>6, <1>7, <1>8 DEF AvailInv, BuffersAvailable

-----------------------------------------------------------------------------
\* No node has to do with itself, and a dynamic receiver's buffers add up.
LEMMA NoSelfHolds == Spec => [](AccountInv /\ NoSelf)
<1>1. AccountInv /\ NoSelf /\ [Next]_vars => NoSelf'
  <2> SUFFICES ASSUME AccountInv, NoSelf, [Next]_vars PROVE NoSelf'
    OBVIOUS
  <2>1. ASSUME NEW n \in Node, InsertAckQ(n) PROVE NoSelf'
    BY <2>1, InsertAckNoSelf, InsertDataNoSelf DEF InsertAckQ
  <2>2. ASSUME NEW n \in Node, UserReceive(n) PROVE NoSelf'
    BY <2>2, UserReceiveNoSelf
  <2>3. ASSUME NEW n \in Node, CmdReceive(n) PROVE NoSelf'
    BY <2>3, CmdReceiveNoSelf
  <2>4. ASSUME NEW n \in Node, NEW m \in Node, CmdSend(n, m) PROVE NoSelf'
    BY <2>4, CmdSendNoSelf
  <2>5. ASSUME NEW n \in Node, NEW m \in Node, NEW b \in Msg, UserSend(n, m, b)
        PROVE  NoSelf'
    BY <2>5, UserSendNoSelf
  <2>6. CASE UNCHANGED vars
    BY <2>6 DEF vars, sendVars, recvVars, NoSelf, KeepsToOthers, Others, Leaving
  <2> QED BY <2>1, <2>2, <2>3, <2>4, <2>5, <2>6 DEF Next
<1> QED BY <1>1, InitNoSelf, AccountHolds, PTL DEF Spec

\* The buffers of a dynamic receiver always add up.
LEMMA AvailHolds == Spec => []AvailInv
<1>1. AccountInv /\ AvailInv /\ [Next]_vars => AvailInv'
  <2> SUFFICES ASSUME AccountInv, AvailInv, [Next]_vars PROVE AvailInv'
    OBVIOUS
  <2>0. CountersTyped
    BY DEF AccountInv
  <2>1. ASSUME NEW n \in Node, InsertAckQ(n) PROVE AvailInv'
    <3>1. CASE InsertAck(n)
      BY <3>1, InsertAckAvail
    <3>2. CASE InsertData(n)
      BY <2>0, <3>2, AvailSame DEF InsertData, recvVars
    <3> QED BY <2>1, <3>1, <3>2 DEF InsertAckQ
  <2>2. ASSUME NEW n \in Node, UserReceive(n) PROVE AvailInv'
    BY <2>2, UserReceiveAvail
  <2>3. ASSUME NEW n \in Node, CmdReceive(n) PROVE AvailInv'
    BY <2>0, <2>3, AvailSame DEF CmdReceive, recvVars
  <2>4. ASSUME NEW n \in Node, NEW m \in Node, CmdSend(n, m) PROVE AvailInv'
    BY <2>0, <2>4, AvailSame DEF CmdSend
  <2>5. ASSUME NEW n \in Node, NEW m \in Node, NEW b \in Msg, UserSend(n, m, b)
        PROVE  AvailInv'
    BY <2>0, <2>5, AvailSame DEF UserSend, recvVars
  <2>6. CASE UNCHANGED vars
    BY <2>0, <2>6, AvailSame DEF vars, sendVars, recvVars
  <2> QED BY <2>1, <2>2, <2>3, <2>4, <2>5, <2>6 DEF Next
<1> QED BY <1>1, InitAvail, AccountHolds, PTL DEF Spec

-----------------------------------------------------------------------------
\* What n may still send to m, has under way, or is being given.
Given(n, m) == sendBudget[n][m] + UnderWay(n, m, DataTo(m))
                 + FlowStride * UnderWay(m, n, {Ack(n)})
Asked(n, m) == CountIn(ackQ[m], {n})

\* The account of a pair, by where its parts are.
LEMMA GivenShare ==
  ASSUME AccountInv, NEW n \in Node, NEW m \in Node
  PROVE  /\ Given(n, m) \in Nat /\ Unread(n, m) \in Nat /\ Asked(n, m) \in Nat
         /\ flowStrideCounter[m][n] \in Nat /\ FlowStride * Asked(n, m) \in Nat
         /\ Share \in Nat /\ sendBudget[n][m] \in Nat /\ sendBudget[n][m] <= Given(n, m)
         /\ Given(n, m) + Unread(n, m) + FlowStride * Asked(n, m) + flowStrideCounter[m][n] = Share
<1> DEFINE u == UnderWay(m, n, {Ack(n)})
           d == UnderWay(n, m, DataTo(m))
           a == Asked(n, m)
           b == sendBudget[n][m]
           x == FlowStride * a
           y == FlowStride * u
<1>1. /\ b \in Nat /\ flowStrideCounter[m][n] \in Nat /\ Unread(n, m) \in Nat /\ a \in Nat
      /\ CountIn(net[n][m], DataTo(m)) \in Nat /\ CountIn(packetSendQ[n], DataTo(m)) \in Nat
      /\ CountIn(net[m][n], {Ack(n)}) \in Nat /\ CountIn(packetSendQ[m], {Ack(n)}) \in Nat
  BY TermsAreNumbers DEF AccountInv, Asked
<1>2. u \in Nat /\ d \in Nat
  BY <1>1 DEF UnderWay
<1>3. FlowStride \in Nat /\ FlowStride >= 1 /\ QSize \in Nat
  BY StrideType
<1>4. b + d + Unread(n, m) + FlowStride * (a + u) + flowStrideCounter[m][n] = Share
  BY DEF AccountInv, AllAccounts, Account, Owed, Asked
<1>5. Share \in Nat
  BY <1>3 DEF Share
<1>6. Given(n, m) = b + d + y
  BY DEF Given
<1> HIDE DEF u, d, a, b
<1>7. FlowStride * (a + u) = x + y
  BY <1>1, <1>2, <1>3, Distribute
<1>8. x \in Nat /\ y \in Nat
  BY <1>1, <1>2, <1>3, ProductType
<1> HIDE DEF x, y
<1>9. b + d + Unread(n, m) + (x + y) + flowStrideCounter[m][n] = Share
  BY <1>4, <1>7
<1>10. Given(n, m) + Unread(n, m) + x + flowStrideCounter[m][n] = Share
  BY <1>1, <1>2, <1>6, <1>8, <1>9
<1>11. Given(n, m) \in Nat /\ b <= Given(n, m)
  BY <1>1, <1>2, <1>6, <1>8
<1> QED BY <1>1, <1>5, <1>8, <1>10, <1>11 DEF x, a, b

\* Every unread message has a sender, and every ack in ackQ is owed to one.
LEMMA UnreadSum ==
  ASSUME AccountInv, NEW m \in Node
  PROVE  SumFunctionOnSet([n \in Node |-> Unread(n, m)], Node) = Len(recvQ[m])
<1> DEFINE cl == [w \in Incoming |-> w.src]
           q == recvQ[m]
<1>1. q \in Seq(Incoming) /\ cl \in [Incoming -> Node]
  BY DEF AccountInv, QueuesTyped, Incoming
<1>2. \A n \in Node : {w \in Incoming : cl[w] = n} = [body : Msg, src : {n}]
  BY DEF Incoming
<1>3. [n \in Node |-> Unread(n, m)] = Sorted(q, Incoming, Node, cl)
  BY <1>2 DEF Sorted, Unread
<1> HIDE DEF cl, q
<1>4. SumFunctionOnSet(Sorted(q, Incoming, Node, cl), Node) = Len(q)
  BY <1>1, NodeCountType, CountsSumToLen
<1> QED BY <1>3, <1>4 DEF q

\* Every ack in ackQ is owed to one sender.
LEMMA AskedSum ==
  ASSUME AccountInv, NEW m \in Node
  PROVE  SumFunctionOnSet([n \in Node |-> Asked(n, m)], Node) = Len(ackQ[m])
<1> DEFINE cl == [w \in Node |-> w]
           q == ackQ[m]
<1>1. q \in Seq(Node) /\ cl \in [Node -> Node]
  BY DEF AccountInv, QueuesTyped
<1>2. \A n \in Node : {w \in Node : cl[w] = n} = {n}
  OBVIOUS
<1>3. [n \in Node |-> Asked(n, m)] = Sorted(q, Node, Node, cl)
  BY <1>2 DEF Sorted, Asked
<1> HIDE DEF cl, q
<1>4. SumFunctionOnSet(Sorted(q, Node, Node, cl), Node) = Len(q)
  BY <1>1, NodeCountType, CountsSumToLen
<1> QED BY <1>3, <1>4 DEF q

\* The accounts of a receiver with all the nodes, added up.
LEMMA AccountsSum ==
  ASSUME AccountInv, NEW m \in Node
  PROVE  LET G == SumFunctionOnSet([n \in Node |-> Given(n, m)], Node)
             C == SumFunctionOnSet(flowStrideCounter[m], Node)
         IN  /\ G \in Nat /\ C \in Nat /\ NodeCount * Share \in Int
             /\ FlowStride * Len(ackQ[m]) \in Nat /\ Len(recvQ[m]) \in Nat
             /\ G + Len(recvQ[m]) + FlowStride * Len(ackQ[m]) + C = NodeCount * Share
<1> DEFINE g == [n \in Node |-> Given(n, m)]
           u == [n \in Node |-> Unread(n, m)]
           a == [n \in Node |-> Asked(n, m)]
           x == [n \in Node |-> FlowStride * a[n]]
           c == flowStrideCounter[m]
           gu == [n \in Node |-> g[n] + u[n]]
           gux == [n \in Node |-> gu[n] + x[n]]
           all == [n \in Node |-> gux[n] + c[n]]
           Sum(f) == SumFunctionOnSet(f, Node)
<1>0. IsFiniteSet(Node) /\ FlowStride \in Nat /\ Share \in Nat
  BY NodeCountType, StrideType DEF Share
<1>1. \A n \in Node : /\ g[n] \in Nat /\ u[n] \in Nat /\ a[n] \in Nat /\ c[n] \in Nat
                      /\ FlowStride * a[n] \in Nat
                      /\ g[n] + u[n] + FlowStride * a[n] + c[n] = Share
  BY GivenShare
<1>2. Sum(u) = Len(recvQ[m]) /\ Sum(a) = Len(ackQ[m])
  BY UnreadSum, AskedSum
<1>3. \A n \in Node : /\ x[n] = FlowStride * a[n] /\ gu[n] = g[n] + u[n]
                      /\ gux[n] = gu[n] + x[n] /\ all[n] = gux[n] + c[n]
  OBVIOUS
<1> HIDE DEF g, u, a, c, gu, gux, all
<1>4. Sum(x) = FlowStride * Sum(a)
  <2>1. \A n \in Node : a[n] \in Int
    BY <1>1
  <2> QED BY <1>0, <2>1, SumTimes
<1> HIDE DEF x
<1>5. Sum(gu) = Sum(g) + Sum(u)
  BY <1>0, <1>1, <1>3, SumPlus
<1>6. \A n \in Node : gu[n] \in Int /\ x[n] \in Int
  BY <1>1, <1>3
<1>7. Sum(gux) = Sum(gu) + Sum(x)
  BY <1>0, <1>3, <1>6, SumPlus
<1>8. \A n \in Node : gux[n] \in Int /\ c[n] \in Int
  BY <1>1, <1>3, <1>6
<1>9. Sum(all) = Sum(gux) + Sum(c)
  BY <1>0, <1>3, <1>8, SumPlus
<1>10. \A n \in Node : all[n] = Share
  BY <1>1, <1>3
<1>11. Sum(all) = NodeCount * Share /\ NodeCount * Share \in Int
  BY <1>0, <1>10, SumConstant DEF NodeCount
<1>12. Sum(g) \in Int /\ Sum(c) \in Int
  BY <1>0, <1>1, <1>8, SumType
<1>13. Sum(c) \in Nat /\ Sum(g) \in Nat
  BY <1>0, <1>1, SumNat
<1>14. Len(recvQ[m]) \in Nat /\ Len(ackQ[m]) \in Nat
  <2>1. recvQ[m] \in Seq(Incoming) /\ ackQ[m] \in Seq(Node)
    BY DEF AccountInv, QueuesTyped
  <2> QED BY <2>1
<1>15. FlowStride * Len(ackQ[m]) \in Nat
  BY <1>0, <1>14, ProductType
<1> DEFINE w == FlowStride * Len(ackQ[m])
<1>16. Sum(x) = w
  BY <1>2, <1>4
<1> HIDE DEF Sum, w
<1>17. Sum(g) + Len(recvQ[m]) + w + Sum(c) = NodeCount * Share
  BY <1>2, <1>5, <1>7, <1>9, <1>11, <1>16
<1> QED BY <1>11, <1>12, <1>13, <1>14, <1>15, <1>17 DEF Sum, w, g, c

-----------------------------------------------------------------------------
\* Lengths are numbers.
LEMMA LengthsAre ==
  ASSUME AccountInv, NEW m \in Node
  PROVE  Len(recvQ[m]) \in Nat /\ Len(ackQ[m]) \in Nat /\ Len(packetSendQ[m]) \in Nat
         /\ Len(sendQ[m]) \in Nat
<1>1. /\ recvQ[m] \in Seq(Incoming) /\ ackQ[m] \in Seq(Node)
      /\ packetSendQ[m] \in Seq(AnyPacket) /\ sendQ[m] \in Seq(Outgoing)
  BY DEF AccountInv, QueuesTyped
<1> QED BY <1>1

\* The buffers of a receiver suffice for all that its senders may send.
LEMMA BuffersSuffice ==
  ASSUME AccountInv, AvailInv, NEW m \in Node
  PROVE  LET G == SumFunctionOnSet([n \in Node |-> Given(n, m)], Node)
         IN  /\ G \in Nat /\ RecvQDepth \in Nat /\ Len(recvQ[m]) + recvQAvail[m] + G <= RecvQDepth
             /\ Dynamic => Len(recvQ[m]) + recvQAvail[m] + G = RecvQDepth
<1> DEFINE G == SumFunctionOnSet([n \in Node |-> Given(n, m)], Node)
           C == SumFunctionOnSet(flowStrideCounter[m], Node)
           L == Len(recvQ[m])
           w == FlowStride * Len(ackQ[m])
           s == NodeCount * Share
           q == NodeCount * QSize
           f == NodeCount * (FlowStride - 1)
<1>1. G \in Nat /\ C \in Nat /\ s \in Int /\ w \in Nat /\ L \in Nat /\ G + L + w + C = s
  BY AccountsSum
<1>2. /\ NodeCount \in Nat /\ QSize \in Nat /\ FlowStride \in Nat \ {0} /\ ExtraSize \in Nat
      /\ recvQAvail[m] \in Nat
  BY NodeCountType, StrideType, ExtraSizeType DEF AvailInv
<1>3. q \in Nat /\ f \in Nat
  BY <1>2, ProductType
<1>4. RecvQDepth = q + IF Dynamic THEN ExtraSize ELSE 0
  BY DEF RecvQDepth
<1>5. CASE Dynamic
  <2>1. recvQAvail[m] + f = ExtraSize + w + C
    BY <1>5 DEF AvailInv, BuffersAvailable
  <2>2. s = q + f
    <3>1. Share = QSize + (FlowStride - 1) /\ FlowStride - 1 \in Int
      BY <1>2, <1>5 DEF Share
    <3> QED BY <1>2, <3>1, Distribute
  <2>3. RecvQDepth = q + ExtraSize
    BY <1>4, <1>5
  <2> HIDE DEF G, C, L, w, s, q, f
  <2>4. L + recvQAvail[m] + G = RecvQDepth
    BY <1>1, <1>2, <1>3, <2>1, <2>2, <2>3
  <2>5. RecvQDepth \in Nat
    BY <1>2, <1>3, <2>3
  <2> QED BY <1>1, <1>2, <2>4, <2>5 DEF G, L
<1>6. CASE ~Dynamic
  <2>1. recvQAvail[m] = 0
    BY <1>6 DEF AvailInv, BuffersAvailable
  <2>2. s = q
    BY <1>2, <1>6 DEF Share
  <2>3. RecvQDepth = q
    BY <1>3, <1>4, <1>6
  <2> HIDE DEF G, C, L, w, s, q, f
  <2>4. L + recvQAvail[m] + G <= RecvQDepth
    BY <1>1, <1>2, <1>3, <2>1, <2>2, <2>3
  <2> QED BY <1>1, <1>3, <1>6, <2>3, <2>4 DEF G, L
<1> QED BY <1>5, <1>6

\* Every node but the receiver itself may be owed 1 + QSize / FlowStride acks.
LEMMA AcksFit ==
  ASSUME AccountInv, NoSelf, NEW m \in Node
  PROVE  Len(ackQ[m]) < AckQDepth
<1> DEFINE a == [n \in Node |-> Asked(n, m)]
           c == 1 + QSize \div FlowStride
           R == Node \ {m}
<1>1. ASSUME NEW n \in Node PROVE a[n] \in Nat /\ a[n] <= c /\ c \in Nat /\ c >= 1
  <2> DEFINE k == Asked(n, m)
  <2>1. FlowStride * k <= QSize + FlowStride - 1 /\ k \in Nat
    <3> DEFINE x == FlowStride * k
    <3>1. /\ Given(n, m) \in Nat /\ Unread(n, m) \in Nat /\ k \in Nat /\ x \in Nat
          /\ flowStrideCounter[m][n] \in Nat /\ Share \in Nat
          /\ Given(n, m) + Unread(n, m) + x + flowStrideCounter[m][n] = Share
      BY GivenShare
    <3>2. Share <= QSize + FlowStride - 1
      BY StrideType DEF Share
    <3> HIDE DEF x
    <3>3. x <= QSize + FlowStride - 1
      BY <3>1, <3>2, StrideType
    <3> QED BY <3>1, <3>3 DEF x
  <2> HIDE DEF k
  <2>2. QSize \div FlowStride \in Nat /\ k <= c
    BY <2>1, StrideType, DivBound
  <2> QED BY <2>1, <2>2 DEF k
<1>2. a[m] = 0
  <2>1. ackQ[m] \in Seq(Others(m))
    BY DEF NoSelf, KeepsToOthers
  <2>2. Places(ackQ[m], {m}) = {}
    <3>1. \A i \in DOMAIN ackQ[m] : ackQ[m][i] \in Others(m)
      BY <2>1
    <3> QED BY <3>1 DEF Places, Others
  <2> QED BY <2>2, FS_EmptySet DEF Asked, CountIn
<1>3. IsFiniteSet(Node) /\ IsFiniteSet(R) /\ Cardinality(R) = NodeCount - 1 /\ NodeCount \in Nat
      /\ Cardinality(R) \in Nat
  BY NodeCountType, FS_RemoveElement, FS_CardinalityType DEF NodeCount
<1>4. SumFunctionOnSet(a, Node) = Len(ackQ[m]) /\ Len(ackQ[m]) \in Nat
  BY AskedSum, LengthsAre
<1>5. AckQDepth = NodeCount * c
  BY DEF AckQDepth
<1> HIDE DEF a, c
<1>6. \A n \in Node : a[n] \in Int
  BY <1>1
<1>7. SumFunctionOnSet(a, Node) = a[m] + SumFunctionOnSet(a, R)
  BY <1>3, <1>6, SumTake
<1>8. c \in Int /\ \A n \in R : a[n] \in Int /\ a[n] <= c
  BY <1>1
<1> HIDE DEF R
<1>9. SumFunctionOnSet(a, R) <= Cardinality(R) * c
  BY <1>3, <1>8, SumBounds
<1>10. SumFunctionOnSet(a, R) \in Int
  BY <1>3, <1>8, SumType
<1>11. Len(ackQ[m]) <= (NodeCount - 1) * c
  BY <1>2, <1>3, <1>4, <1>7, <1>9, <1>10
<1>12. NodeCount * c = (NodeCount - 1) * c + c /\ (NodeCount - 1) * c \in Int
  <2>1. NodeCount - 1 \in Nat /\ NodeCount = (NodeCount - 1) + 1
    BY <1>3
  <2> QED BY <1>8, <2>1, OneMore
<1>13. Len(ackQ[m]) < NodeCount * c
  BY <1>1, <1>4, <1>11, <1>12
<1> QED BY <1>5, <1>13

-----------------------------------------------------------------------------
\* The network side of a node never holds more than its FIFO, and a user is in
\* at most one stride of a burst to each node.
SizesInv ==
  /\ \A n \in Node : Len(packetSendQ[n]) <= FifoDepth
  /\ burst \in [Node -> [Node -> 0 .. FlowStride - 1]]

\* Inserting a packet respects the FIFO's depth, removing one makes room.
LEMMA PacketsFit ==
  ASSUME AccountInv, SizesInv, NEW k \in Node, NEW p \in AnyPacket,
         \/ Len(packetSendQ[k]) < FifoDepth /\ packetSendQ' = [packetSendQ EXCEPT ![k] = Append(@, p)]
         \/ packetSendQ[k] # << >> /\ packetSendQ' = [packetSendQ EXCEPT ![k] = Tail(@)]
  PROVE  \A n \in Node : Len(packetSendQ'[n]) <= FifoDepth
<1>1. packetSendQ \in [Node -> Seq(AnyPacket)] /\ FifoDepth \in Nat
  BY SizeAssumption DEF AccountInv, QueuesTyped
<1>2. packetSendQ[k] \in Seq(AnyPacket) /\ Len(packetSendQ[k]) <= FifoDepth
  BY <1>1 DEF SizesInv
<1>3. \A n \in Node : n # k => packetSendQ'[n] = packetSendQ[n]
  BY <1>1
<1>4. Len(packetSendQ'[k]) <= FifoDepth
  <2>1. CASE Len(packetSendQ[k]) < FifoDepth /\ packetSendQ' = [packetSendQ EXCEPT ![k] = Append(@, p)]
    <3>1. packetSendQ'[k] = Append(packetSendQ[k], p)
      BY <1>1, <2>1
    <3>2. Len(packetSendQ'[k]) = Len(packetSendQ[k]) + 1 /\ Len(packetSendQ[k]) \in Nat
      BY <1>2, <3>1, LengthChanges
    <3> QED BY <1>1, <2>1, <3>2
  <2>2. CASE packetSendQ[k] # << >> /\ packetSendQ' = [packetSendQ EXCEPT ![k] = Tail(@)]
    <3>1. packetSendQ'[k] = Tail(packetSendQ[k])
      BY <1>1, <2>2
    <3>2. Len(packetSendQ'[k]) = Len(packetSendQ[k]) - 1 /\ Len(packetSendQ[k]) \in Nat
      BY <1>2, <2>2, <3>1, LengthChanges
    <3> QED BY <1>1, <1>2, <3>2
  <2> QED BY <2>1, <2>2
<1> QED BY <1>3, <1>4 DEF SizesInv

\* These bounds always hold.
LEMMA SizesHold == Spec => []SizesInv
<1>1. Init => SizesInv
  <2> SUFFICES ASSUME Init PROVE SizesInv
    OBVIOUS
  <2>1. FifoDepth \in Nat /\ 0 \in 0 .. FlowStride - 1
    BY SizeAssumption, StrideType
  <2> QED BY <2>1 DEF Init, SizesInv, Matrix
<1>2. AccountInv /\ SizesInv /\ [Next]_vars => SizesInv'
  <2> SUFFICES ASSUME AccountInv, SizesInv, [Next]_vars PROVE SizesInv'
    OBVIOUS
  <2>0. FlowStride \in Nat \ {0} /\ burst \in [Node -> [Node -> 0 .. FlowStride - 1]]
    BY StrideType DEF SizesInv
  <2>a. ASSUME UNCHANGED <<deployment, burst>>,
               \A n \in Node : Len(packetSendQ'[n]) <= FifoDepth
        PROVE  SizesInv'
    BY <2>0, <2>a DEF SizesInv, FlowStride, Dynamic
  <2>1. ASSUME NEW n \in Node, InsertAck(n) PROVE SizesInv'
    <3> DEFINE p == Ack(Head(ackQ[n]))
    <3>1. /\ ackQ[n] # << >> /\ Len(packetSendQ[n]) < FifoDepth
          /\ packetSendQ' = [packetSendQ EXCEPT ![n] = Append(@, p)]
          /\ UNCHANGED <<deployment, burst>>
      BY <2>1 DEF InsertAck, CanAck
    <3>2. p \in AnyPacket
      <4>1. Head(ackQ[n]) \in Node
        BY <3>1 DEF AccountInv, QueuesTyped
      <4> QED BY <4>1, PacketKinds DEF AnyPacket
    <3> HIDE DEF p
    <3> QED BY <2>a, <3>1, <3>2, PacketsFit
  <2>2. ASSUME NEW n \in Node, InsertData(n) PROVE SizesInv'
    <3> DEFINE p == Packet(Head(sendQ[n]))
    <3>1. /\ sendQ[n] # << >> /\ Len(packetSendQ[n]) < FifoDepth
          /\ packetSendQ' = [packetSendQ EXCEPT ![n] = Append(@, p)]
          /\ UNCHANGED <<deployment, burst>>
      BY <2>2 DEF InsertData
    <3>2. p \in AnyPacket
      <4>1. sendQ[n] \in Seq(Outgoing)
        BY DEF AccountInv, QueuesTyped
      <4>2. Head(sendQ[n]) \in Outgoing
        BY <3>1, <4>1, HeadTailType
      <4>3. Packet(Head(sendQ[n])) \in DataPacket
        BY <4>2, PacketKinds
      <4> QED BY <4>3 DEF AnyPacket
    <3> HIDE DEF p
    <3> QED BY <2>a, <3>1, <3>2, PacketsFit
  <2>3. ASSUME NEW n \in Node, CmdReceive(n) PROVE SizesInv'
    <3>1. /\ packetSendQ[n] # << >> /\ packetSendQ' = [packetSendQ EXCEPT ![n] = Tail(@)]
          /\ UNCHANGED <<deployment, burst>>
      BY <2>3 DEF CmdReceive
    <3>2. Head(packetSendQ[n]) \in AnyPacket
      BY <3>1 DEF AccountInv, QueuesTyped
    <3> QED BY <2>a, <3>1, <3>2, PacketsFit
  <2>4. ASSUME NEW n \in Node, NEW m \in Node, NEW b \in Msg, UserSend(n, m, b)
        PROVE  SizesInv'
    <3>1. /\ burst' = [burst EXCEPT ![n][m] = (@ + 1) % FlowStride]
          /\ UNCHANGED <<deployment, packetSendQ>>
      BY <2>4 DEF UserSend
    <3> DEFINE v == (burst[n][m] + 1) % FlowStride
    <3>2. v \in 0 .. FlowStride - 1
      <4>1. burst[n][m] + 1 \in Int
        BY <2>0
      <4> QED BY <2>0, <4>1, RemainderType
    <3>3. burst' = [burst EXCEPT ![n][m] = v]
      BY <3>1
    <3> HIDE DEF v
    <3>4. burst' \in [Node -> [Node -> 0 .. FlowStride - 1]]
      BY <2>0, <3>2, <3>3, MatrixPut
    <3> QED BY <3>1, <3>4 DEF SizesInv, FlowStride, Dynamic
  <2>5. CASE \/ \E n \in Node : UserReceive(n)
             \/ \E n, m \in Node : CmdSend(n, m)
             \/ UNCHANGED vars
    <3>1. UNCHANGED <<deployment, burst, packetSendQ>>
      BY <2>5 DEF UserReceive, CmdSend, vars
    <3> QED BY <2>a, <3>1 DEF SizesInv
  <2> QED BY <2>1, <2>2, <2>3, <2>4, <2>5 DEF Next, InsertAckQ
<1> QED BY <1>1, <1>2, AccountHolds, PTL DEF Spec

-----------------------------------------------------------------------------
\* For any number of nodes and any sizes, the queues, budgets and counters of
\* the endpoints keep their types and bounds; a dynamic receiver never counts
\* more buffers as its own than recvQ has.
THEOREM EndpointTypes == Spec => []TypeOK
<1>1. AccountInv /\ AvailInv /\ SizesInv => TypeOK
  <2> SUFFICES ASSUME AccountInv, AvailInv, SizesInv PROVE TypeOK
    OBVIOUS
  <2>1. QueuesTyped /\ CountersTyped
    BY DEF AccountInv
  <2>2. \A n \in Node : \A i \in DOMAIN sendQ[n] : sendQ[n][i] \in [body : Msg, dst : Node]
    <3>1. ASSUME NEW n \in Node PROVE sendQ[n] \in Seq(Outgoing)
      BY <2>1 DEF QueuesTyped
    <3>2. \A n \in Node : \A i \in DOMAIN sendQ[n] : sendQ[n][i] \in Outgoing
      BY <3>1
    <3> QED BY <3>2 DEF Outgoing
  <2>3. \A n \in Node : \A i \in DOMAIN recvQ[n] : recvQ[n][i] \in [body : Msg, src : Node]
    <3>1. ASSUME NEW n \in Node PROVE recvQ[n] \in Seq(Incoming)
      BY <2>1 DEF QueuesTyped
    <3>2. \A n \in Node : \A i \in DOMAIN recvQ[n] : recvQ[n][i] \in Incoming
      BY <3>1
    <3> QED BY <3>2 DEF Incoming
  <2>4. sendBudget \in [Node -> [Node -> 0 .. QSize + FlowStride - 1]]
    <3>1. ASSUME NEW n \in Node, NEW m \in Node
          PROVE  sendBudget[n][m] \in 0 .. QSize + FlowStride - 1
      <4> DEFINE x == FlowStride * Asked(n, m)
      <4>1. /\ Given(n, m) \in Nat /\ Unread(n, m) \in Nat /\ x \in Nat
            /\ flowStrideCounter[m][n] \in Nat /\ Share \in Nat
            /\ sendBudget[n][m] \in Nat /\ sendBudget[n][m] <= Given(n, m)
            /\ Given(n, m) + Unread(n, m) + x + flowStrideCounter[m][n] = Share
        BY GivenShare
      <4>2. Share <= QSize + FlowStride - 1
        BY StrideType DEF Share
      <4> HIDE DEF x
      <4> QED BY <4>1, <4>2, StrideType
    <3> QED BY <2>1, <3>1 DEF CountersTyped
  <2>5. recvQAvail \in [Node -> 0 .. RecvQDepth]
    <3>1. ASSUME NEW m \in Node PROVE recvQAvail[m] \in 0 .. RecvQDepth
      <4> DEFINE G == SumFunctionOnSet([n \in Node |-> Given(n, m)], Node)
      <4>1. G \in Nat /\ RecvQDepth \in Nat /\ Len(recvQ[m]) + recvQAvail[m] + G <= RecvQDepth
        BY BuffersSuffice
      <4>2. Len(recvQ[m]) \in Nat /\ recvQAvail[m] \in Nat
        BY LengthsAre DEF AvailInv
      <4> HIDE DEF G
      <4> QED BY <4>1, <4>2
    <3> QED BY <3>1 DEF AvailInv
  <2>6. \A n \in Node : ackQ[n] \in Seq(Node) /\ Len(packetSendQ[n]) <= FifoDepth
    BY <2>1 DEF QueuesTyped, SizesInv
  <2> QED BY <2>1, <2>2, <2>3, <2>4, <2>5, <2>6 DEF TypeOK, CountersTyped, SizesInv
<1> QED BY <1>1, AccountHolds, AvailHolds, SizesHold, PTL

\* For any number of nodes, flows, strides and queue sizes, recvQ has a buffer
\* for all that the senders may send, have under way or are being given: the
\* arbiter, which other endpoints share, never waits for an endpoint.
THEOREM ArbiterNeverWaits == Spec => []RecvQHasRoom
<1>1. AccountInv /\ AvailInv => RecvQHasRoom
  <2> SUFFICES ASSUME AccountInv, AvailInv, NEW m \in Node
               PROVE  Len(recvQ[m]) + recvQAvail[m]
                        + SumFunction([n \in Node |-> Given(n, m)]) <= RecvQDepth
    BY DEF RecvQHasRoom, Given
  <2> DEFINE g == [n \in Node |-> Given(n, m)]
  <2>1. SumFunction(g) = SumFunctionOnSet(g, Node)
    BY DEF SumFunction
  <2>2. Len(recvQ[m]) + recvQAvail[m] + SumFunctionOnSet(g, Node) <= RecvQDepth
    BY BuffersSuffice
  <2> QED BY <2>1, <2>2
<1> QED BY <1>1, AccountHolds, AvailHolds, PTL

\* A user that reads a message is never held back by the acks still waiting:
\* ackQ is never full, whatever the sizes.
THEOREM AcksNeverHoldUp == Spec => []AckQHasRoom
<1>1. AccountInv /\ NoSelf => AckQHasRoom
  BY AcksFit DEF AckQHasRoom
<1> QED BY <1>1, NoSelfHolds, PTL

-----------------------------------------------------------------------------
\* Modulo a stride, a budget tells how far a user is in its burst, not counting
\* the messages still in sendQ; and where a user that ends its bursts has sent
\* to another node behind a message, the bursts begun before were ended.
To(k) == [body : Msg, dst : {k}]
BudgetsInStep == \A n, k \in Node :
  Multiple(burst[n][k] - CountIn(sendQ[n], To(k)) + sendBudget[n][k] - QSize, FlowStride)
BurstsInOrder == \A n \in Node : \A i \in DOMAIN sendQ[n] : \A k \in Node :
  sendQ[n][i].dst # k => Multiple(burst[n][k] - CountIn(After(sendQ[n], i), To(k)), FlowStride)
BurstInv == BudgetsInStep /\ (Contiguous => BurstsInOrder)

\* The types of what budgets and bursts are compared by.
LEMMA BurstTypes ==
  ASSUME AccountInv, SizesInv, NEW n \in Node
  PROVE  /\ \A k \in Node : burst[n][k] \in Int /\ CountIn(sendQ[n], To(k)) \in Int
                            /\ sendBudget[n][k] \in Int
         /\ sendQ[n] \in Seq(Outgoing) /\ QSize \in Nat /\ FlowStride \in Nat \ {0}
<1>1. FlowStride \in Nat \ {0} /\ QSize \in Nat
  BY StrideType
<1>2. sendQ[n] \in Seq(Outgoing)
  BY DEF AccountInv, QueuesTyped
<1>3. \A k \in Node : CountIn(sendQ[n], To(k)) \in Nat
  BY <1>2, CountInType
<1>4. \A k \in Node : burst[n][k] \in 0 .. FlowStride - 1 /\ sendBudget[n][k] \in Nat
  BY DEF SizesInv, AccountInv, CountersTyped
<1> QED BY <1>1, <1>2, <1>3, <1>4

\* At first no burst is begun.
LEMMA InitBurst == Init => BurstInv
<1> SUFFICES ASSUME Init PROVE BurstInv
  OBVIOUS
<1>1. BudgetsInStep
  <2> SUFFICES ASSUME NEW n \in Node, NEW k \in Node
               PROVE  Multiple(burst[n][k] - CountIn(sendQ[n], To(k)) + sendBudget[n][k] - QSize, FlowStride)
    BY DEF BudgetsInStep
  <2>1. burst[n][k] = 0 /\ sendQ[n] = << >> /\ sendBudget[n][k] = QSize
    BY DEF Init, Matrix
  <2>2. CountIn(sendQ[n], To(k)) = 0
    BY <2>1, CountInEmpty
  <2>3. burst[n][k] - CountIn(sendQ[n], To(k)) + sendBudget[n][k] - QSize = 0
    BY <2>1, <2>2, StrideType
  <2> QED BY <2>3, StrideType, MultipleOnce
<1>2. BurstsInOrder
  BY DEF Init, BurstsInOrder
<1> QED BY <1>1, <1>2 DEF BurstInv

\* Steps that touch neither sendQ nor the bursts, and give whole strides.
LEMMA BurstSame ==
  ASSUME AccountInv, SizesInv, BurstInv, UNCHANGED <<deployment, sendQ, burst, sendBudget>>
  PROVE  BurstInv'
BY DEF BurstInv, BudgetsInStep, BurstsInOrder, FlowStride, Dynamic, To

\* An ack gives one whole stride.
LEMMA AckBurst ==
  ASSUME AccountInv, SizesInv, BurstInv, NEW x \in Node, NEW y \in Node,
         sendBudget' = [sendBudget EXCEPT ![x][y] = @ + FlowStride],
         UNCHANGED <<deployment, sendQ, burst>>
  PROVE  BurstInv'
<1>1. FlowStride' = FlowStride
  BY DEF FlowStride, Dynamic
<1>2. Contiguous => BurstsInOrder'
  BY <1>1 DEF BurstInv, BurstsInOrder, To
<1>3. ASSUME NEW n \in Node, NEW k \in Node
      PROVE  Multiple(burst'[n][k] - CountIn(sendQ'[n], To(k)) + sendBudget'[n][k] - QSize, FlowStride)
  <2> DEFINE b == burst[n][k]
             c == CountIn(sendQ[n], To(k))
             s == sendBudget[n][k]
  <2>1. b \in Int /\ c \in Int /\ s \in Int /\ QSize \in Nat /\ FlowStride \in Nat \ {0}
    BY BurstTypes
  <2>2. Multiple(b - c + s - QSize, FlowStride) /\ Multiple(FlowStride, FlowStride)
    BY <2>1, MultipleOnce DEF BurstInv, BudgetsInStep
  <2>3. sendBudget \in [Node -> [Node -> Nat]]
    BY DEF AccountInv, CountersTyped
  <2>4. sendBudget'[n][k] = IF n = x /\ k = y THEN s + FlowStride ELSE s
    BY <2>3
  <2> HIDE DEF b, c, s
  <2> DEFINE v == b - c + s - QSize
  <2>5. v \in Int /\ v + FlowStride = b - c + (s + FlowStride) - QSize /\ FlowStride \in Int
    BY <2>1
  <2>6. Multiple(v + FlowStride, FlowStride)
    <3> HIDE DEF v
    <3>1. Multiple(v, FlowStride)
      BY <2>2 DEF v
    <3> QED BY <2>1, <2>2, <2>5, <3>1, MultipleSum
  <2>7. Multiple(b - c + sendBudget'[n][k] - QSize, FlowStride)
    <3>1. b - c + sendBudget'[n][k] - QSize = IF n = x /\ k = y THEN v + FlowStride ELSE v
      BY <2>4, <2>5
    <3> QED BY <2>2, <2>6, <3>1
  <2> QED BY <2>7 DEF b, c
<1> QED BY <1>1, <1>2, <1>3 DEF BurstInv, BudgetsInStep, To

\* A message sent from sendQ uses a place of the budget.
LEMMA InsertDataBurst ==
  ASSUME AccountInv, SizesInv, BurstInv, NEW x \in Node, InsertData(x)
  PROVE  BurstInv'
<1> DEFINE s == Head(sendQ[x])
<1>1. /\ sendQ[x] # << >> /\ sendQ' = [sendQ EXCEPT ![x] = Tail(@)]
      /\ sendBudget' = [sendBudget EXCEPT ![x][s.dst] = @ - 1]
      /\ UNCHANGED <<deployment, burst>>
  BY DEF InsertData
<1>2. FlowStride' = FlowStride
  BY <1>1 DEF FlowStride, Dynamic
<1>3. /\ sendQ \in [Node -> Seq(Outgoing)] /\ sendQ[x] \in Seq(Outgoing)
      /\ sendBudget \in [Node -> [Node -> Nat]]
  BY DEF AccountInv, QueuesTyped, CountersTyped
<1>4. s \in Outgoing
  BY <1>1, <1>3, HeadTailType
<1>5. \A k \in Node : s \in To(k) <=> s.dst = k
  BY <1>4 DEF To, Outgoing
<1> HIDE DEF s
<1>6. ASSUME NEW n \in Node, NEW k \in Node
      PROVE  Multiple(burst'[n][k] - CountIn(sendQ'[n], To(k)) + sendBudget'[n][k] - QSize, FlowStride)
  <2> DEFINE b == burst[n][k]
             c == CountIn(sendQ[n], To(k))
             g == sendBudget[n][k]
             u == IF n = x /\ s.dst = k THEN 1 ELSE 0
  <2>1. b \in Int /\ c \in Int /\ g \in Int /\ QSize \in Nat
    BY BurstTypes
  <2>2. Multiple(b - c + g - QSize, FlowStride)
    BY DEF BurstInv, BudgetsInStep
  <2>3. sendBudget'[n][k] = g - u
    <3>1. s.dst \in Node
      BY <1>4 DEF Outgoing
    <3>2. sendBudget'[n][k] = IF n = x /\ k = s.dst THEN g - 1 ELSE g
      BY <1>1, <1>3, <3>1
    <3> QED BY <2>1, <3>2
  <2>4. CountIn(sendQ'[n], To(k)) = c - u
    <3>1. CASE n = x
      <4>1. sendQ'[n] = Tail(sendQ[x])
        BY <1>1, <1>3, <3>1
      <4>2. CountIn(sendQ[x], To(k))
              = CountIn(Tail(sendQ[x]), To(k)) + IF s \in To(k) THEN 1 ELSE 0
        BY <1>1, <1>3, CountInTail DEF s
      <4>3. CountIn(Tail(sendQ[x]), To(k)) \in Nat
        <5>1. Tail(sendQ[x]) \in Seq(Outgoing)
          BY <1>1, <1>3, HeadTailType
        <5> QED BY <5>1, CountInType
      <4> QED BY <1>5, <2>1, <3>1, <4>1, <4>2, <4>3
    <3>2. CASE n # x
      BY <1>1, <1>3, <2>1, <3>2
    <3> QED BY <3>1, <3>2
  <2>5. u \in Int
    OBVIOUS
  <2> HIDE DEF b, c, g, u
  <2>6. b - (c - u) + (g - u) - QSize = b - c + g - QSize
    BY <2>1, <2>5
  <2>7. Multiple(b - CountIn(sendQ'[n], To(k)) + sendBudget'[n][k] - QSize, FlowStride)
    BY <2>2, <2>3, <2>4, <2>6
  <2> QED BY <1>1, <2>7 DEF b
<1>7. ASSUME Contiguous, NEW n \in Node, NEW i \in DOMAIN sendQ'[n], NEW k \in Node,
             sendQ'[n][i].dst # k
      PROVE  Multiple(burst'[n][k] - CountIn(After(sendQ'[n], i), To(k)), FlowStride)
  <2>1. BurstsInOrder
    BY <1>7 DEF BurstInv
  <2>2. CASE n = x
    <3> DEFINE q == sendQ[x]
    <3>1. sendQ'[n] = Tail(q) /\ q \in Seq(Outgoing) /\ q # << >>
      BY <1>1, <1>3, <2>2
    <3>2. i \in 1 .. Len(q) - 1 /\ Tail(q)[i] = q[i + 1] /\ i + 1 \in DOMAIN q
      <4>1. i \in DOMAIN Tail(q)
        BY <3>1
      <4> HIDE DEF q
      <4> QED BY <3>1, <4>1
    <3>3. After(Tail(q), i) = After(q, i + 1)
      <4> HIDE DEF q
      <4> QED BY <3>1, <3>2, AfterTail
    <3>4. Multiple(burst[n][k] - CountIn(After(q, i + 1), To(k)), FlowStride)
      BY <1>7, <2>1, <2>2, <3>1, <3>2 DEF BurstsInOrder
    <3> QED BY <1>1, <3>1, <3>3, <3>4
  <2>3. CASE n # x
    <3>1. sendQ'[n] = sendQ[n]
      BY <1>1, <1>3, <2>3
    <3> QED BY <1>1, <1>7, <2>1, <3>1 DEF BurstsInOrder
  <2> QED BY <2>2, <2>3
<1>8. BudgetsInStep'
  BY <1>2, <1>6 DEF BudgetsInStep, To
<1>9. Contiguous => BurstsInOrder'
  BY <1>2, <1>7 DEF BurstsInOrder, To, After
<1> QED BY <1>8, <1>9 DEF BurstInv

\* A message handed over takes its user one place further in its burst; a user
\* that ends its bursts has none to another node.
LEMMA UserSendBurst ==
  ASSUME AccountInv, SizesInv, BurstInv,
         NEW x \in Node, NEW d \in Node, NEW w \in Msg, UserSend(x, d, w)
  PROVE  BurstInv'
<1> DEFINE s == [body |-> w, dst |-> d]
           v == (burst[x][d] + 1) % FlowStride
<1>1. /\ Contiguous => \A k \in Node \ {d} : burst[x][k] = 0
      /\ sendQ' = [sendQ EXCEPT ![x] = Append(@, s)]
      /\ burst' = [burst EXCEPT ![x][d] = v]
      /\ UNCHANGED <<deployment, sendBudget>>
  BY DEF UserSend
<1>2. FlowStride' = FlowStride
  BY <1>1 DEF FlowStride, Dynamic
<1>3. /\ sendQ \in [Node -> Seq(Outgoing)] /\ sendQ[x] \in Seq(Outgoing) /\ s \in Outgoing
      /\ burst \in [Node -> [Node -> 0 .. FlowStride - 1]]
  BY DEF AccountInv, QueuesTyped, SizesInv, Outgoing
<1>4. \A k \in Node : s \in To(k) <=> d = k
  BY DEF To
<1>5. /\ burst[x][d] \in Int /\ FlowStride \in Nat \ {0} /\ v \in Int
      /\ Multiple(v - burst[x][d] - 1, FlowStride)
  <2> DEFINE b == burst[x][d] + 1
  <2>1. burst[x][d] \in Int /\ FlowStride \in Nat \ {0} /\ b \in Int
    BY BurstTypes
  <2>2. Multiple(v - b, FlowStride) /\ v \in Int
    BY <2>1, MultipleStep
  <2> HIDE DEF v
  <2>3. v - b = v - burst[x][d] - 1
    BY <2>1, <2>2
  <2> QED BY <2>1, <2>2, <2>3
<1>6. \A n, k \in Node : burst'[n][k] = IF n = x /\ k = d THEN v ELSE burst[n][k]
  <2> HIDE DEF v
  <2> QED BY <1>1, <1>3
<1> HIDE DEF s, v
<1>7. \A n \in Node : sendQ'[n] = IF n = x THEN Append(sendQ[x], s) ELSE sendQ[n]
  BY <1>1, <1>3
<1>8. ASSUME NEW n \in Node, NEW k \in Node, NEW c \in Int, NEW e \in Int,
             e = c + IF n = x /\ k = d THEN 1 ELSE 0,
             Multiple(burst[n][k] - c, FlowStride)
      PROVE  Multiple(burst'[n][k] - e, FlowStride)
  <2>1. CASE n = x /\ k = d
    <3> DEFINE y == burst[x][d] - c
               z == v - burst[x][d] - 1
    <3>1. y \in Int /\ z \in Int /\ y + z = v - e
      BY <1>5, <1>8, <2>1
    <3>2. Multiple(y, FlowStride) /\ Multiple(z, FlowStride)
      BY <1>5, <1>8, <2>1
    <3> HIDE DEF y, z
    <3>3. Multiple(y + z, FlowStride)
      BY <1>5, <3>1, <3>2, MultipleSum
    <3> QED BY <1>6, <2>1, <3>1, <3>3
  <2>2. CASE ~(n = x /\ k = d)
    <3>1. e = c /\ burst'[n][k] = burst[n][k]
      BY <1>6, <1>8, <2>2
    <3> QED BY <1>8, <3>1
  <2> QED BY <2>1, <2>2
<1>9. ASSUME NEW n \in Node, NEW k \in Node
      PROVE  Multiple(burst'[n][k] - CountIn(sendQ'[n], To(k)) + sendBudget'[n][k] - QSize, FlowStride)
  <2> DEFINE c == CountIn(sendQ[n], To(k))
             e == CountIn(sendQ'[n], To(k))
             g == sendBudget[n][k]
             b == burst[n][k]
  <2>1. b \in Int /\ c \in Int /\ g \in Int /\ QSize \in Int
    BY BurstTypes
  <2>2. Multiple(b - c + g - QSize, FlowStride)
    BY DEF BurstInv, BudgetsInStep
  <2>3. e = c + IF n = x /\ k = d THEN 1 ELSE 0
    <3>1. CASE n = x
      <4>1. sendQ'[n] = Append(sendQ[x], s)
        BY <1>7, <3>1
      <4>2. CountIn(Append(sendQ[x], s), To(k)) = CountIn(sendQ[x], To(k)) + IF s \in To(k) THEN 1 ELSE 0
        BY <1>3, CountInAppend
      <4> QED BY <1>4, <3>1, <4>1, <4>2
    <3>2. CASE n # x
      BY <1>7, <2>1, <3>2
    <3> QED BY <3>1, <3>2
  <2>4. burst'[n][k] \in Int
    BY <1>5, <1>6, <2>1
  <2> HIDE DEF c, e, g, b
  <2> DEFINE cc == c - g + QSize
             ee == e - g + QSize
  <2>5. cc \in Int /\ ee \in Int /\ e \in Int /\ ee = cc + IF n = x /\ k = d THEN 1 ELSE 0
    BY <2>1, <2>3
  <2>6. b - cc = b - c + g - QSize
    BY <2>1
  <2>7. burst'[n][k] - ee = burst'[n][k] - e + g - QSize
    BY <2>1, <2>4, <2>5
  <2>8. Multiple(burst[n][k] - cc, FlowStride)
    BY <2>2, <2>6 DEF b
  <2> HIDE DEF cc, ee
  <2>9. Multiple(burst'[n][k] - ee, FlowStride)
    BY <1>8, <2>5, <2>8
  <2> QED BY <1>1, <2>7, <2>9 DEF e, g
<1>10. ASSUME Contiguous, NEW n \in Node, NEW i \in DOMAIN sendQ'[n], NEW k \in Node,
             sendQ'[n][i].dst # k
       PROVE  Multiple(burst'[n][k] - CountIn(After(sendQ'[n], i), To(k)), FlowStride)
  <2>1. BurstsInOrder
    BY <1>10 DEF BurstInv
  <2>2. CASE n # x
    <3>1. sendQ'[n] = sendQ[n] /\ burst'[n][k] = burst[n][k]
      BY <1>6, <1>7, <2>2
    <3> QED BY <1>10, <2>1, <3>1 DEF BurstsInOrder
  <2>3. CASE n = x
    <3> DEFINE q == sendQ[x]
    <3>1. sendQ'[n] = Append(q, s) /\ q \in Seq(Outgoing) /\ s \in Outgoing /\ Len(q) \in Nat
      BY <1>3, <1>7, <2>3, LengthsAre
    <3>2. i \in 1 .. Len(q) + 1
      <4>1. i \in DOMAIN Append(q, s)
        BY <3>1
      <4> HIDE DEF q
      <4> QED BY <3>1, <4>1
    <3>3. CASE i = Len(q) + 1
      <4>1. k # d
        <5>1. Append(q, s)[Len(q) + 1] = s
          <6> HIDE DEF q
          <6> QED BY <3>1
        <5> QED BY <1>10, <3>1, <3>3, <5>1 DEF s
      <4>2. burst'[n][k] = 0
        BY <1>1, <1>6, <1>10, <2>3, <4>1
      <4>3. CountIn(After(sendQ'[n], i), To(k)) = 0
        <5> HIDE DEF q
        <5>1. After(sendQ'[n], i) = << >>
          BY <3>1, <3>3, AfterAppend
        <5> QED BY <5>1, CountInEmpty
      <4> QED BY <1>5, <4>2, <4>3, MultipleOnce
    <3>4. CASE i \in 1 .. Len(q)
      <4> DEFINE c == CountIn(After(q, i), To(k))
                 e == CountIn(After(sendQ'[n], i), To(k))
      <4>1. Append(q, s)[i] = q[i] /\ i \in DOMAIN q
        <5> HIDE DEF q
        <5> QED BY <3>1, <3>4
      <4>2. After(sendQ'[n], i) = Append(After(q, i), s) /\ After(q, i) \in Seq(Outgoing)
        <5> HIDE DEF q
        <5> QED BY <3>1, <3>4, AfterAppend
      <4>3. c \in Nat /\ e = c + IF s \in To(k) THEN 1 ELSE 0
        BY <3>1, <4>2, CountInType, CountInAppend
      <4>4. Multiple(burst[n][k] - c, FlowStride)
        BY <1>10, <2>1, <2>3, <3>1, <4>1 DEF BurstsInOrder
      <4> HIDE DEF c, e
      <4>5. c \in Int /\ e \in Int /\ e = c + IF n = x /\ k = d THEN 1 ELSE 0
        BY <1>4, <2>3, <4>3
      <4>6. Multiple(burst'[n][k] - e, FlowStride)
        BY <1>8, <4>4, <4>5
      <4> QED BY <4>6 DEF e
    <3> QED BY <3>1, <3>2, <3>3, <3>4
  <2> QED BY <2>2, <2>3
<1>11. BudgetsInStep'
  BY <1>2, <1>9 DEF BudgetsInStep, To
<1>12. Contiguous => BurstsInOrder'
  BY <1>2, <1>10 DEF BurstsInOrder, To, After
<1> QED BY <1>11, <1>12 DEF BurstInv

\* Budgets stay in step with bursts, and bursts in order.
LEMMA BurstHolds == Spec => []BurstInv
<1>1. AccountInv /\ SizesInv /\ BurstInv /\ [Next]_vars => BurstInv'
  <2> SUFFICES ASSUME AccountInv, SizesInv, BurstInv, [Next]_vars PROVE BurstInv'
    OBVIOUS
  <2>1. ASSUME NEW n \in Node, InsertAckQ(n) PROVE BurstInv'
    <3>1. CASE InsertAck(n)
      BY <3>1, BurstSame DEF InsertAck, sendVars
    <3>2. CASE InsertData(n)
      BY <3>2, InsertDataBurst
    <3> QED BY <2>1, <3>1, <3>2 DEF InsertAckQ
  <2>2. ASSUME NEW n \in Node, UserReceive(n) PROVE BurstInv'
    BY <2>2, BurstSame DEF UserReceive, sendVars
  <2>3. ASSUME NEW n \in Node, CmdReceive(n) PROVE BurstInv'
    BY <2>3, BurstSame DEF CmdReceive, sendVars
  <2>4. ASSUME NEW n \in Node, NEW m \in Node, CmdSend(n, m) PROVE BurstInv'
    <3>1. CASE CmdSendAck(n, m)
      BY <2>4, <3>1, AckBurst DEF CmdSend, CmdSendAck
    <3>2. CASE CmdSendData(n, m)
      BY <2>4, <3>2, BurstSame DEF CmdSend, CmdSendData
    <3> QED BY <2>4, <3>1, <3>2 DEF CmdSend
  <2>5. ASSUME NEW n \in Node, NEW m \in Node, NEW b \in Msg, UserSend(n, m, b)
        PROVE  BurstInv'
    BY <2>5, UserSendBurst
  <2>6. CASE UNCHANGED vars
    BY <2>6, BurstSame DEF vars, sendVars
  <2> QED BY <2>1, <2>2, <2>3, <2>4, <2>5, <2>6 DEF Next
<1> QED BY <1>1, InitBurst, AccountHolds, SizesHold, PTL DEF Spec

-----------------------------------------------------------------------------
\* When nothing is under way or unread, an account is the budget, the acks in
\* ackQ and the stride begun.
LEMMA QuietAccount ==
  ASSUME AccountInv, Quiet, NEW n \in Node, NEW m \in Node
  PROVE  /\ Unread(n, m) = 0 /\ Given(n, m) = sendBudget[n][m] /\ sendBudget[n][m] \in Nat
         /\ sendBudget[n][m] <= Share
         /\ ackQ[m] = << >> => sendBudget[n][m] + flowStrideCounter[m][n] = Share
<1> DEFINE x == FlowStride * Asked(n, m)
<1>1. /\ Given(n, m) \in Nat /\ Asked(n, m) \in Nat /\ x \in Nat /\ Unread(n, m) \in Nat
      /\ flowStrideCounter[m][n] \in Nat /\ sendBudget[n][m] \in Nat /\ Share \in Nat
      /\ Given(n, m) + Unread(n, m) + x + flowStrideCounter[m][n] = Share
  BY GivenShare
<1>2. /\ packetSendQ[n] = << >> /\ packetSendQ[m] = << >> /\ net[n][m] = << >>
      /\ net[m][n] = << >> /\ recvQ[m] = << >>
  BY DEF Quiet
<1>3. UnderWay(n, m, DataTo(m)) = 0 /\ UnderWay(m, n, {Ack(n)}) = 0 /\ Unread(n, m) = 0
  BY <1>2, CountInEmpty DEF UnderWay, Unread
<1>4. FlowStride * UnderWay(m, n, {Ack(n)}) = 0
  BY <1>3, StrideType
<1>5. Given(n, m) = sendBudget[n][m]
  BY <1>1, <1>3, <1>4 DEF Given
<1>6. sendBudget[n][m] <= Share
  <2> HIDE DEF x
  <2> QED BY <1>1, <1>5
<1>7. ASSUME ackQ[m] = << >> PROVE sendBudget[n][m] + flowStrideCounter[m][n] = Share
  <2>1. Asked(n, m) = 0
    BY <1>7, CountInEmpty DEF Asked
  <2>2. x = 0
    BY <2>1, StrideType
  <2> QED BY <1>1, <1>3, <1>5, <2>2
<1> QED BY <1>1, <1>3, <1>5, <1>6, <1>7

\* A node that waits for a receiver's buffers waits for those that another
\* sender was given beyond its first share.
LEMMA SomeoneHasMore ==
  ASSUME AccountInv, AvailInv, Quiet, NEW n \in Node, NEW m \in Node, sendBudget[n][m] = 0
  PROVE  Dynamic /\ \E x \in Node : sendBudget[x][m] - QSize \in 1 .. FlowStride - 1
<1>1. /\ FlowStride \in Nat \ {0} /\ QSize \in Nat \ {0}
      /\ flowStrideCounter[m][n] \in 0 .. FlowStride - 1
  BY StrideType, SizeAssumption DEF AccountInv, CountersTyped
<1>2. ackQ[m] # << >>
  <2> SUFFICES ASSUME ackQ[m] = << >> PROVE FALSE
    OBVIOUS
  <2>1. flowStrideCounter[m][n] = Share
    BY <1>1, QuietAccount
  <2>2. Share >= FlowStride
    BY <1>1, SizeAssumption DEF Share, FlowStride
  <2> QED BY <1>1, <2>1, <2>2
<1>3. Dynamic /\ ~(recvQAvail[m] >= FlowStride)
  BY <1>2 DEF Quiet, CanAck
<1> DEFINE g == [x \in Node |-> Given(x, m)]
           G == SumFunctionOnSet(g, Node)
<1>4. /\ G \in Nat /\ RecvQDepth \in Nat /\ recvQAvail[m] \in Nat
      /\ Len(recvQ[m]) + recvQAvail[m] + G = RecvQDepth
  BY <1>3, BuffersSuffice DEF AvailInv
<1>5. Len(recvQ[m]) = 0
  BY DEF Quiet
<1>6. RecvQDepth = NodeCount * QSize + ExtraSize /\ ExtraSize \in Nat /\ ExtraSize >= FlowStride
      /\ NodeCount * QSize \in Nat
  BY <1>1, <1>3, NodeCountType, ExtraSizeType, ProductType DEF RecvQDepth
<1>7. \A x \in Node : g[x] = sendBudget[x][m] /\ g[x] \in Nat /\ g[x] <= Share
  BY QuietAccount
<1> HIDE DEF g, G
<1>8. G > NodeCount * QSize
  BY <1>1, <1>3, <1>4, <1>5, <1>6
<1>9. PICK x \in Node : g[x] > QSize
  <2> SUFFICES ASSUME \A x \in Node : ~(g[x] > QSize) PROVE FALSE
    OBVIOUS
  <2>1. QSize \in Int /\ \A x \in Node : g[x] \in Int /\ g[x] <= QSize
    BY <1>1, <1>7
  <2>2. G <= NodeCount * QSize
    BY <2>1, NodeCountType, SumBounds DEF G, NodeCount
  <2> QED BY <1>4, <1>6, <1>8, <2>2
<1>10. Share = QSize + FlowStride - 1
  BY <1>1, <1>3 DEF Share
<1>11. sendBudget[x][m] - QSize \in 1 .. FlowStride - 1
  BY <1>1, <1>7, <1>9, <1>10
<1> QED BY <1>3, <1>11

\* For any number of nodes, any flows and any sizes: when users end a burst
\* before they start another, senders never wait for each other's buffers in a
\* circle.  Whoever holds more than its first share is in a burst to that
\* receiver, and so waits for nobody else.
THEOREM NoCircle == ASSUME Contiguous PROVE Spec => []NoCircularWait
<1>1. AccountInv /\ AvailInv /\ BurstInv /\ SizesInv => NoCircularWait
  <2> SUFFICES ASSUME AccountInv, AvailInv, BurstInv, SizesInv, Quiet,
                      NEW n \in Node, Waiting(n)
               PROVE  FALSE
    BY DEF NoCircularWait
  <2> DEFINE m == Head(sendQ[n]).dst
  <2>1. m \in Node /\ sendBudget[n][m] = 0
    <3>1. sendQ[n] \in Seq(Outgoing) /\ sendQ[n] # << >>
      BY DEF AccountInv, QueuesTyped, Waiting
    <3>2. Head(sendQ[n]) \in Outgoing
      BY <3>1, HeadTailType
    <3> QED BY <3>2 DEF Outgoing, Waiting
  <2> HIDE DEF m
  <2>2. PICK x \in Node : sendBudget[x][m] - QSize \in 1 .. FlowStride - 1
    BY <2>1, SomeoneHasMore
  <2> DEFINE q == sendQ[x]
             b == burst[x][m]
             c == CountIn(q, To(m))
             r == sendBudget[x][m] - QSize
  <2>3. /\ b \in Int /\ c \in Int /\ r \in Int /\ sendBudget[x][m] \in Int
        /\ QSize \in Nat /\ FlowStride \in Nat \ {0} /\ q \in Seq(Outgoing)
    BY <2>1, BurstTypes
  <2>4. Multiple(b - c + r, FlowStride)
    <3>1. Multiple(b - c + sendBudget[x][m] - QSize, FlowStride)
      BY <2>1 DEF BurstInv, BudgetsInStep
    <3> HIDE DEF b, c
    <3>2. b - c + sendBudget[x][m] - QSize = b - c + r
      BY <2>3
    <3> QED BY <3>1, <3>2
  <2>5. ~Multiple(r, FlowStride)
    <3> HIDE DEF r
    <3>1. r \in 1 .. FlowStride - 1
      BY <2>2 DEF r
    <3> QED BY <2>3, <3>1, MultipleSmall
  <2>6. ~Multiple(b - c, FlowStride)
    <3> SUFFICES ASSUME Multiple(b - c, FlowStride) PROVE FALSE
      OBVIOUS
    <3> DEFINE y == b - c
               z == b - c + r
    <3>1. y \in Int /\ z \in Int /\ z - y = r
      <4> HIDE DEF b, c, r
      <4> QED BY <2>3
    <3>2. Multiple(y, FlowStride) /\ Multiple(z, FlowStride)
      BY <2>4
    <3> HIDE DEF y, z, r
    <3>3. Multiple(z - y, FlowStride)
      BY <2>3, <3>1, <3>2, MultipleSum
    <3> QED BY <2>5, <3>1, <3>3
  <2>7. CASE q = << >>
    <3>1. c = 0
      BY <2>7, CountInEmpty
    <3>2. b # 0
      <4> HIDE DEF b, c
      <4> QED BY <2>3, <2>6, <3>1, MultipleOnce
    <3>3. b > 0
      <4>1. b \in 0 .. FlowStride - 1
        BY <2>1 DEF SizesInv
      <4> HIDE DEF b
      <4> QED BY <2>3, <3>2, <4>1
    <3>4. Len(sendQ[x]) = FifoDepth
      BY <2>1, <3>3 DEF Quiet
    <3> QED BY <2>7, <3>4, SizeAssumption
  <2>8. CASE q # << >>
    <3> DEFINE y == Head(q).dst
    <3>1. sendBudget[x][y] = 0
      BY <2>8 DEF Quiet, Waiting
    <3>2. sendBudget[x][m] > 0
      <4> HIDE DEF m
      <4> QED BY <2>2, <2>3
    <3>3. y # m
      BY <3>1, <3>2
    <3>4. Head(q) \in Outgoing /\ Head(q) = q[1] /\ 1 \in DOMAIN q /\ Tail(q) \in Seq(Outgoing)
      <4> HIDE DEF q
      <4> QED BY <2>3, <2>8, HeadTailType
    <3>5. Multiple(b - CountIn(After(q, 1), To(m)), FlowStride)
      BY <2>1, <3>3, <3>4 DEF BurstInv, BurstsInOrder
    <3>6. After(q, 1) = Tail(q)
      <4> HIDE DEF q
      <4> QED BY <2>3, <2>8, AfterTail
    <3>7. c = CountIn(Tail(q), To(m))
      <4>1. c = CountIn(Tail(q), To(m)) + IF Head(q) \in To(m) THEN 1 ELSE 0
        BY <2>3, <2>8, CountInTail
      <4>2. Head(q) \notin To(m)
        BY <3>3 DEF To
      <4>3. CountIn(Tail(q), To(m)) \in Nat
        BY <3>4, CountInType
      <4> QED BY <4>1, <4>2, <4>3
    <3> QED BY <2>6, <3>5, <3>6, <3>7
  <2> QED BY <2>7, <2>8
<1> QED BY <1>1, AccountHolds, AvailHolds, BurstHolds, SizesHold, PTL

-----------------------------------------------------------------------------
\* Nobody counts messages from itself.
SelfUnused == \A m \in Node :
  flowStrideCounter[m][m] = IF Dynamic THEN FlowStride - 1 ELSE 0

\* A message that is read came from another node.
LEMMA SelfStaysUnused == Spec => []SelfUnused
<1>1. Init => SelfUnused
  BY DEF Init, SelfUnused, Matrix
<1>2. AccountInv /\ NoSelf /\ SelfUnused /\ [Next]_vars => SelfUnused'
  <2> SUFFICES ASSUME AccountInv, NoSelf, SelfUnused, [Next]_vars PROVE SelfUnused'
    OBVIOUS
  <2>1. ASSUME NEW k \in Node, UserReceive(k) PROVE SelfUnused'
    <3> DEFINE src == Head(recvQ[k]).src
    <3>1. PICK v : /\ flowStrideCounter' = [flowStrideCounter EXCEPT ![k][src] = v]
                   /\ recvQ[k] # << >> /\ UNCHANGED deployment
      BY <2>1 DEF UserReceive
    <3>2. src # k
      <4>1. recvQ[k] \in Seq([body : Msg, src : Others(k)])
        BY DEF NoSelf, KeepsToOthers
      <4>2. Head(recvQ[k]) \in [body : Msg, src : Others(k)]
        BY <3>1, <4>1, HeadTailType
      <4> QED BY <4>2 DEF Others
    <3> HIDE DEF src
    <3>3. flowStrideCounter \in [Node -> [Node -> 0 .. FlowStride - 1]]
      BY DEF AccountInv, CountersTyped
    <3>4. \A m \in Node : flowStrideCounter'[m][m] = flowStrideCounter[m][m]
      BY <3>1, <3>2, <3>3
    <3> QED BY <3>1, <3>4 DEF SelfUnused, Dynamic, FlowStride
  <2>2. CASE UNCHANGED <<flowStrideCounter, deployment>>
    BY <2>2 DEF SelfUnused, Dynamic, FlowStride
  <2>3. ASSUME NEW k \in Node, ~UserReceive(k), InsertAckQ(k) \/ CmdReceive(k)
                 \/ \E m \in Node : CmdSend(k, m) \/ \E b \in Msg : UserSend(k, m, b)
        PROVE  UNCHANGED <<flowStrideCounter, deployment>>
    BY <2>3 DEF InsertAckQ, InsertAck, InsertData, CmdReceive, CmdSend, UserSend, recvVars
  <2>4. CASE UNCHANGED vars
    BY <2>2, <2>4 DEF vars, recvVars
  <2> QED BY <2>1, <2>2, <2>3, <2>4 DEF Next
<1> QED BY <1>1, <1>2, NoSelfHolds, PTL DEF Spec

\* Buffers enough for a stride of one sender, whatever the other senders of a
\* receiver have been given beyond their first shares.
SparesSuffice ==
  Dynamic => QSize + ExtraSize >= FlowStride + (NodeCount - 2) * (FlowStride - 1)

\* Bursts may be interleaved in any order if a dynamic receiver has enough
\* buffers, as the endpoints of flash_multinode have: then, too, senders never
\* wait for each other's buffers in a circle.
THEOREM NoCircleWithSpares == Spec => [](SparesSuffice => NoCircularWait)
<1>1. AccountInv /\ NoSelf /\ AvailInv /\ SelfUnused => (SparesSuffice => NoCircularWait)
  <2> SUFFICES ASSUME AccountInv, NoSelf, AvailInv, SelfUnused, SparesSuffice, Quiet,
                      NEW n \in Node, Waiting(n)
               PROVE  FALSE
    BY DEF NoCircularWait
  <2> DEFINE m == Head(sendQ[n]).dst
  <2>1. m \in Node /\ m # n /\ sendBudget[n][m] = 0
    <3>1. sendQ[n] \in Seq([body : Msg, dst : Others(n)]) /\ sendQ[n] # << >>
      BY DEF NoSelf, KeepsToOthers, Waiting
    <3>2. Head(sendQ[n]) \in [body : Msg, dst : Others(n)]
      BY <3>1, HeadTailType
    <3> QED BY <3>2 DEF Others, Waiting
  <2> HIDE DEF m
  <2>2. Dynamic
    BY <2>1, SomeoneHasMore
  <2>3. /\ FlowStride \in Nat \ {0} /\ QSize \in Nat \ {0} /\ ExtraSize \in Nat
        /\ Share = QSize + (FlowStride - 1) /\ IsFiniteSet(Node)
    BY <2>2, StrideType, SizeAssumption, ExtraSizeType, NodeCountType DEF Share
  <2>4. ackQ[m] # << >>
    <3> SUFFICES ASSUME ackQ[m] = << >> PROVE FALSE
      OBVIOUS
    <3>1. flowStrideCounter[m][n] = Share
      <4>1. flowStrideCounter[m][n] \in 0 .. FlowStride - 1
        BY <2>1 DEF AccountInv, CountersTyped
      <4> QED BY <2>1, <2>3, <4>1, QuietAccount
    <3>2. flowStrideCounter[m][n] \in 0 .. FlowStride - 1
      BY <2>1 DEF AccountInv, CountersTyped
    <3> QED BY <2>3, <3>1, <3>2
  <2>5. ~(recvQAvail[m] >= FlowStride)
    BY <2>1, <2>2, <2>4 DEF Quiet, CanAck
  <2> DEFINE g == [x \in Node |-> Given(x, m)]
             A == Node \ {n}
             B == A \ {m}
             c == Share
             s == (NodeCount - 2) * (FlowStride - 1)
             q == NodeCount * QSize
  <2>6. /\ SumFunctionOnSet(g, Node) \in Nat /\ recvQAvail[m] \in Nat
        /\ recvQAvail[m] + SumFunctionOnSet(g, Node) = q + ExtraSize
    <3> DEFINE G == SumFunctionOnSet([x \in Node |-> Given(x, m)], Node)
    <3>1. /\ G \in Nat /\ RecvQDepth \in Nat /\ recvQAvail[m] \in Nat
          /\ Len(recvQ[m]) + recvQAvail[m] + G = RecvQDepth
      BY <2>1, <2>2, BuffersSuffice DEF AvailInv
    <3>2. Len(recvQ[m]) = 0
      BY <2>1 DEF Quiet
    <3>3. RecvQDepth = q + ExtraSize
      BY <2>2 DEF RecvQDepth
    <3> HIDE DEF q
    <3> QED BY <3>1, <3>2, <3>3
  <2>7. \A x \in Node : g[x] = sendBudget[x][m] /\ g[x] \in Nat /\ g[x] <= c
    BY <2>1, QuietAccount
  <2>8. g[n] = 0 /\ g[m] <= QSize
    <3>1. g[m] <= QSize
      <4> DEFINE x == FlowStride * Asked(m, m)
      <4>1. /\ Given(m, m) \in Nat /\ Unread(m, m) \in Nat /\ x \in Nat
            /\ Given(m, m) + Unread(m, m) + x + flowStrideCounter[m][m] = Share
        BY <2>1, GivenShare
      <4>2. flowStrideCounter[m][m] = FlowStride - 1
        BY <2>1, <2>2 DEF SelfUnused
      <4> HIDE DEF x
      <4>3. Given(m, m) <= QSize
        BY <2>3, <4>1, <4>2
      <4> QED BY <2>1, <4>3
    <3> QED BY <2>1, <2>7, <3>1
  <2>9. /\ IsFiniteSet(A) /\ IsFiniteSet(B) /\ Cardinality(B) = NodeCount - 2
        /\ NodeCount \in Nat /\ NodeCount - 2 \in Nat /\ m \in A
    <3>1. IsFiniteSet(A) /\ IsFiniteSet(B) /\ m \in A
      BY <2>1, <2>3, FS_RemoveElement
    <3>2. Cardinality(A) = NodeCount - 1 /\ NodeCount \in Nat
      BY <2>3, NodeCountType, FS_RemoveElement DEF NodeCount
    <3>3. Cardinality(B) = Cardinality(A) - 1 /\ Cardinality(B) \in Nat
      BY <3>1, FS_RemoveElement, FS_CardinalityType
    <3> QED BY <3>1, <3>2, <3>3
  <2> HIDE DEF g, A, B, c, s, q
  <2>10. c \in Int /\ \A x \in Node : g[x] \in Int /\ g[x] <= c
    BY <2>3, <2>7 DEF c
  <2>11. SumFunctionOnSet(g, Node) = g[n] + SumFunctionOnSet(g, A)
    BY <2>3, <2>10, SumTake DEF A
  <2>12. SumFunctionOnSet(g, A) = g[m] + SumFunctionOnSet(g, B)
    <3>1. \A x \in A : g[x] \in Int
      BY <2>10 DEF A
    <3> QED BY <2>9, <3>1, SumTake DEF B
  <2>13. SumFunctionOnSet(g, B) <= (NodeCount - 2) * c /\ SumFunctionOnSet(g, B) \in Int
    <3>1. \A x \in B : g[x] \in Int /\ g[x] <= c
      BY <2>10 DEF A, B
    <3>2. SumFunctionOnSet(g, B) <= Cardinality(B) * c /\ SumFunctionOnSet(g, B) \in Int
      BY <2>9, <2>10, <3>1, SumBounds, SumType
    <3> QED BY <2>9, <3>2
  <2>14. (NodeCount - 2) * c = (NodeCount - 2) * QSize + s /\ s \in Int /\ (NodeCount - 2) * QSize \in Int
    BY <2>3, <2>9, Distribute DEF c, s
  <2>15. q = (NodeCount - 2) * QSize + 2 * QSize
    <3> DEFINE w == NodeCount - 2
    <3>1. w \in Nat /\ NodeCount = w + 2
      BY <2>9
    <3> HIDE DEF w
    <3>2. NodeCount * QSize = w * QSize + 2 * QSize
      BY <2>3, <3>1
    <3> QED BY <3>2 DEF w, q
  <2> DEFINE r == (NodeCount - 2) * QSize
  <2>16. SumFunctionOnSet(g, Node) <= QSize + r + s
    <3>1. (NodeCount - 2) * c = r + s /\ r \in Int /\ s \in Int
      BY <2>14
    <3>2. g[m] \in Int /\ g[n] = 0 /\ g[m] <= QSize
      BY <2>1, <2>8, <2>10
    <3> HIDE DEF r
    <3> QED BY <2>3, <2>6, <2>11, <2>12, <2>13, <3>1, <3>2
  <2>17. QSize + ExtraSize >= FlowStride + s
    BY <2>2 DEF SparesSuffice, s
  <2>18. q = r + 2 * QSize /\ r \in Int /\ s \in Int
    BY <2>14, <2>15
  <2> HIDE DEF r
  <2> QED BY <2>3, <2>5, <2>6, <2>16, <2>17, <2>18
<1> QED BY <1>1, AccountHolds, NoSelfHolds, AvailHolds, SelfStaysUnused, PTL

-----------------------------------------------------------------------------
(***************************************************************************)
(* The endpoints are FIFO channels: the safety part of FifoChannel, by     *)
(* following what lies in the three queues of a flow.                      *)
(***************************************************************************)
BodiesOf(k) == [i \in DOMAIN k |-> k[i].body]

\* The bodies follow the sequence.
LEMMA BodiesFollow ==
  ASSUME NEW S, \A x \in S : x.body \in Msg, NEW k \in Seq(S)
  PROVE  /\ BodiesOf(k) \in Seq(Msg)
         /\ \A w \in S : BodiesOf(Append(k, w)) = Append(BodiesOf(k), w.body)
         /\ k # << >> => /\ BodiesOf(k) # << >> /\ Head(BodiesOf(k)) = Head(k).body
                         /\ BodiesOf(Tail(k)) = Tail(BodiesOf(k))
<1>1. BodiesOf(k) \in Seq(Msg) /\ Len(BodiesOf(k)) = Len(k)
      /\ \A i \in 1 .. Len(k) : BodiesOf(k)[i] = k[i].body
  BY DEF BodiesOf
<1>2. ASSUME NEW w \in S PROVE BodiesOf(Append(k, w)) = Append(BodiesOf(k), w.body)
  BY <1>1 DEF BodiesOf
<1>3. ASSUME k # << >>
      PROVE  /\ BodiesOf(k) # << >> /\ Head(BodiesOf(k)) = Head(k).body
             /\ BodiesOf(Tail(k)) = Tail(BodiesOf(k))
  BY <1>1, <1>3 DEF BodiesOf
<1> QED BY <1>1, <1>2, <1>3

\* Every entry of type S in the set K has a message for its body.
Carries(S, K) == \A x \in S \cap K : x.body \in Msg

\* The bodies of the entries in a set follow the queue.
LEMMA BodiesInFollow ==
  ASSUME NEW S, NEW K, Carries(S, K), NEW q \in Seq(S)
  PROVE  /\ BodiesIn(q, K) \in Seq(Msg)
         /\ \A w \in S : BodiesIn(Append(q, w), K)
                           = IF w \in K THEN Append(BodiesIn(q, K), w.body) ELSE BodiesIn(q, K)
         /\ q # << >> /\ Head(q) \in K =>
              /\ BodiesIn(q, K) # << >> /\ Head(BodiesIn(q, K)) = Head(q).body
              /\ BodiesIn(Tail(q), K) = Tail(BodiesIn(q, K))
         /\ q # << >> /\ Head(q) \notin K => BodiesIn(Tail(q), K) = BodiesIn(q, K)
<1>a. \A x \in S \cap K : x.body \in Msg
  BY DEF Carries
<1>0. \A r : BodiesIn(r, K) = BodiesOf(Kept(r, K))
  BY DEF BodiesIn, BodiesOf
<1>1. Kept(q, K) \in Seq(S \cap K)
  BY KeptIn
<1>2. BodiesIn(q, K) \in Seq(Msg)
  BY <1>0, <1>1, <1>a, BodiesFollow
<1>3. ASSUME NEW w \in S
      PROVE  BodiesIn(Append(q, w), K)
               = IF w \in K THEN Append(BodiesIn(q, K), w.body) ELSE BodiesIn(q, K)
  <2>1. Kept(Append(q, w), K) = IF w \in K THEN Append(Kept(q, K), w) ELSE Kept(q, K)
    BY KeptAppend
  <2>2. CASE w \in K
    <3>1. BodiesOf(Append(Kept(q, K), w)) = Append(BodiesOf(Kept(q, K)), w.body)
      BY <1>1, <1>a, <2>2, BodiesFollow
    <3> QED BY <1>0, <2>1, <2>2, <3>1
  <2> QED BY <1>0, <2>1, <2>2
<1>4. ASSUME q # << >>
      PROVE  /\ Head(q) \in S /\ Tail(q) \in Seq(S) /\ Kept(Tail(q), K) \in Seq(S \cap K)
             /\ Kept(q, K) = (IF Head(q) \in K THEN <<Head(q)>> ELSE << >>) \o Kept(Tail(q), K)
  <2>1. Head(q) \in S /\ Tail(q) \in Seq(S)
    BY <1>4
  <2>2. Kept(Tail(q), K) \in Seq(S \cap K)
    <3> DEFINE t == Tail(q)
    <3> HIDE DEF t
    <3> QED BY <2>1, KeptIn DEF t
  <2> QED BY <1>4, <2>1, <2>2, KeptTail
<1>5. ASSUME q # << >>, Head(q) \in K
      PROVE  /\ BodiesIn(q, K) # << >> /\ Head(BodiesIn(q, K)) = Head(q).body
             /\ BodiesIn(Tail(q), K) = Tail(BodiesIn(q, K))
  <2> DEFINE a == Kept(q, K)
             t == Kept(Tail(q), K)
             h == Head(q)
  <2>1. a = <<h>> \o t /\ t \in Seq(S \cap K) /\ h \in S \cap K
    BY <1>4, <1>5
  <2> HIDE DEF t, h
  <2>2. a # << >> /\ Head(a) = h /\ Tail(a) = t
    <3> HIDE DEF a
    <3> QED BY <2>1
  <2>3. a \in Seq(S \cap K)
    BY <1>1
  <2> HIDE DEF a
  <2>4. /\ BodiesOf(a) # << >> /\ Head(BodiesOf(a)) = h.body
        /\ BodiesOf(t) = Tail(BodiesOf(a))
    BY <1>a, <2>2, <2>3, BodiesFollow
  <2> QED BY <1>0, <2>4 DEF a, t, h
<1>6. ASSUME q # << >>, Head(q) \notin K
      PROVE  BodiesIn(Tail(q), K) = BodiesIn(q, K)
  <2>1. << >> \o Kept(Tail(q), K) = Kept(Tail(q), K)
    <3> DEFINE t == Kept(Tail(q), K)
    <3>1. t \in Seq(S \cap K)
      BY <1>4, <1>6
    <3> HIDE DEF t
    <3>2. << >> \o t = t
      BY <3>1
    <3> QED BY <3>2 DEF t
  <2>2. Kept(q, K) = Kept(Tail(q), K)
    BY <1>4, <1>6, <2>1
  <2> QED BY <1>0, <2>2
<1> QED BY <1>2, <1>3, <1>5, <1>6

\* The three queues on the way from n to m, and the unread messages there.
ReadFrom(n) == [body : Msg, src : {n}]
InNet(n, m)  == BodiesIn(net[n][m], DataTo(m))
InSend(n, m) == BodiesIn(packetSendQ[n], DataTo(m))
InUser(n, m) == BodiesIn(sendQ[n], To(m))
Line(n, m)   == InNet(n, m) \o InSend(n, m) \o InUser(n, m)
There(n, m)  == BodiesIn(recvQ[m], ReadFrom(n))

\* Where bodies are.
LEMMA BodyKinds ==
  ASSUME NEW m \in Node
  PROVE  /\ Carries(AnyPacket, DataTo(m))
         /\ Carries(Outgoing, To(m))
         /\ Carries(Incoming, ReadFrom(m))
         /\ \A s \in Outgoing : s \in To(m) <=> s.dst = m
         /\ \A r \in Incoming : r \in ReadFrom(m) <=> r.src = m
         /\ \A s \in Outgoing : Packet(s).body = s.body /\ s.body \in Msg
BY DEF AnyPacket, AckPacket, DataPacket, DataTo, Outgoing, To, Incoming, ReadFrom, Packet,
       Carries

\* The parts of a line are sequences of messages.
LEMMA LinesTyped ==
  ASSUME QueuesTyped, NEW n \in Node, NEW m \in Node
  PROVE  /\ InNet(n, m) \in Seq(Msg) /\ InSend(n, m) \in Seq(Msg)
         /\ InUser(n, m) \in Seq(Msg) /\ There(n, m) \in Seq(Msg)
         /\ Line(n, m) \in Seq(Msg)
<1>1. /\ net[n][m] \in Seq(AnyPacket) /\ packetSendQ[n] \in Seq(AnyPacket)
      /\ sendQ[n] \in Seq(Outgoing) /\ recvQ[m] \in Seq(Incoming)
  BY DEF QueuesTyped
<1>2. /\ Carries(AnyPacket, DataTo(m))
      /\ Carries(Outgoing, To(m))
      /\ Carries(Incoming, ReadFrom(n))
  BY BodyKinds
<1>3. InNet(n, m) \in Seq(Msg) /\ InSend(n, m) \in Seq(Msg)
  BY <1>1, <1>2, BodiesInFollow DEF InNet, InSend
<1>4. InUser(n, m) \in Seq(Msg) /\ There(n, m) \in Seq(Msg)
  BY <1>1, <1>2, BodiesInFollow DEF InUser, There
<1> QED BY <1>3, <1>4 DEF Line

Still == \A n, m \in Node : Line(n, m)' = Line(n, m) /\ There(n, m)' = There(n, m)

\* An ack is not part of any line.
LEMMA InsertAckStill ==
  ASSUME QueuesTyped, NEW k \in Node, InsertAck(k)
  PROVE  Still
<1> DEFINE d == Head(ackQ[k])
<1>1. /\ ackQ[k] # << >>
      /\ packetSendQ' = [packetSendQ EXCEPT ![k] = Append(@, Ack(d))]
      /\ UNCHANGED <<sendQ, recvQ, net>>
  BY DEF InsertAck, CanAck, sendVars, recvVars
<1>2. d \in Node
  BY <1>1, PopType DEF QueuesTyped
<1>3. Ack(d) \in AnyPacket
  BY <1>2, PacketKinds DEF AnyPacket
<1> HIDE DEF d
<1>4. ASSUME NEW n \in Node, NEW m \in Node
      PROVE  InSend(n, m)' = InSend(n, m)
  <2>1. /\ packetSendQ[n] \in Seq(AnyPacket)
        /\ packetSendQ'[n] = IF n = k THEN Append(packetSendQ[n], Ack(d)) ELSE packetSendQ[n]
    BY <1>1 DEF QueuesTyped
  <2>2. Ack(d) \notin DataTo(m) /\ Carries(AnyPacket, DataTo(m))
    BY <1>2, PacketKinds, BodyKinds
  <2>3. BodiesIn(Append(packetSendQ[n], Ack(d)), DataTo(m)) = BodiesIn(packetSendQ[n], DataTo(m))
    BY <1>3, <2>1, <2>2, BodiesInFollow
  <2>4. BodiesIn(packetSendQ'[n], DataTo(m)) = BodiesIn(packetSendQ[n], DataTo(m))
    BY <2>1, <2>3
  <2> QED BY <2>4 DEF InSend, DataTo
<1>5. ASSUME NEW n \in Node, NEW m \in Node
      PROVE  /\ InNet(n, m)' = InNet(n, m) /\ InUser(n, m)' = InUser(n, m)
             /\ There(n, m)' = There(n, m)
  BY <1>1 DEF InNet, InUser, There, DataTo, To, ReadFrom
<1> QED BY <1>4, <1>5 DEF Still, Line

\* A message becomes a packet: it moves along its line.
LEMMA InsertDataStill ==
  ASSUME QueuesTyped, NEW k \in Node, InsertData(k)
  PROVE  Still
<1> DEFINE s == Head(sendQ[k])
<1>1. /\ sendQ[k] # << >> /\ sendQ' = [sendQ EXCEPT ![k] = Tail(@)]
      /\ packetSendQ' = [packetSendQ EXCEPT ![k] = Append(@, Packet(s))]
      /\ UNCHANGED <<recvQ, net>>
  BY DEF InsertData, recvVars
<1>2. s \in Outgoing
  BY <1>1, PopType DEF QueuesTyped
<1>3. Packet(s) \in AnyPacket
  BY <1>2, PacketKinds DEF AnyPacket
<1>4. ASSUME NEW n \in Node, NEW m \in Node
      PROVE  Line(n, m)' = Line(n, m)
  <2> DEFINE a == InNet(n, m)
             b == BodiesIn(packetSendQ[n], DataTo(m))
             c == BodiesIn(sendQ[n], To(m))
             x == BodiesIn(packetSendQ'[n], DataTo(m))
             y == BodiesIn(sendQ'[n], To(m))
  <2>1. Line(n, m) = a \o b \o c /\ Line(n, m)' = a \o x \o y
    BY <1>1 DEF Line, InNet, InSend, InUser, DataTo, To
  <2>2. a \in Seq(Msg) /\ b \in Seq(Msg) /\ c \in Seq(Msg)
    BY LinesTyped DEF InSend, InUser
  <2>3. /\ packetSendQ[n] \in Seq(AnyPacket) /\ sendQ[n] \in Seq(Outgoing)
        /\ packetSendQ'[n] = IF n = k THEN Append(packetSendQ[n], Packet(s)) ELSE packetSendQ[n]
        /\ sendQ'[n] = IF n = k THEN Tail(sendQ[n]) ELSE sendQ[n]
    BY <1>1 DEF QueuesTyped
  <2>4. /\ Carries(AnyPacket, DataTo(m))
        /\ Carries(Outgoing, To(m))
        /\ (Packet(s) \in DataTo(m) <=> s.dst = m) /\ (s \in To(m) <=> s.dst = m)
        /\ Packet(s).body = s.body /\ s.body \in Msg
    BY <1>2, PacketKinds, BodyKinds
  <2> HIDE DEF a
  <2>5. CASE n # k \/ s.dst # m
    <3>1. x = b
      <4>1. CASE n # k
        BY <2>3, <4>1
      <4>2. CASE n = k
        <5> HIDE DEF s
        <5>1. BodiesIn(Append(packetSendQ[n], Packet(s)), DataTo(m)) = BodiesIn(packetSendQ[n], DataTo(m))
          BY <1>3, <2>3, <2>4, <2>5, <4>2, BodiesInFollow
        <5> QED BY <2>3, <4>2, <5>1
      <4> QED BY <4>1, <4>2
    <3>2. y = c
      <4>1. CASE n # k
        BY <2>3, <4>1
      <4>2. CASE n = k
        <5>1. BodiesIn(Tail(sendQ[n]), To(m)) = BodiesIn(sendQ[n], To(m))
          BY <1>1, <2>3, <2>4, <2>5, <4>2, BodiesInFollow
        <5> QED BY <2>3, <4>2, <5>1
      <4> QED BY <4>1, <4>2
    <3> QED BY <2>1, <3>1, <3>2
  <2>6. CASE n = k /\ s.dst = m
    <3>1. x = Append(b, s.body)
      <4> HIDE DEF s
      <4>1. BodiesIn(Append(packetSendQ[n], Packet(s)), DataTo(m)) = Append(b, s.body)
        BY <1>3, <2>3, <2>4, <2>6, BodiesInFollow
      <4> QED BY <2>3, <2>6, <4>1
    <3>2. c # << >> /\ Head(c) = s.body /\ y = Tail(c)
      <4>1. /\ BodiesIn(sendQ[n], To(m)) # << >> /\ Head(BodiesIn(sendQ[n], To(m))) = s.body
            /\ BodiesIn(Tail(sendQ[n]), To(m)) = Tail(BodiesIn(sendQ[n], To(m)))
        BY <1>1, <2>3, <2>4, <2>6, BodiesInFollow
      <4> QED BY <2>3, <2>6, <4>1
    <3> HIDE DEF b, c, x, y, s
    <3>3. a \o Append(b, Head(c)) \o Tail(c) = a \o b \o c
      <4> DEFINE d == a \o b
                 e == Head(c)
      <4>1. d \in Seq(Msg) /\ e \in Msg /\ c # << >>
        BY <2>2, <3>2
      <4> HIDE DEF e
      <4>2. a \o Append(b, e) = Append(d, e)
        BY <2>2, <4>1, ConcatAppend
      <4> HIDE DEF d
      <4>3. Append(d, Head(c)) \o Tail(c) = d \o c
        BY <2>2, <4>1, ConcatShift
      <4> QED BY <4>2, <4>3 DEF d, e
    <3> QED BY <2>1, <3>1, <3>2, <3>3
  <2> QED BY <2>5, <2>6
<1>5. ASSUME NEW n \in Node, NEW m \in Node
      PROVE  There(n, m)' = There(n, m)
  BY <1>1 DEF There, ReadFrom
<1> QED BY <1>4, <1>5 DEF Still

\* A packet leaves for the network: it moves along its line.
LEMMA CmdReceiveStill ==
  ASSUME QueuesTyped, NEW k \in Node, CmdReceive(k)
  PROVE  Still
<1> DEFINE p == Head(packetSendQ[k])
<1>1. /\ packetSendQ[k] # << >> /\ packetSendQ' = [packetSendQ EXCEPT ![k] = Tail(@)]
      /\ net' = [net EXCEPT ![k][p.dst] = Append(@, p)]
      /\ UNCHANGED <<sendQ, recvQ>>
  BY DEF CmdReceive, sendVars, recvVars
<1>2. p \in AnyPacket
  BY <1>1, PopType DEF QueuesTyped
<1>3. p.dst \in Node /\ p.kind \in {"ack", "data"}
  BY <1>2, PacketKinds
<1> HIDE DEF p
<1>4. ASSUME NEW n \in Node, NEW m \in Node
      PROVE  Line(n, m)' = Line(n, m)
  <2> DEFINE a == BodiesIn(net[n][m], DataTo(m))
             b == BodiesIn(packetSendQ[n], DataTo(m))
             c == InUser(n, m)
             x == BodiesIn(net'[n][m], DataTo(m))
             y == BodiesIn(packetSendQ'[n], DataTo(m))
  <2>1. Line(n, m) = a \o b \o c /\ Line(n, m)' = x \o y \o c
    BY <1>1 DEF Line, InNet, InSend, InUser, DataTo, To
  <2>2. a \in Seq(Msg) /\ b \in Seq(Msg) /\ c \in Seq(Msg)
    BY LinesTyped DEF InSend, InNet
  <2>3. /\ packetSendQ[n] \in Seq(AnyPacket) /\ net[n][m] \in Seq(AnyPacket)
        /\ packetSendQ'[n] = IF n = k THEN Tail(packetSendQ[n]) ELSE packetSendQ[n]
        /\ net'[n][m] = IF n = k /\ m = p.dst THEN Append(net[n][m], p) ELSE net[n][m]
    <3>1. /\ net \in [Node -> [Node -> Seq(AnyPacket)]] /\ packetSendQ \in [Node -> Seq(AnyPacket)]
          /\ net[n] \in [Node -> Seq(AnyPacket)] /\ net[k] \in [Node -> Seq(AnyPacket)]
      BY DEF QueuesTyped
    <3>2. net'[n] = IF n = k THEN [net[k] EXCEPT ![p.dst] = Append(@, p)] ELSE net[n]
      BY <1>1, <3>1
    <3>3. net'[n][m] = IF n = k /\ m = p.dst THEN Append(net[n][m], p) ELSE net[n][m]
      BY <1>3, <3>1, <3>2
    <3> QED BY <1>1, <3>1, <3>3
  <2>4. /\ Carries(AnyPacket, DataTo(m))
        /\ p \in DataTo(m) => p.dst = m /\ p.body \in Msg
    BY <1>2, PacketKinds, BodyKinds DEF DataTo
  <2>5. CASE n # k
    BY <2>1, <2>3, <2>5
  <2>6. CASE n = k /\ p \notin DataTo(m)
    <3>1. x = a
      <4>1. BodiesIn(Append(net[n][m], p), DataTo(m)) = BodiesIn(net[n][m], DataTo(m))
        BY <1>2, <2>3, <2>4, <2>6, BodiesInFollow
      <4> QED BY <2>3, <4>1
    <3>2. y = b
      <4>1. Head(packetSendQ[n]) \notin DataTo(m)
        BY <2>6 DEF p
      <4>2. BodiesIn(Tail(packetSendQ[n]), DataTo(m)) = BodiesIn(packetSendQ[n], DataTo(m))
        BY <1>1, <2>3, <2>4, <2>6, <4>1, BodiesInFollow
      <4> QED BY <2>3, <2>6, <4>2
    <3> QED BY <2>1, <3>1, <3>2
  <2>7. CASE n = k /\ p \in DataTo(m)
    <3>1. x = Append(a, p.body)
      <4>1. BodiesIn(Append(net[n][m], p), DataTo(m)) = Append(a, p.body)
        BY <1>2, <2>3, <2>4, <2>7, BodiesInFollow
      <4> QED BY <2>3, <2>4, <2>7, <4>1
    <3>2. b # << >> /\ Head(b) = p.body /\ y = Tail(b)
      <4>1. Head(packetSendQ[n]) = p
        BY <2>7 DEF p
      <4>2. /\ b # << >> /\ Head(b) = p.body /\ BodiesIn(Tail(packetSendQ[n]), DataTo(m)) = Tail(b)
        BY <1>1, <2>3, <2>4, <2>7, <4>1, BodiesInFollow
      <4> QED BY <2>3, <2>7, <4>2
    <3> HIDE DEF a, b, c, x, y
    <3>3. Append(a, Head(b)) \o Tail(b) \o c = a \o b \o c
      <4>1. b # << >>
        BY <3>2
      <4> QED BY <2>2, <4>1, LineMovesUp
    <3> QED BY <2>1, <3>1, <3>2, <3>3
  <2> QED BY <2>5, <2>6, <2>7
<1>5. ASSUME NEW n \in Node, NEW m \in Node
      PROVE  There(n, m)' = There(n, m)
  BY <1>1 DEF There, ReadFrom
<1> QED BY <1>4, <1>5 DEF Still

\* What is delivered to k from j: an ack is no part of a line, a message goes
\* from the front of the line to the receiver.
Delivered(j, k) ==
  /\ Line(j, k) # << >>
  /\ \A n, m \in Node :
       /\ Line(n, m)' = IF n = j /\ m = k THEN Tail(Line(n, m)) ELSE Line(n, m)
       /\ There(n, m)' = IF n = j /\ m = k THEN Append(There(n, m), Head(Line(n, m)))
                                           ELSE There(n, m)

\* A packet taken from the network is an ack, or the first message of its line.
LEMMA CmdSendDelivers ==
  ASSUME QueuesTyped, NEW k \in Node, NEW j \in Node, CmdSend(k, j)
  PROVE  Still \/ Delivered(j, k)
<1> DEFINE p == Head(net[j][k])
<1>1. /\ net[j][k] # << >> /\ net' = [net EXCEPT ![j][k] = Tail(@)]
      /\ UNCHANGED <<sendQ, packetSendQ>>
      /\ \/ p.kind = "ack" /\ UNCHANGED recvQ
         \/ /\ p.kind = "data"
            /\ recvQ' = [recvQ EXCEPT ![k] = Append(@, [body |-> p.body, src |-> j])]
  BY DEF CmdSend, CmdSendAck, CmdSendData
<1>2. p \in AnyPacket /\ p.dst = k
  <2>1. net[j][k] \in Seq(AnyPacket) /\ \A i \in DOMAIN net[j][k] : net[j][k][i].dst = k
    BY DEF QueuesTyped
  <2>2. p \in AnyPacket /\ 1 \in DOMAIN net[j][k] /\ p = net[j][k][1]
    BY <1>1, <2>1
  <2> QED BY <2>1, <2>2
<1>3. p.kind = "ack" => p \notin DataTo(k)
  BY <1>2, PacketKinds
<1>4. p.kind = "data" => p \in DataTo(k) /\ p.body \in Msg
  BY <1>2, PacketKinds
<1>5. ASSUME NEW n \in Node, NEW m \in Node
      PROVE  /\ ~(n = j /\ m = k) => InNet(n, m)' = InNet(n, m)
             /\ InSend(n, m)' = InSend(n, m) /\ InUser(n, m)' = InUser(n, m)
  <2>1. net'[n][m] = IF n = j /\ m = k THEN Tail(net[n][m]) ELSE net[n][m]
    BY <1>1 DEF QueuesTyped
  <2> QED BY <1>1, <2>1 DEF InNet, InSend, InUser, DataTo, To
<1> HIDE DEF p
<1>6. /\ net[j][k] \in Seq(AnyPacket) /\ net'[j][k] = Tail(net[j][k])
      /\ Carries(AnyPacket, DataTo(k)) /\ Head(net[j][k]) = p
  BY <1>1, BodyKinds DEF QueuesTyped, p
<1>7. CASE p.kind = "ack"
  <2>1. BodiesIn(Tail(net[j][k]), DataTo(k)) = BodiesIn(net[j][k], DataTo(k))
    BY <1>1, <1>3, <1>6, <1>7, BodiesInFollow
  <2>2. InNet(j, k)' = InNet(j, k)
    BY <1>6, <2>1 DEF InNet, DataTo
  <2>3. \A n, m \in Node : Line(n, m)' = Line(n, m)
    BY <1>5, <2>2 DEF Line
  <2>4. \A n, m \in Node : There(n, m)' = There(n, m)
    BY <1>1, <1>7 DEF There, ReadFrom
  <2> QED BY <2>3, <2>4 DEF Still
<1>8. CASE p.kind = "data"
  <2> DEFINE a == InNet(j, k)
             b == InSend(j, k)
             c == InUser(j, k)
  <2>1. a # << >> /\ Head(a) = p.body /\ BodiesIn(Tail(net[j][k]), DataTo(k)) = Tail(a)
    BY <1>1, <1>4, <1>6, <1>8, BodiesInFollow DEF InNet
  <2>2. a \in Seq(Msg) /\ b \in Seq(Msg) /\ c \in Seq(Msg)
    BY LinesTyped
  <2>3. Line(j, k) = a \o b \o c /\ Line(j, k)' = Tail(a) \o b \o c
    <3>1. InNet(j, k)' = Tail(a)
      BY <1>6, <2>1 DEF InNet, DataTo
    <3> QED BY <1>5, <3>1 DEF Line
  <2>4. /\ Tail(a) \o b \o c = Tail(a \o b \o c)
        /\ a \o b \o c # << >> /\ Head(a \o b \o c) = Head(a)
    <3> HIDE DEF a, b, c
    <3> QED BY <1>4, <1>8, <2>1, <2>2, LineShrinks
  <2>5. /\ Line(j, k) # << >> /\ Head(Line(j, k)) = p.body
        /\ Line(j, k)' = Tail(Line(j, k))
    <3> HIDE DEF a, b, c
    <3> QED BY <2>1, <2>3, <2>4
  <2>6. ASSUME NEW n \in Node, NEW m \in Node
        PROVE  Line(n, m)' = IF n = j /\ m = k THEN Tail(Line(n, m)) ELSE Line(n, m)
    BY <1>5, <2>5 DEF Line
  <2> DEFINE r == [body |-> p.body, src |-> j]
  <2>7. r \in Incoming /\ r.body = p.body /\ r.src = j
    BY <1>4, <1>8 DEF Incoming
  <2>8. recvQ' = [recvQ EXCEPT ![k] = Append(@, r)]
    BY <1>1, <1>8
  <2> HIDE DEF a, b, c, r
  <2>9. ASSUME NEW n \in Node, NEW m \in Node
        PROVE  There(n, m)' = IF n = j /\ m = k THEN Append(There(n, m), p.body)
                                                ELSE There(n, m)
    <3>1. /\ recvQ[m] \in Seq(Incoming) /\ Carries(Incoming, ReadFrom(n))
          /\ recvQ'[m] = IF m = k THEN Append(recvQ[m], r) ELSE recvQ[m]
          /\ r \in ReadFrom(n) <=> n = j
      BY <2>7, <2>8, BodyKinds DEF QueuesTyped
    <3>2. BodiesIn(Append(recvQ[m], r), ReadFrom(n))
            = IF n = j THEN Append(BodiesIn(recvQ[m], ReadFrom(n)), p.body)
                       ELSE BodiesIn(recvQ[m], ReadFrom(n))
      <4>1. CASE n = j
        BY <2>7, <3>1, <4>1, BodiesInFollow
      <4>2. CASE n # j
        BY <2>7, <3>1, <4>2, BodiesInFollow
      <4> QED BY <4>1, <4>2
    <3>3. There(n, m)' = BodiesIn(recvQ'[m], ReadFrom(n))
      BY DEF There, ReadFrom
    <3> QED BY <3>1, <3>2, <3>3 DEF There
  <2>10. Delivered(j, k)
    BY <2>5, <2>6, <2>9 DEF Delivered
  <2> QED BY <2>10
<1> QED BY <1>1, <1>7, <1>8

\* A message that is read was the first of its flow to arrive.
Removed(j, k) ==
  /\ There(j, k) # << >>
  /\ \A n, m \in Node :
       /\ Line(n, m)' = Line(n, m)
       /\ There(n, m)' = IF n = j /\ m = k THEN Tail(There(n, m)) ELSE There(n, m)

\* What the user takes is the first that had arrived of its flow.
LEMMA UserReceiveReads ==
  ASSUME QueuesTyped, NEW k \in Node, UserReceive(k)
  PROVE  \E j \in Node : Removed(j, k)
<1> DEFINE r == Head(recvQ[k])
<1>1. /\ recvQ[k] # << >> /\ recvQ' = [recvQ EXCEPT ![k] = Tail(@)]
      /\ UNCHANGED <<sendQ, packetSendQ, net>>
  BY DEF UserReceive, sendVars
<1>2. r \in Incoming
  BY <1>1, PopType DEF QueuesTyped
<1>3. r.src \in Node
  BY <1>2 DEF Incoming
<1>4. \A n, m \in Node : Line(n, m)' = Line(n, m)
  BY <1>1 DEF Line, InNet, InSend, InUser, DataTo, To
<1> HIDE DEF r
<1>5. ASSUME NEW n \in Node, NEW m \in Node
      PROVE  /\ n = r.src /\ m = k => There(n, m) # << >>
             /\ There(n, m)' = IF n = r.src /\ m = k THEN Tail(There(n, m)) ELSE There(n, m)
  <2>1. /\ recvQ[m] \in Seq(Incoming) /\ Carries(Incoming, ReadFrom(n))
        /\ recvQ'[m] = IF m = k THEN Tail(recvQ[m]) ELSE recvQ[m]
        /\ r \in ReadFrom(n) <=> n = r.src
    BY <1>1, <1>2, BodyKinds DEF QueuesTyped
  <2>2. Head(recvQ[k]) = r
    BY DEF r
  <2>3. There(n, m)' = BodiesIn(recvQ'[m], ReadFrom(n))
    BY DEF There, ReadFrom
  <2>4. CASE m # k
    BY <2>1, <2>3, <2>4 DEF There
  <2>5. CASE m = k /\ n = r.src
    <3>1. /\ BodiesIn(recvQ[m], ReadFrom(n)) # << >>
          /\ BodiesIn(Tail(recvQ[m]), ReadFrom(n)) = Tail(BodiesIn(recvQ[m], ReadFrom(n)))
      BY <1>1, <2>1, <2>2, <2>5, BodiesInFollow
    <3> QED BY <2>1, <2>3, <2>5, <3>1 DEF There
  <2>6. CASE m = k /\ n # r.src
    <3>1. BodiesIn(Tail(recvQ[m]), ReadFrom(n)) = BodiesIn(recvQ[m], ReadFrom(n))
      BY <1>1, <2>1, <2>2, <2>6, BodiesInFollow
    <3> QED BY <2>1, <2>3, <2>6, <3>1 DEF There
  <2> QED BY <2>4, <2>5, <2>6
<1>6. Removed(r.src, k)
  BY <1>3, <1>4, <1>5 DEF Removed
<1> QED BY <1>3, <1>6

\* A message sent is the last of its line.
Accepted(j, k, b) == \A n, m \in Node :
  /\ Line(n, m)' = IF n = j /\ m = k THEN Append(Line(n, m), b) ELSE Line(n, m)
  /\ There(n, m)' = There(n, m)

\* What the user sends goes to the end of the line of its flow.
LEMMA UserSendAccepts ==
  ASSUME QueuesTyped, NEW j \in Node, NEW k \in Node, NEW b \in Msg, UserSend(j, k, b)
  PROVE  Accepted(j, k, b)
<1> DEFINE s == [body |-> b, dst |-> k]
<1>1. /\ sendQ' = [sendQ EXCEPT ![j] = Append(@, s)]
      /\ UNCHANGED <<packetSendQ, net, recvQ>>
  BY DEF UserSend, recvVars
<1>2. s \in Outgoing /\ s.body = b /\ s.dst = k
  BY DEF Outgoing
<1> HIDE DEF s
<1>3. ASSUME NEW n \in Node, NEW m \in Node
      PROVE  Line(n, m)' = IF n = j /\ m = k THEN Append(Line(n, m), b) ELSE Line(n, m)
  <2> DEFINE x == InNet(n, m)
             y == InSend(n, m)
             z == InUser(n, m)
  <2>1. /\ sendQ[n] \in Seq(Outgoing) /\ Carries(Outgoing, To(m))
        /\ sendQ'[n] = IF n = j THEN Append(sendQ[n], s) ELSE sendQ[n]
        /\ s \in To(m) <=> m = k
    BY <1>1, <1>2, BodyKinds DEF QueuesTyped
  <2>2. BodiesIn(Append(sendQ[n], s), To(m)) = IF m = k THEN Append(z, b) ELSE z
    <3>1. CASE m = k
      BY <1>2, <2>1, <3>1, BodiesInFollow DEF InUser
    <3>2. CASE m # k
      BY <1>2, <2>1, <3>2, BodiesInFollow DEF InUser
    <3> QED BY <3>1, <3>2
  <2>3. InUser(n, m)' = IF n = j /\ m = k THEN Append(z, b) ELSE z
    BY <2>1, <2>2 DEF InUser, To
  <2>4. InNet(n, m)' = x /\ InSend(n, m)' = y
    BY <1>1 DEF InNet, InSend, DataTo
  <2>5. x \in Seq(Msg) /\ y \in Seq(Msg) /\ z \in Seq(Msg)
    BY LinesTyped
  <2>6. x \o y \o Append(z, b) = Append(x \o y \o z, b)
    <3> HIDE DEF x, y, z
    <3> QED BY <2>5, LineGrows
  <2> QED BY <2>3, <2>4, <2>6 DEF Line
<1>4. \A n, m \in Node : There(n, m)' = There(n, m)
  BY <1>1 DEF There, ReadFrom
<1> QED BY <1>3, <1>4 DEF Accepted

-----------------------------------------------------------------------------
\* What the channel sees of a flow is its line and what has arrived.
LEMMA ChannelView ==
  /\ Pending = [f \in Flow |-> Line(f[1], f[2])]
  /\ Arrived = [f \in Flow |-> There(f[1], f[2])]
BY DEF Pending, Arrived, Line, InNet, InSend, InUser, There, To, ReadFrom

\* A flow is a pair of nodes.
LEMMA FlowPairs ==
  ASSUME NEW f \in Flow
  PROVE  /\ f[1] \in Node /\ f[2] \in Node
         /\ \A n, m \in Node : f = <<n, m>> <=> f[1] = n /\ f[2] = m
BY FlowAssumption

\* Every step of the endpoints is a step of the channel or leaves it alone.
LEMMA EndpointStep ==
  ASSUME QueuesTyped, CountersTyped, Next
  PROVE  [Channel!Next]_<<Pending, Arrived>>
<1>v. /\ Pending = [f \in Flow |-> Line(f[1], f[2])]
      /\ Arrived = [f \in Flow |-> There(f[1], f[2])]
      /\ Pending' = [f \in Flow |-> Line(f[1], f[2])']
      /\ Arrived' = [f \in Flow |-> There(f[1], f[2])']
  BY DEF Pending, Arrived, Line, InNet, InSend, InUser, There, To, ReadFrom, DataTo
<1>1. ASSUME Still PROVE UNCHANGED <<Pending, Arrived>>
  BY <1>1, <1>v, FlowPairs DEF Still
<1>2. ASSUME NEW j \in Node, NEW k \in Node, Delivered(j, k)
      PROVE  [Channel!Next]_<<Pending, Arrived>>
  <2>1. CASE <<j, k>> \in Flow
    <3> DEFINE r == <<j, k>>
    <3>1. r \in Flow /\ r[1] = j /\ r[2] = k /\ Pending[r] = Line(j, k)
      BY <1>v, <2>1
    <3>2. Pending[r] # << >>
      BY <1>2, <3>1 DEF Delivered
    <3>a. ASSUME NEW f \in Flow
          PROVE  /\ Line(f[1], f[2])' = IF f = r THEN Tail(Pending[r]) ELSE Pending[f]
                 /\ There(f[1], f[2])' = IF f = r THEN Append(Arrived[r], Head(Pending[r]))
                                                  ELSE Arrived[f]
      <4>1. f[1] \in Node /\ f[2] \in Node /\ (f = r <=> f[1] = j /\ f[2] = k)
        BY FlowPairs
      <4>2. Pending[f] = Line(f[1], f[2]) /\ Arrived[f] = There(f[1], f[2])
        BY <1>v
      <4>3. Pending[r] = Line(j, k) /\ Arrived[r] = There(j, k)
        BY <1>v, <3>1
      <4> HIDE DEF r
      <4> QED BY <1>2, <4>1, <4>2, <4>3 DEF Delivered
    <3> HIDE DEF r
    <3>3. Pending' = [Pending EXCEPT ![r] = Tail(@)]
      <4>1. Pending' = [f \in Flow |-> IF f = r THEN Tail(Pending[r]) ELSE Pending[f]]
        BY <1>v, <3>a
      <4>2. Pending = [f \in Flow |-> Pending[f]]
        BY <1>v
      <4> QED BY <3>1, <4>1, <4>2, OneEntry
    <3>4. Arrived' = [Arrived EXCEPT ![r] = Append(@, Head(Pending[r]))]
      <4>1. Arrived' = [f \in Flow |-> IF f = r THEN Append(Arrived[r], Head(Pending[r]))
                                                ELSE Arrived[f]]
        BY <1>v, <3>a
      <4>2. Arrived = [f \in Flow |-> Arrived[f]]
        BY <1>v
      <4> QED BY <3>1, <4>1, <4>2, OneEntry
    <3> QED BY <3>1, <3>2, <3>3, <3>4 DEF Channel!Next, Channel!Deliver
  <2>2. CASE <<j, k>> \notin Flow
    <3>1. ASSUME NEW f \in Flow
          PROVE  /\ Line(f[1], f[2])' = Line(f[1], f[2])
                 /\ There(f[1], f[2])' = There(f[1], f[2])
      <4>1. f[1] \in Node /\ f[2] \in Node /\ ~(f[1] = j /\ f[2] = k)
        BY <2>2, FlowPairs
      <4> QED BY <1>2, <4>1 DEF Delivered
    <3>2. Pending' = Pending /\ Arrived' = Arrived
      BY <1>v, <3>1
    <3> QED BY <3>2
  <2> QED BY <2>1, <2>2
<1>3. ASSUME NEW j \in Node, NEW k \in Node, Removed(j, k)
      PROVE  [Channel!Next]_<<Pending, Arrived>>
  <2>1. CASE <<j, k>> \in Flow
    <3> DEFINE r == <<j, k>>
    <3>1. r \in Flow /\ r[1] = j /\ r[2] = k /\ Arrived[r] = There(j, k)
      BY <1>v, <2>1
    <3>2. Arrived[r] # << >>
      BY <1>3, <3>1 DEF Removed
    <3>3. Pending' = Pending
      BY <1>3, <1>v, FlowPairs DEF Removed
    <3>a. ASSUME NEW f \in Flow
          PROVE  There(f[1], f[2])' = IF f = r THEN Tail(Arrived[r]) ELSE Arrived[f]
      <4>1. f[1] \in Node /\ f[2] \in Node /\ (f = r <=> f[1] = j /\ f[2] = k)
        BY FlowPairs
      <4>2. Arrived[f] = There(f[1], f[2])
        BY <1>v
      <4> HIDE DEF r
      <4> QED BY <1>3, <3>1, <4>1, <4>2 DEF Removed
    <3> HIDE DEF r
    <3>4. Arrived' = [Arrived EXCEPT ![r] = Tail(@)]
      <4>1. Arrived' = [f \in Flow |-> IF f = r THEN Tail(Arrived[r]) ELSE Arrived[f]]
        BY <1>v, <3>a
      <4>2. Arrived = [f \in Flow |-> Arrived[f]]
        BY <1>v
      <4> QED BY <3>1, <4>1, <4>2, OneEntry
    <3> QED BY <3>1, <3>2, <3>3, <3>4 DEF Channel!Next, Channel!Read
  <2>2. CASE <<j, k>> \notin Flow
    BY <1>3, <1>v, <2>2, FlowPairs DEF Removed
  <2> QED BY <2>1, <2>2
<1>4. ASSUME NEW j \in Node, NEW k \in Node, NEW b \in Msg, UserSend(j, k, b)
      PROVE  [Channel!Next]_<<Pending, Arrived>>
  <2> DEFINE r == <<j, k>>
  <2>1. r \in Flow
    BY <1>4, DeploymentsAssumption DEF UserSend, CountersTyped
  <2>2. Accepted(j, k, b)
    BY <1>4, UserSendAccepts
  <2>a. ASSUME NEW f \in Flow
        PROVE  /\ Line(f[1], f[2])' = IF f = r THEN Append(Pending[r], b) ELSE Pending[f]
               /\ There(f[1], f[2])' = Arrived[f]
    <3>1. f[1] \in Node /\ f[2] \in Node /\ (f = r <=> f[1] = j /\ f[2] = k)
      BY FlowPairs
    <3>2. Pending[f] = Line(f[1], f[2]) /\ Arrived[f] = There(f[1], f[2])
      BY <1>v
    <3>3. Pending[r] = Line(j, k)
      BY <1>v, <2>1
    <3> HIDE DEF r
    <3> QED BY <2>2, <3>1, <3>2, <3>3 DEF Accepted
  <2> HIDE DEF r
  <2>3. Pending' = [Pending EXCEPT ![r] = Append(@, b)]
    <3>1. Pending' = [f \in Flow |-> IF f = r THEN Append(Pending[r], b) ELSE Pending[f]]
      BY <1>v, <2>a
    <3>2. Pending = [f \in Flow |-> Pending[f]]
      BY <1>v
    <3> QED BY <2>1, <3>1, <3>2, OneEntry
  <2>4. Arrived' = Arrived
    BY <1>v, <2>a
  <2> QED BY <2>1, <2>3, <2>4 DEF Channel!Next, Channel!Send
<1>5. PICK n \in Node :
        \/ InsertAckQ(n) \/ UserReceive(n) \/ CmdReceive(n)
        \/ \E m \in Node : CmdSend(n, m) \/ \E b \in Msg : UserSend(n, m, b)
  BY DEF Next
<1>6. CASE InsertAckQ(n)
  BY <1>1, <1>6, InsertAckStill, InsertDataStill DEF InsertAckQ
<1>7. CASE UserReceive(n)
  BY <1>3, <1>7, UserReceiveReads
<1>8. CASE CmdReceive(n)
  BY <1>1, <1>8, CmdReceiveStill
<1>9. CASE \E m \in Node : CmdSend(n, m)
  BY <1>1, <1>2, <1>9, CmdSendDelivers
<1>10. CASE \E m \in Node : \E b \in Msg : UserSend(n, m, b)
  BY <1>4, <1>10
<1> QED BY <1>5, <1>6, <1>7, <1>8, <1>9, <1>10

\* At first nothing is under way.
LEMMA ChannelInit == Init => Channel!Init
<1> SUFFICES ASSUME Init PROVE Channel!Init
  OBVIOUS
<1>1. \A K : BodiesIn(<< >>, K) = << >>
  BY KeptEmpty DEF BodiesIn
<1>2. ASSUME NEW f \in Flow PROVE Line(f[1], f[2]) = << >> /\ There(f[1], f[2]) = << >>
  <2>1. f[1] \in Node /\ f[2] \in Node
    BY FlowPairs
  <2>2. /\ net[f[1]][f[2]] = << >> /\ packetSendQ[f[1]] = << >>
        /\ sendQ[f[1]] = << >> /\ recvQ[f[2]] = << >>
    BY <2>1 DEF Init, Matrix
  <2>3. /\ InNet(f[1], f[2]) = << >> /\ InSend(f[1], f[2]) = << >>
        /\ InUser(f[1], f[2]) = << >> /\ There(f[1], f[2]) = << >>
    BY <1>1, <2>2 DEF InNet, InSend, InUser, There
  <2> QED BY <2>3 DEF Line
<1> QED BY <1>2, ChannelView DEF Channel!Init

\* No message of a flow is lost, altered, duplicated or overtaken between
\* user.send and user.receive, for any number of nodes: the endpoints implement
\* the FIFO channel (its liveness is checked by TLC).
THEOREM EndpointsAreChannels == Spec => ChannelSafe
<1>1. Init => Channel!Init
  BY ChannelInit
<1>2. AccountInv /\ [Next]_vars => [Channel!Next]_<<Pending, Arrived>>
  <2> SUFFICES ASSUME AccountInv, [Next]_vars PROVE [Channel!Next]_<<Pending, Arrived>>
    OBVIOUS
  <2>1. CASE Next
    BY <2>1, EndpointStep DEF AccountInv
  <2>2. CASE UNCHANGED vars
    <3>1. UNCHANGED <<net, packetSendQ, sendQ, recvQ>>
      BY <2>2 DEF vars, sendVars, recvVars
    <3>2. UNCHANGED <<Pending, Arrived>>
      BY <3>1 DEF Pending, Arrived, DataTo
    <3> QED BY <3>2
  <2> QED BY <2>1, <2>2
<1>3. Spec => []AccountInv
  BY AccountHolds
<1> QED BY <1>1, <1>2, <1>3, PTL DEF Spec, ChannelSafe, Channel!SafeSpec
=============================================================================
