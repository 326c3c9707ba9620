------------------------- MODULE AuroraGearbox_proofs -------------------------
(***************************************************************************)
(* Proofs about AuroraGearbox, for every queue depth, window and set of    *)
(* packets that satisfies its assumptions.                                 *)
(***************************************************************************)
EXTENDS AuroraGearbox, QueueLemmas

-----------------------------------------------------------------------------
\* Counters.  The difference of two Bit#(16) counters follows a step of either
\* as long as it stays within the width.
LEMMA MinusType ==
  ASSUME NEW x \in 0 .. CounterMod - 1, NEW y \in 0 .. CounterMod - 1
  PROVE  Minus(x, y) \in 0 .. CounterMod - 1
BY DepthAssumption DEF Minus

\* A counter stays within its width.
LEMMA PlusType ==
  ASSUME NEW x \in Int, NEW n \in Int
  PROVE  Plus(x, n) \in 0 .. CounterMod - 1
BY DepthAssumption DEF Plus

\* Counting up at one end keeps the type of both.
LEMMA StepType ==
  ASSUME NEW f \in [Side -> 0 .. CounterMod - 1], NEW s \in Side, NEW n \in Nat
  PROVE  [f EXCEPT ![s] = Plus(@, n)] \in [Side -> 0 .. CounterMod - 1]
<1>1. f[s] \in Int
  OBVIOUS
<1>2. Plus(f[s], n) \in 0 .. CounterMod - 1
  BY <1>1, DepthAssumption DEF Plus
<1> QED BY <1>2, PutType

\* Counting the first of two counters up adds to their difference.
LEMMA CounterUp ==
  ASSUME NEW x \in 0 .. CounterMod - 1, NEW y \in 0 .. CounterMod - 1,
         NEW n \in Nat, Minus(x, y) + n < CounterMod
  PROVE  Minus(Plus(x, n), y) = Minus(x, y) + n
<1>1. n \in 0 .. CounterMod - 1
  BY MinusType, DepthAssumption
<1>2. Plus(x, n) = IF x + n < CounterMod THEN x + n ELSE x + n - CounterMod
  BY <1>1, DepthAssumption DEF Plus
<1>3. Plus(x, n) \in 0 .. CounterMod - 1
  BY PlusType
<1>4. \A u, v \in 0 .. CounterMod - 1 :
         Minus(u, v) = IF u >= v THEN u - v ELSE u - v + CounterMod
  BY DepthAssumption DEF Minus
<1> QED BY <1>1, <1>2, <1>3, <1>4, DepthAssumption

\* An addition that stays within the width is exact.
LEMMA PlusExact ==
  ASSUME NEW x \in Nat, NEW y \in Nat, x + y < CounterMod PROVE Plus(x, y) = x + y
BY DepthAssumption DEF Plus

\* Counting the second up takes from their difference.
LEMMA CounterDown ==
  ASSUME NEW x \in 0 .. CounterMod - 1, NEW y \in 0 .. CounterMod - 1,
         Minus(x, y) > 0
  PROVE  Minus(x, Plus(y, 1)) = Minus(x, y) - 1
<1>1. \A u, v \in 0 .. CounterMod - 1 :
         Minus(u, v) = IF u >= v THEN u - v ELSE u - v + CounterMod
  BY DepthAssumption DEF Minus
<1>2. CounterMod > 1
  BY <1>1, DepthAssumption
<1>3. Plus(y, 1) = IF y + 1 < CounterMod THEN y + 1 ELSE y + 1 - CounterMod
  BY <1>2, DepthAssumption DEF Plus
<1>4. Plus(y, 1) \in 0 .. CounterMod - 1
  BY PlusType
<1> QED BY <1>1, <1>2, <1>3, <1>4, DepthAssumption

-----------------------------------------------------------------------------
\* The words between two ends, as the three queues that hold them move on.
LEMMA WordsType == ASSUME TypeOK, NEW s \in Side PROVE Words(s) \in Seq(Word)
<1>1. Peer(s) \in Side
  BY DEF Peer, Side
<1> QED BY <1>1, ConcatType DEF TypeOK, Words

\* A word enters or leaves on one side; the words of the other direction stay.
LEMMA WordsEnter ==
  ASSUME TypeOK, NEW s \in Side, NEW w \in Word,
         auroraOutQ' = [auroraOutQ EXCEPT ![s] = Append(@, w)],
         UNCHANGED <<wire, auroraInQ>>
  PROVE  Words(s)' = Append(Words(s), w) /\ Words(Peer(s))' = Words(Peer(s))
<1>1. Peer(s) \in Side /\ Peer(s) # s
  BY DEF Peer, Side
<1>2. auroraOutQ'[s] = Append(auroraOutQ[s], w) /\ auroraOutQ'[Peer(s)] = auroraOutQ[Peer(s)]
  BY <1>1 DEF TypeOK
<1>3. /\ auroraInQ[Peer(s)] \in Seq(Word) /\ wire[s] \in Seq(Word)
      /\ auroraOutQ[s] \in Seq(Word)
  BY <1>1 DEF TypeOK
<1> DEFINE a == auroraInQ[Peer(s)] \o wire[s]
           b == auroraOutQ[s]
<1>4. Words(s) = a \o b /\ Words(s)' = a \o Append(b, w)
  BY <1>2 DEF Words
<1>5. a \in Seq(Word) /\ b \in Seq(Word)
  BY <1>3, ConcatType
<1>6. Words(Peer(s))' = Words(Peer(s))
  BY <1>2 DEF Words
<1> HIDE DEF a, b
<1>7. Words(s)' = Append(Words(s), w)
  BY <1>4, <1>5, ConcatAppend
<1> QED BY <1>6, <1>7

\* A word taken by an end was the first of the words the peer sent.
LEMMA WordsLeave ==
  ASSUME TypeOK, NEW s \in Side, auroraInQ[s] # << >>,
         auroraInQ' = [auroraInQ EXCEPT ![s] = Tail(@)],
         UNCHANGED <<auroraOutQ, wire>>
  PROVE  /\ Words(Peer(s)) # << >> /\ Head(Words(Peer(s))) = Head(auroraInQ[s])
         /\ Words(Peer(s))' = Tail(Words(Peer(s))) /\ Words(s)' = Words(s)
<1>1. Peer(s) \in Side /\ Peer(s) # s /\ Peer(Peer(s)) = s
  BY DEF Peer, Side
<1>2. auroraInQ'[s] = Tail(auroraInQ[s]) /\ auroraInQ'[Peer(s)] = auroraInQ[Peer(s)]
  BY <1>1 DEF TypeOK
<1> DEFINE a == auroraInQ[s]
           b == wire[Peer(s)]
           c == auroraOutQ[Peer(s)]
<1>3. /\ a \in Seq(Word) /\ b \in Seq(Word) /\ c \in Seq(Word)
      /\ Tail(a) \in Seq(Word) /\ a # << >>
  BY <1>1 DEF TypeOK
<1>4. Words(Peer(s)) = (a \o b) \o c /\ Words(Peer(s))' = (Tail(a) \o b) \o c
  BY <1>1, <1>2 DEF Words
<1>5. Words(s)' = Words(s)
  BY <1>2 DEF Words
<1> HIDE DEF a, b, c
<1>6. a \o b \in Seq(Word) /\ a \o b # << >> /\ Tail(a \o b) = Tail(a) \o b
      /\ Head(a \o b) = Head(a)
  BY <1>3, ConcatType, ConcatTail
<1>7. /\ (a \o b) \o c # << >> /\ Tail((a \o b) \o c) = (Tail(a) \o b) \o c
      /\ Head((a \o b) \o c) = Head(a)
  BY <1>3, <1>6, ConcatTail
<1> QED BY <1>4, <1>5, <1>7 DEF a

\* The Aurora core moves words along and keeps their order.
LEMMA WordsMove ==
  ASSUME TypeOK, NEW s \in Side, AuroraSend(s) \/ AuroraRecv(s), NEW t \in Side
  PROVE  Words(t)' = Words(t)
<1> DEFINE p == Peer(s)
<1>1. p \in Side /\ p # s /\ Peer(p) = s /\ t \in {s, p}
  BY DEF Peer, Side
<1>2. \A u \in Side : /\ auroraInQ[u] \in Seq(Word) /\ wire[u] \in Seq(Word)
                       /\ auroraOutQ[u] \in Seq(Word)
  BY DEF TypeOK
<1>3. CASE AuroraSend(s)
  <2>1. /\ wire'[s] = Append(wire[s], Head(auroraOutQ[s])) /\ wire'[p] = wire[p]
        /\ auroraOutQ'[s] = Tail(auroraOutQ[s]) /\ auroraOutQ'[p] = auroraOutQ[p]
        /\ auroraInQ' = auroraInQ /\ auroraOutQ[s] # << >>
    BY <1>1, <1>3 DEF AuroraSend, TypeOK
  <2> DEFINE a == auroraInQ[p]
             b == wire[s]
             c == auroraOutQ[s]
  <2>2. /\ a \in Seq(Word) /\ b \in Seq(Word) /\ c \in Seq(Word) /\ c # << >>
        /\ Head(c) \in Word
    BY <1>1, <1>2, <2>1
  <2>3. Words(p)' = Words(p)
    BY <1>1, <2>1 DEF Words
  <2>4. Words(s) = (a \o b) \o c /\ Words(s)' = (a \o Append(b, Head(c))) \o Tail(c)
    BY <2>1 DEF Words
  <2> HIDE DEF a, b, c
  <2>5. Words(s)' = Words(s)
    <3>1. a \o Append(b, Head(c)) = Append(a \o b, Head(c)) /\ a \o b \in Seq(Word)
      BY <2>2, ConcatType, ConcatAppend
    <3>2. Append(a \o b, Head(c)) \o Tail(c) = (a \o b) \o c
      BY <2>2, <3>1, ConcatShift
    <3> QED BY <2>4, <3>1, <3>2
  <2> QED BY <1>1, <2>3, <2>5
<1>4. CASE AuroraRecv(s)
  <2>1. /\ auroraInQ'[s] = Append(auroraInQ[s], Head(wire[p])) /\ auroraInQ'[p] = auroraInQ[p]
        /\ wire'[p] = Tail(wire[p]) /\ wire'[s] = wire[s]
        /\ auroraOutQ' = auroraOutQ /\ wire[p] # << >>
    BY <1>1, <1>4 DEF AuroraRecv, TypeOK
  <2> DEFINE a == auroraInQ[s]
             b == wire[p]
             c == auroraOutQ[p]
  <2>2. a \in Seq(Word) /\ b \in Seq(Word) /\ c \in Seq(Word) /\ b # << >>
    BY <1>1, <1>2, <2>1
  <2>3. Words(s)' = Words(s)
    BY <1>1, <2>1 DEF Words
  <2>4. Words(p) = (a \o b) \o c /\ Words(p)' = (Append(a, Head(b)) \o Tail(b)) \o c
    BY <1>1, <2>1 DEF Words
  <2> HIDE DEF a, b, c
  <2>5. Words(p)' = Words(p)
    BY <2>2, <2>4, ConcatShift
  <2> QED BY <1>1, <2>3, <2>5
<1> QED BY <1>3, <1>4
-----------------------------------------------------------------------------
\* Type correctness.
LEMMA WordType ==
  /\ CreditWord(WindowSize) \in Word
  /\ \A h \in Half : HalfWord("lo", h) \in Word /\ HalfWord("hi", h) \in Word
BY DEF Word, CreditWord, HalfWord

\* Every step keeps the types.
LEMMA TypeStep == TypeOK /\ [Next]_vars => TypeOK'
<1> SUFFICES ASSUME TypeOK, [Next]_vars PROVE TypeOK'
  OBVIOUS
<1>1. CASE UNCHANGED vars
  BY <1>1 DEF TypeOK, vars, creditVars, budgetVars, sendVars, recvVars, linkVars
<1>2. ASSUME NEW s \in Side, EmitFlowControlPacket(s) PROVE TypeOK'
  <2>1. flowControlQ' \in [Side -> Seq({WindowSize})]
    BY <1>2, PushType DEF TypeOK, EmitFlowControlPacket
  <2>2. maxInFlightUp' \in [Side -> 0 .. CounterMod - 1]
    <3>1. maxInFlightUp \in [Side -> 0 .. CounterMod - 1] /\ WindowSize \in Nat
      BY DepthAssumption DEF TypeOK
    <3> QED BY <1>2, <3>1, StepType DEF EmitFlowControlPacket
  <2> QED BY <1>2, <2>1, <2>2
    DEF TypeOK, EmitFlowControlPacket, budgetVars, sendVars, recvVars, linkVars
<1>3. ASSUME NEW s \in Side, SendControl(s) PROVE TypeOK'
  <2>1. Head(flowControlQ[s]) = WindowSize /\ CreditWord(Head(flowControlQ[s])) \in Word
    <3>1. flowControlQ[s] \in Seq({WindowSize}) /\ flowControlQ[s] # << >>
      BY <1>3 DEF TypeOK, SendControl
    <3>2. Head(flowControlQ[s]) = WindowSize
      BY <3>1
    <3> QED BY <3>2, WordType
  <2>2. auroraOutQ' \in [Side -> Seq(Word)]
    <3>1. auroraOutQ \in [Side -> Seq(Word)]
      BY DEF TypeOK
    <3> QED BY <1>3, <2>1, <3>1, PushType DEF SendControl
  <2>3. flowControlQ' \in [Side -> Seq({WindowSize})]
    BY <1>3, PopType DEF TypeOK, SendControl
  <2> QED BY <1>3, <2>2, <2>3
    DEF TypeOK, SendControl, creditVars, budgetVars, sendVars, recvVars
<1>4. ASSUME NEW s \in Side, SendHigh(s) PROVE TypeOK'
  <2>1. Head(packetSendBuffer[s]) \in Half
    BY <1>4 DEF TypeOK, SendHigh
  <2>2. auroraOutQ' \in [Side -> Seq(Word)]
    <3>1. HalfWord("hi", Head(packetSendBuffer[s])) \in Word
      BY <2>1, WordType
    <3>2. auroraOutQ \in [Side -> Seq(Word)]
      BY DEF TypeOK
    <3> QED BY <1>4, <3>1, <3>2, PushType DEF SendHigh
  <2>3. packetSendBuffer' \in [Side -> Seq(Half)]
    BY <1>4 DEF TypeOK, SendHigh
  <2>4. curSendBudgetDown' \in [Side -> 0 .. CounterMod - 1]
    <3>1. curSendBudgetDown \in [Side -> 0 .. CounterMod - 1]
      BY DEF TypeOK
    <3> QED BY <1>4, <3>1, StepType DEF SendHigh
  <2> QED BY <1>4, <2>2, <2>3, <2>4 DEF TypeOK, SendHigh, creditVars, recvVars
<1>5. ASSUME NEW s \in Side, SendLow(s) PROVE TypeOK'
  <2>1. Head(sendQ[s])[1] \in Half /\ Head(sendQ[s])[2] \in Half
    <3>1. Head(sendQ[s]) \in Data
      BY <1>5, PopType DEF TypeOK, SendLow
    <3> QED BY <3>1, DataAssumption
  <2>2. auroraOutQ' \in [Side -> Seq(Word)]
    <3>1. HalfWord("lo", Head(sendQ[s])[1]) \in Word
      BY <2>1, WordType
    <3>2. auroraOutQ \in [Side -> Seq(Word)]
      BY DEF TypeOK
    <3> QED BY <1>5, <3>1, <3>2, PushType DEF SendLow
  <2>3. packetSendBuffer' \in [Side -> Seq(Half)]
    BY <1>5, <2>1 DEF TypeOK, SendLow
  <2>4. sendQ' \in [Side -> Seq(Data)]
    BY <1>5, PopType DEF TypeOK, SendLow
  <2> QED BY <1>5, <2>2, <2>3, <2>4 DEF TypeOK, SendLow, creditVars, budgetVars, recvVars
<1>6. ASSUME NEW s \in Side, AuroraSend(s) PROVE TypeOK'
  <2>1. auroraOutQ' \in [Side -> Seq(Word)] /\ wire' \in [Side -> Seq(Word)]
    <3>1. auroraOutQ \in [Side -> Seq(Word)] /\ wire \in [Side -> Seq(Word)]
      BY DEF TypeOK
    <3>2. Head(auroraOutQ[s]) \in Word /\ auroraOutQ' \in [Side -> Seq(Word)]
      BY <1>6, <3>1, PopType DEF AuroraSend
    <3> QED BY <1>6, <3>1, <3>2, PushType DEF AuroraSend
  <2> QED BY <1>6, <2>1 DEF TypeOK, AuroraSend, creditVars, budgetVars, sendVars, recvVars
<1>7. ASSUME NEW s \in Side, AuroraRecv(s) PROVE TypeOK'
  <2>1. Peer(s) \in Side
    BY DEF Peer, Side
  <2>2. auroraInQ' \in [Side -> Seq(Word)] /\ wire' \in [Side -> Seq(Word)]
    <3>1. auroraInQ \in [Side -> Seq(Word)] /\ wire \in [Side -> Seq(Word)]
      BY DEF TypeOK
    <3>2. Head(wire[Peer(s)]) \in Word /\ wire' \in [Side -> Seq(Word)]
      BY <1>7, <2>1, <3>1, PopType DEF AuroraRecv
    <3> QED BY <1>7, <3>1, <3>2, PushType DEF AuroraRecv
  <2> QED BY <1>7, <2>2 DEF TypeOK, AuroraRecv, creditVars, budgetVars, sendVars, recvVars
<1>8. ASSUME NEW s \in Side, RecvPacketPart(s) PROVE TypeOK'
  <2> DEFINE word == Head(auroraInQ[s])
  <2>1. word \in Word /\ auroraInQ' \in [Side -> Seq(Word)]
    BY <1>8, PopType DEF TypeOK, RecvPacketPart
  <2>2. UNCHANGED <<curSendBudgetDown, sendQ, packetSendBuffer, auroraOutQ, wire, flowControlQ>>
    BY <1>8 DEF RecvPacketPart, sendVars
  <2>3. RecvControl(s, word) \/ RecvHigh(s, word) \/ RecvLow(s, word)
    BY <1>8 DEF RecvPacketPart
  <2> HIDE DEF word
  <2>4. CASE RecvControl(s, word)
    <3>1. word.body = WindowSize
      BY <2>1, <2>4 DEF RecvControl, Word
    <3>2. curSendBudgetUp' \in [Side -> 0 .. CounterMod - 1]
      <4>1. curSendBudgetUp \in [Side -> 0 .. CounterMod - 1] /\ WindowSize \in Nat
        BY DepthAssumption DEF TypeOK
      <4> QED BY <2>4, <3>1, <4>1, StepType DEF RecvControl
    <3> QED BY <2>1, <2>2, <2>4, <3>2 DEF TypeOK, RecvControl, creditVars, recvVars
  <2>5. CASE RecvHigh(s, word)
    <3>1. word.body \in Half
      BY <2>1, <2>5 DEF RecvHigh, Word
    <3>2. UNCHANGED <<maxInFlightUp, curInQDown, curSendBudgetUp, recvQ>>
      BY <2>5 DEF RecvHigh
    <3>3. CASE packetRecvBuffer[s] # << >>
      <4>1. Assemble(s, word)
        BY <2>5, <3>3 DEF RecvHigh
      <4>2. <<Head(packetRecvBuffer[s]), word.body>> \in Half \X Half
        <5>1. packetRecvBuffer[s] \in Seq(Half)
          BY DEF TypeOK
        <5>2. Head(packetRecvBuffer[s]) \in Half
          BY <3>3, <5>1
        <5> QED BY <3>1, <5>2
      <4>3. recvBufferQ' \in [Side -> Seq(Half \X Half)]
        <5> DEFINE packet == <<Head(packetRecvBuffer[s]), word.body>>
        <5>1. recvBufferQ' = [recvBufferQ EXCEPT ![s] = Append(@, packet)]
          BY <4>1 DEF Assemble
        <5>2. packet \in Half \X Half
          BY <4>2
        <5> HIDE DEF packet
        <5> QED BY <5>1, <5>2, PushType DEF TypeOK
      <4>4. packetRecvBuffer' \in [Side -> Seq(Half)]
        BY <4>1 DEF TypeOK, Assemble
      <4>5. /\ maxInFlightDown' \in [Side -> 0 .. CounterMod - 1]
            /\ curInQUp' \in [Side -> 0 .. CounterMod - 1]
        <5>1. /\ maxInFlightDown \in [Side -> 0 .. CounterMod - 1]
              /\ curInQUp \in [Side -> 0 .. CounterMod - 1]
          BY DEF TypeOK
        <5> QED BY <4>1, <5>1, StepType DEF Assemble
      <4> QED BY <2>1, <2>2, <3>2, <4>3, <4>4, <4>5 DEF TypeOK
    <3>4. CASE packetRecvBuffer[s] = << >>
      <4>1. UNCHANGED <<recvBufferQ, packetRecvBuffer, maxInFlightDown, curInQUp>>
        BY <2>5, <3>4 DEF RecvHigh
      <4> QED BY <2>1, <2>2, <3>2, <4>1 DEF TypeOK
    <3> QED BY <3>3, <3>4
  <2>6. CASE RecvLow(s, word)
    <3>1. word.body \in Half
      BY <2>1, <2>6 DEF RecvLow, Word
    <3>2. packetRecvBuffer' \in [Side -> Seq(Half)]
      BY <2>6, <3>1 DEF TypeOK, RecvLow
    <3> QED BY <2>1, <2>2, <2>6, <3>2 DEF TypeOK, RecvLow, creditVars
  <2> QED BY <2>3, <2>4, <2>5, <2>6
<1>9. ASSUME NEW s \in Side, FlushReadBuffer(s) PROVE TypeOK'
  <2>1. Head(recvBufferQ[s]) \in Half \X Half
    <3>1. recvBufferQ \in [Side -> Seq(Half \X Half)] /\ recvBufferQ[s] # << >>
      BY <1>9 DEF TypeOK, FlushReadBuffer
    <3> QED BY <3>1, PopType
  <2>2. recvQ' \in [Side -> Seq(Half \X Half)]
    <3>1. recvQ \in [Side -> Seq(Half \X Half)]
      BY DEF TypeOK
    <3> QED BY <1>9, <2>1, <3>1, PushType DEF FlushReadBuffer
  <2>3. recvBufferQ' \in [Side -> Seq(Half \X Half)]
    BY <1>9, PopType DEF TypeOK, FlushReadBuffer
  <2>4. curInQDown' \in [Side -> 0 .. CounterMod - 1]
    <3>1. curInQDown \in [Side -> 0 .. CounterMod - 1]
      BY DEF TypeOK
    <3> QED BY <1>9, <3>1, StepType DEF FlushReadBuffer
  <2> QED BY <1>9, <2>2, <2>3, <2>4 DEF TypeOK, FlushReadBuffer, budgetVars, sendVars, linkVars
<1>10. ASSUME NEW s \in Side, NEW d \in Data, Send(s, d) PROVE TypeOK'
  <2>1. sendQ' \in [Side -> Seq(Data)]
    <3>1. sendQ \in [Side -> Seq(Data)]
      BY DEF TypeOK
    <3> QED BY <1>10, <3>1, PushType DEF Send
  <2> QED BY <1>10, <2>1 DEF TypeOK, Send, creditVars, budgetVars, recvVars, linkVars
<1>11. ASSUME NEW s \in Side, Recv(s) PROVE TypeOK'
  <2>1. recvQ' \in [Side -> Seq(Half \X Half)]
    BY <1>11, PopType DEF TypeOK, Recv
  <2> QED BY <1>11, <2>1 DEF TypeOK, Recv, creditVars, budgetVars, sendVars, linkVars
<1> QED
  BY <1>1, <1>2, <1>3, <1>4, <1>5, <1>6, <1>7, <1>8, <1>9, <1>10, <1>11
  DEF Next, Rules, SendPacketPart

\* Every queue, register and counter keeps its type (all rules of the module).
THEOREM TypeCorrect == Spec => []TypeOK
<1>1. Init => TypeOK
  BY DepthAssumption DEF Init, TypeOK
<1> QED BY <1>1, TypeStep, PTL DEF Spec
-----------------------------------------------------------------------------
\* How the alternation of halves follows a word sent and a word taken.
LEMMA AlternatesAppend ==
  ASSUME NEW q \in Seq(Word), NEW w \in Word, NEW b \in BOOLEAN, NEW a \in BOOLEAN,
         NEW c \in BOOLEAN, Alternates(q, b, a),
         w.kind = "credit" => c = a,
         w.kind = "lo" => ~a /\ c,
         w.kind = "hi" => a /\ ~c
  PROVE  Alternates(Append(q, w), b, c)
<1>1. PICK h \in [1 .. Len(q) + 1 -> BOOLEAN] :
        /\ h[1] = b /\ h[Len(q) + 1] = a
        /\ \A i \in 1 .. Len(q) :
             /\ q[i].kind = "credit" => h[i + 1] = h[i]
             /\ q[i].kind = "lo" => ~h[i] /\ h[i + 1]
             /\ q[i].kind = "hi" => h[i] /\ ~h[i + 1]
  BY DEF Alternates
<1> DEFINE r == Append(q, w)
           g == [i \in 1 .. Len(r) + 1 |-> IF i <= Len(q) + 1 THEN h[i] ELSE c]
<1>2. /\ Len(r) = Len(q) + 1 /\ Len(q) \in Nat /\ r[Len(q) + 1] = w
      /\ \A i \in 1 .. Len(q) : r[i] = q[i]
  OBVIOUS
<1>3. g \in [1 .. Len(r) + 1 -> BOOLEAN]
  BY <1>2
<1>4. \A i \in 1 .. Len(q) + 1 : g[i] = h[i]
  BY <1>2
<1>5. g[Len(q) + 2] = c
  BY <1>2
<1> HIDE DEF r, g
<1>6. ASSUME NEW i \in 1 .. Len(r)
      PROVE  /\ r[i].kind = "credit" => g[i + 1] = g[i]
             /\ r[i].kind = "lo" => ~g[i] /\ g[i + 1]
             /\ r[i].kind = "hi" => g[i] /\ ~g[i + 1]
  <2>1. CASE i = Len(q) + 1
    BY <1>1, <1>2, <1>4, <1>5, <2>1
  <2>2. CASE i \in 1 .. Len(q)
    BY <1>1, <1>2, <1>4, <2>2
  <2> QED BY <1>2, <2>1, <2>2
<1>7. g[1] = b /\ g[Len(r) + 1] = c
  BY <1>1, <1>2, <1>4, <1>5
<1>8. Alternates(r, b, c)
  BY <1>3, <1>6, <1>7 DEF Alternates
<1> QED BY <1>8 DEF r

\* Reading the first word of an alternating sequence.
LEMMA AlternatesTail ==
  ASSUME NEW q \in Seq(Word), q # << >>, NEW b \in BOOLEAN, NEW a \in BOOLEAN,
         Alternates(q, b, a)
  PROVE  /\ Head(q).kind = "credit" => Alternates(Tail(q), b, a)
         /\ Head(q).kind = "lo" => ~b /\ Alternates(Tail(q), TRUE, a)
         /\ Head(q).kind = "hi" => b /\ Alternates(Tail(q), FALSE, a)
<1>1. PICK h \in [1 .. Len(q) + 1 -> BOOLEAN] :
        /\ h[1] = b /\ h[Len(q) + 1] = a
        /\ \A i \in 1 .. Len(q) :
             /\ q[i].kind = "credit" => h[i + 1] = h[i]
             /\ q[i].kind = "lo" => ~h[i] /\ h[i + 1]
             /\ q[i].kind = "hi" => h[i] /\ ~h[i + 1]
  BY DEF Alternates
<1> DEFINE r == Tail(q)
           g == [i \in 1 .. Len(r) + 1 |-> h[i + 1]]
<1>2. /\ Len(r) = Len(q) - 1 /\ Len(q) \in Nat /\ Len(q) >= 1 /\ Head(q) = q[1]
      /\ \A i \in 1 .. Len(r) : r[i] = q[i + 1]
  OBVIOUS
<1>3. g \in [1 .. Len(r) + 1 -> BOOLEAN] /\ \A i \in 1 .. Len(r) + 1 : g[i] = h[i + 1]
  BY <1>2
<1> HIDE DEF r, g
<1>4. ASSUME NEW i \in 1 .. Len(r)
      PROVE  /\ r[i].kind = "credit" => g[i + 1] = g[i]
             /\ r[i].kind = "lo" => ~g[i] /\ g[i + 1]
             /\ r[i].kind = "hi" => g[i] /\ ~g[i + 1]
  <2>1. i + 1 \in 1 .. Len(q) /\ i \in 1 .. Len(r) + 1 /\ i + 1 \in 1 .. Len(r) + 1
    BY <1>2
  <2>2. r[i] = q[i + 1] /\ g[i] = h[i + 1] /\ g[i + 1] = h[(i + 1) + 1]
    BY <1>2, <1>3, <2>1
  <2> QED BY <1>1, <2>1, <2>2
<1>5. g[1] = h[2] /\ g[Len(r) + 1] = a
  BY <1>1, <1>2, <1>3
<1>6. Alternates(r, h[2], a)
  BY <1>3, <1>4, <1>5 DEF Alternates
<1>7. /\ Head(q).kind = "credit" => h[2] = b
      /\ Head(q).kind = "lo" => ~b /\ h[2]
      /\ Head(q).kind = "hi" => b /\ ~h[2]
  BY <1>1, <1>2
<1>8. h[2] \in BOOLEAN
  BY <1>2
<1> QED BY <1>6, <1>7, <1>8 DEF r
-----------------------------------------------------------------------------
(***************************************************************************)
(* The inductive invariant.  ReceiverHasRoom alone is not inductive: a     *)
(* packet may only be taken because a credit was granted for it            *)
(* (CreditConservation), and taking a high half settles its credit only    *)
(* when a low half is held (HalvesAlternate).                              *)
(***************************************************************************)
Inv == /\ TypeOK /\ CreditConservation /\ ReceiverHasRoom
       /\ HalvesAlternate /\ HalfKeepsCredit

\* The credits of some windows, and of one window more.
LEMMA Windows ==
  ASSUME NEW n \in Nat
  PROVE  WindowSize * n \in Nat /\ WindowSize * (n + 1) = WindowSize * n + WindowSize
BY DepthAssumption

\* The two ends are each other's peers.
LEMMA PeerFacts ==
  ASSUME NEW s \in Side
  PROVE  /\ Peer(s) \in Side /\ Peer(s) # s /\ Peer(Peer(s)) = s
         /\ \A t \in Side : t = s \/ t = Peer(s)
BY DEF Peer, Side

\* What the differences of counters and the lengths of queues can be.
LEMMA Bounds ==
  ASSUME TypeOK, NEW s \in Side
  PROVE  /\ InFlight(s) \in 0 .. CounterMod - 1 /\ InQ(s) \in 0 .. CounterMod - 1
         /\ Budget(s) \in 0 .. CounterMod - 1 /\ Len(flowControlQ[s]) \in Nat
         /\ Words(s) \in Seq(Word)
         /\ Count(Words(s), "credit") \in Nat /\ Count(Words(s), "hi") \in Nat
         /\ Len(recvBufferQ[s]) \in Nat
<1>1. InFlight(s) \in 0 .. CounterMod - 1
  BY MinusType DEF TypeOK, InFlight
<1>2. InQ(s) \in 0 .. CounterMod - 1
  BY MinusType DEF TypeOK, InQ
<1>3. Budget(s) \in 0 .. CounterMod - 1
  BY MinusType DEF TypeOK, Budget
<1>4. Words(s) \in Seq(Word)
  BY WordsType
<1>5. Count(Words(s), "credit") \in Nat /\ Count(Words(s), "hi") \in Nat
  BY <1>4, CountType
<1>6. Len(flowControlQ[s]) \in Nat /\ Len(recvBufferQ[s]) \in Nat
  BY DEF TypeOK
<1> QED BY <1>1, <1>2, <1>3, <1>4, <1>5, <1>6

\* The control words that carry an end's windows, sent or not, are a number.
LEMMA Granted ==
  ASSUME TypeOK, NEW s \in Side
  PROVE  Len(flowControlQ[s]) + Count(Words(s), "credit") \in Nat
<1>1. Len(flowControlQ[s]) \in Nat /\ Count(Words(s), "credit") \in Nat
  BY Bounds
<1> QED BY <1>1

\* What the invariant says of one end, with the other end named.
LEMMA InvAt ==
  ASSUME Inv, NEW s \in Side
  PROVE  /\ InFlight(s) = WindowSize * (Len(flowControlQ[s]) + Count(Words(s), "credit"))
                             + Budget(Peer(s)) + Count(Words(Peer(s)), "hi")
         /\ Len(recvBufferQ[s]) = InQ(s)
         /\ InFlight(s) + Len(recvBufferQ[s]) < RecvQDepth
         /\ Alternates(Words(s), packetRecvBuffer[Peer(s)] # << >>, packetSendBuffer[s] # << >>)
         /\ packetSendBuffer[s] # << >> => Budget(s) > 0
BY DEF Inv, CreditConservation, ReceiverHasRoom, HalvesAlternate, HalfKeepsCredit

\* Granting a window: there is room for the packets it allows.
LEMMA EmitStep ==
  ASSUME Inv, TypeOK', NEW s \in Side, EmitFlowControlPacket(s) PROVE Inv'
<1> DEFINE p == Peer(s)
<1>1. p \in Side /\ p # s /\ Peer(p) = s /\ \A t \in Side : t = s \/ t = p
  BY PeerFacts
<1>2. \A t \in Side : Words(t)' = Words(t) /\ Budget(t)' = Budget(t) /\ InQ(t)' = InQ(t)
  BY DEF EmitFlowControlPacket, Words, linkVars, Budget, budgetVars, InQ
<1>3. /\ Len(flowControlQ[s])' = Len(flowControlQ[s]) + 1
      /\ Len(flowControlQ[p])' = Len(flowControlQ[p]) /\ InFlight(p)' = InFlight(p)
  BY <1>1 DEF EmitFlowControlPacket, Inv, TypeOK, InFlight
<1>4. InFlight(s)' = InFlight(s) + WindowSize /\ InFlight(s) + InQ(s) + WindowSize < RecvQDepth
  <2>1. /\ InFlight(s) \in Nat /\ InQ(s) \in Nat /\ WindowSize \in Nat
        /\ InFlight(s) + InQ(s) + WindowSize < CounterMod
    <3>1. InFlight(s) \in 0 .. CounterMod - 1 /\ InQ(s) \in 0 .. CounterMod - 1
      BY Bounds DEF Inv
    <3>2. InFlight(s) + InQ(s) < RecvQDepth
      BY InvAt
    <3> QED BY <3>1, <3>2, CounterAssumption, DepthAssumption
  <2>2. Plus(Plus(InFlight(s), InQ(s)), WindowSize) = InFlight(s) + InQ(s) + WindowSize
    <3> DEFINE n == InFlight(s)
               q == InQ(s)
    <3>1. n \in Nat /\ q \in Nat /\ WindowSize \in Nat /\ n + q + WindowSize < CounterMod
      BY <2>1
    <3> HIDE DEF n, q
    <3>2. n + q \in Nat /\ n + q < CounterMod
      BY <3>1, DepthAssumption
    <3>3. Plus(n, q) = n + q
      BY <3>1, <3>2, PlusExact
    <3>4. Plus(n + q, WindowSize) = n + q + WindowSize
      BY <3>1, <3>2, PlusExact
    <3> QED BY <3>3, <3>4 DEF n, q
  <2>3. Minus(Plus(maxInFlightUp[s], WindowSize), maxInFlightDown[s]) = InFlight(s) + WindowSize
    <3>1. /\ maxInFlightUp[s] \in 0 .. CounterMod - 1
          /\ maxInFlightDown[s] \in 0 .. CounterMod - 1
      BY DEF Inv, TypeOK
    <3>2. Minus(maxInFlightUp[s], maxInFlightDown[s]) + WindowSize < CounterMod
      BY <2>1, DepthAssumption DEF InFlight
    <3> QED BY <2>1, <3>1, <3>2, CounterUp DEF InFlight
  <2>4. InFlight(s)' = Minus(Plus(maxInFlightUp[s], WindowSize), maxInFlightDown[s])
    BY DEF EmitFlowControlPacket, Inv, TypeOK, InFlight
  <2> QED BY <2>2, <2>3, <2>4 DEF EmitFlowControlPacket
<1>5. UNCHANGED <<recvBufferQ, packetRecvBuffer, packetSendBuffer>>
  BY DEF EmitFlowControlPacket, recvVars, sendVars
<1>6. CreditConservation'
  <2>1. WindowSize * (Len(flowControlQ[s])' + Count(Words(s), "credit"))
          = WindowSize * (Len(flowControlQ[s]) + Count(Words(s), "credit")) + WindowSize
    <3>1. Len(flowControlQ[s]) + Count(Words(s), "credit") \in Nat
      BY Granted DEF Inv
    <3>2. Len(flowControlQ[s])' + Count(Words(s), "credit")
            = (Len(flowControlQ[s]) + Count(Words(s), "credit")) + 1
      <4>1. Len(flowControlQ[s]) \in Nat /\ Count(Words(s), "credit") \in Nat
        BY Bounds DEF Inv
      <4> QED BY <1>3, <4>1
    <3> DEFINE n == Len(flowControlQ[s]) + Count(Words(s), "credit")
    <3>3. n \in Nat /\ Len(flowControlQ[s])' + Count(Words(s), "credit") = n + 1
      BY <3>1, <3>2
    <3> HIDE DEF n
    <3>4. WindowSize * (n + 1) = WindowSize * n + WindowSize
      BY <3>3, Windows
    <3> QED BY <3>3, <3>4 DEF n
  <2>2. ASSUME NEW t \in Side
        PROVE  InFlight(t)' = WindowSize * (Len(flowControlQ[t])' + Count(Words(t)', "credit"))
                                + Budget(Peer(t))' + Count(Words(Peer(t))', "hi")
    <3>1. Words(t)' = Words(t) /\ Words(Peer(t))' = Words(Peer(t)) /\ Budget(Peer(t))' = Budget(Peer(t))
      BY <1>2, PeerFacts
    <3>2. CASE t = s
      <4> DEFINE granted == WindowSize * (Len(flowControlQ[s]) + Count(Words(s), "credit"))
                 granted2 == WindowSize * (Len(flowControlQ[s])' + Count(Words(s), "credit"))
      <4>1. granted \in Nat /\ granted2 = granted + WindowSize
        <5>1. Len(flowControlQ[s]) + Count(Words(s), "credit") \in Nat
          BY Granted DEF Inv
        <5> QED BY <2>1, <5>1, Windows
      <4>2. InFlight(s) = granted + Budget(p) + Count(Words(p), "hi")
        BY InvAt
      <4>3. Budget(p) \in Nat /\ Count(Words(p), "hi") \in Nat /\ WindowSize \in Nat
        <5>1. Budget(p) \in 0 .. CounterMod - 1 /\ Count(Words(p), "hi") \in Nat
          BY <1>1, Bounds DEF Inv
        <5> QED BY <5>1, DepthAssumption
      <4>4. SUFFICES InFlight(s)' = granted2 + Budget(p) + Count(Words(p), "hi")
        BY <3>1, <3>2
      <4> HIDE DEF granted, granted2
      <4> QED BY <1>4, <4>1, <4>2, <4>3
    <3>3. CASE t = p
      BY <1>1, <1>3, <3>1, <3>3, InvAt
    <3> QED BY <1>1, <3>2, <3>3
  <2> QED BY <2>2 DEF CreditConservation
<1>7. ReceiverHasRoom'
  <2>1. ASSUME NEW t \in Side
        PROVE  Len(recvBufferQ[t])' = InQ(t)' /\ InFlight(t)' + Len(recvBufferQ[t])' < RecvQDepth
    <3>1. /\ Len(recvBufferQ[t]) = InQ(t) /\ InFlight(t) + Len(recvBufferQ[t]) < RecvQDepth
          /\ Len(recvBufferQ[t])' = Len(recvBufferQ[t]) /\ InQ(t)' = InQ(t)
      BY <1>2, <1>5, InvAt
    <3>2. /\ InFlight(s) \in Nat /\ InQ(s) \in Nat /\ WindowSize \in Nat
      BY Bounds, DepthAssumption DEF Inv
    <3>3. CASE t = s
      BY <1>4, <3>1, <3>2, <3>3
    <3>4. CASE t = p
      BY <1>3, <3>1, <3>4
    <3> QED BY <1>1, <3>3, <3>4
  <2> QED BY <2>1 DEF ReceiverHasRoom
<1>8. HalvesAlternate' /\ HalfKeepsCredit'
  BY <1>2, <1>5, InvAt DEF HalvesAlternate, HalfKeepsCredit
<1> QED BY <1>6, <1>7, <1>8 DEF Inv
\* The invariant after a step, from what it says of each end.
LEMMA InvFromEnds ==
  ASSUME TypeOK',
         \A t \in Side :
           /\ InFlight(t)' = WindowSize * (Len(flowControlQ[t])' + Count(Words(t)', "credit"))
                               + Budget(Peer(t))' + Count(Words(Peer(t))', "hi")
           /\ Len(recvBufferQ[t])' = InQ(t)'
           /\ InFlight(t)' + Len(recvBufferQ[t])' < RecvQDepth
           /\ Alternates(Words(t)', packetRecvBuffer'[Peer(t)] # << >>, packetSendBuffer'[t] # << >>)
           /\ packetSendBuffer'[t] # << >> => Budget(t)' > 0
  PROVE  Inv'
BY DEF Inv, CreditConservation, ReceiverHasRoom, HalvesAlternate, HalfKeepsCredit

\* Sending a window: it becomes a control word under way.
LEMMA SendControlStep ==
  ASSUME Inv, TypeOK', NEW s \in Side, SendControl(s) PROVE Inv'
<1> DEFINE p == Peer(s)
           w == CreditWord(WindowSize)
<1>1. p \in Side /\ p # s /\ Peer(p) = s /\ \A t \in Side : t = s \/ t = p
  BY PeerFacts
<1>2. /\ \A t \in Side : InFlight(t)' = InFlight(t) /\ InQ(t)' = InQ(t) /\ Budget(t)' = Budget(t)
      /\ UNCHANGED <<recvBufferQ, packetRecvBuffer, packetSendBuffer, wire, auroraInQ>>
  BY DEF SendControl, creditVars, budgetVars, sendVars, recvVars, InFlight, InQ, Budget
<1>3. /\ Len(flowControlQ[s])' = Len(flowControlQ[s]) - 1
      /\ Len(flowControlQ[p])' = Len(flowControlQ[p])
      /\ auroraOutQ' = [auroraOutQ EXCEPT ![s] = Append(@, w)]
  <2>1. flowControlQ[s] \in Seq({WindowSize}) /\ flowControlQ[s] # << >>
    BY DEF SendControl, Inv, TypeOK
  <2>2. Head(flowControlQ[s]) = WindowSize /\ Len(Tail(flowControlQ[s])) = Len(flowControlQ[s]) - 1
    BY <2>1
  <2> QED BY <1>1, <2>2 DEF SendControl, Inv, TypeOK
<1>4. w \in Word /\ w.kind = "credit"
  BY WordType DEF CreditWord
<1> HIDE DEF w
<1>5. Words(s)' = Append(Words(s), w) /\ Words(p)' = Words(p)
  BY <1>2, <1>3, <1>4, WordsEnter DEF Inv
<1>6. /\ Count(Words(s)', "credit") = Count(Words(s), "credit") + 1
      /\ Count(Words(s)', "hi") = Count(Words(s), "hi")
  <2>1. Words(s) \in Seq(Word) /\ Count(Words(s), "credit") \in Nat /\ Count(Words(s), "hi") \in Nat
    BY Bounds DEF Inv
  <2> QED BY <1>4, <1>5, <2>1, CountAppend
<1>7. Len(flowControlQ[s])' + Count(Words(s)', "credit")
        = Len(flowControlQ[s]) + Count(Words(s), "credit")
  <2>1. Len(flowControlQ[s]) \in Nat /\ Count(Words(s), "credit") \in Nat
    BY Bounds DEF Inv
  <2> QED BY <1>3, <1>6, <2>1
<1>8. Alternates(Words(s)', packetRecvBuffer[p] # << >>, packetSendBuffer[s] # << >>)
  <2>1. Words(s) \in Seq(Word)
    BY Bounds DEF Inv
  <2>2. Alternates(Words(s), packetRecvBuffer[p] # << >>, packetSendBuffer[s] # << >>)
    BY InvAt
  <2> QED BY <1>4, <1>5, <2>1, <2>2, AlternatesAppend
<1> SUFFICES ASSUME NEW t \in Side
             PROVE  /\ InFlight(t)' = WindowSize * (Len(flowControlQ[t])' + Count(Words(t)', "credit"))
                                       + Budget(Peer(t))' + Count(Words(Peer(t))', "hi")
                    /\ Len(recvBufferQ[t])' = InQ(t)'
                    /\ InFlight(t)' + Len(recvBufferQ[t])' < RecvQDepth
                    /\ Alternates(Words(t)', packetRecvBuffer'[Peer(t)] # << >>, packetSendBuffer'[t] # << >>)
                    /\ packetSendBuffer'[t] # << >> => Budget(t)' > 0
  BY InvFromEnds
<1>9. CASE t = s
  BY <1>1, <1>2, <1>5, <1>7, <1>8, <1>9, InvAt
<1>10. CASE t = p
  BY <1>1, <1>2, <1>3, <1>5, <1>6, <1>10, InvAt
<1> QED BY <1>1, <1>9, <1>10

\* Sending a second half: a credit of the budget becomes a packet under way.
LEMMA SendHighStep ==
  ASSUME Inv, TypeOK', NEW s \in Side, SendHigh(s) PROVE Inv'
<1> DEFINE p == Peer(s)
           w == HalfWord("hi", Head(packetSendBuffer[s]))
<1>1. p \in Side /\ p # s /\ Peer(p) = s /\ \A t \in Side : t = s \/ t = p
  BY PeerFacts
<1>2. /\ \A t \in Side : InFlight(t)' = InFlight(t) /\ InQ(t)' = InQ(t)
      /\ UNCHANGED <<recvBufferQ, packetRecvBuffer, wire, auroraInQ, flowControlQ>>
  BY DEF SendHigh, creditVars, recvVars, InFlight, InQ
<1>3. /\ packetSendBuffer[s] # << >> /\ packetSendBuffer'[s] = << >>
      /\ packetSendBuffer'[p] = packetSendBuffer[p]
      /\ auroraOutQ' = [auroraOutQ EXCEPT ![s] = Append(@, w)]
  BY <1>1 DEF SendHigh, Inv, TypeOK
<1>4. w \in Word /\ w.kind = "hi"
  <2>1. Head(packetSendBuffer[s]) \in Half
    BY <1>3, PopType DEF Inv, TypeOK
  <2> QED BY <2>1, WordType DEF HalfWord
<1> HIDE DEF w
<1>5. Words(s)' = Append(Words(s), w) /\ Words(p)' = Words(p)
  BY <1>2, <1>3, <1>4, WordsEnter DEF Inv
<1>6. /\ Count(Words(s)', "credit") = Count(Words(s), "credit")
      /\ Count(Words(s)', "hi") = Count(Words(s), "hi") + 1
  <2>1. Words(s) \in Seq(Word) /\ Count(Words(s), "credit") \in Nat /\ Count(Words(s), "hi") \in Nat
    BY Bounds DEF Inv
  <2> QED BY <1>4, <1>5, <2>1, CountAppend
<1>7. Budget(s)' = Budget(s) - 1 /\ Budget(p)' = Budget(p)
  <2>1. /\ curSendBudgetUp[s] \in 0 .. CounterMod - 1
        /\ curSendBudgetDown[s] \in 0 .. CounterMod - 1 /\ Budget(s) > 0
    BY DEF Inv, TypeOK, SendHigh
  <2>2. Budget(s)' = Minus(curSendBudgetUp[s], Plus(curSendBudgetDown[s], 1))
    BY DEF Inv, TypeOK, SendHigh, Budget
  <2>3. Budget(p)' = Budget(p)
    BY <1>1 DEF Inv, TypeOK, SendHigh, Budget
  <2> QED BY <2>1, <2>2, <2>3, CounterDown DEF Budget
<1>8. Alternates(Words(s)', packetRecvBuffer[p] # << >>, packetSendBuffer'[s] # << >>)
  <2>1. Words(s) \in Seq(Word)
    BY Bounds DEF Inv
  <2>2. Alternates(Words(s), packetRecvBuffer[p] # << >>, packetSendBuffer[s] # << >>)
    BY InvAt
  <2> QED BY <1>3, <1>4, <1>5, <2>1, <2>2, AlternatesAppend
<1>9. Budget(s) \in Nat /\ Count(Words(s), "hi") \in Nat
  BY Bounds DEF Inv
<1> SUFFICES ASSUME NEW t \in Side
             PROVE  /\ InFlight(t)' = WindowSize * (Len(flowControlQ[t])' + Count(Words(t)', "credit"))
                                       + Budget(Peer(t))' + Count(Words(Peer(t))', "hi")
                    /\ Len(recvBufferQ[t])' = InQ(t)'
                    /\ InFlight(t)' + Len(recvBufferQ[t])' < RecvQDepth
                    /\ Alternates(Words(t)', packetRecvBuffer'[Peer(t)] # << >>, packetSendBuffer'[t] # << >>)
                    /\ packetSendBuffer'[t] # << >> => Budget(t)' > 0
  BY InvFromEnds
<1>10. CASE t = s
  BY <1>1, <1>2, <1>3, <1>5, <1>6, <1>7, <1>8, <1>10, InvAt
<1>11. CASE t = p
  <2> DEFINE granted == WindowSize * (Len(flowControlQ[p]) + Count(Words(p), "credit"))
  <2>1. granted \in Nat
    <3>1. Len(flowControlQ[p]) \in Nat /\ Count(Words(p), "credit") \in Nat
      BY <1>1, Bounds DEF Inv
    <3>2. Len(flowControlQ[p]) + Count(Words(p), "credit") \in Nat
      BY <3>1
    <3> QED BY <3>2, Windows
  <2>2. InFlight(p) = granted + Budget(s) + Count(Words(s), "hi")
    BY <1>1, InvAt
  <2> HIDE DEF granted
  <2>3. InFlight(p)' = granted + Budget(s)' + Count(Words(s)', "hi")
    BY <1>1, <1>2, <1>6, <1>7, <1>9, <2>1, <2>2
  <2>4. InFlight(t)' = WindowSize * (Len(flowControlQ[t])' + Count(Words(t)', "credit"))
                        + Budget(Peer(t))' + Count(Words(Peer(t))', "hi")
    BY <1>1, <1>2, <1>5, <1>11, <2>3 DEF granted
  <2>5. Alternates(Words(t)', packetRecvBuffer'[Peer(t)] # << >>, packetSendBuffer'[t] # << >>)
    BY <1>1, <1>2, <1>3, <1>5, <1>11, InvAt
  <2> QED BY <1>1, <1>2, <1>3, <1>7, <1>11, <2>4, <2>5, InvAt
<1> QED BY <1>1, <1>10, <1>11

\* Sending a first half: no credit is spent, and one is left for the second half.
LEMMA SendLowStep ==
  ASSUME Inv, TypeOK', NEW s \in Side, SendLow(s) PROVE Inv'
<1> DEFINE p == Peer(s)
           w == HalfWord("lo", Head(sendQ[s])[1])
<1>1. p \in Side /\ p # s /\ Peer(p) = s /\ \A t \in Side : t = s \/ t = p
  BY PeerFacts
<1>2. /\ \A t \in Side : InFlight(t)' = InFlight(t) /\ InQ(t)' = InQ(t) /\ Budget(t)' = Budget(t)
      /\ UNCHANGED <<recvBufferQ, packetRecvBuffer, wire, auroraInQ, flowControlQ>>
      /\ Budget(s) > 0
  BY DEF SendLow, creditVars, budgetVars, recvVars, InFlight, InQ, Budget
<1>3. /\ packetSendBuffer[s] = << >> /\ packetSendBuffer'[s] # << >>
      /\ packetSendBuffer'[p] = packetSendBuffer[p]
      /\ auroraOutQ' = [auroraOutQ EXCEPT ![s] = Append(@, w)]
  BY <1>1 DEF SendLow, Inv, TypeOK
<1>4. w \in Word /\ w.kind = "lo"
  <2>1. Head(sendQ[s]) \in Data
    BY PopType DEF Inv, TypeOK, SendLow
  <2> QED BY <2>1, DataAssumption, WordType DEF HalfWord
<1> HIDE DEF w
<1>5. Words(s)' = Append(Words(s), w) /\ Words(p)' = Words(p)
  BY <1>2, <1>3, <1>4, WordsEnter DEF Inv
<1>6. /\ Count(Words(s)', "credit") = Count(Words(s), "credit")
      /\ Count(Words(s)', "hi") = Count(Words(s), "hi")
  <2>1. Words(s) \in Seq(Word) /\ Count(Words(s), "credit") \in Nat /\ Count(Words(s), "hi") \in Nat
    BY Bounds DEF Inv
  <2> QED BY <1>4, <1>5, <2>1, CountAppend
<1>7. Alternates(Words(s)', packetRecvBuffer[p] # << >>, packetSendBuffer'[s] # << >>)
  <2>1. Words(s) \in Seq(Word)
    BY Bounds DEF Inv
  <2>2. Alternates(Words(s), packetRecvBuffer[p] # << >>, packetSendBuffer[s] # << >>)
    BY InvAt
  <2> QED BY <1>3, <1>4, <1>5, <2>1, <2>2, AlternatesAppend
<1> SUFFICES ASSUME NEW t \in Side
             PROVE  /\ InFlight(t)' = WindowSize * (Len(flowControlQ[t])' + Count(Words(t)', "credit"))
                                       + Budget(Peer(t))' + Count(Words(Peer(t))', "hi")
                    /\ Len(recvBufferQ[t])' = InQ(t)'
                    /\ InFlight(t)' + Len(recvBufferQ[t])' < RecvQDepth
                    /\ Alternates(Words(t)', packetRecvBuffer'[Peer(t)] # << >>, packetSendBuffer'[t] # << >>)
                    /\ packetSendBuffer'[t] # << >> => Budget(t)' > 0
  BY InvFromEnds
<1>8. CASE t = s
  BY <1>1, <1>2, <1>5, <1>6, <1>7, <1>8, InvAt
<1>9. CASE t = p
  BY <1>1, <1>2, <1>3, <1>5, <1>6, <1>9, InvAt
<1> QED BY <1>1, <1>8, <1>9

\* The link itself and the users' methods touch nothing the invariant counts.
LEMMA QuietStep ==
  ASSUME Inv, TypeOK', NEW s \in Side,
         \/ AuroraSend(s) \/ AuroraRecv(s) \/ Recv(s)
         \/ \E d \in Data : Send(s, d)
         \/ UNCHANGED vars
  PROVE  Inv'
<1>1. /\ UNCHANGED <<recvBufferQ, packetRecvBuffer, packetSendBuffer, flowControlQ>>
      /\ UNCHANGED <<creditVars, budgetVars>>
  BY DEF AuroraSend, AuroraRecv, Send, Recv, vars, recvVars, sendVars
<1>2. \A t \in Side : InFlight(t)' = InFlight(t) /\ InQ(t)' = InQ(t) /\ Budget(t)' = Budget(t)
  BY <1>1 DEF InFlight, InQ, Budget, creditVars, budgetVars
<1>3. ASSUME NEW t \in Side PROVE Words(t)' = Words(t)
  <2>1. CASE AuroraSend(s) \/ AuroraRecv(s)
    BY <2>1, WordsMove DEF Inv
  <2>2. CASE Recv(s) \/ (\E d \in Data : Send(s, d)) \/ UNCHANGED vars
    BY <2>2 DEF Recv, Send, vars, linkVars, Words
  <2> QED BY <2>1, <2>2
<1> SUFFICES ASSUME NEW t \in Side
             PROVE  /\ InFlight(t)' = WindowSize * (Len(flowControlQ[t])' + Count(Words(t)', "credit"))
                                       + Budget(Peer(t))' + Count(Words(Peer(t))', "hi")
                    /\ Len(recvBufferQ[t])' = InQ(t)'
                    /\ InFlight(t)' + Len(recvBufferQ[t])' < RecvQDepth
                    /\ Alternates(Words(t)', packetRecvBuffer'[Peer(t)] # << >>, packetSendBuffer'[t] # << >>)
                    /\ packetSendBuffer'[t] # << >> => Budget(t)' > 0
  BY InvFromEnds
<1>4. Peer(t) \in Side
  BY PeerFacts
<1> QED BY <1>1, <1>2, <1>3, <1>4, InvAt

\* Draining a packet: recvBufferQ has room for one more.
LEMMA FlushStep ==
  ASSUME Inv, TypeOK', NEW s \in Side, FlushReadBuffer(s) PROVE Inv'
<1> DEFINE p == Peer(s)
<1>1. p \in Side /\ p # s /\ Peer(p) = s /\ \A t \in Side : t = s \/ t = p
  BY PeerFacts
<1>2. /\ \A t \in Side : InFlight(t)' = InFlight(t) /\ Budget(t)' = Budget(t) /\ Words(t)' = Words(t)
      /\ UNCHANGED <<packetRecvBuffer, packetSendBuffer, flowControlQ>>
  BY DEF FlushReadBuffer, budgetVars, sendVars, linkVars, InFlight, Budget, Words
<1>3. /\ Len(recvBufferQ[s])' = Len(recvBufferQ[s]) - 1 /\ Len(recvBufferQ[s]) > 0
      /\ recvBufferQ'[p] = recvBufferQ[p] /\ InQ(p)' = InQ(p)
  <2>1. recvBufferQ[s] \in Seq(Half \X Half) /\ recvBufferQ[s] # << >>
    BY DEF FlushReadBuffer, Inv, TypeOK
  <2>2. Len(Tail(recvBufferQ[s])) = Len(recvBufferQ[s]) - 1 /\ Len(recvBufferQ[s]) > 0
    BY <2>1
  <2> QED BY <1>1, <2>2 DEF FlushReadBuffer, Inv, TypeOK, InQ
<1>4. InQ(s)' = InQ(s) - 1
  <2>1. curInQUp[s] \in 0 .. CounterMod - 1 /\ curInQDown[s] \in 0 .. CounterMod - 1
    BY DEF Inv, TypeOK
  <2>2. InQ(s)' = Minus(curInQUp[s], Plus(curInQDown[s], 1))
    BY DEF FlushReadBuffer, Inv, TypeOK, InQ
  <2>3. InQ(s) > 0
    BY <1>3, InvAt
  <2> QED BY <2>1, <2>2, <2>3, CounterDown DEF InQ
<1> SUFFICES ASSUME NEW t \in Side
             PROVE  /\ InFlight(t)' = WindowSize * (Len(flowControlQ[t])' + Count(Words(t)', "credit"))
                                       + Budget(Peer(t))' + Count(Words(Peer(t))', "hi")
                    /\ Len(recvBufferQ[t])' = InQ(t)'
                    /\ InFlight(t)' + Len(recvBufferQ[t])' < RecvQDepth
                    /\ Alternates(Words(t)', packetRecvBuffer'[Peer(t)] # << >>, packetSendBuffer'[t] # << >>)
                    /\ packetSendBuffer'[t] # << >> => Budget(t)' > 0
  BY InvFromEnds
<1>5. Peer(t) \in Side
  BY PeerFacts
<1>6. /\ InFlight(t)' = WindowSize * (Len(flowControlQ[t])' + Count(Words(t)', "credit"))
                         + Budget(Peer(t))' + Count(Words(Peer(t))', "hi")
      /\ Alternates(Words(t)', packetRecvBuffer'[Peer(t)] # << >>, packetSendBuffer'[t] # << >>)
      /\ packetSendBuffer'[t] # << >> => Budget(t)' > 0
  BY <1>2, <1>5, InvAt
<1>7. CASE t = s
  <2>1. InFlight(s) \in Nat /\ InQ(s) \in Nat /\ RecvQDepth \in Nat
    BY Bounds, DepthAssumption DEF Inv
  <2>2. Len(recvBufferQ[s]) = InQ(s) /\ InFlight(s) + Len(recvBufferQ[s]) < RecvQDepth
    BY InvAt
  <2> QED BY <1>2, <1>3, <1>4, <1>6, <1>7, <2>1, <2>2
<1>8. CASE t = p
  BY <1>1, <1>2, <1>3, <1>6, <1>8, InvAt
<1> QED BY <1>1, <1>7, <1>8
\* What every branch of recvPacketPart does to the words under way.
LEMMA RecvTakes ==
  ASSUME Inv, NEW s \in Side, RecvPacketPart(s)
  PROVE  LET p == Peer(s)
             word == Head(auroraInQ[s])
         IN /\ p \in Side /\ p # s /\ Peer(p) = s /\ \A t \in Side : t = s \/ t = p
            /\ word \in Word
            /\ Words(p) \in Seq(Word) /\ Words(p) # << >> /\ Head(Words(p)) = word
            /\ Words(p)' = Tail(Words(p)) /\ Words(s)' = Words(s)
            /\ Count(Words(p), "credit")
                 = Count(Words(p)', "credit") + (IF word.kind = "credit" THEN 1 ELSE 0)
            /\ Count(Words(p), "hi")
                 = Count(Words(p)', "hi") + (IF word.kind = "hi" THEN 1 ELSE 0)
            /\ Count(Words(p)', "credit") \in Nat /\ Count(Words(p)', "hi") \in Nat
            /\ Alternates(Words(p), packetRecvBuffer[s] # << >>, packetSendBuffer[p] # << >>)
            /\ UNCHANGED <<curSendBudgetDown, packetSendBuffer, flowControlQ>>
<1> DEFINE p == Peer(s)
           word == Head(auroraInQ[s])
<1>1. p \in Side /\ p # s /\ Peer(p) = s /\ \A t \in Side : t = s \/ t = p
  BY PeerFacts
<1>2. /\ auroraInQ[s] # << >> /\ auroraInQ' = [auroraInQ EXCEPT ![s] = Tail(@)]
      /\ UNCHANGED <<auroraOutQ, wire, curSendBudgetDown, packetSendBuffer, flowControlQ>>
  BY DEF RecvPacketPart, sendVars
<1>3. word \in Word
  BY <1>2, PopType DEF Inv, TypeOK
<1>4. /\ Words(p) # << >> /\ Head(Words(p)) = word
      /\ Words(p)' = Tail(Words(p)) /\ Words(s)' = Words(s)
  BY <1>2, WordsLeave DEF Inv
<1>5. Words(p) \in Seq(Word)
  BY <1>1, WordsType DEF Inv
<1>6. /\ Count(Words(p), "credit")
           = Count(Tail(Words(p)), "credit") + (IF word.kind = "credit" THEN 1 ELSE 0)
      /\ Count(Words(p), "hi") = Count(Tail(Words(p)), "hi") + (IF word.kind = "hi" THEN 1 ELSE 0)
  BY <1>4, <1>5, CountTail
<1>7. Count(Tail(Words(p)), "credit") \in Nat /\ Count(Tail(Words(p)), "hi") \in Nat
  <2>1. Tail(Words(p)) \in Seq(Word)
    BY <1>4, <1>5
  <2> QED BY <2>1, CountType
<1>8. Alternates(Words(p), packetRecvBuffer[s] # << >>, packetSendBuffer[p] # << >>)
  BY <1>1, InvAt
<1> QED BY <1>1, <1>2, <1>3, <1>4, <1>5, <1>6, <1>7, <1>8

\* Taking a control word: its credits become budget.
LEMMA RecvControlStep ==
  ASSUME Inv, TypeOK', NEW s \in Side, RecvPacketPart(s), RecvControl(s, Head(auroraInQ[s]))
  PROVE  Inv'
<1> DEFINE p == Peer(s)
           word == Head(auroraInQ[s])
<1>1. /\ p \in Side /\ p # s /\ Peer(p) = s /\ \A t \in Side : t = s \/ t = p
      /\ Words(s)' = Words(s) /\ UNCHANGED <<packetSendBuffer, flowControlQ, curSendBudgetDown>>
  BY RecvTakes
<1>2. word.kind = "credit" /\ word.body = WindowSize
  <2>1. word \in Word /\ word.kind = "credit"
    BY RecvTakes DEF RecvControl
  <2> QED BY <2>1 DEF Word
<1>3. /\ Count(Words(p), "credit") = Count(Words(p)', "credit") + 1
      /\ Count(Words(p), "hi") = Count(Words(p)', "hi")
      /\ Count(Words(p)', "credit") \in Nat /\ Count(Words(p)', "hi") \in Nat
  BY <1>2, RecvTakes
<1>4. Alternates(Words(p)', packetRecvBuffer[s] # << >>, packetSendBuffer[p] # << >>)
  <2>1. /\ Words(p) \in Seq(Word) /\ Words(p) # << >> /\ Head(Words(p)).kind = "credit"
        /\ Words(p)' = Tail(Words(p))
        /\ Alternates(Words(p), packetRecvBuffer[s] # << >>, packetSendBuffer[p] # << >>)
    BY <1>2, RecvTakes
  <2> QED BY <2>1, AlternatesTail
<1>5. /\ UNCHANGED <<recvBufferQ, packetRecvBuffer>>
      /\ \A t \in Side : InFlight(t)' = InFlight(t) /\ InQ(t)' = InQ(t)
  BY DEF RecvControl, creditVars, recvVars, InFlight, InQ
<1> DEFINE n == Len(flowControlQ[p]) + Count(Words(p)', "credit")
<1>6. /\ n \in Nat /\ Len(flowControlQ[p]) + Count(Words(p), "credit") = n + 1
      /\ Budget(s) \in Nat /\ Count(Words(s), "hi") \in Nat /\ InFlight(p) \in 0 .. CounterMod - 1
  <2>1. Len(flowControlQ[p]) \in Nat /\ InFlight(p) \in 0 .. CounterMod - 1
    BY <1>1, Bounds DEF Inv
  <2>2. Budget(s) \in 0 .. CounterMod - 1 /\ Count(Words(s), "hi") \in Nat
    BY Bounds DEF Inv
  <2>3. Len(flowControlQ[p]) + Count(Words(p), "credit") = n + 1 /\ n \in Nat
    <3>1. /\ Count(Words(p), "credit") = Count(Words(p)', "credit") + 1
          /\ Count(Words(p)', "credit") \in Nat /\ Len(flowControlQ[p]) \in Nat
      BY <1>3, <2>1
    <3> QED BY <3>1
  <2> HIDE DEF n, p
  <2>4. Budget(s) \in Nat
    BY <2>2, DepthAssumption
  <2> QED BY <2>1, <2>2, <2>3, <2>4
<1>7. InFlight(p) = WindowSize * (n + 1) + Budget(s) + Count(Words(s), "hi")
  BY <1>1, <1>6, InvAt
<1> HIDE DEF n
<1>8. /\ InFlight(p) = WindowSize * n + (Budget(s) + WindowSize) + Count(Words(s), "hi")
      /\ Budget(s) + WindowSize < CounterMod /\ Budget(s) + WindowSize > 0
  <2>1. WindowSize * n \in Nat /\ WindowSize * (n + 1) = WindowSize * n + WindowSize
    BY <1>6, Windows
  <2> DEFINE granted == WindowSize * n
             granted2 == WindowSize * (n + 1)
  <2>2. granted \in Nat /\ granted2 = granted + WindowSize
    BY <2>1
  <2>3. InFlight(p) = granted2 + Budget(s) + Count(Words(s), "hi")
    BY <1>7
  <2> HIDE DEF p, granted, granted2
  <2>4. /\ InFlight(p) = granted + (Budget(s) + WindowSize) + Count(Words(s), "hi")
        /\ Budget(s) + WindowSize < CounterMod /\ Budget(s) + WindowSize > 0
    <3>1. WindowSize \in Nat /\ WindowSize > 0 /\ CounterMod \in Nat
      BY DepthAssumption
    <3>2. /\ InFlight(p) < CounterMod /\ InFlight(p) \in Int
          /\ Budget(s) \in Nat /\ Count(Words(s), "hi") \in Nat
      BY <1>6, <3>1
    <3> QED BY <2>2, <2>3, <3>1, <3>2
  <2> QED BY <2>4 DEF granted
<1>9. Budget(s)' = Budget(s) + WindowSize /\ Budget(p)' = Budget(p)
  <2>1. /\ curSendBudgetUp[s] \in 0 .. CounterMod - 1
        /\ curSendBudgetDown[s] \in 0 .. CounterMod - 1 /\ WindowSize \in Nat
    BY DepthAssumption DEF Inv, TypeOK
  <2>2. Budget(s)' = Minus(Plus(curSendBudgetUp[s], WindowSize), curSendBudgetDown[s])
    BY <1>1, <1>2 DEF Inv, TypeOK, RecvControl, Budget
  <2>3. Budget(p)' = Budget(p)
    BY <1>1 DEF Inv, TypeOK, RecvControl, Budget
  <2> QED BY <1>8, <2>1, <2>2, <2>3, CounterUp DEF Budget
<1> SUFFICES ASSUME NEW t \in Side
             PROVE  /\ InFlight(t)' = WindowSize * (Len(flowControlQ[t])' + Count(Words(t)', "credit"))
                                       + Budget(Peer(t))' + Count(Words(Peer(t))', "hi")
                    /\ Len(recvBufferQ[t])' = InQ(t)'
                    /\ InFlight(t)' + Len(recvBufferQ[t])' < RecvQDepth
                    /\ Alternates(Words(t)', packetRecvBuffer'[Peer(t)] # << >>, packetSendBuffer'[t] # << >>)
                    /\ packetSendBuffer'[t] # << >> => Budget(t)' > 0
  BY InvFromEnds
<1>10. CASE t = s
  BY <1>1, <1>3, <1>5, <1>8, <1>9, <1>10, InvAt
<1>11. CASE t = p
  <2>1. InFlight(t)' = WindowSize * (Len(flowControlQ[t])' + Count(Words(t)', "credit"))
                        + Budget(Peer(t))' + Count(Words(Peer(t))', "hi")
    BY <1>1, <1>5, <1>8, <1>9, <1>11 DEF n
  <2> QED BY <1>1, <1>4, <1>5, <1>9, <1>11, <2>1, InvAt
<1> QED BY <1>1, <1>10, <1>11

\* Taking a low half: no other half is held.
LEMMA RecvLowStep ==
  ASSUME Inv, TypeOK', NEW s \in Side, RecvPacketPart(s), RecvLow(s, Head(auroraInQ[s]))
  PROVE  Inv'
<1> DEFINE p == Peer(s)
           word == Head(auroraInQ[s])
<1>1. /\ p \in Side /\ p # s /\ Peer(p) = s /\ \A t \in Side : t = s \/ t = p
      /\ Words(s)' = Words(s) /\ UNCHANGED <<packetSendBuffer, flowControlQ, curSendBudgetDown>>
  BY RecvTakes
<1>2. /\ word.kind = "lo" /\ packetRecvBuffer'[s] # << >> /\ packetRecvBuffer'[p] = packetRecvBuffer[p]
      /\ UNCHANGED recvBufferQ
      /\ \A t \in Side : InFlight(t)' = InFlight(t) /\ InQ(t)' = InQ(t) /\ Budget(t)' = Budget(t)
  BY <1>1 DEF Inv, TypeOK, RecvLow, creditVars, InFlight, InQ, Budget
<1>3. /\ Count(Words(p), "credit") = Count(Words(p)', "credit")
      /\ Count(Words(p), "hi") = Count(Words(p)', "hi")
  BY <1>2, RecvTakes
<1>4. Alternates(Words(p)', TRUE, packetSendBuffer[p] # << >>)
  <2>1. /\ Words(p) \in Seq(Word) /\ Words(p) # << >> /\ Head(Words(p)).kind = "lo"
        /\ Words(p)' = Tail(Words(p))
        /\ Alternates(Words(p), packetRecvBuffer[s] # << >>, packetSendBuffer[p] # << >>)
    BY <1>2, RecvTakes
  <2> QED BY <2>1, AlternatesTail
<1> SUFFICES ASSUME NEW t \in Side
             PROVE  /\ InFlight(t)' = WindowSize * (Len(flowControlQ[t])' + Count(Words(t)', "credit"))
                                       + Budget(Peer(t))' + Count(Words(Peer(t))', "hi")
                    /\ Len(recvBufferQ[t])' = InQ(t)'
                    /\ InFlight(t)' + Len(recvBufferQ[t])' < RecvQDepth
                    /\ Alternates(Words(t)', packetRecvBuffer'[Peer(t)] # << >>, packetSendBuffer'[t] # << >>)
                    /\ packetSendBuffer'[t] # << >> => Budget(t)' > 0
  BY InvFromEnds
<1>5. CASE t = s
  BY <1>1, <1>2, <1>3, <1>5, InvAt
<1>6. CASE t = p
  BY <1>1, <1>2, <1>3, <1>4, <1>6, InvAt
<1> QED BY <1>1, <1>5, <1>6

\* Taking a high half: a low half is held, and there is room for the packet.
LEMMA RecvHighStep ==
  ASSUME Inv, TypeOK', NEW s \in Side, RecvPacketPart(s), RecvHigh(s, Head(auroraInQ[s]))
  PROVE  Inv'
<1> DEFINE p == Peer(s)
           word == Head(auroraInQ[s])
<1>1. /\ p \in Side /\ p # s /\ Peer(p) = s /\ \A t \in Side : t = s \/ t = p
      /\ Words(s)' = Words(s) /\ UNCHANGED <<packetSendBuffer, flowControlQ, curSendBudgetDown>>
  BY RecvTakes
<1>2. word.kind = "hi"
  BY DEF RecvHigh
<1>3. /\ Count(Words(p), "credit") = Count(Words(p)', "credit")
      /\ Count(Words(p), "hi") = Count(Words(p)', "hi") + 1
      /\ Count(Words(p)', "hi") \in Nat
  BY <1>2, RecvTakes
<1>4. packetRecvBuffer[s] # << >> /\ Alternates(Words(p)', FALSE, packetSendBuffer[p] # << >>)
  <2>1. /\ Words(p) \in Seq(Word) /\ Words(p) # << >> /\ Head(Words(p)).kind = "hi"
        /\ Words(p)' = Tail(Words(p))
        /\ Alternates(Words(p), packetRecvBuffer[s] # << >>, packetSendBuffer[p] # << >>)
    BY <1>2, RecvTakes
  <2> QED BY <2>1, AlternatesTail
<1>5. Assemble(s, word) /\ UNCHANGED <<maxInFlightUp, curInQDown, curSendBudgetUp>>
  BY <1>4 DEF RecvHigh
<1>6. /\ packetRecvBuffer'[s] = << >> /\ packetRecvBuffer'[p] = packetRecvBuffer[p]
      /\ recvBufferQ'[p] = recvBufferQ[p]
      /\ Len(recvBufferQ[s])' = Len(recvBufferQ[s]) + 1
  BY <1>1, <1>5 DEF Assemble, Inv, TypeOK
<1>7. /\ InFlight(p)' = InFlight(p) /\ InQ(p)' = InQ(p)
      /\ \A t \in Side : Budget(t)' = Budget(t)
  BY <1>1, <1>5 DEF Assemble, Inv, TypeOK, InFlight, InQ, Budget
<1> DEFINE granted == WindowSize * (Len(flowControlQ[s]) + Count(Words(s), "credit"))
<1>8. granted \in Nat /\ InFlight(s) = granted + Budget(p) + Count(Words(p), "hi")
  <2>1. Len(flowControlQ[s]) + Count(Words(s), "credit") \in Nat
    BY Granted DEF Inv
  <2> QED BY <2>1, Windows, InvAt
<1>9. /\ Budget(p) \in Nat /\ InFlight(s) \in Nat /\ InQ(s) \in Nat
      /\ Len(recvBufferQ[s]) = InQ(s) /\ InFlight(s) + Len(recvBufferQ[s]) < RecvQDepth
  BY <1>1, Bounds, InvAt DEF Inv
<1>10. InFlight(s)' = granted + Budget(p) + Count(Words(p)', "hi") /\ InFlight(s)' = InFlight(s) - 1
  <2>1. maxInFlightUp[s] \in 0 .. CounterMod - 1 /\ maxInFlightDown[s] \in 0 .. CounterMod - 1
    BY DEF Inv, TypeOK
  <2>2. InFlight(s)' = Minus(maxInFlightUp[s], Plus(maxInFlightDown[s], 1))
    BY <1>5 DEF Assemble, Inv, TypeOK, InFlight
  <2> HIDE DEF granted, p
  <2>3. InFlight(s) > 0
    BY <1>3, <1>8, <1>9
  <2>4. InFlight(s)' = InFlight(s) - 1
    BY <2>1, <2>2, <2>3, CounterDown DEF InFlight
  <2> QED BY <1>3, <1>8, <1>9, <2>4
<1>11. InQ(s)' = InQ(s) + 1
  <2>1. curInQUp[s] \in 0 .. CounterMod - 1 /\ curInQDown[s] \in 0 .. CounterMod - 1
    BY DEF Inv, TypeOK
  <2>2. InQ(s)' = Minus(Plus(curInQUp[s], 1), curInQDown[s])
    BY <1>5 DEF Assemble, Inv, TypeOK, InQ
  <2>3. InQ(s) + 1 < CounterMod
    BY <1>9, CounterAssumption, DepthAssumption
  <2> QED BY <2>1, <2>2, <2>3, CounterUp DEF InQ
<1> SUFFICES ASSUME NEW t \in Side
             PROVE  /\ InFlight(t)' = WindowSize * (Len(flowControlQ[t])' + Count(Words(t)', "credit"))
                                       + Budget(Peer(t))' + Count(Words(Peer(t))', "hi")
                    /\ Len(recvBufferQ[t])' = InQ(t)'
                    /\ InFlight(t)' + Len(recvBufferQ[t])' < RecvQDepth
                    /\ Alternates(Words(t)', packetRecvBuffer'[Peer(t)] # << >>, packetSendBuffer'[t] # << >>)
                    /\ packetSendBuffer'[t] # << >> => Budget(t)' > 0
  BY InvFromEnds
<1>12. CASE t = s
  <2>1. InFlight(t)' + Len(recvBufferQ[t])' < RecvQDepth /\ Len(recvBufferQ[t])' = InQ(t)'
    <3> DEFINE m == InFlight(s)
               k == InQ(s)
               k2 == Len(recvBufferQ[s])
    <3>1. /\ m \in Nat /\ k \in Nat /\ k2 = k /\ m + k2 < RecvQDepth
          /\ InFlight(s)' = m - 1 /\ InQ(s)' = k + 1 /\ Len(recvBufferQ[s])' = k2 + 1
      BY <1>6, <1>9, <1>10, <1>11
    <3> HIDE DEF m, k, k2
    <3>2. InFlight(s)' + Len(recvBufferQ[s])' < RecvQDepth /\ Len(recvBufferQ[s])' = InQ(s)'
      BY <3>1, DepthAssumption
    <3> QED BY <1>12, <3>2
  <2> QED BY <1>1, <1>6, <1>7, <1>10, <1>12, <2>1, InvAt
<1>13. CASE t = p
  BY <1>1, <1>3, <1>4, <1>6, <1>7, <1>13, InvAt
<1> QED BY <1>1, <1>12, <1>13

\* Every step keeps the invariant.
LEMMA InvStep == Inv /\ [Next]_vars => Inv'
<1> SUFFICES ASSUME Inv, [Next]_vars PROVE Inv'
  OBVIOUS
<1>1. TypeOK'
  BY TypeStep DEF Inv
<1>2. CASE UNCHANGED vars
  <2>1. 0 \in Side
    BY DEF Side
  <2> QED BY <1>1, <1>2, <2>1, QuietStep
<1>3. ASSUME NEW s \in Side, Rules(s) \/ (s \in Senders /\ \E d \in Data : Send(s, d)) PROVE Inv'
  <2>1. CASE EmitFlowControlPacket(s) BY <1>1, <2>1, EmitStep
  <2>2. CASE SendControl(s) BY <1>1, <2>2, SendControlStep
  <2>3. CASE SendHigh(s) BY <1>1, <2>3, SendHighStep
  <2>4. CASE SendLow(s) BY <1>1, <2>4, SendLowStep
  <2>5. CASE FlushReadBuffer(s) BY <1>1, <2>5, FlushStep
  <2>6. CASE AuroraSend(s) \/ AuroraRecv(s) \/ Recv(s) \/ \E d \in Data : Send(s, d)
    BY <1>1, <2>6, QuietStep
  <2>7. CASE RecvPacketPart(s)
    <3>1. \/ RecvControl(s, Head(auroraInQ[s])) \/ RecvHigh(s, Head(auroraInQ[s]))
          \/ RecvLow(s, Head(auroraInQ[s]))
      BY <2>7 DEF RecvPacketPart
    <3> QED BY <1>1, <2>7, <3>1, RecvControlStep, RecvHighStep, RecvLowStep
  <2> QED BY <1>3, <2>1, <2>2, <2>3, <2>4, <2>5, <2>6, <2>7 DEF Rules, SendPacketPart
<1> QED BY <1>2, <1>3 DEF Next

\* The invariant holds at first: no credit, no packet, no half.
LEMMA InvInit == Init => Inv
<1> SUFFICES ASSUME Init PROVE Inv
  OBVIOUS
<1>1. TypeOK
  BY DepthAssumption DEF Init, TypeOK
<1>2. ASSUME NEW t \in Side
      PROVE  /\ InFlight(t) = 0 /\ InQ(t) = 0 /\ Budget(t) = 0 /\ Words(t) = << >>
             /\ flowControlQ[t] = << >> /\ recvBufferQ[t] = << >>
             /\ packetSendBuffer[t] = << >> /\ packetRecvBuffer[t] = << >>
  <2>1. Minus(0, 0) = 0
    BY DepthAssumption DEF Minus
  <2>2. Peer(t) \in Side
    BY PeerFacts
  <2> QED BY <2>1, <2>2 DEF Init, InFlight, InQ, Budget, Words
<1>3. Count(<< >>, "credit") = 0 /\ Count(<< >>, "hi") = 0
  BY CountEmpty
<1>4. Alternates(<< >>, FALSE, FALSE)
  <2> DEFINE h == [i \in 1 .. 1 |-> FALSE]
  <2>1. Len(<< >>) = 0 /\ 1 .. 0 = {} /\ 0 + 1 = 1
    OBVIOUS
  <2>2. h \in [1 .. Len(<< >>) + 1 -> BOOLEAN] /\ h[1] = FALSE /\ h[Len(<< >>) + 1] = FALSE
    BY <2>1
  <2>3. 1 .. Len(<< >>) = {}
    BY <2>1
  <2> HIDE DEF h
  <2> QED BY <2>2, <2>3 DEF Alternates
<1>5. CreditConservation
  BY <1>2, <1>3, PeerFacts, DepthAssumption DEF CreditConservation
<1>6. ReceiverHasRoom
  BY <1>2, DepthAssumption DEF ReceiverHasRoom
<1>7. HalvesAlternate
  BY <1>2, <1>4, PeerFacts DEF HalvesAlternate
<1>8. HalfKeepsCredit
  BY <1>2 DEF HalfKeepsCredit
<1> QED BY <1>1, <1>5, <1>6, <1>7, <1>8 DEF Inv

\* Credits are conserved: for every depth, window and counter width that
\* satisfies the assumptions, a credit granted is in exactly one place.
THEOREM CreditsConserved == Spec => []CreditConservation
<1>1. Inv => CreditConservation
  BY DEF Inv
<1> QED BY <1>1, InvInit, InvStep, PTL DEF Spec

\* The receiver always has room: recvPacketPart never finds recvBufferQ full,
\* so the Aurora receiver is never stalled.
THEOREM RoomForEveryPacket == Spec => []ReceiverHasRoom
<1>1. Inv => ReceiverHasRoom
  BY DEF Inv
<1> QED BY <1>1, InvInit, InvStep, PTL DEF Spec

\* No half is dropped, overwritten or mispaired on any run of the rules.
THEOREM HalvesStayPaired == Spec => []HalvesAlternate
<1>1. Inv => HalvesAlternate
  BY DEF Inv
<1> QED BY <1>1, InvInit, InvStep, PTL DEF Spec

\* A packet once begun never waits for a credit: sendPacketPart can always
\* send its second half.
THEOREM BegunPacketsFinish == Spec => []HalfKeepsCredit
<1>1. Inv => HalfKeepsCredit
  BY DEF Inv
<1> QED BY <1>1, InvInit, InvStep, PTL DEF Spec

-----------------------------------------------------------------------------
(***************************************************************************)
(* The link is a FIFO channel: the safety part of FifoChannel, by following*)
(* the packets in recvBufferQ, the halves under way and sendQ.             *)
(***************************************************************************)
Packet    == Half \X Half
HalfWords == [kind : {"lo", "hi"}, body : Half]
Kepts(s)  == Kept(Words(s), HalfWords)

\* The two registers hold at most one half, and the halves come in pairs.
Even(n) == n % 2 = 0
PairsInv == \A s \in Side :
  /\ Len(packetSendBuffer[s]) <= 1 /\ Len(packetRecvBuffer[s]) <= 1
  /\ Even(Len(Halves(s)))

\* Two more halves at the end, or two at the front, are one packet more.
LEMMA AssembledExtends ==
  ASSUME NEW h \in Seq(HalfWords), Even(Len(h)), NEW a \in HalfWords, NEW b \in HalfWords
  PROVE  /\ Assembled(h) \in Seq(Packet)
         /\ Assembled(h \o <<a, b>>) = Append(Assembled(h), <<a.body, b.body>>)
         /\ Assembled(<<a, b>> \o h) = <<<<a.body, b.body>>>> \o Assembled(h)
         /\ h \o <<a, b>> \in Seq(HalfWords) /\ Even(Len(h \o <<a, b>>))
<1> DEFINE n == Len(h) \div 2
           x == <<a.body, b.body>>
           u == h \o <<a, b>>
           v == <<a, b>> \o h
<1>1. n \in Nat /\ Len(h) = 2 * n
  BY DEF Even
<1>2. /\ a.body \in Half /\ b.body \in Half
      /\ \A i \in 1 .. Len(h) : h[i].body \in Half
  <2>1. \A i \in 1 .. Len(h) : h[i] \in HalfWords
    OBVIOUS
  <2>2. \A w \in HalfWords : w.body \in Half
    BY DEF HalfWords
  <2> QED BY <2>1, <2>2
<1>3. x \in Packet
  BY <1>2 DEF Packet
<1>4. /\ u \in Seq(HalfWords) /\ Len(u) = Len(h) + 2
      /\ \A i \in 1 .. Len(h) : u[i] = h[i]
      /\ u[Len(h) + 1] = a /\ u[Len(h) + 2] = b
  OBVIOUS
<1>5. /\ v \in Seq(HalfWords) /\ Len(v) = Len(h) + 2
      /\ \A i \in 1 .. Len(h) : v[i + 2] = h[i]
      /\ v[1] = a /\ v[2] = b
  OBVIOUS
<1>6. Assembled(h) = [i \in 1 .. n |-> <<h[2*i - 1].body, h[2*i].body>>]
  BY DEF Assembled
<1> HIDE DEF n, u, v, x
<1>7. (Len(h) + 2) \div 2 = n + 1
  BY <1>1
<1>8. /\ Assembled(u) = [i \in 1 .. n + 1 |-> <<u[2*i - 1].body, u[2*i].body>>]
      /\ Assembled(v) = [i \in 1 .. n + 1 |-> <<v[2*i - 1].body, v[2*i].body>>]
  BY <1>4, <1>5, <1>7 DEF Assembled
<1>9. \A i \in 1 .. n : 2*i - 1 \in 1 .. Len(h) /\ 2*i \in 1 .. Len(h)
  BY <1>1
<1>10. \A i \in 1 .. n : <<h[2*i - 1].body, h[2*i].body>> \in Packet
  BY <1>2, <1>9 DEF Packet
<1> DEFINE p == Assembled(h)
<1>11. p \in Seq(Packet) /\ Len(p) = n
       /\ \A i \in 1 .. n : p[i] = <<h[2*i - 1].body, h[2*i].body>>
  BY <1>1, <1>6, <1>10
<1> HIDE DEF p
<1>12. Assembled(u) = Append(p, x)
  <2>1. Append(p, x) \in Seq(Packet) /\ Len(Append(p, x)) = n + 1
        /\ \A i \in 1 .. n : Append(p, x)[i] = p[i]
        /\ Append(p, x)[n + 1] = x
    BY <1>3, <1>11
  <2>2. Append(p, x) = [i \in 1 .. n + 1 |-> Append(p, x)[i]]
    <3> DEFINE y == Append(p, x)
    <3>0. y \in Seq(Packet) /\ Len(y) = n + 1
      BY <2>1
    <3> HIDE DEF y
    <3>1. y = [i \in 1 .. n + 1 |-> y[i]]
      BY <3>0
    <3> QED BY <3>1 DEF y
  <2>3. ASSUME NEW i \in 1 .. n
        PROVE  <<u[2*i - 1].body, u[2*i].body>> = Append(p, x)[i]
    BY <1>4, <1>9, <1>11, <2>1
  <2>4. <<u[2*(n+1) - 1].body, u[2*(n+1)].body>> = Append(p, x)[n + 1]
    <3>1. 2*(n+1) - 1 = Len(h) + 1 /\ 2*(n+1) = Len(h) + 2
      BY <1>1
    <3> QED BY <1>4, <2>1, <3>1 DEF x
  <2>5. \A i \in 1 .. n + 1 : <<u[2*i - 1].body, u[2*i].body>> = Append(p, x)[i]
    <3>1. \A i \in 1 .. n + 1 : i \in 1 .. n \/ i = n + 1
      BY <1>1
    <3> QED BY <2>3, <2>4, <3>1
  <2> HIDE DEF u
  <2> QED BY <1>8, <2>2, <2>5
<1>13. Assembled(v) = <<x>> \o p
  <2> DEFINE y == <<x>> \o p
  <2>1. y \in Seq(Packet) /\ Len(y) = n + 1 /\ y[1] = x
        /\ \A i \in 1 .. n : y[i + 1] = p[i]
    BY <1>3, <1>11
  <2> HIDE DEF y
  <2>2. y = [i \in 1 .. n + 1 |-> y[i]]
    BY <2>1
  <2>3. ASSUME NEW i \in 1 .. n
        PROVE  <<v[2*(i+1) - 1].body, v[2*(i+1)].body>> = y[i + 1]
    <3>1. 2*(i+1) - 1 = (2*i - 1) + 2 /\ 2*(i+1) = 2*i + 2
      OBVIOUS
    <3>2. 2*i - 1 \in 1 .. Len(h) /\ 2*i \in 1 .. Len(h)
      BY <1>9
    <3>3. v[2*(i+1) - 1] = h[2*i - 1] /\ v[2*(i+1)] = h[2*i]
      BY <1>5, <3>1, <3>2
    <3>4. y[i + 1] = <<h[2*i - 1].body, h[2*i].body>>
      BY <1>11, <2>1
    <3> QED BY <3>3, <3>4
  <2>4. <<v[2*1 - 1].body, v[2*1].body>> = y[1]
    BY <1>5, <2>1 DEF x
  <2>5. ASSUME NEW i \in 1 .. n + 1 PROVE <<v[2*i - 1].body, v[2*i].body>> = y[i]
    <3>1. CASE i = 1
      BY <2>4, <3>1
    <3>2. CASE i # 1
      <4>1. i - 1 \in 1 .. n /\ (i - 1) + 1 = i
        BY <1>1, <3>2
      <4> QED BY <2>3, <4>1
    <3> QED BY <3>1, <3>2
  <2>6. Assembled(v) = y
    BY <1>8, <2>2, <2>5
  <2> QED BY <2>6 DEF y
<1>14. Even(Len(u))
  BY <1>1, <1>4 DEF Even
<1> QED BY <1>4, <1>11, <1>12, <1>13, <1>14 DEF p, u, v, x

\* What a register holds, as halves.
LEMMA HeldType ==
  ASSUME NEW r \in Seq(Half), NEW k \in {"lo", "hi"}
  PROVE  /\ Held(k, r) \in Seq(HalfWords) /\ Len(Held(k, r)) = Len(r)
         /\ r = << >> => Held(k, r) = << >>
         /\ Len(r) <= 1 /\ r # << >> => /\ Head(r) \in Half
                                       /\ Held(k, r) = <<HalfWord(k, Head(r))>>
         /\ \A h \in Half : Held(k, <<h>>) = <<HalfWord(k, h)>>
<1>1. Held(k, r) \in Seq(HalfWords) /\ Len(Held(k, r)) = Len(r)
  <2>1. \A i \in 1 .. Len(r) : HalfWord(k, r[i]) \in HalfWords
    BY DEF HalfWord, HalfWords
  <2> QED BY <2>1 DEF Held
<1>2. ASSUME r = << >> PROVE Held(k, r) = << >>
  BY <1>2 DEF Held
<1>3. ASSUME NEW h \in Half PROVE Held(k, <<h>>) = <<HalfWord(k, h)>>
  BY DEF Held
<1>4. ASSUME Len(r) <= 1, r # << >>
      PROVE  Head(r) \in Half /\ Held(k, r) = <<HalfWord(k, Head(r))>>
  <2>1. Head(r) \in Half /\ r = <<Head(r)>>
    <3>0. Len(r) \in Nat /\ Len(r) # 0
      BY <1>4
    <3>1. Len(r) = 1
      BY <1>4, <3>0
    <3>2. r[1] \in Half /\ Head(r) = r[1]
      BY <3>1
    <3> QED BY <3>1, <3>2
  <2> QED BY <1>3, <2>1
<1> QED BY <1>1, <1>2, <1>3, <1>4

\* The parts of the halves under way.
LEMMA HalvesType ==
  ASSUME TypeOK, NEW s \in Side
  PROVE  /\ Held("lo", packetRecvBuffer[Peer(s)]) \in Seq(HalfWords)
         /\ Kepts(s) \in Seq(HalfWords) /\ Held("hi", packetSendBuffer[s]) \in Seq(HalfWords)
         /\ Halves(s) = Held("lo", packetRecvBuffer[Peer(s)]) \o Kepts(s)
                          \o Held("hi", packetSendBuffer[s])
         /\ Halves(s) \in Seq(HalfWords)
<1>1. Peer(s) \in Side
  BY PeerFacts
<1>2. packetRecvBuffer[Peer(s)] \in Seq(Half) /\ packetSendBuffer[s] \in Seq(Half)
  BY <1>1 DEF TypeOK
<1>3. /\ Held("lo", packetRecvBuffer[Peer(s)]) \in Seq(HalfWords)
      /\ Held("hi", packetSendBuffer[s]) \in Seq(HalfWords)
  BY <1>2, HeldType
<1>4. Kepts(s) \in Seq(HalfWords)
  <2> DEFINE K == HalfWords
             w == Words(s)
  <2>1. w \in Seq(Word)
    BY WordsType
  <2> HIDE DEF K, w
  <2>2. Kept(w, K) \in Seq(Word \cap K)
    BY <2>1, KeptIn
  <2>3. Kept(w, K) \in Seq(K)
    BY <2>2
  <2> QED BY <2>3 DEF Kepts, K, w
<1>5. Halves(s) = Held("lo", packetRecvBuffer[Peer(s)]) \o Kepts(s)
                    \o Held("hi", packetSendBuffer[s])
  BY DEF Halves, Kepts, HalfWords
<1> DEFINE a == Held("lo", packetRecvBuffer[Peer(s)])
           b == Kepts(s)
           c == Held("hi", packetSendBuffer[s])
<1>6. a \in Seq(HalfWords) /\ b \in Seq(HalfWords) /\ c \in Seq(HalfWords)
  BY <1>3, <1>4
<1> HIDE DEF a, b, c
<1>7. a \o b \o c \in Seq(HalfWords)
  BY <1>6
<1> QED BY <1>3, <1>4, <1>5, <1>7 DEF a, b, c

\* What is a half and what is not.
LEMMA WordKinds ==
  /\ CreditWord(WindowSize) \in Word /\ CreditWord(WindowSize) \notin HalfWords
  /\ \A w \in Word : w \in HalfWords <=> w.kind # "credit"
  /\ \A h \in Half, k \in {"lo", "hi"} : HalfWord(k, h) \in Word /\ HalfWord(k, h) \in HalfWords
  /\ \A w \in HalfWords : w.body \in Half /\ w = HalfWord(w.kind, w.body)
BY DEF Word, CreditWord, HalfWord, HalfWords

\* What is kept of the words, as a word is sent and as one is taken.
LEMMA KeptsEnter ==
  ASSUME TypeOK, NEW s \in Side, NEW w \in Word,
         auroraOutQ' = [auroraOutQ EXCEPT ![s] = Append(@, w)],
         UNCHANGED <<wire, auroraInQ>>
  PROVE  /\ Kepts(Peer(s))' = Kepts(Peer(s))
         /\ w \in HalfWords => Kepts(s)' = Append(Kepts(s), w)
         /\ w \notin HalfWords => Kepts(s)' = Kepts(s)
<1>1. Words(s)' = Append(Words(s), w) /\ Words(Peer(s))' = Words(Peer(s))
  BY WordsEnter
<1>2. Words(s) \in Seq(Word)
  BY WordsType
<1>3. Kept(Append(Words(s), w), HalfWords)
        = IF w \in HalfWords THEN Append(Kept(Words(s), HalfWords), w)
                             ELSE Kept(Words(s), HalfWords)
  <2> DEFINE x == Words(s)
             K == HalfWords
  <2>1. x \in Seq(Word)
    BY <1>2
  <2> HIDE DEF x, K
  <2>2. Kept(Append(x, w), K) = IF w \in K THEN Append(Kept(x, K), w) ELSE Kept(x, K)
    BY <2>1, KeptAppend
  <2> QED BY <2>2 DEF x, K
<1>4. Kepts(s)' = Kept(Words(s)', HalfWords) /\ Kepts(Peer(s))' = Kept(Words(Peer(s))', HalfWords)
  BY DEF Kepts, HalfWords
<1> QED BY <1>1, <1>3, <1>4 DEF Kepts

\* A word taken was the first, and may be a half.
LEMMA KeptsLeave ==
  ASSUME TypeOK, NEW s \in Side, RecvPacketPart(s)
  PROVE  LET w == Head(auroraInQ[s])
         IN /\ w \in Word /\ Kepts(s)' = Kepts(s)
            /\ w \in HalfWords => Kepts(Peer(s)) = <<w>> \o Kepts(Peer(s))'
            /\ w \notin HalfWords => Kepts(Peer(s))' = Kepts(Peer(s))
            /\ Kepts(Peer(s))' \in Seq(HalfWords)
<1> DEFINE w == Head(auroraInQ[s])
           q == Words(Peer(s))
           K == HalfWords
<1>1. /\ auroraInQ[s] # << >> /\ auroraInQ' = [auroraInQ EXCEPT ![s] = Tail(@)]
      /\ UNCHANGED <<auroraOutQ, wire>>
  BY DEF RecvPacketPart
<1>2. /\ q # << >> /\ Head(q) = w /\ Words(Peer(s))' = Tail(q) /\ Words(s)' = Words(s)
  BY <1>1, WordsLeave
<1>3. w \in Word
  BY <1>1, PopType DEF TypeOK
<1>4. q \in Seq(Word)
  BY WordsType, PeerFacts
<1>5. /\ Kepts(s)' = Kept(Words(s)', HalfWords) /\ Kepts(Peer(s))' = Kept(Words(Peer(s))', HalfWords)
      /\ Kepts(Peer(s)) = Kept(q, K) /\ Kepts(s) = Kept(Words(s), HalfWords)
  BY DEF Kepts, HalfWords
<1> HIDE DEF w, q, K
<1>6. Kept(q, K) = (IF w \in K THEN <<w>> ELSE << >>) \o Kept(Tail(q), K)
  <2>1. Kept(q, K) = (IF Head(q) \in K THEN <<Head(q)>> ELSE << >>) \o Kept(Tail(q), K)
    BY <1>2, <1>4, KeptTail
  <2> QED BY <1>2, <2>1
<1>7. Kept(Tail(q), K) \in Seq(K)
  <2> DEFINE t == Tail(q)
  <2>1. t \in Seq(Word)
    BY <1>2, <1>4
  <2> HIDE DEF t
  <2>2. Kept(t, K) \in Seq(Word \cap K)
    BY <2>1, KeptIn
  <2>3. Kept(t, K) \in Seq(K)
    BY <2>2
  <2> QED BY <2>3 DEF t
<1>8. Kepts(Peer(s))' = Kept(Tail(q), K) /\ Kepts(s)' = Kepts(s)
  BY <1>2, <1>5 DEF K
<1> DEFINE t == Kept(Tail(q), K)
<1>9. t \in Seq(K) /\ Kepts(Peer(s))' = t /\ Kepts(Peer(s)) = (IF w \in K THEN <<w>> ELSE << >>) \o t
  BY <1>5, <1>6, <1>7, <1>8
<1> HIDE DEF t
<1>10. << >> \o t = t
  BY <1>9
<1> QED BY <1>3, <1>8, <1>9, <1>10 DEF w, K

\* Three sequences of halves: a high half leaves the sender, a low one does, a
\* low half arrives, a high one does.
LEMMA HighLeaves ==
  ASSUME NEW a \in Seq(HalfWords), NEW b \in Seq(HalfWords), NEW w \in HalfWords
  PROVE  a \o Append(b, w) \o << >> = a \o b \o <<w>>
<1> DEFINE k == a \o b
<1>1. k \in Seq(HalfWords) /\ k \o <<w>> = Append(k, w)
  OBVIOUS
<1>2. a \o Append(b, w) = Append(k, w) /\ Append(k, w) \o << >> = Append(k, w)
  OBVIOUS
<1> QED BY <1>1, <1>2

\* ... a low half leaves and its high half enters the register ...
LEMMA LowLeaves ==
  ASSUME NEW a \in Seq(HalfWords), NEW b \in Seq(HalfWords), NEW w \in HalfWords,
         NEW x \in HalfWords
  PROVE  a \o Append(b, w) \o <<x>> = (a \o b \o << >>) \o <<w, x>>
<1> DEFINE k == a \o b
<1>1. k \in Seq(HalfWords) /\ k \o << >> = k
  OBVIOUS
<1>2. a \o Append(b, w) = Append(k, w)
  OBVIOUS
<1> HIDE DEF k
<1>3. Append(k, w) \o <<x>> = k \o <<w, x>>
  <2> DEFINE n == Len(k)
             l == Append(Append(k, w), x)
             r == k \o <<w, x>>
  <2>0. n \in Nat
    BY <1>1
  <2>1. /\ l \in Seq(HalfWords) /\ Len(l) = n + 2 /\ l[n + 1] = w /\ l[n + 2] = x
        /\ \A i \in 1 .. n : l[i] = k[i]
    BY <1>1
  <2>2. /\ r \in Seq(HalfWords) /\ Len(r) = n + 2 /\ r[n + 1] = w /\ r[n + 2] = x
        /\ \A i \in 1 .. n : r[i] = k[i]
    BY <1>1
  <2>3. Append(k, w) \o <<x>> = l
    BY <1>1
  <2> HIDE DEF l, r, n
  <2>4. \A i \in 1 .. (n + 2) : i \in 1 .. n \/ i = n + 1 \/ i = n + 2
    BY <2>0
  <2>5. \A i \in 1 .. (n + 2) : l[i] = r[i]
    BY <2>1, <2>2, <2>4
  <2>6. l = r
    BY <2>1, <2>2, <2>5
  <2> QED BY <2>3, <2>6 DEF r
<1> QED BY <1>1, <1>2, <1>3 DEF k

\* ... a low half arrives ...
LEMMA LowArrives ==
  ASSUME NEW b \in Seq(HalfWords), NEW c \in Seq(HalfWords), NEW w \in HalfWords
  PROVE  << >> \o (<<w>> \o b) \o c = <<w>> \o b \o c
OBVIOUS

\* ... and a high half completes the low half that is held.
LEMMA HighArrives ==
  ASSUME NEW b \in Seq(HalfWords), NEW c \in Seq(HalfWords), NEW w \in HalfWords,
         NEW x \in HalfWords
  PROVE  <<w>> \o (<<x>> \o b) \o c = <<w, x>> \o (<< >> \o b \o c)
<1>1. <<w>> \o (<<x>> \o b) = <<w, x>> \o b
  <2> DEFINE n == Len(b)
             y == <<x>> \o b
  <2>1. /\ n \in Nat /\ y \in Seq(HalfWords) /\ Len(y) = n + 1 /\ y[1] = x
        /\ \A i \in 1 .. n : y[i + 1] = b[i]
    OBVIOUS
  <2> DEFINE u == <<w, x>> \o b
  <2>2. /\ u \in Seq(HalfWords) /\ Len(u) = n + 2 /\ u[1] = w /\ u[2] = x
        /\ \A i \in 1 .. n : u[i + 2] = b[i]
    OBVIOUS
  <2> HIDE DEF y, n
  <2> DEFINE z == <<w>> \o y
  <2>3. /\ z \in Seq(HalfWords) /\ Len(z) = n + 2 /\ z[1] = w
        /\ \A i \in 1 .. n + 1 : z[i + 1] = y[i]
    BY <2>1
  <2> HIDE DEF u, z
  <2>4. \A i \in 1 .. n + 2 : z[i] = u[i]
    <3>1. z[2] = x
      <4>1. 1 \in 1 .. n + 1 /\ 1 + 1 = 2
        BY <2>1
      <4> QED BY <2>1, <2>3, <4>1
    <3>2. ASSUME NEW i \in 1 .. n PROVE z[i + 2] = b[i]
      <4>1. i + 1 \in 1 .. n + 1 /\ (i + 1) + 1 = i + 2
        BY <2>1
      <4> QED BY <2>1, <2>3, <4>1
    <3>3. ASSUME NEW i \in 1 .. n + 2, i # 1, i # 2 PROVE z[i] = u[i]
      <4>1. i - 2 \in 1 .. n /\ (i - 2) + 2 = i
        BY <2>1, <3>3
      <4> QED BY <2>2, <3>2, <4>1
    <3> QED BY <2>2, <2>3, <3>1, <3>3
  <2>5. z = u
    BY <2>2, <2>3, <2>4
  <2> QED BY <2>5 DEF z, u, y
<1>2. << >> \o b = b
  OBVIOUS
<1>3. (<<w, x>> \o b) \o c = <<w, x>> \o (b \o c)
  <2> DEFINE e == <<w, x>>
  <2>1. e \in Seq(HalfWords)
    OBVIOUS
  <2> HIDE DEF e
  <2>2. (e \o b) \o c = e \o (b \o c)
    BY <2>1
  <2> QED BY <2>2 DEF e
<1> QED BY <1>1, <1>2, <1>3

\* The halves under way after a step, in terms of what is kept then.
LEMMA HalvesNext ==
  ASSUME NEW s \in Side
  PROVE  Halves(s)' = Held("lo", packetRecvBuffer'[Peer(s)]) \o Kepts(s)'
                        \o Held("hi", packetSendBuffer'[s])
BY DEF Halves, Kepts, HalfWords, Held, HalfWord

\* The halves that go the other way stay.
LEMMA OtherHalves ==
  ASSUME TypeOK, NEW s \in Side, Kepts(Peer(s))' = Kepts(Peer(s)),
         packetRecvBuffer'[s] = packetRecvBuffer[s],
         packetSendBuffer'[Peer(s)] = packetSendBuffer[Peer(s)]
  PROVE  Halves(Peer(s))' = Halves(Peer(s))
<1>1. ASSUME NEW p \in Side, Peer(p) = s, Kepts(p)' = Kepts(p),
             packetSendBuffer'[p] = packetSendBuffer[p]
      PROVE  Halves(p)' = Halves(p)
  <2>1. /\ Halves(p)' = Held("lo", packetRecvBuffer'[Peer(p)]) \o Kepts(p)'
                          \o Held("hi", packetSendBuffer'[p])
        /\ Halves(p) = Held("lo", packetRecvBuffer[Peer(p)]) \o Kepts(p)
                          \o Held("hi", packetSendBuffer[p])
    BY HalvesNext, HalvesType
  <2> QED BY <1>1, <2>1
<1> QED BY <1>1, PeerFacts

HalvesStill == \A t \in Side : Halves(t)' = Halves(t)
RegistersSmall == \A t \in Side :
  Len(packetSendBuffer[t]) <= 1 /\ Len(packetRecvBuffer[t]) <= 1

\* When neither register nor what is kept of the words changes, no half moves.
LEMMA NothingMoves ==
  ASSUME TypeOK, PairsInv, UNCHANGED <<packetRecvBuffer, packetSendBuffer>>,
         \A t \in Side : Kepts(t)' = Kepts(t)
  PROVE  HalvesStill /\ RegistersSmall'
<1>1. ASSUME NEW t \in Side PROVE Halves(t)' = Halves(t)
  BY HalvesNext, HalvesType
<1>2. RegistersSmall'
  BY DEF PairsInv, RegistersSmall
<1> QED BY <1>1, <1>2 DEF HalvesStill

\* A control word is no half; words that move along the link keep their order.
LEMMA ControlMovesNothing ==
  ASSUME TypeOK, PairsInv, NEW s \in Side, SendControl(s) \/ AuroraSend(s) \/ AuroraRecv(s)
  PROVE  HalvesStill /\ RegistersSmall'
<1>1. UNCHANGED <<packetRecvBuffer, packetSendBuffer>>
  BY DEF SendControl, AuroraSend, AuroraRecv, sendVars, recvVars
<1>2. ASSUME AuroraSend(s) \/ AuroraRecv(s), NEW t \in Side PROVE Kepts(t)' = Kepts(t)
  <2>1. Words(t)' = Words(t)
    BY <1>2, WordsMove
  <2> QED BY <2>1 DEF Kepts, HalfWords
<1>3. ASSUME SendControl(s), NEW t \in Side PROVE Kepts(t)' = Kepts(t)
  <2> DEFINE w == CreditWord(Head(flowControlQ[s]))
  <2>1. /\ flowControlQ[s] # << >> /\ auroraOutQ' = [auroraOutQ EXCEPT ![s] = Append(@, w)]
        /\ UNCHANGED <<wire, auroraInQ>>
    BY <1>3 DEF SendControl
  <2>2. Head(flowControlQ[s]) \in {WindowSize}
    BY <2>1, PopType DEF TypeOK
  <2>3. w \in Word /\ w \notin HalfWords
    BY <2>2, WordKinds
  <2> HIDE DEF w
  <2>4. Kepts(s)' = Kepts(s) /\ Kepts(Peer(s))' = Kepts(Peer(s))
    BY <2>1, <2>3, KeptsEnter
  <2> QED BY <2>4, PeerFacts
<1> QED BY <1>1, <1>2, <1>3, NothingMoves

\* The second half of a packet leaves its register for the link.
LEMMA SendHighMovesNothing ==
  ASSUME TypeOK, PairsInv, NEW s \in Side, SendHigh(s)
  PROVE  HalvesStill /\ RegistersSmall'
<1> DEFINE r == packetSendBuffer[s]
           w == HalfWord("hi", Head(r))
           a == Held("lo", packetRecvBuffer[Peer(s)])
           b == Kepts(s)
<1>1. /\ r # << >> /\ packetSendBuffer' = [packetSendBuffer EXCEPT ![s] = << >>]
      /\ auroraOutQ' = [auroraOutQ EXCEPT ![s] = Append(@, w)]
      /\ UNCHANGED <<wire, auroraInQ, packetRecvBuffer>>
  BY DEF SendHigh, recvVars
<1>2. r \in Seq(Half) /\ Len(r) <= 1
  BY DEF TypeOK, PairsInv
<1>3. Head(r) \in Half /\ Held("hi", r) = <<w>>
  BY <1>1, <1>2, HeldType
<1>4. w \in Word /\ w \in HalfWords
  BY <1>3, WordKinds
<1>5. /\ packetSendBuffer'[s] = << >> /\ Held("hi", << >>) = << >>
      /\ packetSendBuffer'[Peer(s)] = packetSendBuffer[Peer(s)]
  BY <1>1, PeerFacts DEF TypeOK, Held
<1> HIDE DEF w
<1>6. Kepts(s)' = Append(b, w) /\ Kepts(Peer(s))' = Kepts(Peer(s))
  BY <1>1, <1>4, KeptsEnter
<1>7. a \in Seq(HalfWords) /\ b \in Seq(HalfWords) /\ Halves(s) = a \o b \o Held("hi", r)
  BY HalvesType
<1>8. Halves(s)' = a \o Append(b, w) \o << >>
  BY <1>1, <1>5, <1>6, HalvesNext
<1> HIDE DEF a, b, r
<1>9. a \o Append(b, w) \o << >> = a \o b \o <<w>>
  BY <1>4, <1>7, HighLeaves
<1>10. Halves(s)' = Halves(s)
  BY <1>3, <1>7, <1>8, <1>9
<1>11. Halves(Peer(s))' = Halves(Peer(s))
  BY <1>1, <1>5, <1>6, OtherHalves
<1>12. RegistersSmall'
  <2>1. Len(<< >>) = 0
    OBVIOUS
  <2> QED BY <1>1, <1>5, <2>1, PeerFacts DEF PairsInv, RegistersSmall
<1> QED BY <1>10, <1>11, <1>12, PeerFacts DEF HalvesStill

\* A packet begun: both its halves are under way.
LEMMA SendLowBegins ==
  ASSUME TypeOK, PairsInv, NEW s \in Side, SendLow(s)
  PROVE  LET d == Head(sendQ[s])
             w == HalfWord("lo", d[1])
             x == HalfWord("hi", d[2])
         IN /\ d \in Data /\ w \in HalfWords /\ x \in HalfWords
            /\ Halves(s)' = Halves(s) \o <<w, x>> /\ Halves(Peer(s))' = Halves(Peer(s))
            /\ RegistersSmall'
<1> DEFINE d == Head(sendQ[s])
           w == HalfWord("lo", d[1])
           x == HalfWord("hi", d[2])
           a == Held("lo", packetRecvBuffer[Peer(s)])
           b == Kepts(s)
<1>1. /\ sendQ[s] # << >> /\ packetSendBuffer[s] = << >>
      /\ packetSendBuffer' = [packetSendBuffer EXCEPT ![s] = <<d[2]>>]
      /\ auroraOutQ' = [auroraOutQ EXCEPT ![s] = Append(@, w)]
      /\ UNCHANGED <<wire, auroraInQ, packetRecvBuffer>>
  BY DEF SendLow, recvVars
<1>2. d \in Data /\ d[1] \in Half /\ d[2] \in Half
  <2>1. d \in Data
    BY <1>1, PopType DEF TypeOK
  <2> QED BY <2>1, DataAssumption
<1> HIDE DEF d
<1>3. w \in Word /\ w \in HalfWords /\ x \in HalfWords
  BY <1>2, WordKinds
<1>4. Held("hi", <<d[2]>>) = <<x>> /\ Held("hi", << >>) = << >>
  BY <1>2, HeldType DEF Held
<1>5. packetSendBuffer'[s] = <<d[2]>> /\ packetSendBuffer'[Peer(s)] = packetSendBuffer[Peer(s)]
  BY <1>1, PeerFacts DEF TypeOK
<1> HIDE DEF w, x
<1>6. Kepts(s)' = Append(b, w) /\ Kepts(Peer(s))' = Kepts(Peer(s))
  BY <1>1, <1>3, KeptsEnter
<1>7. a \in Seq(HalfWords) /\ b \in Seq(HalfWords) /\ Halves(s) = a \o b \o << >>
  BY <1>1, <1>4, HalvesType
<1>8. Halves(s)' = a \o Append(b, w) \o <<x>>
  BY <1>1, <1>4, <1>5, <1>6, HalvesNext
<1> HIDE DEF a, b
<1>9. a \o Append(b, w) \o <<x>> = (a \o b \o << >>) \o <<w, x>>
  BY <1>3, <1>7, LowLeaves
<1>10. Halves(s)' = Halves(s) \o <<w, x>>
  BY <1>7, <1>8, <1>9
<1>11. Halves(Peer(s))' = Halves(Peer(s))
  BY <1>1, <1>5, <1>6, OtherHalves
<1>12. RegistersSmall'
  <2>1. Len(<<d[2]>>) = 1
    OBVIOUS
  <2> QED BY <1>1, <1>5, <2>1, PeerFacts DEF PairsInv, RegistersSmall
<1> QED BY <1>2, <1>3, <1>10, <1>11, <1>12 DEF d, w, x

\* A low half is held where none was held before.
LEMMA RecvLowMovesNothing ==
  ASSUME Inv, PairsInv, NEW s \in Side, RecvPacketPart(s), RecvLow(s, Head(auroraInQ[s]))
  PROVE  HalvesStill /\ RegistersSmall'
<1> DEFINE p == Peer(s)
           w == Head(auroraInQ[s])
           b == Kepts(p)'
           c == Held("hi", packetSendBuffer[p])
<1>1. /\ w.kind = "lo" /\ packetRecvBuffer' = [packetRecvBuffer EXCEPT ![s] = <<w.body>>]
      /\ UNCHANGED packetSendBuffer
  BY DEF RecvLow, RecvPacketPart, sendVars
<1>2. TypeOK
  BY DEF Inv
<1>3. p \in Side /\ p # s /\ Peer(p) = s
  BY PeerFacts
<1>4. packetRecvBuffer[s] = << >>
  <2>1. /\ Words(p) \in Seq(Word) /\ Words(p) # << >> /\ Head(Words(p)) = w
        /\ Alternates(Words(p), packetRecvBuffer[s] # << >>, packetSendBuffer[p] # << >>)
    BY RecvTakes
  <2>2. ~(packetRecvBuffer[s] # << >>)
    BY <1>1, <2>1, AlternatesTail
  <2> QED BY <2>2
<1>5. w \in Word /\ w \in HalfWords /\ w = HalfWord("lo", w.body) /\ w.body \in Half
  <2>1. w \in Word
    BY <1>2, KeptsLeave
  <2> HIDE DEF w
  <2>2. w \in HalfWords
    BY <1>1, <2>1, WordKinds
  <2> QED BY <1>1, <2>1, <2>2, WordKinds
<1>6. Kepts(s)' = Kepts(s) /\ Kepts(p) = <<w>> \o b /\ b \in Seq(HalfWords)
  BY <1>2, <1>5, KeptsLeave
<1>7. Held("lo", << >>) = << >> /\ Held("lo", <<w.body>>) = <<w>>
  BY <1>5, HeldType DEF Held
<1>8. packetRecvBuffer'[s] = <<w.body>> /\ packetRecvBuffer'[p] = packetRecvBuffer[p]
  BY <1>1, <1>2, <1>3 DEF TypeOK
<1>9. Halves(p) = << >> \o (<<w>> \o b) \o c /\ c \in Seq(HalfWords)
  BY <1>2, <1>3, <1>4, <1>6, <1>7, HalvesType
<1>10. Halves(p)' = <<w>> \o b \o c
  <2>1. Halves(p)' = Held("lo", packetRecvBuffer'[Peer(p)]) \o Kepts(p)'
                      \o Held("hi", packetSendBuffer'[p])
    BY <1>3, HalvesNext
  <2> QED BY <1>1, <1>3, <1>7, <1>8, <2>1
<1>11. Halves(s)' = Halves(s)
  <2>1. Halves(s)' = Held("lo", packetRecvBuffer'[p]) \o Kepts(s)'
                      \o Held("hi", packetSendBuffer'[s])
    BY HalvesNext
  <2>2. Halves(s) = Held("lo", packetRecvBuffer[p]) \o Kepts(s) \o Held("hi", packetSendBuffer[s])
    BY <1>2, HalvesType
  <2> QED BY <1>1, <1>6, <1>8, <2>1, <2>2
<1> HIDE DEF b, c, w
<1>12. << >> \o (<<w>> \o b) \o c = <<w>> \o b \o c
  BY <1>5, <1>6, <1>9, LowArrives
<1>13. RegistersSmall'
  <2>1. Len(<<w.body>>) = 1
    OBVIOUS
  <2> QED BY <1>1, <1>8, <2>1, PeerFacts DEF PairsInv, RegistersSmall
<1> QED BY <1>9, <1>10, <1>11, <1>12, <1>13, PeerFacts DEF HalvesStill

\* A high half completes the low half that is held: a packet has arrived.
LEMMA RecvHighCompletes ==
  ASSUME Inv, PairsInv, NEW s \in Side, RecvPacketPart(s), RecvHigh(s, Head(auroraInQ[s]))
  PROVE  LET l == HalfWord("lo", Head(packetRecvBuffer[s]))
             w == Head(auroraInQ[s])
         IN /\ packetRecvBuffer[s] # << >> /\ l \in HalfWords /\ w \in HalfWords
            /\ Halves(Peer(s)) = <<l, w>> \o Halves(Peer(s))'
            /\ Halves(Peer(s))' \in Seq(HalfWords)
            /\ Halves(s)' = Halves(s) /\ RegistersSmall'
<1> DEFINE p == Peer(s)
           w == Head(auroraInQ[s])
           r == packetRecvBuffer[s]
           l == HalfWord("lo", Head(r))
           b == Kepts(p)'
           c == Held("hi", packetSendBuffer[p])
<1>2. TypeOK
  BY DEF Inv
<1>3. p \in Side /\ p # s /\ Peer(p) = s
  BY PeerFacts
<1>0. w.kind = "hi" /\ UNCHANGED packetSendBuffer
  BY DEF RecvHigh, RecvPacketPart, sendVars
<1>4. r # << >>
  <2>1. /\ Words(p) \in Seq(Word) /\ Words(p) # << >> /\ Head(Words(p)) = w
        /\ Alternates(Words(p), packetRecvBuffer[s] # << >>, packetSendBuffer[p] # << >>)
    BY RecvTakes
  <2>2. packetRecvBuffer[s] # << >>
    BY <1>0, <2>1, AlternatesTail
  <2> QED BY <2>2
<1>1. packetRecvBuffer' = [packetRecvBuffer EXCEPT ![s] = << >>]
  BY <1>4 DEF RecvHigh, Assemble
<1>5. w \in HalfWords
  <2>1. w \in Word
    BY <1>2, KeptsLeave
  <2> HIDE DEF w
  <2> QED BY <1>0, <2>1, WordKinds
<1>6. Kepts(s)' = Kepts(s) /\ Kepts(p) = <<w>> \o b /\ b \in Seq(HalfWords)
  BY <1>2, <1>5, KeptsLeave
<1>7. /\ Head(r) \in Half /\ Held("lo", r) = <<l>> /\ Held("lo", << >>) = << >>
  <2>1. r \in Seq(Half) /\ Len(r) <= 1
    BY <1>2 DEF TypeOK, PairsInv
  <2> QED BY <1>4, <2>1, HeldType DEF Held
<1>l. l \in HalfWords
  BY <1>7, WordKinds
<1>8. packetRecvBuffer'[s] = << >> /\ packetRecvBuffer'[p] = packetRecvBuffer[p]
  BY <1>1, <1>2, <1>3 DEF TypeOK
<1>9. Halves(p) = <<l>> \o (<<w>> \o b) \o c /\ c \in Seq(HalfWords)
  BY <1>2, <1>3, <1>6, <1>7, HalvesType
<1>10. Halves(p)' = << >> \o b \o c
  <2>1. Halves(p)' = Held("lo", packetRecvBuffer'[Peer(p)]) \o Kepts(p)'
                      \o Held("hi", packetSendBuffer'[p])
    BY <1>3, HalvesNext
  <2> QED BY <1>0, <1>3, <1>7, <1>8, <2>1
<1>11. Halves(s)' = Halves(s)
  <2>1. Halves(s)' = Held("lo", packetRecvBuffer'[p]) \o Kepts(s)'
                      \o Held("hi", packetSendBuffer'[s])
    BY HalvesNext
  <2>2. Halves(s) = Held("lo", packetRecvBuffer[p]) \o Kepts(s) \o Held("hi", packetSendBuffer[s])
    BY <1>2, HalvesType
  <2> QED BY <1>0, <1>6, <1>8, <2>1, <2>2
<1> HIDE DEF b, c, w, l
<1>12. <<l>> \o (<<w>> \o b) \o c = <<l, w>> \o (<< >> \o b \o c)
  BY <1>5, <1>6, <1>9, <1>l, HighArrives
<1>13. << >> \o b \o c \in Seq(HalfWords)
  BY <1>6, <1>9
<1>14. RegistersSmall'
  <2>1. Len(<< >>) = 0
    OBVIOUS
  <2> QED BY <1>0, <1>1, <1>8, <2>1, PeerFacts DEF PairsInv, RegistersSmall
<1> QED BY <1>4, <1>5, <1>l, <1>9, <1>10, <1>11, <1>12, <1>13, <1>14 DEF w, l

\* Taking a control word moves no half.
LEMMA RecvControlMovesNothing ==
  ASSUME Inv, PairsInv, NEW s \in Side, RecvPacketPart(s), RecvControl(s, Head(auroraInQ[s]))
  PROVE  HalvesStill /\ RegistersSmall'
<1> DEFINE w == Head(auroraInQ[s])
<1>1. w.kind = "credit" /\ UNCHANGED <<packetRecvBuffer, packetSendBuffer>>
  BY DEF RecvControl, RecvPacketPart, sendVars, recvVars
<1>2. TypeOK
  BY DEF Inv
<1>3. w \notin HalfWords
  <2>1. w \in Word
    BY <1>2, KeptsLeave
  <2> HIDE DEF w
  <2> QED BY <1>1, <2>1, WordKinds
<1>4. Kepts(s)' = Kepts(s) /\ Kepts(Peer(s))' = Kepts(Peer(s))
  BY <1>2, <1>3, KeptsLeave
<1>5. \A t \in Side : Kepts(t)' = Kepts(t)
  BY <1>4, PeerFacts
<1> QED BY <1>1, <1>2, <1>5, NothingMoves

-----------------------------------------------------------------------------
\* What the channel sees of a direction: its line, and what has arrived.
Arriving(s) == Assembled(Halves(s))
LinkLine(s) == recvBufferQ[Peer(s)] \o Arriving(s) \o sendQ[s]
ChannelInv  == Inv /\ PairsInv

\* The parts of a line are sequences of packets.
LEMMA LinkLineType ==
  ASSUME TypeOK, PairsInv, NEW s \in Side
  PROVE  /\ recvBufferQ[Peer(s)] \in Seq(Packet) /\ Arriving(s) \in Seq(Packet)
         /\ sendQ[s] \in Seq(Packet) /\ LinkLine(s) \in Seq(Packet)
<1>1. recvBufferQ[Peer(s)] \in Seq(Packet)
  BY PeerFacts DEF TypeOK, Packet
<1>2. sendQ[s] \in Seq(Packet)
  <2>1. sendQ[s] \in Seq(Data) /\ Data \subseteq Packet
    BY DataAssumption DEF TypeOK, Packet
  <2> QED BY <2>1
<1>3. Arriving(s) \in Seq(Packet)
  <2>1. Halves(s) \in Seq(HalfWords) /\ Even(Len(Halves(s)))
    BY HalvesType DEF PairsInv
  <2>2. CASE HalfWords = {}
    <3>1. Halves(s) = << >>
      BY <2>1, <2>2
    <3>2. Len(Halves(s)) \div 2 = 0
      BY <3>1
    <3> QED BY <3>2 DEF Arriving, Assembled
  <2>3. CASE HalfWords # {}
    <3>1. PICK a \in HalfWords : TRUE
      BY <2>3
    <3> QED BY <2>1, <3>1, AssembledExtends DEF Arriving
  <2> QED BY <2>2, <2>3
<1> QED BY <1>1, <1>2, <1>3, ConcatType DEF LinkLine

\* A line after a step.
LEMMA LinkLineNext ==
  ASSUME NEW s \in Side
  PROVE  LinkLine(s)' = recvBufferQ'[Peer(s)] \o Arriving(s)' \o sendQ'[s]
BY DEF LinkLine

\* The packets under way in halves stay when no half moves.
LEMMA ArrivingSame ==
  ASSUME NEW s \in Side, Halves(s)' = Halves(s)
  PROVE  Arriving(s)' = Arriving(s)
BY DEF Arriving, Assembled

\* A packet begun moves along its line.
LEMMA SendLowLine ==
  ASSUME ChannelInv, NEW s \in Side, SendLow(s)
  PROVE  /\ \A t \in Side : LinkLine(t)' = LinkLine(t)
         /\ PairsInv' /\ recvQ' = recvQ
<1> DEFINE d == Head(sendQ[s])
           x == HalfWord("lo", d[1])
           y == HalfWord("hi", d[2])
           a == recvBufferQ[Peer(s)]
           b == Arriving(s)
           c == sendQ[s]
           h == Halves(s)
<1>1. TypeOK /\ PairsInv
  BY DEF ChannelInv, Inv
<1>2. /\ c # << >> /\ sendQ' = [sendQ EXCEPT ![s] = Tail(@)]
      /\ UNCHANGED <<recvBufferQ, recvQ>>
  BY DEF SendLow, recvVars
<1>3. /\ d \in Data /\ x \in HalfWords /\ y \in HalfWords
      /\ Halves(s)' = h \o <<x, y>> /\ Halves(Peer(s))' = Halves(Peer(s))
      /\ RegistersSmall'
  BY <1>1, SendLowBegins
<1>4. d = <<d[1], d[2]>> /\ x.body = d[1] /\ y.body = d[2]
  <2>1. \A v \in Data : v = <<v[1], v[2]>>
    BY DataAssumption
  <2>2. x.body = d[1] /\ y.body = d[2]
    BY DEF HalfWord
  <2> QED BY <1>3, <2>1, <2>2
<1>5. h \in Seq(HalfWords) /\ Even(Len(h))
  BY <1>1, HalvesType DEF PairsInv
<1> HIDE DEF h, x, y
<1>6. Assembled(h \o <<x, y>>) = Append(Assembled(h), <<x.body, y.body>>) /\ Even(Len(h \o <<x, y>>))
  BY <1>3, <1>5, AssembledExtends
<1>7. Arriving(s)' = Append(b, d)
  <2>1. Arriving(s)' = Assembled(Halves(s)')
    BY DEF Arriving, Assembled
  <2> QED BY <1>3, <1>4, <1>6, <2>1 DEF Arriving, h
<1>8. a \in Seq(Packet) /\ b \in Seq(Packet) /\ c \in Seq(Packet)
  BY <1>1, LinkLineType
<1>9. sendQ'[s] = Tail(c) /\ sendQ'[Peer(s)] = sendQ[Peer(s)]
  BY <1>1, <1>2, PeerFacts DEF TypeOK
<1>10. LinkLine(s)' = a \o Append(b, d) \o Tail(c) /\ LinkLine(s) = a \o b \o c
  BY <1>2, <1>7, <1>9, LinkLineNext DEF LinkLine
<1>11. Head(c) = d
  OBVIOUS
<1> HIDE DEF a, b, c, d
<1>12. a \o Append(b, d) \o Tail(c) = a \o b \o c
  <2> DEFINE e == a \o b
  <2>1. e \in Seq(Packet) /\ d \in Packet
    BY <1>2, <1>8, <1>11
  <2>2. a \o Append(b, d) = Append(e, d)
    BY <1>8, <2>1, ConcatAppend
  <2> HIDE DEF e
  <2>3. Append(e, Head(c)) \o Tail(c) = e \o c
    BY <1>2, <1>8, <2>1, ConcatShift
  <2> QED BY <1>11, <2>2, <2>3 DEF e
<1>13. LinkLine(Peer(s))' = LinkLine(Peer(s))
  <2>1. Peer(s) \in Side /\ Arriving(Peer(s))' = Arriving(Peer(s))
    BY <1>3, ArrivingSame, PeerFacts
  <2> QED BY <1>2, <1>9, <2>1, LinkLineNext DEF LinkLine
<1>14. PairsInv'
  <2>1. Even(Len(Halves(s)'))
    BY <1>3, <1>6
  <2>2. Even(Len(Halves(Peer(s))'))
    BY <1>1, <1>3, PeerFacts DEF PairsInv
  <2>3. \A t \in Side : Even(Len(Halves(t)'))
    BY <2>1, <2>2, PeerFacts
  <2> QED BY <1>3, <2>3 DEF PairsInv, RegistersSmall, Even
<1> QED BY <1>2, <1>10, <1>12, <1>13, <1>14, PeerFacts

\* A packet that is put together moves along its line.
LEMMA RecvHighLine ==
  ASSUME ChannelInv, NEW s \in Side, RecvPacketPart(s), RecvHigh(s, Head(auroraInQ[s]))
  PROVE  /\ \A t \in Side : LinkLine(t)' = LinkLine(t)
         /\ PairsInv' /\ recvQ' = recvQ
<1> DEFINE p == Peer(s)
           r == packetRecvBuffer[s]
           w == Head(auroraInQ[s])
           l == HalfWord("lo", Head(r))
           x == <<Head(r), w.body>>
           h == Halves(p)'
           a == recvBufferQ[s]
           b == Arriving(p)
           c == sendQ[p]
           t == Arriving(p)'
<1>1. Inv /\ TypeOK /\ PairsInv
  BY DEF ChannelInv, Inv
<1>2. p \in Side /\ p # s /\ Peer(p) = s
  BY PeerFacts
<1>3. /\ r # << >> /\ l \in HalfWords /\ w \in HalfWords
      /\ Halves(p) = <<l, w>> \o h /\ h \in Seq(HalfWords)
      /\ Halves(s)' = Halves(s) /\ RegistersSmall'
  BY <1>1, RecvHighCompletes
<1>4. /\ recvBufferQ' = [recvBufferQ EXCEPT ![s] = Append(@, x)]
      /\ UNCHANGED <<sendQ, recvQ>>
  BY <1>3 DEF RecvHigh, Assemble, RecvPacketPart, sendVars
<1>5. Even(Len(h))
  <2>1. Even(Len(Halves(p)))
    BY <1>1, <1>2 DEF PairsInv
  <2> HIDE DEF h, w, l
  <2>2. Len(<<l, w>> \o h) = Len(h) + 2 /\ Len(h) \in Nat
    BY <1>3
  <2> QED BY <1>3, <2>1, <2>2 DEF Even
<1>6. /\ Assembled(<<l, w>> \o h) = <<<<l.body, w.body>>>> \o Assembled(h)
      /\ Assembled(h) \in Seq(Packet)
  <2> HIDE DEF h, w, l
  <2> QED BY <1>3, <1>5, AssembledExtends
<1>7. l.body = Head(r)
  BY DEF HalfWord
<1>8. t = Assembled(h) /\ b = Assembled(Halves(p))
  BY DEF Arriving, Assembled
<1>9. b = <<x>> \o t /\ t \in Seq(Packet)
  BY <1>3, <1>6, <1>7, <1>8
<1>10. a \in Seq(Packet) /\ b \in Seq(Packet) /\ c \in Seq(Packet)
  BY <1>1, <1>2, LinkLineType
<1>11. recvBufferQ'[s] = Append(a, x) /\ recvBufferQ'[p] = recvBufferQ[p]
  BY <1>1, <1>2, <1>4 DEF TypeOK
<1>12. LinkLine(p)' = Append(a, x) \o t \o c /\ LinkLine(p) = a \o b \o c
  BY <1>2, <1>4, <1>11, LinkLineNext DEF LinkLine
<1> HIDE DEF a, b, c, t, x, h, l, w
<1>13. b # << >> /\ Head(b) = x /\ Tail(b) = t
  <2> QED BY <1>9
<1>14. Append(a, Head(b)) \o Tail(b) \o c = a \o b \o c
  <2>1. b # << >>
    BY <1>13
  <2> QED BY SMTT(30), <1>10, <2>1, LineMovesUp
<1>15. LinkLine(s)' = LinkLine(s)
  <2>1. Arriving(s)' = Arriving(s)
    BY <1>3, ArrivingSame
  <2> QED BY <1>4, <1>11, <2>1, LinkLineNext DEF LinkLine
<1>16. LinkLine(p)' = LinkLine(p)
  BY <1>12, <1>13, <1>14
<1>17. PairsInv'
  <2>1. Even(Len(Halves(p)'))
    BY <1>5 DEF h
  <2>2. Even(Len(Halves(s)'))
    BY <1>1, <1>3 DEF PairsInv
  <2>3. \A u \in Side : Even(Len(Halves(u)'))
    BY <2>1, <2>2, PeerFacts
  <2> QED BY <1>3, <2>3 DEF PairsInv, RegistersSmall, Even
<1> QED BY <1>4, <1>15, <1>16, <1>17, PeerFacts

\* The halves come in pairs after a step that moves none.
LEMMA PairsKept ==
  ASSUME PairsInv, HalvesStill, RegistersSmall' PROVE PairsInv'
<1>1. \A t \in Side : Even(Len(Halves(t)'))
  BY DEF PairsInv, HalvesStill
<1> QED BY <1>1 DEF PairsInv, RegistersSmall, Even

\* The rules that leave the lines of both directions alone.
LinesStill == (\A t \in Side : LinkLine(t)' = LinkLine(t)) /\ recvQ' = recvQ

\* Nothing changes for the channel when no half and no packet moves.
LEMMA QuietLines ==
  ASSUME PairsInv, HalvesStill, RegistersSmall', UNCHANGED <<sendQ, recvBufferQ, recvQ>>
  PROVE  LinesStill /\ PairsInv'
<1>1. ASSUME NEW t \in Side PROVE LinkLine(t)' = LinkLine(t)
  <2>1. Arriving(t)' = Arriving(t)
    BY ArrivingSame DEF HalvesStill
  <2> QED BY <2>1, LinkLineNext DEF LinkLine
<1> QED BY <1>1, PairsKept DEF LinesStill

\* Rules that touch neither the words nor the registers move no half.
LEMMA RegistersApart ==
  ASSUME TypeOK, PairsInv,
         UNCHANGED <<packetRecvBuffer, packetSendBuffer, auroraOutQ, wire, auroraInQ>>
  PROVE  HalvesStill /\ RegistersSmall'
<1>1. ASSUME NEW t \in Side PROVE Kepts(t)' = Kepts(t)
  BY DEF Kepts, Words
<1> QED BY <1>1, NothingMoves

\* The rules of control words, of the Aurora core and of single halves are such.
LEMMA QuietRules ==
  ASSUME ChannelInv, NEW s \in Side,
         \/ EmitFlowControlPacket(s) \/ SendControl(s) \/ SendHigh(s) \/ AuroraSend(s)
         \/ AuroraRecv(s)
         \/ RecvPacketPart(s) /\ \/ RecvControl(s, Head(auroraInQ[s]))
                                 \/ RecvLow(s, Head(auroraInQ[s]))
  PROVE  LinesStill /\ PairsInv'
<1>1. TypeOK /\ PairsInv /\ Inv
  BY DEF ChannelInv, Inv
<1>2. UNCHANGED <<sendQ, recvBufferQ, recvQ>>
  BY DEF EmitFlowControlPacket, SendControl, SendHigh, AuroraSend, AuroraRecv,
         RecvPacketPart, RecvControl, RecvLow, sendVars, recvVars
<1>3. HalvesStill /\ RegistersSmall'
  <2>1. CASE EmitFlowControlPacket(s)
    <3>1. UNCHANGED <<packetRecvBuffer, packetSendBuffer, auroraOutQ, wire, auroraInQ>>
      BY <2>1 DEF EmitFlowControlPacket, sendVars, recvVars, linkVars
    <3> QED BY <1>1, <3>1, RegistersApart
  <2>2. CASE SendControl(s) \/ AuroraSend(s) \/ AuroraRecv(s)
    BY <1>1, <2>2, ControlMovesNothing
  <2>3. CASE SendHigh(s)
    BY <1>1, <2>3, SendHighMovesNothing
  <2>4. CASE RecvPacketPart(s) /\ RecvControl(s, Head(auroraInQ[s]))
    BY <1>1, <2>4, RecvControlMovesNothing
  <2>5. CASE RecvPacketPart(s) /\ RecvLow(s, Head(auroraInQ[s]))
    BY <1>1, <2>5, RecvLowMovesNothing
  <2> QED BY <2>1, <2>2, <2>3, <2>4, <2>5
<1> QED BY <1>1, <1>2, <1>3, QuietLines

\* A packet drained by flushReadBuffer was the first of its line.
Drained(r) ==
  /\ LinkLine(r) # << >>
  /\ \A t \in Side :
       /\ LinkLine(t)' = IF t = r THEN Tail(LinkLine(r)) ELSE LinkLine(t)
       /\ recvQ'[Peer(t)] = IF t = r THEN Append(recvQ[Peer(t)], Head(LinkLine(r)))
                                     ELSE recvQ[Peer(t)]

\* It is delivered to the queue the user reads.
LEMMA FlushDrains ==
  ASSUME ChannelInv, NEW s \in Side, FlushReadBuffer(s)
  PROVE  Drained(Peer(s)) /\ PairsInv'
<1> DEFINE p == Peer(s)
           a == recvBufferQ[s]
           b == Arriving(p)
           c == sendQ[p]
<1>1. TypeOK /\ PairsInv
  BY DEF ChannelInv, Inv
<1>2. p \in Side /\ p # s /\ Peer(p) = s /\ \A t \in Side : t = s \/ t = p
  BY PeerFacts
<1>3. /\ a # << >>
      /\ recvQ' = [recvQ EXCEPT ![s] = Append(@, Head(a))]
      /\ recvBufferQ' = [recvBufferQ EXCEPT ![s] = Tail(@)]
      /\ UNCHANGED <<sendQ, packetRecvBuffer, packetSendBuffer, auroraOutQ, wire, auroraInQ>>
  BY DEF FlushReadBuffer, sendVars, linkVars
<1>4. HalvesStill /\ RegistersSmall'
  BY <1>1, <1>3, RegistersApart
<1>5. Arriving(s)' = Arriving(s) /\ Arriving(p)' = b
  BY <1>2, <1>4, ArrivingSame DEF HalvesStill
<1>6. /\ recvBufferQ'[s] = Tail(a) /\ recvBufferQ'[p] = recvBufferQ[p]
      /\ recvQ'[s] = Append(recvQ[s], Head(a)) /\ recvQ'[p] = recvQ[p]
  BY <1>1, <1>2, <1>3 DEF TypeOK
<1>7. LinkLine(p) = a \o b \o c /\ LinkLine(p)' = Tail(a) \o b \o c
  BY <1>2, <1>3, <1>5, <1>6, LinkLineNext DEF LinkLine
<1>8. LinkLine(s)' = LinkLine(s)
  BY <1>2, <1>3, <1>5, <1>6, LinkLineNext DEF LinkLine
<1>9. a \in Seq(Packet) /\ b \in Seq(Packet) /\ c \in Seq(Packet)
  BY <1>1, <1>2, LinkLineType
<1> HIDE DEF a, b, c
<1>10. /\ Tail(a) \o b \o c = Tail(a \o b \o c)
       /\ a \o b \o c # << >> /\ Head(a \o b \o c) = Head(a)
  BY <1>3, <1>9, LineShrinks
<1>11. /\ LinkLine(p) # << >> /\ Head(LinkLine(p)) = Head(a)
       /\ LinkLine(p)' = Tail(LinkLine(p))
  BY <1>7, <1>10
<1>12. Drained(p)
  BY <1>2, <1>6, <1>8, <1>11 DEF Drained
<1> QED BY <1>1, <1>4, <1>12, PairsKept

\* A packet the user sends is the last of its line.
LinkAccepts(s, d) ==
  /\ \A t \in Side : LinkLine(t)' = IF t = s THEN Append(LinkLine(s), d) ELSE LinkLine(t)
  /\ recvQ' = recvQ

\* Its line has one packet more.
LEMMA SendAccepts ==
  ASSUME ChannelInv, NEW s \in Side, NEW d \in Data, Send(s, d)
  PROVE  LinkAccepts(s, d) /\ PairsInv'
<1> DEFINE p == Peer(s)
           a == recvBufferQ[p]
           b == Arriving(s)
           c == sendQ[s]
<1>1. TypeOK /\ PairsInv
  BY DEF ChannelInv, Inv
<1>2. p \in Side /\ p # s /\ Peer(p) = s /\ \A t \in Side : t = s \/ t = p
  BY PeerFacts
<1>3. /\ sendQ' = [sendQ EXCEPT ![s] = Append(@, d)] /\ recvQ' = recvQ
      /\ UNCHANGED <<recvBufferQ, packetRecvBuffer, packetSendBuffer, auroraOutQ, wire, auroraInQ>>
  BY DEF Send, recvVars, linkVars
<1>4. HalvesStill /\ RegistersSmall'
  BY <1>1, <1>3, RegistersApart
<1>5. Arriving(s)' = b /\ Arriving(p)' = Arriving(p)
  BY <1>2, <1>4, ArrivingSame DEF HalvesStill
<1>6. sendQ'[s] = Append(c, d) /\ sendQ'[p] = sendQ[p]
  BY <1>1, <1>2, <1>3 DEF TypeOK
<1>7. LinkLine(s) = a \o b \o c /\ LinkLine(s)' = a \o b \o Append(c, d)
  BY <1>2, <1>3, <1>5, <1>6, LinkLineNext DEF LinkLine
<1>8. LinkLine(p)' = LinkLine(p)
  BY <1>2, <1>3, <1>5, <1>6, LinkLineNext DEF LinkLine
<1>9. a \in Seq(Packet) /\ b \in Seq(Packet) /\ c \in Seq(Packet)
  BY <1>1, LinkLineType
<1>10. d \in Packet
  BY DataAssumption DEF Packet
<1> HIDE DEF a, b, c
<1>11. a \o b \o Append(c, d) = Append(a \o b \o c, d)
  BY <1>9, <1>10, LineGrows
<1>12. LinkLine(s)' = Append(LinkLine(s), d)
  BY <1>7, <1>11
<1>13. LinkAccepts(s, d)
  BY <1>2, <1>3, <1>8, <1>12 DEF LinkAccepts
<1> QED BY <1>1, <1>4, <1>13, PairsKept

\* Reading a packet concerns what has arrived and nothing else.
LEMMA RecvReads ==
  ASSUME ChannelInv, NEW s \in Side, Recv(s)
  PROVE  /\ PairsInv' /\ \A t \in Side : LinkLine(t)' = LinkLine(t)
         /\ recvQ[s] # << >> /\ recvQ' = [recvQ EXCEPT ![s] = Tail(@)]
<1>1. TypeOK /\ PairsInv
  BY DEF ChannelInv, Inv
<1>2. /\ recvQ[s] # << >> /\ recvQ' = [recvQ EXCEPT ![s] = Tail(@)]
      /\ UNCHANGED <<sendQ, recvBufferQ, packetRecvBuffer, packetSendBuffer, auroraOutQ,
                     wire, auroraInQ>>
  BY DEF Recv, sendVars, linkVars
<1>3. HalvesStill /\ RegistersSmall'
  BY <1>1, <1>2, RegistersApart
<1>4. ASSUME NEW t \in Side PROVE LinkLine(t)' = LinkLine(t)
  <2>1. Arriving(t)' = Arriving(t)
    BY <1>3, ArrivingSame DEF HalvesStill
  <2> QED BY <1>2, <2>1, LinkLineNext DEF LinkLine
<1> QED BY <1>1, <1>2, <1>3, <1>4, PairsKept

-----------------------------------------------------------------------------
Out == [s \in Side |-> recvQ[Peer(s)]]

\* Every step of the link is a step of the channel or leaves it alone, and
\* keeps the halves in pairs.
LEMMA LinkStep ==
  ASSUME ChannelInv, Next
  PROVE  [Channel!Next]_<<Pending, Out>> /\ PairsInv'
<1>v. /\ Pending = [t \in Side |-> LinkLine(t)] /\ Pending' = [t \in Side |-> LinkLine(t)']
      /\ Out = [t \in Side |-> recvQ[Peer(t)]] /\ Out' = [t \in Side |-> recvQ'[Peer(t)]]
  BY DEF Pending, LinkLine, Arriving, Out
<1>1. ASSUME LinesStill PROVE [Channel!Next]_<<Pending, Out>>
  <2>1. Pending' = Pending /\ Out' = Out
    BY <1>1, <1>v DEF LinesStill
  <2> QED BY <2>1
<1>2. ASSUME NEW r \in Side, Drained(r) PROVE [Channel!Next]_<<Pending, Out>>
  <2>1. Pending[r] = LinkLine(r) /\ Pending[r] # << >>
    BY <1>2, <1>v DEF Drained
  <2>2. Pending' = [Pending EXCEPT ![r] = Tail(@)]
    <3>1. Pending' = [t \in Side |-> IF t = r THEN Tail(Pending[r]) ELSE Pending[t]]
      BY <1>2, <1>v DEF Drained
    <3>2. Pending = [t \in Side |-> Pending[t]]
      BY <1>v
    <3> QED BY <3>1, <3>2, OneEntry
  <2>3. Out' = [Out EXCEPT ![r] = Append(@, Head(Pending[r]))]
    <3>1. Out' = [t \in Side |-> IF t = r THEN Append(Out[r], Head(Pending[r])) ELSE Out[t]]
      BY <1>2, <1>v DEF Drained
    <3>2. Out = [t \in Side |-> Out[t]]
      BY <1>v
    <3> QED BY <3>1, <3>2, OneEntry
  <2> QED BY <2>1, <2>2, <2>3 DEF Channel!Next, Channel!Deliver, Out
<1>3. ASSUME NEW s \in Side, Recv(s) PROVE [Channel!Next]_<<Pending, Out>>
  <2> DEFINE r == Peer(s)
  <2>1. /\ \A t \in Side : LinkLine(t)' = LinkLine(t)
        /\ recvQ[s] # << >> /\ recvQ' = [recvQ EXCEPT ![s] = Tail(@)]
    BY <1>3, RecvReads
  <2>2. r \in Side /\ Peer(r) = s /\ \A t \in Side : Peer(t) = s <=> t = r
    BY PeerFacts
  <2>3. Pending' = Pending
    BY <1>v, <2>1
  <2>4. Out[r] # << >>
    BY <1>v, <2>1, <2>2
  <2>5. Out' = [Out EXCEPT ![r] = Tail(@)]
    <3> HIDE DEF r
    <3>1. \A t \in Side : recvQ'[Peer(t)] = IF t = r THEN Tail(Out[r]) ELSE Out[t]
      <4>1. \A u \in Side : recvQ'[u] = IF u = s THEN Tail(recvQ[s]) ELSE recvQ[u]
        BY <2>1 DEF ChannelInv, Inv, TypeOK
      <4>2. Out[r] = recvQ[s]
        BY <1>v, <2>2
      <4> QED BY <1>v, <2>2, <4>1, <4>2, PeerFacts
    <3>2. Out' = [t \in Side |-> IF t = r THEN Tail(Out[r]) ELSE Out[t]]
      BY <1>v, <3>1
    <3>3. Out = [t \in Side |-> Out[t]]
      BY <1>v
    <3> QED BY <2>2, <3>2, <3>3, OneEntry
  <2> HIDE DEF r
  <2> QED BY <2>2, <2>3, <2>4, <2>5 DEF Channel!Next, Channel!Read, Out
<1>4. ASSUME NEW s \in Side, NEW d \in Data, LinkAccepts(s, d)
      PROVE  [Channel!Next]_<<Pending, Out>>
  <2>1. Out' = Out
    BY <1>4, <1>v DEF LinkAccepts
  <2>2. Pending' = [Pending EXCEPT ![s] = Append(@, d)]
    <3>1. Pending' = [t \in Side |-> IF t = s THEN Append(Pending[s], d) ELSE Pending[t]]
      BY <1>4, <1>v DEF LinkAccepts
    <3>2. Pending = [t \in Side |-> Pending[t]]
      BY <1>v
    <3> QED BY <3>1, <3>2, OneEntry
  <2> QED BY <2>1, <2>2 DEF Channel!Next, Channel!Send, Out
<1>5. PICK s \in Side : Rules(s) \/ (s \in Senders /\ \E d \in Data : Send(s, d))
  BY DEF Next
<1>6. CASE \/ EmitFlowControlPacket(s) \/ SendControl(s) \/ SendHigh(s) \/ AuroraSend(s)
           \/ AuroraRecv(s)
  BY <1>1, <1>6, QuietRules
<1>7. CASE SendLow(s)
  BY <1>1, <1>7, SendLowLine DEF LinesStill
<1>8. CASE RecvPacketPart(s)
  <2>1. \/ RecvControl(s, Head(auroraInQ[s])) \/ RecvHigh(s, Head(auroraInQ[s]))
        \/ RecvLow(s, Head(auroraInQ[s]))
    BY <1>8 DEF RecvPacketPart
  <2>2. CASE RecvHigh(s, Head(auroraInQ[s]))
    BY <1>1, <1>8, <2>2, RecvHighLine DEF LinesStill
  <2> QED BY <1>1, <1>8, <2>1, <2>2, QuietRules
<1>9. CASE FlushReadBuffer(s)
  BY <1>2, <1>9, FlushDrains, PeerFacts
<1>10. CASE Recv(s)
  BY <1>3, <1>10, RecvReads
<1>11. CASE \E d \in Data : Send(s, d)
  BY <1>4, <1>11, SendAccepts
<1> QED BY <1>5, <1>6, <1>7, <1>8, <1>9, <1>10, <1>11 DEF Rules, SendPacketPart

\* At first nothing is under way.
LEMMA LinkInit == Init => Channel!Init /\ PairsInv
<1> SUFFICES ASSUME Init PROVE Channel!Init /\ PairsInv
  OBVIOUS
<1>1. ASSUME NEW t \in Side
      PROVE  /\ Peer(t) \in Side /\ sendQ[t] = << >> /\ packetSendBuffer[t] = << >>
             /\ packetRecvBuffer[t] = << >> /\ recvBufferQ[t] = << >> /\ recvQ[t] = << >>
             /\ Words(t) = << >>
  BY PeerFacts DEF Init, Words
<1>2. ASSUME NEW t \in Side PROVE Halves(t) = << >>
  <2>1. Held("lo", << >>) = << >> /\ Held("hi", << >>) = << >>
    BY DEF Held
  <2>2. Kept(<< >>, [kind : {"lo", "hi"}, body : Half]) = << >>
    BY KeptEmpty
  <2> QED BY <1>1, <2>1, <2>2 DEF Halves
<1>3. Len(<< >>) = 0 /\ Even(0) /\ Assembled(<< >>) = << >>
  BY DEF Even, Assembled
<1>4. PairsInv
  BY <1>1, <1>2, <1>3 DEF PairsInv
<1>5. Pending = [t \in Side |-> << >>] /\ Out = [t \in Side |-> << >>]
  BY <1>1, <1>2, <1>3 DEF Pending, Out
<1> QED BY <1>4, <1>5 DEF Channel!Init, Out

\* No packet is lost, altered, duplicated or overtaken between send at one end
\* of the link and recv at the other: the gearboxes of the two ends implement
\* the FIFO channel (its liveness is checked by TLC).
THEOREM LinkIsChannel == Spec => ChannelSafe
<1>1. Init => Channel!Init /\ ChannelInv
  BY LinkInit, InvInit DEF ChannelInv
<1>2. ChannelInv /\ [Next]_vars => [Channel!Next]_<<Pending, Out>> /\ ChannelInv'
  <2> SUFFICES ASSUME ChannelInv, [Next]_vars
               PROVE  [Channel!Next]_<<Pending, Out>> /\ ChannelInv'
    OBVIOUS
  <2>1. Inv'
    BY InvStep DEF ChannelInv
  <2>2. CASE Next
    BY <2>1, <2>2, LinkStep DEF ChannelInv
  <2>3. CASE UNCHANGED vars
    <3>1. UNCHANGED <<sendQ, packetSendBuffer, packetRecvBuffer, recvBufferQ, recvQ,
                      auroraOutQ, wire, auroraInQ>>
      BY <2>3 DEF vars, sendVars, recvVars, linkVars
    <3>2. UNCHANGED <<Pending, Out>>
      BY <3>1 DEF Pending, Out, Halves, Words
    <3>3. PairsInv'
      <4>1. HalvesStill /\ RegistersSmall'
        BY <3>1, RegistersApart DEF ChannelInv, Inv
      <4> QED BY <4>1, PairsKept DEF ChannelInv
    <3> QED BY <2>1, <3>2, <3>3 DEF ChannelInv
  <2> QED BY <2>2, <2>3
<1> QED BY <1>1, <1>2, PTL DEF Spec, ChannelSafe, Channel!SafeSpec, Out
=============================================================================
