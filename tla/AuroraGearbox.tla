---------------------------- MODULE AuroraGearbox ----------------------------
(***************************************************************************)
(* The two ends of one Aurora serial link (mkAuroraGearbox in             *)
(* src/lib/AuroraGearbox.bsv; mkAuroraExtFlowControl in                    *)
(* src/lib/AuroraExtGearbox.bsv has the same rules).  A packet is twice as *)
(* wide as the link, so it travels as two words; the Aurora receiver       *)
(* cannot be stalled, so a sender spends credits the other end grants in   *)
(* windows.  Every rule of the hardware is one action: Bluespec rules are  *)
(* atomic and fire when the FIFOs they use are ready (the designs are      *)
(* built with -aggressive-conditions: only the branch taken counts).       *)
(***************************************************************************)
EXTENDS Integers, QueueOps

CONSTANTS
  Half,          \* contents of half a packet (the packet type rides along)
  Data,          \* packets the users send: pairs <<low half, high half>>
  Senders,       \* the ends whose user sends
  RecvQDepth,    \* recvQDepth: depth of recvBufferQ, 128 in the code
  WindowSize,    \* windowSize: credits per flow control packet, 64
  CounterMod,    \* the counters are Bit#(16): 65536
  FifoDepth,     \* depth of a mkFIFO, 2
  SendQDepth,    \* depth of sendQ, 4
  DrainDepth,    \* depth of recvQ towards the user, 128
  WireDepth      \* words in flight between the two Aurora cores (a bound)

Side == 0 .. 1

ASSUME DataAssumption == Data \subseteq Half \X Half /\ Senders \subseteq Side
ASSUME DepthAssumption ==
  {RecvQDepth, WindowSize, CounterMod, FifoDepth, SendQDepth, DrainDepth,
   WireDepth} \subseteq Nat \ {0}
ASSUME CounterAssumption == RecvQDepth + WindowSize < CounterMod

VARIABLES
  sendQ, packetSendBuffer,                   \* outgoing packets, half sent
  flowControlQ,                              \* windows granted, not yet sent
  maxInFlightUp, maxInFlightDown,            \* granted, and of those received
  curInQUp, curInQDown,                      \* entered and left recvBufferQ
  curSendBudgetUp, curSendBudgetDown,        \* credits received and spent
  auroraOutQ, wire, auroraInQ,               \* words: before, on, after the link
  packetRecvBuffer, recvBufferQ, recvQ       \* incoming half, packets, drained

creditVars == <<maxInFlightUp, maxInFlightDown, curInQUp, curInQDown>>
budgetVars == <<curSendBudgetUp, curSendBudgetDown>>
sendVars   == <<sendQ, packetSendBuffer>>
recvVars   == <<packetRecvBuffer, recvBufferQ, recvQ>>
linkVars   == <<auroraOutQ, wire, auroraInQ>>
vars == <<creditVars, budgetVars, sendVars, recvVars, linkVars, flowControlQ>>

Peer(s) == 1 - s

\* A counter that is never cut to its width.
Plus_NoWrap(x, y) == x + y

\* Bit#(16) arithmetic.
Plus(x, y)  == (x + y) % CounterMod
Minus(x, y) == (x - y) % CounterMod

InFlight(s) == Minus(maxInFlightUp[s], maxInFlightDown[s])
InQ(s)      == Minus(curInQUp[s], curInQDown[s])
Budget(s)   == Minus(curSendBudgetUp[s], curSendBudgetDown[s])

(***************************************************************************)
(* A word is a control word carrying credits, or the low (idx 0) or high   *)
(* (idx 1) half of a packet.  A Maybe register is a sequence of length at  *)
(* most one.                                                               *)
(***************************************************************************)
Word == [kind : {"credit"}, body : {WindowSize}]
          \cup [kind : {"lo", "hi"}, body : Half]
CreditWord(w)   == [kind |-> "credit", body |-> w]
HalfWord(k, h)  == [kind |-> k, body |-> h]

Init ==
  LET empty == [s \in Side |-> << >>]
      zero  == [s \in Side |-> 0]
  IN /\ sendQ = empty /\ packetSendBuffer = empty /\ flowControlQ = empty
     /\ auroraOutQ = empty /\ wire = empty /\ auroraInQ = empty
     /\ packetRecvBuffer = empty /\ recvBufferQ = empty /\ recvQ = empty
     /\ maxInFlightUp = zero /\ maxInFlightDown = zero
     /\ curInQUp = zero /\ curInQDown = zero
     /\ curSendBudgetUp = zero /\ curSendBudgetDown = zero

-----------------------------------------------------------------------------
\* A grant that forgets the packets waiting in recvBufferQ.
EmitFlowControlPacket_IgnoresQueue(s) ==
  /\ Plus(InFlight(s), WindowSize) < RecvQDepth
  /\ Len(flowControlQ[s]) < FifoDepth
  /\ flowControlQ' = [flowControlQ EXCEPT ![s] = Append(@, WindowSize)]
  /\ maxInFlightUp' = [maxInFlightUp EXCEPT ![s] = Plus(@, WindowSize)]
  /\ UNCHANGED <<maxInFlightDown, curInQUp, curInQDown, budgetVars, sendVars,
                 recvVars, linkVars>>

\* Grant a window once what is granted and what is queued leave room for it.
EmitFlowControlPacket(s) ==
  /\ Plus(Plus(InFlight(s), InQ(s)), WindowSize) < RecvQDepth
  /\ Len(flowControlQ[s]) < FifoDepth
  /\ flowControlQ' = [flowControlQ EXCEPT ![s] = Append(@, WindowSize)]
  /\ maxInFlightUp' = [maxInFlightUp EXCEPT ![s] = Plus(@, WindowSize)]
  /\ UNCHANGED <<maxInFlightDown, curInQUp, curInQDown, budgetVars, sendVars,
                 recvVars, linkVars>>

\* A control word that waits for a credit, as a half does.
SendControl_NeedsCredit(s) ==
  /\ flowControlQ[s] # << >> /\ Budget(s) > 0
  /\ Len(auroraOutQ[s]) < FifoDepth
  /\ auroraOutQ' = [auroraOutQ EXCEPT ![s] = Append(@, CreditWord(Head(flowControlQ[s])))]
  /\ flowControlQ' = [flowControlQ EXCEPT ![s] = Tail(@)]
  /\ UNCHANGED <<creditVars, budgetVars, sendVars, recvVars, wire, auroraInQ>>

\* sendPacketPart is one rule: control words first, then the half that is
\* waiting, then the first half of the next packet.
SendControl(s) ==
  /\ flowControlQ[s] # << >>
  /\ Len(auroraOutQ[s]) < FifoDepth
  /\ auroraOutQ' = [auroraOutQ EXCEPT ![s] = Append(@, CreditWord(Head(flowControlQ[s])))]
  /\ flowControlQ' = [flowControlQ EXCEPT ![s] = Tail(@)]
  /\ UNCHANGED <<creditVars, budgetVars, sendVars, recvVars, wire, auroraInQ>>

SendHigh(s) ==
  /\ flowControlQ[s] = << >>
  /\ Budget(s) > 0
  /\ packetSendBuffer[s] # << >>
  /\ Len(auroraOutQ[s]) < FifoDepth
  /\ auroraOutQ' = [auroraOutQ EXCEPT
                      ![s] = Append(@, HalfWord("hi", Head(packetSendBuffer[s])))]
  /\ packetSendBuffer' = [packetSendBuffer EXCEPT ![s] = << >>]
  /\ curSendBudgetDown' = [curSendBudgetDown EXCEPT ![s] = Plus(@, 1)]
  /\ UNCHANGED <<creditVars, curSendBudgetUp, sendQ, recvVars, wire, auroraInQ,
                 flowControlQ>>

\* A first half sent without a credit.
SendLow_NoCredit(s) ==
  /\ flowControlQ[s] = << >> /\ packetSendBuffer[s] = << >> /\ sendQ[s] # << >>
  /\ Len(auroraOutQ[s]) < FifoDepth
  /\ LET d == Head(sendQ[s]) IN
       /\ auroraOutQ' = [auroraOutQ EXCEPT ![s] = Append(@, HalfWord("lo", d[1]))]
       /\ packetSendBuffer' = [packetSendBuffer EXCEPT ![s] = <<d[2]>>]
  /\ sendQ' = [sendQ EXCEPT ![s] = Tail(@)]
  /\ UNCHANGED <<creditVars, budgetVars, recvVars, wire, auroraInQ, flowControlQ>>

SendLow(s) ==
  /\ flowControlQ[s] = << >>
  /\ Budget(s) > 0
  /\ packetSendBuffer[s] = << >>
  /\ sendQ[s] # << >>
  /\ Len(auroraOutQ[s]) < FifoDepth
  /\ LET d == Head(sendQ[s]) IN
       /\ auroraOutQ' = [auroraOutQ EXCEPT ![s] = Append(@, HalfWord("lo", d[1]))]
       /\ packetSendBuffer' = [packetSendBuffer EXCEPT ![s] = <<d[2]>>]
  /\ sendQ' = [sendQ EXCEPT ![s] = Tail(@)]
  /\ UNCHANGED <<creditVars, budgetVars, recvVars, wire, auroraInQ, flowControlQ>>

SendPacketPart(s) == SendControl(s) \/ SendHigh(s) \/ SendLow(s)

\* The Aurora core takes a word (auroraSend), and delivers one (auroraRecv).
AuroraSend(s) ==
  /\ auroraOutQ[s] # << >>
  /\ Len(wire[s]) < WireDepth
  /\ wire' = [wire EXCEPT ![s] = Append(@, Head(auroraOutQ[s]))]
  /\ auroraOutQ' = [auroraOutQ EXCEPT ![s] = Tail(@)]
  /\ UNCHANGED <<creditVars, budgetVars, sendVars, recvVars, auroraInQ, flowControlQ>>

AuroraRecv(s) ==
  /\ wire[Peer(s)] # << >>
  /\ Len(auroraInQ[s]) < FifoDepth
  /\ auroraInQ' = [auroraInQ EXCEPT ![s] = Append(@, Head(wire[Peer(s)]))]
  /\ wire' = [wire EXCEPT ![Peer(s)] = Tail(@)]
  /\ UNCHANGED <<creditVars, budgetVars, sendVars, recvVars, auroraOutQ, flowControlQ>>

\* recvPacketPart: a control word adds to the budget; a high half completes
\* the low half held in packetRecvBuffer, or is dropped when none is held; a
\* low half replaces what is held.
RecvControl(s, word) ==
  /\ word.kind = "credit"
  /\ curSendBudgetUp' = [curSendBudgetUp EXCEPT ![s] = Plus(@, word.body)]
  /\ UNCHANGED <<creditVars, recvVars>>

RecvLow(s, word) ==
  /\ word.kind = "lo"
  /\ packetRecvBuffer' = [packetRecvBuffer EXCEPT ![s] = <<word.body>>]
  /\ UNCHANGED <<creditVars, curSendBudgetUp, recvBufferQ, recvQ>>

\* A packet put together the wrong way round, one that leaves its first half
\* behind, and one that does not count as received.
Assemble_Swapped(s, word) ==
  /\ Len(recvBufferQ[s]) < RecvQDepth
  /\ recvBufferQ' = [recvBufferQ EXCEPT
                       ![s] = Append(@, <<word.body, Head(packetRecvBuffer[s])>>)]
  /\ packetRecvBuffer' = [packetRecvBuffer EXCEPT ![s] = << >>]
  /\ maxInFlightDown' = [maxInFlightDown EXCEPT ![s] = Plus(@, 1)]
  /\ curInQUp' = [curInQUp EXCEPT ![s] = Plus(@, 1)]
Assemble_KeepsHalf(s, word) ==
  /\ Len(recvBufferQ[s]) < RecvQDepth
  /\ recvBufferQ' = [recvBufferQ EXCEPT
                       ![s] = Append(@, <<Head(packetRecvBuffer[s]), word.body>>)]
  /\ maxInFlightDown' = [maxInFlightDown EXCEPT ![s] = Plus(@, 1)]
  /\ curInQUp' = [curInQUp EXCEPT ![s] = Plus(@, 1)]
  /\ UNCHANGED packetRecvBuffer
Assemble_LeaksCredit(s, word) ==
  /\ Len(recvBufferQ[s]) < RecvQDepth
  /\ recvBufferQ' = [recvBufferQ EXCEPT
                       ![s] = Append(@, <<Head(packetRecvBuffer[s]), word.body>>)]
  /\ packetRecvBuffer' = [packetRecvBuffer EXCEPT ![s] = << >>]
  /\ curInQUp' = [curInQUp EXCEPT ![s] = Plus(@, 1)]
  /\ UNCHANGED maxInFlightDown

Assemble(s, word) ==
  /\ Len(recvBufferQ[s]) < RecvQDepth
  /\ recvBufferQ' = [recvBufferQ EXCEPT
                       ![s] = Append(@, <<Head(packetRecvBuffer[s]), word.body>>)]
  /\ packetRecvBuffer' = [packetRecvBuffer EXCEPT ![s] = << >>]
  /\ maxInFlightDown' = [maxInFlightDown EXCEPT ![s] = Plus(@, 1)]
  /\ curInQUp' = [curInQUp EXCEPT ![s] = Plus(@, 1)]

RecvHigh(s, word) ==
  /\ word.kind = "hi"
  /\ IF packetRecvBuffer[s] # << >>
       THEN Assemble(s, word)
       ELSE UNCHANGED <<recvBufferQ, packetRecvBuffer, maxInFlightDown, curInQUp>>
  /\ UNCHANGED <<maxInFlightUp, curInQDown, curSendBudgetUp, recvQ>>

RecvPacketPart(s) ==
  /\ auroraInQ[s] # << >>
  /\ LET word == Head(auroraInQ[s]) IN
       RecvControl(s, word) \/ RecvHigh(s, word) \/ RecvLow(s, word)
  /\ auroraInQ' = [auroraInQ EXCEPT ![s] = Tail(@)]
  /\ UNCHANGED <<curSendBudgetDown, sendVars, auroraOutQ, wire, flowControlQ>>

FlushReadBuffer(s) ==
  /\ recvBufferQ[s] # << >>
  /\ Len(recvQ[s]) < DrainDepth
  /\ recvQ' = [recvQ EXCEPT ![s] = Append(@, Head(recvBufferQ[s]))]
  /\ recvBufferQ' = [recvBufferQ EXCEPT ![s] = Tail(@)]
  /\ curInQDown' = [curInQDown EXCEPT ![s] = Plus(@, 1)]
  /\ UNCHANGED <<maxInFlightUp, maxInFlightDown, curInQUp, budgetVars, sendVars,
                 packetRecvBuffer, linkVars, flowControlQ>>

\* The methods send and recv, called by the user of the link.
Send(s, d) ==
  /\ Len(sendQ[s]) < SendQDepth
  /\ sendQ' = [sendQ EXCEPT ![s] = Append(@, d)]
  /\ UNCHANGED <<creditVars, budgetVars, packetSendBuffer, recvVars, linkVars,
                 flowControlQ>>

Recv(s) ==
  /\ recvQ[s] # << >>
  /\ recvQ' = [recvQ EXCEPT ![s] = Tail(@)]
  /\ UNCHANGED <<creditVars, budgetVars, sendVars, packetRecvBuffer, recvBufferQ,
                 linkVars, flowControlQ>>

Rules(s) ==
  \/ EmitFlowControlPacket(s) \/ SendPacketPart(s) \/ RecvPacketPart(s)
  \/ FlushReadBuffer(s) \/ AuroraSend(s) \/ AuroraRecv(s) \/ Recv(s)

Next == \E s \in Side : Rules(s) \/ (s \in Senders /\ \E d \in Data : Send(s, d))

Spec == Init /\ [][Next]_vars

\* No two rules of an end exclude each other for ever (they use disjoint ends
\* of the FIFOs), so a rule that stays ready fires.  The users drain recvQ.
Fairness == \A s \in Side :
  /\ WF_vars(EmitFlowControlPacket(s)) /\ WF_vars(SendPacketPart(s))
  /\ WF_vars(AuroraSend(s)) /\ WF_vars(AuroraRecv(s))
  /\ WF_vars(RecvPacketPart(s)) /\ WF_vars(FlushReadBuffer(s)) /\ WF_vars(Recv(s))

FairSpec == Spec /\ Fairness
-----------------------------------------------------------------------------
TypeOK ==
  /\ sendQ \in [Side -> Seq(Data)]
  /\ recvQ \in [Side -> Seq(Half \X Half)] /\ recvBufferQ \in [Side -> Seq(Half \X Half)]
  /\ packetSendBuffer \in [Side -> Seq(Half)] /\ packetRecvBuffer \in [Side -> Seq(Half)]
  /\ flowControlQ \in [Side -> Seq({WindowSize})]
  /\ auroraOutQ \in [Side -> Seq(Word)]
  /\ wire \in [Side -> Seq(Word)] /\ auroraInQ \in [Side -> Seq(Word)]
  /\ maxInFlightUp \in [Side -> 0 .. CounterMod - 1]
  /\ maxInFlightDown \in [Side -> 0 .. CounterMod - 1]
  /\ curInQUp \in [Side -> 0 .. CounterMod - 1]
  /\ curInQDown \in [Side -> 0 .. CounterMod - 1]
  /\ curSendBudgetUp \in [Side -> 0 .. CounterMod - 1]
  /\ curSendBudgetDown \in [Side -> 0 .. CounterMod - 1]

\* The words end s has sent and the other end has not taken, oldest first.
Words(s) == auroraInQ[Peer(s)] \o wire[s] \o auroraOutQ[s]

\* Every credit an end has granted is in exactly one place: a window not yet
\* sent, a control word under way, the sender's budget, or a packet under way.
\* A credit counted twice overruns the receiver, a lost one stops the link
\* (emitFlowControlPacket, sendPacketPart, recvPacketPart).
CreditConservation == \A s \in Side :
  InFlight(s) = WindowSize * (Len(flowControlQ[s]) + Count(Words(s), "credit"))
                  + Budget(Peer(s)) + Count(Words(Peer(s)), "hi")

\* The receiver has room for every packet it has allowed to be sent: the rule
\* that empties the Aurora receiver never waits for room in recvBufferQ.
ReceiverHasRoom == \A s \in Side :
  /\ Len(recvBufferQ[s]) = InQ(s)
  /\ InFlight(s) + Len(recvBufferQ[s]) < RecvQDepth

\* Reading the words q from a state in which a low half is held or not, each
\* low half finds none held, each high half finds one, and after is the outcome.
Alternates(q, before, after) ==
  \E h \in [1 .. Len(q) + 1 -> BOOLEAN] :
    /\ h[1] = before /\ h[Len(q) + 1] = after
    /\ \A i \in 1 .. Len(q) :
         /\ q[i].kind = "credit" => h[i + 1] = h[i]
         /\ q[i].kind = "lo" => ~h[i] /\ h[i + 1]
         /\ q[i].kind = "hi" => h[i] /\ ~h[i + 1]

\* A half is never dropped, overwritten or paired with a half of another
\* packet: the words under way lead from what packetRecvBuffer holds at the
\* receiver to what packetSendBuffer holds at the sender, whatever control
\* words are sent between the two halves of a packet.
HalvesAlternate == \A s \in Side :
  Alternates(Words(s), packetRecvBuffer[Peer(s)] # << >>, packetSendBuffer[s] # << >>)

\* A packet whose first half is sent keeps the credit its second half needs.
HalfKeepsCredit == \A s \in Side : packetSendBuffer[s] # << >> => Budget(s) > 0

(***************************************************************************)
(* The link implements FifoChannel: what is accepted at s and under way    *)
(* is what lies in the queues of both ends, oldest first.                  *)
(***************************************************************************)
Held(k, r) == [i \in DOMAIN r |-> HalfWord(k, r[i])]
Halves(s) ==
  Held("lo", packetRecvBuffer[Peer(s)]) \o Kept(Words(s), [kind : {"lo", "hi"}, body : Half])
    \o Held("hi", packetSendBuffer[s])
Assembled(h) == [i \in 1 .. Len(h) \div 2 |-> <<h[2*i - 1].body, h[2*i].body>>]
Pending == [s \in Side |-> recvBufferQ[Peer(s)] \o Assembled(Halves(s)) \o sendQ[s]]

Channel == INSTANCE FifoChannel WITH
  chan <- Pending, out <- [s \in Side |-> recvQ[Peer(s)]], Route <- Side

\* No packet is lost, altered, duplicated or overtaken, and each arrives.
ChannelSpec == Channel!Spec
ChannelSafe == Channel!SafeSpec

\* An end that has used up its credits is given new ones while both ends send: grants
\* and data share the FIFOs of a direction, and neither end waits for a grant
\* of the other to be able to send its own (sendPacketPart).
BudgetReturns == \A s \in Side : (Budget(s) = 0) ~> (Budget(s) > 0)
=============================================================================
