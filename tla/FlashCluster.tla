---------------------------- MODULE FlashCluster -----------------------------
(***************************************************************************)
(* The nodes of projects/flash_multinode, connected: each has a host       *)
(* (flash.cpp), the rules of Main.bsv around its FlashSplitter, a flash    *)
(* controller, and five network endpoints, one per class of message.       *)
(* What a page holds is named by the slot that asked for it, so that data  *)
(* delivered to the wrong request can be told from data delivered to the   *)
(* right one.                                                              *)
(***************************************************************************)
EXTENDS FlashSplitter

CONSTANTS
  Slots,        \* entries of the hosts' tag tables: <<node, op, tag>>
  Target,       \* slot -> the nodes its requests may go to
  NumEng,       \* num_eng_ports: DMA engine ports, 8
  JobDepth,     \* depth of dmaReadReqQ and dmaRdReq2RespQ, 4
  NetDepth,     \* messages a channel of an endpoint holds (a bound)
  MaxIssue,     \* requests per slot in a run that ends (a bound); 0: no limit
  MaxPending    \* requests of all hosts under way at once (a bound)

ASSUME SlotAssumption ==
  /\ Slots \subseteq Node \X {"read", "write", "erase"} \X Nat
  /\ Target \in [Slots -> SUBSET Node]
  /\ {NumEng, JobDepth, NetDepth} \subseteq Nat \ {0} /\ {MaxIssue, MaxPending} \subseteq Nat

Eng   == 0 .. NumEng - 1
Class == {"cmd", "rd", "wd", "ack", "wreq"}

VARIABLES
  pending,      \* slot -> words of the reply received, or Idle
  issued,       \* slot -> requests made, counted up to MaxIssue
  flashCmdQ,    \* Main.bsv: commands the host has called for
  reSel,        \* engine that gets the next write data request
  job,          \* node, engine -> write data requests queued
  burst,        \* dmaReadBurstCount: words sent for the first of them
  ctrl,         \* node, tag -> the command the controller works on, or Idle
  net           \* class, source, destination -> messages on their way

hostVars == <<pending, issued, flashCmdQ>>
dmaVars  == <<reSel, job, burst>>
vars == <<splitterVars, hostVars, dmaVars, ctrl, net>>

Idle == -1
Free == [op |-> "none"]

SlotOf(n, op, tag) == <<n, op, tag>>

Init ==
  /\ SplitterInit
  /\ pending = [s \in Slots |-> Idle]
  /\ issued = [s \in Slots |-> 0]
  /\ flashCmdQ = [n \in Node |-> << >>]
  /\ reSel = [n \in Node |-> 0]
  /\ job = [n \in Node |-> [p \in Eng |-> << >>]]
  /\ burst = [n \in Node |-> [p \in Eng |-> 0]]
  /\ ctrl = [n \in Node |-> [t \in Tag |-> Free]]
  /\ net = [c \in Class |-> [l \in Node \X Node |-> << >>]]

-----------------------------------------------------------------------------
\* Host: waitIdle...() takes a free tag of the operation's table, and
\* readPage, writePage or eraseBlock sends the command.
Issue(s, dst) ==
  /\ pending[s] = Idle
  /\ Cardinality({r \in Slots : pending[r] # Idle}) < MaxPending
  /\ dst \in Target[s]
  /\ MaxIssue = 0 \/ issued[s] < MaxIssue
  /\ Len(flashCmdQ[s[1]]) < NumTags
  /\ pending' = [pending EXCEPT ![s] = 0]
  /\ issued' = IF MaxIssue = 0 THEN issued ELSE [issued EXCEPT ![s] = @ + 1]
  /\ flashCmdQ' = [flashCmdQ EXCEPT ![s[1]] = Append(@,
       [src |-> s[1], dst |-> dst, op |-> s[2], tag |-> s[3], page |-> s])]
  /\ UNCHANGED <<splitterVars, dmaVars, ctrl, net>>

FlashCmdForward(n) ==
  /\ flashCmdQ[n] # << >>
  /\ LocServSendCmd(n, Head(flashCmdQ[n]))
  /\ flashCmdQ' = [flashCmdQ EXCEPT ![n] = Tail(@)]
  /\ UNCHANGED <<pending, issued, dmaVars, ctrl, net>>

\* doDistrReadFromFlash: a word goes to the buffer of its tag; the host is
\* told when the page is complete (readDone) and the tag is free again.
DistrReadFromFlash(n) ==
  /\ Get(n, "locRdOutQ")
  /\ LET s == SlotOf(n, "read", First(n, "locRdOutQ").tag)
     IN pending' = [pending EXCEPT ![s] = IF @ = PageWords - 1 THEN Idle ELSE @ + 1]
  /\ UNCHANGED <<issued, flashCmdQ, dmaVars, ctrl, net>>

\* handleControllerAck, then writeDone or eraseDone.
HandleControllerAck(n) ==
  /\ Get(n, "locAckOutQ")
  /\ LET ack == First(n, "locAckOutQ")
     IN pending' = [pending EXCEPT ![SlotOf(n, ack.status, ack.tag)] = Idle]
  /\ UNCHANGED <<issued, flashCmdQ, dmaVars, ctrl, net>>

\* handleWriteDataRequestFromFlash: the engines take requests in turn.
HandleWriteDataRequest(n) ==
  /\ Len(job[n][reSel[n]]) < JobDepth
  /\ Get(n, "locWreqOutQ")
  /\ job' = [job EXCEPT ![n][reSel[n]] = Append(@, First(n, "locWreqOutQ"))]
  /\ reSel' = [reSel EXCEPT ![n] = (@ + 1) % NumEng]
  /\ UNCHANGED <<hostVars, burst, ctrl, net>>

\* pipeDmaRdData and forwardDmaRdData: the next word of the page in the
\* write buffer of the original tag, under the renamed tag.
PipeDmaRdData(n, p) ==
  /\ job[n][p] # << >>
  /\ LET req  == Head(job[n][p])
         last == burst[n][p] = PageWords - 1
     IN /\ Put(n, "locWdataInQ",
               [tag |-> req.reTag, dst |-> req.src, idx |-> burst[n][p],
                page |-> SlotOf(n, "write", req.origTag)])
        /\ burst' = [burst EXCEPT ![n][p] = IF last THEN 0 ELSE @ + 1]
        /\ job' = IF last THEN [job EXCEPT ![n][p] = Tail(@)] ELSE job
  /\ UNCHANGED <<hostVars, reSel, ctrl, net>>

-----------------------------------------------------------------------------
\* The flash controller, as Main.bsv uses it: it takes a command under its
\* tag; gives the words of a page read, in order; asks for the data of a
\* write and takes it in any order between tags; and acks writes and erases.
IssueFlashCmd(n) ==
  /\ Get(n, "locCmdOutQ")
  /\ LET cmd == First(n, "locCmdOutQ")
     IN ctrl' = [ctrl EXCEPT ![n][cmd.tag] =
                   [op |-> cmd.op, page |-> cmd.page, asked |-> FALSE, cnt |-> 0]]
  /\ UNCHANGED <<hostVars, dmaVars, net>>

EnqReadFromFlash(n, t) ==
  /\ ctrl[n][t].op = "read"
  /\ LET c == ctrl[n][t]
     IN /\ LocCliReadWord(n, [tag |-> t, dst |-> n, page |-> c.page, idx |-> c.cnt])
        /\ ctrl' = [ctrl EXCEPT ![n][t] =
                      IF c.cnt = PageWords - 1 THEN Free ELSE [c EXCEPT !.cnt = @ + 1]]
  /\ UNCHANGED <<hostVars, dmaVars, net>>

LocWriteReq(n, t) ==
  /\ ctrl[n][t].op = "write"
  /\ ~ctrl[n][t].asked
  /\ LocCliWriteDataReq(n, t)
  /\ ctrl' = [ctrl EXCEPT ![n][t].asked = TRUE]
  /\ UNCHANGED <<hostVars, dmaVars, net>>

LocWriteData(n) ==
  /\ Get(n, "locWdataOutQ")
  /\ LET t == First(n, "locWdataOutQ").tag
     IN /\ ctrl[n][t].op = "write"
        /\ ctrl' = [ctrl EXCEPT ![n][t].cnt = @ + 1]
  /\ UNCHANGED <<hostVars, dmaVars, net>>

LocAck(n, t) ==
  /\ ctrl[n][t].op \in {"write", "erase"}
  /\ ctrl[n][t].op = "write" => ctrl[n][t].cnt = PageWords
  /\ LocCliAckStatus(n, t, ctrl[n][t].op)
  /\ ctrl' = [ctrl EXCEPT ![n][t] = Free]
  /\ UNCHANGED <<hostVars, dmaVars, net>>

-----------------------------------------------------------------------------
\* sendRemote... and recRemote...: every class has an endpoint of its own,
\* which keeps messages between two nodes in order.  Where a class leaves a
\* splitter, and where it enters one:
OutOf == [cmd |-> "remCmdOutQ", rd |-> "remRdOutQ", wd |-> "remWdataOutQ",
          ack |-> "remAckOutQ", wreq |-> "remWreqOutQ"]
Into  == [cmd |-> "locCmdInQ", rd |-> "remRdInQ", wd |-> "locWdataOutQ",
          ack |-> "locAckOutQ", wreq |-> "locWreqOutQ"]

SendRemote(n, c) ==
  /\ Get(n, OutOf[c])
  /\ LET msg  == First(n, OutOf[c])
         link == <<n, msg.dst>>
     IN /\ Len(net[c][link]) < NetDepth
        /\ net' = [net EXCEPT ![c][link] = Append(@, msg)]
  /\ UNCHANGED <<hostVars, dmaVars, ctrl>>

RecRemote(n, c, from) ==
  /\ net[c][<<from, n>>] # << >>
  /\ Put(n, Into[c], Head(net[c][<<from, n>>]))
  /\ net' = [net EXCEPT ![c][<<from, n>>] = Tail(@)]
  /\ UNCHANGED <<hostVars, dmaVars, ctrl>>

Splitter(n) == SplitterRule(n) /\ UNCHANGED <<hostVars, dmaVars, ctrl, net>>

HostRule(n) ==
  \/ FlashCmdForward(n) \/ DistrReadFromFlash(n) \/ HandleControllerAck(n)
  \/ HandleWriteDataRequest(n) \/ \E p \in Eng : PipeDmaRdData(n, p)

ControllerRule(n) ==
  \/ IssueFlashCmd(n) \/ LocWriteData(n)
  \/ \E t \in Tag : EnqReadFromFlash(n, t) \/ LocWriteReq(n, t) \/ LocAck(n, t)

NetworkRule(n) ==
  \E c \in Class : SendRemote(n, c) \/ \E from \in Node : RecRemote(n, c, from)

Next ==
  \/ \E s \in Slots, dst \in Node : Issue(s, dst)
  \/ \E n \in Node : Splitter(n) \/ HostRule(n) \/ ControllerRule(n) \/ NetworkRule(n)

Spec == Init /\ [][Next]_vars

\* At every clock some rule that can fire does; the host need not ask.
Fairness ==
  WF_vars(\E n \in Node :
            Splitter(n) \/ HostRule(n) \/ ControllerRule(n) \/ NetworkRule(n))
FairSpec == Spec /\ Fairness

-----------------------------------------------------------------------------
\* The types of the registers and counters.
TypeOK ==
  /\ initTagCnt \in [Node -> 0 .. NumTags]
  /\ \A n \in Node :
       /\ {freeTagQ[n], freeTagRdQ[n], freeTagAckQ[n]} \subseteq Seq(Tag)
       /\ \A f \in SizedQ \cup PlainQ : Len(q[n][f]) <= Depth(f)
  /\ burstCnt \in [Node -> [Tag -> 0 .. PageWords - 1]]
  /\ pending \in [Slots -> {Idle} \cup 0 .. PageWords - 1]
  /\ issued \in [Slots -> 0 .. MaxIssue]
  /\ reSel \in [Node -> Eng]
  /\ burst \in [Node -> [Eng -> 0 .. PageWords - 1]]

\* Where the tag t of node n is held: by a command on its way to the
\* controller, by the controller, by the last word of a page, or by an ack.
Positions(s, t)     == Cardinality({i \in DOMAIN s : s[i] = t})
TagPositions(s, t)  == Cardinality({i \in DOMAIN s : s[i].tag = t})
LastWords(s, t)     ==
  Cardinality({i \in DOMAIN s : s[i].tag = t /\ s[i].idx = PageWords - 1})
HoldersOf(n, t) ==
  TagPositions(q[n].locCmdOutQ, t) + (IF ctrl[n][t] = Free THEN 0 ELSE 1)
    + LastWords(q[n].locRdInQ, t) + TagPositions(q[n].locAckInQ, t)
FreePlaces(n, t) ==
  (IF t >= initTagCnt[n] THEN 1 ELSE 0) + Positions(freeTagQ[n], t)
    + Positions(freeTagRdQ[n], t) + Positions(freeTagAckQ[n], t)

\* No tag of a controller is ever lost or held twice: not by a read whose
\* words are still in the pipeline when the tag comes back, not by the two
\* ways a tag is recycled, not by the counting of a page's words.
TagConservation ==
  \A n \in Node, t \in Tag : FreePlaces(n, t) + HoldersOf(n, t) = 1

\* A read word delivered to a host is the next word of the page that the
\* host asked for under that tag, so readDone never reports an unused buffer
\* (the error flash.cpp logs) and never a page that is short of a word.
ReadWordsMatch ==
  \A n \in Node : NotEmpty(n, "locRdOutQ") =>
    LET w == First(n, "locRdOutQ")
    IN w.page = SlotOf(n, "read", w.tag) /\ pending[w.page] = w.idx

\* An ack reaches the host whose request is pending, and no controller is
\* still at work on that request.
AcksMatch ==
  \A n \in Node : NotEmpty(n, "locAckOutQ") =>
    LET ack == First(n, "locAckOutQ")
        s   == SlotOf(n, ack.status, ack.tag)
    IN /\ s \in Slots /\ pending[s] # Idle
       /\ \A m \in Node, t \in Tag : ctrl[m][t] = Free \/ ctrl[m][t].page # s

\* A controller is given write data only for a tag it asked data for, and
\* the words are those of the page to be written, in order.
WriteDataMatches ==
  \A n \in Node : NotEmpty(n, "locWdataOutQ") =>
    LET w == First(n, "locWdataOutQ")
        c == ctrl[n][w.tag]
    IN c.op = "write" /\ c.asked /\ c.page = w.page /\ c.cnt = w.idx

\* Every request a host makes is completed, whichever nodes it crosses, even
\* when there are fewer tags than requests.
Completes == \A s \in Slots : pending[s] # Idle ~> pending[s] = Idle
=============================================================================
