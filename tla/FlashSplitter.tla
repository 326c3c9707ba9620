---------------------------- MODULE FlashSplitter ----------------------------
(***************************************************************************)
(* The flash splitter of every node (mkFlashSplitter in                    *)
(* projects/flash_multinode/FlashSplitter.bsv).  Commands for this node's  *)
(* flash, its own and those of other nodes, get a free tag of the flash    *)
(* controller; tagTable remembers whose command holds the tag, and read    *)
(* words, write data requests and acks are routed back by it.  A rule is   *)
(* an action; an interface method is an operator over the splitter's own   *)
(* variables that the rules of FlashCluster call.                          *)
(***************************************************************************)
EXTENDS Integers, QueueOps

CONSTANTS
  Node,          \* node numbers
  NumTags,       \* num_tags: tags of a flash controller, 128
  PageWords,     \* pageWords: words of a page, 514
  FifoDepth,     \* depth of a mkFIFO, 2
  SizedDepth,    \* depth of the mkSizedFIFOs beside the tag table, 4
  RecycleDepth   \* depth of freeTagRdQ and freeTagAckQ, 8

ASSUME NodeAssumption == Node \subseteq Nat
ASSUME SizeAssumption ==
  {NumTags, PageWords, FifoDepth, SizedDepth, RecycleDepth} \subseteq Nat \ {0}

VARIABLES
  initTagCnt,                          \* tags put into freeTagQ after reset
  freeTagQ, freeTagRdQ, freeTagAckQ,   \* free tags, and tags being recycled
  tagTable,                            \* retag -> source node, original tag
  burstCnt,                            \* retag -> words of the page looked up
  q                                    \* node -> FIFO name -> contents

tagVars      == <<initTagCnt, freeTagQ, freeTagRdQ, freeTagAckQ>>
splitterVars == <<tagVars, tagTable, burstCnt, q>>

Tag == 0 .. NumTags - 1

\* The FIFOs, by name.  The response queue of a tagTable port is part of the
\* FIFO that moves in step with it: locAckInQ and locWreqInQ hold the entry
\* beside the item, lookupQ is rdataIsLastQ with the responses of rport[0].
SizedQ == {"locRdInQ", "lookupQ", "locAckInQ", "locWreqInQ"}
PlainQ == {"locCmdInQ", "locCmdOutQ", "remCmdOutQ",
           "locRdInTagQ", "locRdOutQ", "remRdInQ", "remRdOutQ",
           "locAckOutQ", "remAckOutQ", "locWreqOutQ", "remWreqOutQ",
           "locWdataInQ", "locWdataOutQ", "remWdataOutQ"}
Depth(f) == IF f \in SizedQ THEN SizedDepth ELSE FifoDepth

NotEmpty(n, f) == q[n][f] # << >>
NotFull(n, f)  == Len(q[n][f]) < Depth(f)
First(n, f)    == Head(q[n][f])

\* q after enq, after deq, and after moving on to another FIFO as item.
Enq(n, f, item)      == [q EXCEPT ![n][f] = Append(@, item)]
Deq(n, f)            == [q EXCEPT ![n][f] = Tail(@)]
Move(n, f, g, item)  == [q EXCEPT ![n][f] = Tail(@), ![n][g] = Append(@, item)]

\* What an entry of the BRAM holds before it is first written.
NoEntry == [src |-> -1, origTag |-> -1]

SplitterInit ==
  LET none == [n \in Node |-> << >>]
  IN /\ initTagCnt = [n \in Node |-> 0]
     /\ freeTagQ = none /\ freeTagRdQ = none /\ freeTagAckQ = none
     /\ tagTable = [n \in Node |-> [t \in Tag |-> NoEntry]]
     /\ burstCnt = [n \in Node |-> [t \in Tag |-> 0]]
     /\ q = [n \in Node |-> [f \in SizedQ \cup PlainQ |-> << >>]]

Initialised(n) == initTagCnt[n] = NumTags

-----------------------------------------------------------------------------
\* Tags: filled in after reset, then recycled, those of reads first.
InitFreeTagQ(n) ==
  /\ ~Initialised(n)
  /\ Len(freeTagQ[n]) < NumTags
  /\ freeTagQ' = [freeTagQ EXCEPT ![n] = Append(@, initTagCnt[n])]
  /\ initTagCnt' = [initTagCnt EXCEPT ![n] = @ + 1]
  /\ UNCHANGED <<freeTagRdQ, freeTagAckQ, tagTable, burstCnt, q>>

\* Only the tags of reads are recycled.
RecycleTags_ReadsOnly(n) ==
  /\ Initialised(n)
  /\ Len(freeTagQ[n]) < NumTags
  /\ freeTagRdQ[n] # << >>
  /\ freeTagQ' = [freeTagQ EXCEPT ![n] = Append(@, Head(freeTagRdQ[n]))]
  /\ freeTagRdQ' = [freeTagRdQ EXCEPT ![n] = Tail(@)]
  /\ UNCHANGED <<initTagCnt, freeTagAckQ, tagTable, burstCnt, q>>

RecycleTags(n) ==
  /\ Initialised(n)
  /\ Len(freeTagQ[n]) < NumTags
  /\ \/ /\ freeTagRdQ[n] # << >>
        /\ freeTagQ' = [freeTagQ EXCEPT ![n] = Append(@, Head(freeTagRdQ[n]))]
        /\ freeTagRdQ' = [freeTagRdQ EXCEPT ![n] = Tail(@)]
        /\ UNCHANGED freeTagAckQ
     \/ /\ freeTagRdQ[n] = << >>
        /\ freeTagAckQ[n] # << >>
        /\ freeTagQ' = [freeTagQ EXCEPT ![n] = Append(@, Head(freeTagAckQ[n]))]
        /\ freeTagAckQ' = [freeTagAckQ EXCEPT ![n] = Tail(@)]
        /\ UNCHANGED freeTagRdQ
  /\ UNCHANGED <<initTagCnt, tagTable, burstCnt, q>>

\* A command for this flash trades its tag for a free one.
RenameTags(n) ==
  /\ Initialised(n)
  /\ NotEmpty(n, "locCmdInQ") /\ NotFull(n, "locCmdOutQ")
  /\ freeTagQ[n] # << >>
  /\ LET cmd == First(n, "locCmdInQ")
         freeTag == Head(freeTagQ[n])
     IN /\ tagTable' = [tagTable EXCEPT ![n][freeTag] =
                          [src |-> cmd.src, origTag |-> cmd.tag]]
        /\ q' = Move(n, "locCmdInQ", "locCmdOutQ", [cmd EXCEPT !.tag = freeTag])
  /\ freeTagQ' = [freeTagQ EXCEPT ![n] = Tail(@)]
  /\ UNCHANGED <<initTagCnt, freeTagRdQ, freeTagAckQ, burstCnt>>

\* Whether the word looked up is the last of its page; one word early.
LastOfPage_Early(n, t) == burstCnt[n][t] + 2 >= PageWords
LastOfPage(n, t)       == burstCnt[n][t] = PageWords - 1

\* Read words: the entry is read and the words of the page are counted one
\* rule before the word is sent on; the last word gives the tag back.
LookUpRData(n) ==
  /\ Initialised(n)
  /\ NotEmpty(n, "locRdInTagQ") /\ NotFull(n, "lookupQ")
  /\ LET ctag == First(n, "locRdInTagQ")
         last == LastOfPage(n, ctag)
     IN /\ q' = Move(n, "locRdInTagQ", "lookupQ",
                     [last |-> last, entry |-> tagTable[n][ctag]])
        /\ burstCnt' = [burstCnt EXCEPT ![n][ctag] = IF last THEN 0 ELSE @ + 1]
  /\ UNCHANGED <<tagVars, tagTable>>

RetagRData(n) ==
  /\ Initialised(n)
  /\ NotEmpty(n, "locRdInQ") /\ NotEmpty(n, "lookupQ")
  /\ LET word  == First(n, "locRdInQ")
         look  == First(n, "lookupQ")
         out   == IF look.entry.src = n THEN "locRdOutQ" ELSE "remRdOutQ"
         outWord == [word EXCEPT !.tag = look.entry.origTag, !.dst = look.entry.src]
     IN /\ NotFull(n, out)
        /\ q' = [q EXCEPT ![n]["locRdInQ"] = Tail(@), ![n]["lookupQ"] = Tail(@),
                          ![n][out] = Append(@, outWord)]
        /\ IF look.last
             THEN /\ Len(freeTagRdQ[n]) < RecycleDepth
                  /\ freeTagRdQ' = [freeTagRdQ EXCEPT ![n] = Append(@, word.tag)]
             ELSE UNCHANGED freeTagRdQ
  /\ UNCHANGED <<initTagCnt, freeTagQ, freeTagAckQ, tagTable, burstCnt>>

MergeRd(n) ==
  /\ NotEmpty(n, "remRdInQ") /\ NotFull(n, "locRdOutQ")
  /\ q' = Move(n, "remRdInQ", "locRdOutQ", First(n, "remRdInQ"))
  /\ UNCHANGED <<tagVars, tagTable, burstCnt>>

\* Write data goes to the node whose controller asked for it.
ForwardWdata(n) ==
  /\ Initialised(n)
  /\ NotEmpty(n, "locWdataInQ")
  /\ LET wd  == First(n, "locWdataInQ")
         out == IF wd.dst = n THEN "locWdataOutQ" ELSE "remWdataOutQ"
     IN NotFull(n, out) /\ q' = Move(n, "locWdataInQ", out, wd)
  /\ UNCHANGED <<tagVars, tagTable, burstCnt>>

\* The ack for the source of the command; an ack under the controller's tag.
AckFor_KeepsTag(in) ==
  [tag |-> in.tag, status |-> in.status, dst |-> in.entry.src]
AckFor(in) ==
  [tag |-> in.entry.origTag, status |-> in.status, dst |-> in.entry.src]

\* The tag given back is the one of the source.
ForwardAck_FreesOrigTag(n) ==
  /\ Initialised(n) /\ NotEmpty(n, "locAckInQ")
  /\ Len(freeTagAckQ[n]) < RecycleDepth
  /\ LET in  == First(n, "locAckInQ")
         out == IF in.entry.src = n THEN "locAckOutQ" ELSE "remAckOutQ"
     IN /\ NotFull(n, out)
        /\ q' = Move(n, "locAckInQ", out, AckFor(in))
        /\ freeTagAckQ' = [freeTagAckQ EXCEPT ![n] = Append(@, in.entry.origTag)]
  /\ UNCHANGED <<initTagCnt, freeTagQ, freeTagRdQ, tagTable, burstCnt>>

ForwardAck(n) ==
  /\ Initialised(n)
  /\ NotEmpty(n, "locAckInQ")
  /\ Len(freeTagAckQ[n]) < RecycleDepth
  /\ LET in  == First(n, "locAckInQ")
         out == IF in.entry.src = n THEN "locAckOutQ" ELSE "remAckOutQ"
     IN /\ NotFull(n, out)
        /\ q' = Move(n, "locAckInQ", out, AckFor(in))
        /\ freeTagAckQ' = [freeTagAckQ EXCEPT ![n] = Append(@, in.tag)]
  /\ UNCHANGED <<initTagCnt, freeTagQ, freeTagRdQ, tagTable, burstCnt>>

\* The request for the source of the command; its two tags interchanged.
WreqFor_SwapsTags(n, req) ==
  [origTag |-> req.reTag, reTag |-> req.entry.origTag, src |-> n, dst |-> req.entry.src]
WreqFor(n, req) ==
  [origTag |-> req.entry.origTag, reTag |-> req.reTag, src |-> n, dst |-> req.entry.src]

ForwardWreq(n) ==
  /\ Initialised(n)
  /\ NotEmpty(n, "locWreqInQ")
  /\ LET req == First(n, "locWreqInQ")
         out == IF req.entry.src = n THEN "locWreqOutQ" ELSE "remWreqOutQ"
     IN /\ NotFull(n, out)
        /\ q' = Move(n, "locWreqInQ", out, WreqFor(n, req))
  /\ UNCHANGED <<tagVars, tagTable, burstCnt>>

SplitterRule(n) ==
  \/ InitFreeTagQ(n) \/ RecycleTags(n) \/ RenameTags(n)
  \/ LookUpRData(n) \/ RetagRData(n) \/ MergeRd(n)
  \/ ForwardWdata(n) \/ ForwardAck(n) \/ ForwardWreq(n)

-----------------------------------------------------------------------------
\* Methods.  locFlashServ.sendCmd: the node's own commands.
LocServSendCmd(n, cmd) ==
  LET f == IF cmd.dst = n THEN "locCmdInQ" ELSE "remCmdOutQ"
  IN /\ NotFull(n, f)
     /\ q' = Enq(n, f, cmd)
     /\ UNCHANGED <<tagVars, tagTable, burstCnt>>

\* locFlashCli: the controller's read words, write data requests and acks;
\* the last two read the tag table at once.
LocCliReadWord(n, word) ==
  /\ NotFull(n, "locRdInQ") /\ NotFull(n, "locRdInTagQ")
  /\ q' = [q EXCEPT ![n]["locRdInQ"] = Append(@, word),
                    ![n]["locRdInTagQ"] = Append(@, word.tag)]
  /\ UNCHANGED <<tagVars, tagTable, burstCnt>>

LocCliWriteDataReq(n, reTag) ==
  /\ NotFull(n, "locWreqInQ")
  /\ q' = Enq(n, "locWreqInQ", [reTag |-> reTag, entry |-> tagTable[n][reTag]])
  /\ UNCHANGED <<tagVars, tagTable, burstCnt>>

LocCliAckStatus(n, tag, status) ==
  /\ NotFull(n, "locAckInQ")
  /\ q' = Enq(n, "locAckInQ",
              [tag |-> tag, status |-> status, entry |-> tagTable[n][tag]])
  /\ UNCHANGED <<tagVars, tagTable, burstCnt>>

\* The methods that only put into a FIFO or get from one.
Put(n, f, item) ==
  /\ NotFull(n, f)
  /\ q' = Enq(n, f, item)
  /\ UNCHANGED <<tagVars, tagTable, burstCnt>>

Get(n, f) ==
  /\ NotEmpty(n, f)
  /\ q' = Deq(n, f)
  /\ UNCHANGED <<tagVars, tagTable, burstCnt>>
=============================================================================
