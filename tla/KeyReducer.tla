------------------------------ MODULE KeyReducer ------------------------------
(***************************************************************************)
(* The board of simple_mapreduce behind its input queue.  A key has its    *)
(* context in the first slot of the DRAM, from its own number on, that is  *)
(* free or already its own.  The slots of new keys are collected in        *)
(* blocks; a block is written to a slot at the low end of the DRAM, a      *)
(* head.  When all keys are reduced, the heads are swept and the contexts  *)
(* they name are given to the host.                                        *)
(*                                                                         *)
(* A read looks at its slot when it is asked for, and answers come in      *)
(* order.  A Maybe register and a FIFO of one place are sequences.         *)
(***************************************************************************)
EXTENDS MapFeed, TLC

CONSTANT HeadSize  \* slots named by a head, 7 in the code

ASSUME HeadAssumption == HeadSize \in Nat \ {0}

VARIABLES
  rfQ,             \* keys in the mapper
  dram,            \* the slots that have been written
  answers,         \* slots read and not yet looked at
  ctx,             \* ctxReadKey, ctxReadOffset, ctxReqIdxQ, ctxHeadSearching
  dirty,           \* ctxDirtyBuf, ctxDirtyIdx, ctxDirtyQ, lastCtxHead
  reducing,        \* the context that is reduced
  totalReduceCnt,
  final            \* finalizeQ and the registers of the sweep

reducerVars == <<rfQ, dram, answers, ctx, dirty, reducing, totalReduceCnt, final>>

\* The depth of a mkFIFO.
TwoPlaces == 2

ReducerInit ==
  /\ rfQ = <<>> /\ dram = <<>> /\ answers = <<>> /\ reducing = <<>>
  /\ ctx = [key |-> <<>>, offset |-> 0, asked |-> <<>>, headSearching |-> FALSE]
  /\ dirty = [buf |-> [i \in 1 .. HeadSize |-> 0], idx |-> 0, q |-> <<>>, last |-> 0]
  /\ totalReduceCnt = 0
  /\ final = [q |-> 0, isFinalize |-> FALSE, sweepIdx |-> 0, asked |-> FALSE,
              buf |-> <<>>, bufIdx |-> 0, stage |-> 0]

\* What a slot holds: a context (0xfe), the slots of a head (0xfd), or nothing.
Context(k, n) == [magic |-> "context", key |-> k, count |-> n]
HeadOf(block) == [magic |-> "head", slots |-> block]
Slot(a)       == IF a \in DOMAIN dram THEN dram[a] ELSE [magic |-> "none"]

ReadReq(a)  == answers' = Append(answers, Slot(a))
Read        == answers # <<>> /\ answers' = Tail(answers)
Write(a, x) == dram' = (a :> x) @@ dram
-----------------------------------------------------------------------------
(* Keys are looked up and reduced, one after the other. *)

FeedMapper ==
  /\ mapHeaderQ # <<>> /\ Len(rfQ) < TwoPlaces
  /\ rfQ' = Append(rfQ, Head(mapHeaderQ))
  /\ mapHeaderQ' = Tail(mapHeaderQ)
  /\ mapHostUnchanged
  /\ UNCHANGED <<requests, indications, curInRequested, totalMapReq, dram, answers,
                 ctx, dirty, reducing, totalReduceCnt, final>>

\* The mapper makes a valid pair of every key.
RelayReducer ==
  /\ ctx.key = <<>> /\ rfQ # <<>>
  /\ ctx' = [ctx EXCEPT !.key = <<Head(rfQ)>>, !.offset = 0]
  /\ rfQ' = Tail(rfQ)
  /\ UNCHANGED <<portalVars, mapVars, dram, answers, dirty, reducing, totalReduceCnt, final>>

\* The last key may not have been written yet, and it may be the same one.
ReqCtxRead ==
  /\ ~final.isFinalize /\ ctx.key # <<>> /\ ctx.asked = <<>>
  /\ LET a == ctx.key[1] + ctx.offset
     IN  ReadReq(a) /\ ctx' = [ctx EXCEPT !.offset = @ + 1, !.asked = <<a>>]
  /\ UNCHANGED <<portalVars, mapVars, rfQ, dram, dirty, reducing, totalReduceCnt, final>>

\* No key is looked for any more, as after a head has been found.
Found == [key |-> <<>>, offset |-> 0, asked |-> <<>>, headSearching |-> FALSE]

\* Mutant: the search for a slot does not end.
RecvCtxHead_GoesOn ==
  /\ ~final.isFinalize /\ ctx.headSearching /\ ctx.asked # <<>> /\ Read
  /\ IF Head(answers).magic = "none"
       THEN /\ dirty.q # <<>>
            /\ Write(ctx.asked[1], HeadOf(Head(dirty.q)))
            /\ dirty' = [dirty EXCEPT !.q = Tail(@), !.last = ctx.asked[1]]
            /\ ctx' = [Found EXCEPT !.headSearching = TRUE]
       ELSE /\ ctx' = [ctx EXCEPT !.asked = <<>>]
            /\ UNCHANGED <<dram, dirty>>
  /\ UNCHANGED <<portalVars, mapVars, rfQ, reducing, totalReduceCnt, final>>

\* The search for a free slot for the next head.
RecvCtxHead ==
  /\ ~final.isFinalize /\ ctx.headSearching /\ ctx.asked # <<>> /\ Read
  /\ IF Head(answers).magic = "none"
       THEN /\ dirty.q # <<>>
            /\ Write(ctx.asked[1], HeadOf(Head(dirty.q)))
            /\ dirty' = [dirty EXCEPT !.q = Tail(@), !.last = ctx.asked[1]]
            /\ ctx' = Found
       ELSE /\ ctx' = [ctx EXCEPT !.asked = <<>>]
            /\ UNCHANGED <<dram, dirty>>
  /\ UNCHANGED <<portalVars, mapVars, rfQ, reducing, totalReduceCnt, final>>

\* A new key: its slot goes to the block, or, if that is full, the block to a
\* head without it.
NewKey(a) ==
  IF dirty.idx + 1 >= HeadSize
    THEN /\ Len(dirty.q) < TwoPlaces
         /\ dirty' = [dirty EXCEPT !.q = Append(@, dirty.buf), !.idx = 0]
         /\ ctx' = [Found EXCEPT !.key = <<dirty.last + 1>>, !.headSearching = TRUE]
    ELSE /\ dirty' = [dirty EXCEPT !.buf = [@ EXCEPT ![dirty.idx + 1] = a], !.idx = @ + 1]
         /\ ctx' = Found

\* reduceThrottleQ lets one key at a time through the reducer.
RecvCtxRead ==
  /\ ~final.isFinalize /\ ~ctx.headSearching /\ ctx.asked # <<>> /\ Read
  /\ LET a == ctx.asked[1]
         d == Head(answers)
         k == ctx.key[1]
         ours == d.magic = "context" /\ d.key = k
     IN  IF ours \/ d.magic = "none"
           THEN /\ reducing = <<>>
                /\ reducing' = <<[slot |-> a, key |-> k, count |-> IF ours THEN d.count ELSE 0]>>
                /\ IF ours THEN ctx' = Found /\ UNCHANGED dirty ELSE NewKey(a)
           ELSE /\ ctx' = [ctx EXCEPT !.asked = <<>>]
                /\ UNCHANGED <<dirty, reducing>>
  /\ UNCHANGED <<portalVars, mapVars, rfQ, dram, totalReduceCnt, final>>

\* The reducer counts; its result is never valid, so no word is sent.
GetReducerResult ==
  /\ reducing # <<>>
  /\ LET r == reducing[1] IN Write(r.slot, Context(r.key, r.count + 1))
  /\ reducing' = <<>> /\ totalReduceCnt' = totalReduceCnt + 1
  /\ UNCHANGED <<portalVars, mapVars, rfQ, answers, ctx, dirty, final>>
-----------------------------------------------------------------------------
(* The end. *)

\* The block is queued as it is; it is written when another one is.
FinalizeRequest ==
  /\ Receive("finalize") /\ Len(dirty.q) < TwoPlaces /\ final.q < TwoPlaces
  /\ dirty' = [dirty EXCEPT !.q = Append(@, dirty.buf)]
  /\ final' = [final EXCEPT !.q = @ + 1]
  /\ mapHostUnchanged
  /\ UNCHANGED <<indications, mapHeaderQ, curInRequested, totalMapReq,
                 rfQ, dram, answers, ctx, reducing, totalReduceCnt>>

\* Mutant: the sweep does not wait for the keys.
FinalizeD_AtOnce ==
  /\ final.q > 0
  /\ final' = [final EXCEPT !.q = @ - 1, !.isFinalize = TRUE]
  /\ UNCHANGED <<portalVars, mapVars, rfQ, dram, answers, ctx, dirty, reducing, totalReduceCnt>>

\* invalidMapCnt stays 0: the mapper makes no invalid pair.
FinalizeD ==
  /\ final.q > 0 /\ totalMapReq =< totalReduceCnt
  /\ final' = [final EXCEPT !.q = @ - 1, !.isFinalize = TRUE]
  /\ UNCHANGED <<portalVars, mapVars, rfQ, dram, answers, ctx, dirty, reducing, totalReduceCnt>>

\* finalizerThrottleQ lets one read of the sweep through at a time.
FinaliceR ==
  /\ final.isFinalize /\ final.sweepIdx =< dirty.last
  /\ final.buf = <<>> /\ final.stage = 0 /\ ~final.asked
  /\ ReadReq(final.sweepIdx)
  /\ final' = [final EXCEPT !.sweepIdx = @ + 1, !.asked = TRUE]
  /\ UNCHANGED <<portalVars, mapVars, rfQ, dram, ctx, dirty, reducing, totalReduceCnt>>

FinalizeC ==
  /\ final.isFinalize /\ final.stage = 0 /\ final.asked /\ Read
  /\ LET d == Head(answers)
     IN  final' = [final EXCEPT !.asked = FALSE,
                     !.buf = IF d.magic = "head" THEN <<d.slots>> ELSE @]
  /\ UNCHANGED <<portalVars, mapVars, rfQ, dram, ctx, dirty, reducing, totalReduceCnt>>

\* The slots of a head are read from its last place on.  finalStage is 1 as
\* long as finalizerSecondThrottleQ is full.
FinalSecond ==
  /\ final.isFinalize /\ final.buf # <<>> /\ final.stage = 0
  /\ LET d    == final.buf[1]
         more == final.bufIdx + 1 < HeadSize
     IN  /\ ReadReq(d[Len(d)])
         /\ final' = [final EXCEPT !.stage = 1,
              !.bufIdx = IF more THEN @ + 1 ELSE 0,
              !.buf = IF more THEN <<SubSeq(d, 1, Len(d) - 1)>> ELSE <<>>]
         /\ IF more /\ final.sweepIdx =< dirty.last
              THEN Indicate([kind |-> "mrDone"])
              ELSE UNCHANGED indications
  /\ mapHostUnchanged
  /\ UNCHANGED <<requests, mapHeaderQ, curInRequested, totalMapReq,
                 rfQ, dram, ctx, dirty, reducing, totalReduceCnt>>

\* The final reducer tells the host the keys it has counted twice or more.
FinalSecondR ==
  /\ final.isFinalize /\ final.stage = 1 /\ Read
  /\ final' = [final EXCEPT !.stage = 0]
  /\ LET d == Head(answers)
     IN  IF d.magic = "context" /\ d.count > 1
           THEN Indicate([kind |-> "sendKey", key |-> d.key])
           ELSE UNCHANGED indications
  /\ mapHostUnchanged
  /\ UNCHANGED <<requests, mapHeaderQ, curInRequested, totalMapReq,
                 rfQ, dram, ctx, dirty, reducing, totalReduceCnt>>

ReducerRules ==
  \/ FeedMapper \/ RelayReducer \/ ReqCtxRead \/ RecvCtxHead \/ RecvCtxRead
  \/ GetReducerResult \/ FinalizeRequest \/ FinalizeD
  \/ FinaliceR \/ FinalizeC \/ FinalSecond \/ FinalSecondR

MapBoard == ((SendInReq \/ SendKey) /\ UNCHANGED reducerVars) \/ ReducerRules
=============================================================================
