--------------------------- MODULE FlashController ---------------------------
(***************************************************************************)
(* One bus of the flash controller (mkFlashController in                   *)
(* controller/src/hw_artix/FlashController.bsv): its two write page        *)
(* buffers, the bus controller, and the user.  The buses share only FIFOs  *)
(* to and from the user, which keep the order of a bus and are left out.   *)
(* writePageBufDepth is PageWords: a buffer holds one page.                *)
(***************************************************************************)
EXTENDS BusController

CONSTANT Jobs   \* what the user asks for: <<tag, operation, chip>>

ASSUME JobAssumption ==
  Jobs \subseteq Tag \X {"READ_PAGE", "WRITE_PAGE", "ERASE_BLOCK"} \X Chip

VARIABLES
  writePageBufBack, writePageBufFront,   \* the page fetched, the page to go
  writeWordCnt, writeFetchSt,            \* words fetched, a fetch is going on
  wrState, wdataCnt,                     \* a page is moved to the bus, its words
  ctrl                                   \* what the user knows of each tag

bufVars == <<writePageBufBack, writePageBufFront, writeWordCnt, writeFetchSt,
             wrState, wdataCnt>>
vars == <<sbVars, busVars, bufVars, ctrl>>

User == INSTANCE FlashCtrlUser

Init ==
  /\ SBInit /\ BusInit /\ User!Init
  /\ writePageBufBack = << >> /\ writePageBufFront = << >>
  /\ writeWordCnt = 0 /\ writeFetchSt = 0
  /\ wrState = 0 /\ wdataCnt = 0

FrontFull == Len(writePageBufFront) = PageWords

-----------------------------------------------------------------------------
\* The user sends a command under a tag it does not use (doIdleAcceptCmd).
SendCmd(t, op, c) ==
  /\ User!SendCmd(t, op)
  /\ BusSendCmd([tag |-> t, op |-> op, chip |-> c])
  /\ UNCHANGED bufVars

\* doHandleWriteDataReqFromBus: one page is fetched at a time.
DoHandleWriteDataReq ==
  /\ writePageBufBack = << >> /\ writeWordCnt = 0 /\ writeFetchSt = 0
  /\ BusWriteDataBufReq
  /\ LET t == Head(wrDataBufReqQ)
     IN ctrl' = [ctrl EXCEPT ![t].asked = TRUE]
  /\ writeFetchSt' = 1
  /\ UNCHANGED <<writePageBufBack, writePageBufFront, writeWordCnt, wrState, wdataCnt>>

FetchEnds == writeWordCnt = PageWords - 1 /\ writeFetchSt = 1

DoWriteFetchWait ==
  /\ FetchEnds
  /\ writeFetchSt' = 0
  /\ UNCHANGED <<sbVars, busVars, writePageBufBack, writePageBufFront,
                 writeWordCnt, wrState, wdataCnt, ctrl>>

\* The user writes the next word of a page it was asked for.  The rule
\* doWriteFetchWait fires in the clock it is enabled in, so it comes first.
WriteWord(t) ==
  /\ ~FetchEnds
  /\ User!WriteWord(t)
  /\ Len(writePageBufBack) < PageWords
  /\ writePageBufBack' = Append(writePageBufBack, Word(t, ctrl[t].cnt))
  /\ writeWordCnt' = IF writeWordCnt = PageWords - 1 THEN 0 ELSE writeWordCnt + 1
  /\ UNCHANGED <<sbVars, busVars, writePageBufFront, writeFetchSt, wrState, wdataCnt>>

DoWriteBufTransfer ==
  /\ writePageBufBack # << >>
  /\ Len(writePageBufFront) < PageWords
  /\ writePageBufFront' = Append(writePageBufFront, Head(writePageBufBack))
  /\ writePageBufBack' = Tail(writePageBufBack)
  /\ UNCHANGED <<sbVars, busVars, writeWordCnt, writeFetchSt, wrState, wdataCnt, ctrl>>

\* setWriteDataRdy and setWriteDataReg: two registers that fire every clock;
\* the scoreboard sees the tag of a full front buffer a little later.
ReadyTag == IF FrontFull THEN Head(writePageBufFront).tag ELSE NoTag
Settled  == wdataRdy = ReadyTag

SetWriteDataRdy ==
  /\ ~Settled
  /\ SetWdataRdy(ReadyTag)
  /\ UNCHANGED <<busVars, bufVars, ctrl>>

\* The count of the last page is kept.
DoWriteDataTransferReq_KeepsCount ==
  /\ FrontFull /\ wrState = 0
  /\ BusWriteDataTransferReq
  /\ wrState' = 1
  /\ UNCHANGED <<writePageBufBack, writePageBufFront, writeWordCnt, writeFetchSt,
                 wdataCnt, ctrl>>

DoWriteDataTransferReq ==
  /\ FrontFull /\ wrState = 0
  /\ BusWriteDataTransferReq
  /\ wrState' = 1 /\ wdataCnt' = 0
  /\ UNCHANGED <<writePageBufBack, writePageBufFront, writeWordCnt, writeFetchSt, ctrl>>

DoWriteDataTransferToBus ==
  /\ wrState = 1
  /\ IF wdataCnt < PageWords
       THEN /\ writePageBufFront # << >>
            /\ BusWriteWord(Head(writePageBufFront))
            /\ writePageBufFront' = Tail(writePageBufFront)
            /\ wdataCnt' = wdataCnt + 1 /\ UNCHANGED wrState
       ELSE /\ wrState' = 0
            /\ UNCHANGED <<sbVars, busVars, writePageBufFront, wdataCnt>>
  /\ UNCHANGED <<writePageBufBack, writeWordCnt, writeFetchSt, ctrl>>

\* readWord and ackStatus of the user's interface.  An ack takes more clocks
\* than the two registers of the ready tag.
ReadWord ==
  /\ BusReadWord
  /\ LET t == Head(readTagQ)
     IN ctrl' = IF ctrl[t].cnt = PageWords - 1 THEN [ctrl EXCEPT ![t] = User!Free]
                ELSE [ctrl EXCEPT ![t].cnt = @ + 1]
  /\ UNCHANGED bufVars

AckStatus ==
  /\ Settled
  /\ BusAckStatus
  /\ ctrl' = [ctrl EXCEPT ![Head(ackQ)] = User!Free]
  /\ UNCHANGED bufVars

-----------------------------------------------------------------------------
ControllerRule ==
  \/ BusRule /\ UNCHANGED <<bufVars, ctrl>>
  \/ DoHandleWriteDataReq \/ DoWriteFetchWait \/ DoWriteBufTransfer
  \/ SetWriteDataRdy \/ DoWriteDataTransferReq \/ DoWriteDataTransferToBus

Next ==
  \/ \E job \in Jobs : SendCmd(job[1], job[2], job[3])
  \/ \E t \in Tag : WriteWord(t)
  \/ ControllerRule \/ ReadWord \/ AckStatus

Spec == Init /\ [][Next]_vars

\* A rule of the hardware fires in the clock it is enabled in, unless a rule
\* that conflicts with it does (those are one disjunct here); chips become
\* ready, and the user answers what it is asked.
Fairness ==
  /\ WF_vars((DoChooseChip \/ DoServiceReq) /\ UNCHANGED <<busVars, bufVars, ctrl>>)
  /\ \A c \in Chip :
       /\ WF_vars(DecBusyTimer(c) /\ UNCHANGED <<busVars, bufVars, ctrl>>)
       /\ WF_vars(NandReady(c) /\ UNCHANGED <<bufVars, ctrl>>)
  /\ WF_vars(DoSBCmd /\ UNCHANGED <<bufVars, ctrl>>)
  /\ WF_vars(BusStep /\ UNCHANGED <<bufVars, ctrl>>)
  /\ WF_vars(DoDecoderDataBuf /\ UNCHANGED <<bufVars, ctrl>>)
  /\ WF_vars(DoHandleWriteDataReq) /\ WF_vars(DoWriteFetchWait)
  /\ WF_vars(DoWriteBufTransfer) /\ WF_vars(SetWriteDataRdy)
  /\ WF_vars(DoWriteDataTransferReq) /\ WF_vars(DoWriteDataTransferToBus)
  /\ \A t \in Tag : WF_vars(WriteWord(t))
  /\ WF_vars(ReadWord) /\ WF_vars(AckStatus)
FairSpec == Spec /\ Fairness

-----------------------------------------------------------------------------
TypeOK ==
  /\ chipStages \in [Chip -> {"INIT", "RD_ISSUED", "RD_DATA", "WR_BUF_REQ_ISSUED",
                              "WR_ISSUED", "ER_ISSUED", "WAIT_STATUS"}]
  /\ \A c \in Chip : Len(chipQs[c]) <= ChipQDepth /\ Len(chipBusy[c]) <= FifoDepth
  /\ busyTimers \in [Chip -> 0 .. 1] /\ currChip \in Chip /\ wdataRdy \in Tag \cup {NoTag}
  /\ chipR \in Chip /\ cmdTagR \in Tag \cup {NoTag} /\ dataCnt \in 0 .. PageWords
  /\ Len(encodeQ) <= EncodeDepth /\ Len(decodeInQ) <= DecodeInDepth
  /\ writeWordCnt \in 0 .. PageWords - 1 /\ wdataCnt \in 0 .. PageWords

\* NAND protocol: a chip is never given an operation, nor read out, while it
\* is busy, and what is read out is the page that the command asked for, not
\* one a later command of the scoreboard put into the register.
ChipsAreReady ==
  state \in {"READ_PAGE_REQ", "ERASE_BLOCK", "WRITE_PAGE_WAIT", "WRITE_PAGE",
             "READ_DATA_WAIT_BUF", "READ_DATA"} =>
    /\ ~nand[chipR].busy
    /\ state \in {"READ_DATA_WAIT_BUF", "READ_DATA"} => nand[chipR].page = PageOf(cmdTagR)

\* The page a chip is programmed with is the page of its own command, word by
\* word, although data and commands reach the bus separately and the token
\* that starts the transfer carries no tag.
ProgramsOwnPage ==
  state = "WRITE_PAGE" =>
    nand[chipR].page = SubSeq(PageOf(cmdTagR), 1, dataCnt)

\* The decoder's queue never overflows while a chip is read out.
NoReadError == state # "READ_ERROR"

\* Words read leave under the tag of their own page, in order.
WordsKeepTheirTag ==
  decodeInBufQ # << >> =>
    /\ readTagQ # << >>
    /\ LET t == Head(readTagQ)
       IN Head(decodeInBufQ) = Word(t, ctrl[t].cnt) /\ ctrl[t].op = "READ_PAGE"

\* A chip never has two statuses to look at, nor a page asked for twice: the
\* queues for them cannot fill up and block the bus.
QueuesNeverBlock ==
  /\ \A c \in Chip : Len(chipBusy[c]) < FifoDepth
  /\ state = "IDLE" /\ cmdOutQ # << >> =>
       Len(wrDataBufReqQ) < NumChips /\ Len(wrDataTransReqQ) < NumChips

\* The controller keeps its promise to the user.
UserSpec == User!Spec

\* Every command is completed: no chip keeps the scoreboard, the bus or the
\* write buffers from the others for ever.
Completes == \A t \in Tag : ctrl[t] # User!Free ~> ctrl[t] = User!Free
=============================================================================
