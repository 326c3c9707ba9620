---------------------------- MODULE BusController ----------------------------
(***************************************************************************)
(* The bus controller of one NAND bus (mkBusController in                  *)
(* controller/src/hw_artix/BusController.bsv) with its scoreboard, after   *)
(* initialisation, and the NAND chips as far as the controller sees them.  *)
(* A sequence of PHY commands is one action; the PHY's timing and the ECC  *)
(* are left out, a 16 bit burst stands for a word of the page.  The        *)
(* contents of a page are named by the tag of the command that asked for   *)
(* it: the controller never looks at them.                                 *)
(***************************************************************************)
EXTENDS Scoreboard

CONSTANTS
  PageWords,      \* words of a page
  BusCmdDepth,    \* depth of flashCmdQ of the bus, 4
  EncodeDepth,    \* words between the write buffer and the chip, 40 and more
  ReadTagDepth,   \* depth of readTagQ, 8
  AckDepth        \* depth of ackQ, 16

ASSUME BusAssumption ==
  {PageWords, BusCmdDepth, EncodeDepth, ReadTagDepth, AckDepth} \subseteq Nat \ {0}
ASSUME EncodeAssumption == EncodeDepth <= PageWords

VARIABLES
  flashCmdQ,                   \* commands for the scoreboard
  state, chipR, cmdTagR,       \* what the bus is doing, for which chip and tag
  dataCnt,                     \* words moved in READ_DATA or WRITE_PAGE
  wrDataBufReqQ,               \* tags whose page is to be fetched
  wrDataTransReqQ,             \* pages to be moved to the bus
  ackQ,                        \* writes and erases done
  encodeQ,                     \* words on their way to the chip
  decodeInQ, decodeInBufQ,     \* words read, before and in the decoder
  readTagQ, rdWdCnt,           \* tags of the pages read, words given of the first
  nand                         \* chip -> busy, and what its page register holds

ctlVars  == <<state, chipR, cmdTagR, dataCnt>>
readVars == <<decodeInQ, decodeInBufQ, readTagQ, rdWdCnt>>
wrVars   == <<wrDataBufReqQ, wrDataTransReqQ, encodeQ>>
busVars  == <<flashCmdQ, ctlVars, readVars, wrVars, ackQ, nand>>

Word(t, i) == [tag |-> t, idx |-> i]
PageOf(t)  == [i \in 1 .. PageWords |-> Word(t, i - 1)]

DecodeInDepth    == PageWords + 1
DecodeInBufDepth == PageWords \div 2 + 1

BusInit ==
  /\ flashCmdQ = << >>
  /\ state = "IDLE" /\ chipR = 0 /\ cmdTagR = NoTag /\ dataCnt = 0
  /\ wrDataBufReqQ = << >> /\ wrDataTransReqQ = << >> /\ ackQ = << >>
  /\ encodeQ = << >> /\ decodeInQ = << >> /\ decodeInBufQ = << >>
  /\ readTagQ = << >> /\ rdWdCnt = 0
  /\ nand = [c \in Chip |-> [busy |-> FALSE, page |-> << >>]]

-----------------------------------------------------------------------------
DoSBCmd ==
  /\ flashCmdQ # << >>
  /\ CmdIn(Head(flashCmdQ))
  /\ flashCmdQ' = Tail(flashCmdQ)
  /\ UNCHANGED <<ctlVars, wrVars, ackQ, readVars, nand>>

\* The state each bus command is carried out in.
StateOf == [READ_CMD |-> "READ_PAGE_REQ", GET_STATUS_READ_DATA |-> "GET_STATUS",
            WRITE_DATA_BUF_REQ |-> "IDLE", WRITE_CMD_DATA |-> "WRITE_PAGE_WAIT",
            ERASE_CMD |-> "ERASE_BLOCK", WRITE_GET_STATUS |-> "WRITE_GET_STATUS",
            ERASE_GET_STATUS |-> "ERASE_GET_STATUS"]

DoDecodeCmd ==
  /\ state = "IDLE"
  /\ CmdOut
  /\ LET cmd == Head(cmdOutQ)
     IN /\ state' = StateOf[cmd.busOp]
        /\ chipR' = cmd.chip /\ cmdTagR' = cmd.tag
        /\ IF cmd.busOp = "WRITE_DATA_BUF_REQ"
             THEN /\ Len(wrDataBufReqQ) < NumChips
                  /\ wrDataBufReqQ' = Append(wrDataBufReqQ, cmd.tag)
             ELSE UNCHANGED wrDataBufReqQ
        /\ IF cmd.busOp = "WRITE_CMD_DATA"
             THEN /\ Len(wrDataTransReqQ) < NumChips
                  /\ wrDataTransReqQ' = Append(wrDataTransReqQ, 1)
             ELSE UNCHANGED wrDataTransReqQ
  /\ dataCnt' = 0
  /\ UNCHANGED <<flashCmdQ, ackQ, encodeQ, readVars, nand>>

\* doReadPageCmd, -Addr and -CmdDone: the chip fetches the page.  doEraseBlock:
\* it erases the block.
StartChip ==
  /\ state \in {"READ_PAGE_REQ", "ERASE_BLOCK"}
  /\ nand' = [nand EXCEPT ![chipR] =
       [busy |-> TRUE,
        page |-> IF state = "READ_PAGE_REQ" THEN PageOf(cmdTagR) ELSE << >>]]
  /\ state' = "IDLE"
  /\ UNCHANGED <<sbVars, flashCmdQ, chipR, cmdTagR, dataCnt, wrVars, ackQ,
                 readVars>>

\* A ready chip is read out after the poll of a read, and an ack follows the
\* poll of a write or an erase; without a look at the status polled.
ReadsOut_Always == state = "GET_STATUS"
ReadsOut == state = "GET_STATUS" /\ ~nand[chipR].busy
Acks_Always == state # "GET_STATUS"
Acks == state # "GET_STATUS" /\ ~nand[chipR].busy

\* doGetStatusOnlyCmd and doGetStatusData: one poll.
GetStatus ==
  /\ state \in {"GET_STATUS", "WRITE_GET_STATUS", "ERASE_GET_STATUS"}
  /\ BusyIn(chipR, nand[chipR].busy)
  /\ state' = IF ReadsOut THEN "READ_DATA_WAIT_BUF" ELSE "IDLE"
  /\ IF Acks
       THEN Len(ackQ) < AckDepth /\ ackQ' = Append(ackQ, cmdTagR)
       ELSE UNCHANGED ackQ
  /\ UNCHANGED <<flashCmdQ, chipR, cmdTagR, dataCnt, wrVars, readVars, nand>>

\* The chip is read out at once.
DoReadDataWaitBuf_NoWait ==
  /\ state = "READ_DATA_WAIT_BUF"
  /\ state' = "READ_DATA"
  /\ UNCHANGED <<sbVars, flashCmdQ, chipR, cmdTagR, dataCnt, wrVars, ackQ,
                 readVars, nand>>

\* The page register is read out when the decoder's queue is empty; the chip
\* cannot be stalled, so a full queue is an error.
DoReadDataWaitBuf ==
  /\ state = "READ_DATA_WAIT_BUF"
  /\ decodeInQ = << >>
  /\ state' = "READ_DATA"
  /\ UNCHANGED <<sbVars, flashCmdQ, chipR, cmdTagR, dataCnt, wrVars, ackQ,
                 readVars, nand>>

DoReadData ==
  /\ state = "READ_DATA"
  /\ dataCnt = 0 => Len(readTagQ) < ReadTagDepth
  /\ LET full == Len(decodeInQ) = DecodeInDepth
     IN /\ state' = IF full THEN "READ_ERROR"
                    ELSE IF dataCnt = PageWords - 1 THEN "IDLE" ELSE state
        /\ decodeInQ' = IF full THEN decodeInQ
                        ELSE Append(decodeInQ, nand[chipR].page[dataCnt + 1])
        /\ dataCnt' = IF full THEN dataCnt ELSE dataCnt + 1
        /\ readTagQ' = IF dataCnt = 0 /\ ~full THEN Append(readTagQ, cmdTagR) ELSE readTagQ
  /\ UNCHANGED <<sbVars, flashCmdQ, chipR, cmdTagR, wrVars, ackQ,
                 decodeInBufQ, rdWdCnt, nand>>

DoDecoderDataBuf ==
  /\ decodeInQ # << >>
  /\ Len(decodeInBufQ) < DecodeInBufDepth
  /\ decodeInBufQ' = Append(decodeInBufQ, Head(decodeInQ))
  /\ decodeInQ' = Tail(decodeInQ)
  /\ UNCHANGED <<sbVars, flashCmdQ, ctlVars, wrVars, ackQ, readTagQ,
                 rdWdCnt, nand>>

\* A page is written when the encoder's queue is full, so that the burst never
\* runs out of data; whether the encoder keeps up then is left out.
DoWriteDataWait ==
  /\ state = "WRITE_PAGE_WAIT"
  /\ Len(encodeQ) = EncodeDepth
  /\ state' = "WRITE_PAGE"
  /\ nand' = [nand EXCEPT ![chipR].page = << >>]
  /\ UNCHANGED <<sbVars, flashCmdQ, chipR, cmdTagR, dataCnt, wrVars, ackQ,
                 readVars>>

DoWritePageData ==
  /\ state = "WRITE_PAGE"
  /\ encodeQ # << >>
  /\ LET last == dataCnt = PageWords - 1
     IN /\ nand' = [nand EXCEPT ![chipR] =
                      [busy |-> last, page |-> Append(@.page, Head(encodeQ))]]
        /\ state' = IF last THEN "IDLE" ELSE state
  /\ encodeQ' = Tail(encodeQ)
  /\ dataCnt' = dataCnt + 1
  /\ UNCHANGED <<sbVars, flashCmdQ, chipR, cmdTagR, wrDataBufReqQ,
                 wrDataTransReqQ, ackQ, readVars>>

\* A chip becomes ready again.
NandReady(c) ==
  /\ nand[c].busy
  /\ nand' = [nand EXCEPT ![c].busy = FALSE]
  /\ UNCHANGED <<sbVars, flashCmdQ, ctlVars, wrVars, ackQ, readVars>>

\* The rules that tell each other apart by the state of the bus.
BusStep ==
  \/ DoDecodeCmd \/ StartChip \/ GetStatus \/ DoReadDataWaitBuf \/ DoReadData
  \/ DoWriteDataWait \/ DoWritePageData

BusRule ==
  \/ SBRule /\ UNCHANGED busVars
  \/ DoSBCmd \/ BusStep \/ DoDecoderDataBuf
  \/ \E c \in Chip : NandReady(c)

-----------------------------------------------------------------------------
\* Methods; the scoreboard's are passed on.
BusSendCmd(cmd) ==
  /\ Len(flashCmdQ) < BusCmdDepth
  /\ flashCmdQ' = Append(flashCmdQ, cmd)
  /\ UNCHANGED <<sbVars, ctlVars, wrVars, ackQ, readVars, nand>>

BusWriteDataBufReq ==
  /\ wrDataBufReqQ # << >>
  /\ wrDataBufReqQ' = Tail(wrDataBufReqQ)
  /\ UNCHANGED <<sbVars, flashCmdQ, ctlVars, wrDataTransReqQ, ackQ, encodeQ,
                 readVars, nand>>

BusWriteDataTransferReq ==
  /\ wrDataTransReqQ # << >>
  /\ wrDataTransReqQ' = Tail(wrDataTransReqQ)
  /\ UNCHANGED <<sbVars, flashCmdQ, ctlVars, wrDataBufReqQ, ackQ, encodeQ,
                 readVars, nand>>

BusWriteWord(word) ==
  /\ Len(encodeQ) < EncodeDepth
  /\ encodeQ' = Append(encodeQ, word)
  /\ UNCHANGED <<sbVars, flashCmdQ, ctlVars, wrDataBufReqQ, wrDataTransReqQ,
                 ackQ, readVars, nand>>

\* Whether the word given is the last of its page; one word late.
LastOfPage_Late == rdWdCnt = PageWords
LastOfPage == rdWdCnt = PageWords - 1

\* A word read, under the tag at the head of readTagQ, which goes after the
\* last word of a page.
BusReadWord ==
  /\ decodeInBufQ # << >> /\ readTagQ # << >>
  /\ decodeInBufQ' = Tail(decodeInBufQ)
  /\ IF LastOfPage
       THEN rdWdCnt' = 0 /\ readTagQ' = Tail(readTagQ)
       ELSE rdWdCnt' = rdWdCnt + 1 /\ UNCHANGED readTagQ
  /\ UNCHANGED <<sbVars, flashCmdQ, ctlVars, wrVars, ackQ, decodeInQ, nand>>

BusAckStatus ==
  /\ ackQ # << >>
  /\ ackQ' = Tail(ackQ)
  /\ UNCHANGED <<sbVars, flashCmdQ, ctlVars, wrVars, readVars, nand>>
=============================================================================
