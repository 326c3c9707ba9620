---------------------------- MODULE FlashInterface ----------------------------
(***************************************************************************)
(* The page interface of projects/test and its board: a write or a read    *)
(* takes a buffer and a unit of the command budget the board has granted.  *)
(* The budget is awaited in a loop under its mutex; buffers are looked up  *)
(* in one critical section and awaited in another, so that a broadcast     *)
(* between the two wakes nobody.                                           *)
(***************************************************************************)
EXTENDS Portal, FiniteSetsExt

CONSTANTS
  BufferWays,     \* WRITE_BUFFER_WAYS: write buffers per channel, 16 in the code
  WriteBuffers,   \* WRITE_BUFFER_COUNT, 64 in the code
  ReadBuffers,    \* READ_BUFFER_COUNT, 128 in the code
  CmdGrant,       \* commands granted at a time, 32 in the code
  CmdLevel,       \* more are granted below this level, 80 in the code
  CmdQSize        \* places of flashCmdQ, 128 in the code

ASSUME InterfaceAssumption ==
  /\ {BufferWays, WriteBuffers, ReadBuffers, CmdGrant, CmdLevel, CmdQSize} \subseteq Nat
  /\ CmdLevel + CmdGrant =< CmdQSize

FlashOp == {"write", "read"}

VARIABLES
  bufferBusy,           \* the flags of srcBufferBusy and dstBufferBusy that are set
  bufidx,               \* the buffer the main thread has taken
  curInFlight,          \* curWritesInFlight and curReadsInFlight
  curCmdCountBudget,
  flashCmdQ,            \* commands the board has received
  dmaReadThrottleQ,     \* the command the board works on: one place
  writeDoneIndicationQ, \* buffers read into, the host still to be told
  numReqsRequested,     \* commands granted and not received
  started

interfaceVars == <<bufferBusy, bufidx, curInFlight, curCmdCountBudget, flashCmdQ,
                   dmaReadThrottleQ, writeDoneIndicationQ, numReqsRequested, started>>

\* A write takes a buffer of its channel, a read any buffer.
BuffersFor(s) ==
  IF s.op = "write" THEN (BufferWays * s.channel) .. (BufferWays * (s.channel + 1) - 1)
                    ELSE 0 .. (ReadBuffers - 1)

\* Where the flag of buffer i is.  dstBufferBusy has WRITE_BUFFER_COUNT flags; what
\* comes after them is whatever the linker put there, perhaps srcBufferBusy.
Flags(o, i) ==
  IF o = "read" /\ i >= WriteBuffers /\ program.behind = "srcBufferBusy"
    THEN <<"write", i - WriteBuffers>> ELSE <<o, i>>

PageOf(o, c) == <<[do |-> "waitIdleBuffer", op |-> o, channel |-> c], [do |-> "issue", op |-> o]>>

\* write_test and read_test: n pages on each of the channels, then the drain.
PagesTest(o, n, channels) ==
  [i \in 1 .. (2 * n * channels) |->
     PageOf(o, (((i - 1) \div 2) % channels))[((i - 1) % 2) + 1]]
    \o <<[do |-> "drain", op |-> o]>>

\* The buffers are filled, the board is started, and pages are written and read.
FlashTestMain(n, channels) ==
  <<[do |-> "fill"], [do |-> "send", req |-> [kind |-> "startFlash"]]>>
    \o PagesTest("write", n, channels) \o PagesTest("read", n, channels)

InterfaceInit ==
  /\ bufferBusy = {} /\ bufidx = 0
  /\ curInFlight = [o \in FlashOp |-> 0]
  /\ curCmdCountBudget = 0
  /\ flashCmdQ = <<>> /\ dmaReadThrottleQ = <<>> /\ writeDoneIndicationQ = <<>>
  /\ numReqsRequested = 0 /\ started = FALSE
-----------------------------------------------------------------------------
interfaceBoardUnchanged ==
  UNCHANGED <<flashCmdQ, dmaReadThrottleQ, writeDoneIndicationQ, numReqsRequested, started>>

\* main writes to every buffer.  flashifc_alloc has cleared the flags of ReadBuffers
\* buffers: if pointers to buffers come after the array, the first are now null.
DoFill ==
  /\ Doing("fill")
  /\ IF program.behind = "pointers" THEN at' = "crashed" /\ UNCHANGED script
                                    ELSE Proceed /\ UNCHANGED at
  /\ UNCHANGED <<program, requests, indications, handler, raced, misprinted, interfaceVars>>

\* waitIdleWriteBuffer, waitIdleReadBuffer: look; if there is none, wait; look again.
DoWaitIdleBuffer ==
  /\ Doing("waitIdleBuffer")
  /\ LET free == {i \in BuffersFor(Step) : Flags(Step.op, i) \notin bufferBusy}
     IN  \/ /\ at = "start" /\ free # {}
            /\ bufidx' = Min(free)
            /\ bufferBusy' = bufferBusy \cup {Flags(Step.op, Min(free))}
            /\ Proceed /\ UNCHANGED at
         \/ /\ at = "start" /\ free = {}
            /\ at' = "beforeWait" /\ UNCHANGED <<script, bufidx, bufferBusy>>
         \/ /\ at = "beforeWait"
            /\ at' = "asleep" /\ UNCHANGED <<script, bufidx, bufferBusy>>
  /\ interfaceBoardUnchanged
  /\ UNCHANGED <<program, requests, indications, handler, raced, misprinted,
                 curInFlight, curCmdCountBudget>>

\* writePage, readPage: budget, count, request.
DoIssue ==
  /\ Doing("issue")
  /\ \/ /\ at = "start" /\ curCmdCountBudget > 0
        /\ curCmdCountBudget' = curCmdCountBudget - 1
        /\ at' = "count" /\ UNCHANGED <<script, requests, curInFlight>>
     \/ /\ at = "count"
        /\ curInFlight' = [curInFlight EXCEPT ![Step.op] = @ + 1]
        /\ at' = "send" /\ UNCHANGED <<script, requests, curCmdCountBudget>>
     \/ /\ at = "send"
        /\ Request([kind |-> "flash", op |-> Step.op, buf |-> bufidx])
        /\ at' = "start" /\ Proceed /\ UNCHANGED <<curInFlight, curCmdCountBudget>>
  /\ interfaceBoardUnchanged
  /\ UNCHANGED <<program, indications, handler, raced, misprinted, bufferBusy, bufidx>>

\* The loops at the end of write_test and read_test.
DoDrain ==
  /\ Doing("drain") /\ curInFlight[Step.op] = 0 /\ Proceed
  /\ UNCHANGED <<program, at, requests, indications, handler, raced, misprinted, interfaceVars>>

InterfaceMain == DoFill \/ DoWaitIdleBuffer \/ DoIssue \/ DoDrain
-----------------------------------------------------------------------------
\* writeDone and readDone: the broadcast wakes only who sleeps already.
FlashDone ==
  /\ Handle("flashDone")
  /\ curInFlight' = [curInFlight EXCEPT ![Indication.op] = @ - 1]
  /\ bufferBusy' = bufferBusy \ {Flags(Indication.op, Indication.buf)}
  /\ at' = IF at = "asleep" THEN "start" ELSE at
  /\ raced' = (raced \/ at = "beforeWait")
  /\ interfaceBoardUnchanged
  /\ UNCHANGED <<program, script, requests, handler, misprinted, bufidx, curCmdCountBudget>>

\* Mutant: a grant replaces what is left of the last one.
ReqFlashCmd_Overwrites ==
  /\ Handle("reqFlashCmd")
  /\ curCmdCountBudget' = CmdGrant
  /\ interfaceBoardUnchanged
  /\ UNCHANGED <<program, script, at, requests, handler, raced, misprinted,
                 bufferBusy, bufidx, curInFlight>>

ReqFlashCmd ==
  /\ Handle("reqFlashCmd")
  /\ curCmdCountBudget' = curCmdCountBudget + CmdGrant
  /\ interfaceBoardUnchanged
  /\ UNCHANGED <<program, script, at, requests, handler, raced, misprinted,
                 bufferBusy, bufidx, curInFlight>>

\* hexDump only prints.
HexDump ==
  /\ Handle("hexDump")
  /\ UNCHANGED <<program, script, at, requests, handler, raced, misprinted, interfaceVars>>

InterfacePortal == FlashDone \/ ReqFlashCmd \/ HexDump
-----------------------------------------------------------------------------
interfaceHostUnchanged ==
  UNCHANGED <<program, script, at, handler, raced, misprinted,
              bufferBusy, bufidx, curInFlight, curCmdCountBudget>>

\* start of the board, with the host as the source of its data.
StartFlash ==
  /\ Receive("startFlash") /\ started' = TRUE
  /\ Indicate([kind |-> "hexDump"])
  /\ interfaceHostUnchanged
  /\ UNCHANGED <<flashCmdQ, dmaReadThrottleQ, writeDoneIndicationQ, numReqsRequested>>

\* Mutant: commands that are granted and on their way are not counted.
DriveNewReqs_IgnoresGranted ==
  /\ started /\ Len(flashCmdQ) < CmdLevel
  /\ Indicate([kind |-> "reqFlashCmd"])
  /\ numReqsRequested' = numReqsRequested + CmdGrant
  /\ interfaceHostUnchanged
  /\ UNCHANGED <<requests, flashCmdQ, dmaReadThrottleQ, writeDoneIndicationQ, started>>

\* curReqsInQ is the length of flashCmdQ.
DriveNewReqs ==
  /\ started /\ Len(flashCmdQ) + numReqsRequested < CmdLevel
  /\ Indicate([kind |-> "reqFlashCmd"])
  /\ numReqsRequested' = numReqsRequested + CmdGrant
  /\ interfaceHostUnchanged
  /\ UNCHANGED <<requests, flashCmdQ, dmaReadThrottleQ, writeDoneIndicationQ, started>>

\* readPage and writePage.
TakeCmd ==
  /\ Receive("flash") /\ Len(flashCmdQ) < CmdQSize
  /\ flashCmdQ' = Append(flashCmdQ, [op |-> Head(requests).op, buf |-> Head(requests).buf])
  /\ numReqsRequested' = numReqsRequested - 1
  /\ interfaceHostUnchanged
  /\ UNCHANGED <<indications, dmaReadThrottleQ, writeDoneIndicationQ, started>>

\* The next command is begun when the last has given dmaReadThrottleQ free.  The
\* storage bridge, which moves the page between board and host, is left out.
DriveFlashCmd ==
  /\ started /\ flashCmdQ # <<>> /\ dmaReadThrottleQ = <<>>
  /\ dmaReadThrottleQ' = <<Head(flashCmdQ)>>
  /\ flashCmdQ' = Tail(flashCmdQ)
  /\ interfaceHostUnchanged
  /\ UNCHANGED <<requests, indications, writeDoneIndicationQ, numReqsRequested, started>>

Told(o, b) == Indicate([kind |-> "flashDone", op |-> o, buf |-> b])

\* A page read is in the host's memory: the next command may begin before the
\* host is told.
DmaWriteDoneCheck ==
  /\ dmaReadThrottleQ # <<>> /\ dmaReadThrottleQ[1].op = "read"
  /\ Len(writeDoneIndicationQ) < 2
  /\ writeDoneIndicationQ' = Append(writeDoneIndicationQ, dmaReadThrottleQ[1].buf)
  /\ dmaReadThrottleQ' = <<>>
  /\ interfaceHostUnchanged
  /\ UNCHANGED <<requests, indications, flashCmdQ, numReqsRequested, started>>

\* readDone
FlushDmaWriteDone ==
  /\ writeDoneIndicationQ # <<>> /\ Told("read", Head(writeDoneIndicationQ))
  /\ writeDoneIndicationQ' = Tail(writeDoneIndicationQ)
  /\ interfaceHostUnchanged
  /\ UNCHANGED <<requests, flashCmdQ, dmaReadThrottleQ, numReqsRequested, started>>

\* writeDone: a page to be written has been read from the host's memory.
DriveDmaReadDone ==
  /\ dmaReadThrottleQ # <<>> /\ dmaReadThrottleQ[1].op = "write"
  /\ Told("write", dmaReadThrottleQ[1].buf)
  /\ dmaReadThrottleQ' = <<>>
  /\ interfaceHostUnchanged
  /\ UNCHANGED <<requests, flashCmdQ, writeDoneIndicationQ, numReqsRequested, started>>

InterfaceBoard ==
  \/ StartFlash \/ DriveNewReqs \/ TakeCmd \/ DriveFlashCmd
  \/ DmaWriteDoneCheck \/ FlushDmaWriteDone \/ DriveDmaReadDone
=============================================================================
