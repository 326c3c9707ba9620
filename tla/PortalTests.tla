------------------------------ MODULE PortalTests ------------------------------
(***************************************************************************)
(* The test programs whose main thread sends one request at a time and     *)
(* waits for the answer on a semaphore or a flag: the kernel module of     *)
(* flash_connectal and its predecessor, the matrix multiplication, the     *)
(* string search tests, and the I2C set-up of the flash emulation.         *)
(***************************************************************************)
EXTENDS Portal, SequencesExt

CONSTANTS
  SiRegs,    \* Si570 registers: strings, for 7 to 12
  MaxTries   \* reads of a register that answers 0xff, 16 in the code

Sem  == {"sglId", "conf", "nandSglId", "nandConf", "test", "search"}
Flag == {"i2cReadDone", "unlocked"}

\* Contents of a page or of a buffer, and values of an I2C register.
Content == {"zeros", "FFs", "pattern"}
RegValue == {"factory", "configured"} \X SiRegs
NoAnswer == <<"0xff", "bus">>

VARIABLES
  sem,          \* the semaphores
  flag,         \* i2cReadDone, and lock of the matrix program
  i2cReadData,  \* the last I2C answer
  flashPage,    \* what the pages of the block under test hold
  readBuffer,   \* the buffer of tag 0
  siReg,        \* the registers of the Si570
  found,        \* the positions reported by the string search
  worker        \* the kernel module's own portal thread

testsVars == <<sem, flag, i2cReadData, flashPage, readBuffer, siReg, found, worker>>

\* Steps of a main thread.
Send(kind)  == <<[do |-> "send", req |-> [kind |-> kind]]>>
Wait(s)     == <<[do |-> "wait", sem |-> s]>>
Call(kind, s) == Send(kind) \o Wait(s)
Show(want)  == <<[do |-> "print", want |-> want]>>
Stop        == <<[do |-> "stop"]>>
OnPage(kind, p) == <<[do |-> "send", req |-> [kind |-> kind, page |-> p]]>> \o Wait("test")

\* dma->reference() of the portal library, for a buffer in host memory.
DmaReference == Call("idRequest", "sglId") \o Call("sglist", "conf")

\* The two buffers are registered, the device is started and dumped twice, then
\* a block is erased and page p read, written and read again.
FlashTest(p) ==
  DmaReference \o DmaReference \o Send("start") \o Send("setDebugVals")
    \o Call("debugDumpReq", "test") \o Call("debugDumpReq", "test")
    \o Call("eraseBlock", "test")
    \o OnPage("readPage", p) \o Show("FFs")
    \o OnPage("writePage", p) \o OnPage("readPage", p) \o Show("pattern")

KernelMain == FlashTest(1) \o Stop
KernelOldMain == FlashTest(0) \o Stop

MatrixMain ==
  DmaReference \o DmaReference
    \o <<[do |-> "clear", flag |-> "unlocked"]>> \o Send("setMatrixSize")
    \o <<[do |-> "spin", flag |-> "unlocked"]>>

\* References to the needle, its table and the haystack, then setup and search
\* at once and a single wait.
StrstrMain ==
  DmaReference \o DmaReference
    \o Call("nandIdRequest", "nandSglId") \o Call("nandSglist", "nandConf")
    \o Send("setup") \o Send("search") \o Wait("search")

\* bak/test.cpp differs in the needle only.
StrstrBakMain == StrstrMain

\* i2cRead, and what its caller does with the answer of the c-th call.
I2cRead(r, c) ==
  <<[do |-> "clear", flag |-> "i2cReadDone"],
    [do |-> "send", req |-> [kind |-> "i2cRead", reg |-> r]],
    [do |-> "spin", flag |-> "i2cReadDone"],
    [do |-> "tryAgain", reg |-> r, tries |-> c]>>

I2cWrite(r) == <<[do |-> "send", req |-> [kind |-> "i2cWrite", reg |-> r]]>>

\* platform() of the flash emulation, for registers rs: the switches, the
\* registers as they are, their new values and the registers again, and
\* auroraStatus for ever.
FlashemulMain(rs) ==
  LET reads  == FlattenSeq([i \in DOMAIN rs |-> I2cRead(rs[i], 1)])
      writes == FlattenSeq([i \in DOMAIN rs |-> I2cWrite(rs[i])])
  IN  I2cWrite("switch") \o reads \o I2cWrite("freeze") \o writes
        \o I2cWrite("unfreeze") \o Send("resetAurora") \o Send("start") \o reads
        \o <<[do |-> "status"]>>

TestsInit ==
  /\ sem = [s \in Sem |-> 0]
  /\ flag = [f \in Flag |-> FALSE]
  /\ i2cReadData = NoAnswer
  /\ flashPage = [p \in 0 .. 1 |-> "zeros"] /\ readBuffer = "zeros"
  /\ siReg = [r \in SiRegs |-> "factory"]
  /\ found = <<>>
  /\ worker = "running"
-----------------------------------------------------------------------------
(* The main thread. *)

mainUnchanged == UNCHANGED <<program, requests, indications, handler, raced>>

DoSend ==
  /\ Doing("send") /\ Request(Step.req) /\ Proceed
  /\ UNCHANGED <<program, at, indications, handler, raced, misprinted, testsVars>>

\* sem_wait
DoWait ==
  /\ Doing("wait") /\ sem[Step.sem] > 0 /\ Proceed
  /\ sem' = [sem EXCEPT ![Step.sem] = @ - 1]
  /\ mainUnchanged
  /\ UNCHANGED <<at, misprinted, flag, i2cReadData, flashPage, readBuffer, siReg, found, worker>>

DoClear ==
  /\ Doing("clear") /\ Proceed
  /\ flag' = [flag EXCEPT ![Step.flag] = FALSE]
  /\ mainUnchanged
  /\ UNCHANGED <<at, misprinted, sem, i2cReadData, flashPage, readBuffer, siReg, found, worker>>

DoSpin ==
  /\ Doing("spin") /\ flag[Step.flag] /\ Proceed
  /\ mainUnchanged
  /\ UNCHANGED <<at, misprinted, testsVars>>

DoPrint ==
  /\ Doing("print") /\ Proceed
  /\ misprinted' = (misprinted \/ readBuffer # Step.want)
  /\ mainUnchanged
  /\ UNCHANGED <<at, testsVars>>

\* A register that answers 0xff is read again, then printed as it is.
DoTryAgain ==
  /\ Doing("tryAgain")
  /\ IF i2cReadData = NoAnswer /\ Step.tries < MaxTries
       THEN /\ script' = I2cRead(Step.reg, Step.tries + 1) \o Tail(script)
            /\ UNCHANGED misprinted
       ELSE /\ Proceed
            /\ misprinted' =
                 (misprinted \/ i2cReadData \notin {NoAnswer, <<siReg[Step.reg], Step.reg>>})
  /\ mainUnchanged
  /\ UNCHANGED <<at, testsVars>>

\* kthread_stop, then wait_for_completion.
DoStop ==
  /\ Doing("stop")
  /\ \/ worker = "running" /\ worker' = "stopping" /\ UNCHANGED script
     \/ worker = "done" /\ Proceed /\ UNCHANGED worker
  /\ mainUnchanged
  /\ UNCHANGED <<at, misprinted, sem, flag, i2cReadData, flashPage, readBuffer, siReg, found>>

\* The endless loop: the next auroraStatus after the last has been answered.
DoStatus ==
  /\ Doing("status") /\ requests = <<>> /\ indications = <<>>
  /\ Request([kind |-> "auroraStatus"])
  /\ UNCHANGED <<program, script, at, indications, handler, raced, misprinted, testsVars>>

TestsMain ==
  \/ DoSend \/ DoWait \/ DoClear \/ DoSpin \/ DoPrint \/ DoTryAgain \/ DoStop \/ DoStatus
-----------------------------------------------------------------------------
(* The portal thread: the callbacks. *)

\* The semaphore each indication posts.
Posts ==
  [idResponse |-> "sglId", configResp |-> "conf", nandIdResponse |-> "nandSglId",
   nandConfigResp |-> "nandConf", readDone |-> "test", writeDone |-> "test",
   eraseDone |-> "test", debugDumpResp |-> "test"]

portalUnchanged == UNCHANGED <<program, script, at, requests, raced, misprinted>>

Post(s) == sem' = [sem EXCEPT ![s] = @ + 1]

Callback ==
  \E kind \in DOMAIN Posts :
    /\ Handle(kind) /\ Post(Posts[kind])
    /\ portalUnchanged
    /\ UNCHANGED <<handler, flag, i2cReadData, flashPage, readBuffer, siReg, found, worker>>

\* Mutant: the flag first, then the data.
I2cResult_FlagFirst ==
  /\ \/ /\ Handle("i2cResult")
        /\ flag' = [flag EXCEPT !["i2cReadDone"] = TRUE]
        /\ handler' = [pc |-> "i2cResult", arg |-> Indication.value]
        /\ UNCHANGED i2cReadData
     \/ /\ handler.pc = "i2cResult"
        /\ i2cReadData' = handler.arg
        /\ handler' = Idle
        /\ UNCHANGED <<indications, flag>>
  /\ portalUnchanged
  /\ UNCHANGED <<sem, flashPage, readBuffer, siReg, found, worker>>

\* The data first, then the flag.
I2cResult ==
  /\ \/ /\ Handle("i2cResult")
        /\ i2cReadData' = Indication.value
        /\ handler' = [pc |-> "i2cResult", arg |-> 0]
        /\ UNCHANGED flag
     \/ /\ handler.pc = "i2cResult"
        /\ flag' = [flag EXCEPT !["i2cReadDone"] = TRUE]
        /\ handler' = Idle
        /\ UNCHANGED <<indications, i2cReadData>>
  /\ portalUnchanged
  /\ UNCHANGED <<sem, flashPage, readBuffer, siReg, found, worker>>

\* finish of the matrix program: lock = 0.
FinishMatrix ==
  /\ Handle("finish")
  /\ flag' = [flag EXCEPT !["unlocked"] = TRUE]
  /\ portalUnchanged
  /\ UNCHANGED <<handler, sem, i2cReadData, flashPage, readBuffer, siReg, found, worker>>

SearchResult ==
  /\ Handle("searchResult")
  /\ IF Indication.v = -1
       THEN Post("search") /\ UNCHANGED found
       ELSE found' = Append(found, Indication.v) /\ UNCHANGED sem
  /\ portalUnchanged
  /\ UNCHANGED <<handler, flag, i2cReadData, flashPage, readBuffer, siReg, worker>>

\* rawWordTest only prints.
RawWordTest == Handle("rawWordTest") /\ portalUnchanged /\ UNCHANGED <<handler, testsVars>>

\* pthread_worker leaves its loop after a look at the indications.
WorkerExit ==
  /\ worker = "stopping" /\ handler = Idle
  /\ worker' = "done"
  /\ portalUnchanged
  /\ UNCHANGED <<indications, handler, sem, flag, i2cReadData, flashPage, readBuffer, siReg, found>>

TestsPortal ==
  \/ worker # "done"
       /\ (Callback \/ I2cResult \/ FinishMatrix \/ SearchResult \/ RawWordTest)
  \/ WorkerExit
-----------------------------------------------------------------------------
(* The boards, as these programs use them. *)

boardUnchanged == UNCHANGED <<program, script, at, handler, raced, misprinted>>

\* Requests that are answered without more ado, and their answers.
Answers ==
  [idRequest |-> "idResponse", sglist |-> "configResp", nandIdRequest |-> "nandIdResponse",
   nandSglist |-> "nandConfigResp", debugDumpReq |-> "debugDumpResp",
   setMatrixSize |-> "finish", auroraStatus |-> "rawWordTest"]

Answer ==
  \E kind \in DOMAIN Answers :
    /\ Receive(kind) /\ Indicate([kind |-> Answers[kind]])
    /\ boardUnchanged /\ UNCHANGED testsVars

\* Requests without an answer.
Accept ==
  \E kind \in {"start", "setDebugVals", "resetAurora"} :
    /\ Receive(kind) /\ boardUnchanged /\ UNCHANGED <<indications, testsVars>>

FlashAnswers ==
  /\ \/ /\ Receive("eraseBlock") /\ Indicate([kind |-> "eraseDone"])
        /\ flashPage' = [p \in DOMAIN flashPage |-> "FFs"] /\ UNCHANGED readBuffer
     \/ /\ Receive("readPage") /\ Indicate([kind |-> "readDone"])
        /\ readBuffer' = flashPage[Head(requests).page] /\ UNCHANGED flashPage
     \/ /\ Receive("writePage") /\ Indicate([kind |-> "writeDone"])
        /\ flashPage' = [flashPage EXCEPT ![Head(requests).page] = "pattern"]
        /\ UNCHANGED readBuffer
  /\ boardUnchanged
  /\ UNCHANGED <<sem, flag, i2cReadData, siReg, found, worker>>

\* The I2C controller works its requests off in order; only reads are answered.
I2cController ==
  /\ \/ /\ Receive("i2cWrite")
        /\ siReg' = [r \in SiRegs |->
             IF r = Head(requests).reg THEN "configured" ELSE siReg[r]]
        /\ UNCHANGED indications
     \/ /\ Receive("i2cRead")
        /\ \E value \in {NoAnswer, <<siReg[Head(requests).reg], Head(requests).reg>>} :
             Indicate([kind |-> "i2cResult", value |-> value])
        /\ UNCHANGED siReg
  /\ boardUnchanged
  /\ UNCHANGED <<sem, flag, i2cReadData, flashPage, readBuffer, found, worker>>

TestsBoard == Answer \/ Accept \/ FlashAnswers \/ I2cController
=============================================================================
