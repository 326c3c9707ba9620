------------------------- MODULE FlashController_proofs -------------------------
(***************************************************************************)
(* One bus of the flash controller, for any number of chips, any tags,     *)
(* depths, pages and jobs: it never disturbs a busy chip, and the decoder  *)
(* never overflows.                                                        *)
(***************************************************************************)
EXTENDS FlashController, QueueLemmas

Op == {"READ_PAGE", "WRITE_PAGE", "ERASE_BLOCK"}

\* Bus commands that make a chip busy and that ask for its status, and the
\* states in which the bus carries them out and reads a chip out.
StartOps    == {"READ_CMD", "WRITE_CMD_DATA", "ERASE_CMD"}
PollOps     == {"GET_STATUS_READ_DATA", "WRITE_GET_STATUS", "ERASE_GET_STATUS"}
StartStates == {"READ_PAGE_REQ", "WRITE_PAGE_WAIT", "WRITE_PAGE", "ERASE_BLOCK"}
PollStates  == {"GET_STATUS", "WRITE_GET_STATUS", "ERASE_GET_STATUS"}
ReadStates  == {"READ_DATA_WAIT_BUF", "READ_DATA"}

\* Stages of a chip that is not at work, that is or soon will be, and that
\* waits for its status.
RestStages   == {"INIT", "WR_BUF_REQ_ISSUED"}
IssuedStages == {"RD_ISSUED", "WR_ISSUED", "ER_ISSUED"}
WaitStages   == {"RD_DATA", "WAIT_STATUS"}

\* Which command a stage, a bus command and a state of the bus belong to.
StagesOf == [READ_PAGE   |-> {"INIT", "RD_ISSUED", "RD_DATA"},
             WRITE_PAGE  |-> {"INIT", "WR_BUF_REQ_ISSUED", "WR_ISSUED", "WAIT_STATUS"},
             ERASE_BLOCK |-> {"INIT", "ER_ISSUED", "WAIT_STATUS"}]
BusOpsOf == [READ_PAGE   |-> {"READ_CMD", "GET_STATUS_READ_DATA"},
             WRITE_PAGE  |-> {"WRITE_CMD_DATA", "WRITE_GET_STATUS"},
             ERASE_BLOCK |-> {"ERASE_CMD", "ERASE_GET_STATUS"}]
StatesOf == [READ_PAGE   |-> {"READ_PAGE_REQ", "GET_STATUS"},
             WRITE_PAGE  |-> {"WRITE_PAGE_WAIT", "WRITE_PAGE", "WRITE_GET_STATUS"},
             ERASE_BLOCK |-> {"ERASE_BLOCK", "ERASE_GET_STATUS"}]

Cmd      == [tag : Tag, op : Op, chip : Chip]
BusCmd   == [tag : Tag, busOp : {"WRITE_DATA_BUF_REQ"} \cup StartOps \cup PollOps, chip : Chip]
PageWord == [tag : Tag, idx : Nat]

ScoreboardTyped ==
  /\ chipQs \in [Chip -> Seq(Cmd)]
  /\ \A c \in Chip : \A i \in DOMAIN chipQs[c] : chipQs[c][i].chip = c
  /\ chipBusy \in [Chip -> Seq(BOOLEAN)]
  /\ cmdOutQ \in Seq(BusCmd)
  /\ sbState \in {"NEXT_REQ", "SERVICE_REQ"}
  /\ sbState = "SERVICE_REQ" => chipQs[currChip] # << >>

BusTyped ==
  /\ flashCmdQ \in Seq(Cmd)
  /\ state \in {"IDLE"} \cup StartStates \cup PollStates \cup ReadStates
  /\ encodeQ \in Seq(PageWord) /\ decodeInQ \in Seq(PageWord)
  /\ nand \in [Chip -> [busy : BOOLEAN, page : Seq(PageWord)]]

BuffersTyped ==
  /\ writePageBufBack \in Seq(PageWord) /\ writePageBufFront \in Seq(PageWord)
  /\ ctrl \in [Tag -> [op : Op \cup {"none"}, asked : BOOLEAN, cnt : Nat]]

\* The words that a burst has moved.
BurstCounted ==
  /\ state \in {"READ_DATA", "WRITE_PAGE"} => dataCnt < PageWords
  /\ state \notin {"IDLE", "READ_DATA", "WRITE_PAGE"} => dataCnt = 0
  /\ state = "READ_DATA" => Len(decodeInQ) <= dataCnt

\* TypeOK, by component.
ScoreboardTypeOK ==
  /\ chipStages \in [Chip -> {"INIT", "RD_ISSUED", "RD_DATA", "WR_BUF_REQ_ISSUED",
                              "WR_ISSUED", "ER_ISSUED", "WAIT_STATUS"}]
  /\ \A c \in Chip : Len(chipQs[c]) <= ChipQDepth /\ Len(chipBusy[c]) <= FifoDepth
  /\ busyTimers \in [Chip -> 0 .. 1] /\ currChip \in Chip /\ wdataRdy \in Tag \cup {NoTag}
BusTypeOK ==
  /\ chipR \in Chip /\ cmdTagR \in Tag \cup {NoTag} /\ dataCnt \in 0 .. PageWords
  /\ Len(encodeQ) <= EncodeDepth /\ Len(decodeInQ) <= DecodeInDepth
BuffersTypeOK == writeWordCnt \in 0 .. PageWords - 1 /\ wdataCnt \in 0 .. PageWords

\* What the bus has to do, and does, for a chip.
Queued(c, ops) == \E i \in DOMAIN cmdOutQ : cmdOutQ[i].chip = c /\ cmdOutQ[i].busOp \in ops
StartQueued(c) == Queued(c, StartOps)
PollQueued(c)  == Queued(c, PollOps)
Starting(c)    == state \in StartStates /\ chipR = c
Polling(c)     == state \in PollStates /\ chipR = c
Reading(c)     == state \in ReadStates /\ chipR = c
Working(c)     == Head(chipQs[c])

\* A chip has at most one command queued to start it, and one after it to ask
\* for its status.
StartBeforePoll ==
  \A i, j \in DOMAIN cmdOutQ :
    i < j /\ cmdOutQ[i].chip = cmdOutQ[j].chip
      => \/ cmdOutQ[i].busOp = "WRITE_DATA_BUF_REQ"
         \/ cmdOutQ[j].busOp = "WRITE_DATA_BUF_REQ"
         \/ cmdOutQ[i].busOp \in StartOps /\ cmdOutQ[j].busOp \in PollOps

\* What is queued and carried out belongs to the command its chip works on.
BusCmdsBelong ==
  /\ \A i \in DOMAIN cmdOutQ :
       LET m == cmdOutQ[i]
       IN  m.busOp \in StartOps \cup PollOps =>
             m.tag = Working(m.chip).tag /\ m.busOp \in BusOpsOf[Working(m.chip).op]
  /\ state \in StartStates \cup PollStates =>
       cmdTagR = Working(chipR).tag /\ state \in StatesOf[Working(chipR).op]

\* The scoreboard's view of a chip, and what is so.
ChipInStep(c) ==
  /\ chipStages[c] # "INIT" =>
       chipQs[c] # << >> /\ chipStages[c] \in StagesOf[Working(c).op]
  /\ chipStages[c] \in RestStages =>
       /\ ~StartQueued(c) /\ ~Starting(c) /\ ~PollQueued(c) /\ ~Polling(c)
       /\ chipBusy[c] = << >> /\ ~nand[c].busy
  /\ chipStages[c] \in IssuedStages =>
       ~PollQueued(c) /\ ~Polling(c) /\ chipBusy[c] = << >>
  /\ chipStages[c] \in WaitStages =>
       \/ PollQueued(c) /\ ~Polling(c) /\ chipBusy[c] = << >>
       \/ ~PollQueued(c) /\ Polling(c) /\ chipBusy[c] = << >>
       \/ ~PollQueued(c) /\ ~Polling(c) /\ chipBusy[c] \in {<<TRUE>>, <<FALSE>>}
  /\ StartQueued(c) \/ Starting(c) =>
       /\ ~(StartQueued(c) /\ Starting(c)) /\ ~Polling(c)
       /\ chipBusy[c] = << >> /\ ~nand[c].busy
  /\ chipStages[c] \notin RestStages /\ ~StartQueued(c) /\ ~Starting(c)
       /\ Working(c).op = "READ_PAGE"
       => nand[c].page = PageOf(Working(c).tag)
  /\ chipBusy[c] = <<FALSE>> => ~nand[c].busy
  /\ Reading(c) =>
       /\ ~nand[c].busy /\ nand[c].page = PageOf(cmdTagR)
       /\ StartQueued(c) \/ chipStages[c] \in RestStages \/ chipBusy[c] = <<FALSE>>

ChipsInStep == \A c \in Chip : ChipInStep(c)

Protocol  == StartBeforePoll /\ BusCmdsBelong /\ ChipsInStep
TypedInv  == TypeOK /\ ScoreboardTyped /\ BusTyped /\ BuffersTyped /\ BurstCounted
BusInv    == TypedInv /\ Protocol

\* What the protocol of the chips is about, but for the scoreboard's turn.
chipVars == <<chipQs, chipBusy, chipStages, cmdOutQ, state, chipR, cmdTagR, nand>>

-----------------------------------------------------------------------------
\* The tables of the scoreboard and of the bus fit together.
LEMMA StageTable ==
  ASSUME NEW op \in Op, NEW s \in StagesOf[op], s \in DOMAIN Issues[op]
  PROVE  LET next == Issues[op][s]
         IN  /\ next.stage \in StagesOf[op] /\ next.stage # "INIT"
             /\ \/ /\ s \in RestStages /\ next.stage \in RestStages
                   /\ next.busOp = "WRITE_DATA_BUF_REQ"
                \/ /\ s \in RestStages /\ next.stage \in IssuedStages
                   /\ next.busOp \in StartOps \cap BusOpsOf[op]
                \/ /\ s \in IssuedStages /\ next.stage \in WaitStages
                   /\ next.busOp \in PollOps \cap BusOpsOf[op]
<1>1. CASE op = "READ_PAGE"
  BY <1>1 DEF StagesOf, Issues, RestStages, IssuedStages, WaitStages, StartOps, PollOps, BusOpsOf
<1>2. CASE op = "WRITE_PAGE"
  BY <1>2 DEF StagesOf, Issues, RestStages, IssuedStages, WaitStages, StartOps, PollOps, BusOpsOf
<1>3. CASE op = "ERASE_BLOCK"
  BY <1>3 DEF StagesOf, Issues, RestStages, IssuedStages, WaitStages, StartOps, PollOps, BusOpsOf
<1> QED BY <1>1, <1>2, <1>3 DEF Op

\* Each bus command is carried out in a state of its own kind and operation.
LEMMA StateTable ==
  /\ \A b \in StartOps : StateOf[b] \in StartStates
  /\ \A b \in PollOps : StateOf[b] \in PollStates
  /\ StateOf["WRITE_DATA_BUF_REQ"] = "IDLE"
  /\ \A op \in Op : \A b \in BusOpsOf[op] : StateOf[b] \in StatesOf[op]
<1>1. /\ \A b \in StartOps : StateOf[b] \in StartStates
      /\ \A b \in PollOps : StateOf[b] \in PollStates
      /\ StateOf["WRITE_DATA_BUF_REQ"] = "IDLE"
  BY DEF StateOf, StartOps, StartStates, PollOps, PollStates
<1>2. \A op \in Op : \A b \in BusOpsOf[op] : StateOf[b] \in StatesOf[op]
  BY DEF StateOf, Op, BusOpsOf, StatesOf
<1> QED BY <1>1, <1>2

\* Kinds of stages, states and bus commands do not overlap.
LEMMA StageKinds ==
  /\ RestStages \cap IssuedStages = {} /\ RestStages \cap WaitStages = {}
  /\ IssuedStages \cap WaitStages = {} /\ "INIT" \in RestStages
  /\ StartStates \cap PollStates = {} /\ StartStates \cap ReadStates = {}
  /\ PollStates \cap ReadStates = {} /\ "IDLE" \notin StartStates \cup PollStates \cup ReadStates
  /\ StartOps \cap PollOps = {} /\ "WRITE_DATA_BUF_REQ" \notin StartOps \cup PollOps
BY DEF RestStages, IssuedStages, WaitStages, StartStates, PollStates, ReadStates,
       StartOps, PollOps

\* What a command of the scoreboard or of the bus is made of.
LEMMA CmdFields ==
  /\ \A m \in Cmd : m.tag \in Tag /\ m.op \in Op /\ m.chip \in Chip
  /\ \A m \in BusCmd : m.tag \in Tag /\ m.chip \in Chip
BY DEF Cmd, BusCmd

\* A queue of one entry.
LEMMA OneQueueOnly == \A S : \A b \in S : Head(<<b>>) = b /\ Tail(<<b>>) = << >>
OBVIOUS

\* A queue of one status, read and emptied.
LEMMA OneStatus ==
  ASSUME NEW s, s \in {<<TRUE>>, <<FALSE>>}
  PROVE  /\ Head(s) \in BOOLEAN /\ Tail(s) = << >> /\ s # << >>
         /\ Head(s) => s = <<TRUE>> /\ s # <<FALSE>>
         /\ ~Head(s) => s = <<FALSE>>
<1>1. \A b \in BOOLEAN : Head(<<b>>) = b /\ Tail(<<b>>) = << >>
  BY OneQueueOnly
<1>2. Head(<<TRUE>>) = TRUE /\ Head(<<FALSE>>) = FALSE
  BY <1>1, Zenon
<1>3. Tail(<<TRUE>>) = << >> /\ Tail(<<FALSE>>) = << >> 
  OBVIOUS
<1>4. <<TRUE>> # <<FALSE>> 
  OBVIOUS
<1>5. <<TRUE>> # << >> /\ <<FALSE>> # << >>
  OBVIOUS
<1>6. CASE s = <<TRUE>>
  BY <1>2, <1>3, <1>4, <1>5, <1>6, Zenon
<1>7. CASE s = <<FALSE>>
  BY <1>2, <1>3, <1>5, <1>7, Zenon
<1> QED BY <1>6, <1>7

\* A bus command is put at the end of cmdOutQ, or taken from its front.
LEMMA QueuedAppend ==
  ASSUME cmdOutQ \in Seq(BusCmd), NEW w \in BusCmd, cmdOutQ' = Append(cmdOutQ, w)
  PROVE  \A c, ops : Queued(c, ops)' <=> Queued(c, ops) \/ (w.chip = c /\ w.busOp \in ops)
<1>1. /\ Len(cmdOutQ) \in Nat /\ DOMAIN cmdOutQ = 1 .. Len(cmdOutQ)
      /\ DOMAIN cmdOutQ' = 1 .. Len(cmdOutQ) + 1
      /\ \A i \in 1 .. Len(cmdOutQ) : cmdOutQ'[i] = cmdOutQ[i]
      /\ cmdOutQ'[Len(cmdOutQ) + 1] = w
  OBVIOUS
<1> QED BY <1>1 DEF Queued

\* Taking the first command away leaves every other where it was queued for.
LEMMA QueuedTail ==
  ASSUME cmdOutQ \in Seq(BusCmd), cmdOutQ # << >>, cmdOutQ' = Tail(cmdOutQ)
  PROVE  \A c, ops : Queued(c, ops) <=>
           Queued(c, ops)' \/ (Head(cmdOutQ).chip = c /\ Head(cmdOutQ).busOp \in ops)
<1>1. /\ Len(cmdOutQ) \in Nat \ {0} /\ DOMAIN cmdOutQ = 1 .. Len(cmdOutQ)
      /\ DOMAIN cmdOutQ' = 1 .. Len(cmdOutQ) - 1
      /\ \A i \in 1 .. Len(cmdOutQ) - 1 : cmdOutQ'[i] = cmdOutQ[i + 1]
      /\ cmdOutQ[1] = Head(cmdOutQ)
  OBVIOUS
<1> SUFFICES ASSUME NEW c, NEW ops
             PROVE  Queued(c, ops) <=>
                      Queued(c, ops)' \/ (cmdOutQ[1].chip = c /\ cmdOutQ[1].busOp \in ops)
  BY <1>1
<1>2. ASSUME NEW i \in DOMAIN cmdOutQ, i # 1
      PROVE  i - 1 \in DOMAIN cmdOutQ' /\ cmdOutQ'[i - 1] = cmdOutQ[i]
  BY <1>1, <1>2
<1>3. ASSUME NEW i \in DOMAIN cmdOutQ'
      PROVE  i + 1 \in DOMAIN cmdOutQ /\ cmdOutQ'[i] = cmdOutQ[i + 1]
  BY <1>1
<1> QED BY <1>1, <1>2, <1>3 DEF Queued

\* Nothing that a chip's part of the protocol is about has changed.
LEMMA Bystander ==
  ASSUME NEW c \in Chip, ChipInStep(c),
         chipStages'[c] = chipStages[c], chipBusy'[c] = chipBusy[c], nand'[c] = nand[c],
         chipQs[c] # << >> => chipQs'[c] # << >> /\ Head(chipQs'[c]) = Head(chipQs[c]),
         StartQueued(c)' <=> StartQueued(c), PollQueued(c)' <=> PollQueued(c),
         Starting(c)' <=> Starting(c), Polling(c)' <=> Polling(c),
         Reading(c)' => Reading(c) /\ cmdTagR' = cmdTagR
  PROVE  ChipInStep(c)'
<1>1. chipStages[c] # "INIT" => Working(c)' = Working(c)
  BY DEF ChipInStep, Working
<1>2. \A t : PageOf(t)' = PageOf(t)
  BY DEF PageOf, Word
<1> QED BY <1>1, <1>2, StageKinds DEF ChipInStep

-----------------------------------------------------------------------------
\* The rules that have a part in the protocol.  The scoreboard issues the next
\* bus command of a chip.
LEMMA IssueBusCmdKeeps ==
  ASSUME BusInv, NEW k \in Chip, k = currChip, sbState = "SERVICE_REQ",
         IssueBusCmd, UNCHANGED busVars
  PROVE  Protocol'
<1>0. PICK h : h = Working(k)
  OBVIOUS
<1> DEFINE next == Issues[h.op][chipStages[k]]
           w    == [tag |-> h.tag, busOp |-> next.busOp, chip |-> h.chip]
<1>1. /\ k \in Chip /\ chipQs[k] \in Seq(Cmd) /\ chipQs[k] # << >>
      /\ cmdOutQ \in Seq(BusCmd) /\ chipStages \in [Chip -> {"INIT", "RD_ISSUED", "RD_DATA",
           "WR_BUF_REQ_ISSUED", "WR_ISSUED", "ER_ISSUED", "WAIT_STATUS"}]
  BY DEF BusInv, TypedInv, TypeOK, ScoreboardTyped
<1>2. h \in Cmd /\ h.op \in Op /\ h.tag \in Tag /\ h.chip = k
  <2>1. h \in Cmd /\ 1 \in DOMAIN chipQs[k] /\ chipQs[k][1] = h
    BY <1>0, <1>1 DEF Working
  <2>2. h.chip = k
    BY <1>1, <2>1 DEF BusInv, TypedInv, ScoreboardTyped
  <2> QED BY <2>1, <2>2 DEF Cmd
<1>3. /\ chipStages[k] \in DOMAIN Issues[h.op]
      /\ cmdOutQ' = Append(cmdOutQ, w)
      /\ chipStages' = [chipStages EXCEPT ![k] = next.stage]
      /\ UNCHANGED <<chipQs, chipBusy, state, chipR, cmdTagR, nand>>
  BY <1>0 DEF IssueBusCmd, MoveTo, stage, currReq, Working, busVars, ctlVars
<1>4. /\ StartBeforePoll /\ BusCmdsBelong /\ ChipInStep(k)
      /\ \A c \in Chip : ChipInStep(c)
  BY <1>1 DEF BusInv, Protocol, ChipsInStep
<1>5. chipStages[k] \in StagesOf[h.op]
  <2>1. chipStages[k] # "INIT" => chipStages[k] \in StagesOf[h.op]
    BY <1>0, <1>4 DEF ChipInStep
  <2>2. "INIT" \in StagesOf[h.op]
    BY <1>2 DEF StagesOf, Op
  <2> QED BY <2>1, <2>2
<1>6. /\ next.stage \in StagesOf[h.op] /\ next.stage # "INIT"
      /\ \/ /\ chipStages[k] \in RestStages /\ next.stage \in RestStages
            /\ next.busOp = "WRITE_DATA_BUF_REQ"
         \/ /\ chipStages[k] \in RestStages /\ next.stage \in IssuedStages
            /\ next.busOp \in StartOps \cap BusOpsOf[h.op]
         \/ /\ chipStages[k] \in IssuedStages /\ next.stage \in WaitStages
            /\ next.busOp \in PollOps \cap BusOpsOf[h.op]
  <2> QED BY <1>2, <1>3, <1>5, StageTable
<1>7. w \in BusCmd /\ w.chip = k /\ w.busOp = next.busOp /\ w.tag = h.tag
  BY <1>1, <1>2, <1>6 DEF BusCmd
<1>8. chipStages'[k] = next.stage /\ \A c \in Chip : c # k => chipStages'[c] = chipStages[c]
  BY <1>1, <1>3
<1> HIDE DEF next, w
<1>9. \A c, ops : Queued(c, ops)' <=> Queued(c, ops) \/ (k = c /\ next.busOp \in ops)
  BY <1>1, <1>3, <1>7, QueuedAppend
<1>10. \A c : Working(c)' = Working(c)
  BY <1>3 DEF Working
<1>11. \A c : /\ Starting(c)' <=> Starting(c)
              /\ Polling(c)' <=> Polling(c)
              /\ Reading(c)' <=> Reading(c)
  BY <1>3 DEF Starting, Polling, Reading
<1>12. ASSUME NEW c \in Chip, c # k PROVE ChipInStep(c)'
  <2>1. StartQueued(c)' <=> StartQueued(c)
    BY <1>9, <1>12 DEF StartQueued
  <2>2. PollQueued(c)' <=> PollQueued(c)
    BY <1>9, <1>12 DEF PollQueued
  <2> QED BY <1>3, <1>4, <1>8, <1>11, <1>12, <2>1, <2>2, Bystander
<1>13. ChipInStep(k)'
  <2>1. StartQueued(k)' <=> StartQueued(k) \/ next.busOp \in StartOps
    BY <1>9 DEF StartQueued
  <2>2. PollQueued(k)' <=> PollQueued(k) \/ next.busOp \in PollOps
    BY <1>9 DEF PollQueued
  <2>3. PageOf(h.tag)' = PageOf(h.tag) /\ PageOf(cmdTagR)' = PageOf(cmdTagR)
    BY <1>3 DEF PageOf, Word
  <2>4. /\ chipBusy'[k] = chipBusy[k] /\ nand'[k] = nand[k] /\ chipQs'[k] = chipQs[k]
        /\ chipQs[k] # << >> /\ Working(k)' = h /\ Working(k) = h
        /\ (Starting(k)' <=> Starting(k)) /\ (Polling(k)' <=> Polling(k))
        /\ (Reading(k)' <=> Reading(k)) /\ cmdTagR' = cmdTagR
    BY <1>0, <1>1, <1>3, <1>10, <1>11
  <2>5. CASE /\ chipStages[k] \in RestStages /\ next.stage \in RestStages
             /\ next.busOp = "WRITE_DATA_BUF_REQ"
    BY <1>4, <1>6, <1>8, <2>1, <2>2, <2>3, <2>4, <2>5, StageKinds DEF ChipInStep
  <2>6. CASE /\ chipStages[k] \in RestStages /\ next.stage \in IssuedStages
             /\ next.busOp \in StartOps
    BY <1>4, <1>6, <1>8, <2>1, <2>2, <2>3, <2>4, <2>6, StageKinds DEF ChipInStep
  <2>7. CASE /\ chipStages[k] \in IssuedStages /\ next.stage \in WaitStages
             /\ next.busOp \in PollOps
    BY <1>4, <1>6, <1>8, <2>1, <2>2, <2>3, <2>4, <2>7, StageKinds DEF ChipInStep
  <2> QED BY <1>6, <2>5, <2>6, <2>7
<1>14. /\ Len(cmdOutQ) \in Nat /\ DOMAIN cmdOutQ = 1 .. Len(cmdOutQ)
       /\ DOMAIN cmdOutQ' = 1 .. Len(cmdOutQ) + 1
       /\ \A i \in 1 .. Len(cmdOutQ) : cmdOutQ'[i] = cmdOutQ[i] /\ cmdOutQ[i] \in BusCmd
       /\ cmdOutQ'[Len(cmdOutQ) + 1] = w
  BY <1>1, <1>3, <1>7
<1>15. StartBeforePoll'
  <2> SUFFICES ASSUME NEW i \in DOMAIN cmdOutQ', NEW j \in DOMAIN cmdOutQ',
                      i < j, cmdOutQ'[i].chip = cmdOutQ'[j].chip
               PROVE  \/ cmdOutQ'[i].busOp = "WRITE_DATA_BUF_REQ"
                      \/ cmdOutQ'[j].busOp = "WRITE_DATA_BUF_REQ"
                      \/ cmdOutQ'[i].busOp \in StartOps /\ cmdOutQ'[j].busOp \in PollOps
    BY DEF StartBeforePoll
  <2>1. CASE j \in 1 .. Len(cmdOutQ)
    BY <1>4, <1>14, <2>1 DEF StartBeforePoll
  <2>2. CASE j = Len(cmdOutQ) + 1
    <3>1. /\ i \in DOMAIN cmdOutQ /\ cmdOutQ'[i] = cmdOutQ[i] /\ cmdOutQ[i].chip = k
          /\ cmdOutQ[i].busOp \in {"WRITE_DATA_BUF_REQ"} \cup StartOps \cup PollOps
          /\ cmdOutQ'[j].busOp = next.busOp
      BY <1>7, <1>14, <2>2 DEF BusCmd
    <3>2. /\ cmdOutQ[i].busOp \in StartOps => StartQueued(k)
          /\ cmdOutQ[i].busOp \in PollOps => PollQueued(k)
      BY <3>1 DEF StartQueued, PollQueued, Queued
    <3>3. /\ chipStages[k] \in RestStages => ~StartQueued(k) /\ ~PollQueued(k)
          /\ chipStages[k] \in IssuedStages => ~PollQueued(k)
      BY <1>4 DEF ChipInStep
    <3> QED BY <1>6, <3>1, <3>2, <3>3
  <2> QED BY <1>14, <2>1, <2>2
<1>16. BusCmdsBelong'
  <2>1. ASSUME NEW i \in DOMAIN cmdOutQ', cmdOutQ'[i].busOp \in StartOps \cup PollOps
        PROVE  LET m == cmdOutQ'[i]
               IN  m.tag = Working(m.chip).tag /\ m.busOp \in BusOpsOf[Working(m.chip).op]
    <3>1. CASE i \in 1 .. Len(cmdOutQ)
      BY <1>4, <1>14, <2>1, <3>1 DEF BusCmdsBelong
    <3>2. CASE i = Len(cmdOutQ) + 1
      <4>1. cmdOutQ'[i] = w /\ Working(w.chip) = h
        BY <1>0, <1>7, <1>14, <3>2
      <4>2. next.busOp \in BusOpsOf[h.op]
        BY <1>6, <1>7, <2>1, <4>1, StageKinds
      <4> QED BY <1>7, <4>1, <4>2
    <3> QED BY <1>14, <3>1, <3>2
  <2> QED BY <1>3, <1>4, <2>1 DEF BusCmdsBelong, Working
<1> QED BY <1>12, <1>13, <1>15, <1>16 DEF Protocol, ChipsInStep

\* What the bus does and has to do is the same.
LEMMA BusAsBefore ==
  ASSUME cmdOutQ' = cmdOutQ, state' = state, chipR' = chipR
  PROVE  \A c : /\ StartQueued(c)' <=> StartQueued(c)
                /\ PollQueued(c)' <=> PollQueued(c)
                /\ Starting(c)' <=> Starting(c)
                /\ Polling(c)' <=> Polling(c)
                /\ Reading(c)' <=> Reading(c)
BY DEF StartQueued, PollQueued, Queued, Starting, Polling, Reading

\* The scoreboard looks at a status: the chip is polled again, or its command
\* is done and the bus has nothing left to do for it but to read it out.
LEMMA LookAtStatusKeeps ==
  ASSUME BusInv, NEW k \in Chip, k = currChip, LookAtStatus, UNCHANGED busVars
  PROVE  Protocol'
<1> DEFINE busy == Head(chipBusy[k])
<1>0. PICK h : h = Working(k)
  OBVIOUS
<1>1. /\ chipQs \in [Chip -> Seq(Cmd)] /\ chipBusy \in [Chip -> Seq(BOOLEAN)]
      /\ chipStages \in [Chip -> {"INIT", "RD_ISSUED", "RD_DATA",
           "WR_BUF_REQ_ISSUED", "WR_ISSUED", "ER_ISSUED", "WAIT_STATUS"}]
  BY DEF BusInv, TypedInv, TypeOK, ScoreboardTyped
<1>2. /\ chipStages[k] \in WaitStages /\ chipBusy[k] # << >>
      /\ chipStages' = [chipStages EXCEPT ![k] = IF busy THEN PollStage[h.op] ELSE "INIT"]
      /\ chipQs' = IF busy THEN chipQs ELSE [chipQs EXCEPT ![k] = Tail(@)]
      /\ chipBusy' = [chipBusy EXCEPT ![k] = Tail(@)]
      /\ UNCHANGED <<cmdOutQ, state, chipR, cmdTagR, nand>>
  BY <1>0 DEF LookAtStatus, stage, currReq, Working, busVars, ctlVars, WaitStages
<1>3. /\ StartBeforePoll /\ BusCmdsBelong /\ \A c \in Chip : ChipInStep(c)
  BY DEF BusInv, Protocol, ChipsInStep
<1>4. /\ chipBusy[k] \in {<<TRUE>>, <<FALSE>>} /\ ~StartQueued(k) /\ ~Starting(k)
      /\ ~PollQueued(k) /\ ~Polling(k)
      /\ chipQs[k] # << >> /\ chipStages[k] \in StagesOf[h.op]
      /\ chipBusy[k] = <<FALSE>> => ~nand[k].busy
      /\ h.op = "READ_PAGE" => nand[k].page = PageOf(h.tag)
      /\ Reading(k) => /\ ~nand[k].busy /\ nand[k].page = PageOf(cmdTagR)
                       /\ chipBusy[k] = <<FALSE>>
  <2>1. ChipInStep(k) /\ chipStages[k] \notin RestStages /\ chipStages[k] # "INIT"
    BY <1>2, <1>3, StageKinds
  <2> QED BY <1>0, <1>2, <2>1 DEF ChipInStep
<1>5. /\ busy \in BOOLEAN /\ Tail(chipBusy[k]) = << >>
      /\ busy => chipBusy[k] # <<FALSE>>
      /\ ~busy => chipBusy[k] = <<FALSE>>
  BY <1>4, OneStatus
<1>6. PollStage[h.op] \in IssuedStages \cap StagesOf[h.op]
  <2>1. h \in Cmd
    BY <1>0, <1>1, <1>4 DEF Working
  <2>2. h.op \in Op
    BY <2>1, CmdFields
  <2> QED BY <2>2 DEF PollStage, IssuedStages, StagesOf, Op
<1>7. /\ chipStages'[k] = IF busy THEN PollStage[h.op] ELSE "INIT"
      /\ chipBusy'[k] = << >>
      /\ \A c \in Chip : c # k => /\ chipStages'[c] = chipStages[c]
                                  /\ chipBusy'[c] = chipBusy[c] /\ chipQs'[c] = chipQs[c]
      /\ busy => chipQs' = chipQs
  BY <1>1, <1>2, <1>5
<1> HIDE DEF busy
<1>8. ASSUME NEW c \in Chip, c # k PROVE ChipInStep(c)'
  BY <1>2, <1>3, <1>7, <1>8, BusAsBefore, Bystander
<1>9. ChipInStep(k)'
  <2>1. /\ ~StartQueued(k)' /\ ~Starting(k)' /\ ~PollQueued(k)' /\ ~Polling(k)'
        /\ Reading(k)' <=> Reading(k)
    BY <1>2, <1>4, BusAsBefore
  <2>2. /\ PageOf(h.tag)' = PageOf(h.tag) /\ PageOf(cmdTagR)' = PageOf(cmdTagR)
    BY <1>2 DEF PageOf, Word
  <2>3. CASE busy
    <3>1. Working(k)' = h /\ chipQs'[k] # << >>
      BY <1>0, <1>4, <1>7, <2>3 DEF Working
    <3>2. chipStages'[k] \in IssuedStages \cap StagesOf[h.op] /\ ~Reading(k)'
      BY <1>4, <1>5, <1>6, <1>7, <2>1, <2>3
    <3>3. nand'[k] = nand[k] /\ chipBusy'[k] = << >>
      BY <1>2, <1>7
    <3> QED BY <1>4, <2>1, <2>2, <3>1, <3>2, <3>3, StageKinds DEF ChipInStep
  <2>4. CASE ~busy
    <3>1. chipStages'[k] = "INIT" /\ nand'[k] = nand[k] /\ ~nand[k].busy
      BY <1>2, <1>4, <1>5, <1>7, <2>4
    <3>2. chipBusy'[k] = << >> /\ cmdTagR' = cmdTagR
      BY <1>2, <1>7
    <3> QED BY <1>4, <2>1, <2>2, <3>1, <3>2, StageKinds DEF ChipInStep
  <2> QED BY <1>5, <2>3, <2>4
<1>10. StartBeforePoll'
  BY <1>2, <1>3 DEF StartBeforePoll
<1>11. BusCmdsBelong'
  <2>1. ASSUME NEW i \in DOMAIN cmdOutQ, cmdOutQ[i].busOp \in StartOps \cup PollOps
        PROVE  cmdOutQ[i].chip # k
    BY <1>4, <2>1 DEF StartQueued, PollQueued, Queued
  <2>2. state \in StartStates \cup PollStates => chipR # k
    BY <1>4 DEF Starting, Polling
  <2>3. cmdOutQ \in Seq(BusCmd) /\ chipR \in Chip
    BY DEF BusInv, TypedInv, ScoreboardTyped, TypeOK
  <2>4. \A i \in DOMAIN cmdOutQ : cmdOutQ[i].chip \in Chip
    <3>1. \A i \in DOMAIN cmdOutQ : cmdOutQ[i] \in BusCmd
      BY <2>3
    <3> QED BY <3>1, CmdFields
  <2>5. \A c \in Chip : c # k => Head(chipQs'[c]) = Head(chipQs[c])
    BY <1>7
  <2> QED BY <1>2, <1>3, <2>1, <2>2, <2>3, <2>4, <2>5 DEF BusCmdsBelong, Working
<1> QED BY <1>8, <1>9, <1>10, <1>11 DEF Protocol, ChipsInStep

\* A command is put behind those of its chip.
LEMMA DoSBCmdKeeps ==
  ASSUME BusInv, DoSBCmd
  PROVE  Protocol'
<1>0. PICK cmd : cmd = Head(flashCmdQ)
  OBVIOUS
<1>1. /\ chipQs \in [Chip -> Seq(Cmd)] /\ flashCmdQ \in Seq(Cmd)
      /\ cmdOutQ \in Seq(BusCmd) /\ chipR \in Chip
  BY DEF BusInv, TypedInv, TypeOK, ScoreboardTyped, BusTyped
<1>2. /\ flashCmdQ # << >> /\ chipQs' = [chipQs EXCEPT ![cmd.chip] = Append(@, cmd)]
      /\ UNCHANGED <<chipBusy, chipStages, cmdOutQ, state, chipR, cmdTagR, nand>>
  BY <1>0 DEF DoSBCmd, CmdIn, ctlVars
<1>3. cmd \in Cmd /\ cmd.chip \in Chip
  BY <1>0, <1>1, <1>2, CmdFields
<1>4. /\ StartBeforePoll /\ BusCmdsBelong /\ \A c \in Chip : ChipInStep(c)
  BY DEF BusInv, Protocol, ChipsInStep
<1>5. ASSUME NEW c \in Chip, chipQs[c] # << >>
      PROVE  chipQs'[c] # << >> /\ Head(chipQs'[c]) = Head(chipQs[c])
  <2>1. chipQs[c] \in Seq(Cmd)
        /\ chipQs'[c] = IF c = cmd.chip THEN Append(chipQs[c], cmd) ELSE chipQs[c]
    BY <1>1, <1>2, <1>3
  <2> QED BY <1>3, <1>5, <2>1
<1>6. ChipsInStep'
  <2>1. ASSUME NEW c \in Chip PROVE ChipInStep(c)'
    BY <1>2, <1>4, <1>5, BusAsBefore, Bystander
  <2> QED BY <2>1 DEF ChipsInStep
<1>7. StartBeforePoll'
  BY <1>2, <1>4 DEF StartBeforePoll
<1>8. BusCmdsBelong'
  <2>1. \A i \in DOMAIN cmdOutQ : cmdOutQ[i].chip \in Chip
    <3>1. \A i \in DOMAIN cmdOutQ : cmdOutQ[i] \in BusCmd
      BY <1>1
    <3> QED BY <3>1, CmdFields
  <2>2. ASSUME NEW c \in Chip,
               StartQueued(c) \/ PollQueued(c) \/ Starting(c) \/ Polling(c)
        PROVE  Head(chipQs'[c]) = Head(chipQs[c])
    <3>1. chipStages[c] \notin RestStages /\ chipQs[c] # << >>
      <4>1. ChipInStep(c)
        BY <1>4
      <4>2. chipStages[c] \notin RestStages
        BY <2>2, <4>1 DEF ChipInStep
      <4> QED BY <4>1, <4>2, StageKinds DEF ChipInStep
    <3> QED BY <1>5, <3>1
  <2>3. ASSUME NEW i \in DOMAIN cmdOutQ, cmdOutQ[i].busOp \in StartOps \cup PollOps
        PROVE  Head(chipQs'[cmdOutQ[i].chip]) = Head(chipQs[cmdOutQ[i].chip])
    <3>1. StartQueued(cmdOutQ[i].chip) \/ PollQueued(cmdOutQ[i].chip)
      BY <2>3 DEF StartQueued, PollQueued, Queued
    <3> QED BY <2>1, <2>2, <3>1
  <2>4. state \in StartStates \cup PollStates => Head(chipQs'[chipR]) = Head(chipQs[chipR])
    BY <1>1, <2>2 DEF Starting, Polling
  <2> QED BY <1>2, <1>4, <2>3, <2>4 DEF BusCmdsBelong, Working
<1> QED BY <1>6, <1>7, <1>8 DEF Protocol

-----------------------------------------------------------------------------
\* The bus takes the next command.
LEMMA DoDecodeCmdKeeps ==
  ASSUME BusInv, DoDecodeCmd
  PROVE  Protocol'
<1>0. PICK m : m = Head(cmdOutQ)
  OBVIOUS
<1> DEFINE k == m.chip
<1>1. cmdOutQ \in Seq(BusCmd) /\ chipQs \in [Chip -> Seq(Cmd)]
  BY DEF BusInv, TypedInv, ScoreboardTyped
<1>2. /\ state = "IDLE" /\ cmdOutQ # << >> /\ cmdOutQ' = Tail(cmdOutQ)
      /\ state' = StateOf[m.busOp] /\ chipR' = k /\ cmdTagR' = m.tag
      /\ UNCHANGED <<chipQs, chipBusy, chipStages, nand>>
  BY <1>0 DEF DoDecodeCmd, CmdOut
<1>3. /\ StartBeforePoll /\ BusCmdsBelong /\ \A c \in Chip : ChipInStep(c)
  BY DEF BusInv, Protocol, ChipsInStep
<1>4. /\ Len(cmdOutQ) \in Nat \ {0} /\ DOMAIN cmdOutQ = 1 .. Len(cmdOutQ)
      /\ DOMAIN cmdOutQ' = 1 .. Len(cmdOutQ) - 1
      /\ \A i \in 1 .. Len(cmdOutQ) - 1 : cmdOutQ'[i] = cmdOutQ[i + 1]
      /\ cmdOutQ[1] = m /\ m \in BusCmd
  BY <1>0, <1>1, <1>2
<1>5. /\ k \in Chip /\ m.tag \in Tag
      /\ m.busOp \in {"WRITE_DATA_BUF_REQ"} \cup StartOps \cup PollOps
  BY <1>4 DEF BusCmd
<1>6. ASSUME NEW i \in DOMAIN cmdOutQ'
      PROVE  i + 1 \in DOMAIN cmdOutQ /\ 1 < i + 1 /\ cmdOutQ'[i] = cmdOutQ[i + 1]
  BY <1>4
<1>7. \A c, ops : Queued(c, ops) <=> Queued(c, ops)' \/ (k = c /\ m.busOp \in ops)
  BY <1>0, <1>1, <1>2, QueuedTail
<1>8. \A c : ~Starting(c) /\ ~Polling(c) /\ ~Reading(c)
  BY <1>2, StageKinds DEF Starting, Polling, Reading
<1>9. /\ \A c : Starting(c)' <=> k = c /\ m.busOp \in StartOps
      /\ \A c : Polling(c)' <=> k = c /\ m.busOp \in PollOps
      /\ \A c : ~Reading(c)'
  <2>1. CASE m.busOp = "WRITE_DATA_BUF_REQ"
    BY <1>2, <2>1, StateTable, StageKinds DEF Starting, Polling, Reading
  <2>2. CASE m.busOp \in StartOps
    BY <1>2, <2>2, StateTable, StageKinds DEF Starting, Polling, Reading
  <2>3. CASE m.busOp \in PollOps
    BY <1>2, <2>3, StateTable, StageKinds DEF Starting, Polling, Reading
  <2> QED BY <1>5, <2>1, <2>2, <2>3
<1>10. StartBeforePoll'
  <2> SUFFICES ASSUME NEW i \in DOMAIN cmdOutQ', NEW j \in DOMAIN cmdOutQ',
                      i < j, cmdOutQ'[i].chip = cmdOutQ'[j].chip
               PROVE  \/ cmdOutQ'[i].busOp = "WRITE_DATA_BUF_REQ"
                      \/ cmdOutQ'[j].busOp = "WRITE_DATA_BUF_REQ"
                      \/ cmdOutQ'[i].busOp \in StartOps /\ cmdOutQ'[j].busOp \in PollOps
    BY DEF StartBeforePoll
  <2>1. i + 1 < j + 1
    BY <1>4
  <2> QED BY <1>3, <1>6, <2>1 DEF StartBeforePoll
<1>11. BusCmdsBelong'
  <2>1. ASSUME NEW i \in DOMAIN cmdOutQ', cmdOutQ'[i].busOp \in StartOps \cup PollOps
        PROVE  LET x == cmdOutQ'[i]
               IN  x.tag = Working(x.chip).tag /\ x.busOp \in BusOpsOf[Working(x.chip).op]
    BY <1>3, <1>6, <2>1 DEF BusCmdsBelong
  <2>2. ASSUME state' \in StartStates \cup PollStates
        PROVE  m.tag = Working(k).tag /\ state' \in StatesOf[Working(k).op]
    <3>1. m.busOp \in StartOps \cup PollOps
      BY <1>2, <1>5, <2>2, StateTable, StageKinds
    <3>2. m.tag = Working(k).tag /\ m.busOp \in BusOpsOf[Working(k).op]
      BY <1>3, <1>4, <3>1 DEF BusCmdsBelong
    <3>3. StartQueued(k) \/ PollQueued(k)
      BY <1>7, <3>1 DEF StartQueued, PollQueued
    <3>4. chipQs[k] # << >>
      <4>1. ChipInStep(k)
        BY <1>3, <1>5
      <4>2. chipStages[k] \notin RestStages
        BY <3>3, <4>1 DEF ChipInStep
      <4> QED BY <4>1, <4>2, StageKinds DEF ChipInStep
    <3>5. Working(k).op \in Op
      <4>1. Working(k) \in Cmd
        BY <1>1, <1>5, <3>4 DEF Working
      <4> QED BY <4>1, CmdFields
    <3> QED BY <1>2, <3>2, <3>5, StateTable
  <2> QED BY <1>2, <2>1, <2>2 DEF BusCmdsBelong, Working
<1>12. /\ m.busOp \in StartOps => ~StartQueued(k)'
       /\ m.busOp \in PollOps => ~StartQueued(k) /\ ~PollQueued(k)'
  <2>1. ASSUME m.busOp \in StartOps, StartQueued(k)' PROVE FALSE
    <3>1. PICK i \in DOMAIN cmdOutQ' : cmdOutQ'[i].chip = k /\ cmdOutQ'[i].busOp \in StartOps
      BY <2>1 DEF StartQueued, Queued
    <3> QED BY <1>3, <1>4, <1>6, <2>1, <3>1, StageKinds DEF StartBeforePoll
  <2>2. ASSUME m.busOp \in PollOps, Queued(k, StartOps \cup PollOps)' PROVE FALSE
    <3>1. PICK i \in DOMAIN cmdOutQ' :
            cmdOutQ'[i].chip = k /\ cmdOutQ'[i].busOp \in StartOps \cup PollOps
      BY <2>2 DEF Queued
    <3> QED BY <1>3, <1>4, <1>6, <2>2, <3>1, StageKinds DEF StartBeforePoll
  <2>3. ASSUME m.busOp \in PollOps, StartQueued(k) \/ PollQueued(k)' PROVE FALSE
    <3>1. StartQueued(k)' \/ PollQueued(k)'
      BY <1>7, <2>3, StageKinds DEF StartQueued
    <3>2. Queued(k, StartOps \cup PollOps)'
      BY <3>1 DEF StartQueued, PollQueued, Queued
    <3> QED BY <2>2, <2>3, <3>2
  <2> QED BY <2>1, <2>3
<1>13. ASSUME NEW c \in Chip PROVE ChipInStep(c)'
  <2>1. /\ StartQueued(c) <=> StartQueued(c)' \/ (k = c /\ m.busOp \in StartOps)
        /\ PollQueued(c) <=> PollQueued(c)' \/ (k = c /\ m.busOp \in PollOps)
    BY <1>7 DEF StartQueued, PollQueued
  <2>2. CASE c # k \/ m.busOp = "WRITE_DATA_BUF_REQ"
    BY <1>2, <1>3, <1>8, <1>9, <2>1, <2>2, StageKinds, Bystander
  <2>3. CASE c = k /\ m.busOp \in StartOps \cup PollOps
    <3>1. /\ chipQs'[c] = chipQs[c] /\ chipBusy'[c] = chipBusy[c] /\ nand'[c] = nand[c]
          /\ chipStages'[c] = chipStages[c] /\ Working(c)' = Working(c) /\ ~Reading(c)'
          /\ PageOf(Working(c).tag)' = PageOf(Working(c).tag)
      BY <1>2, <1>9 DEF Working, PageOf, Word
    <3>2. CASE m.busOp \in StartOps
      <4>1. /\ StartQueued(c) /\ ~StartQueued(c)' /\ Starting(c)' /\ ~Polling(c)'
            /\ PollQueued(c)' <=> PollQueued(c)
        BY <1>9, <1>12, <2>1, <2>3, <3>2, StageKinds
      <4> QED BY <1>3, <1>8, <3>1, <4>1, StageKinds DEF ChipInStep
    <3>3. CASE m.busOp \in PollOps
      <4>1. /\ PollQueued(c) /\ ~PollQueued(c)' /\ ~Starting(c)' /\ Polling(c)'
            /\ ~StartQueued(c) /\ ~StartQueued(c)'
        BY <1>9, <1>12, <2>1, <2>3, <3>3, StageKinds
      <4> QED BY <1>3, <1>8, <3>1, <4>1, StageKinds DEF ChipInStep
    <3> QED BY <2>3, <3>2, <3>3
  <2> QED BY <1>5, <2>2, <2>3
<1> QED BY <1>10, <1>11, <1>13 DEF Protocol, ChipsInStep

-----------------------------------------------------------------------------
\* What follows from the protocol for the chip the bus is at.
LEMMA AtTheBus ==
  ASSUME BusInv
  PROVE  /\ chipR \in Chip /\ ChipInStep(chipR)
         /\ state \in StartStates => /\ ~nand[chipR].busy /\ chipBusy[chipR] = << >>
                                     /\ ~StartQueued(chipR)
         /\ state \in PollStates =>
              /\ chipStages[chipR] \in WaitStages /\ chipBusy[chipR] = << >>
              /\ ~StartQueued(chipR) /\ ~PollQueued(chipR)
         /\ state \in StartStates \cup PollStates =>
              /\ chipStages[chipR] \notin RestStages /\ chipQs[chipR] # << >>
              /\ Working(chipR).op \in Op /\ cmdTagR \in Tag
              /\ cmdTagR = Working(chipR).tag /\ state \in StatesOf[Working(chipR).op]
         /\ state \in ReadStates =>
              ~nand[chipR].busy /\ nand[chipR].page = PageOf(cmdTagR)
<1>1. /\ chipR \in Chip /\ chipQs \in [Chip -> Seq(Cmd)]
      /\ chipStages[chipR] \in {"INIT", "RD_ISSUED", "RD_DATA",
           "WR_BUF_REQ_ISSUED", "WR_ISSUED", "ER_ISSUED", "WAIT_STATUS"}
  BY DEF BusInv, TypedInv, TypeOK, ScoreboardTyped
<1>2. ChipInStep(chipR) /\ BusCmdsBelong
  BY <1>1 DEF BusInv, Protocol, ChipsInStep
<1>3. chipStages[chipR] \in RestStages \cup IssuedStages \cup WaitStages
  BY <1>1 DEF RestStages, IssuedStages, WaitStages
<1>4. ASSUME state \in StartStates
      PROVE  ~nand[chipR].busy /\ chipBusy[chipR] = << >> /\ ~StartQueued(chipR)
  <2>1. Starting(chipR)
    BY <1>4 DEF Starting
  <2> QED BY <1>2, <2>1 DEF ChipInStep
<1>5. ASSUME state \in PollStates
      PROVE  /\ chipStages[chipR] \in WaitStages /\ chipBusy[chipR] = << >>
             /\ ~StartQueued(chipR) /\ ~PollQueued(chipR)
  <2>1. Polling(chipR)
    BY <1>5 DEF Polling
  <2> QED BY <1>2, <1>3, <2>1 DEF ChipInStep
<1>6. ASSUME state \in StartStates \cup PollStates
      PROVE  /\ chipStages[chipR] \notin RestStages /\ chipQs[chipR] # << >>
             /\ Working(chipR).op \in Op /\ cmdTagR \in Tag
             /\ cmdTagR = Working(chipR).tag /\ state \in StatesOf[Working(chipR).op]
  <2>1. Starting(chipR) \/ Polling(chipR)
    BY <1>6 DEF Starting, Polling
  <2>2. chipStages[chipR] \notin RestStages
    BY <1>2, <2>1 DEF ChipInStep
  <2>3. chipQs[chipR] # << >>
    BY <1>2, <2>2, StageKinds DEF ChipInStep
  <2>4. Working(chipR) \in Cmd
    BY <1>1, <2>3 DEF Working
  <2> QED BY <1>2, <1>6, <2>2, <2>3, <2>4, CmdFields DEF BusCmdsBelong
<1>7. ASSUME state \in ReadStates
      PROVE  ~nand[chipR].busy /\ nand[chipR].page = PageOf(cmdTagR)
  <2>1. Reading(chipR)
    BY <1>7 DEF Reading
  <2> QED BY <1>2, <2>1 DEF ChipInStep
<1> QED BY <1>1, <1>2, <1>4, <1>5, <1>6, <1>7

\* A rule of the bus leaves the scoreboard's commands and the other chips alone.
LEMMA OtherChips ==
  ASSUME BusInv, NEW k \in Chip, chipR = k, chipR' = k,
         UNCHANGED <<chipQs, chipStages, cmdOutQ, cmdTagR>>,
         \A c \in Chip : c # k => chipBusy'[c] = chipBusy[c] /\ nand'[c] = nand[c],
         ChipInStep(k)',
         state' \in StartStates \cup PollStates =>
           /\ state \in StartStates \cup PollStates
           /\ state' = state \/ (state' = "WRITE_PAGE" /\ state = "WRITE_PAGE_WAIT")
  PROVE  Protocol'
<1>1. /\ StartBeforePoll /\ BusCmdsBelong /\ \A c \in Chip : ChipInStep(c)
  BY DEF BusInv, Protocol, ChipsInStep
<1>2. ASSUME NEW c \in Chip, c # k PROVE ChipInStep(c)'
  <2>1. /\ StartQueued(c)' <=> StartQueued(c)
        /\ PollQueued(c)' <=> PollQueued(c)
    BY DEF StartQueued, PollQueued, Queued
  <2>2. /\ ~Starting(c) /\ ~Polling(c) /\ ~Reading(c)
        /\ ~Starting(c)' /\ ~Polling(c)' /\ ~Reading(c)'
    BY <1>2 DEF Starting, Polling, Reading
  <2> QED BY <1>1, <1>2, <2>1, <2>2, Bystander
<1>3. StartBeforePoll'
  BY <1>1 DEF StartBeforePoll
<1>4. BusCmdsBelong'
  <2>1. ASSUME state' \in StartStates \cup PollStates
        PROVE  cmdTagR = Working(k).tag /\ state' \in StatesOf[Working(k).op]
    <3>1. /\ cmdTagR = Working(k).tag /\ Working(k).op \in Op
          /\ state \in StatesOf[Working(k).op]
      BY <2>1, AtTheBus
    <3>2. state = "WRITE_PAGE_WAIT" => "WRITE_PAGE" \in StatesOf[Working(k).op]
      BY <3>1 DEF StatesOf, Op
    <3> QED BY <2>1, <3>1, <3>2
  <2> QED BY <1>1, <2>1 DEF BusCmdsBelong, Working
<1> QED BY <1>2, <1>3, <1>4 DEF Protocol, ChipsInStep

\* The bus starts a chip, all at once or in the end of a page.
LEMMA StartChipKeeps ==
  ASSUME BusInv, NEW k \in Chip, k = chipR, StartChip
  PROVE  Protocol'
<1>1. /\ state \in {"READ_PAGE_REQ", "ERASE_BLOCK"} /\ state' = "IDLE"
      /\ nand' = [nand EXCEPT ![k] =
           [busy |-> TRUE,
            page |-> IF state = "READ_PAGE_REQ" THEN PageOf(cmdTagR) ELSE << >>]]
      /\ UNCHANGED <<chipQs, chipBusy, chipStages, cmdOutQ, chipR, cmdTagR>>
  BY DEF StartChip, sbVars
<1>2. state \in StartStates
  BY <1>1 DEF StartStates
<1>3. nand \in [Chip -> [busy : BOOLEAN, page : Seq(PageWord)]]
  BY DEF BusInv, TypedInv, BusTyped
<1>4. /\ nand'[k].page = IF state = "READ_PAGE_REQ" THEN PageOf(cmdTagR) ELSE << >>
      /\ \A c \in Chip : c # k => nand'[c] = nand[c]
  BY <1>1, <1>3
<1>5. ChipInStep(k)'
  <2>1. /\ ~StartQueued(k) /\ ~StartQueued(k)'
        /\ PollQueued(k)' <=> PollQueued(k)
    BY <1>1, <1>2, AtTheBus DEF StartQueued, PollQueued, Queued
  <2>2. /\ Starting(k) /\ ~Polling(k)
        /\ ~Starting(k)' /\ ~Polling(k)' /\ ~Reading(k)'
    BY <1>1, <1>2, StageKinds DEF Starting, Polling, Reading
  <2>3. /\ chipQs'[k] = chipQs[k] /\ chipBusy'[k] = chipBusy[k] /\ chipBusy[k] = << >>
        /\ chipStages'[k] = chipStages[k] /\ chipStages[k] \notin RestStages
        /\ chipBusy[k] \notin {<<TRUE>>, <<FALSE>>}
    BY <1>1, <1>2, AtTheBus, OneStatus
  <2>4. Working(k)'.op = "READ_PAGE" => nand'[k].page = PageOf(Working(k).tag)'
    <3>1. Working(k)' = Working(k) /\ PageOf(Working(k).tag)' = PageOf(Working(k).tag)
      BY <1>1 DEF Working, PageOf, Word
    <3>2. cmdTagR = Working(k).tag /\ state \in StatesOf[Working(k).op]
      BY <1>2, AtTheBus
    <3>3. Working(k).op = "READ_PAGE" => state = "READ_PAGE_REQ"
      BY <1>1, <3>2 DEF StatesOf
    <3> QED BY <1>4, <3>1, <3>2, <3>3
  <2>5. ChipInStep(k) /\ Working(k)' = Working(k)
    BY <1>1, AtTheBus DEF Working
  <2> QED BY <2>1, <2>2, <2>3, <2>4, <2>5, StageKinds DEF ChipInStep
<1>6. state' \notin StartStates \cup PollStates
  BY <1>1, StageKinds
<1> QED BY <1>1, <1>4, <1>5, <1>6, OtherChips

\* The bus asks for the status of a chip, and reads it out if it is ready.
LEMMA GetStatusKeeps ==
  ASSUME BusInv, NEW k \in Chip, k = chipR, GetStatus
  PROVE  Protocol'
<1>0. PICK b : b = nand[k].busy
  OBVIOUS
<1>1. /\ state \in PollStates
      /\ chipBusy' = [chipBusy EXCEPT ![k] = Append(@, b)]
      /\ state' = IF state = "GET_STATUS" /\ ~b THEN "READ_DATA_WAIT_BUF" ELSE "IDLE"
      /\ UNCHANGED <<chipQs, chipStages, cmdOutQ, chipR, cmdTagR, nand>>
  BY <1>0 DEF GetStatus, BusyIn, ReadsOut, PollStates
<1>2. /\ nand \in [Chip -> [busy : BOOLEAN, page : Seq(PageWord)]]
      /\ chipBusy \in [Chip -> Seq(BOOLEAN)]
  BY DEF BusInv, TypedInv, BusTyped, ScoreboardTyped
<1>3. b \in BOOLEAN
  BY <1>0, <1>2
<1>4. /\ chipStages[k] \in WaitStages /\ chipBusy[k] = << >>
      /\ ~StartQueued(k) /\ ~PollQueued(k) /\ chipStages[k] \notin RestStages
      /\ cmdTagR = Working(k).tag /\ state \in StatesOf[Working(k).op]
      /\ Working(k).op \in Op /\ ChipInStep(k) /\ chipQs[k] # << >>
  BY <1>1, AtTheBus
<1>5. /\ chipBusy'[k] = Append(chipBusy[k], b)
      /\ \A c \in Chip : c # k => chipBusy'[c] = chipBusy[c]
  BY <1>1, <1>2
<1>6. chipBusy'[k] = <<b>>
  BY <1>3, <1>4, <1>5
<1>7. ChipInStep(k)'
  <2>1. ~StartQueued(k)' /\ ~PollQueued(k)' /\ ~Starting(k)' /\ ~Polling(k)' /\ ~Starting(k)
    BY <1>1, <1>4, StageKinds
       DEF StartQueued, PollQueued, Queued, Starting, Polling, ReadStates
  <2>2. /\ Working(k)' = Working(k) /\ PageOf(Working(k).tag)' = PageOf(Working(k).tag)
        /\ PageOf(cmdTagR)' = PageOf(cmdTagR) /\ nand'[k] = nand[k]
        /\ chipQs'[k] = chipQs[k] /\ chipStages'[k] = chipStages[k]
    BY <1>1 DEF Working, PageOf, Word
  <2>3. chipBusy'[k] \in {<<TRUE>>, <<FALSE>>} /\ (chipBusy'[k] = <<FALSE>> <=> ~b)
    <3>1. CASE b
      <4>1. b = TRUE
        BY <3>1, <1>3
      <4> QED BY <1>6, <4>1, OneStatus
    <3>2. CASE ~b
      <4>1. b = FALSE
        BY <3>2, <1>3
      <4> QED BY <1>6, <4>1
    <3> QED BY <3>1, <3>2
  <2>4. Working(k).op = "READ_PAGE" => nand[k].page = PageOf(cmdTagR)
    BY <1>4, <2>1 DEF ChipInStep
  <2>5. Reading(k)' => ~b /\ nand[k].page = PageOf(cmdTagR)
    <3>1. Reading(k)' => state = "GET_STATUS" /\ ~b
      BY <1>1, StageKinds DEF Reading
    <3>2. state = "GET_STATUS" => Working(k).op = "READ_PAGE"
      BY <1>4 DEF StatesOf, Op
    <3> QED BY <2>4, <3>1, <3>2
  <2>6. nand'[k].busy <=> b
    BY <1>0, <2>2
  <2>7. /\ chipStages'[k] # "INIT" =>
             chipQs'[k] # << >> /\ chipStages'[k] \in StagesOf[Working(k)'.op]
        /\ chipStages'[k] \notin RestStages \cup IssuedStages
        /\ chipStages'[k] \in WaitStages =>
             ~PollQueued(k)' /\ ~Polling(k)' /\ chipBusy'[k] \in {<<TRUE>>, <<FALSE>>}
        /\ Working(k)'.op = "READ_PAGE" => nand'[k].page = PageOf(Working(k).tag)'
        /\ chipBusy'[k] = <<FALSE>> => ~nand'[k].busy
        /\ Reading(k)' => /\ ~nand'[k].busy /\ nand'[k].page = PageOf(cmdTagR)'
                          /\ chipBusy'[k] = <<FALSE>>
    BY <1>4, <2>1, <2>2, <2>3, <2>4, <2>5, <2>6, StageKinds DEF ChipInStep
  <2> QED BY <2>1, <2>7 DEF ChipInStep
<1>8. state' \notin StartStates \cup PollStates
  BY <1>1, StageKinds DEF ReadStates
<1> QED BY <1>1, <1>5, <1>7, <1>8, OtherChips

\* Only the state of the bus changes, and it starts and asks no more than before.
LEMMA BusGoesOn ==
  ASSUME BusInv, NEW k \in Chip, chipR = k,
         UNCHANGED <<chipQs, chipBusy, chipStages, cmdOutQ, chipR, cmdTagR>>,
         \A c \in Chip : c # k => nand'[c] = nand[c],
         nand'[k].busy = nand[k].busy, nand'[k].page # nand[k].page => state \in StartStates
           /\ Working(k).op # "READ_PAGE" /\ state' \notin ReadStates,
         state \in StartStates <=> state' \in StartStates,
         state \notin PollStates, state' \notin PollStates,
         state' \in ReadStates => state \in ReadStates,
         state' \in StartStates => state' = state \/ (state' = "WRITE_PAGE"
             /\ state = "WRITE_PAGE_WAIT")
  PROVE  Protocol'
<1>1. ChipInStep(k)'
  <2>1. /\ StartQueued(k)' <=> StartQueued(k)
        /\ PollQueued(k)' <=> PollQueued(k)
        /\ Starting(k)' <=> Starting(k)
        /\ Polling(k)' <=> Polling(k)
        /\ Reading(k)' => Reading(k)
    BY DEF StartQueued, PollQueued, Queued, Starting, Polling, Reading
  <2>2. /\ Working(k)' = Working(k) /\ PageOf(Working(k).tag)' = PageOf(Working(k).tag)
        /\ PageOf(cmdTagR)' = PageOf(cmdTagR) /\ chipBusy'[k] = chipBusy[k]
        /\ chipQs'[k] = chipQs[k] /\ chipStages'[k] = chipStages[k]
    BY DEF Working, PageOf, Word
  <2>3. ChipInStep(k)
    BY AtTheBus
  <2>4. /\ Reading(k)' => nand'[k].page = nand[k].page
        /\ Working(k).op = "READ_PAGE" => nand'[k].page = nand[k].page
    BY DEF Reading
  <2> QED BY <2>1, <2>2, <2>3, <2>4 DEF ChipInStep
<1>2. state' \in StartStates \cup PollStates =>
        /\ state \in StartStates \cup PollStates
        /\ state' = state \/ (state' = "WRITE_PAGE" /\ state = "WRITE_PAGE_WAIT")
  OBVIOUS
<1>3. /\ chipR' = k /\ UNCHANGED <<chipQs, chipStages, cmdOutQ, cmdTagR>>
      /\ \A c \in Chip : c # k => chipBusy'[c] = chipBusy[c] /\ nand'[c] = nand[c]
  OBVIOUS
<1> QED BY <1>1, <1>2, <1>3, OtherChips

\* The chip is ready to be read out.
LEMMA DoReadDataWaitBufKeeps ==
  ASSUME BusInv, NEW k \in Chip, chipR = k, DoReadDataWaitBuf
  PROVE  Protocol'
<1>1. /\ state = "READ_DATA_WAIT_BUF" /\ state' = "READ_DATA"
      /\ UNCHANGED <<chipQs, chipBusy, chipStages, cmdOutQ, chipR, cmdTagR, nand>>
  BY DEF DoReadDataWaitBuf, sbVars
<1>2. /\ state \notin StartStates /\ state' \notin StartStates
      /\ state \notin PollStates /\ state' \notin PollStates /\ state \in ReadStates
  BY <1>1, StageKinds DEF ReadStates
<1> QED BY <1>1, <1>2, BusGoesOn

\* A word is read out.
LEMMA DoReadDataKeeps ==
  ASSUME BusInv, NEW k \in Chip, chipR = k, DoReadData, state' \in {"READ_DATA", "IDLE"}
  PROVE  Protocol'
<1>1. /\ state = "READ_DATA"
      /\ UNCHANGED <<chipQs, chipBusy, chipStages, cmdOutQ, chipR, cmdTagR, nand>>
  BY DEF DoReadData, sbVars
<1>2. /\ state \notin StartStates /\ state' \notin StartStates
      /\ state \notin PollStates /\ state' \notin PollStates /\ state \in ReadStates
  BY <1>1, StageKinds DEF ReadStates
<1> QED BY <1>1, <1>2, BusGoesOn

\* A page begins to be written, or goes on.
LEMMA PageIsWritten ==
  ASSUME BusInv, NEW k \in Chip, chipR = k, state \in {"WRITE_PAGE_WAIT", "WRITE_PAGE"}
  PROVE  state \in StartStates /\ state \notin PollStates /\ Working(k).op = "WRITE_PAGE"
<1>1. state \in StartStates
  BY DEF StartStates
<1>2. Working(k).op \in Op /\ state \in StatesOf[Working(k).op]
  BY <1>1, AtTheBus
<1> QED BY <1>1, <1>2, StageKinds DEF StatesOf, Op

\* The first burst of a page takes what the chip held.
LEMMA DoWriteDataWaitKeeps ==
  ASSUME BusInv, NEW k \in Chip, chipR = k, DoWriteDataWait
  PROVE  Protocol'
<1>1. /\ state = "WRITE_PAGE_WAIT" /\ state' = "WRITE_PAGE"
      /\ nand' = [nand EXCEPT ![k].page = << >>]
      /\ UNCHANGED <<chipQs, chipBusy, chipStages, cmdOutQ, chipR, cmdTagR>>
  BY DEF DoWriteDataWait, sbVars
<1>2. nand \in [Chip -> [busy : BOOLEAN, page : Seq(PageWord)]]
  BY DEF BusInv, TypedInv, BusTyped
<1>3. nand'[k].busy = nand[k].busy /\ \A c \in Chip : c # k => nand'[c] = nand[c]
  BY <1>1, <1>2
<1>4. state \in StartStates /\ state \notin PollStates /\ Working(k).op = "WRITE_PAGE"
  BY <1>1, PageIsWritten
<1>5. state' \in StartStates /\ state' \notin PollStates /\ state' \notin ReadStates
  BY <1>1, StageKinds DEF StartStates
<1> QED BY <1>1, <1>3, <1>4, <1>5, BusGoesOn

\* The last word of a page makes the chip busy.
LEMMA DoWritePageDataKeeps ==
  ASSUME BusInv, NEW k \in Chip, chipR = k, DoWritePageData
  PROVE  Protocol'
<1> DEFINE last == dataCnt = PageWords - 1
<1>1. /\ state = "WRITE_PAGE" /\ state' = IF last THEN "IDLE" ELSE "WRITE_PAGE"
      /\ nand' = [nand EXCEPT ![k] =
                    [busy |-> last, page |-> Append(@.page, Head(encodeQ))]]
      /\ UNCHANGED <<chipQs, chipBusy, chipStages, cmdOutQ, chipR, cmdTagR>>
  BY DEF DoWritePageData, sbVars
<1>2. nand \in [Chip -> [busy : BOOLEAN, page : Seq(PageWord)]]
  BY DEF BusInv, TypedInv, BusTyped
<1>3. nand'[k].busy = last /\ \A c \in Chip : c # k => nand'[c] = nand[c]
  BY <1>1, <1>2
<1>4. state \in StartStates /\ state \notin PollStates /\ Working(k).op = "WRITE_PAGE"
  BY <1>1, PageIsWritten
<1>5. ~nand[k].busy /\ nand[k].busy \in BOOLEAN
  BY <1>2, <1>4, AtTheBus
<1>6. CASE ~last
  <2>1. state' = "WRITE_PAGE" /\ nand'[k].busy = nand[k].busy
    BY <1>1, <1>3, <1>5, <1>6
  <2>2. state' \in StartStates /\ state' \notin PollStates /\ state' \notin ReadStates
    BY <2>1, StageKinds DEF StartStates
  <2> QED BY <1>1, <1>3, <1>4, <2>1, <2>2, BusGoesOn
<1>7. CASE last
  <2>0. state' = "IDLE"
    BY <1>1, <1>7
  <2>1. /\ ~StartQueued(k) /\ ~StartQueued(k)'
        /\ PollQueued(k)' <=> PollQueued(k)
    BY <1>1, <1>4, AtTheBus DEF StartQueued, PollQueued, Queued
  <2>2. /\ Starting(k) /\ ~Polling(k)
        /\ ~Starting(k)' /\ ~Polling(k)' /\ ~Reading(k)'
    BY <1>1, <1>4, <2>0, StageKinds DEF Starting, Polling, Reading
  <2>3. /\ chipQs'[k] = chipQs[k] /\ chipBusy'[k] = chipBusy[k] /\ chipBusy[k] = << >>
        /\ chipStages'[k] = chipStages[k] /\ chipStages[k] \notin RestStages
        /\ chipBusy[k] \notin {<<TRUE>>, <<FALSE>>}
    BY <1>1, <1>4, AtTheBus, OneStatus
  <2>4. ChipInStep(k) /\ Working(k)' = Working(k)
    BY <1>1, AtTheBus DEF Working
  <2>5. ChipInStep(k)'
    BY <1>4, <2>1, <2>2, <2>3, <2>4, StageKinds DEF ChipInStep
  <2>6. state' \notin StartStates \cup PollStates
    BY <2>0, StageKinds
  <2> QED BY <1>1, <1>3, <2>5, <2>6, OtherChips
<1> QED BY <1>6, <1>7

\* A chip becomes ready.
LEMMA NandReadyKeeps ==
  ASSUME BusInv, NEW k \in Chip, NandReady(k)
  PROVE  Protocol'
<1>1. /\ nand[k].busy /\ nand' = [nand EXCEPT ![k].busy = FALSE]
      /\ UNCHANGED <<chipQs, chipBusy, chipStages, cmdOutQ, state, chipR, cmdTagR>>
  BY DEF NandReady, sbVars, ctlVars
<1>2. nand \in [Chip -> [busy : BOOLEAN, page : Seq(PageWord)]]
  BY DEF BusInv, TypedInv, BusTyped
<1>3. /\ nand'[k].busy = FALSE /\ nand'[k].page = nand[k].page
      /\ \A c \in Chip : c # k => nand'[c] = nand[c]
  BY <1>1, <1>2
<1>4. /\ StartBeforePoll /\ BusCmdsBelong /\ \A c \in Chip : ChipInStep(c)
  BY DEF BusInv, Protocol, ChipsInStep
<1>5. ASSUME NEW c \in Chip PROVE ChipInStep(c)'
  <2>1. /\ StartQueued(c)' <=> StartQueued(c)
        /\ PollQueued(c)' <=> PollQueued(c)
        /\ Starting(c)' <=> Starting(c)
        /\ Polling(c)' <=> Polling(c)
        /\ Reading(c)' <=> Reading(c)
    BY <1>1, BusAsBefore
  <2>2. CASE c # k
    BY <1>1, <1>3, <1>4, <2>1, <2>2, Bystander
  <2>3. CASE c = k
    <3>1. /\ Working(c)' = Working(c) /\ PageOf(Working(c).tag)' = PageOf(Working(c).tag)
          /\ PageOf(cmdTagR)' = PageOf(cmdTagR) /\ chipBusy'[c] = chipBusy[c]
          /\ chipQs'[c] = chipQs[c] /\ chipStages'[c] = chipStages[c]
      BY <1>1 DEF Working, PageOf, Word
    <3>2. ~nand'[c].busy /\ nand'[c].page = nand[c].page /\ ChipInStep(c)
      BY <1>3, <1>4, <2>3
    <3> QED BY <2>1, <3>1, <3>2 DEF ChipInStep
  <2> QED BY <2>2, <2>3
<1>6. StartBeforePoll' /\ BusCmdsBelong'
  BY <1>1, <1>4 DEF StartBeforePoll, BusCmdsBelong, Working
<1> QED BY <1>4, <1>5, <1>6 DEF Protocol, ChipsInStep

\* Every other step leaves alone what the protocol is about.
LEMMA ProtocolSame == Protocol /\ UNCHANGED chipVars => Protocol'
<1> SUFFICES ASSUME Protocol, UNCHANGED chipVars PROVE Protocol'
  OBVIOUS
<1>1. /\ UNCHANGED <<chipQs, chipBusy, chipStages, cmdOutQ, state, chipR, cmdTagR, nand>>
      /\ StartBeforePoll /\ BusCmdsBelong /\ \A c \in Chip : ChipInStep(c)
  BY DEF chipVars, Protocol, ChipsInStep
<1>2. StartBeforePoll' /\ BusCmdsBelong'
  BY <1>1 DEF StartBeforePoll, BusCmdsBelong, Working
<1>3. ASSUME NEW c \in Chip PROVE ChipInStep(c)'
  BY <1>1, BusAsBefore, Bystander
<1> QED BY <1>2, <1>3 DEF Protocol, ChipsInStep

\* The scoreboard services the chip it visits.
LEMMA DoServiceReqKeeps ==
  ASSUME BusInv, DoServiceReq, UNCHANGED busVars
  PROVE  Protocol'
<1>1. PICK k \in Chip : k = currChip
  BY DEF BusInv, TypedInv, TypeOK
<1>2. CASE IssueBusCmd
  BY <1>1, <1>2, IssueBusCmdKeeps DEF DoServiceReq
<1>3. CASE LookAtStatus
  BY <1>1, <1>3, LookAtStatusKeeps
<1>4. CASE WaitForData
  <2>1. UNCHANGED chipVars
    BY <1>4 DEF WaitForData, busVars, ctlVars, chipVars
  <2> QED BY <2>1, ProtocolSame DEF BusInv
<1> QED BY <1>2, <1>3, <1>4 DEF DoServiceReq


-----------------------------------------------------------------------------
\* Types.  Each component's are kept by the actions that change its variables.
LEMMA TypeOKParts == TypeOK <=> ScoreboardTypeOK /\ BusTypeOK /\ BuffersTypeOK
BY DEF TypeOK, ScoreboardTypeOK, BusTypeOK, BuffersTypeOK

\* What the table of the stages gives.
LEMMA IssuesTyped ==
  \A op \in Op : \A s \in DOMAIN Issues[op] :
    Issues[op][s] \in [busOp : {"WRITE_DATA_BUF_REQ"} \cup StartOps \cup PollOps,
                       stage : {"INIT", "RD_ISSUED", "RD_DATA", "WR_BUF_REQ_ISSUED",
                                "WR_ISSUED", "ER_ISSUED", "WAIT_STATUS"},
                       timer : 0 .. 1]
<1> SUFFICES ASSUME NEW op \in Op, NEW s \in DOMAIN Issues[op]
             PROVE  Issues[op][s] \in [busOp : {"WRITE_DATA_BUF_REQ"} \cup StartOps \cup PollOps,
                       stage : {"INIT", "RD_ISSUED", "RD_DATA", "WR_BUF_REQ_ISSUED",
                                "WR_ISSUED", "ER_ISSUED", "WAIT_STATUS"},
                       timer : 0 .. 1]
  OBVIOUS
<1>1. CASE op = "READ_PAGE"
  BY <1>1 DEF Issues, StartOps, PollOps
<1>2. CASE op = "WRITE_PAGE"
  BY <1>2 DEF Issues, StartOps, PollOps
<1>3. CASE op = "ERASE_BLOCK"
  BY <1>3 DEF Issues, StartOps, PollOps
<1> QED BY <1>1, <1>2, <1>3 DEF Op

\* There is a chip 0.
LEMMA ChipsExist == NumChips \in Nat \ {0} /\ 0 \in Chip /\ Chip \subseteq Nat
BY ChipAssumption DEF Chip

\* The round over the chips stays on the bus.
LEMMA NextChipType == ASSUME currChip \in Chip PROVE NextChip \in Chip
<1>1. currChip + 1 \in Nat /\ NumChips \in Nat \ {0}
  BY ChipsExist DEF Chip
<1> QED BY <1>1 DEF NextChip, Chip

\* The chip visited works on a command of its own.
LEMMA CurrReqType ==
  ASSUME ScoreboardTyped, ScoreboardTypeOK, sbState = "SERVICE_REQ"
  PROVE  chipQs[currChip] # << >> /\ currReq \in Cmd /\ currReq.op \in Op
<1>1. chipQs[currChip] \in Seq(Cmd) /\ chipQs[currChip] # << >>
  BY DEF ScoreboardTyped, ScoreboardTypeOK
<1>2. currReq \in Cmd
  BY <1>1 DEF currReq
<1> QED BY <1>1, <1>2, CmdFields

\* A chip is chosen only when it has a command.
LEMMA DoChooseChipTyped ==
  ASSUME ScoreboardTyped, ScoreboardTypeOK, DoChooseChip
  PROVE  (ScoreboardTyped /\ ScoreboardTypeOK)'
<1>1. NextChip \in Chip
  BY NextChipType DEF ScoreboardTypeOK
<1>2. ScoreboardTyped'
  BY DEF ScoreboardTyped, DoChooseChip
<1>3. ScoreboardTypeOK'
  BY <1>1 DEF ScoreboardTypeOK, DoChooseChip
<1> QED BY <1>2, <1>3

\* A timer runs out.
LEMMA DecBusyTimerTyped ==
  ASSUME ScoreboardTyped, ScoreboardTypeOK, NEW c \in Chip, DecBusyTimer(c)
  PROVE  (ScoreboardTyped /\ ScoreboardTypeOK)'
<1>1. busyTimers' = [busyTimers EXCEPT ![c] = 0]
      /\ UNCHANGED <<chipQs, chipBusy, chipStages, cmdOutQ, currChip, sbState, wdataRdy>>
  BY DEF DecBusyTimer
<1>2. busyTimers' \in [Chip -> 0 .. 1]
  BY <1>1 DEF ScoreboardTypeOK
<1>3. ScoreboardTyped'
  BY <1>1 DEF ScoreboardTyped
<1>4. ScoreboardTypeOK'
  BY <1>1, <1>2 DEF ScoreboardTypeOK
<1> QED BY <1>3, <1>4

\* A stage issues a bus command.
LEMMA IssueBusCmdTyped ==
  ASSUME ScoreboardTyped, ScoreboardTypeOK, DoServiceReq, IssueBusCmd
  PROVE  (ScoreboardTyped /\ ScoreboardTypeOK)'
<1>1. /\ sbState = "SERVICE_REQ" /\ sbState' = "NEXT_REQ" /\ currChip' = NextChip
      /\ UNCHANGED <<wdataRdy, chipQs, chipBusy>>
  BY DEF DoServiceReq, IssueBusCmd
<1>2. PICK next : next = Issues[currReq.op][stage]
  OBVIOUS
<1> DEFINE w == [tag |-> currReq.tag, busOp |-> next.busOp, chip |-> currReq.chip]
<1>3. /\ stage \in DOMAIN Issues[currReq.op]
      /\ cmdOutQ' = Append(cmdOutQ, w)
      /\ chipStages' = [chipStages EXCEPT ![currChip] = next.stage]
      /\ busyTimers' = [busyTimers EXCEPT ![currChip] = next.timer]
  BY <1>2 DEF IssueBusCmd, MoveTo
<1>4. currReq \in Cmd /\ currReq.op \in Op
  BY <1>1, CurrReqType
<1>5. next \in [busOp : {"WRITE_DATA_BUF_REQ"} \cup StartOps \cup PollOps,
                stage : {"INIT", "RD_ISSUED", "RD_DATA", "WR_BUF_REQ_ISSUED",
                         "WR_ISSUED", "ER_ISSUED", "WAIT_STATUS"},
                timer : 0 .. 1]
  BY <1>2, <1>3, <1>4, IssuesTyped
<1>6. w \in BusCmd
  BY <1>4, <1>5, CmdFields DEF BusCmd
<1>7. cmdOutQ' \in Seq(BusCmd)
  BY <1>3, <1>6 DEF ScoreboardTyped
<1>8. ScoreboardTyped'
  BY <1>1, <1>7 DEF ScoreboardTyped
<1>9. ScoreboardTypeOK'
  <2>1. chipStages' \in [Chip -> {"INIT", "RD_ISSUED", "RD_DATA", "WR_BUF_REQ_ISSUED",
                                  "WR_ISSUED", "ER_ISSUED", "WAIT_STATUS"}]
    BY <1>3, <1>5 DEF ScoreboardTypeOK
  <2>2. busyTimers' \in [Chip -> 0 .. 1]
    BY <1>3, <1>5 DEF ScoreboardTypeOK
  <2>3. NextChip \in Chip
    BY NextChipType DEF ScoreboardTypeOK
  <2> QED BY <1>1, <2>1, <2>2, <2>3 DEF ScoreboardTypeOK
<1> QED BY <1>8, <1>9

\* A status is taken, and with a ready chip its command.
LEMMA LookAtStatusTyped ==
  ASSUME ScoreboardTyped, ScoreboardTypeOK, DoServiceReq, LookAtStatus
  PROVE  (ScoreboardTyped /\ ScoreboardTypeOK)'
<1>1. PICK k : k = currChip
  OBVIOUS
<1>2. PICK busy : busy = Head(chipBusy[k])
  OBVIOUS
<1>3. /\ sbState = "SERVICE_REQ" /\ sbState' = "NEXT_REQ" /\ currChip' = NextChip
      /\ UNCHANGED <<wdataRdy, cmdOutQ>> /\ chipBusy[k] # << >>
      /\ chipStages' = [chipStages EXCEPT ![k] = IF busy THEN PollStage[currReq.op] ELSE "INIT"]
      /\ busyTimers' = IF busy THEN [busyTimers EXCEPT ![k] = 1] ELSE busyTimers
      /\ chipQs' = IF busy THEN chipQs ELSE [chipQs EXCEPT ![k] = Tail(@)]
      /\ chipBusy' = [chipBusy EXCEPT ![k] = Tail(@)]
  BY <1>1, <1>2 DEF DoServiceReq, LookAtStatus
<1>4. /\ k \in Chip /\ chipQs \in [Chip -> Seq(Cmd)] /\ chipBusy \in [Chip -> Seq(BOOLEAN)]
      /\ chipQs[k] # << >> /\ currReq.op \in Op
  BY <1>1, <1>3, CurrReqType DEF ScoreboardTyped, ScoreboardTypeOK
<1>5. PollStage[currReq.op] \in {"RD_ISSUED", "WR_ISSUED", "ER_ISSUED"}
  BY <1>4 DEF PollStage, Op
<1>6. /\ chipQs' \in [Chip -> Seq(Cmd)] /\ chipBusy' \in [Chip -> Seq(BOOLEAN)]
  <2>1. [chipQs EXCEPT ![k] = Tail(@)] \in [Chip -> Seq(Cmd)]
    BY <1>4, PopType
  <2>2. [chipBusy EXCEPT ![k] = Tail(@)] \in [Chip -> Seq(BOOLEAN)]
    BY <1>3, <1>4, PopType
  <2> QED BY <1>3, <2>1, <2>2
<1>7. ASSUME NEW c \in Chip
      PROVE  /\ \A i \in DOMAIN chipQs'[c] : chipQs'[c][i].chip = c
             /\ Len(chipQs'[c]) <= Len(chipQs[c]) /\ Len(chipBusy'[c]) <= Len(chipBusy[c])
  <2>1. chipBusy[c] \in Seq(BOOLEAN) /\ chipQs[c] \in Seq(Cmd)
        /\ \A i \in DOMAIN chipQs[c] : chipQs[c][i].chip = c
    BY <1>4 DEF ScoreboardTyped
  <2>2. chipBusy'[c] = IF c = k THEN Tail(chipBusy[c]) ELSE chipBusy[c]
    BY <1>3, <1>4
  <2>3. chipQs'[c] = chipQs[c] \/ (c = k /\ chipQs'[c] = Tail(chipQs[c]))
    BY <1>3, <1>4
  <2>4. Len(chipBusy'[c]) <= Len(chipBusy[c])
    BY <1>3, <2>1, <2>2
  <2>5. CASE chipQs'[c] = chipQs[c]
    BY <2>1, <2>4, <2>5
  <2>6. CASE c = k /\ chipQs'[c] = Tail(chipQs[c])
    BY <1>4, <2>1, <2>4, <2>6
  <2> QED BY <2>3, <2>5, <2>6
<1>8. ScoreboardTyped'
  BY <1>3, <1>6, <1>7 DEF ScoreboardTyped
<1>9. ScoreboardTypeOK'
  <2>1. chipStages' \in [Chip -> {"INIT", "RD_ISSUED", "RD_DATA", "WR_BUF_REQ_ISSUED",
                                  "WR_ISSUED", "ER_ISSUED", "WAIT_STATUS"}]
    BY <1>3, <1>5 DEF ScoreboardTypeOK
  <2>2. busyTimers' \in [Chip -> 0 .. 1]
    BY <1>3, <1>4 DEF ScoreboardTypeOK
  <2>3. NextChip \in Chip
    BY NextChipType DEF ScoreboardTypeOK
  <2>4. \A c \in Chip : Len(chipQs'[c]) <= ChipQDepth /\ Len(chipBusy'[c]) <= FifoDepth
    <3> TAKE c \in Chip
    <3>1. /\ Len(chipQs[c]) <= ChipQDepth /\ Len(chipBusy[c]) <= FifoDepth
          /\ Len(chipQs[c]) \in Nat /\ Len(chipBusy[c]) \in Nat
          /\ Len(chipQs'[c]) \in Nat /\ Len(chipBusy'[c]) \in Nat
      BY <1>4, <1>6 DEF ScoreboardTypeOK
    <3> QED BY <1>7, <3>1, ChipAssumption
  <2> QED BY <1>3, <2>1, <2>2, <2>3, <2>4 DEF ScoreboardTypeOK
<1> QED BY <1>8, <1>9

\* A chip is serviced.
LEMMA DoServiceReqTyped ==
  ASSUME ScoreboardTyped, ScoreboardTypeOK, DoServiceReq
  PROVE  (ScoreboardTyped /\ ScoreboardTypeOK)'
<1>1. CASE WaitForData
  <2>1. /\ sbState' = "NEXT_REQ" /\ currChip' = NextChip
        /\ UNCHANGED <<wdataRdy, chipQs, chipBusy, busyTimers, chipStages, cmdOutQ>>
    BY <1>1 DEF DoServiceReq, WaitForData
  <2>2. NextChip \in Chip
    BY NextChipType DEF ScoreboardTypeOK
  <2>3. ScoreboardTyped'
    BY <2>1 DEF ScoreboardTyped
  <2> QED BY <2>1, <2>2, <2>3 DEF ScoreboardTypeOK
<1> QED BY <1>1, IssueBusCmdTyped, LookAtStatusTyped DEF DoServiceReq

\* A command goes to the queue of its own chip, which has room.
LEMMA CmdInTyped ==
  ASSUME ScoreboardTyped, ScoreboardTypeOK, NEW cmd \in Cmd, CmdIn(cmd)
  PROVE  (ScoreboardTyped /\ ScoreboardTypeOK)'
<1>1. /\ cmd.chip \in Chip /\ Len(chipQs[cmd.chip]) < ChipQDepth
      /\ chipQs' = [chipQs EXCEPT ![cmd.chip] = Append(@, cmd)]
      /\ UNCHANGED <<chipBusy, busyTimers, chipStages, cmdOutQ, currChip, sbState, wdataRdy>>
  BY CmdFields DEF CmdIn
<1>2. chipQs \in [Chip -> Seq(Cmd)]
  BY DEF ScoreboardTyped
<1>3. chipQs' \in [Chip -> Seq(Cmd)]
  BY <1>1, <1>2, PushType
<1>4. ASSUME NEW c \in Chip
      PROVE  /\ \A i \in DOMAIN chipQs'[c] : chipQs'[c][i].chip = c
             /\ Len(chipQs'[c]) <= ChipQDepth
             /\ chipQs[c] # << >> => chipQs'[c] # << >>
  <2>1. /\ chipQs[c] \in Seq(Cmd) /\ Len(chipQs[c]) <= ChipQDepth
        /\ \A i \in DOMAIN chipQs[c] : chipQs[c][i].chip = c
    BY <1>2 DEF ScoreboardTyped, ScoreboardTypeOK
  <2>2. CASE c # cmd.chip
    BY <1>1, <1>2, <2>1, <2>2
  <2>3. CASE c = cmd.chip
    <3>1. chipQs'[c] = Append(chipQs[c], cmd) /\ Len(chipQs[c]) < ChipQDepth
      BY <1>1, <1>2, <2>3
    <3> QED BY <2>1, <2>3, <3>1, ChipAssumption
  <2> QED BY <2>2, <2>3
<1>5. ScoreboardTyped'
  BY <1>1, <1>3, <1>4 DEF ScoreboardTyped, ScoreboardTypeOK
<1>6. ScoreboardTypeOK'
  BY <1>1, <1>4 DEF ScoreboardTypeOK
<1> QED BY <1>5, <1>6

\* The bus takes a command.
LEMMA CmdOutTyped ==
  ASSUME ScoreboardTyped, ScoreboardTypeOK, CmdOut
  PROVE  (ScoreboardTyped /\ ScoreboardTypeOK)' /\ Head(cmdOutQ) \in BusCmd
<1>1. /\ cmdOutQ # << >> /\ cmdOutQ' = Tail(cmdOutQ)
      /\ UNCHANGED <<chipQs, chipBusy, busyTimers, chipStages, currChip, sbState, wdataRdy>>
  BY DEF CmdOut
<1>2. cmdOutQ' \in Seq(BusCmd) /\ Head(cmdOutQ) \in BusCmd
  BY <1>1 DEF ScoreboardTyped
<1>3. ScoreboardTyped'
  BY <1>1, <1>2 DEF ScoreboardTyped
<1>4. ScoreboardTypeOK'
  BY <1>1 DEF ScoreboardTypeOK
<1> QED BY <1>2, <1>3, <1>4

\* A status is put behind those of its chip, which have room.
LEMMA BusyInTyped ==
  ASSUME ScoreboardTyped, ScoreboardTypeOK, NEW k \in Chip, NEW b \in BOOLEAN, BusyIn(k, b)
  PROVE  (ScoreboardTyped /\ ScoreboardTypeOK)'
<1>1. /\ Len(chipBusy[k]) < FifoDepth
      /\ chipBusy' = [chipBusy EXCEPT ![k] = Append(@, b)]
      /\ UNCHANGED <<chipQs, busyTimers, chipStages, cmdOutQ, currChip, sbState, wdataRdy>>
  BY DEF BusyIn
<1>2. chipBusy \in [Chip -> Seq(BOOLEAN)]
  BY DEF ScoreboardTyped
<1>3. chipBusy' \in [Chip -> Seq(BOOLEAN)]
  BY <1>1, <1>2, PushType
<1>4. ASSUME NEW c \in Chip PROVE Len(chipBusy'[c]) <= FifoDepth
  <2>1. chipBusy[c] \in Seq(BOOLEAN) /\ Len(chipBusy[c]) <= FifoDepth
    BY <1>2 DEF ScoreboardTypeOK
  <2>2. chipBusy'[c] = IF c = k THEN Append(chipBusy[c], b) ELSE chipBusy[c]
    BY <1>1, <1>2
  <2>3. Len(Append(chipBusy[c], b)) = Len(chipBusy[c]) + 1
    BY <2>1
  <2>4. Len(chipBusy[c]) \in Nat
    BY <2>1
  <2> QED BY <1>1, <2>1, <2>2, <2>3, <2>4, ChipAssumption
<1>5. ScoreboardTyped'
  BY <1>1, <1>3 DEF ScoreboardTyped
<1>6. ScoreboardTypeOK'
  BY <1>1, <1>4 DEF ScoreboardTypeOK
<1> QED BY <1>5, <1>6

\* The scoreboard is left alone, but for the ready tag.
LEMMA ScoreboardSame ==
  ASSUME ScoreboardTyped, ScoreboardTypeOK,
         UNCHANGED <<chipQs, chipBusy, busyTimers, chipStages, cmdOutQ, currChip, sbState>>,
         wdataRdy' \in Tag \cup {NoTag}
  PROVE  (ScoreboardTyped /\ ScoreboardTypeOK)'
<1>1. ScoreboardTyped'
  BY DEF ScoreboardTyped
<1>2. ScoreboardTypeOK'
  BY DEF ScoreboardTypeOK
<1> QED BY <1>1, <1>2

\* The bus.
BusTypes == BusTyped /\ BusTypeOK /\ BurstCounted

\* The states of each kind.
LEMMA BusStates ==
  /\ StartStates = {"READ_PAGE_REQ", "WRITE_PAGE_WAIT", "WRITE_PAGE", "ERASE_BLOCK"}
  /\ PollStates = {"GET_STATUS", "WRITE_GET_STATUS", "ERASE_GET_STATUS"}
  /\ ReadStates = {"READ_DATA_WAIT_BUF", "READ_DATA"}
BY DEF StartStates, PollStates, ReadStates

\* The depths the bus depends on.
LEMMA Depths ==
  PageWords \in Nat \ {0} /\ EncodeDepth \in Nat \ {0} /\ DecodeInDepth = PageWords + 1
BY BusAssumption DEF DecodeInDepth

\* A page has PageWords words.
LEMMA PageOfType ==
  ASSUME NEW t \in Tag
  PROVE  PageOf(t) \in Seq(PageWord) /\ Len(PageOf(t)) = PageWords
<1>1. \A i \in 1 .. PageWords : Word(t, i - 1) \in PageWord
  BY Depths DEF Word, PageWord
<1> QED BY <1>1, Depths DEF PageOf

\* The bus is left alone.
LEMMA BusSame ==
  ASSUME BusTypes,
         UNCHANGED <<flashCmdQ, state, chipR, cmdTagR, dataCnt, encodeQ, decodeInQ, nand>>
  PROVE  BusTypes'
<1>1. BusTyped'
  BY DEF BusTypes, BusTyped
<1>2. BusTypeOK'
  BY DEF BusTypes, BusTypeOK
<1>3. BurstCounted'
  BY DEF BusTypes, BurstCounted
<1> QED BY <1>1, <1>2, <1>3 DEF BusTypes

\* Only the queues at the ends of the bus change.
LEMMA QueuesTyped ==
  ASSUME BusTypes, UNCHANGED <<state, chipR, cmdTagR, dataCnt, nand>>,
         flashCmdQ' \in Seq(Cmd), encodeQ' \in Seq(PageWord), decodeInQ' \in Seq(PageWord),
         Len(encodeQ') <= EncodeDepth, Len(decodeInQ') <= Len(decodeInQ)
  PROVE  BusTypes'
<1>1. /\ dataCnt \in Nat /\ Len(decodeInQ) \in Nat /\ Len(decodeInQ') \in Nat
      /\ Len(decodeInQ) <= DecodeInDepth /\ DecodeInDepth \in Nat
  BY Depths DEF BusTypes, BusTyped, BusTypeOK
<1>2. BusTyped'
  BY DEF BusTypes, BusTyped
<1>3. BusTypeOK'
  BY <1>1 DEF BusTypes, BusTypeOK
<1>4. BurstCounted'
  BY <1>1 DEF BusTypes, BurstCounted
<1> QED BY <1>2, <1>3, <1>4 DEF BusTypes

\* A burst starts from zero.
LEMMA DoDecodeCmdTyped ==
  ASSUME BusTypes, DoDecodeCmd, Head(cmdOutQ) \in BusCmd
  PROVE  BusTypes'
<1>1. PICK m : m = Head(cmdOutQ)
  OBVIOUS
<1>2. /\ state' = StateOf[m.busOp] /\ chipR' = m.chip /\ cmdTagR' = m.tag /\ dataCnt' = 0
      /\ UNCHANGED <<flashCmdQ, encodeQ, decodeInQ, nand>>
  BY <1>1 DEF DoDecodeCmd, readVars
<1>3. /\ m.tag \in Tag /\ m.chip \in Chip
      /\ m.busOp \in {"WRITE_DATA_BUF_REQ"} \cup StartOps \cup PollOps
  BY <1>1 DEF BusCmd
<1>4. state' \in {"IDLE"} \cup StartStates \cup PollStates
  BY <1>2, <1>3, StateTable
<1>5. BusTyped'
  BY <1>2, <1>4 DEF BusTypes, BusTyped
<1>6. BusTypeOK'
  BY <1>2, <1>3, Depths DEF BusTypes, BusTypeOK
<1>7. state' # "READ_DATA"
  BY <1>4, BusStates
<1>8. BurstCounted'
  BY <1>2, <1>7, Depths DEF BurstCounted
<1> QED BY <1>5, <1>6, <1>8 DEF BusTypes

\* A chip fetches a page or erases a block.
LEMMA StartChipTyped ==
  ASSUME BusTypes, StartChip, cmdTagR \in Tag
  PROVE  BusTypes'
<1>1. PICK p : p = IF state = "READ_PAGE_REQ" THEN PageOf(cmdTagR) ELSE << >>
  OBVIOUS
<1>2. /\ nand' = [nand EXCEPT ![chipR] = [busy |-> TRUE, page |-> p]] /\ state' = "IDLE"
      /\ UNCHANGED <<flashCmdQ, chipR, cmdTagR, dataCnt, encodeQ, decodeInQ>>
  BY <1>1 DEF StartChip, wrVars, readVars
<1>3. p \in Seq(PageWord)
  BY <1>1, PageOfType
<1>4. nand' \in [Chip -> [busy : BOOLEAN, page : Seq(PageWord)]]
  BY <1>2, <1>3 DEF BusTypes, BusTyped
<1>5. BusTyped'
  BY <1>2, <1>4 DEF BusTypes, BusTyped
<1>6. BusTypeOK'
  BY <1>2 DEF BusTypes, BusTypeOK
<1>7. BurstCounted'
  BY <1>2 DEF BurstCounted
<1> QED BY <1>5, <1>6, <1>7 DEF BusTypes

\* A poll ends idle or before a read-out.
LEMMA GetStatusTyped ==
  ASSUME BusTypes, GetStatus
  PROVE  BusTypes' /\ nand[chipR].busy \in BOOLEAN
<1>1. /\ state \in PollStates /\ state' \in {"READ_DATA_WAIT_BUF", "IDLE"}
      /\ UNCHANGED <<flashCmdQ, chipR, cmdTagR, dataCnt, encodeQ, decodeInQ, nand>>
  BY DEF GetStatus, PollStates, wrVars, readVars
<1>2. dataCnt = 0
  BY <1>1, BusStates DEF BusTypes, BurstCounted
<1>3. BusTyped'
  BY <1>1, BusStates DEF BusTypes, BusTyped
<1>4. BusTypeOK'
  BY <1>1 DEF BusTypes, BusTypeOK
<1>5. BurstCounted'
  BY <1>1, <1>2 DEF BurstCounted
<1>6. nand[chipR].busy \in BOOLEAN
  <2>1. nand[chipR] \in [busy : BOOLEAN, page : Seq(PageWord)]
    BY DEF BusTypes, BusTyped, BusTypeOK
  <2> QED BY <2>1
<1> QED BY <1>3, <1>4, <1>5, <1>6 DEF BusTypes

\* A read-out begins with an empty decoder queue.
LEMMA DoReadDataWaitBufTyped ==
  ASSUME BusTypes, DoReadDataWaitBuf
  PROVE  BusTypes'
<1>1. /\ state = "READ_DATA_WAIT_BUF" /\ state' = "READ_DATA" /\ decodeInQ = << >>
      /\ UNCHANGED <<flashCmdQ, chipR, cmdTagR, dataCnt, encodeQ, decodeInQ, nand>>
  BY DEF DoReadDataWaitBuf, wrVars, readVars
<1>2. dataCnt = 0 /\ Len(decodeInQ) = 0
  BY <1>1 DEF BusTypes, BurstCounted
<1>3. BusTyped'
  BY <1>1, BusStates DEF BusTypes, BusTyped
<1>4. BusTypeOK'
  BY <1>1 DEF BusTypes, BusTypeOK
<1>5. BurstCounted'
  BY <1>1, <1>2, Depths DEF BurstCounted
<1> QED BY <1>3, <1>4, <1>5 DEF BusTypes

\* The decoder's queue has room for what is left of the page.
LEMMA DoReadDataTyped ==
  ASSUME BusTypes, DoReadData, nand[chipR].page = PageOf(cmdTagR)
  PROVE  BusTypes' /\ state' \in {"READ_DATA", "IDLE"}
<1>1. PICK w : w = nand[chipR].page[dataCnt + 1]
  OBVIOUS
<1>2. /\ state = "READ_DATA" /\ dataCnt \in Nat /\ dataCnt < PageWords
      /\ decodeInQ \in Seq(PageWord) /\ Len(decodeInQ) <= dataCnt
  BY Depths DEF DoReadData, BusTypes, BusTyped, BusTypeOK, BurstCounted
<1>3. Len(decodeInQ) # DecodeInDepth
  BY <1>2, Depths
<1>4. /\ state' = IF dataCnt = PageWords - 1 THEN "IDLE" ELSE "READ_DATA"
      /\ decodeInQ' = Append(decodeInQ, w) /\ dataCnt' = dataCnt + 1
      /\ UNCHANGED <<flashCmdQ, chipR, cmdTagR, encodeQ, nand>>
  BY <1>1, <1>2, <1>3 DEF DoReadData, wrVars
<1>5. w \in PageWord
  <2>1. nand[chipR] \in [busy : BOOLEAN, page : Seq(PageWord)]
    BY DEF BusTypes, BusTyped, BusTypeOK
  <2>2. nand[chipR].page \in Seq(PageWord)
    BY <2>1
  <2>3. DOMAIN nand[chipR].page = 1 .. PageWords
    BY DEF PageOf
  <2>4. dataCnt + 1 \in 1 .. PageWords
    BY <1>2, Depths
  <2>5. \A q \in Seq(PageWord) : \A i \in DOMAIN q : q[i] \in PageWord
    OBVIOUS
  <2> QED BY <1>1, <2>2, <2>3, <2>4, <2>5
<1>6. decodeInQ' \in Seq(PageWord) /\ Len(decodeInQ') = Len(decodeInQ) + 1
  BY <1>2, <1>4, <1>5
<1>7. BusTyped'
  BY <1>4, <1>6, BusStates DEF BusTypes, BusTyped
<1>8. BusTypeOK'
  BY <1>2, <1>4, <1>6, Depths DEF BusTypes, BusTypeOK
<1>9. BurstCounted'
  BY <1>2, <1>4, <1>6, Depths DEF BurstCounted
<1> QED BY <1>4, <1>7, <1>8, <1>9 DEF BusTypes

\* The first word of a page is next.
LEMMA DoWriteDataWaitTyped ==
  ASSUME BusTypes, DoWriteDataWait
  PROVE  BusTypes'
<1>1. /\ state = "WRITE_PAGE_WAIT" /\ state' = "WRITE_PAGE"
      /\ nand' = [nand EXCEPT ![chipR].page = << >>]
      /\ UNCHANGED <<flashCmdQ, chipR, cmdTagR, dataCnt, encodeQ, decodeInQ>>
  BY DEF DoWriteDataWait, wrVars, readVars
<1>2. dataCnt = 0
  BY <1>1 DEF BusTypes, BurstCounted
<1>3. nand' \in [Chip -> [busy : BOOLEAN, page : Seq(PageWord)]]
  <2>1. nand \in [Chip -> [busy : BOOLEAN, page : Seq(PageWord)]] /\ chipR \in Chip
    BY DEF BusTypes, BusTyped, BusTypeOK
  <2>2. [nand[chipR] EXCEPT !.page = << >>] \in [busy : BOOLEAN, page : Seq(PageWord)]
    <3>1. nand[chipR] \in [busy : BOOLEAN, page : Seq(PageWord)] /\ << >> \in Seq(PageWord)
      BY <2>1
    <3>2. \A S : \A r \in [busy : BOOLEAN, page : S] : \A p \in S :
            [r EXCEPT !.page = p] \in [busy : BOOLEAN, page : S]
      OBVIOUS
    <3> QED BY <3>1, <3>2
  <2> QED BY <1>1, <2>1, <2>2
<1>4. BusTyped'
  BY <1>1, <1>3, BusStates DEF BusTypes, BusTyped
<1>5. BusTypeOK'
  BY <1>1 DEF BusTypes, BusTypeOK
<1>6. BurstCounted'
  BY <1>1, <1>2, Depths DEF BurstCounted
<1> QED BY <1>4, <1>5, <1>6 DEF BusTypes

\* A word is written, the last one ends the burst.
LEMMA DoWritePageDataTyped ==
  ASSUME BusTypes, DoWritePageData
  PROVE  BusTypes'
<1>1. PICK last \in BOOLEAN : last = (dataCnt = PageWords - 1)
  OBVIOUS
<1>2. /\ state = "WRITE_PAGE" /\ encodeQ # << >> /\ encodeQ' = Tail(encodeQ)
      /\ state' = IF last THEN "IDLE" ELSE "WRITE_PAGE"
      /\ dataCnt' = dataCnt + 1
      /\ nand' = [nand EXCEPT ![chipR] =
                    [busy |-> last, page |-> Append(@.page, Head(encodeQ))]]
      /\ UNCHANGED <<flashCmdQ, chipR, cmdTagR, decodeInQ>>
  BY <1>1 DEF DoWritePageData, readVars
<1>3. /\ dataCnt \in Nat /\ dataCnt < PageWords /\ encodeQ \in Seq(PageWord)
      /\ Len(encodeQ) <= EncodeDepth /\ chipR \in Chip
      /\ nand \in [Chip -> [busy : BOOLEAN, page : Seq(PageWord)]]
  BY <1>2, Depths DEF BusTypes, BusTyped, BusTypeOK, BurstCounted
<1>4. /\ Head(encodeQ) \in PageWord /\ encodeQ' \in Seq(PageWord)
      /\ Len(encodeQ') = Len(encodeQ) - 1 /\ Len(encodeQ) \in Nat
  BY <1>2, <1>3
<1>5. nand' \in [Chip -> [busy : BOOLEAN, page : Seq(PageWord)]]
  <2>1. nand[chipR] \in [busy : BOOLEAN, page : Seq(PageWord)]
    BY <1>3
  <2>2. Append(nand[chipR].page, Head(encodeQ)) \in Seq(PageWord)
    BY <1>4, <2>1
  <2> QED BY <1>2, <1>3, <2>2
<1>6. BusTyped'
  BY <1>2, <1>4, <1>5, BusStates DEF BusTypes, BusTyped
<1>7. BusTypeOK'
  BY <1>2, <1>3, <1>4, Depths DEF BusTypes, BusTypeOK
<1>8. BurstCounted'
  <2>1. CASE last
    <3>1. state' = "IDLE"
      BY <1>2, <2>1
    <3> QED BY <3>1 DEF BurstCounted
  <2>2. CASE ~last
    <3>1. state' = "WRITE_PAGE" /\ dataCnt # PageWords - 1 /\ dataCnt' = dataCnt + 1
      BY <1>1, <1>2, <2>2
    <3>2. dataCnt' < PageWords
      BY <1>3, <3>1, Depths
    <3> QED BY <3>1, <3>2 DEF BurstCounted
  <2> QED BY <2>1, <2>2
<1> QED BY <1>6, <1>7, <1>8 DEF BusTypes

\* A chip becomes ready.
LEMMA NandReadyTyped ==
  ASSUME BusTypes, NEW c \in Chip, NandReady(c)
  PROVE  BusTypes'
<1>1. /\ nand' = [nand EXCEPT ![c].busy = FALSE]
      /\ UNCHANGED <<flashCmdQ, state, chipR, cmdTagR, dataCnt, encodeQ, decodeInQ>>
  BY DEF NandReady, ctlVars, wrVars, readVars
<1>2. nand' \in [Chip -> [busy : BOOLEAN, page : Seq(PageWord)]]
  BY <1>1 DEF BusTypes, BusTyped
<1>3. BusTyped'
  BY <1>1, <1>2 DEF BusTypes, BusTyped
<1>4. BusTypeOK'
  BY <1>1 DEF BusTypes, BusTypeOK
<1>5. BurstCounted'
  BY <1>1 DEF BusTypes, BurstCounted
<1> QED BY <1>3, <1>4, <1>5 DEF BusTypes

\* The write page buffers and what the user knows.
BufferTypes == BuffersTyped /\ BuffersTypeOK

CtrlType == [op : Op \cup {"none"}, asked : BOOLEAN, cnt : Nat]

\* Every way in which what the user knows of a tag changes.
LEMMA CtrlPut ==
  ASSUME ctrl \in [Tag -> CtrlType], NEW t
  PROVE  /\ t \in Tag => ctrl[t] \in CtrlType /\ ctrl[t].cnt \in Nat
         /\ \A op \in Op : [ctrl EXCEPT ![t].op = op] \in [Tag -> CtrlType]
         /\ [ctrl EXCEPT ![t].asked = TRUE] \in [Tag -> CtrlType]
         /\ [ctrl EXCEPT ![t].cnt = @ + 1] \in [Tag -> CtrlType]
         /\ [ctrl EXCEPT ![t] = User!Free] \in [Tag -> CtrlType]
<1>1. t \in Tag => ctrl[t] \in CtrlType /\ ctrl[t].cnt \in Nat
  BY DEF CtrlType
<1>2. \A op \in Op : [ctrl EXCEPT ![t].op = op] \in [Tag -> CtrlType]
  BY <1>1 DEF CtrlType
<1>3. [ctrl EXCEPT ![t].asked = TRUE] \in [Tag -> CtrlType]
  BY <1>1 DEF CtrlType
<1>4. ASSUME t \in Tag PROVE [ctrl[t] EXCEPT !.cnt = ctrl[t].cnt + 1] \in CtrlType
  <2>1. ctrl[t] \in CtrlType /\ ctrl[t].cnt + 1 \in Nat
    BY <1>1, <1>4
  <2> QED BY <2>1 DEF CtrlType
<1>5. [ctrl EXCEPT ![t].cnt = @ + 1] \in [Tag -> CtrlType]
  BY <1>4
<1>6. User!Free \in CtrlType
  BY DEF User!Free, CtrlType
<1>7. [ctrl EXCEPT ![t] = User!Free] \in [Tag -> CtrlType]
  BY <1>6
<1> QED BY <1>1, <1>2, <1>3, <1>5, <1>7

\* The buffers are left alone.
LEMMA BuffersSame ==
  ASSUME BufferTypes,
         UNCHANGED <<writePageBufBack, writePageBufFront, writeWordCnt, wdataCnt>>,
         ctrl' \in [Tag -> CtrlType]
  PROVE  BufferTypes'
BY DEF BufferTypes, BuffersTyped, BuffersTypeOK, CtrlType

\* A word the user writes is a word of its page.
LEMMA WriteWordTyped ==
  ASSUME BufferTypes, NEW t \in Tag, WriteWord(t)
  PROVE  BufferTypes'
<1>1. ctrl \in [Tag -> CtrlType]
  BY DEF BufferTypes, BuffersTyped, CtrlType
<1>2. /\ ctrl' = [ctrl EXCEPT ![t].cnt = @ + 1]
      /\ writePageBufBack' = Append(writePageBufBack, Word(t, ctrl[t].cnt))
      /\ writeWordCnt' = IF writeWordCnt = PageWords - 1 THEN 0 ELSE writeWordCnt + 1
      /\ UNCHANGED <<writePageBufFront, wdataCnt>>
  BY DEF WriteWord, User!WriteWord
<1>3. ctrl' \in [Tag -> CtrlType] /\ ctrl[t].cnt \in Nat
  BY <1>1, <1>2, CtrlPut
<1>4. Word(t, ctrl[t].cnt) \in PageWord
  BY <1>3 DEF Word, PageWord
<1>5. writePageBufBack' \in Seq(PageWord)
  BY <1>2, <1>4 DEF BufferTypes, BuffersTyped
<1>6. writeWordCnt' \in 0 .. PageWords - 1
  BY <1>2, Depths DEF BufferTypes, BuffersTypeOK
<1> QED BY <1>2, <1>3, <1>5, <1>6 DEF BufferTypes, BuffersTyped, BuffersTypeOK, CtrlType

\* A word moves from the back buffer to the front buffer.
LEMMA DoWriteBufTransferTyped ==
  ASSUME BufferTypes, DoWriteBufTransfer
  PROVE  BufferTypes'
<1>1. /\ writePageBufBack # << >> /\ writePageBufBack' = Tail(writePageBufBack)
      /\ writePageBufFront' = Append(writePageBufFront, Head(writePageBufBack))
      /\ UNCHANGED <<writeWordCnt, wdataCnt, ctrl>>
  BY DEF DoWriteBufTransfer
<1>2. writePageBufBack' \in Seq(PageWord) /\ writePageBufFront' \in Seq(PageWord)
  BY <1>1 DEF BufferTypes, BuffersTyped
<1> QED BY <1>1, <1>2 DEF BufferTypes, BuffersTyped, BuffersTypeOK

\* The tag shown to the scoreboard is that of a page, or none.
LEMMA ReadyTagType ==
  ASSUME BufferTypes
  PROVE  ReadyTag \in Tag \cup {NoTag}
<1>1. CASE FrontFull
  <2>1. writePageBufFront \in Seq(PageWord) /\ writePageBufFront # << >>
    BY <1>1, Depths DEF BufferTypes, BuffersTyped, FrontFull
  <2>2. Head(writePageBufFront) \in PageWord
    BY <2>1
  <2> QED BY <1>1, <2>2 DEF ReadyTag, PageWord
<1> QED BY <1>1 DEF ReadyTag

\* A word leaves the front buffer, or the page is through.
LEMMA DoWriteDataTransferToBusTyped ==
  ASSUME BusTypes, BufferTypes, DoWriteDataTransferToBus
  PROVE  BusTypes' /\ BufferTypes'
<1>1. CASE wdataCnt < PageWords
  <2>1. PICK w : w = Head(writePageBufFront)
    OBVIOUS
  <2>2. /\ writePageBufFront # << >> /\ writePageBufFront' = Tail(writePageBufFront)
        /\ wdataCnt' = wdataCnt + 1
        /\ Len(encodeQ) < EncodeDepth /\ encodeQ' = Append(encodeQ, w)
        /\ UNCHANGED <<writePageBufBack, writeWordCnt, ctrl>>
        /\ UNCHANGED <<flashCmdQ, state, chipR, cmdTagR, dataCnt, decodeInQ, nand>>
    BY <1>1, <2>1 DEF DoWriteDataTransferToBus, BusWriteWord, ctlVars, readVars
  <2>3. writePageBufFront' \in Seq(PageWord) /\ w \in PageWord
    BY <2>1, <2>2 DEF BufferTypes, BuffersTyped
  <2>4. wdataCnt' \in 0 .. PageWords
    BY <1>1, <2>2, Depths DEF BufferTypes, BuffersTypeOK
  <2>5. BufferTypes'
    BY <2>2, <2>3, <2>4 DEF BufferTypes, BuffersTyped, BuffersTypeOK
  <2>6. /\ encodeQ' \in Seq(PageWord) /\ Len(encodeQ') <= EncodeDepth
        /\ decodeInQ' \in Seq(PageWord) /\ flashCmdQ' \in Seq(Cmd)
        /\ Len(decodeInQ') <= Len(decodeInQ)
    BY <2>2, <2>3, Depths DEF BusTypes, BusTyped
  <2>7. BusTypes'
    BY <2>2, <2>6, QueuesTyped
  <2> QED BY <2>5, <2>7
<1>2. CASE ~(wdataCnt < PageWords)
  <2>1. UNCHANGED <<busVars, writePageBufBack, writePageBufFront, writeWordCnt, wdataCnt, ctrl>>
    BY <1>2 DEF DoWriteDataTransferToBus
  <2>2. BusTypes'
    BY <2>1, BusSame DEF busVars, ctlVars, wrVars, readVars
  <2>3. BufferTypes'
    BY <2>1 DEF BufferTypes, BuffersTyped, BuffersTypeOK
  <2> QED BY <2>2, <2>3
<1> QED BY <1>1, <1>2

-----------------------------------------------------------------------------
\* Every step keeps the invariant.
LEMMA Parts ==
  BusInv <=> ScoreboardTyped /\ ScoreboardTypeOK /\ BusTypes /\ BufferTypes /\ Protocol
BY TypeOKParts DEF BusInv, TypedInv, BusTypes, BufferTypes

\* The invariant from its parts, after a step.
LEMMA PartsNext ==
  ASSUME (ScoreboardTyped /\ ScoreboardTypeOK)', BusTypes', BufferTypes', Protocol'
  PROVE  BusInv'
<1>1. ScoreboardTypeOK' /\ BusTypeOK' /\ BuffersTypeOK' => TypeOK'
  BY DEF TypeOK, ScoreboardTypeOK, BusTypeOK, BuffersTypeOK
<1> QED BY <1>1 DEF BusInv, TypedInv, BusTypes, BufferTypes

\* A step that leaves a component alone.
LEMMA Untouched ==
  ASSUME BusInv
  PROVE  /\ UNCHANGED sbVars => (ScoreboardTyped /\ ScoreboardTypeOK)'
         /\ UNCHANGED busVars => BusTypes'
         /\ UNCHANGED <<bufVars, ctrl>> => BufferTypes'
         /\ UNCHANGED chipVars => Protocol'
<1>1. ScoreboardTyped /\ ScoreboardTypeOK /\ BusTypes /\ BufferTypes /\ Protocol
  BY Parts
<1>2. ASSUME UNCHANGED sbVars PROVE (ScoreboardTyped /\ ScoreboardTypeOK)'
  <2>1. /\ UNCHANGED <<chipQs, chipBusy, busyTimers, chipStages, cmdOutQ, currChip, sbState>>
        /\ wdataRdy' \in Tag \cup {NoTag}
    BY <1>1, <1>2 DEF sbVars, ScoreboardTypeOK
  <2> QED BY <1>1, <2>1, ScoreboardSame
<1>3. UNCHANGED busVars => BusTypes'
  BY <1>1, BusSame DEF busVars, ctlVars, wrVars, readVars
<1>4. UNCHANGED <<bufVars, ctrl>> => BufferTypes'
  BY <1>1 DEF bufVars, BufferTypes, BuffersTyped, BuffersTypeOK
<1>5. UNCHANGED chipVars => Protocol'
  BY <1>1, ProtocolSame
<1> QED BY <1>2, <1>3, <1>4, <1>5

\* The rules of the scoreboard.
LEMMA ScoreboardStep ==
  ASSUME BusInv, SBRule, UNCHANGED <<busVars, bufVars, ctrl>>
  PROVE  BusInv'
<1>1. ScoreboardTyped /\ ScoreboardTypeOK /\ BusTypes' /\ BufferTypes' /\ UNCHANGED busVars
  BY Parts, Untouched
<1>2. CASE DoChooseChip
  <2>1. Protocol'
    BY <1>1, <1>2, Untouched DEF DoChooseChip, chipVars, busVars, ctlVars
  <2> QED BY <1>1, <1>2, <2>1, DoChooseChipTyped, PartsNext
<1>3. CASE DoServiceReq
  BY <1>1, <1>3, DoServiceReqTyped, DoServiceReqKeeps, PartsNext
<1>4. ASSUME NEW c \in Chip, DecBusyTimer(c) PROVE BusInv'
  <2>1. Protocol'
    BY <1>1, <1>4, Untouched DEF DecBusyTimer, chipVars, busVars, ctlVars
  <2> QED BY <1>1, <1>4, <2>1, DecBusyTimerTyped, PartsNext
<1> QED BY <1>2, <1>3, <1>4 DEF SBRule

\* The rules that move commands, statuses and pages over the bus.
LEMMA BusRuleStep ==
  ASSUME BusInv, BusStep, UNCHANGED <<bufVars, ctrl>>
  PROVE  BusInv' 
<1>1. ScoreboardTyped /\ ScoreboardTypeOK /\ BusTypes /\ BufferTypes'
  BY Parts, Untouched
<1>2. PICK k \in Chip : chipR = k
  BY <1>1 DEF BusTypes, BusTypeOK
<1>3. CASE DoDecodeCmd
  <2>1. (ScoreboardTyped /\ ScoreboardTypeOK)' /\ Head(cmdOutQ) \in BusCmd
    BY <1>1, <1>3, CmdOutTyped DEF DoDecodeCmd
  <2> QED BY <1>1, <1>3, <2>1, DoDecodeCmdTyped, DoDecodeCmdKeeps, PartsNext
<1>4. CASE StartChip
  <2>1. cmdTagR \in Tag
    <3>1. state \in StartStates
      BY <1>4 DEF StartChip, StartStates
    <3> QED BY <3>1, AtTheBus
  <2>2. (ScoreboardTyped /\ ScoreboardTypeOK)'
    BY <1>4, Untouched DEF StartChip
  <2> QED BY <1>1, <1>2, <1>4, <2>1, <2>2, StartChipTyped, StartChipKeeps, PartsNext
<1>5. CASE GetStatus
  <2>1. BusTypes' /\ nand[chipR].busy \in BOOLEAN
    BY <1>1, <1>5, GetStatusTyped
  <2>2. BusyIn(chipR, nand[chipR].busy)
    BY <1>5 DEF GetStatus
  <2>3. (ScoreboardTyped /\ ScoreboardTypeOK)'
    BY <1>1, <1>2, <2>1, <2>2, BusyInTyped
  <2> QED BY <1>1, <1>2, <1>5, <2>1, <2>3, GetStatusKeeps, PartsNext
<1>6. CASE DoReadDataWaitBuf
  <2>1. (ScoreboardTyped /\ ScoreboardTypeOK)'
    BY <1>6, Untouched DEF DoReadDataWaitBuf
  <2> QED BY <1>1, <1>2, <1>6, <2>1, DoReadDataWaitBufTyped, DoReadDataWaitBufKeeps, PartsNext
<1>7. CASE DoReadData
  <2>1. (ScoreboardTyped /\ ScoreboardTypeOK)'
    BY <1>7, Untouched DEF DoReadData
  <2>2. state \in ReadStates
    BY <1>7 DEF DoReadData, ReadStates
  <2>3. nand[chipR].page = PageOf(cmdTagR)
    BY <2>2, AtTheBus
  <2>4. BusTypes' /\ state' \in {"READ_DATA", "IDLE"}
    BY <1>1, <1>7, <2>3, DoReadDataTyped
  <2> QED BY <1>1, <1>2, <1>7, <2>1, <2>4, DoReadDataKeeps, PartsNext
<1>8. CASE DoWriteDataWait
  <2>1. (ScoreboardTyped /\ ScoreboardTypeOK)'
    BY <1>8, Untouched DEF DoWriteDataWait
  <2> QED BY <1>1, <1>2, <1>8, <2>1, DoWriteDataWaitTyped, DoWriteDataWaitKeeps, PartsNext
<1>9. CASE DoWritePageData
  <2>1. (ScoreboardTyped /\ ScoreboardTypeOK)'
    BY <1>9, Untouched DEF DoWritePageData
  <2> QED BY <1>1, <1>2, <1>9, <2>1, DoWritePageDataTyped, DoWritePageDataKeeps, PartsNext
<1> QED BY <1>3, <1>4, <1>5, <1>6, <1>7, <1>8, <1>9 DEF BusStep

\* The queues at the ends of the bus, and the chips.
LEMMA QueueStep ==
  ASSUME BusInv, UNCHANGED <<bufVars, ctrl>>,
         DoSBCmd \/ DoDecoderDataBuf \/ \E c \in Chip : NandReady(c)
  PROVE  BusInv'
<1>1. ScoreboardTyped /\ ScoreboardTypeOK /\ BusTypes /\ BufferTypes'
  BY Parts, Untouched
<1>2. /\ flashCmdQ \in Seq(Cmd) /\ encodeQ \in Seq(PageWord) /\ decodeInQ \in Seq(PageWord)
      /\ Len(encodeQ) <= EncodeDepth
  BY <1>1 DEF BusTypes, BusTyped, BusTypeOK
<1>3. CASE DoSBCmd
  <2>1. PICK cmd : cmd = Head(flashCmdQ)
    OBVIOUS
  <2>2. /\ flashCmdQ # << >> /\ CmdIn(cmd) /\ flashCmdQ' = Tail(flashCmdQ)
        /\ UNCHANGED <<state, chipR, cmdTagR, dataCnt, nand, encodeQ, decodeInQ>>
    BY <1>3, <2>1 DEF DoSBCmd, ctlVars, wrVars, readVars
  <2>3. /\ cmd \in Cmd /\ flashCmdQ' \in Seq(Cmd) /\ encodeQ' \in Seq(PageWord)
        /\ decodeInQ' \in Seq(PageWord) /\ Len(encodeQ') <= EncodeDepth
        /\ Len(decodeInQ') <= Len(decodeInQ)
    BY <1>2, <2>1, <2>2
  <2>4. (ScoreboardTyped /\ ScoreboardTypeOK)'
    BY <1>1, <2>2, <2>3, CmdInTyped
  <2>5. BusTypes'
    BY <1>1, <2>2, <2>3, QueuesTyped
  <2> QED BY <1>1, <1>3, <2>4, <2>5, DoSBCmdKeeps, PartsNext
<1>4. CASE DoDecoderDataBuf
  <2>1. /\ decodeInQ # << >> /\ decodeInQ' = Tail(decodeInQ) /\ UNCHANGED sbVars
        /\ UNCHANGED <<state, chipR, cmdTagR, dataCnt, nand, encodeQ, flashCmdQ>>
    BY <1>4 DEF DoDecoderDataBuf, ctlVars, wrVars
  <2>2. /\ flashCmdQ' \in Seq(Cmd) /\ encodeQ' \in Seq(PageWord)
        /\ decodeInQ' \in Seq(PageWord) /\ Len(encodeQ') <= EncodeDepth
        /\ Len(decodeInQ') <= Len(decodeInQ)
    BY <1>2, <2>1
  <2>3. BusTypes'
    BY <1>1, <2>1, <2>2, QueuesTyped
  <2>4. UNCHANGED chipVars
    BY <2>1 DEF chipVars, sbVars
  <2> QED BY <1>1, <2>1, <2>3, <2>4, Untouched, PartsNext
<1>5. ASSUME NEW c \in Chip, NandReady(c) PROVE BusInv'
  <2>1. (ScoreboardTyped /\ ScoreboardTypeOK)'
    BY <1>5, Untouched DEF NandReady
  <2> QED BY <1>1, <1>5, <2>1, NandReadyTyped, NandReadyKeeps, PartsNext
<1> QED BY <1>3, <1>4, <1>5

\* The user's steps and the write page buffers'.
LEMMA SendCmdStep ==
  ASSUME BusInv, NEW job \in Jobs, SendCmd(job[1], job[2], job[3])
  PROVE  BusInv'
<1>1. PICK cmd : cmd = [tag |-> job[1], op |-> job[2], chip |-> job[3]]
  OBVIOUS
<1>2. cmd \in Cmd /\ job[2] \in Op
  BY <1>1, JobAssumption DEF Cmd, Op
<1>3. ScoreboardTyped /\ ScoreboardTypeOK /\ BusTypes /\ BufferTypes
  BY Parts
<1>4. /\ flashCmdQ' = Append(flashCmdQ, cmd) /\ UNCHANGED <<sbVars, bufVars>>
      /\ UNCHANGED <<state, chipR, cmdTagR, dataCnt, nand, encodeQ, decodeInQ>>
      /\ ctrl' = [ctrl EXCEPT ![job[1]].op = job[2]]
  BY <1>1 DEF SendCmd, BusSendCmd, User!SendCmd, ctlVars, wrVars, readVars
<1>5. /\ flashCmdQ' \in Seq(Cmd) /\ encodeQ' \in Seq(PageWord)
      /\ decodeInQ' \in Seq(PageWord) /\ Len(encodeQ') <= EncodeDepth
      /\ Len(decodeInQ') <= Len(decodeInQ)
  BY <1>2, <1>3, <1>4 DEF BusTypes, BusTyped, BusTypeOK
<1>6. BusTypes'
  BY <1>3, <1>4, <1>5, QueuesTyped
<1>7. ctrl' \in [Tag -> CtrlType]
  <2>1. ctrl \in [Tag -> CtrlType]
    BY <1>3 DEF BufferTypes, BuffersTyped, CtrlType
  <2> QED BY <1>2, <1>4, <2>1, CtrlPut
<1>8. BufferTypes'
  BY <1>3, <1>4, <1>7, BuffersSame DEF bufVars
<1>9. UNCHANGED chipVars
  BY <1>4 DEF chipVars, sbVars
<1> QED BY <1>4, <1>6, <1>8, <1>9, Untouched, PartsNext

\* Only what the user knows of a tag changes, and the queues to the user.
LEMMA UserStep ==
  ASSUME BusInv, UNCHANGED <<sbVars, flashCmdQ, ctlVars, encodeQ, decodeInQ, nand>>,
         UNCHANGED <<writePageBufBack, writePageBufFront, writeWordCnt, wdataCnt>>,
         NEW t,
         \/ UNCHANGED ctrl
         \/ ctrl' = [ctrl EXCEPT ![t].asked = TRUE]
         \/ ctrl' = [ctrl EXCEPT ![t].cnt = @ + 1]
         \/ ctrl' = [ctrl EXCEPT ![t] = User!Free]
  PROVE  BusInv'
<1>1. BusTypes /\ BufferTypes
  BY Parts
<1>2. BusTypes'
  BY <1>1, BusSame DEF ctlVars
<1>3. ctrl' \in [Tag -> CtrlType]
  <2>1. ctrl \in [Tag -> CtrlType]
    BY <1>1 DEF BufferTypes, BuffersTyped, CtrlType
  <2>2. /\ [ctrl EXCEPT ![t].asked = TRUE] \in [Tag -> CtrlType]
        /\ [ctrl EXCEPT ![t].cnt = @ + 1] \in [Tag -> CtrlType]
        /\ [ctrl EXCEPT ![t] = User!Free] \in [Tag -> CtrlType]
    BY <2>1, CtrlPut
  <2>3. CASE UNCHANGED ctrl
    BY <2>1, <2>3
  <2>4. CASE ctrl' = [ctrl EXCEPT ![t].asked = TRUE]
    BY <2>2, <2>4
  <2>5. CASE ctrl' = [ctrl EXCEPT ![t].cnt = @ + 1]
    BY <2>2, <2>5
  <2>6. CASE ctrl' = [ctrl EXCEPT ![t] = User!Free]
    BY <2>2, <2>6
  <2> QED BY <2>3, <2>4, <2>5, <2>6
<1>4. BufferTypes'
  BY <1>1, <1>3, BuffersSame
<1>5. UNCHANGED chipVars
  BY DEF chipVars, sbVars, ctlVars
<1> QED BY <1>2, <1>4, <1>5, Untouched, PartsNext

\* The steps of the write page buffers.
LEMMA BufferStep ==
  ASSUME BusInv,
         \/ \E t \in Tag : WriteWord(t)
         \/ DoWriteBufTransfer \/ SetWriteDataRdy \/ DoWriteDataTransferReq
         \/ DoWriteDataTransferToBus
  PROVE  BusInv'
<1>1. ScoreboardTyped /\ ScoreboardTypeOK /\ BusTypes /\ BufferTypes
  BY Parts
<1>2. ASSUME NEW t \in Tag, WriteWord(t) PROVE BusInv'
  <2>1. UNCHANGED sbVars /\ UNCHANGED busVars /\ UNCHANGED chipVars
    BY <1>2 DEF WriteWord, chipVars, sbVars, busVars, ctlVars
  <2> QED BY <1>1, <1>2, <2>1, WriteWordTyped, Untouched, PartsNext
<1>3. CASE DoWriteBufTransfer
  <2>1. UNCHANGED sbVars /\ UNCHANGED busVars /\ UNCHANGED chipVars
    BY <1>3 DEF DoWriteBufTransfer, chipVars, sbVars, busVars, ctlVars
  <2> QED BY <1>1, <1>3, <2>1, DoWriteBufTransferTyped, Untouched, PartsNext
<1>4. CASE SetWriteDataRdy
  <2>1. /\ wdataRdy' = ReadyTag /\ UNCHANGED busVars /\ UNCHANGED <<bufVars, ctrl>>
        /\ UNCHANGED <<chipQs, chipBusy, busyTimers, chipStages, cmdOutQ, currChip, sbState>>
    BY <1>4 DEF SetWriteDataRdy, SetWdataRdy
  <2>2. (ScoreboardTyped /\ ScoreboardTypeOK)'
    BY <1>1, <2>1, ReadyTagType, ScoreboardSame
  <2>3. UNCHANGED chipVars
    BY <2>1 DEF chipVars, busVars, ctlVars
  <2> QED BY <2>1, <2>2, <2>3, Untouched, PartsNext
<1>5. CASE DoWriteDataTransferReq
  <2>1. /\ UNCHANGED sbVars /\ wdataCnt' = 0
        /\ UNCHANGED <<writePageBufBack, writePageBufFront, writeWordCnt, ctrl>>
        /\ UNCHANGED <<flashCmdQ, state, chipR, cmdTagR, dataCnt, encodeQ, decodeInQ, nand>>
    BY <1>5 DEF DoWriteDataTransferReq, BusWriteDataTransferReq, ctlVars, readVars
  <2>2. BufferTypes'
    BY <1>1, <2>1, Depths DEF BufferTypes, BuffersTyped, BuffersTypeOK
  <2>3. BusTypes' /\ UNCHANGED chipVars
    BY <1>1, <2>1, BusSame DEF chipVars, sbVars
  <2> QED BY <2>1, <2>2, <2>3, Untouched, PartsNext
<1>6. CASE DoWriteDataTransferToBus
  <2>1. UNCHANGED sbVars /\ UNCHANGED chipVars
    BY <1>6 DEF DoWriteDataTransferToBus, BusWriteWord, busVars, ctlVars, sbVars, chipVars
  <2> QED BY <1>1, <1>6, <2>1, DoWriteDataTransferToBusTyped, Untouched, PartsNext
<1> QED BY <1>2, <1>3, <1>4, <1>5, <1>6

\* One step of any kind.
LEMMA BusInvNext == BusInv /\ [Next]_vars => BusInv'
<1> SUFFICES ASSUME BusInv, [Next]_vars PROVE BusInv'
  OBVIOUS
<1>1. ASSUME NEW job \in Jobs, SendCmd(job[1], job[2], job[3]) PROVE BusInv'
  BY <1>1, SendCmdStep
<1>2. ASSUME NEW t \in Tag, WriteWord(t) PROVE BusInv'
  BY <1>2, BufferStep
<1>3. CASE BusRule /\ UNCHANGED <<bufVars, ctrl>>
  BY <1>3, ScoreboardStep, BusRuleStep, QueueStep DEF BusRule
<1>4. CASE DoHandleWriteDataReq
  <2>1. PICK t : t = Head(wrDataBufReqQ)
    OBVIOUS
  <2>2. ctrl' = [ctrl EXCEPT ![t].asked = TRUE]
    BY <1>4, <2>1 DEF DoHandleWriteDataReq
  <2>3. /\ UNCHANGED <<sbVars, flashCmdQ, ctlVars, encodeQ, decodeInQ, nand>>
        /\ UNCHANGED <<writePageBufBack, writePageBufFront, writeWordCnt, wdataCnt>>
    BY <1>4 DEF DoHandleWriteDataReq, BusWriteDataBufReq, readVars
  <2> QED BY <2>2, <2>3, UserStep
<1>5. CASE DoWriteFetchWait
  <2>1. /\ UNCHANGED <<sbVars, flashCmdQ, ctlVars, encodeQ, decodeInQ, nand>>
        /\ UNCHANGED <<writePageBufBack, writePageBufFront, writeWordCnt, wdataCnt>>
        /\ UNCHANGED ctrl
    BY <1>5 DEF DoWriteFetchWait, busVars, wrVars, readVars
  <2> QED BY <2>1, UserStep
<1>6. CASE \/ DoWriteBufTransfer \/ SetWriteDataRdy \/ DoWriteDataTransferReq
           \/ DoWriteDataTransferToBus
  BY <1>6, BufferStep
<1>7. CASE ReadWord
  <2>1. PICK t : t = Head(readTagQ)
    OBVIOUS
  <2>2. ctrl' = [ctrl EXCEPT ![t] = User!Free] \/ ctrl' = [ctrl EXCEPT ![t].cnt = @ + 1]
    BY <1>7, <2>1 DEF ReadWord
  <2>3. /\ UNCHANGED <<sbVars, flashCmdQ, ctlVars, encodeQ, decodeInQ, nand>>
        /\ UNCHANGED <<writePageBufBack, writePageBufFront, writeWordCnt, wdataCnt>>
    BY <1>7 DEF ReadWord, BusReadWord, wrVars, bufVars
  <2> QED BY <2>2, <2>3, UserStep
<1>8. CASE AckStatus
  <2>1. PICK t : t = Head(ackQ)
    OBVIOUS
  <2>2. ctrl' = [ctrl EXCEPT ![t] = User!Free]
    BY <1>8, <2>1 DEF AckStatus
  <2>3. /\ UNCHANGED <<sbVars, flashCmdQ, ctlVars, encodeQ, decodeInQ, nand>>
        /\ UNCHANGED <<writePageBufBack, writePageBufFront, writeWordCnt, wdataCnt>>
    BY <1>8 DEF AckStatus, BusAckStatus, wrVars, readVars, bufVars
  <2> QED BY <2>2, <2>3, UserStep
<1>9. CASE UNCHANGED vars
  <2>1. /\ UNCHANGED <<sbVars, flashCmdQ, ctlVars, encodeQ, decodeInQ, nand>>
        /\ UNCHANGED <<writePageBufBack, writePageBufFront, writeWordCnt, wdataCnt>>
        /\ UNCHANGED ctrl
    BY <1>9 DEF vars, busVars, wrVars, readVars, bufVars
  <2> QED BY <2>1, UserStep
<1> QED BY <1>1, <1>2, <1>3, <1>4, <1>5, <1>6, <1>7, <1>8, <1>9 DEF Next, ControllerRule

\* Nothing is queued and nothing runs in the beginning.
LEMMA BusInvInit == Init => BusInv
<1> SUFFICES ASSUME Init PROVE BusInv
  OBVIOUS
<1>1. /\ chipQs = [c \in Chip |-> << >>] /\ chipBusy = [c \in Chip |-> << >>]
      /\ busyTimers = [c \in Chip |-> 0] /\ chipStages = [c \in Chip |-> "INIT"]
      /\ cmdOutQ = << >> /\ currChip = 0 /\ sbState = "NEXT_REQ" /\ wdataRdy = NoTag
      /\ flashCmdQ = << >> /\ state = "IDLE" /\ chipR = 0 /\ cmdTagR = NoTag /\ dataCnt = 0
      /\ encodeQ = << >> /\ decodeInQ = << >>
      /\ nand = [c \in Chip |-> [busy |-> FALSE, page |-> << >>]]
      /\ writePageBufBack = << >> /\ writePageBufFront = << >>
      /\ writeWordCnt = 0 /\ wdataCnt = 0 /\ ctrl = [t \in Tag |-> User!Free]
  BY DEF Init, SBInit, BusInit, User!Init
<1>2. 0 \in Chip
  BY ChipsExist
<1>3. ScoreboardTyped
  BY <1>1, <1>2 DEF ScoreboardTyped
<1>4. ScoreboardTypeOK
  BY <1>1, <1>2, ChipAssumption DEF ScoreboardTypeOK
<1>5. BusTypes
  <2>1. BusTyped
    BY <1>1 DEF BusTyped
  <2>2. BusTypeOK
    BY <1>1, <1>2, Depths DEF BusTypeOK
  <2>3. BurstCounted
    BY <1>1 DEF BurstCounted
  <2> QED BY <2>1, <2>2, <2>3 DEF BusTypes
<1>6. BufferTypes
  <2>1. BuffersTyped
    BY <1>1 DEF BuffersTyped, User!Free
  <2>2. BuffersTypeOK
    BY <1>1, Depths DEF BuffersTypeOK
  <2> QED BY <2>1, <2>2 DEF BufferTypes
<1>7. Protocol
  <2>1. state \notin StartStates \cup PollStates \cup ReadStates
    BY <1>1, StageKinds
  <2>2. \A c, ops : ~Queued(c, ops)
    BY <1>1 DEF Queued
  <2>3. ASSUME NEW c \in Chip PROVE ChipInStep(c)
    <3>1. /\ chipStages[c] = "INIT" /\ chipBusy[c] = << >> /\ ~nand[c].busy
          /\ chipBusy[c] # <<FALSE>>
      BY <1>1
    <3>2. ~StartQueued(c) /\ ~PollQueued(c) /\ ~Starting(c) /\ ~Polling(c) /\ ~Reading(c)
      BY <2>1, <2>2 DEF StartQueued, PollQueued, Starting, Polling, Reading
    <3> QED BY <3>1, <3>2, StageKinds DEF ChipInStep
  <2>4. StartBeforePoll /\ BusCmdsBelong
    BY <1>1, <2>1 DEF StartBeforePoll, BusCmdsBelong
  <2> QED BY <2>3, <2>4 DEF Protocol, ChipsInStep
<1> QED BY <1>3, <1>4, <1>5, <1>6, <1>7, Parts

\* The invariant holds of every state the controller reaches.
THEOREM BusInvariant == Spec => []BusInv
BY BusInvInit, BusInvNext, PTL DEF Spec

-----------------------------------------------------------------------------
\* Variables keep their types and queues their bounds, for any depths.
THEOREM ControllerTypes == Spec => []TypeOK
<1>1. BusInv => TypeOK
  BY DEF BusInv, TypedInv
<1> QED BY <1>1, BusInvariant, PTL

\* However the scoreboard interleaves the chips of the bus, a command never
\* reaches a chip that is busy with another, and a page is never read out of a
\* chip whose register the next command has already taken.
THEOREM ChipsStayReady == Spec => []ChipsAreReady
<1>1. BusInv => ChipsAreReady
  <2> SUFFICES ASSUME BusInv PROVE ChipsAreReady
    OBVIOUS
  <2>1. /\ state \in StartStates => ~nand[chipR].busy
        /\ state \in ReadStates => ~nand[chipR].busy /\ nand[chipR].page = PageOf(cmdTagR)
    BY AtTheBus
  <2> QED BY <2>1, BusStates DEF ChipsAreReady
<1> QED BY <1>1, BusInvariant, PTL

\* The chip cannot be stalled while it is read out, and need not be: the
\* decoder's queue, empty when the burst begins, has room for all of a page.
THEOREM DecoderNeverOverflows == Spec => []NoReadError
<1>1. BusInv => NoReadError
  BY BusStates DEF BusInv, TypedInv, BusTyped, NoReadError
<1> QED BY <1>1, BusInvariant, PTL

\* A chip never has two statuses waiting to be looked at, so that a poll never
\* blocks the bus.
THEOREM OneStatusAtATime ==
  Spec => [](\A c \in Chip : Len(chipBusy[c]) <= 1)
<1>1. BusInv => \A c \in Chip : Len(chipBusy[c]) <= 1
  <2> SUFFICES ASSUME BusInv, NEW c \in Chip PROVE Len(chipBusy[c]) <= 1
    OBVIOUS
  <2>1. ChipInStep(c) /\ chipStages[c] \in RestStages \cup IssuedStages \cup WaitStages
    BY DEF BusInv, TypedInv, TypeOK, Protocol, ChipsInStep, RestStages, IssuedStages, WaitStages
  <2>2. chipBusy[c] \in {<< >>, <<TRUE>>, <<FALSE>>}
    BY <2>1 DEF ChipInStep
  <2>3. Len(<<TRUE>>) = 1 /\ Len(<<FALSE>>) = 1 /\ Len(<< >>) = 0
    OBVIOUS
  <2>4. Len(chipBusy[c]) = 0 \/ Len(chipBusy[c]) = 1
    BY <2>2, <2>3, Zenon
  <2>5. \A n : n = 0 \/ n = 1 => n <= 1
    OBVIOUS
  <2> QED BY <2>4, <2>5, Zenon
<1> QED BY <1>1, BusInvariant, PTL

-----------------------------------------------------------------------------
(* What the user of the bus is promised: the pages read and written are     *)
(* those that were asked for, and the controller keeps the contract of      *)
(* FlashCtrlUser.                                                           *)

\* A chip that is done with its command but for the scoreboard's look at the
\* status; the tag of that command may be in use again.
Finished(c) == chipStages[c] \in WaitStages /\ chipBusy[c] = <<FALSE>>
AtWork(c)   == chipStages[c] # "INIT" /\ ~Finished(c)
LiveQ(c)    == IF Finished(c) THEN Tail(chipQs[c]) ELSE chipQs[c]

\* The places of a tag in use, each a sequence of tags: on the way to the
\* scoreboard, at a chip, on the bus, given to the user word by word, acked.
AtBus     == state \in ReadStates /\ dataCnt = 0
CmdPlace == <<"cmd", 0>>
BusPlace == <<"bus", 0>>
RdPlace  == <<"rd", 0>>
AckPlace == <<"ack", 0>>
ChipPlace(c) == <<"chip", c>>
Place == {CmdPlace, BusPlace, RdPlace, AckPlace} \cup {ChipPlace(c) : c \in Chip}
TagsOf(s) == [i \in DOMAIN s |-> s[i].tag]
PlacesOf(cmds, live, bus, rd, acks) ==
  [x \in Place |->
     IF x = CmdPlace THEN cmds
     ELSE IF x = BusPlace THEN bus
     ELSE IF x = RdPlace THEN rd
     ELSE IF x = AckPlace THEN acks
     ELSE live[x[2]]]
LiveTags  == [c \in Chip |-> TagsOf(LiveQ(c))]
BusTags   == IF AtBus THEN <<cmdTagR>> ELSE << >>
PlaceTags == PlacesOf(TagsOf(flashCmdQ), LiveTags, BusTags, readTagQ, ackQ)

\* A tag is in one place at a time.
OnePlace == Distinct(PlaceTags, Place)

UserTyped ==
  /\ readTagQ \in Seq(Tag) /\ ackQ \in Seq(Tag) /\ wrDataBufReqQ \in Seq(Tag)
  /\ wrDataTransReqQ \in Seq({1}) /\ decodeInBufQ \in Seq(PageWord)
  /\ rdWdCnt \in 0 .. PageWords - 1 /\ wrState \in {0, 1} /\ writeFetchSt \in {0, 1}
  /\ state \in ReadStates => cmdTagR \in Tag

\* What is under way under a tag is what the user asked for; nothing is
\* asked of the user until the chip gets to the command.
Fresh(t, op) == ctrl[t] = [op |-> op, asked |-> FALSE, cnt |-> 0]
UseMatches ==
  /\ \A i \in DOMAIN flashCmdQ : Fresh(flashCmdQ[i].tag, flashCmdQ[i].op)
  /\ \A c \in Chip : \A i \in DOMAIN LiveQ(c) :
       IF i = 1 /\ AtWork(c)
       THEN ctrl[LiveQ(c)[i].tag].op = LiveQ(c)[i].op
       ELSE Fresh(LiveQ(c)[i].tag, LiveQ(c)[i].op)
  /\ AtBus => ctrl[cmdTagR].op = "READ_PAGE"
  /\ \A i \in DOMAIN readTagQ : ctrl[readTagQ[i]].op = "READ_PAGE"
  /\ \A i \in DOMAIN ackQ : ctrl[ackQ[i]].op \in {"WRITE_PAGE", "ERASE_BLOCK"}

UserCounts ==
  \A t \in Tag :
    /\ ctrl[t].op = "none" => ctrl[t] = User!Free
    /\ ctrl[t].op # "WRITE_PAGE" => ~ctrl[t].asked
    /\ ctrl[t].op = "READ_PAGE" =>
         ctrl[t].cnt = IF readTagQ # << >> /\ readTagQ[1] = t THEN rdWdCnt ELSE 0
    /\ ctrl[t].op = "WRITE_PAGE" /\ ~ctrl[t].asked => ctrl[t].cnt = 0

\* A request for the data of a page is made once for a command.
Waiting(c) == chipStages[c] = "WR_BUF_REQ_ISSUED"
IsBufReq(m) == m.busOp = "WRITE_DATA_BUF_REQ"
Asking(c, t) == Waiting(c) /\ Working(c).tag = t /\ ~ctrl[t].asked
AskedOnce ==
  /\ \A i \in DOMAIN cmdOutQ : IsBufReq(cmdOutQ[i]) => Asking(cmdOutQ[i].chip, cmdOutQ[i].tag)
  /\ \A i, j \in DOMAIN cmdOutQ : IsBufReq(cmdOutQ[i]) /\ IsBufReq(cmdOutQ[j])
       /\ cmdOutQ[i].tag = cmdOutQ[j].tag => i = j
  /\ \A i \in DOMAIN wrDataBufReqQ : \E c \in Chip : Asking(c, wrDataBufReqQ[i])
  /\ \A i, j \in DOMAIN wrDataBufReqQ : wrDataBufReqQ[i] = wrDataBufReqQ[j] => i = j
  /\ \A i \in DOMAIN cmdOutQ, j \in DOMAIN wrDataBufReqQ :
       IsBufReq(cmdOutQ[i]) => cmdOutQ[i].tag # wrDataBufReqQ[j]

\* The k-th word, from 0, of the pages r, one after the other.
IsWord(w, r, k) ==
  \E p \in DOMAIN r : w.tag = r[p] /\ w.idx = k - (p - 1) * PageWords /\ w.idx < PageWords
Stream(s, r, k) == \A i \in DOMAIN s : IsWord(s[i], r, k + i - 1)

\* Words of the page being read out that are still in the chip.
ToRead == IF state = "READ_DATA" /\ dataCnt > 0 THEN PageWords - dataCnt ELSE 0
ReadsInOrder ==
  /\ Stream(decodeInBufQ, readTagQ, rdWdCnt)
  /\ Stream(decodeInQ, readTagQ, rdWdCnt + Len(decodeInBufQ))
  /\ rdWdCnt + Len(decodeInBufQ) + Len(decodeInQ) + ToRead = Len(readTagQ) * PageWords
  /\ ToRead > 0 => readTagQ[Len(readTagQ)] = cmdTagR

\* The pages between the user and the chips.
Writing  == state \in {"WRITE_PAGE_WAIT", "WRITE_PAGE"}
Moving   == wrState = 1 /\ wdataCnt < PageWords
Written  == IF Writing THEN dataCnt ELSE 0
Fetching == writeFetchSt = 1 \/ writeWordCnt # 0
ToFetch  == IF Fetching THEN PageWords - writeWordCnt ELSE 0
AllMoved == wrDataTransReqQ = << >> /\ ~Moving
NextPage == IF Writing THEN 2 ELSE 1
Transfers ==
  /\ ~Writing => encodeQ = << >> /\ wrDataTransReqQ = << >> /\ ~Moving
  /\ Writing =>
       \/ wrDataTransReqQ = <<1>> /\ ~Moving /\ dataCnt = 0 /\ encodeQ = << >>
       \/ wrDataTransReqQ = << >> /\ Moving /\ dataCnt + Len(encodeQ) = wdataCnt
       \/ AllMoved /\ dataCnt + Len(encodeQ) = PageWords
Fetches == Fetching /\ writeFetchSt = 0 => writeWordCnt = PageWords - 1
InFront == Written + Len(encodeQ)
InBack  == InFront + Len(writePageBufFront)
WritesInOrder(pages) ==
  /\ Transfers /\ Fetches
  /\ Stream(encodeQ, pages, Written)
  /\ Stream(writePageBufFront, pages, InFront)
  /\ Stream(writePageBufBack, pages, InBack)
  /\ InBack + Len(writePageBufBack) + ToFetch = Len(pages) * PageWords
PagesOwned(pages) ==
  /\ \A p, r \in DOMAIN pages : pages[p] = pages[r] => p = r
  /\ \A p \in DOMAIN pages : ctrl[pages[p]].asked
  /\ Writing => pages # << >> /\ pages[1] = cmdTagR
  /\ Fetching => pages # << >> /\ ctrl[pages[Len(pages)]].cnt = writeWordCnt
  /\ \A t \in Tag : ctrl[t].asked =>
       ctrl[t].cnt = PageWords \/ (Fetching /\ t = pages[Len(pages)])
\* Which commands the data is ready for, and which are done with it.
IsNext(pages, t) == NextPage \in DOMAIN pages /\ t = pages[NextPage] /\ (Writing => AllMoved)
ReadyMatches(pages) ==
  /\ wdataRdy # NoTag => ctrl[wdataRdy].asked
  /\ \A c \in Chip : Waiting(c) /\ Working(c).tag = wdataRdy => IsNext(pages, wdataRdy)
  /\ \A i \in DOMAIN cmdOutQ : cmdOutQ[i].busOp = "WRITE_CMD_DATA" => IsNext(pages, cmdOutQ[i].tag)
Programmed(c) ==
  /\ chipStages[c] \in {"WR_ISSUED", "WAIT_STATUS"} /\ ~Finished(c) /\ Working(c).op = "WRITE_PAGE"
  /\ ~StartQueued(c) /\ ~Starting(c)
Done(pages, t) ==
  /\ t \in Tag /\ ctrl[t].asked /\ ctrl[t].cnt = PageWords
  /\ \A p \in DOMAIN pages : pages[p] # t
DoneWriting(pages) ==
  /\ \A c \in Chip : Programmed(c) => Done(pages, Working(c).tag)
  /\ \A i \in DOMAIN ackQ : ctrl[ackQ[i]].op = "WRITE_PAGE" => Done(pages, ackQ[i])
PipeInv(pages) == WritesInOrder(pages) /\ PagesOwned(pages) /\ ReadyMatches(pages) /\ DoneWriting(pages)

\* The invariant, by part.
PlaceInv == OnePlace /\ UseMatches
ReadInv  == UserCounts /\ ReadsInOrder
PageInv  == \E pages \in Seq(Tag) : PipeInv(pages)
UserInv  == BusInv /\ UserTyped /\ PlaceInv /\ ReadInv /\ AskedOnce /\ PageInv

-----------------------------------------------------------------------------
\* Pages are as long as a multiple of their words.
LEMMA Pages ==
  /\ PageWords \in Nat \ {0}
  /\ \A p \in Nat : /\ p * PageWords \in Nat /\ (p + 1) * PageWords = p * PageWords + PageWords
                    /\ (p > 0 => p * PageWords >= PageWords)
                    /\ (p > 1 => p * PageWords >= 2 * PageWords)
<1>1. PageWords \in Nat \ {0}
  BY BusAssumption
<1>2. ASSUME NEW p \in Nat
      PROVE  /\ p * PageWords \in Nat /\ (p + 1) * PageWords = p * PageWords + PageWords
             /\ (p > 0 => p * PageWords >= PageWords)
             /\ (p > 1 => p * PageWords >= 2 * PageWords)
  <2>1. p * PageWords \in Nat /\ (p + 1) * PageWords = p * PageWords + PageWords
    BY <1>1
  <2>2. p > 0 => p * PageWords >= PageWords
    BY <1>1
  <2>3. p > 1 => p * PageWords >= 2 * PageWords
    BY <1>1
  <2> QED BY <2>1, <2>2, <2>3
<1> QED BY <1>1, <1>2

\* A word of the first page, and of the second.
LEMMA FirstPages ==
  ASSUME NEW r \in Seq(Tag), NEW w \in PageWord, NEW k \in Nat, IsWord(w, r, k)
  PROVE  /\ k < PageWords => r # << >> /\ w.tag = r[1] /\ w.idx = k
         /\ PageWords <= k /\ k < 2 * PageWords => 2 \in DOMAIN r /\ w.tag = r[2]
<1>1. PICK p \in DOMAIN r : w.tag = r[p] /\ w.idx = k - (p - 1) * PageWords /\ w.idx < PageWords
  BY DEF IsWord
<1>2. p \in Nat \ {0} /\ DOMAIN r = 1 .. Len(r) /\ Len(r) \in Nat /\ w.idx \in Nat
  BY DEF PageWord
<1>3. PICK m \in Nat : p = m + 1
  <2>1. p - 1 \in Nat /\ p = (p - 1) + 1
    BY <1>2
  <2> QED BY <2>1
<1>4. PICK x : x = m * PageWords
  OBVIOUS
<1>5. /\ w.idx = k - x /\ x \in Nat /\ (m > 0 => x >= PageWords) /\ (m > 1 => x >= 2 * PageWords)
      /\ (m = 0 => x = 0) /\ (m = 1 => x = PageWords)
  <2>1. p - 1 = m
    BY <1>3
  <2>2. 0 * PageWords = 0 /\ 1 * PageWords = PageWords
    BY Pages
  <2> QED BY <1>1, <1>4, <2>1, <2>2, Pages
<1>6. k < PageWords => m = 0
  BY <1>2, <1>5, Pages
<1>7. PageWords <= k /\ k < 2 * PageWords => m = 1
  BY <1>1, <1>2, <1>5, Pages
<1> QED BY <1>1, <1>2, <1>3, <1>5, <1>6, <1>7

\* A word of the last page.
LEMMA LastPage ==
  ASSUME NEW r \in Seq(Tag), r # << >>, NEW w, NEW j \in Nat, j < PageWords,
         w.tag = r[Len(r)], w.idx = j, NEW k, k = Len(r) * PageWords - (PageWords - j)
  PROVE  IsWord(w, r, k)
<1>1. Len(r) \in Nat \ {0} /\ Len(r) \in DOMAIN r
  OBVIOUS
<1>2. PICK m \in Nat : Len(r) = m + 1
  <2>1. Len(r) - 1 \in Nat /\ Len(r) = (Len(r) - 1) + 1
    BY <1>1
  <2> QED BY <2>1
<1>3. Len(r) * PageWords = m * PageWords + PageWords /\ Len(r) - 1 = m /\ m * PageWords \in Nat
  BY <1>2, Pages
<1>4. j = k - m * PageWords
  BY <1>3, Pages
<1>5. j = k - (Len(r) - 1) * PageWords
  BY <1>3, <1>4
<1> QED BY <1>1, <1>5 DEF IsWord

\* A page is added at the end of the pages, or the first is taken away.
LEMMA PagesChange ==
  ASSUME NEW r \in Seq(Tag), NEW w \in PageWord, NEW k \in Nat, IsWord(w, r, k)
  PROVE  /\ \A t \in Tag : IsWord(w, Append(r, t), k)
         /\ k >= PageWords => IsWord(w, Tail(r), k - PageWords)
<1>1. PICK p \in DOMAIN r : w.tag = r[p] /\ w.idx = k - (p - 1) * PageWords /\ w.idx < PageWords
  BY DEF IsWord
<1>2. p \in Nat \ {0} /\ DOMAIN r = 1 .. Len(r) /\ Len(r) \in Nat /\ w.idx \in Nat
  BY DEF PageWord
<1>3. ASSUME NEW t \in Tag PROVE IsWord(w, Append(r, t), k)
  <2>1. p \in DOMAIN Append(r, t) /\ Append(r, t)[p] = r[p]
    BY <1>2
  <2> QED BY <1>1, <2>1 DEF IsWord
<1>4. ASSUME k >= PageWords PROVE IsWord(w, Tail(r), k - PageWords)
  <2>1. PICK m \in Nat : p = m + 1
    <3>1. p - 1 \in Nat /\ p = (p - 1) + 1
      BY <1>2
    <3> QED BY <3>1
  <2>2. m # 0
    <3>1. 0 * PageWords = 0
      BY Pages
    <3>2. m = 0 => w.idx = k
      BY <1>1, <2>1, <3>1
    <3> QED BY <1>1, <1>4, <3>2, Pages
  <2>3. PICK n \in Nat : m = n + 1
    <3>1. m - 1 \in Nat /\ m = (m - 1) + 1
      BY <2>1, <2>2
    <3> QED BY <3>1
  <2>4. m * PageWords = n * PageWords + PageWords /\ n * PageWords \in Nat /\ p - 1 = m /\ m - 1 = n
    BY <2>1, <2>3, Pages
  <2>5. w.idx = k - PageWords - (m - 1) * PageWords
    BY <1>1, <2>4, Pages
  <2>6. m \in DOMAIN Tail(r) /\ Tail(r)[m] = r[p]
    BY <1>2, <2>1, <2>2
  <2> QED BY <1>1, <2>5, <2>6 DEF IsWord
<1> QED BY <1>3, <1>4

\* A queue of words loses its head, or is given the word that follows.
LEMMA StreamTail ==
  ASSUME NEW s \in Seq(PageWord), s # << >>, NEW r, NEW k \in Nat, Stream(s, r, k)
  PROVE  /\ Stream(Tail(s), r, k + 1) /\ IsWord(Head(s), r, k)
         /\ Tail(s) \in Seq(PageWord) /\ Head(s) \in PageWord /\ Len(Tail(s)) = Len(s) - 1
         /\ Len(s) \in Nat \ {0}
<1>1. /\ 1 \in DOMAIN s /\ s[1] = Head(s) /\ k + 1 - 1 = k
      /\ \A i \in DOMAIN Tail(s) : /\ i \in Nat /\ i + 1 \in DOMAIN s /\ Tail(s)[i] = s[i + 1]
                                   /\ k + 1 + i - 1 = k + (i + 1) - 1
  OBVIOUS
<1>2. Stream(Tail(s), r, k + 1)
  BY <1>1 DEF Stream
<1>3. IsWord(Head(s), r, k)
  <2>1. IsWord(s[1], r, k + 1 - 1)
    BY <1>1 DEF Stream
  <2> QED BY <1>1, <2>1
<1> QED BY <1>2, <1>3

\* A word joins the queue.
LEMMA StreamAppend ==
  ASSUME NEW s \in Seq(PageWord), NEW r, NEW k \in Nat, Stream(s, r, k),
         NEW w \in PageWord, IsWord(w, r, k + Len(s))
  PROVE  /\ Stream(Append(s, w), r, k)
         /\ Append(s, w) \in Seq(PageWord) /\ Len(Append(s, w)) = Len(s) + 1 /\ Len(s) \in Nat
<1>1. /\ Len(s) \in Nat /\ DOMAIN Append(s, w) = 1 .. Len(s) + 1 /\ DOMAIN s = 1 .. Len(s)
      /\ \A i \in DOMAIN s : Append(s, w)[i] = s[i]
      /\ Append(s, w)[Len(s) + 1] = w
  OBVIOUS
<1>2. ASSUME NEW i \in DOMAIN Append(s, w) PROVE IsWord(Append(s, w)[i], r, k + i - 1)
  <2>1. CASE i \in DOMAIN s
    BY <1>1, <2>1 DEF Stream
  <2>2. CASE i = Len(s) + 1
    <3>1. k + i - 1 = k + Len(s)
      BY <1>1, <2>2
    <3> QED BY <1>1, <2>2, <3>1
  <2> QED BY <1>1, <1>2, <2>1, <2>2
<1> QED BY <1>1, <1>2 DEF Stream

\* A stream goes on when pages are added, or the first one is done.
LEMMA StreamPages ==
  ASSUME NEW s \in Seq(PageWord), NEW r \in Seq(Tag), NEW k \in Nat, Stream(s, r, k)
  PROVE  /\ \A t \in Tag : Stream(s, Append(r, t), k)
         /\ k >= PageWords => Stream(s, Tail(r), k - PageWords)
<1>1. ASSUME NEW i \in DOMAIN s
      PROVE  /\ s[i] \in PageWord /\ i \in Nat /\ k + i - 1 \in Nat /\ IsWord(s[i], r, k + i - 1)
             /\ (k >= PageWords => k + i - 1 >= PageWords)
             /\ k - PageWords + i - 1 = k + i - 1 - PageWords
  <2>1. i \in Nat \ {0} /\ s[i] \in PageWord
    BY <1>1
  <2> QED BY <2>1, <1>1, Pages DEF Stream
<1>2. ASSUME NEW t \in Tag PROVE Stream(s, Append(r, t), k)
  BY <1>1, PagesChange DEF Stream
<1>3. ASSUME k >= PageWords PROVE Stream(s, Tail(r), k - PageWords)
  <2>1. ASSUME NEW i \in DOMAIN s PROVE IsWord(s[i], Tail(r), k - PageWords + i - 1)
    <3>1. PICK n : n = k + i - 1
      OBVIOUS
    <3>2. n \in Nat /\ n >= PageWords /\ s[i] \in PageWord /\ IsWord(s[i], r, n)
      BY <1>1, <1>3, <2>1, <3>1
    <3>3. IsWord(s[i], Tail(r), n - PageWords)
      BY <3>2, PagesChange
    <3>4. k - PageWords + i - 1 = n - PageWords
      BY <1>1, <2>1, <3>1, Pages
    <3> QED BY <3>3, <3>4
  <2> QED BY <2>1 DEF Stream
<1> QED BY <1>2, <1>3

\* Every stream of no words.
LEMMA StreamEmpty == \A r, k : Stream(<< >>, r, k)
BY DEF Stream

-----------------------------------------------------------------------------
\* The tags of a queue of commands.
LEMMA TagsOfType ==
  ASSUME NEW S, \A m \in S : m.tag \in Tag, NEW s \in Seq(S)
  PROVE  /\ TagsOf(s) \in Seq(Tag) /\ DOMAIN TagsOf(s) = DOMAIN s /\ Len(TagsOf(s)) = Len(s)
         /\ \A i \in DOMAIN s : TagsOf(s)[i] = s[i].tag
<1>1. Len(s) \in Nat /\ DOMAIN s = 1 .. Len(s) /\ \A i \in 1 .. Len(s) : s[i] \in S
  OBVIOUS
<1> DEFINE f == [i \in 1 .. Len(s) |-> s[i].tag]
<1>2. f \in [1 .. Len(s) -> Tag]
  BY <1>1
<1>3. TagsOf(s) = f
  BY <1>1 DEF TagsOf
<1>4. f \in Seq(Tag) /\ Len(f) = Len(s) /\ DOMAIN f = 1 .. Len(s)
  BY <1>1, <1>2
<1>5. \A i \in 1 .. Len(s) : f[i] = s[i].tag
  OBVIOUS
<1> QED BY <1>1, <1>3, <1>4, <1>5

\* The tags as commands come and go.
LEMMA TagsOfQueue ==
  ASSUME NEW S, \A m \in S : m.tag \in Tag, NEW s \in Seq(S)
  PROVE  /\ s # << >> => /\ TagsOf(s) # << >> /\ Head(TagsOf(s)) = Head(s).tag
                         /\ TagsOf(Tail(s)) = Tail(TagsOf(s))
         /\ \A m \in S : TagsOf(Append(s, m)) = Append(TagsOf(s), m.tag)
<1>1. /\ TagsOf(s) \in Seq(Tag) /\ Len(TagsOf(s)) = Len(s)
      /\ Len(s) \in Nat /\ DOMAIN s = 1 .. Len(s)
      /\ \A i \in 1 .. Len(s) : TagsOf(s)[i] = s[i].tag
  BY TagsOfType
<1>2. ASSUME NEW u \in Seq(Tag), NEW v \in Seq(Tag), Len(u) = Len(v),
             \A i \in 1 .. Len(u) : u[i] = v[i]
      PROVE  u = v
  BY <1>2
<1>3. ASSUME s # << >>
      PROVE  /\ TagsOf(s) # << >> /\ Head(TagsOf(s)) = Head(s).tag
             /\ TagsOf(Tail(s)) = Tail(TagsOf(s))
  <2> DEFINE r == Tail(s)
             t == TagsOf(s)
             u == TagsOf(r)
             v == Tail(t)
  <2>1. /\ r \in Seq(S) /\ Len(r) = Len(s) - 1 /\ Head(s) = s[1]
        /\ \A i \in 1 .. Len(s) - 1 : r[i] = s[i + 1] /\ i \in DOMAIN r
    BY <1>1, <1>3
  <2>2. t \in Seq(Tag) /\ Len(t) = Len(s) /\ t[1] = s[1].tag
    BY <1>1, <1>3
  <2>3. u \in Seq(Tag) /\ Len(u) = Len(s) - 1 /\ \A i \in DOMAIN r : u[i] = r[i].tag
    BY <2>1, TagsOfType
  <2>4. t # << >> /\ Head(t) = t[1] /\ v \in Seq(Tag) /\ Len(v) = Len(s) - 1
        /\ \A i \in 1 .. Len(s) - 1 : v[i] = t[i + 1]
    <3>1. Len(t) # 0
      BY <1>1, <1>3
    <3> HIDE DEF t
    <3> QED BY <2>2, <3>1
  <2>5. \A i \in 1 .. Len(s) - 1 : t[i + 1] = s[i + 1].tag
    BY <1>1
  <2> HIDE DEF t, u, v, r
  <2>6. u = v
    <3>1. ASSUME NEW i \in 1 .. Len(u) PROVE u[i] = v[i]
      <4>1. i \in 1 .. Len(s) - 1
        BY <2>3
      <4> QED BY <2>1, <2>3, <2>4, <2>5, <4>1
    <3> QED BY <1>2, <2>3, <2>4, <3>1
  <2> QED BY <2>1, <2>2, <2>4, <2>6 DEF t, u, v, r
<1>4. ASSUME NEW m \in S PROVE TagsOf(Append(s, m)) = Append(TagsOf(s), m.tag)
  <2> DEFINE r == Append(s, m)
             t == TagsOf(s)
             n == Len(s)
             u == TagsOf(r)
             v == Append(t, m.tag)
  <2>1. /\ r \in Seq(S) /\ DOMAIN r = 1 .. n + 1 /\ r[n + 1] = m /\ Len(r) = n + 1
        /\ \A i \in 1 .. n : r[i] = s[i]
    BY <1>1, <1>4
  <2>2. t \in Seq(Tag) /\ Len(t) = n /\ m.tag \in Tag /\ \A i \in 1 .. n : t[i] = s[i].tag
    BY <1>1, <1>4
  <2>3. u \in Seq(Tag) /\ Len(u) = n + 1 /\ \A i \in DOMAIN r : u[i] = r[i].tag
    BY <2>1, TagsOfType
  <2> HIDE DEF t
  <2>4. /\ v \in Seq(Tag) /\ Len(v) = n + 1 /\ v[n + 1] = m.tag
        /\ \A i \in 1 .. n : v[i] = t[i]
    BY <2>2
  <2> HIDE DEF u, v, r
  <2>5. ASSUME NEW i \in 1 .. n + 1 PROVE u[i] = v[i]
    BY <1>1, <2>1, <2>2, <2>3, <2>4, <2>5
  <2>6. u = v
    BY <1>2, <2>3, <2>4, <2>5
  <2> QED BY <2>6 DEF t, u, v, r
<1> QED BY <1>3, <1>4

\* The places, one by one.
LEMMA PlaceNames ==
  /\ {CmdPlace, BusPlace, RdPlace, AckPlace} \subseteq Place
  /\ CmdPlace # BusPlace /\ CmdPlace # RdPlace /\ CmdPlace # AckPlace
  /\ BusPlace # RdPlace /\ BusPlace # AckPlace /\ RdPlace # AckPlace
  /\ \A c \in Chip : /\ ChipPlace(c) \in Place /\ ChipPlace(c)[2] = c
                     /\ ChipPlace(c) \notin {CmdPlace, BusPlace, RdPlace, AckPlace}
  /\ \A x \in Place : \/ x \in {CmdPlace, BusPlace, RdPlace, AckPlace}
                      \/ \E c \in Chip : x = ChipPlace(c)
<1>1. \A c \in Chip : /\ ChipPlace(c) \in Place /\ ChipPlace(c)[2] = c
  BY DEF Place, ChipPlace
<1>2. \A c \in Chip : ChipPlace(c) \notin {CmdPlace, BusPlace, RdPlace, AckPlace}
  BY DEF ChipPlace, CmdPlace, BusPlace, RdPlace, AckPlace
<1>3. /\ CmdPlace # BusPlace /\ CmdPlace # RdPlace /\ CmdPlace # AckPlace
      /\ BusPlace # RdPlace /\ BusPlace # AckPlace /\ RdPlace # AckPlace
  BY DEF CmdPlace, BusPlace, RdPlace, AckPlace
<1> QED BY <1>1, <1>2, <1>3 DEF Place

\* What each of them holds.
Hold(T, a, l, b, r, k) ==
  /\ T[CmdPlace] = a /\ T[BusPlace] = b /\ T[RdPlace] = r /\ T[AckPlace] = k
  /\ \A c \in Chip : T[ChipPlace(c)] = l[c]

\* The tags by place hold what they are made from.
LEMMA PlaceHolds ==
  ASSUME NEW a, NEW l, NEW b, NEW r, NEW k
  PROVE  Hold(PlacesOf(a, l, b, r, k), a, l, b, r, k)
BY PlaceNames DEF PlacesOf, Hold

\* Each of them holds a sequence of tags.
LEMMA PlaceType ==
  ASSUME NEW a \in Seq(Tag), NEW l \in [Chip -> Seq(Tag)], NEW b \in Seq(Tag),
         NEW r \in Seq(Tag), NEW k \in Seq(Tag)
  PROVE  PlacesOf(a, l, b, r, k) \in [Place -> Seq(Tag)]
<1> DEFINE P == PlacesOf(a, l, b, r, k)
<1>1. Hold(P, a, l, b, r, k)
  BY PlaceHolds
<1>2. P = [x \in Place |-> P[x]]
  BY DEF PlacesOf
<1> HIDE DEF P
<1>3. ASSUME NEW x \in Place PROVE P[x] \in Seq(Tag)
  BY <1>1, <1>3, PlaceNames DEF Hold
<1>4. P \in [Place -> Seq(Tag)]
  BY <1>2, <1>3
<1> QED BY <1>4 DEF P

\* Two states of the places that agree but for one or two of them.
LEMMA PlacesAgree ==
  ASSUME NEW T, NEW U, NEW a, NEW l, NEW b, NEW r, NEW k, Hold(T, a, l, b, r, k),
         NEW aa, NEW ll, NEW bb, NEW rr, NEW kk, Hold(U, aa, ll, bb, rr, kk)
  PROVE  /\ l = ll /\ b = bb /\ r = rr /\ k = kk => SameBut(T, U, Place, CmdPlace)
         /\ a = aa /\ l = ll /\ b = bb /\ k = kk => SameBut(T, U, Place, RdPlace)
         /\ a = aa /\ l = ll /\ b = bb /\ r = rr => SameBut(T, U, Place, AckPlace)
         /\ a = aa /\ l = ll /\ k = kk => SameButTwo(T, U, Place, BusPlace, RdPlace)
         /\ \A c \in Chip : SameBut(l, ll, Chip, c) =>
              /\ b = bb /\ r = rr /\ k = kk => SameButTwo(T, U, Place, CmdPlace, ChipPlace(c))
              /\ a = aa /\ r = rr /\ k = kk => SameButTwo(T, U, Place, ChipPlace(c), BusPlace)
              /\ a = aa /\ b = bb /\ r = rr => SameButTwo(T, U, Place, ChipPlace(c), AckPlace)
<1>1. /\ T[CmdPlace] = a /\ T[BusPlace] = b /\ T[RdPlace] = r /\ T[AckPlace] = k
      /\ U[CmdPlace] = aa /\ U[BusPlace] = bb /\ U[RdPlace] = rr /\ U[AckPlace] = kk
      /\ \A c \in Chip : T[ChipPlace(c)] = l[c] /\ U[ChipPlace(c)] = ll[c]
  BY DEF Hold
<1>2. ASSUME NEW x \in Place
      PROVE  x \in {CmdPlace, BusPlace, RdPlace, AckPlace} \/ \E c \in Chip : x = ChipPlace(c)
  BY <1>2, PlaceNames
<1>3. /\ l = ll /\ b = bb /\ r = rr /\ k = kk => SameBut(T, U, Place, CmdPlace)
      /\ a = aa /\ l = ll /\ b = bb /\ k = kk => SameBut(T, U, Place, RdPlace)
      /\ a = aa /\ l = ll /\ b = bb /\ r = rr => SameBut(T, U, Place, AckPlace)
      /\ a = aa /\ l = ll /\ k = kk => SameButTwo(T, U, Place, BusPlace, RdPlace)
  BY <1>1, <1>2 DEF SameBut, SameButTwo
<1>4. ASSUME NEW c \in Chip, SameBut(l, ll, Chip, c)
      PROVE  /\ b = bb /\ r = rr /\ k = kk => SameButTwo(T, U, Place, CmdPlace, ChipPlace(c))
             /\ a = aa /\ r = rr /\ k = kk => SameButTwo(T, U, Place, ChipPlace(c), BusPlace)
             /\ a = aa /\ b = bb /\ r = rr => SameButTwo(T, U, Place, ChipPlace(c), AckPlace)
  BY <1>1, <1>2, <1>4 DEF SameBut, SameButTwo
<1> QED BY <1>3, <1>4

\* A tag goes from one place to the next.
LEMMA TagMoves ==
  ASSUME NEW a \in Seq(Tag), NEW l \in [Chip -> Seq(Tag)], NEW b \in Seq(Tag),
         NEW r \in Seq(Tag), NEW k \in Seq(Tag), Distinct(PlacesOf(a, l, b, r, k), Place),
         NEW aa, NEW ll, NEW bb, NEW kk, NEW c \in Chip,
         SameBut(l, ll, Chip, c),
         \/ /\ a # << >> /\ aa = Tail(a) /\ ll[c] = Append(l[c], Head(a))
            /\ bb = b /\ kk = k
         \/ /\ l[c] # << >> /\ ll[c] = Tail(l[c]) /\ bb = Append(b, Head(l[c]))
            /\ aa = a /\ kk = k
         \/ /\ l[c] # << >> /\ ll[c] = Tail(l[c]) /\ kk = Append(k, Head(l[c]))
            /\ aa = a /\ bb = b
  PROVE  Distinct(PlacesOf(aa, ll, bb, r, kk), Place)
<1>0. PICK T, U : T = PlacesOf(a, l, b, r, k) /\ U = PlacesOf(aa, ll, bb, r, kk)
  OBVIOUS
<1>1. /\ Hold(T, a, l, b, r, k) /\ Hold(U, aa, ll, bb, r, kk) /\ T \in [Place -> Seq(Tag)]
      /\ Distinct(T, Place)
  BY <1>0, PlaceHolds, PlaceType
<1>2. /\ T[CmdPlace] = a /\ T[BusPlace] = b /\ T[AckPlace] = k /\ T[ChipPlace(c)] = l[c]
      /\ U[CmdPlace] = aa /\ U[BusPlace] = bb /\ U[AckPlace] = kk /\ U[ChipPlace(c)] = ll[c]
  BY <1>1 DEF Hold
<1>3. /\ CmdPlace \in Place /\ BusPlace \in Place /\ AckPlace \in Place /\ ChipPlace(c) \in Place
      /\ CmdPlace # ChipPlace(c) /\ ChipPlace(c) # BusPlace /\ ChipPlace(c) # AckPlace
  BY PlaceNames
<1>4. CASE a # << >> /\ aa = Tail(a) /\ ll[c] = Append(l[c], Head(a)) /\ bb = b /\ kk = k
  <2>1. SameButTwo(T, U, Place, CmdPlace, ChipPlace(c))
    BY <1>1, <1>4, PlacesAgree
  <2>2. /\ T[CmdPlace] # << >> /\ U[CmdPlace] = Tail(T[CmdPlace])
        /\ U[ChipPlace(c)] = Append(T[ChipPlace(c)], Head(T[CmdPlace]))
    BY <1>2, <1>4
  <2>3. Distinct(U, Place)
    BY <1>1, <1>3, <2>1, <2>2, DistinctMove
  <2> QED BY <1>0, <2>3
<1>5. CASE /\ l[c] # << >> /\ ll[c] = Tail(l[c]) /\ bb = Append(b, Head(l[c]))
           /\ aa = a /\ kk = k
  <2>1. SameButTwo(T, U, Place, ChipPlace(c), BusPlace)
    BY <1>1, <1>5, PlacesAgree
  <2>2. /\ T[ChipPlace(c)] # << >> /\ U[ChipPlace(c)] = Tail(T[ChipPlace(c)])
        /\ U[BusPlace] = Append(T[BusPlace], Head(T[ChipPlace(c)]))
    BY <1>2, <1>5
  <2>3. Distinct(U, Place)
    BY <1>1, <1>3, <2>1, <2>2, DistinctMove
  <2> QED BY <1>0, <2>3
<1>6. CASE /\ l[c] # << >> /\ ll[c] = Tail(l[c]) /\ kk = Append(k, Head(l[c]))
           /\ aa = a /\ bb = b
  <2>1. SameButTwo(T, U, Place, ChipPlace(c), AckPlace)
    BY <1>1, <1>6, PlacesAgree
  <2>2. /\ T[ChipPlace(c)] # << >> /\ U[ChipPlace(c)] = Tail(T[ChipPlace(c)])
        /\ U[AckPlace] = Append(T[AckPlace], Head(T[ChipPlace(c)]))
    BY <1>2, <1>6
  <2>3. Distinct(U, Place)
    BY <1>1, <1>3, <2>1, <2>2, DistinctMove
  <2> QED BY <1>0, <2>3
<1> QED BY <1>4, <1>5, <1>6

\* The user sends a command under a tag; a page begins to be read out; the
\* user has taken an ack.
LEMMA TagEnds ==
  ASSUME NEW a \in Seq(Tag), NEW l \in [Chip -> Seq(Tag)], NEW b \in Seq(Tag),
         NEW r \in Seq(Tag), NEW k \in Seq(Tag), Distinct(PlacesOf(a, l, b, r, k), Place),
         NEW aa, NEW bb, NEW rr, NEW kk,
         \/ /\ \E t \in Tag : aa = Append(a, t) /\ NotIn(t, PlacesOf(a, l, b, r, k), Place)
            /\ bb = b /\ rr = r /\ kk = k
         \/ b # << >> /\ bb = Tail(b) /\ rr = Append(r, Head(b)) /\ aa = a /\ kk = k
         \/ k # << >> /\ kk = Tail(k) /\ aa = a /\ bb = b /\ rr = r
  PROVE  Distinct(PlacesOf(aa, l, bb, rr, kk), Place)
<1>0. PICK T, U : T = PlacesOf(a, l, b, r, k) /\ U = PlacesOf(aa, l, bb, rr, kk)
  OBVIOUS
<1>1. /\ Hold(T, a, l, b, r, k) /\ Hold(U, aa, l, bb, rr, kk) /\ T \in [Place -> Seq(Tag)]
      /\ Distinct(T, Place)
  BY <1>0, PlaceHolds, PlaceType
<1>2. /\ T[CmdPlace] = a /\ T[BusPlace] = b /\ T[AckPlace] = k /\ T[RdPlace] = r
      /\ U[CmdPlace] = aa /\ U[BusPlace] = bb /\ U[AckPlace] = kk /\ U[RdPlace] = rr
  BY <1>1 DEF Hold
<1>3. /\ CmdPlace \in Place /\ BusPlace \in Place /\ AckPlace \in Place /\ RdPlace \in Place
      /\ BusPlace # RdPlace
  BY PlaceNames
<1>4. ASSUME NEW t \in Tag, aa = Append(a, t), NotIn(t, T, Place), bb = b, rr = r, kk = k
      PROVE  Distinct(U, Place)
  <2>1. SameBut(T, U, Place, CmdPlace)
    BY <1>1, <1>4, PlacesAgree
  <2> QED BY <1>1, <1>2, <1>3, <1>4, <2>1, DistinctPut
<1>5. CASE b # << >> /\ bb = Tail(b) /\ rr = Append(r, Head(b)) /\ aa = a /\ kk = k
  <2>1. SameButTwo(T, U, Place, BusPlace, RdPlace)
    BY <1>1, <1>5, PlacesAgree
  <2>2. /\ T[BusPlace] # << >> /\ U[BusPlace] = Tail(T[BusPlace])
        /\ U[RdPlace] = Append(T[RdPlace], Head(T[BusPlace]))
    BY <1>2, <1>5
  <2>3. Distinct(U, Place)
    BY <1>1, <1>3, <2>1, <2>2, DistinctMove
  <2> QED BY <1>0, <2>3
<1>6. CASE k # << >> /\ kk = Tail(k) /\ aa = a /\ bb = b /\ rr = r
  <2>1. SameBut(T, U, Place, AckPlace)
    BY <1>1, <1>6, PlacesAgree
  <2>2. kk \in Seq(Tag)
    BY <1>6
  <2>3. U \in [Place -> Seq(Tag)]
    BY <1>0, <1>6, <2>2, PlaceType
  <2> QED BY ZenonT(60), <1>0, <1>1, <1>2, <1>3, <1>6, <2>1, <2>3, DistinctTake
<1> QED BY <1>0, <1>4, <1>5, <1>6

\* ... or the last word of a page.
LEMMA PageEnds ==
  ASSUME NEW a \in Seq(Tag), NEW l \in [Chip -> Seq(Tag)], NEW b \in Seq(Tag),
         NEW r \in Seq(Tag), NEW k \in Seq(Tag), Distinct(PlacesOf(a, l, b, r, k), Place),
         NEW rr, r # << >>, rr = Tail(r)
  PROVE  Distinct(PlacesOf(a, l, b, rr, k), Place)
<1>0. PICK T, U : T = PlacesOf(a, l, b, r, k) /\ U = PlacesOf(a, l, b, rr, k)
  OBVIOUS
<1>1. /\ Hold(T, a, l, b, r, k) /\ Hold(U, a, l, b, rr, k) /\ T \in [Place -> Seq(Tag)]
      /\ Distinct(T, Place)
  BY <1>0, PlaceHolds, PlaceType
<1>2. T[RdPlace] = r /\ U[RdPlace] = rr /\ RdPlace \in Place
  BY <1>1, PlaceNames DEF Hold
<1>3. SameBut(T, U, Place, RdPlace)
  BY <1>1, PlacesAgree
<1>4. U \in [Place -> Seq(Tag)]
  <2>1. rr \in Seq(Tag)
    OBVIOUS
  <2> QED BY <1>0, <2>1, PlaceType
<1>5. Distinct(U, Place)
  BY <1>1, <1>2, <1>3, <1>4, DistinctTake
<1> QED BY <1>0, <1>5

-----------------------------------------------------------------------------
\* What the places hold has the right type.
LEMMA LiveType ==
  ASSUME BusInv, NEW c \in Chip
  PROVE  /\ LiveQ(c) \in Seq(Cmd) /\ chipQs[c] \in Seq(Cmd)
         /\ \A i \in DOMAIN LiveQ(c) : LiveQ(c)[i] \in Cmd
         /\ chipStages[c] # "INIT" => chipQs[c] # << >>
         /\ Finished(c) => chipStages[c] # "INIT" /\ ~Waiting(c)
         /\ AtWork(c) => LiveQ(c) = chipQs[c] /\ 1 \in DOMAIN LiveQ(c) /\ LiveQ(c)[1] = Working(c)
<1>1. chipQs[c] \in Seq(Cmd) /\ (chipStages[c] # "INIT" => chipQs[c] # << >>)
  BY DEF BusInv, TypedInv, ScoreboardTyped, Protocol, ChipsInStep, ChipInStep
<1>2. Finished(c) => chipStages[c] # "INIT" /\ ~Waiting(c)
  BY StageKinds DEF Finished, Waiting, WaitStages, RestStages
<1>3. LiveQ(c) \in Seq(Cmd)
  <2>1. CASE Finished(c)
    <3>1. Tail(chipQs[c]) \in Seq(Cmd)
      BY <1>1, <1>2, <2>1
    <3> QED BY <2>1, <3>1 DEF LiveQ
  <2>2. CASE ~Finished(c)
    BY <1>1, <2>2 DEF LiveQ
  <2> QED BY <2>1, <2>2
<1>4. ASSUME NEW i \in DOMAIN LiveQ(c) PROVE LiveQ(c)[i] \in Cmd
  BY <1>3, <1>4
<1>5. ASSUME AtWork(c)
      PROVE  LiveQ(c) = chipQs[c] /\ 1 \in DOMAIN LiveQ(c) /\ LiveQ(c)[1] = Working(c)
  <2>1. LiveQ(c) = chipQs[c] /\ chipQs[c] # << >>
    BY <1>1, <1>5 DEF LiveQ, AtWork
  <2>2. 1 \in DOMAIN chipQs[c] /\ chipQs[c][1] = Head(chipQs[c])
    BY <1>1, <2>1
  <2> QED BY <2>1, <2>2 DEF Working
<1> QED BY <1>1, <1>2, <1>3, <1>4, <1>5

\* The tags of the places are sequences of tags.
LEMMA PlaceTypes ==
  ASSUME BusInv, UserTyped
  PROVE  /\ TagsOf(flashCmdQ) \in Seq(Tag) /\ flashCmdQ \in Seq(Cmd)
         /\ LiveTags \in [Chip -> Seq(Tag)] /\ \A c \in Chip : LiveTags[c] = TagsOf(LiveQ(c))
         /\ BusTags \in Seq(Tag) /\ readTagQ \in Seq(Tag) /\ ackQ \in Seq(Tag)
<1>0. \A m \in Cmd : m.tag \in Tag
  BY CmdFields
<1>1. TagsOf(flashCmdQ) \in Seq(Tag) /\ flashCmdQ \in Seq(Cmd)
  <2>1. flashCmdQ \in Seq(Cmd)
    BY DEF BusInv, TypedInv, BusTyped
  <2> QED BY <1>0, <2>1, TagsOfType
<1>2. ASSUME NEW c \in Chip PROVE TagsOf(LiveQ(c)) \in Seq(Tag)
  BY <1>0, <1>2, LiveType, TagsOfType
<1>3. LiveTags \in [Chip -> Seq(Tag)] /\ \A c \in Chip : LiveTags[c] = TagsOf(LiveQ(c))
  BY <1>2 DEF LiveTags
<1>4. BusTags \in Seq(Tag)
  <2>1. AtBus => cmdTagR \in Tag
    BY DEF AtBus, UserTyped
  <2>2. \A t \in Tag : <<t>> \in Seq(Tag)
    OBVIOUS
  <2> QED BY <2>1, <2>2 DEF BusTags
<1> QED BY <1>1, <1>3, <1>4 DEF UserTyped

\* Where a tag is not.
NotSent(t) == \A i \in DOMAIN flashCmdQ : flashCmdQ[i].tag # t
NotAtChips(t) == \A c \in Chip : \A i \in DOMAIN LiveQ(c) : LiveQ(c)[i].tag # t
NotAtBus(t) == AtBus => cmdTagR # t
NotRead(t) == \A i \in DOMAIN readTagQ : readTagQ[i] # t
NotAcked(t) == \A i \in DOMAIN ackQ : ackQ[i] # t

\* A tag in one place is in no other.
LEMMA OnlyPlace ==
  ASSUME BusInv, UserTyped, OnePlace
  PROVE  /\ \A c \in Chip : \A i \in DOMAIN LiveQ(c) :
              LET t == LiveQ(c)[i].tag
              IN  /\ NotSent(t) /\ NotAtBus(t) /\ NotRead(t) /\ NotAcked(t)
                  /\ \A d \in Chip : \A j \in DOMAIN LiveQ(d) : LiveQ(d)[j].tag = t => d = c /\ j = i
         /\ readTagQ # << >> =>
              LET t == readTagQ[1]
              IN  /\ NotSent(t) /\ NotAtBus(t) /\ NotAtChips(t) /\ NotAcked(t)
                  /\ \A j \in DOMAIN readTagQ : j # 1 => readTagQ[j] # t
         /\ ackQ # << >> =>
              LET t == ackQ[1]
              IN  /\ NotSent(t) /\ NotAtBus(t) /\ NotAtChips(t) /\ NotRead(t)
                  /\ \A j \in DOMAIN ackQ : j # 1 => ackQ[j] # t
<1>0. PICK T : T = PlaceTags
  OBVIOUS
<1>1. Hold(T, TagsOf(flashCmdQ), LiveTags, BusTags, readTagQ, ackQ)
  BY <1>0, PlaceHolds DEF PlaceTags
<1>2. Distinct(T, Place)
  BY <1>0 DEF OnePlace
<1>3. \A m \in Cmd : m.tag \in Tag
  BY CmdFields
<1>4. /\ DOMAIN TagsOf(flashCmdQ) = DOMAIN flashCmdQ
      /\ \A i \in DOMAIN flashCmdQ : TagsOf(flashCmdQ)[i] = flashCmdQ[i].tag
  BY <1>3, PlaceTypes, TagsOfType
<1>5. ASSUME NEW c \in Chip
      PROVE  /\ DOMAIN LiveTags[c] = DOMAIN LiveQ(c)
             /\ \A i \in DOMAIN LiveQ(c) : LiveTags[c][i] = LiveQ(c)[i].tag
  BY <1>3, <1>5, LiveType, PlaceTypes, TagsOfType
<1>6. AtBus => 1 \in DOMAIN BusTags /\ BusTags[1] = cmdTagR
  BY DEF BusTags
<1>7. /\ readTagQ # << >> => 1 \in DOMAIN readTagQ
      /\ ackQ # << >> => 1 \in DOMAIN ackQ
  BY DEF UserTyped
<1>8. /\ T[CmdPlace] = TagsOf(flashCmdQ) /\ T[BusPlace] = BusTags /\ T[RdPlace] = readTagQ
      /\ T[AckPlace] = ackQ /\ \A c \in Chip : T[ChipPlace(c)] = LiveTags[c]
  BY <1>1 DEF Hold
<1>9. ASSUME NEW c \in Chip, NEW i \in DOMAIN LiveQ(c), NEW t, t = LiveQ(c)[i].tag
      PROVE  /\ NotSent(t) /\ NotAtBus(t) /\ NotRead(t) /\ NotAcked(t)
             /\ \A d \in Chip : \A j \in DOMAIN LiveQ(d) : LiveQ(d)[j].tag = t => d = c /\ j = i
  <2>1. i \in DOMAIN T[ChipPlace(c)] /\ T[ChipPlace(c)][i] = t /\ ChipPlace(c) \in Place
    BY <1>5, <1>8, <1>9, PlaceNames
  <2>2. \A y \in Place : \A j \in DOMAIN T[y] : T[y][j] = t => y = ChipPlace(c) /\ j = i
    BY <1>2, <2>1 DEF Distinct
  <2>3. NotSent(t) /\ NotRead(t) /\ NotAcked(t)
    BY <1>4, <1>8, <1>9, <2>2, PlaceNames DEF NotSent, NotRead, NotAcked
  <2>4. NotAtBus(t)
    BY <1>6, <1>8, <1>9, <2>2, PlaceNames DEF NotAtBus
  <2>5. ASSUME NEW d \in Chip, NEW j \in DOMAIN LiveQ(d), LiveQ(d)[j].tag = t PROVE d = c /\ j = i
    <3>1. ChipPlace(d) = ChipPlace(c) /\ j = i
      BY <1>5, <1>8, <1>9, <2>2, <2>5, PlaceNames
    <3> QED BY <1>9, <2>5, <3>1, PlaceNames
  <2> QED BY <2>3, <2>4, <2>5
<1>10. ASSUME readTagQ # << >>, NEW t, t = readTagQ[1]
       PROVE  /\ NotSent(t) /\ NotAtBus(t) /\ NotAtChips(t) /\ NotAcked(t)
              /\ \A j \in DOMAIN readTagQ : j # 1 => readTagQ[j] # t
  <2>1. 1 \in DOMAIN T[RdPlace] /\ T[RdPlace][1] = t /\ RdPlace \in Place
    BY <1>7, <1>8, <1>10, PlaceNames
  <2>2. \A y \in Place : \A j \in DOMAIN T[y] : T[y][j] = t => y = RdPlace /\ j = 1
    BY <1>2, <2>1 DEF Distinct
  <2>3. NotSent(t) /\ NotAcked(t)
    BY <1>4, <1>8, <1>10, <2>2, PlaceNames DEF NotSent, NotAcked
  <2>4. NotAtBus(t)
    BY <1>6, <1>8, <1>10, <2>2, PlaceNames DEF NotAtBus
  <2>5. NotAtChips(t)
    BY <1>5, <1>8, <2>2, PlaceNames DEF NotAtChips
  <2>6. \A j \in DOMAIN readTagQ : j # 1 => readTagQ[j] # t
    BY <1>8, <2>1, <2>2
  <2> QED BY <2>3, <2>4, <2>5, <2>6
<1>11. ASSUME ackQ # << >>, NEW t, t = ackQ[1]
       PROVE  /\ NotSent(t) /\ NotAtBus(t) /\ NotAtChips(t) /\ NotRead(t)
              /\ \A j \in DOMAIN ackQ : j # 1 => ackQ[j] # t
  <2>1. 1 \in DOMAIN T[AckPlace] /\ T[AckPlace][1] = t /\ AckPlace \in Place
    BY <1>7, <1>8, <1>11, PlaceNames
  <2>2. \A y \in Place : \A j \in DOMAIN T[y] : T[y][j] = t => y = AckPlace /\ j = 1
    BY <1>2, <2>1 DEF Distinct
  <2>3. NotSent(t) /\ NotRead(t)
    BY <1>4, <1>8, <1>11, <2>2, PlaceNames DEF NotSent, NotRead
  <2>4. NotAtBus(t)
    BY <1>6, <1>8, <1>11, <2>2, PlaceNames DEF NotAtBus
  <2>5. NotAtChips(t)
    BY <1>5, <1>8, <2>2, PlaceNames DEF NotAtChips
  <2>6. \A j \in DOMAIN ackQ : j # 1 => ackQ[j] # t
    BY <1>8, <2>1, <2>2
  <2> QED BY <2>3, <2>4, <2>5, <2>6
<1> QED BY <1>9, <1>10, <1>11

-----------------------------------------------------------------------------
\* The queues of the chips and what they work on, when the scoreboard leaves
\* them alone.
LEMMA LiveSame ==
  ASSUME UNCHANGED <<chipQs, chipStages, chipBusy>>
  PROVE  \A c : /\ LiveQ(c)' = LiveQ(c) /\ (AtWork(c)' <=> AtWork(c))
                /\ (Finished(c)' <=> Finished(c))
                /\ (Waiting(c)' <=> Waiting(c)) /\ Working(c)' = Working(c)
BY DEF LiveQ, AtWork, Finished, Waiting, Working

\* Nothing that is under way under a tag moves.
LEMMA PlacesSame ==
  ASSUME PlaceInv, UNCHANGED <<flashCmdQ, readTagQ, ackQ>>, AtBus' <=> AtBus,
         AtBus => cmdTagR' = cmdTagR, \A c \in Chip : LiveQ(c)' = LiveQ(c)
  PROVE  OnePlace'
<1>1. LiveTags' = LiveTags
  BY DEF LiveTags, TagsOf
<1>2. BusTags' = BusTags
  BY DEF BusTags
<1>3. TagsOf(flashCmdQ)' = TagsOf(flashCmdQ)
  BY DEF TagsOf
<1>4. PlaceTags' = PlaceTags
  BY <1>1, <1>2, <1>3 DEF PlaceTags, PlacesOf, Place, ChipPlace
<1> QED BY <1>4 DEF PlaceInv, OnePlace, Distinct, Place, ChipPlace

\* ... and the user's view of it does not change either.
LEMMA PlaceInvSame ==
  ASSUME PlaceInv, UNCHANGED <<flashCmdQ, readTagQ, ackQ, ctrl>>, AtBus' <=> AtBus,
         AtBus => cmdTagR' = cmdTagR,
         \A c \in Chip : LiveQ(c)' = LiveQ(c) /\ (AtWork(c) => AtWork(c)')
  PROVE  PlaceInv'
<1>1. OnePlace'
  BY PlacesSame
<1>2. \A t, op : Fresh(t, op)' <=> Fresh(t, op)
  BY DEF Fresh
<1>3. UseMatches
  BY DEF PlaceInv
<1>4. (\A i \in DOMAIN flashCmdQ : Fresh(flashCmdQ[i].tag, flashCmdQ[i].op))'
  BY <1>2, <1>3 DEF UseMatches
<1>5. ASSUME NEW c \in Chip, NEW i \in DOMAIN LiveQ(c)'
      PROVE  (IF i = 1 /\ AtWork(c) THEN ctrl[LiveQ(c)[i].tag].op = LiveQ(c)[i].op
              ELSE Fresh(LiveQ(c)[i].tag, LiveQ(c)[i].op))'
  <2>1. PICK m : m = LiveQ(c)[i]
    OBVIOUS
  <2>2. i \in DOMAIN LiveQ(c) /\ (LiveQ(c)[i])' = m
    BY <1>5, <2>1
  <2>3. IF i = 1 /\ AtWork(c) THEN ctrl[m.tag].op = m.op ELSE Fresh(m.tag, m.op)
    BY <1>3, <1>5, <2>1, <2>2 DEF UseMatches
  <2>4. Fresh(m.tag, m.op) => ctrl[m.tag].op = m.op
    BY DEF Fresh
  <2> QED BY <1>2, <1>5, <2>2, <2>3, <2>4
<1>6. /\ AtBus' => ctrl'[cmdTagR'].op = "READ_PAGE"
      /\ \A i \in DOMAIN readTagQ' : ctrl'[readTagQ'[i]].op = "READ_PAGE"
      /\ \A i \in DOMAIN ackQ' : ctrl'[ackQ'[i]].op \in {"WRITE_PAGE", "ERASE_BLOCK"}
  BY <1>3 DEF UseMatches
<1>7. UseMatches'
  BY <1>4, <1>5, <1>6 DEF UseMatches
<1> QED BY <1>1, <1>7 DEF PlaceInv

-----------------------------------------------------------------------------
\* The rules of the scoreboard move no tag: a command whose status says done
\* had left its chip for the bus or for an ack when it was polled.
LEMMA IssueBusCmdPlaces ==
  ASSUME BusInv, NEW k \in Chip, k = currChip, sbState = "SERVICE_REQ", IssueBusCmd
  PROVE  \A c \in Chip : LiveQ(c)' = LiveQ(c) /\ (AtWork(c) => AtWork(c)')
<1>0. PICK h : h = Working(k)
  OBVIOUS
<1>1. /\ chipStages[k] \in DOMAIN Issues[h.op]
      /\ chipStages' = [chipStages EXCEPT ![k] = Issues[h.op][chipStages[k]].stage]
      /\ UNCHANGED <<chipQs, chipBusy>>
  BY <1>0 DEF IssueBusCmd, MoveTo, stage, currReq, Working
<1>2. /\ chipQs[k] \in Seq(Cmd) /\ chipQs[k] # << >> /\ ChipInStep(k)
      /\ chipStages \in [Chip -> {"INIT", "RD_ISSUED", "RD_DATA",
           "WR_BUF_REQ_ISSUED", "WR_ISSUED", "ER_ISSUED", "WAIT_STATUS"}]
  BY DEF BusInv, TypedInv, TypeOK, ScoreboardTyped, Protocol, ChipsInStep
<1>3. h \in Cmd /\ h.op \in Op
  <2>1. h \in Cmd
    BY <1>0, <1>2 DEF Working
  <2> QED BY <2>1, CmdFields
<1>4. chipStages[k] \in StagesOf[h.op]
  <2>1. chipStages[k] # "INIT" => chipStages[k] \in StagesOf[h.op]
    BY <1>0, <1>2 DEF ChipInStep
  <2>2. "INIT" \in StagesOf[h.op]
    BY <1>3 DEF StagesOf, Op
  <2> QED BY <2>1, <2>2
<1>5. /\ Issues[h.op][chipStages[k]].stage # "INIT"
      /\ chipStages[k] \in RestStages \/ chipStages[k] \in IssuedStages
  BY <1>1, <1>3, <1>4, StageTable
<1>6. chipBusy[k] = << >>
  BY <1>2, <1>5 DEF ChipInStep
<1>7. ~Finished(k) /\ ~Finished(k)' /\ chipStages'[k] # "INIT"
  <2>1. << >> # <<FALSE>>
    OBVIOUS
  <2> QED BY <1>1, <1>2, <1>5, <1>6, <2>1 DEF Finished
<1>8. ASSUME NEW c \in Chip, c # k PROVE LiveQ(c)' = LiveQ(c) /\ (AtWork(c) => AtWork(c)')
  <2>1. chipStages'[c] = chipStages[c]
    BY <1>1, <1>2, <1>8
  <2> QED BY <1>1, <2>1 DEF LiveQ, Finished, AtWork
<1>9. LiveQ(k)' = LiveQ(k) /\ AtWork(k)'
  BY <1>1, <1>7 DEF LiveQ, AtWork
<1> QED BY <1>8, <1>9

\* The scoreboard looks at a status.
LEMMA LookAtStatusPlaces ==
  ASSUME BusInv, NEW k \in Chip, k = currChip, LookAtStatus
  PROVE  \A c \in Chip : LiveQ(c)' = LiveQ(c) /\ (AtWork(c) => AtWork(c)')
<1>0. PICK h, busy : h = Working(k) /\ busy = Head(chipBusy[k])
  OBVIOUS
<1>1. /\ chipQs \in [Chip -> Seq(Cmd)] /\ chipBusy \in [Chip -> Seq(BOOLEAN)]
      /\ chipStages \in [Chip -> {"INIT", "RD_ISSUED", "RD_DATA",
           "WR_BUF_REQ_ISSUED", "WR_ISSUED", "ER_ISSUED", "WAIT_STATUS"}]
  BY DEF BusInv, TypedInv, TypeOK, ScoreboardTyped
<1>2. /\ chipStages[k] \in WaitStages /\ chipBusy[k] # << >>
      /\ chipStages' = [chipStages EXCEPT ![k] = IF busy THEN PollStage[h.op] ELSE "INIT"]
      /\ chipQs' = IF busy THEN chipQs ELSE [chipQs EXCEPT ![k] = Tail(@)]
      /\ chipBusy' = [chipBusy EXCEPT ![k] = Tail(@)]
  BY <1>0 DEF LookAtStatus, stage, currReq, Working, WaitStages
<1>3. ChipInStep(k) /\ chipStages[k] # "INIT"
  BY <1>2, StageKinds DEF BusInv, Protocol, ChipsInStep, WaitStages
<1>4. chipBusy[k] \in {<<TRUE>>, <<FALSE>>} /\ chipQs[k] # << >>
  BY <1>2, <1>3 DEF ChipInStep
<1>5. h.op \in Op
  <2>1. h \in Cmd
    BY <1>0, <1>1, <1>4 DEF Working
  <2> QED BY <2>1, CmdFields
<1>6. /\ Tail(chipBusy[k]) = << >> /\ (busy <=> chipBusy[k] # <<FALSE>>) /\ << >> # <<FALSE>>
  BY <1>0, <1>4, OneStatus
<1>7. chipBusy'[k] = << >> /\ \A c \in Chip : c # k => chipBusy'[c] = chipBusy[c]
  BY <1>1, <1>2, <1>6
<1>8. ASSUME NEW c \in Chip, c # k PROVE LiveQ(c)' = LiveQ(c) /\ (AtWork(c) => AtWork(c)')
  <2>1. chipStages'[c] = chipStages[c] /\ chipQs'[c] = chipQs[c]
    BY <1>1, <1>2, <1>8
  <2> QED BY <1>7, <1>8, <2>1 DEF LiveQ, Finished, AtWork
<1>9. ~Finished(k)'
  BY <1>6, <1>7 DEF Finished
<1>10. CASE busy
  <2>1. ~Finished(k) /\ chipQs' = chipQs
    BY <1>2, <1>6, <1>10 DEF Finished
  <2>2. chipStages'[k] # "INIT"
    BY <1>1, <1>2, <1>5, <1>10 DEF PollStage, Op
  <2> QED BY <1>8, <1>9, <2>1, <2>2 DEF LiveQ, AtWork
<1>11. CASE ~busy
  <2>1. Finished(k) /\ chipQs'[k] = Tail(chipQs[k])
    BY <1>1, <1>2, <1>6, <1>11 DEF Finished
  <2> QED BY <1>8, <1>9, <2>1 DEF LiveQ, AtWork
<1> QED BY <1>10, <1>11

\* The scoreboard's rules together.
LEMMA ScoreboardPlaces ==
  ASSUME BusInv, PlaceInv, SBRule, UNCHANGED <<busVars, bufVars, ctrl>>
  PROVE  PlaceInv' /\ \A c \in Chip : LiveQ(c)' = LiveQ(c)
<1>1. UNCHANGED <<flashCmdQ, readTagQ, ackQ, ctrl, state, dataCnt, cmdTagR>>
  BY DEF busVars, ctlVars, readVars
<1>2. PICK k \in Chip : k = currChip
  BY DEF BusInv, TypedInv, TypeOK
<1>3. \A c \in Chip : LiveQ(c)' = LiveQ(c) /\ (AtWork(c) => AtWork(c)')
  <2>1. CASE UNCHANGED <<chipQs, chipStages, chipBusy>>
    BY <2>1, LiveSame
  <2>2. CASE DoServiceReq
    <3>1. CASE IssueBusCmd
      BY <1>2, <2>2, <3>1, IssueBusCmdPlaces DEF DoServiceReq
    <3>2. CASE WaitForData
      BY <2>1, <3>2 DEF WaitForData
    <3>3. CASE LookAtStatus
      BY <1>2, <3>3, LookAtStatusPlaces
    <3> QED BY <2>2, <3>1, <3>2, <3>3 DEF DoServiceReq
  <2>3. CASE DoChooseChip
    BY <2>1, <2>3 DEF DoChooseChip
  <2>4. CASE \E c \in Chip : DecBusyTimer(c)
    BY <2>1, <2>4 DEF DecBusyTimer
  <2> QED BY <2>2, <2>3, <2>4 DEF SBRule
<1>4. AtBus' <=> AtBus
  BY <1>1 DEF AtBus
<1> QED BY <1>1, <1>3, <1>4, PlaceInvSame

\* Steps that neither the places nor the user notice.
LEMMA QuietPlaces ==
  ASSUME PlaceInv, UNCHANGED <<flashCmdQ, readTagQ, ackQ, ctrl>>,
         UNCHANGED <<chipQs, chipStages, chipBusy>>,
         \/ UNCHANGED <<state, cmdTagR, dataCnt>>
         \/ state \notin ReadStates /\ state' \notin ReadStates
         \/ dataCnt' = dataCnt /\ cmdTagR' = cmdTagR /\ {state, state'} \subseteq ReadStates
  PROVE  PlaceInv'
<1>1. (AtBus' <=> AtBus) /\ (AtBus => cmdTagR' = cmdTagR)
  BY DEF AtBus
<1> QED BY <1>1, LiveSame, PlaceInvSame

-----------------------------------------------------------------------------
\* What the user knows of one tag changes, and of no other.
LEMMA CtrlAfter ==
  ASSUME BusInv, NEW t \in Tag
  PROVE  /\ ctrl[t].op \in Op \cup {"none"} /\ ctrl[t].asked \in BOOLEAN /\ ctrl[t].cnt \in Nat
         /\ ctrl' = [ctrl EXCEPT ![t].asked = TRUE] =>
              /\ ctrl'[t].op = ctrl[t].op /\ ctrl'[t].asked /\ ctrl'[t].cnt = ctrl[t].cnt
              /\ \A s \in Tag : s # t => ctrl'[s] = ctrl[s]
         /\ ctrl' = [ctrl EXCEPT ![t].cnt = @ + 1] =>
              /\ ctrl'[t].op = ctrl[t].op /\ (ctrl'[t].asked <=> ctrl[t].asked)
              /\ ctrl'[t].cnt = ctrl[t].cnt + 1
              /\ \A s \in Tag : s # t => ctrl'[s] = ctrl[s]
         /\ ctrl' = [ctrl EXCEPT ![t] = User!Free] =>
              ctrl'[t] = User!Free /\ \A s \in Tag : s # t => ctrl'[s] = ctrl[s]
         /\ \A op \in Op : ctrl' = [ctrl EXCEPT ![t].op = op] =>
              /\ ctrl'[t].op = op /\ ctrl'[t].asked = ctrl[t].asked /\ ctrl'[t].cnt = ctrl[t].cnt
              /\ ctrl[t] = User!Free => ctrl'[t] = [op |-> op, asked |-> FALSE, cnt |-> 0]
              /\ \A s \in Tag : s # t => ctrl'[s] = ctrl[s]
<1>1. ctrl \in [Tag -> CtrlType]
  BY DEF BusInv, TypedInv, BuffersTyped, CtrlType
<1>2. ctrl[t] \in CtrlType
  BY <1>1
<1>3. ctrl[t].op \in Op \cup {"none"} /\ ctrl[t].asked \in BOOLEAN /\ ctrl[t].cnt \in Nat
  BY <1>2 DEF CtrlType
<1>4. ASSUME ctrl' = [ctrl EXCEPT ![t].asked = TRUE]
      PROVE  /\ ctrl'[t].op = ctrl[t].op /\ ctrl'[t].asked /\ ctrl'[t].cnt = ctrl[t].cnt
             /\ \A s \in Tag : s # t => ctrl'[s] = ctrl[s]
  <2>1. ctrl'[t] = [ctrl[t] EXCEPT !.asked = TRUE] /\ \A s \in Tag : s # t => ctrl'[s] = ctrl[s]
    BY <1>1, <1>4
  <2> QED BY <1>2, <2>1 DEF CtrlType
<1>5. ASSUME ctrl' = [ctrl EXCEPT ![t].cnt = @ + 1]
      PROVE  /\ ctrl'[t].op = ctrl[t].op /\ (ctrl'[t].asked <=> ctrl[t].asked)
             /\ ctrl'[t].cnt = ctrl[t].cnt + 1
             /\ \A s \in Tag : s # t => ctrl'[s] = ctrl[s]
  <2>1. /\ ctrl'[t] = [ctrl[t] EXCEPT !.cnt = ctrl[t].cnt + 1]
        /\ \A s \in Tag : s # t => ctrl'[s] = ctrl[s]
    BY <1>1, <1>5
  <2> QED BY <1>2, <2>1 DEF CtrlType
<1>6. ASSUME ctrl' = [ctrl EXCEPT ![t] = User!Free]
      PROVE  ctrl'[t] = User!Free /\ \A s \in Tag : s # t => ctrl'[s] = ctrl[s]
  BY <1>1, <1>6
<1>7. ASSUME NEW op \in Op, ctrl' = [ctrl EXCEPT ![t].op = op]
      PROVE  /\ ctrl'[t].op = op /\ ctrl'[t].asked = ctrl[t].asked /\ ctrl'[t].cnt = ctrl[t].cnt
             /\ ctrl[t] = User!Free => ctrl'[t] = [op |-> op, asked |-> FALSE, cnt |-> 0]
             /\ \A s \in Tag : s # t => ctrl'[s] = ctrl[s]
  <2>1. ctrl'[t] = [ctrl[t] EXCEPT !.op = op] /\ \A s \in Tag : s # t => ctrl'[s] = ctrl[s]
    BY <1>1, <1>7
  <2>2. /\ ctrl'[t] \in [op : Op, asked : BOOLEAN, cnt : Nat] /\ ctrl'[t].op = op
        /\ ctrl'[t].asked = ctrl[t].asked /\ ctrl'[t].cnt = ctrl[t].cnt
    BY <1>2, <1>7, <2>1 DEF CtrlType
  <2>3. ctrl[t] = User!Free => ctrl'[t] = [op |-> op, asked |-> FALSE, cnt |-> 0]
    <3>1. ASSUME ctrl[t] = User!Free PROVE ctrl[t].asked = FALSE /\ ctrl[t].cnt = 0
      BY <3>1 DEF User!Free
    <3> QED BY <2>2, <3>1
  <2> QED BY <2>1, <2>2, <2>3
<1> QED BY <1>3, <1>4, <1>5, <1>6, <1>7

\* A command is fresh as long as nothing is done under its tag.
LEMMA FreshSame == \A t, op : ctrl'[t] = ctrl[t] => (Fresh(t, op)' <=> Fresh(t, op))
BY DEF Fresh

\* A tag that is free is nowhere.
LEMMA FreeIsNowhere ==
  ASSUME BusInv, UserTyped, PlaceInv, NEW t, ctrl[t] = User!Free
  PROVE  /\ NotSent(t) /\ NotAtChips(t) /\ NotAtBus(t) /\ NotRead(t) /\ NotAcked(t)
         /\ NotIn(t, PlaceTags, Place)
<1>0. PICK T : T = PlaceTags
  OBVIOUS
<1>1. Hold(T, TagsOf(flashCmdQ), LiveTags, BusTags, readTagQ, ackQ)
  BY <1>0, PlaceHolds DEF PlaceTags
<1>2. ctrl[t].op = "none" /\ \A op \in Op : ~Fresh(t, op) /\ op # "none"
  BY DEF User!Free, Fresh, Op
<1>3. UseMatches
  BY DEF PlaceInv
<1>4. \A m \in Cmd : m.tag \in Tag /\ m.op \in Op
  BY CmdFields
<1>5. NotSent(t)
  <2>1. ASSUME NEW i \in DOMAIN flashCmdQ PROVE flashCmdQ[i].op \in Op
    <3>1. flashCmdQ[i] \in Cmd
      BY <2>1, PlaceTypes
    <3> QED BY <1>4, <3>1
  <2> QED BY <1>2, <1>3, <2>1 DEF NotSent, UseMatches
<1>6. NotAtChips(t)
  <2>1. ASSUME NEW c \in Chip, NEW i \in DOMAIN LiveQ(c) PROVE LiveQ(c)[i].tag # t
    <3>1. LiveQ(c)[i].op \in Op
      BY <1>4, <2>1, LiveType
    <3>2. IF i = 1 /\ AtWork(c)
            THEN ctrl[LiveQ(c)[i].tag].op = LiveQ(c)[i].op
            ELSE Fresh(LiveQ(c)[i].tag, LiveQ(c)[i].op)
      BY <1>3, <2>1 DEF UseMatches
    <3> QED BY <1>2, <3>1, <3>2
  <2> QED BY <2>1 DEF NotAtChips
<1>7. NotAtBus(t) /\ NotRead(t) /\ NotAcked(t)
  BY <1>2, <1>3 DEF NotAtBus, NotRead, NotAcked, UseMatches
<1>8. /\ DOMAIN TagsOf(flashCmdQ) = DOMAIN flashCmdQ
      /\ \A i \in DOMAIN flashCmdQ : TagsOf(flashCmdQ)[i] = flashCmdQ[i].tag
  BY <1>4, PlaceTypes, TagsOfType
<1>9. ASSUME NEW c \in Chip
      PROVE  /\ DOMAIN LiveTags[c] = DOMAIN LiveQ(c)
             /\ \A i \in DOMAIN LiveQ(c) : LiveTags[c][i] = LiveQ(c)[i].tag
  BY <1>4, <1>9, LiveType, PlaceTypes, TagsOfType
<1>10. ASSUME NEW z \in Place, NEW i \in DOMAIN T[z] PROVE T[z][i] # t
  <2>1. CASE z = CmdPlace
    BY <1>1, <1>5, <1>8, <1>10, <2>1 DEF Hold, NotSent
  <2>2. CASE z = BusPlace
    <3>1. BusTags = IF AtBus THEN <<cmdTagR>> ELSE << >>
      BY DEF BusTags
    <3>2. T[z] = BusTags
      BY <1>1, <2>2 DEF Hold
    <3> QED BY <1>7, <1>10, <3>1, <3>2 DEF NotAtBus
  <2>3. CASE z = RdPlace \/ z = AckPlace
    BY <1>1, <1>7, <1>10, <2>3 DEF Hold, NotRead, NotAcked
  <2>4. ASSUME NEW c \in Chip, z = ChipPlace(c) PROVE T[z][i] # t
    <3>1. T[z] = LiveTags[c]
      BY <1>1, <2>4 DEF Hold
    <3> QED BY <1>6, <1>9, <1>10, <2>4, <3>1 DEF NotAtChips
  <2> QED BY <1>10, <2>1, <2>2, <2>3, <2>4, PlaceNames
<1>11. NotIn(t, T, Place)
  BY <1>10 DEF NotIn
<1> QED BY <1>0, <1>5, <1>6, <1>7, <1>11

\* The user sends a command.
LEMMA SendCmdPlaces ==
  ASSUME BusInv, UserTyped, PlaceInv, NEW t \in Tag, NEW op \in Op, NEW c \in Chip,
         SendCmd(t, op, c)
  PROVE  PlaceInv'
<1>0. PICK m : m = [tag |-> t, op |-> op, chip |-> c]
  OBVIOUS
<1>1. /\ ctrl[t] = User!Free /\ ctrl' = [ctrl EXCEPT ![t].op = op]
      /\ flashCmdQ' = Append(flashCmdQ, m)
      /\ UNCHANGED <<chipQs, chipStages, chipBusy, state, dataCnt, cmdTagR, readTagQ, ackQ>>
  BY <1>0 DEF SendCmd, User!SendCmd, BusSendCmd, sbVars, ctlVars, readVars
<1>2. m \in Cmd /\ m.tag = t /\ m.op = op
  BY <1>0 DEF Cmd
<1>4. Fresh(t, op)' /\ ctrl'[t].op = op /\ \A s \in Tag : s # t => ctrl'[s] = ctrl[s]
  BY <1>1, CtrlAfter DEF Fresh
<1>5. /\ NotSent(t) /\ NotAtChips(t) /\ NotAtBus(t) /\ NotRead(t) /\ NotAcked(t)
      /\ NotIn(t, PlaceTags, Place)
  BY <1>1, FreeIsNowhere
<1>6. /\ LiveTags' = LiveTags /\ BusTags' = BusTags /\ (AtBus' <=> AtBus)
      /\ TagsOf(flashCmdQ)' = Append(TagsOf(flashCmdQ), t)
  <2>1. LiveTags' = LiveTags /\ BusTags' = BusTags /\ (AtBus' <=> AtBus)
    BY <1>1, LiveSame DEF LiveTags, TagsOf, BusTags, AtBus
  <2>2. flashCmdQ \in Seq(Cmd) /\ \A x \in Cmd : x.tag \in Tag
    BY PlaceTypes, CmdFields
  <2>3. TagsOf(Append(flashCmdQ, m)) = Append(TagsOf(flashCmdQ), m.tag)
    BY <1>2, <2>2, TagsOfQueue
  <2> QED BY <1>1, <1>2, <2>1, <2>3 DEF TagsOf
<1>7. OnePlace'
  <2>1. Distinct(PlacesOf(TagsOf(flashCmdQ), LiveTags, BusTags, readTagQ, ackQ), Place)
        /\ NotIn(t, PlacesOf(TagsOf(flashCmdQ), LiveTags, BusTags, readTagQ, ackQ), Place)
    BY <1>5 DEF PlaceInv, OnePlace, PlaceTags
  <2>2. PICK aa : aa = Append(TagsOf(flashCmdQ), t)
    OBVIOUS
  <2>3. Distinct(PlacesOf(aa, LiveTags, BusTags, readTagQ, ackQ), Place)
    BY <2>1, <2>2, PlaceTypes, TagEnds
  <2>4. PlaceTags' = PlacesOf(aa, LiveTags, BusTags, readTagQ, ackQ)
    BY <1>1, <1>6, <2>2 DEF PlaceTags, PlacesOf, Place, ChipPlace
  <2> QED BY <2>3, <2>4 DEF OnePlace, Distinct, Place, ChipPlace
<1>8. UseMatches
  BY DEF PlaceInv
<1>9. ASSUME NEW i \in DOMAIN flashCmdQ' PROVE Fresh(flashCmdQ[i].tag, flashCmdQ[i].op)'
  <2>1. flashCmdQ \in Seq(Cmd) /\ Len(flashCmdQ) \in Nat
    BY PlaceTypes
  <2>2. CASE i \in DOMAIN flashCmdQ
    <3>1. flashCmdQ'[i] = flashCmdQ[i] /\ flashCmdQ[i] \in Cmd
      BY <1>1, <1>2, <2>1, <2>2
    <3>2. flashCmdQ[i].tag # t /\ flashCmdQ[i].tag \in Tag
      BY <1>5, <2>2, <3>1, CmdFields DEF NotSent
    <3> QED BY <1>4, <1>8, <2>2, <3>1, <3>2, FreshSame DEF UseMatches
  <2>3. CASE i = Len(flashCmdQ) + 1
    <3>1. flashCmdQ'[i] = m
      BY <1>1, <1>2, <2>1, <2>3
    <3> QED BY <1>2, <1>4, <3>1
  <2> QED BY <1>1, <1>2, <1>9, <2>1, <2>2, <2>3
<1>10. ASSUME NEW d \in Chip, NEW i \in DOMAIN LiveQ(d)'
       PROVE  (IF i = 1 /\ AtWork(d) THEN ctrl[LiveQ(d)[i].tag].op = LiveQ(d)[i].op
               ELSE Fresh(LiveQ(d)[i].tag, LiveQ(d)[i].op))'
  <2>1. PICK x : x = LiveQ(d)[i]
    OBVIOUS
  <2>2. LiveQ(d)' = LiveQ(d) /\ (AtWork(d)' <=> AtWork(d))
    BY <1>1, LiveSame
  <2>3. i \in DOMAIN LiveQ(d) /\ (LiveQ(d)[i])' = x
    BY <1>10, <2>1, <2>2
  <2>4. x.tag # t /\ x.tag \in Tag
    <3>1. x \in Cmd
      BY <1>10, <2>1, <2>3, LiveType
    <3> QED BY <1>5, <1>10, <2>1, <2>3, <3>1, CmdFields DEF NotAtChips
  <2>5. IF i = 1 /\ AtWork(d) THEN ctrl[x.tag].op = x.op ELSE Fresh(x.tag, x.op)
    BY <1>8, <1>10, <2>1, <2>3 DEF UseMatches
  <2>6. ctrl'[x.tag] = ctrl[x.tag] /\ (Fresh(x.tag, x.op)' <=> Fresh(x.tag, x.op))
    BY <1>4, <2>4, FreshSame
  <2> QED BY <2>2, <2>3, <2>5, <2>6
<1>11. /\ AtBus' => ctrl'[cmdTagR'].op = "READ_PAGE"
       /\ \A i \in DOMAIN readTagQ' : ctrl'[readTagQ'[i]].op = "READ_PAGE"
       /\ \A i \in DOMAIN ackQ' : ctrl'[ackQ'[i]].op \in {"WRITE_PAGE", "ERASE_BLOCK"}
  <2>1. AtBus => cmdTagR \in Tag
    BY DEF UserTyped, AtBus
  <2>2. (\A i \in DOMAIN readTagQ : readTagQ[i] \in Tag) /\ (\A i \in DOMAIN ackQ : ackQ[i] \in Tag)
    BY DEF UserTyped
  <2> QED BY <1>1, <1>4, <1>5, <1>6, <1>8, <2>1, <2>2 DEF UseMatches, NotAtBus, NotRead, NotAcked
<1> QED BY <1>7, <1>9, <1>10, <1>11 DEF PlaceInv, UseMatches

\* The places, before and after.
LEMMA PlacesStep ==
  ASSUME OnePlace
  PROVE  /\ Distinct(PlacesOf(TagsOf(flashCmdQ), LiveTags, BusTags, readTagQ, ackQ), Place)
         /\ Distinct(PlacesOf(TagsOf(flashCmdQ)', LiveTags', BusTags', readTagQ', ackQ'), Place)
              => OnePlace'
<1>1. PlaceTags' = PlacesOf(TagsOf(flashCmdQ)', LiveTags', BusTags', readTagQ', ackQ')
  BY DEF PlaceTags, PlacesOf, Place, ChipPlace
<1> QED BY <1>1 DEF OnePlace, PlaceTags, Distinct, Place, ChipPlace

\* What a chip works on when the user's view of it is left alone.
LEMMA LiveFresh ==
  ASSUME UseMatches, UNCHANGED ctrl, NEW c \in Chip, LiveQ(c)' = LiveQ(c), AtWork(c)' <=> AtWork(c)
  PROVE  \A i \in DOMAIN LiveQ(c)' :
           (IF i = 1 /\ AtWork(c) THEN ctrl[LiveQ(c)[i].tag].op = LiveQ(c)[i].op
            ELSE Fresh(LiveQ(c)[i].tag, LiveQ(c)[i].op))'
<1> SUFFICES ASSUME NEW i \in DOMAIN LiveQ(c)'
             PROVE  (IF i = 1 /\ AtWork(c) THEN ctrl[LiveQ(c)[i].tag].op = LiveQ(c)[i].op
                     ELSE Fresh(LiveQ(c)[i].tag, LiveQ(c)[i].op))'
  OBVIOUS
<1>1. PICK m : m = LiveQ(c)[i]
  OBVIOUS
<1>2. i \in DOMAIN LiveQ(c) /\ (LiveQ(c)[i])' = m
  BY <1>1
<1>3. IF i = 1 /\ AtWork(c) THEN ctrl[m.tag].op = m.op ELSE Fresh(m.tag, m.op)
  BY <1>1, <1>2 DEF UseMatches
<1> QED BY <1>2, <1>3, FreshSame

\* The scoreboard takes the next command.
LEMMA DoSBCmdPlaces ==
  ASSUME BusInv, UserTyped, PlaceInv, DoSBCmd, UNCHANGED ctrl
  PROVE  PlaceInv'
<1>0. PICK m : m = Head(flashCmdQ)
  OBVIOUS
<1>1. /\ flashCmdQ # << >> /\ flashCmdQ' = Tail(flashCmdQ)
      /\ chipQs' = [chipQs EXCEPT ![m.chip] = Append(@, m)]
      /\ UNCHANGED <<chipStages, chipBusy, state, dataCnt, cmdTagR, readTagQ, ackQ>>
  BY <1>0 DEF DoSBCmd, CmdIn, ctlVars, readVars
<1>2. /\ flashCmdQ \in Seq(Cmd) /\ chipQs \in [Chip -> Seq(Cmd)] /\ OnePlace /\ UseMatches
  BY DEF BusInv, TypedInv, ScoreboardTyped, BusTyped, PlaceInv
<1>3. /\ m \in Cmd /\ m.tag \in Tag /\ 1 \in DOMAIN flashCmdQ /\ flashCmdQ[1] = m
      /\ m.chip \in Chip
  <2>1. m \in Cmd /\ 1 \in DOMAIN flashCmdQ /\ flashCmdQ[1] = m
    BY <1>0, <1>1, <1>2
  <2> QED BY <2>1, CmdFields
<1>4. PICK k \in Chip : k = m.chip
  BY <1>3
<1>5. ASSUME NEW c \in Chip
      PROVE  /\ Finished(c)' <=> Finished(c)
             /\ AtWork(c)' <=> AtWork(c)
             /\ LiveQ(c)' = IF c = k THEN Append(LiveQ(c), m) ELSE LiveQ(c)
  <2>1. (Finished(c)' <=> Finished(c)) /\ (AtWork(c)' <=> AtWork(c))
    BY <1>1 DEF Finished, AtWork
  <2>2. chipQs'[c] = IF c = k THEN Append(chipQs[c], m) ELSE chipQs[c]
    BY <1>1, <1>2, <1>4, <1>5
  <2>3. chipQs[c] # << >> => Tail(Append(chipQs[c], m)) = Append(Tail(chipQs[c]), m)
    <3>1. chipQs[c] \in Seq(Cmd)
      BY <1>2, <1>5
    <3> QED BY SMTT(30), <1>3, <3>1, AfterAppend
  <2>4. Finished(c) => chipQs[c] # << >>
    BY <1>5, LiveType
  <2> QED BY <2>1, <2>2, <2>3, <2>4 DEF LiveQ
<1>6. /\ TagsOf(flashCmdQ) # << >> /\ TagsOf(flashCmdQ)' = Tail(TagsOf(flashCmdQ))
      /\ Head(TagsOf(flashCmdQ)) = m.tag
  <2>1. \A x \in Cmd : x.tag \in Tag
    BY CmdFields
  <2>2. TagsOf(flashCmdQ)' = TagsOf(Tail(flashCmdQ))
    BY <1>1 DEF TagsOf
  <2> QED BY <1>0, <1>1, <1>2, <2>1, <2>2, TagsOfQueue
<1>7. SameBut(LiveTags, LiveTags', Chip, k) /\ LiveTags'[k] = Append(LiveTags[k], m.tag)
  <2>1. ASSUME NEW c \in Chip, c # k PROVE LiveTags'[c] = LiveTags[c]
    BY <1>5, <2>1 DEF LiveTags, TagsOf
  <2>2. LiveTags'[k] = TagsOf(Append(LiveQ(k), m)) /\ LiveTags[k] = TagsOf(LiveQ(k))
    BY <1>5 DEF LiveTags, TagsOf
  <2>3. \A x \in Cmd : x.tag \in Tag
    BY CmdFields
  <2>4. TagsOf(Append(LiveQ(k), m)) = Append(TagsOf(LiveQ(k)), m.tag)
    BY <1>3, <2>3, LiveType, TagsOfQueue
  <2> QED BY <2>1, <2>2, <2>4 DEF SameBut
<1>8. OnePlace'
  <2>1. BusTags' = BusTags
    BY <1>1 DEF BusTags, AtBus
  <2>2. PICK a, l, aa, ll : /\ a = TagsOf(flashCmdQ) /\ l = LiveTags
                            /\ aa = TagsOf(flashCmdQ)' /\ ll = LiveTags'
    OBVIOUS
  <2>3. /\ Distinct(PlacesOf(a, l, BusTags, readTagQ, ackQ), Place)
        /\ a \in Seq(Tag) /\ l \in [Chip -> Seq(Tag)]
        /\ BusTags \in Seq(Tag) /\ readTagQ \in Seq(Tag) /\ ackQ \in Seq(Tag)
    BY <1>2, <2>2, PlacesStep, PlaceTypes
  <2>4. a # << >> /\ aa = Tail(a) /\ ll[k] = Append(l[k], Head(a)) /\ SameBut(l, ll, Chip, k)
    BY <1>6, <1>7, <2>2
  <2>5. Distinct(PlacesOf(aa, ll, BusTags, readTagQ, ackQ), Place)
    BY <2>3, <2>4, TagMoves
  <2> QED BY <1>1, <1>2, <2>1, <2>2, <2>5, PlacesStep
<1>9. ASSUME NEW i \in DOMAIN flashCmdQ' PROVE Fresh(flashCmdQ[i].tag, flashCmdQ[i].op)'
  <2>1. i + 1 \in DOMAIN flashCmdQ /\ flashCmdQ'[i] = flashCmdQ[i + 1]
    BY <1>1, <1>2, <1>9
  <2>2. Fresh(flashCmdQ[i + 1].tag, flashCmdQ[i + 1].op)
    BY <1>2, <2>1 DEF UseMatches
  <2> QED BY <2>1, <2>2, FreshSame
<1>10. ASSUME NEW c \in Chip, NEW i \in DOMAIN LiveQ(c)'
       PROVE  (IF i = 1 /\ AtWork(c) THEN ctrl[LiveQ(c)[i].tag].op = LiveQ(c)[i].op
               ELSE Fresh(LiveQ(c)[i].tag, LiveQ(c)[i].op))'
  <2>1. CASE c # k
    BY <1>2, <1>5, <1>10, <2>1, LiveFresh
  <2>2. CASE c = k
    <3>1. LiveQ(c) \in Seq(Cmd) /\ LiveQ(c)' = Append(LiveQ(c), m) /\ Len(LiveQ(c)) \in Nat
      BY <1>5, <1>10, <2>2, LiveType
    <3>2. CASE i \in DOMAIN LiveQ(c)
      <4>1. PICK x : x = LiveQ(c)[i]
        OBVIOUS
      <4>2. LiveQ(c)'[i] = x
        BY <1>3, <3>1, <3>2, <4>1
      <4>3. IF i = 1 /\ AtWork(c) THEN ctrl[x.tag].op = x.op ELSE Fresh(x.tag, x.op)
        BY <1>2, <1>10, <3>2, <4>1 DEF UseMatches
      <4> QED BY <1>5, <1>10, <4>2, <4>3, FreshSame
    <3>3. CASE i = Len(LiveQ(c)) + 1
      <4>1. LiveQ(c)'[i] = m
        BY <1>3, <3>1, <3>3
      <4>2. Fresh(m.tag, m.op)'
        BY <1>2, <1>3, FreshSame DEF UseMatches
      <4>3. ~(i = 1 /\ AtWork(c))
        <5>1. AtWork(c) => 1 \in DOMAIN LiveQ(c)
          BY <1>10, LiveType
        <5> QED BY <3>1, <3>3, <5>1
      <4> QED BY <1>5, <4>1, <4>2, <4>3
    <3> QED BY <1>3, <1>10, <3>1, <3>2, <3>3
  <2> QED BY <2>1, <2>2
<1>11. /\ AtBus' => ctrl'[cmdTagR'].op = "READ_PAGE"
       /\ \A i \in DOMAIN readTagQ' : ctrl'[readTagQ'[i]].op = "READ_PAGE"
       /\ \A i \in DOMAIN ackQ' : ctrl'[ackQ'[i]].op \in {"WRITE_PAGE", "ERASE_BLOCK"}
  BY <1>1, <1>2 DEF UseMatches, AtBus
<1> QED BY <1>8, <1>9, <1>10, <1>11 DEF PlaceInv, UseMatches

-----------------------------------------------------------------------------
\* The entries of a queue after one is added or removed.
LEMMA AppendIs ==
  ASSUME NEW S, NEW q \in Seq(S), NEW w \in S
  PROVE  /\ Append(q, w) \in Seq(S) /\ Len(Append(q, w)) = Len(q) + 1 /\ Append(q, w) # << >>
         /\ \A i \in DOMAIN Append(q, w) :
              \/ i \in DOMAIN q /\ Append(q, w)[i] = q[i]
              \/ i = Len(q) + 1 /\ Append(q, w)[i] = w
         /\ \A i \in DOMAIN q : i \in DOMAIN Append(q, w) /\ Append(q, w)[i] = q[i]
         /\ Len(q) + 1 \in DOMAIN Append(q, w) /\ Append(q, w)[Len(q) + 1] = w
OBVIOUS

\* The entries of a queue after its head is taken.
LEMMA TailIs ==
  ASSUME NEW S, NEW q \in Seq(S), q # << >>
  PROVE  /\ Tail(q) \in Seq(S) /\ Len(Tail(q)) = Len(q) - 1 /\ Len(q) \in Nat \ {0}
         /\ 1 \in DOMAIN q /\ q[1] = Head(q) /\ Head(q) \in S /\ Len(q) \in DOMAIN q
         /\ \A i \in DOMAIN Tail(q) : i \in Nat \ {0} /\ i + 1 \in DOMAIN q /\ Tail(q)[i] = q[i + 1]
OBVIOUS

\* What a poll of a chip does, and to what.
LEMMA PollFacts ==
  ASSUME BusInv, NEW k \in Chip, k = chipR, GetStatus
  PROVE  /\ AtWork(k) /\ ~Finished(k) /\ state \in PollStates /\ dataCnt = 0 /\ dataCnt' = 0
         /\ cmdTagR = Working(k).tag /\ cmdTagR' = cmdTagR /\ cmdTagR \in Tag
         /\ LiveQ(k) \in Seq(Cmd) /\ LiveQ(k) # << >> /\ LiveQ(k)[1] = Working(k)
         /\ chipStages[k] \in WaitStages /\ chipBusy[k] = << >>
         /\ Working(k) \in Cmd
         /\ \A c \in Chip : c # k => LiveQ(c)' = LiveQ(c) /\ (AtWork(c)' <=> AtWork(c))
                                     /\ (Finished(c)' <=> Finished(c))
         /\ UNCHANGED <<chipQs, chipStages, cmdOutQ, flashCmdQ, readTagQ>>
         /\ nand[k].busy => LiveQ(k)' = LiveQ(k) /\ AtWork(k)' /\ ~Finished(k)'
                            /\ state' = "IDLE" /\ ackQ' = ackQ
         /\ ~nand[k].busy => LiveQ(k)' = Tail(LiveQ(k)) /\ ~AtWork(k)' /\ Finished(k)'
         /\ ~nand[k].busy /\ state = "GET_STATUS" =>
              state' = "READ_DATA_WAIT_BUF" /\ ackQ' = ackQ /\ Working(k).op = "READ_PAGE"
         /\ ~nand[k].busy /\ state # "GET_STATUS" =>
              /\ state' = "IDLE" /\ ackQ' = Append(ackQ, cmdTagR)
              /\ Working(k).op \in {"WRITE_PAGE", "ERASE_BLOCK"}
<1>0. PICK b : b = nand[k].busy
  OBVIOUS
<1>1. /\ state \in PollStates
      /\ chipBusy' = [chipBusy EXCEPT ![k] = Append(@, b)]
      /\ state' = IF state = "GET_STATUS" /\ ~b THEN "READ_DATA_WAIT_BUF" ELSE "IDLE"
      /\ state # "GET_STATUS" /\ ~b => ackQ' = Append(ackQ, cmdTagR)
      /\ ~(state # "GET_STATUS" /\ ~b) => ackQ' = ackQ
      /\ UNCHANGED <<chipQs, chipStages, cmdOutQ, cmdTagR, dataCnt, flashCmdQ, readTagQ>>
  BY <1>0 DEF GetStatus, BusyIn, ReadsOut, Acks, PollStates, readVars
<1>2. /\ chipBusy \in [Chip -> Seq(BOOLEAN)] /\ b \in BOOLEAN
  BY <1>0 DEF BusInv, TypedInv, BusTyped, ScoreboardTyped
<1>3. /\ chipStages[k] \in WaitStages /\ chipBusy[k] = << >> /\ chipQs[k] # << >>
      /\ cmdTagR = Working(k).tag /\ state \in StatesOf[Working(k).op]
      /\ Working(k).op \in Op /\ cmdTagR \in Tag
  BY <1>1, AtTheBus
<1>4. chipStages[k] # "INIT"
  BY <1>3 DEF WaitStages
<1>5. ~Finished(k) /\ AtWork(k)
  <2>1. << >> # <<FALSE>>
    OBVIOUS
  <2> QED BY <1>3, <1>4, <2>1 DEF Finished, AtWork
<1>6. /\ LiveQ(k) \in Seq(Cmd) /\ LiveQ(k) # << >> /\ LiveQ(k)[1] = Working(k)
      /\ LiveQ(k) = chipQs[k] /\ Working(k) \in Cmd
  <2>1. LiveQ(k) \in Seq(Cmd) /\ LiveQ(k)[1] = Working(k) /\ LiveQ(k) = chipQs[k]
    BY <1>5, LiveType
  <2> QED BY <1>3, <2>1
<1>7. dataCnt = 0
  <2>1. state \notin {"IDLE", "READ_DATA", "WRITE_PAGE"}
    BY <1>1 DEF PollStates
  <2> QED BY <2>1 DEF BusInv, TypedInv, BurstCounted
<1>8. ASSUME NEW c \in Chip, c # k
      PROVE  LiveQ(c)' = LiveQ(c) /\ (AtWork(c)' <=> AtWork(c)) /\ (Finished(c)' <=> Finished(c))
  <2>1. chipBusy'[c] = chipBusy[c]
    BY <1>1, <1>2, <1>8
  <2> QED BY <1>1, <2>1 DEF LiveQ, AtWork, Finished
<1>9. chipBusy'[k] = <<b>>
  BY <1>1, <1>2, <1>3
<1>10. Finished(k)' <=> ~b
  <2>1. CASE b
    <3>1. b = TRUE
      BY <2>1, <1>2
    <3>2. chipBusy'[k] # <<FALSE>>
      BY <1>9, <3>1, OneStatus
    <3> QED BY <2>1, <3>2 DEF Finished
  <2>2. CASE ~b
    <3>1. b = FALSE
      BY <2>2, <1>2
    <3>2. chipBusy'[k] = <<FALSE>>
      BY <1>9, <3>1
    <3> QED BY <1>1, <1>3, <2>2, <3>2 DEF Finished
  <2> QED BY <2>1, <2>2
<1>11. /\ AtWork(k)' <=> b
       /\ b => LiveQ(k)' = LiveQ(k)
       /\ ~b => LiveQ(k)' = Tail(LiveQ(k))
  BY <1>1, <1>4, <1>6, <1>10 DEF LiveQ, AtWork
<1>12. /\ state = "GET_STATUS" => Working(k).op = "READ_PAGE"
       /\ state # "GET_STATUS" => Working(k).op \in {"WRITE_PAGE", "ERASE_BLOCK"}
  BY <1>1, <1>3 DEF StatesOf, Op, PollStates
<1> QED BY <1>0, <1>1, <1>3, <1>5, <1>6, <1>7, <1>8, <1>10, <1>11, <1>12

\* A poll that finds the chip ready takes the tag from it, to the bus or to an
\* ack.
LEMMA GetStatusPlaces ==
  ASSUME BusInv, UserTyped, PlaceInv, GetStatus, UNCHANGED ctrl
  PROVE  PlaceInv'
<1>1. PICK k \in Chip : k = chipR
  BY AtTheBus
<1>2. OnePlace /\ UseMatches
  BY DEF PlaceInv
<1>3. /\ ~AtBus /\ (AtBus' <=> state' = "READ_DATA_WAIT_BUF") /\ cmdTagR' = cmdTagR
      /\ flashCmdQ' = flashCmdQ /\ readTagQ' = readTagQ
      /\ \A c \in Chip : c # k => LiveQ(c)' = LiveQ(c) /\ (AtWork(c)' <=> AtWork(c))
  <2>1. state \in PollStates /\ dataCnt' = 0 /\ state' \in {"IDLE", "READ_DATA_WAIT_BUF"}
    BY <1>1, PollFacts
  <2>2. ~AtBus
    BY <2>1, StageKinds DEF AtBus
  <2> QED BY <1>1, <2>1, <2>2, PollFacts DEF AtBus, ReadStates
<1>4. CASE nand[k].busy
  <2>1. /\ LiveQ(k)' = LiveQ(k) /\ AtWork(k)' /\ ~AtBus' /\ ackQ' = ackQ
    BY <1>1, <1>3, <1>4, PollFacts
  <2> QED BY <1>3, <2>1, PlaceInvSame
<1>5. CASE ~nand[k].busy
  <2>1. /\ LiveQ(k)' = Tail(LiveQ(k)) /\ ~AtWork(k)' /\ AtWork(k)
        /\ LiveQ(k) \in Seq(Cmd) /\ LiveQ(k) # << >> /\ LiveQ(k)[1] = Working(k)
        /\ cmdTagR = Working(k).tag /\ Working(k) \in Cmd /\ cmdTagR \in Tag
        /\ \/ /\ state' = "READ_DATA_WAIT_BUF" /\ ackQ' = ackQ
              /\ Working(k).op = "READ_PAGE"
           \/ /\ state' = "IDLE" /\ ackQ' = Append(ackQ, cmdTagR)
              /\ Working(k).op \in {"WRITE_PAGE", "ERASE_BLOCK"}
    BY <1>1, <1>5, PollFacts
  <2>2. /\ LiveTags[k] # << >> /\ LiveTags'[k] = Tail(LiveTags[k])
        /\ Head(LiveTags[k]) = cmdTagR /\ SameBut(LiveTags, LiveTags', Chip, k)
    <3>1. \A x \in Cmd : x.tag \in Tag
      BY CmdFields
    <3>2. ASSUME NEW c \in Chip, c # k PROVE LiveTags'[c] = LiveTags[c]
      BY <1>3, <3>2 DEF LiveTags, TagsOf
    <3>3. LiveTags'[k] = TagsOf(Tail(LiveQ(k))) /\ LiveTags[k] = TagsOf(LiveQ(k))
      BY <2>1 DEF LiveTags, TagsOf
    <3>4. Head(LiveQ(k)) = LiveQ(k)[1]
      BY <2>1
    <3> QED BY <2>1, <3>1, <3>2, <3>3, <3>4, TagsOfQueue DEF SameBut
  <2>3. BusTags = << >> /\ BusTags' = IF state' = "READ_DATA_WAIT_BUF" THEN <<cmdTagR>> ELSE << >>
    BY <1>3 DEF BusTags
  <2>4. OnePlace'
    <3>1. PICK l, ll, b, bb, kk : /\ l = LiveTags /\ ll = LiveTags' /\ b = BusTags /\ bb = BusTags'
                                  /\ kk = ackQ'
      OBVIOUS
    <3>2. PICK a : a = TagsOf(flashCmdQ)
      OBVIOUS
    <3>3. /\ Distinct(PlacesOf(a, l, b, readTagQ, ackQ), Place)
          /\ a \in Seq(Tag) /\ l \in [Chip -> Seq(Tag)]
          /\ b \in Seq(Tag) /\ readTagQ \in Seq(Tag) /\ ackQ \in Seq(Tag)
      BY <1>2, <3>1, <3>2, PlacesStep, PlaceTypes
    <3>4. /\ SameBut(l, ll, Chip, k) /\ l[k] # << >> /\ ll[k] = Tail(l[k])
          /\ \/ bb = Append(b, Head(l[k])) /\ kk = ackQ
             \/ kk = Append(ackQ, Head(l[k])) /\ bb = b
      <4>1. Append(<< >>, cmdTagR) = <<cmdTagR>>
        OBVIOUS
      <4> QED BY <2>1, <2>2, <2>3, <3>1, <4>1
    <3>5. Distinct(PlacesOf(a, ll, bb, readTagQ, kk), Place)
      <4>1. CASE bb = Append(b, Head(l[k])) /\ kk = ackQ
        BY <3>3, <3>4, <4>1, TagMoves
      <4>2. CASE kk = Append(ackQ, Head(l[k])) /\ bb = b
        BY <3>3, <3>4, <4>2, TagMoves
      <4> QED BY <3>4, <4>1, <4>2
    <3>6. TagsOf(flashCmdQ)' = a
      BY <1>3, <3>2 DEF TagsOf
    <3> QED BY <1>2, <1>3, <3>1, <3>5, <3>6, PlacesStep
  <2>5. ASSUME NEW i \in DOMAIN flashCmdQ' PROVE Fresh(flashCmdQ[i].tag, flashCmdQ[i].op)'
    BY <1>2, <1>3, <2>5, FreshSame DEF UseMatches
  <2>6. ASSUME NEW c \in Chip, NEW i \in DOMAIN LiveQ(c)'
        PROVE  (IF i = 1 /\ AtWork(c) THEN ctrl[LiveQ(c)[i].tag].op = LiveQ(c)[i].op
                ELSE Fresh(LiveQ(c)[i].tag, LiveQ(c)[i].op))'
    <3>1. CASE c # k
      BY <1>2, <1>3, <2>6, <3>1, LiveFresh
    <3>2. CASE c = k
      <4>1. i + 1 \in DOMAIN LiveQ(k) /\ LiveQ(k)'[i] = LiveQ(k)[i + 1] /\ i + 1 # 1
        BY <2>1, <2>6, <3>2
      <4>2. PICK x : x = LiveQ(k)[i + 1]
        OBVIOUS
      <4>3. Fresh(x.tag, x.op)
        BY <1>2, <4>1, <4>2 DEF UseMatches
      <4> QED BY <2>1, <3>2, <4>1, <4>2, <4>3, FreshSame
    <3> QED BY <3>1, <3>2
  <2>7. ctrl[cmdTagR].op = Working(k).op
    <3>1. 1 \in DOMAIN LiveQ(k)
      BY <2>1
    <3> QED BY <1>2, <2>1, <3>1 DEF UseMatches
  <2>8. /\ AtBus' => ctrl'[cmdTagR'].op = "READ_PAGE"
        /\ \A i \in DOMAIN readTagQ' : ctrl'[readTagQ'[i]].op = "READ_PAGE"
    BY <1>2, <1>3, <2>1, <2>7 DEF UseMatches
  <2>9. ASSUME NEW i \in DOMAIN ackQ' PROVE ctrl'[ackQ'[i]].op \in {"WRITE_PAGE", "ERASE_BLOCK"}
    <3>1. ackQ \in Seq(Tag)
      BY DEF UserTyped
    <3>2. \/ i \in DOMAIN ackQ /\ ackQ'[i] = ackQ[i]
          \/ ackQ'[i] = cmdTagR /\ Working(k).op \in {"WRITE_PAGE", "ERASE_BLOCK"}
      <4>1. CASE ackQ' = ackQ
        BY <2>9, <4>1
      <4>2. CASE ackQ' = Append(ackQ, cmdTagR) /\ Working(k).op \in {"WRITE_PAGE", "ERASE_BLOCK"}
        <5>1. \A j \in DOMAIN Append(ackQ, cmdTagR) :
                \/ j \in DOMAIN ackQ /\ Append(ackQ, cmdTagR)[j] = ackQ[j]
                \/ Append(ackQ, cmdTagR)[j] = cmdTagR
          BY <2>1, <3>1, AppendIs
        <5> QED BY <2>9, <4>2, <5>1
      <4> QED BY <2>1, <4>1, <4>2
    <3> QED BY <1>2, <2>7, <3>2 DEF UseMatches
  <2> QED BY <2>4, <2>5, <2>6, <2>8, <2>9 DEF PlaceInv, UseMatches
<1> QED BY <1>4, <1>5

-----------------------------------------------------------------------------
\* What one word that is read out of a chip does.
LEMMA ReadOutFacts ==
  ASSUME BusInv, UserTyped, DoReadData
  PROVE  /\ state = "READ_DATA" /\ dataCnt \in Nat /\ dataCnt < PageWords /\ cmdTagR \in Tag
         /\ state' = (IF dataCnt = PageWords - 1 THEN "IDLE" ELSE "READ_DATA")
         /\ decodeInQ' = Append(decodeInQ, Word(cmdTagR, dataCnt)) /\ dataCnt' = dataCnt + 1
         /\ readTagQ' = (IF dataCnt = 0 THEN Append(readTagQ, cmdTagR) ELSE readTagQ)
         /\ Word(cmdTagR, dataCnt) \in PageWord
         /\ UNCHANGED <<flashCmdQ, cmdTagR, chipR, ackQ, decodeInBufQ, rdWdCnt>>
<1>1. /\ state = "READ_DATA" /\ dataCnt \in Nat /\ dataCnt < PageWords /\ cmdTagR \in Tag
      /\ Len(decodeInQ) <= dataCnt /\ decodeInQ \in Seq(PageWord)
  BY Depths DEF DoReadData, BusInv, TypedInv, TypeOK, BusTyped, BurstCounted, UserTyped, ReadStates
<1>2. nand[chipR].page = PageOf(cmdTagR)
  BY <1>1, AtTheBus DEF ReadStates
<1>3. PageOf(cmdTagR)[dataCnt + 1] = Word(cmdTagR, dataCnt)
  <2>1. PICK n : n = dataCnt + 1
    OBVIOUS
  <2>2. n \in 1 .. PageWords /\ n - 1 = dataCnt
    BY <1>1, <2>1, Depths
  <2>3. PageOf(cmdTagR)[n] = Word(cmdTagR, n - 1)
    BY <2>2 DEF PageOf
  <2> QED BY <2>1, <2>2, <2>3
<1>4. Word(cmdTagR, dataCnt) \in PageWord
  BY <1>1 DEF Word, PageWord
<1>5. Len(decodeInQ) # DecodeInDepth
  BY <1>1, Depths
<1> QED BY <1>1, <1>2, <1>3, <1>4, <1>5 DEF DoReadData

\* The tag goes with the first word of its page.
LEMMA DoReadDataPlaces ==
  ASSUME BusInv, UserTyped, PlaceInv, DoReadData, UNCHANGED ctrl
  PROVE  PlaceInv'
<1>1. OnePlace /\ UseMatches
  BY DEF PlaceInv
<1>2. UNCHANGED <<chipQs, chipStages, chipBusy>>
  BY DEF DoReadData, sbVars
<1>3. ~AtBus' /\ UNCHANGED <<flashCmdQ, ackQ, cmdTagR>>
  <2>1. dataCnt \in Nat /\ dataCnt' = dataCnt + 1
    BY ReadOutFacts
  <2> QED BY <2>1, ReadOutFacts DEF AtBus
<1>4. CASE dataCnt # 0
  <2>1. ~AtBus /\ readTagQ' = readTagQ
    BY <1>4, ReadOutFacts DEF AtBus
  <2>2. \A c \in Chip : LiveQ(c)' = LiveQ(c) /\ (AtWork(c) => AtWork(c)')
    BY <1>2, LiveSame
  <2> QED BY <1>3, <2>1, <2>2, PlaceInvSame
<1>5. CASE dataCnt = 0
  <2>1. AtBus /\ readTagQ' = Append(readTagQ, cmdTagR) /\ cmdTagR \in Tag
    BY <1>5, ReadOutFacts DEF AtBus, ReadStates
  <2>2. BusTags = <<cmdTagR>> /\ BusTags' = << >>
    BY <1>3, <2>1 DEF BusTags
  <2>3. OnePlace'
    <3>1. PICK a, b, bb, rr : /\ a = TagsOf(flashCmdQ) /\ b = BusTags /\ bb = BusTags'
                              /\ rr = readTagQ'
      OBVIOUS
    <3>2. /\ Distinct(PlacesOf(a, LiveTags, b, readTagQ, ackQ), Place)
          /\ a \in Seq(Tag) /\ LiveTags \in [Chip -> Seq(Tag)]
          /\ b \in Seq(Tag) /\ readTagQ \in Seq(Tag) /\ ackQ \in Seq(Tag)
      BY <1>1, <3>1, PlacesStep, PlaceTypes
    <3>3. b # << >> /\ bb = Tail(b) /\ rr = Append(readTagQ, Head(b))
      BY <2>1, <2>2, <3>1
    <3>4. Distinct(PlacesOf(a, LiveTags, bb, rr, ackQ), Place)
      BY <3>2, <3>3, TagEnds
    <3>5. TagsOf(flashCmdQ)' = a /\ LiveTags' = LiveTags
      BY <1>2, <1>3, <3>1, LiveSame DEF TagsOf, LiveTags
    <3> QED BY <1>1, <1>3, <3>1, <3>4, <3>5, PlacesStep
  <2>4. ASSUME NEW i \in DOMAIN flashCmdQ' PROVE Fresh(flashCmdQ[i].tag, flashCmdQ[i].op)'
    BY <1>1, <1>3, <2>4, FreshSame DEF UseMatches
  <2>5. ASSUME NEW c \in Chip, NEW i \in DOMAIN LiveQ(c)'
        PROVE  (IF i = 1 /\ AtWork(c) THEN ctrl[LiveQ(c)[i].tag].op = LiveQ(c)[i].op
                ELSE Fresh(LiveQ(c)[i].tag, LiveQ(c)[i].op))'
    <3>1. LiveQ(c)' = LiveQ(c) /\ (AtWork(c)' <=> AtWork(c))
      BY <1>2, LiveSame
    <3> QED BY <1>1, <2>5, <3>1, LiveFresh
  <2>6. ASSUME NEW i \in DOMAIN readTagQ' PROVE ctrl'[readTagQ'[i]].op = "READ_PAGE"
    <3>1. \A j \in DOMAIN Append(readTagQ, cmdTagR) :
            \/ j \in DOMAIN readTagQ /\ Append(readTagQ, cmdTagR)[j] = readTagQ[j]
            \/ Append(readTagQ, cmdTagR)[j] = cmdTagR
      BY <2>1, AppendIs DEF UserTyped
    <3> QED BY <1>1, <2>1, <2>6, <3>1 DEF UseMatches
  <2>7. \A i \in DOMAIN ackQ' : ctrl'[ackQ'[i]].op \in {"WRITE_PAGE", "ERASE_BLOCK"}
    BY <1>1, <1>3 DEF UseMatches
  <2> QED BY <1>3, <2>3, <2>4, <2>5, <2>6, <2>7 DEF PlaceInv, UseMatches
<1> QED BY <1>4, <1>5

-----------------------------------------------------------------------------
\* What is under way when the user's view of a tag changes that is not fresh.
LEMMA UserActs ==
  ASSUME BusInv, UserTyped, PlaceInv, NEW t \in Tag, OnePlace',
         UNCHANGED <<flashCmdQ, chipQs, chipStages, chipBusy>>, AtBus' <=> AtBus, cmdTagR' = cmdTagR,
         \A i \in DOMAIN readTagQ' : \E j \in DOMAIN readTagQ : readTagQ'[i] = readTagQ[j],
         \A i \in DOMAIN ackQ' : \E j \in DOMAIN ackQ : ackQ'[i] = ackQ[j],
         \A s \in Tag : s # t => ctrl'[s] = ctrl[s],
         \/ /\ ctrl'[t].op = ctrl[t].op
            /\ \/ \A op : ~Fresh(t, op)
               \/ /\ NotSent(t)
                  /\ \A c \in Chip : \A i \in DOMAIN LiveQ(c) :
                       LiveQ(c)[i].tag = t => i = 1 /\ AtWork(c)
         \/ /\ NotSent(t) /\ NotAtChips(t) /\ NotAtBus(t)
            /\ \A i \in DOMAIN readTagQ' : readTagQ'[i] # t
            /\ \A i \in DOMAIN ackQ' : ackQ'[i] # t
  PROVE  PlaceInv'
<1>1. UseMatches
  BY DEF PlaceInv
<1>2. ASSUME NEW i \in DOMAIN flashCmdQ' PROVE Fresh(flashCmdQ[i].tag, flashCmdQ[i].op)'
  <2>1. PICK x : x = flashCmdQ[i]
    OBVIOUS
  <2>2. /\ i \in DOMAIN flashCmdQ /\ (flashCmdQ[i])' = x /\ Fresh(x.tag, x.op)
    BY <1>1, <1>2, <2>1 DEF UseMatches
  <2>3. x \in Cmd
    BY <2>1, <2>2, PlaceTypes
  <2>4. x.tag \in Tag
    BY <2>3, CmdFields
  <2>5. x.tag # t
    BY <2>1, <2>2 DEF NotSent
  <2> QED BY <2>2, <2>4, <2>5, FreshSame
<1>3. ASSUME NEW c \in Chip, NEW i \in DOMAIN LiveQ(c)'
      PROVE  (IF i = 1 /\ AtWork(c) THEN ctrl[LiveQ(c)[i].tag].op = LiveQ(c)[i].op
              ELSE Fresh(LiveQ(c)[i].tag, LiveQ(c)[i].op))'
  <2>1. PICK x : x = LiveQ(c)[i]
    OBVIOUS
  <2>2. LiveQ(c)' = LiveQ(c) /\ (AtWork(c)' <=> AtWork(c))
    BY LiveSame
  <2>3. i \in DOMAIN LiveQ(c) /\ (LiveQ(c)[i])' = x
    BY <1>3, <2>1, <2>2
  <2>4. IF i = 1 /\ AtWork(c) THEN ctrl[x.tag].op = x.op ELSE Fresh(x.tag, x.op)
    BY <1>1, <1>3, <2>1, <2>3 DEF UseMatches
  <2>5. x.tag \in Tag
    <3>1. x \in Cmd
      BY <1>3, <2>1, <2>3, LiveType
    <3> QED BY <3>1, CmdFields
  <2>6. CASE x.tag # t
    BY <2>2, <2>3, <2>4, <2>5, <2>6, FreshSame
  <2>7. CASE x.tag = t
    <3>1. ctrl'[t].op = ctrl[t].op /\ i = 1 /\ AtWork(c)
      BY <1>3, <2>1, <2>3, <2>4, <2>7 DEF NotAtChips
    <3> QED BY <2>2, <2>3, <2>4, <2>7, <3>1
  <2> QED BY <2>6, <2>7
<1>4. AtBus' => ctrl'[cmdTagR'].op = "READ_PAGE"
  <2>1. AtBus => cmdTagR \in Tag /\ ctrl[cmdTagR].op = "READ_PAGE"
    BY <1>1 DEF UserTyped, AtBus, UseMatches
  <2> QED BY <2>1 DEF NotAtBus
<1>5. ASSUME NEW i \in DOMAIN readTagQ' PROVE ctrl'[readTagQ'[i]].op = "READ_PAGE"
  <2>1. PICK s : s = readTagQ'[i]
    OBVIOUS
  <2>2. ctrl[s].op = "READ_PAGE" /\ s \in Tag
    <3>1. PICK j \in DOMAIN readTagQ : s = readTagQ[j]
      BY <1>5, <2>1
    <3> QED BY <1>1, <3>1 DEF UseMatches, UserTyped
  <2> QED BY <1>5, <2>1, <2>2
<1>6. ASSUME NEW i \in DOMAIN ackQ' PROVE ctrl'[ackQ'[i]].op \in {"WRITE_PAGE", "ERASE_BLOCK"}
  <2>1. PICK s : s = ackQ'[i]
    OBVIOUS
  <2>2. ctrl[s].op \in {"WRITE_PAGE", "ERASE_BLOCK"} /\ s \in Tag
    <3>1. PICK j \in DOMAIN ackQ : s = ackQ[j]
      BY <1>6, <2>1
    <3> QED BY <1>1, <3>1 DEF UseMatches, UserTyped
  <2> QED BY <1>6, <2>1, <2>2
<1> QED BY <1>2, <1>3, <1>4, <1>5, <1>6 DEF PlaceInv, UseMatches

\* What the user's word read is, for the controller and the user.
LEMMA ReadWordFacts ==
  ASSUME BusInv, UserTyped, PlaceInv, UserCounts, ReadWord
  PROVE  LET t == readTagQ[1]
         IN  /\ readTagQ # << >> /\ t \in Tag /\ ctrl[t].op = "READ_PAGE" /\ ctrl[t].cnt = rdWdCnt
             /\ decodeInBufQ # << >> /\ decodeInBufQ' = Tail(decodeInBufQ)
             /\ UNCHANGED <<sbVars, flashCmdQ, ctlVars, wrVars, ackQ, decodeInQ, nand, bufVars>>
             /\ rdWdCnt = PageWords - 1 =>
                  /\ rdWdCnt' = 0 /\ readTagQ' = Tail(readTagQ) /\ ctrl' = [ctrl EXCEPT ![t] = User!Free]
                  /\ ctrl'[t] = User!Free
             /\ rdWdCnt # PageWords - 1 =>
                  /\ rdWdCnt' = rdWdCnt + 1 /\ readTagQ' = readTagQ
                  /\ ctrl' = [ctrl EXCEPT ![t].cnt = @ + 1] /\ ctrl'[t].op = "READ_PAGE"
                  /\ ctrl'[t].cnt = rdWdCnt' /\ (ctrl'[t].asked <=> ctrl[t].asked)
             /\ \A s \in Tag : s # t => ctrl'[s] = ctrl[s]
<1>0. PICK t : t = readTagQ[1]
  OBVIOUS
<1>1. readTagQ # << >> /\ 1 \in DOMAIN readTagQ /\ Head(readTagQ) = t /\ t \in Tag
  <2>1. readTagQ # << >> /\ readTagQ \in Seq(Tag)
    BY DEF ReadWord, BusReadWord, UserTyped
  <2> QED BY <1>0, <2>1
<1>2. ctrl[t].op = "READ_PAGE"
  BY <1>0, <1>1 DEF PlaceInv, UseMatches
<1>3. ctrl[t].cnt = rdWdCnt
  BY <1>0, <1>1, <1>2 DEF UserCounts
<1>4. /\ decodeInBufQ # << >> /\ decodeInBufQ' = Tail(decodeInBufQ)
      /\ UNCHANGED <<sbVars, flashCmdQ, ctlVars, wrVars, ackQ, decodeInQ, nand, bufVars>>
      /\ rdWdCnt = PageWords - 1 =>
           /\ rdWdCnt' = 0 /\ readTagQ' = Tail(readTagQ) /\ ctrl' = [ctrl EXCEPT ![t] = User!Free]
      /\ rdWdCnt # PageWords - 1 =>
           /\ rdWdCnt' = rdWdCnt + 1 /\ readTagQ' = readTagQ
           /\ ctrl' = [ctrl EXCEPT ![t].cnt = @ + 1]
  BY <1>1, <1>3 DEF ReadWord, BusReadWord, LastOfPage
<1>5. CASE rdWdCnt = PageWords - 1
  <2>1. ctrl' = [ctrl EXCEPT ![t] = User!Free]
    BY <1>4, <1>5
  <2>2. ctrl'[t] = User!Free /\ \A s \in Tag : s # t => ctrl'[s] = ctrl[s]
    BY <1>1, <2>1, CtrlAfter
  <2> QED BY <1>0, <1>1, <1>2, <1>3, <1>4, <1>5, <2>1, <2>2
<1>6. CASE rdWdCnt # PageWords - 1
  <2>1. ctrl' = [ctrl EXCEPT ![t].cnt = @ + 1]
    BY <1>4, <1>6
  <2>2. /\ ctrl'[t].op = ctrl[t].op /\ ctrl'[t].cnt = ctrl[t].cnt + 1
        /\ (ctrl'[t].asked <=> ctrl[t].asked)
        /\ \A s \in Tag : s # t => ctrl'[s] = ctrl[s]
    BY <1>1, <2>1, CtrlAfter
  <2> QED BY <1>0, <1>1, <1>2, <1>3, <1>4, <1>6, <2>1, <2>2
<1> QED BY <1>5, <1>6

\* The user takes a word, and with the last one of a page its tag.
LEMMA ReadWordPlaces ==
  ASSUME BusInv, UserTyped, PlaceInv, UserCounts, ReadWord
  PROVE  PlaceInv'
<1>0. PICK t : t = readTagQ[1]
  OBVIOUS
<1>1. /\ readTagQ # << >> /\ t \in Tag /\ ctrl[t].op = "READ_PAGE"
      /\ \A s \in Tag : s # t => ctrl'[s] = ctrl[s]
      /\ rdWdCnt = PageWords - 1 => readTagQ' = Tail(readTagQ)
      /\ rdWdCnt # PageWords - 1 => readTagQ' = readTagQ /\ ctrl'[t].op = "READ_PAGE"
  BY <1>0, ReadWordFacts
<1>2. /\ UNCHANGED <<flashCmdQ, chipQs, chipStages, chipBusy, cmdTagR, ackQ>> /\ (AtBus' <=> AtBus)
  BY ReadWordFacts DEF sbVars, ctlVars, AtBus
<1>3. /\ NotSent(t) /\ NotAtBus(t) /\ NotAtChips(t) /\ NotAcked(t)
      /\ \A j \in DOMAIN readTagQ : j # 1 => readTagQ[j] # t
  <2>1. OnePlace
    BY DEF PlaceInv
  <2> QED BY <1>0, <1>1, <2>1, OnlyPlace
<1>4. /\ \A i \in DOMAIN ackQ' : \E j \in DOMAIN ackQ : ackQ'[i] = ackQ[j]
      /\ \A i \in DOMAIN ackQ' : ackQ'[i] # t
  BY <1>2, <1>3 DEF NotAcked
<1>5. /\ LiveTags' = LiveTags /\ BusTags' = BusTags /\ TagsOf(flashCmdQ)' = TagsOf(flashCmdQ)
      /\ \A c \in Chip : LiveQ(c)' = LiveQ(c) /\ (AtWork(c) => AtWork(c)')
  BY <1>2, LiveSame DEF TagsOf, LiveTags, BusTags
<1>6. CASE rdWdCnt # PageWords - 1
  <2>1. OnePlace'
    BY <1>1, <1>2, <1>5, <1>6, PlacesSame
  <2>2. \A i \in DOMAIN readTagQ' : \E j \in DOMAIN readTagQ : readTagQ'[i] = readTagQ[j]
    BY <1>1, <1>6
  <2>3. \A c \in Chip : \A i \in DOMAIN LiveQ(c) : LiveQ(c)[i].tag = t => i = 1 /\ AtWork(c)
    BY <1>3 DEF NotAtChips
  <2>4. ctrl'[t].op = ctrl[t].op
    BY <1>1, <1>6
  <2> QED BY <1>1, <1>2, <1>3, <1>4, <2>1, <2>2, <2>3, <2>4, UserActs
<1>7. CASE rdWdCnt = PageWords - 1
  <2>1. \A i \in DOMAIN Tail(readTagQ) :
           i \in Nat \ {0} /\ i + 1 \in DOMAIN readTagQ /\ Tail(readTagQ)[i] = readTagQ[i + 1]
    BY <1>1, TailIs DEF UserTyped
  <2>2. /\ \A i \in DOMAIN readTagQ' : \E j \in DOMAIN readTagQ : readTagQ'[i] = readTagQ[j]
        /\ \A i \in DOMAIN readTagQ' : readTagQ'[i] # t
    <3>1. ASSUME NEW i \in DOMAIN readTagQ'
          PROVE  (\E j \in DOMAIN readTagQ : readTagQ'[i] = readTagQ[j]) /\ readTagQ'[i] # t
      <4>1. i \in Nat \ {0} /\ i + 1 \in DOMAIN readTagQ /\ readTagQ'[i] = readTagQ[i + 1]
        BY <1>1, <1>7, <2>1, <3>1
      <4>2. i + 1 # 1
        BY <4>1
      <4> QED BY <1>3, <4>1, <4>2
    <3> QED BY <3>1
  <2>3. OnePlace'
    <3>1. PICK a, l, b, r, k, rr : /\ a = TagsOf(flashCmdQ) /\ l = LiveTags /\ b = BusTags
                                   /\ r = readTagQ /\ k = ackQ /\ rr = readTagQ'
      OBVIOUS
    <3>2. /\ Distinct(PlacesOf(a, l, b, r, k), Place)
          /\ a \in Seq(Tag) /\ l \in [Chip -> Seq(Tag)]
          /\ b \in Seq(Tag) /\ r \in Seq(Tag) /\ k \in Seq(Tag)
      BY <3>1, PlacesStep, PlaceTypes DEF PlaceInv
    <3>3. r # << >> /\ rr = Tail(r)
      BY <1>1, <1>7, <3>1
    <3>4. Distinct(PlacesOf(a, l, b, rr, k), Place)
      BY <3>2, <3>3, PageEnds
    <3> QED BY <1>2, <1>5, <3>1, <3>4, PlacesStep DEF PlaceInv
  <2> QED BY <1>1, <1>2, <1>3, <1>4, <2>2, <2>3, UserActs
<1> QED BY <1>6, <1>7

\* The user takes an ack, and its tag is free.
LEMMA AckStatusPlaces ==
  ASSUME BusInv, UserTyped, PlaceInv, AckStatus
  PROVE  PlaceInv' /\ ackQ # << >> /\ ackQ[1] \in Tag /\ ctrl' = [ctrl EXCEPT ![ackQ[1]] = User!Free]
         /\ ackQ' = Tail(ackQ) /\ ctrl[ackQ[1]].op \in {"WRITE_PAGE", "ERASE_BLOCK"}
<1>0. PICK t : t = ackQ[1]
  OBVIOUS
<1>1. /\ ackQ # << >> /\ t \in Tag /\ ackQ' = Tail(ackQ) /\ 1 \in DOMAIN ackQ
      /\ ctrl' = [ctrl EXCEPT ![t] = User!Free]
  <2>1. ackQ # << >> /\ ackQ \in Seq(Tag)
    BY DEF AckStatus, BusAckStatus, UserTyped
  <2>2. 1 \in DOMAIN ackQ /\ Head(ackQ) = t /\ t \in Tag
    BY <1>0, <2>1
  <2> QED BY <2>1, <2>2 DEF AckStatus, BusAckStatus
<1>2. /\ UNCHANGED <<flashCmdQ, chipQs, chipStages, chipBusy, cmdTagR, readTagQ>>
      /\ (AtBus' <=> AtBus)
  BY DEF AckStatus, BusAckStatus, sbVars, ctlVars, readVars, AtBus
<1>3. /\ NotSent(t) /\ NotAtBus(t) /\ NotAtChips(t) /\ NotRead(t)
      /\ \A j \in DOMAIN ackQ : j # 1 => ackQ[j] # t
  <2>1. OnePlace
    BY DEF PlaceInv
  <2> QED BY <1>0, <1>1, <2>1, OnlyPlace
<1>4. /\ \A i \in DOMAIN readTagQ' : \E j \in DOMAIN readTagQ : readTagQ'[i] = readTagQ[j]
      /\ \A i \in DOMAIN readTagQ' : readTagQ'[i] # t
  BY <1>2, <1>3 DEF NotRead
<1>5. LiveTags' = LiveTags /\ BusTags' = BusTags /\ TagsOf(flashCmdQ)' = TagsOf(flashCmdQ)
  BY <1>2, LiveSame DEF TagsOf, LiveTags, BusTags
<1>6. \A s \in Tag : s # t => ctrl'[s] = ctrl[s]
  BY <1>1, CtrlAfter
<1>7. \A i \in DOMAIN Tail(ackQ) :
         i \in Nat \ {0} /\ i + 1 \in DOMAIN ackQ /\ Tail(ackQ)[i] = ackQ[i + 1]
  BY <1>1, TailIs DEF UserTyped
<1>8. /\ \A i \in DOMAIN ackQ' : \E j \in DOMAIN ackQ : ackQ'[i] = ackQ[j]
      /\ \A i \in DOMAIN ackQ' : ackQ'[i] # t
  <2>1. ASSUME NEW i \in DOMAIN ackQ'
        PROVE  (\E j \in DOMAIN ackQ : ackQ'[i] = ackQ[j]) /\ ackQ'[i] # t
    <3>1. i \in Nat \ {0} /\ i + 1 \in DOMAIN ackQ /\ ackQ'[i] = ackQ[i + 1]
      BY <1>1, <1>7, <2>1
    <3>2. i + 1 # 1
      BY <3>1
    <3> QED BY <1>3, <3>1, <3>2
  <2> QED BY <2>1
<1>9. OnePlace'
  <2>1. PICK a, kk : a = TagsOf(flashCmdQ) /\ kk = ackQ'
    OBVIOUS
  <2>2. /\ Distinct(PlacesOf(a, LiveTags, BusTags, readTagQ, ackQ), Place)
        /\ a \in Seq(Tag) /\ LiveTags \in [Chip -> Seq(Tag)]
        /\ BusTags \in Seq(Tag) /\ readTagQ \in Seq(Tag) /\ ackQ \in Seq(Tag)
    BY <2>1, PlacesStep, PlaceTypes DEF PlaceInv
  <2>3. kk = Tail(ackQ) /\ ackQ # << >>
    BY <1>1, <2>1
  <2>4. Distinct(PlacesOf(a, LiveTags, BusTags, readTagQ, kk), Place)
    BY <2>2, <2>3, TagEnds
  <2> QED BY <1>2, <1>5, <2>1, <2>4, PlacesStep DEF PlaceInv
<1>10. ctrl[t].op \in {"WRITE_PAGE", "ERASE_BLOCK"}
  BY <1>0, <1>1 DEF PlaceInv, UseMatches
<1>11. PlaceInv'
  BY <1>1, <1>2, <1>3, <1>4, <1>6, <1>8, <1>9, UserActs
<1> QED BY <1>0, <1>1, <1>10, <1>11

-----------------------------------------------------------------------------
\* A chip at work.
LEMMA AtWorkFacts ==
  ASSUME BusInv, NEW c \in Chip, AtWork(c)
  PROVE  /\ Working(c) \in Cmd /\ Working(c).tag \in Tag /\ Working(c).op \in Op
         /\ 1 \in DOMAIN LiveQ(c) /\ LiveQ(c)[1] = Working(c) /\ LiveQ(c) = chipQs[c]
         /\ chipStages[c] \in StagesOf[Working(c).op] /\ chipStages[c] # "INIT" /\ ~Finished(c)
<1>1. 1 \in DOMAIN LiveQ(c) /\ LiveQ(c)[1] = Working(c) /\ LiveQ(c)[1] \in Cmd
      /\ LiveQ(c) = chipQs[c]
  BY LiveType
<1>2. Working(c).tag \in Tag /\ Working(c).op \in Op
  BY <1>1, CmdFields
<1>3. ChipInStep(c) /\ chipStages[c] # "INIT"
  BY DEF BusInv, Protocol, ChipsInStep, AtWork
<1>4. chipStages[c] \in StagesOf[Working(c).op]
  BY <1>3 DEF ChipInStep
<1> QED BY <1>1, <1>2, <1>3, <1>4 DEF AtWork

\* A chip that waits for the data of its page.
LEMMA WaitingFacts ==
  ASSUME BusInv, NEW c \in Chip, Waiting(c)
  PROVE  AtWork(c) /\ Working(c).op = "WRITE_PAGE"
<1>1. AtWork(c)
  BY StageKinds DEF AtWork, Waiting, Finished, WaitStages
<1>2. Waiting(c) /\ chipStages[c] \in StagesOf[Working(c).op] /\ Working(c).op \in Op
  BY <1>1, AtWorkFacts
<1>3. Working(c).op = "WRITE_PAGE"
  BY <1>2 DEF StagesOf, Op, Waiting
<1> QED BY <1>1, <1>3

\* What a chip works on is under way nowhere else.
LEMMA WorkedOn ==
  ASSUME BusInv, UserTyped, PlaceInv, NEW c \in Chip, AtWork(c), NEW t, t = Working(c).tag
  PROVE  /\ NotSent(t) /\ NotAtBus(t) /\ NotRead(t) /\ NotAcked(t)
         /\ \A d \in Chip : \A j \in DOMAIN LiveQ(d) : LiveQ(d)[j].tag = t => d = c /\ j = 1
         /\ \A d \in Chip : AtWork(d) /\ Working(d).tag = t => d = c
         /\ ctrl[t].op = Working(c).op /\ t \in Tag
<1>1. /\ 1 \in DOMAIN LiveQ(c) /\ LiveQ(c)[1].tag = t /\ LiveQ(c)[1] = Working(c) /\ t \in Tag
  BY AtWorkFacts
<1>2. OnePlace /\ UseMatches
  BY DEF PlaceInv
<1>3. /\ NotSent(t) /\ NotAtBus(t) /\ NotRead(t) /\ NotAcked(t)
      /\ \A d \in Chip : \A j \in DOMAIN LiveQ(d) : LiveQ(d)[j].tag = t => d = c /\ j = 1
  BY <1>1, <1>2, OnlyPlace
<1>4. ASSUME NEW d \in Chip, AtWork(d), Working(d).tag = t PROVE d = c
  <2>1. 1 \in DOMAIN LiveQ(d) /\ LiveQ(d)[1].tag = t
    BY <1>4, AtWorkFacts
  <2> QED BY <1>3, <1>4, <2>1
<1>5. ctrl[t].op = Working(c).op
  BY <1>1, <1>2 DEF UseMatches
<1> QED BY <1>1, <1>3, <1>4, <1>5

\* The user is asked for the page of a chip that waits for it.
LEMMA AskFacts ==
  ASSUME BusInv, UserTyped, PlaceInv, UserCounts, AskedOnce, DoHandleWriteDataReq
  PROVE  LET t == wrDataBufReqQ[1]
         IN  /\ wrDataBufReqQ # << >> /\ wrDataBufReqQ' = Tail(wrDataBufReqQ)
             /\ t \in Tag /\ ctrl[t].op = "WRITE_PAGE" /\ ~ctrl[t].asked /\ ctrl[t].cnt = 0
             /\ \E c \in Chip : Waiting(c) /\ Working(c).tag = t
             /\ ctrl' = [ctrl EXCEPT ![t].asked = TRUE]
             /\ ctrl'[t].op = "WRITE_PAGE" /\ ctrl'[t].asked /\ ctrl'[t].cnt = 0
             /\ \A s \in Tag : s # t => ctrl'[s] = ctrl[s]
             /\ writePageBufBack = << >> /\ writeWordCnt = 0 /\ writeFetchSt = 0 /\ writeFetchSt' = 1
             /\ UNCHANGED <<sbVars, flashCmdQ, ctlVars, wrDataTransReqQ, ackQ, encodeQ, readVars, nand,
                            writePageBufBack, writePageBufFront, writeWordCnt, wrState, wdataCnt>>
<1>0. PICK t : t = wrDataBufReqQ[1]
  OBVIOUS
<1>1. wrDataBufReqQ # << >> /\ wrDataBufReqQ \in Seq(Tag)
  BY DEF DoHandleWriteDataReq, BusWriteDataBufReq, UserTyped
<1>2. 1 \in DOMAIN wrDataBufReqQ /\ Head(wrDataBufReqQ) = t /\ t \in Tag
  BY <1>0, <1>1
<1>3. /\ ctrl' = [ctrl EXCEPT ![t].asked = TRUE] /\ wrDataBufReqQ' = Tail(wrDataBufReqQ)
      /\ writePageBufBack = << >> /\ writeWordCnt = 0 /\ writeFetchSt = 0 /\ writeFetchSt' = 1
      /\ UNCHANGED <<sbVars, flashCmdQ, ctlVars, wrDataTransReqQ, ackQ, encodeQ, readVars, nand,
                     writePageBufBack, writePageBufFront, writeWordCnt, wrState, wdataCnt>>
  BY <1>2 DEF DoHandleWriteDataReq, BusWriteDataBufReq
<1>4. ~ctrl[t].asked /\ \E c \in Chip : Waiting(c) /\ Working(c).tag = t
  BY <1>0, <1>2 DEF AskedOnce, Asking
<1>5. PICK c \in Chip : Waiting(c) /\ Working(c).tag = t
  BY <1>4
<1>6. ctrl[t].op = "WRITE_PAGE"
  BY <1>5, WaitingFacts, WorkedOn
<1>7. ctrl[t].cnt = 0
  BY <1>2, <1>4, <1>6 DEF UserCounts
<1>8. /\ ctrl'[t].op = "WRITE_PAGE" /\ ctrl'[t].asked /\ ctrl'[t].cnt = 0
      /\ \A s \in Tag : s # t => ctrl'[s] = ctrl[s]
  BY <1>2, <1>3, <1>6, <1>7, CtrlAfter
<1> QED BY <1>0, <1>1, <1>2, <1>3, <1>4, <1>6, <1>7, <1>8

\* Steps of the user that leave every tag where it is.
LEMMA StayPut ==
  ASSUME BusInv, UserTyped, PlaceInv, NEW t \in Tag,
         UNCHANGED <<flashCmdQ, chipQs, chipStages, chipBusy, state, cmdTagR, dataCnt, readTagQ, ackQ>>,
         ctrl'[t].op = ctrl[t].op, \A s \in Tag : s # t => ctrl'[s] = ctrl[s],
         \/ \A op : ~Fresh(t, op)
         \/ \E c \in Chip : AtWork(c) /\ Working(c).tag = t
  PROVE  PlaceInv'
<1>1. AtBus' <=> AtBus
  BY DEF AtBus
<1>2. \A c \in Chip : LiveQ(c)' = LiveQ(c)
  BY LiveSame
<1>3. OnePlace'
  BY <1>1, <1>2, PlacesSame
<1>4. /\ \A i \in DOMAIN readTagQ' : \E j \in DOMAIN readTagQ : readTagQ'[i] = readTagQ[j]
      /\ \A i \in DOMAIN ackQ' : \E j \in DOMAIN ackQ : ackQ'[i] = ackQ[j]
  OBVIOUS
<1>5. CASE \A op : ~Fresh(t, op)
  BY <1>1, <1>3, <1>4, <1>5, UserActs
<1>6. CASE \E c \in Chip : AtWork(c) /\ Working(c).tag = t
  <2>1. PICK c \in Chip : AtWork(c) /\ Working(c).tag = t
    BY <1>6
  <2>2. /\ NotSent(t)
        /\ \A d \in Chip : \A j \in DOMAIN LiveQ(d) : LiveQ(d)[j].tag = t => d = c /\ j = 1
    BY <2>1, WorkedOn
  <2>3. \A d \in Chip : \A j \in DOMAIN LiveQ(d) : LiveQ(d)[j].tag = t => j = 1 /\ AtWork(d)
    BY <2>1, <2>2
  <2> QED BY <1>1, <1>3, <1>4, <2>2, <2>3, UserActs
<1> QED BY <1>5, <1>6

\* A page is asked for under a tag that a chip works on.
LEMMA AskPlaces ==
  ASSUME BusInv, UserTyped, PlaceInv, UserCounts, AskedOnce, DoHandleWriteDataReq
  PROVE  PlaceInv'
<1>0. PICK t : t = wrDataBufReqQ[1]
  OBVIOUS
<1>1. /\ t \in Tag /\ ctrl'[t].op = ctrl[t].op /\ \A s \in Tag : s # t => ctrl'[s] = ctrl[s]
      /\ \E c \in Chip : Waiting(c) /\ Working(c).tag = t
  BY <1>0, AskFacts
<1>2. PICK c \in Chip : Waiting(c) /\ Working(c).tag = t
  BY <1>1
<1>3. \E d \in Chip : AtWork(d) /\ Working(d).tag = t
  BY <1>2, WaitingFacts
<1>4. UNCHANGED <<flashCmdQ, chipQs, chipStages, chipBusy, state, cmdTagR, dataCnt, readTagQ, ackQ>>
  BY AskFacts DEF sbVars, ctlVars, readVars
<1> QED BY <1>1, <1>3, <1>4, StayPut

\* The user writes a word of a page it was asked for.
LEMMA WriteFacts ==
  ASSUME BusInv, NEW t \in Tag, WriteWord(t)
  PROVE  /\ ctrl[t].asked /\ ctrl[t].cnt < PageWords /\ ctrl[t].cnt \in Nat
         /\ ctrl'[t].op = ctrl[t].op /\ ctrl'[t].asked /\ ctrl'[t].cnt = ctrl[t].cnt + 1
         /\ \A s \in Tag : s # t => ctrl'[s] = ctrl[s]
<1>1. ctrl[t].asked /\ ctrl[t].cnt < PageWords /\ ctrl' = [ctrl EXCEPT ![t].cnt = @ + 1]
  BY DEF WriteWord, User!WriteWord
<1> QED BY <1>1, CtrlAfter

\* A word is written under a tag that stays where it is.
LEMMA WriteWordPlaces ==
  ASSUME BusInv, UserTyped, PlaceInv, NEW t \in Tag, WriteWord(t)
  PROVE  PlaceInv'
<1>1. /\ ctrl'[t].op = ctrl[t].op /\ \A s \in Tag : s # t => ctrl'[s] = ctrl[s]
      /\ \A op : ~Fresh(t, op)
  BY WriteFacts DEF Fresh
<1>2. UNCHANGED <<flashCmdQ, chipQs, chipStages, chipBusy, state, cmdTagR, dataCnt, readTagQ, ackQ>>
  BY DEF WriteWord, sbVars, busVars, ctlVars, readVars
<1> QED BY <1>1, <1>2, StayPut

-----------------------------------------------------------------------------
\* Every step keeps a tag in one place, and in use for what was asked.
LEMMA PlaceInvNext ==
  ASSUME BusInv, UserTyped, PlaceInv, UserCounts, AskedOnce, [Next]_vars
  PROVE  PlaceInv'
<1>1. ASSUME NEW job \in Jobs, SendCmd(job[1], job[2], job[3]) PROVE PlaceInv'
  <2>1. job[1] \in Tag /\ job[2] \in Op /\ job[3] \in Chip
    BY JobAssumption DEF Op
  <2> QED BY <1>1, <2>1, SendCmdPlaces
<1>2. ASSUME NEW t \in Tag, WriteWord(t) PROVE PlaceInv'
  BY <1>2, WriteWordPlaces
<1>3. CASE BusRule /\ UNCHANGED <<bufVars, ctrl>>
  <2>1. CASE SBRule /\ UNCHANGED busVars
    BY <1>3, <2>1, ScoreboardPlaces
  <2>2. CASE DoSBCmd
    BY <1>3, <2>2, DoSBCmdPlaces
  <2>3. CASE DoDecodeCmd
    <3>1. /\ state = "IDLE" /\ UNCHANGED <<flashCmdQ, readTagQ, ackQ, chipQs, chipStages, chipBusy>>
          /\ state' = StateOf[Head(cmdOutQ).busOp] /\ cmdOutQ # << >>
      BY <2>3 DEF DoDecodeCmd, CmdOut, readVars
    <3>2. Head(cmdOutQ) \in BusCmd
      BY <3>1 DEF BusInv, TypedInv, ScoreboardTyped
    <3>3. state' \notin ReadStates /\ state \notin ReadStates
      <4>1. Head(cmdOutQ).busOp \in {"WRITE_DATA_BUF_REQ"} \cup StartOps \cup PollOps
        BY <3>2 DEF BusCmd
      <4> QED BY <3>1, <4>1 DEF StateOf, StartOps, PollOps, ReadStates
    <3> QED BY <1>3, <3>1, <3>3, QuietPlaces
  <2>4. CASE StartChip
    BY <1>3, <2>4, QuietPlaces DEF StartChip, sbVars, readVars, ReadStates
  <2>5. CASE GetStatus
    BY <1>3, <2>5, GetStatusPlaces
  <2>6. CASE DoReadDataWaitBuf
    BY <1>3, <2>6, QuietPlaces DEF DoReadDataWaitBuf, sbVars, readVars, ReadStates
  <2>7. CASE DoReadData
    BY <1>3, <2>7, DoReadDataPlaces
  <2>8. CASE DoWriteDataWait
    BY <1>3, <2>8, QuietPlaces DEF DoWriteDataWait, sbVars, readVars, ReadStates
  <2>9. CASE DoWritePageData
    BY <1>3, <2>9, QuietPlaces DEF DoWritePageData, sbVars, readVars, ReadStates
  <2>10. CASE DoDecoderDataBuf
    BY <1>3, <2>10, QuietPlaces DEF DoDecoderDataBuf, sbVars, ctlVars
  <2>11. CASE \E c \in Chip : NandReady(c)
    BY <1>3, <2>11, QuietPlaces DEF NandReady, sbVars, ctlVars, readVars
  <2> QED BY <1>3, <2>1, <2>2, <2>3, <2>4, <2>5, <2>6, <2>7, <2>8, <2>9, <2>10, <2>11
       DEF BusRule, BusStep
<1>4. CASE DoHandleWriteDataReq
  BY <1>4, AskPlaces
<1>5. CASE DoWriteFetchWait \/ DoWriteBufTransfer
  BY <1>5, QuietPlaces DEF DoWriteFetchWait, DoWriteBufTransfer, sbVars, busVars, ctlVars, readVars
<1>6. CASE SetWriteDataRdy
  BY <1>6, QuietPlaces DEF SetWriteDataRdy, SetWdataRdy, busVars, ctlVars, readVars
<1>7. CASE DoWriteDataTransferReq
  BY <1>7, QuietPlaces DEF DoWriteDataTransferReq, BusWriteDataTransferReq, sbVars, ctlVars, readVars
<1>8. CASE DoWriteDataTransferToBus
  BY <1>8, QuietPlaces DEF DoWriteDataTransferToBus, BusWriteWord, sbVars, busVars, ctlVars, readVars
<1>9. CASE ReadWord
  BY <1>9, ReadWordPlaces
<1>10. CASE AckStatus
  BY <1>10, AckStatusPlaces
<1>11. CASE UNCHANGED vars
  BY <1>11, QuietPlaces DEF vars, sbVars, busVars, ctlVars, readVars
<1> QED BY <1>1, <1>2, <1>3, <1>4, <1>5, <1>6, <1>7, <1>8, <1>9, <1>10, <1>11
     DEF Next, ControllerRule

-----------------------------------------------------------------------------
\* The queues and counters between the user and the bus keep their types.
userQueues == <<readTagQ, ackQ, wrDataBufReqQ, wrDataTransReqQ, decodeInBufQ>>

\* They keep them in a step that does not touch them.
LEMMA UserTypedSame ==
  ASSUME UserTyped, UNCHANGED <<userQueues, rdWdCnt, wrState, writeFetchSt>>,
         \/ state' \notin ReadStates
         \/ cmdTagR' = cmdTagR /\ state \in ReadStates
         \/ cmdTagR' \in Tag
  PROVE  UserTyped'
BY DEF UserTyped, userQueues

\* The bus takes a command and is not reading a page out.
LEMMA DecodeTyped ==
  ASSUME BusInv, UserTyped, DoDecodeCmd, UNCHANGED <<bufVars, ctrl>>
  PROVE  UserTyped' /\ state' \notin ReadStates /\ Head(cmdOutQ) \in BusCmd
         /\ Head(cmdOutQ).tag \in Tag /\ Head(cmdOutQ).chip \in Chip
         /\ Head(cmdOutQ).busOp \in {"WRITE_DATA_BUF_REQ"} \cup StartOps \cup PollOps
<1>0. PICK m : m = Head(cmdOutQ)
  OBVIOUS
<1>1. /\ cmdOutQ # << >> /\ state' = StateOf[m.busOp]
      /\ wrDataBufReqQ' = wrDataBufReqQ \/ wrDataBufReqQ' = Append(wrDataBufReqQ, m.tag)
      /\ wrDataTransReqQ' = wrDataTransReqQ \/ wrDataTransReqQ' = Append(wrDataTransReqQ, 1)
      /\ UNCHANGED <<ackQ, decodeInBufQ, readTagQ, rdWdCnt, wrState, writeFetchSt>>
  BY <1>0 DEF DoDecodeCmd, CmdOut, readVars, bufVars
<1>2. m \in BusCmd /\ m.tag \in Tag /\ m.chip \in Chip
      /\ m.busOp \in {"WRITE_DATA_BUF_REQ"} \cup StartOps \cup PollOps
  <2>1. cmdOutQ \in Seq(BusCmd)
    BY DEF BusInv, TypedInv, ScoreboardTyped
  <2>2. m \in BusCmd
    BY <1>0, <1>1, <2>1
  <2> QED BY <2>2 DEF BusCmd
<1>3. state' \notin ReadStates
  BY <1>1, <1>2 DEF StateOf, StartOps, PollOps, ReadStates
<1>4. wrDataBufReqQ' \in Seq(Tag) /\ wrDataTransReqQ' \in Seq({1})
  <2>1. wrDataBufReqQ \in Seq(Tag) /\ wrDataTransReqQ \in Seq({1})
    BY DEF UserTyped
  <2>2. Append(wrDataBufReqQ, m.tag) \in Seq(Tag)
    BY <1>2, <2>1, AppendIs
  <2>3. Append(wrDataTransReqQ, 1) \in Seq({1})
    BY <2>1
  <2> QED BY <1>1, <2>1, <2>2, <2>3
<1>5. UserTyped'
  BY <1>1, <1>3, <1>4 DEF UserTyped
<1> QED BY <1>0, <1>2, <1>3, <1>5

\* Every step keeps these types.
LEMMA UserTypedNext ==
  ASSUME BusInv, UserTyped, PlaceInv, UserCounts, [Next]_vars
  PROVE  UserTyped'
<1>0. PageWords \in Nat \ {0}
  BY Depths
<1>1. ASSUME NEW t, NEW op, NEW c, SendCmd(t, op, c) PROVE UserTyped'
  BY <1>1, UserTypedSame DEF SendCmd, BusSendCmd, userQueues, ctlVars, wrVars, readVars, bufVars
<1>2. ASSUME NEW t, WriteWord(t) PROVE UserTyped'
  BY <1>2, UserTypedSame DEF WriteWord, userQueues, busVars, ctlVars, wrVars, readVars
<1>3. CASE BusRule /\ UNCHANGED <<bufVars, ctrl>>
  <2>0. wrState' = wrState /\ writeFetchSt' = writeFetchSt
    BY <1>3 DEF bufVars
  <2>1. CASE SBRule /\ UNCHANGED busVars
    BY <2>0, <2>1, UserTypedSame DEF userQueues, busVars, ctlVars, wrVars, readVars
  <2>2. CASE DoSBCmd
    BY <2>0, <2>2, UserTypedSame DEF DoSBCmd, userQueues, ctlVars, wrVars, readVars
  <2>3. CASE DoDecodeCmd
    BY <1>3, <2>3, DecodeTyped
  <2>4. CASE StartChip
    BY <2>0, <2>4, UserTypedSame DEF StartChip, userQueues, wrVars, readVars, ReadStates
  <2>5. CASE GetStatus
    <3>1. PICK k \in Chip : k = chipR
      BY AtTheBus
    <3>2. /\ cmdTagR \in Tag /\ cmdTagR' = cmdTagR
          /\ ackQ' = ackQ \/ ackQ' = Append(ackQ, cmdTagR)
      BY <2>5, <3>1, PollFacts DEF GetStatus
    <3>3. ackQ \in Seq(Tag) /\ Append(ackQ, cmdTagR) \in Seq(Tag)
      BY <3>2, AppendIs DEF UserTyped
    <3>4. ackQ' \in Seq(Tag)
      BY <3>2, <3>3
    <3>5. UNCHANGED <<readTagQ, wrDataBufReqQ, wrDataTransReqQ, decodeInBufQ, rdWdCnt>>
      BY <2>5 DEF GetStatus, wrVars, readVars
    <3> QED BY <2>0, <3>2, <3>4, <3>5 DEF UserTyped
  <2>6. CASE DoReadDataWaitBuf
    BY <2>0, <2>6, UserTypedSame DEF DoReadDataWaitBuf, userQueues, wrVars, readVars, ReadStates
  <2>7. CASE DoReadData
    <3>1. /\ cmdTagR \in Tag /\ cmdTagR' = cmdTagR
          /\ readTagQ' = readTagQ \/ readTagQ' = Append(readTagQ, cmdTagR)
      BY <2>7, ReadOutFacts
    <3>2. readTagQ \in Seq(Tag) /\ Append(readTagQ, cmdTagR) \in Seq(Tag)
      BY <3>1, AppendIs DEF UserTyped
    <3>3. readTagQ' \in Seq(Tag)
      BY <3>1, <3>2
    <3>4. UNCHANGED <<ackQ, wrDataBufReqQ, wrDataTransReqQ, decodeInBufQ, rdWdCnt>>
      BY <2>7 DEF DoReadData, wrVars
    <3> QED BY <2>0, <3>1, <3>3, <3>4 DEF UserTyped
  <2>8. CASE DoWriteDataWait
    BY <2>0, <2>8, UserTypedSame DEF DoWriteDataWait, userQueues, wrVars, readVars, ReadStates
  <2>9. CASE DoWritePageData
    BY <2>0, <2>9, UserTypedSame DEF DoWritePageData, userQueues, readVars, ReadStates
  <2>10. CASE DoDecoderDataBuf
    <3>1. /\ decodeInQ # << >> /\ decodeInBufQ' = Append(decodeInBufQ, Head(decodeInQ))
          /\ UNCHANGED <<readTagQ, ackQ, wrDataBufReqQ, wrDataTransReqQ, rdWdCnt, state, cmdTagR>>
      BY <2>10 DEF DoDecoderDataBuf, ctlVars, wrVars
    <3>2. decodeInQ \in Seq(PageWord) /\ decodeInBufQ \in Seq(PageWord)
      BY DEF BusInv, TypedInv, BusTyped, UserTyped
    <3>3. Head(decodeInQ) \in PageWord
      BY <3>1, <3>2
    <3>4. decodeInBufQ' \in Seq(PageWord)
      BY <3>1, <3>2, <3>3, AppendIs
    <3> QED BY <2>0, <3>1, <3>4 DEF UserTyped
  <2>11. CASE \E c \in Chip : NandReady(c)
    BY <2>0, <2>11, UserTypedSame DEF NandReady, userQueues, ctlVars, wrVars, readVars
  <2> QED BY <1>3, <2>1, <2>2, <2>3, <2>4, <2>5, <2>6, <2>7, <2>8, <2>9, <2>10, <2>11
       DEF BusRule, BusStep
<1>4. CASE DoHandleWriteDataReq
  <2>1. /\ wrDataBufReqQ # << >> /\ wrDataBufReqQ' = Tail(wrDataBufReqQ) /\ writeFetchSt' = 1
        /\ UNCHANGED <<readTagQ, ackQ, wrDataTransReqQ, decodeInBufQ, rdWdCnt, state, cmdTagR, wrState>>
    BY <1>4 DEF DoHandleWriteDataReq, BusWriteDataBufReq, ctlVars, readVars
  <2>2. wrDataBufReqQ' \in Seq(Tag)
    BY <2>1, TailIs DEF UserTyped
  <2> QED BY <2>1, <2>2 DEF UserTyped
<1>5. CASE DoWriteFetchWait \/ DoWriteBufTransfer
  <2>1. /\ UNCHANGED <<userQueues, rdWdCnt, state, cmdTagR, wrState>>
        /\ writeFetchSt' = writeFetchSt \/ writeFetchSt' = 0
    BY <1>5 DEF DoWriteFetchWait, DoWriteBufTransfer, userQueues, busVars, ctlVars, wrVars, readVars
  <2> QED BY <2>1 DEF UserTyped, userQueues
<1>6. CASE SetWriteDataRdy
  BY <1>6, UserTypedSame DEF SetWriteDataRdy, userQueues, busVars, ctlVars, wrVars, readVars, bufVars
<1>7. CASE DoWriteDataTransferReq
  <2>1. /\ wrDataTransReqQ # << >> /\ wrDataTransReqQ' = Tail(wrDataTransReqQ) /\ wrState' = 1
        /\ UNCHANGED <<readTagQ, ackQ, wrDataBufReqQ, decodeInBufQ, rdWdCnt, state, cmdTagR, writeFetchSt>>
    BY <1>7 DEF DoWriteDataTransferReq, BusWriteDataTransferReq, ctlVars, readVars
  <2>2. wrDataTransReqQ' \in Seq({1})
    BY <2>1, TailIs DEF UserTyped
  <2> QED BY <2>1, <2>2 DEF UserTyped
<1>8. CASE DoWriteDataTransferToBus
  <2>1. /\ UNCHANGED <<userQueues, rdWdCnt, state, cmdTagR, writeFetchSt>>
        /\ wrState' = wrState \/ wrState' = 0
    BY <1>8 DEF DoWriteDataTransferToBus, BusWriteWord, userQueues, busVars, ctlVars, wrVars, readVars
  <2> QED BY <2>1 DEF UserTyped, userQueues
<1>9. CASE ReadWord
  <2>1. /\ readTagQ # << >> /\ decodeInBufQ # << >> /\ decodeInBufQ' = Tail(decodeInBufQ)
        /\ rdWdCnt = PageWords - 1 => rdWdCnt' = 0 /\ readTagQ' = Tail(readTagQ)
        /\ rdWdCnt # PageWords - 1 => rdWdCnt' = rdWdCnt + 1 /\ readTagQ' = readTagQ
        /\ UNCHANGED <<ackQ, wrDataBufReqQ, wrDataTransReqQ, state, cmdTagR, wrState, writeFetchSt>>
    BY <1>9, ReadWordFacts DEF ctlVars, wrVars, bufVars
  <2>2. Tail(readTagQ) \in Seq(Tag) /\ decodeInBufQ' \in Seq(PageWord) /\ readTagQ \in Seq(Tag)
    BY <2>1, TailIs DEF UserTyped
  <2>3. rdWdCnt' \in 0 .. PageWords - 1
    <3>1. rdWdCnt \in 0 .. PageWords - 1
      BY DEF UserTyped
    <3> QED BY <1>0, <2>1, <3>1
  <2>4. readTagQ' \in Seq(Tag)
    BY <2>1, <2>2
  <2> QED BY <2>1, <2>2, <2>3, <2>4 DEF UserTyped
<1>10. CASE AckStatus
  <2>1. /\ ackQ # << >> /\ ackQ' = Tail(ackQ)
        /\ UNCHANGED <<readTagQ, wrDataBufReqQ, wrDataTransReqQ, decodeInBufQ, rdWdCnt, state, cmdTagR,
                       wrState, writeFetchSt>>
    BY <1>10 DEF AckStatus, BusAckStatus, ctlVars, wrVars, readVars, bufVars
  <2>2. ackQ' \in Seq(Tag)
    BY <2>1, TailIs DEF UserTyped
  <2> QED BY <2>1, <2>2 DEF UserTyped
<1>11. CASE UNCHANGED vars
  BY <1>11, UserTypedSame DEF vars, userQueues, busVars, ctlVars, wrVars, readVars, bufVars
<1> QED BY <1>1, <1>2, <1>3, <1>4, <1>5, <1>6, <1>7, <1>8, <1>9, <1>10, <1>11
     DEF Next, ControllerRule

-----------------------------------------------------------------------------
\* What is given to the user of a page does not change.
LEMMA CountsSame ==
  ASSUME UserCounts, UNCHANGED <<ctrl, readTagQ, rdWdCnt>>
  PROVE  UserCounts'
BY DEF UserCounts, User!Free

\* A tag whose use changes, while the pages read do not.
LEMMA CountsPut ==
  ASSUME UserCounts, UNCHANGED <<readTagQ, rdWdCnt>>, NEW t \in Tag,
         \A s \in Tag : s # t => ctrl'[s] = ctrl[s],
         /\ ctrl'[t].op = "none" => ctrl'[t] = User!Free
         /\ ctrl'[t].op # "WRITE_PAGE" => ~ctrl'[t].asked
         /\ ctrl'[t].op = "READ_PAGE" =>
              ctrl'[t].cnt = IF readTagQ # << >> /\ readTagQ[1] = t THEN rdWdCnt ELSE 0
         /\ ctrl'[t].op = "WRITE_PAGE" /\ ~ctrl'[t].asked => ctrl'[t].cnt = 0
  PROVE  UserCounts'
<1>1. ASSUME NEW s \in Tag
      PROVE  /\ ctrl'[s].op = "none" => ctrl'[s] = User!Free
             /\ ctrl'[s].op # "WRITE_PAGE" => ~ctrl'[s].asked
             /\ ctrl'[s].op = "READ_PAGE" =>
                  ctrl'[s].cnt = IF readTagQ' # << >> /\ readTagQ'[1] = s THEN rdWdCnt' ELSE 0
             /\ ctrl'[s].op = "WRITE_PAGE" /\ ~ctrl'[s].asked => ctrl'[s].cnt = 0
  <2>1. CASE s = t
    BY <2>1
  <2>2. CASE s # t
    <3>1. ctrl'[s] = ctrl[s]
      BY <1>1, <2>2
    <3> QED BY <1>1, <3>1 DEF UserCounts
  <2> QED BY <2>1, <2>2
<1> QED BY <1>1 DEF UserCounts, User!Free

\* The fields of a free tag.
LEMMA FreeFields == User!Free.op = "none" /\ ~User!Free.asked /\ User!Free.cnt = 0
BY DEF User!Free

\* Every step keeps the counts of the user in line with those of the bus.
LEMMA UserCountsNext ==
  ASSUME BusInv, UserTyped, PlaceInv, UserCounts, ReadsInOrder, AskedOnce, [Next]_vars
  PROVE  UserCounts'
<1>1. ASSUME NEW job \in Jobs, SendCmd(job[1], job[2], job[3]) PROVE UserCounts'
  <2>1. PICK t, op : t = job[1] /\ op = job[2] /\ t \in Tag /\ op \in Op
    BY JobAssumption DEF Op
  <2>2. /\ ctrl[t] = User!Free /\ ctrl' = [ctrl EXCEPT ![t].op = op]
        /\ UNCHANGED <<readTagQ, rdWdCnt>>
    BY <1>1, <2>1 DEF SendCmd, User!SendCmd, BusSendCmd, readVars
  <2>3. NotRead(t)
    BY <2>2, FreeIsNowhere
  <2>4. readTagQ # << >> => readTagQ[1] # t
    <3>1. readTagQ # << >> => 1 \in DOMAIN readTagQ
      BY DEF UserTyped
    <3> QED BY <2>3, <3>1 DEF NotRead
  <2>5. /\ ctrl'[t] = [op |-> op, asked |-> FALSE, cnt |-> 0]
        /\ \A s \in Tag : s # t => ctrl'[s] = ctrl[s]
    <3>1. t \in Tag /\ op \in Op /\ ctrl' = [ctrl EXCEPT ![t].op = op] /\ ctrl[t] = User!Free
      BY <2>1, <2>2
    <3> QED BY <3>1, CtrlAfter
  <2>6. ctrl'[t].op = op /\ op # "none" /\ ~ctrl'[t].asked /\ ctrl'[t].cnt = 0
    BY <2>1, <2>5 DEF Op
  <2> QED BY <2>1, <2>2, <2>4, <2>5, <2>6, CountsPut
<1>2. ASSUME NEW t \in Tag, WriteWord(t) PROVE UserCounts'
  <2>1. /\ ctrl[t].asked /\ ctrl'[t].op = ctrl[t].op /\ ctrl'[t].asked
        /\ \A s \in Tag : s # t => ctrl'[s] = ctrl[s]
    BY <1>2, WriteFacts
  <2>2. ctrl[t].op = "WRITE_PAGE"
    BY <2>1 DEF UserCounts
  <2>3. UNCHANGED <<readTagQ, rdWdCnt>>
    BY <1>2 DEF WriteWord, busVars, readVars
  <2> QED BY <2>1, <2>2, <2>3, CountsPut
<1>3. CASE BusRule /\ UNCHANGED <<bufVars, ctrl>>
  <2>1. CASE DoReadData
    <3>1. UNCHANGED <<ctrl, rdWdCnt>> /\ cmdTagR \in Tag
          /\ readTagQ' = (IF dataCnt = 0 THEN Append(readTagQ, cmdTagR) ELSE readTagQ)
      BY <1>3, <2>1, ReadOutFacts
    <3>2. CASE dataCnt # 0
      BY <3>1, <3>2, CountsSame
    <3>3. CASE dataCnt = 0 /\ readTagQ # << >>
      <4>1. readTagQ' # << >> /\ readTagQ'[1] = readTagQ[1]
        <5>1. readTagQ \in Seq(Tag) /\ 1 \in DOMAIN readTagQ
          BY <3>3 DEF UserTyped
        <5> QED BY <3>1, <3>3, <5>1, AppendIs
      <4> QED BY <3>1, <3>3, <4>1 DEF UserCounts, User!Free
    <3>4. CASE dataCnt = 0 /\ readTagQ = << >>
      <4>1. rdWdCnt = 0
        <5>1. /\ rdWdCnt + Len(decodeInBufQ) + Len(decodeInQ) + ToRead = Len(readTagQ) * PageWords
              /\ ToRead = 0 /\ Len(readTagQ) = 0
          BY <3>4 DEF ReadsInOrder, ToRead
        <5>2. 0 * PageWords = 0
          BY Pages
        <5>3. /\ rdWdCnt \in Nat /\ Len(decodeInBufQ) \in Nat /\ Len(decodeInQ) \in Nat
          <6>1. rdWdCnt \in 0 .. PageWords - 1 /\ decodeInBufQ \in Seq(PageWord)
                /\ decodeInQ \in Seq(PageWord) /\ PageWords \in Nat
            BY Depths DEF UserTyped, BusInv, TypedInv, BusTyped
          <6> QED BY <6>1
        <5> QED BY <5>1, <5>2, <5>3
      <4> QED BY <3>1, <3>4, <4>1 DEF UserCounts, User!Free
    <3> QED BY <3>2, <3>3, <3>4
  <2>2. CASE ~DoReadData
    <3>1. UNCHANGED <<readTagQ, rdWdCnt>>
      <4>1. CASE SBRule /\ UNCHANGED busVars
        BY <4>1 DEF busVars, readVars
      <4>2. CASE DoSBCmd
        BY <4>2 DEF DoSBCmd, readVars
      <4>3. CASE BusStep
        BY <2>2, <4>3 DEF BusStep, DoDecodeCmd, StartChip, GetStatus, DoReadDataWaitBuf,
                          DoWriteDataWait, DoWritePageData, readVars
      <4>4. CASE DoDecoderDataBuf
        BY <4>4 DEF DoDecoderDataBuf
      <4>5. CASE \E c \in Chip : NandReady(c)
        BY <4>5 DEF NandReady, readVars
      <4> QED BY <1>3, <4>1, <4>2, <4>3, <4>4, <4>5 DEF BusRule
    <3> QED BY <1>3, <3>1, CountsSame
  <2> QED BY <2>1, <2>2
<1>4. CASE DoHandleWriteDataReq
  <2>1. PICK t : t = wrDataBufReqQ[1]
    OBVIOUS
  <2>2. /\ t \in Tag /\ ctrl'[t].op = "WRITE_PAGE" /\ ctrl'[t].asked
        /\ \A s \in Tag : s # t => ctrl'[s] = ctrl[s] 
        /\ UNCHANGED <<readTagQ, rdWdCnt>>
    BY <1>4, <2>1, AskFacts DEF readVars
  <2> QED BY <2>2, CountsPut
<1>5. CASE \/ DoWriteFetchWait \/ DoWriteBufTransfer \/ SetWriteDataRdy \/ DoWriteDataTransferReq
           \/ DoWriteDataTransferToBus
  BY <1>5, CountsSame DEF DoWriteFetchWait, DoWriteBufTransfer, SetWriteDataRdy,
     DoWriteDataTransferReq, DoWriteDataTransferToBus, BusWriteDataTransferReq, BusWriteWord,
     busVars, readVars
<1>6. CASE ReadWord
  <2>1. PICK t : t = readTagQ[1]
    OBVIOUS
  <2>2. /\ readTagQ # << >> /\ t \in Tag /\ ctrl[t].op = "READ_PAGE"
        /\ rdWdCnt = PageWords - 1 =>
             rdWdCnt' = 0 /\ readTagQ' = Tail(readTagQ) /\ ctrl'[t] = User!Free
        /\ rdWdCnt # PageWords - 1 =>
             /\ readTagQ' = readTagQ /\ ctrl'[t].op = "READ_PAGE" /\ ctrl'[t].cnt = rdWdCnt'
             /\ (ctrl'[t].asked <=> ctrl[t].asked)
        /\ \A s \in Tag : s # t => ctrl'[s] = ctrl[s]
    BY <1>6, <2>1, ReadWordFacts
  <2>3. ASSUME NEW s \in Tag, s # t, ctrl[s].op = "READ_PAGE" PROVE ctrl[s].cnt = 0
    BY <2>1, <2>3 DEF UserCounts
  <2>4. ASSUME NEW s \in Tag
        PROVE  /\ ctrl'[s].op = "none" => ctrl'[s] = User!Free
               /\ ctrl'[s].op # "WRITE_PAGE" => ~ctrl'[s].asked
               /\ ctrl'[s].op = "READ_PAGE" =>
                    ctrl'[s].cnt = IF readTagQ' # << >> /\ readTagQ'[1] = s THEN rdWdCnt' ELSE 0
               /\ ctrl'[s].op = "WRITE_PAGE" /\ ~ctrl'[s].asked => ctrl'[s].cnt = 0
    <3>1. CASE s # t
      <4>1. ctrl'[s] = ctrl[s]
        BY <2>2, <2>4, <3>1
      <4>2. ctrl[s].op = "READ_PAGE" =>
              ctrl[s].cnt = IF readTagQ' # << >> /\ readTagQ'[1] = s THEN rdWdCnt' ELSE 0
        <5>1. CASE rdWdCnt = PageWords - 1
          BY <2>2, <2>3, <2>4, <3>1, <5>1
        <5>2. CASE rdWdCnt # PageWords - 1
          BY <2>1, <2>2, <2>3, <2>4, <3>1, <5>2
        <5> QED BY <5>1, <5>2
      <4> QED BY <2>4, <4>1, <4>2 DEF UserCounts
    <3>2. CASE s = t /\ rdWdCnt = PageWords - 1
      BY <2>2, <3>2, FreeFields
    <3>3. CASE s = t /\ rdWdCnt # PageWords - 1
      <4>1. ~ctrl[t].asked
        BY <2>2 DEF UserCounts
      <4> QED BY <2>1, <2>2, <3>3, <4>1
    <3> QED BY <3>1, <3>2, <3>3
  <2> QED BY <2>4 DEF UserCounts, User!Free
<1>7. CASE AckStatus
  <2>1. PICK t : t = ackQ[1]
    OBVIOUS
  <2>2. t \in Tag /\ ctrl' = [ctrl EXCEPT ![t] = User!Free]
    BY <1>7, <2>1, AckStatusPlaces
  <2>3. ctrl'[t] = User!Free /\ \A s \in Tag : s # t => ctrl'[s] = ctrl[s]
    BY <2>2, CtrlAfter
  <2>4. UNCHANGED <<readTagQ, rdWdCnt>>
    BY <1>7 DEF AckStatus, BusAckStatus, readVars
  <2> QED BY <2>2, <2>3, <2>4, FreeFields, CountsPut
<1>8. CASE UNCHANGED vars
  BY <1>8, CountsSame DEF vars, busVars, readVars
<1> QED BY <1>1, <1>2, <1>3, <1>4, <1>5, <1>6, <1>7, <1>8 DEF Next, ControllerRule

-----------------------------------------------------------------------------
\* The pages being read do not change.
LEMMA ReadsSame ==
  ASSUME ReadsInOrder, UNCHANGED <<decodeInQ, decodeInBufQ, readTagQ, rdWdCnt>>,
         \/ UNCHANGED <<state, dataCnt, cmdTagR>>
         \/ state # "READ_DATA" /\ (state' = "READ_DATA" => dataCnt' = 0)
  PROVE  ReadsInOrder'
<1>1. ToRead' = ToRead /\ (ToRead > 0 => cmdTagR' = cmdTagR)
  BY DEF ToRead
<1> QED BY <1>1 DEF ReadsInOrder, Stream, IsWord

\* The types of what is read.
LEMMA ReadTypes ==
  ASSUME BusInv, UserTyped
  PROVE  /\ decodeInBufQ \in Seq(PageWord) /\ decodeInQ \in Seq(PageWord) /\ readTagQ \in Seq(Tag)
         /\ rdWdCnt \in Nat /\ rdWdCnt < PageWords /\ dataCnt \in Nat
         /\ Len(decodeInBufQ) \in Nat /\ Len(decodeInQ) \in Nat /\ Len(readTagQ) \in Nat
         /\ PageWords \in Nat \ {0} /\ Len(readTagQ) * PageWords \in Nat
<1>1. /\ decodeInBufQ \in Seq(PageWord) /\ decodeInQ \in Seq(PageWord) /\ readTagQ \in Seq(Tag)
      /\ PageWords \in Nat \ {0} /\ rdWdCnt \in 0 .. PageWords - 1 /\ dataCnt \in 0 .. PageWords
  BY Depths DEF UserTyped, BusInv, TypedInv, TypeOK, BusTyped
<1>2. Len(decodeInBufQ) \in Nat /\ Len(decodeInQ) \in Nat /\ Len(readTagQ) \in Nat
  BY <1>1
<1>3. Len(readTagQ) * PageWords \in Nat
  BY <1>2, Pages
<1>4. rdWdCnt \in Nat /\ rdWdCnt < PageWords /\ dataCnt \in Nat
  BY <1>1
<1> QED BY <1>1, <1>2, <1>3, <1>4

\* A word leaves a chip.
LEMMA ReadOut ==
  ASSUME BusInv, UserTyped, ReadsInOrder, DoReadData
  PROVE  ReadsInOrder'
<1>0. PICK w, r, b, q, n : w = Word(cmdTagR, dataCnt) /\ r = readTagQ' /\ b = decodeInBufQ
                           /\ q = decodeInQ /\ n = rdWdCnt
  OBVIOUS
<1>1. /\ state = "READ_DATA" /\ dataCnt \in Nat /\ dataCnt < PageWords /\ cmdTagR \in Tag
      /\ state' = (IF dataCnt = PageWords - 1 THEN "IDLE" ELSE "READ_DATA")
      /\ decodeInQ' = Append(q, w) /\ dataCnt' = dataCnt + 1
      /\ r = (IF dataCnt = 0 THEN Append(readTagQ, cmdTagR) ELSE readTagQ)
      /\ w \in PageWord /\ UNCHANGED <<cmdTagR, decodeInBufQ, rdWdCnt>>
  BY <1>0, ReadOutFacts
<1>2. /\ b \in Seq(PageWord) /\ q \in Seq(PageWord) /\ readTagQ \in Seq(Tag) /\ n \in Nat
      /\ Len(b) \in Nat /\ Len(q) \in Nat /\ PageWords \in Nat \ {0} /\ Len(readTagQ) \in Nat
  BY <1>0, ReadTypes
<1>3. /\ Stream(b, readTagQ, n) /\ Stream(q, readTagQ, n + Len(b))
      /\ n + Len(b) + Len(q) + ToRead = Len(readTagQ) * PageWords
      /\ ToRead > 0 => readTagQ[Len(readTagQ)] = cmdTagR
  BY <1>0 DEF ReadsInOrder
<1>4. w.tag = cmdTagR /\ w.idx = dataCnt
  BY <1>0 DEF Word
<1>5. PICK x : x = n + Len(b)
  OBVIOUS
<1>6. x \in Nat
  BY <1>2, <1>5
<1>7. /\ r \in Seq(Tag) /\ r # << >> /\ r[Len(r)] = cmdTagR /\ Len(r) \in Nat
      /\ Stream(b, r, n) /\ Stream(q, r, x)
      /\ x + Len(q) = Len(r) * PageWords - (PageWords - dataCnt) /\ Len(r) * PageWords \in Nat
  <2>1. CASE dataCnt = 0
    <3>1. r = Append(readTagQ, cmdTagR) /\ ToRead = 0
      BY <1>1, <2>1 DEF ToRead
    <3>2. r \in Seq(Tag) /\ r # << >> /\ Len(r) = Len(readTagQ) + 1 /\ r[Len(r)] = cmdTagR
      BY <1>1, <1>2, <3>1
    <3>3. Stream(b, r, n) /\ Stream(q, r, x)
      BY <1>1, <1>2, <1>3, <1>5, <1>6, <3>1, StreamPages
    <3>4. /\ Len(r) * PageWords = Len(readTagQ) * PageWords + PageWords
          /\ Len(readTagQ) * PageWords \in Nat
      BY <1>2, <3>2, Pages
    <3>5. x + Len(q) = Len(readTagQ) * PageWords
      BY <1>2, <1>3, <1>5, <3>1
    <3>6. /\ x + Len(q) = Len(r) * PageWords - (PageWords - dataCnt) /\ Len(r) * PageWords \in Nat
      BY SMTT(30), <1>2, <2>1, <3>4, <3>5
    <3> QED BY <1>2, <3>2, <3>3, <3>6
  <2>2. CASE dataCnt # 0
    <3>1. r = readTagQ /\ ToRead = PageWords - dataCnt /\ ToRead > 0
      BY <1>1, <1>2, <2>2 DEF ToRead
    <3>2. Len(r) * PageWords \in Nat
      BY <1>2, <3>1, Pages
    <3>3. x + Len(q) = Len(r) * PageWords - (PageWords - dataCnt)
      BY <1>1, <1>2, <1>3, <1>5, <1>6, <3>1, <3>2
    <3>4. r # << >>
      <4>1. Len(r) # 0
        <5>1. 0 * PageWords = 0
          BY Pages
        <5>2. Len(r) = 0 => x + Len(q) = 0 - (PageWords - dataCnt)
          BY <3>3, <5>1
        <5> QED BY <1>1, <1>2, <1>6, <5>2
      <4> QED BY <3>1, <4>1
    <3> QED BY <1>2, <1>3, <1>5, <3>1, <3>2, <3>3, <3>4
  <2> QED BY <2>1, <2>2
<1>8. IsWord(w, r, x + Len(q))
  BY <1>1, <1>4, <1>7, LastPage
<1>9. /\ Stream(Append(q, w), r, x) /\ Len(Append(q, w)) = Len(q) + 1
  BY <1>1, <1>2, <1>6, <1>7, <1>8, StreamAppend
<1>10. ToRead' = PageWords - (dataCnt + 1)
  BY <1>1, <1>2 DEF ToRead
<1>11. x + Len(Append(q, w)) + ToRead' = Len(r) * PageWords
  <2>1. PICK p : p = Len(r) * PageWords
    OBVIOUS
  <2>2. PICK l : l = Len(q)
    OBVIOUS
  <2>3. x + l = p - (PageWords - dataCnt) /\ p \in Nat /\ l \in Nat
    BY <1>2, <1>7, <2>1, <2>2
  <2>4. x + (l + 1) + (PageWords - (dataCnt + 1)) = p
    BY <1>1, <1>2, <1>6, <2>3
  <2> QED BY <1>9, <1>10, <2>1, <2>2, <2>4
<1>12. /\ decodeInBufQ' = b /\ rdWdCnt' = n /\ readTagQ' = r /\ decodeInQ' = Append(q, w)
  BY <1>0, <1>1
<1>13. /\ Stream(decodeInBufQ', readTagQ', rdWdCnt')
       /\ Stream(decodeInQ', readTagQ', rdWdCnt' + Len(decodeInBufQ'))
       /\ rdWdCnt' + Len(decodeInBufQ') + Len(decodeInQ') + ToRead' = Len(readTagQ') * PageWords
       /\ (ToRead' > 0 => readTagQ'[Len(readTagQ')] = cmdTagR')
  BY <1>1, <1>5, <1>7, <1>9, <1>11, <1>12
<1> QED BY <1>13 DEF ReadsInOrder, Stream, IsWord

\* A word goes on to the decoder.
LEMMA ReadDecoded ==
  ASSUME BusInv, UserTyped, ReadsInOrder, DoDecoderDataBuf
  PROVE  ReadsInOrder'
<1>0. PICK r, b, q, n : r = readTagQ /\ b = decodeInBufQ /\ q = decodeInQ /\ n = rdWdCnt
  OBVIOUS
<1>1. /\ q # << >> /\ decodeInBufQ' = Append(b, Head(q)) /\ decodeInQ' = Tail(q)
      /\ UNCHANGED <<readTagQ, rdWdCnt, state, dataCnt, cmdTagR>>
  BY <1>0 DEF DoDecoderDataBuf, ctlVars
<1>2. /\ b \in Seq(PageWord) /\ q \in Seq(PageWord) /\ r \in Seq(Tag) /\ n \in Nat
      /\ Len(b) \in Nat /\ Len(q) \in Nat /\ n + Len(b) \in Nat
  BY <1>0, ReadTypes
<1>3. /\ Stream(b, r, n) /\ Stream(q, r, n + Len(b))
      /\ n + Len(b) + Len(q) + ToRead = Len(r) * PageWords
      /\ ToRead > 0 => r[Len(r)] = cmdTagR
  BY <1>0 DEF ReadsInOrder
<1>4. /\ Stream(Tail(q), r, n + Len(b) + 1) /\ IsWord(Head(q), r, n + Len(b))
      /\ Head(q) \in PageWord /\ Len(Tail(q)) = Len(q) - 1
  BY <1>1, <1>2, <1>3, StreamTail
<1>5. Stream(Append(b, Head(q)), r, n) /\ Len(Append(b, Head(q))) = Len(b) + 1
  BY <1>2, <1>3, <1>4, StreamAppend
<1>6. ToRead' = ToRead
  BY <1>1 DEF ToRead
<1>7. PICK y : y = ToRead
  OBVIOUS
<1>8. /\ n + (Len(b) + 1) = n + Len(b) + 1
      /\ n + (Len(b) + 1) + (Len(q) - 1) = n + Len(b) + Len(q)
  BY <1>2
<1>9. /\ Stream(decodeInBufQ', readTagQ', rdWdCnt')
      /\ Stream(decodeInQ', readTagQ', rdWdCnt' + Len(decodeInBufQ'))
      /\ rdWdCnt' + Len(decodeInBufQ') + Len(decodeInQ') + ToRead' = Len(readTagQ') * PageWords
      /\ (ToRead' > 0 => readTagQ'[Len(readTagQ')] = cmdTagR')
  <2>1. /\ decodeInBufQ' = Append(b, Head(q)) /\ decodeInQ' = Tail(q) /\ rdWdCnt' = n
        /\ readTagQ' = r /\ cmdTagR' = cmdTagR
    BY <1>0, <1>1
  <2>2. rdWdCnt' + Len(decodeInBufQ') = n + Len(b) + 1
    BY <1>5, <1>8, <2>1
  <2>3. rdWdCnt' + Len(decodeInBufQ') + Len(decodeInQ') = n + Len(b) + Len(q)
    BY <1>4, <1>5, <1>8, <2>1
  <2> QED BY <1>3, <1>4, <1>5, <1>6, <2>1, <2>2, <2>3
<1> QED BY <1>9 DEF ReadsInOrder, Stream, IsWord

\* A word goes to the user.
LEMMA ReadGiven ==
  ASSUME BusInv, UserTyped, PlaceInv, UserCounts, ReadsInOrder, ReadWord
  PROVE  ReadsInOrder'
<1>0. PICK r, b, q, n, y : r = readTagQ /\ b = decodeInBufQ /\ q = decodeInQ /\ n = rdWdCnt
                           /\ y = ToRead
  OBVIOUS
<1>1. /\ r # << >> /\ b # << >> /\ decodeInBufQ' = Tail(b)
      /\ n = PageWords - 1 => rdWdCnt' = 0 /\ readTagQ' = Tail(r)
      /\ n # PageWords - 1 => rdWdCnt' = n + 1 /\ readTagQ' = r
      /\ UNCHANGED <<decodeInQ, state, dataCnt, cmdTagR>>
  BY <1>0, ReadWordFacts DEF ctlVars
<1>2. /\ b \in Seq(PageWord) /\ q \in Seq(PageWord) /\ r \in Seq(Tag) /\ n \in Nat /\ n < PageWords
      /\ Len(b) \in Nat /\ Len(q) \in Nat /\ PageWords \in Nat \ {0} /\ y \in Nat
      /\ Len(r) \in Nat /\ Len(r) * PageWords \in Nat
  <2>1. y \in Nat
    <3>1. PageWords \in Nat /\ dataCnt \in 0 .. PageWords
      BY Depths DEF BusInv, TypedInv, TypeOK
    <3> QED BY <1>0, <3>1 DEF ToRead
  <2> QED BY <1>0, <2>1, ReadTypes
<1>3. /\ Stream(b, r, n) /\ Stream(q, r, n + Len(b))
      /\ n + Len(b) + Len(q) + y = Len(r) * PageWords
      /\ y > 0 => r[Len(r)] = cmdTagR
  BY <1>0 DEF ReadsInOrder
<1>4. Stream(Tail(b), r, n + 1) /\ Tail(b) \in Seq(PageWord) /\ Len(Tail(b)) = Len(b) - 1
      /\ Len(b) \in Nat \ {0}
  BY <1>1, <1>2, <1>3, StreamTail
<1>5. ToRead' = y
  BY <1>0, <1>1 DEF ToRead
<1>6. CASE n # PageWords - 1
  <2>1. /\ decodeInBufQ' = Tail(b) /\ decodeInQ' = q /\ rdWdCnt' = n + 1
        /\ readTagQ' = r /\ cmdTagR' = cmdTagR
    BY <1>0, <1>1, <1>6
  <2>2. n + 1 + (Len(b) - 1) = n + Len(b)
    BY <1>2, <1>4
  <2>3. rdWdCnt' + Len(decodeInBufQ') = n + Len(b)
    BY <1>4, <2>1, <2>2
  <2>4. /\ Stream(decodeInBufQ', readTagQ', rdWdCnt')
        /\ Stream(decodeInQ', readTagQ', rdWdCnt' + Len(decodeInBufQ'))
        /\ rdWdCnt' + Len(decodeInBufQ') + Len(decodeInQ') + ToRead' = Len(readTagQ') * PageWords
        /\ (ToRead' > 0 => readTagQ'[Len(readTagQ')] = cmdTagR')
    BY <1>3, <1>4, <1>5, <2>1, <2>3
  <2> QED BY <2>4 DEF ReadsInOrder, Stream, IsWord
<1>7. CASE n = PageWords - 1
  <2>1. /\ decodeInBufQ' = Tail(b) /\ decodeInQ' = q /\ rdWdCnt' = 0
        /\ readTagQ' = Tail(r) /\ cmdTagR' = cmdTagR
    BY <1>0, <1>1, <1>7
  <2>2. n + 1 = PageWords /\ n + 1 >= PageWords /\ n + 1 - PageWords = 0 /\ n + 1 \in Nat
        /\ n + Len(b) >= PageWords /\ n + Len(b) - PageWords = Len(b) - 1 /\ n + Len(b) \in Nat
    BY <1>2, <1>4, <1>7
  <2>3. Stream(Tail(b), Tail(r), 0)
    <3>1. PICK k, s : k = n + 1 /\ s = Tail(b)
      OBVIOUS
    <3>2. /\ k \in Nat /\ k >= PageWords /\ k - PageWords = 0 /\ Stream(s, r, k)
          /\ s \in Seq(PageWord) /\ r \in Seq(Tag)
      BY <1>2, <1>4, <2>2, <3>1
    <3>3. Stream(s, Tail(r), k - PageWords)
      BY <3>2, StreamPages
    <3> QED BY <3>1, <3>2, <3>3
  <2>4. Stream(q, Tail(r), Len(b) - 1)
    <3>1. Stream(q, Tail(r), n + Len(b) - PageWords)
      BY <1>2, <1>3, <2>2, StreamPages
    <3> QED BY <2>2, <3>1
  <2>5. Len(Tail(r)) = Len(r) - 1 /\ Len(r) \in Nat \ {0}
    BY <1>1, <1>2, TailIs
  <2>6. Len(Tail(r)) * PageWords = Len(r) * PageWords - PageWords
    <3>1. PICK m : m = Len(r) - 1
      OBVIOUS
    <3>2. m \in Nat /\ Len(r) = m + 1
      BY <2>5, <3>1
    <3>3. Len(r) * PageWords = m * PageWords + PageWords /\ m * PageWords \in Nat
      BY <3>2, Pages
    <3> QED BY <1>2, <2>5, <3>1, <3>3
  <2>7. 0 + (Len(b) - 1) + Len(q) + y = Len(Tail(r)) * PageWords
    BY SMTT(30), <1>2, <1>3, <1>4, <1>7, <2>6
  <2>8. ASSUME y > 0 PROVE Tail(r)[Len(Tail(r))] = cmdTagR
    <3>1. Len(r) # 1
      <4>1. PICK m : m = Len(Tail(r))
        OBVIOUS
      <4>2. Len(r) = 1 => m = 0
        BY <2>5, <4>1
      <4>3. 0 * PageWords = 0 /\ 0 + (Len(b) - 1) + Len(q) + y = m * PageWords
        BY <2>7, <4>1, Pages
      <4>4. 0 + (Len(b) - 1) + Len(q) + y # 0
        BY <1>2, <1>4, <2>8
      <4> QED BY <4>2, <4>3, <4>4
    <3>2. Len(Tail(r)) \in DOMAIN Tail(r) /\ Len(Tail(r)) + 1 = Len(r)
      BY <1>1, <1>2, <2>5, <3>1
    <3>3. Tail(r)[Len(Tail(r))] = r[Len(Tail(r)) + 1]
      BY <1>1, <1>2, <3>2, TailIs
    <3> QED BY <1>3, <2>8, <3>2, <3>3
  <2>9. rdWdCnt' + Len(decodeInBufQ') = Len(b) - 1
    BY <1>4, <2>1
  <2>10. /\ Stream(decodeInBufQ', readTagQ', rdWdCnt')
         /\ Stream(decodeInQ', readTagQ', rdWdCnt' + Len(decodeInBufQ'))
         /\ rdWdCnt' + Len(decodeInBufQ') + Len(decodeInQ') + ToRead' = Len(readTagQ') * PageWords
         /\ (ToRead' > 0 => readTagQ'[Len(readTagQ')] = cmdTagR')
    <3>1. 0 + (Len(b) - 1) = Len(b) - 1
      BY <1>4
    <3>2. (Len(b) - 1) + Len(q) + y = Len(Tail(r)) * PageWords
      BY <2>7, <3>1
    <3> QED BY <1>5, <2>1, <2>3, <2>4, <2>8, <2>9, <3>2
  <2> QED BY <2>10 DEF ReadsInOrder, Stream, IsWord
<1> QED BY <1>6, <1>7

\* Every step keeps the order of the pages read.
LEMMA ReadsInOrderNext ==
  ASSUME BusInv, UserTyped, PlaceInv, UserCounts, ReadsInOrder, [Next]_vars
  PROVE  ReadsInOrder'
<1>1. ASSUME NEW t, NEW op, NEW c, SendCmd(t, op, c) PROVE ReadsInOrder'
  BY <1>1, ReadsSame DEF SendCmd, BusSendCmd, ctlVars, readVars
<1>2. ASSUME NEW t, WriteWord(t) PROVE ReadsInOrder'
  BY <1>2, ReadsSame DEF WriteWord, busVars, ctlVars, readVars
<1>3. CASE BusRule
  <2>1. CASE SBRule /\ UNCHANGED busVars
    BY <2>1, ReadsSame DEF busVars, ctlVars, readVars
  <2>2. CASE DoSBCmd
    BY <2>2, ReadsSame DEF DoSBCmd, ctlVars, readVars
  <2>3. CASE DoDecodeCmd
    BY <2>3, ReadsSame DEF DoDecodeCmd, readVars
  <2>4. CASE StartChip
    BY <2>4, ReadsSame DEF StartChip, readVars
  <2>5. CASE GetStatus
    BY <2>5, ReadsSame DEF GetStatus, readVars
  <2>6. CASE DoReadDataWaitBuf
    <3>1. dataCnt = 0 /\ dataCnt' = dataCnt
      BY <2>6 DEF DoReadDataWaitBuf, BusInv, TypedInv, BurstCounted
    <3> QED BY <2>6, <3>1, ReadsSame DEF DoReadDataWaitBuf, readVars
  <2>7. CASE DoReadData
    BY <2>7, ReadOut
  <2>8. CASE DoWriteDataWait
    BY <2>8, ReadsSame DEF DoWriteDataWait, readVars
  <2>9. CASE DoWritePageData
    BY <2>9, ReadsSame DEF DoWritePageData, readVars
  <2>10. CASE DoDecoderDataBuf
    BY <2>10, ReadDecoded
  <2>11. CASE \E c \in Chip : NandReady(c)
    BY <2>11, ReadsSame DEF NandReady, ctlVars, readVars
  <2> QED BY <1>3, <2>1, <2>2, <2>3, <2>4, <2>5, <2>6, <2>7, <2>8, <2>9, <2>10, <2>11
       DEF BusRule, BusStep
<1>4. CASE DoHandleWriteDataReq \/ DoWriteFetchWait \/ DoWriteBufTransfer
  BY <1>4, ReadsSame DEF DoHandleWriteDataReq, DoWriteFetchWait, DoWriteBufTransfer,
     BusWriteDataBufReq, busVars, ctlVars, readVars
<1>5. CASE SetWriteDataRdy \/ DoWriteDataTransferReq \/ DoWriteDataTransferToBus
  BY <1>5, ReadsSame DEF SetWriteDataRdy, DoWriteDataTransferReq, DoWriteDataTransferToBus,
     BusWriteDataTransferReq, BusWriteWord, busVars, ctlVars, readVars
<1>6. CASE ReadWord
  BY <1>6, ReadGiven
<1>7. CASE AckStatus
  BY <1>7, ReadsSame DEF AckStatus, BusAckStatus, ctlVars, readVars
<1>8. CASE UNCHANGED vars
  BY <1>8, ReadsSame DEF vars, busVars, ctlVars, readVars
<1> QED BY <1>1, <1>2, <1>3, <1>4, <1>5, <1>6, <1>7, <1>8 DEF Next, ControllerRule

-----------------------------------------------------------------------------
\* A chip goes on waiting for its page, and for the user to be asked for it.
AskingKept  == \A c \in Chip, t \in Tag : Asking(c, t) => Asking(c, t)'
WaitingKept == \A c \in Chip : Waiting(c) /\ ~ctrl[Working(c).tag].asked =>
                                 Waiting(c)' /\ Working(c)' = Working(c)
NoneAsked   == \A t \in Tag : ctrl'[t].asked => ctrl[t].asked

\* It does unless the user is asked.
LEMMA AskingWhile ==
  ASSUME WaitingKept, NoneAsked
  PROVE  AskingKept
<1> SUFFICES ASSUME NEW c \in Chip, NEW t \in Tag, Asking(c, t) PROVE Asking(c, t)'
  BY DEF AskingKept
<1>1. Waiting(c) /\ Working(c).tag = t /\ ~ctrl[t].asked
  BY DEF Asking
<1>2. Waiting(c)' /\ Working(c)' = Working(c) /\ ~ctrl'[t].asked
  BY <1>1 DEF WaitingKept, NoneAsked
<1> QED BY <1>1, <1>2 DEF Asking

\* The requests are for tags, of chips.
LEMMA AskedTypes ==
  ASSUME BusInv, UserTyped
  PROVE  /\ cmdOutQ \in Seq(BusCmd) /\ wrDataBufReqQ \in Seq(Tag)
         /\ \A i \in DOMAIN cmdOutQ : cmdOutQ[i].chip \in Chip /\ cmdOutQ[i].tag \in Tag
         /\ \A i \in DOMAIN wrDataBufReqQ : wrDataBufReqQ[i] \in Tag
<1>1. cmdOutQ \in Seq(BusCmd) /\ wrDataBufReqQ \in Seq(Tag)
  BY DEF BusInv, TypedInv, ScoreboardTyped, UserTyped
<1>2. \A i \in DOMAIN cmdOutQ : cmdOutQ[i] \in BusCmd
  BY <1>1
<1> QED BY <1>1, <1>2, CmdFields

\* No request comes or goes.
LEMMA AskedSame ==
  ASSUME BusInv, UserTyped, AskedOnce, AskingKept, UNCHANGED <<cmdOutQ, wrDataBufReqQ>>
  PROVE  AskedOnce'
<1>1. ASSUME NEW i \in DOMAIN cmdOutQ, IsBufReq(cmdOutQ[i])
      PROVE  Asking(cmdOutQ[i].chip, cmdOutQ[i].tag)'
  <2>1. PICK m : m = cmdOutQ[i]
    OBVIOUS
  <2>2. Asking(m.chip, m.tag) /\ m.chip \in Chip /\ m.tag \in Tag
    BY <1>1, <2>1, AskedTypes DEF AskedOnce
  <2>3. Asking(m.chip, m.tag)'
    BY <2>2 DEF AskingKept
  <2> QED BY <2>1, <2>3
<1>2. ASSUME NEW i \in DOMAIN wrDataBufReqQ PROVE \E c \in Chip : Asking(c, wrDataBufReqQ[i])'
  <2>1. PICK t : t = wrDataBufReqQ[i]
    OBVIOUS
  <2>2. PICK c \in Chip : Asking(c, t)
    BY <1>2, <2>1 DEF AskedOnce
  <2>3. t \in Tag
    BY <1>2, <2>1, AskedTypes
  <2>4. Asking(c, t)'
    BY <2>2, <2>3 DEF AskingKept
  <2> QED BY <2>1, <2>4
<1>3. /\ \A i, j \in DOMAIN cmdOutQ' : IsBufReq(cmdOutQ'[i]) /\ IsBufReq(cmdOutQ'[j])
            /\ cmdOutQ'[i].tag = cmdOutQ'[j].tag => i = j
      /\ \A i, j \in DOMAIN wrDataBufReqQ' : wrDataBufReqQ'[i] = wrDataBufReqQ'[j] => i = j
      /\ \A i \in DOMAIN cmdOutQ', j \in DOMAIN wrDataBufReqQ' :
           IsBufReq(cmdOutQ'[i]) => cmdOutQ'[i].tag # wrDataBufReqQ'[j]
  BY DEF AskedOnce, IsBufReq
<1> QED BY <1>1, <1>2, <1>3 DEF AskedOnce, IsBufReq

\* What the scoreboard issues for the chip it visits.
LEMMA IssueFacts ==
  ASSUME BusInv, NEW k \in Chip, k = currChip, sbState = "SERVICE_REQ", IssueBusCmd
  PROVE  LET h    == Working(k)
             next == Issues[h.op][chipStages[k]]
             w    == [tag |-> h.tag, busOp |-> next.busOp, chip |-> k]
         IN  /\ h \in Cmd /\ h.op \in Op /\ h.tag \in Tag /\ chipQs[k] \in Seq(Cmd) /\ chipQs[k] # << >>
             /\ chipStages[k] \in DOMAIN Issues[h.op] /\ chipStages[k] \in StagesOf[h.op]
             /\ w \in BusCmd /\ w.tag = h.tag /\ w.chip = k /\ w.busOp = next.busOp
             /\ cmdOutQ \in Seq(BusCmd) /\ cmdOutQ' = Append(cmdOutQ, w)
             /\ chipStages'[k] = next.stage
             /\ \A c \in Chip : c # k => chipStages'[c] = chipStages[c]
             /\ Waiting(k) => wdataRdy = h.tag
             /\ UNCHANGED <<chipQs, chipBusy>>
<1>0. PICK h, next, w : /\ h = Working(k) /\ next = Issues[h.op][chipStages[k]]
                        /\ w = [tag |-> h.tag, busOp |-> next.busOp, chip |-> h.chip]
  OBVIOUS
<1>1. /\ chipQs[k] \in Seq(Cmd) /\ chipQs[k] # << >> /\ ChipInStep(k) /\ cmdOutQ \in Seq(BusCmd)
      /\ chipStages \in [Chip -> {"INIT", "RD_ISSUED", "RD_DATA",
           "WR_BUF_REQ_ISSUED", "WR_ISSUED", "ER_ISSUED", "WAIT_STATUS"}]
  BY DEF BusInv, TypedInv, TypeOK, ScoreboardTyped, Protocol, ChipsInStep
<1>2. h \in Cmd /\ h.op \in Op /\ h.tag \in Tag /\ h.chip = k
  <2>1. h \in Cmd /\ 1 \in DOMAIN chipQs[k] /\ chipQs[k][1] = h
    BY <1>0, <1>1 DEF Working
  <2>2. h.chip = k
    BY <1>1, <2>1 DEF BusInv, TypedInv, ScoreboardTyped
  <2> QED BY <2>1, <2>2, CmdFields
<1>3. /\ chipStages[k] \in DOMAIN Issues[h.op]
      /\ cmdOutQ' = Append(cmdOutQ, w)
      /\ chipStages' = [chipStages EXCEPT ![k] = next.stage]
      /\ Waiting(k) => wdataRdy = h.tag
      /\ UNCHANGED <<chipQs, chipBusy>>
  BY <1>0 DEF IssueBusCmd, MoveTo, stage, currReq, Working, Waiting, DataReady
<1>4. chipStages[k] \in StagesOf[h.op]
  <2>1. chipStages[k] # "INIT" => chipStages[k] \in StagesOf[h.op]
    BY <1>0, <1>1 DEF ChipInStep
  <2>2. "INIT" \in StagesOf[h.op]
    BY <1>2 DEF StagesOf, Op
  <2> QED BY <2>1, <2>2
<1>5. next.busOp \in {"WRITE_DATA_BUF_REQ"} \cup StartOps \cup PollOps
  BY <1>0, <1>2, <1>3, <1>4, StageTable
<1>6. w \in BusCmd /\ w.chip = k /\ w.tag = h.tag /\ w.busOp = next.busOp
      /\ w = [tag |-> h.tag, busOp |-> next.busOp, chip |-> k]
  BY <1>0, <1>2, <1>5 DEF BusCmd
<1>7. chipStages'[k] = next.stage /\ \A c \in Chip : c # k => chipStages'[c] = chipStages[c]
  BY <1>1, <1>3
<1> QED BY <1>0, <1>1, <1>2, <1>3, <1>4, <1>6, <1>7

\* A chip whose user was not asked yet goes on waiting while the scoreboard
\* issues a command.
LEMMA IssueWaits ==
  ASSUME BusInv, NEW k \in Chip, k = currChip, sbState = "SERVICE_REQ", IssueBusCmd,
         wdataRdy # NoTag => ctrl[wdataRdy].asked
  PROVE  WaitingKept
<1>1. ASSUME NEW c \in Chip, Waiting(c), ~ctrl[Working(c).tag].asked PROVE c # k
  <2>1. Waiting(k) => wdataRdy = Working(k).tag /\ Working(k).tag \in Tag
    BY IssueFacts
  <2>2. Working(k).tag \in Tag => Working(k).tag # NoTag
    BY ChipAssumption DEF NoTag
  <2> QED BY <1>1, <2>1, <2>2
<1>2. ASSUME NEW c \in Chip, c # k PROVE chipStages'[c] = chipStages[c] /\ chipQs' = chipQs
  BY <1>2, IssueFacts
<1> QED BY <1>1, <1>2 DEF WaitingKept, Waiting, Working

\* The command issued may be the request for the data of a page.
LEMMA AskedIssue ==
  ASSUME BusInv, UserTyped, PlaceInv, AskedOnce, wdataRdy # NoTag => ctrl[wdataRdy].asked,
         NEW k \in Chip, k = currChip, sbState = "SERVICE_REQ", IssueBusCmd,
         UNCHANGED <<wrDataBufReqQ, ctrl>>
  PROVE  AskedOnce'
<1>0. PICK h, next, w : /\ h = Working(k) /\ next = Issues[h.op][chipStages[k]]
                        /\ w = [tag |-> h.tag, busOp |-> next.busOp, chip |-> k]
  OBVIOUS
<1>1. /\ h \in Cmd /\ h.op \in Op /\ h.tag \in Tag /\ chipQs[k] \in Seq(Cmd) /\ chipQs[k] # << >>
      /\ chipStages[k] \in DOMAIN Issues[h.op] /\ chipStages[k] \in StagesOf[h.op]
      /\ w \in BusCmd /\ w.tag = h.tag /\ w.chip = k /\ w.busOp = next.busOp
      /\ cmdOutQ \in Seq(BusCmd) /\ cmdOutQ' = Append(cmdOutQ, w)
      /\ chipStages'[k] = next.stage
      /\ UNCHANGED <<chipQs, chipBusy>>
  BY <1>0, IssueFacts
<1>2. AskingKept
  BY IssueWaits, AskingWhile DEF NoneAsked
<1>3. ASSUME IsBufReq(w)
      PROVE  chipStages[k] = "INIT" /\ chipStages'[k] = "WR_BUF_REQ_ISSUED" /\ h.op = "WRITE_PAGE"
  <2>1. next.busOp = "WRITE_DATA_BUF_REQ"
    BY <1>1, <1>3 DEF IsBufReq
  <2> QED BY SMTT(30), <1>0, <1>1, <2>1 DEF Issues, Op, StagesOf
<1>4. ASSUME IsBufReq(w)
      PROVE  Asking(k, w.tag)' /\ ~ctrl[w.tag].asked /\ ~Waiting(k)
             /\ 1 \in DOMAIN LiveQ(k) /\ LiveQ(k)[1].tag = w.tag
  <2>1. ~Finished(k) /\ ~AtWork(k) /\ LiveQ(k) = chipQs[k]
    BY <1>3, <1>4 DEF Finished, AtWork, WaitStages, LiveQ
  <2>2. 1 \in DOMAIN LiveQ(k) /\ LiveQ(k)[1] = h
    BY <1>0, <1>1, <2>1 DEF Working
  <2>3. Fresh(h.tag, h.op)
    BY <2>1, <2>2 DEF PlaceInv, UseMatches
  <2>4. ~ctrl[w.tag].asked
    BY <1>1, <2>3 DEF Fresh
  <2>5. Asking(k, w.tag)'
    BY <1>0, <1>1, <1>3, <1>4, <2>4 DEF Asking, Waiting, Working
  <2> QED BY <1>1, <1>3, <1>4, <2>2, <2>4, <2>5 DEF Waiting
<1>5. ASSUME NEW c \in Chip, NEW t, Asking(c, t), IsBufReq(w) PROVE t # w.tag
  <2>1. Waiting(c) /\ Working(c).tag = t
    BY <1>5 DEF Asking
  <2>2. \A d \in Chip : \A j \in DOMAIN LiveQ(d) : LiveQ(d)[j].tag = t => d = c /\ j = 1
    BY <2>1, WaitingFacts, WorkedOn
  <2> QED BY <1>4, <1>5, <2>1, <2>2
<1>6. \A i \in DOMAIN cmdOutQ' : \/ i \in DOMAIN cmdOutQ /\ cmdOutQ'[i] = cmdOutQ[i]
                                 \/ i = Len(cmdOutQ) + 1 /\ cmdOutQ'[i] = w
  BY <1>1, AppendIs
<1>7. ASSUME NEW i \in DOMAIN cmdOutQ', IsBufReq(cmdOutQ'[i])
      PROVE  (\E m : m = cmdOutQ'[i] /\ Asking(m.chip, m.tag)')
  <2>1. CASE i \in DOMAIN cmdOutQ /\ cmdOutQ'[i] = cmdOutQ[i]
    <3>1. PICK m : m = cmdOutQ[i]
      OBVIOUS
    <3>2. Asking(m.chip, m.tag) /\ m.chip \in Chip /\ m.tag \in Tag
      BY <1>7, <2>1, <3>1, AskedTypes DEF AskedOnce
    <3>3. Asking(m.chip, m.tag)'
      BY <1>2, <3>2 DEF AskingKept
    <3> QED BY <2>1, <3>1, <3>3
  <2>2. CASE cmdOutQ'[i] = w
    <3>1. Asking(k, w.tag)' /\ w.chip = k
      BY <1>1, <1>4, <1>7, <2>2
    <3> QED BY <2>2, <3>1
  <2> QED BY <1>6, <1>7, <2>1, <2>2
<1>8. ASSUME NEW i \in DOMAIN cmdOutQ', NEW j \in DOMAIN cmdOutQ', IsBufReq(cmdOutQ'[i]),
             IsBufReq(cmdOutQ'[j]), cmdOutQ'[i].tag = cmdOutQ'[j].tag
      PROVE  i = j
  <2>1. ASSUME NEW l \in DOMAIN cmdOutQ, IsBufReq(cmdOutQ[l]), IsBufReq(w) PROVE cmdOutQ[l].tag # w.tag
    <3>1. Asking(cmdOutQ[l].chip, cmdOutQ[l].tag) /\ cmdOutQ[l].chip \in Chip
      BY <2>1, AskedTypes DEF AskedOnce
    <3> QED BY <1>5, <2>1, <3>1
  <2>2. \/ i \in DOMAIN cmdOutQ /\ cmdOutQ'[i] = cmdOutQ[i]
        \/ i = Len(cmdOutQ) + 1 /\ cmdOutQ'[i] = w
    BY <1>6, <1>8
  <2>3. \/ j \in DOMAIN cmdOutQ /\ cmdOutQ'[j] = cmdOutQ[j]
        \/ j = Len(cmdOutQ) + 1 /\ cmdOutQ'[j] = w
    BY <1>6, <1>8
  <2>4. CASE i \in DOMAIN cmdOutQ /\ cmdOutQ'[i] = cmdOutQ[i] /\ j \in DOMAIN cmdOutQ
             /\ cmdOutQ'[j] = cmdOutQ[j]
    BY <1>8, <2>4 DEF AskedOnce
  <2> QED BY <1>8, <2>1, <2>2, <2>3, <2>4
<1>9. ASSUME NEW i \in DOMAIN wrDataBufReqQ PROVE \E c \in Chip : Asking(c, wrDataBufReqQ[i])'
  <2>1. PICK t : t = wrDataBufReqQ[i]
    OBVIOUS
  <2>2. PICK c \in Chip : Asking(c, t)
    BY <1>9, <2>1 DEF AskedOnce
  <2>3. t \in Tag
    BY <1>9, <2>1, AskedTypes
  <2>4. Asking(c, t)'
    BY <1>2, <2>2, <2>3 DEF AskingKept
  <2> QED BY <2>1, <2>4
<1>10. ASSUME NEW i \in DOMAIN cmdOutQ', NEW j \in DOMAIN wrDataBufReqQ, IsBufReq(cmdOutQ'[i])
       PROVE  cmdOutQ'[i].tag # wrDataBufReqQ[j]
  <2>1. CASE i \in DOMAIN cmdOutQ /\ cmdOutQ'[i] = cmdOutQ[i]
    BY <1>10, <2>1 DEF AskedOnce
  <2>2. CASE cmdOutQ'[i] = w
    <3>1. PICK c \in Chip : Asking(c, wrDataBufReqQ[j])
      BY <1>10 DEF AskedOnce
    <3> QED BY <1>5, <1>10, <2>2, <3>1
  <2> QED BY <1>6, <1>10, <2>1, <2>2
<1>11. \A i \in DOMAIN cmdOutQ' : IsBufReq(cmdOutQ'[i]) => Asking(cmdOutQ[i].chip, cmdOutQ[i].tag)'
  <2> SUFFICES ASSUME NEW i \in DOMAIN cmdOutQ', IsBufReq(cmdOutQ'[i])
               PROVE  Asking(cmdOutQ[i].chip, cmdOutQ[i].tag)'
    OBVIOUS
  <2>1. PICK m : m = cmdOutQ'[i] /\ Asking(m.chip, m.tag)'
    BY <1>7
  <2> QED BY <2>1 DEF Asking, Waiting, Working
<1> QED BY <1>1, <1>8, <1>9, <1>10, <1>11 DEF AskedOnce, IsBufReq

-----------------------------------------------------------------------------
\* The request goes from the scoreboard's queue to that of the bus.
LEMMA AskedDecode ==
  ASSUME BusInv, UserTyped, AskedOnce, DoDecodeCmd, UNCHANGED ctrl
  PROVE  AskedOnce'
<1>0. PICK m, q, r : m = Head(cmdOutQ) /\ q = cmdOutQ' /\ r = wrDataBufReqQ'
  OBVIOUS
<1>1. /\ cmdOutQ # << >> /\ q = Tail(cmdOutQ) /\ UNCHANGED <<chipQs, chipStages>>
      /\ IsBufReq(m) => r = Append(wrDataBufReqQ, m.tag)
      /\ ~IsBufReq(m) => r = wrDataBufReqQ
  BY <1>0 DEF DoDecodeCmd, CmdOut, IsBufReq
<1>2. cmdOutQ \in Seq(BusCmd) /\ wrDataBufReqQ \in Seq(Tag)
      /\ \A i \in DOMAIN cmdOutQ : cmdOutQ[i].chip \in Chip /\ cmdOutQ[i].tag \in Tag
  BY AskedTypes
<1>3. /\ 1 \in DOMAIN cmdOutQ /\ cmdOutQ[1] = m
      /\ \A i \in DOMAIN q : i \in Nat \ {0} /\ i + 1 \in DOMAIN cmdOutQ /\ q[i] = cmdOutQ[i + 1]
  BY <1>0, <1>1, <1>2, TailIs
<1>4. \A c, t : Asking(c, t) => Asking(c, t)'
  BY <1>1 DEF Asking, Waiting, Working
<1>5. ASSUME NEW i \in DOMAIN r
      PROVE  \/ i \in DOMAIN wrDataBufReqQ /\ r[i] = wrDataBufReqQ[i]
             \/ i = Len(wrDataBufReqQ) + 1 /\ r[i] = m.tag /\ IsBufReq(m)
  <2>1. CASE IsBufReq(m)
    <3>1. m.tag \in Tag /\ r = Append(wrDataBufReqQ, m.tag)
      BY <1>1, <1>2, <1>3, <2>1
    <3> QED BY <1>2, <1>5, <2>1, <3>1, AppendIs
  <2>2. CASE ~IsBufReq(m)
    BY <1>1, <1>5, <2>2
  <2> QED BY <2>1, <2>2
<1>6. ASSUME NEW i \in DOMAIN q, IsBufReq(q[i])
      PROVE  /\ Asking(q[i].chip, q[i].tag)'
             /\ \A j \in DOMAIN wrDataBufReqQ : q[i].tag # wrDataBufReqQ[j]
             /\ IsBufReq(m) => q[i].tag # m.tag
  <2>1. PICK n : n = i + 1
    OBVIOUS
  <2>2. n \in DOMAIN cmdOutQ /\ q[i] = cmdOutQ[n] /\ n # 1
    BY <1>3, <1>6, <2>1
  <2>3. PICK x : x = cmdOutQ[n]
    OBVIOUS
  <2>4. Asking(x.chip, x.tag) /\ IsBufReq(x)
    BY <1>6, <2>2, <2>3 DEF AskedOnce
  <2>5. Asking(x.chip, x.tag)' 
    BY <1>4, <2>4
  <2>6. /\ \A j \in DOMAIN wrDataBufReqQ : x.tag # wrDataBufReqQ[j]
        /\ IsBufReq(m) => x.tag # m.tag
    BY <1>3, <2>2, <2>3, <2>4 DEF AskedOnce
  <2> QED BY <2>2, <2>3, <2>5, <2>6
<1>7. ASSUME NEW i \in DOMAIN q, NEW j \in DOMAIN q, IsBufReq(q[i]), IsBufReq(q[j]),
             q[i].tag = q[j].tag
      PROVE  i = j
  <2>1. PICK a, b : a = i + 1 /\ b = j + 1
    OBVIOUS
  <2>2. a \in DOMAIN cmdOutQ /\ q[i] = cmdOutQ[a] /\ b \in DOMAIN cmdOutQ /\ q[j] = cmdOutQ[b]
        /\ i \in Nat /\ j \in Nat
    BY <1>3, <1>7, <2>1
  <2>3. a = b
    BY <1>7, <2>2 DEF AskedOnce
  <2> QED BY <2>1, <2>2, <2>3
<1>8. ASSUME NEW i \in DOMAIN r PROVE \E c \in Chip : Asking(c, r[i])'
  <2>1. \E c \in Chip : Asking(c, r[i])
    <3>1. CASE i \in DOMAIN wrDataBufReqQ /\ r[i] = wrDataBufReqQ[i]
      BY <3>1 DEF AskedOnce
    <3>2. CASE r[i] = m.tag /\ IsBufReq(m)
      <4>1. Asking(m.chip, m.tag) /\ m.chip \in Chip
        BY <1>2, <1>3, <3>2 DEF AskedOnce
      <4> QED BY <3>2, <4>1
    <3> QED BY <1>5, <1>8, <3>1, <3>2
  <2> QED BY <1>4, <2>1
<1>9. ASSUME NEW i \in DOMAIN r, NEW j \in DOMAIN r, r[i] = r[j] PROVE i = j
  <2>1. \/ i \in DOMAIN wrDataBufReqQ /\ r[i] = wrDataBufReqQ[i]
        \/ i = Len(wrDataBufReqQ) + 1 /\ r[i] = m.tag /\ IsBufReq(m)
    BY <1>5, <1>9
  <2>2. \/ j \in DOMAIN wrDataBufReqQ /\ r[j] = wrDataBufReqQ[j]
        \/ j = Len(wrDataBufReqQ) + 1 /\ r[j] = m.tag /\ IsBufReq(m)
    BY <1>5, <1>9
  <2>3. IsBufReq(m) => \A l \in DOMAIN wrDataBufReqQ : m.tag # wrDataBufReqQ[l]
    BY <1>3 DEF AskedOnce
  <2>4. CASE i \in DOMAIN wrDataBufReqQ /\ r[i] = wrDataBufReqQ[i]
             /\ j \in DOMAIN wrDataBufReqQ /\ r[j] = wrDataBufReqQ[j]
    BY <1>9, <2>4 DEF AskedOnce
  <2> QED BY <1>9, <2>1, <2>2, <2>3, <2>4
<1>10. ASSUME NEW i \in DOMAIN q, NEW j \in DOMAIN r, IsBufReq(q[i]) PROVE q[i].tag # r[j]
  BY <1>5, <1>6, <1>10
<1>11. \A i \in DOMAIN cmdOutQ' : IsBufReq(cmdOutQ'[i]) => Asking(cmdOutQ[i].chip, cmdOutQ[i].tag)'
  <2> SUFFICES ASSUME NEW i \in DOMAIN cmdOutQ', IsBufReq(cmdOutQ'[i])
               PROVE  Asking(cmdOutQ[i].chip, cmdOutQ[i].tag)'
    OBVIOUS
  <2>1. PICK x : x = q[i]
    OBVIOUS
  <2>2. Asking(x.chip, x.tag)' /\ x = cmdOutQ'[i]
    BY <1>0, <1>6, <2>1
  <2> QED BY <2>2 DEF Asking, Waiting, Working
<1>12. \A i \in DOMAIN wrDataBufReqQ' : \E c \in Chip : Asking(c, wrDataBufReqQ[i])'
  <2> SUFFICES ASSUME NEW i \in DOMAIN wrDataBufReqQ'
               PROVE  \E c \in Chip : Asking(c, wrDataBufReqQ[i])'
    OBVIOUS
  <2>1. PICK c \in Chip : Asking(c, r[i])'
    BY <1>0, <1>8
  <2> QED BY <1>0, <2>1 DEF Asking, Waiting, Working
<1> QED BY <1>0, <1>7, <1>9, <1>10, <1>11, <1>12 DEF AskedOnce, IsBufReq

\* The user is asked for the page.
LEMMA AskedHandle ==
  ASSUME BusInv, UserTyped, PlaceInv, UserCounts, AskedOnce, DoHandleWriteDataReq
  PROVE  AskedOnce'
<1>0. PICK t, q, r : t = wrDataBufReqQ[1] /\ q = cmdOutQ /\ r = wrDataBufReqQ'
  OBVIOUS
<1>1. /\ wrDataBufReqQ # << >> /\ r = Tail(wrDataBufReqQ) /\ t \in Tag
      /\ \A s \in Tag : s # t => ctrl'[s] = ctrl[s]
      /\ UNCHANGED <<cmdOutQ, chipQs, chipStages>>
  BY <1>0, AskFacts DEF sbVars
<1>2. /\ \A i \in DOMAIN q : q[i].chip \in Chip /\ q[i].tag \in Tag
      /\ \A i \in DOMAIN wrDataBufReqQ : wrDataBufReqQ[i] \in Tag
      /\ wrDataBufReqQ \in Seq(Tag)
  BY <1>0, AskedTypes
<1>3. /\ \A i \in DOMAIN r : i \in Nat \ {0} /\ i + 1 \in DOMAIN wrDataBufReqQ
                             /\ r[i] = wrDataBufReqQ[i + 1]
      /\ 1 \in DOMAIN wrDataBufReqQ
  BY <1>0, <1>1, <1>2, TailIs
<1>4. \A c, s : s \in Tag /\ s # t /\ Asking(c, s) => Asking(c, s)'
  BY <1>1 DEF Asking, Waiting, Working
<1>5. ASSUME NEW i \in DOMAIN q, IsBufReq(q[i]) PROVE Asking(cmdOutQ[i].chip, cmdOutQ[i].tag)'
  <2>1. PICK x : x = q[i]
    OBVIOUS
  <2>2. Asking(x.chip, x.tag) /\ x.tag # t /\ x.tag \in Tag
    BY <1>0, <1>2, <1>3, <1>5, <2>1 DEF AskedOnce
  <2>3. Asking(x.chip, x.tag)' /\ x = cmdOutQ'[i]
    BY <1>0, <1>1, <1>4, <2>1, <2>2
  <2> QED BY <2>3 DEF Asking, Waiting, Working
<1>6. ASSUME NEW i \in DOMAIN r
      PROVE  \E n \in DOMAIN wrDataBufReqQ : n = i + 1 /\ i \in Nat /\ r[i] = wrDataBufReqQ[n] /\ r[i] # t
  <2>1. PICK n : n = i + 1
    OBVIOUS
  <2>2. n \in DOMAIN wrDataBufReqQ /\ r[i] = wrDataBufReqQ[n] /\ n # 1 /\ i \in Nat
    BY <1>3, <1>6, <2>1
  <2>3. wrDataBufReqQ[n] # t
    BY <1>0, <1>3, <2>2 DEF AskedOnce
  <2> QED BY <2>1, <2>2, <2>3
<1>7. ASSUME NEW i \in DOMAIN wrDataBufReqQ' PROVE \E c \in Chip : Asking(c, wrDataBufReqQ[i])'
  <2>1. PICK n \in DOMAIN wrDataBufReqQ : r[i] = wrDataBufReqQ[n] /\ r[i] # t
    BY <1>0, <1>6, <1>7
  <2>2. PICK s : s = r[i]
    OBVIOUS
  <2>3. PICK c \in Chip : Asking(c, s)
    BY <2>1, <2>2 DEF AskedOnce
  <2>4. Asking(c, s)' /\ s = wrDataBufReqQ'[i]
    BY <1>0, <1>2, <1>4, <2>1, <2>2, <2>3
  <2> QED BY <2>4 DEF Asking, Waiting, Working
<1>8. ASSUME NEW i \in DOMAIN r, NEW j \in DOMAIN r, r[i] = r[j] PROVE i = j
  <2>1. PICK a \in DOMAIN wrDataBufReqQ : a = i + 1 /\ i \in Nat /\ r[i] = wrDataBufReqQ[a]
    BY <1>6, <1>8
  <2>2. PICK b \in DOMAIN wrDataBufReqQ : b = j + 1 /\ j \in Nat /\ r[j] = wrDataBufReqQ[b]
    BY <1>6, <1>8
  <2>3. a = b
    BY <1>8, <2>1, <2>2 DEF AskedOnce
  <2> QED BY <2>1, <2>2, <2>3
<1>9. ASSUME NEW i \in DOMAIN q, NEW j \in DOMAIN r, IsBufReq(q[i]) PROVE q[i].tag # r[j]
  <2>1. PICK b \in DOMAIN wrDataBufReqQ : r[j] = wrDataBufReqQ[b]
    BY <1>6, <1>9
  <2> QED BY <1>0, <1>9, <2>1 DEF AskedOnce
<1>10. \A i, j \in DOMAIN q : IsBufReq(q[i]) /\ IsBufReq(q[j]) /\ q[i].tag = q[j].tag => i = j
  BY <1>0 DEF AskedOnce
<1>11. cmdOutQ' = q
  BY <1>0, <1>1
<1> QED BY <1>0, <1>5, <1>7, <1>8, <1>9, <1>10, <1>11 DEF AskedOnce, IsBufReq

-----------------------------------------------------------------------------
\* The scoreboard looks at a status: of a chip that waits for no data.
LEMMA LookWaits ==
  ASSUME BusInv, NEW k \in Chip, k = currChip, LookAtStatus
  PROVE  WaitingKept /\ UNCHANGED cmdOutQ
<1>1. /\ chipQs \in [Chip -> Seq(Cmd)]
      /\ chipStages \in [Chip -> {"INIT", "RD_ISSUED", "RD_DATA",
           "WR_BUF_REQ_ISSUED", "WR_ISSUED", "ER_ISSUED", "WAIT_STATUS"}]
  BY DEF BusInv, TypedInv, TypeOK, ScoreboardTyped
<1>2. /\ chipStages[k] \in WaitStages /\ UNCHANGED cmdOutQ
      /\ \A c \in Chip : c # k => chipStages'[c] = chipStages[c] /\ chipQs'[c] = chipQs[c]
  <2>1. chipStages[k] \in WaitStages /\ UNCHANGED cmdOutQ
    BY DEF LookAtStatus, stage, WaitStages
  <2>2. PICK b, s : /\ chipStages' = [chipStages EXCEPT ![k] = s]
                    /\ chipQs' = IF b THEN chipQs ELSE [chipQs EXCEPT ![k] = Tail(@)]
    BY DEF LookAtStatus
  <2>3. ASSUME NEW c \in Chip, c # k PROVE chipStages'[c] = chipStages[c] /\ chipQs'[c] = chipQs[c]
    <3>1. CASE b
      BY <1>1, <2>2, <2>3, <3>1
    <3>2. CASE ~b
      BY <1>1, <2>2, <2>3, <3>2
    <3> QED BY <3>1, <3>2
  <2> QED BY <2>1, <2>3
<1>3. ~Waiting(k)
  BY <1>2 DEF Waiting, WaitStages
<1>4. ASSUME NEW c \in Chip, Waiting(c) PROVE Waiting(c)' /\ Working(c)' = Working(c)
  <2>1. c # k
    BY <1>3, <1>4
  <2> QED BY <1>2, <1>4, <2>1 DEF Waiting, Working
<1> QED BY <1>2, <1>4 DEF WaitingKept

\* A command joins the queue of a chip.
LEMMA TakeWaits ==
  ASSUME BusInv, DoSBCmd
  PROVE  /\ WaitingKept /\ UNCHANGED cmdOutQ
         /\ \A c \in Chip : chipQs[c] # << >> => Working(c)' = Working(c) /\ chipQs'[c] # << >>
         /\ UNCHANGED <<chipStages, chipBusy>>
<1>0. PICK m : m = Head(flashCmdQ)
  OBVIOUS
<1>1. /\ flashCmdQ # << >>
      /\ chipQs' = [chipQs EXCEPT ![m.chip] = Append(@, m)]
      /\ UNCHANGED <<chipStages, chipBusy, cmdOutQ>>
  BY <1>0 DEF DoSBCmd, CmdIn
<1>2. flashCmdQ \in Seq(Cmd) /\ chipQs \in [Chip -> Seq(Cmd)] /\ m \in Cmd
  <2>1. flashCmdQ \in Seq(Cmd) /\ chipQs \in [Chip -> Seq(Cmd)]
    BY DEF BusInv, TypedInv, ScoreboardTyped, BusTyped
  <2> QED BY <1>0, <1>1, <2>1
<1>3. ASSUME NEW c \in Chip, chipQs[c] # << >> PROVE Working(c)' = Working(c) /\ chipQs'[c] # << >>
  <2>1. chipQs[c] \in Seq(Cmd) /\ (chipQs'[c] = chipQs[c] \/ chipQs'[c] = Append(chipQs[c], m))
    BY <1>1, <1>2, <1>3
  <2>2. Head(Append(chipQs[c], m)) = Head(chipQs[c]) /\ Append(chipQs[c], m) # << >>
    BY <1>2, <1>3, <2>1
  <2> QED BY <1>3, <2>1, <2>2 DEF Working
<1>4. \A c \in Chip : Waiting(c) => chipQs[c] # << >>
  <2>1. \A c \in Chip : Waiting(c) => chipStages[c] # "INIT"
    BY DEF Waiting
  <2> QED BY <2>1, LiveType
<1>5. WaitingKept
  BY <1>1, <1>3, <1>4 DEF WaitingKept, Waiting
<1> QED BY <1>1, <1>3, <1>5

\* Every step asks for a page at most once.
LEMMA AskedOnceNext ==
  ASSUME BusInv, UserTyped, PlaceInv, UserCounts, AskedOnce, wdataRdy # NoTag => ctrl[wdataRdy].asked,
         [Next]_vars
  PROVE  AskedOnce'
<1>1. UNCHANGED <<chipStages, chipQs>> => WaitingKept
  BY DEF WaitingKept, Waiting, Working
<1>2. UNCHANGED ctrl => NoneAsked
  BY DEF NoneAsked
<1>3. ASSUME NEW job \in Jobs, SendCmd(job[1], job[2], job[3]) PROVE AskedOnce'
  <2>1. PICK t, op : t = job[1] /\ op = job[2] /\ t \in Tag /\ op \in Op
    BY JobAssumption DEF Op
  <2>2. ctrl[t] = User!Free /\ ctrl' = [ctrl EXCEPT ![t].op = op]
    BY <1>3, <2>1 DEF SendCmd, User!SendCmd
  <2>3. ctrl'[t].asked = ctrl[t].asked /\ \A s \in Tag : s # t => ctrl'[s] = ctrl[s]
    BY <2>1, <2>2, CtrlAfter
  <2>4. NoneAsked
    BY <2>3 DEF NoneAsked
  <2>5. UNCHANGED <<chipStages, chipQs, cmdOutQ, wrDataBufReqQ>>
    BY <1>3 DEF SendCmd, BusSendCmd, sbVars, wrVars
  <2> QED BY <1>1, <2>4, <2>5, AskingWhile, AskedSame
<1>4. ASSUME NEW t \in Tag, WriteWord(t) PROVE AskedOnce'
  <2>1. ctrl[t].asked /\ \A s \in Tag : s # t => ctrl'[s] = ctrl[s]
    BY <1>4, WriteFacts
  <2>2. NoneAsked
    BY <2>1 DEF NoneAsked
  <2>3. UNCHANGED <<chipStages, chipQs, cmdOutQ, wrDataBufReqQ>>
    BY <1>4 DEF WriteWord, sbVars, busVars, wrVars
  <2> QED BY <1>1, <2>2, <2>3, AskingWhile, AskedSame
<1>5. CASE BusRule /\ UNCHANGED <<bufVars, ctrl>>
  <2>1. CASE SBRule /\ UNCHANGED busVars
    <3>1. UNCHANGED wrDataBufReqQ
      BY <2>1 DEF busVars, wrVars
    <3>2. CASE DoServiceReq
      <4>1. PICK k \in Chip : k = currChip
        BY DEF BusInv, TypedInv, TypeOK
      <4>2. CASE IssueBusCmd
        BY <1>5, <3>1, <3>2, <4>1, <4>2, AskedIssue DEF DoServiceReq
      <4>3. CASE WaitForData
        <5>1. UNCHANGED <<chipStages, chipQs, cmdOutQ>>
          BY <4>3 DEF WaitForData
        <5> QED BY <1>1, <1>2, <1>5, <3>1, <5>1, AskingWhile, AskedSame
      <4>4. CASE LookAtStatus
        <5>1. WaitingKept /\ UNCHANGED cmdOutQ
          BY <4>1, <4>4, LookWaits
        <5> QED BY <1>2, <1>5, <3>1, <5>1, AskingWhile, AskedSame
      <4> QED BY <3>2, <4>2, <4>3, <4>4 DEF DoServiceReq
    <3>3. CASE DoChooseChip \/ \E c \in Chip : DecBusyTimer(c)
      <4>1. UNCHANGED <<chipStages, chipQs, cmdOutQ>>
        BY <3>3 DEF DoChooseChip, DecBusyTimer
      <4> QED BY <1>1, <1>2, <1>5, <3>1, <4>1, AskingWhile, AskedSame
    <3> QED BY <2>1, <3>2, <3>3 DEF SBRule
  <2>2. CASE DoSBCmd
    <3>1. WaitingKept /\ UNCHANGED <<cmdOutQ, wrDataBufReqQ>>
      BY <2>2, TakeWaits DEF DoSBCmd, wrVars
    <3> QED BY <1>2, <1>5, <3>1, AskingWhile, AskedSame
  <2>3. CASE DoDecodeCmd
    BY <1>5, <2>3, AskedDecode
  <2>4. CASE BusStep /\ ~DoDecodeCmd
    <3>1. UNCHANGED <<chipStages, chipQs, cmdOutQ, wrDataBufReqQ>>
      BY <2>4 DEF BusStep, StartChip, GetStatus, BusyIn, DoReadDataWaitBuf, DoReadData,
                  DoWriteDataWait, DoWritePageData, sbVars, wrVars
    <3> QED BY <1>1, <1>2, <1>5, <3>1, AskingWhile, AskedSame
  <2>5. CASE DoDecoderDataBuf \/ \E c \in Chip : NandReady(c)
    <3>1. UNCHANGED <<chipStages, chipQs, cmdOutQ, wrDataBufReqQ>>
      BY <2>5 DEF DoDecoderDataBuf, NandReady, sbVars, wrVars
    <3> QED BY <1>1, <1>2, <1>5, <3>1, AskingWhile, AskedSame
  <2> QED BY <1>5, <2>1, <2>2, <2>3, <2>4, <2>5 DEF BusRule
<1>6. CASE DoHandleWriteDataReq
  BY <1>6, AskedHandle
<1>7. CASE DoWriteFetchWait \/ DoWriteBufTransfer \/ SetWriteDataRdy
  <2>1. UNCHANGED <<chipStages, chipQs, cmdOutQ, wrDataBufReqQ, ctrl>>
    BY <1>7 DEF DoWriteFetchWait, DoWriteBufTransfer, SetWriteDataRdy, SetWdataRdy, sbVars, busVars, wrVars
  <2> QED BY <1>1, <1>2, <2>1, AskingWhile, AskedSame
<1>8. CASE DoWriteDataTransferReq \/ DoWriteDataTransferToBus
  <2>1. UNCHANGED <<chipStages, chipQs, cmdOutQ, wrDataBufReqQ, ctrl>>
    BY <1>8 DEF DoWriteDataTransferReq, DoWriteDataTransferToBus, BusWriteDataTransferReq,
                BusWriteWord, sbVars, busVars, wrVars
  <2> QED BY <1>1, <1>2, <2>1, AskingWhile, AskedSame
<1>9. CASE ReadWord
  <2>1. PICK t : t = readTagQ[1]
    OBVIOUS
  <2>2. /\ t \in Tag /\ \A s \in Tag : s # t => ctrl'[s] = ctrl[s]
        /\ ctrl'[t] = User!Free \/ (ctrl'[t].asked <=> ctrl[t].asked)
    BY <1>9, <2>1, ReadWordFacts
  <2>3. NoneAsked
    BY <2>2, FreeFields DEF NoneAsked
  <2>4. UNCHANGED <<chipStages, chipQs, cmdOutQ, wrDataBufReqQ>>
    BY <1>9, ReadWordFacts DEF sbVars, wrVars
  <2> QED BY <1>1, <2>3, <2>4, AskingWhile, AskedSame
<1>10. CASE AckStatus
  <2>1. PICK t : t = ackQ[1]
    OBVIOUS
  <2>2. t \in Tag /\ ctrl' = [ctrl EXCEPT ![t] = User!Free]
    BY <1>10, <2>1, AckStatusPlaces
  <2>3. ctrl'[t] = User!Free /\ \A s \in Tag : s # t => ctrl'[s] = ctrl[s]
    BY <2>2, CtrlAfter
  <2>4. NoneAsked
    BY <2>3, FreeFields DEF NoneAsked
  <2>5. UNCHANGED <<chipStages, chipQs, cmdOutQ, wrDataBufReqQ>>
    BY <1>10 DEF AckStatus, BusAckStatus, sbVars, wrVars
  <2> QED BY <1>1, <2>4, <2>5, AskingWhile, AskedSame
<1>11. CASE UNCHANGED vars
  <2>1. UNCHANGED <<chipStages, chipQs, cmdOutQ, wrDataBufReqQ, ctrl>>
    BY <1>11 DEF vars, sbVars, busVars, wrVars
  <2> QED BY <1>1, <1>2, <2>1, AskingWhile, AskedSame
<1> QED BY <1>3, <1>4, <1>5, <1>6, <1>7, <1>8, <1>9, <1>10, <1>11 DEF Next, ControllerRule

-----------------------------------------------------------------------------
\* The types of what is written.
LEMMA PageTypes ==
  ASSUME BusInv, UserTyped
  PROVE  /\ encodeQ \in Seq(PageWord) /\ writePageBufFront \in Seq(PageWord)
         /\ writePageBufBack \in Seq(PageWord) /\ wrDataTransReqQ \in Seq({1})
         /\ Len(encodeQ) \in Nat /\ Len(writePageBufFront) \in Nat /\ Len(writePageBufBack) \in Nat
         /\ dataCnt \in Nat /\ dataCnt <= PageWords /\ (Writing => dataCnt < PageWords)
         /\ wdataCnt \in Nat /\ wdataCnt <= PageWords
         /\ writeWordCnt \in Nat /\ writeWordCnt <= PageWords - 1
         /\ writeFetchSt \in {0, 1} /\ wrState \in {0, 1}
         /\ Written \in Nat /\ InFront \in Nat /\ InBack \in Nat /\ ToFetch \in Nat
         /\ PageWords \in Nat \ {0}
         /\ ctrl \in [Tag -> [op : Op \cup {"none"}, asked : BOOLEAN, cnt : Nat]]
<1>1. /\ encodeQ \in Seq(PageWord) /\ writePageBufFront \in Seq(PageWord)
      /\ writePageBufBack \in Seq(PageWord) /\ wrDataTransReqQ \in Seq({1})
      /\ dataCnt \in 0 .. PageWords /\ wdataCnt \in 0 .. PageWords
      /\ writeWordCnt \in 0 .. PageWords - 1 /\ writeFetchSt \in {0, 1} /\ wrState \in {0, 1}
      /\ ctrl \in [Tag -> [op : Op \cup {"none"}, asked : BOOLEAN, cnt : Nat]]
      /\ PageWords \in Nat \ {0}
  BY Depths DEF UserTyped, BusInv, TypedInv, TypeOK, BusTyped, BuffersTyped
<1>2. /\ Len(encodeQ) \in Nat /\ Len(writePageBufFront) \in Nat /\ Len(writePageBufBack) \in Nat
  BY <1>1
<1>3. Writing => dataCnt < PageWords
  BY <1>1 DEF Writing, BusInv, TypedInv, BurstCounted
<1>4. /\ dataCnt \in Nat /\ dataCnt <= PageWords /\ wdataCnt \in Nat /\ wdataCnt <= PageWords
      /\ writeWordCnt \in Nat /\ writeWordCnt <= PageWords - 1
  BY <1>1
<1>5. Written \in Nat /\ ToFetch \in Nat
  BY <1>1, <1>4 DEF Written, ToFetch
<1>6. InFront \in Nat
  BY <1>2, <1>5 DEF InFront
<1>7. InBack \in Nat
  BY <1>2, <1>6 DEF InBack
<1> QED BY <1>1, <1>2, <1>3, <1>4, <1>5, <1>6, <1>7

\* The data is left alone.
LEMMA DataSame ==
  ASSUME NEW p, WritesInOrder(p),
         UNCHANGED <<encodeQ, writePageBufFront, writePageBufBack, writeWordCnt, writeFetchSt,
                     wrDataTransReqQ, wdataCnt>>,
         Moving' <=> Moving, Writing' <=> Writing, Writing => dataCnt' = dataCnt
  PROVE  WritesInOrder(p)'
<1>1. Written' = Written /\ ToFetch' = ToFetch /\ (Fetching' <=> Fetching)
  BY DEF Written, ToFetch, Fetching
<1>2. InFront' = InFront /\ InBack' = InBack
  BY <1>1 DEF InFront, InBack
<1>3. Transfers' /\ Fetches'
  BY <1>1 DEF WritesInOrder, Transfers, AllMoved, Fetches
<1> QED BY <1>1, <1>2, <1>3 DEF WritesInOrder, Stream, IsWord

\* No page is asked for, no word of one comes, and none that is under way is
\* forgotten.
AskedLess(p) ==
  /\ \A t \in Tag : ctrl'[t].asked => ctrl[t].asked /\ ctrl'[t].cnt = ctrl[t].cnt
  /\ \A i \in DOMAIN p : ctrl'[p[i]].asked

\* The pages are of the same user's commands then.
LEMMA OwnedSame ==
  ASSUME NEW p \in Seq(Tag), PagesOwned(p), UNCHANGED <<writeFetchSt, writeWordCnt>>,
         Writing' => Writing /\ cmdTagR' = cmdTagR, AskedLess(p)
  PROVE  PagesOwned(p)'
<1>1. Fetching' <=> Fetching
  BY DEF Fetching
<1>2. Fetching => p # << >> /\ ctrl'[p[Len(p)]].cnt = writeWordCnt
  <2>1. p # << >> => Len(p) \in DOMAIN p /\ p[Len(p)] \in Tag
    OBVIOUS
  <2> QED BY <2>1 DEF PagesOwned, AskedLess
<1> QED BY <1>1, <1>2 DEF PagesOwned, AskedLess

\* The page that is next, the chips that wait for it and the commands that
\* write it are as they were.
NextKept(p, q) == \A t : IsNext(p, t) => IsNext(q, t)'
WaitKept == \A c \in Chip : Waiting(c)' => Waiting(c) /\ Working(c)' = Working(c)
DataCmdsKept ==
  \A i \in DOMAIN cmdOutQ' : cmdOutQ'[i].busOp = "WRITE_CMD_DATA" =>
    \E j \in DOMAIN cmdOutQ : cmdOutQ[j] = cmdOutQ'[i]

\* So the data is ready for the same commands.
LEMMA ReadySame ==
  ASSUME NEW p, NEW q, ReadyMatches(p), wdataRdy' = wdataRdy, NextKept(p, q), WaitKept, DataCmdsKept,
         wdataRdy # NoTag => ctrl'[wdataRdy].asked
  PROVE  ReadyMatches(q)'
<1>1. ASSUME NEW c \in Chip, Waiting(c)', Working(c)'.tag = wdataRdy PROVE IsNext(q, wdataRdy)'
  <2>1. Waiting(c) /\ Working(c).tag = wdataRdy
    BY <1>1 DEF WaitKept
  <2>2. IsNext(p, wdataRdy)
    BY <1>1, <2>1 DEF ReadyMatches
  <2>3. PICK t : t = wdataRdy
    OBVIOUS
  <2>4. IsNext(q, t)' /\ wdataRdy' = t
    BY <2>2, <2>3 DEF NextKept
  <2> QED BY <2>4 DEF IsNext
<1>2. ASSUME NEW i \in DOMAIN cmdOutQ', cmdOutQ'[i].busOp = "WRITE_CMD_DATA"
      PROVE  IsNext(q, cmdOutQ[i].tag)'
  <2>1. PICK j \in DOMAIN cmdOutQ : cmdOutQ[j] = cmdOutQ'[i]
    BY <1>2 DEF DataCmdsKept
  <2>2. PICK m : m = cmdOutQ[j]
    OBVIOUS
  <2>3. IsNext(p, m.tag)
    BY <1>2, <2>1, <2>2 DEF ReadyMatches
  <2>4. IsNext(q, m.tag)' /\ cmdOutQ'[i] = m
    BY <2>1, <2>2, <2>3 DEF NextKept
  <2> QED BY <2>4 DEF IsNext
<1> QED BY <1>1, <1>2 DEF ReadyMatches

\* No chip is done with its data that was not, and no more writes are acked.
ProgKept == \A c \in Chip : Programmed(c)' => Programmed(c) /\ Working(c)' = Working(c)
AcksKept ==
  \A i \in DOMAIN ackQ' : ctrl'[ackQ'[i]].op = "WRITE_PAGE" =>
    \E j \in DOMAIN ackQ : ackQ[j] = ackQ'[i] /\ ctrl[ackQ[j]].op = "WRITE_PAGE"
DoneKept(p, q) == \A t : Done(p, t) => Done(q, t)'

\* So the same commands are done.
LEMMA DoneSame ==
  ASSUME NEW p, NEW q, DoneWriting(p), ProgKept, AcksKept, DoneKept(p, q)
  PROVE  DoneWriting(q)'
<1>1. ASSUME NEW c \in Chip, Programmed(c)' PROVE Done(q, Working(c).tag)'
  <2>1. PICK t : t = Working(c).tag
    OBVIOUS
  <2>2. Programmed(c) /\ Working(c)' = Working(c)
    BY <1>1 DEF ProgKept
  <2>3. Done(p, t)
    BY <1>1, <2>1, <2>2 DEF DoneWriting
  <2>4. Done(q, t)' /\ Working(c)'.tag = t
    BY <2>1, <2>2, <2>3 DEF DoneKept
  <2> QED BY <2>4 DEF Done
<1>2. ASSUME NEW i \in DOMAIN ackQ', ctrl'[ackQ'[i]].op = "WRITE_PAGE" PROVE Done(q, ackQ[i])'
  <2>1. PICK j \in DOMAIN ackQ : ackQ[j] = ackQ'[i] /\ ctrl[ackQ[j]].op = "WRITE_PAGE"
    BY <1>2 DEF AcksKept
  <2>2. PICK t : t = ackQ[j]
    OBVIOUS
  <2>3. Done(p, t)
    BY <2>1, <2>2 DEF DoneWriting
  <2>4. Done(q, t)' /\ ackQ'[i] = t
    BY <2>1, <2>2, <2>3 DEF DoneKept
  <2> QED BY <2>4 DEF Done
<1> QED BY <1>1, <1>2 DEF DoneWriting

\* The chips go on as they were.
LEMMA ChipsGoOn ==
  ASSUME UNCHANGED <<chipQs, chipStages, chipBusy, cmdOutQ>>,
         \A c \in Chip : Starting(c) => Starting(c)'
  PROVE  ProgKept /\ WaitKept /\ DataCmdsKept
<1>1. \A c \in Chip : /\ (StartQueued(c)' <=> StartQueued(c))
                      /\ (Finished(c)' <=> Finished(c)) /\ (Waiting(c)' <=> Waiting(c))
                      /\ Working(c)' = Working(c)
  BY DEF StartQueued, Queued, Finished, Waiting, Working
<1>2. ProgKept
  BY <1>1 DEF ProgKept, Programmed
<1>3. WaitKept
  BY <1>1 DEF WaitKept
<1> QED BY <1>2, <1>3 DEF DataCmdsKept

\* Acks and what is done depend on the user's view only.
LEMMA UserSame ==
  ASSUME UNCHANGED ctrl
  PROVE  /\ \A p : DoneKept(p, p)
         /\ \A q \in Seq(Tag) : PagesOwned(q) => AskedLess(q)
         /\ UNCHANGED ackQ => AcksKept
BY DEF DoneKept, Done, AskedLess, PagesOwned, AcksKept

\* The page that is next stays so while no page starts or is moved.
LEMMA NextSame ==
  ASSUME Writing' <=> Writing, Writing /\ AllMoved => AllMoved'
  PROVE  \A p : NextKept(p, p)
BY DEF NextKept, IsNext, NextPage

-----------------------------------------------------------------------------
\* No word and no page moves.
LEMMA PipeSame ==
  ASSUME NEW p \in Seq(Tag), PipeInv(p),
         UNCHANGED <<encodeQ, writePageBufFront, writePageBufBack, writeWordCnt, writeFetchSt,
                     wrDataTransReqQ, wdataCnt, wdataRdy>>,
         Moving' <=> Moving, Writing' <=> Writing, Writing => UNCHANGED <<dataCnt, cmdTagR>>,
         AskedLess(p), DoneKept(p, p), AcksKept, wdataRdy # NoTag => ctrl'[wdataRdy].asked,
         ProgKept, WaitKept, DataCmdsKept
  PROVE  PipeInv(p)'
<1>1. WritesInOrder(p)'
  BY DataSame DEF PipeInv
<1>2. PagesOwned(p)'
  BY OwnedSame DEF PipeInv
<1>3. NextKept(p, p)
  BY NextSame DEF AllMoved
<1>4. ReadyMatches(p)'
  BY <1>3, ReadySame DEF PipeInv
<1>5. DoneWriting(p)'
  BY DoneSame DEF PipeInv
<1> QED BY <1>1, <1>2, <1>4, <1>5 DEF PipeInv

\* Nor does the user do anything.
LEMMA PipeQuiet ==
  ASSUME NEW p \in Seq(Tag), PipeInv(p), UNCHANGED <<ctrl, ackQ>>,
         UNCHANGED <<encodeQ, writePageBufFront, writePageBufBack, writeWordCnt, writeFetchSt,
                     wrDataTransReqQ, wdataCnt, wdataRdy>>,
         Moving' <=> Moving, Writing' <=> Writing, Writing => UNCHANGED <<dataCnt, cmdTagR>>,
         ProgKept, WaitKept, DataCmdsKept
  PROVE  PipeInv(p)'
<1>1. DoneKept(p, p) /\ AskedLess(p) /\ AcksKept
  BY UserSame DEF PipeInv
<1>2. wdataRdy # NoTag => ctrl'[wdataRdy].asked
  BY DEF PipeInv, ReadyMatches
<1> QED BY <1>1, <1>2, PipeSame

-----------------------------------------------------------------------------
\* The commands in cmdOutQ after one more is queued.
LEMMA QueueTypes ==
  ASSUME BusInv
  PROVE  /\ cmdOutQ \in Seq(BusCmd) /\ Len(cmdOutQ) \in Nat
         /\ \A i \in DOMAIN cmdOutQ : cmdOutQ[i] \in BusCmd /\ cmdOutQ[i].chip \in Chip
                                      /\ cmdOutQ[i].tag \in Tag /\ i \in Nat
<1>1. cmdOutQ \in Seq(BusCmd)
  BY DEF BusInv, TypedInv, ScoreboardTyped
<1>2. Len(cmdOutQ) \in Nat /\ \A i \in DOMAIN cmdOutQ : cmdOutQ[i] \in BusCmd /\ i \in Nat
  BY <1>1
<1> QED BY <1>1, <1>2, CmdFields

\* Which stage of a command asks for its data, and which is given it.
LEMMA WriteTable ==
  ASSUME NEW op \in Op, NEW s \in StagesOf[op], s \in DOMAIN Issues[op]
  PROVE  LET next == Issues[op][s]
         IN  /\ next.stage = "WR_BUF_REQ_ISSUED" => s = "INIT"
             /\ next.busOp = "WRITE_CMD_DATA" => s = "WR_BUF_REQ_ISSUED"
             /\ op = "WRITE_PAGE" /\ next.stage \in {"WR_ISSUED", "WAIT_STATUS"} =>
                  next.busOp = "WRITE_CMD_DATA" \/ s = "WR_ISSUED"
<1>1. CASE op = "READ_PAGE"
  BY <1>1 DEF StagesOf, Issues
<1>2. CASE op = "WRITE_PAGE"
  BY <1>2 DEF StagesOf, Issues
<1>3. CASE op = "ERASE_BLOCK"
  BY <1>3 DEF StagesOf, Issues
<1> QED BY <1>1, <1>2, <1>3 DEF Op

\* The scoreboard issues a command: a write is started when its data is next.
LEMMA IssuePipe ==
  ASSUME BusInv, UserTyped, PlaceInv, NEW p \in Seq(Tag), PipeInv(p),
         NEW k \in Chip, k = currChip, sbState = "SERVICE_REQ", IssueBusCmd,
         UNCHANGED <<wdataRdy, busVars, bufVars, ctrl>>
  PROVE  PipeInv(p)'
<1>0. PICK h, next, w : /\ h = Working(k) /\ next = Issues[h.op][chipStages[k]]
                        /\ w = [tag |-> h.tag, busOp |-> next.busOp, chip |-> k]
  OBVIOUS
<1>1. /\ h \in Cmd /\ h.op \in Op /\ h.tag \in Tag /\ chipQs[k] \in Seq(Cmd) /\ chipQs[k] # << >>
      /\ chipStages[k] \in DOMAIN Issues[h.op] /\ chipStages[k] \in StagesOf[h.op]
      /\ w \in BusCmd /\ w.tag = h.tag /\ w.chip = k /\ w.busOp = next.busOp
      /\ cmdOutQ \in Seq(BusCmd) /\ cmdOutQ' = Append(cmdOutQ, w)
      /\ chipStages'[k] = next.stage
      /\ \A c \in Chip : c # k => chipStages'[c] = chipStages[c]
      /\ Waiting(k) => wdataRdy = h.tag
      /\ UNCHANGED <<chipQs, chipBusy>>
  BY <1>0, IssueFacts
<1>2. /\ UNCHANGED <<state, chipR, cmdTagR, dataCnt, encodeQ, wrDataTransReqQ, ackQ>>
      /\ UNCHANGED <<writePageBufFront, writePageBufBack, writeWordCnt, writeFetchSt, wrState, wdataCnt>>
  BY DEF busVars, ctlVars, wrVars, bufVars
<1>3. /\ Writing' <=> Writing
      /\ Moving' <=> Moving
      /\ AllMoved' <=> AllMoved
      /\ \A c : Starting(c)' <=> Starting(c)
  BY <1>2 DEF Writing, Moving, AllMoved, Starting
<1>4. \A c : /\ StartQueued(c) => StartQueued(c)'
             /\ w.chip = c /\ w.busOp \in StartOps => StartQueued(c)'
  BY <1>1, QueuedAppend DEF StartQueued
<1>5. \A c : Working(c)' = Working(c)
  BY <1>1 DEF Working
<1>6. ProgKept
  <2>1. ASSUME NEW c \in Chip, Programmed(c)' PROVE Programmed(c)
    <3>1. /\ chipStages'[c] \in {"WR_ISSUED", "WAIT_STATUS"} /\ ~Finished(c)'
          /\ Working(c).op = "WRITE_PAGE" /\ ~StartQueued(c) /\ ~Starting(c) /\ ~StartQueued(c)'
      BY <1>3, <1>4, <1>5, <2>1 DEF Programmed
    <3>2. CASE c # k
      BY <1>1, <2>1, <3>1, <3>2 DEF Programmed, Finished
    <3>3. CASE c = k
      <4>1. h.op = "WRITE_PAGE"
        BY <1>0, <3>1, <3>3
      <4>2. next.busOp # "WRITE_CMD_DATA"
        BY <1>1, <1>4, <3>1, <3>3 DEF StartOps
      <4>3. chipStages[k] = "WR_ISSUED"
        <5>1. next.stage \in {"WR_ISSUED", "WAIT_STATUS"}
          BY <1>1, <3>1, <3>3
        <5> QED BY <1>0, <1>1, <4>1, <4>2, <5>1, WriteTable
      <4> QED BY <2>1, <3>1, <3>3, <4>3 DEF Programmed, Finished, WaitStages
    <3> QED BY <3>2, <3>3
  <2> QED BY <1>5, <2>1 DEF ProgKept
<1>7. DoneKept(p, p) /\ AskedLess(p) /\ AcksKept
  BY <1>2, UserSame DEF PipeInv
<1>8. WritesInOrder(p)'
  BY <1>2, <1>3, DataSame DEF PipeInv
<1>9. PagesOwned(p)'
  BY <1>2, <1>3, <1>7, OwnedSame DEF PipeInv
<1>10. DoneWriting(p)'
  BY <1>6, <1>7, DoneSame DEF PipeInv
<1>11. NextKept(p, p)
  BY <1>3, NextSame
<1>12. wdataRdy # NoTag => ctrl[wdataRdy].asked
  BY DEF PipeInv, ReadyMatches
<1>13. ASSUME NEW c \in Chip, Waiting(c)', Working(c).tag = wdataRdy PROVE IsNext(p, wdataRdy)
  <2>1. CASE Waiting(c)
    BY <1>13, <2>1 DEF PipeInv, ReadyMatches
  <2>2. CASE ~Waiting(c)
    <3>1. c = k
      BY <1>1, <1>13, <2>2 DEF Waiting
    <3>2. chipStages[k] = "INIT"
      <4>1. next.stage = "WR_BUF_REQ_ISSUED"
        BY <1>1, <1>13, <3>1 DEF Waiting
      <4> QED BY <1>0, <1>1, <4>1, WriteTable
    <3>3. ~Finished(k) /\ ~AtWork(k) /\ LiveQ(k) = chipQs[k]
      BY <3>2 DEF Finished, AtWork, WaitStages, LiveQ
    <3>4. 1 \in DOMAIN LiveQ(k) /\ LiveQ(k)[1] = h
      BY <1>0, <1>1, <3>3 DEF Working
    <3>5. Fresh(h.tag, h.op)
      BY <3>3, <3>4 DEF PlaceInv, UseMatches
    <3>6. ~ctrl[wdataRdy].asked /\ wdataRdy = h.tag
      BY <1>0, <1>13, <3>1, <3>5 DEF Fresh
    <3>7. wdataRdy # NoTag
      BY <1>1, <3>6, ChipAssumption DEF NoTag
    <3> QED BY <1>12, <3>6, <3>7
  <2> QED BY <2>1, <2>2
<1>14. ASSUME NEW i \in DOMAIN cmdOutQ', cmdOutQ'[i].busOp = "WRITE_CMD_DATA"
       PROVE  IsNext(p, cmdOutQ'[i].tag)
  <2>1. CASE i \in DOMAIN cmdOutQ /\ cmdOutQ'[i] = cmdOutQ[i]
    BY <1>14, <2>1 DEF PipeInv, ReadyMatches
  <2>2. CASE cmdOutQ'[i] = w
    <3>1. next.busOp = "WRITE_CMD_DATA"
      BY <1>1, <1>14, <2>2
    <3>2. Waiting(k)
      BY <1>0, <1>1, <3>1, WriteTable DEF Waiting
    <3>3. Working(k).tag = wdataRdy
      BY <1>0, <1>1, <3>2
    <3>4. IsNext(p, wdataRdy)
      BY <3>2, <3>3 DEF PipeInv, ReadyMatches
    <3> QED BY <1>0, <1>1, <2>2, <3>3, <3>4
  <2> QED BY <1>1, <1>14, <2>1, <2>2, AppendIs
<1>15. ReadyMatches(p)'
  <2>1. \A t : IsNext(p, t) => IsNext(p, t)'
    BY <1>11 DEF NextKept
  <2>2. ASSUME NEW c \in Chip, Waiting(c)', Working(c)'.tag = wdataRdy PROVE IsNext(p, wdataRdy)'
    <3>1. PICK t : t = wdataRdy
      OBVIOUS
    <3>2. IsNext(p, t)' /\ wdataRdy' = t
      BY <1>5, <1>13, <2>1, <2>2, <3>1
    <3> QED BY <3>2 DEF IsNext
  <2>3. ASSUME NEW i \in DOMAIN cmdOutQ', cmdOutQ'[i].busOp = "WRITE_CMD_DATA"
        PROVE  IsNext(p, cmdOutQ[i].tag)'
    <3>1. PICK m : m = cmdOutQ'[i]
      OBVIOUS
    <3>2. IsNext(p, m.tag)'
      BY <1>14, <2>1, <2>3, <3>1
    <3> QED BY <3>1, <3>2 DEF IsNext
  <2> QED BY <1>12, <2>2, <2>3 DEF ReadyMatches
<1> QED BY <1>8, <1>9, <1>10, <1>15 DEF PipeInv

-----------------------------------------------------------------------------
\* The scoreboard looks at a status: a chip that has programmed its page and
\* is still busy is polled again.
LEMMA LookPipe ==
  ASSUME BusInv, NEW p \in Seq(Tag), PipeInv(p),
         NEW k \in Chip, k = currChip, LookAtStatus,
         UNCHANGED <<wdataRdy, busVars, bufVars, ctrl>>
  PROVE  PipeInv(p)'
<1>1. /\ UNCHANGED <<state, chipR, cmdTagR, dataCnt, encodeQ, wrDataTransReqQ, ackQ>>
      /\ UNCHANGED <<writePageBufFront, writePageBufBack, writeWordCnt, writeFetchSt, wrState, wdataCnt>>
  BY DEF busVars, ctlVars, wrVars, bufVars
<1>2. /\ chipQs \in [Chip -> Seq(Cmd)] /\ chipBusy \in [Chip -> Seq(BOOLEAN)]
      /\ chipStages \in [Chip -> {"INIT", "RD_ISSUED", "RD_DATA",
           "WR_BUF_REQ_ISSUED", "WR_ISSUED", "ER_ISSUED", "WAIT_STATUS"}]
      /\ ChipInStep(k)
  BY DEF BusInv, TypedInv, TypeOK, ScoreboardTyped, Protocol, ChipsInStep
<1>3. PICK b : b = Head(chipBusy[k])
  OBVIOUS
<1>4. /\ chipStages[k] \in WaitStages /\ UNCHANGED cmdOutQ /\ chipBusy[k] # << >>
      /\ chipStages' = [chipStages EXCEPT ![k] = IF b THEN PollStage[Working(k).op] ELSE "INIT"]
      /\ chipQs' = IF b THEN chipQs ELSE [chipQs EXCEPT ![k] = Tail(@)]
      /\ chipBusy' = [chipBusy EXCEPT ![k] = Tail(@)]
  BY <1>3 DEF LookAtStatus, stage, WaitStages, currReq, Working
<1>5. chipBusy[k] \in {<<TRUE>>, <<FALSE>>}
  BY <1>2, <1>4 DEF ChipInStep
<1>6. b \in BOOLEAN /\ (b => chipBusy[k] # <<FALSE>>)
  BY <1>3, <1>5, OneStatus
<1>7. ASSUME NEW c \in Chip, c # k
      PROVE  chipStages'[c] = chipStages[c] /\ chipQs'[c] = chipQs[c] /\ chipBusy'[c] = chipBusy[c]
  <2>1. chipQs'[c] = chipQs[c]
    <3>1. CASE b
      BY <1>4, <3>1
    <3>2. CASE ~b
      <4>1. chipQs' = [chipQs EXCEPT ![k] = Tail(@)]
        BY <1>4, <3>2
      <4> QED BY <1>2, <1>7, <4>1
    <3> QED BY <3>1, <3>2
  <2> QED BY <1>2, <1>4, <1>7, <2>1
<1>8. chipStages'[k] = IF b THEN PollStage[Working(k).op] ELSE "INIT"
  BY <1>2, <1>4
<1>9. \A c : (StartQueued(c)' <=> StartQueued(c)) /\ (Starting(c)' <=> Starting(c))
  BY <1>1, <1>4 DEF StartQueued, Queued, Starting
<1>10. ProgKept
  <2>1. ASSUME NEW c \in Chip, Programmed(c)' PROVE Programmed(c) /\ Working(c)' = Working(c)
    <3>1. CASE c # k
      BY <1>7, <1>9, <2>1, <3>1 DEF Programmed, Finished, Working
    <3>2. CASE c = k
      <4>1. b
        BY <1>8, <2>1, <3>2 DEF Programmed
      <4>2. Working(k)' = Working(k)
        BY <1>4, <4>1 DEF Working
      <4>3. Working(k).op = "WRITE_PAGE"
        BY <2>1, <3>2, <4>2 DEF Programmed
      <4>4. chipStages[k] = "WAIT_STATUS"
        <5>1. chipStages[k] \in StagesOf["WRITE_PAGE"]
          BY <1>2, <1>4, <4>3 DEF ChipInStep, WaitStages
        <5> QED BY <1>4, <5>1 DEF StagesOf, WaitStages
      <4>5. ~Finished(k)
        BY <1>6, <4>1 DEF Finished
      <4> QED BY <1>9, <2>1, <3>2, <4>2, <4>3, <4>4, <4>5 DEF Programmed
    <3> QED BY <3>1, <3>2
  <2> QED BY <2>1 DEF ProgKept
<1>11. WaitKept
  <2>1. ASSUME NEW c \in Chip, Waiting(c)' PROVE Waiting(c) /\ Working(c)' = Working(c)
    <3>1. CASE c # k
      BY <1>7, <2>1, <3>1 DEF Waiting, Working
    <3>2. CASE c = k
      <4>1. Working(k).op \in Op
        <5>1. chipQs[k] # << >> /\ chipQs[k] \in Seq(Cmd)
          BY <1>2, <1>4 DEF ChipInStep, WaitStages
        <5>2. Working(k) \in Cmd
          BY <5>1 DEF Working
        <5> QED BY <5>2, CmdFields
      <4>2. chipStages'[k] # "WR_BUF_REQ_ISSUED"
        BY <1>8, <4>1 DEF PollStage, Op
      <4> QED BY <2>1, <3>2, <4>2 DEF Waiting
    <3> QED BY <3>1, <3>2
  <2> QED BY <2>1 DEF WaitKept
<1>12. DataCmdsKept
  BY <1>4 DEF DataCmdsKept
<1>13. (Writing' <=> Writing) /\ (Moving' <=> Moving)
  BY <1>1 DEF Writing, Moving
<1> QED BY <1>1, <1>10, <1>11, <1>12, <1>13, PipeQuiet

\* A command joins the queue of a chip.
LEMMA TakePipe ==
  ASSUME BusInv, NEW p \in Seq(Tag), PipeInv(p), DoSBCmd, UNCHANGED <<bufVars, ctrl>>
  PROVE  PipeInv(p)'
<1>1. /\ UNCHANGED <<state, chipR, cmdTagR, dataCnt, encodeQ, wrDataTransReqQ, ackQ, cmdOutQ, wdataRdy>>
      /\ UNCHANGED <<writePageBufFront, writePageBufBack, writeWordCnt, writeFetchSt, wrState, wdataCnt>>
  BY DEF DoSBCmd, CmdIn, ctlVars, wrVars, bufVars
<1>2. /\ \A c \in Chip : chipQs[c] # << >> => Working(c)' = Working(c)
      /\ UNCHANGED <<chipStages, chipBusy>>
  BY TakeWaits
<1>3. \A c \in Chip : chipStages[c] # "INIT" => Working(c)' = Working(c)
  BY <1>2, LiveType
<1>4. \A c : /\ StartQueued(c)' <=> StartQueued(c)
             /\ Starting(c)' <=> Starting(c)
             /\ Finished(c)' <=> Finished(c)
             /\ Waiting(c)' <=> Waiting(c)
  BY <1>1, <1>2 DEF StartQueued, Queued, Starting, Finished, Waiting
<1>5. ProgKept
  <2>1. ASSUME NEW c \in Chip, Programmed(c)' PROVE Programmed(c) /\ Working(c)' = Working(c)
    <3>1. chipStages[c] \in {"WR_ISSUED", "WAIT_STATUS"}
      BY <1>2, <2>1 DEF Programmed
    <3>2. Working(c)' = Working(c)
      BY <1>3, <2>1, <3>1
    <3> QED BY <1>2, <1>4, <2>1, <3>2 DEF Programmed
  <2> QED BY <2>1 DEF ProgKept
<1>6. WaitKept
  <2>1. ASSUME NEW c \in Chip, Waiting(c)' PROVE Waiting(c) /\ Working(c)' = Working(c)
    <3>1. Waiting(c)
      BY <1>4, <2>1
    <3>2. chipStages[c] # "INIT"
      BY <3>1 DEF Waiting
    <3> QED BY <1>3, <2>1, <3>1, <3>2
  <2> QED BY <2>1 DEF WaitKept
<1>7. DataCmdsKept
  BY <1>1 DEF DataCmdsKept
<1>8. (Writing' <=> Writing) /\ (Moving' <=> Moving)
  BY <1>1 DEF Writing, Moving
<1> QED BY <1>1, <1>5, <1>6, <1>7, <1>8, PipeQuiet

\* The bus starts a chip to read or erase, or reads one out.
LEMMA BusPipe ==
  ASSUME BusInv, NEW p \in Seq(Tag), PipeInv(p), UNCHANGED <<bufVars, ctrl, sbVars, wrVars, ackQ>>,
         \/ state \notin StartStates /\ state' \notin StartStates
         \/ state \in {"READ_PAGE_REQ", "ERASE_BLOCK"} /\ state' = "IDLE"
         \/ state \in StartStates /\ state' \in StartStates /\ (Writing' <=> Writing)
            /\ UNCHANGED <<chipR, dataCnt, cmdTagR>>
  PROVE  PipeInv(p)'
<1>1. /\ UNCHANGED <<chipQs, chipStages, chipBusy, cmdOutQ, wdataRdy, encodeQ, wrDataTransReqQ>>
      /\ UNCHANGED <<writePageBufFront, writePageBufBack, writeWordCnt, writeFetchSt, wrState, wdataCnt>>
  BY DEF sbVars, wrVars, bufVars
<1>2. (Writing' <=> Writing) /\ (Moving' <=> Moving) /\ (Writing => UNCHANGED <<dataCnt, cmdTagR>>)
  BY <1>1 DEF Writing, Moving, StartStates
<1>3. ProgKept /\ WaitKept /\ DataCmdsKept
  <2>1. CASE state \notin StartStates \/ (state' \in StartStates /\ UNCHANGED chipR)
    BY <1>1, <2>1, ChipsGoOn DEF Starting
  <2>2. CASE state \in {"READ_PAGE_REQ", "ERASE_BLOCK"}
    <3>1. \A c \in Chip : /\ StartQueued(c)' <=> StartQueued(c)
                          /\ Finished(c)' <=> Finished(c)
                          /\ Waiting(c)' <=> Waiting(c)
                          /\ Working(c)' = Working(c)
      BY <1>1 DEF StartQueued, Queued, Finished, Waiting, Working
    <3>2. ASSUME NEW c \in Chip, Starting(c) PROVE Working(c).op # "WRITE_PAGE"
      <4>1. state \in StatesOf[Working(c).op]
        BY <3>2, AtTheBus DEF Starting
      <4> QED BY <2>2, <4>1 DEF StatesOf
    <3>3. ProgKept
      <4>1. ASSUME NEW c \in Chip, Programmed(c)' PROVE Programmed(c)
        <5>1. Working(c).op = "WRITE_PAGE" /\ ~StartQueued(c) /\ ~Finished(c)
          BY <3>1, <4>1 DEF Programmed
        <5>2. ~Starting(c)
          BY <3>2, <4>1, <5>1
        <5> QED BY <1>1, <4>1, <5>1, <5>2 DEF Programmed
      <4> QED BY <3>1, <4>1 DEF ProgKept
    <3> QED BY <1>1, <3>1, <3>3 DEF WaitKept, DataCmdsKept
  <2> QED BY <2>1, <2>2
<1> QED BY <1>1, <1>2, <1>3, PipeQuiet

\* The bus asks for a status: a write that is acked is done with its data.
LEMMA PollPipe ==
  ASSUME BusInv, UserTyped, PlaceInv, NEW p \in Seq(Tag), PipeInv(p), GetStatus,
         UNCHANGED <<bufVars, ctrl>>
  PROVE  PipeInv(p)'
<1>0. PICK k \in Chip : k = chipR
  BY DEF BusInv, TypedInv, TypeOK
<1>1. /\ UNCHANGED <<chipR, cmdTagR, dataCnt, encodeQ, wrDataTransReqQ, cmdOutQ, wdataRdy>>
      /\ UNCHANGED <<writePageBufFront, writePageBufBack, writeWordCnt, writeFetchSt, wrState, wdataCnt>>
      /\ UNCHANGED <<chipQs, chipStages>>
      /\ state \in PollStates /\ state' \in {"IDLE", "READ_DATA_WAIT_BUF"}
  BY DEF GetStatus, BusyIn, wrVars, bufVars, PollStates
<1>2. (Writing' <=> Writing) /\ (Moving' <=> Moving) /\ ~Writing /\ \A c : ~Starting(c)
  BY <1>1 DEF Writing, Moving, Starting, StartStates, PollStates
<1>3. /\ AtWork(k) /\ cmdTagR = Working(k).tag /\ chipStages[k] \in WaitStages
      /\ \A c \in Chip : c # k => (Finished(c)' <=> Finished(c))
      /\ ~Finished(k)
      /\ ackQ' = ackQ \/ ackQ' = Append(ackQ, cmdTagR)
      /\ cmdTagR \in Tag
  BY <1>0, PollFacts
<1>4. \A c : /\ StartQueued(c)' <=> StartQueued(c)
             /\ Waiting(c)' <=> Waiting(c)
             /\ Working(c)' = Working(c)
  BY <1>1 DEF StartQueued, Queued, Waiting, Working
<1>5. ProgKept
  <2>1. ASSUME NEW c \in Chip, Programmed(c)' PROVE Programmed(c)
    BY <1>1, <1>2, <1>3, <1>4, <2>1 DEF Programmed
  <2> QED BY <1>4, <2>1 DEF ProgKept
<1>6. WaitKept /\ DataCmdsKept
  BY <1>1, <1>4 DEF WaitKept, DataCmdsKept
<1>7. DoneKept(p, p) /\ AskedLess(p)
  BY UserSame DEF PipeInv
<1>8. WritesInOrder(p)'
  BY <1>1, <1>2, DataSame DEF PipeInv
<1>9. PagesOwned(p)'
  BY <1>1, <1>2, <1>7, OwnedSame DEF PipeInv
<1>10. NextKept(p, p)
  BY <1>2, NextSame
<1>11. ReadyMatches(p)'
  BY <1>1, <1>6, <1>10, ReadySame DEF PipeInv, ReadyMatches
<1>12. ASSUME ctrl[cmdTagR].op = "WRITE_PAGE" PROVE Done(p, cmdTagR)
  <2>1. Working(k).op = "WRITE_PAGE"
    <3>1. ctrl[Working(k).tag].op = Working(k).op
      BY <1>3, WorkedOn
    <3> QED BY <1>3, <1>12, <3>1
  <2>2. chipStages[k] = "WAIT_STATUS"
    <3>1. chipStages[k] \in StagesOf["WRITE_PAGE"]
      BY <1>3, <2>1, AtWorkFacts
    <3> QED BY <1>3, <3>1 DEF StagesOf, WaitStages
  <2>3. ~StartQueued(k)
    BY <1>0, <1>1, AtTheBus
  <2>4. Programmed(k)
    BY <1>2, <1>3, <2>1, <2>2, <2>3 DEF Programmed
  <2> QED BY <1>3, <2>4 DEF PipeInv, DoneWriting
<1>13. ASSUME NEW i \in DOMAIN ackQ', ctrl[ackQ'[i]].op = "WRITE_PAGE" PROVE Done(p, ackQ'[i])
  <2>1. CASE i \in DOMAIN ackQ /\ ackQ'[i] = ackQ[i]
    BY <1>13, <2>1 DEF PipeInv, DoneWriting
  <2>2. CASE ackQ'[i] = cmdTagR
    BY <1>12, <1>13, <2>2
  <2>3. ackQ \in Seq(Tag)
    BY DEF UserTyped
  <2> QED BY <1>3, <1>13, <2>1, <2>2, <2>3, AppendIs
<1>14. DoneWriting(p)'
  <2>1. ASSUME NEW c \in Chip, Programmed(c)' PROVE Done(p, Working(c).tag)'
    <3>1. Done(p, Working(c).tag)
      BY <1>5, <2>1 DEF ProgKept, PipeInv, DoneWriting
    <3>2. PICK t : t = Working(c).tag
      OBVIOUS
    <3>3. Done(p, t)' /\ Working(c)'.tag = t
      BY <1>4, <1>7, <3>1, <3>2 DEF DoneKept
    <3> QED BY <3>3 DEF Done
  <2>2. ASSUME NEW i \in DOMAIN ackQ', ctrl'[ackQ'[i]].op = "WRITE_PAGE" PROVE Done(p, ackQ[i])'
    <3>1. PICK t : t = ackQ'[i]
      OBVIOUS
    <3>2. Done(p, t)'
      BY <1>7, <1>13, <2>2, <3>1 DEF DoneKept
    <3> QED BY <3>1, <3>2 DEF Done
  <2> QED BY <2>1, <2>2 DEF DoneWriting
<1> QED BY <1>8, <1>9, <1>11, <1>14 DEF PipeInv

-----------------------------------------------------------------------------
\* A bus command is taken from the queue: chips that start go on starting.
LEMMA DecodeFacts ==
  ASSUME BusInv, UserTyped, DoDecodeCmd, UNCHANGED <<bufVars, ctrl>>
  PROVE  LET m == Head(cmdOutQ)
         IN  /\ state = "IDLE" /\ cmdOutQ # << >> /\ cmdOutQ' = Tail(cmdOutQ) /\ cmdOutQ[1] = m
             /\ 1 \in DOMAIN cmdOutQ /\ m \in BusCmd /\ m.chip \in Chip /\ m.tag \in Tag
             /\ \A i \in DOMAIN cmdOutQ' : i \in Nat \ {0} /\ i + 1 \in DOMAIN cmdOutQ
                                           /\ cmdOutQ'[i] = cmdOutQ[i + 1]
             /\ chipR' = m.chip /\ cmdTagR' = m.tag /\ dataCnt' = 0 /\ state' = StateOf[m.busOp]
             /\ UNCHANGED <<chipQs, chipStages, chipBusy, wdataRdy, encodeQ, ackQ, ctrl,
                            writePageBufFront, writePageBufBack, writeWordCnt, writeFetchSt,
                            wrState, wdataCnt>>
             /\ wrDataTransReqQ' = IF m.busOp = "WRITE_CMD_DATA" THEN Append(wrDataTransReqQ, 1)
                                   ELSE wrDataTransReqQ
             /\ Writing' <=> m.busOp = "WRITE_CMD_DATA"
             /\ ProgKept /\ WaitKept /\ DataCmdsKept
<1>0. PICK m : m = Head(cmdOutQ)
  OBVIOUS
<1>1. /\ state = "IDLE" /\ cmdOutQ # << >> /\ cmdOutQ' = Tail(cmdOutQ)
      /\ chipR' = m.chip /\ cmdTagR' = m.tag /\ dataCnt' = 0 /\ state' = StateOf[m.busOp]
      /\ UNCHANGED <<chipQs, chipStages, chipBusy, wdataRdy, encodeQ, ackQ>>
      /\ wrDataTransReqQ' = IF m.busOp = "WRITE_CMD_DATA" THEN Append(wrDataTransReqQ, 1)
                            ELSE wrDataTransReqQ
  BY <1>0 DEF DoDecodeCmd, CmdOut
<1>2. UNCHANGED <<writePageBufFront, writePageBufBack, writeWordCnt, writeFetchSt, wrState, wdataCnt>>
  BY DEF bufVars
<1>3. /\ cmdOutQ \in Seq(BusCmd) /\ m \in BusCmd /\ m.tag \in Tag /\ m.chip \in Chip
      /\ m.busOp \in {"WRITE_DATA_BUF_REQ"} \cup StartOps \cup PollOps
  BY <1>0, QueueTypes, DecodeTyped
<1>4. /\ 1 \in DOMAIN cmdOutQ /\ cmdOutQ[1] = m
      /\ \A i \in DOMAIN cmdOutQ' : i \in Nat \ {0} /\ i + 1 \in DOMAIN cmdOutQ
                                    /\ cmdOutQ'[i] = cmdOutQ[i + 1]
  BY <1>0, <1>1, <1>3, TailIs
<1>5. Writing' <=> m.busOp = "WRITE_CMD_DATA"
  BY <1>1, <1>3 DEF Writing, StateOf, StartOps, PollOps
<1>6. \A c : StartQueued(c) \/ Starting(c) => StartQueued(c)' \/ Starting(c)'
  <2>1. ASSUME NEW c, StartQueued(c) PROVE StartQueued(c)' \/ Starting(c)'
    <3>1. StartQueued(c)' \/ (m.chip = c /\ m.busOp \in StartOps)
      BY <1>0, <1>1, <1>3, <2>1, QueuedTail DEF StartQueued
    <3>2. m.chip = c /\ m.busOp \in StartOps => Starting(c)'
      BY <1>1, StateTable DEF Starting
    <3> QED BY <3>1, <3>2
  <2>2. \A c : ~Starting(c)
    BY <1>1, StageKinds DEF Starting
  <2> QED BY <2>1, <2>2
<1>7. \A c : /\ Working(c)' = Working(c)
             /\ Finished(c)' <=> Finished(c)
             /\ Waiting(c)' <=> Waiting(c)
  BY <1>1 DEF Working, Finished, Waiting
<1>8. ProgKept
  <2>1. ASSUME NEW c \in Chip, Programmed(c)' PROVE Programmed(c)
    <3>1. ~StartQueued(c) /\ ~Starting(c)
      BY <1>6, <2>1 DEF Programmed
    <3> QED BY <1>1, <1>7, <2>1, <3>1 DEF Programmed
  <2> QED BY <1>7, <2>1 DEF ProgKept
<1>9. WaitKept
  BY <1>7 DEF WaitKept
<1>10. DataCmdsKept
  BY <1>4 DEF DataCmdsKept
<1> QED BY <1>0, <1>1, <1>2, <1>3, <1>4, <1>5, <1>8, <1>9, <1>10

\* A write that is started is the only one that the data was ready for.
LEMMA OnlyStart ==
  ASSUME BusInv, UserTyped, PlaceInv, NEW p, ReadyMatches(p), state = "IDLE",
         NEW m, m = cmdOutQ[1], 1 \in DOMAIN cmdOutQ, m.busOp = "WRITE_CMD_DATA"
  PROVE  /\ \A c \in Chip : ~(Waiting(c) /\ Working(c).tag = wdataRdy)
         /\ \A j \in DOMAIN cmdOutQ : j # 1 => cmdOutQ[j].busOp # "WRITE_CMD_DATA"
         /\ 1 \in DOMAIN p /\ m.tag = p[1]
<1>1. \A t : IsNext(p, t) => 1 \in DOMAIN p /\ t = p[1]
  BY DEF IsNext, NextPage, Writing
<1>2. 1 \in DOMAIN p /\ m.tag = p[1]
  BY <1>1 DEF ReadyMatches
<1>3. StartBeforePoll /\ BusCmdsBelong /\ ChipsInStep
  BY DEF BusInv, Protocol
<1>4. ASSUME NEW j \in DOMAIN cmdOutQ, cmdOutQ[j].busOp = "WRITE_CMD_DATA"
      PROVE  /\ cmdOutQ[j].chip \in Chip /\ AtWork(cmdOutQ[j].chip)
             /\ chipStages[cmdOutQ[j].chip] \notin RestStages
             /\ Working(cmdOutQ[j].chip).tag = m.tag
  <2>1. PICK x, c : x = cmdOutQ[j] /\ c = x.chip
    OBVIOUS
  <2>2. c \in Chip /\ x.busOp = "WRITE_CMD_DATA"
    BY <1>4, <2>1, QueueTypes
  <2>3. StartQueued(c)
    BY <1>4, <2>1 DEF StartQueued, Queued, StartOps
  <2>4. chipStages[c] \notin RestStages /\ chipBusy[c] = << >>
    BY <1>3, <2>2, <2>3 DEF ChipsInStep, ChipInStep
  <2>5. AtWork(c)
    BY <2>4 DEF AtWork, Finished, RestStages
  <2>6. Working(c).tag = x.tag
    BY <1>3, <1>4, <2>1, <2>2 DEF BusCmdsBelong, StartOps
  <2>7. x.tag = m.tag
    BY <1>1, <1>2, <1>4, <2>1 DEF ReadyMatches
  <2> QED BY <2>1, <2>2, <2>4, <2>5, <2>6, <2>7
<1>5. ASSUME NEW c \in Chip, Waiting(c), Working(c).tag = wdataRdy PROVE FALSE
  <2>1. wdataRdy = m.tag
    BY <1>1, <1>2, <1>5 DEF ReadyMatches
  <2>2. AtWork(c)
    BY <1>5, WaitingFacts
  <2>3. /\ m.chip \in Chip /\ AtWork(m.chip) /\ chipStages[m.chip] \notin RestStages
        /\ Working(m.chip).tag = m.tag
    BY <1>4
  <2>4. c = m.chip
    BY <1>5, <2>1, <2>2, <2>3, WorkedOn
  <2> QED BY <1>5, <2>3, <2>4 DEF Waiting, RestStages
<1>6. ASSUME NEW j \in DOMAIN cmdOutQ, j # 1, cmdOutQ[j].busOp = "WRITE_CMD_DATA" PROVE FALSE
  <2>1. /\ cmdOutQ[j].chip \in Chip /\ AtWork(cmdOutQ[j].chip)
        /\ Working(cmdOutQ[j].chip).tag = m.tag
    BY <1>4, <1>6
  <2>2. m.chip \in Chip /\ AtWork(m.chip) /\ Working(m.chip).tag = m.tag
    BY <1>4
  <2>3. cmdOutQ[j].chip = m.chip
    BY <2>1, <2>2, WorkedOn
  <2>4. 1 < j
    <3>1. cmdOutQ \in Seq(BusCmd)
      BY QueueTypes
    <3> QED BY <1>6, <3>1
  <2>5. \/ m.busOp = "WRITE_DATA_BUF_REQ" \/ cmdOutQ[j].busOp = "WRITE_DATA_BUF_REQ"
        \/ cmdOutQ[j].busOp \in PollOps
    BY <1>3, <1>6, <2>3, <2>4 DEF StartBeforePoll
  <2> QED BY <1>6, <2>5 DEF PollOps
<1> QED BY <1>2, <1>5, <1>6

\* The bus takes a command.
LEMMA DecodePipe ==
  ASSUME BusInv, UserTyped, PlaceInv, NEW p \in Seq(Tag), PipeInv(p), DoDecodeCmd,
         UNCHANGED <<bufVars, ctrl>>
  PROVE  PipeInv(p)'
<1>0. PICK m : m = Head(cmdOutQ)
  OBVIOUS
<1>1. /\ state = "IDLE" /\ cmdOutQ # << >> /\ cmdOutQ[1] = m
      /\ 1 \in DOMAIN cmdOutQ /\ m \in BusCmd /\ m.chip \in Chip /\ m.tag \in Tag
      /\ \A i \in DOMAIN cmdOutQ' : i \in Nat \ {0} /\ i + 1 \in DOMAIN cmdOutQ
                                    /\ cmdOutQ'[i] = cmdOutQ[i + 1]
      /\ chipR' = m.chip /\ cmdTagR' = m.tag /\ dataCnt' = 0 /\ state' = StateOf[m.busOp]
      /\ UNCHANGED <<chipQs, chipStages, chipBusy, wdataRdy, encodeQ, ackQ, ctrl,
                     writePageBufFront, writePageBufBack, writeWordCnt, writeFetchSt,
                     wrState, wdataCnt>>
      /\ wrDataTransReqQ' = IF m.busOp = "WRITE_CMD_DATA" THEN Append(wrDataTransReqQ, 1)
                            ELSE wrDataTransReqQ
      /\ Writing' <=> m.busOp = "WRITE_CMD_DATA"
      /\ ProgKept /\ WaitKept /\ DataCmdsKept
  BY <1>0, DecodeFacts
<1>2. ~Writing /\ (Moving' <=> Moving)
  BY <1>1 DEF Writing, Moving
<1>3. CASE m.busOp # "WRITE_CMD_DATA"
  <2>1. (Writing' <=> Writing) /\ wrDataTransReqQ' = wrDataTransReqQ
    BY <1>1, <1>2, <1>3
  <2>2. Writing => UNCHANGED <<dataCnt, cmdTagR>>
    BY <1>2
  <2>3. UNCHANGED <<ctrl, ackQ, encodeQ, writePageBufFront, writePageBufBack, writeWordCnt, writeFetchSt,
                     wrDataTransReqQ, wdataCnt, wdataRdy>>
    BY <1>1, <2>1
  <2>4. ProgKept /\ WaitKept /\ DataCmdsKept
    BY <1>1
  <2> QED BY <1>2, <2>1, <2>2, <2>3, <2>4, PipeQuiet
<1>4. CASE m.busOp = "WRITE_CMD_DATA"
  <2>1. /\ \A c \in Chip : ~(Waiting(c) /\ Working(c).tag = wdataRdy)
        /\ \A j \in DOMAIN cmdOutQ : j # 1 => cmdOutQ[j].busOp # "WRITE_CMD_DATA"
        /\ 1 \in DOMAIN p /\ m.tag = p[1]
    BY <1>1, <1>4, OnlyStart DEF PipeInv
  <2>2. encodeQ = << >> /\ wrDataTransReqQ = << >> /\ ~Moving /\ Transfers /\ Fetches
    BY <1>2 DEF PipeInv, WritesInOrder, Transfers
  <2>3. Writing' /\ dataCnt' = 0 /\ encodeQ' = << >> /\ wrDataTransReqQ' = <<1>> /\ ~Moving'
    BY <1>1, <1>2, <1>4, <2>2
  <2>4. Transfers' /\ Fetches'
    BY <1>1, <2>2, <2>3 DEF Transfers, Fetches, Fetching
  <2>5. /\ Written' = Written /\ ToFetch' = ToFetch
        /\ Fetching' <=> Fetching
    BY <1>1, <1>2, <2>3 DEF Written, ToFetch, Fetching
  <2>6. InFront' = InFront /\ InBack' = InBack
    BY <1>1, <2>5 DEF InFront, InBack
  <2>7. WritesInOrder(p)'
    BY <1>1, <2>4, <2>5, <2>6 DEF PipeInv, WritesInOrder, Stream, IsWord
  <2>8. PagesOwned(p)'
    <3>1. p # << >> /\ p[1] = cmdTagR'
      BY <1>1, <2>1
    <3> QED BY <1>1, <2>5, <3>1 DEF PipeInv, PagesOwned
  <2>9. ReadyMatches(p)'
    <3>1. ASSUME NEW c \in Chip PROVE ~(Waiting(c)' /\ Working(c)'.tag = wdataRdy)
      BY <1>1, <2>1, <3>1 DEF Waiting, Working
    <3>2. ASSUME NEW i \in DOMAIN cmdOutQ' PROVE cmdOutQ'[i].busOp # "WRITE_CMD_DATA"
      <4>1. PICK n : n = i + 1
        OBVIOUS
      <4>2. n \in DOMAIN cmdOutQ /\ n # 1 /\ cmdOutQ'[i] = cmdOutQ[n]
        BY <1>1, <3>2, <4>1
      <4> QED BY <2>1, <4>2
    <3>3. wdataRdy # NoTag => ctrl[wdataRdy].asked
      BY DEF PipeInv, ReadyMatches
    <3> QED BY <1>1, <3>1, <3>2, <3>3 DEF ReadyMatches
  <2>10. DoneWriting(p)'
    <3>1. DoneKept(p, p) /\ AcksKept
      BY <1>1, UserSame
    <3> QED BY <1>1, <3>1, DoneSame DEF PipeInv
  <2> QED BY <2>7, <2>8, <2>9, <2>10 DEF PipeInv
<1> QED BY <1>3, <1>4

-----------------------------------------------------------------------------
\* The words in order, with what they are after a step.
LEMMA WritesAfter ==
  ASSUME NEW q, NEW e, NEW f, NEW b, NEW n, NEW k, NEW l,
         e = encodeQ', f = writePageBufFront', b = writePageBufBack',
         n = Written', k = InFront', l = InBack', Transfers', Fetches',
         Stream(e, q, n), Stream(f, q, k), Stream(b, q, l),
         l + Len(b) + ToFetch' = Len(q) * PageWords
  PROVE  WritesInOrder(q)'
BY DEF WritesInOrder, Stream, IsWord

\* What is in the buffers, by name.
LEMMA WritesNow ==
  ASSUME BusInv, UserTyped, NEW p \in Seq(Tag), WritesInOrder(p),
         NEW e, NEW f, NEW b, e = encodeQ, f = writePageBufFront, b = writePageBufBack,
         NEW n, NEW k, NEW l, n = Written, k = InFront, l = InBack
  PROVE  /\ e \in Seq(PageWord) /\ f \in Seq(PageWord) /\ b \in Seq(PageWord)
         /\ Len(e) \in Nat /\ Len(f) \in Nat /\ Len(b) \in Nat
         /\ n \in Nat /\ k \in Nat /\ l \in Nat /\ k = n + Len(e) /\ l = k + Len(f)
         /\ Stream(e, p, n) /\ Stream(f, p, k) /\ Stream(b, p, l)
         /\ ToFetch \in Nat /\ Len(p) * PageWords \in Nat /\ PageWords \in Nat \ {0}
         /\ l + Len(b) + ToFetch = Len(p) * PageWords /\ Len(p) \in Nat
<1>1. /\ e \in Seq(PageWord) /\ f \in Seq(PageWord) /\ b \in Seq(PageWord)
      /\ Len(e) \in Nat /\ Len(f) \in Nat /\ Len(b) \in Nat
      /\ n \in Nat /\ k \in Nat /\ l \in Nat /\ ToFetch \in Nat /\ PageWords \in Nat \ {0}
  BY PageTypes
<1>2. k = n + Len(e) /\ l = k + Len(f)
  BY DEF InFront, InBack
<1>3. Stream(e, p, n) /\ Stream(f, p, k) /\ Stream(b, p, l)
      /\ l + Len(b) + ToFetch = Len(p) * PageWords
  BY DEF WritesInOrder
<1>4. Len(p) \in Nat
  OBVIOUS
<1>5. Len(p) * PageWords \in Nat
  BY <1>4, Pages
<1> QED BY <1>1, <1>2, <1>3, <1>4, <1>5

\* Nothing but words moves.
LEMMA WordsMove ==
  ASSUME NEW p \in Seq(Tag), PipeInv(p), UNCHANGED <<chipQs, chipStages, chipBusy, cmdOutQ, wdataRdy>>,
         UNCHANGED <<ctrl, ackQ, writeFetchSt, writeWordCnt>>,
         \A c \in Chip : Starting(c) => Starting(c)',
         Writing' => Writing /\ cmdTagR' = cmdTagR,
         NextKept(p, p), WritesInOrder(p)'
  PROVE  PipeInv(p)'
<1>1. ProgKept /\ WaitKept /\ DataCmdsKept
  BY ChipsGoOn
<1>2. DoneKept(p, p) /\ AskedLess(p) /\ AcksKept
  BY UserSame DEF PipeInv
<1>3. PagesOwned(p)'
  BY <1>2, OwnedSame DEF PipeInv
<1>4. ReadyMatches(p)'
  BY <1>1, ReadySame DEF PipeInv, ReadyMatches
<1>5. DoneWriting(p)'
  BY <1>1, <1>2, DoneSame DEF PipeInv
<1> QED BY <1>3, <1>4, <1>5 DEF PipeInv

\* A word is written to the chip, not the last one of its page.
LEMMA BurstPipe ==
  ASSUME BusInv, UserTyped, NEW p \in Seq(Tag), PipeInv(p), DoWritePageData,
         dataCnt # PageWords - 1, UNCHANGED <<bufVars, ctrl>>
  PROVE  PipeInv(p)'
<1>0. PICK e, f, b, n, k, l : /\ e = encodeQ /\ f = writePageBufFront /\ b = writePageBufBack
                              /\ n = Written /\ k = InFront /\ l = InBack
  OBVIOUS
<1>1. /\ state = "WRITE_PAGE" /\ state' = "WRITE_PAGE" /\ e # << >> /\ encodeQ' = Tail(e)
      /\ dataCnt' = dataCnt + 1
      /\ UNCHANGED <<chipQs, chipStages, chipBusy, cmdOutQ, wdataRdy, ackQ, chipR, cmdTagR,
                     wrDataTransReqQ>>
      /\ UNCHANGED <<writePageBufFront, writePageBufBack, writeWordCnt, writeFetchSt, wrState, wdataCnt>>
  BY <1>0 DEF DoWritePageData, sbVars, bufVars
<1>2. /\ e \in Seq(PageWord) /\ Len(e) \in Nat /\ Len(f) \in Nat
      /\ n \in Nat /\ k \in Nat /\ l \in Nat /\ k = n + Len(e) /\ l = k + Len(f)
      /\ Stream(e, p, n) /\ Stream(f, p, k) /\ Stream(b, p, l)
      /\ l + Len(b) + ToFetch = Len(p) * PageWords
  BY <1>0, WritesNow DEF PipeInv
<1>3. /\ Stream(Tail(e), p, n + 1) /\ Len(Tail(e)) = Len(e) - 1
  BY <1>1, <1>2, StreamTail
<1>4. Writing /\ Writing' /\ (Moving' <=> Moving) /\ (Fetching' <=> Fetching)
  BY <1>1 DEF Writing, Moving, Fetching
<1>5. dataCnt \in Nat
  BY PageTypes
<1>6. Written' = n + 1 /\ ToFetch' = ToFetch
  BY <1>0, <1>1, <1>4 DEF Written, ToFetch
<1>7. InFront' = k
  <2>1. InFront' = Written' + Len(encodeQ')
    BY DEF InFront
  <2> QED BY <1>1, <1>2, <1>3, <1>6, <2>1
<1>8. InBack' = l
  <2>1. InBack' = InFront' + Len(writePageBufFront')
    BY DEF InBack
  <2> QED BY <1>0, <1>1, <1>2, <1>7, <2>1
<1>9. dataCnt' + Len(encodeQ') = dataCnt + Len(encodeQ)
  BY <1>0, <1>1, <1>2, <1>3, <1>5
<1>10. Transfers' /\ Fetches'
  <2>1. Transfers /\ Fetches
    BY DEF PipeInv, WritesInOrder
  <2>2. Fetches'
    BY <1>1, <1>4, <2>1 DEF Fetches
  <2>3. \/ wrDataTransReqQ = << >> /\ Moving /\ dataCnt + Len(encodeQ) = wdataCnt
        \/ AllMoved /\ dataCnt + Len(encodeQ) = PageWords
    BY <1>0, <1>1, <1>4, <2>1 DEF Transfers
  <2>4. AllMoved' <=> AllMoved
    BY <1>1, <1>4 DEF AllMoved
  <2>5. \/ wrDataTransReqQ' = << >> /\ Moving' /\ dataCnt' + Len(encodeQ') = wdataCnt'
        \/ AllMoved' /\ dataCnt' + Len(encodeQ') = PageWords
    BY <1>1, <1>4, <1>9, <2>3, <2>4
  <2> QED BY <1>4, <2>2, <2>5 DEF Transfers
<1>11. WritesInOrder(p)'
  <2>1. PICK ee, nn : ee = Tail(e) /\ nn = n + 1
    OBVIOUS
  <2>2. ee = encodeQ' /\ f = writePageBufFront' /\ b = writePageBufBack' /\ nn = Written'
        /\ k = InFront' /\ l = InBack' /\ Stream(ee, p, nn)
        /\ l + Len(b) + ToFetch' = Len(p) * PageWords
    BY <1>0, <1>1, <1>2, <1>3, <1>6, <1>7, <1>8, <2>1
  <2> QED BY <1>2, <1>10, <2>2, WritesAfter
<1>12. NextKept(p, p)
  <2>1. AllMoved' <=> AllMoved
    BY <1>1, <1>4 DEF AllMoved
  <2> QED BY <1>4, <2>1, NextSame
<1>13. \A c \in Chip : Starting(c) => Starting(c)'
  BY <1>1 DEF Starting
<1> QED BY <1>1, <1>4, <1>11, <1>12, <1>13, WordsMove DEF bufVars

\* A word goes from one buffer to the other.
LEMMA BufferPipe ==
  ASSUME BusInv, UserTyped, NEW p \in Seq(Tag), PipeInv(p), DoWriteBufTransfer
  PROVE  PipeInv(p)'
<1>0. PICK e, f, b, n, k, l : /\ e = encodeQ /\ f = writePageBufFront /\ b = writePageBufBack
                              /\ n = Written /\ k = InFront /\ l = InBack
  OBVIOUS
<1>1. /\ b # << >> /\ writePageBufFront' = Append(f, Head(b)) /\ writePageBufBack' = Tail(b)
      /\ UNCHANGED <<chipQs, chipStages, chipBusy, cmdOutQ, wdataRdy, ackQ, state, chipR, cmdTagR,
                     dataCnt, wrDataTransReqQ, encodeQ, ctrl, writeWordCnt, writeFetchSt, wrState, wdataCnt>>
  BY <1>0 DEF DoWriteBufTransfer, sbVars, busVars, ctlVars, wrVars
<1>2. /\ f \in Seq(PageWord) /\ b \in Seq(PageWord) /\ Len(f) \in Nat /\ Len(b) \in Nat
      /\ n \in Nat /\ k \in Nat /\ l \in Nat /\ l = k + Len(f)
      /\ Stream(e, p, n) /\ Stream(f, p, k) /\ Stream(b, p, l) /\ ToFetch \in Nat
      /\ l + Len(b) + ToFetch = Len(p) * PageWords
  BY <1>0, WritesNow DEF PipeInv
<1>3. /\ Stream(Tail(b), p, l + 1) /\ Len(Tail(b)) = Len(b) - 1
      /\ Head(b) \in PageWord /\ IsWord(Head(b), p, l)
  BY <1>1, <1>2, StreamTail
<1>4. Stream(Append(f, Head(b)), p, k) /\ Len(Append(f, Head(b))) = Len(f) + 1
  <2>1. PICK w : w = Head(b)
    OBVIOUS
  <2>2. w \in PageWord /\ IsWord(w, p, k + Len(f))
    BY <1>2, <1>3, <2>1
  <2> QED BY <1>2, <2>1, <2>2, StreamAppend
<1>5. /\ Writing' <=> Writing
      /\ Moving' <=> Moving
      /\ Fetching' <=> Fetching
      /\ AllMoved' <=> AllMoved
  BY <1>1 DEF Writing, Moving, Fetching, AllMoved
<1>6. Written' = n /\ ToFetch' = ToFetch
  BY <1>0, <1>1, <1>5 DEF Written, ToFetch
<1>7. InFront' = k
  BY <1>0, <1>1, <1>6 DEF InFront
<1>8. InBack' = l + 1
  <2>1. InBack' = InFront' + Len(writePageBufFront')
    BY DEF InBack
  <2> QED BY <1>1, <1>2, <1>4, <1>7, <2>1
<1>9. Transfers' /\ Fetches'
  <2>1. Transfers /\ Fetches
    BY DEF PipeInv, WritesInOrder
  <2> QED BY <1>1, <1>5, <2>1 DEF Transfers, Fetches
<1>10. WritesInOrder(p)'
  <2>1. PICK ff, bb, ll : ff = Append(f, Head(b)) /\ bb = Tail(b) /\ ll = l + 1
    OBVIOUS
  <2>2. e = encodeQ' /\ ff = writePageBufFront' /\ bb = writePageBufBack' /\ n = Written'
        /\ k = InFront' /\ ll = InBack' /\ Stream(ff, p, k) /\ Stream(bb, p, ll)
    BY <1>0, <1>1, <1>3, <1>4, <1>6, <1>7, <1>8, <2>1
  <2>3. ll + Len(bb) = l + Len(b)
    <3>1. Len(bb) = Len(b) - 1 /\ ll = l + 1 /\ Len(b) \in Nat /\ l \in Nat
      BY <1>2, <1>3, <2>1
    <3>2. PICK x, y : x = Len(bb) /\ y = Len(b)
      OBVIOUS
    <3>3. x = y - 1 /\ ll = l + 1 /\ y \in Nat /\ l \in Nat
      BY <3>1, <3>2
    <3>4. ll + x = l + y
      BY <3>3
    <3> QED BY <3>2, <3>4
  <2>4. ll + Len(bb) + ToFetch' = Len(p) * PageWords
    BY <1>2, <1>6, <2>3
  <2> QED BY <1>2, <1>9, <2>2, <2>4, WritesAfter
<1>11. NextKept(p, p)
  BY <1>5, NextSame
<1>12. \A c \in Chip : Starting(c) => Starting(c)'
  BY <1>1 DEF Starting
<1> QED BY <1>1, <1>5, <1>10, <1>11, <1>12, WordsMove

\* The bus asks for the page that is next, which is in the front buffer.
LEMMA TransferReqPipe ==
  ASSUME BusInv, UserTyped, NEW p \in Seq(Tag), PipeInv(p), DoWriteDataTransferReq
  PROVE  PipeInv(p)'
<1>1. /\ wrDataTransReqQ # << >> /\ wrDataTransReqQ' = Tail(wrDataTransReqQ)
      /\ wrState' = 1 /\ wdataCnt' = 0
      /\ UNCHANGED <<chipQs, chipStages, chipBusy, cmdOutQ, wdataRdy, ackQ, state, chipR, cmdTagR,
                     dataCnt, encodeQ, ctrl, writePageBufFront, writePageBufBack, writeWordCnt,
                     writeFetchSt>>
  BY DEF DoWriteDataTransferReq, BusWriteDataTransferReq, sbVars, ctlVars
<1>2. Transfers /\ Fetches
  BY DEF PipeInv, WritesInOrder
<1>3. Writing /\ wrDataTransReqQ = <<1>> /\ dataCnt = 0 /\ encodeQ = << >> /\ ~AllMoved
  BY <1>1, <1>2 DEF Transfers, AllMoved
<1>4. wrDataTransReqQ' = << >>
  BY <1>1, <1>3, OneQueueOnly
<1>5. Writing' /\ (Fetching' <=> Fetching)
  BY <1>1, <1>3 DEF Writing, Fetching
<1>6. Moving'
  BY <1>1, PageTypes DEF Moving
<1>7. Transfers' /\ Fetches'
  <2>1. dataCnt' + Len(encodeQ') = wdataCnt'
    BY <1>1, <1>3
  <2>2. Transfers'
    BY <1>4, <1>5, <1>6, <2>1 DEF Transfers
  <2> QED BY <1>1, <1>2, <1>5, <2>2 DEF Fetches
<1>8. Written' = Written /\ ToFetch' = ToFetch
  BY <1>1, <1>3, <1>5 DEF Written, ToFetch
<1>9. InFront' = InFront /\ InBack' = InBack
  BY <1>1, <1>8 DEF InFront, InBack
<1>10. WritesInOrder(p)'
  BY <1>1, <1>7, <1>8, <1>9 DEF PipeInv, WritesInOrder, Stream, IsWord
<1>11. NextKept(p, p)
  BY <1>3 DEF NextKept, IsNext
<1>12. \A c \in Chip : Starting(c) => Starting(c)'
  BY <1>1 DEF Starting
<1> QED BY <1>1, <1>3, <1>10, <1>11, <1>12, WordsMove

\* A word of that page goes to the bus, or all of it is there.
LEMMA TransferPipe ==
  ASSUME BusInv, UserTyped, NEW p \in Seq(Tag), PipeInv(p), DoWriteDataTransferToBus
  PROVE  PipeInv(p)'
<1>0. PICK e, f, b, n, k, l : /\ e = encodeQ /\ f = writePageBufFront /\ b = writePageBufBack
                              /\ n = Written /\ k = InFront /\ l = InBack
  OBVIOUS
<1>1. /\ wrState = 1
      /\ UNCHANGED <<chipQs, chipStages, chipBusy, cmdOutQ, wdataRdy, ackQ, state, chipR, cmdTagR,
                     dataCnt, wrDataTransReqQ, ctrl, writePageBufBack, writeWordCnt, writeFetchSt>>
      /\ wdataCnt < PageWords =>
           /\ f # << >> /\ encodeQ' = Append(e, Head(f)) /\ writePageBufFront' = Tail(f)
           /\ wdataCnt' = wdataCnt + 1 /\ wrState' = wrState
      /\ ~(wdataCnt < PageWords) => wrState' = 0 /\ UNCHANGED <<encodeQ, writePageBufFront, wdataCnt>>
  BY <1>0 DEF DoWriteDataTransferToBus, BusWriteWord, sbVars, busVars, ctlVars, wrVars
<1>2. \A c \in Chip : Starting(c) => Starting(c)'
  BY <1>1 DEF Starting
<1>3. (Writing' <=> Writing) /\ (Fetching' <=> Fetching)
  BY <1>1 DEF Writing, Fetching
<1>4. wdataCnt \in Nat /\ wdataCnt <= PageWords /\ PageWords \in Nat \ {0}
  BY PageTypes
<1>5. CASE ~(wdataCnt < PageWords)
  <2>1. ~Moving /\ ~Moving'
    BY <1>1, <1>5 DEF Moving
  <2>2. NextKept(p, p)
    BY <1>1, <1>3, <2>1, NextSame DEF AllMoved
  <2>3. WritesInOrder(p)'
    BY <1>1, <1>3, <1>5, <2>1, DataSame DEF PipeInv
  <2> QED BY <1>1, <1>2, <1>3, <2>2, <2>3, WordsMove
<1>6. CASE wdataCnt < PageWords
  <2>1. Transfers /\ Fetches /\ Moving
    BY <1>1, <1>6 DEF PipeInv, WritesInOrder, Moving
  <2>2. Writing /\ wrDataTransReqQ = << >> /\ dataCnt + Len(e) = wdataCnt /\ ~AllMoved
    BY <1>0, <2>1 DEF Transfers, AllMoved
  <2>3. /\ e \in Seq(PageWord) /\ f \in Seq(PageWord) /\ Len(e) \in Nat /\ Len(f) \in Nat
        /\ Len(b) \in Nat
        /\ n \in Nat /\ k \in Nat /\ l \in Nat /\ k = n + Len(e) /\ l = k + Len(f)
        /\ Stream(e, p, n) /\ Stream(f, p, k) /\ Stream(b, p, l) /\ ToFetch \in Nat
        /\ l + Len(b) + ToFetch = Len(p) * PageWords
    BY <1>0, WritesNow DEF PipeInv
  <2>4. /\ Stream(Tail(f), p, k + 1) /\ Len(Tail(f)) = Len(f) - 1
        /\ Head(f) \in PageWord /\ IsWord(Head(f), p, k)
    BY <1>1, <1>6, <2>3, StreamTail
  <2>5. Stream(Append(e, Head(f)), p, n) /\ Len(Append(e, Head(f))) = Len(e) + 1
    <3>1. PICK w : w = Head(f)
      OBVIOUS
    <3>2. w \in PageWord /\ IsWord(w, p, n + Len(e))
      BY <2>3, <2>4, <3>1
    <3> QED BY <2>3, <3>1, <3>2, StreamAppend
  <2>6. Written' = n /\ ToFetch' = ToFetch
    BY <1>0, <1>1, <1>3 DEF Written, ToFetch
  <2>7. InFront' = k + 1
    <3>1. InFront' = Written' + Len(encodeQ')
      BY DEF InFront
    <3> QED BY SMTT(30), <1>1, <1>6, <2>3, <2>5, <2>6, <3>1
  <2>8. InBack' = l
    <3>1. InBack' = InFront' + Len(writePageBufFront')
      BY DEF InBack
    <3> QED BY SMTT(30), <1>1, <1>6, <2>3, <2>4, <2>7, <3>1
  <2>9. dataCnt' + Len(encodeQ') = wdataCnt + 1
    <3>1. dataCnt \in Nat
      BY PageTypes
    <3>2. PICK x, y : x = Len(encodeQ') /\ y = Len(e)
      OBVIOUS
    <3>3. x = y + 1 /\ dataCnt' = dataCnt /\ dataCnt + y = wdataCnt /\ y \in Nat
      BY <1>1, <1>6, <2>2, <2>3, <2>5, <3>2
    <3>4. dataCnt + x = wdataCnt + 1
      BY <1>4, <3>1, <3>3
    <3> QED BY <3>2, <3>3, <3>4
  <2>10. Transfers' /\ Fetches'
    <3>1. Fetches'
      BY <1>1, <1>3, <2>1 DEF Fetches
    <3>2. CASE wdataCnt + 1 < PageWords
      <4>1. Moving'
        BY <1>1, <1>6, <3>2 DEF Moving
      <4>2. wrDataTransReqQ' = << >> /\ dataCnt' + Len(encodeQ') = wdataCnt'
        BY <1>1, <1>6, <2>2, <2>9
      <4> QED BY <1>3, <2>2, <3>1, <4>1, <4>2 DEF Transfers
    <3>3. CASE wdataCnt + 1 = PageWords
      <4>1. ~Moving'
        BY <1>1, <1>4, <1>6, <3>3 DEF Moving
      <4>2. AllMoved'
        BY <1>1, <2>2, <4>1 DEF AllMoved
      <4> QED BY <1>3, <2>2, <2>9, <3>1, <3>3, <4>2 DEF Transfers
    <3> QED BY <1>4, <1>6, <3>2, <3>3
  <2>11. WritesInOrder(p)'
    <3>1. PICK ee, ff, kk : ee = Append(e, Head(f)) /\ ff = Tail(f) /\ kk = k + 1
      OBVIOUS
    <3>2. ee = encodeQ' /\ ff = writePageBufFront' /\ b = writePageBufBack' /\ n = Written'
          /\ kk = InFront' /\ l = InBack' /\ Stream(ee, p, n) /\ Stream(ff, p, kk)
          /\ l + Len(b) + ToFetch' = Len(p) * PageWords
      BY <1>0, <1>1, <1>6, <2>3, <2>4, <2>5, <2>6, <2>7, <2>8, <3>1
    <3> QED BY <2>3, <2>10, <3>2, WritesAfter
  <2>12. NextKept(p, p)
    BY <2>2 DEF NextKept, IsNext
  <2> QED BY <1>1, <1>2, <1>3, <2>11, <2>12, WordsMove
<1> QED BY <1>5, <1>6

-----------------------------------------------------------------------------
\* The last word of a page is written to the chip: all the other words are of
\* the pages after it.
LEMMA LastWord ==
  ASSUME BusInv, UserTyped, NEW p \in Seq(Tag), PipeInv(p), DoWritePageData,
         dataCnt = PageWords - 1, UNCHANGED <<bufVars, ctrl>>
  PROVE  /\ WritesInOrder(Tail(p))' /\ p # << >> /\ p[1] = cmdTagR /\ AllMoved
         /\ Fetching => Len(p) > 1
<1>0. PICK e, f, b, n, k, l : /\ e = encodeQ /\ f = writePageBufFront /\ b = writePageBufBack
                              /\ n = Written /\ k = InFront /\ l = InBack
  OBVIOUS
<1>1. /\ state = "WRITE_PAGE" /\ state' = "IDLE" /\ e # << >> /\ encodeQ' = Tail(e)
      /\ UNCHANGED <<wrDataTransReqQ, writePageBufFront, writePageBufBack>>
      /\ UNCHANGED <<writeWordCnt, writeFetchSt, wrState, wdataCnt>>
  BY <1>0 DEF DoWritePageData, bufVars
<1>2. /\ e \in Seq(PageWord) /\ f \in Seq(PageWord) /\ b \in Seq(PageWord)
      /\ Len(e) \in Nat /\ Len(f) \in Nat /\ Len(b) \in Nat
      /\ n \in Nat /\ k \in Nat /\ l \in Nat /\ k = n + Len(e) /\ l = k + Len(f)
      /\ Stream(f, p, k) /\ Stream(b, p, l)
      /\ l + Len(b) + ToFetch = Len(p) * PageWords /\ Len(p) \in Nat /\ ToFetch \in Nat
      /\ PageWords \in Nat \ {0}
  BY <1>0, WritesNow DEF PipeInv
<1>3. Writing /\ ~Writing' /\ (Moving' <=> Moving) /\ (Fetching' <=> Fetching)
  BY <1>1 DEF Writing, Moving, Fetching
<1>4. p # << >> /\ p[1] = cmdTagR /\ n = PageWords - 1
  BY <1>0, <1>3 DEF PipeInv, PagesOwned, Written
<1>5. Transfers /\ Fetches
  BY DEF PipeInv, WritesInOrder
<1>6. Len(e) > 0
  BY <1>1, <1>2
<1>7. AllMoved /\ Len(e) = 1
  <2>1. wrDataTransReqQ = << >> /\ wdataCnt \in Nat
    <3>1. wdataCnt \in Nat
      BY PageTypes
    <3>2. wrDataTransReqQ = << >>
      BY <1>0, <1>1, <1>3, <1>5 DEF Transfers, AllMoved
    <3> QED BY <3>1, <3>2
  <2>2. ~(Moving /\ dataCnt + Len(e) = wdataCnt)
    <3>1. SUFFICES ASSUME wdataCnt < PageWords, dataCnt + Len(e) = wdataCnt PROVE FALSE
      BY DEF Moving
    <3> QED BY <1>2, <1>6, <2>1, <3>1
  <2>3. AllMoved /\ dataCnt + Len(e) = PageWords
    BY <1>0, <1>1, <1>3, <1>5, <2>2 DEF Transfers
  <2>4. Len(e) = 1
    <3>1. PICK x, y, w : x = Len(e) /\ y = dataCnt /\ w = PageWords
      OBVIOUS
    <3>2. x \in Nat /\ y = w - 1 /\ w \in Nat /\ y + x = w
      BY <1>2, <2>3, <3>1
    <3>3. x = 1
      BY <3>2
    <3> QED BY <3>1, <3>3
  <2> QED BY <2>3, <2>4
<1>8. encodeQ' = << >> /\ k = PageWords
  BY SMTT(30), <1>1, <1>2, <1>4, <1>7
<1>9. Written' = 0 /\ ToFetch' = ToFetch
  BY <1>1, <1>3 DEF Written, ToFetch
<1>10. InFront' = 0
  <2>1. InFront' = Written' + Len(encodeQ')
    BY DEF InFront
  <2> QED BY <1>8, <1>9, <2>1
<1>11. InBack' = Len(f)
  <2>1. InBack' = InFront' + Len(writePageBufFront')
    BY DEF InBack
  <2> QED BY <1>0, <1>1, <1>2, <1>10, <2>1
<1>12. Stream(f, Tail(p), 0) /\ Stream(b, Tail(p), Len(f))
  <2>1. PICK x : x = Len(f)
    OBVIOUS
  <2>2. k >= PageWords /\ l >= PageWords /\ k - PageWords = 0 /\ l - PageWords = x /\ k \in Nat /\ l \in Nat
    <3>1. x \in Nat /\ l = k + x /\ k = PageWords /\ k \in Nat /\ l \in Nat
      BY <1>2, <1>8, <2>1
    <3> QED BY <3>1
  <2>3. Stream(f, Tail(p), k - PageWords)
    BY <1>2, <2>2, StreamPages
  <2>4. Stream(b, Tail(p), l - PageWords)
    BY <1>2, <2>2, StreamPages
  <2> QED BY <2>1, <2>2, <2>3, <2>4
<1>13. PICK m \in Nat : m = Len(p) - 1 /\ Len(p) = m + 1
  <2>1. Len(p) \in Nat \ {0}
    BY <1>4
  <2>2. Len(p) - 1 \in Nat /\ Len(p) = (Len(p) - 1) + 1
    BY <2>1
  <2> QED BY <2>2
<1>14. PICK x, y, z, w, u : /\ x = Len(f) /\ y = Len(b) /\ z = ToFetch /\ w = m * PageWords
                            /\ u = Len(p) * PageWords
  OBVIOUS
<1>15. w \in Nat /\ u = w + PageWords /\ (m = 0 => w = 0)
  <2>1. m * PageWords \in Nat /\ (m + 1) * PageWords = m * PageWords + PageWords
    BY Pages
  <2>2. m = 0 => m * PageWords = 0
    BY <1>2
  <2> QED BY <1>13, <1>14, <2>1, <2>2
<1>16. /\ x \in Nat /\ y \in Nat /\ z \in Nat /\ l = PageWords + x /\ l + y + z = u
  BY <1>2, <1>8, <1>14
<1>17. x + y + z = w
  BY <1>2, <1>15, <1>16
<1>18. Len(Tail(p)) * PageWords = w
  <2>1. Len(Tail(p)) = m
    BY <1>4, <1>13
  <2> QED BY <1>14, <2>1
<1>19. Transfers' /\ Fetches'
  <2>1. Fetches'
    BY <1>1, <1>3, <1>5 DEF Fetches
  <2> QED BY <1>1, <1>3, <1>7, <1>8, <2>1 DEF Transfers, AllMoved
<1>20. WritesInOrder(Tail(p))'
  <2>1. PICK q, ee, i, j : q = Tail(p) /\ ee = << >> /\ i = 0 /\ j = Len(f)
    OBVIOUS
  <2>2. /\ ee = encodeQ' /\ f = writePageBufFront' /\ b = writePageBufBack' /\ i = Written'
        /\ i = InFront' /\ j = InBack' /\ Stream(ee, q, i) /\ Stream(f, q, i) /\ Stream(b, q, j)
    BY <1>0, <1>1, <1>8, <1>9, <1>10, <1>11, <1>12, <2>1, StreamEmpty
  <2>3. j + Len(b) + ToFetch' = Len(q) * PageWords
    BY <1>9, <1>14, <1>17, <1>18, <2>1
  <2>4. WritesInOrder(q)'
    BY <1>19, <2>2, <2>3, WritesAfter
  <2> QED BY <2>1, <2>4 DEF WritesInOrder, Stream, IsWord
<1>21. Fetching => Len(p) > 1
  <2>1. Fetching => z > 0
    <3>1. writeWordCnt \in Nat /\ writeWordCnt <= PageWords - 1
      BY PageTypes
    <3>2. Fetching => z = PageWords - writeWordCnt
      BY <1>14 DEF ToFetch
    <3> QED BY <1>2, <3>1, <3>2
  <2>2. Fetching => w > 0
    BY <1>15, <1>16, <1>17, <2>1
  <2> QED BY <1>13, <1>15, <2>2
<1> QED BY <1>4, <1>7, <1>20, <1>21

\* So the page is done with: its command may be acked.
LEMMA LastWordPipe ==
  ASSUME BusInv, UserTyped, NEW p \in Seq(Tag), PipeInv(p), DoWritePageData,
         dataCnt = PageWords - 1, UNCHANGED <<bufVars, ctrl>>
  PROVE  PipeInv(Tail(p))'
<1>0. PICK q : q = Tail(p)
  OBVIOUS
<1>1. WritesInOrder(q)' /\ p # << >> /\ p[1] = cmdTagR /\ AllMoved /\ (Fetching => Len(p) > 1)
  <2>1. WritesInOrder(Tail(p))'
    BY LastWord
  <2> QED BY <1>0, <2>1, LastWord DEF WritesInOrder, Stream, IsWord
<1>2. /\ state = "WRITE_PAGE" /\ state' = "IDLE" /\ UNCHANGED <<cmdTagR, chipR, ackQ, ctrl, wdataRdy>>
      /\ UNCHANGED <<chipQs, chipStages, chipBusy, cmdOutQ, writeWordCnt, writeFetchSt>>
  BY DEF DoWritePageData, sbVars, bufVars
<1>3. Writing /\ ~Writing' /\ (Fetching' <=> Fetching)
  BY <1>2 DEF Writing, Fetching
<1>4. /\ q \in Seq(Tag) /\ Len(q) = Len(p) - 1 /\ Len(p) \in Nat \ {0} /\ Len(p) \in DOMAIN p
      /\ 1 \in DOMAIN p
      /\ \A i \in DOMAIN q : i \in Nat \ {0} /\ i + 1 \in DOMAIN p /\ q[i] = p[i + 1]
  BY <1>0, <1>1, TailIs
<1>5. ASSUME NEW i \in DOMAIN q
      PROVE  \E j \in DOMAIN p : j # 1 /\ j = i + 1 /\ i \in Nat /\ p[j] = q[i]
  BY <1>4, <1>5
<1>6. PagesOwned(p) /\ ReadyMatches(p) /\ DoneWriting(p)
  BY DEF PipeInv
<1>7. Fetching => q # << >> /\ q[Len(q)] = p[Len(p)] /\ Len(p) # 1
  <2>1. ASSUME Fetching PROVE q # << >> /\ q[Len(q)] = p[Len(p)] /\ Len(p) # 1
    <3>1. Len(p) > 1
      BY <1>1, <2>1
    <3>2. Len(q) \in DOMAIN q
      BY <1>4, <3>1
    <3>3. PICK j \in DOMAIN p : j = Len(q) + 1 /\ p[j] = q[Len(q)]
      BY <1>5, <3>2
    <3>4. j = Len(p)
      BY <1>4, <3>3
    <3> QED BY <3>1, <3>2, <3>3, <3>4
  <2> QED BY <2>1
<1>8. \A i \in DOMAIN q : q[i] # cmdTagR
  BY <1>1, <1>4, <1>5, <1>6 DEF PagesOwned
<1>9. PagesOwned(q)'
  <2>1. ASSUME NEW i \in DOMAIN q, NEW j \in DOMAIN q, q[i] = q[j] PROVE i = j
    <3>1. PICK x \in DOMAIN p : x = i + 1 /\ i \in Nat /\ p[x] = q[i]
      BY <1>5, <2>1
    <3>2. PICK y \in DOMAIN p : y = j + 1 /\ j \in Nat /\ p[y] = q[j]
      BY <1>5, <2>1
    <3>3. x = y
      BY <1>6, <2>1, <3>1, <3>2 DEF PagesOwned
    <3> QED BY <3>1, <3>2, <3>3
  <2>2. \A i \in DOMAIN q : ctrl[q[i]].asked
    BY <1>5, <1>6 DEF PagesOwned
  <2>3. Fetching => ctrl[q[Len(q)]].cnt = writeWordCnt
    BY <1>6, <1>7 DEF PagesOwned
  <2>4. \A t \in Tag : ctrl[t].asked => ctrl[t].cnt = PageWords \/ (Fetching /\ t = q[Len(q)])
    BY <1>6, <1>7 DEF PagesOwned
  <2> QED BY <1>2, <1>3, <1>7, <2>1, <2>2, <2>3, <2>4 DEF PagesOwned
<1>10. Done(q, cmdTagR)
  <2>1. ctrl[cmdTagR].asked /\ cmdTagR \in Tag
    BY <1>1, <1>4, <1>6 DEF PagesOwned
  <2>2. Fetching => cmdTagR # p[Len(p)]
    BY <1>1, <1>4, <1>6, <1>7 DEF PagesOwned
  <2>3. ctrl[cmdTagR].cnt = PageWords
    BY <1>6, <2>1, <2>2 DEF PagesOwned
  <2> QED BY <1>8, <2>1, <2>3 DEF Done
<1>11. ASSUME NEW t, Done(p, t) PROVE Done(q, t)
  BY <1>5, <1>11 DEF Done
<1>12. ASSUME NEW t, Done(q, t) PROVE Done(q, t)'
  BY <1>2, <1>12 DEF Done
<1>13. \A c : /\ Working(c)' = Working(c)
              /\ StartQueued(c)' <=> StartQueued(c)
              /\ Finished(c)' <=> Finished(c)
              /\ Waiting(c)' <=> Waiting(c)
  BY <1>2 DEF Working, Finished, Waiting, StartQueued, Queued
<1>14. ReadyMatches(q)'
  <2>1. NextKept(p, q)
    <3>1. ASSUME NEW t, IsNext(p, t) PROVE IsNext(q, t)'
      <4>1. 2 \in DOMAIN p /\ t = p[2]
        BY <1>3, <3>1 DEF IsNext, NextPage
      <4>2. 1 \in DOMAIN q
        BY <1>4, <4>1
      <4>3. PICK j \in DOMAIN p : j = 1 + 1 /\ p[j] = q[1]
        BY <1>5, <4>2
      <4>4. q[1] = t
        BY <4>1, <4>3
      <4> QED BY <1>3, <4>2, <4>4 DEF IsNext, NextPage
    <3> QED BY <3>1 DEF NextKept
  <2>2. WaitKept /\ DataCmdsKept
    BY <1>2, <1>13 DEF WaitKept, DataCmdsKept
  <2>3. wdataRdy # NoTag => ctrl'[wdataRdy].asked
    BY <1>2, <1>6 DEF ReadyMatches
  <2> QED BY <1>2, <1>6, <2>1, <2>2, <2>3, ReadySame
<1>15. DoneWriting(q)'
  <2>1. ASSUME NEW c \in Chip, Programmed(c)' PROVE Done(q, Working(c).tag)'
    <3>1. PICK t : t = Working(c).tag
      OBVIOUS
    <3>2. Done(q, t)
      <4>1. CASE Starting(c)
        <5>1. c = chipR /\ cmdTagR = Working(chipR).tag
          BY <1>2, <4>1 DEF Starting, BusInv, Protocol, BusCmdsBelong, StartStates
        <5> QED BY <1>10, <3>1, <5>1
      <4>2. CASE ~Starting(c)
        <5>1. Programmed(c)
          BY <1>2, <1>13, <2>1, <4>2 DEF Programmed
        <5> QED BY <1>6, <1>11, <3>1, <5>1 DEF DoneWriting
      <4> QED BY <4>1, <4>2
    <3>3. Done(q, t)' /\ Working(c)'.tag = t
      BY <1>12, <1>13, <3>1, <3>2
    <3> QED BY <3>3 DEF Done
  <2>2. ASSUME NEW i \in DOMAIN ackQ', ctrl'[ackQ'[i]].op = "WRITE_PAGE" PROVE Done(q, ackQ[i])'
    <3>1. PICK t : t = ackQ[i]
      OBVIOUS
    <3>2. Done(q, t)
      BY <1>2, <1>6, <1>11, <2>2, <3>1 DEF DoneWriting
    <3>3. Done(q, t)' /\ ackQ'[i] = t
      BY <1>2, <1>12, <3>1, <3>2
    <3> QED BY <3>3 DEF Done
  <2> QED BY <2>1, <2>2 DEF DoneWriting
<1>16. PipeInv(q)'
  BY <1>1, <1>9, <1>14, <1>15 DEF PipeInv
<1> QED BY <1>0, <1>16

-----------------------------------------------------------------------------
\* A step of the user or of the buffers that the chips do not see.
LEMMA ChipsUnaware ==
  ASSUME NEW p, NEW q, PipeInv(p),
         UNCHANGED <<chipQs, chipStages, chipBusy, cmdOutQ, wdataRdy, ackQ, state, chipR>>,
         \A i \in DOMAIN ackQ : ctrl'[ackQ[i]].op = ctrl[ackQ[i]].op,
         wdataRdy # NoTag => ctrl'[wdataRdy].asked,
         NextKept(p, q), DoneKept(p, q), WritesInOrder(q)', PagesOwned(q)'
  PROVE  PipeInv(q)'
<1>1. \A c \in Chip : Starting(c) => Starting(c)'
  BY DEF Starting
<1>2. ProgKept /\ WaitKept /\ DataCmdsKept
  BY <1>1, ChipsGoOn
<1>3. AcksKept
  BY DEF AcksKept
<1>4. ReadyMatches(q)'
  BY <1>2, ReadySame DEF PipeInv
<1>5. DoneWriting(q)'
  BY <1>2, <1>3, DoneSame DEF PipeInv
<1> QED BY <1>4, <1>5 DEF PipeInv

\* A page is asked for.
LEMMA AskPipe ==
  ASSUME BusInv, UserTyped, PlaceInv, UserCounts, AskedOnce, NEW p \in Seq(Tag), PipeInv(p),
         DoHandleWriteDataReq
  PROVE  \E q \in Seq(Tag) : PipeInv(q)'
<1>0. PICK t, q, e, f, b, n, k, l : /\ t = wrDataBufReqQ[1] /\ q = Append(p, t)
         /\ e = encodeQ /\ f = writePageBufFront /\ b = writePageBufBack
         /\ n = Written /\ k = InFront /\ l = InBack
  OBVIOUS
<1>1. /\ t \in Tag /\ ctrl[t].op = "WRITE_PAGE" /\ ~ctrl[t].asked /\ ctrl[t].cnt = 0
      /\ ctrl'[t].op = "WRITE_PAGE" /\ ctrl'[t].asked /\ ctrl'[t].cnt = 0
      /\ \A s \in Tag : s # t => ctrl'[s] = ctrl[s]
      /\ b = << >> /\ writeWordCnt = 0 /\ writeFetchSt = 0 /\ writeFetchSt' = 1
  BY <1>0, AskFacts
<1>2. /\ UNCHANGED <<chipQs, chipStages, chipBusy, cmdOutQ, wdataRdy, ackQ, state, chipR, cmdTagR>>
      /\ UNCHANGED <<dataCnt, wrDataTransReqQ, encodeQ, writePageBufBack, writePageBufFront>>
      /\ UNCHANGED <<writeWordCnt, wrState, wdataCnt>>
  BY AskFacts DEF sbVars, ctlVars
<1>3. /\ ~Fetching /\ Fetching'
      /\ Writing' <=> Writing
      /\ Moving' <=> Moving
      /\ AllMoved' <=> AllMoved
  BY <1>1, <1>2 DEF Fetching, Writing, Moving, AllMoved
<1>4. /\ e \in Seq(PageWord) /\ f \in Seq(PageWord) /\ b \in Seq(PageWord)
      /\ n \in Nat /\ k \in Nat /\ l \in Nat /\ Len(b) \in Nat
      /\ Stream(e, p, n) /\ Stream(f, p, k) /\ Stream(b, p, l)
      /\ l + Len(b) + ToFetch = Len(p) * PageWords /\ Len(p) \in Nat
      /\ PageWords \in Nat \ {0}
  BY <1>0, WritesNow DEF PipeInv
<1>5. /\ q \in Seq(Tag) /\ Len(q) = Len(p) + 1 /\ q # << >> /\ Len(q) \in DOMAIN q /\ q[Len(q)] = t
      /\ \A i \in DOMAIN q : (i \in DOMAIN p /\ q[i] = p[i]) \/ (i = Len(p) + 1 /\ q[i] = t)
      /\ \A i \in DOMAIN p : i \in DOMAIN q /\ q[i] = p[i]
  BY <1>0, <1>1, AppendIs
<1>6. PagesOwned(p) /\ Transfers /\ Fetches
  BY DEF PipeInv, WritesInOrder
<1>7. \A i \in DOMAIN p : p[i] # t /\ p[i] \in Tag
  BY <1>1, <1>6 DEF PagesOwned
<1>8. Written' = n /\ ToFetch' = PageWords /\ ToFetch = 0
  BY <1>0, <1>1, <1>2, <1>3, <1>4 DEF Written, ToFetch
<1>9. InFront' = k
  BY <1>0, <1>2, <1>8 DEF InFront
<1>10. InBack' = l
  BY <1>0, <1>2, <1>9 DEF InBack
<1>11. WritesInOrder(q)'
  <2>1. Transfers' /\ Fetches'
    BY <1>1, <1>2, <1>3, <1>6 DEF Transfers, Fetches
  <2>2. Stream(e, q, n) /\ Stream(f, q, k) /\ Stream(b, q, l)
    BY <1>0, <1>1, <1>4, StreamPages
  <2>3. l + Len(b) + ToFetch' = Len(q) * PageWords
    <3>1. PICK y, u, v : y = Len(b) /\ u = Len(p) * PageWords /\ v = Len(q) * PageWords
      OBVIOUS
    <3>2. u \in Nat /\ v = u + PageWords
      <4>1. PICK m \in Nat : m = Len(p)
        BY <1>4
      <4>2. m * PageWords \in Nat /\ (m + 1) * PageWords = m * PageWords + PageWords
        BY <4>1, Pages
      <4> QED BY <1>5, <3>1, <4>1, <4>2
    <3>3. l + y = u /\ y \in Nat
      BY <1>4, <1>8, <3>1
    <3>4. l + y + PageWords = v
      BY <1>4, <3>2, <3>3
    <3> QED BY <1>8, <3>1, <3>4
  <2>4. e = encodeQ' /\ f = writePageBufFront' /\ b = writePageBufBack'
        /\ n = Written' /\ k = InFront' /\ l = InBack'
    BY <1>0, <1>2, <1>8, <1>9, <1>10
  <2> QED BY <2>1, <2>2, <2>3, <2>4, WritesAfter
<1>12. PagesOwned(q)'
  <2>1. \A i, j \in DOMAIN q : q[i] = q[j] => i = j
    BY <1>5, <1>6, <1>7 DEF PagesOwned
  <2>2. \A i \in DOMAIN q : ctrl'[q[i]].asked
    BY <1>1, <1>5, <1>6, <1>7 DEF PagesOwned
  <2>3. Writing' => q # << >> /\ q[1] = cmdTagR'
    <3>1. p # << >> => 1 \in DOMAIN p
      OBVIOUS
    <3> QED BY <1>2, <1>3, <1>5, <1>6, <3>1 DEF PagesOwned
  <2>4. q # << >> /\ ctrl'[q[Len(q)]].cnt = writeWordCnt'
    BY <1>1, <1>2, <1>5
  <2>5. \A s \in Tag : ctrl'[s].asked => ctrl'[s].cnt = PageWords \/ s = q[Len(q)]
    BY <1>1, <1>3, <1>5, <1>6 DEF PagesOwned
  <2> QED BY <1>3, <2>1, <2>2, <2>3, <2>4, <2>5 DEF PagesOwned
<1>13. NextKept(p, q)
  <2>1. NextPage' = NextPage
    BY <1>3 DEF NextPage
  <2> QED BY <1>3, <1>5, <2>1 DEF NextKept, IsNext
<1>14. DoneKept(p, q)
  <2>1. ASSUME NEW s, Done(p, s) PROVE Done(q, s)'
    <3>1. s \in Tag /\ s # t /\ ctrl'[s] = ctrl[s]
      BY <1>1, <2>1 DEF Done
    <3> QED BY <1>5, <2>1, <3>1 DEF Done
  <2> QED BY <2>1 DEF DoneKept
<1>15. \A i \in DOMAIN ackQ : ctrl'[ackQ[i]].op = ctrl[ackQ[i]].op
  <2>1. ASSUME NEW i \in DOMAIN ackQ PROVE ackQ[i] \in Tag
    BY <2>1 DEF UserTyped
  <2> QED BY <1>1, <2>1
<1>16. wdataRdy # NoTag => ctrl'[wdataRdy].asked
  BY <1>1 DEF PipeInv, ReadyMatches, BusInv, TypedInv, TypeOK
<1>17. PipeInv(q)'
  BY <1>2, <1>11, <1>12, <1>13, <1>14, <1>15, <1>16, ChipsUnaware
<1> QED BY <1>5, <1>17

\* The fetch of a page is about to end: its last word is still to come.
LEMMA FetchWaitPipe ==
  ASSUME BusInv, UserTyped, NEW p \in Seq(Tag), PipeInv(p), DoWriteFetchWait, PageWords > 1
  PROVE  PipeInv(p)'
<1>1. /\ writeWordCnt = PageWords - 1 /\ writeFetchSt = 1 /\ writeFetchSt' = 0
      /\ UNCHANGED <<chipQs, chipStages, chipBusy, cmdOutQ, wdataRdy, ackQ, state, chipR, cmdTagR>>
      /\ UNCHANGED <<dataCnt, wrDataTransReqQ, encodeQ, writePageBufBack, writePageBufFront>>
      /\ UNCHANGED <<writeWordCnt, wrState, wdataCnt, ctrl>>
  BY DEF DoWriteFetchWait, FetchEnds, sbVars, busVars, ctlVars, wrVars
<1>2. PageWords \in Nat
  BY PageTypes
<1>3. Fetching /\ Fetching' /\ (Writing' <=> Writing) /\ (Moving' <=> Moving)
  BY <1>1, <1>2 DEF Fetching, Writing, Moving
<1>4. AllMoved' <=> AllMoved
  BY <1>1, <1>3 DEF AllMoved
<1>5. Written' = Written /\ ToFetch' = ToFetch
  BY <1>1, <1>3 DEF Written, ToFetch
<1>6. InFront' = InFront /\ InBack' = InBack
  BY <1>1, <1>5 DEF InFront, InBack
<1>7. WritesInOrder(p)'
  <2>1. Transfers' /\ Fetches'
    BY <1>1, <1>3, <1>4 DEF PipeInv, WritesInOrder, Transfers, Fetches
  <2> QED BY <1>1, <1>5, <1>6, <2>1 DEF PipeInv, WritesInOrder, Stream, IsWord
<1>8. PagesOwned(p)'
  BY <1>1, <1>3 DEF PipeInv, PagesOwned
<1>9. NextKept(p, p)
  BY <1>3, <1>4, NextSame
<1>10. DoneKept(p, p)
  BY <1>1, UserSame
<1>11. wdataRdy # NoTag => ctrl'[wdataRdy].asked
  BY <1>1 DEF PipeInv, ReadyMatches
<1> QED BY <1>1, <1>7, <1>8, <1>9, <1>10, <1>11, ChipsUnaware

-----------------------------------------------------------------------------
\* The user writes a word: it is the next one of the last page asked for.
LEMMA NextWord ==
  ASSUME BusInv, UserTyped, NEW p \in Seq(Tag), PipeInv(p), NEW t \in Tag, WriteWord(t)
  PROVE  /\ p # << >> /\ Fetching /\ t = p[Len(p)] /\ ctrl[t].cnt = writeWordCnt /\ ToFetch > 0
         /\ ToFetch = PageWords - writeWordCnt
         /\ writeWordCnt # PageWords - 1 => writeFetchSt = 1
         /\ writeWordCnt = PageWords - 1 => writeFetchSt = 0
         /\ Stream(Append(writePageBufBack, Word(t, writeWordCnt)), p, InBack)
         /\ Len(Append(writePageBufBack, Word(t, writeWordCnt))) = Len(writePageBufBack) + 1
<1>0. PICK b, l, j : b = writePageBufBack /\ l = InBack /\ j = writeWordCnt
  OBVIOUS
<1>1. ctrl[t].asked /\ ctrl[t].cnt < PageWords /\ ctrl[t].cnt \in Nat /\ ~FetchEnds
  BY WriteFacts DEF WriteWord
<1>2. p # << >> /\ Fetching /\ t = p[Len(p)] /\ ctrl[t].cnt = j
  BY <1>0, <1>1 DEF PipeInv, PagesOwned
<1>3. /\ j \in Nat /\ j <= PageWords - 1 /\ PageWords \in Nat \ {0} /\ writeFetchSt \in {0, 1}
  BY <1>0, PageTypes
<1>4. ToFetch = PageWords - j
  BY <1>0, <1>2 DEF ToFetch
<1>5. j # PageWords - 1 => writeFetchSt = 1
  BY <1>0, <1>2, <1>3 DEF PipeInv, WritesInOrder, Fetches
<1>6. j = PageWords - 1 => writeFetchSt = 0
  BY <1>0, <1>1, <1>3 DEF FetchEnds
<1>7. /\ b \in Seq(PageWord) /\ l \in Nat /\ Len(b) \in Nat /\ Stream(b, p, l)
      /\ l + Len(b) + ToFetch = Len(p) * PageWords /\ Len(p) * PageWords \in Nat
  BY <1>0, WritesNow DEF PipeInv
<1>8. PICK w, k, y, v : /\ w = Word(t, j) /\ k = l + Len(b) /\ y = Len(b)
                        /\ v = Len(p) * PageWords
  OBVIOUS
<1>9. w \in PageWord /\ w.tag = t /\ w.idx = j
  BY <1>3, <1>8 DEF Word, PageWord
<1>10. k \in Nat /\ k = v - (PageWords - j)
  <2>1. l + y + (PageWords - j) = v /\ l \in Nat /\ y \in Nat /\ v \in Nat /\ k = l + y
    BY <1>4, <1>7, <1>8
  <2> QED BY <1>3, <2>1
<1>11. IsWord(w, p, k)
  BY <1>2, <1>3, <1>8, <1>9, <1>10, LastPage
<1>12. Stream(Append(b, w), p, l) /\ Len(Append(b, w)) = Len(b) + 1
  BY <1>7, <1>8, <1>9, <1>11, StreamAppend
<1> QED BY <1>0, <1>2, <1>3, <1>4, <1>5, <1>6, <1>8, <1>12

\* So the pages stay in order, and a page has its words when its fetch ends.
LEMMA WriteWordPipe ==
  ASSUME BusInv, UserTyped, NEW p \in Seq(Tag), PipeInv(p), NEW t \in Tag, WriteWord(t)
  PROVE  PipeInv(p)'
<1>0. PICK e, f, b, n, k, l, j : /\ e = encodeQ /\ f = writePageBufFront /\ b = writePageBufBack
                              /\ n = Written /\ k = InFront /\ l = InBack /\ j = writeWordCnt
  OBVIOUS
<1>1. /\ p # << >> /\ Fetching /\ t = p[Len(p)] /\ ctrl[t].cnt = j /\ ToFetch = PageWords - j
      /\ j # PageWords - 1 => writeFetchSt = 1
      /\ j = PageWords - 1 => writeFetchSt = 0
      /\ Stream(Append(b, Word(t, j)), p, l) /\ Len(Append(b, Word(t, j))) = Len(b) + 1
  BY <1>0, NextWord
<1>2. /\ writePageBufBack' = Append(b, Word(t, j))
      /\ writeWordCnt' = IF j = PageWords - 1 THEN 0 ELSE j + 1
      /\ UNCHANGED <<chipQs, chipStages, chipBusy, cmdOutQ, wdataRdy, ackQ, state, chipR, cmdTagR>>
      /\ UNCHANGED <<dataCnt, wrDataTransReqQ, encodeQ, writePageBufFront>>
      /\ UNCHANGED <<writeFetchSt, wrState, wdataCnt>>
  BY <1>0, <1>1 DEF WriteWord, sbVars, busVars, ctlVars, wrVars
<1>3. /\ ctrl'[t].op = ctrl[t].op /\ ctrl'[t].asked /\ ctrl'[t].cnt = j + 1 /\ ctrl[t].asked
      /\ \A s \in Tag : s # t => ctrl'[s] = ctrl[s]
  BY <1>1, WriteFacts
<1>4. j \in Nat /\ j <= PageWords - 1 /\ PageWords \in Nat \ {0}
  BY <1>0, PageTypes
<1>5. /\ Writing' <=> Writing
      /\ Moving' <=> Moving
      /\ AllMoved' <=> AllMoved
  BY <1>2 DEF Writing, Moving, AllMoved
<1>6. Fetching' <=> j # PageWords - 1
  <2>1. CASE j = PageWords - 1
    BY <1>1, <1>2, <2>1 DEF Fetching
  <2>2. CASE j # PageWords - 1
    BY <1>1, <1>2, <2>2 DEF Fetching
  <2> QED BY <2>1, <2>2
<1>7. ToFetch' = PageWords - j - 1
  <2>1. CASE j = PageWords - 1
    BY <1>4, <1>6, <2>1 DEF ToFetch
  <2>2. CASE j # PageWords - 1
    <3>1. ToFetch' = PageWords - (j + 1)
      BY <1>2, <1>6, <2>2 DEF ToFetch
    <3> QED BY <1>4, <3>1
  <2> QED BY <2>1, <2>2
<1>8. Written' = n /\ InFront' = k /\ InBack' = l
  <2>1. Written' = n
    BY <1>0, <1>2, <1>5 DEF Written
  <2>2. InFront' = k
    BY <1>0, <1>2, <2>1 DEF InFront
  <2> QED BY <1>0, <1>2, <2>1, <2>2 DEF InBack
<1>9. WritesInOrder(p)'
  <2>1. Transfers' /\ Fetches'
    <3>1. Transfers'
      BY <1>2, <1>5 DEF PipeInv, WritesInOrder, Transfers
    <3>2. Fetches'
      BY <1>1, <1>2, <1>6 DEF Fetches
    <3> QED BY <3>1, <3>2
  <2>2. PICK bb : bb = Append(b, Word(t, j))
    OBVIOUS
  <2>3. /\ Stream(e, p, n) /\ Stream(f, p, k) /\ l + Len(b) + ToFetch = Len(p) * PageWords
        /\ l \in Nat /\ Len(b) \in Nat /\ Len(p) * PageWords \in Nat
    BY <1>0, WritesNow DEF PipeInv
  <2>4. l + Len(bb) + ToFetch' = Len(p) * PageWords
    <3>1. PICK x, y, u, z : x = Len(bb) /\ y = Len(b) /\ u = Len(p) * PageWords /\ z = ToFetch'
      OBVIOUS
    <3>2. x = y + 1 /\ y \in Nat /\ u \in Nat /\ l \in Nat /\ z = PageWords - j - 1
          /\ l + y + (PageWords - j) = u
      BY <1>1, <1>7, <2>2, <2>3, <3>1
    <3>3. l + x + z = u
      BY <1>4, <3>2
    <3> QED BY <3>1, <3>3
  <2>5. e = encodeQ' /\ f = writePageBufFront' /\ bb = writePageBufBack' /\ n = Written'
        /\ k = InFront' /\ l = InBack' /\ Stream(bb, p, l)
    BY <1>0, <1>1, <1>2, <1>8, <2>2
  <2> QED BY <2>1, <2>3, <2>4, <2>5, WritesAfter
<1>10. PagesOwned(p)'
  <2>1. \A i \in DOMAIN p : ctrl'[p[i]].asked
    <3>1. ASSUME NEW i \in DOMAIN p PROVE ctrl'[p[i]].asked
      <4>1. p[i] \in Tag /\ ctrl[p[i]].asked
        BY <3>1 DEF PipeInv, PagesOwned
      <4> QED BY <1>3, <4>1
    <3> QED BY <3>1
  <2>2. Fetching' => ctrl'[p[Len(p)]].cnt = writeWordCnt'
    BY <1>1, <1>2, <1>3, <1>6
  <2>3. \A s \in Tag : ctrl'[s].asked => ctrl'[s].cnt = PageWords \/ (Fetching' /\ s = p[Len(p)])
    <3>1. ASSUME NEW s \in Tag, s # t, ctrl'[s].asked PROVE ctrl'[s].cnt = PageWords
      <4>1. ctrl'[s] = ctrl[s]
        BY <1>3, <3>1
      <4> QED BY <1>1, <3>1, <4>1 DEF PipeInv, PagesOwned
    <3>2. ctrl'[t].cnt = PageWords \/ (Fetching' /\ t = p[Len(p)])
      <4>1. CASE j = PageWords - 1
        <5>1. j + 1 = PageWords
          BY <1>4, <4>1
        <5> QED BY <1>3, <5>1
      <4>2. CASE j # PageWords - 1
        BY <1>1, <1>6, <4>2
      <4> QED BY <4>1, <4>2
    <3> QED BY <3>1, <3>2
  <2>4. /\ \A i, r \in DOMAIN p : p[i] = p[r] => i = r
        /\ Writing => p # << >> /\ p[1] = cmdTagR
    BY DEF PipeInv, PagesOwned
  <2> QED BY <1>1, <1>2, <1>5, <2>1, <2>2, <2>3, <2>4 DEF PagesOwned
<1>11. NextKept(p, p)
  BY <1>5, NextSame
<1>12. DoneKept(p, p)
  <2>1. ASSUME NEW s, Done(p, s) PROVE Done(p, s)'
    <3>1. s \in Tag /\ ctrl[s].cnt = PageWords
      BY <2>1 DEF Done
    <3>2. s # t
      BY <1>1, <1>4, <3>1
    <3> QED BY <1>3, <2>1, <3>1, <3>2 DEF Done
  <2> QED BY <2>1 DEF DoneKept
<1>13. \A i \in DOMAIN ackQ : ctrl'[ackQ[i]].op = ctrl[ackQ[i]].op
  <2>1. ASSUME NEW i \in DOMAIN ackQ PROVE ackQ[i] \in Tag
    BY <2>1 DEF UserTyped
  <2> QED BY <1>3, <2>1
<1>14. wdataRdy # NoTag => ctrl'[wdataRdy].asked
  BY <1>3 DEF PipeInv, ReadyMatches, BusInv, TypedInv, TypeOK
<1> QED BY <1>2, <1>9, <1>10, <1>11, <1>12, <1>13, <1>14, ChipsUnaware

-----------------------------------------------------------------------------
\* The first word in the full front buffer is of the page that is next, or of
\* the page that is moved from it just now.
LEMMA FrontPage ==
  ASSUME BusInv, UserTyped, NEW p \in Seq(Tag), PipeInv(p), FrontFull,
         NEW t, t = Head(writePageBufFront).tag
  PROVE  /\ t \in Tag /\ \E i \in DOMAIN p : t = p[i]
         /\ IsNext(p, t) \/ (Writing /\ t = cmdTagR)
<1>0. PICK e, f, b, n, k, l : /\ e = encodeQ /\ f = writePageBufFront /\ b = writePageBufBack
                              /\ n = Written /\ k = InFront /\ l = InBack
  OBVIOUS
<1>1. /\ f \in Seq(PageWord) /\ n \in Nat /\ k \in Nat /\ k = n + Len(e) /\ Stream(f, p, k)
      /\ PageWords \in Nat \ {0} /\ Len(e) \in Nat
  BY <1>0, WritesNow DEF PipeInv
<1>2. f # << >>
  <2>1. Len(f) = PageWords
    BY <1>0 DEF FrontFull
  <2> QED BY <1>1, <2>1
<1>3. PICK w : w = Head(f)
  OBVIOUS
<1>4. IsWord(w, p, k) /\ w \in PageWord /\ w.tag = t
  BY <1>0, <1>1, <1>2, <1>3, StreamTail
<1>5. k < PageWords => 1 \in DOMAIN p /\ t = p[1]
  <2>1. k < PageWords => p # << >> /\ t = p[1]
    BY <1>1, <1>4, FirstPages
  <2>2. p # << >> => 1 \in DOMAIN p
    OBVIOUS
  <2> QED BY <2>1, <2>2
<1>6. k = PageWords => 2 \in DOMAIN p /\ t = p[2]
  <2>1. k = PageWords => PageWords <= k /\ k < 2 * PageWords
    BY <1>1
  <2> QED BY <1>1, <1>4, <2>1, FirstPages
<1>7. Transfers /\ PagesOwned(p)
  BY DEF PipeInv, WritesInOrder
<1>8. CASE ~Writing
  <2>1. k = 0
    <3>1. e = << >> /\ n = 0
      BY <1>0, <1>7, <1>8 DEF Transfers, Written
    <3> QED BY <1>1, <3>1
  <2> QED BY <1>1, <1>5, <1>8, <2>1 DEF IsNext, NextPage
<1>9. CASE Writing /\ AllMoved
  <2>1. k = PageWords
    <3>1. n = dataCnt
      BY <1>0, <1>9 DEF Written
    <3>2. dataCnt + Len(e) = PageWords
      <4>1. CASE wrDataTransReqQ = <<1>>
        BY <1>9, <4>1 DEF AllMoved
      <4>2. CASE Moving
        BY <1>9, <4>2 DEF AllMoved
      <4> QED BY <1>0, <1>7, <1>9, <4>1, <4>2 DEF Transfers
    <3> QED BY <1>1, <3>1, <3>2
  <2> QED BY <1>6, <1>9, <2>1 DEF IsNext, NextPage
<1>10. CASE Writing /\ ~AllMoved
  <2>1. k < PageWords
    <3>1. n = dataCnt
      BY <1>0, <1>10 DEF Written
    <3>2. (dataCnt = 0 /\ e = << >>) \/ (dataCnt + Len(e) = wdataCnt /\ wdataCnt < PageWords)
      BY <1>0, <1>7, <1>10 DEF Transfers, Moving
    <3>3. CASE dataCnt = 0 /\ e = << >>
      BY <1>1, <3>1, <3>3
    <3>4. CASE dataCnt + Len(e) = wdataCnt /\ wdataCnt < PageWords
      BY <1>1, <3>1, <3>4
    <3> QED BY <3>2, <3>3, <3>4
  <2> QED BY <1>5, <1>7, <1>10, <2>1 DEF PagesOwned
<1>11. /\ \E i \in DOMAIN p : t = p[i]
       /\ IsNext(p, t) \/ (Writing /\ t = cmdTagR)
  BY <1>8, <1>9, <1>10
<1> QED BY <1>11

\* The scoreboard is told which page is ready.
LEMMA SetReadyPipe ==
  ASSUME BusInv, UserTyped, PlaceInv, NEW p \in Seq(Tag), PipeInv(p), SetWriteDataRdy
  PROVE  PipeInv(p)'
<1>0. PICK r : r = ReadyTag
  OBVIOUS
<1>1. /\ wdataRdy' = r
      /\ UNCHANGED <<chipQs, chipStages, chipBusy, cmdOutQ, ackQ, state, chipR, cmdTagR>>
      /\ UNCHANGED <<dataCnt, wrDataTransReqQ, encodeQ, writePageBufFront, writePageBufBack>>
      /\ UNCHANGED <<writeWordCnt, writeFetchSt, wrState, wdataCnt, ctrl>>
  BY <1>0 DEF SetWriteDataRdy, SetWdataRdy, busVars, bufVars, ctlVars, wrVars
<1>2. /\ Writing' <=> Writing
      /\ Moving' <=> Moving
      /\ \A c \in Chip : Starting(c) => Starting(c)'
  BY <1>1 DEF Writing, Moving, Starting
<1>3. NextKept(p, p) /\ DoneKept(p, p) /\ AcksKept /\ AskedLess(p)
  BY <1>1, <1>2, NextSame, UserSame DEF AllMoved, PipeInv
<1>4. ProgKept /\ WaitKept /\ DataCmdsKept
  BY <1>1, <1>2, ChipsGoOn
<1>5. WritesInOrder(p)'
  BY <1>1, <1>2, DataSame DEF PipeInv
<1>6. PagesOwned(p)'
  BY <1>1, <1>2, <1>3, OwnedSame DEF PipeInv
<1>7. DoneWriting(p)'
  BY <1>3, <1>4, DoneSame DEF PipeInv
<1>8. /\ r # NoTag => ctrl[r].asked
      /\ \A c \in Chip : Waiting(c) /\ Working(c).tag = r => IsNext(p, r)
  <2>1. CASE ~FrontFull
    <3>1. r = NoTag
      BY <1>0, <2>1 DEF ReadyTag
    <3>2. \A c \in Chip : Waiting(c) => Working(c).tag \in Tag
      BY WaitingFacts, AtWorkFacts
    <3>3. NoTag \notin Tag
      BY ChipAssumption DEF NoTag
    <3> QED BY <3>1, <3>2, <3>3
  <2>2. CASE FrontFull
    <3>1. r = Head(writePageBufFront).tag
      BY <1>0, <2>2 DEF ReadyTag
    <3>2. /\ r \in Tag /\ \E i \in DOMAIN p : r = p[i]
          /\ IsNext(p, r) \/ (Writing /\ r = cmdTagR)
      BY <2>2, <3>1, FrontPage
    <3>3. ctrl[r].asked
      BY <3>2 DEF PipeInv, PagesOwned
    <3>4. ASSUME NEW c \in Chip, Waiting(c), Working(c).tag = r, Writing, r = cmdTagR PROVE FALSE
      <4>1. PICK d \in Chip : d = chipR
        BY DEF BusInv, TypedInv, TypeOK
      <4>2. Starting(d) /\ Working(d).tag = r
        BY <3>4, <4>1 DEF Starting, Writing, StartStates, BusInv, Protocol, BusCmdsBelong
      <4>3. chipStages[d] \notin RestStages /\ chipBusy[d] = << >>
        BY <4>2 DEF BusInv, Protocol, ChipsInStep, ChipInStep
      <4>4. AtWork(d) /\ ~Waiting(d)
        BY <4>3 DEF AtWork, Finished, Waiting, RestStages
      <4>5. AtWork(c)
        BY <3>4, WaitingFacts
      <4>6. c = d
        BY <3>4, <4>2, <4>4, <4>5, WorkedOn
      <4> QED BY <3>4, <4>4, <4>6
    <3> QED BY <3>2, <3>3, <3>4
  <2> QED BY <2>1, <2>2
<1>9. ReadyMatches(p)'
  <2>1. r # NoTag => ctrl'[r].asked
    BY <1>1, <1>8
  <2>2. ASSUME NEW c \in Chip, Waiting(c)', Working(c)'.tag = r PROVE IsNext(p, r)'
    <3>1. Waiting(c) /\ Working(c).tag = r
      BY <1>4, <2>2 DEF WaitKept
    <3> QED BY <1>3, <1>8, <3>1 DEF NextKept
  <2>3. ASSUME NEW i \in DOMAIN cmdOutQ', cmdOutQ'[i].busOp = "WRITE_CMD_DATA"
        PROVE  IsNext(p, cmdOutQ[i].tag)'
    <3>1. PICK t : t = cmdOutQ[i].tag
      OBVIOUS
    <3>2. IsNext(p, t)
      BY <1>1, <2>3, <3>1 DEF PipeInv, ReadyMatches
    <3>3. IsNext(p, t)' /\ cmdOutQ'[i].tag = t
      BY <1>1, <1>3, <3>1, <3>2 DEF NextKept
    <3> QED BY <3>3 DEF IsNext
  <2>4. ASSUME NEW c \in Chip, Waiting(c)', Working(c)'.tag = r PROVE IsNext(p, wdataRdy)'
    BY <1>1, <2>2, <2>4 DEF IsNext
  <2> QED BY <1>1, <2>1, <2>3, <2>4 DEF ReadyMatches
<1> QED BY <1>5, <1>6, <1>7, <1>9 DEF PipeInv

-----------------------------------------------------------------------------
\* A step of the user under a tag that no page was asked for.
LEMMA UnaskedPipe ==
  ASSUME BusInv, UserTyped, NEW p \in Seq(Tag), PipeInv(p), NEW t \in Tag,
         ~ctrl[t].asked, ~ctrl'[t].asked, \A s \in Tag : s # t => ctrl'[s] = ctrl[s],
         ctrl'[t].op = "WRITE_PAGE" => NotAcked(t),
         UNCHANGED <<chipQs, chipStages, chipBusy, cmdOutQ, wdataRdy, ackQ, state, chipR, cmdTagR>>,
         UNCHANGED <<dataCnt, encodeQ, wrDataTransReqQ, bufVars>>
  PROVE  PipeInv(p)'
<1>1. UNCHANGED <<writePageBufFront, writePageBufBack, writeWordCnt, writeFetchSt, wdataCnt, wrState>>
  BY DEF bufVars
<1>2. /\ Writing' <=> Writing
      /\ Moving' <=> Moving
      /\ \A c \in Chip : Starting(c) => Starting(c)'
  BY <1>1 DEF Writing, Moving, Starting
<1>3. ProgKept /\ WaitKept /\ DataCmdsKept
  BY <1>2, ChipsGoOn
<1>4. \A i \in DOMAIN p : p[i] \in Tag /\ p[i] # t /\ ctrl[p[i]].asked
  BY DEF PipeInv, PagesOwned
<1>5. AskedLess(p)
  <2>1. \A s \in Tag : ctrl'[s].asked => ctrl[s].asked /\ ctrl'[s].cnt = ctrl[s].cnt
    OBVIOUS
  <2>2. \A i \in DOMAIN p : ctrl'[p[i]].asked
    BY <1>4
  <2> QED BY <2>1, <2>2 DEF AskedLess
<1>6. DoneKept(p, p)
  <2>1. ASSUME NEW s, Done(p, s) PROVE Done(p, s)'
    <3>1. s \in Tag /\ s # t
      BY <2>1 DEF Done
    <3> QED BY <2>1, <3>1 DEF Done
  <2> QED BY <2>1 DEF DoneKept
<1>7. AcksKept
  <2>1. ASSUME NEW i \in DOMAIN ackQ, ctrl'[ackQ[i]].op = "WRITE_PAGE"
        PROVE  ctrl[ackQ[i]].op = "WRITE_PAGE"
    <3>1. ackQ[i] \in Tag
      BY <2>1 DEF UserTyped
    <3>2. ackQ[i] # t
      BY <2>1 DEF NotAcked
    <3> QED BY <2>1, <3>1, <3>2
  <2> QED BY <2>1 DEF AcksKept
<1>8. wdataRdy # NoTag => ctrl'[wdataRdy].asked
  BY DEF PipeInv, ReadyMatches, BusInv, TypedInv, TypeOK
<1> QED BY <1>1, <1>2, <1>3, <1>5, <1>6, <1>7, <1>8, PipeSame

\* A command is sent.
LEMMA SendCmdPipe ==
  ASSUME BusInv, UserTyped, PlaceInv, NEW p \in Seq(Tag), PipeInv(p),
         NEW t \in Tag, NEW op \in Op, NEW c \in Chip, SendCmd(t, op, c)
  PROVE  PipeInv(p)'
<1>1. ctrl[t] = User!Free /\ ctrl' = [ctrl EXCEPT ![t].op = op]
  BY DEF SendCmd, User!SendCmd
<1>2. /\ ~ctrl[t].asked /\ ~ctrl'[t].asked
      /\ \A s \in Tag : s # t => ctrl'[s] = ctrl[s]
  BY <1>1, CtrlAfter, FreeFields
<1>3. NotAcked(t)
  BY <1>1, FreeIsNowhere
<1>4. /\ UNCHANGED <<chipQs, chipStages, chipBusy, cmdOutQ, wdataRdy, ackQ, state, chipR, cmdTagR>>
      /\ UNCHANGED <<dataCnt, encodeQ, wrDataTransReqQ, bufVars>>
  BY DEF SendCmd, BusSendCmd, sbVars, ctlVars, wrVars
<1> QED BY <1>2, <1>3, <1>4, UnaskedPipe

\* A word is read.
LEMMA ReadWordPipe ==
  ASSUME BusInv, UserTyped, PlaceInv, UserCounts, NEW p \in Seq(Tag), PipeInv(p), ReadWord
  PROVE  PipeInv(p)'
<1>0. PICK t : t = readTagQ[1]
  OBVIOUS
<1>1. /\ t \in Tag /\ ctrl[t].op = "READ_PAGE"
      /\ \A s \in Tag : s # t => ctrl'[s] = ctrl[s]
      /\ UNCHANGED <<sbVars, flashCmdQ, ctlVars, wrVars, ackQ, decodeInQ, nand, bufVars>>
      /\ rdWdCnt = PageWords - 1 => ctrl'[t] = User!Free
      /\ rdWdCnt # PageWords - 1 => ctrl'[t].op = "READ_PAGE" /\ (ctrl'[t].asked <=> ctrl[t].asked)
  BY <1>0, ReadWordFacts
<1>2. ~ctrl[t].asked
  BY <1>1 DEF UserCounts
<1>3. ~ctrl'[t].asked /\ ctrl'[t].op # "WRITE_PAGE"
  BY <1>1, <1>2, FreeFields
<1>4. /\ UNCHANGED <<chipQs, chipStages, chipBusy, cmdOutQ, wdataRdy, ackQ, state, chipR, cmdTagR>>
      /\ UNCHANGED <<dataCnt, encodeQ, wrDataTransReqQ, bufVars>>
  BY <1>1 DEF sbVars, ctlVars, wrVars
<1> QED BY <1>1, <1>2, <1>3, <1>4, UnaskedPipe

\* A command that is acked has no page under way, and no page is said to be
\* ready for it.
LEMMA AckFacts ==
  ASSUME BusInv, UserTyped, PlaceInv, UserCounts, NEW p \in Seq(Tag), PipeInv(p), AckStatus,
         NEW t, t = ackQ[1]
  PROVE  /\ t \in Tag /\ ctrl'[t] = User!Free /\ \A s \in Tag : s # t => ctrl'[s] = ctrl[s]
         /\ \A i \in DOMAIN p : p[i] # t
         /\ wdataRdy # t
         /\ ctrl[t].op = "ERASE_BLOCK" \/ (ctrl[t].op = "WRITE_PAGE" /\ ctrl[t].cnt = PageWords)
<1>1. /\ ackQ # << >> /\ t \in Tag /\ ctrl' = [ctrl EXCEPT ![t] = User!Free]
      /\ ctrl[t].op \in {"WRITE_PAGE", "ERASE_BLOCK"}
  BY AckStatusPlaces
<1>2. ctrl'[t] = User!Free /\ \A s \in Tag : s # t => ctrl'[s] = ctrl[s]
  BY <1>1, CtrlAfter
<1>3. 1 \in DOMAIN ackQ
  BY <1>1 DEF UserTyped
<1>4. ctrl[t].op = "WRITE_PAGE" => Done(p, t)
  BY <1>3 DEF PipeInv, DoneWriting
<1>5. \A i \in DOMAIN p : p[i] # t
  <2>1. CASE ctrl[t].op = "WRITE_PAGE"
    BY <1>4, <2>1 DEF Done
  <2>2. CASE ctrl[t].op = "ERASE_BLOCK"
    <3>1. ~ctrl[t].asked
      BY <1>1, <2>2 DEF UserCounts
    <3> QED BY <3>1 DEF PipeInv, PagesOwned
  <2> QED BY <1>1, <2>1, <2>2
<1>6. wdataRdy # t
  <2>1. wdataRdy = ReadyTag
    BY DEF AckStatus, Settled
  <2>2. CASE ~FrontFull
    <3>1. wdataRdy = NoTag
      BY <2>1, <2>2 DEF ReadyTag
    <3> QED BY <1>1, <3>1, ChipAssumption DEF NoTag
  <2>3. CASE FrontFull
    <3>1. \E i \in DOMAIN p : Head(writePageBufFront).tag = p[i]
      BY <2>3, FrontPage
    <3> QED BY <1>5, <2>1, <2>3, <3>1 DEF ReadyTag
  <2> QED BY <2>2, <2>3
<1>7. ctrl[t].op = "WRITE_PAGE" => ctrl[t].cnt = PageWords
  BY <1>4 DEF Done
<1> QED BY <1>1, <1>2, <1>5, <1>6, <1>7

\* An ack is taken.
LEMMA AckPipe ==
  ASSUME BusInv, UserTyped, PlaceInv, UserCounts, NEW p \in Seq(Tag), PipeInv(p), AckStatus
  PROVE  PipeInv(p)'
<1>0. PICK t : t = ackQ[1]
  OBVIOUS
<1>1. /\ t \in Tag /\ ctrl'[t] = User!Free /\ \A s \in Tag : s # t => ctrl'[s] = ctrl[s]
      /\ \A i \in DOMAIN p : p[i] # t
      /\ wdataRdy # t
  BY <1>0, AckFacts
<1>2. ackQ # << >> /\ ackQ' = Tail(ackQ)
  BY AckStatusPlaces
<1>3. /\ UNCHANGED <<chipQs, chipStages, chipBusy, cmdOutQ, wdataRdy, state, chipR, cmdTagR>>
      /\ UNCHANGED <<dataCnt, encodeQ, wrDataTransReqQ>>
      /\ UNCHANGED <<writePageBufFront, writePageBufBack, writeWordCnt, writeFetchSt, wdataCnt, wrState>>
  BY DEF AckStatus, BusAckStatus, sbVars, ctlVars, wrVars, bufVars
<1>4. /\ Writing' <=> Writing
      /\ Moving' <=> Moving
      /\ \A c \in Chip : Starting(c) => Starting(c)'
  BY <1>3 DEF Writing, Moving, Starting
<1>5. ProgKept /\ WaitKept /\ DataCmdsKept
  BY <1>3, <1>4, ChipsGoOn
<1>6. AskedLess(p)
  <2>1. \A s \in Tag : ctrl'[s].asked => ctrl[s].asked /\ ctrl'[s].cnt = ctrl[s].cnt
    <3>1. ~ctrl'[t].asked
      BY <1>1, FreeFields
    <3> QED BY <1>1, <3>1
  <2>2. \A i \in DOMAIN p : p[i] \in Tag /\ ctrl[p[i]].asked
    BY DEF PipeInv, PagesOwned
  <2>3. \A i \in DOMAIN p : ctrl'[p[i]].asked
    BY <1>1, <2>2
  <2> QED BY <2>1, <2>3 DEF AskedLess
<1>7. WritesInOrder(p)'
  BY <1>3, <1>4, DataSame DEF PipeInv
<1>8. PagesOwned(p)'
  BY <1>3, <1>4, <1>6, OwnedSame DEF PipeInv
<1>9. ReadyMatches(p)'
  <2>1. wdataRdy # NoTag => ctrl'[wdataRdy].asked
    BY <1>1 DEF PipeInv, ReadyMatches, BusInv, TypedInv, TypeOK
  <2>2. NextKept(p, p)
    BY <1>3, <1>4, NextSame DEF AllMoved
  <2> QED BY <1>3, <1>5, <2>1, <2>2, ReadySame DEF PipeInv
<1>10. ASSUME NEW s, s # t, Done(p, s) PROVE Done(p, s)'
  BY <1>1, <1>10 DEF Done
<1>11. DoneWriting(p)'
  <2>1. ASSUME NEW c \in Chip, Programmed(c)' PROVE Done(p, Working(c).tag)'
    <3>1. PICK s : s = Working(c).tag
      OBVIOUS
    <3>2. Programmed(c) /\ Working(c)' = Working(c)
      BY <1>5, <2>1 DEF ProgKept
    <3>3. AtWork(c)
      BY <3>2 DEF Programmed, AtWork
    <3>4. NotAcked(s)
      BY <3>1, <3>3, WorkedOn
    <3>5. s # t
      <4>1. 1 \in DOMAIN ackQ
        BY <1>2 DEF UserTyped
      <4> QED BY <1>0, <3>4, <4>1 DEF NotAcked
    <3>6. Done(p, s)
      BY <3>1, <3>2 DEF PipeInv, DoneWriting
    <3>7. Done(p, s)' /\ Working(c)'.tag = s
      BY <1>10, <3>1, <3>2, <3>5, <3>6
    <3> QED BY <3>7 DEF Done
  <2>2. ASSUME NEW i \in DOMAIN ackQ', ctrl'[ackQ'[i]].op = "WRITE_PAGE" PROVE Done(p, ackQ[i])'
    <3>1. PICK j : j = i + 1
      OBVIOUS
    <3>2. j \in DOMAIN ackQ /\ i \in Nat \ {0} /\ ackQ'[i] = ackQ[j]
      BY <1>2, <2>2, <3>1, TailIs DEF UserTyped
    <3>3. PICK s : s = ackQ[j]
      OBVIOUS
    <3>4. s # t /\ s \in Tag
      <4>1. j # 1
        BY <3>1, <3>2
      <4>2. \A x \in DOMAIN ackQ : x # 1 => ackQ[x] # t
        BY <1>0, <1>2, OnlyPlace DEF PlaceInv
      <4>3. s \in Tag
        BY <3>2, <3>3 DEF UserTyped
      <4> QED BY <3>2, <3>3, <4>1, <4>2, <4>3
    <3>5. ctrl[s].op = "WRITE_PAGE"
      BY <1>1, <2>2, <3>2, <3>3, <3>4
    <3>6. Done(p, s)
      BY <3>2, <3>3, <3>5 DEF PipeInv, DoneWriting
    <3>7. Done(p, s)' /\ ackQ'[i] = s
      BY <1>10, <3>2, <3>3, <3>4, <3>6
    <3> QED BY <3>7 DEF Done
  <2> QED BY <2>1, <2>2 DEF DoneWriting
<1> QED BY <1>7, <1>8, <1>9, <1>11 DEF PipeInv

-----------------------------------------------------------------------------
\* A step that only looks at what the pages are about.
LEMMA QuietPipe ==
  ASSUME NEW p \in Seq(Tag), PipeInv(p),
         UNCHANGED <<chipQs, chipStages, chipBusy, cmdOutQ, wdataRdy, ackQ, state, chipR, cmdTagR>>,
         UNCHANGED <<dataCnt, encodeQ, wrDataTransReqQ, bufVars, ctrl>>
  PROVE  PipeInv(p)'
<1>1. UNCHANGED <<writePageBufFront, writePageBufBack, writeWordCnt, writeFetchSt, wdataCnt, wrState>>
  BY DEF bufVars
<1>2. /\ Writing' <=> Writing
      /\ Moving' <=> Moving
      /\ \A c \in Chip : Starting(c) => Starting(c)'
  BY <1>1 DEF Writing, Moving, Starting
<1>3. ProgKept /\ WaitKept /\ DataCmdsKept
  BY <1>2, ChipsGoOn
<1> QED BY <1>1, <1>2, <1>3, PipeQuiet

\* The scoreboard's rules.
LEMMA ScoreboardPipe ==
  ASSUME BusInv, UserTyped, PlaceInv, NEW p \in Seq(Tag), PipeInv(p), SBRule,
         UNCHANGED <<busVars, bufVars, ctrl>>
  PROVE  PipeInv(p)'
<1>0. PICK k \in Chip : k = currChip
  BY DEF BusInv, TypedInv, TypeOK
<1>1. UNCHANGED <<ackQ, state, chipR, cmdTagR, dataCnt, encodeQ, wrDataTransReqQ>>
  BY DEF busVars, ctlVars, wrVars
<1>2. CASE DoChooseChip
  BY <1>1, <1>2, QuietPipe DEF DoChooseChip
<1>3. CASE \E c \in Chip : DecBusyTimer(c)
  BY <1>1, <1>3, QuietPipe DEF DecBusyTimer
<1>4. CASE DoServiceReq
  <2>1. sbState = "SERVICE_REQ" /\ UNCHANGED wdataRdy
    BY <1>4 DEF DoServiceReq
  <2>2. CASE IssueBusCmd
    BY <1>0, <2>1, <2>2, IssuePipe
  <2>3. CASE WaitForData
    BY <1>1, <2>1, <2>3, QuietPipe DEF WaitForData
  <2>4. CASE LookAtStatus
    BY <1>0, <2>1, <2>4, LookPipe
  <2> QED BY <1>4, <2>2, <2>3, <2>4 DEF DoServiceReq
<1> QED BY <1>2, <1>3, <1>4 DEF SBRule

\* The bus controller's rules: one page is done with, or none.
LEMMA BusRulePipe ==
  ASSUME BusInv, UserTyped, PlaceInv, NEW p \in Seq(Tag), PipeInv(p), BusRule,
         UNCHANGED <<bufVars, ctrl>>
  PROVE  \E q \in Seq(Tag) : PipeInv(q)'
<1>1. CASE SBRule /\ UNCHANGED busVars
  BY <1>1, ScoreboardPipe
<1>2. CASE DoSBCmd
  BY <1>2, TakePipe
<1>3. CASE DoDecodeCmd
  BY <1>3, DecodePipe
<1>4. CASE StartChip
  <2>1. /\ UNCHANGED <<sbVars, wrVars, ackQ>> /\ state \in {"READ_PAGE_REQ", "ERASE_BLOCK"}
        /\ state' = "IDLE"
    BY <1>4 DEF StartChip
  <2> QED BY <2>1, BusPipe
<1>5. CASE GetStatus
  BY <1>5, PollPipe
<1>6. CASE DoReadDataWaitBuf \/ DoReadData
  <2>1. /\ UNCHANGED <<sbVars, wrVars, ackQ>>
        /\ state \notin StartStates /\ state' \notin StartStates
    BY <1>6 DEF DoReadDataWaitBuf, DoReadData, StartStates
  <2> QED BY <2>1, BusPipe
<1>7. CASE DoWriteDataWait
  <2>1. /\ UNCHANGED <<sbVars, wrVars, ackQ, chipR, dataCnt, cmdTagR>>
        /\ state \in StartStates /\ state' \in StartStates /\ Writing /\ Writing'
    BY <1>7 DEF DoWriteDataWait, StartStates, Writing
  <2>2. Writing' <=> Writing
    BY <2>1
  <2> QED BY <2>1, <2>2, BusPipe
<1>8. CASE DoWritePageData
  <2>1. CASE dataCnt = PageWords - 1
    <3>1. p # << >>
      BY <1>8, <2>1, LastWord
    <3>2. Tail(p) \in Seq(Tag)
      BY <3>1
    <3>3. PipeInv(Tail(p))'
      BY <1>8, <2>1, LastWordPipe
    <3>4. PICK q \in Seq(Tag) : q = Tail(p)
      BY <3>2
    <3> QED BY <3>3, <3>4 DEF PipeInv, WritesInOrder, PagesOwned, ReadyMatches, DoneWriting, Done,
                              IsNext, Stream, IsWord
  <2> QED BY <1>8, <2>1, BurstPipe
<1>9. CASE DoDecoderDataBuf
  BY <1>9, QuietPipe DEF DoDecoderDataBuf, sbVars, ctlVars, wrVars
<1>10. CASE \E c \in Chip : NandReady(c)
  BY <1>10, QuietPipe DEF NandReady, sbVars, ctlVars, wrVars
<1> QED BY <1>1, <1>2, <1>3, <1>4, <1>5, <1>6, <1>7, <1>8, <1>9, <1>10 DEF BusRule, BusStep

\* Every step keeps the pages on their way in order.
LEMMA PageInvNext ==
  ASSUME BusInv, UserTyped, PlaceInv, UserCounts, AskedOnce, PageInv, PageWords > 1, [Next]_vars
  PROVE  PageInv'
<1>0. PICK p \in Seq(Tag) : PipeInv(p)
  BY DEF PageInv
<1>1. SUFFICES \E q \in Seq(Tag) : PipeInv(q)'
  BY DEF PageInv
<1>2. ASSUME NEW job \in Jobs, SendCmd(job[1], job[2], job[3]) PROVE PipeInv(p)'
  <2>1. PICK t \in Tag, op \in Op, c \in Chip : t = job[1] /\ op = job[2] /\ c = job[3]
    BY JobAssumption DEF Op
  <2> QED BY <1>0, <1>2, <2>1, SendCmdPipe
<1>3. ASSUME NEW t \in Tag, WriteWord(t) PROVE PipeInv(p)'
  BY <1>0, <1>3, WriteWordPipe
<1>4. CASE BusRule /\ UNCHANGED <<bufVars, ctrl>>
  BY <1>0, <1>4, BusRulePipe
<1>5. CASE DoHandleWriteDataReq
  BY <1>0, <1>5, AskPipe
<1>6. CASE DoWriteFetchWait
  BY <1>0, <1>6, FetchWaitPipe
<1>7. CASE DoWriteBufTransfer
  BY <1>0, <1>7, BufferPipe
<1>8. CASE SetWriteDataRdy
  BY <1>0, <1>8, SetReadyPipe
<1>9. CASE DoWriteDataTransferReq
  BY <1>0, <1>9, TransferReqPipe
<1>10. CASE DoWriteDataTransferToBus
  BY <1>0, <1>10, TransferPipe
<1>11. CASE ReadWord
  BY <1>0, <1>11, ReadWordPipe
<1>12. CASE AckStatus
  BY <1>0, <1>12, AckPipe
<1>13. CASE UNCHANGED vars
  BY <1>0, <1>13, QuietPipe DEF vars, sbVars, busVars, ctlVars, wrVars
<1> QED BY <1>0, <1>2, <1>3, <1>4, <1>5, <1>6, <1>7, <1>8, <1>9, <1>10, <1>11, <1>12, <1>13
       DEF Next, ControllerRule

-----------------------------------------------------------------------------
\* Nothing is in use at first.
LEMMA UserInvInit == Init => UserInv
<1> SUFFICES ASSUME Init PROVE UserInv
  OBVIOUS
<1>1. /\ chipQs = [c \in Chip |-> << >>] /\ chipBusy = [c \in Chip |-> << >>]
      /\ chipStages = [c \in Chip |-> "INIT"] /\ cmdOutQ = << >> /\ wdataRdy = NoTag
      /\ flashCmdQ = << >> /\ state = "IDLE" /\ dataCnt = 0 /\ ackQ = << >>
      /\ encodeQ = << >> /\ decodeInQ = << >> /\ decodeInBufQ = << >> /\ readTagQ = << >>
      /\ rdWdCnt = 0 /\ wrDataBufReqQ = << >> /\ wrDataTransReqQ = << >>
      /\ writePageBufBack = << >> /\ writePageBufFront = << >>
      /\ writeWordCnt = 0 /\ writeFetchSt = 0 /\ wrState = 0 /\ wdataCnt = 0
      /\ ctrl = [t \in Tag |-> User!Free]
  BY DEF Init, SBInit, BusInit, User!Init
<1>2. PageWords \in Nat \ {0}
  BY Pages
<1>3. UserTyped
  BY <1>1, <1>2 DEF UserTyped, ReadStates
<1>4. /\ ~AtBus /\ ~Writing /\ ~Fetching /\ ~Moving
      /\ \A c \in Chip : ~Finished(c) /\ ~AtWork(c) /\ LiveQ(c) = << >> /\ ~Waiting(c) /\ ~Programmed(c)
  BY <1>1 DEF AtBus, Writing, Fetching, Moving, Finished, AtWork, LiveQ, Waiting, Programmed,
              ReadStates, WaitStages
<1>5. \A t \in Tag : ctrl[t] = User!Free /\ ctrl[t].op = "none" /\ ~ctrl[t].asked
  BY <1>1, FreeFields
<1>6. OnePlace
  <2>1. /\ TagsOf(flashCmdQ) = << >> /\ BusTags = << >>
        /\ \A c \in Chip : LiveTags[c] = << >>
    BY <1>1, <1>4 DEF TagsOf, BusTags, LiveTags
  <2>2. \A x \in Place : PlaceTags[x] = << >>
    <3>1. ASSUME NEW x \in Place PROVE PlaceTags[x] = << >>
      <4>1. x \in {CmdPlace, BusPlace, RdPlace, AckPlace} \/ x[2] \in Chip
        BY <3>1, PlaceNames
      <4> QED BY <1>1, <2>1, <4>1 DEF PlaceTags, PlacesOf
    <3> QED BY <3>1
  <2>3. \A x \in Place : \A i \in DOMAIN PlaceTags[x] : FALSE
    BY <2>2
  <2> QED BY <2>3 DEF OnePlace, Distinct
<1>7. UseMatches
  BY <1>1, <1>4 DEF UseMatches
<1>8. UserCounts
  BY <1>5, FreeFields DEF UserCounts
<1>9. ReadsInOrder
  <2>1. ToRead = 0
    BY <1>1 DEF ToRead
  <2>2. Stream(decodeInBufQ, readTagQ, rdWdCnt) /\ Stream(decodeInQ, readTagQ, rdWdCnt + Len(decodeInBufQ))
    BY <1>1, StreamEmpty
  <2>3. rdWdCnt + Len(decodeInBufQ) + Len(decodeInQ) + ToRead = Len(readTagQ) * PageWords
    BY <1>1, <1>2, <2>1
  <2> QED BY <2>1, <2>2, <2>3 DEF ReadsInOrder
<1>10. AskedOnce
  BY <1>1 DEF AskedOnce
<1>11. PageInv
  <2>1. PICK p \in Seq(Tag) : p = << >>
    <3>1. << >> \in Seq(Tag)
      OBVIOUS
    <3> QED BY <3>1, Zenon
  <2>2. WritesInOrder(p)
    <3>1. Transfers /\ Fetches
      BY <1>1, <1>4 DEF Transfers, Fetches
    <3>2. Stream(encodeQ, p, Written) /\ Stream(writePageBufFront, p, InFront)
          /\ Stream(writePageBufBack, p, InBack)
      BY <1>1, StreamEmpty
    <3>3. Written = 0 /\ ToFetch = 0
      BY <1>4 DEF Written, ToFetch
    <3>4. InFront = 0
      BY <1>1, <3>3 DEF InFront
    <3>5. InBack = 0
      BY <1>1, <3>4 DEF InBack
    <3>6. InBack + Len(writePageBufBack) + ToFetch = Len(p) * PageWords
      BY <1>1, <1>2, <2>1, <3>3, <3>5
    <3> QED BY <3>1, <3>2, <3>6 DEF WritesInOrder
  <2>3. PagesOwned(p)
    BY <1>4, <1>5, <2>1 DEF PagesOwned
  <2>4. ReadyMatches(p) /\ DoneWriting(p)
    BY <1>1, <1>4 DEF ReadyMatches, DoneWriting
  <2> QED BY <2>2, <2>3, <2>4 DEF PageInv, PipeInv
<1> QED BY <1>3, <1>6, <1>7, <1>8, <1>9, <1>10, <1>11, BusInvInit DEF UserInv, PlaceInv, ReadInv

\* The parts of the invariant carry each other from step to step.
LEMMA UserInvNext == ASSUME PageWords > 1 PROVE UserInv /\ [Next]_vars => UserInv'
<1> SUFFICES ASSUME UserInv, [Next]_vars PROVE UserInv'
  OBVIOUS
<1>1. BusInv /\ UserTyped /\ PlaceInv /\ UserCounts /\ ReadsInOrder /\ AskedOnce /\ PageInv
  BY DEF UserInv, ReadInv
<1>2. wdataRdy # NoTag => ctrl[wdataRdy].asked
  BY <1>1 DEF PageInv, PipeInv, ReadyMatches
<1>3. BusInv'
  BY <1>1, BusInvNext
<1>4. UserTyped'
  BY <1>1, UserTypedNext
<1>5. PlaceInv'
  BY <1>1, PlaceInvNext
<1>6. UserCounts'
  BY <1>1, UserCountsNext
<1>7. ReadsInOrder'
  BY <1>1, ReadsInOrderNext
<1>8. AskedOnce'
  BY <1>1, <1>2, AskedOnceNext
<1>9. PageInv'
  BY <1>1, PageInvNext
<1> QED BY <1>3, <1>4, <1>5, <1>6, <1>7, <1>8, <1>9 DEF UserInv, ReadInv

\* The invariant holds of every state the controller reaches, for pages of
\* more than one word.
THEOREM UserInvariant == ASSUME PageWords > 1 PROVE Spec => []UserInv
<1>1. UserInv /\ [Next]_vars => UserInv'
  BY UserInvNext
<1> QED BY <1>1, UserInvInit, PTL DEF Spec

-----------------------------------------------------------------------------
\* The words of the pages read are given in the order the pages were read out
\* in, each under the tag of its own page: the word count that the user keeps
\* for a tag and the one that the bus keeps for the first tag never differ.
THEOREM ReadsKeepTheirTag == ASSUME PageWords > 1 PROVE Spec => []WordsKeepTheirTag
<1>1. UserInv => WordsKeepTheirTag
  <2> SUFFICES ASSUME UserInv, decodeInBufQ # << >>
               PROVE  /\ readTagQ # << >>
                      /\ LET t == Head(readTagQ)
                         IN Head(decodeInBufQ) = Word(t, ctrl[t].cnt) /\ ctrl[t].op = "READ_PAGE"
    BY DEF WordsKeepTheirTag
  <2>1. BusInv /\ UserTyped /\ UseMatches /\ UserCounts /\ ReadsInOrder
    BY DEF UserInv, ReadInv, PlaceInv
  <2>2. /\ decodeInBufQ \in Seq(PageWord) /\ readTagQ \in Seq(Tag) /\ rdWdCnt \in Nat
        /\ rdWdCnt < PageWords
    BY <2>1, ReadTypes
  <2>3. PICK w : w = Head(decodeInBufQ)
    OBVIOUS
  <2>4. IsWord(w, readTagQ, rdWdCnt) /\ w \in PageWord
    BY <2>1, <2>2, <2>3, StreamTail DEF ReadsInOrder
  <2>5. readTagQ # << >> /\ w.tag = readTagQ[1] /\ w.idx = rdWdCnt
    BY <2>2, <2>4, FirstPages
  <2>6. PICK t : t = readTagQ[1]
    OBVIOUS
  <2>7. Head(readTagQ) = t /\ 1 \in DOMAIN readTagQ /\ t \in Tag
    BY <2>2, <2>5, <2>6
  <2>8. ctrl[t].op = "READ_PAGE"
    BY <2>1, <2>6, <2>7 DEF UseMatches
  <2>9. ctrl[t].cnt = rdWdCnt
    BY <2>1, <2>5, <2>6, <2>7, <2>8 DEF UserCounts
  <2>10. w = Word(t, rdWdCnt)
    BY <2>4, <2>5, <2>6 DEF PageWord, Word
  <2> QED BY <2>3, <2>5, <2>7, <2>8, <2>9, <2>10
<1> QED BY <1>1, UserInvariant, PTL

-----------------------------------------------------------------------------
\* The page that a chip is given so far.
PageSoFar ==
  state = "WRITE_PAGE" =>
    /\ Len(nand[chipR].page) = dataCnt
    /\ \A i \in 1 .. dataCnt : nand[chipR].page[i] = Word(cmdTagR, i - 1)

\* No burst begins, and the one there may be goes on.
LEMMA PageSoFarSame ==
  ASSUME PageSoFar,
         state' = "WRITE_PAGE" => /\ state = "WRITE_PAGE" /\ UNCHANGED <<chipR, cmdTagR, dataCnt>>
                                  /\ nand'[chipR].page = nand[chipR].page
  PROVE  PageSoFar'
BY DEF PageSoFar, Word

\* The next word of a burst is the next one of the page of its command.
LEMMA BurstWord ==
  ASSUME BusInv, UserTyped, NEW p \in Seq(Tag), PipeInv(p), state = "WRITE_PAGE", encodeQ # << >>
  PROVE  Head(encodeQ) = Word(cmdTagR, dataCnt) /\ Head(encodeQ) \in PageWord
<1>0. PICK e, w : e = encodeQ /\ w = Head(e)
  OBVIOUS
<1>1. e \in Seq(PageWord) /\ dataCnt \in Nat /\ dataCnt < PageWords /\ Writing
  BY <1>0, PageTypes DEF Writing
<1>2. Stream(e, p, dataCnt) /\ p[1] = cmdTagR
  BY <1>0, <1>1 DEF PipeInv, WritesInOrder, Written, PagesOwned
<1>3. IsWord(w, p, dataCnt) /\ w \in PageWord
  BY <1>0, <1>1, <1>2, StreamTail
<1>4. w.tag = cmdTagR /\ w.idx = dataCnt
  BY <1>1, <1>2, <1>3, FirstPages
<1> QED BY <1>0, <1>3, <1>4 DEF PageWord, Word

\* A burst begins with an empty register and adds its words to it.
LEMMA PageSoFarNext ==
  ASSUME BusInv, UserTyped, PageInv, PageSoFar, [Next]_vars
  PROVE  PageSoFar'
<1>0. PICK k \in Chip : k = chipR
  BY DEF BusInv, TypedInv, TypeOK
<1>1. /\ nand \in [Chip -> [busy : BOOLEAN, page : Seq(PageWord)]]
      /\ nand[k].page \in Seq(PageWord) /\ dataCnt \in Nat
      /\ state = "WRITE_PAGE_WAIT" => dataCnt = 0
  <2>1. nand \in [Chip -> [busy : BOOLEAN, page : Seq(PageWord)]]
    BY DEF BusInv, TypedInv, BusTyped
  <2> QED BY <2>1, PageTypes DEF BusInv, TypedInv, BurstCounted
<1>2. CASE UNCHANGED <<state, chipR, cmdTagR, dataCnt, nand>>
  BY <1>2, PageSoFarSame
<1>3. CASE BusRule /\ UNCHANGED <<bufVars, ctrl>>
  <2>1. CASE SBRule /\ UNCHANGED busVars
    BY <1>2, <2>1 DEF busVars, ctlVars
  <2>2. CASE DoSBCmd
    BY <1>2, <2>2 DEF DoSBCmd, ctlVars
  <2>3. CASE DoDecodeCmd
    <3>1. state' = StateOf[Head(cmdOutQ).busOp]
          /\ Head(cmdOutQ).busOp \in {"WRITE_DATA_BUF_REQ"} \cup StartOps \cup PollOps
      BY <1>3, <2>3, DecodeFacts, DecodeTyped
    <3>2. state' # "WRITE_PAGE"
      BY <3>1 DEF StateOf, StartOps, PollOps
    <3> QED BY <3>2, PageSoFarSame
  <2>4. CASE StartChip \/ GetStatus \/ DoReadDataWaitBuf \/ DoReadData
    <3>1. state' # "WRITE_PAGE"
      BY <2>4 DEF StartChip, GetStatus, DoReadDataWaitBuf, DoReadData
    <3> QED BY <3>1, PageSoFarSame
  <2>5. CASE DoWriteDataWait
    <3>1. /\ state = "WRITE_PAGE_WAIT" /\ nand' = [nand EXCEPT ![k].page = << >>]
          /\ UNCHANGED <<chipR, cmdTagR, dataCnt>>
      BY <1>0, <2>5 DEF DoWriteDataWait
    <3>2. nand'[k].page = << >>
      BY <1>1, <3>1
    <3> QED BY <1>0, <1>1, <3>1, <3>2 DEF PageSoFar
  <2>6. CASE DoWritePageData
    <3>1. PICK p \in Seq(Tag) : PipeInv(p)
      BY DEF PageInv
    <3>2. /\ state = "WRITE_PAGE" /\ encodeQ # << >> /\ UNCHANGED <<chipR, cmdTagR>>
          /\ dataCnt' = dataCnt + 1
          /\ nand' = [nand EXCEPT ![k] = [busy |-> dataCnt = PageWords - 1,
                                          page |-> Append(@.page, Head(encodeQ))]]
      BY <1>0, <2>6 DEF DoWritePageData
    <3>3. PICK w : w = Head(encodeQ)
      OBVIOUS
    <3>4. w = Word(cmdTagR, dataCnt) /\ w \in PageWord
      BY <3>1, <3>2, <3>3, BurstWord
    <3>5. PICK r, q, n : r = nand[k].page /\ q = Append(r, w) /\ n = dataCnt
      OBVIOUS
    <3>6. nand'[k].page = q
      BY <1>1, <3>2, <3>3, <3>5
    <3>7. Len(r) = n /\ \A i \in 1 .. n : r[i] = Word(cmdTagR, i - 1)
      BY <1>0, <3>2, <3>5 DEF PageSoFar
    <3>8. Len(q) = n + 1 /\ q[n + 1] = w /\ \A i \in 1 .. n : q[i] = r[i]
      <4>1. r \in Seq(PageWord)
        BY <1>1, <3>5
      <4>2. /\ Len(q) = Len(r) + 1 /\ q[Len(r) + 1] = w
            /\ \A i \in DOMAIN r : q[i] = r[i]
        BY <3>4, <3>5, <4>1, AppendIs
      <4>3. DOMAIN r = 1 .. n
        BY <3>7, <4>1
      <4> QED BY <3>7, <4>2, <4>3
    <3>9. ASSUME NEW i \in 1 .. n + 1 PROVE q[i] = Word(cmdTagR, i - 1)
      <4>1. CASE i \in 1 .. n
        BY <3>7, <3>8, <4>1
      <4>2. CASE i = n + 1
        <5>1. i - 1 = n
          BY <1>1, <3>5, <4>2
        <5> QED BY <3>4, <3>5, <3>8, <4>2, <5>1
      <4>3. n \in Nat
        BY <1>1, <3>5
      <4>4. i \in 1 .. n \/ i = n + 1
        BY <3>9, <4>3
      <4> QED BY <4>1, <4>2, <4>4
    <3>10. dataCnt' = n + 1 /\ chipR' = k /\ cmdTagR' = cmdTagR
      BY <1>0, <3>2, <3>5
    <3> QED BY <3>6, <3>8, <3>9, <3>10 DEF PageSoFar, Word
  <2>7. CASE DoDecoderDataBuf
    BY <1>2, <2>7 DEF DoDecoderDataBuf, ctlVars
  <2>8. CASE \E c \in Chip : NandReady(c)
    <3>1. PICK c \in Chip : nand' = [nand EXCEPT ![c].busy = FALSE]
                            /\ UNCHANGED <<state, chipR, cmdTagR, dataCnt>>
      BY <2>8 DEF NandReady, ctlVars
    <3>2. nand'[k].page = nand[k].page
      BY <1>1, <3>1
    <3> QED BY <1>0, <3>1, <3>2, PageSoFarSame
  <2> QED BY <1>3, <2>1, <2>2, <2>3, <2>4, <2>5, <2>6, <2>7, <2>8 DEF BusRule, BusStep
<1>4. CASE \E job \in Jobs : SendCmd(job[1], job[2], job[3])
  BY <1>2, <1>4 DEF SendCmd, BusSendCmd, ctlVars
<1>5. CASE \E t \in Tag : WriteWord(t)
  BY <1>2, <1>5 DEF WriteWord, busVars, ctlVars
<1>6. CASE DoHandleWriteDataReq \/ DoWriteFetchWait \/ DoWriteBufTransfer
  BY <1>2, <1>6 DEF DoHandleWriteDataReq, BusWriteDataBufReq, DoWriteFetchWait, DoWriteBufTransfer,
                    busVars, ctlVars
<1>7. CASE SetWriteDataRdy \/ DoWriteDataTransferReq
  BY <1>2, <1>7 DEF SetWriteDataRdy, DoWriteDataTransferReq, BusWriteDataTransferReq, busVars, ctlVars
<1>8. CASE DoWriteDataTransferToBus
  BY <1>2, <1>8 DEF DoWriteDataTransferToBus, BusWriteWord, busVars, ctlVars
<1>9. CASE ReadWord \/ AckStatus
  BY <1>2, <1>9 DEF ReadWord, BusReadWord, AckStatus, BusAckStatus, ctlVars
<1>10. CASE UNCHANGED vars
  BY <1>2, <1>10 DEF vars, busVars, ctlVars
<1> QED BY <1>3, <1>4, <1>5, <1>6, <1>7, <1>8, <1>9, <1>10 DEF Next, ControllerRule

\* A chip is programmed with the page of its own command, word by word,
\* although data and commands reach the bus apart from each other and the
\* token that starts the transfer of a page carries no tag.
THEOREM ProgramsKeepTheirPage == ASSUME PageWords > 1 PROVE Spec => []ProgramsOwnPage
<1>1. Init => PageSoFar
  BY DEF Init, BusInit, PageSoFar
<1>2. UserInv /\ PageSoFar /\ [Next]_vars => PageSoFar'
  BY PageSoFarNext DEF UserInv
<1>3. UserInv /\ PageSoFar => ProgramsOwnPage
  <2> SUFFICES ASSUME UserInv, PageSoFar, state = "WRITE_PAGE"
               PROVE  nand[chipR].page = SubSeq(PageOf(cmdTagR), 1, dataCnt)
    BY DEF ProgramsOwnPage
  <2>0. PICK r, s, n, q : r = nand[chipR].page /\ s = SubSeq(q, 1, n) /\ n = dataCnt /\ q = PageOf(cmdTagR)
    OBVIOUS
  <2>1. /\ r \in Seq(PageWord) /\ n \in Nat /\ n <= PageWords /\ PageWords \in Nat
    <3>1. BusInv /\ UserTyped
      BY DEF UserInv
    <3>2. nand \in [Chip -> [busy : BOOLEAN, page : Seq(PageWord)]] /\ chipR \in Chip
      BY <3>1 DEF BusInv, TypedInv, TypeOK, BusTyped
    <3>3. r \in Seq(PageWord)
      BY <2>0, <3>2
    <3>4. n \in Nat /\ n <= PageWords /\ PageWords \in Nat
      BY <2>0, <3>1, PageTypes
    <3> QED BY <3>3, <3>4
  <2>2. Len(r) = n /\ \A i \in 1 .. n : r[i] = Word(cmdTagR, i - 1)
    BY <2>0 DEF PageSoFar
  <2>3. q = [i \in 1 .. PageWords |-> Word(cmdTagR, i - 1)]
    BY <2>0 DEF PageOf
  <2>4. s = [i \in 1 .. n |-> q[i]]
    BY <2>0, <2>1
  <2>5. DOMAIN r = 1 .. n /\ r = [i \in 1 .. n |-> r[i]]
    BY <2>1, <2>2
  <2>6. \A i \in 1 .. n : q[i] = Word(cmdTagR, i - 1)
    BY <2>1, <2>3
  <2>7. \A i \in 1 .. n : q[i] = r[i]
    BY <2>2, <2>6
  <2>8. r = s
    BY <2>4, <2>5, <2>7
  <2> QED BY <2>0, <2>8
<1> QED BY <1>1, <1>2, <1>3, UserInvariant, PTL DEF Spec

-----------------------------------------------------------------------------
\* When every chip has asked for a page, none has a bus command left.
LEMMA RequestsFewerThanChips ==
  ASSUME UserInv, state = "IDLE", cmdOutQ # << >>
  PROVE  Len(wrDataBufReqQ) < NumChips
<1>1. BusInv /\ UserTyped /\ PlaceInv /\ AskedOnce
  BY DEF UserInv
<1>2. PICK m, d : m = cmdOutQ[1] /\ d = m.chip
  OBVIOUS
<1>3. 1 \in DOMAIN cmdOutQ /\ m \in BusCmd /\ d \in Chip /\ m.tag \in Tag
  <2>1. cmdOutQ \in Seq(BusCmd)
    BY <1>1, QueueTypes
  <2>2. 1 \in DOMAIN cmdOutQ
    BY <2>1
  <2> QED BY <1>1, <1>2, <2>2, QueueTypes
<1>4. PICK q, n : q = wrDataBufReqQ /\ n = Len(q)
  OBVIOUS
<1>5. q \in Seq(Tag) /\ n \in Nat /\ DOMAIN q = 1 .. n
  BY <1>1, <1>4 DEF UserTyped
<1>6. \A i \in 1 .. n : \E c \in Chip : Asking(c, q[i])
  BY <1>1, <1>4, <1>5 DEF AskedOnce
<1>7. \A i \in 1 .. n : ~Asking(d, q[i])
  <2>1. SUFFICES ASSUME NEW i \in 1 .. n, Asking(d, q[i]) PROVE FALSE
    OBVIOUS
  <2>2. Waiting(d) /\ Working(d).tag = q[i]
    BY <2>1 DEF Asking
  <2>3. ~StartQueued(d) /\ ~PollQueued(d)
    BY <1>1, <1>3, <2>2 DEF Waiting, RestStages, BusInv, Protocol, ChipsInStep, ChipInStep
  <2>4. IsBufReq(m)
    <3>1. m.busOp \notin StartOps /\ m.busOp \notin PollOps
      BY <1>2, <1>3, <2>3 DEF StartQueued, PollQueued, Queued
    <3> QED BY <1>3, <3>1 DEF BusCmd, IsBufReq
  <2>5. Asking(d, m.tag)
    BY <1>1, <1>2, <1>3, <2>4 DEF AskedOnce
  <2>6. m.tag = q[i]
    BY <2>2, <2>5 DEF Asking
  <2> QED BY <1>1, <1>2, <1>3, <1>4, <1>5, <2>4, <2>6 DEF AskedOnce
<1>8. PICK f : f = [i \in 1 .. n |-> CHOOSE c \in Chip : Asking(c, q[i])]
  OBVIOUS
<1>9. \A i \in 1 .. n : f[i] \in Chip /\ Asking(f[i], q[i])
  <2>1. ASSUME NEW i \in 1 .. n PROVE f[i] \in Chip /\ Asking(f[i], q[i])
    <3>1. PICK c \in Chip : Asking(c, q[i])
      BY <1>6, <2>1
    <3>2. f[i] = CHOOSE x \in Chip : Asking(x, q[i])
      BY <1>8, <2>1
    <3>3. PICK y : y = CHOOSE x \in Chip : Asking(x, q[i])
      OBVIOUS
    <3>4. y \in Chip /\ Asking(y, q[i])
      BY <3>1, <3>3
    <3>5. y = f[i]
      BY <3>2, <3>3
    <3> QED BY <3>4, <3>5 DEF Asking, Waiting, Working
  <2> QED BY <2>1
<1>10. f \in [1 .. n -> Chip \ {d}]
  <2>1. \A i \in 1 .. n : f[i] \in Chip \ {d}
    BY <1>7, <1>9
  <2> QED BY <1>8, <2>1
<1>11. \A i, j \in 1 .. n : f[i] = f[j] => i = j
  <2>1. ASSUME NEW i \in 1 .. n, NEW j \in 1 .. n, f[i] = f[j] PROVE i = j
    <3>1. Working(f[i]).tag = q[i] /\ Working(f[j]).tag = q[j]
      BY <1>9, <2>1 DEF Asking
    <3>2. q[i] = q[j]
      BY <2>1, <3>1
    <3> QED BY <1>1, <1>4, <1>5, <2>1, <3>2 DEF AskedOnce
  <2> QED BY <2>1
<1>12. /\ IsFiniteSet(Chip \ {d}) /\ Cardinality(Chip \ {d}) = NumChips - 1
       /\ IsFiniteSet(1 .. n) /\ Cardinality(1 .. n) = n
  <2>1. NumChips \in Nat \ {0} /\ 0 \in Int /\ NumChips - 1 \in Int
    BY ChipsExist
  <2>2. IsFiniteSet(Chip) /\ Cardinality(Chip) = NumChips
    <3>1. /\ IsFiniteSet(0 .. NumChips - 1)
          /\ Cardinality(0 .. NumChips - 1) = IF 0 > NumChips - 1 THEN 0 ELSE NumChips - 1 - 0 + 1
      BY <2>1, FS_Interval
    <3> QED BY <2>1, <3>1 DEF Chip
  <2>3. IsFiniteSet(Chip \ {d}) /\ Cardinality(Chip \ {d}) = NumChips - 1
    <3>1. /\ IsFiniteSet(Chip \ {d})
          /\ Cardinality(Chip \ {d}) = IF d \in Chip THEN Cardinality(Chip) - 1 ELSE Cardinality(Chip)
      BY <2>2, FS_RemoveElement
    <3> QED BY <1>3, <2>2, <3>1
  <2>4. IsFiniteSet(1 .. n) /\ Cardinality(1 .. n) = n
    <3>1. 1 \in Int /\ n \in Int
      BY <1>5
    <3>2. /\ IsFiniteSet(1 .. n)
          /\ Cardinality(1 .. n) = IF 1 > n THEN 0 ELSE n - 1 + 1
      BY <3>1, FS_Interval
    <3> QED BY <1>5, <3>2
  <2> QED BY <2>3, <2>4
<1>13. ~(NumChips - 1 < n)
  <2>1. SUFFICES ASSUME NumChips - 1 < n PROVE FALSE
    OBVIOUS
  <2>2. Cardinality(Chip \ {d}) < Cardinality(1 .. n)
    BY <1>12, <2>1
  <2>3. \E i, j \in 1 .. n : i # j /\ f[i] = f[j]
    BY <1>10, <1>12, <2>2, FS_PigeonHole
  <2> QED BY <1>11, <2>3
<1> QED BY <1>4, <1>5, <1>13, ChipsExist

\* A chip never has two statuses to look at, nor a page asked for twice: the
\* queues for them have room whenever the bus has a command to put into them.
\* A FIFO of the code holds two entries.
THEOREM QueuesHaveRoom ==
  ASSUME PageWords > 1, FifoDepth > 1 PROVE Spec => []QueuesNeverBlock
<1>1. UserInv => /\ state = "IDLE" /\ cmdOutQ # << >> =>
                      Len(wrDataBufReqQ) < NumChips /\ Len(wrDataTransReqQ) < NumChips
  <2> SUFFICES ASSUME UserInv, state = "IDLE", cmdOutQ # << >>
               PROVE  Len(wrDataBufReqQ) < NumChips /\ Len(wrDataTransReqQ) < NumChips
    OBVIOUS
  <2>1. wrDataTransReqQ = << >>
    BY DEF UserInv, PageInv, PipeInv, WritesInOrder, Transfers, Writing
  <2>2. Len(wrDataTransReqQ) = 0
    BY <2>1
  <2> QED BY <2>2, RequestsFewerThanChips, ChipsExist
<1>2. (\A c \in Chip : Len(chipBusy[c]) <= 1) /\ UserInv => \A c \in Chip : Len(chipBusy[c]) < FifoDepth
  <2> SUFFICES ASSUME \A c \in Chip : Len(chipBusy[c]) <= 1, UserInv, NEW c \in Chip
               PROVE  Len(chipBusy[c]) < FifoDepth
    OBVIOUS
  <2>1. PICK n : n = Len(chipBusy[c])
    OBVIOUS
  <2>2. n \in Nat /\ n <= 1 /\ FifoDepth \in Nat
    <3>1. chipBusy[c] \in Seq(BOOLEAN)
      BY DEF UserInv, BusInv, TypedInv, ScoreboardTyped
    <3> QED BY <2>1, <3>1, ChipAssumption
  <2> QED BY <2>1, <2>2
<1>3. UserInv /\ (\A c \in Chip : Len(chipBusy[c]) <= 1) => QueuesNeverBlock
  BY <1>1, <1>2 DEF QueuesNeverBlock
<1> QED BY <1>3, UserInvariant, OneStatusAtATime, PTL

-----------------------------------------------------------------------------
\* Each step of the controller is a step of its contract with the user, or
\* none that the user sees.
LEMMA UserStepped == UserInv /\ [Next]_vars => [User!Next]_ctrl
<1> SUFFICES ASSUME UserInv, [Next]_vars PROVE User!Next \/ UNCHANGED ctrl
  OBVIOUS
<1>0. BusInv /\ UserTyped /\ PlaceInv /\ UserCounts /\ AskedOnce /\ PageInv
  BY DEF UserInv, ReadInv
<1>1. ASSUME NEW job \in Jobs, SendCmd(job[1], job[2], job[3]) PROVE User!Next
  <2>1. PICK t \in Tag, op \in Op : t = job[1] /\ op = job[2]
    BY JobAssumption DEF Op
  <2>2. User!SendCmd(t, op)
    BY <1>1, <2>1 DEF SendCmd
  <2> QED BY <2>2 DEF User!Next, Op
<1>2. ASSUME NEW t \in Tag, WriteWord(t) PROVE User!Next
  BY <1>2 DEF WriteWord, User!Next
<1>3. CASE DoHandleWriteDataReq
  <2>1. PICK t : t = wrDataBufReqQ[1]
    OBVIOUS
  <2>2. /\ t \in Tag /\ ctrl[t].op = "WRITE_PAGE" /\ ~ctrl[t].asked
        /\ ctrl' = [ctrl EXCEPT ![t].asked = TRUE]
    BY <1>0, <1>3, <2>1, AskFacts
  <2>3. User!WriteDataReq(t)
    BY <2>2 DEF User!WriteDataReq
  <2> QED BY <2>2, <2>3 DEF User!Next
<1>4. CASE ReadWord
  <2>1. PICK t : t = readTagQ[1]
    OBVIOUS
  <2>2. /\ t \in Tag /\ ctrl[t].op = "READ_PAGE" /\ ctrl[t].cnt = rdWdCnt
        /\ rdWdCnt = PageWords - 1 => ctrl' = [ctrl EXCEPT ![t] = User!Free]
        /\ rdWdCnt # PageWords - 1 => ctrl' = [ctrl EXCEPT ![t].cnt = @ + 1]
    BY <1>0, <1>4, <2>1, ReadWordFacts
  <2>3. User!ReadWord(t)
    BY <2>2 DEF User!ReadWord
  <2> QED BY <2>2, <2>3 DEF User!Next
<1>5. CASE AckStatus
  <2>1. PICK t : t = ackQ[1]
    OBVIOUS
  <2>2. PICK p \in Seq(Tag) : PipeInv(p)
    BY <1>0 DEF PageInv
  <2>3. t \in Tag /\ ctrl' = [ctrl EXCEPT ![t] = User!Free]
    BY <1>0, <1>5, <2>1, AckStatusPlaces
  <2>4. ctrl[t].op = "ERASE_BLOCK" \/ (ctrl[t].op = "WRITE_PAGE" /\ ctrl[t].cnt = PageWords)
    BY <1>0, <1>5, <2>1, <2>2, AckFacts
  <2>5. User!AckStatus(t)
    BY <2>3, <2>4 DEF User!AckStatus
  <2> QED BY <2>3, <2>5 DEF User!Next
<1>6. CASE BusRule /\ UNCHANGED <<bufVars, ctrl>>
  BY <1>6
<1>7. CASE DoWriteFetchWait \/ DoWriteBufTransfer \/ SetWriteDataRdy \/ DoWriteDataTransferReq
           \/ DoWriteDataTransferToBus
  BY <1>7 DEF DoWriteFetchWait, DoWriteBufTransfer, SetWriteDataRdy, DoWriteDataTransferReq,
              DoWriteDataTransferToBus
<1>8. CASE UNCHANGED vars
  BY <1>8 DEF vars
<1> QED BY <1>1, <1>2, <1>3, <1>4, <1>5, <1>6, <1>7, <1>8 DEF Next, ControllerRule

\* The controller keeps its promise to the user, whatever the chips, tags and
\* jobs: a read gives all words of its page under its tag, a write takes its
\* data once it was asked for and not before, and is acked after it.
THEOREM ControllerKeepsPromise == ASSUME PageWords > 1 PROVE Spec => UserSpec
<1>1. Init => User!Init
  BY DEF Init
<1>2. UserInv /\ [Next]_vars => [User!Next]_ctrl
  BY UserStepped
<1> QED BY <1>1, <1>2, UserInvariant, PTL DEF Spec, UserSpec, User!Spec
=============================================================================
