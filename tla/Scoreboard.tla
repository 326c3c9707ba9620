------------------------------ MODULE Scoreboard ------------------------------
(***************************************************************************)
(* The scoreboard of one NAND bus (mkScoreboard in                         *)
(* controller/src/hw_artix/Scoreboard.bsv).  It visits the chips in turn;  *)
(* each chip works on the command at the head of its queue, one stage at a *)
(* visit, and waits out a timer while the chip is expected to be busy.     *)
(* Rules are actions; interface methods are operators over the             *)
(* scoreboard's own variables, called by the rules of BusController.            *)
(***************************************************************************)
EXTENDS Integers, Sequences

CONSTANTS
  NumChips,       \* ChipsPerBus: chips of a bus, 8
  Tag,            \* tags of the flash controller
  ChipQDepth,     \* sbChipQDepth: commands queued for a chip, 8
  FifoDepth       \* depth of a mkFIFO, 2

ASSUME ChipAssumption ==
  {NumChips, ChipQDepth, FifoDepth} \subseteq Nat \ {0} /\ Tag \subseteq Nat

Chip == 0 .. NumChips - 1

VARIABLES
  chipQs,         \* chip -> commands, the one it works on first
  chipBusy,       \* chip -> statuses polled and not yet looked at
  busyTimers,     \* chip -> 1 while its timer runs, 0 when it is over
  chipStages,     \* chip -> stage of the command it works on
  cmdOutQ,        \* bus commands for the bus controller
  currChip,       \* chip visited now or next
  sbState,        \* NEXT_REQ or SERVICE_REQ
  wdataRdy        \* tag whose page is ready in the write buffer, or NoTag

sbVars == <<chipQs, chipBusy, busyTimers, chipStages, cmdOutQ, currChip,
            sbState, wdataRdy>>

NoTag == -1

\* The stage a command moves to when the bus command of its stage is issued,
\* and whether the timer starts: it does after a command that makes the chip
\* busy.  WRITE_CMD_DATA also waits for the page in the write buffer.
Issues ==
  [READ_PAGE   |-> [INIT      |-> [busOp |-> "READ_CMD", stage |-> "RD_ISSUED", timer |-> 1],
                    RD_ISSUED |-> [busOp |-> "GET_STATUS_READ_DATA", stage |-> "RD_DATA", timer |-> 0]],
   WRITE_PAGE  |-> [INIT      |-> [busOp |-> "WRITE_DATA_BUF_REQ", stage |-> "WR_BUF_REQ_ISSUED", timer |-> 0],
                    WR_BUF_REQ_ISSUED |-> [busOp |-> "WRITE_CMD_DATA", stage |-> "WR_ISSUED", timer |-> 1],
                    WR_ISSUED |-> [busOp |-> "WRITE_GET_STATUS", stage |-> "WAIT_STATUS", timer |-> 0]],
   ERASE_BLOCK |-> [INIT      |-> [busOp |-> "ERASE_CMD", stage |-> "ER_ISSUED", timer |-> 1],
                    ER_ISSUED |-> [busOp |-> "ERASE_GET_STATUS", stage |-> "WAIT_STATUS", timer |-> 0]]]

\* The stage from which the status is polled again when the chip is busy.
PollStage == [READ_PAGE |-> "RD_ISSUED", WRITE_PAGE |-> "WR_ISSUED",
              ERASE_BLOCK |-> "ER_ISSUED"]

currReq == Head(chipQs[currChip])
stage   == chipStages[currChip]

SBInit ==
  /\ chipQs = [c \in Chip |-> << >>]
  /\ chipBusy = [c \in Chip |-> << >>]
  /\ busyTimers = [c \in Chip |-> 0]
  /\ chipStages = [c \in Chip |-> "INIT"]
  /\ cmdOutQ = << >>
  /\ currChip = 0
  /\ sbState = "NEXT_REQ"
  /\ wdataRdy = NoTag

\* The next chip, without going back to the first.
NextChip_NoWrap == currChip + 1

NextChip == (currChip + 1) % NumChips

-----------------------------------------------------------------------------
DoChooseChip ==
  /\ sbState = "NEXT_REQ"
  /\ IF chipQs[currChip] # << >> /\ busyTimers[currChip] = 0
       THEN sbState' = "SERVICE_REQ" /\ UNCHANGED currChip
       ELSE currChip' = NextChip /\ UNCHANGED sbState
  /\ UNCHANGED <<chipQs, chipBusy, busyTimers, chipStages, cmdOutQ, wdataRdy>>

\* Whether the page to be written is the one in the write buffer; any page.
DataReady_AnyTag == wdataRdy # NoTag
DataReady == wdataRdy = currReq.tag

\* The chip moves to its next stage; the stage is left as it is.
MoveTo_Stays(next) ==
  /\ busyTimers' = [busyTimers EXCEPT ![currChip] = next.timer]
  /\ UNCHANGED chipStages
MoveTo(next) ==
  /\ chipStages' = [chipStages EXCEPT ![currChip] = next.stage]
  /\ busyTimers' = [busyTimers EXCEPT ![currChip] = next.timer]

\* The stage issues a bus command.
IssueBusCmd ==
  /\ stage \in DOMAIN Issues[currReq.op]
  /\ stage = "WR_BUF_REQ_ISSUED" => DataReady
  /\ Len(cmdOutQ) < FifoDepth
  /\ LET next == Issues[currReq.op][stage]
     IN /\ cmdOutQ' = Append(cmdOutQ,
             [tag |-> currReq.tag, busOp |-> next.busOp, chip |-> currReq.chip])
        /\ MoveTo(next)
  /\ UNCHANGED <<chipQs, chipBusy>>

\* The page to be written is not there yet.
WaitForData ==
  /\ stage = "WR_BUF_REQ_ISSUED"
  /\ ~DataReady
  /\ UNCHANGED <<chipQs, chipBusy, busyTimers, chipStages, cmdOutQ>>

\* The status that was polled: poll again later, or the command is done.
LookAtStatus ==
  /\ stage \in {"RD_DATA", "WAIT_STATUS"}
  /\ chipBusy[currChip] # << >>
  /\ LET busy == Head(chipBusy[currChip])
     IN /\ chipStages' = [chipStages EXCEPT ![currChip] =
                            IF busy THEN PollStage[currReq.op] ELSE "INIT"]
        /\ busyTimers' = IF busy THEN [busyTimers EXCEPT ![currChip] = 1]
                                 ELSE busyTimers
        /\ chipQs' = IF busy THEN chipQs ELSE [chipQs EXCEPT ![currChip] = Tail(@)]
  /\ chipBusy' = [chipBusy EXCEPT ![currChip] = Tail(@)]
  /\ UNCHANGED cmdOutQ

DoServiceReq ==
  /\ sbState = "SERVICE_REQ"
  /\ IssueBusCmd \/ WaitForData \/ LookAtStatus
  /\ sbState' = "NEXT_REQ"
  /\ currChip' = NextChip
  /\ UNCHANGED wdataRdy

\* The cycles a timer counts are left out: it runs out at some time.
DecBusyTimer(c) ==
  /\ busyTimers[c] > 0
  /\ busyTimers' = [busyTimers EXCEPT ![c] = 0]
  /\ UNCHANGED <<chipQs, chipBusy, chipStages, cmdOutQ, currChip, sbState, wdataRdy>>

SBRule == DoChooseChip \/ DoServiceReq \/ \E c \in Chip : DecBusyTimer(c)

-----------------------------------------------------------------------------
\* Methods.
CmdIn(cmd) ==
  /\ Len(chipQs[cmd.chip]) < ChipQDepth
  /\ chipQs' = [chipQs EXCEPT ![cmd.chip] = Append(@, cmd)]
  /\ UNCHANGED <<chipBusy, busyTimers, chipStages, cmdOutQ, currChip, sbState, wdataRdy>>

CmdOut ==
  /\ cmdOutQ # << >>
  /\ cmdOutQ' = Tail(cmdOutQ)
  /\ UNCHANGED <<chipQs, chipBusy, busyTimers, chipStages, currChip, sbState, wdataRdy>>

BusyIn(c, busy) ==
  /\ Len(chipBusy[c]) < FifoDepth
  /\ chipBusy' = [chipBusy EXCEPT ![c] = Append(@, busy)]
  /\ UNCHANGED <<chipQs, busyTimers, chipStages, cmdOutQ, currChip, sbState, wdataRdy>>

SetWdataRdy(tag) ==
  /\ wdataRdy' = tag
  /\ UNCHANGED <<chipQs, chipBusy, busyTimers, chipStages, cmdOutQ, currChip, sbState>>
=============================================================================
