----------------------------- MODULE FlashCtrlUser -----------------------------
(***************************************************************************)
(* What a flash controller promises its user (interface FlashCtrlUser in   *)
(* controller/src/common/ControllerTypes.bsv): a command is sent under a   *)
(* free tag; a page read comes as PageWords words under its tag; a page to *)
(* be written is asked for, once, before any of it is taken, and a write   *)
(* or an erase is acked once, a write only when it has all its data.       *)
(***************************************************************************)
EXTENDS Integers

CONSTANTS Tag, PageWords

VARIABLE ctrl    \* tag -> the command it is used for and how far that is

Free == [op |-> "none", asked |-> FALSE, cnt |-> 0]

Init == ctrl = [t \in Tag |-> Free]

SendCmd(t, op) ==
  /\ ctrl[t] = Free
  /\ ctrl' = [ctrl EXCEPT ![t].op = op]

ReadWord(t) ==
  /\ ctrl[t].op = "READ_PAGE"
  /\ ctrl' = IF ctrl[t].cnt = PageWords - 1 THEN [ctrl EXCEPT ![t] = Free]
              ELSE [ctrl EXCEPT ![t].cnt = @ + 1]

WriteDataReq(t) ==
  /\ ctrl[t].op = "WRITE_PAGE" /\ ~ctrl[t].asked
  /\ ctrl' = [ctrl EXCEPT ![t].asked = TRUE]

WriteWord(t) ==
  /\ ctrl[t].asked /\ ctrl[t].cnt < PageWords
  /\ ctrl' = [ctrl EXCEPT ![t].cnt = @ + 1]

AckStatus(t) ==
  /\ \/ ctrl[t].op = "ERASE_BLOCK"
     \/ ctrl[t].op = "WRITE_PAGE" /\ ctrl[t].cnt = PageWords
  /\ ctrl' = [ctrl EXCEPT ![t] = Free]

Next ==
  \E t \in Tag :
    \/ \E op \in {"READ_PAGE", "WRITE_PAGE", "ERASE_BLOCK"} : SendCmd(t, op)
    \/ ReadWord(t) \/ WriteDataReq(t) \/ WriteWord(t) \/ AckStatus(t)

Spec == Init /\ [][Next]_ctrl
=============================================================================
