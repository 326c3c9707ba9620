------------------------------- MODULE PageTags -------------------------------
(***************************************************************************)
(* The page library of the flash emulation: writePage, readPage and        *)
(* waitTagFlush share one table of tags under a mutex and sleep on one     *)
(* condition variable; pageReadDone broadcasts, and counts the page, after *)
(* it has released the mutex.  A critical section is one action.  The      *)
(* client is the page test at the end of platform().                       *)
(***************************************************************************)
EXTENDS Portal, FiniteSetsExt

CONSTANTS
  TagCount,       \* TAG_COUNT, 64 in the code
  WriteTagCount   \* WRITE_TAG_COUNT, 1 in the code

ASSUME TagCountsAssumption ==
  TagCount \in Nat /\ WriteTagCount \in 1 .. TagCount

VARIABLES
  readTagStatus,  \* the tags in use
  pageReadTotal,  \* pages read
  bluedbmCommand, \* requests the board has taken
  reading,        \* tags of the pages it reads
  writeTagQ       \* tags of the pages it fetches, to write them

pageHostVars  == <<readTagStatus, pageReadTotal>>
pageBoardVars == <<bluedbmCommand, reading, writeTagQ>>
pageVars      == <<pageHostVars, pageBoardVars>>

\* writePage uses the first tags of the table only.
TagsFor(op) == 0 .. ((IF op = "write" THEN WriteTagCount ELSE TagCount) - 1)

TakeTag(op) == <<[do |-> "takeTag", op |-> op]>>
WaitTagFlush == <<[do |-> "waitTagFlush"]>>

\* w pages are written, then r pages read, and the total is printed.
PageTest(w, r) ==
  [i \in 1 .. w |-> TakeTag("write")[1]] \o WaitTagFlush
    \o [i \in 1 .. r |-> TakeTag("read")[1]] \o WaitTagFlush
    \o <<[do |-> "printTotal", reads |-> r]>>

PageInit ==
  /\ readTagStatus = {} /\ pageReadTotal = 0
  /\ bluedbmCommand = <<>> /\ reading = {} /\ writeTagQ = <<>>
-----------------------------------------------------------------------------
\* Mutant: a write does not mark its tag.
DoTakeTag_MarksReads ==
  /\ Doing("takeTag") /\ at = "start"
  /\ LET free == TagsFor(Step.op) \ readTagStatus
     IN  \/ /\ free # {}
            /\ readTagStatus' = IF Step.op = "read" THEN readTagStatus \cup {Min(free)}
                                                    ELSE readTagStatus
            /\ Request([kind |-> "page", op |-> Step.op, tag |-> Min(free)])
            /\ Proceed /\ UNCHANGED at
         \/ /\ free = {}
            /\ at' = "asleep" /\ UNCHANGED <<readTagStatus, requests, script>>
  /\ UNCHANGED <<program, indications, handler, raced, misprinted, pageReadTotal, pageBoardVars>>

\* writePage and readPage: the first free tag, or sleep.
DoTakeTag ==
  /\ Doing("takeTag") /\ at = "start"
  /\ LET free == TagsFor(Step.op) \ readTagStatus
     IN  \/ /\ free # {}
            /\ readTagStatus' = readTagStatus \cup {Min(free)}
            /\ Request([kind |-> "page", op |-> Step.op, tag |-> Min(free)])
            /\ Proceed /\ UNCHANGED at
         \/ /\ free = {}
            /\ at' = "asleep" /\ UNCHANGED <<readTagStatus, requests, script>>
  /\ UNCHANGED <<program, indications, handler, raced, misprinted, pageReadTotal, pageBoardVars>>

DoWaitTagFlush ==
  /\ Doing("waitTagFlush") /\ at = "start"
  /\ \/ readTagStatus = {} /\ Proceed /\ UNCHANGED at
     \/ readTagStatus # {} /\ at' = "asleep" /\ UNCHANGED script
  /\ UNCHANGED <<program, requests, indications, handler, raced, misprinted, pageVars>>

\* The portal thread may still be about to count the last page.
DoPrintTotal ==
  /\ Doing("printTotal") /\ Proceed
  /\ misprinted' = (misprinted \/ pageReadTotal \notin {Step.reads - 1, Step.reads})
  /\ UNCHANGED <<program, at, requests, indications, handler, raced, pageVars>>

PageMain == DoTakeTag \/ DoWaitTagFlush \/ DoPrintTotal
-----------------------------------------------------------------------------
(* pageWriteFail is sent for tags from 64 up only, which the library never  *)
(* uses; it does what pageWriteDone does but for the count.                *)

\* pthread_cond_broadcast: a sleeping main thread looks at the table again.
WakeUp == at' = "start"

\* Mutant: the condition variable is left alone.
PageWriteDone_NoBroadcast ==
  /\ Handle("pageWriteDone")
  /\ readTagStatus' = readTagStatus \ {Indication.tag}
  /\ UNCHANGED <<program, script, at, requests, handler, raced, misprinted, pageReadTotal, pageBoardVars>>

PageWriteDone ==
  /\ Handle("pageWriteDone")
  /\ readTagStatus' = readTagStatus \ {Indication.tag}
  /\ WakeUp
  /\ UNCHANGED <<program, script, requests, handler, raced, misprinted, pageReadTotal, pageBoardVars>>

PageReadDone ==
  /\ \/ /\ Handle("pageReadDone")
        /\ readTagStatus' = readTagStatus \ {Indication.tag}
        /\ handler' = [pc |-> "broadcast", arg |-> 0]
        /\ UNCHANGED <<at, pageReadTotal>>
     \/ /\ handler.pc = "broadcast" /\ WakeUp
        /\ handler' = [pc |-> "count", arg |-> 0]
        /\ UNCHANGED <<indications, readTagStatus, pageReadTotal>>
     \/ /\ handler.pc = "count"
        /\ pageReadTotal' = pageReadTotal + 1
        /\ handler' = Idle
        /\ UNCHANGED <<indications, readTagStatus, at>>
  /\ UNCHANGED <<program, script, requests, raced, misprinted, pageBoardVars>>

PagePortal == PageWriteDone \/ PageReadDone

pageHostUnchanged ==
  UNCHANGED <<program, script, at, handler, raced, misprinted, pageHostVars>>

\* readPage and writePage of the board; it has a place for every tag.
TakePage ==
  /\ Receive("page") /\ Len(bluedbmCommand) < TagCount
  /\ bluedbmCommand' = Append(bluedbmCommand, Head(requests))
  /\ pageHostUnchanged
  /\ UNCHANGED <<indications, reading, writeTagQ>>

\* The flash is given the page number; a page to be written is fetched from the
\* host's memory, one after the other.
GetCommand ==
  /\ bluedbmCommand # <<>>
  /\ bluedbmCommand' = Tail(bluedbmCommand)
  /\ LET c == Head(bluedbmCommand)
     IN  IF c.op = "read"
           THEN reading' = reading \cup {c.tag} /\ UNCHANGED writeTagQ
           ELSE /\ Len(writeTagQ) < TagCount
                /\ writeTagQ' = Append(writeTagQ, c.tag) /\ UNCHANGED reading
  /\ pageHostUnchanged
  /\ UNCHANGED <<requests, indications>>

\* Pages being read come in bursts of 16 words, in any order; the host is told when
\* the last burst of a page is begun.
StartWriteFlush ==
  /\ \E t \in reading :
       /\ Indicate([kind |-> "pageReadDone", tag |-> t])
       /\ reading' = reading \ {t}
  /\ pageHostUnchanged
  /\ UNCHANGED <<requests, bluedbmCommand, writeTagQ>>

\* The last word of a page to be written has been fetched.
ReadWord ==
  /\ writeTagQ # <<>>
  /\ Indicate([kind |-> "pageWriteDone", tag |-> Head(writeTagQ)])
  /\ writeTagQ' = Tail(writeTagQ)
  /\ pageHostUnchanged
  /\ UNCHANGED <<requests, bluedbmCommand, reading>>

PageBoard == TakePage \/ GetCommand \/ StartWriteFlush \/ ReadWord
=============================================================================
