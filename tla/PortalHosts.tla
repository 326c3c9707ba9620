------------------------------ MODULE PortalHosts ------------------------------
(***************************************************************************)
(* One of the portal programs with its board: the main thread, the portal  *)
(* thread and the board take turns in any order.                           *)
(***************************************************************************)
EXTENDS PortalTests, StringSearch, PageTags, KeyReducer, FlashInterface, QueueOps

\* A main() makes requests for pages, keys and commands by the functions of its
\* library only, and it is linked with one library.
Steps(p)     == {p.script[i] : i \in DOMAIN p.script}
Does(p, dos) == \E s \in Steps(p) : s.do \in dos
ASSUME ProgramsAssumption ==
  \A p \in Programs :
    /\ p.script \in Seq(Steps(p))
    /\ \A s \in Steps(p) :
         /\ s.do = "send" => s.req.kind \notin {"page", "sendKey", "flash"}
         /\ s.do = "takeTag" => s.op \in {"write", "read"}
    /\ Does(p, {"takeTag"}) => ~Does(p, {"sendMapData", "issue"})

keyVars == <<mapVars, reducerVars>>
vars == <<portalVars, testsVars, searchVars, pageVars, keyVars, interfaceVars>>

Init ==
  PortalInit /\ TestsInit /\ SearchInit /\ PageInit /\ MapInit /\ ReducerInit
    /\ InterfaceInit

Main ==
  \/ TestsMain     /\ UNCHANGED <<searchVars, pageVars, keyVars, interfaceVars>>
  \/ PageMain      /\ UNCHANGED <<testsVars, searchVars, keyVars, interfaceVars>>
  \/ MapMain       /\ UNCHANGED <<testsVars, searchVars, pageVars, reducerVars, interfaceVars>>
  \/ InterfaceMain /\ UNCHANGED <<testsVars, searchVars, pageVars, keyVars>>

PortalThread ==
  \/ TestsPortal     /\ UNCHANGED <<searchVars, pageVars, keyVars, interfaceVars>>
  \/ PagePortal      /\ UNCHANGED <<testsVars, searchVars, keyVars, interfaceVars>>
  \/ MapPortal       /\ UNCHANGED <<testsVars, searchVars, pageVars, reducerVars, interfaceVars>>
  \/ InterfacePortal /\ UNCHANGED <<testsVars, searchVars, pageVars, keyVars>>

Board ==
  \/ TestsBoard     /\ UNCHANGED <<searchVars, pageVars, keyVars, interfaceVars>>
  \/ SearchStep     /\ UNCHANGED <<testsVars, pageVars, keyVars, interfaceVars>>
  \/ PageBoard      /\ UNCHANGED <<testsVars, searchVars, keyVars, interfaceVars>>
  \/ MapBoard       /\ UNCHANGED <<testsVars, searchVars, pageVars, interfaceVars>>
  \/ InterfaceBoard /\ UNCHANGED <<testsVars, searchVars, pageVars, keyVars>>

Next == Main \/ PortalThread \/ Board

\* Both threads are scheduled again and again, and the board's clock runs.
Spec == Init /\ [][Next]_vars
FairSpec ==
  /\ Spec
  /\ WF_vars(Main) /\ WF_vars(PortalThread) /\ WF_vars(Board)
-----------------------------------------------------------------------------
TypeOK ==
  /\ program \in Programs
  /\ at \in {"start", "asleep", "load", "store", "beforeWait", "count", "send", "crashed"}
  /\ handler.pc \in {"idle", "i2cResult", "broadcast", "count", "requestWords"}
  /\ raced \in BOOLEAN /\ misprinted \in BOOLEAN
  /\ sem \in [Sem -> Nat] /\ flag \in [Flag -> BOOLEAN]
  /\ i2cReadData \in RegValue \cup {NoAnswer}
  /\ flashPage \in [0 .. 1 -> Content] /\ readBuffer \in Content
  /\ siReg \in [SiRegs -> {"factory", "configured"}]
  /\ found \in Seq(Nat) /\ worker \in {"running", "stopping", "done"}
  /\ setupCnt \in 0 .. NumMpEngines /\ startCnt \in 0 .. NumMpEngines
  /\ setsearch \in Seq(Tuple) /\ turn \in Engine /\ doneCnt \in Engine
  /\ engine \in [Engine -> EngineType]
  /\ readTagStatus \subseteq 0 .. (TagCount - 1) /\ pageReadTotal \in Nat
  /\ bluedbmCommand \in Seq([kind : {"page"}, op : {"write", "read"}, tag : 0 .. (TagCount - 1)])
  /\ reading \subseteq 0 .. (TagCount - 1) /\ writeTagQ \in Seq(0 .. (TagCount - 1))
  /\ curRequestedIn \in Nat /\ loaded \in Nat /\ bMrDone \in BOOLEAN
  /\ curInIn \in 0 .. InQSize /\ curInRequested \in Nat
  /\ totalReduceCnt \in 0 .. totalMapReq /\ Len(dirty.q) \in 0 .. TwoPlaces
  /\ bufferBusy \subseteq FlashOp \X Nat /\ bufidx \in Nat
  /\ curInFlight \in [FlashOp -> Nat] /\ curCmdCountBudget \in Nat
  /\ numReqsRequested \in Nat /\ started \in BOOLEAN

\* What a test prints is what it has asked for: a page after its erase or its
\* write, a register of the Si570 before and after its write, the number of
\* pages read, of which the portal thread may not have counted the last.
PrintsMatch == ~misprinted

\* A tag of the page library is marked as long as exactly one page uses it: in
\* a request, in one of the board's queues or in an indication on its way back.
PageTagsExclusive ==
  \A t \in 0 .. (TagCount - 1) :
    CountTagged(requests, {"page"}, t) + CountTagged(bluedbmCommand, {"page"}, t)
      + Cardinality(reading \cap {t}) + CountIn(writeTagQ, {t})
      + CountTagged(indications, {"pageWriteDone", "pageReadDone"}, t)
        = IF t \in readTagStatus THEN 1 ELSE 0

\* When the search has returned, what has been reported are occurrences of the
\* needle, each once, and among them all that end before the last byte of the
\* haystack: a border between two engines neither hides nor doubles one.  (No
\* needle of the programs overlaps itself.)
OccurrencesReported ==
  LET x == program.needle
      t == program.haystack
      Occurs(p) == \A k \in 1 .. Len(x) : t[p + k] = x[k]
  IN  Ended /\ x # <<>> =>
        /\ IsInjective(found)
        /\ ToSet(found) \subseteq {p \in 0 .. (Len(t) - Len(x)) : Occurs(p)}
        /\ {p \in 0 .. (Len(t) - Len(x) - 1) : Occurs(p)} \subseteq ToSet(found)

\* The engines find what the algorithm they implement finds (MPEngineBDBM.bsv:
\* "Implementation of: MP algorithm", MP of mp.h).
SearchIsMP ==
  Ended /\ program.needle # <<>> => ToSet(found) = MP(program.needle, program.haystack)

\* The commands and the keys a board waits for are those the host may still
\* send, has sent, or will learn of: neither side can grant or spend one twice.
GrantsExact ==
  /\ numReqsRequested =
       CmdGrant * Count(indications, "reqFlashCmd") + curCmdCountBudget
         + (IF at \in {"count", "send"} THEN 1 ELSE 0) + Count(requests, "flash")
  /\ raced \/
       curInRequested + (IF at \in {"load", "store"} THEN 1 ELSE 0) =
         Grant * Count(indications, "requestWords") + curRequestedIn
           + (IF handler.pc = "requestWords" THEN Grant ELSE 0) + Count(requests, "sendKey")

\* Whatever the host has been granted, is about to send or has sent, flashCmdQ has a
\* place for every command: requests never back up into the portal.
CmdQueueHasRoom ==
  CmdGrant * Count(indications, "reqFlashCmd") + curCmdCountBudget
    + (IF at \in {"count", "send"} THEN 1 ELSE 0) + Count(requests, "flash")
    + Len(flashCmdQ) =< CmdQSize

\* The host is told the end of a map-reduce only when every key it had to send has
\* been received and reduced.
DoneAfterKeys ==
  bMrDone \/ Count(indications, "mrDone") > 0 =>
    totalReduceCnt = Len(SelectSeq(program.script, LAMBDA s : s.do = "sendMapData"))

\* Every program ends or, for the flash emulation, reaches its status loop.  The
\* map-reduce feed and the page interface do unless an unlocked access has lost an
\* update or a wake-up.
ProgramsEnd ==
  LET excused == raced /\ Does(program, {"sendMapData", "waitIdleBuffer"})
  IN  <>(Ended \/ Doing("status") \/ excused)

\* projects/test prints that it has written and read its pages.
TestEnds == <>Ended
=============================================================================
