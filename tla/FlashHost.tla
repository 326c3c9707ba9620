------------------------------- MODULE FlashHost -------------------------------
(***************************************************************************)
(* The host programs of the flash boards: a main thread that issues erases,*)
(* writes and reads under tags from three tag tables, and the portal's     *)
(* thread that runs the indications readDone, writeDone and eraseDone.     *)
(* The two share the tag tables, the in-flight counters, the block status  *)
(* table and the page buffers under one mutex; every critical section is   *)
(* one action.  The functions are those of flash_multinode/flash.cpp; the  *)
(* earlier single-node programs have the same ones without bad blocks.     *)
(* A program is the sequence of steps its main() performs                  *)
(* (HostPrograms), and several hosts may share the flash of all nodes.     *)
(***************************************************************************)
EXTENDS Naturals, Integers, Sequences, FiniteSets

CONSTANTS
  Host,         \* hosts, which are also the nodes
  Page,         \* pages used: records of node, bus, chip and blk
  Deployments,  \* the programs that may run, see DeploymentsAssumption
  BadSets,      \* possible sets of bad blocks
  MaxFaults     \* reads for which the flash may return a wrong page

Op  == {"erase", "write", "read"}

\* The steps of a main thread: a request for a page, a barrier, a request for a
\* random page, the beginning and the end of a test, and a wait for the operator.
Step == [do : Op, page : Page] \cup [do : {"wait"}, op : Op]
          \cup [do : {"random"}, pages : SUBSET Page]
          \cup [do : {"start"}, check : BOOLEAN] \cup [do : {"verdict", "key"}]

\* A deployment says what runs on every host, NUM_TAGS of the program, and
\* whether it records bad blocks.
ASSUME DeploymentsAssumption ==
  \A d \in Deployments : /\ d.script \in [Host -> Seq(Step)]
                         /\ d.numTags \in Nat /\ d.keepsBad \in BOOLEAN
ASSUME PageAssumption == Page # {}

\* Contents of the first word of a page: erased flash reads as -1, fresh
\* buffers and bad blocks as 0.
Erased == -1
Zero   == 0
HashAddrToData(p) ==
  134217728 * p.node + 16777216 * p.bus + 1048576 * p.chip + 65536 * p.blk
Data == {Erased, Zero} \cup {HashAddrToData(p) : p \in Page}

VARIABLES
  deployment,   \* the deployment, chosen once
  bad,          \* the bad blocks, chosen once
  script,       \* what the main thread of a host still has to do
  at,           \* where it is within the first step of its script
  tag,          \* its local variable tag
  busy,         \* tags taken in the tag tables
  entry,        \* pages in the read and erase tag tables
  inFlight,     \* curReadsInFlight, curWritesInFlight, curErasesInFlight
  flashStatus,  \* what the host believes of every block
  checkData,    \* g_checkdata
  testPass,     \* g_testpass
  verdict,      \* what the last test printed
  readBuffers, writeBuffers,
  requests,     \* requests at the device, and their indications on the way
  flash,        \* what the blocks hold
  faults,       \* wrong pages returned so far
  wrongRead     \* the test in progress was given a page that must fail it

\* Tags of each of the three tag tables.
Tag == 0 .. (deployment.numTags - 1)

mainVars   == <<script, at, tag>>
tableVars  == <<busy, entry, inFlight, flashStatus>>
testVars   == <<checkData, testPass, verdict, wrongRead>>
deviceVars == <<requests, flash, faults>>
vars == <<deployment, bad, mainVars, tableVars, testVars, deviceVars,
          readBuffers, writeBuffers>>

\* Tag tables, status and buffers as set up before the device is started.
Init ==
  /\ deployment \in Deployments
  /\ bad \in BadSets
  /\ script = deployment.script
  /\ at = [h \in Host |-> "loop"]
  /\ tag = [h \in Host |-> 0]
  /\ busy = [h \in Host |-> [o \in Op |-> {}]]
  /\ entry = [h \in Host |-> [o \in Op |-> [t \in Tag |-> CHOOSE p \in Page : TRUE]]]
  /\ inFlight = [h \in Host |-> [o \in Op |-> 0]]
  /\ flashStatus = [h \in Host |-> [p \in Page |-> "UNINIT"]]
  /\ checkData = [h \in Host |-> TRUE]
  /\ testPass = [h \in Host |-> TRUE]
  /\ verdict = [h \in Host |-> "none"]
  /\ readBuffers = [h \in Host |-> [t \in Tag |-> Zero]]
  /\ writeBuffers = [h \in Host |-> [t \in Tag |-> Zero]]
  /\ requests = {}
  /\ flash = [p \in Page |-> Zero]
  /\ faults = 0
  /\ wrongRead = [h \in Host |-> FALSE]
-----------------------------------------------------------------------------
(* The main thread. *)

Doing(h, what) == script[h] # <<>> /\ Head(script[h]).do = what
Continue(h)    == script' = [script EXCEPT ![h] = Tail(@)]
Goto(h, where) == at' = [at EXCEPT ![h] = where]

\* waitIdleEraseTag, waitIdleWriteBuffer, waitIdleReadBuffer: the loop goes
\* round until a tag is free, and takes the first.
WaitIdleTag(h, o) ==
  /\ Doing(h, o) /\ at[h] = "loop"
  /\ \E t \in Tag :
       /\ t \notin busy[h][o] /\ \A u \in Tag : u < t => u \in busy[h][o]
       /\ busy' = [busy EXCEPT ![h][o] = @ \cup {t}]
       /\ tag' = [tag EXCEPT ![h] = t]
  /\ Goto(h, "register")
  /\ UNCHANGED <<deployment, bad, script, entry, inFlight, flashStatus,
                 testVars, deviceVars, readBuffers, writeBuffers>>

\* Mutant: the counter is left to the indication alone.
Register_NoCount(h, o, p) ==
  /\ Doing(h, o) /\ at[h] = "register" /\ p = Head(script[h]).page
  /\ Goto(h, "send")
  /\ UNCHANGED <<deployment, bad, script, tag, busy, inFlight, testVars, deviceVars,
                 readBuffers>>

\* What eraseBlock, writePage and readPage do under the lock.
Register(h, o, p) ==
  /\ Doing(h, o) /\ at[h] = "register" /\ p = Head(script[h]).page
  /\ inFlight' = [inFlight EXCEPT ![h][o] = @ + 1]
  /\ Goto(h, "send")
  /\ UNCHANGED <<deployment, bad, script, tag, busy, testVars, deviceVars,
                 readBuffers>>

SetEntry(h, o, p) == entry' = [entry EXCEPT ![h][o][tag[h]] = p]
SetStatus(h, p, s) == flashStatus' = [flashStatus EXCEPT ![h][p] = s]

EraseBlock(h, p) ==
  /\ Register(h, "erase", p)
  /\ SetEntry(h, "erase", p)
  /\ SetStatus(h, p, "ERASED")
  /\ UNCHANGED writeBuffers

\* Mutant: the first buffer is filled, whatever the tag.
FillBuffer_First(h, p) ==
  writeBuffers' = IF checkData[h]
                  THEN [writeBuffers EXCEPT ![h][0] = HashAddrToData(p)]
                  ELSE writeBuffers

\* The caller fills the buffer first, if pages are to be checked.
FillBuffer(h, p) ==
  writeBuffers' = IF checkData[h]
                  THEN [writeBuffers EXCEPT ![h][tag[h]] = HashAddrToData(p)]
                  ELSE writeBuffers

WritePage(h, p) ==
  /\ Register(h, "write", p)
  /\ FillBuffer(h, p)
  /\ SetStatus(h, p, IF flashStatus[h][p] = "BAD" THEN "BAD" ELSE "WRITTEN")
  /\ UNCHANGED entry

ReadPage(h, p) ==
  /\ Register(h, "read", p)
  /\ SetEntry(h, "read", p)
  /\ UNCHANGED <<flashStatus, writeBuffers>>

\* The call of the device, after the lock is released.
SendRequest(h) ==
  /\ at[h] = "send"
  /\ requests' = requests \cup
       {[host |-> h, op |-> Head(script[h]).do, tag |-> tag[h],
         page |-> Head(script[h]).page, stage |-> "sent"]}
  /\ Continue(h) /\ Goto(h, "loop")
  /\ UNCHANGED <<deployment, bad, tag, tableVars, testVars, flash, faults,
                 readBuffers, writeBuffers>>

\* Mutant: the barrier lets the last request be.
Barrier_Early(h) ==
  /\ Doing(h, "wait") /\ inFlight[h][Head(script[h]).op] <= 1
  /\ Continue(h)
  /\ UNCHANGED <<deployment, bad, at, tag, tableVars, testVars, deviceVars,
                 readBuffers, writeBuffers>>

\* Mutant: no wait before another request of the same kind.
Barrier_BetweenKinds(h) ==
  /\ Doing(h, "wait")
  /\ \/ inFlight[h][Head(script[h]).op] = 0
     \/ Len(script[h]) > 1 /\ script[h][2].do = Head(script[h]).op
  /\ Continue(h)
  /\ UNCHANGED <<deployment, bad, at, tag, tableVars, testVars, deviceVars,
                 readBuffers, writeBuffers>>

\* while (true) if (getNum...InFlight() == 0) break;  without the lock.
Barrier(h) ==
  /\ Doing(h, "wait") /\ inFlight[h][Head(script[h]).op] = 0
  /\ Continue(h)
  /\ UNCHANGED <<deployment, bad, at, tag, tableVars, testVars, deviceVars,
                 readBuffers, writeBuffers>>

\* A page picked by rand() for the read that follows.
RandomPage(h) ==
  /\ Doing(h, "random")
  /\ \E p \in Head(script[h]).pages :
       script' = [script EXCEPT ![h] = <<[do |-> "read", page |-> p]>> \o Tail(@)]
  /\ UNCHANGED <<deployment, bad, at, tag, tableVars, testVars, deviceVars,
                 readBuffers, writeBuffers>>

\* A test begins with g_checkdata = check; g_testpass = true.
StartTest(h) ==
  /\ Doing(h, "start") /\ Continue(h)
  /\ verdict' = [verdict EXCEPT ![h] = "none"]
  /\ checkData' = [checkData EXCEPT ![h] = Head(script[h]).check]
  /\ testPass' = [testPass EXCEPT ![h] = TRUE]
  /\ wrongRead' = [wrongRead EXCEPT ![h] = FALSE]
  /\ UNCHANGED <<deployment, bad, at, tag, tableVars, deviceVars, readBuffers,
                 writeBuffers>>

\* and ends with the line it prints.
PrintVerdict(h) ==
  /\ Doing(h, "verdict") /\ Continue(h)
  /\ verdict' = [verdict EXCEPT ![h] =
       IF ~checkData[h] THEN "unchecked" ELSE IF testPass[h] THEN "passed" ELSE "failed"]
  /\ UNCHANGED <<deployment, bad, at, tag, tableVars, checkData, testPass,
                 wrongRead, deviceVars, readBuffers, writeBuffers>>

\* "Press any key to continue..": the operator goes on when every host waits.
PressKeys ==
  /\ \A h \in Host : Doing(h, "key")
  /\ script' = [h \in Host |-> Tail(script[h])]
  /\ UNCHANGED <<deployment, bad, at, tag, tableVars, testVars, deviceVars,
                 readBuffers, writeBuffers>>
-----------------------------------------------------------------------------
(* The flash: requests complete in any order. *)

Answered(r, s) == requests' = (requests \ {r}) \cup {[r EXCEPT !.stage = s]}

\* A bad block fails its erase, keeps what it held, and reads as 0.
CompleteErase(r) ==
  /\ r.op = "erase" /\ r.stage = "sent"
  /\ IF r.page \in bad
     THEN Answered(r, "bad") /\ UNCHANGED flash
     ELSE Answered(r, "done") /\ flash' = [flash EXCEPT ![r.page] = Erased]
  /\ UNCHANGED <<deployment, bad, mainVars, tableVars, testVars, faults,
                 readBuffers, writeBuffers>>

CompleteWrite(r) ==
  /\ r.op = "write" /\ r.stage = "sent"
  /\ Answered(r, "done")
  /\ flash' = IF r.page \in bad THEN flash
              ELSE [flash EXCEPT ![r.page] = writeBuffers[r.host][r.tag]]
  /\ UNCHANGED <<deployment, bad, mainVars, tableVars, testVars, faults,
                 readBuffers, writeBuffers>>

\* What a test must not accept, given what the host has done to the page.
MustFail(h, p, d) ==
  \/ flashStatus[h][p] = "WRITTEN" /\ d # HashAddrToData(p)
  \/ flashStatus[h][p] = "ERASED" /\ d \notin {Erased, Zero}

\* Some reads return another page's data.
CompleteRead(r) ==
  /\ r.op = "read" /\ r.stage = "sent"
  /\ \E d \in {flash[r.page]} \cup (IF faults < MaxFaults THEN Data ELSE {}) :
       /\ readBuffers' = [readBuffers EXCEPT ![r.host][r.tag] = d]
       /\ faults' = IF d = flash[r.page] THEN faults ELSE faults + 1
       /\ wrongRead' = [wrongRead EXCEPT ![r.host] =
            @ \/ (checkData[r.host] /\ MustFail(r.host, r.page, d))]
  /\ Answered(r, "done")
  /\ UNCHANGED <<deployment, bad, mainVars, tableVars, checkData, testPass,
                 verdict, flash, writeBuffers>>
-----------------------------------------------------------------------------
(* The indication thread. *)

\* checkReadData: what readDone finds before it takes the lock.
CheckReadData(h, t) ==
  LET p == entry[h]["read"][t]
      d == readBuffers[h][t]
  IN  CASE flashStatus[h][p] = "WRITTEN" -> d = HashAddrToData(p)
        [] flashStatus[h][p] = "ERASED"  -> d \in {Erased, Zero}
        [] flashStatus[h][p] = "BAD"     -> TRUE
        [] OTHER -> FALSE

\* The indication thread is inside readDone, between check and lock.
Checking(h) == \E r \in requests : r.host = h /\ r.stage = "checked"

\* Mutant: the tag is given back with the check.
ReadDoneCheck_FreesTag(r) ==
  /\ r.op = "read" /\ r.stage = "done" /\ ~Checking(r.host)
  /\ Answered(r, "checked")
  /\ testPass' = [testPass EXCEPT ![r.host] =
       @ /\ (checkData[r.host] => CheckReadData(r.host, r.tag))]
  /\ busy' = [busy EXCEPT ![r.host][r.op] = @ \ {r.tag}]
  /\ UNCHANGED <<deployment, bad, mainVars, entry, inFlight, flashStatus, checkData,
                 verdict, wrongRead, flash, faults, readBuffers, writeBuffers>>

ReadDoneCheck(r) ==
  /\ r.op = "read" /\ r.stage = "done" /\ ~Checking(r.host)
  /\ Answered(r, "checked")
  /\ testPass' = [testPass EXCEPT ![r.host] =
       @ /\ (checkData[r.host] => CheckReadData(r.host, r.tag))]
  /\ UNCHANGED <<deployment, bad, mainVars, tableVars, checkData, verdict,
                 wrongRead, flash, faults, readBuffers, writeBuffers>>

\* The critical section every indication ends in.
Release(r) ==
  LET h == r.host
  IN  /\ inFlight' = [inFlight EXCEPT ![h][r.op] = IF @ = 0 THEN 0 ELSE @ - 1]
      /\ testPass' = [testPass EXCEPT ![h] = @ /\ r.tag \in busy[h][r.op]]
      /\ busy' = [busy EXCEPT ![h][r.op] = @ \ {r.tag}]
      /\ requests' = requests \ {r}
      /\ UNCHANGED <<deployment, bad, mainVars, entry, checkData, verdict,
                     wrongRead, flash, faults, readBuffers, writeBuffers>>

ReadDone(r) ==
  /\ r.op = "read" /\ r.stage = "checked"
  /\ Release(r) /\ UNCHANGED flashStatus

WriteDone(r) ==
  /\ r.op = "write" /\ r.stage = "done" /\ ~Checking(r.host)
  /\ Release(r) /\ UNCHANGED flashStatus

\* Mutant: the bad block is logged and not recorded.
EraseDone_OnlyLogs(r) ==
  /\ r.op = "erase" /\ r.stage \in {"done", "bad"} /\ ~Checking(r.host)
  /\ Release(r)
  /\ UNCHANGED flashStatus

\* flash_multinode records bad blocks, the single-node programs only log them.
EraseDone(r) ==
  /\ r.op = "erase" /\ r.stage \in {"done", "bad"} /\ ~Checking(r.host)
  /\ Release(r)
  /\ IF r.stage = "bad" /\ deployment.keepsBad
     THEN SetStatus(r.host, entry[r.host]["erase"][r.tag], "BAD")
     ELSE UNCHANGED flashStatus
-----------------------------------------------------------------------------
MainStep(h) ==
  \/ \E o \in Op : WaitIdleTag(h, o)
  \/ \E p \in Page : EraseBlock(h, p) \/ WritePage(h, p) \/ ReadPage(h, p)
  \/ SendRequest(h) \/ Barrier(h) \/ RandomPage(h) \/ StartTest(h) \/ PrintVerdict(h)

Complete(r) == CompleteErase(r) \/ CompleteWrite(r) \/ CompleteRead(r)

Indicate(r) == ReadDoneCheck(r) \/ ReadDone(r) \/ WriteDone(r) \/ EraseDone(r)

\* Every main() has returned or sleeps for ever.
Finished ==
  /\ \A h \in Host : script[h] = <<>>
  /\ requests = {}
  /\ UNCHANGED vars

Next ==
  \/ \E h \in Host : MainStep(h)
  \/ PressKeys
  \/ \E r \in requests : Complete(r) \/ Indicate(r)
  \/ Finished

Spec == Init /\ [][Next]_vars
-----------------------------------------------------------------------------
\* Types of the tables, buffers and counters the threads share.
TypeOK ==
  /\ script \in [Host -> Seq(Step)]
  /\ at \in [Host -> {"loop", "register", "send"}]
  /\ tag \in [Host -> Nat]
  /\ busy \in [Host -> [Op -> SUBSET Tag]]
  /\ inFlight \in [Host -> [Op -> Nat]]
  /\ entry \in [Host -> [Op -> [Tag -> Page]]]
  /\ flashStatus \in [Host -> [Page -> {"UNINIT", "ERASED", "WRITTEN", "BAD"}]]
  /\ requests \subseteq [host : Host, op : Op, tag : Tag, page : Page,
                         stage : {"sent", "done", "bad", "checked"}]

\* A request keeps its tag to itself until its indication has been handled:
\* the tag is busy, no other request has it, and the tables name its page, so
\* that neither buffer nor entry is used twice at a time.
TagsOwned ==
  /\ \A r \in requests :
       /\ r.tag \in busy[r.host][r.op]
       /\ r.op # "write" => entry[r.host][r.op][r.tag] = r.page
  /\ \A r, s \in requests : r.host = s.host /\ r.op = s.op /\ r.tag = s.tag => r = s

Of(h, o) == {r \in requests : r.host = h /\ r.op = o}

\* The counters that the main thread reads without the lock are exact: a
\* barrier that finds 0 has seen every request answered and its indication
\* handled, and the code that mends negative counters never runs.
CountersExact ==
  \A h \in Host, o \in Op :
    inFlight[h][o] = Cardinality(Of(h, o)) + (IF at[h] = "send" /\ Doing(h, o) THEN 1 ELSE 0)

\* A page being erased or written is used by no other request of any host, as
\* the barriers between the phases and the blocks given to each node promise.
PagesNotContended ==
  \A r, s \in requests : r # s /\ r.page = s.page => r.op = "read" /\ s.op = "read"

\* A read that is checked meets on the flash what its host believes is there,
\* bad blocks apart: the status of the block, the buffer the page was written
\* from and the work of other hosts agree.
FlashMatchesStatus ==
  \A r \in requests :
    r.op = "read" /\ r.stage = "sent" /\ checkData[r.host] /\ r.page \notin bad =>
      CASE flashStatus[r.host][r.page] = "ERASED"  -> flash[r.page] = Erased
        [] flashStatus[r.host][r.page] = "WRITTEN" -> flash[r.page] = HashAddrToData(r.page)
        [] OTHER -> FALSE

\* The verdict takes in every page read: a test passes only if no read returned
\* what the check must not accept, and fails only if one did, which takes a flash
\* that erred or a bad block that the program does not record.
VerdictExact ==
  \A h \in Host :
    /\ verdict[h] = "passed" => ~wrongRead[h]
    /\ verdict[h] = "failed" =>
         wrongRead[h] /\ (faults > 0 \/ (bad # {} /\ ~deployment.keepsBad))

\* "Issue each bus separately for now" (flash_connectal/main.cpp:426): the
\* programs that keep to it never have two buses write at once.
OneBusWrites ==
  deployment.name \in {"connectal", "xbsv", "flashaccess"} =>
    \A r, s \in requests : r.op = "write" /\ s.op = "write" => r.page.bus = s.page.bus
-----------------------------------------------------------------------------
(* What the main() of every deployment keeps to.  The properties of the flash *)
(* and of the tests hold because of it.                                       *)

\* The pages a step of a script may use, and for what.
IsRequest(s) == s.do \in Op \cup {"random"}
Uses(s)      == IF s.do \in Op THEN {s.page} ELSE IF s.do = "random" THEN s.pages ELSE {}
OpOf(s)      == IF s.do = "random" THEN "read" ELSE s.do

\* Requests of kinds o and u for the pages p and q are not to be under way at
\* once: the page is the same, or a program that issues each bus separately
\* writes two.
OneBus(d) == d.name \in {"connectal", "xbsv", "flashaccess"}
Clash(d, o, p, u, q) ==
  \/ p = q /\ ~(o = "read" /\ u = "read")
  \/ OneBus(d) /\ o = "write" /\ u = "write" /\ p.bus # q.bus
ClashesWith(d, o, p, s) == \E q \in Uses(s) : Clash(d, o, p, OpOf(s), q)

\* A request is waited for before one that clashes with it, and before a test
\* begins or ends.
EndsPart(s)      == s.do \in {"key", "start", "verdict"}
WaitsFor(s, o)   == s.do = "wait" /\ s.op = o
WaitsBetween(d, s) ==
  \A i, j \in DOMAIN s : \A p \in Uses(s[i]) :
    i < j /\ (ClashesWith(d, OpOf(s[i]), p, s[j]) \/ EndsPart(s[j])) =>
      \E k \in (i + 1) .. (j - 1) : WaitsFor(s[k], OpOf(s[i]))

\* Requests of two hosts clash only with a key pressed between them.
KeysBefore(s, i) == Cardinality({k \in 1 .. (i - 1) : s[k].do = "key"})
HostsApart(d, scripts) ==
  \A g, h \in Host : g # h =>
    \A i \in DOMAIN scripts[g], j \in DOMAIN scripts[h] : \A p \in Uses(scripts[g][i]) :
      ClashesWith(d, OpOf(scripts[g][i]), p, scripts[h][j]) =>
        KeysBefore(scripts[g], i) # KeysBefore(scripts[h], j)

\* A test erases a page before it reads or writes it.
TakesPage(s, p)  == s.do \in {"read", "write", "random"} /\ p \in Uses(s)
Erases(s, p)     == s.do = "erase" /\ s.page = p
ErasedBetween(s, i, j, p) == \E k \in (i + 1) .. (j - 1) : Erases(s[k], p)
ErasesAgain(s) ==
  \A i, j \in DOMAIN s, p \in Page :
    i < j /\ s[i].do \in {"key", "start"} /\ TakesPage(s[j], p) => ErasedBetween(s, i, j, p)
ErasesFirst(s) ==
  \A j \in DOMAIN s, p \in Page : TakesPage(s[j], p) => ErasedBetween(s, 0, j, p)

\* Nothing is requested between two tests.
StartsAgain(s) ==
  \A i, j \in DOMAIN s : i < j /\ s[i].do = "verdict" /\ IsRequest(s[j]) =>
    \E k \in (i + 1) .. (j - 1) : s[k].do = "start"

Disciplined(d) ==
  /\ \A h \in Host : LET s == d.script[h]
                     IN  /\ WaitsBetween(d, s)
                         /\ ErasesFirst(s) /\ ErasesAgain(s) /\ StartsAgain(s)
  /\ HostsApart(d, d.script)
=============================================================================
