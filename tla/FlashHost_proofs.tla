--------------------------- MODULE FlashHost_proofs ---------------------------
(***************************************************************************)
(* The tag tables and the in-flight counters of the host programs are      *)
(* right for any hosts, pages, numbers of tags and scripts.  The pages of  *)
(* disciplined programs are not contended, what their hosts believe of the *)
(* flash is so, and the verdicts of their tests are exact.                 *)
(***************************************************************************)
EXTENDS FlashHost, FiniteSetTheorems, SequenceTheorems, TLAPS

\* The main thread is inside a request only for the request its script is at.
InRequest ==
  \A h \in Host : at[h] # "loop" => script[h] # <<>> /\ Head(script[h]).do \in Op

\* The tag it holds meanwhile is busy, no request at the device has it, and
\* before the call of the device the table names the page.
HoldsTag ==
  \A h \in Host : at[h] # "loop" =>
    LET o == Head(script[h]).do
    IN  /\ tag[h] \in busy[h][o]
        /\ \A r \in requests : r.host = h /\ r.op = o => r.tag # tag[h]
        /\ at[h] = "send" /\ o # "write" => entry[h][o][tag[h]] = Head(script[h]).page

TableInv ==
  /\ deployment \in Deployments
  /\ TypeOK
  /\ InRequest
  /\ HoldsTag
  /\ TagsOwned

Requesting(h, o) == at[h] = "send" /\ Doing(h, o)

CountInv == IsFiniteSet(requests) /\ CountersExact

\* A step of a script is removed whole, and a request names a page.
LEMMA ScriptStep ==
  ASSUME NEW s \in Seq(Step), s # <<>>
  PROVE  /\ Head(s) \in Step /\ Tail(s) \in Seq(Step)
         /\ Head(s).do \in Op => Head(s).page \in Page
<1>1. Head(s) \in Step /\ Tail(s) \in Seq(Step)
  BY HeadTailProperties
<1>2. ASSUME NEW e \in Step, e.do \in Op PROVE e.page \in Page
  BY <1>2 DEF Step, Op
<1> QED BY <1>1, <1>2

\* The table invariant holds at first.
LEMMA InitTable == Init => TableInv
<1> SUFFICES ASSUME Init PROVE TableInv
  OBVIOUS
<1>1. deployment \in Deployments /\ script \in [Host -> Seq(Step)]
  BY DeploymentsAssumption DEF Init
<1>2. (CHOOSE p \in Page : TRUE) \in Page
  BY PageAssumption
<1>3. TypeOK
  BY <1>1, <1>2 DEF Init, TypeOK, Tag
<1> QED BY <1>1, <1>3 DEF Init, TableInv, InRequest, HoldsTag, TagsOwned

\* Taking a tag: it was not busy, so no request has it.
LEMMA WaitIdleTagKeeps ==
  ASSUME TableInv, NEW h \in Host, NEW o \in Op, WaitIdleTag(h, o)
  PROVE  TableInv'
<1>0. TypeOK /\ InRequest /\ HoldsTag /\ TagsOwned /\ deployment \in Deployments
  BY DEF TableInv
<1> USE <1>0
<1>1. PICK t \in Tag : /\ t \notin busy[h][o]
                       /\ busy' = [busy EXCEPT ![h][o] = @ \cup {t}]
                       /\ tag' = [tag EXCEPT ![h] = t]
  BY DEF WaitIdleTag
<1>2. t \in Nat
  BY DEF Tag
<1>3. at' = [at EXCEPT ![h] = "register"] /\ at[h] = "loop"
  BY DEF WaitIdleTag, Goto
<1>4. UNCHANGED <<deployment, script, requests, entry, inFlight, flashStatus>>
  BY DEF WaitIdleTag, deviceVars
<1>5. TypeOK'
  BY <1>1, <1>2, <1>3, <1>4 DEF TypeOK, Tag
<1>6. InRequest'
  BY <1>3, <1>4 DEF InRequest, WaitIdleTag, Doing, TypeOK
<1>7. \A r \in requests : r.host \in Host /\ r.op \in Op
  BY DEF TypeOK
<1>8. \A k \in Host, q \in Op : busy[k][q] \subseteq busy'[k][q]
  BY <1>1 DEF TypeOK
<1>9. TagsOwned'
  BY <1>4, <1>7, <1>8 DEF TagsOwned
<1>10. Head(script[h]).do = o
  BY DEF WaitIdleTag, Doing
<1>11. \A r \in requests : r.host = h /\ r.op = o => r.tag # t
  BY <1>1 DEF TagsOwned
<1>12. HoldsTag'
  <2> SUFFICES ASSUME NEW k \in Host, at'[k] # "loop"
               PROVE  LET q == Head(script[k]).do
                      IN  /\ tag'[k] \in busy'[k][q]
                          /\ \A r \in requests : r.host = k /\ r.op = q => r.tag # tag'[k]
                          /\ at'[k] = "send" /\ q # "write" =>
                               entry[k][q][tag'[k]] = Head(script[k]).page
    BY <1>4 DEF HoldsTag
  <2>1. CASE k = h
    BY <2>1, <1>1, <1>3, <1>10, <1>11 DEF TypeOK
  <2>2. CASE k # h
    <3>1. tag'[k] = tag[k] /\ at'[k] = at[k]
      BY <2>2, <1>1, <1>3 DEF TypeOK
    <3>2. Head(script[k]).do \in Op
      BY <3>1 DEF InRequest
    <3> QED BY <3>1, <3>2, <1>8 DEF HoldsTag
  <2> QED BY <2>1, <2>2
<1> QED BY <1>4, <1>5, <1>6, <1>9, <1>12 DEF TableInv

\* What the three registrations have in common.
LEMMA RegisterKeeps ==
  ASSUME TableInv, NEW h \in Host, NEW o \in Op, NEW p \in Page, Register(h, o, p),
         entry' = [entry EXCEPT ![h][o][tag[h]] = p] \/ (o = "write" /\ entry' = entry),
         flashStatus' \in [Host -> [Page -> {"UNINIT", "ERASED", "WRITTEN", "BAD"}]]
  PROVE  TableInv'
<1>0. TypeOK /\ InRequest /\ HoldsTag /\ TagsOwned /\ deployment \in Deployments
  BY DEF TableInv
<1> USE <1>0
<1>1. /\ at' = [at EXCEPT ![h] = "send"] /\ at[h] = "register"
      /\ Head(script[h]).do = o /\ Head(script[h]).page = p
      /\ inFlight' = [inFlight EXCEPT ![h][o] = @ + 1]
      /\ UNCHANGED <<deployment, script, tag, busy, requests>>
  BY DEF Register, Goto, Doing, deviceVars
<1>a. tag[h] \in busy[h][o]
  BY <1>1 DEF HoldsTag
<1>b. busy[h][o] \subseteq Tag
  BY DEF TypeOK
<1>2. tag[h] \in busy[h][o] /\ tag[h] \in Tag
  BY <1>a, <1>b
<1>c. entry \in [Host -> [Op -> [Tag -> Page]]]
  BY DEF TypeOK
<1>3. entry' \in [Host -> [Op -> [Tag -> Page]]]
  <2>1. [entry EXCEPT ![h][o][tag[h]] = p] \in [Host -> [Op -> [Tag -> Page]]]
    <3>1. \A t \in Tag :
            [entry EXCEPT ![h][o][t] = p] \in [Host -> [Op -> [Tag -> Page]]]
      <4> TAKE t \in Tag
      <4>1. [entry[h][o] EXCEPT ![t] = p] \in [Tag -> Page]
        BY <1>c
      <4>2. [entry[h] EXCEPT ![o][t] = p] \in [Op -> [Tag -> Page]]
        BY <4>1, <1>c
      <4> QED BY <4>2, <1>c
    <3> QED BY <3>1, <1>2
  <2>2. entry' = entry \/ entry' = [entry EXCEPT ![h][o][tag[h]] = p]
    OBVIOUS
  <2> HIDE <1>0
  <2> QED BY <2>1, <2>2, <1>c
<1>d. o # "write" => entry'[h][o][tag[h]] = p
  BY <1>2, <1>c
<1>e. inFlight' \in [Host -> [Op -> Nat]] /\ at' \in [Host -> {"loop", "register", "send"}]
  BY <1>1 DEF TypeOK
<1>f. Tag' = Tag
  BY <1>1 DEF Tag
<1>4. TypeOK'
  BY <1>1, <1>3, <1>e, <1>f DEF TypeOK
<1>5. InRequest'
  BY <1>1 DEF InRequest, TypeOK
<1>6. ASSUME NEW k \in Host, NEW q \in Op, NEW t \in Tag, <<k, q, t>> # <<h, o, tag[h]>>
      PROVE  entry'[k][q][t] = entry[k][q][t]
  BY <1>6, <1>2 DEF TypeOK
<1>7. \A r \in requests : <<r.host, r.op, r.tag>> # <<h, o, tag[h]>>
  BY <1>1 DEF HoldsTag
<1>8. \A r \in requests : r.host \in Host /\ r.op \in Op /\ r.tag \in Tag
  BY DEF TypeOK
<1>9. TagsOwned'
  BY <1>1, <1>6, <1>7, <1>8 DEF TagsOwned
<1>10. HoldsTag'
  <2> SUFFICES ASSUME NEW k \in Host, at'[k] # "loop"
               PROVE  LET q == Head(script[k]).do
                      IN  /\ tag[k] \in busy[k][q]
                          /\ \A r \in requests : r.host = k /\ r.op = q => r.tag # tag[k]
                          /\ at'[k] = "send" /\ q # "write" =>
                               entry'[k][q][tag[k]] = Head(script[k]).page
    BY <1>1 DEF HoldsTag
  <2>1. CASE k = h
    BY <2>1, <1>1, <1>a, <1>d DEF HoldsTag
  <2>2. CASE k # h
    <3>1. at'[k] = at[k]
      BY <2>2, <1>1 DEF TypeOK
    <3>2. Head(script[k]).do \in Op /\ tag[k] \in busy[k][Head(script[k]).do]
      BY <3>1 DEF InRequest, HoldsTag
    <3>3. tag[k] \in Tag
      BY <3>2 DEF TypeOK
    <3>4. entry'[k][Head(script[k]).do][tag[k]] = entry[k][Head(script[k]).do][tag[k]]
      BY <3>2, <3>3, <1>6, <2>2
    <3> QED BY <3>1, <3>4 DEF HoldsTag
  <2> QED BY <2>1, <2>2
<1> QED BY <1>1, <1>4, <1>5, <1>9, <1>10 DEF TableInv

\* eraseBlock, writePage and readPage take an idle tag for one request.
LEMMA RegistrationsKeep ==
  ASSUME TableInv, NEW h \in Host, NEW p \in Page,
         EraseBlock(h, p) \/ WritePage(h, p) \/ ReadPage(h, p)
  PROVE  TableInv'
<1>0. flashStatus \in [Host -> [Page -> {"UNINIT", "ERASED", "WRITTEN", "BAD"}]]
  BY DEF TableInv, TypeOK
<1>1. ASSUME EraseBlock(h, p) PROVE TableInv'
  <2>1. "erase" \in Op /\ Register(h, "erase", p)
    BY <1>1 DEF EraseBlock, Op
  <2>2. entry' = [entry EXCEPT ![h]["erase"][tag[h]] = p]
    BY <1>1 DEF EraseBlock, SetEntry
  <2>3. flashStatus' \in [Host -> [Page -> {"UNINIT", "ERASED", "WRITTEN", "BAD"}]]
    BY <1>0, <1>1 DEF EraseBlock, SetStatus
  <2> QED BY <2>1, <2>2, <2>3, RegisterKeeps
<1>2. ASSUME WritePage(h, p) PROVE TableInv'
  <2>1. "write" \in Op /\ Register(h, "write", p) /\ entry' = entry
    BY <1>2 DEF WritePage, Op
  <2>2. flashStatus' \in [Host -> [Page -> {"UNINIT", "ERASED", "WRITTEN", "BAD"}]]
    BY <1>0, <1>2 DEF WritePage, SetStatus
  <2> QED BY <2>1, <2>2, RegisterKeeps
<1>3. ASSUME ReadPage(h, p) PROVE TableInv'
  <2>1. "read" \in Op /\ Register(h, "read", p)
    BY <1>3 DEF ReadPage, Op
  <2>2. entry' = [entry EXCEPT ![h]["read"][tag[h]] = p] /\ flashStatus' = flashStatus
    BY <1>3 DEF ReadPage, SetEntry
  <2> QED BY <1>0, <2>1, <2>2, RegisterKeeps
<1> QED BY <1>1, <1>2, <1>3

\* The tag goes from the main thread to the request.
LEMMA SendRequestKeeps ==
  ASSUME TableInv, NEW h \in Host, SendRequest(h)
  PROVE  TableInv'
<1>0. TypeOK /\ InRequest /\ HoldsTag /\ TagsOwned /\ deployment \in Deployments
  BY DEF TableInv
<1> USE <1>0
<1> DEFINE o == Head(script[h]).do
           q == [host |-> h, op |-> o, tag |-> tag[h], page |-> Head(script[h]).page,
                 stage |-> "sent"]
<1>1. /\ at[h] = "send" /\ at' = [at EXCEPT ![h] = "loop"]
      /\ requests' = requests \cup {q}
      /\ script' = [script EXCEPT ![h] = Tail(@)]
      /\ UNCHANGED <<deployment, tag, busy, entry, inFlight, flashStatus>>
  BY DEF SendRequest, Goto, Continue, tableVars
<1>2. script[h] # <<>> /\ o \in Op
  BY <1>1 DEF InRequest
<1>3. tag[h] \in busy[h][o] /\ (o # "write" => entry[h][o][tag[h]] = q.page)
  BY <1>1 DEF HoldsTag
<1>4. \A r \in requests : r.host = h /\ r.op = o => r.tag # tag[h]
  BY <1>1 DEF HoldsTag
<1>5. script[h] \in Seq(Step)
  BY DEF TypeOK
<1>6. q.page \in Page /\ Tail(script[h]) \in Seq(Step)
  BY <1>2, <1>5, ScriptStep
<1>7. busy[h][o] \subseteq Tag
  BY <1>2 DEF TypeOK
<1>8. q \in [host : Host, op : Op, tag : Tag, page : Page,
             stage : {"sent", "done", "bad", "checked"}]
  BY <1>2, <1>3, <1>6, <1>7
<1>9. Tag' = Tag
  BY <1>1 DEF Tag
<1> HIDE DEF q, o
<1>10. TypeOK'
  BY <1>1, <1>6, <1>8, <1>9 DEF TypeOK
<1>11. InRequest'
  BY <1>1 DEF InRequest, TypeOK
<1>12. TagsOwned'
  BY <1>1, <1>3, <1>4 DEF TagsOwned, q
<1>13. HoldsTag'
  <2> SUFFICES ASSUME NEW k \in Host, at'[k] # "loop"
               PROVE  LET u == Head(script'[k]).do
                      IN  /\ tag[k] \in busy[k][u]
                          /\ \A r \in requests' : r.host = k /\ r.op = u => r.tag # tag[k]
                          /\ at'[k] = "send" /\ u # "write" =>
                               entry[k][u][tag[k]] = Head(script'[k]).page
    BY <1>1 DEF HoldsTag
  <2>1. k # h /\ at'[k] = at[k] /\ script'[k] = script[k]
    BY <1>1 DEF TypeOK
  <2> QED BY <1>1, <2>1 DEF HoldsTag, q
<1> QED BY <1>1, <1>10, <1>11, <1>12, <1>13 DEF TableInv

\* Steps that only move scripts on, of threads that are in no request.
LEMMA ScriptsMove ==
  ASSUME TableInv, script' \in [Host -> Seq(Step)],
         \A h \in Host : at[h] # "loop" => script'[h] = script[h],
         UNCHANGED <<deployment, at, tag, tableVars, requests>>
  PROVE  TableInv'
<1>0. TypeOK /\ InRequest /\ HoldsTag /\ TagsOwned /\ deployment \in Deployments
  BY DEF TableInv
<1>1. UNCHANGED <<deployment, at, tag, busy, entry, inFlight, flashStatus, requests>>
  BY DEF tableVars
<1>2. Tag' = Tag
  BY <1>1 DEF Tag
<1>3. TypeOK'
  BY <1>0, <1>1, <1>2 DEF TypeOK
<1>4. InRequest'
  BY <1>0, <1>1 DEF InRequest
<1>5. HoldsTag'
  BY <1>0, <1>1 DEF HoldsTag
<1>6. TagsOwned'
  BY <1>0, <1>1 DEF TagsOwned
<1> QED BY <1>0, <1>1, <1>3, <1>4, <1>5, <1>6 DEF TableInv

\* The steps of main that call none of them leave tags and requests alone.
LEMMA OtherStepsKeep ==
  ASSUME TableInv, NEW h \in Host,
         Barrier(h) \/ RandomPage(h) \/ StartTest(h) \/ PrintVerdict(h)
  PROVE  TableInv'
<1>0. TypeOK /\ InRequest
  BY DEF TableInv
<1>1. UNCHANGED <<deployment, at, tag, tableVars, requests>>
  BY DEF Barrier, RandomPage, StartTest, PrintVerdict, deviceVars
<1>2. script[h] # <<>> /\ Head(script[h]).do \notin Op
  BY DEF Barrier, RandomPage, StartTest, PrintVerdict, Doing, Op
<1>3. script[h] \in Seq(Step) /\ Head(script[h]) \in Step /\ Tail(script[h]) \in Seq(Step)
  BY <1>0, <1>2, ScriptStep DEF TypeOK
<1>4. \E s \in Seq(Step) : script' = [script EXCEPT ![h] = s]
  <2>1. ASSUME RandomPage(h) PROVE \E s \in Seq(Step) : script' = [script EXCEPT ![h] = s]
    <3>1. PICK p \in Head(script[h]).pages :
            script' = [script EXCEPT ![h] = <<[do |-> "read", page |-> p]>> \o Tail(@)]
      BY <2>1 DEF RandomPage
    <3>2. p \in Page
      BY <1>3, <2>1 DEF Step, RandomPage, Doing, Op
    <3>3. <<[do |-> "read", page |-> p]>> \in Seq(Step)
      BY <3>2 DEF Step, Op
    <3>4. <<[do |-> "read", page |-> p]>> \o Tail(script[h]) \in Seq(Step)
      BY <1>3, <3>3
    <3> QED BY <3>1, <3>4, <1>0 DEF TypeOK
  <2>2. ASSUME Barrier(h) \/ StartTest(h) \/ PrintVerdict(h)
        PROVE  script' = [script EXCEPT ![h] = Tail(script[h])]
    BY <2>2 DEF Barrier, StartTest, PrintVerdict, Continue
  <2> QED BY <2>1, <2>2, <1>3
<1>5. at[h] = "loop"
  BY <1>0, <1>2 DEF InRequest
<1>6. script' \in [Host -> Seq(Step)]
  BY <1>0, <1>4 DEF TypeOK
<1>7. \A k \in Host : at[k] # "loop" => script'[k] = script[k]
  BY <1>0, <1>4, <1>5 DEF TypeOK
<1> QED BY <1>1, <1>6, <1>7, ScriptsMove

\* A key pressed leaves tags and requests alone.
LEMMA PressKeysKeeps ==
  ASSUME TableInv, PressKeys
  PROVE  TableInv'
<1>0. TypeOK /\ InRequest
  BY DEF TableInv
<1>1. UNCHANGED <<deployment, at, tag, tableVars, requests>>
  BY DEF PressKeys, deviceVars
<1>2. script' = [h \in Host |-> Tail(script[h])]
  BY DEF PressKeys
<1>3. \A h \in Host : script[h] # <<>> /\ Head(script[h]).do \notin Op
  BY DEF PressKeys, Doing, Op
<1>4. \A h \in Host : at[h] = "loop"
  BY <1>0, <1>3 DEF InRequest
<1>5. \A h \in Host : Tail(script[h]) \in Seq(Step)
  BY <1>0, <1>3, ScriptStep DEF TypeOK
<1>6. script' \in [Host -> Seq(Step)]
  BY <1>2, <1>5
<1> QED BY <1>1, <1>4, <1>6, ScriptsMove

\* The flash answers, or readDone has checked: host, tag and page stay.
LEMMA AnsweredKeeps ==
  ASSUME TableInv, NEW r \in requests, NEW s \in {"done", "bad", "checked"},
         Answered(r, s), UNCHANGED <<deployment, mainVars, tableVars>>
  PROVE  TableInv'
<1>0. TypeOK /\ InRequest /\ HoldsTag /\ TagsOwned /\ deployment \in Deployments
  BY DEF TableInv
<1> DEFINE q == [r EXCEPT !.stage = s]
<1>1. UNCHANGED <<deployment, script, at, tag, busy, entry, inFlight, flashStatus>>
  BY DEF mainVars, tableVars
<1>2. requests' = (requests \ {r}) \cup {q}
  BY DEF Answered
<1>3. Tag' = Tag
  BY <1>1 DEF Tag
<1>4. r \in [host : Host, op : Op, tag : Tag, page : Page,
             stage : {"sent", "done", "bad", "checked"}]
  BY <1>0 DEF TypeOK
<1>5. /\ q \in [host : Host, op : Op, tag : Tag, page : Page,
                stage : {"sent", "done", "bad", "checked"}]
      /\ q.host = r.host /\ q.op = r.op /\ q.tag = r.tag /\ q.page = r.page
  BY <1>4
<1> HIDE DEF q
<1>6. TypeOK'
  BY <1>0, <1>1, <1>2, <1>3, <1>5 DEF TypeOK
<1>7. InRequest'
  BY <1>0, <1>1 DEF InRequest
<1>8. HoldsTag'
  BY <1>0, <1>1, <1>2, <1>5 DEF HoldsTag
<1>9. TagsOwned'
  BY <1>0, <1>1, <1>2, <1>5 DEF TagsOwned
<1> QED BY <1>0, <1>1, <1>6, <1>7, <1>8, <1>9 DEF TableInv

\* The device answers a request that is still out.
LEMMA CompletesKeep ==
  ASSUME TableInv, NEW r \in requests, Complete(r) \/ ReadDoneCheck(r)
  PROVE  TableInv'
<1>1. UNCHANGED <<deployment, mainVars, tableVars>>
  BY DEF Complete, CompleteErase, CompleteWrite, CompleteRead, ReadDoneCheck
<1>2. Answered(r, "done") \/ Answered(r, "bad") \/ Answered(r, "checked")
  BY DEF Complete, CompleteErase, CompleteWrite, CompleteRead, ReadDoneCheck
<1> QED BY <1>1, <1>2, AnsweredKeeps

\* The indication gives up the tag together with the request that had it.
LEMMA ReleaseKeeps ==
  ASSUME TableInv, NEW r \in requests, Release(r),
         flashStatus' \in [Host -> [Page -> {"UNINIT", "ERASED", "WRITTEN", "BAD"}]]
  PROVE  TableInv'
<1>0. TypeOK /\ InRequest /\ HoldsTag /\ TagsOwned /\ deployment \in Deployments
  BY DEF TableInv
<1>1. /\ UNCHANGED <<deployment, script, at, tag, entry>>
      /\ requests' = requests \ {r}
      /\ busy' = [busy EXCEPT ![r.host][r.op] = @ \ {r.tag}]
      /\ inFlight' = [inFlight EXCEPT ![r.host][r.op] = IF @ = 0 THEN 0 ELSE @ - 1]
  BY DEF Release, mainVars
<1>2. Tag' = Tag
  BY <1>1 DEF Tag
<1>3. r.host \in Host /\ r.op \in Op /\ r.tag \in Tag
  BY <1>0 DEF TypeOK
<1>4. busy' \in [Host -> [Op -> SUBSET Tag]]
  BY <1>0, <1>1 DEF TypeOK
<1>5. inFlight' \in [Host -> [Op -> Nat]]
  BY <1>0, <1>1 DEF TypeOK
<1>6. TypeOK'
  BY <1>0, <1>1, <1>2, <1>4, <1>5 DEF TypeOK
<1>7. InRequest'
  BY <1>0, <1>1 DEF InRequest
<1>8. ASSUME NEW k \in Host, NEW o \in Op, NEW t \in busy[k][o], t \notin busy'[k][o]
      PROVE  k = r.host /\ o = r.op /\ t = r.tag
  BY <1>0, <1>1, <1>3, <1>8 DEF TypeOK
<1>9. TagsOwned'
  <2>1. \A u \in requests' : u \in requests /\ u # r /\ u.host \in Host /\ u.op \in Op
    BY <1>0, <1>1 DEF TypeOK
  <2>2. \A u \in requests' : ~(u.host = r.host /\ u.op = r.op /\ u.tag = r.tag)
    BY <1>0, <2>1 DEF TagsOwned
  <2>3. \A u \in requests' : u.tag \in busy'[u.host][u.op]
    BY <1>0, <1>8, <2>1, <2>2 DEF TagsOwned
  <2> QED BY <1>0, <1>1, <2>1, <2>3 DEF TagsOwned
<1>10. HoldsTag'
  <2> SUFFICES ASSUME NEW k \in Host, at[k] # "loop"
               PROVE  LET u == Head(script[k]).do
                      IN  /\ tag[k] \in busy'[k][u]
                          /\ \A v \in requests' : v.host = k /\ v.op = u => v.tag # tag[k]
                          /\ at[k] = "send" /\ u # "write" =>
                               entry[k][u][tag[k]] = Head(script[k]).page
    BY <1>1 DEF HoldsTag
  <2> DEFINE u == Head(script[k]).do
  <2>1. u \in Op
    BY <1>0 DEF InRequest
  <2>2. tag[k] \in busy[k][u] /\ (r.host = k /\ r.op = u => r.tag # tag[k])
    BY <1>0 DEF HoldsTag
  <2>3. tag[k] \in busy'[k][u]
    BY <2>1, <2>2, <1>8
  <2> QED BY <1>0, <1>1, <2>3 DEF HoldsTag
<1> QED BY <1>0, <1>1, <1>6, <1>7, <1>9, <1>10 DEF TableInv

\* An indication frees the tag of a request that is answered.
LEMMA IndicationsKeep ==
  ASSUME TableInv, NEW r \in requests, ReadDone(r) \/ WriteDone(r) \/ EraseDone(r)
  PROVE  TableInv'
<1>1. flashStatus \in [Host -> [Page -> {"UNINIT", "ERASED", "WRITTEN", "BAD"}]]
  BY DEF TableInv, TypeOK
<1>2. flashStatus' \in [Host -> [Page -> {"UNINIT", "ERASED", "WRITTEN", "BAD"}]]
  BY <1>1 DEF ReadDone, WriteDone, EraseDone, SetStatus
<1>3. Release(r)
  BY DEF ReadDone, WriteDone, EraseDone
<1> QED BY <1>2, <1>3, ReleaseKeeps

\* Every step keeps the table invariant.
LEMMA NextTable == TableInv /\ [Next]_vars => TableInv'
<1> SUFFICES ASSUME TableInv, [Next]_vars PROVE TableInv'
  OBVIOUS
<1>1. ASSUME NEW h \in Host, MainStep(h) PROVE TableInv'
  BY <1>1, WaitIdleTagKeeps, RegistrationsKeep, SendRequestKeeps, OtherStepsKeep
     DEF MainStep
<1>2. ASSUME NEW r \in requests, Complete(r) \/ Indicate(r) PROVE TableInv'
  BY <1>2, CompletesKeep, IndicationsKeep DEF Indicate
<1>3. CASE UNCHANGED vars
  BY <1>3 DEF vars, mainVars, tableVars, deviceVars, TableInv, TypeOK, InRequest,
              HoldsTag, TagsOwned, Tag
<1> QED BY <1>1, <1>2, <1>3, PressKeysKeeps DEF Next, Finished

\* The tables and counters that main thread and indications share keep their
\* types, whatever the program, the tags and the hosts.
THEOREM TablesTyped == Spec => []TypeOK
<1>1. TableInv => TypeOK
  BY DEF TableInv
<1> QED BY <1>1, InitTable, NextTable, PTL DEF Spec

\* No tag, buffer or table entry is used by two requests at a time: a tag is
\* taken before its request is sent and given back after its indication.
THEOREM RequestsOwnTheirTags == Spec => []TagsOwned
<1>1. TableInv => TagsOwned
  BY DEF TableInv
<1> QED BY <1>1, InitTable, NextTable, PTL DEF Spec
-----------------------------------------------------------------------------
(* The counters. *)

\* The requests of a host and kind are finitely many.
LEMMA OfFinite ==
  ASSUME IsFiniteSet(requests), NEW h, NEW o
  PROVE  IsFiniteSet(Of(h, o)) /\ Cardinality(Of(h, o)) \in Nat
BY FS_Subset, FS_CardinalityType DEF Of

\* Steps that leave requests and counters alone, and no thread before a call.
LEMMA CountsStay ==
  ASSUME TableInv, CountInv, UNCHANGED <<inFlight, requests>>,
         \A h \in Host, o \in Op : Requesting(h, o)' = Requesting(h, o)
  PROVE  CountInv'
BY DEF CountInv, CountersExact, Of, Requesting

\* A request is counted before it is sent ...
LEMMA RegisterCounts ==
  ASSUME TableInv, CountInv, NEW h \in Host, NEW o \in Op, NEW p \in Page, Register(h, o, p)
  PROVE  CountInv'
<1>1. /\ at' = [at EXCEPT ![h] = "send"] /\ at[h] = "register"
      /\ script[h] # <<>> /\ Head(script[h]).do = o
      /\ inFlight' = [inFlight EXCEPT ![h][o] = @ + 1]
      /\ UNCHANGED <<script, requests>>
  BY DEF Register, Goto, Doing, deviceVars
<1>2. inFlight \in [Host -> [Op -> Nat]] /\ at \in [Host -> {"loop", "register", "send"}]
  BY DEF TableInv, TypeOK
<1> SUFFICES ASSUME NEW k \in Host, NEW u \in Op
             PROVE  inFlight'[k][u] = Cardinality(Of(k, u)) + IF Requesting(k, u)' THEN 1 ELSE 0
  BY <1>1 DEF CountInv, CountersExact, Of, Requesting
<1>3. inFlight[k][u] = Cardinality(Of(k, u)) + (IF Requesting(k, u) THEN 1 ELSE 0)
  BY DEF CountInv, CountersExact, Requesting
<1>4. Cardinality(Of(k, u)) \in Nat
  BY OfFinite DEF CountInv
<1>5. CASE k = h /\ u = o
  BY <1>1, <1>2, <1>3, <1>4, <1>5 DEF Requesting, Doing
<1>6. CASE ~(k = h /\ u = o)
  <2>1. inFlight'[k][u] = inFlight[k][u]
    BY <1>1, <1>2, <1>6
  <2>2. Requesting(k, u)' = Requesting(k, u)
    BY <1>1, <1>2, <1>6 DEF Requesting, Doing
  <2> QED BY <1>3, <2>1, <2>2
<1> QED BY <1>5, <1>6

\* ... stays counted when it is ...
LEMMA SendCounts ==
  ASSUME TableInv, CountInv, NEW h \in Host, SendRequest(h)
  PROVE  CountInv'
<1> DEFINE o == Head(script[h]).do
           q == [host |-> h, op |-> o, tag |-> tag[h], page |-> Head(script[h]).page,
                 stage |-> "sent"]
<1>1. /\ at[h] = "send" /\ at' = [at EXCEPT ![h] = "loop"]
      /\ requests' = requests \cup {q}
      /\ script' = [script EXCEPT ![h] = Tail(@)]
      /\ inFlight' = inFlight
  BY DEF SendRequest, Goto, Continue, tableVars
<1>2. /\ at \in [Host -> {"loop", "register", "send"}]
      /\ script \in [Host -> Seq(Step)]
  BY DEF TableInv, TypeOK
<1>3. script[h] # <<>> /\ o \in Op
  BY <1>1 DEF TableInv, InRequest
<1>4. q \notin requests
  BY <1>1 DEF TableInv, HoldsTag
<1>5. q.host = h /\ q.op = o
  OBVIOUS
<1> HIDE DEF q, o
<1>6. IsFiniteSet(requests) /\ IsFiniteSet(requests')
  BY <1>1, FS_AddElement DEF CountInv
<1> SUFFICES ASSUME NEW k \in Host, NEW u \in Op
             PROVE  inFlight[k][u] = Cardinality(Of(k, u)') + IF Requesting(k, u)' THEN 1 ELSE 0
  BY <1>1, <1>6 DEF CountInv, CountersExact, Requesting
<1>7. inFlight[k][u] = Cardinality(Of(k, u)) + (IF Requesting(k, u) THEN 1 ELSE 0)
  BY DEF CountInv, CountersExact, Requesting
<1>8. IsFiniteSet(Of(k, u)) /\ Cardinality(Of(k, u)) \in Nat
  BY <1>6, OfFinite
<1>9. CASE k = h /\ u = o
  <2>1. Requesting(k, u) /\ ~Requesting(k, u)'
    BY <1>1, <1>2, <1>3, <1>9 DEF Requesting, Doing, o
  <2>2. Of(k, u)' = Of(k, u) \cup {q} /\ q \notin Of(k, u)
    BY <1>1, <1>4, <1>5, <1>9 DEF Of
  <2>3. Cardinality(Of(k, u)') = Cardinality(Of(k, u)) + 1
    BY <1>8, <2>2, FS_AddElement
  <2> QED BY <1>7, <1>8, <2>1, <2>3
<1>10. CASE ~(k = h /\ u = o)
  <2>1. Of(k, u)' = Of(k, u)
    BY <1>1, <1>5, <1>10 DEF Of
  <2>2. Requesting(k, u)' = Requesting(k, u)
    BY <1>1, <1>2, <1>3, <1>10 DEF Requesting, Doing, o
  <2> QED BY <1>7, <2>1, <2>2
<1> QED BY <1>9, <1>10

\* ... through the other steps of main ...
LEMMA MainCounts ==
  ASSUME TableInv, CountInv, NEW h \in Host, MainStep(h)
  PROVE  CountInv'
<1>0. at \in [Host -> {"loop", "register", "send"}] /\ script \in [Host -> Seq(Step)]
  BY DEF TableInv, TypeOK
<1>1. ASSUME NEW o \in Op, WaitIdleTag(h, o) PROVE CountInv'
  <2>1. at[h] = "loop" /\ at' = [at EXCEPT ![h] = "register"]
        /\ UNCHANGED <<script, inFlight, requests>>
    BY <1>1 DEF WaitIdleTag, Goto, deviceVars
  <2> QED BY <1>0, <2>1, CountsStay DEF Requesting, Doing
<1>2. ASSUME NEW p \in Page, EraseBlock(h, p) \/ WritePage(h, p) \/ ReadPage(h, p)
      PROVE  CountInv'
  BY <1>2, RegisterCounts DEF EraseBlock, WritePage, ReadPage, Op
<1>3. ASSUME Barrier(h) \/ RandomPage(h) \/ StartTest(h) \/ PrintVerdict(h)
      PROVE  CountInv'
  <2>1. Head(script[h]).do \notin Op /\ UNCHANGED <<at, inFlight, requests>>
    BY <1>3 DEF Barrier, RandomPage, StartTest, PrintVerdict, Doing, Op, tableVars, deviceVars
  <2>2. at[h] = "loop"
    BY <2>1 DEF TableInv, InRequest
  <2>3. \A k \in Host : k # h => script'[k] = script[k]
    BY <1>0, <1>3 DEF Barrier, RandomPage, StartTest, PrintVerdict, Continue
  <2> QED BY <2>1, <2>2, <2>3, CountsStay DEF Requesting, Doing
<1> QED BY <1>1, <1>2, <1>3, SendCounts DEF MainStep

\* ... and while the device answers it ...
LEMMA AnsweredCounts ==
  ASSUME TableInv, CountInv, NEW r \in requests, NEW s \in {"done", "bad", "checked"},
         Answered(r, s), UNCHANGED <<mainVars, tableVars>>
  PROVE  CountInv'
<1> DEFINE q == [r EXCEPT !.stage = s]
<1>1. UNCHANGED <<script, at, inFlight>> /\ requests' = (requests \ {r}) \cup {q}
  BY DEF mainVars, tableVars, Answered
<1>2. r \in [host : Host, op : Op, tag : Tag, page : Page,
             stage : {"sent", "done", "bad", "checked"}]
  BY DEF TableInv, TypeOK
<1>3. q.host = r.host /\ q.op = r.op /\ q.tag = r.tag
  BY <1>2
<1> HIDE DEF q
<1>4. q \notin requests \ {r}
  BY <1>3 DEF TableInv, TagsOwned
<1>5. IsFiniteSet(requests')
  BY <1>1, FS_AddElement, FS_RemoveElement DEF CountInv
<1>6. ASSUME NEW k \in Host, NEW u \in Op PROVE Cardinality(Of(k, u)') = Cardinality(Of(k, u))
  <2>1. IsFiniteSet(Of(k, u)) /\ Cardinality(Of(k, u)) \in Nat
    BY OfFinite DEF CountInv
  <2>2. CASE r \in Of(k, u)
    <3>1. Of(k, u)' = (Of(k, u) \ {r}) \cup {q} /\ q \notin Of(k, u) \ {r}
      BY <1>1, <1>3, <1>4, <2>2 DEF Of
    <3>2. IsFiniteSet(Of(k, u) \ {r})
          /\ Cardinality(Of(k, u) \ {r}) = Cardinality(Of(k, u)) - 1
      BY <2>1, <2>2, FS_RemoveElement
    <3>3. Cardinality(Of(k, u)') = Cardinality(Of(k, u) \ {r}) + 1
      BY <3>1, <3>2, FS_AddElement
    <3> QED BY <2>1, <3>2, <3>3
  <2>3. CASE r \notin Of(k, u)
    BY <1>1, <1>3, <2>3 DEF Of
  <2> QED BY <2>2, <2>3
<1> QED BY <1>1, <1>5, <1>6 DEF CountInv, CountersExact, Doing

\* ... and is counted off with its indication.
LEMMA ReleaseCounts ==
  ASSUME TableInv, CountInv, NEW r \in requests, Release(r)
  PROVE  CountInv'
<1>1. /\ UNCHANGED <<script, at>> /\ requests' = requests \ {r}
      /\ inFlight' = [inFlight EXCEPT ![r.host][r.op] = IF @ = 0 THEN 0 ELSE @ - 1]
  BY DEF Release, mainVars
<1>2. r.host \in Host /\ r.op \in Op /\ inFlight \in [Host -> [Op -> Nat]]
  BY DEF TableInv, TypeOK
<1>3. IsFiniteSet(requests')
  BY <1>1, FS_RemoveElement DEF CountInv
<1> SUFFICES ASSUME NEW k \in Host, NEW u \in Op
             PROVE  inFlight'[k][u] = Cardinality(Of(k, u)') + IF Requesting(k, u) THEN 1 ELSE 0
  BY <1>1, <1>3 DEF CountInv, CountersExact, Requesting, Doing
<1>4. inFlight[k][u] = Cardinality(Of(k, u)) + (IF Requesting(k, u) THEN 1 ELSE 0)
  BY DEF CountInv, CountersExact, Requesting
<1>5. IsFiniteSet(Of(k, u)) /\ Cardinality(Of(k, u)) \in Nat
  BY OfFinite DEF CountInv
<1>6. CASE k = r.host /\ u = r.op
  <2>1. r \in Of(k, u) /\ Of(k, u)' = Of(k, u) \ {r}
    BY <1>1, <1>6 DEF Of
  <2>2. Cardinality(Of(k, u)') = Cardinality(Of(k, u)) - 1
    BY <1>5, <2>1, FS_RemoveElement
  <2>3. Cardinality(Of(k, u)) # 0
    BY <1>5, <2>1, FS_EmptySet
  <2>4. inFlight'[k][u] = IF inFlight[k][u] = 0 THEN 0 ELSE inFlight[k][u] - 1
    BY <1>1, <1>2, <1>6
  <2> QED BY <1>4, <1>5, <2>2, <2>3, <2>4
<1>7. CASE ~(k = r.host /\ u = r.op)
  <2>1. Of(k, u)' = Of(k, u)
    BY <1>1, <1>7 DEF Of
  <2>2. inFlight'[k][u] = inFlight[k][u]
    BY <1>1, <1>2, <1>7
  <2> QED BY <1>4, <2>1, <2>2
<1> QED BY <1>6, <1>7

\* Every step keeps the counts.
LEMMA NextCounts == TableInv /\ CountInv /\ [Next]_vars => CountInv'
<1> SUFFICES ASSUME TableInv, CountInv, [Next]_vars PROVE CountInv'
  OBVIOUS
<1>1. ASSUME NEW r \in requests, Complete(r) \/ ReadDoneCheck(r) PROVE CountInv'
  <2>1. UNCHANGED <<mainVars, tableVars>>
    BY <1>1 DEF Complete, CompleteErase, CompleteWrite, CompleteRead, ReadDoneCheck
  <2>2. Answered(r, "done") \/ Answered(r, "bad") \/ Answered(r, "checked")
    BY <1>1 DEF Complete, CompleteErase, CompleteWrite, CompleteRead, ReadDoneCheck
  <2> QED BY <2>1, <2>2, AnsweredCounts
<1>2. ASSUME NEW r \in requests, ReadDone(r) \/ WriteDone(r) \/ EraseDone(r) PROVE CountInv'
  BY <1>2, ReleaseCounts DEF ReadDone, WriteDone, EraseDone
<1>3. ASSUME PressKeys PROVE CountInv'
  <2>1. \A h \in Host : Head(script[h]).do \notin Op
    BY <1>3 DEF PressKeys, Doing, Op
  <2>2. \A h \in Host : at[h] = "loop"
    BY <2>1 DEF TableInv, InRequest
  <2>3. UNCHANGED <<at, inFlight, requests>>
    BY <1>3 DEF PressKeys, tableVars, deviceVars
  <2> QED BY <2>2, <2>3, CountsStay DEF Requesting
<1>4. CASE UNCHANGED vars
  BY <1>4 DEF vars, mainVars, tableVars, deviceVars, CountInv, CountersExact, Of, Doing
<1> QED BY <1>1, <1>2, <1>3, <1>4, MainCounts DEF Next, Indicate, Finished

\* The counts agree at first.
LEMMA InitCounts == Init => CountInv
<1> SUFFICES ASSUME Init PROVE CountInv
  OBVIOUS
<1>1. requests = {} /\ IsFiniteSet(requests)
  BY FS_EmptySet DEF Init
<1>2. \A h \in Host, o \in Op : Cardinality(Of(h, o)) = 0
  BY <1>1, FS_EmptySet DEF Of
<1> QED BY <1>1, <1>2 DEF Init, CountInv, CountersExact

\* A barrier that reads 0 without the lock has seen every request answered and
\* every indication handled, for any program, any number of tags and any hosts.
THEOREM BarriersAreExact == Spec => []CountersExact
<1>1. CountInv => CountersExact
  BY DEF CountInv
<1> QED BY <1>1, InitTable, NextTable, InitCounts, NextCounts, PTL DEF Spec
-----------------------------------------------------------------------------
(* Disciplined programs.  What is left of a script still keeps to the      *)
(* discipline, now together with the requests already under way.           *)

KeptScripts ==
  /\ \A h \in Host : /\ WaitsBetween(deployment, script[h])
                     /\ ErasesAgain(script[h]) /\ StartsAgain(script[h])
  /\ HostsApart(deployment, script)

\* A request of kind o for page p is waited for in a script before what clashes
\* with it, or there is a key before it.
Waits(d, o, p, s) ==
  \A j \in DOMAIN s : ClashesWith(d, o, p, s[j]) \/ EndsPart(s[j]) =>
    \E k \in 1 .. (j - 1) : WaitsFor(s[k], o)
Keyed(d, o, p, s) ==
  \A j \in DOMAIN s : ClashesWith(d, o, p, s[j]) => \E k \in 1 .. (j - 1) : s[k].do = "key"

\* A request under way is waited for by its host, and a key is pressed before
\* another host gets in its way.
WaitedFor == \A r \in requests : Waits(deployment, r.op, r.page, script[r.host])
KeyPressedFor ==
  \A r \in requests, h \in Host : h # r.host => Keyed(deployment, r.op, r.page, script[h])
NoClash ==
  \A r, s \in requests : r # s => ~Clash(deployment, r.op, r.page, s.op, s.page)

OrderInv == KeptScripts /\ WaitedFor /\ KeyPressedFor /\ NoClash

\* Contents of the variables that TypeOK says nothing about.
DataTypes ==
  /\ checkData \in [Host -> BOOLEAN] /\ testPass \in [Host -> BOOLEAN]
  /\ wrongRead \in [Host -> BOOLEAN] /\ faults \in Nat
  /\ verdict \in [Host -> {"none", "unchecked", "passed", "failed"}]
  /\ readBuffers \in [Host -> [Tag -> Data]] /\ writeBuffers \in [Host -> [Tag -> Data]]
  /\ flash \in [Page -> Data]

\* A host depends on what a page holds: it reads it, is about to request it, or
\* will use it in this test without an erase before.
Relies(s, p) ==
  \E j \in DOMAIN s :
    /\ TakesPage(s[j], p)
    /\ \A k \in 1 .. (j - 1) : s[k].do \notin {"key", "start"} /\ ~Erases(s[k], p)
Sending(h, o, p) == at[h] = "send" /\ Doing(h, o) /\ Head(script[h]).page = p
Claims(h, p) ==
  \/ Relies(script[h], p)
  \/ \E o \in Op : Sending(h, o, p)
  \/ \E r \in requests : r.host = h /\ r.op = "read" /\ r.page = p

\* Then the status tells what the page holds or is about to hold.
Pending(h, o, p, stages) ==
  \/ Sending(h, o, p)
  \/ \E r \in requests : r.host = h /\ r.op = o /\ r.page = p /\ r.stage \in stages
Lost(p) == p \in bad /\ ~deployment.keepsBad
IsErased(h, p) ==
  \/ Lost(p)
  \/ p \notin bad /\ flash[p] = Erased
  \/ Pending(h, "erase", p, {"sent", "bad"})
IsWritten(h, p) ==
  \/ Lost(p)
  \/ /\ p \notin bad
     /\ checkData[h] => flash[p] = HashAddrToData(p) \/ Pending(h, "write", p, {"sent"})
Truthful(h, p) ==
  \/ flashStatus[h][p] = "ERASED" /\ IsErased(h, p)
  \/ flashStatus[h][p] = "WRITTEN" /\ IsWritten(h, p)
  \/ flashStatus[h][p] = "BAD" /\ p \in bad
StatusTold(h) == \A p \in Page : Claims(h, p) => Truthful(h, p)

\* The status of a page and the buffer it is written from are those of the
\* request under way.
Registered(h, o, p) ==
  /\ o = "erase" => flashStatus[h][p] = "ERASED"
  /\ o = "write" => flashStatus[h][p] \in {"WRITTEN", "BAD"}
Filled(h, o, t, p) == o = "write" /\ checkData[h] => writeBuffers[h][t] = HashAddrToData(p)
RequestTold(r) ==
  /\ Registered(r.host, r.op, r.page)
  /\ r.stage = "sent" => Filled(r.host, r.op, r.tag, r.page)
  /\ r.op = "erase" => /\ r.stage = "bad" => r.page \in bad
                       /\ r.stage = "done" => r.page \notin bad
RequestsTold(h) == \A r \in requests : r.host = h => RequestTold(r)
SendingTold(h) ==
  \A o \in Op, p \in Page : Sending(h, o, p) => Registered(h, o, p) /\ Filled(h, o, tag[h], p)
FlashInv == \A h \in Host : StatusTold(h) /\ RequestsTold(h) /\ SendingTold(h)

\* The reads of a test that must fail it are found by the indications, sooner or later,
\* and are the flash's fault, or of bad blocks that the program does not record.
Blame == faults > 0 \/ (bad # {} /\ ~deployment.keepsBad)
Blamed(h) == wrongRead[h] => Blame
Wrong(r) ==
  r.op = "read" /\ r.stage = "done" /\ MustFail(r.host, r.page, readBuffers[r.host][r.tag])
WrongLeft(h) == \E r \in requests : r.host = h /\ Wrong(r)
Tallied(h) == checkData[h] => (wrongRead[h] <=> ~testPass[h] \/ WrongLeft(h))

\* Between two tests nothing is requested.
StartsFirst(s) ==
  \A j \in DOMAIN s : IsRequest(s[j]) => \E k \in 1 .. (j - 1) : s[k].do = "start"
Ended(h) ==
  /\ verdict[h] = "passed" => ~wrongRead[h]
  /\ verdict[h] = "failed" => wrongRead[h]
  /\ verdict[h] # "none" =>
       (\A r \in requests : r.host # h) /\ StartsFirst(script[h]) /\ at[h] = "loop"
TestInv == \A h \in Host : Blamed(h) /\ Tallied(h) /\ Ended(h)

DisciplineInv == TableInv /\ CountInv /\ OrderInv /\ DataTypes /\ FlashInv /\ TestInv

\* What follows the first step of a script.
LEMMA TailAt ==
  ASSUME NEW s \in Seq(Step), s # <<>>, NEW u, u = Tail(s)
  PROVE  /\ u \in Seq(Step) /\ 1 \in DOMAIN s /\ s[1] = Head(s)
         /\ \A j \in DOMAIN u : j \in Nat /\ j >= 1 /\ j + 1 \in DOMAIN s /\ u[j] = s[j + 1]
         /\ \A j \in DOMAIN s : s[j] \in Step /\ j \in Nat /\ j >= 1
<1>1. u \in Seq(Step) /\ Len(u) = Len(s) - 1 /\ Len(s) \in Nat /\ Len(s) # 0
  OBVIOUS
<1>2. \A j \in 1 .. Len(u) : u[j] = s[j + 1]
  OBVIOUS
<1> QED BY <1>1, <1>2

\* A step found between others is found after the first is removed.
LEMMA BetweenTail ==
  ASSUME NEW s \in Seq(Step), s # <<>>, NEW u, u = Tail(s), NEW i \in Nat, NEW j \in DOMAIN u,
         NEW k \in (i + 2) .. j, k \in DOMAIN s
  PROVE  k - 1 \in (i + 1) .. (j - 1) /\ u[k - 1] = s[k]
<1>1. j \in Nat /\ Len(u) = Len(s) - 1 /\ Len(s) \in Nat /\ j <= Len(u)
  OBVIOUS
<1>2. k - 1 \in 1 .. Len(u) /\ k - 1 \in (i + 1) .. (j - 1)
  BY <1>1
<1>3. u[k - 1] = s[(k - 1) + 1]
  BY <1>2
<1> QED BY <1>1, <1>2, <1>3

\* The rest of a script keeps to the discipline within it.
LEMMA TailKeeps ==
  ASSUME NEW s \in Seq(Step), s # <<>>, NEW u, u = Tail(s), NEW d
  PROVE  /\ WaitsBetween(d, s) => WaitsBetween(d, u)
         /\ ErasesAgain(s) => ErasesAgain(u)
         /\ StartsAgain(s) => StartsAgain(u)
<1>1. /\ \A j \in DOMAIN u : j \in Nat /\ j >= 1 /\ j + 1 \in DOMAIN s /\ u[j] = s[j + 1]
      /\ \A j \in DOMAIN s : j \in Nat /\ j >= 1
  BY TailAt
<1>2. ASSUME NEW i \in DOMAIN u, NEW j \in DOMAIN u, i < j,
             NEW k \in ((i + 1) + 1) .. ((j + 1) - 1)
      PROVE  k - 1 \in (i + 1) .. (j - 1) /\ u[k - 1] = s[k]
  <2>1. i \in Nat /\ j \in Nat /\ j + 1 \in DOMAIN s /\ k \in (i + 2) .. j
    BY <1>1
  <2>2. k \in DOMAIN s
    <3>1. Len(s) \in Nat /\ DOMAIN s = 1 .. Len(s)
      OBVIOUS
    <3> QED BY <2>1, <3>1
  <2> QED BY <2>1, <2>2, BetweenTail
<1>3. ASSUME WaitsBetween(d, s) PROVE WaitsBetween(d, u)
  <2> SUFFICES ASSUME NEW i \in DOMAIN u, NEW j \in DOMAIN u, NEW p \in Uses(u[i]), i < j,
                      ClashesWith(d, OpOf(u[i]), p, u[j]) \/ EndsPart(u[j])
               PROVE  \E k \in (i + 1) .. (j - 1) : WaitsFor(u[k], OpOf(u[i]))
    BY DEF WaitsBetween
  <2>1. i + 1 \in DOMAIN s /\ j + 1 \in DOMAIN s /\ u[i] = s[i + 1] /\ u[j] = s[j + 1]
        /\ i + 1 < j + 1
    BY <1>1
  <2>2. PICK k \in ((i + 1) + 1) .. ((j + 1) - 1) : WaitsFor(s[k], OpOf(s[i + 1]))
    BY <1>3, <2>1 DEF WaitsBetween
  <2> QED BY <1>2, <2>1, <2>2
<1>4. ASSUME ErasesAgain(s) PROVE ErasesAgain(u)
  <2> SUFFICES ASSUME NEW i \in DOMAIN u, NEW j \in DOMAIN u, NEW p \in Page, i < j,
                      u[i].do \in {"key", "start"}, TakesPage(u[j], p)
               PROVE  \E k \in (i + 1) .. (j - 1) : Erases(u[k], p)
    BY DEF ErasesAgain, ErasedBetween
  <2>1. i + 1 \in DOMAIN s /\ j + 1 \in DOMAIN s /\ u[i] = s[i + 1] /\ u[j] = s[j + 1]
        /\ i + 1 < j + 1
    BY <1>1
  <2>2. PICK k \in ((i + 1) + 1) .. ((j + 1) - 1) : Erases(s[k], p)
    BY <1>4, <2>1 DEF ErasesAgain, ErasedBetween
  <2> QED BY <1>2, <2>1, <2>2
<1>5. ASSUME StartsAgain(s) PROVE StartsAgain(u)
  <2> SUFFICES ASSUME NEW i \in DOMAIN u, NEW j \in DOMAIN u, i < j,
                      u[i].do = "verdict", IsRequest(u[j])
               PROVE  \E k \in (i + 1) .. (j - 1) : u[k].do = "start"
    BY DEF StartsAgain
  <2>1. i + 1 \in DOMAIN s /\ j + 1 \in DOMAIN s /\ u[i] = s[i + 1] /\ u[j] = s[j + 1]
        /\ i + 1 < j + 1
    BY <1>1
  <2>2. PICK k \in ((i + 1) + 1) .. ((j + 1) - 1) : s[k].do = "start"
    BY <1>5, <2>1 DEF StartsAgain
  <2> QED BY <1>2, <2>1, <2>2
<1> QED BY <1>3, <1>4, <1>5

\* A page picked for a random read is one of those it may use.
Picks(s, u) ==
  /\ s # <<>> /\ Head(s).do = "random"
  /\ \E p \in Head(s).pages : u = <<[do |-> "read", page |-> p]>> \o Tail(s)

\* Only the first step of the script changes.
LEMMA PickAt ==
  ASSUME NEW s \in Seq(Step), NEW u, Picks(s, u)
  PROVE  /\ u \in Seq(Step) /\ DOMAIN u = DOMAIN s /\ 1 \in DOMAIN s
         /\ s[1].do = "random" /\ u[1].do = "read" /\ u[1].page \in s[1].pages
         /\ \A j \in DOMAIN s : j \in Nat /\ j >= 1 /\ (j # 1 => u[j] = s[j])
<1>1. PICK p \in Head(s).pages : u = <<[do |-> "read", page |-> p]>> \o Tail(s)
  BY DEF Picks
<1>2. s # <<>> /\ Head(s).do = "random" /\ Head(s) \in Step /\ Head(s) = s[1]
  BY DEF Picks
<1>3. p \in Page
  BY <1>2 DEF Step, Op
<1>4. PICK e : e = [do |-> "read", page |-> p]
  OBVIOUS
<1>5. e \in Step
  BY <1>3, <1>4 DEF Step, Op
<1>6. Tail(s) \in Seq(Step) /\ Len(Tail(s)) = Len(s) - 1 /\ Len(s) \in Nat \ {0}
  BY <1>2
<1>7. u = <<e>> \o Tail(s) /\ u \in Seq(Step) /\ Len(u) = Len(s)
  BY <1>1, <1>4, <1>5, <1>6
<1>8. u[1] = e /\ \A j \in 2 .. Len(s) : u[j] = s[j]
  BY <1>6, <1>7
<1> QED BY <1>2, <1>4, <1>6, <1>7, <1>8

\* It uses no more than before.
LEMMA PickUses ==
  ASSUME NEW s \in Seq(Step), NEW u, Picks(s, u), NEW j \in DOMAIN s
  PROVE  /\ Uses(u[j]) \subseteq Uses(s[j]) /\ OpOf(u[j]) = OpOf(s[j])
         /\ IsRequest(u[j]) <=> IsRequest(s[j])
         /\ \A e \in {"key", "start", "verdict", "wait", "erase"} :
              (u[j].do = e <=> s[j].do = e) /\ (s[j].do = e => u[j] = s[j])
         /\ \A p : TakesPage(u[j], p) => TakesPage(s[j], p)
         /\ \A o : WaitsFor(s[j], o) => WaitsFor(u[j], o)
         /\ \A p : Erases(s[j], p) <=> Erases(u[j], p)
<1>1. CASE j = 1
  <2>1. s[j].do = "random" /\ u[j].do = "read" /\ u[j].page \in s[j].pages
    BY <1>1, PickAt
  <2> QED BY <2>1 DEF Uses, OpOf, IsRequest, Op, TakesPage, WaitsFor, Erases
<1>2. CASE j # 1
  <2>1. u[j] = s[j]
    BY <1>2, PickAt
  <2> QED BY <2>1
<1> QED BY <1>1, <1>2

\* A random page picked keeps to the discipline.
LEMMA PickKeeps ==
  ASSUME NEW s \in Seq(Step), NEW u, Picks(s, u), NEW d
  PROVE  /\ WaitsBetween(d, s) => WaitsBetween(d, u)
         /\ ErasesAgain(s) => ErasesAgain(u)
         /\ StartsAgain(s) => StartsAgain(u)
<1>1. DOMAIN u = DOMAIN s /\ \A j \in DOMAIN s : j \in Nat /\ j >= 1
  BY PickAt
<1>2. \A i, j \in DOMAIN s : \A k \in (i + 1) .. (j - 1) : k \in DOMAIN s
  <2>1. Len(s) \in Nat /\ DOMAIN s = 1 .. Len(s)
    OBVIOUS
  <2> QED BY <1>1, <2>1
<1>3. ASSUME WaitsBetween(d, s) PROVE WaitsBetween(d, u)
  <2> SUFFICES ASSUME NEW i \in DOMAIN s, NEW j \in DOMAIN s, NEW p \in Uses(u[i]), i < j,
                      ClashesWith(d, OpOf(u[i]), p, u[j]) \/ EndsPart(u[j])
               PROVE  \E k \in (i + 1) .. (j - 1) : WaitsFor(u[k], OpOf(u[i]))
    BY <1>1 DEF WaitsBetween
  <2>1. p \in Uses(s[i]) /\ OpOf(u[i]) = OpOf(s[i])
    BY PickUses
  <2>2. Uses(u[j]) \subseteq Uses(s[j]) /\ OpOf(u[j]) = OpOf(s[j])
    BY PickUses
  <2>3. EndsPart(u[j]) => EndsPart(s[j])
    BY PickUses DEF EndsPart
  <2>4. ClashesWith(d, OpOf(s[i]), p, s[j]) \/ EndsPart(s[j])
    BY <2>1, <2>2, <2>3 DEF ClashesWith
  <2>5. PICK k \in (i + 1) .. (j - 1) : WaitsFor(s[k], OpOf(s[i]))
    BY <1>3, <2>1, <2>4 DEF WaitsBetween
  <2>6. k \in DOMAIN s
    BY <1>2
  <2>7. WaitsFor(u[k], OpOf(s[i]))
    BY <2>5, <2>6, PickUses
  <2> QED BY <2>1, <2>7
<1>4. ASSUME ErasesAgain(s) PROVE ErasesAgain(u)
  <2> SUFFICES ASSUME NEW i \in DOMAIN s, NEW j \in DOMAIN s, NEW p \in Page, i < j,
                      u[i].do \in {"key", "start"}, TakesPage(u[j], p)
               PROVE  \E k \in (i + 1) .. (j - 1) : Erases(u[k], p)
    BY <1>1 DEF ErasesAgain, ErasedBetween
  <2>1. s[i].do \in {"key", "start"}
    BY PickUses
  <2>2. TakesPage(s[j], p)
    BY PickUses
  <2>3. PICK k \in (i + 1) .. (j - 1) : Erases(s[k], p)
    BY <1>4, <2>1, <2>2 DEF ErasesAgain, ErasedBetween
  <2>4. k \in DOMAIN s
    BY <1>2
  <2> QED BY <2>3, <2>4, PickUses
<1>5. ASSUME StartsAgain(s) PROVE StartsAgain(u)
  <2> SUFFICES ASSUME NEW i \in DOMAIN s, NEW j \in DOMAIN s, i < j,
                      u[i].do = "verdict", IsRequest(u[j])
               PROVE  \E k \in (i + 1) .. (j - 1) : u[k].do = "start"
    BY <1>1 DEF StartsAgain
  <2>1. s[i].do = "verdict"
    BY PickUses
  <2>2. IsRequest(s[j])
    BY PickUses
  <2>3. PICK k \in (i + 1) .. (j - 1) : s[k].do = "start"
    BY <1>5, <2>1, <2>2 DEF StartsAgain
  <2>4. k \in DOMAIN s
    BY <1>2
  <2> QED BY <2>3, <2>4, PickUses
<1> QED BY <1>3, <1>4, <1>5

\* The keys before a step, when the first step is done ...
LEMMA KeysTail ==
  ASSUME NEW s \in Seq(Step), s # <<>>, NEW u, u = Tail(s), NEW j \in DOMAIN u
  PROVE  /\ KeysBefore(u, j) \in Nat
         /\ KeysBefore(s, j + 1) = KeysBefore(u, j) + IF Head(s).do = "key" THEN 1 ELSE 0
<1> DEFINE A == {k \in 1 .. (j - 1) : u[k].do = "key"}
           B == {k \in 1 .. ((j + 1) - 1) : s[k].do = "key"}
           f == [k \in A |-> k + 1]
<1>1. /\ \A i \in DOMAIN u : i \in Nat /\ i >= 1 /\ u[i] = s[i + 1]
      /\ s[1] = Head(s)
  BY TailAt
<1>2. j \in Nat /\ j >= 1 /\ \A k \in 1 .. (j - 1) : k \in DOMAIN u
  <2>1. Len(u) \in Nat /\ DOMAIN u = 1 .. Len(u)
    OBVIOUS
  <2> QED BY <2>1
<1>3. IsFiniteSet(A) /\ Cardinality(A) \in Nat
  <2>1. 1 \in Int /\ j - 1 \in Int
    BY <1>2
  <2>2. IsFiniteSet(1 .. (j - 1))
    BY <2>1, FS_Interval
  <2>3. A \in SUBSET (1 .. (j - 1))
    OBVIOUS
  <2> QED BY <2>2, <2>3, FS_Subset, FS_CardinalityType
<1>4. ASSUME NEW k \in 2 .. j PROVE k \in B <=> k - 1 \in A
  <2>1. k - 1 \in 1 .. (j - 1) /\ k \in 1 .. ((j + 1) - 1)
    BY <1>2
  <2>2. u[k - 1] = s[(k - 1) + 1] /\ (k - 1) + 1 = k
    BY <1>1, <1>2, <2>1
  <2> QED BY <2>1, <2>2
<1>5. f \in Bijection(A, B \ {1})
  <2>1. f \in [A -> B \ {1}]
    <3>1. ASSUME NEW k \in A PROVE k + 1 \in B \ {1}
      <4>1. k + 1 \in 2 .. j /\ (k + 1) - 1 = k
        BY <1>2
      <4> QED BY <1>4, <4>1
    <3> QED BY <3>1
  <2>2. \A a, b \in A : f[a] = f[b] => a = b
    BY <1>2
  <2>3. ASSUME NEW t \in B \ {1} PROVE \E a \in A : f[a] = t
    <3>1. t \in 2 .. j
      BY <1>2
    <3>2. t - 1 \in A /\ (t - 1) + 1 = t
      BY <1>4, <3>1
    <3> QED BY <3>2
  <2>4. DOMAIN f = A
    OBVIOUS
  <2> HIDE DEF f, A, B
  <2> QED BY <2>1, <2>2, <2>3, <2>4 DEF Bijection, Injection, IsInjective, Surjection
<1>6. IsFiniteSet(B \ {1}) /\ Cardinality(B \ {1}) = Cardinality(A)
  BY ZenonT(60), <1>3, <1>5, FS_Bijection DEF ExistsBijection
<1>7. 1 \in B <=> Head(s).do = "key"
  BY <1>1, <1>2
<1> HIDE DEF A, B, f
<1>8. Cardinality(B) = Cardinality(A) + IF Head(s).do = "key" THEN 1 ELSE 0
  <2>1. CASE 1 \in B
    <3>1. B = (B \ {1}) \cup {1} /\ 1 \notin B \ {1}
      BY <2>1
    <3>2. Cardinality((B \ {1}) \cup {1}) = Cardinality(B \ {1}) + 1
      BY <1>6, <3>1, FS_AddElement
    <3> QED BY <1>6, <1>7, <2>1, <3>1, <3>2
  <2>2. CASE 1 \notin B
    <3>1. B \ {1} = B
      BY <2>2
    <3>2. Cardinality(B) = Cardinality(A)
      BY <1>6, <3>1
    <3>3. (IF Head(s).do = "key" THEN 1 ELSE 0) = 0
      BY <1>7, <2>2
    <3> QED BY <1>3, <3>2, <3>3
  <2> QED BY <2>1, <2>2
<1> QED BY <1>3, <1>8 DEF KeysBefore, A, B

\* ... or a page is picked.
LEMMA KeysPick ==
  ASSUME NEW s \in Seq(Step), NEW u, Picks(s, u), NEW j \in DOMAIN s
  PROVE  KeysBefore(u, j) = KeysBefore(s, j)
<1>1. \A k \in 1 .. (j - 1) : k \in DOMAIN s
  <2>1. Len(s) \in Nat /\ DOMAIN s = 1 .. Len(s)
    OBVIOUS
  <2> QED BY <2>1
<1>2. \A k \in 1 .. (j - 1) : u[k].do = "key" <=> s[k].do = "key"
  BY <1>1, PickUses
<1>3. {k \in 1 .. (j - 1) : u[k].do = "key"} = {k \in 1 .. (j - 1) : s[k].do = "key"}
  BY <1>2
<1> QED BY <1>3 DEF KeysBefore

\* What a step may do to the script of a host: nothing, remove the first step,
\* or pick a page for it.
Goes(s, u) ==
  \/ u = s
  \/ s # <<>> /\ Head(s).do # "key" /\ u = Tail(s)
  \/ Picks(s, u)

\* Then its steps come from steps of the script, after as many keys.
LEMMA GoesAt ==
  ASSUME NEW s \in Seq(Step), NEW u, Goes(s, u), NEW j \in DOMAIN u
  PROVE  /\ u \in Seq(Step)
         /\ \E i \in DOMAIN s : /\ Uses(u[j]) \subseteq Uses(s[i]) /\ OpOf(u[j]) = OpOf(s[i])
                                /\ KeysBefore(u, j) = KeysBefore(s, i)
<1>1. CASE u = s
  BY <1>1
<1>2. CASE s # <<>> /\ Head(s).do # "key" /\ u = Tail(s)
  <2>1. u \in Seq(Step) /\ j + 1 \in DOMAIN s /\ u[j] = s[j + 1]
    BY <1>2, TailAt
  <2>2. KeysBefore(s, j + 1) = KeysBefore(u, j) + 0 /\ KeysBefore(u, j) \in Nat
    BY <1>2, KeysTail
  <2> QED BY <2>1, <2>2
<1>3. CASE Picks(s, u)
  <2>1. u \in Seq(Step) /\ DOMAIN u = DOMAIN s
    BY <1>3, PickAt
  <2>2. Uses(u[j]) \subseteq Uses(s[j]) /\ OpOf(u[j]) = OpOf(s[j])
    BY <1>3, <2>1, PickUses
  <2>3. KeysBefore(u, j) = KeysBefore(s, j)
    BY <1>3, <2>1, KeysPick
  <2> QED BY <2>1, <2>2, <2>3
<1> QED BY <1>1, <1>2, <1>3 DEF Goes

\* Hosts stay apart when scripts go on ...
LEMMA ApartGoes ==
  ASSUME NEW d, NEW sc \in [Host -> Seq(Step)], HostsApart(d, sc),
         NEW tc, \A h \in Host : Goes(sc[h], tc[h])
  PROVE  HostsApart(d, tc)
<1> SUFFICES ASSUME NEW g \in Host, NEW h \in Host, g # h,
                    NEW i \in DOMAIN tc[g], NEW j \in DOMAIN tc[h], NEW p \in Uses(tc[g][i]),
                    ClashesWith(d, OpOf(tc[g][i]), p, tc[h][j])
             PROVE  KeysBefore(tc[g], i) # KeysBefore(tc[h], j)
  BY DEF HostsApart
<1>1. ASSUME NEW f \in Host, NEW l \in DOMAIN tc[f]
      PROVE  \E a \in DOMAIN sc[f] : /\ Uses(tc[f][l]) \subseteq Uses(sc[f][a])
                                     /\ OpOf(tc[f][l]) = OpOf(sc[f][a])
                                     /\ KeysBefore(tc[f], l) = KeysBefore(sc[f], a)
  <2>1. PICK s, u : s = sc[f] /\ u = tc[f]
    OBVIOUS
  <2>2. s \in Seq(Step) /\ Goes(s, u) /\ l \in DOMAIN u
    BY <2>1
  <2>3. \E a \in DOMAIN s : /\ Uses(u[l]) \subseteq Uses(s[a]) /\ OpOf(u[l]) = OpOf(s[a])
                            /\ KeysBefore(u, l) = KeysBefore(s, a)
    BY <2>2, GoesAt
  <2> QED BY <2>1, <2>3
<1>2. PICK a \in DOMAIN sc[g] :
        /\ Uses(tc[g][i]) \subseteq Uses(sc[g][a]) /\ OpOf(tc[g][i]) = OpOf(sc[g][a])
        /\ KeysBefore(tc[g], i) = KeysBefore(sc[g], a)
  BY <1>1
<1>3. PICK b \in DOMAIN sc[h] :
        /\ Uses(tc[h][j]) \subseteq Uses(sc[h][b]) /\ OpOf(tc[h][j]) = OpOf(sc[h][b])
        /\ KeysBefore(tc[h], j) = KeysBefore(sc[h], b)
  BY <1>1
<1>4. p \in Uses(sc[g][a]) /\ ClashesWith(d, OpOf(sc[g][a]), p, sc[h][b])
  BY <1>2, <1>3 DEF ClashesWith
<1>5. KeysBefore(sc[g], a) # KeysBefore(sc[h], b)
  BY <1>4 DEF HostsApart
<1> QED BY <1>2, <1>3, <1>5

\* ... and when all have a key pressed.
LEMMA ApartKeys ==
  ASSUME NEW d, NEW sc \in [Host -> Seq(Step)], HostsApart(d, sc),
         NEW tc, \A h \in Host : sc[h] # <<>> /\ Head(sc[h]).do = "key" /\ tc[h] = Tail(sc[h])
  PROVE  HostsApart(d, tc)
<1>1. ASSUME NEW h \in Host, NEW j \in DOMAIN tc[h]
      PROVE  /\ j + 1 \in DOMAIN sc[h] /\ tc[h][j] = sc[h][j + 1]
             /\ KeysBefore(tc[h], j) \in Nat
             /\ KeysBefore(sc[h], j + 1) = KeysBefore(tc[h], j) + 1
  <2>1. sc[h] \in Seq(Step) /\ sc[h] # <<>> /\ Head(sc[h]).do = "key" /\ tc[h] = Tail(sc[h])
    OBVIOUS
  <2>2. j + 1 \in DOMAIN sc[h] /\ tc[h][j] = sc[h][j + 1]
    BY <2>1, TailAt
  <2> QED BY <2>1, <2>2, KeysTail
<1> SUFFICES ASSUME NEW g \in Host, NEW h \in Host, g # h,
                    NEW i \in DOMAIN tc[g], NEW j \in DOMAIN tc[h], NEW p \in Uses(tc[g][i]),
                    ClashesWith(d, OpOf(tc[g][i]), p, tc[h][j])
             PROVE  KeysBefore(tc[g], i) # KeysBefore(tc[h], j)
  BY DEF HostsApart
<1>2. /\ i + 1 \in DOMAIN sc[g] /\ tc[g][i] = sc[g][i + 1] /\ KeysBefore(tc[g], i) \in Nat
      /\ KeysBefore(sc[g], i + 1) = KeysBefore(tc[g], i) + 1
  BY <1>1
<1>3. /\ j + 1 \in DOMAIN sc[h] /\ tc[h][j] = sc[h][j + 1] /\ KeysBefore(tc[h], j) \in Nat
      /\ KeysBefore(sc[h], j + 1) = KeysBefore(tc[h], j) + 1
  BY <1>1
<1>4. KeysBefore(sc[g], i + 1) # KeysBefore(sc[h], j + 1)
  BY <1>2, <1>3 DEF HostsApart
<1> QED BY <1>2, <1>3, <1>4

\* What is left of the scripts keeps to the discipline.
LEMMA ScriptsGo ==
  ASSUME script \in [Host -> Seq(Step)], KeptScripts, UNCHANGED deployment,
         \A h \in Host : Goes(script[h], script'[h])
  PROVE  KeptScripts'
<1>1. HostsApart(deployment, script)'
  BY ApartGoes DEF KeptScripts
<1>2. ASSUME NEW h \in Host
      PROVE  /\ WaitsBetween(deployment, script'[h])
             /\ ErasesAgain(script'[h]) /\ StartsAgain(script'[h])
  <2>1. /\ script[h] \in Seq(Step) /\ Goes(script[h], script'[h])
        /\ WaitsBetween(deployment, script[h])
        /\ ErasesAgain(script[h]) /\ StartsAgain(script[h])
    BY DEF KeptScripts
  <2>2. CASE script'[h] = script[h]
    BY <2>1, <2>2
  <2>3. CASE script[h] # <<>> /\ script'[h] = Tail(script[h])
    BY <2>1, <2>3, TailKeeps
  <2>4. CASE Picks(script[h], script'[h])
    BY <2>1, <2>4, PickKeeps
  <2> QED BY <2>1, <2>2, <2>3, <2>4 DEF Goes
<1> QED BY <1>1, <1>2 DEF KeptScripts

\* So does what is left after a key pressed.
LEMMA ScriptsKey ==
  ASSUME script \in [Host -> Seq(Step)], KeptScripts, UNCHANGED deployment,
         \A h \in Host : /\ script[h] # <<>> /\ Head(script[h]).do = "key"
                         /\ script'[h] = Tail(script[h])
  PROVE  KeptScripts'
<1>1. HostsApart(deployment, script)'
  BY ApartKeys DEF KeptScripts
<1>2. ASSUME NEW h \in Host
      PROVE  /\ WaitsBetween(deployment, script'[h])
             /\ ErasesAgain(script'[h]) /\ StartsAgain(script'[h])
  <2>1. /\ script[h] \in Seq(Step) /\ script[h] # <<>> /\ script'[h] = Tail(script[h])
        /\ WaitsBetween(deployment, script[h])
        /\ ErasesAgain(script[h]) /\ StartsAgain(script[h])
    BY DEF KeptScripts
  <2> QED BY <2>1, TailKeeps
<1> QED BY <1>1, <1>2 DEF KeptScripts

\* What is waited for still is when the script goes on, unless it was waited for.
LEMMA WaitsGo ==
  ASSUME NEW s \in Seq(Step), NEW u, Goes(s, u), NEW d, NEW o, NEW p, Waits(d, o, p, s),
         s # <<>> => ~WaitsFor(Head(s), o) \/ u = s
  PROVE  Waits(d, o, p, u)
<1>1. CASE u = s
  BY <1>1
<1>2. CASE u # s /\ s # <<>> /\ u = Tail(s)
  <2> SUFFICES ASSUME NEW j \in DOMAIN u, ClashesWith(d, o, p, u[j]) \/ EndsPart(u[j])
               PROVE  \E k \in 1 .. (j - 1) : WaitsFor(u[k], o)
    BY DEF Waits
  <2>1. j \in Nat /\ j + 1 \in DOMAIN s /\ u[j] = s[j + 1] /\ s[1] = Head(s)
    BY <1>2, TailAt
  <2>2. PICK k \in 1 .. ((j + 1) - 1) : WaitsFor(s[k], o)
    BY <2>1 DEF Waits
  <2>3. k # 1
    BY <1>2, <2>1, <2>2
  <2>4. k \in (0 + 2) .. j /\ k \in DOMAIN s
    <3>1. Len(s) \in Nat /\ DOMAIN s = 1 .. Len(s)
      OBVIOUS
    <3> QED BY <2>1, <2>3, <3>1
  <2>5. k - 1 \in (0 + 1) .. (j - 1) /\ u[k - 1] = s[k]
    BY <1>2, <2>4, BetweenTail
  <2> QED BY <2>2, <2>5
<1>3. CASE Picks(s, u)
  <2> SUFFICES ASSUME NEW j \in DOMAIN u, ClashesWith(d, o, p, u[j]) \/ EndsPart(u[j])
               PROVE  \E k \in 1 .. (j - 1) : WaitsFor(u[k], o)
    BY DEF Waits
  <2>1. j \in DOMAIN s
    BY <1>3, PickAt
  <2>2. Uses(u[j]) \subseteq Uses(s[j]) /\ OpOf(u[j]) = OpOf(s[j]) /\ (EndsPart(u[j]) => EndsPart(s[j]))
    BY <1>3, <2>1, PickUses DEF EndsPart
  <2>3. ClashesWith(d, o, p, s[j]) \/ EndsPart(s[j])
    BY <2>2 DEF ClashesWith
  <2>4. PICK k \in 1 .. (j - 1) : WaitsFor(s[k], o)
    BY <2>1, <2>3 DEF Waits
  <2>5. k \in DOMAIN s
    <3>1. Len(s) \in Nat /\ DOMAIN s = 1 .. Len(s)
      OBVIOUS
    <3> QED BY <2>1, <3>1
  <2> QED BY <1>3, <2>4, <2>5, PickUses
<1> QED BY <1>1, <1>2, <1>3 DEF Goes

\* So is a key that comes first.
LEMMA KeyedGo ==
  ASSUME NEW s \in Seq(Step), NEW u, Goes(s, u), NEW d, NEW o, NEW p, Keyed(d, o, p, s)
  PROVE  Keyed(d, o, p, u)
<1>1. CASE u = s
  BY <1>1
<1>2. CASE s # <<>> /\ Head(s).do # "key" /\ u = Tail(s)
  <2> SUFFICES ASSUME NEW j \in DOMAIN u, ClashesWith(d, o, p, u[j])
               PROVE  \E k \in 1 .. (j - 1) : u[k].do = "key"
    BY DEF Keyed
  <2>1. j \in Nat /\ j + 1 \in DOMAIN s /\ u[j] = s[j + 1] /\ s[1] = Head(s)
    BY <1>2, TailAt
  <2>2. PICK k \in 1 .. ((j + 1) - 1) : s[k].do = "key"
    BY <2>1 DEF Keyed
  <2>3. k # 1
    BY <1>2, <2>1, <2>2
  <2>4. k \in (0 + 2) .. j /\ k \in DOMAIN s
    <3>1. Len(s) \in Nat /\ DOMAIN s = 1 .. Len(s)
      OBVIOUS
    <3> QED BY <2>1, <2>3, <3>1
  <2>5. k - 1 \in (0 + 1) .. (j - 1) /\ u[k - 1] = s[k]
    BY <1>2, <2>4, BetweenTail
  <2> QED BY <2>2, <2>5
<1>3. CASE Picks(s, u)
  <2> SUFFICES ASSUME NEW j \in DOMAIN u, ClashesWith(d, o, p, u[j])
               PROVE  \E k \in 1 .. (j - 1) : u[k].do = "key"
    BY DEF Keyed
  <2>1. j \in DOMAIN s
    BY <1>3, PickAt
  <2>2. Uses(u[j]) \subseteq Uses(s[j]) /\ OpOf(u[j]) = OpOf(s[j])
    BY <1>3, <2>1, PickUses
  <2>3. ClashesWith(d, o, p, s[j])
    BY <2>2 DEF ClashesWith
  <2>4. PICK k \in 1 .. (j - 1) : s[k].do = "key"
    BY <2>1, <2>3 DEF Keyed
  <2>5. k \in DOMAIN s
    <3>1. Len(s) \in Nat /\ DOMAIN s = 1 .. Len(s)
      OBVIOUS
    <3> QED BY <2>1, <3>1
  <2> QED BY <1>3, <2>4, <2>5, PickUses
<1> QED BY <1>1, <1>2, <1>3 DEF Goes

\* Nothing that clashes with what is waited for comes first.
LEMMA NotFirst ==
  ASSUME NEW s \in Seq(Step), s # <<>>, NEW d, NEW o, NEW p
  PROVE  /\ Waits(d, o, p, s) => ~ClashesWith(d, o, p, Head(s)) /\ ~EndsPart(Head(s))
         /\ Keyed(d, o, p, s) => ~ClashesWith(d, o, p, Head(s))
<1>1. 1 \in DOMAIN s /\ s[1] = Head(s) /\ \A k \in 1 .. (1 - 1) : FALSE
  OBVIOUS
<1> QED BY <1>1 DEF Waits, Keyed

\* A request that is the first step of a disciplined script is waited for in what
\* follows.
LEMMA WaitsBegin ==
  ASSUME NEW s \in Seq(Step), s # <<>>, Head(s).do \in Op, NEW d, WaitsBetween(d, s)
  PROVE  Waits(d, Head(s).do, Head(s).page, Tail(s))
<1>1. PICK u, o, p : u = Tail(s) /\ o = Head(s).do /\ p = Head(s).page
  OBVIOUS
<1>2. 1 \in DOMAIN s /\ s[1] = Head(s) /\ OpOf(s[1]) = o /\ p \in Uses(s[1])
  BY <1>1 DEF OpOf, Uses, Op
<1> SUFFICES ASSUME NEW j \in DOMAIN u, ClashesWith(d, o, p, u[j]) \/ EndsPart(u[j])
             PROVE  \E k \in 1 .. (j - 1) : WaitsFor(u[k], o)
  BY <1>1 DEF Waits
<1>3. j \in Nat /\ j >= 1 /\ j + 1 \in DOMAIN s /\ u[j] = s[j + 1]
  BY <1>1, TailAt
<1>4. PICK k \in (1 + 1) .. ((j + 1) - 1) : WaitsFor(s[k], o)
  BY <1>2, <1>3 DEF WaitsBetween
<1>5. k \in (0 + 2) .. j /\ k \in DOMAIN s
  <2>1. Len(s) \in Nat /\ DOMAIN s = 1 .. Len(s)
    OBVIOUS
  <2> QED BY <1>3, <2>1
<1>6. k - 1 \in (0 + 1) .. (j - 1) /\ u[k - 1] = s[k]
  BY <1>1, <1>5, BetweenTail
<1> QED BY <1>4, <1>6

\* At the other hosts a key comes before what clashes with that request.
LEMMA KeyedBegin ==
  ASSUME NEW d, NEW sc \in [Host -> Seq(Step)], HostsApart(d, sc), NEW g \in Host, NEW h \in Host,
         g # h, sc[g] # <<>>, Head(sc[g]).do \in Op
  PROVE  Keyed(d, Head(sc[g]).do, Head(sc[g]).page, sc[h])
<1>1. PICK s, o, p : s = sc[g] /\ o = Head(s).do /\ p = Head(s).page
  OBVIOUS
<1>2. 1 \in DOMAIN s /\ s[1] = Head(s) /\ OpOf(s[1]) = o /\ p \in Uses(s[1])
  <2>1. s \in Seq(Step) /\ s # <<>> /\ Head(s).do \in Op
    BY <1>1
  <2> QED BY <1>1, <2>1 DEF OpOf, Uses, Op
<1>3. KeysBefore(s, 1) = 0
  <2>1. {k \in 1 .. (1 - 1) : s[k].do = "key"} = {}
    OBVIOUS
  <2> QED BY <2>1, FS_EmptySet DEF KeysBefore
<1> SUFFICES ASSUME NEW j \in DOMAIN sc[h], ClashesWith(d, o, p, sc[h][j]),
                    \A k \in 1 .. (j - 1) : sc[h][k].do # "key"
             PROVE  FALSE
  BY <1>1 DEF Keyed
<1>4. KeysBefore(sc[h], j) = 0
  <2>1. {k \in 1 .. (j - 1) : sc[h][k].do = "key"} = {}
    OBVIOUS
  <2> QED BY <2>1, FS_EmptySet DEF KeysBefore
<1>5. KeysBefore(s, 1) # KeysBefore(sc[h], j)
  BY <1>1, <1>2 DEF HostsApart
<1> QED BY <1>3, <1>4, <1>5

\* No request under way clashes with the one a host is at, and a host that is at
\* the beginning or the end of a test has none.
LEMMA NoneAtHead ==
  ASSUME TypeOK, OrderInv, NEW r \in requests, NEW h \in Host, script[h] # <<>>
  PROVE  /\ Head(script[h]).do \in Op =>
              ~Clash(deployment, r.op, r.page, Head(script[h]).do, Head(script[h]).page)
         /\ EndsPart(Head(script[h])) => r.host # h
<1>1. PICK s, d, o, p : s = script[h] /\ d = deployment /\ o = r.op /\ p = r.page
  OBVIOUS
<1>2. s \in Seq(Step) /\ s # <<>>
  BY <1>1 DEF TypeOK
<1>3. (r.host = h => Waits(d, o, p, s)) /\ (r.host # h => Keyed(d, o, p, s))
  BY <1>1 DEF OrderInv, WaitedFor, KeyPressedFor
<1>4. ~ClashesWith(d, o, p, Head(s)) /\ (r.host = h => ~EndsPart(Head(s)))
  BY <1>2, <1>3, NotFirst
<1>5. ASSUME Head(s).do \in Op PROVE ~Clash(d, o, p, Head(s).do, Head(s).page)
  BY <1>4, <1>5 DEF ClashesWith, Uses, OpOf, Op
<1> QED BY <1>1, <1>4, <1>5

\* Scripts go on, and no wait is over too soon.
LEMMA OrderGoes ==
  ASSUME TypeOK, OrderInv, UNCHANGED <<deployment, requests>>,
         \A h \in Host : Goes(script[h], script'[h]),
         \A r \in requests : LET s == script[r.host]
                             IN  s # <<>> => ~WaitsFor(Head(s), r.op) \/ script'[r.host] = s
  PROVE  OrderInv'
<1>1. script \in [Host -> Seq(Step)] /\ \A r \in requests : r.host \in Host
  BY DEF TypeOK
<1>2. KeptScripts'
  BY <1>1, ScriptsGo DEF OrderInv
<1>3. ASSUME NEW r \in requests PROVE Waits(deployment, r.op, r.page, script'[r.host])
  <2>1. PICK s, u, d, o, p : /\ s = script[r.host] /\ u = script'[r.host] /\ d = deployment
                             /\ o = r.op /\ p = r.page
    OBVIOUS
  <2>2. /\ s \in Seq(Step) /\ Goes(s, u) /\ Waits(d, o, p, s)
        /\ s # <<>> => ~WaitsFor(Head(s), o) \/ u = s
    BY <1>1, <2>1 DEF OrderInv, WaitedFor
  <2>3. Waits(d, o, p, u)
    BY <2>2, WaitsGo
  <2> QED BY <2>1, <2>3
<1>4. ASSUME NEW r \in requests, NEW h \in Host, h # r.host
      PROVE  Keyed(deployment, r.op, r.page, script'[h])
  <2>1. PICK s, u, d, o, p : /\ s = script[h] /\ u = script'[h] /\ d = deployment
                             /\ o = r.op /\ p = r.page
    OBVIOUS
  <2>2. s \in Seq(Step) /\ Goes(s, u) /\ Keyed(d, o, p, s)
    BY <1>1, <1>4, <2>1 DEF OrderInv, KeyPressedFor
  <2>3. Keyed(d, o, p, u)
    BY <2>2, KeyedGo
  <2> QED BY <2>1, <2>3
<1> QED BY <1>2, <1>3, <1>4 DEF OrderInv, WaitedFor, KeyPressedFor, NoClash

\* Every host has its key pressed, and none has a request under way.
LEMMA OrderKeys ==
  ASSUME TypeOK, OrderInv, PressKeys
  PROVE  OrderInv' /\ requests = {}
<1>1. /\ script \in [Host -> Seq(Step)] /\ UNCHANGED <<deployment, requests>>
      /\ \A h \in Host : /\ script[h] # <<>> /\ Head(script[h]).do = "key"
                         /\ script'[h] = Tail(script[h])
  BY DEF TypeOK, PressKeys, Doing, deviceVars
<1>2. requests = {}
  <2> SUFFICES ASSUME NEW r \in requests PROVE FALSE
    OBVIOUS
  <2>1. r.host \in Host
    BY DEF TypeOK
  <2>2. EndsPart(Head(script[r.host]))
    BY <1>1, <2>1 DEF EndsPart
  <2> QED BY <1>1, <2>1, <2>2, NoneAtHead
<1>3. KeptScripts'
  BY <1>1, ScriptsKey DEF OrderInv
<1> QED BY <1>1, <1>2, <1>3 DEF OrderInv, WaitedFor, KeyPressedFor, NoClash

\* A clash is one either way.
LEMMA ClashTurns ==
  \A d, o, p, u, q : Clash(d, o, p, u, q) => Clash(d, u, q, o, p)
BY DEF Clash

\* A host sends the request it is at.
LEMMA OrderSend ==
  ASSUME TypeOK, InRequest, OrderInv, NEW h \in Host, SendRequest(h)
  PROVE  OrderInv'
<1>1. PICK q : q = [host |-> h, op |-> Head(script[h]).do, tag |-> tag[h],
                    page |-> Head(script[h]).page, stage |-> "sent"]
  OBVIOUS
<1>2. /\ at[h] = "send" /\ requests' = requests \cup {q} /\ deployment' = deployment
      /\ script' = [script EXCEPT ![h] = Tail(@)]
  BY <1>1 DEF SendRequest, Goto, Continue
<1>3. script \in [Host -> Seq(Step)] /\ \A r \in requests : r.host \in Host
  BY DEF TypeOK
<1>4. script[h] # <<>> /\ Head(script[h]).do \in Op
  BY <1>2 DEF InRequest
<1>5. PICK s, d : s = script[h] /\ d = deployment
  OBVIOUS
<1>6. s \in Seq(Step) /\ s # <<>> /\ Head(s).do = q.op /\ Head(s).page = q.page /\ q.op \in Op
      /\ q.host = h
  BY <1>1, <1>3, <1>4, <1>5
<1>7. \A g \in Host : script'[g] = IF g = h THEN Tail(s) ELSE script[g]
  BY <1>2, <1>3, <1>5
<1>8. \A g \in Host : Goes(script[g], script'[g])
  BY <1>5, <1>6, <1>7 DEF Goes, Op
<1>9. KeptScripts /\ KeptScripts'
  BY <1>2, <1>3, <1>8, ScriptsGo DEF OrderInv
<1>10. Waits(d, q.op, q.page, Tail(s))
  <2>1. WaitsBetween(d, s)
    BY <1>5, <1>9 DEF KeptScripts
  <2> QED BY <1>6, <2>1, WaitsBegin
<1>11. ASSUME NEW g \in Host, g # h PROVE Keyed(d, q.op, q.page, script[g])
  <2>1. HostsApart(d, script) /\ script[h] # <<>> /\ Head(script[h]).do \in Op
    BY <1>4, <1>5, <1>9 DEF KeptScripts
  <2>2. Keyed(d, Head(script[h]).do, Head(script[h]).page, script[g])
    BY <1>3, <1>11, <2>1, KeyedBegin
  <2> QED BY <1>5, <1>6, <2>2
<1>12. ASSUME NEW r \in requests
       PROVE  /\ Waits(d, r.op, r.page, script'[r.host])
              /\ \A g \in Host : g # r.host => Keyed(d, r.op, r.page, script'[g])
              /\ ~Clash(d, r.op, r.page, q.op, q.page)
  <2>1. ~Clash(d, r.op, r.page, q.op, q.page)
    BY <1>4, <1>5, <1>6, NoneAtHead
  <2>2. PICK t, u, o, p : t = script[r.host] /\ u = script'[r.host] /\ o = r.op /\ p = r.page
    OBVIOUS
  <2>3. t \in Seq(Step) /\ Goes(t, u) /\ Waits(d, o, p, t)
    BY <1>3, <1>5, <1>8, <2>2 DEF OrderInv, WaitedFor
  <2>4. t # <<>> => ~WaitsFor(Head(t), o) \/ u = t
    BY <1>3, <1>4, <1>7, <2>2 DEF WaitsFor, Op
  <2>5. Waits(d, o, p, u)
    BY <2>3, <2>4, WaitsGo
  <2>6. ASSUME NEW g \in Host, g # r.host PROVE Keyed(d, o, p, script'[g])
    <3>1. PICK v, w : v = script[g] /\ w = script'[g]
      OBVIOUS
    <3>2. v \in Seq(Step) /\ Goes(v, w) /\ Keyed(d, o, p, v)
      BY <1>3, <1>5, <1>8, <2>2, <2>6, <3>1 DEF OrderInv, KeyPressedFor
    <3>3. Keyed(d, o, p, w)
      BY <3>2, KeyedGo
    <3> QED BY <3>1, <3>3
  <2> QED BY <2>1, <2>2, <2>5, <2>6
<1>13. WaitedFor'
  BY <1>2, <1>5, <1>6, <1>7, <1>10, <1>12 DEF WaitedFor
<1>14. KeyPressedFor'
  BY <1>2, <1>5, <1>6, <1>7, <1>11, <1>12 DEF KeyPressedFor
<1>15. NoClash'
  <2> SUFFICES ASSUME NEW r \in requests', NEW t \in requests', r # t
               PROVE  ~Clash(d, r.op, r.page, t.op, t.page)
    BY <1>2, <1>5 DEF NoClash
  <2>1. CASE r \in requests /\ t \in requests
    BY <1>5, <2>1 DEF OrderInv, NoClash
  <2>2. CASE r \in requests /\ t = q
    BY <1>12, <2>2
  <2>3. CASE r = q /\ t \in requests
    BY <1>12, <2>3, ClashTurns
  <2> QED BY <1>2, <2>1, <2>2, <2>3
<1> QED BY <1>9, <1>13, <1>14, <1>15 DEF OrderInv

\* A request goes on at the device, or is done.
LEMMA OrderAnswered ==
  ASSUME TypeOK, OrderInv, NEW r \in requests, UNCHANGED <<deployment, script>>,
         (\E s \in {"done", "bad", "checked"} : Answered(r, s)) \/ requests' = requests \ {r}
  PROVE  OrderInv'
<1>1. PICK q : /\ q.host = r.host /\ q.op = r.op /\ q.page = r.page
               /\ requests' \subseteq (requests \ {r}) \cup {q}
  <2>1. \A s \in {"done", "bad", "checked"} :
          LET q == [r EXCEPT !.stage = s] IN q.host = r.host /\ q.op = r.op /\ q.page = r.page
    BY DEF TypeOK
  <2> QED BY <2>1 DEF Answered
<1>2. KeptScripts'
  BY ScriptsGo DEF OrderInv, TypeOK, Goes
<1>3. WaitedFor'
  BY <1>1 DEF OrderInv, WaitedFor
<1>4. KeyPressedFor'
  BY <1>1 DEF OrderInv, KeyPressedFor
<1>5. NoClash'
  BY <1>1 DEF OrderInv, NoClash
<1> QED BY <1>2, <1>3, <1>4, <1>5 DEF OrderInv

\* A barrier ends when no request of its kind is under way.
LEMMA BarrierEnds ==
  ASSUME TableInv, CountInv, NEW h \in Host, Barrier(h), NEW r \in requests, r.host = h
  PROVE  ~WaitsFor(Head(script[h]), r.op)
<1>1. SUFFICES ASSUME WaitsFor(Head(script[h]), r.op) PROVE FALSE
  OBVIOUS
<1>2. r.op \in Op /\ Head(script[h]).op = r.op /\ inFlight[h][Head(script[h]).op] = 0
  BY <1>1 DEF WaitsFor, Barrier, TableInv, TypeOK
<1>3. inFlight[h][r.op] = Cardinality(Of(h, r.op)) + IF Requesting(h, r.op) THEN 1 ELSE 0
  BY <1>2 DEF CountInv, CountersExact, Requesting
<1>4. IsFiniteSet(Of(h, r.op)) /\ Cardinality(Of(h, r.op)) \in Nat
  BY OfFinite DEF CountInv
<1>5. Cardinality(Of(h, r.op)) = 0
  BY <1>2, <1>3, <1>4
<1>6. r \in Of(h, r.op)
  BY DEF Of
<1> QED BY <1>4, <1>5, <1>6, FS_EmptySet

\* The steps of main that send nothing take a script one step further, or not.
LEMMA MainGoes ==
  ASSUME TableInv, NEW h \in Host,
         \/ \E o \in Op : WaitIdleTag(h, o)
         \/ \E p \in Page : EraseBlock(h, p) \/ WritePage(h, p) \/ ReadPage(h, p)
         \/ Barrier(h) \/ RandomPage(h) \/ StartTest(h) \/ PrintVerdict(h)
  PROVE  /\ UNCHANGED <<deployment, requests>>
         /\ \A g \in Host : Goes(script[g], script'[g])
         /\ \A g \in Host : g # h => script'[g] = script[g]
<1>1. script \in [Host -> Seq(Step)]
  BY DEF TableInv, TypeOK
<1>2. CASE (\E o \in Op : WaitIdleTag(h, o))
            \/ \E p \in Page : EraseBlock(h, p) \/ WritePage(h, p) \/ ReadPage(h, p)
  <2>1. UNCHANGED <<deployment, requests, script>>
    BY <1>2 DEF WaitIdleTag, EraseBlock, WritePage, ReadPage, Register, deviceVars
  <2> QED BY <2>1 DEF Goes
<1>3. CASE Barrier(h) \/ StartTest(h) \/ PrintVerdict(h)
  <2>1. /\ UNCHANGED <<deployment, requests>> /\ script' = [script EXCEPT ![h] = Tail(@)]
        /\ script[h] # <<>> /\ Head(script[h]).do # "key"
    BY <1>3 DEF Barrier, StartTest, PrintVerdict, Doing, Continue, deviceVars
  <2> QED BY <1>1, <2>1 DEF Goes
<1>4. CASE RandomPage(h)
  <2>1. UNCHANGED <<deployment, requests>> /\ script[h] # <<>> /\ Head(script[h]).do = "random"
    BY <1>4 DEF RandomPage, Doing, deviceVars
  <2>2. PICK p \in Head(script[h]).pages :
          script' = [script EXCEPT ![h] = <<[do |-> "read", page |-> p]>> \o Tail(@)]
    BY <1>4 DEF RandomPage
  <2>3. Picks(script[h], script'[h]) /\ \A g \in Host : g # h => script'[g] = script[g]
    BY <1>1, <2>1, <2>2 DEF Picks
  <2> QED BY <2>1, <2>3 DEF Goes
<1> QED BY <1>2, <1>3, <1>4

\* Every step of main keeps the order.
LEMMA MainOrder ==
  ASSUME TableInv, CountInv, OrderInv, NEW h \in Host, MainStep(h)
  PROVE  OrderInv'
<1>0. TypeOK /\ InRequest
  BY DEF TableInv
<1>1. CASE SendRequest(h)
  BY <1>0, <1>1, OrderSend
<1>2. CASE \/ \E o \in Op : WaitIdleTag(h, o)
           \/ \E p \in Page : EraseBlock(h, p) \/ WritePage(h, p) \/ ReadPage(h, p)
           \/ Barrier(h) \/ RandomPage(h) \/ StartTest(h) \/ PrintVerdict(h)
  <2>1. /\ UNCHANGED <<deployment, requests>>
        /\ \A g \in Host : Goes(script[g], script'[g])
        /\ \A g \in Host : g # h => script'[g] = script[g]
    BY <1>2, MainGoes
  <2>2. ASSUME NEW r \in requests, script[r.host] # <<>>
        PROVE  ~WaitsFor(Head(script[r.host]), r.op) \/ script'[r.host] = script[r.host]
    <3>1. r.host \in Host
      BY <1>0 DEF TypeOK
    <3>2. CASE Barrier(h) /\ r.host = h
      BY <3>2, BarrierEnds
    <3>3. CASE ~Barrier(h) /\ r.host = h
      <4>1. CASE script'[h] = script[h]
        BY <3>3, <4>1
      <4>2. CASE RandomPage(h) \/ StartTest(h) \/ PrintVerdict(h)
        BY <3>3, <4>2 DEF RandomPage, StartTest, PrintVerdict, Doing, WaitsFor
      <4>3. CASE (\E o \in Op : WaitIdleTag(h, o))
                  \/ \E p \in Page : EraseBlock(h, p) \/ WritePage(h, p) \/ ReadPage(h, p)
        <5>1. script' = script
          BY <4>3 DEF WaitIdleTag, EraseBlock, WritePage, ReadPage, Register
        <5> QED BY <5>1
      <4> QED BY <1>2, <3>3, <4>1, <4>2, <4>3
    <3>4. CASE r.host # h
      BY <2>1, <3>1, <3>4
    <3> QED BY <3>2, <3>3, <3>4
  <2> QED BY <1>0, <2>1, <2>2, OrderGoes
<1> QED BY <1>1, <1>2 DEF MainStep

\* Every step keeps the order of a disciplined program.
LEMMA NextOrder ==
  ASSUME TableInv, CountInv, OrderInv, [Next]_vars
  PROVE  OrderInv'
<1>0. TypeOK
  BY DEF TableInv
<1>1. ASSUME NEW r \in requests, Complete(r) \/ Indicate(r) PROVE OrderInv'
  <2>1. UNCHANGED <<deployment, script>>
    BY <1>1 DEF Complete, CompleteErase, CompleteWrite, CompleteRead, Indicate, ReadDoneCheck,
                ReadDone, WriteDone, EraseDone, Release, mainVars
  <2>2. (\E s \in {"done", "bad", "checked"} : Answered(r, s)) \/ requests' = requests \ {r}
    BY <1>1 DEF Complete, CompleteErase, CompleteWrite, CompleteRead, Indicate, ReadDoneCheck,
                ReadDone, WriteDone, EraseDone, Release
  <2> QED BY <1>0, <2>1, <2>2, OrderAnswered
<1>2. CASE UNCHANGED vars
  <2>1. UNCHANGED <<deployment, script, requests>>
    BY <1>2 DEF vars, mainVars, deviceVars
  <2>2. /\ \A h \in Host : Goes(script[h], script'[h])
        /\ \A r \in requests : script'[r.host] = script[r.host]
    BY <2>1 DEF Goes
  <2> QED BY <1>0, <2>1, <2>2, OrderGoes
<1> QED BY <1>0, <1>1, <1>2, MainOrder, OrderKeys DEF Next, Finished

\* At first nothing is under way.
LEMMA InitOrder == Init /\ Disciplined(deployment) => OrderInv
BY DEF Init, Disciplined, OrderInv, KeptScripts, WaitedFor, KeyPressedFor, NoClash

\* Steps do not change the deployment.
LEMMA DeploymentStays == [Next]_vars => deployment' = deployment
BY ZenonT(60) DEF Next, MainStep, WaitIdleTag, EraseBlock, WritePage, ReadPage, Register, SendRequest,
       Barrier, RandomPage, StartTest, PrintVerdict, PressKeys, Complete, CompleteErase,
       CompleteWrite, CompleteRead, Indicate, ReadDoneCheck, ReadDone, WriteDone, EraseDone,
       Release, Finished, vars

-----------------------------------------------------------------------------
(* Contents of the buffers and of the flash. *)

\* The contents have their types at first.
LEMMA InitData == Init => DataTypes
BY DEF Init, DataTypes, Data

\* A write puts a buffer's contents on the flash, and a read puts data in a buffer.
LEMMA CompleteData ==
  ASSUME TypeOK, DataTypes, NEW r \in requests, Complete(r)
  PROVE  DataTypes'
<1>0. r.host \in Host /\ r.tag \in Tag /\ r.page \in Page /\ deployment' = deployment /\ Tag' = Tag
  BY DEF TypeOK, Complete, CompleteErase, CompleteWrite, CompleteRead, Tag
<1>1. Erased \in Data /\ writeBuffers[r.host][r.tag] \in Data /\ flash[r.page] \in Data
  BY <1>0 DEF DataTypes, Data
<1>2. CASE CompleteErase(r)
  <2>1. flash' \in [Page -> Data]
    BY <1>0, <1>1, <1>2 DEF CompleteErase, DataTypes
  <2>2. UNCHANGED <<testVars, faults, readBuffers, writeBuffers>>
    BY <1>2 DEF CompleteErase
  <2> QED BY <1>0, <2>1, <2>2 DEF DataTypes, testVars
<1>3. CASE CompleteWrite(r)
  <2>1. flash' \in [Page -> Data]
    BY <1>0, <1>1, <1>3 DEF CompleteWrite, DataTypes
  <2>2. UNCHANGED <<testVars, faults, readBuffers, writeBuffers>>
    BY <1>3 DEF CompleteWrite
  <2> QED BY <1>0, <2>1, <2>2 DEF DataTypes, testVars
<1>4. CASE CompleteRead(r)
  <2>1. PICK d \in Data :
          /\ readBuffers' = [readBuffers EXCEPT ![r.host][r.tag] = d]
          /\ faults' = IF d = flash[r.page] THEN faults ELSE faults + 1
          /\ wrongRead' = [wrongRead EXCEPT ![r.host] =
               @ \/ (checkData[r.host] /\ MustFail(r.host, r.page, d))]
    BY <1>1, <1>4 DEF CompleteRead
  <2>2. readBuffers' \in [Host -> [Tag -> Data]] /\ faults' \in Nat
    BY <1>0, <2>1 DEF DataTypes
  <2>3. wrongRead' \in [Host -> BOOLEAN]
    BY <1>0, <2>1 DEF DataTypes
  <2>4. UNCHANGED <<checkData, testPass, verdict, flash, writeBuffers>>
    BY <1>4 DEF CompleteRead
  <2> QED BY <1>0, <2>2, <2>3, <2>4 DEF DataTypes
<1> QED BY <1>2, <1>3, <1>4 DEF Complete

\* Steps of main fill buffers with the data of a page, and begin and end tests.
LEMMA MainData ==
  ASSUME TableInv, DataTypes, NEW h \in Host, MainStep(h)
  PROVE  DataTypes'
<1>0. TypeOK /\ InRequest
  BY DEF TableInv
<1>1. deployment' = deployment /\ Tag' = Tag
  BY DEF MainStep, WaitIdleTag, EraseBlock, WritePage, ReadPage, Register, SendRequest, Barrier,
         RandomPage, StartTest, PrintVerdict, Tag
<1>2. UNCHANGED <<faults, flash, readBuffers>>
  BY DEF MainStep, WaitIdleTag, EraseBlock, WritePage, ReadPage, Register, SendRequest, Barrier,
         RandomPage, StartTest, PrintVerdict, deviceVars
<1>3. CASE StartTest(h)
  <2>1. script[h] # <<>> /\ script[h] \in Seq(Step) /\ Head(script[h]).do = "start"
    BY <1>0, <1>3 DEF StartTest, Doing, TypeOK
  <2>2. Head(script[h]).check \in BOOLEAN
    BY <2>1, ScriptStep DEF Step, Op
  <2> QED BY <1>1, <1>2, <1>3, <2>2 DEF StartTest, DataTypes
<1>4. CASE PrintVerdict(h)
  BY <1>1, <1>2, <1>4 DEF PrintVerdict, DataTypes
<1>5. ASSUME NEW p \in Page, WritePage(h, p) PROVE DataTypes'
  <2>1. HashAddrToData(p) \in Data /\ UNCHANGED testVars
    BY <1>5 DEF Data, WritePage, Register
  <2>2. writeBuffers' \in [Host -> [Tag -> Data]]
    <3>1. \A t : [writeBuffers EXCEPT ![h][t] = HashAddrToData(p)] \in [Host -> [Tag -> Data]]
      BY <2>1 DEF DataTypes
    <3> QED BY <1>5, <3>1 DEF WritePage, FillBuffer, DataTypes
  <2> QED BY <1>1, <1>2, <2>1, <2>2 DEF DataTypes, testVars
<1>6. CASE \/ \E o \in Op : WaitIdleTag(h, o)
           \/ \E p \in Page : EraseBlock(h, p) \/ ReadPage(h, p)
           \/ SendRequest(h) \/ Barrier(h) \/ RandomPage(h)
  <2>1. UNCHANGED <<testVars, writeBuffers>>
    BY <1>6 DEF WaitIdleTag, EraseBlock, ReadPage, Register, SendRequest, Barrier, RandomPage
  <2> QED BY <1>1, <1>2, <2>1 DEF DataTypes, testVars
<1> QED BY <1>3, <1>4, <1>5, <1>6 DEF MainStep

\* Every step keeps the types of the contents.
LEMMA NextData ==
  ASSUME TableInv, DataTypes, [Next]_vars
  PROVE  DataTypes'
<1>0. TypeOK
  BY DEF TableInv
<1>1. ASSUME NEW r \in requests, Indicate(r) PROVE DataTypes'
  <2>1. UNCHANGED <<deployment, checkData, verdict, wrongRead, flash, faults, readBuffers,
                    writeBuffers>>
    BY <1>1 DEF Indicate, ReadDoneCheck, ReadDone, WriteDone, EraseDone, Release
  <2>2. \E b \in BOOLEAN : testPass' = [testPass EXCEPT ![r.host] = @ /\ b]
    BY <1>1 DEF Indicate, ReadDoneCheck, ReadDone, WriteDone, EraseDone, Release, CheckReadData
  <2>3. testPass' \in [Host -> BOOLEAN]
    BY <2>2 DEF DataTypes
  <2> QED BY <2>1, <2>3 DEF DataTypes, Tag
<1>2. CASE PressKeys \/ UNCHANGED vars
  <2>1. UNCHANGED <<deployment, checkData, testPass, verdict, wrongRead, flash, faults, readBuffers,
                    writeBuffers>>
    BY <1>2 DEF PressKeys, vars, testVars, deviceVars
  <2> QED BY <2>1 DEF DataTypes, Tag
<1> QED BY <1>0, <1>1, <1>2, MainData, CompleteData DEF Next, Finished

-----------------------------------------------------------------------------
(* What hosts know of the flash. *)

\* A host relies on no page at a key or the start of a test, which pages are
\* erased after ...
LEMMA NoneRelied ==
  ASSUME NEW s \in Seq(Step), s # <<>>, ErasesAgain(s), Head(s).do \in {"key", "start"},
         NEW p \in Page
  PROVE  ~Relies(Tail(s), p)
<1> SUFFICES ASSUME Relies(Tail(s), p) PROVE FALSE
  OBVIOUS
<1>1. PICK u : u = Tail(s)
  OBVIOUS
<1>2. PICK j \in DOMAIN u : TakesPage(u[j], p) /\ \A k \in 1 .. (j - 1) : ~Erases(u[k], p)
  BY <1>1 DEF Relies
<1>3. j \in Nat /\ j + 1 \in DOMAIN s /\ u[j] = s[j + 1] /\ 1 \in DOMAIN s /\ s[1] = Head(s)
  BY <1>1, TailAt
<1>4. PICK k \in 2 .. j : Erases(s[k], p)
  BY <1>2, <1>3 DEF ErasesAgain, ErasedBetween
<1>5. k \in DOMAIN s
  BY <1>3, <1>4
<1>6. k - 1 \in 1 .. (j - 1) /\ u[k - 1] = s[k]
  BY <1>1, <1>4, <1>5, BetweenTail
<1> QED BY <1>2, <1>4, <1>6

\* ... nor at the beginning of its program.
LEMMA NoneReliedFirst ==
  ASSUME NEW s \in Seq(Step), ErasesFirst(s), NEW p \in Page
  PROVE  ~Relies(s, p)
BY DEF Relies, ErasesFirst, ErasedBetween

\* After any other step but an erase of the page it relies on what it did before.
LEMMA ReliedBefore ==
  ASSUME NEW s \in Seq(Step), s # <<>>, Head(s).do \notin {"key", "start"},
         NEW p, ~Erases(Head(s), p), Relies(Tail(s), p)
  PROVE  Relies(s, p)
<1>1. PICK u : u = Tail(s)
  OBVIOUS
<1>2. PICK j \in DOMAIN u :
        /\ TakesPage(u[j], p)
        /\ \A k \in 1 .. (j - 1) : u[k].do \notin {"key", "start"} /\ ~Erases(u[k], p)
  BY <1>1 DEF Relies
<1>3. j \in Nat /\ j + 1 \in DOMAIN s /\ u[j] = s[j + 1] /\ 1 \in DOMAIN s /\ s[1] = Head(s)
  BY <1>1, TailAt
<1>4. ASSUME NEW k \in 1 .. j PROVE s[k].do \notin {"key", "start"} /\ ~Erases(s[k], p)
  <2>1. CASE k = 1
    BY <1>3, <2>1
  <2>2. CASE k # 1
    <3>1. k \in 2 .. j /\ k \in DOMAIN s
      BY <1>3, <2>2
    <3>2. k - 1 \in 1 .. (j - 1) /\ u[k - 1] = s[k]
      BY <1>1, <3>1, BetweenTail
    <3> QED BY <1>2, <3>2
  <2> QED BY <2>1, <2>2
<1>5. (j + 1) - 1 = j
  BY <1>3
<1> QED BY <1>2, <1>3, <1>4, <1>5 DEF Relies

\* A page picked for a random read is one that the host relied on.
LEMMA ReliedPick ==
  ASSUME NEW s \in Seq(Step), NEW u, Picks(s, u), NEW p, Relies(u, p)
  PROVE  Relies(s, p)
<1>1. PICK j \in DOMAIN u :
        /\ TakesPage(u[j], p)
        /\ \A k \in 1 .. (j - 1) : u[k].do \notin {"key", "start"} /\ ~Erases(u[k], p)
  BY DEF Relies
<1>2. DOMAIN u = DOMAIN s
  BY PickAt
<1>3. TakesPage(s[j], p)
  BY <1>1, <1>2, PickUses
<1>4. ASSUME NEW k \in 1 .. (j - 1) PROVE s[k].do \notin {"key", "start"} /\ ~Erases(s[k], p)
  <2>1. k \in DOMAIN s
    BY <1>1, <1>2
  <2>2. /\ \A e \in {"key", "start"} : u[k].do = e <=> s[k].do = e
        /\ Erases(s[k], p) <=> Erases(u[k], p)
    BY <2>1, PickUses
  <2> QED BY <1>1, <2>2
<1> QED BY <1>2, <1>3, <1>4 DEF Relies

\* A host that is at a read or a write relies on its page.
LEMMA ReliedNow ==
  ASSUME NEW s \in Seq(Step), s # <<>>, Head(s).do \in {"read", "write"}
  PROVE  Relies(s, Head(s).page)
<1>1. 1 \in DOMAIN s /\ s[1] = Head(s)
  OBVIOUS
<1>2. TakesPage(s[1], Head(s).page)
  BY <1>1 DEF TakesPage, Uses, Op
<1>3. 1 .. (1 - 1) = {}
  OBVIOUS
<1> QED BY <1>1, <1>2, <1>3 DEF Relies

\* What a host knows of a page stays true when neither changes and the host claims
\* no more.
LEMMA PageStays ==
  ASSUME NEW h \in Host, NEW p \in Page, Claims(h, p) => Truthful(h, p),
         UNCHANGED <<deployment, bad>>, Claims(h, p)' => Claims(h, p),
         flashStatus'[h][p] = flashStatus[h][p], checkData'[h] = checkData[h],
         flash'[p] = flash[p],
         Pending(h, "erase", p, {"sent", "bad"}) => Pending(h, "erase", p, {"sent", "bad"})',
         Pending(h, "write", p, {"sent"}) => Pending(h, "write", p, {"sent"})'
  PROVE  Claims(h, p)' => Truthful(h, p)'
BY DEF Truthful, IsErased, IsWritten, Lost

\* A host that takes no part in a step still knows what it did.
LEMMA OthersTold ==
  ASSUME TypeOK, NEW h \in Host, StatusTold(h), RequestsTold(h), SendingTold(h),
         UNCHANGED <<deployment, bad, script[h], at[h], tag[h], flashStatus[h], checkData[h],
                     writeBuffers[h], flash>>,
         \A r : r.host = h => (r \in requests' <=> r \in requests)
  PROVE  StatusTold(h)' /\ RequestsTold(h)' /\ SendingTold(h)'
<1>1. ASSUME NEW o \in Op, NEW p \in Page PROVE Sending(h, o, p)' <=> Sending(h, o, p)
  BY DEF Sending, Doing
<1>2. ASSUME NEW o \in Op, NEW p \in Page, NEW stages
      PROVE  Pending(h, o, p, stages) => Pending(h, o, p, stages)'
  BY <1>1 DEF Pending
<1>3. ASSUME NEW p \in Page PROVE Claims(h, p)' => Claims(h, p)
  BY <1>1 DEF Claims
<1>4. StatusTold(h)'
  <2> SUFFICES ASSUME NEW p \in Page PROVE Claims(h, p)' => Truthful(h, p)'
    BY DEF StatusTold
  <2>1. "erase" \in Op /\ "write" \in Op
    BY DEF Op
  <2> QED BY <1>2, <1>3, <2>1, PageStays DEF StatusTold
<1>5. RequestsTold(h)'
  BY DEF RequestsTold, RequestTold, Registered, Filled
<1>6. SendingTold(h)'
  BY <1>1 DEF SendingTold, Registered, Filled
<1> QED BY <1>4, <1>5, <1>6

\* The other hosts in a step of main.
LEMMA OthersInMain ==
  ASSUME TypeOK, FlashInv, NEW h \in Host, NEW g \in Host, g # h,
         UNCHANGED <<deployment, bad, flash>>,
         \A k \in Host : k # h => UNCHANGED <<script[k], at[k], tag[k], flashStatus[k], checkData[k],
                                              writeBuffers[k]>>,
         \A r : r.host # h => (r \in requests' <=> r \in requests)
  PROVE  StatusTold(g)' /\ RequestsTold(g)' /\ SendingTold(g)'
<1>1. UNCHANGED <<script[g], at[g], tag[g], flashStatus[g], checkData[g], writeBuffers[g]>>
  OBVIOUS
<1>2. \A r : r.host = g => (r \in requests' <=> r \in requests)
  OBVIOUS
<1> QED BY <1>1, <1>2, OthersTold DEF FlashInv

\* Steps of a host that neither send nor register an erase or a write, and that let
\* it claim no more.
LEMMA QuietStep ==
  ASSUME TypeOK, FlashInv, NEW h \in Host,
         UNCHANGED <<deployment, bad, requests, flash, flashStatus, checkData, writeBuffers>>,
         \A k \in Host : k # h => UNCHANGED <<script[k], at[k], tag[k]>>,
         \A o \in Op, p \in Page : o # "read" =>
           (Sending(h, o, p)' <=> Sending(h, o, p)) /\ (Sending(h, o, p) => tag'[h] = tag[h]),
         \A p \in Page : Claims(h, p)' => Claims(h, p)
  PROVE  FlashInv'
<1>1. StatusTold(h) /\ RequestsTold(h) /\ SendingTold(h)
  BY DEF FlashInv
<1>2. StatusTold(h)'
  <2> SUFFICES ASSUME NEW p \in Page PROVE Claims(h, p)' => Truthful(h, p)'
    BY DEF StatusTold
  <2>1. /\ Pending(h, "erase", p, {"sent", "bad"}) => Pending(h, "erase", p, {"sent", "bad"})'
        /\ Pending(h, "write", p, {"sent"}) => Pending(h, "write", p, {"sent"})'
    BY DEF Pending, Op
  <2> QED BY <1>1, <2>1, PageStays DEF StatusTold
<1>3. RequestsTold(h)'
  BY <1>1 DEF RequestsTold, RequestTold, Registered, Filled
<1>4. SendingTold(h)'
  BY <1>1 DEF SendingTold, Registered, Filled
<1>5. ASSUME NEW g \in Host, g # h PROVE StatusTold(g)' /\ RequestsTold(g)' /\ SendingTold(g)'
  BY <1>5, OthersInMain
<1> QED BY <1>2, <1>3, <1>4, <1>5 DEF FlashInv

\* Taking a tag.
LEMMA WaitIdleTagTold ==
  ASSUME TypeOK, FlashInv, NEW h \in Host, NEW o \in Op, WaitIdleTag(h, o)
  PROVE  FlashInv'
<1>1. /\ at[h] = "loop" /\ at' = [at EXCEPT ![h] = "register"]
      /\ \E t \in Tag : tag' = [tag EXCEPT ![h] = t]
      /\ UNCHANGED <<deployment, bad, script, requests, flash, flashStatus, checkData, writeBuffers>>
  BY DEF WaitIdleTag, Goto, deviceVars, testVars
<1>2. at \in [Host -> {"loop", "register", "send"}] /\ tag \in [Host -> Nat]
  BY DEF TypeOK
<1>3. at'[h] = "register" /\ \A k \in Host : k # h => UNCHANGED <<script[k], at[k], tag[k]>>
  BY <1>1, <1>2
<1>4. ASSUME NEW u, NEW p PROVE ~Sending(h, u, p) /\ ~Sending(h, u, p)'
  BY <1>1, <1>3 DEF Sending
<1>5. ASSUME NEW p \in Page PROVE Claims(h, p)' => Claims(h, p)
  BY <1>1, <1>4 DEF Claims
<1> QED BY <1>1, <1>3, <1>4, <1>5, QuietStep

\* Registering a read of a page that the host relies on.
LEMMA ReadPageTold ==
  ASSUME TypeOK, FlashInv, NEW h \in Host, NEW q \in Page, ReadPage(h, q)
  PROVE  FlashInv'
<1>1. /\ at[h] = "register" /\ at' = [at EXCEPT ![h] = "send"]
      /\ script[h] # <<>> /\ Head(script[h]).do = "read" /\ q = Head(script[h]).page
      /\ UNCHANGED <<deployment, bad, script, tag, requests, flash, flashStatus, checkData,
                     writeBuffers>>
  BY DEF ReadPage, Register, Doing, Goto, deviceVars, testVars
<1>2. at \in [Host -> {"loop", "register", "send"}] /\ script[h] \in Seq(Step)
  BY DEF TypeOK
<1>3. at'[h] = "send" /\ \A k \in Host : k # h => UNCHANGED <<script[k], at[k], tag[k]>>
  BY <1>1, <1>2
<1>4. ASSUME NEW u, NEW p PROVE ~Sending(h, u, p) /\ (Sending(h, u, p)' => u = "read" /\ p = q)
  BY <1>1, <1>3 DEF Sending, Doing
<1>5. Relies(script[h], q)
  BY <1>1, <1>2, ReliedNow
<1>6. ASSUME NEW p \in Page PROVE Claims(h, p)' => Claims(h, p)
  BY <1>1, <1>4, <1>5 DEF Claims
<1> QED BY <1>1, <1>3, <1>4, <1>6, QuietStep

\* Barriers, verdicts and the choice of a page.
LEMMA QuietMainTold ==
  ASSUME TableInv, FlashInv, NEW h \in Host, Barrier(h) \/ RandomPage(h) \/ PrintVerdict(h)
  PROVE  FlashInv'
<1>0. TypeOK /\ InRequest
  BY DEF TableInv
<1>1. /\ script[h] # <<>> /\ Head(script[h]).do \in {"wait", "random", "verdict"}
      /\ UNCHANGED <<deployment, bad, at, tag, requests, flash, flashStatus, checkData, writeBuffers>>
  BY DEF Barrier, RandomPage, PrintVerdict, Doing, deviceVars, tableVars, testVars
<1>2. at[h] = "loop" /\ script[h] \in Seq(Step)
  BY <1>0, <1>1 DEF InRequest, Op, TypeOK
<1>3. ASSUME NEW u, NEW p PROVE ~Sending(h, u, p) /\ ~Sending(h, u, p)'
  BY <1>1, <1>2 DEF Sending
<1>4. /\ \A k \in Host : k # h => script'[k] = script[k]
      /\ script'[h] = Tail(script[h]) \/ Picks(script[h], script'[h])
  <2>1. CASE Barrier(h) \/ PrintVerdict(h)
    BY <1>0, <2>1 DEF Barrier, PrintVerdict, Continue, TypeOK
  <2>2. CASE RandomPage(h)
    BY <1>0, <2>2 DEF RandomPage, Doing, Picks, TypeOK
  <2> QED BY <2>1, <2>2
<1>5. ASSUME NEW p \in Page PROVE Relies(script'[h], p) => Relies(script[h], p)
  <2>1. ~Erases(Head(script[h]), p)
    BY <1>1 DEF Erases
  <2>2. PICK s, u : s = script[h] /\ u = script'[h]
    OBVIOUS
  <2>3. CASE u = Tail(s)
    BY <1>1, <1>2, <2>1, <2>2, <2>3, ReliedBefore
  <2>4. CASE Picks(s, u)
    BY <1>2, <2>2, <2>4, ReliedPick
  <2> QED BY <1>4, <2>2, <2>3, <2>4
<1>6. ASSUME NEW p \in Page PROVE Claims(h, p)' => Claims(h, p)
  BY <1>1, <1>3, <1>5 DEF Claims
<1> QED BY <1>0, <1>1, <1>3, <1>4, <1>6, QuietStep

\* What a registration has in common: the host is about to send its request, and no
\* request under way uses the page.
LEMMA Registering ==
  ASSUME TypeOK, OrderInv, NEW h \in Host, NEW o \in {"erase", "write"}, NEW q \in Page,
         Register(h, o, q)
  PROVE  /\ script[h] # <<>> /\ Head(script[h]).do = o /\ Head(script[h]).page = q
         /\ script[h] \in Seq(Step) /\ at[h] = "register" /\ at'[h] = "send"
         /\ UNCHANGED <<deployment, bad, script, tag, requests, flash, checkData>>
         /\ \A k \in Host : k # h => at'[k] = at[k]
         /\ \A r \in requests : r.page # q
         /\ \A u, p : ~Sending(h, u, p) /\ (Sending(h, u, p)' <=> u = o /\ p = q)
<1>1. /\ script[h] # <<>> /\ Head(script[h]).do = o /\ Head(script[h]).page = q
      /\ at[h] = "register" /\ at' = [at EXCEPT ![h] = "send"]
      /\ UNCHANGED <<deployment, bad, script, tag, requests, flash, checkData>>
  BY DEF Register, Doing, Goto, deviceVars, testVars
<1>2. at \in [Host -> {"loop", "register", "send"}] /\ script[h] \in Seq(Step)
  BY DEF TypeOK
<1>3. at'[h] = "send" /\ \A k \in Host : k # h => at'[k] = at[k]
  BY <1>1, <1>2
<1>4. ASSUME NEW r \in requests, r.page = q PROVE FALSE
  <2>1. ~Clash(deployment, r.op, r.page, o, q)
    BY <1>1, NoneAtHead DEF Op
  <2> QED BY <1>4, <2>1 DEF Clash
<1>5. \A u, p : ~Sending(h, u, p) /\ (Sending(h, u, p)' <=> u = o /\ p = q)
  BY <1>1, <1>3 DEF Sending, Doing
<1> QED BY <1>1, <1>2, <1>3, <1>4, <1>5

\* The other pages of a host that registers an erase or a write.
LEMMA OtherPagesTold ==
  ASSUME TypeOK, OrderInv, NEW h \in Host, NEW o \in {"erase", "write"}, NEW q \in Page,
         Register(h, o, q), StatusTold(h), NEW p \in Page, p # q,
         flashStatus'[h][p] = flashStatus[h][p]
  PROVE  Claims(h, p)' => Truthful(h, p)'
<1>1. /\ UNCHANGED <<deployment, bad, script, requests, flash, checkData>>
      /\ \A u, v : ~Sending(h, u, v) /\ (Sending(h, u, v)' <=> u = o /\ v = q)
  BY Registering
<1>2. Claims(h, p)' => Claims(h, p)
  BY <1>1 DEF Claims
<1>3. /\ Pending(h, "erase", p, {"sent", "bad"}) => Pending(h, "erase", p, {"sent", "bad"})'
      /\ Pending(h, "write", p, {"sent"}) => Pending(h, "write", p, {"sent"})'
  BY <1>1 DEF Pending
<1> QED BY <1>1, <1>2, <1>3, PageStays DEF StatusTold

\* Registering an erase: the status tells what the page is about to hold.
LEMMA EraseBlockTold ==
  ASSUME TypeOK, OrderInv, FlashInv, NEW h \in Host, NEW q \in Page, EraseBlock(h, q)
  PROVE  FlashInv'
<1>0. StatusTold(h) /\ RequestsTold(h) /\ SendingTold(h)
  BY DEF FlashInv
<1>1. Register(h, "erase", q)
  BY DEF EraseBlock
<1>2. /\ UNCHANGED <<deployment, bad, script, tag, requests, flash, checkData>>
      /\ \A k \in Host : k # h => at'[k] = at[k]
      /\ \A r \in requests : r.page # q
      /\ \A u, p : Sending(h, u, p)' <=> u = "erase" /\ p = q
  BY <1>1, Registering
<1>3. /\ flashStatus' = [flashStatus EXCEPT ![h][q] = "ERASED"] /\ UNCHANGED writeBuffers
      /\ flashStatus \in [Host -> [Page -> {"UNINIT", "ERASED", "WRITTEN", "BAD"}]]
  BY DEF EraseBlock, SetStatus, TypeOK
<1>4. /\ flashStatus'[h][q] = "ERASED"
      /\ \A p \in Page : p # q => flashStatus'[h][p] = flashStatus[h][p]
      /\ \A k \in Host : k # h => flashStatus'[k] = flashStatus[k]
  BY <1>3
<1>5. StatusTold(h)'
  <2> SUFFICES ASSUME NEW p \in Page PROVE Claims(h, p)' => Truthful(h, p)'
    BY DEF StatusTold
  <2>1. CASE p = q
    BY <1>2, <1>4, <2>1 DEF Truthful, IsErased, Pending
  <2>2. CASE p # q
    BY <1>0, <1>1, <1>4, <2>2, OtherPagesTold
  <2> QED BY <2>1, <2>2
<1>6. RequestsTold(h)'
  BY <1>0, <1>2, <1>3, <1>4 DEF RequestsTold, RequestTold, Registered, Filled, TypeOK
<1>7. SendingTold(h)'
  BY <1>2, <1>4 DEF SendingTold, Registered, Filled
<1>8. ASSUME NEW g \in Host, g # h PROVE StatusTold(g)' /\ RequestsTold(g)' /\ SendingTold(g)'
  BY <1>2, <1>3, <1>4, <1>8, OthersInMain
<1> QED BY <1>5, <1>6, <1>7, <1>8 DEF FlashInv

\* Registering a write: the page was erased in this test, or is bad, and its buffer is
\* filled.
LEMMA WritePageTold ==
  ASSUME TableInv, OrderInv, DataTypes, FlashInv, NEW h \in Host, NEW q \in Page, WritePage(h, q)
  PROVE  FlashInv'
<1>0. StatusTold(h) /\ RequestsTold(h) /\ SendingTold(h) /\ TypeOK /\ HoldsTag
  BY DEF FlashInv, TableInv
<1>1. Register(h, "write", q)
  BY DEF WritePage
<1>2. /\ UNCHANGED <<deployment, bad, script, tag, requests, flash, checkData>>
      /\ \A k \in Host : k # h => at'[k] = at[k]
      /\ \A r \in requests : r.page # q
      /\ \A u, p : ~Sending(h, u, p) /\ (Sending(h, u, p)' <=> u = "write" /\ p = q)
      /\ script[h] # <<>> /\ script[h] \in Seq(Step)
      /\ Head(script[h]).do = "write" /\ Head(script[h]).page = q /\ at[h] = "register"
  BY <1>0, <1>1, Registering
<1>3. /\ flashStatus' = [flashStatus EXCEPT ![h][q] =
           IF flashStatus[h][q] = "BAD" THEN "BAD" ELSE "WRITTEN"]
      /\ flashStatus \in [Host -> [Page -> {"UNINIT", "ERASED", "WRITTEN", "BAD"}]]
  BY <1>0 DEF WritePage, SetStatus, TypeOK
<1>4. /\ flashStatus'[h][q] = IF flashStatus[h][q] = "BAD" THEN "BAD" ELSE "WRITTEN"
      /\ \A p \in Page : p # q => flashStatus'[h][p] = flashStatus[h][p]
      /\ \A k \in Host : k # h => flashStatus'[k] = flashStatus[k]
  BY <1>3
<1>5. /\ tag[h] \in Tag /\ writeBuffers \in [Host -> [Tag -> Data]]
      /\ \A r \in requests : r.host = h /\ r.op = "write" => r.tag # tag[h]
  <2>1. tag[h] \in busy[h]["write"]
        /\ \A r \in requests : r.host = h /\ r.op = "write" => r.tag # tag[h]
    BY <1>0, <1>2 DEF HoldsTag
  <2>2. busy[h]["write"] \subseteq Tag
    BY <1>0 DEF TypeOK, Op
  <2> QED BY <2>1, <2>2 DEF DataTypes
<1>6. /\ checkData[h] => writeBuffers'[h][tag[h]] = HashAddrToData(q)
      /\ \A k \in Host : k # h => writeBuffers'[k] = writeBuffers[k]
      /\ \A t \in Tag : t # tag[h] => writeBuffers'[h][t] = writeBuffers[h][t]
  BY <1>5 DEF WritePage, FillBuffer
<1>7. Truthful(h, q)'
  <2>1. Truthful(h, q)
    BY <1>0, <1>2, ReliedNow DEF StatusTold, Claims
  <2>2. ~Pending(h, "erase", q, {"sent", "bad"})
    BY <1>2 DEF Pending
  <2>3. Pending(h, "write", q, {"sent"})'
    BY <1>2 DEF Pending
  <2>4. (flashStatus[h][q] = "BAD" /\ q \in bad) \/ Lost(q) \/ q \notin bad
    BY <2>1, <2>2 DEF Truthful, IsErased, IsWritten
  <2>5. (flashStatus'[h][q] = "BAD" /\ q \in bad) \/ flashStatus'[h][q] = "WRITTEN"
    BY <1>4, <2>1 DEF Truthful
  <2>6. flashStatus'[h][q] = "WRITTEN" => IsWritten(h, q)'
    BY <1>2, <1>4, <2>3, <2>4 DEF IsWritten, Lost
  <2> QED BY <1>2, <2>5, <2>6 DEF Truthful
<1>8. StatusTold(h)'
  <2> SUFFICES ASSUME NEW p \in Page, p # q PROVE Claims(h, p)' => Truthful(h, p)'
    BY <1>7 DEF StatusTold
  <2> QED BY <1>0, <1>1, <1>4, OtherPagesTold
<1>9. RequestsTold(h)'
  <2> SUFFICES ASSUME NEW r \in requests, r.host = h PROVE RequestTold(r)'
    BY <1>2 DEF RequestsTold
  <2>1. RequestTold(r) /\ r.page # q /\ r.page \in Page /\ r.tag \in Tag
        /\ (r.op = "write" => r.tag # tag[h])
    BY <1>0, <1>2, <1>5 DEF RequestsTold, TypeOK
  <2>2. flashStatus'[h][r.page] = flashStatus[h][r.page]
    BY <1>4, <2>1
  <2>3. r.op = "write" => writeBuffers'[h][r.tag] = writeBuffers[h][r.tag]
    BY <1>6, <2>1
  <2> QED BY <1>2, <2>1, <2>2, <2>3 DEF RequestTold, Registered, Filled
<1>10. SendingTold(h)'
  BY <1>2, <1>4, <1>6 DEF SendingTold, Registered, Filled
<1>11. ASSUME NEW g \in Host, g # h PROVE StatusTold(g)' /\ RequestsTold(g)' /\ SendingTold(g)'
  BY <1>0, <1>2, <1>4, <1>6, <1>11, OthersInMain
<1> QED BY <1>8, <1>9, <1>10, <1>11 DEF FlashInv

\* Sending a request: what was about to be under way is.
LEMMA SendRequestTold ==
  ASSUME TypeOK, InRequest, FlashInv, NEW h \in Host, SendRequest(h)
  PROVE  FlashInv'
<1>0. StatusTold(h) /\ RequestsTold(h) /\ SendingTold(h)
  BY DEF FlashInv
<1>1. PICK q : q = [host |-> h, op |-> Head(script[h]).do, tag |-> tag[h],
                    page |-> Head(script[h]).page, stage |-> "sent"]
  OBVIOUS
<1>2. /\ at[h] = "send" /\ at' = [at EXCEPT ![h] = "loop"] /\ requests' = requests \cup {q}
      /\ script' = [script EXCEPT ![h] = Tail(@)]
      /\ UNCHANGED <<deployment, bad, tag, flash, flashStatus, checkData, writeBuffers>>
  BY <1>1 DEF SendRequest, Goto, Continue, tableVars, testVars
<1>3. /\ at \in [Host -> {"loop", "register", "send"}] /\ script \in [Host -> Seq(Step)]
      /\ script[h] # <<>> /\ Head(script[h]).do \in Op
  BY <1>2 DEF TypeOK, InRequest
<1>4. /\ at'[h] = "loop" /\ script'[h] = Tail(script[h])
      /\ \A k \in Host : k # h => UNCHANGED <<script[k], at[k]>>
  BY <1>2, <1>3
<1>5. q.host = h /\ q.op = Head(script[h]).do /\ q.tag = tag[h] /\ q.page = Head(script[h]).page
      /\ q.stage = "sent" /\ q.op \in Op /\ q.page \in Page
  BY <1>1, <1>3, ScriptStep
<1>6. ASSUME NEW u, NEW p PROVE ~Sending(h, u, p)' /\ (Sending(h, u, p) <=> u = q.op /\ p = q.page)
  BY <1>2, <1>3, <1>4, <1>5 DEF Sending, Doing
<1>7. ASSUME NEW p \in Page PROVE Claims(h, p)' => Claims(h, p)
  <2>1. ASSUME Relies(script'[h], p) PROVE Claims(h, p)
    <3>1. PICK s : s = script[h]
      OBVIOUS
    <3>2. CASE Erases(Head(s), p)
      <4>1. Sending(h, "erase", p)
        BY <1>5, <1>6, <3>1, <3>2 DEF Erases
      <4> QED BY <4>1 DEF Claims, Op
    <3>3. CASE ~Erases(Head(s), p)
      <4>1. s \in Seq(Step) /\ s # <<>> /\ Head(s).do \notin {"key", "start"} /\ Relies(Tail(s), p)
        BY <1>3, <1>4, <2>1, <3>1 DEF Op
      <4>2. Relies(s, p)
        BY <3>3, <4>1, ReliedBefore
      <4> QED BY <3>1, <4>2 DEF Claims
    <3> QED BY <3>2, <3>3
  <2>2. ASSUME NEW r \in requests', r.host = h, r.op = "read", r.page = p PROVE Claims(h, p)
    <3>1. CASE r \in requests
      BY <2>2, <3>1 DEF Claims
    <3>2. CASE r = q
      BY <1>6, <2>2, <3>2 DEF Claims, Op
    <3> QED BY <1>2, <3>1, <3>2
  <2> QED BY <1>6, <2>1, <2>2 DEF Claims
<1>8. StatusTold(h)'
  <2> SUFFICES ASSUME NEW p \in Page PROVE Claims(h, p)' => Truthful(h, p)'
    BY DEF StatusTold
  <2>1. ASSUME NEW o, NEW stages, "sent" \in stages
        PROVE  Pending(h, o, p, stages) => Pending(h, o, p, stages)'
    <3>1. CASE Sending(h, o, p)
      <4>1. q \in requests' /\ q.host = h /\ q.op = o /\ q.page = p /\ q.stage \in stages
        BY <1>2, <1>5, <1>6, <2>1, <3>1
      <4> QED BY <4>1 DEF Pending
    <3>2. CASE ~Sending(h, o, p)
      BY <1>2, <3>2 DEF Pending
    <3> QED BY <3>1, <3>2
  <2> QED BY <1>0, <1>2, <1>7, <2>1, PageStays DEF StatusTold
<1>9. RequestTold(q)'
  <2>1. Registered(h, q.op, q.page) /\ Filled(h, q.op, tag[h], q.page)
    BY <1>0, <1>5, <1>6 DEF SendingTold
  <2> QED BY <1>2, <1>5, <2>1 DEF RequestTold, Registered, Filled
<1>10. RequestsTold(h)'
  BY <1>0, <1>2, <1>9 DEF RequestsTold, RequestTold, Registered, Filled
<1>11. SendingTold(h)'
  BY <1>6 DEF SendingTold
<1>12. ASSUME NEW g \in Host, g # h PROVE StatusTold(g)' /\ RequestsTold(g)' /\ SendingTold(g)'
  BY <1>2, <1>4, <1>5, <1>12, OthersInMain
<1> QED BY <1>8, <1>10, <1>11, <1>12 DEF FlashInv

\* A host with no request, in none, and relying on no page, has nothing to be told.
LEMMA NothingTold ==
  ASSUME NEW h \in Host, \A r \in requests : r.host # h, at[h] # "send",
         \A p \in Page : ~Relies(script[h], p)
  PROVE  StatusTold(h) /\ RequestsTold(h) /\ SendingTold(h)
BY DEF StatusTold, RequestsTold, SendingTold, Claims, Sending

\* A test begins: the host relies on no page, and has no request under way.
LEMMA StartTestTold ==
  ASSUME TableInv, OrderInv, FlashInv, NEW h \in Host, StartTest(h)
  PROVE  FlashInv'
<1>0. TypeOK /\ InRequest
  BY DEF TableInv
<1>1. /\ script[h] # <<>> /\ Head(script[h]).do = "start"
      /\ script' = [script EXCEPT ![h] = Tail(@)]
      /\ checkData' = [checkData EXCEPT ![h] = Head(script[h]).check]
      /\ UNCHANGED <<deployment, bad, at, tag, requests, flash, flashStatus, writeBuffers>>
  BY DEF StartTest, Doing, Continue, deviceVars, tableVars
<1>2. script \in [Host -> Seq(Step)] /\ at[h] = "loop"
  BY <1>0, <1>1 DEF TypeOK, InRequest, Op
<1>3. \A r \in requests : r.host # h
  BY <1>0, <1>1, NoneAtHead DEF EndsPart
<1>4. script'[h] = Tail(script[h]) /\ \A k \in Host : k # h => script'[k] = script[k]
  BY <1>1, <1>2
<1>5. ASSUME NEW p \in Page PROVE ~Relies(script'[h], p)
  <2>1. PICK s : s = script[h]
    OBVIOUS
  <2>2. s \in Seq(Step) /\ s # <<>> /\ ErasesAgain(s) /\ Head(s).do \in {"key", "start"}
    BY <1>1, <1>2, <2>1 DEF OrderInv, KeptScripts
  <2> QED BY <1>4, <2>1, <2>2, NoneRelied
<1>6. StatusTold(h)' /\ RequestsTold(h)' /\ SendingTold(h)'
  BY <1>1, <1>2, <1>3, <1>5 DEF StatusTold, RequestsTold, SendingTold, Claims, Sending
<1>7. ASSUME NEW g \in Host, g # h PROVE StatusTold(g)' /\ RequestsTold(g)' /\ SendingTold(g)'
  <2>1. \A k \in Host : k # h => checkData'[k] = checkData[k]
    BY <1>1
  <2> QED BY <1>0, <1>1, <1>4, <1>7, <2>1, OthersInMain
<1> QED BY <1>6, <1>7 DEF FlashInv

\* Keys pressed: no host relies on a page or has a request under way.
LEMMA PressKeysTold ==
  ASSUME TableInv, OrderInv, PressKeys
  PROVE  FlashInv'
<1>0. TypeOK /\ InRequest
  BY DEF TableInv
<1>1. requests = {} /\ UNCHANGED <<requests, at>>
  BY <1>0, OrderKeys DEF PressKeys, deviceVars
<1> SUFFICES ASSUME NEW h \in Host PROVE StatusTold(h)' /\ RequestsTold(h)' /\ SendingTold(h)'
  BY DEF FlashInv
<1>2. script[h] # <<>> /\ Head(script[h]).do = "key" /\ script'[h] = Tail(script[h])
  BY DEF PressKeys, Doing
<1>3. at[h] = "loop"
  BY <1>0, <1>2 DEF TypeOK, InRequest, Op
<1>4. ASSUME NEW p \in Page PROVE ~Relies(script'[h], p)
  <2>1. PICK s : s = script[h]
    OBVIOUS
  <2>2. s \in Seq(Step) /\ s # <<>> /\ ErasesAgain(s) /\ Head(s).do \in {"key", "start"}
    BY <1>0, <1>2, <2>1 DEF OrderInv, KeptScripts, TypeOK
  <2> QED BY <1>2, <2>1, <2>2, NoneRelied
<1> QED BY <1>1, <1>3, <1>4 DEF StatusTold, RequestsTold, SendingTold, Claims, Sending

\* At first nothing is told, for every page is erased before it is used.
LEMMA InitTold == Init /\ Disciplined(deployment) => FlashInv
<1> SUFFICES ASSUME Init, Disciplined(deployment), NEW h \in Host
             PROVE  StatusTold(h) /\ RequestsTold(h) /\ SendingTold(h)
  BY DEF FlashInv
<1>1. script[h] \in Seq(Step) /\ ErasesFirst(script[h])
  BY DeploymentsAssumption DEF Init, Disciplined
<1>2. requests = {} /\ at[h] = "loop"
  BY DEF Init
<1>3. ASSUME NEW p \in Page PROVE ~Relies(script[h], p)
  <2>1. PICK s : s = script[h]
    OBVIOUS
  <2> QED BY <1>1, <2>1, NoneReliedFirst
<1> QED BY <1>2, <1>3, NothingTold

\* Every step of main leaves the hosts told.
LEMMA MainTold ==
  ASSUME TableInv, OrderInv, DataTypes, FlashInv, NEW h \in Host, MainStep(h)
  PROVE  FlashInv'
<1>1. TypeOK /\ InRequest
  BY DEF TableInv
<1> QED BY <1>1, WaitIdleTagTold, ReadPageTold, QuietMainTold, EraseBlockTold, WritePageTold,
           SendRequestTold, StartTestTold DEF MainStep

\* While a page is erased or written no other host claims it.
LEMMA NoOtherClaims ==
  ASSUME TypeOK, InRequest, OrderInv, NEW r \in requests, r.op \in {"erase", "write"},
         NEW h \in Host, h # r.host
  PROVE  ~Claims(h, r.page)
<1>1. ASSUME NEW o, Sending(h, o, r.page) PROVE FALSE
  <2>1. script[h] # <<>> /\ Head(script[h]).do \in Op /\ Head(script[h]).page = r.page
    BY <1>1 DEF Sending, InRequest, Doing
  <2>2. ~Clash(deployment, r.op, r.page, Head(script[h]).do, Head(script[h]).page)
    BY <2>1, NoneAtHead
  <2> QED BY <2>1, <2>2 DEF Clash
<1>2. ASSUME NEW t \in requests, t.host = h, t.page = r.page PROVE FALSE
  BY <1>2 DEF OrderInv, NoClash, Clash
<1>3. ASSUME Relies(script[h], r.page) PROVE FALSE
  <2>1. PICK s, d, o, p : s = script[h] /\ d = deployment /\ o = r.op /\ p = r.page
    OBVIOUS
  <2>2. Keyed(d, o, p, s) /\ o # "read" /\ s \in Seq(Step)
    BY <2>1 DEF OrderInv, KeyPressedFor, TypeOK
  <2>3. PICK j \in DOMAIN s : TakesPage(s[j], p) /\ \A k \in 1 .. (j - 1) : s[k].do # "key"
    BY <1>3, <2>1 DEF Relies
  <2>4. ClashesWith(d, o, p, s[j])
    BY <2>2, <2>3 DEF TakesPage, ClashesWith, Clash
  <2> QED BY <2>2, <2>3, <2>4 DEF Keyed
<1> QED BY <1>1, <1>2, <1>3 DEF Claims

\* A request goes on at the device.  What its host knows of its page is left to show.
LEMMA AnsweredTold ==
  ASSUME TypeOK, FlashInv, NEW r \in requests, NEW s \in {"done", "bad", "checked"}, Answered(r, s),
         UNCHANGED <<deployment, bad, mainVars, flashStatus, checkData, writeBuffers>>,
         \A p \in Page : p # r.page => flash'[p] = flash[p],
         \A h \in Host : h # r.host => flash'[r.page] = flash[r.page] \/ ~Claims(h, r.page),
         r.op = "read" \/ (Claims(r.host, r.page) => Truthful(r.host, r.page)'),
         r.op = "read" => flash' = flash,
         r.op = "erase" => (s = "bad" => r.page \in bad) /\ (s = "done" => r.page \notin bad)
  PROVE  FlashInv'
<1>1. PICK q : q = [r EXCEPT !.stage = s]
  OBVIOUS
<1>2. /\ q.host = r.host /\ q.op = r.op /\ q.page = r.page /\ q.tag = r.tag /\ q.stage = s
      /\ r.host \in Host /\ r.page \in Page /\ requests' = (requests \ {r}) \cup {q}
  BY <1>1 DEF TypeOK, Answered
<1>3. UNCHANGED <<script, at, tag>>
  BY DEF mainVars
<1>4. ASSUME NEW h, NEW o, NEW p PROVE Sending(h, o, p)' <=> Sending(h, o, p)
  BY <1>3 DEF Sending, Doing
<1>5. ASSUME NEW h, NEW p PROVE Claims(h, p)' => Claims(h, p)
  BY <1>2, <1>3, <1>4 DEF Claims
<1>6. ASSUME NEW h, NEW o, NEW p, NEW stages, h # r.host \/ p # r.page \/ o # r.op
      PROVE  Pending(h, o, p, stages) => Pending(h, o, p, stages)'
  BY <1>2, <1>4, <1>6 DEF Pending
<1> SUFFICES ASSUME NEW h \in Host PROVE StatusTold(h)' /\ RequestsTold(h)' /\ SendingTold(h)'
  BY DEF FlashInv
<1>7. StatusTold(h) /\ RequestsTold(h) /\ SendingTold(h)
  BY DEF FlashInv
<1>8. StatusTold(h)'
  <2> SUFFICES ASSUME NEW p \in Page PROVE Claims(h, p)' => Truthful(h, p)'
    BY DEF StatusTold
  <2>1. CASE h = r.host /\ p = r.page /\ r.op # "read"
    BY <1>5, <2>1
  <2>2. CASE h # r.host \/ p # r.page \/ r.op = "read"
    <3>1. CASE flash'[p] = flash[p]
      <4>1. /\ Pending(h, "erase", p, {"sent", "bad"}) => Pending(h, "erase", p, {"sent", "bad"})'
            /\ Pending(h, "write", p, {"sent"}) => Pending(h, "write", p, {"sent"})'
        BY <1>6, <2>2
      <4>2. Claims(h, p) => Truthful(h, p)
        BY <1>7 DEF StatusTold
      <4> QED BY <1>5, <3>1, <4>1, <4>2, PageStays
    <3>2. CASE flash'[p] # flash[p]
      BY <1>5, <2>2, <3>2
    <3> QED BY <3>1, <3>2
  <2> QED BY <2>1, <2>2
<1>9. RequestsTold(h)'
  <2>1. r.host = h => RequestTold(r)
    BY <1>7 DEF RequestsTold
  <2>2. q.host = h => RequestTold(q)'
    BY <1>2, <2>1 DEF RequestTold, Registered, Filled
  <2> QED BY <1>2, <1>7, <2>2 DEF RequestsTold, RequestTold, Registered, Filled
<1>10. SendingTold(h)'
  BY <1>3, <1>4, <1>7 DEF SendingTold, Registered, Filled
<1> QED BY <1>8, <1>9, <1>10

\* A request is handled.  If the status of its page changes, no other request of the
\* host uses the page.
LEMMA RemovedTold ==
  ASSUME TypeOK, FlashInv, NEW r \in requests, requests' = requests \ {r},
         UNCHANGED <<deployment, bad, mainVars, checkData, writeBuffers, flash>>,
         \A h \in Host, p \in Page : h # r.host \/ p # r.page => flashStatus'[h][p] = flashStatus[h][p],
         \/ flashStatus' = flashStatus
         \/ /\ \A t \in requests : t # r => t.page # r.page
            /\ \A o : ~Sending(r.host, o, r.page),
         r.op = "read" \/ (Claims(r.host, r.page) => Truthful(r.host, r.page)'),
         r.op = "read" => flashStatus' = flashStatus
  PROVE  FlashInv'
<1>1. UNCHANGED <<script, at, tag>> /\ r.host \in Host /\ r.page \in Page
  BY DEF mainVars, TypeOK
<1>2. ASSUME NEW h, NEW o, NEW p PROVE Sending(h, o, p)' <=> Sending(h, o, p)
  BY <1>1 DEF Sending, Doing
<1>3. ASSUME NEW h, NEW p PROVE Claims(h, p)' => Claims(h, p)
  BY <1>1, <1>2 DEF Claims
<1>4. ASSUME NEW h, NEW o, NEW p, NEW stages, h # r.host \/ p # r.page \/ o # r.op
      PROVE  Pending(h, o, p, stages) => Pending(h, o, p, stages)'
  BY <1>2, <1>4 DEF Pending
<1> SUFFICES ASSUME NEW h \in Host PROVE StatusTold(h)' /\ RequestsTold(h)' /\ SendingTold(h)'
  BY DEF FlashInv
<1>5. StatusTold(h) /\ RequestsTold(h) /\ SendingTold(h)
  BY DEF FlashInv
<1>6. StatusTold(h)'
  <2> SUFFICES ASSUME NEW p \in Page PROVE Claims(h, p)' => Truthful(h, p)'
    BY DEF StatusTold
  <2>1. CASE h = r.host /\ p = r.page /\ r.op # "read"
    BY <1>3, <2>1
  <2>2. CASE h # r.host \/ p # r.page \/ r.op = "read"
    <3>1. /\ Pending(h, "erase", p, {"sent", "bad"}) => Pending(h, "erase", p, {"sent", "bad"})'
          /\ Pending(h, "write", p, {"sent"}) => Pending(h, "write", p, {"sent"})'
      BY <1>4, <2>2
    <3>2. (Claims(h, p) => Truthful(h, p)) /\ flashStatus'[h][p] = flashStatus[h][p]
      BY <1>5, <2>2 DEF StatusTold
    <3> QED BY <1>3, <3>1, <3>2, PageStays
  <2> QED BY <2>1, <2>2
<1>7. RequestsTold(h)'
  <2> SUFFICES ASSUME NEW t \in requests, t # r, t.host = h PROVE RequestTold(t)'
    BY DEF RequestsTold
  <2>1. RequestTold(t) /\ t.page \in Page
    BY <1>5 DEF RequestsTold, TypeOK
  <2>2. flashStatus'[h][t.page] = flashStatus[h][t.page]
    BY <2>1
  <2> QED BY <2>1, <2>2 DEF RequestTold, Registered, Filled
<1>8. SendingTold(h)'
  <2> SUFFICES ASSUME NEW o \in Op, NEW p \in Page, Sending(h, o, p)
               PROVE  Registered(h, o, p)' /\ Filled(h, o, tag[h], p)'
    BY <1>1, <1>2 DEF SendingTold
  <2>1. flashStatus'[h][p] = flashStatus[h][p]
    OBVIOUS
  <2> QED BY <1>1, <1>5, <2>1 DEF SendingTold, Registered, Filled
<1> QED BY <1>6, <1>7, <1>8

\* An erase is carried out: its host has the status ERASED, and no other claims it.
LEMMA CompleteEraseTold ==
  ASSUME TypeOK, InRequest, OrderInv, DataTypes, FlashInv, NEW r \in requests, CompleteErase(r)
  PROVE  FlashInv'
<1>1. r.op = "erase" /\ r.stage = "sent" /\ r.host \in Host /\ r.page \in Page
  BY DEF CompleteErase, TypeOK
<1>2. UNCHANGED <<deployment, bad, mainVars, flashStatus, checkData, writeBuffers>>
  BY DEF CompleteErase, tableVars, testVars
<1>3. flashStatus[r.host][r.page] = "ERASED" /\ StatusTold(r.host)
  BY <1>1 DEF FlashInv, RequestsTold, RequestTold, Registered
<1>4. \A h \in Host : h # r.host => ~Claims(h, r.page)
  BY <1>1, NoOtherClaims
<1>5. CASE r.page \in bad
  <2>1. Answered(r, "bad") /\ flash' = flash
    BY <1>5 DEF CompleteErase
  <2>2. ASSUME Claims(r.host, r.page) PROVE Truthful(r.host, r.page)'
    <3>1. Pending(r.host, "erase", r.page, {"sent", "bad"})'
      <4>1. [r EXCEPT !.stage = "bad"] \in requests'
        BY <2>1 DEF Answered
      <4>2. LET q == [r EXCEPT !.stage = "bad"]
            IN  q.host = r.host /\ q.op = "erase" /\ q.page = r.page /\ q.stage = "bad"
        BY <1>1 DEF TypeOK
      <4> QED BY <4>1, <4>2 DEF Pending
    <3> QED BY <1>2, <1>3, <3>1 DEF Truthful, IsErased
  <2> QED BY <1>1, <1>2, <1>4, <1>5, <2>1, <2>2, AnsweredTold
<1>6. CASE r.page \notin bad
  <2>1. Answered(r, "done") /\ flash' = [flash EXCEPT ![r.page] = Erased]
    BY <1>6 DEF CompleteErase
  <2>2. \A p \in Page : p # r.page => flash'[p] = flash[p]
    BY <2>1
  <2>3. flash'[r.page] = Erased
    BY <1>1, <2>1 DEF DataTypes
  <2>4. Truthful(r.host, r.page)'
    BY <1>2, <1>3, <1>6, <2>3 DEF Truthful, IsErased
  <2> QED BY <1>1, <1>2, <1>4, <1>6, <2>1, <2>2, <2>4, AnsweredTold
<1> QED BY <1>5, <1>6

\* A write is carried out: the page holds the buffer, which was filled for it.
LEMMA CompleteWriteTold ==
  ASSUME TypeOK, InRequest, OrderInv, DataTypes, FlashInv, NEW r \in requests, CompleteWrite(r)
  PROVE  FlashInv'
<1>1. r.op = "write" /\ r.stage = "sent" /\ r.host \in Host /\ r.page \in Page
  BY DEF CompleteWrite, TypeOK
<1>2. /\ UNCHANGED <<deployment, bad, mainVars, flashStatus, checkData, writeBuffers>>
      /\ Answered(r, "done")
      /\ flash' = IF r.page \in bad THEN flash
                  ELSE [flash EXCEPT ![r.page] = writeBuffers[r.host][r.tag]]
  BY DEF CompleteWrite, tableVars, testVars
<1>3. /\ flashStatus[r.host][r.page] \in {"WRITTEN", "BAD"} /\ StatusTold(r.host)
      /\ checkData[r.host] => writeBuffers[r.host][r.tag] = HashAddrToData(r.page)
  BY <1>1 DEF FlashInv, RequestsTold, RequestTold, Registered, Filled
<1>4. \A h \in Host : h # r.host => ~Claims(h, r.page)
  BY <1>1, NoOtherClaims
<1>5. \A p \in Page : p # r.page => flash'[p] = flash[p]
  BY <1>2
<1>6. r.page \notin bad => flash'[r.page] = writeBuffers[r.host][r.tag]
  BY <1>1, <1>2 DEF DataTypes
<1>7. ASSUME Claims(r.host, r.page) PROVE Truthful(r.host, r.page)'
  <2>1. Truthful(r.host, r.page)
    BY <1>1, <1>3, <1>7 DEF StatusTold
  <2>2. flashStatus[r.host][r.page] = "BAD" => r.page \in bad
    BY <2>1 DEF Truthful
  <2>3. ASSUME r.page \notin bad PROVE Truthful(r.host, r.page)'
    BY <1>2, <1>3, <1>6, <2>2, <2>3 DEF Truthful, IsWritten
  <2>4. ASSUME r.page \in bad PROVE Truthful(r.host, r.page)'
    BY <1>2, <1>3, <2>1, <2>4 DEF Truthful, IsWritten, Lost
  <2> QED BY <2>3, <2>4
<1> QED BY <1>1, <1>2, <1>4, <1>5, <1>7, AnsweredTold

\* A read changes nothing that a host knows of the flash.
LEMMA ReadTold ==
  ASSUME TypeOK, FlashInv, NEW r \in requests, CompleteRead(r) \/ ReadDoneCheck(r)
  PROVE  FlashInv'
<1>1. /\ r.op = "read" /\ (Answered(r, "done") \/ Answered(r, "checked"))
      /\ UNCHANGED <<deployment, bad, mainVars, flashStatus, checkData, writeBuffers, flash>>
  BY DEF CompleteRead, ReadDoneCheck, tableVars
<1> QED BY <1>1, AnsweredTold

\* An indication is handled: a bad block that is recorded has the status BAD, and one
\* that is not is lost.
LEMMA HandledTold ==
  ASSUME TypeOK, InRequest, OrderInv, TagsOwned, FlashInv, NEW r \in requests,
         ReadDone(r) \/ WriteDone(r) \/ EraseDone(r)
  PROVE  FlashInv'
<1>1. /\ requests' = requests \ {r} /\ r.host \in Host /\ r.page \in Page
      /\ UNCHANGED <<deployment, bad, mainVars, checkData, writeBuffers, flash>>
  BY DEF ReadDone, WriteDone, EraseDone, Release, TypeOK
<1>2. RequestTold(r) /\ StatusTold(r.host)
  BY <1>1 DEF FlashInv, RequestsTold
<1>3. CASE ReadDone(r)
  BY <1>1, <1>3, RemovedTold DEF ReadDone
<1>4. CASE WriteDone(r)
  <2>1. r.op = "write" /\ r.stage = "done" /\ flashStatus' = flashStatus
    BY <1>4 DEF WriteDone
  <2>2. ASSUME Claims(r.host, r.page) PROVE Truthful(r.host, r.page)'
    <3>1. Truthful(r.host, r.page) /\ flashStatus[r.host][r.page] \in {"WRITTEN", "BAD"}
      BY <1>1, <1>2, <2>1, <2>2 DEF StatusTold, RequestTold, Registered
    <3>2. Pending(r.host, "write", r.page, {"sent"}) => Pending(r.host, "write", r.page, {"sent"})'
      BY <1>1, <2>1 DEF Pending, Sending, Doing, mainVars
    <3> QED BY <1>1, <2>1, <3>1, <3>2 DEF Truthful, IsWritten, Lost
  <2> QED BY <1>1, <2>1, <2>2, RemovedTold
<1>5. CASE EraseDone(r)
  <2>1. r.op = "erase" /\ r.stage \in {"done", "bad"} /\ flashStatus[r.host][r.page] = "ERASED"
        /\ (r.stage = "bad" => r.page \in bad) /\ (r.stage = "done" => r.page \notin bad)
    BY <1>2, <1>5 DEF EraseDone, RequestTold, Registered
  <2>2. entry[r.host]["erase"][r.tag] = r.page
    BY <2>1 DEF TagsOwned
  <2>3. CASE r.stage = "bad" /\ deployment.keepsBad
    <3>1. flashStatus' = [flashStatus EXCEPT ![r.host][r.page] = "BAD"]
          /\ flashStatus \in [Host -> [Page -> {"UNINIT", "ERASED", "WRITTEN", "BAD"}]]
      BY <1>5, <2>2, <2>3 DEF EraseDone, SetStatus, TypeOK
    <3>2. /\ flashStatus'[r.host][r.page] = "BAD"
          /\ \A h \in Host, p \in Page : h # r.host \/ p # r.page =>
               flashStatus'[h][p] = flashStatus[h][p]
      BY <1>1, <3>1
    <3>3. \A t \in requests : t # r => t.page # r.page
      BY <2>1 DEF OrderInv, NoClash, Clash
    <3>4. ASSUME NEW o, Sending(r.host, o, r.page) PROVE FALSE
      <4>1. PICK h \in Host : h = r.host
        BY <1>1
      <4>2. script[h] # <<>> /\ Head(script[h]).do \in Op /\ Head(script[h]).page = r.page
        BY <3>4, <4>1 DEF Sending, InRequest, Doing
      <4>3. ~Clash(deployment, r.op, r.page, Head(script[h]).do, Head(script[h]).page)
        BY <4>2, NoneAtHead
      <4> QED BY <2>1, <4>2, <4>3 DEF Clash
    <3>5. Truthful(r.host, r.page)'
      BY <1>1, <2>1, <2>3, <3>2 DEF Truthful
    <3> QED BY <1>1, <2>1, <3>2, <3>3, <3>4, <3>5, RemovedTold
  <2>4. CASE ~(r.stage = "bad" /\ deployment.keepsBad)
    <3>1. flashStatus' = flashStatus
      BY <1>5, <2>4 DEF EraseDone
    <3>2. ASSUME Claims(r.host, r.page) PROVE Truthful(r.host, r.page)'
      <4>1. Truthful(r.host, r.page)
        BY <1>1, <1>2, <3>2 DEF StatusTold
      <4>2. CASE r.stage = "bad"
        BY <1>1, <2>1, <2>4, <3>1, <4>2 DEF Truthful, IsErased, Lost
      <4>3. CASE r.stage = "done"
        <5>1. Pending(r.host, "erase", r.page, {"sent", "bad"})
                => Pending(r.host, "erase", r.page, {"sent", "bad"})'
          BY <1>1, <4>3 DEF Pending, Sending, Doing, mainVars
        <5> QED BY <1>1, <2>1, <3>1, <4>1, <5>1 DEF Truthful, IsErased, Lost
      <4> QED BY <2>1, <4>2, <4>3
    <3> QED BY <1>1, <3>1, <3>2, RemovedTold
  <2> QED BY <2>3, <2>4
<1> QED BY <1>3, <1>4, <1>5

\* Every step leaves the hosts told.
LEMMA NextTold ==
  ASSUME TableInv, OrderInv, DataTypes, FlashInv, [Next]_vars
  PROVE  FlashInv'
<1>0. TypeOK /\ InRequest /\ TagsOwned
  BY DEF TableInv
<1>1. ASSUME NEW r \in requests, Complete(r) \/ Indicate(r) PROVE FlashInv'
  BY <1>0, <1>1, CompleteEraseTold, CompleteWriteTold, ReadTold, HandledTold DEF Complete, Indicate
<1>2. CASE UNCHANGED vars
  <2> SUFFICES ASSUME NEW h \in Host PROVE StatusTold(h)' /\ RequestsTold(h)' /\ SendingTold(h)'
    BY DEF FlashInv
  <2>1. /\ UNCHANGED <<deployment, bad, script[h], at[h], tag[h], flashStatus[h], checkData[h],
                       writeBuffers[h], flash>>
        /\ requests' = requests
    BY <1>2 DEF vars, mainVars, tableVars, testVars, deviceVars
  <2> QED BY <1>0, <2>1, OthersTold DEF FlashInv
<1> QED BY <1>1, <1>2, MainTold, PressKeysTold DEF Next, Finished

\* A page that is read is not being erased or written.
LEMMA ReadAlone ==
  ASSUME InRequest, TypeOK, OrderInv, NEW r \in requests, r.op = "read", NEW o \in {"erase", "write"},
         NEW stages
  PROVE  ~Pending(r.host, o, r.page, stages)
<1>1. PICK h \in Host : h = r.host
  BY DEF TypeOK
<1>2. ASSUME Sending(h, o, r.page) PROVE FALSE
  <2>1. script[h] # <<>> /\ Head(script[h]).do = o /\ o \in Op /\ Head(script[h]).page = r.page
    BY <1>2 DEF Sending, Doing, Op
  <2>2. ~Clash(deployment, r.op, r.page, Head(script[h]).do, Head(script[h]).page)
    BY <2>1, NoneAtHead
  <2> QED BY <2>1, <2>2 DEF Clash
<1>3. ASSUME NEW t \in requests, t.op = o, t.page = r.page PROVE FALSE
  BY <1>3 DEF OrderInv, NoClash, Clash
<1> QED BY <1>1, <1>2, <1>3 DEF Pending

\* What a host reads is as its status tells, or a bad block's that it knows or has lost.
LEMMA ReadAgrees ==
  ASSUME TableInv, OrderInv, FlashInv, NEW r \in requests, r.op = "read"
  PROVE  LET s == flashStatus[r.host][r.page]
             f == flash[r.page]
         IN  /\ s \in {"ERASED", "WRITTEN", "BAD"}
             /\ s = "BAD" => r.page \in bad
             /\ s = "ERASED" => Lost(r.page) \/ (r.page \notin bad /\ f = Erased)
             /\ s = "WRITTEN" =>
                  Lost(r.page)
                    \/ (r.page \notin bad /\ (checkData[r.host] => f = HashAddrToData(r.page)))
<1>1. TypeOK /\ InRequest /\ r.host \in Host /\ r.page \in Page
  BY DEF TableInv, TypeOK
<1>2. Truthful(r.host, r.page)
  BY <1>1 DEF FlashInv, StatusTold, Claims
<1>3. /\ ~Pending(r.host, "erase", r.page, {"sent", "bad"})
      /\ ~Pending(r.host, "write", r.page, {"sent"})
  BY <1>1, ReadAlone
<1> QED BY <1>2, <1>3 DEF Truthful, IsErased, IsWritten

\* So a read that must fail the test is the flash's fault.
LEMMA ReadBlamed ==
  ASSUME TableInv, OrderInv, FlashInv, NEW r \in requests, r.op = "read", checkData[r.host],
         MustFail(r.host, r.page, flash[r.page])
  PROVE  bad # {} /\ ~deployment.keepsBad
BY ReadAgrees DEF MustFail, Lost

\* And the check finds what must fail the test.
LEMMA CheckFinds ==
  ASSUME TableInv, OrderInv, FlashInv, NEW r \in requests, r.op = "read"
  PROVE  CheckReadData(r.host, r.tag)
           <=> ~MustFail(r.host, r.page, readBuffers[r.host][r.tag])
<1>1. entry[r.host]["read"][r.tag] = r.page
  BY DEF TableInv, TagsOwned
<1>2. flashStatus[r.host][r.page] \in {"ERASED", "WRITTEN", "BAD"}
  BY ReadAgrees
<1> QED BY <1>1, <1>2 DEF CheckReadData, MustFail

\* Between tests, a step that does not start one comes to no request.
LEMMA StartsTail ==
  ASSUME NEW s \in Seq(Step), s # <<>>, StartsFirst(s)
  PROVE  /\ ~IsRequest(Head(s))
         /\ Head(s).do # "start" => StartsFirst(Tail(s))
<1>1. PICK u : u = Tail(s)
  OBVIOUS
<1>2. /\ 1 \in DOMAIN s /\ s[1] = Head(s)
      /\ \A j \in DOMAIN u : j \in Nat /\ j >= 1 /\ j + 1 \in DOMAIN s /\ u[j] = s[j + 1]
      /\ \A j \in DOMAIN s : j \in Nat /\ j >= 1
  BY <1>1, TailAt
<1>3. ~IsRequest(Head(s))
  BY <1>2 DEF StartsFirst
<1>4. ASSUME Head(s).do # "start", NEW j \in DOMAIN u, IsRequest(u[j])
      PROVE  \E k \in 1 .. (j - 1) : u[k].do = "start"
  <2>1. PICK k \in 1 .. ((j + 1) - 1) : s[k].do = "start"
    BY <1>2, <1>4 DEF StartsFirst
  <2>2. k \in (0 + 2) .. j /\ k \in DOMAIN s
    BY SMTT(30), <1>2, <1>4, <2>1
  <2>3. k - 1 \in (0 + 1) .. (j - 1) /\ u[k - 1] = s[k]
    BY <1>1, <2>2, BetweenTail
  <2> QED BY <2>1, <2>3
<1> QED BY <1>1, <1>3, <1>4 DEF StartsFirst

\* After a verdict nothing is requested before a test starts.
LEMMA StartsAfter ==
  ASSUME NEW s \in Seq(Step), s # <<>>, StartsAgain(s), Head(s).do = "verdict"
  PROVE  StartsFirst(Tail(s))
<1>1. PICK u : u = Tail(s)
  OBVIOUS
<1>2. /\ 1 \in DOMAIN s /\ s[1] = Head(s)
      /\ \A j \in DOMAIN u : j \in Nat /\ j >= 1 /\ j + 1 \in DOMAIN s /\ u[j] = s[j + 1]
      /\ \A j \in DOMAIN s : j \in Nat /\ j >= 1
  BY <1>1, TailAt
<1>3. ASSUME NEW j \in DOMAIN u, IsRequest(u[j])
      PROVE  \E k \in 1 .. (j - 1) : u[k].do = "start"
  <2>1. PICK k \in (1 + 1) .. ((j + 1) - 1) : s[k].do = "start"
    BY <1>2, <1>3 DEF StartsAgain
  <2>2. k \in (0 + 2) .. j /\ k \in DOMAIN s
    BY SMTT(30), <1>2, <1>3, <2>1
  <2>3. k - 1 \in (0 + 1) .. (j - 1) /\ u[k - 1] = s[k]
    BY <1>1, <2>2, BetweenTail
  <2> QED BY <2>1, <2>3
<1> QED BY <1>1, <1>3 DEF StartsFirst

\* What is known of a test of a host stays so ...
LEMMA TestStays ==
  ASSUME NEW h \in Host, Blamed(h), Tallied(h), Ended(h), Blame => Blame',
         UNCHANGED <<checkData[h], wrongRead[h], testPass[h], verdict[h]>>,
         WrongLeft(h)' <=> WrongLeft(h),
         verdict[h] # "none" =>
           (\A r \in requests' : r.host # h) /\ StartsFirst(script'[h]) /\ at'[h] = "loop"
  PROVE  Blamed(h)' /\ Tallied(h)' /\ Ended(h)'
<1>1. Blamed(h)'
  BY DEF Blamed
<1>2. Tallied(h)'
  BY DEF Tallied
<1>3. Ended(h)'
  BY DEF Ended
<1> QED BY <1>1, <1>2, <1>3

\* ... when its answered reads, their pages and their buffers do.
LEMMA WrongStays ==
  ASSUME NEW h,
         \A r : r.host = h /\ r.op = "read" /\ r.stage = "done" =>
           (r \in requests' <=> r \in requests),
         \A r \in requests : r.host = h /\ r.op = "read" /\ r.stage = "done" =>
           /\ flashStatus'[h][r.page] = flashStatus[h][r.page]
           /\ readBuffers'[h][r.tag] = readBuffers[h][r.tag]
  PROVE  WrongLeft(h)' <=> WrongLeft(h)
<1>1. ASSUME NEW r \in requests, r.host = h, r.op = "read", r.stage = "done"
      PROVE  r \in requests' /\ (Wrong(r)' <=> Wrong(r))
  BY <1>1 DEF Wrong, MustFail
<1>2. ASSUME NEW r \in requests', r.host = h, r.op = "read", r.stage = "done"
      PROVE  r \in requests
  BY <1>2
<1> QED BY <1>1, <1>2 DEF WrongLeft, Wrong

\* A host that takes no part in a step.
LEMMA OthersTested ==
  ASSUME NEW h \in Host, Blamed(h), Tallied(h), Ended(h), Blame => Blame',
         UNCHANGED <<checkData[h], wrongRead[h], testPass[h], verdict[h], script[h], at[h],
                     flashStatus[h], readBuffers[h]>>,
         \A r : r.host = h => (r \in requests' <=> r \in requests)
  PROVE  Blamed(h)' /\ Tallied(h)' /\ Ended(h)'
<1>1. WrongLeft(h)' <=> WrongLeft(h)
  BY WrongStays
<1>2. verdict[h] # "none" =>
        (\A r \in requests' : r.host # h) /\ StartsFirst(script'[h]) /\ at'[h] = "loop"
  BY DEF Ended
<1> QED BY <1>1, <1>2, TestStays

\* The other hosts in a step of one.
LEMMA OtherTests ==
  ASSUME TestInv, NEW h \in Host, Blame => Blame',
         \A k \in Host : k # h =>
           UNCHANGED <<checkData[k], wrongRead[k], testPass[k], verdict[k], script[k], at[k],
                       flashStatus[k], readBuffers[k]>>,
         \A r : r.host # h => (r \in requests' <=> r \in requests),
         Blamed(h)' /\ Tallied(h)' /\ Ended(h)'
  PROVE  TestInv'
<1>1. ASSUME NEW k \in Host, k # h PROVE Blamed(k)' /\ Tallied(k)' /\ Ended(k)'
  <2>1. /\ UNCHANGED <<checkData[k], wrongRead[k], testPass[k], verdict[k], script[k], at[k],
                       flashStatus[k], readBuffers[k]>>
        /\ \A r : r.host = k => (r \in requests' <=> r \in requests)
    BY <1>1
  <2>2. Blamed(k) /\ Tallied(k) /\ Ended(k)
    BY DEF TestInv
  <2> QED BY <2>1, <2>2, OthersTested
<1> QED BY <1>1 DEF TestInv

\* No verdict stands while a host is in a request or at one.
LEMMA NoVerdictYet ==
  ASSUME TypeOK, NEW h \in Host, Ended(h),
         \/ at[h] # "loop"
         \/ script[h] # <<>> /\ IsRequest(Head(script[h]))
         \/ \E r \in requests : r.host = h
  PROVE  verdict[h] = "none"
<1>1. PICK s : s = script[h]
  OBVIOUS
<1>2. s \in Seq(Step)
  BY <1>1 DEF TypeOK
<1>3. ASSUME s # <<>>, IsRequest(Head(s)) PROVE ~StartsFirst(s)
  BY <1>2, <1>3, StartsTail
<1> QED BY <1>1, <1>3 DEF Ended

\* A request is prepared and sent: no test ends, and no answered read uses the page.
LEMMA RequestTests ==
  ASSUME TableInv, OrderInv, TestInv, NEW h \in Host,
         \/ \E o \in Op : WaitIdleTag(h, o)
         \/ \E p \in Page : EraseBlock(h, p) \/ WritePage(h, p) \/ ReadPage(h, p)
         \/ SendRequest(h) \/ RandomPage(h)
  PROVE  TestInv'
<1>0. TypeOK /\ InRequest /\ Blamed(h) /\ Tallied(h) /\ Ended(h)
  BY DEF TableInv, TestInv
<1>t. /\ script \in [Host -> Seq(Step)] /\ at \in [Host -> {"loop", "register", "send"}]
      /\ flashStatus \in [Host -> [Page -> {"UNINIT", "ERASED", "WRITTEN", "BAD"}]]
  BY <1>0 DEF TypeOK
<1>1. UNCHANGED <<deployment, bad, faults, checkData, wrongRead, testPass, verdict, readBuffers>>
  BY DEF WaitIdleTag, EraseBlock, WritePage, ReadPage, Register, SendRequest, RandomPage,
         testVars, deviceVars
<1>2. verdict[h] = "none"
  <2>1. at[h] # "loop" \/ (script[h] # <<>> /\ IsRequest(Head(script[h])))
    BY DEF WaitIdleTag, EraseBlock, WritePage, ReadPage, Register, SendRequest, RandomPage,
           Doing, IsRequest
  <2> QED BY <1>0, <2>1, NoVerdictYet
<1>3. \A k \in Host : k # h => UNCHANGED <<script[k], at[k], flashStatus[k]>>
  BY <1>t DEF WaitIdleTag, EraseBlock, WritePage, ReadPage, Register, SendRequest, RandomPage,
              SetStatus, Goto, Continue, tableVars
<1>4. requests' = requests \/ \E q : q.host = h /\ q.stage = "sent" /\ requests' = requests \cup {q}
  <2>1. CASE SendRequest(h)
    <3>1. PICK q : q = [host |-> h, op |-> Head(script[h]).do, tag |-> tag[h],
                        page |-> Head(script[h]).page, stage |-> "sent"]
      OBVIOUS
    <3>2. q.host = h /\ q.stage = "sent"
      BY <3>1
    <3>3. requests' = requests \cup {q}
      BY <2>1, <3>1 DEF SendRequest
    <3> QED BY <3>2, <3>3
  <2>2. CASE ~SendRequest(h)
    BY <2>2 DEF WaitIdleTag, EraseBlock, WritePage, ReadPage, Register, RandomPage, deviceVars
  <2> QED BY <2>1, <2>2
<1>5. ASSUME NEW r \in requests, r.host = h
      PROVE  flashStatus'[h][r.page] = flashStatus[h][r.page]
  <2>1. ASSUME NEW p \in Page, EraseBlock(h, p) \/ WritePage(h, p)
        PROVE  flashStatus'[h][r.page] = flashStatus[h][r.page]
    <3>1. r.page # p /\ r.page \in Page
      BY <1>0, <2>1, Registering DEF EraseBlock, WritePage, TypeOK
    <3> QED BY <1>t, <2>1, <3>1 DEF EraseBlock, WritePage, SetStatus
  <2>2. CASE ~\E p \in Page : EraseBlock(h, p) \/ WritePage(h, p)
    BY <2>2 DEF WaitIdleTag, ReadPage, SendRequest, RandomPage, tableVars
  <2> QED BY <2>1, <2>2
<1>6. WrongLeft(h)' <=> WrongLeft(h)
  BY <1>1, <1>4, <1>5, WrongStays
<1>7. Blame => Blame'
  BY <1>1 DEF Blame
<1>8. Blamed(h)' /\ Tallied(h)' /\ Ended(h)'
  BY <1>0, <1>1, <1>2, <1>6, <1>7, TestStays
<1> QED BY <1>1, <1>3, <1>4, <1>7, <1>8, OtherTests

\* A barrier ends no test.
LEMMA BarrierTests ==
  ASSUME TableInv, OrderInv, TestInv, NEW h \in Host, Barrier(h)
  PROVE  TestInv'
<1>0. TypeOK /\ Blamed(h) /\ Tallied(h) /\ Ended(h)
  BY DEF TableInv, TestInv
<1>1. /\ UNCHANGED <<deployment, bad, faults, checkData, wrongRead, testPass, verdict, readBuffers,
                     requests, flashStatus, at>>
      /\ script[h] # <<>> /\ Head(script[h]).do = "wait"
      /\ script' = [script EXCEPT ![h] = Tail(@)] /\ script \in [Host -> Seq(Step)]
  BY <1>0 DEF Barrier, Doing, Continue, testVars, deviceVars, tableVars, TypeOK
<1>2. StartsFirst(script[h]) => StartsFirst(script'[h])
  <2>1. PICK s : s = script[h]
    OBVIOUS
  <2>2. s \in Seq(Step) /\ s # <<>> /\ Head(s).do # "start" /\ script'[h] = Tail(s)
    BY <1>1, <2>1
  <2> QED BY <2>1, <2>2, StartsTail
<1>3. (WrongLeft(h)' <=> WrongLeft(h)) /\ (Blame => Blame')
  BY <1>1, WrongStays DEF Blame
<1>4. Blamed(h)' /\ Tallied(h)' /\ Ended(h)'
  BY <1>0, <1>1, <1>2, <1>3, TestStays DEF Ended
<1>5. \A k \in Host : k # h => script'[k] = script[k]
  BY <1>1
<1> QED BY <1>1, <1>3, <1>4, <1>5, OtherTests

\* Nor does a key pressed.
LEMMA KeyTests ==
  ASSUME TableInv, OrderInv, TestInv, PressKeys
  PROVE  TestInv'
<1>1. /\ UNCHANGED <<deployment, bad, faults, checkData, wrongRead, testPass, verdict, readBuffers,
                     requests, flashStatus, at>>
      /\ \A h \in Host : /\ script[h] # <<>> /\ Head(script[h]).do = "key"
                         /\ script'[h] = Tail(script[h])
  BY DEF PressKeys, Doing, testVars, deviceVars, tableVars
<1> SUFFICES ASSUME NEW h \in Host PROVE Blamed(h)' /\ Tallied(h)' /\ Ended(h)'
  BY DEF TestInv
<1>2. Blamed(h) /\ Tallied(h) /\ Ended(h)
  BY DEF TestInv
<1>3. StartsFirst(script[h]) => StartsFirst(script'[h])
  <2>1. PICK s : s = script[h]
    OBVIOUS
  <2>2. s \in Seq(Step) /\ s # <<>> /\ Head(s).do # "start" /\ script'[h] = Tail(s)
    BY <1>1, <2>1 DEF TableInv, TypeOK
  <2> QED BY <2>1, <2>2, StartsTail
<1>4. (WrongLeft(h)' <=> WrongLeft(h)) /\ (Blame => Blame')
  BY <1>1, WrongStays DEF Blame
<1> QED BY <1>1, <1>2, <1>3, <1>4, TestStays DEF Ended

\* A test starts afresh, with no read of the last one left.
LEMMA StartTests ==
  ASSUME TableInv, OrderInv, DataTypes, TestInv, NEW h \in Host, StartTest(h)
  PROVE  TestInv'
<1>0. TypeOK /\ InRequest
  BY DEF TableInv
<1>1. /\ UNCHANGED <<deployment, bad, faults, readBuffers, requests, flashStatus, at>>
      /\ script[h] # <<>> /\ Head(script[h]).do = "start"
      /\ script' = [script EXCEPT ![h] = Tail(@)] /\ script \in [Host -> Seq(Step)]
      /\ verdict' = [verdict EXCEPT ![h] = "none"]
      /\ checkData' = [checkData EXCEPT ![h] = Head(script[h]).check]
      /\ testPass' = [testPass EXCEPT ![h] = TRUE]
      /\ wrongRead' = [wrongRead EXCEPT ![h] = FALSE]
  BY <1>0 DEF StartTest, Doing, Continue, deviceVars, tableVars, TypeOK
<1>2. \A r \in requests' : r.host # h
  BY <1>0, <1>1, NoneAtHead DEF EndsPart
<1>3. verdict'[h] = "none" /\ testPass'[h] = TRUE /\ wrongRead'[h] = FALSE
  BY <1>1 DEF DataTypes
<1>4. ~WrongLeft(h)'
  BY <1>2 DEF WrongLeft
<1>5. Blamed(h)' /\ Tallied(h)' /\ Ended(h)'
  BY <1>3, <1>4 DEF Blamed, Tallied, Ended
<1>6. \A k \in Host : k # h =>
        UNCHANGED <<checkData[k], wrongRead[k], testPass[k], verdict[k], script[k]>>
  BY <1>1
<1>7. Blame => Blame'
  BY <1>1 DEF Blame
<1> QED BY <1>1, <1>5, <1>6, <1>7, OtherTests

\* A verdict is printed when all reads of the test have been checked.
LEMMA VerdictTests ==
  ASSUME TableInv, OrderInv, DataTypes, TestInv, NEW h \in Host, PrintVerdict(h)
  PROVE  TestInv'
<1>0. TypeOK /\ InRequest /\ Blamed(h) /\ Tallied(h) /\ Ended(h)
  BY DEF TableInv, TestInv
<1>1. /\ UNCHANGED <<deployment, bad, faults, checkData, wrongRead, testPass, readBuffers,
                     requests, flashStatus, at>>
      /\ script[h] # <<>> /\ Head(script[h]).do = "verdict"
      /\ script' = [script EXCEPT ![h] = Tail(@)] /\ script \in [Host -> Seq(Step)]
      /\ verdict' = [verdict EXCEPT ![h] =
           IF ~checkData[h] THEN "unchecked" ELSE IF testPass[h] THEN "passed" ELSE "failed"]
  BY <1>0 DEF PrintVerdict, Doing, Continue, deviceVars, tableVars, TypeOK
<1>2. \A r \in requests' : r.host # h
  BY <1>0, <1>1, NoneAtHead DEF EndsPart
<1>3. ~WrongLeft(h) /\ ~WrongLeft(h)'
  BY <1>1, <1>2 DEF WrongLeft
<1>4. verdict'[h] = IF ~checkData[h] THEN "unchecked" ELSE IF testPass[h] THEN "passed" ELSE "failed"
  BY <1>1 DEF DataTypes
<1>5. StartsFirst(script'[h])
  <2>1. PICK s : s = script[h]
    OBVIOUS
  <2>2. s \in Seq(Step) /\ s # <<>> /\ StartsAgain(s) /\ Head(s).do = "verdict"
        /\ script'[h] = Tail(s)
    BY <1>1, <2>1 DEF OrderInv, KeptScripts
  <2> QED BY <2>2, StartsAfter
<1>6. at'[h] = "loop"
  BY <1>0, <1>1 DEF InRequest, Op
<1>7. verdict'[h] = "passed" => checkData[h] /\ testPass[h]
  BY <1>4
<1>8. verdict'[h] = "failed" => checkData[h] /\ ~testPass[h]
  BY <1>4
<1>9. Ended(h)'
  <2>1. verdict'[h] = "passed" => ~wrongRead[h]
    BY <1>0, <1>3, <1>7 DEF Tallied
  <2>2. verdict'[h] = "failed" => wrongRead[h]
    BY <1>0, <1>3, <1>8 DEF Tallied
  <2> QED BY <1>1, <1>2, <1>5, <1>6, <2>1, <2>2 DEF Ended
<1>10. Blame => Blame'
  BY <1>1 DEF Blame
<1>11. Blamed(h)' /\ Tallied(h)'
  BY <1>0, <1>1, <1>3, <1>10 DEF Blamed, Tallied
<1>12. \A k \in Host : k # h => UNCHANGED <<verdict[k], script[k]>>
  BY <1>1
<1> QED BY <1>1, <1>9, <1>10, <1>11, <1>12, OtherTests

\* Steps of the device and of the indications that concern no answered read.
LEMMA DeviceTests ==
  ASSUME TypeOK, TestInv, NEW r \in requests, r.op # "read" \/ r.stage # "done",
         (\E s \in {"done", "bad", "checked"} : Answered(r, s)) \/ requests' = requests \ {r},
         r.op = "read" => requests' = requests \ {r},
         UNCHANGED <<deployment, bad, faults, script, at, checkData, wrongRead, testPass, verdict,
                     readBuffers>>,
         \A t \in requests : t.op = "read" =>
           flashStatus'[t.host][t.page] = flashStatus[t.host][t.page]
  PROVE  TestInv'
<1> SUFFICES ASSUME NEW h \in Host PROVE Blamed(h)' /\ Tallied(h)' /\ Ended(h)'
  BY DEF TestInv
<1>1. Blamed(h) /\ Tallied(h) /\ Ended(h)
  BY DEF TestInv
<1>2. PICK q : /\ q.host = r.host /\ q.op = r.op
               /\ requests' = requests \ {r}
                    \/ (requests' = (requests \ {r}) \cup {q} /\ q.op # "read")
  <2>1. \A s : LET q == [r EXCEPT !.stage = s] IN q.host = r.host /\ q.op = r.op
    BY DEF TypeOK
  <2> QED BY <2>1 DEF Answered
<1>3. \A t : t.host = h /\ t.op = "read" /\ t.stage = "done" => (t \in requests' <=> t \in requests)
  BY <1>2
<1>4. WrongLeft(h)' <=> WrongLeft(h)
  BY <1>3, WrongStays
<1>5. Blame => Blame'
  BY DEF Blame
<1>6. verdict[h] # "none" =>
        (\A t \in requests' : t.host # h) /\ StartsFirst(script'[h]) /\ at'[h] = "loop"
  BY <1>1, <1>2 DEF Ended
<1> QED BY <1>1, <1>4, <1>5, <1>6, TestStays

\* Erases, writes and handled requests concern no answered read.
LEMMA OtherRequestTests ==
  ASSUME TableInv, OrderInv, DataTypes, TestInv, NEW r \in requests,
         CompleteErase(r) \/ CompleteWrite(r) \/ ReadDone(r) \/ WriteDone(r) \/ EraseDone(r)
  PROVE  TestInv'
<1>0. TypeOK /\ TagsOwned /\ r.host \in Host /\ r.page \in Page
  BY DEF TableInv, TypeOK
<1>1. UNCHANGED <<deployment, bad, faults, script, at, checkData, wrongRead, verdict, readBuffers>>
  <2>1. CASE CompleteErase(r) \/ CompleteWrite(r)
    BY <2>1 DEF CompleteErase, CompleteWrite, mainVars, testVars
  <2>2. CASE ReadDone(r) \/ WriteDone(r) \/ EraseDone(r)
    BY <2>2 DEF ReadDone, WriteDone, EraseDone, Release, mainVars
  <2> QED BY <2>1, <2>2
<1>2. testPass' = testPass
  <2>1. CASE CompleteErase(r) \/ CompleteWrite(r)
    BY <2>1 DEF CompleteErase, CompleteWrite, testVars
  <2>2. CASE ReadDone(r) \/ WriteDone(r) \/ EraseDone(r)
    <3>1. testPass' = [testPass EXCEPT ![r.host] = @ /\ r.tag \in busy[r.host][r.op]]
      BY <2>2 DEF ReadDone, WriteDone, EraseDone, Release
    <3>2. r.tag \in busy[r.host][r.op] /\ testPass \in [Host -> BOOLEAN]
      BY <1>0 DEF TagsOwned, DataTypes
    <3>3. ASSUME NEW h \in Host PROVE testPass'[h] = testPass[h]
      BY <3>1, <3>2
    <3>4. testPass' \in [Host -> BOOLEAN]
      BY <3>1, <3>2
    <3> QED BY <3>2, <3>3, <3>4
  <2> QED BY <2>1, <2>2
<1>3. /\ r.op # "read" \/ r.stage # "done"
      /\ (\E s \in {"done", "bad", "checked"} : Answered(r, s)) \/ requests' = requests \ {r}
      /\ r.op = "read" => requests' = requests \ {r}
  BY DEF CompleteErase, CompleteWrite, ReadDone, WriteDone, EraseDone, Release
<1>4. ASSUME NEW t \in requests, t.op = "read"
      PROVE  flashStatus'[t.host][t.page] = flashStatus[t.host][t.page]
  <2>1. CASE flashStatus' = flashStatus
    BY <2>1
  <2>2. CASE EraseDone(r)
    <3>1. r.op = "erase" /\ entry[r.host]["erase"][r.tag] = r.page /\ t.page # r.page
          /\ t.host \in Host /\ t.page \in Page
      BY <1>0, <1>4, <2>2 DEF EraseDone, TagsOwned, OrderInv, NoClash, Clash, TypeOK
    <3>2. \/ flashStatus' = flashStatus
          \/ flashStatus' = [flashStatus EXCEPT ![r.host][r.page] = "BAD"]
      BY <2>2, <3>1 DEF EraseDone, SetStatus
    <3>3. flashStatus \in [Host -> [Page -> {"UNINIT", "ERASED", "WRITTEN", "BAD"}]]
      BY <1>0 DEF TypeOK
    <3> QED BY <1>0, <3>1, <3>2, <3>3
  <2> QED BY <2>1, <2>2 DEF CompleteErase, CompleteWrite, ReadDone, WriteDone, tableVars
<1> QED BY <1>0, <1>1, <1>2, <1>3, <1>4, DeviceTests

\* The other requests when one is answered: their buffers are others.
LEMMA OtherRequests ==
  ASSUME TypeOK, TagsOwned, NEW r \in requests, NEW s, Answered(r, s)
  PROVE  \E q : /\ q.host = r.host /\ q.op = r.op /\ q.page = r.page /\ q.tag = r.tag /\ q.stage = s
                /\ requests' = (requests \ {r}) \cup {q}
                /\ \A t \in requests : t # r /\ t.host = r.host /\ t.op = r.op => t.tag # r.tag
<1>1. LET q == [r EXCEPT !.stage = s]
      IN  /\ q.host = r.host /\ q.op = r.op /\ q.page = r.page /\ q.tag = r.tag /\ q.stage = s
          /\ requests' = (requests \ {r}) \cup {q}
  BY DEF TypeOK, Answered
<1> QED BY <1>1 DEF TagsOwned

\* A read is answered: it is wrong only if the flash erred, or lost the block.
LEMMA CompleteReadTests ==
  ASSUME TableInv, OrderInv, DataTypes, FlashInv, TestInv, NEW r \in requests, CompleteRead(r)
  PROVE  TestInv'
<1> DEFINE h == r.host
<1>0. TypeOK /\ TagsOwned /\ h \in Host /\ r.tag \in Tag /\ r.page \in Page
      /\ r.op = "read" /\ r.stage = "sent"
  BY DEF TableInv, TypeOK, CompleteRead
<1>1. PICK d :
        /\ d = flash[r.page] \/ (d \in Data /\ faults < MaxFaults)
        /\ readBuffers' = [readBuffers EXCEPT ![h][r.tag] = d]
        /\ faults' = IF d = flash[r.page] THEN faults ELSE faults + 1
        /\ wrongRead' = [wrongRead EXCEPT ![h] = @ \/ (checkData[h] /\ MustFail(h, r.page, d))]
  BY DEF CompleteRead
<1>2. /\ UNCHANGED <<deployment, bad, script, at, flashStatus, checkData, testPass, verdict, flash>>
      /\ Answered(r, "done")
  BY DEF CompleteRead, mainVars, tableVars
<1>3. PICK q :
        /\ q.host = h /\ q.op = "read" /\ q.page = r.page /\ q.tag = r.tag /\ q.stage = "done"
        /\ requests' = (requests \ {r}) \cup {q}
        /\ \A t \in requests : t # r /\ t.host = h /\ t.op = "read" => t.tag # r.tag
  BY <1>0, <1>2, OtherRequests
<1> HIDE DEF h
<1>4. Blamed(h) /\ Tallied(h) /\ Ended(h) /\ verdict[h] = "none"
  <2>1. Blamed(h) /\ Tallied(h) /\ Ended(h)
    BY <1>0 DEF TestInv
  <2>2. r.host = h
    BY DEF h
  <2> QED BY <1>0, <2>1, <2>2, NoVerdictYet
<1>5. readBuffers'[h][r.tag] = d
      /\ \A t \in Tag : t # r.tag => readBuffers'[h][t] = readBuffers[h][t]
  BY <1>0, <1>1 DEF DataTypes
<1>6. wrongRead'[h] <=> wrongRead[h] \/ (checkData[h] /\ MustFail(h, r.page, d))
  BY <1>0, <1>1 DEF DataTypes
<1>7. Wrong(q)' <=> MustFail(h, r.page, d)
  BY <1>2, <1>3, <1>5 DEF Wrong, MustFail
<1>8. WrongLeft(h)' <=> WrongLeft(h) \/ MustFail(h, r.page, d)
  <2>1. ASSUME NEW t \in requests, t # r, t.host = h PROVE Wrong(t)' <=> Wrong(t)
    <3>1. t.op = "read" => readBuffers'[h][t.tag] = readBuffers[h][t.tag]
      BY <1>0, <1>3, <1>5, <2>1 DEF TypeOK
    <3> QED BY <1>2, <2>1, <3>1 DEF Wrong, MustFail
  <2>2. ~Wrong(r)
    BY <1>0 DEF Wrong
  <2> QED BY <1>3, <1>7, <2>1, <2>2 DEF WrongLeft
<1>9. Blame => Blame'
  BY <1>1, <1>2 DEF Blame, DataTypes
<1>10. checkData[h] /\ MustFail(h, r.page, d) => Blame'
  <2>1. CASE d = flash[r.page]
    BY <1>0, <1>2, <2>1, ReadBlamed DEF Blame, h
  <2>2. CASE d # flash[r.page]
    BY <1>1, <2>2 DEF Blame, DataTypes
  <2> QED BY <2>1, <2>2
<1>11. Blamed(h)'
  BY <1>4, <1>6, <1>9, <1>10 DEF Blamed
<1>12. Tallied(h)'
  BY <1>2, <1>4, <1>6, <1>8 DEF Tallied
<1>13. Ended(h)'
  BY <1>2, <1>4 DEF Ended
<1>14. \A k \in Host : k # h => UNCHANGED <<wrongRead[k], readBuffers[k]>>
  BY <1>1
<1>15. \A t : t.host # h => (t \in requests' <=> t \in requests)
  BY <1>3 DEF h
<1> QED BY <1>0, <1>2, <1>9, <1>11, <1>12, <1>13, <1>14, <1>15, OtherTests

\* A read is checked: what must fail the test does.
LEMMA CheckTests ==
  ASSUME TableInv, OrderInv, DataTypes, FlashInv, TestInv, NEW r \in requests, ReadDoneCheck(r)
  PROVE  TestInv'
<1> DEFINE h == r.host
<1>0. TypeOK /\ TagsOwned /\ h \in Host /\ r.op = "read" /\ r.stage = "done"
  BY DEF TableInv, TypeOK, ReadDoneCheck
<1>1. /\ UNCHANGED <<deployment, bad, faults, script, at, flashStatus, checkData, wrongRead,
                     verdict, flash, readBuffers>>
      /\ Answered(r, "checked")
      /\ testPass' = [testPass EXCEPT ![h] = @ /\ (checkData[h] => CheckReadData(h, r.tag))]
  BY DEF ReadDoneCheck, mainVars, tableVars
<1>2. PICK q :
        /\ q.host = h /\ q.stage = "checked" /\ requests' = (requests \ {r}) \cup {q}
  BY <1>0, <1>1, OtherRequests
<1>3. CheckReadData(h, r.tag) <=> ~Wrong(r)
  BY <1>0, CheckFinds DEF Wrong
<1>4. \A t : t.host # h => (t \in requests' <=> t \in requests)
  BY <1>2
<1>5. WrongLeft(h) <=> WrongLeft(h)' \/ Wrong(r)
  <2>1. ASSUME NEW t PROVE Wrong(t)' <=> Wrong(t)
    BY <1>1 DEF Wrong, MustFail
  <2>2. ~Wrong(q)
    BY <1>2 DEF Wrong
  <2> QED BY <1>2, <2>1, <2>2 DEF WrongLeft
<1>6. Blamed(h) /\ Tallied(h) /\ Ended(h) /\ verdict[h] = "none"
  <2>1. Blamed(h) /\ Tallied(h) /\ Ended(h)
    BY <1>0 DEF TestInv
  <2> QED BY <1>0, <2>1, NoVerdictYet
<1> HIDE DEF h
<1>7. testPass'[h] <=> testPass[h] /\ (checkData[h] => ~Wrong(r))
  BY <1>0, <1>1, <1>3 DEF DataTypes
<1>8. Blame => Blame'
  BY <1>1 DEF Blame
<1>9. Blamed(h)' /\ Tallied(h)' /\ Ended(h)'
  BY <1>1, <1>5, <1>6, <1>7, <1>8 DEF Blamed, Tallied, Ended
<1>10. \A k \in Host : k # h => testPass'[k] = testPass[k]
  BY <1>1
<1> QED BY <1>0, <1>1, <1>4, <1>8, <1>9, <1>10, OtherTests

\* Every step keeps what is known of the tests.
LEMMA NextTests ==
  ASSUME TableInv, OrderInv, DataTypes, FlashInv, TestInv, [Next]_vars
  PROVE  TestInv'
<1>1. ASSUME NEW h \in Host, MainStep(h) PROVE TestInv'
  BY <1>1, RequestTests, BarrierTests, StartTests, VerdictTests DEF MainStep
<1>2. ASSUME NEW r \in requests, Complete(r) \/ Indicate(r) PROVE TestInv'
  BY <1>2, OtherRequestTests, CompleteReadTests, CheckTests DEF Complete, Indicate
<1>3. CASE UNCHANGED vars
  <2> SUFFICES ASSUME NEW h \in Host PROVE Blamed(h)' /\ Tallied(h)' /\ Ended(h)'
    BY DEF TestInv
  <2>1. UNCHANGED <<checkData[h], wrongRead[h], testPass[h], verdict[h], script[h], at[h],
                    flashStatus[h], readBuffers[h], requests, faults, bad, deployment>>
    BY <1>3 DEF vars, mainVars, tableVars, testVars, deviceVars
  <2>2. Blame => Blame'
    BY <2>1 DEF Blame
  <2> QED BY <2>1, <2>2, OthersTested DEF TestInv
<1> QED BY <1>1, <1>2, <1>3, KeyTests DEF Next, Finished

\* At first no page was read and no verdict printed.
LEMMA InitTests == Init => TestInv
BY DEF Init, TestInv, Blamed, Tallied, Ended, WrongLeft

\* Every step of a disciplined program keeps all that is known of it.
LEMMA DisciplineAlways == Spec => [](Disciplined(deployment) => DisciplineInv)
<1> DEFINE I == TableInv /\ CountInv /\ DataTypes
                  /\ (Disciplined(deployment) => OrderInv /\ FlashInv /\ TestInv)
<1>1. Init => I
  BY InitTable, InitCounts, InitData, InitOrder, InitTold, InitTests
<1>2. I /\ [Next]_vars => I'
  <2> SUFFICES ASSUME I, [Next]_vars PROVE I'
    OBVIOUS
  <2>1. TableInv' /\ CountInv' /\ DataTypes'
    BY NextTable, NextCounts, NextData
  <2>2. Disciplined(deployment)' => Disciplined(deployment)
    BY DeploymentStays
  <2>3. ASSUME OrderInv, FlashInv, TestInv PROVE OrderInv' /\ FlashInv' /\ TestInv'
    BY <2>3, NextOrder, NextTold, NextTests
  <2> QED BY <2>1, <2>2, <2>3
<1>3. I => (Disciplined(deployment) => DisciplineInv)
  BY DEF DisciplineInv
<1> QED BY <1>1, <1>2, <1>3, PTL DEF Spec

\* A page being erased or written is used by no other request, of any host, in
\* every program that waits and has keys pressed where Disciplined asks for it.
THEOREM DisciplineKeepsPagesApart == Spec => [](Disciplined(deployment) => PagesNotContended)
<1>1. DisciplineInv => PagesNotContended
  BY DEF DisciplineInv, TableInv, TypeOK, OrderInv, NoClash, Clash, PagesNotContended, Op
<1> QED BY <1>1, DisciplineAlways, PTL

\* The programs that issue each bus separately never have two buses write at once,
\* when they wait between the buses.
THEOREM DisciplineWritesOneBus == Spec => [](Disciplined(deployment) => OneBusWrites)
<1>1. DisciplineInv => OneBusWrites
  BY DEF DisciplineInv, OrderInv, NoClash, Clash, OneBus, OneBusWrites
<1> QED BY <1>1, DisciplineAlways, PTL

\* A read that is checked meets on the flash what its host believes is there, bad
\* blocks apart, in every disciplined program on any hosts, pages and tags.
THEOREM DisciplineTellsTheFlash == Spec => [](Disciplined(deployment) => FlashMatchesStatus)
<1>1. DisciplineInv => FlashMatchesStatus
  BY ReadAgrees DEF DisciplineInv, FlashMatchesStatus, Lost
<1> QED BY <1>1, DisciplineAlways, PTL

\* A test of a disciplined program passes only if no page read must fail it, and
\* fails only by the flash's fault or for a bad block it does not record.
THEOREM DisciplineMakesVerdictsExact == Spec => [](Disciplined(deployment) => VerdictExact)
<1>1. DisciplineInv => VerdictExact
  BY DEF DisciplineInv, TestInv, Blamed, Blame, Ended, VerdictExact
<1> QED BY <1>1, DisciplineAlways, PTL
=============================================================================
