-------------------------- MODULE PortalHosts_proofs --------------------------
(***************************************************************************)
(* Proofs about PortalHosts: the tags of the page library, and the grants  *)
(* of the boards that ask for keys and commands, whatever the programs.    *)
(***************************************************************************)
EXTENDS PortalHosts, QueueLemmas

-----------------------------------------------------------------------------
(* Queues of messages, of which only those of some kinds are counted. *)

Queue(q) == q \in Seq({q[i] : i \in DOMAIN q})

\* A queue of anything is a queue of what is in it.
LEMMA QueueOf == ASSUME NEW S, NEW q \in Seq(S) PROVE Queue(q)
<1>1. q \in [1 .. Len(q) -> S] /\ Len(q) \in Nat
  OBVIOUS
<1>2. q \in [1 .. Len(q) -> {q[i] : i \in DOMAIN q}]
  BY <1>1
<1> QED BY <1>1, <1>2 DEF Queue

\* A sequence is one of a larger set, too.
LEMMA SeqWidens == ASSUME NEW A, NEW q \in Seq(A), NEW T, A \subseteq T PROVE q \in Seq(T)
<1>1. Len(q) \in Nat /\ q = [i \in 1 .. Len(q) |-> q[i]] /\ \A i \in 1 .. Len(q) : q[i] \in T
  OBVIOUS
<1> QED BY <1>1

\* The entries with a tag, as those in a set.
LEMMA TaggedAsSet ==
  ASSUME NEW S, NEW q \in Seq(S), NEW ks, NEW t
  PROVE  CountTagged(q, ks, t) = CountIn(q, {w \in S : w.kind \in ks /\ w.tag = t})
<1>1. \A i \in DOMAIN q : q[i] \in S
  OBVIOUS
<1>2. Tagged(q, ks, t) = {i \in DOMAIN q : q[i] \in {w \in S : w.kind \in ks /\ w.tag = t}}
  BY <1>1 DEF Tagged
<1> QED BY <1>2 DEF CountTagged, CountIn, Places

\* The length of a queue.
LEMMA LenOfQueue ==
  ASSUME NEW q, Queue(q)
  PROVE  /\ Len(q) \in Nat
         /\ \A w : Len(Append(q, w)) = Len(q) + 1
         /\ q # << >> => Len(Tail(q)) = Len(q) - 1
<1> DEFINE S == {q[i] : i \in DOMAIN q}
<1>1. q \in Seq(S)
  BY DEF Queue
<1> HIDE DEF S
<1>2. Len(q) \in Nat /\ (q # << >> => Len(Tail(q)) = Len(q) - 1)
  BY <1>1
<1>3. ASSUME NEW w PROVE Len(Append(q, w)) = Len(q) + 1
  <2> DEFINE T == S \cup {w}
  <2>1. S \subseteq T
    OBVIOUS
  <2> HIDE DEF T
  <2>2. q \in Seq(T)
    BY <1>1, <2>1, SeqWidens
  <2> QED BY <2>2
<1> QED BY <1>2, <1>3

\* How many entries of a kind, or with a tag, there are.
LEMMA CountsType ==
  ASSUME NEW q, Queue(q)
  PROVE  /\ \A k : Count(q, k) \in Nat
         /\ \A ks, t : CountTagged(q, ks, t) \in Nat
<1> DEFINE S == {q[i] : i \in DOMAIN q}
<1>1. q \in Seq(S)
  BY DEF Queue
<1> HIDE DEF S
<1>2. ASSUME NEW k PROVE Count(q, k) \in Nat
  BY <1>1, CountType
<1>3. ASSUME NEW ks, NEW t PROVE CountTagged(q, ks, t) \in Nat
  <2> DEFINE K == {w \in S : w.kind \in ks /\ w.tag = t}
  <2> HIDE DEF K
  <2>1. CountIn(q, K) \in Nat
    BY <1>1, CountInType
  <2> QED BY <1>1, <2>1, TaggedAsSet DEF K
<1> QED BY <1>2, <1>3

\* What becomes of the counts when a message is put at the end.
IsPut(q, w, r) ==
  /\ Queue(r)
  /\ \A k : Count(r, k) = Count(q, k) + IF w.kind = k THEN 1 ELSE 0
  /\ \A ks, t : CountTagged(r, ks, t) =
       CountTagged(q, ks, t) + IF w.kind \in ks /\ w.tag = t THEN 1 ELSE 0
  /\ \A i \in DOMAIN r : r[i] = w \/ \E j \in DOMAIN q : r[i] = q[j]

\* A message is put at the end.
LEMMA Puts == ASSUME NEW q, Queue(q), NEW w PROVE IsPut(q, w, Append(q, w))
<1> DEFINE r == Append(q, w)
<1> DEFINE S == {q[i] : i \in DOMAIN q} \cup {w}
<1>1. q \in Seq({q[i] : i \in DOMAIN q})
  BY DEF Queue
<1>2. q \in Seq(S) /\ w \in S
  BY <1>1
<1> HIDE DEF S
<1>3. r \in Seq(S)
  BY <1>2
<1>4. Queue(r)
  BY <1>3, QueueOf
<1>5. ASSUME NEW k PROVE Count(r, k) = Count(q, k) + IF w.kind = k THEN 1 ELSE 0
  BY <1>2, CountAppend
<1>6. ASSUME NEW ks, NEW t
      PROVE  CountTagged(r, ks, t) =
               CountTagged(q, ks, t) + IF w.kind \in ks /\ w.tag = t THEN 1 ELSE 0
  <2> DEFINE K == {v \in S : v.kind \in ks /\ v.tag = t}
  <2>1. w \in K <=> w.kind \in ks /\ w.tag = t
    BY <1>2
  <2>a. CountTagged(q, ks, t) = CountIn(q, K)
    BY <1>2, TaggedAsSet
  <2>b. CountTagged(r, ks, t) = CountIn(r, K)
    <3> HIDE DEF r
    <3> QED BY <1>3, TaggedAsSet
  <2>2. CountTagged(q, ks, t) = CountIn(q, K) /\ CountTagged(r, ks, t) = CountIn(r, K)
    BY <2>a, <2>b
  <2> HIDE DEF K
  <2>3. CountIn(r, K) = CountIn(q, K) + IF w \in K THEN 1 ELSE 0
    BY <1>2, CountInAppend
  <2> QED BY <2>1, <2>2, <2>3
<1>7. ASSUME NEW i \in DOMAIN r PROVE r[i] = w \/ \E j \in DOMAIN q : r[i] = q[j]
  BY <1>2
<1> QED BY <1>4, <1>5, <1>6, <1>7 DEF IsPut

\* What becomes of the counts when the first message is taken.
IsTaken(q, w, r) ==
  /\ Queue(r)
  /\ \A k : Count(q, k) = Count(r, k) + IF w.kind = k THEN 1 ELSE 0
  /\ \A ks, t : CountTagged(q, ks, t) =
       CountTagged(r, ks, t) + IF w.kind \in ks /\ w.tag = t THEN 1 ELSE 0
  /\ \A i \in DOMAIN r : \E j \in DOMAIN q : r[i] = q[j]
  /\ 1 \in DOMAIN q /\ w = q[1]

\* The first message is taken.
LEMMA Takes == ASSUME NEW q, Queue(q), q # << >> PROVE IsTaken(q, Head(q), Tail(q))
<1> DEFINE S == {q[i] : i \in DOMAIN q}
           w == Head(q)
           r == Tail(q)
<1>2. q \in Seq(S)
  BY DEF Queue
<1> HIDE DEF S
<1>3. r \in Seq(S) /\ w \in S /\ 1 \in DOMAIN q /\ w = q[1]
  BY <1>2
<1>4. Queue(r)
  BY <1>3, QueueOf
<1>5. ASSUME NEW k PROVE Count(q, k) = Count(r, k) + IF w.kind = k THEN 1 ELSE 0
  BY <1>2, CountTail
<1>6. ASSUME NEW ks, NEW t
      PROVE  CountTagged(q, ks, t) =
               CountTagged(r, ks, t) + IF w.kind \in ks /\ w.tag = t THEN 1 ELSE 0
  <2> DEFINE K == {v \in S : v.kind \in ks /\ v.tag = t}
  <2>1. w \in K <=> w.kind \in ks /\ w.tag = t
    BY <1>3
  <2>a. CountTagged(q, ks, t) = CountIn(q, K)
    BY <1>2, TaggedAsSet
  <2>b. CountTagged(r, ks, t) = CountIn(r, K)
    <3> HIDE DEF r
    <3> QED BY <1>3, TaggedAsSet
  <2>2. CountTagged(q, ks, t) = CountIn(q, K) /\ CountTagged(r, ks, t) = CountIn(r, K)
    BY <2>a, <2>b
  <2> HIDE DEF K
  <2>3. CountIn(q, K) = CountIn(r, K) + IF w \in K THEN 1 ELSE 0
    BY <1>2, CountInTail
  <2> QED BY <2>1, <2>2, <2>3
<1>7. ASSUME NEW i \in DOMAIN r PROVE \E j \in DOMAIN q : r[i] = q[j]
  BY <1>2
<1> QED BY <1>3, <1>4, <1>5, <1>6, <1>7 DEF IsTaken

\* A queue stays as it is but for a message of none of the kinds K.
PassesBy(q, r, K) ==
  \/ r = q
  \/ q # << >> /\ Head(q).kind \notin K /\ r = Tail(q)
  \/ \E w : w.kind \notin K /\ r = Append(q, w)

\* Then nothing becomes of the messages of these kinds.
Spares(q, r, K) ==
  /\ Queue(r)
  /\ \A k \in K : Count(r, k) = Count(q, k)
  /\ \A ks \in SUBSET K : \A t : CountTagged(r, ks, t) = CountTagged(q, ks, t)
  /\ \A i \in DOMAIN r : r[i].kind \in K => \E j \in DOMAIN q : r[i] = q[j]

\* They are spared.
LEMMA PassingCounts ==
  ASSUME NEW q, Queue(q), NEW r, NEW K, PassesBy(q, r, K)
  PROVE  Spares(q, r, K)
<1>1. CASE r = q
  BY <1>1 DEF Spares
<1>2. CASE q # << >> /\ Head(q).kind \notin K /\ r = Tail(q)
  <2>1. IsTaken(q, Head(q), r)
    BY <1>2, Takes
  <2>2. /\ \A k : Count(r, k) \in Nat
        /\ \A ks, t : CountTagged(r, ks, t) \in Nat
    BY <2>1, CountsType DEF IsTaken
  <2>3. \A k \in K : Count(r, k) = Count(q, k)
    BY <1>2, <2>1, <2>2 DEF IsTaken
  <2>4. \A ks \in SUBSET K : \A t : CountTagged(r, ks, t) = CountTagged(q, ks, t)
    BY <1>2, <2>1, <2>2 DEF IsTaken
  <2> QED BY <2>1, <2>3, <2>4 DEF IsTaken, Spares
<1>3. CASE \E w : w.kind \notin K /\ r = Append(q, w)
  <2>0. PICK w : w.kind \notin K /\ r = Append(q, w)
    BY <1>3
  <2>1. IsPut(q, w, r)
    BY <2>0, Puts
  <2>2. /\ \A k : Count(q, k) \in Nat
        /\ \A ks, t : CountTagged(q, ks, t) \in Nat
    BY CountsType
  <2>3. \A k \in K : Count(r, k) = Count(q, k)
    BY <2>0, <2>1, <2>2 DEF IsPut
  <2>4. \A ks \in SUBSET K : \A t : CountTagged(r, ks, t) = CountTagged(q, ks, t)
    BY <2>0, <2>1, <2>2 DEF IsPut
  <2>5. \A i \in DOMAIN r : r[i].kind \in K => \E j \in DOMAIN q : r[i] = q[j]
    BY <2>0, <2>1 DEF IsPut
  <2> QED BY <2>1, <2>3, <2>4, <2>5 DEF IsPut, Spares
<1> QED BY <1>1, <1>2, <1>3 DEF PassesBy

-----------------------------------------------------------------------------
(* What the main thread does is what its program does. *)

UsesPages == Does(program, {"takeTag"})
StepOfProgram(s) ==
  /\ s.do = "send" => s.req.kind \notin {"page", "sendKey", "flash"}
  /\ s.do = "takeTag" => s.op \in {"write", "read"} /\ UsesPages
  /\ s.do \in {"sendMapData", "issue"} => ~UsesPages

\* Only a request for a key or a command is made in several steps.
ScriptInv ==
  /\ program \in Programs
  /\ Queue(script)
  /\ \A i \in DOMAIN script : StepOfProgram(script[i])
  /\ at \in {"load", "store"} => Doing("sendMapData")
  /\ at \in {"count", "send"} => Doing("issue")

\* Programs are what ProgramsAssumption says of them.
LEMMA InitScript == Init => ScriptInv
<1> SUFFICES ASSUME Init PROVE ScriptInv
  OBVIOUS
<1>1. program \in Programs /\ script = program.script /\ at = "start"
  BY DEF Init, PortalInit
<1>2. Queue(script)
  BY <1>1, ProgramsAssumption, QueueOf
<1>3. ASSUME NEW i \in DOMAIN script PROVE StepOfProgram(script[i])
  <2> DEFINE s == script[i]
  <2>1. s \in Steps(program)
    BY <1>1 DEF Steps
  <2> HIDE DEF s
  <2>2. /\ s.do = "send" => s.req.kind \notin {"page", "sendKey", "flash"}
        /\ s.do = "takeTag" => s.op \in {"write", "read"}
    BY <1>1, <2>1, ProgramsAssumption
  <2>3. s.do = "takeTag" => UsesPages
    BY <2>1 DEF UsesPages, Does
  <2>4. s.do \in {"sendMapData", "issue"} => Does(program, {"sendMapData", "issue"})
    BY <2>1 DEF Does
  <2>5. Does(program, {"takeTag"}) => ~Does(program, {"sendMapData", "issue"})
    BY <1>1, ProgramsAssumption
  <2> QED BY <2>2, <2>3, <2>4, <2>5 DEF StepOfProgram, UsesPages, s
<1> QED BY <1>1, <1>2, <1>3 DEF ScriptInv

\* The first step of a script is one of the program, and so are those behind it.
LEMMA ScriptHead ==
  ASSUME ScriptInv, script # << >>
  PROVE  /\ StepOfProgram(Head(script)) /\ Queue(Tail(script))
         /\ \A i \in DOMAIN Tail(script) : StepOfProgram(Tail(script)[i])
<1>1. IsTaken(script, Head(script), Tail(script))
  BY Takes DEF ScriptInv
<1> QED BY <1>1 DEF ScriptInv, IsTaken

\* A step that is over, when it leaves the thread at the start of the next.
LEMMA ScriptGoesOn ==
  ASSUME ScriptInv, script # << >>, script' = Tail(script), UNCHANGED program,
         at' \notin {"load", "store", "count", "send"}
  PROVE  ScriptInv'
<1>1. /\ Queue(script') /\ \A i \in DOMAIN script' : StepOfProgram(script'[i])
  BY ScriptHead
<1>2. \A s : StepOfProgram(s)' <=> StepOfProgram(s)
  BY DEF StepOfProgram, UsesPages, Does, Steps
<1> QED BY <1>1, <1>2 DEF ScriptInv

\* A script that stays where it is.
LEMMA ScriptStays ==
  ASSUME ScriptInv, UNCHANGED <<script, program>>,
         \/ at' \notin {"load", "store", "count", "send"}
         \/ at' \in {"load", "store"} /\ Doing("sendMapData")
         \/ at' \in {"count", "send"} /\ Doing("issue")
  PROVE  ScriptInv'
BY DEF ScriptInv, StepOfProgram, UsesPages, Does, Steps, Doing, Queue

\* A register is read again: the steps of i2cRead come before the others.
LEMMA ScriptReadsAgain ==
  ASSUME ScriptInv, DoTryAgain
  PROVE  ScriptInv'
<1> DEFINE a == I2cRead(Step.reg, Step.tries + 1)
           b == Tail(script)
           S == {a[i] : i \in DOMAIN a} \cup {b[i] : i \in DOMAIN b}
<1>0. script # << >> /\ UNCHANGED <<program, at>> /\ Head(script).do = "tryAgain"
  BY DEF DoTryAgain, Doing, mainUnchanged
<1>a. at \notin {"load", "store", "count", "send"}
  BY <1>0 DEF ScriptInv, Doing
<1>1. CASE script' = Tail(script)
  BY <1>0, <1>1, <1>a, ScriptGoesOn
<1>2. CASE script' = a \o b
  <2>1. Queue(b) /\ \A i \in DOMAIN b : StepOfProgram(b[i])
    BY <1>0, ScriptHead
  <2>2. a \in Seq({a[i] : i \in DOMAIN a}) /\ \A i \in DOMAIN a : StepOfProgram(a[i])
    <3> DEFINE r == Step.reg
               c == Step.tries + 1
               s1 == [do |-> "clear", flag |-> "i2cReadDone"]
               s2 == [do |-> "send", req |-> [kind |-> "i2cRead", reg |-> r]]
               s3 == [do |-> "spin", flag |-> "i2cReadDone"]
               s4 == [do |-> "tryAgain", reg |-> r, tries |-> c]
    <3>1. StepOfProgram(s1) /\ StepOfProgram(s3) /\ StepOfProgram(s4)
      BY DEF StepOfProgram
    <3>2. StepOfProgram(s2)
      BY DEF StepOfProgram
    <3>3. a = <<s1, s2, s3, s4>>
      BY DEF I2cRead
    <3> HIDE DEF a, s1, s2, s3, s4
    <3>4. DOMAIN a = 1 .. 4 /\ a[1] = s1 /\ a[2] = s2 /\ a[3] = s3 /\ a[4] = s4
      BY <3>3
    <3>5. a \in Seq({s1, s2, s3, s4})
      BY <3>3
    <3>6. \A i \in DOMAIN a : i = 1 \/ i = 2 \/ i = 3 \/ i = 4
      BY <3>4
    <3>7. \A i \in DOMAIN a : StepOfProgram(a[i])
      BY <3>1, <3>2, <3>4, <3>6
    <3>8. Queue(a)
      BY <3>5, QueueOf
    <3> QED BY <3>7, <3>8 DEF Queue
  <2> DEFINE A == {a[i] : i \in DOMAIN a}
             B == {b[i] : i \in DOMAIN b}
  <2>4. \A s \in S : StepOfProgram(s)
    BY <2>1, <2>2
  <2>a. a \in Seq(A) /\ b \in Seq(B)
    BY <2>1, <2>2 DEF Queue
  <2>b. A \subseteq S /\ B \subseteq S
    OBVIOUS
  <2> HIDE DEF a, b, A, B, S
  <2>3. a \in Seq(S) /\ b \in Seq(S)
    BY <2>a, <2>b, SeqWidens
  <2>5. a \o b \in Seq(S)
    BY <2>3
  <2>6. \A i \in DOMAIN script' : script'[i] \in S
    BY <1>2, <2>5
  <2>7. Queue(script')
    BY <1>2, <2>5, QueueOf
  <2>8. \A s : StepOfProgram(s)' <=> StepOfProgram(s)
    BY <1>0 DEF StepOfProgram, UsesPages, Does, Steps
  <2> QED BY <1>0, <1>a, <2>4, <2>6, <2>7, <2>8 DEF ScriptInv
<1> QED BY <1>1, <1>2 DEF DoTryAgain, Proceed

\* A step that leaves script and main thread alone.
LEMMA ScriptSame == ASSUME ScriptInv, UNCHANGED <<script, program, at>> PROVE ScriptInv'
BY ScriptStays DEF ScriptInv

\* Behind its input queue the board of the map-reduce takes and gives little.
LEMMA ReducerQuiet ==
  ASSUME ReducerRules
  PROVE  /\ UNCHANGED <<program, script, at, handler, raced, curRequestedIn, loaded,
                        curInRequested>>
         /\ \/ requests' = requests
            \/ /\ requests # << >> /\ Head(requests).kind = "finalize"
               /\ requests' = Tail(requests)
         /\ \/ indications' = indications
            \/ \E w : w.kind \in {"mrDone", "sendKey"} /\ indications' = Append(indications, w)
<1>1. CASE FeedMapper
  BY <1>1 DEF FeedMapper, mapHostUnchanged
<1>2. CASE RelayReducer \/ ReqCtxRead \/ RecvCtxHead \/ RecvCtxRead \/ GetReducerResult
  BY <1>2 DEF RelayReducer, ReqCtxRead, RecvCtxHead, RecvCtxRead, GetReducerResult,
              portalVars, mapVars
<1>3. CASE FinalizeRequest
  BY <1>3 DEF FinalizeRequest, Receive, mapHostUnchanged
<1>4. CASE FinalizeD \/ FinaliceR \/ FinalizeC
  BY <1>4 DEF FinalizeD, FinaliceR, FinalizeC, portalVars, mapVars
<1>5. CASE FinalSecond
  <2>1. /\ UNCHANGED requests
        /\ \/ indications' = indications
           \/ indications' = Append(indications, [kind |-> "mrDone"])
    BY <1>5 DEF FinalSecond, Indicate
  <2> QED BY <1>5, <2>1 DEF FinalSecond, mapHostUnchanged
<1>6. CASE FinalSecondR
  <2>1. UNCHANGED requests
    BY <1>6 DEF FinalSecondR
  <2>2. \/ indications' = indications
        \/ \E w : w.kind \in {"mrDone", "sendKey"} /\ indications' = Append(indications, w)
    <3>1. CASE UNCHANGED indications
      BY <3>1
    <3>2. CASE \E k : indications' = Append(indications, [kind |-> "sendKey", key |-> k])
      <4>1. PICK k : indications' = Append(indications, [kind |-> "sendKey", key |-> k])
        BY <3>2
      <4>2. [kind |-> "sendKey", key |-> k].kind \in {"mrDone", "sendKey"}
        OBVIOUS
      <4> QED BY <4>1, <4>2
    <3> QED BY <1>6, <3>1, <3>2 DEF FinalSecondR, Indicate
  <2> QED BY <1>6, <2>1, <2>2 DEF FinalSecondR, mapHostUnchanged
<1> QED BY <1>1, <1>2, <1>3, <1>4, <1>5, <1>6 DEF ReducerRules

\* Every step of the main thread is one of its program.
LEMMA NextScript == ScriptInv /\ [Next]_vars => ScriptInv'
<1> SUFFICES ASSUME ScriptInv, [Next]_vars PROVE ScriptInv'
  OBVIOUS
<1>1. CASE TestsMain
  <2>1. CASE DoTryAgain
    BY <2>1, ScriptReadsAgain
  <2>2. CASE DoStatus
    BY <2>2, ScriptSame DEF DoStatus
  <2>3. CASE DoSend \/ DoWait \/ DoClear \/ DoSpin \/ DoPrint \/ DoStop
    <3>1. /\ script # << >> /\ UNCHANGED <<program, at>>
          /\ Head(script).do \in {"send", "wait", "clear", "spin", "print", "stop"}
          /\ UNCHANGED script \/ script' = Tail(script)
      BY <2>3 DEF DoSend, DoWait, DoClear, DoSpin, DoPrint, DoStop, Doing, Proceed, mainUnchanged
    <3>2. at \notin {"load", "store", "count", "send"}
      BY <3>1 DEF ScriptInv, Doing
    <3> QED BY <3>1, <3>2, ScriptGoesOn, ScriptSame
  <2> QED BY <1>1, <2>1, <2>2, <2>3 DEF TestsMain
<1>2. CASE PageMain
  <2>1. /\ script # << >> /\ UNCHANGED program
        /\ Head(script).do \in {"takeTag", "waitTagFlush", "printTotal"}
        /\ \/ UNCHANGED <<script, at>>
           \/ script' = Tail(script) /\ UNCHANGED at
           \/ UNCHANGED script /\ at' = "asleep"
    BY <1>2 DEF PageMain, DoTakeTag, DoWaitTagFlush, DoPrintTotal, Doing, Proceed
  <2>2. at \notin {"load", "store", "count", "send"}
    BY <2>1 DEF ScriptInv, Doing
  <2> QED BY <2>1, <2>2, ScriptGoesOn, ScriptStays, ScriptSame
<1>3. CASE MapMain
  <2>1. CASE DoSendMapData
    <3>1. /\ script # << >> /\ UNCHANGED program /\ Doing("sendMapData")
          /\ \/ UNCHANGED script /\ at' \in {"load", "store"}
             \/ script' = Tail(script) /\ at' = "start"
      BY <2>1 DEF DoSendMapData, Doing, Proceed
    <3> QED BY <3>1, ScriptGoesOn, ScriptStays
  <2>2. CASE DoReset \/ DoAwaitMrDone
    <3>1. /\ script # << >> /\ UNCHANGED <<program, at>> /\ script' = Tail(script)
          /\ Head(script).do \in {"reset", "awaitMrDone"}
      BY <2>2 DEF DoReset, DoAwaitMrDone, Doing, Proceed
    <3>2. at \notin {"load", "store", "count", "send"}
      BY <3>1 DEF ScriptInv, Doing
    <3> QED BY <3>1, <3>2, ScriptGoesOn
  <2> QED BY <1>3, <2>1, <2>2 DEF MapMain
<1>4. CASE InterfaceMain
  <2>1. CASE DoIssue
    <3>1. /\ script # << >> /\ UNCHANGED program /\ Doing("issue")
          /\ \/ UNCHANGED script /\ at' \in {"count", "send"}
             \/ script' = Tail(script) /\ at' = "start"
      BY <2>1 DEF DoIssue, Doing, Proceed
    <3> QED BY <3>1, ScriptGoesOn, ScriptStays
  <2>2. CASE DoFill \/ DoWaitIdleBuffer \/ DoDrain
    <3>1. /\ script # << >> /\ UNCHANGED program
          /\ Head(script).do \in {"fill", "waitIdleBuffer", "drain"}
          /\ \/ script' = Tail(script) /\ UNCHANGED at
             \/ UNCHANGED script /\ at' \in {"beforeWait", "asleep", "crashed"}
      BY <2>2 DEF DoFill, DoWaitIdleBuffer, DoDrain, Doing, Proceed
    <3>2. at \notin {"load", "store", "count", "send"}
      BY <3>1 DEF ScriptInv, Doing
    <3> QED BY <3>1, <3>2, ScriptGoesOn, ScriptStays
  <2> QED BY <1>4, <2>1, <2>2 DEF InterfaceMain
<1>5. CASE PortalThread
  <2>1. UNCHANGED <<program, script>> /\ (at' = at \/ at' = "start")
    BY <1>5 DEF PortalThread, TestsPortal, Callback, I2cResult, FinishMatrix, SearchResult,
                RawWordTest, WorkerExit, portalUnchanged, PagePortal, PageWriteDone,
                PageReadDone, WakeUp, MapPortal, RequestWords, MrDone, SendKeyIndication,
                InterfacePortal, FlashDone, ReqFlashCmd, HexDump
  <2> QED BY <2>1, ScriptStays, ScriptSame
<1>6. CASE Board
  <2>1. UNCHANGED <<program, script, at>>
    <3>1. CASE TestsBoard
      BY <3>1 DEF TestsBoard, Answer, Accept, FlashAnswers, I2cController, boardUnchanged
    <3>2. CASE SearchStep
      BY <3>2 DEF SearchStep, Setup, Search, SetupStmt, StartStmt, Dispatch, SetupNeedle,
                  SetupMpNext, Finish, StartSearch, MatchNeedleReq, MatchNeedleResp,
                  BramDrain, Resr, engineOnly, portalVars
    <3>3. CASE PageBoard
      BY <3>3 DEF PageBoard, TakePage, GetCommand, StartWriteFlush, ReadWord, pageHostUnchanged
    <3>4. CASE MapBoard
      BY <3>4, ReducerQuiet DEF MapBoard, SendInReq, SendKey, mapHostUnchanged
    <3>5. CASE InterfaceBoard
      BY <3>5 DEF InterfaceBoard, StartFlash, DriveNewReqs, TakeCmd, DriveFlashCmd,
                  DmaWriteDoneCheck, FlushDmaWriteDone, DriveDmaReadDone, interfaceHostUnchanged
    <3> QED BY <1>6, <3>1, <3>2, <3>3, <3>4, <3>5 DEF Board
  <2> QED BY <2>1, ScriptSame
<1>7. CASE UNCHANGED vars
  BY <1>7, ScriptSame DEF vars, portalVars
<1> QED BY <1>1, <1>2, <1>3, <1>4, <1>5, <1>6, <1>7 DEF Next, Main

-----------------------------------------------------------------------------
(* The tags of the page library. *)

Tags        == 0 .. (TagCount - 1)
PageRequest == [kind : {"page"}, op : {"write", "read"}, tag : Tags]
PageAnswer  == {"pageWriteDone", "pageReadDone"}

PageInv ==
  /\ Queue(requests) /\ Queue(indications)
  /\ readTagStatus \subseteq Tags
  /\ bluedbmCommand \in Seq(PageRequest) /\ reading \subseteq Tags /\ writeTagQ \in Seq(Tags)
  /\ \A i \in DOMAIN requests : requests[i].kind = "page" =>
       requests[i] \in PageRequest /\ UsesPages
  /\ \A i \in DOMAIN indications : indications[i].kind \in PageAnswer =>
       indications[i].tag \in Tags /\ UsesPages
  /\ (\/ bluedbmCommand # << >> \/ reading # {} \/ writeTagQ # << >>
      \/ handler.pc = "broadcast") => UsesPages
  /\ PageTagsExclusive

\* What the main thread and the portal thread are about to count.
CmdDue   == IF at \in {"count", "send"} THEN 1 ELSE 0
KeyDue   == IF at \in {"load", "store"} THEN 1 ELSE 0
WordsDue == IF handler.pc = "requestWords" THEN Grant ELSE 0

\* What they will learn of.
CmdsGranted == CmdGrant * Count(indications, "reqFlashCmd")
KeysGranted == Grant * Count(indications, "requestWords")

\* The commands and the keys under way.
CmdInv ==
  /\ curCmdCountBudget \in Int /\ numReqsRequested \in Int
  /\ numReqsRequested =
       CmdsGranted + curCmdCountBudget
         + CmdDue + Count(requests, "flash")
  /\ Queue(flashCmdQ)
  /\ numReqsRequested + Len(flashCmdQ) =< CmdQSize
KeyInv ==
  /\ curInRequested \in Nat /\ curRequestedIn \in Int /\ loaded \in Int
  /\ handler.pc = "requestWords" => handler.arg \in Int
  /\ raced \in BOOLEAN
  /\ ~raced => curRequestedIn >= KeyDue
  /\ raced \/
       curInRequested + KeyDue =
         KeysGranted + curRequestedIn
           + WordsDue + Count(requests, "sendKey")

\* What the property says of grants is said by these two.
LEMMA GrantsAre == CmdInv /\ KeyInv => GrantsExact
BY DEF CmdInv, CmdDue, CmdsGranted, KeyInv, KeyDue, WordsDue, KeysGranted, GrantsExact

\* And so is that there is room for them.
LEMMA RoomIs == CmdInv => CmdQueueHasRoom
<1> SUFFICES ASSUME CmdInv PROVE CmdQueueHasRoom
  OBVIOUS
<1>1. /\ numReqsRequested = CmdsGranted + curCmdCountBudget + CmdDue + Count(requests, "flash")
      /\ numReqsRequested + Len(flashCmdQ) =< CmdQSize
  BY DEF CmdInv
<1> QED BY <1>1 DEF CmdQueueHasRoom, CmdsGranted, CmdDue

HostsInv == ScriptInv /\ PageInv /\ CmdInv /\ KeyInv

\* Nothing is under way and no tag is taken.
LEMMA InitHosts == Init => HostsInv
<1> SUFFICES ASSUME Init PROVE HostsInv
  OBVIOUS
<1> DEFINE e == << >>
<1>1. /\ requests = e /\ indications = e /\ handler.pc = "idle" /\ at = "start" /\ raced = FALSE
      /\ readTagStatus = {} /\ bluedbmCommand = e /\ reading = {} /\ writeTagQ = e
      /\ curRequestedIn = 0 /\ loaded = 0 /\ curInRequested = 0
      /\ curCmdCountBudget = 0 /\ numReqsRequested = 0 /\ flashCmdQ = e
  BY DEF Init, PortalInit, PageInit, MapInit, InterfaceInit, Idle
<1>2. Queue(e)
  BY DEF Queue
<1>3. \A k : Count(e, k) = 0
  BY CountEmpty
<1>4. \A ks, t : Tagged(e, ks, t) = {}
  BY DEF Tagged
<1>5. \A ks, t : CountTagged(e, ks, t) = 0
  BY <1>4, FS_EmptySet DEF CountTagged
<1>6. \A t : Cardinality(reading \cap {t}) = 0 /\ CountIn(e, {t}) = 0
  <2>1. \A t : reading \cap {t} = {} /\ Places(e, {t}) = {}
    BY <1>1 DEF Places
  <2> QED BY <2>1, FS_EmptySet DEF CountIn
<1>a. e \in Seq(PageRequest) /\ e \in Seq(Tags) /\ Len(e) = 0
  OBVIOUS
<1> HIDE DEF e
<1>7. PageTagsExclusive
  BY <1>1, <1>5, <1>6 DEF PageTagsExclusive
<1>8. DOMAIN e = {} /\ e = << >>
  BY DEF e
<1>9. PageInv
  BY <1>1, <1>2, <1>7, <1>8, <1>a DEF PageInv
<1>10. CmdInv
  BY <1>1, <1>2, <1>3, <1>a, InterfaceAssumption DEF CmdInv, CmdDue, CmdsGranted
<1>11. KeyInv
  <2>1. raced \in BOOLEAN /\ at \notin {"load", "store"} /\ handler.pc # "requestWords"
    BY <1>1
  <2>2. 0 \in Int /\ 0 \in Nat /\ 0 >= 0
    OBVIOUS
  <2>3. curInRequested + (IF at \in {"load", "store"} THEN 1 ELSE 0) =
         Grant * Count(indications, "requestWords") + curRequestedIn
           + (IF handler.pc = "requestWords" THEN Grant ELSE 0) + Count(requests, "sendKey")
    BY <1>1, <1>3, <2>1, GrantAssumption
  <2> QED BY <1>1, <2>1, <2>2, <2>3 DEF KeyInv, KeyDue, WordsDue, KeysGranted
<1> QED BY <1>9, <1>10, <1>11, InitScript DEF HostsInv

\* A step that has nothing to do with the page library.
PageQuiet ==
  /\ PassesBy(requests, requests', {"page"})
  /\ PassesBy(indications, indications', PageAnswer)
  /\ UNCHANGED <<program, readTagStatus, pageBoardVars>>
  /\ handler'.pc = "broadcast" => handler.pc = "broadcast"

\* It keeps all that is said of tags.
LEMMA PageQuietKeeps == ASSUME PageInv, PageQuiet PROVE PageInv'
<1>1. Spares(requests, requests', {"page"})
  BY PassingCounts DEF PageInv, PageQuiet
<1>2. Spares(indications, indications', PageAnswer)
  BY PassingCounts DEF PageInv, PageQuiet
<1>3. UsesPages' <=> UsesPages
  BY DEF PageQuiet, UsesPages, Does, Steps
<1>4. \A t : CountTagged(requests', {"page"}, t) = CountTagged(requests, {"page"}, t)
  BY <1>1 DEF Spares
<1>5. \A t : CountTagged(indications', {"pageWriteDone", "pageReadDone"}, t) =
               CountTagged(indications, {"pageWriteDone", "pageReadDone"}, t)
  BY <1>2 DEF PageAnswer, Spares
<1>6. PageTagsExclusive'
  BY <1>4, <1>5 DEF PageTagsExclusive, PageInv, PageQuiet, pageBoardVars
<1>7. \A i \in DOMAIN requests' : requests'[i].kind = "page" =>
        requests'[i] \in PageRequest /\ UsesPages'
  BY <1>1, <1>3 DEF PageInv, Spares
<1>8. \A i \in DOMAIN indications' : indications'[i].kind \in PageAnswer =>
        indications'[i].tag \in Tags /\ UsesPages'
  BY <1>2, <1>3 DEF PageInv, Spares
<1> QED BY <1>1, <1>2, <1>3, <1>6, <1>7, <1>8
        DEF PageInv, Spares, PageQuiet, pageBoardVars, Tags, PageRequest, PageAnswer

\* A step that has nothing to do with commands.
CmdQuiet ==
  /\ PassesBy(requests, requests', {"flash"})
  /\ PassesBy(indications, indications', {"reqFlashCmd"})
  /\ UNCHANGED <<curCmdCountBudget, numReqsRequested, flashCmdQ>>
  /\ at' \in {"count", "send"} <=> at \in {"count", "send"}

\* It keeps what is said of them.
LEMMA CmdQuietKeeps == ASSUME PageInv, CmdInv, CmdQuiet PROVE CmdInv'
<1>1. Spares(requests, requests', {"flash"})
  BY PassingCounts DEF PageInv, CmdQuiet
<1>2. Spares(indications, indications', {"reqFlashCmd"})
  BY PassingCounts DEF PageInv, CmdQuiet
<1>3. /\ Count(requests', "flash") = Count(requests, "flash")
      /\ Count(indications', "reqFlashCmd") = Count(indications, "reqFlashCmd")
  BY <1>1, <1>2 DEF Spares
<1> QED BY <1>3 DEF CmdInv, CmdDue, CmdsGranted, CmdQuiet, Queue

\* A step that has nothing to do with keys, but may have lost something else.
KeyQuiet ==
  /\ PassesBy(requests, requests', {"sendKey"})
  /\ PassesBy(indications, indications', {"requestWords"})
  /\ UNCHANGED <<curInRequested, curRequestedIn, loaded>>
  /\ handler'.pc = "requestWords" <=> handler.pc = "requestWords"
  /\ handler'.pc = "requestWords" => handler'.arg = handler.arg
  /\ at' \in {"load", "store"} <=> at \in {"load", "store"}
  /\ raced' \in BOOLEAN /\ (raced => raced')

\* It keeps what is said of them.
LEMMA KeyQuietKeeps == ASSUME PageInv, KeyInv, KeyQuiet PROVE KeyInv'
<1>1. Spares(requests, requests', {"sendKey"})
  BY PassingCounts DEF PageInv, KeyQuiet
<1>2. Spares(indications, indications', {"requestWords"})
  BY PassingCounts DEF PageInv, KeyQuiet
<1>3. /\ Count(requests', "sendKey") = Count(requests, "sendKey")
      /\ Count(indications', "requestWords") = Count(indications, "requestWords")
  BY <1>1, <1>2 DEF Spares
<1> QED BY <1>3 DEF KeyInv, KeyDue, WordsDue, KeysGranted, KeyQuiet

-----------------------------------------------------------------------------
(* The test programs and the string search use neither. *)

\* What passes by more kinds passes by fewer.
LEMMA PassesByFewer ==
  ASSUME NEW q, NEW r, NEW K, PassesBy(q, r, K), NEW L \in SUBSET K
  PROVE  PassesBy(q, r, L)
BY DEF PassesBy

Requested == {"page", "sendKey", "flash"}
Indicated == {"pageWriteDone", "pageReadDone", "requestWords", "reqFlashCmd"}

\* A step of a program that has nothing to do with pages, keys and commands.
TestQuiet ==
  /\ PassesBy(requests, requests', Requested)
  /\ PassesBy(indications, indications', Indicated)
  /\ UNCHANGED <<program, at, raced, pageVars, mapVars, interfaceVars>>
  /\ \/ handler' = handler
     \/ {handler.pc, handler'.pc} \cap {"broadcast", "requestWords"} = {}

\* It keeps what is said of tags and grants.
LEMMA TestQuietKeeps ==
  ASSUME PageInv, CmdInv, KeyInv, TestQuiet PROVE PageInv' /\ CmdInv' /\ KeyInv'
<1>1. PageQuiet
  <2>1. PassesBy(requests, requests', {"page"})
    BY PassesByFewer DEF TestQuiet, Requested
  <2>2. PassesBy(indications, indications', PageAnswer)
    BY PassesByFewer DEF TestQuiet, Indicated, PageAnswer
  <2> QED BY <2>1, <2>2 DEF TestQuiet, PageQuiet, pageVars, pageHostVars
<1>2. CmdQuiet
  <2>1. PassesBy(requests, requests', {"flash"})
    BY PassesByFewer DEF TestQuiet, Requested
  <2>2. PassesBy(indications, indications', {"reqFlashCmd"})
    BY PassesByFewer DEF TestQuiet, Indicated
  <2> QED BY <2>1, <2>2 DEF TestQuiet, CmdQuiet, interfaceVars
<1>3. KeyQuiet
  <2>1. PassesBy(requests, requests', {"sendKey"})
    BY PassesByFewer DEF TestQuiet, Requested
  <2>2. PassesBy(indications, indications', {"requestWords"})
    BY PassesByFewer DEF TestQuiet, Indicated
  <2>3. UNCHANGED <<curInRequested, curRequestedIn, loaded>>
    BY DEF TestQuiet, mapVars
  <2>4. raced' \in BOOLEAN /\ (raced => raced')
    BY DEF TestQuiet, KeyInv, KeyDue, WordsDue, KeysGranted
  <2> QED BY <2>1, <2>2, <2>3, <2>4 DEF TestQuiet, KeyQuiet
<1> QED BY <1>1, <1>2, <1>3, PageQuietKeeps, CmdQuietKeeps, KeyQuietKeeps

\* Steps of the main thread of a test program.
LEMMA TestsMainQuiet ==
  ASSUME ScriptInv, TestsMain, UNCHANGED <<pageVars, mapVars, interfaceVars>>
  PROVE  TestQuiet
<1>1. CASE DoSend
  <2>1. StepOfProgram(Head(script)) /\ Head(script).do = "send"
    BY <1>1, ScriptHead DEF DoSend, Doing
  <2>2. Head(script).req.kind \notin Requested /\ requests' = Append(requests, Head(script).req)
    BY <1>1, <2>1 DEF DoSend, Request, Step, StepOfProgram, Requested
  <2>3. PassesBy(requests, requests', Requested)
    BY <2>2 DEF PassesBy
  <2> QED BY <1>1, <2>3 DEF DoSend, TestQuiet, PassesBy
<1>2. CASE DoStatus
  <2>1. [kind |-> "auroraStatus"].kind \notin Requested
    BY DEF Requested
  <2>2. PassesBy(requests, requests', Requested)
    BY <1>2, <2>1 DEF DoStatus, Request, PassesBy
  <2> QED BY <1>2, <2>2 DEF DoStatus, TestQuiet, PassesBy
<1>3. CASE DoWait \/ DoClear \/ DoSpin \/ DoPrint \/ DoTryAgain \/ DoStop
  BY <1>3 DEF DoWait, DoClear, DoSpin, DoPrint, DoTryAgain, DoStop, mainUnchanged, TestQuiet,
              PassesBy
<1> QED BY <1>1, <1>2, <1>3 DEF TestsMain

\* Steps of its portal thread.
LEMMA TestsPortalQuiet ==
  ASSUME TestsPortal, UNCHANGED <<pageVars, mapVars, interfaceVars>>
  PROVE  TestQuiet
<1>1. UNCHANGED <<program, at, raced, requests>>
  BY DEF TestsPortal, Callback, I2cResult, FinishMatrix, SearchResult, RawWordTest, WorkerExit,
         portalUnchanged
<1>2. \/ indications' = indications
      \/ \E k \in DOMAIN Posts \cup {"i2cResult", "finish", "searchResult", "rawWordTest"} :
           Handle(k)
  BY DEF TestsPortal, Callback, I2cResult, FinishMatrix, SearchResult, RawWordTest, WorkerExit
<1>3. PassesBy(indications, indications', Indicated)
  BY <1>2 DEF Handle, Posts, Indicated, PassesBy
<1>4. \/ handler' = handler
      \/ {handler.pc, handler'.pc} \cap {"broadcast", "requestWords"} = {}
  BY DEF TestsPortal, Callback, I2cResult, FinishMatrix, SearchResult, RawWordTest, WorkerExit,
         Handle, Idle
<1> QED BY <1>1, <1>3, <1>4 DEF TestQuiet, PassesBy

\* Steps of its board.
LEMMA TestsBoardQuiet ==
  ASSUME TestsBoard, UNCHANGED <<pageVars, mapVars, interfaceVars>>
  PROVE  TestQuiet
<1>1. UNCHANGED <<program, at, raced, handler>>
  BY DEF TestsBoard, Answer, Accept, FlashAnswers, I2cController, boardUnchanged
<1>2. \E k \in DOMAIN Answers \cup {"start", "setDebugVals", "resetAurora", "eraseBlock",
                                    "readPage", "writePage", "i2cWrite", "i2cRead"} : Receive(k)
  BY DEF TestsBoard, Answer, Accept, FlashAnswers, I2cController
<1>3. PassesBy(requests, requests', Requested)
  BY <1>2 DEF Receive, Answers, Requested, PassesBy
<1>4. \/ indications' = indications
      \/ \E w : w.kind \notin Indicated /\ indications' = Append(indications, w)
  <2>1. CASE Answer
    <3>1. PICK k \in DOMAIN Answers : indications' = Append(indications, [kind |-> Answers[k]])
      BY <2>1 DEF Answer, Indicate
    <3>2. Answers[k] \notin Indicated
      BY DEF Answers, Indicated
    <3> QED BY <3>1, <3>2
  <2>2. CASE Accept
    BY <2>2 DEF Accept
  <2>3. CASE FlashAnswers
    <3>1. PICK k \in {"eraseDone", "readDone", "writeDone"} :
            indications' = Append(indications, [kind |-> k])
      BY <2>3 DEF FlashAnswers, Indicate
    <3> QED BY <3>1 DEF Indicated
  <2>4. CASE I2cController
    <3>1. \/ indications' = indications
          \/ \E v : indications' = Append(indications, [kind |-> "i2cResult", value |-> v])
      BY <2>4 DEF I2cController, Indicate
    <3> QED BY <3>1 DEF Indicated
  <2> QED BY <2>1, <2>2, <2>3, <2>4 DEF TestsBoard
<1>5. PassesBy(indications, indications', Indicated)
  BY <1>4 DEF PassesBy
<1> QED BY <1>1, <1>3, <1>5 DEF TestQuiet

\* Steps of the search accelerator.
LEMMA SearchQuiet ==
  ASSUME SearchStep, UNCHANGED <<pageVars, mapVars, interfaceVars>>
  PROVE  TestQuiet
<1>1. CASE Setup \/ Search
  BY <1>1 DEF Setup, Search, Receive, TestQuiet, PassesBy, Requested
<1>2. CASE \E e \in Engine : Resr(e)
  <2>1. \/ indications' = indications
        \/ \E v : indications' = Append(indications, [kind |-> "searchResult", v |-> v])
    BY <1>2 DEF Resr, Indicate
  <2>2. PassesBy(indications, indications', Indicated)
    BY <2>1 DEF Indicated, PassesBy
  <2> QED BY <1>2, <2>2 DEF Resr, TestQuiet, PassesBy
<1>3. CASE UNCHANGED portalVars
  BY <1>3 DEF portalVars, TestQuiet, PassesBy
<1> QED BY <1>1, <1>2, <1>3 DEF SearchStep, SetupStmt, StartStmt, Dispatch, SetupNeedle,
               SetupMpNext, Finish, StartSearch, MatchNeedleReq, MatchNeedleResp, BramDrain, engineOnly

-----------------------------------------------------------------------------
(* The page library. *)

\* A program that uses pages makes no request for a key or a command.
LEMMA PagesOnly == ASSUME ScriptInv, UsesPages PROVE at \notin {"load", "store", "count", "send"}
<1> SUFFICES ASSUME at \in {"load", "store", "count", "send"} PROVE FALSE
  OBVIOUS
<1>1. script # << >> /\ Head(script).do \in {"sendMapData", "issue"}
  BY DEF ScriptInv, Doing
<1>2. StepOfProgram(Head(script))
  BY <1>1, ScriptHead
<1> QED BY <1>1, <1>2 DEF StepOfProgram

\* An answer about a page is only given to a program that uses pages.
LEMMA AnswerAtHead ==
  ASSUME PageInv, indications # << >>, Head(indications).kind \in PageAnswer
  PROVE  UsesPages /\ Head(indications).tag \in Tags
<1>1. 1 \in DOMAIN indications /\ Head(indications) = indications[1]
  BY Takes DEF PageInv, IsTaken
<1> QED BY <1>1 DEF PageInv

\* The page library has nothing to do with grants.
LEMMA PagesQuiet ==
  ASSUME ScriptInv, PageInv, KeyInv, PageMain \/ PagePortal \/ PageBoard,
         UNCHANGED <<mapVars, interfaceVars>>
  PROVE  CmdQuiet /\ KeyQuiet
<1>0. /\ UNCHANGED <<curCmdCountBudget, numReqsRequested, flashCmdQ>>
      /\ UNCHANGED <<curInRequested, curRequestedIn, loaded>>
      /\ UNCHANGED raced /\ raced \in BOOLEAN
  BY DEF mapVars, interfaceVars, KeyInv, PageMain, DoTakeTag, DoWaitTagFlush, DoPrintTotal,
         PagePortal, PageWriteDone, PageReadDone, PageBoard, TakePage, GetCommand,
         StartWriteFlush, ReadWord, pageHostUnchanged
<1>1. CASE PageMain
  <2>1. /\ UNCHANGED <<indications, handler>>
        /\ at' = at \/ (at = "start" /\ at' = "asleep")
    BY <1>1 DEF PageMain, DoTakeTag, DoWaitTagFlush, DoPrintTotal
  <2>2. \/ requests' = requests
        \/ \E o, u : requests' = Append(requests, [kind |-> "page", op |-> o, tag |-> u])
    BY <1>1 DEF PageMain, DoTakeTag, DoWaitTagFlush, DoPrintTotal, Request
  <2>3. PassesBy(requests, requests', {"sendKey"}) /\ PassesBy(requests, requests', {"flash"})
    BY <2>2 DEF PassesBy
  <2> QED BY <1>0, <2>1, <2>3 DEF CmdQuiet, KeyQuiet, PassesBy
<1>2. CASE PagePortal
  <2>1. /\ UNCHANGED <<program, requests>>
        /\ \/ indications' = indications
           \/ /\ indications # << >> /\ Head(indications).kind \in PageAnswer
              /\ indications' = Tail(indications)
        /\ \/ handler' = handler
           \/ {handler.pc, handler'.pc} \subseteq {"idle", "broadcast", "count"}
    BY <1>2 DEF PagePortal, PageWriteDone, PageReadDone, Handle, PageAnswer, Idle
  <2>2. at' = at \/ (at' = "start" /\ UsesPages)
    <3>1. CASE PageWriteDone
      <4>1. indications # << >> /\ Head(indications).kind \in PageAnswer
        BY <3>1 DEF PageWriteDone, Handle, PageAnswer
      <4> QED BY <3>1, <4>1, AnswerAtHead DEF PageWriteDone, WakeUp
    <3>2. CASE PageReadDone
      <4>1. handler.pc = "broadcast" => UsesPages
        BY DEF PageInv
      <4> QED BY <3>2, <4>1 DEF PageReadDone, WakeUp
    <3> QED BY <1>2, <3>1, <3>2 DEF PagePortal
  <2>3. /\ PassesBy(indications, indications', {"requestWords"})
        /\ PassesBy(indications, indications', {"reqFlashCmd"})
    BY <2>1 DEF PassesBy, PageAnswer
  <2>4. /\ at' \in {"load", "store"} <=> at \in {"load", "store"}
        /\ at' \in {"count", "send"} <=> at \in {"count", "send"}
    BY <2>2, PagesOnly
  <2> QED BY <1>0, <2>1, <2>3, <2>4 DEF CmdQuiet, KeyQuiet, PassesBy
<1>3. CASE PageBoard
  <2>1. UNCHANGED <<program, at, handler>>
    BY <1>3 DEF PageBoard, TakePage, GetCommand, StartWriteFlush, ReadWord, pageHostUnchanged
  <2>2. PassesBy(requests, requests', {"sendKey"}) /\ PassesBy(requests, requests', {"flash"})
    BY <1>3 DEF PageBoard, TakePage, GetCommand, StartWriteFlush, ReadWord, Receive, PassesBy
  <2>3. \/ indications' = indications
        \/ \E k \in PageAnswer : \E u : indications' = Append(indications, [kind |-> k, tag |-> u])
    BY <1>3 DEF PageBoard, TakePage, GetCommand, StartWriteFlush, ReadWord, Indicate, PageAnswer
  <2>4. /\ PassesBy(indications, indications', {"requestWords"})
        /\ PassesBy(indications, indications', {"reqFlashCmd"})
    BY <2>3 DEF PassesBy, PageAnswer
  <2> QED BY <1>0, <2>1, <2>2, <2>4 DEF CmdQuiet, KeyQuiet, PassesBy
<1> QED BY <1>1, <1>2, <1>3

\* How often tag t is in the board's queues.
Commanded(t) == CountTagged(bluedbmCommand, {"page"}, t)
ReadNow(t)   == Cardinality(reading \cap {t})
Written(t)   == CountIn(writeTagQ, {t})

\* A set has an element once or not at all.
LEMMA OneOf == ASSUME NEW S, NEW t PROVE Cardinality(S \cap {t}) = IF t \in S THEN 1 ELSE 0
<1>1. CASE t \in S
  <2>1. S \cap {t} = {t}
    BY <1>1
  <2> QED BY <1>1, <2>1, FS_Singleton
<1>2. CASE t \notin S
  <2>1. S \cap {t} = {}
    BY <1>2
  <2> QED BY <1>2, <2>1, FS_EmptySet
<1> QED BY <1>1, <1>2

\* The number of places of a tag is made up of natural numbers.
LEMMA PlacesType ==
  ASSUME PageInv
  PROVE  /\ Queue(bluedbmCommand)
         /\ \A t : /\ CountTagged(requests, {"page"}, t) \in Nat
                   /\ Commanded(t) \in Nat /\ ReadNow(t) \in Nat /\ Written(t) \in Nat
                   /\ CountTagged(indications, PageAnswer, t) \in Nat
<1>1. Queue(bluedbmCommand)
  BY QueueOf DEF PageInv
<1>2. \A t : ReadNow(t) \in Nat
  BY OneOf DEF ReadNow
<1>3. \A t : Written(t) \in Nat
  BY CountInType DEF PageInv, Written
<1> QED BY <1>1, <1>2, <1>3, CountsType DEF PageInv, Commanded

\* How many places have a tag.
Holders(t) ==
  CountTagged(requests, {"page"}, t) + Commanded(t) + ReadNow(t) + Written(t)
    + CountTagged(indications, PageAnswer, t)

\* The property, tag by tag.
LEMMA ExclusiveIs ==
  PageTagsExclusive <=> \A t \in Tags : Holders(t) = IF t \in readTagStatus THEN 1 ELSE 0
BY DEF PageTagsExclusive, Holders, Commanded, ReadNow, Written, Tags, PageAnswer

\* And after a step.
LEMMA ExclusiveNext ==
  ASSUME \A t \in Tags : Holders(t)' = IF t \in readTagStatus' THEN 1 ELSE 0
  PROVE  PageTagsExclusive'
BY DEF PageTagsExclusive, Holders, Commanded, ReadNow, Written, Tags, PageAnswer

\* The first free tag is free.
LEMMA MinOf == ASSUME NEW S, S \subseteq Nat, S # {} PROVE Min(S) \in S
<1>1. \E x \in S : \A y \in S : x <= y
  BY LeastElement
<1> QED BY <1>1 DEF Min

\* writePage and readPage take a tag that is in no other place.
LEMMA TakeTagKeeps == ASSUME ScriptInv, PageInv, DoTakeTag PROVE PageInv'
<1> DEFINE free == TagsFor(Step.op) \ readTagStatus
           u == Min(free)
           w == [kind |-> "page", op |-> Step.op, tag |-> u]
<1>0. /\ UNCHANGED <<program, indications, handler, bluedbmCommand, reading, writeTagQ>>
      /\ script # << >> /\ Step.do = "takeTag"
  BY DEF DoTakeTag, Doing, Step, pageBoardVars
<1>a. UsesPages' <=> UsesPages
  BY <1>0 DEF UsesPages, Does, Steps
<1>1. CASE UNCHANGED <<readTagStatus, requests>>
  <2>1. PageQuiet
    BY <1>0, <1>1 DEF PageQuiet, PassesBy, pageBoardVars
  <2> QED BY <2>1, PageQuietKeeps
<1>2. CASE /\ free # {} /\ readTagStatus' = readTagStatus \cup {u}
           /\ requests' = Append(requests, w)
  <2>1. Step.op \in {"write", "read"} /\ UsesPages
    BY <1>0, ScriptHead DEF StepOfProgram, Step
  <2>2. u \in Tags /\ u \notin readTagStatus
    <3>1. free \subseteq Tags /\ free \subseteq Nat
      BY <2>1, TagCountsAssumption DEF TagsFor, Tags
    <3>2. u \in free
      <4> HIDE DEF free
      <4> QED BY <1>2, <3>1, MinOf
    <3> QED BY <3>1, <3>2
  <2>3. w.kind = "page" /\ w.tag = u /\ w \in PageRequest
    BY <2>1, <2>2 DEF PageRequest
  <2> HIDE DEF u, free, w
  <2>4. IsPut(requests, w, requests')
    BY <1>2, Puts DEF PageInv
  <2>5. \A i \in DOMAIN requests' : requests'[i].kind = "page" => requests'[i] \in PageRequest
    BY <2>3, <2>4 DEF IsPut, PageInv
  <2>6. ASSUME NEW t \in Tags
        PROVE  Holders(t)' = IF t \in readTagStatus' THEN 1 ELSE 0
    <3>1. CountTagged(requests', {"page"}, t) =
            CountTagged(requests, {"page"}, t) + IF u = t THEN 1 ELSE 0
      BY <2>3, <2>4 DEF IsPut
    <3>2. Holders(t) = IF t \in readTagStatus THEN 1 ELSE 0
      BY ExclusiveIs DEF PageInv
    <3>3. /\ Commanded(t)' = Commanded(t) /\ ReadNow(t)' = ReadNow(t) /\ Written(t)' = Written(t)
          /\ CountTagged(indications', PageAnswer, t) = CountTagged(indications, PageAnswer, t)
      BY <1>0 DEF Commanded, ReadNow, Written
    <3>4. /\ CountTagged(requests, {"page"}, t) \in Nat
          /\ Commanded(t) \in Nat /\ ReadNow(t) \in Nat /\ Written(t) \in Nat
          /\ CountTagged(indications, PageAnswer, t) \in Nat
      BY PlacesType
    <3>5. t \in readTagStatus' <=> t \in readTagStatus \/ t = u
      BY <1>2
    <3> QED BY <2>2, <3>1, <3>2, <3>3, <3>4, <3>5 DEF Holders, PageAnswer
  <2>7. PageTagsExclusive'
    BY <2>6, ExclusiveNext
  <2> QED BY <1>0, <1>2, <1>a, <2>1, <2>2, <2>4, <2>5, <2>7
          DEF PageInv, IsPut, Tags, PageRequest, PageAnswer
<1> QED BY <1>1, <1>2 DEF DoTakeTag, Request

\* An indication about a page is the last of it: its tag is in no other place.
LEMMA PageDoneKeeps ==
  ASSUME PageInv, indications # << >>, Head(indications).kind \in PageAnswer,
         indications' = Tail(indications),
         readTagStatus' = readTagStatus \ {Head(indications).tag},
         UNCHANGED <<program, requests, bluedbmCommand, reading, writeTagQ>>
  PROVE  PageInv'
<1> DEFINE w == Head(indications)
<1>a. UsesPages' <=> UsesPages
  BY DEF UsesPages, Does, Steps
<1>1. UsesPages /\ w.tag \in Tags
  BY AnswerAtHead
<1>2. IsTaken(indications, w, indications')
  BY Takes DEF PageInv
<1> HIDE DEF w
<1>3. ASSUME NEW t \in Tags
      PROVE  Holders(t)' = IF t \in readTagStatus' THEN 1 ELSE 0
  <2>1. CountTagged(indications, PageAnswer, t) =
          CountTagged(indications', PageAnswer, t) + IF w.tag = t THEN 1 ELSE 0
    BY <1>2 DEF IsTaken, w
  <2>2. Holders(t) = IF t \in readTagStatus THEN 1 ELSE 0
    BY ExclusiveIs DEF PageInv
  <2>3. /\ Commanded(t)' = Commanded(t) /\ ReadNow(t)' = ReadNow(t) /\ Written(t)' = Written(t)
        /\ CountTagged(requests', {"page"}, t) = CountTagged(requests, {"page"}, t)
    BY DEF Commanded, ReadNow, Written
  <2>4. CountTagged(indications', PageAnswer, t) \in Nat
    BY <1>2, CountsType DEF IsTaken
  <2>5. t \in readTagStatus' <=> t \in readTagStatus /\ t # w.tag
    BY DEF w
  <2>6. /\ CountTagged(requests, {"page"}, t) \in Nat
        /\ Commanded(t) \in Nat /\ ReadNow(t) \in Nat /\ Written(t) \in Nat
    BY PlacesType
  <2> QED BY <2>1, <2>2, <2>3, <2>4, <2>5, <2>6 DEF Holders, PageAnswer
<1>4. PageTagsExclusive'
  BY <1>3, ExclusiveNext
<1>5. \A i \in DOMAIN indications' : indications'[i].kind \in PageAnswer =>
        indications'[i].tag \in Tags /\ UsesPages
  BY <1>1, <1>2 DEF IsTaken, PageInv
<1> QED BY <1>a, <1>1, <1>2, <1>4, <1>5 DEF PageInv, IsTaken, Tags, PageRequest, PageAnswer

\* The board takes a request for a page.
LEMMA TakePageKeeps == ASSUME PageInv, TakePage PROVE PageInv'
<1> DEFINE w == Head(requests)
<1>0. /\ requests # << >> /\ w.kind = "page" /\ requests' = Tail(requests)
      /\ bluedbmCommand' = Append(bluedbmCommand, w)
      /\ UNCHANGED <<program, handler, indications, readTagStatus, reading, writeTagQ>>
  BY DEF TakePage, Receive, pageHostUnchanged, pageHostVars
<1>a. UsesPages' <=> UsesPages
  BY <1>0 DEF UsesPages, Does, Steps
<1>1. IsTaken(requests, w, requests')
  BY <1>0, Takes DEF PageInv
<1>2. w \in PageRequest /\ UsesPages
  BY <1>0, <1>1 DEF IsTaken, PageInv
<1> HIDE DEF w
<1>3. IsPut(bluedbmCommand, w, bluedbmCommand')
  BY <1>0, Puts, PlacesType
<1>4. bluedbmCommand' \in Seq(PageRequest)
  BY <1>0, <1>2 DEF PageInv
<1>5. ASSUME NEW t \in Tags
      PROVE  Holders(t)' = IF t \in readTagStatus' THEN 1 ELSE 0
  <2>1. Holders(t) = IF t \in readTagStatus THEN 1 ELSE 0
    BY ExclusiveIs DEF PageInv
  <2>2. /\ CountTagged(requests, {"page"}, t) =
             CountTagged(requests', {"page"}, t) + IF w.tag = t THEN 1 ELSE 0
        /\ CountTagged(requests', {"page"}, t) \in Nat
    BY <1>0, <1>1, CountsType DEF IsTaken
  <2>3. Commanded(t)' = Commanded(t) + IF w.tag = t THEN 1 ELSE 0
    BY <1>0, <1>3 DEF IsPut, Commanded
  <2>4. /\ ReadNow(t)' = ReadNow(t) /\ Written(t)' = Written(t)
        /\ CountTagged(indications', PageAnswer, t) = CountTagged(indications, PageAnswer, t)
        /\ readTagStatus' = readTagStatus
    BY <1>0 DEF ReadNow, Written
  <2> QED BY <2>1, <2>2, <2>3, <2>4, PlacesType DEF Holders, PageAnswer
<1>6. PageTagsExclusive'
  BY <1>5, ExclusiveNext
<1>7. \A i \in DOMAIN requests' : requests'[i].kind = "page" => requests'[i] \in PageRequest
  BY <1>1 DEF IsTaken, PageInv
<1> QED BY <1>0, <1>1, <1>2, <1>4, <1>6, <1>7, <1>a
        DEF PageInv, IsTaken, Tags, PageRequest, PageAnswer

\* The board begins a page.
LEMMA GetCommandKeeps == ASSUME PageInv, GetCommand PROVE PageInv'
<1> DEFINE w == Head(bluedbmCommand)
<1>0. /\ bluedbmCommand # << >> /\ bluedbmCommand' = Tail(bluedbmCommand)
      /\ \/ reading' = reading \cup {w.tag} /\ UNCHANGED writeTagQ
         \/ writeTagQ' = Append(writeTagQ, w.tag) /\ UNCHANGED reading
      /\ UNCHANGED <<program, handler, requests, indications, readTagStatus>>
  BY DEF GetCommand, pageHostUnchanged, pageHostVars
<1>a. UsesPages' <=> UsesPages
  BY <1>0 DEF UsesPages, Does, Steps
<1>1. IsTaken(bluedbmCommand, w, bluedbmCommand')
  BY <1>0, Takes, PlacesType
<1>2. /\ w \in PageRequest /\ UsesPages
      /\ bluedbmCommand' \in Seq(PageRequest)
  <2>1. bluedbmCommand \in Seq(PageRequest) /\ UsesPages
    BY <1>0 DEF PageInv
  <2> QED BY <1>0, <2>1
<1>3. w.kind = "page" /\ w.tag \in Tags
  BY <1>2 DEF PageRequest
<1> HIDE DEF w
<1>4. \A t : /\ Commanded(t) = Commanded(t)' + IF w.tag = t THEN 1 ELSE 0
             /\ Commanded(t)' \in Nat
  BY <1>1, <1>3, CountsType DEF IsTaken, Commanded
<1>5. ASSUME NEW t \in Tags
      PROVE  ReadNow(t)' + Written(t)' = ReadNow(t) + Written(t) + IF w.tag = t THEN 1 ELSE 0
  <2>1. CASE reading' = reading \cup {w.tag} /\ UNCHANGED writeTagQ
    <3>1. w.tag \notin reading
      <4>1. Holders(w.tag) = IF w.tag \in readTagStatus THEN 1 ELSE 0
        BY <1>3, ExclusiveIs DEF PageInv
      <4>2. Commanded(w.tag) >= 1
        BY <1>4
      <4>3. ReadNow(w.tag) = 0
        BY <4>1, <4>2, PlacesType DEF Holders
      <4> QED BY <4>3, OneOf DEF ReadNow
    <3>2. ReadNow(t)' = ReadNow(t) + IF w.tag = t THEN 1 ELSE 0
      <4>1. /\ ReadNow(t)' = IF t \in reading' THEN 1 ELSE 0
            /\ ReadNow(t) = IF t \in reading THEN 1 ELSE 0
        BY OneOf DEF ReadNow
      <4> QED BY <2>1, <3>1, <4>1
    <3>3. Written(t)' = Written(t)
      BY <2>1 DEF Written
    <3> QED BY <3>2, <3>3, PlacesType
  <2>2. CASE writeTagQ' = Append(writeTagQ, w.tag) /\ UNCHANGED reading
    <3>1. CountIn(writeTagQ', {t}) = CountIn(writeTagQ, {t}) + IF w.tag \in {t} THEN 1 ELSE 0
      BY <1>3, <2>2, CountInAppend DEF PageInv
    <3>2. ReadNow(t)' = ReadNow(t)
      BY <2>2 DEF ReadNow
    <3> QED BY <3>1, <3>2, PlacesType DEF Written
  <2> QED BY <1>0, <2>1, <2>2
<1>8. reading' \subseteq Tags /\ writeTagQ' \in Seq(Tags)
  <2>1. reading \subseteq Tags /\ writeTagQ \in Seq(Tags)
    BY DEF PageInv
  <2>2. reading \cup {w.tag} \subseteq Tags
    BY <1>3, <2>1
  <2>3. Append(writeTagQ, w.tag) \in Seq(Tags)
    BY <1>3, <2>1
  <2> QED BY <1>0, <2>1, <2>2, <2>3
<1>6. ASSUME NEW t \in Tags
      PROVE  Holders(t)' = IF t \in readTagStatus' THEN 1 ELSE 0
  <2>1. Holders(t) = IF t \in readTagStatus THEN 1 ELSE 0
    BY ExclusiveIs DEF PageInv
  <2>2. /\ CountTagged(requests', {"page"}, t) = CountTagged(requests, {"page"}, t)
        /\ CountTagged(indications', PageAnswer, t) = CountTagged(indications, PageAnswer, t)
        /\ readTagStatus' = readTagStatus
    BY <1>0
  <2>3. ReadNow(t)' \in Nat /\ Written(t)' \in Nat
    <3>1. ReadNow(t)' \in Nat
      BY OneOf DEF ReadNow
    <3> QED BY <1>8, <3>1, CountInType DEF Written
  <2> QED BY <1>4, <1>5, <2>1, <2>2, <2>3, PlacesType DEF Holders, PageAnswer
<1>7. PageTagsExclusive'
  BY <1>6, ExclusiveNext
<1> QED BY <1>0, <1>2, <1>7, <1>8, <1>a DEF PageInv, Tags, PageRequest, PageAnswer

\* The board ends a page.
LEMMA PageEndedKeeps ==
  ASSUME PageInv, NEW u \in Tags, NEW k \in PageAnswer, Indicate([kind |-> k, tag |-> u]),
         UsesPages, reading' \subseteq Tags, writeTagQ' \in Seq(Tags),
         \A t \in Tags :
           ReadNow(t) + Written(t) = ReadNow(t)' + Written(t)' + IF u = t THEN 1 ELSE 0,
         UNCHANGED <<program, requests, readTagStatus, handler, bluedbmCommand>>
  PROVE  PageInv'
<1> DEFINE w == [kind |-> k, tag |-> u]
<1>a. UsesPages' <=> UsesPages
  BY DEF UsesPages, Does, Steps
<1>1. indications' = Append(indications, w) /\ w.kind = k /\ w.tag = u
  BY DEF Indicate
<1> HIDE DEF w
<1>2. IsPut(indications, w, indications')
  BY <1>1, Puts DEF PageInv
<1>5. ASSUME NEW t \in Tags
      PROVE  Holders(t)' = IF t \in readTagStatus' THEN 1 ELSE 0
  <2>1. Holders(t) = IF t \in readTagStatus THEN 1 ELSE 0
    BY ExclusiveIs DEF PageInv
  <2>2. Commanded(t)' = Commanded(t) /\ readTagStatus' = readTagStatus
        /\ CountTagged(requests', {"page"}, t) = CountTagged(requests, {"page"}, t)
    BY DEF Commanded
  <2>3. CountTagged(indications', PageAnswer, t) =
          CountTagged(indications, PageAnswer, t) + IF u = t THEN 1 ELSE 0
    BY <1>1, <1>2 DEF IsPut
  <2>4. ReadNow(t)' \in Nat /\ Written(t)' \in Nat
    <3>1. ReadNow(t)' \in Nat
      BY OneOf DEF ReadNow
    <3> QED BY <3>1, CountInType DEF Written
  <2>5. ReadNow(t) + Written(t) = ReadNow(t)' + Written(t)' + IF u = t THEN 1 ELSE 0
    OBVIOUS
  <2>6. /\ CountTagged(requests, {"page"}, t) \in Nat
        /\ Commanded(t) \in Nat /\ ReadNow(t) \in Nat /\ Written(t) \in Nat
        /\ CountTagged(indications, PageAnswer, t) \in Nat
    BY PlacesType
  <2>7. /\ Holders(t)' = CountTagged(requests, {"page"}, t) + Commanded(t) + ReadNow(t)'
                          + Written(t)' + CountTagged(indications', PageAnswer, t)
        /\ Holders(t) = CountTagged(requests, {"page"}, t) + Commanded(t) + ReadNow(t)
                         + Written(t) + CountTagged(indications, PageAnswer, t)
    BY <2>2 DEF Holders, PageAnswer
  <2> DEFINE o == IF u = t THEN 1 ELSE 0
  <2>8. o \in Nat
    OBVIOUS
  <2>9. CountTagged(indications', PageAnswer, t) = CountTagged(indications, PageAnswer, t) + o
    BY <2>3
  <2>10. ReadNow(t) + Written(t) = ReadNow(t)' + Written(t)' + o
    BY <2>5
  <2> HIDE DEF o
  <2> DEFINE a == CountTagged(requests, {"page"}, t)
             b == Commanded(t)
             i == CountTagged(indications, PageAnswer, t)
             r == ReadNow(t)
             n == Written(t)
             rr == ReadNow(t)'
             nn == Written(t)'
  <2>11. a + b + rr + nn + (i + o) = a + b + r + n + i
    <3>1. /\ a \in Nat /\ b \in Nat /\ i \in Nat /\ r \in Nat /\ n \in Nat /\ rr \in Nat
          /\ nn \in Nat /\ r + n = rr + nn + o
      BY <2>4, <2>6, <2>10
    <3> HIDE DEF a, b, i, r, n, rr, nn
    <3> QED BY <2>8, <3>1
  <2>12. Holders(t)' = Holders(t)
    <3>1. /\ Holders(t)' = a + b + rr + nn + CountTagged(indications', PageAnswer, t)
          /\ Holders(t) = a + b + r + n + i
          /\ CountTagged(indications', PageAnswer, t) = i + o
      BY <2>7, <2>9
    <3> HIDE DEF a, b, i, r, n, rr, nn
    <3> QED BY <2>11, <3>1
  <2> QED BY <2>1, <2>2, <2>12
<1>6. PageTagsExclusive'
  BY <1>5, ExclusiveNext
<1>7. \A i \in DOMAIN indications' : indications'[i].kind \in PageAnswer =>
        indications'[i].tag \in Tags
  BY <1>1, <1>2 DEF IsPut, PageInv
<1> QED BY <1>a, <1>2, <1>6, <1>7 DEF PageInv, IsPut, Tags, PageRequest, PageAnswer

\* A page that was read is ended.
LEMMA StartWriteFlushKeeps == ASSUME PageInv, StartWriteFlush PROVE PageInv'
<1>0. UNCHANGED <<program, handler, requests, readTagStatus, bluedbmCommand, writeTagQ>>
  BY DEF StartWriteFlush, pageHostUnchanged, pageHostVars
<1>1. PICK u \in reading :
        Indicate([kind |-> "pageReadDone", tag |-> u]) /\ reading' = reading \ {u}
  BY DEF StartWriteFlush
<1>2. u \in Tags /\ UsesPages /\ reading' \subseteq Tags /\ writeTagQ' \in Seq(Tags)
  <2>1. reading \subseteq Tags /\ writeTagQ \in Seq(Tags) /\ UsesPages
    BY DEF PageInv
  <2> QED BY <1>0, <1>1, <2>1
<1>3. ASSUME NEW t \in Tags
      PROVE  ReadNow(t) + Written(t) = ReadNow(t)' + Written(t)' + IF u = t THEN 1 ELSE 0
  <2>1. /\ ReadNow(t)' = IF t \in reading' THEN 1 ELSE 0
        /\ ReadNow(t) = IF t \in reading THEN 1 ELSE 0
    BY OneOf DEF ReadNow
  <2>2. Written(t)' = Written(t)
    BY <1>0 DEF Written
  <2> QED BY <1>1, <2>1, <2>2, PlacesType
<1>4. "pageReadDone" \in PageAnswer
  BY DEF PageAnswer
<1> QED BY <1>0, <1>1, <1>2, <1>3, <1>4, PageEndedKeeps

\* A page to be written is ended.
LEMMA ReadWordKeeps == ASSUME PageInv, ReadWord PROVE PageInv'
<1> DEFINE u == Head(writeTagQ)
<1>0. /\ UNCHANGED <<program, handler, requests, readTagStatus, bluedbmCommand, reading>>
      /\ writeTagQ # << >> /\ writeTagQ' = Tail(writeTagQ)
      /\ Indicate([kind |-> "pageWriteDone", tag |-> u])
  BY DEF ReadWord, pageHostUnchanged, pageHostVars
<1>2. u \in Tags /\ UsesPages /\ reading' \subseteq Tags /\ writeTagQ' \in Seq(Tags)
  <2>1. reading \subseteq Tags /\ writeTagQ \in Seq(Tags) /\ UsesPages
    BY <1>0 DEF PageInv
  <2> QED BY <1>0, <2>1
<1>3. ASSUME NEW t \in Tags
      PROVE  ReadNow(t) + Written(t) = ReadNow(t)' + Written(t)' + IF u = t THEN 1 ELSE 0
  <2>1. CountIn(writeTagQ, {t}) = CountIn(writeTagQ', {t}) + IF u \in {t} THEN 1 ELSE 0
    BY <1>0, CountInTail DEF PageInv
  <2>2. ReadNow(t)' = ReadNow(t)
    BY <1>0 DEF ReadNow
  <2>3. CountIn(writeTagQ', {t}) \in Nat
    BY <1>2, CountInType
  <2> QED BY <2>1, <2>2, <2>3, PlacesType DEF Written
<1>4. "pageWriteDone" \in PageAnswer
  BY DEF PageAnswer
<1> HIDE DEF u
<1> QED BY <1>0, <1>2, <1>3, <1>4, PageEndedKeeps

\* Every step of the library and its board keeps what is said of tags.
LEMMA PagesKeep ==
  ASSUME ScriptInv, PageInv, PageMain \/ PagePortal \/ PageBoard
  PROVE  PageInv'
<1>1. CASE DoTakeTag
  BY <1>1, TakeTagKeeps
<1>2. CASE DoWaitTagFlush \/ DoPrintTotal
  <2>1. PageQuiet
    BY <1>2 DEF DoWaitTagFlush, DoPrintTotal, pageVars, pageHostVars, PageQuiet, PassesBy
  <2> QED BY <2>1, PageQuietKeeps
<1>3. CASE PageWriteDone
  BY <1>3, PageDoneKeeps DEF PageWriteDone, Handle, Indication, PageAnswer, pageBoardVars
<1>4. CASE PageReadDone
  <2>1. CASE Handle("pageReadDone")
    BY <1>4, <2>1, PageDoneKeeps DEF PageReadDone, Handle, Indication, PageAnswer, pageBoardVars
  <2>2. CASE handler.pc \in {"broadcast", "count"}
    <3>1. PageQuiet
      BY <1>4, <2>2 DEF PageReadDone, Handle, PageQuiet, PassesBy, Idle
    <3> QED BY <3>1, PageQuietKeeps
  <2> QED BY <1>4, <2>1, <2>2 DEF PageReadDone
<1> QED BY <1>1, <1>2, <1>3, <1>4, TakePageKeeps, GetCommandKeeps, StartWriteFlushKeeps,
           ReadWordKeeps
        DEF PageMain, PagePortal, PageBoard

-----------------------------------------------------------------------------
(* The keys of the map-reduce program. *)

\* It has nothing to do with pages and commands.
LEMMA MapQuiet ==
  ASSUME MapMain \/ MapPortal \/ MapBoard, UNCHANGED <<pageVars, interfaceVars>>, ScriptInv
  PROVE  PageQuiet /\ CmdQuiet
<1>0. /\ UNCHANGED <<program, readTagStatus, pageBoardVars>>
      /\ UNCHANGED <<curCmdCountBudget, numReqsRequested, flashCmdQ>>
  <2>1. UNCHANGED program
    BY ReducerQuiet DEF MapMain, DoReset, DoSendMapData, DoAwaitMrDone, MapPortal, RequestWords,
         MrDone, SendKeyIndication, MapBoard, SendInReq, SendKey, mapHostUnchanged
  <2> QED BY <2>1 DEF pageVars, pageHostVars, interfaceVars
<1>1. CASE MapMain
  <2>1. UNCHANGED <<indications, handler>>
    BY <1>1 DEF MapMain, DoReset, DoSendMapData, DoAwaitMrDone
  <2>2. \/ requests' = requests
        \/ \E k : requests' = Append(requests, [kind |-> "sendKey", key |-> k])
    BY <1>1 DEF MapMain, DoReset, DoSendMapData, DoAwaitMrDone, Request
  <2>3. PassesBy(requests, requests', {"page"}) /\ PassesBy(requests, requests', {"flash"})
    BY <2>2 DEF PassesBy
  <2>4. at' = at \/ {at, at'} \subseteq {"start", "load", "store"}
    BY <1>1 DEF MapMain, DoReset, DoSendMapData, DoAwaitMrDone
  <2> QED BY <1>0, <2>1, <2>3, <2>4 DEF PageQuiet, CmdQuiet, PassesBy
<1>2. CASE MapPortal
  <2>1. UNCHANGED <<requests, at>>
    BY <1>2 DEF MapPortal, RequestWords, MrDone, SendKeyIndication
  <2>2. /\ handler'.pc = "broadcast" => handler.pc = "broadcast"
        /\ \/ indications' = indications
           \/ /\ indications # << >>
              /\ Head(indications).kind \in {"requestWords", "mrDone", "sendKey"}
              /\ indications' = Tail(indications)
    BY <1>2 DEF MapPortal, RequestWords, MrDone, SendKeyIndication, Handle, Idle
  <2>3. /\ PassesBy(indications, indications', PageAnswer)
        /\ PassesBy(indications, indications', {"reqFlashCmd"})
    BY <2>2 DEF PassesBy, PageAnswer
  <2> QED BY <1>0, <2>1, <2>2, <2>3 DEF PageQuiet, CmdQuiet, PassesBy
<1>3. CASE MapBoard
  <2>1. UNCHANGED <<handler, at>>
    BY <1>3, ReducerQuiet DEF MapBoard, SendInReq, SendKey, mapHostUnchanged
  <2>2. /\ \/ requests' = requests
           \/ /\ requests # << >> /\ Head(requests).kind \in {"sendKey", "finalize"}
              /\ requests' = Tail(requests)
        /\ \/ indications' = indications
           \/ \E w : /\ w.kind \in {"requestWords", "mrDone", "sendKey"}
                     /\ indications' = Append(indications, w)
    <3>1. CASE ReducerRules
      BY <3>1, ReducerQuiet
    <3>2. CASE SendInReq
      BY <3>2 DEF SendInReq, Indicate
    <3>3. CASE SendKey
      BY <3>3 DEF SendKey, Receive
    <3> QED BY <1>3, <3>1, <3>2, <3>3 DEF MapBoard
  <2>3. /\ PassesBy(indications, indications', PageAnswer)
        /\ PassesBy(indications, indications', {"reqFlashCmd"})
        /\ PassesBy(requests, requests', {"page"}) /\ PassesBy(requests, requests', {"flash"})
    BY <2>2 DEF PassesBy, PageAnswer
  <2> QED BY <1>0, <2>1, <2>3 DEF PageQuiet, CmdQuiet
<1> QED BY <1>1, <1>2, <1>3

\* Keys are counted in natural numbers.
LEMMA KeysType ==
  ASSUME PageInv
  PROVE  /\ Count(requests, "sendKey") \in Nat /\ Count(indications, "requestWords") \in Nat
         /\ Grant \in Nat
BY CountsType, GrantAssumption DEF PageInv

\* The main thread sends a key and counts it off in two more steps.
LEMMA SendMapDataKeeps == ASSUME ScriptInv, PageInv, KeyInv, DoSendMapData PROVE KeyInv'
<1>0. /\ handler' = handler /\ curInRequested' = curInRequested
      /\ WordsDue' = WordsDue /\ KeysGranted' = KeysGranted
  BY DEF DoSendMapData, WordsDue, KeysGranted
<1>t. /\ Count(requests, "sendKey") \in Nat /\ KeysGranted \in Nat /\ WordsDue \in Nat
  BY KeysType DEF WordsDue, KeysGranted
<1>1. CASE at = "start"
  <2> DEFINE w == [kind |-> "sendKey", key |-> Step.key]
  <2>1. requests' = Append(requests, w)
    BY <1>1 DEF DoSendMapData, Request
  <2>2. /\ curRequestedIn > 0 /\ curRequestedIn' = curRequestedIn
        /\ loaded' = loaded /\ raced' = raced /\ KeyDue = 0 /\ KeyDue' = 1
    BY <1>1 DEF DoSendMapData, KeyDue
  <2>3. IsPut(requests, w, requests')
    BY <2>1, Puts DEF PageInv
  <2>4. Count(requests', "sendKey") = Count(requests, "sendKey") + 1
    BY <2>3 DEF IsPut
  <2> QED BY <1>0, <1>t, <2>2, <2>4 DEF KeyInv
<1>2. CASE at = "load"
  <2>1. /\ loaded' = curRequestedIn /\ curRequestedIn' = curRequestedIn
        /\ raced' = raced /\ KeyDue' = KeyDue
        /\ Count(requests, "sendKey")' = Count(requests, "sendKey")
    BY <1>2 DEF DoSendMapData, KeyDue
  <2> QED BY <1>0, <1>t, <2>1 DEF KeyInv
<1>3. CASE at = "store"
  <2>1. /\ curRequestedIn' = loaded - 1 /\ loaded' = loaded
        /\ raced' = (raced \/ curRequestedIn # loaded)
        /\ KeyDue = 1 /\ KeyDue' = 0
        /\ Count(requests, "sendKey")' = Count(requests, "sendKey")
    BY <1>3 DEF DoSendMapData, KeyDue
  <2>2. raced' \in BOOLEAN /\ (~raced' => ~raced /\ curRequestedIn = loaded)
    BY <2>1 DEF KeyInv
  <2> QED BY <1>0, <1>t, <2>1, <2>2 DEF KeyInv
<1> QED BY <1>1, <1>2, <1>3 DEF DoSendMapData

\* The portal thread counts a grant in two steps.
LEMMA RequestWordsKeeps == ASSUME PageInv, KeyInv, RequestWords PROVE KeyInv'
<1>0. /\ curInRequested' = curInRequested /\ loaded' = loaded /\ KeyDue' = KeyDue
      /\ Count(requests, "sendKey")' = Count(requests, "sendKey")
  BY DEF RequestWords, KeyDue
<1>t. Count(requests, "sendKey") \in Nat /\ KeyDue \in Nat /\ Grant \in Nat
  BY KeysType DEF KeyDue
<1>1. CASE Handle("requestWords")
  <2>1. /\ indications # << >> /\ Head(indications).kind = "requestWords"
        /\ indications' = Tail(indications)
    BY <1>1 DEF Handle
  <2>2. /\ handler'.arg = curRequestedIn /\ WordsDue = 0 /\ WordsDue' = Grant
        /\ curRequestedIn' = curRequestedIn /\ raced' = raced
    BY <1>1 DEF RequestWords, Handle, WordsDue
  <2>3. IsTaken(indications, Head(indications), indications')
    BY <2>1, Takes DEF PageInv
  <2>4. /\ Count(indications, "requestWords") = Count(indications', "requestWords") + 1
        /\ Count(indications', "requestWords") \in Nat
    BY <2>1, <2>3, CountsType DEF IsTaken
  <2>5. KeysGranted = KeysGranted' + Grant /\ KeysGranted' \in Nat
    BY <2>4, KeysType DEF KeysGranted
  <2> QED BY <1>0, <1>t, <2>2, <2>5 DEF KeyInv
<1>2. CASE ~Handle("requestWords")
  <2>1. /\ handler.pc = "requestWords" /\ handler'.pc = "idle"
        /\ curRequestedIn' = handler.arg + Grant
        /\ raced' = (raced \/ curRequestedIn # handler.arg)
        /\ KeysGranted' = KeysGranted /\ WordsDue = Grant /\ WordsDue' = 0
    BY <1>2 DEF RequestWords, Idle, KeysGranted, WordsDue
  <2>2. raced' \in BOOLEAN /\ (~raced' => ~raced /\ curRequestedIn = handler.arg)
    BY <2>1 DEF KeyInv
  <2>3. KeysGranted \in Nat
    BY KeysType DEF KeysGranted
  <2> QED BY <1>0, <1>t, <2>1, <2>2, <2>3 DEF KeyInv
<1> QED BY <1>1, <1>2

\* The board asks for keys.
LEMMA SendInReqKeeps == ASSUME PageInv, KeyInv, SendInReq PROVE KeyInv'
<1> DEFINE w == [kind |-> "requestWords"]
<1>1. indications' = Append(indications, w) /\ curInRequested' = curInRequested + Grant
  BY DEF SendInReq, Indicate
<1>2. /\ curRequestedIn' = curRequestedIn /\ loaded' = loaded /\ raced' = raced
      /\ handler' = handler /\ KeyDue' = KeyDue /\ WordsDue' = WordsDue
      /\ Count(requests, "sendKey")' = Count(requests, "sendKey")
  BY DEF SendInReq, mapHostUnchanged, KeyDue, WordsDue
<1>3. IsPut(indications, w, indications')
  BY <1>1, Puts DEF PageInv
<1>4. Count(indications', "requestWords") = Count(indications, "requestWords") + 1
  BY <1>3 DEF IsPut
<1>5. KeysGranted' = KeysGranted + Grant /\ KeysGranted \in Nat
  BY <1>4, KeysType DEF KeysGranted
<1>6. curInRequested' = curInRequested + Grant
  BY <1>1
<1>7. /\ Count(requests, "sendKey") \in Nat /\ Grant \in Nat
      /\ KeyDue \in Nat /\ WordsDue \in Nat
  BY KeysType DEF KeyDue, WordsDue
<1> QED BY <1>2, <1>5, <1>6, <1>7 DEF KeyInv

\* The board takes a key, which it has asked for unless an update was lost.
LEMMA SendKeyKeeps == ASSUME PageInv, KeyInv, SendKey PROVE KeyInv'
<1>1. /\ requests # << >> /\ Head(requests).kind = "sendKey" /\ requests' = Tail(requests)
      /\ curInRequested' = IF curInRequested > 0 THEN curInRequested - 1 ELSE 0
  BY DEF SendKey, Receive
<1>2. /\ curRequestedIn' = curRequestedIn /\ loaded' = loaded /\ raced' = raced
      /\ handler' = handler /\ KeyDue' = KeyDue /\ WordsDue' = WordsDue
      /\ KeysGranted' = KeysGranted
  BY DEF SendKey, mapHostUnchanged, KeyDue, WordsDue, KeysGranted
<1>3. IsTaken(requests, Head(requests), requests')
  BY <1>1, Takes DEF PageInv
<1>4. /\ Count(requests, "sendKey") = Count(requests', "sendKey") + 1
      /\ Count(requests', "sendKey") \in Nat
  BY <1>1, <1>3, CountsType DEF IsTaken
<1>5. curInRequested' = IF curInRequested > 0 THEN curInRequested - 1 ELSE 0
  BY <1>1
<1>6. KeysGranted \in Nat /\ KeyDue \in Nat /\ WordsDue \in Nat
  BY KeysType DEF KeyDue, WordsDue, KeysGranted
<1>7. raced \/ curInRequested > 0
  BY <1>4, <1>6 DEF KeyInv
<1> QED BY <1>2, <1>4, <1>5, <1>6, <1>7 DEF KeyInv

\* Every step of the map-reduce program keeps what is said of keys.
LEMMA KeysKeep ==
  ASSUME ScriptInv, PageInv, KeyInv, MapMain \/ MapPortal \/ MapBoard
  PROVE  KeyInv'
<1>1. CASE DoReset
  <2>1. /\ UNCHANGED <<at, requests, indications, handler, loaded, curInRequested>>
        /\ raced' = (raced \/ curRequestedIn # 0) /\ curRequestedIn' = 0
        /\ script # << >> /\ Head(script).do = "reset"
    BY <1>1 DEF DoReset, Doing
  <2>2. at \notin {"load", "store"}
    BY <2>1 DEF ScriptInv, Doing
  <2>3. raced' \in BOOLEAN /\ (~raced' => ~raced /\ curRequestedIn = 0)
    BY <2>1 DEF KeyInv, KeyDue, WordsDue, KeysGranted
  <2> QED BY <2>1, <2>2, <2>3 DEF KeyInv, KeyDue, WordsDue, KeysGranted
<1>2. CASE DoSendMapData
  BY <1>2, SendMapDataKeeps
<1>3. CASE DoAwaitMrDone
  BY <1>3 DEF DoAwaitMrDone, mapVars, KeyInv, KeyDue, WordsDue, KeysGranted
<1>4. CASE RequestWords
  BY <1>4, RequestWordsKeeps
<1>5. CASE MrDone
  <2>1. KeyQuiet
    BY <1>5 DEF MrDone, Handle, KeyQuiet, PassesBy, KeyInv, KeyDue, WordsDue, KeysGranted
  <2> QED BY <2>1, KeyQuietKeeps
<1>6. CASE SendInReq
  BY <1>6, SendInReqKeeps
<1>7. CASE SendKey
  BY <1>7, SendKeyKeeps
<1>8. CASE ReducerRules
  <2>1. /\ UNCHANGED <<at, handler, raced, curRequestedIn, loaded, curInRequested>>
        /\ PassesBy(requests, requests', {"sendKey"})
        /\ PassesBy(indications, indications', {"requestWords"})
    BY <1>8, ReducerQuiet DEF PassesBy
  <2>2. KeyQuiet
    BY <2>1 DEF KeyQuiet, KeyInv, KeyDue, WordsDue, KeysGranted
  <2> QED BY <2>2, KeyQuietKeeps
<1>9. CASE SendKeyIndication
  <2>1. KeyQuiet
    BY <1>9 DEF SendKeyIndication, mapVars, Handle, KeyQuiet, PassesBy, KeyInv, KeyDue,
                WordsDue, KeysGranted
  <2> QED BY <2>1, KeyQuietKeeps
<1> QED BY <1>1, <1>2, <1>3, <1>4, <1>5, <1>6, <1>7, <1>8, <1>9 DEF MapMain, MapPortal, MapBoard
-----------------------------------------------------------------------------
(* The commands of the page interface. *)

\* It has nothing to do with tags and keys.
LEMMA InterfaceQuiet ==
  ASSUME InterfaceMain \/ InterfacePortal \/ InterfaceBoard, UNCHANGED <<pageVars, mapVars>>,
         ScriptInv, KeyInv
  PROVE  PageQuiet /\ KeyQuiet
<1>0. /\ UNCHANGED <<program, readTagStatus, pageBoardVars>>
      /\ UNCHANGED <<curInRequested, curRequestedIn, loaded>>
      /\ handler' = handler /\ raced' \in BOOLEAN /\ (raced => raced')
  <2>1. UNCHANGED <<readTagStatus, pageBoardVars, curInRequested, curRequestedIn, loaded>>
    BY DEF pageVars, pageHostVars, mapVars
  <2>2. UNCHANGED <<program, handler>> /\ (raced' = raced \/ raced' = (raced \/ at = "beforeWait"))
    BY DEF InterfaceMain, DoFill, DoWaitIdleBuffer, DoIssue, DoDrain, InterfacePortal,
           FlashDone, ReqFlashCmd, HexDump, InterfaceBoard, StartFlash, DriveNewReqs, TakeCmd,
           DriveFlashCmd, DmaWriteDoneCheck, FlushDmaWriteDone, DriveDmaReadDone,
           interfaceHostUnchanged
  <2> QED BY <2>1, <2>2 DEF KeyInv, KeyDue, WordsDue, KeysGranted
<1>1. CASE InterfaceMain
  <2>1. UNCHANGED indications
    BY <1>1 DEF InterfaceMain, DoFill, DoWaitIdleBuffer, DoIssue, DoDrain
  <2>2. \/ requests' = requests
        \/ \E o, b : requests' = Append(requests, [kind |-> "flash", op |-> o, buf |-> b])
    BY <1>1 DEF InterfaceMain, DoFill, DoWaitIdleBuffer, DoIssue, DoDrain, Request
  <2>3. PassesBy(requests, requests', {"page"}) /\ PassesBy(requests, requests', {"sendKey"})
    BY <2>2 DEF PassesBy
  <2>4. CASE DoFill
    <3>1. /\ at' = at \/ at' = "crashed"
          /\ at \notin {"load", "store"}
      BY <2>4 DEF DoFill, ScriptInv, Doing
    <3> QED BY <1>0, <2>1, <2>3, <3>1 DEF PageQuiet, KeyQuiet, PassesBy
  <2>5. CASE DoWaitIdleBuffer \/ DoIssue \/ DoDrain
    <3>1. at' = at \/ {at, at'} \subseteq {"start", "beforeWait", "asleep", "count", "send"}
      BY <2>5 DEF DoWaitIdleBuffer, DoIssue, DoDrain
    <3> QED BY <1>0, <2>1, <2>3, <3>1 DEF PageQuiet, KeyQuiet, PassesBy
  <2> QED BY <1>1, <2>4, <2>5 DEF InterfaceMain
<1>2. CASE InterfacePortal
  <2>1. UNCHANGED requests /\ (at' = at \/ {at, at'} \subseteq {"start", "asleep"})
    BY <1>2 DEF InterfacePortal, FlashDone, ReqFlashCmd, HexDump
  <2>2. /\ indications # << >>
        /\ Head(indications).kind \in {"flashDone", "reqFlashCmd", "hexDump"}
        /\ indications' = Tail(indications)
    BY <1>2 DEF InterfacePortal, FlashDone, ReqFlashCmd, HexDump, Handle
  <2>3. /\ PassesBy(indications, indications', PageAnswer)
        /\ PassesBy(indications, indications', {"requestWords"})
    BY <2>2 DEF PassesBy, PageAnswer
  <2> QED BY <1>0, <2>1, <2>3 DEF PageQuiet, KeyQuiet, PassesBy
<1>3. CASE InterfaceBoard
  <2>1. UNCHANGED at
    BY <1>3 DEF InterfaceBoard, StartFlash, DriveNewReqs, TakeCmd, DriveFlashCmd,
                DmaWriteDoneCheck, FlushDmaWriteDone, DriveDmaReadDone, interfaceHostUnchanged
  <2>2. \/ requests' = requests
        \/ /\ requests # << >> /\ Head(requests).kind \in {"startFlash", "flash"}
           /\ requests' = Tail(requests)
    BY <1>3 DEF InterfaceBoard, StartFlash, DriveNewReqs, TakeCmd, DriveFlashCmd,
                DmaWriteDoneCheck, FlushDmaWriteDone, DriveDmaReadDone, Receive
  <2>3. \/ indications' = indications
        \/ \E k \in {"reqFlashCmd", "hexDump"} : indications' = Append(indications, [kind |-> k])
        \/ \E o, b : indications' = Append(indications, [kind |-> "flashDone", op |-> o, buf |-> b])
    BY <1>3 DEF InterfaceBoard, StartFlash, DriveNewReqs, TakeCmd, DriveFlashCmd,
                DmaWriteDoneCheck, FlushDmaWriteDone, DriveDmaReadDone, Told, Indicate
  <2>4. PassesBy(requests, requests', {"page"}) /\ PassesBy(requests, requests', {"sendKey"})
    BY <2>2 DEF PassesBy
  <2>5. /\ PassesBy(indications, indications', PageAnswer)
        /\ PassesBy(indications, indications', {"requestWords"})
    BY <2>3 DEF PassesBy, PageAnswer
  <2> QED BY <1>0, <2>1, <2>4, <2>5 DEF PageQuiet, KeyQuiet
<1> QED BY <1>1, <1>2, <1>3

\* Commands are counted in natural numbers.
LEMMA CmdsType ==
  ASSUME PageInv
  PROVE  /\ Count(requests, "flash") \in Nat /\ Count(indications, "reqFlashCmd") \in Nat
         /\ CmdGrant \in Nat
BY CountsType, InterfaceAssumption DEF PageInv

\* The main thread spends a unit of its budget and sends the command later.
LEMMA IssueKeeps == ASSUME PageInv, CmdInv, DoIssue PROVE CmdInv'
<1>0. UNCHANGED <<indications, numReqsRequested, flashCmdQ>> /\ Queue(flashCmdQ')
  BY DEF DoIssue, interfaceBoardUnchanged, CmdInv, Queue
<1>1. CASE at \in {"start", "count"}
  <2>1. /\ requests' = requests
        /\ \/ at = "start" /\ at' = "count" /\ curCmdCountBudget' = curCmdCountBudget - 1
           \/ at = "count" /\ at' = "send" /\ UNCHANGED curCmdCountBudget
    BY <1>1 DEF DoIssue
  <2> QED BY <1>0, <1>1, <2>1, CmdsType DEF CmdInv, CmdDue, CmdsGranted
<1>2. CASE at = "send"
  <2> DEFINE w == [kind |-> "flash", op |-> Step.op, buf |-> bufidx]
  <2>1. requests' = Append(requests, w) /\ at' = "start" /\ UNCHANGED curCmdCountBudget
    BY <1>2 DEF DoIssue, Request
  <2>2. IsPut(requests, w, requests')
    BY <2>1, Puts DEF PageInv
  <2>3. Count(requests', "flash") = Count(requests, "flash") + 1
    BY <2>2 DEF IsPut
  <2> QED BY <1>0, <1>2, <2>1, <2>3, CmdsType DEF CmdInv, CmdDue, CmdsGranted
<1> QED BY <1>1, <1>2 DEF DoIssue

\* A grant arrives.
LEMMA ReqFlashCmdKeeps == ASSUME PageInv, CmdInv, ReqFlashCmd PROVE CmdInv'
<1>1. /\ indications # << >> /\ Head(indications).kind = "reqFlashCmd"
      /\ indications' = Tail(indications)
  BY DEF ReqFlashCmd, Handle
<1>2. /\ curCmdCountBudget' = curCmdCountBudget + CmdGrant
      /\ numReqsRequested' = numReqsRequested /\ CmdDue' = CmdDue
      /\ flashCmdQ' = flashCmdQ /\ Queue(flashCmdQ')
      /\ Count(requests, "flash")' = Count(requests, "flash")
  BY DEF ReqFlashCmd, interfaceBoardUnchanged, CmdDue, CmdInv, Queue
<1>3. IsTaken(indications, Head(indications), indications')
  BY <1>1, Takes DEF PageInv
<1>4. /\ Count(indications, "reqFlashCmd") = Count(indications', "reqFlashCmd") + 1
      /\ Count(indications', "reqFlashCmd") \in Nat
  BY <1>1, <1>3, CountsType DEF IsTaken
<1>5. CmdsGranted = CmdsGranted' + CmdGrant /\ CmdsGranted' \in Nat
  BY <1>4, CmdsType DEF CmdsGranted
<1>6. Count(requests, "flash") \in Nat /\ CmdGrant \in Nat /\ CmdDue \in Nat
  BY CmdsType DEF CmdDue
<1> QED BY <1>2, <1>5, <1>6 DEF CmdInv

\* The board grants commands.
LEMMA DriveNewReqsKeeps == ASSUME PageInv, CmdInv, DriveNewReqs PROVE CmdInv'
<1> DEFINE w == [kind |-> "reqFlashCmd"]
<1>1. indications' = Append(indications, w)
  BY DEF DriveNewReqs, Indicate
<1>2. /\ numReqsRequested' = numReqsRequested + CmdGrant
      /\ curCmdCountBudget' = curCmdCountBudget /\ CmdDue' = CmdDue
      /\ Len(flashCmdQ) + numReqsRequested < CmdLevel
      /\ flashCmdQ' = flashCmdQ /\ Queue(flashCmdQ')
      /\ Count(requests, "flash")' = Count(requests, "flash")
  BY DEF DriveNewReqs, interfaceHostUnchanged, CmdDue, CmdInv, Queue
<1>3. IsPut(indications, w, indications')
  BY <1>1, Puts DEF PageInv
<1>4. Count(indications', "reqFlashCmd") = Count(indications, "reqFlashCmd") + 1
  BY <1>3 DEF IsPut
<1>5. CmdsGranted' = CmdsGranted + CmdGrant /\ CmdsGranted \in Nat
  BY <1>4, CmdsType DEF CmdsGranted
<1>6. Count(requests, "flash") \in Nat /\ CmdGrant \in Nat /\ CmdDue \in Nat
  BY CmdsType DEF CmdDue
<1>7. Len(flashCmdQ) \in Nat /\ {CmdLevel, CmdQSize} \subseteq Nat
      /\ CmdLevel + CmdGrant =< CmdQSize
  BY InterfaceAssumption DEF CmdInv, Queue
<1>8. /\ curCmdCountBudget \in Int /\ numReqsRequested \in Int
      /\ numReqsRequested = CmdsGranted + curCmdCountBudget + CmdDue + Count(requests, "flash")
  BY DEF CmdInv
<1>9. /\ curCmdCountBudget' \in Int /\ numReqsRequested' \in Int
      /\ numReqsRequested' =
           CmdsGranted' + curCmdCountBudget' + CmdDue' + Count(requests, "flash")'
  BY <1>2, <1>5, <1>6, <1>8
<1>10. numReqsRequested' + Len(flashCmdQ') =< CmdQSize
  BY <1>2, <1>6, <1>7, <1>8
<1> QED BY <1>2, <1>9, <1>10 DEF CmdInv

\* The board takes a command, of which it waits for one less.
LEMMA TakeCmdKeeps == ASSUME PageInv, CmdInv, TakeCmd PROVE CmdInv'
<1>1. requests # << >> /\ Head(requests).kind = "flash" /\ requests' = Tail(requests)
  BY DEF TakeCmd, Receive
<1>2. /\ numReqsRequested' = numReqsRequested - 1
      /\ curCmdCountBudget' = curCmdCountBudget /\ CmdDue' = CmdDue
      /\ CmdsGranted' = CmdsGranted
  BY DEF TakeCmd, interfaceHostUnchanged, CmdDue, CmdsGranted
<1>3. IsTaken(requests, Head(requests), requests')
  BY <1>1, Takes DEF PageInv
<1>4. /\ Count(requests, "flash") = Count(requests', "flash") + 1
      /\ Count(requests', "flash") \in Nat
  BY <1>1, <1>3, CountsType DEF IsTaken
<1>5. CmdsGranted \in Nat /\ CmdDue \in Nat
  BY CmdsType DEF CmdDue, CmdsGranted
<1> DEFINE c == [op |-> Head(requests).op, buf |-> Head(requests).buf]
<1>6. flashCmdQ' = Append(flashCmdQ, c)
  BY DEF TakeCmd
<1> HIDE DEF c
<1>7. Queue(flashCmdQ') /\ Len(flashCmdQ') = Len(flashCmdQ) + 1 /\ Len(flashCmdQ) \in Nat
  <2>1. IsPut(flashCmdQ, c, flashCmdQ')
    BY <1>6, Puts DEF CmdInv
  <2> QED BY <1>6, <2>1, LenOfQueue DEF IsPut, CmdInv
<1>8. CmdQSize \in Nat
  BY InterfaceAssumption
<1> QED BY <1>2, <1>4, <1>5, <1>7, <1>8 DEF CmdInv

\* Every step of the page interface keeps what is said of commands.
LEMMA CmdsKeep ==
  ASSUME ScriptInv, PageInv, CmdInv, InterfaceMain \/ InterfacePortal \/ InterfaceBoard
  PROVE  CmdInv'
<1>1. CASE DoWaitIdleBuffer
  <2>1. /\ UNCHANGED <<requests, indications, curCmdCountBudget, numReqsRequested, flashCmdQ>>
        /\ at' = at \/ {at, at'} \subseteq {"start", "beforeWait", "asleep"}
    BY <1>1 DEF DoWaitIdleBuffer, interfaceBoardUnchanged
  <2>2. CmdQuiet
    BY <2>1 DEF CmdQuiet, PassesBy
  <2> QED BY <2>2, CmdQuietKeeps
<1>2. CASE DoIssue
  BY <1>2, IssueKeeps
<1>3. CASE DoFill \/ DoDrain \/ HexDump
  <2>1. /\ UNCHANGED <<requests, interfaceVars>>
        /\ at' = at \/ (DoFill /\ at' = "crashed")
        /\ \/ indications' = indications
           \/ /\ indications # << >> /\ Head(indications).kind = "hexDump"
              /\ indications' = Tail(indications)
    BY <1>3 DEF DoFill, DoDrain, HexDump, Handle
  <2>2. DoFill => at \notin {"count", "send"}
    BY DEF DoFill, ScriptInv, Doing
  <2>3. CmdQuiet
    BY <2>1, <2>2 DEF interfaceVars, CmdQuiet, PassesBy
  <2> QED BY <2>3, CmdQuietKeeps
<1>4. CASE FlashDone
  <2>1. /\ indications # << >> /\ Head(indications).kind = "flashDone"
        /\ indications' = Tail(indications)
        /\ at' = at \/ {at, at'} \subseteq {"start", "asleep"}
        /\ UNCHANGED <<requests, curCmdCountBudget, numReqsRequested, flashCmdQ>>
    BY <1>4 DEF FlashDone, Handle, interfaceBoardUnchanged
  <2>2. CmdQuiet
    BY <2>1 DEF CmdQuiet, PassesBy
  <2> QED BY <2>2, CmdQuietKeeps
<1>5. CASE ReqFlashCmd
  BY <1>5, ReqFlashCmdKeeps
<1>6. CASE StartFlash
  <2>1. CmdQuiet
    BY <1>6 DEF StartFlash, Receive, Indicate, interfaceHostUnchanged, CmdQuiet, PassesBy
  <2> QED BY <2>1, CmdQuietKeeps
<1>7. CASE DriveNewReqs
  BY <1>7, DriveNewReqsKeeps
<1>8. CASE TakeCmd
  BY <1>8, TakeCmdKeeps
<1>9. CASE DriveFlashCmd
  <2>1. /\ UNCHANGED <<at, requests, indications, curCmdCountBudget, numReqsRequested>>
        /\ flashCmdQ # << >> /\ flashCmdQ' = Tail(flashCmdQ)
    BY <1>9 DEF DriveFlashCmd, interfaceHostUnchanged
  <2>2. Queue(flashCmdQ') /\ Len(flashCmdQ') = Len(flashCmdQ) - 1 /\ Len(flashCmdQ) \in Nat
    <3>1. IsTaken(flashCmdQ, Head(flashCmdQ), flashCmdQ')
      BY <2>1, Takes DEF CmdInv
    <3> QED BY <2>1, <3>1, LenOfQueue DEF IsTaken, CmdInv
  <2>3. CmdQSize \in Nat
    BY InterfaceAssumption
  <2> QED BY <2>1, <2>2, <2>3 DEF CmdInv, CmdDue, CmdsGranted
<1>10. CASE DmaWriteDoneCheck \/ FlushDmaWriteDone \/ DriveDmaReadDone
  <2>1. /\ \/ indications' = indications
           \/ \E o, b : indications' = Append(indications, [kind |-> "flashDone", op |-> o, buf |-> b])
        /\ UNCHANGED <<at, requests, curCmdCountBudget, numReqsRequested, flashCmdQ>>
    BY <1>10 DEF DmaWriteDoneCheck, FlushDmaWriteDone, DriveDmaReadDone, Told, Indicate,
                 interfaceHostUnchanged
  <2>2. CmdQuiet
    BY <2>1 DEF CmdQuiet, PassesBy
  <2> QED BY <2>2, CmdQuietKeeps
<1> QED BY <1>1, <1>2, <1>3, <1>4, <1>5, <1>6, <1>7, <1>8, <1>9, <1>10
        DEF InterfaceMain, InterfacePortal, InterfaceBoard

-----------------------------------------------------------------------------
(* Any program. *)

\* A step of one of the programs leaves the others' variables alone.
LEMMA NextHosts == HostsInv /\ [Next]_vars => HostsInv'
<1> SUFFICES ASSUME ScriptInv, PageInv, CmdInv, KeyInv, [Next]_vars
             PROVE  PageInv' /\ CmdInv' /\ KeyInv'
  BY NextScript DEF HostsInv
<1>1. CASE /\ TestsMain \/ TestsPortal \/ TestsBoard \/ SearchStep
           /\ UNCHANGED <<pageVars, mapVars, interfaceVars>>
  <2>1. TestQuiet
    BY <1>1, TestsMainQuiet, TestsPortalQuiet, TestsBoardQuiet, SearchQuiet
  <2> QED BY <2>1, TestQuietKeeps
<1>2. CASE (PageMain \/ PagePortal \/ PageBoard) /\ UNCHANGED <<mapVars, interfaceVars>>
  <2>1. CmdQuiet /\ KeyQuiet
    BY <1>2, PagesQuiet
  <2>2. PageInv'
    BY <1>2, PagesKeep
  <2> QED BY <2>1, <2>2, CmdQuietKeeps, KeyQuietKeeps
<1>3. CASE (MapMain \/ MapPortal \/ MapBoard) /\ UNCHANGED <<pageVars, interfaceVars>>
  <2>1. PageQuiet /\ CmdQuiet
    BY <1>3, MapQuiet
  <2>2. KeyInv'
    BY <1>3, KeysKeep
  <2> QED BY <2>1, <2>2, CmdQuietKeeps, PageQuietKeeps
<1>4. CASE /\ InterfaceMain \/ InterfacePortal \/ InterfaceBoard
           /\ UNCHANGED <<pageVars, mapVars>>
  <2>1. PageQuiet /\ KeyQuiet
    BY <1>4, InterfaceQuiet
  <2>2. CmdInv'
    BY <1>4, CmdsKeep
  <2> QED BY <2>1, <2>2, PageQuietKeeps, KeyQuietKeeps
<1>5. CASE UNCHANGED vars
  <2>1. TestQuiet
    BY <1>5 DEF vars, keyVars, portalVars, TestQuiet, PassesBy
  <2> QED BY <2>1, TestQuietKeeps
<1> QED BY <1>1, <1>2, <1>3, <1>4, <1>5 DEF Next, Main, PortalThread, Board, keyVars

\* HostsInv is an invariant of every program with its board.
LEMMA HostsAlways == Spec => []HostsInv
BY InitHosts, NextHosts, PTL DEF Spec

\* Whatever the programs, the size of the tag table and the order in which the
\* board finishes pages, a tag is marked in readTagStatus exactly as long as one
\* page uses it, so that no two pages share the buffer of a tag.
THEOREM TagsHaveOneUser == Spec => []PageTagsExclusive
<1>1. HostsInv => PageTagsExclusive
  BY DEF HostsInv, PageInv
<1> QED BY <1>1, HostsAlways, PTL

\* Whatever the sizes of the grants, what a board has granted and not received is
\* what the host may still send, has sent or will learn of.
THEOREM GrantsAlwaysExact == Spec => []GrantsExact
<1>1. HostsInv => GrantsExact
  BY GrantsAre DEF HostsInv
<1> QED BY <1>1, HostsAlways, PTL

\* When a grant at the level where the last is given out fits in flashCmdQ, every
\* command that is granted, asked for or under way does: readPage and writePage of
\* the board never find the queue full.
THEOREM CommandsHaveRoom == Spec => []CmdQueueHasRoom
<1>1. HostsInv => CmdQueueHasRoom
  BY RoomIs DEF HostsInv
<1> QED BY <1>1, HostsAlways, PTL
=============================================================================
