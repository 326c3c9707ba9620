----------------------------- MODULE StringSearch -----------------------------
(***************************************************************************)
(* The string search accelerator of flash_strstr_raw (StrstrBDBM): setup   *)
(* and search requests become tuples that are dealt out to the engines; an *)
(* engine (MPEngineBDBM) loads the needle and the table of the             *)
(* Morris-Pratt algorithm, then compares its chunk of the haystack byte by *)
(* byte.  Chunks overlap by the length of the needle.  An engine asks its  *)
(* memories for the needle's next byte ahead of the answer of the last     *)
(* comparison, and tells by an epoch which answers have become useless.    *)
(***************************************************************************)
EXTENDS Portal, Integers

CONSTANTS
  NumMpEngines,
  SetupFirst     \* which of the rules that write setsearchFIFO wins a cycle

\* The source does not order the rules of setupFSM and startFSM, which conflict:
\* the compiler makes those of either more urgent.
ASSUME EnginesAssumption == NumMpEngines \in Nat \ {0} /\ SetupFirst \in BOOLEAN

Engine == 0 .. (NumMpEngines - 1)

VARIABLES
  setupCnt,   \* setup tuples sent by setupFSM; NumMpEngines when it is idle
  startCnt,   \* search tuples sent by startFSM; NumMpEngines when it is idle
  setsearch,  \* setsearchFIFO
  turn,       \* the engine the next tuple goes to
  engine,     \* the engines' registers and queues
  doneCnt     \* engines whose search has ended

searchVars == <<setupCnt, startCnt, setsearch, turn, engine, doneCnt>>

\* mkFIFOF and efifo hold two elements, conff one.
QueueDepth == 2

\* The result that says that an engine is done, or that all of them are.
Done == -1

\* A C array: its first element has index 0.
CharAt(x, k) == x[k + 1]

\* compute_MP_next, for the entries that the engines load.
ComputeMpNext(x) ==
  LET next[i \in 1 .. Len(x)] ==
        IF i = 1 THEN 0
        ELSE LET fall[j \in 0 .. (i - 1)] ==
                   IF j = 0 \/ CharAt(x, i - 1) = CharAt(x, j) THEN j ELSE fall[next[j]]
             IN  1 + fall[next[i - 1]]
  IN  next

\* MP of mp.h: where it says that x occurs in t.  Each step reads the next byte.
MP(x, t) ==
  LET m    == Len(x)
      next == ComputeMpNext(x)
      run[j \in 0 .. Len(t)] ==
        IF j = 0 THEN [i |-> 1, hits |-> {}]
        ELSE LET back[i \in 0 .. m] ==
                   IF i > 0 /\ CharAt(x, i - 1) # CharAt(t, j - 1) THEN back[next[i]] ELSE i
                 k == back[run[j - 1].i] + 1
             IN  IF k = m + 1
                   THEN [i |-> 1, hits |-> run[j - 1].hits \cup {j - m}]
                   ELSE [i |-> k, hits |-> run[j - 1].hits]
  IN  run[Len(t)].hits

SearchInit ==
  /\ setupCnt = NumMpEngines /\ startCnt = NumMpEngines
  /\ setsearch = <<>> /\ turn = 0 /\ doneCnt = 0
  /\ engine = [e \in Engine |->
       [stage |-> "Config_needle", ssfifo |-> <<>>, conff |-> <<>>, efifo |-> <<>>,
        locf |-> <<>>, len |-> 0, base |-> 0, i |-> 0, j |-> 0, epoch |-> 0]]
-----------------------------------------------------------------------------
(* StrstrBDBM *)

Setup ==
  /\ Receive("setup") /\ setupCnt = NumMpEngines
  /\ setupCnt' = 0
  /\ UNCHANGED <<program, script, at, indications, handler, raced, misprinted,
                 startCnt, setsearch, turn, engine, doneCnt>>

Search ==
  /\ Receive("search") /\ startCnt = NumMpEngines
  /\ startCnt' = 0
  /\ UNCHANGED <<program, script, at, indications, handler, raced, misprinted,
                 setupCnt, setsearch, turn, engine, doneCnt>>

\* A state machine that is not idle is ready whenever the FIFO is: the less urgent
\* one waits for it.
SetupStmt ==
  /\ setupCnt < NumMpEngines /\ Len(setsearch) < QueueDepth
  /\ SetupFirst \/ startCnt = NumMpEngines
  /\ setsearch' = Append(setsearch, [kind |-> "setup", len |-> 0, base |-> 0])
  /\ setupCnt' = setupCnt + 1
  /\ UNCHANGED <<portalVars, startCnt, turn, engine, doneCnt>>

ChunkSize == Len(program.haystack) \div NumMpEngines

\* Mutant: chunks do not overlap.
ChunkLen_NoOverlap(k) == ChunkSize

\* The last chunk ends with the haystack, the others overlap the next one.
ChunkLen(k) ==
  IF k < NumMpEngines - 1 THEN ChunkSize + Len(program.needle) ELSE ChunkSize

StartStmt ==
  /\ startCnt < NumMpEngines /\ Len(setsearch) < QueueDepth
  /\ SetupFirst => setupCnt = NumMpEngines
  /\ setsearch' = Append(setsearch,
       [kind |-> "search", len |-> ChunkLen(startCnt), base |-> startCnt * ChunkSize])
  /\ startCnt' = startCnt + 1
  /\ UNCHANGED <<portalVars, setupCnt, turn, engine, doneCnt>>

\* setsearchPipeUnFunnel deals the tuples out in turn.
Dispatch ==
  /\ setsearch # <<>> /\ Len(engine[turn].ssfifo) < QueueDepth
  /\ engine' = [engine EXCEPT ![turn].ssfifo = Append(@, Head(setsearch))]
  /\ setsearch' = Tail(setsearch)
  /\ turn' = (turn + 1) % NumMpEngines
  /\ UNCHANGED <<portalVars, setupCnt, startCnt, doneCnt>>

\* Mutant: the engines that have ended are not counted from 0 again.
Resr_NoReset(e) ==
  /\ engine[e].locf # <<>>
  /\ engine' = [engine EXCEPT ![e].locf = Tail(@)]
  /\ LET v    == Head(engine[e].locf)
         last == doneCnt + 1 = NumMpEngines
     IN  /\ doneCnt' = IF v = Done THEN doneCnt + 1 ELSE doneCnt
         /\ IF v # Done \/ last
              THEN Indicate([kind |-> "searchResult", v |-> v])
              ELSE UNCHANGED indications
  /\ UNCHANGED <<program, script, at, requests, handler, raced, misprinted,
                 setupCnt, startCnt, setsearch, turn>>

\* Results of all engines are sent on; the end only when all have ended.
Resr(e) ==
  /\ engine[e].locf # <<>>
  /\ engine' = [engine EXCEPT ![e].locf = Tail(@)]
  /\ LET v    == Head(engine[e].locf)
         last == doneCnt + 1 = NumMpEngines
     IN  /\ doneCnt' = IF v # Done THEN doneCnt ELSE IF last THEN 0 ELSE doneCnt + 1
         /\ IF v # Done \/ last
              THEN Indicate([kind |-> "searchResult", v |-> v])
              ELSE UNCHANGED indications
  /\ UNCHANGED <<program, script, at, requests, handler, raced, misprinted,
                 setupCnt, startCnt, setsearch, turn>>
-----------------------------------------------------------------------------
(* MPEngineBDBM: one action per rule. *)

engineOnly == UNCHANGED <<portalVars, setupCnt, startCnt, setsearch, turn, doneCnt>>

\* setup_needle and setup_mpNext take the tuple for one of setup, whatever it is;
\* what they load is the program's needle and table.
SetupNeedle(e) ==
  LET E == engine[e] IN
  /\ E.stage = "Config_needle" /\ E.ssfifo # <<>> /\ E.conff = <<>>
  /\ engine' = [engine EXCEPT ![e].conff = <<"needle">>]
  /\ engineOnly

SetupMpNext(e) ==
  LET E == engine[e] IN
  /\ E.stage = "Config_mpNext" /\ E.ssfifo # <<>> /\ E.conff = <<>>
  /\ engine' = [engine EXCEPT ![e].conff = <<"mpNext">>, ![e].ssfifo = Tail(@)]
  /\ engineOnly

\* finish_setup_n2b, finish_setup_mp2b and finish_search: the DMA engine or the
\* flash has delivered everything that was asked for.
Finish(e) ==
  LET E == engine[e] IN
  /\ E.conff # <<>>
  /\ engine' = [engine EXCEPT ![e].conff = <<>>,
       ![e].stage = CASE Head(E.conff) = "needle" -> "Config_mpNext"
                      [] Head(E.conff) = "mpNext" -> "Initialized"
                      [] OTHER -> @]
  /\ engineOnly

\* The haystack gearbox is empty: nothing was asked for before.
StartSearch(e) ==
  LET E == engine[e]
      t == Head(E.ssfifo)
  IN
  /\ E.stage = "Initialized" /\ E.ssfifo # <<>> /\ E.conff = <<>> /\ E.efifo = <<>>
  /\ engine' = [engine EXCEPT ![e] =
       [E EXCEPT !.stage = "Search", !.conff = <<"search">>, !.ssfifo = Tail(@),
                 !.len = t.len, !.base = t.base, !.i = 1, !.j = 1, !.epoch = 0]]
  /\ engineOnly

\* Asks for byte i of the needle and guesses that the next one will be byte 1.
MatchNeedleReq(e) ==
  LET E == engine[e] IN
  /\ E.stage = "Search" /\ Len(E.efifo) < QueueDepth
  /\ engine' = [engine EXCEPT ![e] =
       [E EXCEPT !.efifo = Append(@, [epoch |-> E.epoch, i |-> E.i]), !.i = 1]]
  /\ engineOnly

\* The comparison of byte i of the needle with the haystack's next byte.
Compare(E, i) ==
  LET needle == program.needle
      hv     == program.haystack[E.base + E.j]
      next   == ComputeMpNext(needle)[i]
  IN  IF needle[i] = hv
        THEN [E EXCEPT !.j = @ + 1, !.epoch = (@ + 1) % 4, !.i = i + 1]
        ELSE IF next = 0 THEN [E EXCEPT !.j = @ + 1, !.i = 1]
        ELSE [E EXCEPT !.epoch = (@ + 1) % 4, !.i = next]

\* The end of the chunk is tested before the end of the needle.
MatchNeedleResp(e) ==
  LET E == engine[e]
      r == Head(E.efifo)
      F == [E EXCEPT !.efifo = Tail(@)]
  IN
  /\ E.stage = "Search" /\ E.efifo # <<>>
  /\ \/ /\ r.epoch # E.epoch
        /\ engine' = [engine EXCEPT ![e] = F]
     \/ /\ r.epoch = E.epoch /\ E.j > E.len /\ Len(E.locf) < QueueDepth
        /\ engine' = [engine EXCEPT ![e] =
             [F EXCEPT !.stage = "Config_needle", !.locf = Append(@, Done)]]
     \/ /\ r.epoch = E.epoch /\ E.j =< E.len
        /\ r.i = Len(program.needle) + 1 /\ Len(E.locf) < QueueDepth
        /\ engine' = [engine EXCEPT ![e] =
             [F EXCEPT !.locf = Append(@, E.base + E.j - r.i)]]
     \/ /\ r.epoch = E.epoch /\ E.j =< E.len
        /\ r.i =< Len(program.needle)
        /\ engine' = [engine EXCEPT ![e] = Compare(F, r.i)]
  /\ engineOnly

\* Answers that were asked for ahead are thrown away after the search.
BramDrain(e) ==
  LET E == engine[e] IN
  /\ E.stage # "Search" /\ E.efifo # <<>>
  /\ engine' = [engine EXCEPT ![e].efifo = Tail(@)]
  /\ engineOnly

SearchStep ==
  \/ Setup \/ Search \/ SetupStmt \/ StartStmt \/ Dispatch
  \/ \E e \in Engine :
       \/ SetupNeedle(e) \/ SetupMpNext(e) \/ Finish(e) \/ StartSearch(e)
       \/ MatchNeedleReq(e) \/ MatchNeedleResp(e) \/ BramDrain(e) \/ Resr(e)

Tuple == [kind : {"setup", "search"}, len : Nat, base : Nat]

EngineType ==
  [stage : {"Config_needle", "Config_mpNext", "Initialized", "Search"},
   ssfifo : Seq(Tuple),
   conff : {<<>>, <<"needle">>, <<"mpNext">>, <<"search">>},
   efifo : Seq([epoch : 0 .. 3, i : Nat]), locf : Seq({Done} \cup Nat),
   len : Nat, base : Nat, i : Nat, j : Nat,
   epoch : 0 .. 3]
=============================================================================
