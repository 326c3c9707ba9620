------------------------ MODULE FlashCluster_proofs -------------------------
(***************************************************************************)
(* Proofs about FlashCluster, for any number of nodes, slots, tags and     *)
(* words of a page, and for FIFOs of any depth.  The inductive invariant   *)
(* TagInv says what every queue holds, that the words of a page are        *)
(* counted in the same way by the controller, by the words in locRdInQ and *)
(* by burstCnt, that tagTable has the entry of whatever works under a tag, *)
(* and that a tag has one place and no other.                              *)
(***************************************************************************)
EXTENDS FlashCluster, QueueLemmas

\* What the queues of node n hold.  A command of a host names the slot it is
\* for; so does what leaves a splitter for a host.  Inside the splitter tags
\* are those of the controller, and the table entry read with them is typed.
Op    == {"read", "write", "erase"}
Entry == [src : Node, origTag : Nat]
EntryOf(s) == [src |-> s[1], origTag |-> s[3]]
To(n, S) == {x \in S : x.dst = n}

HostCmd  == {c \in [src : Node, dst : Node, op : Op, tag : Nat, page : Slots] :
               c.page = SlotOf(c.src, c.op, c.tag)}
FlashCmd == {c \in [src : Node, dst : Node, op : Op, tag : Tag, page : Slots] :
               c.page[1] = c.src /\ c.page[2] = c.op}
RdWord   == {w \in [tag : Tag, dst : Node, page : Slots, idx : 0 .. PageWords - 1] :
               w.page[2] = "read"}
HostWord == {w \in [tag : Nat, dst : Node, page : Slots, idx : 0 .. PageWords - 1] :
               w.page = SlotOf(w.dst, "read", w.tag)}
Looked   == [last : BOOLEAN, entry : Entry]
AckIn    == {a \in [tag : Tag, status : {"write", "erase"}, entry : Entry] :
               SlotOf(a.entry.src, a.status, a.entry.origTag) \in Slots}
Ack      == {a \in [tag : Nat, status : {"write", "erase"}, dst : Node] :
               SlotOf(a.dst, a.status, a.tag) \in Slots}
WreqIn   == {r \in [reTag : Tag, entry : Entry] :
               SlotOf(r.entry.src, "write", r.entry.origTag) \in Slots}
Wreq     == {r \in [origTag : Nat, reTag : Tag, src : Node, dst : Node] :
               SlotOf(r.dst, "write", r.origTag) \in Slots}
WrWord   == [tag : Tag, dst : Node, idx : 0 .. PageWords - 1, page : Slots]

Names == SizedQ \cup PlainQ

ItemsOf(n) ==
  [locCmdInQ |-> To(n, HostCmd), locCmdOutQ |-> FlashCmd, remCmdOutQ |-> HostCmd,
   locRdInQ |-> RdWord, locRdInTagQ |-> Tag, lookupQ |-> Looked,
   locRdOutQ |-> To(n, HostWord), remRdInQ |-> To(n, HostWord), remRdOutQ |-> HostWord,
   locAckInQ |-> AckIn, locAckOutQ |-> To(n, Ack), remAckOutQ |-> Ack,
   locWreqInQ |-> WreqIn, locWreqOutQ |-> To(n, Wreq), remWreqOutQ |-> Wreq,
   locWdataInQ |-> WrWord, locWdataOutQ |-> To(n, WrWord), remWdataOutQ |-> WrWord]

\* What a channel of a class to node n holds.
MessagesTo(n) ==
  [cmd |-> To(n, HostCmd), rd |-> To(n, HostWord), wd |-> To(n, WrWord),
   ack |-> To(n, Ack), wreq |-> To(n, Wreq)]

QSet   == UNION {Seq(ItemsOf(n)[f]) : n \in Node, f \in Names}
NetSet == UNION {Seq(MessagesTo(n)[c]) : n \in Node, c \in Class}

QueuesTyped ==
  /\ q \in [Node -> [Names -> QSet]]
  /\ \A n \in Node, f \in Names : q[n][f] \in Seq(ItemsOf(n)[f]) /\ Len(q[n][f]) <= Depth(f)

NetTyped ==
  /\ net \in [Class -> [Node \X Node -> NetSet]]
  /\ \A c \in Class, a, b \in Node : net[c][<<a, b>>] \in Seq(MessagesTo(b)[c])

Work == {c \in [op : Op, page : Slots, asked : BOOLEAN, cnt : Nat] :
           c.page[2] = c.op /\ (c.op = "read" => c.cnt < PageWords)}

HostsTyped ==
  /\ pending \in [Slots -> {Idle} \cup 0 .. PageWords - 1]
  /\ issued \in [Slots -> 0 .. MaxIssue]
  /\ flashCmdQ \in [Node -> Seq(HostCmd)]
  /\ reSel \in [Node -> Eng]
  /\ burst \in [Node -> [Eng -> 0 .. PageWords - 1]]
  /\ job \in [Node -> [Eng -> Seq(Wreq)]]
  /\ \A n \in Node, p \in Eng : job[n][p] \in Seq(To(n, Wreq))

TagsTyped ==
  /\ initTagCnt \in [Node -> 0 .. NumTags]
  /\ freeTagQ \in [Node -> Seq(Tag)]
  /\ freeTagRdQ \in [Node -> Seq(Tag)]
  /\ freeTagAckQ \in [Node -> Seq(Tag)]
  /\ tagTable \in [Node -> [Tag -> [src : Int, origTag : Int]]]
  /\ burstCnt \in [Node -> [Tag -> 0 .. PageWords - 1]]
  /\ ctrl \in [Node -> [Tag -> {Free} \cup Work]]

Typed == QueuesTyped /\ NetTyped /\ HostsTyped /\ TagsTyped

\* Read words of node n whose table entry has not been read.
Unlooked(n) == After(q[n].locRdInQ, Len(q[n].lookupQ))
Under(t)    == {w \in RdWord : w.tag = t}

\* lookupQ and locRdInTagQ are in step with locRdInQ.
Aligned(n) ==
  /\ Len(q[n].locRdInQ) = Len(q[n].lookupQ) + Len(q[n].locRdInTagQ)
  /\ \A i \in DOMAIN q[n].locRdInTagQ : q[n].locRdInTagQ[i] = Unlooked(n)[i].tag
  /\ \A i \in DOMAIN q[n].lookupQ :
       /\ q[n].lookupQ[i].last <=> q[n].locRdInQ[i].idx = PageWords - 1
       /\ q[n].lookupQ[i].entry = EntryOf(q[n].locRdInQ[i].page)

\* The words of a page are counted as the controller counts them.
WordsCounted(n, t) ==
  LET next == burstCnt[n][t] + CountIn(Unlooked(n), Under(t))
  IN  /\ Numbered(Unlooked(n), Under(t), burstCnt[n][t])
      /\ ctrl[n][t].op = "read" => ctrl[n][t].cnt = next
      /\ ctrl[n][t].op # "read" => next \in {0, PageWords}

\* The table has the entry of every command that works under a tag.
TableMatches(n) ==
  /\ \A i \in DOMAIN q[n].locCmdOutQ :
       LET c == q[n].locCmdOutQ[i] IN tagTable[n][c.tag] = EntryOf(c.page)
  /\ \A t \in Tag : ctrl[n][t] # Free => tagTable[n][t] = EntryOf(ctrl[n][t].page)
  /\ \A i \in DOMAIN Unlooked(n) :
       LET w == Unlooked(n)[i] IN tagTable[n][w.tag] = EntryOf(w.page)

TagsConserved(n) == \A t \in Tag : FreePlaces(n, t) + HoldersOf(n, t) = 1

NodeInv(n) == Aligned(n) /\ (\A t \in Tag : WordsCounted(n, t)) /\ TableMatches(n)
                /\ TagsConserved(n)
TagInv == Typed /\ \A n \in Node : NodeInv(n)

-----------------------------------------------------------------------------
\* What each queue of a node holds.
LEMMA QueueTypes ==
  ASSUME QueuesTyped, NEW n \in Node
  PROVE  /\ q[n].locCmdInQ \in Seq(To(n, HostCmd)) /\ q[n].locCmdOutQ \in Seq(FlashCmd)
         /\ q[n].remCmdOutQ \in Seq(HostCmd)
         /\ q[n].locRdInQ \in Seq(RdWord) /\ q[n].locRdInTagQ \in Seq(Tag)
         /\ q[n].lookupQ \in Seq(Looked)
         /\ q[n].locRdOutQ \in Seq(To(n, HostWord)) /\ q[n].remRdInQ \in Seq(To(n, HostWord))
         /\ q[n].remRdOutQ \in Seq(HostWord)
         /\ q[n].locAckInQ \in Seq(AckIn) /\ q[n].locAckOutQ \in Seq(To(n, Ack))
         /\ q[n].remAckOutQ \in Seq(Ack)
         /\ q[n].locWreqInQ \in Seq(WreqIn) /\ q[n].locWreqOutQ \in Seq(To(n, Wreq))
         /\ q[n].remWreqOutQ \in Seq(Wreq)
         /\ q[n].locWdataInQ \in Seq(WrWord) /\ q[n].locWdataOutQ \in Seq(To(n, WrWord))
         /\ q[n].remWdataOutQ \in Seq(WrWord)
<1>1. \A f \in Names : q[n][f] \in Seq(ItemsOf(n)[f])
  BY DEF QueuesTyped
<1> QED BY <1>1 DEF Names, SizedQ, PlainQ, ItemsOf

\* One or two queues of a node change.
Sets(n, f, v)          == q' = [q EXCEPT ![n][f] = v]
SetsTwo(n, f, v, g, w) == q' = [q EXCEPT ![n][f] = v, ![n][g] = w]

\* One queue changes, to a sequence of its items that is not too long.
LEMMA QueueSet ==
  ASSUME QueuesTyped, NEW n \in Node, NEW f \in Names, NEW v \in Seq(ItemsOf(n)[f]),
         Len(v) <= Depth(f), Sets(n, f, v)
  PROVE  /\ QueuesTyped'
         /\ \A m \in Node, g \in Names : q'[m][g] = IF m = n /\ g = f THEN v ELSE q[m][g]
<1>1. v \in QSet
  BY DEF QSet
<1>2. q \in [Node -> [Names -> QSet]]
  BY DEF QueuesTyped
<1>3. /\ q' \in [Node -> [Names -> QSet]]
      /\ \A m \in Node, g \in Names : q'[m][g] = IF m = n /\ g = f THEN v ELSE q[m][g]
  BY <1>1, <1>2, MatrixPut DEF Sets
<1>4. \A m \in Node, g \in Names :
        q'[m][g] \in Seq(ItemsOf(m)[g]) /\ Len(q'[m][g]) <= Depth(g)
  BY <1>3 DEF QueuesTyped
<1> QED BY <1>3, <1>4 DEF QueuesTyped

\* A queue with room, and one that is not empty.
LEMMA AppendFits ==
  ASSUME NEW S, NEW s \in Seq(S), NEW x \in S, NEW d \in Nat, Len(s) < d
  PROVE  Append(s, x) \in Seq(S) /\ Len(Append(s, x)) <= d
OBVIOUS

\* A queue that is not empty loses its head.
LEMMA TailFits ==
  ASSUME NEW S, NEW s \in Seq(S), NEW d \in Nat, s # << >>, Len(s) <= d
  PROVE  Tail(s) \in Seq(S) /\ Len(Tail(s)) <= d /\ Head(s) \in S
OBVIOUS

\* The same for the queues of a node.
LEMMA QueueFits ==
  ASSUME QueuesTyped, NEW n \in Node, NEW f \in Names
  PROVE  /\ q[n][f] \in Seq(ItemsOf(n)[f]) /\ Len(q[n][f]) <= Depth(f) /\ Depth(f) \in Nat
         /\ NotEmpty(n, f) => /\ Tail(q[n][f]) \in Seq(ItemsOf(n)[f])
                              /\ Len(Tail(q[n][f])) <= Depth(f)
                              /\ First(n, f) \in ItemsOf(n)[f]
         /\ NotFull(n, f) => \A x \in ItemsOf(n)[f] :
              /\ Append(q[n][f], x) \in Seq(ItemsOf(n)[f])
              /\ Len(Append(q[n][f], x)) <= Depth(f)
<1>1. q[n][f] \in Seq(ItemsOf(n)[f]) /\ Len(q[n][f]) <= Depth(f)
  BY DEF QueuesTyped
<1>2. Depth(f) \in Nat
  BY SizeAssumption DEF Depth
<1>3. ASSUME NotEmpty(n, f)
      PROVE  /\ Tail(q[n][f]) \in Seq(ItemsOf(n)[f]) /\ Len(Tail(q[n][f])) <= Depth(f)
             /\ First(n, f) \in ItemsOf(n)[f]
  BY <1>1, <1>2, <1>3, TailFits DEF NotEmpty, First
<1>4. ASSUME NotFull(n, f), NEW x \in ItemsOf(n)[f]
      PROVE  /\ Append(q[n][f], x) \in Seq(ItemsOf(n)[f])
             /\ Len(Append(q[n][f], x)) <= Depth(f)
  BY <1>1, <1>2, <1>4, AppendFits DEF NotFull
<1> QED BY <1>1, <1>2, <1>3, <1>4

\* enq.
LEMMA EnqQ ==
  ASSUME QueuesTyped, NEW n \in Node, NEW f \in Names, NEW x \in ItemsOf(n)[f],
         NotFull(n, f), q' = Enq(n, f, x)
  PROVE  /\ QueuesTyped'
         /\ \A m \in Node, g \in Names :
              q'[m][g] = IF m = n /\ g = f THEN Append(q[n][f], x) ELSE q[m][g]
<1>0. PICK v : v = Append(q[n][f], x)
  OBVIOUS
<1>1. v \in Seq(ItemsOf(n)[f]) /\ Len(v) <= Depth(f)
  BY <1>0, QueueFits
<1>2. Sets(n, f, v)
  BY <1>0 DEF Enq, Sets
<1>3. /\ QueuesTyped'
      /\ \A m \in Node, g \in Names : q'[m][g] = IF m = n /\ g = f THEN v ELSE q[m][g]
  BY <1>1, <1>2, QueueSet
<1> QED BY <1>0, <1>3

\* deq.
LEMMA DeqQ ==
  ASSUME QueuesTyped, NEW n \in Node, NEW f \in Names, NotEmpty(n, f), q' = Deq(n, f)
  PROVE  /\ QueuesTyped'
         /\ First(n, f) \in ItemsOf(n)[f]
         /\ \A m \in Node, g \in Names :
              q'[m][g] = IF m = n /\ g = f THEN Tail(q[n][f]) ELSE q[m][g]
<1>0. PICK v : v = Tail(q[n][f])
  OBVIOUS
<1>1. v \in Seq(ItemsOf(n)[f]) /\ Len(v) <= Depth(f) /\ First(n, f) \in ItemsOf(n)[f]
  BY <1>0, QueueFits
<1>2. Sets(n, f, v)
  BY <1>0 DEF Deq, Sets
<1>3. /\ QueuesTyped'
      /\ \A m \in Node, g \in Names : q'[m][g] = IF m = n /\ g = f THEN v ELSE q[m][g]
  BY <1>1, <1>2, QueueSet
<1> QED BY <1>0, <1>1, <1>3

\* Two queues of a node change.
LEMMA QueueSetTwo ==
  ASSUME QueuesTyped, NEW n \in Node, NEW f \in Names, NEW g \in Names, f # g,
         NEW v \in Seq(ItemsOf(n)[f]), Len(v) <= Depth(f),
         NEW w \in Seq(ItemsOf(n)[g]), Len(w) <= Depth(g),
         SetsTwo(n, f, v, g, w)
  PROVE  /\ QueuesTyped'
         /\ \A m \in Node, h \in Names :
              q'[m][h] = IF m = n /\ h = f THEN v ELSE IF m = n /\ h = g THEN w ELSE q[m][h]
<1>1. v \in QSet /\ w \in QSet
  BY DEF QSet
<1>2. q \in [Node -> [Names -> QSet]]
  BY DEF QueuesTyped
<1>3. q[n] \in [Names -> QSet]
  BY <1>2
<1>4. [q[n] EXCEPT ![f] = v, ![g] = w] \in [Names -> QSet]
  BY <1>1, <1>3
<1>5. q' = [q EXCEPT ![n] = [q[n] EXCEPT ![f] = v, ![g] = w]]
  BY <1>2, <1>3 DEF SetsTwo
<1>8. q' \in [Node -> [Names -> QSet]]
  BY <1>2, <1>4, <1>5
<1>6. \A m \in Node, h \in Names :
        q'[m][h] = IF m = n /\ h = f THEN v ELSE IF m = n /\ h = g THEN w ELSE q[m][h]
  BY <1>2, <1>3, <1>5
<1>7. \A m \in Node, h \in Names :
        q'[m][h] \in Seq(ItemsOf(m)[h]) /\ Len(q'[m][h]) <= Depth(h)
  BY <1>6 DEF QueuesTyped
<1> QED BY <1>6, <1>7, <1>8 DEF QueuesTyped

\* deq of one queue and enq of another.
LEMMA MoveQ ==
  ASSUME QueuesTyped, NEW n \in Node, NEW f \in Names, NEW g \in Names, f # g,
         NEW x \in ItemsOf(n)[g], NotEmpty(n, f), NotFull(n, g), q' = Move(n, f, g, x)
  PROVE  /\ QueuesTyped'
         /\ \A m \in Node, h \in Names :
              q'[m][h] = IF m = n /\ h = f THEN Tail(q[n][f])
                         ELSE IF m = n /\ h = g THEN Append(q[n][g], x) ELSE q[m][h]
<1>0. PICK v, w : v = Tail(q[n][f]) /\ w = Append(q[n][g], x)
  OBVIOUS
<1>1. v \in Seq(ItemsOf(n)[f]) /\ Len(v) <= Depth(f)
  BY <1>0, QueueFits
<1>2. w \in Seq(ItemsOf(n)[g]) /\ Len(w) <= Depth(g)
  BY <1>0, QueueFits
<1>3. SetsTwo(n, f, v, g, w)
  <2>1. q \in [Node -> [Names -> QSet]]
    BY DEF QueuesTyped
  <2> QED BY <1>0, <2>1 DEF Move, SetsTwo
<1>4. /\ QueuesTyped'
      /\ \A m \in Node, h \in Names :
           q'[m][h] = IF m = n /\ h = f THEN v ELSE IF m = n /\ h = g THEN w ELSE q[m][h]
  BY <1>1, <1>2, <1>3, QueueSetTwo
<1> QED BY <1>0, <1>4

\* The head of a queue of a node.
LEMMA FirstType ==
  ASSUME QueuesTyped, NEW n \in Node, NEW f \in Names, NotEmpty(n, f)
  PROVE  First(n, f) \in ItemsOf(n)[f]
BY QueueFits

-----------------------------------------------------------------------------
\* What the operators on places count, as counts of entries in a set.
LEMMA PositionsIs == ASSUME NEW s, NEW t PROVE Positions(s, t) = CountIn(s, {t})
<1>1. {i \in DOMAIN s : s[i] = t} = Places(s, {t})
  BY DEF Places
<1> QED BY <1>1 DEF Positions, CountIn

\* The same for items with tags.
LEMMA TagPositionsIs ==
  ASSUME NEW S, NEW s \in Seq(S), NEW t
  PROVE  TagPositions(s, t) = CountIn(s, {x \in S : x.tag = t})
<1>1. \A i \in DOMAIN s : s[i] \in S
  OBVIOUS
<1>2. {i \in DOMAIN s : s[i].tag = t} = Places(s, {x \in S : x.tag = t})
  BY <1>1 DEF Places
<1> QED BY <1>2 DEF TagPositions, CountIn

LastOf(S, t) == {x \in S : x.tag = t /\ x.idx = PageWords - 1}

\* The same for last words of pages.
LEMMA LastWordsIs ==
  ASSUME NEW S, NEW s \in Seq(S), NEW t
  PROVE  LastWords(s, t) = CountIn(s, LastOf(S, t))
<1>1. \A i \in DOMAIN s : s[i] \in S
  OBVIOUS
<1>2. {i \in DOMAIN s : s[i].tag = t /\ s[i].idx = PageWords - 1} = Places(s, LastOf(S, t))
  BY <1>1 DEF Places, LastOf
<1> QED BY <1>2 DEF LastWords, CountIn

\* How many places a tag has in a queue of tags.
LEMMA PositionsSteps ==
  ASSUME NEW S, NEW s \in Seq(S), NEW t
  PROVE  /\ Positions(s, t) \in Nat
         /\ \A x \in S : Positions(Append(s, x), t) = Positions(s, t) + IF x = t THEN 1 ELSE 0
         /\ s # << >> => Positions(s, t) = Positions(Tail(s), t) + IF Head(s) = t THEN 1 ELSE 0
         /\ s # << >> => Tail(s) \in Seq(S) /\ Positions(Tail(s), t) \in Nat
<1>1. Positions(s, t) \in Nat
  BY PositionsIs, CountInType
<1>2. ASSUME NEW x \in S
      PROVE  Positions(Append(s, x), t) = Positions(s, t) + IF x = t THEN 1 ELSE 0
  <2>1. CountIn(Append(s, x), {t}) = CountIn(s, {t}) + IF x \in {t} THEN 1 ELSE 0
    BY CountInAppend
  <2>2. x \in {t} <=> x = t
    OBVIOUS
  <2> QED BY <2>1, <2>2, PositionsIs
<1>3. ASSUME s # << >>
      PROVE  Positions(s, t) = Positions(Tail(s), t) + IF Head(s) = t THEN 1 ELSE 0
  <2>1. CountIn(s, {t}) = CountIn(Tail(s), {t}) + IF Head(s) \in {t} THEN 1 ELSE 0
    BY <1>3, CountInTail
  <2>2. Head(s) \in {t} <=> Head(s) = t
    OBVIOUS
  <2> QED BY <2>1, <2>2, PositionsIs
<1>4. ASSUME s # << >> PROVE Tail(s) \in Seq(S) /\ Positions(Tail(s), t) \in Nat
  <2>1. Tail(s) \in Seq(S)
    BY <1>4, HeadTailType
  <2> QED BY <2>1, PositionsIs, CountInType
<1> QED BY <1>1, <1>2, <1>3, <1>4

\* How many places it has in a queue of items with tags.
LEMMA TagPositionsSteps ==
  ASSUME NEW S, NEW s \in Seq(S), NEW t
  PROVE  /\ TagPositions(s, t) \in Nat
         /\ \A x \in S : TagPositions(Append(s, x), t)
                           = TagPositions(s, t) + IF x.tag = t THEN 1 ELSE 0
         /\ s # << >> => TagPositions(s, t)
                           = TagPositions(Tail(s), t) + IF Head(s).tag = t THEN 1 ELSE 0
         /\ s # << >> => TagPositions(Tail(s), t) \in Nat
         /\ \A i \in DOMAIN s : s[i].tag = t => TagPositions(s, t) # 0
<1> DEFINE K == {x \in S : x.tag = t}
<1>1. TagPositions(s, t) \in Nat /\ TagPositions(s, t) = CountIn(s, K)
  BY TagPositionsIs, CountInType
<1>2. ASSUME NEW x \in S
      PROVE  TagPositions(Append(s, x), t) = TagPositions(s, t) + IF x.tag = t THEN 1 ELSE 0
  <2>1. Append(s, x) \in Seq(S)
    OBVIOUS
  <2>2. TagPositions(Append(s, x), t) = CountIn(Append(s, x), K)
    BY <2>1, TagPositionsIs
  <2>3. CountIn(Append(s, x), K) = CountIn(s, K) + IF x \in K THEN 1 ELSE 0
    BY CountInAppend
  <2>4. x \in K <=> x.tag = t
    OBVIOUS
  <2> QED BY <1>1, <2>2, <2>3, <2>4
<1>3. ASSUME s # << >>
      PROVE  /\ TagPositions(s, t) = TagPositions(Tail(s), t) + IF Head(s).tag = t THEN 1 ELSE 0
             /\ TagPositions(Tail(s), t) \in Nat
  <2>1. Tail(s) \in Seq(S) /\ Head(s) \in S
    BY <1>3, HeadTailType
  <2>2. TagPositions(Tail(s), t) = CountIn(Tail(s), K) /\ CountIn(Tail(s), K) \in Nat
    BY <2>1, TagPositionsIs, CountInType
  <2>3. CountIn(s, K) = CountIn(Tail(s), K) + IF Head(s) \in K THEN 1 ELSE 0
    BY <1>3, CountInTail
  <2>4. Head(s) \in K <=> Head(s).tag = t
    BY <2>1
  <2> QED BY <1>1, <2>2, <2>3, <2>4
<1>4. ASSUME NEW i \in DOMAIN s, s[i].tag = t PROVE TagPositions(s, t) # 0
  <2>1. s[i] \in K
    BY <1>4
  <2> HIDE DEF K
  <2> QED BY <1>1, <2>1, CountInZero
<1> QED BY <1>1, <1>2, <1>3, <1>4

\* How many last words of its pages there are in a queue of words.
LEMMA LastWordsSteps ==
  ASSUME NEW S, NEW s \in Seq(S), NEW t
  PROVE  /\ LastWords(s, t) \in Nat
         /\ \A x \in S : LastWords(Append(s, x), t)
              = LastWords(s, t) + IF x.tag = t /\ x.idx = PageWords - 1 THEN 1 ELSE 0
         /\ s # << >> => LastWords(s, t) = LastWords(Tail(s), t)
              + IF Head(s).tag = t /\ Head(s).idx = PageWords - 1 THEN 1 ELSE 0
         /\ s # << >> => LastWords(Tail(s), t) \in Nat
         /\ \A i \in DOMAIN s : s[i].tag = t /\ s[i].idx = PageWords - 1 => LastWords(s, t) # 0
<1> DEFINE K == LastOf(S, t)
<1>1. LastWords(s, t) \in Nat /\ LastWords(s, t) = CountIn(s, K)
  BY LastWordsIs, CountInType
<1>5. \A x \in S : x \in K <=> x.tag = t /\ x.idx = PageWords - 1
  BY DEF LastOf
<1> HIDE DEF K
<1>2. ASSUME NEW x \in S
      PROVE  LastWords(Append(s, x), t)
               = LastWords(s, t) + IF x.tag = t /\ x.idx = PageWords - 1 THEN 1 ELSE 0
  <2>1. Append(s, x) \in Seq(S)
    OBVIOUS
  <2>2. LastWords(Append(s, x), t) = CountIn(Append(s, x), K)
    BY <2>1, LastWordsIs DEF K
  <2>3. CountIn(Append(s, x), K) = CountIn(s, K) + IF x \in K THEN 1 ELSE 0
    BY CountInAppend
  <2> QED BY <1>1, <1>5, <2>2, <2>3
<1>3. ASSUME s # << >>
      PROVE  /\ LastWords(s, t) = LastWords(Tail(s), t)
                  + IF Head(s).tag = t /\ Head(s).idx = PageWords - 1 THEN 1 ELSE 0
             /\ LastWords(Tail(s), t) \in Nat
  <2>1. Tail(s) \in Seq(S) /\ Head(s) \in S
    BY <1>3, HeadTailType
  <2>2. LastWords(Tail(s), t) = CountIn(Tail(s), K) /\ CountIn(Tail(s), K) \in Nat
    BY <2>1, LastWordsIs, CountInType DEF K
  <2>3. CountIn(s, K) = CountIn(Tail(s), K) + IF Head(s) \in K THEN 1 ELSE 0
    BY <1>3, CountInTail
  <2> QED BY <1>1, <1>5, <2>1, <2>2, <2>3
<1>4. ASSUME NEW i \in DOMAIN s, s[i].tag = t /\ s[i].idx = PageWords - 1
      PROVE  LastWords(s, t) # 0
  <2>1. s[i] \in K
    BY <1>4, <1>5
  <2> QED BY <1>1, <2>1, CountInZero
<1> QED BY <1>1, <1>2, <1>3, <1>4

-----------------------------------------------------------------------------
\* What the invariant of node n reads.
View(n) == <<q[n].locCmdOutQ, q[n].locRdInQ, q[n].lookupQ, q[n].locRdInTagQ, q[n].locAckInQ>>
Tags(n) == <<initTagCnt[n], freeTagQ[n], freeTagRdQ[n], freeTagAckQ[n]>>

\* While these stay, with the table, the counters and the controller, so does
\* the invariant.
LEMMA PipeStays ==
  ASSUME NEW n \in Node, Aligned(n), View(n)' = View(n)
  PROVE  Aligned(n)' /\ Unlooked(n)' = Unlooked(n)
<1>1. /\ q'[n].locRdInQ = q[n].locRdInQ /\ q'[n].lookupQ = q[n].lookupQ
      /\ q'[n].locRdInTagQ = q[n].locRdInTagQ
  BY DEF View
<1>2. Unlooked(n)' = Unlooked(n)
  BY <1>1 DEF Unlooked
<1> QED BY <1>1, <1>2 DEF Aligned

\* The invariant of a node stays with what it reads.
LEMMA NodeStays ==
  ASSUME NEW n \in Node, NodeInv(n), View(n)' = View(n), Tags(n)' = Tags(n),
         tagTable'[n] = tagTable[n], burstCnt'[n] = burstCnt[n], ctrl'[n] = ctrl[n]
  PROVE  NodeInv(n)'
<1>1. Aligned(n)' /\ Unlooked(n)' = Unlooked(n)
  BY PipeStays DEF NodeInv
<1>2. ASSUME NEW t \in Tag PROVE WordsCounted(n, t)'
  <2>1. WordsCounted(n, t)
    BY DEF NodeInv
  <2> QED BY <1>1, <2>1 DEF WordsCounted
<1>3. TableMatches(n)'
  <2>1. q'[n].locCmdOutQ = q[n].locCmdOutQ
    BY DEF View
  <2> QED BY <1>1, <2>1 DEF NodeInv, TableMatches
<1>4. TagsConserved(n)'
  <2> SUFFICES ASSUME NEW t \in Tag PROVE (FreePlaces(n, t) + HoldersOf(n, t) = 1)'
    BY DEF TagsConserved
  <2>1. FreePlaces(n, t) + HoldersOf(n, t) = 1
    BY DEF NodeInv, TagsConserved
  <2>2. FreePlaces(n, t)' = FreePlaces(n, t)
    BY DEF FreePlaces, Tags
  <2>3. HoldersOf(n, t)' = HoldersOf(n, t)
    BY DEF HoldersOf, View
  <2> QED BY <2>1, <2>2, <2>3
<1> QED BY <1>1, <1>2, <1>3, <1>4 DEF NodeInv

-----------------------------------------------------------------------------
Outside == UNCHANGED <<hostVars, dmaVars, ctrl, net>>

\* What stays typed because it stays.
LEMMA OutsideTyped ==
  ASSUME Typed
  PROVE  /\ UNCHANGED <<hostVars, dmaVars>> => HostsTyped'
         /\ UNCHANGED net => NetTyped'
         /\ UNCHANGED q => QueuesTyped'
         /\ UNCHANGED <<tagVars, tagTable, burstCnt, ctrl>> => TagsTyped'
<1>1. ASSUME UNCHANGED <<hostVars, dmaVars>> PROVE HostsTyped'
  BY <1>1 DEF Typed, HostsTyped, hostVars, dmaVars
<1>2. ASSUME UNCHANGED net PROVE NetTyped'
  BY <1>2 DEF Typed, NetTyped
<1>3. ASSUME UNCHANGED q PROVE QueuesTyped'
  BY <1>3 DEF Typed, QueuesTyped
<1>4. ASSUME UNCHANGED <<tagVars, tagTable, burstCnt, ctrl>> PROVE TagsTyped'
  BY <1>4 DEF Typed, TagsTyped, tagVars
<1> QED BY <1>1, <1>2, <1>3, <1>4

\* A node nothing happens to.
LEMMA OtherNode ==
  ASSUME TagInv, NEW m \in Node, \A f \in Names : q'[m][f] = q[m][f], Tags(m)' = Tags(m),
         tagTable'[m] = tagTable[m], burstCnt'[m] = burstCnt[m], ctrl'[m] = ctrl[m]
  PROVE  NodeInv(m)'
<1>1. View(m)' = View(m)
  BY DEF View, Names, SizedQ, PlainQ
<1>2. NodeInv(m)
  BY DEF TagInv
<1> QED BY <1>1, <1>2, NodeStays

\* Types of the state of a node.
LEMMA NodeTypes ==
  ASSUME Typed, NEW n \in Node
  PROVE  /\ initTagCnt[n] \in 0 .. NumTags
         /\ freeTagQ[n] \in Seq(Tag) /\ freeTagRdQ[n] \in Seq(Tag)
         /\ freeTagAckQ[n] \in Seq(Tag)
         /\ tagTable[n] \in [Tag -> [src : Int, origTag : Int]]
         /\ burstCnt[n] \in [Tag -> 0 .. PageWords - 1]
         /\ ctrl[n] \in [Tag -> {Free} \cup Work]
         /\ NumTags \in Nat \ {0} /\ PageWords \in Nat \ {0}
BY SizeAssumption DEF Typed, TagsTyped

\* Where a tag is: not yet given out, free or being recycled, or held.
Fresh(n, t)   == IF t >= initTagCnt[n] THEN 1 ELSE 0
AtWork(n, t)  == IF ctrl[n][t] = Free THEN 0 ELSE 1

PlacesTyped(n, t) ==
  /\ Fresh(n, t) \in Nat /\ Positions(freeTagQ[n], t) \in Nat
  /\ Positions(freeTagRdQ[n], t) \in Nat /\ Positions(freeTagAckQ[n], t) \in Nat
  /\ TagPositions(q[n].locCmdOutQ, t) \in Nat /\ AtWork(n, t) \in Nat
  /\ LastWords(q[n].locRdInQ, t) \in Nat /\ TagPositions(q[n].locAckInQ, t) \in Nat

\* The places of a tag are counted with numbers.
LEMMA TagSum ==
  ASSUME Typed, NEW n \in Node, NEW t \in Tag
  PROVE  PlacesTyped(n, t)
<1>1. QueuesTyped
  BY DEF Typed
<1>2. /\ q[n].locCmdOutQ \in Seq(FlashCmd) /\ q[n].locRdInQ \in Seq(RdWord)
      /\ q[n].locAckInQ \in Seq(AckIn)
  BY <1>1, QueueTypes
<1>3. /\ freeTagQ[n] \in Seq(Tag) /\ freeTagRdQ[n] \in Seq(Tag) /\ freeTagAckQ[n] \in Seq(Tag)
  BY NodeTypes
<1>4. Fresh(n, t) \in Nat /\ AtWork(n, t) \in Nat
  BY DEF Fresh, AtWork
<1>5. /\ Positions(freeTagQ[n], t) \in Nat /\ Positions(freeTagRdQ[n], t) \in Nat
      /\ Positions(freeTagAckQ[n], t) \in Nat
  BY <1>3, PositionsSteps
<1>6. /\ TagPositions(q[n].locCmdOutQ, t) \in Nat /\ TagPositions(q[n].locAckInQ, t) \in Nat
  BY <1>2, TagPositionsSteps
<1>7. LastWords(q[n].locRdInQ, t) \in Nat
  BY <1>2, LastWordsSteps
<1> QED BY <1>4, <1>5, <1>6, <1>7 DEF PlacesTyped

\* A tag has a place, and no other.
Whereabouts(n, t) ==
  /\ Fresh(n, t) + Positions(freeTagQ[n], t) + Positions(freeTagRdQ[n], t)
       + Positions(freeTagAckQ[n], t)
       + (TagPositions(q[n].locCmdOutQ, t) + AtWork(n, t) + LastWords(q[n].locRdInQ, t)
            + TagPositions(q[n].locAckInQ, t)) = 1

\* TagConservation, in these terms.
LEMMA WhereaboutsIs ==
  ASSUME NEW n \in Node
  PROVE  /\ TagsConserved(n) <=> \A t \in Tag : Whereabouts(n, t)
         /\ TagsConserved(n)' <=> \A t \in Tag : Whereabouts(n, t)'
BY DEF TagsConserved, Whereabouts, FreePlaces, HoldersOf, Fresh, AtWork

-----------------------------------------------------------------------------
\* Tags of a node change places.
LEMMA FreeTagsMove ==
  ASSUME TagInv, NEW n \in Node, Outside, UNCHANGED <<tagTable, burstCnt, q>>, TagsTyped',
         \A m \in Node : m # n => Tags(m)' = Tags(m),
         \A t \in Tag : Whereabouts(n, t)'
  PROVE  TagInv'
<1>1. Typed /\ (\A m \in Node : NodeInv(m)) /\ UNCHANGED ctrl
  BY DEF TagInv, Outside
<1>2. Typed'
  BY <1>1, OutsideTyped DEF Typed, Outside
<1>3. ASSUME NEW m \in Node, m # n PROVE NodeInv(m)'
  <2>1. Tags(m)' = Tags(m)
    BY <1>3
  <2> QED BY <1>1, <2>1, OtherNode
<1>4. NodeInv(n)'
  <2>1. View(n)' = View(n)
    BY DEF View
  <2>2. Aligned(n)' /\ Unlooked(n)' = Unlooked(n)
    BY <1>1, <2>1, PipeStays DEF NodeInv
  <2>3. \A t \in Tag : WordsCounted(n, t)'
    BY <1>1, <2>2 DEF NodeInv, WordsCounted
  <2>4. TableMatches(n)'
    BY <1>1, <2>2 DEF NodeInv, TableMatches
  <2> QED BY <2>2, <2>3, <2>4, WhereaboutsIs DEF NodeInv
<1> QED BY <1>2, <1>3, <1>4 DEF TagInv

\* A fresh tag becomes a free one.
LEMMA InitFreeTagStep ==
  ASSUME TagInv, NEW n \in Node, InitFreeTagQ(n), Outside
  PROVE  TagInv'
<1> DEFINE k == initTagCnt[n]
<1>1. Typed /\ NodeInv(n)
  BY DEF TagInv
<1>2. /\ k \in 0 .. NumTags - 1 /\ k \in Tag /\ freeTagQ[n] \in Seq(Tag)
  <2>1. k # NumTags
    BY DEF InitFreeTagQ, Initialised
  <2> QED BY <1>1, <2>1, NodeTypes DEF Tag
<1>3. /\ freeTagQ' = [freeTagQ EXCEPT ![n] = Append(@, k)]
      /\ initTagCnt' = [initTagCnt EXCEPT ![n] = @ + 1]
      /\ UNCHANGED <<freeTagRdQ, freeTagAckQ, tagTable, burstCnt, q, ctrl>>
  BY DEF InitFreeTagQ, Outside
<1>4. TagsTyped'
  <2>1. freeTagQ' \in [Node -> Seq(Tag)]
    BY <1>1, <1>2, <1>3, PushType DEF Typed, TagsTyped
  <2>2. initTagCnt' \in [Node -> 0 .. NumTags]
    <3>1. k + 1 \in 0 .. NumTags
      BY <1>1, <1>2, NodeTypes
    <3>2. initTagCnt' = [initTagCnt EXCEPT ![n] = k + 1]
      BY <1>3
    <3> QED BY <1>1, <3>1, <3>2, PutType DEF Typed, TagsTyped
  <2> QED BY <1>1, <1>3, <2>1, <2>2 DEF Typed, TagsTyped
<1>5. /\ freeTagQ'[n] = Append(freeTagQ[n], k) /\ initTagCnt'[n] = k + 1
      /\ \A m \in Node : m # n => freeTagQ'[m] = freeTagQ[m] /\ initTagCnt'[m] = initTagCnt[m]
  BY <1>1, <1>3 DEF Typed, TagsTyped
<1>6. \A m \in Node : m # n => Tags(m)' = Tags(m)
  BY <1>3, <1>5 DEF Tags
<1>7. ASSUME NEW t \in Tag PROVE Whereabouts(n, t)'
  <2>1. Whereabouts(n, t)
    BY <1>1, WhereaboutsIs DEF NodeInv
  <2>2. Positions(freeTagQ'[n], t) = Positions(freeTagQ[n], t) + IF k = t THEN 1 ELSE 0
    BY <1>2, <1>5, PositionsSteps
  <2>3. Fresh(n, t) = Fresh(n, t)' + IF k = t THEN 1 ELSE 0
    BY <1>2, <1>5 DEF Fresh, Tag
  <2>4. Fresh(n, t)' \in Nat
    BY DEF Fresh
  <2> HIDE DEF k
  <2>5. AtWork(n, t)' = AtWork(n, t) /\ UNCHANGED <<freeTagRdQ, freeTagAckQ, q>>
    BY <1>3 DEF AtWork
  <2>6. PlacesTyped(n, t)
    BY <1>1, TagSum
  <2> QED BY <2>1, <2>2, <2>3, <2>4, <2>5, <2>6 DEF Whereabouts, PlacesTyped
<1> QED BY <1>3, <1>4, <1>6, <1>7, FreeTagsMove

\* A tag given back is free again.
LEMMA RecycleTagsStep ==
  ASSUME TagInv, NEW n \in Node, RecycleTags(n), Outside
  PROVE  TagInv'
<1>1. Typed /\ NodeInv(n)
  BY DEF TagInv
<1>2. /\ freeTagQ[n] \in Seq(Tag) /\ freeTagRdQ[n] \in Seq(Tag) /\ freeTagAckQ[n] \in Seq(Tag)
      /\ \A t \in Tag : Whereabouts(n, t)
  BY <1>1, NodeTypes, WhereaboutsIs DEF NodeInv
<1>3. UNCHANGED <<initTagCnt, tagTable, burstCnt, q, ctrl>>
  BY DEF RecycleTags, Outside
<1>4. CASE freeTagRdQ[n] # << >>
  <2> DEFINE k == Head(freeTagRdQ[n])
  <2>1. /\ freeTagQ' = [freeTagQ EXCEPT ![n] = Append(@, k)]
        /\ freeTagRdQ' = [freeTagRdQ EXCEPT ![n] = Tail(@)]
        /\ UNCHANGED freeTagAckQ
    BY <1>4 DEF RecycleTags
  <2>2. k \in Tag
    BY <1>2, <1>4, HeadTailType
  <2>3. freeTagQ' \in [Node -> Seq(Tag)] /\ freeTagRdQ' \in [Node -> Seq(Tag)]
    BY <1>1, <1>4, <2>1, <2>2, PushType, PopType DEF Typed, TagsTyped
  <2>4. /\ freeTagQ'[n] = Append(freeTagQ[n], k) /\ freeTagRdQ'[n] = Tail(freeTagRdQ[n])
        /\ \A m \in Node : m # n => freeTagQ'[m] = freeTagQ[m] /\ freeTagRdQ'[m] = freeTagRdQ[m]
    BY <1>1, <2>1 DEF Typed, TagsTyped
  <2>5. TagsTyped'
    BY <1>1, <1>3, <2>1, <2>3 DEF Typed, TagsTyped
  <2>6. \A m \in Node : m # n => Tags(m)' = Tags(m)
    BY <1>3, <2>1, <2>4 DEF Tags
  <2>7. ASSUME NEW t \in Tag PROVE Whereabouts(n, t)'
    <3>1. Positions(freeTagQ'[n], t) = Positions(freeTagQ[n], t) + IF k = t THEN 1 ELSE 0
      BY <1>2, <2>2, <2>4, PositionsSteps
    <3>2. /\ Positions(freeTagRdQ[n], t) = Positions(freeTagRdQ'[n], t) + IF k = t THEN 1 ELSE 0
          /\ Positions(freeTagRdQ'[n], t) \in Nat
      BY <1>2, <1>4, <2>4, PositionsSteps
    <3>3. Fresh(n, t)' = Fresh(n, t) /\ AtWork(n, t)' = AtWork(n, t)
      BY <1>3 DEF Fresh, AtWork
    <3>4. Whereabouts(n, t)
      BY <1>2
    <3>5. UNCHANGED <<q, freeTagAckQ>>
      BY <1>3, <2>1
    <3>6. PlacesTyped(n, t)
      BY <1>1, TagSum
    <3> HIDE DEF k
    <3> QED BY <3>1, <3>2, <3>3, <3>4, <3>5, <3>6 DEF Whereabouts, PlacesTyped
  <2> QED BY <1>3, <2>5, <2>6, <2>7, FreeTagsMove
<1>5. CASE freeTagRdQ[n] = << >>
  <2> DEFINE k == Head(freeTagAckQ[n])
  <2>1. /\ freeTagAckQ[n] # << >>
        /\ freeTagQ' = [freeTagQ EXCEPT ![n] = Append(@, k)]
        /\ freeTagAckQ' = [freeTagAckQ EXCEPT ![n] = Tail(@)]
        /\ UNCHANGED freeTagRdQ
    BY <1>5 DEF RecycleTags
  <2>2. k \in Tag
    BY <1>2, <2>1, HeadTailType
  <2>3. freeTagQ' \in [Node -> Seq(Tag)] /\ freeTagAckQ' \in [Node -> Seq(Tag)]
    BY <1>1, <2>1, <2>2, PushType, PopType DEF Typed, TagsTyped
  <2>4. /\ freeTagQ'[n] = Append(freeTagQ[n], k) /\ freeTagAckQ'[n] = Tail(freeTagAckQ[n])
        /\ \A m \in Node : m # n => freeTagQ'[m] = freeTagQ[m] /\ freeTagAckQ'[m] = freeTagAckQ[m]
    BY <1>1, <2>1 DEF Typed, TagsTyped
  <2>5. TagsTyped'
    BY <1>1, <1>3, <2>1, <2>3 DEF Typed, TagsTyped
  <2>6. \A m \in Node : m # n => Tags(m)' = Tags(m)
    BY <1>3, <2>1, <2>4 DEF Tags
  <2>7. ASSUME NEW t \in Tag PROVE Whereabouts(n, t)'
    <3>1. Positions(freeTagQ'[n], t) = Positions(freeTagQ[n], t) + IF k = t THEN 1 ELSE 0
      BY <1>2, <2>2, <2>4, PositionsSteps
    <3>2. /\ Positions(freeTagAckQ[n], t) = Positions(freeTagAckQ'[n], t) + IF k = t THEN 1 ELSE 0
          /\ Positions(freeTagAckQ'[n], t) \in Nat
      BY <1>2, <2>1, <2>4, PositionsSteps
    <3>3. Fresh(n, t)' = Fresh(n, t) /\ AtWork(n, t)' = AtWork(n, t)
      BY <1>3 DEF Fresh, AtWork
    <3>4. Whereabouts(n, t)
      BY <1>2
    <3>5. UNCHANGED <<q, freeTagRdQ>>
      BY <1>3, <2>1
    <3>6. PlacesTyped(n, t)
      BY <1>1, TagSum
    <3> HIDE DEF k
    <3> QED BY <3>1, <3>2, <3>3, <3>4, <3>5, <3>6 DEF Whereabouts, PlacesTyped
  <2> QED BY <1>3, <2>5, <2>6, <2>7, FreeTagsMove
<1> QED BY <1>4, <1>5

-----------------------------------------------------------------------------
\* The words not looked up, as a queue of their own.
LEMMA UnlookedIs ==
  ASSUME Typed, NEW n \in Node, Aligned(n)
  PROVE  /\ Unlooked(n) \in Seq(RdWord)
         /\ Len(Unlooked(n)) = Len(q[n].locRdInTagQ)
         /\ Len(q[n].lookupQ) \in 0 .. Len(q[n].locRdInQ)
         /\ \A i \in DOMAIN Unlooked(n) :
              /\ Len(q[n].lookupQ) + i \in DOMAIN q[n].locRdInQ
              /\ Unlooked(n)[i] = q[n].locRdInQ[Len(q[n].lookupQ) + i]
<1> DEFINE r == q[n].locRdInQ
           k == Len(q[n].lookupQ)
           g == Len(q[n].locRdInTagQ)
<1>1. /\ r \in Seq(RdWord) /\ q[n].lookupQ \in Seq(Looked) /\ q[n].locRdInTagQ \in Seq(Tag)
  BY QueueTypes DEF Typed
<1>2. k \in Nat /\ g \in Nat /\ Len(r) = k + g /\ DOMAIN r = 1 .. Len(r)
  <2>1. Len(r) = k + g
    BY DEF Aligned
  <2>2. \A S : \A s \in Seq(S) : Len(s) \in Nat /\ DOMAIN s = 1 .. Len(s)
    OBVIOUS
  <2>3. k \in Nat /\ g \in Nat /\ DOMAIN r = 1 .. Len(r)
    <3> HIDE DEF r
    <3> QED BY <1>1, <2>2 DEF k, g
  <2> QED BY <2>1, <2>3
<1>4. Unlooked(n) = After(r, k)
  BY DEF Unlooked
<1> HIDE DEF r, k, g
<1>3. k \in 0 .. Len(r)
  BY <1>2
<1>5. /\ After(r, k) \in Seq(RdWord) /\ Len(After(r, k)) = Len(r) - k
      /\ \A i \in 1 .. Len(r) - k : After(r, k)[i] = r[k + i]
  BY <1>1, <1>3, AfterIs DEF r
<1>6. Len(r) - k = g
  BY <1>2
<1>7. DOMAIN After(r, k) = 1 .. g
  BY <1>5, <1>6
<1>8. \A i \in 1 .. g : k + i \in DOMAIN r /\ After(r, k)[i] = r[k + i]
  BY <1>2, <1>5, <1>6
<1> QED BY <1>3, <1>4, <1>5, <1>6, <1>7, <1>8 DEF r, k, g

\* Types of the words counted.
LEMMA CountTypes ==
  ASSUME Typed, NEW n \in Node, Aligned(n), NEW t \in Tag
  PROVE  /\ burstCnt[n][t] \in 0 .. PageWords - 1 /\ burstCnt[n][t] \in Int
         /\ CountIn(Unlooked(n), Under(t)) \in Nat
         /\ PageWords \in Nat \ {0}
<1>1. Unlooked(n) \in Seq(RdWord)
  BY UnlookedIs
<1>2. CountIn(Unlooked(n), Under(t)) \in Nat
  BY <1>1, CountInType
<1> QED BY <1>2, NodeTypes

\* The controller's record of a tag.
LEMMA CtrlTypes ==
  ASSUME Typed, NEW n \in Node, NEW t \in Tag
  PROVE  /\ ctrl[n][t] = Free \/ ctrl[n][t] \in Work
         /\ ctrl[n][t] = Free <=> ctrl[n][t].op \notin Op
         /\ Free.op = "none" /\ "none" \notin Op
<1>1. ctrl[n][t] \in {Free} \cup Work
  BY NodeTypes
<1>2. Free.op = "none" /\ "none" \notin Op
  BY DEF Free, Op
<1>3. \A c \in Work : c.op \in Op
  BY DEF Work
<1> QED BY <1>1, <1>2, <1>3

\* A tag that no command works under and of which no last word waits has no
\* words at all.
LEMMA QuietTag ==
  ASSUME TagInv, NEW n \in Node, NEW t \in Tag, ctrl[n][t] = Free,
         LastWords(q[n].locRdInQ, t) = 0
  PROVE  /\ burstCnt[n][t] = 0 /\ CountIn(Unlooked(n), Under(t)) = 0
         /\ \A i \in DOMAIN Unlooked(n) : Unlooked(n)[i].tag # t
<1> DEFINE u == Unlooked(n)
           c == CountIn(u, Under(t))
           b == burstCnt[n][t]
<1>1. Typed /\ NodeInv(n) /\ Aligned(n) /\ WordsCounted(n, t)
  BY DEF TagInv, NodeInv
<1>2. u \in Seq(RdWord) /\ c \in Nat /\ b \in 0 .. PageWords - 1 /\ PageWords \in Nat \ {0}
  BY <1>1, UnlookedIs, CountTypes
<1>3. b + c \in {0, PageWords} /\ Numbered(u, Under(t), b)
  <2>1. ctrl[n][t].op # "read"
    BY DEF Free
  <2> QED BY <1>1, <2>1 DEF WordsCounted
<1> HIDE DEF c, b
<1>4. ASSUME b + c = PageWords PROVE FALSE
  <2>1. c > 0 /\ b \in Int
    BY <1>2, <1>4
  <2> HIDE DEF u
  <2>2. PICK i \in DOMAIN u : u[i] \in Under(t) /\ u[i].idx = b + c - 1
    BY <1>2, <1>3, <2>1, NumberedLast DEF c
  <2>3. u[i].tag = t /\ u[i].idx = PageWords - 1
    <3>1. u[i].tag = t
      BY <2>2 DEF Under
    <3>2. b + c - 1 = PageWords - 1
      <4>1. b \in Int /\ c \in Int /\ PageWords \in Int
        BY <1>2, <2>1
      <4> QED BY <1>4, <4>1
    <3> QED BY <2>2, <3>1, <3>2
  <2>4. /\ Len(q[n].lookupQ) + i \in DOMAIN q[n].locRdInQ
        /\ u[i] = q[n].locRdInQ[Len(q[n].lookupQ) + i]
    BY <1>1, UnlookedIs DEF u
  <2>5. q[n].locRdInQ \in Seq(RdWord)
    BY <1>1, QueueTypes DEF Typed
  <2> QED BY <2>3, <2>4, <2>5, LastWordsSteps
<1>5. b = 0 /\ c = 0
  BY <1>2, <1>3, <1>4
<1>6. \A i \in DOMAIN u : u[i] \notin Under(t) /\ u[i] \in RdWord
  <2> HIDE DEF u
  <2> QED BY <1>2, <1>5, CountInZero DEF c
<1> QED BY <1>5, <1>6 DEF c, b, Under

\* A command gets a free tag.
LEMMA RenameTagsStep ==
  ASSUME TagInv, NEW n \in Node, RenameTags(n), Outside
  PROVE  TagInv'
<1> DEFINE k == Head(freeTagQ[n])
           cmd == First(n, "locCmdInQ")
           new == [cmd EXCEPT !.tag = k]
           e == [src |-> cmd.src, origTag |-> cmd.tag]
<1>1. Typed /\ QueuesTyped /\ NodeInv(n) /\ Aligned(n)
  BY DEF TagInv, Typed, NodeInv
<1>2. /\ NotEmpty(n, "locCmdInQ") /\ NotFull(n, "locCmdOutQ") /\ freeTagQ[n] # << >>
      /\ tagTable' = [tagTable EXCEPT ![n][k] = e]
      /\ q' = Move(n, "locCmdInQ", "locCmdOutQ", new)
      /\ freeTagQ' = [freeTagQ EXCEPT ![n] = Tail(@)]
      /\ UNCHANGED <<initTagCnt, freeTagRdQ, freeTagAckQ, burstCnt, ctrl>>
  BY DEF RenameTags, Outside
<1>3. {"locCmdInQ", "locCmdOutQ"} \subseteq Names
  BY DEF Names, PlainQ
<1>4. /\ cmd.page = SlotOf(cmd.src, cmd.op, cmd.tag) /\ cmd \in HostCmd
      /\ cmd \in [src : Node, dst : Node, op : Op, tag : Nat, page : Slots]
  <2>1. cmd \in ItemsOf(n)["locCmdInQ"]
    BY <1>1, <1>2, <1>3, FirstType
  <2> QED BY <2>1 DEF ItemsOf, To, HostCmd
<1>5. k \in Tag /\ freeTagQ[n] \in Seq(Tag)
  BY <1>1, <1>2, NodeTypes, HeadTailType
<1>6. /\ new \in FlashCmd /\ new.tag = k /\ new.page = cmd.page
      /\ e = EntryOf(cmd.page) /\ e \in [src : Int, origTag : Int]
  <2>1. new \in [src : Node, dst : Node, op : Op, tag : Tag, page : Slots]
    BY <1>4, <1>5
  <2>2. new.tag = k /\ new.page = cmd.page /\ new.src = cmd.src /\ new.op = cmd.op
    BY <1>4
  <2>3. cmd.page[1] = cmd.src /\ cmd.page[2] = cmd.op /\ cmd.page[3] = cmd.tag
    BY <1>4 DEF SlotOf
  <2>4. cmd.src \in Int /\ cmd.tag \in Int
    <3>1. cmd.src \in Node /\ cmd.tag \in Nat
      BY <1>4
    <3>2. Node \subseteq Nat
      BY NodeAssumption
    <3>3. \A x \in Node : x \in Int
      BY <3>2
    <3>4. \A x \in Nat : x \in Int
      OBVIOUS
    <3> HIDE DEF cmd, new, e
    <3> QED BY <3>1, <3>3, <3>4
  <2> QED BY <2>1, <2>2, <2>3, <2>4 DEF FlashCmd, EntryOf
<1>7. new \in ItemsOf(n)["locCmdOutQ"]
  BY <1>6 DEF ItemsOf
<1> HIDE DEF new, e, cmd
<1>8. /\ QueuesTyped'
      /\ \A m \in Node, h \in Names :
           q'[m][h] = IF m = n /\ h = "locCmdInQ" THEN Tail(q[n].locCmdInQ)
                      ELSE IF m = n /\ h = "locCmdOutQ" THEN Append(q[n].locCmdOutQ, new)
                      ELSE q[m][h]
  <2>1. "locCmdInQ" # "locCmdOutQ"
    OBVIOUS
  <2> QED BY <1>1, <1>2, <1>3, <1>7, <2>1, MoveQ
<1>9. TagsTyped'
  <2>1. freeTagQ' \in [Node -> Seq(Tag)]
    BY <1>1, <1>2, PopType DEF Typed, TagsTyped
  <2>2. tagTable' \in [Node -> [Tag -> [src : Int, origTag : Int]]]
    BY <1>1, <1>2, <1>5, <1>6, MatrixPut DEF Typed, TagsTyped
  <2> QED BY <1>1, <1>2, <2>1, <2>2 DEF Typed, TagsTyped
<1>10. Typed'
  BY <1>1, <1>8, <1>9, OutsideTyped DEF Typed, Outside
<1>11. /\ freeTagQ'[n] = Tail(freeTagQ[n])
       /\ \A m \in Node : m # n => freeTagQ'[m] = freeTagQ[m] /\ tagTable'[m] = tagTable[m]
       /\ \A t \in Tag : tagTable'[n][t] = IF t = k THEN e ELSE tagTable[n][t]
  <2>1. tagTable \in [Node -> [Tag -> [src : Int, origTag : Int]]] /\ freeTagQ \in [Node -> Seq(Tag)]
    BY <1>1 DEF Typed, TagsTyped
  <2> QED BY <1>2, <1>5, <2>1
<1>12. ASSUME NEW m \in Node, m # n PROVE NodeInv(m)'
  <2>1. Tags(m)' = Tags(m)
    BY <1>2, <1>11, <1>12 DEF Tags
  <2>2. \A f \in Names : q'[m][f] = q[m][f]
    BY <1>8, <1>12
  <2> QED BY <1>2, <1>11, <1>12, <2>1, <2>2, OtherNode
<1>13. /\ q'[n].locCmdOutQ = Append(q[n].locCmdOutQ, new) /\ q'[n].locRdInQ = q[n].locRdInQ
       /\ q'[n].lookupQ = q[n].lookupQ /\ q'[n].locRdInTagQ = q[n].locRdInTagQ
       /\ q'[n].locAckInQ = q[n].locAckInQ
  BY <1>8 DEF Names, SizedQ, PlainQ
<1>14. q[n].locCmdOutQ \in Seq(FlashCmd)
  BY <1>1, QueueTypes
<1>15. \A t \in Tag : Whereabouts(n, t)
  BY <1>1, WhereaboutsIs DEF NodeInv
<1>16. /\ TagPositions(q[n].locCmdOutQ, k) = 0 /\ ctrl[n][k] = Free
       /\ LastWords(q[n].locRdInQ, k) = 0
  <2>1. /\ Positions(freeTagQ[n], k) = Positions(Tail(freeTagQ[n]), k) + 1
        /\ Positions(Tail(freeTagQ[n]), k) \in Nat
    BY <1>2, <1>5, PositionsSteps
  <2>2. Whereabouts(n, k)
    BY <1>5, <1>15
  <2>3. TagPositions(q[n].locCmdOutQ, k) = 0 /\ AtWork(n, k) = 0 /\ LastWords(q[n].locRdInQ, k) = 0
    <3>1. PlacesTyped(n, k)
      BY <1>1, <1>5, TagSum
    <3>2. Positions(freeTagQ[n], k) >= 1
      BY <2>1
    <3> HIDE DEF k
    <3> QED BY <2>2, <3>1, <3>2 DEF Whereabouts, PlacesTyped
  <2> QED BY <2>3 DEF AtWork
<1>17. NodeInv(n)'
  <2>1. Unlooked(n)' = Unlooked(n)
    BY <1>13 DEF Unlooked
  <2>2. Aligned(n)'
    BY <1>1, <1>13, <2>1 DEF Aligned
  <2>3. \A t \in Tag : WordsCounted(n, t)'
    BY <1>1, <1>2, <2>1 DEF NodeInv, WordsCounted
  <2>4. TableMatches(n)'
    <3>1. ASSUME NEW i \in DOMAIN q'[n].locCmdOutQ
          PROVE  tagTable'[n][q'[n].locCmdOutQ[i].tag] = EntryOf(q'[n].locCmdOutQ[i].page)
      <4> DEFINE s == q[n].locCmdOutQ
      <4>1. CASE i \in DOMAIN s
        <5>1. q'[n].locCmdOutQ[i] = s[i] /\ s[i] \in FlashCmd
          BY <1>13, <1>14, <4>1
        <5>2. s[i].tag # k
          BY <1>14, <1>16, <4>1, TagPositionsSteps
        <5>3. s[i].tag \in Tag
          BY <5>1 DEF FlashCmd
        <5>4. tagTable[n][s[i].tag] = EntryOf(s[i].page)
          BY <1>1, <4>1 DEF NodeInv, TableMatches
        <5> QED BY <1>11, <5>1, <5>2, <5>3, <5>4
      <4>2. CASE i \notin DOMAIN s
        <5>1. q'[n].locCmdOutQ[i] = new
          BY <1>6, <1>13, <1>14, <3>1, <4>2
        <5> QED BY <1>5, <1>6, <1>11, <5>1
      <4> QED BY <4>1, <4>2
    <3>2. ASSUME NEW t \in Tag, ctrl'[n][t] # Free
          PROVE  tagTable'[n][t] = EntryOf(ctrl'[n][t].page)
      BY <1>1, <1>2, <1>11, <1>16, <3>2 DEF NodeInv, TableMatches
    <3>3. ASSUME NEW i \in DOMAIN Unlooked(n)
          PROVE  tagTable'[n][Unlooked(n)[i].tag] = EntryOf(Unlooked(n)[i].page)
      <4>1. Unlooked(n)[i].tag # k
        BY <1>5, <1>16, QuietTag
      <4>2. Unlooked(n)[i].tag \in Tag
        <5>1. Unlooked(n)[i] \in RdWord
          BY <1>1, UnlookedIs
        <5> QED BY <5>1 DEF RdWord
      <4>3. tagTable[n][Unlooked(n)[i].tag] = EntryOf(Unlooked(n)[i].page)
        BY <1>1 DEF NodeInv, TableMatches
      <4> QED BY <1>11, <4>1, <4>2, <4>3
    <3> QED BY <2>1, <3>1, <3>2, <3>3 DEF TableMatches
  <2>5. ASSUME NEW t \in Tag PROVE Whereabouts(n, t)'
    <3>1. /\ Positions(freeTagQ[n], t) = Positions(freeTagQ'[n], t) + IF k = t THEN 1 ELSE 0
          /\ Positions(freeTagQ'[n], t) \in Nat
      BY <1>2, <1>5, <1>11, PositionsSteps
    <3>2. TagPositions(q'[n].locCmdOutQ, t)
            = TagPositions(q[n].locCmdOutQ, t) + IF k = t THEN 1 ELSE 0
      BY <1>6, <1>13, <1>14, TagPositionsSteps
    <3>3. Fresh(n, t)' = Fresh(n, t) /\ AtWork(n, t)' = AtWork(n, t)
      BY <1>2 DEF Fresh, AtWork
    <3>4. UNCHANGED <<freeTagRdQ, freeTagAckQ>>
      BY <1>2
    <3>5. Whereabouts(n, t)
      BY <1>15
    <3>6. PlacesTyped(n, t)
      BY <1>1, TagSum
    <3> HIDE DEF k
    <3>7. /\ LastWords(q[n].locRdInQ, t)' = LastWords(q[n].locRdInQ, t)
          /\ TagPositions(q[n].locAckInQ, t)' = TagPositions(q[n].locAckInQ, t)
      BY <1>13
    <3> QED BY <3>1, <3>2, <3>3, <3>4, <3>5, <3>6, <3>7 DEF Whereabouts, PlacesTyped
  <2> QED BY <2>2, <2>3, <2>4, <2>5, WhereaboutsIs DEF NodeInv
<1> QED BY <1>10, <1>12, <1>17 DEF TagInv

-----------------------------------------------------------------------------
\* The queues the invariant reads.
ViewNames == {"locCmdOutQ", "locRdInQ", "lookupQ", "locRdInTagQ", "locAckInQ"}

\* Whatever happens elsewhere in a node leaves its tags alone.
LEMMA ElsewhereStep ==
  ASSUME TagInv, QueuesTyped', NetTyped', HostsTyped',
         \A m \in Node, h \in ViewNames : q'[m][h] = q[m][h],
         UNCHANGED <<tagVars, tagTable, burstCnt, ctrl>>
  PROVE  TagInv'
<1>1. Typed /\ \A m \in Node : NodeInv(m)
  BY DEF TagInv
<1>2. Typed'
  BY <1>1, OutsideTyped DEF Typed
<1>3. ASSUME NEW m \in Node PROVE NodeInv(m)'
  <2>1. View(m)' = View(m)
    BY DEF View, ViewNames
  <2>2. Tags(m)' = Tags(m)
    BY DEF Tags, tagVars
  <2> QED BY <1>1, <2>1, <2>2, NodeStays
<1> QED BY <1>2, <1>3 DEF TagInv

\* The same with the hosts and the network untouched.
LEMMA SplitterElsewhere ==
  ASSUME TagInv, QueuesTyped', Outside,
         \A m \in Node, h \in ViewNames : q'[m][h] = q[m][h],
         UNCHANGED <<tagVars, tagTable, burstCnt>>
  PROVE  TagInv'
<1>1. HostsTyped' /\ NetTyped'
  BY OutsideTyped DEF TagInv, Outside
<1>2. UNCHANGED ctrl
  BY DEF Outside
<1> QED BY <1>1, <1>2, ElsewhereStep

\* Queues nobody counts in: an item moves from one to another, into one, or
\* out of one.
Uncounted == Names \ ViewNames

\* Which queues these are.
LEMMA UncountedNames ==
  /\ ViewNames \subseteq Names /\ Uncounted \subseteq Names /\ Uncounted \cap ViewNames = {}
  /\ Uncounted = {"locCmdInQ", "remCmdOutQ", "locRdOutQ", "remRdInQ", "remRdOutQ",
                  "locAckOutQ", "remAckOutQ", "locWreqInQ", "locWreqOutQ", "remWreqOutQ",
                  "locWdataInQ", "locWdataOutQ", "remWdataOutQ"}
BY DEF Uncounted, ViewNames, Names, SizedQ, PlainQ

\* An item moves from one of them to another.
LEMMA MoveElsewhere ==
  ASSUME TagInv, NEW n \in Node, NEW f \in Uncounted, NEW g \in Uncounted, f # g,
         NEW x \in ItemsOf(n)[g], NotEmpty(n, f), NotFull(n, g), q' = Move(n, f, g, x),
         UNCHANGED <<tagVars, tagTable, burstCnt>>, Outside
  PROVE  TagInv'
<1>1. QueuesTyped
  BY DEF TagInv, Typed
<1>2. f \in Names /\ g \in Names
  BY DEF Uncounted
<1>3. /\ QueuesTyped'
      /\ \A m \in Node, h \in Names :
           q'[m][h] = IF m = n /\ h = f THEN Tail(q[n][f])
                      ELSE IF m = n /\ h = g THEN Append(q[n][g], x) ELSE q[m][h]
  BY <1>1, <1>2, MoveQ
<1>4. \A m \in Node, h \in ViewNames : q'[m][h] = q[m][h]
  BY <1>3, UncountedNames
<1> QED BY <1>3, <1>4, SplitterElsewhere

\* An item is put into one of them.
LEMMA PutElsewhere ==
  ASSUME TagInv, NEW n \in Node, NEW f \in Uncounted, NEW x \in ItemsOf(n)[f],
         NotFull(n, f), q' = Enq(n, f, x)
  PROVE  QueuesTyped' /\ \A m \in Node, h \in ViewNames : q'[m][h] = q[m][h]
<1>1. QueuesTyped
  BY DEF TagInv, Typed
<1>2. f \in Names
  BY DEF Uncounted
<1>3. /\ QueuesTyped'
      /\ \A m \in Node, g \in Names :
           q'[m][g] = IF m = n /\ g = f THEN Append(q[n][f], x) ELSE q[m][g]
  BY <1>1, <1>2, EnqQ
<1> QED BY <1>3, UncountedNames

\* An item is taken from one of them.
LEMMA GetElsewhere ==
  ASSUME TagInv, NEW n \in Node, NEW f \in Uncounted, Get(n, f)
  PROVE  /\ QueuesTyped' /\ \A m \in Node, h \in ViewNames : q'[m][h] = q[m][h]
         /\ First(n, f) \in ItemsOf(n)[f] /\ UNCHANGED <<tagVars, tagTable, burstCnt>>
<1>1. QueuesTyped
  BY DEF TagInv, Typed
<1>2. f \in Names
  BY DEF Uncounted
<1>3. NotEmpty(n, f) /\ q' = Deq(n, f) /\ UNCHANGED <<tagVars, tagTable, burstCnt>>
  BY DEF Get
<1>4. /\ QueuesTyped' /\ First(n, f) \in ItemsOf(n)[f]
      /\ \A m \in Node, g \in Names :
           q'[m][g] = IF m = n /\ g = f THEN Tail(q[n][f]) ELSE q[m][g]
  BY <1>1, <1>2, <1>3, DeqQ
<1> QED BY <1>3, <1>4, UncountedNames

-----------------------------------------------------------------------------
\* The rules of the splitter that move an item between such queues.
LEMMA MergeRdStep ==
  ASSUME TagInv, NEW n \in Node, MergeRd(n), Outside
  PROVE  TagInv'
<1>1. {"remRdInQ", "locRdOutQ"} \subseteq Uncounted /\ "remRdInQ" \in Names
  BY UncountedNames
<1>2. /\ NotEmpty(n, "remRdInQ") /\ NotFull(n, "locRdOutQ")
      /\ q' = Move(n, "remRdInQ", "locRdOutQ", First(n, "remRdInQ"))
      /\ UNCHANGED <<tagVars, tagTable, burstCnt>>
  BY DEF MergeRd
<1>3. First(n, "remRdInQ") \in ItemsOf(n)["locRdOutQ"]
  <2>1. First(n, "remRdInQ") \in ItemsOf(n)["remRdInQ"]
    BY <1>1, <1>2, FirstType DEF TagInv, Typed
  <2> QED BY <2>1 DEF ItemsOf
<1>4. "remRdInQ" # "locRdOutQ"
  OBVIOUS
<1> QED BY <1>1, <1>2, <1>3, <1>4, MoveElsewhere

\* forwardWdata: to this node or to another.
LEMMA ForwardWdataStep ==
  ASSUME TagInv, NEW n \in Node, ForwardWdata(n), Outside
  PROVE  TagInv'
<1> DEFINE wd == First(n, "locWdataInQ")
<1>1. PICK out : /\ out = IF wd.dst = n THEN "locWdataOutQ" ELSE "remWdataOutQ"
                 /\ NotEmpty(n, "locWdataInQ") /\ NotFull(n, out)
                 /\ q' = Move(n, "locWdataInQ", out, wd)
                 /\ UNCHANGED <<tagVars, tagTable, burstCnt>>
  BY DEF ForwardWdata
<1>2. "locWdataInQ" \in Uncounted /\ out \in Uncounted /\ "locWdataInQ" \in Names
      /\ "locWdataInQ" # out
  BY <1>1, UncountedNames
<1>3. wd \in ItemsOf(n)[out]
  <2>1. wd \in ItemsOf(n)["locWdataInQ"]
    BY <1>1, <1>2, FirstType DEF TagInv, Typed
  <2> HIDE DEF wd
  <2>2. wd \in WrWord
    BY <2>1 DEF ItemsOf
  <2> QED BY <1>1, <2>2 DEF ItemsOf, To
<1> HIDE DEF wd
<1> QED BY <1>1, <1>2, <1>3, MoveElsewhere

\* forwardWreq: to the node whose command it is.
LEMMA ForwardWreqStep ==
  ASSUME TagInv, NEW n \in Node, ForwardWreq(n), Outside
  PROVE  TagInv'
<1> DEFINE req == First(n, "locWreqInQ")
<1>1. PICK out, fwd :
        /\ out = IF req.entry.src = n THEN "locWreqOutQ" ELSE "remWreqOutQ"
        /\ fwd = [origTag |-> req.entry.origTag, reTag |-> req.reTag,
                  src |-> n, dst |-> req.entry.src]
        /\ NotEmpty(n, "locWreqInQ") /\ NotFull(n, out)
        /\ q' = Move(n, "locWreqInQ", out, fwd)
        /\ UNCHANGED <<tagVars, tagTable, burstCnt>>
  BY DEF ForwardWreq, WreqFor
<1>2. "locWreqInQ" \in Uncounted /\ out \in Uncounted /\ "locWreqInQ" \in Names
      /\ "locWreqInQ" # out
  BY <1>1, UncountedNames
<1>3. fwd \in ItemsOf(n)[out]
  <2>1. req \in ItemsOf(n)["locWreqInQ"]
    BY <1>1, <1>2, FirstType DEF TagInv, Typed
  <2> HIDE DEF req
  <2>2. req \in WreqIn
    BY <2>1 DEF ItemsOf
  <2>3. fwd \in Wreq
    BY <1>1, <2>2 DEF WreqIn, Wreq, Entry
  <2>4. fwd.dst = req.entry.src
    BY <1>1
  <2> QED BY <1>1, <2>3, <2>4 DEF ItemsOf, To
<1> HIDE DEF req
<1> QED BY <1>1, <1>2, <1>3, MoveElsewhere

-----------------------------------------------------------------------------
\* The rules of the host.
LEMMA IssueStep ==
  ASSUME TagInv, NEW s \in Slots, NEW dst \in Node, Issue(s, dst)
  PROVE  TagInv'
<1> DEFINE cmd == [src |-> s[1], dst |-> dst, op |-> s[2], tag |-> s[3], page |-> s]
<1>1. /\ pending' = [pending EXCEPT ![s] = 0]
      /\ issued' = IF MaxIssue = 0 THEN issued ELSE [issued EXCEPT ![s] = @ + 1]
      /\ MaxIssue = 0 \/ issued[s] < MaxIssue
      /\ flashCmdQ' = [flashCmdQ EXCEPT ![s[1]] = Append(@, cmd)]
      /\ UNCHANGED <<splitterVars, dmaVars, ctrl, net>>
  BY DEF Issue
<1>2. Typed
  BY DEF TagInv
<1>3. s[1] \in Node /\ cmd \in HostCmd
  <2>1. s \in Node \X {"read", "write", "erase"} \X Nat
    BY SlotAssumption
  <2>2. s[1] \in Node /\ s[2] \in Op /\ s[3] \in Nat /\ s = SlotOf(s[1], s[2], s[3])
    BY <2>1 DEF Op, SlotOf
  <2> QED BY <2>2 DEF HostCmd
<1> HIDE DEF cmd
<1>4. HostsTyped'
  <2>1. pending' \in [Slots -> {Idle} \cup 0 .. PageWords - 1]
    <3>1. 0 \in 0 .. PageWords - 1
      BY SizeAssumption
    <3> QED BY <1>1, <1>2, <3>1 DEF Typed, HostsTyped
  <2>2. issued' \in [Slots -> 0 .. MaxIssue]
    <3>1. CASE MaxIssue = 0
      BY <1>1, <1>2, <3>1 DEF Typed, HostsTyped
    <3>2. CASE MaxIssue # 0
      <4>1. issued[s] + 1 \in 0 .. MaxIssue
        <5>1. MaxIssue \in Nat
          BY SlotAssumption
        <5>2. issued[s] \in 0 .. MaxIssue
          BY <1>2 DEF Typed, HostsTyped
        <5>3. issued[s] < MaxIssue
          BY <1>1, <3>2
        <5> QED BY <5>1, <5>2, <5>3
      <4>2. issued' = [issued EXCEPT ![s] = issued[s] + 1]
        BY <1>1, <3>2
      <4> QED BY <1>2, <4>1, <4>2, PutType DEF Typed, HostsTyped
    <3> QED BY <3>1, <3>2
  <2>3. flashCmdQ' \in [Node -> Seq(HostCmd)]
    BY <1>1, <1>2, <1>3, PushType DEF Typed, HostsTyped
  <2> QED BY <1>1, <1>2, <2>1, <2>2, <2>3 DEF Typed, HostsTyped, dmaVars
<1>5. UNCHANGED <<q, tagVars, tagTable, burstCnt, ctrl, net>>
  BY <1>1 DEF splitterVars
<1>6. QueuesTyped' /\ NetTyped'
  BY <1>2, <1>5, OutsideTyped
<1>7. \A m \in Node, h \in ViewNames : q'[m][h] = q[m][h]
  BY <1>5
<1> QED BY <1>4, <1>5, <1>6, <1>7, ElsewhereStep

\* The command goes to this node or to another.
LEMMA FlashCmdForwardStep ==
  ASSUME TagInv, NEW n \in Node, FlashCmdForward(n)
  PROVE  TagInv'
<1> DEFINE cmd == Head(flashCmdQ[n])
<1>1. PICK f : /\ f = IF cmd.dst = n THEN "locCmdInQ" ELSE "remCmdOutQ"
               /\ NotFull(n, f) /\ q' = Enq(n, f, cmd)
  BY DEF FlashCmdForward, LocServSendCmd
<1>2. /\ flashCmdQ[n] # << >>
      /\ UNCHANGED <<tagVars, tagTable, burstCnt>>
      /\ flashCmdQ' = [flashCmdQ EXCEPT ![n] = Tail(@)]
      /\ UNCHANGED <<pending, issued, dmaVars, ctrl, net>>
  BY DEF FlashCmdForward, LocServSendCmd
<1>3. Typed
  BY DEF TagInv
<1>4. flashCmdQ' \in [Node -> Seq(HostCmd)] /\ cmd \in HostCmd
  BY <1>2, <1>3, PopType DEF Typed, HostsTyped
<1> HIDE DEF cmd
<1>5. HostsTyped'
  BY <1>2, <1>3, <1>4 DEF Typed, HostsTyped, dmaVars
<1>6. f \in Uncounted
  BY <1>1, UncountedNames
<1>7. cmd \in ItemsOf(n)[f]
  BY <1>1, <1>4 DEF ItemsOf, To
<1>8. QueuesTyped' /\ \A m \in Node, h \in ViewNames : q'[m][h] = q[m][h]
  BY <1>1, <1>6, <1>7, PutElsewhere
<1>9. NetTyped' /\ UNCHANGED ctrl
  BY <1>2, <1>3, OutsideTyped
<1> QED BY <1>2, <1>5, <1>8, <1>9, ElsewhereStep

\* A word is delivered.
LEMMA DistrReadFromFlashStep ==
  ASSUME TagInv, NEW n \in Node, DistrReadFromFlash(n)
  PROVE  TagInv'
<1>1. Get(n, "locRdOutQ") /\ UNCHANGED <<issued, flashCmdQ, dmaVars, ctrl, net>>
  BY DEF DistrReadFromFlash
<1>2. PICK s : pending' = [pending EXCEPT ![s] = IF @ = PageWords - 1 THEN Idle ELSE @ + 1]
  BY DEF DistrReadFromFlash
<1>3. /\ QueuesTyped' /\ \A m \in Node, h \in ViewNames : q'[m][h] = q[m][h]
      /\ UNCHANGED <<tagVars, tagTable, burstCnt>>
  BY <1>1, GetElsewhere, UncountedNames
<1>4. Typed
  BY DEF TagInv
<1>5. pending' \in [Slots -> {Idle} \cup 0 .. PageWords - 1]
  <2>1. \A x \in {Idle} \cup 0 .. PageWords - 1 :
          (IF x = PageWords - 1 THEN Idle ELSE x + 1) \in {Idle} \cup 0 .. PageWords - 1
    BY SizeAssumption DEF Idle
  <2>2. pending \in [Slots -> {Idle} \cup 0 .. PageWords - 1]
    BY <1>4 DEF Typed, HostsTyped
  <2> QED BY <1>2, <2>1, <2>2
<1>6. HostsTyped'
  BY <1>1, <1>4, <1>5 DEF Typed, HostsTyped, dmaVars
<1>7. NetTyped'
  BY <1>1, <1>4, OutsideTyped
<1> QED BY <1>1, <1>3, <1>6, <1>7, ElsewhereStep

\* An ack is delivered.
LEMMA HandleControllerAckStep ==
  ASSUME TagInv, NEW n \in Node, HandleControllerAck(n)
  PROVE  TagInv'
<1>1. Get(n, "locAckOutQ") /\ UNCHANGED <<issued, flashCmdQ, dmaVars, ctrl, net>>
  BY DEF HandleControllerAck
<1>2. PICK s : pending' = [pending EXCEPT ![s] = Idle]
  BY DEF HandleControllerAck
<1>3. /\ QueuesTyped' /\ \A m \in Node, h \in ViewNames : q'[m][h] = q[m][h]
      /\ UNCHANGED <<tagVars, tagTable, burstCnt>>
  BY <1>1, GetElsewhere, UncountedNames
<1>4. Typed
  BY DEF TagInv
<1>5. HostsTyped'
  BY <1>1, <1>2, <1>4 DEF Typed, HostsTyped, dmaVars
<1>6. NetTyped'
  BY <1>1, <1>4, OutsideTyped
<1> QED BY <1>1, <1>3, <1>5, <1>6, ElsewhereStep

\* A write data request is given to an engine.
LEMMA HandleWriteDataRequestStep ==
  ASSUME TagInv, NEW n \in Node, HandleWriteDataRequest(n)
  PROVE  TagInv'
<1>1. /\ Get(n, "locWreqOutQ") /\ UNCHANGED <<hostVars, burst, ctrl, net>>
      /\ job' = [job EXCEPT ![n][reSel[n]] = Append(@, First(n, "locWreqOutQ"))]
      /\ reSel' = [reSel EXCEPT ![n] = (@ + 1) % NumEng]
  BY DEF HandleWriteDataRequest
<1>2. /\ QueuesTyped' /\ \A m \in Node, h \in ViewNames : q'[m][h] = q[m][h]
      /\ UNCHANGED <<tagVars, tagTable, burstCnt>>
      /\ First(n, "locWreqOutQ") \in ItemsOf(n)["locWreqOutQ"]
  BY <1>1, GetElsewhere, UncountedNames
<1>3. Typed
  BY DEF TagInv
<1>4. PICK r, p : r = First(n, "locWreqOutQ") /\ p = reSel[n]
  OBVIOUS
<1>5. r \in To(n, Wreq) /\ r \in Wreq /\ p \in Eng
  <2>1. r \in To(n, Wreq)
    BY <1>2, <1>4 DEF ItemsOf
  <2>2. p \in Eng
    BY <1>3, <1>4 DEF Typed, HostsTyped
  <2> QED BY <2>1, <2>2 DEF To
<1>6. reSel' \in [Node -> Eng]
  <2>1. \A x \in Eng : (x + 1) % NumEng \in Eng
    <3>1. NumEng \in Nat \ {0}
      BY SlotAssumption
    <3> QED BY <3>1 DEF Eng
  <2> QED BY <1>1, <1>3, <2>1 DEF Typed, HostsTyped
<1>7. /\ job' \in [Node -> [Eng -> Seq(Wreq)]]
      /\ \A m \in Node, e \in Eng :
           job'[m][e] = IF m = n /\ e = p THEN Append(job[n][p], r) ELSE job[m][e]
  <2>0. PICK v : v = Append(job[n][p], r)
    OBVIOUS
  <2>1. v \in Seq(Wreq)
    BY <1>3, <1>5, <2>0 DEF Typed, HostsTyped
  <2>2. job' = [job EXCEPT ![n][p] = v]
    BY <1>1, <1>4, <2>0
  <2>3. job \in [Node -> [Eng -> Seq(Wreq)]]
    BY <1>3 DEF Typed, HostsTyped
  <2>4. /\ job' \in [Node -> [Eng -> Seq(Wreq)]]
        /\ \A m \in Node, e \in Eng : job'[m][e] = IF m = n /\ e = p THEN v ELSE job[m][e]
    BY ZenonT(60), <1>5, <2>1, <2>2, <2>3, MatrixPut
  <2> QED BY <2>0, <2>4
<1>8. \A m \in Node, e \in Eng : job'[m][e] \in Seq(To(m, Wreq))
  <2>1. \A m \in Node, e \in Eng : job[m][e] \in Seq(To(m, Wreq))
    BY <1>3 DEF Typed, HostsTyped
  <2>2. Append(job[n][p], r) \in Seq(To(n, Wreq))
    BY <1>5, <2>1
  <2> QED BY <1>7, <2>1, <2>2
<1>9. HostsTyped'
  BY <1>1, <1>3, <1>6, <1>7, <1>8 DEF Typed, HostsTyped, hostVars
<1>10. NetTyped' /\ UNCHANGED ctrl
  BY <1>1, <1>3, OutsideTyped
<1> QED BY <1>2, <1>9, <1>10, ElsewhereStep

-----------------------------------------------------------------------------
\* An engine sends the next word of a page.
LEMMA PipeDmaRdDataStep ==
  ASSUME TagInv, NEW n \in Node, NEW p \in Eng, PipeDmaRdData(n, p)
  PROVE  TagInv'
<1> DEFINE req == Head(job[n][p])
           last == burst[n][p] = PageWords - 1
<1>1. PICK w : /\ w = [tag |-> req.reTag, dst |-> req.src, idx |-> burst[n][p],
                       page |-> SlotOf(n, "write", req.origTag)]
               /\ NotFull(n, "locWdataInQ") /\ q' = Enq(n, "locWdataInQ", w)
  BY DEF PipeDmaRdData, Put
<1>2. /\ job[n][p] # << >>
      /\ burst' = [burst EXCEPT ![n][p] = IF last THEN 0 ELSE @ + 1]
      /\ job' = IF last THEN [job EXCEPT ![n][p] = Tail(@)] ELSE job
      /\ UNCHANGED <<hostVars, reSel, ctrl, net>>
      /\ UNCHANGED <<tagVars, tagTable, burstCnt>>
  BY DEF PipeDmaRdData, Put
<1>3. Typed
  BY DEF TagInv
<1>4. /\ burst \in [Node -> [Eng -> 0 .. PageWords - 1]] /\ job \in [Node -> [Eng -> Seq(Wreq)]]
      /\ \A m \in Node, e \in Eng : job[m][e] \in Seq(To(m, Wreq))
      /\ PageWords \in Nat \ {0}
  BY <1>3, SizeAssumption DEF Typed, HostsTyped
<1>5. req \in Wreq /\ req.dst = n
  <2>1. job[n][p] \in Seq(To(n, Wreq)) /\ job[n][p] # << >>
    BY <1>2, <1>4
  <2>2. req \in To(n, Wreq)
    BY <2>1, HeadTailType
  <2> QED BY <2>2 DEF To
<1>6. burst[n][p] \in 0 .. PageWords - 1
  BY <1>4
<1> HIDE DEF req
<1>7. w \in ItemsOf(n)["locWdataInQ"]
  <2>1. req.reTag \in Tag /\ req.src \in Node /\ SlotOf(n, "write", req.origTag) \in Slots
    BY <1>5 DEF Wreq
  <2>2. w \in WrWord
    BY <1>1, <1>6, <2>1 DEF WrWord
  <2> QED BY <2>2 DEF ItemsOf
<1>8. QueuesTyped' /\ \A m \in Node, h \in ViewNames : q'[m][h] = q[m][h]
  BY <1>1, <1>7, UncountedNames, PutElsewhere
<1>9. burst' \in [Node -> [Eng -> 0 .. PageWords - 1]]
  <2>1. PICK v : v = IF last THEN 0 ELSE burst[n][p] + 1
    OBVIOUS
  <2>2. v \in 0 .. PageWords - 1
    <3>1. \A x, m \in Int : x \in 0 .. m => (IF x = m THEN 0 ELSE x + 1) \in 0 .. m
      OBVIOUS
    <3>2. PageWords - 1 \in Int /\ burst[n][p] \in Int
      BY <1>4, <1>6
    <3> QED BY <1>6, <2>1, <3>1, <3>2
  <2>3. burst' = [burst EXCEPT ![n][p] = v]
    BY <1>2, <2>1
  <2> QED BY <1>4, <2>2, <2>3, MatrixPut
<1>10. /\ job' \in [Node -> [Eng -> Seq(Wreq)]]
       /\ \A m \in Node, e \in Eng : job'[m][e] \in Seq(To(m, Wreq))
  <2>1. CASE last
    <3>0. PICK v : v = Tail(job[n][p])
      OBVIOUS
    <3>1. v \in Seq(Wreq) /\ v \in Seq(To(n, Wreq))
      <4>1. job[n][p] # << >> /\ job[n][p] \in Seq(Wreq) /\ job[n][p] \in Seq(To(n, Wreq))
        BY <1>2, <1>4
      <4> QED BY <3>0, <4>1, HeadTailType
    <3>2. job' = [job EXCEPT ![n][p] = v]
      BY <1>2, <2>1, <3>0
    <3>3. /\ job' \in [Node -> [Eng -> Seq(Wreq)]]
          /\ \A m \in Node, e \in Eng : job'[m][e] = IF m = n /\ e = p THEN v ELSE job[m][e]
      BY <1>4, <3>1, <3>2, MatrixPut
    <3> QED BY <1>4, <3>1, <3>3
  <2>2. CASE ~last
    BY <1>2, <1>4, <2>2
  <2> QED BY <2>1, <2>2
<1>11. HostsTyped'
  BY <1>2, <1>3, <1>9, <1>10 DEF Typed, HostsTyped, hostVars
<1>12. NetTyped' /\ UNCHANGED ctrl
  BY <1>2, <1>3, OutsideTyped
<1> QED BY <1>2, <1>8, <1>11, <1>12, ElsewhereStep

-----------------------------------------------------------------------------
\* Where the classes of messages leave and enter.
LEMMA ClassQueues ==
  ASSUME NEW c \in Class, NEW n \in Node
  PROVE  /\ OutOf[c] \in Uncounted /\ Into[c] \in Uncounted
         /\ MessagesTo(n)[c] = ItemsOf(n)[Into[c]]
         /\ \A x \in ItemsOf(n)[OutOf[c]] : x.dst \in Node /\ x \in MessagesTo(x.dst)[c]
<1>1. OutOf[c] \in Uncounted /\ Into[c] \in Uncounted
  BY UncountedNames DEF OutOf, Into, Class
<1>2. MessagesTo(n)[c] = ItemsOf(n)[Into[c]]
  BY DEF MessagesTo, ItemsOf, Into, Class
<1>3. ASSUME NEW x \in ItemsOf(n)[OutOf[c]]
      PROVE  x.dst \in Node /\ x \in MessagesTo(x.dst)[c]
  <2>1. CASE c = "cmd"
    <3>1. x \in HostCmd
      BY <2>1, <1>3 DEF OutOf, ItemsOf
    <3>2. x.dst \in Node /\ x \in To(x.dst, HostCmd)
      BY <3>1 DEF HostCmd, To
    <3> QED BY <2>1, <3>2 DEF MessagesTo
  <2>2. CASE c = "rd"
    <3>1. x \in HostWord
      BY <2>2, <1>3 DEF OutOf, ItemsOf
    <3>2. x.dst \in Node /\ x \in To(x.dst, HostWord)
      BY <3>1 DEF HostWord, To
    <3> QED BY <2>2, <3>2 DEF MessagesTo
  <2>3. CASE c = "wd"
    <3>1. x \in WrWord
      BY <2>3, <1>3 DEF OutOf, ItemsOf
    <3>2. x.dst \in Node /\ x \in To(x.dst, WrWord)
      BY <3>1 DEF WrWord, To
    <3> QED BY <2>3, <3>2 DEF MessagesTo
  <2>4. CASE c = "ack"
    <3>1. x \in Ack
      BY <2>4, <1>3 DEF OutOf, ItemsOf
    <3>2. x.dst \in Node /\ x \in To(x.dst, Ack)
      BY <3>1 DEF Ack, To
    <3> QED BY <2>4, <3>2 DEF MessagesTo
  <2>5. CASE c = "wreq"
    <3>1. x \in Wreq
      BY <2>5, <1>3 DEF OutOf, ItemsOf
    <3>2. x.dst \in Node /\ x \in To(x.dst, Wreq)
      BY <3>1 DEF Wreq, To
    <3> QED BY <2>5, <3>2 DEF MessagesTo
  <2> QED BY <2>1, <2>2, <2>3, <2>4, <2>5 DEF Class
<1> QED BY <1>1, <1>2, <1>3

\* One channel changes, to messages for its destination.
SetsNet(c, l, v) == net' = [net EXCEPT ![c][l] = v]

\* The channels keep their types.
LEMMA NetSetTo ==
  ASSUME NetTyped, NEW c \in Class, NEW a \in Node, NEW b \in Node,
         NEW v \in Seq(MessagesTo(b)[c]), SetsNet(c, <<a, b>>, v)
  PROVE  /\ NetTyped'
         /\ \A d \in Class, x, y \in Node :
              net'[d][<<x, y>>] = IF d = c /\ x = a /\ y = b THEN v ELSE net[d][<<x, y>>]
<1>1. v \in NetSet
  BY DEF NetSet
<1>2. net \in [Class -> [Node \X Node -> NetSet]] /\ <<a, b>> \in Node \X Node
  BY DEF NetTyped
<1>3. /\ net' \in [Class -> [Node \X Node -> NetSet]]
      /\ \A d \in Class, l \in Node \X Node :
           net'[d][l] = IF d = c /\ l = <<a, b>> THEN v ELSE net[d][l]
  <2>1. PICK k, L : k = <<a, b>> /\ L = Node \X Node
    OBVIOUS
  <2>2. net' = [net EXCEPT ![c][k] = v] /\ net \in [Class -> [L -> NetSet]] /\ k \in L
    BY <1>2, <2>1 DEF SetsNet
  <2>3. /\ net' \in [Class -> [L -> NetSet]]
        /\ \A d \in Class, l \in L : net'[d][l] = IF d = c /\ l = k THEN v ELSE net[d][l]
    BY <1>1, <2>2, MatrixPut
  <2> QED BY <2>1, <2>3
<1>4. \A d \in Class, x, y \in Node :
        net'[d][<<x, y>>] = IF d = c /\ x = a /\ y = b THEN v ELSE net[d][<<x, y>>]
  <2> SUFFICES ASSUME NEW d \in Class, NEW x \in Node, NEW y \in Node
               PROVE  net'[d][<<x, y>>] = IF d = c /\ x = a /\ y = b THEN v ELSE net[d][<<x, y>>]
    OBVIOUS
  <2>1. <<x, y>> \in Node \X Node /\ (<<x, y>> = <<a, b>> <=> x = a /\ y = b)
    OBVIOUS
  <2> QED BY <1>3, <2>1
<1>5. \A d \in Class, x, y \in Node : net'[d][<<x, y>>] \in Seq(MessagesTo(y)[d])
  <2> SUFFICES ASSUME NEW d \in Class, NEW x \in Node, NEW y \in Node
               PROVE  net'[d][<<x, y>>] \in Seq(MessagesTo(y)[d])
    OBVIOUS
  <2>1. net[d][<<x, y>>] \in Seq(MessagesTo(y)[d])
    BY DEF NetTyped
  <2> QED BY <1>4, <2>1
<1> QED BY <1>3, <1>4, <1>5 DEF NetTyped

\* A message goes into the channel to its destination.
LEMMA SendRemoteStep ==
  ASSUME TagInv, NEW n \in Node, NEW c \in Class, SendRemote(n, c)
  PROVE  TagInv'
<1>1. PICK msg, link, v :
        /\ msg = First(n, OutOf[c]) /\ link = <<n, msg.dst>>
        /\ v = Append(net[c][link], msg)
        /\ Get(n, OutOf[c]) /\ SetsNet(c, link, v)
        /\ UNCHANGED <<hostVars, dmaVars, ctrl>>
  BY DEF SendRemote, SetsNet
<1>2. Typed /\ NetTyped
  BY DEF TagInv, Typed
<1>3. OutOf[c] \in Uncounted
  BY ClassQueues
<1>4. /\ QueuesTyped' /\ \A m \in Node, h \in ViewNames : q'[m][h] = q[m][h]
      /\ msg \in ItemsOf(n)[OutOf[c]] /\ UNCHANGED <<tagVars, tagTable, burstCnt>>
  BY <1>1, <1>3, GetElsewhere
<1>5. msg.dst \in Node /\ msg \in MessagesTo(msg.dst)[c]
  BY <1>4, ClassQueues
<1>6. v \in Seq(MessagesTo(msg.dst)[c])
  <2>1. net[c][<<n, msg.dst>>] \in Seq(MessagesTo(msg.dst)[c])
    BY <1>2, <1>5 DEF NetTyped
  <2>2. PICK T : T = MessagesTo(msg.dst)[c]
    OBVIOUS
  <2>3. net[c][link] \in Seq(T) /\ msg \in T
    BY <1>1, <1>5, <2>1, <2>2
  <2>4. Append(net[c][link], msg) \in Seq(T)
    BY <2>3
  <2> QED BY <1>1, <2>2, <2>4
<1>7. NetTyped'
  BY <1>1, <1>2, <1>5, <1>6, NetSetTo
<1>8. HostsTyped' /\ UNCHANGED ctrl
  BY <1>1, <1>2, OutsideTyped
<1> QED BY <1>4, <1>7, <1>8, ElsewhereStep

\* A message comes out of a channel.
LEMMA RecRemoteStep ==
  ASSUME TagInv, NEW n \in Node, NEW c \in Class, NEW from \in Node, RecRemote(n, c, from)
  PROVE  TagInv'
<1>1. PICK f, msg, v :
        /\ f = Into[c] /\ msg = Head(net[c][<<from, n>>]) /\ v = Tail(net[c][<<from, n>>])
        /\ net[c][<<from, n>>] # << >>
        /\ NotFull(n, f) /\ q' = Enq(n, f, msg) /\ UNCHANGED <<tagVars, tagTable, burstCnt>>
        /\ SetsNet(c, <<from, n>>, v)
        /\ UNCHANGED <<hostVars, dmaVars, ctrl>>
  BY DEF RecRemote, SetsNet, Put
<1>2. Typed /\ NetTyped
  BY DEF TagInv, Typed
<1>3. msg \in MessagesTo(n)[c] /\ v \in Seq(MessagesTo(n)[c])
  <2>1. net[c][<<from, n>>] \in Seq(MessagesTo(n)[c])
    BY <1>2 DEF NetTyped
  <2> QED BY <1>1, <2>1, HeadTailType
<1>4. NetTyped'
  BY <1>1, <1>2, <1>3, NetSetTo
<1>5. f \in Uncounted /\ msg \in ItemsOf(n)[f]
  BY <1>1, <1>3, ClassQueues
<1>6. QueuesTyped' /\ \A m \in Node, h \in ViewNames : q'[m][h] = q[m][h]
  BY <1>1, <1>5, PutElsewhere
<1>7. HostsTyped' /\ UNCHANGED ctrl
  BY <1>1, <1>2, OutsideTyped
<1> QED BY <1>1, <1>4, <1>6, <1>7, ElsewhereStep

-----------------------------------------------------------------------------
\* The entry of a slot leads back to it.
LEMMA SlotEntry ==
  ASSUME NEW s \in Slots
  PROVE  /\ EntryOf(s) \in Entry /\ s[1] \in Node /\ s[2] \in Op
         /\ SlotOf(EntryOf(s).src, s[2], EntryOf(s).origTag) = s
         /\ EntryOf(s).src = s[1]
<1>1. s \in Node \X {"read", "write", "erase"} \X Nat
  BY SlotAssumption
<1> QED BY <1>1 DEF EntryOf, Entry, SlotOf, Op

\* The controller's record of one tag changes.
SetsCtrl(n, t, c) == ctrl' = [ctrl EXCEPT ![n][t] = c]

\* Then only that record changes.
LEMMA CtrlSet ==
  ASSUME Typed, NEW n \in Node, NEW t \in Tag, NEW c \in {Free} \cup Work, SetsCtrl(n, t, c)
  PROVE  /\ ctrl' \in [Node -> [Tag -> {Free} \cup Work]]
         /\ \A m \in Node, u \in Tag : ctrl'[m][u] = IF m = n /\ u = t THEN c ELSE ctrl[m][u]
         /\ \A m \in Node : m # n => ctrl'[m] = ctrl[m]
<1>1. ctrl \in [Node -> [Tag -> {Free} \cup Work]]
  BY DEF Typed, TagsTyped
<1>2. /\ ctrl' \in [Node -> [Tag -> {Free} \cup Work]]
      /\ \A m \in Node, u \in Tag : ctrl'[m][u] = IF m = n /\ u = t THEN c ELSE ctrl[m][u]
  BY <1>1, MatrixPut DEF SetsCtrl
<1>3. \A m \in Node : m # n => ctrl'[m] = ctrl[m]
  BY <1>1 DEF SetsCtrl
<1> QED BY <1>2, <1>3

\* The other nodes keep the invariant when only node n changes.
LEMMA OnlyNode ==
  ASSUME TagInv, NEW n \in Node, Typed', NodeInv(n)',
         \A m \in Node, f \in ViewNames : m # n => q'[m][f] = q[m][f],
         \A m \in Node : m # n => Tags(m)' = Tags(m) /\ tagTable'[m] = tagTable[m]
                                    /\ burstCnt'[m] = burstCnt[m] /\ ctrl'[m] = ctrl[m]
  PROVE  TagInv'
<1>1. ASSUME NEW m \in Node, m # n PROVE NodeInv(m)'
  <2>1. View(m)' = View(m)
    BY <1>1 DEF View, ViewNames
  <2>2. NodeInv(m)
    BY DEF TagInv
  <2> QED BY <1>1, <2>1, <2>2, NodeStays
<1> QED BY <1>1 DEF TagInv

\* The controller gets on with a write.
LEMMA WriteGoesOn ==
  ASSUME TagInv, NEW n \in Node, NEW t \in Tag, ctrl[n][t].op = "write",
         NEW c \in Work, c.op = "write", c.page = ctrl[n][t].page, SetsCtrl(n, t, c),
         QueuesTyped', HostsTyped', NetTyped',
         \A m \in Node, h \in ViewNames : q'[m][h] = q[m][h],
         UNCHANGED <<tagVars, tagTable, burstCnt>>
  PROVE  TagInv'
<1>1. Typed /\ NodeInv(n) /\ Aligned(n)
  BY DEF TagInv, NodeInv
<1>2. /\ ctrl' \in [Node -> [Tag -> {Free} \cup Work]]
      /\ \A m \in Node, u \in Tag : ctrl'[m][u] = IF m = n /\ u = t THEN c ELSE ctrl[m][u]
      /\ \A m \in Node : m # n => ctrl'[m] = ctrl[m]
  BY <1>1, CtrlSet
<1>3. Typed'
  BY <1>1, <1>2 DEF Typed, TagsTyped, tagVars
<1>4. View(n)' = View(n)
  BY DEF View, ViewNames
<1>5. Aligned(n)' /\ Unlooked(n)' = Unlooked(n)
  BY <1>1, <1>4, PipeStays
<1>6. ctrl[n][t] # Free /\ c # Free
  <2>1. c \in Work
    OBVIOUS
  <2> QED BY DEF Free
<1>7. ASSUME NEW u \in Tag PROVE WordsCounted(n, u)'
  <2>1. WordsCounted(n, u)
    BY <1>1 DEF NodeInv
  <2>2. ctrl'[n][u].op = ctrl[n][u].op /\ (ctrl[n][u].op = "read" => ctrl'[n][u] = ctrl[n][u])
    BY <1>2
  <2> QED BY <1>5, <2>1, <2>2 DEF WordsCounted
<1>8. TableMatches(n)'
  <2>1. TableMatches(n)
    BY <1>1 DEF NodeInv
  <2>2. q'[n].locCmdOutQ = q[n].locCmdOutQ
    BY DEF ViewNames
  <2>3. \A u \in Tag : ctrl'[n][u] # Free
           => ctrl[n][u] # Free /\ ctrl'[n][u].page = ctrl[n][u].page
    BY <1>2, <1>6
  <2> QED BY <1>5, <2>1, <2>2, <2>3 DEF TableMatches
<1>9. TagsConserved(n)'
  <2>1. ASSUME NEW u \in Tag PROVE Whereabouts(n, u)'
    <3>1. Whereabouts(n, u)
      BY <1>1, WhereaboutsIs DEF NodeInv
    <3>2. AtWork(n, u)' = AtWork(n, u)
      BY <1>2, <1>6 DEF AtWork
    <3>3. Fresh(n, u)' = Fresh(n, u) /\ UNCHANGED <<freeTagQ, freeTagRdQ, freeTagAckQ>>
      BY DEF Fresh, tagVars
    <3>4. /\ q'[n].locCmdOutQ = q[n].locCmdOutQ /\ q'[n].locRdInQ = q[n].locRdInQ
          /\ q'[n].locAckInQ = q[n].locAckInQ
      BY DEF ViewNames
    <3> QED BY <3>1, <3>2, <3>3, <3>4 DEF Whereabouts
  <2> QED BY <2>1, WhereaboutsIs
<1>10. NodeInv(n)'
  BY <1>5, <1>7, <1>8, <1>9 DEF NodeInv
<1>11. \A m \in Node : Tags(m)' = Tags(m)
  BY DEF Tags, tagVars
<1> QED BY <1>2, <1>3, <1>10, <1>11, OnlyNode

\* The controller asks for the data of a write.
LEMMA LocWriteReqStep ==
  ASSUME TagInv, NEW n \in Node, NEW t \in Tag, LocWriteReq(n, t)
  PROVE  TagInv'
<1>1. Typed /\ NodeInv(n)
  BY DEF TagInv
<1>2. PICK r, c :
        /\ r = [reTag |-> t, entry |-> tagTable[n][t]] /\ c = [ctrl[n][t] EXCEPT !.asked = TRUE]
        /\ NotFull(n, "locWreqInQ") /\ q' = Enq(n, "locWreqInQ", r)
        /\ UNCHANGED <<tagVars, tagTable, burstCnt>> /\ UNCHANGED <<hostVars, dmaVars, net>>
        /\ SetsCtrl(n, t, c) /\ ctrl[n][t].op = "write"
  <2>1. ctrl' = [ctrl EXCEPT ![n][t] = [ctrl[n][t] EXCEPT !.asked = TRUE]]
    BY DEF LocWriteReq
  <2> QED BY <2>1 DEF LocWriteReq, LocCliWriteDataReq, SetsCtrl
<1>3. ctrl[n][t] \in Work
  <2>1. ctrl[n][t] # Free
    BY <1>2 DEF Free
  <2> QED BY <1>1, <2>1, CtrlTypes
<1>4. c \in Work /\ c.op = "write" /\ c.page = ctrl[n][t].page
  BY <1>2, <1>3 DEF Work
<1>5. r \in ItemsOf(n)["locWreqInQ"]
  <2>1. ctrl[n][t].page \in Slots /\ ctrl[n][t].page[2] = "write"
    BY <1>2, <1>3 DEF Work
  <2>2. tagTable[n][t] = EntryOf(ctrl[n][t].page)
    <3>1. ctrl[n][t] # Free
      BY <1>2 DEF Free
    <3> QED BY <1>1, <3>1 DEF NodeInv, TableMatches
  <2>3. /\ tagTable[n][t] \in Entry
        /\ SlotOf(tagTable[n][t].src, "write", tagTable[n][t].origTag) \in Slots
    BY <2>1, <2>2, SlotEntry
  <2>4. r \in WreqIn
    BY <1>2, <2>3 DEF WreqIn
  <2> QED BY <2>4 DEF ItemsOf
<1>6. QueuesTyped' /\ \A m \in Node, h \in ViewNames : q'[m][h] = q[m][h]
  BY <1>2, <1>5, UncountedNames, PutElsewhere
<1>7. HostsTyped' /\ NetTyped'
  BY <1>1, <1>2, OutsideTyped
<1> QED BY <1>2, <1>4, <1>6, <1>7, WriteGoesOn

\* The controller takes a word of write data.
LEMMA LocWriteDataStep ==
  ASSUME TagInv, NEW n \in Node, LocWriteData(n)
  PROVE  TagInv'
<1>1. Typed
  BY DEF TagInv
<1>2. PICK t, c :
        /\ t = First(n, "locWdataOutQ").tag /\ c = [ctrl[n][t] EXCEPT !.cnt = @ + 1]
        /\ Get(n, "locWdataOutQ") /\ UNCHANGED <<hostVars, dmaVars, net>>
        /\ SetsCtrl(n, t, c) /\ ctrl[n][t].op = "write"
  <2> DEFINE u == First(n, "locWdataOutQ").tag
  <2>1. ctrl' = [ctrl EXCEPT ![n][u] = [ctrl[n][u] EXCEPT !.cnt = @ + 1]]
    BY DEF LocWriteData
  <2> QED BY <2>1 DEF LocWriteData, SetsCtrl
<1>3. /\ QueuesTyped' /\ \A m \in Node, h \in ViewNames : q'[m][h] = q[m][h]
      /\ First(n, "locWdataOutQ") \in ItemsOf(n)["locWdataOutQ"]
      /\ UNCHANGED <<tagVars, tagTable, burstCnt>>
  BY <1>2, GetElsewhere, UncountedNames
<1>4. t \in Tag
  <2>1. First(n, "locWdataOutQ") \in WrWord
    BY <1>3 DEF ItemsOf, To
  <2> QED BY <1>2, <2>1 DEF WrWord
<1>5. ctrl[n][t] \in Work
  <2>1. ctrl[n][t] # Free
    BY <1>2 DEF Free
  <2> QED BY <1>1, <1>4, <2>1, CtrlTypes
<1>6. c \in Work /\ c.op = "write" /\ c.page = ctrl[n][t].page
  BY <1>2, <1>5 DEF Work
<1>7. HostsTyped' /\ NetTyped'
  BY <1>1, <1>2, OutsideTyped
<1> QED BY <1>2, <1>3, <1>4, <1>6, <1>7, WriteGoesOn

-----------------------------------------------------------------------------
\* The tag of a node's command, and of one only, is at the controller's.
LEMMA IssueFlashCmdStep ==
  ASSUME TagInv, NEW n \in Node, IssueFlashCmd(n)
  PROVE  TagInv'
<1>1. Typed /\ QueuesTyped /\ NodeInv(n) /\ Aligned(n)
  BY DEF TagInv, Typed, NodeInv
<1>2. PICK cmd, t, c :
        /\ cmd = First(n, "locCmdOutQ") /\ t = cmd.tag
        /\ c = [op |-> cmd.op, page |-> cmd.page, asked |-> FALSE, cnt |-> 0]
        /\ NotEmpty(n, "locCmdOutQ") /\ q' = Deq(n, "locCmdOutQ")
        /\ UNCHANGED <<tagVars, tagTable, burstCnt>> /\ UNCHANGED <<hostVars, dmaVars, net>>
        /\ SetsCtrl(n, t, c)
  BY DEF IssueFlashCmd, SetsCtrl, Get
<1>3. "locCmdOutQ" \in Names
  BY DEF Names, PlainQ
<1>4. /\ QueuesTyped' /\ First(n, "locCmdOutQ") \in ItemsOf(n)["locCmdOutQ"]
      /\ \A m \in Node, g \in Names :
           q'[m][g] = IF m = n /\ g = "locCmdOutQ" THEN Tail(q[n]["locCmdOutQ"]) ELSE q[m][g]
  BY <1>1, <1>2, <1>3, DeqQ
<1>5. cmd \in FlashCmd /\ t \in Tag
  <2>1. cmd \in FlashCmd
    BY <1>2, <1>4 DEF ItemsOf
  <2> QED BY <1>2, <2>1 DEF FlashCmd
<1>6. c \in Work /\ c # Free /\ c.op = cmd.op /\ c.page = cmd.page /\ c.cnt = 0
  <2>1. c \in [op : Op, page : Slots, asked : BOOLEAN, cnt : Nat]
    BY <1>2, <1>5 DEF FlashCmd
  <2>2. c.page[2] = c.op /\ 0 < PageWords
    BY <1>2, <1>5, SizeAssumption DEF FlashCmd
  <2>3. c \in Work
    BY <1>2, <2>1, <2>2 DEF Work
  <2> QED BY <1>2, <2>3 DEF Work, Free
<1>7. /\ ctrl' \in [Node -> [Tag -> {Free} \cup Work]]
      /\ \A m \in Node, u \in Tag : ctrl'[m][u] = IF m = n /\ u = t THEN c ELSE ctrl[m][u]
      /\ \A m \in Node : m # n => ctrl'[m] = ctrl[m]
  BY <1>1, <1>2, <1>5, <1>6, CtrlSet
<1>8. Typed'
  <2>1. HostsTyped' /\ NetTyped'
    BY <1>1, <1>2, OutsideTyped
  <2>2. TagsTyped'
    BY <1>1, <1>2, <1>7 DEF Typed, TagsTyped, tagVars
  <2> QED BY <1>4, <2>1, <2>2 DEF Typed
<1>9. /\ q'[n].locCmdOutQ = Tail(q[n].locCmdOutQ) /\ q'[n].locRdInQ = q[n].locRdInQ
      /\ q'[n].lookupQ = q[n].lookupQ /\ q'[n].locRdInTagQ = q[n].locRdInTagQ
      /\ q'[n].locAckInQ = q[n].locAckInQ
  BY <1>4 DEF Names, SizedQ, PlainQ
<1>10. q[n].locCmdOutQ \in Seq(FlashCmd) /\ q[n].locCmdOutQ # << >>
       /\ cmd = Head(q[n].locCmdOutQ)
  BY <1>1, <1>2, QueueTypes DEF NotEmpty, First
<1>11. \A u \in Tag : Whereabouts(n, u)
  BY <1>1, WhereaboutsIs DEF NodeInv
<1>12. ASSUME NEW u \in Tag
       PROVE  /\ TagPositions(q[n].locCmdOutQ, u)
                   = TagPositions(Tail(q[n].locCmdOutQ), u) + IF t = u THEN 1 ELSE 0
              /\ TagPositions(Tail(q[n].locCmdOutQ), u) \in Nat
  BY <1>2, <1>10, TagPositionsSteps
<1>13. ctrl[n][t] = Free /\ LastWords(q[n].locRdInQ, t) = 0
  <2>1. TagPositions(q[n].locCmdOutQ, t) >= 1
    BY <1>5, <1>12
  <2>2. Whereabouts(n, t) /\ PlacesTyped(n, t)
    BY <1>1, <1>5, <1>11, TagSum
  <2>3. AtWork(n, t) = 0 /\ LastWords(q[n].locRdInQ, t) = 0
    BY <2>1, <2>2 DEF Whereabouts, PlacesTyped
  <2> QED BY <2>3 DEF AtWork
<1>14. burstCnt[n][t] = 0 /\ CountIn(Unlooked(n), Under(t)) = 0
  BY <1>5, <1>13, QuietTag
<1>15. Aligned(n)' /\ Unlooked(n)' = Unlooked(n)
  <2>1. Unlooked(n)' = Unlooked(n)
    BY <1>9 DEF Unlooked
  <2> QED BY <1>1, <1>9, <2>1 DEF Aligned
<1>16. ASSUME NEW u \in Tag PROVE WordsCounted(n, u)'
  <2>1. WordsCounted(n, u)
    BY <1>1 DEF NodeInv
  <2>2. burstCnt' = burstCnt
    BY <1>2
  <2>3. CASE u = t
    <3>1. ctrl'[n][u] = c
      BY <1>5, <1>7, <2>3
    <3>2. burstCnt[n][u] + CountIn(Unlooked(n), Under(u)) = 0
      BY <1>14, <2>3
    <3> QED BY <1>6, <1>15, <2>1, <2>2, <3>1, <3>2 DEF WordsCounted
  <2>4. CASE u # t
    <3>1. ctrl'[n][u] = ctrl[n][u]
      BY <1>7, <2>4
    <3> QED BY <1>15, <2>1, <2>2, <3>1 DEF WordsCounted
  <2> QED BY <2>3, <2>4
<1>17. TableMatches(n)'
  <2>1. TableMatches(n) /\ UNCHANGED tagTable
    BY <1>1, <1>2 DEF NodeInv
  <2>2. ASSUME NEW i \in DOMAIN q'[n].locCmdOutQ
        PROVE  tagTable[n][q'[n].locCmdOutQ[i].tag] = EntryOf(q'[n].locCmdOutQ[i].page)
    <3>1. i + 1 \in DOMAIN q[n].locCmdOutQ /\ q'[n].locCmdOutQ[i] = q[n].locCmdOutQ[i + 1]
      BY <1>9, <1>10, <2>2
    <3> QED BY <2>1, <3>1 DEF TableMatches
  <2>3. ASSUME NEW u \in Tag, ctrl'[n][u] # Free
        PROVE  tagTable[n][u] = EntryOf(ctrl'[n][u].page)
    <3>1. CASE u = t
      <4>1. ctrl'[n][u].page = cmd.page
        BY <1>5, <1>6, <1>7, <3>1
      <4>2. 1 \in DOMAIN q[n].locCmdOutQ /\ q[n].locCmdOutQ[1] = cmd
        BY <1>10
      <4>3. tagTable[n][cmd.tag] = EntryOf(cmd.page)
        BY <2>1, <4>2 DEF TableMatches
      <4> QED BY <1>2, <3>1, <4>1, <4>3
    <3>2. CASE u # t
      BY <1>7, <2>1, <2>3, <3>2 DEF TableMatches
    <3> QED BY <3>1, <3>2
  <2> QED BY <1>15, <2>1, <2>2, <2>3 DEF TableMatches
<1>18. ASSUME NEW u \in Tag PROVE Whereabouts(n, u)'
  <2>1. Whereabouts(n, u) /\ PlacesTyped(n, u)
    BY <1>1, <1>11, TagSum
  <2>2. AtWork(n, u)' = AtWork(n, u) + IF t = u THEN 1 ELSE 0
    BY <1>5, <1>6, <1>7, <1>13 DEF AtWork
  <2>3. Fresh(n, u)' = Fresh(n, u) /\ UNCHANGED <<freeTagQ, freeTagRdQ, freeTagAckQ>>
    BY <1>2 DEF Fresh, tagVars
  <2>4. /\ TagPositions(q[n].locCmdOutQ, u)
             = TagPositions(q'[n].locCmdOutQ, u) + IF t = u THEN 1 ELSE 0
        /\ TagPositions(q'[n].locCmdOutQ, u) \in Nat
    BY <1>9, <1>12
  <2>5. /\ LastWords(q[n].locRdInQ, u)' = LastWords(q[n].locRdInQ, u)
        /\ TagPositions(q[n].locAckInQ, u)' = TagPositions(q[n].locAckInQ, u)
    BY <1>9
  <2> QED BY <2>1, <2>2, <2>3, <2>4, <2>5 DEF Whereabouts, PlacesTyped
<1>19. NodeInv(n)'
  BY <1>15, <1>16, <1>17, <1>18, WhereaboutsIs DEF NodeInv
<1>20. \A m \in Node : Tags(m)' = Tags(m)
  BY <1>2 DEF Tags, tagVars
<1>21. \A m \in Node, f \in ViewNames : m # n => q'[m][f] = q[m][f]
  BY <1>4, UncountedNames
<1> QED BY <1>2, <1>7, <1>8, <1>19, <1>20, <1>21, OnlyNode

\* The controller acks: its tag goes with the ack.
LEMMA LocAckStep ==
  ASSUME TagInv, NEW n \in Node, NEW t \in Tag, LocAck(n, t)
  PROVE  TagInv'
<1>1. Typed /\ QueuesTyped /\ NodeInv(n) /\ Aligned(n)
  BY DEF TagInv, Typed, NodeInv
<1>2. PICK a :
        /\ a = [tag |-> t, status |-> ctrl[n][t].op, entry |-> tagTable[n][t]]
        /\ ctrl[n][t].op \in {"write", "erase"}
        /\ NotFull(n, "locAckInQ") /\ q' = Enq(n, "locAckInQ", a)
        /\ UNCHANGED <<tagVars, tagTable, burstCnt>> /\ UNCHANGED <<hostVars, dmaVars, net>>
        /\ SetsCtrl(n, t, Free)
  BY DEF LocAck, LocCliAckStatus, SetsCtrl
<1>3. "locAckInQ" \in Names
  BY DEF Names, SizedQ
<1>4. ctrl[n][t] \in Work /\ ctrl[n][t] # Free
  <2>1. ctrl[n][t] # Free
    BY <1>2 DEF Free
  <2> QED BY <1>1, <2>1, CtrlTypes
<1>5. a \in ItemsOf(n)["locAckInQ"] /\ a.tag = t
  <2>1. ctrl[n][t].page \in Slots /\ ctrl[n][t].page[2] = ctrl[n][t].op
    BY <1>4 DEF Work
  <2>2. tagTable[n][t] = EntryOf(ctrl[n][t].page)
    BY <1>1, <1>4 DEF NodeInv, TableMatches
  <2>3. /\ tagTable[n][t] \in Entry
        /\ SlotOf(tagTable[n][t].src, ctrl[n][t].op, tagTable[n][t].origTag) \in Slots
    BY <2>1, <2>2, SlotEntry
  <2>4. a \in AckIn
    BY <1>2, <2>3 DEF AckIn
  <2> QED BY <1>2, <2>4 DEF ItemsOf
<1>6. /\ QueuesTyped'
      /\ \A m \in Node, g \in Names :
           q'[m][g] = IF m = n /\ g = "locAckInQ" THEN Append(q[n]["locAckInQ"], a) ELSE q[m][g]
  BY <1>1, <1>2, <1>3, <1>5, EnqQ
<1>7. /\ ctrl' \in [Node -> [Tag -> {Free} \cup Work]]
      /\ \A m \in Node, u \in Tag : ctrl'[m][u] = IF m = n /\ u = t THEN Free ELSE ctrl[m][u]
      /\ \A m \in Node : m # n => ctrl'[m] = ctrl[m]
  BY <1>1, <1>2, CtrlSet
<1>8. Typed'
  <2>1. HostsTyped' /\ NetTyped'
    BY <1>1, <1>2, OutsideTyped
  <2>2. TagsTyped'
    BY <1>1, <1>2, <1>7 DEF Typed, TagsTyped, tagVars
  <2> QED BY <1>6, <2>1, <2>2 DEF Typed
<1>9. /\ q'[n].locCmdOutQ = q[n].locCmdOutQ /\ q'[n].locRdInQ = q[n].locRdInQ
      /\ q'[n].lookupQ = q[n].lookupQ /\ q'[n].locRdInTagQ = q[n].locRdInTagQ
      /\ q'[n].locAckInQ = Append(q[n].locAckInQ, a)
  BY <1>6 DEF Names, SizedQ, PlainQ
<1>10. Aligned(n)' /\ Unlooked(n)' = Unlooked(n)
  <2>1. Unlooked(n)' = Unlooked(n)
    BY <1>9 DEF Unlooked
  <2> QED BY <1>1, <1>9, <2>1 DEF Aligned
<1>11. ASSUME NEW u \in Tag PROVE WordsCounted(n, u)'
  <2>1. WordsCounted(n, u) /\ burstCnt' = burstCnt
    BY <1>1, <1>2 DEF NodeInv
  <2>2. CASE u = t
    <3>1. ctrl'[n][u].op # "read" /\ ctrl[n][u].op # "read"
      BY <1>2, <1>7, <2>2 DEF Free
    <3> QED BY <1>10, <2>1, <3>1 DEF WordsCounted
  <2>3. CASE u # t
    <3>1. ctrl'[n][u] = ctrl[n][u]
      BY <1>7, <2>3
    <3> QED BY <1>10, <2>1, <3>1 DEF WordsCounted
  <2> QED BY <2>2, <2>3
<1>12. TableMatches(n)'
  <2>1. TableMatches(n) /\ UNCHANGED tagTable
    BY <1>1, <1>2 DEF NodeInv
  <2>2. \A u \in Tag : ctrl'[n][u] # Free => ctrl'[n][u] = ctrl[n][u]
    BY <1>7
  <2> QED BY <1>9, <1>10, <2>1, <2>2 DEF TableMatches
<1>13. ASSUME NEW u \in Tag PROVE Whereabouts(n, u)'
  <2>1. Whereabouts(n, u) /\ PlacesTyped(n, u)
    BY <1>1, TagSum, WhereaboutsIs DEF NodeInv
  <2>2. AtWork(n, u) = AtWork(n, u)' + (IF t = u THEN 1 ELSE 0) /\ AtWork(n, u)' \in Nat
    BY <1>4, <1>7 DEF AtWork
  <2>3. Fresh(n, u)' = Fresh(n, u) /\ UNCHANGED <<freeTagQ, freeTagRdQ, freeTagAckQ>>
    BY <1>2 DEF Fresh, tagVars
  <2>4. TagPositions(q'[n].locAckInQ, u)
          = TagPositions(q[n].locAckInQ, u) + IF t = u THEN 1 ELSE 0
    <3>1. q[n].locAckInQ \in Seq(AckIn) /\ a \in AckIn
      BY <1>1, <1>5, QueueTypes DEF ItemsOf
    <3> QED BY <1>5, <1>9, <3>1, TagPositionsSteps
  <2>5. /\ LastWords(q[n].locRdInQ, u)' = LastWords(q[n].locRdInQ, u)
        /\ TagPositions(q[n].locCmdOutQ, u)' = TagPositions(q[n].locCmdOutQ, u)
    BY <1>9
  <2> QED BY <2>1, <2>2, <2>3, <2>4, <2>5 DEF Whereabouts, PlacesTyped
<1>14. NodeInv(n)'
  BY <1>10, <1>11, <1>12, <1>13, WhereaboutsIs DEF NodeInv
<1>15. \A m \in Node : Tags(m)' = Tags(m)
  BY <1>2 DEF Tags, tagVars
<1>16. \A m \in Node, f \in ViewNames : m # n => q'[m][f] = q[m][f]
  BY <1>6, UncountedNames
<1> QED BY <1>2, <1>7, <1>8, <1>14, <1>15, <1>16, OnlyNode

\* The ack leaves the splitter and gives its tag back.
LEMMA ForwardAckStep ==
  ASSUME TagInv, NEW n \in Node, ForwardAck(n), Outside
  PROVE  TagInv'
<1> DEFINE in == First(n, "locAckInQ")
<1>1. Typed /\ QueuesTyped /\ NodeInv(n) /\ Aligned(n)
  BY DEF TagInv, Typed, NodeInv
<1>2. PICK out, ack, t :
        /\ out = IF in.entry.src = n THEN "locAckOutQ" ELSE "remAckOutQ"
        /\ ack = [tag |-> in.entry.origTag, status |-> in.status, dst |-> in.entry.src]
        /\ t = in.tag
        /\ NotEmpty(n, "locAckInQ") /\ NotFull(n, out) /\ q' = Move(n, "locAckInQ", out, ack)
        /\ freeTagAckQ' = [freeTagAckQ EXCEPT ![n] = Append(@, t)]
        /\ UNCHANGED <<initTagCnt, freeTagQ, freeTagRdQ, tagTable, burstCnt>>
  BY DEF ForwardAck, AckFor
<1>3. "locAckInQ" \in Names /\ out \in Names /\ "locAckInQ" # out /\ out \in Uncounted
  BY <1>2, UncountedNames DEF Names, SizedQ, PlainQ
<1>4. in \in AckIn /\ t \in Tag
  <2>1. in \in ItemsOf(n)["locAckInQ"]
    BY <1>1, <1>2, <1>3, FirstType
  <2>2. in \in AckIn
    BY <2>1 DEF ItemsOf
  <2> HIDE DEF in
  <2> QED BY <1>2, <2>2 DEF AckIn
<1>5. ack \in ItemsOf(n)[out]
  <2> HIDE DEF in
  <2>1. ack \in Ack /\ ack.dst = in.entry.src
    BY <1>2, <1>4 DEF Ack, AckIn, Entry
  <2> QED BY <1>2, <2>1 DEF ItemsOf, To
<1>6. /\ QueuesTyped'
      /\ \A m \in Node, h \in Names :
           q'[m][h] = IF m = n /\ h = "locAckInQ" THEN Tail(q[n]["locAckInQ"])
                      ELSE IF m = n /\ h = out THEN Append(q[n][out], ack) ELSE q[m][h]
  BY <1>1, <1>2, <1>3, <1>5, MoveQ
<1>7. /\ freeTagAckQ' \in [Node -> Seq(Tag)]
      /\ freeTagAckQ'[n] = Append(freeTagAckQ[n], t)
      /\ \A m \in Node : m # n => freeTagAckQ'[m] = freeTagAckQ[m]
  <2>1. freeTagAckQ \in [Node -> Seq(Tag)]
    BY <1>1 DEF Typed, TagsTyped
  <2>2. freeTagAckQ' \in [Node -> Seq(Tag)]
    BY <1>2, <1>4, <2>1, PushType
  <2> QED BY <1>2, <2>1, <2>2
<1>8. Typed'
  <2>1. HostsTyped' /\ NetTyped' /\ UNCHANGED ctrl
    BY <1>1, OutsideTyped DEF Outside
  <2>2. TagsTyped'
    BY <1>1, <1>2, <1>7, <2>1 DEF Typed, TagsTyped
  <2> QED BY <1>6, <2>1, <2>2 DEF Typed
<1>9. /\ q'[n].locCmdOutQ = q[n].locCmdOutQ /\ q'[n].locRdInQ = q[n].locRdInQ
      /\ q'[n].lookupQ = q[n].lookupQ /\ q'[n].locRdInTagQ = q[n].locRdInTagQ
      /\ q'[n].locAckInQ = Tail(q[n].locAckInQ)
  BY <1>3, <1>6 DEF Names, SizedQ, PlainQ, Uncounted, ViewNames
<1>10. Aligned(n)' /\ Unlooked(n)' = Unlooked(n)
  <2>1. Unlooked(n)' = Unlooked(n)
    BY <1>9 DEF Unlooked
  <2> QED BY <1>1, <1>9, <2>1 DEF Aligned
<1>11. UNCHANGED <<tagTable, burstCnt, ctrl, initTagCnt, freeTagQ, freeTagRdQ>>
  BY <1>2 DEF Outside
<1>12. \A u \in Tag : WordsCounted(n, u)'
  BY <1>1, <1>10, <1>11 DEF NodeInv, WordsCounted
<1>13. TableMatches(n)'
  BY <1>1, <1>9, <1>10, <1>11 DEF NodeInv, TableMatches
<1>14. ASSUME NEW u \in Tag PROVE Whereabouts(n, u)'
  <2>1. Whereabouts(n, u) /\ PlacesTyped(n, u)
    BY <1>1, TagSum, WhereaboutsIs DEF NodeInv
  <2>2. Fresh(n, u)' = Fresh(n, u) /\ AtWork(n, u)' = AtWork(n, u)
    BY <1>11 DEF Fresh, AtWork
  <2>3. /\ TagPositions(q[n].locAckInQ, u)
             = TagPositions(q'[n].locAckInQ, u) + IF t = u THEN 1 ELSE 0
        /\ TagPositions(q'[n].locAckInQ, u) \in Nat
    <3>1. q[n].locAckInQ \in Seq(AckIn) /\ q[n].locAckInQ # << >> /\ Head(q[n].locAckInQ).tag = t
      BY <1>1, <1>2, QueueTypes DEF NotEmpty, First
    <3> QED BY SMTT(30), <1>9, <3>1, TagPositionsSteps
  <2>4. Positions(freeTagAckQ'[n], u) = Positions(freeTagAckQ[n], u) + IF t = u THEN 1 ELSE 0
    <3>1. freeTagAckQ[n] \in Seq(Tag)
      BY <1>1, NodeTypes
    <3> QED BY <1>4, <1>7, <3>1, PositionsSteps
  <2>5. /\ LastWords(q[n].locRdInQ, u)' = LastWords(q[n].locRdInQ, u)
        /\ TagPositions(q[n].locCmdOutQ, u)' = TagPositions(q[n].locCmdOutQ, u)
    BY <1>9
  <2>6. UNCHANGED <<freeTagQ, freeTagRdQ>>
    BY <1>11
  <2> QED BY <2>1, <2>2, <2>3, <2>4, <2>5, <2>6 DEF Whereabouts, PlacesTyped
<1>15. NodeInv(n)'
  BY <1>10, <1>12, <1>13, <1>14, WhereaboutsIs DEF NodeInv
<1>16. \A m \in Node : m # n => Tags(m)' = Tags(m)
  BY <1>7, <1>11 DEF Tags
<1>17. \A m \in Node, f \in ViewNames : m # n => q'[m][f] = q[m][f]
  BY <1>6, UncountedNames
<1> QED BY <1>8, <1>11, <1>15, <1>16, <1>17, OnlyNode

-----------------------------------------------------------------------------
\* The controller gives the next word of a page.
LEMMA EnqReadFromFlashStep ==
  ASSUME TagInv, NEW n \in Node, NEW t \in Tag, EnqReadFromFlash(n, t)
  PROVE  TagInv'
<1>1. Typed /\ QueuesTyped /\ NodeInv(n) /\ Aligned(n) /\ TableMatches(n)
  BY DEF TagInv, Typed, NodeInv
<1>2. PICK c, w, v, z, d :
        /\ c = ctrl[n][t] /\ w = [tag |-> t, dst |-> n, page |-> c.page, idx |-> c.cnt]
        /\ v = Append(q[n].locRdInQ, w) /\ z = Append(q[n].locRdInTagQ, t)
        /\ d = IF c.cnt = PageWords - 1 THEN Free ELSE [c EXCEPT !.cnt = @ + 1]
  OBVIOUS
<1>21. /\ c.op = "read" /\ LocCliReadWord(n, w)
       /\ UNCHANGED <<hostVars, dmaVars, net>> /\ SetsCtrl(n, t, d)
  BY <1>2 DEF EnqReadFromFlash, SetsCtrl
<1>22. /\ NotFull(n, "locRdInQ") /\ NotFull(n, "locRdInTagQ")
       /\ SetsTwo(n, "locRdInQ", v, "locRdInTagQ", z)
       /\ UNCHANGED <<tagVars, tagTable, burstCnt>>
  <2>1. q \in [Node -> [Names -> QSet]]
    BY <1>1 DEF QueuesTyped
  <2>2. w.tag = t
    BY <1>2
  <2>3. q' = [q EXCEPT ![n]["locRdInQ"] = Append(@, w),
                       ![n]["locRdInTagQ"] = Append(@, t)]
    BY <1>21, <2>2 DEF LocCliReadWord
  <2>4. q' = [q EXCEPT ![n]["locRdInQ"] = v, ![n]["locRdInTagQ"] = z]
    BY <1>2, <2>1, <2>3
  <2> QED BY <1>21, <2>4 DEF LocCliReadWord, SetsTwo
<1>3. {"locRdInQ", "locRdInTagQ"} \subseteq Names /\ "locRdInQ" # "locRdInTagQ"
  BY DEF Names, SizedQ, PlainQ
<1>4. c \in Work /\ c.cnt \in 0 .. PageWords - 1 /\ c # Free /\ PageWords \in Nat \ {0}
      /\ c.page \in Slots /\ c.page[2] = "read"
  <2>1. c # Free
    BY <1>2, <1>21, <1>22 DEF Free
  <2>2. c \in Work /\ PageWords \in Nat \ {0}
    BY <1>1, <1>2, <1>21, <1>22, <2>1, CtrlTypes, SizeAssumption
  <2>3. c.cnt \in Nat /\ c.cnt < PageWords /\ c.page \in Slots /\ c.page[2] = "read"
    BY <1>2, <1>21, <1>22, <2>2 DEF Work
  <2>4. c.cnt \in 0 .. PageWords - 1
    BY <2>2, <2>3
  <2> QED BY <2>1, <2>2, <2>3, <2>4
<1>5. w \in RdWord /\ w.tag = t /\ w.page = c.page /\ w.idx = c.cnt
  BY <1>2, <1>21, <1>22, <1>4 DEF RdWord
<1>6. q[n].locRdInQ \in Seq(RdWord) /\ q[n].locRdInTagQ \in Seq(Tag) /\ q[n].lookupQ \in Seq(Looked)
  BY <1>1, QueueTypes
<1>7. /\ QueuesTyped'
      /\ \A m \in Node, h \in Names :
           q'[m][h] = IF m = n /\ h = "locRdInQ" THEN v
                      ELSE IF m = n /\ h = "locRdInTagQ" THEN z ELSE q[m][h]
  <2>1. v \in Seq(ItemsOf(n)["locRdInQ"]) /\ Len(v) <= Depth("locRdInQ")
    <3>1. w \in ItemsOf(n)["locRdInQ"]
      BY <1>5 DEF ItemsOf
    <3> QED BY <1>1, <1>2, <1>21, <1>22, <1>3, <3>1, QueueFits
  <2>2. z \in Seq(ItemsOf(n)["locRdInTagQ"]) /\ Len(z) <= Depth("locRdInTagQ")
    <3>1. t \in ItemsOf(n)["locRdInTagQ"]
      BY DEF ItemsOf
    <3> QED BY <1>1, <1>2, <1>21, <1>22, <1>3, <3>1, QueueFits
  <2> QED BY <1>1, <1>22, <1>3, <2>1, <2>2, QueueSetTwo
<1>8. d \in {Free} \cup Work
  <2>1. CASE c.cnt = PageWords - 1
    BY <1>2, <1>21, <1>22, <2>1
  <2>2. CASE c.cnt # PageWords - 1
    <3>1. d = [c EXCEPT !.cnt = @ + 1]
      BY <1>2, <1>21, <1>22, <2>2
    <3>2. c.cnt + 1 \in Nat /\ c.cnt + 1 < PageWords
      BY <1>4, <2>2
    <3> QED BY <1>4, <3>1, <3>2 DEF Work
  <2> QED BY <2>1, <2>2
<1>9. /\ ctrl' \in [Node -> [Tag -> {Free} \cup Work]]
      /\ \A m \in Node, u \in Tag : ctrl'[m][u] = IF m = n /\ u = t THEN d ELSE ctrl[m][u]
      /\ \A m \in Node : m # n => ctrl'[m] = ctrl[m]
  BY <1>1, <1>2, <1>21, <1>22, <1>8, CtrlSet
<1>10. Typed'
  <2>1. HostsTyped' /\ NetTyped'
    BY <1>1, <1>2, <1>21, <1>22, OutsideTyped
  <2>2. TagsTyped'
    BY <1>1, <1>2, <1>21, <1>22, <1>9 DEF Typed, TagsTyped, tagVars
  <2> QED BY <1>7, <2>1, <2>2 DEF Typed
<1>11. /\ q'[n].locCmdOutQ = q[n].locCmdOutQ /\ q'[n].locRdInQ = Append(q[n].locRdInQ, w)
       /\ q'[n].lookupQ = q[n].lookupQ /\ q'[n].locRdInTagQ = Append(q[n].locRdInTagQ, t)
       /\ q'[n].locAckInQ = q[n].locAckInQ
  BY <1>2, <1>21, <1>22, <1>7 DEF Names, SizedQ, PlainQ
<1>12. /\ Unlooked(n) \in Seq(RdWord) /\ Len(Unlooked(n)) = Len(q[n].locRdInTagQ)
       /\ Len(q[n].lookupQ) \in 0 .. Len(q[n].locRdInQ)
  BY <1>1, UnlookedIs
<1>13. Unlooked(n)' = Append(Unlooked(n), w)
  BY SMTT(30), <1>5, <1>6, <1>11, <1>12, AfterSteps DEF Unlooked
<1>14. Aligned(n)'
  <2>1. Len(q'[n].locRdInQ) = Len(q'[n].lookupQ) + Len(q'[n].locRdInTagQ)
    <3>1. /\ Len(q'[n].locRdInQ) = Len(q[n].locRdInQ) + 1
          /\ Len(q'[n].locRdInTagQ) = Len(q[n].locRdInTagQ) + 1
          /\ Len(q[n].lookupQ) \in Nat /\ Len(q[n].locRdInTagQ) \in Nat
      BY <1>6, <1>11
    <3>2. Len(q[n].locRdInQ) = Len(q[n].lookupQ) + Len(q[n].locRdInTagQ)
      BY <1>1 DEF Aligned
    <3>3. q'[n].lookupQ = q[n].lookupQ
      BY <1>11
    <3>4. \A a, b \in Nat : (a + b) + 1 = a + (b + 1)
      OBVIOUS
    <3> QED BY <3>1, <3>2, <3>3, <3>4, Zenon
  <2>2. ASSUME NEW i \in DOMAIN q'[n].locRdInTagQ
        PROVE  q'[n].locRdInTagQ[i] = Unlooked(n)'[i].tag
    <3> DEFINE k == Len(q[n].locRdInTagQ)
    <3>1. k \in Nat /\ i \in 1 .. k + 1
      BY <1>6, <1>11, <2>2
    <3>2. CASE i = k + 1
      <4>1. q'[n].locRdInTagQ[i] = t
        BY <1>6, <1>11, <3>2
      <4>2. Unlooked(n)'[i] = w
        BY <1>12, <1>13, <3>2
      <4> QED BY <1>5, <4>1, <4>2
    <3>3. CASE i # k + 1
      <4>1. i \in 1 .. k
        BY <3>1, <3>3
      <4>2. q'[n].locRdInTagQ[i] = q[n].locRdInTagQ[i] /\ i \in DOMAIN q[n].locRdInTagQ
        BY <1>6, <1>11, <4>1
      <4>3. Unlooked(n)'[i] = Unlooked(n)[i]
        BY <1>12, <1>13, <4>1
      <4> QED BY <1>1, <4>2, <4>3 DEF Aligned
    <3> QED BY <3>2, <3>3
  <2>3. ASSUME NEW i \in DOMAIN q'[n].lookupQ
        PROVE  /\ q'[n].lookupQ[i].last <=> q'[n].locRdInQ[i].idx = PageWords - 1
               /\ q'[n].lookupQ[i].entry = EntryOf(q'[n].locRdInQ[i].page)
    <3>1. i \in DOMAIN q[n].lookupQ /\ i \in 1 .. Len(q[n].locRdInQ)
      BY <1>6, <1>11, <1>12, <2>3
    <3>2. q'[n].locRdInQ[i] = q[n].locRdInQ[i]
      BY <1>6, <1>11, <3>1
    <3> QED BY <1>1, <1>11, <3>1, <3>2 DEF Aligned
  <2> QED BY <2>1, <2>2, <2>3 DEF Aligned
<1>15. ASSUME NEW u \in Tag PROVE WordsCounted(n, u)'
  <2> DEFINE b == burstCnt[n][u]
             k == CountIn(Unlooked(n), Under(u))
             one == IF u = t THEN 1 ELSE 0
  <2>1. WordsCounted(n, u) /\ burstCnt' = burstCnt
    BY <1>1, <1>2, <1>21, <1>22 DEF NodeInv
  <2>2. w \in Under(u) <=> u = t
    BY <1>5 DEF Under
  <2>3. b \in Int /\ k \in Nat
    BY <1>1, CountTypes
  <2>4. CountIn(Append(Unlooked(n), w), Under(u)) = k + one
    BY <1>5, <1>12, <2>2, CountInAppend
  <2>5. u = t => c.cnt = b + k
    BY <1>2, <1>21, <1>22, <2>1 DEF WordsCounted
  <2>6. Numbered(Append(Unlooked(n), w), Under(u), b)
    <3>1. w \in Under(u) => w.idx = b + CountIn(Unlooked(n), Under(u))
      BY <1>5, <2>2, <2>5
    <3>2. Numbered(Unlooked(n), Under(u), b)
      BY <2>1 DEF WordsCounted
    <3> HIDE DEF b
    <3> QED BY <1>5, <1>12, <2>3, <3>1, <3>2, NumberedAppend
  <2>7. CASE u # t
    <3>1. ctrl'[n][u] = ctrl[n][u]
      BY <1>9, <2>7
    <3>2. CountIn(Append(Unlooked(n), w), Under(u)) = k
      BY <2>3, <2>4, <2>7
    <3> QED BY <1>13, <2>1, <2>6, <3>1, <3>2 DEF WordsCounted
  <2>8. CASE u = t
    <3>1. ctrl'[n][u] = d
      BY <1>9, <2>8
    <3>2. b + (k + one) = c.cnt + 1
      BY <2>3, <2>5, <2>8
    <3>3. d.op = "read" => d.cnt = c.cnt + 1
      BY <1>2, <1>21, <1>22, <1>4 DEF Free, Work
    <3>4. d.op # "read" => c.cnt + 1 = PageWords
      <4>1. CASE c.cnt = PageWords - 1
        BY <1>4, <4>1
      <4>2. CASE c.cnt # PageWords - 1
        <5>1. d = [c EXCEPT !.cnt = @ + 1]
          BY <1>2, <1>21, <1>22, <4>2
        <5>2. d.op = "read"
          BY <1>2, <1>21, <1>22, <1>4, <5>1 DEF Work
        <5> QED BY <5>2
      <4> QED BY <4>1, <4>2
    <3>5. (burstCnt[n][u] + CountIn(Unlooked(n), Under(u)))' = c.cnt + 1
      BY <1>13, <2>1, <2>4, <3>2
    <3>6. Numbered(Unlooked(n), Under(u), burstCnt[n][u])'
      BY <1>13, <2>1, <2>6
    <3> QED BY <3>1, <3>3, <3>4, <3>5, <3>6 DEF WordsCounted
  <2> QED BY <2>7, <2>8
<1>16. TableMatches(n)'
  <2>1. tagTable' = tagTable
    BY <1>2, <1>21, <1>22
  <2>2. tagTable[n][t] = EntryOf(c.page)
    BY <1>1, <1>2, <1>21, <1>22, <1>4 DEF TableMatches
  <2>3. ASSUME NEW u \in Tag, ctrl'[n][u] # Free
        PROVE  tagTable[n][u] = EntryOf(ctrl'[n][u].page)
    <3>1. CASE u = t
      <4>1. ctrl'[n][u] = [c EXCEPT !.cnt = @ + 1]
        BY <1>2, <1>21, <1>22, <1>9, <2>3, <3>1
      <4>2. ctrl'[n][u].page = c.page
        BY <1>4, <4>1 DEF Work
      <4> QED BY <2>2, <3>1, <4>2
    <3>2. CASE u # t
      BY <1>1, <1>9, <2>3, <3>2 DEF TableMatches
    <3> QED BY <3>1, <3>2
  <2>4. ASSUME NEW i \in DOMAIN Append(Unlooked(n), w)
        PROVE  LET x == Append(Unlooked(n), w)[i] IN tagTable[n][x.tag] = EntryOf(x.page)
    <3>1. CASE i \in DOMAIN Unlooked(n)
      <4>1. Append(Unlooked(n), w)[i] = Unlooked(n)[i]
        BY <1>12, <3>1
      <4> QED BY <1>1, <3>1, <4>1 DEF TableMatches
    <3>2. CASE i \notin DOMAIN Unlooked(n)
      <4>1. Append(Unlooked(n), w)[i] = w
        BY <1>12, <2>4, <3>2
      <4> QED BY <1>5, <2>2, <4>1
    <3> QED BY <3>1, <3>2
  <2>5. \A i \in DOMAIN q[n].locCmdOutQ :
          tagTable[n][q[n].locCmdOutQ[i].tag] = EntryOf(q[n].locCmdOutQ[i].page)
    BY <1>1 DEF TableMatches
  <2> QED BY <1>11, <1>13, <2>1, <2>3, <2>4, <2>5 DEF TableMatches
<1>17. ASSUME NEW u \in Tag PROVE Whereabouts(n, u)'
  <2> DEFINE one == IF u = t /\ c.cnt = PageWords - 1 THEN 1 ELSE 0
  <2>1. Whereabouts(n, u) /\ PlacesTyped(n, u)
    BY <1>1, TagSum, WhereaboutsIs DEF NodeInv
  <2>2. AtWork(n, u) = AtWork(n, u)' + one /\ AtWork(n, u)' \in Nat
    <3>1. \A x \in Work : x # Free
      BY DEF Work, Free
    <3>2. ctrl'[n][u] = IF u = t THEN d ELSE ctrl[n][u]
      BY <1>9
    <3>3. c.cnt # PageWords - 1 => d # Free
      <4> SUFFICES ASSUME c.cnt # PageWords - 1 PROVE d # Free
        OBVIOUS
      <4>1. d.op = "read"
        BY <1>2, <1>21, <1>22, <1>4 DEF Work
      <4> QED BY <4>1 DEF Free
    <3>4. c.cnt = PageWords - 1 => d = Free
      BY <1>2, <1>21, <1>22
    <3>5. ctrl[n][t] # Free
      BY <1>2, <1>21, <1>22, <1>4
    <3>6. CASE u = t
      BY <3>2, <3>3, <3>4, <3>5, <3>6 DEF AtWork
    <3>7. CASE u # t
      BY <3>2, <3>7 DEF AtWork
    <3> QED BY <3>6, <3>7
  <2>3. Fresh(n, u)' = Fresh(n, u) /\ UNCHANGED <<freeTagQ, freeTagRdQ, freeTagAckQ>>
    BY <1>2, <1>21, <1>22 DEF Fresh, tagVars
  <2>4. LastWords(q'[n].locRdInQ, u) = LastWords(q[n].locRdInQ, u) + one
    BY <1>5, <1>6, <1>11, LastWordsSteps
  <2>5. /\ TagPositions(q[n].locAckInQ, u)' = TagPositions(q[n].locAckInQ, u)
        /\ TagPositions(q[n].locCmdOutQ, u)' = TagPositions(q[n].locCmdOutQ, u)
    BY <1>11
  <2> HIDE DEF one
  <2>6. one \in Nat
    BY DEF one
  <2> QED BY <2>1, <2>2, <2>3, <2>4, <2>5, <2>6 DEF Whereabouts, PlacesTyped
<1>18. NodeInv(n)'
  BY <1>14, <1>15, <1>16, <1>17, WhereaboutsIs DEF NodeInv
<1>19. \A m \in Node : Tags(m)' = Tags(m)
  BY <1>2, <1>21, <1>22 DEF Tags, tagVars
<1>20. \A m \in Node, f \in ViewNames : m # n => q'[m][f] = q[m][f]
  BY <1>7, UncountedNames
<1> QED BY <1>2, <1>21, <1>22, <1>9, <1>10, <1>18, <1>19, <1>20, OnlyNode

-----------------------------------------------------------------------------
\* The first word not looked up.
LEMMA FirstUnlooked ==
  ASSUME TagInv, NEW n \in Node, q[n].locRdInTagQ # << >>
  PROVE  LET t == Head(q[n].locRdInTagQ)
             u == Unlooked(n)
         IN  /\ t \in Tag /\ u \in Seq(RdWord) /\ u # << >> /\ Head(u) \in RdWord
             /\ Head(u).tag = t /\ Head(u).idx = burstCnt[n][t]
             /\ Len(q[n].lookupQ) < Len(q[n].locRdInQ)
             /\ Head(u) = q[n].locRdInQ[Len(q[n].lookupQ) + 1]
             /\ After(q[n].locRdInQ, Len(q[n].lookupQ) + 1) = Tail(u)
             /\ tagTable[n][t] = EntryOf(Head(u).page)
<1> DEFINE t == Head(q[n].locRdInTagQ)
           u == Unlooked(n)
           r == q[n].locRdInQ
           k == Len(q[n].lookupQ)
<1>1. Typed /\ QueuesTyped /\ NodeInv(n) /\ Aligned(n) /\ TableMatches(n)
  BY DEF TagInv, Typed, NodeInv
<1>2. /\ r \in Seq(RdWord) /\ q[n].locRdInTagQ \in Seq(Tag) /\ q[n].lookupQ \in Seq(Looked)
  BY <1>1, QueueTypes
<1>3. u \in Seq(RdWord) /\ Len(u) = Len(q[n].locRdInTagQ) /\ k \in 0 .. Len(r)
  BY <1>1, UnlookedIs
<1>4. t \in Tag /\ t = q[n].locRdInTagQ[1] /\ 1 \in DOMAIN q[n].locRdInTagQ
      /\ Len(q[n].locRdInTagQ) \in Nat \ {0}
  BY <1>2
<1>5. u # << >> /\ Head(u) \in RdWord /\ Head(u) = u[1] /\ 1 \in DOMAIN u
  BY <1>3, <1>4
<1>6. Head(u).tag = t
  BY <1>1, <1>4, <1>5 DEF Aligned
<1>7. k < Len(r)
  <2>1. Len(r) = k + Len(q[n].locRdInTagQ) /\ k \in Nat
    BY <1>1, <1>2 DEF Aligned
  <2> HIDE DEF r, k
  <2> QED BY <1>4, <2>1
<1>8. Head(u) = r[k + 1] /\ After(r, k + 1) = Tail(u)
  <2>1. u = After(r, k)
    BY DEF Unlooked
  <2> HIDE DEF u, r, k
  <2> QED BY <1>2, <1>3, <1>7, <2>1, AfterSteps DEF r
<1>9. Head(u).idx = burstCnt[n][t]
  <2>1. Numbered(u, Under(t), burstCnt[n][t]) /\ burstCnt[n][t] \in Int
    BY <1>1, <1>4, CountTypes DEF NodeInv, WordsCounted
  <2>2. Head(u) \in Under(t)
    BY <1>5, <1>6 DEF Under
  <2> HIDE DEF u, t
  <2> QED BY <1>3, <1>5, <2>1, <2>2, NumberedTail
<1>10. tagTable[n][t] = EntryOf(Head(u).page)
  BY <1>1, <1>5, <1>6 DEF TableMatches
<1> QED BY <1>3, <1>4, <1>5, <1>6, <1>7, <1>8, <1>9, <1>10

\* The counter of a page follows the words looked up.
LEMMA LookUpRDataStep ==
  ASSUME TagInv, NEW n \in Node, LookUpRData(n), Outside
  PROVE  TagInv'
<1>1. Typed /\ QueuesTyped /\ NodeInv(n) /\ Aligned(n) /\ TableMatches(n)
  BY DEF TagInv, Typed, NodeInv
<1>2. PICK t, w, b, last, look, nb :
        /\ t = Head(q[n].locRdInTagQ) /\ w = Head(Unlooked(n)) /\ b = burstCnt[n][t]
        /\ last = (b = PageWords - 1) /\ look = [last |-> last, entry |-> tagTable[n][t]]
        /\ nb = IF b = PageWords - 1 THEN 0 ELSE b + 1
  OBVIOUS
<1>3. /\ NotEmpty(n, "locRdInTagQ") /\ NotFull(n, "lookupQ")
      /\ q' = Move(n, "locRdInTagQ", "lookupQ", look)
      /\ burstCnt' = [burstCnt EXCEPT ![n][t] = nb]
      /\ UNCHANGED <<tagVars, tagTable, ctrl, hostVars, dmaVars, net>>
  BY <1>2 DEF LookUpRData, LastOfPage, First, Outside
<1>4. /\ t \in Tag /\ Unlooked(n) \in Seq(RdWord) /\ Unlooked(n) # << >> /\ w \in RdWord
      /\ w.tag = t /\ w.idx = b
      /\ Len(q[n].lookupQ) < Len(q[n].locRdInQ)
      /\ w = q[n].locRdInQ[Len(q[n].lookupQ) + 1]
      /\ After(q[n].locRdInQ, Len(q[n].lookupQ) + 1) = Tail(Unlooked(n))
      /\ tagTable[n][t] = EntryOf(w.page)
  BY <1>2, <1>3, FirstUnlooked DEF NotEmpty
<1>5. look \in ItemsOf(n)["lookupQ"] /\ (look.last <=> w.idx = PageWords - 1)
      /\ look.entry = EntryOf(w.page)
  <2>1. EntryOf(w.page) \in Entry
    <3>1. w.page \in Slots
      BY <1>4 DEF RdWord
    <3> QED BY <3>1, SlotEntry
  <2>2. look \in Looked
    BY <1>2, <1>4, <2>1 DEF Looked
  <2> QED BY <1>2, <1>4, <2>2 DEF ItemsOf
<1>6. {"locRdInTagQ", "lookupQ"} \subseteq Names /\ "locRdInTagQ" # "lookupQ"
  BY DEF Names, SizedQ, PlainQ
<1>7. /\ QueuesTyped'
      /\ \A m \in Node, h \in Names :
           q'[m][h] = IF m = n /\ h = "locRdInTagQ" THEN Tail(q[n]["locRdInTagQ"])
                      ELSE IF m = n /\ h = "lookupQ" THEN Append(q[n]["lookupQ"], look)
                      ELSE q[m][h]
  BY <1>1, <1>3, <1>5, <1>6, MoveQ
<1>8. b \in 0 .. PageWords - 1 /\ b \in Int /\ nb \in 0 .. PageWords - 1 /\ PageWords \in Nat \ {0}
  <2>1. b \in 0 .. PageWords - 1 /\ b \in Int /\ PageWords \in Nat \ {0}
    BY <1>1, <1>2, <1>4, CountTypes
  <2>2. \A x, m \in Int : x \in 0 .. m => (IF x = m THEN 0 ELSE x + 1) \in 0 .. m
    OBVIOUS
  <2> QED BY <1>2, <2>1, <2>2
<1>9. /\ burstCnt' \in [Node -> [Tag -> 0 .. PageWords - 1]]
      /\ \A m \in Node, u \in Tag : burstCnt'[m][u] = IF m = n /\ u = t THEN nb ELSE burstCnt[m][u]
      /\ \A m \in Node : m # n => burstCnt'[m] = burstCnt[m]
  <2>1. burstCnt \in [Node -> [Tag -> 0 .. PageWords - 1]]
    BY <1>1 DEF Typed, TagsTyped
  <2>2. /\ burstCnt' \in [Node -> [Tag -> 0 .. PageWords - 1]]
        /\ \A m \in Node, u \in Tag :
             burstCnt'[m][u] = IF m = n /\ u = t THEN nb ELSE burstCnt[m][u]
    BY <1>3, <1>4, <1>8, <2>1, MatrixPut
  <2>3. \A m \in Node : m # n => burstCnt'[m] = burstCnt[m]
    BY <1>3, <2>1
  <2> QED BY <2>2, <2>3
<1>10. Typed'
  <2>1. HostsTyped' /\ NetTyped'
    BY <1>1, <1>3, OutsideTyped
  <2>2. TagsTyped'
    BY <1>1, <1>3, <1>9 DEF Typed, TagsTyped, tagVars
  <2> QED BY <1>7, <2>1, <2>2 DEF Typed
<1>11. /\ q'[n].locCmdOutQ = q[n].locCmdOutQ /\ q'[n].locRdInQ = q[n].locRdInQ
       /\ q'[n].lookupQ = Append(q[n].lookupQ, look)
       /\ q'[n].locRdInTagQ = Tail(q[n].locRdInTagQ)
       /\ q'[n].locAckInQ = q[n].locAckInQ
  BY <1>7 DEF Names, SizedQ, PlainQ
<1>12. /\ q[n].locRdInTagQ \in Seq(Tag) /\ q[n].lookupQ \in Seq(Looked)
       /\ q[n].locRdInTagQ # << >> /\ look \in Looked /\ q[n].locRdInQ \in Seq(RdWord)
  BY <1>1, <1>3, <1>5, QueueTypes DEF NotEmpty, ItemsOf
<1>13. Unlooked(n)' = Tail(Unlooked(n))
  <2>1. Len(Append(q[n].lookupQ, look)) = Len(q[n].lookupQ) + 1
    BY <1>12
  <2> QED BY <1>4, <1>11, <2>1 DEF Unlooked
<1>14. Aligned(n)'
  <2> DEFINE k == Len(q[n].lookupQ)
             g == Len(q[n].locRdInTagQ)
  <2>1. /\ k \in Nat /\ g \in Nat /\ Len(q'[n].lookupQ) = k + 1 /\ Len(q'[n].locRdInTagQ) = g - 1
        /\ Len(q[n].locRdInQ) = k + g
    BY <1>1, <1>11, <1>12 DEF Aligned
  <2>2. Len(q'[n].locRdInQ) = Len(q'[n].lookupQ) + Len(q'[n].locRdInTagQ)
    <3>1. k + g = (k + 1) + (g - 1)
      <4> HIDE DEF k, g
      <4> QED BY <2>1
    <3>2. q'[n].locRdInQ = q[n].locRdInQ
      BY <1>11
    <3> QED BY <2>1, <3>1, <3>2
  <2>3. ASSUME NEW i \in DOMAIN q'[n].locRdInTagQ
        PROVE  q'[n].locRdInTagQ[i] = Unlooked(n)'[i].tag
    <3>1. i \in 1 .. g - 1 /\ i + 1 \in DOMAIN q[n].locRdInTagQ
          /\ q'[n].locRdInTagQ[i] = q[n].locRdInTagQ[i + 1]
      BY <1>11, <1>12, <2>3
    <3>2. Len(Unlooked(n)) = g
      BY <1>1, UnlookedIs
    <3>3. Tail(Unlooked(n))[i] = Unlooked(n)[i + 1]
      BY <1>4, <3>1, <3>2
    <3>4. q[n].locRdInTagQ[i + 1] = Unlooked(n)[i + 1].tag
      BY <1>1, <3>1 DEF Aligned
    <3> QED BY <1>13, <3>1, <3>3, <3>4
  <2>4. ASSUME NEW i \in DOMAIN q'[n].lookupQ
        PROVE  /\ q'[n].lookupQ[i].last <=> q'[n].locRdInQ[i].idx = PageWords - 1
               /\ q'[n].lookupQ[i].entry = EntryOf(q'[n].locRdInQ[i].page)
    <3>1. i \in 1 .. k + 1
      BY <1>11, <1>12, <2>4
    <3>2. q'[n].locRdInQ = q[n].locRdInQ
      BY <1>11
    <3>3. CASE i = k + 1
      <4>1. q'[n].lookupQ[i] = look
        BY <1>11, <1>12, <3>3
      <4>2. q'[n].locRdInQ[i] = w
        BY <1>4, <3>2, <3>3
      <4> QED BY <1>5, <4>1, <4>2
    <3>4. CASE i # k + 1
      <4>1. i \in 1 .. k
        BY <2>1, <3>1, <3>4
      <4>2. i \in DOMAIN q[n].lookupQ /\ q'[n].lookupQ[i] = q[n].lookupQ[i]
        BY <1>11, <1>12, <4>1
      <4> QED BY <1>1, <3>2, <4>2 DEF Aligned
    <3> QED BY <3>3, <3>4
  <2> QED BY <2>2, <2>3, <2>4 DEF Aligned
<1>15. ASSUME NEW u \in Tag PROVE WordsCounted(n, u)'
  <2> DEFINE bu == burstCnt[n][u]
             k == CountIn(Unlooked(n), Under(u))
             j == CountIn(Tail(Unlooked(n)), Under(u))
             one == IF u = t THEN 1 ELSE 0
  <2>1. WordsCounted(n, u) /\ ctrl' = ctrl
    BY <1>1, <1>3 DEF NodeInv
  <2>2. Head(Unlooked(n)) \in Under(u) <=> u = t
    BY <1>2, <1>4 DEF Under
  <2>3. bu \in Int /\ k \in Nat /\ Tail(Unlooked(n)) \in Seq(RdWord) /\ j \in Nat
    <3>1. Tail(Unlooked(n)) \in Seq(RdWord)
      BY <1>4, HeadTailType
    <3> QED BY <1>1, <3>1, CountTypes, CountInType
  <2>4. k = j + one
    BY <1>4, <2>2, CountInTail
  <2>5. Numbered(Tail(Unlooked(n)), Under(u), bu + one)
    <3>1. Numbered(Unlooked(n), Under(u), bu)
      BY <2>1 DEF WordsCounted
    <3>2. PICK x : x = bu
      OBVIOUS
    <3>3. Numbered(Tail(Unlooked(n)), Under(u),
                   x + IF Head(Unlooked(n)) \in Under(u) THEN 1 ELSE 0)
      BY <1>4, <2>3, <3>1, <3>2, NumberedTail
    <3> QED BY <2>2, <3>2, <3>3
  <2>6. CASE u # t
    <3>1. burstCnt'[n][u] = bu
      BY <1>9, <2>6
    <3>2. j = k /\ bu + one = bu
      BY <2>3, <2>4, <2>6
    <3> HIDE DEF k
    <3> QED BY <1>13, <2>1, <2>5, <3>1, <3>2 DEF WordsCounted, k
  <2>7. CASE u = t /\ b # PageWords - 1
    <3>1. burstCnt'[n][u] = b + 1 /\ bu = b
      BY <1>2, <1>9, <2>7
    <3>2. burstCnt'[n][u] + j = bu + k
      BY <1>8, <2>3, <2>4, <2>7, <3>1
    <3>3. Numbered(Unlooked(n), Under(u), burstCnt[n][u])'
      BY <1>13, <2>5, <2>7, <3>1
    <3>4. (burstCnt[n][u] + CountIn(Unlooked(n), Under(u)))' = bu + k
      BY <1>13, <3>2
    <3> QED BY <2>1, <3>3, <3>4 DEF WordsCounted
  <2>8. CASE u = t /\ b = PageWords - 1
    <3>1. burstCnt'[n][u] = 0 /\ bu = PageWords - 1
      BY <1>2, <1>9, <2>8
    <3>2. Numbered(Tail(Unlooked(n)), Under(u), PageWords)
      <4>1. bu + one = PageWords
        BY <1>8, <2>8, <3>1
      <4> QED BY <2>5, <4>1
    <3>3. j = 0
      <4> DEFINE v == Tail(Unlooked(n))
      <4>1. ASSUME NEW i \in DOMAIN v, v[i] \in Under(u) PROVE FALSE
        <5>0. v \in Seq(RdWord) /\ Numbered(v, Under(u), PageWords) /\ PageWords \in Int
          BY <1>8, <2>3, <3>2
        <5> HIDE DEF v
        <5>1. v[i].idx >= PageWords
          BY <4>1, <5>0, NumberedAbove
        <5>2. v[i].idx \in 0 .. PageWords - 1
          BY <4>1 DEF Under, RdWord
        <5> QED BY <1>8, <5>1, <5>2
      <4> HIDE DEF v
      <4> QED BY <2>3, <4>1, CountInZero DEF v
    <3>4. bu + k = PageWords
      BY <1>8, <2>3, <2>4, <2>8, <3>1, <3>3
    <3>5. ctrl[n][u].op # "read"
      <4> SUFFICES ASSUME ctrl[n][u].op = "read" PROVE FALSE
        OBVIOUS
      <4>1. ctrl[n][u].cnt = PageWords
        BY <2>1, <3>4 DEF WordsCounted
      <4>2. ctrl[n][u] \in Work
        <5>1. ctrl[n][u] # Free
          BY DEF Free
        <5> QED BY <1>1, <5>1, CtrlTypes
      <4> QED BY <1>8, <4>1, <4>2 DEF Work
    <3>6. Numbered(Unlooked(n), Under(u), burstCnt[n][u])'
      BY <1>13, <2>3, <3>1, <3>3, NumberedNone
    <3>7. (burstCnt[n][u] + CountIn(Unlooked(n), Under(u)))' = 0
      BY <1>13, <3>1, <3>3
    <3> QED BY <2>1, <3>5, <3>6, <3>7 DEF WordsCounted
  <2> QED BY <2>6, <2>7, <2>8
<1>16. TableMatches(n)'
  <2>1. tagTable' = tagTable /\ ctrl' = ctrl
    BY <1>3
  <2>2. ASSUME NEW i \in DOMAIN Tail(Unlooked(n))
        PROVE  LET x == Tail(Unlooked(n))[i] IN tagTable[n][x.tag] = EntryOf(x.page)
    <3>1. i + 1 \in DOMAIN Unlooked(n) /\ Tail(Unlooked(n))[i] = Unlooked(n)[i + 1]
      BY <1>4, <2>2
    <3> QED BY <1>1, <3>1 DEF TableMatches
  <2> QED BY <1>1, <1>11, <1>13, <2>1, <2>2 DEF TableMatches
<1>17. TagsConserved(n)'
  <2>1. ASSUME NEW u \in Tag PROVE Whereabouts(n, u)'
    <3>1. Whereabouts(n, u)
      BY <1>1, WhereaboutsIs DEF NodeInv
    <3>2. Fresh(n, u)' = Fresh(n, u) /\ AtWork(n, u)' = AtWork(n, u)
      BY <1>3 DEF Fresh, AtWork, tagVars
    <3>3. UNCHANGED <<freeTagQ, freeTagRdQ, freeTagAckQ>>
      BY <1>3 DEF tagVars
    <3> QED BY <1>11, <3>1, <3>2, <3>3 DEF Whereabouts
  <2> QED BY <2>1, WhereaboutsIs
<1>18. NodeInv(n)'
  BY <1>14, <1>15, <1>16, <1>17 DEF NodeInv
<1>19. \A m \in Node : Tags(m)' = Tags(m)
  BY <1>3 DEF Tags, tagVars
<1>20. \A m \in Node, f \in ViewNames : m # n => q'[m][f] = q[m][f]
  BY <1>7, UncountedNames
<1>21. UNCHANGED <<tagTable, ctrl>>
  BY <1>3
<1> QED BY <1>9, <1>10, <1>18, <1>19, <1>20, <1>21, OnlyNode

-----------------------------------------------------------------------------
\* Three queues of a node change.
SetsThree(n, f, u, g, v, h, w) == q' = [q EXCEPT ![n][f] = u, ![n][g] = v, ![n][h] = w]

\* The queues keep their types.
LEMMA QueueSetThree ==
  ASSUME QueuesTyped, NEW n \in Node, NEW f \in Names, NEW g \in Names, NEW h \in Names,
         f # g, f # h, g # h,
         NEW u \in Seq(ItemsOf(n)[f]), Len(u) <= Depth(f),
         NEW v \in Seq(ItemsOf(n)[g]), Len(v) <= Depth(g),
         NEW w \in Seq(ItemsOf(n)[h]), Len(w) <= Depth(h),
         SetsThree(n, f, u, g, v, h, w)
  PROVE  /\ QueuesTyped'
         /\ \A m \in Node, k \in Names :
              q'[m][k] = IF m = n /\ k = f THEN u ELSE IF m = n /\ k = g THEN v
                         ELSE IF m = n /\ k = h THEN w ELSE q[m][k]
<1>1. u \in QSet /\ v \in QSet /\ w \in QSet
  BY DEF QSet
<1>2. q \in [Node -> [Names -> QSet]]
  BY DEF QueuesTyped
<1>3. q[n] \in [Names -> QSet]
  BY <1>2
<1>4. [q[n] EXCEPT ![f] = u, ![g] = v, ![h] = w] \in [Names -> QSet]
  BY <1>1, <1>3
<1>5. q' = [q EXCEPT ![n] = [q[n] EXCEPT ![f] = u, ![g] = v, ![h] = w]]
  BY <1>2, <1>3 DEF SetsThree
<1>6. q' \in [Node -> [Names -> QSet]]
  BY <1>2, <1>4, <1>5
<1>7. \A m \in Node, k \in Names :
        q'[m][k] = IF m = n /\ k = f THEN u ELSE IF m = n /\ k = g THEN v
                   ELSE IF m = n /\ k = h THEN w ELSE q[m][k]
  BY <1>2, <1>3, <1>5
<1>8. \A m \in Node, k \in Names :
        q'[m][k] \in Seq(ItemsOf(m)[k]) /\ Len(q'[m][k]) <= Depth(k)
  BY ZenonT(60), <1>7 DEF QueuesTyped
<1> QED BY <1>6, <1>7, <1>8 DEF QueuesTyped

\* A word leaves for its host; the last one gives its tag back.
LEMMA RetagRDataStep ==
  ASSUME TagInv, NEW n \in Node, RetagRData(n), Outside
  PROVE  TagInv'
<1>1. Typed /\ QueuesTyped /\ NodeInv(n) /\ Aligned(n) /\ TableMatches(n)
  BY DEF TagInv, Typed, NodeInv
<1>2. PICK word, look, out, outWord, r, l, o :
        /\ word = Head(q[n].locRdInQ) /\ look = Head(q[n].lookupQ)
        /\ out = IF look.entry.src = n THEN "locRdOutQ" ELSE "remRdOutQ"
        /\ outWord = [word EXCEPT !.tag = look.entry.origTag, !.dst = look.entry.src]
        /\ r = Tail(q[n].locRdInQ) /\ l = Tail(q[n].lookupQ) /\ o = Append(q[n][out], outWord)
  OBVIOUS
<1>3. {"locRdInQ", "lookupQ", out} \subseteq Names /\ out \in Uncounted
      /\ "locRdInQ" # "lookupQ" /\ "locRdInQ" # out /\ "lookupQ" # out
  BY <1>2, UncountedNames DEF Names, SizedQ, PlainQ
<1>4. /\ NotEmpty(n, "locRdInQ") /\ NotEmpty(n, "lookupQ") /\ NotFull(n, out)
      /\ SetsThree(n, "locRdInQ", r, "lookupQ", l, out, o)
      /\ UNCHANGED <<initTagCnt, freeTagQ, freeTagAckQ, tagTable, burstCnt>>
      /\ UNCHANGED <<ctrl, hostVars, dmaVars, net>>
      /\ freeTagRdQ' = IF look.last THEN [freeTagRdQ EXCEPT ![n] = Append(@, word.tag)]
                       ELSE freeTagRdQ
  <2>1. q \in [Node -> [Names -> QSet]]
    BY <1>1 DEF QueuesTyped
  <2>2. q' = [q EXCEPT ![n]["locRdInQ"] = Tail(@), ![n]["lookupQ"] = Tail(@),
                       ![n][out] = Append(@, outWord)]
        /\ NotFull(n, out)
    BY <1>2 DEF RetagRData, First
  <2>3. SetsThree(n, "locRdInQ", r, "lookupQ", l, out, o)
    BY <1>2, <1>3, <2>1, <2>2 DEF SetsThree
  <2>4. freeTagRdQ' = IF look.last THEN [freeTagRdQ EXCEPT ![n] = Append(@, word.tag)]
                      ELSE freeTagRdQ
    BY <1>2 DEF RetagRData, First
  <2> QED BY <2>2, <2>3, <2>4 DEF RetagRData, Outside
<1>5. /\ q[n].locRdInQ \in Seq(RdWord) /\ q[n].lookupQ \in Seq(Looked)
      /\ q[n].locRdInQ # << >> /\ q[n].lookupQ # << >> /\ q[n].locRdInTagQ \in Seq(Tag)
  BY <1>1, <1>4, QueueTypes DEF NotEmpty
<1>6. word \in RdWord /\ word.tag \in Tag /\ word.page \in Slots /\ word.page[2] = "read"
  <2>1. word \in RdWord
    BY <1>2, <1>5, HeadTailType
  <2> QED BY <2>1 DEF RdWord
<1>7. (look.last <=> word.idx = PageWords - 1) /\ look.entry = EntryOf(word.page)
  <2>0. word = Head(q[n].locRdInQ) /\ look = Head(q[n].lookupQ)
    BY <1>2
  <2>1. 1 \in DOMAIN q[n].lookupQ /\ look = q[n].lookupQ[1] /\ word = q[n].locRdInQ[1]
    BY <1>5, <2>0
  <2> QED BY <1>1, <2>1 DEF Aligned
<1>8. outWord \in ItemsOf(n)[out]
  <2>1. /\ look.entry \in Entry
        /\ SlotOf(look.entry.src, "read", look.entry.origTag) = word.page
    BY <1>6, <1>7, SlotEntry
  <2>2. outWord.dst = look.entry.src /\ outWord \in HostWord
    BY <1>2, <1>6, <2>1 DEF RdWord, HostWord, Entry
  <2> QED BY <1>2, <2>2 DEF ItemsOf, To
<1>9. /\ QueuesTyped'
      /\ \A m \in Node, k \in Names :
           q'[m][k] = IF m = n /\ k = "locRdInQ" THEN r ELSE IF m = n /\ k = "lookupQ" THEN l
                      ELSE IF m = n /\ k = out THEN o ELSE q[m][k]
  <2>1. "locRdInQ" \in Names /\ "lookupQ" \in Names /\ out \in Names
    BY <1>3
  <2>2. r \in Seq(ItemsOf(n)["locRdInQ"]) /\ Len(r) <= Depth("locRdInQ")
    BY <1>1, <1>2, <1>4, <2>1, QueueFits
  <2>3. l \in Seq(ItemsOf(n)["lookupQ"]) /\ Len(l) <= Depth("lookupQ")
    BY <1>1, <1>2, <1>4, <2>1, QueueFits
  <2>4. o \in Seq(ItemsOf(n)[out]) /\ Len(o) <= Depth(out)
    BY <1>1, <1>2, <1>4, <1>8, <2>1, QueueFits
  <2> QED BY <1>1, <1>3, <1>4, <2>1, <2>2, <2>3, <2>4, QueueSetThree
<1>10. /\ freeTagRdQ' \in [Node -> Seq(Tag)]
       /\ freeTagRdQ'[n] = IF look.last THEN Append(freeTagRdQ[n], word.tag) ELSE freeTagRdQ[n]
       /\ \A m \in Node : m # n => freeTagRdQ'[m] = freeTagRdQ[m]
  <2>1. freeTagRdQ \in [Node -> Seq(Tag)]
    BY <1>1 DEF Typed, TagsTyped
  <2>2. CASE look.last
    <3>1. freeTagRdQ' = [freeTagRdQ EXCEPT ![n] = Append(@, word.tag)]
      BY <1>4, <2>2
    <3>2. freeTagRdQ' \in [Node -> Seq(Tag)]
      BY <1>6, <2>1, <3>1, PushType
    <3> QED BY <2>1, <2>2, <3>1, <3>2
  <2>3. CASE ~look.last
    <3>1. freeTagRdQ' = freeTagRdQ
      BY <1>4, <2>3
    <3> QED BY <2>1, <2>3, <3>1
  <2> QED BY <2>2, <2>3
<1>11. Typed'
  <2>1. HostsTyped' /\ NetTyped'
    BY <1>1, <1>4, OutsideTyped
  <2>2. TagsTyped'
    BY <1>1, <1>4, <1>10 DEF Typed, TagsTyped
  <2> QED BY <1>9, <2>1, <2>2 DEF Typed
<1>12. /\ q'[n].locCmdOutQ = q[n].locCmdOutQ /\ q'[n].locRdInQ = Tail(q[n].locRdInQ)
       /\ q'[n].lookupQ = Tail(q[n].lookupQ) /\ q'[n].locRdInTagQ = q[n].locRdInTagQ
       /\ q'[n].locAckInQ = q[n].locAckInQ
  <2>1. ViewNames \subseteq Names /\ out \notin ViewNames
    BY <1>3, UncountedNames
  <2>2. \A k \in ViewNames :
          q'[n][k] = IF k = "locRdInQ" THEN r ELSE IF k = "lookupQ" THEN l ELSE q[n][k]
    BY <1>9, <2>1
  <2> QED BY <1>2, <2>2 DEF ViewNames
<1>13. Unlooked(n)' = Unlooked(n)
  <2> DEFINE k == Len(q[n].lookupQ)
             s == q[n].locRdInQ
  <2>1. k \in 0 .. Len(s)
    BY <1>1, UnlookedIs
  <2>2. k > 0 /\ Len(Tail(q[n].lookupQ)) = k - 1
    BY <1>5
  <2> HIDE DEF k, s
  <2>3. After(Tail(s), k - 1) = After(s, k)
    BY <1>5, <2>1, <2>2, AfterSteps DEF s
  <2> QED BY <1>12, <2>2, <2>3 DEF Unlooked, k, s
<1>14. Aligned(n)'
  <2> DEFINE k == Len(q[n].lookupQ)
             g == Len(q[n].locRdInTagQ)
  <2>1. /\ k \in Nat /\ g \in Nat /\ Len(q'[n].lookupQ) = k - 1
        /\ Len(q[n].locRdInQ) = k + g
        /\ Len(q'[n].locRdInQ) = Len(q[n].locRdInQ) - 1
        /\ q'[n].locRdInTagQ = q[n].locRdInTagQ
    <3>1. Len(q[n].locRdInQ) = k + g /\ q'[n].locRdInTagQ = q[n].locRdInTagQ
      BY <1>1, <1>12 DEF Aligned
    <3>2. k \in Nat /\ g \in Nat
      BY <1>5
    <3>3. Len(q'[n].lookupQ) = k - 1 /\ Len(q'[n].locRdInQ) = Len(q[n].locRdInQ) - 1
      BY <1>5, <1>12
    <3> QED BY <3>1, <3>2, <3>3
  <2>2. Len(q'[n].locRdInQ) = Len(q'[n].lookupQ) + Len(q'[n].locRdInTagQ)
    <3>1. (k + g) - 1 = (k - 1) + g
      <4> HIDE DEF k, g
      <4> QED BY <2>1
    <3> QED BY <2>1, <3>1
  <2>3. \A i \in DOMAIN q'[n].locRdInTagQ : q'[n].locRdInTagQ[i] = Unlooked(n)'[i].tag
    BY <1>1, <1>13, <2>1 DEF Aligned
  <2>4. ASSUME NEW i \in DOMAIN q'[n].lookupQ
        PROVE  /\ q'[n].lookupQ[i].last <=> q'[n].locRdInQ[i].idx = PageWords - 1
               /\ q'[n].lookupQ[i].entry = EntryOf(q'[n].locRdInQ[i].page)
    <3>1. i + 1 \in DOMAIN q[n].lookupQ /\ q'[n].lookupQ[i] = q[n].lookupQ[i + 1] /\ i \in 1 .. k - 1
      BY <1>5, <1>12, <2>4
    <3>2. i \in 1 .. Len(q[n].locRdInQ) - 1
      <4> HIDE DEF k, g
      <4> QED BY <2>1, <3>1
    <3>3. q'[n].locRdInQ[i] = q[n].locRdInQ[i + 1]
      BY <1>5, <1>12, <3>2
    <3> QED BY <1>1, <3>1, <3>3 DEF Aligned
  <2> QED BY <2>2, <2>3, <2>4 DEF Aligned
<1>15. \A u \in Tag : WordsCounted(n, u)'
  <2>1. UNCHANGED <<burstCnt, ctrl>>
    BY <1>4
  <2> QED BY <1>1, <1>13, <2>1 DEF NodeInv, WordsCounted
<1>16. TableMatches(n)'
  <2>1. UNCHANGED <<tagTable, ctrl>>
    BY <1>4
  <2> QED BY <1>1, <1>12, <1>13, <2>1 DEF TableMatches
<1>17. ASSUME NEW u \in Tag PROVE Whereabouts(n, u)'
  <2> DEFINE one == IF word.tag = u /\ word.idx = PageWords - 1 THEN 1 ELSE 0
  <2>1. Whereabouts(n, u) /\ PlacesTyped(n, u)
    BY <1>1, TagSum, WhereaboutsIs DEF NodeInv
  <2>2. Fresh(n, u)' = Fresh(n, u) /\ AtWork(n, u)' = AtWork(n, u)
    BY <1>4 DEF Fresh, AtWork
  <2>3. /\ LastWords(q[n].locRdInQ, u) = LastWords(q'[n].locRdInQ, u) + one
        /\ LastWords(q'[n].locRdInQ, u) \in Nat
    <3>1. word = Head(q[n].locRdInQ) /\ q'[n].locRdInQ = Tail(q[n].locRdInQ)
      BY <1>2, <1>12
    <3> QED BY <1>5, <3>1, LastWordsSteps
  <2>4. Positions(freeTagRdQ'[n], u) = Positions(freeTagRdQ[n], u) + one
    <3>1. freeTagRdQ[n] \in Seq(Tag)
      BY <1>1, NodeTypes
    <3>2. Positions(freeTagRdQ[n], u) \in Nat
      BY <2>1 DEF PlacesTyped
    <3>3. CASE look.last
      <4>1. freeTagRdQ'[n] = Append(freeTagRdQ[n], word.tag) /\ word.idx = PageWords - 1
        BY <1>7, <1>10, <3>3
      <4> QED BY <1>6, <3>1, <4>1, PositionsSteps
    <3>4. CASE ~look.last
      <4>1. freeTagRdQ'[n] = freeTagRdQ[n] /\ word.idx # PageWords - 1
        BY <1>7, <1>10, <3>4
      <4> QED BY <3>2, <4>1
    <3> QED BY <3>3, <3>4
  <2>5. /\ TagPositions(q[n].locAckInQ, u)' = TagPositions(q[n].locAckInQ, u)
        /\ TagPositions(q[n].locCmdOutQ, u)' = TagPositions(q[n].locCmdOutQ, u)
    BY <1>12
  <2>6. UNCHANGED <<freeTagQ, freeTagAckQ>>
    BY <1>4
  <2> HIDE DEF one
  <2>7. one \in Nat
    BY DEF one
  <2> QED BY <2>1, <2>2, <2>3, <2>4, <2>5, <2>6, <2>7 DEF Whereabouts, PlacesTyped
<1>18. NodeInv(n)'
  BY <1>14, <1>15, <1>16, <1>17, WhereaboutsIs DEF NodeInv
<1>19. \A m \in Node : m # n => Tags(m)' = Tags(m)
  BY <1>4, <1>10 DEF Tags
<1>20. \A m \in Node, f \in ViewNames : m # n => q'[m][f] = q[m][f]
  BY <1>9, UncountedNames
<1>21. UNCHANGED <<tagTable, burstCnt, ctrl>>
  BY <1>4
<1> QED BY <1>11, <1>18, <1>19, <1>20, <1>21, OnlyNode

-----------------------------------------------------------------------------
\* Reset.
LEMMA InitTagInv == Init => TagInv
<1> SUFFICES ASSUME Init PROVE TagInv
  OBVIOUS
<1>1. /\ initTagCnt = [n \in Node |-> 0]
      /\ freeTagQ = [n \in Node |-> << >>] /\ freeTagRdQ = [n \in Node |-> << >>]
      /\ freeTagAckQ = [n \in Node |-> << >>]
      /\ tagTable = [n \in Node |-> [t \in Tag |-> NoEntry]]
      /\ burstCnt = [n \in Node |-> [t \in Tag |-> 0]]
      /\ q = [n \in Node |-> [f \in Names |-> << >>]]
      /\ ctrl = [n \in Node |-> [t \in Tag |-> Free]]
  BY DEF Init, SplitterInit, Names
<1>2. NumTags \in Nat \ {0} /\ PageWords \in Nat \ {0} /\ NumEng \in Nat \ {0} /\ MaxIssue \in Nat
  BY SizeAssumption, SlotAssumption
<1>3. \A S : << >> \in Seq(S)
  OBVIOUS
<1>4. QueuesTyped
  <2>1. \A n \in Node, f \in Names : q[n][f] = << >>
    BY <1>1
  <2>2. ASSUME NEW n \in Node, NEW f \in Names
        PROVE  q[n][f] \in Seq(ItemsOf(n)[f]) /\ Len(q[n][f]) <= Depth(f) /\ q[n][f] \in QSet
    <3>1. Depth(f) \in Nat
      BY SizeAssumption DEF Depth
    <3>2. Len(<< >>) = 0
      OBVIOUS
    <3>3. q[n][f] \in Seq(ItemsOf(n)[f])
      BY <1>3, <2>1
    <3>4. q[n][f] \in QSet
      BY <3>3 DEF QSet
    <3> QED BY <2>1, <3>1, <3>2, <3>3, <3>4
  <2>3. q \in [Node -> [Names -> QSet]]
    BY <1>1, <2>1, <2>2
  <2> QED BY <2>2, <2>3 DEF QueuesTyped
<1>5. NetTyped
  <2>1. net = [c \in Class |-> [l \in Node \X Node |-> << >>]]
    BY DEF Init
  <2>2. ASSUME NEW c \in Class, NEW l \in Node \X Node PROVE net[c][l] \in NetSet
    <3>1. << >> \in Seq(MessagesTo(l[2])[c]) /\ l[2] \in Node
      BY <1>3
    <3>2. net[c][l] = << >>
      BY <2>1
    <3>3. << >> \in NetSet
      <4>0. PICK b \in Node : b = l[2]
        BY <3>1
      <4>1. PICK v : v = << >>
        OBVIOUS
      <4>2. v \in Seq(MessagesTo(b)[c])
        BY <3>1, <4>0, <4>1
      <4>3. v \in NetSet
        BY <4>2 DEF NetSet
      <4> QED BY <4>1, <4>3
    <3> QED BY <3>2, <3>3
  <2>3. net \in [Class -> [Node \X Node -> NetSet]]
    BY <2>1, <2>2
  <2>4. ASSUME NEW c \in Class, NEW a \in Node, NEW b \in Node
        PROVE  net[c][<<a, b>>] \in Seq(MessagesTo(b)[c])
    BY <1>3, <2>1
  <2> QED BY <2>3, <2>4 DEF NetTyped
<1>6. HostsTyped
  <2>1. 0 \in 0 .. PageWords - 1 /\ 0 \in 0 .. MaxIssue /\ 0 \in Eng
    BY <1>2 DEF Eng
  <2>2. /\ pending = [s \in Slots |-> Idle] /\ issued = [s \in Slots |-> 0]
        /\ flashCmdQ = [n \in Node |-> << >>] /\ reSel = [n \in Node |-> 0]
        /\ job = [n \in Node |-> [p \in Eng |-> << >>]]
        /\ burst = [n \in Node |-> [p \in Eng |-> 0]]
    BY DEF Init
  <2>3. job \in [Node -> [Eng -> Seq(Wreq)]] /\ flashCmdQ \in [Node -> Seq(HostCmd)]
    BY <1>3, <2>2
  <2>4. \A n \in Node, p \in Eng : job[n][p] \in Seq(To(n, Wreq))
    BY <1>3, <2>2
  <2>5. burst \in [Node -> [Eng -> 0 .. PageWords - 1]]
    BY <2>1, <2>2
  <2>6. /\ pending \in [Slots -> {Idle} \cup 0 .. PageWords - 1]
        /\ issued \in [Slots -> 0 .. MaxIssue] /\ reSel \in [Node -> Eng]
    BY <2>1, <2>2
  <2> QED BY <2>3, <2>4, <2>5, <2>6 DEF HostsTyped
<1>7. TagsTyped
  <2>1. 0 \in 0 .. NumTags /\ 0 \in 0 .. PageWords - 1
    BY <1>2
  <2>2. NoEntry \in [src : Int, origTag : Int]
    BY DEF NoEntry
  <2>3. /\ tagTable \in [Node -> [Tag -> [src : Int, origTag : Int]]]
        /\ burstCnt \in [Node -> [Tag -> 0 .. PageWords - 1]]
        /\ ctrl \in [Node -> [Tag -> {Free} \cup Work]]
    BY <1>1, <2>1, <2>2
  <2>4. /\ initTagCnt \in [Node -> 0 .. NumTags] /\ freeTagQ \in [Node -> Seq(Tag)]
        /\ freeTagRdQ \in [Node -> Seq(Tag)] /\ freeTagAckQ \in [Node -> Seq(Tag)]
    BY <1>1, <1>3, <2>1
  <2> QED BY <2>3, <2>4 DEF TagsTyped
<1>8. Typed
  BY <1>4, <1>5, <1>6, <1>7 DEF Typed
<1>9. ASSUME NEW n \in Node PROVE NodeInv(n)
  <2>1. /\ q[n].locCmdOutQ = << >> /\ q[n].locRdInQ = << >> /\ q[n].lookupQ = << >>
        /\ q[n].locRdInTagQ = << >> /\ q[n].locAckInQ = << >>
    BY <1>1 DEF Names, SizedQ, PlainQ
  <2>2. /\ freeTagQ[n] = << >> /\ freeTagRdQ[n] = << >> /\ freeTagAckQ[n] = << >>
        /\ initTagCnt[n] = 0
        /\ \A t \in Tag : burstCnt[n][t] = 0 /\ ctrl[n][t] = Free
    BY <1>1
  <2>3. Unlooked(n) = << >>
    <3>1. << >> \in Seq(RdWord) /\ 0 \in 0 .. Len(<< >>) /\ Len(<< >>) = 0
      OBVIOUS
    <3>2. After(<< >>, 0) = << >>
      BY <3>1, AfterIs
    <3> QED BY <2>1, <3>1, <3>2 DEF Unlooked
  <2>4. DOMAIN << >> = {} /\ Len(<< >>) = 0
    OBVIOUS
  <2>5. Aligned(n)
    BY <2>1, <2>3, <2>4 DEF Aligned
  <2>6. ASSUME NEW t \in Tag PROVE WordsCounted(n, t)
    <3>1. CountIn(Unlooked(n), Under(t)) = 0
      BY <2>3, CountInEmpty
    <3>2. Numbered(Unlooked(n), Under(t), burstCnt[n][t])
      BY <2>3, <2>4 DEF Numbered
    <3>3. ctrl[n][t].op # "read"
      BY <2>2 DEF Free
    <3> QED BY <2>2, <3>1, <3>2, <3>3 DEF WordsCounted
  <2>7. TableMatches(n)
    BY <2>1, <2>2, <2>3, <2>4 DEF TableMatches
  <2>8. ASSUME NEW t \in Tag PROVE Whereabouts(n, t)
    <3>1. Positions(<< >>, t) = 0
      BY PositionsIs, CountInEmpty
    <3>2. TagPositions(<< >>, t) = 0
      BY <1>3, TagPositionsIs, CountInEmpty
    <3>3. LastWords(<< >>, t) = 0
      BY <1>3, LastWordsIs, CountInEmpty
    <3>4. Fresh(n, t) = 1 /\ AtWork(n, t) = 0
      BY <1>2, <2>2 DEF Fresh, AtWork, Tag
    <3> QED BY <2>1, <2>2, <3>1, <3>2, <3>3, <3>4 DEF Whereabouts
  <2> QED BY <2>5, <2>6, <2>7, <2>8, WhereaboutsIs DEF NodeInv
<1> QED BY <1>8, <1>9 DEF TagInv

\* Nothing happens.
LEMMA TagInvStutters == ASSUME TagInv, UNCHANGED vars PROVE TagInv'
<1>1. Typed
  BY DEF TagInv
<1>2. UNCHANGED <<q, tagVars, tagTable, burstCnt, ctrl, net, hostVars, dmaVars>>
  BY DEF vars, splitterVars
<1>3. QueuesTyped' /\ NetTyped' /\ HostsTyped'
  BY <1>1, <1>2, OutsideTyped
<1>4. \A m \in Node, h \in ViewNames : q'[m][h] = q[m][h]
  BY <1>2
<1> QED BY <1>2, <1>3, <1>4, ElsewhereStep

\* Every rule keeps the invariant.
LEMMA NextTagInv == ASSUME TagInv, Next PROVE TagInv'
<1>1. ASSUME NEW s \in Slots, NEW dst \in Node, Issue(s, dst) PROVE TagInv'
  BY <1>1, IssueStep
<1>2. ASSUME NEW n \in Node, Splitter(n) PROVE TagInv'
  <2>1. SplitterRule(n) /\ Outside
    BY <1>2 DEF Splitter, Outside
  <2>2. CASE InitFreeTagQ(n)  BY <2>1, <2>2, InitFreeTagStep
  <2>3. CASE RecycleTags(n)   BY <2>1, <2>3, RecycleTagsStep
  <2>4. CASE RenameTags(n)    BY <2>1, <2>4, RenameTagsStep
  <2>5. CASE LookUpRData(n)   BY <2>1, <2>5, LookUpRDataStep
  <2>6. CASE RetagRData(n)    BY <2>1, <2>6, RetagRDataStep
  <2>7. CASE MergeRd(n)       BY <2>1, <2>7, MergeRdStep
  <2>8. CASE ForwardWdata(n)  BY <2>1, <2>8, ForwardWdataStep
  <2>9. CASE ForwardAck(n)    BY <2>1, <2>9, ForwardAckStep
  <2>10. CASE ForwardWreq(n)  BY <2>1, <2>10, ForwardWreqStep
  <2> QED BY <2>1, <2>2, <2>3, <2>4, <2>5, <2>6, <2>7, <2>8, <2>9, <2>10 DEF SplitterRule
<1>3. ASSUME NEW n \in Node, HostRule(n) PROVE TagInv'
  <2>1. CASE FlashCmdForward(n)         BY <2>1, FlashCmdForwardStep
  <2>2. CASE DistrReadFromFlash(n)      BY <2>2, DistrReadFromFlashStep
  <2>3. CASE HandleControllerAck(n)     BY <2>3, HandleControllerAckStep
  <2>4. CASE HandleWriteDataRequest(n)  BY <2>4, HandleWriteDataRequestStep
  <2>5. ASSUME NEW p \in Eng, PipeDmaRdData(n, p) PROVE TagInv'
    BY <2>5, PipeDmaRdDataStep
  <2> QED BY <1>3, <2>1, <2>2, <2>3, <2>4, <2>5 DEF HostRule
<1>4. ASSUME NEW n \in Node, ControllerRule(n) PROVE TagInv'
  <2>1. CASE IssueFlashCmd(n)  BY <2>1, IssueFlashCmdStep
  <2>2. CASE LocWriteData(n)   BY <2>2, LocWriteDataStep
  <2>3. ASSUME NEW t \in Tag, EnqReadFromFlash(n, t) \/ LocWriteReq(n, t) \/ LocAck(n, t)
        PROVE  TagInv'
    BY <2>3, EnqReadFromFlashStep, LocWriteReqStep, LocAckStep
  <2> QED BY <1>4, <2>1, <2>2, <2>3 DEF ControllerRule
<1>5. ASSUME NEW n \in Node, NetworkRule(n) PROVE TagInv'
  <2>1. ASSUME NEW c \in Class, SendRemote(n, c) PROVE TagInv'
    BY <2>1, SendRemoteStep
  <2>2. ASSUME NEW c \in Class, NEW from \in Node, RecRemote(n, c, from) PROVE TagInv'
    BY <2>2, RecRemoteStep
  <2> QED BY <1>5, <2>1, <2>2 DEF NetworkRule
<1> QED BY <1>1, <1>2, <1>3, <1>4, <1>5 DEF Next

\* So it always holds.
LEMMA TagInvAlways == Spec => []TagInv
<1>1. TagInv /\ [Next]_vars => TagInv'
  BY NextTagInv, TagInvStutters
<1> QED BY <1>1, InitTagInv, PTL DEF Spec

\* Registers and counters keep their types, and no queue is overfilled.
THEOREM ClusterTypes == Spec => []TypeOK
<1>1. TagInv => TypeOK
  <2> SUFFICES ASSUME TagInv PROVE TypeOK
    OBVIOUS
  <2>1. Typed
    BY DEF TagInv
  <2>2. ASSUME NEW n \in Node
        PROVE  /\ {freeTagQ[n], freeTagRdQ[n], freeTagAckQ[n]} \subseteq Seq(Tag)
               /\ \A f \in SizedQ \cup PlainQ : Len(q[n][f]) <= Depth(f)
    BY <2>1 DEF Typed, TagsTyped, QueuesTyped, Names
  <2> QED BY <2>1, <2>2 DEF Typed, TagsTyped, HostsTyped, TypeOK
<1> QED BY <1>1, TagInvAlways, PTL

\* No tag of a flash controller is ever lost or held twice.
THEOREM TagsAlwaysConserved == Spec => []TagConservation
<1>1. TagInv => TagConservation
  BY DEF TagInv, NodeInv, TagsConserved, TagConservation
<1> QED BY <1>1, TagInvAlways, PTL
=============================================================================
