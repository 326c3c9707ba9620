----------------------------- MODULE QueueLemmas -----------------------------
(***************************************************************************)
(* Facts that the proofs of several modules cite: about FIFOs written as   *)
(* sequences, and vectors of FIFOs and registers written as functions;     *)
(* about items that move from queue to queue, each in one place, and the   *)
(* queues along a route, whose entries carry consecutive numbers; and sums *)
(* over finite sets.  Induction on the natural numbers is stated with sets.*)
(***************************************************************************)
EXTENDS Integers, QueueOps, FiniteSetTheorems, WellFoundedInduction, TLAPS

-----------------------------------------------------------------------------
\* One entry of a vector of FIFOs or registers changes and keeps its type.
LEMMA PushType ==
  ASSUME NEW E, NEW S, NEW f \in [E -> Seq(S)], NEW e \in E, NEW w \in S
  PROVE  [f EXCEPT ![e] = Append(@, w)] \in [E -> Seq(S)]
<1>1. Append(f[e], w) \in Seq(S)
  OBVIOUS
<1> QED BY <1>1

\* A FIFO loses its head and keeps its type.
LEMMA PopType ==
  ASSUME NEW E, NEW S, NEW f \in [E -> Seq(S)], NEW e \in E, f[e] # << >>
  PROVE  [f EXCEPT ![e] = Tail(@)] \in [E -> Seq(S)] /\ Head(f[e]) \in S
<1>1. f[e] \in Seq(S)
  OBVIOUS
<1>2. Tail(f[e]) \in Seq(S) /\ Head(f[e]) \in S
  BY <1>1
<1> QED BY <1>2

\* One entry of a matrix changes.
LEMMA MatrixPut ==
  ASSUME NEW E, NEW F, NEW S, NEW f \in [E -> [F -> S]],
         NEW e \in E, NEW x \in F, NEW v \in S
  PROVE  /\ [f EXCEPT ![e][x] = v] \in [E -> [F -> S]]
         /\ \A a \in E, b \in F :
              [f EXCEPT ![e][x] = v][a][b] = IF a = e /\ b = x THEN v ELSE f[a][b]
<1>1. f[e] \in [F -> S]
  OBVIOUS
<1>2. [f[e] EXCEPT ![x] = v] \in [F -> S]
  BY <1>1
<1> QED BY <1>1, <1>2

\* One entry of a vector changes.
LEMMA PutType ==
  ASSUME NEW E, NEW S, NEW f \in [E -> S], NEW e \in E, NEW v \in S
  PROVE  [f EXCEPT ![e] = v] \in [E -> S]
OBVIOUS

\* One entry of a function changes.
LEMMA OneEntry ==
  ASSUME NEW E, NEW r \in E, NEW A, NEW B, NEW v,
         A = [f \in E |-> A[f]], B = [f \in E |-> IF f = r THEN v ELSE A[f]]
  PROVE  B = [A EXCEPT ![r] = v]
OBVIOUS

-----------------------------------------------------------------------------
\* How the number of entries in a set follows the sequence.
LEMMA CountInType ==
  ASSUME NEW S, NEW q \in Seq(S), NEW K
  PROVE  IsFiniteSet(Places(q, K)) /\ CountIn(q, K) \in Nat
<1>1. IsFiniteSet(1 .. Len(q))
  BY FS_Interval
<1>2. Places(q, K) \subseteq 1 .. Len(q)
  BY DEF Places
<1>3. IsFiniteSet(Places(q, K))
  BY <1>1, <1>2, FS_Subset
<1> QED BY <1>3, FS_CardinalityType DEF CountIn

\* Nothing is in an empty FIFO.
LEMMA CountInEmpty == ASSUME NEW K PROVE CountIn(<< >>, K) = 0
<1>1. Places(<< >>, K) = {}
  BY DEF Places
<1> QED BY <1>1, FS_EmptySet DEF CountIn

\* An entry added counts if it is in the set.
LEMMA CountInAppend ==
  ASSUME NEW S, NEW q \in Seq(S), NEW w \in S, NEW K
  PROVE  CountIn(Append(q, w), K) = CountIn(q, K) + IF w \in K THEN 1 ELSE 0
<1>1. IsFiniteSet(Places(q, K)) /\ CountIn(q, K) \in Nat
  BY CountInType
<1>2. CASE w \in K
  <2>1. Places(Append(q, w), K) = Places(q, K) \cup {Len(q) + 1}
    <3> DEFINE r == Append(q, w)
               n == Len(q)
    <3>1. n \in Nat /\ Len(r) = n + 1 /\ r[n + 1] = w /\ \A i \in 1 .. n : r[i] = q[i]
      OBVIOUS
    <3>2. Places(r, K) = {i \in 1 .. n + 1 : r[i] \in K} /\ Places(q, K) = {i \in 1 .. n : q[i] \in K}
      BY <3>1 DEF Places
    <3> HIDE DEF r, n
    <3>3. 1 .. n + 1 = (1 .. n) \cup {n + 1}
      BY <3>1
    <3>4. Places(r, K) = Places(q, K) \cup {n + 1}
      BY <1>2, <3>1, <3>2, <3>3
    <3> QED BY <3>4 DEF r, n
  <2>2. Len(q) + 1 \notin Places(q, K)
    BY DEF Places
  <2> QED BY <1>1, <1>2, <2>1, <2>2, FS_AddElement DEF CountIn
<1>3. CASE w \notin K
  <2>1. Places(Append(q, w), K) = Places(q, K)
    BY <1>3 DEF Places
  <2> QED BY <1>1, <1>3, <2>1 DEF CountIn
<1> QED BY <1>2, <1>3

\* So does the entry removed.
LEMMA CountInTail ==
  ASSUME NEW S, NEW q \in Seq(S), q # << >>, NEW K
  PROVE  CountIn(q, K) = CountIn(Tail(q), K) + IF Head(q) \in K THEN 1 ELSE 0
<1> DEFINE A == Places(Tail(q), K)
           B == Places(q, K)
           f == [i \in A |-> i + 1]
<1>1. /\ Tail(q) \in Seq(S) /\ Len(Tail(q)) = Len(q) - 1
      /\ \A i \in 1 .. Len(q) - 1 : Tail(q)[i] = q[i + 1]
  OBVIOUS
<1>2. IsFiniteSet(A) /\ IsFiniteSet(B) /\ CountIn(Tail(q), K) \in Nat /\ CountIn(q, K) \in Nat
  BY <1>1, CountInType
<1>3. f \in Bijection(A, B \ {1})
  <2>1. \A i \in A : i \in Int /\ i + 1 \in B \ {1}
    BY <1>1 DEF Places
  <2>2. \A j \in B \ {1} : j - 1 \in A /\ (j - 1) + 1 = j
    BY <1>1 DEF Places
  <2> HIDE DEF A, B
  <2>3. f \in [A -> B \ {1}]
    BY <2>1
  <2>4. \A a, b \in A : f[a] = f[b] => a = b
    BY <2>1
  <2>5. \A t \in B \ {1} : \E i \in A : f[i] = t
    BY <2>2
  <2>6. f \in Injection(A, B \ {1})
    BY <2>3, <2>4 DEF Injection, IsInjective
  <2>7. f \in Surjection(A, B \ {1})
    BY <2>3, <2>5 DEF Surjection
  <2> QED BY <2>6, <2>7 DEF Bijection
<1>4. Cardinality(B \ {1}) = Cardinality(A)
  BY <1>2, <1>3, FS_Bijection DEF ExistsBijection
<1>5. 1 \in B <=> Head(q) \in K
  BY DEF Places
<1> HIDE DEF A, B, f
<1>6. Cardinality(B \ {1}) = IF 1 \in B THEN Cardinality(B) - 1 ELSE Cardinality(B)
  BY <1>2, FS_RemoveElement
<1> QED BY <1>2, <1>4, <1>5, <1>6 DEF CountIn, A, B

\* Entries of a kind are entries in a set.
LEMMA CountByKind ==
  ASSUME NEW S, NEW q \in Seq(S), NEW k
  PROVE  Count(q, k) = CountIn(q, {w \in S : w.kind = k})
<1>1. \A i \in DOMAIN q : q[i] \in S
  OBVIOUS
<1>2. At(q, k) = {i \in DOMAIN q : q[i] \in {w \in S : w.kind = k}}
  BY <1>1 DEF At
<1> QED BY <1>2 DEF Count, CountIn, Places

\* The same four facts for the entries of a kind.
LEMMA CountType ==
  ASSUME NEW S, NEW q \in Seq(S), NEW k
  PROVE  Count(q, k) \in Nat
<1>1. CountIn(q, {w \in S : w.kind = k}) \in Nat
  BY CountInType
<1> QED BY <1>1, CountByKind

\* An empty queue has no entry of any kind.
LEMMA CountEmpty == ASSUME NEW k PROVE Count(<< >>, k) = 0
<1>1. At(<< >>, k) = {}
  BY DEF At
<1> QED BY <1>1, FS_EmptySet DEF Count

\* An entry appended counts for its kind.
LEMMA CountAppend ==
  ASSUME NEW S, NEW q \in Seq(S), NEW w \in S, NEW k
  PROVE  Count(Append(q, w), k) = Count(q, k) + IF w.kind = k THEN 1 ELSE 0
<1> DEFINE K == {v \in S : v.kind = k}
<1>1. Append(q, w) \in Seq(S) /\ (w \in K <=> w.kind = k)
  OBVIOUS
<1> HIDE DEF K
<1>2. CountIn(Append(q, w), K) = CountIn(q, K) + IF w \in K THEN 1 ELSE 0
  BY CountInAppend
<1>3. Count(q, k) = CountIn(q, K) /\ Count(Append(q, w), k) = CountIn(Append(q, w), K)
  BY <1>1, CountByKind DEF K
<1> QED BY <1>1, <1>2, <1>3

\* An entry removed counted for its kind.
LEMMA CountTail ==
  ASSUME NEW S, NEW q \in Seq(S), q # << >>, NEW k
  PROVE  Count(q, k) = Count(Tail(q), k) + IF Head(q).kind = k THEN 1 ELSE 0
<1> DEFINE K == {v \in S : v.kind = k}
<1>1. Tail(q) \in Seq(S) /\ Head(q) \in S
  OBVIOUS
<1>2. Head(q) \in K <=> Head(q).kind = k
  BY <1>1
<1> HIDE DEF K
<1>3. CountIn(q, K) = CountIn(Tail(q), K) + IF Head(q) \in K THEN 1 ELSE 0
  BY CountInTail
<1>4. Count(q, k) = CountIn(q, K) /\ Count(Tail(q), k) = CountIn(Tail(q), K)
  BY <1>1, CountByKind DEF K
<1> QED BY <1>2, <1>3, <1>4

-----------------------------------------------------------------------------
\* A sequence cut in two, as entries are added, removed or moved along.
LEMMA ConcatType ==
  ASSUME NEW S, NEW a \in Seq(S), NEW b \in Seq(S) PROVE a \o b \in Seq(S)
OBVIOUS

\* The last entry of two queues in a row is the last of the second.
LEMMA ConcatAppend ==
  ASSUME NEW S, NEW a \in Seq(S), NEW b \in Seq(S), NEW w \in S
  PROVE  a \o Append(b, w) = Append(a \o b, w)
OBVIOUS

\* The first entry of two queues in a row is the first of the first.
LEMMA ConcatTail ==
  ASSUME NEW S, NEW a \in Seq(S), NEW b \in Seq(S), a # << >>
  PROVE  a \o b # << >> /\ Tail(a \o b) = Tail(a) \o b /\ Head(a \o b) = Head(a)
OBVIOUS

\* An entry moves from the head of the second to the end of the first.
LEMMA ConcatShift ==
  ASSUME NEW S, NEW a \in Seq(S), NEW b \in Seq(S), b # << >>
  PROVE  Append(a, Head(b)) \o Tail(b) = a \o b
OBVIOUS

\* A line of three queues: an entry joins it at the end ...
LEMMA LineGrows ==
  ASSUME NEW S, NEW a \in Seq(S), NEW b \in Seq(S), NEW c \in Seq(S), NEW w \in S
  PROVE  a \o b \o Append(c, w) = Append(a \o b \o c, w)
<1> DEFINE ab == a \o b
<1>1. ab \in Seq(S)
  OBVIOUS
<1> HIDE DEF ab
<1>2. ab \o Append(c, w) = Append(ab \o c, w)
  BY <1>1, ConcatAppend
<1> QED BY <1>2 DEF ab

\* ... moves from the second queue to the first ...
LEMMA LineMovesUp ==
  ASSUME NEW S, NEW a \in Seq(S), NEW b \in Seq(S), NEW c \in Seq(S), b # << >>
  PROVE  Append(a, Head(b)) \o Tail(b) \o c = a \o b \o c
BY ConcatShift

\* ... and leaves the line.
LEMMA LineShrinks ==
  ASSUME NEW S, NEW a \in Seq(S), NEW b \in Seq(S), NEW c \in Seq(S), a # << >>
  PROVE  /\ Tail(a) \o b \o c = Tail(a \o b \o c)
         /\ a \o b \o c # << >> /\ Head(a \o b \o c) = Head(a)
<1> DEFINE ab == a \o b
<1>1. ab # << >> /\ Tail(ab) = Tail(a) \o b /\ Head(ab) = Head(a) /\ ab \in Seq(S)
  BY ConcatTail, ConcatType
<1> HIDE DEF ab
<1>2. ab \o c # << >> /\ Tail(ab \o c) = Tail(ab) \o c /\ Head(ab \o c) = Head(ab)
  BY <1>1, ConcatTail
<1> QED BY <1>1, <1>2 DEF ab

\* The parts of a sequence, and the length of what becomes of it.
LEMMA HeadTailType ==
  ASSUME NEW S, NEW q \in Seq(S), q # << >>
  PROVE  Head(q) \in S /\ Tail(q) \in Seq(S)
OBVIOUS

\* The length after an entry is added or removed.
LEMMA LengthChanges ==
  ASSUME NEW S, NEW q \in Seq(S), NEW w \in S
  PROVE  /\ Len(q) \in Nat /\ Len(Append(q, w)) = Len(q) + 1
         /\ q # << >> => Len(Tail(q)) = Len(q) - 1
OBVIOUS

\* The entries of a FIFO behind the i-th, as entries are added and removed.
After(q, i) == SubSeq(q, i + 1, Len(q))

\* Behind an entry, one more entry.
LEMMA AfterAppend ==
  ASSUME NEW S, NEW q \in Seq(S), NEW w \in S
  PROVE  /\ \A i \in 1 .. Len(q) : After(Append(q, w), i) = Append(After(q, i), w)
         /\ After(Append(q, w), Len(q) + 1) = << >>
         /\ \A i \in 1 .. Len(q) : After(q, i) \in Seq(S)
<1>1. ASSUME NEW i \in 1 .. Len(q)
      PROVE  SubSeq(Append(q, w), i + 1, Len(q) + 1) = Append(SubSeq(q, i + 1, Len(q)), w)
  <2> DEFINE a == SubSeq(Append(q, w), i + 1, Len(q) + 1)
             b == Append(SubSeq(q, i + 1, Len(q)), w)
  <2>1. a \in Seq(S) /\ b \in Seq(S) /\ Len(a) = Len(q) + 1 - i /\ Len(b) = Len(q) + 1 - i
    OBVIOUS
  <2>2. \A j \in 1 .. Len(q) + 1 - i : a[j] = b[j]
    OBVIOUS
  <2> HIDE DEF a, b
  <2>3. a = b
    BY <2>1, <2>2
  <2> QED BY <2>3 DEF a, b
<1>2. Len(Append(q, w)) = Len(q) + 1
  OBVIOUS
<1>3. SubSeq(Append(q, w), (Len(q) + 1) + 1, Len(q) + 1) = << >>
  OBVIOUS
<1>4. \A i \in 1 .. Len(q) : SubSeq(q, i + 1, Len(q)) \in Seq(S)
  OBVIOUS
<1> QED BY <1>1, <1>2, <1>3, <1>4 DEF After

\* When the head goes, every entry is one place further on.
LEMMA AfterTail ==
  ASSUME NEW S, NEW q \in Seq(S), q # << >>
  PROVE  /\ \A i \in 1 .. Len(q) - 1 : After(Tail(q), i) = After(q, i + 1)
         /\ After(q, 1) = Tail(q)
<1>1. ASSUME NEW i \in 1 .. Len(q) - 1
      PROVE  SubSeq(Tail(q), i + 1, Len(q) - 1) = SubSeq(q, i + 2, Len(q))
  OBVIOUS
<1>2. SubSeq(q, 2, Len(q)) = Tail(q)
  OBVIOUS
<1>3. Len(Tail(q)) = Len(q) - 1
  OBVIOUS
<1> QED BY <1>1, <1>2, <1>3 DEF After

-----------------------------------------------------------------------------
\* The order of the natural numbers as a well-founded relation.
LEMMA NatOrder ==
  \E R : IsWellFoundedOn(R, Nat) /\ \A x, y \in Nat : <<x, y>> \in R <=> x < y
<1>1. \A x, y \in Nat : <<x, y>> \in OpToRel(<, Nat) <=> x < y
  BY DEF OpToRel
<1>2. IsWellFoundedOn(OpToRel(<, Nat), Nat)
  BY Zenon, NatLessThanWellFounded
<1> QED BY Zenon, <1>1, <1>2

\* A set of natural numbers that is not empty has a least element.
LEMMA LeastElement ==
  ASSUME NEW T, T \subseteq Nat, T # {}
  PROVE  \E x \in T : \A y \in T : x <= y
<1>1. PICK R : IsWellFoundedOn(R, Nat) /\ \A x, y \in Nat : <<x, y>> \in R <=> x < y
  BY Zenon, NatOrder
<1>2. IsWellFoundedOn(R, Nat)
  BY <1>1
<1>3. PICK x \in T : \A y \in T : ~ (<<y, x>> \in R)
  BY Zenon, <1>2, WFMin
<1>4. ASSUME NEW y \in T PROVE x <= y
  <2>1. x \in Nat /\ y \in Nat
    OBVIOUS
  <2>2. ~(y < x)
    BY Zenon, <2>1, <1>1, <1>3
  <2> QED BY <2>1, <2>2
<1> QED BY Zenon, <1>4

\* Induction: the set stands for the statement to be proved of every number.
LEMMA SetInduction ==
  ASSUME NEW T, 0 \in T, \A n \in Nat : n \in T => n + 1 \in T
  PROVE  Nat \subseteq T
<1> SUFFICES ASSUME Nat \ T # {} PROVE FALSE
  OBVIOUS
<1>1. PICK x \in Nat \ T : \A y \in Nat \ T : x <= y
  BY LeastElement
<1>2. x # 0 /\ x - 1 \in Nat /\ x - 1 \in T
  BY <1>1
<1> QED BY <1>1, <1>2

-----------------------------------------------------------------------------
\* f lists, for every n, what a set keeps of the first n entries of q.
Keeps(f, q, K) ==
  f = [n \in 0 .. Len(q) |->
         IF n = 0 THEN << >>
         ELSE IF q[n] \in K THEN Append(f[n - 1], q[n]) ELSE f[n - 1]]

\* Such a list for one more entry.
LEMMA KeepsExtend ==
  ASSUME NEW S, NEW q \in Seq(S), NEW w \in S, NEW K,
         NEW f \in [0 .. Len(q) -> Seq(S)], Keeps(f, q, K)
  PROVE  \E g \in [0 .. Len(q) + 1 -> Seq(S)] : Keeps(g, Append(q, w), K)
<1> DEFINE m == Len(q)
           v == IF w \in K THEN Append(f[m], w) ELSE f[m]
           r == Append(q, w)
           g == [n \in 0 .. m + 1 |-> IF n = m + 1 THEN v ELSE f[n]]
<1>1. m \in Nat /\ m \in 0 .. m /\ Len(r) = m + 1 /\ r[m + 1] = w
      /\ \A n \in 1 .. m : r[n] = q[n]
  OBVIOUS
<1>2. f[m] \in Seq(S)
  BY <1>1
<1>3. v \in Seq(S)
  BY <1>2
<1>a. \A n \in 0 .. m :
        f[n] = IF n = 0 THEN << >>
               ELSE IF q[n] \in K THEN Append(f[n - 1], q[n]) ELSE f[n - 1]
  BY DEF Keeps
<1> HIDE DEF v, r, m
<1>4. g \in [0 .. m + 1 -> Seq(S)]
  BY <1>1, <1>3 DEF m
<1>5. ASSUME NEW n \in 0 .. m + 1
      PROVE  g[n] = IF n = 0 THEN << >>
                    ELSE IF r[n] \in K THEN Append(g[n - 1], r[n]) ELSE g[n - 1]
  <2>1. CASE n = 0
    <3>1. g[n] = f[0]
      BY <1>1, <2>1
    <3>2. f[0] = << >>
      BY <1>1, <1>a
    <3> QED BY <2>1, <3>1, <3>2
  <2>2. CASE n \in 1 .. m
    <3>1. n # 0 /\ g[n] = f[n] /\ g[n - 1] = f[n - 1] /\ r[n] = q[n]
      BY <1>1, <2>2
    <3>2. f[n] = IF q[n] \in K THEN Append(f[n - 1], q[n]) ELSE f[n - 1]
      BY <1>a, <2>2
    <3> HIDE DEF g
    <3> QED BY <3>1, <3>2
  <2>3. CASE n = m + 1
    <3>1. g[n] = v /\ g[n - 1] = f[m] /\ r[n] = w /\ n # 0
      BY <1>1, <2>3
    <3> QED BY <3>1 DEF v
  <2> QED BY <1>1, <2>1, <2>2, <2>3
<1>6. g = [n \in 0 .. Len(r) |->
             IF n = 0 THEN << >>
             ELSE IF r[n] \in K THEN Append(g[n - 1], r[n]) ELSE g[n - 1]]
  <2> HIDE DEF g
  <2>1. g = [n \in 0 .. m + 1 |-> g[n]]
    BY <1>4
  <2> QED BY <1>1, <1>5, <2>1
<1>7. Keeps(g, r, K)
  BY <1>6 DEF Keeps
<1> QED BY <1>4, <1>7 DEF r, m

\* A sequence is empty or the extension of a shorter one.
LEMMA FrontLast ==
  ASSUME NEW S, NEW q \in Seq(S), q # << >>
  PROVE  \E r \in Seq(S), w \in S : q = Append(r, w)
<1> DEFINE n == Len(q) - 1
           r == [i \in 1 .. n |-> q[i]]
           w == q[n + 1]
<1>1. r \in Seq(S) /\ w \in S /\ Len(r) = n /\ n \in Nat /\ Len(q) = n + 1
  OBVIOUS
<1>2. q = Append(r, w)
  <2>1. \A i \in 1 .. n : r[i] = q[i]
    OBVIOUS
  <2> HIDE DEF r, n
  <2>2. Append(r, w) \in Seq(S) /\ Len(Append(r, w)) = n + 1
    BY <1>1
  <2>3. \A i \in 1 .. n + 1 : Append(r, w)[i] = q[i]
    BY <1>1, <2>1
  <2> QED BY <1>1, <2>2, <2>3
<1> HIDE DEF r, w, n
<1> QED BY <1>1, <1>2

\* There is such a list for every sequence ...
LEMMA KeepsExists ==
  ASSUME NEW S, NEW q \in Seq(S), NEW K
  PROVE  \E f \in [0 .. Len(q) -> Seq(S)] : Keeps(f, q, K)
<1> DEFINE T == {n \in Nat : \A r \in Seq(S) : Len(r) = n =>
                   \E f \in [0 .. Len(r) -> Seq(S)] : Keeps(f, r, K)}
<1>1. 0 \in T
  <2>1. ASSUME NEW r \in Seq(S), Len(r) = 0
        PROVE  \E f \in [0 .. Len(r) -> Seq(S)] : Keeps(f, r, K)
    <3> DEFINE f == [n \in 0 .. 0 |-> << >>]
    <3>1. f \in [0 .. Len(r) -> Seq(S)]
      BY <2>1
    <3>2. f = [n \in 0 .. Len(r) |-> 
                 IF n = 0 THEN << >>
                 ELSE IF r[n] \in K THEN Append(f[n - 1], r[n]) ELSE f[n - 1]]
      BY <2>1
    <3> HIDE DEF f
    <3> QED BY <3>1, <3>2 DEF Keeps
  <2> QED BY <2>1
<1>2. ASSUME NEW n \in Nat, n \in T PROVE n + 1 \in T
  <2>1. ASSUME NEW r \in Seq(S), Len(r) = n + 1
        PROVE  \E f \in [0 .. Len(r) -> Seq(S)] : Keeps(f, r, K)
    <3>0. PICK t \in Seq(S), w \in S : r = Append(t, w)
      <4>1. r # << >>
        BY <2>1
      <4> HIDE DEF T
      <4> QED BY <4>1, FrontLast
    <3>1. Len(t) = n /\ r = Append(t, w)
      <4> HIDE DEF T
      <4> QED BY <2>1, <3>0
    <3>2. PICK f \in [0 .. Len(t) -> Seq(S)] : Keeps(f, t, K)
      BY <1>2, <3>1
    <3>3. \E g \in [0 .. Len(t) + 1 -> Seq(S)] : Keeps(g, Append(t, w), K)
      BY <3>2, KeepsExtend
    <3> QED BY <2>1, <3>1, <3>3
  <2> QED BY <2>1
<1> HIDE DEF T
<1>3. Nat \subseteq T
  BY <1>1, <1>2, SetInduction
<1>4. Len(q) \in T
  BY <1>3
<1> QED BY <1>4 DEF T

\* Only one function lists them.
LEMMA KeepsUnique ==
  ASSUME NEW S, NEW q \in Seq(S), NEW w \in S, NEW K,
         NEW f, Keeps(f, q, K), NEW g, Keeps(g, q, K) \/ Keeps(g, Append(q, w), K)
  PROVE  \A n \in 0 .. Len(q) : f[n] = g[n]
<1> DEFINE T == {n \in Nat : n \in 0 .. Len(q) => f[n] = g[n]}
           r == Append(q, w)
<1>0. Len(q) \in Nat /\ Len(r) = Len(q) + 1 /\ \A n \in 1 .. Len(q) : r[n] = q[n]
  OBVIOUS
<1> HIDE DEF r
<1>a. ASSUME NEW n \in 0 .. Len(q)
      PROVE  f[n] = IF n = 0 THEN << >>
                    ELSE IF q[n] \in K THEN Append(f[n - 1], q[n]) ELSE f[n - 1]
  BY DEF Keeps
<1>b. ASSUME NEW n \in 0 .. Len(q)
      PROVE  g[n] = IF n = 0 THEN << >>
                    ELSE IF q[n] \in K THEN Append(g[n - 1], q[n]) ELSE g[n - 1]
  <2>1. CASE Keeps(g, q, K)
    BY <2>1 DEF Keeps
  <2>2. CASE Keeps(g, r, K)
    <3>1. n \in 0 .. Len(r) /\ (n # 0 => r[n] = q[n])
      BY <1>0
    <3>2. g[n] = IF n = 0 THEN << >>
                 ELSE IF r[n] \in K THEN Append(g[n - 1], r[n]) ELSE g[n - 1]
      BY <2>2, <3>1 DEF Keeps
    <3> QED BY <3>1, <3>2
  <2> QED BY <2>1, <2>2 DEF r
<1>1. 0 \in T
  BY <1>0, <1>a, <1>b
<1>2. ASSUME NEW n \in Nat, n \in T PROVE n + 1 \in T
  <2> SUFFICES ASSUME n + 1 \in 0 .. Len(q) PROVE f[n + 1] = g[n + 1]
    OBVIOUS
  <2>1. f[n] = g[n]
    BY <1>0, <1>2
  <2>2. n + 1 # 0 /\ (n + 1) - 1 = n
    OBVIOUS
  <2>3. f[n + 1] = IF q[n + 1] \in K THEN Append(f[n], q[n + 1]) ELSE f[n]
    BY <1>a, <2>2
  <2>4. g[n + 1] = IF q[n + 1] \in K THEN Append(g[n], q[n + 1]) ELSE g[n]
    BY <1>b, <2>2
  <2> QED BY <2>1, <2>3, <2>4
<1> HIDE DEF T
<1>3. Nat \subseteq T
  BY <1>1, <1>2, SetInduction
<1> QED BY <1>0, <1>3 DEF T

\* ... and the operator Kept reads its last entry.
LEMMA KeptIs ==
  ASSUME NEW S, NEW q \in Seq(S), NEW K
  PROVE  \E f \in [0 .. Len(q) -> Seq(S)] : Keeps(f, q, K) /\ Kept(q, K) = f[Len(q)]
<1> DEFINE h == CHOOSE f : f = [n \in 0 .. Len(q) |->
                   IF n = 0 THEN << >>
                   ELSE IF q[n] \in K THEN Append(f[n - 1], q[n]) ELSE f[n - 1]]
<1>1. Kept(q, K) = h[Len(q)]
  BY DEF Kept
<1>2. PICK f \in [0 .. Len(q) -> Seq(S)] : Keeps(f, q, K)
  BY KeepsExists
<1>3. Keeps(h, q, K)
  BY <1>2 DEF Keeps
<1> HIDE DEF h
<1>4. CASE S = {}
  <2>1. q = << >>
    BY <1>4
  <2>2. h[0] = << >> /\ f[0] = << >>
    BY <1>2, <1>3, <2>1 DEF Keeps
  <2> QED BY <1>1, <1>2, <2>1, <2>2
<1>5. ASSUME NEW w \in S PROVE f[Len(q)] = h[Len(q)]
  <2>1. \A n \in 0 .. Len(q) : f[n] = h[n]
    BY <1>2, <1>3, KeepsUnique
  <2>2. Len(q) \in 0 .. Len(q)
    OBVIOUS
  <2> QED BY <2>1, <2>2
<1> QED BY <1>1, <1>2, <1>4, <1>5

-----------------------------------------------------------------------------
\* What a set keeps of a sequence, and how it follows the sequence.
LEMMA KeptType == ASSUME NEW S, NEW q \in Seq(S), NEW K PROVE Kept(q, K) \in Seq(S)
<1>1. PICK f \in [0 .. Len(q) -> Seq(S)] : Kept(q, K) = f[Len(q)]
  BY KeptIs
<1>2. Len(q) \in 0 .. Len(q)
  OBVIOUS
<1> QED BY <1>1, <1>2

\* Nothing is kept of nothing.
LEMMA KeptEmpty == ASSUME NEW K PROVE Kept(<< >>, K) = << >>
<1> DEFINE e == << >>
           S == {1}
<1>1. e \in Seq(S) /\ Len(e) = 0
  OBVIOUS
<1>2. PICK f : Keeps(f, e, K) /\ Kept(e, K) = f[0]
  <2> HIDE DEF e, S
  <2>1. \E f : Keeps(f, e, K) /\ Kept(e, K) = f[Len(e)]
    BY <1>1, KeptIs
  <2> QED BY <1>1, <2>1
<1>3. f[0] = << >>
  <2>1. 0 \in 0 .. Len(e)
    BY <1>1
  <2> HIDE DEF e
  <2> QED BY <1>2, <2>1 DEF Keeps
<1> QED BY <1>2, <1>3

\* An entry appended is kept last, or not at all.
LEMMA KeptAppend ==
  ASSUME NEW S, NEW q \in Seq(S), NEW w \in S, NEW K
  PROVE  Kept(Append(q, w), K) = IF w \in K THEN Append(Kept(q, K), w) ELSE Kept(q, K)
<1> DEFINE r == Append(q, w)
           m == Len(q)
<1>1. r \in Seq(S) /\ Len(r) = m + 1 /\ r[m + 1] = w /\ m \in Nat
  OBVIOUS
<1>2. PICK f : Keeps(f, q, K) /\ Kept(q, K) = f[m]
  BY KeptIs
<1>3. PICK g : Keeps(g, r, K) /\ Kept(r, K) = g[m + 1]
  <2> HIDE DEF r
  <2> QED BY <1>1, KeptIs
<1>4. f[m] = g[m]
  <2>1. \A n \in 0 .. m : f[n] = g[n]
    BY <1>2, <1>3, KeepsUnique
  <2> HIDE DEF m
  <2> QED BY <1>1, <2>1
<1> HIDE DEF r, m
<1>5. g[m + 1] = IF w \in K THEN Append(g[m], w) ELSE g[m]
  <2>1. m + 1 \in 0 .. Len(r) /\ m + 1 # 0 /\ (m + 1) - 1 = m
    BY <1>1
  <2> QED BY <1>1, <1>3, <2>1 DEF Keeps
<1> QED BY <1>2, <1>3, <1>4, <1>5 DEF r, m

\* Filtering two sequences in turn.
LEMMA KeptConcat ==
  ASSUME NEW S, NEW a \in Seq(S), NEW b \in Seq(S), NEW K
  PROVE  Kept(a \o b, K) = Kept(a, K) \o Kept(b, K)
<1> DEFINE T == {n \in Nat : \A r \in Seq(S) : Len(r) = n =>
                   Kept(a \o r, K) = Kept(a, K) \o Kept(r, K)}
<1>1. 0 \in T
  <2>1. ASSUME NEW r \in Seq(S), Len(r) = 0 PROVE Kept(a \o r, K) = Kept(a, K) \o Kept(r, K)
    <3>1. r = << >> /\ a \o r = a
      BY <2>1
    <3>2. Kept(a, K) \in Seq(S) /\ Kept(r, K) = << >>
      BY <3>1, KeptType, KeptEmpty
    <3>3. Kept(a, K) \o << >> = Kept(a, K)
      BY <3>2
    <3> QED BY <3>1, <3>2, <3>3
  <2> QED BY <2>1
<1>2. ASSUME NEW n \in Nat, n \in T PROVE n + 1 \in T
  <2>1. ASSUME NEW r \in Seq(S), Len(r) = n + 1
        PROVE  Kept(a \o r, K) = Kept(a, K) \o Kept(r, K)
    <3>0. PICK t \in Seq(S), w \in S : r = Append(t, w)
      <4>1. r # << >>
        BY <2>1
      <4> HIDE DEF T
      <4> QED BY <4>1, FrontLast
    <3>1. Len(t) = n /\ r = Append(t, w)
      <4> HIDE DEF T
      <4> QED BY <2>1, <3>0
    <3>2. Kept(a \o t, K) = Kept(a, K) \o Kept(t, K)
      BY <1>2, <3>1
    <3>3. a \o r = Append(a \o t, w) /\ a \o t \in Seq(S)
      BY <3>1, ConcatAppend, ConcatType
    <3>4. Kept(a \o r, K) = IF w \in K THEN Append(Kept(a \o t, K), w) ELSE Kept(a \o t, K)
      <4> DEFINE c == a \o t
      <4>1. c \in Seq(S) /\ a \o r = Append(c, w)
        BY <3>3
      <4> HIDE DEF c, T
      <4>2. Kept(Append(c, w), K) = IF w \in K THEN Append(Kept(c, K), w) ELSE Kept(c, K)
        BY <4>1, KeptAppend
      <4> QED BY <4>1, <4>2 DEF c
    <3>5. Kept(r, K) = IF w \in K THEN Append(Kept(t, K), w) ELSE Kept(t, K)
      BY <3>1, KeptAppend
    <3>6. Kept(a, K) \in Seq(S) /\ Kept(t, K) \in Seq(S)
      BY KeptType
    <3>7. Kept(a, K) \o Append(Kept(t, K), w) = Append(Kept(a, K) \o Kept(t, K), w)
      BY <3>6, ConcatAppend
    <3> QED BY <3>2, <3>4, <3>5, <3>7
  <2> QED BY <2>1
<1> HIDE DEF T
<1>3. Nat \subseteq T
  BY <1>1, <1>2, SetInduction
<1>4. Len(b) \in T
  BY <1>3
<1> QED BY <1>4 DEF T

\* An entry removed was kept first, or not at all.
LEMMA KeptTail ==
  ASSUME NEW S, NEW q \in Seq(S), q # << >>, NEW K
  PROVE  Kept(q, K) = (IF Head(q) \in K THEN <<Head(q)>> ELSE << >>) \o Kept(Tail(q), K)
<1> DEFINE h == Head(q)
           e == << >>
           a == <<h>>
           t == Tail(q)
<1>1. h \in S /\ t \in Seq(S) /\ a \in Seq(S) /\ q = a \o t
  OBVIOUS
<1>2. e \in Seq(S) /\ Append(e, h) = a
  OBVIOUS
<1>3. Kept(e, K) = e /\ Append(e, h) = <<h>>
  BY KeptEmpty
<1> HIDE DEF h, e, t
<1>4. Kept(a, K) = IF h \in K THEN <<h>> ELSE e
  <2> HIDE DEF a
  <2>1. Kept(Append(e, h), K) = IF h \in K THEN Append(e, h) ELSE e
    BY <1>1, <1>2, <1>3, KeptAppend
  <2> QED BY <1>2, <2>1 DEF a
<1>5. Kept(a \o t, K) = Kept(a, K) \o Kept(t, K)
  <2> HIDE DEF a
  <2> QED BY <1>1, KeptConcat
<1> HIDE DEF a
<1> QED BY <1>1, <1>4, <1>5 DEF h, t, e, a

\* All that is kept is in the set.
LEMMA KeptIn ==
  ASSUME NEW S, NEW q \in Seq(S), NEW K
  PROVE  Kept(q, K) \in Seq(S \cap K)
<1> DEFINE T == {n \in Nat : \A r \in Seq(S) : Len(r) = n => Kept(r, K) \in Seq(S \cap K)}
<1>1. 0 \in T
  <2>1. ASSUME NEW r \in Seq(S), Len(r) = 0 PROVE Kept(r, K) \in Seq(S \cap K)
    <3>1. r = << >>
      BY <2>1
    <3>2. Kept(r, K) = << >>
      BY <3>1, KeptEmpty
    <3> QED BY <3>2
  <2> QED BY <2>1
<1>2. ASSUME NEW n \in Nat, n \in T PROVE n + 1 \in T
  <2>1. ASSUME NEW r \in Seq(S), Len(r) = n + 1 PROVE Kept(r, K) \in Seq(S \cap K)
    <3>0. PICK t \in Seq(S), w \in S : r = Append(t, w)
      <4>1. r # << >>
        BY <2>1
      <4> HIDE DEF T
      <4> QED BY <4>1, FrontLast
    <3>1. Len(t) = n /\ r = Append(t, w)
      <4> HIDE DEF T
      <4> QED BY <2>1, <3>0
    <3>2. Kept(t, K) \in Seq(S \cap K)
      BY <1>2, <3>1
    <3>3. Kept(r, K) = IF w \in K THEN Append(Kept(t, K), w) ELSE Kept(t, K)
      BY <3>1, KeptAppend
    <3>4. CASE w \in K
      <4>1. w \in S \cap K
        BY <3>1, <3>4
      <4> QED BY <3>2, <3>3, <3>4, <4>1
    <3>5. CASE w \notin K
      BY <3>2, <3>3, <3>5
    <3> QED BY <3>4, <3>5
  <2> QED BY <2>1
<1> HIDE DEF T
<1>3. Nat \subseteq T
  BY <1>1, <1>2, SetInduction
<1>4. Len(q) \in T
  BY <1>3
<1> QED BY <1>4 DEF T

-----------------------------------------------------------------------------
\* What comes behind an entry, from the front of the queue on.
LEMMA AfterIs ==
  ASSUME NEW S, NEW q \in Seq(S), NEW i \in 0 .. Len(q)
  PROVE  /\ After(q, i) \in Seq(S) /\ Len(After(q, i)) = Len(q) - i
         /\ \A k \in 1 .. Len(q) - i : After(q, i)[k] = q[i + k]
         /\ After(q, 0) = q
BY DEF After

\* What comes behind an entry follows the queue.
LEMMA AfterSteps ==
  ASSUME NEW S, NEW q \in Seq(S), NEW i \in 0 .. Len(q)
  PROVE  /\ \A w \in S : After(Append(q, w), i) = Append(After(q, i), w)
         /\ i < Len(q) => /\ After(q, i) # << >> /\ Head(After(q, i)) = q[i + 1]
                          /\ After(q, i + 1) = Tail(After(q, i))
         /\ i > 0 => q # << >> /\ After(Tail(q), i - 1) = After(q, i)
<1>1. ASSUME NEW w \in S PROVE After(Append(q, w), i) = Append(After(q, i), w)
  <2>1. CASE i = 0
    <3>1. Append(q, w) \in Seq(S) /\ 0 \in 0 .. Len(Append(q, w)) /\ 0 \in 0 .. Len(q)
      OBVIOUS
    <3>2. After(Append(q, w), 0) = Append(q, w) /\ After(q, 0) = q
      BY <3>1, AfterIs
    <3> QED BY <2>1, <3>2
  <2>2. CASE i > 0
    BY <2>2, AfterAppend
  <2> QED BY <2>1, <2>2
<1>2. ASSUME i < Len(q)
      PROVE  /\ After(q, i) # << >> /\ Head(After(q, i)) = q[i + 1]
             /\ After(q, i + 1) = Tail(After(q, i))
  <2> DEFINE a == After(q, i)
             b == After(q, i + 1)
  <2>1. /\ a \in Seq(S) /\ Len(a) = Len(q) - i
        /\ \A k \in 1 .. Len(q) - i : a[k] = q[i + k]
    BY AfterIs
  <2>2. /\ b \in Seq(S) /\ Len(b) = Len(q) - (i + 1)
        /\ \A k \in 1 .. Len(q) - (i + 1) : b[k] = q[(i + 1) + k]
    <3>1. i + 1 \in 0 .. Len(q)
      BY <1>2
    <3> QED BY <3>1, AfterIs
  <2> HIDE DEF a, b
  <2>3. a # << >> /\ Tail(a) \in Seq(S) /\ Len(Tail(a)) = Len(a) - 1 /\ Head(a) = a[1]
        /\ \A k \in 1 .. Len(a) - 1 : Tail(a)[k] = a[k + 1]
    BY <1>2, <2>1
  <2>4. \A k \in 1 .. Len(b) : b[k] = Tail(a)[k]
    BY <2>1, <2>2, <2>3
  <2>5. b = Tail(a)
    <3>1. Len(b) = Len(Tail(a))
      BY <2>1, <2>2, <2>3
    <3> QED BY <2>2, <2>3, <2>4, <3>1
  <2>6. Head(a) = q[i + 1]
    <3>1. 1 \in 1 .. Len(q) - i
      BY <1>2
    <3> QED BY <2>1, <2>3, <3>1
  <2> QED BY <2>3, <2>5, <2>6 DEF a, b
<1>3. ASSUME i > 0 PROVE q # << >> /\ After(Tail(q), i - 1) = After(q, i)
  <2>1. q # << >> /\ Len(Tail(q)) = Len(q) - 1 /\ Tail(q) \in Seq(S)
    BY <1>3
  <2>2. CASE i = 1
    <3>1. i - 1 = 0 /\ 0 \in 0 .. Len(Tail(q))
      BY <2>1, <2>2
    <3>2. After(Tail(q), 0) = Tail(q)
      BY <2>1, <3>1, AfterIs
    <3>3. After(q, 1) = Tail(q)
      BY <2>1, AfterTail
    <3> QED BY <2>1, <2>2, <3>1, <3>2, <3>3
  <2>3. CASE i > 1
    <3>1. i - 1 \in 1 .. Len(q) - 1 /\ (i - 1) + 1 = i
      BY <2>3
    <3> QED BY <2>1, <3>1, AfterTail
  <2> QED BY <1>3, <2>2, <2>3
<1> QED BY <1>1, <1>2, <1>3

\* A count is zero when no entry is in the set.
LEMMA CountInZero ==
  ASSUME NEW S, NEW q \in Seq(S), NEW K
  PROVE  CountIn(q, K) = 0 <=> \A i \in DOMAIN q : q[i] \notin K
<1>1. IsFiniteSet(Places(q, K))
  BY CountInType
<1>2. Cardinality(Places(q, K)) = 0 <=> Places(q, K) = {}
  BY <1>1, FS_EmptySet
<1> QED BY <1>2 DEF CountIn, Places

\* The same entries counted with two sets.
LEMMA CountInSame ==
  ASSUME NEW S, NEW q \in Seq(S), NEW K, NEW L, \A w \in S : w \in K <=> w \in L
  PROVE  CountIn(q, K) = CountIn(q, L)
<1>1. Places(q, K) = Places(q, L)
  BY DEF Places
<1> QED BY <1>1 DEF CountIn

-----------------------------------------------------------------------------
\* The entries of q that are in K are numbered from b on.
Numbered(q, K, b) ==
  \A i \in DOMAIN q : q[i] \in K => q[i].idx = b + CountIn(SubSeq(q, 1, i - 1), K)

\* Nothing has any numbers.
LEMMA NumberedNone ==
  ASSUME NEW S, NEW q \in Seq(S), NEW K, NEW b, CountIn(q, K) = 0
  PROVE  Numbered(q, K, b)
BY CountInZero DEF Numbered

\* The next entry goes to the end.
LEMMA NumberedAppend ==
  ASSUME NEW S, NEW q \in Seq(S), NEW w \in S, NEW K, NEW b \in Int, Numbered(q, K, b),
         w \in K => w.idx = b + CountIn(q, K)
  PROVE  Numbered(Append(q, w), K, b)
<1> DEFINE r == Append(q, w)
<1>1. /\ Len(q) \in Nat /\ DOMAIN q = 1 .. Len(q) /\ DOMAIN r = 1 .. Len(q) + 1
      /\ \A i \in 1 .. Len(q) : r[i] = q[i]
      /\ r[Len(q) + 1] = w
  OBVIOUS
<1>2. \A i \in 1 .. Len(q) : SubSeq(r, 1, i - 1) = SubSeq(q, 1, i - 1)
  OBVIOUS
<1>3. SubSeq(r, 1, Len(q)) = q
  OBVIOUS
<1> HIDE DEF r
<1>4. ASSUME NEW i \in DOMAIN r, r[i] \in K
      PROVE  r[i].idx = b + CountIn(SubSeq(r, 1, i - 1), K)
  <2>1. CASE i \in 1 .. Len(q)
    BY <1>1, <1>2, <1>4, <2>1 DEF Numbered
  <2>2. CASE i = Len(q) + 1
    <3>1. i - 1 = Len(q)
      BY <1>1, <2>2
    <3> QED BY <1>1, <1>3, <1>4, <2>2, <3>1
  <2> QED BY <1>1, <1>4, <2>1, <2>2
<1> QED BY <1>4 DEF Numbered, r

\* The first entry has the first number.
LEMMA NumberedTail ==
  ASSUME NEW S, NEW q \in Seq(S), q # << >>, NEW K, NEW b \in Int, Numbered(q, K, b)
  PROVE  /\ Head(q) \in K => Head(q).idx = b
         /\ Numbered(Tail(q), K, b + IF Head(q) \in K THEN 1 ELSE 0)
<1> DEFINE r == Tail(q)
           one == IF Head(q) \in K THEN 1 ELSE 0
<1>1. /\ Len(q) \in Nat /\ DOMAIN q = 1 .. Len(q) /\ Len(q) >= 1 /\ Head(q) = q[1]
      /\ r \in Seq(S) /\ DOMAIN r = 1 .. Len(q) - 1
      /\ \A i \in 1 .. Len(q) - 1 : r[i] = q[i + 1]
  OBVIOUS
<1>2. SubSeq(q, 1, 0) = << >>
  OBVIOUS
<1>3. Head(q) \in K => Head(q).idx = b
  <2>1. 1 \in DOMAIN q /\ 1 - 1 = 0
    BY <1>1
  <2>2. q[1] \in K => q[1].idx = b + CountIn(SubSeq(q, 1, 0), K)
    BY <2>1 DEF Numbered
  <2>3. CountIn(SubSeq(q, 1, 0), K) = 0
    BY <1>2, CountInEmpty
  <2> QED BY <1>1, <2>2, <2>3
<1>4. ASSUME NEW i \in 1 .. Len(q) - 1
      PROVE  CountIn(SubSeq(q, 1, i), K) = CountIn(SubSeq(r, 1, i - 1), K) + one
             /\ CountIn(SubSeq(r, 1, i - 1), K) \in Nat
  <2> DEFINE p == SubSeq(q, 1, i)
  <2>1. p \in Seq(S) /\ p # << >> /\ Head(p) = Head(q) /\ Tail(p) = SubSeq(r, 1, i - 1)
    OBVIOUS
  <2>2. Tail(p) \in Seq(S)
    BY <2>1
  <2> HIDE DEF p, r
  <2>3. CountIn(p, K) = CountIn(Tail(p), K) + IF Head(p) \in K THEN 1 ELSE 0
    BY <2>1, CountInTail
  <2>4. CountIn(Tail(p), K) \in Nat
    BY <2>2, CountInType
  <2> QED BY <2>1, <2>3, <2>4 DEF p
<1>5. one \in Int
  OBVIOUS
<1>7. b + one \in Int
  BY <1>5
<1> HIDE DEF r, one
<1>6. ASSUME NEW i \in DOMAIN r, r[i] \in K
      PROVE  r[i].idx = (b + one) + CountIn(SubSeq(r, 1, i - 1), K)
  <2>1. i \in 1 .. Len(q) - 1 /\ i + 1 \in DOMAIN q /\ (i + 1) - 1 = i /\ q[i + 1] = r[i]
    BY <1>1
  <2>2. r[i].idx = b + CountIn(SubSeq(q, 1, i), K)
    BY <1>6, <2>1 DEF Numbered
  <2>3. /\ CountIn(SubSeq(q, 1, i), K) = CountIn(SubSeq(r, 1, i - 1), K) + one
        /\ CountIn(SubSeq(r, 1, i - 1), K) \in Nat
    BY <1>4, <2>1
  <2>4. \A x \in Nat : b + (x + one) = (b + one) + x
    BY <1>5
  <2> QED BY <2>2, <2>3, <2>4
<1> QED BY <1>3, <1>6 DEF Numbered, r, one

\* No entry has a number below the first.
LEMMA NumberedAbove ==
  ASSUME NEW S, NEW q \in Seq(S), NEW K, NEW b \in Int, Numbered(q, K, b),
         NEW i \in DOMAIN q, q[i] \in K
  PROVE  q[i].idx \in Int /\ q[i].idx >= b
<1>1. SubSeq(q, 1, i - 1) \in Seq(S)
  OBVIOUS
<1>2. CountIn(SubSeq(q, 1, i - 1), K) \in Nat
  BY <1>1, CountInType
<1> QED BY <1>2 DEF Numbered

\* With the last number there is an entry.
LEMMA NumberedLast ==
  ASSUME NEW S, NEW q \in Seq(S), NEW K, NEW b \in Int, Numbered(q, K, b),
         CountIn(q, K) > 0
  PROVE  \E i \in DOMAIN q : q[i] \in K /\ q[i].idx = b + CountIn(q, K) - 1
<1> DEFINE HasLast(r) == Numbered(r, K, b) /\ CountIn(r, K) > 0
                 => \E i \in DOMAIN r : r[i] \in K /\ r[i].idx = b + CountIn(r, K) - 1
           T == {n \in Nat : \A r \in Seq(S) : Len(r) = n => HasLast(r)}
<1>1. 0 \in T
  <2> SUFFICES ASSUME NEW r \in Seq(S), Len(r) = 0 PROVE HasLast(r)
    OBVIOUS
  <2>1. r = << >>
    OBVIOUS
  <2>2. CountIn(r, K) = 0
    BY <2>1, CountInEmpty
  <2> QED BY <2>2
<1>2. ASSUME NEW n \in Nat, n \in T PROVE n + 1 \in T
  <2> SUFFICES ASSUME NEW r \in Seq(S), Len(r) = n + 1, Numbered(r, K, b), CountIn(r, K) > 0
               PROVE  \E i \in DOMAIN r : r[i] \in K /\ r[i].idx = b + CountIn(r, K) - 1
    OBVIOUS
  <2>1. r # << >>
    OBVIOUS
  <2>2. PICK f \in Seq(S), w \in S : r = Append(f, w)
    BY <2>1, FrontLast
  <2>3. /\ Len(f) = n /\ DOMAIN r = 1 .. n + 1 /\ DOMAIN f = 1 .. n /\ r[n + 1] = w
        /\ \A i \in 1 .. n : r[i] = f[i]
        /\ SubSeq(r, 1, n) = f
    BY <2>2
  <2>4. CountIn(r, K) = CountIn(f, K) + IF w \in K THEN 1 ELSE 0
    BY <2>2, CountInAppend
  <2>5. CountIn(f, K) \in Nat
    BY CountInType
  <2>6. CASE w \in K
    <3>1. n + 1 \in DOMAIN r /\ (n + 1) - 1 = n
      BY <2>3
    <3>2. r[n + 1].idx = b + CountIn(SubSeq(r, 1, n), K)
      BY <2>3, <2>6, <3>1 DEF Numbered
    <3>3. b + CountIn(r, K) - 1 = b + CountIn(f, K)
      BY <2>4, <2>5, <2>6
    <3>4. r[n + 1] \in K /\ r[n + 1].idx = b + CountIn(r, K) - 1
      BY <2>3, <2>6, <3>2, <3>3
    <3> QED BY <3>1, <3>4
  <2>7. CASE w \notin K
    <3>1. \A i \in 1 .. n : SubSeq(r, 1, i - 1) = SubSeq(f, 1, i - 1)
      BY <2>2, <2>3
    <3>2. Numbered(f, K, b)
      <4> SUFFICES ASSUME NEW i \in DOMAIN f, f[i] \in K
                   PROVE  f[i].idx = b + CountIn(SubSeq(f, 1, i - 1), K)
        BY DEF Numbered
      <4>1. i \in 1 .. n /\ i \in DOMAIN r /\ r[i] = f[i]
        BY <2>3
      <4>2. r[i].idx = b + CountIn(SubSeq(r, 1, i - 1), K)
        BY <4>1 DEF Numbered
      <4> QED BY <3>1, <4>1, <4>2
    <3>3. HasLast(f)
      BY <1>2, <2>3
    <3>4. CountIn(r, K) = CountIn(f, K)
      BY <2>4, <2>5, <2>7
    <3> QED BY <2>3, <3>2, <3>3, <3>4
  <2> QED BY <2>6, <2>7
<1>3. Nat \subseteq T
  <2> HIDE DEF T
  <2> QED BY <1>1, <1>2, SetInduction
<1>4. Len(q) \in Nat
  OBVIOUS
<1> QED BY <1>3, <1>4

-----------------------------------------------------------------------------
\* Sequences with the same entries are the same.
LEMMA SeqsSame ==
  ASSUME NEW S, NEW s \in Seq(S), NEW t \in Seq(S), Len(s) = Len(t),
         \A i \in 1 .. Len(s) : s[i] = t[i]
  PROVE  s = t
OBVIOUS

\* Sequences over a larger set.
LEMMA SeqWider == ASSUME NEW A, NEW B, A \subseteq B, NEW s \in Seq(A) PROVE s \in Seq(B)
OBVIOUS

\* What is left of one item.
LEMMA EmptyTail == ASSUME NEW a PROVE <<a>> # << >> /\ Tail(<<a>>) = << >> /\ Head(<<a>>) = a
<1>1. PICK S : S = {a}
  OBVIOUS
<1>2. <<a>> \in Seq(S) /\ Len(<<a>>) = 1
  BY <1>1
<1> QED BY <1>2

SameBut(T, U, P, x) == \A z \in P : z # x => U[z] = T[z]
SameButTwo(T, U, P, x, y) == \A z \in P : z # x /\ z # y => U[z] = T[z]

\* Of the queues in T, x gives up its head and y takes v, or only one of the two
\* happens.
Passes(T, U, P, x, y, v) ==
  /\ x \in P /\ y \in P /\ x # y /\ T[x] # << >>
  /\ U[x] = Tail(T[x]) /\ U[y] = Append(T[y], v) /\ SameButTwo(T, U, P, x, y)
Leaves(T, U, P, x)   == x \in P /\ T[x] # << >> /\ U[x] = Tail(T[x]) /\ SameBut(T, U, P, x)
Joins(T, U, P, y, v) == y \in P /\ U[y] = Append(T[y], v) /\ SameBut(T, U, P, y)

\* Where the entries of queues come from.
LEMMA PassOrigin ==
  ASSUME NEW P, NEW S, NEW T \in [P -> Seq(S)], NEW U, NEW x, NEW y, NEW v,
         Passes(T, U, P, x, y, v), NEW z \in P, NEW i \in DOMAIN U[z]
  PROVE  (\E j \in DOMAIN T[z] : U[z][i] = T[z][j]) \/ (z = y /\ U[z][i] = v)
<1>1. T[z] \in Seq(S)
  OBVIOUS
<1>2. CASE z = x
  <2>1. T[z] # << >> /\ U[z] = Tail(T[z])
    BY <1>2 DEF Passes
  <2>2. i + 1 \in DOMAIN T[z] /\ U[z][i] = T[z][i + 1]
    BY <1>1, <2>1
  <2> QED BY <2>2
<1>3. CASE z = y
  <2>1. U[z] = Append(T[z], v)
    BY <1>3 DEF Passes
  <2>2. (i \in DOMAIN T[z] /\ U[z][i] = T[z][i]) \/ U[z][i] = v
    BY <1>1, <2>1
  <2> QED BY <1>3, <2>2
<1>4. CASE z # x /\ z # y
  <2>1. U[z] = T[z]
    BY <1>4 DEF Passes, SameButTwo
  <2> QED BY <2>1
<1> QED BY <1>2, <1>3, <1>4

\* An entry was there before, when one has left.
LEMMA LeaveOrigin ==
  ASSUME NEW P, NEW S, NEW T \in [P -> Seq(S)], NEW U, NEW x,
         Leaves(T, U, P, x), NEW z \in P, NEW i \in DOMAIN U[z]
  PROVE  \E j \in DOMAIN T[z] : U[z][i] = T[z][j]
<1>1. T[z] \in Seq(S)
  OBVIOUS
<1>2. CASE z = x
  <2>1. T[z] # << >> /\ U[z] = Tail(T[z])
    BY <1>2 DEF Leaves
  <2>2. i + 1 \in DOMAIN T[z] /\ U[z][i] = T[z][i + 1]
    BY <1>1, <2>1
  <2> QED BY <2>2
<1>3. CASE z # x
  <2>1. U[z] = T[z]
    BY <1>3 DEF Leaves, SameBut
  <2> QED BY <2>1
<1> QED BY <1>2, <1>3

\* When one has joined, it is the one or was there before.
LEMMA JoinOrigin ==
  ASSUME NEW P, NEW S, NEW T \in [P -> Seq(S)], NEW U, NEW y, NEW v,
         Joins(T, U, P, y, v), NEW z \in P, NEW i \in DOMAIN U[z]
  PROVE  (\E j \in DOMAIN T[z] : U[z][i] = T[z][j]) \/ (z = y /\ U[z][i] = v)
<1>1. T[z] \in Seq(S)
  OBVIOUS
<1>2. CASE z = y
  <2>1. U[z] = Append(T[z], v)
    BY <1>2 DEF Joins
  <2>2. (i \in DOMAIN T[z] /\ U[z][i] = T[z][i]) \/ U[z][i] = v
    BY <1>1, <2>1
  <2> QED BY <1>2, <2>2
<1>3. CASE z # y
  <2>1. U[z] = T[z]
    BY <1>3 DEF Joins, SameBut
  <2> QED BY <2>1
<1> QED BY <1>2, <1>3

\* An entry is in one queue at a time, and there once; it is in none of them.
Distinct(T, P) ==
  \A x, y \in P : \A i \in DOMAIN T[x], j \in DOMAIN T[y] : T[x][i] = T[y][j] => x = y /\ i = j
NotIn(t, T, P) == \A z \in P : \A i \in DOMAIN T[z] : T[z][i] # t

\* An entry leaves a queue: it is in none of them then.
LEMMA DistinctTake ==
  ASSUME NEW P, NEW S, NEW T \in [P -> Seq(S)], NEW U \in [P -> Seq(S)], Distinct(T, P),
         NEW x \in P, T[x] # << >>, U[x] = Tail(T[x]), SameBut(T, U, P, x)
  PROVE  Distinct(U, P) /\ NotIn(Head(T[x]), U, P)
<1>1. /\ T[x] \in Seq(S) /\ 1 \in DOMAIN T[x] /\ T[x][1] = Head(T[x])
      /\ \A i \in DOMAIN U[x] : i \in Nat \ {0} /\ i + 1 \in DOMAIN T[x] /\ U[x][i] = T[x][i + 1]
  OBVIOUS
<1>2. ASSUME NEW z \in P, NEW i \in DOMAIN U[z]
      PROVE  \E j \in DOMAIN T[z] : /\ U[z][i] = T[z][j] /\ (z = x => j = i + 1 /\ i \in Nat \ {0})
                                    /\ (z # x => j = i)
  BY <1>1, <1>2 DEF SameBut
<1>3. ASSUME NEW z \in P, NEW i \in DOMAIN U[z] PROVE U[z][i] # Head(T[x])
  <2>1. PICK j \in DOMAIN T[z] : U[z][i] = T[z][j] /\ (z = x => j = i + 1 /\ i \in Nat \ {0})
    BY <1>2, <1>3
  <2> QED BY <1>1, <2>1 DEF Distinct
<1>4. ASSUME NEW y \in P, NEW z \in P, NEW i \in DOMAIN U[y], NEW j \in DOMAIN U[z],
             U[y][i] = U[z][j]
      PROVE  y = z /\ i = j
  <2>1. PICK a \in DOMAIN T[y] : /\ U[y][i] = T[y][a] /\ (y = x => a = i + 1 /\ i \in Nat \ {0})
                                 /\ (y # x => a = i)
    BY <1>2, <1>4
  <2>2. PICK b \in DOMAIN T[z] : /\ U[z][j] = T[z][b] /\ (z = x => b = j + 1 /\ j \in Nat \ {0})
                                 /\ (z # x => b = j)
    BY <1>2, <1>4
  <2>3. T[y][a] = T[z][b]
    BY <1>4, <2>1, <2>2
  <2>4. y = z /\ a = b
    BY <1>4, <2>1, <2>2, <2>3 DEF Distinct
  <2> QED BY <2>1, <2>2, <2>4
<1> QED BY <1>3, <1>4 DEF Distinct, NotIn

\* An entry that is in none of the queues joins one.
LEMMA DistinctPut ==
  ASSUME NEW P, NEW S, NEW T \in [P -> Seq(S)], NEW U, Distinct(T, P),
         NEW y \in P, NEW t \in S, U[y] = Append(T[y], t), SameBut(T, U, P, y), NotIn(t, T, P)
  PROVE  Distinct(U, P)
<1>1. /\ T[y] \in Seq(S) /\ Len(T[y]) \in Nat /\ DOMAIN T[y] = 1 .. Len(T[y])
      /\ DOMAIN U[y] = 1 .. Len(T[y]) + 1 /\ U[y][Len(T[y]) + 1] = t
      /\ \A i \in DOMAIN T[y] : U[y][i] = T[y][i]
  OBVIOUS
<1>2. ASSUME NEW z \in P, NEW i \in DOMAIN U[z]
      PROVE  \/ i \in DOMAIN T[z] /\ U[z][i] = T[z][i] /\ U[z][i] # t
             \/ z = y /\ i = Len(T[y]) + 1 /\ U[z][i] = t
  <2>1. CASE z = y
    BY <1>1, <1>2, <2>1 DEF NotIn
  <2>2. CASE z # y
    BY <1>2, <2>2 DEF NotIn, SameBut
  <2> QED BY <2>1, <2>2
<1>3. ASSUME NEW v \in P, NEW z \in P, NEW i \in DOMAIN U[v], NEW j \in DOMAIN U[z],
             U[v][i] = U[z][j]
      PROVE  v = z /\ i = j
  <2>1. \/ i \in DOMAIN T[v] /\ U[v][i] = T[v][i] /\ U[v][i] # t
        \/ v = y /\ i = Len(T[y]) + 1 /\ U[v][i] = t
    BY <1>2, <1>3
  <2>2. \/ j \in DOMAIN T[z] /\ U[z][j] = T[z][j] /\ U[z][j] # t
        \/ z = y /\ j = Len(T[y]) + 1 /\ U[z][j] = t
    BY <1>2, <1>3
  <2> QED BY <1>3, <2>1, <2>2 DEF Distinct
<1> QED BY <1>3 DEF Distinct

\* An entry goes from the head of one queue to the end of another.
LEMMA DistinctMove ==
  ASSUME NEW P, NEW S, NEW T \in [P -> Seq(S)], NEW U, Distinct(T, P),
         NEW x \in P, NEW y \in P, x # y, T[x] # << >>,
         U[x] = Tail(T[x]), U[y] = Append(T[y], Head(T[x])),
         SameButTwo(T, U, P, x, y)
  PROVE  Distinct(U, P)
<1> DEFINE V == [z \in P |-> IF z = x THEN Tail(T[x]) ELSE T[z]]
<1>1. Tail(T[x]) \in Seq(S) /\ Head(T[x]) \in S
  <2>1. T[x] \in Seq(S)
    OBVIOUS
  <2> QED BY <2>1
<1>2. /\ V \in [P -> Seq(S)] /\ V[x] = Tail(T[x]) /\ \A z \in P : z # x => V[z] = T[z]
  BY <1>1
<1> HIDE DEF V
<1>3. Distinct(V, P) /\ NotIn(Head(T[x]), V, P)
  BY <1>2, DistinctTake DEF SameBut
<1>4. U[y] = Append(V[y], Head(T[x])) /\ SameBut(V, U, P, y)
  BY <1>2 DEF SameBut, SameButTwo
<1> QED BY <1>1, <1>2, <1>3, <1>4, DistinctPut

-----------------------------------------------------------------------------
\* Words on a route: R names the queues, the last one they come to first; those
\* in K are numbered from k to e in the order they travel, and nowhere else.
Chain(T, R, K, k, e) ==
  \E b \in [0 .. Len(R) -> Nat] :
    /\ b[0] = k /\ b[Len(R)] = e
    /\ \A i \in 1 .. Len(R) :
         Numbered(T[R[i]], K, b[i - 1]) /\ b[i] = b[i - 1] + CountIn(T[R[i]], K)
OnRoute(T, P, R, K) ==
  \A x \in P : (\E i \in DOMAIN T[x] : T[x][i] \in K) => \E j \in DOMAIN R : x = R[j]
NoRepeat(R) == \A i, j \in DOMAIN R : R[i] = R[j] => i = j
NoneOf(T, P, K) == \A x \in P : \A i \in DOMAIN T[x] : T[x][i] \notin K

\* The same words are in two queues that differ by a word that is not in K.
LikeIn(s, u, S, K) ==
  \/ u = s
  \/ s # << >> /\ Head(s) \notin K /\ u = Tail(s)
  \/ \E w \in S : w \notin K /\ u = Append(s, w)

\* They are numbered and counted alike.
LEMMA LikeInSame ==
  ASSUME NEW S, NEW s \in Seq(S), NEW u, NEW K, LikeIn(s, u, S, K)
  PROVE  /\ CountIn(u, K) = CountIn(s, K)
         /\ \A b \in Int : Numbered(s, K, b) => Numbered(u, K, b)
<1>1. CASE u = s
  BY <1>1
<1>2. ASSUME s # << >>, Head(s) \notin K, u = Tail(s)
      PROVE  /\ CountIn(u, K) = CountIn(s, K)
             /\ \A b \in Int : Numbered(s, K, b) => Numbered(u, K, b)
  <2>1. Tail(s) \in Seq(S)
    BY <1>2
  <2>2. CountIn(s, K) = CountIn(u, K) + 0 /\ CountIn(u, K) \in Nat
    BY <1>2, <2>1, CountInTail, CountInType
  <2>3. ASSUME NEW b \in Int, Numbered(s, K, b) PROVE Numbered(u, K, b)
    <3>1. Numbered(Tail(s), K, b + IF Head(s) \in K THEN 1 ELSE 0)
      BY <1>2, <2>3, NumberedTail
    <3>2. b + (IF Head(s) \in K THEN 1 ELSE 0) = b
      BY <1>2
    <3> QED BY <1>2, <3>1, <3>2
  <2> QED BY <2>2, <2>3
<1>3. ASSUME NEW w \in S, w \notin K, u = Append(s, w)
      PROVE  /\ CountIn(u, K) = CountIn(s, K)
             /\ \A b \in Int : Numbered(s, K, b) => Numbered(u, K, b)
  <2>1. CountIn(u, K) = CountIn(s, K) + 0 /\ CountIn(s, K) \in Nat
    BY <1>3, CountInAppend, CountInType
  <2>2. ASSUME NEW b \in Int, Numbered(s, K, b) PROVE Numbered(u, K, b)
    BY <1>3, <2>2, NumberedAppend
  <2> QED BY <2>1, <2>2
<1> QED BY <1>1, <1>2, <1>3 DEF LikeIn

\* Words that are not in K come and go.
LEMMA ChainSkip ==
  ASSUME NEW P, NEW S, NEW T \in [P -> Seq(S)], NEW U, NEW R \in Seq(P), NEW K, NEW k, NEW e,
         Chain(T, R, K, k, e), \A j \in DOMAIN R : LikeIn(T[R[j]], U[R[j]], S, K)
  PROVE  Chain(U, R, K, k, e)
<1>1. PICK b \in [0 .. Len(R) -> Nat] :
        /\ b[0] = k /\ b[Len(R)] = e
        /\ \A i \in 1 .. Len(R) :
             Numbered(T[R[i]], K, b[i - 1]) /\ b[i] = b[i - 1] + CountIn(T[R[i]], K)
  BY DEF Chain
<1>2. ASSUME NEW i \in 1 .. Len(R)
      PROVE  Numbered(U[R[i]], K, b[i - 1]) /\ b[i] = b[i - 1] + CountIn(U[R[i]], K)
  <2>1. i \in DOMAIN R /\ T[R[i]] \in Seq(S) /\ i - 1 \in 0 .. Len(R)
    OBVIOUS
  <2>2. b[i - 1] \in Int
    BY <2>1
  <2>3. /\ CountIn(U[R[i]], K) = CountIn(T[R[i]], K)
        /\ \A c \in Int : Numbered(T[R[i]], K, c) => Numbered(U[R[i]], K, c)
    BY <2>1, LikeInSame
  <2> QED BY <1>1, <2>2, <2>3
<1> QED BY <1>1, <1>2 DEF Chain

\* No word is on its way.
LEMMA ChainNone ==
  ASSUME NEW P, NEW S, NEW T \in [P -> Seq(S)], NEW R \in Seq(P), NEW K, NoneOf(T, P, K),
         NEW k \in Nat
  PROVE  Chain(T, R, K, k, k)
<1> DEFINE b == [j \in 0 .. Len(R) |-> k]
<1>1. b \in [0 .. Len(R) -> Nat] /\ b[0] = k /\ b[Len(R)] = k
  OBVIOUS
<1>2. ASSUME NEW i \in 1 .. Len(R)
      PROVE  Numbered(T[R[i]], K, b[i - 1]) /\ b[i] = b[i - 1] + CountIn(T[R[i]], K)
  <2>1. R[i] \in P /\ T[R[i]] \in Seq(S) /\ b[i] = k /\ b[i - 1] = k
    OBVIOUS
  <2>2. CountIn(T[R[i]], K) = 0
    BY <2>1, CountInZero DEF NoneOf
  <2> QED BY <2>1, <2>2, NumberedNone
<1> HIDE DEF b
<1> QED BY <1>1, <1>2 DEF Chain

\* The numbers never go down; if they do not go up there are no words.
LEMMA ChainEnds ==
  ASSUME NEW P, NEW S, NEW T \in [P -> Seq(S)], NEW R \in Seq(P), Len(R) \in {2, 4, 5}, NEW K,
         NEW k, NEW e, Chain(T, R, K, k, e)
  PROVE  /\ k \in Nat /\ e \in Nat /\ k <= e
         /\ k = e => \A i \in DOMAIN R : CountIn(T[R[i]], K) = 0
<1>1. PICK b \in [0 .. Len(R) -> Nat] :
        /\ b[0] = k /\ b[Len(R)] = e
        /\ \A i \in 1 .. Len(R) :
             Numbered(T[R[i]], K, b[i - 1]) /\ b[i] = b[i - 1] + CountIn(T[R[i]], K)
  BY DEF Chain
<1>2. ASSUME NEW i \in 1 .. Len(R)
      PROVE  /\ CountIn(T[R[i]], K) \in Nat /\ b[i - 1] \in Nat /\ b[i] \in Nat
             /\ b[i] = b[i - 1] + CountIn(T[R[i]], K)
  <2>1. T[R[i]] \in Seq(S) /\ i \in 0 .. Len(R) /\ i - 1 \in 0 .. Len(R)
    OBVIOUS
  <2> QED BY <1>1, <2>1, CountInType
<1>3. ASSUME NEW i \in Nat, i < Len(R)
      PROVE  /\ CountIn(T[R[i + 1]], K) \in Nat /\ b[i] \in Nat /\ b[i + 1] \in Nat
             /\ b[i + 1] = b[i] + CountIn(T[R[i + 1]], K)
  <2>1. i + 1 \in 1 .. Len(R) /\ (i + 1) - 1 = i
    BY <1>3
  <2> QED BY <1>2, <2>1
<1>5. CASE Len(R) = 2
  <2>1. PICK x0, x1, x2 : x0 = b[0] /\ x1 = b[1] /\ x2 = b[2]
    OBVIOUS
  <2>2. PICK c1, c2 : c1 = CountIn(T[R[1]], K) /\ c2 = CountIn(T[R[2]], K)
    OBVIOUS
  <2>3. x0 \in Nat /\ x1 \in Nat /\ c1 \in Nat /\ x1 = x0 + c1
    <3>1. 0 \in Nat /\ 0 < Len(R) /\ 0 + 1 = 1
      BY <1>5
    <3>2. CountIn(T[R[1]], K) \in Nat /\ b[0] \in Nat /\ b[1] \in Nat
          /\ b[1] = b[0] + CountIn(T[R[1]], K)
      BY <1>3, <3>1
    <3> QED BY <2>1, <2>2, <3>2
  <2>4. x1 \in Nat /\ x2 \in Nat /\ c2 \in Nat /\ x2 = x1 + c2
    <3>1. 1 \in Nat /\ 1 < Len(R) /\ 1 + 1 = 2
      BY <1>5
    <3>2. CountIn(T[R[2]], K) \in Nat /\ b[1] \in Nat /\ b[2] \in Nat
          /\ b[2] = b[1] + CountIn(T[R[2]], K)
      BY <1>3, <3>1
    <3> QED BY <2>1, <2>2, <3>2
  <2>5. x0 <= x2 /\ (x0 = x2 => c1 = 0 /\ c2 = 0)
    BY <2>3, <2>4
  <2>6. k = x0 /\ e = x2
    BY <1>1, <1>5, <2>1
  <2>7. DOMAIN R = {1, 2}
    BY <1>5
  <2>8. k \in Nat /\ e \in Nat /\ k <= e
    BY <2>3, <2>4, <2>5, <2>6
  <2>9. k = e => c1 = 0 /\ c2 = 0
    BY <2>5, <2>6
  <2> QED BY <2>2, <2>7, <2>8, <2>9
<1>6. CASE Len(R) = 4
  <2>1. PICK x0, x1, x2, x3, x4 : x0 = b[0] /\ x1 = b[1] /\ x2 = b[2] /\ x3 = b[3] /\ x4 = b[4]
    OBVIOUS
  <2>2. PICK c1, c2, c3, c4 : 
         /\ c1 = CountIn(T[R[1]], K) /\ c2 = CountIn(T[R[2]], K) /\ c3 = CountIn(T[R[3]], K)
         /\ c4 = CountIn(T[R[4]], K)
    OBVIOUS
  <2>3. x0 \in Nat /\ x1 \in Nat /\ c1 \in Nat /\ x1 = x0 + c1
    <3>1. 0 \in Nat /\ 0 < Len(R) /\ 0 + 1 = 1
      BY <1>6
    <3>2. CountIn(T[R[1]], K) \in Nat /\ b[0] \in Nat /\ b[1] \in Nat
          /\ b[1] = b[0] + CountIn(T[R[1]], K)
      BY <1>3, <3>1
    <3> QED BY <2>1, <2>2, <3>2
  <2>4. x1 \in Nat /\ x2 \in Nat /\ c2 \in Nat /\ x2 = x1 + c2
    <3>1. 1 \in Nat /\ 1 < Len(R) /\ 1 + 1 = 2
      BY <1>6
    <3>2. CountIn(T[R[2]], K) \in Nat /\ b[1] \in Nat /\ b[2] \in Nat
          /\ b[2] = b[1] + CountIn(T[R[2]], K)
      BY <1>3, <3>1
    <3> QED BY <2>1, <2>2, <3>2
  <2>5. x2 \in Nat /\ x3 \in Nat /\ c3 \in Nat /\ x3 = x2 + c3
    <3>1. 2 \in Nat /\ 2 < Len(R) /\ 2 + 1 = 3
      BY <1>6
    <3>2. CountIn(T[R[3]], K) \in Nat /\ b[2] \in Nat /\ b[3] \in Nat
          /\ b[3] = b[2] + CountIn(T[R[3]], K)
      BY <1>3, <3>1
    <3> QED BY <2>1, <2>2, <3>2
  <2>6. x3 \in Nat /\ x4 \in Nat /\ c4 \in Nat /\ x4 = x3 + c4
    <3>1. 3 \in Nat /\ 3 < Len(R) /\ 3 + 1 = 4
      BY <1>6
    <3>2. CountIn(T[R[4]], K) \in Nat /\ b[3] \in Nat /\ b[4] \in Nat
          /\ b[4] = b[3] + CountIn(T[R[4]], K)
      BY <1>3, <3>1
    <3> QED BY <2>1, <2>2, <3>2
  <2>7. x0 <= x4 /\ (x0 = x4 => c1 = 0 /\ c2 = 0 /\ c3 = 0 /\ c4 = 0)
    BY <2>3, <2>4, <2>5, <2>6
  <2>8. k = x0 /\ e = x4
    BY <1>1, <1>6, <2>1
  <2>9. DOMAIN R = {1, 2, 3, 4}
    BY <1>6
  <2>10. k \in Nat /\ e \in Nat /\ k <= e
    BY <2>3, <2>4, <2>5, <2>6, <2>7, <2>8
  <2>11. k = e => c1 = 0 /\ c2 = 0 /\ c3 = 0 /\ c4 = 0
    BY <2>7, <2>8
  <2> QED BY <2>2, <2>9, <2>10, <2>11
<1>7. CASE Len(R) = 5
  <2>1. PICK x0, x1, x2, x3, x4, x5 : x0 = b[0] /\ x1 = b[1] /\ x2 = b[2] /\ x3 = b[3] /\ x4 = b[4] /\ x5 = b[5]
    OBVIOUS
  <2>2. PICK c1, c2, c3, c4, c5 : 
         /\ c1 = CountIn(T[R[1]], K) /\ c2 = CountIn(T[R[2]], K) /\ c3 = CountIn(T[R[3]], K)
         /\ c4 = CountIn(T[R[4]], K) /\ c5 = CountIn(T[R[5]], K)
    OBVIOUS
  <2>3. x0 \in Nat /\ x1 \in Nat /\ c1 \in Nat /\ x1 = x0 + c1
    <3>1. 0 \in Nat /\ 0 < Len(R) /\ 0 + 1 = 1
      BY <1>7
    <3>2. CountIn(T[R[1]], K) \in Nat /\ b[0] \in Nat /\ b[1] \in Nat
          /\ b[1] = b[0] + CountIn(T[R[1]], K)
      BY <1>3, <3>1
    <3> QED BY <2>1, <2>2, <3>2
  <2>4. x1 \in Nat /\ x2 \in Nat /\ c2 \in Nat /\ x2 = x1 + c2
    <3>1. 1 \in Nat /\ 1 < Len(R) /\ 1 + 1 = 2
      BY <1>7
    <3>2. CountIn(T[R[2]], K) \in Nat /\ b[1] \in Nat /\ b[2] \in Nat
          /\ b[2] = b[1] + CountIn(T[R[2]], K)
      BY <1>3, <3>1
    <3> QED BY <2>1, <2>2, <3>2
  <2>5. x2 \in Nat /\ x3 \in Nat /\ c3 \in Nat /\ x3 = x2 + c3
    <3>1. 2 \in Nat /\ 2 < Len(R) /\ 2 + 1 = 3
      BY <1>7
    <3>2. CountIn(T[R[3]], K) \in Nat /\ b[2] \in Nat /\ b[3] \in Nat
          /\ b[3] = b[2] + CountIn(T[R[3]], K)
      BY <1>3, <3>1
    <3> QED BY <2>1, <2>2, <3>2
  <2>6. x3 \in Nat /\ x4 \in Nat /\ c4 \in Nat /\ x4 = x3 + c4
    <3>1. 3 \in Nat /\ 3 < Len(R) /\ 3 + 1 = 4
      BY <1>7
    <3>2. CountIn(T[R[4]], K) \in Nat /\ b[3] \in Nat /\ b[4] \in Nat
          /\ b[4] = b[3] + CountIn(T[R[4]], K)
      BY <1>3, <3>1
    <3> QED BY <2>1, <2>2, <3>2
  <2>7. x4 \in Nat /\ x5 \in Nat /\ c5 \in Nat /\ x5 = x4 + c5
    <3>1. 4 \in Nat /\ 4 < Len(R) /\ 4 + 1 = 5
      BY <1>7
    <3>2. CountIn(T[R[5]], K) \in Nat /\ b[4] \in Nat /\ b[5] \in Nat
          /\ b[5] = b[4] + CountIn(T[R[5]], K)
      BY <1>3, <3>1
    <3> QED BY <2>1, <2>2, <3>2
  <2>8. x0 <= x5 /\ (x0 = x5 => c1 = 0 /\ c2 = 0 /\ c3 = 0 /\ c4 = 0 /\ c5 = 0)
    BY <2>3, <2>4, <2>5, <2>6, <2>7
  <2>9. k = x0 /\ e = x5
    BY <1>1, <1>7, <2>1
  <2>10. DOMAIN R = {1, 2, 3, 4, 5}
    BY <1>7
  <2>11. k \in Nat /\ e \in Nat /\ k <= e
    BY <2>3, <2>4, <2>5, <2>6, <2>7, <2>8, <2>9
  <2>12. k = e => c1 = 0 /\ c2 = 0 /\ c3 = 0 /\ c4 = 0 /\ c5 = 0
    BY <2>8, <2>9
  <2> QED BY <2>2, <2>10, <2>11, <2>12
<1> QED BY <1>5, <1>6, <1>7

\* A word of K joins a queue, and the first one leaves it.
LEMMA NumbersGrow ==
  ASSUME NEW S, NEW s \in Seq(S), NEW w \in S, NEW K, w \in K, NEW c \in Int,
         Numbered(s, K, c), w.idx = c + CountIn(s, K), NEW u, u = Append(s, w)
  PROVE  Numbered(u, K, c) /\ CountIn(u, K) = CountIn(s, K) + 1
<1>1. Numbered(Append(s, w), K, c)
  BY NumberedAppend
<1>2. CountIn(Append(s, w), K) = CountIn(s, K) + 1
  BY CountInAppend
<1> QED BY <1>1, <1>2

\* The first entry of a numbered queue goes: it has the first number.
LEMMA NumbersShrink ==
  ASSUME NEW S, NEW s \in Seq(S), s # << >>, NEW K, Head(s) \in K, NEW c \in Int,
         Numbered(s, K, c), NEW u, u = Tail(s)
  PROVE  /\ Head(s).idx = c /\ Numbered(u, K, c + 1) /\ CountIn(u, K) \in Nat
         /\ CountIn(s, K) = CountIn(u, K) + 1
<1>1. Tail(s) \in Seq(S)
  OBVIOUS
<1>2. Head(s).idx = c /\ Numbered(Tail(s), K, c + 1)
  BY NumberedTail
<1>3. CountIn(s, K) = CountIn(Tail(s), K) + 1 /\ CountIn(Tail(s), K) \in Nat
  BY <1>1, CountInTail, CountInType
<1> QED BY <1>2, <1>3

\* The other queues of a route are the same.
SameQueues(T, U, R, i, j) == \A h \in DOMAIN R : h # i /\ h # j => U[R[h]] = T[R[h]]
GoesOn(T, U, R, K, j, v) ==
  /\ T[R[j]] # << >> /\ Head(T[R[j]]) \in K /\ v.idx = Head(T[R[j]]).idx
  /\ U[R[j]] = Tail(T[R[j]]) /\ U[R[j - 1]] = Append(T[R[j - 1]], v)
  /\ SameQueues(T, U, R, j, j - 1)

\* A word of K goes on to the next queue of its route.
LEMMA ChainMove ==
  ASSUME NEW P, NEW S, NEW T \in [P -> Seq(S)], NEW U, NEW R \in Seq(P), NEW K, NEW k, NEW e,
         Chain(T, R, K, k, e),
         NEW j \in 1 .. Len(R), j > 1, NEW v \in S, v \in K, GoesOn(T, U, R, K, j, v)
  PROVE  Chain(U, R, K, k, e)
<1>1. PICK b \in [0 .. Len(R) -> Nat] :
        /\ b[0] = k /\ b[Len(R)] = e
        /\ \A i \in 1 .. Len(R) :
             Numbered(T[R[i]], K, b[i - 1]) /\ b[i] = b[i - 1] + CountIn(T[R[i]], K)
  BY DEF Chain
<1>2. ASSUME NEW i \in 1 .. Len(R)
      PROVE  /\ T[R[i]] \in Seq(S) /\ CountIn(T[R[i]], K) \in Nat /\ i - 1 \in 0 .. Len(R)
             /\ b[i - 1] \in Nat /\ b[i] \in Nat /\ b[i - 1] \in Int /\ b[i] \in Int
  <2>1. T[R[i]] \in Seq(S) /\ i \in 0 .. Len(R) /\ i - 1 \in 0 .. Len(R)
    OBVIOUS
  <2>2. CountIn(T[R[i]], K) \in Nat
    BY <2>1, CountInType
  <2>3. b[i - 1] \in Nat /\ b[i] \in Nat
    BY <2>1
  <2> QED BY <2>1, <2>2, <2>3
<1>3. j \in 1 .. Len(R) /\ j - 1 \in 1 .. Len(R)
  OBVIOUS
<1>4. PICK a : a = j - 1
  OBVIOUS
<1>5. a \in 1 .. Len(R) /\ a # j /\ a + 1 = j /\ a - 1 # a
  BY <1>3, <1>4
<1> DEFINE d == [b EXCEPT ![a] = b[a] + 1]
<1>6. /\ d \in [0 .. Len(R) -> Nat] /\ d[a] = b[a] + 1
      /\ \A i \in 0 .. Len(R) : i # a => d[i] = b[i]
  <2>0. b[a] \in Nat /\ a \in 0 .. Len(R)
    BY <1>2, <1>5
  <2>1. a \in 0 .. Len(R) /\ b[a] + 1 \in Nat
    BY <2>0
  <2> QED BY <2>1
<1> HIDE DEF d
<1>7. /\ Head(T[R[j]]).idx = b[a] /\ Numbered(U[R[j]], K, b[a] + 1)
      /\ CountIn(T[R[j]], K) = CountIn(U[R[j]], K) + 1 /\ CountIn(U[R[j]], K) \in Nat
  <2>1. PICK s, u : s = T[R[j]] /\ u = U[R[j]]
    OBVIOUS
  <2>2. s \in Seq(S) /\ b[a] \in Int /\ Numbered(s, K, b[a])
    BY <1>1, <1>2, <1>4, <1>5, <2>1
  <2>3. s # << >> /\ Head(s) \in K /\ u = Tail(s)
    BY <2>1 DEF GoesOn
  <2>4. Head(s).idx = b[a] /\ Numbered(u, K, b[a] + 1) /\ CountIn(s, K) = CountIn(u, K) + 1
        /\ CountIn(u, K) \in Nat
    BY <2>2, <2>3, NumbersShrink
  <2> QED BY <2>1, <2>4
<1>8. Numbered(U[R[a]], K, b[a - 1]) /\ CountIn(U[R[a]], K) = CountIn(T[R[a]], K) + 1
  <2>1. PICK s, u : s = T[R[a]] /\ u = U[R[a]]
    OBVIOUS
  <2>2. PICK c : c = b[a - 1]
    OBVIOUS
  <2>3. s \in Seq(S) /\ c \in Int /\ Numbered(s, K, c) /\ b[a] = c + CountIn(s, K)
    BY <1>1, <1>2, <1>5, <2>1, <2>2
  <2>4. v.idx = c + CountIn(s, K)
    BY <1>7, <2>3 DEF GoesOn
  <2>5. u = Append(s, v)
    BY <1>4, <2>1 DEF GoesOn
  <2>7. s \in Seq(S) /\ c \in Int /\ Numbered(s, K, c)
    BY <2>3
  <2>6. Numbered(u, K, c) /\ CountIn(u, K) = CountIn(s, K) + 1
    BY ZenonT(60), <2>4, <2>5, <2>7, NumbersGrow
  <2> QED BY <2>1, <2>2, <2>6
<1>9. ASSUME NEW i \in 1 .. Len(R)
      PROVE  Numbered(U[R[i]], K, d[i - 1]) /\ d[i] = d[i - 1] + CountIn(U[R[i]], K)
  <2>0. /\ Numbered(T[R[i]], K, b[i - 1]) /\ b[i] = b[i - 1] + CountIn(T[R[i]], K)
        /\ i - 1 \in 0 .. Len(R) /\ b[i - 1] \in Nat /\ b[i] \in Nat /\ CountIn(T[R[i]], K) \in Nat
    BY <1>1, <1>2
  <2>1. CASE i = j
    <3>1. i - 1 = a /\ i # a
      BY <1>4, <1>5, <2>1
    <3>2. d[i - 1] = b[a] + 1 /\ d[i] = b[i] /\ b[i - 1] = b[a]
      BY <1>4, <1>6, <2>0, <2>1, <3>1
    <3>3. Numbered(U[R[i]], K, d[i - 1])
      BY <1>7, <2>1, <3>2
    <3>4. CountIn(T[R[i]], K) = CountIn(U[R[i]], K) + 1 /\ CountIn(U[R[i]], K) \in Nat
      BY <1>7, <2>1
    <3>5. d[i] = d[i - 1] + CountIn(U[R[i]], K)
      <4>1. PICK x, y, z : x = b[i - 1] /\ y = CountIn(T[R[i]], K) /\ z = CountIn(U[R[i]], K)
        OBVIOUS
      <4>2. d[i] = x + y /\ y = z + 1 /\ d[i - 1] = x + 1 /\ x \in Nat /\ y \in Nat /\ z \in Nat
        BY <2>0, <2>1, <3>2, <3>4, <4>1
      <4>3. x + y = (x + 1) + z
        BY <4>2
      <4> QED BY <4>1, <4>2, <4>3
    <3> QED BY <3>3, <3>5
  <2>2. CASE i = a
    <3>1. i - 1 # a
      BY <1>5, <2>2
    <3>2. d[i - 1] = b[i - 1] /\ d[i] = b[i] + 1
      BY <1>6, <2>0, <2>2, <3>1
    <3> QED BY <1>8, <2>0, <2>2, <3>2
  <2>3. CASE i # j /\ i # a
    <3>0. i \in DOMAIN R /\ i - 1 # a
      BY <1>4, <2>3
    <3>1. i - 1 # a /\ U[R[i]] = T[R[i]]
      BY <1>4, <2>3, <3>0 DEF GoesOn, SameQueues
    <3>2. d[i - 1] = b[i - 1] /\ d[i] = b[i]
      BY <1>6, <2>0, <2>3, <3>1
    <3> QED BY <2>0, <3>1, <3>2
  <2> QED BY <2>1, <2>2, <2>3
<1>10. d[0] = k /\ d[Len(R)] = e
  <2>1. 0 # a /\ Len(R) # a /\ 0 \in 0 .. Len(R) /\ Len(R) \in 0 .. Len(R)
    BY <1>4, <1>5
  <2> QED BY <1>1, <1>6, <2>1
<1> QED BY <1>6, <1>9, <1>10 DEF Chain

\* A word of K is taken where its route ends: it is the next one.
LEMMA ChainTake ==
  ASSUME NEW P, NEW S, NEW T \in [P -> Seq(S)], NEW U, NEW R \in Seq(P), NEW K, NEW k, NEW e,
         Chain(T, R, K, k, e), 1 \in DOMAIN R, T[R[1]] # << >>, Head(T[R[1]]) \in K,
         U[R[1]] = Tail(T[R[1]]),
         SameQueues(T, U, R, 1, 1)
  PROVE  Head(T[R[1]]).idx = k /\ Chain(U, R, K, k + 1, e)
<1>1. PICK b \in [0 .. Len(R) -> Nat] :
        /\ b[0] = k /\ b[Len(R)] = e
        /\ \A i \in 1 .. Len(R) :
             Numbered(T[R[i]], K, b[i - 1]) /\ b[i] = b[i - 1] + CountIn(T[R[i]], K)
  BY DEF Chain
<1>2. ASSUME NEW i \in 1 .. Len(R)
      PROVE  /\ T[R[i]] \in Seq(S) /\ CountIn(T[R[i]], K) \in Nat /\ i - 1 \in 0 .. Len(R)
             /\ b[i - 1] \in Nat /\ b[i] \in Nat
  <2>1. T[R[i]] \in Seq(S) /\ i \in 0 .. Len(R) /\ i - 1 \in 0 .. Len(R)
    OBVIOUS
  <2> QED BY <1>1, <2>1, CountInType
<1>3. 1 \in 1 .. Len(R) /\ 1 - 1 = 0
  OBVIOUS
<1>4. /\ Head(T[R[1]]).idx = b[0] /\ Numbered(U[R[1]], K, b[0] + 1)
      /\ CountIn(T[R[1]], K) = CountIn(U[R[1]], K) + 1 /\ CountIn(U[R[1]], K) \in Nat
  <2>1. PICK s, u, c : s = T[R[1]] /\ u = U[R[1]] /\ c = b[0]
    OBVIOUS
  <2>2. s \in Seq(S) /\ c \in Int /\ Numbered(s, K, c)
    BY <1>1, <1>2, <1>3, <2>1
  <2>3. s # << >> /\ Head(s) \in K /\ u = Tail(s)
    BY <2>1
  <2>4. /\ Head(s).idx = c /\ Numbered(u, K, c + 1) /\ CountIn(s, K) = CountIn(u, K) + 1
        /\ CountIn(u, K) \in Nat
    BY <2>2, <2>3, NumbersShrink
  <2> QED BY <2>1, <2>4
<1> DEFINE d == [b EXCEPT ![0] = b[0] + 1]
<1>5. /\ d \in [0 .. Len(R) -> Nat] /\ d[0] = b[0] + 1
      /\ \A i \in 0 .. Len(R) : i # 0 => d[i] = b[i]
  <2>1. 0 \in 0 .. Len(R) /\ b[0] + 1 \in Nat
    BY <1>2, <1>3
  <2> QED BY <2>1
<1> HIDE DEF d
<1>6. ASSUME NEW i \in 1 .. Len(R)
      PROVE  Numbered(U[R[i]], K, d[i - 1]) /\ d[i] = d[i - 1] + CountIn(U[R[i]], K)
  <2>0. /\ Numbered(T[R[i]], K, b[i - 1]) /\ b[i] = b[i - 1] + CountIn(T[R[i]], K)
        /\ i - 1 \in 0 .. Len(R) /\ b[i - 1] \in Nat /\ b[i] \in Nat /\ CountIn(T[R[i]], K) \in Nat
        /\ d[i] = b[i]
    BY SMTT(30), <1>1, <1>2, <1>5
  <2>1. CASE i = 1
    BY <1>3, <1>4, <1>5, <2>0, <2>1
  <2>2. CASE i # 1
    <3>1. i - 1 # 0 /\ i \in DOMAIN R
      BY <2>2
    <3>2. U[R[i]] = T[R[i]]
      BY <2>2, <3>1 DEF SameQueues
    <3> QED BY <1>5, <2>0, <3>1, <3>2
  <2> QED BY <2>1, <2>2
<1>7. d[0] = k + 1 /\ d[Len(R)] = e
  <2>1. Len(R) # 0 /\ Len(R) \in 0 .. Len(R)
    OBVIOUS
  <2> QED BY <1>1, <1>5, <2>1
<1> QED BY <1>1, <1>4, <1>5, <1>6, <1>7 DEF Chain

\* The next word of K starts on its route.
LEMMA ChainPut ==
  ASSUME NEW P, NEW S, NEW T \in [P -> Seq(S)], NEW U, NEW R \in Seq(P), NEW K, NEW k, NEW e,
         Chain(T, R, K, k, e), Len(R) \in DOMAIN R, NEW v \in S, v \in K, v.idx = e,
         U[R[Len(R)]] = Append(T[R[Len(R)]], v),
         SameQueues(T, U, R, Len(R), Len(R))
  PROVE  Chain(U, R, K, k, e + 1)
<1>1. PICK b \in [0 .. Len(R) -> Nat] :
        /\ b[0] = k /\ b[Len(R)] = e
        /\ \A i \in 1 .. Len(R) :
             Numbered(T[R[i]], K, b[i - 1]) /\ b[i] = b[i - 1] + CountIn(T[R[i]], K)
  BY DEF Chain
<1>2. ASSUME NEW i \in 1 .. Len(R)
      PROVE  /\ T[R[i]] \in Seq(S) /\ CountIn(T[R[i]], K) \in Nat /\ i - 1 \in 0 .. Len(R)
             /\ b[i - 1] \in Nat /\ b[i] \in Nat
  <2>1. T[R[i]] \in Seq(S) /\ i \in 0 .. Len(R) /\ i - 1 \in 0 .. Len(R)
    OBVIOUS
  <2> QED BY <1>1, <2>1, CountInType
<1>3. PICK n : n = Len(R)
  OBVIOUS
<1>4. n \in 1 .. Len(R) /\ n \in Nat /\ n # 0 /\ n - 1 # n
  BY <1>3
<1>5. Numbered(U[R[n]], K, b[n - 1]) /\ CountIn(U[R[n]], K) = CountIn(T[R[n]], K) + 1
  <2>1. PICK s, u : s = T[R[n]] /\ u = U[R[n]]
    OBVIOUS
  <2>2. PICK c : c = b[n - 1]
    OBVIOUS
  <2>3. s \in Seq(S) /\ c \in Int /\ Numbered(s, K, c) /\ v.idx = c + CountIn(s, K)
    BY <1>1, <1>2, <1>3, <1>4, <2>1, <2>2
  <2>4. u = Append(s, v)
    BY <1>3, <2>1
  <2>5. Numbered(u, K, c) /\ CountIn(u, K) = CountIn(s, K) + 1
    BY ZenonT(60), <2>3, <2>4, NumbersGrow
  <2> QED BY <2>1, <2>2, <2>5
<1> DEFINE d == [b EXCEPT ![n] = b[n] + 1]
<1>6. /\ d \in [0 .. Len(R) -> Nat] /\ d[n] = b[n] + 1
      /\ \A i \in 0 .. Len(R) : i # n => d[i] = b[i]
  <2>1. n \in 0 .. Len(R) /\ b[n] + 1 \in Nat
    BY <1>2, <1>4
  <2> QED BY <2>1
<1> HIDE DEF d
<1>7. ASSUME NEW i \in 1 .. Len(R)
      PROVE  Numbered(U[R[i]], K, d[i - 1]) /\ d[i] = d[i - 1] + CountIn(U[R[i]], K)
  <2>0. /\ Numbered(T[R[i]], K, b[i - 1]) /\ b[i] = b[i - 1] + CountIn(T[R[i]], K)
        /\ i - 1 \in 0 .. Len(R) /\ b[i - 1] \in Nat /\ b[i] \in Nat /\ CountIn(T[R[i]], K) \in Nat
    BY <1>1, <1>2
  <2>3. i - 1 # n
    BY <1>3
  <2>4. d[i - 1] = b[i - 1]
    BY <1>6, <2>0, <2>3
  <2>1. CASE i = n
    BY <1>5, <1>6, <2>0, <2>1, <2>4
  <2>2. CASE i # n
    <3>1. i \in DOMAIN R /\ i # Len(R)
      BY <1>3, <2>2
    <3>2. U[R[i]] = T[R[i]]
      BY <3>1 DEF SameQueues
    <3>3. d[i] = b[i]
      BY <1>6, <2>0, <2>2
    <3> QED BY <2>0, <2>4, <3>2, <3>3
  <2> QED BY <2>1, <2>2
<1>8. d[0] = k /\ d[Len(R)] = e + 1
  BY <1>1, <1>3, <1>4, <1>6
<1> QED BY <1>6, <1>7, <1>8 DEF Chain

\* A word goes from the head of one queue to the end of another; those of K go
\* on along their route.
LEMMA RouteMove ==
  ASSUME NEW P, NEW S, NEW T \in [P -> Seq(S)], NEW U \in [P -> Seq(S)], NEW R \in Seq(P),
         NEW K, NEW k, NEW e, OnRoute(T, P, R, K), Chain(T, R, K, k, e),
         NEW x \in P, NEW y \in P, x # y, T[x] # << >>, U[x] = Tail(T[x]),
         NEW v \in S, U[y] = Append(T[y], v), SameButTwo(T, U, P, x, y),
         v \in K <=> Head(T[x]) \in K,
         v \in K => v.idx = Head(T[x]).idx
                    /\ \E j \in DOMAIN R : j > 1 /\ x = R[j] /\ y = R[j - 1] /\ NoRepeat(R)
  PROVE  OnRoute(U, P, R, K) /\ Chain(U, R, K, k, e)
<1>1. /\ T[x] \in Seq(S) /\ 1 \in DOMAIN T[x] /\ T[x][1] = Head(T[x])
      /\ \A i \in DOMAIN U[x] : i + 1 \in DOMAIN T[x] /\ U[x][i] = T[x][i + 1]
      /\ T[y] \in Seq(S)
      /\ \A i \in DOMAIN U[y] : (i \in DOMAIN T[y] /\ U[y][i] = T[y][i]) \/ U[y][i] = v
  OBVIOUS
<1>2. ASSUME v \in K PROVE \E j \in DOMAIN R : y = R[j]
  <2>1. PICK j \in DOMAIN R : j > 1 /\ x = R[j] /\ y = R[j - 1]
    BY <1>2
  <2>2. j - 1 \in DOMAIN R
    BY <2>1
  <2> QED BY <2>1, <2>2
<1>3. OnRoute(U, P, R, K)
  <2> SUFFICES ASSUME NEW z \in P, NEW i \in DOMAIN U[z], U[z][i] \in K
               PROVE  \E j \in DOMAIN R : z = R[j]
    BY DEF OnRoute
  <2>1. CASE z = x
    BY <1>1, <2>1 DEF OnRoute
  <2>2. CASE z = y
    BY <1>1, <1>2, <2>2 DEF OnRoute
  <2>3. CASE z # x /\ z # y
    BY <2>3 DEF OnRoute, SameButTwo
  <2> QED BY <2>1, <2>2, <2>3
<1>4. CASE v \notin K
  <2>1. ASSUME NEW j \in DOMAIN R PROVE LikeIn(T[R[j]], U[R[j]], S, K)
    <3>1. R[j] \in P
      OBVIOUS
    <3> QED BY <1>4, <3>1 DEF LikeIn, SameButTwo
  <2> QED BY <1>3, <2>1, ChainSkip
<1>5. CASE v \in K
  <2>1. PICK j \in DOMAIN R : j > 1 /\ x = R[j] /\ y = R[j - 1] /\ NoRepeat(R)
    BY <1>5
  <2>2. j \in 1 .. Len(R) /\ j - 1 \in DOMAIN R
    BY SMTT(30), <2>1
  <2>3. SameQueues(T, U, R, j, j - 1)
    <3> SUFFICES ASSUME NEW h \in DOMAIN R, h # j, h # j - 1 PROVE U[R[h]] = T[R[h]]
      BY DEF SameQueues
    <3>1. R[h] # x /\ R[h] # y /\ R[h] \in P
      BY <2>1, <2>2 DEF NoRepeat
    <3> QED BY <3>1 DEF SameButTwo
  <2>4. GoesOn(T, U, R, K, j, v)
    BY <1>5, <2>1, <2>3 DEF GoesOn
  <2>5. Chain(U, R, K, k, e)
    BY <1>5, <2>1, <2>2, <2>4, ChainMove
  <2> QED BY <1>3, <2>5
<1> QED BY <1>4, <1>5

\* A word joins a queue; those of K the first one of their route.
LEMMA RoutePut ==
  ASSUME NEW P, NEW S, NEW T \in [P -> Seq(S)], NEW U \in [P -> Seq(S)], NEW R \in Seq(P),
         NEW K, NEW k, NEW e, OnRoute(T, P, R, K), Chain(T, R, K, k, e),
         NEW y \in P, NEW v \in S, U[y] = Append(T[y], v), SameBut(T, U, P, y),
         v \in K => /\ Len(R) \in DOMAIN R /\ y = R[Len(R)] /\ NoRepeat(R)
                    /\ v.idx = e
  PROVE  /\ OnRoute(U, P, R, K)
         /\ v \in K => Chain(U, R, K, k, e + 1)
         /\ v \notin K => Chain(U, R, K, k, e)
<1>1. /\ T[y] \in Seq(S)
      /\ \A i \in DOMAIN U[y] : (i \in DOMAIN T[y] /\ U[y][i] = T[y][i]) \/ U[y][i] = v
  OBVIOUS
<1>2. OnRoute(U, P, R, K)
  <2> SUFFICES ASSUME NEW z \in P, NEW i \in DOMAIN U[z], U[z][i] \in K
               PROVE  \E j \in DOMAIN R : z = R[j]
    BY DEF OnRoute
  <2>1. CASE z = y
    BY <1>1, <2>1 DEF OnRoute
  <2>2. CASE z # y
    BY <2>2 DEF OnRoute, SameBut
  <2> QED BY <2>1, <2>2
<1>3. ASSUME v \notin K PROVE Chain(U, R, K, k, e)
  <2>1. ASSUME NEW j \in DOMAIN R PROVE LikeIn(T[R[j]], U[R[j]], S, K)
    <3>1. R[j] \in P
      OBVIOUS
    <3> QED BY <1>3, <3>1 DEF LikeIn, SameBut
  <2> QED BY <2>1, ChainSkip
<1>4. ASSUME v \in K PROVE Chain(U, R, K, k, e + 1)
  <2>1. Len(R) \in DOMAIN R /\ y = R[Len(R)] /\ NoRepeat(R) /\ v.idx = e
    BY <1>4
  <2>2. SameQueues(T, U, R, Len(R), Len(R))
    <3> SUFFICES ASSUME NEW h \in DOMAIN R, h # Len(R) PROVE U[R[h]] = T[R[h]]
      BY DEF SameQueues
    <3>1. R[h] # y /\ R[h] \in P
      BY <2>1 DEF NoRepeat
    <3> QED BY <3>1 DEF SameBut
  <2> QED BY <1>4, <2>1, <2>2, ChainPut
<1> QED BY <1>2, <1>3, <1>4

\* Where there are no words there is no route to keep to, and no words are left
\* once all were taken.
LEMMA RouteEnds ==
  ASSUME NEW P, NEW S, NEW T \in [P -> Seq(S)], NEW R \in Seq(P), NEW K
  PROVE  /\ NoneOf(T, P, K) => /\ OnRoute(T, P, R, K)
                               /\ \A k \in Nat : Chain(T, R, K, k, k)
         /\ \A k : Len(R) \in {2, 4, 5} /\ OnRoute(T, P, R, K) /\ Chain(T, R, K, k, k)
                     => NoneOf(T, P, K)
<1>1. NoneOf(T, P, K) => OnRoute(T, P, R, K)
  BY DEF NoneOf, OnRoute
<1>2. NoneOf(T, P, K) => \A k \in Nat : Chain(T, R, K, k, k)
  BY ChainNone
<1>3. ASSUME NEW k, Len(R) \in {2, 4, 5}, OnRoute(T, P, R, K), Chain(T, R, K, k, k)
      PROVE  NoneOf(T, P, K)
  <2>1. \A i \in DOMAIN R : CountIn(T[R[i]], K) = 0
    BY <1>3, ChainEnds
  <2> SUFFICES ASSUME NEW z \in P, NEW i \in DOMAIN T[z], T[z][i] \in K PROVE FALSE
    BY DEF NoneOf
  <2>2. PICK j \in DOMAIN R : z = R[j]
    BY <1>3 DEF OnRoute
  <2>3. T[z] \in Seq(S) /\ CountIn(T[z], K) = 0
    BY <2>1, <2>2
  <2> QED BY <2>3, CountInZero
<1> QED BY <1>1, <1>2, <1>3

\* No words of K come from where there are none.
LEMMA NoneChange ==
  ASSUME NEW P, NEW S, NEW T \in [P -> Seq(S)], NEW U \in [P -> Seq(S)], NEW K, NoneOf(T, P, K),
         \A z \in P : LikeIn(T[z], U[z], S, K)
  PROVE  NoneOf(U, P, K)
<1> SUFFICES ASSUME NEW z \in P, NEW i \in DOMAIN U[z] PROVE U[z][i] \notin K
  BY DEF NoneOf
<1>1. T[z] \in Seq(S) /\ LikeIn(T[z], U[z], S, K) /\ \A j \in DOMAIN T[z] : T[z][j] \notin K
  BY DEF NoneOf
<1>2. CASE U[z] = T[z]
  BY <1>1, <1>2
<1>3. CASE T[z] # << >> /\ U[z] = Tail(T[z])
  BY <1>1, <1>3
<1>4. ASSUME NEW w \in S, w \notin K, U[z] = Append(T[z], w) PROVE U[z][i] \notin K
  BY <1>1, <1>4
<1> QED BY <1>1, <1>2, <1>3, <1>4 DEF LikeIn

\* One that is not counted leaves the queues of a route.
LEMMA RouteSkip ==
  ASSUME NEW P, NEW S, NEW T \in [P -> Seq(S)], NEW U \in [P -> Seq(S)], NEW R \in Seq(P),
         NEW K, NEW k, NEW e, OnRoute(T, P, R, K), Chain(T, R, K, k, e),
         NEW x \in P, T[x] # << >>, U[x] = Tail(T[x]), SameBut(T, U, P, x), Head(T[x]) \notin K
  PROVE  OnRoute(U, P, R, K) /\ Chain(U, R, K, k, e)
<1>1. /\ T[x] \in Seq(S)
      /\ \A i \in DOMAIN U[x] : i + 1 \in DOMAIN T[x] /\ U[x][i] = T[x][i + 1]
  OBVIOUS
<1>2. OnRoute(U, P, R, K)
  <2> SUFFICES ASSUME NEW z \in P, NEW i \in DOMAIN U[z], U[z][i] \in K
               PROVE  \E j \in DOMAIN R : z = R[j]
    BY DEF OnRoute
  <2>1. CASE z = x
    BY <1>1, <2>1 DEF OnRoute
  <2>2. CASE z # x
    BY <2>2 DEF OnRoute, SameBut
  <2> QED BY <2>1, <2>2
<1>3. ASSUME NEW j \in DOMAIN R PROVE LikeIn(T[R[j]], U[R[j]], S, K)
  <2>1. R[j] \in P
    OBVIOUS
  <2> QED BY <2>1 DEF LikeIn, SameBut
<1>4. Chain(U, R, K, k, e)
  BY <1>3, ChainSkip
<1> QED BY <1>2, <1>4

\* Where words leave a route, and where they join it.
Starts(R, x) == 1 \in DOMAIN R /\ R[1] = x /\ NoRepeat(R)
Ends(R, y)   == Len(R) \in DOMAIN R /\ R[Len(R)] = y /\ NoRepeat(R)

\* The first word of a route that is counted leaves.
LEMMA RouteFirst ==
  ASSUME NEW P, NEW S, NEW T \in [P -> Seq(S)], NEW U \in [P -> Seq(S)], NEW R \in Seq(P),
         NEW K, NEW k, NEW e, OnRoute(T, P, R, K), Chain(T, R, K, k, e),
         NEW x, Starts(R, x), Leaves(T, U, P, x), Head(T[x]) \in K
  PROVE  OnRoute(U, P, R, K) /\ Head(T[x]).idx = k /\ Chain(U, R, K, k + 1, e)
<1>0. /\ 1 \in DOMAIN R /\ x = R[1] /\ NoRepeat(R)
      /\ T[x] # << >> /\ U[x] = Tail(T[x]) /\ SameBut(T, U, P, x)
  BY DEF Starts, Leaves
<1>1. /\ x \in P /\ T[x] \in Seq(S)
      /\ \A i \in DOMAIN U[x] : i + 1 \in DOMAIN T[x] /\ U[x][i] = T[x][i + 1]
  BY <1>0
<1>2. OnRoute(U, P, R, K)
  <2> SUFFICES ASSUME NEW z \in P, NEW i \in DOMAIN U[z], U[z][i] \in K
               PROVE  \E j \in DOMAIN R : z = R[j]
    BY DEF OnRoute
  <2>1. CASE z = x
    BY <1>0, <1>1, <2>1
  <2>2. CASE z # x
    BY <1>0, <2>2 DEF OnRoute, SameBut
  <2> QED BY <2>1, <2>2
<1>3. SameQueues(T, U, R, 1, 1)
  <2> SUFFICES ASSUME NEW j \in DOMAIN R, j # 1 PROVE U[R[j]] = T[R[j]]
    BY DEF SameQueues
  <2>1. R[j] # x /\ R[j] \in P
    BY <1>0 DEF NoRepeat
  <2> QED BY <1>0, <2>1 DEF SameBut
<1>4. T[R[1]] # << >> /\ Head(T[R[1]]) \in K /\ U[R[1]] = Tail(T[R[1]])
  BY <1>0
<1>5. Head(T[R[1]]).idx = k /\ Chain(U, R, K, k + 1, e)
  BY <1>0, <1>3, <1>4, ChainTake
<1> QED BY <1>0, <1>2, <1>5

\* A word joins a route at its end.
LEMMA RouteLast ==
  ASSUME NEW P, NEW S, NEW T \in [P -> Seq(S)], NEW U \in [P -> Seq(S)], NEW R \in Seq(P),
         NEW K, NEW k, NEW e, OnRoute(T, P, R, K), Chain(T, R, K, k, e),
         NEW y, Ends(R, y), NEW v \in S, Joins(T, U, P, y, v), v \in K, v.idx = e
  PROVE  OnRoute(U, P, R, K) /\ Chain(U, R, K, k, e + 1)
<1>0. /\ Len(R) \in DOMAIN R /\ y = R[Len(R)] /\ NoRepeat(R)
      /\ U[y] = Append(T[y], v) /\ SameBut(T, U, P, y)
  BY DEF Ends, Joins
<1>1. /\ y \in P /\ T[y] \in Seq(S)
      /\ \A i \in DOMAIN U[y] : (i \in DOMAIN T[y] /\ U[y][i] = T[y][i]) \/ U[y][i] = v
  BY <1>0
<1>2. OnRoute(U, P, R, K)
  <2> SUFFICES ASSUME NEW z \in P, NEW i \in DOMAIN U[z], U[z][i] \in K
               PROVE  \E j \in DOMAIN R : z = R[j]
    BY DEF OnRoute
  <2>1. CASE z = y
    BY <1>0, <1>1, <2>1
  <2>2. CASE z # y
    BY <1>0, <2>2 DEF OnRoute, SameBut
  <2> QED BY <2>1, <2>2
<1>3. SameQueues(T, U, R, Len(R), Len(R))
  <2> SUFFICES ASSUME NEW j \in DOMAIN R, j # Len(R) PROVE U[R[j]] = T[R[j]]
    BY DEF SameQueues
  <2>1. R[j] # y /\ R[j] \in P
    BY <1>0 DEF NoRepeat
  <2> QED BY <1>0, <2>1 DEF SameBut
<1>4. U[R[Len(R)]] = Append(T[R[Len(R)]], v) /\ Len(R) \in DOMAIN R
  BY <1>0
<1>5. Chain(U, R, K, k, e + 1)
  BY <1>0, <1>3, <1>4, ChainPut
<1> QED BY <1>2, <1>5

\* The first word of a chain has its first number.
LEMMA FirstNumber ==
  ASSUME NEW P, NEW S, NEW T \in [P -> Seq(S)], NEW R \in Seq(P), NEW K, NEW k, NEW e,
         Chain(T, R, K, k, e), NEW x, Starts(R, x), T[x] # << >>, Head(T[x]) \in K
  PROVE  Head(T[x]).idx = k
<1>1. PICK U : U = [T EXCEPT ![x] = Tail(T[x])]
  OBVIOUS
<1>2. 1 \in DOMAIN R /\ R[1] = x /\ NoRepeat(R) /\ x \in P
  BY DEF Starts
<1>3. U[x] = Tail(T[x]) /\ \A z \in P : z # x => U[z] = T[z]
  BY <1>1, <1>2
<1>4. SameQueues(T, U, R, 1, 1)
  <2> SUFFICES ASSUME NEW h \in DOMAIN R, h # 1 PROVE U[R[h]] = T[R[h]]
    BY DEF SameQueues
  <2>1. R[h] # x /\ R[h] \in P
    BY <1>2 DEF NoRepeat
  <2> QED BY <1>3, <2>1
<1>5. T[R[1]] # << >> /\ Head(T[R[1]]) \in K /\ U[R[1]] = Tail(T[R[1]])
  BY <1>2, <1>3
<1>6. Head(T[R[1]]).idx = k
  <2>1. Chain(T, R, K, k, e) /\ 1 \in DOMAIN R
    BY <1>2
  <2>2. Head(T[R[1]]).idx = k /\ Chain(U, R, K, k + 1, e)
    BY <1>4, <1>5, <2>1, ChainTake
  <2> QED BY <2>2
<1> QED BY <1>2, <1>6

-----------------------------------------------------------------------------
\* The equation of the recursive function that computes a sum.
Pick(s) == CHOOSE x \in s : TRUE
Term(f, g, s) == IF s = {} THEN 0 ELSE f[Pick(s)] + g[s \ {Pick(s)}]
Recurs(f, S, g) == \A s \in SUBSET S : g[s] = Term(f, g, s)

\* The element removed first is one of the set.
LEMMA PickInSet == ASSUME NEW s, s # {} PROVE Pick(s) \in s
BY DEF Pick

\* A finite set loses one element.
LEMMA Smaller ==
  ASSUME NEW S, IsFiniteSet(S), NEW s \in SUBSET S, NEW x \in s
  PROVE  /\ s \ {x} \in SUBSET S /\ IsFiniteSet(s) /\ IsFiniteSet(s \ {x})
         /\ Cardinality(s) \in Nat /\ Cardinality(s \ {x}) \in Nat
         /\ Cardinality(s \ {x}) = Cardinality(s) - 1 
<1>1. IsFiniteSet(s) /\ IsFiniteSet(s \ {x})
  BY FS_Subset
<1>2. Cardinality(s) \in Nat /\ Cardinality(s \ {x}) \in Nat
  BY <1>1, FS_CardinalityType
<1>3. Cardinality(s \ {x}) = Cardinality(s) - 1
  BY <1>1, FS_RemoveElement
<1> QED BY <1>1, <1>2, <1>3

\* The recursive function exists ...
LEMMA RecursExists ==
  ASSUME NEW S, IsFiniteSet(S), NEW f, \A x \in S : f[x] \in Int
  PROVE  \E g \in [SUBSET S -> Int] : Recurs(f, S, g)
<1> DEFINE Upto(n, g) == \A s \in SUBSET S : Cardinality(s) <= n => g[s] = Term(f, g, s)
           T == {n \in Nat : \E g \in [SUBSET S -> Int] : Upto(n, g)}
<1>1. \A s \in SUBSET S : s # {} => Pick(s) \in s /\ f[Pick(s)] \in Int
  BY PickInSet
<1>2. 0 \in T
  <2> DEFINE z == [s \in SUBSET S |-> 0]
  <2>1. ASSUME NEW s \in SUBSET S, Cardinality(s) <= 0 PROVE z[s] = Term(f, z, s)
    <3>1. IsFiniteSet(s)
      BY FS_Subset
    <3>2. s = {}
      BY <2>1, <3>1, FS_CardinalityType, FS_EmptySet
    <3> QED BY <3>2 DEF Term
  <2>2. z \in [SUBSET S -> Int]
    OBVIOUS
  <2> QED BY <2>1, <2>2
<1>3. ASSUME NEW n \in Nat, n \in T PROVE n + 1 \in T
  <2>1. PICK g \in [SUBSET S -> Int] : Upto(n, g)
    BY <1>3
  <2> DEFINE h == [s \in SUBSET S |-> Term(f, g, s)]
  <2>2. h \in [SUBSET S -> Int]
    <3>1. \A s \in SUBSET S : s # {} => g[s \ {Pick(s)}] \in Int
      OBVIOUS
    <3>2. \A s \in SUBSET S : Term(f, g, s) \in Int
      BY <1>1, <3>1 DEF Term
    <3> QED BY <3>2
  <2>3. ASSUME NEW s \in SUBSET S, Cardinality(s) <= n + 1 PROVE h[s] = Term(f, h, s)
    <3>1. CASE s = {}
      BY <3>1 DEF Term
    <3>2. CASE s # {}
      <4> DEFINE r == s \ {Pick(s)}
      <4>0. Pick(s) \in s
        BY <1>1, <3>2
      <4>1. r \in SUBSET S /\ Cardinality(r) <= n
        <5>1. Cardinality(s) \in Nat /\ Cardinality(r) = Cardinality(s) - 1
          BY <4>0, Smaller
        <5> QED BY <2>3, <5>1
      <4>2. g[r] = Term(f, g, r) /\ h[r] = Term(f, g, r)
        BY <2>1, <4>1
      <4>3. h[s] = f[Pick(s)] + g[r]
        BY <3>2 DEF Term
      <4>4. Term(f, h, s) = f[Pick(s)] + h[r]
        BY <3>2 DEF Term
      <4> QED BY <4>2, <4>3, <4>4
    <3> QED BY <3>1, <3>2
  <2>4. Upto(n + 1, h)
    BY <2>3
  <2> HIDE DEF h, Upto
  <2> QED BY <2>2, <2>4
<1> HIDE DEF T
<1>4. Nat \subseteq T
  BY <1>2, <1>3, SetInduction
<1>5. Cardinality(S) \in Nat
  BY FS_CardinalityType
<1>6. PICK g \in [SUBSET S -> Int] : Upto(Cardinality(S), g)
  BY <1>4, <1>5 DEF T
<1>7. \A s \in SUBSET S : Cardinality(s) <= Cardinality(S)
  BY FS_Subset
<1> QED BY <1>6, <1>7 DEF Recurs

\* ... and its values on the subsets of a set depend on nothing else.
LEMMA RecursUnique ==
  ASSUME NEW S, IsFiniteSet(S), NEW f, NEW e, \A x \in S : f[x] = e[x],
         NEW g, Recurs(f, S, g), NEW h, Recurs(e, S, h)
  PROVE  g[S] = h[S]
<1> DEFINE T == {n \in Nat : \A s \in SUBSET S : Cardinality(s) <= n => g[s] = h[s]}
<1>1. 0 \in T
  <2>1. ASSUME NEW s \in SUBSET S, Cardinality(s) <= 0 PROVE g[s] = h[s]
    <3>1. IsFiniteSet(s)
      BY FS_Subset
    <3>2. s = {}
      BY <2>1, <3>1, FS_CardinalityType, FS_EmptySet
    <3> QED BY <3>2 DEF Recurs, Term
  <2> QED BY <2>1
<1>2. ASSUME NEW n \in Nat, n \in T PROVE n + 1 \in T
  <2>1. ASSUME NEW s \in SUBSET S, Cardinality(s) <= n + 1 PROVE g[s] = h[s]
    <3>1. CASE s = {}
      BY <3>1 DEF Recurs, Term
    <3>2. CASE s # {}
      <4> DEFINE r == s \ {Pick(s)}
      <4>0. Pick(s) \in s
        BY <3>2, PickInSet
      <4>1. Pick(s) \in s /\ r \in SUBSET S /\ Cardinality(r) <= n
        <5>1. Cardinality(s) \in Nat /\ Cardinality(r) = Cardinality(s) - 1
          BY <4>0, Smaller
        <5> QED BY <2>1, <4>0, <5>1
      <4>2. g[r] = h[r] /\ f[Pick(s)] = e[Pick(s)]
        BY <1>2, <4>1
      <4>3. g[s] = f[Pick(s)] + g[r] /\ h[s] = e[Pick(s)] + h[r]
        BY <3>2 DEF Recurs, Term
      <4> QED BY <4>2, <4>3
    <3> QED BY <3>1, <3>2
  <2> QED BY <2>1
<1> HIDE DEF T
<1>3. Nat \subseteq T
  BY <1>1, <1>2, SetInduction
<1>4. Cardinality(S) \in T
  BY <1>3, FS_CardinalityType
<1> QED BY <1>4, FS_CardinalityType DEF T

\* A sum is what the recursive function gives.
LEMMA SumRecurs ==
  ASSUME NEW S, IsFiniteSet(S), NEW f, \A x \in S : f[x] \in Int
  PROVE  \E g \in [SUBSET S -> Int] : Recurs(f, S, g) /\ SumFunctionOnSet(f, S) = g[S]
<1> DEFINE iter == CHOOSE g : g = [s \in SUBSET S |-> IF s = {} THEN 0
                     ELSE f[CHOOSE x \in s : TRUE] + g[s \ {CHOOSE x \in s : TRUE}]]
<1>1. SumFunctionOnSet(f, S) = iter[S]
  BY DEF SumFunctionOnSet, FoldFunctionOnSet, MapThenFoldSet
<1>2. PICK g \in [SUBSET S -> Int] : Recurs(f, S, g)
  BY RecursExists
<1>3. g = [s \in SUBSET S |-> IF s = {} THEN 0
              ELSE f[CHOOSE x \in s : TRUE] + g[s \ {CHOOSE x \in s : TRUE}]]
  BY <1>2 DEF Recurs, Term, Pick
<1>4. iter = [s \in SUBSET S |-> IF s = {} THEN 0
              ELSE f[CHOOSE x \in s : TRUE] + iter[s \ {CHOOSE x \in s : TRUE}]]
  BY <1>3
<1> HIDE DEF iter
<1>5. \A s \in SUBSET S : iter[s] = Term(f, iter, s)
  BY <1>4 DEF Term, Pick
<1>6. iter[S] = g[S]
  BY <1>2, <1>5, RecursUnique DEF Recurs
<1> QED BY <1>1, <1>2, <1>6

-----------------------------------------------------------------------------
\* What the sum of the entries of f over a finite set S of its domain obeys.
LEMMA SumType ==
  ASSUME NEW S, IsFiniteSet(S), NEW f, \A x \in S : f[x] \in Int
  PROVE  SumFunctionOnSet(f, S) \in Int
<1>1. PICK g \in [SUBSET S -> Int] : SumFunctionOnSet(f, S) = g[S]
  BY SumRecurs
<1> QED BY <1>1

\* The sum of nothing.
LEMMA SumEmpty == ASSUME NEW f PROVE SumFunctionOnSet(f, {}) = 0
BY SumRecurs, FS_EmptySet DEF Recurs, Term

\* Equal terms have equal sums.
LEMMA SumSame ==
  ASSUME NEW S, IsFiniteSet(S), NEW f, NEW e, \A x \in S : f[x] \in Int /\ f[x] = e[x]
  PROVE  SumFunctionOnSet(f, S) = SumFunctionOnSet(e, S)
<1>1. PICK g \in [SUBSET S -> Int] : Recurs(f, S, g) /\ SumFunctionOnSet(f, S) = g[S]
  BY SumRecurs
<1>2. \A x \in S : e[x] \in Int
  OBVIOUS
<1>3. PICK h \in [SUBSET S -> Int] : Recurs(e, S, h) /\ SumFunctionOnSet(e, S) = h[S]
  BY <1>2, SumRecurs
<1>4. g[S] = h[S]
  BY <1>1, <1>3, RecursUnique
<1> QED BY <1>1, <1>3, <1>4

\* The first element taken is the one that Pick gives.
LEMMA SumFirst ==
  ASSUME NEW S, IsFiniteSet(S), S # {}, NEW f, \A x \in S : f[x] \in Int
  PROVE  SumFunctionOnSet(f, S) = f[Pick(S)] + SumFunctionOnSet(f, S \ {Pick(S)})
<1> DEFINE R == S \ {Pick(S)}
<1>1. PICK g \in [SUBSET S -> Int] : Recurs(f, S, g) /\ SumFunctionOnSet(f, S) = g[S]
  BY SumRecurs
<1>2. IsFiniteSet(R) /\ R \in SUBSET S /\ \A x \in R : f[x] \in Int
  BY FS_Subset
<1>3. PICK h \in [SUBSET R -> Int] : Recurs(f, R, h) /\ SumFunctionOnSet(f, R) = h[R]
  BY <1>2, SumRecurs
<1>4. Recurs(f, R, g)
  BY <1>1, <1>2 DEF Recurs
<1> HIDE DEF R
<1>5. g[R] = h[R]
  BY <1>2, <1>3, <1>4, RecursUnique
<1>6. g[S] = f[Pick(S)] + g[R]
  BY <1>1 DEF Recurs, Term, R
<1> QED BY <1>1, <1>3, <1>5, <1>6 DEF R

\* Any element may be taken first.
LEMMA SumTake ==
  ASSUME NEW S, IsFiniteSet(S), NEW f, \A x \in S : f[x] \in Int, NEW x \in S
  PROVE  SumFunctionOnSet(f, S) = f[x] + SumFunctionOnSet(f, S \ {x})
<1> DEFINE Takes(s) == \A y \in s :
             SumFunctionOnSet(f, s) = f[y] + SumFunctionOnSet(f, s \ {y})
           T == {n \in Nat : \A s \in SUBSET S : Cardinality(s) <= n => Takes(s)}
<1>0. \A s \in SUBSET S : /\ IsFiniteSet(s) /\ SumFunctionOnSet(f, s) \in Int
                           /\ \A y \in s : f[y] \in Int
  BY FS_Subset, SumType
<1>1. 0 \in T
  <2>1. ASSUME NEW s \in SUBSET S, Cardinality(s) <= 0 PROVE s = {}
    BY <1>0, <2>1, FS_CardinalityType, FS_EmptySet
  <2> QED BY <2>1
<1>2. ASSUME NEW n \in Nat, n \in T PROVE n + 1 \in T
  <2>1. ASSUME NEW s \in SUBSET S, Cardinality(s) <= n + 1, NEW y \in s
        PROVE  SumFunctionOnSet(f, s) = f[y] + SumFunctionOnSet(f, s \ {y})
    <3> DEFINE c == Pick(s)
    <3>1. c \in s /\ s # {}
      BY PickInSet
    <3>2. SumFunctionOnSet(f, s) = f[c] + SumFunctionOnSet(f, s \ {c})
      BY <1>0, <3>1, SumFirst
    <3> HIDE DEF c
    <3>3. CASE c = y
      BY <3>2, <3>3
    <3>4. CASE c # y
      <4> DEFINE a == s \ {c}
                 b == s \ {y}
                 d == a \ {y}
      <4>1. /\ Cardinality(s) \in Nat /\ Cardinality(a) = Cardinality(s) - 1
            /\ Cardinality(b) = Cardinality(s) - 1
        BY <3>1, Smaller
      <4>2. a \in SUBSET S /\ b \in SUBSET S /\ d \in SUBSET S /\ y \in a /\ c \in b
        BY <3>1, <3>4
      <4>3. d = b \ {c}
        OBVIOUS
      <4>4. Cardinality(a) <= n /\ Cardinality(b) <= n
        BY <2>1, <4>1
      <4>5. Takes(a) /\ Takes(b)
        BY <1>2, <4>2, <4>4
      <4>6. /\ SumFunctionOnSet(f, a) = f[y] + SumFunctionOnSet(f, d)
            /\ SumFunctionOnSet(f, b) = f[c] + SumFunctionOnSet(f, d)
        BY <4>2, <4>3, <4>5
      <4>7. /\ SumFunctionOnSet(f, d) \in Int /\ f[y] \in Int /\ f[c] \in Int
        BY <1>0, <3>1, <4>2
      <4> HIDE DEF a, b, d
      <4>8. f[c] + (f[y] + SumFunctionOnSet(f, d)) = f[y] + (f[c] + SumFunctionOnSet(f, d))
        BY <4>7
      <4> QED BY <3>2, <4>6, <4>8 DEF a, b
    <3> QED BY <3>3, <3>4
  <2> QED BY <2>1
<1>3. Takes(S)
  <2> HIDE DEF T, Takes
  <2>1. Nat \subseteq T
    BY <1>1, <1>2, SetInduction
  <2>2. Cardinality(S) \in T
    BY <2>1, FS_CardinalityType
  <2> QED BY <2>2, FS_CardinalityType DEF T
<1> QED BY <1>3

\* One entry changes.
LEMMA SumPut ==
  ASSUME NEW S, IsFiniteSet(S), NEW f, NEW e, NEW x \in S,
         \A y \in S : f[y] \in Int /\ e[y] \in Int /\ (y # x => f[y] = e[y])
  PROVE  SumFunctionOnSet(e, S) = SumFunctionOnSet(f, S) - f[x] + e[x]
<1> DEFINE R == S \ {x}
<1>1. IsFiniteSet(R) /\ \A y \in R : f[y] \in Int /\ f[y] = e[y]
  BY FS_Subset
<1>2. /\ SumFunctionOnSet(f, S) = f[x] + SumFunctionOnSet(f, R)
      /\ SumFunctionOnSet(e, S) = e[x] + SumFunctionOnSet(e, R)
  BY SumTake
<1> HIDE DEF R
<1>3. SumFunctionOnSet(f, R) = SumFunctionOnSet(e, R) /\ SumFunctionOnSet(f, R) \in Int
  BY <1>1, SumSame, SumType
<1> QED BY <1>2, <1>3

\* A sum of terms that are at most c, and one of terms that all are c.
LEMMA SumBounds ==
  ASSUME NEW S, IsFiniteSet(S), NEW f, NEW c \in Int, \A x \in S : f[x] \in Int
  PROVE  /\ (\A x \in S : f[x] <= c) => SumFunctionOnSet(f, S) <= Cardinality(S) * c
         /\ (\A x \in S : f[x] >= c) => SumFunctionOnSet(f, S) >= Cardinality(S) * c
<1> DEFINE Low(s)  == (\A x \in S : f[x] <= c) => SumFunctionOnSet(f, s) <= Cardinality(s) * c
           High(s) == (\A x \in S : f[x] >= c) => SumFunctionOnSet(f, s) >= Cardinality(s) * c
           T == {n \in Nat : \A s \in SUBSET S : Cardinality(s) = n => Low(s) /\ High(s)}
<1>0. \A s \in SUBSET S : /\ IsFiniteSet(s) /\ SumFunctionOnSet(f, s) \in Int
                           /\ \A y \in s : f[y] \in Int
  BY FS_Subset, SumType
<1>1. 0 \in T
  <2>1. ASSUME NEW s \in SUBSET S, Cardinality(s) = 0 PROVE Low(s) /\ High(s)
    <3>1. s = {}
      BY <1>0, <2>1, FS_EmptySet
    <3>2. SumFunctionOnSet(f, s) = 0
      BY <3>1, SumEmpty
    <3> QED BY <2>1, <3>2
  <2> QED BY <2>1
<1>2. ASSUME NEW n \in Nat, n \in T PROVE n + 1 \in T
  <2>1. ASSUME NEW s \in SUBSET S, Cardinality(s) = n + 1 PROVE Low(s) /\ High(s)
    <3>1. s # {}
      BY <2>1, FS_EmptySet
    <3>2. PICK y \in s : TRUE
      BY <3>1
    <3> DEFINE r == s \ {y}
    <3>3. r \in SUBSET S /\ Cardinality(r) = n /\ f[y] \in Int
      <4>1. Cardinality(r) = Cardinality(s) - 1
        BY Smaller
      <4> QED BY <2>1, <4>1
    <3>4. SumFunctionOnSet(f, s) = f[y] + SumFunctionOnSet(f, r)
      BY <1>0, SumTake
    <3>5. Low(r) /\ High(r) /\ SumFunctionOnSet(f, r) \in Int
      BY <1>0, <1>2, <3>3
    <3> HIDE DEF r
    <3>6. (n + 1) * c = n * c + c /\ n * c \in Int
      OBVIOUS
    <3> DEFINE q == n * c
    <3>7. Low(s)
      <4> SUFFICES ASSUME \A x \in S : f[x] <= c
                   PROVE  SumFunctionOnSet(f, s) <= (n + 1) * c
        BY <2>1
      <4>1. SumFunctionOnSet(f, r) <= q /\ f[y] <= c
        BY <3>3, <3>5
      <4>2. (n + 1) * c = q + c /\ q \in Int
        BY <3>6
      <4> HIDE DEF q
      <4> QED BY <3>3, <3>4, <3>5, <4>1, <4>2
    <3>8. High(s)
      <4> SUFFICES ASSUME \A x \in S : f[x] >= c
                   PROVE  SumFunctionOnSet(f, s) >= (n + 1) * c
        BY <2>1
      <4>1. SumFunctionOnSet(f, r) >= q /\ f[y] >= c
        BY <3>3, <3>5
      <4>2. (n + 1) * c = q + c /\ q \in Int
        BY <3>6
      <4> HIDE DEF q
      <4> QED BY <3>3, <3>4, <3>5, <4>1, <4>2
    <3> QED BY <3>7, <3>8
  <2> QED BY <2>1
<1>3. Low(S) /\ High(S)
  <2> HIDE DEF T, Low, High
  <2>1. Nat \subseteq T
    BY <1>1, <1>2, SetInduction
  <2>2. Cardinality(S) \in T
    BY <2>1, FS_CardinalityType
  <2> QED BY <2>2, FS_CardinalityType DEF T
<1> QED BY <1>3

\* A sum of sums, term by term.
LEMMA SumPlus ==
  ASSUME NEW S, IsFiniteSet(S), NEW f, NEW e, NEW h,
         \A x \in S : f[x] \in Int /\ e[x] \in Int /\ h[x] = f[x] + e[x]
  PROVE  SumFunctionOnSet(h, S) = SumFunctionOnSet(f, S) + SumFunctionOnSet(e, S)
<1> DEFINE Adds(s) == SumFunctionOnSet(h, s) = SumFunctionOnSet(f, s) + SumFunctionOnSet(e, s)
           T == {n \in Nat : \A s \in SUBSET S : Cardinality(s) = n => Adds(s)}
<1>0. /\ \A x \in S : h[x] \in Int
      /\ \A s \in SUBSET S : /\ IsFiniteSet(s) /\ SumFunctionOnSet(f, s) \in Int
                              /\ SumFunctionOnSet(e, s) \in Int
  <2>1. \A x \in S : h[x] \in Int
    OBVIOUS
  <2>2. ASSUME NEW s \in SUBSET S
        PROVE  /\ IsFiniteSet(s) /\ \A x \in s : f[x] \in Int
               /\ \A x \in s : e[x] \in Int
    BY FS_Subset
  <2> QED BY <2>1, <2>2, SumType
<1>1. 0 \in T
  <2>1. ASSUME NEW s \in SUBSET S, Cardinality(s) = 0 PROVE Adds(s)
    <3>1. s = {}
      BY <1>0, <2>1, FS_EmptySet
    <3> QED BY <3>1, SumEmpty
  <2> QED BY <2>1
<1>2. ASSUME NEW n \in Nat, n \in T PROVE n + 1 \in T
  <2>1. ASSUME NEW s \in SUBSET S, Cardinality(s) = n + 1 PROVE Adds(s)
    <3>1. s # {}
      BY <2>1, FS_EmptySet
    <3>2. PICK y \in s : TRUE
      BY <3>1
    <3> DEFINE r == s \ {y}
    <3>3. r \in SUBSET S /\ Cardinality(r) = n /\ f[y] \in Int /\ e[y] \in Int /\ h[y] = f[y] + e[y]
      <4>1. Cardinality(r) = Cardinality(s) - 1
        BY Smaller
      <4> QED BY <2>1, <4>1
    <3>4. /\ SumFunctionOnSet(f, s) = f[y] + SumFunctionOnSet(f, r)
          /\ SumFunctionOnSet(e, s) = e[y] + SumFunctionOnSet(e, r)
          /\ SumFunctionOnSet(h, s) = h[y] + SumFunctionOnSet(h, r)
      <4>1. IsFiniteSet(s) /\ \A x \in s : f[x] \in Int /\ e[x] \in Int /\ h[x] \in Int
        BY <1>0
      <4> QED BY <4>1, SumTake
    <3>5. Adds(r) /\ SumFunctionOnSet(f, r) \in Int /\ SumFunctionOnSet(e, r) \in Int
      BY <1>0, <1>2, <3>3
    <3> HIDE DEF r
    <3> QED BY <3>3, <3>4, <3>5
  <2> QED BY <2>1
<1>3. Adds(S)
  <2> HIDE DEF T, Adds
  <2>1. Nat \subseteq T
    BY <1>1, <1>2, SetInduction
  <2>2. Cardinality(S) \in T
    BY <2>1, FS_CardinalityType
  <2> QED BY <2>2 DEF T
<1> QED BY <1>3

\* A sum of equal terms, and a sum of multiples.
LEMMA SumConstant ==
  ASSUME NEW S, IsFiniteSet(S), NEW f, NEW c \in Int, \A x \in S : f[x] = c
  PROVE  SumFunctionOnSet(f, S) = Cardinality(S) * c /\ Cardinality(S) * c \in Int
<1>1. /\ SumFunctionOnSet(f, S) <= Cardinality(S) * c
      /\ SumFunctionOnSet(f, S) >= Cardinality(S) * c
  <2>1. \A x \in S : f[x] \in Int /\ f[x] <= c /\ f[x] >= c
    OBVIOUS
  <2> QED BY <2>1, SumBounds
<1>2. SumFunctionOnSet(f, S) \in Int /\ Cardinality(S) \in Nat
  BY SumType, FS_CardinalityType
<1>3. Cardinality(S) * c \in Int
  BY <1>2
<1> QED BY <1>1, <1>2, <1>3

\* A sum of natural numbers.
LEMMA SumNat ==
  ASSUME NEW S, IsFiniteSet(S), NEW f, \A x \in S : f[x] \in Nat
  PROVE  SumFunctionOnSet(f, S) \in Nat
<1> DEFINE c == 0
<1>1. c \in Int /\ \A x \in S : f[x] \in Int /\ f[x] >= c
  OBVIOUS
<1> HIDE DEF c
<1>2. SumFunctionOnSet(f, S) >= Cardinality(S) * c /\ SumFunctionOnSet(f, S) \in Int
  BY <1>1, SumBounds, SumType
<1>3. Cardinality(S) * c = 0
  BY FS_CardinalityType DEF c
<1> QED BY <1>2, <1>3

\* One more copy of a term.
LEMMA OneMore ==
  ASSUME NEW n \in Nat, NEW a \in Int
  PROVE  (n + 1) * a = n * a + a /\ n * a \in Int
OBVIOUS

\* A sum of multiples is a multiple of the sum.
LEMMA SumTimes ==
  ASSUME NEW S, IsFiniteSet(S), NEW f, \A x \in S : f[x] \in Int, NEW c \in Nat
  PROVE  SumFunctionOnSet([x \in S |-> c * f[x]], S) = c * SumFunctionOnSet(f, S)
<1> DEFINE s == SumFunctionOnSet(f, S)
           Mult(n) == [x \in S |-> n * f[x]]
           T == {n \in Nat : SumFunctionOnSet(Mult(n), S) = n * s}
<1>0. s \in Int
  BY SumType
<1>1. 0 \in T
  <2> DEFINE z == 0
             e == Mult(z)
  <2>1. z \in Int /\ \A x \in S : e[x] = z
    OBVIOUS
  <2>2. Cardinality(S) \in Nat
    BY FS_CardinalityType
  <2> HIDE DEF z, e
  <2>3. SumFunctionOnSet(e, S) = Cardinality(S) * z
    BY <2>1, SumConstant
  <2>4. SumFunctionOnSet(e, S) = 0
    BY <2>2, <2>3 DEF z
  <2> HIDE DEF s
  <2> QED BY <1>0, <2>4 DEF e, z
<1>2. ASSUME NEW n \in Nat, n \in T PROVE n + 1 \in T
  <2> DEFINE e == Mult(n)
             h == Mult(n + 1)
  <2>1. SumFunctionOnSet(e, S) = n * s
    BY <1>2
  <2>2. \A x \in S : f[x] \in Int /\ e[x] = n * f[x] /\ h[x] = (n + 1) * f[x]
    OBVIOUS
  <2> HIDE DEF e, h, Mult
  <2>3. \A x \in S : e[x] \in Int /\ f[x] \in Int /\ h[x] = e[x] + f[x]
    <3>1. ASSUME NEW x \in S PROVE e[x] \in Int /\ f[x] \in Int /\ h[x] = e[x] + f[x]
      <4> DEFINE v == f[x]
      <4>1. v \in Int /\ e[x] = n * v /\ h[x] = (n + 1) * v
        BY <2>2
      <4> HIDE DEF v
      <4>2. (n + 1) * v = n * v + v /\ n * v \in Int
        BY <4>1, OneMore
      <4> QED BY <4>1, <4>2 DEF v
    <3> QED BY <3>1
  <2>4. SumFunctionOnSet(h, S) = SumFunctionOnSet(e, S) + s
    BY <2>3, SumPlus
  <2> HIDE DEF s
  <2>5. SumFunctionOnSet(h, S) = (n + 1) * s
    BY <1>0, <2>1, <2>4, OneMore
  <2> QED BY <2>5 DEF h
<1> HIDE DEF T
<1>3. c \in T
  BY <1>1, <1>2, SetInduction
<1> QED BY <1>3 DEF T

-----------------------------------------------------------------------------
\* The entries of a sequence, sorted into finitely many classes and counted
\* class by class, are all of them.
Sorted(q, T, S, cl) == [x \in S |-> CountIn(q, {w \in T : cl[w] = x})]

\* By induction on the length: the counts of the classes add up to it.
LEMMA CountsSumToLen ==
  ASSUME NEW S, IsFiniteSet(S), NEW T, NEW cl \in [T -> S], NEW q \in Seq(T)
  PROVE  SumFunctionOnSet(Sorted(q, T, S, cl), S) = Len(q)
<1> DEFINE K(x) == {w \in T : cl[w] = x}
           N == {n \in Nat : \A r \in Seq(T) :
                   Len(r) = n => SumFunctionOnSet(Sorted(r, T, S, cl), S) = n}
<1>0. ASSUME NEW r \in Seq(T)
      PROVE  /\ \A x \in S : Sorted(r, T, S, cl)[x] = CountIn(r, K(x))
             /\ \A x \in S : Sorted(r, T, S, cl)[x] \in Nat
  <2>1. \A x \in S : CountIn(r, K(x)) \in Nat
    BY CountInType
  <2> QED BY <2>1 DEF Sorted
<1>1. 0 \in N
  <2>1. ASSUME NEW r \in Seq(T), Len(r) = 0
        PROVE  SumFunctionOnSet(Sorted(r, T, S, cl), S) = 0
    <3> DEFINE f == Sorted(r, T, S, cl)
    <3>1. r = << >>
      BY <2>1
    <3>2. \A x \in S : f[x] = 0
      BY <1>0, <3>1, CountInEmpty
    <3> HIDE DEF f
    <3>3. SumFunctionOnSet(f, S) \in Int /\ Cardinality(S) \in Nat
      BY <3>2, SumType, FS_CardinalityType
    <3> DEFINE c == 0
    <3>4. c \in Int /\ \A x \in S : f[x] \in Int /\ f[x] <= c /\ f[x] >= c
      BY <3>2
    <3> HIDE DEF c
    <3>5. SumFunctionOnSet(f, S) <= Cardinality(S) * c /\ SumFunctionOnSet(f, S) >= Cardinality(S) * c
      BY <3>4, SumBounds
    <3> QED BY <3>3, <3>5 DEF f, c
  <2> QED BY <2>1
<1>2. ASSUME NEW n \in Nat, n \in N PROVE n + 1 \in N
  <2>1. ASSUME NEW r \in Seq(T), Len(r) = n + 1
        PROVE  SumFunctionOnSet(Sorted(r, T, S, cl), S) = n + 1
    <3> DEFINE t == Tail(r)
               x == cl[Head(r)]
               f == Sorted(t, T, S, cl)
               e == Sorted(r, T, S, cl)
    <3>1. r # << >> /\ t \in Seq(T) /\ Len(t) = n /\ Head(r) \in T /\ x \in S
      BY <2>1
    <3>2. SumFunctionOnSet(f, S) = n
      BY <1>2, <3>1
    <3>3. \A y \in S : CountIn(r, K(y)) = CountIn(t, K(y)) + IF Head(r) \in K(y) THEN 1 ELSE 0
      BY <3>1, CountInTail
    <3>4. \A y \in S : Head(r) \in K(y) <=> y = x
      BY <3>1
    <3>5. \A y \in S : f[y] = CountIn(t, K(y)) /\ f[y] \in Nat /\ e[y] = CountIn(r, K(y))
      BY <1>0, <3>1
    <3> HIDE DEF f, e, x, t, K
    <3>6. \A y \in S : e[y] = f[y] + IF y = x THEN 1 ELSE 0
      BY <3>3, <3>4, <3>5
    <3>7. \A y \in S : f[y] \in Int /\ e[y] \in Int /\ (y # x => f[y] = e[y])
      BY <3>5, <3>6
    <3>8. SumFunctionOnSet(e, S) = SumFunctionOnSet(f, S) - f[x] + e[x]
      BY <3>1, <3>7, SumPut
    <3>9. f[x] \in Nat /\ e[x] = f[x] + 1
      BY <3>1, <3>5, <3>6
    <3>10. SumFunctionOnSet(e, S) = n + 1
      BY <3>2, <3>8, <3>9
    <3> QED BY <3>10 DEF e
  <2> QED BY <2>1
<1> HIDE DEF N, K
<1>3. Nat \subseteq N
  BY <1>1, <1>2, SetInduction
<1>4. Len(q) \in N
  BY <1>3
<1> QED BY <1>4 DEF N

-----------------------------------------------------------------------------
\* Simple facts of arithmetic: a remainder, products, and what a completed
\* stride moves from one side of an account to the other.
LEMMA RemainderType ==
  ASSUME NEW s \in Nat \ {0}, NEW b \in Int PROVE (b % s) \in 0 .. s - 1
OBVIOUS

\* Products distribute over sums.
LEMMA Distribute ==
  ASSUME NEW f \in Int, NEW a \in Int, NEW u \in Int
  PROVE  f * (a + u) = f * a + f * u /\ f * a \in Int /\ f * u \in Int
OBVIOUS

\* Products of natural numbers.
LEMMA ProductType == ASSUME NEW a \in Nat, NEW b \in Nat PROVE a * b \in Nat
OBVIOUS

\* A completed stride, moved to the other side.
LEMMA Regroup ==
  ASSUME NEW a \in Int, NEW g \in Int, NEW x \in Int, NEW w \in Int, NEW s \in Int,
         NEW f \in Int, a + g = x + w + s
  PROVE  a + 1 + g = x + (w + f) + (s - (f - 1))
OBVIOUS

\* A multiple of f below x + f is at most x, in multiples of f.
LEMMA DivBound ==
  ASSUME NEW f \in Nat \ {0}, NEW q \in Nat, NEW a \in Nat, f * a <= q + f - 1
  PROVE  q \div f \in Nat /\ a <= 1 + q \div f
<1> DEFINE d == q \div f
<1>1. d \in Nat /\ q < f * (d + 1) /\ f * d \in Nat
  OBVIOUS
<1> HIDE DEF d
<1>2. f * (d + 1) = f * d + f
  BY <1>1
<1>3. ASSUME a >= d + 2 PROVE FALSE
  <2> DEFINE e == a - d - 2
  <2>1. e \in Nat /\ a = d + 2 + e
    BY <1>1, <1>3
  <2> HIDE DEF e
  <2>2. f * a = f * d + f * 2 + f * e /\ f * e \in Nat
    BY <1>1, <2>1
  <2>3. f * a \in Nat
    BY ProductType
  <2> QED BY <1>1, <1>2, <2>2, <2>3
<1>4. a <= 1 + d
  BY <1>1, <1>3
<1> QED BY <1>1, <1>4 DEF d

\* Whole strides.
Multiple(x, f) == \E c \in Int : x = c * f

\* Sums and differences of whole strides.
LEMMA MultipleSum ==
  ASSUME NEW f \in Nat \ {0}, NEW x \in Int, NEW y \in Int, Multiple(x, f), Multiple(y, f)
  PROVE  Multiple(x + y, f) /\ Multiple(x - y, f)
<1>1. PICK c \in Int : x = c * f
  BY DEF Multiple
<1>2. PICK d \in Int : y = d * f
  BY DEF Multiple
<1>3. x + y = (c + d) * f /\ x - y = (c - d) * f
  BY <1>1, <1>2
<1>4. c + d \in Int /\ c - d \in Int
  OBVIOUS
<1> QED BY <1>3, <1>4 DEF Multiple

\* One stride, and none.
LEMMA MultipleOnce == ASSUME NEW f \in Nat \ {0} PROVE Multiple(f, f) /\ Multiple(0, f)
<1>1. f = 1 * f /\ 0 = 0 * f
  OBVIOUS
<1> QED BY <1>1 DEF Multiple

\* A remainder differs from its number by whole strides.
LEMMA MultipleStep ==
  ASSUME NEW f \in Nat \ {0}, NEW b \in Int
  PROVE  Multiple((b % f) - b, f) /\ (b % f) \in Int
<1> DEFINE d == b \div f
<1>1. d \in Int /\ b = f * d + (b % f) /\ (b % f) \in Int
  OBVIOUS
<1> DEFINE r == b % f
<1> HIDE DEF d, r
<1>2. -d \in Int /\ r - b = (-d) * f
  BY <1>1 DEF r
<1> QED BY <1>1, <1>2 DEF Multiple, r

\* Less than a stride is not a whole one.
LEMMA MultipleSmall ==
  ASSUME NEW f \in Nat \ {0}, NEW x \in 1 .. f - 1
  PROVE  ~Multiple(x, f)
<1> SUFFICES ASSUME NEW c \in Int, x = c * f PROVE FALSE
  BY DEF Multiple
<1>1. c <= 0 => c * f <= 0
  OBVIOUS
<1>2. c >= 1 => c * f >= f
  OBVIOUS
<1> QED BY <1>1, <1>2
==============================================================================
