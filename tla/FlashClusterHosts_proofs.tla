---------------------- MODULE FlashClusterHosts_proofs -----------------------
(***************************************************************************)
(* Proofs about FlashCluster, continued: what the hosts and controllers    *)
(* are given is what they wait for.  Every queue of the cluster is a box:  *)
(* the FIFOs of the splitters, the hosts' commands, the engines' jobs, the *)
(* channels of the network, and each controller's commands.  The inductive *)
(* invariant HostInv says that a request is in one box, that the words of  *)
(* a page are numbered in the order of the boxes on their route, from the  *)
(* word awaited to the word sent next, and that write data is on its way   *)
(* only to a controller that has asked for it.                             *)
(***************************************************************************)
EXTENDS FlashCluster_proofs

\* Where requests, words and write data requests are: in queues of a node, at
\* the host, at the controller, at an engine, or on the network.
ReqQ  == {"locCmdInQ", "remCmdOutQ", "locCmdOutQ", "locAckInQ", "remAckOutQ", "locAckOutQ"}
ReadQ == {"locRdInQ", "remRdOutQ", "remRdInQ", "locRdOutQ"}
WrQ   == {"locWdataInQ", "remWdataOutQ", "locWdataOutQ"}
WreqQ == {"locWreqInQ", "remWreqOutQ", "locWreqOutQ"}
BoxQ  == ReqQ \cup ReadQ \cup WrQ \cup WreqQ
AtNode(f, n) == <<f, n, 0>>
Box == {AtNode(f, n) : f \in BoxQ \cup {"host"}, n \in Node}
         \cup {<<"ctrl", n, t>> : n \in Node, t \in Tag}
         \cup {<<"job", n, p>> : n \in Node, p \in Eng}
         \cup {<<c, a, b>> : c \in Class, a \in Node, b \in Node}
BoxOf(kinds) == {x \in Box : x[1] \in kinds}
ReqBox  == BoxOf(ReqQ \cup {"host", "ctrl", "cmd", "ack"})
WrBox   == BoxOf(WrQ \cup {"wd"})
WordBox == BoxOf(ReadQ \cup WrQ \cup {"rd", "wd"})
WreqBox == BoxOf(WreqQ \cup {"job", "wreq"})
InCtrl(c) == IF c = Free THEN << >> ELSE <<c>>
Held(x) ==
  IF x[1] = "host" THEN flashCmdQ[x[2]]
  ELSE IF x[1] = "ctrl" THEN InCtrl(ctrl[x[2]][x[3]])
  ELSE IF x[1] = "job" THEN job[x[2]][x[3]]
  ELSE IF x[1] \in Class THEN net[x[1]][<<x[2], x[3]>>]
  ELSE q[x[2]][x[1]]

\* What is in a box, box by box.
LEMMA HeldIs ==
  /\ \A f \in BoxQ, n \in Node :
       /\ AtNode(f, n) \in Box /\ AtNode(f, n)[1] = f /\ f \in Names
       /\ Held(AtNode(f, n)) = q[n][f] /\ Held(AtNode(f, n))' = q'[n][f]
  /\ \A n \in Node :
       /\ AtNode("host", n) \in Box /\ AtNode("host", n)[1] = "host"
       /\ Held(AtNode("host", n)) = flashCmdQ[n] /\ Held(AtNode("host", n))' = flashCmdQ'[n]
  /\ \A n \in Node, t \in Tag :
       /\ <<"ctrl", n, t>> \in Box
       /\ Held(<<"ctrl", n, t>>) = InCtrl(ctrl[n][t])
       /\ Held(<<"ctrl", n, t>>)' = InCtrl(ctrl'[n][t])
  /\ \A n \in Node, p \in Eng :
       /\ <<"job", n, p>> \in Box
       /\ Held(<<"job", n, p>>) = job[n][p] /\ Held(<<"job", n, p>>)' = job'[n][p]
  /\ \A c \in Class, a, b \in Node :
       /\ <<c, a, b>> \in Box
       /\ Held(<<c, a, b>>) = net[c][<<a, b>>] /\ Held(<<c, a, b>>)' = net'[c][<<a, b>>]
<1>1. ASSUME NEW f \in BoxQ, NEW n \in Node
      PROVE  /\ AtNode(f, n) \in Box /\ AtNode(f, n)[1] = f /\ f \in Names
             /\ Held(AtNode(f, n)) = q[n][f] /\ Held(AtNode(f, n))' = q'[n][f]
  <2>1. AtNode(f, n) \in Box
    BY DEF Box
  <2>2. /\ AtNode(f, n)[1] = f /\ AtNode(f, n)[2] = n
        /\ f # "host" /\ f # "ctrl" /\ f # "job" /\ f \notin Class /\ f \in Names
    BY DEF AtNode, BoxQ, ReqQ, ReadQ, WrQ, WreqQ, Class, Names, SizedQ, PlainQ
  <2> QED BY <2>1, <2>2 DEF Held
<1>2. ASSUME NEW n \in Node
      PROVE  /\ AtNode("host", n) \in Box /\ AtNode("host", n)[1] = "host"
             /\ Held(AtNode("host", n)) = flashCmdQ[n]
             /\ Held(AtNode("host", n))' = flashCmdQ'[n]
  <2>1. AtNode("host", n) \in Box
    BY DEF Box
  <2>2. AtNode("host", n)[1] = "host" /\ AtNode("host", n)[2] = n
    BY DEF AtNode
  <2> QED BY <2>1, <2>2 DEF Held
<1>3. ASSUME NEW n \in Node, NEW t \in Tag
      PROVE  /\ <<"ctrl", n, t>> \in Box
             /\ Held(<<"ctrl", n, t>>) = InCtrl(ctrl[n][t])
             /\ Held(<<"ctrl", n, t>>)' = InCtrl(ctrl'[n][t])
  BY DEF Box, Held, InCtrl
<1>4. ASSUME NEW n \in Node, NEW p \in Eng
      PROVE  /\ <<"job", n, p>> \in Box
             /\ Held(<<"job", n, p>>) = job[n][p] /\ Held(<<"job", n, p>>)' = job'[n][p]
  BY DEF Box, Held
<1>5. ASSUME NEW c \in Class, NEW a \in Node, NEW b \in Node
      PROVE  /\ <<c, a, b>> \in Box
             /\ Held(<<c, a, b>>) = net[c][<<a, b>>] /\ Held(<<c, a, b>>)' = net'[c][<<a, b>>]
  <2>1. <<c, a, b>> \in Box
    BY DEF Box
  <2>2. c # "host" /\ c # "ctrl" /\ c # "job"
    BY DEF Class
  <2> QED BY <2>1, <2>2 DEF Held
<1> QED BY <1>1, <1>2, <1>3, <1>4, <1>5

\* Every box is one of these.
LEMMA BoxCases ==
  ASSUME NEW x \in Box
  PROVE  \/ \E f \in BoxQ, n \in Node : x = AtNode(f, n)
         \/ \E n \in Node : x = AtNode("host", n)
         \/ \E n \in Node, t \in Tag : x = <<"ctrl", n, t>>
         \/ \E n \in Node, p \in Eng : x = <<"job", n, p>>
         \/ \E c \in Class, a, b \in Node : x = <<c, a, b>>
BY DEF Box

\* Which kinds there are, and which queues hold which.
LEMMA Kinds ==
  /\ \A f \in BoxQ : f # "host" /\ f # "ctrl" /\ f # "job" /\ f \notin Class
  /\ \A c \in Class : c # "host" /\ c # "ctrl" /\ c # "job"
BY DEF BoxQ, ReqQ, ReadQ, WrQ, WreqQ, Class

\* Among the boxes of B: x gives up its head and y takes v, or only one of the
\* two happens, or nothing.
MovesIn(B, x, y, v) ==
  /\ x \in B /\ y \in B /\ x # y /\ Held(x) # << >>
  /\ Held(x)' = Tail(Held(x)) /\ Held(y)' = Append(Held(y), v)
  /\ \A z \in B : z # x /\ z # y => Held(z)' = Held(z)
TakesIn(B, x) ==
  /\ x \in B /\ Held(x) # << >> /\ Held(x)' = Tail(Held(x))
  /\ \A z \in B : z # x => Held(z)' = Held(z)
PutsIn(B, y, v) ==
  /\ y \in B /\ Held(y)' = Append(Held(y), v)
  /\ \A z \in B : z # y => Held(z)' = Held(z)
StaysIn(B) == \A z \in B : Held(z)' = Held(z)

\* Boxes that are not queues of a node.
Elsewhere(B) == \A z \in B : (\A f \in BoxQ, n \in Node : z # AtNode(f, n)) => Held(z)' = Held(z)

\* A smaller set of boxes.
LEMMA Narrow ==
  ASSUME NEW B, NEW C, C \subseteq B
  PROVE  /\ StaysIn(B) => StaysIn(C)
         /\ \A x, y, v : MovesIn(B, x, y, v) =>
              /\ x \in C /\ y \in C => MovesIn(C, x, y, v)
              /\ x \notin C /\ y \notin C => StaysIn(C)
         /\ \A x : TakesIn(B, x) => /\ x \in C => TakesIn(C, x)
                                    /\ x \notin C => StaysIn(C)
         /\ \A y, v : PutsIn(B, y, v) => /\ y \in C => PutsIn(C, y, v)
                                         /\ y \notin C => StaysIn(C)
<1>1. StaysIn(B) => StaysIn(C)
  BY DEF StaysIn
<1>2. ASSUME NEW x, NEW y, NEW v, MovesIn(B, x, y, v)
      PROVE  /\ x \in C /\ y \in C => MovesIn(C, x, y, v)
             /\ x \notin C /\ y \notin C => StaysIn(C)
  BY <1>2 DEF MovesIn, StaysIn
<1>3. ASSUME NEW x, TakesIn(B, x)
      PROVE  (x \in C => TakesIn(C, x)) /\ (x \notin C => StaysIn(C))
  BY <1>3 DEF TakesIn, StaysIn
<1>4. ASSUME NEW y, NEW v, PutsIn(B, y, v)
      PROVE  (y \in C => PutsIn(C, y, v)) /\ (y \notin C => StaysIn(C))
  BY <1>4 DEF PutsIn, StaysIn
<1> QED BY <1>1, <1>2, <1>3, <1>4

\* Nothing happens to the boxes that are not queues of a node.
LEMMA OtherBoxes ==
  /\ UNCHANGED <<flashCmdQ, ctrl, job, net>> => Elsewhere(Box)
  /\ UNCHANGED <<flashCmdQ, job, net>> => Elsewhere({z \in Box : z[1] # "ctrl"})
  /\ UNCHANGED <<flashCmdQ, ctrl, net>> => Elsewhere({z \in Box : z[1] # "job"})
  /\ UNCHANGED <<flashCmdQ, ctrl, job>> => Elsewhere({z \in Box : z[1] \notin Class})
  /\ UNCHANGED <<ctrl, job, net>> => Elsewhere({z \in Box : z[1] # "host"})
<1> SUFFICES ASSUME NEW x \in Box, \A f \in BoxQ, n \in Node : x # AtNode(f, n)
             PROVE  /\ UNCHANGED flashCmdQ \/ x[1] # "host"
                    /\ UNCHANGED ctrl \/ x[1] # "ctrl"
                    /\ UNCHANGED job \/ x[1] # "job"
                    /\ UNCHANGED net \/ x[1] \notin Class
                    => Held(x)' = Held(x)
  BY DEF Elsewhere
<1>1. CASE \E n \in Node : x = AtNode("host", n)
  BY <1>1, HeldIs
<1>2. CASE \E n \in Node, t \in Tag : x = <<"ctrl", n, t>>
  <2>1. PICK n \in Node, t \in Tag : x = <<"ctrl", n, t>>
    BY <1>2
  <2>2. x[1] = "ctrl"
    BY <2>1
  <2> QED BY <2>1, <2>2, HeldIs
<1>3. CASE \E n \in Node, p \in Eng : x = <<"job", n, p>>
  <2>1. PICK n \in Node, p \in Eng : x = <<"job", n, p>>
    BY <1>3
  <2>2. x[1] = "job"
    BY <2>1
  <2> QED BY <2>1, <2>2, HeldIs
<1>4. CASE \E c \in Class, a, b \in Node : x = <<c, a, b>>
  <2>1. PICK c \in Class, a \in Node, b \in Node : x = <<c, a, b>>
    BY <1>4
  <2>2. x[1] = c
    BY <2>1
  <2>3. CASE UNCHANGED net
    <3>1. net' = net
      BY <2>3
    <3>2. net'[c][<<a, b>>] = net[c][<<a, b>>]
      BY <3>1
    <3> QED BY <2>1, <3>2, HeldIs
  <2>4. CASE ~(UNCHANGED net)
    BY <2>2, <2>4
  <2> QED BY <2>3, <2>4
<1> QED BY <1>1, <1>2, <1>3, <1>4, BoxCases

\* Two names of a box.
LEMMA NodeNames ==
  \A f, g, n, m : AtNode(f, n) = AtNode(g, m) <=> f = g /\ n = m
BY DEF AtNode

\* Only the queues F of node n change; what happens to queues happens to boxes.
OnlyQueues(n, F) == \A m \in Node, h \in BoxQ : m # n \/ h \notin F => q'[m][h] = q[m][h]

\* A box that is none of these queues stays.
LEMMA QueueBoxes ==
  ASSUME NEW B, B \subseteq Box, Elsewhere(B), NEW n, NEW F, OnlyQueues(n, F),
         NEW z \in B, \A f \in F : z # AtNode(f, n)
  PROVE  Held(z)' = Held(z)
<1>1. CASE \E h \in BoxQ, m \in Node : z = AtNode(h, m)
  <2>1. PICK h \in BoxQ, m \in Node : z = AtNode(h, m)
    BY <1>1
  <2>2. q'[m][h] = q[m][h]
    BY <2>1 DEF OnlyQueues
  <2> QED BY <2>1, <2>2, HeldIs
<1>2. CASE ~\E h \in BoxQ, m \in Node : z = AtNode(h, m)
  BY <1>2 DEF Elsewhere
<1> QED BY <1>1, <1>2

\* An item moves between queues of a node.
LEMMA QueueMoves ==
  ASSUME NEW B, B \subseteq Box, Elsewhere(B), NEW n \in Node, NEW f \in BoxQ, NEW g \in BoxQ,
         f # g, NEW v, NotEmpty(n, f), AtNode(f, n) \in B, AtNode(g, n) \in B,
         \A m \in Node, h \in BoxQ :
           q'[m][h] = IF m = n /\ h = f THEN Tail(q[n][f])
                      ELSE IF m = n /\ h = g THEN Append(q[n][g], v) ELSE q[m][h]
  PROVE  MovesIn(B, AtNode(f, n), AtNode(g, n), v)
<1>0. q'[n][f] = Tail(q[n][f]) /\ q'[n][g] = Append(q[n][g], v)
  OBVIOUS
<1>1. /\ AtNode(f, n) # AtNode(g, n)
      /\ Held(AtNode(f, n)) = q[n][f] /\ Held(AtNode(f, n))' = q'[n][f]
      /\ Held(AtNode(g, n)) = q[n][g] /\ Held(AtNode(g, n))' = q'[n][g]
  BY HeldIs, NodeNames
<1>2. ASSUME NEW z \in B, z # AtNode(f, n), z # AtNode(g, n) PROVE Held(z)' = Held(z)
  <2>1. OnlyQueues(n, {f, g})
    BY DEF OnlyQueues
  <2>2. \A h \in {f, g} : z # AtNode(h, n)
    BY <1>2
  <2> QED BY <2>1, <2>2, QueueBoxes
<1> QED BY <1>0, <1>1, <1>2 DEF MovesIn, NotEmpty

\* An item is put into one.
LEMMA QueuePuts ==
  ASSUME NEW B, B \subseteq Box, Elsewhere(B), NEW n \in Node, NEW g \in BoxQ, NEW v,
         AtNode(g, n) \in B,
         \A m \in Node, h \in BoxQ :
           q'[m][h] = IF m = n /\ h = g THEN Append(q[n][g], v) ELSE q[m][h]
  PROVE  PutsIn(B, AtNode(g, n), v)
<1>0. q'[n][g] = Append(q[n][g], v)
  OBVIOUS
<1>1. Held(AtNode(g, n)) = q[n][g] /\ Held(AtNode(g, n))' = q'[n][g]
  BY HeldIs
<1>2. ASSUME NEW z \in B, z # AtNode(g, n) PROVE Held(z)' = Held(z)
  <2>1. OnlyQueues(n, {g})
    BY DEF OnlyQueues
  <2>2. \A h \in {g} : z # AtNode(h, n)
    BY <1>2
  <2> QED BY <2>1, <2>2, QueueBoxes
<1> QED BY <1>0, <1>1, <1>2 DEF PutsIn

\* An item is taken from one.
LEMMA QueueTakes ==
  ASSUME NEW B, B \subseteq Box, Elsewhere(B), NEW n \in Node, NEW f \in BoxQ, NotEmpty(n, f),
         AtNode(f, n) \in B,
         \A m \in Node, h \in BoxQ :
           q'[m][h] = IF m = n /\ h = f THEN Tail(q[n][f]) ELSE q[m][h]
  PROVE  TakesIn(B, AtNode(f, n))
<1>0. q'[n][f] = Tail(q[n][f])
  OBVIOUS
<1>1. Held(AtNode(f, n)) = q[n][f] /\ Held(AtNode(f, n))' = q'[n][f]
  BY HeldIs
<1>2. ASSUME NEW z \in B, z # AtNode(f, n) PROVE Held(z)' = Held(z)
  <2>1. OnlyQueues(n, {f})
    BY DEF OnlyQueues
  <2>2. \A h \in {f} : z # AtNode(h, n)
    BY <1>2
  <2> QED BY <2>1, <2>2, QueueBoxes
<1> QED BY <1>0, <1>1, <1>2 DEF TakesIn, NotEmpty

\* The queues of the nodes that hold requests and words are the same.
LEMMA QueuesStay ==
  ASSUME NEW B, B \subseteq Box, Elsewhere(B), \A m \in Node, h \in BoxQ : q'[m][h] = q[m][h]
  PROVE  StaysIn(B)
<1> SUFFICES ASSUME NEW z \in B PROVE Held(z)' = Held(z)
  BY DEF StaysIn
<1>1. CASE \E h \in BoxQ, m \in Node : z = AtNode(h, m)
  BY <1>1, HeldIs
<1>2. CASE ~\E h \in BoxQ, m \in Node : z = AtNode(h, m)
  BY <1>2 DEF Elsewhere
<1> QED BY <1>1, <1>2

-----------------------------------------------------------------------------
\* A request is known by its slot, wherever it is.
SlotIn(f, it) ==
  IF f = "locAckInQ" THEN SlotOf(it.entry.src, it.status, it.entry.origTag)
  ELSE IF f \in {"remAckOutQ", "locAckOutQ", "ack"} THEN SlotOf(it.dst, it.status, it.tag)
  ELSE it.page
SlotsIn(f, s) == [i \in DOMAIN s |-> SlotIn(f, s[i])]
ReqAt == [x \in ReqBox |-> SlotsIn(x[1], Held(x))]

\* Words are in boxes of their own.
AnyWord == [tag : Nat, dst : Node, page : Slots, idx : 0 .. PageWords - 1]
WordAt  == [x \in WordBox |-> Held(x)]

\* A write data request is known by the slot it is for, and by the node and
\* the tag it comes from.
Token == Slots \X Node \X Tag
JobOf(x, r) ==
  IF x[1] = "locWreqInQ" THEN <<SlotOf(r.entry.src, "write", r.entry.origTag), x[2], r.reTag>>
  ELSE <<SlotOf(r.dst, "write", r.origTag), r.src, r.reTag>>
JobsIn(x, s) == [i \in DOMAIN s |-> JobOf(x, s[i])]
JobAt == [x \in WreqBox |-> JobsIn(x, Held(x))]

\* The slots and jobs in a queue follow it.
LEMMA SlotsSteps ==
  ASSUME NEW A, NEW s \in Seq(A), NEW f, \A it \in A : SlotIn(f, it) \in Slots
  PROVE  /\ SlotsIn(f, s) \in Seq(Slots)
         /\ s # << >> => /\ SlotsIn(f, s) # << >> /\ Head(SlotsIn(f, s)) = SlotIn(f, Head(s))
                         /\ SlotsIn(f, Tail(s)) = Tail(SlotsIn(f, s))
         /\ \A v : SlotsIn(f, Append(s, v)) = Append(SlotsIn(f, s), SlotIn(f, v))
<1>1. PICK n \in Nat : n = Len(s) /\ DOMAIN s = 1 .. n /\ \A i \in 1 .. n : s[i] \in A
  OBVIOUS
<1>2. PICK u : u = SlotsIn(f, s)
  OBVIOUS
<1>3. u \in Seq(Slots) /\ Len(u) = n /\ DOMAIN u = 1 .. n /\ \A i \in 1 .. n : u[i] = SlotIn(f, s[i])
  BY <1>1, <1>2 DEF SlotsIn
<1>4. ASSUME s # << >>
      PROVE  /\ u # << >> /\ Head(u) = SlotIn(f, Head(s)) /\ SlotsIn(f, Tail(s)) = Tail(u)
  <2>1. n # 0 /\ u # << >> /\ 1 \in 1 .. n
    BY <1>1, <1>3, <1>4
  <2>2. Head(u) = SlotIn(f, Head(s))
    BY <1>3, <1>4, <2>1
  <2>3. PICK t : t = Tail(s)
    OBVIOUS
  <2>4. n - 1 \in Nat /\ DOMAIN t = 1 .. n - 1 /\ \A i \in 1 .. n - 1 : t[i] = s[i + 1]
    BY <1>1, <1>4, <2>1, <2>3
  <2>5. PICK a, b : a = SlotsIn(f, t) /\ b = Tail(u)
    OBVIOUS
  <2>6. a = [i \in 1 .. n - 1 |-> SlotIn(f, s[i + 1])]
    BY <2>4, <2>5 DEF SlotsIn
  <2>7. b \in Seq(Slots) /\ Len(b) = n - 1 /\ \A i \in 1 .. n - 1 : b[i] = SlotIn(f, s[i + 1])
    BY <1>3, <2>1, <2>5
  <2>9. a \in Seq(Slots) /\ Len(a) = n - 1 /\ \A i \in 1 .. n - 1 : a[i] = SlotIn(f, s[i + 1])
    BY <1>1, <2>4, <2>6
  <2>8. SlotsIn(f, t) = Tail(u)
    BY <2>5, <2>7, <2>9, SeqsSame
  <2> QED BY <2>1, <2>2, <2>3, <2>8
<1>5. ASSUME NEW v PROVE SlotsIn(f, Append(s, v)) = Append(u, SlotIn(f, v))
  <2>1. PICK t, w : t = Append(s, v) /\ w = SlotIn(f, v)
    OBVIOUS
  <2>2. DOMAIN t = 1 .. n + 1 /\ t[n + 1] = v /\ \A i \in 1 .. n : t[i] = s[i]
    BY <1>1, <2>1
  <2>3. PICK a, b, S : a = SlotsIn(f, t) /\ b = Append(u, w) /\ S = Slots \cup {w}
    OBVIOUS
  <2>4. a = [i \in 1 .. n + 1 |-> SlotIn(f, t[i])]
    BY <2>2, <2>3 DEF SlotsIn
  <2>5. /\ b \in Seq(S) /\ Len(b) = n + 1
        /\ \A i \in 1 .. n + 1 : b[i] = IF i = n + 1 THEN w ELSE u[i]
    BY <1>3, <2>3
  <2>6. \A i \in 1 .. n + 1 : SlotIn(f, t[i]) = (IF i = n + 1 THEN w ELSE u[i]) /\ b[i] \in S
    BY <1>3, <2>1, <2>2, <2>3, <2>5
  <2>8. \A i \in 1 .. n + 1 : a[i] = b[i] /\ b[i] \in S
    BY <2>4, <2>5, <2>6
  <2>9. PICK k \in Nat : k = n + 1
    OBVIOUS
  <2>10. a \in [1 .. k -> S]
    BY <2>4, <2>8, <2>9
  <2>11. a \in Seq(S) /\ Len(a) = k
    BY <2>10
  <2>7. a \in Seq(S) /\ Len(a) = n + 1 /\ \A i \in 1 .. n + 1 : a[i] = b[i]
    BY <2>8, <2>9, <2>11
  <2> QED BY <2>1, <2>3, <2>5, <2>7, SeqsSame
<1> QED BY <1>2, <1>3, <1>4, <1>5

\* So do the jobs.
LEMMA JobsSteps ==
  ASSUME NEW A, NEW s \in Seq(A), NEW x, \A it \in A : JobOf(x, it) \in Token
  PROVE  /\ JobsIn(x, s) \in Seq(Token)
         /\ s # << >> => /\ JobsIn(x, s) # << >> /\ Head(JobsIn(x, s)) = JobOf(x, Head(s))
                         /\ JobsIn(x, Tail(s)) = Tail(JobsIn(x, s))
         /\ \A v : JobsIn(x, Append(s, v)) = Append(JobsIn(x, s), JobOf(x, v))
<1>1. PICK n \in Nat : n = Len(s) /\ DOMAIN s = 1 .. n /\ \A i \in 1 .. n : s[i] \in A
  OBVIOUS
<1>2. PICK u : u = JobsIn(x, s)
  OBVIOUS
<1>3. u \in Seq(Token) /\ Len(u) = n /\ DOMAIN u = 1 .. n /\ \A i \in 1 .. n : u[i] = JobOf(x, s[i])
  BY <1>1, <1>2 DEF JobsIn
<1>4. ASSUME s # << >>
      PROVE  /\ u # << >> /\ Head(u) = JobOf(x, Head(s)) /\ JobsIn(x, Tail(s)) = Tail(u)
  <2>1. n # 0 /\ u # << >> /\ 1 \in 1 .. n
    BY <1>1, <1>3, <1>4
  <2>2. Head(u) = JobOf(x, Head(s))
    BY <1>3, <1>4, <2>1
  <2>3. PICK t : t = Tail(s)
    OBVIOUS
  <2>4. n - 1 \in Nat /\ DOMAIN t = 1 .. n - 1 /\ \A i \in 1 .. n - 1 : t[i] = s[i + 1]
    BY <1>1, <1>4, <2>1, <2>3
  <2>5. PICK a, b : a = JobsIn(x, t) /\ b = Tail(u)
    OBVIOUS
  <2>6. a = [i \in 1 .. n - 1 |-> JobOf(x, s[i + 1])]
    BY <2>4, <2>5 DEF JobsIn
  <2>7. b \in Seq(Token) /\ Len(b) = n - 1 /\ \A i \in 1 .. n - 1 : b[i] = JobOf(x, s[i + 1])
    BY <1>3, <2>1, <2>5
  <2>9. a \in Seq(Token) /\ Len(a) = n - 1 /\ \A i \in 1 .. n - 1 : a[i] = JobOf(x, s[i + 1])
    BY <1>1, <2>4, <2>6
  <2>8. JobsIn(x, t) = Tail(u)
    BY <2>5, <2>7, <2>9, SeqsSame
  <2> QED BY <2>1, <2>2, <2>3, <2>8
<1>5. ASSUME NEW v PROVE JobsIn(x, Append(s, v)) = Append(u, JobOf(x, v))
  <2>1. PICK t, w : t = Append(s, v) /\ w = JobOf(x, v)
    OBVIOUS
  <2>2. DOMAIN t = 1 .. n + 1 /\ t[n + 1] = v /\ \A i \in 1 .. n : t[i] = s[i]
    BY <1>1, <2>1
  <2>3. PICK a, b, S : a = JobsIn(x, t) /\ b = Append(u, w) /\ S = Token \cup {w}
    OBVIOUS
  <2>4. a = [i \in 1 .. n + 1 |-> JobOf(x, t[i])]
    BY <2>2, <2>3 DEF JobsIn
  <2>5. /\ b \in Seq(S) /\ Len(b) = n + 1
        /\ \A i \in 1 .. n + 1 : b[i] = IF i = n + 1 THEN w ELSE u[i]
    BY <1>3, <2>3
  <2>6. \A i \in 1 .. n + 1 : JobOf(x, t[i]) = (IF i = n + 1 THEN w ELSE u[i]) /\ b[i] \in S
    BY <1>3, <2>1, <2>2, <2>3, <2>5
  <2>8. \A i \in 1 .. n + 1 : a[i] = b[i] /\ b[i] \in S
    BY <2>4, <2>5, <2>6
  <2>9. PICK k \in Nat : k = n + 1
    OBVIOUS
  <2>10. a \in [1 .. k -> S]
    BY <2>4, <2>8, <2>9
  <2>11. a \in Seq(S) /\ Len(a) = k
    BY <2>10
  <2>7. a \in Seq(S) /\ Len(a) = n + 1 /\ \A i \in 1 .. n + 1 : a[i] = b[i]
    BY <2>8, <2>9, <2>11
  <2> QED BY <2>1, <2>3, <2>5, <2>7, SeqsSame
<1> QED BY <1>2, <1>3, <1>4, <1>5

\* The boxes of each family.
LEMMA Families ==
  /\ ReqBox \subseteq Box /\ WordBox \subseteq Box /\ WreqBox \subseteq Box /\ WrBox \subseteq WordBox
  /\ \A x \in ReqBox :
       \/ \E f \in ReqQ, n \in Node : x = AtNode(f, n)
       \/ \E n \in Node : x = AtNode("host", n)
       \/ \E n \in Node, t \in Tag : x = <<"ctrl", n, t>>
       \/ \E c \in {"cmd", "ack"}, a, b \in Node : x = <<c, a, b>>
  /\ \A x \in WordBox :
       \/ \E f \in ReadQ \cup WrQ, n \in Node : x = AtNode(f, n)
       \/ \E c \in {"rd", "wd"}, a, b \in Node : x = <<c, a, b>>
  /\ \A x \in WreqBox :
       \/ \E f \in WreqQ, n \in Node : x = AtNode(f, n)
       \/ \E n \in Node, p \in Eng : x = <<"job", n, p>>
       \/ \E a, b \in Node : x = <<"wreq", a, b>>
<1>1. ReqBox \subseteq Box /\ WordBox \subseteq Box /\ WreqBox \subseteq Box /\ WrBox \subseteq WordBox
  BY DEF ReqBox, WordBox, WreqBox, WrBox, BoxOf
<1>2. ASSUME NEW x \in Box
      PROVE  \/ \E f \in BoxQ, n \in Node : x = AtNode(f, n) /\ x[1] = f
             \/ \E n \in Node : x = AtNode("host", n) /\ x[1] = "host"
             \/ \E n \in Node, t \in Tag : x = <<"ctrl", n, t>> /\ x[1] = "ctrl"
             \/ \E n \in Node, p \in Eng : x = <<"job", n, p>> /\ x[1] = "job"
             \/ \E c \in Class, a, b \in Node : x = <<c, a, b>> /\ x[1] = c
  BY <1>2, BoxCases DEF AtNode
<1>3. ASSUME NEW x \in ReqBox
      PROVE  \/ \E f \in ReqQ, n \in Node : x = AtNode(f, n)
             \/ \E n \in Node : x = AtNode("host", n)
             \/ \E n \in Node, t \in Tag : x = <<"ctrl", n, t>>
             \/ \E c \in {"cmd", "ack"}, a, b \in Node : x = <<c, a, b>>
  <2>1. x \in Box /\ x[1] \in ReqQ \cup {"host", "ctrl", "cmd", "ack"}
    BY DEF ReqBox, BoxOf
  <2>2. BoxQ \cap {"host", "ctrl", "job", "cmd", "ack"} = {} /\ ReqQ \subseteq BoxQ
        /\ "job" \notin ReqQ /\ Class \cap (ReqQ \cup {"host", "ctrl"}) = {}
    BY DEF BoxQ, ReqQ, ReadQ, WrQ, WreqQ, Class
  <2> QED BY <1>2, <2>1, <2>2
<1>4. ASSUME NEW x \in WordBox
      PROVE  \/ \E f \in ReadQ \cup WrQ, n \in Node : x = AtNode(f, n)
             \/ \E c \in {"rd", "wd"}, a, b \in Node : x = <<c, a, b>>
  <2>1. x \in Box /\ x[1] \in ReadQ \cup WrQ \cup {"rd", "wd"}
    BY DEF WordBox, BoxOf
  <2>2. BoxQ \cap {"host", "ctrl", "job", "rd", "wd"} = {} /\ Class \cap (ReadQ \cup WrQ) = {}
        /\ {"host", "ctrl", "job"} \cap (ReadQ \cup WrQ) = {}
    BY DEF BoxQ, ReqQ, ReadQ, WrQ, WreqQ, Class
  <2> QED BY <1>2, <2>1, <2>2
<1>5. ASSUME NEW x \in WreqBox
      PROVE  \/ \E f \in WreqQ, n \in Node : x = AtNode(f, n)
             \/ \E n \in Node, p \in Eng : x = <<"job", n, p>>
             \/ \E a, b \in Node : x = <<"wreq", a, b>>
  <2>1. x \in Box /\ x[1] \in WreqQ \cup {"job", "wreq"}
    BY DEF WreqBox, BoxOf
  <2>2. BoxQ \cap {"host", "ctrl", "job", "wreq"} = {} /\ Class \cap (WreqQ \cup {"job"}) = {}
        /\ {"host", "ctrl", "job"} \cap WreqQ = {}
    BY DEF BoxQ, ReqQ, ReadQ, WrQ, WreqQ, Class
  <2> QED BY <1>2, <2>1, <2>2
<1> QED BY <1>1, <1>3, <1>4, <1>5

-----------------------------------------------------------------------------
\* What the boxes of each family hold.
LEMMA ReqTypes ==
  ASSUME Typed, NEW x \in ReqBox
  PROVE  \E A : Held(x) \in Seq(A) /\ \A it \in A : SlotIn(x[1], it) \in Slots
<1>1. QueuesTyped /\ NetTyped /\ HostsTyped /\ TagsTyped
  BY DEF Typed
<1>2. CASE \E f \in ReqQ, n \in Node : x = AtNode(f, n)
  <2>1. PICK f \in ReqQ, n \in Node : x = AtNode(f, n)
    BY <1>2
  <2>2. Held(x) = q[n][f] /\ x[1] = f
    BY <2>1, HeldIs DEF BoxQ
  <2>3. CASE f = "locCmdInQ" \/ f = "remCmdOutQ"
    <3>1. q[n][f] \in Seq(HostCmd)
      <4>1. To(n, HostCmd) \subseteq HostCmd
        BY DEF To
      <4> QED BY <1>1, <2>3, <4>1, QueueTypes, SeqWider
    <3>2. \A it \in HostCmd : SlotIn(f, it) \in Slots
      BY <2>3 DEF HostCmd, SlotIn
    <3> QED BY <2>2, <3>1, <3>2
  <2>4. CASE f = "locCmdOutQ"
    <3>1. q[n][f] \in Seq(FlashCmd)
      BY <1>1, <2>4, QueueTypes
    <3>2. \A it \in FlashCmd : SlotIn(f, it) \in Slots
      BY <2>4 DEF FlashCmd, SlotIn
    <3> QED BY <2>2, <3>1, <3>2
  <2>5. CASE f = "locAckInQ"
    <3>1. q[n][f] \in Seq(AckIn)
      BY <1>1, <2>5, QueueTypes
    <3>2. \A it \in AckIn : SlotIn(f, it) \in Slots
      BY <2>5 DEF AckIn, SlotIn
    <3> QED BY <2>2, <3>1, <3>2
  <2>6. CASE f = "remAckOutQ" \/ f = "locAckOutQ"
    <3>1. q[n][f] \in Seq(Ack)
      <4>1. To(n, Ack) \subseteq Ack
        BY DEF To
      <4> QED BY <1>1, <2>6, <4>1, QueueTypes, SeqWider
    <3>2. \A it \in Ack : SlotIn(f, it) \in Slots
      BY <2>6 DEF Ack, SlotIn
    <3> QED BY <2>2, <3>1, <3>2
  <2> QED BY <2>3, <2>4, <2>5, <2>6 DEF ReqQ
<1>3. CASE \E n \in Node : x = AtNode("host", n)
  <2>1. PICK n \in Node : x = AtNode("host", n)
    BY <1>3
  <2>2. Held(x) = flashCmdQ[n] /\ x[1] = "host"
    BY <2>1, HeldIs
  <2>3. flashCmdQ[n] \in Seq(HostCmd)
    BY <1>1 DEF HostsTyped
  <2>4. \A it \in HostCmd : SlotIn("host", it) \in Slots
    BY DEF HostCmd, SlotIn
  <2> QED BY <2>2, <2>3, <2>4
<1>4. CASE \E n \in Node, t \in Tag : x = <<"ctrl", n, t>>
  <2>1. PICK n \in Node, t \in Tag : x = <<"ctrl", n, t>>
    BY <1>4
  <2>2. Held(x) = InCtrl(ctrl[n][t]) /\ x[1] = "ctrl"
    BY <2>1, HeldIs
  <2>3. ctrl[n][t] \in {Free} \cup Work
    BY <1>1 DEF TagsTyped
  <2>4. InCtrl(ctrl[n][t]) \in Seq(Work)
    BY <2>3 DEF InCtrl
  <2>5. \A it \in Work : SlotIn("ctrl", it) \in Slots
    BY DEF Work, SlotIn
  <2> QED BY <2>2, <2>4, <2>5
<1>5. CASE \E c \in {"cmd", "ack"}, a, b \in Node : x = <<c, a, b>>
  <2>1. PICK c \in {"cmd", "ack"}, a \in Node, b \in Node : x = <<c, a, b>>
    BY <1>5
  <2>2. c \in Class /\ x[1] = c
    BY <2>1 DEF Class
  <2>3. Held(x) = net[c][<<a, b>>] /\ net[c][<<a, b>>] \in Seq(MessagesTo(b)[c])
    BY <1>1, <2>1, <2>2, HeldIs DEF NetTyped
  <2>4. CASE c = "cmd"
    <3>1. \A it \in MessagesTo(b)[c] : SlotIn(c, it) \in Slots
      BY <2>4 DEF MessagesTo, To, HostCmd, SlotIn
    <3> QED BY <2>2, <2>3, <3>1
  <2>5. CASE c = "ack"
    <3>1. \A it \in MessagesTo(b)[c] : SlotIn(c, it) \in Slots
      BY <2>5 DEF MessagesTo, To, Ack, SlotIn
    <3> QED BY <2>2, <2>3, <3>1
  <2> QED BY <2>1, <2>4, <2>5
<1> QED BY <1>2, <1>3, <1>4, <1>5, Families

\* Words: those on their way to a host are of pages to be read.
ReadWord == {w \in AnyWord : w.page[2] = "read"}

\* Words are words, wherever they are.
LEMMA WordTypes ==
  ASSUME Typed, NEW x \in WordBox
  PROVE  Held(x) \in Seq(AnyWord) /\ (x \notin WrBox => Held(x) \in Seq(ReadWord))
<1>1. QueuesTyped /\ NetTyped
  BY DEF Typed
<1>2. \A n \in Node : /\ To(n, HostWord) \subseteq ReadWord /\ HostWord \subseteq ReadWord
                      /\ RdWord \subseteq ReadWord /\ WrWord \subseteq AnyWord
                      /\ To(n, WrWord) \subseteq AnyWord /\ ReadWord \subseteq AnyWord
  BY SizeAssumption DEF To, HostWord, RdWord, WrWord, AnyWord, ReadWord, SlotOf, Tag
<1>3. CASE \E f \in ReadQ \cup WrQ, n \in Node : x = AtNode(f, n)
  <2>1. PICK f \in ReadQ \cup WrQ, n \in Node : x = AtNode(f, n)
    BY <1>3
  <2>2. Held(x) = q[n][f] /\ x[1] = f /\ x \in Box
    BY <2>1, HeldIs DEF BoxQ
  <2>3. CASE f \in WrQ
    <3>1. x \in WrBox
      BY <2>2, <2>3 DEF WrBox, BoxOf
    <3>2. CASE f = "locWdataOutQ"
      <4>1. q[n][f] \in Seq(To(n, WrWord))
        BY <1>1, <3>2, QueueTypes
      <4>2. q[n][f] \in Seq(AnyWord)
        BY <1>2, <4>1, SeqWider
      <4> QED BY <2>2, <3>1, <4>2
    <3>3. CASE f # "locWdataOutQ"
      <4>1. q[n][f] \in Seq(WrWord)
        BY <1>1, <2>3, <3>3, QueueTypes DEF WrQ
      <4>2. q[n][f] \in Seq(AnyWord)
        BY <1>2, <4>1, SeqWider
      <4> QED BY <2>2, <3>1, <4>2
    <3> QED BY <3>2, <3>3
  <2>4. CASE f \in ReadQ
    <3>1. CASE f = "locRdInQ"
      <4>1. q[n][f] \in Seq(RdWord)
        BY <1>1, <3>1, QueueTypes
      <4>2. q[n][f] \in Seq(ReadWord)
        BY <1>2, <4>1, SeqWider
      <4>3. q[n][f] \in Seq(AnyWord)
        BY <1>2, <4>2, SeqWider
      <4> QED BY <2>2, <4>2, <4>3
    <3>2. CASE f = "remRdOutQ"
      <4>1. q[n][f] \in Seq(HostWord)
        BY <1>1, <3>2, QueueTypes
      <4>2. q[n][f] \in Seq(ReadWord)
        BY <1>2, <4>1, SeqWider
      <4>3. q[n][f] \in Seq(AnyWord)
        BY <1>2, <4>2, SeqWider
      <4> QED BY <2>2, <4>2, <4>3
    <3>3. CASE f = "remRdInQ" \/ f = "locRdOutQ"
      <4>1. q[n][f] \in Seq(To(n, HostWord))
        BY <1>1, <3>3, QueueTypes
      <4>2. q[n][f] \in Seq(ReadWord)
        BY <1>2, <4>1, SeqWider
      <4>3. q[n][f] \in Seq(AnyWord)
        BY <1>2, <4>2, SeqWider
      <4> QED BY <2>2, <4>2, <4>3
    <3> QED BY <2>4, <3>1, <3>2, <3>3 DEF ReadQ
  <2> QED BY <2>1, <2>3, <2>4
<1>4. CASE \E c \in {"rd", "wd"}, a, b \in Node : x = <<c, a, b>>
  <2>1. PICK c \in {"rd", "wd"}, a \in Node, b \in Node : x = <<c, a, b>>
    BY <1>4
  <2>2. c \in Class /\ x[1] = c /\ x \in Box
    BY <2>1, HeldIs DEF Class
  <2>3. Held(x) = net[c][<<a, b>>] /\ net[c][<<a, b>>] \in Seq(MessagesTo(b)[c])
    BY <1>1, <2>1, <2>2, HeldIs DEF NetTyped
  <2>4. CASE c = "rd"
    <3>1. MessagesTo(b)[c] = To(b, HostWord)
      BY <2>4 DEF MessagesTo
    <3>2. Held(x) \in Seq(To(b, HostWord))
      BY <2>3, <3>1
    <3>3. Held(x) \in Seq(ReadWord)
      BY <1>2, <3>2, SeqWider
    <3>4. Held(x) \in Seq(AnyWord)
      BY <1>2, <3>3, SeqWider
    <3> QED BY <3>3, <3>4
  <2>5. CASE c = "wd"
    <3>1. MessagesTo(b)[c] = To(b, WrWord)
      BY <2>5 DEF MessagesTo
    <3>2. Held(x) \in Seq(To(b, WrWord))
      BY <2>3, <3>1
    <3>3. Held(x) \in Seq(AnyWord)
      BY <1>2, <3>2, SeqWider
    <3>4. x \in WrBox
      BY <2>2, <2>5 DEF WrBox, BoxOf
    <3> QED BY <3>3, <3>4
  <2> QED BY <2>1, <2>4, <2>5
<1> QED BY <1>3, <1>4, Families

\* Write data requests have a job, wherever they are.
LEMMA JobTypes ==
  ASSUME Typed, NEW x \in WreqBox
  PROVE  \E A : Held(x) \in Seq(A) /\ \A it \in A : JobOf(x, it) \in Token
<1>1. QueuesTyped /\ NetTyped /\ HostsTyped
  BY DEF Typed
<1>2. CASE \E f \in WreqQ, n \in Node : x = AtNode(f, n)
  <2>1. PICK f \in WreqQ, n \in Node : x = AtNode(f, n)
    BY <1>2
  <2>2. Held(x) = q[n][f] /\ x[1] = f /\ x[2] = n
    BY <2>1, HeldIs DEF BoxQ, AtNode
  <2>3. CASE f = "locWreqInQ"
    <3>1. q[n][f] \in Seq(WreqIn)
      BY <1>1, <2>3, QueueTypes
    <3>2. \A it \in WreqIn : JobOf(x, it) \in Token
      BY <2>2, <2>3 DEF WreqIn, JobOf, Token
    <3> QED BY <2>2, <3>1, <3>2
  <2>4. CASE f # "locWreqInQ"
    <3>1. q[n][f] \in Seq(Wreq)
      <4>1. To(n, Wreq) \subseteq Wreq
        BY DEF To
      <4>2. CASE f = "locWreqOutQ"
        BY <1>1, <4>1, <4>2, QueueTypes, SeqWider
      <4>3. CASE f = "remWreqOutQ"
        BY <1>1, <4>3, QueueTypes
      <4> QED BY <2>1, <2>4, <4>2, <4>3 DEF WreqQ
    <3>2. \A it \in Wreq : JobOf(x, it) \in Token
      BY <2>2, <2>4 DEF Wreq, JobOf, Token
    <3> QED BY <2>2, <3>1, <3>2
  <2> QED BY <2>3, <2>4
<1>3. CASE \E n \in Node, p \in Eng : x = <<"job", n, p>>
  <2>1. PICK n \in Node, p \in Eng : x = <<"job", n, p>>
    BY <1>3
  <2>2. Held(x) = job[n][p] /\ x[1] = "job"
    BY <2>1, HeldIs
  <2>3. job[n][p] \in Seq(Wreq)
    BY <1>1 DEF HostsTyped
  <2>4. \A it \in Wreq : JobOf(x, it) \in Token
    BY <2>2 DEF Wreq, JobOf, Token
  <2> QED BY <2>2, <2>3, <2>4
<1>4. CASE \E a, b \in Node : x = <<"wreq", a, b>>
  <2>1. PICK a \in Node, b \in Node : x = <<"wreq", a, b>>
    BY <1>4
  <2>2. "wreq" \in Class /\ x[1] = "wreq"
    BY <2>1 DEF Class
  <2>3. Held(x) = net["wreq"][<<a, b>>] /\ net["wreq"][<<a, b>>] \in Seq(MessagesTo(b)["wreq"])
    BY <1>1, <2>1, <2>2, HeldIs DEF NetTyped
  <2>4. \A it \in MessagesTo(b)["wreq"] : JobOf(x, it) \in Token
    BY <2>2 DEF MessagesTo, To, Wreq, JobOf, Token
  <2> QED BY <2>3, <2>4
<1> QED BY <1>2, <1>3, <1>4, Families

-----------------------------------------------------------------------------
\* The slots of requests as their boxes change.
LEMMA ReqView ==
  ASSUME Typed
  PROVE  /\ ReqAt \in [ReqBox -> Seq(Slots)]
         /\ \A x \in ReqBox :
              /\ ReqAt[x] = SlotsIn(x[1], Held(x))
              /\ Held(x) # << >> <=> ReqAt[x] # << >>
              /\ Held(x) # << >> => Head(ReqAt[x]) = SlotIn(x[1], Head(Held(x)))
         /\ StaysIn(ReqBox) => ReqAt' = ReqAt
         /\ \A x, y, v : MovesIn(ReqBox, x, y, v) /\ SlotIn(y[1], v) = SlotIn(x[1], Head(Held(x))) =>
              /\ ReqAt' \in [ReqBox -> Seq(Slots)]
              /\ Passes(ReqAt, ReqAt', ReqBox, x, y, Head(ReqAt[x]))
         /\ \A x : TakesIn(ReqBox, x) =>
              ReqAt' \in [ReqBox -> Seq(Slots)] /\ Leaves(ReqAt, ReqAt', ReqBox, x)
         /\ \A y, v : PutsIn(ReqBox, y, v) /\ SlotIn(y[1], v) \in Slots =>
              /\ ReqAt' \in [ReqBox -> Seq(Slots)]
              /\ Joins(ReqAt, ReqAt', ReqBox, y, SlotIn(y[1], v))
<1>1. \A x \in ReqBox : ReqAt[x] = SlotsIn(x[1], Held(x)) /\ ReqAt'[x] = SlotsIn(x[1], Held(x)')
  BY DEF ReqAt
<1>2. ASSUME NEW x \in ReqBox
      PROVE  /\ ReqAt[x] \in Seq(Slots)
             /\ Held(x) # << >> <=> ReqAt[x] # << >>
             /\ Held(x) # << >> => /\ Head(ReqAt[x]) = SlotIn(x[1], Head(Held(x)))
                                   /\ SlotsIn(x[1], Tail(Held(x))) = Tail(ReqAt[x])
             /\ \A v : SlotsIn(x[1], Append(Held(x), v)) = Append(ReqAt[x], SlotIn(x[1], v))
  <2>1. PICK A : Held(x) \in Seq(A) /\ \A it \in A : SlotIn(x[1], it) \in Slots
    BY ReqTypes
  <2>2. PICK s, f : s = Held(x) /\ f = x[1]
    OBVIOUS
  <2>3. s \in Seq(A) /\ \A it \in A : SlotIn(f, it) \in Slots
    BY <2>1, <2>2
  <2>4. /\ SlotsIn(f, s) \in Seq(Slots)
        /\ s # << >> => /\ SlotsIn(f, s) # << >> /\ Head(SlotsIn(f, s)) = SlotIn(f, Head(s))
                        /\ SlotsIn(f, Tail(s)) = Tail(SlotsIn(f, s))
        /\ \A v : SlotsIn(f, Append(s, v)) = Append(SlotsIn(f, s), SlotIn(f, v))
    BY <2>3, SlotsSteps
  <2>5. s = << >> => SlotsIn(f, s) = << >>
    BY DEF SlotsIn
  <2>6. ReqAt[x] = SlotsIn(f, s)
    BY <1>1, <2>2
  <2> QED BY <2>2, <2>4, <2>5, <2>6
<1>3. ReqAt \in [ReqBox -> Seq(Slots)]
  <2>1. ReqAt = [x \in ReqBox |-> SlotsIn(x[1], Held(x))]
    BY DEF ReqAt
  <2> QED BY <1>1, <1>2, <2>1
<1>4. ASSUME \A x \in ReqBox : ReqAt'[x] \in Seq(Slots) PROVE ReqAt' \in [ReqBox -> Seq(Slots)]
  <2>1. ReqAt' = [x \in ReqBox |-> SlotsIn(x[1], Held(x)')]
    BY DEF ReqAt
  <2> QED BY <1>1, <1>4, <2>1
<1>5. ASSUME StaysIn(ReqBox) PROVE ReqAt' = ReqAt
  <2>1. ReqAt' = [x \in ReqBox |-> SlotsIn(x[1], Held(x)')] /\ ReqAt = [x \in ReqBox |-> SlotsIn(x[1], Held(x))]
    BY DEF ReqAt
  <2>2. \A x \in ReqBox : Held(x)' = Held(x)
    BY <1>5 DEF StaysIn
  <2> QED BY <2>1, <2>2
<1>6. ASSUME NEW x, NEW y, NEW v, MovesIn(ReqBox, x, y, v),
             SlotIn(y[1], v) = SlotIn(x[1], Head(Held(x)))
      PROVE  /\ ReqAt' \in [ReqBox -> Seq(Slots)]
             /\ Passes(ReqAt, ReqAt', ReqBox, x, y, Head(ReqAt[x]))
  <2>1. x \in ReqBox /\ y \in ReqBox /\ x # y /\ Held(x) # << >>
    BY <1>6 DEF MovesIn
  <2>2. Held(x)' = Tail(Held(x)) /\ Held(y)' = Append(Held(y), v)
    BY <1>6 DEF MovesIn
  <2>3. ReqAt'[x] = Tail(ReqAt[x]) /\ ReqAt[x] # << >>
    BY <1>1, <1>2, <2>1, <2>2
  <2>4. ReqAt'[y] = Append(ReqAt[y], Head(ReqAt[x]))
    <3>1. ReqAt'[y] = SlotsIn(y[1], Append(Held(y), v))
      BY <1>1, <2>1, <2>2
    <3>2. SlotsIn(y[1], Append(Held(y), v)) = Append(ReqAt[y], SlotIn(y[1], v))
      BY <1>2, <2>1
    <3>3. Head(ReqAt[x]) = SlotIn(x[1], Head(Held(x)))
      BY <1>2, <2>1
    <3> QED BY <1>6, <3>1, <3>2, <3>3
  <2>5. SameButTwo(ReqAt, ReqAt', ReqBox, x, y)
    <3> SUFFICES ASSUME NEW z \in ReqBox, z # x, z # y PROVE ReqAt'[z] = ReqAt[z]
      BY DEF SameButTwo
    <3>1. Held(z)' = Held(z)
      BY <1>6 DEF MovesIn
    <3> QED BY <1>1, <3>1
  <2>6. \A z \in ReqBox : ReqAt'[z] \in Seq(Slots)
    <3>1. ReqAt[x] \in Seq(Slots) /\ ReqAt[y] \in Seq(Slots)
      BY <1>2, <2>1
    <3>2. ReqAt'[x] \in Seq(Slots) /\ ReqAt'[y] \in Seq(Slots)
      BY <2>3, <2>4, <3>1
    <3>3. \A z \in ReqBox : z # x /\ z # y => ReqAt'[z] \in Seq(Slots)
      BY <1>2, <2>5 DEF SameButTwo
    <3> QED BY <3>2, <3>3
  <2> QED BY <1>4, <2>1, <2>3, <2>4, <2>5, <2>6 DEF Passes
<1>7. ASSUME NEW x, TakesIn(ReqBox, x)
      PROVE  ReqAt' \in [ReqBox -> Seq(Slots)] /\ Leaves(ReqAt, ReqAt', ReqBox, x)
  <2>1. x \in ReqBox /\ Held(x) # << >> /\ Held(x)' = Tail(Held(x))
    BY <1>7 DEF TakesIn
  <2>2. ReqAt'[x] = Tail(ReqAt[x]) /\ ReqAt[x] # << >> /\ ReqAt[x] \in Seq(Slots)
    BY <1>1, <1>2, <2>1
  <2>3. SameBut(ReqAt, ReqAt', ReqBox, x)
    <3> SUFFICES ASSUME NEW z \in ReqBox, z # x PROVE ReqAt'[z] = ReqAt[z]
      BY DEF SameBut
    <3>1. Held(z)' = Held(z)
      BY <1>7 DEF TakesIn
    <3> QED BY <1>1, <3>1
  <2>4. \A z \in ReqBox : ReqAt'[z] \in Seq(Slots)
    <3>1. ReqAt'[x] \in Seq(Slots)
      BY <2>2
    <3>2. \A z \in ReqBox : z # x => ReqAt'[z] \in Seq(Slots)
      BY <1>2, <2>3 DEF SameBut
    <3> QED BY <3>1, <3>2
  <2> QED BY <1>4, <2>1, <2>2, <2>3, <2>4 DEF Leaves
<1>8. ASSUME NEW y, NEW v, PutsIn(ReqBox, y, v), SlotIn(y[1], v) \in Slots
      PROVE  /\ ReqAt' \in [ReqBox -> Seq(Slots)]
             /\ Joins(ReqAt, ReqAt', ReqBox, y, SlotIn(y[1], v))
  <2>1. y \in ReqBox /\ Held(y)' = Append(Held(y), v)
    BY <1>8 DEF PutsIn
  <2>2. ReqAt'[y] = Append(ReqAt[y], SlotIn(y[1], v)) /\ ReqAt[y] \in Seq(Slots)
    <3>1. ReqAt'[y] = SlotsIn(y[1], Append(Held(y), v))
      BY <1>1, <2>1
    <3> QED BY <1>2, <2>1, <3>1
  <2>3. SameBut(ReqAt, ReqAt', ReqBox, y)
    <3> SUFFICES ASSUME NEW z \in ReqBox, z # y PROVE ReqAt'[z] = ReqAt[z]
      BY DEF SameBut
    <3>1. Held(z)' = Held(z)
      BY <1>8 DEF PutsIn
    <3> QED BY <1>1, <3>1
  <2>4. \A z \in ReqBox : ReqAt'[z] \in Seq(Slots)
    <3>1. ReqAt'[y] \in Seq(Slots)
      BY <1>8, <2>2
    <3>2. \A z \in ReqBox : z # y => ReqAt'[z] \in Seq(Slots)
      BY <1>2, <2>3 DEF SameBut
    <3> QED BY <3>1, <3>2
  <2> QED BY <1>4, <2>1, <2>2, <2>3, <2>4 DEF Joins
<1>9. ASSUME NEW x \in ReqBox
      PROVE  /\ ReqAt[x] = SlotsIn(x[1], Held(x))
             /\ Held(x) # << >> <=> ReqAt[x] # << >>
             /\ Held(x) # << >> => Head(ReqAt[x]) = SlotIn(x[1], Head(Held(x)))
  BY <1>1, <1>2
<1> QED BY <1>3, <1>5, <1>6, <1>7, <1>8, <1>9

\* The jobs of write data requests as their boxes change.
LEMMA JobView ==
  ASSUME Typed
  PROVE  /\ JobAt \in [WreqBox -> Seq(Token)]
         /\ \A x \in WreqBox :
              /\ JobAt[x] = JobsIn(x, Held(x))
              /\ Held(x) # << >> <=> JobAt[x] # << >>
              /\ Held(x) # << >> => Head(JobAt[x]) = JobOf(x, Head(Held(x)))
         /\ StaysIn(WreqBox) => JobAt' = JobAt
         /\ \A x, y, v : MovesIn(WreqBox, x, y, v) /\ JobOf(y, v) = JobOf(x, Head(Held(x))) =>
              /\ JobAt' \in [WreqBox -> Seq(Token)]
              /\ Passes(JobAt, JobAt', WreqBox, x, y, Head(JobAt[x]))
         /\ \A x : TakesIn(WreqBox, x) =>
              JobAt' \in [WreqBox -> Seq(Token)] /\ Leaves(JobAt, JobAt', WreqBox, x)
         /\ \A y, v : PutsIn(WreqBox, y, v) /\ JobOf(y, v) \in Token =>
              /\ JobAt' \in [WreqBox -> Seq(Token)]
              /\ Joins(JobAt, JobAt', WreqBox, y, JobOf(y, v))
<1>1. \A x \in WreqBox : JobAt[x] = JobsIn(x, Held(x)) /\ JobAt'[x] = JobsIn(x, Held(x)')
  BY DEF JobAt
<1>2. ASSUME NEW x \in WreqBox
      PROVE  /\ JobAt[x] \in Seq(Token)
             /\ Held(x) # << >> <=> JobAt[x] # << >>
             /\ Held(x) # << >> => /\ Head(JobAt[x]) = JobOf(x, Head(Held(x)))
                                   /\ JobsIn(x, Tail(Held(x))) = Tail(JobAt[x])
             /\ \A v : JobsIn(x, Append(Held(x), v)) = Append(JobAt[x], JobOf(x, v))
  <2>1. PICK A : Held(x) \in Seq(A) /\ \A it \in A : JobOf(x, it) \in Token
    BY JobTypes
  <2>2. PICK s, f : s = Held(x) /\ f = x
    OBVIOUS
  <2>3. s \in Seq(A) /\ \A it \in A : JobOf(f, it) \in Token
    BY <2>1, <2>2
  <2>4. /\ JobsIn(f, s) \in Seq(Token)
        /\ s # << >> => /\ JobsIn(f, s) # << >> /\ Head(JobsIn(f, s)) = JobOf(f, Head(s))
                        /\ JobsIn(f, Tail(s)) = Tail(JobsIn(f, s))
        /\ \A v : JobsIn(f, Append(s, v)) = Append(JobsIn(f, s), JobOf(f, v))
    BY <2>3, JobsSteps
  <2>5. s = << >> => JobsIn(f, s) = << >>
    BY DEF JobsIn
  <2>6. JobAt[x] = JobsIn(f, s)
    BY <1>1, <2>2
  <2> QED BY <2>2, <2>4, <2>5, <2>6
<1>3. JobAt \in [WreqBox -> Seq(Token)]
  <2>1. JobAt = [x \in WreqBox |-> JobsIn(x, Held(x))]
    BY DEF JobAt
  <2> QED BY <1>1, <1>2, <2>1
<1>4. ASSUME \A x \in WreqBox : JobAt'[x] \in Seq(Token) PROVE JobAt' \in [WreqBox -> Seq(Token)]
  <2>1. JobAt' = [x \in WreqBox |-> JobsIn(x, Held(x)')]
    BY DEF JobAt
  <2> QED BY <1>1, <1>4, <2>1
<1>5. ASSUME StaysIn(WreqBox) PROVE JobAt' = JobAt
  <2>1. JobAt' = [x \in WreqBox |-> JobsIn(x, Held(x)')] /\ JobAt = [x \in WreqBox |-> JobsIn(x, Held(x))]
    BY DEF JobAt
  <2>2. \A x \in WreqBox : Held(x)' = Held(x)
    BY <1>5 DEF StaysIn
  <2> QED BY <2>1, <2>2
<1>6. ASSUME NEW x, NEW y, NEW v, MovesIn(WreqBox, x, y, v),
             JobOf(y, v) = JobOf(x, Head(Held(x)))
      PROVE  /\ JobAt' \in [WreqBox -> Seq(Token)]
             /\ Passes(JobAt, JobAt', WreqBox, x, y, Head(JobAt[x]))
  <2>1. x \in WreqBox /\ y \in WreqBox /\ x # y /\ Held(x) # << >>
    BY <1>6 DEF MovesIn
  <2>2. Held(x)' = Tail(Held(x)) /\ Held(y)' = Append(Held(y), v)
    BY <1>6 DEF MovesIn
  <2>3. JobAt'[x] = Tail(JobAt[x]) /\ JobAt[x] # << >>
    BY <1>1, <1>2, <2>1, <2>2
  <2>4. JobAt'[y] = Append(JobAt[y], Head(JobAt[x]))
    <3>1. JobAt'[y] = JobsIn(y, Append(Held(y), v))
      BY <1>1, <2>1, <2>2
    <3>2. JobsIn(y, Append(Held(y), v)) = Append(JobAt[y], JobOf(y, v))
      BY <1>2, <2>1
    <3>3. Head(JobAt[x]) = JobOf(x, Head(Held(x)))
      BY <1>2, <2>1
    <3> QED BY <1>6, <3>1, <3>2, <3>3
  <2>5. SameButTwo(JobAt, JobAt', WreqBox, x, y)
    <3> SUFFICES ASSUME NEW z \in WreqBox, z # x, z # y PROVE JobAt'[z] = JobAt[z]
      BY DEF SameButTwo
    <3>1. Held(z)' = Held(z)
      BY <1>6 DEF MovesIn
    <3> QED BY <1>1, <3>1
  <2>6. \A z \in WreqBox : JobAt'[z] \in Seq(Token)
    <3>1. JobAt[x] \in Seq(Token) /\ JobAt[y] \in Seq(Token)
      BY <1>2, <2>1
    <3>2. JobAt'[x] \in Seq(Token) /\ JobAt'[y] \in Seq(Token)
      BY <2>3, <2>4, <3>1
    <3>3. \A z \in WreqBox : z # x /\ z # y => JobAt'[z] \in Seq(Token)
      BY <1>2, <2>5 DEF SameButTwo
    <3> QED BY <3>2, <3>3
  <2> QED BY <1>4, <2>1, <2>3, <2>4, <2>5, <2>6 DEF Passes
<1>7. ASSUME NEW x, TakesIn(WreqBox, x)
      PROVE  JobAt' \in [WreqBox -> Seq(Token)] /\ Leaves(JobAt, JobAt', WreqBox, x)
  <2>1. x \in WreqBox /\ Held(x) # << >> /\ Held(x)' = Tail(Held(x))
    BY <1>7 DEF TakesIn
  <2>2. JobAt'[x] = Tail(JobAt[x]) /\ JobAt[x] # << >> /\ JobAt[x] \in Seq(Token)
    BY <1>1, <1>2, <2>1
  <2>3. SameBut(JobAt, JobAt', WreqBox, x)
    <3> SUFFICES ASSUME NEW z \in WreqBox, z # x PROVE JobAt'[z] = JobAt[z]
      BY DEF SameBut
    <3>1. Held(z)' = Held(z)
      BY <1>7 DEF TakesIn
    <3> QED BY <1>1, <3>1
  <2>4. \A z \in WreqBox : JobAt'[z] \in Seq(Token)
    <3>1. JobAt'[x] \in Seq(Token)
      BY <2>2
    <3>2. \A z \in WreqBox : z # x => JobAt'[z] \in Seq(Token)
      BY <1>2, <2>3 DEF SameBut
    <3> QED BY <3>1, <3>2
  <2> QED BY <1>4, <2>1, <2>2, <2>3, <2>4 DEF Leaves
<1>8. ASSUME NEW y, NEW v, PutsIn(WreqBox, y, v), JobOf(y, v) \in Token
      PROVE  /\ JobAt' \in [WreqBox -> Seq(Token)]
             /\ Joins(JobAt, JobAt', WreqBox, y, JobOf(y, v))
  <2>1. y \in WreqBox /\ Held(y)' = Append(Held(y), v)
    BY <1>8 DEF PutsIn
  <2>2. JobAt'[y] = Append(JobAt[y], JobOf(y, v)) /\ JobAt[y] \in Seq(Token)
    <3>1. JobAt'[y] = JobsIn(y, Append(Held(y), v))
      BY <1>1, <2>1
    <3> QED BY <1>2, <2>1, <3>1
  <2>3. SameBut(JobAt, JobAt', WreqBox, y)
    <3> SUFFICES ASSUME NEW z \in WreqBox, z # y PROVE JobAt'[z] = JobAt[z]
      BY DEF SameBut
    <3>1. Held(z)' = Held(z)
      BY <1>8 DEF PutsIn
    <3> QED BY <1>1, <3>1
  <2>4. \A z \in WreqBox : JobAt'[z] \in Seq(Token)
    <3>1. JobAt'[y] \in Seq(Token)
      BY <1>8, <2>2
    <3>2. \A z \in WreqBox : z # y => JobAt'[z] \in Seq(Token)
      BY <1>2, <2>3 DEF SameBut
    <3> QED BY <3>1, <3>2
  <2> QED BY <1>4, <2>1, <2>2, <2>3, <2>4 DEF Joins
<1>9. ASSUME NEW x \in WreqBox
      PROVE  /\ JobAt[x] = JobsIn(x, Held(x))
             /\ Held(x) # << >> <=> JobAt[x] # << >>
             /\ Held(x) # << >> => Head(JobAt[x]) = JobOf(x, Head(Held(x)))
  BY <1>1, <1>2
<1> QED BY <1>3, <1>5, <1>6, <1>7, <1>8, <1>9

\* The words as their boxes change.
LEMMA WordView ==
  ASSUME Typed
  PROVE  /\ WordAt \in [WordBox -> Seq(AnyWord)] /\ \A x \in WordBox : WordAt[x] = Held(x)
         /\ StaysIn(WordBox) => WordAt' = WordAt
         /\ \A x, y, v : MovesIn(WordBox, x, y, v) /\ v \in AnyWord =>
              WordAt' \in [WordBox -> Seq(AnyWord)] /\ Passes(WordAt, WordAt', WordBox, x, y, v)
         /\ \A x : TakesIn(WordBox, x) =>
              WordAt' \in [WordBox -> Seq(AnyWord)] /\ Leaves(WordAt, WordAt', WordBox, x)
         /\ \A y, v : PutsIn(WordBox, y, v) /\ v \in AnyWord =>
              WordAt' \in [WordBox -> Seq(AnyWord)] /\ Joins(WordAt, WordAt', WordBox, y, v)
<1>1. \A x \in WordBox : WordAt[x] = Held(x) /\ WordAt'[x] = Held(x)' /\ WordAt[x] \in Seq(AnyWord)
  BY WordTypes DEF WordAt
<1>2. WordAt = [x \in WordBox |-> Held(x)] /\ WordAt' = [x \in WordBox |-> Held(x)']
  BY DEF WordAt
<1>3. WordAt \in [WordBox -> Seq(AnyWord)]
  BY <1>1, <1>2
<1>4. ASSUME \A x \in WordBox : WordAt'[x] \in Seq(AnyWord)
      PROVE  WordAt' \in [WordBox -> Seq(AnyWord)]
  BY <1>1, <1>2, <1>4
<1>5. ASSUME StaysIn(WordBox) PROVE WordAt' = WordAt
  BY <1>2, <1>5 DEF StaysIn
<1>6. ASSUME NEW x, NEW y, NEW v, MovesIn(WordBox, x, y, v), v \in AnyWord
      PROVE  WordAt' \in [WordBox -> Seq(AnyWord)] /\ Passes(WordAt, WordAt', WordBox, x, y, v)
  <2>1. x \in WordBox /\ y \in WordBox /\ x # y /\ Held(x) # << >>
    BY <1>6 DEF MovesIn
  <2>2. Held(x)' = Tail(Held(x)) /\ Held(y)' = Append(Held(y), v)
    BY <1>6 DEF MovesIn
  <2>3. WordAt'[x] = Tail(WordAt[x]) /\ WordAt[x] # << >> /\ WordAt'[y] = Append(WordAt[y], v)
        /\ WordAt[x] \in Seq(AnyWord) /\ WordAt[y] \in Seq(AnyWord)
    BY <1>1, <2>1, <2>2
  <2>4. SameButTwo(WordAt, WordAt', WordBox, x, y)
    <3> SUFFICES ASSUME NEW z \in WordBox, z # x, z # y PROVE WordAt'[z] = WordAt[z]
      BY DEF SameButTwo
    <3>1. Held(z)' = Held(z)
      BY <1>6 DEF MovesIn
    <3> QED BY <1>1, <3>1
  <2>5. \A z \in WordBox : WordAt'[z] \in Seq(AnyWord)
    <3>1. WordAt'[x] \in Seq(AnyWord) /\ WordAt'[y] \in Seq(AnyWord)
      BY <1>6, <2>3
    <3>2. \A z \in WordBox : z # x /\ z # y => WordAt'[z] \in Seq(AnyWord)
      BY <1>1, <2>4 DEF SameButTwo
    <3> QED BY <3>1, <3>2
  <2> QED BY <1>4, <2>1, <2>3, <2>4, <2>5 DEF Passes
<1>7. ASSUME NEW x, TakesIn(WordBox, x)
      PROVE  WordAt' \in [WordBox -> Seq(AnyWord)] /\ Leaves(WordAt, WordAt', WordBox, x)
  <2>1. x \in WordBox /\ Held(x) # << >> /\ Held(x)' = Tail(Held(x))
    BY <1>7 DEF TakesIn
  <2>2. WordAt'[x] = Tail(WordAt[x]) /\ WordAt[x] # << >> /\ WordAt[x] \in Seq(AnyWord)
    BY <1>1, <2>1
  <2>3. SameBut(WordAt, WordAt', WordBox, x)
    <3> SUFFICES ASSUME NEW z \in WordBox, z # x PROVE WordAt'[z] = WordAt[z]
      BY DEF SameBut
    <3>1. Held(z)' = Held(z)
      BY <1>7 DEF TakesIn
    <3> QED BY <1>1, <3>1
  <2>4. \A z \in WordBox : WordAt'[z] \in Seq(AnyWord)
    <3>1. WordAt'[x] \in Seq(AnyWord)
      BY <2>2
    <3>2. \A z \in WordBox : z # x => WordAt'[z] \in Seq(AnyWord)
      BY <1>1, <2>3 DEF SameBut
    <3> QED BY <3>1, <3>2
  <2> QED BY <1>4, <2>1, <2>2, <2>3, <2>4 DEF Leaves
<1>8. ASSUME NEW y, NEW v, PutsIn(WordBox, y, v), v \in AnyWord
      PROVE  WordAt' \in [WordBox -> Seq(AnyWord)] /\ Joins(WordAt, WordAt', WordBox, y, v)
  <2>1. y \in WordBox /\ Held(y)' = Append(Held(y), v)
    BY <1>8 DEF PutsIn
  <2>2. WordAt'[y] = Append(WordAt[y], v) /\ WordAt[y] \in Seq(AnyWord)
    BY <1>1, <2>1
  <2>3. SameBut(WordAt, WordAt', WordBox, y)
    <3> SUFFICES ASSUME NEW z \in WordBox, z # y PROVE WordAt'[z] = WordAt[z]
      BY DEF SameBut
    <3>1. Held(z)' = Held(z)
      BY <1>8 DEF PutsIn
    <3> QED BY <1>1, <3>1
  <2>4. \A z \in WordBox : WordAt'[z] \in Seq(AnyWord)
    <3>1. WordAt'[y] \in Seq(AnyWord)
      BY <1>8, <2>2
    <3>2. \A z \in WordBox : z # y => WordAt'[z] \in Seq(AnyWord)
      BY <1>1, <2>3 DEF SameBut
    <3> QED BY <3>1, <3>2
  <2> QED BY <1>4, <2>1, <2>2, <2>3, <2>4 DEF Joins
<1> QED BY <1>1, <1>3, <1>5, <1>6, <1>7, <1>8

-----------------------------------------------------------------------------
\* A request is in one place, and its slot is pending.
Requested(s) == \E x \in ReqBox : \E i \in DOMAIN ReqAt[x] : ReqAt[x][i] = s
ReqInv == Distinct(ReqAt, ReqBox) /\ \A s \in Slots : Requested(s) => pending[s] # Idle

\* The words of a slot, those on a route of theirs numbered from k to e.
Of(s)              == {w \in AnyWord : w.page = s}
Nowhere(s)         == NoneOf(WordAt, WordBox, Of(s))
Travel(s, R, k, e) == OnRoute(WordAt, WordBox, R, Of(s)) /\ Chain(WordAt, R, Of(s), k, e)

\* From the controller of node m to the host of slot s, and back.
ReadRoute(s, m) ==
  IF m = s[1] THEN <<AtNode("locRdOutQ", m), AtNode("locRdInQ", m)>>
  ELSE <<AtNode("locRdOutQ", s[1]), AtNode("remRdInQ", s[1]), <<"rd", m, s[1]>>,
         AtNode("remRdOutQ", m), AtNode("locRdInQ", m)>>
WriteRoute(s, m) ==
  IF m = s[1] THEN <<AtNode("locWdataOutQ", m), AtNode("locWdataInQ", m)>>
  ELSE <<AtNode("locWdataOutQ", m), <<"wd", s[1], m>>,
         AtNode("remWdataOutQ", s[1]), AtNode("locWdataInQ", s[1])>>

\* The words of a page being read are numbered from the number the host waits
\* for to the number the controller sends next.
CmdKinds == {"host", "locCmdInQ", "remCmdOutQ", "locCmdOutQ", "cmd"}
Commanded(s) ==
  \E x \in ReqBox : x[1] \in CmdKinds /\ \E i \in DOMAIN ReqAt[x] : ReqAt[x][i] = s
Works(n, t, s) == ctrl[n][t] # Free /\ ctrl[n][t].page = s
NoWork(s)      == \A n \in Node, t \in Tag : ~Works(n, t, s)
NotBegun(s)    == Nowhere(s) /\ NoWork(s) /\ pending[s] \in {Idle, 0}
BeingRead(s, m, k, e) ==
  /\ pending[s] = k /\ Travel(s, ReadRoute(s, m), k, e)
  /\ \A n \in Node, t \in Tag : Works(n, t, s) => n = m /\ ctrl[n][t].cnt = e
  /\ NoWork(s) => e = PageWords
ReadUnderWay(s) == \E m \in Node, k, e \in 0 .. PageWords : BeingRead(s, m, k, e)
ReadOf(s) ==
  \/ NotBegun(s)
  \/ pending[s] # Idle /\ ~Commanded(s) /\ ReadUnderWay(s)
ReadInv == \A s \in Slots : s[2] = "read" => ReadOf(s)

\* A write data request and the words sent for it are for a write that asked
\* for them.
Writes(n, t, s) == ctrl[n][t].op = "write" /\ ctrl[n][t].page = s /\ ctrl[n][t].asked
Sent(x, i)      == IF x[1] = "job" /\ i = 1 THEN burst[x[2]][x[3]] ELSE 0
HasSent(j, d)   == \E x \in WreqBox : \E i \in DOMAIN JobAt[x] : JobAt[x][i] = j /\ Sent(x, i) = d
JobsMatch ==
  /\ Distinct(JobAt, WreqBox)
  /\ \A j \in Token : (\E d \in 0 .. PageWords - 1 : HasSent(j, d)) => Writes(j[2], j[3], j[1])
  /\ \A x \in WreqBox : x[1] = "job" /\ JobAt[x] = << >> => burst[x[2]][x[3]] = 0
Wanted(w) == w.tag \in Tag /\ Writes(w.dst, w.tag, w.page)
InWrite(w)  == \E x \in WrBox : \E i \in DOMAIN WordAt[x] : WordAt[x][i] = w
WordsWanted == \A w \in AnyWord : InWrite(w) => Wanted(w)

\* The words of a page being written are numbered from the number the
\* controller waits for to the number the engine sends next.
BeingWritten(n, t, s, k, e) ==
  /\ ctrl[n][t].page = s /\ ctrl[n][t].cnt = k /\ Travel(s, WriteRoute(s, n), k, e)
  /\ \A d \in 0 .. PageWords - 1 : HasSent(<<s, n, t>>, d) => e = d
  /\ ctrl[n][t].asked /\ (\A d \in 0 .. PageWords - 1 : ~HasSent(<<s, n, t>>, d)) => e = PageWords
  /\ ~ctrl[n][t].asked => e = 0
WriteOf(n, t) ==
  ctrl[n][t].op = "write" => \E s \in Slots, k, e \in 0 .. PageWords : BeingWritten(n, t, s, k, e)
WriteInv == JobsMatch /\ WordsWanted /\ \A n \in Node, t \in Tag : WriteOf(n, t)
HostInv == TagInv /\ ReqInv /\ ReadInv /\ WriteInv

\* What changes of the requests, and that they are where they were.
ReqPasses(x, y) ==
  ReqAt' \in [ReqBox -> Seq(Slots)] /\ Passes(ReqAt, ReqAt', ReqBox, x, y, Head(ReqAt[x]))
ReqLeaves(x)   == ReqAt' \in [ReqBox -> Seq(Slots)] /\ Leaves(ReqAt, ReqAt', ReqBox, x)
ReqJoins(y, s) == ReqAt' \in [ReqBox -> Seq(Slots)] /\ Joins(ReqAt, ReqAt', ReqBox, y, s)

\* Slots that are pending stay so, and requests move or are withdrawn.
LEMMA ReqKept ==
  ASSUME Typed, ReqInv, \A s \in Slots : pending[s] # Idle => pending'[s] # Idle,
         ReqAt' = ReqAt \/ (\E x, y : ReqPasses(x, y)) \/ (\E x : ReqLeaves(x))
  PROVE  ReqInv' /\ \A s \in Slots : Requested(s)' => Requested(s)
<1>1. ReqAt \in [ReqBox -> Seq(Slots)]
  BY ReqView
<1>2. Distinct(ReqAt, ReqBox) /\ \A s \in Slots : Requested(s) => pending[s] # Idle
  BY DEF ReqInv
<1>3. Distinct(ReqAt', ReqBox)
  <2>1. CASE ReqAt' = ReqAt
    BY <1>2, <2>1 DEF Distinct
  <2>2. ASSUME NEW x, NEW y, ReqPasses(x, y) PROVE Distinct(ReqAt', ReqBox)
    <3>1. /\ x \in ReqBox /\ y \in ReqBox /\ x # y /\ ReqAt[x] # << >>
          /\ ReqAt'[x] = Tail(ReqAt[x]) /\ ReqAt'[y] = Append(ReqAt[y], Head(ReqAt[x]))
          /\ SameButTwo(ReqAt, ReqAt', ReqBox, x, y)
      BY <2>2 DEF ReqPasses, Passes
    <3> QED BY <1>1, <1>2, <3>1, DistinctMove
  <2>3. ASSUME NEW x, ReqLeaves(x) PROVE Distinct(ReqAt', ReqBox)
    <3>1. /\ x \in ReqBox /\ ReqAt[x] # << >> /\ ReqAt'[x] = Tail(ReqAt[x])
          /\ SameBut(ReqAt, ReqAt', ReqBox, x) /\ ReqAt' \in [ReqBox -> Seq(Slots)]
      BY <2>3 DEF ReqLeaves, Leaves
    <3> QED BY <1>1, <1>2, <3>1, DistinctTake
  <2> QED BY <2>1, <2>2, <2>3
<1>4. ASSUME NEW s \in Slots, Requested(s)' PROVE Requested(s)
  <2>1. PICK z \in ReqBox : \E i \in DOMAIN ReqAt'[z] : ReqAt'[z][i] = s
    BY <1>4 DEF Requested
  <2>2. PICK i \in DOMAIN ReqAt'[z] : ReqAt'[z][i] = s
    BY <2>1
  <2>3. CASE ReqAt' = ReqAt
    BY <2>2, <2>3 DEF Requested
  <2>4. ASSUME NEW x, NEW y, ReqPasses(x, y) PROVE Requested(s)
    <3>1. (\E j \in DOMAIN ReqAt[z] : ReqAt'[z][i] = ReqAt[z][j]) \/ ReqAt'[z][i] = Head(ReqAt[x])
      <4>1. PICK T, U, P, v : T = ReqAt /\ U = ReqAt' /\ P = ReqBox /\ v = Head(ReqAt[x])
        OBVIOUS
      <4>2. T \in [P -> Seq(Slots)] /\ Passes(T, U, P, x, y, v) /\ z \in P /\ i \in DOMAIN U[z]
        BY <1>1, <2>1, <2>2, <2>4, <4>1 DEF ReqPasses
      <4>3. (\E j \in DOMAIN T[z] : U[z][i] = T[z][j]) \/ (z = y /\ U[z][i] = v)
        BY <4>2, PassOrigin
      <4> QED BY <4>1, <4>3
    <3>2. x \in ReqBox /\ ReqAt[x] # << >>
      BY <2>4 DEF ReqPasses, Passes
    <3>3. 1 \in DOMAIN ReqAt[x] /\ ReqAt[x][1] = Head(ReqAt[x])
      BY <1>1, <3>2
    <3> QED BY <2>2, <3>1, <3>2, <3>3 DEF Requested
  <2>5. ASSUME NEW x, ReqLeaves(x) PROVE Requested(s)
    <3>1. \E j \in DOMAIN ReqAt[z] : ReqAt'[z][i] = ReqAt[z][j]
      <4>1. PICK T, U, P : T = ReqAt /\ U = ReqAt' /\ P = ReqBox
        OBVIOUS
      <4>2. T \in [P -> Seq(Slots)] /\ Leaves(T, U, P, x) /\ z \in P /\ i \in DOMAIN U[z]
        BY <1>1, <2>1, <2>2, <2>5, <4>1 DEF ReqLeaves
      <4>3. \E j \in DOMAIN T[z] : U[z][i] = T[z][j]
        BY <4>2, LeaveOrigin
      <4> QED BY <4>1, <4>3
    <3> QED BY <2>2, <3>1 DEF Requested
  <2> QED BY <2>3, <2>4, <2>5
<1>5. \A s \in Slots : Requested(s)' => pending'[s] # Idle
  BY <1>2, <1>4
<1> QED BY <1>3, <1>4, <1>5 DEF ReqInv

\* The reply to a request has arrived.
LEMMA ReqGone ==
  ASSUME Typed, ReqInv, NEW x, ReqLeaves(x), NEW s, s = Head(ReqAt[x]),
         \A r \in Slots : r # s => pending'[r] = pending[r]
  PROVE  ReqInv' /\ \A r \in Slots : Requested(r)' => Requested(r)
<1>1. ReqAt \in [ReqBox -> Seq(Slots)]
  BY ReqView
<1>2. /\ x \in ReqBox /\ ReqAt[x] # << >> /\ ReqAt'[x] = Tail(ReqAt[x])
      /\ SameBut(ReqAt, ReqAt', ReqBox, x) /\ ReqAt' \in [ReqBox -> Seq(Slots)]
  BY DEF ReqLeaves, Leaves
<1>3. Distinct(ReqAt', ReqBox) /\ NotIn(s, ReqAt', ReqBox)
  BY <1>1, <1>2, DistinctTake DEF ReqInv
<1>4. ASSUME NEW r \in Slots, Requested(r)' PROVE Requested(r) /\ r # s
  <2>1. PICK z \in ReqBox : \E i \in DOMAIN ReqAt'[z] : ReqAt'[z][i] = r
    BY <1>4 DEF Requested
  <2>2. PICK i \in DOMAIN ReqAt'[z] : ReqAt'[z][i] = r
    BY <2>1
  <2>3. \E j \in DOMAIN ReqAt[z] : ReqAt'[z][i] = ReqAt[z][j]
    <3>1. PICK T, U, P : T = ReqAt /\ U = ReqAt' /\ P = ReqBox
      OBVIOUS
    <3>2. T \in [P -> Seq(Slots)] /\ Leaves(T, U, P, x) /\ z \in P /\ i \in DOMAIN U[z]
      BY <1>1, <2>1, <2>2, <3>1 DEF ReqLeaves
    <3>3. \E j \in DOMAIN T[z] : U[z][i] = T[z][j]
      BY <3>2, LeaveOrigin
    <3> QED BY <3>1, <3>3
  <2> QED BY <1>3, <2>2, <2>3 DEF Requested, NotIn
<1>5. \A r \in Slots : Requested(r)' => pending'[r] # Idle
  BY <1>4 DEF ReqInv
<1> QED BY <1>3, <1>4, <1>5 DEF ReqInv

\* A request is made for a slot that is not pending.
LEMMA ReqMade ==
  ASSUME Typed, ReqInv, NEW y, NEW s \in Slots, ReqJoins(y, s), pending[s] = Idle,
         pending'[s] # Idle, \A r \in Slots : r # s => pending'[r] = pending[r]
  PROVE  ReqInv' /\ \A r \in Slots : Requested(r)' => Requested(r) \/ r = s
<1>1. ReqAt \in [ReqBox -> Seq(Slots)]
  BY ReqView
<1>2. /\ y \in ReqBox /\ ReqAt'[y] = Append(ReqAt[y], s)
      /\ SameBut(ReqAt, ReqAt', ReqBox, y)
  BY DEF ReqJoins, Joins
<1>3. NotIn(s, ReqAt, ReqBox)
  BY DEF ReqInv, Requested, NotIn
<1>4. Distinct(ReqAt', ReqBox)
  BY <1>1, <1>2, <1>3, DistinctPut DEF ReqInv
<1>5. ASSUME NEW r \in Slots, Requested(r)' PROVE Requested(r) \/ r = s
  <2>1. PICK z \in ReqBox : \E i \in DOMAIN ReqAt'[z] : ReqAt'[z][i] = r
    BY <1>5 DEF Requested
  <2>2. PICK i \in DOMAIN ReqAt'[z] : ReqAt'[z][i] = r
    BY <2>1
  <2>3. (\E j \in DOMAIN ReqAt[z] : ReqAt'[z][i] = ReqAt[z][j]) \/ ReqAt'[z][i] = s
    <3>1. PICK T, U, P : T = ReqAt /\ U = ReqAt' /\ P = ReqBox
      OBVIOUS
    <3>2. T \in [P -> Seq(Slots)] /\ Joins(T, U, P, y, s) /\ z \in P /\ i \in DOMAIN U[z]
      BY <1>1, <2>1, <2>2, <3>1 DEF ReqJoins
    <3>3. (\E j \in DOMAIN T[z] : U[z][i] = T[z][j]) \/ (z = y /\ U[z][i] = s)
      BY <3>2, JoinOrigin
    <3> QED BY <3>1, <3>3
  <2> QED BY <2>2, <2>3 DEF Requested
<1>6. \A r \in Slots : Requested(r)' => pending'[r] # Idle
  BY <1>5 DEF ReqInv
<1> QED BY <1>4, <1>5, <1>6 DEF ReqInv

\* A slot that is not requested is no longer pending, perhaps.
LEMMA ReqOther ==
  ASSUME Typed, ReqInv, ReqAt' = ReqAt, NEW s, ~Requested(s),
         \A r \in Slots : r # s => pending'[r] = pending[r]
  PROVE  ReqInv'
<1>1. \A r \in Slots : Requested(r)' <=> Requested(r)
  BY DEF Requested
<1>2. \A r \in Slots : Requested(r)' => pending'[r] # Idle
  BY <1>1 DEF ReqInv
<1>3. Distinct(ReqAt', ReqBox)
  BY DEF ReqInv, Distinct
<1> QED BY <1>2, <1>3 DEF ReqInv

\* What a controller works on is requested, and is nowhere else.
LEMMA OneWorker ==
  ASSUME Typed, ReqInv, NEW n \in Node, NEW t \in Tag, ctrl[n][t] # Free
  PROVE  /\ <<"ctrl", n, t>> \in ReqBox /\ ReqAt[<<"ctrl", n, t>>] = <<ctrl[n][t].page>>
         /\ ctrl[n][t].page \in Slots /\ pending[ctrl[n][t].page] # Idle
         /\ \A x \in ReqBox : \A i \in DOMAIN ReqAt[x] :
              ReqAt[x][i] = ctrl[n][t].page => x = <<"ctrl", n, t>>
         /\ \A m \in Node, u \in Tag : Works(m, u, ctrl[n][t].page) => m = n /\ u = t
         /\ ~Commanded(ctrl[n][t].page)
<1>1. PICK s, x : s = ctrl[n][t].page /\ x = <<"ctrl", n, t>>
  OBVIOUS
<1>2. ASSUME NEW m \in Node, NEW u \in Tag, ctrl[m][u] # Free
      PROVE  /\ <<"ctrl", m, u>> \in ReqBox
             /\ ReqAt[<<"ctrl", m, u>>] = <<ctrl[m][u].page>> /\ ctrl[m][u].page \in Slots
  <2>1. ctrl[m][u] \in Work
    BY <1>2 DEF Typed, TagsTyped
  <2>2. PICK y : y = <<"ctrl", m, u>>
    OBVIOUS
  <2>3. y \in Box /\ y[1] = "ctrl" /\ Held(y) = <<ctrl[m][u]>>
    BY <1>2, <2>2, HeldIs DEF InCtrl
  <2>4. y \in ReqBox
    BY <2>3 DEF ReqBox, BoxOf
  <2>5. ReqAt[y] = SlotsIn("ctrl", <<ctrl[m][u]>>)
    BY <2>3, <2>4, ReqView
  <2>6. SlotsIn("ctrl", <<ctrl[m][u]>>) = <<ctrl[m][u].page>>
    BY DEF SlotsIn, SlotIn
  <2> QED BY <2>1, <2>2, <2>4, <2>5, <2>6 DEF Work
<1>3. x \in ReqBox /\ ReqAt[x] = <<s>> /\ s \in Slots
  BY <1>1, <1>2
<1>4. 1 \in DOMAIN ReqAt[x] /\ ReqAt[x][1] = s
  BY <1>3
<1>5. pending[s] # Idle
  BY <1>3, <1>4 DEF ReqInv, Requested
<1>6. ASSUME NEW y \in ReqBox, NEW i \in DOMAIN ReqAt[y], ReqAt[y][i] = s PROVE y = x
  BY <1>3, <1>4, <1>6 DEF ReqInv, Distinct
<1>7. ASSUME NEW m \in Node, NEW u \in Tag, Works(m, u, s) PROVE m = n /\ u = t
  <2>1. ctrl[m][u] # Free /\ ctrl[m][u].page = s
    BY <1>7 DEF Works
  <2>2. PICK y : y = <<"ctrl", m, u>>
    OBVIOUS
  <2>3. y \in ReqBox /\ ReqAt[y] = <<s>>
    BY <1>2, <2>1, <2>2
  <2>4. 1 \in DOMAIN ReqAt[y] /\ ReqAt[y][1] = s
    BY <2>3
  <2>5. y = x
    BY <1>6, <2>3, <2>4
  <2> QED BY <1>1, <2>2, <2>5
<1>8. ~Commanded(s)
  <2>1. x[1] \notin CmdKinds
    BY <1>1 DEF CmdKinds
  <2> QED BY <1>6, <2>1 DEF Commanded
<1> QED BY <1>1, <1>3, <1>5, <1>6, <1>7, <1>8

-----------------------------------------------------------------------------
\* Requests, words and write data requests are in different boxes.
LEMMA Apart ==
  /\ ReqBox \subseteq Box /\ WordBox \subseteq Box /\ WreqBox \subseteq Box /\ WrBox \subseteq WordBox
  /\ \A x : /\ x \in ReqBox => x \notin WordBox /\ x \notin WreqBox
            /\ x \in WordBox => x \notin ReqBox /\ x \notin WreqBox
            /\ x \in WreqBox => x \notin ReqBox /\ x \notin WordBox
BY DEF ReqBox, WordBox, WreqBox, WrBox, BoxOf, ReqQ, ReadQ, WrQ, WreqQ

\* What changes of the words, and of the write data requests.
WordPasses(x, y, v) ==
  WordAt' \in [WordBox -> Seq(AnyWord)] /\ v \in AnyWord /\ Passes(WordAt, WordAt', WordBox, x, y, v)
WordLeaves(x)   == WordAt' \in [WordBox -> Seq(AnyWord)] /\ Leaves(WordAt, WordAt', WordBox, x)
WordJoins(y, v) ==
  WordAt' \in [WordBox -> Seq(AnyWord)] /\ v \in AnyWord /\ Joins(WordAt, WordAt', WordBox, y, v)
JobPasses(x, y) ==
  JobAt' \in [WreqBox -> Seq(Token)] /\ Passes(JobAt, JobAt', WreqBox, x, y, Head(JobAt[x]))
JobLeaves(x)   == JobAt' \in [WreqBox -> Seq(Token)] /\ Leaves(JobAt, JobAt', WreqBox, x)
JobJoins(y, j) == JobAt' \in [WreqBox -> Seq(Token)] /\ Joins(JobAt, JobAt', WreqBox, y, j)
ReqsSame  == ReqAt' = ReqAt
WordsSame == WordAt' = WordAt
JobsSame  == JobAt' = JobAt

\* What happens to boxes happens to one of the three.
LEMMA NothingMoves ==
  ASSUME Typed, StaysIn(Box) PROVE ReqsSame /\ WordsSame /\ JobsSame
<1>1. StaysIn(ReqBox) /\ StaysIn(WordBox) /\ StaysIn(WreqBox)
  BY Apart, Narrow
<1> QED BY <1>1, ReqView, WordView, JobView DEF ReqsSame, WordsSame, JobsSame

\* A request moves.
LEMMA RequestMoves ==
  ASSUME Typed, NEW x \in ReqBox, NEW y \in ReqBox, NEW v, MovesIn(Box, x, y, v),
         SlotIn(y[1], v) = SlotIn(x[1], Head(Held(x)))
  PROVE  ReqPasses(x, y) /\ WordsSame /\ JobsSame
<1>1. MovesIn(ReqBox, x, y, v) /\ StaysIn(WordBox) /\ StaysIn(WreqBox)
  BY Apart, Narrow
<1> QED BY <1>1, ReqView, WordView, JobView DEF ReqPasses, WordsSame, JobsSame

\* A word moves.
LEMMA WordMoves ==
  ASSUME Typed, NEW x \in WordBox, NEW y \in WordBox, NEW v \in AnyWord, MovesIn(Box, x, y, v)
  PROVE  WordPasses(x, y, v) /\ ReqsSame /\ JobsSame
<1>1. MovesIn(WordBox, x, y, v) /\ StaysIn(ReqBox) /\ StaysIn(WreqBox)
  BY Apart, Narrow
<1> QED BY <1>1, ReqView, WordView, JobView DEF WordPasses, ReqsSame, JobsSame

\* A write data request moves.
LEMMA JobMoves ==
  ASSUME Typed, NEW x \in WreqBox, NEW y \in WreqBox, NEW v, MovesIn(Box, x, y, v),
         JobOf(y, v) = JobOf(x, Head(Held(x)))
  PROVE  JobPasses(x, y) /\ ReqsSame /\ WordsSame
<1>1. MovesIn(WreqBox, x, y, v) /\ StaysIn(ReqBox) /\ StaysIn(WordBox)
  BY Apart, Narrow
<1> QED BY <1>1, ReqView, WordView, JobView DEF JobPasses, ReqsSame, WordsSame

-----------------------------------------------------------------------------
\* The words of slot s follow a route.
Follows(s, R) == \A k, e : Travel(s, R, k, e) => Travel(s, R, k, e)'
StillNone(s)  == Nowhere(s) => Nowhere(s)'
Hop(R, x, y)  == \A j \in DOMAIN R : x = R[j] => j > 1 /\ y = R[j - 1]

\* When no word moves, they do.
LEMMA WordsStay ==
  ASSUME WordsSame PROVE \A s : StillNone(s) /\ \A R : Follows(s, R)
<1> SUFFICES ASSUME NEW s PROVE StillNone(s) /\ \A R : Follows(s, R)
  OBVIOUS
<1>1. WordAt' = WordAt
  BY DEF WordsSame
<1>2. Nowhere(s)' <=> Nowhere(s)
  BY <1>1 DEF Nowhere, NoneOf
<1>3. ASSUME NEW R, NEW k, NEW e PROVE Travel(s, R, k, e) => Travel(s, R, k, e)'
  BY <1>1 DEF Travel, OnRoute, Chain
<1> QED BY <1>2, <1>3 DEF StillNone, Follows

\* When a word moves from one box to another.
LEMMA WordsPass ==
  ASSUME Typed, NEW s \in Slots, NEW x, NEW y, NEW v, WordPasses(x, y, v),
         v.page = Head(WordAt[x]).page, v.idx = Head(WordAt[x]).idx
  PROVE  /\ StillNone(s)
         /\ \A R \in Seq(WordBox) : (v.page = s => NoRepeat(R) /\ Hop(R, x, y)) => Follows(s, R)
<1>1. PICK T, U, P, K, S : /\ T = WordAt /\ U = WordAt' /\ P = WordBox /\ K = Of(s) /\ S = AnyWord
  OBVIOUS
<1>2. T \in [P -> Seq(S)] /\ U \in [P -> Seq(S)] /\ v \in S /\ Passes(T, U, P, x, y, v)
  BY <1>1, WordView DEF WordPasses
<1>3. /\ x \in P /\ y \in P /\ x # y /\ T[x] # << >> /\ U[x] = Tail(T[x]) /\ U[y] = Append(T[y], v)
      /\ SameButTwo(T, U, P, x, y)
  BY <1>2 DEF Passes
<1>4. Head(T[x]) \in S /\ 1 \in DOMAIN T[x] /\ T[x][1] = Head(T[x])
  BY <1>2, <1>3
<1>5. (v \in K <=> v.page = s) /\ (Head(T[x]) \in K <=> v.page = s)
  BY <1>1, <1>2, <1>4 DEF Of
<1>6. ASSUME Nowhere(s) PROVE Nowhere(s)'
  <2>1. NoneOf(T, P, K)
    BY <1>1, <1>6 DEF Nowhere
  <2>2. Head(T[x]) \notin K /\ v \notin K
    BY <1>3, <1>4, <1>5, <2>1 DEF NoneOf
  <2>3. \A z \in P : LikeIn(T[z], U[z], S, K)
    BY <1>2, <1>3, <2>2 DEF LikeIn, SameButTwo
  <2>4. NoneOf(U, P, K)
    BY <1>2, <2>1, <2>3, NoneChange
  <2> QED BY <1>1, <2>4 DEF Nowhere
<1>7. ASSUME NEW R \in Seq(WordBox), v.page = s => NoRepeat(R) /\ Hop(R, x, y),
             NEW k, NEW e, Travel(s, R, k, e)
      PROVE  Travel(s, R, k, e)'
  <2>1. OnRoute(T, P, R, K) /\ Chain(T, R, K, k, e) /\ R \in Seq(P)
    BY <1>1, <1>7 DEF Travel
  <2>2. ASSUME v \in K
        PROVE  v.idx = Head(T[x]).idx
               /\ \E j \in DOMAIN R : j > 1 /\ x = R[j] /\ y = R[j - 1] /\ NoRepeat(R)
    <3>1. \E j \in DOMAIN R : x = R[j]
      BY <1>3, <1>4, <1>5, <2>1, <2>2 DEF OnRoute
    <3> QED BY <1>1, <1>5, <1>7, <2>2, <3>1 DEF Hop
  <2>3. OnRoute(U, P, R, K) /\ Chain(U, R, K, k, e)
    BY <1>2, <1>3, <1>5, <2>1, <2>2, RouteMove
  <2> QED BY <1>1, <2>3 DEF Travel
<1> QED BY <1>6, <1>7 DEF StillNone, Follows

\* When a word of another slot leaves.
LEMMA WordsLeave ==
  ASSUME Typed, NEW s \in Slots, NEW x, WordLeaves(x), Head(WordAt[x]).page # s
  PROVE  StillNone(s) /\ \A R \in Seq(WordBox) : Follows(s, R)
<1>1. PICK T, U, P, K, S : /\ T = WordAt /\ U = WordAt' /\ P = WordBox /\ K = Of(s) /\ S = AnyWord
  OBVIOUS
<1>2. T \in [P -> Seq(S)] /\ U \in [P -> Seq(S)] /\ Leaves(T, U, P, x)
  BY <1>1, WordView DEF WordLeaves
<1>3. x \in P /\ T[x] # << >> /\ U[x] = Tail(T[x]) /\ SameBut(T, U, P, x)
  BY <1>2 DEF Leaves
<1>4. Head(T[x]) \notin K
  BY <1>1 DEF Of
<1>5. \A z \in P : LikeIn(T[z], U[z], S, K)
  BY <1>3, <1>4 DEF LikeIn, SameBut
<1>6. ASSUME Nowhere(s) PROVE Nowhere(s)'
  <2>1. NoneOf(T, P, K)
    BY <1>1, <1>6 DEF Nowhere
  <2>2. NoneOf(U, P, K)
    BY <1>2, <1>5, <2>1, NoneChange
  <2> QED BY <1>1, <2>2 DEF Nowhere
<1>7. ASSUME NEW R \in Seq(WordBox), NEW k, NEW e, Travel(s, R, k, e) PROVE Travel(s, R, k, e)'
  <2>1. OnRoute(T, P, R, K) /\ Chain(T, R, K, k, e) /\ R \in Seq(P)
    BY <1>1, <1>7 DEF Travel
  <2>2. OnRoute(U, P, R, K) /\ Chain(U, R, K, k, e)
    BY <1>2, <1>3, <1>4, <2>1, RouteSkip
  <2> QED BY <1>1, <2>2 DEF Travel
<1> QED BY <1>6, <1>7 DEF StillNone, Follows

\* When a word of another slot comes.
LEMMA WordsJoin ==
  ASSUME Typed, NEW s \in Slots, NEW y, NEW v, WordJoins(y, v), v.page # s
  PROVE  StillNone(s) /\ \A R \in Seq(WordBox) : Follows(s, R)
<1>1. PICK T, U, P, K, S : /\ T = WordAt /\ U = WordAt' /\ P = WordBox /\ K = Of(s) /\ S = AnyWord
  OBVIOUS
<1>2. T \in [P -> Seq(S)] /\ U \in [P -> Seq(S)] /\ v \in S /\ Joins(T, U, P, y, v)
  BY <1>1, WordView DEF WordJoins
<1>3. y \in P /\ U[y] = Append(T[y], v) /\ SameBut(T, U, P, y)
  BY <1>2 DEF Joins
<1>4. v \notin K
  BY <1>1 DEF Of
<1>5. \A z \in P : LikeIn(T[z], U[z], S, K)
  BY <1>2, <1>3, <1>4 DEF LikeIn, SameBut
<1>6. ASSUME Nowhere(s) PROVE Nowhere(s)'
  <2>1. NoneOf(T, P, K)
    BY <1>1, <1>6 DEF Nowhere
  <2>2. NoneOf(U, P, K)
    BY <1>2, <1>5, <2>1, NoneChange
  <2> QED BY <1>1, <2>2 DEF Nowhere
<1>7. ASSUME NEW R \in Seq(WordBox), NEW k, NEW e, Travel(s, R, k, e) PROVE Travel(s, R, k, e)'
  <2>1. OnRoute(T, P, R, K) /\ Chain(T, R, K, k, e) /\ R \in Seq(P)
    BY <1>1, <1>7 DEF Travel
  <2>2. OnRoute(U, P, R, K) /\ Chain(U, R, K, k, e)
    BY <1>2, <1>3, <1>4, <2>1, RoutePut
  <2> QED BY <1>1, <2>2 DEF Travel
<1> QED BY <1>6, <1>7 DEF StillNone, Follows

\* The boxes on the routes of words.
LEMMA RouteBoxes ==
  ASSUME NEW a \in Node, NEW b \in Node
  PROVE  /\ {AtNode("locRdOutQ", a), AtNode("locRdInQ", a), AtNode("remRdInQ", a),
             AtNode("remRdOutQ", a), <<"rd", a, b>>} \subseteq WordBox \ WrBox
         /\ {AtNode("locWdataOutQ", a), AtNode("locWdataInQ", a), AtNode("remWdataOutQ", a),
             <<"wd", a, b>>} \subseteq WrBox
<1>1. ASSUME NEW f \in ReadQ PROVE AtNode(f, a) \in WordBox \ WrBox
  <2>1. AtNode(f, a) \in Box /\ AtNode(f, a)[1] = f
    BY HeldIs DEF BoxQ
  <2> QED BY <2>1 DEF WordBox, WrBox, BoxOf, ReadQ, WrQ
<1>2. ASSUME NEW f \in WrQ PROVE AtNode(f, a) \in WrBox
  <2>1. AtNode(f, a) \in Box /\ AtNode(f, a)[1] = f
    BY HeldIs DEF BoxQ
  <2> QED BY <2>1 DEF WrBox, BoxOf
<1>3. ASSUME NEW c \in Class PROVE <<c, a, b>> \in Box /\ <<c, a, b>>[1] = c
  BY HeldIs
<1>4. <<"rd", a, b>> \in WordBox \ WrBox /\ <<"wd", a, b>> \in WrBox
  BY <1>3 DEF WordBox, WrBox, BoxOf, WrQ, Class
<1> QED BY <1>1, <1>2, <1>4 DEF ReadQ, WrQ

\* What a read's words cross.
LEMMA ReadRouteIs ==
  ASSUME NEW s \in Slots, NEW m \in Node, NEW R, R = ReadRoute(s, m)
  PROVE  /\ R \in Seq(WordBox) /\ NoRepeat(R) /\ Len(R) \in {2, 4, 5}
         /\ Starts(R, AtNode("locRdOutQ", s[1])) /\ Ends(R, AtNode("locRdInQ", m))
         /\ \A j \in DOMAIN R : R[j] \notin WrBox
<1>1. s[1] \in Node
  BY SlotEntry
<1>2. CASE m = s[1]
  <2>1. PICK a, b : a = AtNode("locRdOutQ", m) /\ b = AtNode("locRdInQ", m)
    OBVIOUS
  <2>2. R = <<a, b>> /\ a # b /\ {a, b} \subseteq WordBox \ WrBox
    <3>1. R = <<a, b>>
      BY <1>2, <2>1 DEF ReadRoute
    <3>2. a # b
      BY <2>1 DEF AtNode
    <3> QED BY <2>1, <3>1, <3>2, RouteBoxes
  <2>3. R \in Seq(WordBox) /\ Len(R) = 2 /\ DOMAIN R = {1, 2} /\ R[1] = a /\ R[2] = b
    BY <2>2
  <2>4. NoRepeat(R) /\ \A j \in DOMAIN R : R[j] \notin WrBox
    BY <2>2, <2>3 DEF NoRepeat
  <2> QED BY <1>2, <2>1, <2>3, <2>4 DEF Starts, Ends
<1>3. CASE m # s[1]
  <2>1. PICK a, b, c, d, f :
          /\ a = AtNode("locRdOutQ", s[1]) /\ b = AtNode("remRdInQ", s[1])
          /\ c = <<"rd", m, s[1]>> /\ d = AtNode("remRdOutQ", m) /\ f = AtNode("locRdInQ", m)
    OBVIOUS
  <2>2. R = <<a, b, c, d, f>> /\ {a, b, c, d, f} \subseteq WordBox \ WrBox
    BY <1>1, <1>3, <2>1, RouteBoxes DEF ReadRoute
  <2>3. a # b /\ a # c /\ a # d /\ a # f /\ b # c /\ b # d /\ b # f /\ c # d /\ c # f /\ d # f
    BY <2>1 DEF AtNode
  <2>4. /\ R \in Seq(WordBox) /\ Len(R) = 5 /\ DOMAIN R = {1, 2, 3, 4, 5}
        /\ R[1] = a /\ R[2] = b /\ R[3] = c /\ R[4] = d /\ R[5] = f
    BY <2>2
  <2>5. NoRepeat(R) /\ \A j \in DOMAIN R : R[j] \notin WrBox
    BY <2>2, <2>3, <2>4 DEF NoRepeat
  <2> QED BY <2>1, <2>4, <2>5 DEF Starts, Ends
<1> QED BY <1>2, <1>3

\* What a write's words cross.
LEMMA WriteRouteIs ==
  ASSUME NEW s \in Slots, NEW m \in Node, NEW R, R = WriteRoute(s, m)
  PROVE  /\ R \in Seq(WordBox) /\ NoRepeat(R) /\ Len(R) \in {2, 4, 5}
         /\ Starts(R, AtNode("locWdataOutQ", m)) /\ Ends(R, AtNode("locWdataInQ", s[1]))
         /\ \A j \in DOMAIN R : R[j] \in WrBox
<1>1. s[1] \in Node /\ WrBox \subseteq WordBox
  BY SlotEntry, Apart
<1>2. CASE m = s[1]
  <2>1. PICK a, b : a = AtNode("locWdataOutQ", m) /\ b = AtNode("locWdataInQ", m)
    OBVIOUS
  <2>2. R = <<a, b>> /\ a # b /\ {a, b} \subseteq WrBox
    <3>1. R = <<a, b>>
      BY <1>2, <2>1 DEF WriteRoute
    <3>2. a # b
      BY <2>1 DEF AtNode
    <3> QED BY <2>1, <3>1, <3>2, RouteBoxes
  <2>3. R \in Seq(WordBox) /\ Len(R) = 2 /\ DOMAIN R = {1, 2} /\ R[1] = a /\ R[2] = b
    BY <1>1, <2>2
  <2>4. NoRepeat(R) /\ \A j \in DOMAIN R : R[j] \in WrBox
    BY <2>2, <2>3 DEF NoRepeat
  <2> QED BY <1>2, <2>1, <2>3, <2>4 DEF Starts, Ends
<1>3. CASE m # s[1]
  <2>1. PICK a, b, c, d :
          /\ a = AtNode("locWdataOutQ", m) /\ b = <<"wd", s[1], m>>
          /\ c = AtNode("remWdataOutQ", s[1]) /\ d = AtNode("locWdataInQ", s[1])
    OBVIOUS
  <2>2. R = <<a, b, c, d>> /\ {a, b, c, d} \subseteq WrBox
    BY <1>1, <1>3, <2>1, RouteBoxes DEF WriteRoute
  <2>3. a # b /\ a # c /\ a # d /\ b # c /\ b # d /\ c # d
    BY <2>1 DEF AtNode
  <2>4. /\ R \in Seq(WordBox) /\ Len(R) = 4 /\ DOMAIN R = {1, 2, 3, 4}
        /\ R[1] = a /\ R[2] = b /\ R[3] = c /\ R[4] = d
    BY <1>1, <2>2
  <2>5. NoRepeat(R) /\ \A j \in DOMAIN R : R[j] \in WrBox
    BY <2>2, <2>3, <2>4 DEF NoRepeat
  <2> QED BY <2>1, <2>4, <2>5 DEF Starts, Ends
<1> QED BY <1>2, <1>3

-----------------------------------------------------------------------------
\* Requests that move or are withdrawn; none is commanded that was not.
ReqsQuiet ==
  \/ ReqsSame
  \/ \E x, y : ReqPasses(x, y) /\ (y[1] \in CmdKinds => x[1] \in CmdKinds)
  \/ \E x : ReqLeaves(x)

\* Then no slot has a command that had none.
LEMMA CommandKept ==
  ASSUME Typed, ReqsQuiet PROVE \A s : Commanded(s)' => Commanded(s)
<1> SUFFICES ASSUME NEW s, Commanded(s)' PROVE Commanded(s)
  OBVIOUS
<1>1. PICK z \in ReqBox : z[1] \in CmdKinds /\ \E i \in DOMAIN ReqAt'[z] : ReqAt'[z][i] = s
  BY DEF Commanded
<1>2. PICK i \in DOMAIN ReqAt'[z] : ReqAt'[z][i] = s
  BY <1>1
<1>3. PICK T, U, P : T = ReqAt /\ U = ReqAt' /\ P = ReqBox
  OBVIOUS
<1>4. T \in [P -> Seq(Slots)] /\ z \in P /\ i \in DOMAIN U[z] /\ U[z][i] = s
  BY <1>1, <1>2, <1>3, ReqView
<1>5. ASSUME NEW j \in DOMAIN T[z], T[z][j] = s PROVE Commanded(s)
  BY <1>1, <1>3, <1>5 DEF Commanded
<1>6. CASE ReqsSame
  BY <1>3, <1>4, <1>5, <1>6 DEF ReqsSame
<1>7. ASSUME NEW x, NEW y, ReqPasses(x, y), y[1] \in CmdKinds => x[1] \in CmdKinds
      PROVE  Commanded(s)
  <2>1. PICK v : v = Head(T[x])
    OBVIOUS
  <2>2. Passes(T, U, P, x, y, v)
    BY <1>3, <1>7, <2>1 DEF ReqPasses
  <2>3. (\E j \in DOMAIN T[z] : U[z][i] = T[z][j]) \/ (z = y /\ U[z][i] = v)
    BY <1>4, <2>2, PassOrigin
  <2>4. ASSUME z = y, v = s PROVE Commanded(s)
    <3>1. x \in P /\ T[x] # << >>
      BY <2>2 DEF Passes
    <3>2. 1 \in DOMAIN T[x] /\ T[x][1] = s
      BY <1>4, <2>1, <2>4, <3>1
    <3>3. x[1] \in CmdKinds
      BY <1>1, <1>7, <2>4
    <3> QED BY <1>3, <3>1, <3>2, <3>3 DEF Commanded
  <2> QED BY <1>4, <1>5, <2>3, <2>4
<1>8. ASSUME NEW x, ReqLeaves(x) PROVE Commanded(s)
  <2>1. Leaves(T, U, P, x)
    BY <1>3, <1>8 DEF ReqLeaves
  <2>2. \E j \in DOMAIN T[z] : U[z][i] = T[z][j]
    BY <1>4, <2>1, LeaveOrigin
  <2> QED BY <1>4, <1>5, <2>2
<1> QED BY <1>6, <1>7, <1>8 DEF ReqsQuiet

\* Which controllers work on slot s, and at which word.
SameWork(s) ==
  \A n \in Node, t \in Tag :
    (Works(n, t, s)' <=> Works(n, t, s)) /\ (Works(n, t, s) => ctrl'[n][t].cnt = ctrl[n][t].cnt)

\* A read goes on as before.
LEMMA ReadSame ==
  ASSUME NEW s \in Slots, ReadOf(s), StillNone(s), \A m \in Node : Follows(s, ReadRoute(s, m)),
         pending'[s] = pending[s], Commanded(s)' => Commanded(s), SameWork(s)
  PROVE  ReadOf(s)'
<1>1. NoWork(s)' <=> NoWork(s)
  BY DEF NoWork, SameWork
<1>2. CASE NotBegun(s)
  BY <1>1, <1>2 DEF NotBegun, StillNone, ReadOf
<1>3. ASSUME pending[s] # Idle, ~Commanded(s), ReadUnderWay(s) PROVE ReadOf(s)'
  <2>1. PICK m \in Node, k \in 0 .. PageWords, e \in 0 .. PageWords : BeingRead(s, m, k, e)
    BY <1>3 DEF ReadUnderWay
  <2>2. /\ pending[s] = k /\ Travel(s, ReadRoute(s, m), k, e)
        /\ \A n \in Node, t \in Tag : Works(n, t, s) => n = m /\ ctrl[n][t].cnt = e
        /\ NoWork(s) => e = PageWords
    BY <2>1 DEF BeingRead
  <2>3. PICK R : R = ReadRoute(s, m)
    OBVIOUS
  <2>4. Follows(s, R)
    BY <2>3
  <2>5. Travel(s, R, k, e)'
    BY <2>2, <2>3, <2>4 DEF Follows
  <2>6. R' = ReadRoute(s, m)
    BY <2>3 DEF ReadRoute, AtNode
  <2>7. Travel(s, ReadRoute(s, m), k, e)'
    BY <2>3, <2>5 DEF ReadRoute, AtNode
  <2>8. \A n \in Node, t \in Tag : Works(n, t, s)' => n = m /\ ctrl'[n][t].cnt = e
    BY <2>2 DEF SameWork
  <2>9. BeingRead(s, m, k, e)'
    BY <1>1, <2>2, <2>7, <2>8 DEF BeingRead
  <2> QED BY <1>3, <2>9 DEF ReadOf, ReadUnderWay
<1> QED BY <1>2, <1>3 DEF ReadOf

-----------------------------------------------------------------------------
\* A word that moves goes one box on, on the routes of its slot, and is the same
\* word if it is one to be written.
WordHop(x, y, v) ==
  /\ WordPasses(x, y, v) /\ v.page = Head(WordAt[x]).page /\ v.idx = Head(WordAt[x]).idx
  /\ x \in WrBox <=> y \in WrBox
  /\ x \in WrBox => v = Head(WordAt[x])
  /\ \A s \in Slots, m \in Node :
       v.page = s => Hop(ReadRoute(s, m), x, y) /\ (v.dst = m => Hop(WriteRoute(s, m), x, y))
WordsQuiet == WordsSame \/ \E x, y, v : WordHop(x, y, v)

\* The words of a read stay on its route.
LEMMA ReadsFollow ==
  ASSUME Typed, WordsQuiet, NEW s \in Slots
  PROVE  StillNone(s) /\ \A m \in Node : Follows(s, ReadRoute(s, m))
<1>1. CASE WordsSame
  BY <1>1, WordsStay
<1>2. ASSUME NEW x, NEW y, NEW v, WordHop(x, y, v)
      PROVE  StillNone(s) /\ \A m \in Node : Follows(s, ReadRoute(s, m))
  <2>1. WordPasses(x, y, v) /\ v.page = Head(WordAt[x]).page /\ v.idx = Head(WordAt[x]).idx
    BY <1>2 DEF WordHop
  <2>2. ASSUME NEW m \in Node PROVE Follows(s, ReadRoute(s, m))
    <3>1. PICK R : R = ReadRoute(s, m)
      OBVIOUS
    <3>2. R \in Seq(WordBox) /\ NoRepeat(R)
      BY <3>1, ReadRouteIs
    <3>3. v.page = s => Hop(R, x, y)
      BY <1>2, <3>1 DEF WordHop
    <3> QED BY <2>1, <3>1, <3>2, <3>3, WordsPass
  <2>3. StillNone(s)
    BY <2>1, WordsPass
  <2> QED BY <2>2, <2>3
<1> QED BY <1>1, <1>2 DEF WordsQuiet

\* A word to be written is for the controller that works on its slot.
LEMMA WriteWorker ==
  ASSUME Typed, ReqInv, NEW n \in Node, NEW t \in Tag, ctrl[n][t].op = "write",
         NEW m \in Node, NEW u \in Tag, ctrl[m][u].op = "write", ctrl[m][u].page = ctrl[n][t].page
  PROVE  m = n /\ u = t
<1>1. ctrl[n][t] # Free /\ ctrl[m][u] # Free
  BY DEF Free
<1>2. Works(m, u, ctrl[n][t].page)
  BY <1>1 DEF Works
<1> QED BY <1>1, <1>2, OneWorker

\* The words of a write stay on its route.
LEMMA WritesFollow ==
  ASSUME Typed, ReqInv, WordsWanted, WordsQuiet, NEW n \in Node, NEW t \in Tag,
         ctrl[n][t].op = "write", NEW s \in Slots, s = ctrl[n][t].page
  PROVE  Follows(s, WriteRoute(s, n))
<1>1. PICK R : R = WriteRoute(s, n)
  OBVIOUS
<1>2. R \in Seq(WordBox) /\ NoRepeat(R) /\ \A j \in DOMAIN R : R[j] \in WrBox
  BY <1>1, WriteRouteIs
<1>3. CASE WordsSame
  BY <1>3, WordsStay
<1>4. ASSUME NEW x, NEW y, NEW v, WordHop(x, y, v) PROVE Follows(s, R)
  <2>1. WordPasses(x, y, v) /\ v.page = Head(WordAt[x]).page /\ v.idx = Head(WordAt[x]).idx
    BY <1>4 DEF WordHop
  <2>2. ASSUME x \in WrBox, v.page = s PROVE v.dst = n
    <3>1. v = Head(WordAt[x]) /\ v \in AnyWord /\ WordAt[x] # << >>
      BY <1>4, <2>1, <2>2 DEF WordHop, WordPasses, Passes
    <3>2. WordAt[x] \in Seq(AnyWord)
      BY <2>2, WordView, Apart
    <3>3. 1 \in DOMAIN WordAt[x] /\ WordAt[x][1] = v
      BY <3>1, <3>2
    <3>4. Wanted(v)
      BY <2>2, <3>1, <3>3 DEF WordsWanted, InWrite
    <3>5. v.dst \in Node /\ v.tag \in Tag /\ ctrl[v.dst][v.tag].op = "write"
          /\ ctrl[v.dst][v.tag].page = s
      BY <2>2, <3>1, <3>4 DEF Wanted, Writes, AnyWord
    <3> QED BY <3>5, WriteWorker
  <2>3. v.page = s => Hop(R, x, y)
    <3>1. x \notin WrBox => Hop(R, x, y)
      BY <1>2 DEF Hop
    <3> QED BY <1>1, <1>4, <2>2, <3>1 DEF WordHop
  <2> QED BY <1>2, <2>1, <2>3, WordsPass
<1> QED BY <1>1, <1>3, <1>4 DEF WordsQuiet

\* No word to be written is new.
LEMMA InWriteKept ==
  ASSUME Typed, WordsQuiet \/ \E x : WordLeaves(x)
  PROVE  \A w : InWrite(w)' => InWrite(w)
<1> SUFFICES ASSUME NEW w, InWrite(w)' PROVE InWrite(w)
  OBVIOUS
<1>1. PICK z \in WrBox : \E i \in DOMAIN WordAt'[z] : WordAt'[z][i] = w
  BY DEF InWrite
<1>2. PICK i \in DOMAIN WordAt'[z] : WordAt'[z][i] = w
  BY <1>1
<1>3. PICK T, U, P : T = WordAt /\ U = WordAt' /\ P = WordBox
  OBVIOUS
<1>4. T \in [P -> Seq(AnyWord)] /\ z \in P /\ i \in DOMAIN U[z] /\ U[z][i] = w
  BY <1>1, <1>2, <1>3, WordView, Apart
<1>5. ASSUME NEW j \in DOMAIN T[z], T[z][j] = w PROVE InWrite(w)
  BY <1>1, <1>3, <1>5 DEF InWrite
<1>6. CASE WordsSame
  BY <1>3, <1>4, <1>5, <1>6 DEF WordsSame
<1>7. ASSUME NEW x, NEW y, NEW v, WordHop(x, y, v) PROVE InWrite(w)
  <2>1. Passes(T, U, P, x, y, v)
    BY <1>3, <1>7 DEF WordHop, WordPasses
  <2>2. (\E j \in DOMAIN T[z] : U[z][i] = T[z][j]) \/ (z = y /\ U[z][i] = v)
    BY <1>4, <2>1, PassOrigin
  <2>3. ASSUME z = y, v = w PROVE InWrite(w)
    <3>1. x \in WrBox /\ v = Head(T[x])
      BY <1>1, <1>3, <1>7, <2>3 DEF WordHop
    <3>2. x \in P /\ T[x] # << >>
      BY <2>1 DEF Passes
    <3>3. 1 \in DOMAIN T[x] /\ T[x][1] = w
      BY <1>4, <2>3, <3>1, <3>2
    <3> QED BY <1>3, <3>1, <3>3 DEF InWrite
  <2> QED BY <1>4, <1>5, <2>2, <2>3
<1>8. ASSUME NEW x, WordLeaves(x) PROVE InWrite(w)
  <2>1. Leaves(T, U, P, x)
    BY <1>3, <1>8 DEF WordLeaves
  <2>2. \E j \in DOMAIN T[z] : U[z][i] = T[z][j]
    BY <1>4, <2>1, LeaveOrigin
  <2> QED BY <1>4, <1>5, <2>2
<1> QED BY <1>6, <1>7, <1>8 DEF WordsQuiet

\* None but the one that joined.
LEMMA InWriteNew ==
  ASSUME Typed, NEW y, NEW v, WordJoins(y, v)
  PROVE  \A w : InWrite(w)' => InWrite(w) \/ (y \in WrBox /\ w = v)
<1> SUFFICES ASSUME NEW w, InWrite(w)' PROVE InWrite(w) \/ (y \in WrBox /\ w = v)
  OBVIOUS
<1>1. PICK z \in WrBox : \E i \in DOMAIN WordAt'[z] : WordAt'[z][i] = w
  BY DEF InWrite
<1>2. PICK i \in DOMAIN WordAt'[z] : WordAt'[z][i] = w
  BY <1>1
<1>3. PICK T, U, P : T = WordAt /\ U = WordAt' /\ P = WordBox
  OBVIOUS
<1>4. T \in [P -> Seq(AnyWord)] /\ z \in P /\ i \in DOMAIN U[z] /\ U[z][i] = w
  BY <1>1, <1>2, <1>3, WordView, Apart
<1>5. Joins(T, U, P, y, v)
  BY <1>3 DEF WordJoins
<1>6. (\E j \in DOMAIN T[z] : U[z][i] = T[z][j]) \/ (z = y /\ U[z][i] = v)
  BY <1>4, <1>5, JoinOrigin
<1> QED BY <1>1, <1>3, <1>4, <1>6 DEF InWrite

-----------------------------------------------------------------------------
\* Write data requests that move, none of them out of an engine.
JobsQuiet   == JobsSame \/ \E x, y : JobPasses(x, y) /\ x[1] # "job"
SameSent(j) == \A d : HasSent(j, d)' <=> HasSent(j, d)
BurstsEnd   == \A x \in WreqBox : x[1] = "job" /\ JobAt[x] = << >> => burst[x[2]][x[3]] = 0

\* What has been sent for each is the same.
LEMMA SentKept ==
  ASSUME Typed, JobsMatch, JobsQuiet, UNCHANGED burst
  PROVE  Distinct(JobAt', WreqBox) /\ (\A j : SameSent(j)) /\ BurstsEnd'
<1>1. PICK T, U, P : T = JobAt /\ U = JobAt' /\ P = WreqBox
  OBVIOUS
<1>2. T \in [P -> Seq(Token)] /\ Distinct(T, P) /\ BurstsEnd
  BY <1>1, JobView DEF JobsMatch, BurstsEnd
<1>3. \A x, i : Sent(x, i)' = Sent(x, i)
  BY DEF Sent
<1>4. \A j, d : HasSent(j, d) <=> \E x \in P : \E i \in DOMAIN T[x] : T[x][i] = j /\ Sent(x, i) = d
  BY <1>1 DEF HasSent
<1>5. \A j, d : HasSent(j, d)' <=> \E x \in P : \E i \in DOMAIN U[x] : U[x][i] = j /\ Sent(x, i) = d
  BY <1>1, <1>3 DEF HasSent
<1>6. CASE JobsSame
  <2>1. U = T
    BY <1>1, <1>6 DEF JobsSame
  <2> QED BY <1>1, <1>2, <1>4, <1>5, <2>1 DEF SameSent, BurstsEnd
<1>7. ASSUME NEW x, NEW y, JobPasses(x, y), x[1] # "job"
      PROVE  Distinct(JobAt', WreqBox) /\ (\A j : SameSent(j)) /\ BurstsEnd'
  <2>1. PICK h : h = Head(T[x])
    OBVIOUS
  <2>2. /\ x \in P /\ y \in P /\ x # y /\ T[x] # << >> /\ U[x] = Tail(T[x]) /\ U[y] = Append(T[y], h)
        /\ SameButTwo(T, U, P, x, y)
    BY <1>1, <1>7, <2>1 DEF JobPasses, Passes
  <2>3. T[x] \in Seq(Token) /\ T[y] \in Seq(Token)
    BY <1>2, <2>2
  <2>4. Distinct(U, P)
    BY <1>2, <2>1, <2>2, DistinctMove
  <2>5. \A i : Sent(x, i) = 0
    BY <1>7 DEF Sent
  <2>6. PICK l \in Nat : l = Len(T[y]) /\ DOMAIN T[y] = 1 .. l
    BY <2>3
  <2>7. DOMAIN U[y] = 1 .. l + 1 /\ U[y][l + 1] = h /\ \A i \in 1 .. l : U[y][i] = T[y][i]
    BY <2>2, <2>3, <2>6
  <2>8. Sent(y, l + 1) = 0
    <3>1. CASE y[1] = "job" /\ l = 0
      <4>1. T[y] = << >>
        <5>1. PICK u : u = T[y]
          OBVIOUS
        <5>2. u \in Seq(Token) /\ Len(u) = 0
          BY <2>3, <2>6, <3>1, <5>1
        <5>3. u = << >>
          BY <5>2
        <5> QED BY <5>1, <5>3
      <4>2. burst[y[2]][y[3]] = 0
        BY <1>1, <1>2, <2>2, <3>1, <4>1 DEF BurstsEnd
      <4> QED BY <4>2 DEF Sent
    <3>2. CASE y[1] # "job" \/ l # 0
      <4>1. ~(y[1] = "job" /\ l + 1 = 1)
        BY <3>2
      <4> QED BY <4>1 DEF Sent
    <3> QED BY <3>1, <3>2
  <2>9. PICK r \in Nat : r = Len(T[x]) /\ DOMAIN T[x] = 1 .. r /\ r > 0 /\ T[x][1] = h
    BY <2>1, <2>2, <2>3
  <2>10. DOMAIN U[x] = 1 .. r - 1 /\ \A i \in 1 .. r - 1 : U[x][i] = T[x][i + 1]
    BY <2>2, <2>3, <2>9
  <2>11. ASSUME NEW j, NEW d, NEW z \in P, NEW i \in DOMAIN U[z], U[z][i] = j, Sent(z, i) = d
         PROVE  \E w \in P : \E e \in DOMAIN T[w] : T[w][e] = j /\ Sent(w, e) = d
    <3>1. CASE z = x
      <4>1. i + 1 \in DOMAIN T[x] /\ T[x][i + 1] = j
        BY <2>9, <2>10, <2>11, <3>1
      <4> QED BY <2>2, <2>5, <2>11, <3>1, <4>1
    <3>2. CASE z = y /\ i # l + 1
      <4>1. i \in DOMAIN T[y] /\ T[y][i] = j
        BY <2>6, <2>7, <2>11, <3>2
      <4> QED BY <2>2, <2>11, <3>2, <4>1
    <3>3. CASE z = y /\ i = l + 1
      <4>1. 1 \in DOMAIN T[x] /\ T[x][1] = j /\ d = 0
        BY <2>7, <2>8, <2>9, <2>11, <3>3
      <4> QED BY <2>2, <2>5, <4>1
    <3>4. CASE z # x /\ z # y
      BY <2>2, <2>11, <3>4 DEF SameButTwo
    <3> QED BY <3>1, <3>2, <3>3, <3>4
  <2>12. ASSUME NEW j, NEW d, NEW z \in P, NEW i \in DOMAIN T[z], T[z][i] = j, Sent(z, i) = d
         PROVE  \E w \in P : \E e \in DOMAIN U[w] : U[w][e] = j /\ Sent(w, e) = d
    <3>1. CASE z = x /\ i = 1
      <4>1. l + 1 \in DOMAIN U[y] /\ U[y][l + 1] = j /\ d = 0
        BY <2>5, <2>7, <2>9, <2>12, <3>1
      <4> QED BY <2>2, <2>8, <4>1
    <3>2. CASE z = x /\ i # 1
      <4>1. i \in 1 .. r /\ T[x][i] = j /\ d = 0
        BY <2>5, <2>9, <2>12, <3>2
      <4>2. PICK c \in 1 .. r - 1 : i = c + 1
        BY <2>9, <3>2, <4>1
      <4>3. c \in DOMAIN U[x] /\ U[x][c] = j
        BY <2>10, <4>1, <4>2
      <4> QED BY <2>2, <2>5, <4>1, <4>3
    <3>3. CASE z = y
      <4>1. i \in DOMAIN U[y] /\ U[y][i] = j
        BY <2>6, <2>7, <2>12, <3>3
      <4> QED BY <2>2, <2>12, <3>3, <4>1
    <3>4. CASE z # x /\ z # y
      BY <2>2, <2>12, <3>4 DEF SameButTwo
    <3> QED BY <3>1, <3>2, <3>3, <3>4
  <2>13. ASSUME NEW j PROVE SameSent(j)
    <3>1. ASSUME NEW d PROVE HasSent(j, d)' <=> HasSent(j, d)
      BY <1>4, <1>5, <2>11, <2>12
    <3> QED BY <3>1 DEF SameSent
  <2>14. BurstsEnd'
    <3> SUFFICES ASSUME NEW z \in P, z[1] = "job", U[z] = << >> PROVE burst'[z[2]][z[3]] = 0
      BY <1>1 DEF BurstsEnd
    <3>1. z # x /\ z # y
      BY <1>7, <2>7
    <3>2. T[z] = << >>
      BY <2>2, <3>1 DEF SameButTwo
    <3> QED BY <1>1, <1>2, <3>2 DEF BurstsEnd
  <2> QED BY <1>1, <2>4, <2>13, <2>14
<1> QED BY <1>6, <1>7 DEF JobsQuiet

\* A write goes on as before.
LEMMA WriteSame ==
  ASSUME NEW n \in Node, NEW t \in Tag, WriteOf(n, t), ctrl'[n][t] = ctrl[n][t],
         ctrl[n][t].op = "write" =>
           \A s \in Slots : s = ctrl[n][t].page => Follows(s, WriteRoute(s, n)) /\ SameSent(<<s, n, t>>)
  PROVE  WriteOf(n, t)'
<1> SUFFICES ASSUME ctrl'[n][t].op = "write"
             PROVE  \E s \in Slots, k, e \in 0 .. PageWords : BeingWritten(n, t, s, k, e)'
  BY DEF WriteOf
<1>1. ctrl[n][t].op = "write"
  OBVIOUS
<1>2. PICK s \in Slots, k \in 0 .. PageWords, e \in 0 .. PageWords : BeingWritten(n, t, s, k, e)
  BY <1>1 DEF WriteOf
<1>3. /\ ctrl[n][t].page = s /\ ctrl[n][t].cnt = k /\ Travel(s, WriteRoute(s, n), k, e)
      /\ \A d \in 0 .. PageWords - 1 : HasSent(<<s, n, t>>, d) => e = d
      /\ ctrl[n][t].asked /\ (\A d \in 0 .. PageWords - 1 : ~HasSent(<<s, n, t>>, d)) => e = PageWords
      /\ ~ctrl[n][t].asked => e = 0
  BY <1>2 DEF BeingWritten
<1>4. Follows(s, WriteRoute(s, n)) /\ SameSent(<<s, n, t>>)
  BY <1>1, <1>3
<1>5. PICK R : R = WriteRoute(s, n)
  OBVIOUS
<1>6. Travel(s, R, k, e)'
  BY <1>3, <1>4, <1>5 DEF Follows
<1>7. Travel(s, WriteRoute(s, n), k, e)'
  BY <1>5, <1>6 DEF WriteRoute, AtNode
<1>8. \A d : HasSent(<<s, n, t>>, d)' <=> HasSent(<<s, n, t>>, d)
  BY <1>4 DEF SameSent
<1>9. BeingWritten(n, t, s, k, e)'
  BY <1>3, <1>7, <1>8 DEF BeingWritten
<1> QED BY <1>9

-----------------------------------------------------------------------------
\* Reads go on as before when only requests and words move.
LEMMA QuietReads ==
  ASSUME Typed, ReadInv, ReqsQuiet, WordsQuiet, UNCHANGED <<pending, ctrl>>
  PROVE  ReadInv'
<1> SUFFICES ASSUME NEW s \in Slots, s[2] = "read" PROVE ReadOf(s)'
  BY DEF ReadInv
<1>1. ReadOf(s)
  BY DEF ReadInv
<1>2. StillNone(s) /\ \A m \in Node : Follows(s, ReadRoute(s, m))
  BY ReadsFollow
<1>3. Commanded(s)' => Commanded(s)
  BY CommandKept
<1>4. SameWork(s)
  BY DEF SameWork, Works
<1>5. pending'[s] = pending[s]
  OBVIOUS
<1> QED BY <1>1, <1>2, <1>3, <1>4, <1>5, ReadSame

\* Write data requests are still for writes that asked.
LEMMA JobsKept ==
  ASSUME JobsMatch, Distinct(JobAt', WreqBox), \A j : SameSent(j), BurstsEnd',
         \A n \in Node, t \in Tag, s \in Slots :
           (\E d \in 0 .. PageWords - 1 : HasSent(<<s, n, t>>, d)) /\ Writes(n, t, s)
             => Writes(n, t, s)'
  PROVE  JobsMatch'
<1>1. ASSUME NEW j \in Token, NEW d \in 0 .. PageWords - 1, HasSent(j, d)'
      PROVE  Writes(j[2], j[3], j[1])'
  <2>1. HasSent(j, d)
    BY <1>1 DEF SameSent
  <2>2. Writes(j[2], j[3], j[1])
    BY <2>1 DEF JobsMatch
  <2>3. j = <<j[1], j[2], j[3]>>
    BY DEF Token
  <2>4. PICK n \in Node, t \in Tag, s \in Slots : n = j[2] /\ t = j[3] /\ s = j[1]
    BY DEF Token
  <2>5. HasSent(<<s, n, t>>, d) /\ Writes(n, t, s)
    BY <2>1, <2>2, <2>3, <2>4
  <2>6. Writes(n, t, s)'
    BY <2>5
  <2> QED BY <2>4, <2>6 DEF Writes
<1> QED BY <1>1 DEF JobsMatch, BurstsEnd

\* Writes go on as before when only words and write data requests move.
LEMMA QuietWrites ==
  ASSUME Typed, ReqInv, WriteInv, WordsQuiet, JobsQuiet, UNCHANGED <<ctrl, burst>>
  PROVE  WriteInv'
<1>1. JobsMatch /\ WordsWanted /\ \A n \in Node, t \in Tag : WriteOf(n, t)
  BY DEF WriteInv
<1>2. Distinct(JobAt', WreqBox) /\ (\A j : SameSent(j)) /\ BurstsEnd'
  BY <1>1, SentKept
<1>3. \A n, t, s : Writes(n, t, s)' <=> Writes(n, t, s)
  BY DEF Writes
<1>4. JobsMatch'
  BY <1>1, <1>2, <1>3, JobsKept
<1>5. WordsWanted'
  <2>1. \A w : InWrite(w)' => InWrite(w)
    BY InWriteKept
  <2>2. \A w : Wanted(w)' <=> Wanted(w)
    BY <1>3 DEF Wanted
  <2> QED BY <1>1, <2>1, <2>2 DEF WordsWanted
<1>6. ASSUME NEW n \in Node, NEW t \in Tag PROVE WriteOf(n, t)'
  <2>1. ctrl'[n][t] = ctrl[n][t] /\ WriteOf(n, t)
    BY <1>1
  <2>2. ASSUME ctrl[n][t].op = "write", NEW s \in Slots, s = ctrl[n][t].page
        PROVE  Follows(s, WriteRoute(s, n)) /\ SameSent(<<s, n, t>>)
    BY <1>1, <1>2, <2>2, WritesFollow
  <2> QED BY <2>1, <2>2, WriteSame
<1> QED BY <1>4, <1>5, <1>6 DEF WriteInv

\* Requests, words and write data requests move, and nothing else happens.
LEMMA QuietStep ==
  ASSUME HostInv, TagInv', ReqsQuiet, WordsQuiet, JobsQuiet, UNCHANGED <<pending, ctrl, burst>>
  PROVE  HostInv'
<1>1. Typed /\ ReqInv /\ ReadInv /\ WriteInv
  BY DEF HostInv, TagInv
<1>2. ReqInv'
  <2>1. ReqAt' = ReqAt \/ (\E x, y : ReqPasses(x, y)) \/ (\E x : ReqLeaves(x))
    BY DEF ReqsQuiet, ReqsSame
  <2>2. \A s \in Slots : pending[s] # Idle => pending'[s] # Idle
    OBVIOUS
  <2> QED BY <1>1, <2>1, <2>2, ReqKept
<1>3. ReadInv'
  BY <1>1, QuietReads
<1>4. WriteInv'
  BY <1>1, QuietWrites
<1> QED BY <1>2, <1>3, <1>4 DEF HostInv

-----------------------------------------------------------------------------
\* The queues after an item was put, taken or moved.
LEMMA AfterPut ==
  ASSUME Typed, NEW n \in Node, NEW f \in Names, NEW v, q' = Enq(n, f, v)
  PROVE  \A m \in Node, h \in Names :
           q'[m][h] = IF m = n /\ h = f THEN Append(q[n][f], v) ELSE q[m][h]
BY DEF Enq, Typed, QueuesTyped

\* A queue after its first item is taken.
LEMMA AfterGet ==
  ASSUME Typed, NEW n \in Node, NEW f \in Names, q' = Deq(n, f)
  PROVE  \A m \in Node, h \in Names :
           q'[m][h] = IF m = n /\ h = f THEN Tail(q[n][f]) ELSE q[m][h]
BY DEF Deq, Typed, QueuesTyped

\* Two queues after an item goes from one to the other.
LEMMA AfterMove ==
  ASSUME Typed, NEW n \in Node, NEW f \in Names, NEW g \in Names, f # g, NEW v,
         q' = Move(n, f, g, v)
  PROVE  \A m \in Node, h \in Names :
           q'[m][h] = IF m = n /\ h = f THEN Tail(q[n][f])
                      ELSE IF m = n /\ h = g THEN Append(q[n][g], v) ELSE q[m][h]
BY DEF Move, Typed, QueuesTyped

\* Which boxes hold what.
LEMMA NodeBoxes ==
  /\ BoxQ \subseteq Names
  /\ \A n \in Node :
       /\ \A f \in ReqQ : AtNode(f, n) \in ReqBox
       /\ \A f \in ReadQ : AtNode(f, n) \in WordBox \ WrBox
       /\ \A f \in WrQ : AtNode(f, n) \in WrBox /\ AtNode(f, n) \in WordBox
       /\ \A f \in WreqQ : AtNode(f, n) \in WreqBox
       /\ \A f \in BoxQ : AtNode(f, n) \in Box /\ AtNode(f, n)[1] = f /\ AtNode(f, n)[1] # "job"
       /\ AtNode("host", n) \in ReqBox /\ AtNode("host", n) \in Box
       /\ \A t \in Tag : <<"ctrl", n, t>> \in ReqBox
       /\ \A p \in Eng : <<"job", n, p>> \in WreqBox
       /\ \A m \in Node :
            /\ <<"cmd", m, n>> \in ReqBox /\ <<"ack", m, n>> \in ReqBox
            /\ <<"rd", m, n>> \in WordBox \ WrBox
            /\ <<"wd", m, n>> \in WrBox /\ <<"wd", m, n>> \in WordBox
            /\ <<"wreq", m, n>> \in WreqBox
<1>1. BoxQ \subseteq Names
  BY DEF BoxQ, ReqQ, ReadQ, WrQ, WreqQ, Names, SizedQ, PlainQ
<1> SUFFICES ASSUME NEW n \in Node
    PROVE  /\ \A f \in ReqQ : AtNode(f, n) \in ReqBox
           /\ \A f \in ReadQ : AtNode(f, n) \in WordBox \ WrBox
           /\ \A f \in WrQ : AtNode(f, n) \in WrBox /\ AtNode(f, n) \in WordBox
           /\ \A f \in WreqQ : AtNode(f, n) \in WreqBox
           /\ \A f \in BoxQ : AtNode(f, n) \in Box /\ AtNode(f, n)[1] = f /\ AtNode(f, n)[1] # "job"
           /\ AtNode("host", n) \in ReqBox /\ AtNode("host", n) \in Box
           /\ \A t \in Tag : <<"ctrl", n, t>> \in ReqBox
           /\ \A p \in Eng : <<"job", n, p>> \in WreqBox
           /\ \A m \in Node :
                /\ <<"cmd", m, n>> \in ReqBox /\ <<"ack", m, n>> \in ReqBox
                /\ <<"rd", m, n>> \in WordBox \ WrBox
                /\ <<"wd", m, n>> \in WrBox /\ <<"wd", m, n>> \in WordBox
                /\ <<"wreq", m, n>> \in WreqBox
  BY <1>1
<1>2. \A f \in BoxQ : AtNode(f, n) \in Box /\ AtNode(f, n)[1] = f
  BY HeldIs
<1>3. AtNode("host", n) \in Box /\ AtNode("host", n)[1] = "host"
  BY HeldIs
<1>4. \A f \in ReqQ : AtNode(f, n) \in ReqBox
  BY <1>2 DEF BoxQ, ReqBox, BoxOf
<1>5. \A f \in ReadQ : AtNode(f, n) \in WordBox \ WrBox
  <2> SUFFICES ASSUME NEW f \in ReadQ PROVE AtNode(f, n) \in WordBox \ WrBox
    OBVIOUS
  <2>1. f \notin WrQ /\ f # "wd"
    BY DEF ReadQ, WrQ
  <2> QED BY <1>2, <2>1 DEF BoxQ, WordBox, WrBox, BoxOf
<1>6. \A f \in WrQ : AtNode(f, n) \in WrBox /\ AtNode(f, n) \in WordBox
  BY <1>2 DEF BoxQ, WordBox, WrBox, BoxOf
<1>7. \A f \in WreqQ : AtNode(f, n) \in WreqBox
  BY <1>2 DEF BoxQ, WreqBox, BoxOf
<1>8. \A f \in BoxQ : AtNode(f, n)[1] # "job"
  BY <1>2, Kinds
<1>9. AtNode("host", n) \in ReqBox
  BY <1>3 DEF ReqBox, BoxOf
<1>10. \A t \in Tag : <<"ctrl", n, t>> \in ReqBox
  BY HeldIs DEF ReqBox, BoxOf
<1>11. \A p \in Eng : <<"job", n, p>> \in WreqBox
  BY HeldIs DEF WreqBox, BoxOf
<1>12. ASSUME NEW m \in Node
       PROVE  /\ <<"cmd", m, n>> \in ReqBox /\ <<"ack", m, n>> \in ReqBox
              /\ <<"rd", m, n>> \in WordBox \ WrBox
              /\ <<"wd", m, n>> \in WrBox /\ <<"wd", m, n>> \in WordBox
              /\ <<"wreq", m, n>> \in WreqBox
  <2>1. \A c \in Class : <<c, m, n>> \in Box /\ <<c, m, n>>[1] = c
    BY HeldIs
  <2>2. {"cmd", "ack", "rd", "wd", "wreq"} \subseteq Class
    BY DEF Class
  <2>3. <<"cmd", m, n>> \in ReqBox /\ <<"ack", m, n>> \in ReqBox
    BY <2>1, <2>2 DEF ReqBox, BoxOf
  <2>4. <<"rd", m, n>> \in WordBox \ WrBox /\ <<"wd", m, n>> \in WrBox /\ <<"wd", m, n>> \in WordBox
    BY RouteBoxes, Apart
  <2>5. <<"wreq", m, n>> \in WreqBox
    BY <2>1, <2>2 DEF WreqBox, BoxOf
  <2> QED BY <2>3, <2>4, <2>5
<1> QED BY <1>2, <1>3, <1>4, <1>5, <1>6, <1>7, <1>8, <1>9, <1>10, <1>11, <1>12

-----------------------------------------------------------------------------
\* Moves that are quiet.
Quiet == ReqsQuiet /\ WordsQuiet /\ JobsQuiet

\* A step that leaves every box as it is.
LEMMA StayQuiet == ASSUME Typed, StaysIn(Box) PROVE Quiet
BY NothingMoves DEF Quiet, ReqsQuiet, WordsQuiet, JobsQuiet

\* Of a request.
LEMMA RequestQuiet ==
  ASSUME Typed, NEW x \in ReqBox, NEW y \in ReqBox, NEW v, MovesIn(Box, x, y, v),
         SlotIn(y[1], v) = SlotIn(x[1], Head(Held(x))), y[1] \in CmdKinds => x[1] \in CmdKinds
  PROVE  Quiet
BY RequestMoves DEF Quiet, ReqsQuiet, WordsQuiet, JobsQuiet

\* Of a write data request.
LEMMA JobQuiet ==
  ASSUME Typed, NEW x \in WreqBox, NEW y \in WreqBox, NEW v, MovesIn(Box, x, y, v),
         JobOf(y, v) = JobOf(x, Head(Held(x))), x[1] # "job"
  PROVE  Quiet
BY JobMoves DEF Quiet, ReqsQuiet, WordsQuiet, JobsQuiet

\* Of a word.
LEMMA WordQuiet ==
  ASSUME Typed, NEW x \in WordBox, NEW y \in WordBox, NEW v \in AnyWord, MovesIn(Box, x, y, v),
         v.page = Head(Held(x)).page, v.idx = Head(Held(x)).idx,
         x \in WrBox <=> y \in WrBox, x \in WrBox => v = Head(Held(x)),
         \A s \in Slots, m \in Node :
           v.page = s => Hop(ReadRoute(s, m), x, y) /\ (v.dst = m => Hop(WriteRoute(s, m), x, y))
  PROVE  Quiet
<1>1. WordPasses(x, y, v) /\ ReqsSame /\ JobsSame
  BY WordMoves
<1>2. WordAt[x] = Held(x)
  BY WordView
<1>3. WordHop(x, y, v)
  BY <1>1, <1>2 DEF WordHop
<1> QED BY <1>1, <1>3 DEF Quiet, ReqsQuiet, WordsQuiet, JobsQuiet

-----------------------------------------------------------------------------
\* A word goes on: from queue to queue of a node, or to the network and back.
LEMMA ReadHops ==
  ASSUME NEW s \in Slots, NEW m \in Node, NEW n \in Node
  PROVE  /\ \A f : f = (IF s[1] = n THEN "locRdOutQ" ELSE "remRdOutQ") =>
              Hop(ReadRoute(s, m), AtNode("locRdInQ", n), AtNode(f, n))
         /\ Hop(ReadRoute(s, m), AtNode("remRdOutQ", n), <<"rd", n, s[1]>>)
         /\ \A a : Hop(ReadRoute(s, m), <<"rd", a, n>>, AtNode("remRdInQ", n))
         /\ Hop(ReadRoute(s, m), AtNode("remRdInQ", n), AtNode("locRdOutQ", n))
<1>1. PICK R : R = ReadRoute(s, m)
  OBVIOUS
<1>2. CASE m = s[1]
  <2>1. R = <<AtNode("locRdOutQ", m), AtNode("locRdInQ", m)>>
    BY <1>1, <1>2 DEF ReadRoute
  <2>2. DOMAIN R = {1, 2} /\ R[1] = AtNode("locRdOutQ", m) /\ R[2] = AtNode("locRdInQ", m)
    BY <2>1
  <2>3. ASSUME NEW f, f = IF s[1] = n THEN "locRdOutQ" ELSE "remRdOutQ"
        PROVE  Hop(R, AtNode("locRdInQ", n), AtNode(f, n))
    BY <1>2, <2>2, <2>3 DEF Hop, AtNode
  <2>4. Hop(R, AtNode("remRdOutQ", n), <<"rd", n, s[1]>>)
    BY <2>2 DEF Hop, AtNode
  <2>5. ASSUME NEW a PROVE Hop(R, <<"rd", a, n>>, AtNode("remRdInQ", n))
    BY <2>2 DEF Hop, AtNode
  <2>6. Hop(R, AtNode("remRdInQ", n), AtNode("locRdOutQ", n))
    BY <2>2 DEF Hop, AtNode
  <2> QED BY <1>1, <2>3, <2>4, <2>5, <2>6
<1>3. CASE m # s[1]
  <2>1. R = <<AtNode("locRdOutQ", s[1]), AtNode("remRdInQ", s[1]), <<"rd", m, s[1]>>,
              AtNode("remRdOutQ", m), AtNode("locRdInQ", m)>>
    BY <1>1, <1>3 DEF ReadRoute
  <2>2. /\ DOMAIN R = {1, 2, 3, 4, 5} /\ R[1] = AtNode("locRdOutQ", s[1])
        /\ R[2] = AtNode("remRdInQ", s[1]) /\ R[3] = <<"rd", m, s[1]>>
        /\ R[4] = AtNode("remRdOutQ", m) /\ R[5] = AtNode("locRdInQ", m)
    BY <2>1
  <2>3. ASSUME NEW f, f = IF s[1] = n THEN "locRdOutQ" ELSE "remRdOutQ"
        PROVE  Hop(R, AtNode("locRdInQ", n), AtNode(f, n))
    BY <1>3, <2>2, <2>3 DEF Hop, AtNode
  <2>4. Hop(R, AtNode("remRdOutQ", n), <<"rd", n, s[1]>>)
    BY <2>2 DEF Hop, AtNode
  <2>5. ASSUME NEW a PROVE Hop(R, <<"rd", a, n>>, AtNode("remRdInQ", n))
    BY <2>2 DEF Hop, AtNode
  <2>6. Hop(R, AtNode("remRdInQ", n), AtNode("locRdOutQ", n))
    BY <2>2 DEF Hop, AtNode
  <2> QED BY <1>1, <2>3, <2>4, <2>5, <2>6
<1> QED BY <1>2, <1>3

\* The same for a word to be written.
LEMMA WriteHops ==
  ASSUME NEW s \in Slots, NEW m \in Node, NEW n \in Node
  PROVE  /\ \A f : f = (IF m = n THEN "locWdataOutQ" ELSE "remWdataOutQ") =>
              Hop(WriteRoute(s, m), AtNode("locWdataInQ", n), AtNode(f, n))
         /\ Hop(WriteRoute(s, m), AtNode("remWdataOutQ", n), <<"wd", n, m>>)
         /\ \A a : Hop(WriteRoute(s, m), <<"wd", a, n>>, AtNode("locWdataOutQ", n))
<1>1. PICK R : R = WriteRoute(s, m)
  OBVIOUS
<1>2. CASE m = s[1]
  <2>1. R = <<AtNode("locWdataOutQ", m), AtNode("locWdataInQ", m)>>
    BY <1>1, <1>2 DEF WriteRoute
  <2>2. DOMAIN R = {1, 2} /\ R[1] = AtNode("locWdataOutQ", m) /\ R[2] = AtNode("locWdataInQ", m)
    BY <2>1
  <2>3. ASSUME NEW f, f = IF m = n THEN "locWdataOutQ" ELSE "remWdataOutQ"
        PROVE  Hop(R, AtNode("locWdataInQ", n), AtNode(f, n))
    BY <2>2, <2>3 DEF Hop, AtNode
  <2>4. Hop(R, AtNode("remWdataOutQ", n), <<"wd", n, m>>)
    BY <2>2 DEF Hop, AtNode
  <2>5. ASSUME NEW a PROVE Hop(R, <<"wd", a, n>>, AtNode("locWdataOutQ", n))
    BY <2>2 DEF Hop, AtNode
  <2> QED BY <1>1, <2>3, <2>4, <2>5
<1>3. CASE m # s[1]
  <2>1. R = <<AtNode("locWdataOutQ", m), <<"wd", s[1], m>>,
              AtNode("remWdataOutQ", s[1]), AtNode("locWdataInQ", s[1])>>
    BY <1>1, <1>3 DEF WriteRoute
  <2>2. /\ DOMAIN R = {1, 2, 3, 4} /\ R[1] = AtNode("locWdataOutQ", m) /\ R[2] = <<"wd", s[1], m>>
        /\ R[3] = AtNode("remWdataOutQ", s[1]) /\ R[4] = AtNode("locWdataInQ", s[1])
    BY <2>1
  <2>3. ASSUME NEW f, f = IF m = n THEN "locWdataOutQ" ELSE "remWdataOutQ"
        PROVE  Hop(R, AtNode("locWdataInQ", n), AtNode(f, n))
    BY <1>3, <2>2, <2>3 DEF Hop, AtNode
  <2>4. Hop(R, AtNode("remWdataOutQ", n), <<"wd", n, m>>)
    BY <2>2 DEF Hop, AtNode
  <2>5. ASSUME NEW a PROVE Hop(R, <<"wd", a, n>>, AtNode("locWdataOutQ", n))
    BY <2>2 DEF Hop, AtNode
  <2> QED BY <1>1, <2>3, <2>4, <2>5
<1> QED BY <1>2, <1>3

\* Words to be written are not on the routes of reads, and the other way round.
LEMMA NoHops ==
  ASSUME NEW s \in Slots, NEW m \in Node, NEW x, NEW y
  PROVE  /\ x \in WrBox => Hop(ReadRoute(s, m), x, y)
         /\ x \notin WrBox => Hop(WriteRoute(s, m), x, y)
<1>1. \A j \in DOMAIN ReadRoute(s, m) : ReadRoute(s, m)[j] \notin WrBox
  BY ReadRouteIs
<1>2. \A j \in DOMAIN WriteRoute(s, m) : WriteRoute(s, m)[j] \in WrBox
  BY WriteRouteIs
<1> QED BY <1>1, <1>2 DEF Hop

-----------------------------------------------------------------------------
\* Between queues of a node.
LEMMA NodeMove ==
  ASSUME Typed, NEW n \in Node, NEW f \in BoxQ, NEW g \in BoxQ, f # g, NEW v, NotEmpty(n, f),
         \A m \in Node, h \in BoxQ :
           q'[m][h] = IF m = n /\ h = f THEN Tail(q[n][f])
                      ELSE IF m = n /\ h = g THEN Append(q[n][g], v) ELSE q[m][h],
         UNCHANGED <<flashCmdQ, ctrl, job, net>>
  PROVE  /\ MovesIn(Box, AtNode(f, n), AtNode(g, n), v) /\ Held(AtNode(f, n)) = q[n][f]
         /\ AtNode(f, n)[1] = f /\ AtNode(g, n)[1] = g
<1>1. Elsewhere(Box) /\ Box \subseteq Box
  BY OtherBoxes
<1>2. AtNode(f, n) \in Box /\ AtNode(g, n) \in Box /\ AtNode(f, n)[1] = f /\ AtNode(g, n)[1] = g
  BY NodeBoxes
<1>3. Held(AtNode(f, n)) = q[n][f]
  BY HeldIs
<1>4. PICK B : B = Box
  OBVIOUS
<1>5. MovesIn(B, AtNode(f, n), AtNode(g, n), v)
  BY <1>1, <1>2, <1>4, QueueMoves
<1> QED BY <1>2, <1>3, <1>4, <1>5

\* A rule of the splitter that moves an item.
LEMMA SplitterMoves ==
  ASSUME Typed, Outside, NEW n \in Node, NEW f \in BoxQ, NEW g \in BoxQ, f # g, NEW v,
         NotEmpty(n, f), q' = Move(n, f, g, v)
  PROVE  /\ MovesIn(Box, AtNode(f, n), AtNode(g, n), v) /\ Held(AtNode(f, n)) = q[n][f]
         /\ AtNode(f, n)[1] = f /\ AtNode(g, n)[1] = g
<1>1. UNCHANGED <<flashCmdQ, ctrl, job, net>>
  BY DEF Outside, hostVars, dmaVars
<1>2. BoxQ \subseteq Names
  BY NodeBoxes
<1>3. \A m \in Node, h \in BoxQ :
        q'[m][h] = IF m = n /\ h = f THEN Tail(q[n][f])
                   ELSE IF m = n /\ h = g THEN Append(q[n][g], v) ELSE q[m][h]
  <2>1. f \in Names /\ g \in Names
    BY <1>2
  <2>2. \A m \in Node, h \in Names :
          q'[m][h] = IF m = n /\ h = f THEN Tail(q[n][f])
                     ELSE IF m = n /\ h = g THEN Append(q[n][g], v) ELSE q[m][h]
    BY <2>1, AfterMove
  <2> QED BY <1>2, <2>2
<1> QED BY <1>1, <1>3, NodeMove

-----------------------------------------------------------------------------
\* What a step of the splitter leaves alone.
LEMMA OutsideStays == Outside => UNCHANGED <<pending, ctrl, burst, flashCmdQ, job, net>>
BY DEF Outside, hostVars, dmaVars

\* Tags that come and go are not in boxes.
LEMMA TagRulesQuiet ==
  ASSUME Typed, Outside, NEW n \in Node, InitFreeTagQ(n) \/ RecycleTags(n) \/ LookUpRData(n)
  PROVE  Quiet
<1>1. \A m \in Node, h \in BoxQ : q'[m][h] = q[m][h]
  <2>1. CASE InitFreeTagQ(n) \/ RecycleTags(n)
    BY <2>1 DEF InitFreeTagQ, RecycleTags
  <2>2. CASE LookUpRData(n)
    <3>1. PICK v : q' = Move(n, "locRdInTagQ", "lookupQ", v)
      BY <2>2 DEF LookUpRData
    <3>2. "locRdInTagQ" \in Names /\ "lookupQ" \in Names /\ "locRdInTagQ" # "lookupQ"
      BY DEF Names, SizedQ, PlainQ
    <3>3. \A m \in Node, h \in Names :
            q'[m][h] = IF m = n /\ h = "locRdInTagQ" THEN Tail(q[n]["locRdInTagQ"])
                       ELSE IF m = n /\ h = "lookupQ" THEN Append(q[n]["lookupQ"], v) ELSE q[m][h]
      BY <3>1, <3>2, AfterMove
    <3>4. \A h \in BoxQ : h \in Names /\ h # "locRdInTagQ" /\ h # "lookupQ"
      BY NodeBoxes DEF BoxQ, ReqQ, ReadQ, WrQ, WreqQ
    <3> QED BY <3>3, <3>4
  <2> QED BY <2>1, <2>2
<1>2. PICK B : B = Box
  OBVIOUS
<1>3. B \subseteq Box /\ Elsewhere(B)
  BY <1>2, OtherBoxes, OutsideStays
<1>4. StaysIn(B)
  BY <1>1, <1>3, QueuesStay
<1> QED BY <1>2, <1>4, StayQuiet

\* A command for this flash.
LEMMA RenameTagsQuiet ==
  ASSUME Typed, Outside, NEW n \in Node, RenameTags(n)
  PROVE  Quiet
<1>1. PICK cmd, v : /\ cmd = First(n, "locCmdInQ") /\ v.page = cmd.page
                    /\ NotEmpty(n, "locCmdInQ") /\ q' = Move(n, "locCmdInQ", "locCmdOutQ", v)
  <2>1. PICK cmd, t : cmd = First(n, "locCmdInQ") /\ t = Head(freeTagQ[n])
    OBVIOUS
  <2>2. NotEmpty(n, "locCmdInQ") /\ q' = Move(n, "locCmdInQ", "locCmdOutQ", [cmd EXCEPT !.tag = t])
    BY <2>1 DEF RenameTags
  <2>3. cmd \in HostCmd
    <3>1. "locCmdInQ" \in Names
      BY DEF Names, SizedQ, PlainQ
    <3>2. cmd \in ItemsOf(n)["locCmdInQ"]
      BY <2>1, <2>2, <3>1, FirstType DEF Typed
    <3> QED BY <3>2 DEF ItemsOf, To
  <2>4. [cmd EXCEPT !.tag = t].page = cmd.page
    BY <2>3 DEF HostCmd
  <2> QED BY <2>1, <2>2, <2>4
<1>2. "locCmdInQ" \in ReqQ /\ "locCmdOutQ" \in ReqQ /\ ReqQ \subseteq BoxQ
  BY DEF ReqQ, BoxQ
<1>3. PICK x, y : x = AtNode("locCmdInQ", n) /\ y = AtNode("locCmdOutQ", n)
  OBVIOUS
<1>4. /\ MovesIn(Box, x, y, v) /\ Held(x) = q[n]["locCmdInQ"]
      /\ x[1] = "locCmdInQ" /\ y[1] = "locCmdOutQ"
  BY <1>1, <1>2, <1>3, SplitterMoves
<1>5. x \in ReqBox /\ y \in ReqBox
  BY <1>2, <1>3, NodeBoxes
<1>6. SlotIn(y[1], v) = SlotIn(x[1], Head(Held(x))) /\ x[1] \in CmdKinds
  BY <1>1, <1>4 DEF SlotIn, CmdKinds, First
<1> QED BY <1>4, <1>5, <1>6, RequestQuiet

\* An ack for this node or another.
LEMMA ForwardAckQuiet ==
  ASSUME Typed, Outside, NEW n \in Node, ForwardAck(n)
  PROVE  Quiet
<1>1. PICK in, g : /\ in = First(n, "locAckInQ")
                   /\ g = IF in.entry.src = n THEN "locAckOutQ" ELSE "remAckOutQ"
                   /\ NotEmpty(n, "locAckInQ") /\ q' = Move(n, "locAckInQ", g, AckFor(in))
  BY DEF ForwardAck
<1>2. "locAckInQ" \in ReqQ /\ g \in ReqQ /\ g # "locAckInQ" /\ ReqQ \subseteq BoxQ
  BY <1>1 DEF ReqQ, BoxQ
<1>3. PICK x, y, v : x = AtNode("locAckInQ", n) /\ y = AtNode(g, n) /\ v = AckFor(in)
  OBVIOUS
<1>4. MovesIn(Box, x, y, v) /\ Held(x) = q[n]["locAckInQ"] /\ x[1] = "locAckInQ" /\ y[1] = g
  BY <1>1, <1>2, <1>3, SplitterMoves
<1>5. x \in ReqBox /\ y \in ReqBox
  BY <1>2, <1>3, NodeBoxes
<1>6. SlotIn(y[1], v) = SlotIn(x[1], Head(Held(x)))
  <2>1. v.dst = in.entry.src /\ v.status = in.status /\ v.tag = in.entry.origTag
    BY <1>3 DEF AckFor
  <2>2. y[1] \in {"remAckOutQ", "locAckOutQ", "ack"} /\ y[1] # "locAckInQ"
    BY <1>1, <1>4
  <2>3. Head(Held(x)) = in
    BY <1>1, <1>4 DEF First
  <2> QED BY <1>4, <2>1, <2>2, <2>3 DEF SlotIn
<1>7. y[1] \notin CmdKinds
  BY <1>1, <1>4 DEF CmdKinds
<1> QED BY <1>4, <1>5, <1>6, <1>7, RequestQuiet

\* A write data request for this node or another.
LEMMA ForwardWreqQuiet ==
  ASSUME Typed, Outside, NEW n \in Node, ForwardWreq(n)
  PROVE  Quiet
<1>1. PICK in, g : /\ in = First(n, "locWreqInQ")
                   /\ g = IF in.entry.src = n THEN "locWreqOutQ" ELSE "remWreqOutQ"
                   /\ NotEmpty(n, "locWreqInQ") /\ q' = Move(n, "locWreqInQ", g, WreqFor(n, in))
  BY DEF ForwardWreq
<1>2. "locWreqInQ" \in WreqQ /\ g \in WreqQ /\ g # "locWreqInQ" /\ WreqQ \subseteq BoxQ
  BY <1>1 DEF WreqQ, BoxQ
<1>3. PICK x, y, v : x = AtNode("locWreqInQ", n) /\ y = AtNode(g, n) /\ v = WreqFor(n, in)
  OBVIOUS
<1>4. MovesIn(Box, x, y, v) /\ Held(x) = q[n]["locWreqInQ"] /\ x[1] = "locWreqInQ" /\ y[1] = g
  BY <1>1, <1>2, <1>3, SplitterMoves
<1>5. x \in WreqBox /\ y \in WreqBox /\ x[2] = n
  BY <1>2, <1>3, NodeBoxes DEF AtNode
<1>6. JobOf(y, v) = JobOf(x, Head(Held(x)))
  <2>1. /\ v.dst = in.entry.src /\ v.origTag = in.entry.origTag /\ v.src = n
        /\ v.reTag = in.reTag
    BY <1>3 DEF WreqFor
  <2>2. y[1] # "locWreqInQ"
    BY <1>2, <1>4
  <2>3. Head(Held(x)) = in
    BY <1>1, <1>4 DEF First
  <2> QED BY <1>4, <1>5, <2>1, <2>2, <2>3 DEF JobOf
<1>7. x[1] # "job"
  BY <1>4
<1> QED BY <1>4, <1>5, <1>6, <1>7, JobQuiet

-----------------------------------------------------------------------------
\* A word that moves unchanged.
LEMMA SameWordQuiet ==
  ASSUME Typed, NEW x \in WordBox, NEW y \in WordBox, NEW v, v = Head(Held(x)),
         MovesIn(Box, x, y, v), x \in WrBox <=> y \in WrBox,
         \A s \in Slots, m \in Node :
           v.page = s => Hop(ReadRoute(s, m), x, y) /\ (v.dst = m => Hop(WriteRoute(s, m), x, y))
  PROVE  v \in AnyWord /\ Quiet
<1>1. Held(x) \in Seq(AnyWord) /\ Held(x) # << >>
  BY WordTypes DEF MovesIn
<1>2. v \in AnyWord
  BY <1>1
<1> QED BY <1>2, WordQuiet

\* A word read is given its host's tag and sent there.
LEMMA RetagRDataQuiet ==
  ASSUME TagInv, Outside, NEW n \in Node, RetagRData(n)
  PROVE  Quiet
<1>1. PICK word, look, g, v :
        /\ word = First(n, "locRdInQ") /\ look = First(n, "lookupQ")
        /\ g = IF look.entry.src = n THEN "locRdOutQ" ELSE "remRdOutQ"
        /\ v = [word EXCEPT !.tag = look.entry.origTag, !.dst = look.entry.src]
        /\ NotEmpty(n, "locRdInQ") /\ NotEmpty(n, "lookupQ")
        /\ q' = [q EXCEPT ![n]["locRdInQ"] = Tail(@), ![n]["lookupQ"] = Tail(@),
                          ![n][g] = Append(@, v)]
  BY DEF RetagRData
<1>2. Typed /\ NodeInv(n)
  BY DEF TagInv
<1>3. q[n].locRdInQ \in Seq(RdWord) /\ q[n].lookupQ \in Seq(Looked)
  BY <1>2, QueueTypes DEF Typed
<1>4. word \in RdWord /\ look \in Looked /\ 1 \in DOMAIN q[n].lookupQ
      /\ word = q[n].locRdInQ[1] /\ look = q[n].lookupQ[1]
  <2>1. PICK a, b : a = q[n].locRdInQ /\ b = q[n].lookupQ
    OBVIOUS
  <2>2. a \in Seq(RdWord) /\ b \in Seq(Looked) /\ a # << >> /\ b # << >> /\ word = Head(a) /\ look = Head(b)
    BY <1>1, <1>3, <2>1 DEF First, NotEmpty
  <2>3. word \in RdWord /\ look \in Looked /\ 1 \in DOMAIN b /\ word = a[1] /\ look = b[1]
    BY <2>2
  <2> QED BY <2>1, <2>3
<1>5. look.entry = EntryOf(word.page)
  BY <1>2, <1>4 DEF NodeInv, Aligned
<1>6. word.page \in Slots /\ word.page[1] \in Node
  BY <1>4, SlotEntry DEF RdWord
<1>7. look.entry.src = word.page[1] /\ look.entry.origTag \in Nat
  BY <1>4, <1>5, <1>6, SlotEntry DEF Looked, Entry
<1>8. v \in AnyWord /\ v.page = word.page /\ v.idx = word.idx
  BY <1>1, <1>4, <1>6, <1>7 DEF RdWord, AnyWord
<1>9. "locRdInQ" \in ReadQ /\ g \in ReadQ /\ g # "locRdInQ" /\ ReadQ \subseteq BoxQ
  BY <1>1 DEF ReadQ, BoxQ
<1>10. \A m \in Node, h \in BoxQ :
         q'[m][h] = IF m = n /\ h = "locRdInQ" THEN Tail(q[n]["locRdInQ"])
                    ELSE IF m = n /\ h = g THEN Append(q[n][g], v) ELSE q[m][h]
  <2>1. q \in [Node -> [Names -> QSet]] /\ BoxQ \subseteq Names /\ "lookupQ" \in Names
    BY <1>2, NodeBoxes DEF Typed, QueuesTyped, Names, SizedQ, PlainQ
  <2>2. "lookupQ" \notin BoxQ
    BY DEF BoxQ, ReqQ, ReadQ, WrQ, WreqQ
  <2>3. \A m \in Node, h \in Names :
          h # "lookupQ" =>
            q'[m][h] = IF m = n /\ h = "locRdInQ" THEN Tail(q[n]["locRdInQ"])
                       ELSE IF m = n /\ h = g THEN Append(q[n][g], v) ELSE q[m][h]
    BY <1>1, <1>9, <2>1, <2>2
  <2> QED BY <2>1, <2>2, <2>3
<1>11. PICK x, y : x = AtNode("locRdInQ", n) /\ y = AtNode(g, n)
  OBVIOUS
<1>12. MovesIn(Box, x, y, v) /\ Held(x) = q[n]["locRdInQ"]
  <2>1. PICK f : f = "locRdInQ"
    OBVIOUS
  <2>2. f \in BoxQ /\ g \in BoxQ /\ f # g /\ NotEmpty(n, f) /\ UNCHANGED <<flashCmdQ, ctrl, job, net>>
    BY <1>1, <1>9, <2>1, OutsideStays
  <2>3. \A m \in Node, h \in BoxQ :
          q'[m][h] = IF m = n /\ h = f THEN Tail(q[n][f])
                     ELSE IF m = n /\ h = g THEN Append(q[n][g], v) ELSE q[m][h]
    BY <1>10, <2>1
  <2>4. MovesIn(Box, AtNode(f, n), AtNode(g, n), v) /\ Held(AtNode(f, n)) = q[n][f]
    BY <1>2, <2>2, <2>3, NodeMove
  <2> QED BY <1>11, <2>1, <2>4
<1>13. x \in WordBox \ WrBox /\ y \in WordBox \ WrBox
  BY <1>9, <1>11, NodeBoxes
<1>14. ASSUME NEW s \in Slots, NEW m \in Node, v.page = s
       PROVE  Hop(ReadRoute(s, m), x, y) /\ Hop(WriteRoute(s, m), x, y)
  <2>1. g = IF s[1] = n THEN "locRdOutQ" ELSE "remRdOutQ"
    BY <1>1, <1>7, <1>8, <1>14
  <2>2. Hop(ReadRoute(s, m), AtNode("locRdInQ", n), AtNode(g, n))
    BY <2>1, ReadHops
  <2> QED BY <1>11, <1>13, <2>2, NoHops
<1>15. Head(Held(x)) = word
  BY <1>1, <1>12 DEF First
<1>16. v.page = Head(Held(x)).page /\ v.idx = Head(Held(x)).idx
  BY <1>8, <1>15
<1> QED BY SMTT(30), <1>2, <1>8, <1>12, <1>13, <1>14, <1>16, WordQuiet

\* A word from another node.
LEMMA MergeRdQuiet ==
  ASSUME Typed, Outside, NEW n \in Node, MergeRd(n)
  PROVE  Quiet
<1>1. PICK v : /\ v = First(n, "remRdInQ") /\ NotEmpty(n, "remRdInQ")
               /\ q' = Move(n, "remRdInQ", "locRdOutQ", v)
  BY DEF MergeRd
<1>2. {"remRdInQ", "locRdOutQ"} \subseteq ReadQ /\ ReadQ \subseteq BoxQ
  BY DEF ReadQ, BoxQ
<1>3. PICK x, y : x = AtNode("remRdInQ", n) /\ y = AtNode("locRdOutQ", n)
  OBVIOUS
<1>4. MovesIn(Box, x, y, v) /\ Held(x) = q[n]["remRdInQ"]
  BY <1>1, <1>2, <1>3, SplitterMoves
<1>5. x \in WordBox \ WrBox /\ y \in WordBox \ WrBox
  BY <1>2, <1>3, NodeBoxes
<1>6. \A s \in Slots, m \in Node : Hop(ReadRoute(s, m), x, y) /\ Hop(WriteRoute(s, m), x, y)
  BY <1>3, <1>5, ReadHops, NoHops
<1>7. v = Head(Held(x))
  BY <1>1, <1>4 DEF First
<1> QED BY <1>4, <1>5, <1>6, <1>7, SameWordQuiet

\* A word to be written, for this node or another.
LEMMA ForwardWdataQuiet ==
  ASSUME Typed, Outside, NEW n \in Node, ForwardWdata(n)
  PROVE  Quiet
<1>1. PICK v, g : /\ v = First(n, "locWdataInQ") /\ NotEmpty(n, "locWdataInQ")
                  /\ g = IF v.dst = n THEN "locWdataOutQ" ELSE "remWdataOutQ"
                  /\ q' = Move(n, "locWdataInQ", g, v)
  BY DEF ForwardWdata
<1>2. {"locWdataInQ", g} \subseteq WrQ /\ g # "locWdataInQ" /\ WrQ \subseteq BoxQ
  BY <1>1 DEF WrQ, BoxQ
<1>3. PICK x, y : x = AtNode("locWdataInQ", n) /\ y = AtNode(g, n)
  OBVIOUS
<1>4. MovesIn(Box, x, y, v) /\ Held(x) = q[n]["locWdataInQ"]
  BY <1>1, <1>2, <1>3, SplitterMoves
<1>5. x \in WrBox /\ y \in WrBox /\ x \in WordBox /\ y \in WordBox
  BY <1>2, <1>3, NodeBoxes
<1>6. ASSUME NEW s \in Slots, NEW m \in Node
      PROVE  Hop(ReadRoute(s, m), x, y) /\ (v.dst = m => Hop(WriteRoute(s, m), x, y))
  <2>1. ASSUME v.dst = m PROVE Hop(WriteRoute(s, m), x, y)
    <3>1. g = IF m = n THEN "locWdataOutQ" ELSE "remWdataOutQ"
      BY <1>1, <2>1
    <3>2. Hop(WriteRoute(s, m), AtNode("locWdataInQ", n), AtNode(g, n))
      BY <3>1, WriteHops
    <3> QED BY <1>3, <3>2
  <2> QED BY <1>5, <2>1, NoHops
<1>7. v = Head(Held(x))
  BY <1>1, <1>4 DEF First
<1> QED BY <1>4, <1>5, <1>6, <1>7, SameWordQuiet

-----------------------------------------------------------------------------
\* Boxes of some kinds change apart from the others.
LEMMA MovesOut ==
  ASSUME NEW C, C \subseteq Box, NEW x, NEW y, NEW v, TakesIn(C, x), y \in Box \ C,
         Held(y)' = Append(Held(y), v), \A z \in Box \ C : z # y => Held(z)' = Held(z)
  PROVE  MovesIn(Box, x, y, v)
<1>1. x \in C /\ Held(x) # << >> /\ Held(x)' = Tail(Held(x)) /\ \A z \in C : z # x => Held(z)' = Held(z)
  BY DEF TakesIn
<1> QED BY <1>1 DEF MovesIn

\* An item comes from another box into the boxes of C.
LEMMA MovesInto ==
  ASSUME NEW C, C \subseteq Box, NEW x, NEW y, NEW v, PutsIn(C, y, v), x \in Box \ C,
         Held(x) # << >>, Held(x)' = Tail(Held(x)), \A z \in Box \ C : z # x => Held(z)' = Held(z)
  PROVE  MovesIn(Box, x, y, v)
<1>1. y \in C /\ Held(y)' = Append(Held(y), v) /\ \A z \in C : z # y => Held(z)' = Held(z)
  BY DEF PutsIn
<1> QED BY <1>1 DEF MovesIn

-----------------------------------------------------------------------------
\* Taken from a queue of a node, or put into one, when boxes of a kind change.
LEMMA TakenFrom ==
  ASSUME Typed, NEW C, C \subseteq Box, Elsewhere(C), NEW n \in Node, NEW f \in BoxQ, Get(n, f),
         AtNode(f, n) \in C
  PROVE  TakesIn(C, AtNode(f, n))
<1>1. f \in Names /\ BoxQ \subseteq Names
  BY NodeBoxes
<1>2. NotEmpty(n, f) /\ q' = Deq(n, f)
  BY DEF Get
<1>3. \A m \in Node, h \in Names : q'[m][h] = IF m = n /\ h = f THEN Tail(q[n][f]) ELSE q[m][h]
  BY <1>1, <1>2, AfterGet
<1>4. \A m \in Node, h \in BoxQ : q'[m][h] = IF m = n /\ h = f THEN Tail(q[n][f]) ELSE q[m][h]
  BY <1>1, <1>3
<1> QED BY <1>2, <1>4, QueueTakes

\* An item is put into one of the boxes of C.
LEMMA PutInto ==
  ASSUME Typed, NEW C, C \subseteq Box, Elsewhere(C), NEW n \in Node, NEW f \in BoxQ, NEW v,
         q' = Enq(n, f, v), AtNode(f, n) \in C
  PROVE  PutsIn(C, AtNode(f, n), v)
<1>1. f \in Names /\ BoxQ \subseteq Names
  BY NodeBoxes
<1>2. \A m \in Node, h \in Names :
        q'[m][h] = IF m = n /\ h = f THEN Append(q[n][f], v) ELSE q[m][h]
  BY <1>1, AfterPut
<1>3. \A m \in Node, h \in BoxQ :
        q'[m][h] = IF m = n /\ h = f THEN Append(q[n][f], v) ELSE q[m][h]
  BY <1>1, <1>2
<1> QED BY <1>3, QueuePuts

\* A command leaves the host.
LEMMA FlashCmdForwardQuiet ==
  ASSUME Typed, NEW n \in Node, FlashCmdForward(n)
  PROVE  Quiet /\ UNCHANGED <<pending, ctrl, burst>>
<1>1. PICK v, f : /\ v = Head(flashCmdQ[n]) /\ f = IF v.dst = n THEN "locCmdInQ" ELSE "remCmdOutQ"
                  /\ q' = Enq(n, f, v)
  BY DEF FlashCmdForward, LocServSendCmd
<1>2. /\ flashCmdQ[n] # << >> /\ flashCmdQ' = [flashCmdQ EXCEPT ![n] = Tail(@)]
      /\ UNCHANGED <<pending, issued, dmaVars, ctrl, net>>
  BY DEF FlashCmdForward
<1>3. UNCHANGED <<ctrl, job, net>>
  BY <1>2 DEF dmaVars
<1>4. PICK C : C = {z \in Box : z[1] # "host"}
  OBVIOUS
<1>5. Elsewhere(C) /\ C \subseteq Box
  BY <1>3, <1>4, OtherBoxes
<1>6. f \in ReqQ /\ f \in BoxQ /\ f # "host"
  BY <1>1 DEF ReqQ, BoxQ
<1>7. PICK x, y : x = AtNode("host", n) /\ y = AtNode(f, n)
  OBVIOUS
<1>8. y \in C /\ y \in ReqBox /\ x \in ReqBox /\ x \in Box \ C /\ x[1] = "host" /\ y[1] = f
  BY <1>4, <1>6, <1>7, NodeBoxes, HeldIs
<1>9. PutsIn(C, y, v)
  BY <1>1, <1>5, <1>6, <1>7, <1>8, PutInto
<1>10. flashCmdQ \in [Node -> Seq(HostCmd)]
  BY DEF Typed, HostsTyped
<1>11. Held(x) = flashCmdQ[n] /\ Held(x)' = Tail(flashCmdQ[n])
  BY <1>2, <1>7, <1>10, HeldIs
<1>12. ASSUME NEW z \in Box \ C, z # x PROVE Held(z)' = Held(z)
  <2>1. z \in Box /\ z[1] = "host"
    BY <1>4
  <2>2. PICK m \in Node : z = AtNode("host", m)
    <3>1. \A h \in BoxQ, m \in Node : z # AtNode(h, m)
      BY <2>1, NodeBoxes, Kinds DEF AtNode
    <3>2. \A m, p : z # <<"ctrl", m, p>> /\ z # <<"job", m, p>>
      BY <2>1
    <3>3. \A c \in Class, a, b \in Node : z # <<c, a, b>>
      BY <2>1, Kinds
    <3> QED BY <2>1, <3>1, <3>2, <3>3, BoxCases
  <2>3. m # n
    BY <1>7, <1>12, <2>2
  <2>4. flashCmdQ'[m] = flashCmdQ[m]
    BY <1>2, <1>10, <2>3
  <2> QED BY <2>2, <2>4, HeldIs
<1>13. MovesIn(Box, x, y, v)
  BY <1>2, <1>5, <1>8, <1>9, <1>11, <1>12, MovesInto
<1>14. SlotIn(y[1], v) = SlotIn(x[1], Head(Held(x)))
  BY <1>1, <1>8, <1>11 DEF SlotIn
<1>15. x[1] \in CmdKinds
  BY <1>8 DEF CmdKinds
<1>16. Quiet
  BY <1>8, <1>13, <1>14, <1>15, RequestQuiet
<1> QED BY <1>2, <1>16 DEF dmaVars

\* An engine is given a write data request.
LEMMA HandleWriteDataRequestQuiet ==
  ASSUME Typed, NEW n \in Node, HandleWriteDataRequest(n)
  PROVE  Quiet /\ UNCHANGED <<pending, ctrl, burst>>
<1>1. PICK v, p : /\ v = First(n, "locWreqOutQ") /\ p = reSel[n]
                  /\ Get(n, "locWreqOutQ") /\ job' = [job EXCEPT ![n][p] = Append(@, v)]
                  /\ UNCHANGED <<hostVars, burst, ctrl, net>>
  BY DEF HandleWriteDataRequest
<1>2. UNCHANGED <<pending, flashCmdQ, burst, ctrl, net>>
  BY <1>1 DEF hostVars
<1>3. PICK C : C = {z \in Box : z[1] # "job"}
  OBVIOUS
<1>4. Elsewhere(C) /\ C \subseteq Box
  BY <1>2, <1>3, OtherBoxes
<1>5. p \in Eng /\ job \in [Node -> [Eng -> Seq(Wreq)]]
  BY <1>1 DEF Typed, HostsTyped
<1>6. PICK x, y : x = AtNode("locWreqOutQ", n) /\ y = <<"job", n, p>>
  OBVIOUS
<1>7. "locWreqOutQ" \in WreqQ /\ "locWreqOutQ" \in BoxQ
  BY DEF WreqQ, BoxQ
<1>8. x \in C /\ x \in WreqBox /\ x[1] = "locWreqOutQ" /\ y \in WreqBox /\ y \in Box \ C /\ y[1] = "job"
  BY <1>3, <1>5, <1>6, <1>7, NodeBoxes, HeldIs
<1>9. TakesIn(C, x)
  BY <1>1, <1>4, <1>6, <1>7, <1>8, TakenFrom
<1>10. \A m \in Node, e \in Eng :
         job'[m][e] = IF m = n /\ e = p THEN Append(job[n][p], v) ELSE job[m][e]
  BY <1>1, <1>5
<1>11. Held(y) = job[n][p] /\ Held(y)' = Append(job[n][p], v)
  BY <1>5, <1>6, <1>10, HeldIs
<1>12. ASSUME NEW z \in Box \ C, z # y PROVE Held(z)' = Held(z)
  <2>1. z \in Box /\ z[1] = "job"
    BY <1>3
  <2>2. PICK m \in Node, e \in Eng : z = <<"job", m, e>>
    <3>1. \A h \in BoxQ, m \in Node : z # AtNode(h, m)
      BY <2>1, NodeBoxes
    <3>2. \A m, e : z # <<"ctrl", m, e>> /\ z # AtNode("host", m)
      BY <2>1 DEF AtNode
    <3>3. \A c \in Class, a, b \in Node : z # <<c, a, b>>
      BY <2>1, Kinds
    <3> QED BY <2>1, <3>1, <3>2, <3>3, BoxCases
  <2>3. ~(m = n /\ e = p)
    BY <1>6, <1>12, <2>2
  <2>4. job'[m][e] = job[m][e]
    BY <1>10, <2>3
  <2> QED BY <2>2, <2>4, HeldIs
<1>13. MovesIn(Box, x, y, v)
  BY <1>4, <1>8, <1>9, <1>11, <1>12, MovesOut
<1>14. JobOf(y, v) = JobOf(x, Head(Held(x)))
  <2>1. Head(Held(x)) = v
    BY <1>1, <1>6, <1>7, HeldIs DEF First
  <2> QED BY <1>8, <2>1 DEF JobOf
<1>15. x[1] # "job"
  BY <1>8
<1>16. Quiet
  BY <1>8, <1>13, <1>14, <1>15, JobQuiet
<1> QED BY <1>2, <1>16

-----------------------------------------------------------------------------
\* The channels after one of them changed.
NetIs(c, a, b, v) ==
  \A d \in Class, i, j \in Node :
    net'[d][<<i, j>>] = IF d = c /\ i = a /\ j = b THEN v ELSE net[d][<<i, j>>]

\* A channel after it is set.
LEMMA NetAfter ==
  ASSUME Typed, NEW c \in Class, NEW a \in Node, NEW b \in Node, NEW v,
         NEW k, k = <<a, b>>, SetsNet(c, k, v)
  PROVE  NetIs(c, a, b, v)
<1> SUFFICES ASSUME NEW d \in Class, NEW i \in Node, NEW j \in Node
             PROVE  net'[d][<<i, j>>] = IF d = c /\ i = a /\ j = b THEN v ELSE net[d][<<i, j>>]
  BY DEF NetIs
<1>1. PICK l, L : l = <<i, j>> /\ L = Node \X Node
  OBVIOUS
<1>2. k \in L /\ l \in L /\ net \in [Class -> [L -> NetSet]] /\ net' = [net EXCEPT ![c][k] = v]
  BY <1>1 DEF Typed, NetTyped, SetsNet
<1>3. net'[d][l] = IF d = c /\ l = k THEN v ELSE net[d][l]
  BY <1>2
<1>4. l = k <=> i = a /\ j = b
  BY <1>1
<1> QED BY <1>1, <1>3, <1>4

\* Only the box of one channel changes.
LEMMA NetBoxes ==
  ASSUME NEW c \in Class, NEW a \in Node, NEW b \in Node, NEW v, NetIs(c, a, b, v),
         NEW y, y = <<c, a, b>>
  PROVE  /\ y \in Box /\ y[1] \in Class /\ Held(y) = net[c][<<a, b>>] /\ Held(y)' = v
         /\ \A z \in Box : z[1] \in Class /\ z # y => Held(z)' = Held(z)
<1>1. \A d \in Class, i, j \in Node :
        net'[d][<<i, j>>] = IF d = c /\ i = a /\ j = b THEN v ELSE net[d][<<i, j>>]
  BY DEF NetIs
<1>2. y \in Box /\ y[1] \in Class /\ Held(y) = net[c][<<a, b>>] /\ Held(y)' = v
  BY <1>1, HeldIs
<1>3. ASSUME NEW z \in Box, z[1] \in Class, z # y PROVE Held(z)' = Held(z)
  <2>1. PICK d \in Class, i \in Node, j \in Node : z = <<d, i, j>>
    <3>1. \A h \in BoxQ, m \in Node : z # AtNode(h, m)
      BY <1>3, NodeBoxes, Kinds DEF AtNode
    <3>2. \A m, e : z # <<"ctrl", m, e>> /\ z # <<"job", m, e>> /\ z # AtNode("host", m)
      BY <1>3, Kinds DEF AtNode
    <3> QED BY <3>1, <3>2, BoxCases
  <2>2. ~(d = c /\ i = a /\ j = b)
    BY <1>3, <2>1
  <2>3. net'[d][<<i, j>>] = net[d][<<i, j>>]
    BY <1>1, <2>2
  <2> QED BY <2>1, <2>3, HeldIs
<1> QED BY <1>2, <1>3

\* A message goes to the network.
LEMMA SendMoves ==
  ASSUME TagInv, NEW n \in Node, NEW c \in Class, SendRemote(n, c), NEW x, x = AtNode(OutOf[c], n),
         NEW v, v = Head(Held(x)), NEW y, y = <<c, n, v.dst>>
  PROVE  /\ v \in ItemsOf(n)[OutOf[c]] /\ v.dst \in Node /\ MovesIn(Box, x, y, v)
         /\ UNCHANGED <<pending, ctrl, burst>>
<1>1. /\ Get(n, OutOf[c]) /\ UNCHANGED <<hostVars, dmaVars, ctrl>>
      /\ \A msg, link : msg = First(n, OutOf[c]) /\ link = <<n, msg.dst>> =>
           SetsNet(c, link, Append(net[c][link], msg))
  BY DEF SendRemote, SetsNet
<1>2. PICK f : f = OutOf[c]
  OBVIOUS
<1>3. f \in BoxQ /\ f \in Names
  <2>1. f \in BoxQ
    BY <1>2 DEF Class, OutOf, BoxQ, ReqQ, ReadQ, WrQ, WreqQ
  <2> QED BY <2>1, NodeBoxes
<1>4. Held(x) = q[n][f] /\ x \in Box /\ x[1] = f /\ v = First(n, f)
  BY <1>2, <1>3, HeldIs DEF First
<1>5. Typed /\ QueuesTyped
  BY DEF TagInv, Typed
<1>6. NotEmpty(n, f)
  BY <1>1, <1>2 DEF Get
<1>7. v \in ItemsOf(n)[f]
  BY <1>3, <1>4, <1>5, <1>6, FirstType
<1>8. v.dst \in Node
  BY <1>2, <1>7, ClassQueues
<1>9. PICK w : w = Append(net[c][<<n, v.dst>>], v)
  OBVIOUS
<1>10. SetsNet(c, <<n, v.dst>>, w)
  BY <1>1, <1>2, <1>4, <1>9
<1>11. PICK C : C = {z \in Box : z[1] \notin Class}
  OBVIOUS
<1>12. C \subseteq Box /\ Elsewhere(C)
  BY <1>1, <1>11, OtherBoxes DEF hostVars, dmaVars
<1>13. x \in C
  BY <1>3, <1>4, <1>11, Kinds
<1>14. TakesIn(C, x)
  BY <1>1, <1>2, <1>3, <1>5, <1>12, <1>13, TakenFrom
<1>15. /\ y \in Box /\ y[1] \in Class /\ Held(y) = net[c][<<n, v.dst>>] /\ Held(y)' = w
       /\ \A z \in Box : z[1] \in Class /\ z # y => Held(z)' = Held(z)
  <2>1. PICK b, k : b = v.dst /\ k = <<n, b>>
    OBVIOUS
  <2>2. b \in Node /\ SetsNet(c, k, w)
    BY <1>8, <1>10, <2>1
  <2>3. NetIs(c, n, b, w)
    BY <1>5, <2>1, <2>2, NetAfter
  <2> QED BY <2>1, <2>2, <2>3, NetBoxes
<1>16. y \in Box \ C /\ Held(y)' = Append(Held(y), v) /\ \A z \in Box \ C : z # y => Held(z)' = Held(z)
  BY <1>9, <1>11, <1>15
<1>17. MovesIn(Box, x, y, v)
  BY <1>12, <1>14, <1>16, MovesOut
<1> QED BY <1>1, <1>2, <1>7, <1>8, <1>17 DEF hostVars, dmaVars

\* A message comes from the network.
LEMMA RecMoves ==
  ASSUME TagInv, NEW n \in Node, NEW c \in Class, NEW a \in Node, RecRemote(n, c, a),
         NEW x, x = <<c, a, n>>, NEW v, v = Head(Held(x)), NEW y, y = AtNode(Into[c], n)
  PROVE  MovesIn(Box, x, y, v) /\ UNCHANGED <<pending, ctrl, burst>>
<1>1. PICK f, w : /\ f = Into[c] /\ w = Tail(net[c][<<a, n>>])
                  /\ net[c][<<a, n>>] # << >> /\ SetsNet(c, <<a, n>>, w)
                  /\ q' = Enq(n, f, Head(net[c][<<a, n>>]))
                  /\ UNCHANGED <<hostVars, dmaVars, ctrl>>
  BY DEF RecRemote, SetsNet, Put
<1>2. f \in BoxQ /\ f \in Names
  <2>1. f \in BoxQ
    BY <1>1 DEF Class, Into, BoxQ, ReqQ, ReadQ, WrQ, WreqQ
  <2> QED BY <2>1, NodeBoxes
<1>3. y \in Box /\ y[1] = f
  BY <1>1, <1>2, NodeBoxes
<1>4. Typed
  BY DEF TagInv
<1>5. PICK C : C = {z \in Box : z[1] \notin Class}
  OBVIOUS
<1>6. C \subseteq Box /\ Elsewhere(C)
  BY <1>1, <1>5, OtherBoxes DEF hostVars, dmaVars
<1>7. y \in C
  BY <1>2, <1>3, <1>5, Kinds
<1>8. /\ x \in Box /\ x[1] \in Class /\ Held(x) = net[c][<<a, n>>] /\ Held(x)' = w
      /\ \A z \in Box : z[1] \in Class /\ z # x => Held(z)' = Held(z)
  <2>1. PICK k : k = <<a, n>>
    OBVIOUS
  <2>2. SetsNet(c, k, w)
    BY <1>1, <2>1
  <2>3. NetIs(c, a, n, w)
    BY <1>4, <2>1, <2>2, NetAfter
  <2> QED BY <2>3, NetBoxes
<1>9. q' = Enq(n, f, v)
  BY <1>1, <1>8
<1>10. PutsIn(C, y, v)
  BY <1>1, <1>2, <1>4, <1>6, <1>7, <1>9, PutInto
<1>11. x \in Box \ C /\ Held(x) # << >> /\ Held(x)' = Tail(Held(x))
       /\ \A z \in Box \ C : z # x => Held(z)' = Held(z)
  BY <1>1, <1>5, <1>8
<1>12. MovesIn(Box, x, y, v)
  BY <1>6, <1>10, <1>11, MovesInto
<1> QED BY <1>1, <1>12 DEF hostVars, dmaVars

-----------------------------------------------------------------------------
\* A request or a write data request that goes over the network is the same one.
LEMMA NetRequest ==
  ASSUME Typed, NEW c \in {"cmd", "ack"}, NEW x \in ReqBox, NEW y \in ReqBox, NEW v,
         v = Head(Held(x)), MovesIn(Box, x, y, v),
         (x[1] = OutOf[c] /\ y[1] = c) \/ (x[1] = c /\ y[1] = Into[c])
  PROVE  Quiet
<1>1. CASE c = "cmd"
  <2>1. /\ {x[1], y[1]} \subseteq CmdKinds
        /\ \A f \in CmdKinds : f # "locAckInQ" /\ f \notin {"remAckOutQ", "locAckOutQ", "ack"}
    BY <1>1 DEF CmdKinds, OutOf, Into
  <2>2. SlotIn(x[1], v) = v.page /\ SlotIn(y[1], v) = v.page
    BY <2>1 DEF SlotIn
  <2> QED BY <2>1, <2>2, RequestQuiet
<1>2. CASE c = "ack"
  <2>1. {x[1], y[1]} \subseteq {"remAckOutQ", "locAckOutQ", "ack"}
    BY <1>2 DEF OutOf, Into
  <2>2. SlotIn(x[1], v) = SlotOf(v.dst, v.status, v.tag) /\ SlotIn(y[1], v) = SlotIn(x[1], v)
    BY <2>1 DEF SlotIn
  <2>3. y[1] \notin CmdKinds
    BY <2>1 DEF CmdKinds
  <2> QED BY <2>2, <2>3, RequestQuiet
<1> QED BY <1>1, <1>2

\* A write data request goes over the network.
LEMMA NetJob ==
  ASSUME Typed, NEW x \in WreqBox, NEW y \in WreqBox, NEW v, v = Head(Held(x)),
         MovesIn(Box, x, y, v),
         (x[1] = "remWreqOutQ" /\ y[1] = "wreq") \/ (x[1] = "wreq" /\ y[1] = "locWreqOutQ")
  PROVE  Quiet
<1>1. x[1] # "locWreqInQ" /\ y[1] # "locWreqInQ" /\ x[1] # "job"
  OBVIOUS
<1>2. JobOf(y, v) = JobOf(x, v)
  BY <1>1 DEF JobOf
<1> QED BY <1>1, <1>2, JobQuiet

\* The boxes of a class of messages.
LEMMA ClassBoxes ==
  ASSUME NEW n \in Node, NEW a \in Node, NEW b \in Node, NEW c \in Class
  PROVE  /\ AtNode(OutOf[c], n)[1] = OutOf[c] /\ AtNode(Into[c], n)[1] = Into[c]
         /\ <<c, a, b>>[1] = c
         /\ c \in {"cmd", "ack"} =>
              {AtNode(OutOf[c], n), AtNode(Into[c], n), <<c, a, b>>} \subseteq ReqBox
         /\ c = "rd" => {AtNode(OutOf[c], n), AtNode(Into[c], n), <<c, a, b>>} \subseteq WordBox \ WrBox
         /\ c = "wd" => {AtNode(OutOf[c], n), AtNode(Into[c], n), <<c, a, b>>} \subseteq WrBox
         /\ c = "wreq" => {AtNode(OutOf[c], n), AtNode(Into[c], n), <<c, a, b>>} \subseteq WreqBox
<1>0. PICK f, g : f = OutOf[c] /\ g = Into[c]
  OBVIOUS
<1>1. AtNode(OutOf[c], n)[1] = OutOf[c] /\ AtNode(Into[c], n)[1] = Into[c] /\ <<c, a, b>>[1] = c
  BY DEF AtNode
<1>2. CASE c = "cmd"
  <2>1. f \in ReqQ /\ g \in ReqQ
    BY <1>0, <1>2 DEF OutOf, Into, ReqQ
  <2>2. AtNode(f, n) \in ReqBox /\ AtNode(g, n) \in ReqBox /\ <<c, a, b>> \in ReqBox
    BY <1>2, <2>1, NodeBoxes
  <2> QED BY <1>0, <1>1, <1>2, <2>2
<1>3. CASE c = "ack"
  <2>1. f \in ReqQ /\ g \in ReqQ
    BY <1>0, <1>3 DEF OutOf, Into, ReqQ
  <2>2. AtNode(f, n) \in ReqBox /\ AtNode(g, n) \in ReqBox /\ <<c, a, b>> \in ReqBox
    BY <1>3, <2>1, NodeBoxes
  <2> QED BY <1>0, <1>1, <1>3, <2>2
<1>4. CASE c = "rd"
  <2>1. f \in ReadQ /\ g \in ReadQ
    BY <1>0, <1>4 DEF OutOf, Into, ReadQ
  <2>2. AtNode(f, n) \in WordBox \ WrBox /\ AtNode(g, n) \in WordBox \ WrBox /\ <<c, a, b>> \in WordBox \ WrBox
    BY <1>4, <2>1, NodeBoxes
  <2> QED BY <1>0, <1>1, <1>4, <2>2
<1>5. CASE c = "wd"
  <2>1. f \in WrQ /\ g \in WrQ
    BY <1>0, <1>5 DEF OutOf, Into, WrQ
  <2>2. AtNode(f, n) \in WrBox /\ AtNode(g, n) \in WrBox /\ <<c, a, b>> \in WrBox
    BY <1>5, <2>1, NodeBoxes
  <2> QED BY <1>0, <1>1, <1>5, <2>2
<1>6. CASE c = "wreq"
  <2>1. f \in WreqQ /\ g \in WreqQ
    BY <1>0, <1>6 DEF OutOf, Into, WreqQ
  <2>2. AtNode(f, n) \in WreqBox /\ AtNode(g, n) \in WreqBox /\ <<c, a, b>> \in WreqBox
    BY <1>6, <2>1, NodeBoxes
  <2> QED BY <1>0, <1>1, <1>6, <2>2
<1> QED BY <1>2, <1>3, <1>4, <1>5, <1>6 DEF Class

\* A message goes to the network.
LEMMA SendQuiet ==
  ASSUME TagInv, NEW n \in Node, NEW c \in Class, SendRemote(n, c)
  PROVE  Quiet /\ UNCHANGED <<pending, ctrl, burst>>
<1>1. PICK x, v, y : x = AtNode(OutOf[c], n) /\ v = Head(Held(x)) /\ y = <<c, n, v.dst>>
  OBVIOUS
<1>2. /\ v \in ItemsOf(n)[OutOf[c]] /\ v.dst \in Node /\ MovesIn(Box, x, y, v)
      /\ UNCHANGED <<pending, ctrl, burst>>
  BY <1>1, SendMoves
<1>3. Typed
  BY DEF TagInv
<1>4. CASE c \in {"cmd", "ack"}
  <2>1. x \in ReqBox /\ y \in ReqBox /\ x[1] = OutOf[c] /\ y[1] = c
    BY <1>1, <1>2, <1>4, ClassBoxes
  <2> QED BY <1>1, <1>2, <1>3, <1>4, <2>1, NetRequest
<1>5. CASE c = "wreq"
  <2>1. x \in WreqBox /\ y \in WreqBox /\ x[1] = "remWreqOutQ" /\ y[1] = "wreq"
    BY <1>1, <1>2, <1>5, ClassBoxes DEF OutOf
  <2> QED BY <1>1, <1>2, <1>3, <2>1, NetJob
<1>6. CASE c = "rd"
  <2>1. x \in WordBox \ WrBox /\ y \in WordBox \ WrBox
    BY <1>1, <1>2, <1>6, ClassBoxes
  <2>2. v \in HostWord
    BY <1>2, <1>6 DEF ItemsOf, OutOf
  <2>3. v.page[1] = v.dst
    BY <2>2 DEF HostWord, SlotOf
  <2>4. ASSUME NEW s \in Slots, NEW m \in Node, v.page = s
        PROVE  Hop(ReadRoute(s, m), x, y) /\ Hop(WriteRoute(s, m), x, y)
    <3>1. x = AtNode("remRdOutQ", n) /\ y = <<"rd", n, s[1]>>
      BY <1>1, <1>6, <2>3, <2>4 DEF OutOf
    <3>2. Hop(ReadRoute(s, m), x, y)
      BY <3>1, ReadHops
    <3> QED BY <2>1, <3>2, NoHops
  <2> QED BY <1>1, <1>2, <1>3, <2>1, <2>4, SameWordQuiet
<1>7. CASE c = "wd"
  <2>1. x \in WrBox /\ y \in WrBox /\ x \in WordBox /\ y \in WordBox
    BY <1>1, <1>2, <1>7, ClassBoxes, Families
  <2>2. ASSUME NEW s \in Slots, NEW m \in Node
        PROVE  Hop(ReadRoute(s, m), x, y) /\ (v.dst = m => Hop(WriteRoute(s, m), x, y))
    <3>1. ASSUME v.dst = m PROVE Hop(WriteRoute(s, m), x, y)
      <4>1. x = AtNode("remWdataOutQ", n) /\ y = <<"wd", n, m>>
        BY <1>1, <1>7, <3>1 DEF OutOf
      <4> QED BY <4>1, WriteHops
    <3> QED BY <2>1, <3>1, NoHops
  <2> QED BY <1>1, <1>2, <1>3, <2>1, <2>2, SameWordQuiet
<1> QED BY <1>4, <1>5, <1>6, <1>7 DEF Class

\* A message comes from the network.
LEMMA RecQuiet ==
  ASSUME TagInv, NEW n \in Node, NEW c \in Class, NEW a \in Node, RecRemote(n, c, a)
  PROVE  Quiet /\ UNCHANGED <<pending, ctrl, burst>>
<1>1. PICK x, v, y : x = <<c, a, n>> /\ v = Head(Held(x)) /\ y = AtNode(Into[c], n)
  OBVIOUS
<1>2. MovesIn(Box, x, y, v) /\ UNCHANGED <<pending, ctrl, burst>>
  BY <1>1, RecMoves
<1>3. Typed
  BY DEF TagInv
<1>4. CASE c \in {"cmd", "ack"}
  <2>1. x \in ReqBox /\ y \in ReqBox /\ x[1] = c /\ y[1] = Into[c]
    BY <1>1, <1>2, <1>4, ClassBoxes
  <2> QED BY <1>1, <1>2, <1>3, <1>4, <2>1, NetRequest
<1>5. CASE c = "wreq"
  <2>1. x \in WreqBox /\ y \in WreqBox /\ x[1] = "wreq" /\ y[1] = "locWreqOutQ"
    BY <1>1, <1>2, <1>5, ClassBoxes DEF Into
  <2> QED BY <1>1, <1>2, <1>3, <2>1, NetJob
<1>6. CASE c = "rd"
  <2>1. x \in WordBox \ WrBox /\ y \in WordBox \ WrBox
    BY <1>1, <1>2, <1>6, ClassBoxes
  <2>2. x = <<"rd", a, n>> /\ y = AtNode("remRdInQ", n)
    BY <1>1, <1>6 DEF Into
  <2>3. \A s \in Slots, m \in Node : Hop(ReadRoute(s, m), x, y) /\ Hop(WriteRoute(s, m), x, y)
    BY <2>1, <2>2, ReadHops, NoHops
  <2> QED BY <1>1, <1>2, <1>3, <2>1, <2>3, SameWordQuiet
<1>7. CASE c = "wd"
  <2>1. x \in WrBox /\ y \in WrBox /\ x \in WordBox /\ y \in WordBox
    BY <1>1, <1>2, <1>7, ClassBoxes, Families
  <2>2. x = <<"wd", a, n>> /\ y = AtNode("locWdataOutQ", n)
    BY <1>1, <1>7 DEF Into
  <2>3. \A s \in Slots, m \in Node : Hop(ReadRoute(s, m), x, y) /\ Hop(WriteRoute(s, m), x, y)
    BY <2>1, <2>2, WriteHops, NoHops
  <2> QED BY <1>1, <1>2, <1>3, <2>1, <2>3, SameWordQuiet
<1> QED BY <1>4, <1>5, <1>6, <1>7 DEF Class

\* The steps that only move a request, a word or a write data request on.
LEMMA QuietSteps ==
  ASSUME HostInv, TagInv',
         \/ \E n \in Node : Splitter(n) \/ FlashCmdForward(n) \/ HandleWriteDataRequest(n)
         \/ \E n \in Node, c \in Class : SendRemote(n, c)
         \/ \E n \in Node, c \in Class, a \in Node : RecRemote(n, c, a)
  PROVE  HostInv'
<1>1. Typed /\ TagInv
  BY DEF HostInv, TagInv
<1>2. Quiet /\ UNCHANGED <<pending, ctrl, burst>>
  <2>1. ASSUME NEW n \in Node, Splitter(n) PROVE Quiet /\ UNCHANGED <<pending, ctrl, burst>>
    <3>1. Outside /\ UNCHANGED <<pending, ctrl, burst>> /\ SplitterRule(n)
      BY <2>1 DEF Splitter, Outside, hostVars, dmaVars
    <3>2. Quiet
      BY <1>1, <3>1, TagRulesQuiet, RenameTagsQuiet, ForwardAckQuiet, ForwardWreqQuiet,
         RetagRDataQuiet, MergeRdQuiet, ForwardWdataQuiet DEF SplitterRule
    <3> QED BY <3>1, <3>2
  <2> QED BY <1>1, <2>1, FlashCmdForwardQuiet, HandleWriteDataRequestQuiet, SendQuiet, RecQuiet
<1> QED BY <1>2, QuietStep DEF Quiet

-----------------------------------------------------------------------------
\* One box of a set changes.
LEMMA ReqsAfter ==
  ASSUME Typed, NEW B, ReqBox \subseteq B
  PROVE  /\ StaysIn(B) => ReqsSame
         /\ \A x : TakesIn(B, x) => /\ x \in ReqBox => ReqLeaves(x)
                                    /\ x \notin ReqBox => ReqsSame
         /\ \A y, v : PutsIn(B, y, v) =>
              /\ y \in ReqBox /\ SlotIn(y[1], v) \in Slots => ReqJoins(y, SlotIn(y[1], v))
              /\ y \notin ReqBox => ReqsSame
<1>2. StaysIn(B) => ReqsSame
  BY Narrow, ReqView DEF ReqsSame
<1>3. ASSUME NEW x, TakesIn(B, x)
      PROVE  (x \in ReqBox => ReqLeaves(x)) /\ (x \notin ReqBox => ReqsSame)
  <2>1. (x \in ReqBox => TakesIn(ReqBox, x)) /\ (x \notin ReqBox => StaysIn(ReqBox))
    BY <1>3, Narrow
  <2> QED BY <2>1, ReqView DEF ReqsSame, ReqLeaves
<1>4. ASSUME NEW y, NEW v, PutsIn(B, y, v)
      PROVE  /\ y \in ReqBox /\ SlotIn(y[1], v) \in Slots => ReqJoins(y, SlotIn(y[1], v))
             /\ y \notin ReqBox => ReqsSame
  <2>1. (y \in ReqBox => PutsIn(ReqBox, y, v)) /\ (y \notin ReqBox => StaysIn(ReqBox))
    BY <1>4, Narrow
  <2> QED BY <2>1, ReqView DEF ReqsSame, ReqJoins
<1> QED BY <1>2, <1>3, <1>4

\* The words after a step of the boxes.
LEMMA WordsAfter ==
  ASSUME Typed, NEW B, WordBox \subseteq B
  PROVE  /\ StaysIn(B) => WordsSame
         /\ \A x : TakesIn(B, x) => /\ x \in WordBox => WordLeaves(x)
                                    /\ x \notin WordBox => WordsSame
         /\ \A y, v : PutsIn(B, y, v) => /\ y \in WordBox /\ v \in AnyWord => WordJoins(y, v)
                                         /\ y \notin WordBox => WordsSame
<1>2. StaysIn(B) => WordsSame
  BY Narrow, WordView DEF WordsSame
<1>3. ASSUME NEW x, TakesIn(B, x)
      PROVE  (x \in WordBox => WordLeaves(x)) /\ (x \notin WordBox => WordsSame)
  <2>1. (x \in WordBox => TakesIn(WordBox, x)) /\ (x \notin WordBox => StaysIn(WordBox))
    BY <1>3, Narrow
  <2> QED BY <2>1, WordView DEF WordsSame, WordLeaves
<1>4. ASSUME NEW y, NEW v, PutsIn(B, y, v)
      PROVE  /\ y \in WordBox /\ v \in AnyWord => WordJoins(y, v)
             /\ y \notin WordBox => WordsSame
  <2>1. (y \in WordBox => PutsIn(WordBox, y, v)) /\ (y \notin WordBox => StaysIn(WordBox))
    BY <1>4, Narrow
  <2> QED BY <2>1, WordView DEF WordsSame, WordJoins
<1> QED BY <1>2, <1>3, <1>4

\* The write data requests after a step of the boxes.
LEMMA JobsAfter ==
  ASSUME Typed, NEW B, WreqBox \subseteq B
  PROVE  /\ StaysIn(B) => JobsSame
         /\ \A x : TakesIn(B, x) => /\ x \in WreqBox => JobLeaves(x)
                                    /\ x \notin WreqBox => JobsSame
         /\ \A y, v : PutsIn(B, y, v) =>
              /\ y \in WreqBox /\ JobOf(y, v) \in Token => JobJoins(y, JobOf(y, v))
              /\ y \notin WreqBox => JobsSame
<1>2. StaysIn(B) => JobsSame
  BY Narrow, JobView DEF JobsSame
<1>3. ASSUME NEW x, TakesIn(B, x)
      PROVE  (x \in WreqBox => JobLeaves(x)) /\ (x \notin WreqBox => JobsSame)
  <2>1. (x \in WreqBox => TakesIn(WreqBox, x)) /\ (x \notin WreqBox => StaysIn(WreqBox))
    BY <1>3, Narrow
  <2> QED BY <2>1, JobView DEF JobsSame, JobLeaves
<1>4. ASSUME NEW y, NEW v, PutsIn(B, y, v)
      PROVE  /\ y \in WreqBox /\ JobOf(y, v) \in Token => JobJoins(y, JobOf(y, v))
             /\ y \notin WreqBox => JobsSame
  <2>1. (y \in WreqBox => PutsIn(WreqBox, y, v)) /\ (y \notin WreqBox => StaysIn(WreqBox))
    BY <1>4, Narrow
  <2> QED BY <2>1, JobView DEF JobsSame, JobJoins
<1> QED BY <1>2, <1>3, <1>4

\* The boxes that are not at the controllers, or not at the engines.
NotCtrl == {z \in Box : z[1] # "ctrl"}
NotJob  == {z \in Box : z[1] # "job"}

\* The boxes left when the controllers, or the engines, are set apart.
LEMMA NotCtrlBoxes ==
  /\ NotCtrl \subseteq Box /\ NotJob \subseteq Box
  /\ WordBox \subseteq NotCtrl /\ WreqBox \subseteq NotCtrl
  /\ WordBox \subseteq NotJob /\ ReqBox \subseteq NotJob
  /\ \A f \in BoxQ, n \in Node : AtNode(f, n) \in NotCtrl /\ AtNode(f, n) \in NotJob
  /\ UNCHANGED <<flashCmdQ, job, net>> => Elsewhere(NotCtrl)
  /\ UNCHANGED <<flashCmdQ, ctrl, net>> => Elsewhere(NotJob)
<1>1. \A f \in BoxQ, n \in Node : AtNode(f, n) \in NotCtrl /\ AtNode(f, n) \in NotJob
  BY NodeBoxes, Kinds DEF NotCtrl, NotJob
<1>2. WordBox \subseteq NotCtrl /\ WordBox \subseteq NotJob
  BY DEF WordBox, BoxOf, NotCtrl, NotJob, ReadQ, WrQ
<1>3. WreqBox \subseteq NotCtrl /\ ReqBox \subseteq NotJob
  BY DEF WreqBox, ReqBox, BoxOf, NotCtrl, NotJob, WreqQ, ReqQ
<1>4. /\ UNCHANGED <<flashCmdQ, job, net>> => Elsewhere(NotCtrl)
      /\ UNCHANGED <<flashCmdQ, ctrl, net>> => Elsewhere(NotJob)
  BY OtherBoxes DEF NotCtrl, NotJob
<1> QED BY <1>1, <1>2, <1>3, <1>4 DEF NotCtrl, NotJob

\* The controller's entry of one tag changes.
LEMMA CtrlBoxes ==
  ASSUME Typed, NEW n \in Node, NEW t \in Tag, NEW c \in {Free} \cup Work, SetsCtrl(n, t, c),
         NEW x, x = <<"ctrl", n, t>>
  PROVE  /\ x \in ReqBox /\ x \in Box \ NotCtrl /\ x[1] = "ctrl"
         /\ Held(x) = InCtrl(ctrl[n][t]) /\ Held(x)' = InCtrl(c)
         /\ \A z \in Box \ NotCtrl : z # x => Held(z)' = Held(z)
<1>1. \A m \in Node, u \in Tag : ctrl'[m][u] = IF m = n /\ u = t THEN c ELSE ctrl[m][u]
  BY CtrlSet
<1>2. x \in ReqBox /\ x \in Box /\ x[1] = "ctrl"
  BY NodeBoxes, Families
<1>3. Held(x) = InCtrl(ctrl[n][t]) /\ Held(x)' = InCtrl(c)
  BY <1>1, HeldIs
<1>4. ASSUME NEW z \in Box \ NotCtrl, z # x PROVE Held(z)' = Held(z)
  <2>1. z[1] = "ctrl"
    BY DEF NotCtrl
  <2>2. PICK m \in Node, u \in Tag : z = <<"ctrl", m, u>>
    <3>1. \A h \in BoxQ, m \in Node : z # AtNode(h, m)
      BY <2>1, NodeBoxes, Kinds DEF AtNode
    <3>2. \A m \in Node : z # AtNode("host", m)
      BY <2>1 DEF AtNode
    <3>3. \A d \in Class, m, k \in Node : z # <<d, m, k>>
      BY <2>1, Kinds
    <3> QED BY <2>1, <3>1, <3>2, <3>3, BoxCases
  <2>3. ctrl'[m][u] = ctrl[m][u]
    BY <1>1, <1>4, <2>2
  <2> QED BY <2>2, <2>3, HeldIs
<1> QED BY <1>2, <1>3, <1>4 DEF NotCtrl

\* It works on, for the same slot.
LEMMA WorkerStays ==
  ASSUME Typed, NEW n \in Node, NEW t \in Tag, NEW c \in Work, SetsCtrl(n, t, c),
         ctrl[n][t] # Free, c.page = ctrl[n][t].page,
         \A z \in ReqBox \cap NotCtrl : Held(z)' = Held(z)
  PROVE  ReqsSame
<1>1. PICK x : x = <<"ctrl", n, t>>
  OBVIOUS
<1>2. /\ x \in ReqBox /\ x[1] = "ctrl" /\ Held(x) = InCtrl(ctrl[n][t]) /\ Held(x)' = InCtrl(c)
      /\ \A z \in Box \ NotCtrl : z # x => Held(z)' = Held(z)
  BY <1>1, CtrlBoxes
<1>3. c # Free
  BY DEF Work, Free, Op
<1>4. Held(x) = <<ctrl[n][t]>> /\ Held(x)' = <<c>>
  BY <1>2, <1>3 DEF InCtrl
<1>5. \A i \in {1} : SlotIn("ctrl", <<c>>[i]) = SlotIn("ctrl", <<ctrl[n][t]>>[i])
  BY DEF SlotIn
<1>6. SlotsIn(x[1], Held(x)') = SlotsIn(x[1], Held(x))
  <2>1. PICK a, b : a = ctrl[n][t] /\ b = c
    OBVIOUS
  <2>2. SlotsIn("ctrl", <<b>>) = [i \in {1} |-> b.page] /\ SlotsIn("ctrl", <<a>>) = [i \in {1} |-> a.page]
    BY DEF SlotsIn, SlotIn
  <2> QED BY <1>2, <1>4, <2>1, <2>2
<1>7. \A z \in ReqBox : SlotsIn(z[1], Held(z)') = SlotsIn(z[1], Held(z))
  BY <1>2, <1>6, Families DEF NotCtrl
<1>8. ReqAt' = [z \in ReqBox |-> SlotsIn(z[1], Held(z)')] /\ ReqAt = [z \in ReqBox |-> SlotsIn(z[1], Held(z))]
  BY DEF ReqAt
<1> QED BY <1>7, <1>8 DEF ReqsSame

\* It has done its work.
LEMMA WorkerLeaves ==
  ASSUME Typed, NEW n \in Node, NEW t \in Tag, SetsCtrl(n, t, Free), ctrl[n][t] # Free,
         \A z \in ReqBox \cap NotCtrl : Held(z)' = Held(z), NEW x, x = <<"ctrl", n, t>>
  PROVE  ReqLeaves(x)
<1>1. /\ x \in ReqBox /\ Held(x) = InCtrl(ctrl[n][t]) /\ Held(x)' = InCtrl(Free)
      /\ \A z \in Box \ NotCtrl : z # x => Held(z)' = Held(z)
  BY CtrlBoxes
<1>2. Held(x) # << >> /\ Held(x)' = Tail(Held(x))
  <2>1. PICK a : a = ctrl[n][t]
    OBVIOUS
  <2>2. Held(x) = <<a>> /\ Held(x)' = << >>
    BY <1>1, <2>1 DEF InCtrl
  <2>3. <<a>> # << >> /\ Tail(<<a>>) = << >>
    BY EmptyTail
  <2> QED BY <2>2, <2>3
<1>3. TakesIn(ReqBox, x)
  BY <1>1, <1>2, Families DEF TakesIn, NotCtrl
<1> QED BY <1>3, ReqView DEF ReqLeaves

-----------------------------------------------------------------------------
\* Writes go on as before; one may begin.
LEMMA WritesKept ==
  ASSUME Typed, WriteInv, JobsQuiet, UNCHANGED burst,
         \A w \in AnyWord : InWrite(w)' => InWrite(w),
         \A n \in Node, t \in Tag : ctrl[n][t].op = "write" => ctrl'[n][t] = ctrl[n][t],
         \A n \in Node, t \in Tag :
           ctrl'[n][t].op = "write" => ctrl[n][t].op = "write" \/ WriteOf(n, t)',
         \A n \in Node, t \in Tag, s \in Slots :
           ctrl[n][t].op = "write" /\ s = ctrl[n][t].page => Follows(s, WriteRoute(s, n))
  PROVE  WriteInv'
<1>1. JobsMatch /\ WordsWanted /\ \A n \in Node, t \in Tag : WriteOf(n, t)
  BY DEF WriteInv
<1>2. Distinct(JobAt', WreqBox) /\ (\A j : SameSent(j)) /\ BurstsEnd'
  BY <1>1, SentKept
<1>3. \A n \in Node, t \in Tag, s \in Slots : Writes(n, t, s) => Writes(n, t, s)'
  BY DEF Writes
<1>4. JobsMatch'
  BY <1>1, <1>2, <1>3, JobsKept
<1>5. WordsWanted'
  <2> SUFFICES ASSUME NEW w \in AnyWord, InWrite(w)' PROVE Wanted(w)'
    BY DEF WordsWanted, AnyWord
  <2>1. Wanted(w)
    BY <1>1 DEF WordsWanted
  <2>2. w.tag \in Tag /\ w.dst \in Node /\ w.page \in Slots
    BY <2>1 DEF Wanted, AnyWord
  <2>3. PICK n \in Node, t \in Tag, s \in Slots : n = w.dst /\ t = w.tag /\ s = w.page
    BY <2>2
  <2>4. Writes(n, t, s)'
    BY <1>3, <2>1, <2>3 DEF Wanted
  <2> QED BY <2>2, <2>3, <2>4 DEF Wanted, Writes
<1>6. ASSUME NEW n \in Node, NEW t \in Tag PROVE WriteOf(n, t)'
  <2>1. CASE ctrl[n][t].op = "write"
    <3>1. ctrl'[n][t] = ctrl[n][t] /\ WriteOf(n, t)
      BY <1>1, <2>1
    <3>2. ASSUME NEW s \in Slots, s = ctrl[n][t].page
          PROVE  Follows(s, WriteRoute(s, n)) /\ SameSent(<<s, n, t>>)
      BY <1>2, <2>1, <3>2
    <3> QED BY <3>1, <3>2, WriteSame
  <2>2. CASE ctrl[n][t].op # "write" /\ ctrl'[n][t].op = "write"
    BY <2>2
  <2>3. CASE ctrl'[n][t].op # "write"
    BY <2>3 DEF WriteOf
  <2> QED BY <2>1, <2>2, <2>3
<1> QED BY <1>4, <1>5, <1>6 DEF WriteInv

\* A slot that did not change keeps its place among the requests.
LEMMA CommandGone ==
  ASSUME Typed, NEW y, NEW s \in Slots, ReqJoins(y, s), NEW r, r # s, Commanded(r)'
  PROVE  Commanded(r)
<1>1. PICK z \in ReqBox : z[1] \in CmdKinds /\ \E i \in DOMAIN ReqAt'[z] : ReqAt'[z][i] = r
  BY DEF Commanded
<1>2. PICK i \in DOMAIN ReqAt'[z] : ReqAt'[z][i] = r
  BY <1>1
<1>3. PICK T, U, P : T = ReqAt /\ U = ReqAt' /\ P = ReqBox
  OBVIOUS
<1>4. T \in [P -> Seq(Slots)] /\ z \in P /\ i \in DOMAIN U[z] /\ U[z][i] = r
  BY <1>1, <1>2, <1>3, ReqView
<1>5. Joins(T, U, P, y, s)
  BY <1>3 DEF ReqJoins
<1>6. (\E j \in DOMAIN T[z] : U[z][i] = T[z][j]) \/ (z = y /\ U[z][i] = s)
  BY <1>4, <1>5, JoinOrigin
<1>7. PICK j \in DOMAIN T[z] : T[z][j] = r
  BY <1>4, <1>6
<1> QED BY <1>1, <1>3, <1>7 DEF Commanded

\* A host makes a request.
LEMMA IssueMoves ==
  ASSUME Typed, NEW s \in Slots, NEW dst \in Node, Issue(s, dst),
         NEW y, y = AtNode("host", s[1])
  PROVE  ReqJoins(y, s) /\ WordsSame /\ JobsSame
<1>1. PICK v : /\ v = [src |-> s[1], dst |-> dst, op |-> s[2], tag |-> s[3], page |-> s]
               /\ flashCmdQ' = [flashCmdQ EXCEPT ![s[1]] = Append(@, v)]
  BY DEF Issue
<1>2. UNCHANGED <<q, ctrl, job, net>>
  BY DEF Issue, splitterVars, dmaVars
<1>3. PICK C, n : C = {z \in Box : z[1] # "host"} /\ n = s[1]
  OBVIOUS
<1>4. Elsewhere(C) /\ C \subseteq Box /\ n \in Node
  BY <1>2, <1>3, OtherBoxes, SlotEntry
<1>5. StaysIn(C)
  BY <1>2, <1>4, QueuesStay
<1>6. y \in ReqBox /\ y \in Box \ C /\ y[1] = "host"
  BY <1>3, <1>4, NodeBoxes, HeldIs
<1>7. flashCmdQ \in [Node -> Seq(HostCmd)]
  BY DEF Typed, HostsTyped
<1>8. \A m \in Node : flashCmdQ'[m] = IF m = n THEN Append(flashCmdQ[n], v) ELSE flashCmdQ[m]
  BY <1>1, <1>3, <1>7
<1>9. Held(y)' = Append(Held(y), v)
  BY <1>3, <1>4, <1>8, HeldIs
<1>10. ASSUME NEW z \in Box \ C, z # y PROVE Held(z)' = Held(z)
  <2>1. z \in Box /\ z[1] = "host"
    BY <1>3
  <2>2. PICK m \in Node : z = AtNode("host", m)
    <3>1. \A h \in BoxQ, m \in Node : z # AtNode(h, m)
      BY <2>1, NodeBoxes, Kinds DEF AtNode
    <3>2. \A m, p : z # <<"ctrl", m, p>> /\ z # <<"job", m, p>>
      BY <2>1
    <3>3. \A c \in Class, a, b \in Node : z # <<c, a, b>>
      BY <2>1, Kinds
    <3> QED BY <2>1, <3>1, <3>2, <3>3, BoxCases
  <2>3. m # n
    BY <1>3, <1>10, <2>2
  <2>4. flashCmdQ'[m] = flashCmdQ[m]
    BY <1>8, <2>3
  <2> QED BY <2>2, <2>4, HeldIs
<1>11. PutsIn(Box, y, v)
  BY <1>5, <1>6, <1>9, <1>10 DEF PutsIn, StaysIn
<1>12. SlotIn(y[1], v) = s
  BY <1>1, <1>6 DEF SlotIn
<1>13. y \notin WordBox /\ y \notin WreqBox
  BY <1>6, Apart
<1>14. ReqBox \subseteq Box /\ WordBox \subseteq Box /\ WreqBox \subseteq Box
  BY Apart
<1>15. ReqJoins(y, s)
  BY <1>6, <1>11, <1>12, <1>14, ReqsAfter
<1>16. WordsSame
  BY <1>11, <1>13, <1>14, WordsAfter
<1>17. JobsSame
  BY <1>11, <1>13, <1>14, JobsAfter
<1> QED BY <1>15, <1>16, <1>17

\* A host makes a request.
LEMMA IssueHost ==
  ASSUME HostInv, TagInv', NEW s \in Slots, NEW dst \in Node, Issue(s, dst)
  PROVE  HostInv'
<1>1. Typed /\ ReqInv /\ ReadInv /\ WriteInv
  BY DEF HostInv, TagInv
<1>2. PICK y : y = AtNode("host", s[1])
  OBVIOUS
<1>3. ReqJoins(y, s) /\ WordsSame /\ JobsSame
  BY <1>1, <1>2, IssueMoves
<1>4. UNCHANGED <<ctrl, burst>> /\ pending[s] = Idle /\ pending' = [pending EXCEPT ![s] = 0]
  BY DEF Issue, dmaVars
<1>5. pending'[s] = 0 /\ pending'[s] # Idle /\ \A r \in Slots : r # s => pending'[r] = pending[r]
  BY <1>1, <1>4 DEF Typed, HostsTyped, Idle
<1>6. ReqInv'
  BY <1>1, <1>3, <1>4, <1>5, ReqMade
<1>7. ASSUME NEW r \in Slots, r[2] = "read" PROVE ReadOf(r)'
  <2>1. ReadOf(r) /\ StillNone(r) /\ SameWork(r) /\ \A R : Follows(r, R)
    BY <1>1, <1>3, <1>4, <1>7, WordsStay DEF ReadInv, SameWork, Works
  <2>2. CASE r = s
    <3>1. NotBegun(r)
      BY <1>4, <2>1, <2>2 DEF ReadOf
    <3>2. NoWork(r)' /\ Nowhere(r)'
      BY <2>1, <3>1 DEF NotBegun, NoWork, SameWork, StillNone
    <3> QED BY <1>5, <2>2, <3>2 DEF ReadOf, NotBegun
  <2>3. CASE r # s
    <3>1. Commanded(r)' => Commanded(r)
      BY <1>1, <1>3, <2>3, CommandGone
    <3>2. pending'[r] = pending[r]
      BY <1>5, <2>3
    <3>3. \A m \in Node : Follows(r, ReadRoute(r, m))
      BY <2>1
    <3> QED BY <2>1, <3>1, <3>2, <3>3, ReadSame
  <2> QED BY <2>2, <2>3
<1>8. WriteInv'
  BY <1>1, <1>3, <1>4, QuietWrites DEF WordsQuiet, JobsQuiet
<1> QED BY <1>6, <1>7, <1>8 DEF HostInv, ReadInv

-----------------------------------------------------------------------------
\* An ack is handled: the request it answers leaves.
LEMMA AckMoves ==
  ASSUME Typed, NEW n \in Node, HandleControllerAck(n), NEW x, x = AtNode("locAckOutQ", n)
  PROVE  ReqLeaves(x) /\ WordsSame /\ JobsSame
<1>1. Get(n, "locAckOutQ") /\ UNCHANGED <<flashCmdQ, ctrl, job, net>>
  BY DEF HandleControllerAck, dmaVars
<1>2. Elsewhere(Box)
  BY <1>1, OtherBoxes
<1>3. "locAckOutQ" \in BoxQ /\ x \in ReqBox /\ x \in Box
  BY NodeBoxes DEF BoxQ, ReqQ
<1>4. PICK C : C = Box
  OBVIOUS
<1>5. C \subseteq Box /\ Elsewhere(C) /\ AtNode("locAckOutQ", n) \in C
  BY <1>2, <1>3, <1>4
<1>6. TakesIn(C, AtNode("locAckOutQ", n))
  BY <1>1, <1>3, <1>5, TakenFrom
<1>7. TakesIn(Box, x)
  BY <1>4, <1>6
<1>8. ReqBox \subseteq Box /\ WordBox \subseteq Box /\ WreqBox \subseteq Box
      /\ x \notin WordBox /\ x \notin WreqBox
  BY <1>3, Apart
<1> QED BY <1>3, <1>7, <1>8, ReqsAfter, WordsAfter, JobsAfter

\* The slot an ack is for.
LEMMA AckSlot ==
  ASSUME Typed, NEW n \in Node, NotEmpty(n, "locAckOutQ"), NEW x, x = AtNode("locAckOutQ", n),
         NEW v, v = First(n, "locAckOutQ"), NEW s, s = SlotOf(n, v.status, v.tag)
  PROVE  /\ s \in Slots /\ s[2] \in {"write", "erase"}
         /\ x \in ReqBox /\ ReqAt[x] # << >> /\ s = Head(ReqAt[x])
<1>1. q[n].locAckOutQ \in Seq(To(n, Ack)) /\ v = Head(q[n].locAckOutQ) /\ q[n].locAckOutQ # << >>
  BY QueueTypes DEF Typed, NotEmpty, First
<1>2. v \in Ack /\ v.dst = n
  BY <1>1 DEF To
<1>3. x \in ReqBox /\ x[1] = "locAckOutQ" /\ Held(x) = q[n].locAckOutQ
  BY NodeBoxes, HeldIs DEF BoxQ, ReqQ
<1>4. ReqAt[x] # << >> /\ Head(ReqAt[x]) = SlotIn(x[1], v)
  BY <1>1, <1>3, ReqView
<1>5. SlotIn(x[1], v) = s
  BY <1>2, <1>3 DEF SlotIn
<1>6. s \in Slots /\ s[2] \in {"write", "erase"}
  BY <1>2 DEF Ack, SlotOf
<1> QED BY <1>3, <1>4, <1>5, <1>6

\* A host is given an ack.
LEMMA AckHost ==
  ASSUME HostInv, TagInv', NEW n \in Node, HandleControllerAck(n)
  PROVE  HostInv'
<1>1. Typed /\ ReqInv /\ ReadInv /\ WriteInv
  BY DEF HostInv, TagInv
<1>2. PICK x, v, s : /\ x = AtNode("locAckOutQ", n) /\ v = First(n, "locAckOutQ")
                     /\ s = SlotOf(n, v.status, v.tag)
  OBVIOUS
<1>3. NotEmpty(n, "locAckOutQ") /\ pending' = [pending EXCEPT ![s] = Idle]
      /\ UNCHANGED <<ctrl, burst>>
  BY <1>2 DEF HandleControllerAck, Get, dmaVars
<1>4. ReqLeaves(x) /\ WordsSame /\ JobsSame
  BY <1>1, <1>2, AckMoves
<1>5. s \in Slots /\ s[2] \in {"write", "erase"} /\ s = Head(ReqAt[x])
  BY <1>1, <1>2, <1>3, AckSlot
<1>6. \A r \in Slots : r # s => pending'[r] = pending[r]
  BY <1>1, <1>3 DEF Typed, HostsTyped
<1>7. ReqInv'
  BY <1>1, <1>4, <1>5, <1>6, ReqGone
<1>8. ReqsQuiet
  BY <1>4 DEF ReqsQuiet
<1>9. ASSUME NEW r \in Slots, r[2] = "read" PROVE ReadOf(r)'
  <2>1. ReadOf(r) /\ StillNone(r) /\ SameWork(r) /\ \A m \in Node : Follows(r, ReadRoute(r, m))
    BY <1>1, <1>3, <1>4, <1>9, WordsStay DEF ReadInv, SameWork, Works
  <2>2. pending'[r] = pending[r]
    BY <1>5, <1>6, <1>9
  <2>3. Commanded(r)' => Commanded(r)
    BY <1>1, <1>8, CommandKept
  <2> QED BY <2>1, <2>2, <2>3, ReadSame
<1>10. WriteInv'
  BY <1>1, <1>3, <1>4, QuietWrites DEF WordsQuiet, JobsQuiet
<1> QED BY <1>7, <1>9, <1>10 DEF HostInv, ReadInv

-----------------------------------------------------------------------------
\* Acks are not for reads.
AckKinds == {"locAckInQ", "remAckOutQ", "locAckOutQ", "ack"}

\* An ack is not for a read.
LEMMA AckBoxes ==
  ASSUME Typed, NEW x \in ReqBox, x[1] \in AckKinds, NEW i \in DOMAIN ReqAt[x]
  PROVE  ReqAt[x][i][2] # "read"
<1>1. QueuesTyped /\ NetTyped
  BY DEF Typed
<1>2. \E A : Held(x) \in Seq(A) /\ \A it \in A : SlotIn(x[1], it)[2] # "read"
  <2>1. CASE \E f \in ReqQ, n \in Node : x = AtNode(f, n)
    <3>1. PICK f \in ReqQ, n \in Node : x = AtNode(f, n)
      BY <2>1
    <3>2. Held(x) = q[n][f] /\ x[1] = f
      BY <3>1, HeldIs DEF BoxQ
    <3>3. CASE f = "locAckInQ"
      <4>1. q[n][f] \in Seq(AckIn)
        BY <1>1, <3>3, QueueTypes
      <4>2. \A it \in AckIn : SlotIn(f, it)[2] # "read"
        BY <3>3 DEF AckIn, SlotIn, SlotOf
      <4> QED BY <3>2, <4>1, <4>2
    <3>4. CASE f = "remAckOutQ" \/ f = "locAckOutQ"
      <4>1. q[n][f] \in Seq(Ack)
        <5>1. To(n, Ack) \subseteq Ack
          BY DEF To
        <5> QED BY <1>1, <3>4, <5>1, QueueTypes, SeqWider
      <4>2. \A it \in Ack : SlotIn(f, it)[2] # "read"
        BY <3>4 DEF Ack, SlotIn, SlotOf
      <4> QED BY <3>2, <4>1, <4>2
    <3> QED BY <3>2, <3>3, <3>4 DEF ReqQ, AckKinds
  <2>2. CASE \E c \in {"cmd", "ack"}, a, b \in Node : x = <<c, a, b>>
    <3>1. PICK c \in {"cmd", "ack"}, a \in Node, b \in Node : x = <<c, a, b>>
      BY <2>2
    <3>2. c = "ack" /\ c \in Class
      BY <3>1 DEF Class, AckKinds
    <3>3. Held(x) = net[c][<<a, b>>] /\ net[c][<<a, b>>] \in Seq(MessagesTo(b)[c])
      BY <1>1, <3>1, <3>2, HeldIs DEF NetTyped
    <3>4. \A it \in MessagesTo(b)[c] : SlotIn(c, it)[2] # "read"
      BY <3>2 DEF MessagesTo, To, Ack, SlotIn, SlotOf
    <3> QED BY <3>1, <3>3, <3>4
  <2>3. CASE \E n \in Node : x = AtNode("host", n)
    BY <2>3, HeldIs DEF AckKinds
  <2>4. CASE \E n \in Node, t \in Tag : x = <<"ctrl", n, t>>
    BY <2>4 DEF AckKinds
  <2> QED BY <2>1, <2>2, <2>3, <2>4, Families
<1>3. PICK A : Held(x) \in Seq(A) /\ \A it \in A : SlotIn(x[1], it)[2] # "read"
  BY <1>2
<1>4. ReqAt[x] = SlotsIn(x[1], Held(x))
  BY ReqView
<1>5. i \in DOMAIN Held(x) /\ ReqAt[x][i] = SlotIn(x[1], Held(x)[i])
  BY <1>4 DEF SlotsIn
<1>6. Held(x)[i] \in A
  BY <1>3, <1>5
<1> QED BY <1>3, <1>5, <1>6

\* A read that is requested is on its way to a controller, or at one.
LEMMA ReadRequested ==
  ASSUME Typed, NEW s \in Slots, s[2] = "read", Requested(s)
  PROVE  Commanded(s) \/ ~NoWork(s)
<1>0. PICK x \in ReqBox : \E i \in DOMAIN ReqAt[x] : ReqAt[x][i] = s
  BY DEF Requested
<1>1. PICK i \in DOMAIN ReqAt[x] : ReqAt[x][i] = s
  BY <1>0
<1>2. x[1] \notin AckKinds
  BY <1>1, AckBoxes
<1>3. CASE x[1] = "ctrl"
  <2>1. PICK n \in Node, t \in Tag : x = <<"ctrl", n, t>>
    <3>1. ~\E f \in ReqQ, n \in Node : x = AtNode(f, n)
      BY <1>3 DEF ReqQ, AtNode
    <3>2. ~\E n \in Node : x = AtNode("host", n)
      BY <1>3 DEF AtNode
    <3>3. ~\E c \in {"cmd", "ack"}, a, b \in Node : x = <<c, a, b>>
      BY <1>3
    <3> QED BY <1>1, <3>1, <3>2, <3>3, Families
  <2>2. Held(x) = InCtrl(ctrl[n][t]) /\ ReqAt[x] = SlotsIn(x[1], Held(x))
    BY <1>1, <2>1, HeldIs, ReqView
  <2>3. i \in DOMAIN InCtrl(ctrl[n][t]) /\ s = SlotIn("ctrl", InCtrl(ctrl[n][t])[i])
    BY <1>1, <1>3, <2>2 DEF SlotsIn
  <2>4. ctrl[n][t] # Free
    BY <2>3 DEF InCtrl
  <2>5. InCtrl(ctrl[n][t]) = <<ctrl[n][t]>> /\ i = 1
    BY <2>3, <2>4 DEF InCtrl
  <2>6. s = ctrl[n][t].page
    BY <2>3, <2>5 DEF SlotIn
  <2> QED BY <2>4, <2>6 DEF NoWork, Works
<1>4. CASE x[1] # "ctrl"
  <2>1. x[1] \in ReqQ \cup {"host", "ctrl", "cmd", "ack"}
    BY <1>1 DEF ReqBox, BoxOf
  <2>2. x[1] \in CmdKinds
    BY <1>2, <1>4, <2>1 DEF ReqQ, AckKinds, CmdKinds
  <2> QED BY <1>1, <2>2 DEF Commanded
<1> QED BY <1>3, <1>4

-----------------------------------------------------------------------------
\* A word of a page is given to the host that asked for the page.
LEMMA DistrMoves ==
  ASSUME Typed, NEW n \in Node, DistrReadFromFlash(n), NEW x, x = AtNode("locRdOutQ", n)
  PROVE  WordLeaves(x) /\ ReqsSame /\ JobsSame
<1>1. Get(n, "locRdOutQ") /\ UNCHANGED <<flashCmdQ, ctrl, job, net>>
  BY DEF DistrReadFromFlash, dmaVars
<1>2. Elsewhere(Box)
  BY <1>1, OtherBoxes
<1>3. "locRdOutQ" \in BoxQ /\ x \in WordBox /\ x \in Box
  BY NodeBoxes DEF BoxQ, ReadQ
<1>4. PICK C : C = Box
  OBVIOUS
<1>5. C \subseteq Box /\ Elsewhere(C) /\ AtNode("locRdOutQ", n) \in C
  BY <1>2, <1>3, <1>4
<1>6. TakesIn(C, AtNode("locRdOutQ", n))
  BY <1>1, <1>3, <1>5, TakenFrom
<1>7. TakesIn(Box, x)
  BY <1>4, <1>6
<1>8. ReqBox \subseteq Box /\ WordBox \subseteq Box /\ WreqBox \subseteq Box
      /\ x \notin ReqBox /\ x \notin WreqBox
  BY <1>3, Apart
<1> QED BY <1>3, <1>7, <1>8, ReqsAfter, WordsAfter, JobsAfter

\* The slot a word is for.
LEMMA DistrWord ==
  ASSUME Typed, NEW n \in Node, NotEmpty(n, "locRdOutQ"), NEW x, x = AtNode("locRdOutQ", n),
         NEW v, v = First(n, "locRdOutQ"), NEW s, s = SlotOf(n, "read", v.tag)
  PROVE  /\ s \in Slots /\ s[1] = n /\ s[2] = "read" /\ v.page = s
         /\ v \in AnyWord /\ v.idx \in 0 .. PageWords - 1
         /\ x \in WordBox /\ x \notin WrBox /\ WordAt[x] # << >> /\ v = Head(WordAt[x])
<1>1. q[n].locRdOutQ \in Seq(To(n, HostWord)) /\ v = Head(q[n].locRdOutQ)
      /\ q[n].locRdOutQ # << >>
  BY QueueTypes DEF Typed, NotEmpty, First
<1>2. v \in HostWord /\ v.dst = n
  BY <1>1 DEF To
<1>3. v.page = s /\ s \in Slots /\ v.idx \in 0 .. PageWords - 1 /\ s[1] = n /\ s[2] = "read"
  BY <1>2 DEF HostWord, SlotOf
<1>4. v \in AnyWord
  BY <1>2 DEF HostWord, AnyWord
<1>5. x \in WordBox /\ x \notin WrBox /\ Held(x) = q[n].locRdOutQ
  BY NodeBoxes, HeldIs DEF BoxQ, ReadQ
<1>6. WordAt[x] = Held(x)
  BY <1>5, WordView
<1> QED BY <1>1, <1>3, <1>4, <1>5, <1>6

\* What is left of the words of a page when the first of them has gone.
LEMMA TravelTake ==
  ASSUME Typed, NEW s \in Slots, NEW R \in Seq(WordBox), NEW k, NEW e, Travel(s, R, k, e),
         Len(R) \in {2, 4, 5}, NEW x, Starts(R, x), WordLeaves(x), NEW h, h = Head(WordAt[x]), h.page = s, h \in AnyWord
  PROVE  /\ h.idx = k /\ Travel(s, R, k + 1, e)'
         /\ k \in Nat /\ e \in Nat /\ k + 1 <= e /\ (k + 1 = e => Nowhere(s)')
<1>1. PICK T, U, P, K, S : /\ T = WordAt /\ U = WordAt' /\ P = WordBox /\ K = Of(s) /\ S = AnyWord
  OBVIOUS
<1>2. T \in [P -> Seq(S)] /\ U \in [P -> Seq(S)]
  BY <1>1, WordView DEF WordLeaves
<1>3. OnRoute(T, P, R, K) /\ Chain(T, R, K, k, e) /\ R \in Seq(P)
  BY <1>1 DEF Travel
<1>4. Leaves(T, U, P, x) /\ h = Head(T[x])
  BY <1>1 DEF WordLeaves
<1>5. h \in K
  BY <1>1 DEF Of
<1>6. OnRoute(U, P, R, K) /\ h.idx = k /\ Chain(U, R, K, k + 1, e)
  <2>1. Head(T[x]) \in K
    BY <1>4, <1>5
  <2>2. OnRoute(U, P, R, K) /\ Head(T[x]).idx = k /\ Chain(U, R, K, k + 1, e)
    BY <1>2, <1>3, <1>4, <2>1, RouteFirst
  <2> QED BY <1>4, <2>2
<1>7. k \in Nat /\ e \in Nat /\ k + 1 <= e
  <2>1. k \in Nat /\ e \in Nat
    BY <1>2, <1>3, ChainEnds
  <2>2. k + 1 <= e
    BY <1>2, <1>3, <1>6, ChainEnds
  <2> QED BY <2>1, <2>2
<1>8. Travel(s, R, k + 1, e)'
  <2>1. (Of(s))' = K
    BY <1>1 DEF Of, AnyWord
  <2> QED BY <1>1, <1>6, <2>1 DEF Travel
<1>9. ASSUME k + 1 = e PROVE Nowhere(s)'
  <2>1. PICK c : c = k + 1
    OBVIOUS
  <2>2. Chain(U, R, K, c, c)
    BY <1>6, <1>9, <2>1
  <2>3. NoneOf(U, P, K)
    BY <1>2, <1>3, <1>6, <2>2, RouteEnds
  <2>4. (Of(s))' = K
    BY <1>1 DEF Of, AnyWord
  <2> QED BY <1>1, <2>3, <2>4 DEF Nowhere
<1> QED BY <1>6, <1>7, <1>8, <1>9

-----------------------------------------------------------------------------
\* A word of a read that is under way has been asked for.
LEMMA WordBegun ==
  ASSUME Typed, ReadInv, NEW x \in WordBox, WordAt[x] # << >>, NEW s \in Slots, s[2] = "read",
         Head(WordAt[x]).page = s
  PROVE  pending[s] # Idle /\ ~Commanded(s) /\ \E m \in Node, k, e \in 0 .. PageWords : BeingRead(s, m, k, e)
<1>1. WordAt[x] \in Seq(AnyWord)
  BY WordView
<1>2. 1 \in DOMAIN WordAt[x] /\ WordAt[x][1] \in Of(s)
  BY <1>1 DEF Of
<1>3. ~Nowhere(s)
  BY <1>2 DEF Nowhere, NoneOf
<1> QED BY <1>3 DEF ReadInv, ReadOf, NotBegun, ReadUnderWay

\* The words of reads do not concern writes.
SameWrites ==
  \A n \in Node, t \in Tag :
    /\ ctrl[n][t].op = "write" => ctrl'[n][t] = ctrl[n][t]
    /\ ctrl'[n][t].op = "write" => ctrl[n][t].op = "write"

\* So the writes go on when a word of a read moves.
LEMMA WritesApart ==
  ASSUME Typed, WriteInv, JobsSame, SameWrites, UNCHANGED burst,
         \A w \in AnyWord : InWrite(w)' => InWrite(w),
         NEW s \in Slots, s[2] = "read",
         \A r \in Slots, R \in Seq(WordBox) : r # s => Follows(r, R)
  PROVE  WriteInv'
<1>1. ASSUME NEW n \in Node, NEW t \in Tag, NEW r \in Slots, ctrl[n][t].op = "write",
             r = ctrl[n][t].page
      PROVE  Follows(r, WriteRoute(r, n))
  <2>1. ctrl[n][t] \in Work
    BY <1>1, CtrlTypes DEF Op
  <2>2. r # s
    BY <1>1, <2>1 DEF Work
  <2>3. WriteRoute(r, n) \in Seq(WordBox)
    BY WriteRouteIs
  <2> QED BY <2>2, <2>3
<1>2. JobsQuiet /\ UNCHANGED burst
  BY DEF JobsQuiet
<1>3. \A n \in Node, t \in Tag : ctrl[n][t].op = "write" => ctrl'[n][t] = ctrl[n][t]
  BY DEF SameWrites
<1>4. \A n \in Node, t \in Tag :
        ctrl'[n][t].op = "write" => ctrl[n][t].op = "write" \/ WriteOf(n, t)'
  BY DEF SameWrites
<1> QED BY <1>1, <1>2, <1>3, <1>4, WritesKept

\* The read of slot s when its next word is given to the host.
LEMMA ReadTaken ==
  ASSUME Typed, NEW s \in Slots, s[2] = "read", NEW m \in Node, NEW k, NEW e,
         BeingRead(s, m, k, e), e \in 0 .. PageWords, NEW x, x = AtNode("locRdOutQ", s[1]), WordLeaves(x), 
         NEW h, h = Head(WordAt[x]), h.page = s, h \in AnyWord, UNCHANGED ctrl,
         pending' = [pending EXCEPT ![s] = IF @ = PageWords - 1 THEN Idle ELSE @ + 1]
  PROVE  /\ h.idx = pending[s]
         /\ pending[s] = PageWords - 1 => pending'[s] = Idle /\ NotBegun(s)' /\ NoWork(s)
         /\ pending[s] # PageWords - 1 =>
              /\ pending'[s] # Idle /\ k + 1 \in 0 .. PageWords
              /\ BeingRead(s, m, k + 1, e)'
<1>1. PICK R : R = ReadRoute(s, m)
  OBVIOUS
<1>2. Travel(s, R, k, e) /\ pending[s] = k
  BY <1>1 DEF BeingRead
<1>3. R \in Seq(WordBox) /\ Starts(R, x) /\ Len(R) \in {2, 4, 5}
  BY <1>1, ReadRouteIs
<1>4. /\ h.idx = k /\ Travel(s, R, k + 1, e)'
      /\ k \in Nat /\ e \in Nat /\ k + 1 <= e /\ (k + 1 = e => Nowhere(s)')
  BY <1>2, <1>3, TravelTake
<1>5. PageWords \in Nat \ {0} /\ Idle = -1
  BY SizeAssumption DEF Idle
<1>6. pending'[s] = IF k = PageWords - 1 THEN Idle ELSE k + 1
  BY <1>2 DEF Typed, HostsTyped
<1>7. \A n \in Node, t \in Tag : /\ Works(n, t, s)' <=> Works(n, t, s)
                                 /\ Works(n, t, s) => n = m /\ ctrl[n][t].cnt = e
  BY DEF BeingRead, Works
<1>8. CASE k = PageWords - 1
  <2>1. e = PageWords /\ k + 1 = e
    BY <1>4, <1>5, <1>8
  <2>2. NoWork(s)
    <3> SUFFICES ASSUME NEW n \in Node, NEW t \in Tag, Works(n, t, s) PROVE FALSE
      BY DEF NoWork
    <3>1. ctrl[n][t].cnt = PageWords /\ ctrl[n][t] # Free /\ ctrl[n][t].page = s
      BY <1>7, <2>1 DEF Works
    <3>2. ctrl[n][t] \in Work
      BY <3>1, CtrlTypes
    <3>3. ctrl[n][t].cnt < PageWords
      BY <3>1, <3>2 DEF Work
    <3> QED BY <1>5, <3>1, <3>3
  <2>3. NoWork(s)'
    BY <1>7, <2>2 DEF NoWork
  <2>4. Nowhere(s)' /\ pending'[s] = Idle
    BY <1>4, <1>6, <1>8, <2>1
  <2> QED BY <1>2, <1>4, <1>8, <2>2, <2>3, <2>4 DEF NotBegun
<1>9. CASE k # PageWords - 1
  <2>1. pending'[s] = k + 1 /\ pending'[s] # Idle /\ k + 1 \in 0 .. PageWords
    BY <1>4, <1>5, <1>6, <1>9
  <2>2. \A n \in Node, t \in Tag : Works(n, t, s)' => n = m /\ ctrl'[n][t].cnt = e
    BY <1>7
  <2>3. NoWork(s)' => e = PageWords
    BY <1>7 DEF NoWork, BeingRead
  <2>4. Travel(s, ReadRoute(s, m), k + 1, e)'
    BY <1>1, <1>4 DEF ReadRoute, AtNode
  <2>5. BeingRead(s, m, k + 1, e)'
    BY <2>1, <2>2, <2>3, <2>4 DEF BeingRead
  <2> QED BY <1>2, <1>4, <1>9, <2>1, <2>5
<1> QED BY <1>8, <1>9

-----------------------------------------------------------------------------
\* A host is given a word of a page it reads.
LEMMA DistrHost ==
  ASSUME HostInv, TagInv', NEW n \in Node, DistrReadFromFlash(n)
  PROVE  HostInv'
<1>1. Typed /\ ReqInv /\ ReadInv /\ WriteInv
  BY DEF HostInv, TagInv
<1>2. PICK x, h, s : /\ x = AtNode("locRdOutQ", n) /\ h = First(n, "locRdOutQ")
                     /\ s = SlotOf(n, "read", h.tag)
  OBVIOUS
<1>3. NotEmpty(n, "locRdOutQ")
      /\ pending' = [pending EXCEPT ![s] = IF @ = PageWords - 1 THEN Idle ELSE @ + 1]
      /\ UNCHANGED <<ctrl, burst>>
  BY <1>2 DEF DistrReadFromFlash, Get, dmaVars
<1>4. WordLeaves(x) /\ ReqsSame /\ JobsSame
  BY <1>1, <1>2, DistrMoves
<1>5. /\ s \in Slots /\ s[1] = n /\ s[2] = "read" /\ h.page = s /\ h \in AnyWord
      /\ x \in WordBox /\ x \notin WrBox /\ WordAt[x] # << >> /\ h = Head(WordAt[x])
  BY <1>1, <1>2, <1>3, DistrWord
<1>6. pending[s] # Idle /\ ~Commanded(s) /\ \E m \in Node, k, e \in 0 .. PageWords : BeingRead(s, m, k, e)
  <2>1. Head(WordAt[x]).page = s
    BY <1>5
  <2> QED BY <1>1, <1>5, <2>1, WordBegun
<1>7. PICK m \in Node, k \in 0 .. PageWords, e \in 0 .. PageWords : BeingRead(s, m, k, e)
  BY <1>6
<1>8. /\ pending[s] = PageWords - 1 => pending'[s] = Idle /\ NotBegun(s)' /\ NoWork(s)
      /\ pending[s] # PageWords - 1 =>
              /\ pending'[s] # Idle /\ k + 1 \in 0 .. PageWords
              /\ BeingRead(s, m, k + 1, e)'
  <2>1. x = AtNode("locRdOutQ", s[1]) /\ UNCHANGED ctrl
    BY <1>2, <1>3, <1>5
  <2> QED BY <1>1, <1>3, <1>4, <1>5, <1>7, <2>1, ReadTaken
<1>9. \A r \in Slots : r # s => pending'[r] = pending[r]
  BY <1>1, <1>3 DEF Typed, HostsTyped
<1>10. ReqInv'
  <2>1. CASE pending[s] = PageWords - 1
    <3>1. ~Requested(s)
      BY <1>1, <1>5, <1>6, <1>8, <2>1, ReadRequested
    <3> QED BY <1>1, <1>4, <1>9, <3>1, ReqOther DEF ReqsSame
  <2>2. CASE pending[s] # PageWords - 1
    <3>1. \A r \in Slots : pending[r] # Idle => pending'[r] # Idle
      BY <1>8, <1>9, <2>2
    <3> QED BY <1>1, <1>4, <3>1, ReqKept DEF ReqsSame
  <2> QED BY <2>1, <2>2
<1>11. ReqsQuiet
  BY <1>4 DEF ReqsQuiet
<1>12. ASSUME NEW r \in Slots, r # s
       PROVE  StillNone(r) /\ \A R \in Seq(WordBox) : Follows(r, R)
  <2>1. Head(WordAt[x]).page # r
    BY <1>5, <1>12
  <2> QED BY <1>1, <1>4, <2>1, WordsLeave
<1>13. ASSUME NEW r \in Slots, r[2] = "read" PROVE ReadOf(r)'
  <2>1. Commanded(r)' => Commanded(r)
    BY <1>1, <1>11, CommandKept
  <2>2. CASE r = s
    <3>1. CASE pending[s] = PageWords - 1
      BY <1>8, <2>2, <3>1 DEF ReadOf
    <3>2. CASE pending[s] # PageWords - 1
      <4>1. pending'[s] # Idle /\ k + 1 \in 0 .. PageWords /\ BeingRead(s, m, k + 1, e)'
        BY <1>8, <3>2
      <4>2. PICK c \in 0 .. PageWords : c = k + 1
        BY <4>1
      <4>3. BeingRead(s, m, c, e)'
        BY <4>1, <4>2
      <4>4. ReadUnderWay(s)'
        BY <1>7, <4>3 DEF ReadUnderWay
      <4>5. ~Commanded(s)'
        BY <1>6, <2>1, <2>2
      <4> QED BY <2>2, <4>1, <4>4, <4>5 DEF ReadOf
    <3> QED BY <3>1, <3>2
  <2>3. CASE r # s
    <3>1. ReadOf(r) /\ SameWork(r)
      BY <1>1, <1>3, <1>13 DEF ReadInv, SameWork, Works
    <3>2. pending'[r] = pending[r]
      BY <1>9, <2>3
    <3>3. \A j \in Node : Follows(r, ReadRoute(r, j))
      <4> SUFFICES ASSUME NEW j \in Node PROVE Follows(r, ReadRoute(r, j))
        OBVIOUS
      <4>1. ReadRoute(r, j) \in Seq(WordBox)
        BY ReadRouteIs
      <4> QED BY <1>12, <2>3, <4>1
    <3>4. StillNone(r)
      BY <1>12, <2>3
    <3> QED BY <2>1, <3>1, <3>2, <3>3, <3>4, ReadSame
  <2> QED BY <2>2, <2>3
<1>14. WriteInv'
  <2>1. \A w \in AnyWord : InWrite(w)' => InWrite(w)
    BY <1>1, <1>4, InWriteKept
  <2>2. SameWrites
    BY <1>3 DEF SameWrites
  <2> QED BY <1>1, <1>3, <1>4, <1>5, <1>12, <2>1, <2>2, WritesApart
<1> QED BY <1>10, <1>13, <1>14 DEF HostInv, ReadInv

-----------------------------------------------------------------------------
\* A word joins the words of its page.
LEMMA TravelPut ==
  ASSUME Typed, NEW s \in Slots, NEW R \in Seq(WordBox), NEW k, NEW e, Travel(s, R, k, e),
         NEW y, Ends(R, y), NEW v, WordJoins(y, v), v.page = s, v.idx = e
  PROVE  Travel(s, R, k, e + 1)'
<1>1. PICK T, U, P, K, S : /\ T = WordAt /\ U = WordAt' /\ P = WordBox /\ K = Of(s) /\ S = AnyWord
  OBVIOUS
<1>2. T \in [P -> Seq(S)] /\ U \in [P -> Seq(S)]
  BY <1>1, WordView DEF WordJoins
<1>3. OnRoute(T, P, R, K) /\ Chain(T, R, K, k, e) /\ R \in Seq(P)
  BY <1>1 DEF Travel
<1>4. Joins(T, U, P, y, v) /\ v \in S
  BY <1>1 DEF WordJoins
<1>5. v \in K
  BY <1>1, <1>4 DEF Of
<1>6. OnRoute(U, P, R, K) /\ Chain(U, R, K, k, e + 1)
  BY <1>2, <1>3, <1>4, <1>5, RouteLast
<1>7. (Of(s))' = K
  BY <1>1 DEF Of, AnyWord
<1> QED BY <1>1, <1>6, <1>7 DEF Travel

\* The controller gives a word of the page it reads.
LEMMA EnqReadMoves ==
  ASSUME Typed, NEW n \in Node, NEW t \in Tag, EnqReadFromFlash(n, t),
         NEW y, y = AtNode("locRdInQ", n),
         NEW v, v = [tag |-> t, dst |-> n, page |-> ctrl[n][t].page, idx |-> ctrl[n][t].cnt]
  PROVE  /\ WordJoins(y, v) /\ JobsSame /\ y \notin WrBox
         /\ \A z \in ReqBox \cap NotCtrl : Held(z)' = Held(z)
<1>1. q' = [q EXCEPT ![n]["locRdInQ"] = Append(@, v),
                     ![n]["locRdInTagQ"] = Append(@, t)]
      /\ UNCHANGED <<flashCmdQ, job, net>> /\ ctrl[n][t].op = "read"
  BY DEF EnqReadFromFlash, LocCliReadWord, hostVars, dmaVars
<1>2. q \in [Node -> [Names -> QSet]]
  BY DEF Typed, QueuesTyped
<1>3. \A m \in Node, h \in BoxQ :
        q'[m][h] = IF m = n /\ h = "locRdInQ" THEN Append(q[n]["locRdInQ"], v) ELSE q[m][h]
  <2>1. BoxQ \subseteq Names /\ "locRdInTagQ" \notin BoxQ
    BY NodeBoxes DEF BoxQ, ReqQ, ReadQ, WrQ, WreqQ
  <2>2. "locRdInQ" \in Names /\ "locRdInTagQ" \in Names
    BY DEF Names, SizedQ, PlainQ
  <2> QED BY <1>1, <1>2, <2>1, <2>2
<1>4. Elsewhere(NotCtrl) /\ NotCtrl \subseteq Box /\ WordBox \subseteq NotCtrl
      /\ WreqBox \subseteq NotCtrl /\ "locRdInQ" \in BoxQ /\ y \in NotCtrl
  <2>1. "locRdInQ" \in BoxQ
    BY DEF BoxQ, ReadQ
  <2> QED BY <1>1, <2>1, NotCtrlBoxes
<1>5. PutsIn(NotCtrl, AtNode("locRdInQ", n), v)
  <2>1. PICK B : B = NotCtrl
    OBVIOUS
  <2>2. B \subseteq Box /\ Elsewhere(B) /\ AtNode("locRdInQ", n) \in B
    BY <1>4, <2>1
  <2>3. PutsIn(B, AtNode("locRdInQ", n), v)
    BY <1>3, <1>4, <2>2, QueuePuts
  <2> QED BY <2>1, <2>3
<1>6. y \in WordBox /\ y \notin WrBox
  BY NodeBoxes DEF ReadQ
<1>7. v \in AnyWord
  <2>1. ctrl[n][t] \in Work
    BY <1>1, CtrlTypes DEF Op
  <2>2. ctrl[n][t].page \in Slots /\ ctrl[n][t].cnt \in 0 .. PageWords - 1
    BY <1>1, <2>1, SizeAssumption DEF Work
  <2> QED BY <2>2 DEF AnyWord, Tag
<1>8. y \notin ReqBox /\ y \notin WreqBox
  BY <1>6, Apart
<1>9. WordJoins(y, v)
  BY <1>4, <1>5, <1>6, <1>7, WordsAfter
<1>10. JobsSame
  BY <1>4, <1>5, <1>8, JobsAfter
<1>11. \A z \in ReqBox \cap NotCtrl : Held(z)' = Held(z)
  BY <1>5, <1>8 DEF PutsIn
<1> QED BY <1>6, <1>9, <1>10, <1>11

-----------------------------------------------------------------------------
\* What becomes of the command under a tag when the controller gives a word.
LEMMA EnqReadCtrl ==
  ASSUME Typed, NEW n \in Node, NEW t \in Tag, EnqReadFromFlash(n, t)
  PROVE  \E c \in {Free} \cup Work :
           /\ SetsCtrl(n, t, c) /\ c.op # "write"
           /\ ctrl[n][t].cnt = PageWords - 1 => c = Free
           /\ ctrl[n][t].cnt # PageWords - 1 =>
                c \in Work /\ c # Free /\ c.page = ctrl[n][t].page /\ c.cnt = ctrl[n][t].cnt + 1
<1>1. PICK b : b = ctrl[n][t]
  OBVIOUS
<1>2. b.op = "read" /\ b \in Work
  BY <1>1, CtrlTypes DEF EnqReadFromFlash, Op
<1>3. PICK c : c = IF b.cnt = PageWords - 1 THEN Free ELSE [b EXCEPT !.cnt = @ + 1]
  OBVIOUS
<1>4. SetsCtrl(n, t, c)
  BY <1>1, <1>3 DEF EnqReadFromFlash, SetsCtrl
<1>5. CASE b.cnt = PageWords - 1
  BY <1>1, <1>3, <1>4, <1>5 DEF Free
<1>6. CASE b.cnt # PageWords - 1
  <2>1. c = [b EXCEPT !.cnt = @ + 1]
    BY <1>3, <1>6
  <2>2. b.cnt \in Nat /\ b.cnt < PageWords /\ PageWords \in Nat /\ b.cnt + 1 < PageWords
    BY <1>2, <1>6, SizeAssumption DEF Work
  <2>3. c \in Work /\ c.op = "read" /\ c.page = b.page /\ c.cnt = b.cnt + 1
    BY <1>2, <2>1, <2>2 DEF Work
  <2>4. c # Free
    BY <2>3 DEF Free
  <2> QED BY <1>1, <1>4, <1>6, <2>3, <2>4
<1> QED BY <1>5, <1>6

\* The requests, after that.
LEMMA EnqReadReqs ==
  ASSUME Typed, NEW n \in Node, NEW t \in Tag, EnqReadFromFlash(n, t)
  PROVE  ReqsSame \/ \E x : ReqLeaves(x)
<1>1. PICK c \in {Free} \cup Work :
           /\ SetsCtrl(n, t, c)
           /\ ctrl[n][t].cnt = PageWords - 1 => c = Free
           /\ ctrl[n][t].cnt # PageWords - 1 => c \in Work /\ c.page = ctrl[n][t].page
  BY EnqReadCtrl
<1>2. \A z \in ReqBox \cap NotCtrl : Held(z)' = Held(z)
  BY EnqReadMoves
<1>3. ctrl[n][t] # Free
  BY DEF EnqReadFromFlash, Free
<1>4. CASE ctrl[n][t].cnt = PageWords - 1
  <2>1. SetsCtrl(n, t, Free)
    BY <1>1, <1>4
  <2>2. ReqLeaves(<<"ctrl", n, t>>)
    BY <1>2, <1>3, <2>1, WorkerLeaves
  <2> QED BY <2>2
<1>5. CASE ctrl[n][t].cnt # PageWords - 1
  <2>1. c \in Work /\ SetsCtrl(n, t, c) /\ c.page = ctrl[n][t].page
    BY <1>1, <1>5
  <2>2. ReqsSame
    BY <1>2, <1>3, <2>1, WorkerStays
  <2> QED BY <2>2
<1> QED BY <1>4, <1>5

\* The read whose word is given.
LEMMA ReadGiven ==
  ASSUME Typed, ReqInv, ReadInv, NEW n \in Node, NEW t \in Tag, EnqReadFromFlash(n, t),
         NEW s, s = ctrl[n][t].page, ReqsQuiet
  PROVE  ReadOf(s)'
<1>1. PICK y, v : y = AtNode("locRdInQ", n)
                  /\ v = [tag |-> t, dst |-> n, page |-> ctrl[n][t].page, idx |-> ctrl[n][t].cnt]
  OBVIOUS
<1>2. WordJoins(y, v)
  BY <1>1, EnqReadMoves
<1>3. ctrl[n][t] # Free /\ ctrl[n][t] \in Work /\ ctrl[n][t].op = "read" /\ UNCHANGED pending
  BY CtrlTypes DEF EnqReadFromFlash, Op, Free, hostVars
<1>4. /\ s \in Slots /\ pending[s] # Idle /\ ~Commanded(s)
      /\ \A m \in Node, u \in Tag : Works(m, u, s) => m = n /\ u = t
  BY <1>3, OneWorker
<1>5. s[2] = "read" /\ Works(n, t, s)
  BY <1>3 DEF Work, Works
<1>6. ReadUnderWay(s)
  BY <1>4, <1>5 DEF ReadInv, ReadOf, NotBegun, NoWork
<1>7. PICK m \in Node, k \in 0 .. PageWords, e \in 0 .. PageWords : BeingRead(s, m, k, e)
  BY <1>6 DEF ReadUnderWay
<1>8. m = n /\ ctrl[n][t].cnt = e
  BY <1>5, <1>7 DEF BeingRead
<1>9. PICK R : R = ReadRoute(s, n)
  OBVIOUS
<1>10. Travel(s, R, k, e) /\ pending[s] = k
  BY <1>7, <1>8, <1>9 DEF BeingRead
<1>11. R \in Seq(WordBox) /\ Ends(R, y)
  BY <1>1, <1>4, <1>9, ReadRouteIs
<1>12. v.page = s /\ v.idx = e
  BY <1>1, <1>8
<1>13. Travel(s, R, k, e + 1)'
  BY <1>2, <1>4, <1>10, <1>11, <1>12, TravelPut
<1>14. e < PageWords /\ PageWords \in Nat /\ e \in Nat
  BY <1>3, <1>8, SizeAssumption DEF Work
<1>15. PICK g \in 0 .. PageWords : g = e + 1
  BY <1>14
<1>16. PICK c \in {Free} \cup Work :
           /\ SetsCtrl(n, t, c)
           /\ ctrl[n][t].cnt = PageWords - 1 => c = Free
           /\ ctrl[n][t].cnt # PageWords - 1 =>
                c \in Work /\ c # Free /\ c.page = ctrl[n][t].page /\ c.cnt = ctrl[n][t].cnt + 1
  BY EnqReadCtrl
<1>17. \A i \in Node, u \in Tag : ctrl'[i][u] = IF i = n /\ u = t THEN c ELSE ctrl[i][u]
  BY <1>16, CtrlSet
<1>18. ASSUME NEW i \in Node, NEW u \in Tag, Works(i, u, s)'
       PROVE  i = n /\ u = t /\ c # Free /\ ctrl'[i][u] = c
  <2>1. ctrl'[i][u] # Free /\ ctrl'[i][u].page = s
    BY <1>18 DEF Works
  <2>2. CASE i = n /\ u = t
    BY <1>17, <2>1, <2>2
  <2>3. CASE ~(i = n /\ u = t)
    <3>1. ctrl'[i][u] = ctrl[i][u]
      BY <1>17, <2>3
    <3>2. Works(i, u, s)
      BY <2>1, <3>1 DEF Works
    <3> QED BY <1>4, <2>3, <3>2
  <2> QED BY <2>2, <2>3
<1>19. ASSUME NEW i \in Node, NEW u \in Tag, Works(i, u, s)'
       PROVE  i = n /\ ctrl'[i][u].cnt = g
  <2>1. i = n /\ u = t /\ c # Free /\ ctrl'[i][u] = c
    BY <1>18, <1>19
  <2>2. c.cnt = e + 1
    BY <1>8, <1>16, <2>1
  <2> QED BY <1>15, <2>1, <2>2
<1>20. NoWork(s)' => g = PageWords
  <2>1. CASE c # Free
    <3>1. ctrl'[n][t] = c /\ c.page = s
      BY <1>16, <1>17, <2>1
    <3>2. Works(n, t, s)'
      BY <2>1, <3>1 DEF Works
    <3> QED BY <3>2 DEF NoWork
  <2>2. CASE c = Free
    <3>1. e = PageWords - 1
      BY <1>8, <1>16, <2>2
    <3> QED BY <1>14, <1>15, <3>1
  <2> QED BY <2>1, <2>2
<1>21. Travel(s, ReadRoute(s, n), k, g)'
  BY <1>9, <1>13, <1>15 DEF ReadRoute, AtNode
<1>22. BeingRead(s, n, k, g)'
  BY <1>3, <1>10, <1>19, <1>20, <1>21 DEF BeingRead
<1>23. ReadUnderWay(s)'
  BY <1>22 DEF ReadUnderWay
<1>24. ~Commanded(s)'
  BY <1>4, CommandKept
<1> QED BY <1>3, <1>4, <1>23, <1>24 DEF ReadOf

-----------------------------------------------------------------------------
\* A step of the controller at a page concerns no other page.
LEMMA OtherWork ==
  ASSUME Typed, NEW n \in Node, NEW t \in Tag, NEW c \in {Free} \cup Work, SetsCtrl(n, t, c),
         NEW s, ctrl[n][t] = Free \/ ctrl[n][t].page = s, c = Free \/ c.page = s,
         NEW r, r # s
  PROVE  SameWork(r)
<1>1. \A i \in Node, u \in Tag : ctrl'[i][u] = IF i = n /\ u = t THEN c ELSE ctrl[i][u]
  BY CtrlSet
<1> SUFFICES ASSUME NEW i \in Node, NEW u \in Tag
             PROVE  /\ (Works(i, u, r)' <=> Works(i, u, r))
                    /\ (Works(i, u, r) => ctrl'[i][u].cnt = ctrl[i][u].cnt)
  BY DEF SameWork
<1>2. CASE i = n /\ u = t
  BY <1>1, <1>2 DEF Works
<1>3. CASE ~(i = n /\ u = t)
  <2>1. ctrl'[i][u] = ctrl[i][u]
    BY <1>1, <1>3
  <2> QED BY <2>1 DEF Works
<1> QED BY <1>2, <1>3

\* A controller gives a word of the page it reads.
LEMMA EnqReadHost ==
  ASSUME HostInv, TagInv', NEW n \in Node, NEW t \in Tag, EnqReadFromFlash(n, t)
  PROVE  HostInv'
<1>1. Typed /\ ReqInv /\ ReadInv /\ WriteInv
  BY DEF HostInv, TagInv
<1>2. PICK y, v, s : /\ y = AtNode("locRdInQ", n) /\ s = ctrl[n][t].page
                     /\ v = [tag |-> t, dst |-> n, page |-> ctrl[n][t].page, idx |-> ctrl[n][t].cnt]
  OBVIOUS
<1>3. WordJoins(y, v) /\ JobsSame /\ y \notin WrBox
  BY <1>1, <1>2, EnqReadMoves
<1>4. ReqsQuiet
  BY <1>1, EnqReadReqs DEF ReqsQuiet
<1>5. ctrl[n][t] # Free /\ ctrl[n][t] \in Work /\ ctrl[n][t].op = "read"
      /\ UNCHANGED <<pending, burst>>
  BY <1>1, CtrlTypes DEF EnqReadFromFlash, Op, Free, hostVars, dmaVars
<1>6. s \in Slots /\ s[2] = "read" /\ v.page = s
  BY <1>2, <1>5 DEF Work
<1>7. PICK c \in {Free} \cup Work :
           /\ SetsCtrl(n, t, c) /\ c.op # "write"
           /\ ctrl[n][t].cnt = PageWords - 1 => c = Free
           /\ ctrl[n][t].cnt # PageWords - 1 => c \in Work /\ c # Free /\ c.page = ctrl[n][t].page
  BY <1>1, EnqReadCtrl
<1>8. ReqInv'
  <2>1. \A r \in Slots : pending[r] # Idle => pending'[r] # Idle
    BY <1>5
  <2>2. ReqsSame \/ \E x : ReqLeaves(x)
    BY <1>1, EnqReadReqs
  <2> QED BY <1>1, <2>1, <2>2, ReqKept DEF ReqsSame
<1>9. ASSUME NEW r \in Slots, r # s
      PROVE  StillNone(r) /\ \A R \in Seq(WordBox) : Follows(r, R)
  <2>1. v.page # r
    BY <1>6, <1>9
  <2> QED BY <1>1, <1>3, <2>1, WordsJoin
<1>10. ASSUME NEW r \in Slots, r[2] = "read" PROVE ReadOf(r)'
  <2>1. CASE r = s
    BY <1>1, <1>2, <1>4, <2>1, ReadGiven
  <2>2. CASE r # s
    <3>1. Commanded(r)' => Commanded(r)
      BY <1>1, <1>4, CommandKept
    <3>2. ctrl[n][t] = Free \/ ctrl[n][t].page = s
      BY <1>2
    <3>3. c = Free \/ c.page = s
      BY <1>2, <1>7
    <3>4. SameWork(r)
      BY <1>1, <1>7, <2>2, <3>2, <3>3, OtherWork
    <3>5. ReadOf(r) /\ pending'[r] = pending[r]
      BY <1>1, <1>5, <1>10 DEF ReadInv
    <3>6. \A j \in Node : Follows(r, ReadRoute(r, j))
      <4> SUFFICES ASSUME NEW j \in Node PROVE Follows(r, ReadRoute(r, j))
        OBVIOUS
      <4>1. ReadRoute(r, j) \in Seq(WordBox)
        BY ReadRouteIs
      <4> QED BY <1>9, <2>2, <4>1
    <3>7. StillNone(r)
      BY <1>9, <2>2
    <3> QED BY <3>1, <3>4, <3>5, <3>6, <3>7, ReadSame
  <2> QED BY <2>1, <2>2
<1>11. WriteInv'
  <2>1. \A w \in AnyWord : InWrite(w)' => InWrite(w)
    BY <1>1, <1>3, InWriteNew
  <2>2. SameWrites
    <3>1. \A i \in Node, u \in Tag : ctrl'[i][u] = IF i = n /\ u = t THEN c ELSE ctrl[i][u]
      BY <1>1, <1>7, CtrlSet
    <3> SUFFICES ASSUME NEW i \in Node, NEW u \in Tag
                 PROVE  /\ ctrl[i][u].op = "write" => ctrl'[i][u] = ctrl[i][u]
                        /\ ctrl'[i][u].op = "write" => ctrl[i][u].op = "write"
      BY DEF SameWrites
    <3>2. CASE i = n /\ u = t
      BY <1>5, <1>7, <3>1, <3>2
    <3>3. CASE ~(i = n /\ u = t)
      BY <3>1, <3>3
    <3> QED BY <3>2, <3>3
  <2> QED BY <1>1, <1>3, <1>5, <1>6, <1>9, <2>1, <2>2, WritesApart
<1> QED BY <1>8, <1>10, <1>11 DEF HostInv, ReadInv

-----------------------------------------------------------------------------
\* The tag of a command that waits for the controller is not in use there.
LEMMA NextCommand ==
  ASSUME TagInv, NEW n \in Node, NotEmpty(n, "locCmdOutQ"), NEW cmd, cmd = First(n, "locCmdOutQ")
  PROVE  /\ q[n].locCmdOutQ \in Seq(FlashCmd) /\ q[n].locCmdOutQ # << >> /\ cmd = Head(q[n].locCmdOutQ)
         /\ cmd \in FlashCmd /\ cmd.tag \in Tag /\ ctrl[n][cmd.tag] = Free
<1>1. Typed /\ QueuesTyped /\ NodeInv(n)
  BY DEF TagInv, Typed
<1>2. q[n].locCmdOutQ \in Seq(FlashCmd) /\ q[n].locCmdOutQ # << >> /\ cmd = Head(q[n].locCmdOutQ)
  BY <1>1, QueueTypes DEF NotEmpty, First
<1>3. cmd \in FlashCmd
  BY <1>2
<1>4. cmd.tag \in Tag
  BY <1>3 DEF FlashCmd
<1>5. PICK t \in Tag : t = cmd.tag
  BY <1>4
<1>6. /\ TagPositions(q[n].locCmdOutQ, t) = TagPositions(Tail(q[n].locCmdOutQ), t) + 1
      /\ TagPositions(Tail(q[n].locCmdOutQ), t) \in Nat
  BY <1>2, <1>5, TagPositionsSteps
<1>7. Whereabouts(n, t) /\ PlacesTyped(n, t)
  BY <1>1, <1>5, WhereaboutsIs, TagSum DEF NodeInv
<1>8. AtWork(n, t) = 0
  BY <1>6, <1>7 DEF Whereabouts, PlacesTyped
<1>9. ctrl[n][t] = Free
  BY <1>8 DEF AtWork
<1> QED BY <1>2, <1>3, <1>4, <1>5, <1>9

\* What the controller does with it.
Begun(cmd) == [op |-> cmd.op, page |-> cmd.page, asked |-> FALSE, cnt |-> 0]

\* It is one of the commands a controller can work on.
LEMMA BegunIs ==
  ASSUME NEW cmd \in FlashCmd, NEW c, c = Begun(cmd)
  PROVE  /\ c \in Work /\ c # Free /\ c.op = cmd.op /\ c.page = cmd.page /\ c.cnt = 0 /\ c.asked = FALSE
         /\ cmd.page \in Slots /\ cmd.page[2] = cmd.op
<1>1. c \in [op : Op, page : Slots, asked : BOOLEAN, cnt : Nat]
  BY DEF FlashCmd, Begun
<1>2. c.page[2] = c.op /\ 0 < PageWords
  BY SizeAssumption DEF FlashCmd, Begun
<1>3. c \in Work
  BY <1>1, <1>2 DEF Work, Begun
<1>4. c.op = cmd.op /\ c.page = cmd.page /\ c.cnt = 0 /\ c.asked = FALSE
  BY DEF Begun
<1>5. c # Free
  BY <1>1 DEF Free, Op
<1> QED BY <1>3, <1>4, <1>5 DEF FlashCmd

\* The request, then.
LEMMA IssueCmdMoves ==
  ASSUME TagInv, NEW n \in Node, IssueFlashCmd(n), NEW cmd, cmd = First(n, "locCmdOutQ"),
         NEW x, x = AtNode("locCmdOutQ", n), NEW y, y = <<"ctrl", n, cmd.tag>>
  PROVE  /\ ReqPasses(x, y) /\ WordsSame /\ JobsSame /\ SetsCtrl(n, cmd.tag, Begun(cmd))
         /\ x[1] = "locCmdOutQ" /\ y[1] = "ctrl" /\ Head(ReqAt[x]) = cmd.page /\ ReqAt[y] = << >>
         /\ NotEmpty(n, "locCmdOutQ") /\ UNCHANGED <<pending, burst>>
<1>1. Typed
  BY DEF TagInv
<1>2. /\ Get(n, "locCmdOutQ") /\ SetsCtrl(n, cmd.tag, Begun(cmd)) /\ NotEmpty(n, "locCmdOutQ")
      /\ UNCHANGED <<flashCmdQ, job, net>> /\ UNCHANGED <<pending, burst>>
  BY DEF IssueFlashCmd, SetsCtrl, Begun, Get, hostVars, dmaVars
<1>3. /\ q[n].locCmdOutQ \in Seq(FlashCmd) /\ q[n].locCmdOutQ # << >> /\ cmd = Head(q[n].locCmdOutQ)
      /\ cmd \in FlashCmd /\ cmd.tag \in Tag /\ ctrl[n][cmd.tag] = Free
  BY <1>2, NextCommand
<1>4. PICK t, c : t \in Tag /\ t = cmd.tag /\ c = Begun(cmd)
  BY <1>3
<1>5. c \in {Free} \cup Work /\ c # Free /\ c.page = cmd.page
  BY <1>3, <1>4, BegunIs
<1>6. SetsCtrl(n, t, c)
  BY <1>2, <1>4
<1>7. /\ y \in ReqBox /\ y \in Box \ NotCtrl /\ y[1] = "ctrl"
      /\ Held(y) = InCtrl(ctrl[n][t]) /\ Held(y)' = InCtrl(c)
      /\ \A z \in Box \ NotCtrl : z # y => Held(z)' = Held(z)
  BY <1>1, <1>4, <1>5, <1>6, CtrlBoxes
<1>8. Held(y) = << >> /\ Held(y)' = <<c>>
  BY <1>3, <1>4, <1>5, <1>7 DEF InCtrl
<1>9. Held(y)' = Append(Held(y), c)
  BY <1>8
<1>10. NotCtrl \subseteq Box /\ Elsewhere(NotCtrl) /\ "locCmdOutQ" \in BoxQ /\ x \in NotCtrl
  <2>1. "locCmdOutQ" \in BoxQ
    BY DEF BoxQ, ReqQ
  <2> QED BY <1>2, <2>1, NotCtrlBoxes
<1>11. TakesIn(NotCtrl, x)
  <2>1. PICK B : B = NotCtrl
    OBVIOUS
  <2>2. B \subseteq Box /\ Elsewhere(B) /\ AtNode("locCmdOutQ", n) \in B
    BY <1>10, <2>1
  <2>3. TakesIn(B, AtNode("locCmdOutQ", n))
    BY <1>1, <1>2, <1>10, <2>2, TakenFrom
  <2> QED BY <2>1, <2>3
<1>12. MovesIn(Box, x, y, c)
  <2>1. PICK B : B = NotCtrl
    OBVIOUS
  <2>2. B \subseteq Box /\ TakesIn(B, x) /\ y \in Box \ B /\ \A z \in Box \ B : z # y => Held(z)' = Held(z)
    BY <1>7, <1>10, <1>11, <2>1
  <2> QED BY <1>9, <2>2, MovesOut
<1>13. x \in ReqBox /\ x[1] = "locCmdOutQ" /\ Held(x) = q[n].locCmdOutQ
  BY NodeBoxes, HeldIs DEF BoxQ, ReqQ
<1>14. SlotIn(y[1], c) = cmd.page /\ SlotIn(x[1], Head(Held(x))) = cmd.page
  BY <1>3, <1>5, <1>7, <1>13 DEF SlotIn
<1>15. ReqPasses(x, y) /\ WordsSame /\ JobsSame
  <2>1. SlotIn(y[1], c) = SlotIn(x[1], Head(Held(x)))
    BY <1>14
  <2> QED BY <1>1, <1>7, <1>12, <1>13, <2>1, RequestMoves
<1>16. Head(ReqAt[x]) = cmd.page
  BY <1>1, <1>3, <1>13, <1>14, ReqView
<1>17. ReqAt[y] = << >>
  <2>1. ~(Held(y) # << >>) /\ (Held(y) # << >> <=> ReqAt[y] # << >>)
    BY <1>1, <1>7, <1>8, ReqView
  <2> QED BY <2>1
<1> QED BY <1>2, <1>7, <1>13, <1>15, <1>16, <1>17

-----------------------------------------------------------------------------
\* When the first request of a box moves to another, empty box, it is nowhere else.
LEMMA OnlyThere ==
  ASSUME Typed, ReqInv, NEW x, NEW y, ReqPasses(x, y), ReqAt[y] = << >>, NEW s, s = Head(ReqAt[x]),
         ReqInv'
  PROVE  /\ x \in ReqBox /\ y \in ReqBox /\ s \in Slots /\ 1 \in DOMAIN ReqAt[x] /\ ReqAt[x][1] = s
         /\ \A z \in ReqBox : \A i \in DOMAIN ReqAt'[z] : ReqAt'[z][i] = s => z = y
<1>1. PICK T, U, P : T = ReqAt /\ U = ReqAt' /\ P = ReqBox
  OBVIOUS
<1>2. T \in [P -> Seq(Slots)] /\ Passes(T, U, P, x, y, s)
  BY <1>1, ReqView DEF ReqPasses
<1>3. x \in P /\ y \in P /\ T[x] # << >> /\ U[y] = Append(T[y], s) /\ T[x] \in Seq(Slots)
  BY <1>2 DEF Passes
<1>4. 1 \in DOMAIN T[x] /\ T[x][1] = s /\ s \in Slots
  BY <1>1, <1>3
<1>5. U[y] = <<s>>
  BY <1>1, <1>3
<1>6. 1 \in DOMAIN U[y] /\ U[y][1] = s
  BY <1>5
<1>7. Distinct(U, P)
  BY <1>1 DEF ReqInv
<1>8. \A z \in P : \A i \in DOMAIN U[z] : U[z][i] = s => z = y
  BY <1>3, <1>6, <1>7 DEF Distinct
<1> QED BY <1>1, <1>3, <1>4, <1>8

\* There is no word of a write that no controller has begun.
LEMMA WriteNotBegun ==
  ASSUME Typed, ReqInv, WriteInv, NEW s \in Slots, s[2] = "write", Commanded(s)
  PROVE  Nowhere(s) /\ \A n \in Node, t \in Tag : ~Writes(n, t, s)
<1>1. ASSUME NEW n \in Node, NEW t \in Tag, Writes(n, t, s) PROVE FALSE
  <2>1. ctrl[n][t] # Free /\ ctrl[n][t].page = s
    BY <1>1 DEF Writes, Free
  <2> QED BY <2>1, OneWorker
<1>2. ASSUME NEW z \in WordBox, NEW i \in DOMAIN WordAt[z], WordAt[z][i] \in Of(s) PROVE FALSE
  <2>1. PICK w : w = WordAt[z][i]
    OBVIOUS
  <2>2. w \in AnyWord /\ w.page = s
    BY <1>2, <2>1 DEF Of
  <2>3. CASE z \in WrBox
    <3>1. InWrite(w)
      BY <1>2, <2>1, <2>3 DEF InWrite
    <3>2. Wanted(w)
      BY <2>2, <3>1 DEF WriteInv, WordsWanted
    <3>3. w.tag \in Tag /\ w.dst \in Node /\ Writes(w.dst, w.tag, s)
      BY <2>2, <3>2 DEF Wanted, AnyWord
    <3> QED BY <1>1, <3>3
  <2>4. CASE z \notin WrBox
    <3>1. WordAt[z] \in Seq(ReadWord)
      BY <2>4, WordTypes, WordView
    <3>2. w \in ReadWord
      BY <2>1, <3>1
    <3> QED BY <2>2, <3>2 DEF ReadWord
  <2> QED BY <2>3, <2>4
<1>3. Nowhere(s)
  BY <1>2 DEF Nowhere, NoneOf
<1> QED BY <1>1, <1>3

\* The words of a slot that has none, after a step that moves no word.
LEMMA NoWordsYet ==
  ASSUME Typed, WordsSame, NEW s \in Slots, Nowhere(s), NEW R \in Seq(WordBox)
  PROVE  Travel(s, R, 0, 0)'
<1>1. PICK T, P, K, S : T = WordAt /\ P = WordBox /\ K = Of(s) /\ S = AnyWord
  OBVIOUS
<1>2. T \in [P -> Seq(S)] /\ R \in Seq(P) /\ NoneOf(T, P, K)
  BY <1>1, WordView DEF Nowhere
<1>3. OnRoute(T, P, R, K) /\ Chain(T, R, K, 0, 0)
  BY <1>2, RouteEnds
<1>4. (Of(s))' = K /\ WordAt' = T
  BY <1>1 DEF Of, AnyWord, WordsSame
<1> QED BY <1>1, <1>3, <1>4 DEF Travel

-----------------------------------------------------------------------------
\* A read whose command the controller takes.
LEMMA ReadTakenUp ==
  ASSUME Typed, ReadInv, NEW n \in Node, NEW t \in Tag, NEW c \in Work, SetsCtrl(n, t, c),
         ctrl[n][t] = Free, c # Free, c.cnt = 0, NEW s \in Slots, s = c.page, s[2] = "read",
         Commanded(s), pending[s] # Idle, ~Commanded(s)', WordsSame, UNCHANGED pending
  PROVE  ReadOf(s)'
<1>1. NotBegun(s)
  BY DEF ReadInv, ReadOf
<1>2. Nowhere(s) /\ NoWork(s) /\ pending[s] = 0
  BY <1>1 DEF NotBegun
<1>3. \A i \in Node, u \in Tag : ctrl'[i][u] = IF i = n /\ u = t THEN c ELSE ctrl[i][u]
  BY CtrlSet
<1>4. ASSUME NEW i \in Node, NEW u \in Tag, Works(i, u, s)' PROVE i = n /\ ctrl'[i][u].cnt = 0
  <2>1. CASE i = n /\ u = t
    BY <1>3, <2>1
  <2>2. CASE ~(i = n /\ u = t)
    <3>1. ctrl'[i][u] = ctrl[i][u]
      BY <1>3, <2>2
    <3>2. Works(i, u, s)
      BY <1>4, <3>1 DEF Works
    <3> QED BY <1>2, <3>2 DEF NoWork
  <2> QED BY <2>1, <2>2
<1>5. ~NoWork(s)'
  <2>1. ctrl'[n][t] = c
    BY <1>3
  <2>2. Works(n, t, s)'
    BY <2>1 DEF Works
  <2> QED BY <2>2 DEF NoWork
<1>6. Travel(s, ReadRoute(s, n), 0, 0)'
  <2>1. PICK R : R = ReadRoute(s, n)
    OBVIOUS
  <2>2. Travel(s, R, 0, 0)'
    BY <1>2, <2>1, ReadRouteIs, NoWordsYet
  <2> QED BY <2>1, <2>2 DEF ReadRoute, AtNode
<1>7. BeingRead(s, n, 0, 0)'
  BY <1>2, <1>4, <1>5, <1>6 DEF BeingRead
<1>8. 0 \in 0 .. PageWords
  BY SizeAssumption
<1>9. ReadUnderWay(s)'
  BY <1>7, <1>8 DEF ReadUnderWay
<1> QED BY <1>9 DEF ReadOf

\* A write whose command the controller takes.
LEMMA WriteTakenUp ==
  ASSUME Typed, ReqInv, WriteInv, NEW n \in Node, NEW t \in Tag, NEW c \in Work,
         SetsCtrl(n, t, c), c.cnt = 0, c.asked = FALSE, NEW s \in Slots, s = c.page,
         s[2] = "write", Commanded(s), WordsSame, JobsSame, UNCHANGED burst
  PROVE  WriteOf(n, t)'
<1>1. Nowhere(s) /\ ~Writes(n, t, s)
  BY WriteNotBegun
<1>2. PICK j : j = <<s, n, t>>
  OBVIOUS
<1>3. j \in Token /\ j[1] = s /\ j[2] = n /\ j[3] = t
  BY <1>2 DEF Token
<1>4. \A d \in 0 .. PageWords - 1 : ~HasSent(j, d)
  BY <1>1, <1>3 DEF WriteInv, JobsMatch
<1>5. \A d : HasSent(j, d)' <=> HasSent(j, d)
  <2>1. JobsMatch /\ JobsQuiet
    BY DEF WriteInv, JobsQuiet
  <2>2. SameSent(j)
    BY <2>1, SentKept
  <2> QED BY <2>2 DEF SameSent
<1>6. \A d \in 0 .. PageWords - 1 : ~HasSent(<<s, n, t>>, d)'
  BY <1>2, <1>4, <1>5
<1>7. Travel(s, WriteRoute(s, n), 0, 0)'
  <2>1. PICK R : R = WriteRoute(s, n)
    OBVIOUS
  <2>2. Travel(s, R, 0, 0)'
    BY <1>1, <2>1, WriteRouteIs, NoWordsYet
  <2> QED BY <2>1, <2>2 DEF WriteRoute, AtNode
<1>8. ctrl'[n][t] = c
  BY CtrlSet
<1>9. BeingWritten(n, t, s, 0, 0)'
  BY <1>6, <1>7, <1>8 DEF BeingWritten
<1>10. 0 \in 0 .. PageWords
  BY SizeAssumption
<1> QED BY <1>9, <1>10 DEF WriteOf

\* A controller takes a command.
LEMMA IssueCmdHost ==
  ASSUME HostInv, TagInv', NEW n \in Node, IssueFlashCmd(n)
  PROVE  HostInv'
<1>1. TagInv /\ Typed /\ ReqInv /\ ReadInv /\ WriteInv
  BY DEF HostInv, TagInv
<1>2. PICK cmd, t, c, s, x, y :
        /\ cmd = First(n, "locCmdOutQ") /\ t = cmd.tag /\ c = Begun(cmd) /\ s = cmd.page
        /\ x = AtNode("locCmdOutQ", n) /\ y = <<"ctrl", n, cmd.tag>>
  OBVIOUS
<1>3. /\ ReqPasses(x, y) /\ WordsSame /\ JobsSame /\ SetsCtrl(n, t, c)
      /\ x[1] = "locCmdOutQ" /\ y[1] = "ctrl" /\ Head(ReqAt[x]) = s /\ ReqAt[y] = << >>
      /\ NotEmpty(n, "locCmdOutQ") /\ UNCHANGED <<pending, burst>>
  BY <1>1, <1>2, IssueCmdMoves
<1>4. cmd \in FlashCmd /\ t \in Tag /\ ctrl[n][t] = Free
  BY <1>1, <1>2, <1>3, NextCommand
<1>5. c \in Work /\ c # Free /\ c.page = s /\ c.cnt = 0 /\ c.asked = FALSE /\ s[2] = c.op
  BY ZenonT(60), <1>2, <1>4, BegunIs
<1>6. ReqInv' /\ UNCHANGED pending
  <2>1. \A r \in Slots : pending[r] # Idle => pending'[r] # Idle
    BY <1>3
  <2> QED BY <1>1, <1>3, <2>1, ReqKept
<1>7. /\ x \in ReqBox /\ y \in ReqBox /\ s \in Slots /\ 1 \in DOMAIN ReqAt[x] /\ ReqAt[x][1] = s
      /\ \A z \in ReqBox : \A i \in DOMAIN ReqAt'[z] : ReqAt'[z][i] = s => z = y
  BY <1>1, <1>3, <1>6, OnlyThere
<1>8. Commanded(s) /\ pending[s] # Idle
  <2>1. x[1] \in CmdKinds
    BY <1>3 DEF CmdKinds
  <2>2. Requested(s)
    BY <1>7 DEF Requested
  <2> QED BY <1>1, <1>7, <2>1, <2>2 DEF Commanded, ReqInv
<1>9. ~Commanded(s)'
  <2>1. y[1] \notin CmdKinds
    BY <1>3 DEF CmdKinds
  <2> QED BY <1>7, <2>1 DEF Commanded
<1>10. ReqsQuiet
  <2>1. y[1] \notin CmdKinds
    BY <1>3 DEF CmdKinds
  <2> QED BY <1>3, <2>1 DEF ReqsQuiet
<1>11. ASSUME NEW r \in Slots, r[2] = "read" PROVE ReadOf(r)'
  <2>1. CASE r = s
    BY <1>1, <1>3, <1>4, <1>5, <1>6, <1>7, <1>8, <1>9, <1>11, <2>1, ReadTakenUp
  <2>2. CASE r # s
    <3>1. Commanded(r)' => Commanded(r)
      BY <1>1, <1>10, CommandKept
    <3>2. SameWork(r)
      BY <1>1, <1>3, <1>4, <1>5, <2>2, OtherWork
    <3>3. ReadOf(r) /\ pending'[r] = pending[r]
      BY <1>1, <1>6, <1>11 DEF ReadInv
    <3>4. StillNone(r) /\ \A j \in Node : Follows(r, ReadRoute(r, j))
      BY <1>3, WordsStay
    <3> QED BY <3>1, <3>2, <3>3, <3>4, ReadSame
  <2> QED BY <2>1, <2>2
<1>12. \A i \in Node, u \in Tag : ctrl'[i][u] = IF i = n /\ u = t THEN c ELSE ctrl[i][u]
  BY <1>1, <1>3, <1>4, <1>5, CtrlSet
<1>13. WriteInv'
  <2>1. JobsQuiet /\ UNCHANGED burst
    BY <1>3 DEF JobsQuiet
  <2>2. \A w \in AnyWord : InWrite(w)' => InWrite(w)
    BY <1>1, <1>3, InWriteKept DEF WordsQuiet
  <2>3. \A i \in Node, u \in Tag : ctrl[i][u].op = "write" => ctrl'[i][u] = ctrl[i][u]
    BY <1>4, <1>12 DEF Free
  <2>4. ASSUME NEW i \in Node, NEW u \in Tag, ctrl'[i][u].op = "write"
        PROVE  ctrl[i][u].op = "write" \/ WriteOf(i, u)'
    <3>1. CASE i = n /\ u = t
      <4>1. c.op = "write"
        BY <1>12, <2>4, <3>1
      <4>2. WriteOf(n, t)'
        BY <1>1, <1>3, <1>4, <1>5, <1>7, <1>8, <4>1, WriteTakenUp
      <4> QED BY <3>1, <4>2
    <3>2. CASE ~(i = n /\ u = t)
      BY <1>12, <2>4, <3>2
    <3> QED BY <3>1, <3>2
  <2>5. \A i \in Node, u \in Tag, r \in Slots :
          ctrl[i][u].op = "write" /\ r = ctrl[i][u].page => Follows(r, WriteRoute(r, i))
    BY <1>3, WordsStay
  <2> QED BY <1>1, <2>1, <2>2, <2>3, <2>4, <2>5, WritesKept
<1> QED BY <1>6, <1>11, <1>13 DEF HostInv, ReadInv

-----------------------------------------------------------------------------
\* The controller has all the words of a page: none is on its way.
LEMMA WriteIsDone ==
  ASSUME Typed, WriteInv, NEW n \in Node, NEW t \in Tag, ctrl[n][t].op = "write",
         ctrl[n][t].cnt = PageWords, NEW s, s = ctrl[n][t].page
  PROVE  s \in Slots /\ Nowhere(s) /\ \A d \in 0 .. PageWords - 1 : ~HasSent(<<s, n, t>>, d)
<1>1. PICK r \in Slots, k \in 0 .. PageWords, e \in 0 .. PageWords : BeingWritten(n, t, r, k, e)
  BY DEF WriteInv, WriteOf
<1>2. r = s /\ k = PageWords /\ Travel(s, WriteRoute(s, n), k, e) /\ s \in Slots
  BY <1>1 DEF BeingWritten
<1>3. PICK T, P, K, S, R : /\ T = WordAt /\ P = WordBox /\ K = Of(s) /\ S = AnyWord
                           /\ R = WriteRoute(s, n)
  OBVIOUS
<1>4. T \in [P -> Seq(S)] /\ R \in Seq(P) /\ Len(R) \in {2, 4, 5}
  BY <1>2, <1>3, WordView, WriteRouteIs
<1>5. OnRoute(T, P, R, K) /\ Chain(T, R, K, k, e)
  BY <1>2, <1>3 DEF Travel
<1>6. k <= e
  BY <1>4, <1>5, ChainEnds
<1>7. e = PageWords /\ k = e /\ PageWords \in Nat
  BY <1>2, <1>6, SizeAssumption
<1>8. Chain(T, R, K, k, k)
  BY <1>5, <1>7
<1>9. NoneOf(T, P, K)
  BY <1>4, <1>5, <1>8, RouteEnds
<1>10. ASSUME NEW d \in 0 .. PageWords - 1, HasSent(<<s, n, t>>, d) PROVE FALSE
  <2>1. e = d
    BY <1>1, <1>2, <1>10 DEF BeingWritten
  <2> QED BY <1>7, <2>1
<1> QED BY <1>2, <1>3, <1>9, <1>10 DEF Nowhere

\* A write that is done goes.
LEMMA WriteGoes ==
  ASSUME Typed, WriteInv, WordsSame, JobsSame, UNCHANGED burst, NEW n \in Node, NEW t \in Tag,
         SetsCtrl(n, t, Free), NEW s, s = ctrl[n][t].page, Nowhere(s),
         \A d \in 0 .. PageWords - 1 : ~HasSent(<<s, n, t>>, d)
  PROVE  WriteInv'
<1>1. JobsMatch /\ WordsWanted /\ \A i \in Node, u \in Tag : WriteOf(i, u)
  BY DEF WriteInv
<1>2. \A i \in Node, u \in Tag : ctrl'[i][u] = IF i = n /\ u = t THEN Free ELSE ctrl[i][u]
  BY CtrlSet
<1>3. JobsQuiet
  BY DEF JobsQuiet
<1>4. Distinct(JobAt', WreqBox) /\ (\A j : SameSent(j)) /\ BurstsEnd'
  BY <1>1, <1>3, SentKept
<1>5. ASSUME NEW i \in Node, NEW u \in Tag, ~(i = n /\ u = t), NEW r, Writes(i, u, r)
      PROVE  Writes(i, u, r)'
  <2>1. ctrl'[i][u] = ctrl[i][u]
    BY <1>2, <1>5
  <2> QED BY <1>5, <2>1 DEF Writes
<1>6. JobsMatch'
  <2>1. ASSUME NEW i \in Node, NEW u \in Tag, NEW r \in Slots,
               \E d \in 0 .. PageWords - 1 : HasSent(<<r, i, u>>, d), Writes(i, u, r)
        PROVE  Writes(i, u, r)'
    <3>1. CASE i = n /\ u = t
      <4>1. r = s
        BY <2>1, <3>1 DEF Writes
      <4> QED BY <2>1, <3>1, <4>1
    <3> QED BY <1>5, <2>1, <3>1
  <2>2. \A i \in Node, u \in Tag, r \in Slots :
          (\E d \in 0 .. PageWords - 1 : HasSent(<<r, i, u>>, d)) /\ Writes(i, u, r)
             => Writes(i, u, r)'
    BY <2>1
  <2> QED BY <1>1, <1>4, <2>2, JobsKept
<1>7. WordsWanted'
  <2> SUFFICES ASSUME NEW w \in AnyWord, InWrite(w)' PROVE Wanted(w)'
    BY DEF WordsWanted, AnyWord
  <2>1. InWrite(w)
    BY InWriteKept DEF WordsQuiet
  <2>2. w.tag \in Tag /\ w.dst \in Node /\ w.page \in Slots /\ Writes(w.dst, w.tag, w.page)
    BY <1>1, <2>1 DEF WordsWanted, Wanted, AnyWord
  <2>3. PICK i \in Node, u \in Tag, r \in Slots : i = w.dst /\ u = w.tag /\ r = w.page
    BY <2>2
  <2>4. ~(i = n /\ u = t)
    <3> SUFFICES ASSUME i = n, u = t PROVE FALSE
      OBVIOUS
    <3>1. r = s
      BY <2>2, <2>3 DEF Writes
    <3>2. w \in Of(s)
      BY <2>3, <3>1 DEF Of
    <3>3. PICK z \in WrBox : \E j \in DOMAIN WordAt[z] : WordAt[z][j] = w
      BY <2>1 DEF InWrite
    <3>4. z \in WordBox
      BY Apart
    <3> QED BY <3>2, <3>3, <3>4 DEF Nowhere, NoneOf
  <2>5. Writes(i, u, r)'
    BY <1>5, <2>2, <2>3, <2>4
  <2> QED BY <2>2, <2>3, <2>5 DEF Wanted, Writes
<1>8. ASSUME NEW i \in Node, NEW u \in Tag PROVE WriteOf(i, u)'
  <2>1. CASE i = n /\ u = t
    <3>1. ctrl'[i][u].op # "write"
      BY <1>2, <2>1 DEF Free
    <3> QED BY <3>1 DEF WriteOf
  <2>2. CASE ~(i = n /\ u = t)
    <3>1. ctrl'[i][u] = ctrl[i][u] /\ WriteOf(i, u)
      BY <1>1, <1>2, <2>2
    <3>2. ASSUME NEW r \in Slots PROVE Follows(r, WriteRoute(r, i)) /\ SameSent(<<r, i, u>>)
      BY <1>4, WordsStay
    <3> QED BY <3>1, <3>2, WriteSame
  <2> QED BY <2>1, <2>2
<1> QED BY <1>6, <1>7, <1>8 DEF WriteInv

-----------------------------------------------------------------------------
\* The table has the slot of the command under a tag.
LEMMA TableSlot ==
  ASSUME TagInv, NEW n \in Node, NEW t \in Tag, ctrl[n][t] # Free,
         NEW s, s = ctrl[n][t].page, NEW e, e = tagTable[n][t]
  PROVE  /\ s \in Slots /\ ctrl[n][t] \in Work /\ s[2] = ctrl[n][t].op
         /\ SlotOf(e.src, ctrl[n][t].op, e.origTag) = s /\ e.src = s[1]
<1>1. Typed /\ TableMatches(n)
  BY DEF TagInv, NodeInv
<1>2. ctrl[n][t] \in Work
  BY <1>1, CtrlTypes
<1>3. s \in Slots /\ s[2] = ctrl[n][t].op
  BY <1>2 DEF Work
<1>4. e = EntryOf(s)
  BY <1>1 DEF TableMatches
<1>5. SlotOf(e.src, s[2], e.origTag) = s /\ e.src = s[1]
  BY <1>3, <1>4, SlotEntry
<1> QED BY <1>2, <1>3, <1>5

\* The controller acks the command under a tag.
LEMMA LocAckMoves ==
  ASSUME TagInv, NEW n \in Node, NEW t \in Tag, LocAck(n, t), NEW x, x = <<"ctrl", n, t>>,
         NEW y, y = AtNode("locAckInQ", n)
  PROVE  /\ ReqPasses(x, y) /\ WordsSame /\ JobsSame /\ SetsCtrl(n, t, Free)
         /\ y[1] = "locAckInQ" /\ ctrl[n][t] # Free /\ UNCHANGED <<pending, burst>>
<1>1. Typed
  BY DEF TagInv
<1>2. PICK e, o, v : /\ e = tagTable[n][t] /\ o = ctrl[n][t].op
                     /\ v = [tag |-> t, status |-> o, entry |-> e]
  OBVIOUS
<1>3. /\ q' = Enq(n, "locAckInQ", v) /\ SetsCtrl(n, t, Free) /\ UNCHANGED <<flashCmdQ, job, net>>
      /\ UNCHANGED <<pending, burst>> /\ ctrl[n][t].op \in {"write", "erase"}
  BY <1>2 DEF LocAck, LocCliAckStatus, SetsCtrl, hostVars, dmaVars
<1>4. ctrl[n][t] # Free
  BY <1>3 DEF Free
<1>5. PICK s : s = ctrl[n][t].page
  OBVIOUS
<1>6. s \in Slots /\ ctrl[n][t] \in Work /\ SlotOf(e.src, o, e.origTag) = s
  BY <1>2, <1>4, <1>5, TableSlot
<1>7. /\ x \in ReqBox /\ x \in Box \ NotCtrl /\ x[1] = "ctrl"
      /\ Held(x) = InCtrl(ctrl[n][t]) /\ Held(x)' = InCtrl(Free)
      /\ \A z \in Box \ NotCtrl : z # x => Held(z)' = Held(z)
  BY <1>1, <1>3, CtrlBoxes
<1>8. PICK b : b = ctrl[n][t]
  OBVIOUS
<1>9. Held(x) = <<b>> /\ Held(x)' = << >>
  BY <1>4, <1>7, <1>8 DEF InCtrl
<1>10. Held(x) # << >> /\ Held(x)' = Tail(Held(x)) /\ Head(Held(x)) = b
  <2>1. <<b>> # << >> /\ Tail(<<b>>) = << >> /\ Head(<<b>>) = b
    BY EmptyTail
  <2> QED BY <1>9, <2>1
<1>11. NotCtrl \subseteq Box /\ Elsewhere(NotCtrl) /\ "locAckInQ" \in BoxQ /\ y \in NotCtrl
  <2>1. "locAckInQ" \in BoxQ
    BY DEF BoxQ, ReqQ
  <2> QED BY <1>3, <2>1, NotCtrlBoxes
<1>12. PutsIn(NotCtrl, y, v)
  <2>1. PICK B : B = NotCtrl
    OBVIOUS
  <2>2. B \subseteq Box /\ Elsewhere(B) /\ AtNode("locAckInQ", n) \in B
    BY <1>11, <2>1
  <2>3. PutsIn(B, AtNode("locAckInQ", n), v)
    BY <1>1, <1>3, <1>11, <2>2, PutInto
  <2> QED BY <2>1, <2>3
<1>13. MovesIn(Box, x, y, v)
  <2>1. PICK B : B = NotCtrl
    OBVIOUS
  <2>2. B \subseteq Box /\ PutsIn(B, y, v) /\ x \in Box \ B /\ \A z \in Box \ B : z # x => Held(z)' = Held(z)
    BY <1>7, <1>11, <1>12, <2>1
  <2> QED BY <1>10, <2>2, MovesInto
<1>14. y \in ReqBox /\ y[1] = "locAckInQ"
  BY NodeBoxes, <1>11 DEF BoxQ, ReqQ
<1>15. SlotIn(y[1], v) = SlotIn(x[1], Head(Held(x)))
  <2>1. SlotIn(y[1], v) = s
    BY <1>2, <1>6, <1>14 DEF SlotIn
  <2>2. SlotIn(x[1], Head(Held(x))) = s
    BY <1>5, <1>7, <1>8, <1>10 DEF SlotIn
  <2> QED BY <2>1, <2>2
<1>16. ReqPasses(x, y) /\ WordsSame /\ JobsSame
  BY <1>1, <1>7, <1>13, <1>14, <1>15, RequestMoves
<1> QED BY <1>3, <1>4, <1>14, <1>16

\* A controller acks a command.
LEMMA LocAckHost ==
  ASSUME HostInv, TagInv', NEW n \in Node, NEW t \in Tag, LocAck(n, t)
  PROVE  HostInv'
<1>1. TagInv /\ Typed /\ ReqInv /\ ReadInv /\ WriteInv
  BY DEF HostInv, TagInv
<1>2. PICK x, y, s : x = <<"ctrl", n, t>> /\ y = AtNode("locAckInQ", n) /\ s = ctrl[n][t].page
  OBVIOUS
<1>3. /\ ReqPasses(x, y) /\ WordsSame /\ JobsSame /\ SetsCtrl(n, t, Free)
      /\ y[1] = "locAckInQ" /\ ctrl[n][t] # Free /\ UNCHANGED <<pending, burst>>
  BY <1>1, <1>2, LocAckMoves
<1>4. /\ ctrl[n][t].op \in {"write", "erase"}
      /\ ctrl[n][t].op = "write" => ctrl[n][t].cnt = PageWords
  BY DEF LocAck
<1>5. s \in Slots /\ s[2] = ctrl[n][t].op
  BY <1>1, <1>2, <1>3, TableSlot
<1>6. ReqInv'
  <2>1. \A r \in Slots : pending[r] # Idle => pending'[r] # Idle
    BY <1>3
  <2> QED BY <1>1, <1>3, <2>1, ReqKept
<1>7. ReqsQuiet
  <2>1. y[1] \notin CmdKinds
    BY <1>3 DEF CmdKinds
  <2> QED BY <1>3, <2>1 DEF ReqsQuiet
<1>8. ASSUME NEW r \in Slots, r[2] = "read" PROVE ReadOf(r)'
  <2>1. Commanded(r)' => Commanded(r)
    BY <1>1, <1>7, CommandKept
  <2>2. SameWork(r)
    <3>1. r # s
      BY <1>4, <1>5, <1>8
    <3>2. PICK c \in {Free} \cup Work : c = Free
      OBVIOUS
    <3>3. SetsCtrl(n, t, c) /\ (ctrl[n][t] = Free \/ ctrl[n][t].page = s) /\ (c = Free \/ c.page = s)
      BY <1>2, <1>3, <3>2
    <3> QED BY <1>1, <3>1, <3>3, OtherWork
  <2>3. ReadOf(r) /\ pending'[r] = pending[r]
    BY <1>1, <1>3, <1>8 DEF ReadInv
  <2>4. StillNone(r) /\ \A j \in Node : Follows(r, ReadRoute(r, j))
    BY <1>3, WordsStay
  <2> QED BY <2>1, <2>2, <2>3, <2>4, ReadSame
<1>9. WriteInv'
  <2>1. CASE ctrl[n][t].op = "write"
    <3>1. Nowhere(s) /\ \A d \in 0 .. PageWords - 1 : ~HasSent(<<s, n, t>>, d)
      BY <1>1, <1>2, <1>4, <2>1, WriteIsDone
    <3> QED BY <1>1, <1>2, <1>3, <3>1, WriteGoes
  <2>2. CASE ctrl[n][t].op # "write"
    <3>1. \A i \in Node, u \in Tag : ctrl'[i][u] = IF i = n /\ u = t THEN Free ELSE ctrl[i][u]
      BY <1>1, <1>3, CtrlSet
    <3>2. JobsQuiet /\ UNCHANGED burst
      BY <1>3 DEF JobsQuiet
    <3>3. \A w \in AnyWord : InWrite(w)' => InWrite(w)
      BY <1>1, <1>3, InWriteKept DEF WordsQuiet
    <3>4. \A i \in Node, u \in Tag : ctrl[i][u].op = "write" => ctrl'[i][u] = ctrl[i][u]
      BY <2>2, <3>1
    <3>5. ASSUME NEW i \in Node, NEW u \in Tag, ctrl'[i][u].op = "write"
          PROVE  ctrl[i][u].op = "write" \/ WriteOf(i, u)'
      BY <3>1, <3>5 DEF Free
    <3>6. \A i \in Node, u \in Tag, r \in Slots :
            ctrl[i][u].op = "write" /\ r = ctrl[i][u].page => Follows(r, WriteRoute(r, i))
      BY <1>3, WordsStay
    <3> QED BY <1>1, <3>2, <3>3, <3>4, <3>5, <3>6, WritesKept
  <2> QED BY <2>1, <2>2
<1> QED BY <1>6, <1>8, <1>9 DEF HostInv, ReadInv

-----------------------------------------------------------------------------
\* How many words have been sent for a write data request.
LEMMA SentIn ==
  ASSUME Typed, NEW x \in WreqBox, NEW i
  PROVE  Sent(x, i) \in 0 .. PageWords - 1
<1>1. PageWords \in Nat \ {0} /\ 0 \in 0 .. PageWords - 1
  BY SizeAssumption
<1>2. CASE x[1] = "job" /\ i = 1
  <2>1. PICK n \in Node, p \in Eng : x = <<"job", n, p>>
    <3>1. \A f \in WreqQ, n \in Node : x # AtNode(f, n)
      BY <1>2, NodeBoxes DEF BoxQ
    <3>2. \A a, b \in Node : x # <<"wreq", a, b>>
      BY <1>2
    <3> QED BY <3>1, <3>2, Families
  <2>2. burst \in [Node -> [Eng -> 0 .. PageWords - 1]]
    BY DEF Typed, HostsTyped
  <2>3. Sent(x, i) = burst[n][p]
    BY <1>2, <2>1 DEF Sent
  <2> QED BY <2>2, <2>3
<1>3. CASE ~(x[1] = "job" /\ i = 1)
  BY <1>1, <1>3 DEF Sent
<1> QED BY <1>2, <1>3

\* A write data request for which nothing has been sent.
LEMMA JobNew ==
  ASSUME Typed, JobsMatch, NEW y, y[1] # "job", NEW j \in Token, JobJoins(y, j),
         \A d \in 0 .. PageWords - 1 : ~HasSent(j, d), UNCHANGED burst
  PROVE  /\ Distinct(JobAt', WreqBox) /\ BurstsEnd'
         /\ HasSent(j, 0)' /\ \A d : HasSent(j, d)' => d = 0
         /\ \A i : i # j => SameSent(i)
<1>1. PICK T, U, P : T = JobAt /\ U = JobAt' /\ P = WreqBox
  OBVIOUS
<1>2. T \in [P -> Seq(Token)] /\ Distinct(T, P) /\ BurstsEnd
  BY <1>1, JobView DEF JobsMatch, BurstsEnd
<1>3. \A x, i : Sent(x, i)' = Sent(x, i)
  BY DEF Sent
<1>4. \A i, d : HasSent(i, d) <=> \E x \in P : \E k \in DOMAIN T[x] : T[x][k] = i /\ Sent(x, k) = d
  BY <1>1 DEF HasSent
<1>5. \A i, d : HasSent(i, d)' <=> \E x \in P : \E k \in DOMAIN U[x] : U[x][k] = i /\ Sent(x, k) = d
  BY <1>1, <1>3 DEF HasSent
<1>6. y \in P /\ U[y] = Append(T[y], j) /\ SameBut(T, U, P, y)
  BY <1>1 DEF JobJoins, Joins
<1>7. NotIn(j, T, P)
  <2> SUFFICES ASSUME NEW z \in P, NEW k \in DOMAIN T[z], T[z][k] = j PROVE FALSE
    BY DEF NotIn
  <2>1. PICK d \in 0 .. PageWords - 1 : d = Sent(z, k)
    BY <1>1, SentIn
  <2>2. HasSent(j, d)
    BY <1>4, <2>1
  <2> QED BY <2>2
<1>8. Distinct(U, P)
  BY <1>2, <1>6, <1>7, DistinctPut
<1>9. \A i : Sent(y, i) = 0
  BY DEF Sent
<1>10. PICK l \in Nat : l = Len(T[y]) /\ DOMAIN T[y] = 1 .. l
  BY <1>2, <1>6
<1>11. DOMAIN U[y] = 1 .. l + 1 /\ U[y][l + 1] = j /\ \A i \in 1 .. l : U[y][i] = T[y][i]
  BY <1>2, <1>6, <1>10
<1>12. HasSent(j, 0)'
  <2>1. l + 1 \in DOMAIN U[y] /\ U[y][l + 1] = j /\ Sent(y, l + 1) = 0
    BY <1>9, <1>10, <1>11
  <2> QED BY <1>5, <1>6, <2>1
<1>13. ASSUME NEW i, NEW d, NEW z \in P, NEW k \in DOMAIN U[z], U[z][k] = i, Sent(z, k) = d
       PROVE  \/ k \in DOMAIN T[z] /\ T[z][k] = i
              \/ i = j /\ d = 0
  <2>1. CASE z = y /\ k = l + 1
    BY <1>9, <1>11, <1>13, <2>1
  <2>2. CASE z = y /\ k # l + 1
    <3>1. k \in 1 .. l
      BY <1>10, <1>11, <1>13, <2>2
    <3> QED BY <1>10, <1>11, <1>13, <2>2, <3>1
  <2>3. CASE z # y
    BY <1>6, <1>13, <2>3 DEF SameBut
  <2> QED BY <2>1, <2>2, <2>3
<1>14. ASSUME NEW d, HasSent(j, d)' PROVE d = 0
  <2>1. PICK z \in P : \E k \in DOMAIN U[z] : U[z][k] = j /\ Sent(z, k) = d
    BY <1>5, <1>14
  <2>2. PICK k \in DOMAIN U[z] : U[z][k] = j /\ Sent(z, k) = d
    BY <2>1
  <2>3. ~(k \in DOMAIN T[z] /\ T[z][k] = j)
    BY <1>7 DEF NotIn
  <2> QED BY <1>13, <2>2, <2>3
<1>15. ASSUME NEW i, i # j PROVE SameSent(i)
  <2>1. ASSUME NEW d, HasSent(i, d)' PROVE HasSent(i, d)
    <3>1. PICK z \in P : \E k \in DOMAIN U[z] : U[z][k] = i /\ Sent(z, k) = d
      BY <1>5, <2>1
    <3>2. PICK k \in DOMAIN U[z] : U[z][k] = i /\ Sent(z, k) = d
      BY <3>1
    <3>3. k \in DOMAIN T[z] /\ T[z][k] = i
      BY <1>13, <1>15, <3>2
    <3> QED BY <1>4, <3>2, <3>3
  <2>2. ASSUME NEW d, HasSent(i, d) PROVE HasSent(i, d)'
    <3>1. PICK z \in P : \E k \in DOMAIN T[z] : T[z][k] = i /\ Sent(z, k) = d
      BY <1>4, <2>2
    <3>2. PICK k \in DOMAIN T[z] : T[z][k] = i /\ Sent(z, k) = d
      BY <3>1
    <3>3. k \in DOMAIN U[z] /\ U[z][k] = i
      <4>1. CASE z = y
        <5>1. k \in 1 .. l /\ k \in 1 .. l + 1
          BY <1>10, <3>2, <4>1
        <5> QED BY <1>11, <3>2, <4>1, <5>1
      <4>2. CASE z # y
        BY <1>6, <3>2, <4>2 DEF SameBut
      <4> QED BY <4>1, <4>2
    <3> QED BY <1>5, <3>2, <3>3
  <2>3. \A d : HasSent(i, d)' <=> HasSent(i, d)
    BY <2>1, <2>2
  <2> QED BY <2>3 DEF SameSent
<1>16. BurstsEnd'
  <2> SUFFICES ASSUME NEW z \in P, z[1] = "job", U[z] = << >> PROVE burst'[z[2]][z[3]] = 0
    BY <1>1 DEF BurstsEnd
  <2>1. z # y
    OBVIOUS
  <2>2. T[z] = << >>
    BY <1>6, <2>1 DEF SameBut
  <2> QED BY <1>1, <1>2, <2>2 DEF BurstsEnd
<1> QED BY <1>1, <1>8, <1>12, <1>14, <1>15, <1>16

\* Only whether the words have been asked for changes.
NowAsked(n, t, s, c) ==
  /\ SetsCtrl(n, t, c) /\ c \in Work /\ c.op = "write" /\ c.page = s /\ c.asked = TRUE
  /\ c.cnt = ctrl[n][t].cnt

\* The controller asks for the data of the page under a tag.
LEMMA LocWriteReqMoves ==
  ASSUME TagInv, NEW n \in Node, NEW t \in Tag, LocWriteReq(n, t), NEW y, y = AtNode("locWreqInQ", n),
         NEW s, s = ctrl[n][t].page, NEW j, j = <<s, n, t>>
  PROVE  /\ ReqsSame /\ WordsSame /\ JobJoins(y, j) /\ (\E c : NowAsked(n, t, s, c))
         /\ UNCHANGED <<pending, burst>>
<1>1. Typed
  BY DEF TagInv
<1>2. PICK e, v, b, c : /\ e = tagTable[n][t] /\ v = [reTag |-> t, entry |-> e] /\ b = ctrl[n][t]
                        /\ c = [b EXCEPT !.asked = TRUE]
  OBVIOUS
<1>3. /\ q' = Enq(n, "locWreqInQ", v) /\ UNCHANGED <<flashCmdQ, job, net>>
      /\ UNCHANGED <<pending, burst>> /\ b.op = "write"
      /\ ctrl' = [ctrl EXCEPT ![n][t].asked = TRUE]
  BY <1>2 DEF LocWriteReq, LocCliWriteDataReq, hostVars, dmaVars
<1>4. b # Free
  BY <1>3 DEF Free
<1>5. s \in Slots /\ b \in Work /\ s[2] = "write" /\ SlotOf(e.src, "write", e.origTag) = s
  BY <1>1, <1>2, <1>3, <1>4, TableSlot
<1>6. b \in [op : Op, page : Slots, asked : BOOLEAN, cnt : Nat] /\ b.page[2] = b.op
  BY <1>5 DEF Work
<1>7. /\ c \in [op : Op, page : Slots, asked : BOOLEAN, cnt : Nat]
      /\ c.op = "write" /\ c.page = s /\ c.asked = TRUE /\ c.cnt = b.cnt
  BY <1>2, <1>3, <1>6
<1>8. c \in Work
  BY <1>5, <1>7 DEF Work
<1>9. SetsCtrl(n, t, c)
  <2>1. ctrl \in [Node -> [Tag -> {Free} \cup Work]]
    BY <1>1 DEF Typed, TagsTyped
  <2>2. [ctrl EXCEPT ![n][t].asked = TRUE] = [ctrl EXCEPT ![n][t] = c]
    BY <1>2, <2>1
  <2> QED BY <1>3, <2>2 DEF SetsCtrl
<1>10. NotCtrl \subseteq Box /\ Elsewhere(NotCtrl) /\ "locWreqInQ" \in BoxQ /\ y \in NotCtrl
  <2>1. "locWreqInQ" \in BoxQ
    BY DEF BoxQ, WreqQ
  <2> QED BY <1>3, <2>1, NotCtrlBoxes
<1>11. PutsIn(NotCtrl, y, v)
  <2>1. PICK B : B = NotCtrl
    OBVIOUS
  <2>2. B \subseteq Box /\ Elsewhere(B) /\ AtNode("locWreqInQ", n) \in B
    BY <1>10, <2>1
  <2>3. PutsIn(B, AtNode("locWreqInQ", n), v)
    BY <1>1, <1>3, <1>10, <2>2, PutInto
  <2> QED BY <2>1, <2>3
<1>12. y \in WreqBox /\ y[1] = "locWreqInQ" /\ y[2] = n
  <2>1. y \in WreqBox
    BY NodeBoxes DEF WreqQ
  <2> QED BY <2>1 DEF AtNode
<1>13. y \notin ReqBox /\ y \notin WordBox /\ WordBox \subseteq NotCtrl /\ WreqBox \subseteq NotCtrl
  BY <1>12, Apart, NotCtrlBoxes
<1>14. JobOf(y, v) = <<s, n, t>> /\ <<s, n, t>> \in Token
  BY <1>2, <1>5, <1>12 DEF JobOf, Token
<1>15. JobJoins(y, <<s, n, t>>)
  BY <1>1, <1>11, <1>12, <1>13, <1>14, JobsAfter
<1>16. WordsSame
  BY <1>1, <1>11, <1>13, WordsAfter
<1>17. ReqsSame
  <2>1. \A z \in ReqBox \cap NotCtrl : Held(z)' = Held(z)
    BY <1>11, <1>13 DEF PutsIn
  <2> QED BY <1>1, <1>2, <1>4, <1>7, <1>8, <1>9, <2>1, WorkerStays
<1>18. NowAsked(n, t, s, c)
  BY <1>2, <1>7, <1>8, <1>9 DEF NowAsked
<1> QED BY <1>3, <1>15, <1>16, <1>17, <1>18

-----------------------------------------------------------------------------
\* The writes of all controllers are still followed when one of them asks for
\* its words.
LEMMA WriteAsks ==
  ASSUME Typed, WriteInv, NEW n \in Node, NEW t \in Tag, NEW c \in Work, SetsCtrl(n, t, c),
         ctrl[n][t].op = "write", ctrl[n][t].asked = FALSE, NEW s \in Slots, s = ctrl[n][t].page,
         c.op = "write", c.page = s, c.asked = TRUE, c.cnt = ctrl[n][t].cnt,
         NEW y, y[1] # "job", NEW j, j = <<s, n, t>>, JobJoins(y, j), WordsSame, UNCHANGED burst
  PROVE  WriteInv'
<1>1. JobsMatch /\ WordsWanted /\ \A i \in Node, u \in Tag : WriteOf(i, u)
  BY DEF WriteInv
<1>2. \A i \in Node, u \in Tag : ctrl'[i][u] = IF i = n /\ u = t THEN c ELSE ctrl[i][u]
  BY CtrlSet
<1>3. j \in Token
  BY DEF Token
<1>4. \A d \in 0 .. PageWords - 1 : ~HasSent(j, d)
  <2> SUFFICES ASSUME NEW d \in 0 .. PageWords - 1, HasSent(j, d) PROVE FALSE
    OBVIOUS
  <2>1. Writes(j[2], j[3], j[1])
    BY <1>1, <1>3 DEF JobsMatch
  <2>2. j[2] = n /\ j[3] = t
    OBVIOUS
  <2> QED BY <2>1, <2>2 DEF Writes
<1>5. /\ Distinct(JobAt', WreqBox) /\ BurstsEnd'
      /\ HasSent(j, 0)' /\ \A d : HasSent(j, d)' => d = 0
      /\ \A i : i # j => SameSent(i)
  BY <1>1, <1>3, <1>4, JobNew
<1>6. Writes(n, t, s)'
  <2>1. ctrl'[n][t] = c
    BY <1>2
  <2> QED BY <2>1 DEF Writes
<1>7. ASSUME NEW i \in Node, NEW u \in Tag, NEW r \in Slots, Writes(i, u, r) PROVE Writes(i, u, r)'
  <2>1. CASE i = n /\ u = t
    BY <1>7, <2>1 DEF Writes
  <2>2. CASE ~(i = n /\ u = t)
    <3>1. ctrl'[i][u] = ctrl[i][u]
      BY <1>2, <2>2
    <3> QED BY <1>7, <3>1 DEF Writes
  <2> QED BY <2>1, <2>2
<1>8. JobsMatch'
  <2>1. ASSUME NEW i \in Token, NEW d \in 0 .. PageWords - 1, HasSent(i, d)'
        PROVE  Writes(i[2], i[3], i[1])'
    <3>1. CASE i = j
      <4>1. i[2] = n /\ i[3] = t /\ i[1] = s
        BY <3>1
      <4> QED BY <1>6, <4>1 DEF Writes
    <3>2. CASE i # j
      <4>1. HasSent(i, d)
        BY <1>5, <2>1, <3>2 DEF SameSent
      <4>2. Writes(i[2], i[3], i[1])
        BY <1>1, <4>1 DEF JobsMatch
      <4>3. PICK m \in Node, u \in Tag, r \in Slots : m = i[2] /\ u = i[3] /\ r = i[1]
        BY DEF Token
      <4>4. Writes(m, u, r)'
        BY <1>7, <4>2, <4>3
      <4> QED BY <4>3, <4>4 DEF Writes
    <3> QED BY <3>1, <3>2
  <2> QED BY <1>5, <2>1 DEF JobsMatch, BurstsEnd
<1>9. WordsWanted'
  <2> SUFFICES ASSUME NEW w \in AnyWord, InWrite(w)' PROVE Wanted(w)'
    BY DEF WordsWanted, AnyWord
  <2>1. InWrite(w)
    BY InWriteKept DEF WordsQuiet
  <2>2. w.tag \in Tag /\ w.dst \in Node /\ w.page \in Slots /\ Writes(w.dst, w.tag, w.page)
    BY <1>1, <2>1 DEF WordsWanted, Wanted, AnyWord
  <2>3. PICK i \in Node, u \in Tag, r \in Slots : i = w.dst /\ u = w.tag /\ r = w.page
    BY <2>2
  <2>4. Writes(i, u, r)'
    BY <1>7, <2>2, <2>3
  <2> QED BY <2>2, <2>3, <2>4 DEF Wanted, Writes
<1>10. ASSUME NEW i \in Node, NEW u \in Tag PROVE WriteOf(i, u)'
  <2>1. CASE i = n /\ u = t
    <3>1. PICK r \in Slots, k \in 0 .. PageWords, e \in 0 .. PageWords : BeingWritten(n, t, r, k, e)
      BY <1>1 DEF WriteOf
    <3>2. r = s /\ ctrl[n][t].cnt = k /\ e = 0 /\ Travel(s, WriteRoute(s, n), k, e)
      BY <3>1 DEF BeingWritten
    <3>3. PICK R : R = WriteRoute(s, n)
      OBVIOUS
    <3>4. Travel(s, R, k, e)'
      BY <3>2, <3>3, WordsStay DEF Follows
    <3>5. Travel(s, WriteRoute(s, n), k, e)'
      BY <3>3, <3>4 DEF WriteRoute, AtNode
    <3>6. ctrl'[n][t] = c
      BY <1>2
    <3>7. \A d \in 0 .. PageWords - 1 : HasSent(<<s, n, t>>, d)' => e = d
      BY <1>5, <3>2
    <3>8. ~(\A d \in 0 .. PageWords - 1 : ~HasSent(<<s, n, t>>, d)')
      <4>1. 0 \in 0 .. PageWords - 1
        BY SizeAssumption
      <4> QED BY <1>5, <4>1
    <3>9. BeingWritten(n, t, s, k, e)'
      BY <3>2, <3>5, <3>6, <3>7, <3>8 DEF BeingWritten
    <3> QED BY <2>1, <3>9 DEF WriteOf
  <2>2. CASE ~(i = n /\ u = t)
    <3>1. ctrl'[i][u] = ctrl[i][u] /\ WriteOf(i, u)
      BY <1>1, <1>2, <2>2
    <3>2. ASSUME NEW r \in Slots PROVE Follows(r, WriteRoute(r, i)) /\ SameSent(<<r, i, u>>)
      <4>1. <<r, i, u>> # j
        BY <2>2
      <4> QED BY <1>5, <4>1, WordsStay
    <3> QED BY <3>1, <3>2, WriteSame
  <2> QED BY <2>1, <2>2
<1> QED BY <1>8, <1>9, <1>10 DEF WriteInv

\* The controller asks for the words of the page it writes.
LEMMA LocWriteReqHost ==
  ASSUME HostInv, TagInv', NEW n \in Node, NEW t \in Tag, LocWriteReq(n, t)
  PROVE  HostInv'
<1>1. TagInv /\ Typed /\ ReqInv /\ ReadInv /\ WriteInv
  BY DEF HostInv, TagInv
<1>2. PICK y, s, j : y = AtNode("locWreqInQ", n) /\ s = ctrl[n][t].page /\ j = <<s, n, t>>
  OBVIOUS
<1>0. ReqsSame /\ WordsSame /\ JobJoins(y, j) /\ UNCHANGED <<pending, burst>>
  BY <1>1, <1>2, LocWriteReqMoves
<1>3. PICK c : NowAsked(n, t, s, c)
  BY <1>1, <1>2, LocWriteReqMoves
<1>8. ctrl[n][t] # Free /\ s \in Slots /\ s[2] = "write" /\ y[1] # "job"
  <2>1. ctrl[n][t].op = "write"
    BY DEF LocWriteReq
  <2>2. ctrl[n][t] # Free
    BY <2>1 DEF Free
  <2>3. s \in Slots /\ s[2] = "write"
    BY <1>1, <1>2, <2>1, <2>2, TableSlot
  <2> QED BY <1>2, <2>2, <2>3 DEF AtNode
<1>9. /\ c \in Work /\ SetsCtrl(n, t, c) /\ c.op = "write" /\ c.page = s /\ c.asked = TRUE
      /\ c.cnt = ctrl[n][t].cnt
  BY <1>3 DEF NowAsked
<1>4. ctrl[n][t].op = "write" /\ ctrl[n][t].asked = FALSE
  <2>1. ctrl[n][t].op = "write" /\ ~ctrl[n][t].asked
    BY DEF LocWriteReq
  <2>2. ctrl[n][t] \in Work
    BY <1>1, <1>0, <1>8, <1>9, CtrlTypes
  <2>3. ctrl[n][t].asked \in BOOLEAN
    BY <2>2 DEF Work
  <2> QED BY <2>1, <2>3
<1>5. ReqInv'
  <2>1. \A r \in Slots : pending[r] # Idle => pending'[r] # Idle
    BY <1>0, <1>8, <1>9
  <2> QED BY <1>1, <1>0, <1>8, <1>9, <2>1, ReqKept DEF ReqsSame
<1>6. ASSUME NEW r \in Slots, r[2] = "read" PROVE ReadOf(r)'
  <2>1. Commanded(r)' => Commanded(r)
    BY <1>1, <1>0, <1>8, <1>9, CommandKept DEF ReqsQuiet
  <2>2. SameWork(r)
    <3>1. r # s /\ (ctrl[n][t] = Free \/ ctrl[n][t].page = s) /\ (c = Free \/ c.page = s)
      BY <1>2, <1>0, <1>8, <1>9, <1>6
    <3> QED BY <1>1, <1>0, <1>8, <1>9, <3>1, OtherWork
  <2>3. ReadOf(r) /\ pending'[r] = pending[r]
    BY <1>1, <1>0, <1>8, <1>9, <1>6 DEF ReadInv
  <2>4. StillNone(r) /\ \A m \in Node : Follows(r, ReadRoute(r, m))
    BY <1>0, <1>8, <1>9, WordsStay
  <2> QED BY <2>1, <2>2, <2>3, <2>4, ReadSame
<1>7. WriteInv'
  BY <1>1, <1>2, <1>0, <1>8, <1>9, <1>4, WriteAsks
<1> QED BY <1>5, <1>6, <1>7 DEF HostInv, ReadInv

-----------------------------------------------------------------------------
\* A word that comes to a controller is for a write it asked data for.
LEMMA WrDataWord ==
  ASSUME Typed, WordsWanted, NEW n \in Node, NotEmpty(n, "locWdataOutQ"),
         NEW x, x = AtNode("locWdataOutQ", n), NEW v, v = First(n, "locWdataOutQ"),
         NEW t, t = v.tag, NEW s, s = v.page
  PROVE  /\ v \in AnyWord /\ t \in Tag /\ s \in Slots /\ Writes(n, t, s)
         /\ x \in WordBox /\ x \in WrBox /\ WordAt[x] # << >> /\ v = Head(WordAt[x])
<1>1. q[n].locWdataOutQ \in Seq(To(n, WrWord)) /\ v = Head(q[n].locWdataOutQ)
      /\ q[n].locWdataOutQ # << >>
  BY QueueTypes DEF Typed, NotEmpty, First
<1>2. v \in WrWord /\ v.dst = n
  BY <1>1 DEF To
<1>3. t \in Tag /\ s \in Slots /\ Tag \subseteq Nat
  BY <1>2, SizeAssumption DEF WrWord, Tag
<1>4. v \in AnyWord
  BY <1>2, <1>3 DEF WrWord, AnyWord
<1>5. x \in WrBox /\ x \in WordBox /\ Held(x) = q[n].locWdataOutQ
  BY NodeBoxes, HeldIs DEF BoxQ, WrQ
<1>6. WordAt[x] = Held(x) /\ WordAt[x] \in Seq(AnyWord)
  BY <1>5, WordView
<1>7. 1 \in DOMAIN WordAt[x] /\ WordAt[x][1] = v
  BY <1>1, <1>5, <1>6
<1>8. Wanted(v)
  BY <1>4, <1>5, <1>7 DEF WordsWanted, InWrite
<1>9. Writes(n, t, s)
  BY <1>2, <1>8 DEF Wanted
<1> QED BY <1>1, <1>3, <1>4, <1>5, <1>6, <1>9

\* The controller's count of the words of a page goes up by one.
NowCounted(n, t, s, c) ==
  /\ SetsCtrl(n, t, c) /\ c \in Work /\ c.op = "write" /\ c.page = s /\ c.asked = TRUE
  /\ c.cnt = ctrl[n][t].cnt + 1

\* The controller takes a word of a page it writes.
LEMMA LocWriteDataMoves ==
  ASSUME Typed, WordsWanted, NEW n \in Node, LocWriteData(n), NEW x, x = AtNode("locWdataOutQ", n),
         NEW v, v = First(n, "locWdataOutQ"), NEW t, t = v.tag, NEW s, s = v.page
  PROVE  /\ ReqsSame /\ WordLeaves(x) /\ JobsSame /\ (\E c : NowCounted(n, t, s, c))
         /\ NotEmpty(n, "locWdataOutQ") /\ UNCHANGED <<pending, burst>>
<1>1. PICK b, c : b = ctrl[n][t] /\ c = [b EXCEPT !.cnt = @ + 1]
  OBVIOUS
<1>2. /\ Get(n, "locWdataOutQ") /\ NotEmpty(n, "locWdataOutQ")
      /\ UNCHANGED <<flashCmdQ, job, net>> /\ UNCHANGED <<pending, burst>>
  BY DEF LocWriteData, Get, hostVars, dmaVars
<1>3. ctrl' = [ctrl EXCEPT ![n][t] = [b EXCEPT !.cnt = @ + 1]]
  <2>1. ctrl' = [ctrl EXCEPT ![n][t].cnt = @ + 1]
    BY DEF LocWriteData
  <2>2. [ctrl EXCEPT ![n][t].cnt = @ + 1] = [ctrl EXCEPT ![n][t] = [ctrl[n][t] EXCEPT !.cnt = @ + 1]]
    OBVIOUS
  <2> QED BY <1>1, <2>1, <2>2
<1>4. /\ t \in Tag /\ s \in Slots /\ Writes(n, t, s)
      /\ x \in WordBox /\ x \in WrBox /\ WordAt[x] # << >> /\ v = Head(WordAt[x])
  BY <1>2, WrDataWord
<1>5. b.op = "write" /\ b.page = s /\ b.asked
  BY <1>1, <1>4 DEF Writes
<1>6. b # Free
  BY <1>5 DEF Free
<1>7. b \in Work
  BY <1>1, <1>4, <1>6, CtrlTypes
<1>8. b \in [op : Op, page : Slots, asked : BOOLEAN, cnt : Nat] /\ b.page[2] = b.op
  BY <1>7 DEF Work
<1>9. /\ c \in [op : Op, page : Slots, asked : BOOLEAN, cnt : Nat]
      /\ c.op = "write" /\ c.page = s /\ c.asked = b.asked /\ c.cnt = b.cnt + 1
  <2>1. PICK d : d = b.cnt + 1
    OBVIOUS
  <2>2. d \in Nat /\ c = [b EXCEPT !.cnt = d]
    BY <1>1, <1>8, <2>1
  <2>3. /\ c \in [op : Op, page : Slots, asked : BOOLEAN, cnt : Nat]
        /\ c.op = b.op /\ c.page = b.page /\ c.asked = b.asked /\ c.cnt = d
    BY ONLY <1>8, <2>2
  <2> QED BY <1>5, <2>1, <2>3
<1>10. c \in Work
  BY <1>5, <1>8, <1>9 DEF Work
<1>11. SetsCtrl(n, t, c) /\ c.asked = TRUE
  BY <1>1, <1>3, <1>5, <1>8, <1>9 DEF SetsCtrl
<1>12. NotCtrl \subseteq Box /\ Elsewhere(NotCtrl) /\ "locWdataOutQ" \in BoxQ /\ x \in NotCtrl
  <2>1. "locWdataOutQ" \in BoxQ
    BY DEF BoxQ, WrQ
  <2> QED BY <1>2, <2>1, NotCtrlBoxes
<1>13. TakesIn(NotCtrl, x)
  <2>1. PICK B : B = NotCtrl
    OBVIOUS
  <2>2. B \subseteq Box /\ Elsewhere(B) /\ AtNode("locWdataOutQ", n) \in B
    BY <1>12, <2>1
  <2>3. TakesIn(B, AtNode("locWdataOutQ", n))
    BY <1>2, <1>12, <2>2, TakenFrom
  <2> QED BY <2>1, <2>3
<1>14. x \notin ReqBox /\ x \notin WreqBox /\ WordBox \subseteq NotCtrl /\ WreqBox \subseteq NotCtrl
  BY <1>4, Apart, NotCtrlBoxes
<1>15. WordLeaves(x) /\ JobsSame
  BY <1>4, <1>13, <1>14, WordsAfter, JobsAfter
<1>16. ReqsSame
  <2>1. \A z \in ReqBox \cap NotCtrl : Held(z)' = Held(z)
    BY <1>13, <1>14 DEF TakesIn
  <2> QED BY <1>1, <1>4, <1>5, <1>6, <1>9, <1>10, <1>11, <2>1, WorkerStays
<1>17. NowCounted(n, t, s, c)
  BY <1>1, <1>9, <1>10, <1>11 DEF NowCounted
<1> QED BY <1>2, <1>15, <1>16, <1>17

-----------------------------------------------------------------------------
\* The write whose next word the controller takes.
LEMMA WriteCounted ==
  ASSUME Typed, NEW n \in Node, NEW t \in Tag, WriteOf(n, t), ctrl[n][t].op = "write",
         NEW s \in Slots, s = ctrl[n][t].page, NEW c, NowCounted(n, t, s, c), ctrl'[n][t] = c,
         NEW x, x = AtNode("locWdataOutQ", n), WordLeaves(x),
         NEW v \in AnyWord, v = Head(WordAt[x]), v.page = s, ctrl[n][t].asked,
         \A j : SameSent(j)
  PROVE  WriteOf(n, t)' /\ v.idx = ctrl[n][t].cnt
<1>1. PICK r \in Slots, k \in 0 .. PageWords, e \in 0 .. PageWords : BeingWritten(n, t, r, k, e)
  BY DEF WriteOf
<1>2. r = s /\ ctrl[n][t].cnt = k /\ Travel(s, WriteRoute(s, n), k, e)
  BY <1>1 DEF BeingWritten
<1>3. PICK R : R = WriteRoute(s, n)
  OBVIOUS
<1>4. R \in Seq(WordBox) /\ Starts(R, x) /\ Len(R) \in {2, 4, 5} /\ Travel(s, R, k, e)
  BY <1>2, <1>3, WriteRouteIs
<1>5. /\ v.idx = k /\ Travel(s, R, k + 1, e)'
      /\ k \in Nat /\ e \in Nat /\ k + 1 <= e
  BY <1>4, TravelTake
<1>6. PICK g : g = k + 1
  OBVIOUS
<1>7. g \in 0 .. PageWords
  <2>1. e <= PageWords /\ PageWords \in Nat
    BY <1>1, SizeAssumption
  <2> QED BY <1>5, <1>6, <2>1
<1>8. Travel(s, WriteRoute(s, n), g, e)'
  BY <1>3, <1>5, <1>6 DEF WriteRoute, AtNode
<1>9. ctrl'[n][t].page = s /\ ctrl'[n][t].cnt = g /\ ctrl'[n][t].asked = TRUE
  BY <1>2, <1>6 DEF NowCounted
<1>10. \A d : HasSent(<<s, n, t>>, d)' <=> HasSent(<<s, n, t>>, d)
  BY DEF SameSent
<1>11. \A d \in 0 .. PageWords - 1 : HasSent(<<s, n, t>>, d)' => e = d
  BY <1>1, <1>2, <1>10 DEF BeingWritten
<1>12. (\A d \in 0 .. PageWords - 1 : ~HasSent(<<s, n, t>>, d)') => e = PageWords
  BY <1>1, <1>2, <1>10 DEF BeingWritten
<1>13. BeingWritten(n, t, s, g, e)'
  BY <1>8, <1>9, <1>11, <1>12 DEF BeingWritten
<1>14. WriteOf(n, t)'
  BY <1>1, <1>7, <1>13 DEF WriteOf
<1> QED BY <1>2, <1>5, <1>14

\* The writes of all controllers are still followed when one of them takes a
\* word.
LEMMA WriteCounts ==
  ASSUME Typed, ReqInv, WriteInv, NEW n \in Node, NEW t \in Tag, NEW s \in Slots,
         Writes(n, t, s), NEW c, NowCounted(n, t, s, c),
         NEW x, x = AtNode("locWdataOutQ", n), WordLeaves(x),
         NEW v \in AnyWord, v = Head(WordAt[x]), v.page = s, JobsSame, UNCHANGED burst
  PROVE  WriteInv'
<1>1. JobsMatch /\ WordsWanted /\ \A i \in Node, u \in Tag : WriteOf(i, u)
  BY DEF WriteInv
<1>2. \A i \in Node, u \in Tag : ctrl'[i][u] = IF i = n /\ u = t THEN c ELSE ctrl[i][u]
  <2>1. c \in {Free} \cup Work /\ SetsCtrl(n, t, c)
    BY DEF NowCounted
  <2> QED BY <2>1, CtrlSet
<1>3. ctrl'[n][t] = c
  BY <1>2
<1>4. Distinct(JobAt', WreqBox) /\ (\A j : SameSent(j)) /\ BurstsEnd'
  <2>1. JobsQuiet
    BY DEF JobsQuiet
  <2> QED BY <1>1, <2>1, SentKept
<1>5. Writes(n, t, s)'
  BY <1>3 DEF NowCounted, Writes
<1>6. ASSUME NEW i \in Node, NEW u \in Tag, NEW r, Writes(i, u, r) PROVE Writes(i, u, r)'
  <2>1. CASE i = n /\ u = t
    <3>1. r = s
      BY <1>6, <2>1 DEF Writes
    <3> QED BY <1>5, <2>1, <3>1
  <2>2. CASE ~(i = n /\ u = t)
    <3>1. ctrl'[i][u] = ctrl[i][u]
      BY <1>2, <2>2
    <3> QED BY <1>6, <3>1 DEF Writes
  <2> QED BY <2>1, <2>2
<1>7. JobsMatch'
  <2>1. \A i \in Node, u \in Tag, r \in Slots :
          (\E d \in 0 .. PageWords - 1 : HasSent(<<r, i, u>>, d)) /\ Writes(i, u, r)
             => Writes(i, u, r)'
    BY <1>6
  <2> QED BY <1>1, <1>4, <2>1, JobsKept
<1>8. WordsWanted'
  <2> SUFFICES ASSUME NEW w \in AnyWord, InWrite(w)' PROVE Wanted(w)'
    BY DEF WordsWanted, AnyWord
  <2>1. InWrite(w)
    BY InWriteKept
  <2>2. w.tag \in Tag /\ w.dst \in Node /\ w.page \in Slots /\ Writes(w.dst, w.tag, w.page)
    BY <1>1, <2>1 DEF WordsWanted, Wanted, AnyWord
  <2>3. PICK i \in Node, u \in Tag, r \in Slots : i = w.dst /\ u = w.tag /\ r = w.page
    BY <2>2
  <2>4. Writes(i, u, r)'
    BY <1>6, <2>2, <2>3
  <2> QED BY <2>2, <2>3, <2>4 DEF Wanted, Writes
<1>9. ctrl[n][t].op = "write" /\ s = ctrl[n][t].page /\ ctrl[n][t].asked
  BY DEF Writes
<1>10. ASSUME NEW i \in Node, NEW u \in Tag PROVE WriteOf(i, u)'
  <2>1. CASE i = n /\ u = t
    <3>1. WriteOf(n, t)
      BY <1>1
    <3>2. WriteOf(n, t)'
      BY <1>3, <1>4, <1>9, <3>1, WriteCounted
    <3> QED BY <2>1, <3>2
  <2>2. CASE ~(i = n /\ u = t)
    <3>1. ctrl'[i][u] = ctrl[i][u] /\ WriteOf(i, u)
      BY <1>1, <1>2, <2>2
    <3>2. ASSUME ctrl[i][u].op = "write", NEW r \in Slots, r = ctrl[i][u].page
          PROVE  Follows(r, WriteRoute(r, i)) /\ SameSent(<<r, i, u>>)
      <4>1. r # s
        BY <1>9, <2>2, <3>2, WriteWorker
      <4>2. Head(WordAt[x]).page # r
        BY <4>1
      <4>3. WriteRoute(r, i) \in Seq(WordBox)
        BY WriteRouteIs
      <4> QED BY <1>4, <4>2, <4>3, WordsLeave
    <3>3. ctrl[i][u].op = "write" =>
            \A r \in Slots : r = ctrl[i][u].page => Follows(r, WriteRoute(r, i)) /\ SameSent(<<r, i, u>>)
      BY <3>2
    <3> QED BY <3>1, <3>3, WriteSame
  <2> QED BY <2>1, <2>2
<1> QED BY <1>7, <1>8, <1>10 DEF WriteInv

\* The controller takes a word of write data.
LEMMA LocWriteDataHost ==
  ASSUME HostInv, TagInv', NEW n \in Node, LocWriteData(n)
  PROVE  HostInv'
<1>1. TagInv /\ Typed /\ ReqInv /\ ReadInv /\ WriteInv /\ WordsWanted
  BY DEF HostInv, TagInv, WriteInv
<1>2. PICK x, v, t, s : /\ x = AtNode("locWdataOutQ", n) /\ v = First(n, "locWdataOutQ")
                        /\ t = v.tag /\ s = v.page
  OBVIOUS
<1>3. /\ ReqsSame /\ WordLeaves(x) /\ JobsSame
      /\ NotEmpty(n, "locWdataOutQ") /\ UNCHANGED <<pending, burst>>
  BY <1>1, <1>2, LocWriteDataMoves
<1>4. PICK c : NowCounted(n, t, s, c)
  BY <1>1, <1>2, LocWriteDataMoves
<1>5. /\ v \in AnyWord /\ t \in Tag /\ s \in Slots /\ Writes(n, t, s)
      /\ x \in WordBox /\ x \in WrBox /\ WordAt[x] # << >> /\ v = Head(WordAt[x])
  BY <1>1, <1>2, <1>3, WrDataWord
<1>6. c \in Work /\ SetsCtrl(n, t, c) /\ c.page = s
  BY <1>4 DEF NowCounted
<1>7. ctrl[n][t] # Free /\ ctrl[n][t].page = s /\ s[2] = "write"
  <2>1. ctrl[n][t].op = "write" /\ ctrl[n][t].page = s
    BY <1>5 DEF Writes
  <2>2. ctrl[n][t] # Free
    BY <2>1 DEF Free
  <2>3. ctrl[n][t] \in Work
    BY <1>1, <1>5, <2>2, CtrlTypes
  <2> QED BY <2>1, <2>2, <2>3 DEF Work
<1>8. ReqInv'
  <2>1. \A r \in Slots : pending[r] # Idle => pending'[r] # Idle
    BY <1>3
  <2> QED BY <1>1, <1>3, <2>1, ReqKept DEF ReqsSame
<1>9. ReqsQuiet
  BY <1>3 DEF ReqsQuiet
<1>10. ASSUME NEW r \in Slots, r[2] = "read" PROVE ReadOf(r)'
  <2>1. Commanded(r)' => Commanded(r)
    BY <1>1, <1>9, CommandKept
  <2>2. r # s
    BY <1>7, <1>10
  <2>3. SameWork(r)
    BY <1>1, <1>5, <1>6, <1>7, <2>2, OtherWork
  <2>4. ReadOf(r) /\ pending'[r] = pending[r]
    BY <1>1, <1>3, <1>10 DEF ReadInv
  <2>5. Head(WordAt[x]).page # r
    BY <1>2, <1>5, <2>2
  <2>6. StillNone(r) /\ \A m \in Node : Follows(r, ReadRoute(r, m))
    <3>1. StillNone(r) /\ \A R \in Seq(WordBox) : Follows(r, R)
      BY <1>1, <1>3, <2>5, WordsLeave
    <3>2. \A m \in Node : ReadRoute(r, m) \in Seq(WordBox)
      BY ReadRouteIs
    <3> QED BY <3>1, <3>2
  <2> QED BY <2>1, <2>3, <2>4, <2>6, ReadSame
<1>11. WriteInv'
  <2>1. v.page = s /\ UNCHANGED burst
    BY <1>2, <1>3
  <2> QED BY <1>1, <1>2, <1>3, <1>4, <1>5, <2>1, WriteCounts
<1> QED BY <1>8, <1>10, <1>11 DEF HostInv, ReadInv

-----------------------------------------------------------------------------
\* The counter of an engine is set.
SetsBurst(n, p, g) == burst' = [burst EXCEPT ![n][p] = g]

\* It is what has been sent for the engine's first request.
LEMMA SentAfter ==
  ASSUME Typed, NEW n \in Node, NEW p \in Eng, NEW g, SetsBurst(n, p, g), NEW x, x = <<"job", n, p>>
  PROVE  /\ Sent(x, 1) = burst[n][p] /\ Sent(x, 1)' = g
         /\ \A i : i # 1 => Sent(x, i) = 0 /\ Sent(x, i)' = 0
         /\ \A z \in WreqBox : z # x => \A i : Sent(z, i)' = Sent(z, i)
<1>1. burst \in [Node -> [Eng -> 0 .. PageWords - 1]]
  BY DEF Typed, HostsTyped
<1>2. \A m \in Node, r \in Eng : burst'[m][r] = IF m = n /\ r = p THEN g ELSE burst[m][r]
  BY <1>1 DEF SetsBurst
<1>3. x[1] = "job" /\ x[2] = n /\ x[3] = p
  OBVIOUS
<1>4. Sent(x, 1) = burst[n][p] /\ Sent(x, 1)' = g
  BY <1>2, <1>3 DEF Sent
<1>5. ASSUME NEW i, i # 1 PROVE Sent(x, i) = 0 /\ Sent(x, i)' = 0
  BY <1>5 DEF Sent
<1>6. ASSUME NEW z \in WreqBox, z # x, NEW i PROVE Sent(z, i)' = Sent(z, i)
  <2>1. CASE z[1] = "job"
    <3>1. PICK m \in Node, r \in Eng : z = <<"job", m, r>>
      <4>1. \A f \in WreqQ, m \in Node : z # AtNode(f, m)
        BY <2>1, NodeBoxes DEF BoxQ
      <4>2. \A a, b \in Node : z # <<"wreq", a, b>>
        BY <2>1
      <4> QED BY <4>1, <4>2, Families
    <3>2. z[2] = m /\ z[3] = r /\ ~(m = n /\ r = p)
      BY <1>6, <3>1
    <3>3. burst'[m][r] = burst[m][r]
      BY <1>2, <3>2
    <3> QED BY <3>2, <3>3 DEF Sent
  <2>2. CASE z[1] # "job"
    BY <2>2 DEF Sent
  <2> QED BY <2>1, <2>2
<1> QED BY <1>4, <1>5, <1>6

\* An engine sends a word for its first request, not the last one.
LEMMA JobGoesOn ==
  ASSUME Typed, JobsMatch, JobsSame, NEW n \in Node, NEW p \in Eng, NEW x, x = <<"job", n, p>>,
         x \in WreqBox, JobAt[x] # << >>, NEW j, j = Head(JobAt[x]), NEW g, SetsBurst(n, p, g)
  PROVE  /\ Distinct(JobAt', WreqBox) /\ BurstsEnd'
         /\ HasSent(j, burst[n][p]) /\ HasSent(j, g)' /\ \A d : HasSent(j, d)' => d = g
         /\ \A i : i # j => SameSent(i)
<1>1. PICK T, P : T = JobAt /\ P = WreqBox
  OBVIOUS
<1>2. T \in [P -> Seq(Token)] /\ Distinct(T, P) /\ BurstsEnd /\ JobAt' = T
  BY <1>1, JobView DEF JobsMatch, BurstsEnd, JobsSame
<1>3. \A i, d : HasSent(i, d) <=> \E z \in P : \E k \in DOMAIN T[z] : T[z][k] = i /\ Sent(z, k) = d
  BY <1>1 DEF HasSent
<1>4. \A i, d : HasSent(i, d)' <=> \E z \in P : \E k \in DOMAIN T[z] : T[z][k] = i /\ Sent(z, k)' = d
  BY <1>1, <1>2 DEF HasSent
<1>5. /\ Sent(x, 1) = burst[n][p] /\ Sent(x, 1)' = g
      /\ \A i : i # 1 => Sent(x, i) = 0 /\ Sent(x, i)' = 0
      /\ \A z \in P : z # x => \A i : Sent(z, i)' = Sent(z, i)
  BY <1>1, SentAfter
<1>6. x \in P /\ 1 \in DOMAIN T[x] /\ T[x][1] = j
  BY <1>1, <1>2
<1>7. HasSent(j, burst[n][p]) /\ HasSent(j, g)'
  BY <1>3, <1>4, <1>5, <1>6
<1>8. ASSUME NEW z \in P, NEW k \in DOMAIN T[z], T[z][k] = j PROVE z = x /\ k = 1
  BY <1>2, <1>6, <1>8 DEF Distinct
<1>9. ASSUME NEW d, HasSent(j, d)' PROVE d = g
  BY <1>4, <1>5, <1>8, <1>9
<1>10. ASSUME NEW i, i # j PROVE SameSent(i)
  <2>1. \A z \in P : \A k \in DOMAIN T[z] : T[z][k] = i => Sent(z, k)' = Sent(z, k)
    BY <1>5, <1>6, <1>10
  <2>2. \A d : HasSent(i, d)' <=> HasSent(i, d)
    BY <1>3, <1>4, <2>1
  <2> QED BY <2>2 DEF SameSent
<1>11. BurstsEnd'
  <2> SUFFICES ASSUME NEW z \in WreqBox, z[1] = "job", T[z] = << >> PROVE burst'[z[2]][z[3]] = 0
    BY <1>1, <1>2 DEF BurstsEnd
  <2>1. z # x /\ burst[z[2]][z[3]] = 0
    BY <1>1, <1>2 DEF BurstsEnd
  <2>2. Sent(z, 1)' = Sent(z, 1)
    BY <1>1, <1>5, <2>1
  <2> QED BY <2>1, <2>2 DEF Sent
<1> QED BY <1>1, <1>2, <1>7, <1>9, <1>10, <1>11

\* It sends the last one.
LEMMA JobEnds ==
  ASSUME Typed, JobsMatch, NEW n \in Node, NEW p \in Eng, NEW x, x = <<"job", n, p>>,
         JobLeaves(x), NEW j, j = Head(JobAt[x]), SetsBurst(n, p, 0)
  PROVE  /\ Distinct(JobAt', WreqBox) /\ BurstsEnd'
         /\ HasSent(j, burst[n][p]) /\ \A d : ~HasSent(j, d)'
         /\ \A i : i # j => SameSent(i)
<1>1. PICK T, U, P : T = JobAt /\ U = JobAt' /\ P = WreqBox
  OBVIOUS
<1>2. /\ T \in [P -> Seq(Token)] /\ U \in [P -> Seq(Token)] /\ Distinct(T, P) /\ BurstsEnd
      /\ x \in P /\ T[x] # << >> /\ U[x] = Tail(T[x]) /\ SameBut(T, U, P, x)
  BY <1>1, JobView DEF JobsMatch, BurstsEnd, JobLeaves, Leaves
<1>3. \A i, d : HasSent(i, d) <=> \E z \in P : \E k \in DOMAIN T[z] : T[z][k] = i /\ Sent(z, k) = d
  BY <1>1 DEF HasSent
<1>4. \A i, d : HasSent(i, d)' <=> \E z \in P : \E k \in DOMAIN U[z] : U[z][k] = i /\ Sent(z, k)' = d
  BY <1>1 DEF HasSent
<1>5. /\ Sent(x, 1) = burst[n][p] /\ \A i : Sent(x, i)' = 0
      /\ \A i : i # 1 => Sent(x, i) = 0
      /\ \A z \in P : z # x => \A i : Sent(z, i)' = Sent(z, i)
  <2>1. /\ Sent(x, 1) = burst[n][p] /\ Sent(x, 1)' = 0
        /\ \A i : i # 1 => Sent(x, i) = 0 /\ Sent(x, i)' = 0
        /\ \A z \in P : z # x => \A i : Sent(z, i)' = Sent(z, i)
    BY <1>1, SentAfter
  <2> QED BY <2>1
<1>6. 1 \in DOMAIN T[x] /\ T[x][1] = j
  BY <1>1, <1>2
<1>7. HasSent(j, burst[n][p])
  BY <1>2, <1>3, <1>5, <1>6
<1>8. Distinct(U, P) /\ NotIn(j, U, P)
  BY <1>1, <1>2, DistinctTake
<1>9. \A d : ~HasSent(j, d)'
  BY <1>4, <1>8 DEF NotIn
<1>10. PICK r \in Nat : r = Len(T[x]) /\ DOMAIN T[x] = 1 .. r
  BY <1>2
<1>11. DOMAIN U[x] = 1 .. r - 1 /\ \A k \in 1 .. r - 1 : U[x][k] = T[x][k + 1]
  BY <1>2, <1>10
<1>12. ASSUME NEW i, i # j PROVE SameSent(i)
  <2>1. ASSUME NEW d, HasSent(i, d)' PROVE HasSent(i, d)
    <3>1. PICK z \in P : \E k \in DOMAIN U[z] : U[z][k] = i /\ Sent(z, k)' = d
      BY <1>4, <2>1
    <3>2. PICK k \in DOMAIN U[z] : U[z][k] = i /\ Sent(z, k)' = d
      BY <3>1
    <3>3. CASE z = x
      <4>1. PICK c : c = k + 1
        OBVIOUS
      <4>2. c \in DOMAIN T[x] /\ T[x][c] = i /\ c # 1
        BY <1>10, <1>11, <3>2, <3>3, <4>1
      <4>3. Sent(x, c) = d
        BY <1>5, <3>2, <3>3, <4>2
      <4> QED BY <1>2, <1>3, <4>2, <4>3
    <3>4. CASE z # x
      <4>1. U[z] = T[z]
        BY <1>2, <3>4 DEF SameBut
      <4> QED BY <1>3, <1>5, <3>2, <3>4, <4>1
    <3> QED BY <3>3, <3>4
  <2>2. ASSUME NEW d, HasSent(i, d) PROVE HasSent(i, d)'
    <3>1. PICK z \in P : \E k \in DOMAIN T[z] : T[z][k] = i /\ Sent(z, k) = d
      BY <1>3, <2>2
    <3>2. PICK k \in DOMAIN T[z] : T[z][k] = i /\ Sent(z, k) = d
      BY <3>1
    <3>3. CASE z = x
      <4>1. k # 1
        BY <1>6, <1>12, <3>2, <3>3
      <4>2. PICK c \in 1 .. r - 1 : k = c + 1
        <5>1. k \in 1 .. r
          BY <1>10, <3>3
        <5>2. k - 1 \in 1 .. r - 1 /\ k = (k - 1) + 1
          BY <4>1, <5>1
        <5> QED BY <5>2
      <4>3. c \in DOMAIN U[x] /\ U[x][c] = i
        BY <1>11, <3>2, <3>3, <4>2
      <4>4. Sent(x, c)' = d
        BY <1>5, <3>2, <3>3, <4>1
      <4> QED BY <1>2, <1>4, <4>3, <4>4
    <3>4. CASE z # x
      <4>1. U[z] = T[z]
        BY <1>2, <3>4 DEF SameBut
      <4> QED BY <1>4, <1>5, <3>2, <3>4, <4>1
    <3> QED BY <3>3, <3>4
  <2> QED BY <2>1, <2>2 DEF SameSent
<1>13. BurstsEnd'
  <2> SUFFICES ASSUME NEW z \in P, z[1] = "job", U[z] = << >> PROVE burst'[z[2]][z[3]] = 0
    BY <1>1 DEF BurstsEnd
  <2>1. CASE z = x
    <3>1. Sent(z, 1)' = 0
      BY <1>5, <2>1
    <3> QED BY <3>1 DEF Sent
  <2>2. CASE z # x
    <3>1. U[z] = T[z]
      BY <1>2, <2>2 DEF SameBut
    <3>2. burst[z[2]][z[3]] = 0
      BY <1>1, <1>2, <3>1 DEF BurstsEnd
    <3>3. Sent(z, 1)' = Sent(z, 1)
      BY <1>5, <2>2
    <3> QED BY <3>2, <3>3 DEF Sent
  <2> QED BY <2>1, <2>2
<1> QED BY <1>1, <1>7, <1>8, <1>9, <1>12, <1>13

-----------------------------------------------------------------------------
\* The word an engine sends for its first request.
EngineWord(n, p, r) ==
  [tag |-> r.reTag, dst |-> r.src, idx |-> burst[n][p], page |-> SlotOf(n, "write", r.origTag)]

\* Which request that is.
LEMMA EngineJob ==
  ASSUME Typed, NEW n \in Node, NEW p \in Eng, job[n][p] # << >>, NEW x, x = <<"job", n, p>>,
         NEW r, r = Head(job[n][p]), NEW m, m = r.src, NEW t, t = r.reTag,
         NEW s, s = SlotOf(n, "write", r.origTag), NEW j, j = <<s, m, t>>
  PROVE  /\ x \in WreqBox /\ x \in Box /\ JobAt[x] # << >> /\ j = Head(JobAt[x])
         /\ s \in Slots /\ s[1] = n /\ s[2] = "write" /\ m \in Node /\ t \in Tag
         /\ burst[n][p] \in 0 .. PageWords - 1
         /\ Held(x) = job[n][p] /\ Held(x)' = job'[n][p]
<1>1. job[n][p] \in Seq(To(n, Wreq)) /\ burst[n][p] \in 0 .. PageWords - 1
  BY DEF Typed, HostsTyped
<1>2. r \in Wreq /\ r.dst = n
  BY <1>1 DEF To
<1>3. s \in Slots /\ m \in Node /\ t \in Tag /\ s[1] = n /\ s[2] = "write"
  BY <1>2 DEF Wreq, SlotOf
<1>4. x \in WreqBox /\ Held(x) = job[n][p] /\ Held(x)' = job'[n][p] /\ x \in Box
  BY NodeBoxes, HeldIs
<1>5. JobAt[x] # << >> /\ Head(JobAt[x]) = JobOf(x, r)
  BY <1>4, JobView
<1>6. JobOf(x, r) = j
  <2>1. x[1] # "locWreqInQ"
    OBVIOUS
  <2> QED BY <1>2, <2>1 DEF JobOf
<1> QED BY <1>1, <1>3, <1>4, <1>5, <1>6

\* An engine sends a word.
LEMMA PipeMoves ==
  ASSUME Typed, NEW n \in Node, NEW p \in Eng, PipeDmaRdData(n, p), NEW x, x = <<"job", n, p>>,
         NEW r, r = Head(job[n][p]), NEW y, y = AtNode("locWdataInQ", n),
         NEW v, v = EngineWord(n, p, r)
  PROVE  /\ job[n][p] # << >> /\ ReqsSame /\ WordJoins(y, v) /\ UNCHANGED <<pending, ctrl>>
         /\ \/ burst[n][p] = PageWords - 1 /\ JobLeaves(x) /\ SetsBurst(n, p, 0)
            \/ burst[n][p] # PageWords - 1 /\ JobsSame /\ SetsBurst(n, p, burst[n][p] + 1)
<1>1. PICK m, t, s, j, b : /\ m = r.src /\ t = r.reTag /\ s = SlotOf(n, "write", r.origTag)
                           /\ j = <<s, m, t>> /\ b = burst[n][p]
  OBVIOUS
<1>2. /\ job[n][p] # << >> /\ q' = Enq(n, "locWdataInQ", v)
      /\ UNCHANGED <<flashCmdQ, ctrl, net>> /\ UNCHANGED <<pending, ctrl>>
  BY DEF PipeDmaRdData, Put, EngineWord, hostVars
<1>3. /\ burst' = [burst EXCEPT ![n][p] = IF b = PageWords - 1 THEN 0 ELSE b + 1]
      /\ b = PageWords - 1 => job' = [job EXCEPT ![n][p] = Tail(@)]
      /\ b # PageWords - 1 => job' = job
  <2>1. burst' = [burst EXCEPT ![n][p] = IF b = PageWords - 1 THEN 0 ELSE @ + 1]
    BY <1>1 DEF PipeDmaRdData
  <2>2. [burst EXCEPT ![n][p] = IF b = PageWords - 1 THEN 0 ELSE @ + 1] =
          [burst EXCEPT ![n][p] = IF b = PageWords - 1 THEN 0 ELSE b + 1]
    BY <1>1
  <2>3. /\ b = PageWords - 1 => job' = [job EXCEPT ![n][p] = Tail(@)]
        /\ b # PageWords - 1 => job' = job
    BY <1>1 DEF PipeDmaRdData
  <2> QED BY <2>1, <2>2, <2>3
<1>4. /\ x \in WreqBox /\ x \in Box /\ JobAt[x] # << >> /\ j = Head(JobAt[x])
      /\ s \in Slots /\ m \in Node /\ t \in Tag /\ b \in 0 .. PageWords - 1
      /\ Held(x) = job[n][p] /\ Held(x)' = job'[n][p]
  BY <1>1, <1>2, EngineJob
<1>5. v \in AnyWord
  <2>1. v = [tag |-> t, dst |-> m, idx |-> b, page |-> s] /\ t \in Nat
    BY <1>1, <1>4, SizeAssumption DEF EngineWord, Tag
  <2> QED BY <1>4, <2>1 DEF AnyWord
<1>6. /\ NotJob \subseteq Box /\ Elsewhere(NotJob) /\ "locWdataInQ" \in BoxQ /\ y \in NotJob
      /\ WordBox \subseteq NotJob /\ ReqBox \subseteq NotJob
  <2>1. "locWdataInQ" \in BoxQ
    BY DEF BoxQ, WrQ
  <2> QED BY <1>2, <2>1, NotCtrlBoxes
<1>7. PutsIn(NotJob, y, v)
  <2>1. PICK B : B = NotJob
    OBVIOUS
  <2>2. B \subseteq Box /\ Elsewhere(B) /\ AtNode("locWdataInQ", n) \in B
    BY <1>6, <2>1
  <2>3. PutsIn(B, AtNode("locWdataInQ", n), v)
    BY <1>2, <1>6, <2>2, PutInto
  <2> QED BY <2>1, <2>3
<1>8. y \in WordBox /\ y \notin ReqBox /\ y \notin WreqBox
  <2>1. y \in WordBox
    BY NodeBoxes DEF WrQ
  <2> QED BY <2>1, Apart
<1>9. ReqsSame /\ WordJoins(y, v)
  BY <1>5, <1>6, <1>7, <1>8, ReqsAfter, WordsAfter
<1>10. \A m1 \in Node, h \in BoxQ : h # "locWdataInQ" => q'[m1][h] = q[m1][h]
  <2>1. \A m1 \in Node, h \in Names :
          q'[m1][h] = IF m1 = n /\ h = "locWdataInQ" THEN Append(q[n]["locWdataInQ"], v) ELSE q[m1][h]
    BY <1>2, <1>6, AfterPut, NodeBoxes
  <2> QED BY <2>1, NodeBoxes
<1>11. ASSUME NEW z \in WreqBox, z # x PROVE Held(z)' = Held(z)
  <2>1. CASE \E f \in WreqQ, a \in Node : z = AtNode(f, a)
    <3>1. PICK f \in WreqQ, a \in Node : z = AtNode(f, a)
      BY <2>1
    <3>2. f \in BoxQ /\ f # "locWdataInQ"
      BY DEF BoxQ, WreqQ
    <3>3. q'[a][f] = q[a][f]
      BY <1>10, <3>2
    <3> QED BY <3>1, <3>2, <3>3, HeldIs
  <2>2. CASE \E a \in Node, c \in Eng : z = <<"job", a, c>>
    <3>1. PICK a \in Node, c \in Eng : z = <<"job", a, c>>
      BY <2>2
    <3>2. ~(a = n /\ c = p)
      BY <1>11, <3>1
    <3>3. job'[a][c] = job[a][c]
      <4>1. job \in [Node -> [Eng -> Seq(Wreq)]]
        BY DEF Typed, HostsTyped
      <4>2. [job EXCEPT ![n][p] = Tail(@)][a][c] = job[a][c]
        BY <3>2, <4>1
      <4> QED BY <1>3, <4>2
    <3> QED BY <3>1, <3>3, HeldIs
  <2>3. CASE \E a, c \in Node : z = <<"wreq", a, c>>
    <3>1. PICK a \in Node, c \in Node : z = <<"wreq", a, c>>
      BY <2>3
    <3>2. "wreq" \in Class
      BY DEF Class
    <3>3. PICK d : d = "wreq"
      OBVIOUS
    <3>4. Held(<<d, a, c>>) = net[d][<<a, c>>] /\ Held(<<d, a, c>>)' = net'[d][<<a, c>>]
      BY <3>2, <3>3, HeldIs
    <3>5. net' = net
      BY <1>2
    <3> QED BY <3>1, <3>3, <3>4, <3>5
  <2> QED BY <2>1, <2>2, <2>3, Families
<1>12. ASSUME b = PageWords - 1 PROVE JobLeaves(x) /\ SetsBurst(n, p, 0)
  <2>1. job'[n][p] = Tail(job[n][p])
    BY <1>3, <1>12 DEF Typed, HostsTyped
  <2>2. TakesIn(WreqBox, x)
    BY <1>2, <1>4, <1>11, <2>1 DEF TakesIn
  <2>3. WreqBox \subseteq WreqBox
    OBVIOUS
  <2>4. JobLeaves(x)
    BY <1>4, <2>2, <2>3, JobsAfter
  <2> QED BY <1>3, <1>12, <2>4 DEF SetsBurst
<1>13. ASSUME b # PageWords - 1 PROVE JobsSame /\ SetsBurst(n, p, b + 1)
  <2>1. Held(x)' = Held(x)
    BY <1>3, <1>4, <1>13
  <2>2. StaysIn(WreqBox)
    BY <1>11, <2>1 DEF StaysIn
  <2>3. WreqBox \subseteq WreqBox
    OBVIOUS
  <2>4. JobsSame
    BY <2>2, <2>3, JobsAfter
  <2> QED BY <1>3, <1>13, <2>4 DEF SetsBurst
<1> QED BY <1>1, <1>2, <1>9, <1>12, <1>13

-----------------------------------------------------------------------------
\* What has been sent for the requests, one more word for j.
SentOn(j, g) ==
  /\ \A d \in 0 .. PageWords - 1 : HasSent(j, d)' => d = g
  /\ (\A d \in 0 .. PageWords - 1 : ~HasSent(j, d)') => g = PageWords
  /\ \A i : i # j => SameSent(i)

\* That is so when an engine sends a word.
LEMMA PipeSends ==
  ASSUME Typed, JobsMatch, NEW n \in Node, NEW p \in Eng, PipeDmaRdData(n, p),
         NEW r, r = Head(job[n][p]), NEW j, j = <<SlotOf(n, "write", r.origTag), r.src, r.reTag>>,
         NEW b, b = burst[n][p], NEW g, g = b + 1
  PROVE  /\ Distinct(JobAt', WreqBox) /\ BurstsEnd' /\ HasSent(j, b) /\ SentOn(j, g)
<1>1. PICK x, y, v, m, t, s :
        /\ x = <<"job", n, p>> /\ y = AtNode("locWdataInQ", n) /\ v = EngineWord(n, p, r)
        /\ m = r.src /\ t = r.reTag /\ s = SlotOf(n, "write", r.origTag) /\ j = <<s, m, t>>
  OBVIOUS
<1>2. /\ job[n][p] # << >>
      /\ \/ burst[n][p] = PageWords - 1 /\ JobLeaves(x) /\ SetsBurst(n, p, 0)
         \/ burst[n][p] # PageWords - 1 /\ JobsSame /\ SetsBurst(n, p, burst[n][p] + 1)
  BY <1>1, PipeMoves
<1>3. /\ x \in WreqBox /\ JobAt[x] # << >> /\ j = Head(JobAt[x]) /\ b \in 0 .. PageWords - 1
  BY <1>1, <1>2, EngineJob
<1>4. PageWords \in Nat \ {0}
  BY SizeAssumption
<1>5. x = <<"job", n, p>> /\ x \in WreqBox /\ JobAt[x] # << >> /\ j = Head(JobAt[x])
  BY <1>1, <1>3
<1>6. CASE b = PageWords - 1
  <2>1. JobLeaves(x) /\ SetsBurst(n, p, 0)
    BY <1>2, <1>6
  <2>2. /\ Distinct(JobAt', WreqBox) /\ BurstsEnd'
        /\ HasSent(j, burst[n][p]) /\ \A d : ~HasSent(j, d)'
        /\ \A i : i # j => SameSent(i)
    BY <1>5, <2>1, JobEnds
  <2>3. g = PageWords
    BY <1>4, <1>6
  <2> QED BY <2>2, <2>3 DEF SentOn
<1>7. CASE b # PageWords - 1
  <2>1. JobsSame /\ SetsBurst(n, p, g)
    BY <1>2, <1>7
  <2>2. /\ Distinct(JobAt', WreqBox) /\ BurstsEnd'
        /\ HasSent(j, burst[n][p]) /\ HasSent(j, g)' /\ \A d : HasSent(j, d)' => d = g
        /\ \A i : i # j => SameSent(i)
    BY <1>5, <2>1, JobGoesOn
  <2>3. g \in 0 .. PageWords - 1
    BY <1>3, <1>4, <1>7
  <2> QED BY <2>2, <2>3 DEF SentOn
<1> QED BY <1>6, <1>7

\* The write for which an engine sends a word.
LEMMA WriteSent ==
  ASSUME Typed, NEW m \in Node, NEW t \in Tag, WriteOf(m, t), ctrl' = ctrl,
         NEW s \in Slots, Writes(m, t, s), NEW j, j = <<s, m, t>>,
         NEW b \in 0 .. PageWords - 1, HasSent(j, b), NEW g, g = b + 1, SentOn(j, g),
         NEW y, y = AtNode("locWdataInQ", s[1]), NEW v, WordJoins(y, v), v.page = s, v.idx = b
  PROVE  WriteOf(m, t)'
<1>1. PICK r \in Slots, k \in 0 .. PageWords, e \in 0 .. PageWords : BeingWritten(m, t, r, k, e)
  BY DEF WriteOf, Writes
<1>2. r = s /\ ctrl[m][t].cnt = k /\ Travel(s, WriteRoute(s, m), k, e)
  BY <1>1 DEF BeingWritten, Writes
<1>3. e = b
  BY <1>1, <1>2 DEF BeingWritten
<1>4. PICK R : R = WriteRoute(s, m)
  OBVIOUS
<1>5. R \in Seq(WordBox) /\ Ends(R, y)
  BY <1>4, WriteRouteIs
<1>6. Travel(s, R, k, e + 1)'
  <2>1. Travel(s, R, k, e) /\ v.idx = e
    BY <1>2, <1>3, <1>4
  <2> QED BY <1>5, <2>1, TravelPut
<1>7. Travel(s, WriteRoute(s, m), k, g)'
  BY <1>3, <1>4, <1>6 DEF WriteRoute, AtNode
<1>8. g \in 0 .. PageWords
  BY SizeAssumption
<1>9. ctrl'[m][t].page = s /\ ctrl'[m][t].cnt = k /\ ctrl'[m][t].asked
  BY <1>2 DEF Writes
<1>10. BeingWritten(m, t, s, k, g)'
  BY <1>7, <1>9 DEF BeingWritten, SentOn
<1> QED BY <1>1, <1>8, <1>10 DEF WriteOf

\* The writes of all controllers are still followed then.
LEMMA WritesSent ==
  ASSUME Typed, ReqInv, WriteInv, ctrl' = ctrl, NEW m \in Node, NEW t \in Tag, NEW s \in Slots,
         NEW j, j = <<s, m, t>>, NEW b \in 0 .. PageWords - 1, HasSent(j, b), NEW g, g = b + 1,
         SentOn(j, g), Distinct(JobAt', WreqBox), BurstsEnd',
         NEW y, y = AtNode("locWdataInQ", s[1]), NEW v, WordJoins(y, v), v.page = s, v.idx = b,
         v.tag = t, v.dst = m
  PROVE  WriteInv'
<1>1. JobsMatch /\ WordsWanted /\ \A i \in Node, u \in Tag : WriteOf(i, u)
  BY DEF WriteInv
<1>2. j \in Token /\ j[1] = s /\ j[2] = m /\ j[3] = t
  BY DEF Token
<1>3. Writes(m, t, s)
  BY <1>1, <1>2 DEF JobsMatch
<1>4. ASSUME NEW i, NEW u, NEW r, Writes(i, u, r) PROVE Writes(i, u, r)'
  BY <1>4 DEF Writes
<1>5. JobsMatch'
  <2>1. ASSUME NEW i \in Token, NEW d \in 0 .. PageWords - 1, HasSent(i, d)'
        PROVE  Writes(i[2], i[3], i[1])'
    <3>1. Writes(i[2], i[3], i[1])
      <4>1. CASE i = j
        BY <1>2, <1>3, <4>1
      <4>2. CASE i # j
        <5>1. HasSent(i, d)
          BY <2>1, <4>2 DEF SentOn, SameSent
        <5> QED BY <1>1, <5>1 DEF JobsMatch
      <4> QED BY <4>1, <4>2
    <3> QED BY <3>1 DEF Writes
  <2> QED BY <2>1 DEF JobsMatch, BurstsEnd
<1>6. WordsWanted'
  <2> SUFFICES ASSUME NEW w \in AnyWord, InWrite(w)' PROVE Wanted(w)'
    BY DEF WordsWanted, AnyWord
  <2>1. InWrite(w) \/ w = v
    BY InWriteNew
  <2>2. Wanted(w)
    <3>1. CASE InWrite(w)
      BY <1>1, <3>1 DEF WordsWanted
    <3>2. CASE w = v
      BY <1>3, <3>2 DEF Wanted
    <3> QED BY <2>1, <3>1, <3>2
  <2> QED BY <2>2 DEF Wanted, Writes
<1>7. ASSUME NEW i \in Node, NEW u \in Tag PROVE WriteOf(i, u)'
  <2>1. CASE i = m /\ u = t
    <3>1. WriteOf(m, t)
      BY <1>1
    <3>2. WriteOf(m, t)'
      BY <1>3, <3>1, WriteSent
    <3> QED BY <2>1, <3>2
  <2>2. CASE ~(i = m /\ u = t)
    <3>1. ctrl'[i][u] = ctrl[i][u] /\ WriteOf(i, u)
      BY <1>1
    <3>2. ASSUME ctrl[i][u].op = "write", NEW r \in Slots, r = ctrl[i][u].page
          PROVE  Follows(r, WriteRoute(r, i)) /\ SameSent(<<r, i, u>>)
      <4>1. r # s
        <5>1. ctrl[m][t].op = "write" /\ s = ctrl[m][t].page
          BY <1>3 DEF Writes
        <5> QED BY <2>2, <3>2, <5>1, WriteWorker
      <4>2. v.page # r
        BY <4>1
      <4>3. WriteRoute(r, i) \in Seq(WordBox)
        BY WriteRouteIs
      <4>4. Follows(r, WriteRoute(r, i))
        BY <4>2, <4>3, WordsJoin
      <4>5. <<r, i, u>> # j
        BY <2>2
      <4> QED BY <4>4, <4>5 DEF SentOn
    <3>3. ctrl[i][u].op = "write" =>
            \A r \in Slots : r = ctrl[i][u].page => Follows(r, WriteRoute(r, i)) /\ SameSent(<<r, i, u>>)
      BY <3>2
    <3> QED BY <3>1, <3>3, WriteSame
  <2> QED BY <2>1, <2>2
<1> QED BY <1>5, <1>6, <1>7 DEF WriteInv

\* An engine sends a word of a page to be written.
LEMMA PipeHost ==
  ASSUME HostInv, TagInv', NEW n \in Node, NEW p \in Eng, PipeDmaRdData(n, p)
  PROVE  HostInv'
<1>1. TagInv /\ Typed /\ ReqInv /\ ReadInv /\ WriteInv /\ JobsMatch
  BY DEF HostInv, TagInv, WriteInv
<1>2. PICK x, y, r, v, m, t, s, b, j, g :
        /\ x = <<"job", n, p>> /\ y = AtNode("locWdataInQ", n) /\ r = Head(job[n][p])
        /\ v = EngineWord(n, p, r) /\ m = r.src /\ t = r.reTag /\ s = SlotOf(n, "write", r.origTag)
        /\ b = burst[n][p] /\ j = <<s, m, t>> /\ g = b + 1
  OBVIOUS
<1>3. job[n][p] # << >> /\ ReqsSame /\ WordJoins(y, v) /\ UNCHANGED <<pending, ctrl>>
  BY <1>1, <1>2, PipeMoves
<1>4. /\ s \in Slots /\ s[1] = n /\ s[2] = "write" /\ m \in Node /\ t \in Tag
      /\ b \in 0 .. PageWords - 1
  BY <1>1, <1>2, <1>3, EngineJob
<1>5. v.page = s /\ v.idx = b /\ v.tag = t /\ v.dst = m
  BY <1>2 DEF EngineWord
<1>6. Distinct(JobAt', WreqBox) /\ BurstsEnd' /\ HasSent(j, b) /\ SentOn(j, g)
  <2>1. j = <<SlotOf(n, "write", r.origTag), r.src, r.reTag>>
    BY <1>2
  <2> QED BY <1>1, <1>2, <2>1, PipeSends
<1>7. ReqInv'
  <2>1. \A i \in Slots : pending[i] # Idle => pending'[i] # Idle
    BY <1>3
  <2> QED BY <1>1, <1>3, <2>1, ReqKept DEF ReqsSame
<1>8. ReqsQuiet
  BY <1>3 DEF ReqsQuiet
<1>9. ASSUME NEW i \in Slots, i[2] = "read" PROVE ReadOf(i)'
  <2>1. Commanded(i)' => Commanded(i)
    BY <1>1, <1>8, CommandKept
  <2>2. i # s
    BY <1>4, <1>9
  <2>3. SameWork(i)
    BY <1>3 DEF SameWork, Works
  <2>4. ReadOf(i) /\ pending'[i] = pending[i]
    BY <1>1, <1>3, <1>9 DEF ReadInv
  <2>5. v.page # i
    BY <1>5, <2>2
  <2>6. StillNone(i) /\ \A a \in Node : Follows(i, ReadRoute(i, a))
    <3>1. StillNone(i) /\ \A R \in Seq(WordBox) : Follows(i, R)
      BY <1>1, <1>3, <2>5, WordsJoin
    <3>2. \A a \in Node : ReadRoute(i, a) \in Seq(WordBox)
      BY ReadRouteIs
    <3> QED BY <3>1, <3>2
  <2> QED BY <2>1, <2>3, <2>4, <2>6, ReadSame
<1>10. WriteInv'
  <2>1. ctrl' = ctrl /\ y = AtNode("locWdataInQ", s[1])
    BY <1>2, <1>3, <1>4
  <2> QED BY <1>1, <1>2, <1>3, <1>4, <1>5, <1>6, <2>1, WritesSent
<1> QED BY <1>7, <1>9, <1>10 DEF HostInv, ReadInv

-----------------------------------------------------------------------------
\* At first nothing is anywhere.
LEMMA InitBoxes ==
  ASSUME Init, NEW x \in Box
  PROVE  Held(x) = << >>
<1>1. /\ \A n \in Node, f \in Names : q[n][f] = << >>
      /\ \A n \in Node : flashCmdQ[n] = << >>
      /\ \A n \in Node, t \in Tag : ctrl[n][t] = Free
      /\ \A n \in Node, p \in Eng : job[n][p] = << >>
      /\ \A c \in Class, a, b \in Node : net[c][<<a, b>>] = << >>
  BY DEF Init, SplitterInit, Names
<1>2. InCtrl(Free) = << >>
  BY DEF InCtrl
<1>3. CASE \E f \in BoxQ, n \in Node : x = AtNode(f, n)
  BY <1>1, <1>3, HeldIs
<1>4. CASE \E n \in Node : x = AtNode("host", n)
  BY <1>1, <1>4, HeldIs
<1>5. CASE \E n \in Node, t \in Tag : x = <<"ctrl", n, t>>
  BY <1>1, <1>2, <1>5, HeldIs
<1>6. CASE \E n \in Node, p \in Eng : x = <<"job", n, p>>
  BY <1>1, <1>6, HeldIs
<1>7. CASE \E c \in Class, a, b \in Node : x = <<c, a, b>>
  <2>1. PICK c \in Class, a \in Node, b \in Node : x = <<c, a, b>>
    BY <1>7
  <2>2. Held(<<c, a, b>>) = net[c][<<a, b>>]
    BY HeldIs
  <2>3. net[c][<<a, b>>] = << >>
    BY <1>1
  <2> QED BY <2>1, <2>2, <2>3
<1> QED BY <1>3, <1>4, <1>5, <1>6, <1>7, BoxCases

\* No request is pending and no page read or written.
LEMMA InitHostInv == Init => HostInv
<1> SUFFICES ASSUME Init PROVE HostInv
  OBVIOUS
<1>1. TagInv /\ Typed
  BY InitTagInv DEF TagInv
<1>2. /\ \A x \in ReqBox : ReqAt[x] = << >>
      /\ \A x \in WordBox : WordAt[x] = << >>
      /\ \A x \in WreqBox : JobAt[x] = << >>
  <2>1. ReqBox \subseteq Box /\ WordBox \subseteq Box /\ WreqBox \subseteq Box
    BY Apart
  <2> QED BY <1>1, <2>1, InitBoxes, ReqView, WordView, JobView
<1>3. /\ \A s \in Slots : pending[s] = Idle
      /\ \A n \in Node, t \in Tag : ctrl[n][t] = Free
      /\ \A n \in Node, p \in Eng : burst[n][p] = 0
  BY DEF Init
<1>4. ReqInv
  BY <1>2 DEF ReqInv, Distinct, Requested
<1>5. ReadInv
  <2> SUFFICES ASSUME NEW s \in Slots PROVE NotBegun(s)
    BY DEF ReadInv, ReadOf
  <2>1. Nowhere(s)
    BY <1>2 DEF Nowhere, NoneOf
  <2>2. NoWork(s)
    BY <1>3 DEF NoWork, Works
  <2> QED BY <1>3, <2>1, <2>2 DEF NotBegun
<1>6. JobsMatch
  <2>1. Distinct(JobAt, WreqBox)
    BY <1>2 DEF Distinct
  <2>2. \A j, d : ~HasSent(j, d)
    BY <1>2 DEF HasSent
  <2>3. ASSUME NEW x \in WreqBox, x[1] = "job" PROVE burst[x[2]][x[3]] = 0
    <3>1. PICK m \in Node, r \in Eng : x = <<"job", m, r>>
      <4>1. \A f \in WreqQ, m \in Node : x # AtNode(f, m)
        BY <2>3, NodeBoxes DEF BoxQ
      <4>2. \A a, b \in Node : x # <<"wreq", a, b>>
        BY <2>3
      <4> QED BY <4>1, <4>2, Families
    <3> QED BY <1>3, <3>1
  <2> QED BY <2>1, <2>2, <2>3 DEF JobsMatch
<1>7. WordsWanted
  <2>1. \A w : ~InWrite(w)
    <3>1. \A x \in WrBox : x \in WordBox
      BY Apart
    <3> QED BY <1>2, <3>1 DEF InWrite
  <2> QED BY <2>1 DEF WordsWanted
<1>8. \A n \in Node, t \in Tag : WriteOf(n, t)
  <2>1. Free.op # "write"
    BY DEF Free
  <2> QED BY <1>3, <2>1 DEF WriteOf
<1> QED BY <1>1, <1>4, <1>5, <1>6, <1>7, <1>8 DEF HostInv, WriteInv

\* Nothing happens.
LEMMA HostInvStutters == ASSUME HostInv, UNCHANGED vars PROVE HostInv'
<1>1. TagInv /\ Typed
  BY DEF HostInv, TagInv
<1>2. TagInv'
  BY <1>1, TagInvStutters
<1>3. UNCHANGED <<q, flashCmdQ, ctrl, job, net>> /\ UNCHANGED <<pending, ctrl, burst>>
  BY DEF vars, splitterVars, hostVars, dmaVars
<1>4. StaysIn(Box)
  <2>1. Elsewhere(Box) /\ \A m \in Node, h \in BoxQ : q'[m][h] = q[m][h]
    BY <1>3, OtherBoxes
  <2>2. PICK B : B = Box
    OBVIOUS
  <2>3. StaysIn(B)
    BY <2>1, <2>2, QueuesStay
  <2> QED BY <2>2, <2>3
<1>5. Quiet
  BY <1>1, <1>4, StayQuiet
<1> QED BY <1>2, <1>3, <1>5, QuietStep DEF Quiet

\* Every rule keeps the invariant.
LEMMA NextHostInv == ASSUME HostInv, Next PROVE HostInv'
<1>1. TagInv'
  BY NextTagInv DEF HostInv
<1>2. ASSUME NEW s \in Slots, NEW dst \in Node, Issue(s, dst) PROVE HostInv'
  BY <1>1, <1>2, IssueHost
<1>3. ASSUME NEW n \in Node, Splitter(n) PROVE HostInv'
  BY <1>1, <1>3, QuietSteps
<1>4. ASSUME NEW n \in Node, HostRule(n) PROVE HostInv'
  <2>1. CASE FlashCmdForward(n)         BY <1>1, <2>1, QuietSteps
  <2>2. CASE DistrReadFromFlash(n)      BY <1>1, <2>2, DistrHost
  <2>3. CASE HandleControllerAck(n)     BY <1>1, <2>3, AckHost
  <2>4. CASE HandleWriteDataRequest(n)  BY <1>1, <2>4, QuietSteps
  <2>5. ASSUME NEW p \in Eng, PipeDmaRdData(n, p) PROVE HostInv'
    BY <1>1, <2>5, PipeHost
  <2> QED BY <1>4, <2>1, <2>2, <2>3, <2>4, <2>5 DEF HostRule
<1>5. ASSUME NEW n \in Node, ControllerRule(n) PROVE HostInv'
  <2>1. CASE IssueFlashCmd(n)  BY <1>1, <2>1, IssueCmdHost
  <2>2. CASE LocWriteData(n)   BY <1>1, <2>2, LocWriteDataHost
  <2>3. ASSUME NEW t \in Tag, EnqReadFromFlash(n, t) PROVE HostInv'
    BY <1>1, <2>3, EnqReadHost
  <2>4. ASSUME NEW t \in Tag, LocWriteReq(n, t) PROVE HostInv'
    BY <1>1, <2>4, LocWriteReqHost
  <2>5. ASSUME NEW t \in Tag, LocAck(n, t) PROVE HostInv'
    BY <1>1, <2>5, LocAckHost
  <2> QED BY <1>5, <2>1, <2>2, <2>3, <2>4, <2>5 DEF ControllerRule
<1>6. ASSUME NEW n \in Node, NetworkRule(n) PROVE HostInv'
  <2>1. ASSUME NEW c \in Class, SendRemote(n, c) PROVE HostInv'
    BY <1>1, <2>1, QuietSteps
  <2>2. ASSUME NEW c \in Class, NEW from \in Node, RecRemote(n, c, from) PROVE HostInv'
    BY <1>1, <2>2, QuietSteps
  <2> QED BY <1>6, <2>1, <2>2 DEF NetworkRule
<1> QED BY <1>2, <1>3, <1>4, <1>5, <1>6 DEF Next

\* So it always holds.
LEMMA HostInvAlways == Spec => []HostInv
<1>1. HostInv /\ [Next]_vars => HostInv'
  BY NextHostInv, HostInvStutters
<1> QED BY <1>1, InitHostInv, PTL DEF Spec

\* So has the first of the words of a slot on a route of theirs.
LEMMA TravelFirst ==
  ASSUME Typed, NEW s \in Slots, NEW R \in Seq(WordBox), NEW k, NEW e, Travel(s, R, k, e),
         NEW x, Starts(R, x), x \in WordBox, WordAt[x] # << >>,
         NEW v \in AnyWord, v = Head(WordAt[x]), v.page = s
  PROVE  v.idx = k
<1>1. PICK T, P, K, S : T = WordAt /\ P = WordBox /\ K = Of(s) /\ S = AnyWord
  OBVIOUS
<1>2. T \in [P -> Seq(S)] /\ R \in Seq(P) /\ Chain(T, R, K, k, e) /\ T[x] # << >>
  BY <1>1, WordView DEF Travel
<1>3. Head(T[x]) \in K
  BY <1>1 DEF Of
<1>4. Head(T[x]).idx = k
  BY <1>2, <1>3, FirstNumber
<1> QED BY <1>1, <1>4

\* An ack reaches the host whose request is pending, and no controller is
\* still at work on that request.
THEOREM AcksAlwaysMatch == Spec => []AcksMatch
<1>1. HostInv => AcksMatch
  <2> SUFFICES ASSUME HostInv, NEW n \in Node, NotEmpty(n, "locAckOutQ"),
                      NEW v, v = First(n, "locAckOutQ"), NEW s, s = SlotOf(n, v.status, v.tag)
               PROVE  /\ s \in Slots /\ pending[s] # Idle
                      /\ \A m \in Node, t \in Tag : ctrl[m][t] = Free \/ ctrl[m][t].page # s
    BY DEF AcksMatch
  <2>1. Typed /\ ReqInv
    BY DEF HostInv, TagInv
  <2>2. PICK x : x = AtNode("locAckOutQ", n)
    OBVIOUS
  <2>3. s \in Slots /\ x \in ReqBox /\ ReqAt[x] # << >> /\ s = Head(ReqAt[x])
    BY <2>1, <2>2, AckSlot
  <2>4. 1 \in DOMAIN ReqAt[x] /\ ReqAt[x][1] = s
    <3>1. ReqAt[x] \in Seq(Slots)
      BY <2>1, <2>3, ReqView
    <3> QED BY <2>3, <3>1
  <2>5. pending[s] # Idle
    <3>1. Requested(s)
      BY <2>3, <2>4 DEF Requested
    <3> QED BY <2>1, <2>3, <3>1 DEF ReqInv
  <2>6. ASSUME NEW m \in Node, NEW t \in Tag, ctrl[m][t] # Free, ctrl[m][t].page = s PROVE FALSE
    <3>1. \A y \in ReqBox : \A i \in DOMAIN ReqAt[y] :
            ReqAt[y][i] = ctrl[m][t].page => y = <<"ctrl", m, t>>
      BY <2>1, <2>6, OneWorker
    <3>2. x = <<"ctrl", m, t>>
      BY <2>3, <2>4, <2>6, <3>1
    <3> QED BY <2>2, <3>2 DEF AtNode
  <2> QED BY <2>3, <2>5, <2>6
<1> QED BY <1>1, HostInvAlways, PTL

\* A read word delivered to a host is the next word of the page that the host
\* asked for under that tag.
THEOREM ReadsAlwaysMatch == Spec => []ReadWordsMatch
<1>1. HostInv => ReadWordsMatch
  <2> SUFFICES ASSUME HostInv, NEW n \in Node, NotEmpty(n, "locRdOutQ"),
                      NEW v, v = First(n, "locRdOutQ")
               PROVE  v.page = SlotOf(n, "read", v.tag) /\ pending[v.page] = v.idx
    BY DEF ReadWordsMatch
  <2>1. Typed /\ ReadInv
    BY DEF HostInv, TagInv
  <2>2. PICK x, s : x = AtNode("locRdOutQ", n) /\ s = SlotOf(n, "read", v.tag)
    OBVIOUS
  <2>3. /\ s \in Slots /\ s[1] = n /\ s[2] = "read" /\ v.page = s /\ v \in AnyWord
        /\ x \in WordBox /\ WordAt[x] # << >> /\ v = Head(WordAt[x])
    BY <2>1, <2>2, DistrWord
  <2>4. PICK m \in Node, k \in 0 .. PageWords, e \in 0 .. PageWords : BeingRead(s, m, k, e)
    <3>1. Head(WordAt[x]).page = s
      BY <2>3
    <3> QED BY <2>1, <2>3, <3>1, WordBegun
  <2>5. PICK R : R = ReadRoute(s, m)
    OBVIOUS
  <2>6. R \in Seq(WordBox) /\ Starts(R, x) /\ Travel(s, R, k, e) /\ pending[s] = k
    BY <2>2, <2>3, <2>4, <2>5, ReadRouteIs DEF BeingRead
  <2>7. v.idx = k
    BY <2>1, <2>3, <2>6, TravelFirst
  <2> QED BY <2>2, <2>3, <2>6, <2>7
<1> QED BY <1>1, HostInvAlways, PTL

\* A controller is given write data only for a tag it asked data for, and the
\* words are those of the page to be written, in order.
THEOREM WritesAlwaysMatch == Spec => []WriteDataMatches
<1>1. HostInv => WriteDataMatches
  <2> SUFFICES ASSUME HostInv, NEW n \in Node, NotEmpty(n, "locWdataOutQ"),
                      NEW v, v = First(n, "locWdataOutQ"), NEW t, t = v.tag, NEW s, s = v.page
               PROVE  /\ ctrl[n][t].op = "write" /\ ctrl[n][t].asked /\ ctrl[n][t].page = s
                      /\ ctrl[n][t].cnt = v.idx
    BY DEF WriteDataMatches
  <2>1. Typed /\ WordsWanted /\ \A i \in Node, u \in Tag : WriteOf(i, u)
    BY DEF HostInv, TagInv, WriteInv
  <2>2. PICK x : x = AtNode("locWdataOutQ", n)
    OBVIOUS
  <2>3. /\ v \in AnyWord /\ t \in Tag /\ s \in Slots /\ Writes(n, t, s)
        /\ x \in WordBox /\ WordAt[x] # << >> /\ v = Head(WordAt[x])
    BY <2>1, <2>2, WrDataWord
  <2>4. ctrl[n][t].op = "write" /\ ctrl[n][t].asked /\ ctrl[n][t].page = s
    BY <2>3 DEF Writes
  <2>5. PICK r \in Slots, k \in 0 .. PageWords, e \in 0 .. PageWords : BeingWritten(n, t, r, k, e)
    BY <2>1, <2>3, <2>4 DEF WriteOf
  <2>6. r = s /\ ctrl[n][t].cnt = k /\ Travel(s, WriteRoute(s, n), k, e)
    BY <2>4, <2>5 DEF BeingWritten
  <2>7. PICK R : R = WriteRoute(s, n)
    OBVIOUS
  <2>8. R \in Seq(WordBox) /\ Starts(R, x) /\ Travel(s, R, k, e)
    BY <2>2, <2>3, <2>6, <2>7, WriteRouteIs
  <2>9. v.page = s
    OBVIOUS
  <2>10. v.idx = k
    BY <2>1, <2>3, <2>8, <2>9, TravelFirst
  <2> QED BY <2>4, <2>6, <2>10
<1> QED BY <1>1, HostInvAlways, PTL
==============================================================================
