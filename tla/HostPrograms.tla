----------------------------- MODULE HostPrograms -----------------------------
(***************************************************************************)
(* What the main() of every program on FlashHost does: loops over pages    *)
(* that issue one request each, barriers, and the verdict at the end.      *)
(* g is the geometry: the nodes, and how many blocks per chip, chips per   *)
(* bus and buses there are.  Only page 0 of a block is used.               *)
(***************************************************************************)
EXTENDS Naturals, Sequences, SequencesExt

CONSTANTS
  Repeats,     \* bound for the numbers of repeated reads, 10 in the code
  RandomReads  \* bound for the 100000 random reads

\* for blk, for chip, for bus, for node: the last loop is the innermost.
PagesOf(blks, chips, buses, nodes) ==
  LET N == Len(nodes)
      C == Len(chips)
      B == Len(buses)
  IN  [i \in 1 .. (Len(blks) * C * B * N) |->
        LET k == i - 1
        IN  [node |-> nodes[(k % N) + 1],
             bus  |-> buses[((k \div N) % B) + 1],
             chip |-> chips[((k \div (N * B)) % C) + 1],
             blk  |-> blks[(k \div (N * B * C)) + 1]]]

UpTo(n)  == [i \in 1 .. n |-> i - 1]
AllPages(g, nodes) == PagesOf(UpTo(g.blks), UpTo(g.chips), UpTo(g.buses), nodes)

ForEach(o, pages)    == [i \in DOMAIN pages |-> [do |-> o, page |-> pages[i]]]
WaitFor(o)           == <<[do |-> "wait", op |-> o]>>
ForEachAndWait(o, p) == ForEach(o, p) \o WaitFor(o)
Times(n, s)          == FlattenSeq([i \in 1 .. n |-> s])
Start(check)         == <<[do |-> "start", check |-> check]>>
Verdict              == <<[do |-> "verdict"]>>
AnyKey               == <<[do |-> "key"]>>

\* flash_connectal: writes wait after every block of every bus.
ConnectalMain(g) ==
  LET all == AllPages(g, <<0>>)
      writes(bus, blk) == PagesOf(<<blk>>, UpTo(g.chips), <<bus>>, <<0>>)
  IN  ForEachAndWait("erase", all) \o ForEachAndWait("read", all)
        \o FlattenSeq([i \in 1 .. (g.buses * g.blks) |->
             ForEachAndWait("write", writes((i - 1) \div g.blks, (i - 1) % g.blks))])
        \o ForEachAndWait("read", all) \o Verdict

\* Writes wait after every bus: flash_xbsv and flashaccess.
BusAtATime(g) ==
  FlattenSeq([i \in 1 .. g.buses |->
    ForEachAndWait("write", PagesOf(UpTo(g.blks), UpTo(g.chips), <<i - 1>>, <<0>>))])

XbsvMain(g) ==
  LET all == AllPages(g, <<0>>)
  IN  ForEachAndWait("erase", all) \o ForEachAndWait("read", all)
        \o BusAtATime(g) \o ForEachAndWait("read", all) \o Verdict

FlashAccessMain(g) ==
  LET all == AllPages(g, <<0>>)
  IN  ForEachAndWait("erase", all) \o ForEachAndWait("read", all)
        \o BusAtATime(g) \o ForEachAndWait("read", all) \o Verdict

\* flash_connectal_64bit writes all pages before it waits.
Connectal64Main(g) ==
  LET all == AllPages(g, <<0>>)
  IN  ForEachAndWait("erase", all) \o ForEachAndWait("read", all)
        \o ForEachAndWait("write", all) \o ForEachAndWait("read", all) \o Verdict

\* flash_connectal_tagbufs: node 0 erases and writes once, then reads all pages
\* repeatedly, then pages picked by rand(); another node sleeps for ever.
TagbufsMain(g, myid) ==
  LET all == AllPages(g, <<0>>)
      random == [do |-> "random", pages |-> Range(all)]
  IN  IF myid # 0 THEN <<>>
      ELSE ForEachAndWait("erase", all) \o ForEachAndWait("read", all)
             \o ForEachAndWait("write", all)
             \o Times(Repeats, ForEach("read", all)) \o WaitFor("read")
             \o [i \in 1 .. RandomReads |-> random] \o WaitFor("read") \o Verdict

\* flash_multinode, on its own flash.
LocalTest(g, check, read_repeat, myid) ==
  LET all == AllPages(g, <<myid>>)
  IN  Start(check)
        \o ForEachAndWait("erase", all) \o ForEachAndWait("read", all)
        \o ForEachAndWait("write", all)
        \o Times(read_repeat, ForEach("read", all)) \o WaitFor("read") \o Verdict

\* One node uses the flash of all; the others sleep for ever.
OneToManyTest(g, check, read_repeat, accessNode, myid) ==
  LET all == AllPages(g, g.nodes)
  IN  IF myid # accessNode THEN <<>>
      ELSE Start(check)
             \o ForEachAndWait("erase", all) \o ForEachAndWait("read", all)
             \o ForEachAndWait("write", all)
             \o Times(read_repeat, ForEach("read", all)) \o WaitFor("read") \o Verdict

\* All nodes use the flash of all, each its own blocks: blk = myid, myid + N, ...
\* A repeat number below 1 is only reported; more than 10 tests are refused.
ManyToManyTest(g, check, test_repeat, read_repeat, myid) ==
  LET N   == Len(g.nodes)
      own == SelectSeq(UpTo(g.blks), LAMBDA b : b >= myid /\ (b - myid) % N = 0)
      all == PagesOf(own, UpTo(g.chips), UpTo(g.buses), g.nodes)
      one == ForEachAndWait("erase", all) \o ForEachAndWait("read", all)
               \o ForEachAndWait("write", all)
               \o Times(read_repeat, ForEach("read", all)) \o WaitFor("read")
  IN  IF test_repeat > 10 THEN <<>>
      ELSE Start(check) \o Times(test_repeat, one) \o Verdict

\* main of flash_multinode.
MultinodeMain(g, myid) ==
  LocalTest(g, TRUE, 1, myid) \o AnyKey \o ManyToManyTest(g, TRUE, 1, Repeats, myid)
=============================================================================
