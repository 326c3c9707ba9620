----------------------------- MODULE MCFlashHost ------------------------------
(***************************************************************************)
(* Every host program on a few pages.  Single-node programs run on node 0  *)
(* with two buses of one chip; flash_multinode on two nodes of two blocks. *)
(***************************************************************************)
EXTENDS FlashHost, HostPrograms

OneNode  == [nodes |-> <<0>>, blks |-> 1, chips |-> 1, buses |-> 2]
TwoBlks  == [nodes |-> <<0>>, blks |-> 2, chips |-> 1, buses |-> 2]
TwoNodes == [nodes |-> <<0, 1>>, blks |-> 2, chips |-> 1, buses |-> 1]

PageAt(n, b, k) == [node |-> n, bus |-> b, chip |-> 0, blk |-> k]

Runs(nm, s0, s1, tags, keeps) ==
  [name |-> nm, script |-> (0 :> s0 @@ 1 :> s1), numTags |-> tags, keepsBad |-> keeps]

SingleNode ==
  {Runs("connectal", ConnectalMain(TwoBlks), <<>>, 2, FALSE),
   Runs("xbsv", XbsvMain(TwoBlks), <<>>, 2, FALSE),
   Runs("flashaccess", FlashAccessMain(TwoBlks), <<>>, 2, FALSE),
   Runs("connectal_64bit", Connectal64Main(OneNode), <<>>, 2, FALSE),
   Runs("connectal_tagbufs", TagbufsMain(OneNode, 0), TagbufsMain(OneNode, 1), 2, FALSE)}

\* flash_multinode, and its test that main() has commented out.
Multinode ==
  {Runs("multinode", MultinodeMain(TwoNodes, 0), MultinodeMain(TwoNodes, 1), 1, TRUE)}
    \cup {Runs("one_to_many", OneToManyTest(TwoNodes, c, Repeats, 1, 0),
                               OneToManyTest(TwoNodes, c, Repeats, 1, 1), 1, TRUE) : c \in BOOLEAN}

TwoHosts == {0, 1}
EveryPage == {PageAt(0, b, k) : b \in 0..1, k \in 0..1} \cup {PageAt(n, 0, k) : n \in 0..1, k \in 0..1}
AllDeployments == SingleNode \cup Multinode
ASSUME ProgramsDisciplined == \A d \in AllDeployments : Disciplined(d)
NoneOrOneBad == {{}, {PageAt(0, 0, 1)}}
=============================================================================
