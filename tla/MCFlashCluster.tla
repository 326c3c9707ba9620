---------------------------- MODULE MCFlashCluster ----------------------------
(***************************************************************************)
(* Small clusters: two nodes with pages of two words.                      *)
(***************************************************************************)
EXTENDS FlashCluster

TwoNodes == {0, 1}

\* One host reads from both nodes; the other writes and erases at the first.
MixedSlots == {<<0, "read", 0>>, <<1, "write", 0>>, <<1, "erase", 0>>}
MixedTarget == [s \in Slots |-> IF s[2] = "read" THEN Node ELSE {0}]

\* A read and a write of each host, all for the flash of node 1.
PageSlots == {<<0, "read", 0>>, <<1, "read", 0>>, <<0, "write", 0>>, <<1, "write", 0>>}
ToOne == [s \in Slots |-> {1}]
=============================================================================
