--------------------------- MODULE MCAuroraEndpoint ---------------------------
(***************************************************************************)
(* Small instances of AuroraEndpoint: two senders for one receiver, two    *)
(* nodes that send to each other, and two senders for two receivers.       *)
(***************************************************************************)
EXTENDS AuroraEndpoint

CONSTANTS n1, n2, n3, n4

TwoToOne  == {<<n1, n3>>, <<n2, n3>>}
BothWays  == {<<n1, n3>>, <<n3, n1>>}
AnyFlow   == TwoToOne \cup BothWays
TwoToTwo  == {<<n1, n3>>, <<n1, n4>>, <<n2, n3>>, <<n2, n4>>}

\* Dynamic endpoints with two senders, static ones in both directions.
EitherKind == {[dynamic |-> TRUE, flows |-> TwoToOne, msgs |-> {1}],
               [dynamic |-> FALSE, flows |-> BothWays, msgs |-> {1, 2}]}
DynamicTwoToTwo == {[dynamic |-> TRUE, flows |-> TwoToTwo, msgs |-> {1}]}
=============================================================================
