--------------------------- MODULE MCAuroraGearbox ---------------------------
(***************************************************************************)
(* Small instances of AuroraGearbox.  Halves are model values; the two     *)
(* packets share no half, so that a mixed-up packet is not a packet.       *)
(***************************************************************************)
EXTENDS AuroraGearbox

CONSTANTS a1, a2, b1, b2

MCHalf    == {a1, a2, b1, b2}
TwoPackets == {<<a1, a2>>, <<b1, b2>>}
OnePacket  == {<<a1, a2>>}
BothEnds  == {0, 1}
OneEnd    == {0}

\* The rules read the counters only through their differences, so two states
\* that agree on these have the same future, and every step changes one of them,
\* so that what always or eventually holds does not depend on the rest.
CounterView ==
  <<[s \in Side |-> <<InFlight(s), InQ(s), Budget(s)>>],
    sendVars, recvVars, linkVars, flowControlQ>>
=============================================================================
