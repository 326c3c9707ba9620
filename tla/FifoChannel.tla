----------------------------- MODULE FifoChannel -----------------------------
(***************************************************************************)
(* What a set of one-way routes promises to the designs that use them:     *)
(* every message accepted on a route reaches the receiving user, unchanged,*)
(* once, and in the order of acceptance.  Nothing is said of credits or of *)
(* words on a wire; those are AuroraGearbox's and AuroraEndpoint's         *)
(* business.                                                               *)
(***************************************************************************)
EXTENDS Naturals, Sequences

CONSTANTS Data,          \* messages a user may hand over
          Route          \* the one-way routes between users

VARIABLES chan,          \* chan[r]: accepted on route r, under way
          out            \* out[r]: arrived, for the receiving user to read

Init == chan = [r \in Route |-> << >>] /\ out = [r \in Route |-> << >>]

\* A user hands message d to route r.
Send(r, d) ==
  /\ chan' = [chan EXCEPT ![r] = Append(@, d)]
  /\ UNCHANGED out

\* The oldest message under way on r arrives.
Deliver(r) ==
  /\ chan[r] # << >>
  /\ chan' = [chan EXCEPT ![r] = Tail(@)]
  /\ out' = [out EXCEPT ![r] = Append(@, Head(chan[r]))]

\* The receiving user reads a message.
Read(r) ==
  /\ out[r] # << >>
  /\ out' = [out EXCEPT ![r] = Tail(@)]
  /\ UNCHANGED chan

Next == \E r \in Route : Deliver(r) \/ Read(r) \/ \E d \in Data : Send(r, d)

SafeSpec == Init /\ [][Next]_<<chan, out>>

Spec ==
  /\ SafeSpec
  /\ \A r \in Route : WF_<<chan, out>>(Deliver(r)) /\ WF_<<chan, out>>(Read(r))
=============================================================================
