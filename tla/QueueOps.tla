------------------------------- MODULE QueueOps -------------------------------
(***************************************************************************)
(* Operators on FIFOs written as sequences of records with a field "kind". *)
(***************************************************************************)
EXTENDS Naturals, Sequences, FiniteSets

\* Where the entries of kind k are, and how many there are.
At(q, k)    == {i \in DOMAIN q : q[i].kind = k}
Count(q, k) == Cardinality(At(q, k))

\* Where the entries of the kinds ks with tag t are, and how many there are.
Tagged(q, ks, t)      == {i \in DOMAIN q : q[i].kind \in ks /\ q[i].tag = t}
CountTagged(q, ks, t) == Cardinality(Tagged(q, ks, t))

\* Where the entries in the set S are, and how many there are.
Places(q, S)  == {i \in DOMAIN q : q[i] \in S}
CountIn(q, S) == Cardinality(Places(q, S))

\* The entries in the set S, in order (SelectSeq with a set for its test).
Kept(q, S) ==
  LET keep[n \in 0 .. Len(q)] ==
        IF n = 0 THEN << >>
        ELSE IF q[n] \in S THEN Append(keep[n - 1], q[n]) ELSE keep[n - 1]
  IN  keep[Len(q)]
=============================================================================
