------------------------------- MODULE Positions -------------------------------
(* Sets of positions in a sequence, taken in their order.                     *)
EXTENDS Naturals, Sequences, FiniteSets

\* The n-th of them.
Nth(positions, n) == CHOOSE i \in positions : Cardinality({j \in positions : j <= i}) = n

\* What q has at them.
Selected(q, positions) == [n \in 1 .. Cardinality(positions) |-> q[Nth(positions, n)]]
=============================================================================
