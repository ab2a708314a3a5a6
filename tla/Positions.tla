------------------------------ MODULE Positions ------------------------------
(***************************************************************************)
(* Sets of positions in a sequence: how many lie up to a place, which one  *)
(* is the k-th, and the subsequence found at them.                         *)
(***************************************************************************)
EXTENDS Integers, FiniteSets, Sequences

Count(S, i) == Cardinality({k \in S : k <= i})

Nth(S, k) == CHOOSE i \in S : Count(S, i) = k

\* The elements at the positions S, in the order of the sequence.
Pick(seq, S) == [k \in 1..Cardinality(S) |-> seq[Nth(S, k)]]

=============================================================================
