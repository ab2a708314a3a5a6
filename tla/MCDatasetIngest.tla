--------------------------- MODULE MCDatasetIngest ---------------------------
(***************************************************************************)
(* Instances of DatasetIngest: two datasets that can only have the slug    *)
(* one after the other, and at most one signed push, that is sent again.   *)
(***************************************************************************)
EXTENDS DatasetIngest, TLC

CONSTANTS d1, d2, i1, i2, w1, w2, g1, n1, b1, t1, c1

SignedPushes == {[stamp |-> 1, slug |-> g1, minute |-> 1, blob |-> b1]}

Symmetry == Permutations(Datasets) \union Permutations(Snapshots) \union Permutations(Workers)

=============================================================================
