-------------------------- MODULE MCDatasetReadApi --------------------------
(***************************************************************************)
(* DatasetReadApi on a small instance: one archive worker at a time, one   *)
(* user whose tokens run out.                                              *)
(***************************************************************************)
EXTENDS DatasetReadApi, TLC

CONSTANTS d1, d2, i1, i2, f1, w1, g1, g2, n1, b1, u1

Symmetry == Permutations(Datasets) \union Permutations(Snapshots) \union Permutations(Slugs)

=============================================================================
