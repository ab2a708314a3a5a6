-------------------------- MODULE MCDatasetArchive --------------------------
(***************************************************************************)
(* DatasetArchive on small instances.  Ids, slugs, workers and names are   *)
(* model values, minutes are numbers because their order matters.          *)
(***************************************************************************)
EXTENDS DatasetArchive, TLC

CONSTANTS d1, d2, i1, i2, i3, f1, f2, w1, w2, g1, g2, n1, b1, b2

Symmetry == Permutations(Datasets) \union Permutations(Snapshots)
               \union Permutations(Files) \union Permutations(Workers)
               \union Permutations(Slugs) \union Permutations(Blobs)

=============================================================================
