-------------------------- MODULE MCDatasetAccess --------------------------
(***************************************************************************)
(* Instances of DatasetAccess for TLC.                                     *)
(***************************************************************************)
EXTENDS DatasetAccess, TLC

CONSTANTS u1, d1, d2, p1, w1, w2

\* Workers run the same code, datasets differ only by identity.
Symmetry == Permutations({w1, w2}) \union Permutations({d1, d2})

=============================================================================
