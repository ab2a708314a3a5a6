-------------------------- MODULE MCDatasetPreview --------------------------
(***************************************************************************)
(* DatasetPreview on every file of a few bytes: query values that are no   *)
(* number, negative, within the file, and far beyond it.                   *)
(***************************************************************************)
EXTENDS DatasetPreview

Offsets == {Garbage, 1, 9}
Limits  == {Garbage, -1, 7}

=============================================================================
