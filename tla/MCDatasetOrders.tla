--------------------------- MODULE MCDatasetOrders ---------------------------
(***************************************************************************)
(* DatasetOrders on a small instance: one worker, so that the answers of   *)
(* the sequential properties are determined, and two orders of one buyer.  *)
(***************************************************************************)
EXTENDS DatasetOrders, TLC

CONSTANTS u1, d1, p1, w1, i1, i2

Symmetry == Permutations(Invoices)

=============================================================================
