--------------------------- MODULE MCGraphDelivery ---------------------------
(* Small instances of GraphDelivery for TLC. *)
EXTENDS GraphDelivery, TLC

CONSTANTS r1, r2

\* Nothing tells the workers apart.
WorkerSymmetry == Permutations(Workers)

=============================================================================
