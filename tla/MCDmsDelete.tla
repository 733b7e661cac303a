----------------------------- MODULE MCDmsDelete -----------------------------
(* Small instances of DmsDelete for TLC. *)
EXTENDS DmsDelete, TLC

CONSTANTS o1, o2, c1, c2, r1, r2

Everyone == Procs

==============================================================================
