------------------------ MODULE MCDocusignCompletion ------------------------
(* Small instances of DocusignCompletion for TLC. *)
EXTENDS DocusignCompletion, TLC

CONSTANTS w1, w2, d1, d2

=============================================================================
