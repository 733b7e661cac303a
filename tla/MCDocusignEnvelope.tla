------------------------- MODULE MCDocusignEnvelope -------------------------
(* Small instances of DocusignEnvelope for TLC. *)
EXTENDS DocusignEnvelope, TLC

CONSTANTS r1, r2, w1, w2, k1, k2, k3

KeySymmetry == Permutations(SendKeys)

=============================================================================
