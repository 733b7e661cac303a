--------------------------- MODULE MCDomainLedger ---------------------------
(* Small instances of DomainLedger for TLC. *)
EXTENDS DomainLedger, TLC

CONSTANTS q1, q2, q3, k1, k2, h1, h2

\* Nothing tells the requests, the keys or the hashes apart.
LedgerSymmetry == Permutations(Requests) \cup Permutations(Keys) \cup Permutations(Hashes)

=============================================================================
