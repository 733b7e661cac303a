---------------------------- MODULE LedgerPromise ----------------------------
(***************************************************************************)
(* What the domain ledger promises to those who send it commands: a run of *)
(* a command takes effect in all its records, its key and its announcement *)
(* in one step or not at all, an idempotency key takes effect once, and no *)
(* effect is lost again.  It does not promise that what a run only read    *)
(* still stands when it commits.                                           *)
(***************************************************************************)

CONSTANTS Records, Keys, Runs, None

VARIABLES
  effects,    \* the runs that each record holds the effect of
  taken,      \* the run that took effect under each key
  announced   \* the runs with an audit event and an outbox event

vars == <<effects, taken, announced>>

Init ==
  /\ effects = [x \in Records |-> {}]
  /\ taken = [k \in Keys |-> None]
  /\ announced = {}

TakeEffect(r, k, xs) ==
  /\ taken[k] = None /\ r \notin announced /\ xs # {}
  /\ effects' = [x \in Records |-> IF x \in xs THEN effects[x] \cup {r} ELSE effects[x]]
  /\ taken' = [taken EXCEPT ![k] = r]
  /\ announced' = announced \cup {r}

Next == \E r \in Runs, k \in Keys, xs \in SUBSET Records : TakeEffect(r, k, xs)

Spec == Init /\ [][Next]_vars

=============================================================================
