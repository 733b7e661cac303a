---------------------------- MODULE DomainLedger ----------------------------
(* Commands on one domain of the PostgreSQL domain ledger: the request reads
   the whole domain into memory, the command changes the copy, and a flush
   writes the difference back under optimistic versions.  Every statement of a
   transaction is a step of its own, for the transactions run at READ
   COMMITTED: a statement sees what is committed when it starts, together with
   its own transaction's writes.  A request that meets a conflict is run again,
   as the API does for the idempotent mutations.

   A record's payload is abstracted to the runs whose changes it holds.  A
   run's response names the run (the services answer with the ids and the times
   they made up), so that no two runs have the same.  References, unique keys
   and the audit events of a command that changes no record are left out. *)
EXTENDS Naturals

CONSTANTS
  Requests,    \* mutations that arrive
  Keys,        \* idempotency keys they carry
  Hashes,      \* request hashes: two requests may reuse one key
  MaxRecord,   \* bound on the records, which are numbered in their sorted order
  AppendOnly,  \* records that are written once
  MaxRetries,  \* retryLimit
  None

ASSUME LedgerAssumption ==
  /\ MaxRecord \in Nat /\ MaxRetries \in Nat
  /\ AppendOnly \subseteq 1 .. MaxRecord
  /\ None \notin [hash : Hashes, by : Requests \X (1 .. MaxRetries + 1)]

VARIABLES
  rec,     \* committed rows of lawos_domain.records, version 0 for no row
  keys,    \* committed rows of lawos_domain.idempotency_keys
  outbox,  \* runs with a committed audit event and outbox event
  req      \* each request, with the writes of its open transaction

vars == <<rec, keys, outbox, req>>

Records == 1 .. MaxRecord
Runs == Requests \X (1 .. MaxRetries + 1)
Rows == [version : Nat, by : SUBSET Runs]
KeyRows == [hash : Hashes, by : Runs] \cup {None}

Phases == {"arriving", "list_records", "list_keys", "command", "flush_records", "flush_keys",
           "write", "readback", "commit", "verify", "answered", "refused"}
Ended == {"answered", "refused"}

\* base, known, want: the copy read, its row of the key, the records to change.
\* listed: the flush saw the key; wrote, claimed: what its transaction holds.
RequestRows == [phase : Phases, key : Keys \cup {None}, hash : Hashes \cup {None},
                attempt : 1 .. MaxRetries + 1, base : [Records -> Rows], known : KeyRows,
                want : SUBSET Records, listed : BOOLEAN,
                wrote : SUBSET Records, claimed : BOOLEAN, answer : Runs \cup {None},
                idempotent : BOOLEAN]

Absent == [version |-> 0, by |-> {}]
Blank == [x \in Records |-> Absent]
Arriving == [phase |-> "arriving", key |-> None, hash |-> None, attempt |-> 1,
             base |-> Blank, known |-> None, want |-> {}, listed |-> FALSE,
             wrote |-> {}, claimed |-> FALSE, answer |-> None, idempotent |-> FALSE]

Init ==
  /\ rec \in [Records -> {Absent, [version |-> 1, by |-> {}]}]
  /\ keys = [k \in Keys |-> None]
  /\ outbox = {}
  /\ req = [q \in Requests |-> Arriving]

RunOf(q) == <<q, req[q].attempt>>

\* What the request would leave in the ledger: changed records one version on.
Source(q, x) ==
  LET b == req[q].base[x] IN
  IF x \in req[q].want THEN [version |-> b.version + 1, by |-> b.by \cup {RunOf(q)}] ELSE b

\* What a statement of the request's transaction sees.
View(q) == [x \in Records |-> IF x \in req[q].wrote THEN Source(q, x) ELSE rec[x]]

\* The comparison covers the records of the source; others may have appeared.
ReadsBack(q, seen) ==
  \A x \in Records : Source(q, x).version > 0 => seen[x] = Source(q, x)

\* compareDomainBaselineWithConcurrentReadback: only append-only records may be new.
BaselineStands(q) ==
  \A x \in Records : \/ rec[x] = req[q].base[x]
                     \/ req[q].base[x].version = 0 /\ x \in AppendOnly

-----------------------------------------------------------------------------
Advance(q, phase) == req' = [req EXCEPT ![q] = [@ EXCEPT !.phase = phase]]

\* Mutant: An attempt is counted where it ends and where the next one begins.
Restarted_CountsTwice(q, phase, attempt) ==
  [Arriving EXCEPT !.phase = phase, !.key = req[q].key, !.hash = req[q].hash,
                   !.attempt = req[q].attempt + attempt, !.idempotent = req[q].idempotent]

\* The transaction, if one is open, is rolled back, and the copy is dropped.
Restarted(q, phase, attempt) ==
  [Arriving EXCEPT !.phase = phase, !.key = req[q].key, !.hash = req[q].hash,
                   !.attempt = attempt, !.idempotent = req[q].idempotent]

Answer(q, run) ==
  req' = [req EXCEPT ![q] = [Restarted(q, "answered", req[q].attempt) EXCEPT !.answer = run]]

Refuse(q) == req' = [req EXCEPT ![q] = Restarted(q, "refused", req[q].attempt)]

\* A conflict: runPostgresReadWithBaselineRetry runs an idempotent mutation again.
Conflict(q) ==
  IF req[q].idempotent /\ req[q].attempt <= MaxRetries
  THEN req' = [req EXCEPT ![q] = Restarted(q, "list_records", req[q].attempt + 1)]
  ELSE Refuse(q)

Receive(q) ==
  /\ req[q].phase = "arriving"
  /\ \E k \in Keys, h \in Hashes, again \in BOOLEAN :
       req' = [req EXCEPT ![q] = [@ EXCEPT !.phase = "list_records", !.key = k, !.hash = h,
                                           !.idempotent = again]]
  /\ UNCHANGED <<rec, keys, outbox>>

ListRecords(q) ==
  /\ req[q].phase = "list_records"
  /\ req' = [req EXCEPT ![q] = [@ EXCEPT !.phase = "list_keys", !.base = rec]]
  /\ UNCHANGED <<rec, keys, outbox>>

ListKeys(q) ==
  /\ req[q].phase = "list_keys"
  /\ req' = [req EXCEPT ![q] = [@ EXCEPT !.phase = "command", !.known = keys[req[q].key]]]
  /\ UNCHANGED <<rec, keys, outbox>>

\* The command finds its key in the copy and replays the answer, or refuses
\* another request under it; else it changes some records, or has no reason to.
Command(q) ==
  /\ req[q].phase = "command"
  /\ LET known == req[q].known IN
     \/ /\ known # None
        /\ IF known.hash = req[q].hash THEN Answer(q, known.by) ELSE Refuse(q)
     \/ known = None /\ Refuse(q)
     \/ /\ known = None
        /\ \E xs \in SUBSET Records :
             /\ xs # {}
             /\ \A x \in xs \cap AppendOnly : req[q].base[x].version = 0
             /\ req' = [req EXCEPT ![q] = [@ EXCEPT !.phase = "flush_records", !.want = xs]]
  /\ UNCHANGED <<rec, keys, outbox>>

FlushRecords(q) ==
  /\ req[q].phase = "flush_records"
  /\ IF BaselineStands(q) THEN Advance(q, "flush_keys") ELSE Conflict(q)
  /\ UNCHANGED <<rec, keys, outbox>>

FlushKeys(q) ==
  /\ req[q].phase = "flush_keys"
  /\ req' = [req EXCEPT ![q] = [@ EXCEPT !.phase = "write", !.listed = keys[req[q].key] # None]]
  /\ UNCHANGED <<rec, keys, outbox>>

Unwritten(q) == req[q].want \ req[q].wrote

\* Mutant: The UPDATE does not look at the version.
WriteRecord_LastWins(q) ==
  /\ req[q].phase = "write"
  /\ \E x \in Unwritten(q) :
       /\ \A y \in Unwritten(q) : x <= y
       /\ \A p \in Requests \ {q} : x \notin req[p].wrote
       /\ req' = [req EXCEPT ![q] = [@ EXCEPT !.wrote = req[q].wrote \cup {x}]]
  /\ UNCHANGED <<rec, keys, outbox>>

\* Mutant: The records are written in the order in which the command touched them.
WriteRecord_AnyOrder(q) ==
  /\ req[q].phase = "write"
  /\ \E x \in Unwritten(q) :
       /\ \A p \in Requests \ {q} : x \notin req[p].wrote
       /\ IF rec[x].version = req[q].base[x].version
          THEN req' = [req EXCEPT ![q] = [@ EXCEPT !.wrote = req[q].wrote \cup {x}]]
          ELSE Conflict(q)
  /\ UNCHANGED <<rec, keys, outbox>>

\* The INSERT or UPDATE of the next changed record in order waits for the
\* transaction that holds the row, and then looks at the version again.
WriteRecord(q) ==
  /\ req[q].phase = "write"
  /\ \E x \in Unwritten(q) :
       /\ \A y \in Unwritten(q) : x <= y
       /\ \A p \in Requests \ {q} : x \notin req[p].wrote
       /\ IF rec[x].version = req[q].base[x].version
          THEN req' = [req EXCEPT ![q] = [@ EXCEPT !.wrote = req[q].wrote \cup {x}]]
          ELSE Conflict(q)
  /\ UNCHANGED <<rec, keys, outbox>>

\* A new key is required; claiming it waits for an uncommitted claim.  The audit
\* and outbox events follow in the same transaction, whatever the claim found.
ClaimKey(q) ==
  /\ req[q].phase = "write" /\ Unwritten(q) = {}
  /\ IF req[q].listed THEN Refuse(q)
     ELSE /\ \A p \in Requests \ {q} : ~(req[p].claimed /\ req[p].key = req[q].key)
          /\ LET row == keys[req[q].key] IN
             IF row # None /\ row.hash # req[q].hash THEN Refuse(q)
             ELSE req' = [req EXCEPT ![q] = [@ EXCEPT !.phase = "readback",
                                                      !.claimed = row = None]]
  /\ UNCHANGED <<rec, keys, outbox>>

\* Mutant: The comparison before the commit leaves the idempotency entries out.
Readback_RecordsOnly(q) ==
  /\ req[q].phase = "readback"
  /\ IF ReadsBack(q, View(q)) THEN Advance(q, "commit") ELSE Conflict(q)
  /\ UNCHANGED <<rec, keys, outbox>>

\* A key that somebody else claimed shows as another response.
Readback(q) ==
  /\ req[q].phase = "readback"
  /\ IF ReadsBack(q, View(q)) /\ req[q].claimed THEN Advance(q, "commit") ELSE Conflict(q)
  /\ UNCHANGED <<rec, keys, outbox>>

\* The answer of COMMIT may be lost: the request then fails although it is done.
Commit(q) ==
  /\ req[q].phase = "commit"
  /\ rec' = View(q)
  /\ keys' = [keys EXCEPT ![req[q].key] = [hash |-> req[q].hash, by |-> RunOf(q)]]
  /\ outbox' = outbox \cup {RunOf(q)}
  /\ \/ req' = [req EXCEPT ![q] = [@ EXCEPT !.phase = "verify", !.wrote = {}, !.claimed = FALSE]]
     \/ Refuse(q)

\* The comparison after the commit, in a transaction of its own.
Verify(q) ==
  /\ req[q].phase = "verify"
  /\ IF ReadsBack(q, rec) THEN Answer(q, RunOf(q)) ELSE Conflict(q)
  /\ UNCHANGED <<rec, keys, outbox>>

\* A statement fails for good, or the process dies: PostgreSQL rolls back.
Interrupt(q) ==
  /\ req[q].phase \notin Ended \cup {"arriving"}
  /\ Refuse(q)
  /\ UNCHANGED <<rec, keys, outbox>>

Step(q) ==
  \/ ListRecords(q) \/ ListKeys(q) \/ Command(q)
  \/ FlushRecords(q) \/ FlushKeys(q) \/ WriteRecord(q) \/ ClaimKey(q)
  \/ Readback(q) \/ Commit(q) \/ Verify(q)

Next == \E q \in Requests : Receive(q) \/ Step(q) \/ Interrupt(q)

Spec == Init /\ [][Next]_vars

\* A request that is running goes on: node runs its promise, PostgreSQL its
\* statement once the row or the key it waits for is free.
FairSpec == Spec /\ \A q \in Requests : WF_vars(Step(q))

-----------------------------------------------------------------------------
(* Properties *)

TypeOK ==
  /\ rec \in [Records -> Rows]
  /\ keys \in [Keys -> KeyRows]
  /\ outbox \subseteq Runs
  /\ req \in [Requests -> RequestRows]

\* Whatever the interleaving of the statements and however often a request is
\* sent or run again, the ledger takes commands as LedgerPromise says: a key
\* takes effect once, with all its records and its announcement, and a later
\* flush loses nothing of it (flushDomainSnapshotToScopedLedger, write and
\* claimIdempotency at READ COMMITTED).
Promise == INSTANCE LedgerPromise WITH
  effects <- [x \in Records |-> rec[x].by],
  taken <- [k \in Keys |-> IF keys[k] = None THEN None ELSE keys[k].by],
  announced <- outbox

ImplementsPromise == Promise!Spec

\* A request that was answered, be it at once, by a replay of another request's
\* answer or after its own commit was taken for a conflict, gets the answer of
\* the run that took effect under its key.
AnswersAreTrue ==
  \A q \in Requests : req[q].phase = "answered" =>
    LET row == keys[req[q].key] IN
    /\ row # None /\ row = [hash |-> req[q].hash, by |-> req[q].answer]
    /\ req[q].answer \in outbox
    /\ \E x \in Records : req[q].answer \in rec[x].by

\* Every request that arrived is answered or refused: transactions that wait for
\* each other's rows and keys take them in one order (createDomainSnapshot sorts
\* the records; the key comes last), and the retries are bounded.
RequestsEnd ==
  \A q \in Requests : req[q].phase = "list_records" ~> req[q].phase \in Ended

=============================================================================
