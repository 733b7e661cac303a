------------------------- MODULE DomainLedgerProofs -------------------------
(***************************************************************************)
(* Proofs about DomainLedger, for every value of its constants.            *)
(*                                                                         *)
(* LInv is the inductive invariant.  A commit is a step of LedgerPromise   *)
(* because the rows that the transaction wrote are locked, and so are      *)
(* still those of the copy when it commits, and because its claim of the   *)
(* key is the only one: what was read never counts, only what is held.     *)
(***************************************************************************)
EXTENDS DomainLedger, TLAPS

Holding == {"write", "readback", "commit"}
Flushing == {"flush_records", "flush_keys"} \cup Holding
Uncommitted == {"arriving", "list_records", "list_keys", "command"} \cup Flushing

\* A row of the copy beside the row that is committed now.
Past(old, new) == old.version <= new.version /\ (old.version = new.version => old = new)

\* The request q in the state r, beside the committed tables.
RequestOK(q, r, rc, ks, ob) ==
  /\ r \in RequestRows
  /\ r.phase # "arriving" => r.key \in Keys /\ r.hash \in Hashes
  /\ r.wrote \subseteq r.want
  /\ r.wrote # {} => r.phase \in Holding
  /\ r.claimed => r.phase \in {"readback", "commit"}
  /\ r.phase \in {"readback", "commit"} => r.wrote = r.want
  /\ r.phase \in Flushing => r.want # {}
  /\ r.phase = "commit" => r.claimed
  /\ \A x \in Records : Past(r.base[x], rc[x])
  /\ \A x \in r.wrote : r.base[x] = rc[x]
  /\ r.claimed => ks[r.key] = None
  /\ r.known # None => r.phase = "command" /\ ks[r.key] = r.known
  /\ \A n : <<q, n>> \in ob => n <= r.attempt
  /\ r.phase \in Uncommitted => <<q, r.attempt>> \notin ob
  /\ r.phase = "verify" => ks[r.key] # None /\ ks[r.key] = [hash |-> r.hash, by |-> <<q, r.attempt>>]
  /\ r.phase = "answered" => ks[r.key] # None /\ ks[r.key] = [hash |-> r.hash, by |-> r.answer]

\* The committed tables agree.
LedgerOK(rc, ks, ob) ==
  /\ rc \in [Records -> Rows] /\ ks \in [Keys -> KeyRows] /\ ob \subseteq Runs
  /\ \A x \in Records : rc[x].version = 0 => rc[x] = Absent
  /\ \A k \in Keys : ks[k] # None => ks[k].by \in ob /\ \E x \in Records : ks[k].by \in rc[x].by

\* No two open transactions hold a row, or the claim of a key, together.
Apart(r, s) == r.wrote \cap s.wrote = {} /\ ~(r.claimed /\ s.claimed /\ r.key = s.key)

LInv ==
  /\ LedgerOK(rec, keys, outbox)
  /\ req \in [Requests -> RequestRows]
  /\ \A q \in Requests : RequestOK(q, req[q], rec, keys, outbox)
  /\ \A p, q \in Requests : p # q => Apart(req[p], req[q])

-----------------------------------------------------------------------------
LEMMA Bound == MaxRetries \in Nat /\ 1 \in 1 .. MaxRetries + 1
BY LedgerAssumption

\* A row known to nobody is in every table's past.
LEMMA BlankPast ==
  ASSUME NEW rc, NEW ks, NEW ob, LedgerOK(rc, ks, ob), NEW x \in Records
  PROVE  Past(Absent, rc[x])
<1>1. rc[x] \in Rows
  BY DEF LedgerOK
<1>2. rc[x].version \in Nat
  BY <1>1 DEF Rows
<1>3. rc[x].version = 0 => rc[x] = Absent
  BY DEF LedgerOK
<1>. QED BY <1>2, <1>3 DEF Past, Absent

LEMMA ArrivingType == Arriving \in RequestRows
<1>1. Absent \in Rows
  BY DEF Absent, Rows
<1>2. Blank \in [Records -> Rows]
  BY <1>1 DEF Blank
<1>. QED BY <1>2, Bound DEF Arriving, RequestRows, Phases, KeyRows

LEMMA LInvInit == Init => LInv
<1>. SUFFICES ASSUME Init PROVE LInv
  OBVIOUS
<1>1. Absent \in Rows /\ [version |-> 1, by |-> {}] \in Rows
  BY DEF Absent, Rows
<1>2. LedgerOK(rec, keys, outbox)
  BY <1>1 DEF Init, LedgerOK, KeyRows, Absent
<1>3. req \in [Requests -> RequestRows]
  BY ArrivingType DEF Init
<1>4. ASSUME NEW q \in Requests PROVE RequestOK(q, req[q], rec, keys, outbox)
  <2>1. req[q] = Arriving /\ outbox = {}
    BY DEF Init
  <2>2. \A x \in Records : Past(Arriving.base[x], rec[x])
    BY BlankPast, <1>2 DEF Arriving, Blank
  <2>3. RequestOK(q, Arriving, rec, keys, outbox)
    BY <2>1, <2>2, ArrivingType DEF RequestOK, Arriving, Holding, Flushing
  <2>. QED BY <2>1, <2>3
<1>5. ASSUME NEW p \in Requests, NEW q \in Requests PROVE Apart(req[p], req[q])
  BY DEF Init, Arriving, Apart
<1>. QED BY <1>2, <1>3, <1>4, <1>5 DEF LInv

-----------------------------------------------------------------------------
\* A request that moves on while the tables stay as they are.
LEMMA Moves ==
  ASSUME LInv, NEW q \in Requests, NEW r, req' = [req EXCEPT ![q] = r],
         UNCHANGED <<rec, keys, outbox>>,
         RequestOK(q, r, rec, keys, outbox),
         \A p \in Requests \ {q} : Apart(req[p], r)
  PROVE  LInv'
<1>1. r \in RequestRows
  BY DEF RequestOK
<1>2. req' \in [Requests -> RequestRows]
  BY <1>1 DEF LInv
<1>3. req'[q] = r /\ \A p \in Requests \ {q} : req'[p] = req[p]
  BY DEF LInv
<1>4. \A p \in Requests : RequestOK(p, req'[p], rec, keys, outbox)
  BY <1>3 DEF LInv
<1>5. \A p, s \in Requests : p # s => Apart(req'[p], req'[s])
  <2>. SUFFICES ASSUME NEW p \in Requests, NEW s \in Requests, p # s PROVE Apart(req'[p], req'[s])
    OBVIOUS
  <2>1. Apart(req[p], req[s])
    BY DEF LInv
  <2>2. p # q => Apart(req[p], r)
    OBVIOUS
  <2>3. s # q => Apart(r, req[s])
    BY DEF Apart
  <2>. QED BY <1>3, <2>1, <2>2, <2>3
<1>. QED BY <1>2, <1>4, <1>5 DEF LInv

\* A transaction that is rolled back holds nothing and claims nothing.
LEMMA RolledBack ==
  ASSUME LInv, NEW q \in Requests, req[q].phase # "arriving",
         NEW phase \in {"list_records", "refused"}, NEW n \in 1 .. MaxRetries + 1,
         NEW rc, NEW ks, NEW ob, LedgerOK(rc, ks, ob),
         \A m : <<q, m>> \in ob => m <= n,
         phase = "list_records" => <<q, n>> \notin ob
  PROVE  RequestOK(q, Restarted(q, phase, n), rc, ks, ob)
<1>. DEFINE r == Restarted(q, phase, n)
<1>1. req[q] \in RequestRows /\ req[q].key \in Keys /\ req[q].hash \in Hashes
  BY DEF LInv, RequestOK
<1>2. r \in RequestRows
  BY <1>1, ArrivingType DEF Restarted, RequestRows, Phases
<1>3. /\ r.phase = phase /\ r.key = req[q].key /\ r.hash = req[q].hash /\ r.attempt = n
      /\ r.base = Blank /\ r.known = None /\ r.want = {} /\ r.wrote = {} /\ r.claimed = FALSE
  BY DEF Restarted, Arriving
<1>4. \A x \in Records : Past(r.base[x], rc[x])
  BY <1>3, BlankPast DEF Blank
<1>. HIDE DEF r
<1>5. RequestOK(q, r, rc, ks, ob)
  BY <1>1, <1>2, <1>3, <1>4 DEF RequestOK, Holding, Flushing, Uncommitted
<1>. QED BY <1>5 DEF r

LEMMA RolledBackApart ==
  ASSUME NEW q \in Requests, NEW phase, NEW n, NEW s
  PROVE  Apart(s, Restarted(q, phase, n))
BY DEF Apart, Restarted, Arriving

\* Running the request again, or giving up on it.
LEMMA Refuses ==
  ASSUME LInv, NEW q \in Requests, req[q].phase # "arriving", Refuse(q),
         UNCHANGED <<rec, keys, outbox>>
  PROVE  LInv'
<1>1. LedgerOK(rec, keys, outbox) /\ req[q].attempt \in 1 .. MaxRetries + 1
  BY DEF LInv, RequestOK, RequestRows
<1>2. \A m : <<q, m>> \in outbox => m <= req[q].attempt
  BY DEF LInv, RequestOK
<1>3. RequestOK(q, Restarted(q, "refused", req[q].attempt), rec, keys, outbox)
  BY <1>1, <1>2, RolledBack
<1>. QED BY <1>3, Moves, RolledBackApart DEF Refuse

LEMMA Conflicts ==
  ASSUME LInv, NEW q \in Requests, req[q].phase # "arriving", Conflict(q),
         UNCHANGED <<rec, keys, outbox>>
  PROVE  LInv'
<1>1. CASE Refuse(q)
  BY <1>1, Refuses
<1>2. CASE /\ req[q].attempt <= MaxRetries
           /\ req' = [req EXCEPT ![q] = Restarted(q, "list_records", req[q].attempt + 1)]
  <2>1. LedgerOK(rec, keys, outbox) /\ req[q].attempt \in 1 .. MaxRetries + 1
    BY DEF LInv, RequestOK, RequestRows
  <2>2. req[q].attempt + 1 \in 1 .. MaxRetries + 1
    BY <1>2, <2>1, Bound
  <2>3. \A m : <<q, m>> \in outbox => m <= req[q].attempt /\ m \in 1 .. MaxRetries + 1
    BY DEF LInv, RequestOK, LedgerOK, Runs
  <2>4. \A m : <<q, m>> \in outbox => m <= req[q].attempt + 1
    BY <2>1, <2>3
  <2>5. <<q, req[q].attempt + 1>> \notin outbox
    BY <2>1, <2>3
  <2>6. RequestOK(q, Restarted(q, "list_records", req[q].attempt + 1), rec, keys, outbox)
    BY <2>1, <2>2, <2>4, <2>5, RolledBack
  <2>. QED BY <1>2, <2>6, Moves, RolledBackApart
<1>. QED BY <1>1, <1>2 DEF Conflict

-----------------------------------------------------------------------------
\* The copy is read, the command runs, and the flush compares.
LEMMA ReadingKeeps ==
  ASSUME LInv, NEW q \in Requests,
         Receive(q) \/ ListRecords(q) \/ ListKeys(q) \/ FlushRecords(q) \/ FlushKeys(q)
  PROVE  LInv'
<1>. DEFINE r == req[q]
<1>1. /\ r \in RequestRows /\ LedgerOK(rec, keys, outbox)
      /\ RequestOK(q, r, rec, keys, outbox) /\ UNCHANGED <<rec, keys, outbox>>
  BY DEF LInv, Receive, ListRecords, ListKeys, FlushRecords, FlushKeys
<1>2. \A p \in Requests \ {q} : Apart(req[p], r)
  BY DEF LInv
<1>3. ASSUME NEW s, Apart(s, r), NEW t, t.wrote = {} \/ t.wrote = r.wrote, t.claimed = FALSE
      PROVE  Apart(s, t)
  BY <1>3 DEF Apart
<1>4. CASE Receive(q)
  <2>1. PICK k \in Keys, h \in Hashes, b \in BOOLEAN :
          req' = [req EXCEPT ![q] = [r EXCEPT !.phase = "list_records", !.key = k, !.hash = h,
                                              !.idempotent = b]]
    BY <1>4 DEF Receive, LInv
  <2>. DEFINE t == [r EXCEPT !.phase = "list_records", !.key = k, !.hash = h, !.idempotent = b]
  <2>2. r.phase = "arriving"
    BY <1>4 DEF Receive
  <2>3. t \in RequestRows
    BY <1>1 DEF RequestRows, Phases
  <2>4. /\ t.phase = "list_records" /\ t.key = k /\ t.hash = h /\ t.attempt = r.attempt
        /\ t.base = r.base /\ t.known = r.known /\ t.want = r.want /\ t.wrote = r.wrote
        /\ t.claimed = r.claimed
    BY <1>1 DEF RequestRows
  <2>. HIDE DEF t
  <2>5. RequestOK(q, t, rec, keys, outbox) /\ t.wrote = {} /\ t.claimed = FALSE
    BY <1>1, <2>2, <2>3, <2>4 DEF RequestOK, RequestRows, Holding, Flushing, Uncommitted
  <2>6. \A p \in Requests \ {q} : Apart(req[p], t)
    BY <1>2, <1>3, <2>5
  <2>. QED BY <1>1, <2>1, <2>5, <2>6, Moves DEF t
<1>5. CASE ListRecords(q)
  <2>. DEFINE t == [r EXCEPT !.phase = "list_keys", !.base = rec]
  <2>1. r.phase = "list_records" /\ req' = [req EXCEPT ![q] = t]
    BY <1>5 DEF ListRecords, LInv
  <2>2. t \in RequestRows
    BY <1>1 DEF RequestRows, Phases, LedgerOK
  <2>3. /\ t.phase = "list_keys" /\ t.key = r.key /\ t.hash = r.hash /\ t.attempt = r.attempt
        /\ t.base = rec /\ t.known = r.known /\ t.want = r.want /\ t.wrote = r.wrote
        /\ t.claimed = r.claimed
    BY <1>1 DEF RequestRows
  <2>4. \A x \in Records : Past(rec[x], rec[x])
    <3>1. \A x \in Records : rec[x].version \in Nat
      BY <1>1 DEF LedgerOK, Rows
    <3>. QED BY <3>1 DEF Past
  <2>. HIDE DEF t
  <2>5. RequestOK(q, t, rec, keys, outbox) /\ t.wrote = {} /\ t.claimed = FALSE
    BY <1>1, <2>1, <2>2, <2>3, <2>4 DEF RequestOK, RequestRows, Holding, Flushing, Uncommitted
  <2>6. \A p \in Requests \ {q} : Apart(req[p], t)
    BY <1>2, <1>3, <2>5
  <2>. QED BY <1>1, <2>1, <2>5, <2>6, Moves
<1>6. CASE ListKeys(q)
  <2>. DEFINE t == [r EXCEPT !.phase = "command", !.known = keys[r.key]]
  <2>1. r.phase = "list_keys" /\ req' = [req EXCEPT ![q] = t] /\ r.key \in Keys
    BY <1>1, <1>6 DEF ListKeys, LInv, RequestOK
  <2>2. keys[r.key] \in KeyRows
    BY <1>1, <2>1 DEF LedgerOK
  <2>3. t \in RequestRows
    BY <1>1, <2>2 DEF RequestRows, Phases
  <2>4. /\ t.phase = "command" /\ t.key = r.key /\ t.hash = r.hash /\ t.attempt = r.attempt
        /\ t.base = r.base /\ t.known = keys[r.key] /\ t.want = r.want /\ t.wrote = r.wrote
        /\ t.claimed = r.claimed
    BY <1>1 DEF RequestRows
  <2>. HIDE DEF t
  <2>5. RequestOK(q, t, rec, keys, outbox) /\ t.wrote = {} /\ t.claimed = FALSE
    BY <1>1, <2>1, <2>3, <2>4 DEF RequestOK, RequestRows, Holding, Flushing, Uncommitted
  <2>6. \A p \in Requests \ {q} : Apart(req[p], t)
    BY <1>2, <1>3, <2>5
  <2>. QED BY <1>1, <2>1, <2>5, <2>6, Moves
<1>7. CASE FlushRecords(q)
  <2>1. CASE Conflict(q)
    BY <1>1, <1>7, <2>1, Conflicts DEF FlushRecords
  <2>2. CASE Advance(q, "flush_keys")
    <3>. DEFINE t == [r EXCEPT !.phase = "flush_keys"]
    <3>1. r.phase = "flush_records" /\ req' = [req EXCEPT ![q] = t]
      BY <1>7, <2>2 DEF FlushRecords, Advance, LInv
    <3>2. t \in RequestRows
      BY <1>1 DEF RequestRows, Phases
    <3>3. /\ t.phase = "flush_keys" /\ t.key = r.key /\ t.hash = r.hash /\ t.attempt = r.attempt
          /\ t.base = r.base /\ t.known = r.known /\ t.want = r.want /\ t.wrote = r.wrote
          /\ t.claimed = r.claimed
      BY <1>1 DEF RequestRows
    <3>. HIDE DEF t
    <3>4. RequestOK(q, t, rec, keys, outbox) /\ t.wrote = {} /\ t.claimed = FALSE
      BY <1>1, <3>1, <3>2, <3>3 DEF RequestOK, RequestRows, Holding, Flushing, Uncommitted
    <3>5. \A p \in Requests \ {q} : Apart(req[p], t)
      BY <1>2, <1>3, <3>4
    <3>. QED BY <1>1, <3>1, <3>4, <3>5, Moves
  <2>. QED BY <1>7, <2>1, <2>2 DEF FlushRecords
<1>8. CASE FlushKeys(q)
  <2>. DEFINE t == [r EXCEPT !.phase = "write", !.listed = keys[r.key] # None]
  <2>1. r.phase = "flush_keys" /\ req' = [req EXCEPT ![q] = t]
    BY <1>8 DEF FlushKeys, LInv
  <2>2. t \in RequestRows
    BY <1>1 DEF RequestRows, Phases
  <2>3. /\ t.phase = "write" /\ t.key = r.key /\ t.hash = r.hash /\ t.attempt = r.attempt
        /\ t.base = r.base /\ t.known = r.known /\ t.want = r.want /\ t.wrote = r.wrote
        /\ t.claimed = r.claimed
    BY <1>1 DEF RequestRows
  <2>. HIDE DEF t
  <2>4. RequestOK(q, t, rec, keys, outbox) /\ t.wrote = {} /\ t.claimed = FALSE
    BY <1>1, <2>1, <2>2, <2>3 DEF RequestOK, RequestRows, Holding, Flushing, Uncommitted
  <2>5. \A p \in Requests \ {q} : Apart(req[p], t)
    BY <1>2, <1>3, <2>4
  <2>. QED BY <1>1, <2>1, <2>4, <2>5, Moves
<1>. QED BY <1>4, <1>5, <1>6, <1>7, <1>8

\* The command replays, refuses or chooses what to change.
LEMMA CommandKeeps ==
  ASSUME LInv, NEW q \in Requests, Command(q) PROVE LInv'
<1>. DEFINE r == req[q]
<1>1. /\ r \in RequestRows /\ LedgerOK(rec, keys, outbox) /\ r.phase = "command"
      /\ RequestOK(q, r, rec, keys, outbox) /\ UNCHANGED <<rec, keys, outbox>>
  BY DEF LInv, Command
<1>2. \A p \in Requests \ {q} : Apart(req[p], r)
  BY DEF LInv
<1>3. CASE Refuse(q)
  BY <1>1, <1>3, Refuses
<1>4. CASE r.known # None /\ r.known.hash = r.hash /\ Answer(q, r.known.by)
  <2>. DEFINE t == [Restarted(q, "answered", r.attempt) EXCEPT !.answer = r.known.by]
  <2>1. /\ r.key \in Keys /\ r.hash \in Hashes /\ keys[r.key] = r.known
        /\ r.known \in [hash : Hashes, by : Runs] /\ r.attempt \in 1 .. MaxRetries + 1
    BY <1>1, <1>4 DEF RequestOK, RequestRows, KeyRows
  <2>2. r.known.by \in Runs /\ r.known = [hash |-> r.hash, by |-> r.known.by]
    BY <1>4, <2>1
  <2>3. t \in RequestRows
    BY <1>1, <2>1, <2>2, ArrivingType DEF Restarted, RequestRows, Phases
  <2>4. /\ t.phase = "answered" /\ t.key = r.key /\ t.hash = r.hash /\ t.attempt = r.attempt
        /\ t.base = Blank /\ t.known = None /\ t.want = {} /\ t.wrote = {} /\ t.claimed = FALSE
        /\ t.answer = r.known.by
    BY DEF Restarted, Arriving
  <2>5. \A x \in Records : Past(t.base[x], rec[x])
    BY <1>1, <2>4, BlankPast DEF Blank
  <2>6. req' = [req EXCEPT ![q] = t]
    BY <1>4 DEF Answer
  <2>. HIDE DEF t
  <2>7. RequestOK(q, t, rec, keys, outbox)
    BY <1>1, <1>4, <2>1, <2>2, <2>3, <2>4, <2>5 DEF RequestOK, Holding, Flushing, Uncommitted
  <2>8. \A p \in Requests \ {q} : Apart(req[p], t)
    BY <2>4 DEF Apart
  <2>. QED BY <1>1, <2>6, <2>7, <2>8, Moves
<1>5. ASSUME r.known = None, NEW xs \in SUBSET Records, xs # {},
             req' = [req EXCEPT ![q] = [r EXCEPT !.phase = "flush_records", !.want = xs]]
      PROVE  LInv'
  <2>. DEFINE t == [r EXCEPT !.phase = "flush_records", !.want = xs]
  <2>1. t \in RequestRows
    BY <1>1 DEF RequestRows, Phases
  <2>2. /\ t.phase = "flush_records" /\ t.key = r.key /\ t.hash = r.hash /\ t.attempt = r.attempt
        /\ t.base = r.base /\ t.known = r.known /\ t.want = xs /\ t.wrote = r.wrote
        /\ t.claimed = r.claimed
    BY <1>1 DEF RequestRows
  <2>. HIDE DEF t
  <2>3. RequestOK(q, t, rec, keys, outbox) /\ t.wrote = r.wrote /\ t.claimed = r.claimed
    BY <1>1, <1>5, <2>1, <2>2 DEF RequestOK, RequestRows, Holding, Flushing, Uncommitted
  <2>4. \A p \in Requests \ {q} : Apart(req[p], t)
    BY <1>2, <2>2, <2>3 DEF Apart
  <2>. QED BY <1>1, <1>5, <2>3, <2>4, Moves DEF t
<1>. QED BY <1>3, <1>4, <1>5 DEF Command, LInv

\* The transaction takes rows that are as it read them, then the key.
LEMMA WritingKeeps ==
  ASSUME LInv, NEW q \in Requests, WriteRecord(q) \/ ClaimKey(q) \/ Readback(q)
  PROVE  LInv'
<1>. DEFINE r == req[q]
<1>1. /\ r \in RequestRows /\ LedgerOK(rec, keys, outbox) /\ r.phase \in {"write", "readback"}
      /\ RequestOK(q, r, rec, keys, outbox) /\ UNCHANGED <<rec, keys, outbox>>
  BY DEF LInv, WriteRecord, ClaimKey, Readback
<1>2. \A p \in Requests \ {q} : Apart(req[p], r)
  BY DEF LInv
<1>3. CASE Refuse(q)
  BY <1>1, <1>3, Refuses
<1>4. CASE Conflict(q)
  BY <1>1, <1>4, Conflicts
<1>5. ASSUME r.phase = "write", NEW x \in Unwritten(q),
             \A p \in Requests \ {q} : x \notin req[p].wrote,
             rec[x].version = r.base[x].version,
             req' = [req EXCEPT ![q] = [r EXCEPT !.wrote = r.wrote \cup {x}]]
      PROVE  LInv'
  <2>. DEFINE t == [r EXCEPT !.wrote = r.wrote \cup {x}]
  <2>1. x \in Records /\ x \in r.want /\ r.want \subseteq Records
    BY <1>1 DEF RequestRows, Unwritten
  <2>2. r.base[x] = rec[x]
    BY <1>1, <1>5, <2>1 DEF RequestOK, Past
  <2>3. t \in RequestRows
    BY <1>1, <2>1 DEF RequestRows
  <2>4. /\ t.phase = "write" /\ t.key = r.key /\ t.hash = r.hash /\ t.attempt = r.attempt
        /\ t.base = r.base /\ t.known = r.known /\ t.want = r.want /\ t.wrote = r.wrote \cup {x}
        /\ t.claimed = r.claimed
    BY <1>1, <1>5 DEF RequestRows
  <2>. HIDE DEF t
  <2>5. RequestOK(q, t, rec, keys, outbox)
    BY <1>1, <1>5, <2>1, <2>2, <2>3, <2>4 DEF RequestOK, Holding, Flushing, Uncommitted
  <2>6. \A p \in Requests \ {q} : Apart(req[p], t)
    BY <1>2, <1>5, <2>4 DEF Apart
  <2>. QED BY <1>1, <1>5, <2>5, <2>6, Moves DEF t
<1>6. ASSUME r.phase = "write", Unwritten(q) = {},
             \A p \in Requests \ {q} : ~(req[p].claimed /\ req[p].key = r.key),
             req' = [req EXCEPT ![q] = [r EXCEPT !.phase = "readback",
                                                 !.claimed = keys[r.key] = None]]
      PROVE  LInv'
  <2>. DEFINE t == [r EXCEPT !.phase = "readback", !.claimed = keys[r.key] = None]
  <2>1. r.wrote = r.want
    BY <1>1, <1>6 DEF RequestOK, Unwritten
  <2>2. t \in RequestRows
    BY <1>1 DEF RequestRows, Phases
  <2>3. /\ t.phase = "readback" /\ t.key = r.key /\ t.hash = r.hash /\ t.attempt = r.attempt
        /\ t.base = r.base /\ t.known = r.known /\ t.want = r.want /\ t.wrote = r.wrote
        /\ t.claimed = (keys[r.key] = None)
    BY <1>1 DEF RequestRows
  <2>. HIDE DEF t
  <2>4. RequestOK(q, t, rec, keys, outbox)
    BY <1>1, <1>6, <2>1, <2>2, <2>3 DEF RequestOK, Holding, Flushing, Uncommitted
  <2>5. \A p \in Requests \ {q} : Apart(req[p], t)
    BY <1>2, <1>6, <2>3 DEF Apart
  <2>. QED BY <1>1, <1>6, <2>4, <2>5, Moves DEF t
<1>7. ASSUME r.phase = "readback", r.claimed,
             req' = [req EXCEPT ![q] = [r EXCEPT !.phase = "commit"]]
      PROVE  LInv'
  <2>. DEFINE t == [r EXCEPT !.phase = "commit"]
  <2>1. t \in RequestRows
    BY <1>1 DEF RequestRows, Phases
  <2>2. /\ t.phase = "commit" /\ t.key = r.key /\ t.hash = r.hash /\ t.attempt = r.attempt
        /\ t.base = r.base /\ t.known = r.known /\ t.want = r.want /\ t.wrote = r.wrote
        /\ t.claimed = r.claimed
    BY <1>1 DEF RequestRows
  <2>. HIDE DEF t
  <2>3. RequestOK(q, t, rec, keys, outbox)
    BY <1>1, <1>7, <2>1, <2>2 DEF RequestOK, Holding, Flushing, Uncommitted
  <2>4. \A p \in Requests \ {q} : Apart(req[p], t)
    BY <1>2, <2>2 DEF Apart
  <2>. QED BY <1>1, <1>7, <2>3, <2>4, Moves DEF t
<1>8. CASE WriteRecord(q)
  <2>1. PICK x \in Unwritten(q) :
          /\ \A p \in Requests \ {q} : x \notin req[p].wrote
          /\ IF rec[x].version = r.base[x].version
             THEN req' = [req EXCEPT ![q] = [@ EXCEPT !.wrote = r.wrote \cup {x}]]
             ELSE Conflict(q)
    BY <1>8 DEF WriteRecord
  <2>2. CASE rec[x].version = r.base[x].version
    <3>1. req' = [req EXCEPT ![q] = [r EXCEPT !.wrote = r.wrote \cup {x}]]
      <4>1. req' = [req EXCEPT ![q] = [@ EXCEPT !.wrote = r.wrote \cup {x}]]
        BY <2>1, <2>2
      <4>. QED BY <4>1 DEF LInv
    <3>2. r.phase = "write"
      BY <1>8 DEF WriteRecord
    <3>. QED BY <1>5, <2>1, <2>2, <3>1, <3>2
  <2>. QED BY <1>4, <2>1, <2>2
<1>9. CASE ClaimKey(q)
  BY <1>3, <1>6, <1>9 DEF ClaimKey, LInv
<1>10. CASE Readback(q)
  BY <1>4, <1>7, <1>10 DEF Readback, Advance, LInv
<1>. QED BY <1>8, <1>9, <1>10

-----------------------------------------------------------------------------
\* What a commit does to the tables: only rows and a key that it holds.
CommitFacts(q) ==
  /\ req[q].want # {} /\ req[q].want \subseteq Records
  /\ req[q].key \in Keys /\ req[q].hash \in Hashes /\ keys[req[q].key] = None
  /\ RunOf(q) \in Runs /\ RunOf(q) \notin outbox
  /\ rec' = [x \in Records |-> IF x \in req[q].want
                              THEN [version |-> rec[x].version + 1, by |-> rec[x].by \cup {RunOf(q)}]
                              ELSE rec[x]]
  /\ keys' = [keys EXCEPT ![req[q].key] = [hash |-> req[q].hash, by |-> RunOf(q)]]
  /\ outbox' = outbox \cup {RunOf(q)}

LEMMA CommitWritesWhatItHolds ==
  ASSUME LInv, NEW q \in Requests, Commit(q) PROVE CommitFacts(q)
<1>1. /\ RequestOK(q, req[q], rec, keys, outbox) /\ req[q] \in RequestRows
      /\ req[q].phase = "commit"
  BY DEF LInv, Commit
<1>2. /\ req[q].wrote = req[q].want /\ req[q].want # {} /\ req[q].want \subseteq Records
      /\ req[q].key \in Keys /\ req[q].hash \in Hashes /\ keys[req[q].key] = None
      /\ \A x \in req[q].wrote : req[q].base[x] = rec[x]
  BY <1>1 DEF RequestOK, RequestRows, Flushing, Holding
<1>3. RunOf(q) \in Runs /\ RunOf(q) \notin outbox
  BY <1>1 DEF RequestOK, RequestRows, RunOf, Runs, Uncommitted, Flushing, Holding
<1>4. \A x \in Records : View(q)[x] = IF x \in req[q].want
                              THEN [version |-> rec[x].version + 1, by |-> rec[x].by \cup {RunOf(q)}]
                              ELSE rec[x]
  BY <1>2 DEF View, Source
<1>5. rec' = [x \in Records |-> IF x \in req[q].want
                              THEN [version |-> rec[x].version + 1, by |-> rec[x].by \cup {RunOf(q)}]
                              ELSE rec[x]]
  BY <1>4 DEF Commit, View
<1>. QED BY <1>2, <1>3, <1>5 DEF Commit, CommitFacts

LEMMA CommitTables ==
  ASSUME LInv, NEW q \in Requests, CommitFacts(q)
  PROVE  /\ LedgerOK(rec', keys', outbox')
         /\ \A x \in Records : Past(rec[x], rec'[x])
<1>1. LedgerOK(rec, keys, outbox) /\ \A x \in Records : rec[x] \in Rows
  BY DEF LInv, LedgerOK
<1>2. \A x \in Records : rec[x].version \in Nat /\ rec[x].by \subseteq Runs
  BY <1>1 DEF Rows
<1>3. rec' \in [Records -> Rows]
  BY <1>1, <1>2 DEF CommitFacts, Rows
<1>4. [hash |-> req[q].hash, by |-> RunOf(q)] \in KeyRows
  BY DEF CommitFacts, KeyRows
<1>5. keys' \in [Keys -> KeyRows] /\ outbox' \subseteq Runs
  BY <1>1, <1>4 DEF CommitFacts, LedgerOK
<1>6. \A x \in Records : rec'[x].version = 0 => rec'[x] = Absent
  BY <1>1, <1>2 DEF CommitFacts, LedgerOK
<1>7. \A x \in Records : rec[x].by \subseteq rec'[x].by
  BY DEF CommitFacts
<1>8. ASSUME NEW k \in Keys, keys'[k] # None
      PROVE  keys'[k].by \in outbox' /\ \E x \in Records : keys'[k].by \in rec'[x].by
  <2>1. CASE k = req[q].key
    <3>1. keys'[k].by = RunOf(q)
      BY <1>1, <2>1 DEF CommitFacts, LedgerOK
    <3>2. PICK x \in req[q].want : TRUE
      BY DEF CommitFacts
    <3>3. x \in Records /\ RunOf(q) \in rec'[x].by
      BY <3>2 DEF CommitFacts
    <3>4. keys'[k].by \in outbox'
      BY <3>1 DEF CommitFacts
    <3>. QED BY <3>1, <3>3, <3>4
  <2>2. CASE k # req[q].key
    <3>1. keys'[k] = keys[k]
      BY <1>1, <2>2 DEF CommitFacts, LedgerOK
    <3>2. keys[k].by \in outbox /\ \E x \in Records : keys[k].by \in rec[x].by
      BY <1>1, <1>8, <3>1 DEF LedgerOK
    <3>. QED BY <1>7, <3>1, <3>2 DEF CommitFacts
  <2>. QED BY <2>1, <2>2
<1>9. LedgerOK(rec', keys', outbox')
  BY <1>3, <1>5, <1>6, <1>8 DEF LedgerOK
<1>10. ASSUME NEW x \in Records PROVE Past(rec[x], rec'[x])
  <2>1. rec'[x] = rec[x] \/ rec'[x].version = rec[x].version + 1
    BY DEF CommitFacts
  <2>. QED BY <1>2, <2>1 DEF Past
<1>. QED BY <1>9, <1>10

LEMMA PastPasses ==
  ASSUME NEW a, NEW b \in Rows, NEW c \in Rows, a \in Rows, Past(a, b), Past(b, c)
  PROVE  Past(a, c)
BY DEF Past, Rows

LEMMA CommitOthers ==
  ASSUME LInv, NEW q \in Requests, CommitFacts(q), req[q].wrote = req[q].want, req[q].claimed,
         NEW p \in Requests, p # q
  PROVE  RequestOK(p, req[p], rec', keys', outbox')
<1>. DEFINE r == req[p]
<1>1. /\ r \in RequestRows /\ RequestOK(p, r, rec, keys, outbox) /\ Apart(r, req[q])
      /\ LedgerOK(rec, keys, outbox) /\ LedgerOK(rec', keys', outbox')
  BY CommitTables DEF LInv
<1>2. ASSUME NEW x \in Records PROVE Past(r.base[x], rec'[x])
  <2>1. Past(r.base[x], rec[x]) /\ Past(rec[x], rec'[x])
    BY <1>1, CommitTables DEF RequestOK
  <2>2. r.base[x] \in Rows /\ rec[x] \in Rows /\ rec'[x] \in Rows
    BY <1>1 DEF RequestRows, LedgerOK
  <2>. QED BY <2>1, <2>2, PastPasses
<1>3. \A x \in r.wrote : r.base[x] = rec'[x]
  <2>1. \A x \in r.wrote : x \notin req[q].want /\ x \in Records
    BY <1>1 DEF Apart, RequestRows
  <2>2. \A x \in r.wrote : r.base[x] = rec[x]
    BY <1>1 DEF RequestOK
  <2>. QED BY <2>1, <2>2 DEF CommitFacts
<1>4. \A k \in Keys : k # req[q].key => keys'[k] = keys[k]
  BY <1>1 DEF CommitFacts, LedgerOK
<1>5. r.phase # "arriving" => r.key \in Keys
  BY <1>1 DEF RequestOK
<1>6. r.claimed => keys'[r.key] = None
  <2>1. r.claimed => keys[r.key] = None /\ r.key # req[q].key /\ r.phase # "arriving"
    BY <1>1 DEF RequestOK, Apart
  <2>. QED BY <1>4, <1>5, <2>1
<1>7. r.known # None => r.phase = "command" /\ keys'[r.key] = r.known
  <2>1. r.known # None => r.phase = "command" /\ keys[r.key] = r.known
    BY <1>1 DEF RequestOK
  <2>. QED BY <1>4, <1>5, <2>1 DEF CommitFacts
<1>8. \A n : <<p, n>> \in outbox' <=> <<p, n>> \in outbox
  BY DEF CommitFacts, RunOf
<1>9. r.phase = "verify" => /\ keys'[r.key] # None
                            /\ keys'[r.key] = [hash |-> r.hash, by |-> <<p, r.attempt>>]
  <2>1. r.phase = "verify" => /\ keys[r.key] # None
                              /\ keys[r.key] = [hash |-> r.hash, by |-> <<p, r.attempt>>]
    BY <1>1 DEF RequestOK
  <2>. QED BY <1>4, <1>5, <2>1 DEF CommitFacts
<1>10. r.phase = "answered" => keys'[r.key] # None /\ keys'[r.key] = [hash |-> r.hash, by |-> r.answer]
  <2>1. r.phase = "answered" => keys[r.key] # None /\ keys[r.key] = [hash |-> r.hash, by |-> r.answer]
    BY <1>1 DEF RequestOK
  <2>. QED BY <1>4, <1>5, <2>1 DEF CommitFacts
<1>. HIDE DEF r
<1>11. RequestOK(p, r, rec', keys', outbox')
  BY <1>1, <1>2, <1>3, <1>6, <1>7, <1>8, <1>9, <1>10 DEF RequestOK
<1>. QED BY <1>11 DEF r

LEMMA CommitKeeps ==
  ASSUME LInv, NEW q \in Requests, Commit(q) PROVE LInv'
<1>. DEFINE r == req[q]
<1>1. /\ r \in RequestRows /\ RequestOK(q, r, rec, keys, outbox) /\ r.phase = "commit"
      /\ r.wrote = r.want /\ r.claimed
  BY DEF LInv, Commit, RequestOK
<1>2. CommitFacts(q)
  BY CommitWritesWhatItHolds
<1>3. LedgerOK(rec', keys', outbox') /\ LedgerOK(rec, keys, outbox)
  BY <1>2, CommitTables DEF LInv
<1>4. \A p \in Requests : p # q => RequestOK(p, req[p], rec', keys', outbox')
  BY <1>1, <1>2, CommitOthers
<1>5. r.attempt \in 1 .. MaxRetries + 1 /\ r.key \in Keys /\ r.hash \in Hashes
  BY <1>1 DEF RequestOK, RequestRows
<1>6. \A n : <<q, n>> \in outbox' => n <= r.attempt
  <2>1. \A n : <<q, n>> \in outbox => n <= r.attempt
    BY <1>1 DEF RequestOK
  <2>2. \A n : <<q, n>> = RunOf(q) => n = r.attempt
    BY DEF RunOf
  <2>3. r.attempt <= r.attempt
    BY <1>5
  <2>. QED BY <1>2, <2>1, <2>2, <2>3 DEF CommitFacts
<1>7. ASSUME NEW t, RequestOK(q, t, rec', keys', outbox'), t.wrote = {}, t.claimed = FALSE,
             req' = [req EXCEPT ![q] = t]
      PROVE  LInv'
  <2>1. t \in RequestRows
    BY <1>7 DEF RequestOK
  <2>2. req' \in [Requests -> RequestRows] /\ req'[q] = t
        /\ \A p \in Requests \ {q} : req'[p] = req[p]
    BY <1>7, <2>1 DEF LInv
  <2>3. \A p \in Requests : RequestOK(p, req'[p], rec', keys', outbox')
    BY <1>4, <1>7, <2>2
  <2>4. ASSUME NEW p \in Requests, NEW s \in Requests, p # s PROVE Apart(req'[p], req'[s])
    <3>1. Apart(req[p], req[s])
      BY <2>4 DEF LInv
    <3>2. p = q \/ s = q => Apart(req'[p], req'[s])
      BY <1>7, <2>2, <2>4 DEF Apart
    <3>. QED BY <2>2, <3>1, <3>2
  <2>. QED BY <1>3, <2>2, <2>3, <2>4 DEF LInv
<1>8. CASE Refuse(q)
  <2>. DEFINE t == Restarted(q, "refused", r.attempt)
  <2>1. RequestOK(q, t, rec', keys', outbox')
    BY <1>1, <1>3, <1>5, <1>6, RolledBack
  <2>2. t.wrote = {} /\ t.claimed = FALSE
    BY DEF Restarted, Arriving
  <2>. QED BY <1>7, <1>8, <2>1, <2>2 DEF Refuse
<1>9. CASE req' = [req EXCEPT ![q] = [@ EXCEPT !.phase = "verify", !.wrote = {}, !.claimed = FALSE]]
  <2>. DEFINE t == [r EXCEPT !.phase = "verify", !.wrote = {}, !.claimed = FALSE]
  <2>1. req' = [req EXCEPT ![q] = t]
    BY <1>9 DEF LInv
  <2>2. t \in RequestRows
    BY <1>1 DEF RequestRows, Phases
  <2>3. /\ t.phase = "verify" /\ t.key = r.key /\ t.hash = r.hash /\ t.attempt = r.attempt
        /\ t.base = r.base /\ t.known = r.known /\ t.want = r.want /\ t.wrote = {}
        /\ t.claimed = FALSE
    BY <1>1 DEF RequestRows
  <2>4. ASSUME NEW x \in Records PROVE Past(r.base[x], rec'[x])
    <3>1. Past(r.base[x], rec[x]) /\ Past(rec[x], rec'[x])
      BY <1>1, <1>2, CommitTables DEF RequestOK
    <3>2. r.base[x] \in Rows /\ rec[x] \in Rows /\ rec'[x] \in Rows
      BY <1>1, <1>3 DEF RequestRows, LedgerOK
    <3>. QED BY <3>1, <3>2, PastPasses
  <2>5. /\ keys'[r.key] = [hash |-> r.hash, by |-> <<q, r.attempt>>]
        /\ keys'[r.key] # None
    <3>1. keys'[r.key] = [hash |-> r.hash, by |-> RunOf(q)]
      BY <1>2, <1>3, <1>5 DEF CommitFacts, LedgerOK
    <3>2. [hash |-> r.hash, by |-> RunOf(q)] \in [hash : Hashes, by : Runs]
      BY <1>2 DEF CommitFacts
    <3>. QED BY <3>1, <3>2, LedgerAssumption DEF RunOf, Runs
  <2>6. r.known = None
    BY <1>1 DEF RequestOK
  <2>. HIDE DEF t
  <2>7. RequestOK(q, t, rec', keys', outbox')
    BY <1>5, <1>6, <2>2, <2>3, <2>4, <2>5, <2>6 DEF RequestOK, Holding, Flushing, Uncommitted
  <2>. QED BY <1>7, <2>1, <2>3, <2>7
<1>. QED BY <1>8, <1>9 DEF Commit

LEMMA VerifyKeeps ==
  ASSUME LInv, NEW q \in Requests, Verify(q) PROVE LInv'
<1>. DEFINE r == req[q]
<1>1. /\ r \in RequestRows /\ RequestOK(q, r, rec, keys, outbox) /\ r.phase = "verify"
      /\ LedgerOK(rec, keys, outbox) /\ UNCHANGED <<rec, keys, outbox>>
  BY DEF LInv, Verify
<1>2. CASE Conflict(q)
  BY <1>1, <1>2, Conflicts
<1>3. CASE Answer(q, RunOf(q))
  <2>. DEFINE t == [Restarted(q, "answered", r.attempt) EXCEPT !.answer = RunOf(q)]
  <2>1. r.key \in Keys /\ r.hash \in Hashes /\ r.attempt \in 1 .. MaxRetries + 1
    BY <1>1 DEF RequestOK, RequestRows
  <2>2. RunOf(q) \in Runs /\ RunOf(q) = <<q, r.attempt>>
    BY <2>1 DEF RunOf, Runs
  <2>3. t \in RequestRows
    BY <1>1, <2>1, <2>2, ArrivingType DEF Restarted, RequestRows, Phases
  <2>4. /\ t.phase = "answered" /\ t.key = r.key /\ t.hash = r.hash /\ t.attempt = r.attempt
        /\ t.base = Blank /\ t.known = None /\ t.want = {} /\ t.wrote = {} /\ t.claimed = FALSE
        /\ t.answer = RunOf(q)
    BY DEF Restarted, Arriving
  <2>5. \A x \in Records : Past(t.base[x], rec[x])
    BY <1>1, <2>4, BlankPast DEF Blank
  <2>6. req' = [req EXCEPT ![q] = t]
    BY <1>3 DEF Answer
  <2>. HIDE DEF t
  <2>7. RequestOK(q, t, rec, keys, outbox)
    BY <1>1, <2>1, <2>2, <2>3, <2>4, <2>5 DEF RequestOK, Holding, Flushing, Uncommitted
  <2>8. \A p \in Requests \ {q} : Apart(req[p], t)
    BY <2>4 DEF Apart
  <2>. QED BY <1>1, <2>6, <2>7, <2>8, Moves
<1>. QED BY <1>2, <1>3 DEF Verify

LEMMA LInvStep == LInv /\ [Next]_vars => LInv'
<1>. SUFFICES ASSUME LInv, [Next]_vars PROVE LInv'
  OBVIOUS
<1>1. CASE UNCHANGED vars
  BY <1>1 DEF vars, LInv
<1>2. ASSUME NEW q \in Requests, Receive(q) PROVE LInv'
  BY <1>2, ReadingKeeps
<1>3. ASSUME NEW q \in Requests, Step(q) PROVE LInv'
  BY <1>3, ReadingKeeps, CommandKeeps, WritingKeeps, CommitKeeps, VerifyKeeps DEF Step
<1>4. ASSUME NEW q \in Requests, Interrupt(q) PROVE LInv'
  BY <1>4, Refuses DEF Interrupt
<1>. QED BY <1>1, <1>2, <1>3, <1>4 DEF Next

THEOREM LInvHolds == Spec => []LInv
BY LInvInit, LInvStep, PTL DEF Spec

-----------------------------------------------------------------------------
\* The tables and the requests are well formed.
THEOREM LedgerTypes == Spec => []TypeOK
<1>1. LInv => TypeOK
  BY DEF LInv, LedgerOK, TypeOK
<1>. QED BY <1>1, LInvHolds, PTL

\* An answered request has the answer of the run that took effect under its key.
THEOREM TrueAnswers == Spec => []AnswersAreTrue
<1>1. LInv => AnswersAreTrue
  <2>. SUFFICES ASSUME LInv, NEW q \in Requests, req[q].phase = "answered"
                PROVE  /\ keys[req[q].key] # None
                       /\ keys[req[q].key] = [hash |-> req[q].hash, by |-> req[q].answer]
                       /\ req[q].answer \in outbox
                       /\ \E x \in Records : req[q].answer \in rec[x].by
    BY DEF AnswersAreTrue
  <2>1. /\ keys[req[q].key] # None /\ req[q].key \in Keys
        /\ keys[req[q].key] = [hash |-> req[q].hash, by |-> req[q].answer]
    BY DEF LInv, RequestOK
  <2>2. /\ keys[req[q].key].by \in outbox
        /\ \E x \in Records : keys[req[q].key].by \in rec[x].by
    BY <2>1 DEF LInv, LedgerOK
  <2>3. keys[req[q].key].by = req[q].answer
    BY <2>1
  <2>. QED BY <2>1, <2>2, <2>3
<1>. QED BY <1>1, LInvHolds, PTL

LEMMA PromiseInit == Init => Promise!Init
BY DEF Init, Promise!Init, Absent

\* A commit is a step of LedgerPromise; every other step is invisible to it.
LEMMA PromiseStep == LInv /\ [Next]_vars => [Promise!Next]_(Promise!vars)
<1>. SUFFICES ASSUME LInv, [Next]_vars PROVE Promise!Next \/ UNCHANGED Promise!vars
  OBVIOUS
<1>1. CASE UNCHANGED <<rec, keys, outbox>>
  BY <1>1 DEF Promise!vars
<1>2. ASSUME NEW q \in Requests, Commit(q) PROVE Promise!Next
  <2>1. CommitFacts(q) /\ LedgerOK(rec, keys, outbox)
    BY <1>2, CommitWritesWhatItHolds DEF LInv
  <2>. DEFINE k == req[q].key
              xs == req[q].want
              row == [hash |-> req[q].hash, by |-> RunOf(q)]
  <2>2. k \in Keys /\ xs \in SUBSET Records /\ xs # {} /\ RunOf(q) \in Runs
    BY <2>1 DEF CommitFacts
  <2>3. row # None
    BY <2>1, LedgerAssumption DEF CommitFacts, Runs
  <2>4. [x \in Records |-> rec'[x].by]
          = [x \in Records |-> IF x \in xs THEN [y \in Records |-> rec[y].by][x] \cup {RunOf(q)}
                              ELSE [y \in Records |-> rec[y].by][x]]
    BY <2>1 DEF CommitFacts
  <2>5. [j \in Keys |-> IF keys'[j] = None THEN None ELSE keys'[j].by]
          = [[j \in Keys |-> IF keys[j] = None THEN None ELSE keys[j].by] EXCEPT ![k] = RunOf(q)]
    <3>1. keys'[k] = row /\ \A j \in Keys : j # k => keys'[j] = keys[j]
      BY <2>1 DEF CommitFacts, LedgerOK
    <3>2. \A j \in Keys : (IF keys'[j] = None THEN None ELSE keys'[j].by)
                            = (IF j = k THEN RunOf(q) ELSE IF keys[j] = None THEN None ELSE keys[j].by)
      BY <2>3, <3>1
    <3>. QED BY <2>2, <3>2
  <2>6. keys[k] = None /\ RunOf(q) \notin outbox /\ outbox' = outbox \cup {RunOf(q)}
    BY <2>1 DEF CommitFacts
  <2>. HIDE DEF k, xs, row
  <2>7. PICK run \in Runs, key \in Keys, ys \in SUBSET Records : run = RunOf(q) /\ key = k /\ ys = xs
    BY <2>2
  <2>8. Promise!TakeEffect(run, key, ys)
    BY <2>2, <2>4, <2>5, <2>6, <2>7 DEF Promise!TakeEffect
  <2>. QED BY <2>8 DEF Promise!Next
<1>3. \/ UNCHANGED <<rec, keys, outbox>>
      \/ \E q \in Requests : Commit(q)
  BY DEF Next, Step, vars, Receive, Interrupt, ListRecords, ListKeys, Command, FlushRecords,
     FlushKeys, WriteRecord, ClaimKey, Readback, Verify
<1>. QED BY <1>1, <1>2, <1>3

\* Each key takes effect once, whole and for good, for any number of requests,
\* keys, records and retries.
THEOREM PromiseKept == Spec => ImplementsPromise
BY PromiseInit, PromiseStep, LInvHolds, PTL DEF Spec, ImplementsPromise, Promise!Spec

-----------------------------------------------------------------------------
\* Records, keys and announcements tell the same story.
Agree ==
  /\ \A x \in Records : rec[x].by \subseteq outbox
  /\ \A r \in outbox : /\ \E x \in Records : r \in rec[x].by
                       /\ \E k \in Keys : keys[k] # None /\ keys[k].by = r
  /\ \A j, k \in Keys : keys[j] # None /\ keys[k] # None /\ keys[j].by = keys[k].by => j = k

\* No command is done by half: a run that changed a record or was announced did both
\* and holds its key, and no run holds two (flushDomainSnapshotToScopedLedger, whatever
\* interrupts it and however often it is run again).
THEOREM NothingByHalf == Spec => []Agree
<1>1. ASSUME Init PROVE Agree
  BY <1>1 DEF Init, Agree, Absent
<1>2. ASSUME LInv, Agree, UNCHANGED <<rec, keys, outbox>> PROVE Agree'
  BY <1>2 DEF Agree
<1>3. ASSUME LInv, Agree, NEW q \in Requests, Commit(q) PROVE Agree'
  <2>. DEFINE run == RunOf(q)
              key == req[q].key
  <2>1. /\ req[q].want # {} /\ req[q].want \subseteq Records /\ run \notin outbox
        /\ key \in Keys /\ keys[key] = None /\ outbox' = outbox \cup {run}
        /\ \A x \in Records : rec'[x].by = IF x \in req[q].want THEN rec[x].by \cup {run}
                                         ELSE rec[x].by
    <3>1. CommitFacts(q)
      BY <1>3, CommitWritesWhatItHolds
    <3>2. ASSUME NEW x \in Records
          PROVE  rec'[x].by = IF x \in req[q].want THEN rec[x].by \cup {run} ELSE rec[x].by
      BY <3>1, <3>2 DEF CommitFacts
    <3>3. /\ req[q].want # {} /\ req[q].want \subseteq Records /\ run \notin outbox
          /\ key \in Keys /\ keys[key] = None /\ outbox' = outbox \cup {run}
      BY <3>1 DEF CommitFacts
    <3>. QED BY <3>2, <3>3
  <2>2. /\ keys'[key] = [hash |-> req[q].hash, by |-> run]
        /\ \A k \in Keys : k # key => keys'[k] = keys[k]
    BY <1>3, <2>1, CommitWritesWhatItHolds DEF CommitFacts, LInv, LedgerOK
  <2>3. [hash |-> req[q].hash, by |-> run] # None
    BY <1>3, CommitWritesWhatItHolds, LedgerAssumption DEF CommitFacts, Runs
  <2>4. keys'[key] # None /\ keys'[key].by = run
    BY <2>2, <2>3
  <2>5. \A k \in Keys : keys[k] # None => keys[k].by \in outbox
    BY <1>3 DEF LInv, LedgerOK
  <2>. HIDE DEF run, key
  <2>6. \A x \in Records : rec'[x].by \subseteq outbox'
    BY <1>3, <2>1 DEF Agree
  <2>7. ASSUME NEW r \in outbox'
        PROVE  /\ \E x \in Records : r \in rec'[x].by
               /\ \E k \in Keys : keys'[k] # None /\ keys'[k].by = r
    <3>1. CASE r = run
      BY <2>1, <2>4, <3>1
    <3>2. CASE r # run
      <4>1. r \in outbox
        BY <2>1, <3>2
      <4>2. PICK x \in Records, k \in Keys : r \in rec[x].by /\ keys[k] # None /\ keys[k].by = r
        BY <1>3, <4>1 DEF Agree
      <4>3. k # key /\ r \in rec'[x].by
        BY <2>1, <4>2
      <4>. QED BY <2>2, <4>2, <4>3
    <3>. QED BY <3>1, <3>2
  <2>8. ASSUME NEW j \in Keys, NEW k \in Keys, keys'[j] # None, keys'[k] # None,
               keys'[j].by = keys'[k].by
        PROVE  j = k
    BY <1>3, <2>1, <2>2, <2>4, <2>5, <2>8 DEF Agree
  <2>. QED BY <2>6, <2>7, <2>8 DEF Agree
<1>4. LInv /\ Agree /\ [Next]_vars => Agree'
  BY <1>2, <1>3 DEF Next, Step, vars, Receive, Interrupt, ListRecords, ListKeys, Command,
     FlushRecords, FlushKeys, WriteRecord, ClaimKey, Readback, Verify
<1>. QED BY <1>1, <1>4, LInvHolds, PTL DEF Spec

=============================================================================
