---------------------- MODULE DocusignCompletionProofs ----------------------
(* The types and the safety of DocusignCompletion, for any number of workers,
   digests, mishaps and generations. *)
EXTENDS DocusignCompletion, TLAPS

\* Places of the loop at which a worker has an artifact in hand, and its bytes.
Looping == {"loop", "downloaded", "readback", "recover", "begin",
            "claimed", "validate", "ingest", "stored"}
Downloaded == Looping \ {"loop"}

\* What a worker knows of the store stays true, for the store never changes what
\* it holds: it does not need the fence.
JobOK(r, st) ==
  /\ r.pc \in Looping => r.kind \in Kinds
  /\ r.pc \in Downloaded => r.sha \in Digests
  /\ r.pc \in {"readback", "recover"} => r.seen \in Operations
  /\ r.pc = "recover" => st[r.seen.kind] = r.seen.sha
  /\ r.pc = "stored" => st[r.kind] = r.sha

CInv ==
  /\ TypeOK
  /\ RecordedIsStored
  /\ OperationIsForMissing
  /\ row.state = "completed" => Done(row) = Kinds
  /\ \A w \in Workers : JobOK(work[w], store)

\* What a step may do to the row: recorded artifacts stay, and the row is completed
\* only with both of them.
RowMoves ==
  /\ \A k \in Kinds : row.recorded[k] # None => row'.recorded[k] = row.recorded[k]
  /\ row'.state = "completed" => Done(row') = Kinds

\* A row that may be written, with the store as it then is.
RowFits(r, st) ==
  /\ r \in Rows
  /\ \A k \in Kinds : r.recorded[k] # None => st[k] = r.recorded[k]
  /\ \A k \in Kinds : row.recorded[k] # None => r.recorded[k] = row.recorded[k]
  /\ r.op # None => r.recorded[r.op.kind] = None
  /\ r.state = "completed" => Done(r) = Kinds

\* The artifact store is immutable.
StoreMoves(st) ==
  /\ st \in [Kinds -> Digests \cup {None}]
  /\ \A k \in Kinds : store[k] # None => st[k] = store[k]

-----------------------------------------------------------------------------

LEMMA CInvInit == Init => CInv
<1> SUFFICES ASSUME Init PROVE CInv
  OBVIOUS
<1>1. Idle \in Jobs /\ JobOK(Idle, store)
  BY DEF Idle, Jobs, Phases, JobOK, Looping, Downloaded
<1>2. row \in Rows /\ RecordedIsStored /\ OperationIsForMissing /\ row.state # "completed"
  BY DEF Init, Rows, RecordedIsStored, OperationIsForMissing
<1>3. TypeOK
  BY <1>1, <1>2 DEF Init, TypeOK
<1> QED
  BY <1>1, <1>2, <1>3 DEF CInv, Init

LEMMA Types ==
  ASSUME CInv
  PROVE  /\ row \in Rows /\ store \in [Kinds -> Digests \cup {None}]
         /\ work \in [Workers -> Jobs] /\ mishaps \subseteq Mishaps
         /\ RowFits(row, store) /\ StoreMoves(store)
         /\ \A w \in Workers : work[w] \in Jobs /\ JobOK(work[w], store)
BY DEF CInv, TypeOK, RowFits, StoreMoves, RecordedIsStored, OperationIsForMissing

\* What a worker knows of the store stays true.
LEMMA JobStays ==
  ASSUME NEW r \in Jobs, JobOK(r, store), NEW st, StoreMoves(st)
  PROVE  JobOK(r, st)
BY CompletionAssumption DEF JobOK, StoreMoves, Operations, Looping, Downloaded

LEMMA Keeps ==
  ASSUME CInv, RowFits(row', store'), StoreMoves(store'), mishaps' \subseteq Mishaps,
         work' \in [Workers -> Jobs],
         \A w \in Workers : work'[w] = work[w] \/ JobOK(work'[w], store')
  PROVE  CInv' /\ RowMoves
<1>1. \A w \in Workers : JobOK(work'[w], store')
  BY JobStays, Types
<1>2. TypeOK'
  BY DEF TypeOK, RowFits, StoreMoves
<1>3. RecordedIsStored' /\ OperationIsForMissing' /\ (row'.state = "completed" => Done(row') = Kinds)
  BY DEF RowFits, RecordedIsStored, OperationIsForMissing
<1>4. RowMoves
  BY DEF RowFits, RowMoves
<1>5. (row.state = "completed" => Done(row) = Kinds)'
  BY <1>3
<1> QED
  BY <1>1, <1>2, <1>3, <1>4, <1>5 DEF CInv

\* A worker goes on with r.
LEMMA WorkerKeeps ==
  ASSUME CInv, NEW w \in Workers, NEW r \in Jobs, JobOK(r, store'),
         work' = [work EXCEPT ![w] = r],
         RowFits(row', store'), StoreMoves(store'), mishaps' \subseteq Mishaps
  PROVE  CInv' /\ RowMoves
<1>1. work' \in [Workers -> Jobs] /\ \A v \in Workers : work'[v] = work[v] \/ work'[v] = r
  BY Types
<1> QED
  BY <1>1, Keeps

LEMMA HappensOne == ASSUME CInv, NEW m \in Mishaps, Happens(m) PROVE mishaps' \subseteq Mishaps
BY Types DEF Happens

LEMMA IdleFits == Idle \in Jobs /\ \A st : JobOK(Idle, st)
BY DEF Idle, Jobs, Phases, JobOK, Looping, Downloaded

\* Another place with the row r: the artifact in hand and its bytes stay.
Gone(w, pc, r) == [work[w] EXCEPT !.pc = pc, !.seen = r.op, !.done = Done(r)]

LEMMA GoneFits ==
  ASSUME CInv, NEW w \in Workers, NEW pc \in Phases, NEW r \in Rows
  PROVE  /\ Gone(w, pc, r) \in Jobs
         /\ Gone(w, pc, r).pc = pc /\ Gone(w, pc, r).kind = work[w].kind
         /\ Gone(w, pc, r).sha = work[w].sha /\ Gone(w, pc, r).seen = r.op
<1>1. work[w] \in Jobs /\ Done(r) \subseteq Kinds /\ r.op \in Operations \cup {None}
  BY Types DEF Done, Rows
<1> QED
  BY <1>1 DEF Gone, Jobs

\* A place alone is changed.
LEMMA PlaceFits ==
  ASSUME CInv, NEW w \in Workers, NEW pc \in Phases
  PROVE  /\ [work[w] EXCEPT !.pc = pc] \in Jobs
         /\ [work[w] EXCEPT !.pc = pc].pc = pc /\ [work[w] EXCEPT !.pc = pc].kind = work[w].kind
         /\ [work[w] EXCEPT !.pc = pc].sha = work[w].sha
         /\ [work[w] EXCEPT !.pc = pc].seen = work[w].seen
<1>1. work[w] \in Jobs
  BY Types
<1> QED
  BY <1>1 DEF Jobs

\* The next artifact, or the end of the loop.
NextJob(w, r) ==
  [pc |-> IF After(work[w].kind) = "none" THEN "finish" ELSE "loop",
   kind |-> After(work[w].kind), sha |-> None, seen |-> r.op, done |-> Done(r)]

LEMMA NextFits ==
  ASSUME CInv, NEW w \in Workers, NEW r \in Rows
  PROVE  NextJob(w, r) \in Jobs /\ \A st : JobOK(NextJob(w, r), st)
<1>1. Done(r) \subseteq Kinds /\ r.op \in Operations \cup {None}
  BY DEF Done, Rows
<1>2. After(work[w].kind) \in {"certificate", "none"}
  BY DEF After
<1>3. CASE After(work[w].kind) = "none"
  BY <1>1, <1>3 DEF NextJob, Jobs, Phases, JobOK, Looping, Downloaded
<1>4. CASE After(work[w].kind) = "certificate"
  BY <1>1, <1>4 DEF NextJob, Jobs, Phases, JobOK, Looping, Downloaded, Kinds
<1> QED
  BY <1>2, <1>3, <1>4

-----------------------------------------------------------------------------
(* Steps that leave the row and the store alone. *)

LEMMA ReadingKeeps ==
  ASSUME CInv, NEW w \in Workers, UNCHANGED <<row, store>>, mishaps' \subseteq Mishaps,
         NEW r \in Jobs, JobOK(r, store), work' = [work EXCEPT ![w] = r]
  PROVE  CInv' /\ RowMoves
BY Types, WorkerKeeps

LEMMA StartKeeps == ASSUME CInv, NEW w \in Workers, Start(w) PROVE CInv' /\ RowMoves
<1>. DEFINE r == [pc |-> "loop", kind |-> "signed_pdf", sha |-> None,
                  seen |-> row.op, done |-> Done(row)]
<1>1. r \in Jobs /\ JobOK(r, store)
  BY Types DEF Rows, Done, Jobs, Phases, Kinds, JobOK, Looping, Downloaded
<1>2. work' = [work EXCEPT ![w] = r] /\ UNCHANGED <<row, store, mishaps>>
  BY DEF Start
<1> HIDE DEF r
<1> QED
  BY <1>1, <1>2, ReadingKeeps, Types

LEMMA SkipKeeps == ASSUME CInv, NEW w \in Workers, Skip(w) PROVE CInv' /\ RowMoves
<1>. DEFINE k == After(work[w].kind)
            pc == IF k = "none" THEN "finish" ELSE "loop"
            r == [work[w] EXCEPT !.pc = pc, !.kind = k]
<1>1. work[w] \in Jobs
  BY Types
<1>2. k \in Kinds \cup {"none"} /\ pc \in Phases /\ (pc = "loop" => k \in Kinds)
      /\ pc \in {"finish", "loop"}
  BY DEF After, Kinds, Phases
<1>3. work' = [work EXCEPT ![w] = r] /\ UNCHANGED <<row, store, mishaps>>
  BY DEF Skip
<1> HIDE DEF pc, k
<1>4. r \in Jobs /\ JobOK(r, store)
  BY <1>1, <1>2 DEF Jobs, JobOK, Looping, Downloaded
<1> HIDE DEF r
<1> QED
  BY <1>3, <1>4, ReadingKeeps, Types

LEMMA DownloadKeeps == ASSUME CInv, NEW w \in Workers, Download(w) PROVE CInv' /\ RowMoves
<1>1. PICK d \in Digests :
        /\ IF d = Usual THEN UNCHANGED mishaps ELSE Happens("drift")
        /\ work' = [work EXCEPT ![w].pc = "downloaded", ![w].sha = d]
  BY DEF Download
<1>. DEFINE r == [work[w] EXCEPT !.pc = "downloaded", !.sha = d]
<1>2. work[w] \in Jobs /\ JobOK(work[w], store) /\ work[w].pc = "loop"
  BY Types DEF Download
<1>3. r \in Jobs /\ JobOK(r, store)
  BY <1>2 DEF Jobs, Phases, JobOK, Looping, Downloaded
<1>4. mishaps' \subseteq Mishaps
  BY <1>1, Types, HappensOne DEF Mishaps
<1>5. work' = [work EXCEPT ![w] = r] /\ UNCHANGED <<row, store>>
  BY <1>1 DEF Download
<1> HIDE DEF r
<1> QED
  BY <1>3, <1>4, <1>5, ReadingKeeps

LEMMA RereadKeeps ==
  ASSUME CInv, NEW w \in Workers, Reread(w) \/ TakeFence(w)
  PROVE  CInv' /\ RowMoves
<1>1. PICK pc \in {"readback", "begin", "validate", "failed"} :
        Go(w, pc, row) /\ (pc = "readback" => row.op # None)
  BY DEF Reread, TakeFence
<1>2. pc \in Phases /\ row \in Rows /\ JobOK(work[w], store)
      /\ work[w].pc \in {"downloaded", "claimed"}
  BY Types DEF Phases, Reread, TakeFence
<1>3. work' = [work EXCEPT ![w] = Gone(w, pc, row)] /\ UNCHANGED <<row, store, mishaps>>
  BY <1>1 DEF Go, Gone, Reread, TakeFence
<1>4. JobOK(Gone(w, pc, row), store)
  BY <1>1, <1>2, GoneFits DEF JobOK, Looping, Downloaded, Rows
<1> QED
  BY <1>2, <1>3, <1>4, GoneFits, ReadingKeeps, Types

LEMMA ReadbackKeeps == ASSUME CInv, NEW w \in Workers, Readback(w) PROVE CInv' /\ RowMoves
<1>1. PICK pc \in {"recover", "begin", "failed"} :
        /\ work' = [work EXCEPT ![w] = [work[w] EXCEPT !.pc = pc]]
        /\ pc = "recover" => store[work[w].seen.kind] = work[w].seen.sha
  BY DEF Readback
<1>2. pc \in Phases /\ JobOK(work[w], store) /\ work[w].pc = "readback"
  BY Types DEF Phases, Readback
<1>3. JobOK([work[w] EXCEPT !.pc = pc], store)
  BY <1>1, <1>2, PlaceFits DEF JobOK, Looping, Downloaded
<1>4. UNCHANGED <<row, store, mishaps>>
  BY DEF Readback
<1> QED
  BY <1>1, <1>2, <1>3, <1>4, PlaceFits, ReadingKeeps, Types

LEMMA ValidateKeeps == ASSUME CInv, NEW w \in Workers, Validate(w) PROVE CInv' /\ RowMoves
<1>1. PICK pc \in {"ingest", "failed"} : work' = [work EXCEPT ![w] = [work[w] EXCEPT !.pc = pc]]
  BY DEF Validate
<1>2. pc \in Phases /\ JobOK(work[w], store) /\ work[w].pc = "validate"
  BY Types DEF Phases, Validate
<1>3. JobOK([work[w] EXCEPT !.pc = pc], store)
  BY <1>1, <1>2, PlaceFits DEF JobOK, Looping, Downloaded
<1>4. UNCHANGED <<row, store, mishaps>>
  BY DEF Validate
<1> QED
  BY <1>1, <1>2, <1>3, <1>4, PlaceFits, ReadingKeeps, Types

LEMMA FailingKeeps ==
  ASSUME CInv, NEW w \in Workers, CallFails(w) \/ Crash(w)
  PROVE  CInv' /\ RowMoves
<1>1. mishaps' \subseteq Mishaps
  BY HappensOne DEF CallFails, Crash, Mishaps
<1>2. CASE CallFails(w)
  <2>1. "failed" \in Phases
    BY DEF Phases
  <2>2. JobOK([work[w] EXCEPT !.pc = "failed"], store)
    BY <2>1, PlaceFits DEF JobOK, Looping, Downloaded
  <2>3. work' = [work EXCEPT ![w] = [work[w] EXCEPT !.pc = "failed"]] /\ UNCHANGED <<row, store>>
    BY <1>2 DEF CallFails
  <2> QED
    BY <1>1, <2>1, <2>2, <2>3, PlaceFits, ReadingKeeps
<1>3. CASE Crash(w)
  BY <1>1, <1>3, IdleFits, ReadingKeeps DEF Crash, Stop
<1> QED
  BY <1>2, <1>3

-----------------------------------------------------------------------------
(* Steps that write the row or the store. *)

\* Recording the digest the store holds under k, and letting the operation go.
LEMMA RecordingFits ==
  ASSUME CInv, NEW k \in Kinds, NEW d \in Digests, store[k] = d
  PROVE  RowFits([row EXCEPT !.recorded[k] = d, !.op = None], store)
<1>. DEFINE rc == [row.recorded EXCEPT ![k] = d]
            r == [row EXCEPT !.recorded = rc, !.op = None]
<1>1. row \in Rows /\ RowFits(row, store)
  BY Types
<1>2. /\ rc \in [Kinds -> Digests \cup {None}]
      /\ \A j \in Kinds : rc[j] # None => store[j] = rc[j]
      /\ \A j \in Kinds : row.recorded[j] # None => rc[j] = row.recorded[j]
  BY <1>1 DEF Rows, RowFits
<1>3. row.state = "completed" => \A j \in Kinds : rc[j] # None
  <2> SUFFICES ASSUME row.state = "completed", NEW j \in Kinds PROVE rc[j] # None
    OBVIOUS
  <2>1. row.recorded[j] # None
    BY <1>1 DEF RowFits, Done
  <2> QED
    BY <1>2, <2>1
<1>4. r = [row EXCEPT !.recorded[k] = d, !.op = None]
  BY <1>1 DEF Rows
<1> HIDE DEF rc
<1>5. r \in Rows /\ r.recorded = rc /\ r.op = None /\ r.state = row.state
  BY <1>1, <1>2 DEF Rows
<1> HIDE DEF r
<1>6. RowFits(r, store)
  BY <1>2, <1>3, <1>5 DEF RowFits, Done
<1> QED
  BY <1>4, <1>6

LEMMA RecoverKeeps == ASSUME CInv, NEW w \in Workers, Recover(w) PROVE CInv' /\ RowMoves
<1>. DEFINE op == work[w].seen
            new == IF row.state = "completed_artifacts_pending" /\ row.recorded[op.kind] = None
                   THEN [row EXCEPT !.recorded[op.kind] = op.sha, !.op = None]
                   ELSE row
<1>1. /\ work[w].pc = "recover" /\ JobOK(work[w], store)
      /\ op \in Operations /\ store[op.kind] = op.sha
  BY Types DEF Recover, JobOK
<1>2. UNCHANGED <<store, mishaps>>
  BY DEF Recover
<1>3. RowFits(new, store) /\ new \in Rows
  <2>1. op.kind \in Kinds /\ op.sha \in Digests
    BY <1>1 DEF Operations
  <2> HIDE DEF op
  <2>2. RowFits([row EXCEPT !.recorded[op.kind] = op.sha, !.op = None], store)
    BY <2>1, <1>1, RecordingFits DEF op
  <2> QED
    BY <2>2, Types DEF RowFits
<1> HIDE DEF new
<1>4. CASE row' = new /\ NextKind(w, new)
  <2>1. work' = [work EXCEPT ![w] = NextJob(w, new)]
    BY <1>4 DEF NextKind, NextJob
  <2> QED
    BY <1>2, <1>3, <1>4, <2>1, NextFits, WorkerKeeps, Types
<1>5. CASE row' = new /\ Go(w, "begin", new)
  <2>1. work' = [work EXCEPT ![w] = Gone(w, "begin", new)] /\ "begin" \in Phases
    BY <1>5 DEF Go, Gone, Phases
  <2>2. JobOK(Gone(w, "begin", new), store)
    BY <1>1, <1>3, <2>1, GoneFits DEF JobOK, Looping, Downloaded
  <2> QED
    BY <1>2, <1>3, <1>5, <2>1, <2>2, GoneFits, WorkerKeeps, Types
<1>6. CASE row' = row /\ Go(w, "failed", row)
  <2>1. work' = [work EXCEPT ![w] = Gone(w, "failed", row)] /\ "failed" \in Phases
    BY <1>6 DEF Go, Gone, Phases
  <2>2. JobOK(Gone(w, "failed", row), store)
    BY <2>1, GoneFits, Types DEF JobOK, Looping, Downloaded
  <2> QED
    BY <1>2, <1>6, <2>1, <2>2, GoneFits, WorkerKeeps, Types
<1> QED
  BY <1>4, <1>5, <1>6 DEF Recover, new

LEMMA BeginKeeps == ASSUME CInv, NEW w \in Workers, BeginOperation(w) PROVE CInv' /\ RowMoves
<1>. DEFINE k == work[w].kind
            o == [kind |-> k, gen |-> Generation, live |-> TRUE, sha |-> work[w].sha]
            new == [row EXCEPT !.op = o]
<1>1. work[w].pc = "begin" /\ JobOK(work[w], store) /\ UNCHANGED <<store, mishaps>>
  BY Types DEF BeginOperation
<1>2. k \in Kinds /\ work[w].sha \in Digests
  BY <1>1 DEF JobOK, Looping, Downloaded
<1>3. CASE Stop(w) /\ UNCHANGED row
  BY <1>1, <1>3, IdleFits, ReadingKeeps, Types DEF Stop
<1>4. CASE NextKind(w, row) /\ UNCHANGED row
  <2>1. work' = [work EXCEPT ![w] = NextJob(w, row)]
    BY <1>4 DEF NextKind, NextJob
  <2> QED
    BY <1>1, <1>4, <2>1, NextFits, ReadingKeeps, Types
<1>5. CASE /\ row.recorded[k] = None /\ Generation <= MaxGeneration
           /\ row' = new /\ Go(w, "claimed", new)
           /\ row.state = "completed_artifacts_pending"
  <2>1. row \in Rows /\ RowFits(row, store) /\ row.op \in Operations \cup {None}
    BY Types DEF Rows
  <2>2. Generation \in 1 .. MaxGeneration
    BY <1>5, <2>1, CompletionAssumption DEF Generation, Operations
  <2>3. o \in Operations /\ o.kind = k
    BY <1>2, <2>2 DEF Operations
  <2> HIDE DEF o
  <2>4. /\ new \in Rows /\ new.op = o /\ new.recorded = row.recorded /\ new.state = row.state
    BY <2>1, <2>3 DEF Rows
  <2> HIDE DEF new
  <2>5. RowFits(new, store)
    BY <1>5, <2>1, <2>3, <2>4 DEF RowFits, Done
  <2>6. work' = [work EXCEPT ![w] = Gone(w, "claimed", new)] /\ "claimed" \in Phases
    BY <1>5 DEF Go, Gone, Phases
  <2>7. JobOK(Gone(w, "claimed", new), store)
    BY <1>1, <2>4, <2>6, GoneFits DEF JobOK, Looping, Downloaded
  <2> QED
    BY <1>1, <1>5, <2>4, <2>5, <2>6, <2>7, GoneFits, WorkerKeeps, Types
<1> QED
  BY <1>3, <1>4, <1>5 DEF BeginOperation

LEMMA IngestKeeps == ASSUME CInv, NEW w \in Workers, Ingest(w) PROVE CInv' /\ RowMoves
<1>. DEFINE k == work[w].kind
            d == work[w].sha
<1>1. work[w].pc = "ingest" /\ JobOK(work[w], store) /\ row' = row
  BY Types DEF Ingest
<1>2. k \in Kinds /\ d \in Digests
  BY <1>1 DEF JobOK, Looping, Downloaded
<1>3. StoreMoves(store')
  <2>1. PICK b \in {store[k], d} : store' = [store EXCEPT ![k] = b] /\ (store[k] # None => b = store[k])
    BY <1>2 DEF Ingest
  <2> QED
    BY <1>2, <2>1, Types DEF StoreMoves
<1>4. RowFits(row', store')
  BY <1>1, <1>3, Types, CompletionAssumption DEF RowFits, StoreMoves, Rows
<1>5. PICK pc \in {"stored", "failed"} :
        work' = [work EXCEPT ![w] = [work[w] EXCEPT !.pc = pc]] /\ (pc = "stored" => store'[k] = d)
  BY DEF Ingest
<1>6. mishaps' \subseteq Mishaps
  BY HappensOne, Types DEF Ingest, Mishaps
<1>7. pc \in Phases
  BY DEF Phases
<1>8. JobOK([work[w] EXCEPT !.pc = pc], store')
  BY <1>2, <1>5, <1>7, PlaceFits DEF JobOK, Looping, Downloaded
<1> QED
  BY <1>3, <1>4, <1>5, <1>6, <1>7, <1>8, PlaceFits, WorkerKeeps

LEMMA RecordKeeps == ASSUME CInv, NEW w \in Workers, Record(w) PROVE CInv' /\ RowMoves
<1>. DEFINE k == work[w].kind
            d == work[w].sha
            new == IF row.state = "completed_artifacts_pending"
                   THEN [row EXCEPT !.recorded[k] = d, !.op = None]
                   ELSE row
<1>1. /\ work[w].pc = "stored" /\ JobOK(work[w], store) /\ UNCHANGED <<store, mishaps>>
  BY Types DEF Record
<1>2. k \in Kinds /\ d \in Digests /\ store[k] = d
  BY <1>1 DEF JobOK, Looping, Downloaded
<1>3. RowFits(new, store) /\ new \in Rows
  <2> HIDE DEF k, d
  <2>1. RowFits([row EXCEPT !.recorded[k] = d, !.op = None], store)
    BY <1>2, RecordingFits
  <2> QED
    BY <2>1, Types DEF RowFits
<1> HIDE DEF new
<1>4. CASE row' = new /\ NextKind(w, new)
  <2>1. work' = [work EXCEPT ![w] = NextJob(w, new)]
    BY <1>4 DEF NextKind, NextJob
  <2> QED
    BY <1>1, <1>3, <1>4, <2>1, NextFits, WorkerKeeps, Types
<1>5. CASE work' = [work EXCEPT ![w].pc = "failed"] /\ UNCHANGED row
  <2>1. "failed" \in Phases
    BY DEF Phases
  <2>2. JobOK([work[w] EXCEPT !.pc = "failed"], store)
    BY <2>1, PlaceFits DEF JobOK, Looping, Downloaded
  <2>3. work' = [work EXCEPT ![w] = [work[w] EXCEPT !.pc = "failed"]]
    BY <1>5
  <2> QED
    BY <1>1, <1>5, <2>1, <2>2, <2>3, PlaceFits, ReadingKeeps, Types
<1> QED
  BY <1>4, <1>5 DEF Record, new

\* The operation alone, or the state alone, is changed.
LEMMA StateFits ==
  ASSUME CInv, NEW s \in {"completed_artifacts_pending", "completed", "reconciliation_required"},
         NEW o \in {row.op, None}, s = "completed" => Done(row) = Kinds
  PROVE  RowFits([row EXCEPT !.state = s, !.op = o], store)
<1>. DEFINE r == [row EXCEPT !.state = s, !.op = o]
<1>1. row \in Rows /\ RowFits(row, store)
  BY Types
<1>2. r \in Rows /\ r.state = s /\ r.op = o /\ r.recorded = row.recorded
  BY <1>1 DEF Rows
<1> HIDE DEF r
<1>3. Done(r) = Done(row)
  BY <1>2 DEF Done
<1>4. RowFits(r, store)
  BY <1>1, <1>2, <1>3 DEF RowFits
<1> QED
  BY <1>4 DEF r

LEMMA LapsedFits ==
  ASSUME CInv, row.op # None
  PROVE  RowFits([row EXCEPT !.op.live = FALSE], store)
<1>. DEFINE o == [row.op EXCEPT !.live = FALSE]
            r == [row EXCEPT !.op = o]
<1>1. row \in Rows /\ RowFits(row, store) /\ row.op \in Operations
  BY Types DEF Rows
<1>2. o \in Operations /\ o.kind = row.op.kind
  BY <1>1 DEF Operations
<1>3. r = [row EXCEPT !.op.live = FALSE]
  BY <1>1 DEF Rows
<1> HIDE DEF o
<1>4. r \in Rows /\ r.state = row.state /\ r.op = o /\ r.recorded = row.recorded
  BY <1>1, <1>2 DEF Rows
<1> HIDE DEF r
<1>5. Done(r) = Done(row)
  BY <1>4 DEF Done
<1>6. RowFits(r, store)
  BY <1>1, <1>2, <1>4, <1>5 DEF RowFits
<1> QED
  BY <1>3, <1>6

LEMMA EndingKeeps ==
  ASSUME CInv, NEW w \in Workers, Finish(w) \/ MarkUnknown(w)
  PROVE  CInv' /\ RowMoves
<1>1. work' = [work EXCEPT ![w] = Idle] /\ UNCHANGED <<store, mishaps>>
  BY DEF Finish, MarkUnknown, Stop
<1>2. RowFits(row', store)
  <2>1. CASE Finish(w)
    <3>1. CASE row' = row
      BY <3>1, Types
    <3>2. CASE Done(row) = Kinds /\ row' = [row EXCEPT !.state = "completed", !.op = None]
      BY <3>2, StateFits
    <3> QED
      BY <2>1, <3>1, <3>2 DEF Finish
  <2>2. CASE MarkUnknown(w)
    BY <2>2, LapsedFits, Types DEF MarkUnknown, SameFence
  <2> QED
    BY <2>1, <2>2
<1> QED
  BY <1>1, <1>2, IdleFits, WorkerKeeps, Types

\* Time, a replayed send and the reconciliation after it.
LEMMA OutsideKeeps ==
  ASSUME CInv, LeaseLapses \/ Interrupt \/ Reconciled
  PROVE  CInv' /\ RowMoves
<1>1. UNCHANGED <<store, work>>
  BY DEF LeaseLapses, Interrupt, Reconciled
<1>2. mishaps' \subseteq Mishaps
  BY HappensOne, Types DEF LeaseLapses, Interrupt, Reconciled, Mishaps
<1>3. RowFits(row', store)
  <2>1. CASE LeaseLapses
    BY <2>1, LapsedFits DEF LeaseLapses
  <2>2. CASE Interrupt \/ Reconciled
    <3>1. PICK s \in {"completed_artifacts_pending", "reconciliation_required"} :
            row' = [row EXCEPT !.state = s]
      BY <2>2 DEF Interrupt, Reconciled
    <3>2. [row EXCEPT !.state = s] = [row EXCEPT !.state = s, !.op = row.op]
      BY Types DEF Rows
    <3> QED
      BY <3>1, <3>2, StateFits
  <2> QED
    BY <2>1, <2>2
<1> QED
  BY <1>1, <1>2, <1>3, Types, Keeps

-----------------------------------------------------------------------------

LEMMA CInvStep == CInv /\ [Next]_vars => CInv' /\ RowMoves
<1> SUFFICES ASSUME CInv, [Next]_vars PROVE CInv' /\ RowMoves
  OBVIOUS
<1>1. ASSUME NEW w \in Workers, Start(w) \/ Step(w) \/ CallFails(w) \/ Crash(w)
      PROVE  CInv' /\ RowMoves
  BY <1>1, StartKeeps, SkipKeeps, DownloadKeeps, RereadKeeps, ReadbackKeeps, RecoverKeeps,
     BeginKeeps, ValidateKeeps, IngestKeeps, RecordKeeps, EndingKeeps, FailingKeeps DEF Step
<1>2. CASE LeaseLapses \/ Interrupt \/ Reconciled
  BY <1>2, OutsideKeeps
<1>3. CASE UNCHANGED vars
  BY <1>3, Types, Keeps DEF vars
<1> QED
  BY <1>1, <1>2, <1>3 DEF Next

\* Type correctness of the completion loop and its row; generations stay in bound.
THEOREM CompletionTypes == Spec => []TypeOK
<1>1. CInv => TypeOK
  BY DEF CInv
<1> QED
  BY <1>1, CInvInit, CInvStep, PTL DEF Spec

\* What the row records is what the store holds, whatever became of the fence
\* between the ingest and the recording.
THEOREM RecordedStored == Spec => []RecordedIsStored
<1>1. CInv => RecordedIsStored
  BY DEF CInv
<1> QED
  BY <1>1, CInvInit, CInvStep, PTL DEF Spec

\* An operation is only left on the row for an artifact still missing.
THEOREM OperationsForMissing == Spec => []OperationIsForMissing
<1>1. CInv => OperationIsForMissing
  BY DEF CInv
<1> QED
  BY <1>1, CInvInit, CInvStep, PTL DEF Spec

\* Recorded artifacts never change, and the request is completed only with both.
THEOREM ArtifactsKept == Spec => ArtifactsImmutable
<1>1. CInv /\ [Next]_vars =>
        [/\ \A k \in Kinds : row.recorded[k] # None => row'.recorded[k] = row.recorded[k]
         /\ row'.state = "completed" => Done(row') = Kinds]_vars
  BY CInvStep DEF RowMoves
<1> QED
  BY <1>1, CInvInit, CInvStep, PTL DEF Spec, ArtifactsImmutable

=============================================================================
