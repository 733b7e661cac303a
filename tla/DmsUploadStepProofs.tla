-------------------------- MODULE DmsUploadStepProofs --------------------------
(***************************************************************************)
(* What one step of DmsUpload can do, for every value of its constants.    *)
(*                                                                         *)
(* Shape says it once: a step leaves rows and metadata alone (and may      *)
(* store an object), or rewrites one row as the trigger allows, or creates *)
(* a session, or publishes one.  The versions, the trigger and the         *)
(* implementation of DmsPublication follow from Shape.  Guarded, the       *)
(* second inductive invariant, keeps corporate sessions out of cleanup and *)
(* says that what a publication saw in its snapshot stays published.       *)
(***************************************************************************)
EXTENDS DmsUploadProofs

\* The call c of process p has a session; a call that deletes a staged object has
\* no corporate one, and a reconciler deletes only those of plain sessions.  A
\* version in its snapshot is a published one of the session's document.
CallGuarded(p, c) ==
  c.pc # "idle" =>
    /\ row[c.s].state # "absent"
    /\ c.cur # None => c.cur \in VersionsOf(DocOf[c.s])
    /\ c.pc \in {"cleanDelete", "cleanRecord", "discard"} => ~Corporate(c.s)
    /\ c.pc = "preserve" => Corporate(c.s)
    /\ c.pc \in {"stage", "mark", "discard"} => p \in Clients
    /\ c.pc \in {"cleanClaim", "cleanDelete"} => p \in Clients \/ row[c.s].kind = "plain"

\* A cleaned session is expired and not corporate.
RowsGuarded ==
  \A s \in Sessions : row[s].orphanDeleted => row[s].state = "expired" /\ ~Corporate(s)

\* So is the current one.
CurrentGuarded ==
  \A d \in Documents : current[d] # None => current[d] \in VersionsOf(d)

Guarded == RowsGuarded /\ CurrentGuarded /\ \A p \in Procs : CallGuarded(p, call[p])

\* An update of a row that publishes nothing.
Update(old, new) ==
  /\ new.kind = old.kind /\ new.version = old.version
  /\ TriggerAllows(old, new)
  /\ new.orphanDeleted => old.orphanDeleted \/ old.kind # "corporate"
  /\ new.state = "finalized" <=> old.state = "finalized"

Written(s) == row' = [row EXCEPT ![s] = row'[s]]

Silent ==
  /\ UNCHANGED <<row, ledger>>
  /\ UNCHANGED committed \/ \E s \in Sessions : committed' = committed \cup {s}
Updated(s) == Written(s) /\ Update(row[s], row'[s]) /\ UNCHANGED <<committed, ledger>>
Created(s) ==
  /\ Written(s) /\ UNCHANGED <<committed, ledger>>
  /\ row[s].state = "absent" /\ row'[s].state = "pending"
  /\ row'[s].version \in Versions /\ row'[s].orphanDeleted = row[s].orphanDeleted
Published(s) ==
  /\ Written(s) /\ UNCHANGED committed
  /\ row[s].state = "provider_finalized" /\ row'[s].state = "finalized"
  /\ row'[s].kind = row[s].kind /\ row'[s].version = row[s].version
  /\ row'[s].orphanDeleted = row[s].orphanDeleted
  /\ ~VersionTaken(s)
  /\ files' = files \cup {s}
  /\ \E p \in Procs :
       /\ At(p, "commit") /\ S(p) = s /\ DocumentFound(p)
       /\ current' = [current EXCEPT ![DocOf[s]] = NewCurrent(s, call[p].cur)]

Shape == Silent \/ \E s \in Sessions : Updated(s) \/ Created(s) \/ Published(s)

\* Every process stays where it was or enters a guarded call.
Calls == \A q \in Procs : call'[q] = call[q] \/ CallGuarded(q, call'[q])

--------------------------------------------------------------------------------
\* A written row is found where it was written.
LEMMA Wrote ==
  ASSUME IInv, NEW s \in Sessions, NEW r, Write(s, r) PROVE row'[s] = r /\ Written(s)
BY DEF IInv, RowsOK, Write, Written

\* An allowed update of one row is a step of the right shape.
LEMMA DidUpdate ==
  ASSUME IInv, NEW s \in Sessions, NEW r, Write(s, r), Update(row[s], r),
         UNCHANGED <<committed, ledger>>
  PROVE  Shape
BY Wrote DEF Shape, Updated

\* So is a step that writes no row.
LEMMA DidNothing ==
  ASSUME UNCHANGED <<row, committed, ledger>> PROVE Shape
BY DEF Shape, Silent

\* What updates keep unless they are about it.
Keeps(old, new) ==
  new.kind = old.kind /\ new.version = old.version /\ new.orphanDeleted = old.orphanDeleted

\* A row that keeps its request may change state as the trigger allows, as long as
\* a cleaned one stays expired and none is published.
LEMMA KeptUpdate ==
  ASSUME NEW old, NEW new, Keeps(old, new), TransitionAllowed(old.state, new.state),
         old.orphanDeleted => new.state = "expired",
         new.state = "finalized" <=> old.state = "finalized"
  PROVE  Update(old, new)
BY DEF Keeps, Update, TriggerAllows

\* A call that ends or goes on with an existing session stays guarded.
LEMMA Entered ==
  ASSUME IInv, NEW p \in Procs, NEW c, CallGuarded(p, c), call' = [call EXCEPT ![p] = c]
  PROVE  Calls
BY DEF IInv, CallsOK, Calls

\* A call that ends.
LEMMA Leaves ==
  ASSUME IInv, NEW p \in Procs, Stop(p) PROVE Calls
<1>1. CallGuarded(p, IdleCall)
  BY DEF CallGuarded, IdleCall
<1>. QED BY <1>1, Entered DEF Stop

\* A call that goes on.
LEMMA GoesOn ==
  ASSUME IInv, NEW p \in Procs, NEW s \in Sessions, row[s].state # "absent", NEW pc, Goto(p, s, pc),
         pc \in {"cleanDelete", "cleanRecord", "discard"} => ~Corporate(s),
         pc = "preserve" => Corporate(s),
         pc \in {"stage", "mark", "discard"} => p \in Clients,
         pc \in {"cleanClaim", "cleanDelete"} => p \in Clients \/ row[s].kind = "plain"
  PROVE  Calls
<1>1. CallGuarded(p, [IdleCall EXCEPT !.pc = pc, !.s = s])
  BY DEF CallGuarded, IdleCall
<1>. QED BY <1>1, Entered DEF Goto

\* A reconciler that gives its claim back.
LEMMA GivesBack ==
  ASSUME IInv, NEW p \in Procs, NEW s \in Sessions, row[s].state # "absent", NEW out, Release(p, s, out)
  PROVE  Calls
<1>1. CallGuarded(p, [IdleCall EXCEPT !.pc = "release", !.s = s, !.out = out])
  BY DEF CallGuarded, IdleCall
<1>. QED BY <1>1, Entered DEF Release

\* A call that returns or throws.
LEMMA Ends ==
  ASSUME IInv, NEW p \in Procs, NEW s \in Sessions, row[s].state # "absent", Fail(p, s) \/ Return(p, s)
  PROVE  Calls
BY Leaves, GivesBack, GoesOn DEF Fail, Return

--------------------------------------------------------------------------------
\* A process inside a call has a session that exists.
LEMMA Working ==
  ASSUME IInv, Guarded, NEW p \in Procs, ~At(p, "idle")
  PROVE  /\ S(p) \in Sessions /\ row[S(p)].state # "absent" /\ row[S(p)] \in RowType
         /\ call[p].pc \in {"cleanDelete", "cleanRecord", "discard"} => ~Corporate(S(p))
         /\ At(p, "preserve") => Corporate(S(p))
         /\ call[p].pc \in {"stage", "mark", "discard"} => p \in Clients
         /\ call[p].pc \in {"cleanClaim", "cleanDelete"} => p \in Clients \/ row[S(p)].kind = "plain"
BY Held DEF Guarded, CallGuarded, RowOK, At, S

\* recordStageFailure and recordFinalizeFailure update a row as the trigger allows.
LEMMA FailureShape ==
  ASSUME IInv, Guarded, NEW s \in Sessions, NEW p, StageFailed(p, s) \/ FinalizeFailed(p, s),
         UNCHANGED <<committed, ledger>>
  PROVE  Shape
<1>1. row[s] \in RowType /\ (row[s].orphanDeleted => row[s].state = "expired")
  BY RowAt DEF Guarded, RowsGuarded
<1>. DEFINE a == [ClearStage(row[s]) EXCEPT
                    !.state = IF @ \in {"pending", "failed"} THEN "failed" ELSE @]
            b == [ClearFinalize(row[s]) EXCEPT
                    !.state = IF @ = "provider_finalizing" THEN "bytes_stored" ELSE @]
<1>2. UNCHANGED row \/ Write(s, a) \/ Write(s, b)
  BY Zenon DEF StageFailed, FinalizeFailed
<1>3. /\ Keeps(row[s], a)
      /\ a.state = IF row[s].state \in {"pending", "failed"} THEN "failed" ELSE row[s].state
  BY <1>1 DEF RowType, Keeps, ClearStage
<1>4. /\ Keeps(row[s], b)
      /\ b.state = IF row[s].state = "provider_finalizing" THEN "bytes_stored" ELSE row[s].state
  BY <1>1 DEF RowType, Keeps, ClearFinalize
<1>. HIDE DEF a, b
<1>5. Update(row[s], a)
  BY <1>1, <1>3, KeptUpdate DEF TransitionAllowed
<1>6. Update(row[s], b)
  BY <1>1, <1>4, KeptUpdate DEF TransitionAllowed
<1>. QED BY <1>2, <1>5, <1>6, DidUpdate, DidNothing

\* So does markBytesStored.
LEMMA StoredShape ==
  ASSUME IInv, Guarded, NEW s \in Sessions, row[s].state \in {"pending", "failed"},
         Write(s, StoredRow(s)), UNCHANGED <<committed, ledger>>
  PROVE  Shape
<1>1. row[s] \in RowType /\ ~row[s].orphanDeleted
  BY RowAt DEF Guarded, RowsGuarded, RowType
<1>2. Keeps(row[s], StoredRow(s)) /\ StoredRow(s).state = "bytes_stored"
  BY <1>1 DEF RowType, Keeps, ClearStage, StoredRow
<1>3. Update(row[s], StoredRow(s))
  BY <1>1, <1>2, KeptUpdate DEF TransitionAllowed
<1>. QED BY <1>3, DidUpdate

\* createUploadSession creates one.
LEMMA CreateShape ==
  ASSUME IInv, Guarded, NEW s \in Sessions, CreateUploadSession(s) PROVE Shape /\ Calls
<1>1. PICK kind \in Kinds, version \in Versions :
        Write(s, [row[s] EXCEPT !.state = "pending", !.kind = kind,
                                !.version = version, !.due = (kind = "plain")])
  BY DEF CreateUploadSession
<1>. DEFINE r == [row[s] EXCEPT !.state = "pending", !.kind = kind,
                                !.version = version, !.due = (kind = "plain")]
<1>2. r.state = "pending" /\ r.version = version /\ r.orphanDeleted = row[s].orphanDeleted
  BY RowAt DEF RowType
<1>3. row'[s] = r /\ Written(s)
  BY <1>1, Wrote
<1>. HIDE DEF r
<1>4. Created(s)
  BY <1>2, <1>3 DEF Created, CreateUploadSession, store
<1>. QED BY <1>4 DEF Shape, Calls, CreateUploadSession

\* Steps that write no row: the stage and cleanup at the store, and waiting.
LEMMA StoreShape ==
  ASSUME IInv, Guarded, NEW p \in Procs,
         StageObject(p) \/ StageRefusedMidway(p) \/ DiscardStaged(p) \/ StatStaged(p)
           \/ FinalizeObject(p) \/ DeleteOrphan(p)
  PROVE  Shape /\ Calls
<1>1. S(p) \in Sessions /\ row[S(p)].state # "absent"
  BY Working DEF StageObject, StageRefusedMidway, DiscardStaged, StatStaged, FinalizeObject,
     DeleteOrphan, At
<1>2. (At(p, "cleanDelete") => ~Corporate(S(p))) /\ (At(p, "stage") => p \in Clients)
  BY Working DEF At
<1>3. Shape
  BY <1>1 DEF Shape, Silent, StageObject, StageRefusedMidway, DiscardStaged, StatStaged,
     FinalizeObject, DeleteOrphan, store
<1>4. Calls
  BY <1>1, <1>2, Leaves, Ends, GoesOn DEF StageObject, StageRefusedMidway, DiscardStaged,
     StatStaged, FinalizeObject, DeleteOrphan
<1>. QED BY <1>3, <1>4

\* stageUpload: its lease.
LEMMA StageShape ==
  ASSUME IInv, Guarded, NEW p \in Procs, NEW s \in Sessions, ClaimStage(p, s) \/ RefuseStage(p, s)
  PROVE  Shape /\ Calls
<1>1. CASE ClaimStage(p, s)
  <2>. DEFINE r == [row[s] EXCEPT !.stageTok = p, !.stageLive = TRUE, !.due = FALSE]
  <2>1. row[s] \in RowType /\ row[s].state \in {"pending", "failed"} /\ ~row[s].orphanDeleted
    BY <1>1, RowAt DEF ClaimStage, StageLeaseFree, Guarded, RowsGuarded, RowType
  <2>2. Keeps(row[s], r) /\ r.state = row[s].state
    BY <2>1 DEF RowType, Keeps
  <2>3. Write(s, r) /\ UNCHANGED <<committed, ledger>>
    BY <1>1 DEF ClaimStage, store
  <2>. HIDE DEF r
  <2>4. Update(row[s], r)
    BY <2>1, <2>2, KeptUpdate DEF TransitionAllowed
  <2>5. Calls
    BY <1>1, <2>1, GoesOn DEF ClaimStage
  <2>. QED BY <2>3, <2>4, <2>5, DidUpdate
<1>2. CASE RefuseStage(p, s)
  <2>1. row[s].state # "absent"
    BY <1>2 DEF RefuseStage
  <2>. QED BY <1>2, <2>1, DidNothing, Ends DEF RefuseStage, store
<1>. QED BY <1>1, <1>2

\* markBytesStored, in stageUpload and in ensureBytesStored.
LEMMA MarkShape ==
  ASSUME IInv, Guarded, NEW p \in Procs, MarkBytesStored(p) \/ EnsureBytesStored(p)
  PROVE  Shape /\ Calls
<1>1. S(p) \in Sessions /\ row[S(p)].state # "absent"
  BY Working DEF MarkBytesStored, EnsureBytesStored, At
<1>2. UNCHANGED <<committed, ledger>>
  BY DEF MarkBytesStored, EnsureBytesStored, store
<1>3. \/ UNCHANGED row \/ StageFailed(p, S(p))
      \/ row[S(p)].state \in {"pending", "failed"} /\ Write(S(p), StoredRow(S(p)))
  BY DEF MarkBytesStored, EnsureBytesStored
<1>4. Shape
  BY <1>1, <1>2, <1>3, FailureShape, StoredShape, DidNothing
<1>5. Calls
  <2>1. At(p, "mark") => p \in Clients
    BY Working DEF At
  <2>. QED BY <1>1, <2>1, Leaves, Ends, GoesOn DEF MarkBytesStored, EnsureBytesStored
<1>. QED BY <1>4, <1>5

\* The branches of finalizeUpload and the claim of cleanupOrphan.
LEMMA BeginShape ==
  ASSUME IInv, Guarded, NEW p \in Procs, NEW s \in Sessions, BeginFinalize(p, s) \/ BeginCleanup(p, s)
  PROVE  Shape /\ Calls
<1>1. row[s] \in RowType /\ row[s].state # "absent"
  BY RowAt DEF BeginFinalize, BeginCleanup
<1>2. CASE BeginFinalize(p, s)
  <2>1. Shape
    BY <1>2, DidNothing DEF BeginFinalize, store
  <2>2. CASE Fail(p, s) \/ Return(p, s)
    BY <1>1, <2>1, <2>2, Ends
  <2>3. CASE \E pc \in {"ensure", "publish", "claim"} : Goto(p, s, pc)
    BY <1>1, <2>1, <2>3, GoesOn
  <2>4. (Fail(p, s) \/ Return(p, s)) \/ \E pc \in {"ensure", "publish", "claim"} : Goto(p, s, pc)
    BY <1>2 DEF BeginFinalize
  <2>. QED BY <2>1, <2>2, <2>3, <2>4
<1>3. CASE BeginCleanup(p, s)
  <2>. DEFINE r == [row[s] EXCEPT !.state = "expired", !.stageLive = FALSE]
  <2>1. CASE Fail(p, s) /\ UNCHANGED row
    BY <1>1, <1>3, <2>1, Ends, DidNothing DEF BeginCleanup, store
  <2>2. CASE CleanupAllowed(s) /\ ~Corporate(s) /\ Write(s, r) /\ Goto(p, s, "cleanDelete")
    <3>1. Keeps(row[s], r) /\ r.state = "expired"
      BY <1>1 DEF RowType, Keeps
    <3>. HIDE DEF r
    <3>2. Update(row[s], r)
      BY <2>2, <3>1, KeptUpdate DEF TransitionAllowed, CleanupAllowed, Closed
    <3>3. p \in Clients \/ row[s].kind = "plain"
      BY <1>3, Working DEF BeginCleanup, At
    <3>4. Calls
      BY <1>1, <2>2, <3>3, GoesOn
    <3>. QED BY <1>3, <2>2, <3>2, <3>4, DidUpdate DEF BeginCleanup, store
  <2>. QED BY <1>3, <2>1, <2>2 DEF BeginCleanup
<1>. QED BY <1>2, <1>3

\* The finalize lease.
LEMMA ClaimShape ==
  ASSUME IInv, Guarded, NEW p \in Procs, ClaimProviderFinalize(p) PROVE Shape /\ Calls
<1>. DEFINE s == S(p)
            r == [row[s] EXCEPT !.state = "provider_finalizing", !.finTok = p, !.finLive = TRUE]
<1>1. s \in Sessions /\ row[s].state # "absent" /\ row[s] \in RowType
  BY Working DEF ClaimProviderFinalize, At
<1>2. Keeps(row[s], r) /\ r.state = "provider_finalizing"
  BY <1>1 DEF RowType, Keeps
<1>3. \/ UNCHANGED row
      \/ row[s].state \in {"bytes_stored", "provider_finalizing"} /\ Write(s, r)
  BY DEF ClaimProviderFinalize
<1>4. UNCHANGED <<committed, ledger>>
  BY DEF ClaimProviderFinalize, store
<1>5. Goto(p, s, "publish") \/ Goto(p, s, "read") \/ Fail(p, s)
  BY DEF ClaimProviderFinalize
<1>6. Calls
  BY <1>1, <1>5, GoesOn, Ends
<1>7. row[s].orphanDeleted => row[s].state = "expired"
  BY <1>1 DEF Guarded, RowsGuarded
<1>. HIDE DEF s, r
<1>8. row[s].state \in {"bytes_stored", "provider_finalizing"} => Update(row[s], r)
  BY <1>2, <1>7, KeptUpdate DEF TransitionAllowed
<1>. QED BY <1>1, <1>3, <1>4, <1>6, <1>8, DidUpdate, DidNothing

\* The storage finalize and its receipt.
LEMMA ReceiptShape ==
  ASSUME IInv, Guarded, NEW p \in Procs, ReadForFinalize(p) \/ PersistProviderFinalized(p)
  PROVE  Shape /\ Calls
<1>. DEFINE s == S(p)
            r == [ClearFinalize(row[s]) EXCEPT !.state = "provider_finalized"]
<1>1. s \in Sessions /\ row[s].state # "absent" /\ row[s] \in RowType
  BY Working DEF ReadForFinalize, PersistProviderFinalized, At
<1>2. Keeps(row[s], r) /\ r.state = "provider_finalized"
  BY <1>1 DEF RowType, Keeps, ClearFinalize
<1>3. \/ UNCHANGED row \/ FinalizeFailed(p, s)
      \/ row[s].state = "provider_finalizing" /\ Write(s, r)
  BY DEF ReadForFinalize, PersistProviderFinalized
<1>4. UNCHANGED <<committed, ledger>>
  BY DEF ReadForFinalize, PersistProviderFinalized, store
<1>5. Goto(p, s, "publish") \/ Goto(p, s, "put") \/ Fail(p, s)
  BY DEF ReadForFinalize, PersistProviderFinalized
<1>6. Calls
  BY <1>1, <1>5, GoesOn, Ends
<1>7. row[s].orphanDeleted => row[s].state = "expired"
  BY <1>1 DEF Guarded, RowsGuarded
<1>. HIDE DEF s, r
<1>8. row[s].state = "provider_finalizing" => Update(row[s], r)
  BY <1>2, <1>7, KeptUpdate DEF TransitionAllowed
<1>. QED BY <1>1, <1>3, <1>4, <1>6, <1>8, DidUpdate, DidNothing, FailureShape

\* Reading the document writes nothing, and remembers the current version.
LEMMA ReadDocumentShape ==
  ASSUME IInv, Guarded, NEW p \in Procs, ReadDocument(p) \/ InsertionWaited(p)
  PROVE  Shape /\ Calls
<1>. DEFINE s == S(p)
            cur == current[DocOf[s]]
<1>1. s \in Sessions /\ row[s].state # "absent" /\ call[p].pc \in {"publish", "commit"}
  BY Working DEF ReadDocument, InsertionWaited, At
<1>2. call[p] \in CallType /\ DocOf[s] \in Documents
  BY <1>1, VersionAssumption DEF IInv, CallsOK
<1>3. cur # None => cur \in VersionsOf(DocOf[s])
  BY <1>2 DEF Guarded, CurrentGuarded
<1>4. Shape
  BY DidNothing DEF ReadDocument, InsertionWaited, store
<1>5. CallGuarded(p, [IdleCall EXCEPT !.pc = "commit", !.s = s, !.cur = cur])
  BY <1>1, <1>3 DEF CallGuarded, IdleCall
<1>6. CallGuarded(p, [call[p] EXCEPT !.cur = cur])
  <2>1. [call[p] EXCEPT !.cur = cur].pc = call[p].pc /\ [call[p] EXCEPT !.cur = cur].s = s
        /\ [call[p] EXCEPT !.cur = cur].cur = cur
    BY <1>2 DEF CallType, S
  <2>. QED BY <1>1, <1>3, <2>1 DEF CallGuarded
<1>7. InsertionWaited(p) => call' = [call EXCEPT ![p] = [call[p] EXCEPT !.cur = cur]]
  BY DEF InsertionWaited
<1>8. ReadDocument(p) =>
        (Fail(p, s) \/ Return(p, s))
        \/ call' = [call EXCEPT ![p] = [IdleCall EXCEPT !.pc = "commit", !.s = s, !.cur = cur]]
  BY DEF ReadDocument
<1>. QED BY <1>1, <1>4, <1>5, <1>6, <1>7, <1>8, Entered, Ends

\* commitMetadata publishes one.
LEMMA PublishShape ==
  ASSUME IInv, Guarded, NEW p \in Procs, CommitMetadata(p) PROVE Shape /\ Calls
<1>. DEFINE s == S(p)
            r == [ClearFinalize(ClearStage(row[s])) EXCEPT !.state = "finalized"]
<1>1. s \in Sessions /\ row[s].state # "absent" /\ row[s] \in RowType
  BY Working DEF CommitMetadata, At
<1>2. Calls
  BY <1>1, Ends DEF CommitMetadata
<1>3. Keeps(row[s], r) /\ r.state = "finalized"
  BY <1>1 DEF RowType, Keeps, ClearFinalize, ClearStage
<1>4. \/ UNCHANGED <<row, ledger>>
      \/ /\ ~VersionTaken(s) /\ TriggerAllows(row[s], r)
         /\ files' = files \cup {s}
         /\ current' = [current EXCEPT ![DocOf[s]] = NewCurrent(s, call[p].cur)]
         /\ Write(s, r)
  BY DEF CommitMetadata
<1>5. UNCHANGED committed /\ At(p, "commit") /\ S(p) = s /\ DocumentFound(p)
  BY DEF CommitMetadata, store
<1>. HIDE DEF s, r
<1>6. UNCHANGED <<row, ledger>> \/ Published(s)
  BY <1>1, <1>3, <1>4, <1>5, Wrote, PublishesOnce DEF Published, Keeps
<1>. QED BY <1>1, <1>2, <1>5, <1>6, DidNothing DEF Shape

\* The record that an orphan is gone: its session is not corporate.
LEMMA RecordShape ==
  ASSUME IInv, Guarded, NEW p \in Procs, RecordOrphanDeleted(p) PROVE Shape /\ Calls
<1>. DEFINE s == S(p)
            r == [row[s] EXCEPT !.orphanDeleted = TRUE]
<1>1. s \in Sessions /\ row[s].state # "absent" /\ row[s] \in RowType /\ ~Corporate(s)
  BY Working DEF RecordOrphanDeleted, At
<1>2. Calls
  BY <1>1, Ends DEF RecordOrphanDeleted
<1>3. UNCHANGED row \/ (TriggerAllows(row[s], r) /\ Write(s, r))
  BY DEF RecordOrphanDeleted
<1>4. UNCHANGED <<committed, ledger>>
  BY DEF RecordOrphanDeleted, store
<1>5. r.state = row[s].state /\ r.kind = row[s].kind /\ r.version = row[s].version
  BY <1>1 DEF RowType
<1>. HIDE DEF s, r
<1>6. TriggerAllows(row[s], r) => Update(row[s], r)
  BY <1>1, <1>5 DEF Update, Corporate
<1>. QED BY <1>1, <1>2, <1>3, <1>4, <1>6, DidUpdate, DidNothing

\* A reconciler's claim.
LEMMA ClaimReconciliationShape ==
  ASSUME IInv, Guarded, NEW p \in Procs, NEW s \in Sessions, ClaimReconciliation(p, s)
  PROVE  Shape /\ Calls
<1>. DEFINE r == [row[s] EXCEPT !.owner = WorkerOf[p], !.recLive = TRUE]
            seen == [state |-> row[s].state, stageLive |-> row[s].stageLive,
                     past |-> row[s].past, erred |-> row[s].attempts > 0]
            c == [IdleCall EXCEPT !.pc = "decide", !.s = s, !.seen = seen]
<1>1. row[s] \in RowType /\ row[s].state # "absent" /\ ~row[s].orphanDeleted
  BY RowAt DEF ClaimReconciliation, Stored
<1>2. Keeps(row[s], r) /\ r.state = row[s].state
  BY <1>1 DEF RowType, Keeps
<1>3. Write(s, r) /\ UNCHANGED <<committed, ledger>> /\ call' = [call EXCEPT ![p] = c]
  BY DEF ClaimReconciliation, store
<1>4. CallGuarded(p, c)
  <2>1. c.pc = "decide" /\ c.s = s /\ c.cur = None
    BY DEF IdleCall
  <2>. QED BY <1>1, <2>1 DEF CallGuarded
<1>. HIDE DEF r, c
<1>5. Update(row[s], r)
  BY <1>1, <1>2, KeptUpdate DEF TransitionAllowed
<1>. QED BY <1>3, <1>4, <1>5, DidUpdate, Entered

\* Its decision: only a plain session goes to cleanup.
LEMMA DecideShape ==
  ASSUME IInv, Guarded, NEW p \in Procs, Decide(p) PROVE Shape /\ Calls
<1>. DEFINE s == S(p)
            seen == call[p].seen
<1>1. s \in Sessions /\ row[s].state # "absent"
  BY Working DEF Decide, At
<1>2. Shape
  BY DidNothing DEF Decide, store
<1>3. CASE Release(p, s, "wait")
  BY <1>1, <1>2, <1>3, GivesBack
<1>4. CASE row[s].kind = "plain" /\ \E pc \in {"cleanClaim", "ensureMark", "begin"} : Goto(p, s, pc)
  BY <1>1, <1>2, <1>4, GoesOn
<1>5. CASE \E pc \in {"intakePre", "intakePost"} : Goto(p, s, pc)
  BY <1>1, <1>2, <1>5, GoesOn
<1>6. CASE Corporate(s) /\ Goto(p, s, "preserve")
  BY <1>1, <1>2, <1>6, GoesOn
<1>. HIDE DEF s, seen
<1>7. DecidePlain(p, s, seen) =>
        Release(p, s, "wait") \/ \E pc \in {"cleanClaim", "ensureMark", "begin"} : Goto(p, s, pc)
  BY DEF DecidePlain
<1>8. DecideIntake(p, s, seen) =>
        Release(p, s, "wait") \/ \E pc \in {"intakePre", "intakePost"} : Goto(p, s, pc)
  BY DEF DecideIntake
<1>9. DecideCorporate(p, s, seen) => Release(p, s, "wait") \/ Goto(p, s, "preserve")
  BY DEF DecideCorporate
<1>. QED BY <1>3, <1>4, <1>5, <1>6, <1>7, <1>8, <1>9 DEF Decide, Corporate, s, seen

\* The dead letters of Intake and corporate sessions, and the release of a claim.
LEMMA ClosingShape ==
  ASSUME IInv, Guarded, NEW p \in Procs,
         MarkIntakeGuardManualRecovery(p) \/ PreserveCorporateUpload(p) \/ ReleaseReconciliationClaim(p)
  PROVE  Shape /\ Calls
<1>. DEFINE s == S(p)
            x == row[s]
            intake == [Terminal(ClearLeases(x), "intake_pre") EXCEPT !.due = TRUE]
            preserved == Terminal(ClearLeases(x), "corporate")
            counted == CountedFailure(x)
            released == [ClearReconcile(x) EXCEPT !.due = (call[p].out = "ok")]
<1>1. s \in Sessions /\ x.state # "absent" /\ x \in RowType
  BY Working DEF MarkIntakeGuardManualRecovery, PreserveCorporateUpload, ReleaseReconciliationClaim, At
<1>2. x.orphanDeleted => x.state = "expired" /\ ~Corporate(s)
  BY <1>1 DEF Guarded, RowsGuarded
<1>3. UNCHANGED <<committed, ledger>>
  BY DEF MarkIntakeGuardManualRecovery, PreserveCorporateUpload, ReleaseReconciliationClaim, store
<1>4. Calls
  BY <1>1, Leaves, Ends DEF MarkIntakeGuardManualRecovery, PreserveCorporateUpload, ReleaseReconciliationClaim
<1>5. \/ UNCHANGED row
      \/ TriggerAllows(x, intake) /\ Write(s, intake)
      \/ Corporate(s) /\ x.state # "finalized" /\ Write(s, preserved)
      \/ TriggerAllows(x, counted) /\ Write(s, counted)
      \/ TriggerAllows(x, released) /\ Write(s, released)
  <2>1. PreserveCorporateUpload(p) => Corporate(s)
    BY Working DEF PreserveCorporateUpload, At
  <2>. QED BY <2>1 DEF MarkIntakeGuardManualRecovery, PreserveCorporateUpload, ReleaseReconciliationClaim
<1>6. Keeps(x, intake) /\ intake.state = "failed_terminal"
  BY <1>1 DEF RowType, Keeps, Terminal, ClearLeases, ClearStage, ClearFinalize, ClearReconcile
<1>7. Keeps(x, preserved) /\ preserved.state = "failed_terminal"
  BY <1>1 DEF RowType, Keeps, Terminal, ClearLeases, ClearStage, ClearFinalize, ClearReconcile
<1>8. Keeps(x, counted) /\ counted.state \in {x.state, "failed_terminal"}
  BY <1>1 DEF RowType, Keeps, Terminal, ClearReconcile, CountedFailure
<1>9. Keeps(x, released) /\ released.state = x.state
  BY <1>1 DEF RowType, Keeps, ClearReconcile
<1>10. x.state \in States
  BY <1>1 DEF RowType
<1>. HIDE DEF intake, preserved, counted, released, s
<1>11. ASSUME NEW r, Keeps(x, r), TriggerAllows(x, r), r.state \in {x.state, "failed_terminal"}
       PROVE  Update(x, r)
  BY <1>11 DEF Update, Keeps, TriggerAllows, TransitionAllowed
<1>12. Corporate(s) /\ x.state # "finalized" => TriggerAllows(x, preserved)
  BY <1>1, <1>2, <1>7, <1>10 DEF TriggerAllows, TransitionAllowed, Keeps, States, Stored, Closed
<1>. QED BY <1>1, <1>3, <1>4, <1>5, <1>6, <1>7, <1>8, <1>9, <1>11, <1>12, DidUpdate, DidNothing

\* The bounded recovery of an expired Intake session.
LEMMA IntakePostShape ==
  ASSUME IInv, Guarded, NEW p \in Procs, AdvanceExpiredIntakeGuard(p) PROVE Shape /\ Calls
<1>. DEFINE s == S(p)
            x == row[s]
            counted == [ClearReconcile(ClearFinalize(x)) EXCEPT !.attempts = @ + 1]
            closed == Terminal(ClearStage(counted), "intake_post")
            last == x.attempts + 1 >= MaxAttempts
            new == [(IF last THEN closed ELSE counted) EXCEPT !.due = last]
<1>1. s \in Sessions /\ x.state # "absent" /\ x \in RowType
  BY Working DEF AdvanceExpiredIntakeGuard, At
<1>2. Calls
  BY <1>1, Leaves, Ends DEF AdvanceExpiredIntakeGuard
<1>3. UNCHANGED row \/ (x.state = "provider_finalized" /\ Write(s, new))
  BY DEF AdvanceExpiredIntakeGuard
<1>4. UNCHANGED <<committed, ledger>>
  BY DEF AdvanceExpiredIntakeGuard, store
<1>5. Keeps(x, new) /\ new.state \in {x.state, "failed_terminal"}
  <2>1. Keeps(x, [counted EXCEPT !.due = last]) /\ [counted EXCEPT !.due = last].state = x.state
    BY <1>1 DEF RowType, Keeps, ClearReconcile, ClearFinalize
  <2>2. Keeps(x, [closed EXCEPT !.due = last]) /\ [closed EXCEPT !.due = last].state = "failed_terminal"
    BY <1>1 DEF RowType, Keeps, ClearReconcile, ClearFinalize, ClearStage, Terminal
  <2>. HIDE DEF counted, closed, last
  <2>. QED BY <2>1, <2>2
<1>6. x.orphanDeleted => x.state = "expired"
  BY <1>1 DEF Guarded, RowsGuarded
<1>. HIDE DEF new, s
<1>7. x.state = "provider_finalized" => Update(x, new)
  BY <1>5, <1>6, KeptUpdate DEF TransitionAllowed
<1>. QED BY <1>1, <1>2, <1>3, <1>4, <1>7, DidUpdate, DidNothing

\* A storage or database call that throws, and a process that dies.
LEMMA FailsShape ==
  ASSUME IInv, Guarded, NEW p \in Procs, CallFails(p) \/ Crash(p) PROVE Shape /\ Calls
<1>1. S(p) \in Sessions /\ row[S(p)].state # "absent"
  BY Working DEF CallFails, Crash, At
<1>2. UNCHANGED row \/ StageFailed(p, S(p)) \/ FinalizeFailed(p, S(p))
  BY DEF CallFails, Crash
<1>3. UNCHANGED <<committed, ledger>>
  BY DEF CallFails, Crash, store
<1>4. Stop(p) \/ Fail(p, S(p))
  BY DEF CallFails, Crash
<1>. QED BY <1>1, <1>2, <1>3, <1>4, FailureShape, DidNothing, Leaves, Ends

\* The passing of time.
LEMMA ElapseShape ==
  ASSUME IInv, Guarded, NEW s \in Sessions, Elapse(s) PROVE Shape /\ Calls
<1>1. row[s] \in RowType /\ (row[s].orphanDeleted => row[s].state = "expired")
  BY RowAt DEF Guarded, RowsGuarded
<1>2. PICK r : Write(s, r) /\ Keeps(row[s], r) /\ r.state = row[s].state
  <2>1. /\ Keeps(row[s], [row[s] EXCEPT !.stageLive = FALSE])
        /\ Keeps(row[s], [row[s] EXCEPT !.finLive = FALSE])
        /\ Keeps(row[s], [row[s] EXCEPT !.recLive = FALSE])
        /\ Keeps(row[s], [row[s] EXCEPT !.due = TRUE])
        /\ Keeps(row[s], [row[s] EXCEPT !.past = TRUE])
    BY <1>1 DEF RowType, Keeps
  <2>2. /\ [row[s] EXCEPT !.stageLive = FALSE].state = row[s].state
        /\ [row[s] EXCEPT !.finLive = FALSE].state = row[s].state
        /\ [row[s] EXCEPT !.recLive = FALSE].state = row[s].state
        /\ [row[s] EXCEPT !.due = TRUE].state = row[s].state
        /\ [row[s] EXCEPT !.past = TRUE].state = row[s].state
    BY <1>1 DEF RowType
  <2>. QED BY <2>1, <2>2 DEF Elapse, LapseStage, LapseFinalize, LapseReconcile, BecomeDue, ExpireSession
<1>3. Update(row[s], r)
  BY <1>1, <1>2, KeptUpdate DEF TransitionAllowed
<1>4. UNCHANGED <<committed, ledger, call>>
  BY DEF Elapse, LapseStage, LapseFinalize, LapseReconcile, BecomeDue, ExpireSession, store
<1>. QED BY <1>2, <1>3, <1>4, DidUpdate DEF Calls

\* Retention, workspace changes and stuttering touch neither rows nor calls.
LEMMA PolicyShape ==
  ASSUME IInv, Guarded,
         \/ \E s \in Sessions : RevokeAuthority(s)
         \/ \E d \in Documents : RetainDocument(d) \/ RetentionEnds(d)
         \/ UNCHANGED vars
  PROVE  Shape /\ Calls
<1>1. UNCHANGED <<row, committed, ledger, call>>
  BY DEF RevokeAuthority, RetainDocument, RetentionEnds, vars, store, ledger
<1>. QED BY <1>1, DidNothing DEF Calls

--------------------------------------------------------------------------------
\* Every step has the shape, and leaves every call guarded.
THEOREM StepShape == IInv /\ Guarded /\ [Next]_vars => Shape /\ Calls
<1>. SUFFICES ASSUME IInv, Guarded, [Next]_vars PROVE Shape /\ Calls
  OBVIOUS
<1>1. ASSUME NEW p \in Procs, Continue(p) PROVE Shape /\ Calls
  BY <1>1, StoreShape, MarkShape, BeginShape, ClaimShape, ReceiptShape, ReadDocumentShape, PublishShape,
     RecordShape, DecideShape, ClosingShape, IntakePostShape DEF Continue
<1>2. ASSUME NEW p \in Clients, NEW s \in Sessions, Request(p, s) PROVE Shape /\ Calls
  BY <1>2, StageShape, BeginShape DEF Request, Procs
<1>3. ASSUME NEW r \in Reconcilers, NEW s \in Sessions, ClaimReconciliation(r, s) PROVE Shape /\ Calls
  BY <1>3, ClaimReconciliationShape DEF Procs
<1>4. ASSUME NEW s \in Sessions, CreateUploadSession(s) \/ Elapse(s) \/ RevokeAuthority(s)
      PROVE  Shape /\ Calls
  BY <1>4, CreateShape, ElapseShape, PolicyShape
<1>. QED BY <1>1, <1>2, <1>3, <1>4, PolicyShape, FailsShape DEF Next

\* What a step of the right shape does to one row.
LEMMA RowOutcome ==
  ASSUME IInv, Shape, NEW t \in Sessions
  PROVE  \/ row'[t] = row[t]
         \/ Update(row[t], row'[t])
         \/ /\ row[t].state = "absent" /\ row'[t].state = "pending"
            /\ row'[t].orphanDeleted = row[t].orphanDeleted
         \/ /\ row[t].state = "provider_finalized" /\ row'[t].state = "finalized"
            /\ Keeps(row[t], row'[t])
<1>1. ASSUME NEW s \in Sessions, Written(s), t # s PROVE row'[t] = row[t]
  BY <1>1 DEF Written, IInv, RowsOK
<1>. QED BY <1>1 DEF Shape, Silent, Updated, Created, Published, Keeps

\* What is never undone: a session once created keeps its kind and its version.
LEMMA RequestKept ==
  ASSUME IInv, Shape, NEW s \in Sessions, row[s].state # "absent"
  PROVE  /\ row'[s].kind = row[s].kind /\ row'[s].version = row[s].version
         /\ row'[s].state # "absent"
BY RowOutcome DEF Update, TriggerAllows, TransitionAllowed, Closed, Keeps

\* Guarded is inductive.
THEOREM GuardedKept == IInv /\ Guarded /\ [Next]_vars => Guarded'
<1>. SUFFICES ASSUME IInv, Guarded, [Next]_vars PROVE Guarded'
  OBVIOUS
<1>1. Shape /\ Calls /\ IInv'
  BY StepShape, InvPreserved
<1>2. RowsGuarded'
  <2>. SUFFICES ASSUME NEW s \in Sessions, row'[s].orphanDeleted
                PROVE  row'[s].state = "expired" /\ row'[s].kind # "corporate"
    BY DEF RowsGuarded, Corporate
  <2>1. row[s] \in RowType /\ (row[s].orphanDeleted => row[s].state = "expired" /\ row[s].kind # "corporate")
    BY RowAt DEF Guarded, RowsGuarded, Corporate
  <2>. QED BY <1>1, <2>1, RowOutcome DEF Update, TriggerAllows, Keeps
<1>4. files \subseteq files' /\ \A d : VersionsOf(d) \subseteq VersionsOf(d)'
  BY <1>1 DEF Shape, Silent, Updated, Created, Published, ledger, VersionsOf
<1>5. CurrentGuarded'
  <2>1. CASE UNCHANGED ledger
    BY <2>1 DEF Guarded, CurrentGuarded, VersionsOf, ledger
  <2>2. ASSUME NEW s \in Sessions, NEW cur, files' = files \cup {s},
               current' = [current EXCEPT ![DocOf[s]] = NewCurrent(s, cur)]
        PROVE  CurrentGuarded'
    <3>1. current \in [Documents -> Sessions \cup {None}]
      BY DEF IInv, TypeOK
    <3>2. ASSUME NEW d \in Documents, current'[d] # current[d] PROVE d = DocOf[s] /\ current'[d] = s
      BY <2>2, <3>1, <3>2 DEF NewCurrent
    <3>. QED BY <1>4, <2>2, <3>2 DEF Guarded, CurrentGuarded, VersionsOf
  <2>. QED BY <1>1, <2>1, <2>2 DEF Shape, Silent, Updated, Created, Published
<1>3. ASSUME NEW q \in Procs PROVE CallGuarded(q, call[q])'
  <2>1. CallGuarded(q, call'[q])
    BY <1>1 DEF Calls, Guarded
  <2>2. call'[q].pc # "idle" => call'[q].s \in Sessions
    BY <1>1 DEF IInv, CallsOK, CallOK
  <2>. QED BY <1>1, <1>4, <2>1, <2>2, RequestKept DEF CallGuarded, Corporate
<1>. QED BY <1>2, <1>3, <1>5 DEF Guarded

\* Calls and cleaned rows are guarded in every state.
THEOREM GuardedHolds == Spec => []Guarded
<1>1. Init => Guarded
  BY DEF Init, Guarded, RowsGuarded, CurrentGuarded, CallGuarded, IdleCall
<1>. QED BY <1>1, GuardedKept, InvHolds, PTL DEF Spec

--------------------------------------------------------------------------------
\* Every update of upload_sessions, by whatever handler and after whatever
\* interleaving, is one the trigger validate_upload_session_update accepts:
\* finalized, expired and failed_terminal sessions are never revived.
THEOREM UpdatesAccepted == Spec => UpdatesPassTrigger
<1>1. IInv /\ Guarded /\ [Next]_vars =>
        \A s \in Sessions : row[s].state # "absent" => TriggerAllows(row[s], row'[s])
  <2>. SUFFICES ASSUME IInv, Guarded, [Next]_vars, NEW s \in Sessions, row[s].state # "absent"
                PROVE  TriggerAllows(row[s], row'[s])
    OBVIOUS
  <2>1. row[s].orphanDeleted => row[s].state = "expired"
    BY DEF Guarded, RowsGuarded
  <2>. QED BY <2>1, StepShape, RowOutcome DEF Update, Keeps, TriggerAllows, TransitionAllowed
<1>. QED BY <1>1, InvHolds, GuardedHolds, PTL DEF Spec, UpdatesPassTrigger

\* Version numbers are numbers.
LEMMA NumberedVersions == ASSUME IInv, NEW s \in Sessions PROVE row[s].version \in Nat
<1>1. row[s].version \in Versions \cup {0} /\ Versions \cup {0} \subseteq Nat
  BY RowAt, VersionAssumption DEF RowType, VersionsOrZero
<1>. QED BY <1>1

\* A publication keeps a higher current version, or takes the place of a lower one
\* or of none, or was overtaken: it had another one in its snapshot.
LEMMA PublishedCurrent ==
  ASSUME IInv, Guarded, NEW s \in Sessions, Published(s), NEW c, c = current[DocOf[s]]
  PROVE  \/ c # None /\ row[c].version > row[s].version /\ current' = current
         \/ /\ current' = [current EXCEPT ![DocOf[s]] = s]
            /\ \/ c = None
               \/ row[s].version > row[c].version
               \/ \E p \in Procs : /\ At(p, "commit") /\ S(p) = s
                                   /\ call[p].cur \in VersionsOf(DocOf[s]) \ {None, c}
<1>1. PICK p \in Procs : /\ At(p, "commit") /\ S(p) = s /\ DocumentFound(p)
                         /\ current' = [current EXCEPT ![DocOf[s]] = NewCurrent(s, call[p].cur)]
  BY DEF Published
<1>2. DocOf[s] \in Documents /\ current \in [Documents -> Sessions \cup {None}]
  BY VersionAssumption DEF IInv, TypeOK
<1>3. CASE c = None
  BY <1>1, <1>3 DEF NewCurrent
<1>4. CASE c # None
  <2>1. c \in Sessions /\ c \in VersionsOf(DocOf[s])
    BY <1>2, <1>4 DEF Guarded, CurrentGuarded
  <2>2. row[c].version \in Nat /\ row[s].version \in Nat /\ row[c].version # row[s].version
    BY <2>1, NumberedVersions DEF Published, VersionTaken, VersionsOf
  <2>3. CASE call[p].cur = c
    <3>1. NewCurrent(s, call[p].cur) = IF row[s].version <= row[c].version THEN c ELSE s
      BY <1>4, <2>3 DEF NewCurrent
    <3>2. [current EXCEPT ![DocOf[s]] = c] = current
      BY <1>2
    <3>3. CASE row[s].version <= row[c].version
      BY <1>1, <1>4, <2>2, <3>1, <3>2, <3>3
    <3>4. CASE row[s].version > row[c].version
      <4>1. NewCurrent(s, call[p].cur) = s
        BY <2>2, <3>1, <3>4
      <4>. QED BY <1>1, <3>4, <4>1
    <3>. QED BY <2>2, <3>3, <3>4
  <2>4. CASE call[p].cur # c
    <3>1. NewCurrent(s, call[p].cur) = s
      BY <2>4 DEF NewCurrent
    <3>2. call[p].cur # None
      BY <1>1, <1>4 DEF DocumentFound
    <3>3. call[p].cur \in VersionsOf(DocOf[s])
      BY <1>1, <3>2 DEF Guarded, CallGuarded, At, S
    <3>. QED BY <1>1, <2>4, <3>1, <3>2, <3>3
  <2>. QED BY <2>3, <2>4
<1>. QED BY <1>3, <1>4

\* A publication keeps the versions of its document consistent: with a third one
\* nothing is said of their order.
LEMMA PublishedConsistent ==
  ASSUME IInv, Guarded, VersionsConsistent, NEW s \in Sessions, Published(s), Shape
  PROVE  VersionsConsistent'
<1>. SUFFICES ASSUME NEW d \in Documents
     PROVE  /\ \A x, y \in VersionsOf(d)' : row'[x].version = row'[y].version => x = y
            /\ IF VersionsOf(d)' = {} THEN current'[d] = None ELSE current'[d] \in VersionsOf(d)'
            /\ \A x, y \in VersionsOf(d)' :
                 VersionsOf(d)' = {x, y} => row'[x].version <= row'[current'[d]].version
  BY DEF VersionsConsistent, VersionsOf
<1>. DEFINE old == VersionsOf(d)
            new == VersionsOf(d)'
            c == current[d]
            V(x) == row[x].version
<1>1. files' = files \cup {s} /\ ~VersionTaken(s) /\ row[s].state = "provider_finalized"
  BY DEF Published
<1>2. /\ files \subseteq Sessions /\ DocOf[s] \in Documents
      /\ current \in [Documents -> Sessions \cup {None}]
  BY VersionAssumption DEF IInv, TypeOK
<1>3. \A x \in files \cup {s} : x \in Sessions /\ row'[x].version = V(x) /\ V(x) \in Nat
  <2>1. \A x \in files \cup {s} : x \in Sessions /\ row[x].state # "absent"
    BY <1>1, <1>2 DEF IInv, PublishedHasBytes
  <2>. QED BY <2>1, RequestKept, NumberedVersions
<1>4. /\ \A x, y \in old : V(x) = V(y) => x = y
      /\ IF old = {} THEN c = None ELSE c \in old
      /\ \A x, y \in old : old = {x, y} => V(x) <= V(c)
  BY DEF VersionsConsistent
<1>5. old \subseteq files
  BY DEF VersionsOf
<1>6. CASE DocOf[s] # d
  <2>1. new = old
    BY <1>1, <1>6 DEF VersionsOf
  <2>2. current'[d] = c
    BY <1>2, <1>6 DEF Published
  <2>3. \A x \in new : row'[x].version = V(x)
    BY <1>3, <1>5, <2>1
  <2>4. new # {} => c \in new
    BY <1>4, <2>1
  <2>. HIDE DEF old, new, c, V
  <2>5. \A x, y \in new : row'[x].version = row'[y].version => x = y
    BY <1>4, <2>1, <2>3
  <2>6. IF new = {} THEN current'[d] = None ELSE current'[d] \in new
    BY <1>4, <2>1, <2>2
  <2>7. \A x, y \in new : new = {x, y} => row'[x].version <= row'[current'[d]].version
    BY <1>4, <2>1, <2>2, <2>3, <2>4
  <2>. QED BY <2>5, <2>6, <2>7 DEF new
<1>7. CASE DocOf[s] = d
  <2>1. new = old \cup {s}
    BY <1>1, <1>7 DEF VersionsOf
  <2>2. \A x \in old : V(x) # V(s) /\ x # s
    BY <1>1, <1>7 DEF VersionTaken, VersionsOf
  <2>3. \A x \in new : row'[x].version = V(x) /\ V(x) \in Nat
    BY <1>3, <1>5, <2>1
  <2>4. \/ c # None /\ V(c) > V(s) /\ current'[d] = c
        \/ /\ current'[d] = s
           /\ \/ c = None
              \/ V(s) > V(c)
              \/ \E t \in old : t # c
    BY <1>2, <1>7, PublishedCurrent
  <2>5. c # None => c \in old
    BY <1>4
  <2>10. None \notin old
    BY <1>2, <1>5, SessionsAssumption
  <2>. HIDE DEF old, new, c, V
  <2>6. \A x, y \in new : row'[x].version = row'[y].version => x = y
    BY <1>4, <2>1, <2>2, <2>3
  <2>7. current'[d] \in new
    BY <2>1, <2>4, <2>5
  <2>8. ASSUME NEW x \in new, NEW y \in new, new = {x, y}
        PROVE  row'[x].version <= row'[current'[d]].version
    <3>1. CASE c = None
      <4>1. old = {} BY <1>4, <2>10, <3>1
      <4>2. x = s /\ current'[d] = s BY <2>1, <2>4, <3>1, <4>1
      <4>. QED BY <2>3, <2>8, <4>2
    <3>2. CASE c # None
      <4>1. c \in old /\ c # s /\ {x, y} = {c, s} BY <2>1, <2>2, <2>5, <2>8, <3>2
      <4>2. \A t \in old : t = c BY <2>1, <2>2, <2>8, <4>1
      <4>3. x \in {c, s} BY <4>1
      <4>. QED BY <2>1, <2>3, <2>4, <2>8, <3>2, <4>1, <4>2, <4>3
    <3>. QED BY <3>1, <3>2
  <2>. QED BY <2>6, <2>7, <2>8 DEF new
<1>. QED BY <1>6, <1>7

\* So does any other step: it publishes nothing.
LEMMA ConsistentKept ==
  ASSUME IInv, Guarded, Shape, VersionsConsistent PROVE VersionsConsistent'
<1>1. CASE UNCHANGED ledger
  <2>1. \A x \in files : x \in Sessions /\ row'[x].version = row[x].version
    <3>1. \A x \in files : x \in Sessions /\ row[x].state # "absent"
      BY DEF IInv, TypeOK, PublishedHasBytes
    <3>. QED BY <3>1, RequestKept
  <2>2. \A d : VersionsOf(d)' = VersionsOf(d) /\ VersionsOf(d) \subseteq files
    BY <1>1 DEF VersionsOf, ledger
  <2>3. current' = current
    BY <1>1 DEF ledger
  <2>. SUFFICES ASSUME NEW d \in Documents
       PROVE  /\ \A x, y \in VersionsOf(d) : row'[x].version = row'[y].version => x = y
              /\ IF VersionsOf(d) = {} THEN current[d] = None ELSE current[d] \in VersionsOf(d)
              /\ \A x, y \in VersionsOf(d) :
                   VersionsOf(d) = {x, y} => row'[x].version <= row'[current[d]].version
    BY <2>2, <2>3 DEF VersionsConsistent
  <2>4. /\ \A x, y \in VersionsOf(d) : row[x].version = row[y].version => x = y
        /\ IF VersionsOf(d) = {} THEN current[d] = None ELSE current[d] \in VersionsOf(d)
        /\ \A x, y \in VersionsOf(d) :
             VersionsOf(d) = {x, y} => row[x].version <= row[current[d]].version
    BY DEF VersionsConsistent
  <2>. QED BY <2>1, <2>2, <2>4
<1>2. ASSUME NEW s \in Sessions, Published(s) PROVE VersionsConsistent'
  BY <1>2, PublishedConsistent
<1>. QED BY <1>1, <1>2 DEF Shape, Silent, Updated, Created

\* The version numbers of a document are unique, its current version is one of its
\* versions as soon as it has one, and the higher one as long as it has two: for any
\* number of publications at once it takes a third version to go back.
THEOREM VersionsHold == Spec => []VersionsConsistent
<1>1. Init => VersionsConsistent
  BY DEF Init, VersionsConsistent, VersionsOf
<1>2. IInv /\ Guarded /\ VersionsConsistent /\ [Next]_vars => VersionsConsistent'
  BY StepShape, ConsistentKept
<1>. QED BY <1>1, <1>2, InvHolds, GuardedHolds, PTL DEF Spec

\* The version that readers of a document get goes back only in a publication that
\* another one overtook between its snapshot of the document and its lock.
THEOREM GoesBackOvertaken == Spec => OnlyOvertakenGoesBack
<1>. DEFINE Allowed ==
       \A d \in Documents :
         current[d] # None /\ current'[d] # current[d]
           => \/ row'[current'[d]].version > row[current[d]].version
              \/ \E p \in Procs : /\ At(p, "commit") /\ S(p) = current'[d]
                                 /\ call[p].cur \notin {None, current[d]}
<1>1. IInv /\ Guarded /\ [Next]_vars => Allowed
  <2>. SUFFICES ASSUME IInv, Guarded, Shape, NEW d \in Documents,
                       current[d] # None, current'[d] # current[d]
                PROVE  \/ row'[current'[d]].version > row[current[d]].version
                       \/ \E p \in Procs : /\ At(p, "commit") /\ S(p) = current'[d]
                                          /\ call[p].cur \notin {None, current[d]}
    BY StepShape
  <2>1. PICK s \in Sessions : Published(s)
    BY DEF Shape, Silent, Updated, Created, ledger
  <2>2. current \in [Documents -> Sessions \cup {None}] /\ DocOf[s] = d
    BY <2>1, VersionAssumption DEF IInv, TypeOK, Published
  <2>3. row'[s].version = row[s].version
    BY <2>1, RequestKept DEF Published
  <2>. QED BY <2>1, <2>2, <2>3, PublishedCurrent
<1>. QED BY <1>1, InvHolds, GuardedHolds, PTL DEF Spec, OnlyOvertakenGoesBack

--------------------------------------------------------------------------------
\* Bytes disappear only in the hands of a call that deletes an orphan.
BytesStep ==
  \A t \in Sessions : t \in staged \cup committed =>
    \/ t \in (staged \cup committed)'
    \/ \E p \in Procs : /\ call[p].pc \in {"discard", "cleanDelete"} /\ S(p) = t
                        /\ call'[p] # call[p]

\* Every step is like that: publishing copies the bytes before it removes them.
LEMMA BytesDeleted == IInv /\ Guarded /\ [Next]_vars => BytesStep
<1>. SUFFICES ASSUME IInv, Guarded, [Next]_vars PROVE BytesStep
  OBVIOUS
<1>1. ASSUME NEW p \in Procs, DiscardStaged(p) \/ DeleteOrphan(p) PROVE BytesStep
  <2>1. /\ call[p].pc \in {"discard", "cleanDelete"}
        /\ staged' = staged \ {S(p)} /\ UNCHANGED committed
    BY <1>1 DEF DiscardStaged, DeleteOrphan, At
  <2>2. call'[p].pc \in {"idle", "cleanRecord"}
    <3>1. call'[p] = IdleCall \/ call'[p] = [IdleCall EXCEPT !.pc = "cleanRecord", !.s = S(p)]
      BY <1>1 DEF DiscardStaged, DeleteOrphan, Stop, Goto, IInv, CallsOK
    <3>2. IdleCall.pc = "idle" /\ [IdleCall EXCEPT !.pc = "cleanRecord", !.s = S(p)].pc = "cleanRecord"
      BY DEF IdleCall
    <3>. QED BY <3>1, <3>2
  <2>. QED BY <2>1, <2>2 DEF BytesStep
<1>2. ASSUME staged \cup committed \subseteq (staged \cup committed)' PROVE BytesStep
  BY <1>2 DEF BytesStep
<1>3. CASE UNCHANGED store
  BY <1>2, <1>3 DEF store
<1>4. ASSUME NEW p \in Procs, StageObject(p) \/ FinalizeObject(p) PROVE BytesStep
  BY <1>2, <1>4 DEF StageObject, FinalizeObject
<1>5. ASSUME NEW p \in Procs, NEW s \in Sessions, BeginFinalize(p, s) \/ BeginCleanup(p, s) PROVE BytesStep
  BY <1>3, <1>5 DEF BeginFinalize, BeginCleanup
<1>6. ASSUME NEW p \in Procs, Continue(p) PROVE BytesStep
  <2>1. CASE \/ StageRefusedMidway(p) \/ MarkBytesStored(p) \/ StatStaged(p) \/ EnsureBytesStored(p)
             \/ ClaimProviderFinalize(p) \/ ReadForFinalize(p) \/ PersistProviderFinalized(p)
             \/ ReadDocument(p) \/ InsertionWaited(p) \/ CommitMetadata(p)
             \/ RecordOrphanDeleted(p) \/ Decide(p)
             \/ MarkIntakeGuardManualRecovery(p) \/ AdvanceExpiredIntakeGuard(p)
             \/ PreserveCorporateUpload(p) \/ ReleaseReconciliationClaim(p)
    <3>1. UNCHANGED store
      BY <2>1 DEF StageRefusedMidway, MarkBytesStored, StatStaged, EnsureBytesStored,
         ClaimProviderFinalize, ReadForFinalize, PersistProviderFinalized, ReadDocument,
         InsertionWaited, CommitMetadata,
         RecordOrphanDeleted, Decide, MarkIntakeGuardManualRecovery, AdvanceExpiredIntakeGuard,
         PreserveCorporateUpload, ReleaseReconciliationClaim, store
    <3>. QED BY <1>3, <3>1
  <2>. QED BY <1>1, <1>4, <1>5, <1>6, <2>1 DEF Continue
<1>7. ASSUME NEW p \in Procs, NEW s \in Sessions, Request(p, s) \/ ClaimReconciliation(p, s) PROVE BytesStep
  BY <1>3, <1>5, <1>7 DEF Request, ClaimStage, RefuseStage, ClaimReconciliation
<1>8. ASSUME NEW p \in Procs, CallFails(p) \/ Crash(p) PROVE BytesStep
  BY <1>3, <1>8 DEF CallFails, Crash
<1>9. ASSUME NEW s \in Sessions, CreateUploadSession(s) \/ Elapse(s) \/ RevokeAuthority(s) PROVE BytesStep
  BY <1>3, <1>9 DEF CreateUploadSession, Elapse, LapseStage, LapseFinalize, LapseReconcile,
     BecomeDue, ExpireSession, RevokeAuthority
<1>10. CASE \E d \in Documents : RetainDocument(d) \/ RetentionEnds(d)
  BY <1>3, <1>10 DEF RetainDocument, RetentionEnds
<1>11. CASE UNCHANGED vars
  BY <1>3, <1>11 DEF vars, store
<1>. QED BY <1>6, <1>7, <1>8, <1>9, <1>10, <1>11 DEF Next, Procs

\* "Reconciliation and orphan cleanup cannot delete corporate bytes"
\* (docs/runbooks/corporate-private-workspace.md:106): no step of any call
\* leaves a corporate session without bytes it had.
THEOREM CorporateKept == Spec => CorporateBytesKept
<1>1. IInv /\ Guarded /\ [Next]_vars =>
        \A s \in Sessions : Corporate(s) /\ s \in staged \cup committed => s \in (staged \cup committed)'
  <2>. SUFFICES ASSUME IInv, Guarded, BytesStep, NEW s \in Sessions,
                       Corporate(s), s \in staged \cup committed
                PROVE  s \in (staged \cup committed)'
    BY BytesDeleted
  <2>1. ASSUME NEW p \in Procs, call[p].pc \in {"discard", "cleanDelete"}, S(p) = s PROVE FALSE
    BY <2>1, Working DEF At
  <2>. QED BY <2>1 DEF BytesStep
<1>. QED BY <1>1, InvHolds, GuardedHolds, PTL DEF Spec, CorporateBytesKept

\* Only a client's own call removes the bytes of an Intake session: reconciliation
\* never cleans it up behind its checkpoint's back.
THEOREM IntakeKept == Spec => IntakeBytesKept
<1>1. IInv /\ Guarded /\ [Next]_vars =>
        \A s \in Sessions :
          row[s].kind = "intake" /\ s \in staged \cup committed /\ s \notin (staged \cup committed)'
            => \E c \in Clients : call'[c] # call[c]
  <2>. SUFFICES ASSUME IInv, Guarded, BytesStep, NEW s \in Sessions, row[s].kind = "intake",
                       s \in staged \cup committed, s \notin (staged \cup committed)'
                PROVE  \E c \in Clients : call'[c] # call[c]
    BY BytesDeleted
  <2>1. PICK p \in Procs : /\ call[p].pc \in {"discard", "cleanDelete"} /\ S(p) = s
                           /\ call'[p] # call[p]
    BY DEF BytesStep
  <2>2. p \in Clients
    BY <2>1, Working DEF At
  <2>. QED BY <2>1, <2>2
<1>. QED BY <1>1, InvHolds, GuardedHolds, PTL DEF Spec, IntakeBytesKept

--------------------------------------------------------------------------------
\* The runtime implements DmsPublication.
\* The phase a reader sees of a session in some state.
PhaseOf(state) ==
  IF state = "absent" THEN "none" ELSE IF state = "finalized" THEN "published"
  ELSE IF state \in Closed THEN "closed" ELSE "open"

\* The initial states agree.
LEMMA PublicationInit == Init => Publication!Init
<1>. SUFFICES ASSUME Init PROVE Publication!Init
  OBVIOUS
<1>1. \A s \in Sessions : row[s].state = "absent" /\ row[s].version = 0
  BY DEF Init
<1>2. phase = [s \in Sessions |-> PhaseOf(row[s].state)] /\ number = [s \in Sessions |-> row[s].version]
  BY DEF phase, number, PhaseOf, Closed
<1>3. \A s \in Sessions : PhaseOf(row[s].state) = "none"
  BY <1>1 DEF PhaseOf, Closed
<1>4. phase = [s \in Sessions |-> "none"] /\ number = [s \in Sessions |-> 0]
  BY <1>1, <1>2, <1>3, Zenon
<1>. QED BY <1>4 DEF Init, Publication!Init

\* An accepted transition that does not publish keeps the phase or closes the upload.
LEMMA PhaseMoves ==
  ASSUME NEW from, NEW to, TransitionAllowed(from, to), to = "finalized" <=> from = "finalized"
  PROVE  PhaseOf(to) = PhaseOf(from) \/ (PhaseOf(from) = "open" /\ PhaseOf(to) = "closed")
<1>1. CASE from = to BY <1>1
<1>2. CASE from \notin Closed \cup {"absent", "finalized"} /\ to \notin {"absent", "finalized"}
  BY <1>2 DEF PhaseOf
<1>3. CASE from \in Closed /\ to \in Closed
  BY <1>3 DEF Closed, PhaseOf
<1>. QED BY <1>1, <1>2, <1>3 DEF TransitionAllowed, Closed

\* A step that writes one row changes what readers see of that row at most.
LEMMA Seen ==
  ASSUME IInv, NEW s \in Sessions, Written(s)
  PROVE  /\ phase' = [phase EXCEPT ![s] = PhaseOf(row'[s].state)]
         /\ number' = [number EXCEPT ![s] = row'[s].version]
         /\ phase[s] = PhaseOf(row[s].state) /\ number[s] = row[s].version
         /\ phase = [t \in Sessions |-> PhaseOf(row[t].state)]
         /\ number = [t \in Sessions |-> row[t].version]
<1>1. \A t \in Sessions : t # s => row'[t] = row[t]
  BY DEF Written, IInv, RowsOK
<1>2. phase = [t \in Sessions |-> PhaseOf(row[t].state)] /\ phase' = [t \in Sessions |-> PhaseOf(row'[t].state)]
  BY DEF phase, PhaseOf, Closed
<1>3. number = [t \in Sessions |-> row[t].version] /\ number' = [t \in Sessions |-> row'[t].version]
  BY DEF number
<1>. HIDE DEF phase, number
<1>. QED BY <1>1, <1>2, <1>3

\* A step that writes no row changes nothing readers see of rows.
LEMMA NothingSeen == ASSUME UNCHANGED row PROVE UNCHANGED <<phase, number>>
BY DEF phase, number

\* Each shape is a step of DmsPublication, or invisible to readers.
LEMMA PublicationStep ==
  IInv /\ Guarded /\ [Next]_vars => [Publication!Next]_(Publication!vars)
<1>. SUFFICES ASSUME IInv, Guarded, Shape PROVE Publication!Next \/ UNCHANGED Publication!vars
  BY StepShape
<1>1. CASE Silent
  <2>1. UNCHANGED <<phase, number, current>>
    BY <1>1, NothingSeen DEF Silent, ledger
  <2>2. CASE UNCHANGED committed
    BY <2>1, <2>2 DEF Publication!vars
  <2>3. CASE \E s \in Sessions : committed' = committed \cup {s}
    BY <2>1, <2>3 DEF Publication!Next, Publication!Store
  <2>. QED BY <1>1, <2>2, <2>3 DEF Silent
<1>2. ASSUME NEW s \in Sessions, Updated(s) PROVE Publication!Next \/ UNCHANGED Publication!vars
  <2>1. Written(s) /\ Update(row[s], row'[s]) /\ committed' = committed /\ current' = current
    BY <1>2 DEF Updated, ledger
  <2>2. /\ row'[s].version = row[s].version
        /\ PhaseOf(row'[s].state) = PhaseOf(row[s].state)
             \/ (PhaseOf(row[s].state) = "open" /\ PhaseOf(row'[s].state) = "closed")
    <3>1. /\ row'[s].version = row[s].version
          /\ TransitionAllowed(row[s].state, row'[s].state)
          /\ row'[s].state = "finalized" <=> row[s].state = "finalized"
      BY <2>1 DEF Update, TriggerAllows
    <3>. QED BY <3>1, PhaseMoves
  <2>3. number' = number
    BY <2>1, <2>2, Seen
  <2>4. phase' = phase \/ (phase[s] = "open" /\ phase' = [phase EXCEPT ![s] = "closed"])
    BY <2>1, <2>2, Seen
  <2>. QED BY <2>1, <2>3, <2>4 DEF Publication!Next, Publication!Close, Publication!vars
<1>3. ASSUME NEW s \in Sessions, Created(s) PROVE Publication!Next
  <2>1. /\ phase[s] = "none" /\ phase' = [phase EXCEPT ![s] = "open"]
        /\ row'[s].version \in Versions /\ number' = [number EXCEPT ![s] = row'[s].version]
    BY <1>3, Seen DEF Created, PhaseOf, Closed
  <2>. QED BY <1>3, <2>1 DEF Publication!Next, Publication!Open, Created, ledger
<1>4. ASSUME NEW s \in Sessions, Published(s) PROVE Publication!Next
  <2>1. /\ phase[s] = "open" /\ phase' = [phase EXCEPT ![s] = "published"]
        /\ number' = number
    BY <1>4, Seen DEF Published, PhaseOf, Closed
  <2>2. s \in committed
    BY <1>4 DEF Published, IInv, PublishedHasBytes
  <2>3. \A t \in Sessions : phase[t] = "published" /\ DocOf[t] = DocOf[s] => number[t] # number[s]
    <3>1. \A t \in Sessions : phase[t] = "published" => t \in files
      BY <1>4, Seen DEF Published, PhaseOf, IInv, PublishedHasBytes
    <3>. QED BY <1>4, <3>1, Seen DEF Published, VersionTaken
  <2>4. \/ /\ current[DocOf[s]] # None /\ number[current[DocOf[s]]] > number[s]
           /\ current' = current
        \/ /\ current' = [current EXCEPT ![DocOf[s]] = s]
           /\ current[DocOf[s]] # None /\ number[current[DocOf[s]]] > number[s]
                => \E t \in Sessions \ {current[DocOf[s]]} :
                     phase[t] = "published" /\ DocOf[t] = DocOf[s]
    <3>. DEFINE c == current[DocOf[s]]
    <3>1. DocOf[s] \in Documents /\ c \in Sessions \cup {None}
      BY VersionAssumption DEF IInv, TypeOK
    <3>2. \A t \in Sessions : number[t] = row[t].version /\ number[t] \in Nat
      BY <1>4, Seen, NumberedVersions DEF Published
    <3>3. \A t \in VersionsOf(DocOf[s]) :
            t \in Sessions /\ phase[t] = "published" /\ DocOf[t] = DocOf[s]
      <4>1. \A t \in Sessions : row[t].state = "finalized" => phase[t] = "published"
        BY <1>4, Seen DEF Published, PhaseOf
      <4>. QED BY <4>1 DEF IInv, TypeOK, PublishedHasBytes, VersionsOf
    <3>4. \/ c # None /\ row[c].version > row[s].version /\ current' = current
          \/ /\ current' = [current EXCEPT ![DocOf[s]] = s]
             /\ \/ c = None
                \/ row[s].version > row[c].version
                \/ \E t \in VersionsOf(DocOf[s]) : t # c
      BY <1>4, PublishedCurrent
    <3>. HIDE DEF c
    <3>. QED BY <3>1, <3>2, <3>3, <3>4 DEF c
  <2>. QED BY <1>4, <2>1, <2>2, <2>3, <2>4 DEF Publication!Next, Publication!Publish, Published
<1>. QED BY <1>1, <1>2, <1>3, <1>4 DEF Shape

\* Readers of a document see what DmsPublication describes, whatever the handlers,
\* the reconcilers, the failures and the clock do.
THEOREM PublicationImplemented == Spec => ImplementsPublication
<1>. QED BY PublicationInit, PublicationStep, InvHolds, GuardedHolds, PTL
     DEF Spec, ImplementsPublication, Publication!Spec

-----------------------------------------------------------------------------
(***************************************************************************)
(* Live leases stay with their holders.  RowsLeased, the third inductive   *)
(* invariant, says where a lease can be live: a stage lease before the     *)
(* bytes are stored, a finalize lease while the provider finalizes, either *)
(* one on a dead-lettered row.  So a handler that clears a lease outside   *)
(* these states takes nothing.                                             *)
(***************************************************************************)

RowLeases(r) ==
  /\ r.stageLive => r.state \in {"pending", "failed", "failed_terminal"}
  /\ r.finLive => r.state \in {"provider_finalizing", "failed_terminal"}

RowsLeased == \A s \in Sessions : RowLeases(row[s])

\* The processes whose call takes this step.
Movers == {p \in Procs : call'[p] # call[p]}

\* An update that takes a live lease only from a mover, or to close the session.
Respects(old, new) ==
  RowLeases(old) =>
    /\ RowLeases(new)
    /\ old.stageLive => \/ new.stageTok = old.stageTok \/ old.stageTok \in Movers
                        \/ new.state = "failed_terminal"
    /\ old.finLive => \/ new.finTok = old.finTok \/ old.finTok \in Movers
                      \/ new.state = "failed_terminal"

LeaseStep == \A s \in Sessions : Respects(row[s], row'[s])

--------------------------------------------------------------------------------
\* A step that writes no row takes no lease.
LEMMA NothingTaken == ASSUME UNCHANGED row PROVE LeaseStep
BY DEF LeaseStep, Respects

\* Nor does one that writes one row and respects its leases.
LEMMA RespectedWrite ==
  ASSUME IInv, NEW s \in Sessions, NEW r, Write(s, r), Respects(row[s], r) PROVE LeaseStep
<1>1. \A t \in Sessions : row'[t] = IF t = s THEN r ELSE row[t]
  BY DEF IInv, RowsOK, Write
<1>2. \A t \in Sessions : Respects(row[t], row[t])
  BY DEF Respects
<1>. QED BY <1>1, <1>2 DEF LeaseStep

\* An update that leaves both leases alone, but for time, and keeps or closes the session.
SameLeases(old, new) ==
  /\ new.stageTok = old.stageTok /\ new.finTok = old.finTok
  /\ new.stageLive => old.stageLive
  /\ new.finLive => old.finLive
  /\ new.state \in {old.state, "failed_terminal"}

\* Such an update respects them.
LEMMA SameRespects == ASSUME NEW old, NEW new, SameLeases(old, new) PROVE Respects(old, new)
BY DEF SameLeases, Respects, RowLeases

\* A holder that ends its step moves.
LEMMA Moved ==
  ASSUME IInv, NEW p \in Procs, NEW s, call[p].pc \in {"stage", "mark", "read", "put", "persist"},
         Fail(p, s) \/ Stop(p) \/ Goto(p, s, "discard") \/ Goto(p, s, "publish")
  PROVE  p \in Movers
<1>1. \A c : call' = [call EXCEPT ![p] = c] => call'[p] = c
  BY DEF IInv, CallsOK
<1>2. /\ IdleCall.pc = "idle"
      /\ \A pc : [IdleCall EXCEPT !.pc = pc, !.s = s].pc = pc
      /\ \A out : [IdleCall EXCEPT !.pc = "release", !.s = s, !.out = out].pc = "release"
  BY DEF IdleCall
<1>3. call'[p].pc \in {"release", "preserve", "idle", "discard", "publish"}
  <2>1. CASE Stop(p)
    BY <1>1, <1>2, <2>1 DEF Stop
  <2>2. ASSUME NEW pc \in {"discard", "publish", "preserve"}, Goto(p, s, pc)
        PROVE  call'[p].pc = pc
    BY <1>1, <1>2, <2>2, Zenon DEF Goto
  <2>3. ASSUME Release(p, s, "error") PROVE call'[p].pc = "release"
    BY <1>1, <1>2, <2>3, Zenon DEF Release
  <2>. QED BY <2>1, <2>2, <2>3 DEF Fail
<1>. QED BY <1>3 DEF Movers

\* recordStageFailure and recordFinalizeFailure look at the token.
LEMMA FailureRespects ==
  ASSUME IInv, NEW s \in Sessions, NEW p \in Movers, StageFailed(p, s) \/ FinalizeFailed(p, s)
  PROVE  LeaseStep
<1>. DEFINE x == row[s]
            a == [ClearStage(x) EXCEPT
                    !.state = IF @ \in {"pending", "failed"} THEN "failed" ELSE @]
            b == [ClearFinalize(x) EXCEPT
                    !.state = IF @ = "provider_finalizing" THEN "bytes_stored" ELSE @]
<1>1. x \in RowType
  BY RowAt
<1>2. UNCHANGED row \/ (x.stageTok = p /\ Write(s, a)) \/ (x.finTok = p /\ Write(s, b))
  BY Zenon DEF StageFailed, FinalizeFailed
<1>3. /\ a.stageLive = FALSE /\ a.finLive = x.finLive /\ a.finTok = x.finTok
      /\ a.state = IF x.state \in {"pending", "failed"} THEN "failed" ELSE x.state
  BY <1>1 DEF RowType, ClearStage
<1>4. /\ b.finLive = FALSE /\ b.stageLive = x.stageLive /\ b.stageTok = x.stageTok
      /\ b.state = IF x.state = "provider_finalizing" THEN "bytes_stored" ELSE x.state
  BY <1>1 DEF RowType, ClearFinalize
<1>. HIDE DEF a, b, x
<1>5. x.stageTok = p => Respects(x, a)
  BY <1>3 DEF Respects, RowLeases
<1>6. x.finTok = p => Respects(x, b)
  BY <1>4 DEF Respects, RowLeases
<1>. QED BY <1>2, <1>5, <1>6, NothingTaken, RespectedWrite DEF x

\* markBytesStored: by the holder in stageUpload, without one in ensureBytesStored.
LEMMA MarkRespects ==
  ASSUME IInv, NEW p \in Procs, MarkBytesStored(p) \/ EnsureBytesStored(p) PROVE LeaseStep
<1>. DEFINE s == S(p)
            x == row[s]
            r == StoredRow(s)
<1>1. s \in Sessions /\ x \in RowType
  BY Held, RowAt DEF MarkBytesStored, EnsureBytesStored, At
<1>2. MarkBytesStored(p) => p \in Movers
  <2>. SUFFICES ASSUME MarkBytesStored(p) PROVE p \in Movers
    OBVIOUS
  <2>1. call[p].pc = "mark" /\ (Fail(p, s) \/ Stop(p) \/ Goto(p, s, "discard"))
    BY DEF MarkBytesStored, At
  <2>. QED BY <2>1, Moved
<1>3. \/ UNCHANGED row \/ (p \in Movers /\ StageFailed(p, s))
      \/ /\ x.state \in {"pending", "failed"} /\ Write(s, r)
         /\ x.stageLive => x.stageTok \in Movers
  BY <1>2 DEF MarkBytesStored, EnsureBytesStored
<1>4. r.stageLive = FALSE /\ r.finLive = x.finLive /\ r.state = "bytes_stored"
  BY <1>1 DEF RowType, StoredRow, ClearStage
<1>. HIDE DEF s, r
<1>5. x.state \in {"pending", "failed"} /\ (x.stageLive => x.stageTok \in Movers) => Respects(x, r)
  BY <1>4 DEF Respects, RowLeases
<1>. QED BY <1>1, <1>3, <1>5, NothingTaken, FailureRespects, RespectedWrite

\* The leases themselves are taken only when none is live.
LEMMA ClaimRespects ==
  ASSUME IInv, NEW p \in Procs, NEW s \in Sessions,
         ClaimStage(p, s) \/ (ClaimProviderFinalize(p) /\ s = S(p))
  PROVE  LeaseStep
<1>. DEFINE x == row[s]
            a == [x EXCEPT !.stageTok = p, !.stageLive = TRUE, !.due = FALSE]
            b == [x EXCEPT !.state = "provider_finalizing", !.finTok = p, !.finLive = TRUE]
<1>1. x \in RowType
  BY RowAt
<1>2. \/ UNCHANGED row
      \/ x.state \in {"pending", "failed"} /\ ~x.stageLive /\ Write(s, a)
      \/ x.state \in {"bytes_stored", "provider_finalizing"} /\ ~x.finLive /\ Write(s, b)
  BY DEF ClaimStage, StageLeaseFree, ClaimProviderFinalize
<1>3. a.state = x.state /\ a.finLive = x.finLive /\ a.finTok = x.finTok
  BY <1>1 DEF RowType
<1>4. b.state = "provider_finalizing" /\ b.stageLive = x.stageLive /\ b.stageTok = x.stageTok
  BY <1>1 DEF RowType
<1>. HIDE DEF a, b
<1>5. x.state \in {"pending", "failed"} /\ ~x.stageLive => Respects(x, a)
  BY <1>3 DEF Respects, RowLeases
<1>6. x.state \in {"bytes_stored", "provider_finalizing"} /\ ~x.finLive => Respects(x, b)
  BY <1>4 DEF Respects, RowLeases
<1>. QED BY <1>2, <1>5, <1>6, NothingTaken, RespectedWrite

\* The receipt is written by the holder of the finalize lease, who then moves on.
LEMMA ReceiptRespects ==
  ASSUME IInv, NEW p \in Procs, ReadForFinalize(p) \/ PersistProviderFinalized(p) PROVE LeaseStep
<1>. DEFINE s == S(p)
            x == row[s]
            r == [ClearFinalize(x) EXCEPT !.state = "provider_finalized"]
<1>1. s \in Sessions /\ x \in RowType /\ call[p].pc \in {"read", "persist"}
  BY Held, RowAt DEF ReadForFinalize, PersistProviderFinalized, At
<1>2. \/ UNCHANGED row \/ (Fail(p, s) /\ FinalizeFailed(p, s))
      \/ /\ x.state = "provider_finalizing" /\ x.finTok = p /\ Write(s, r) /\ Goto(p, s, "publish")
  BY DEF ReadForFinalize, PersistProviderFinalized
<1>3. r.stageLive = x.stageLive /\ r.stageTok = x.stageTok /\ r.finLive = FALSE
      /\ r.state = "provider_finalized"
  BY <1>1 DEF RowType, ClearFinalize
<1>4. Fail(p, s) \/ Goto(p, s, "publish") => p \in Movers
  BY <1>1, Moved
<1>. HIDE DEF s, r
<1>5. x.state = "provider_finalizing" /\ x.finTok = p /\ p \in Movers => Respects(x, r)
  BY <1>3 DEF Respects, RowLeases
<1>. QED BY <1>1, <1>2, <1>4, <1>5, NothingTaken, FailureRespects, RespectedWrite

\* commitMetadata and the Intake recovery find both leases gone.
LEMMA FinalizedRespects ==
  ASSUME IInv, NEW p \in Procs, CommitMetadata(p) \/ AdvanceExpiredIntakeGuard(p) PROVE LeaseStep
<1>. DEFINE s == S(p)
            x == row[s]
            a == [ClearFinalize(ClearStage(x)) EXCEPT !.state = "finalized"]
            counted == [ClearReconcile(ClearFinalize(x)) EXCEPT !.attempts = @ + 1]
            closed == Terminal(ClearStage(counted), "intake_post")
            last == x.attempts + 1 >= MaxAttempts
            b == [(IF last THEN closed ELSE counted) EXCEPT !.due = last]
<1>1. s \in Sessions /\ x \in RowType
  BY Held, RowAt DEF CommitMetadata, AdvanceExpiredIntakeGuard, At
<1>3. a.stageLive = FALSE /\ a.finLive = FALSE /\ a.state = "finalized"
  BY <1>1 DEF RowType, ClearFinalize, ClearStage
<1>2. UNCHANGED row \/ (x.state = "provider_finalized" /\ (Write(s, a) \/ Write(s, b)))
  <2>1. CASE AdvanceExpiredIntakeGuard(p)
    BY <2>1 DEF AdvanceExpiredIntakeGuard
  <2>2. CASE CommitMetadata(p)
    <3>1. UNCHANGED row \/ (~VersionTaken(s) /\ TriggerAllows(x, a) /\ Write(s, a))
      BY <2>2 DEF CommitMetadata
    <3>. HIDE DEF a, s
    <3>. QED BY <1>1, <1>3, <3>1, PublishesOnce
  <2>. QED BY <2>1, <2>2
<1>4. (b.stageLive => x.stageLive) /\ b.finLive = FALSE
  <2>1. [counted EXCEPT !.due = last].stageLive = x.stageLive /\ [counted EXCEPT !.due = last].finLive = FALSE
    BY <1>1 DEF RowType, ClearReconcile, ClearFinalize
  <2>2. [closed EXCEPT !.due = last].stageLive = FALSE /\ [closed EXCEPT !.due = last].finLive = FALSE
    BY <1>1 DEF RowType, ClearReconcile, ClearFinalize, ClearStage, Terminal
  <2>. HIDE DEF counted, closed, last
  <2>. QED BY <2>1, <2>2
<1>. HIDE DEF s, a, b
<1>5. x.state = "provider_finalized" => Respects(x, a) /\ Respects(x, b)
  BY <1>3, <1>4 DEF Respects, RowLeases
<1>. QED BY <1>1, <1>2, <1>5, NothingTaken, RespectedWrite

\* A cleanup starts only without a live stage lease.
LEMMA CleanupRespects ==
  ASSUME IInv, NEW p \in Procs, NEW s \in Sessions, BeginFinalize(p, s) \/ BeginCleanup(p, s)
  PROVE  LeaseStep
<1>. DEFINE x == row[s]
            r == [x EXCEPT !.state = "expired", !.stageLive = FALSE]
<1>1. x \in RowType
  BY RowAt
<1>2. UNCHANGED row \/ (CleanupAllowed(s) /\ Write(s, r))
  BY DEF BeginFinalize, BeginCleanup
<1>3. r.stageLive = FALSE /\ r.stageTok = x.stageTok /\ r.finLive = x.finLive
  BY <1>1 DEF RowType
<1>. HIDE DEF r
<1>4. CleanupAllowed(s) => Respects(x, r)
  BY <1>3 DEF Respects, RowLeases, CleanupAllowed
<1>. QED BY <1>2, <1>4, NothingTaken, RespectedWrite

\* Dead letters may take leases: they close the session.
LEMMA ClosingRespects ==
  ASSUME IInv, NEW p \in Procs,
         MarkIntakeGuardManualRecovery(p) \/ PreserveCorporateUpload(p) \/ ReleaseReconciliationClaim(p)
  PROVE  LeaseStep
<1>. DEFINE s == S(p)
            x == row[s]
            intake == [Terminal(ClearLeases(x), "intake_pre") EXCEPT !.due = TRUE]
            preserved == Terminal(ClearLeases(x), "corporate")
            counted == CountedFailure(x)
            released == [ClearReconcile(x) EXCEPT !.due = (call[p].out = "ok")]
<1>1. s \in Sessions /\ x \in RowType
  BY Held, RowAt DEF MarkIntakeGuardManualRecovery, PreserveCorporateUpload, ReleaseReconciliationClaim, At
<1>2. \/ UNCHANGED row \/ Write(s, intake) \/ Write(s, preserved)
      \/ Write(s, counted) \/ Write(s, released)
  BY DEF MarkIntakeGuardManualRecovery, PreserveCorporateUpload, ReleaseReconciliationClaim
<1>3. /\ intake.state = "failed_terminal" /\ preserved.state = "failed_terminal"
  BY <1>1 DEF RowType, Terminal, ClearLeases, ClearStage, ClearFinalize, ClearReconcile
<1>4. SameLeases(x, counted)
  BY <1>1 DEF RowType, SameLeases, Terminal, ClearReconcile, CountedFailure
<1>5. SameLeases(x, released)
  BY <1>1 DEF RowType, SameLeases, ClearReconcile
<1>. HIDE DEF s, intake, preserved, counted, released
<1>6. Respects(x, intake) /\ Respects(x, preserved)
  BY <1>3 DEF Respects, RowLeases
<1>. QED BY <1>1, <1>2, <1>4, <1>5, <1>6, SameRespects, NothingTaken, RespectedWrite

\* The other writes leave the leases to time.
LEMMA OtherRespects ==
  ASSUME IInv, NEW s \in Sessions,
         \/ Elapse(s)
         \/ \E p \in Procs : ClaimReconciliation(p, s) \/ (RecordOrphanDeleted(p) /\ S(p) = s)
  PROVE  LeaseStep
<1>. DEFINE x == row[s]
<1>1. x \in RowType
  BY RowAt
<1>2. /\ SameLeases(x, [x EXCEPT !.stageLive = FALSE])
      /\ SameLeases(x, [x EXCEPT !.finLive = FALSE])
      /\ SameLeases(x, [x EXCEPT !.recLive = FALSE])
      /\ SameLeases(x, [x EXCEPT !.due = TRUE])
      /\ SameLeases(x, [x EXCEPT !.past = TRUE])
      /\ SameLeases(x, [x EXCEPT !.orphanDeleted = TRUE])
      /\ \A w : SameLeases(x, [x EXCEPT !.owner = w, !.recLive = TRUE])
  BY <1>1 DEF RowType, SameLeases
<1>3. UNCHANGED row \/ \E r : Write(s, r) /\ SameLeases(x, r)
  BY <1>2 DEF Elapse, LapseStage, LapseFinalize, LapseReconcile, BecomeDue, ExpireSession,
     ClaimReconciliation, RecordOrphanDeleted
<1>. HIDE DEF x
<1>. QED BY <1>3, SameRespects, NothingTaken, RespectedWrite DEF x

\* A new session has no leases.
LEMMA CreateRespects ==
  ASSUME IInv, NEW s \in Sessions, CreateUploadSession(s) PROVE LeaseStep
<1>1. PICK kind \in Kinds, version \in Versions :
        Write(s, [row[s] EXCEPT !.state = "pending", !.kind = kind,
                                !.version = version, !.due = (kind = "plain")])
  BY DEF CreateUploadSession
<1>. DEFINE r == [row[s] EXCEPT !.state = "pending", !.kind = kind,
                                !.version = version, !.due = (kind = "plain")]
<1>2. r.stageLive = row[s].stageLive /\ r.finLive = row[s].finLive
  BY RowAt DEF RowType
<1>3. Respects(row[s], r)
  <2>. HIDE DEF r
  <2>. QED BY <1>2 DEF Respects, RowLeases, CreateUploadSession
<1>. QED BY <1>1, <1>3, RespectedWrite

\* A failing call gives up its own lease only.
LEMMA FailsRespects ==
  ASSUME IInv, NEW p \in Procs, CallFails(p) \/ Crash(p) PROVE LeaseStep
<1>1. S(p) \in Sessions
  BY Held DEF CallFails, Crash, At
<1>2. CASE UNCHANGED row
  BY <1>2, NothingTaken
<1>3. CASE /\ call[p].pc \in {"stage", "mark", "read", "put", "persist"} /\ Fail(p, S(p))
           /\ StageFailed(p, S(p)) \/ FinalizeFailed(p, S(p))
  <2>1. p \in Movers
    BY <1>3, Moved
  <2>. QED BY <1>1, <1>3, <2>1, FailureRespects
<1>. QED BY <1>2, <1>3 DEF CallFails, Crash, At

--------------------------------------------------------------------------------
\* Every step respects live leases, as long as they are where they belong.
THEOREM LeasesRespectedStep == IInv /\ [Next]_vars => LeaseStep
<1>. SUFFICES ASSUME IInv, [Next]_vars PROVE LeaseStep
  OBVIOUS
<1>1. ASSUME NEW p \in Procs,
             \/ StageObject(p) \/ StageRefusedMidway(p) \/ DiscardStaged(p) \/ StatStaged(p)
             \/ FinalizeObject(p) \/ DeleteOrphan(p) \/ Decide(p)
             \/ ReadDocument(p) \/ InsertionWaited(p)
      PROVE  LeaseStep
  BY <1>1, NothingTaken DEF StageObject, StageRefusedMidway, DiscardStaged, StatStaged,
     FinalizeObject, DeleteOrphan, Decide, ReadDocument, InsertionWaited
<1>2. ASSUME NEW p \in Procs, ClaimProviderFinalize(p) \/ RecordOrphanDeleted(p) PROVE LeaseStep
  <2>1. S(p) \in Sessions
    BY <1>2, Held DEF ClaimProviderFinalize, RecordOrphanDeleted, At
  <2>. QED BY <1>2, <2>1, ClaimRespects, OtherRespects
<1>3. ASSUME NEW p \in Procs, Continue(p) PROVE LeaseStep
  BY <1>1, <1>2, <1>3, MarkRespects, ReceiptRespects, FinalizedRespects, CleanupRespects,
     ClosingRespects DEF Continue
<1>4. ASSUME NEW p \in Clients, NEW s \in Sessions, Request(p, s) PROVE LeaseStep
  BY <1>4, NothingTaken, ClaimRespects, CleanupRespects DEF Request, RefuseStage, Procs
<1>5. ASSUME NEW r \in Reconcilers, NEW s \in Sessions, ClaimReconciliation(r, s) PROVE LeaseStep
  BY <1>5, OtherRespects DEF Procs
<1>6. ASSUME NEW s \in Sessions, CreateUploadSession(s) \/ Elapse(s) \/ RevokeAuthority(s)
      PROVE  LeaseStep
  BY <1>6, CreateRespects, OtherRespects, NothingTaken DEF RevokeAuthority
<1>7. CASE \E d \in Documents : RetainDocument(d) \/ RetentionEnds(d)
  BY <1>7, NothingTaken DEF RetainDocument, RetentionEnds
<1>8. CASE UNCHANGED vars
  BY <1>8, NothingTaken DEF vars
<1>. QED BY <1>3, <1>4, <1>5, <1>6, <1>7, <1>8, FailsRespects DEF Next

\* A lease is live only where its holder may still need it.
THEOREM LeasedHolds == Spec => []RowsLeased
<1>1. Init => RowsLeased
  BY DEF Init, RowsLeased, RowLeases
<1>2. IInv /\ RowsLeased /\ [Next]_vars => RowsLeased'
  BY LeasesRespectedStep DEF LeaseStep, RowsLeased, Respects
<1>. QED BY <1>1, <1>2, InvHolds, PTL DEF Spec

\* A live stage or finalize lease changes hands only by a step of its holder or by
\* the decision to close the session, whatever stages, finalizes, cleanups and
\* reconciliations overlap.
THEOREM LeasesKept == Spec => LiveLeasesRespected
<1>1. IInv /\ RowsLeased /\ [Next]_vars =>
        \A s \in Sessions :
          LET taken(tok, live, newTok) ==
                live /\ newTok # tok /\ call'[tok] = call[tok]
          IN
          \/ taken(row[s].stageTok, row[s].stageLive, row'[s].stageTok)
          \/ taken(row[s].finTok, row[s].finLive, row'[s].finTok)
          => row'[s].state = "failed_terminal"
  BY LeasesRespectedStep DEF LeaseStep, RowsLeased, Respects, Movers
<1>. QED BY <1>1, InvHolds, LeasedHolds, PTL DEF Spec, LiveLeasesRespected

================================================================================
