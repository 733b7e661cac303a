---------------------------- MODULE DmsUploadProofs ----------------------------
(***************************************************************************)
(* Proofs about DmsUpload, for every value of its constants.               *)
(*                                                                         *)
(* IInv is the inductive invariant.  TypeOK and PublishedHasBytes are not  *)
(* inductive alone.  PublishedHasBytes needs to know that a call about to  *)
(* write the provider receipt saw its object committed (CallOK), and the   *)
(* retry budget needs attempts, dead letters and claims of a row tied      *)
(* together (RowOK): a closed row carries no worker id, so the release of  *)
(* a stale claim cannot count an attempt beyond the last.                  *)
(***************************************************************************)
EXTENDS DmsUpload, TLAPS

\* Where only reconcilers get to.
ReconcilerPCs == {"decide", "intakePre", "intakePost", "release"}

\* A row whose attempts, dead letter, claim and state agree.
RowOK(r) ==
  /\ r \in RowType
  /\ r.attempts = MaxAttempts => r.state = "failed_terminal"
  /\ r.dead \in {"reconcile", "intake_post"} => r.attempts = MaxAttempts
  /\ r.state = "failed_terminal" => r.dead # "none" /\ r.owner = None /\ ~r.recLive

\* The call c of process p, when the objects in durable are committed.
CallOK(p, c, durable) ==
  /\ c \in CallType
  /\ c.pc # "idle" => c.s \in Sessions
  /\ c.pc = "persist" => c.s \in durable
  /\ c.pc \in ReconcilerPCs => p \in Reconcilers

RowsOK == row \in [Sessions -> RowType] /\ \A s \in Sessions : RowOK(row[s])
CallsOK == call \in [Procs -> CallType] /\ \A p \in Procs : CallOK(p, call[p], committed)

IInv == TypeOK /\ RowsOK /\ CallsOK /\ PublishedHasBytes

\* A row update readers cannot see.
Invisible(old, new) ==
  /\ new.state = "finalized" <=> old.state = "finalized"
  /\ new.state = "provider_finalized" => old.state = "provider_finalized"

RowStep == RowsOK' /\ \A s \in Sessions : Invisible(row[s], row'[s])

\* A step that writes no row keeps every row well formed.
LEMMA RowUnchanged == ASSUME IInv, UNCHANGED row PROVE RowStep
BY DEF IInv, RowStep, RowsOK, Invisible

\* So does a step that writes one well formed row without publishing it.
LEMMA RowWritten ==
  ASSUME IInv, NEW s \in Sessions, NEW r, RowOK(r), Invisible(row[s], r), Write(s, r)
  PROVE  RowStep
BY DEF IInv, RowStep, RowsOK, RowOK, Invisible, Write

\* A process that takes a well formed step of its call keeps all calls well
\* formed, as long as no committed object disappears.
LEMMA CallUpdated ==
  ASSUME IInv, NEW p \in Procs, NEW c, CallOK(p, c, committed'),
         committed \subseteq committed', call' = [call EXCEPT ![p] = c]
  PROVE  CallsOK'
<1>1. \A q \in Procs : call'[q] = IF q = p THEN c ELSE call[q]
  BY DEF IInv, CallsOK
<1>2. call' \in [Procs -> CallType]
  BY DEF IInv, CallsOK, CallOK
<1>3. \A q \in Procs : CallOK(q, call'[q], committed')
  BY <1>1 DEF IInv, CallsOK, CallOK
<1>. QED BY <1>2, <1>3 DEF CallsOK

\* Calls stay well formed when only the store grows.
LEMMA CallUnchanged ==
  ASSUME IInv, committed \subseteq committed', UNCHANGED call PROVE CallsOK'
BY DEF IInv, CallsOK, CallOK

\* The empty snapshot is a snapshot.
LEMMA SnapTyped == NoSnap \in SnapType
BY DEF NoSnap, SnapType, States

\* A call that ends keeps the calls well formed.
LEMMA Stopped ==
  ASSUME IInv, NEW p \in Procs, committed \subseteq committed', Stop(p)
  PROVE  CallsOK'
<1>1. CallOK(p, IdleCall, committed')
  BY SnapTyped DEF CallOK, IdleCall, CallType, PCs, ReconcilerPCs
<1>. QED BY <1>1, CallUpdated DEF Stop

\* A call that goes on to another step keeps them well formed, if it may be there.
LEMMA Went ==
  ASSUME IInv, NEW p \in Procs, NEW s \in Sessions, NEW pc \in PCs,
         pc = "persist" => s \in committed', pc \in ReconcilerPCs => p \in Reconcilers,
         committed \subseteq committed', Goto(p, s, pc)
  PROVE  CallsOK'
<1>1. CallOK(p, [IdleCall EXCEPT !.pc = pc, !.s = s], committed')
  BY SnapTyped DEF CallOK, IdleCall, CallType
<1>. QED BY <1>1, CallUpdated DEF Goto

\* A reconciler that gives its claim back keeps them well formed.
LEMMA Released ==
  ASSUME IInv, NEW p \in Reconcilers, NEW s \in Sessions, NEW out \in {"ok", "wait", "error"},
         committed \subseteq committed', Release(p, s, out)
  PROVE  CallsOK'
<1>1. CallOK(p, [IdleCall EXCEPT !.pc = "release", !.s = s, !.out = out], committed')
  BY SnapTyped DEF CallOK, IdleCall, CallType, PCs
<1>. QED BY <1>1, CallUpdated DEF Release, Procs

\* A call that returns or throws keeps them well formed.
LEMMA Ended ==
  ASSUME IInv, NEW p \in Procs, NEW s \in Sessions, committed \subseteq committed',
         Fail(p, s) \/ Return(p, s)
  PROVE  CallsOK'
BY Stopped, Released, Went DEF Fail, Return, PCs, ReconcilerPCs

\* The invariant is kept by any step that readers cannot see: rows and calls stay
\* well formed, no metadata changes and no committed object is removed.
LEMMA Quiet ==
  ASSUME IInv, RowStep, CallsOK', UNCHANGED ledger,
         staged' \subseteq Sessions, committed \subseteq committed', committed' \subseteq Sessions,
         retained' \subseteq Documents, authority' \subseteq Sessions
  PROVE  IInv'
<1>1. TypeOK'
  BY DEF IInv, TypeOK, RowStep, RowsOK, CallsOK, ledger
<1>2. PublishedHasBytes'
  BY DEF IInv, PublishedHasBytes, RowStep, Invisible, ledger
<1>. QED BY <1>1, <1>2 DEF IInv, RowStep

\* Clearing the stage lease keeps a row well formed and its state as it was.
LEMMA ClearedStage ==
  ASSUME NEW r, RowOK(r)
  PROVE  RowOK(ClearStage(r)) /\ Invisible(r, ClearStage(r))
         /\ ClearStage(r).state = r.state /\ ClearStage(r).attempts = r.attempts
BY DEF RowOK, RowType, ClearStage, Invisible

\* The same for the finalize lease.
LEMMA ClearedFinalize ==
  ASSUME NEW r, RowOK(r)
  PROVE  RowOK(ClearFinalize(r)) /\ Invisible(r, ClearFinalize(r))
         /\ ClearFinalize(r).state = r.state /\ ClearFinalize(r).attempts = r.attempts
BY DEF RowOK, RowType, ClearFinalize, Invisible

\* The same for the reconciliation claim, which is then gone.
LEMMA ClearedReconcile ==
  ASSUME NEW r, RowOK(r)
  PROVE  RowOK(ClearReconcile(r)) /\ Invisible(r, ClearReconcile(r))
         /\ ClearReconcile(r).state = r.state /\ ClearReconcile(r).attempts = r.attempts
         /\ ClearReconcile(r).owner = None /\ ~ClearReconcile(r).recLive
BY DEF RowOK, RowType, ClearReconcile, Invisible

\* The clock may pass any deadline of a row.
LEMMA Timed ==
  ASSUME NEW r, RowOK(r), NEW b \in BOOLEAN
  PROVE  /\ RowOK([r EXCEPT !.due = b]) /\ RowOK([r EXCEPT !.past = b])
         /\ RowOK([r EXCEPT !.stageLive = b]) /\ RowOK([r EXCEPT !.finLive = b])
BY DEF RowOK, RowType

\* A dead letter closes an unclaimed row; the two that report exhausted attempts
\* need them exhausted.
LEMMA DeadLettered ==
  ASSUME NEW r, RowOK(r), r.state # "finalized", r.owner = None, ~r.recLive, NEW letter \in DeadLetters,
         letter # "none", letter \in {"reconcile", "intake_post"} => r.attempts = MaxAttempts
  PROVE  RowOK(Terminal(r, letter)) /\ Invisible(r, Terminal(r, letter))
BY DEF RowOK, RowType, Terminal, Invisible, States, Closed, DeadLetters

\* A counted failure (releaseReconciliationClaim with an error) keeps the retry
\* budget: the attempt that reaches the limit is the one that closes the row.
LEMMA Counted ==
  ASSUME NEW r, RowOK(r), r.state # "failed_terminal"
  PROVE  /\ RowOK(CountedFailure(r))
         /\ Invisible(r, CountedFailure(r)) \/ (r.state = "finalized" /\ CountedFailure(r).state = "failed_terminal")
<1>. DEFINE c == ClearReconcile(r)
            counted == [c EXCEPT !.attempts = @ + 1, !.due = FALSE]
<1>1. RowOK(c) /\ c.state = r.state /\ c.attempts = r.attempts /\ c.owner = None /\ ~c.recLive
  BY ClearedReconcile
<1>2. c.attempts \in 0..MaxAttempts /\ c.attempts # MaxAttempts
  BY <1>1 DEF RowOK, RowType
<1>3. c.attempts + 1 \in 0..MaxAttempts
  BY <1>2, AttemptsAssumption
<1>4. c \in RowType
  BY <1>1 DEF RowOK
<1>5. /\ counted \in RowType /\ counted.attempts = c.attempts + 1 /\ counted.state = r.state
      /\ counted.owner = None /\ ~counted.recLive /\ counted.dead = c.dead
  <2>. HIDE DEF c
  <2>. QED BY <1>1, <1>3, <1>4 DEF RowType
<1>6. c.dead \notin {"reconcile", "intake_post"}
  BY <1>1, <1>2 DEF RowOK
<1>7. CASE counted.attempts >= MaxAttempts
  <2>1. CountedFailure(r) = Terminal(counted, "reconcile")
    BY <1>7 DEF CountedFailure
  <2>2. counted.attempts = MaxAttempts
    BY <1>7, <1>3, <1>5, AttemptsAssumption
  <2>. HIDE DEF counted
  <2>3. RowOK(Terminal(counted, "reconcile")) /\ Terminal(counted, "reconcile").state = "failed_terminal"
    BY <1>5, <2>2 DEF RowOK, RowType, Terminal, States, Closed, DeadLetters
  <2>. QED BY <2>1, <2>3 DEF Invisible
<1>8. CASE ~(counted.attempts >= MaxAttempts)
  <2>1. CountedFailure(r) = counted
    BY <1>8 DEF CountedFailure
  <2>2. counted.attempts # MaxAttempts
    BY <1>8, AttemptsAssumption
  <2>. HIDE DEF counted
  <2>3. RowOK(counted) /\ Invisible(r, counted)
    BY <1>1, <1>5, <1>6, <2>2 DEF RowOK, Invisible
  <2>. QED BY <2>1, <2>3
<1>. QED BY <1>7, <1>8

\* Quiet, for the many steps that touch neither store, ledger nor policy.
LEMMA QuietCall ==
  ASSUME IInv, RowStep, CallsOK', UNCHANGED <<store, ledger, policy>>
  PROVE  IInv'
BY Quiet DEF store, policy, IInv, TypeOK

\* What is known of a process inside a call.
LEMMA Held ==
  ASSUME IInv, NEW p \in Procs, ~At(p, "idle")
  PROVE  S(p) \in Sessions /\ RowOK(row[S(p)])
         /\ (At(p, "persist") => S(p) \in committed)
         /\ (call[p].pc \in ReconcilerPCs => p \in Reconcilers)
         /\ call[p].seen \in SnapType /\ call[p].out \in {"ok", "wait", "error"}
BY DEF IInv, CallsOK, CallOK, RowsOK, At, S, CallType

\* What is known of a row.
LEMMA RowAt ==
  ASSUME IInv, NEW s \in Sessions PROVE RowOK(row[s]) /\ row[s] \in RowType
BY DEF IInv, RowsOK, RowOK

\* markBytesStored moves a row without publishing it.
LEMMA StoredWritten ==
  ASSUME IInv, NEW s \in Sessions, row[s].state \in {"pending", "failed"}, Write(s, StoredRow(s))
  PROVE  RowStep
<1>. DEFINE r == ClearStage(row[s])
<1>1. RowOK(r) /\ r.state = row[s].state
  BY RowAt, ClearedStage
<1>2. RowOK([r EXCEPT !.state = "bytes_stored", !.due = ~Corporate(s)]) /\ [r EXCEPT !.state = "bytes_stored", !.due = ~Corporate(s)].state = "bytes_stored"
  <2>1. (~Corporate(s)) \in BOOLEAN
    BY DEF Corporate
  <2>. HIDE DEF r
  <2>. QED BY <1>1, <2>1 DEF RowOK, RowType, States, Stored
<1>3. Invisible(row[s], StoredRow(s)) /\ RowOK(StoredRow(s))
  BY <1>2 DEF Invisible, StoredRow
<1>. QED BY <1>3, RowWritten

\* recordStageFailure keeps the rows well formed.
LEMMA StageFailureWritten ==
  ASSUME IInv, NEW s \in Sessions, NEW p, StageFailed(p, s)
  PROVE  RowStep
<1>. DEFINE r == ClearStage(row[s])
            st == IF r.state \in {"pending", "failed"} THEN "failed" ELSE r.state
<1>1. CASE Corporate(s) \/ row[s].stageTok # p
  BY <1>1, RowUnchanged DEF StageFailed
<1>2. CASE ~(Corporate(s) \/ row[s].stageTok # p)
  <2>1. RowOK(r) /\ r.state = row[s].state /\ r \in RowType
    BY RowAt, ClearedStage DEF RowOK
  <2>2. Write(s, [r EXCEPT !.state = st])
    BY <1>2, Zenon DEF StageFailed
  <2>3. RowOK([r EXCEPT !.state = st]) /\ Invisible(row[s], [r EXCEPT !.state = st])
    <3>. HIDE DEF r
    <3>. QED BY <2>1 DEF RowOK, RowType, Invisible, States
  <2>. QED BY <2>2, <2>3, RowWritten
<1>. QED BY <1>1, <1>2

\* recordFinalizeFailure keeps the rows well formed.
LEMMA FinalizeFailureWritten ==
  ASSUME IInv, NEW s \in Sessions, NEW p, FinalizeFailed(p, s)
  PROVE  RowStep
<1>. DEFINE r == ClearFinalize(row[s])
            st == IF r.state = "provider_finalizing" THEN "bytes_stored" ELSE r.state
<1>1. CASE Corporate(s) \/ row[s].finTok # p
  BY <1>1, RowUnchanged DEF FinalizeFailed
<1>2. CASE ~(Corporate(s) \/ row[s].finTok # p)
  <2>1. RowOK(r) /\ r.state = row[s].state /\ r \in RowType
    BY RowAt, ClearedFinalize DEF RowOK
  <2>2. Write(s, [r EXCEPT !.state = st])
    BY <1>2, Zenon DEF FinalizeFailed
  <2>3. RowOK([r EXCEPT !.state = st]) /\ Invisible(row[s], [r EXCEPT !.state = st])
    <3>. HIDE DEF r
    <3>. QED BY <2>1 DEF RowOK, RowType, Invisible, States, Stored
  <2>. QED BY <2>2, <2>3, RowWritten
<1>. QED BY <1>1, <1>2

--------------------------------------------------------------------------------
\* createUploadSession preserves the invariant.
LEMMA CreatePreserves ==
  ASSUME IInv, NEW s \in Sessions, CreateUploadSession(s) PROVE IInv'
<1>1. PICK kind \in Kinds, version \in Versions :
        Write(s, [row[s] EXCEPT !.state = "pending", !.kind = kind,
                                !.version = version, !.due = (kind = "plain")])
  BY DEF CreateUploadSession
<1>. DEFINE r == [row[s] EXCEPT !.state = "pending", !.kind = kind,
                                !.version = version, !.due = (kind = "plain")]
<1>3. RowOK(r) /\ Invisible(row[s], r)
  <2>1. kind \in KindsOrNone /\ version \in VersionsOrZero /\ (kind = "plain") \in BOOLEAN
    BY DEF KindsOrNone, VersionsOrZero
  <2>. QED BY <2>1, RowAt DEF CreateUploadSession, RowOK, RowType, States, Invisible
<1>2. RowStep
  BY <1>1, <1>3, RowWritten
<1>. QED BY <1>2, CallUnchanged, QuietCall DEF CreateUploadSession, store, IInv, TypeOK

\* The stage lease, granted or refused, preserves it.
LEMMA StagePreserves ==
  ASSUME IInv, NEW p \in Procs, NEW s \in Sessions, ClaimStage(p, s) \/ RefuseStage(p, s)
  PROVE  IInv'
<1>1. CASE ClaimStage(p, s)
  <2>1. RowOK([row[s] EXCEPT !.stageTok = p, !.stageLive = TRUE, !.due = FALSE])
        /\ Invisible(row[s], [row[s] EXCEPT !.stageTok = p, !.stageLive = TRUE, !.due = FALSE])
    BY RowAt DEF RowOK, RowType, Invisible
  <2>2. RowStep
    BY <1>1, <2>1, RowWritten DEF ClaimStage
  <2>3. CallsOK'
    BY <1>1, Went DEF ClaimStage, store, PCs, ReconcilerPCs
  <2>. QED BY <1>1, <2>2, <2>3, QuietCall DEF ClaimStage
<1>2. CASE RefuseStage(p, s)
  BY <1>2, RowUnchanged, Ended, QuietCall DEF RefuseStage, store
<1>. QED BY <1>1, <1>2

\* Every storage call of a request preserves it: none removes a committed object.
LEMMA StoragePreserves ==
  ASSUME IInv, NEW p \in Procs,
         StageObject(p) \/ StageRefusedMidway(p) \/ DiscardStaged(p) \/ StatStaged(p)
           \/ FinalizeObject(p) \/ DeleteOrphan(p)
  PROVE  IInv'
<1>1. ~At(p, "idle") /\ S(p) \in Sessions
  BY Held DEF StageObject, StageRefusedMidway, DiscardStaged, StatStaged, FinalizeObject, DeleteOrphan, At
<1>2. RowStep
  BY RowUnchanged DEF StageObject, StageRefusedMidway, DiscardStaged, StatStaged, FinalizeObject, DeleteOrphan
<1>3. committed \subseteq committed' /\ committed' \subseteq Sessions /\ staged' \subseteq Sessions
      /\ UNCHANGED <<ledger, policy>>
  BY <1>1 DEF StageObject, StageRefusedMidway, DiscardStaged, StatStaged, FinalizeObject, DeleteOrphan, store, IInv, TypeOK
<1>4. CallsOK'
  <2>1. CASE StageObject(p) BY <2>1, <1>1, <1>3, Went DEF StageObject, PCs, ReconcilerPCs
  <2>2. CASE StageRefusedMidway(p) BY <2>2, <1>1, <1>3, Ended DEF StageRefusedMidway
  <2>3. CASE DiscardStaged(p) BY <2>3, <1>3, Stopped DEF DiscardStaged
  <2>4. CASE StatStaged(p) BY <2>4, <1>1, <1>3, Went, Ended DEF StatStaged, PCs, ReconcilerPCs
  <2>5. CASE FinalizeObject(p)
    <3>1. S(p) \in committed' BY <2>5 DEF FinalizeObject
    <3>. QED BY <2>5, <3>1, <1>1, <1>3, Went DEF FinalizeObject, PCs, ReconcilerPCs
  <2>6. CASE DeleteOrphan(p) BY <2>6, <1>1, <1>3, Went DEF DeleteOrphan, PCs, ReconcilerPCs
  <2>. QED BY <2>1, <2>2, <2>3, <2>4, <2>5, <2>6
<1>. QED BY <1>2, <1>3, <1>4, Quiet DEF policy, IInv, TypeOK

\* markBytesStored preserves it.
LEMMA MarkPreserves ==
  ASSUME IInv, NEW p \in Procs, MarkBytesStored(p) PROVE IInv'
<1>1. S(p) \in Sessions
  BY Held DEF MarkBytesStored, At
<1>2. RowStep
  BY <1>1, RowUnchanged, StoredWritten, StageFailureWritten DEF MarkBytesStored
<1>3. CallsOK'
  BY <1>1, Stopped, Ended, Went DEF MarkBytesStored, store, PCs, ReconcilerPCs
<1>. QED BY <1>2, <1>3, QuietCall DEF MarkBytesStored

\* The unlocked read at the start of finalizeUpload preserves it.
LEMMA BeginPreserves ==
  ASSUME IInv, NEW p \in Procs, NEW s \in Sessions, BeginFinalize(p, s) PROVE IInv'
<1>1. RowStep /\ committed \subseteq committed'
  BY RowUnchanged DEF BeginFinalize, store
<1>2. CallsOK'
  BY <1>1, Ended, Went DEF BeginFinalize, PCs, ReconcilerPCs
<1>. QED BY <1>1, <1>2, QuietCall DEF BeginFinalize

\* ensureBytesStored preserves it.
LEMMA EnsurePreserves ==
  ASSUME IInv, NEW p \in Procs, EnsureBytesStored(p) PROVE IInv'
<1>1. S(p) \in Sessions
  BY Held DEF EnsureBytesStored, At
<1>2. RowStep
  BY <1>1, RowUnchanged, StoredWritten DEF EnsureBytesStored
<1>3. CallsOK'
  BY <1>1, Ended, Went DEF EnsureBytesStored, store, PCs, ReconcilerPCs
<1>. QED BY <1>2, <1>3, QuietCall DEF EnsureBytesStored

\* claimProviderFinalize preserves it.
LEMMA ClaimPreserves ==
  ASSUME IInv, NEW p \in Procs, ClaimProviderFinalize(p) PROVE IInv'
<1>. DEFINE s == S(p)
            r == [row[s] EXCEPT !.state = "provider_finalizing", !.finTok = p, !.finLive = TRUE]
<1>1. s \in Sessions
  BY Held DEF ClaimProviderFinalize, At
<1>2. ASSUME row[s].state \in {"bytes_stored", "provider_finalizing"}, Write(s, r)
      PROVE  RowStep
  <2>1. RowOK(r) /\ Invisible(row[s], r)
    BY <1>1, <1>2, RowAt DEF RowOK, RowType, Invisible, States, Stored
  <2>. QED BY <1>1, <1>2, <2>1, RowWritten
<1>3. RowStep
  BY <1>2, RowUnchanged DEF ClaimProviderFinalize
<1>4. CallsOK'
  BY <1>1, Ended, Went DEF ClaimProviderFinalize, store, PCs, ReconcilerPCs
<1>. QED BY <1>3, <1>4, QuietCall DEF ClaimProviderFinalize

\* Reading the source object of a finalize preserves it.
LEMMA ReadPreserves ==
  ASSUME IInv, NEW p \in Procs, ReadForFinalize(p) PROVE IInv'
<1>1. S(p) \in Sessions
  BY Held DEF ReadForFinalize, At
<1>2. RowStep
  BY <1>1, RowUnchanged, FinalizeFailureWritten DEF ReadForFinalize
<1>3. CallsOK'
  BY <1>1, Ended, Went DEF ReadForFinalize, store, PCs, ReconcilerPCs
<1>. QED BY <1>2, <1>3, QuietCall DEF ReadForFinalize

\* persistProviderFinalized preserves it: the receipt is written by a call that has
\* seen its object committed, however long ago.
LEMMA PersistPreserves ==
  ASSUME IInv, NEW p \in Procs, PersistProviderFinalized(p) PROVE IInv'
<1>. DEFINE s == S(p)
            c == ClearFinalize(row[s])
            r == [c EXCEPT !.state = "provider_finalized"]
<1>1. s \in Sessions /\ s \in committed
  BY Held DEF PersistProviderFinalized, At
<1>2. CallsOK'
  BY <1>1, Ended, Went DEF PersistProviderFinalized, store, PCs, ReconcilerPCs
<1>3. CASE row[s].state = "provider_finalizing" /\ Write(s, r)
  <2>1. RowOK(c) /\ c.state = row[s].state
    BY <1>1, RowAt, ClearedFinalize
  <2>2. RowOK(r) /\ r.state = "provider_finalized"
    <3>. HIDE DEF c
    <3>. QED BY <1>3, <2>1 DEF RowOK, RowType, States, Stored
  <2>3. RowsOK' /\ \A t \in Sessions : row'[t].state = IF t = s THEN "provider_finalized" ELSE row[t].state
    <3>. HIDE DEF r, s
    <3>. QED BY <1>1, <1>3, <2>2 DEF IInv, RowsOK, RowOK, Write
  <2>4. UNCHANGED <<store, ledger, policy>>
    BY DEF PersistProviderFinalized
  <2>5. TypeOK'
    BY <2>3, <2>4, <1>2 DEF IInv, TypeOK, RowsOK, CallsOK, store, ledger, policy
  <2>6. PublishedHasBytes'
    <3>. HIDE DEF s
    <3>. QED BY <1>1, <1>3, <2>3, <2>4 DEF IInv, PublishedHasBytes, store, ledger
  <2>. QED BY <1>2, <2>3, <2>5, <2>6 DEF IInv
<1>4. CASE ~(row[s].state = "provider_finalizing" /\ Write(s, r))
  <2>1. RowStep
    BY <1>1, <1>4, RowUnchanged, FinalizeFailureWritten DEF PersistProviderFinalized
  <2>. QED BY <1>2, <2>1, QuietCall DEF PersistProviderFinalized
<1>. QED BY <1>3, <1>4

\* Reading the document preserves it, before or after another insertion.
LEMMA ReadDocumentPreserves ==
  ASSUME IInv, NEW p \in Procs, ReadDocument(p) \/ InsertionWaited(p) PROVE IInv'
<1>. DEFINE s == S(p)
<1>1. s \in Sessions /\ CallOK(p, call[p], committed) /\ call[p].pc \in {"publish", "commit"}
  BY Held DEF ReadDocument, InsertionWaited, At, IInv, CallsOK
<1>2. current[DocOf[s]] \in Sessions \cup {None}
  BY <1>1, VersionAssumption DEF IInv, TypeOK
<1>3. UNCHANGED <<row, store, ledger, policy>>
  BY DEF ReadDocument, InsertionWaited
<1>4. CASE Fail(p, s) \/ Return(p, s)
  BY <1>1, <1>3, <1>4, Ended, RowUnchanged, QuietCall DEF store
<1>5. CASE \E c : call' = [call EXCEPT ![p] = c] /\ CallOK(p, c, committed)
  <2>1. CallsOK'
    BY <1>3, <1>5, CallUpdated DEF store
  <2>. QED BY <1>3, <2>1, RowUnchanged, QuietCall
<1>6. CallOK(p, [IdleCall EXCEPT !.pc = "commit", !.s = s, !.cur = current[DocOf[s]]], committed)
  BY <1>1, <1>2, SnapTyped DEF CallOK, IdleCall, CallType, PCs, ReconcilerPCs
<1>7. CallOK(p, [call[p] EXCEPT !.cur = current[DocOf[s]]], committed)
  BY <1>1, <1>2 DEF CallOK, CallType
<1>8. InsertionWaited(p) => call' = [call EXCEPT ![p] = [call[p] EXCEPT !.cur = current[DocOf[s]]]]
  BY <1>1 DEF InsertionWaited
<1>. QED BY <1>4, <1>5, <1>6, <1>7, <1>8 DEF ReadDocument

\* What commitMetadata publishes was not published before: the trigger lets only a
\* provider_finalized session, or a finalized one whose version number is taken,
\* become finalized.
LEMMA PublishesOnce ==
  ASSUME IInv, NEW s \in Sessions, ~VersionTaken(s), NEW r, r.state = "finalized",
         TriggerAllows(row[s], r)
  PROVE  row[s].state = "provider_finalized"
<1>1. row[s].state \in {"finalized", "provider_finalized"}
  BY DEF TriggerAllows, TransitionAllowed, Closed
<1>2. s \notin files
  BY DEF VersionTaken
<1>. QED BY <1>1, <1>2 DEF IInv, PublishedHasBytes

\* commitMetadata preserves it: a version and its state appear in one transaction.
LEMMA PublishPreserves ==
  ASSUME IInv, NEW p \in Procs, CommitMetadata(p) PROVE IInv'
<1>. DEFINE s == S(p)
            c == ClearFinalize(ClearStage(row[s]))
            r == [c EXCEPT !.state = "finalized"]
<1>1. s \in Sessions
  BY Held DEF CommitMetadata, At
<1>2. CallsOK'
  BY <1>1, Ended DEF CommitMetadata, store
<1>3. CASE ~VersionTaken(s) /\ TriggerAllows(row[s], r) /\ Write(s, r) /\ files' = files \cup {s}
           /\ current' = [current EXCEPT ![DocOf[s]] = NewCurrent(s, call[p].cur)]
  <2>1. RowOK(c) /\ c.state = row[s].state
    BY <1>1, RowAt, ClearedFinalize, ClearedStage
  <2>8. r.state = "finalized"
    <3>. HIDE DEF c
    <3>. QED BY <2>1 DEF RowOK, RowType
  <2>9. row[s].state = "provider_finalized"
    <3>. HIDE DEF r
    <3>. QED BY <1>1, <1>3, <2>8, PublishesOnce
  <2>2. RowOK(r) /\ r.state = "finalized"
    <3>. HIDE DEF c
    <3>. QED BY <2>9, <2>1 DEF RowOK, RowType, States
  <2>3. RowsOK' /\ \A t \in Sessions : row'[t].state = IF t = s THEN "finalized" ELSE row[t].state
    <3>. HIDE DEF r, s
    <3>. QED BY <1>1, <1>3, <2>2 DEF IInv, RowsOK, RowOK, Write
  <2>4. UNCHANGED <<store, policy>>
    BY DEF CommitMetadata
  <2>5. current' \in [Documents -> Sessions \cup {None}]
    <3>1. NewCurrent(s, call[p].cur) \in Sessions \cup {None}
      BY <1>1, VersionAssumption DEF NewCurrent, IInv, TypeOK
    <3>. QED BY <3>1, <1>3 DEF IInv, TypeOK
  <2>6. TypeOK'
    BY <1>1, <1>3, <2>3, <2>4, <2>5, <1>2 DEF IInv, TypeOK, RowsOK, CallsOK, store, policy
  <2>7. PublishedHasBytes'
    <3>. HIDE DEF s
    <3>. QED BY <1>1, <1>3, <2>9, <2>3, <2>4 DEF IInv, PublishedHasBytes, store
  <2>. QED BY <1>2, <2>3, <2>6, <2>7 DEF IInv
<1>4. CASE UNCHANGED <<row, ledger>>
  BY <1>2, <1>4, RowUnchanged, QuietCall DEF CommitMetadata
<1>. QED BY <1>3, <1>4 DEF CommitMetadata

\* The transaction that starts an orphan cleanup preserves it.
LEMMA CleanupPreserves ==
  ASSUME IInv, NEW p \in Procs, NEW s \in Sessions, BeginCleanup(p, s) PROVE IInv'
<1>. DEFINE r == [row[s] EXCEPT !.state = "expired", !.stageLive = FALSE]
<1>1. ASSUME CleanupAllowed(s), Write(s, r)
      PROVE  RowStep
  <2>1. RowOK(r) /\ Invisible(row[s], r)
    BY <1>1, RowAt DEF CleanupAllowed, RowOK, RowType, Invisible, States, Closed
  <2>. QED BY <1>1, <2>1, RowWritten
<1>2. RowStep
  BY <1>1, RowUnchanged DEF BeginCleanup
<1>3. CallsOK'
  BY Ended, Went DEF BeginCleanup, store, PCs, ReconcilerPCs
<1>. QED BY <1>2, <1>3, QuietCall DEF BeginCleanup

\* So does the one that records it.
LEMMA RecordCleanupPreserves ==
  ASSUME IInv, NEW p \in Procs, RecordOrphanDeleted(p) PROVE IInv'
<1>. DEFINE s == S(p)
            r == [row[s] EXCEPT !.orphanDeleted = TRUE]
<1>1. s \in Sessions
  BY Held DEF RecordOrphanDeleted, At
<1>2. ASSUME Write(s, r) PROVE RowStep
  <2>1. RowOK(r) /\ Invisible(row[s], r)
    BY <1>1, RowAt DEF RowOK, RowType, Invisible
  <2>. QED BY <1>1, <1>2, <2>1, RowWritten
<1>3. RowStep
  BY <1>2, RowUnchanged DEF RecordOrphanDeleted
<1>4. CallsOK'
  BY <1>1, Ended DEF RecordOrphanDeleted, store
<1>. QED BY <1>3, <1>4, QuietCall DEF RecordOrphanDeleted

\* claimReconciliationSessions preserves it: closed rows are never claimed again.
LEMMA ClaimReconciliationPreserves ==
  ASSUME IInv, NEW p \in Procs, NEW s \in Sessions, ClaimReconciliation(p, s) PROVE IInv'
<1>. DEFINE r == [row[s] EXCEPT !.owner = WorkerOf[p], !.recLive = TRUE]
            c == [IdleCall EXCEPT !.pc = "decide", !.s = s,
                    !.seen = [state |-> row[s].state, stageLive |-> row[s].stageLive,
                              past |-> row[s].past, erred |-> row[s].attempts > 0]]
<1>1. p \in Reconcilers /\ WorkerOf[p] \in Workers
  BY WorkerAssumption DEF ClaimReconciliation
<1>2. RowOK(r) /\ Invisible(row[s], r)
  BY <1>1, RowAt DEF ClaimReconciliation, RowOK, RowType, Invisible, Stored
<1>3. RowStep
  BY <1>2, RowWritten DEF ClaimReconciliation
<1>4. CallOK(p, c, committed')
  <2>. DEFINE erred == row[s].attempts > 0
  <2>1. row[s].attempts \in Nat
    BY RowAt, AttemptsAssumption DEF RowType
  <2>2. erred \in BOOLEAN
    BY <2>1
  <2>. HIDE DEF erred
  <2>. QED BY <1>1, <2>2, RowAt DEF CallOK, CallType, IdleCall, SnapType, RowType, PCs, erred
<1>5. CallsOK'
  BY <1>4, CallUpdated DEF ClaimReconciliation, store
<1>. QED BY <1>3, <1>5, QuietCall DEF ClaimReconciliation

\* Choosing what to do with a claimed session preserves it.
LEMMA DecidePreserves ==
  ASSUME IInv, NEW r \in Procs, Decide(r) PROVE IInv'
<1>1. r \in Reconcilers /\ S(r) \in Sessions
  BY Held DEF Decide, At, ReconcilerPCs
<1>2. RowStep /\ committed \subseteq committed'
  BY RowUnchanged DEF Decide, store
<1>3. CASE row[S(r)].kind = "plain"
  <2>1. DecidePlain(r, S(r), call[r].seen)
    BY <1>1, <1>3 DEF Decide
  <2>2. CallsOK'
    BY <1>1, <1>2, <2>1, Released, Went DEF DecidePlain, PCs, ReconcilerPCs
  <2>. QED BY <1>2, <2>2, QuietCall DEF Decide
<1>4. CASE row[S(r)].kind = "intake"
  <2>1. DecideIntake(r, S(r), call[r].seen)
    BY <1>1, <1>4 DEF Decide
  <2>2. CallsOK'
    BY <1>1, <1>2, <2>1, Released, Went DEF DecideIntake, PCs, ReconcilerPCs
  <2>. QED BY <1>2, <2>2, QuietCall DEF Decide
<1>5. CASE row[S(r)].kind = "corporate"
  <2>1. DecideCorporate(r, S(r), call[r].seen)
    BY <1>1, <1>5 DEF Decide
  <2>2. CallsOK'
    BY <1>1, <1>2, <2>1, Released, Went DEF DecideCorporate, PCs, ReconcilerPCs
  <2>. QED BY <1>2, <2>2, QuietCall DEF Decide
<1>. QED BY <1>3, <1>4, <1>5 DEF Decide

\* Clearing all leases of a row keeps it well formed and unclaimed.
LEMMA LeasesCleared ==
  ASSUME NEW r, RowOK(r)
  PROVE  RowOK(ClearLeases(r)) /\ ClearLeases(r).state = r.state
         /\ ClearLeases(r).attempts = r.attempts
         /\ ClearLeases(r).owner = None /\ ~ClearLeases(r).recLive
<1>1. RowOK(ClearStage(r)) BY ClearedStage
<1>2. RowOK(ClearFinalize(ClearStage(r))) BY <1>1, ClearedFinalize
<1>. QED BY <1>1, <1>2, ClearedStage, ClearedFinalize, ClearedReconcile DEF ClearLeases

\* markIntakeGuardManualRecovery preserves it.
LEMMA IntakePrePreserves ==
  ASSUME IInv, NEW r \in Procs, MarkIntakeGuardManualRecovery(r) PROVE IInv'
<1>. DEFINE s == S(r)
            c == ClearLeases(row[s])
            t == Terminal(c, "intake_pre")
            new == [t EXCEPT !.due = TRUE]
<1>1. s \in Sessions
  BY Held DEF MarkIntakeGuardManualRecovery, At
<1>2. ASSUME TriggerAllows(row[s], new), Write(s, new) PROVE RowStep
  <2>1. RowOK(c) /\ c.state = row[s].state /\ c.owner = None /\ ~c.recLive
    BY <1>1, RowAt, LeasesCleared
  <2>2. new.state = "failed_terminal"
    <3>1. c \in RowType BY <2>1 DEF RowOK
    <3>. HIDE DEF c
    <3>. QED BY <3>1 DEF Terminal, RowType
  <2>3. row[s].state # "finalized"
    <3>. HIDE DEF new
    <3>. QED BY <1>2, <2>2 DEF TriggerAllows, TransitionAllowed, Closed
  <2>4. RowOK(t) /\ t.state = "failed_terminal"
    <3>. HIDE DEF c
    <3>. QED BY <2>1, <2>3, DeadLettered DEF DeadLetters, Terminal, RowOK, RowType
  <2>5. RowOK(new)
    <3>. HIDE DEF t
    <3>. QED BY <2>4, Timed
  <2>6. Invisible(row[s], new)
    BY <2>2, <2>3 DEF Invisible
  <2>. QED BY <1>1, <1>2, <2>5, <2>6, RowWritten
<1>3. RowStep
  BY <1>2, RowUnchanged DEF MarkIntakeGuardManualRecovery
<1>4. CallsOK'
  BY <1>1, Ended, Stopped DEF MarkIntakeGuardManualRecovery, store
<1>. QED BY <1>3, <1>4, QuietCall DEF MarkIntakeGuardManualRecovery

\* preserveCorporateUpload preserves it.
LEMMA PreservePreserves ==
  ASSUME IInv, NEW p \in Procs, PreserveCorporateUpload(p) PROVE IInv'
<1>. DEFINE s == S(p)
            c == ClearLeases(row[s])
            t == Terminal(c, "corporate")
<1>1. s \in Sessions
  BY Held DEF PreserveCorporateUpload, At
<1>2. ASSUME row[s].state # "finalized", Write(s, t) PROVE RowStep
  <2>1. RowOK(c) /\ c.state = row[s].state /\ c.owner = None /\ ~c.recLive
    BY <1>1, RowAt, LeasesCleared
  <2>2. RowOK(t) /\ Invisible(c, t)
    <3>. HIDE DEF c
    <3>. QED BY <1>2, <2>1, DeadLettered DEF DeadLetters
  <2>3. Invisible(row[s], t)
    BY <2>1, <2>2 DEF Invisible
  <2>. QED BY <1>1, <1>2, <2>2, <2>3, RowWritten
<1>3. RowStep
  BY <1>2, RowUnchanged DEF PreserveCorporateUpload
<1>4. CallsOK'
  BY Stopped DEF PreserveCorporateUpload, store
<1>. QED BY <1>3, <1>4, QuietCall DEF PreserveCorporateUpload

\* releaseReconciliationClaim preserves it: a row that carries a worker's id is not
\* closed, so its attempts are below the limit.
LEMMA ReleasePreserves ==
  ASSUME IInv, NEW r \in Procs, ReleaseReconciliationClaim(r) PROVE IInv'
<1>. DEFINE s == S(r)
            c == ClearReconcile(row[s])
            freed == [c EXCEPT !.due = (call[r].out = "ok")]
<1>1. s \in Sessions /\ r \in Reconcilers
  BY Held DEF ReleaseReconciliationClaim, At, ReconcilerPCs
<1>2. WorkerOf[r] # None
  BY <1>1, WorkerAssumption, SessionsAssumption
<1>3. ASSUME Write(s, freed) PROVE RowStep
  <2>1. RowOK(c) /\ Invisible(row[s], c)
    BY <1>1, RowAt, ClearedReconcile
  <2>2. RowOK(freed) /\ freed.state = c.state
    <3>. DEFINE ok == call[r].out = "ok"
    <3>1. ok \in BOOLEAN OBVIOUS
    <3>. HIDE DEF c, ok
    <3>2. RowOK([c EXCEPT !.due = ok]) BY <2>1, <3>1, Timed
    <3>3. [c EXCEPT !.due = ok].state = c.state BY <2>1 DEF RowOK, RowType
    <3>. QED BY <3>2, <3>3 DEF ok
  <2>. QED BY <1>1, <1>3, <2>1, <2>2, RowWritten DEF Invisible
<1>4. ASSUME row[s].owner = WorkerOf[r], TriggerAllows(row[s], CountedFailure(row[s])),
             Write(s, CountedFailure(row[s]))
      PROVE  RowStep
  <2>1. row[s].state # "failed_terminal"
    BY <1>1, <1>2, <1>4, RowAt DEF RowOK
  <2>2. Invisible(row[s], CountedFailure(row[s]))
    BY <1>1, <1>4, <2>1, RowAt, Counted DEF TriggerAllows, TransitionAllowed, Closed
  <2>. QED BY <1>1, <1>4, <2>1, <2>2, RowAt, Counted, RowWritten
<1>5. RowStep
  BY <1>3, <1>4, RowUnchanged DEF ReleaseReconciliationClaim
<1>6. CallsOK'
  BY Stopped DEF ReleaseReconciliationClaim, store
<1>. QED BY <1>5, <1>6, QuietCall DEF ReleaseReconciliationClaim

\* advanceExpiredIntakeGuardCheckpoint preserves it.
LEMMA IntakePostPreserves ==
  ASSUME IInv, NEW r \in Procs, AdvanceExpiredIntakeGuard(r) PROVE IInv'
<1>. DEFINE s == S(r)
            c == ClearReconcile(ClearFinalize(row[s]))
            counted == [c EXCEPT !.attempts = @ + 1]
            last == row[s].attempts + 1 >= MaxAttempts
            closed == Terminal(ClearStage(counted), "intake_post")
            new == [(IF last THEN closed ELSE counted) EXCEPT !.due = last]
<1>1. s \in Sessions
  BY Held DEF AdvanceExpiredIntakeGuard, At
<1>2. ASSUME row[s].state = "provider_finalized", Write(s, new) PROVE RowStep
  <2>1. /\ RowOK(c) /\ c.state = "provider_finalized" /\ c.attempts = row[s].attempts
        /\ c.owner = None /\ ~c.recLive
    BY <1>1, <1>2, RowAt, ClearedFinalize, ClearedReconcile
  <2>2. c \in RowType /\ c.attempts \in 0..MaxAttempts /\ c.attempts # MaxAttempts
        /\ c.dead \notin {"reconcile", "intake_post"}
    BY <2>1 DEF RowOK, RowType
  <2>3. c.attempts + 1 \in 0..MaxAttempts
    BY <2>2, AttemptsAssumption
  <2>4. /\ counted \in RowType /\ counted.attempts = c.attempts + 1
        /\ counted.state = "provider_finalized" /\ counted.dead = c.dead
        /\ counted.owner = None /\ ~counted.recLive
    <3>. HIDE DEF c
    <3>. QED BY <2>1, <2>2, <2>3 DEF RowType
  <2>7. last \in BOOLEAN
    BY <2>1, <2>2, AttemptsAssumption
  <2>5. CASE last
    <3>1. counted.attempts = MaxAttempts
      BY <2>1, <2>3, <2>4, <2>5, AttemptsAssumption
    <3>2. RowOK(closed) /\ closed.state = "failed_terminal"
      <4>. HIDE DEF counted
      <4>. QED BY <2>4, <3>1 DEF RowOK, RowType, Terminal, ClearStage, States, Closed, DeadLetters
    <3>3. closed \in RowType
      BY <3>2 DEF RowOK
    <3>4. RowOK(new) /\ new.state = "failed_terminal"
      <4>. HIDE DEF closed, counted, last
      <4>1. new = [closed EXCEPT !.due = last]
        BY <2>5
      <4>2. RowOK([closed EXCEPT !.due = last])
        BY <3>2, <2>7, Timed
      <4>3. [closed EXCEPT !.due = last].state = closed.state
        BY <3>3 DEF RowType
      <4>. QED BY <3>2, <4>1, <4>2, <4>3
    <3>. QED BY <1>1, <1>2, <3>4, RowWritten DEF Invisible
  <2>6. CASE ~last
    <3>1. counted.attempts # MaxAttempts
      BY <2>1, <2>3, <2>4, <2>6, AttemptsAssumption
    <3>2. RowOK(counted)
      <4>. HIDE DEF counted
      <4>. QED BY <2>2, <2>4, <3>1 DEF RowOK
    <3>4. RowOK(new) /\ new.state = counted.state
      <4>. HIDE DEF closed, counted, last
      <4>1. new = [counted EXCEPT !.due = last]
        BY <2>6
      <4>2. RowOK([counted EXCEPT !.due = last])
        BY <3>2, <2>7, Timed
      <4>3. [counted EXCEPT !.due = last].state = counted.state
        BY <2>4 DEF RowType
      <4>. QED BY <4>1, <4>2, <4>3
    <3>. QED BY <1>1, <1>2, <2>4, <3>4, RowWritten DEF Invisible
  <2>. QED BY <2>5, <2>6
<1>3. RowStep
  BY <1>2, RowUnchanged DEF AdvanceExpiredIntakeGuard
<1>4. CallsOK'
  BY <1>1, Ended, Stopped DEF AdvanceExpiredIntakeGuard, store
<1>. QED BY <1>3, <1>4, QuietCall DEF AdvanceExpiredIntakeGuard

\* Failing calls and dying processes preserve it.
LEMMA FailurePreserves ==
  ASSUME IInv, NEW p \in Procs, CallFails(p) \/ Crash(p) PROVE IInv'
<1>1. CASE CallFails(p)
  <2>1. S(p) \in Sessions
    BY <1>1, Held DEF CallFails, At
  <2>2. RowStep
    BY <1>1, <2>1, RowUnchanged, StageFailureWritten, FinalizeFailureWritten DEF CallFails
  <2>3. CallsOK'
    BY <1>1, <2>1, Ended, Stopped DEF CallFails, store
  <2>. QED BY <1>1, <2>2, <2>3, QuietCall DEF CallFails
<1>2. CASE Crash(p)
  BY <1>2, RowUnchanged, Stopped, QuietCall DEF Crash, store
<1>. QED BY <1>1, <1>2

\* Passing deadlines preserve it.
LEMMA ElapsePreserves ==
  ASSUME IInv, NEW s \in Sessions, Elapse(s) PROVE IInv'
<1>1. PICK r : Write(s, r) /\ r \in {[row[s] EXCEPT !.stageLive = FALSE],
           [row[s] EXCEPT !.finLive = FALSE], [row[s] EXCEPT !.recLive = FALSE],
           [row[s] EXCEPT !.due = TRUE], [row[s] EXCEPT !.past = TRUE]}
  BY DEF Elapse, LapseStage, LapseFinalize, LapseReconcile, BecomeDue, ExpireSession
<1>2. RowOK(r) /\ Invisible(row[s], r)
  <2>1. row[s] \in RowType
    BY RowAt
  <2>2. RowOK([row[s] EXCEPT !.recLive = FALSE])
    BY RowAt DEF RowOK, RowType
  <2>4. /\ RowOK([row[s] EXCEPT !.stageLive = FALSE]) /\ RowOK([row[s] EXCEPT !.finLive = FALSE])
        /\ RowOK([row[s] EXCEPT !.due = TRUE]) /\ RowOK([row[s] EXCEPT !.past = TRUE])
    BY RowAt, Timed
  <2>3. r.state = row[s].state
    BY <1>1, <2>1 DEF RowType
  <2>. QED BY <1>1, <2>2, <2>3, <2>4 DEF Invisible
<1>3. RowStep
  BY <1>1, <1>2, RowWritten
<1>4. UNCHANGED <<store, ledger, policy, call>>
  BY DEF Elapse, LapseStage, LapseFinalize, LapseReconcile, BecomeDue, ExpireSession
<1>. QED BY <1>3, <1>4, CallUnchanged, QuietCall DEF store

\* Retention policies and revoked authority preserve it.
LEMMA PolicyPreserves ==
  ASSUME IInv, \/ \E s \in Sessions : RevokeAuthority(s)
               \/ \E d \in Documents : RetainDocument(d) \/ RetentionEnds(d)
  PROVE  IInv'
<1>1. UNCHANGED <<row, store, ledger, call>>
  BY DEF RevokeAuthority, RetainDocument, RetentionEnds
<1>2. retained' \subseteq Documents /\ authority' \subseteq Sessions
  BY DEF RevokeAuthority, RetainDocument, RetentionEnds, IInv, TypeOK
<1>. QED BY <1>1, <1>2, RowUnchanged, CallUnchanged, Quiet DEF store, IInv, TypeOK

--------------------------------------------------------------------------------

\* The invariant holds initially.
THEOREM InvInitial == Init => IInv
<1>. SUFFICES ASSUME Init PROVE IInv
  OBVIOUS
<1>. DEFINE r == [state |-> "absent", kind |-> "none", version |-> 0, stageTok |-> None,
        stageLive |-> FALSE, finTok |-> None, finLive |-> FALSE, owner |-> None, recLive |-> FALSE,
        due |-> FALSE, past |-> FALSE, attempts |-> 0, orphanDeleted |-> FALSE,
        dead |-> "none"]
<1>1. RowOK(r)
  BY AttemptsAssumption DEF RowOK, RowType, States, DeadLetters, KindsOrNone, VersionsOrZero
<1>2. r \in RowType /\ r.state = "absent"
  BY <1>1 DEF RowOK
<1>3. row = [s \in Sessions |-> r]
  BY DEF Init
<1>4. RowsOK /\ \A s \in Sessions : row[s].state = "absent"
  <2>. HIDE DEF r
  <2>. QED BY <1>1, <1>2, <1>3 DEF RowsOK
<1>5. CallsOK
  <2>1. \A p : CallOK(p, IdleCall, committed)
    BY SnapTyped DEF CallOK, IdleCall, CallType, PCs, ReconcilerPCs
  <2>. QED BY <2>1 DEF Init, CallsOK, CallOK
<1>6. TypeOK
  BY <1>4, <1>5 DEF Init, TypeOK, RowsOK, CallsOK
<1>7. PublishedHasBytes
  BY <1>4 DEF Init, PublishedHasBytes
<1>. QED BY <1>4, <1>5, <1>6, <1>7 DEF IInv

\* Every step of the runtime preserves it.
THEOREM InvPreserved == IInv /\ [Next]_vars => IInv'
<1>. SUFFICES ASSUME IInv, [Next]_vars PROVE IInv'
  OBVIOUS
<1>1. CASE UNCHANGED vars
  BY <1>1, RowUnchanged, CallUnchanged, QuietCall DEF vars, store, ledger, policy
<1>2. ASSUME NEW s \in Sessions, CreateUploadSession(s) \/ Elapse(s) \/ RevokeAuthority(s)
      PROVE  IInv'
  BY <1>2, CreatePreserves, ElapsePreserves, PolicyPreserves
<1>3. ASSUME NEW d \in Documents, RetainDocument(d) \/ RetentionEnds(d)
      PROVE  IInv'
  BY <1>3, PolicyPreserves
<1>4. ASSUME NEW p \in Procs, Continue(p) PROVE IInv'
  BY <1>4, StoragePreserves, MarkPreserves, BeginPreserves, CleanupPreserves, EnsurePreserves,
     ClaimPreserves, ReadPreserves, PersistPreserves, ReadDocumentPreserves, PublishPreserves,
     RecordCleanupPreserves,
     DecidePreserves, IntakePrePreserves, IntakePostPreserves, PreservePreserves,
     ReleasePreserves DEF Continue
<1>5. ASSUME NEW p \in Procs, CallFails(p) \/ Crash(p) PROVE IInv'
  BY <1>5, FailurePreserves
<1>6. ASSUME NEW p \in Clients, NEW s \in Sessions, Request(p, s) PROVE IInv'
  BY <1>6, StagePreserves, BeginPreserves, CleanupPreserves DEF Request, Procs
<1>7. ASSUME NEW r \in Reconcilers, NEW s \in Sessions, ClaimReconciliation(r, s) PROVE IInv'
  BY <1>7, ClaimReconciliationPreserves DEF Procs
<1>. QED BY <1>1, <1>2, <1>3, <1>4, <1>5, <1>6, <1>7 DEF Next

\* It holds in every reachable state.
THEOREM InvHolds == Spec => []IInv
BY InvInitial, InvPreserved, PTL DEF Spec

\* Every variable stays in its type; in particular attempts never exceed
\* maxReconciliationAttempts, for any number of sessions, clients and workers.
THEOREM TypeCorrect == Spec => []TypeOK
<1>1. IInv => TypeOK BY DEF IInv
<1>. QED BY <1>1, InvHolds, PTL

\* A version is visible exactly when its session is finalized, and then, as from the
\* storage receipt on, its object is committed: no interleaving of claims, lapsed
\* leases, crashes and late answers publishes a missing object.
THEOREM PublishedDurable == Spec => []PublishedHasBytes
<1>1. IInv => PublishedHasBytes BY DEF IInv
<1>. QED BY <1>1, InvHolds, PTL

\* Attempts and dead letters agree, and nobody owns a closed session, whichever
\* workers overlap.
THEOREM BudgetKept == Spec => []RetryBudget
<1>1. IInv => RetryBudget BY DEF IInv, RowsOK, RowOK, RetryBudget
<1>. QED BY <1>1, InvHolds, PTL

================================================================================
