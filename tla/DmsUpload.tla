------------------------------- MODULE DmsUpload -------------------------------
(***************************************************************************)
(* Upload sessions of the document management runtime                      *)
(* (packages/dms/src/postgres-upload-runtime.js).                          *)
(*                                                                         *)
(* An upload is a row of lawos_dms.upload_sessions that is driven through  *)
(*   pending -> bytes_stored -> provider_finalizing -> provider_finalized  *)
(*   -> finalized                                                          *)
(* by request handlers (Clients: stageUpload, finalizeUpload,              *)
(* cleanupOrphan) and by runs of reconcileUploadSessions (Reconcilers).    *)
(* PostgreSQL and the object store are two systems: one transaction is one *)
(* atomic step, one storage call is another one, and a process may die     *)
(* between any two.  Publication is the exception: its transaction reads   *)
(* the document in a snapshot that is older than its lock (READ COMMITTED),*)
(* so its snapshot and the rest of it are two steps.                       *)
(*                                                                         *)
(* Time is kept as what the code compares with it: a lease is live or not, *)
(* expires_at is past or not, next_attempt_at is due or not.  The clock is *)
(* read just before each transaction; the two are one instant here.        *)
(***************************************************************************)
EXTENDS Integers, FiniteSets

CONSTANTS
  Sessions,      \* upload sessions that may be created
  Documents,     \* documents they add a version to
  Clients,       \* request handlers
  Reconcilers,   \* runs of reconcileUploadSessions, one claimed session each
  Workers,       \* worker ids: reconcile_owner holds one of these
  WorkerOf,      \* worker id of each run; overlapping runs may share one
  Kinds,         \* what may guard a session: nothing ("plain"), an "intake"
                 \* checkpoint, or a "corporate" workspace authority
  DocOf,         \* document of each session
  Versions,      \* version numbers they may ask for
  MaxAttempts,   \* maxReconciliationAttempts
  Faults,        \* whether storage and database calls may fail
  MayCrash,      \* processes that may die
  None

Procs == Clients \cup Reconcilers

ASSUME ProcsAssumption == Clients \cap Reconcilers = {} /\ None \notin Procs
ASSUME SessionsAssumption == None \notin Sessions /\ None \notin Workers
ASSUME KindAssumption == Kinds \subseteq {"plain", "intake", "corporate"}
ASSUME VersionAssumption ==
  DocOf \in [Sessions -> Documents] /\ Versions \subseteq Nat \ {0}
ASSUME WorkerAssumption == WorkerOf \in [Reconcilers -> Workers]
ASSUME AttemptsAssumption == MaxAttempts \in Nat \ {0}
ASSUME FailureAssumption == Faults \in BOOLEAN /\ MayCrash \subseteq Procs

VARIABLES
  row,        \* upload_sessions, with next_attempt_at and the leases as flags
  staged,     \* sessions whose staged object exists in the store
  committed,  \* sessions whose object exists at its committed key
  files,      \* sessions with a file_objects and a document_versions row
  current,    \* documents.current_version_id
  retained,   \* documents under an unexpired retention policy
  authority,  \* corporate sessions whose pinned workspace digest still matches
  call        \* the call each process is executing, and where

store == <<staged, committed>>
ledger == <<files, current>>
policy == <<retained, authority>>
vars == <<row, staged, committed, files, current, retained, authority, call>>

Stored == {"bytes_stored", "provider_finalizing", "provider_finalized"}
Closed == {"expired", "failed_terminal"}
States == {"absent", "pending", "failed", "finalized"} \cup Stored \cup Closed
\* Which dead letter closed a session, named by the receipt's schema.  The two
\* Intake receipts differ in their claim provider_bytes_committed.
DeadLetters == {"none", "reconcile", "corporate", "intake_pre", "intake_post"}

\* What a session was created for; absent sessions have neither.
KindsOrNone == Kinds \cup {"none"}
VersionsOrZero == Versions \cup {0}

RowType == [
  state : States, kind : KindsOrNone, version : VersionsOrZero,
  stageTok : Procs \cup {None}, stageLive : BOOLEAN,
  finTok : Procs \cup {None}, finLive : BOOLEAN,
  owner : Workers \cup {None}, recLive : BOOLEAN,
  due : BOOLEAN, past : BOOLEAN,
  attempts : 0..MaxAttempts,
  orphanDeleted : BOOLEAN,
  dead : DeadLetters]

\* What a reconciler remembers of the row it claimed; erred is last_error_code.
SnapType == [state : States, stageLive : BOOLEAN, past : BOOLEAN, erred : BOOLEAN]
NoSnap == [state |-> "absent", stageLive |-> FALSE, past |-> FALSE, erred |-> FALSE]

PCs == {"idle", "stage", "mark", "discard", "begin", "ensure", "ensureMark",
        "claim", "read", "put", "persist", "publish", "commit", "cleanClaim",
        "cleanDelete", "cleanRecord", "decide", "intakePre", "intakePost",
        "preserve", "release"}
\* cur is the current version a publication found in its snapshot.
CallType == [pc : PCs, s : Sessions \cup {None}, seen : SnapType,
             cur : Sessions \cup {None}, out : {"ok", "wait", "error"}]
IdleCall == [pc |-> "idle", s |-> None, seen |-> NoSnap, cur |-> None, out |-> "ok"]

Init ==
  /\ row = [s \in Sessions |->
       [state |-> "absent", kind |-> "none", version |-> 0, stageTok |-> None,
        stageLive |-> FALSE, finTok |-> None, finLive |-> FALSE, owner |-> None, recLive |-> FALSE,
        due |-> FALSE, past |-> FALSE, attempts |-> 0, orphanDeleted |-> FALSE,
        dead |-> "none"]]
  /\ staged = {} /\ committed = {} /\ files = {}
  /\ current = [d \in Documents |-> None]
  /\ retained = {}
  /\ authority = Sessions
  /\ call = [p \in Procs |-> IdleCall]

--------------------------------------------------------------------------------
(* Control of one call.                                                     *)

At(p, pc) == call[p].pc = pc
S(p) == call[p].s
Corporate(s) == row[s].kind = "corporate"
Authorised(s) == Corporate(s) => s \in authority

Goto(p, s, pc) ==
  call' = [call EXCEPT ![p] = [IdleCall EXCEPT !.pc = pc, !.s = s]]
Release(p, s, out) ==
  call' = [call EXCEPT ![p] = [IdleCall EXCEPT !.pc = "release", !.s = s, !.out = out]]
Stop(p) == call' = [call EXCEPT ![p] = IdleCall]

\* A call returns; a reconciler goes on to give its claim back.
Return(p, s) == IF p \in Reconcilers THEN Release(p, s, "ok") ELSE Stop(p)

\* A call throws.  Every request path hands a corporate session to
\* preserveCorporateUpload before it rethrows.
Fail(p, s) ==
  IF p \in Reconcilers THEN Release(p, s, "error")
  ELSE IF Corporate(s) THEN Goto(p, s, "preserve")
  ELSE Stop(p)

Write(s, r) == row' = [row EXCEPT ![s] = r]

\* The transitions the trigger validate_upload_session_update accepts.
TransitionAllowed(from, to) ==
  \/ from = to
  \/ from = "pending" /\ to \in {"bytes_stored", "failed"} \cup Closed
  \/ from = "failed" /\ to \in {"bytes_stored"} \cup Closed
  \/ from = "bytes_stored" /\ to \in {"provider_finalizing", "failed"} \cup Closed
  \/ from = "provider_finalizing"
       /\ to \in {"bytes_stored", "provider_finalized", "failed_terminal"}
  \/ from = "provider_finalized" /\ to \in {"finalized", "failed_terminal"}
  \/ from = "expired" /\ to = "failed_terminal"

\* Its last check: a cleaned session stays expired.
TriggerAllows(old, new) ==
  /\ TransitionAllowed(old.state, new.state)
  /\ new.orphanDeleted => new.state = "expired"

ClearStage(r) == [r EXCEPT !.stageTok = None, !.stageLive = FALSE]
ClearFinalize(r) == [r EXCEPT !.finTok = None, !.finLive = FALSE]
ClearReconcile(r) == [r EXCEPT !.owner = None, !.recLive = FALSE]
ClearLeases(r) == ClearReconcile(ClearFinalize(ClearStage(r)))
Terminal(r, letter) == [r EXCEPT !.state = "failed_terminal", !.dead = letter]

--------------------------------------------------------------------------------
(* createUploadSession and stageUpload.                                     *)

CreateUploadSession(s) ==
  /\ row[s].state = "absent"
  /\ \E kind \in Kinds, version \in Versions :
       Write(s, [row[s] EXCEPT !.state = "pending", !.kind = kind,
                               !.version = version, !.due = (kind = "plain")])
  /\ UNCHANGED <<store, ledger, policy, call>>

StageLeaseFree(r) == r.state \in {"pending", "failed"} /\ ~r.past /\ ~r.stageLive

ClaimStage(p, s) ==
  /\ At(p, "idle") /\ p \in Clients
  /\ StageLeaseFree(row[s]) /\ Authorised(s)
  /\ Write(s, [row[s] EXCEPT !.stageTok = p, !.stageLive = TRUE, !.due = FALSE])
  /\ Goto(p, s, "stage")
  /\ UNCHANGED <<store, ledger, policy>>

\* A refused stage changes nothing, unless the session is corporate.
RefuseStage(p, s) ==
  /\ At(p, "idle") /\ p \in Clients
  /\ Corporate(s) /\ row[s].state \notin {"absent", "finalized"}
  /\ ~Authorised(s) \/ (row[s].state \notin Stored /\ ~StageLeaseFree(row[s]))
  /\ Fail(p, s)
  /\ UNCHANGED <<row, store, ledger, policy>>

StageObject(p) ==
  /\ At(p, "stage") /\ Authorised(S(p))
  /\ staged' = staged \cup {S(p)}
  /\ Goto(p, S(p), "mark")
  /\ UNCHANGED <<row, committed, ledger, policy>>

\* recordStageFailure, conditional on the lease token.
StageFailed(p, s) ==
  IF Corporate(s) \/ row[s].stageTok # p THEN UNCHANGED row
  ELSE Write(s, [ClearStage(row[s]) EXCEPT
                   !.state = IF @ \in {"pending", "failed"} THEN "failed" ELSE @])

StageRefusedMidway(p) ==
  /\ At(p, "stage") /\ ~Authorised(S(p))
  /\ Fail(p, S(p))
  /\ UNCHANGED <<row, store, ledger, policy>>

StoredRow(s) ==
  [ClearStage(row[s]) EXCEPT !.state = "bytes_stored", !.due = ~Corporate(s)]

MarkBytesStored(p) ==
  LET s == S(p) IN
  /\ At(p, "mark")
  /\ \/ /\ row[s].state \in Stored \cup {"finalized"}
        /\ Stop(p) /\ UNCHANGED row
     \/ /\ row[s].state \in {"pending", "failed"} /\ row[s].stageTok = p
        /\ Write(s, StoredRow(s))
        /\ Stop(p)
     \/ \* stage lease lost, or the session closed meanwhile
        /\ \/ row[s].state \in Closed
           \/ row[s].state \in {"pending", "failed"} /\ row[s].stageTok # p
        /\ StageFailed(p, s)
        /\ IF Corporate(s) THEN Fail(p, s) ELSE Goto(p, s, "discard")
  /\ UNCHANGED <<store, ledger, policy>>

\* The stager that lost its lease deletes the staged object.
DiscardStaged(p) ==
  /\ At(p, "discard")
  /\ staged' = staged \ {S(p)}
  /\ Stop(p)
  /\ UNCHANGED <<row, committed, ledger, policy>>

--------------------------------------------------------------------------------
(* finalizeUpload: an unlocked read chooses the branch, then a finalize     *)
(* lease, the storage finalize, its receipt and the metadata transaction.   *)

BeginFinalize(p, s) ==
  /\ \/ At(p, "idle") /\ p \in Clients
     \/ At(p, "begin") /\ S(p) = s
  /\ row[s].state # "absent"
  /\ \/ row[s].state = "finalized" /\ Return(p, s)
     \/ /\ row[s].state # "finalized"
        /\ row[s].state \in Closed \/ ~Authorised(s)
        /\ Fail(p, s)
     \/ /\ row[s].state \notin Closed \cup {"finalized"} /\ Authorised(s)
        /\ Goto(p, s, CASE row[s].state \in {"pending", "failed"} -> "ensure"
                        [] row[s].state = "provider_finalized" -> "publish"
                        [] OTHER -> "claim")
  /\ UNCHANGED <<row, store, ledger, policy>>

\* ensureBytesStored: the session's state was lost, its staged bytes were not.
StatStaged(p) ==
  /\ At(p, "ensure")
  /\ IF S(p) \in staged THEN Goto(p, S(p), "ensureMark") ELSE Fail(p, S(p))
  /\ UNCHANGED <<row, store, ledger, policy>>

EnsureBytesStored(p) ==
  LET s == S(p) IN
  /\ At(p, "ensureMark")
  /\ \/ row[s].state \in Stored \cup {"finalized"}
        /\ Goto(p, s, "claim") /\ UNCHANGED row
     \/ /\ row[s].state \in {"pending", "failed"} /\ ~row[s].stageLive
        /\ Write(s, StoredRow(s))
        /\ Goto(p, s, "claim")
     \/ /\ row[s].state \in Closed \/ (row[s].state \in {"pending", "failed"} /\ row[s].stageLive)
        /\ Fail(p, s) /\ UNCHANGED row
  /\ UNCHANGED <<store, ledger, policy>>

\* Mutant: a finalize lease is taken while another one is live.
ClaimProviderFinalize_Unleased(p) ==
  LET s == S(p) IN
  /\ At(p, "claim")
  /\ \/ row[s].state \in {"provider_finalized", "finalized"}
        /\ Goto(p, s, "publish") /\ UNCHANGED row
     \/ /\ row[s].state \in {"bytes_stored", "provider_finalizing"} /\ Authorised(s)
        /\ Write(s, [row[s] EXCEPT !.state = "provider_finalizing",
                                   !.finTok = p, !.finLive = TRUE])
        /\ Goto(p, s, "read")
  /\ UNCHANGED <<store, ledger, policy>>

ClaimProviderFinalize(p) ==
  LET s == S(p)
      claimable == row[s].state \in {"bytes_stored", "provider_finalizing"}
                     /\ ~row[s].finLive /\ Authorised(s)
  IN
  /\ At(p, "claim")
  /\ \/ row[s].state \in {"provider_finalized", "finalized"}
        /\ Goto(p, s, "publish") /\ UNCHANGED row
     \/ /\ claimable
        /\ Write(s, [row[s] EXCEPT !.state = "provider_finalizing",
                                   !.finTok = p, !.finLive = TRUE])
        /\ Goto(p, s, "read")
     \/ /\ row[s].state \notin {"provider_finalized", "finalized"} /\ ~claimable
        /\ Fail(p, s) /\ UNCHANGED row
  /\ UNCHANGED <<store, ledger, policy>>

\* Mutant: a failed finalize always goes back to bytes_stored.
FinalizeFailed_AnyState(p, s) ==
  IF Corporate(s) \/ row[s].finTok # p THEN UNCHANGED row
  ELSE Write(s, [ClearFinalize(row[s]) EXCEPT !.state = "bytes_stored"])

\* recordFinalizeFailure, conditional on the lease token.
FinalizeFailed(p, s) ==
  IF Corporate(s) \/ row[s].finTok # p THEN UNCHANGED row
  ELSE Write(s, [ClearFinalize(row[s]) EXCEPT
                   !.state = IF @ = "provider_finalizing" THEN "bytes_stored" ELSE @])

\* Mutant: the receipt is persisted without waiting for the copy.
ReadForFinalize_NoCopy(p) ==
  LET s == S(p) IN
  /\ At(p, "read")
  /\ IF s \in staged \cup committed
       THEN Goto(p, s, "persist") /\ UNCHANGED row
       ELSE Fail(p, s) /\ FinalizeFailed(p, s)
  /\ UNCHANGED <<store, ledger, policy>>

\* finalizeObject reads the source first; it fails when neither copy exists.
ReadForFinalize(p) ==
  LET s == S(p) IN
  /\ At(p, "read")
  /\ IF s \in staged \cup committed
       THEN Goto(p, s, "put") /\ UNCHANGED row
       ELSE Fail(p, s) /\ FinalizeFailed(p, s)
  /\ UNCHANGED <<store, ledger, policy>>

\* It then writes the committed key from what it read.  An object lock may
\* defer the removal of the staged copy.
FinalizeObject(p) ==
  LET s == S(p) IN
  /\ At(p, "put")
  /\ committed' = committed \cup {s}
  /\ staged' \in {staged, staged \ {s}}
  /\ Goto(p, s, "persist")
  /\ UNCHANGED <<row, ledger, policy>>

PersistProviderFinalized(p) ==
  LET s == S(p)
      holds == row[s].state = "provider_finalizing" /\ row[s].finTok = p
  IN
  /\ At(p, "persist")
  /\ \/ row[s].state \in {"provider_finalized", "finalized"}
        /\ Goto(p, s, "publish") /\ UNCHANGED row
     \/ /\ holds
        /\ Write(s, [ClearFinalize(row[s]) EXCEPT !.state = "provider_finalized"])
        /\ Goto(p, s, "publish")
     \/ /\ row[s].state \notin {"provider_finalized", "finalized"} /\ ~holds
        /\ Fail(p, s) /\ FinalizeFailed(p, s)
  /\ UNCHANGED <<store, ledger, policy>>

\* Mutant: no unique version number.
VersionTaken_Never(s) == FALSE

\* document_versions is unique on (document, version number); sessions are not.
VersionTaken(s) ==
  \E t \in files : DocOf[t] = DocOf[s] /\ row[t].version = row[s].version

\* commitMetadata up to the snapshot of its SELECT ... FOR UPDATE OF d: the session
\* is found publishable.  Its row lock, held to the end, is not modelled: what other
\* calls do to the row before CommitMetadata, they do as if they had come first.
ReadDocument(p) ==
  LET s == S(p)
      publishable == row[s].state = "provider_finalized" /\ Authorised(s)
  IN
  /\ At(p, "publish")
  /\ \/ row[s].state = "finalized" /\ Return(p, s)
     \/ /\ publishable
        /\ call' = [call EXCEPT ![p] = [IdleCall EXCEPT
             !.pc = "commit", !.s = s, !.cur = current[DocOf[s]]]]
     \/ row[s].state # "finalized" /\ ~publishable /\ Fail(p, s)
  /\ UNCHANGED <<row, store, ledger, policy>>

\* The document did not exist, and its insertion waited for that of another call:
\* the SELECT, a statement later, finds the document that call published.
InsertionWaited(p) ==
  LET c == current[DocOf[S(p)]] IN
  /\ At(p, "commit") /\ call[p].cur = None /\ c # None
  /\ call' = [call EXCEPT ![p].cur = c]
  /\ UNCHANGED <<row, store, ledger, policy>>

\* Mutant: the document is read before it is inserted.
DocumentFound_ReadFirst(p) == TRUE

\* Otherwise the call's snapshot is of the document it updates.
DocumentFound(p) == call[p].cur = None => current[DocOf[S(p)]] = None

\* Mutant: the last version finalized becomes the current one.
NewCurrent_LastFinalized(s, cur) == s

\* The version number is joined to the document from the snapshot.  Where the
\* statement waited for a commit that changed current_version_id, the version of
\* the new document row is not the one it had joined: the number is NULL, and NULL
\* is taken for a document without a version.
NewCurrent(s, cur) ==
  LET c == current[DocOf[s]] IN
  IF c # None /\ c = cur /\ row[s].version <= row[c].version THEN c ELSE s

\* The document is locked, the version inserted and perhaps made current, and the
\* session's update passes its trigger.
CommitMetadata(p) ==
  LET s == S(p)
      new == [ClearFinalize(ClearStage(row[s])) EXCEPT !.state = "finalized"]
  IN
  /\ At(p, "commit") /\ DocumentFound(p)
  /\ \/ row[s].state = "finalized" /\ Return(p, s) /\ UNCHANGED <<row, ledger>>
     \/ /\ row[s].state # "finalized" /\ ~VersionTaken(s) /\ TriggerAllows(row[s], new)
        /\ files' = files \cup {s}
        /\ current' = [current EXCEPT ![DocOf[s]] = NewCurrent(s, call[p].cur)]
        /\ Write(s, new)
        /\ Return(p, s)
     \/ /\ row[s].state # "finalized"
        /\ VersionTaken(s) \/ ~TriggerAllows(row[s], new)
        /\ Fail(p, s) /\ UNCHANGED <<row, ledger>>
  /\ UNCHANGED <<store, policy>>

--------------------------------------------------------------------------------
(* cleanupOrphan: close the session, delete its staged object, record it.   *)

CleanupAllowed(s) ==
  /\ row[s].state \in {"pending", "bytes_stored", "failed", "expired"}
  /\ ~row[s].stageLive
  /\ s \notin files
  /\ DocOf[s] \notin retained

\* Mutant: a corporate session is cleaned up like any other.
BeginCleanup_Corporate(p, s) ==
  /\ \/ At(p, "idle") /\ p \in Clients
     \/ At(p, "cleanClaim") /\ S(p) = s
  /\ row[s].state # "absent" /\ CleanupAllowed(s)
  /\ Write(s, [row[s] EXCEPT !.state = "expired", !.stageLive = FALSE])
  /\ Goto(p, s, "cleanDelete")
  /\ UNCHANGED <<store, ledger, policy>>

BeginCleanup(p, s) ==
  /\ \/ At(p, "idle") /\ p \in Clients
     \/ At(p, "cleanClaim") /\ S(p) = s
  /\ row[s].state # "absent"
  /\ IF CleanupAllowed(s) /\ ~Corporate(s)
       THEN /\ Write(s, [row[s] EXCEPT !.state = "expired", !.stageLive = FALSE])
            /\ Goto(p, s, "cleanDelete")
       ELSE Fail(p, s) /\ UNCHANGED row
  /\ UNCHANGED <<store, ledger, policy>>

DeleteOrphan(p) ==
  /\ At(p, "cleanDelete")
  /\ staged' = staged \ {S(p)}
  /\ Goto(p, S(p), "cleanRecord")
  /\ UNCHANGED <<row, committed, ledger, policy>>

RecordOrphanDeleted(p) ==
  LET s == S(p)
      cleaned == [row[s] EXCEPT !.orphanDeleted = TRUE]
  IN
  /\ At(p, "cleanRecord")
  /\ IF TriggerAllows(row[s], cleaned)
       THEN Write(s, cleaned) /\ Return(p, s)
       ELSE Fail(p, s) /\ UNCHANGED row
  /\ UNCHANGED <<store, ledger, policy>>

--------------------------------------------------------------------------------
(* reconcileUploadSessions, one claimed session at a time.                  *)

\* Mutant: sessions left in provider_finalizing are not claimed.
ClaimReconciliation_NotFinalizing(r, s) ==
  /\ At(r, "idle") /\ r \in Reconcilers
  /\ row[s].state \in {"pending", "failed", "expired", "bytes_stored", "provider_finalized"}
  /\ row[s].due /\ ~row[s].recLive /\ ~row[s].orphanDeleted
  /\ Write(s, [row[s] EXCEPT !.owner = WorkerOf[r], !.recLive = TRUE])
  /\ call' = [call EXCEPT ![r] =
       [IdleCall EXCEPT !.pc = "decide", !.s = s,
        !.seen = [state |-> row[s].state, stageLive |-> row[s].stageLive,
                  past |-> row[s].past, erred |-> row[s].attempts > 0]]]
  /\ UNCHANGED <<store, ledger, policy>>

ClaimReconciliation(r, s) ==
  /\ At(r, "idle") /\ r \in Reconcilers
  /\ row[s].state \in {"pending", "failed", "expired"} \cup Stored
  /\ row[s].due /\ ~row[s].recLive /\ ~row[s].orphanDeleted
  /\ Write(s, [row[s] EXCEPT !.owner = WorkerOf[r], !.recLive = TRUE])
  /\ call' = [call EXCEPT ![r] =
       [IdleCall EXCEPT !.pc = "decide", !.s = s,
        !.seen = [state |-> row[s].state, stageLive |-> row[s].stageLive,
                  past |-> row[s].past, erred |-> row[s].attempts > 0]]]
  /\ UNCHANGED <<store, ledger, policy>>

\* Mutant: an expired Intake session is cleaned up like a plain one.
DecideIntake_Cleanup(r, s, seen) ==
  IF seen.past /\ seen.state \in {"pending", "failed", "bytes_stored", "expired"}
    THEN Goto(r, s, "cleanClaim") ELSE Release(r, s, "wait")

\* An Intake session waits for its checkpoint until it expires.
DecideIntake(r, s, seen) ==
  IF seen.past /\ seen.state = "provider_finalized" THEN Goto(r, s, "intakePost")
  ELSE IF seen.past /\ seen.state \in {"pending", "failed", "bytes_stored", "expired"}
    THEN Goto(r, s, "intakePre")
  ELSE Release(r, s, "wait")

\* A corporate one waits too, unless an error was recorded on its row (and not
\* cleared since by a stage).
DecideCorporate(r, s, seen) ==
  \/ (seen.past \/ seen.erred) /\ Goto(r, s, "preserve")
  \/ ~seen.past /\ Release(r, s, "wait")

\* The staged object is looked up now; the rest is the snapshot of the claim.
DecidePlain(r, s, seen) ==
  CASE seen.state = "expired" \/ (seen.state = "bytes_stored" /\ seen.past) ->
         Goto(r, s, "cleanClaim")
    [] seen.state \in {"pending", "failed"} ->
         IF seen.stageLive THEN Release(r, s, "wait")
         ELSE IF seen.past THEN Goto(r, s, "cleanClaim")
         ELSE IF s \in staged THEN Goto(r, s, "ensureMark")
         ELSE Release(r, s, "wait")
    [] OTHER -> Goto(r, s, "begin")

Decide(r) ==
  LET s == S(r) IN
  /\ At(r, "decide")
  /\ \/ row[s].kind = "plain" /\ DecidePlain(r, s, call[r].seen)
     \/ row[s].kind = "intake" /\ DecideIntake(r, s, call[r].seen)
     \/ row[s].kind = "corporate" /\ DecideCorporate(r, s, call[r].seen)
  /\ UNCHANGED <<row, store, ledger, policy>>

\* The row is locked, but neither its state nor its owner is looked at again.
MarkIntakeGuardManualRecovery(r) ==
  LET s == S(r)
      new == [Terminal(ClearLeases(row[s]), "intake_pre") EXCEPT !.due = TRUE]
  IN
  /\ At(r, "intakePre")
  /\ IF TriggerAllows(row[s], new)
       THEN Write(s, new) /\ Stop(r)
       ELSE Fail(r, s) /\ UNCHANGED row
  /\ UNCHANGED <<store, ledger, policy>>

AdvanceExpiredIntakeGuard(r) ==
  LET s == S(r)
      counted == [ClearReconcile(ClearFinalize(row[s])) EXCEPT !.attempts = @ + 1]
      last == row[s].attempts + 1 >= MaxAttempts
      new == [(IF last THEN Terminal(ClearStage(counted), "intake_post") ELSE counted)
                EXCEPT !.due = last]
  IN
  /\ At(r, "intakePost")
  /\ IF row[s].owner = WorkerOf[r] /\ row[s].state = "provider_finalized" /\ row[s].past
       THEN Write(s, new) /\ Stop(r)
       ELSE Fail(r, s) /\ UNCHANGED row
  /\ UNCHANGED <<store, ledger, policy>>

PreserveCorporateUpload(p) ==
  LET s == S(p) IN
  /\ At(p, "preserve")
  /\ IF row[s].state = "finalized" \/ row[s].dead = "corporate"
       THEN UNCHANGED row
       ELSE Write(s, Terminal(ClearLeases(row[s]), "corporate"))
  /\ Stop(p)
  /\ UNCHANGED <<store, ledger, policy>>

\* Mutant: no dead letter at the limit.
CountedFailure_Unbounded(r) == [ClearReconcile(r) EXCEPT !.attempts = @ + 1, !.due = FALSE]

\* A failed attempt is counted; the last one closes the session.
CountedFailure(r) ==
  LET counted == [ClearReconcile(r) EXCEPT !.attempts = @ + 1, !.due = FALSE] IN
  IF counted.attempts >= MaxAttempts THEN Terminal(counted, "reconcile") ELSE counted

\* Mutant: the claim is released without looking whose it is.
ReleaseReconciliationClaim_AnyOwner(r) ==
  LET s == S(r)
      new == IF call[r].out = "error" THEN CountedFailure(row[s])
             ELSE [ClearReconcile(row[s]) EXCEPT !.due = (call[r].out = "ok")]
  IN
  /\ At(r, "release")
  /\ IF TriggerAllows(row[s], new) THEN Write(s, new) ELSE UNCHANGED row
  /\ Stop(r)
  /\ UNCHANGED <<store, ledger, policy>>

\* The claim is recognised by its worker id.  When the trigger rejects the dead
\* letter, the run ends with the claim still on the row.
ReleaseReconciliationClaim(r) ==
  LET s == S(r)
      new == IF call[r].out = "error" THEN CountedFailure(row[s])
             ELSE [ClearReconcile(row[s]) EXCEPT !.due = (call[r].out = "ok")]
  IN
  /\ At(r, "release")
  /\ IF row[s].owner = WorkerOf[r] /\ TriggerAllows(row[s], new)
       THEN Write(s, new)
       ELSE UNCHANGED row
  /\ Stop(r)
  /\ UNCHANGED <<store, ledger, policy>>

--------------------------------------------------------------------------------
(* Failures, the passing of time, and the other commands of the runtime.    *)

\* The storage or database call of the current step throws.
CallFails(p) ==
  LET s == S(p) IN
  /\ Faults
  /\ ~At(p, "idle") /\ call[p].out # "error"
  /\ CASE call[p].pc \in {"stage", "mark"} -> StageFailed(p, s)
       [] call[p].pc \in {"read", "put", "persist"} -> FinalizeFailed(p, s)
       [] OTHER -> UNCHANGED row
  /\ IF At(p, "preserve") /\ p \in Clients THEN Stop(p) ELSE Fail(p, s)
  /\ UNCHANGED <<store, ledger, policy>>

Crash(p) ==
  /\ p \in MayCrash /\ ~At(p, "idle")
  /\ Stop(p)
  /\ UNCHANGED <<row, store, ledger, policy>>

\* Five ways a deadline of a row passes.
LapseStage(s) ==
  /\ row[s].stageLive /\ Write(s, [row[s] EXCEPT !.stageLive = FALSE])
  /\ UNCHANGED <<store, ledger, policy, call>>
LapseFinalize(s) ==
  /\ row[s].finLive /\ Write(s, [row[s] EXCEPT !.finLive = FALSE])
  /\ UNCHANGED <<store, ledger, policy, call>>
LapseReconcile(s) ==
  /\ row[s].recLive /\ Write(s, [row[s] EXCEPT !.recLive = FALSE])
  /\ UNCHANGED <<store, ledger, policy, call>>
BecomeDue(s) ==
  /\ row[s].state # "absent" /\ ~row[s].due /\ Write(s, [row[s] EXCEPT !.due = TRUE])
  /\ UNCHANGED <<store, ledger, policy, call>>
ExpireSession(s) ==
  /\ row[s].state # "absent" /\ ~row[s].past /\ Write(s, [row[s] EXCEPT !.past = TRUE])
  /\ UNCHANGED <<store, ledger, policy, call>>

\* The corporate workspace is changed after the session pinned its digest.
RevokeAuthority(s) ==
  /\ Corporate(s) /\ s \in authority
  /\ authority' = authority \ {s}
  /\ UNCHANGED <<row, store, ledger, retained, call>>

\* setRetentionPolicy names a published object; retain_until passes later.
RetainDocument(d) ==
  /\ current[d] # None /\ d \notin retained
  /\ retained' = retained \cup {d}
  /\ UNCHANGED <<row, store, ledger, authority, call>>
RetentionEnds(d) ==
  /\ d \in retained
  /\ retained' = retained \ {d}
  /\ UNCHANGED <<row, store, ledger, authority, call>>

--------------------------------------------------------------------------------

\* The next step of a call in progress.
Continue(p) ==
  \/ StageObject(p) \/ StageRefusedMidway(p) \/ MarkBytesStored(p) \/ DiscardStaged(p)
  \/ \E s \in Sessions : ~At(p, "idle") /\ (BeginFinalize(p, s) \/ BeginCleanup(p, s))
  \/ StatStaged(p) \/ EnsureBytesStored(p) \/ ClaimProviderFinalize(p)
  \/ ReadForFinalize(p) \/ FinalizeObject(p) \/ PersistProviderFinalized(p)
  \/ ReadDocument(p) \/ InsertionWaited(p) \/ CommitMetadata(p) \/ DeleteOrphan(p) \/ RecordOrphanDeleted(p)
  \/ Decide(p) \/ MarkIntakeGuardManualRecovery(p) \/ AdvanceExpiredIntakeGuard(p)
  \/ PreserveCorporateUpload(p) \/ ReleaseReconciliationClaim(p)

\* A client calls one of the runtime's operations.
Request(p, s) ==
  /\ At(p, "idle")
  /\ ClaimStage(p, s) \/ RefuseStage(p, s) \/ BeginFinalize(p, s) \/ BeginCleanup(p, s)

Elapse(s) == LapseStage(s) \/ LapseFinalize(s) \/ LapseReconcile(s)
               \/ BecomeDue(s) \/ ExpireSession(s)

Next ==
  \/ \E s \in Sessions : CreateUploadSession(s) \/ Elapse(s) \/ RevokeAuthority(s)
  \/ \E d \in Documents : RetainDocument(d) \/ RetentionEnds(d)
  \/ \E p \in Procs : Continue(p) \/ CallFails(p) \/ Crash(p)
  \/ \E p \in Clients, s \in Sessions : Request(p, s)
  \/ \E r \in Reconcilers, s \in Sessions : ClaimReconciliation(r, s)

Spec == Init /\ [][Next]_vars

\* Deadlines pass, reconcileUploadSessions is run again and again, and a run
\* that has started goes on.  Nothing is asked of clients: they may stop.
Fairness ==
  /\ \A s \in Sessions : /\ WF_vars(LapseStage(s)) /\ WF_vars(LapseFinalize(s))
                         /\ WF_vars(LapseReconcile(s))
                         /\ WF_vars(BecomeDue(s)) /\ WF_vars(ExpireSession(s))
  /\ \A r \in Reconcilers : /\ WF_vars(Continue(r))
                            /\ \A s \in Sessions : WF_vars(ClaimReconciliation(r, s))

FairSpec == Spec /\ Fairness

--------------------------------------------------------------------------------
(* What the runtime promises.                                               *)

\* Every variable stays in its type; attempts never exceed their limit.
TypeOK ==
  /\ row \in [Sessions -> RowType]
  /\ staged \subseteq Sessions /\ committed \subseteq Sessions
  /\ files \subseteq Sessions
  /\ current \in [Documents -> Sessions \cup {None}]
  /\ retained \subseteq Documents /\ authority \subseteq Sessions
  /\ call \in [Procs -> CallType]

\* A version is visible exactly when its session says finalized, and a session
\* that got past its storage finalize has its bytes: however claims, lapsed
\* leases and late answers interleave, no metadata points at a missing object.
PublishedHasBytes ==
  \A s \in Sessions :
    /\ s \in files <=> row[s].state = "finalized"
    /\ row[s].state \in {"provider_finalized", "finalized"} => s \in committed

VersionsOf(d) == {s \in files : DocOf[s] = d}

\* documents.current_version_id is the highest published version, in whatever
\* order the sessions of a document are finalized (upload-reconciliation.test.js).
CurrentIsLatest ==
  \A d \in Documents : \A s \in VersionsOf(d) :
    row[s].version <= row[current[d]].version

\* However publications of a document race, its version numbers are unique, a
\* reader gets one of its versions as soon as there is one, and as long as there
\* are no more than two the higher one: it takes a third for an older version to
\* be made current.
VersionsConsistent ==
  \A d \in Documents :
    LET versions == VersionsOf(d) IN
    /\ \A s, t \in versions : row[s].version = row[t].version => s = t
    /\ IF versions = {} THEN current[d] = None ELSE current[d] \in versions
    /\ \A s, t \in versions :
         versions = {s, t} => row[s].version <= row[current[d]].version

\* The current version goes back only in a publication that was overtaken: another
\* version became current between its snapshot of the document and its lock.
OnlyOvertakenGoesBack ==
  [][\A d \in Documents :
       current[d] # None /\ current'[d] # current[d]
         => \/ row'[current'[d]].version > row[current[d]].version
            \/ \E p \in Procs : /\ At(p, "commit") /\ S(p) = current'[d]
                               /\ call[p].cur \notin {None, current[d]}]_vars

\* The attempts counted on a row are exactly what closes it: a session is out of
\* attempts only when closed, a reconciliation dead letter is written only at the
\* limit, and no reconciler still owns a closed session.
RetryBudget ==
  \A s \in Sessions :
    /\ row[s].attempts = MaxAttempts => row[s].state = "failed_terminal"
    /\ row[s].dead \in {"reconcile", "intake_post"} => row[s].attempts = MaxAttempts
    /\ row[s].state = "failed_terminal" =>
         row[s].dead # "none" /\ row[s].owner = None /\ ~row[s].recLive

\* A live stage or finalize lease changes hands only by a step of its holder, or
\* by the decision to close the session: no concurrent stage, finalize, cleanup
\* or reconciliation takes it away.
LiveLeasesRespected ==
  [][\A s \in Sessions :
       LET taken(tok, live, newTok) ==
             live /\ newTok # tok /\ call'[tok] = call[tok]
       IN
       \/ taken(row[s].stageTok, row[s].stageLive, row'[s].stageTok)
       \/ taken(row[s].finTok, row[s].finLive, row'[s].finTok)
       => row'[s].state = "failed_terminal"]_vars

\* Every update the runtime makes is one the trigger of upload_sessions accepts;
\* finalized, expired and failed_terminal sessions are never revived.
UpdatesPassTrigger ==
  [][\A s \in Sessions :
       row[s].state # "absent" => TriggerAllows(row[s], row'[s])]_vars

\* "Reconciliation and orphan cleanup cannot delete corporate bytes"
\* (docs/runbooks/corporate-private-workspace.md:106): no step of any call
\* leaves a corporate session without bytes it had.
CorporateBytesKept ==
  [][\A s \in Sessions : Corporate(s) /\ s \in staged \cup committed
       => s \in (staged \cup committed)']_vars

\* An Intake session is never cleaned up behind its checkpoint's back: only a
\* client's own call, never reconciliation, removes its bytes.
IntakeBytesKept ==
  [][\A s \in Sessions :
       row[s].kind = "intake" /\ s \in staged \cup committed /\ s \notin (staged \cup committed)'
         => \E c \in Clients : call'[c] # call[c]]_vars

\* The receipt of markIntakeGuardManualRecovery says provider_bytes_committed is
\* false; advanceExpiredIntakeGuardCheckpoint's says it is true.  Both are so.
IntakeReceiptsTrue ==
  \A s \in Sessions :
    /\ row[s].dead = "intake_pre" => s \notin committed
    /\ row[s].dead = "intake_post" => s \in committed

\* A session whose bytes are stored is not given up while the finalize lease of
\* some worker, killed or slow, is still running.
KillPointsRecovered ==
  \A s \in Sessions :
    ~(row[s].dead = "reconcile" /\ row[s].finLive /\ s \in staged \cup committed)

\* The state bytes_stored means verified staged bytes exist.
BytesStoredHasBytes ==
  \A s \in Sessions : row[s].state = "bytes_stored" => s \in staged \cup committed

\* The sessions as a reader sees them: see DmsPublication.
phase == [s \in Sessions |->
  CASE row[s].state = "absent" -> "none"
    [] row[s].state = "finalized" -> "published"
    [] row[s].state \in Closed -> "closed"
    [] OTHER -> "open"]

number == [s \in Sessions |-> row[s].version]

Publication == INSTANCE DmsPublication WITH durable <- committed, latest <- current
\* The runtime implements it: each step of a call publishes, stores or closes at
\* most one upload, or is invisible to readers.
ImplementsPublication == Publication!Spec

Settled(s) ==
  \/ row[s].state \in {"finalized", "failed_terminal"}
  \/ row[s].state = "expired" /\ row[s].orphanDeleted

\* Every session that is not waiting for an Intake checkpoint ends: published,
\* cleaned up or dead-lettered, whatever clients do and wherever they die.
EverySessionSettles ==
  \A s \in Sessions :
    row[s].state # "absent" /\ row[s].kind # "intake" ~> Settled(s)

\* Intake sessions are to end too, in bounded manual recovery if need be.
IntakeSessionsSettle ==
  \A s \in Sessions : row[s].kind = "intake" ~> Settled(s)

================================================================================
