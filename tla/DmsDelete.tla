------------------------------- MODULE DmsDelete -------------------------------
(***************************************************************************)
(* Permanent deletion of committed objects, and the legal holds and        *)
(* retention policies that forbid it                                       *)
(* (packages/dms/src/postgres-upload-runtime.js, second half).             *)
(*                                                                         *)
(* A delete intent is executed in three separate steps: a leased claim in  *)
(* PostgreSQL, the destruction at the provider, and the tombstone in       *)
(* PostgreSQL.  Holds and retention are written by other requests; with an *)
(* S3 object lock (ProviderLock) they are also set at the provider, inside *)
(* the transaction, so that transaction is two steps that lock the row.    *)
(***************************************************************************)
EXTENDS Integers, FiniteSets

CONSTANTS
  Objects,      \* the committed objects of one document, one per version
  Clients,      \* request handlers
  Reconcilers,  \* runs of reconcileDeleteIntents, one claimed intent each
  ProviderLock, \* storage.capabilities.provider_retention
  MaxAttempts,  \* maxReconciliationAttempts
  Faults,       \* whether storage and approval calls may fail
  MayCrash,     \* processes that may die
  None

Procs == Clients \cup Reconcilers

ASSUME DeleteProcs == Clients \cap Reconcilers = {} /\ None \notin Procs
ASSUME DeleteObjects == None \notin Objects
ASSUME DeleteAttempts == MaxAttempts \in Nat \ {0}
ASSUME DeleteFailures ==
  Faults \in BOOLEAN /\ ProviderLock \in BOOLEAN /\ MayCrash \subseteq Procs

VARIABLES
  status,   \* file_objects.status
  bytes,    \* objects present at the provider
  current,  \* documents.current_version_id
  held,     \* objects with an active legal hold row
  retained, \* objects with an unexpired retention row
  locked,   \* <<object, "hold" or "retain">>: what is set at the provider
  intent,   \* delete_intents, at most one per object
  call      \* the call each process is executing, and where

vars == <<status, bytes, current, held, retained, locked, intent, call>>
protection == <<held, retained, locked>>

IntentType == [
  state : {"none", "pending", "provider_deleted", "completed", "failed_terminal"},
  tok : Procs \cup {None}, live : BOOLEAN,
  due : BOOLEAN,
  attempts : 0..(MaxAttempts + 1)]
NoIntent == [state |-> "none", tok |-> None, live |-> FALSE, due |-> FALSE, attempts |-> 0]

PCs == {"idle", "execute", "delete", "record", "tombstone", "error", "hold", "retain"}
CallType == [pc : PCs, o : Objects \cup {None}, counted : 0..MaxAttempts]
IdleCall == [pc |-> "idle", o |-> None, counted |-> 0]

Init ==
  /\ status = [o \in Objects |-> "committed"]
  /\ bytes = Objects
  /\ current \in Objects
  /\ held = {} /\ retained = {} /\ locked = {}
  /\ intent = [o \in Objects |-> NoIntent]
  /\ call = [p \in Procs |-> IdleCall]

At(p, pc) == call[p].pc = pc
O(p) == call[p].o
Protected(o) == o \in held \cup retained
ProviderLocked(o) == \E kind \in {"hold", "retain"} : <<o, kind>> \in locked
Open(o) == intent[o].state \in {"pending", "provider_deleted"}
\* A hold or retention transaction has the file object's row locked.
RowFree(o) == \A p \in Procs : call[p].pc \in {"hold", "retain"} => call[p].o # o

Goto(p, pc) == call' = [call EXCEPT ![p].pc = pc]
Enter(p, o, pc) == call' = [call EXCEPT ![p] = [IdleCall EXCEPT !.pc = pc, !.o = o]]
Stop(p) == call' = [call EXCEPT ![p] = IdleCall]
\* An error reaches the caller; reconcileDeleteIntents records it first.
Throw(p) == IF p \in Reconcilers THEN Goto(p, "error") ELSE Stop(p)

Write(o, i) == intent' = [intent EXCEPT ![o] = i]
ClearLease(i) == [i EXCEPT !.tok = None, !.live = FALSE]

--------------------------------------------------------------------------------
(* requestCommittedObjectDelete and executeCommittedObjectDelete.           *)

RequestDelete(o) ==
  /\ intent[o].state = "none" /\ status[o] = "committed"
  /\ ~Protected(o) /\ RowFree(o)
  /\ Write(o, [NoIntent EXCEPT !.state = "pending", !.due = TRUE])
  /\ status' = [status EXCEPT ![o] = "delete_pending"]
  /\ UNCHANGED <<bytes, current, protection, call>>

\* A pending intent is executed only for an unprotected object; one already
\* destroyed at the provider goes straight to its tombstone.
MayExecute(o) ==
  intent[o].state = "pending" => status[o] = "delete_pending" /\ ~Protected(o)

\* Mutant: the receipt is recorded before the provider is called.
Continuation_ReceiptFirst(o) == IF intent[o].state = "pending" THEN "record" ELSE "tombstone"

Continuation(o) == IF intent[o].state = "pending" THEN "delete" ELSE "tombstone"

ExecuteDelete(c, o) ==
  /\ At(c, "idle") /\ c \in Clients
  /\ Open(o) /\ ~intent[o].live /\ MayExecute(o) /\ RowFree(o)
  /\ Write(o, [intent[o] EXCEPT !.tok = c, !.live = TRUE])
  /\ Enter(c, o, Continuation(o))
  /\ UNCHANGED <<status, bytes, current, protection>>

\* A failure before the provider answered gives the lease back.
GiveLeaseBack(p, o) ==
  IF intent[o].state = "pending" /\ intent[o].tok = p
    THEN Write(o, ClearLease(intent[o])) ELSE UNCHANGED intent

DeleteCommittedObject(p) ==
  LET o == O(p) IN
  /\ At(p, "delete")
  /\ \/ /\ ~ProviderLocked(o)
        /\ bytes' = bytes \ {o}
        /\ Goto(p, "record") /\ UNCHANGED intent
     \/ /\ ProviderLocked(o)
        /\ GiveLeaseBack(p, o) /\ Throw(p) /\ UNCHANGED bytes
  /\ UNCHANGED <<status, current, protection>>

\* The approval is not verified again, or the provider call throws: before or
\* after the provider destroyed the object.
DeleteCallFails(p) ==
  LET o == O(p) IN
  /\ Faults /\ At(p, "delete")
  /\ bytes' \in {bytes, IF ProviderLocked(o) THEN bytes ELSE bytes \ {o}}
  /\ GiveLeaseBack(p, o)
  /\ Throw(p)
  /\ UNCHANGED <<status, current, protection>>

\* Mutant: the receipt is recorded whoever holds the lease.
RecordProviderDeleted_AnyToken(p) ==
  /\ At(p, "record")
  /\ Write(O(p), [intent[O(p)] EXCEPT !.state = "provider_deleted", !.attempts = @ + 1])
  /\ Goto(p, "tombstone")
  /\ UNCHANGED <<status, bytes, current, protection>>

RecordProviderDeleted(p) ==
  LET o == O(p) IN
  /\ At(p, "record")
  /\ IF intent[o].tok = p
       THEN /\ Write(o, [intent[o] EXCEPT !.state = "provider_deleted", !.attempts = @ + 1])
            /\ Goto(p, "tombstone")
       ELSE Throw(p) /\ UNCHANGED intent
  /\ UNCHANGED <<status, bytes, current, protection>>

FinalizeDeleteIntent(p) ==
  LET o == O(p) IN
  /\ At(p, "tombstone")
  /\ \/ intent[o].state = "completed" /\ Stop(p) /\ UNCHANGED <<status, current, intent>>
     \/ /\ intent[o].state = "provider_deleted" /\ RowFree(o)
        /\ status' = [status EXCEPT ![o] = IF @ = "delete_pending" THEN "deleted" ELSE @]
        /\ current' = IF current = o THEN None ELSE current
        /\ Write(o, [ClearLease(intent[o]) EXCEPT !.state = "completed"])
        /\ Stop(p)
     \/ /\ intent[o].state \notin {"completed", "provider_deleted"}
        /\ Throw(p) /\ UNCHANGED <<status, current, intent>>
  /\ UNCHANGED <<bytes, protection>>

--------------------------------------------------------------------------------
(* reconcileDeleteIntents.                                                  *)

ClaimDeleteIntent(r, o) ==
  /\ At(r, "idle") /\ r \in Reconcilers
  /\ Open(o) /\ intent[o].due /\ ~intent[o].live
  /\ Write(o, [intent[o] EXCEPT !.tok = r, !.live = TRUE])
  /\ call' = [call EXCEPT ![r] =
       [pc |-> "execute", o |-> o, counted |-> intent[o].attempts]]
  /\ UNCHANGED <<status, bytes, current, protection>>

ExecuteClaimed(r) ==
  LET o == O(r)
      mine == Open(o) /\ intent[o].tok = r
  IN
  /\ At(r, "execute")
  /\ \/ intent[o].state = "completed" /\ Stop(r)
     \/ mine /\ MayExecute(o) /\ RowFree(o) /\ Goto(r, Continuation(o))
     \/ /\ intent[o].state # "completed" /\ ~(mine /\ MayExecute(o))
        /\ Throw(r)
  /\ UNCHANGED <<status, bytes, current, protection, intent>>

\* Mutant: no dead letter at the limit.
RecordDeleteFailure_Unbounded(r) ==
  /\ At(r, "error")
  /\ IF intent[O(r)].tok = r
       THEN Write(O(r), [ClearLease(intent[O(r)]) EXCEPT
                           !.attempts = call[r].counted + 1, !.due = FALSE])
       ELSE UNCHANGED intent
  /\ Stop(r)
  /\ UNCHANGED <<status, bytes, current, protection>>

\* The attempts counted are those read at the claim, plus one.
RecordDeleteFailure(r) ==
  LET o == O(r)
      n == call[r].counted + 1
      failed == [ClearLease(intent[o]) EXCEPT !.attempts = n, !.due = FALSE]
  IN
  /\ At(r, "error")
  /\ IF intent[o].tok = r
       THEN Write(o, IF n >= MaxAttempts THEN [failed EXCEPT !.state = "failed_terminal"]
                     ELSE failed)
       ELSE UNCHANGED intent
  /\ Stop(r)
  /\ UNCHANGED <<status, bytes, current, protection>>

--------------------------------------------------------------------------------
(* placeLegalHold and setRetentionPolicy.  The lease of an intent refuses   *)
(* them whether it is live or not: only a missing token lets them through.  *)

NoActiveProviderDelete(o) == ~(Open(o) /\ intent[o].tok # None)

\* Mutant: the provider is not told.
BeginProtection_LocalOnly(c, o, pc) ==
  /\ At(c, "idle") /\ c \in Clients
  /\ status[o] \in {"committed", "delete_pending"} /\ RowFree(o)
  /\ NoActiveProviderDelete(o)
  /\ Enter(c, o, pc)
  /\ UNCHANGED <<status, bytes, current, protection, intent>>

\* Provider call inside the transaction: it needs the object to be there.
BeginProtection(c, o, pc) ==
  /\ At(c, "idle") /\ c \in Clients
  /\ status[o] \in {"committed", "delete_pending"} /\ RowFree(o)
  /\ NoActiveProviderDelete(o)
  /\ IF ProviderLock THEN o \in bytes /\ locked' = locked \cup {<<o, pc>>} ELSE UNCHANGED locked
  /\ Enter(c, o, pc)
  /\ UNCHANGED <<status, bytes, current, held, retained, intent>>

PlaceLegalHold(c, o) == o \notin held /\ BeginProtection(c, o, "hold")
SetRetentionPolicy(c, o) == o \notin retained /\ BeginProtection(c, o, "retain")

CommitLegalHold(c) ==
  /\ At(c, "hold")
  /\ held' = held \cup {O(c)}
  /\ Stop(c)
  /\ UNCHANGED <<status, bytes, current, retained, locked, intent>>

CommitRetentionPolicy(c) ==
  /\ At(c, "retain")
  /\ retained' = retained \cup {O(c)}
  /\ Stop(c)
  /\ UNCHANGED <<status, bytes, current, held, locked, intent>>

\* retain_until passes, in PostgreSQL and at the provider.
RetentionEnds(o) ==
  /\ o \in retained \/ <<o, "retain">> \in locked
  /\ RowFree(o)
  /\ retained' = retained \ {o}
  /\ locked' = locked \ {<<o, "retain">>}
  /\ UNCHANGED <<status, bytes, current, held, intent, call>>

LapseDelete(o) ==
  /\ intent[o].live /\ Write(o, [intent[o] EXCEPT !.live = FALSE])
  /\ UNCHANGED <<status, bytes, current, protection, call>>
DeleteBecomesDue(o) ==
  /\ Open(o) /\ ~intent[o].due /\ Write(o, [intent[o] EXCEPT !.due = TRUE])
  /\ UNCHANGED <<status, bytes, current, protection, call>>

\* A database error at the claim or the tombstone.
TransactionFails(p) ==
  /\ Faults /\ call[p].pc \in {"execute", "record", "tombstone"}
  /\ Throw(p)
  /\ UNCHANGED <<status, bytes, current, protection, intent>>

\* A process that dies gives up its row lock; a provider lock it set remains.
Crash(p) ==
  /\ p \in MayCrash /\ ~At(p, "idle")
  /\ Stop(p)
  /\ UNCHANGED <<status, bytes, current, protection, intent>>

--------------------------------------------------------------------------------

Continue(p) ==
  \/ DeleteCommittedObject(p) \/ DeleteCallFails(p) \/ RecordProviderDeleted(p)
  \/ FinalizeDeleteIntent(p) \/ ExecuteClaimed(p) \/ RecordDeleteFailure(p)
  \/ TransactionFails(p) \/ CommitLegalHold(p) \/ CommitRetentionPolicy(p)

Next ==
  \/ \E p \in Procs : Continue(p) \/ Crash(p)
  \/ \E o \in Objects :
       \/ RequestDelete(o) \/ RetentionEnds(o) \/ LapseDelete(o) \/ DeleteBecomesDue(o)
       \/ \E c \in Clients : ExecuteDelete(c, o) \/ PlaceLegalHold(c, o) \/ SetRetentionPolicy(c, o)
       \/ \E r \in Reconcilers : ClaimDeleteIntent(r, o)

Spec == Init /\ [][Next]_vars

--------------------------------------------------------------------------------

TypeOK ==
  /\ status \in [Objects -> {"committed", "delete_pending", "deleted"}]
  /\ bytes \subseteq Objects
  /\ current \in Objects \cup {None}
  /\ held \subseteq Objects /\ retained \subseteq Objects 
  /\ locked \subseteq Objects \X {"hold", "retain"}
  /\ intent \in [Objects -> IntentType]
  /\ call \in [Procs -> CallType]

\* Metadata never claims more than the provider has: an object offered to readers
\* has its bytes, and a tombstone or a provider receipt is written only after the
\* bytes are gone, whichever of the racing executors destroyed them.
TombstoneAfterDestruction ==
  \A o \in Objects :
    /\ status[o] = "committed" => o \in bytes
    /\ intent[o].state \in {"provider_deleted", "completed"} => o \notin bytes
    /\ status[o] = "deleted" <=> intent[o].state = "completed"
    /\ status[o] = "deleted" => current # o

\* An object is never lost once its hold or retention was accepted.  Stale
\* executors may still be at the provider: the provider's own lock stops them.
ProtectedObjectsKept == held \cup retained \subseteq bytes

\* A hold or retention is never accepted during a provider destruction.
ProtectionFenced ==
  \A p \in Procs : At(p, "delete") => ~Protected(O(p))

\* Completed and dead-lettered intents stay so, and no claim survives on them.
TerminalIntentsSealed ==
  [][\A o \in Objects :
       intent[o].state \in {"completed", "failed_terminal"} =>
         /\ intent'[o] = intent[o]
         /\ intent[o].tok = None]_vars

================================================================================
