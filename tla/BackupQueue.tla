----------------------------- MODULE BackupQueue -----------------------------
(* The file queue from which runtime stores are backed up to S3: the stores
   put an event into pending/, a processor under a lock file takes the events in
   order, uploads a snapshot for each and leaves a receipt, or tries again later,
   or puts the event into dead-letter/.

   The processors are operating-system processes and may die between any two of
   their file operations, each of which is a step.  A file that is created
   exclusively at its own name can be seen before it is written; the other writes
   are renamed into place whole.  A receipt that was created and never written
   counts as one, for only its existence is looked at.  The object store is
   external: an upload may arrive although its answer is lost.  Process ids are
   not used again, all processes are on one host, and reading, creating or
   removing a file does not fail. *)
EXTENDS Naturals

CONSTANTS
  Processors,   \* processes that run processRuntimeStoreBackupQueue
  MayDie,       \* processes that may die
  MaxEvent,     \* bound on the events, which are numbered in the order of their names
  MaxAttempts,  \* maxAttempts
  None

ASSUME QueueAssumption ==
  /\ None \notin Processors /\ MayDie \subseteq Processors
  /\ MaxEvent \in Nat /\ MaxAttempts \in Nat \ {0}

VARIABLES
  lock,      \* processor.lock
  pending,   \* the file of each event in pending/
  writer,    \* the store that queues each event
  attempts,  \* the file of each event in attempts/
  receipts,  \* events with a file in receipts/
  dead,      \* events with a file in dead-letter/
  invalid,   \* events with an invalid-... file in dead-letter/
  uploaded,  \* events whose snapshot is in the bucket
  proc       \* what each processor is doing

vars == <<lock, pending, writer, attempts, receipts, dead, invalid, uploaded, proc>>

Events == 1 .. MaxEvent
Locks == [owner : Processors, whole : BOOLEAN, old : BOOLEAN] \cup {None}
AttemptFiles == [count : 0 .. MaxAttempts - 1, due : BOOLEAN]
Calls == [pc : {"idle", "dead", "write_lock", "read_lock", "unlock", "relock", "list", "next",
                "drop", "upload", "receipt", "failed", "remove", "forget"},
          todo : SUBSET Events, event : Events \cup {None}, tries : 0 .. MaxAttempts]

Idle == [pc |-> "idle", todo |-> {}, event |-> None, tries |-> 0]
NoAttempt == [count |-> 0, due |-> TRUE]

Init ==
  /\ lock = None
  /\ pending = [e \in Events |-> "none"]
  /\ writer = [e \in Events |-> "none"]
  /\ attempts = [e \in Events |-> NoAttempt]
  /\ receipts = {} /\ dead = {} /\ invalid = {} /\ uploaded = {}
  /\ proc = [p \in Processors |-> Idle]

files == <<pending, writer, attempts, receipts, dead, invalid, uploaded>>

-----------------------------------------------------------------------------
(* A store queues an event. *)

CreateEvent(e) ==
  /\ writer[e] = "none"
  /\ writer' = [writer EXCEPT ![e] = "writing"]
  /\ pending' = [pending EXCEPT ![e] = "empty"]
  /\ UNCHANGED <<lock, attempts, receipts, dead, invalid, uploaded, proc>>

\* The file may have been removed meanwhile: the writing does not bring it back.
WriteEvent(e) ==
  /\ writer[e] = "writing"
  /\ writer' = [writer EXCEPT ![e] = "queued"]
  /\ pending' = [pending EXCEPT ![e] = IF @ = "empty" THEN "whole" ELSE @]
  /\ UNCHANGED <<lock, attempts, receipts, dead, invalid, uploaded, proc>>

WriterDies(e) ==
  /\ writer[e] = "writing"
  /\ writer' = [writer EXCEPT ![e] = "died"]
  /\ UNCHANGED <<lock, pending, attempts, receipts, dead, invalid, uploaded, proc>>

-----------------------------------------------------------------------------
(* The processor's lock. *)

At(p, pc) == proc[p].pc = pc
Goto(p, pc) == proc' = [proc EXCEPT ![p].pc = pc]
Return(p) == proc' = [proc EXCEPT ![p] = Idle]

CreateLock(p) ==
  /\ lock' = [owner |-> p, whole |-> FALSE, old |-> FALSE]
  /\ Goto(p, "write_lock")

Start(p) ==
  /\ At(p, "idle")
  /\ \/ lock = None /\ CreateLock(p)
     \/ lock # None /\ Goto(p, "read_lock") /\ UNCHANGED lock
  /\ UNCHANGED files

WriteLock(p) ==
  /\ At(p, "write_lock")
  /\ lock' = IF lock # None /\ lock.owner = p THEN [lock EXCEPT !.whole = TRUE] ELSE lock
  /\ Goto(p, "list")
  /\ UNCHANGED files

\* Mutant: the age is compared the wrong way round.
Recoverable_Young == lock # None /\ lock.whole /\ ~lock.old /\ At(lock.owner, "dead")

\* Recoverable: thirty seconds old, and its owner is dead.  A lock that was never
\* written cannot be parsed.
Recoverable == lock # None /\ lock.whole /\ lock.old /\ At(lock.owner, "dead")

ReadLock(p) ==
  /\ At(p, "read_lock")
  /\ IF Recoverable THEN Goto(p, "unlock") ELSE Return(p)
  /\ UNCHANGED <<lock, files>>

\* Whatever lock is there by now is removed.
RemoveLock(p) ==
  /\ At(p, "unlock")
  /\ lock' = None
  /\ Goto(p, "relock")
  /\ UNCHANGED files

Relock(p) ==
  /\ At(p, "relock")
  /\ \/ lock = None /\ CreateLock(p)
     \/ lock # None /\ Return(p) /\ UNCHANGED lock
  /\ UNCHANGED files

Release(p) ==
  /\ At(p, "next") /\ proc[p].todo = {}
  /\ lock' = IF lock # None /\ lock.whole /\ lock.owner = p THEN None ELSE lock
  /\ Return(p)
  /\ UNCHANGED files

-----------------------------------------------------------------------------
(* The events, one after the other. *)

ListEvents(p) ==
  /\ At(p, "list")
  /\ proc' = [proc EXCEPT ![p].pc = "next", ![p].todo = {e \in Events : pending[e] # "none"}]
  /\ UNCHANGED <<lock, files>>

\* The next event; its file may be gone or not yet written, it may have a receipt,
\* and it may have to wait for its next attempt.
TakeEvent(p) ==
  /\ At(p, "next")
  /\ \E e \in proc[p].todo :
       /\ \A f \in proc[p].todo : e <= f
       /\ LET rest == proc[p].todo \ {e}
              On(pc, tries) == [pc |-> pc, todo |-> rest, event |-> e, tries |-> tries] IN
          proc' = [proc EXCEPT ![p] =
                     IF pending[e] # "whole" THEN On("drop", 0)
                     ELSE IF e \in receipts THEN On("remove", 0)
                     ELSE IF ~attempts[e].due THEN [@ EXCEPT !.todo = rest]
                     ELSE On("upload", attempts[e].count + 1)]
       /\ invalid' = IF pending[e] # "whole" THEN invalid \cup {e} ELSE invalid
  /\ UNCHANGED <<lock, pending, writer, attempts, receipts, dead, uploaded>>

E(p) == proc[p].event

\* An unreadable event has its dead letter by now.
DropEvent(p) ==
  /\ At(p, "drop")
  /\ pending' = [pending EXCEPT ![E(p)] = "none"]
  /\ Goto(p, "next")
  /\ UNCHANGED <<lock, writer, attempts, receipts, dead, invalid, uploaded>>

\* Mutant: the event is removed with the upload, before its receipt is there.
Upload_RemovesEvent(p) ==
  /\ At(p, "upload")
  /\ \/ /\ uploaded' = uploaded \cup {E(p)} /\ Goto(p, "receipt")
        /\ pending' = [pending EXCEPT ![E(p)] = "none"]
     \/ /\ uploaded' \in {uploaded, uploaded \cup {E(p)}} /\ Goto(p, "failed")
        /\ UNCHANGED pending
  /\ UNCHANGED <<lock, writer, attempts, receipts, dead, invalid>>

\* Mutant: a lost answer is taken for success.
Upload_Assumed(p) ==
  /\ At(p, "upload")
  /\ uploaded' \in {uploaded, uploaded \cup {E(p)}}
  /\ Goto(p, "receipt")
  /\ UNCHANGED <<lock, pending, writer, attempts, receipts, dead, invalid>>

\* createSnapshot and uploadSnapshot: both may fail, the answer may be lost.
Upload(p) ==
  /\ At(p, "upload")
  /\ \/ uploaded' = uploaded \cup {E(p)} /\ Goto(p, "receipt")
     \/ uploaded' \in {uploaded, uploaded \cup {E(p)}} /\ Goto(p, "failed")
  /\ UNCHANGED <<lock, pending, writer, attempts, receipts, dead, invalid>>

\* The receipt is created exclusively: a second one is a failure.
WriteReceipt(p) ==
  /\ At(p, "receipt")
  /\ receipts' = receipts \cup {E(p)}
  /\ Goto(p, IF E(p) \in receipts THEN "failed" ELSE "remove")
  /\ UNCHANGED <<lock, pending, writer, attempts, dead, invalid, uploaded>>

\* Mutant: one attempt too many.
AttemptFails_OneMore(p) ==
  /\ At(p, "failed")
  /\ \/ /\ proc[p].tries > MaxAttempts
        /\ dead' = dead \cup {E(p)}
        /\ Goto(p, "remove")
        /\ UNCHANGED attempts
     \/ /\ proc[p].tries <= MaxAttempts
        /\ attempts' = [attempts EXCEPT ![E(p)] = [count |-> proc[p].tries, due |-> FALSE]]
        /\ Goto(p, "next")
        /\ UNCHANGED dead
  /\ UNCHANGED <<lock, pending, writer, receipts, invalid, uploaded>>

AttemptFails(p) ==
  /\ At(p, "failed")
  /\ \/ /\ proc[p].tries >= MaxAttempts
        /\ dead' = dead \cup {E(p)}
        /\ Goto(p, "remove")
        /\ UNCHANGED attempts
     \/ /\ proc[p].tries < MaxAttempts
        /\ attempts' = [attempts EXCEPT ![E(p)] = [count |-> proc[p].tries, due |-> FALSE]]
        /\ Goto(p, "next")
        /\ UNCHANGED dead
  /\ UNCHANGED <<lock, pending, writer, receipts, invalid, uploaded>>

RemoveEvent(p) ==
  /\ At(p, "remove")
  /\ pending' = [pending EXCEPT ![E(p)] = "none"]
  /\ Goto(p, "forget")
  /\ UNCHANGED <<lock, writer, attempts, receipts, dead, invalid, uploaded>>

RemoveAttempt(p) ==
  /\ At(p, "forget")
  /\ attempts' = [attempts EXCEPT ![E(p)] = NoAttempt]
  /\ Goto(p, "next")
  /\ UNCHANGED <<lock, pending, writer, receipts, dead, invalid, uploaded>>

-----------------------------------------------------------------------------
(* Time and death. *)

LockAges ==
  /\ lock # None /\ ~lock.old
  /\ lock' = [lock EXCEPT !.old = TRUE]
  /\ UNCHANGED <<files, proc>>

AttemptComesDue(e) ==
  /\ ~attempts[e].due
  /\ attempts' = [attempts EXCEPT ![e].due = TRUE]
  /\ UNCHANGED <<lock, pending, writer, receipts, dead, invalid, uploaded, proc>>

Die(p) ==
  /\ p \in MayDie /\ ~At(p, "dead")
  /\ proc' = [proc EXCEPT ![p] = [Idle EXCEPT !.pc = "dead"]]
  /\ UNCHANGED <<lock, files>>

Run(p) ==
  \/ WriteLock(p) \/ ReadLock(p) \/ RemoveLock(p) \/ Relock(p) \/ Release(p)
  \/ ListEvents(p) \/ TakeEvent(p) \/ DropEvent(p) \/ Upload(p) \/ WriteReceipt(p)
  \/ AttemptFails(p) \/ RemoveEvent(p) \/ RemoveAttempt(p)

Next ==
  \/ \E e \in Events : CreateEvent(e) \/ WriteEvent(e) \/ WriterDies(e) \/ AttemptComesDue(e)
  \/ \E p \in Processors : Start(p) \/ Run(p) \/ Die(p)
  \/ LockAges

Spec == Init /\ [][Next]_vars

\* Time passes, a living processor goes on, and the ones that may not die are
\* started again and again.
FairSpec ==
  /\ Spec
  /\ WF_vars(LockAges)
  /\ \A e \in Events : WF_vars(AttemptComesDue(e)) /\ WF_vars(WriteEvent(e))
  /\ \A p \in Processors : WF_vars(Run(p))
  /\ \A p \in Processors \ MayDie : WF_vars(Start(p))

-----------------------------------------------------------------------------
(* Properties *)

TypeOK ==
  /\ lock \in Locks
  /\ pending \in [Events -> {"none", "empty", "whole"}]
  /\ writer \in [Events -> {"none", "writing", "queued", "died"}]
  /\ attempts \in [Events -> AttemptFiles]
  /\ receipts \subseteq Events /\ dead \subseteq Events
  /\ invalid \subseteq Events /\ uploaded \subseteq Events
  /\ proc \in [Processors -> Calls]

\* An event leaves pending/ only for a receipt or a dead letter, wherever the
\* processors die and however many of them hold the lock
\* (processRuntimeStoreBackupQueue writes the one before it removes the other).
NoEventVanishes ==
  \A e \in Events :
    writer[e] # "none" /\ pending[e] = "none" => e \in receipts \cup dead \cup invalid

\* A receipt is only left for a snapshot that is in the bucket, whoever left it.
ReceiptsAreTrue == receipts \subseteq uploaded

\* The queue drains: every event that is queued gets its receipt or its dead letter,
\* unless a processor died while it wrote its lock, which is never recovered.
EventsSettle ==
  []<>(\/ \A e \in Events : writer[e] = "queued" => e \in receipts \cup dead \cup invalid
       \/ lock # None /\ ~lock.whole /\ At(lock.owner, "dead"))

=============================================================================
