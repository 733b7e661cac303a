------------------------- MODULE DocusignCompletion -------------------------
(* The completion artifacts of one signature request: polls and webhooks that
   find it completed at the provider race to download the signed document and
   the certificate, to ingest each into the immutable artifact store, and to
   record both before the request is completed.

   Each callback of repository.transact is one step; downloads, reads of the
   row and calls of the artifact store lie between them.  An operation on the
   row fences its holder by kind and generation: it carries no token.  Its
   lease may lapse at any moment.  The artifact store, with the upload runtime
   behind it, is one step a call: it is immutable, addressed by the object id
   of the kind, and accepts the same bytes again. *)
EXTENDS Naturals, FiniteSets

CONSTANTS
  Workers,       \* polls and webhook deliveries that run the completion
  Digests,       \* digests a download may have
  Usual,         \* the one it has unless the provider renders the file anew
  MayCrash,      \* workers that may die
  MaxMishaps,    \* bound on the mishaps, each of which happens once at most
  MaxGeneration, \* bound on the operations begun one over another
  None

\* A replayed send interrupts the request, a lease lapses under a worker still
\* at it, a worker dies, a call fails, a download differs from the others.
Mishaps == {"interrupt", "lapse", "crash", "fault", "drift"}

ASSUME CompletionAssumption ==
  /\ MayCrash \subseteq Workers
  /\ Usual \in Digests /\ None \notin Digests
  /\ MaxMishaps \in Nat
  /\ MaxGeneration \in Nat \ {0}

VARIABLES
  row,     \* the durable request, as far as completion reads and writes it
  store,   \* the artifact store
  work,    \* what each worker is doing
  mishaps  \* the mishaps that have come to pass

vars == <<row, store, work, mishaps>>

Kinds == {"signed_pdf", "certificate"}
\* The loop takes the signed document first.
After(kind) == IF kind = "signed_pdf" THEN "certificate" ELSE "none"

Operations == [kind : Kinds, gen : 1 .. MaxGeneration, live : BOOLEAN, sha : Digests]
Rows == [state : {"completed_artifacts_pending", "completed", "reconciliation_required"},
         op : Operations \cup {None}, recorded : [Kinds -> Digests \cup {None}]]

\* seen and done are the operation and the artifacts of the row last read.
Phases == {"idle", "loop", "downloaded", "readback", "recover", "begin",
           "claimed", "validate", "ingest", "stored", "finish", "failed"}
Jobs == [pc : Phases, kind : Kinds \cup {"none"}, sha : Digests \cup {None},
         seen : Operations \cup {None}, done : SUBSET Kinds]

TypeOK ==
  /\ row \in Rows
  /\ store \in [Kinds -> Digests \cup {None}]
  /\ work \in [Workers -> Jobs]
  /\ mishaps \subseteq Mishaps

Idle == [pc |-> "idle", kind |-> "none", sha |-> None, seen |-> None, done |-> {}]

Init ==
  /\ row = [state |-> "completed_artifacts_pending", op |-> None,
            recorded |-> [k \in Kinds |-> None]]
  /\ store = [k \in Kinds |-> None]
  /\ work = [w \in Workers |-> Idle]
  /\ mishaps = {}

-----------------------------------------------------------------------------

Done(r) == {k \in Kinds : r.recorded[k] # None}

\* The fence of the recording transactions: kind and generation, no token.
SameFence(op, other) ==
  op # None /\ other # None /\ op.kind = other.kind /\ op.gen = other.gen

\* A worker goes on with the row it has just read or written.
Go(w, pc, r) ==
  work' = [work EXCEPT ![w].pc = pc, ![w].seen = r.op, ![w].done = Done(r)]

Happens(m) ==
  /\ m \notin mishaps /\ Cardinality(mishaps) < MaxMishaps
  /\ mishaps' = mishaps \cup {m}

Stop(w) == work' = [work EXCEPT ![w] = Idle]

\* The next artifact of the loop, whatever became of this one.
NextKind(w, r) ==
  LET k == After(work[w].kind)
  IN  work' = [work EXCEPT ![w] = [pc |-> IF k = "none" THEN "finish" ELSE "loop",
                                   kind |-> k, sha |-> None, seen |-> r.op, done |-> Done(r)]]

Start(w) ==
  /\ work[w].pc = "idle"
  /\ row.state = "completed_artifacts_pending"
  /\ work' = [work EXCEPT ![w] = [pc |-> "loop", kind |-> "signed_pdf", sha |-> None,
                                  seen |-> row.op, done |-> Done(row)]]
  /\ UNCHANGED <<row, store, mishaps>>

\* An artifact already recorded in the row last read is skipped.
Skip(w) ==
  /\ work[w].pc = "loop" /\ work[w].kind \in work[w].done
  /\ work' = [work EXCEPT ![w].pc = IF After(work[w].kind) = "none" THEN "finish" ELSE "loop",
                          ![w].kind = After(work[w].kind)]
  /\ UNCHANGED <<row, store, mishaps>>

Download(w) ==
  /\ work[w].pc = "loop" /\ work[w].kind \notin work[w].done
  /\ \E d \in Digests :
       /\ IF d = Usual THEN UNCHANGED mishaps ELSE Happens("drift")
       /\ work' = [work EXCEPT ![w].pc = "downloaded", ![w].sha = d]
  /\ UNCHANGED <<row, store>>

\* The row is read again; an operation whose lease lapsed is looked up first.
Reread(w) ==
  /\ work[w].pc = "downloaded"
  /\ Go(w, IF row.op # None /\ ~row.op.live THEN "readback" ELSE "begin", row)
  /\ UNCHANGED <<row, store, mishaps>>

\* Mutant: whatever the store holds is taken for the lapsed operation's bytes.
Readback_AnyBytes(w) ==
  LET op == work[w].seen
  IN  /\ work[w].pc = "readback"
      /\ work' = [work EXCEPT ![w].pc = IF store[op.kind] # None THEN "recover"
                                        ELSE IF op.kind = work[w].kind THEN "begin" ELSE "failed"]
      /\ UNCHANGED <<row, store, mishaps>>

\* Mutant: an operation whose bytes are not there is never begun again.
Readback_OrFail(w) ==
  LET op == work[w].seen
  IN  /\ work[w].pc = "readback"
      /\ work' = [work EXCEPT ![w].pc = IF store[op.kind] = op.sha THEN "recover" ELSE "failed"]
      /\ UNCHANGED <<row, store, mishaps>>

\* readbackCompletionArtifact under the digest of the lapsed operation.
Readback(w) ==
  LET op == work[w].seen
  IN  /\ work[w].pc = "readback"
      /\ work' = [work EXCEPT ![w].pc = IF store[op.kind] = op.sha THEN "recover"
                                        ELSE IF op.kind = work[w].kind THEN "begin" ELSE "failed"]
      /\ UNCHANGED <<row, store, mishaps>>

\* persistRecoveredArtifact, after another read of the row.
Recover(w) ==
  LET op == work[w].seen
      new == IF row.state = "completed_artifacts_pending" /\ row.recorded[op.kind] = None
             THEN [row EXCEPT !.recorded[op.kind] = op.sha, !.op = None]
             ELSE row
  IN  /\ work[w].pc = "recover"
      /\ IF SameFence(row.op, op)
         THEN /\ row' = new
              /\ IF op.kind # work[w].kind \/ new.recorded[work[w].kind] # None
                 THEN NextKind(w, new)
                 ELSE Go(w, "begin", new)
         ELSE Go(w, "failed", row) /\ UNCHANGED row
      /\ UNCHANGED <<store, mishaps>>

\* Mutant: generations start at zero.
Generation_FromZero == IF row.op = None THEN 0 ELSE row.op.gen + 1

\* beginCompletionOperation: the next generation after that of any operation
\* left on the row, or the first one.
Generation == IF row.op = None THEN 1 ELSE row.op.gen + 1

BeginOperation(w) ==
  LET k == work[w].kind
      new == [row EXCEPT !.op = [kind |-> k, gen |-> Generation, live |-> TRUE, sha |-> work[w].sha]]
  IN  /\ work[w].pc = "begin"
      /\ \/ /\ \/ row.state # "completed_artifacts_pending"
               \/ row.recorded[k] = None /\ row.op # None /\ row.op.live
            /\ Stop(w) /\ UNCHANGED row
         \/ /\ row.state = "completed_artifacts_pending" /\ row.recorded[k] # None
            /\ NextKind(w, row) /\ UNCHANGED row
         \/ /\ row.state = "completed_artifacts_pending" /\ row.recorded[k] = None
            /\ (row.op # None => ~row.op.live)
            /\ Generation <= MaxGeneration
            /\ row' = new /\ Go(w, "claimed", new)
      /\ UNCHANGED <<store, mishaps>>

\* The row is read once more, and the operation found there is the fence from
\* now on, so long as it is of the right kind.
TakeFence(w) ==
  /\ work[w].pc = "claimed"
  /\ Go(w, IF row.op # None /\ row.op.kind = work[w].kind THEN "validate" ELSE "failed", row)
  /\ UNCHANGED <<row, store, mishaps>>

\* validateAuthority: the store calls it again just before it writes.
Validate(w) ==
  /\ work[w].pc = "validate"
  /\ work' = [work EXCEPT ![w].pc = IF SameFence(row.op, work[w].seen) THEN "ingest" ELSE "failed"]
  /\ UNCHANGED <<row, store, mishaps>>

\* artifactStore.ingest: the transaction that publishes the version first
\* compares the row with the whole authority, the digest included.  Its answer
\* may be lost.
Ingest(w) ==
  LET k == work[w].kind
      authorised == SameFence(row.op, work[w].seen) /\ row.op.sha = work[w].sha
  IN  /\ work[w].pc = "ingest"
      /\ store' = [store EXCEPT ![k] = IF @ = None /\ authorised THEN work[w].sha ELSE @]
      /\ \/ /\ authorised /\ store'[k] = work[w].sha
            /\ work' = [work EXCEPT ![w].pc = "stored"]
            /\ UNCHANGED mishaps
         \/ /\ IF authorised /\ store'[k] = work[w].sha THEN Happens("fault") ELSE UNCHANGED mishaps
            /\ work' = [work EXCEPT ![w].pc = "failed"]
      /\ UNCHANGED row

\* Mutant: the operation is left on the row.
Record_KeepsOperation(w) ==
  LET k == work[w].kind
      new == IF row.state = "completed_artifacts_pending"
             THEN [row EXCEPT !.recorded[k] = work[w].sha]
             ELSE row
  IN  /\ work[w].pc = "stored"
      /\ IF SameFence(row.op, work[w].seen)
         THEN row' = new /\ NextKind(w, new)
         ELSE work' = [work EXCEPT ![w].pc = "failed"] /\ UNCHANGED row
      /\ UNCHANGED <<store, mishaps>>

\* The artifact is recorded under the fence.
Record(w) ==
  LET k == work[w].kind
      new == IF row.state = "completed_artifacts_pending"
             THEN [row EXCEPT !.recorded[k] = work[w].sha, !.op = None]
             ELSE row
  IN  /\ work[w].pc = "stored"
      /\ IF SameFence(row.op, work[w].seen)
         THEN row' = new /\ NextKind(w, new)
         ELSE work' = [work EXCEPT ![w].pc = "failed"] /\ UNCHANGED row
      /\ UNCHANGED <<store, mishaps>>

\* Mutant: the request is completed when the loop ends, whatever it recorded.
Finish_Unchecked(w) ==
  /\ work[w].pc = "finish"
  /\ row' = IF row.state = "completed_artifacts_pending"
            THEN [row EXCEPT !.state = "completed", !.op = None] ELSE row
  /\ Stop(w)
  /\ UNCHANGED <<store, mishaps>>

Finish(w) ==
  /\ work[w].pc = "finish"
  /\ row' = IF row.state = "completed_artifacts_pending" /\ Done(row) = Kinds
            THEN [row EXCEPT !.state = "completed", !.op = None] ELSE row
  /\ Stop(w)
  /\ UNCHANGED <<store, mishaps>>

\* Any call of the loop may fail.
CallFails(w) ==
  /\ Happens("fault")
  /\ work[w].pc \in {"loop", "downloaded", "readback", "recover", "begin", "claimed", "validate", "ingest"}
  /\ work' = [work EXCEPT ![w].pc = "failed"]
  /\ UNCHANGED <<row, store>>

\* markCompletionUnknown: the operation the worker saw last is let go at once,
\* whoever holds it.
MarkUnknown(w) ==
  /\ work[w].pc = "failed"
  /\ row' = IF SameFence(row.op, work[w].seen) THEN [row EXCEPT !.op.live = FALSE] ELSE row
  /\ Stop(w)
  /\ UNCHANGED <<store, mishaps>>

-----------------------------------------------------------------------------

\* The lease of an operation nobody is at lapses in any case.
Attended ==
  \E w \in Workers :
    work[w].pc \in {"claimed", "validate", "ingest", "stored"} /\ SameFence(row.op, work[w].seen)

LeaseLapses ==
  /\ row.op # None /\ row.op.live
  /\ IF Attended THEN Happens("lapse") ELSE UNCHANGED mishaps
  /\ row' = [row EXCEPT !.op.live = FALSE]
  /\ UNCHANGED <<store, work>>

\* A replayed send sends the request back to reconciliation, which finds it
\* completed at the provider (see DocusignEnvelope).
Interrupt ==
  /\ Happens("interrupt")
  /\ row.state # "reconciliation_required"
  /\ row' = [row EXCEPT !.state = "reconciliation_required"]
  /\ UNCHANGED <<store, work>>

Reconciled ==
  /\ row.state = "reconciliation_required"
  /\ row' = [row EXCEPT !.state = "completed_artifacts_pending"]
  /\ UNCHANGED <<store, work, mishaps>>

Crash(w) ==
  /\ w \in MayCrash /\ work[w].pc # "idle" /\ Happens("crash")
  /\ Stop(w)
  /\ UNCHANGED <<row, store>>

Step(w) ==
  \/ Skip(w) \/ Download(w) \/ Reread(w) \/ Readback(w) \/ Recover(w) \/ BeginOperation(w)
  \/ TakeFence(w) \/ Validate(w) \/ Ingest(w) \/ Record(w) \/ Finish(w) \/ MarkUnknown(w)

Next ==
  \/ \E w \in Workers : Start(w) \/ Step(w) \/ CallFails(w) \/ Crash(w)
  \/ LeaseLapses \/ Interrupt \/ Reconciled

Spec == Init /\ [][Next]_vars

\* A worker that runs goes on, leases lapse, and the request is polled again
\* and again (the poll of a completed request waits for no slot).
FairSpec ==
  /\ Spec
  /\ WF_vars(LeaseLapses) /\ WF_vars(Reconciled)
  /\ \A w \in Workers : WF_vars(Start(w)) /\ WF_vars(Step(w))

-----------------------------------------------------------------------------
(* Properties *)

\* What the row records is what the store holds: neither a recovered readback
\* nor an ingest whose fence changed meanwhile records other bytes
\* (artifacts.js:126-141, 173-188).
RecordedIsStored ==
  \A k \in Kinds : row.recorded[k] # None => store[k] = row.recorded[k]

\* An operation is only ever left on the row for an artifact still missing, so
\* taking over the wrong kind of operation never blocks the loop
\* (artifacts.js:128-140).
OperationIsForMissing ==
  row.op # None => row.recorded[row.op.kind] = None

\* The recorded artifacts never change, and the request is completed only with
\* both of them (artifacts.js:190-194).
ArtifactsImmutable ==
  [][/\ \A k \in Kinds : row.recorded[k] # None => row'.recorded[k] = row.recorded[k]
     /\ row'.state = "completed" => Done(row') = Kinds]_vars

\* A completed envelope gets both artifacts recorded, whoever dies, fails or is
\* overtaken, unless a replayed send interrupts the request or the provider
\* renders a file anew.
CompletionSettles ==
  <>(row.state = "completed") \/ <>(mishaps \cap {"interrupt", "drift"} # {})

\* "remains artifacts-pending on partial DMS failure and retries only the
\* missing artifact" (docusign-completion-artifacts.test.js:17): it gets there
\* in the end.
MissingArtifactRetried == <>(Done(row) = Kinds)

=============================================================================
