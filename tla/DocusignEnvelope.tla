-------------------------- MODULE DocusignEnvelope --------------------------
(* Signature requests of one payload and their envelopes at DocuSign: the send
   executor, the reconciliation executor, the poll and the Connect webhook,
   beside a provider that may answer late, twice or never.

   repository.transact is one serializable transaction under an advisory lock,
   so each of its callbacks is one step; everything between two of them is
   not.  A call of the provider is in flight in `calls` until the provider
   carries it out, rejects it or loses it, whether or not the caller waits:
   the SDK cannot abort (send.js:94).  A lease is live until it lapses, which
   may be at any moment; its token is the worker, since a worker runs one
   attempt at a time and every attempt draws a fresh token.  `now` counts
   coarse ticks and matters only where provider times are compared. *)
EXTENDS Naturals, FiniteSets

CONSTANTS
  Requests,       \* requests queued for one payload (document, signers, anchors)
  Handlers,       \* handlers of API calls: send and reconcile
  Pollers,        \* handlers of polls
  SendKeys,       \* action idempotency keys of send
  ReconcileKeys,  \* action idempotency keys of reconcile
  Ends,           \* the ends the provider may put to an envelope
  Sequenced,      \* whether Connect events carry a sequence number
  MayCrash,       \* workers that may die in a call
  MaxTime,        \* bound on the ticks
  MaxSeq,         \* bound on the sequence numbers reconciliation makes up
  None

\* A worker runs one call at a time.
Workers == Handlers \cup Pollers

ASSUME EnvelopeAssumption ==
  /\ Ends \subseteq {"completed", "declined", "voided"}
  /\ Sequenced \in BOOLEAN
  /\ MayCrash \subseteq Workers
  /\ MaxTime \in Nat
  /\ MaxSeq \in Nat
  /\ None \notin {"ok", "rejected"}

VARIABLES
  req,       \* the durable rows of docusign_requests
  provider,  \* the envelopes at DocuSign and the events they emitted
  calls,     \* calls on their way to the provider
  work,      \* what each worker is doing
  now        \* the tick

vars == <<req, provider, calls, work, now>>

-----------------------------------------------------------------------------
(* Vocabulary *)

Refused == {"declined", "voided"}
Terminal == {"completed_artifacts_pending", "completed", "provider_blocked"} \cup Refused
Inactive == {"completed", "provider_blocked"} \cup Refused
Reconcilable == {"reconciliation_required", "draft_created", "sent", "delivered",
                 "completed_artifacts_pending"}
NeedsEnvelope == {"draft_created", "sent", "delivered",
                  "completed_artifacts_pending", "completed"} \cup Refused
RequestStates == {"none", "approved", "provider_pending"} \cup Reconcilable \cup Terminal

Statuses == {"none", "created", "sent", "delivered", "completed"} \cup Refused
EventStatuses == Statuses \ {"none", "created"}

\* Where a provider status leads, and how far along each state is.
StateOf == [created |-> "draft_created", sent |-> "sent", delivered |-> "delivered",
            completed |-> "completed_artifacts_pending",
            declined |-> "declined", voided |-> "voided"]
Rank == [approved |-> 1, provider_pending |-> 2, reconciliation_required |-> 2,
         draft_created |-> 3, sent |-> 4, delivered |-> 5,
         completed_artifacts_pending |-> 6, completed |-> 7]

Cursors == [time : 0 .. MaxTime, seq : Nat \cup {None}, status : Statuses]
Leases == [kind : {"send", "reconcile", "poll"}, holder : Workers, live : BOOLEAN]
\* An attempt that ended unknown is claimed again like one that failed.
KeyStates == {"unused", "in_progress", "succeeded", "failed"}

Rows == [state : RequestStates, envelope : BOOLEAN, lease : Leases \cup {None},
         cursor : Cursors \cup {None}, pollDue : BOOLEAN,
         seen : SUBSET EventStatuses, artifacts : BOOLEAN,
         send : [SendKeys -> KeyStates], reconcile : [ReconcileKeys -> KeyStates]]

\* creates counts the createDraft calls ever issued for the request.
Envelopes == [status : Statuses, creates : Nat, events : SUBSET Cursors]

Calls == [kind : {"create", "send"}, req : Requests, by : Workers]
Phases == {"idle", "resolve", "resolveDraft", "creating", "drafted", "sending",
           "finding", "found", "polling", "polled"}
Jobs == [pc : Phases, req : Requests \cup {None},
         key : SendKeys \cup ReconcileKeys \cup {None},
         read : Statuses \cup {"ok", "rejected", None}, time : 0 .. MaxTime]

TypeOK ==
  /\ req \in [Requests -> Rows]
  /\ provider \in [Requests -> Envelopes]
  /\ calls \subseteq Calls
  /\ work \in [Workers -> Jobs]
  /\ now \in 0 .. MaxTime

NewRow == [state |-> "none", envelope |-> FALSE, lease |-> None, cursor |-> None,
           pollDue |-> TRUE, seen |-> {}, artifacts |-> FALSE,
           send |-> [k \in SendKeys |-> "unused"],
           reconcile |-> [k \in ReconcileKeys |-> "unused"]]
Idle == [pc |-> "idle", req |-> None, key |-> None, read |-> None, time |-> 0]

Init ==
  /\ req = [r \in Requests |-> NewRow]
  /\ provider = [r \in Requests |-> [status |-> "none", creates |-> 0, events |-> {}]]
  /\ calls = {}
  /\ work = [w \in Workers |-> Idle]
  /\ now = 0

-----------------------------------------------------------------------------
(* The repository *)

Active(row) == row.state \notin Inactive \cup {"none"}

\* What normalizeDocusignOutboxState accepts; transact commits nothing else.
Normal(rows) ==
  /\ \A r \in Requests :
       /\ rows[r].state \in NeedsEnvelope => rows[r].envelope
       /\ rows[r].state = "approved" => ~rows[r].envelope
       /\ rows[r].state = "completed" => rows[r].artifacts
  /\ \A r, q \in Requests : Active(rows[r]) /\ Active(rows[q]) => r = q

Transact(r, row) ==
  LET rows == [req EXCEPT ![r] = row]
  IN  req' = IF Normal(rows) THEN rows ELSE req

\* Mutant: an expired lease is never taken over.
Lapsed_Never(row) == row.lease = None

Lapsed(row) == row.lease # None => ~row.lease.live

\* Mutant: the lease is written without its holder.
Lease_Unowned(kind, w) == [kind |-> kind, holder |-> None, live |-> TRUE]

Lease(kind, w) == [kind |-> kind, holder |-> w, live |-> TRUE]

\* The token comparison of the executors, and their assertLease.
HasToken(row, kind, w) ==
  row.lease # None /\ row.lease.kind = kind /\ row.lease.holder = w
HoldsSend(row, w) ==
  row.state = "provider_pending" /\ HasToken(row, "send", w) /\ row.lease.live
HoldsReconcile(row, w) ==
  row.state \in Reconcilable /\ HasToken(row, "reconcile", w) /\ row.lease.live

\* One request per payload may be active; a queue call that finds one replays it.
Queue(r) ==
  /\ req[r].state = "none"
  /\ \A q \in Requests : ~Active(req[q])
  /\ Transact(r, [req[r] EXCEPT !.state = "approved"])
  /\ UNCHANGED <<provider, calls, work, now>>

-----------------------------------------------------------------------------
(* Observations of the provider *)

\* compareCursor: an observation is accepted when it is newer than the cursor,
\* or just as old and of the same status.
Accepts(cursor, event) ==
  \/ cursor = None
  \/ event.time > cursor.time
  \/ /\ event.time = cursor.time
     /\ \/ event.seq # None /\ cursor.seq = None
        \/ event.seq # None /\ cursor.seq # None /\ event.seq > cursor.seq
        \/ event.seq = cursor.seq /\ event.status = cursor.status

\* Mutant: an observation may take the request backwards.
Project_Backwards(row, event) ==
  IF Accepts(row.cursor, event) /\ row.state \notin Terminal
  THEN [row EXCEPT !.state = StateOf[event.status], !.cursor = event]
  ELSE row

\* projectDocusignProviderEvent.
Project(row, event) ==
  LET target == StateOf[event.status]
      advances == event.status \in Refused \/ Rank[target] >= Rank[row.state]
  IN  IF Accepts(row.cursor, event) /\ row.state \notin Terminal /\ advances
      THEN [row EXCEPT !.state = target, !.cursor = event]
      ELSE row

\* processWebhook.  An event of an envelope the row does not name yet is
\* answered 401; a hash already recorded changes nothing.
Webhook(r) ==
  \E e \in provider[r].events :
    /\ req[r].envelope
    /\ e.status \notin req[r].seen
    /\ Transact(r, [Project(req[r], e) EXCEPT !.seen = @ \cup {e.status}])
    /\ UNCHANGED <<provider, calls, work, now>>

-----------------------------------------------------------------------------
(* sendApprovedRequest *)

Start(w, pc, r, k) ==
  work' = [work EXCEPT ![w] = [Idle EXCEPT !.pc = pc, !.req = r, !.key = k]]
Stop(w) == work' = [work EXCEPT ![w] = Idle]

\* Mutant: an interrupted attempt is started afresh.
Interrupted_Afresh(row) ==
  [row EXCEPT !.state = IF row.envelope THEN "reconciliation_required" ELSE "approved",
              !.lease = None]

Interrupted(row) ==
  [row EXCEPT !.state = "reconciliation_required", !.lease = None]

\* Mutant: any replayed key counts as interrupted once the lease is gone.
ReplayInterrupted_Settled(r, k) ==
  LET row == req[r]
  IN  /\ row.send[k] # "unused"
      /\ Lapsed(row)
      /\ Transact(r, [Interrupted(row) EXCEPT !.send[k] = "failed"])
      /\ UNCHANGED <<provider, calls, work, now>>

\* A key that was used before, of an attempt that was interrupted.
ReplayInterrupted(r, k) ==
  LET row == req[r]
  IN  /\ row.send[k] # "unused"
      /\ row.send[k] = "in_progress" \/ row.state = "provider_pending"
      /\ Lapsed(row)
      /\ Transact(r, [Interrupted(row) EXCEPT !.send[k] = "failed"])
      /\ UNCHANGED <<provider, calls, work, now>>

\* A new key that meets an interrupted attempt.
ClaimInterrupted(r, k) ==
  LET row == req[r]
  IN  /\ row.send[k] = "unused"
      /\ row.state = "provider_pending"
      /\ Lapsed(row)
      /\ Transact(r, Interrupted(row))
      /\ UNCHANGED <<provider, calls, work, now>>

\* A claim: of an approved request, of a draft with a new key, or of a draft
\* with a key whose attempt failed.  It looks at no lease.
ClaimSend(w, r, k) ==
  LET row == req[r]
  IN  /\ work[w].pc = "idle"
      /\ \/ row.state = "approved" /\ row.send[k] = "unused"
         \/ row.state = "draft_created" /\ row.send[k] \in {"unused", "failed"}
      /\ Transact(r, [row EXCEPT !.state = "provider_pending",
                                 !.lease = Lease("send", w),
                                 !.send[k] = "in_progress"])
      /\ Start(w, IF row.state = "approved" THEN "resolve" ELSE "resolveDraft", r, k)
      /\ UNCHANGED <<provider, calls, now>>

\* updateLease: the update is committed only under the lease.
UnderSendLease(w, row) ==
  IF HoldsSend(req[work[w].req], w)
  THEN Transact(work[w].req, row)
  ELSE UNCHANGED req

\* The connection, the artifact or a recipient cannot be resolved.
ResolveFails(w) ==
  /\ work[w].pc \in {"resolve", "resolveDraft"}
  /\ UnderSendLease(w, [req[work[w].req] EXCEPT !.state = "approved", !.lease = None,
                                                !.send[work[w].key] = "failed"])
  /\ Stop(w)
  /\ UNCHANGED <<provider, calls, now>>

\* beginProviderOperation and the call that follows it.
Begin(w, kind, pc) ==
  LET r == work[w].req
  IN  /\ IF HoldsSend(req[r], w)
         THEN /\ calls' = calls \cup {[kind |-> kind, req |-> r, by |-> w]}
              /\ provider' = [provider EXCEPT ![r].creates =
                                IF kind = "create" THEN @ + 1 ELSE @]
              /\ work' = [work EXCEPT ![w].pc = pc]
         ELSE Stop(w) /\ UNCHANGED <<provider, calls>>
      /\ UNCHANGED <<req, now>>

BeginCreate(w) == work[w].pc = "resolve" /\ Begin(w, "create", "creating")
BeginSend(w) == work[w].pc \in {"resolveDraft", "drafted"} /\ Begin(w, "send", "sending")

\* createDraft returned: the envelope id is persisted before anything is sent.
DraftPersisted(w) ==
  LET r == work[w].req
  IN  /\ work[w].pc = "creating" /\ work[w].read = "ok"
      /\ UnderSendLease(w, [req[r] EXCEPT !.envelope = TRUE])
      /\ IF HoldsSend(req[r], w)
         THEN work' = [work EXCEPT ![w].pc = "drafted", ![w].read = None]
         ELSE Stop(w)
      /\ UNCHANGED <<provider, calls, now>>

SendPersisted(w) ==
  /\ work[w].pc = "sending" /\ work[w].read = "ok"
  /\ UnderSendLease(w, [req[work[w].req] EXCEPT !.state = "sent", !.lease = None,
                                                !.send[work[w].key] = "succeeded"])
  /\ Stop(w)
  /\ UNCHANGED <<provider, calls, now>>

\* Mutant: a call that timed out is taken for carried out.
FailedRow_Optimistic(row, k, rejected) ==
  [row EXCEPT !.state = IF rejected THEN "provider_blocked"
                        ELSE IF row.envelope THEN "sent" ELSE "reconciliation_required",
              !.lease = None,
              !.send[k] = "failed"]

\* providerFailure and releaseProviderFailure: a rejection blocks the request;
\* no answer in time, or an ambiguous one, leaves the result to reconciliation.
FailedRow(row, k, rejected) ==
  [row EXCEPT !.state = IF rejected THEN "provider_blocked" ELSE "reconciliation_required",
              !.lease = None,
              !.send[k] = "failed"]

ProviderFails(w) ==
  /\ work[w].pc \in {"creating", "sending"}
  /\ work[w].read \in {"rejected", None}
  /\ UnderSendLease(w, FailedRow(req[work[w].req], work[w].key, work[w].read = "rejected"))
  /\ Stop(w)
  /\ UNCHANGED <<provider, calls, now>>

-----------------------------------------------------------------------------
(* reconcileRequest *)

ReplayReconcile(r, k) ==
  /\ req[r].reconcile[k] = "in_progress"
  /\ Lapsed(req[r])
  /\ Transact(r, [req[r] EXCEPT !.lease = None, !.reconcile[k] = "failed"])
  /\ UNCHANGED <<provider, calls, work, now>>

ClaimReconcile(w, r, k) ==
  /\ work[w].pc = "idle"
  /\ req[r].reconcile[k] = "unused"
  /\ req[r].state \in Reconcilable
  /\ Lapsed(req[r])
  /\ Transact(r, [req[r] EXCEPT !.lease = Lease("reconcile", w),
                                !.reconcile[k] = "in_progress"])
  /\ Start(w, "finding", r, k)
  /\ UNCHANGED <<provider, calls, now>>

\* findByCorrelation finds the envelope and its status, without a time.
Find(w) ==
  /\ work[w].pc = "finding"
  /\ provider[work[w].req].status # "none"
  /\ work' = [work EXCEPT ![w].pc = "found", ![w].read = provider[work[w].req].status]
  /\ UNCHANGED <<req, provider, calls, now>>

\* What was found is stamped with the cursor's time, or else with the time of
\* the commit, and with a sequence number one above the cursor's.
Stamped(row, status) ==
  [status |-> status,
   time |-> IF row.cursor = None THEN now ELSE row.cursor.time,
   seq |-> IF row.cursor = None \/ row.cursor.seq = None THEN 0 ELSE row.cursor.seq + 1]

FoundRecorded(w) ==
  LET r == work[w].req
      row == req[r]
  IN  /\ work[w].pc = "found"
      /\ IF HoldsReconcile(row, w)
         THEN /\ Stamped(row, work[w].read).seq <= MaxSeq
              /\ row.cursor = None => now < MaxTime
              /\ Transact(r, [Project(row, Stamped(row, work[w].read)) EXCEPT
                                !.envelope = TRUE, !.lease = None,
                                !.reconcile[work[w].key] = "succeeded"])
         ELSE UNCHANGED req
      /\ Stop(w)
      /\ UNCHANGED <<provider, calls, now>>

\* Nothing is found, the provider is unreachable, or the binding is wrong.
FindFails(w) ==
  LET r == work[w].req
  IN  /\ work[w].pc \in {"finding", "found"}
      /\ IF HoldsReconcile(req[r], w)
         THEN Transact(r, [req[r] EXCEPT !.lease = None, !.reconcile[work[w].key] = "failed"])
         ELSE UNCHANGED req
      /\ Stop(w)
      /\ UNCHANGED <<provider, calls, now>>

-----------------------------------------------------------------------------
(* pollRequest *)

ClaimPoll(w, r) ==
  /\ work[w].pc = "idle"
  /\ req[r].envelope
  /\ req[r].state \notin Terminal
  /\ req[r].pollDue /\ Lapsed(req[r])
  /\ Transact(r, [req[r] EXCEPT !.pollDue = FALSE, !.lease = Lease("poll", w)])
  /\ work' = [work EXCEPT ![w] = [Idle EXCEPT !.pc = "polling", !.req = r, !.time = now]]
  /\ UNCHANGED <<provider, calls, now>>

PollRead(w) ==
  /\ work[w].pc = "polling"
  /\ work' = [work EXCEPT ![w].pc = "polled", ![w].read = provider[work[w].req].status]
  /\ UNCHANGED <<req, provider, calls, now>>

\* The status is taken as of the claim; only the token is compared, not the expiry.
UnderPollToken(w, row) ==
  IF HasToken(req[work[w].req], "poll", w)
  THEN Transact(work[w].req, [row EXCEPT !.lease = None])
  ELSE UNCHANGED req

PollRecorded(w) ==
  /\ work[w].pc = "polled"
  /\ UnderPollToken(w, Project(req[work[w].req],
                               [status |-> work[w].read, time |-> work[w].time, seq |-> None]))
  /\ Stop(w)
  /\ UNCHANGED <<provider, calls, now>>

PollFails(w) ==
  /\ work[w].pc = "polling"
  /\ UnderPollToken(w, req[work[w].req])
  /\ Stop(w)
  /\ UNCHANGED <<provider, calls, now>>

\* completeDocusignArtifacts has recorded both artifacts (see DocusignCompletion).
Completed(r) ==
  /\ req[r].state = "completed_artifacts_pending"
  /\ Transact(r, [req[r] EXCEPT !.state = "completed", !.artifacts = TRUE])
  /\ UNCHANGED <<provider, calls, work, now>>

-----------------------------------------------------------------------------
(* The provider, time and failures *)

\* A caller that no longer waits for this call misses the answer.
Answer(m, answer) ==
  LET waits == /\ work[m.by].req = m.req
               /\ work[m.by].pc = IF m.kind = "create" THEN "creating" ELSE "sending"
  IN  work' = IF waits THEN [work EXCEPT ![m.by].read = answer] ELSE work

Emit(r, status) ==
  [provider EXCEPT ![r].status = status,
     ![r].events = @ \cup {[status |-> status, time |-> now,
                            seq |-> IF Sequenced THEN Cardinality(@) ELSE None]}]

ProviderCreates(m) ==
  /\ m.kind = "create"
  /\ provider' = [provider EXCEPT ![m.req].status = "created"]
  /\ calls' = calls \ {m}
  /\ Answer(m, "ok")
  /\ UNCHANGED <<req, now>>

\* Sending an envelope that is out already has no further effect.
ProviderSends(m) ==
  /\ m.kind = "send"
  /\ IF provider[m.req].status = "created"
     THEN now < MaxTime /\ provider' = Emit(m.req, "sent")
     ELSE UNCHANGED provider
  /\ calls' = calls \ {m}
  /\ Answer(m, "ok")
  /\ UNCHANGED <<req, now>>

ProviderRejects(m) ==
  /\ calls' = calls \ {m}
  /\ Answer(m, "rejected")
  /\ UNCHANGED <<req, provider, now>>

CallLost(m) ==
  /\ calls' = calls \ {m}
  /\ UNCHANGED <<req, provider, work, now>>

\* The signers act.
ProviderMoves(r, status) ==
  /\ now < MaxTime
  /\ \/ provider[r].status = "sent" /\ status \in {"delivered"} \cup (Ends \cap Refused)
     \/ provider[r].status = "delivered" /\ status \in Ends
  /\ provider' = Emit(r, status)
  /\ UNCHANGED <<req, calls, work, now>>

LeaseLapses(r) ==
  /\ req[r].lease # None /\ req[r].lease.live
  /\ req' = [req EXCEPT ![r].lease.live = FALSE]
  /\ UNCHANGED <<provider, calls, work, now>>

PollSlotOpens(r) ==
  /\ ~req[r].pollDue
  /\ req' = [req EXCEPT ![r].pollDue = TRUE]
  /\ UNCHANGED <<provider, calls, work, now>>

Tick ==
  /\ now < MaxTime
  /\ now' = now + 1
  /\ UNCHANGED <<req, provider, calls, work>>

Crash(w) ==
  /\ w \in MayCrash /\ work[w].pc # "idle"
  /\ Stop(w)
  /\ UNCHANGED <<req, provider, calls, now>>

-----------------------------------------------------------------------------

SendStep(w) ==
  \/ ResolveFails(w) \/ BeginCreate(w) \/ DraftPersisted(w)
  \/ BeginSend(w) \/ SendPersisted(w) \/ ProviderFails(w)
ReconcileStep(w) == Find(w) \/ FoundRecorded(w) \/ FindFails(w)
PollStep(w) == PollRead(w) \/ PollRecorded(w) \/ PollFails(w)

Next ==
  \/ \E r \in Requests :
       \/ Queue(r) \/ Webhook(r) \/ Completed(r)
       \/ LeaseLapses(r) \/ PollSlotOpens(r)
       \/ \E k \in SendKeys : ReplayInterrupted(r, k) \/ ClaimInterrupted(r, k)
       \/ \E k \in ReconcileKeys : ReplayReconcile(r, k)
       \/ \E status \in Statuses : ProviderMoves(r, status)
       \/ \E w \in Handlers, k \in SendKeys : ClaimSend(w, r, k)
       \/ \E w \in Handlers, k \in ReconcileKeys : ClaimReconcile(w, r, k)
       \/ \E w \in Pollers : ClaimPoll(w, r)
  \/ \E w \in Workers : SendStep(w) \/ ReconcileStep(w) \/ PollStep(w) \/ Crash(w)
  \/ \E m \in calls : ProviderCreates(m) \/ ProviderSends(m) \/ ProviderRejects(m) \/ CallLost(m)
  \/ Tick

Spec == Init /\ [][Next]_vars

\* A handler that runs goes on and time passes; envelopes are polled again and
\* again, the provider answers some poll, and some poll outlives no lease.
PollInTime(w) ==
  /\ work[w].pc \in {"polling", "polled"}
  /\ HasToken(req[work[w].req], "poll", w)
  /\ PollRead(w) \/ PollRecorded(w)

FairSpec ==
  /\ Spec
  /\ WF_vars(Tick)
  /\ \A r \in Requests : WF_vars(LeaseLapses(r)) /\ WF_vars(PollSlotOpens(r)) /\ WF_vars(Completed(r))
  /\ \A w \in Handlers : WF_vars(SendStep(w)) /\ WF_vars(ReconcileStep(w))
  /\ \A w \in Pollers :
       /\ WF_vars(PollStep(w)) /\ SF_vars(PollInTime(w))
       /\ SF_vars(\E r \in Requests : ClaimPoll(w, r))

-----------------------------------------------------------------------------
(* Properties *)

\* No request asks the provider for a second envelope, whatever is replayed,
\* lapses or arrives late: an ambiguous create is reconciled, never repeated
\* (send.js:187-198, 215-219, 293-311).
CreatedOnce == \A r \in Requests : provider[r].creates <= 1

ProviderRank == [none |-> 0, created |-> 3, sent |-> 4, delivered |-> 5,
                 completed |-> 6, declined |-> 6, voided |-> 6]

\* The row never claims more than the provider did: an envelope is reported
\* sent, delivered, completed or refused only after it was, although polls and
\* lookups are read before they are recorded and events arrive in any order.
NeverAhead ==
  \A r \in Requests :
    /\ req[r].envelope => provider[r].status # "none"
    /\ req[r].state \in Refused => provider[r].status = req[r].state
    /\ req[r].state \in {"sent", "delivered", "completed_artifacts_pending"} =>
         ProviderRank[provider[r].status] >= Rank[req[r].state]
    /\ req[r].state = "completed" => provider[r].status = "completed"

\* A send answered "succeeded" was carried out, and no replay of its key ever
\* changes that answer (send.js:184-211, 337).
SucceededSendsStand ==
  [][\A r \in Requests, k \in SendKeys :
       req[r].send[k] = "succeeded" =>
         /\ req[r].send[k]' = "succeeded"
         /\ ProviderRank[provider[r].status] >= ProviderRank["sent"]]_vars

\* A request that is out for signature never looks unsent again: it may fall
\* back to reconciliation, but never to a state in which it would be sent anew.
NoSecondSending ==
  [][\A r \in Requests :
       req[r].state \in {"sent", "delivered"} \cup (Terminal \ {"provider_blocked"}) =>
         req[r].state' \notin {"approved", "draft_created", "provider_pending"}]_vars

\* An envelope whose id is known and that came to its end at the provider is
\* brought to its end here, by polling alone if every event is lost or stale.
EnvelopesSettle ==
  \A r \in Requests :
    (req[r].envelope /\ provider[r].status \in Ends) ~> (req[r].state \in Inactive)

\* "the first accepted terminal state is immutable" (event-model.js:72-73).
FirstTerminalImmutable ==
  [][\A r \in Requests :
       req[r].state \in Terminal =>
         req[r].state' \in {req[r].state} \cup
           (IF req[r].state = "completed_artifacts_pending" THEN {"completed"} ELSE {})]_vars

=============================================================================
