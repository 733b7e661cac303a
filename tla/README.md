# TLA+ models of Law Firm OS

These modules model the parts of the repository where state must stay right while
processes fail and run beside each other:

- the document management runtime, which keeps metadata in PostgreSQL and bytes in an object store;
- the domain ledger, through which every other domain changes its records;
- signature requests and their completion, between PostgreSQL and DocuSign;
- mail delivery from Microsoft Graph to a durable queue;
- the file queue from which runtime stores are backed up.

TLC checks small instances; the TLA+ proof system checks theorems for every value of the
constants.

- [The system](#the-system)
- [Modules](#modules) and how they correspond to the code
- [Runs](#runs): what each shows, with its bounds
- [Fairness](#fairness)
- [Proofs](#proofs)
- [Disagreements found](#disagreements-found) and [what the code does not promise](#what-the-code-does-not-promise)
- [What is left out](#what-is-left-out) and [the plan](#plan)

## The system

Law Firm OS is a monorepo: an HTTP API (`apps/api`), web, desktop and Outlook clients,
and packages with the domain logic. State that outlives a request is in PostgreSQL
(schemas `lawos_dms`, the domain ledger, the identity ledger), in object stores (local
directory, S3) and in external services (DocuSign, Microsoft Graph).

| Component | State | Operations | Hard behaviour | What makes it correct |
|---|---|---|---|---|
| DMS upload sessions (`packages/dms`, migration 004) | `upload_sessions`, `documents`, `file_objects`, `document_versions`; staged and committed objects | createUploadSession, stageUpload, finalizeUpload, cleanupOrphan, reconcileUploadSessions | leases that lapse while their holder still works, two stores, kill points, stale snapshots, counted retries | no metadata without bytes, unique versions of which the highest is current, guarded bytes kept, every session settles |
| DMS deletion and protection | `delete_intents`, `legal_holds`, `retention_policies`, provider locks | requestCommittedObjectDelete, executeCommittedObjectDelete, reconcileDeleteIntents, placeLegalHold, setRetentionPolicy | destruction outside any transaction, a lost answer, holds racing executors | no tombstone over live bytes, no destruction of a protected object, settled intents sealed |
| DMS storage adapters (`packages/dms/src/storage`) | staged, quarantined and committed objects, object locks | stageObject, finalizeObject, deleteOrphan, deleteCommittedObject, setObjectLegalHold | read and write are separate calls, an object lock defers deletion | idempotent by session and object |
| PostgreSQL transactions (`packages/persistence/src/postgres/transaction.js`) | none of its own | withPostgresTransaction | serialization retries, an ambiguous COMMIT | all or nothing |
| Domain ledger (`packages/persistence/src/record-domain-adapter.js`, `postgres/domain-ledger.js`) | records, idempotency keys, audit events, outbox | materialise, command, flush, readback; retries by the API | concurrent commands at READ COMMITTED, replays, a lost COMMIT, transactions that wait for each other | one effect per key, no lost update, true answers, every request ends |
| Durable files and backups (`s3-backup-queue.js`) | pending, attempt, receipt and dead-letter files, a lock file | enqueue, process, recover the lock | death between two file operations, two processors at once, lost answers | no event vanishes, receipts are true, the queue drains |
| DocuSign envelopes (`packages/integrations-core`) | requests with lease, action keys, cursor and artifacts; the provider's envelopes | queue, send, reconcile, poll, processWebhook, completeDocusignArtifacts | calls that cannot be aborted, replays, leases that lapse, events lost or reordered | one envelope per request, never ahead of the provider, both artifacts recorded as stored |
| Email DMS and Graph connection (`packages/email-dms`) | subscriptions, receipts, jobs, delta cursors, filed mail | subscribe, renew, notify, reconcile, file | expiry racing renewal, repeated or lost notifications, two passes over one cursor | no message within the recovery window passed over, nothing done twice |
| Identity ledger and tenants (`packages/runtime-auth`) | sessions, grants, revocations | issue, refresh, revoke | revocation racing use | no use after revocation |
| HRX leave and payroll (`packages/hrx`) | balances, requests, approvals, pay runs | request, approve, cancel, close | concurrent approvals, corrections after closing | balances never negative, closed periods stay |
| Matter publication (`packages/matter`) | drafts, approvals, published documents | submit, approve, publish | approval of a version that changed | only what was approved is published |
| Desktop client (`apps/desktop`) | downloaded update, installed version | check, download, install | interrupted update | never starts a half-installed version |
| HTTP API (`apps/api`) | none beyond the runtimes above | routes, `reconcile_upload_sessions` command | calls from many processes | authorises, then delegates |
| Microsoft egress services, web and add-in clients, Outlook native client, operations dashboard | none shared | request filters and user interface | - | - |
| Settlement, payments, time recording; authorisation, audit, control plane | decisions and append-only records | per request | - | rules of their domains |
| Contract packages, infrastructure, tooling | none | validators, generated contracts, scripts | - | - |

The API calls these runtimes; an Intake or DocuSign handler may own an upload session, too.
Handlers, workers and reconcilers of several processes share nothing but rows, objects and
files. `PROJECT.json` lists every component with its status and the hazards that matter most with their lines.

## Modules

| Module | Models |
|---|---|
| `DmsUpload` | upload sessions: rows, objects, metadata, the handlers and the reconciler |
| `DmsPublication` | what readers of documents are promised; `DmsUpload` implements it |
| `DmsDelete` | delete intents, holds, retention and provider locks |
| `DmsUploadProofs` | the inductive invariant of `DmsUpload`: types, published bytes, retry budget |
| `DmsUploadStepProofs` | what one step of `DmsUpload` can do: versions, trigger, guarded bytes, refinement, live leases |
| `DmsDeleteProofs` | the inductive invariant and theorems of `DmsDelete` |
| `DomainLedger` | commands on one domain of the ledger, statement by statement |
| `LedgerPromise` | what the ledger promises its callers; `DomainLedger` implements it |
| `DomainLedgerProofs` | the inductive invariant and theorems of `DomainLedger`, with the refinement |
| `DocusignEnvelope` | signature requests: send, reconcile, poll and webhook beside the provider |
| `DocusignEnvelopeProofs` | the inductive invariant and theorems of `DocusignEnvelope` |
| `DocusignCompletion` | the two artifacts of a completed request |
| `DocusignCompletionProofs` | the inductive invariant and theorems of `DocusignCompletion` |
| `GraphDelivery` | webhook, notification queue, delta reconciliation and its workers |
| `GraphDeliveryProofs` | the inductive invariant and theorems of `GraphDelivery` |
| `BackupQueue` | the backup queue and its processors |
| `BackupQueueProofs` | the inductive invariant and theorems of `BackupQueue` |
| `MC...` | constants of the small instances of the module of that name |

Definitions named `X_Something` beside an `X`, each under a comment that begins with
"Mutant", are deliberately broken variants. No specification uses them. Putting one in the place of `X` must make
TLC find its property violated, which shows that the property depends on that code.

### Steps, time and failure

*A step is what the environment cannot divide:* a transaction of PostgreSQL, a call of a
store or provider, an operation on a file. Only in `DomainLedger` is a statement a step, for
there the isolation level is the question. The modules abstract data to what the properties tell
apart (a digest, a rank, the set of runs a record holds) and keep every guard and every order.
The rest of this section is about the DMS modules; the others say in their headers what is one
step and what is left out.

*A transaction is one step, a storage call is another.* A call in progress is
`call[p] = [pc, s, seen, cur, out]`: where it is, its session, what it remembers of the row and
of the document, and how it ended. Between two steps every other process may act, and `p` may die
(`Crash`): it forgets its call, and the row keeps its leases. `CallFails` is a storage or
database call that throws before it takes effect; a lost answer is a crash after it. The
handler's own failure path (`recordStageFailure`, `recordFinalizeFailure`,
`preserveCorporateUpload`, `releaseReconciliationClaim`) is part of the model.
`finalizeObject` is two steps (`ReadForFinalize`, `FinalizeObject`): it reads its source and
later writes the committed key.

*Publication is two steps.* `commitMetadata` runs at READ COMMITTED, and one statement both locks the
document (`FOR UPDATE OF d`) and joins the number of its current version. The join is of the
statement's snapshot. If the statement waits for another publication that changed
`current_version_id`, PostgreSQL rechecks the join with the new document row and the version row
it had joined before: they do not belong together, the number is NULL, and NULL is taken for a
document without a version. So `ReadDocument` takes the snapshot (`cur`), and `CommitMetadata`
locks the document and does the rest; `NewCurrent` compares numbers only where `cur` is still the
current version. Where the document did not exist, its insertion waits instead, and
the SELECT, a statement later, finds the document (`InsertionWaited`, `DocumentFound`). The transaction
holds its session's row from the start; the model leaves this lock out, so that other calls may
act on the row in between, as if they had come before, and `CommitMetadata` asks again for what they
can change.

*Time is what the code compares it with.* A lease has a token and is live or lapsed;
`expires_at` is past or not; `next_attempt_at` is due or not. `Lapse...`, `BecomeDue` and
`ExpireSession` may happen at any moment, so no proof or run relies on the order of two
delays. `seen.erred` is `last_error_code`, which the reconciler sets with its attempts.

*A session is of one of three kinds*, chosen with its version number when it is created:
plain; guarded by an Intake checkpoint (`intake_metadata_guard`); or pinned to a corporate
workspace by digest (`workspace_authority_sha256`). `authority` holds the sessions whose
digest still matches.

### DmsUpload and the code

| Code (`postgres-upload-runtime.js`) | Actions |
|---|---|
| createUploadSession | `CreateUploadSession` |
| stageUpload | `ClaimStage` or `RefuseStage`, `StageObject`, `MarkBytesStored`; on failure `StageFailed`, `DiscardStaged` |
| finalizeUpload | `BeginFinalize` (unlocked read), `StatStaged` and `EnsureBytesStored` (ensureBytesStored), `ClaimProviderFinalize`, `ReadForFinalize`, `FinalizeObject`, `PersistProviderFinalized`, then commitMetadata: `ReadDocument`, `InsertionWaited`, `CommitMetadata`; on failure `FinalizeFailed` |
| cleanupOrphan | `BeginCleanup`, `DeleteOrphan`, `RecordOrphanDeleted` |
| reconcileUploadSessions | `ClaimReconciliation`, `Decide` by kind, then the steps above, `MarkIntakeGuardManualRecovery`, `AdvanceExpiredIntakeGuard`, `PreserveCorporateUpload`, `ReleaseReconciliationClaim` |
| setRetentionPolicy, retain_until | `RetainDocument`, `RetentionEnds` |
| trigger `validate_upload_session_update` (migration 004) | `TransitionAllowed`, `TriggerAllows` |

A run of the reconciler claims a batch; the model's run claims one session, and several
runs stand for a batch. `owner` is `reconcile_owner`, a worker id and not a token, so two
runs of one worker are told apart only by what they do; `WorkerOf` says who shares one.

### DmsDelete and the code

| Code | Actions |
|---|---|
| requestCommittedObjectDelete | `RequestDelete` |
| executeCommittedObjectDelete | `ExecuteDelete` or, from the reconciler, `ExecuteClaimed`; `DeleteCommittedObject` or `DeleteCallFails`; `RecordProviderDeleted`; `FinalizeDeleteIntent` |
| reconcileDeleteIntents | `ClaimDeleteIntent`, the steps above, `RecordDeleteFailure` |
| placeLegalHold, setRetentionPolicy | `BeginProtection` (row locked, provider told), then `CommitLegalHold` or `CommitRetentionPolicy` |

With an S3 object lock (`ProviderLock`), holds and retention are also set at the provider
inside the transaction. That transaction therefore takes two steps, and other transactions
that need the row wait (`RowFree`); a process that dies between them leaves the provider's
lock behind.

### DomainLedger and the code

| Code (`record-domain-adapter.js`, `postgres/domain-ledger.js`) | Actions |
|---|---|
| the API takes a mutation (`postgres-api-runtime-authority.js:841`) | `Receive` |
| materializeRecordRepositoryFromDomainLedger | `ListRecords`, `ListKeys` (two statements, two snapshots) |
| the command on the copy | `Command`: replays, refuses, or changes records |
| flushDomainSnapshotToScopedLedger | `FlushRecords` (baseline comparison), `FlushKeys`, `WriteRecord` for each changed record, `ClaimKey`, `Readback` |
| withPostgresTransaction | `Commit`, whose answer may be lost; `Interrupt` |
| compareDomainSnapshotWithLedgerReadback | `Verify` |
| runPostgresReadWithBaselineRetry | `Conflict` |

A row that an open transaction wrote is locked: another one that wants it waits, and sees what was
committed when it goes on. Transactions could so wait for each other in a circle;
`RequestsEnd` shows that the order in which they take rows and keys prevents it.

### DocusignEnvelope, DocusignCompletion and the code

| Code (`packages/integrations-core/src`) | Actions |
|---|---|
| queueApprovedRequest | `Queue` |
| send: claim | `ReplayInterrupted`, `ClaimInterrupted`, `ClaimSend` |
| sendApprovedRequest | `ResolveFails`, `BeginCreate`, `DraftPersisted`, `BeginSend`, `SendPersisted`, `ProviderFails` |
| reconcileRequest | `ReplayReconcile`, `ClaimReconcile`, `Find`, `FoundRecorded`, `FindFails` |
| pollRequest | `ClaimPoll`, `PollRead`, `PollRecorded`, `PollFails`, `Completed` |
| processWebhook | `Webhook` |
| projectDocusignProviderEvent | `Accepts`, `Project` |
| DocuSign | `ProviderCreates`, `ProviderSends`, `ProviderRejects`, `ProviderMoves`, `Emit`; `CallLost` |
| completeDocusignArtifacts | `Start`, `Skip`, `Download`, `Reread`, `Readback`, `Recover`, `BeginOperation`, `TakeFence`, `Validate`, `Ingest`, `Record`, `Finish`; on failure `MarkUnknown` |

The two modules meet in `Completed`, which stands for the whole completion in
`DocusignEnvelope`, and in `Interrupt` and `Reconciled`, which stand for a replayed send and
the reconciliation after it in `DocusignCompletion`.

### GraphDelivery and the code

| Code | Actions |
|---|---|
| outlook-graph-webhook.js, enqueue, applyLifecycle | `Webhook`, `WebhookRemoved` (`Enqueue`, `Refused`) |
| queue claim, complete, fail | `Claim` or `ClaimNothing`, `Complete`, `Fail` (`Leases`, `Swept`, `Owns`) |
| reconcile: policy, then subscription | `Authority` |
| reconcileResource | `Page`, `Reset`, `Advance` |
| recoveryStart, start_at | `Ages`, `Behind` |
| outlook-conversation-recovery-worker.js | the order of these in `work[w].pc` |
| subscription service and its workers | `Maintain`, in one step |

A run ends with an outcome, which `Complete` writes on the job as its result: `reconciled`, or
`disabled` when the policy is not active (then nothing was listed). `aged` counts the messages that are
older than the recovery window; a pass without a delta link lists from there. Mail younger than
the window but older than the row of the subscription is not in the model. A lease
lapses with time alone, so a claim finds any of the leases lapsed.

### BackupQueue and the code

| Code (`s3-backup-queue.js`) | Actions |
|---|---|
| queueRuntimeStoreBackupUpload | `CreateEvent`, `WriteEvent`; `WriterDies` |
| acquireProcessorLock | `Start`, `WriteLock`, `ReadLock`, `RemoveLock`, `Relock` |
| processRuntimeStoreBackupQueue | `ListEvents`, `TakeEvent`, `DropEvent`, `Upload`, `WriteReceipt`, `RemoveEvent`, `RemoveAttempt`; on failure `AttemptFails` |
| releaseProcessorLock | `Release` |

## Runs

| Run | Instance | Shows |
|---|---|---|
| `upload_races` | one session of any kind, a client and two overlapping reconcilers with one worker id, faults and crashes anywhere (1.3M states) | types; nothing is published without its bytes; attempts, dead letters and claims agree; no live stage or finalize lease is taken from its holder; neither cleanup nor reconciliation removes a corporate session's last copy, nor reconciliation an Intake session's; the trigger rejects none of the runtime's writes |
| `upload_versions` | three plain sessions of one document with versions from {1, 2, 3}, equal or not, two handlers (0.2M states) | numbers are unique, the current version is one of them and, of two, the higher; it goes back only in a publication that another one overtook; the runtime implements `DmsPublication` |
| `upload_liveness` | one plain or corporate session, faults, a client that may die | every session settles |
| `delete_races` | two versions, an object lock, one client and one reconciler that fail or die anywhere | tombstones only after destruction; a protected object keeps its bytes; settled intents stay sealed |
| `ledger_commands` | two requests with any of two keys and two payloads, a record that changes and one written once, one retry | the ledger implements `LedgerPromise`; answers are true; every request ends |
| `docusign_envelopes` | one request, two handlers of which one polls and may die, two send keys and a reconcile key, one tick of provider time, two event numbers (4.1M states) | one envelope per request; the row is never ahead of the provider; a send answered as succeeded stands; no step, however late what it records, makes a request that is out sendable again |
| `docusign_completion` | two polls, two renderings of a file, three mishaps | what is recorded is what is stored and never changes; an operation is left only for a missing artifact; the request completes unless a mishap names a reason why not |
| `graph_delivery` | two workers that may die, two messages that may fall behind the recovery window, a subscription replaced once, two attempts (7.4M states) | the delta cursor passes no message within the window that is not queued; a missed event is answered with `reconciled` only when everything that had arrived is queued or older than the window; settled jobs stay settled |
| `backup_queue` | two events, a processor that may die with the lock and two that recover it, two attempts (1.1M states) | no event vanishes; receipts mean uploads; the queue drains |
| `upload_overtaken`, `docusign_wedge`, `graph_conflict` | a small instance with the behaviour (that of `upload_versions` for the first) | the disagreements below |

*Why the bounds are enough.* The upload runtime relates sessions only through the version
numbers and the retention of one document, so one session shows every race on a row. A version
goes back over a higher one only if a third was current before (`VersionsConsistent`), so
three sessions show every order, and two handlers show a publication that is overtaken; where several
overtake it, only the version that is current in the end matters to it. The two runs with three
sessions use `UntimedSpec`, in which no deadline passes, and take sessions and handlers as
symmetric: their properties are about publications, which look at no deadline. A race needs a stale holder, its successor
and one who decides on an old snapshot: a client and two reconcilers. `MaxAttempts = 2` has a
first, a last and a next-to-last attempt; `upload_versions` uses one, without faults, because
its question is the order of transactions.

Requests of the ledger meet in a row or in a key: two of them make every conflict, wait and
deadlock of two, and each may be run again once. (The same properties held, too, for three requests
over 2.0M states.) A DocuSign request meets no other one, so one is enough; of two send keys the
second is a replay of a request another key has begun, and two handlers give one that was
overtaken and its successor. `MaxTime` and `MaxSeq` end the provider's clock and the numbering of
events after one step each: enough for an event older than the row, as old and newer. Three
mishaps are more than it takes to interrupt a request between both artifacts. In the mail
module a second message arrives while the first is being listed, and two periods are the
subscription and its successor; one page is all a pass sees, since a cursor moves a page
at a time. Three processors are one that left a lock behind and two that judge it stale at
once. Every bound is a constant of its module and named in the cfg: `MaxAttempts` of
uploads, deletions, mail and backups and `MaxRetries` are the code's own limits, made small.

*Deadlock.* The upload runs check it. The other runs say `CHECK_DEADLOCK FALSE`: when all
requests are answered, all intents and jobs settled and all queues empty, no operation is
enabled, and the system rightly stops.

## Fairness

`FairSpec` of `DmsUpload` assumes that deadlines pass, that `reconcileUploadSessions` is called
again and again so that a due session is claimed in the end, and that a run that started
goes on. The API offers the call as the command `reconcile_upload_sessions`
(`apps/api/src/vault-dms-postgres-runtime.js:59`) and the claim takes every due row in order.
Nothing is asked of clients, which may stop anywhere, and reconcilers do not die in this
run (one that died would be another one's lapsed claim).
`DmsDelete` has no fairness: nothing in the repository calls `reconcileDeleteIntents` but a test,
so nothing says that a delete intent is taken up again.

`FairSpec` of `DomainLedger` assumes only that a request that is running goes on: node runs its
promise, and PostgreSQL its statement once the row or the key it waits for is free. Weak fairness
is enough, since whoever holds the row ends after finitely many retries.

`FairSpec` of `DocusignCompletion` assumes that a worker that runs goes on, that leases lapse,
that an interrupted request is reconciled, and that the request is polled again and again; the poll is a
command of the API. `FairSpec` of `BackupQueue` assumes that locks age, attempts come due
and writers finish or die, that a processor that is running goes on, and that the ones that
do not die are started again and again. `FairSpec` of `DocusignEnvelope`
assumes time, lapsing leases, repeated polls, and that some poll comes back before its lease
lapses: the lease is two minutes, and nothing renews it or bounds the call.

## Proofs

Every safety property and action property that the passing runs check is also a theorem, for any
number of sessions, documents, objects, clients, workers, requests, keys, records, messages, events,
processors and attempts. The theorems assume what the modules' named assumptions say (disjoint
processes, `None` outside the sets it is told from, positive versions, attempts and periods), and
`HeldObjectsKept` assumes the object lock. `NothingByHalf` states what no run checks, since it follows from
a refinement that one does.

| Theorem | Statement | Module |
|---|---|---|
| `TypeCorrect` | `Spec => []TypeOK` | `DmsUploadProofs` |
| `PublishedDurable` | `Spec => []PublishedHasBytes` | `DmsUploadProofs` |
| `BudgetKept` | `Spec => []RetryBudget` | `DmsUploadProofs` |
| `VersionsHold` | `Spec => []VersionsConsistent` | `DmsUploadStepProofs` |
| `GoesBackOvertaken` | `Spec => OnlyOvertakenGoesBack` | `DmsUploadStepProofs` |
| `UpdatesAccepted` | `Spec => UpdatesPassTrigger` | `DmsUploadStepProofs` |
| `CorporateKept` | `Spec => CorporateBytesKept` | `DmsUploadStepProofs` |
| `IntakeKept` | `Spec => IntakeBytesKept` | `DmsUploadStepProofs` |
| `PublicationImplemented` | `Spec => ImplementsPublication` | `DmsUploadStepProofs` |
| `LeasesKept` | `Spec => LiveLeasesRespected` | `DmsUploadStepProofs` |
| `DeleteTypeCorrect` | `Spec => []TypeOK` | `DmsDeleteProofs` |
| `TombstonesTrue` | `Spec => []TombstoneAfterDestruction` | `DmsDeleteProofs` |
| `HeldObjectsKept` | `ProviderLock => (Spec => []ProtectedObjectsKept)` | `DmsDeleteProofs` |
| `IntentsSealed` | `Spec => TerminalIntentsSealed` | `DmsDeleteProofs` |
| `LedgerTypes` | `Spec => []TypeOK` | `DomainLedgerProofs` |
| `TrueAnswers` | `Spec => []AnswersAreTrue` | `DomainLedgerProofs` |
| `PromiseKept` | `Spec => ImplementsPromise` | `DomainLedgerProofs` |
| `NothingByHalf` | `Spec => []Agree` | `DomainLedgerProofs` |
| `EnvelopeTypes` | `Spec => []TypeOK` | `DocusignEnvelopeProofs` |
| `OneDraft` | `Spec => []CreatedOnce` | `DocusignEnvelopeProofs` |
| `RowsBehind` | `Spec => []NeverAhead` | `DocusignEnvelopeProofs` |
| `SuccessStands` | `Spec => SucceededSendsStand` | `DocusignEnvelopeProofs` |
| `NotSentAgain` | `Spec => NoSecondSending` | `DocusignEnvelopeProofs` |
| `CompletionTypes` | `Spec => []TypeOK` | `DocusignCompletionProofs` |
| `RecordedStored` | `Spec => []RecordedIsStored` | `DocusignCompletionProofs` |
| `OperationsForMissing` | `Spec => []OperationIsForMissing` | `DocusignCompletionProofs` |
| `ArtifactsKept` | `Spec => ArtifactsImmutable` | `DocusignCompletionProofs` |
| `DeliveryTypes` | `Spec => []TypeOK` | `GraphDeliveryProofs` |
| `NothingPassedOver` | `Spec => []CursorPassesQueued` | `GraphDeliveryProofs` |
| `MissedAnswered` | `Spec => []MissedMeansQueued` | `GraphDeliveryProofs` |
| `JobsSettled` | `Spec => SettledStays` | `GraphDeliveryProofs` |
| `QueueTypes` | `Spec => []TypeOK` | `BackupQueueProofs` |
| `NothingVanishes` | `Spec => []NoEventVanishes` | `BackupQueueProofs` |
| `TrueReceipts` | `Spec => []ReceiptsAreTrue` | `BackupQueueProofs` |

*Invariant of uploads.* `IInv == TypeOK /\ RowsOK /\ CallsOK /\ PublishedHasBytes`.
`PublishedHasBytes` is not inductive alone: `PersistProviderFinalized` writes the receipt without
looking at the store. `CallOK` says that a call at that step has seen its object committed, and
objects stay committed. `RetryBudget` needs `RowOK`: a closed row carries no worker id, so the
release of a stale claim finds another owner and counts nothing; and since an unclosed row has
attempts left, the counted one stays within the limit.

*Steps of uploads.* `Shape` says what a step can do: it leaves rows and metadata alone (and may
store an object), rewrites one row as the trigger allows, creates a session, or publishes one.
`StepShape` proves it, one lemma per action. It needs `Guarded`: calls in progress have a session
that exists, a call that deletes a staged object has no corporate one and, if a reconciler
makes it, a plain one, and a publication's snapshot found a version of its document or
none. From `Shape` follow the theorems on versions and the trigger, and the refinement: each shape is
one action of `DmsPublication` or a stutter. A publication that was not overtaken compares
its number with the current one. One that was has found a version current that
no longer is: there are two versions already, so with two the higher is current
(`VersionsConsistent`), and an older version is made current only where `DmsPublication` allows it.
`BytesStep` (bytes disappear only
in the hands of a call that deletes an orphan) and `Guarded` give the two theorems on guarded bytes.

*Leases.* `RowsLeased` says where a lease can be live: a stage lease before the bytes are stored, a
finalize lease while the provider finalizes, either one on a dead-lettered row. So the handlers that
clear leases elsewhere (`CommitMetadata`, `AdvanceExpiredIntakeGuard`) take nothing.

*Invariant of deletions.* `DInv` adds to the types that no closed intent has an owner and a pending
one has attempts left (`IntentOK`), that a call about to record the provider's answer has destroyed its
object and a claim cannot outlive the state it was made in (`CallOK`), and that whatever is held is
locked at the provider and still there (`LocksOK`). `Moves` is what a step may do to an intent as the
other processes see it.

*Invariant of the ledger.* `LInv` has three parts beside the types. `LedgerOK`: what is committed under
a key names one run, and the rows and the outbox agree with it. `RequestOK`: what a request has read
or computed is at most as new as the ledger (`Past`), and a row it has written is still the one
it started from, since it holds the lock until it commits or rolls back. `Apart`: no two requests
hold one row, and no two have claimed one key. So at commit each written record still has the
version the command saw, the key is not taken, and the step is one `LedgerPromise` allows; every
other step is a stutter of it. `Agree` says the same of a state: a run that changed a record was
announced and holds one key. A commit keeps it, because the run is new to the outbox.

*Invariant of signature requests.* The types and the safety properties are not inductive, because
they say nothing of what is in flight. `EInv` adds what a worker knows (`JobOK`) and what is on its way to
the provider (`CallOK`). *One draft:* while a worker holds the send lease it took of an
approved request, nobody has called `createDraft`, so its own call is the first; once it is
issued the request can only be approved again by a worker that still holds such a lease
(`ResolveFails`), and there is none. A worker that resolves a draft cannot do so either, for the row names the
envelope by then and `transact` refuses it. *Never ahead:* `Reached` is an order the provider moves
along, so a status that was read, or an event, stays true however late it is recorded, and a `createDraft`
still in flight means there is no envelope to be overwritten. *Success stands:* a request sent under
some key is never again in one of the states of `Unsent`, in which a replay would fail that key. It
could only get there by a status `created` read before the send; the reader then holds no
token any more (`ReadOK`), since the send took the lease over. The proof never
uses that a lease is live, only whose token the row holds: expiry decides who may go on, the comparison of
tokens keeps it right.

*Invariant of completion.* `CInv` adds that a worker past an ingest or a readback knows what the store
holds (`JobOK`). The store never changes what it holds, so this stays true when the fence or the row
has moved on meanwhile, and what is recorded then is still what is stored. The request is completed only
with both artifacts because `Finish` reads the row it writes.

*Invariant of mail delivery.* `GInv` says that everything behind a link is accounted for: queued, or older
than the recovery window. This holds of the saved cursor and of the link each worker has listed to
(`RunOK`). Receipts are never taken back and messages only grow older, so two passes may
overwrite the cursor in any order and reset it at will. A job exists only behind the receipt of its event, which
makes a repeated notification a duplicate; what the job stands for (`before`) never changes;
and a pass that has seen the last page has a link at or past it, which is why answering the job
with `reconciled` is right whichever worker does it. A pass without an active policy knows nothing of
the kind, and its job says so.

*Invariant of the backup queue.* `QInv` adds to the three properties what a processor knows of the event
in its hands (`CallOK`): a dead letter for an unreadable one, an upload before a receipt, a receipt
or a dead letter before the removal. Receipts, dead letters and uploads are never taken back, so
this knowledge stays true without the lock, which two processors may hold together.

In each module an action has a lemma (`StagePreserves`, `ClaimShape`, `CleanupRespects`, ...), and
lemmas on the row helpers carry the record arithmetic.

*Only model-checked.* The liveness properties (`EverySessionSettles`, `RequestsEnd`, `CompletionSettles`, `EventsSettle`), since fairness and ENABLED are out of
the prover's reach, and the violation runs, which exhibit one behaviour.

## Disagreements found

Each is a run that TLC refutes; `PROJECT.json` quotes the text it contradicts.

- `upload_overtaken`: a test expects the highest of the versions that were finalized out of
  order to be current, and finalizes them one after the other. At once, with version 1 current: version
  2 takes its snapshot, waits for the document while version 3 is committed, gets NULL for the current
  number, and becomes current over version 3. Readers of the document then get the older version,
  until a later one is published.
- `docusign_wedge`: a replayed send interrupts a request between its two artifacts. The worker
  begins the second although the first was not recorded, and when that operation fails before
  its bytes are stored, every later run refuses to go on: the missing artifact is never retried.
- `graph_conflict`: a message's identity names the local subscription, its receipt the provider's.
  Once the subscription was lost and replaced, the delta pass that lists a message queued under the
  former one is refused, and so is every retry from the same cursor.

## What the code does not promise

These operators state what a reader might expect, and TLC refutes each on a small instance (give its
name to a cfg of the module as INVARIANT or PROPERTY). They are kept because they
explain the guards of the properties that hold.

- `KillPointsRecovered` (`DmsUpload`, five attempts): claims ignore a live finalize lease and count
  the refusal as an attempt. With the defaults (one second of backoff, doubling; a five-minute
  lease) all attempts are gone before the dead client's lease lapses, and a session whose bytes are
  stored is dead-lettered.
- `BytesStoredHasBytes` (`DmsUpload`, two clients): a stager that lost its lease deletes, on its way
  out, the staged object its successor has recorded, because both use one key.
- `IntakeReceiptsTrue` (`DmsUpload`, Intake sessions): `markIntakeGuardManualRecovery` writes
  `provider_bytes_committed: false` from the snapshot of its claim.
- `IntakeSessionsSettle` (`DmsUpload` with `FairSpec`): an expired Intake session left in
  `provider_finalizing` is in neither of the reconciler's branches.
- `ProtectionFenced` (`DmsDelete`): the fence of holds is a non-null lease token; a second executor's
  failure clears it while the first is still at the provider. With an object lock the bytes
  survive (`delete_races`); without one they do not.
- `CompletedMeansQueued` (`GraphDelivery`): a job is completed, too, when its pass finds no active
  policy and lists nothing; only its result tells. Nothing asks for those messages once
  the policy is active again.
- `FirstTerminalImmutable` (`DocusignEnvelope`): the rule that the first terminal state stands is one of
  Connect events; the recording of a late send or poll does not ask for it.

That delete intents settle has no operator of its own. It would need somebody who calls
`reconcileDeleteIntents`; and even then the catch of `executeCommittedObjectDelete` clears the token by which
a failure of the provider would have been counted, so the intent is tried again without an end.

`EnvelopesSettle` (`DocusignEnvelope` with `FairSpec`) is different: it holds, on one handler, one poller
and one send key without crashes (0.3M states). It has no run because that instance
is too small for the module's other properties.

## What is left out

- Digests, quarantine directories, key layout: an object is there or not.
- `documents.status`, audit rows and receipts other than the claims they make.
- Who may call what: authorisation happens before these operations.
- An ambiguous COMMIT for a reconciler that lives on (for a client it is a crash after the step).
- The DocuSign completion kind of upload session with its quarantine (lines 548-725 of
  `postgres-upload-runtime.js`): in `DocusignCompletion` the store, with the upload runtime
  behind it, is one step a call. Likewise the rollover of upload intents (lines 1260-1374).
- Deletion of a published version and its effect on uploads: `DmsUpload` and `DmsDelete` are not
  composed.
- Of the ledger: references between records, commands that span domains, the acknowledgement of
  outbox events, and `repository-v2`, which has its own transactions.
- Of DocuSign: credentials, signatures of events, authority bindings, deletion of drafts.
- Of mail: the subscription service is one step, the policies of users are active or not at any moment,
  and filing a queued message is left out.
- Of durable files: the atomic write and the append log, which are single file operations of one process.
- Every component without a module in the table of the system. Leave, payroll, matters, settlement and
  payments are commands of the domain ledger, whose interleavings `DomainLedger` covers; their
  arithmetic and rules are pure functions of one request. Clients are user interface. The control
  plane and the contract packages, most of the repository by lines, are generated
  validators, registries and read models without state that changes concurrently: there is
  nothing in them for a model checker that their unit tests do not reach.

## Plan

1. Done: `DmsPublication`, `DmsUpload`, `DmsDelete` and their theorems.
2. Done: `DomainLedger`, `LedgerPromise`, `DocusignEnvelope`, `DocusignCompletion`,
   `GraphDelivery`, `BackupQueue` and their theorems.
3. Next: the completion kind and the intent rollover in `DmsUpload`, and a module that composes
   uploads and deletions of one document (the current version after a deletion).
4. Candidates beyond: identity revocation, the desktop updater, the filing of mail.

The theorems of a step come after its runs pass. Instances stay at one or two of each thing.
