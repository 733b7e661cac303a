---------------------------- MODULE GraphDelivery ----------------------------
(* Mail of one folder of one connected mailbox, from the change notifications
   of Microsoft Graph to a durable receipt (and job) for each message: the
   webhook, the notification queue, and the delta reconciliation that a "missed"
   event asks for, with the jobs and the workers that run it.

   Every queue operation and every write of the cursor is one serializable
   transaction, and so one step; verifying a notification and queueing it are
   one step too.  The mailbox, its subscription and the notifications are
   Graph's: a notification is never delivered, or late, or again and again,
   and a delta link may expire.  A delta page holds one message.  A lease
   lapses with time: a claim finds any of the leases lapsed.  The keeping of the
   subscription (the subscription and maintenance workers and their service) is
   one step here; its queue jobs, and the filing of a queued message, are left
   out.  The users' policies are not kept: a pass finds an active one or none.
   All mail here is younger than the subscription's row, and a pass without a
   delta link starts where the recovery window begins at that moment. *)
EXTENDS Naturals, Sequences

CONSTANTS
  Workers,      \* worker ids that run delta reconciliations
  MayCrash,     \* workers that may die
  MaxMail,      \* bound on the messages that arrive
  MaxPeriods,   \* bound on the expirations the subscription is given
  MaxAttempts,  \* max_attempts
  MaxPages,     \* max_pages
  None

ASSUME DeliveryAssumption ==
  /\ None \notin Workers /\ None \notin Nat
  /\ MayCrash \subseteq Workers
  /\ MaxMail \in Nat
  /\ {MaxPeriods, MaxAttempts, MaxPages} \subseteq Nat \ {0}

VARIABLES
  mail,      \* the period in which each message arrived, in order
  sub,       \* the row of graph_subscriptions
  receipts,  \* the provider subscription each receipt names, 0 for none
  jobs,      \* the delta_reconciliation rows of graph_notification_jobs
  cursor,    \* the delta link: the number of messages behind it, None for no link
  aged,      \* how many of the messages are older than the recovery window
  work       \* what each worker is doing

vars == <<mail, sub, receipts, jobs, cursor, aged, work>>

Messages == 1 .. MaxMail
Periods == 1 .. MaxPeriods

\* graphNotificationIdentity: a message is known by its id, a lifecycle event by
\* its name and the expiration it carries; the provider's id of the
\* subscription is no part of either.
Message(m) == <<"message", m>>
Missed(period) == <<"missed", period>>
Ids == ({"message"} \X Messages) \cup ({"missed"} \X Periods)

\* A provider subscription is known by the first period it was given.
Subscriptions == [status : {"active", "expired"}, provider : Periods, period : Periods]
Settled == {"completed", "dead_letter"}
\* How a pass that did not throw may end, which its job records as its result_code.
Outcomes == {"reconciled", "disabled"}
\* `before` counts the messages that had arrived when the job was queued.
JobRows == [status : {"none", "pending", "retry", "leased"} \cup Settled,
            attempts : 0 .. MaxAttempts, owner : Workers \cup {None},
            before : 0 .. MaxMail, result : {"none"} \cup Outcomes]
Links == 0 .. MaxMail \cup {None}
Phases == {"idle", "authority", "list", "advance"} \cup Outcomes
Runs == [pc : Phases, job : Periods \cup {0}, provider : Periods \cup {0},
         link : Links, pages : 0 .. MaxPages, reset : BOOLEAN, last : BOOLEAN]

\* Every row and every run keeps to its type; a job is leased to somebody exactly
\* while its status says so, and its attempts stay within the bound.
TypeOK ==
  /\ mail \in Seq(Periods) /\ Len(mail) <= MaxMail
  /\ sub \in Subscriptions
  /\ receipts \in [Ids -> Periods \cup {0}]
  /\ jobs \in [Periods -> JobRows]
  /\ cursor \in Links
  /\ aged \in 0 .. Len(mail)
  /\ work \in [Workers -> Runs]
  /\ \A p \in Periods : (jobs[p].owner # None) <=> (jobs[p].status = "leased")

NoJob == [status |-> "none", attempts |-> 0, owner |-> None, before |-> 0, result |-> "none"]
Idle == [pc |-> "idle", job |-> 0, provider |-> 0, link |-> None, pages |-> 0,
         reset |-> FALSE, last |-> FALSE]

Init ==
  /\ mail = <<>>
  /\ sub = [status |-> "active", provider |-> 1, period |-> 1]
  /\ receipts = [i \in Ids |-> 0]
  /\ jobs = [p \in Periods |-> NoJob]
  /\ cursor = None
  /\ aged = 0
  /\ work = [w \in Workers |-> Idle]

-----------------------------------------------------------------------------
(* Graph *)

Arrives ==
  /\ Len(mail) < MaxMail
  /\ mail' = Append(mail, sub.period)
  /\ UNCHANGED <<sub, receipts, jobs, cursor, aged, work>>

\* Time passes: a message falls behind the recovery window.
Ages ==
  /\ aged < Len(mail)
  /\ aged' = aged + 1
  /\ UNCHANGED <<mail, sub, receipts, jobs, cursor, work>>

-----------------------------------------------------------------------------
(* The queue *)

Fresh == [NoJob EXCEPT !.status = "pending", !.before = Len(mail)]

\* enqueue refuses a subscription that is no longer the provider's, and a
\* receipt that names another provider subscription; a receipt there already
\* makes the notification a duplicate.
Conflicts(id, provider) == receipts[id] \notin {0, provider}
Refused(id, provider) == provider # sub.provider \/ Conflicts(id, provider)

\* Mutant: a duplicate opens its job anew.
Enqueue_Reopens(id, provider) ==
  /\ receipts' = [receipts EXCEPT ![id] = provider]
  /\ jobs' = IF id[1] = "missed" THEN [jobs EXCEPT ![id[2]] = Fresh] ELSE jobs

Enqueue(id, provider) ==
  IF receipts[id] = 0
  THEN /\ receipts' = [receipts EXCEPT ![id] = provider]
       /\ jobs' = IF id[1] = "missed" THEN [jobs EXCEPT ![id[2]] = Fresh] ELSE jobs
  ELSE UNCHANGED <<receipts, jobs>>

\* The webhook takes the notifications of the subscription's current period
\* while it is active: of a message, or of others having been missed.
Webhook ==
  /\ sub.status = "active"
  /\ \E id \in {Missed(sub.period)} \cup {Message(m) : m \in {n \in 1 .. Len(mail) : mail[n] = sub.period}} :
       ~Refused(id, sub.provider) /\ Enqueue(id, sub.provider)
  /\ UNCHANGED <<mail, sub, cursor, aged, work>>

\* A "subscriptionRemoved" event.
WebhookRemoved ==
  /\ sub.status = "active"
  /\ sub' = [sub EXCEPT !.status = "expired"]
  /\ UNCHANGED <<mail, receipts, jobs, cursor, aged, work>>

Leases == {p \in Periods : jobs[p].status = "leased"}

\* Mutant: one attempt too many.
Claimable_OneMore(p, lapsed) ==
  jobs[p].attempts <= MaxAttempts /\ (jobs[p].status \in {"pending", "retry"} \/ p \in lapsed)
Claimable(p, lapsed) ==
  jobs[p].attempts < MaxAttempts /\ (jobs[p].status \in {"pending", "retry"} \/ p \in lapsed)

\* Leases that lapsed on the last attempt are dead-lettered by the next claim.
Exhausted(p, lapsed) == p \in lapsed /\ jobs[p].attempts >= MaxAttempts
Swept(lapsed) ==
  [p \in Periods |-> IF Exhausted(p, lapsed)
                     THEN [jobs[p] EXCEPT !.status = "dead_letter", !.owner = None] ELSE jobs[p]]

\* The lease a claim writes.
Leased(w, job) == [job EXCEPT !.status = "leased", !.owner = w, !.attempts = @ + 1]

Claim(w) ==
  /\ work[w].pc = "idle"
  /\ \E lapsed \in SUBSET Leases, p \in Periods :
       /\ Claimable(p, lapsed)
       /\ jobs' = [Swept(lapsed) EXCEPT ![p] = Leased(w, @)]
       /\ work' = [work EXCEPT ![w] = [Idle EXCEPT !.pc = "authority", !.job = p]]
  /\ UNCHANGED <<mail, sub, receipts, cursor, aged>>

\* A claim that finds no job sweeps all the same.
ClaimNothing(w) ==
  /\ work[w].pc = "idle"
  /\ \E lapsed \in SUBSET Leases :
       /\ \A p \in Periods : ~Claimable(p, lapsed)
       /\ \E p \in Periods : Exhausted(p, lapsed)
       /\ jobs' = Swept(lapsed)
  /\ UNCHANGED <<mail, sub, receipts, cursor, aged, work>>

\* The fence of complete, extendLease and fail: the status and the owner.
Owns(w) == jobs[work[w].job].status = "leased" /\ jobs[work[w].job].owner = w

\* A run that is over keeps its outcome only.
End(w, outcome) ==
  work' = [work EXCEPT ![w] = [Idle EXCEPT !.pc = outcome, !.job = work[w].job]]
Stop(w) == work' = [work EXCEPT ![w] = Idle]

CompletedJob(job, outcome) ==
  [job EXCEPT !.status = "completed", !.owner = None, !.result = outcome]
FailedJob(job) ==
  [job EXCEPT !.status = IF job.attempts >= MaxAttempts THEN "dead_letter" ELSE "retry",
              !.owner = None]

\* Whatever the outcome, the job is completed with it.  A worker whose lease is
\* another's by now lets the job go.
Complete(w) ==
  /\ work[w].pc \in Outcomes
  /\ jobs' = IF Owns(w) THEN [jobs EXCEPT ![work[w].job] = CompletedJob(@, work[w].pc)]
                        ELSE jobs
  /\ Stop(w)
  /\ UNCHANGED <<mail, sub, receipts, cursor, aged>>

\* fail, after whatever the run threw.
Fail(w) ==
  /\ jobs' = IF Owns(w) THEN [jobs EXCEPT ![work[w].job] = FailedJob(@)] ELSE jobs
  /\ Stop(w)

\* Graph or the database fails a worker.
CallFails(w) ==
  /\ work[w].pc \in {"authority", "list", "advance"}
  /\ Fail(w)
  /\ UNCHANGED <<mail, sub, receipts, cursor, aged>>

-----------------------------------------------------------------------------
(* Delta reconciliation *)

\* Without an active policy there is nothing to do; with one the subscription must
\* be active, and the pass starts behind the cursor.
Authority(w) ==
  /\ work[w].pc = "authority"
  /\ \/ End(w, "disabled") /\ UNCHANGED jobs
     \/ /\ sub.status = "active"
        /\ work' = [work EXCEPT ![w].pc = "list", ![w].provider = sub.provider, ![w].link = cursor]
        /\ UNCHANGED jobs
     \/ sub.status # "active" /\ Fail(w)
  /\ UNCHANGED <<mail, sub, receipts, cursor, aged>>

\* The messages a listing passes over: those behind the link or, without one,
\* those older than the recovery window.
Behind(link) == IF link = None THEN aged ELSE link

\* Mutant: a message the queue refuses is passed over.
Page_SkipsRefused(w) ==
  LET m == Behind(work[w].link) + 1
      Listed(link) ==
        work' = [work EXCEPT ![w].pc = "advance", ![w].link = link, ![w].pages = @ + 1,
                             ![w].last = (link = Len(mail))]
  IN  /\ work[w].pc = "list"
      /\ \/ /\ work[w].pages = MaxPages
            /\ Fail(w) /\ UNCHANGED receipts
         \/ /\ work[w].pages < MaxPages /\ m > Len(mail)
            /\ Listed(m - 1) /\ UNCHANGED <<receipts, jobs>>
         \/ /\ work[w].pages < MaxPages /\ m <= Len(mail)
            /\ Listed(m)
            /\ IF Refused(Message(m), work[w].provider)
               THEN UNCHANGED <<receipts, jobs>> ELSE Enqueue(Message(m), work[w].provider)
      /\ UNCHANGED <<mail, sub, cursor, aged>>

\* Mutant: a pass out of pages counts as done.
Page_BudgetIsDone(w) ==
  LET m == Behind(work[w].link) + 1
      Listed(link) ==
        work' = [work EXCEPT ![w].pc = "advance", ![w].link = link, ![w].pages = @ + 1,
                             ![w].last = (link = Len(mail))]
  IN  /\ work[w].pc = "list"
      /\ \/ /\ work[w].pages = MaxPages
            /\ End(w, "reconciled") /\ UNCHANGED <<receipts, jobs>>
         \/ /\ work[w].pages < MaxPages /\ m > Len(mail)
            /\ Listed(m - 1) /\ UNCHANGED <<receipts, jobs>>
         \/ /\ work[w].pages < MaxPages /\ m <= Len(mail)
            /\ IF Refused(Message(m), work[w].provider)
               THEN Fail(w) /\ UNCHANGED receipts
               ELSE Listed(m) /\ Enqueue(Message(m), work[w].provider)
      /\ UNCHANGED <<mail, sub, cursor, aged>>

\* One page, within the budget: the message behind the link is queued.  The last
\* page is the one that reaches the end of the folder.
Page(w) ==
  LET m == Behind(work[w].link) + 1
      Listed(link) ==
        work' = [work EXCEPT ![w].pc = "advance", ![w].link = link, ![w].pages = @ + 1,
                             ![w].last = (link = Len(mail))]
  IN  /\ work[w].pc = "list"
      /\ \/ /\ work[w].pages = MaxPages
            /\ Fail(w) /\ UNCHANGED receipts
         \/ /\ work[w].pages < MaxPages /\ m > Len(mail)
            /\ Listed(m - 1) /\ UNCHANGED <<receipts, jobs>>
         \/ /\ work[w].pages < MaxPages /\ m <= Len(mail)
            /\ IF Refused(Message(m), work[w].provider)
               THEN Fail(w) /\ UNCHANGED receipts
               ELSE Listed(m) /\ Enqueue(Message(m), work[w].provider)
      /\ UNCHANGED <<mail, sub, cursor, aged>>

\* DELTA_CURSOR_EXPIRED: the cursor is reset, once in a pass.
Reset(w) ==
  /\ work[w].pc = "list" /\ work[w].link # None
  /\ IF work[w].reset
     THEN Fail(w) /\ UNCHANGED cursor
     ELSE /\ cursor' = None
          /\ work' = [work EXCEPT ![w].link = None, ![w].reset = TRUE]
          /\ UNCHANGED jobs
  /\ UNCHANGED <<mail, sub, receipts, aged>>

\* The cursor is written over whatever is there.
Advance(w) ==
  /\ work[w].pc = "advance"
  /\ cursor' = work[w].link
  /\ IF work[w].last THEN End(w, "reconciled") ELSE work' = [work EXCEPT ![w].pc = "list"]
  /\ UNCHANGED <<mail, sub, receipts, jobs, aged>>

-----------------------------------------------------------------------------
(* The subscription *)

\* The subscription is renewed, or replaced once it is lost.
Replaced == [status |-> "active", provider |-> sub.period + 1, period |-> sub.period + 1]

Maintain ==
  /\ sub.period < MaxPeriods
  /\ sub' = IF sub.status = "expired" THEN Replaced ELSE [sub EXCEPT !.period = @ + 1]
  /\ UNCHANGED <<mail, receipts, jobs, cursor, aged, work>>

Crash(w) ==
  /\ w \in MayCrash /\ work[w].pc # "idle"
  /\ Stop(w)
  /\ UNCHANGED <<mail, sub, receipts, jobs, cursor, aged>>

-----------------------------------------------------------------------------

Step(w) ==
  \/ Complete(w) \/ Authority(w) \/ Page(w) \/ Advance(w)

Next ==
  \/ Arrives \/ Ages \/ Webhook \/ WebhookRemoved \/ Maintain
  \/ \E w \in Workers :
       Claim(w) \/ ClaimNothing(w) \/ Step(w) \/ Reset(w) \/ CallFails(w) \/ Crash(w)

Spec == Init /\ [][Next]_vars

-----------------------------------------------------------------------------
(* Properties *)

\* A message is accounted for when it is queued, or so old that no pass recovers it.
Accounted == {m \in Messages : receipts[Message(m)] # 0 \/ m <= aged}

\* The cursor never passes a message within the recovery window that is not queued,
\* although two passes overwrite it in any order and either may die between a page
\* and its cursor (graph-delta-reconciliation-service.js:115-131).
CursorPassesQueued == cursor # None => 1 .. cursor \subseteq Accounted

\* A "missed" event is answered with "reconciled" only when every message that had
\* arrived by then is queued or has left the recovery window, whichever attempt of
\* whichever worker finished it, and however often the cursor was reset under it
\* (outlook-conversation-recovery-worker.js:42-54).
MissedMeansQueued ==
  \A p \in Periods :
    jobs[p].result = "reconciled" => 1 .. jobs[p].before \subseteq Accounted

\* That any completed job says so is more than the code promises: without an active
\* policy a job is completed with nothing listed
\* (graph-delta-reconciliation-service.js:148).
CompletedMeansQueued ==
  \A p \in Periods :
    jobs[p].status = "completed" => 1 .. jobs[p].before \subseteq Accounted

\* A settled job is never touched again: no late complete or fail of a worker
\* that lost its lease, and no duplicate notification, opens it
\* (postgres-graph-notification-queue.js:189-194).
SettledStays ==
  [][\A p \in Periods : jobs[p].status \in Settled => jobs'[p] = jobs[p]]_vars

\* "webhook and delta reconciliation converge on one durable message job"
\* (postgres-graph-notification-queue.test.js:114).
DeltaConverges ==
  \A w \in Workers :
    work[w].pc = "list" /\ Behind(work[w].link) < Len(mail) /\ work[w].provider = sub.provider =>
      ~Conflicts(Message(Behind(work[w].link) + 1), work[w].provider)

=============================================================================
