------------------------- MODULE GraphDeliveryProofs -------------------------
(* The types and the safety of GraphDelivery, for any number of workers, messages,
   periods, attempts and pages, and any of the workers dying anywhere. *)
EXTENDS GraphDelivery, TLAPS

\* The first n messages of the folder are among those accounted for.
Queued(cs, n) == 1 .. n \subseteq cs

\* Nothing within the recovery window is passed over by a delta link.
LinkOK(l, cs, n) == l # None => l <= n /\ Queued(cs, l)

\* A job exists only behind the receipt of its "missed" event, so a duplicate
\* never opens it anew; what it stands for had arrived when it was queued.
JobOK(p, j, rs, cs, n) ==
  /\ j.status # "none" => rs[Missed(p)] # 0
  /\ j.before <= n
  /\ j.result = "reconciled" => Queued(cs, j.before)

\* Everything behind a worker's link is accounted for, whatever became of the cursor
\* meanwhile, and a pass that saw the last page has passed its job's messages.
RunOK(r, js, cs, n) ==
  /\ r.pc # "idle" => r.job \in Periods /\ js[r.job].status # "none"
  /\ LinkOK(r.link, cs, n)
  /\ r.pc = "advance" /\ r.last => r.link # None /\ js[r.job].before <= r.link
  /\ r.pc = "reconciled" => Queued(cs, js[r.job].before)

GInv ==
  /\ TypeOK
  /\ LinkOK(cursor, Accounted, Len(mail))
  /\ \A p \in Periods : JobOK(p, jobs[p], receipts, Accounted, Len(mail))
  /\ \A w \in Workers : RunOK(work[w], jobs, Accounted, Len(mail))

\* What a step may do to a job: it is never forgotten, nor what it stands for
\* changed, and a settled one is left alone.
Moves(j, k) ==
  /\ j.status # "none" => k.status # "none" /\ k.before = j.before
  /\ j.status \in Settled => k = j

JobsMove == \A p \in Periods : Moves(jobs[p], jobs'[p])

\* Receipts are never taken back.
Grow(rs, ss) == \A i \in Ids : rs[i] # 0 => ss[i] # 0

-----------------------------------------------------------------------------

LEMMA GInvInit == Init => GInv
<1> SUFFICES ASSUME Init PROVE GInv
  OBVIOUS
<1>1. NoJob \in JobRows /\ Idle \in Runs
  BY DeliveryAssumption DEF NoJob, JobRows, Idle, Runs, Phases, Settled, Outcomes, Links
<1>2. TypeOK
  BY <1>1, DeliveryAssumption DEF Init, TypeOK, Subscriptions, Periods, Ids, NoJob, Links
<1> QED
  BY <1>2 DEF Init, GInv, JobOK, RunOK, LinkOK, NoJob, Idle

\* What is known of a job or a run stays true while receipts, mail and the messages
\* accounted for grow and jobs move.
LEMMA LinkStays ==
  ASSUME NEW l \in Links, NEW cs, NEW ds, cs \subseteq ds,
         NEW n \in Nat, NEW m \in Nat, n <= m, LinkOK(l, cs, n)
  PROVE  LinkOK(l, ds, m)
<1>1. l # None => l \in Nat
  BY DeliveryAssumption DEF Links
<1> QED
  BY <1>1 DEF LinkOK, Queued

LEMMA JobStays ==
  ASSUME NEW p \in Periods, NEW j \in JobRows, NEW rs, NEW ss, Grow(rs, ss),
         NEW cs, NEW ds, cs \subseteq ds,
         NEW n \in Nat, NEW m \in Nat, n <= m, JobOK(p, j, rs, cs, n)
  PROVE  JobOK(p, j, ss, ds, m)
<1>1. j.before \in 0 .. MaxMail /\ Missed(p) \in Ids
  BY DEF JobRows, Missed, Ids
<1>2. j.result = "reconciled" => Queued(ds, j.before)
  BY DEF JobOK, Queued
<1>3. j.status # "none" => ss[Missed(p)] # 0
  BY <1>1 DEF JobOK, Grow
<1> QED
  BY <1>1, <1>2, <1>3, DeliveryAssumption DEF JobOK

LEMMA RunStays ==
  ASSUME NEW r \in Runs, NEW js, NEW ks, \A p \in Periods : Moves(js[p], ks[p]),
         NEW cs, NEW ds, cs \subseteq ds,
         NEW n \in Nat, NEW m \in Nat, n <= m, RunOK(r, js, cs, n)
  PROVE  RunOK(r, ks, ds, m)
<1>1. r.link \in Links
  BY DEF Runs
<1>2. LinkOK(r.link, ds, m)
  BY <1>1, LinkStays DEF RunOK
<1>3. r.pc # "idle" => /\ r.job \in Periods /\ ks[r.job].status # "none"
                       /\ ks[r.job].before = js[r.job].before
  BY DEF RunOK, Moves
<1>4. r.pc = "reconciled" => Queued(ds, ks[r.job].before)
  BY <1>3 DEF RunOK, Queued
<1> QED
  BY <1>2, <1>3, <1>4 DEF RunOK

\* Time and receipts only add to what is accounted for.
LEMMA AccountedGrows ==
  ASSUME GInv, TypeOK', Grow(receipts, receipts'), aged <= aged'
  PROVE  Accounted \subseteq Accounted'
<1> SUFFICES ASSUME NEW m \in Messages, receipts[Message(m)] # 0 \/ m <= aged
             PROVE  receipts'[Message(m)] # 0 \/ m <= aged'
  BY DEF Accounted
<1>1. Message(m) \in Ids
  BY DEF Ids, Message
<1>2. m \in Nat /\ aged \in Nat /\ aged' \in Nat
  BY DEF Messages, GInv, TypeOK
<1> QED
  BY <1>1, <1>2 DEF Grow

\* A step keeps the invariant when receipts, mail and the old messages grow, jobs
\* move, and what it writes is as it should be.
LEMMA Keeps ==
  ASSUME GInv, TypeOK', JobsMove, Grow(receipts, receipts'), Len(mail) <= Len(mail'),
         aged <= aged', cursor' = cursor \/ LinkOK(cursor', Accounted', Len(mail')),
         \A p \in Periods :
           jobs'[p] = jobs[p] \/ JobOK(p, jobs'[p], receipts', Accounted', Len(mail')),
         \A w \in Workers :
           work'[w] = work[w] \/ RunOK(work'[w], jobs', Accounted', Len(mail'))
  PROVE  GInv'
<1>1. Len(mail) \in Nat /\ Len(mail') \in Nat /\ cursor \in Links
  BY DEF GInv, TypeOK
<1>2. \A p \in Periods : jobs[p] \in JobRows
  BY DEF GInv, TypeOK
<1>3. \A w \in Workers : work[w] \in Runs
  BY DEF GInv, TypeOK
<1>4. Accounted \subseteq Accounted'
  BY AccountedGrows
<1>5. LinkOK(cursor', Accounted', Len(mail'))
  BY <1>1, <1>4, LinkStays DEF GInv
<1>6. \A p \in Periods : JobOK(p, jobs'[p], receipts', Accounted', Len(mail'))
  BY <1>1, <1>2, <1>4, JobStays DEF GInv
<1>7. \A w \in Workers : RunOK(work'[w], jobs', Accounted', Len(mail'))
  BY <1>1, <1>3, <1>4, RunStays DEF GInv, JobsMove
<1> QED
  BY <1>6, <1>7, <1>5 DEF GInv

\* The parts of the invariant that the steps below use.
LEMMA Types ==
  ASSUME GInv
  PROVE  /\ mail \in Seq(Periods) /\ Len(mail) \in 0 .. MaxMail
         /\ sub \in Subscriptions /\ receipts \in [Ids -> Periods \cup {0}]
         /\ jobs \in [Periods -> JobRows] /\ work \in [Workers -> Runs]
         /\ cursor \in Links /\ aged \in 0 .. Len(mail)
         /\ \A p \in Periods : (jobs[p].owner # None) <=> (jobs[p].status = "leased")
         /\ LinkOK(cursor, Accounted, Len(mail))
         /\ \A p \in Periods : JobOK(p, jobs[p], receipts, Accounted, Len(mail))
         /\ \A w \in Workers : RunOK(work[w], jobs, Accounted, Len(mail))
BY DEF GInv, TypeOK

LEMMA SamePlace ==
  ASSUME GInv, UNCHANGED <<mail, receipts, aged>>
  PROVE  /\ Grow(receipts, receipts') /\ Len(mail) <= Len(mail') /\ aged <= aged'
         /\ Accounted' = Accounted
BY DEF GInv, TypeOK, Grow, Accounted

-----------------------------------------------------------------------------
(* Graph and the webhook *)

LEMMA ArrivesKeeps == ASSUME GInv, Arrives PROVE GInv' /\ JobsMove
<1>1. /\ mail' \in Seq(Periods) /\ Len(mail') = Len(mail) + 1 /\ Len(mail') <= MaxMail
  BY Types, DeliveryAssumption DEF Arrives, Subscriptions
<1>2. TypeOK'
  BY <1>1, Types DEF Arrives, TypeOK
<1>3. JobsMove
  BY DEF Arrives, JobsMove, Moves
<1>4. Grow(receipts, receipts') /\ aged <= aged'
  BY Types DEF Arrives, Grow
<1> QED
  BY <1>1, <1>2, <1>3, <1>4, Types, Keeps DEF Arrives

LEMMA AgesKeeps == ASSUME GInv, Ages PROVE GInv' /\ JobsMove
<1>1. TypeOK' /\ aged <= aged'
  BY Types DEF Ages, TypeOK
<1>2. JobsMove /\ Grow(receipts, receipts')
  BY DEF Ages, JobsMove, Moves, Grow
<1> QED
  BY <1>1, <1>2, Types, Keeps DEF Ages

\* A job that was just queued.
FreshOK(p, j, rs) ==
  rs[Missed(p)] # 0 /\ j.before = Len(mail) /\ j.result = "none"

LEMMA FreshFits ==
  ASSUME GInv, NEW p \in Periods, NEW j, NEW rs, NEW cs, FreshOK(p, j, rs)
  PROVE  JobOK(p, j, rs, cs, Len(mail))
BY Types DEF FreshOK, JobOK

\* Queueing a message or a "missed" event under a provider that is not refused.
LEMMA EnqueueGrows ==
  ASSUME GInv, NEW id \in Ids, NEW provider \in Periods, Enqueue(id, provider)
  PROVE  /\ receipts' \in [Ids -> Periods \cup {0}] /\ Grow(receipts, receipts')
         /\ receipts'[id] # 0
         /\ jobs' \in [Periods -> JobRows] /\ JobsMove
         /\ \A p \in Periods : (jobs'[p].owner # None) <=> (jobs'[p].status = "leased")
         /\ \A p \in Periods : jobs'[p] = jobs[p] \/ FreshOK(p, jobs'[p], receipts')
<1>0. 0 \notin Periods
  BY DEF Periods
<1>1. CASE receipts[id] # 0
  BY <1>1, Types DEF Enqueue, Grow, JobsMove, Moves
<1>2. CASE receipts[id] = 0
  <2>1. receipts' = [receipts EXCEPT ![id] = provider]
    BY <1>2 DEF Enqueue
  <2>2. /\ receipts' \in [Ids -> Periods \cup {0}] /\ Grow(receipts, receipts')
        /\ receipts'[id] # 0
    BY <2>1, <1>0, <1>2, Types DEF Grow
  <2>3. CASE id[1] # "missed"
    <3>1. jobs' = jobs
      BY <1>2, <2>3 DEF Enqueue
    <3> QED
      BY <2>2, <3>1, Types DEF JobsMove, Moves
  <2>4. CASE id[1] = "missed"
    <3>1. PICK q \in Periods : id = Missed(q)
      BY <2>4 DEF Ids, Missed
    <3>2. id[2] = q
      BY <3>1 DEF Missed
    <3>3. jobs' = [jobs EXCEPT ![q] = Fresh]
      BY <1>2, <2>4, <3>2 DEF Enqueue
    <3>4. jobs[q].status = "none"
      BY <1>2, <3>1, Types DEF JobOK
    <3>5. Fresh \in JobRows /\ Fresh.status = "pending" /\ Fresh.owner = None
          /\ Fresh.before = Len(mail) /\ Fresh.result = "none"
      <4>1. NoJob \in JobRows /\ NoJob.owner = None /\ NoJob.result = "none"
        BY DeliveryAssumption DEF NoJob, JobRows
      <4> QED
        BY <4>1, Types, DeliveryAssumption DEF Fresh, JobRows
    <3>6. FreshOK(q, Fresh, receipts')
      BY <2>2, <3>1, <3>5 DEF FreshOK
    <3>7. JobsMove
      BY <3>3, <3>4, Types DEF JobsMove, Moves, Settled
    <3>8. \A p \in Periods : p # q => jobs'[p] = jobs[p]
      BY <3>3, Types
    <3>9. jobs'[q] = Fresh
      BY <3>3, Types
    <3> HIDE DEF Fresh
    <3> QED
      BY <2>2, <3>3, <3>5, <3>6, <3>7, <3>8, <3>9, Types
  <2> QED
    BY <2>3, <2>4
<1> QED
  BY <1>1, <1>2

LEMMA WebhookKeeps == ASSUME GInv, Webhook PROVE GInv' /\ JobsMove
<1>1. PICK id \in {Missed(sub.period)} \cup {Message(m) : m \in {n \in 1 .. Len(mail) : mail[n] = sub.period}} :
         Enqueue(id, sub.provider)
  BY DEF Webhook
<1>2. sub.period \in Periods /\ sub.provider \in Periods
  BY Types DEF Subscriptions
<1>3. id \in Ids
  BY <1>1, <1>2, Types, DeliveryAssumption DEF Ids, Missed, Message, Messages
<1>4. UNCHANGED <<mail, sub, cursor, aged, work>>
  BY DEF Webhook
<1>5. TypeOK'
  BY <1>1, <1>2, <1>3, <1>4, EnqueueGrows DEF GInv, TypeOK
<1>6. \A p \in Periods :
        jobs'[p] = jobs[p] \/ JobOK(p, jobs'[p], receipts', Accounted', Len(mail'))
  BY <1>1, <1>2, <1>3, <1>4, EnqueueGrows, FreshFits
<1>7. Len(mail) <= Len(mail') /\ aged <= aged'
  BY <1>4, Types
<1> QED
  BY <1>1, <1>2, <1>3, <1>4, <1>5, <1>6, <1>7, EnqueueGrows, Keeps

\* The row of the subscription changes: no job and no receipt is concerned.
LEMMA SubscriptionKeeps ==
  ASSUME GInv, WebhookRemoved \/ Maintain
  PROVE  GInv' /\ JobsMove
<1>1. UNCHANGED <<mail, receipts, jobs, cursor, aged, work>>
  BY DEF WebhookRemoved, Maintain
<1>2. sub' \in Subscriptions
  <2>1. CASE WebhookRemoved
    BY <2>1, Types DEF WebhookRemoved, Subscriptions
  <2>2. CASE Maintain
    <3>1. sub.period \in Nat /\ sub.period + 1 \in Periods
      BY <2>2, Types, DeliveryAssumption DEF Maintain, Subscriptions, Periods
    <3> QED
      BY <2>2, <3>1, Types DEF Maintain, Replaced, Subscriptions
  <2> QED
    BY <2>1, <2>2
<1>3. TypeOK'
  BY <1>1, <1>2 DEF GInv, TypeOK
<1>4. JobsMove
  BY <1>1 DEF JobsMove, Moves
<1> QED
  BY <1>1, <1>3, <1>4, SamePlace, Keeps

-----------------------------------------------------------------------------
(* Jobs and workers *)

\* A job as it may be written into the row of p.
Fits(p, j) ==
  /\ j \in JobRows /\ ((j.owner # None) <=> (j.status = "leased"))
  /\ Moves(jobs[p], j) /\ JobOK(p, j, receipts, Accounted, Len(mail))

LEMMA JobsFit ==
  ASSUME GInv, NEW p \in Periods
  PROVE  jobs[p] \in JobRows /\ Fits(p, jobs[p])
BY Types DEF Fits, Moves

\* A step that writes jobs that fit and a run that is as it should be.
LEMMA WritesKeep ==
  ASSUME GInv, UNCHANGED <<mail, sub, receipts, aged>>, cursor' = cursor,
         jobs' \in [Periods -> JobRows], \A p \in Periods : Fits(p, jobs'[p]),
         work' \in [Workers -> Runs], NEW w \in Workers,
         \A v \in Workers : v # w => work'[v] = work[v],
         work'[w] = work[w] \/ RunOK(work'[w], jobs', Accounted, Len(mail))
  PROVE  GInv' /\ JobsMove
<1>1. TypeOK'
  BY Types DEF TypeOK, Fits
<1>2. JobsMove
  BY DEF JobsMove, Fits
<1>3. \A p \in Periods : JobOK(p, jobs'[p], receipts', Accounted', Len(mail'))
  BY SamePlace DEF Fits
<1>4. \A v \in Workers : work'[v] = work[v] \/ RunOK(work'[v], jobs', Accounted', Len(mail'))
  BY SamePlace
<1> QED
  BY <1>1, <1>2, <1>3, <1>4, SamePlace, Keeps

LEMMA OneFits ==
  ASSUME GInv, NEW p \in Periods, NEW j, Fits(p, j), jobs' = [jobs EXCEPT ![p] = j]
  PROVE  jobs' \in [Periods -> JobRows] /\ (\A q \in Periods : Fits(q, jobs'[q])) /\ jobs'[p] = j
<1>1. j \in JobRows /\ jobs \in [Periods -> JobRows]
  BY Types DEF Fits
<1>2. jobs'[p] = j /\ \A q \in Periods : q # p => jobs'[q] = jobs[q]
  BY <1>1
<1> QED
  BY <1>1, <1>2, JobsFit

LEMMA IdleRuns == Idle \in Runs /\ Idle.pc = "idle" /\ Idle.link = None
BY DeliveryAssumption DEF Idle, Runs, Phases, Outcomes, Links

\* A run that is over, or that the worker lets go.
LEMMA Ends ==
  ASSUME GInv, NEW w \in Workers, work[w].job \in Periods, NEW outcome \in Outcomes, End(w, outcome)
  PROVE  /\ work' \in [Workers -> Runs] /\ \A v \in Workers : v # w => work'[v] = work[v]
         /\ work'[w].pc = outcome /\ work'[w].job = work[w].job /\ work'[w].link = None
<1>. DEFINE r == [Idle EXCEPT !.pc = outcome, !.job = work[w].job]
<1>1. r \in Runs /\ r.pc = outcome /\ r.job = work[w].job /\ r.link = None
  BY IdleRuns DEF Runs, Phases
<1>2. work' = [work EXCEPT ![w] = r]
  BY DEF End
<1> HIDE DEF r
<1> QED
  BY <1>1, <1>2, Types

LEMMA Stops ==
  ASSUME GInv, NEW w \in Workers, Stop(w), NEW js
  PROVE  /\ work' \in [Workers -> Runs] /\ \A v \in Workers : v # w => work'[v] = work[v]
         /\ RunOK(work'[w], js, Accounted, Len(mail))
<1>1. work'[w] = Idle
  BY Types DEF Stop
<1>2. RunOK(Idle, js, Accounted, Len(mail))
  BY IdleRuns DEF RunOK, LinkOK
<1> QED
  BY <1>1, <1>2, IdleRuns, Types DEF Stop

\* The sweep fits, and leaves what can be claimed alone.
LEMMA SweptFits ==
  ASSUME GInv, NEW lapsed, lapsed \in SUBSET Leases
  PROVE  /\ Swept(lapsed) \in [Periods -> JobRows]
         /\ \A p \in Periods :
              Fits(p, Swept(lapsed)[p]) /\ (Claimable(p, lapsed) => Swept(lapsed)[p] = jobs[p])
<1>1. ASSUME NEW p \in Periods
      PROVE  Fits(p, Swept(lapsed)[p]) /\ (Claimable(p, lapsed) => Swept(lapsed)[p] = jobs[p])
  <2>1. CASE ~Exhausted(p, lapsed)
    BY <2>1, JobsFit DEF Swept
  <2>2. CASE Exhausted(p, lapsed)
    <3>1. Swept(lapsed)[p] = [jobs[p] EXCEPT !.status = "dead_letter", !.owner = None]
      BY <2>2 DEF Swept
    <3>2. jobs[p].status = "leased" /\ ~Claimable(p, lapsed)
      BY <2>2, JobsFit, DeliveryAssumption DEF Exhausted, Leases, Claimable, JobRows
    <3>3. jobs[p] \in JobRows /\ Fits(p, jobs[p])
      BY JobsFit
    <3>4. Fits(p, [jobs[p] EXCEPT !.status = "dead_letter", !.owner = None])
      BY <3>2, <3>3 DEF Fits, JobRows, Moves, Settled, JobOK
    <3> QED
      BY <3>1, <3>2, <3>4
  <2> QED
    BY <2>1, <2>2
<1>2. Swept(lapsed) \in [Periods -> JobRows]
  BY <1>1 DEF Swept, Fits
<1> QED
  BY <1>1, <1>2

LEMMA ClaimKeeps ==
  ASSUME GInv, NEW w \in Workers, Claim(w)
  PROVE  GInv' /\ JobsMove
<1>1. PICK lapsed, p :
         /\ lapsed \in SUBSET Leases /\ p \in Periods
         /\ Claimable(p, lapsed)
         /\ jobs' = [Swept(lapsed) EXCEPT ![p] = Leased(w, @)]
         /\ work' = [work EXCEPT ![w] = [Idle EXCEPT !.pc = "authority", !.job = p]]
  BY DEF Claim
<1>2. /\ Swept(lapsed) \in [Periods -> JobRows]
      /\ \A q \in Periods : Fits(q, Swept(lapsed)[q])
      /\ Swept(lapsed)[p] = jobs[p]
  BY <1>1, SweptFits
<1>3. jobs[p] \in JobRows /\ Fits(p, jobs[p])
  BY <1>1, JobsFit
<1>4. Fits(p, Leased(w, jobs[p]))
  <2>1. jobs[p].attempts + 1 \in 0 .. MaxAttempts /\ jobs[p].status \in {"pending", "retry", "leased"}
    BY <1>1, <1>3, DeliveryAssumption DEF Claimable, Leases, JobRows
  <2>2. None # w
    BY DeliveryAssumption
  <2> QED
    BY <1>3, <2>1, <2>2 DEF Leased, Fits, JobRows, Moves, Settled, JobOK
<1>5. jobs'[p] = Leased(w, jobs[p]) /\ \A q \in Periods : q # p => jobs'[q] = Swept(lapsed)[q]
  BY <1>1, <1>2
<1>6. jobs' \in [Periods -> JobRows] /\ \A q \in Periods : Fits(q, jobs'[q])
  <2>1. jobs' \in [Periods -> JobRows]
    BY <1>1, <1>2, <1>4 DEF Fits
  <2> QED
    BY <2>1, <1>4, <1>5, <1>2
<1>. DEFINE r == [Idle EXCEPT !.pc = "authority", !.job = p]
<1>7. r \in Runs /\ r.pc = "authority" /\ r.job = p /\ r.link = None
  BY <1>1, IdleRuns DEF Runs, Phases
<1>8. jobs'[p].status = "leased"
  BY <1>3, <1>5 DEF Leased, JobRows
<1> HIDE DEF r
<1>9. RunOK(r, jobs', Accounted, Len(mail))
  BY <1>1, <1>7, <1>8 DEF RunOK, LinkOK
<1>10. work' = [work EXCEPT ![w] = r]
  BY <1>1 DEF r
<1>11. work' \in [Workers -> Runs] /\ work'[w] = r /\ \A v \in Workers : v # w => work'[v] = work[v]
  BY <1>7, <1>10, Types
<1>12. UNCHANGED <<mail, sub, receipts, aged>> /\ cursor' = cursor
  BY DEF Claim
<1> QED
  BY <1>6, <1>9, <1>11, <1>12, WritesKeep

LEMMA ClaimNothingKeeps ==
  ASSUME GInv, NEW w \in Workers, ClaimNothing(w)
  PROVE  GInv' /\ JobsMove
<1>1. PICK lapsed : lapsed \in SUBSET Leases /\ jobs' = Swept(lapsed)
  BY DEF ClaimNothing
<1>2. UNCHANGED <<mail, sub, receipts, aged>> /\ cursor' = cursor /\ work' = work
  BY DEF ClaimNothing
<1>3. jobs' \in [Periods -> JobRows] /\ \A p \in Periods : Fits(p, jobs'[p])
  BY <1>1, SweptFits
<1> QED
  BY <1>2, <1>3, WritesKeep, Types

\* A worker lets go of its job, which it may have lost.
LEMMA LetGoKeeps ==
  ASSUME GInv, NEW w \in Workers, work[w].pc # "idle", NEW j,
         Owns(w) => Fits(work[w].job, j),
         jobs' = IF Owns(w) THEN [jobs EXCEPT ![work[w].job] = j] ELSE jobs,
         Stop(w), UNCHANGED <<mail, sub, receipts, aged>>, cursor' = cursor
  PROVE  GInv' /\ JobsMove
<1>1. work[w].job \in Periods
  BY Types DEF RunOK
<1>2. jobs' \in [Periods -> JobRows] /\ \A q \in Periods : Fits(q, jobs'[q])
  <2>1. CASE Owns(w)
    BY <2>1, <1>1, OneFits
  <2>2. CASE ~Owns(w)
    BY <2>2, JobsFit, Types
  <2> QED
    BY <2>1, <2>2
<1> QED
  BY <1>2, Stops, WritesKeep

LEMMA CompleteKeeps ==
  ASSUME GInv, NEW w \in Workers, Complete(w)
  PROVE  GInv' /\ JobsMove
<1>. DEFINE p == work[w].job
            j == CompletedJob(jobs[p], work[w].pc)
<1>1. /\ work[w].pc \in Outcomes /\ work[w].pc # "idle" /\ p \in Periods
      /\ work[w].pc = "reconciled" => Queued(Accounted, jobs[p].before)
  BY Types DEF Complete, RunOK, Outcomes
<1>2. jobs[p] \in JobRows /\ Fits(p, jobs[p])
  BY <1>1, JobsFit
<1>3. jobs[p].status = "leased" =>
        /\ j \in JobRows /\ j.owner = None /\ j.status = "completed"
        /\ j.before = jobs[p].before /\ j.result = work[w].pc
  BY <1>1, <1>2 DEF CompletedJob, JobRows, Settled
<1>4. Owns(w) => Fits(p, j)
  <2> HIDE DEF j
  <2> QED
    BY <1>1, <1>2, <1>3 DEF Owns, Fits, Moves, Settled, JobOK
<1>5. jobs' = IF Owns(w) THEN [jobs EXCEPT ![work[w].job] = j] ELSE jobs
  BY DEF Complete
<1>6. Stop(w) /\ UNCHANGED <<mail, sub, receipts, aged>> /\ cursor' = cursor
  BY DEF Complete
<1> HIDE DEF j
<1> QED
  BY <1>1, <1>4, <1>5, <1>6, LetGoKeeps

LEMMA FailKeeps ==
  ASSUME GInv, NEW w \in Workers, work[w].pc # "idle", Fail(w),
         UNCHANGED <<mail, sub, receipts, aged>>, cursor' = cursor
  PROVE  GInv' /\ JobsMove
<1>. DEFINE p == work[w].job
            j == FailedJob(jobs[p])
<1>1. p \in Periods
  BY Types DEF RunOK
<1>2. jobs[p] \in JobRows /\ Fits(p, jobs[p])
  BY <1>1, JobsFit
<1>3. Owns(w) => Fits(p, j)
  <2>1. CASE jobs[p].attempts >= MaxAttempts
    BY <1>2, <2>1 DEF Owns, FailedJob, Fits, JobRows, Moves, Settled, JobOK
  <2>2. CASE ~(jobs[p].attempts >= MaxAttempts)
    BY <1>2, <2>2 DEF Owns, FailedJob, Fits, JobRows, Moves, Settled, JobOK
  <2> QED
    BY <2>1, <2>2
<1>4. jobs' = IF Owns(w) THEN [jobs EXCEPT ![work[w].job] = j] ELSE jobs
  BY DEF Fail
<1>5. Stop(w)
  BY DEF Fail
<1> HIDE DEF j
<1> QED
  BY <1>3, <1>4, <1>5, LetGoKeeps

LEMMA CrashKeeps ==
  ASSUME GInv, NEW w \in Workers, Crash(w)
  PROVE  GInv' /\ JobsMove
<1>1. jobs' = jobs /\ Stop(w) /\ UNCHANGED <<mail, sub, receipts, aged>> /\ cursor' = cursor
  BY DEF Crash
<1> QED
  BY <1>1, Stops, JobsFit, Types, WritesKeep

-----------------------------------------------------------------------------
(* Delta reconciliation *)

LEMMA AuthorityKeeps ==
  ASSUME GInv, NEW w \in Workers, Authority(w)
  PROVE  GInv' /\ JobsMove
<1>. DEFINE r == [work[w] EXCEPT !.pc = "list", !.provider = sub.provider, !.link = cursor]
<1>0. /\ work[w] \in Runs /\ work[w].pc = "authority" /\ work[w].pc # "idle"
      /\ RunOK(work[w], jobs, Accounted, Len(mail)) /\ work[w].job \in Periods
  BY Types DEF Authority, RunOK
<1>1. UNCHANGED <<mail, sub, receipts, aged>> /\ cursor' = cursor
  BY DEF Authority
<1>2. CASE End(w, "disabled") /\ UNCHANGED jobs
  <2>1. "disabled" \in Outcomes
    BY DEF Outcomes
  <2>2. RunOK(work'[w], jobs, Accounted, Len(mail))
    BY <1>0, <1>2, <2>1, Ends DEF RunOK, LinkOK
  <2> QED
    BY <1>0, <1>1, <1>2, <2>1, <2>2, Ends, JobsFit, Types, WritesKeep
<1>3. CASE work' = [work EXCEPT ![w] = r] /\ UNCHANGED jobs
  <2>2. /\ r \in Runs /\ r.pc = "list" /\ r.job = work[w].job /\ r.link = cursor
    BY <1>0, Types DEF Runs, Phases, Subscriptions
  <2> HIDE DEF r
  <2>3. RunOK(r, jobs, Accounted, Len(mail))
    BY <1>0, <2>2, Types DEF RunOK
  <2>4. work' \in [Workers -> Runs] /\ work'[w] = r /\ \A v \in Workers : v # w => work'[v] = work[v]
    BY <1>3, <2>2, Types
  <2> QED
    BY <1>1, <1>3, <2>3, <2>4, JobsFit, Types, WritesKeep
<1>4. CASE Fail(w)
  BY <1>0, <1>1, <1>4, FailKeeps
<1>5. work' = [work EXCEPT ![w].pc = "list", ![w].provider = sub.provider, ![w].link = cursor]
        => work' = [work EXCEPT ![w] = r]
  OBVIOUS
<1> QED
  BY <1>2, <1>3, <1>4, <1>5 DEF Authority

\* A page listed: the run goes on behind the message it queued.
LEMMA ListedKeeps ==
  ASSUME GInv, NEW w \in Workers, work[w].pc = "list", work[w].pages < MaxPages,
         NEW link \in 0 .. MaxMail, link <= Len(mail), Queued(Accounted', link),
         work' = [work EXCEPT ![w].pc = "advance", ![w].link = link, ![w].pages = @ + 1,
                              ![w].last = (link = Len(mail))],
         UNCHANGED <<mail, sub, cursor, aged>>,
         receipts' \in [Ids -> Periods \cup {0}], Grow(receipts, receipts'),
         jobs' \in [Periods -> JobRows], JobsMove,
         \A p \in Periods : (jobs'[p].owner # None) <=> (jobs'[p].status = "leased"),
         \A p \in Periods : jobs'[p] = jobs[p] \/ FreshOK(p, jobs'[p], receipts')
  PROVE  GInv'
<1>. DEFINE b == link = Len(mail)
            r == [work[w] EXCEPT !.pc = "advance", !.link = link, !.pages = @ + 1, !.last = b]
<1>1. work[w] \in Runs /\ RunOK(work[w], jobs, Accounted, Len(mail))
  BY Types
<1>2. work' = [work EXCEPT ![w] = r]
  OBVIOUS
<1>3. r \in Runs /\ r.pc = "advance" /\ r.job = work[w].job /\ r.link = link
  <2>1. b \in BOOLEAN /\ work[w].pages + 1 \in 0 .. MaxPages /\ link \in Links
    BY <1>1, DeliveryAssumption DEF Runs, Links
  <2> HIDE DEF b
  <2> QED
    BY <1>1, <2>1 DEF Runs, Phases
<1>4. r.last => link = Len(mail)
  <2>1. r.last = b
    <3> HIDE DEF b
    <3> QED
      BY <1>1 DEF Runs
  <2> QED
    BY <2>1
<1> HIDE DEF r
<1>5. work' \in [Workers -> Runs] /\ work'[w] = r /\ \A v \in Workers : v # w => work'[v] = work[v]
  <2>1. r \in Runs /\ work \in [Workers -> Runs]
    BY <1>3, Types
  <2> QED
    BY <1>2, <2>1
<1>6. /\ r.job \in Periods /\ jobs[r.job].status # "none"
      /\ jobs'[r.job].status # "none" /\ jobs'[r.job].before = jobs[r.job].before
      /\ jobs[r.job].before <= Len(mail)
  BY <1>1, <1>3, Types DEF RunOK, JobsMove, Moves, JobOK
<1>7. link # None
  BY DeliveryAssumption
<1>8. RunOK(r, jobs', Accounted', Len(mail'))
  BY <1>3, <1>6, <1>4, <1>7 DEF RunOK, LinkOK
<1>9. TypeOK'
  BY <1>5, Types DEF TypeOK
<1>10. Len(mail) <= Len(mail') /\ aged <= aged'
  BY Types
<1>11. \A v \in Workers : work'[v] = work[v] \/ RunOK(work'[v], jobs', Accounted', Len(mail'))
  BY <1>5, <1>8
<1>12. \A p \in Periods :
         jobs'[p] = jobs[p] \/ JobOK(p, jobs'[p], receipts', Accounted', Len(mail'))
  BY FreshFits
<1> QED
  BY <1>9, <1>10, <1>11, <1>12, Keeps

\* What a listing passes over is accounted for.
LEMMA BehindCovered ==
  ASSUME GInv, NEW w \in Workers
  PROVE  /\ Behind(work[w].link) \in 0 .. MaxMail /\ Behind(work[w].link) <= Len(mail)
         /\ Queued(Accounted, Behind(work[w].link))
<1>1. work[w].link \in Links /\ LinkOK(work[w].link, Accounted, Len(mail))
  BY Types DEF Runs, RunOK
<1>2. aged \in 0 .. Len(mail) /\ Len(mail) \in 0 .. MaxMail
  BY Types
<1>3. CASE work[w].link = None
  <2>1. \A m \in 1 .. aged : m \in Messages /\ m <= aged
    BY <1>2, DeliveryAssumption DEF Messages
  <2> QED
    BY <1>2, <1>3, <2>1, DeliveryAssumption DEF Behind, Queued, Accounted
<1>4. CASE work[w].link # None
  BY <1>1, <1>4 DEF Behind, LinkOK, Links
<1> QED
  BY <1>3, <1>4

LEMMA PageKeeps ==
  ASSUME GInv, NEW w \in Workers, Page(w)
  PROVE  GInv' /\ JobsMove
<1>. DEFINE n == Behind(work[w].link)
            m == n + 1
            Listed(link) ==
              work' = [work EXCEPT ![w].pc = "advance", ![w].link = link, ![w].pages = @ + 1,
                                   ![w].last = (link = Len(mail))]
<1>1. work[w].pc = "list" /\ work[w].pc # "idle" /\ UNCHANGED <<mail, sub, cursor, aged>>
  BY DEF Page
<1>2. n \in 0 .. MaxMail /\ n <= Len(mail) /\ Queued(Accounted, n) /\ m - 1 = n
  BY BehindCovered
<1>3. CASE Fail(w) /\ UNCHANGED receipts
  BY <1>1, <1>3, FailKeeps
<1>4. CASE work[w].pages < MaxPages /\ Listed(m - 1) /\ UNCHANGED <<receipts, jobs>>
  <2>1. Grow(receipts, receipts') /\ JobsMove
    BY <1>4 DEF Grow, JobsMove, Moves
  <2>2. Queued(Accounted', n)
    BY <1>1, <1>2, <1>4, SamePlace
  <2>3. Listed(n)
    BY <1>2, <1>4
  <2> HIDE DEF n
  <2> QED
    BY <1>1, <1>2, <1>4, <2>1, <2>2, <2>3, Types, ListedKeeps
<1>5. CASE /\ work[w].pages < MaxPages /\ m <= Len(mail) /\ Listed(m)
           /\ ~Refused(Message(m), work[w].provider) /\ Enqueue(Message(m), work[w].provider)
  <2>1. m \in 0 .. MaxMail /\ m \in Messages
    BY <1>2, <1>5, Types, DeliveryAssumption DEF Messages
  <2>2. Message(m) \in Ids
    BY <2>1 DEF Ids, Message
  <2>3. work[w].provider \in Periods
    BY <1>5, Types DEF Refused, Subscriptions
  <2>4. /\ receipts' \in [Ids -> Periods \cup {0}] /\ Grow(receipts, receipts')
        /\ receipts'[Message(m)] # 0
        /\ jobs' \in [Periods -> JobRows] /\ JobsMove
        /\ \A p \in Periods : (jobs'[p].owner # None) <=> (jobs'[p].status = "leased")
        /\ \A p \in Periods : jobs'[p] = jobs[p] \/ FreshOK(p, jobs'[p], receipts')
    BY <1>5, <2>2, <2>3, EnqueueGrows
  <2>5. Queued(Accounted', m)
    <3> SUFFICES ASSUME NEW k \in 1 .. m PROVE k \in Accounted'
      BY DEF Queued
    <3>1. CASE k = m
      BY <2>1, <2>4, <3>1 DEF Accounted
    <3>2. CASE k \in 1 .. n
      <4>1. k \in Messages /\ (receipts[Message(k)] # 0 \/ k <= aged)
        BY <1>2, <3>2 DEF Queued, Accounted
      <4>2. Message(k) \in Ids
        BY <4>1 DEF Ids, Message
      <4> QED
        BY <1>1, <2>4, <4>1, <4>2 DEF Accounted, Grow
    <3> QED
      BY <1>2, <3>1, <3>2
  <2> HIDE DEF m
  <2> QED
    BY <1>1, <1>5, <2>1, <2>4, <2>5, ListedKeeps
<1> QED
  BY <1>3, <1>4, <1>5 DEF Page

LEMMA ResetKeeps ==
  ASSUME GInv, NEW w \in Workers, Reset(w)
  PROVE  GInv' /\ JobsMove
<1>. DEFINE r == [work[w] EXCEPT !.link = None, !.reset = TRUE]
<1>1. work[w].pc = "list" /\ work[w].pc # "idle" /\ UNCHANGED <<mail, sub, receipts, aged>>
  BY DEF Reset
<1>2. CASE work[w].reset
  BY <1>1, <1>2, FailKeeps DEF Reset
<1>3. CASE ~work[w].reset
  <2>1. cursor' = None /\ work' = [work EXCEPT ![w] = r] /\ jobs' = jobs
    BY <1>3 DEF Reset
  <2>2. work[w] \in Runs /\ RunOK(work[w], jobs, Accounted, Len(mail))
    BY Types
  <2>3. r \in Runs /\ r.pc = "list" /\ r.job = work[w].job /\ r.link = None
    <3>1. work[w].pc = "list" /\ None \in Links /\ TRUE \in BOOLEAN
      BY <1>1 DEF Links
    <3> QED
      BY <2>2, <3>1 DEF Runs
  <2> HIDE DEF r
  <2>4. work' \in [Workers -> Runs] /\ work'[w] = r /\ \A v \in Workers : v # w => work'[v] = work[v]
    BY <2>1, <2>3, Types
  <2>5. RunOK(r, jobs', Accounted', Len(mail'))
    BY <1>1, <2>1, <2>2, <2>3 DEF RunOK, LinkOK
  <2>6. TypeOK'
    BY <1>1, <2>1, <2>4, Types DEF TypeOK, Links
  <2>7. LinkOK(cursor', Accounted', Len(mail'))
    BY <2>1 DEF LinkOK
  <2>8. JobsMove
    BY <2>1 DEF JobsMove, Moves
  <2>9. \A v \in Workers : work'[v] = work[v] \/ RunOK(work'[v], jobs', Accounted', Len(mail'))
    BY <2>4, <2>5
  <2> QED
    BY <1>1, <2>1, <2>6, <2>7, <2>8, <2>9, SamePlace, Keeps
<1> QED
  BY <1>2, <1>3

LEMMA AdvanceKeeps ==
  ASSUME GInv, NEW w \in Workers, Advance(w)
  PROVE  GInv' /\ JobsMove
<1>. DEFINE r == [work[w] EXCEPT !.pc = "list"]
<1>1. /\ work[w].pc = "advance" /\ cursor' = work[w].link
      /\ UNCHANGED <<mail, sub, receipts, jobs, aged>>
  BY DEF Advance
<1>2. /\ work[w] \in Runs /\ RunOK(work[w], jobs, Accounted, Len(mail))
      /\ work[w].job \in Periods /\ work[w].link \in Links
  BY <1>1, Types DEF RunOK, Runs
<1>3. /\ work' \in [Workers -> Runs] /\ \A v \in Workers : v # w => work'[v] = work[v]
      /\ RunOK(work'[w], jobs, Accounted, Len(mail))
  <2>1. CASE work[w].last
    <3>1. End(w, "reconciled") /\ "reconciled" \in Outcomes
      BY <2>1 DEF Advance, Outcomes
    <3>2. Queued(Accounted, jobs[work[w].job].before)
      <4>1. /\ work[w].link \in Nat /\ jobs[work[w].job].before <= work[w].link
            /\ Queued(Accounted, work[w].link) /\ jobs[work[w].job].before \in Nat
        BY <1>1, <1>2, <2>1, JobsFit DEF RunOK, LinkOK, Links, JobRows
      <4> QED
        BY <4>1 DEF Queued
    <3> QED
      BY <1>1, <1>2, <3>1, <3>2, Ends DEF RunOK, LinkOK
  <2>2. CASE ~work[w].last
    <3>1. work' = [work EXCEPT ![w] = r]
      BY <2>2 DEF Advance
    <3>2. r \in Runs /\ r.pc = "list" /\ r.job = work[w].job /\ r.link = work[w].link
      BY <1>2 DEF Runs, Phases
    <3> HIDE DEF r
    <3>3. RunOK(r, jobs, Accounted, Len(mail))
      BY <1>1, <1>2, <3>2 DEF RunOK
    <3> QED
      BY <3>1, <3>2, <3>3, Types
  <2> QED
    BY <2>1, <2>2
<1>4. TypeOK'
  BY <1>1, <1>2, <1>3, Types DEF TypeOK
<1>5. LinkOK(cursor', Accounted', Len(mail'))
  BY <1>1, <1>2, SamePlace DEF RunOK
<1>6. JobsMove
  BY <1>1 DEF JobsMove, Moves
<1>7. \A v \in Workers : work'[v] = work[v] \/ RunOK(work'[v], jobs', Accounted', Len(mail'))
  BY <1>1, <1>3, SamePlace
<1> QED
  BY <1>1, <1>4, <1>5, <1>6, <1>7, SamePlace, Keeps

-----------------------------------------------------------------------------

LEMMA GInvStep == GInv /\ [Next]_vars => GInv' /\ JobsMove
<1> SUFFICES ASSUME GInv, [Next]_vars PROVE GInv' /\ JobsMove
  OBVIOUS
<1>1. CASE Arrives \/ Ages \/ Webhook \/ WebhookRemoved \/ Maintain
  BY <1>1, ArrivesKeeps, AgesKeeps, WebhookKeeps, SubscriptionKeeps
<1>2. ASSUME NEW w \in Workers,
             Claim(w) \/ ClaimNothing(w) \/ Step(w) \/ Reset(w) \/ CallFails(w) \/ Crash(w)
      PROVE  GInv' /\ JobsMove
  <2>1. CallFails(w) =>
          /\ work[w].pc # "idle" /\ Fail(w)
          /\ UNCHANGED <<mail, sub, receipts, aged>> /\ cursor' = cursor
    BY DEF CallFails
  <2> QED
    BY <1>2, <2>1, ClaimKeeps, ClaimNothingKeeps, CompleteKeeps, FailKeeps, CrashKeeps,
       AuthorityKeeps, PageKeeps, AdvanceKeeps, ResetKeeps DEF Step
<1>3. CASE UNCHANGED vars
  <2>1. JobsMove
    BY <1>3 DEF vars, JobsMove, Moves
  <2> QED
    BY <1>3, <2>1, SamePlace, Keeps, Types DEF vars, GInv, TypeOK
<1> QED
  BY <1>1, <1>2, <1>3 DEF Next

\* Type correctness of deliveries: a job is leased exactly while somebody owns it,
\* and its attempts stay within max_attempts.
THEOREM DeliveryTypes == Spec => []TypeOK
<1>1. GInv => TypeOK
  BY DEF GInv
<1> QED
  BY <1>1, GInvInit, GInvStep, PTL DEF Spec

\* The delta cursor never passes a message within the recovery window that is not
\* queued, although two passes overwrite it in any order (Advance, Reset).
THEOREM NothingPassedOver == Spec => []CursorPassesQueued
<1>1. GInv => CursorPassesQueued
  BY DEF GInv, LinkOK, Queued, CursorPassesQueued
<1> QED
  BY <1>1, GInvInit, GInvStep, PTL DEF Spec

\* A "missed" event is answered with "reconciled" only when everything that had
\* arrived by then is queued or older than the recovery window.
THEOREM MissedAnswered == Spec => []MissedMeansQueued
<1>1. GInv => MissedMeansQueued
  BY DEF GInv, JobOK, Queued, MissedMeansQueued
<1> QED
  BY <1>1, GInvInit, GInvStep, PTL DEF Spec

\* A settled job is never touched again, by a late complete, a late fail or a
\* duplicate.
THEOREM JobsSettled == Spec => SettledStays
<1>1. JobsMove => \A p \in Periods : jobs[p].status \in Settled => jobs'[p] = jobs[p]
  BY DEF JobsMove, Moves
<1> QED
  BY <1>1, GInvInit, GInvStep, PTL DEF Spec, SettledStays

=============================================================================
