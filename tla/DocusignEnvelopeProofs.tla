---------------------- MODULE DocusignEnvelopeProofs ----------------------
(* The types and the safety of DocusignEnvelope, for any number of requests,
   handlers, pollers and keys, and for any bounds. *)
EXTENDS DocusignEnvelope, FiniteSetTheorems, TLAPS

\* The provider's status p shows that the envelope got to s: it never goes back, and
\* it comes to one end only.
Reached(p, s) ==
  /\ ProviderRank[p] >= ProviderRank[s]
  /\ s \in {"completed"} \cup Refused => p = s

\* States in which a request can still be sent, and of one that is out, or was.
Unsent == {"none", "approved", "draft_created", "provider_pending"}
Out == {"sent", "delivered"} \cup (Terminal \ {"provider_blocked"})

SentOnce(row) == \E k \in SendKeys : row.send[k] = "succeeded"

\* A request never claims more than its envelope did; one that is approved was never
\* created, and one that was sent under some key can only be reconciled.
StateOK(state, sent, env) ==
  /\ state \in {"none", "approved"} => env.creates = 0
  /\ \A s \in Statuses \ {"none"} : state = StateOf[s] => Reached(env.status, s)
  /\ state = "completed" => env.status = "completed"
  /\ sent => state \notin Unsent /\ Reached(env.status, "sent")

RowOK(row, env) ==
  /\ row.state \in NeedsEnvelope => row.envelope
  /\ row.envelope => env.status # "none"
  /\ StateOK(row.state, SentOnce(row), env)

EnvelopeOK(env) ==
  /\ IsFiniteSet(env.events)
  /\ \A e \in env.events : e.status \in EventStatuses /\ Reached(env.status, e.status)
  /\ env.creates <= 1
  /\ env.status # "none" => env.creates = 1

CallOK(m, env) ==
  /\ m.kind = "create" => env.status = "none" /\ env.creates = 1
  /\ m.kind = "send" => env.status # "none"

Sending == {"resolve", "resolveDraft", "creating", "drafted", "sending"}
Reconciling == {"finding", "found"}

\* A status that was read under a token still held is no older than a success.
ReadOK(read, token, row, env) ==
  /\ read \in Statuses \ {"none"} /\ Reached(env.status, read)
  /\ SentOnce(row) /\ token => read # "created"

\* What the worker w that runs j knows of its request: under a send lease taken of an
\* approved request nobody has called createDraft yet.
JobOK(w, j, row, env) ==
  /\ j.req \in Requests
  /\ j.pc \in Sending => j.key \in SendKeys
  /\ j.pc \in Reconciling => j.key \in ReconcileKeys
  /\ j.pc \in {"resolve", "resolveDraft", "drafted"} => j.read = None
  /\ j.pc = "resolve" /\ row.state = "provider_pending" /\ HasToken(row, "send", w) =>
       env.creates = 0
  /\ j.pc = "resolveDraft" => row.envelope
  /\ j.pc \in {"drafted", "sending", "polling"} => env.status # "none"
  /\ j.pc = "creating" /\ j.read = "ok" => env.status # "none"
  /\ j.pc = "sending" /\ j.read = "ok" => Reached(env.status, "sent")
  /\ j.pc = "found" => ReadOK(j.read, HasToken(row, "reconcile", w), row, env)
  /\ j.pc = "polled" => ReadOK(j.read, HasToken(row, "poll", w), row, env)

JobFits(w) ==
  work[w].pc # "idle" => JobOK(w, work[w], req[work[w].req], provider[work[w].req])

CallsOK ==
  /\ \A m \in calls : CallOK(m, provider[m.req])
  /\ \A m, n \in calls : m.kind = "create" /\ n.kind = "create" /\ m.req = n.req => m = n

EInv ==
  /\ TypeOK
  /\ \A r \in Requests : RowOK(req[r], provider[r]) /\ EnvelopeOK(provider[r])
  /\ CallsOK
  /\ \A w \in Workers : JobFits(w)

-----------------------------------------------------------------------------
(* What a step may do *)

RowMoves(old, new) ==
  /\ \A k \in SendKeys : old.send[k] = "succeeded" => new.send[k] = "succeeded"
  /\ old.state \in Out => new.state \notin {"approved", "draft_created", "provider_pending"}
  /\ old.envelope => new.envelope

Moves == \A r \in Requests : RowMoves(req[r], req'[r])

EnvMoves(old, new) ==
  /\ \A s \in Statuses : Reached(old.status, s) => Reached(new.status, s)
  /\ old.status # "none" => new.status # "none"

\* Nothing is done to a request behind the back of w while w keeps its token.
TokenKept(w, old, new, env, env2) ==
  /\ HasToken(new, "send", w) /\ new.state = "provider_pending" =>
       HasToken(old, "send", w) /\ old.state = "provider_pending" /\ env2.creates = env.creates
  /\ \A kind \in {"reconcile", "poll"} :
       HasToken(new, kind, w) => HasToken(old, kind, w) /\ (SentOnce(new) => SentOnce(old))

\* A row that may replace the request's.
RowFits(r, row) ==
  /\ row \in Rows
  /\ row.envelope => provider[r].status # "none"
  /\ StateOK(row.state, SentOnce(row), provider[r])
  /\ RowMoves(req[r], row)

-----------------------------------------------------------------------------
(* Ranks *)

LEMMA Ranks ==
  /\ ProviderRank["none"] = 0 /\ ProviderRank["created"] = 3 /\ ProviderRank["sent"] = 4
  /\ ProviderRank["delivered"] = 5 /\ ProviderRank["completed"] = 6
  /\ ProviderRank["declined"] = 6 /\ ProviderRank["voided"] = 6
BY DEF ProviderRank

LEMMA States ==
  /\ StateOf["created"] = "draft_created" /\ StateOf["sent"] = "sent"
  /\ StateOf["delivered"] = "delivered" /\ StateOf["completed"] = "completed_artifacts_pending"
  /\ StateOf["declined"] = "declined" /\ StateOf["voided"] = "voided"
BY DEF StateOf

LEMMA Reaching ==
  ASSUME NEW p \in Statuses
  PROVE  /\ Reached(p, p)
         /\ p # "none" <=> Reached(p, "created")
         /\ Reached(p, "sent") <=> p \notin {"none", "created"}
         /\ \A s \in Statuses \ {"none"} : Reached(p, s) => p # "none"
BY Ranks DEF Reached, Statuses, Refused

\* Where the provider may go from p.
LEMMA MovesOn ==
  ASSUME NEW p \in Statuses, NEW q \in Statuses, ProviderRank[q] >= ProviderRank[p],
         p \in {"completed"} \cup Refused => q = p
  PROVE  /\ \A s \in Statuses : Reached(p, s) => Reached(q, s)
         /\ p # "none" => q # "none"
BY Ranks DEF Reached, Statuses, Refused

-----------------------------------------------------------------------------
(* Frames *)

LEMMA EInvInit == Init => EInv
<1> SUFFICES ASSUME Init PROVE EInv
  OBVIOUS
<1>1. Idle \in Jobs /\ Idle.pc = "idle"
  BY EnvelopeAssumption DEF Idle, Jobs, Phases
<1>2. NewRow \in Rows /\ NewRow.state = "none" /\ ~NewRow.envelope /\ ~SentOnce(NewRow)
  BY DEF NewRow, Rows, RequestStates, KeyStates, SentOnce
<1> DEFINE env == [status |-> "none", creates |-> 0, events |-> {}]
<1>3. env \in Envelopes /\ env.status = "none" /\ env.creates = 0 /\ env.events = {}
  BY DEF Envelopes, Statuses
<1>4. EnvelopeOK(env)
  BY <1>3, FS_EmptySet DEF EnvelopeOK
<1>5. RowOK(NewRow, env)
  BY <1>2, <1>3, States DEF RowOK, StateOK, NeedsEnvelope, Refused, Statuses
<1> HIDE DEF env
<1>6. /\ req = [r \in Requests |-> NewRow] /\ provider = [r \in Requests |-> env]
      /\ calls = {} /\ work = [w \in Workers |-> Idle] /\ now = 0
  BY DEF Init, env
<1>7. TypeOK
  BY <1>1, <1>2, <1>3, <1>6, EnvelopeAssumption DEF TypeOK
<1>8. CallsOK /\ \A w \in Workers : JobFits(w)
  BY <1>1, <1>6 DEF CallsOK, JobFits
<1> QED
  BY <1>4, <1>5, <1>6, <1>7, <1>8 DEF EInv

LEMMA Types ==
  ASSUME EInv
  PROVE  /\ req \in [Requests -> Rows] /\ provider \in [Requests -> Envelopes]
         /\ calls \subseteq Calls /\ work \in [Workers -> Jobs] /\ now \in 0 .. MaxTime
         /\ CallsOK
         /\ \A r \in Requests :
              /\ req[r] \in Rows /\ provider[r] \in Envelopes
              /\ RowOK(req[r], provider[r]) /\ EnvelopeOK(provider[r])
         /\ \A w \in Workers :
              /\ work[w] \in Jobs /\ JobFits(w)
              /\ work[w].pc # "idle" => work[w].req \in Requests
BY DEF EInv, TypeOK, JobFits, JobOK

\* What a worker knows stays true when its token does.
LEMMA JobStays ==
  ASSUME NEW w \in Workers, NEW j \in Jobs, NEW old \in Rows, NEW new \in Rows,
         NEW env \in Envelopes, NEW env2 \in Envelopes, JobOK(w, j, old, env),
         RowMoves(old, new), EnvMoves(env, env2), TokenKept(w, old, new, env, env2)
  PROVE  JobOK(w, j, new, env2)
<1>1. "sent" \in Statuses
  BY DEF Statuses
<1>2. ASSUME NEW kind \in {"reconcile", "poll"},
             ReadOK(j.read, HasToken(old, kind, w), old, env)
      PROVE  ReadOK(j.read, HasToken(new, kind, w), new, env2)
  BY <1>2 DEF ReadOK, TokenKept, EnvMoves
<1> QED
  BY <1>1, <1>2 DEF JobOK, RowMoves, EnvMoves, TokenKept

LEMMA RowStays ==
  ASSUME NEW row \in Rows, NEW env \in Envelopes, NEW env2 \in Envelopes,
         RowOK(row, env), EnvMoves(env, env2),
         env2.creates = env.creates \/ row.state \notin {"none", "approved"}
  PROVE  RowOK(row, env2)
<1>1. "sent" \in Statuses /\ "completed" \in Statuses /\ env.status \in Statuses
  BY DEF Statuses, Envelopes
<1>2. env.status = "completed" => env2.status = "completed"
  BY <1>1, Ranks DEF EnvMoves, Reached
<1>3. StateOK(row.state, SentOnce(row), env2)
  BY <1>1, <1>2 DEF RowOK, StateOK, EnvMoves
<1> QED
  BY <1>3 DEF RowOK, EnvMoves

LEMMA Keeps ==
  ASSUME EInv,
         req' \in [Requests -> Rows], provider' \in [Requests -> Envelopes],
         calls' \subseteq Calls, work' \in [Workers -> Jobs], now' \in 0 .. MaxTime,
         \A r \in Requests :
           /\ RowOK(req'[r], provider'[r]) /\ EnvelopeOK(provider'[r])
           /\ RowMoves(req[r], req'[r]) /\ EnvMoves(provider[r], provider'[r]),
         CallsOK',
         \A w \in Workers :
           \/ /\ work'[w] = work[w]
              /\ \A r \in Requests :
                   TokenKept(w, req[r], req'[r], provider[r], provider'[r])
           \/ JobFits(w)'
  PROVE  EInv' /\ Moves
<1>1. ASSUME NEW w \in Workers, work'[w] = work[w],
             \A r \in Requests : TokenKept(w, req[r], req'[r], provider[r], provider'[r])
      PROVE  JobFits(w)'
  <2>1. CASE work[w].pc = "idle"
    BY <1>1, <2>1 DEF JobFits
  <2>2. CASE work[w].pc # "idle"
    <3> DEFINE r == work[w].req
    <3>1. r \in Requests /\ work[w] \in Jobs /\ JobOK(w, work[w], req[r], provider[r])
      BY <2>2, Types DEF JobFits
    <3> HIDE DEF r
    <3>2. JobOK(w, work[w], req'[r], provider'[r])
      BY <3>1, <1>1, JobStays, Types
    <3> QED
      BY <3>2, <1>1 DEF JobFits, r
  <2> QED
    BY <2>1, <2>2
<1>2. TypeOK'
  BY DEF TypeOK
<1>3. \A w \in Workers : JobFits(w)'
  BY <1>1
<1>4. (\A r \in Requests : RowOK(req[r], provider[r]) /\ EnvelopeOK(provider[r]))'
  OBVIOUS
<1>5. (\A w \in Workers : JobFits(w))'
  BY <1>3
<1> QED
  BY <1>2, <1>4, <1>5 DEF EInv, Moves

LEMMA SameEnv == ASSUME NEW env PROVE EnvMoves(env, env)
BY DEF EnvMoves

LEMMA SameRow == ASSUME NEW w, NEW row, NEW env
                 PROVE  RowMoves(row, row) /\ TokenKept(w, row, row, env, env)
<1>1. RowMoves(row, row)
  BY DEF RowMoves, Out, Terminal, Refused
<1>2. TokenKept(w, row, row, env, env)
  BY DEF TokenKept
<1> QED
  BY <1>1, <1>2

\* Only workers go on.
LEMMA WorkKeeps ==
  ASSUME EInv, UNCHANGED <<req, provider, calls>>, now' \in 0 .. MaxTime,
         work' \in [Workers -> Jobs],
         \A w \in Workers : work'[w] = work[w] \/ JobFits(w)'
  PROVE  EInv' /\ Moves
<1>1. CallsOK'
  BY Types DEF CallsOK
<1>2. \A r \in Requests :
        /\ RowOK(req'[r], provider'[r]) /\ EnvelopeOK(provider'[r])
        /\ RowMoves(req[r], req'[r]) /\ EnvMoves(provider[r], provider'[r])
  BY Types, SameEnv, SameRow
<1>3. \A w \in Workers : \A r \in Requests :
        TokenKept(w, req[r], req'[r], provider[r], provider'[r])
  BY SameRow
<1> QED
  BY <1>1, <1>2, <1>3, Types, Keeps

\* A worker gives up.
LEMMA StopKeeps ==
  ASSUME EInv, NEW w \in Workers, Stop(w), UNCHANGED <<req, provider, calls, now>>
  PROVE  EInv' /\ Moves
<1>1. Idle \in Jobs /\ Idle.pc = "idle"
  BY EnvelopeAssumption DEF Idle, Jobs, Phases
<1>2. work' \in [Workers -> Jobs] /\ \A v \in Workers : work'[v] = work[v] \/ work'[v] = Idle
  BY <1>1, Types DEF Stop
<1>3. \A v \in Workers : work'[v] = work[v] \/ JobFits(v)'
  BY <1>1, <1>2 DEF JobFits
<1> QED
  BY <1>2, <1>3, Types, WorkKeeps

\* A transaction writes the row of a request, or is refused.
LEMMA Written ==
  ASSUME NEW r \in Requests, NEW row, Transact(r, row), req \in [Requests -> Rows]
  PROVE  \/ UNCHANGED req
         \/ /\ req' = [req EXCEPT ![r] = row]
            /\ row.state \in NeedsEnvelope => row.envelope
            /\ row.state = "approved" => ~row.envelope
<1> DEFINE rows == [req EXCEPT ![r] = row]
<1>1. req' = IF Normal(rows) THEN rows ELSE req
  BY DEF Transact
<1>2. rows[r] = row
  OBVIOUS
<1> HIDE DEF rows
<1>3. Normal(rows) => /\ rows[r].state \in NeedsEnvelope => rows[r].envelope
                      /\ rows[r].state = "approved" => ~rows[r].envelope
  BY DEF Normal
<1> QED
  BY <1>1, <1>2, <1>3 DEF rows

LEMMA RowKeeps ==
  ASSUME EInv, NEW r \in Requests, NEW row, RowFits(r, row),
         req' = [req EXCEPT ![r] = row], row.state \in NeedsEnvelope => row.envelope,
         UNCHANGED <<provider, calls, now>>, work' \in [Workers -> Jobs],
         \A w \in Workers :
           \/ work'[w] = work[w] /\ TokenKept(w, req[r], row, provider[r], provider[r])
           \/ JobFits(w)'
  PROVE  EInv' /\ Moves
<1>1. /\ req' \in [Requests -> Rows] /\ req'[r] = row
      /\ \A q \in Requests : q # r => req'[q] = req[q]
  BY Types DEF RowFits
<1>2. CallsOK'
  BY Types DEF CallsOK
<1>3. ASSUME NEW q \in Requests
      PROVE  /\ RowOK(req'[q], provider'[q]) /\ EnvelopeOK(provider'[q])
             /\ RowMoves(req[q], req'[q]) /\ EnvMoves(provider[q], provider'[q])
  <2>1. EnvelopeOK(provider'[q]) /\ EnvMoves(provider[q], provider'[q])
    BY Types, SameEnv
  <2>2. CASE q = r
    BY <1>1, <2>1, <2>2 DEF RowFits, RowOK
  <2>3. CASE q # r
    BY <1>1, <2>1, <2>3, Types, SameRow
  <2> QED
    BY <2>2, <2>3
<1>4. ASSUME NEW w \in Workers, TokenKept(w, req[r], row, provider[r], provider[r])
      PROVE  \A q \in Requests : TokenKept(w, req[q], req'[q], provider[q], provider'[q])
  BY <1>1, <1>4, SameRow
<1> QED
  BY <1>1, <1>2, <1>3, <1>4, Types, Keeps

\* A transaction of no worker.
LEMMA TransactKeeps ==
  ASSUME EInv, NEW r \in Requests, NEW row, Transact(r, row), RowFits(r, row),
         \A w \in Workers : TokenKept(w, req[r], row, provider[r], provider[r]),
         UNCHANGED <<provider, calls, work, now>>
  PROVE  EInv' /\ Moves
<1>1. CASE UNCHANGED req
  BY <1>1, Types, WorkKeeps
<1>2. CASE req' = [req EXCEPT ![r] = row] /\ (row.state \in NeedsEnvelope => row.envelope)
  BY <1>2, Types, RowKeeps
<1> QED
  BY <1>1, <1>2, Written, Types

\* The last transaction of a worker.
LEMMA LastKeeps ==
  ASSUME EInv, NEW w \in Workers, NEW r \in Requests, NEW row, Transact(r, row),
         (row.state = "approved" => ~row.envelope) => RowFits(r, row),
         \A v \in Workers : TokenKept(v, req[r], row, provider[r], provider[r]),
         Stop(w), UNCHANGED <<provider, calls, now>>
  PROVE  EInv' /\ Moves
<1>1. CASE UNCHANGED req
  BY <1>1, StopKeeps
<1>2. CASE /\ req' = [req EXCEPT ![r] = row] /\ (row.state \in NeedsEnvelope => row.envelope)
           /\ row.state = "approved" => ~row.envelope
  <2>1. Idle \in Jobs /\ Idle.pc = "idle"
    BY EnvelopeAssumption DEF Idle, Jobs, Phases
  <2>2. work' \in [Workers -> Jobs] /\ \A v \in Workers : work'[v] = work[v] \/ work'[v] = Idle
    BY <2>1, Types DEF Stop
  <2>3. \A v \in Workers : work'[v] = work[v] \/ JobFits(v)'
    BY <2>1, <2>2 DEF JobFits
  <2> QED
    BY <1>2, <2>2, <2>3, RowKeeps
<1> QED
  BY <1>1, <1>2, Written, Types

-----------------------------------------------------------------------------
(* Rows *)

\* A transaction that leaves the envelope and what succeeded.
LEMMA Edited ==
  ASSUME EInv, NEW r \in Requests, NEW row \in Rows, row.envelope = req[r].envelope,
         \A k \in SendKeys : row.send[k] = "succeeded" <=> req[r].send[k] = "succeeded",
         StateOK(row.state, SentOnce(req[r]), provider[r]),
         req[r].state \in Out =>
           row.state \notin {"approved", "draft_created", "provider_pending"}
  PROVE  RowFits(r, row)
<1>1. SentOnce(row) => SentOnce(req[r])
  BY DEF SentOnce
<1>2. StateOK(row.state, SentOnce(row), provider[r])
  BY <1>1 DEF StateOK
<1>3. row.envelope => provider[r].status # "none"
  BY Types DEF RowOK
<1> QED
  BY <1>2, <1>3 DEF RowFits, RowMoves

\* Any state that says nothing of the envelope fits a request that was tried.
LEMMA Open ==
  ASSUME EInv, NEW r \in Requests
  PROVE  /\ StateOK(req[r].state, SentOnce(req[r]), provider[r])
         /\ StateOK("reconciliation_required", SentOnce(req[r]), provider[r])
         /\ StateOK("provider_blocked", SentOnce(req[r]), provider[r])
         /\ req[r].state \in Unsent =>
              ~SentOnce(req[r]) /\ StateOK("provider_pending", SentOnce(req[r]), provider[r])
<1>1. StateOK(req[r].state, SentOnce(req[r]), provider[r])
  BY Types DEF RowOK
<1> QED
  BY <1>1, States DEF StateOK, Unsent, Statuses, Refused

LEMMA Tokens ==
  ASSUME NEW w, NEW old \in Rows, NEW new \in Rows, NEW env,
         \/ new.lease = None
         \/ \E kind, v : new.lease = Lease(kind, v) /\ v # w
         \/ /\ new.lease = old.lease /\ (SentOnce(new) => SentOnce(old))
            /\ new.state = "provider_pending" => old.state = "provider_pending"
  PROVE  TokenKept(w, old, new, env, env)
<1>1. CASE new.lease = None
  BY <1>1 DEF TokenKept, HasToken
<1>2. CASE \E kind, v : new.lease = Lease(kind, v) /\ v # w
  BY <1>2 DEF TokenKept, HasToken, Lease
<1>3. CASE /\ new.lease = old.lease /\ (SentOnce(new) => SentOnce(old))
           /\ new.state = "provider_pending" => old.state = "provider_pending"
  BY <1>3 DEF TokenKept, HasToken
<1> QED
  BY <1>1, <1>2, <1>3

LEMMA ProjectFits ==
  ASSUME NEW row \in Rows, NEW env \in Envelopes, StateOK(row.state, SentOnce(row), env),
         NEW event \in Cursors, event.status # "none", Reached(env.status, event.status),
         SentOnce(row) => event.status # "created"
  PROVE  /\ Project(row, event) \in Rows
         /\ Project(row, event).envelope = row.envelope /\ Project(row, event).lease = row.lease
         /\ Project(row, event).send = row.send
         /\ Project(row, event).state = "provider_pending" => row.state = "provider_pending"
         /\ Project(row, event).state \in Unsent => row.state \in Unsent \/ ~SentOnce(row)
         /\ StateOK(Project(row, event).state, SentOnce(row), env)
         /\ row.state \in Out =>
              Project(row, event).state \notin {"approved", "draft_created", "provider_pending"}
<1>1. event.status \in Statuses \ {"none"} /\ env.status \in Statuses
  BY DEF Cursors, Envelopes
<1> DEFINE target == StateOf[event.status]
           advances == event.status \in Refused \/ Rank[target] >= Rank[row.state]
           new == [row EXCEPT !.state = target, !.cursor = event]
<1>2. /\ target \in {"draft_created", "sent", "delivered", "completed_artifacts_pending",
                     "declined", "voided"}
      /\ target = "draft_created" => event.status = "created"
      /\ event.status \in Refused => target # "draft_created"
      /\ \A s \in Statuses \ {"none"} : target = StateOf[s] => s = event.status
  BY <1>1, States DEF Statuses, Refused
<1>3. /\ new \in Rows /\ new.envelope = row.envelope /\ new.lease = row.lease
      /\ new.send = row.send /\ new.state = target
  BY <1>2 DEF Rows, RequestStates, Reconcilable, Terminal, Refused
<1>4. StateOK(target, SentOnce(row), env)
  BY <1>1, <1>2 DEF StateOK, Unsent
<1>5. row.state \in Out /\ row.state \notin Terminal /\ advances => target # "draft_created"
  <2>1. /\ Rank["draft_created"] = 3 /\ Rank["sent"] = 4 /\ Rank["delivered"] = 5
    BY DEF Rank
  <2> QED
    BY <1>2, <2>1 DEF Out
<1>6. CASE Accepts(row.cursor, event) /\ row.state \notin Terminal /\ advances
  <2>1. Project(row, event) = new
    BY <1>6 DEF Project
  <2> HIDE DEF new, target, advances
  <2> QED
    BY <1>2, <1>3, <1>4, <1>5, <1>6, <2>1 DEF StateOK
<1>7. CASE ~(Accepts(row.cursor, event) /\ row.state \notin Terminal /\ advances)
  <2>1. Project(row, event) = row
    BY <1>7 DEF Project
  <2> QED
    BY <2>1 DEF Out, Terminal, Refused
<1> QED
  BY <1>6, <1>7

-----------------------------------------------------------------------------
(* Transactions of no worker *)

LEMMA QueueStep == ASSUME EInv, NEW r \in Requests, Queue(r) PROVE EInv' /\ Moves
<1> DEFINE row == [req[r] EXCEPT !.state = "approved"]
<1>1. /\ row \in Rows /\ row.envelope = req[r].envelope /\ row.send = req[r].send
      /\ row.lease = req[r].lease /\ row.state = "approved"
  BY Types DEF Rows, RequestStates
<1>2. /\ Transact(r, row) /\ req[r].state = "none"
      /\ UNCHANGED <<provider, calls, work, now>>
  BY DEF Queue
<1> HIDE DEF row
<1>3. StateOK("approved", SentOnce(req[r]), provider[r])
  BY <1>2, Open, States DEF StateOK, Statuses, Refused, Unsent
<1>4. RowFits(r, row)
  BY <1>1, <1>2, <1>3, Edited DEF Out, Terminal, Refused
<1>5. SentOnce(row) => SentOnce(req[r])
  BY <1>1 DEF SentOnce
<1>6. \A w \in Workers : TokenKept(w, req[r], row, provider[r], provider[r])
  BY <1>1, <1>5, Tokens, Types
<1> QED
  BY <1>2, <1>4, <1>6, TransactKeeps

LEMMA WebhookStep == ASSUME EInv, NEW r \in Requests, Webhook(r) PROVE EInv' /\ Moves
<1>1. PICK e \in provider[r].events :
        /\ Transact(r, [Project(req[r], e) EXCEPT !.seen = @ \cup {e.status}])
        /\ UNCHANGED <<provider, calls, work, now>>
  BY DEF Webhook
<1> DEFINE p == Project(req[r], e)
           row == [p EXCEPT !.seen = @ \cup {e.status}]
<1>2. e \in Cursors /\ e.status \in EventStatuses /\ Reached(provider[r].status, e.status)
  BY Types DEF Envelopes, EnvelopeOK
<1>3. e.status # "none" /\ e.status # "created"
  BY <1>2 DEF EventStatuses
<1>4. /\ p \in Rows /\ p.envelope = req[r].envelope /\ p.lease = req[r].lease
      /\ p.send = req[r].send
      /\ p.state = "provider_pending" => req[r].state = "provider_pending"
      /\ StateOK(p.state, SentOnce(req[r]), provider[r])
      /\ req[r].state \in Out =>
           p.state \notin {"approved", "draft_created", "provider_pending"}
  BY <1>2, <1>3, Open, Types, ProjectFits
<1> HIDE DEF p
<1>5. /\ row \in Rows /\ row.envelope = p.envelope /\ row.send = p.send
      /\ row.lease = p.lease /\ row.state = p.state
  BY <1>2, <1>4 DEF Rows
<1>6. Transact(r, row)
  BY <1>1 DEF p
<1> HIDE DEF row
<1>7. RowFits(r, row)
  BY <1>4, <1>5, Edited
<1>8. SentOnce(row) => SentOnce(req[r])
  BY <1>4, <1>5 DEF SentOnce
<1>9. \A w \in Workers : TokenKept(w, req[r], row, provider[r], provider[r])
  BY <1>4, <1>5, <1>8, Tokens, Types
<1> QED
  BY <1>1, <1>6, <1>7, <1>9, TransactKeeps

LEMMA CompletedStep == ASSUME EInv, NEW r \in Requests, Completed(r) PROVE EInv' /\ Moves
<1> DEFINE row == [req[r] EXCEPT !.state = "completed", !.artifacts = TRUE]
<1>1. /\ row \in Rows /\ row.envelope = req[r].envelope /\ row.send = req[r].send
      /\ row.lease = req[r].lease /\ row.state = "completed"
  BY Types DEF Rows, RequestStates, Terminal
<1>2. /\ Transact(r, row) /\ req[r].state = "completed_artifacts_pending"
      /\ UNCHANGED <<provider, calls, work, now>>
  BY DEF Completed
<1> HIDE DEF row
<1>3. StateOK("completed", SentOnce(req[r]), provider[r])
  <2>1. "completed" \in Statuses \ {"none"} /\ provider[r].status \in Statuses
    BY Types DEF Statuses, Envelopes
  <2>2. provider[r].status = "completed"
    BY <1>2, <2>1, Open, States DEF StateOK, Reached
  <2> QED
    BY <1>2, <2>2, Open, States DEF StateOK, Statuses, Refused, Unsent
<1>4. RowFits(r, row)
  BY <1>1, <1>3, Edited
<1>5. SentOnce(row) => SentOnce(req[r])
  BY <1>1 DEF SentOnce
<1>6. \A w \in Workers : TokenKept(w, req[r], row, provider[r], provider[r])
  BY <1>1, <1>5, Tokens, Types
<1> QED
  BY <1>2, <1>4, <1>6, TransactKeeps

LEMMA LapseStep == ASSUME EInv, NEW r \in Requests, LeaseLapses(r) PROVE EInv' /\ Moves
<1> DEFINE row == [req[r] EXCEPT !.lease.live = FALSE]
<1>1. /\ req[r].lease # None /\ req' = [req EXCEPT ![r].lease.live = FALSE]
      /\ UNCHANGED <<provider, calls, work, now>>
  BY DEF LeaseLapses
<1>2. req' = [req EXCEPT ![r] = row]
  BY <1>1
<1>3. req[r] \in Rows /\ req[r].lease \in Leases
  BY <1>1, Types DEF Rows
<1> DEFINE l == [req[r].lease EXCEPT !.live = FALSE]
<1>4. l \in Leases /\ l.kind = req[r].lease.kind /\ l.holder = req[r].lease.holder
  BY <1>3 DEF Leases
<1>5. row = [req[r] EXCEPT !.lease = l]
  OBVIOUS
<1> HIDE DEF l
<1>6. /\ row \in Rows /\ row.envelope = req[r].envelope /\ row.send = req[r].send
      /\ row.lease = l /\ row.state = req[r].state
  BY <1>3, <1>4, <1>5 DEF Rows
<1> HIDE DEF row
<1>7. RowFits(r, row)
  BY <1>6, Edited, Open DEF Out, Terminal, Refused
<1>8. SentOnce(row) => SentOnce(req[r])
  BY <1>6 DEF SentOnce
<1>9. \A w \in Workers : TokenKept(w, req[r], row, provider[r], provider[r])
  BY <1>1, <1>4, <1>6, <1>8 DEF TokenKept, HasToken
<1>10. row.state \in NeedsEnvelope => row.envelope
  BY <1>6, Types DEF RowOK
<1> QED
  BY <1>1, <1>2, <1>7, <1>9, <1>10, Types, RowKeeps

LEMMA SlotStep == ASSUME EInv, NEW r \in Requests, PollSlotOpens(r) PROVE EInv' /\ Moves
<1> DEFINE row == [req[r] EXCEPT !.pollDue = TRUE]
<1>1. req' = [req EXCEPT ![r] = row] /\ UNCHANGED <<provider, calls, work, now>>
  BY DEF PollSlotOpens
<1>2. /\ row \in Rows /\ row.envelope = req[r].envelope /\ row.send = req[r].send
      /\ row.lease = req[r].lease /\ row.state = req[r].state
  BY Types DEF Rows
<1> HIDE DEF row
<1>3. RowFits(r, row)
  BY <1>2, Edited, Open DEF Out, Terminal, Refused
<1>4. SentOnce(row) => SentOnce(req[r])
  BY <1>2 DEF SentOnce
<1>5. \A w \in Workers : TokenKept(w, req[r], row, provider[r], provider[r])
  BY <1>2, <1>4, Tokens, Types
<1>6. row.state \in NeedsEnvelope => row.envelope
  BY <1>2, Types DEF RowOK
<1> QED
  BY <1>1, <1>3, <1>5, <1>6, Types, RowKeeps

\* An interrupted attempt leaves its request to reconciliation.
LEMMA ReplayInterruptedStep ==
  ASSUME EInv, NEW r \in Requests, NEW k \in SendKeys, ReplayInterrupted(r, k)
  PROVE  EInv' /\ Moves
<1> DEFINE row == [Interrupted(req[r]) EXCEPT !.send[k] = "failed"]
<1>1. /\ Transact(r, row) /\ UNCHANGED <<provider, calls, work, now>>
      /\ req[r].send[k] = "in_progress" \/ req[r].state = "provider_pending"
  BY DEF ReplayInterrupted
<1>2. req[r].send[k] # "succeeded"
  BY <1>1, Open DEF SentOnce, Unsent
<1>3. req[r] \in Rows
  BY Types
<1>4. /\ row \in Rows /\ row.envelope = req[r].envelope
      /\ row.send = [req[r].send EXCEPT ![k] = "failed"]
      /\ row.lease = None /\ row.state = "reconciliation_required"
  BY <1>3 DEF Rows, RequestStates, Reconcilable, Interrupted, KeyStates
<1> HIDE DEF row
<1>5. \A q \in SendKeys : row.send[q] = "succeeded" <=> req[r].send[q] = "succeeded"
  BY <1>2, <1>3, <1>4 DEF Rows
<1>6. RowFits(r, row)
  BY <1>4, <1>5, Edited, Open
<1>7. \A w \in Workers : TokenKept(w, req[r], row, provider[r], provider[r])
  BY <1>3, <1>4, Tokens
<1> QED
  BY <1>1, <1>6, <1>7, TransactKeeps

LEMMA ClaimInterruptedStep ==
  ASSUME EInv, NEW r \in Requests, NEW k \in SendKeys, ClaimInterrupted(r, k)
  PROVE  EInv' /\ Moves
<1> DEFINE row == Interrupted(req[r])
<1>1. Transact(r, row) /\ UNCHANGED <<provider, calls, work, now>>
  BY DEF ClaimInterrupted
<1>2. req[r] \in Rows
  BY Types
<1>3. /\ row \in Rows /\ row.envelope = req[r].envelope /\ row.send = req[r].send
      /\ row.lease = None /\ row.state = "reconciliation_required"
  BY <1>2 DEF Rows, RequestStates, Reconcilable, Interrupted
<1> HIDE DEF row
<1>4. RowFits(r, row)
  BY <1>3, Edited, Open
<1>5. \A w \in Workers : TokenKept(w, req[r], row, provider[r], provider[r])
  BY <1>2, <1>3, Tokens
<1> QED
  BY <1>1, <1>4, <1>5, TransactKeeps

LEMMA ReplayReconcileStep ==
  ASSUME EInv, NEW r \in Requests, NEW k \in ReconcileKeys, ReplayReconcile(r, k)
  PROVE  EInv' /\ Moves
<1> DEFINE row == [req[r] EXCEPT !.lease = None, !.reconcile[k] = "failed"]
<1>1. Transact(r, row) /\ UNCHANGED <<provider, calls, work, now>>
  BY DEF ReplayReconcile
<1>2. req[r] \in Rows
  BY Types
<1>3. /\ row \in Rows /\ row.envelope = req[r].envelope /\ row.send = req[r].send
      /\ row.lease = None /\ row.state = req[r].state
  BY <1>2 DEF Rows, KeyStates
<1> HIDE DEF row
<1>4. RowFits(r, row)
  BY <1>3, Edited, Open DEF Out, Terminal, Refused
<1>5. \A w \in Workers : TokenKept(w, req[r], row, provider[r], provider[r])
  BY <1>2, <1>3, Tokens
<1> QED
  BY <1>1, <1>4, <1>5, TransactKeeps

-----------------------------------------------------------------------------
(* Workers *)

LEMMA Busy ==
  ASSUME EInv, NEW w \in Workers, work[w].pc # "idle"
  PROVE  /\ work[w] \in Jobs /\ work[w].req \in Requests
         /\ JobOK(w, work[w], req[work[w].req], provider[work[w].req])
         /\ req[work[w].req] \in Rows /\ provider[work[w].req] \in Envelopes
BY Types DEF JobFits

LEMMA ClaimKeeps ==
  ASSUME EInv, NEW w \in Workers, NEW r \in Requests, NEW row, NEW kind, NEW j \in Jobs,
         Transact(r, row), RowFits(r, row), row.lease = Lease(kind, w), j.req = r,
         JobOK(w, j, row, provider[r]), JobOK(w, j, req[r], provider[r]),
         work' = [work EXCEPT ![w] = j], UNCHANGED <<provider, calls, now>>
  PROVE  EInv' /\ Moves
<1>1. /\ work' \in [Workers -> Jobs] /\ work'[w] = j
      /\ \A v \in Workers : v # w => work'[v] = work[v]
  BY Types
<1>2. \A v \in Workers : v # w => TokenKept(v, req[r], row, provider[r], provider[r])
  BY Types, Tokens DEF RowFits
<1>3. CASE UNCHANGED req
  <2>1. JobFits(w)'
    BY <1>1, <1>3 DEF JobFits
  <2> QED
    BY <1>1, <1>3, <2>1, Types, WorkKeeps
<1>4. CASE req' = [req EXCEPT ![r] = row] /\ (row.state \in NeedsEnvelope => row.envelope)
  <2>1. req'[r] = row
    BY <1>4, Types
  <2>2. JobFits(w)'
    BY <1>1, <2>1 DEF JobFits
  <2>3. \A v \in Workers :
          \/ work'[v] = work[v] /\ TokenKept(v, req[r], row, provider[r], provider[r])
          \/ JobFits(v)'
    BY <1>1, <1>2, <2>2
  <2> QED
    BY <1>1, <1>4, <2>3, RowKeeps
<1> QED
  BY <1>3, <1>4, Written, Types

\* A worker that has claimed.
Started(pc, r, k) == [Idle EXCEPT !.pc = pc, !.req = r, !.key = k]

LEMMA StartFits ==
  ASSUME NEW pc \in Phases, NEW r \in Requests, NEW k \in SendKeys \cup ReconcileKeys
  PROVE  /\ Started(pc, r, k) \in Jobs
         /\ Started(pc, r, k).pc = pc /\ Started(pc, r, k).req = r
         /\ Started(pc, r, k).key = k /\ Started(pc, r, k).read = None
<1>1. Idle \in Jobs /\ Idle.read = None
  BY EnvelopeAssumption DEF Idle, Jobs, Phases
<1> QED
  BY <1>1 DEF Started, Jobs

LEMMA ClaimSendStep ==
  ASSUME EInv, NEW w \in Handlers, NEW r \in Requests, NEW k \in SendKeys, ClaimSend(w, r, k)
  PROVE  EInv' /\ Moves
<1> DEFINE row == [req[r] EXCEPT !.state = "provider_pending", !.lease = Lease("send", w),
                                 !.send[k] = "in_progress"]
           pc == IF req[r].state = "approved" THEN "resolve" ELSE "resolveDraft"
           j == Started(pc, r, k)
<1>1. /\ \/ req[r].state = "approved" /\ req[r].send[k] = "unused"
         \/ req[r].state = "draft_created" /\ req[r].send[k] \in {"unused", "failed"}
      /\ Transact(r, row) /\ work' = [work EXCEPT ![w] = j]
      /\ UNCHANGED <<provider, calls, now>>
  BY DEF ClaimSend, Start, Started
<1>2. w \in Workers /\ req[r] \in Rows /\ Lease("send", w) \in Leases
  BY Types DEF Workers, Lease, Leases
<1>3. /\ row \in Rows /\ row.envelope = req[r].envelope
      /\ row.send = [req[r].send EXCEPT ![k] = "in_progress"]
      /\ row.lease = Lease("send", w) /\ row.state = "provider_pending"
  BY <1>2 DEF Rows, RequestStates, KeyStates
<1>4. j \in Jobs /\ j.pc = pc /\ j.req = r /\ j.key = k /\ j.read = None
  BY StartFits DEF Phases
<1> HIDE DEF row, j
<1>5. \A q \in SendKeys : row.send[q] = "succeeded" <=> req[r].send[q] = "succeeded"
  BY <1>1, <1>2, <1>3 DEF Rows
<1>6. RowFits(r, row)
  <2>1. req[r].state \in Unsent /\ req[r].state \notin Out
    BY <1>1 DEF Unsent, Out, Terminal, Refused
  <2>2. StateOK(row.state, SentOnce(req[r]), provider[r])
    BY <1>3, <2>1, Open
  <2> QED
    BY <1>3, <1>5, <2>1, <2>2, Edited
<1>7. /\ req[r].state = "approved" => provider[r].creates = 0
      /\ req[r].state = "draft_created" => req[r].envelope
  BY Types DEF RowOK, StateOK, NeedsEnvelope
<1>8. JobOK(w, j, row, provider[r]) /\ JobOK(w, j, req[r], provider[r])
  BY <1>1, <1>3, <1>4, <1>7 DEF JobOK, Sending, Reconciling
<1> QED
  BY <1>1, <1>2, <1>3, <1>4, <1>6, <1>8, ClaimKeeps

LEMMA ClaimReconcileStep ==
  ASSUME EInv, NEW w \in Handlers, NEW r \in Requests, NEW k \in ReconcileKeys,
         ClaimReconcile(w, r, k)
  PROVE  EInv' /\ Moves
<1> DEFINE row == [req[r] EXCEPT !.lease = Lease("reconcile", w),
                                 !.reconcile[k] = "in_progress"]
           j == Started("finding", r, k)
<1>1. /\ Transact(r, row) /\ work' = [work EXCEPT ![w] = j]
      /\ UNCHANGED <<provider, calls, now>>
  BY DEF ClaimReconcile, Start, Started
<1>2. w \in Workers /\ req[r] \in Rows /\ Lease("reconcile", w) \in Leases
  BY Types DEF Workers, Lease, Leases
<1>3. /\ row \in Rows /\ row.envelope = req[r].envelope /\ row.send = req[r].send
      /\ row.lease = Lease("reconcile", w) /\ row.state = req[r].state
  BY <1>2 DEF Rows, KeyStates
<1>4. j \in Jobs /\ j.pc = "finding" /\ j.req = r /\ j.key = k /\ j.read = None
  BY StartFits DEF Phases
<1> HIDE DEF row, j
<1>5. RowFits(r, row)
  BY <1>3, Edited, Open DEF Out, Terminal, Refused
<1>6. JobOK(w, j, row, provider[r]) /\ JobOK(w, j, req[r], provider[r])
  BY <1>4 DEF JobOK, Sending, Reconciling
<1> QED
  BY <1>1, <1>2, <1>3, <1>4, <1>5, <1>6, ClaimKeeps

LEMMA ClaimPollStep ==
  ASSUME EInv, NEW w \in Pollers, NEW r \in Requests, ClaimPoll(w, r)
  PROVE  EInv' /\ Moves
<1> DEFINE row == [req[r] EXCEPT !.pollDue = FALSE, !.lease = Lease("poll", w)]
           j == [Idle EXCEPT !.pc = "polling", !.req = r, !.time = now]
<1>1. /\ Transact(r, row) /\ work' = [work EXCEPT ![w] = j] /\ req[r].envelope
      /\ UNCHANGED <<provider, calls, now>>
  BY DEF ClaimPoll
<1>2. w \in Workers /\ req[r] \in Rows /\ Lease("poll", w) \in Leases
  BY Types DEF Workers, Lease, Leases
<1>3. /\ row \in Rows /\ row.envelope = req[r].envelope /\ row.send = req[r].send
      /\ row.lease = Lease("poll", w) /\ row.state = req[r].state
  BY <1>2 DEF Rows
<1>4. j \in Jobs /\ j.pc = "polling" /\ j.req = r
  BY Types DEF Idle, Jobs, Phases
<1> HIDE DEF row, j
<1>5. RowFits(r, row)
  BY <1>3, Edited, Open DEF Out, Terminal, Refused
<1>6. provider[r].status # "none"
  BY <1>1, Types DEF RowOK
<1>7. JobOK(w, j, row, provider[r]) /\ JobOK(w, j, req[r], provider[r])
  BY <1>4, <1>6 DEF JobOK, Sending, Reconciling
<1> QED
  BY <1>1, <1>2, <1>3, <1>4, <1>5, <1>7, ClaimKeeps

\* Under its send lease a worker's request is pending.
LEMMA ResolveFailsStep ==
  ASSUME EInv, NEW w \in Workers, ResolveFails(w) PROVE EInv' /\ Moves
<1> DEFINE r == work[w].req
           k == work[w].key
           row == [req[r] EXCEPT !.state = "approved", !.lease = None, !.send[k] = "failed"]
<1>1. /\ work[w].pc \in {"resolve", "resolveDraft"} /\ UnderSendLease(w, row)
      /\ Stop(w) /\ UNCHANGED <<provider, calls, now>>
  BY DEF ResolveFails
<1>2. r \in Requests /\ req[r] \in Rows /\ JobOK(w, work[w], req[r], provider[r])
  BY <1>1, Busy
<1>3. k \in SendKeys
  BY <1>1, <1>2 DEF JobOK, Sending
<1>4. /\ row \in Rows /\ row.envelope = req[r].envelope
      /\ row.send = [req[r].send EXCEPT ![k] = "failed"]
      /\ row.lease = None /\ row.state = "approved"
  BY <1>2, <1>3 DEF Rows, RequestStates, KeyStates
<1>5. UnderSendLease(w, row) => IF HoldsSend(req[r], w) THEN Transact(r, row) ELSE UNCHANGED req
  BY DEF UnderSendLease
<1> HIDE DEF row, k, r
<1>6. CASE ~HoldsSend(req[r], w)
  BY <1>1, <1>5, <1>6, StopKeeps
<1>7. CASE HoldsSend(req[r], w)
  <2>1. req[r].state = "provider_pending" /\ HasToken(req[r], "send", w) /\ ~SentOnce(req[r])
    BY <1>2, <1>7, Open DEF HoldsSend, Unsent
  <2>2. \A q \in SendKeys : row.send[q] = "succeeded" <=> req[r].send[q] = "succeeded"
    BY <1>2, <1>4, <2>1 DEF Rows, SentOnce
  <2>3. ~row.envelope => provider[r].creates = 0
    BY <1>1, <1>2, <1>4, <2>1 DEF JobOK
  <2>4. ~row.envelope => StateOK("approved", SentOnce(req[r]), provider[r])
    BY <2>1, <2>3, States DEF StateOK, Statuses, Refused
  <2>5. ASSUME ~row.envelope PROVE RowFits(r, row)
    <3>1. req[r].state \notin Out
      BY <2>1 DEF Out, Terminal, Refused
    <3>2. StateOK(row.state, SentOnce(req[r]), provider[r])
      BY <1>4, <2>4, <2>5
    <3>3. row \in Rows /\ row.envelope = req[r].envelope
      BY <1>4
    <3> QED
      BY <1>2, <2>2, <3>1, <3>2, <3>3, Edited
  <2>6. \A v \in Workers : TokenKept(v, req[r], row, provider[r], provider[r])
    BY <1>2, <1>4, Tokens
  <2> QED
    BY <1>1, <1>2, <1>4, <1>5, <1>7, <2>5, <2>6, LastKeeps
<1> QED
  BY <1>6, <1>7

LEMMA SendPersistedStep ==
  ASSUME EInv, NEW w \in Workers, SendPersisted(w) PROVE EInv' /\ Moves
<1> DEFINE r == work[w].req
           k == work[w].key
           row == [req[r] EXCEPT !.state = "sent", !.lease = None, !.send[k] = "succeeded"]
<1>1. /\ work[w].pc = "sending" /\ work[w].read = "ok" /\ UnderSendLease(w, row)
      /\ Stop(w) /\ UNCHANGED <<provider, calls, now>>
  BY DEF SendPersisted
<1>2. /\ r \in Requests /\ req[r] \in Rows /\ JobOK(w, work[w], req[r], provider[r])
      /\ provider[r] \in Envelopes
  BY <1>1, Busy
<1>3. k \in SendKeys /\ Reached(provider[r].status, "sent")
  BY <1>1, <1>2 DEF JobOK, Sending
<1>4. /\ row \in Rows /\ row.envelope = req[r].envelope
      /\ row.send = [req[r].send EXCEPT ![k] = "succeeded"]
      /\ row.lease = None /\ row.state = "sent"
  BY <1>2, <1>3 DEF Rows, RequestStates, Reconcilable, KeyStates
<1>5. UnderSendLease(w, row) => IF HoldsSend(req[r], w) THEN Transact(r, row) ELSE UNCHANGED req
  BY DEF UnderSendLease
<1> HIDE DEF row, k, r
<1>6. CASE ~HoldsSend(req[r], w)
  BY <1>1, <1>5, <1>6, StopKeeps
<1>7. CASE HoldsSend(req[r], w)
  <2>1. \A q \in SendKeys : req[r].send[q] = "succeeded" => row.send[q] = "succeeded"
    BY <1>2, <1>4 DEF Rows
  <2>2. row.envelope => provider[r].status # "none"
    BY <1>2, <1>4, Types DEF RowOK
  <2>3. StateOK(row.state, SentOnce(row), provider[r])
    BY <1>3, <1>4, States DEF StateOK, Statuses, Refused, Unsent
  <2>4. RowFits(r, row)
    BY <1>4, <2>1, <2>2, <2>3 DEF RowFits, RowMoves
  <2>5. \A v \in Workers : TokenKept(v, req[r], row, provider[r], provider[r])
    BY <1>2, <1>4, Tokens
  <2> QED
    BY <1>1, <1>2, <1>5, <1>7, <2>4, <2>5, LastKeeps
<1> QED
  BY <1>6, <1>7

LEMMA ProviderFailsStep ==
  ASSUME EInv, NEW w \in Workers, ProviderFails(w) PROVE EInv' /\ Moves
<1> DEFINE r == work[w].req
           k == work[w].key
           row == FailedRow(req[r], k, work[w].read = "rejected")
<1>1. /\ work[w].pc \in {"creating", "sending"} /\ UnderSendLease(w, row)
      /\ Stop(w) /\ UNCHANGED <<provider, calls, now>>
  BY DEF ProviderFails
<1>2. r \in Requests /\ req[r] \in Rows /\ JobOK(w, work[w], req[r], provider[r])
  BY <1>1, Busy
<1>3. k \in SendKeys
  BY <1>1, <1>2 DEF JobOK, Sending
<1>4. /\ row \in Rows /\ row.envelope = req[r].envelope
      /\ row.send = [req[r].send EXCEPT ![k] = "failed"]
      /\ row.lease = None /\ row.state \in {"provider_blocked", "reconciliation_required"}
  BY <1>2, <1>3 DEF FailedRow, Rows, RequestStates, Reconcilable, Terminal, KeyStates
<1>5. UnderSendLease(w, row) => IF HoldsSend(req[r], w) THEN Transact(r, row) ELSE UNCHANGED req
  BY DEF UnderSendLease
<1> HIDE DEF row, k, r
<1>6. CASE ~HoldsSend(req[r], w)
  BY <1>1, <1>5, <1>6, StopKeeps
<1>7. CASE HoldsSend(req[r], w)
  <2>1. ~SentOnce(req[r])
    BY <1>2, <1>7, Open DEF HoldsSend, Unsent
  <2>2. \A q \in SendKeys : row.send[q] = "succeeded" <=> req[r].send[q] = "succeeded"
    BY <1>2, <1>4, <2>1 DEF Rows, SentOnce
  <2>3. RowFits(r, row)
    <3>1. StateOK(row.state, SentOnce(req[r]), provider[r])
      BY <1>2, <1>4, Open
    <3> QED
      BY <1>2, <1>4, <2>2, <3>1, Edited
  <2>4. \A v \in Workers : TokenKept(v, req[r], row, provider[r], provider[r])
    BY <1>2, <1>4, Tokens
  <2> QED
    BY <1>1, <1>2, <1>5, <1>7, <2>3, <2>4, LastKeeps
<1> QED
  BY <1>6, <1>7

\* One worker goes on, and nothing else changes.
LEMMA OneKeeps ==
  ASSUME EInv, NEW w \in Workers, NEW j \in Jobs, work' = [work EXCEPT ![w] = j],
         JobOK(w, j, req[j.req], provider[j.req]), UNCHANGED <<req, provider, calls, now>>
  PROVE  EInv' /\ Moves
<1>1. /\ work' \in [Workers -> Jobs]
      /\ \A v \in Workers : work'[v] = work[v] \/ (v = w /\ work'[v] = j)
  BY Types
<1>2. \A v \in Workers : work'[v] = work[v] \/ JobFits(v)'
  BY <1>1 DEF JobFits
<1> QED
  BY <1>1, <1>2, Types, WorkKeeps

LEMMA DraftPersistedStep ==
  ASSUME EInv, NEW w \in Workers, DraftPersisted(w) PROVE EInv' /\ Moves
<1> DEFINE r == work[w].req
           row == [req[r] EXCEPT !.envelope = TRUE]
           j == [work[w] EXCEPT !.pc = "drafted", !.read = None]
<1>1. /\ work[w].pc = "creating" /\ work[w].read = "ok" /\ UnderSendLease(w, row)
      /\ UNCHANGED <<provider, calls, now>>
      /\ IF HoldsSend(req[r], w)
         THEN work' = [work EXCEPT ![w].pc = "drafted", ![w].read = None]
         ELSE Stop(w)
  BY DEF DraftPersisted
<1>2. /\ r \in Requests /\ req[r] \in Rows /\ JobOK(w, work[w], req[r], provider[r])
      /\ work[w] \in Jobs
  BY <1>1, Busy
<1>3. work[w].key \in SendKeys /\ provider[r].status # "none"
  BY <1>1, <1>2 DEF JobOK, Sending
<1>4. /\ row \in Rows /\ row.envelope = TRUE /\ row.send = req[r].send
      /\ row.lease = req[r].lease /\ row.state = req[r].state
  BY <1>2 DEF Rows
<1>5. j \in Jobs /\ j.pc = "drafted" /\ j.req = r /\ j.key = work[w].key /\ j.read = None
  BY <1>2 DEF Jobs, Phases
<1>6. UnderSendLease(w, row) => IF HoldsSend(req[r], w) THEN Transact(r, row) ELSE UNCHANGED req
  BY DEF UnderSendLease
<1>7. HoldsSend(req[r], w) => work' = [work EXCEPT ![w] = j]
  BY <1>1, Types
<1> HIDE DEF row, j, r
<1>8. CASE ~HoldsSend(req[r], w)
  BY <1>1, <1>6, <1>8, StopKeeps
<1>9. CASE HoldsSend(req[r], w)
  <2>1. \A q : JobOK(w, j, q, provider[r])
    BY <1>2, <1>3, <1>5 DEF JobOK, Sending, Reconciling
  <2>2. CASE UNCHANGED req
    BY <1>1, <1>5, <1>7, <1>9, <2>1, <2>2, OneKeeps
  <2>3. CASE req' = [req EXCEPT ![r] = row] /\ (row.state \in NeedsEnvelope => row.envelope)
    <3>1. /\ work' \in [Workers -> Jobs]
          /\ \A v \in Workers : work'[v] = work[v] \/ (v = w /\ work'[v] = j)
      BY <1>5, <1>7, <1>9, Types
    <3>2. JobFits(w)' \/ work'[w] = work[w]
      BY <1>1, <1>5, <2>1, <3>1 DEF JobFits
    <3>3. SentOnce(row) => SentOnce(req[r])
      BY <1>4 DEF SentOnce
    <3>4. StateOK(row.state, SentOnce(row), provider[r])
      BY <1>2, <1>4, <3>3, Open DEF StateOK
    <3>5. RowFits(r, row)
      BY <1>2, <1>3, <1>4, <3>4 DEF RowFits, RowMoves, Out, Terminal, Refused
    <3>6. \A v \in Workers : TokenKept(v, req[r], row, provider[r], provider[r])
      BY <1>2, <1>4, <3>3, Tokens
    <3>7. \A v \in Workers :
            \/ work'[v] = work[v] /\ TokenKept(v, req[r], row, provider[r], provider[r])
            \/ JobFits(v)'
      BY <3>1, <3>2, <3>6
    <3> QED
      BY <1>1, <1>2, <2>3, <3>1, <3>5, <3>7, RowKeeps
  <2> QED
    BY <1>2, <1>6, <1>9, <1>1, <2>2, <2>3, Written, Types
<1> QED
  BY <1>8, <1>9

LEMMA BeginStep ==
  ASSUME EInv, NEW w \in Workers, BeginCreate(w) \/ BeginSend(w)
  PROVE  EInv' /\ Moves
<1>1. PICK kind \in {"create", "send"}, pc \in {"creating", "sending"} :
        /\ Begin(w, kind, pc)
        /\ kind = "create" => work[w].pc = "resolve" /\ pc = "creating"
        /\ kind = "send" => work[w].pc \in {"resolveDraft", "drafted"} /\ pc = "sending"
  BY DEF BeginCreate, BeginSend
<1> DEFINE r == work[w].req
           j == [work[w] EXCEPT !.pc = pc]
           m == [kind |-> kind, req |-> r, by |-> w]
           env == [provider[r] EXCEPT !.creates = IF kind = "create" THEN @ + 1 ELSE @]
<1>2. /\ r \in Requests /\ req[r] \in Rows /\ JobOK(w, work[w], req[r], provider[r])
      /\ work[w] \in Jobs /\ provider[r] \in Envelopes
  BY <1>1, Busy
<1>3. CASE ~HoldsSend(req[r], w)
  <2>1. Stop(w) /\ UNCHANGED <<req, provider, calls, now>>
    BY <1>1, <1>3 DEF Begin
  <2> QED
    BY <2>1, StopKeeps
<1>4. CASE HoldsSend(req[r], w)
  <2>1. /\ calls' = calls \cup {m} /\ provider' = [provider EXCEPT ![r] = env]
        /\ work' = [work EXCEPT ![w] = j] /\ UNCHANGED <<req, now>>
    BY <1>1, <1>4, Types DEF Begin
  <2>2. /\ req[r].state = "provider_pending" /\ HasToken(req[r], "send", w)
    BY <1>4 DEF HoldsSend
  <2>3. /\ j \in Jobs /\ j.pc = pc /\ j.req = r /\ j.key = work[w].key
        /\ j.read = work[w].read
    BY <1>2 DEF Jobs, Phases
  <2>4. m \in Calls /\ m.kind = kind /\ m.req = r
    BY <1>2 DEF Calls
  <2>5. /\ env \in Envelopes /\ env.status = provider[r].status
        /\ env.events = provider[r].events
        /\ env.creates = IF kind = "create" THEN provider[r].creates + 1
                         ELSE provider[r].creates
    BY <1>2 DEF Envelopes
  <2>6. kind = "create" => provider[r].creates = 0 /\ provider[r].status = "none"
    BY <1>1, <1>2, <2>2, Types DEF JobOK, EnvelopeOK
  <2>7. kind = "send" => provider[r].status # "none"
    BY <1>1, <1>2, Types DEF JobOK, RowOK
  <2>8. /\ provider' \in [Requests -> Envelopes] /\ provider'[r] = env
        /\ \A q \in Requests : q # r => provider'[q] = provider[q]
    BY <1>2, <2>1, <2>5, Types
  <2>9. /\ work' \in [Workers -> Jobs] /\ work'[w] = j
        /\ \A v \in Workers : v # w => work'[v] = work[v]
    BY <2>1, <2>3, Types
  <2> HIDE DEF j, m, env
  <2>10. JobFits(w)'
    <3>1. work[w].key \in SendKeys /\ work[w].read = None
      BY <1>1, <1>2 DEF JobOK, Sending
    <3>2. JobOK(w, j, req[r], env)
      BY <1>1, <1>2, <2>3, <2>5, <2>7, <3>1, EnvelopeAssumption DEF JobOK, Sending, Reconciling
    <3> QED
      BY <2>1, <2>3, <2>8, <2>9, <3>2 DEF JobFits
  <2>11. ASSUME NEW q \in Requests
         PROVE  /\ RowOK(req[q], provider'[q]) /\ EnvelopeOK(provider'[q])
                /\ EnvMoves(provider[q], provider'[q])
    <3>1. CASE q # r
      BY <2>8, <3>1, Types, SameEnv
    <3>2. CASE q = r
      <4>1. EnvMoves(provider[r], env)
        BY <2>5 DEF EnvMoves
      <4>2. RowOK(req[r], env)
        BY <1>2, <2>2, <2>5, <4>1, RowStays, Types
      <4>3. provider[r].creates = 0 => env.creates <= 1
        BY <2>5
      <4>4. EnvelopeOK(env)
        BY <1>1, <1>2, <2>5, <2>6, <4>3, Types DEF EnvelopeOK
      <4> QED
        BY <2>8, <3>2, <4>1, <4>2, <4>4
    <3> QED
      BY <3>1, <3>2
  <2>12. CallsOK'
    <3>1. CallOK(m, env)
      BY <2>4, <2>5, <2>6, <2>7 DEF CallOK
    <3>2. \A n \in calls : n.req \in Requests /\ CallOK(n, provider[n.req])
      BY Types DEF Calls, CallsOK
    <3>3. \A n \in calls : n.req = r => ~(kind = "create" /\ n.kind = "create")
      BY <2>6, <3>2 DEF CallOK
    <3>4. \A n \in calls : CallOK(n, provider'[n.req])
      <4> SUFFICES ASSUME NEW n \in calls PROVE CallOK(n, provider'[n.req])
        OBVIOUS
      <4>1. CASE n.req # r
        BY <2>8, <3>2, <4>1
      <4>2. CASE n.req = r
        BY <2>5, <2>6, <2>8, <3>2, <3>3, <4>2, <1>1 DEF CallOK
      <4> QED
        BY <4>1, <4>2
    <3>5. \A n \in calls' : CallOK(n, provider'[n.req])
      BY <2>1, <2>4, <2>8, <1>2, <3>1, <3>4
    <3>6. \A n, o \in calls' : n.kind = "create" /\ o.kind = "create" /\ n.req = o.req => n = o
      BY <2>1, <2>4, <3>3, Types DEF CallsOK
    <3> QED
      BY <3>5, <3>6 DEF CallsOK
  <2>13. ASSUME NEW v \in Workers, v # w, NEW q \in Requests
         PROVE  TokenKept(v, req[q], req'[q], provider[q], provider'[q])
    <3>1. CASE q # r
      BY <2>1, <2>8, <3>1, SameRow
    <3>2. CASE q = r
      <4>1. ~HasToken(req[r], "send", v)
        BY <2>2, <2>13 DEF HasToken
      <4> QED
        BY <2>1, <3>2, <4>1 DEF TokenKept
    <3> QED
      BY <3>1, <3>2
  <2>14. calls' \subseteq Calls
    BY <2>1, <2>4, Types
  <2>15. \A v \in Workers :
           \/ /\ work'[v] = work[v]
              /\ \A q \in Requests :
                   TokenKept(v, req[q], req'[q], provider[q], provider'[q])
           \/ JobFits(v)'
    BY <2>9, <2>10, <2>13
  <2>16. req' \in [Requests -> Rows] /\ now' \in 0 .. MaxTime
         /\ \A q \in Requests : req'[q] = req[q] /\ RowMoves(req[q], req'[q])
    BY <2>1, Types, SameRow
  <2> QED
    BY <2>8, <2>9, <2>11, <2>12, <2>14, <2>15, <2>16, Keeps
<1> QED
  BY <1>3, <1>4

LEMMA FindStep == ASSUME EInv, NEW w \in Workers, Find(w) PROVE EInv' /\ Moves
<1> DEFINE r == work[w].req
           j == [work[w] EXCEPT !.pc = "found", !.read = provider[r].status]
<1>1. /\ work[w].pc = "finding" /\ provider[r].status # "none"
      /\ UNCHANGED <<req, provider, calls, now>>
  BY DEF Find
<1>2. /\ r \in Requests /\ JobOK(w, work[w], req[r], provider[r]) /\ work[w] \in Jobs
      /\ provider[r] \in Envelopes
  BY <1>1, Busy
<1>3. work' = [work EXCEPT ![w] = j]
  BY Types DEF Find
<1>4. provider[r].status \in Statuses
  BY <1>2 DEF Envelopes
<1>5. /\ j \in Jobs /\ j.pc = "found" /\ j.req = r /\ j.key = work[w].key
      /\ j.read = provider[r].status
  BY <1>2, <1>4 DEF Jobs, Phases
<1> HIDE DEF j
<1>6. SentOnce(req[r]) => provider[r].status # "created"
  BY <1>2, <1>4, Reaching, Open DEF StateOK
<1>7. ReadOK(j.read, HasToken(req[r], "reconcile", w), req[r], provider[r])
  BY <1>1, <1>4, <1>5, <1>6, Reaching DEF ReadOK
<1>8. JobOK(w, j, req[r], provider[r])
  BY <1>1, <1>2, <1>5, <1>7 DEF JobOK, Sending, Reconciling
<1> QED
  BY <1>1, <1>3, <1>5, <1>8, OneKeeps

LEMMA PollReadStep == ASSUME EInv, NEW w \in Workers, PollRead(w) PROVE EInv' /\ Moves
<1> DEFINE r == work[w].req
           j == [work[w] EXCEPT !.pc = "polled", !.read = provider[r].status]
<1>1. work[w].pc = "polling" /\ UNCHANGED <<req, provider, calls, now>>
  BY DEF PollRead
<1>2. /\ r \in Requests /\ JobOK(w, work[w], req[r], provider[r]) /\ work[w] \in Jobs
      /\ provider[r] \in Envelopes
  BY <1>1, Busy
<1>3. work' = [work EXCEPT ![w] = j]
  BY Types DEF PollRead
<1>4. provider[r].status \in Statuses /\ provider[r].status # "none"
  BY <1>1, <1>2 DEF Envelopes, JobOK
<1>5. /\ j \in Jobs /\ j.pc = "polled" /\ j.req = r /\ j.read = provider[r].status
  BY <1>2, <1>4 DEF Jobs, Phases
<1> HIDE DEF j
<1>6. SentOnce(req[r]) => provider[r].status # "created"
  BY <1>2, <1>4, Reaching, Open DEF StateOK
<1>7. ReadOK(j.read, HasToken(req[r], "poll", w), req[r], provider[r])
  BY <1>4, <1>5, <1>6, Reaching DEF ReadOK
<1>8. JobOK(w, j, req[r], provider[r])
  BY <1>2, <1>5, <1>7 DEF JobOK, Sending, Reconciling
<1> QED
  BY <1>1, <1>3, <1>5, <1>8, OneKeeps

LEMMA FoundRecordedStep == ASSUME EInv, NEW w \in Workers, FoundRecorded(w) PROVE EInv' /\ Moves
<1> DEFINE r == work[w].req
           k == work[w].key
           e == Stamped(req[r], work[w].read)
           p == Project(req[r], e)
           row == [p EXCEPT !.envelope = TRUE, !.lease = None, !.reconcile[k] = "succeeded"]
<1>1. /\ work[w].pc = "found" /\ Stop(w) /\ UNCHANGED <<provider, calls, now>>
      /\ IF HoldsReconcile(req[r], w) THEN Transact(r, row) ELSE UNCHANGED req
  BY DEF FoundRecorded
<1>2. /\ r \in Requests /\ JobOK(w, work[w], req[r], provider[r])
      /\ req[r] \in Rows /\ provider[r] \in Envelopes
  BY <1>1, Busy
<1> HIDE DEF r
<1>3. CASE ~HoldsReconcile(req[r], w)
  BY <1>1, <1>3, StopKeeps
<1>4. CASE HoldsReconcile(req[r], w)
  <2>1. /\ work[w].read \in Statuses \ {"none"} /\ Reached(provider[r].status, work[w].read)
        /\ SentOnce(req[r]) => work[w].read # "created"
        /\ k \in ReconcileKeys
    BY <1>1, <1>2, <1>4 DEF JobOK, ReadOK, HoldsReconcile, Reconciling
  <2>2. e \in Cursors /\ e.status = work[w].read
    <3>1. req[r].cursor = None \/ req[r].cursor \in Cursors
      BY <1>2 DEF Rows
    <3>2. now \in 0 .. MaxTime
      BY Types
    <3> QED
      BY <2>1, <3>1, <3>2 DEF Stamped, Cursors
  <2> HIDE DEF e
  <2>3. /\ p \in Rows /\ p.envelope = req[r].envelope /\ p.send = req[r].send
        /\ StateOK(p.state, SentOnce(req[r]), provider[r])
        /\ req[r].state \in Out =>
             p.state \notin {"approved", "draft_created", "provider_pending"}
    BY <1>2, <2>1, <2>2, Open, ProjectFits
  <2> HIDE DEF p
  <2>4. /\ row \in Rows /\ row.envelope = TRUE /\ row.send = req[r].send
        /\ row.lease = None /\ row.state = p.state
    BY <2>1, <2>3 DEF Rows, KeyStates
  <2> HIDE DEF row
  <2>5. provider[r].status # "none"
    BY <1>2, <2>1, Reaching DEF Envelopes
  <2>6. SentOnce(row) => SentOnce(req[r])
    BY <2>4 DEF SentOnce
  <2>7. StateOK(row.state, SentOnce(row), provider[r])
    BY <2>3, <2>4, <2>6 DEF StateOK
  <2>8. RowFits(r, row)
    BY <2>3, <2>4, <2>5, <2>7 DEF RowFits, RowMoves
  <2>9. \A v \in Workers : TokenKept(v, req[r], row, provider[r], provider[r])
    BY <1>2, <2>4, Tokens
  <2> QED
    BY <1>1, <1>2, <1>4, <2>8, <2>9, LastKeeps
<1> QED
  BY <1>3, <1>4

LEMMA FindFailsStep == ASSUME EInv, NEW w \in Workers, FindFails(w) PROVE EInv' /\ Moves
<1> DEFINE r == work[w].req
           k == work[w].key
           row == [req[r] EXCEPT !.lease = None, !.reconcile[k] = "failed"]
<1>1. /\ work[w].pc \in {"finding", "found"} /\ Stop(w) /\ UNCHANGED <<provider, calls, now>>
      /\ IF HoldsReconcile(req[r], w) THEN Transact(r, row) ELSE UNCHANGED req
  BY DEF FindFails
<1>2. /\ r \in Requests /\ JobOK(w, work[w], req[r], provider[r]) /\ req[r] \in Rows
  BY <1>1, Busy
<1>3. k \in ReconcileKeys
  BY <1>1, <1>2 DEF JobOK, Reconciling
<1>4. /\ row \in Rows /\ row.envelope = req[r].envelope /\ row.send = req[r].send
      /\ row.lease = None /\ row.state = req[r].state
  BY <1>2, <1>3 DEF Rows, KeyStates
<1> HIDE DEF row, r, k
<1>5. RowFits(r, row)
  BY <1>2, <1>4, Edited, Open DEF Out, Terminal, Refused
<1>6. \A v \in Workers : TokenKept(v, req[r], row, provider[r], provider[r])
  BY <1>2, <1>4, Tokens
<1>7. CASE HoldsReconcile(req[r], w)
  BY <1>1, <1>2, <1>5, <1>6, <1>7, LastKeeps
<1>8. CASE ~HoldsReconcile(req[r], w)
  BY <1>1, <1>8, StopKeeps
<1> QED
  BY <1>7, <1>8

LEMMA PollRecordedStep == ASSUME EInv, NEW w \in Workers, PollRecorded(w) PROVE EInv' /\ Moves
<1> DEFINE r == work[w].req
           e == [status |-> work[w].read, time |-> work[w].time, seq |-> None]
           p == Project(req[r], e)
           row == [p EXCEPT !.lease = None]
<1>1. /\ work[w].pc = "polled" /\ Stop(w) /\ UNCHANGED <<provider, calls, now>>
      /\ IF HasToken(req[r], "poll", w) THEN Transact(r, row) ELSE UNCHANGED req
  BY DEF PollRecorded, UnderPollToken
<1>2. /\ r \in Requests /\ JobOK(w, work[w], req[r], provider[r])
      /\ req[r] \in Rows /\ provider[r] \in Envelopes /\ work[w] \in Jobs
  BY <1>1, Busy
<1> HIDE DEF r
<1>3. CASE ~HasToken(req[r], "poll", w)
  BY <1>1, <1>3, StopKeeps
<1>4. CASE HasToken(req[r], "poll", w)
  <2>1. /\ work[w].read \in Statuses \ {"none"} /\ Reached(provider[r].status, work[w].read)
        /\ SentOnce(req[r]) => work[w].read # "created"
    BY <1>1, <1>2, <1>4 DEF JobOK, ReadOK
  <2>2. e \in Cursors /\ e.status = work[w].read
    BY <1>2, <2>1 DEF Jobs, Cursors
  <2> HIDE DEF e
  <2>3. /\ p \in Rows /\ p.envelope = req[r].envelope /\ p.send = req[r].send
        /\ StateOK(p.state, SentOnce(req[r]), provider[r])
        /\ req[r].state \in Out =>
             p.state \notin {"approved", "draft_created", "provider_pending"}
    BY <1>2, <2>1, <2>2, Open, ProjectFits
  <2> HIDE DEF p
  <2>4. /\ row \in Rows /\ row.envelope = req[r].envelope /\ row.send = req[r].send
        /\ row.lease = None /\ row.state = p.state
    BY <2>3 DEF Rows
  <2> HIDE DEF row
  <2>5. RowFits(r, row)
    BY <1>2, <2>3, <2>4, Edited
  <2>6. \A v \in Workers : TokenKept(v, req[r], row, provider[r], provider[r])
    BY <1>2, <2>4, Tokens
  <2> QED
    BY <1>1, <1>2, <1>4, <2>5, <2>6, LastKeeps
<1> QED
  BY <1>3, <1>4

LEMMA PollFailsStep == ASSUME EInv, NEW w \in Workers, PollFails(w) PROVE EInv' /\ Moves
<1> DEFINE r == work[w].req
           row == [req[r] EXCEPT !.lease = None]
<1>1. /\ work[w].pc = "polling" /\ Stop(w) /\ UNCHANGED <<provider, calls, now>>
      /\ IF HasToken(req[r], "poll", w) THEN Transact(r, row) ELSE UNCHANGED req
  BY DEF PollFails, UnderPollToken
<1>2. r \in Requests /\ req[r] \in Rows
  BY <1>1, Busy
<1>3. /\ row \in Rows /\ row.envelope = req[r].envelope /\ row.send = req[r].send
      /\ row.lease = None /\ row.state = req[r].state
  BY <1>2 DEF Rows
<1> HIDE DEF row, r
<1>4. RowFits(r, row)
  BY <1>2, <1>3, Edited, Open DEF Out, Terminal, Refused
<1>5. \A v \in Workers : TokenKept(v, req[r], row, provider[r], provider[r])
  BY <1>2, <1>3, Tokens
<1>6. CASE HasToken(req[r], "poll", w)
  BY <1>1, <1>2, <1>4, <1>5, <1>6, LastKeeps
<1>7. CASE ~HasToken(req[r], "poll", w)
  BY <1>1, <1>7, StopKeeps
<1> QED
  BY <1>6, <1>7

-----------------------------------------------------------------------------
(* The provider, time and failures *)

\* The envelope goes on: what was known of it stays true.
LEMMA EnvKeeps ==
  ASSUME EInv, NEW r \in Requests, NEW env \in Envelopes,
         provider' = [provider EXCEPT ![r] = env],
         EnvMoves(provider[r], env), env.creates = provider[r].creates, EnvelopeOK(env),
         UNCHANGED <<req, now>>, calls' \subseteq calls,
         \A m \in calls' : m.req = r => CallOK(m, env),
         work' \in [Workers -> Jobs],
         \A w \in Workers : work'[w] = work[w] \/ JobFits(w)'
  PROVE  EInv' /\ Moves
<1>1. /\ provider' \in [Requests -> Envelopes] /\ provider'[r] = env
      /\ \A q \in Requests : q # r => provider'[q] = provider[q]
  BY Types
<1>2. ASSUME NEW q \in Requests
      PROVE  /\ RowOK(req[q], provider'[q]) /\ EnvelopeOK(provider'[q])
             /\ EnvMoves(provider[q], provider'[q])
             /\ provider'[q].creates = provider[q].creates
  <2>1. CASE q = r
    BY <1>1, <2>1, Types, RowStays
  <2>2. CASE q # r
    BY <1>1, <2>2, Types, SameEnv
  <2> QED
    BY <2>1, <2>2
<1>3. CallsOK'
  <2>1. \A m \in calls' : CallOK(m, provider'[m.req])
    BY <1>1, Types DEF CallsOK, Calls
  <2>2. \A m, n \in calls' : m.kind = "create" /\ n.kind = "create" /\ m.req = n.req => m = n
    BY Types DEF CallsOK
  <2> QED
    BY <2>1, <2>2 DEF CallsOK
<1>4. \A w \in Workers, q \in Requests :
        TokenKept(w, req[q], req'[q], provider[q], provider'[q])
  BY <1>2 DEF TokenKept
<1>5. \A q \in Requests : req'[q] = req[q] /\ RowMoves(req[q], req'[q])
  BY SameRow
<1>6. calls' \subseteq Calls /\ now' \in 0 .. MaxTime /\ req' \in [Requests -> Rows]
  BY Types
<1> QED
  BY <1>1, <1>2, <1>3, <1>4, <1>5, <1>6, Keeps

\* An answer that says the call was carried out comes after it was.
LEMMA Answered ==
  ASSUME EInv, NEW m \in calls, NEW answer \in {"ok", "rejected"}, Answer(m, answer),
         UNCHANGED req, provider' \in [Requests -> Envelopes],
         \A r \in Requests :
           EnvMoves(provider[r], provider'[r]) /\ provider'[r].creates = provider[r].creates,
         answer = "ok" => IF m.kind = "create" THEN provider'[m.req].status # "none"
                          ELSE Reached(provider'[m.req].status, "sent")
  PROVE  /\ work' \in [Workers -> Jobs]
         /\ \A w \in Workers : work'[w] = work[w] \/ JobFits(w)'
<1>1. m \in Calls /\ m.by \in Workers /\ m.req \in Requests /\ m.kind \in {"create", "send"}
  BY Types DEF Calls
<1> DEFINE pc == IF m.kind = "create" THEN "creating" ELSE "sending"
           waits == work[m.by].req = m.req /\ work[m.by].pc = pc
           w == m.by
           j == [work[w] EXCEPT !.read = answer]
<1>2. CASE ~waits
  <2>1. work' = work
    BY <1>2 DEF Answer
  <2> QED
    BY <2>1, Types
<1>3. CASE waits
  <2>1. work' = [work EXCEPT ![w] = j]
    BY <1>3, Types, <1>1 DEF Answer
  <2>2. /\ work[w] \in Jobs /\ JobOK(w, work[w], req[m.req], provider[m.req])
        /\ work[w].pc = pc /\ pc \in {"creating", "sending"} /\ work[w].req = m.req
    BY <1>1, <1>3, Busy
  <2>3. /\ j \in Jobs /\ j.pc = pc /\ j.req = m.req /\ j.key = work[w].key /\ j.read = answer
    BY <2>2 DEF Jobs
  <2> HIDE DEF j
  <2>4. JobOK(w, work[w], req[m.req], provider'[m.req])
    <3>1. TokenKept(w, req[m.req], req[m.req], provider[m.req], provider'[m.req])
      BY <1>1 DEF TokenKept
    <3> QED
      BY <1>1, <2>2, <3>1, JobStays, SameRow, Types
  <2>5. JobOK(w, j, req[m.req], provider'[m.req])
    <3>1. pc = "creating" /\ answer = "ok" => provider'[m.req].status # "none"
      BY <1>1
    <3>2. pc = "sending" /\ answer = "ok" => Reached(provider'[m.req].status, "sent")
      BY <1>1
    <3> HIDE DEF pc
    <3> QED
      BY <2>2, <2>3, <2>4, <3>1, <3>2 DEF JobOK, Sending, Reconciling
  <2>6. /\ work' \in [Workers -> Jobs] /\ work'[w] = j
        /\ \A v \in Workers : v # w => work'[v] = work[v]
    BY <1>1, <2>1, <2>3, Types
  <2>7. JobFits(w)'
    BY <2>3, <2>5, <2>6, <1>1 DEF JobFits
  <2> QED
    BY <2>6, <2>7
<1> QED
  BY <1>2, <1>3

LEMMA CallEnds ==
  ASSUME EInv, NEW m \in calls, calls' = calls \ {m}, UNCHANGED <<req, provider, now>>,
         Answer(m, "rejected") \/ UNCHANGED work
  PROVE  EInv' /\ Moves
<1>1. /\ m \in Calls /\ m.req \in Requests
      /\ provider' \in [Requests -> Envelopes]
      /\ \A r \in Requests :
           EnvMoves(provider[r], provider'[r]) /\ provider'[r].creates = provider[r].creates
  BY Types, SameEnv DEF Calls
<1>2. /\ work' \in [Workers -> Jobs]
      /\ \A w \in Workers : work'[w] = work[w] \/ JobFits(w)'
  <2>1. CASE Answer(m, "rejected")
    BY <1>1, <2>1, Answered
  <2>2. CASE UNCHANGED work
    BY <2>2, Types
  <2> QED
    BY <2>1, <2>2
<1>3. provider' = [provider EXCEPT ![m.req] = provider[m.req]]
  BY <1>1, Types
<1>4. \A n \in calls' : n.req = m.req => CallOK(n, provider[m.req])
  BY Types DEF CallsOK
<1> QED
  BY <1>1, <1>2, <1>3, <1>4, Types, SameEnv, EnvKeeps

LEMMA ProviderCreatesStep ==
  ASSUME EInv, NEW m \in calls, ProviderCreates(m) PROVE EInv' /\ Moves
<1> DEFINE r == m.req
           env == [provider[r] EXCEPT !.status = "created"]
<1>1. /\ m.kind = "create" /\ calls' = calls \ {m} /\ Answer(m, "ok") /\ UNCHANGED <<req, now>>
  BY DEF ProviderCreates
<1>2. provider' = [provider EXCEPT ![r] = env]
  BY Types DEF ProviderCreates
<1>3. m \in Calls /\ r \in Requests /\ provider[r] \in Envelopes
  BY Types DEF Calls
<1>4. /\ env \in Envelopes /\ env.status = "created"
      /\ env.events = provider[r].events /\ env.creates = provider[r].creates
  BY <1>3 DEF Envelopes, Statuses
<1>5. provider[r].status = "none" /\ provider[r].creates = 1
  BY <1>1, Types DEF CallsOK, CallOK
<1> HIDE DEF env
<1>6. EnvMoves(provider[r], env)
  BY <1>4, <1>5, Ranks, MovesOn DEF EnvMoves, Statuses, Refused
<1>7. EnvelopeOK(env)
  <2>1. \A e \in env.events : e.status \in Statuses
    BY <1>3, <1>4, Types DEF EnvelopeOK, EventStatuses
  <2> QED
    BY <1>3, <1>4, <1>5, <1>6, <2>1, Types DEF EnvelopeOK, EnvMoves
<1>8. \A n \in calls' : n.req = r => CallOK(n, env)
  <2>1. \A n \in calls' : n.req = r => n.kind # "create"
    BY <1>1, Types DEF CallsOK
  <2> QED
    BY <1>4, <2>1 DEF CallOK
<1>9. /\ provider' \in [Requests -> Envelopes] /\ provider'[r] = env
      /\ \A q \in Requests :
           EnvMoves(provider[q], provider'[q]) /\ provider'[q].creates = provider[q].creates
  <2>1. provider' \in [Requests -> Envelopes] /\ provider'[r] = env
        /\ \A q \in Requests : q # r => provider'[q] = provider[q]
    BY <1>2, <1>3, <1>4, Types
  <2> QED
    BY <1>4, <1>6, <2>1, SameEnv
<1>10. /\ work' \in [Workers -> Jobs]
       /\ \A w \in Workers : work'[w] = work[w] \/ JobFits(w)'
  BY <1>1, <1>4, <1>9, Answered
<1> QED
  BY <1>1, <1>2, <1>3, <1>4, <1>6, <1>7, <1>8, <1>10, EnvKeeps

\* The envelope of r after it went on to a status and reported that.
Emitted(r, status) ==
  [provider[r] EXCEPT !.status = status,
     !.events = @ \cup {[status |-> status, time |-> now,
                         seq |-> IF Sequenced THEN Cardinality(@) ELSE None]}]

LEMMA EmitFits ==
  ASSUME EInv, NEW r \in Requests, NEW status \in EventStatuses,
         provider[r].status # "none",
         ProviderRank[status] >= ProviderRank[provider[r].status],
         provider[r].status \in {"completed"} \cup Refused => status = provider[r].status
  PROVE  /\ Emit(r, status) = [provider EXCEPT ![r] = Emitted(r, status)]
         /\ Emitted(r, status) \in Envelopes /\ Emitted(r, status).status = status
         /\ Emitted(r, status).creates = provider[r].creates
         /\ EnvMoves(provider[r], Emitted(r, status)) /\ EnvelopeOK(Emitted(r, status))
         /\ \A m \in calls : m.req = r => CallOK(m, Emitted(r, status))
<1> DEFINE events == provider[r].events
           e == [status |-> status, time |-> now,
                 seq |-> IF Sequenced THEN Cardinality(events) ELSE None]
           env == Emitted(r, status)
<1>1. /\ provider[r] \in Envelopes /\ EnvelopeOK(provider[r]) /\ now \in 0 .. MaxTime
      /\ status \in Statuses /\ provider[r].status \in Statuses /\ status # "none"
  BY Types DEF EventStatuses, Envelopes
<1>2. IsFiniteSet(events) /\ Cardinality(events) \in Nat
  BY <1>1, FS_CardinalityType DEF EnvelopeOK
<1>3. e \in Cursors /\ e.status = status
  BY <1>1, <1>2 DEF Cursors
<1>4. Emit(r, status) = [provider EXCEPT ![r] = Emitted(r, status)]
  BY Types DEF Emit, Emitted
<1>5. env = [provider[r] EXCEPT !.status = status, !.events = events \cup {e}]
  BY DEF Emitted
<1> HIDE DEF e
<1>6. /\ env \in Envelopes /\ env.status = status /\ env.creates = provider[r].creates
      /\ env.events = events \cup {e}
  BY <1>1, <1>3, <1>5 DEF Envelopes
<1> HIDE DEF env
<1>7. EnvMoves(provider[r], env)
  BY <1>1, <1>6, MovesOn DEF EnvMoves
<1>8. IsFiniteSet(env.events)
  BY <1>2, <1>6, FS_AddElement
<1>9. \A d \in env.events : d.status \in EventStatuses /\ Reached(env.status, d.status)
  <2>1. Reached(env.status, status)
    BY <1>1, <1>6, Reaching
  <2>2. \A d \in events : d.status \in EventStatuses /\ Reached(env.status, d.status)
    BY <1>1, <1>7 DEF EnvelopeOK, EnvMoves, EventStatuses
  <2> HIDE DEF events
  <2> QED
    BY <1>3, <1>6, <2>1, <2>2
<1>10. EnvelopeOK(env)
  BY <1>1, <1>6, <1>8, <1>9 DEF EnvelopeOK
<1>11. \A m \in calls : m.req = r => CallOK(m, env)
  BY <1>1, <1>6, Types DEF CallsOK, CallOK
<1> QED
  BY <1>4, <1>6, <1>7, <1>10, <1>11 DEF env

LEMMA ProviderMovesStep ==
  ASSUME EInv, NEW r \in Requests, NEW status \in Statuses, ProviderMoves(r, status)
  PROVE  EInv' /\ Moves
<1>1. /\ \/ provider[r].status = "sent" /\ status \in {"delivered"} \cup (Ends \cap Refused)
         \/ provider[r].status = "delivered" /\ status \in Ends
      /\ provider' = Emit(r, status) /\ UNCHANGED <<req, calls, work, now>>
  BY DEF ProviderMoves
<1>2. /\ status \in {"delivered", "completed", "declined", "voided"}
      /\ provider[r].status = "delivered" => status # "delivered"
  BY <1>1, EnvelopeAssumption DEF Refused
<1>3. status \in EventStatuses /\ ProviderRank[status] >= ProviderRank[provider[r].status]
  BY <1>1, <1>2, Ranks DEF EventStatuses, Statuses, Refused
<1>4. provider[r].status \notin {"none", "completed"} \cup Refused
  BY <1>1 DEF Refused
<1> QED
  BY <1>1, <1>3, <1>4, Types, EmitFits, EnvKeeps

LEMMA ProviderSendsStep ==
  ASSUME EInv, NEW m \in calls, ProviderSends(m) PROVE EInv' /\ Moves
<1> DEFINE r == m.req
<1>1. /\ m.kind = "send" /\ calls' = calls \ {m} /\ Answer(m, "ok") /\ UNCHANGED <<req, now>>
      /\ IF provider[r].status = "created" THEN provider' = Emit(r, "sent")
         ELSE UNCHANGED provider
  BY DEF ProviderSends
<1>2. /\ m \in Calls /\ r \in Requests /\ provider[r] \in Envelopes
      /\ provider[r].status \in Statuses /\ provider[r].status # "none"
      /\ \A n \in calls : n.req = r => CallOK(n, provider[r])
  BY <1>1, Types DEF Calls, CallsOK, CallOK, Envelopes
<1>3. PICK env \in Envelopes :
        /\ provider' = [provider EXCEPT ![r] = env] /\ env.creates = provider[r].creates
        /\ EnvMoves(provider[r], env) /\ EnvelopeOK(env) /\ Reached(env.status, "sent")
        /\ \A n \in calls : n.req = r => CallOK(n, env)
  <2>1. CASE provider[r].status = "created"
    <3>1. "sent" \in EventStatuses /\ "sent" \in Statuses
      BY DEF EventStatuses, Statuses, Refused
    <3>2. /\ ProviderRank["sent"] >= ProviderRank["created"]
          /\ "created" \notin {"completed"} \cup Refused
      BY Ranks DEF Refused
    <3>3. Reached("sent", "sent")
      BY <3>1, Reaching
    <3> QED
      BY <1>1, <1>2, <2>1, <3>1, <3>2, <3>3, EmitFits
  <2>2. CASE provider[r].status # "created"
    <3>1. provider' = [provider EXCEPT ![r] = provider[r]]
      BY <1>1, <1>2, <2>2, Types
    <3>2. Reached(provider[r].status, "sent")
      BY <1>2, <2>2, Reaching
    <3> QED
      BY <1>2, <3>1, <3>2, SameEnv, Types
  <2> QED
    BY <2>1, <2>2
<1>4. /\ provider' \in [Requests -> Envelopes] /\ provider'[r] = env
      /\ \A q \in Requests :
           EnvMoves(provider[q], provider'[q]) /\ provider'[q].creates = provider[q].creates
  <2>1. provider' \in [Requests -> Envelopes] /\ provider'[r] = env
        /\ \A q \in Requests : q # r => provider'[q] = provider[q]
    BY <1>2, <1>3, Types
  <2> QED
    BY <1>3, <2>1, SameEnv
<1>5. /\ work' \in [Workers -> Jobs]
      /\ \A w \in Workers : work'[w] = work[w] \/ JobFits(w)'
  BY <1>1, <1>3, <1>4, Answered
<1> QED
  BY <1>1, <1>2, <1>3, <1>5, EnvKeeps

-----------------------------------------------------------------------------

LEMMA EInvNext == ASSUME EInv, [Next]_vars PROVE EInv' /\ Moves
<1>1. CASE UNCHANGED vars
  BY <1>1, Types, WorkKeeps DEF vars
<1>2. ASSUME NEW r \in Requests,
             \/ Queue(r) \/ Webhook(r) \/ Completed(r) \/ LeaseLapses(r) \/ PollSlotOpens(r)
             \/ \E k \in SendKeys : ReplayInterrupted(r, k) \/ ClaimInterrupted(r, k)
             \/ \E k \in ReconcileKeys : ReplayReconcile(r, k)
             \/ \E status \in Statuses : ProviderMoves(r, status)
             \/ \E w \in Handlers, k \in SendKeys : ClaimSend(w, r, k)
             \/ \E w \in Handlers, k \in ReconcileKeys : ClaimReconcile(w, r, k)
             \/ \E w \in Pollers : ClaimPoll(w, r)
      PROVE  EInv' /\ Moves
  BY <1>2, QueueStep, WebhookStep, CompletedStep, LapseStep, SlotStep, ReplayInterruptedStep,
     ClaimInterruptedStep, ReplayReconcileStep, ProviderMovesStep, ClaimSendStep,
     ClaimReconcileStep, ClaimPollStep
<1>3. ASSUME NEW w \in Workers, SendStep(w) PROVE EInv' /\ Moves
  BY <1>3, ResolveFailsStep, BeginStep, DraftPersistedStep, SendPersistedStep,
     ProviderFailsStep DEF SendStep
<1>4. ASSUME NEW w \in Workers, ReconcileStep(w) PROVE EInv' /\ Moves
  BY <1>4, FindStep, FoundRecordedStep, FindFailsStep DEF ReconcileStep
<1>5. ASSUME NEW w \in Workers, PollStep(w) PROVE EInv' /\ Moves
  BY <1>5, PollReadStep, PollRecordedStep, PollFailsStep DEF PollStep
<1>6. ASSUME NEW w \in Workers, Crash(w) PROVE EInv' /\ Moves
  BY <1>6, StopKeeps DEF Crash
<1>7. ASSUME NEW m \in calls,
             ProviderCreates(m) \/ ProviderSends(m) \/ ProviderRejects(m) \/ CallLost(m)
      PROVE  EInv' /\ Moves
  BY <1>7, ProviderCreatesStep, ProviderSendsStep, CallEnds DEF ProviderRejects, CallLost
<1>8. CASE Tick
  <2>1. now' \in 0 .. MaxTime
    BY <1>8, Types, EnvelopeAssumption DEF Tick
  <2> QED
    BY <1>8, <2>1, Types, WorkKeeps DEF Tick
<1> QED
  BY <1>1, <1>2, <1>3, <1>4, <1>5, <1>6, <1>7, <1>8 DEF Next

LEMMA Inductive == Spec => []EInv
<1>1. EInv /\ [Next]_vars => EInv'
  BY EInvNext
<1> QED
  BY EInvInit, <1>1, PTL DEF Spec

\* Every row, envelope, call and job stays one of the kinds the code writes
\* (the states of docusign_requests and the phases of its executors).
THEOREM EnvelopeTypes == Spec => []TypeOK
<1>1. EInv => TypeOK
  BY DEF EInv
<1> QED
  BY Inductive, <1>1, PTL

\* However attempts are replayed, taken over, timed out or answered late, createDraft is
\* called at most once for a request (send.js:187-198, 215-219, 293-311).
THEOREM OneDraft == Spec => []CreatedOnce
<1>1. EInv => CreatedOnce
  BY DEF EInv, EnvelopeOK, CreatedOnce
<1> QED
  BY Inductive, <1>1, PTL

\* Whatever order polls, lookups and events are recorded in, a request is never reported
\* further than its envelope is.
THEOREM RowsBehind == Spec => []NeverAhead
<1>1. ASSUME EInv, NEW r \in Requests
      PROVE  /\ req[r].envelope => provider[r].status # "none"
             /\ req[r].state \in Refused => provider[r].status = req[r].state
             /\ req[r].state \in {"sent", "delivered", "completed_artifacts_pending"} =>
                  ProviderRank[provider[r].status] >= Rank[req[r].state]
             /\ req[r].state = "completed" => provider[r].status = "completed"
  <2>1. /\ req[r].envelope => provider[r].status # "none"
        /\ req[r].state = "completed" => provider[r].status = "completed"
        /\ \A s \in Statuses \ {"none"} :
             req[r].state = StateOf[s] => Reached(provider[r].status, s)
    BY <1>1, Types DEF RowOK, StateOK
  <2>2. req[r].state \in Refused => provider[r].status = req[r].state
    BY <2>1, States DEF Refused, Reached, Statuses
  <2>3. /\ Rank["sent"] = ProviderRank["sent"] /\ Rank["delivered"] = ProviderRank["delivered"]
        /\ Rank["completed_artifacts_pending"] = ProviderRank["completed"]
    BY DEF Rank, ProviderRank
  <2>4. req[r].state \in {"sent", "delivered", "completed_artifacts_pending"} =>
          ProviderRank[provider[r].status] >= Rank[req[r].state]
    BY <2>1, <2>3, States DEF Reached, Statuses
  <2> QED
    BY <2>1, <2>2, <2>4
<1>2. EInv => NeverAhead
  BY <1>1 DEF NeverAhead
<1> QED
  BY Inductive, <1>2, PTL

\* A send answered "succeeded" was carried out, and is answered so for ever.
THEOREM SuccessStands == Spec => SucceededSendsStand
<1>1. ASSUME EInv, [Next]_vars
      PROVE  [\A r \in Requests, k \in SendKeys :
                req[r].send[k] = "succeeded" =>
                  /\ req[r].send[k]' = "succeeded"
                  /\ ProviderRank[provider[r].status] >= ProviderRank["sent"]]_vars
  <2>1. Moves
    BY <1>1, EInvNext
  <2>2. ASSUME NEW r \in Requests, NEW k \in SendKeys, req[r].send[k] = "succeeded"
        PROVE  /\ req[r].send[k]' = "succeeded"
               /\ ProviderRank[provider[r].status] >= ProviderRank["sent"]
    <3>1. Reached(provider[r].status, "sent")
      BY <1>1, <2>2, Types DEF RowOK, StateOK, SentOnce
    <3> QED
      BY <2>1, <2>2, <3>1 DEF Moves, RowMoves, Reached
  <2> QED
    BY <2>2
<1>2. EInv /\ [Next]_vars =>
        [\A r \in Requests, k \in SendKeys :
           req[r].send[k] = "succeeded" =>
             /\ req[r].send[k]' = "succeeded"
             /\ ProviderRank[provider[r].status] >= ProviderRank["sent"]]_vars
  BY <1>1
<1> QED
  BY Inductive, <1>2, PTL DEF Spec, SucceededSendsStand

\* Of a request that is out no step makes one that can be sent.
THEOREM NotSentAgain == Spec => NoSecondSending
<1>1. EInv /\ [Next]_vars =>
        [\A r \in Requests :
           req[r].state \in {"sent", "delivered"} \cup (Terminal \ {"provider_blocked"}) =>
             req[r].state' \notin {"approved", "draft_created", "provider_pending"}]_vars
  <2> SUFFICES ASSUME EInv, [Next]_vars, NEW r \in Requests,
                      req[r].state \in
                        {"sent", "delivered"} \cup (Terminal \ {"provider_blocked"})
               PROVE  req[r].state' \notin {"approved", "draft_created", "provider_pending"}
    OBVIOUS
  <2>1. Moves
    BY EInvNext
  <2> QED
    BY <2>1 DEF Moves, RowMoves, Out
<1> QED
  BY Inductive, <1>1, PTL DEF Spec, NoSecondSending

=============================================================================
