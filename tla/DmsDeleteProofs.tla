---------------------------- MODULE DmsDeleteProofs ----------------------------
(***************************************************************************)
(* Proofs about DmsDelete, for every value of its constants.               *)
(*                                                                         *)
(* DInv is the inductive invariant.  TombstoneAfterDestruction needs to    *)
(* know that a call about to record the provider's answer has destroyed    *)
(* its object, ProtectedObjectsKept that whatever is held is locked at the *)
(* provider too, and the bound on attempts that a claim cannot outlive the *)
(* state it was made in.                                                   *)
(***************************************************************************)
EXTENDS DmsDelete, TLAPS

ExecutorPCs == {"execute", "delete", "record", "tombstone", "error"}
Final == {"none", "completed", "failed_terminal"}

\* Nobody owns an intent that is not open; a pending one has attempts left.
IntentOK(i) ==
  /\ i \in IntentType
  /\ i.state \in Final => i.tok = None /\ ~i.live
  /\ i.state = "pending" => i.attempts < MaxAttempts
  /\ i.state = "provider_deleted" => i.attempts <= MaxAttempts

\* The call c of process p beside the intents, the objects and the locks.
CallOK(p, c, intents, present, locks) ==
  /\ c \in CallType
  /\ c.pc # "idle" => c.o \in Objects
  /\ c.pc \in ExecutorPCs => intents[c.o].state # "none"
  /\ c.pc \in {"delete", "record"} /\ intents[c.o].tok = p => intents[c.o].state = "pending"
  /\ c.pc = "record" => c.o \notin present
  /\ ProviderLock /\ c.pc \in {"hold", "retain"} => <<c.o, c.pc>> \in locks

\* Metadata, intent and bytes of an object agree.
LedgerOK(o) ==
  /\ status[o] = "committed" <=> intent[o].state = "none"
  /\ status[o] = "deleted" <=> intent[o].state = "completed"
  /\ status[o] = "committed" => o \in bytes
  /\ intent[o].state \in {"provider_deleted", "completed"} => o \notin bytes
  /\ status[o] = "deleted" => current # o

\* What is held or retained is locked at the provider, and so is still there.
LocksOK ==
  ProviderLock =>
    /\ \A o \in held : <<o, "hold">> \in locked
    /\ \A o \in retained : <<o, "retain">> \in locked
    /\ \A o \in Objects : ProviderLocked(o) => o \in bytes

IntentsOK == intent \in [Objects -> IntentType] /\ \A o \in Objects : IntentOK(intent[o])
CallsOK == call \in [Procs -> CallType]
             /\ \A p \in Procs : CallOK(p, call[p], intent, bytes, locked)

DInv == TypeOK /\ IntentsOK /\ CallsOK /\ (\A o \in Objects : LedgerOK(o)) /\ LocksOK

--------------------------------------------------------------------------------
\* What the step of p may do to an intent as the other processes see it: it takes
\* or drops its claim, or leaves claim and state alone.
Moves(p, old, new) ==
  /\ IntentOK(new)
  /\ old.state # "none" => new.state # "none"
  /\ new.tok \in {None, p} \/ (new.tok = old.tok /\ new.state = old.state)

IntentsMove(p) ==
  intent' \in [Objects -> IntentType] /\ \A o \in Objects : Moves(p, intent[o], intent'[o])

\* An unchanged intent moves for anyone.
LEMMA Unmoved == ASSUME DInv, UNCHANGED intent, NEW p PROVE IntentsMove(p)
BY DEF DInv, IntentsOK, IntentsMove, Moves

\* One written intent moves if its new value does.
LEMMA WriteMoves ==
  ASSUME DInv, NEW p, NEW o \in Objects, NEW i, Write(o, i), Moves(p, intent[o], i)
  PROVE  IntentsMove(p) /\ intent'[o] = i /\ \A q \in Objects : q # o => intent'[q] = intent[q]
<1>1. \A q \in Objects : intent'[q] = IF q = o THEN i ELSE intent[q]
  BY DEF DInv, IntentsOK, Write
<1>2. \A q \in Objects : Moves(p, intent[q], intent[q])
  BY DEF DInv, IntentsOK, Moves
<1>3. intent' \in [Objects -> IntentType]
  BY DEF DInv, IntentsOK, Write, Moves, IntentOK
<1>. QED BY <1>1, <1>2, <1>3 DEF IntentsMove

\* A call that did not take the step stays in order.
LEMMA OtherCall ==
  ASSUME DInv, NEW p, NEW q \in Procs, q # p, IntentsMove(p), bytes' \subseteq bytes, locked \subseteq locked'
  PROVE  CallOK(q, call[q], intent', bytes', locked')
<1>1. CallOK(q, call[q], intent, bytes, locked)
  BY DEF DInv, CallsOK
<1>2. q # None
  BY DeleteProcs
<1>. QED BY <1>1, <1>2 DEF CallOK, IntentsMove, Moves, ExecutorPCs

\* All calls stay in order when p's new one is.
LEMMA CallsKept ==
  ASSUME DInv, NEW p \in Procs, NEW c, call' = [call EXCEPT ![p] = c],
         CallOK(p, c, intent', bytes', locked'),
         IntentsMove(p), bytes' \subseteq bytes, locked \subseteq locked'
  PROVE  CallsOK'
<1>1. \A q \in Procs : call'[q] = IF q = p THEN c ELSE call[q]
  BY DEF DInv, CallsOK
<1>2. call' \in [Procs -> CallType]
  BY DEF DInv, CallsOK, CallOK
<1>3. \A q \in Procs : CallOK(q, call'[q], intent', bytes', locked')
  BY <1>1, OtherCall
<1>. QED BY <1>2, <1>3 DEF CallsOK

\* They stay in order, too, when no process takes the step.
LEMMA CallsUntouched ==
  ASSUME DInv, UNCHANGED call, IntentsMove(None), bytes' \subseteq bytes, locked \subseteq locked'
  PROVE  CallsOK'
<1>1. \A q \in Procs : q # None
  BY DeleteProcs
<1>2. \A q \in Procs : CallOK(q, call[q], intent', bytes', locked')
  BY <1>1, OtherCall
<1>. QED BY <1>2 DEF DInv, CallsOK

\* A call that ends.
LEMMA Stopped ==
  ASSUME DInv, NEW p \in Procs, Stop(p), IntentsMove(p), bytes' \subseteq bytes, locked \subseteq locked'
  PROVE  CallsOK'
<1>1. CallOK(p, IdleCall, intent', bytes', locked')
  BY DeleteAttempts DEF CallOK, IdleCall, CallType, PCs, ExecutorPCs
<1>. QED BY <1>1, CallsKept DEF Stop

\* A call that goes on, for what its next step asks.
LEMMA WentOn ==
  ASSUME DInv, NEW p \in Procs, NEW pc \in ExecutorPCs, Goto(p, pc), O(p) \in Objects,
         intent'[O(p)].state # "none",
         pc \in {"delete", "record"} /\ intent'[O(p)].tok = p => intent'[O(p)].state = "pending",
         pc = "record" => O(p) \notin bytes',
         IntentsMove(p), bytes' \subseteq bytes, locked \subseteq locked'
  PROVE  CallsOK'
<1>. DEFINE c == [call[p] EXCEPT !.pc = pc]
<1>1. c.pc = pc /\ c.o = O(p) /\ c \in CallType
  BY DEF DInv, CallsOK, CallType, O, PCs, ExecutorPCs
<1>2. call' = [call EXCEPT ![p] = c]
  BY DEF Goto
<1>. HIDE DEF c
<1>3. CallOK(p, c, intent', bytes', locked')
  BY <1>1 DEF CallOK, ExecutorPCs
<1>. QED BY <1>2, <1>3, CallsKept

\* A call that throws.
LEMMA Threw ==
  ASSUME DInv, NEW p \in Procs, Throw(p), O(p) \in Objects, intent'[O(p)].state # "none",
         IntentsMove(p), bytes' \subseteq bytes, locked \subseteq locked'
  PROVE  CallsOK'
BY Stopped, WentOn DEF Throw, ExecutorPCs

\* What an executor knows.
LEMMA Executing ==
  ASSUME DInv, NEW p \in Procs, call[p].pc \in ExecutorPCs
  PROVE  /\ O(p) \in Objects /\ IntentOK(intent[O(p)]) /\ LedgerOK(O(p))
         /\ intent[O(p)].state # "none"
         /\ call[p].pc \in {"delete", "record"} /\ intent[O(p)].tok = p => intent[O(p)].state = "pending"
         /\ call[p].pc = "record" => O(p) \notin bytes
         /\ call[p].counted \in 0..MaxAttempts
<1>1. CallOK(p, call[p], intent, bytes, locked)
  BY DEF DInv, CallsOK
<1>. QED BY <1>1 DEF DInv, IntentsOK, CallOK, ExecutorPCs, O, CallType

--------------------------------------------------------------------------------
\* The ledger and the locks stay in order when metadata and protection do not change,
\* an intent keeps its state or moves among the open and failed ones, and only
\* unlocked objects of open intents are destroyed.
LEMMA Quiet ==
  ASSUME DInv, CallsOK', NEW p, IntentsMove(p), UNCHANGED <<status, current, protection>>,
         bytes' \subseteq bytes,
         \A o \in Objects :
           /\ o \in bytes \ bytes' => intent[o].state # "none" /\ ~ProviderLocked(o)
           /\ \/ intent'[o].state = intent[o].state
              \/ /\ intent[o].state \in {"pending", "provider_deleted"}
                 /\ intent'[o].state = "failed_terminal"
              \/ intent[o].state = "pending" /\ intent'[o].state = "provider_deleted" /\ o \notin bytes'
  PROVE  DInv'
<1>1. IntentsOK'
  BY DEF IntentsMove, Moves, IntentsOK
<1>2. TypeOK'
  BY <1>1 DEF DInv, TypeOK, IntentsOK, CallsOK, protection
<1>3. ASSUME NEW o \in Objects PROVE LedgerOK(o)'
  BY <1>3 DEF DInv, LedgerOK
<1>4. LocksOK'
  BY DEF DInv, LocksOK, ProviderLocked, protection
<1>. QED BY <1>1, <1>2, <1>3, <1>4 DEF DInv

\* A call starts at a step of an object with nothing counted.
LEMMA Started ==
  ASSUME NEW pc \in PCs, NEW o \in Objects
  PROVE  LET c == [IdleCall EXCEPT !.pc = pc, !.o = o] IN c \in CallType /\ c.pc = pc /\ c.o = o
<1>1. 0 \in 0..MaxAttempts
  BY DeleteAttempts
<1>2. IdleCall \in CallType
  BY <1>1 DEF IdleCall, CallType, PCs
<1>. QED BY <1>2 DEF CallType

\* The rows of a claim and of its end.
LEMMA Claimed ==
  ASSUME NEW i, IntentOK(i), i.state \in {"pending", "provider_deleted"}, NEW p \in Procs
  PROVE  /\ Moves(p, i, [i EXCEPT !.tok = p, !.live = TRUE])
         /\ [i EXCEPT !.tok = p, !.live = TRUE].state = i.state
BY DEF IntentOK, IntentType, Moves, Final

\* An intent whose claim is given back.
LEMMA Cleared ==
  ASSUME NEW i, IntentOK(i), NEW p
  PROVE  Moves(p, i, ClearLease(i)) /\ ClearLease(i).state = i.state
BY DEF IntentOK, IntentType, Moves, Final, ClearLease

--------------------------------------------------------------------------------
\* requestCommittedObjectDelete opens an intent for a committed object.
LEMMA RequestPreserves == ASSUME DInv, NEW o \in Objects, RequestDelete(o) PROVE DInv'
<1>. DEFINE i == [NoIntent EXCEPT !.state = "pending", !.due = TRUE]
<1>1. IntentOK(i) /\ i.tok = None /\ i.state = "pending"
  <2>1. 0 \in 0..(MaxAttempts + 1) /\ 0 < MaxAttempts
    BY DeleteAttempts
  <2>2. NoIntent \in IntentType /\ NoIntent.attempts = 0 /\ NoIntent.tok = None /\ ~NoIntent.live
    BY <2>1 DEF NoIntent, IntentType
  <2>3. /\ i.state = "pending" /\ i.tok = NoIntent.tok /\ i.live = NoIntent.live
        /\ i.attempts = NoIntent.attempts /\ i \in IntentType
    BY <2>2 DEF IntentType
  <2>. HIDE DEF i
  <2>. QED BY <2>1, <2>2, <2>3 DEF IntentOK, Final
<1>2. Write(o, i) /\ status' = [status EXCEPT ![o] = "delete_pending"] /\ intent[o].state = "none"
  BY DEF RequestDelete
<1>3. UNCHANGED <<bytes, current, held, retained, locked, call>>
  BY DEF RequestDelete, protection
<1>. HIDE DEF i
<1>4. IntentsMove(None) /\ intent'[o] = i /\ \A q \in Objects : q # o => intent'[q] = intent[q]
  BY <1>1, <1>2, WriteMoves DEF Moves
<1>5. CallsOK'
  BY <1>3, <1>4, CallsUntouched
<1>6. IntentsOK'
  BY <1>4 DEF IntentsMove, Moves, IntentsOK
<1>7. TypeOK'
  BY <1>2, <1>3, <1>5, <1>6 DEF DInv, TypeOK, IntentsOK, CallsOK
<1>8. ASSUME NEW q \in Objects PROVE LedgerOK(q)'
  <2>1. LedgerOK(q) /\ status'[q] = IF q = o THEN "delete_pending" ELSE status[q]
    BY <1>2 DEF DInv, TypeOK
  <2>. QED BY <1>1, <1>2, <1>3, <1>4, <2>1 DEF LedgerOK
<1>9. LocksOK'
  BY <1>3 DEF DInv, LocksOK, ProviderLocked
<1>. QED BY <1>5, <1>6, <1>7, <1>8, <1>9 DEF DInv

\* A client's claim.
LEMMA ExecutePreserves ==
  ASSUME DInv, NEW c \in Clients, NEW o \in Objects, ExecuteDelete(c, o) PROVE DInv'
<1>. DEFINE i == [intent[o] EXCEPT !.tok = c, !.live = TRUE]
            k == [IdleCall EXCEPT !.pc = Continuation(o), !.o = o]
<1>1. c \in Procs /\ IntentOK(intent[o]) /\ intent[o].state \in {"pending", "provider_deleted"}
  BY DEF Procs, DInv, IntentsOK, ExecuteDelete, Open
<1>2. Moves(c, intent[o], i) /\ i.state = intent[o].state
  BY <1>1, Claimed
<1>3. Write(o, i) /\ call' = [call EXCEPT ![c] = k] /\ UNCHANGED <<status, bytes, current, protection>>
  BY DEF ExecuteDelete, Enter
<1>4. k \in CallType /\ k.o = o /\ k.pc = Continuation(o)
  <2>1. Continuation(o) \in PCs
    BY DEF Continuation, PCs
  <2>. QED BY <2>1, Started
<1>. HIDE DEF i, k
<1>5. IntentsMove(c) /\ intent'[o] = i /\ \A q \in Objects : q # o => intent'[q] = intent[q]
  BY <1>2, <1>3, WriteMoves
<1>6. CallOK(c, k, intent', bytes', locked')
  BY <1>1, <1>2, <1>3, <1>4, <1>5 DEF CallOK, Continuation
<1>7. CallsOK'
  BY <1>1, <1>3, <1>5, <1>6, CallsKept DEF protection
<1>. QED BY <1>2, <1>3, <1>5, <1>7, Quiet

\* A reconciler's claim.
LEMMA ClaimPreserves ==
  ASSUME DInv, NEW r \in Reconcilers, NEW o \in Objects, ClaimDeleteIntent(r, o) PROVE DInv'
<1>. DEFINE i == [intent[o] EXCEPT !.tok = r, !.live = TRUE]
            k == [pc |-> "execute", o |-> o, counted |-> intent[o].attempts]
<1>1. r \in Procs /\ IntentOK(intent[o]) /\ intent[o].state \in {"pending", "provider_deleted"}
  BY DEF Procs, DInv, IntentsOK, ClaimDeleteIntent, Open
<1>2. Moves(r, intent[o], i) /\ i.state = intent[o].state
  BY <1>1, Claimed
<1>3. Write(o, i) /\ call' = [call EXCEPT ![r] = k] /\ UNCHANGED <<status, bytes, current, protection>>
  BY DEF ClaimDeleteIntent
<1>4. k \in CallType
  <2>1. intent[o].attempts \in 0..MaxAttempts
    BY <1>1, DeleteAttempts DEF IntentOK, IntentType
  <2>. QED BY <2>1 DEF CallType, PCs
<1>5. IntentsMove(r) /\ intent'[o] = i /\ \A q \in Objects : q # o => intent'[q] = intent[q]
  BY <1>2, <1>3, WriteMoves
<1>. HIDE DEF i
<1>6. CallOK(r, k, intent', bytes', locked')
  BY <1>1, <1>2, <1>4, <1>5 DEF CallOK
<1>. HIDE DEF k
<1>7. CallsOK'
  BY <1>1, <1>3, <1>5, <1>6, CallsKept DEF protection
<1>. QED BY <1>2, <1>3, <1>5, <1>7, Quiet

\* The provider's answer to a deletion, or none.
LEMMA DestroyPreserves ==
  ASSUME DInv, NEW p \in Procs, DeleteCommittedObject(p) \/ DeleteCallFails(p) PROVE DInv'
<1>. DEFINE o == O(p)
<1>1. /\ call[p].pc = "delete" /\ o \in Objects /\ IntentOK(intent[o]) /\ intent[o].state # "none"
      /\ intent[o].tok = p => intent[o].state = "pending"
  BY Executing DEF DeleteCommittedObject, DeleteCallFails, At, ExecutorPCs
<1>2. /\ UNCHANGED <<status, current, protection>>
      /\ \/ ~ProviderLocked(o) /\ bytes' = bytes \ {o} /\ Goto(p, "record") /\ UNCHANGED intent
         \/ /\ bytes' = bytes \/ (~ProviderLocked(o) /\ bytes' = bytes \ {o})
            /\ GiveLeaseBack(p, o) /\ Throw(p)
  BY DEF DeleteCommittedObject, DeleteCallFails
<1>. HIDE DEF o
<1>3. /\ IntentsMove(p) /\ \A q \in Objects : intent'[q].state = intent[q].state
      /\ intent' = intent \/ ~Goto(p, "record") \/ Throw(p)
  <2>1. CASE UNCHANGED intent
    BY <2>1, Unmoved
  <2>2. CASE Write(o, ClearLease(intent[o])) /\ Throw(p)
    BY <1>1, <2>2, Cleared, WriteMoves
  <2>. QED BY <1>2, <2>1, <2>2 DEF GiveLeaseBack
<1>4. bytes' \subseteq bytes /\ locked \subseteq locked'
  BY <1>2 DEF protection
<1>5. CallsOK'
  <2>1. CASE bytes' = bytes \ {o} /\ Goto(p, "record") /\ UNCHANGED intent
    BY <1>1, <1>3, <1>4, <2>1, WentOn DEF o, ExecutorPCs
  <2>2. CASE Throw(p)
    BY <1>1, <1>3, <1>4, <2>2, Threw DEF o
  <2>. QED BY <1>2, <2>1, <2>2
<1>6. \A q \in Objects : q \in bytes \ bytes' => intent[q].state # "none" /\ ~ProviderLocked(q)
  BY <1>1, <1>2
<1>. QED BY <1>2, <1>3, <1>4, <1>5, <1>6, Quiet

\* The receipt of the provider.
LEMMA RecordPreserves ==
  ASSUME DInv, NEW p \in Procs, RecordProviderDeleted(p) PROVE DInv'
<1>. DEFINE o == O(p)
            i == [intent[o] EXCEPT !.state = "provider_deleted", !.attempts = @ + 1]
<1>1. /\ o \in Objects /\ IntentOK(intent[o]) /\ intent[o].state # "none" /\ o \notin bytes
      /\ intent[o].tok = p => intent[o].state = "pending"
  BY Executing DEF RecordProviderDeleted, At, ExecutorPCs
<1>2. /\ UNCHANGED <<status, bytes, current, protection>>
      /\ \/ intent[o].tok = p /\ Write(o, i) /\ Goto(p, "tombstone")
         \/ Throw(p) /\ UNCHANGED intent
  BY DEF RecordProviderDeleted
<1>3. CASE intent[o].tok = p /\ Write(o, i) /\ Goto(p, "tombstone")
  <2>1. Moves(p, intent[o], i) /\ i.state = "provider_deleted"
    <3>1. /\ intent[o] \in IntentType /\ intent[o].tok = p /\ intent[o].state = "pending"
          /\ intent[o].attempts + 1 \in 0..(MaxAttempts + 1) /\ intent[o].attempts + 1 <= MaxAttempts
      <4>1. /\ intent[o] \in IntentType /\ intent[o].tok = p /\ intent[o].state = "pending"
            /\ intent[o].attempts \in 0..(MaxAttempts + 1) /\ intent[o].attempts < MaxAttempts
        BY <1>1, <1>3 DEF IntentOK, IntentType
      <4>. QED BY <4>1, DeleteAttempts
    <3>2. /\ i.state = "provider_deleted" /\ i.tok = p /\ i.live = intent[o].live
          /\ i.attempts = intent[o].attempts + 1 /\ i \in IntentType
      BY <3>1 DEF IntentType
    <3>. HIDE DEF i
    <3>. QED BY <3>1, <3>2 DEF Moves, IntentOK, Final
  <2>. HIDE DEF i
  <2>2. IntentsMove(p) /\ intent'[o] = i /\ \A q \in Objects : q # o => intent'[q] = intent[q]
    BY <1>1, <1>3, <2>1, WriteMoves
  <2>. HIDE DEF o
  <2>3. CallsOK'
    BY <1>1, <1>2, <1>3, <2>1, <2>2, WentOn DEF o, ExecutorPCs, protection
  <2>4. \A q \in Objects : \/ intent'[q].state = intent[q].state
                           \/ intent[q].state = "pending" /\ intent'[q].state = "provider_deleted" /\ q \notin bytes'
    BY <1>1, <1>2, <1>3, <2>1, <2>2
  <2>. QED BY <1>2, <2>2, <2>3, <2>4, Quiet
<1>4. CASE Throw(p) /\ UNCHANGED intent
  <2>1. IntentsMove(p)
    BY <1>4, Unmoved
  <2>2. CallsOK'
    BY <1>1, <1>2, <1>4, <2>1, Threw DEF protection
  <2>. QED BY <1>2, <1>4, <2>1, <2>2, Quiet
<1>. QED BY <1>2, <1>3, <1>4

\* The tombstone.
LEMMA TombstonePreserves ==
  ASSUME DInv, NEW p \in Procs, FinalizeDeleteIntent(p) PROVE DInv'
<1>. DEFINE o == O(p)
            i == [ClearLease(intent[o]) EXCEPT !.state = "completed"]
<1>1. /\ o \in Objects /\ IntentOK(intent[o]) /\ LedgerOK(o) /\ intent[o].state # "none"
  BY Executing DEF FinalizeDeleteIntent, At, ExecutorPCs
<1>2. /\ UNCHANGED <<bytes, held, retained, locked>>
      /\ \/ UNCHANGED <<status, current, intent>> /\ (Stop(p) \/ Throw(p))
         \/ /\ intent[o].state = "provider_deleted"
            /\ status' = [status EXCEPT ![o] = IF @ = "delete_pending" THEN "deleted" ELSE @]
            /\ current' = IF current = o THEN None ELSE current
            /\ Write(o, i) /\ Stop(p)
  BY DEF FinalizeDeleteIntent, protection
<1>3. CASE UNCHANGED <<status, current, intent>> /\ (Stop(p) \/ Throw(p))
  <2>1. IntentsMove(p)
    BY <1>3, Unmoved
  <2>2. CallsOK'
    BY <1>1, <1>2, <1>3, <2>1, Threw, Stopped
  <2>. QED BY <1>2, <1>3, <2>1, <2>2, Quiet DEF protection
<1>4. CASE /\ intent[o].state = "provider_deleted" /\ Write(o, i) /\ Stop(p)
           /\ status' = [status EXCEPT ![o] = IF @ = "delete_pending" THEN "deleted" ELSE @]
           /\ current' = IF current = o THEN None ELSE current
  <2>1. Moves(p, intent[o], i) /\ i.state = "completed"
    BY <1>1 DEF Moves, IntentOK, IntentType, Final, ClearLease
  <2>. HIDE DEF i
  <2>2. IntentsMove(p) /\ intent'[o] = i /\ \A q \in Objects : q # o => intent'[q] = intent[q]
    BY <1>1, <1>4, <2>1, WriteMoves
  <2>. HIDE DEF o
  <2>3. CallsOK'
    BY <1>2, <1>4, <2>2, Stopped
  <2>4. IntentsOK'
    BY <2>2 DEF IntentsMove, Moves, IntentsOK
  <2>5. status \in [Objects -> {"committed", "delete_pending", "deleted"}]
    BY DEF DInv, TypeOK
  <2>6. status'[o] = "deleted" /\ \A q \in Objects : q # o => status'[q] = status[q]
    BY <1>1, <1>4, <2>5 DEF LedgerOK
  <2>7. TypeOK'
    <3>1. status' \in [Objects -> {"committed", "delete_pending", "deleted"}]
      BY <1>4, <2>5
    <3>2. current' \in Objects \cup {None}
      BY <1>4 DEF DInv, TypeOK
    <3>. QED BY <1>2, <2>3, <2>4, <3>1, <3>2 DEF DInv, TypeOK, IntentsOK, CallsOK
  <2>8. ASSUME NEW q \in Objects PROVE LedgerOK(q)'
    <3>1. LedgerOK(q) /\ current' # o /\ (current' = current \/ current' = None) /\ q # None
      BY <1>1, <1>4, DeleteObjects DEF DInv
    <3>. QED BY <1>1, <1>2, <1>4, <2>1, <2>2, <2>6, <3>1 DEF LedgerOK
  <2>9. LocksOK'
    BY <1>2 DEF DInv, LocksOK, ProviderLocked
  <2>. QED BY <2>3, <2>4, <2>7, <2>8, <2>9 DEF DInv
<1>. QED BY <1>2, <1>3, <1>4

\* A reconciler executes what it claimed, or what it claimed was lost meanwhile.
LEMMA ExecuteClaimedPreserves ==
  ASSUME DInv, NEW p \in Procs, ExecuteClaimed(p) PROVE DInv'
<1>1. O(p) \in Objects /\ intent[O(p)].state # "none"
  BY Executing DEF ExecuteClaimed, At, ExecutorPCs
<1>2. /\ UNCHANGED <<status, bytes, current, protection, intent>>
      /\ Stop(p) \/ Throw(p) \/ Goto(p, Continuation(O(p)))
  BY DEF ExecuteClaimed
<1>3. IntentsMove(p)
  BY <1>2, Unmoved
<1>4. Continuation(O(p)) \in {"delete", "tombstone"}
        /\ (Continuation(O(p)) = "delete" => intent[O(p)].state = "pending")
  BY DEF Continuation
<1>5. Goto(p, Continuation(O(p))) => CallsOK'
  BY <1>1, <1>2, <1>3, <1>4, WentOn DEF ExecutorPCs, protection
<1>6. CallsOK'
  BY <1>1, <1>2, <1>3, <1>5, Stopped, Threw DEF protection
<1>. QED BY <1>2, <1>3, <1>6, Quiet

\* The failure of a claimed execution, counted.
LEMMA FailurePreserves ==
  ASSUME DInv, NEW p \in Procs, RecordDeleteFailure(p) PROVE DInv'
<1>. DEFINE o == O(p)
            n == call[p].counted + 1
            failed == [ClearLease(intent[o]) EXCEPT !.attempts = n, !.due = FALSE]
            closed == [failed EXCEPT !.state = "failed_terminal"]
            i == IF n >= MaxAttempts THEN closed ELSE failed
<1>1. o \in Objects /\ IntentOK(intent[o]) /\ intent[o].state # "none" /\ call[p].counted \in 0..MaxAttempts
  BY Executing DEF RecordDeleteFailure, At, ExecutorPCs
<1>2. /\ UNCHANGED <<status, bytes, current, protection>> /\ Stop(p)
      /\ UNCHANGED intent \/ (intent[o].tok = p /\ Write(o, i))
  BY DEF RecordDeleteFailure
<1>3. CASE UNCHANGED intent
  <2>1. IntentsMove(p)
    BY <1>3, Unmoved
  <2>2. CallsOK'
    BY <1>2, <2>1, Stopped DEF protection
  <2>. QED BY <1>2, <1>3, <2>1, <2>2, Quiet
<1>4. CASE intent[o].tok = p /\ Write(o, i)
  <2>1. n \in 0..(MaxAttempts + 1) /\ (n >= MaxAttempts \/ n < MaxAttempts) /\ (n < MaxAttempts => n <= MaxAttempts)
    BY <1>1, DeleteAttempts
  <2>2. intent[o].state \in {"pending", "provider_deleted"} /\ intent[o] \in IntentType
    BY <1>1, <1>4, DeleteProcs DEF IntentOK, IntentType, Final
  <2>3. /\ closed \in IntentType /\ closed.state = "failed_terminal" /\ closed.tok = None /\ ~closed.live
        /\ failed \in IntentType /\ failed.state = intent[o].state /\ failed.tok = None /\ ~failed.live
        /\ failed.attempts = n
    <3>. HIDE DEF n
    <3>. QED BY <2>1, <2>2 DEF IntentType, ClearLease
  <2>. HIDE DEF closed, failed, n
  <2>4. Moves(p, intent[o], i) /\ i.state \in {intent[o].state, "failed_terminal"}
    BY <2>1, <2>2, <2>3 DEF Moves, IntentOK, Final
  <2>. HIDE DEF i
  <2>5. IntentsMove(p) /\ intent'[o] = i /\ \A q \in Objects : q # o => intent'[q] = intent[q]
    BY <1>1, <1>4, <2>4, WriteMoves
  <2>6. CallsOK'
    BY <1>2, <2>5, Stopped DEF protection
  <2>7. \A q \in Objects : \/ intent'[q].state = intent[q].state
                           \/ /\ intent[q].state \in {"pending", "provider_deleted"}
                              /\ intent'[q].state = "failed_terminal"
    BY <2>2, <2>4, <2>5
  <2>. QED BY <1>2, <2>5, <2>6, <2>7, Quiet
<1>. QED BY <1>2, <1>3, <1>4

\* A database error, and a process that dies.
LEMMA FailsPreserves ==
  ASSUME DInv, NEW p \in Procs, TransactionFails(p) \/ Crash(p) PROVE DInv'
<1>1. TransactionFails(p) => O(p) \in Objects /\ intent[O(p)].state # "none"
  BY Executing DEF TransactionFails, ExecutorPCs
<1>2. UNCHANGED <<status, bytes, current, protection, intent>> /\ (Stop(p) \/ (Throw(p) /\ TransactionFails(p)))
  BY DEF TransactionFails, Crash
<1>3. IntentsMove(p)
  BY <1>2, Unmoved
<1>4. CallsOK'
  BY <1>1, <1>2, <1>3, Stopped, Threw DEF protection
<1>. QED BY <1>2, <1>3, <1>4, Quiet

\* Deadlines of a claim.
LEMMA TimePreserves ==
  ASSUME DInv, NEW o \in Objects, LapseDelete(o) \/ DeleteBecomesDue(o) PROVE DInv'
<1>1. IntentOK(intent[o])
  BY DEF DInv, IntentsOK
<1>2. PICK i : Write(o, i) /\ Moves(None, intent[o], i) /\ i.state = intent[o].state
  <2>1. /\ Moves(None, intent[o], [intent[o] EXCEPT !.live = FALSE])
        /\ [intent[o] EXCEPT !.live = FALSE].state = intent[o].state
        /\ Moves(None, intent[o], [intent[o] EXCEPT !.due = TRUE])
        /\ [intent[o] EXCEPT !.due = TRUE].state = intent[o].state
    BY <1>1 DEF IntentOK, IntentType, Moves, Final
  <2>. QED BY <2>1 DEF LapseDelete, DeleteBecomesDue
<1>3. UNCHANGED <<status, bytes, current, protection, call>>
  BY DEF LapseDelete, DeleteBecomesDue
<1>4. IntentsMove(None) /\ intent'[o] = i /\ \A q \in Objects : q # o => intent'[q] = intent[q]
  BY <1>2, WriteMoves
<1>5. CallsOK'
  BY <1>3, <1>4, CallsUntouched DEF protection
<1>. QED BY <1>2, <1>3, <1>4, <1>5, Quiet

--------------------------------------------------------------------------------
\* Protection: everything but the locks, the holds and their calls stays.
LEMMA Protecting ==
  ASSUME DInv, CallsOK', LocksOK', UNCHANGED <<status, bytes, current, intent>>,
         held' \subseteq Objects, retained' \subseteq Objects, locked' \subseteq Objects \X {"hold", "retain"}
  PROVE  DInv'
<1>1. IntentsOK' /\ TypeOK'
  BY DEF DInv, TypeOK, IntentsOK, CallsOK
<1>2. ASSUME NEW o \in Objects PROVE LedgerOK(o)'
  BY DEF DInv, LedgerOK
<1>. QED BY <1>1, <1>2 DEF DInv

\* A hold or a retention transaction begins, with the provider told first.
LEMMA ProtectPreserves ==
  ASSUME DInv, NEW c \in Clients, NEW o \in Objects, NEW pc \in {"hold", "retain"},
         BeginProtection(c, o, pc)
  PROVE  DInv'
<1>. DEFINE k == [IdleCall EXCEPT !.pc = pc, !.o = o]
<1>1. c \in Procs /\ IntentsMove(c)
  BY Unmoved DEF Procs, BeginProtection
<1>2. k \in CallType /\ k.pc = pc /\ k.o = o
  <2>1. pc \in PCs
    BY DEF PCs
  <2>. QED BY <2>1, Started
<1>3. /\ UNCHANGED <<status, bytes, current, held, retained, intent>> /\ call' = [call EXCEPT ![c] = k]
      /\ IF ProviderLock THEN o \in bytes /\ locked' = locked \cup {<<o, pc>>} ELSE UNCHANGED locked
  BY DEF BeginProtection, Enter
<1>. HIDE DEF k
<1>4. locked \subseteq locked' /\ locked' \subseteq Objects \X {"hold", "retain"}
  BY <1>3 DEF DInv, TypeOK
<1>5. CallOK(c, k, intent', bytes', locked')
  BY <1>2, <1>3 DEF CallOK, ExecutorPCs
<1>6. CallsOK'
  BY <1>1, <1>3, <1>4, <1>5, CallsKept
<1>7. LocksOK'
  BY <1>3 DEF DInv, LocksOK, ProviderLocked
<1>. QED BY <1>3, <1>4, <1>6, <1>7, Protecting DEF DInv, TypeOK

\* It commits: what it protects is locked at the provider.
LEMMA ProtectedPreserves ==
  ASSUME DInv, NEW p \in Procs, CommitLegalHold(p) \/ CommitRetentionPolicy(p) PROVE DInv'
<1>1. /\ O(p) \in Objects /\ call[p].pc \in {"hold", "retain"}
      /\ ProviderLock => <<O(p), call[p].pc>> \in locked
  BY DEF DInv, CallsOK, CallOK, CommitLegalHold, CommitRetentionPolicy, At, O
<1>2. /\ UNCHANGED <<status, bytes, current, locked, intent>> /\ Stop(p)
      /\ \/ call[p].pc = "hold" /\ held' = held \cup {O(p)} /\ UNCHANGED retained
         \/ call[p].pc = "retain" /\ retained' = retained \cup {O(p)} /\ UNCHANGED held
  BY DEF CommitLegalHold, CommitRetentionPolicy, At
<1>3. CallsOK'
  BY <1>2, Unmoved, Stopped
<1>4. LocksOK'
  BY <1>1, <1>2 DEF DInv, LocksOK, ProviderLocked
<1>5. held' \subseteq Objects /\ retained' \subseteq Objects /\ locked' \subseteq Objects \X {"hold", "retain"}
  BY <1>1, <1>2 DEF DInv, TypeOK
<1>. QED BY <1>2, <1>3, <1>4, <1>5, Protecting

\* Retention ends while no transaction has the row locked.
LEMMA RetentionPreserves ==
  ASSUME DInv, NEW o \in Objects, RetentionEnds(o) PROVE DInv'
<1>1. /\ retained' = retained \ {o} /\ locked' = locked \ {<<o, "retain">>}
      /\ UNCHANGED <<status, bytes, current, held, intent, call>>
      /\ \A p \in Procs : call[p].pc \in {"hold", "retain"} => call[p].o # o
  BY DEF RetentionEnds, RowFree
<1>2. CallsOK'
  BY <1>1 DEF DInv, CallsOK, CallOK
<1>3. LocksOK'
  BY <1>1 DEF DInv, LocksOK, ProviderLocked
<1>. QED BY <1>1, <1>2, <1>3, Protecting DEF DInv, TypeOK

--------------------------------------------------------------------------------
\* The invariant holds when nothing has been deleted or held.
THEOREM DeleteInitial == Init => DInv
<1>. SUFFICES ASSUME Init PROVE DInv
  OBVIOUS
<1>1. IntentOK(NoIntent) /\ NoIntent.state = "none"
  <2>1. 0 \in 0..(MaxAttempts + 1)
    BY DeleteAttempts
  <2>. QED BY <2>1 DEF IntentOK, IntentType, NoIntent, Final
<1>2. IdleCall \in CallType /\ IdleCall.pc = "idle"
  <2>1. 0 \in 0..MaxAttempts
    BY DeleteAttempts
  <2>. QED BY <2>1 DEF IdleCall, CallType, PCs
<1>3. IntentsOK
  BY <1>1 DEF Init, IntentsOK, IntentOK
<1>4. CallsOK
  BY <1>2 DEF Init, CallsOK, CallOK, ExecutorPCs
<1>5. TypeOK
  BY <1>3, <1>4 DEF Init, TypeOK, IntentsOK, CallsOK
<1>6. \A o \in Objects : LedgerOK(o)
  BY <1>1 DEF Init, LedgerOK
<1>7. LocksOK
  BY DEF Init, LocksOK, ProviderLocked
<1>. QED BY <1>3, <1>4, <1>5, <1>6, <1>7 DEF DInv

\* Every step of an executor, a reconciler, a hold or the clock keeps it.
THEOREM DeletePreserved == DInv /\ [Next]_vars => DInv'
<1>. SUFFICES ASSUME DInv, [Next]_vars PROVE DInv'
  OBVIOUS
<1>1. ASSUME NEW p \in Procs, Continue(p) \/ Crash(p) PROVE DInv'
  BY <1>1, DestroyPreserves, RecordPreserves, TombstonePreserves, ExecuteClaimedPreserves,
     FailurePreserves, FailsPreserves, ProtectedPreserves DEF Continue
<1>2. ASSUME NEW o \in Objects, NEW c \in Clients,
             ExecuteDelete(c, o) \/ PlaceLegalHold(c, o) \/ SetRetentionPolicy(c, o)
      PROVE  DInv'
  BY <1>2, ExecutePreserves, ProtectPreserves DEF PlaceLegalHold, SetRetentionPolicy
<1>3. ASSUME NEW o \in Objects,
             \/ RequestDelete(o) \/ RetentionEnds(o) \/ LapseDelete(o) \/ DeleteBecomesDue(o)
             \/ \E r \in Reconcilers : ClaimDeleteIntent(r, o)
      PROVE  DInv'
  BY <1>3, RequestPreserves, RetentionPreserves, TimePreserves, ClaimPreserves
<1>4. CASE UNCHANGED vars
  BY <1>4 DEF vars, protection, DInv, TypeOK, IntentsOK, CallsOK, LedgerOK, LocksOK, ProviderLocked
<1>. QED BY <1>1, <1>2, <1>3, <1>4 DEF Next

\* So it always holds.
THEOREM DeleteInvHolds == Spec => []DInv
BY DeleteInitial, DeletePreserved, PTL DEF Spec

\* Every variable stays in its type: no claim counts more than one attempt beyond
\* the limit.
THEOREM DeleteTypeCorrect == Spec => []TypeOK
<1>1. DInv => TypeOK BY DEF DInv
<1>. QED BY <1>1, DeleteInvHolds, PTL

\* Metadata never claims more than the provider has, whichever of the racing
\* executors destroyed the object.
THEOREM TombstonesTrue == Spec => []TombstoneAfterDestruction
<1>1. DInv => TombstoneAfterDestruction BY DEF DInv, LedgerOK, TombstoneAfterDestruction
<1>. QED BY <1>1, DeleteInvHolds, PTL

\* With an object lock at the provider, an object whose hold or retention was
\* accepted is never lost, however many stale executors are at the provider.
THEOREM HeldObjectsKept == ProviderLock => (Spec => []ProtectedObjectsKept)
<1>. SUFFICES ASSUME ProviderLock PROVE Spec => []ProtectedObjectsKept
  OBVIOUS
<1>1. DInv => ProtectedObjectsKept
  BY DEF DInv, LocksOK, ProviderLocked, ProtectedObjectsKept, TypeOK
<1>. QED BY <1>1, DeleteInvHolds, PTL

\* Completed and dead-lettered intents stay as they are, and no claim survives on them.
THEOREM IntentsSealed == Spec => TerminalIntentsSealed
<1>1. DInv /\ [Next]_vars => \A o \in Objects :
        intent[o].state \in {"completed", "failed_terminal"} =>
          /\ intent'[o] = intent[o]
          /\ intent[o].tok = None
  <2>. SUFFICES ASSUME DInv, [Next]_vars, NEW o \in Objects,
                       intent[o].state \in {"completed", "failed_terminal"}
                PROVE  intent'[o] = intent[o] /\ intent[o].tok = None
    OBVIOUS
  <2>1. intent[o].tok = None /\ ~intent[o].live
    BY DEF DInv, IntentsOK, IntentOK, Final
  <2>2. \A p \in Procs : intent[o].tok # p
    BY <2>1, DeleteProcs
  <2>3. ASSUME NEW q, NEW i, Write(q, i), q # o PROVE intent'[o] = intent[o]
    BY <2>3 DEF Write, DInv, IntentsOK
  <2>4. CASE UNCHANGED intent
    BY <2>1, <2>4
  <2>5. ASSUME NEW p \in Procs, Continue(p) \/ Crash(p) PROVE intent'[o] = intent[o]
    <3>1. \/ UNCHANGED intent
          \/ \E i : Write(O(p), i) /\ (intent[O(p)].tok = p \/ intent[O(p)].state = "provider_deleted")
      BY <2>5, Zenon DEF Continue, Crash, DeleteCommittedObject, DeleteCallFails, RecordProviderDeleted,
         FinalizeDeleteIntent, ExecuteClaimed, RecordDeleteFailure, TransactionFails,
         CommitLegalHold, CommitRetentionPolicy, GiveLeaseBack
    <3>. QED BY <2>2, <2>3, <2>4, <3>1
  <2>6. ASSUME NEW q \in Objects,
               \/ RequestDelete(q) \/ RetentionEnds(q) \/ LapseDelete(q) \/ DeleteBecomesDue(q)
               \/ \E c \in Clients : ExecuteDelete(c, q) \/ PlaceLegalHold(c, q) \/ SetRetentionPolicy(c, q)
               \/ \E r \in Reconcilers : ClaimDeleteIntent(r, q)
        PROVE  intent'[o] = intent[o]
    <3>1. \/ UNCHANGED intent
          \/ \E i : Write(q, i) /\ (intent[q].state \in {"none", "pending", "provider_deleted"} \/ intent[q].live)
      BY <2>6 DEF RequestDelete, RetentionEnds, LapseDelete, DeleteBecomesDue, ExecuteDelete, Open,
         PlaceLegalHold, SetRetentionPolicy, BeginProtection, ClaimDeleteIntent
    <3>. QED BY <2>1, <2>3, <2>4, <3>1
  <2>. QED BY <2>1, <2>4, <2>5, <2>6 DEF Next, vars
<1>. QED BY <1>1, DeleteInvHolds, PTL DEF Spec, TerminalIntentsSealed

================================================================================
