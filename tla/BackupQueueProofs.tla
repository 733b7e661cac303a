-------------------------- MODULE BackupQueueProofs --------------------------
(* The types and the safety of BackupQueue, for any number of processors, events
   and attempts, and any of the processors dying anywhere. *)
EXTENDS BackupQueue, TLAPS

\* Places of a processor that has an event in hand.
Handling == {"drop", "upload", "receipt", "failed", "remove", "forget"}

\* What a processor knows of its event.  It only stays true, for receipts, dead
\* letters and uploads are never taken back: it does not need the lock.
CallOK(c, rs, ds, is, us) ==
  /\ c.pc \in Handling => c.event \in Events
  /\ c.pc \in {"upload", "receipt", "failed"} => c.tries > 0
  /\ c.pc = "drop" => c.event \in is
  /\ c.pc = "receipt" => c.event \in us
  /\ c.pc = "remove" => c.event \in rs \cup ds

QInv ==
  /\ TypeOK
  /\ \A p \in Processors : CallOK(proc[p], receipts, dead, invalid, uploaded)
  /\ NoEventVanishes
  /\ ReceiptsAreTrue

LEMMA QInvInit == Init => QInv
BY QueueAssumption
   DEF Init, QInv, TypeOK, Locks, Events, AttemptFiles, NoAttempt, Calls, Idle, CallOK, Handling,
       NoEventVanishes, ReceiptsAreTrue

\* A step in which receipts, dead letters and uploads only grow, files leave
\* pending/ only with one of them, and a processor knows what it should.
LEMMA Grows ==
  ASSUME QInv, TypeOK',
         receipts \subseteq receipts', dead \subseteq dead', invalid \subseteq invalid',
         uploaded \subseteq uploaded', receipts' \subseteq uploaded',
         \A e \in Events : writer'[e] # "none" /\ writer[e] = "none" => pending'[e] # "none",
         \A e \in Events : pending'[e] = "none" =>
                             pending[e] = "none" \/ e \in receipts' \cup dead' \cup invalid',
         NEW p \in Processors,
         \A q \in Processors : q # p => proc'[q] = proc[q],
         CallOK(proc'[p], receipts', dead', invalid', uploaded')
  PROVE  QInv'
<1>1. ASSUME NEW q \in Processors
      PROVE  CallOK(proc'[q], receipts', dead', invalid', uploaded')
  <2>1. CASE q = p
    BY <2>1
  <2>2. CASE q # p
    <3>1. proc'[q] = proc[q] /\ CallOK(proc[q], receipts, dead, invalid, uploaded)
      BY <2>2 DEF QInv
    <3> QED
      BY <3>1 DEF CallOK
  <2> QED
    BY <2>1, <2>2
<1>2. NoEventVanishes'
  BY DEF QInv, NoEventVanishes, TypeOK
<1>3. ReceiptsAreTrue'
  BY DEF ReceiptsAreTrue
<1> QED
  BY <1>1, <1>2, <1>3 DEF QInv

\* A store queues an event, or time passes: no processor is concerned.
LEMMA QueueingKeeps ==
  ASSUME QInv, NEW e \in Events,
         CreateEvent(e) \/ WriteEvent(e) \/ WriterDies(e) \/ AttemptComesDue(e)
  PROVE  QInv'
<1> USE DEF QInv
<1>1. CASE CreateEvent(e)
  BY <1>1 DEF CreateEvent, TypeOK, NoEventVanishes, ReceiptsAreTrue, CallOK
<1>2. CASE WriteEvent(e)
  BY <1>2 DEF WriteEvent, TypeOK, NoEventVanishes, ReceiptsAreTrue, CallOK
<1>3. CASE WriterDies(e)
  BY <1>3 DEF WriterDies, TypeOK, NoEventVanishes, ReceiptsAreTrue, CallOK
<1>4. CASE AttemptComesDue(e)
  <2>1. attempts[e] \in AttemptFiles /\ [attempts[e] EXCEPT !.due = TRUE] \in AttemptFiles
    BY DEF TypeOK, AttemptFiles
  <2>2. TypeOK'
    BY <1>4, <2>1 DEF AttemptComesDue, TypeOK
  <2> QED
    BY <1>4, <2>2 DEF AttemptComesDue, NoEventVanishes, ReceiptsAreTrue, CallOK
<1> QED
  BY <1>1, <1>2, <1>3, <1>4

LEMMA LockAgesKeeps == ASSUME QInv, LockAges PROVE QInv'
<1>1. lock' \in Locks
  BY DEF LockAges, QInv, TypeOK, Locks
<1> QED
  BY <1>1 DEF LockAges, QInv, TypeOK, files, NoEventVanishes, ReceiptsAreTrue, CallOK

\* A processor moves to a place where it needs no event, whatever it does to the lock.
LEMMA PlacedKeeps ==
  ASSUME QInv, NEW p \in Processors, NEW c \in Calls, c.pc \notin Handling,
         proc' = [proc EXCEPT ![p] = c], lock' \in Locks, UNCHANGED files
  PROVE  QInv'
<1>1. TypeOK'
  BY DEF QInv, TypeOK, files
<1>2. proc'[p] = c /\ \A q \in Processors : q # p => proc'[q] = proc[q]
  BY DEF QInv, TypeOK
<1>3. CallOK(c, receipts', dead', invalid', uploaded')
  BY DEF CallOK, Handling
<1> QED
  BY <1>1, <1>2, <1>3, Grows DEF QInv, files, ReceiptsAreTrue

\* A place without an event, and the lock types, as the actions use them.
LEMMA Places ==
  ASSUME QInv, NEW p \in Processors
  PROVE  /\ Idle \in Calls /\ [Idle EXCEPT !.pc = "dead"] \in Calls
         /\ \A pc \in {"write_lock", "read_lock", "unlock", "relock", "list"} :
              /\ [proc[p] EXCEPT !.pc = pc] \in Calls
              /\ [proc[p] EXCEPT !.pc = pc].pc \notin Handling
         /\ Idle.pc \notin Handling /\ [Idle EXCEPT !.pc = "dead"].pc \notin Handling
         /\ [owner |-> p, whole |-> FALSE, old |-> FALSE] \in Locks
         /\ None \in Locks
<1>1. proc[p] \in Calls
  BY DEF QInv, TypeOK
<1>2. [owner |-> p, whole |-> FALSE, old |-> FALSE] \in Locks /\ None \in Locks
  BY DEF Locks
<1>3. Idle \in Calls /\ [Idle EXCEPT !.pc = "dead"] \in Calls
  BY QueueAssumption DEF Idle, Calls
<1>4. Idle.pc \notin Handling /\ [Idle EXCEPT !.pc = "dead"].pc \notin Handling
  BY DEF Idle, Handling
<1> QED
  BY <1>1, <1>2, <1>3, <1>4 DEF Calls, Handling

\* Actions on the lock: no file changes and no event is in hand.
LEMMA LockingKeeps ==
  ASSUME QInv, NEW p \in Processors,
         Start(p) \/ WriteLock(p) \/ ReadLock(p) \/ RemoveLock(p) \/ Relock(p) \/ Release(p) \/ Die(p)
  PROVE  QInv'
<1>1. lock \in Locks /\ proc[p] \in Calls
  BY DEF QInv, TypeOK
<1>2. CASE Start(p)
  BY <1>1, <1>2, Places, PlacedKeeps DEF Start, CreateLock, Goto
<1>3. CASE WriteLock(p)
  <2>1. lock' \in Locks
    BY <1>1, <1>3 DEF WriteLock, Locks
  <2> QED
    BY <1>3, <2>1, Places, PlacedKeeps DEF WriteLock, Goto
<1>4. CASE ReadLock(p)
  BY <1>1, <1>4, Places, PlacedKeeps DEF ReadLock, Goto, Return
<1>5. CASE RemoveLock(p)
  BY <1>5, Places, PlacedKeeps DEF RemoveLock, Goto
<1>6. CASE Relock(p)
  BY <1>1, <1>6, Places, PlacedKeeps DEF Relock, CreateLock, Goto, Return
<1>7. CASE Release(p)
  BY <1>1, <1>7, Places, PlacedKeeps DEF Release, Return
<1>8. CASE Die(p)
  BY <1>1, <1>8, Places, PlacedKeeps DEF Die
<1> QED
  BY <1>2, <1>3, <1>4, <1>5, <1>6, <1>7, <1>8

\* What a processor has in hand at each place, and what it may pass on.
LEMMA InHand ==
  ASSUME QInv, NEW p \in Processors
  PROVE  /\ proc[p] \in Calls
         /\ CallOK(proc[p], receipts, dead, invalid, uploaded)
         /\ proc[p].pc \in Handling => E(p) \in Events
         /\ \A pc \in Handling \cup {"next"} : [proc[p] EXCEPT !.pc = pc] \in Calls
BY DEF QInv, TypeOK, CallOK, Calls, Handling, E

\* The place of a processor after Goto, as the next lemmas need it.
LEMMA Gone ==
  ASSUME QInv, NEW p \in Processors, NEW pc \in Handling \cup {"next"}, Goto(p, pc)
  PROVE  /\ proc' \in [Processors -> Calls]
         /\ \A q \in Processors : q # p => proc'[q] = proc[q]
         /\ proc'[p].pc = pc /\ proc'[p].event = E(p) /\ proc'[p].tries = proc[p].tries
<1>1. proc \in [Processors -> Calls]
  BY DEF QInv, TypeOK
<1>2. proc[p] \in Calls
  BY <1>1
<1>3. [proc[p] EXCEPT !.pc = pc] \in Calls
  BY InHand
<1>4. proc' = [proc EXCEPT ![p] = [proc[p] EXCEPT !.pc = pc]]
  BY DEF Goto
<1>5. proc'[p] = [proc[p] EXCEPT !.pc = pc] /\ \A q \in Processors : q # p => proc'[q] = proc[q]
  BY <1>1, <1>4
<1>6. proc' \in [Processors -> Calls]
  BY <1>1, <1>3, <1>4
<1> QED
  BY <1>2, <1>5, <1>6 DEF Calls, E

LEMMA ListEventsKeeps == ASSUME QInv, NEW p \in Processors, ListEvents(p) PROVE QInv'
<1>. DEFINE T == {e \in Events : pending[e] # "none"}
            c == [proc[p] EXCEPT !.pc = "next", !.todo = T]
<1>1. proc[p] \in Calls /\ proc \in [Processors -> Calls]
  BY DEF QInv, TypeOK
<1>2. T \in SUBSET Events
  OBVIOUS
<1>3. c \in Calls /\ c.pc \notin Handling
  <2> HIDE DEF T
  <2> QED
    BY <1>1, <1>2 DEF Calls, Handling
<1>4. proc' = [proc EXCEPT ![p] = c]
  BY DEF ListEvents
<1>5. lock' \in Locks /\ UNCHANGED files
  BY DEF ListEvents, QInv, TypeOK
<1> HIDE DEF c
<1> QED
  BY <1>3, <1>4, <1>5, PlacedKeeps

LEMMA TakeEventKeeps == ASSUME QInv, NEW p \in Processors, TakeEvent(p) PROVE QInv'
<1>1. proc[p] \in Calls /\ proc \in [Processors -> Calls]
  BY DEF QInv, TypeOK
<1>2. PICK e \in proc[p].todo :
        LET rest == proc[p].todo \ {e}
            On(pc, tries) == [pc |-> pc, todo |-> rest, event |-> e, tries |-> tries] IN
        /\ proc' = [proc EXCEPT ![p] =
                      IF pending[e] # "whole" THEN On("drop", 0)
                      ELSE IF e \in receipts THEN On("remove", 0)
                      ELSE IF ~attempts[e].due THEN [@ EXCEPT !.todo = rest]
                      ELSE On("upload", attempts[e].count + 1)]
        /\ invalid' = IF pending[e] # "whole" THEN invalid \cup {e} ELSE invalid
  BY DEF TakeEvent
<1>. DEFINE rest == proc[p].todo \ {e}
            On(pc, tries) == [pc |-> pc, todo |-> rest, event |-> e, tries |-> tries]
            c == IF pending[e] # "whole" THEN On("drop", 0)
                 ELSE IF e \in receipts THEN On("remove", 0)
                 ELSE IF ~attempts[e].due THEN [proc[p] EXCEPT !.todo = rest]
                 ELSE On("upload", attempts[e].count + 1)
<1>3. e \in Events /\ rest \in SUBSET Events
  BY <1>1 DEF Calls
<1>4. proc' = [proc EXCEPT ![p] = c]
  BY <1>2
<1>5. UNCHANGED <<lock, pending, writer, attempts, receipts, dead, uploaded>> /\ proc[p].pc = "next"
  BY DEF TakeEvent, At
<1>6. invalid \subseteq invalid' /\ invalid' \subseteq Events /\ (pending[e] # "whole" => e \in invalid')
  BY <1>2, <1>3 DEF QInv, TypeOK
<1>7. attempts[e].count + 1 \in 1 .. MaxAttempts
  BY <1>3, QueueAssumption DEF QInv, TypeOK, AttemptFiles
<1>8. c \in Calls /\ CallOK(c, receipts, dead, invalid', uploaded)
  <2>1. CASE pending[e] # "whole"
    <3>1. c = On("drop", 0) /\ e \in invalid'
      BY <2>1, <1>6
    <3> HIDE DEF rest, c
    <3> QED
      BY <3>1, <1>3, QueueAssumption DEF Calls, CallOK, Handling
  <2>2. CASE pending[e] = "whole" /\ e \in receipts
    <3>1. c = On("remove", 0)
      BY <2>2
    <3> HIDE DEF rest, c
    <3> QED
      BY <3>1, <2>2, <1>3, QueueAssumption DEF Calls, CallOK, Handling
  <2>3. CASE pending[e] = "whole" /\ e \notin receipts /\ ~attempts[e].due
    <3>1. c = [proc[p] EXCEPT !.todo = rest]
      BY <2>3
    <3>2. [proc[p] EXCEPT !.todo = rest] \in Calls /\ [proc[p] EXCEPT !.todo = rest].pc = "next"
      <4> HIDE DEF rest
      <4> QED
        BY <1>1, <1>3, <1>5 DEF Calls
    <3> HIDE DEF rest, c
    <3> QED
      BY <3>1, <3>2 DEF CallOK, Handling
  <2>4. CASE pending[e] = "whole" /\ e \notin receipts /\ attempts[e].due
    <3>1. c = On("upload", attempts[e].count + 1)
      BY <2>4
    <3> HIDE DEF rest, c
    <3> QED
      BY <3>1, <1>3, <1>7, QueueAssumption DEF Calls, CallOK, Handling
  <2> HIDE DEF c
  <2> QED
    BY <2>1, <2>2, <2>3, <2>4
<1> HIDE DEF c
<1>9. proc' \in [Processors -> Calls] /\ proc'[p] = c
      /\ \A q \in Processors : q # p => proc'[q] = proc[q]
  BY <1>1, <1>4, <1>8
<1>10. TypeOK'
  BY <1>5, <1>6, <1>9 DEF QInv, TypeOK
<1> QED
  BY <1>5, <1>6, <1>8, <1>9, <1>10, Grows DEF QInv, ReceiptsAreTrue

\* The steps on one event: the file, the receipt and the dead letter in their order.
LEMMA HandlingKeeps ==
  ASSUME QInv, NEW p \in Processors,
         DropEvent(p) \/ Upload(p) \/ WriteReceipt(p) \/ AttemptFails(p)
         \/ RemoveEvent(p) \/ RemoveAttempt(p)
  PROVE  QInv'
<1>1. /\ proc[p] \in Calls
      /\ CallOK(proc[p], receipts, dead, invalid, uploaded)
      /\ proc[p].pc \in Handling => E(p) \in Events
  BY InHand
<1>2. /\ lock \in Locks
      /\ pending \in [Events -> {"none", "empty", "whole"}]
      /\ writer \in [Events -> {"none", "writing", "queued", "died"}]
      /\ attempts \in [Events -> AttemptFiles]
      /\ receipts \subseteq Events /\ dead \subseteq Events
      /\ invalid \subseteq Events /\ uploaded \subseteq Events
      /\ receipts \subseteq uploaded
  BY DEF QInv, TypeOK, ReceiptsAreTrue
<1>3. CASE DropEvent(p)
  <2>1. Goto(p, "next") /\ E(p) \in Events /\ E(p) \in invalid
    BY <1>1, <1>3 DEF DropEvent, At, CallOK, Handling, E
  <2>2. /\ pending' = [pending EXCEPT ![E(p)] = "none"]
        /\ UNCHANGED <<lock, writer, attempts, receipts, dead, invalid, uploaded>>
    BY <1>3 DEF DropEvent
  <2>3. TypeOK'
    BY <2>1, <2>2, <1>2, Gone DEF TypeOK
  <2>4. CallOK(proc'[p], receipts', dead', invalid', uploaded')
    BY <2>1, Gone DEF CallOK, Handling
  <2> QED
    BY <2>1, <2>2, <2>3, <2>4, <1>2, Gone, Grows
<1>4. CASE Upload(p)
  <2>1. PICK pc \in {"receipt", "failed"} :
          Goto(p, pc) /\ (pc = "receipt" => E(p) \in uploaded')
    BY <1>4 DEF Upload
  <2>2. /\ uploaded \subseteq uploaded' /\ uploaded' \subseteq Events
        /\ UNCHANGED <<lock, pending, writer, attempts, receipts, dead, invalid>>
        /\ E(p) \in Events /\ proc[p].tries > 0
    BY <1>4, <1>1, <1>2 DEF Upload, At, CallOK, Handling, E
  <2>3. TypeOK'
    BY <2>1, <2>2, <1>2, Gone DEF TypeOK, Handling
  <2>4. CallOK(proc'[p], receipts', dead', invalid', uploaded')
    BY <2>1, <2>2, Gone DEF CallOK, Handling
  <2> QED
    BY <2>1, <2>2, <2>3, <2>4, <1>2, Gone, Grows DEF Handling
<1>5. CASE WriteReceipt(p)
  <2>1. PICK pc \in {"failed", "remove"} : Goto(p, pc)
    BY <1>5 DEF WriteReceipt
  <2>2. /\ receipts' = receipts \cup {E(p)}
        /\ UNCHANGED <<lock, pending, writer, attempts, dead, invalid, uploaded>>
        /\ E(p) \in Events /\ proc[p].tries > 0 /\ E(p) \in uploaded
    BY <1>5, <1>1 DEF WriteReceipt, At, CallOK, Handling, E
  <2>3. TypeOK'
    BY <2>1, <2>2, <1>2, Gone DEF TypeOK, Handling
  <2>4. CallOK(proc'[p], receipts', dead', invalid', uploaded')
    BY <2>1, <2>2, Gone DEF CallOK, Handling
  <2> QED
    BY <2>1, <2>2, <2>3, <2>4, <1>2, Gone, Grows DEF Handling
<1>6. CASE AttemptFails(p)
  <2>1. E(p) \in Events /\ proc[p].tries \in 1 .. MaxAttempts
    BY <1>6, <1>1, QueueAssumption DEF AttemptFails, At, CallOK, Handling, E, Calls
  <2>2. UNCHANGED <<lock, pending, writer, receipts, invalid, uploaded>>
    BY <1>6 DEF AttemptFails
  <2>3. CASE dead' = dead \cup {E(p)} /\ Goto(p, "remove") /\ UNCHANGED attempts
    <3>1. TypeOK'
      BY <2>1, <2>2, <2>3, <1>2, Gone DEF TypeOK, Handling
    <3>2. CallOK(proc'[p], receipts', dead', invalid', uploaded')
      BY <2>1, <2>3, Gone DEF CallOK, Handling
    <3> QED
      BY <2>1, <2>2, <2>3, <3>1, <3>2, <1>2, Gone, Grows DEF Handling
  <2>4. CASE /\ proc[p].tries < MaxAttempts
             /\ attempts' = [attempts EXCEPT ![E(p)] = [count |-> proc[p].tries, due |-> FALSE]]
             /\ Goto(p, "next")
             /\ UNCHANGED dead
    <3>1. [count |-> proc[p].tries, due |-> FALSE] \in AttemptFiles
      BY <2>1, <2>4, QueueAssumption DEF AttemptFiles
    <3>2. attempts' \in [Events -> AttemptFiles]
      BY <2>4, <3>1, <1>2
    <3>3. TypeOK'
      BY <2>2, <2>4, <3>2, <1>2, Gone DEF TypeOK
    <3>4. CallOK(proc'[p], receipts', dead', invalid', uploaded')
      BY <2>4, Gone DEF CallOK, Handling
    <3> QED
      BY <2>2, <2>4, <3>3, <3>4, <1>2, Gone, Grows
  <2> QED
    BY <1>6, <2>3, <2>4 DEF AttemptFails
<1>7. CASE RemoveEvent(p)
  <2>1. Goto(p, "forget") /\ E(p) \in Events /\ E(p) \in receipts \cup dead
    BY <1>1, <1>7 DEF RemoveEvent, At, CallOK, Handling, E
  <2>2. /\ pending' = [pending EXCEPT ![E(p)] = "none"]
        /\ UNCHANGED <<lock, writer, attempts, receipts, dead, invalid, uploaded>>
    BY <1>7 DEF RemoveEvent
  <2>3. TypeOK'
    BY <2>1, <2>2, <1>2, Gone DEF TypeOK, Handling
  <2>4. CallOK(proc'[p], receipts', dead', invalid', uploaded')
    BY <2>1, Gone DEF CallOK, Handling
  <2> QED
    BY <2>1, <2>2, <2>3, <2>4, <1>2, Gone, Grows DEF Handling
<1>8. CASE RemoveAttempt(p)
  <2>1. /\ Goto(p, "next")
        /\ attempts' = [attempts EXCEPT ![E(p)] = NoAttempt]
        /\ UNCHANGED <<lock, pending, writer, receipts, dead, invalid, uploaded>>
    BY <1>8 DEF RemoveAttempt
  <2>2. attempts' \in [Events -> AttemptFiles]
    <3>1. NoAttempt \in AttemptFiles
      BY QueueAssumption DEF NoAttempt, AttemptFiles
    <3> QED
      BY <2>1, <3>1, <1>2
  <2>3. TypeOK'
    BY <2>1, <2>2, <1>2, Gone DEF TypeOK
  <2>4. CallOK(proc'[p], receipts', dead', invalid', uploaded')
    BY <2>1, Gone DEF CallOK, Handling
  <2> QED
    BY <2>1, <2>3, <2>4, <1>2, Gone, Grows
<1> QED
  BY <1>3, <1>4, <1>5, <1>6, <1>7, <1>8

LEMMA QInvStep == QInv /\ [Next]_vars => QInv'
<1> SUFFICES ASSUME QInv, [Next]_vars PROVE QInv'
  OBVIOUS
<1>1. ASSUME NEW e \in Events,
             CreateEvent(e) \/ WriteEvent(e) \/ WriterDies(e) \/ AttemptComesDue(e)
      PROVE  QInv'
  BY <1>1, QueueingKeeps
<1>2. ASSUME NEW p \in Processors, Start(p) \/ Run(p) \/ Die(p)
      PROVE  QInv'
  BY <1>2, LockingKeeps, ListEventsKeeps, TakeEventKeeps, HandlingKeeps DEF Run
<1>3. CASE LockAges
  BY <1>3, LockAgesKeeps
<1>4. CASE UNCHANGED vars
  BY <1>4 DEF vars, QInv, TypeOK, CallOK, NoEventVanishes, ReceiptsAreTrue
<1> QED
  BY <1>1, <1>2, <1>3, <1>4 DEF Next

-----------------------------------------------------------------------------

\* Type correctness of the queue's files and processors; attempts stay below
\* maxAttempts, whoever counts them.
THEOREM QueueTypes == Spec => []TypeOK
<1>1. QInv => TypeOK
  BY DEF QInv
<1> QED
  BY <1>1, QInvInit, QInvStep, PTL DEF Spec

\* An event leaves pending/ only for a receipt or a dead letter, although two
\* processors may hold the lock together (RemoveLock).
THEOREM NothingVanishes == Spec => []NoEventVanishes
<1>1. QInv => NoEventVanishes
  BY DEF QInv
<1> QED
  BY <1>1, QInvInit, QInvStep, PTL DEF Spec

\* A receipt is only left for a snapshot that is in the bucket.
THEOREM TrueReceipts == Spec => []ReceiptsAreTrue
<1>1. QInv => ReceiptsAreTrue
  BY DEF QInv
<1> QED
  BY <1>1, QInvInit, QInvStep, PTL DEF Spec

=============================================================================
