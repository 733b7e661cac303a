----------------------------- MODULE DmsPublication -----------------------------
(***************************************************************************)
(* What the upload runtime promises to the readers of a document: bytes    *)
(* become durable at any time, a version becomes visible in one step, with *)
(* a number of its own and only over durable bytes, a document with        *)
(* versions always has a current one, and a closed upload is never         *)
(* published.  A version below the current one is not made current, unless *)
(* the document had another current version before.                        *)
(***************************************************************************)
EXTENDS Integers

CONSTANTS Sessions, Documents, DocOf, Versions, None

VARIABLES
  phase,    \* of each upload: none, open, published or closed
  number,   \* the version number it asks for, 0 before it is opened
  durable,  \* uploads whose object exists at its committed key
  latest    \* the version a reader of the document gets

vars == <<phase, number, durable, latest>>

Init ==
  /\ phase = [s \in Sessions |-> "none"]
  /\ number = [s \in Sessions |-> 0]
  /\ durable = {}
  /\ latest = [d \in Documents |-> None]

Open(s) ==
  /\ phase[s] = "none"
  /\ phase' = [phase EXCEPT ![s] = "open"]
  /\ \E v \in Versions : number' = [number EXCEPT ![s] = v]
  /\ UNCHANGED <<durable, latest>>

\* Storage and metadata are separate systems: a late writer may store the bytes
\* of an upload that is already closed.
Store(s) ==
  /\ durable' = durable \cup {s}
  /\ UNCHANGED <<phase, number, latest>>

Publish(s) ==
  /\ phase[s] = "open" /\ s \in durable
  /\ \A t \in Sessions : phase[t] = "published" /\ DocOf[t] = DocOf[s]
                           => number[t] # number[s]
  /\ phase' = [phase EXCEPT ![s] = "published"]
  /\ LET c == latest[DocOf[s]]
         passed == c # None /\ number[c] > number[s]
     IN
     \/ passed /\ UNCHANGED latest
     \/ /\ passed => \E t \in Sessions \ {c} : phase[t] = "published" /\ DocOf[t] = DocOf[s]
        /\ latest' = [latest EXCEPT ![DocOf[s]] = s]
  /\ UNCHANGED <<number, durable>>

Close(s) ==
  /\ phase[s] = "open"
  /\ phase' = [phase EXCEPT ![s] = "closed"]
  /\ UNCHANGED <<number, durable, latest>>

Next == \E s \in Sessions : Open(s) \/ Store(s) \/ Publish(s) \/ Close(s)

Spec == Init /\ [][Next]_vars

================================================================================
