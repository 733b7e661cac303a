----------------------------- MODULE MCDmsUpload -----------------------------
(* Small instances of DmsUpload for TLC. *)
EXTENDS DmsUpload, TLC

CONSTANTS s1, s2, s3, d1, c1, c2, r1, r2, w1, w2

AllOfD1 == [s \in Sessions |-> d1]

\* Each run under its own worker id, or two overlapping runs of one worker.
OwnWorker == [r \in Reconcilers |-> IF r = r1 THEN w1 ELSE w2]
SameWorker == [r \in Reconcilers |-> w1]

Everyone == Procs

\* Sessions of one document, and handlers, are alike.
Alike == Permutations(Sessions) \cup Permutations(Clients)

\* Calls beside each other while no deadline passes.
UntimedSpec == Init /\ [][Next /\ ~\E s \in Sessions : Elapse(s)]_vars

==============================================================================
