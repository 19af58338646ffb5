------------------------------ MODULE Library ------------------------------
(***************************************************************************)
(* What app/documents promises of a file (documents/__init__.py:1-10 and   *)
(* the status column): it waits, is read once, and is then found by a      *)
(* search or has failed.  Only an upload or a re-index makes it wait       *)
(* again, which takes it out of the index; a document removed leaves the   *)
(* index with its row, and neither comes back.                             *)
(*                                                                         *)
(* One reset is excused: of a document the loop has in hand.  It may leave *)
(* the document in the index while it waits.                               *)
(***************************************************************************)
CONSTANT Ids

VARIABLES state,   \* how far each document is
          shown,   \* those a search finds
          excused  \* those reset while the loop had them in hand

vars == <<state, shown, excused>>

Here == {d \in Ids : state[d] \in {"pending", "indexed", "failed"}}

Init ==
    /\ state = [d \in Ids |-> "unknown"]
    /\ shown = {} /\ excused = {}

Add(d) ==
    /\ state[d] = "unknown"
    /\ state' = [state EXCEPT ![d] = "pending"]
    /\ UNCHANGED <<shown, excused>>

\* It is read, and goes into the index, or fails and is as it was there.
Decide(d) ==
    /\ state[d] = "pending"
    /\ \/ state' = [state EXCEPT ![d] = "indexed"] /\ shown' = shown \cup {d}
       \/ state' = [state EXCEPT ![d] = "failed"] /\ UNCHANGED shown
    /\ UNCHANGED excused

Reset(d) ==
    /\ d \in Here
    /\ state' = [state EXCEPT ![d] = "pending"]
    /\ \/ shown' = shown \ {d} /\ excused' \in {excused, excused \cup {d}}
       \/ UNCHANGED shown /\ excused' = excused \cup {d}

Remove(D) ==
    /\ D \subseteq Here
    /\ state' = [d \in Ids |-> IF d \in D THEN "deleted" ELSE state[d]]
    /\ shown' = shown \ D
    /\ excused' = excused \ D

Next ==
    \/ \E d \in Ids : Add(d) \/ Decide(d) \/ Reset(d)
    \/ \E D \in SUBSET Ids : Remove(D)

Spec == Init /\ [][Next]_vars
=============================================================================
