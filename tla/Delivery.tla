------------------------------ MODULE Delivery ------------------------------
(***************************************************************************)
(* What the gateway's retry queue promises (queue.js:4-10): every message  *)
(* that arrives is held until it is settled, and stays settled.  Settled   *)
(* is taken or refused by the app, set aside, or reported as lost.  What   *)
(* is settled may still be held, and so be delivered again.                *)
(*                                                                         *)
(* The promise is off from the moment one of the loss windows RetryQueue   *)
(* names is hit; even then nothing that was settled is unsettled.          *)
(***************************************************************************)
EXTENDS Integers

CONSTANT N  \* messages, in the order of their arrival

VARIABLES arrived,  \* how many have arrived
          held,     \* those the gateway has in hand
          settled,
          broken    \* a window was hit

vars == <<arrived, held, settled, broken>>

Init == arrived = 0 /\ held = {} /\ settled = {} /\ broken = FALSE

\* What is not settled is held.
Keeps == 1..arrived' \subseteq held' \cup settled' /\ held' \subseteq 1..arrived'

\* A message arrives.  It, and others that were held, may be reported lost at once.
Arrives ==
    /\ arrived < N /\ arrived' = arrived + 1
    /\ settled \subseteq settled' /\ settled' \subseteq settled \cup held \cup {arrived'}
    /\ Keeps
    /\ UNCHANGED broken

\* Only what is held is settled; what is settled may leave, or be held again
\* after a crash.
Settles ==
    /\ settled \subseteq settled' /\ settled' \subseteq settled \cup held
    /\ Keeps
    /\ UNCHANGED <<arrived, broken>>

Breaks ==
    /\ broken' = TRUE
    /\ arrived' \in {arrived, arrived + 1}
    /\ settled \subseteq settled'

Next == Arrives \/ Settles \/ Breaks

Spec == Init /\ [][Next]_vars
=============================================================================
