--------------------------- MODULE OneConnection ---------------------------
(***************************************************************************)
(* What the supervisor promises of one channel (supervisor.js:1, 8-18): it *)
(* runs as at most one configuration has it, by one holder; from one to    *)
(* the next it is let go of, with its connection; and nobody but the       *)
(* holder is connected.  Who was let go of while it was reading, before it *)
(* had a connection, may connect once more: a ghost.                       *)
(***************************************************************************)
CONSTANTS Holders, NoHolder, Configs, Off

VARIABLES holder, config,  \* who runs the channel, and as what
          connected,       \* those with a connection
          ghosts

vars == <<holder, config, connected, ghosts>>

Init == holder = NoHolder /\ config = Off /\ connected = {} /\ ghosts = {}

\* Only what nobody holds is taken, by somebody who has nothing left of before.
Takes(h, c) ==
    /\ holder = NoHolder /\ config = Off
    /\ h \notin connected \cup ghosts
    /\ holder' = h /\ config' = c
    /\ UNCHANGED <<connected, ghosts>>

LetsGo ==
    /\ holder # NoHolder
    /\ holder' = NoHolder /\ config' = Off
    /\ connected' = connected \ {holder}
    /\ \/ UNCHANGED ghosts
       \/ holder \notin connected /\ ghosts' = ghosts \cup {holder}

Connects(h) ==
    /\ h = holder \/ h \in ghosts
    /\ connected' = connected \cup {h}
    /\ UNCHANGED <<holder, config, ghosts>>

\* Or gives up; a ghost does not try again.
Disconnects(h) ==
    /\ connected' = connected \ {h}
    /\ ghosts' = ghosts \ {h}
    /\ UNCHANGED <<holder, config>>

Restarts ==
    /\ holder' = NoHolder /\ config' = Off
    /\ connected' = {} /\ ghosts' = {}

Next ==
    \/ \E h \in Holders :
         \/ \E c \in Configs : Takes(h, c)
         \/ Connects(h)
         \/ Disconnects(h)
    \/ LetsGo
    \/ Restarts

Spec == Init /\ [][Next]_vars
=============================================================================
