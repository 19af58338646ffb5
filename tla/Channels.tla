------------------------------ MODULE Channels ------------------------------
(***************************************************************************)
(* One channel of the gateway, WhatsApp, which has every behaviour the     *)
(* others have and pairs with a phone besides: the supervisor that starts, *)
(* restarts and stops it to match the app's configuration, the channel's   *)
(* own reconnecting, and its reports to the app, which keeps the last one. *)
(*                                                                         *)
(* The gateway is one event loop: an action is the code between two        *)
(* awaits.  Each start makes a new instance with a state and timers of its *)
(* own, and an instance that was stopped still gets its pending callbacks. *)
(*                                                                         *)
(* What a report says is one of three: "qr" (a code to scan), "on"         *)
(* (connected) or "off" (neither).  The supervisor's own blank report,     *)
(* which it awaits, is "gone".  The lists of groups in the reports, and    *)
(* the members table they fill, are left out.                              *)
(***************************************************************************)
EXTENDS Integers, FiniteSets

CONSTANTS
    Configs,     \* what the admin may enter for the channel
    Off,         \* the channel is disabled
    Instances,
    None,        \* no instance
    MaxChanges,  \* a bound on what the admin and the phone's owner do
    MaxFaults    \* a bound on lost requests, closed sockets, failures, restarts

ASSUME ChannelAssumption ==
    /\ Off \notin Configs /\ None \notin Instances
    /\ MaxChanges \in Nat /\ MaxFaults \in Nat

VARIABLES
    \* the app
    wanted,       \* the configuration in its table, Off when disabled
    wish,         \* the admin asked to pair again
    shown,        \* the last report
    flight,       \* reports the app has not seen yet
    \* the supervisor
    step,         \* where sync is
    cfg, asked,   \* what /gateway/config returned to it
    current,      \* the instance it runs, or is starting
    fingerprint,  \* and its configuration
    \* the instances
    phase,        \* of the connection
    said,         \* their state, as they report it
    stopped,      \* those with the stopped flag
    listing,      \* those whose open handler awaits the list of groups
    relinking,    \* those with the relinking flag
    \* the pairing
    creds,        \* whether the disk has an identity
    linked,       \* whether the phone accepts it
    \* bounds, and history
    changes, faults,
    raced         \* instances stopped while they were reading their identity

app == <<wanted, wish, shown>>
sync == <<step, cfg, asked, current, fingerprint>>
instances == <<phase, said, stopped, listing, relinking>>
pairing == <<creds, linked>>
vars == <<app, flight, sync, instances, pairing, changes, faults, raced>>

Init ==
    /\ wanted \in Configs \cup {Off} /\ wish = FALSE /\ shown = "off"
    /\ flight = {}
    /\ step = "idle" /\ cfg = Off /\ asked = FALSE
    /\ current = None /\ fingerprint = Off
    /\ phase = [i \in Instances |-> "gone"] /\ said = [i \in Instances |-> "off"]
    /\ stopped = {} /\ listing = {} /\ relinking = {}
    /\ creds \in BOOLEAN /\ linked = creds
    /\ changes = 0 /\ faults = 0 /\ raced = {}

Change == changes < MaxChanges /\ changes' = changes + 1
Fault == faults < MaxFaults /\ faults' = faults + 1

Live(i) == phase[i] \in {"up", "open"}
-----------------------------------------------------------------------------
(* The admin, and the owner of the phone. *)

Configures(w) ==
    /\ Change
    /\ w # wanted
    /\ wanted' = w
    /\ UNCHANGED <<wish, shown, flight, sync, instances, pairing, faults, raced>>

AsksRelink ==
    /\ Change
    /\ wish' = TRUE
    /\ UNCHANGED <<wanted, shown, flight, sync, instances, pairing, faults, raced>>

Scans(i) ==
    /\ phase[i] = "up" /\ said[i] = "qr" /\ ~creds
    /\ creds' = TRUE /\ linked' = TRUE
    /\ UNCHANGED <<app, flight, sync, instances, changes, faults, raced>>

Unlinks ==
    /\ Change
    /\ linked
    /\ linked' = FALSE
    /\ UNCHANGED <<app, flight, sync, instances, creds, faults, raced>>
-----------------------------------------------------------------------------
(* The reports on their way, which may overtake each other. *)

\* mutant: the supervisor's report is kept as it came.
TakesAsIs(r) ==
    /\ r \in flight
    /\ flight' = flight \ {r}
    /\ shown' = r
    /\ UNCHANGED <<wanted, wish, sync, instances, pairing, changes, faults, raced>>

\* /gateway/state: the last report replaces what was there.
Takes(r) ==
    /\ r \in flight
    /\ flight' = flight \ {r}
    /\ shown' = IF r = "gone" THEN "off" ELSE r
    /\ UNCHANGED <<wanted, wish, sync, instances, pairing, changes, faults, raced>>

\* core.post logs a failure, and that is all.
Loses(r) ==
    /\ r \in flight
    /\ Fault
    /\ flight' = flight \ {r}
    /\ UNCHANGED <<app, sync, instances, pairing, changes, raced>>

\* gateway_state is in memory.
AppRestarts ==
    /\ Fault
    /\ wish' = FALSE /\ shown' = "off"
    /\ UNCHANGED <<wanted, flight, sync, instances, pairing, changes, raced>>
-----------------------------------------------------------------------------
(* supervisor.sync, from one await to the next. *)

SyncAsks ==
    /\ step = "idle"
    /\ step' = "asking"
    /\ UNCHANGED <<app, flight, cfg, asked, current, fingerprint, instances, pairing,
                   changes, faults, raced>>

\* mutant: sync ends without a report.
FinishQuietly(r) ==
    /\ step' = "idle"
    /\ UNCHANGED flight

\* The end of sync: what runs, if anything, reports.
Finish(r) ==
    /\ step' = "idle"
    /\ flight' = flight \cup {said'[i] : i \in {r} \ {None}}

\* The third part: the wish to pair again goes to what runs, which ignores it
\* unless it is connected.
Relinks(r, ask) ==
    LET heard == ask /\ r # None /\ said[r] = "on" /\ r \notin relinking IN
    \/ /\ heard
       /\ relinking' = relinking \cup {r}
       /\ step' = "relinking"
       /\ UNCHANGED flight
    \/ /\ ~heard
       /\ UNCHANGED relinking
       /\ Finish(r)

\* The second part: what is wanted and does not run is started, as a new
\* instance, which first reads its identity from the disk.
Starts(want) ==
    LET i == CHOOSE i \in Instances : phase[i] = "gone" /\ i \notin listing IN
    /\ \E j \in Instances : phase[j] = "gone" /\ j \notin listing
    /\ step' = "starting"
    /\ current' = i /\ fingerprint' = want
    /\ phase' = [phase EXCEPT ![i] = "loading"]
    /\ said' = [said EXCEPT ![i] = "off"]
    /\ stopped' = stopped \ {i} /\ relinking' = relinking \ {i}
    /\ raced' = raced \ {i}
    /\ UNCHANGED <<flight, listing>>

\* mutant: what runs is only told its new configuration.
TellsIt ==
    /\ fingerprint' = wanted
    /\ UNCHANGED <<current, phase, said, stopped, listing, relinking, raced>>
    /\ Finish(current)

\* The first part: what runs and is not wanted as it is gets stopped.  Its
\* socket ends; a timer, or a read of the identity, is not called off.
Stops ==
    /\ step' = "blanking"
    /\ current' = None /\ fingerprint' = Off
    /\ stopped' = stopped \cup {current}
    /\ raced' = IF phase[current] = "loading" THEN raced \cup {current} ELSE raced
    /\ phase' = [phase EXCEPT ![current] =
                    IF @ \in {"up", "open", "failed"} THEN "gone" ELSE @]
    /\ said' = [said EXCEPT ![current] = IF @ = "on" THEN "off" ELSE @]
    /\ flight' = flight \cup {"gone"}
    /\ UNCHANGED <<listing, relinking>>

\* /gateway/config, which clears the wish as it hands it out.
SyncServed ==
    /\ step = "asking"
    /\ wish' = FALSE
    /\ cfg' = wanted /\ asked' = wish
    /\ \/ current # None /\ fingerprint # wanted /\ Stops
       \/ current = None /\ fingerprint # wanted /\ Starts(wanted)
       \/ /\ fingerprint = wanted
          /\ UNCHANGED <<current, fingerprint, phase, said, stopped, listing, raced>>
          /\ Relinks(current, wish)
    /\ UNCHANGED <<wanted, shown, pairing, changes, faults>>

\* No answer, though the app may have given one: the channel stays as it is.
SyncFails ==
    /\ step = "asking"
    /\ Fault
    /\ wish' \in {wish, FALSE}
    /\ UNCHANGED <<wanted, shown, cfg, asked, current, fingerprint, instances, pairing,
                   changes, raced>>
    /\ Finish(current)

\* The blank report of a stop has ended, one way or the other.
Blanked ==
    /\ step = "blanking"
    /\ "gone" \notin flight
    /\ \/ cfg # Off /\ Starts(cfg)
       \/ /\ cfg = Off
          /\ UNCHANGED <<current, fingerprint, phase, said, stopped, listing, raced>>
          /\ Relinks(None, asked)
    /\ UNCHANGED <<app, cfg, asked, pairing, changes, faults>>

Started ==
    /\ step = "starting"
    /\ phase[current] = "loading"
    /\ phase' = [phase EXCEPT ![current] = "up"]
    /\ UNCHANGED <<said, stopped, listing, current, fingerprint, raced>>
    /\ Relinks(current, asked)
    /\ UNCHANGED <<app, cfg, asked, pairing, changes, faults>>

\* mutant: the channel counts as running before its start has succeeded.
StartFailsLate ==
    /\ step = "starting"
    /\ Fault
    /\ phase' = [phase EXCEPT ![current] = "gone"]
    /\ step' = "failing"
    /\ flight' = flight \cup {"gone"}
    /\ UNCHANGED <<app, cfg, asked, current, fingerprint, said, stopped, listing,
                   relinking, pairing, changes, raced>>

\* The start throws; the next sync tries again.
StartFails ==
    /\ step = "starting"
    /\ Fault
    /\ phase' = [phase EXCEPT ![current] = "gone"]
    /\ step' = "failing"
    /\ current' = None /\ fingerprint' = Off
    /\ flight' = flight \cup {"gone"}
    /\ UNCHANGED <<app, cfg, asked, said, stopped, listing, relinking, pairing, changes,
                   raced>>

Failed ==
    /\ step = "failing"
    /\ "gone" \notin flight
    /\ UNCHANGED <<app, cfg, asked, current, fingerprint, phase, said, stopped, listing,
                   pairing, changes, faults, raced>>
    /\ Relinks(None, asked)
-----------------------------------------------------------------------------
(* The channel: connect, and the connection.update handler. *)

\* mutant: the identity the phone has refused is kept.
DropsNothing(i, refused) ==
    /\ phase' = [phase EXCEPT ![i] = IF i \in stopped THEN "gone" ELSE "waiting"]
    /\ said' = [said EXCEPT ![i] = IF @ = "on" THEN "off" ELSE @]
    /\ relinking' = IF refused /\ i \notin stopped THEN relinking \ {i} ELSE relinking
    /\ UNCHANGED creds

\* A close.  Unless the channel was stopped, a refused identity is dropped and
\* a timer set.
Drops(i, refused) ==
    /\ phase' = [phase EXCEPT ![i] = IF i \in stopped THEN "gone" ELSE "waiting"]
    /\ said' = [said EXCEPT ![i] = IF @ = "on" THEN "off" ELSE @]
    /\ IF refused /\ i \notin stopped
       THEN creds' = FALSE /\ relinking' = relinking \ {i}
       ELSE UNCHANGED <<creds, relinking>>

ShowsQr(i) ==
    /\ phase[i] = "up" /\ ~creds /\ said[i] # "qr"
    /\ said' = [said EXCEPT ![i] = "qr"]
    /\ flight' = flight \cup {"qr"}
    /\ UNCHANGED <<app, sync, phase, stopped, listing, relinking, pairing, changes,
                   faults, raced>>

\* Open: the state is set only once the groups are listed.  A listing ends with
\* its socket, long before the next one opens.
Opens(i) ==
    /\ phase[i] = "up" /\ creds /\ linked
    /\ i \notin listing
    /\ phase' = [phase EXCEPT ![i] = "open"]
    /\ listing' = listing \cup {i}
    /\ UNCHANGED <<app, flight, sync, said, stopped, relinking, pairing, changes,
                   faults, raced>>

\* And then it is set whatever has happened in between.
Lists(i) ==
    /\ i \in listing
    /\ listing' = listing \ {i}
    /\ said' = [said EXCEPT ![i] = "on"]
    /\ flight' = flight \cup {"on"}
    /\ UNCHANGED <<app, sync, phase, stopped, relinking, pairing, changes, faults, raced>>

\* The other side closes, the identity being refused or for another reason.
Closes(i) ==
    /\ Live(i)
    /\ \/ creds /\ ~linked /\ Drops(i, TRUE) /\ UNCHANGED faults
       \/ Fault /\ Drops(i, FALSE)
    /\ flight' = flight \cup (IF i \in stopped THEN {} ELSE {said'[i]})
    /\ UNCHANGED <<app, sync, stopped, listing, linked, changes, raced>>

TimerFiresAnyway(i) ==  \* mutant: the stopped flag is not looked at
    /\ phase[i] = "waiting"
    /\ phase' = [phase EXCEPT ![i] = "loading"]
    /\ UNCHANGED <<app, flight, sync, said, stopped, listing, relinking, pairing,
                   changes, faults, raced>>

TimerFires(i) ==
    /\ phase[i] = "waiting"
    /\ phase' = [phase EXCEPT ![i] = IF i \in stopped THEN "gone" ELSE "loading"]
    /\ UNCHANGED <<app, flight, sync, said, stopped, listing, relinking, pairing,
                   changes, faults, raced>>

\* A reconnect has read the identity: a new socket, for a stopped channel too.
Loads(i) ==
    /\ phase[i] = "loading"
    /\ ~(step = "starting" /\ i = current)
    /\ phase' = [phase EXCEPT ![i] = "up"]
    /\ UNCHANGED <<app, flight, sync, said, stopped, listing, relinking, pairing,
                   changes, faults, raced>>

\* It cannot: the error is logged, and no timer is set.
LoadFails(i) ==
    /\ phase[i] = "loading"
    /\ ~(step = "starting" /\ i = current)
    /\ Fault
    /\ phase' = [phase EXCEPT ![i] = IF i \in stopped THEN "gone" ELSE "failed"]
    /\ UNCHANGED <<app, flight, sync, said, stopped, listing, relinking, pairing,
                   changes, raced>>

\* relink's logout ends: the phone forgets us and the socket closes.
LogsOut ==
    /\ step = "relinking"
    /\ phase[current] = "open"
    /\ linked' = FALSE
    /\ Drops(current, TRUE)
    /\ UNCHANGED <<app, cfg, asked, current, fingerprint, stopped, listing, changes,
                   faults, raced>>
    /\ Finish(current)

\* Or it throws, as it does without a connection.
LogoutFails ==
    /\ step = "relinking"
    /\ \/ phase[current] # "open" /\ UNCHANGED faults
       \/ Fault
    /\ relinking' = relinking \ {current}
    /\ UNCHANGED <<app, cfg, asked, current, fingerprint, phase, said, stopped, listing,
                   pairing, changes, raced>>
    /\ Finish(current)

\* The process exits and is started again.
GatewayRestarts ==
    /\ Fault
    /\ step' = "idle"
    /\ current' = None /\ fingerprint' = Off
    /\ phase' = [i \in Instances |-> "gone"]
    /\ said' = [i \in Instances |-> "off"]
    /\ stopped' = {} /\ listing' = {} /\ relinking' = {} /\ raced' = {}
    /\ UNCHANGED <<app, flight, cfg, asked, pairing, changes>>
-----------------------------------------------------------------------------
Next ==
    \/ \E w \in Configs \cup {Off} : Configures(w)
    \/ AsksRelink
    \/ Unlinks
    \/ \E r \in {"off", "qr", "on", "gone"} : Takes(r) \/ Loses(r)
    \/ AppRestarts
    \/ SyncAsks
    \/ SyncServed
    \/ SyncFails
    \/ Blanked
    \/ Started
    \/ StartFails
    \/ Failed
    \/ LogsOut
    \/ LogoutFails
    \/ GatewayRestarts
    \/ \E i \in Instances :
          \/ Scans(i)
          \/ ShowsQr(i)
          \/ Opens(i)
          \/ Lists(i)
          \/ Closes(i)
          \/ TimerFires(i)
          \/ Loads(i)
          \/ LoadFails(i)

Spec == Init /\ [][Next]_vars

(* The sync loop never ends and what it awaits does; timers fire; WhatsApp
   answers.  Nobody has to scan a code. *)
FairSpec ==
    /\ Spec
    /\ WF_vars(SyncAsks)
    /\ WF_vars(SyncServed \/ Blanked \/ Started \/ Failed \/ LogsOut \/ LogoutFails)
    /\ \A r \in {"off", "qr", "on", "gone"} : WF_vars(Takes(r))
    /\ \A i \in Instances :
          /\ WF_vars(ShowsQr(i))
          /\ WF_vars(Opens(i) \/ Closes(i))
          /\ WF_vars(Lists(i))
          /\ WF_vars(TimerFires(i))
          /\ WF_vars(Loads(i))
-----------------------------------------------------------------------------
TypeOK ==
    /\ wanted \in Configs \cup {Off} /\ wish \in BOOLEAN
    /\ shown \in {"off", "qr", "on"}
    /\ flight \subseteq {"off", "qr", "on", "gone"}
    /\ step \in {"idle", "asking", "blanking", "starting", "failing", "relinking"}
    /\ cfg \in Configs \cup {Off} /\ asked \in BOOLEAN
    /\ current \in Instances \cup {None} /\ fingerprint \in Configs \cup {Off}
    /\ phase \in [Instances -> {"loading", "up", "open", "waiting", "failed", "gone"}]
    /\ said \in [Instances -> {"off", "qr", "on"}]
    /\ stopped \subseteq Instances /\ listing \subseteq Instances
    /\ relinking \subseteq Instances /\ raced \subseteq Instances
    /\ creds \in BOOLEAN /\ linked \in BOOLEAN
    /\ changes \in 0..MaxChanges /\ faults \in 0..MaxFaults

\* Only the channel that runs has a connection: a second one would answer every
\* question twice, and one of a disabled channel goes on storing messages
\* (supervisor.js:8-18, whatsapp.js:94-107, 180-183).  The one exception is an
\* instance that was stopped while it read its identity.
NoStray == \A i \in Instances : Live(i) => i = current \/ i \in raced

\* The channel implements OneConnection.  A new configuration, a failed start
\* and a relink all come between; what runs changes hands through nothing, and
\* a connection is only made by what runs, or by what raced.
One == INSTANCE OneConnection WITH
         Holders <- Instances, NoHolder <- None,
         holder <- current, config <- fingerprint,
         connected <- {i \in Instances : Live(i)},
         ghosts <- {i \in raced : phase[i] # "gone"}
ChangesHands == One!Spec

\* What runs is in the end what the admin asked for, whatever failed on the way
\* (supervisor.js:1, 31-62).
Converges ==
    <>[](/\ fingerprint = wanted
         /\ current # None => phase[current] # "gone")

\* In the end the app shows a running channel as connected if and only if it is
\* (gateway_state.py:1-2), a reconnect that failed for good apart.
AppSees ==
    <>[](current # None /\ phase[current] # "failed"
            => (shown = "on" <=> phase[current] = "open"))

\* A channel the phone has unlinked offers a new code, unless it is disabled or
\* could not reconnect (whatsapp.js:95-101, pages_channels.py:155).
PairsAgain ==
    (creds /\ ~linked) ~>
        \/ shown = "qr" \/ linked \/ wanted = Off
        \/ \E i \in Instances : phase[i] = "failed"

\* The app does not take a stopped channel for connected, once all reports have
\* come in (supervisor.js:16, slack.js:81).
ForgetsStopped ==
    (wanted = Off /\ current = None /\ step = "idle" /\ flight = {} /\ listing = {})
        => shown # "on"
=============================================================================
