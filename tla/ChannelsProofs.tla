--------------------------- MODULE ChannelsProofs ---------------------------
(***************************************************************************)
(* The channel's type invariant, that no connection outlives the instance  *)
(* that runs unless its stop raced with a reconnect, and that it           *)
(* implements OneConnection, for any number of instances, configurations,  *)
(* requests and failures.                                                  *)
(***************************************************************************)
EXTENDS Channels, TLAPS

\* Whatever is not at rest runs, or was stopped.
Alone == \A i \in Instances : phase[i] # "gone" => i = current \/ i \in stopped

\* Whatever is about to open a socket runs, or was stopped in that moment.
Reading == \A i \in Instances : phase[i] = "loading" => i = current \/ i \in raced

\* Where sync waits fixes whether it has an instance.
AtStep ==
    /\ step \in {"blanking", "failing"} => current = None
    /\ step \in {"starting", "relinking"} => current # None

Inv == TypeOK /\ AtStep /\ Alone /\ Reading /\ NoStray

-----------------------------------------------------------------------------
(* The parts of a step. *)

\* The counters keep to their bounds.
LEMMA Counts ==
    ASSUME TypeOK
    PROVE  /\ Fault => faults' \in 0..MaxFaults
           /\ Change => changes' \in 0..MaxChanges
<1>1. MaxFaults \in Nat /\ MaxChanges \in Nat
  BY ChannelAssumption
<1> QED
  BY <1>1 DEF TypeOK, Fault, Change

\* The end of sync changes no instance but for the relinking flag.
LEMMA RelinksFacts ==
    ASSUME TypeOK, NEW r \in Instances \cup {None}, NEW ask \in BOOLEAN,
           said' \in [Instances -> {"off", "qr", "on"}],
           Relinks(r, ask)
    PROVE  /\ step' = "idle" \/ (step' = "relinking" /\ r # None)
           /\ relinking' \subseteq Instances
           /\ flight' \subseteq {"off", "qr", "on", "gone"}
<1>1. {said'[i] : i \in {r} \ {None}} \subseteq {"off", "qr", "on"}
  OBVIOUS
<1>2. CASE /\ ask /\ r # None /\ said[r] = "on" /\ r \notin relinking
           /\ relinking' = relinking \cup {r}
           /\ step' = "relinking"
           /\ UNCHANGED flight
  BY <1>2 DEF TypeOK
<1>3. CASE UNCHANGED relinking /\ Finish(r)
  BY <1>1, <1>3 DEF TypeOK, Finish
<1> QED
  BY <1>2, <1>3, Zenon DEF Relinks

\* A start takes an instance that is at rest.
LEMMA StartsFacts ==
    ASSUME TypeOK, NEW want, Starts(want)
    PROVE  \E i \in Instances :
              /\ phase[i] = "gone" /\ current' = i /\ fingerprint' = want
              /\ step' = "starting"
              /\ phase' = [phase EXCEPT ![i] = "loading"]
              /\ said' = [said EXCEPT ![i] = "off"]
              /\ stopped' = stopped \ {i} /\ relinking' = relinking \ {i}
              /\ raced' = raced \ {i}
              /\ UNCHANGED <<flight, listing>>
<1> DEFINE i == CHOOSE i \in Instances : phase[i] = "gone" /\ i \notin listing
<1>1. i \in Instances /\ phase[i] = "gone"
  BY Zenon DEF Starts
<1> QED
  BY <1>1, Zenon DEF Starts

\* A start keeps the invariant, when nothing runs.
LEMMA StartsInv ==
    ASSUME Inv, current = None, NEW want \in Configs \cup {Off}, Starts(want),
           wanted' \in Configs \cup {Off}, wish' \in BOOLEAN, shown' = shown,
           cfg' \in Configs \cup {Off}, asked' \in BOOLEAN,
           UNCHANGED <<pairing, changes, faults>>
    PROVE  Inv'
<1>1. PICK i \in Instances :
              /\ phase[i] = "gone" /\ current' = i /\ fingerprint' = want
              /\ step' = "starting"
              /\ phase' = [phase EXCEPT ![i] = "loading"]
              /\ said' = [said EXCEPT ![i] = "off"]
              /\ stopped' = stopped \ {i} /\ relinking' = relinking \ {i}
              /\ raced' = raced \ {i}
              /\ UNCHANGED <<flight, listing>>
  BY StartsFacts, Zenon DEF Inv
<1>2. i # None
  BY ChannelAssumption
<1>3. TypeOK'
  BY <1>1 DEF Inv, TypeOK, pairing
<1>4. AtStep'
  BY <1>1, <1>2 DEF AtStep
<1>5. \A j \in Instances : j # i => phase'[j] = phase[j]
  BY <1>1 DEF Inv, TypeOK
<1>6. Alone' /\ Reading' /\ NoStray'
  BY <1>1, <1>5, ChannelAssumption DEF Inv, Alone, Reading, NoStray, Live
<1> QED
  BY <1>3, <1>4, <1>6 DEF Inv

\* What the end of sync leaves alone keeps the rest of the invariant.
LEMMA RestInv ==
    ASSUME Inv, TypeOK',
           step' = "idle" \/ (step' = "relinking" /\ current # None),
           UNCHANGED <<current, stopped, raced>>,
           \A i \in Instances :
              \/ phase'[i] = phase[i]
              \/ phase'[i] \in {"gone"}
              \/ i = current
    PROVE  Inv'
<1>1. AtStep'
  BY DEF AtStep
<1>2. Alone' /\ Reading' /\ NoStray'
  BY DEF Inv, Alone, Reading, NoStray, Live
<1> QED
  BY <1>1, <1>2 DEF Inv
-----------------------------------------------------------------------------
(* One lemma per kind of step. *)

LEMMA InitInv == Init => Inv
<1> SUFFICES ASSUME Init PROVE Inv
  OBVIOUS
<1>1. creds \in BOOLEAN /\ linked \in BOOLEAN
  BY Zenon DEF Init
<1>2. 0 \in 0..MaxChanges /\ 0 \in 0..MaxFaults
  BY ChannelAssumption
<1>3. TypeOK
  BY <1>1, <1>2 DEF Init, TypeOK
<1>4. AtStep /\ Alone /\ Reading /\ NoStray
  BY DEF Init, AtStep, Alone, Reading, NoStray, Live
<1> QED
  BY <1>3, <1>4 DEF Inv

\* The types of what sync and the instances leave to others.
AppTypes ==
    /\ wanted \in Configs \cup {Off} /\ wish \in BOOLEAN
    /\ shown \in {"off", "qr", "on"} /\ flight \subseteq {"off", "qr", "on", "gone"}
    /\ creds \in BOOLEAN /\ linked \in BOOLEAN
    /\ changes \in 0..MaxChanges /\ faults \in 0..MaxFaults

\* Neither the app nor the phone touches what runs.
LEMMA AppInv ==
    ASSUME Inv,
           \/ \E w \in Configs \cup {Off} : Configures(w)
           \/ AsksRelink \/ Unlinks \/ AppRestarts
           \/ \E r \in {"off", "qr", "on", "gone"} : Takes(r) \/ Loses(r)
           \/ \E i \in Instances : Scans(i)
    PROVE  Inv'
<1>1. UNCHANGED <<sync, instances, raced>>
  BY DEF Configures, AsksRelink, Unlinks, AppRestarts, Takes, Loses, Scans
<1>2. AppTypes /\ (Fault => faults' \in 0..MaxFaults)
               /\ (Change => changes' \in 0..MaxChanges)
  BY Counts DEF Inv, TypeOK, AppTypes
<1>3. AppTypes'
  <2>1. CASE \E w \in Configs \cup {Off} : Configures(w)
    BY <1>2, <2>1 DEF AppTypes, Configures, pairing
  <2>2. CASE AsksRelink
    BY <1>2, <2>2 DEF AppTypes, AsksRelink, pairing
  <2>3. CASE Unlinks
    BY <1>2, <2>3 DEF AppTypes, Unlinks, app
  <2>4. CASE AppRestarts
    BY <1>2, <2>4 DEF AppTypes, AppRestarts, pairing
  <2>5. CASE \E r \in {"off", "qr", "on", "gone"} : Takes(r) \/ Loses(r)
    BY <1>2, <2>5 DEF AppTypes, Takes, Loses, app, pairing
  <2>6. CASE \E i \in Instances : Scans(i)
    BY <1>2, <2>6 DEF AppTypes, Scans, app
  <2> QED
    BY <2>1, <2>2, <2>3, <2>4, <2>5, <2>6
<1>4. TypeOK'
  BY <1>1, <1>3 DEF Inv, TypeOK, AppTypes, sync, instances
<1> QED
  BY <1>1, <1>4 DEF Inv, AtStep, Alone, Reading, NoStray, Live, sync, instances

LEMMA StopsInv ==
    ASSUME Inv, current # None, Stops,
           wanted' \in Configs \cup {Off}, wish' \in BOOLEAN, shown' = shown,
           cfg' \in Configs \cup {Off}, asked' \in BOOLEAN,
           UNCHANGED <<pairing, changes, faults>>
    PROVE  Inv'
<1>1. current \in Instances
  BY DEF Inv, TypeOK
<1>2. TypeOK'
  BY <1>1 DEF Inv, TypeOK, Stops, pairing
<1>3. AtStep'
  BY DEF Stops, AtStep
<1>4. \A j \in Instances \ {current} : phase'[j] = phase[j]
  BY <1>1 DEF Inv, TypeOK, Stops
<1>5. phase'[current] \in {"loading", "waiting", "gone"}
  BY <1>1 DEF Inv, TypeOK, Stops
<1>6. phase'[current] = "loading" => current \in raced'
  BY <1>1 DEF Inv, TypeOK, Stops
<1>7. current \in stopped' /\ stopped \subseteq stopped' /\ raced \subseteq raced'
  BY DEF Stops
<1>8. Alone' /\ Reading' /\ NoStray'
  BY <1>4, <1>5, <1>6, <1>7 DEF Inv, Alone, Reading, NoStray, Live
<1> QED
  BY <1>2, <1>3, <1>8 DEF Inv

LEMMA ServedInv == ASSUME Inv, SyncServed PROVE Inv'
<1>1. /\ wanted' \in Configs \cup {Off} /\ wish' \in BOOLEAN /\ shown' = shown
      /\ cfg' \in Configs \cup {Off} /\ asked' \in BOOLEAN
      /\ UNCHANGED <<pairing, changes, faults>>
      /\ wanted \in Configs \cup {Off} /\ wish \in BOOLEAN
  BY DEF Inv, TypeOK, SyncServed
<1>2. CASE current # None /\ Stops
  BY <1>1, <1>2, StopsInv
<1>3. CASE current = None /\ Starts(wanted)
  BY <1>1, <1>3, StartsInv
<1>4. CASE /\ UNCHANGED <<current, fingerprint, phase, said, stopped, listing, raced>>
           /\ Relinks(current, wish)
  <2>1. /\ step' = "idle" \/ (step' = "relinking" /\ current # None)
        /\ relinking' \subseteq Instances
        /\ flight' \subseteq {"off", "qr", "on", "gone"}
    BY <1>1, <1>4, RelinksFacts DEF Inv, TypeOK
  <2>2. TypeOK'
    BY <1>1, <1>4, <2>1 DEF Inv, TypeOK, pairing
  <2> QED
    BY <1>4, <2>1, <2>2, RestInv
<1> QED
  BY <1>2, <1>3, <1>4 DEF SyncServed

\* The other steps of sync.
LEMMA SyncInv ==
    ASSUME Inv, SyncAsks \/ SyncFails \/ Blanked \/ Started \/ StartFails \/ Failed
    PROVE  Inv'
<1>1. CASE SyncAsks
  <2>1. TypeOK'
    BY <1>1 DEF Inv, TypeOK, SyncAsks, app, instances, pairing
  <2> QED
    BY <1>1, <2>1 DEF Inv, AtStep, Alone, Reading, NoStray, Live, SyncAsks, instances
<1>2. CASE SyncFails
  <2>1. flight' \subseteq {"off", "qr", "on", "gone"}
    BY <1>2 DEF Inv, TypeOK, SyncFails, Finish, instances
  <2>2. TypeOK'
    <3>1. TypeOK /\ faults' \in 0..MaxFaults /\ step' = "idle" /\ wish' \in BOOLEAN
      BY <1>2, Counts DEF Inv, TypeOK, SyncFails, Finish
    <3> QED
      BY <1>2, <2>1, <3>1 DEF TypeOK, SyncFails, instances, pairing
  <2> QED
    BY <1>2, <2>2, RestInv DEF SyncFails, Finish, instances
<1>3. CASE Blanked
  <2>1. current = None /\ cfg \in Configs \cup {Off} /\ asked \in BOOLEAN
    BY <1>3 DEF Inv, AtStep, TypeOK, Blanked
  <2>2. CASE Starts(cfg)
    BY <1>3, <2>1, <2>2, StartsInv DEF Inv, TypeOK, Blanked, app
  <2>3. CASE /\ UNCHANGED <<current, fingerprint, phase, said, stopped, listing, raced>>
             /\ Relinks(None, asked)
    <3>1. /\ step' = "idle"
          /\ relinking' \subseteq Instances
          /\ flight' \subseteq {"off", "qr", "on", "gone"}
      BY <2>1, <2>3, RelinksFacts DEF Inv, TypeOK
    <3>2. TypeOK'
      BY <1>3, <2>3, <3>1 DEF Inv, TypeOK, Blanked, app, pairing
    <3> QED
      BY <2>3, <3>1, <3>2, RestInv
  <2> QED
    BY <1>3, <2>2, <2>3 DEF Blanked
<1>4. CASE Started
  <2>1. current \in Instances /\ asked \in BOOLEAN
    BY <1>4 DEF Inv, AtStep, TypeOK, Started
  <2>2. /\ step' = "idle" \/ (step' = "relinking" /\ current # None)
        /\ relinking' \subseteq Instances
        /\ flight' \subseteq {"off", "qr", "on", "gone"}
    BY <1>4, <2>1, RelinksFacts DEF Inv, TypeOK, Started
  <2>3. TypeOK'
    BY <1>4, <2>1, <2>2 DEF Inv, TypeOK, Started, app, pairing
  <2>4. \A i \in Instances : phase'[i] = phase[i] \/ i = current
    BY <1>4 DEF Inv, TypeOK, Started
  <2> QED
    BY <1>4, <2>2, <2>3, <2>4, RestInv DEF Started
<1>5. CASE StartFails
  <2>1. current \in Instances
    BY <1>5 DEF Inv, AtStep, TypeOK, StartFails
  <2>2. TypeOK'
    BY <1>5, <2>1, Counts DEF Inv, TypeOK, StartFails, app, pairing
  <2>3. AtStep'
    BY <1>5 DEF StartFails, AtStep
  <2>4. /\ phase'[current] = "gone"
        /\ \A i \in Instances \ {current} : phase'[i] = phase[i]
    BY <1>5, <2>1 DEF Inv, TypeOK, StartFails
  <2>5. Alone' /\ Reading' /\ NoStray'
    BY <1>5, <2>4 DEF Inv, Alone, Reading, NoStray, Live, StartFails
  <2> QED
    BY <2>2, <2>3, <2>5 DEF Inv
<1>6. CASE Failed
  <2>1. asked \in BOOLEAN
    BY DEF Inv, TypeOK
  <2>2. /\ step' = "idle"
        /\ relinking' \subseteq Instances
        /\ flight' \subseteq {"off", "qr", "on", "gone"}
    BY <1>6, <2>1, RelinksFacts DEF Inv, TypeOK, Failed
  <2>3. TypeOK'
    BY <1>6, <2>2 DEF Inv, TypeOK, Failed, app, pairing
  <2> QED
    BY <1>6, <2>2, <2>3, RestInv DEF Failed
<1> QED
  BY <1>1, <1>2, <1>3, <1>4, <1>5, <1>6
-----------------------------------------------------------------------------
(* The channel's own steps. *)

\* A close leads to rest, or to a timer that only what runs keeps.
LEMMA DropsFacts ==
    ASSUME TypeOK, NEW i \in Instances, NEW refused \in BOOLEAN, Drops(i, refused)
    PROVE  /\ phase' \in [Instances -> {"loading", "up", "open", "waiting", "failed", "gone"}]
           /\ said' \in [Instances -> {"off", "qr", "on"}]
           /\ relinking' \subseteq Instances /\ creds' \in BOOLEAN
           /\ phase'[i] = IF i \in stopped THEN "gone" ELSE "waiting"
           /\ \A j \in Instances \ {i} : phase'[j] = phase[j]
BY DEF TypeOK, Drops

\* One instance moves on, not towards a socket unless it may.
LEMMA MoveInv ==
    ASSUME Inv, TypeOK', NEW i \in Instances,
           UNCHANGED <<step, current, stopped, raced>>,
           \A j \in Instances \ {i} : phase'[j] = phase[j],
           phase'[i] = "gone" \/ i = current \/ i \in stopped,
           phase'[i] \in {"loading", "up", "open"} => i = current \/ i \in raced
    PROVE  Inv'
<1>1. AtStep'
  BY DEF Inv, AtStep
<1>2. Alone' /\ Reading' /\ NoStray'
  BY DEF Inv, Alone, Reading, NoStray, Live
<1> QED
  BY <1>1, <1>2 DEF Inv

LEMMA ChannelInv ==
    ASSUME Inv, NEW i \in Instances,
           \/ ShowsQr(i) \/ Opens(i) \/ Lists(i) \/ Closes(i)
           \/ TimerFires(i) \/ Loads(i) \/ LoadFails(i)
    PROVE  Inv'
<1>1. UNCHANGED <<step, current, stopped, raced>>
  BY DEF ShowsQr, Opens, Lists, Closes, TimerFires, Loads, LoadFails, sync, instances
<1>2. phase[i] # "gone" => i = current \/ i \in stopped
  BY DEF Inv, Alone
<1>3. phase[i] \in {"loading", "up", "open"} => i = current \/ i \in raced
  BY DEF Inv, Reading, NoStray, Live
<1>4. CASE ShowsQr(i) \/ Lists(i)
  <2>1. TypeOK'
    <3>1. CASE ShowsQr(i)
      BY <3>1 DEF Inv, TypeOK, ShowsQr, app, sync, pairing
    <3>2. CASE Lists(i)
      BY <3>2 DEF Inv, TypeOK, Lists, app, sync, pairing
    <3> QED
      BY <1>4, <3>1, <3>2
  <2>2. UNCHANGED phase
    BY <1>4 DEF ShowsQr, Lists
  <2> QED
    BY <1>1, <1>2, <1>3, <2>1, <2>2, MoveInv
<1>5. CASE Opens(i)
  <2>1. TypeOK'
    BY <1>5 DEF Inv, TypeOK, Opens, app, sync, pairing
  <2>2. \A j \in Instances \ {i} : phase'[j] = phase[j]
    BY <1>5 DEF Inv, TypeOK, Opens
  <2>3. phase[i] = "up"
    BY <1>5 DEF Opens
  <2> QED
    BY <1>1, <1>2, <1>3, <2>1, <2>2, <2>3, MoveInv
<1>6. CASE Closes(i)
  <2>1. PICK refused \in BOOLEAN : Drops(i, refused)
    BY <1>6 DEF Closes
  <2>2. /\ phase' \in [Instances -> {"loading", "up", "open", "waiting", "failed", "gone"}]
        /\ said' \in [Instances -> {"off", "qr", "on"}]
        /\ relinking' \subseteq Instances /\ creds' \in BOOLEAN
        /\ phase'[i] = IF i \in stopped THEN "gone" ELSE "waiting"
        /\ \A j \in Instances \ {i} : phase'[j] = phase[j]
    BY <2>1, DropsFacts DEF Inv
  <2>3. faults' \in 0..MaxFaults
    BY <1>6, Counts DEF Inv, TypeOK, Closes
  <2>4. TypeOK'
    <3>1. flight' \subseteq {"off", "qr", "on", "gone"}
      BY <1>6, <2>2 DEF Inv, TypeOK, Closes
    <3>2. TypeOK /\ UNCHANGED <<app, sync, stopped, listing, linked, changes, raced>>
      BY <1>6 DEF Inv, Closes
    <3> QED
      BY <2>2, <2>3, <3>1, <3>2 DEF TypeOK, app, sync
  <2>5. phase[i] # "gone"
    BY <1>6 DEF Closes, Live
  <2> QED
    BY <1>1, <1>2, <2>2, <2>4, <2>5, MoveInv
<1>7. CASE TimerFires(i)
  <2>1. TypeOK'
    BY <1>7 DEF Inv, TypeOK, TimerFires, app, sync, pairing
  <2>2. /\ \A j \in Instances \ {i} : phase'[j] = phase[j]
        /\ phase'[i] = IF i \in stopped THEN "gone" ELSE "loading"
        /\ phase[i] = "waiting"
    BY <1>7 DEF Inv, TypeOK, TimerFires
  <2> QED
    BY <1>1, <1>2, <2>1, <2>2, MoveInv
<1>8. CASE Loads(i) \/ LoadFails(i)
  <2>1. TypeOK'
    <3>1. phase' \in [Instances -> {"loading", "up", "open", "waiting", "failed", "gone"}]
      BY <1>8 DEF Inv, TypeOK, Loads, LoadFails
    <3>2. faults' \in 0..MaxFaults
      BY <1>8, Counts DEF Inv, TypeOK, Loads, LoadFails
    <3>3. UNCHANGED <<app, flight, sync, said, stopped, listing, relinking, pairing,
                      changes, raced>>
      BY <1>8 DEF Loads, LoadFails
    <3> QED
      BY <3>1, <3>2, <3>3 DEF Inv, TypeOK, app, sync, pairing
  <2>2. /\ \A j \in Instances \ {i} : phase'[j] = phase[j]
        /\ phase'[i] \in {"up", "gone", "failed"}
        /\ phase[i] = "loading"
    BY <1>8 DEF Inv, TypeOK, Loads, LoadFails
  <2> QED
    BY <1>1, <1>2, <1>3, <2>1, <2>2, MoveInv
<1> QED
  BY <1>4, <1>5, <1>6, <1>7, <1>8

\* The end of a relink, and of the process.
LEMMA LogoutInv ==
    ASSUME Inv, LogsOut \/ LogoutFails
    PROVE  Inv'
<1>1. current \in Instances
  BY DEF Inv, AtStep, TypeOK, LogsOut, LogoutFails
<1>2. step' = "idle" /\ UNCHANGED <<current, stopped, raced>>
  BY DEF LogsOut, LogoutFails, Finish
<1>3. CASE LogsOut
  <2>1. /\ phase' \in [Instances -> {"loading", "up", "open", "waiting", "failed", "gone"}]
        /\ said' \in [Instances -> {"off", "qr", "on"}]
        /\ relinking' \subseteq Instances /\ creds' \in BOOLEAN
        /\ \A j \in Instances \ {current} : phase'[j] = phase[j]
    BY <1>1, <1>3, DropsFacts DEF Inv, LogsOut
  <2>2. flight' \subseteq {"off", "qr", "on", "gone"}
    <3>1. {said'[i] : i \in {current} \ {None}} \subseteq {"off", "qr", "on"}
      BY <1>1, <2>1
    <3>2. flight' = flight \cup {said'[i] : i \in {current} \ {None}}
      BY <1>3, Zenon DEF LogsOut, Finish
    <3> QED
      BY <3>1, <3>2 DEF Inv, TypeOK
  <2>3. TypeOK'
    BY <1>2, <1>3, <2>1, <2>2 DEF Inv, TypeOK, LogsOut, app
  <2> QED
    BY <1>2, <2>1, <2>3, RestInv
<1>4. CASE LogoutFails
  <2>1. flight' \subseteq {"off", "qr", "on", "gone"}
    BY <1>1, <1>4 DEF Inv, TypeOK, LogoutFails, Finish
  <2>2. TypeOK'
    BY <1>2, <1>4, <2>1, Counts DEF Inv, TypeOK, LogoutFails, app, pairing
  <2>3. UNCHANGED phase
    BY <1>4 DEF LogoutFails
  <2> QED
    BY <1>2, <2>2, <2>3, RestInv
<1> QED
  BY <1>3, <1>4

LEMMA RestartInv == ASSUME Inv, GatewayRestarts PROVE Inv'
<1>1. TypeOK'
  BY Counts DEF Inv, TypeOK, GatewayRestarts, app, pairing
<1>2. AtStep' /\ Alone' /\ Reading' /\ NoStray'
  BY DEF AtStep, Alone, Reading, NoStray, Live, GatewayRestarts
<1> QED
  BY <1>1, <1>2 DEF Inv

LEMMA StepInv == Inv /\ [Next]_vars => Inv'
<1> SUFFICES ASSUME Inv, [Next]_vars PROVE Inv'
  OBVIOUS
<1>1. CASE UNCHANGED vars
  BY <1>1 DEF Inv, TypeOK, AtStep, Alone, Reading, NoStray, Live, vars, app, sync, instances,
     pairing
<1>2. CASE Next
  BY <1>2, AppInv, ServedInv, SyncInv, ChannelInv, LogoutInv, RestartInv DEF Next
<1> QED
  BY <1>1, <1>2
-----------------------------------------------------------------------------
(* The steps of OneConnection. *)

\* What runs has a configuration, and was not stopped while it read.
Held ==
    /\ current = None => fingerprint = Off
    /\ current \notin raced

LEMMA StepHeld == Inv /\ Held /\ [Next]_vars => Held'
<1> SUFFICES ASSUME Inv, Held, [Next]_vars PROVE Held'
  OBVIOUS
<1>0. None \notin Instances /\ raced \subseteq Instances
  BY ChannelAssumption DEF Inv, TypeOK
<1>1. CASE UNCHANGED <<current, fingerprint, raced>>
  BY <1>1 DEF Held
<1>2. ASSUME NEW want, Starts(want) PROVE Held'
  <2>1. PICK i \in Instances : current' = i /\ raced' = raced \ {i}
    BY <1>2, StartsFacts, Zenon DEF Inv
  <2> QED
    BY <1>0, <2>1 DEF Held
<1>3. CASE (current # None /\ Stops) \/ StartFails \/ GatewayRestarts
  <2>1. current' = None /\ fingerprint' = Off
    BY <1>3 DEF Stops, StartFails, GatewayRestarts
  <2>2. CASE current # None /\ Stops
    <3>1. current \in Instances /\ raced' \subseteq raced \cup {current}
      BY <2>2 DEF Inv, TypeOK, Stops
    <3> QED
      BY <1>0, <2>1, <3>1 DEF Held
  <2>3. CASE StartFails \/ GatewayRestarts
    <3>1. raced' \subseteq raced
      BY <2>3 DEF StartFails, GatewayRestarts
    <3> QED
      BY <1>0, <2>1, <3>1 DEF Held
  <2> QED
    BY <1>3, <2>2, <2>3
<1>4. CASE SyncServed \/ Blanked
  BY <1>1, <1>2, <1>3, <1>4, Zenon DEF SyncServed, Blanked
<1>5. CASE UNCHANGED vars
  BY <1>1, <1>5 DEF vars, sync
<1>6. CASE \/ \E w \in Configs \cup {Off} : Configures(w)
           \/ AsksRelink \/ Unlinks \/ AppRestarts \/ SyncAsks \/ SyncFails
           \/ \E r \in {"off", "qr", "on", "gone"} : Takes(r) \/ Loses(r)
  BY <1>1, <1>6 DEF Configures, AsksRelink, Unlinks, AppRestarts, SyncAsks, SyncFails,
                    Takes, Loses, sync
<1>7. CASE Started \/ Failed \/ LogsOut \/ LogoutFails
  BY <1>1, <1>7 DEF Started, Failed, LogsOut, LogoutFails
<1>8. CASE \E i \in Instances :
              \/ Scans(i) \/ ShowsQr(i) \/ Opens(i) \/ Lists(i) \/ Closes(i)
              \/ TimerFires(i) \/ Loads(i) \/ LoadFails(i)
  BY <1>1, <1>8 DEF Scans, ShowsQr, Opens, Lists, Closes, TimerFires, Loads, LoadFails, sync
<1> QED
  BY <1>3, <1>4, <1>5, <1>6, <1>7, <1>8, Zenon DEF Next

Connected == {i \in Instances : Live(i)}
Ghosts == {i \in raced : phase[i] # "gone"}

\* What a step of one instance does to the connections and the ghosts.
LEMMA OneMoves ==
    ASSUME TypeOK, NEW i \in Instances, UNCHANGED raced,
           \A j \in Instances \ {i} : phase'[j] = phase[j]
    PROVE  /\ Connected' = IF Live(i)' THEN Connected \cup {i} ELSE Connected \ {i}
           /\ Ghosts' = IF i \in raced /\ phase'[i] # "gone"
                        THEN Ghosts \cup {i} ELSE Ghosts \ {i}
<1>1. raced \subseteq Instances
  BY DEF TypeOK
<1>2. \A j \in Instances \ {i} : Live(j)' <=> Live(j)
  BY DEF Live
<1> QED
  BY <1>1, <1>2 DEF Connected, Ghosts

LEMMA QuietSteps ==
    ASSUME UNCHANGED <<current, fingerprint, raced, phase>>
    PROVE  UNCHANGED One!vars
<1>1. Connected' = Connected /\ Ghosts' = Ghosts
  BY DEF Connected, Ghosts, Live
<1> QED
  BY <1>1 DEF One!vars, Connected, Ghosts

\* A socket is made by what runs, or by a ghost.
LEMMA LoadConnects ==
    ASSUME Inv, NEW i \in Instances, UNCHANGED <<current, fingerprint, raced>>,
           phase[i] = "loading", phase' = [phase EXCEPT ![i] = "up"]
    PROVE  One!Connects(i)
<1>1. TypeOK /\ phase'[i] = "up" /\ \A j \in Instances \ {i} : phase'[j] = phase[j]
  BY DEF Inv, TypeOK
<1>2. Live(i)'
  BY <1>1 DEF Live
<1>3. i = current \/ i \in raced
  BY DEF Inv, Reading
<1>4. i \in raced => i \in Ghosts
  BY DEF Ghosts
<1>5. Ghosts \cup {i} = Ghosts \/ i \notin raced
  BY <1>4
<1>6. i \notin raced => i \notin Ghosts
  BY DEF Ghosts
<1>7. Connected' = Connected \cup {i} /\ Ghosts' = Ghosts
  BY <1>1, <1>2, <1>5, <1>6, OneMoves
<1> QED
  BY <1>3, <1>4, <1>7 DEF One!Connects, Connected, Ghosts

\* A connection ends, or comes to none: a ghost is at rest then, and is no more.
LEMMA EndDisconnects ==
    ASSUME Inv, NEW i \in Instances, UNCHANGED <<current, fingerprint, raced>>,
           \A j \in Instances \ {i} : phase'[j] = phase[j],
           ~Live(i)', i \in raced => phase'[i] = "gone"
    PROVE  One!Disconnects(i)
<1>1. Connected' = Connected \ {i} /\ Ghosts' = Ghosts \ {i}
  BY OneMoves DEF Inv
<1> QED
  BY <1>1 DEF One!Disconnects, Connected, Ghosts

\* Only what is stopped can have raced.
LEMMA RacedStopped ==
    ASSUME Inv, Held, NEW i \in raced, phase[i] # "gone"
    PROVE  i \in stopped
BY DEF Inv, TypeOK, Alone, Held

LEMMA DropDisconnects ==
    ASSUME Inv, Held, NEW i \in Instances, NEW refused \in BOOLEAN, Drops(i, refused),
           Live(i), UNCHANGED <<current, fingerprint, raced>>
    PROVE  One!Disconnects(i)
<1>1. /\ phase'[i] = IF i \in stopped THEN "gone" ELSE "waiting"
      /\ \A j \in Instances \ {i} : phase'[j] = phase[j]
  BY DropsFacts DEF Inv
<1>2. i \in raced => i \in stopped
  BY RacedStopped DEF Live
<1>3. ~Live(i)'
  BY <1>1 DEF Live
<1> QED
  BY <1>1, <1>2, <1>3, EndDisconnects

LEMMA StartTakes ==
    ASSUME Inv, Held, current = None, NEW want \in Configs, Starts(want)
    PROVE  \E i \in Instances : One!Takes(i, want)
<1>1. PICK i \in Instances :
          /\ phase[i] = "gone" /\ current' = i /\ fingerprint' = want
          /\ phase' = [phase EXCEPT ![i] = "loading"]
          /\ raced' = raced \ {i}
  BY StartsFacts, Zenon DEF Inv
<1>2. TypeOK /\ phase'[i] = "loading" /\ \A j \in Instances \ {i} : phase'[j] = phase[j]
  BY <1>1 DEF Inv, TypeOK
<1>3. i \notin Connected /\ i \notin Ghosts
  BY <1>1 DEF Connected, Ghosts, Live
<1>4. Connected' = Connected
  BY <1>2, <1>3 DEF Connected, Live
<1>5. Ghosts' = Ghosts
  BY <1>1, <1>2, <1>3 DEF Ghosts, TypeOK
<1>6. fingerprint = Off
  BY DEF Held
<1> QED
  BY <1>1, <1>3, <1>4, <1>5, <1>6 DEF One!Takes, Connected, Ghosts

LEMMA StopLetsGo ==
    ASSUME Inv, Held, current # None, Stops
    PROVE  One!LetsGo
<1>1. TypeOK /\ current \in Instances /\ current \notin raced
  BY DEF Inv, TypeOK, Held
<1>2. PICK i \in Instances : i = current
  BY <1>1
<1>3. /\ phase'[i] = IF phase[i] \in {"up", "open", "failed"} THEN "gone" ELSE phase[i]
      /\ \A j \in Instances \ {i} : phase'[j] = phase[j]
      /\ raced' = IF phase[i] = "loading" THEN raced \cup {i} ELSE raced
      /\ current' = None /\ fingerprint' = Off
  BY <1>1, <1>2 DEF Stops, TypeOK
<1>4. i \notin raced /\ raced \subseteq Instances
  BY <1>1, <1>2 DEF TypeOK
<1>5. ~Live(i)' /\ \A j \in Instances \ {i} : Live(j)' <=> Live(j)
  BY <1>3 DEF Live
<1>6. Connected' = Connected \ {i}
  BY <1>5 DEF Connected
<1>7. CASE phase[i] = "loading"
  <2>1. i \notin Connected
    BY <1>7 DEF Connected, Live
  <2>2. Ghosts' = Ghosts \cup {i}
    BY <1>3, <1>4, <1>7 DEF Ghosts
  <2> QED
    BY <1>2, <1>3, <1>6, <2>1, <2>2 DEF One!LetsGo, Connected, Ghosts
<1>8. CASE phase[i] # "loading"
  <2>1. Ghosts' = Ghosts
    BY <1>3, <1>4, <1>8 DEF Ghosts
  <2> QED
    BY <1>2, <1>3, <1>6, <2>1 DEF One!LetsGo, Connected, Ghosts
<1> QED
  BY <1>7, <1>8

\* A start that fails has not come to a connection.
LEMMA FailLetsGo ==
    ASSUME Inv, Held, StartFails
    PROVE  One!LetsGo
<1>1. TypeOK /\ current \in Instances /\ current \notin raced
  BY DEF Inv, AtStep, TypeOK, Held, StartFails
<1>2. PICK i \in Instances : i = current
  BY <1>1
<1>3. /\ phase'[i] = "gone" /\ \A j \in Instances \ {i} : phase'[j] = phase[j]
      /\ raced' = raced /\ current' = None /\ fingerprint' = Off
  BY <1>1, <1>2 DEF StartFails, TypeOK
<1>4. ~Live(i)' /\ i \notin Ghosts
  BY <1>1, <1>2, <1>3 DEF Live, Ghosts
<1>5. Connected' = Connected \ {i} /\ Ghosts' = Ghosts
  BY <1>1, <1>3, <1>4, OneMoves
<1>6. i # None
  BY ChannelAssumption
<1> QED
  BY <1>2, <1>3, <1>5, <1>6 DEF One!LetsGo, Connected, Ghosts

LEMMA RestartRestarts == GatewayRestarts => One!Restarts
<1> SUFFICES ASSUME GatewayRestarts PROVE One!Restarts
  OBVIOUS
<1>1. Connected' = {} /\ Ghosts' = {}
  BY DEF GatewayRestarts, Connected, Ghosts, Live
<1> QED
  BY <1>1 DEF GatewayRestarts, One!Restarts, Connected, Ghosts

\* The steps of sync, and those of one instance.
LEMMA SyncOne ==
    ASSUME Inv, Held,
           \/ SyncAsks \/ SyncServed \/ SyncFails \/ Blanked \/ Started \/ StartFails
           \/ Failed \/ LogsOut \/ LogoutFails \/ GatewayRestarts
    PROVE  One!Next \/ UNCHANGED One!vars
<1>1. CASE SyncAsks \/ SyncFails \/ Failed \/ LogoutFails
  BY <1>1, QuietSteps DEF SyncAsks, SyncFails, Failed, LogoutFails, instances
<1>2. CASE SyncServed
  <2>1. CASE current # None /\ Stops
    BY <2>1, StopLetsGo DEF One!Next
  <2>2. CASE current = None /\ fingerprint # wanted /\ Starts(wanted)
    <3>1. wanted \in Configs
      BY <2>2 DEF Held, Inv, TypeOK
    <3> QED
      BY <2>2, <3>1, StartTakes DEF One!Next
  <2>3. CASE UNCHANGED <<current, fingerprint, phase, raced>>
    BY <2>3, QuietSteps
  <2> QED
    BY <1>2, <2>1, <2>2, <2>3 DEF SyncServed
<1>3. CASE Blanked
  <2>1. CASE cfg # Off /\ Starts(cfg)
    <3>1. cfg \in Configs /\ current = None
      BY <1>3, <2>1 DEF Inv, TypeOK, AtStep, Blanked
    <3> QED
      BY <2>1, <3>1, StartTakes DEF One!Next
  <2>2. CASE UNCHANGED <<current, fingerprint, phase, raced>>
    BY <2>2, QuietSteps
  <2> QED
    BY <1>3, <2>1, <2>2 DEF Blanked
<1>4. CASE Started
  <2>1. PICK i \in Instances : i = current
    BY <1>4 DEF Inv, AtStep, TypeOK, Started
  <2>2. One!Connects(i)
    BY <1>4, <2>1, LoadConnects DEF Started
  <2> QED
    BY <2>2 DEF One!Next
<1>5. CASE StartFails
  BY <1>5, FailLetsGo DEF One!Next
<1>6. CASE LogsOut
  <2>1. PICK i \in Instances : i = current
    BY <1>6 DEF Inv, AtStep, TypeOK, LogsOut
  <2>2. One!Disconnects(i)
    BY <1>6, <2>1, DropDisconnects DEF LogsOut, Live
  <2> QED
    BY <2>2 DEF One!Next
<1>7. CASE GatewayRestarts
  BY <1>7, RestartRestarts DEF One!Next
<1> QED
  BY <1>1, <1>2, <1>3, <1>4, <1>5, <1>6, <1>7

LEMMA InstanceOne ==
    ASSUME Inv, Held, NEW i \in Instances,
           \/ ShowsQr(i) \/ Opens(i) \/ Lists(i) \/ Closes(i)
           \/ TimerFires(i) \/ Loads(i) \/ LoadFails(i)
    PROVE  One!Next \/ UNCHANGED One!vars
<1>0. UNCHANGED <<current, fingerprint, raced>>
  BY DEF ShowsQr, Opens, Lists, Closes, TimerFires, Loads, LoadFails, sync
<1>1. CASE ShowsQr(i) \/ Lists(i)
  BY <1>1, QuietSteps DEF ShowsQr, Lists, sync
<1>2. CASE Opens(i)
  <2>1. TypeOK /\ phase[i] = "up" /\ phase'[i] = "open"
        /\ \A j \in Instances \ {i} : phase'[j] = phase[j]
    BY <1>2 DEF Inv, TypeOK, Opens
  <2>2. Live(i)' /\ i \in Connected /\ (i \in raced => i \in Ghosts) /\ (i \in Ghosts => i \in raced)
    BY <2>1 DEF Live, Connected, Ghosts
  <2>3. Connected' = Connected /\ Ghosts' = Ghosts
    BY <1>0, <2>1, <2>2, OneMoves
  <2> QED
    BY <1>0, <2>3 DEF One!vars, Connected, Ghosts
<1>3. CASE Closes(i)
  <2>1. Live(i) /\ \E refused \in BOOLEAN : Drops(i, refused)
    BY <1>3 DEF Closes
  <2>2. One!Disconnects(i)
    BY <1>0, <2>1, DropDisconnects
  <2> QED
    BY <2>2 DEF One!Next
<1>4. CASE TimerFires(i) \/ LoadFails(i)
  <2>1. /\ phase[i] # "gone"
        /\ phase'[i] \in {"loading", "failed", "gone"}
        /\ i \in stopped => phase'[i] = "gone"
        /\ \A j \in Instances \ {i} : phase'[j] = phase[j]
    BY <1>4 DEF Inv, TypeOK, TimerFires, LoadFails
  <2>2. ~Live(i)' /\ (i \in raced => phase'[i] = "gone")
    BY <2>1, RacedStopped DEF Live
  <2>3. One!Disconnects(i)
    BY <1>0, <2>1, <2>2, EndDisconnects
  <2> QED
    BY <2>3 DEF One!Next
<1>5. CASE Loads(i)
  <2>1. One!Connects(i)
    BY <1>0, <1>5, LoadConnects DEF Loads
  <2> QED
    BY <2>1 DEF One!Next
<1> QED
  BY <1>1, <1>2, <1>3, <1>4, <1>5

LEMMA StepOne == Inv /\ Held /\ [Next]_vars => [One!Next]_(One!vars)
<1> SUFFICES ASSUME Inv, Held, [Next]_vars PROVE One!Next \/ UNCHANGED One!vars
  OBVIOUS
<1>1. CASE \/ \E w \in Configs \cup {Off} : Configures(w)
           \/ AsksRelink \/ Unlinks \/ AppRestarts
           \/ \E r \in {"off", "qr", "on", "gone"} : Takes(r) \/ Loses(r)
           \/ \E i \in Instances : Scans(i)
  BY <1>1, QuietSteps DEF Configures, AsksRelink, Unlinks, AppRestarts, Takes, Loses, Scans,
                          sync, instances
<1>2. CASE \/ SyncAsks \/ SyncServed \/ SyncFails \/ Blanked \/ Started \/ StartFails
           \/ Failed \/ LogsOut \/ LogoutFails \/ GatewayRestarts
  BY <1>2, SyncOne
<1>3. CASE \E i \in Instances :
              \/ ShowsQr(i) \/ Opens(i) \/ Lists(i) \/ Closes(i)
              \/ TimerFires(i) \/ Loads(i) \/ LoadFails(i)
  BY <1>3, InstanceOne
<1>4. CASE UNCHANGED vars
  BY <1>4, QuietSteps DEF vars, sync, instances
<1> QED
  BY <1>1, <1>2, <1>3, <1>4, Zenon DEF Next

LEMMA InitOne == Init => Held /\ One!Init
<1> SUFFICES ASSUME Init PROVE Held /\ One!Init
  OBVIOUS
<1>1. Connected = {} /\ Ghosts = {}
  BY DEF Init, Connected, Ghosts, Live
<1> QED
  BY <1>1 DEF Init, Held, One!Init, Connected, Ghosts
-----------------------------------------------------------------------------
\* The inductive invariant.
THEOREM ChannelsInv == Spec => []Inv
<1> QED
  BY InitInv, StepInv, PTL DEF Spec

\* Every variable keeps its type, whatever fails.
THEOREM ChannelsTypeOK == Spec => []TypeOK
<1>1. Inv => TypeOK
  BY DEF Inv
<1> QED
  BY ChannelsInv, <1>1, PTL

\* No connection but that of the channel that runs, and of an instance that was
\* stopped while it read its identity (supervisor.js:8-18, whatsapp.js:94-107).
THEOREM ChannelsNoStray == Spec => []NoStray
<1>1. Inv => NoStray
  BY DEF Inv
<1> QED
  BY ChannelsInv, <1>1, PTL
\* The channel implements OneConnection: it changes hands through nothing, and
\* only what runs, or a ghost, once, makes a connection.
THEOREM ChannelsChangeHands == Spec => ChangesHands
<1>1. Spec => []Held
  BY InitOne, StepHeld, ChannelsInv, PTL DEF Spec
<1> QED
  BY <1>1, InitOne, StepOne, ChannelsInv, PTL DEF Spec, ChangesHands, One!Spec
=============================================================================
