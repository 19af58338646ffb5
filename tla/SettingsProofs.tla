--------------------------- MODULE SettingsProofs ---------------------------
(***************************************************************************)
(* What the memo serves was true less than MEMO_SECONDS ago, and the       *)
(* default answers between the admin's calls, for any number of providers, *)
(* threads, readers' delays and calls.                                     *)
(***************************************************************************)
EXTENDS Settings, WellFoundedInduction, TLAPS

\* No entry has been untrue for longer than it is old.
Recent == /\ \A k \in Keys : memo[k].stale <= memo[k].age
          /\ reader.entry.stale <= reader.entry.age

MemoTrue(k) == Fresh(k) => memo[k].value = Database(k)

\* The call that runs at most, what it is about to do, and what is so by then.
OneCall == \A a, b \in Running : a = b

InCall(a) ==
    /\ call[a].pc \in {"write", "current", "check"} =>
         call[a].op \in {"add", "on", "off", "delete"}
    /\ call[a].pc = "write" => \A p \in Providers : ~Fresh(p)
    /\ call[a].pc = "check" => call[a].current = table.default
    /\ call[a].pc = "cap" => call[a].op = "put"
    /\ call[a].pc \in {"fill", "set"} =>
         /\ call[a].op \in {"ensure", "cap", "default", "put"}
         /\ call[a].op = "cap" => call[a].default = Keep
         /\ call[a].op # "cap" => call[a].default \in Keys
         /\ call[a].op = "ensure" => On(provs) = {} \/ call[a].default \in On(provs)

\* A call that has changed a provider, and not yet seen to the default.
Unsettled(a) == \/ call[a].pc \in {"current", "check"}
                \/ call[a].pc \in {"fill", "set"} /\ call[a].op = "ensure"

DefaultGood == On(provs) # {} => table.default \in On(provs)

Sound ==
    /\ OneCall
    /\ \A p \in Providers : MemoTrue(p)
    /\ (\A a \in Admins : call[a].pc \notin {"cap", "forget"}) => MemoTrue(GlobalKey)
    /\ \A a \in Admins : InCall(a)
    /\ (\A a \in Admins : ~Unsettled(a)) => DefaultGood

Inv == TypeOK /\ Recent /\ (~exposed => Sound)

-----------------------------------------------------------------------------
(* The parts of a step. *)

LEMMA FirstFacts ==
    ASSUME NEW S \in SUBSET Providers
    PROVE  /\ First(S) \in S \cup {NoProvider}
           /\ S # {} => First(S) \in S
<1>1. CASE S = {}
  BY <1>1 DEF First
<1>2. CASE S # {}
  <2> DEFINE R == OpToRel(<, Nat)
  <2>1. S \subseteq Nat
    BY DEF Providers
  <2>2. \E p \in S : \A q \in S : ~(<<q, p>> \in R)
    BY <1>2, <2>1, NatLessThanWellFounded, WFMin
  <2>3. PICK p \in S : \A q \in S : ~(<<q, p>> \in R)
    BY <2>2
  <2>4. \A q \in S : p <= q
    <3>1. ASSUME NEW q \in S PROVE p <= q
      <4>1. ~(<<q, p>> \in {ss \in Nat \X Nat : ss[1] < ss[2]})
        BY <2>3 DEF OpToRel
      <4>2. ~(q < p)
        BY <2>1, <4>1
      <4> QED
        BY <2>1, <4>2
    <3> QED
      BY <3>1
  <2> QED
    BY <1>2, <2>4 DEF First
<1> QED
  BY <1>1, <1>2

LEMMA AdoptedFacts ==
    ASSUME NEW ps, NEW current \in Keys, NEW prefer \in Keys
    PROVE  /\ Adopted(ps, current, prefer) \in Keys
           /\ On(ps) # {} => Adopted(ps, current, prefer) \in On(ps)
<1>1. On(ps) \in SUBSET Providers /\ Providers \subseteq Keys /\ NoProvider \in Keys
  BY SettingsAssumption DEF On, Providers, Keys, NoProvider
<1> QED
  BY <1>1, FirstFacts DEF Adopted

LEMMA EntryFacts ==
    ASSUME TypeOK, NEW k \in Keys
    PROVE  /\ Nothing(k) \in Entries(k)
           /\ Nothing(k).age = Memo /\ Nothing(k).stale = 0
           /\ Database(k) \in Values(k)
           /\ Entry(Database(k)) \in Entries(k)
           /\ Entry(Database(k)).value = Database(k)
           /\ Entry(Database(k)).age = 0 /\ Entry(Database(k)).stale = 0
           /\ memo[k] \in Entries(k)
           /\ Through(k) \in Values(k)
<1>1. Memo \in Nat \ {0}
  BY SettingsAssumption
<1>2. Database(k) \in Values(k)
  <2>1. CASE k = GlobalKey
    BY <2>1 DEF TypeOK, Database, Values
  <2>2. CASE k # GlobalKey
    BY <2>2 DEF Database, Row, Values
  <2> QED
    BY <2>1, <2>2
<1>3. Nothing(k) \in Entries(k)
  <2>1. Unset \in [default : Keys, cap : Caps]
    BY SettingsAssumption DEF Unset, Keys, NoProvider
  <2>2. Nothing(k).value \in Values(k)
    <3>1. CASE k = GlobalKey
      BY <2>1, <3>1 DEF Values, Nothing
    <3>2. CASE k # GlobalKey
      BY <3>2 DEF Values, Nothing
    <3> QED
      BY <3>1, <3>2
  <2> QED
    BY <1>1, <2>2 DEF Nothing, Entries
<1>4. Entry(Database(k)) \in Entries(k)
  BY <1>1, <1>2 DEF Entry, Entries
<1>5. memo[k] \in Entries(k)
  BY DEF TypeOK
<1>6. Through(k) \in Values(k)
  BY <1>2, <1>5 DEF Through, Entries
<1> QED
  BY <1>2, <1>3, <1>4, <1>5, <1>6 DEF Nothing, Entry

\* Each key keeps its entry, loses it, or gets the database's value.
MemoStep(m) == \A k \in Keys : m[k] \in {memo[k], Nothing(k), Entry(Database(k))}

LEMMA MemoStepFacts ==
    ASSUME TypeOK, Recent, memo' = [k \in Keys |-> memo'[k]], MemoStep(memo')
    PROVE  /\ \A k \in Keys : memo'[k] \in Entries(k)
           /\ \A k \in Keys : memo'[k].stale <= memo'[k].age
<1>1. ASSUME NEW k \in Keys
      PROVE  memo'[k] \in Entries(k) /\ memo'[k].stale <= memo'[k].age
  BY EntryFacts, SettingsAssumption DEF MemoStep, Recent
<1> QED
  BY <1>1

LEMMA MemoSteps ==
    ASSUME TypeOK, NEW k \in Keys
    PROVE  /\ MemoStep(memo) /\ memo = [j \in Keys |-> memo[j]]
           /\ MemoStep(Forget) /\ Forget = [j \in Keys |-> Forget[j]]
           /\ MemoStep(ForgetSettings) /\ ForgetSettings = [j \in Keys |-> ForgetSettings[j]]
           /\ MemoStep(Filled(k)) /\ Filled(k) = [j \in Keys |-> Filled(k)[j]]
           /\ MemoStep([Filled(k) EXCEPT ![GlobalKey] = Nothing(GlobalKey)])
           /\ [Filled(k) EXCEPT ![GlobalKey] = Nothing(GlobalKey)]
                = [j \in Keys |-> [Filled(k) EXCEPT ![GlobalKey] = Nothing(GlobalKey)][j]]
<1>1. memo = [j \in Keys |-> memo[j]]
  BY DEF TypeOK
<1>2. GlobalKey \in Keys
  BY SettingsAssumption DEF GlobalKey, Keys
<1>3. MemoStep(memo) /\ MemoStep(Forget) /\ Forget = [j \in Keys |-> Forget[j]]
  BY DEF MemoStep, Forget
<1>4. MemoStep(ForgetSettings) /\ ForgetSettings = [j \in Keys |-> ForgetSettings[j]]
  BY <1>1, <1>2 DEF MemoStep, ForgetSettings
<1>5. MemoStep(Filled(k)) /\ Filled(k) = [j \in Keys |-> Filled(k)[j]]
  BY <1>1 DEF MemoStep, Filled
<1>6. MemoStep([Filled(k) EXCEPT ![GlobalKey] = Nothing(GlobalKey)])
      /\ [Filled(k) EXCEPT ![GlobalKey] = Nothing(GlobalKey)]
           = [j \in Keys |-> [Filled(k) EXCEPT ![GlobalKey] = Nothing(GlobalKey)][j]]
  BY <1>2, <1>5 DEF MemoStep
<1> QED
  BY <1>1, <1>3, <1>4, <1>5, <1>6

\* The type of an admin call, part by part.
LEMMA CallFacts ==
    ASSUME TypeOK, NEW a \in Admins
    PROVE  /\ call[a] \in Calls /\ Idle \in Calls
           /\ Idle.pc = "idle" /\ Idle.op = "none"
           /\ \A c \in Calls : call' = [call EXCEPT ![a] = c] =>
                call' \in [Admins -> Calls] /\ call'[a] = c
                /\ \A b \in Admins : b # a => call'[b] = call[b]
<1>1. call \in [Admins -> Calls]
  BY DEF TypeOK
<1>2. Idle \in Calls
  BY SettingsAssumption DEF Calls, Idle, Keys, NoProvider
<1>3. \A c \in Calls : call' = [call EXCEPT ![a] = c] =>
         call' \in [Admins -> Calls] /\ call'[a] = c
         /\ \A b \in Admins : b # a => call'[b] = call[b]
  BY <1>1
<1> QED
  BY <1>1, <1>2, <1>3 DEF Idle

LEMMA Counts == TypeOK /\ Operates => ops' \in 0..MaxOps
BY SettingsAssumption DEF TypeOK, Operates

\* A step of an admin call keeps the types.
LEMMA AdminTypes ==
    ASSUME TypeOK, Recent, NEW a \in Admins, NEW c \in Calls,
           call' = [call EXCEPT ![a] = c],
           provs' \in [Providers -> {"none", "on", "off", "gone"}],
           table' \in [default : Keys, cap : Caps],
           memo' = [k \in Keys |-> memo'[k]], MemoStep(memo'),
           UNCHANGED reader, exposed' \in BOOLEAN, ops' \in 0..MaxOps
    PROVE  TypeOK' /\ Recent'
<1>1. call' \in [Admins -> Calls]
  BY CallFacts
<1>2. /\ \A k \in Keys : memo'[k] \in Entries(k)
      /\ \A k \in Keys : memo'[k].stale <= memo'[k].age
  BY MemoStepFacts
<1>3. TypeOK'
  BY <1>1, <1>2 DEF TypeOK, Entries, Values
<1>4. Recent'
  BY <1>2 DEF Recent
<1> QED
  BY <1>3, <1>4

\* A call that begins is the only one, or leaves the invariant no more to say.
LEMMA BeginSound ==
    ASSUME TypeOK, ~exposed => Sound, NEW a \in Admins, NEW c \in Calls, Begin(a, c),
           MemoStep(memo'), c.pc \in {"write", "fill"},
           c.pc = "write" => /\ c.op \in {"add", "on", "off", "delete"}
                             /\ memo' = Forget,
           c.pc = "fill" => /\ c.op \in {"cap", "default", "put"}
                            /\ c.op = "cap" => c.default = Keep
                            /\ c.op # "cap" => c.default \in Keys
    PROVE  ~exposed' => Sound'
<1> SUFFICES ASSUME ~exposed' PROVE Sound'
  OBVIOUS
<1>1. ~exposed /\ Running = {} /\ Sound
  BY DEF Begin
<1>2. call'[a] = c /\ \A b \in Admins : b # a => call'[b] = call[b] /\ call'[b].pc = "idle"
  BY <1>1, CallFacts DEF Begin, Running
<1>3. UNCHANGED <<provs, table>> /\ \A k \in Keys : Database(k)' = Database(k)
  BY DEF Begin, Database, Row
<1>4. OneCall'
  BY <1>2 DEF OneCall, Running
<1>5. \A b \in Admins : call[b].pc \notin {"cap", "forget"} /\ ~Unsettled(b)
  BY <1>1 DEF Running, Unsettled
<1>6. \A k \in Keys : MemoTrue(k)
  BY <1>1, <1>5 DEF Sound, Keys, Providers, GlobalKey
<1>7. \A k \in Keys : MemoTrue(k)'
  <2>1. ASSUME NEW k \in Keys PROVE MemoTrue(k)'
    <3>1. memo'[k] \in {memo[k], Nothing(k), Entry(Database(k))}
      BY DEF MemoStep
    <3>2. Memo \in Nat /\ Nothing(k).age = Memo /\ Entry(Database(k)).value = Database(k)
      BY EntryFacts, SettingsAssumption
    <3> QED
      BY <1>3, <1>6, <3>1, <3>2 DEF MemoTrue, Fresh
  <2> QED
    BY <2>1
<1>8. GlobalKey \in Keys /\ Providers \subseteq Keys
  BY SettingsAssumption DEF GlobalKey, Keys, Providers
<1>9. c.pc = "write" => \A p \in Providers : ~Fresh(p)'
  BY <1>8, SettingsAssumption DEF Forget, Fresh, Nothing, Providers, GlobalKey
<1>10. ASSUME NEW b \in Admins PROVE InCall(b)'
  <2>1. CASE b = a
    BY <1>2, <1>9, <2>1 DEF InCall
  <2>2. CASE b # a
    BY <1>2, <2>2 DEF InCall
  <2> QED
    BY <2>1, <2>2
<1>11. DefaultGood'
  BY <1>1, <1>3, <1>5 DEF Sound, DefaultGood, On
<1> QED
  BY <1>4, <1>7, <1>8, <1>10, <1>11 DEF Sound

\* Entries stay true where the database does.
LEMMA StaysTrue ==
    ASSUME TypeOK, NEW k \in Keys, MemoStep(memo'), Database(k)' = Database(k), MemoTrue(k)
    PROVE  MemoTrue(k)'
<1>1. memo'[k] \in {memo[k], Nothing(k), Entry(Database(k))}
  BY DEF MemoStep
<1>2. Memo \in Nat /\ Nothing(k).age = Memo /\ Entry(Database(k)).value = Database(k)
  BY EntryFacts, SettingsAssumption
<1> QED
  BY <1>1, <1>2 DEF MemoTrue, Fresh

\* A step of the one call that runs: what has to be shown of it.
LEMMA AdminSound ==
    ASSUME TypeOK, Sound, NEW a \in Admins, call[a].pc # "idle", NEW c \in Calls,
           call' = [call EXCEPT ![a] = c],
           \A p \in Providers : MemoTrue(p)',
           c.pc \notin {"cap", "forget"} => MemoTrue(GlobalKey)',
           InCall(a)',
           ~Unsettled(a)' => DefaultGood'
    PROVE  Sound'
<1>1. /\ call'[a] = c
      /\ \A b \in Admins : b # a => call'[b] = call[b]
  BY CallFacts
<1>2. \A b \in Admins : b # a => call[b].pc = "idle"
  BY DEF Sound, OneCall, Running
<1>3. OneCall'
  BY <1>1, <1>2 DEF OneCall, Running
<1>4. \A b \in Admins : InCall(b)'
  <2>1. ASSUME NEW b \in Admins, b # a PROVE InCall(b)'
    BY <1>1, <1>2, <2>1 DEF InCall
  <2> QED
    BY <2>1
<1> QED
  BY <1>1, <1>3, <1>4 DEF Sound

\* In a call that is not at its last step, all that is remembered is true.
LEMMA Remembered ==
    ASSUME TypeOK, Sound, NEW a \in Admins, call[a].pc \notin {"idle", "cap", "forget"}
    PROVE  \A k \in Keys : MemoTrue(k)
<1>1. \A b \in Admins : call[b].pc \notin {"cap", "forget"}
  BY DEF Sound, OneCall, Running
<1> QED
  BY <1>1 DEF Sound, Keys, Providers, GlobalKey

LEMMA KeySets == GlobalKey \in Keys /\ Providers \subseteq Keys /\ NoProvider \in Keys
                 /\ GlobalKey \notin Providers /\ Providers \subseteq Nat
BY SettingsAssumption DEF GlobalKey, Keys, Providers, NoProvider

\* What is read through a memo that is true is what the database holds.
LEMMA ThroughTrue ==
    ASSUME NEW k \in Keys, MemoTrue(k)
    PROVE  Through(k) = Database(k)
BY DEF Through, MemoTrue
-----------------------------------------------------------------------------
(* One lemma per step of an admin call. *)

LEMMA WritesProviderInv ==
    ASSUME Inv, NEW a \in Admins, WritesProvider(a)
    PROVE  Inv'
<1>0. TypeOK /\ Recent /\ UNCHANGED <<table, memo, reader, exposed, ops>>
      /\ call[a] \in Calls /\ call[a].pc = "write" /\ call[a].target \in Keys
  BY CallFacts DEF Inv, WritesProvider, Calls
<1> DEFINE next == First({q \in Providers : provs[q] = "none"})
<1>1. next \in Providers \cup {NoProvider}
  BY FirstFacts
<1>2. \E c \in Calls :
        /\ call' = [call EXCEPT ![a] = c]
        /\ \/ c.pc = "current" /\ c.op = call[a].op
           \/ c = Idle /\ UNCHANGED provs
        /\ provs' \in [Providers -> {"none", "on", "off", "gone"}]
  <2>1. CASE Adds(a)
    <3>1. [call[a] EXCEPT !.pc = "current", !.target = next] \in Calls
      BY <1>0, <1>1, KeySets DEF Calls
    <3>2. call' = [call EXCEPT ![a] = [call[a] EXCEPT !.pc = "current", !.target = next]]
      BY <1>0, <2>1 DEF Adds, TypeOK
    <3>3. provs' \in [Providers -> {"none", "on", "off", "gone"}]
      BY <1>0, <1>1, <2>1 DEF Adds, TypeOK
    <3>4. [call[a] EXCEPT !.pc = "current", !.target = next].pc = "current"
          /\ [call[a] EXCEPT !.pc = "current", !.target = next].op = call[a].op
      BY <1>0 DEF Calls
    <3> QED
      BY <3>1, <3>2, <3>3, <3>4
  <2>2. CASE Updates(a) \/ Deletes(a)
    <3>1. [call[a] EXCEPT !.pc = "current"] \in Calls /\ Idle \in Calls
      BY <1>0, CallFacts DEF Calls
    <3>2. provs' \in [Providers -> {"none", "on", "off", "gone"}]
      BY <1>0, <2>2 DEF Updates, Deletes, TypeOK
    <3>3. [call[a] EXCEPT !.pc = "current"].pc = "current"
          /\ [call[a] EXCEPT !.pc = "current"].op = call[a].op
      BY <1>0 DEF Calls
    <3>4. \/ call' = [call EXCEPT ![a] = [call[a] EXCEPT !.pc = "current"]]
          \/ call' = [call EXCEPT ![a] = Idle] /\ UNCHANGED provs
      BY <1>0, <2>2 DEF Updates, Deletes, Goto, Ends, TypeOK
    <3> QED
      BY <3>1, <3>2, <3>3, <3>4
  <2> QED
    BY <2>1, <2>2 DEF WritesProvider
<1>3. PICK c \in Calls :
        /\ call' = [call EXCEPT ![a] = c]
        /\ \/ c.pc = "current" /\ c.op = call[a].op
           \/ c = Idle /\ UNCHANGED provs
        /\ provs' \in [Providers -> {"none", "on", "off", "gone"}]
  BY <1>2
<1>4. TypeOK' /\ Recent'
  <2>1. MemoStep(memo') /\ memo' = [k \in Keys |-> memo'[k]]
    BY <1>0, MemoSteps, KeySets
  <2>2. table' \in [default : Keys, cap : Caps] /\ exposed' \in BOOLEAN /\ ops' \in 0..MaxOps
    BY <1>0 DEF TypeOK
  <2> QED
    BY <1>0, <1>3, <2>1, <2>2, AdminTypes
<1>5. ASSUME ~exposed' PROVE Sound'
  <2>1. Sound /\ \A p \in Providers : ~Fresh(p)
    BY <1>0, <1>5 DEF Inv, Sound, InCall
  <2>2. \A p \in Providers : MemoTrue(p)'
    BY <1>0, <2>1 DEF MemoTrue, Fresh
  <2>3. MemoTrue(GlobalKey)'
    BY <1>0, <2>1, Remembered, KeySets DEF MemoTrue, Fresh, Database
  <2>4. call'[a] = c
    BY <1>0, <1>3, CallFacts
  <2>5. InCall(a)'
    BY <1>0, <1>3, <2>1, <2>4, CallFacts DEF InCall, Sound
  <2>6. ~Unsettled(a)' => DefaultGood'
    <3>1. ASSUME ~Unsettled(a)' PROVE UNCHANGED provs /\ c = Idle
      BY <1>3, <2>4, <3>1 DEF Unsettled
    <3>2. \A b \in Admins : ~Unsettled(b)
      BY <1>0, <2>1 DEF Sound, OneCall, Running, Unsettled
    <3> QED
      BY <1>0, <2>1, <3>1, <3>2 DEF Sound, DefaultGood, On
  <2> QED
    BY <1>0, <1>3, <2>1, <2>2, <2>3, <2>5, <2>6, AdminSound
<1> QED
  BY <1>4, <1>5 DEF Inv

LEMMA ReadsDefaultInv ==
    ASSUME Inv, NEW a \in Admins, ReadsDefault(a)
    PROVE  Inv'
<1> DEFINE c == [call[a] EXCEPT !.pc = "check", !.current = Through(GlobalKey).default]
<1>0. TypeOK /\ Recent /\ UNCHANGED <<provs, table, reader, exposed, ops>>
      /\ call[a] \in Calls /\ call[a].pc = "current" /\ memo' = Filled(GlobalKey)
  BY CallFacts DEF Inv, ReadsDefault
<1>1. Through(GlobalKey).default \in Keys
  BY <1>0, EntryFacts, KeySets DEF Values
<1>2. c \in Calls /\ c.pc = "check" /\ c.op = call[a].op /\ c.current = Through(GlobalKey).default
  BY <1>0, <1>1 DEF Calls
<1>3. call' = [call EXCEPT ![a] = c]
  BY <1>0 DEF ReadsDefault, TypeOK
<1>4. MemoStep(memo') /\ memo' = [k \in Keys |-> memo'[k]]
  BY <1>0, MemoSteps, KeySets
<1>5. TypeOK' /\ Recent'
  <2>1. provs' \in [Providers -> {"none", "on", "off", "gone"}]
        /\ table' \in [default : Keys, cap : Caps] /\ exposed' \in BOOLEAN /\ ops' \in 0..MaxOps
    BY <1>0 DEF TypeOK
  <2> QED
    BY <1>0, <1>2, <1>3, <1>4, <2>1, AdminTypes
<1>6. ASSUME ~exposed' PROVE Sound'
  <2>1. Sound /\ \A k \in Keys : MemoTrue(k)
    BY <1>0, <1>6, Remembered DEF Inv
  <2>2. \A k \in Keys : MemoTrue(k)'
    BY <1>0, <1>4, <2>1, StaysTrue DEF Database, Row
  <2>3. call'[a] = c
    BY <1>0, <1>2, <1>3, CallFacts
  <2>4. c.current = table.default
    BY <1>2, <2>1, ThroughTrue, KeySets DEF Database
  <2>5. InCall(a)'
    BY <1>0, <1>2, <2>1, <2>3, <2>4 DEF InCall, Sound
  <2>6. Unsettled(a)'
    BY <1>2, <2>3 DEF Unsettled
  <2> QED
    BY <1>0, <1>2, <1>3, <2>1, <2>2, <2>5, <2>6, KeySets, AdminSound
<1> QED
  BY <1>5, <1>6 DEF Inv

LEMMA ChecksDefaultInv ==
    ASSUME Inv, NEW a \in Admins, ChecksDefault(a)
    PROVE  Inv'
<1> DEFINE old == call[a]
           prefer == IF old.op = "add" THEN old.target ELSE NoProvider
           chosen == IF prefer \in On(provs) THEN prefer ELSE First(On(provs))
           looked == IF old.current = NoProvider THEN memo ELSE Filled(old.current)
           done == Answers(old.current) \/ (chosen = NoProvider /\ old.current = NoProvider)
           next == [old EXCEPT !.pc = "fill", !.default = chosen, !.op = "ensure"]
           c == IF done THEN Idle ELSE next
<1>0. TypeOK /\ Recent /\ UNCHANGED <<provs, table, reader, exposed, ops>>
      /\ old \in Calls /\ old.pc = "check" /\ old.current \in Keys
  BY CallFacts DEF Inv, ChecksDefault, Calls
<1>1. chosen \in Keys /\ (On(provs) # {} => chosen \in On(provs))
  <2>1. On(provs) \in SUBSET Providers
    BY DEF On
  <2> QED
    BY <2>1, FirstFacts, KeySets
<1>2. next \in Calls /\ next.pc = "fill" /\ next.op = "ensure" /\ next.default = chosen
  BY <1>0, <1>1 DEF Calls
<1>3. c \in Calls /\ call' = [call EXCEPT ![a] = c]
  <2>1. CASE done
    BY <2>1, CallFacts, <1>0 DEF ChecksDefault, Ends
  <2>2. CASE ~done
    BY <1>0, <1>2, <2>2 DEF ChecksDefault, TypeOK
  <2> QED
    BY <2>1, <2>2
<1>4. MemoStep(memo') /\ memo' = [k \in Keys |-> memo'[k]]
  <2>1. MemoStep(looked) /\ looked = [k \in Keys |-> looked[k]]
    BY <1>0, MemoSteps, KeySets
  <2>2. CASE memo' = looked
    BY <2>1, <2>2
  <2>3. CASE memo' = [looked EXCEPT ![GlobalKey] = Nothing(GlobalKey)]
    BY <2>1, <2>3, KeySets DEF MemoStep
  <2> QED
    BY <2>2, <2>3 DEF ChecksDefault
<1>5. TypeOK' /\ Recent'
  <2>1. provs' \in [Providers -> {"none", "on", "off", "gone"}]
        /\ table' \in [default : Keys, cap : Caps] /\ exposed' \in BOOLEAN /\ ops' \in 0..MaxOps
    BY <1>0 DEF TypeOK
  <2> QED
    BY <1>0, <1>3, <1>4, <2>1, AdminTypes
<1>6. ASSUME ~exposed' PROVE Sound'
  <2>1. Sound /\ (\A k \in Keys : MemoTrue(k)) /\ old.current = table.default
    BY <1>0, <1>6, Remembered DEF Inv, Sound, InCall
  <2>2. \A k \in Keys : MemoTrue(k)'
    BY <1>0, <1>4, <2>1, StaysTrue DEF Database, Row
  <2>3. call'[a] = c
    BY <1>0, <1>3, CallFacts
  <2>4. InCall(a)'
    BY <1>0, <1>1, <1>2, <2>3, CallFacts DEF InCall
  <2>5. ~Unsettled(a)' => DefaultGood'
    <3>1. ASSUME ~Unsettled(a)', On(provs) # {} PROVE table.default \in On(provs)
      <4>1. done
        BY <1>2, <2>3, <3>1 DEF Unsettled
      <4>2. chosen # NoProvider
        BY <1>1, <3>1, KeySets DEF On, NoProvider, GlobalKey
      <4>3. old.current # NoProvider /\ Through(old.current) = "on"
        BY <4>1, <4>2 DEF Answers
      <4>4. Through(old.current) = Row(old.current)
        BY <1>0, <2>1, <4>3, ThroughTrue DEF Database, GlobalKey, NoProvider
      <4>5. old.current \in Providers
        BY <1>0, <4>3 DEF Keys, NoProvider, Providers
      <4> QED
        BY <2>1, <4>3, <4>4, <4>5 DEF Row, On
    <3> QED
      BY <1>0, <3>1 DEF DefaultGood, On
  <2> QED
    BY <1>0, <1>3, <2>1, <2>2, <2>4, <2>5, KeySets, AdminSound
<1> QED
  BY <1>5, <1>6 DEF Inv

LEMMA FillsSettingsInv ==
    ASSUME Inv, NEW a \in Admins, FillsSettings(a)
    PROVE  Inv'
<1> DEFINE c == [call[a] EXCEPT !.pc = "set"]
<1>0. TypeOK /\ Recent /\ UNCHANGED <<provs, table, reader, exposed, ops>>
      /\ call[a] \in Calls /\ call[a].pc = "fill" /\ memo' = Filled(GlobalKey)
  BY CallFacts DEF Inv, FillsSettings
<1>1. c \in Calls /\ c.pc = "set" /\ c.op = call[a].op /\ c.default = call[a].default
  BY <1>0 DEF Calls
<1>2. call' = [call EXCEPT ![a] = c]
  BY <1>0 DEF FillsSettings, Goto, TypeOK
<1>3. MemoStep(memo') /\ memo' = [k \in Keys |-> memo'[k]]
  BY <1>0, MemoSteps, KeySets
<1>4. TypeOK' /\ Recent'
  <2>1. provs' \in [Providers -> {"none", "on", "off", "gone"}]
        /\ table' \in [default : Keys, cap : Caps] /\ exposed' \in BOOLEAN /\ ops' \in 0..MaxOps
    BY <1>0 DEF TypeOK
  <2> QED
    BY <1>0, <1>1, <1>2, <1>3, <2>1, AdminTypes
<1>5. ASSUME ~exposed' PROVE Sound'
  <2>1. Sound /\ \A k \in Keys : MemoTrue(k)
    BY <1>0, <1>5, Remembered DEF Inv
  <2>2. \A k \in Keys : MemoTrue(k)'
    BY <1>0, <1>3, <2>1, StaysTrue DEF Database, Row
  <2>3. call'[a] = c
    BY <1>0, <1>1, <1>2, CallFacts
  <2>4. InCall(a)'
    BY <1>0, <1>1, <2>1, <2>3 DEF InCall, Sound, On
  <2>5. ~Unsettled(a)' => DefaultGood'
    <3>1. ASSUME ~Unsettled(a)' PROVE DefaultGood
      <4>1. \A b \in Admins : ~Unsettled(b)
        BY <1>0, <1>1, <2>1, <2>3, <3>1 DEF Unsettled, Sound, OneCall, Running
      <4> QED
        BY <2>1, <4>1 DEF Sound
    <3> QED
      BY <1>0, <3>1 DEF DefaultGood, On
  <2> QED
    BY <1>0, <1>1, <1>2, <2>1, <2>2, <2>4, <2>5, KeySets, AdminSound
<1> QED
  BY <1>4, <1>5 DEF Inv

LEMMA WritesSettingsInv ==
    ASSUME Inv, NEW a \in Admins, WritesSettings(a)
    PROVE  Inv'
<1> DEFINE next == IF call[a].op = "put" THEN "cap" ELSE "forget"
           c == [call[a] EXCEPT !.pc = next]
<1>0. TypeOK /\ Recent /\ UNCHANGED <<provs, memo, reader, ops>> /\ table' = Written(call[a])
      /\ call[a] \in Calls /\ call[a].pc = "set"
  BY CallFacts DEF Inv, WritesSettings
<1>1. c \in Calls /\ c.pc = next /\ c.op = call[a].op
  BY <1>0 DEF Calls
<1>2. call' = [call EXCEPT ![a] = c]
  BY <1>0 DEF WritesSettings, Goto, TypeOK
<1>3. table' \in [default : Keys, cap : Caps]
  BY <1>0 DEF Written, TypeOK, Calls
<1>4. exposed' = (exposed \/ (call[a].op \in {"default", "put"} /\ call[a].default \notin On(provs)))
  BY DEF WritesSettings
<1>5. TypeOK' /\ Recent'
  <2>1. provs' \in [Providers -> {"none", "on", "off", "gone"}] /\ ops' \in 0..MaxOps
    BY <1>0 DEF TypeOK
  <2>2. exposed' \in BOOLEAN
    BY <1>0, <1>4 DEF TypeOK
  <2>3. MemoStep(memo') /\ memo' = [k \in Keys |-> memo'[k]]
    BY <1>0, MemoSteps, KeySets
  <2> QED
    BY <1>0, <1>1, <1>2, <1>3, <2>1, <2>2, <2>3, AdminTypes
<1>6. ASSUME ~exposed' PROVE Sound'
  <2>1. Sound /\ \A k \in Keys : MemoTrue(k)
    BY <1>0, <1>4, <1>6, Remembered DEF Inv
  <2>2. \A p \in Providers : MemoTrue(p)'
    BY <1>0, <2>1, KeySets DEF MemoTrue, Fresh, Database, Row
  <2>3. call'[a] = c
    BY <1>0, <1>1, <1>2, CallFacts
  <2>4. InCall(a)'
    BY <1>1, <2>3 DEF InCall
  <2>5. DefaultGood'
    <3>1. InCall(a)
      BY <2>1 DEF Sound
    <3>2. CASE call[a].op = "cap"
      <4>1. table'.default = table.default
        BY <1>0, <3>1, <3>2 DEF InCall, Written, TypeOK
      <4>2. \A b \in Admins : ~Unsettled(b)
        BY <1>0, <2>1, <3>2 DEF Unsettled, Sound, OneCall, Running
      <4> QED
        BY <1>0, <2>1, <4>1, <4>2 DEF Sound, DefaultGood, On
    <3>3. CASE call[a].op # "cap"
      <4>1. call[a].default \in Keys /\ call[a].default # Keep
        BY <1>0, <3>1, <3>3, SettingsAssumption DEF InCall, Keys, Keep
      <4>2. table'.default = call[a].default
        BY <1>0, <4>1 DEF Written, TypeOK
      <4>3. On(provs) # {} => call[a].default \in On(provs)
        BY <1>0, <1>4, <1>6, <3>1, <3>3 DEF InCall
      <4> QED
        BY <1>0, <4>2, <4>3 DEF DefaultGood, On
    <3> QED
      BY <3>2, <3>3
  <2> QED
    BY <1>0, <1>1, <1>2, <2>1, <2>2, <2>4, <2>5, AdminSound
<1> QED
  BY <1>5, <1>6 DEF Inv

LEMMA WritesCapInv ==
    ASSUME Inv, NEW a \in Admins, WritesCap(a)
    PROVE  Inv'
<1> DEFINE c == [call[a] EXCEPT !.pc = "forget"]
<1>0. TypeOK /\ Recent /\ UNCHANGED <<provs, memo, reader, exposed, ops>>
      /\ call[a] \in Calls /\ call[a].pc = "cap" /\ table' = [table EXCEPT !.cap = call[a].cap]
  BY CallFacts DEF Inv, WritesCap
<1>1. c \in Calls /\ c.pc = "forget"
  BY <1>0 DEF Calls
<1>2. call' = [call EXCEPT ![a] = c]
  BY <1>0 DEF WritesCap, Goto, TypeOK
<1>3. table' \in [default : Keys, cap : Caps] /\ table'.default = table.default
  BY <1>0 DEF TypeOK, Calls
<1>4. TypeOK' /\ Recent'
  <2>1. provs' \in [Providers -> {"none", "on", "off", "gone"}]
        /\ exposed' \in BOOLEAN /\ ops' \in 0..MaxOps
    BY <1>0 DEF TypeOK
  <2>2. MemoStep(memo') /\ memo' = [k \in Keys |-> memo'[k]]
    BY <1>0, MemoSteps, KeySets
  <2> QED
    BY <1>0, <1>1, <1>2, <1>3, <2>1, <2>2, AdminTypes
<1>5. ASSUME ~exposed' PROVE Sound'
  <2>1. Sound
    BY <1>0, <1>5 DEF Inv
  <2>2. \A p \in Providers : MemoTrue(p)'
    BY <1>0, <2>1, KeySets DEF MemoTrue, Fresh, Database, Row, Sound
  <2>3. call'[a] = c
    BY <1>0, <1>1, <1>2, CallFacts
  <2>4. InCall(a)'
    BY <1>1, <2>3 DEF InCall
  <2>5. DefaultGood'
    <3>1. \A b \in Admins : ~Unsettled(b)
      BY <1>0, <2>1 DEF Unsettled, Sound, OneCall, Running
    <3> QED
      BY <1>0, <1>3, <2>1, <3>1 DEF Sound, DefaultGood, On
  <2> QED
    BY <1>0, <1>1, <1>2, <2>1, <2>2, <2>4, <2>5, AdminSound
<1> QED
  BY <1>4, <1>5 DEF Inv

LEMMA ForgetsAgainInv ==
    ASSUME Inv, NEW a \in Admins, ForgetsAgain(a)
    PROVE  Inv'
<1>0. TypeOK /\ Recent /\ UNCHANGED <<provs, table, reader, exposed, ops>>
      /\ call[a].pc = "forget" /\ memo' = ForgetSettings
      /\ call' = [call EXCEPT ![a] = Idle] /\ Idle \in Calls
  BY CallFacts DEF Inv, ForgetsAgain, Ends
<1>1. MemoStep(memo') /\ memo' = [k \in Keys |-> memo'[k]]
  BY <1>0, MemoSteps, KeySets
<1>2. TypeOK' /\ Recent'
  <2>1. provs' \in [Providers -> {"none", "on", "off", "gone"}]
        /\ table' \in [default : Keys, cap : Caps] /\ exposed' \in BOOLEAN /\ ops' \in 0..MaxOps
    BY <1>0 DEF TypeOK
  <2> QED
    BY <1>0, <1>1, <2>1, AdminTypes
<1>3. ASSUME ~exposed' PROVE Sound'
  <2>1. Sound
    BY <1>0, <1>3 DEF Inv
  <2>2. \A p \in Providers : MemoTrue(p)'
    BY <1>0, <1>1, <2>1, KeySets, StaysTrue DEF Database, Row, Sound
  <2>3. MemoTrue(GlobalKey)'
    <3>1. memo'[GlobalKey] = Nothing(GlobalKey)
      BY <1>0, KeySets DEF ForgetSettings, TypeOK
    <3> QED
      BY <3>1, SettingsAssumption DEF MemoTrue, Fresh, Nothing
  <2>4. call'[a] = Idle
    BY <1>0, CallFacts
  <2>5. InCall(a)'
    BY <2>4, CallFacts, <1>0 DEF InCall
  <2>6. DefaultGood'
    <3>1. \A b \in Admins : ~Unsettled(b)
      BY <1>0, <2>1 DEF Unsettled, Sound, OneCall, Running
    <3> QED
      BY <1>0, <2>1, <3>1 DEF Sound, DefaultGood, On
  <2> QED
    BY <1>0, <2>1, <2>2, <2>3, <2>5, <2>6, AdminSound
<1> QED
  BY <1>2, <1>3 DEF Inv

LEMMA BreaksOffInv ==
    ASSUME Inv, NEW a \in Admins, BreaksOff(a)
    PROVE  Inv'
<1>0. TypeOK /\ Recent /\ UNCHANGED <<provs, table, memo, reader>> /\ call[a].pc # "idle"
      /\ call' = [call EXCEPT ![a] = Idle] /\ Idle \in Calls
      /\ exposed' = (exposed \/ Midway(a)) /\ ops' \in 0..MaxOps
  BY CallFacts, Counts DEF Inv, BreaksOff, Ends
<1>1. MemoStep(memo') /\ memo' = [k \in Keys |-> memo'[k]]
  BY <1>0, MemoSteps, KeySets
<1>2. TypeOK' /\ Recent'
  <2>1. provs' \in [Providers -> {"none", "on", "off", "gone"}]
        /\ table' \in [default : Keys, cap : Caps] /\ exposed' \in BOOLEAN
    BY <1>0 DEF TypeOK
  <2> QED
    BY <1>0, <1>1, <2>1, AdminTypes
<1>3. ASSUME ~exposed' PROVE Sound'
  <2>1. Sound /\ ~Midway(a)
    BY <1>0, <1>3 DEF Inv
  <2>2. \A k \in Keys : MemoTrue(k)'
    <3>1. \A k \in Keys : MemoTrue(k)
      BY <1>0, <2>1, Remembered DEF Midway
    <3> QED
      BY <1>0, <3>1 DEF MemoTrue, Fresh, Database, Row
  <2>3. call'[a] = Idle
    BY <1>0, CallFacts
  <2>4. InCall(a)'
    BY <2>3, CallFacts, <1>0 DEF InCall
  <2>5. DefaultGood'
    <3>1. \A b \in Admins : ~Unsettled(b)
      BY <1>0, <2>1 DEF Unsettled, Midway, Sound, OneCall, Running
    <3> QED
      BY <1>0, <2>1, <3>1 DEF Sound, DefaultGood, On
  <2> QED
    BY <1>0, <2>1, <2>2, <2>4, <2>5, KeySets, AdminSound
<1> QED
  BY <1>2, <1>3 DEF Inv
-----------------------------------------------------------------------------
(* Calls that begin, the reader, time and restarts. *)

LEMMA BeginTypes ==
    ASSUME TypeOK, Recent, NEW a \in Admins, NEW c \in Calls, Begin(a, c),
           MemoStep(memo'), memo' = [k \in Keys |-> memo'[k]]
    PROVE  TypeOK' /\ Recent'
<1>1. provs' \in [Providers -> {"none", "on", "off", "gone"}]
      /\ table' \in [default : Keys, cap : Caps] /\ UNCHANGED reader
      /\ call' = [call EXCEPT ![a] = c]
  BY DEF Begin, TypeOK
<1>2. exposed' \in BOOLEAN
  BY DEF Begin, TypeOK
<1>3. ops' \in 0..MaxOps
  BY Counts DEF Begin
<1> QED
  BY <1>1, <1>2, <1>3, AdminTypes

LEMMA AskedInv ==
    ASSUME Inv, NEW a \in Admins, Asked(a)
    PROVE  Inv'
<1>0. TypeOK /\ Recent /\ (~exposed => Sound) /\ Idle \in Calls
  BY CallFacts DEF Inv
<1>1. ASSUME NEW op \in {"add", "on", "off", "delete"}, NEW p \in Keys, ChangeProvider(a, op, p)
      PROVE  Inv'
  <2> DEFINE c == [Idle EXCEPT !.pc = "write", !.op = op, !.target = p]
  <2>1. c \in Calls /\ c.pc = "write" /\ c.op = op
    BY <1>0 DEF Calls, Idle
  <2>2. Begin(a, c) /\ memo' = Forget
    BY <1>1 DEF ChangeProvider
  <2>3. MemoStep(memo') /\ memo' = [k \in Keys |-> memo'[k]]
    BY <1>0, <2>2, MemoSteps, KeySets
  <2>4. TypeOK' /\ Recent'
    BY <1>0, <2>1, <2>2, <2>3, BeginTypes
  <2>5. ~exposed' => Sound'
    BY <1>0, <2>1, <2>2, <2>3, BeginSound
  <2> QED
    BY <2>4, <2>5 DEF Inv
<1>2. ASSUME NEW op \in {"cap", "default", "put"}, NEW d \in Keys \cup {Keep},
             op = "cap" => d = Keep, op # "cap" => d \in Keys,
             NEW c \in Calls, c.pc = "fill", c.op = op, c.default = d,
             Begin(a, c), MemoStep(memo'), memo' = [k \in Keys |-> memo'[k]]
      PROVE  Inv'
  <2>2. TypeOK' /\ Recent'
    BY <1>0, <1>2, BeginTypes
  <2>3. ~exposed' => Sound'
    BY <1>0, <1>2, BeginSound
  <2> QED
    BY <2>2, <2>3 DEF Inv
<1>3. ASSUME NEW p \in Providers, MakeDefault(a, p)
      PROVE  Inv'
  <2> DEFINE c == [Idle EXCEPT !.pc = "fill", !.op = "default", !.default = p]
  <2>1. c \in Calls /\ c.pc = "fill" /\ c.op = "default" /\ c.default = p
    BY <1>0, KeySets DEF Calls, Idle
  <2>2. MemoStep(memo') /\ memo' = [k \in Keys |-> memo'[k]]
    BY <1>0, <1>3, MemoSteps, KeySets DEF MakeDefault
  <2>3. Begin(a, c)
    BY <1>3 DEF MakeDefault
  <2> QED
    BY <1>2, <2>1, <2>2, <2>3, KeySets
<1>4. ASSUME NEW op \in {"cap", "put"}, NEW d \in Keys \cup {Keep}, NEW cap \in Caps,
             op = "cap" => d = Keep, op # "cap" => d \in Keys, SetGlobal(a, d, cap, op)
      PROVE  Inv'
  <2> DEFINE c == [Idle EXCEPT !.pc = "fill", !.op = op, !.default = d, !.cap = cap]
  <2>1. MemoStep(memo') /\ memo' = [k \in Keys |-> memo'[k]]
    BY <1>0, <1>4, MemoSteps, KeySets DEF SetGlobal
  <2>2. c \in Calls /\ c.pc = "fill" /\ c.op = op /\ c.default = d
    BY <1>0, <1>4 DEF Calls, Idle
  <2>3. Begin(a, c)
    BY <1>4 DEF SetGlobal
  <2> QED
    BY <1>2, <1>4, <2>1, <2>2, <2>3
<1>5. ASSUME NEW cap \in Caps, SetCap(a, cap)
      PROVE  Inv'
  BY <1>4, <1>5 DEF SetCap
<1>6. ASSUME NEW cap \in Caps, NEW p \in Providers \cup {NoProvider}, PutSettings(a, p, cap)
      PROVE  Inv'
  BY <1>4, <1>6, KeySets DEF PutSettings
<1> QED
  BY <1>1, <1>3, <1>5, <1>6, KeySets DEF Asked, CreateProvider, UpdateProvider, DeleteProvider

\* A step that leaves the tables, the calls and the memo alone.
LEMMA ReaderSound ==
    ASSUME Sound, UNCHANGED <<provs, table, memo, call>>
    PROVE  Sound'
BY DEF Sound, OneCall, Running, MemoTrue, Fresh, Database, Row, InCall, Unsettled,
       DefaultGood, On

LEMMA AsksInv ==
    ASSUME Inv, NEW k \in Keys, Asks(k)
    PROVE  Inv'
<1> DEFINE e == [Nothing(k) EXCEPT !.age = 0]
<1>1. e \in Entries(k) /\ e.stale <= e.age
  BY EntryFacts, SettingsAssumption DEF Inv, Entries
<1>2. reader' = [phase |-> "asked", key |-> k, entry |-> e]
      /\ UNCHANGED <<provs, table, memo, call, exposed, ops>>
  BY DEF Asks
<1>3. TypeOK'
  <2>1. reader' \in [phase : {"idle", "asked", "read"}, key : {k}, entry : Entries(k)]
    BY <1>1, <1>2
  <2> QED
    BY <1>2, <2>1 DEF Inv, TypeOK, Entries, Values
<1>4. Recent'
  BY <1>1, <1>2 DEF Inv, Recent
<1> QED
  BY <1>2, <1>3, <1>4, ReaderSound DEF Inv

LEMMA ReadsDatabaseInv ==
    ASSUME Inv, ReadsDatabase
    PROVE  Inv'
<1> DEFINE k == reader.key
           e == [reader.entry EXCEPT !.value = Database(k)]
<1>0. TypeOK /\ Recent /\ k \in Keys /\ reader.entry \in Entries(k)
      /\ UNCHANGED <<provs, table, memo, call, exposed, ops>>
  BY DEF Inv, TypeOK, ReadsDatabase
<1>1. e \in Entries(k) /\ e.stale = reader.entry.stale /\ e.age = reader.entry.age
  BY <1>0, EntryFacts DEF Entries
<1>2. reader'.phase = "read" /\ reader'.key = k /\ reader'.entry = e
      /\ reader' \in [phase : {"idle", "asked", "read"}, key : {k}, entry : Entries(k)]
  BY <1>0, <1>1 DEF ReadsDatabase, TypeOK
<1>3. TypeOK'
  BY <1>0, <1>2 DEF TypeOK, Entries, Values
<1>4. Recent'
  BY <1>0, <1>1, <1>2 DEF Recent
<1> QED
  BY <1>0, <1>3, <1>4, ReaderSound DEF Inv

LEMMA NoReadFacts ==
    /\ NoRead \in [phase : {"idle", "asked", "read"}, key : {GlobalKey}, entry : Entries(GlobalKey)]
    /\ NoRead.entry.stale <= NoRead.entry.age
<1>1. Memo \in Nat /\ DefaultCap \in Caps /\ NoProvider \in Keys
  BY SettingsAssumption, KeySets
<1>2. Nothing(GlobalKey) \in Entries(GlobalKey) /\ Nothing(GlobalKey).stale <= Nothing(GlobalKey).age
  BY <1>1 DEF Nothing, Entries, Values, Unset
<1> QED
  BY <1>2 DEF NoRead

LEMMA FillsMemoInv ==
    ASSUME Inv, FillsMemo
    PROVE  Inv'
<1> DEFINE r == reader.key
<1>0. TypeOK /\ Recent /\ r \in Keys /\ reader.entry \in Entries(r)
      /\ UNCHANGED <<provs, table, call, ops>> /\ memo' = [memo EXCEPT ![r] = Refill]
      /\ reader' = NoRead
  BY DEF Inv, TypeOK, FillsMemo
<1>1. Refill \in Entries(r) /\ Refill.stale <= Refill.age
      /\ (Refill.age < Memo => Refill = reader.entry)
  BY <1>0, EntryFacts, SettingsAssumption DEF Refill, Recent, Nothing
<1>2. memo' = [k \in Keys |-> IF k = r THEN Refill ELSE memo[k]]
  <2>1. memo = [k \in Keys |-> memo[k]]
    BY <1>0 DEF TypeOK
  <2> QED
    BY <1>0, <2>1
<1>3. memo' = [k \in Keys |-> memo'[k]] /\ \A k \in Keys : memo'[k] \in Entries(k)
  BY <1>0, <1>1, <1>2 DEF TypeOK
<1>4. TypeOK'
  <2>1. exposed' \in BOOLEAN
    BY DEF FillsMemo
  <2>2. \A k \in Keys : Entries(k)' = Entries(k)
    BY DEF Entries, Values
  <2>3. \E k \in Keys : reader' \in [phase : {"idle", "asked", "read"}, key : {k},
                                    entry : Entries(k)]
    BY <1>0, NoReadFacts, KeySets
  <2> QED
    BY <1>0, <1>3, <2>1, <2>2, <2>3 DEF TypeOK
<1>5. Recent'
  BY <1>0, <1>1, <1>2, NoReadFacts DEF Recent
<1>6. ASSUME ~exposed' PROVE Sound'
  <2>1. Sound /\ Running = {} /\ reader.entry.value = Database(r)
    BY <1>6 DEF FillsMemo, Inv
  <2>2. \A k \in Keys : MemoTrue(k)
    BY <2>1 DEF Sound, Running, Keys, Providers, GlobalKey
  <2>3. \A k \in Keys : MemoTrue(k)'
    <3>1. ASSUME NEW k \in Keys PROVE MemoTrue(k)'
      <4>1. Database(k)' = Database(k)
        BY <1>0 DEF Database, Row
      <4>2. CASE k = r
        BY <1>1, <1>2, <2>1, <4>1, <4>2 DEF MemoTrue, Fresh
      <4>3. CASE k # r
        BY <1>2, <2>2, <4>1, <4>3 DEF MemoTrue, Fresh
      <4> QED
        BY <4>2, <4>3
    <3> QED
      BY <3>1
  <2>4. \A a \in Admins : call[a].pc = "idle"
    BY <2>1 DEF Running
  <2>5. OneCall' /\ (\A a \in Admins : InCall(a)' /\ ~Unsettled(a)) /\ DefaultGood'
    <3>1. \A a \in Admins : ~Unsettled(a)
      BY <2>4 DEF Unsettled
    <3>2. OneCall' /\ \A a \in Admins : InCall(a)'
      BY <1>0, <2>4 DEF OneCall, Running, InCall
    <3>3. DefaultGood'
      BY <1>0, <2>1, <3>1 DEF Sound, DefaultGood, On
    <3> QED
      BY <3>1, <3>2, <3>3
  <2> QED
    BY <2>3, <2>5, KeySets DEF Sound
<1> QED
  BY <1>4, <1>5, <1>6 DEF Inv

LEMMA OlderFacts ==
    ASSUME TypeOK, NEW k \in Keys, NEW e \in Entries(k), e.stale <= e.age
    PROVE  /\ Older(e, k) \in Entries(k) /\ Older(e, k).stale <= Older(e, k).age
           /\ Older(e, k).value = e.value
           /\ Aged(e, k) \in Entries(k) /\ Aged(e, k).stale <= Aged(e, k).age
           /\ Aged(e, k).age < Memo => e.age < Memo /\ Aged(e, k).value = e.value
<1> DEFINE age == IF e.age < Memo THEN e.age + 1 ELSE e.age
           stale == IF e.value = Database(k) THEN 0
                    ELSE IF e.stale < Memo THEN e.stale + 1 ELSE e.stale
<1>1. Memo \in Nat \ {0} /\ e.age \in 0..Memo /\ e.stale \in 0..Memo
  BY SettingsAssumption DEF Entries
<1>2. Older(e, k) = [e EXCEPT !.age = age, !.stale = stale]
  BY DEF Older
<1>3. Older(e, k).age = age /\ Older(e, k).stale = stale /\ Older(e, k).value = e.value
  BY <1>2 DEF Entries
<1>4. age \in 0..Memo /\ stale \in 0..Memo /\ stale <= age
  BY <1>1
<1>5. Older(e, k) \in Entries(k)
  BY <1>2, <1>4 DEF Entries
<1>6. Nothing(k) \in Entries(k) /\ Nothing(k).age = Memo /\ Nothing(k).stale = 0
  BY EntryFacts
<1>7. CASE e.age + 1 < Memo
  BY <1>1, <1>3, <1>4, <1>5, <1>7 DEF Aged
<1>8. CASE ~(e.age + 1 < Memo)
  BY <1>1, <1>3, <1>4, <1>5, <1>6, <1>8 DEF Aged
<1> QED
  BY <1>7, <1>8

LEMMA TickInv ==
    ASSUME Inv, Tick
    PROVE  Inv'
<1>0. TypeOK /\ Recent /\ UNCHANGED <<provs, table, call, exposed, ops>>
      /\ memo' = [k \in Keys |-> Aged(memo[k], k)]
  BY DEF Inv, Tick
<1>1. \A k \in Keys : memo[k] \in Entries(k) /\ memo[k].stale <= memo[k].age
  BY <1>0 DEF TypeOK, Recent
<1>2. \A k \in Keys : memo'[k] \in Entries(k) /\ memo'[k].stale <= memo'[k].age
  BY <1>0, <1>1, OlderFacts
<1>3. PICK r \in Keys : reader \in [phase : {"idle", "asked", "read"}, key : {r}, entry : Entries(r)]
  BY <1>0 DEF TypeOK
<1>4. Waits \in Entries(r) /\ Waits.stale <= Waits.age
  <2>1. reader.entry \in Entries(r) /\ reader.key = r /\ reader.entry.stale <= reader.entry.age
    BY <1>0, <1>3 DEF Recent
  <2>2. CASE reader.phase = "read"
    BY <1>0, <2>1, <2>2, OlderFacts DEF Waits
  <2>3. CASE reader.phase # "read"
    <3>1. Waited(reader.entry) \in Entries(r)
          /\ Waited(reader.entry).stale <= Waited(reader.entry).age
      BY <2>1, SettingsAssumption DEF Entries, Waited
    <3> QED
      BY <2>3, <3>1 DEF Waits
  <2> QED
    BY <2>2, <2>3
<1>5. reader' = [reader EXCEPT !.entry = Waits]
  BY DEF Tick
<1>6. reader' \in [phase : {"idle", "asked", "read"}, key : {r}, entry : Entries(r)]
      /\ reader'.entry = Waits
  BY <1>3, <1>4, <1>5
<1>7. TypeOK'
  BY <1>0, <1>2, <1>6 DEF TypeOK, Entries, Values
<1>8. Recent'
  BY <1>2, <1>4, <1>6 DEF Recent
<1>9. ASSUME ~exposed' PROVE Sound'
  <2>1. Sound
    BY <1>0, <1>9 DEF Inv
  <2>2. \A k \in Keys : (Fresh(k)' => Fresh(k) /\ memo'[k].value = memo[k].value)
    BY <1>0, <1>1, OlderFacts DEF Fresh
  <2>3. \A k \in Keys : Database(k)' = Database(k)
    BY <1>0 DEF Database, Row
  <2>4. \A k \in Keys : MemoTrue(k) => MemoTrue(k)'
    BY <2>2, <2>3 DEF MemoTrue
  <2>5. OneCall' /\ (\A a \in Admins : Unsettled(a)' <=> Unsettled(a))
        /\ (DefaultGood' <=> DefaultGood)
    BY <1>0, <2>1 DEF Sound, OneCall, Running, Unsettled, DefaultGood, On
  <2>6. ASSUME NEW a \in Admins PROVE InCall(a)'
    <3>1. InCall(a)
      BY <2>1 DEF Sound
    <3>2. call[a].pc = "write" => \A p \in Providers : ~Fresh(p)'
      BY <2>2, <3>1, KeySets DEF InCall
    <3> QED
      BY <1>0, <3>1, <3>2 DEF InCall, On
  <2> QED
    BY <1>0, <2>1, <2>4, <2>5, <2>6, KeySets DEF Sound
<1> QED
  BY <1>7, <1>8, <1>9 DEF Inv
-----------------------------------------------------------------------------
LEMMA SeededType ==
    ASSUME NEW ps \in [Providers -> {"none", "on", "off", "gone"}]
    PROVE  Seeded(ps) \in [Providers -> {"none", "on", "off", "gone"}]
<1>1. CASE \E p \in Providers : ps[p] \in {"on", "off"}
  BY <1>1 DEF Seeded
<1>2. CASE ~\E p \in Providers : ps[p] \in {"on", "off"}
  <2> DEFINE next == First({p \in Providers : ps[p] = "none"})
             t(p) == IF next # NoProvider /\ p >= next /\ p < next + Seeds THEN "on" ELSE ps[p]
  <2>1. Seeded(ps) = [p \in Providers |-> t(p)]
    BY <1>2 DEF Seeded
  <2>2. \A p \in Providers : t(p) \in {"none", "on", "off", "gone"}
    OBVIOUS
  <2> QED
    BY <2>1, <2>2
<1> QED
  BY <1>1, <1>2

\* A memo with nothing in it, no call and no reader.
Empty(m, c, r) == /\ m = [k \in Keys |-> Nothing(k)]
                  /\ c = [a \in Admins |-> Idle]
                  /\ r = NoRead

LEMMA EmptyTypes ==
    ASSUME Empty(memo, call, reader), exposed = FALSE, ops \in 0..MaxOps,
           provs \in [Providers -> {"none", "on", "off", "gone"}],
           table \in [default : Keys, cap : Caps]
    PROVE  TypeOK /\ Recent
<1>1. Memo \in Nat /\ Unset \in [default : Keys, cap : Caps] /\ GlobalKey \in Keys
  BY SettingsAssumption, KeySets DEF Unset
<1>2. ASSUME NEW k \in Keys PROVE Nothing(k) \in Entries(k) /\ Nothing(k).stale = 0 /\ Nothing(k).age = Memo
  <2>1. (IF k = GlobalKey THEN Unset ELSE "missing") \in Values(k)
    BY <1>1 DEF Values
  <2> QED
    BY <1>1, <2>1 DEF Nothing, Entries
<1>3. memo = [k \in Keys |-> memo[k]] /\ \A k \in Keys : memo[k] \in Entries(k)
  BY <1>2 DEF Empty
<1>4. Idle \in Calls
  BY SettingsAssumption, KeySets DEF Calls, Idle
<1>5. call \in [Admins -> Calls]
  BY <1>4 DEF Empty
<1>6. \E k \in Keys : reader \in [phase : {"idle", "asked", "read"}, key : {k}, entry : Entries(k)]
  BY <1>1, NoReadFacts DEF Empty
<1>7. Recent
  BY <1>1, <1>2, NoReadFacts DEF Recent, Empty
<1> QED
  BY <1>3, <1>5, <1>6, <1>7 DEF TypeOK

LEMMA EmptySound ==
    ASSUME Empty(memo, call, reader), DefaultGood
    PROVE  Sound
<1>1. \A k \in Keys : ~Fresh(k)
  BY SettingsAssumption DEF Empty, Fresh, Nothing
<1>2. \A a \in Admins : call[a].pc = "idle"
  BY DEF Empty, Idle
<1>3. OneCall /\ \A a \in Admins : InCall(a)
  BY <1>2 DEF OneCall, Running, InCall
<1> QED
  BY <1>1, <1>3, KeySets DEF Sound, MemoTrue

LEMMA EmptyTypesNext ==
    Empty(memo, call, reader)' /\ (exposed = FALSE)' /\ (ops \in 0..MaxOps)'
    /\ (provs \in [Providers -> {"none", "on", "off", "gone"}])'
    /\ (table \in [default : Keys, cap : Caps])' => (TypeOK /\ Recent)'
BY EmptyTypes, PTL

LEMMA EmptySoundNext == Empty(memo, call, reader)' /\ DefaultGood' => Sound'
BY EmptySound, PTL

LEMMA InitInv == Init => Inv
<1> SUFFICES ASSUME Init PROVE Inv
  OBVIOUS
<1>1. NoneYet \in [Providers -> {"none", "on", "off", "gone"}]
  BY DEF NoneYet
<1>2. provs \in [Providers -> {"none", "on", "off", "gone"}]
  BY <1>1, SeededType DEF Init
<1>3. table \in [default : Keys, cap : Caps] /\ DefaultGood
  <2>1. /\ Adopted(provs, NoProvider, NoProvider) \in Keys
        /\ On(provs) # {} => Adopted(provs, NoProvider, NoProvider) \in On(provs)
    BY AdoptedFacts, KeySets
  <2> QED
    BY <2>1, SettingsAssumption DEF Init, DefaultGood
<1>4. Empty(memo, call, reader) /\ exposed = FALSE /\ ops \in 0..MaxOps
  BY SettingsAssumption DEF Init, Empty
<1> QED
  BY <1>2, <1>3, <1>4, EmptyTypes, EmptySound DEF Inv

LEMMA RestartInv ==
    ASSUME Inv, Restart
    PROVE  Inv'
<1>1. provs' \in [Providers -> {"none", "on", "off", "gone"}]
  BY SeededType DEF Inv, TypeOK, Restart, Starts
<1>2. table' \in [default : Keys, cap : Caps] /\ DefaultGood'
  <2> DEFINE d == Adopted(Seeded(provs), table.default, NoProvider)
  <2>1. table \in [default : Keys, cap : Caps] /\ table.default \in Keys
    BY DEF Inv, TypeOK
  <2>2. d \in Keys /\ (On(Seeded(provs)) # {} => d \in On(Seeded(provs)))
    BY <2>1, AdoptedFacts, KeySets
  <2>3. table' = [table EXCEPT !.default = d] /\ provs' = Seeded(provs)
    BY DEF Restart, Starts
  <2>4. table'.default = d
    BY <2>1, <2>3
  <2>5. On(provs)' = On(Seeded(provs))
    BY <2>3 DEF On
  <2> QED
    BY <2>1, <2>2, <2>3, <2>4, <2>5 DEF DefaultGood
<1>3. Empty(memo, call, reader)' /\ (exposed = FALSE)'
  <2>1. /\ memo' = [k \in Keys |-> Nothing(k)]
        /\ call' = [a \in Admins |-> Idle]
        /\ reader' = NoRead
        /\ exposed' = FALSE
    BY DEF Restart, Clear
  <2> QED
    BY <2>1 DEF Empty, Nothing, Unset, Idle, NoRead
<1>4. ops' \in 0..MaxOps
  BY Counts DEF Inv, Restart
<1>5. (TypeOK /\ Recent)'
  BY <1>1, <1>2, <1>3, <1>4, EmptyTypesNext
<1>6. Sound'
  BY <1>2, <1>3, EmptySoundNext
<1> QED
  BY <1>5, <1>6 DEF Inv

LEMMA StepInv == Inv /\ [Next]_vars => Inv'
<1> SUFFICES ASSUME Inv, [Next]_vars PROVE Inv'
  OBVIOUS
<1>1. ASSUME NEW a \in Admins, Asked(a) PROVE Inv'
  BY <1>1, AskedInv
<1>2. ASSUME NEW a \in Admins, Admin(a) PROVE Inv'
  BY <1>2, WritesProviderInv, ReadsDefaultInv, ChecksDefaultInv, FillsSettingsInv,
     WritesSettingsInv, WritesCapInv, ForgetsAgainInv, BreaksOffInv DEF Admin
<1>3. ASSUME NEW k \in Keys, Asks(k) PROVE Inv'
  BY <1>3, AsksInv
<1>4. CASE Reader
  BY <1>4, ReadsDatabaseInv, FillsMemoInv DEF Reader
<1>5. CASE Tick
  BY <1>5, TickInv
<1>6. CASE Restart
  BY <1>6, RestartInv
<1>7. CASE UNCHANGED vars
  <2>1. UNCHANGED <<provs, table, memo, call>> /\ UNCHANGED <<reader, exposed, ops>>
    BY <1>7 DEF vars
  <2>2. TypeOK'
    BY <2>1 DEF Inv, TypeOK, Entries, Values
  <2>3. Recent'
    BY <2>1 DEF Inv, Recent
  <2> QED
    BY <2>1, <2>2, <2>3, ReaderSound DEF Inv
<1> QED
  BY <1>1, <1>2, <1>3, <1>4, <1>5, <1>6, <1>7 DEF Next

LEMMA SpecInv == Spec => []Inv
<1>1. Init => Inv
  BY InitInv
<1>2. Inv /\ [Next]_vars => Inv'
  BY StepInv
<1> QED
  BY <1>1, <1>2, PTL DEF Spec

\* The types, whatever the number of providers, threads and calls.
THEOREM SettingsTypes == Spec => []TypeOK
<1>1. Inv => TypeOK
  BY DEF Inv
<1> QED
  BY <1>1, SpecInv, PTL

\* groups.py and providers/__init__.py: an entry of the memo differs from the
\* database for less than MEMO_SECONDS, though a slow reader may fill it in
\* after the write that made it untrue.
THEOREM SettingsServeRecent == Spec => []ServedIsRecent
<1>1. Inv => ServedIsRecent
  <2> SUFFICES ASSUME Inv, NEW k \in Keys, Fresh(k) PROVE memo[k].stale < Memo
    BY DEF ServedIsRecent
  <2>1. memo[k].stale <= memo[k].age /\ memo[k].age < Memo /\ memo[k] \in Entries(k)
    BY DEF Inv, Recent, Fresh, TypeOK
  <2> QED
    BY <2>1, SettingsAssumption DEF Entries
<1> QED
  BY <1>1, SpecInv, PTL

\* ensure_default: when no admin call runs, the global default can answer if
\* any provider can, except after the windows `exposed` names.
THEOREM SettingsDefaultStands == Spec => []DefaultStands
<1>1. Inv => DefaultStands
  <2> SUFFICES ASSUME Inv, Running = {}, ~exposed PROVE DefaultGood
    BY DEF DefaultStands, DefaultGood
  <2>1. \A a \in Admins : call[a].pc = "idle"
    BY DEF Running
  <2>2. \A a \in Admins : ~Unsettled(a)
    BY <2>1 DEF Unsettled
  <2> QED
    BY <2>2 DEF Inv, Sound
<1> QED
  BY <1>1, SpecInv, PTL
=============================================================================
