------------------------------ MODULE Settings ------------------------------
(***************************************************************************)
(* Providers and global settings (app/providers, app/groups.py,            *)
(* app/bootstrap.py).  Every question and every extraction reads them      *)
(* through a memo of MEMO_SECONDS, one entry for the settings and one per  *)
(* provider, and every write drops the memo.  A reader that misses notes   *)
(* the time, reads the database and fills the memo, on a thread of its     *)
(* own; the admin's calls run on others, and may overlap.  A change of a   *)
(* provider ends in ensure_default, which adopts another default when the  *)
(* one there is cannot answer.                                             *)
(*                                                                         *)
(* A reader takes three steps through the memo, an admin call one.  Of a   *)
(* provider's row only whether it is there and enabled is represented.     *)
(***************************************************************************)
EXTENDS Integers

CONSTANTS NProviders,  \* providers that are ever created; a bound
          Seeds,       \* how many the environment seeds when there are none
          Caps,        \* monthly caps
          DefaultCap,  \* the one GlobalSettings starts with
          Memo,        \* MEMO_SECONDS, in ticks
          Admins,      \* threads that run an admin call
          MaxOps       \* admin calls, their failures, and restarts; a bound

ASSUME SettingsAssumption ==
    /\ NProviders \in Nat
    /\ Seeds \in Nat
    /\ DefaultCap \in Caps
    /\ Memo \in Nat \ {0}
    /\ MaxOps \in Nat

Providers == 1..NProviders
NoProvider == 0
Keep == -1       \* a key a call does not set
GlobalKey == 0   \* the settings' entry in the memo; a provider's is its id
Keys == 0..NProviders

VARIABLES
    provs,    \* each provider: "none" yet, "on", "off" or "gone"
    table,    \* the settings table
    memo,     \* what the process remembers, by key
    call,     \* the admin call of each thread
    reader,   \* a thread that missed, and fills the memo
    \* history
    exposed,  \* whether a known window for losing the default was hit
    ops       \* how many of these there were

vars == <<provs, table, memo, call, reader, exposed, ops>>

Row(p) == IF provs[p] \in {"on", "off"} THEN provs[p] ELSE "missing"
Database(k) == IF k = GlobalKey THEN table ELSE Row(k)
On(ps) == {p \in Providers : ps[p] = "on"}
First(S) == IF S = {} THEN NoProvider ELSE CHOOSE p \in S : \A q \in S : p <= q

\* An entry's value, its age, and for how long the database has differed
\* from it.  An expired entry is as good as none.
Unset == [default |-> NoProvider, cap |-> DefaultCap]
Nothing(k) == [value |-> IF k = GlobalKey THEN Unset ELSE "missing",
               age |-> Memo, stale |-> 0]
Entry(v) == [value |-> v, age |-> 0, stale |-> 0]
Fresh(k) == memo[k].age < Memo

Idle == [pc |-> "idle", op |-> "none", target |-> NoProvider,
         current |-> NoProvider, default |-> Keep, cap |-> DefaultCap]
NoRead == [phase |-> "idle", key |-> GlobalKey, entry |-> Nothing(GlobalKey)]

Running == {a \in Admins : call[a].pc # "idle"}
Operates == ops < MaxOps /\ ops' = ops + 1

\* providers.forget and groups.forget_settings.
Forget == [k \in Keys |-> IF k = GlobalKey THEN memo[k] ELSE Nothing(k)]
ForgetSettings == [memo EXCEPT ![GlobalKey] = Nothing(GlobalKey)]

\* providers.get and groups.global_settings: the value, and the memo after.
Through(k) == IF Fresh(k) THEN memo[k].value ELSE Database(k)
Filled(k) == IF Fresh(k) THEN memo ELSE [memo EXCEPT ![k] = Entry(Database(k))]
-----------------------------------------------------------------------------
(* bootstrap.run, at every start: the seeds, then ensure_default. *)

Seeded(ps) ==
    IF \E p \in Providers : ps[p] \in {"on", "off"} THEN ps
    ELSE LET next == First({p \in Providers : ps[p] = "none"}) IN
         [p \in Providers |-> IF next # NoProvider /\ p >= next /\ p < next + Seeds
                              THEN "on" ELSE ps[p]]

\* What ensure_default adopts: the provider just added, or the oldest.
Adopted(ps, current, prefer) ==
    IF current \in On(ps) THEN current
    ELSE IF prefer \in On(ps) THEN prefer
    ELSE First(On(ps))

Starts(ps, t) ==
    /\ provs' = Seeded(ps)
    /\ table' = [t EXCEPT !.default = Adopted(Seeded(ps), t.default, NoProvider)]

Clear ==
    /\ memo' = [k \in Keys |-> Nothing(k)]
    /\ call' = [a \in Admins |-> Idle]
    /\ reader' = NoRead
    /\ exposed' = FALSE

NoneYet == [p \in Providers |-> "none"]

Init ==
    /\ provs = Seeded(NoneYet)
    /\ table = [default |-> Adopted(provs, NoProvider, NoProvider), cap |-> DefaultCap]
    /\ memo = [k \in Keys |-> Nothing(k)]
    /\ call = [a \in Admins |-> Idle]
    /\ reader = NoRead
    /\ exposed = FALSE
    /\ ops = 0

Restart == Operates /\ Starts(provs, table) /\ Clear
-----------------------------------------------------------------------------
(* A question, an extraction or a page that misses the memo. *)

Asks(k) ==
    /\ reader.phase = "idle"
    /\ ~Fresh(k)
    /\ reader' = [phase |-> "asked", key |-> k, entry |-> [Nothing(k) EXCEPT !.age = 0]]
    /\ UNCHANGED <<provs, table, memo, call, exposed, ops>>

ReadsDatabase ==
    /\ reader.phase = "asked"
    /\ reader' = [reader EXCEPT !.phase = "read",
                                !.entry = [@ EXCEPT !.value = Database(reader.key)]]
    /\ UNCHANGED <<provs, table, memo, call, exposed, ops>>

RefillAsNew == [reader.entry EXCEPT !.age = 0]  \* mutant: the time is taken at the end
Refill == IF reader.entry.age < Memo THEN reader.entry ELSE Nothing(reader.key)

\* A value that was read before a write can be filled in after it.
FillsMemo ==
    /\ reader.phase = "read"
    /\ memo' = [memo EXCEPT ![reader.key] = Refill]
    /\ exposed' = (exposed \/ Running # {} \/ reader.entry.value # Database(reader.key))
    /\ reader' = NoRead
    /\ UNCHANGED <<provs, table, call, ops>>

\* Time, for an entry of a key.
Older(e, k) ==
    [e EXCEPT !.age = IF @ < Memo THEN @ + 1 ELSE @,
              !.stale = IF e.value = Database(k) THEN 0
                        ELSE IF @ < Memo THEN @ + 1 ELSE @]
Aged(e, k) == IF e.age + 1 < Memo THEN Older(e, k) ELSE Nothing(k)

\* The reader noted the time when it asked; its value can become untrue later.
Waited(e) == [e EXCEPT !.age = IF @ < Memo THEN @ + 1 ELSE @]
Waits == IF reader.phase = "read" THEN Older(reader.entry, reader.key) ELSE Waited(reader.entry)

Tick ==
    /\ memo' = [k \in Keys |-> Aged(memo[k], k)]
    /\ reader' = [reader EXCEPT !.entry = Waits]
    /\ UNCHANGED <<provs, table, call, exposed, ops>>
-----------------------------------------------------------------------------
(* The admin's calls, a step at a time. *)

Begin(a, c) ==
    /\ call[a].pc = "idle"
    /\ Operates
    /\ call' = [call EXCEPT ![a] = c]
    /\ exposed' = (exposed \/ Running # {})
    /\ UNCHANGED <<provs, table, reader>>

Goto(a, pc) == call' = [call EXCEPT ![a].pc = pc]
Ends(a) == call' = [call EXCEPT ![a] = Idle]

\* add_provider, apply_provider and remove_provider drop the memo, then write.
ChangeProvider(a, op, p) ==
    /\ Begin(a, [Idle EXCEPT !.pc = "write", !.op = op, !.target = p])
    /\ memo' = Forget

\* The panel's form, the wizard's, and POST /api/providers.
CreateProvider(a) == ChangeProvider(a, "add", NoProvider)

\* Saved with its box ticked or not.
UpdateProvider(a, p) == \E op \in {"on", "off"} : ChangeProvider(a, op, p)

DeleteProvider(a, p) == ChangeProvider(a, "delete", p)

Adds(a) ==
    LET p == First({q \in Providers : provs[q] = "none"}) IN
    /\ call[a].op = "add"
    /\ p # NoProvider  \* the bound on providers
    /\ \E s \in {"on", "off"} : provs' = [provs EXCEPT ![p] = s]
    /\ call' = [call EXCEPT ![a].pc = "current", ![a].target = p]

\* 404 when the provider was deleted meanwhile.
Updates(a) ==
    LET p == call[a].target IN
    /\ call[a].op \in {"on", "off"}
    /\ IF Row(p) = "missing"
       THEN Ends(a) /\ UNCHANGED provs
       ELSE Goto(a, "current") /\ provs' = [provs EXCEPT ![p] = call[a].op]

Deletes(a) ==
    LET p == call[a].target IN
    /\ call[a].op = "delete"
    /\ provs' = [provs EXCEPT ![p] = IF @ = "none" THEN @ ELSE "gone"]
    /\ Goto(a, "current")

WritesProvider(a) ==
    /\ call[a].pc = "write"
    /\ Adds(a) \/ Updates(a) \/ Deletes(a)
    /\ UNCHANGED <<table, memo, reader, exposed, ops>>

\* ensure_default: the default there is, through the memo.
ReadsDefault(a) ==
    /\ call[a].pc = "current"
    /\ call' = [call EXCEPT ![a].pc = "check", ![a].current = Through(GlobalKey).default]
    /\ memo' = Filled(GlobalKey)
    /\ UNCHANGED <<provs, table, reader, exposed, ops>>

AnswersIfThere(p) == p # NoProvider /\ Through(p) # "missing"  \* mutant: a disabled one will do
Answers(p) == p # NoProvider /\ Through(p) = "on"

\* Its provider, through the memo too; the others from the database.
ChecksDefault(a) ==
    LET c == call[a]
        prefer == IF c.op = "add" THEN c.target ELSE NoProvider
        chosen == IF prefer \in On(provs) THEN prefer ELSE First(On(provs))
        looked == IF c.current = NoProvider THEN memo ELSE Filled(c.current)
    IN
    /\ c.pc = "check"
    /\ IF Answers(c.current) \/ (chosen = NoProvider /\ c.current = NoProvider)
       THEN Ends(a) /\ memo' = looked
       ELSE /\ call' = [call EXCEPT ![a].pc = "fill", ![a].default = chosen,
                                    ![a].op = "ensure"]
            /\ memo' = [looked EXCEPT ![GlobalKey] = Nothing(GlobalKey)]
    /\ UNCHANGED <<provs, table, reader, exposed, ops>>

\* set_global, from the cost page, the default button and PUT /api/settings.
SetGlobal(a, default, cap, op) ==
    /\ Begin(a, [Idle EXCEPT !.pc = "fill", !.op = op, !.default = default, !.cap = cap])
    /\ memo' = ForgetSettings

SetCap(a, cap) == SetGlobal(a, Keep, cap, "cap")

\* The panel asks only that the provider is there.
MakeDefault(a, p) ==
    /\ Through(p) # "missing"
    /\ Begin(a, [Idle EXCEPT !.pc = "fill", !.op = "default", !.default = p])
    /\ memo' = [Filled(p) EXCEPT ![GlobalKey] = Nothing(GlobalKey)]

\* A key the body leaves out is written as its default: no provider.
PutSettings(a, default, cap) == SetGlobal(a, default, cap, "put")

FillsSettings(a) ==
    /\ call[a].pc = "fill"
    /\ Goto(a, "set")
    /\ memo' = Filled(GlobalKey)
    /\ UNCHANGED <<provs, table, reader, exposed, ops>>

WrittenWhole(c) == [default |-> c.default, cap |-> c.cap]  \* mutant: keys not named too
\* Only the keys the call names are written, the default first.
Written(c) == IF c.default = Keep THEN [table EXCEPT !.cap = c.cap]
              ELSE [table EXCEPT !.default = c.default]

WritesSettings(a) ==
    LET c == call[a] IN
    /\ c.pc = "set"
    /\ table' = Written(c)
    /\ Goto(a, IF c.op = "put" THEN "cap" ELSE "forget")
    /\ exposed' = (exposed \/ (c.op \in {"default", "put"} /\ c.default \notin On(provs)))
    /\ UNCHANGED <<provs, memo, reader, ops>>

\* A PUT names both keys: the second INSERT.
WritesCap(a) ==
    /\ call[a].pc = "cap"
    /\ table' = [table EXCEPT !.cap = call[a].cap]
    /\ Goto(a, "forget")
    /\ UNCHANGED <<provs, memo, reader, exposed, ops>>

ForgetsAgain(a) ==
    /\ call[a].pc = "forget"
    /\ Ends(a)
    /\ memo' = ForgetSettings
    /\ UNCHANGED <<provs, table, reader, exposed, ops>>

\* Something has been written, and what is to follow has not been done.
Midway(a) == call[a].pc \in {"current", "check", "cap", "forget"} \/ call[a].op = "ensure"

\* The database fails, and the call raises.
BreaksOff(a) ==
    /\ call[a].pc # "idle"
    /\ Operates
    /\ Ends(a)
    /\ exposed' = (exposed \/ Midway(a))
    /\ UNCHANGED <<provs, table, memo, reader>>
-----------------------------------------------------------------------------
Admin(a) ==
    \/ WritesProvider(a) \/ ReadsDefault(a) \/ ChecksDefault(a)
    \/ FillsSettings(a) \/ WritesSettings(a) \/ WritesCap(a) \/ ForgetsAgain(a)
    \/ BreaksOff(a)

Asked(a) ==
    \/ CreateProvider(a)
    \/ \E p \in Providers : UpdateProvider(a, p) \/ DeleteProvider(a, p) \/ MakeDefault(a, p)
    \/ \E cap \in Caps :
         \/ SetCap(a, cap)
         \/ \E p \in Providers \cup {NoProvider} : PutSettings(a, p, cap)

Reader == ReadsDatabase \/ FillsMemo

Next ==
    \/ \E a \in Admins : Asked(a) \/ Admin(a)
    \/ \E k \in Keys : Asks(k)
    \/ Reader
    \/ Tick
    \/ Restart

Spec == Init /\ [][Next]_vars
-----------------------------------------------------------------------------
Values(k) == IF k = GlobalKey THEN [default : Keys, cap : Caps]
             ELSE {"on", "off", "missing"}
Entries(k) == [value : Values(k), age : 0..Memo, stale : 0..Memo]
Calls == [pc : {"idle", "write", "current", "check", "fill", "set", "cap", "forget"},
          op : {"none", "add", "on", "off", "delete", "ensure", "cap", "default", "put"},
          target : Keys, current : Keys, default : Keys \cup {Keep}, cap : Caps]

TypeOK ==
    /\ provs \in [Providers -> {"none", "on", "off", "gone"}]
    /\ table \in [default : Keys, cap : Caps]
    /\ memo = [k \in Keys |-> memo[k]] /\ \A k \in Keys : memo[k] \in Entries(k)
    /\ call \in [Admins -> Calls]
    /\ \E k \in Keys : reader \in [phase : {"idle", "asked", "read"}, key : {k}, entry : Entries(k)]
    /\ exposed \in BOOLEAN
    /\ ops \in 0..MaxOps

\* What the memo serves was true less than MEMO_SECONDS ago, however slow the
\* reader that filled it was, and whatever was written meanwhile.
ServedIsRecent == \A k \in Keys : Fresh(k) => memo[k].stale < Memo

\* Between the admin's calls the default answers, if any provider can: unless
\* two calls overlapped or one broke off midway, a reader filled the memo while
\* one ran or with a value no longer true, or the admin chose a default that
\* cannot answer.
DefaultStands ==
    Running = {} /\ ~exposed /\ On(provs) # {} => table.default \in On(provs)

\* bootstrap.py says it of the default without exception.
DefaultAlwaysAnswers ==
    Running = {} /\ On(provs) # {} => table.default \in On(provs)
=============================================================================
