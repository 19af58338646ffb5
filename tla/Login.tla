------------------------------- MODULE Login -------------------------------
(***************************************************************************)
(* The throttle in front of the admin password (app/admin/auth.py).  The   *)
(* panel's form and the JSON API's Basic credentials are checked on a pool *)
(* of threads that share two plain tables: the failures of each client and *)
(* scope, and those of everyone.  A check takes the time, sweeps the       *)
(* table, looks at both locks, compares the password and counts a failure; *)
(* a thread can be held between any two of these, while others go on.      *)
(*                                                                         *)
(* A slot is a scope and a client.  A thread keeps the entry it looked at, *)
(* and counts into it though it may have left the table meanwhile: then    *)
(* nobody reads what it counts.                                            *)
(***************************************************************************)
EXTENDS Integers, FiniteSets

CONSTANTS Slots,
          Threads,
          PerClient,   \* PER_CLIENT
          Global,      \* GLOBAL
          Lock,        \* LOCK, in ticks
          MaxTracked,  \* MAX_TRACKED
          Slow,        \* ticks a check can take, well below LOCK
          MaxTime,     \* bounds
          MaxGuesses

ASSUME LoginAssumption ==
    /\ PerClient \in Nat \ {0} /\ Global \in Nat \ {0} /\ Lock \in Nat \ {0}
    /\ MaxTracked \in Nat /\ Slow \in Nat /\ MaxGuesses \in Nat
    /\ MaxTime \in Nat /\ Slow <= Lock /\ Lock < MaxTime
    /\ IsFiniteSet(Threads)

VARIABLES
    now,
    failures,  \* _failures: the entry of each slot, if there is one
    global,    \* _global
    thread,    \* the check each thread is at
    \* history
    guesses,   \* the wrong guesses counted: <<number, time>>
    mine       \* a slot's since its last right password, up to PER_CLIENT, and the latest

vars == <<now, failures, global, thread, guesses, mine>>

None == [count |-> 0, until |-> -1]
NewEntry == [count |-> 0, until |-> 0]
Tracked == {s \in Slots : failures[s] # None}
Idle == [pc |-> "idle", slot |-> "none", at |-> 0, doomed |-> {}, kept |-> FALSE]
Busy == {t \in Threads : thread[t].pc # "idle"}

\* The table without S, and the threads that had an entry of it.
Without(S) == [s \in Slots |-> IF s \in S THEN None ELSE failures[s]]
Unlinked(S) == [t \in Threads |-> IF thread[t].slot \in S
                                  THEN [thread[t] EXCEPT !.kept = FALSE] ELSE thread[t]]

Init ==
    /\ now = Lock + 1  \* the clock is far from _global["since"] at first
    /\ failures = [s \in Slots |-> None]
    /\ global = [count |-> 0, since |-> 0, until |-> 0]
    /\ thread = [t \in Threads |-> Idle]
    /\ guesses = {}
    /\ mine = [s \in Slots |-> [count |-> 0, last |-> 0]]

Tick ==
    /\ now < MaxTime
    /\ \A t \in Busy : now - thread[t].at < Slow
    /\ now' = now + 1
    /\ UNCHANGED <<failures, global, thread, guesses, mine>>

\* POST /admin/login, or a call of the API whose user is admin.
Arrives(t, s) ==
    /\ thread[t].pc = "idle"
    /\ Cardinality(guesses) + Cardinality(Busy) < MaxGuesses
    /\ thread' = [thread EXCEPT ![t] = [Idle EXCEPT !.pc = "sweep", !.slot = s, !.at = now]]
    /\ UNCHANGED <<now, failures, global, guesses, mine>>

\* A full table is cleared; otherwise the entries without a failure or a lock
\* are listed, to be dropped by name.
Sweeps(t) ==
    /\ thread[t].pc = "sweep"
    /\ IF Cardinality(Tracked) > MaxTracked
       THEN /\ failures' = Without(Slots)
            /\ thread' = [Unlinked(Slots) EXCEPT ![t].pc = "look"]
       ELSE /\ thread' = [thread EXCEPT ![t].pc = "look",
                 ![t].doomed = {s \in Tracked : failures[s].count = 0
                                                /\ thread[t].at >= failures[s].until}]
            /\ UNCHANGED failures
    /\ UNCHANGED <<now, global, guesses, mine>>

\* Another thread changed the table while the entries were listed: RuntimeError.
SweepBreaks(t) ==
    /\ thread[t].pc = "sweep"
    /\ Tracked # {}
    /\ Busy # {t}
    /\ thread' = [thread EXCEPT ![t] = Idle]
    /\ UNCHANGED <<now, failures, global, guesses, mine>>

Looked(t) == IF Without(thread[t].doomed)[thread[t].slot] = None THEN NewEntry
             ELSE failures[thread[t].slot]
LockedForAll(t) == thread[t].at < global.until
LockedForClient(t) == thread[t].at < Looked(t).until

\* 429 for everyone, or for this client; or its entry is there, and it may guess.
Looks(t) ==
    LET c == thread[t] IN
    /\ c.pc = "look"
    /\ failures' = IF LockedForAll(t) THEN Without(c.doomed)
                   ELSE [Without(c.doomed) EXCEPT ![c.slot] = Looked(t)]
    /\ thread' = [Unlinked(c.doomed) EXCEPT ![t] =
                    IF LockedForAll(t) \/ LockedForClient(t) THEN Idle
                    ELSE [c EXCEPT !.pc = "guess", !.doomed = {}, !.kept = TRUE]]
    /\ UNCHANGED <<now, global, guesses, mine>>

Right(t) ==
    /\ thread[t].pc = "guess"
    /\ failures' = Without({thread[t].slot})
    /\ thread' = [Unlinked({thread[t].slot}) EXCEPT ![t] = Idle]
    /\ mine' = [mine EXCEPT ![thread[t].slot].count = 0]
    /\ UNCHANGED <<now, global, guesses>>

FailedPast(f, at) == [count |-> f.count + 1,  \* mutant: no reset, and an off-by-one
                      until |-> IF f.count >= PerClient THEN at + Lock ELSE f.until]
\* f["count"] += 1, and the client's lock.
Failed(f, at) == IF f.count + 1 >= PerClient THEN [count |-> 0, until |-> at + Lock]
                 ELSE [f EXCEPT !.count = @ + 1]

Wrong(t) ==
    LET s == thread[t].slot IN
    /\ thread[t].pc = "guess"
    /\ failures' = IF thread[t].kept THEN [failures EXCEPT ![s] = Failed(@, thread[t].at)]
                   ELSE failures
    /\ thread' = [thread EXCEPT ![t].pc = "count"]
    /\ mine' = [mine EXCEPT ![s] = [count |-> IF @.count < PerClient THEN @.count + 1 ELSE @.count,
                                      last |-> now]]
    /\ UNCHANGED <<now, global, guesses>>

WindowForever(at) == global  \* mutant: old failures count for ever
\* The count of everyone's failures starts again when it is older than LOCK.
Window(at) == IF at - global.since > Lock THEN [global EXCEPT !.count = 0, !.since = at]
              ELSE global
CountedOpen(g, at) == IF g.count + 1 >= Global  \* mutant: the lock is forgotten
                      THEN [g EXCEPT !.count = 0, !.since = at]
                      ELSE [g EXCEPT !.count = @ + 1]
Counted(g, at) == IF g.count + 1 >= Global
                  THEN [count |-> 0, since |-> at, until |-> at + Lock]
                  ELSE [g EXCEPT !.count = @ + 1]

\* Two steps on the global count, which no lock holds together.
Renews(t) ==
    /\ thread[t].pc = "count"
    /\ global' = Window(thread[t].at)
    /\ thread' = [thread EXCEPT ![t].pc = "add"]
    /\ UNCHANGED <<now, failures, guesses, mine>>

Counts(t) ==
    /\ thread[t].pc = "add"
    /\ global' = Counted(global, thread[t].at)
    /\ guesses' = guesses \cup {<<Cardinality(guesses) + 1, now>>}
    /\ thread' = [thread EXCEPT ![t] = Idle]
    /\ UNCHANGED <<now, failures, mine>>

Step(t) ==
    \/ \E s \in Slots : Arrives(t, s)
    \/ Sweeps(t) \/ SweepBreaks(t) \/ Looks(t) \/ Right(t)
    \/ Wrong(t) \/ Renews(t) \/ Counts(t)

Next == Tick \/ \E t \in Threads : Step(t)

Spec == Init /\ [][Next]_vars
-----------------------------------------------------------------------------
Times == 0..MaxTime
Untils == 0..(MaxTime + Lock)
Since(x) == {g \in guesses : g[2] > x}

TypeOK ==
    /\ now \in Times
    /\ failures \in [Slots -> {None} \cup [count : 0..(PerClient - 1), until : Untils]]
    /\ global \in [count : 0..(Global - 1), since : Times, until : Untils]
    /\ thread \in [Threads -> [pc : {"idle", "sweep", "look", "guess", "count", "add"},
                               slot : Slots \cup {"none"}, at : Times,
                               doomed : SUBSET Slots, kept : BOOLEAN]]
    /\ guesses \subseteq (Nat \X Times) /\ IsFiniteSet(guesses)
    /\ mine \in [Slots -> [count : 0..PerClient, last : Times]]

\* A request is turned away only for a cause: this client's failures, as many
\* as PER_CLIENT since its last right password and one of them within LOCK; or
\* everyone's, as many as GLOBAL within two LOCKs.
TurnedAway(t) == thread[t].pc = "look" /\ thread'[t].pc = "idle"
ClientFailed(t) ==
    LET m == mine[thread[t].slot] IN
    m.count >= PerClient /\ m.last > thread[t].at - Lock
EveryoneFailed(t) == Cardinality(Since(thread[t].at - 2 * Lock)) >= Global
RefusedForCause ==
    [][\A t \in Threads : TurnedAway(t) => ClientFailed(t) \/ EveryoneFailed(t)]_vars

\* Whatever becomes of the table of clients, all of them together guess wrong
\* less than twice GLOBAL times in a LOCK, beside what was already under way.
GuessesBounded ==
    \A w \in Times :
        Cardinality({g \in guesses : w <= g[2] /\ g[2] < w + Lock - Slow})
            <= 2 * Global - 1 + (Cardinality(Threads) - 1)
=============================================================================
