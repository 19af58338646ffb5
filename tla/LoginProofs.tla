---------------------------- MODULE LoginProofs ----------------------------
(***************************************************************************)
(* The types of the throttle, that it turns nobody away without a cause,   *)
(* and how many guesses it lets pass in a time, for any number of clients, *)
(* threads and guesses.                                                    *)
(***************************************************************************)
EXTENDS Login, FiniteSetTheorems, TLAPS

\* What an entry of the table tells is borne out by its client's failures.
EntryTrue(s) ==
    /\ mine[s].last <= now
    /\ failures[s] # None =>
         /\ failures[s].count <= mine[s].count
         /\ failures[s].until > 0 =>
              /\ mine[s].count = PerClient
              /\ mine[s].last + Lock >= failures[s].until

\* A check under way: of some slot, not in the future, with the entry it keeps.
CheckTrue(t) ==
    thread[t].pc # "idle" =>
      /\ thread[t].slot \in Slots
      /\ thread[t].at <= now
      /\ thread[t].pc = "guess" /\ thread[t].kept => failures[thread[t].slot] # None

\* The guesses from a time on.
From(G, x) == {g \in G : g[2] >= x}

GlobalTrue ==
    /\ global.since <= now
    /\ global.count <= Cardinality(From(guesses, global.since))
    /\ global.until > 0 => Cardinality(From(guesses, global.until - 2 * Lock)) >= Global

Numbered == \A g \in guesses : g[1] <= Cardinality(guesses)

Inv == /\ TypeOK /\ Numbered /\ GlobalTrue
       /\ \A s \in Slots : EntryTrue(s)
       /\ \A t \in Threads : CheckTrue(t)

Entries == [count : 0..(PerClient - 1), until : Untils]
Checks == [pc : {"idle", "sweep", "look", "guess", "count", "add"},
           slot : Slots \cup {"none"}, at : Times, doomed : SUBSET Slots, kept : BOOLEAN]

\* No check takes longer than Slow; and who is about to add to the count of
\* everyone adds to one that is not older than a Lock.
Fresh == \A t \in Threads : thread[t].pc # "idle" => now - thread[t].at <= Slow
Renewed == \A t \in Threads : thread[t].pc = "add" => thread[t].at - global.since <= Lock
-----------------------------------------------------------------------------
LEMMA Numbers ==
    /\ PerClient \in Nat \ {0} /\ Global \in Nat \ {0} /\ Lock \in Nat \ {0}
    /\ MaxTime \in Nat /\ 0 \in Times /\ Lock + 1 \in Times
    /\ Idle \in Checks /\ Idle.pc = "idle"
    /\ NewEntry \in Entries /\ NewEntry.until = 0 /\ NewEntry.count = 0 /\ NewEntry # None
    /\ None.until = -1 /\ None \notin Entries
<1>1. PerClient \in Nat \ {0} /\ Global \in Nat \ {0} /\ Lock \in Nat \ {0}
      /\ MaxTime \in Nat /\ Lock < MaxTime
  BY LoginAssumption
<1>2. 0 \in Times /\ Lock + 1 \in Times /\ 0 \in Untils /\ 0 \in 0..(PerClient - 1)
  BY <1>1 DEF Times, Untils
<1>3. Idle \in Checks /\ Idle.pc = "idle"
  BY <1>2 DEF Idle, Checks
<1>4. NewEntry \in Entries /\ NewEntry.until = 0 /\ NewEntry.count = 0
  BY <1>2 DEF NewEntry, Entries
<1>5. None.until = -1
  BY DEF None
<1>6. \A e \in Entries : e.until >= 0
  BY <1>1 DEF Entries, Untils
<1> QED
  BY <1>1, <1>2, <1>3, <1>4, <1>5, <1>6

LEMMA AddOne ==
    ASSUME NEW F, IsFiniteSet(F), NEW e, e \notin F
    PROVE  Cardinality(F) \in Nat /\ Cardinality(F \cup {e}) = Cardinality(F) + 1
BY FS_AddElement, FS_CardinalityType

\* A guess with the next number is a new one.
LEMMA OneMore ==
    ASSUME NEW G, G \subseteq Nat \X Times, IsFiniteSet(G), NEW at \in Times,
           \A g \in G : g[1] <= Cardinality(G)
    PROVE  LET n == Cardinality(G) + 1 H == G \cup {<<n, at>>} IN
           /\ IsFiniteSet(H) /\ H \subseteq Nat \X Times
           /\ Cardinality(H) = n /\ \A h \in H : h[1] <= n
           /\ \A x \in Int : /\ Cardinality(From(H, x)) >= Cardinality(From(G, x))
                             /\ x <= at => Cardinality(From(H, x)) = Cardinality(From(G, x)) + 1
<1> DEFINE n == Cardinality(G) + 1
           g == <<n, at>>
           H == G \cup {g}
<1>1. Cardinality(G) \in Nat /\ n \in Nat
  BY FS_CardinalityType
<1>2. g \notin G
  BY <1>1
<1>3. IsFiniteSet(H) /\ Cardinality(H) = n
  BY <1>2, FS_AddElement
<1>4. H \subseteq Nat \X Times /\ \A h \in H : h[1] <= n
  BY <1>1
<1>5. ASSUME NEW x \in Int
      PROVE  /\ Cardinality(From(H, x)) >= Cardinality(From(G, x))
             /\ x <= at => Cardinality(From(H, x)) = Cardinality(From(G, x)) + 1
  <2>1. IsFiniteSet(From(G, x)) /\ IsFiniteSet(From(H, x))
    BY <1>3, FS_Subset DEF From
  <2>2. Cardinality(From(G, x)) \in Nat
    BY <2>1, FS_CardinalityType
  <2>3. CASE x <= at
    <3>1. From(H, x) = From(G, x) \cup {g} /\ g \notin From(G, x)
      BY <1>2, <2>3 DEF From
    <3>2. Cardinality(From(G, x) \cup {g}) = Cardinality(From(G, x)) + 1
      BY <2>1, <3>1, AddOne
    <3>3. Cardinality(From(H, x)) = Cardinality(From(G, x)) + 1
      BY <3>1, <3>2
    <3> HIDE DEF H
    <3> QED
      BY <2>2, <3>3
  <2>4. CASE ~(x <= at)
    <3>1. g[2] = at /\ ~(at >= x)
      BY <2>4, LoginAssumption DEF Times
    <3>2. From(H, x) = From(G, x)
      BY <3>1 DEF From
    <3> QED
      BY <2>2, <2>4, <3>2
  <2> QED
    BY <2>3, <2>4
<1> QED
  BY <1>3, <1>4, <1>5

\* An earlier start takes in no fewer guesses.
LEMMA FromEarlier ==
    ASSUME NEW G, G \subseteq Nat \X Times, IsFiniteSet(G), NEW x \in Int, NEW y \in Int, x <= y
    PROVE  /\ Cardinality(From(G, x)) \in Nat /\ Cardinality(From(G, y)) \in Nat
           /\ Cardinality(From(G, y)) <= Cardinality(From(G, x))
<1>1. IsFiniteSet(From(G, x)) /\ IsFiniteSet(From(G, y)) /\ From(G, y) \subseteq From(G, x)
  <2>1. \A g \in G : g[2] \in Int
    BY LoginAssumption DEF Times
  <2> QED
    BY <2>1, FS_Subset DEF From
<1> QED
  BY <1>1, FS_CardinalityType, FS_Subset

LEMMA Facts ==
    ASSUME Inv
    PROVE  /\ now \in Times /\ now \in Nat
           /\ failures \in [Slots -> {None} \cup Entries]
           /\ thread \in [Threads -> Checks]
           /\ mine \in [Slots -> [count : 0..PerClient, last : Times]]
           /\ \A t \in Threads : thread[t] \in Checks /\ thread[t].at \in Nat
BY LoginAssumption DEF Inv, TypeOK, Entries, Checks, Times

\* Dropping entries, and telling the threads that kept them.
LEMMA Dropped ==
    ASSUME Inv, NEW S \in SUBSET Slots
    PROVE  /\ Without(S) \in [Slots -> {None} \cup Entries]
           /\ \A s \in Slots : Without(S)[s] = None \/ (s \notin S /\ Without(S)[s] = failures[s])
           /\ Unlinked(S) \in [Threads -> Checks]
           /\ \A u \in Threads :
                /\ Unlinked(S)[u].pc = thread[u].pc /\ Unlinked(S)[u].at = thread[u].at
                /\ Unlinked(S)[u].slot = thread[u].slot
                /\ Unlinked(S)[u].kept => thread[u].kept /\ thread[u].slot \notin S
<1>0. thread \in [Threads -> Checks] /\ failures \in [Slots -> {None} \cup Entries]
  BY Facts
<1>1. ASSUME NEW u \in Threads
      PROVE  /\ Unlinked(S)[u] \in Checks
             /\ Unlinked(S)[u].pc = thread[u].pc /\ Unlinked(S)[u].at = thread[u].at
             /\ Unlinked(S)[u].slot = thread[u].slot
             /\ Unlinked(S)[u].kept => thread[u].kept /\ thread[u].slot \notin S
  <2>1. thread[u] \in Checks
    BY <1>0
  <2>2. CASE thread[u].slot \in S
    <3>1. Unlinked(S)[u] = [thread[u] EXCEPT !.kept = FALSE]
      BY <2>2 DEF Unlinked
    <3> QED
      BY <2>1, <3>1 DEF Checks
  <2>3. CASE thread[u].slot \notin S
    BY <2>1, <2>3 DEF Unlinked
  <2> QED
    BY <2>2, <2>3
<1>2. Unlinked(S) \in [Threads -> Checks]
  BY <1>1 DEF Unlinked
<1> QED
  BY <1>0, <1>1, <1>2 DEF Without
-----------------------------------------------------------------------------
LEMMA InitInv == Init => Inv
<1> SUFFICES ASSUME Init PROVE Inv
  OBVIOUS
<1>0. guesses = {} /\ Cardinality(guesses) = 0 /\ IsFiniteSet(guesses)
  BY FS_EmptySet DEF Init
<1>1. TypeOK
  <2>1. failures \in [Slots -> {None} \cup Entries]
    BY DEF Init
  <2>2. thread \in [Threads -> Checks]
    BY Numbers DEF Init
  <2>3. global \in [count : 0..(Global - 1), since : Times, until : Untils]
    BY Numbers DEF Init, Untils
  <2>4. mine \in [Slots -> [count : 0..PerClient, last : Times]]
    BY Numbers DEF Init
  <2> QED
    BY <1>0, <2>1, <2>2, <2>3, <2>4, Numbers DEF TypeOK, Init, Entries, Checks
<1>2. Numbered
  BY <1>0 DEF Numbered
<1>3. GlobalTrue
  <2>1. From(guesses, global.since) = {}
    BY <1>0 DEF From
  <2>2. global.since = 0 /\ global.count = 0 /\ global.until = 0 /\ now = Lock + 1
    BY DEF Init
  <2>3. Cardinality(From(guesses, global.since)) = 0
    BY <2>1, FS_EmptySet
  <2> QED
    BY <2>2, <2>3, LoginAssumption DEF GlobalTrue
<1>4. (\A s \in Slots : EntryTrue(s)) /\ \A t \in Threads : CheckTrue(t)
  BY Numbers DEF Init, EntryTrue, CheckTrue
<1> QED
  BY <1>1, <1>2, <1>3, <1>4 DEF Inv

\* A step that leaves everyone's count alone.
LEMMA GlobalStays ==
    ASSUME Inv, now' \in Times, now <= now', UNCHANGED <<global, guesses>>
    PROVE  GlobalTrue' /\ Numbered'
<1>1. global.since <= now'
  BY Facts, LoginAssumption DEF Inv, TypeOK, GlobalTrue, Times
<1> QED
  BY <1>1 DEF Inv, GlobalTrue, Numbered, From

LEMMA TickInv == ASSUME Inv, Tick PROVE Inv'
<1>1. now' \in Times /\ now <= now' /\ UNCHANGED <<failures, global, thread, guesses, mine>>
  BY LoginAssumption DEF Inv, TypeOK, Tick, Times
<1>2. GlobalTrue' /\ Numbered'
  BY <1>1, GlobalStays
<1>3. TypeOK'
  BY <1>1 DEF Inv, TypeOK
<1>4. \A s \in Slots : EntryTrue(s)'
  <2> SUFFICES ASSUME NEW s \in Slots PROVE mine[s].last <= now'
    BY <1>1 DEF Inv, EntryTrue
  <2> QED
    BY <1>1, Facts, LoginAssumption DEF Inv, EntryTrue, Times
<1>5. \A t \in Threads : CheckTrue(t)'
  <2> SUFFICES ASSUME NEW t \in Threads, thread[t].pc # "idle" PROVE thread[t].at <= now'
    BY <1>1 DEF Inv, CheckTrue
  <2> QED
    BY <1>1, Facts, LoginAssumption DEF Inv, CheckTrue, Times
<1> QED
  BY <1>2, <1>3, <1>4, <1>5 DEF Inv

\* A step of a thread that leaves the clock and everyone's count alone: it is
\* enough that the table, the threads and the histories are in order after it.
LEMMA ThreadStep ==
    ASSUME Inv, UNCHANGED <<now, global, guesses>>,
           failures' \in [Slots -> {None} \cup Entries],
           thread' \in [Threads -> Checks],
           mine' \in [Slots -> [count : 0..PerClient, last : Times]],
           \A s \in Slots : EntryTrue(s)', \A t \in Threads : CheckTrue(t)'
    PROVE  Inv'
<1>1. now' \in Times /\ now <= now'
  BY Facts
<1>2. TypeOK'
  BY <1>1 DEF Inv, TypeOK, Entries, Checks, Untils, Times
<1> QED
  BY <1>1, <1>2, GlobalStays DEF Inv

LEMMA ArrivesInv == ASSUME Inv, NEW t \in Threads, NEW s \in Slots, Arrives(t, s) PROVE Inv'
<1> DEFINE c == [Idle EXCEPT !.pc = "sweep", !.slot = s, !.at = now]
<1>1. c \in Checks /\ c.pc = "sweep" /\ c.slot = s /\ c.at = now
  BY Facts, Numbers DEF Checks, Idle
<1>2. thread' = [thread EXCEPT ![t] = c] /\ UNCHANGED <<now, failures, global, guesses, mine>>
  BY DEF Arrives
<1>3. \A u \in Threads : CheckTrue(u)'
  BY <1>1, <1>2, Facts DEF Inv, CheckTrue
<1>4. \A u \in Slots : EntryTrue(u)'
  BY <1>2 DEF Inv, EntryTrue
<1>5. thread' \in [Threads -> Checks]
  BY <1>1, <1>2, Facts
<1> QED
  BY <1>2, <1>3, <1>4, <1>5, Facts, ThreadStep

LEMMA SweepBreaksInv == ASSUME Inv, NEW t \in Threads, SweepBreaks(t) PROVE Inv'
<1>1. thread' = [thread EXCEPT ![t] = Idle] /\ UNCHANGED <<now, failures, global, guesses, mine>>
  BY DEF SweepBreaks
<1>2. thread' \in [Threads -> Checks]
      /\ \A u \in Threads : thread'[u] = IF u = t THEN Idle ELSE thread[u]
  BY <1>1, Facts, Numbers
<1>3. \A u \in Threads : CheckTrue(u)'
  BY <1>1, <1>2, Numbers DEF Inv, CheckTrue
<1>4. \A s \in Slots : EntryTrue(s)'
  BY <1>1 DEF Inv, EntryTrue
<1> QED
  BY <1>1, <1>2, <1>3, <1>4, Facts, ThreadStep

LEMMA SweepsInv == ASSUME Inv, NEW t \in Threads, Sweeps(t) PROVE Inv'
<1>0. UNCHANGED <<now, global, guesses, mine>> /\ thread[t].pc = "sweep" /\ thread[t] \in Checks
  BY Facts DEF Sweeps
<1>1. CASE failures' = Without(Slots) /\ thread' = [Unlinked(Slots) EXCEPT ![t].pc = "look"]
  <2> DEFINE c == [Unlinked(Slots)[t] EXCEPT !.pc = "look"]
  <2>1. Unlinked(Slots) \in [Threads -> Checks] /\ Unlinked(Slots)[t] \in Checks
    BY Dropped
  <2>2. c \in Checks /\ c.pc = "look" /\ c.slot = thread[t].slot /\ c.at = thread[t].at
    BY <2>1, Dropped DEF Checks
  <2>3. thread' = [Unlinked(Slots) EXCEPT ![t] = c]
    BY <1>1
  <2>4. thread' \in [Threads -> Checks] /\ thread'[t] = c
        /\ \A u \in Threads : u # t => thread'[u] = Unlinked(Slots)[u]
    BY <2>1, <2>2, <2>3
  <2>5. \A u \in Threads : CheckTrue(u)'
    <3> SUFFICES ASSUME NEW u \in Threads PROVE CheckTrue(u)'
      OBVIOUS
    <3>0. CheckTrue(u)
      BY DEF Inv
    <3>1. CASE u = t
      BY <1>0, <2>2, <2>4, <3>0, <3>1 DEF CheckTrue
    <3>2. CASE u # t
      <4>1. thread'[u] = Unlinked(Slots)[u] /\ ~(thread[u].slot \in Slots /\ Unlinked(Slots)[u].kept)
            /\ Unlinked(Slots)[u].pc = thread[u].pc /\ Unlinked(Slots)[u].at = thread[u].at
            /\ Unlinked(Slots)[u].slot = thread[u].slot
        BY <2>4, <3>2, Dropped
      <4> QED
        BY <1>0, <3>0, <4>1 DEF CheckTrue
    <3> QED
      BY <3>1, <3>2
  <2>6. \A u \in Slots : EntryTrue(u)'
    BY <1>0, <1>1 DEF Inv, EntryTrue, Without
  <2> QED
    BY <1>0, <1>1, <2>4, <2>5, <2>6, Facts, Dropped, ThreadStep
<1>2. CASE thread' = [thread EXCEPT ![t].pc = "look",
                 ![t].doomed = {s \in Tracked : failures[s].count = 0
                                                /\ thread[t].at >= failures[s].until}]
           /\ UNCHANGED failures
  <2> DEFINE D == {s \in Tracked : failures[s].count = 0 /\ thread[t].at >= failures[s].until}
             c == [thread[t] EXCEPT !.pc = "look", !.doomed = D]
  <2>1. D \in SUBSET Slots
    BY DEF Tracked
  <2>2. c \in Checks /\ c.pc = "look" /\ c.slot = thread[t].slot /\ c.at = thread[t].at
    BY <1>0, <2>1 DEF Checks
  <2>3. thread' = [thread EXCEPT ![t] = c]
    BY <1>2
  <2>4. thread' \in [Threads -> Checks]
    BY <2>2, <2>3, Facts
  <2>5. \A u \in Threads : CheckTrue(u)'
    BY <1>0, <1>2, <2>2, <2>3, Facts DEF Inv, CheckTrue
  <2>6. \A u \in Slots : EntryTrue(u)'
    BY <1>0, <1>2 DEF Inv, EntryTrue
  <2> QED
    BY <1>0, <1>2, <2>4, <2>5, <2>6, Facts, ThreadStep
<1> QED
  BY <1>1, <1>2 DEF Sweeps

\* The other threads, when a set of slots has lost its entries.
LEMMA OthersKeep ==
    ASSUME Inv, NEW S \in SUBSET Slots, NEW u \in Threads, UNCHANGED now,
           thread'[u] = Unlinked(S)[u],
           \A s \in Slots \ S : failures[s] # None => failures'[s] # None
    PROVE  CheckTrue(u)'
<1>1. CheckTrue(u)
  BY DEF Inv
<1>2. /\ Unlinked(S)[u].pc = thread[u].pc /\ Unlinked(S)[u].at = thread[u].at
      /\ Unlinked(S)[u].slot = thread[u].slot
      /\ Unlinked(S)[u].kept => thread[u].kept /\ thread[u].slot \notin S
  BY Dropped
<1> QED
  BY <1>1, <1>2 DEF CheckTrue

LEMMA LooksInv == ASSUME Inv, NEW t \in Threads, Looks(t) PROVE Inv'
<1> DEFINE c == thread[t]
           D == c.doomed
           in == [c EXCEPT !.pc = "guess", !.doomed = {}, !.kept = TRUE]
           next == IF LockedForAll(t) \/ LockedForClient(t) THEN Idle ELSE in
<1>0. c \in Checks /\ c.pc = "look" /\ D \in SUBSET Slots /\ CheckTrue(t)
      /\ c.slot \in Slots /\ UNCHANGED <<now, global, guesses, mine>>
  BY Facts DEF Looks, Checks, Inv, CheckTrue
<1>1. Looked(t) \in Entries /\ Looked(t) # None
      /\ (Looked(t) = NewEntry \/ Looked(t) = failures[c.slot])
  BY <1>0, Facts, Numbers, Dropped DEF Looked
<1>2. in \in Checks /\ in.pc = "guess" /\ in.slot = c.slot /\ in.at = c.at
  BY <1>0 DEF Checks
<1>3. next \in Checks
  BY <1>2, Numbers
<1>4. thread' = [Unlinked(D) EXCEPT ![t] = next]
  BY DEF Looks
<1>5. thread' \in [Threads -> Checks] /\ thread'[t] = next
      /\ \A u \in Threads : u # t => thread'[u] = Unlinked(D)[u]
  BY <1>0, <1>3, <1>4, Dropped
<1>6. /\ failures' \in [Slots -> {None} \cup Entries]
      /\ \A s \in Slots : failures'[s] \in {Without(D)[s], Looked(t)}
      /\ \A s \in Slots : s # c.slot => failures'[s] = Without(D)[s]
      /\ ~LockedForAll(t) => failures'[c.slot] = Looked(t)
  <2>1. Without(D) \in [Slots -> {None} \cup Entries]
    BY <1>0, Dropped
  <2>2. CASE LockedForAll(t)
    BY <1>0, <2>1, <2>2 DEF Looks, LockedForAll
  <2>3. CASE ~LockedForAll(t)
    <3>1. failures' = [Without(D) EXCEPT ![c.slot] = Looked(t)]
      BY <2>3 DEF Looks
    <3> QED
      BY <1>0, <1>1, <2>1, <2>3, <3>1
  <2> QED
    BY <2>2, <2>3
<1>7. ASSUME NEW s \in Slots PROVE EntryTrue(s)'
  <2>1. CASE failures'[s] = None
    BY <1>0, <2>1 DEF Inv, EntryTrue
  <2>2. CASE failures'[s] = failures[s]
    BY <1>0, <2>2 DEF Inv, EntryTrue
  <2>3. CASE failures'[s] = NewEntry
    BY <1>0, <2>3, Numbers, Facts DEF Inv, EntryTrue
  <2>4. failures'[s] = None \/ failures'[s] = failures[s] \/ failures'[s] = NewEntry
    <3>1. Without(D)[s] = None \/ Without(D)[s] = failures[s]
      BY <1>0, Dropped
    <3> QED
      BY <1>1, <1>6, <3>1
  <2> QED
    BY <2>1, <2>2, <2>3, <2>4
<1>8. ASSUME NEW u \in Threads PROVE CheckTrue(u)'
  <2>1. CASE u # t
    <3>1. \A s \in Slots \ D : failures[s] # None => failures'[s] # None
      <4> SUFFICES ASSUME NEW s \in Slots \ D, failures[s] # None PROVE failures'[s] # None
        OBVIOUS
      <4>1. Without(D)[s] = failures[s]
        BY DEF Without
      <4> QED
        BY <1>1, <1>6, <4>1
    <3> QED
      BY <1>0, <1>5, <2>1, <3>1, OthersKeep
  <2>2. CASE u = t /\ (LockedForAll(t) \/ LockedForClient(t))
    <3>1. thread'[t] = Idle
      BY <1>5, <2>2
    <3> QED
      BY <2>2, <3>1, Numbers DEF CheckTrue
  <2>3. CASE u = t /\ ~LockedForAll(t) /\ ~LockedForClient(t)
    <3>1. thread'[t] = in /\ failures'[c.slot] # None
      BY <1>1, <1>5, <1>6, <2>3
    <3>2. c.at <= now
      BY <1>0 DEF CheckTrue
    <3> QED
      BY <1>0, <1>2, <2>3, <3>1, <3>2 DEF CheckTrue
  <2> QED
    BY <2>1, <2>2, <2>3
<1> QED
  BY <1>0, <1>5, <1>6, <1>7, <1>8, Facts, ThreadStep

LEMMA RightInv == ASSUME Inv, NEW t \in Threads, Right(t) PROVE Inv'
<1> DEFINE s == thread[t].slot
           S == {s}
<1>0. thread[t].pc = "guess" /\ s \in Slots /\ S \in SUBSET Slots
      /\ UNCHANGED <<now, global, guesses>> /\ failures' = Without(S)
      /\ thread' = [Unlinked(S) EXCEPT ![t] = Idle]
      /\ mine' = [mine EXCEPT ![s].count = 0]
  BY DEF Right, Inv, CheckTrue
<1>1. thread' \in [Threads -> Checks] /\ thread'[t] = Idle
      /\ \A u \in Threads : u # t => thread'[u] = Unlinked(S)[u]
  BY <1>0, Dropped, Numbers
<1>2. /\ failures' \in [Slots -> {None} \cup Entries]
      /\ failures'[s] = None /\ \A x \in Slots : x # s => failures'[x] = failures[x]
  BY <1>0, Dropped DEF Without
<1>3. /\ mine' \in [Slots -> [count : 0..PerClient, last : Times]]
      /\ mine'[s].last = mine[s].last
      /\ \A x \in Slots : x # s => mine'[x] = mine[x]
  <2>1. mine[s] \in [count : 0..PerClient, last : Times] /\ 0 \in 0..PerClient
    BY <1>0, Facts, Numbers
  <2>2. /\ [mine[s] EXCEPT !.count = 0] \in [count : 0..PerClient, last : Times]
        /\ [mine[s] EXCEPT !.count = 0].last = mine[s].last
    BY <2>1
  <2>3. mine' = [mine EXCEPT ![s] = [mine[s] EXCEPT !.count = 0]]
    BY <1>0
  <2> HIDE DEF s
  <2> QED
    BY <1>0, <2>2, <2>3, Facts
<1>4. ASSUME NEW x \in Slots PROVE EntryTrue(x)'
  <2>0. EntryTrue(x) /\ now' = now
    BY <1>0 DEF Inv
  <2>1. CASE x = s
    BY <1>2, <1>3, <2>0, <2>1 DEF EntryTrue
  <2>2. CASE x # s
    BY <1>2, <1>3, <2>0, <2>2 DEF EntryTrue
  <2> QED
    BY <2>1, <2>2
<1>5. ASSUME NEW u \in Threads PROVE CheckTrue(u)'
  <2>1. CASE u = t
    BY <1>1, <2>1, Numbers DEF CheckTrue
  <2>2. CASE u # t
    <3>1. \A x \in Slots \ S : failures[x] # None => failures'[x] # None
      BY <1>2
    <3> QED
      BY <1>0, <1>1, <2>2, <3>1, OthersKeep
  <2> QED
    BY <2>1, <2>2
<1> QED
  BY <1>0, <1>1, <1>2, <1>3, <1>4, <1>5, ThreadStep

LEMMA FailedFacts ==
    ASSUME NEW f \in Entries, NEW at \in Times
    PROVE  /\ Failed(f, at) \in Entries /\ Failed(f, at) # None
           /\ Failed(f, at).count <= f.count + 1
           /\ \/ f.count + 1 >= PerClient /\ Failed(f, at).until = at + Lock
                                           /\ Failed(f, at).count = 0
              \/ f.count + 1 < PerClient /\ Failed(f, at).until = f.until
<1>0. f.count \in 0..(PerClient - 1) /\ f.until \in Untils /\ at \in 0..MaxTime
  BY DEF Entries, Times
<1>1. CASE f.count + 1 >= PerClient
  <2>1. Failed(f, at) = [count |-> 0, until |-> at + Lock]
    BY <1>1 DEF Failed
  <2>2. 0 \in 0..(PerClient - 1) /\ at + Lock \in Untils
    BY <1>0, LoginAssumption DEF Untils
  <2>3. Failed(f, at) \in Entries
    BY <2>1, <2>2 DEF Entries
  <2> QED
    BY <1>0, <1>1, <2>1, <2>3, Numbers
<1>2. CASE ~(f.count + 1 >= PerClient)
  <2>1. Failed(f, at) = [f EXCEPT !.count = f.count + 1]
    BY <1>2 DEF Failed
  <2>2. Failed(f, at).count = f.count + 1 /\ Failed(f, at).until = f.until
    BY <2>1 DEF Entries
  <2>3. f.count + 1 \in 0..(PerClient - 1) /\ f.count + 1 < PerClient
    BY <1>0, <1>2, LoginAssumption
  <2>4. Failed(f, at) \in Entries
    BY <2>1, <2>3 DEF Entries
  <2> QED
    BY <1>0, <2>2, <2>3, <2>4, Numbers
<1> QED
  BY <1>1, <1>2

LEMMA WrongInv == ASSUME Inv, NEW t \in Threads, Wrong(t) PROVE Inv'
<1> DEFINE s == thread[t].slot
           at == thread[t].at
           k == IF mine[s].count < PerClient THEN mine[s].count + 1 ELSE mine[s].count
           c == [thread[t] EXCEPT !.pc = "count"]
<1>0. thread[t].pc = "guess" /\ s \in Slots /\ at \in Times /\ at <= now /\ thread[t] \in Checks
      /\ (thread[t].kept => failures[s] # None)
      /\ UNCHANGED <<now, global, guesses>> /\ thread' = [thread EXCEPT ![t].pc = "count"]
  BY Facts DEF Wrong, Inv, CheckTrue, Checks
<1>1. thread' \in [Threads -> Checks] /\ thread'[t] = c /\ c.pc = "count"
      /\ c.slot = s /\ c.at = at /\ \A u \in Threads : u # t => thread'[u] = thread[u]
  <2>1. c \in Checks /\ c.pc = "count" /\ c.slot = s /\ c.at = at
    BY <1>0 DEF Checks
  <2>2. thread' = [thread EXCEPT ![t] = c]
    BY <1>0
  <2> HIDE DEF c
  <2> QED
    BY <2>1, <2>2, Facts
<1>2. mine[s].count \in 0..PerClient /\ mine[s].last \in Times /\ k \in 0..PerClient
      /\ k >= mine[s].count /\ (mine[s].count < PerClient => k = mine[s].count + 1)
  BY <1>0, Facts, LoginAssumption
<1>3. /\ mine' \in [Slots -> [count : 0..PerClient, last : Times]]
      /\ mine'[s].count = k /\ mine'[s].last = now
      /\ \A x \in Slots : x # s => mine'[x] = mine[x]
  <2>1. mine' = [mine EXCEPT ![s] = [count |-> k, last |-> now]]
    BY DEF Wrong
  <2> HIDE DEF k, s
  <2> QED
    BY <1>0, <1>2, <2>1, Facts
<1>4. /\ failures' \in [Slots -> {None} \cup Entries]
      /\ \A x \in Slots : x # s => failures'[x] = failures[x]
      /\ failures'[s] = IF thread[t].kept THEN Failed(failures[s], at) ELSE failures[s]
      /\ failures[s] # None => failures[s] \in Entries /\ failures'[s] # None
  <2>1. CASE thread[t].kept
    <3>1. failures[s] \in Entries
      BY <1>0, <2>1, Facts
    <3>2. Failed(failures[s], at) \in Entries /\ Failed(failures[s], at) # None
      BY <1>0, <3>1, FailedFacts
    <3>3. failures' = [failures EXCEPT ![s] = Failed(failures[s], at)]
      BY <2>1 DEF Wrong
    <3> HIDE DEF s, at
    <3> QED
      BY <1>0, <2>1, <3>1, <3>2, <3>3, Facts
  <2>2. CASE ~thread[t].kept
    <3>1. failures' = failures
      BY <2>2 DEF Wrong
    <3> QED
      BY <1>0, <2>2, <3>1, Facts
  <2> QED
    BY <2>1, <2>2
<1>5. ASSUME NEW x \in Slots PROVE EntryTrue(x)'
  <2>1. CASE x # s
    BY <1>0, <1>3, <1>4, <2>1 DEF Inv, EntryTrue
  <2>2. CASE x = s
    <3> SUFFICES ASSUME failures'[s] # None
                 PROVE  /\ failures'[s].count <= k
                        /\ failures'[s].until > 0 => k = PerClient /\ now + Lock >= failures'[s].until
      BY <1>0, <1>3, <2>2, Facts DEF EntryTrue
    <3>1. failures[s] \in Entries /\ failures[s] # None
      BY <1>0, <1>4, Facts
    <3>2. /\ failures[s].count <= mine[s].count
          /\ failures[s].until > 0 => mine[s].count = PerClient
                                     /\ mine[s].last + Lock >= failures[s].until
      BY <1>0, <3>1 DEF Inv, EntryTrue
    <3>3. now \in Nat /\ failures[s].count \in Nat /\ failures[s].until \in Nat
          /\ Lock \in Nat /\ PerClient \in Nat /\ failures[s].count < PerClient
      BY <3>1, Facts, LoginAssumption DEF Entries, Untils
    <3>4. failures[s].until > 0 => now + Lock >= failures[s].until
      <4>1. mine[s].last <= now
        BY <1>0 DEF Inv, EntryTrue
      <4> QED
        BY <1>2, <3>2, <3>3, <4>1, LoginAssumption DEF Times
    <3>5. CASE ~thread[t].kept
      BY <1>2, <1>4, <3>2, <3>3, <3>4, <3>5
    <3>6. CASE thread[t].kept
      <4>1. failures'[s] = Failed(failures[s], at)
        BY <1>4, <3>6
      <4>2. /\ Failed(failures[s], at).count <= failures[s].count + 1
            /\ \/ failures[s].count + 1 >= PerClient
                  /\ Failed(failures[s], at).until = at + Lock /\ Failed(failures[s], at).count = 0
               \/ failures[s].count + 1 < PerClient
                  /\ Failed(failures[s], at).until = failures[s].until
        BY <1>0, <3>1, FailedFacts
      <4>3. at \in Nat /\ at <= now
        BY <1>0 DEF Times
      <4>4. Failed(failures[s], at) \in Entries
        BY <1>0, <3>1, FailedFacts
      <4>5. Failed(failures[s], at).count \in Nat /\ Failed(failures[s], at).until \in Nat
        BY <4>4, LoginAssumption DEF Entries, Untils
      <4> HIDE DEF s, at, k
      <4> QED
        BY <1>2, <3>2, <3>3, <3>4, <4>1, <4>2, <4>3, <4>5
    <3> QED
      BY <3>5, <3>6
  <2> QED
    BY <2>1, <2>2
<1>6. ASSUME NEW u \in Threads PROVE CheckTrue(u)'
  <2>1. CASE u = t
    BY <1>0, <1>1, <2>1 DEF CheckTrue
  <2>2. CASE u # t
    <3>1. CheckTrue(u) /\ thread'[u] = thread[u]
      BY <1>1, <2>2 DEF Inv
    <3>2. \A x \in Slots : failures[x] # None => failures'[x] # None
      BY <1>4
    <3> QED
      BY <1>0, <3>1, <3>2 DEF CheckTrue
  <2> QED
    BY <2>1, <2>2
<1> QED
  BY <1>0, <1>1, <1>3, <1>4, <1>5, <1>6, ThreadStep

\* The window's start, and the count in it, when a thread is about to count.
LEMMA RenewsInv == ASSUME Inv, NEW t \in Threads, Renews(t) PROVE Inv'
<1> DEFINE at == thread[t].at
           w == Window(at)
           c == [thread[t] EXCEPT !.pc = "add"]
<1>0. at \in Times /\ at <= now /\ now \in Times /\ thread[t] \in Checks /\ thread[t].pc = "count"
      /\ UNCHANGED <<now, failures, guesses, mine>> /\ thread' = [thread EXCEPT ![t] = c]
      /\ global' = w
  BY Facts DEF Renews, Inv, CheckTrue, Checks
<1>1. global \in [count : 0..(Global - 1), since : Times, until : Untils]
      /\ guesses \subseteq Nat \X Times /\ IsFiniteSet(guesses)
  BY DEF Inv, TypeOK
<1>2. /\ w \in [count : 0..(Global - 1), since : Times, until : Untils]
      /\ w.until = global.until /\ w.since <= now
      /\ w.count <= Cardinality(From(guesses, w.since))
  <2>1. CASE at - global.since > Lock
    <3>1. w = [global EXCEPT !.count = 0, !.since = at]
      BY <2>1 DEF Window
    <3>2. 0 \in 0..(Global - 1)
      BY LoginAssumption
    <3>3. w \in [count : 0..(Global - 1), since : Times, until : Untils]
          /\ w.count = 0 /\ w.since = at /\ w.until = global.until
      BY <1>0, <1>1, <3>1, <3>2
    <3>4. Cardinality(From(guesses, at)) \in Nat /\ at \in Int
      BY <1>0, <1>1, FromEarlier, LoginAssumption DEF Times
    <3> HIDE DEF w, at
    <3> QED
      BY <1>0, <3>3, <3>4, LoginAssumption
  <2>2. CASE ~(at - global.since > Lock)
    <3>1. w = global
      BY <2>2 DEF Window
    <3> QED
      BY <1>1, <3>1 DEF Inv, GlobalTrue
  <2> QED
    BY <2>1, <2>2
<1>3. GlobalTrue' /\ Numbered'
  <2> HIDE DEF w
  <2> QED
    BY <1>0, <1>2 DEF Inv, GlobalTrue, Numbered, From
<1>4. c \in Checks /\ c.pc = "add" /\ c.slot = thread[t].slot /\ c.at = at
  BY <1>0 DEF Checks
<1>5. thread' \in [Threads -> Checks]
      /\ \A u \in Threads : thread'[u] = IF u = t THEN c ELSE thread[u]
  <2> HIDE DEF c
  <2> QED
    BY <1>0, <1>4, Facts
<1>6. TypeOK'
  <2> HIDE DEF w
  <2> QED
    BY <1>0, <1>1, <1>2, <1>5, Facts DEF TypeOK, Entries, Checks, Times, Untils
<1>7. \A s \in Slots : EntryTrue(s)'
  BY <1>0 DEF Inv, EntryTrue
<1>8. \A u \in Threads : CheckTrue(u)'
  <2> HIDE DEF c
  <2> QED
    BY <1>0, <1>4, <1>5 DEF Inv, CheckTrue
<1> QED
  BY <1>3, <1>6, <1>7, <1>8 DEF Inv

\* One more is counted, in a window that is not older than a Lock.
LEMMA CountsInv == ASSUME Inv, Renewed, NEW t \in Threads, Counts(t) PROVE Inv'
<1> DEFINE at == thread[t].at
           w == global
           n == Cardinality(guesses) + 1
           H == guesses \cup {<<n, now>>}
<1>0. at \in Times /\ at <= now /\ now \in Times
      /\ UNCHANGED <<now, failures, mine>> /\ thread' = [thread EXCEPT ![t] = Idle]
      /\ global' = Counted(w, at) /\ guesses' = H
  BY Facts DEF Counts, Inv, CheckTrue, Checks
<1>1. global \in [count : 0..(Global - 1), since : Times, until : Untils]
      /\ guesses \subseteq Nat \X Times /\ IsFiniteSet(guesses)
      /\ \A g \in guesses : g[1] <= Cardinality(guesses)
  BY DEF Inv, TypeOK, Numbered
<1>2. /\ IsFiniteSet(H) /\ H \subseteq Nat \X Times
      /\ Cardinality(H) = n /\ \A h \in H : h[1] <= n
      /\ \A x \in Int : /\ Cardinality(From(H, x)) >= Cardinality(From(guesses, x))
                        /\ x <= now => Cardinality(From(H, x)) = Cardinality(From(guesses, x)) + 1
  BY <1>0, <1>1, OneMore
<1>3. /\ w \in [count : 0..(Global - 1), since : Times, until : Untils]
      /\ w.until = global.until /\ w.since <= now /\ at - w.since <= Lock
      /\ w.count <= Cardinality(From(guesses, w.since))
  BY <1>1 DEF Renewed, Counts, Inv, GlobalTrue
<1>4. w.count \in Nat /\ w.since \in Nat /\ w.until \in Nat /\ at \in Nat /\ now \in Nat
      /\ Global \in Nat \ {0} /\ Lock \in Nat \ {0} /\ at + Lock \in Untils
  BY <1>0, <1>3, LoginAssumption DEF Times, Untils
<1>5. Cardinality(From(guesses, w.since)) \in Nat
      /\ Cardinality(From(H, w.since)) = Cardinality(From(guesses, w.since)) + 1
  <2>1. w.since \in Int /\ w.since <= now
    BY <1>3, <1>4
  <2> HIDE DEF w, H, n
  <2>2. Cardinality(From(guesses, w.since)) \in Nat
    BY <1>1, <2>1, FromEarlier
  <2> QED
    BY <1>2, <2>1, <2>2
<1>6. global' \in [count : 0..(Global - 1), since : Times, until : Untils]
      /\ global'.since <= now
      /\ global'.count <= Cardinality(From(H, global'.since))
      /\ (global'.until > 0 => Cardinality(From(H, global'.until - 2 * Lock)) >= Global)
  <2>1. CASE w.count + 1 >= Global
    <3>1. global' = [count |-> 0, since |-> at, until |-> at + Lock]
      BY <1>0, <2>1 DEF Counted
    <3>2. 0 \in 0..(Global - 1)
      BY <1>4
    <3>3. global' \in [count : 0..(Global - 1), since : Times, until : Untils]
          /\ global'.count = 0 /\ global'.since = at /\ global'.until = at + Lock
      BY <1>0, <1>4, <3>1, <3>2
    <3>4. Cardinality(From(H, at)) \in Nat
      BY <1>2, <1>4, FromEarlier
    <3>5. at + Lock - 2 * Lock <= w.since /\ at + Lock - 2 * Lock \in Int
      BY <1>3, <1>4
    <3>6. Cardinality(From(H, at + Lock - 2 * Lock)) \in Nat
          /\ Cardinality(From(H, w.since)) <= Cardinality(From(H, at + Lock - 2 * Lock))
      BY <1>2, <1>4, <3>5, FromEarlier
    <3>7. Cardinality(From(H, at + Lock - 2 * Lock)) >= Global
      <4> HIDE DEF H, w, at
      <4> QED
        BY <1>3, <1>4, <1>5, <2>1, <3>6
    <3> HIDE DEF H, w, at
    <3>8. From(H, global'.since) = From(H, at)
          /\ From(H, global'.until - 2 * Lock) = From(H, at + Lock - 2 * Lock)
      <4>1. global'.since = at /\ global'.until = at + Lock
        BY <3>3
      <4>2. global'.until - 2 * Lock = at + Lock - 2 * Lock
        BY <1>4, <4>1
      <4> QED
        BY <4>1, <4>2
    <3>9. 0 <= Cardinality(From(H, at))
      BY <3>4
    <3> QED
      BY <1>0, <3>3, <3>7, <3>8, <3>9
  <2>2. CASE ~(w.count + 1 >= Global)
    <3>1. global' = [w EXCEPT !.count = w.count + 1]
      BY <1>0, <2>2 DEF Counted
    <3>2. w.count + 1 \in 0..(Global - 1)
      BY <1>4, <2>2
    <3>3. global' \in [count : 0..(Global - 1), since : Times, until : Untils]
          /\ global'.count = w.count + 1 /\ global'.since = w.since /\ global'.until = global.until
      <4> HIDE DEF w
      <4> QED
        BY <1>3, <3>1, <3>2
    <3>4. global.until - 2 * Lock \in Int
      BY <1>3, <1>4
    <3>5. Cardinality(From(H, global.until - 2 * Lock))
            >= Cardinality(From(guesses, global.until - 2 * Lock))
      BY <1>2, <3>4
    <3>6. Cardinality(From(guesses, global.until - 2 * Lock)) \in Nat
          /\ Cardinality(From(H, global.until - 2 * Lock)) \in Nat
      BY <1>1, <1>2, <3>4, FromEarlier
    <3>7. global.until > 0 => Cardinality(From(guesses, global.until - 2 * Lock)) >= Global
      BY DEF Inv, GlobalTrue
    <3> HIDE DEF H, w, at
    <3> QED
      BY <1>3, <1>4, <1>5, <3>3, <3>5, <3>6, <3>7
  <2> QED
    BY <2>1, <2>2
<1>7. TypeOK'
  <2>1. thread' \in [Threads -> Checks]
    BY <1>0, Facts, Numbers
  <2> QED
    BY <1>0, <1>2, <1>6, <2>1, Facts DEF TypeOK, Entries, Checks, Times, Untils
<1>8. GlobalTrue' /\ Numbered'
  BY <1>0, <1>2, <1>6 DEF GlobalTrue, Numbered, From
<1>9. \A s \in Slots : EntryTrue(s)'
  BY <1>0 DEF Inv, EntryTrue
<1>10. \A u \in Threads : CheckTrue(u)'
  BY <1>0, Facts, Numbers DEF Inv, CheckTrue
<1> QED
  BY <1>7, <1>8, <1>9, <1>10 DEF Inv

LEMMA StepInv == ASSUME Inv, Renewed, [Next]_vars PROVE Inv'
<1>1. CASE UNCHANGED vars
  BY <1>1 DEF vars, Inv, TypeOK, Numbered, GlobalTrue, EntryTrue, CheckTrue, From
<1>2. CASE Next
  BY <1>2, TickInv, ArrivesInv, SweepsInv, SweepBreaksInv, LooksInv, RightInv, WrongInv, RenewsInv,
     CountsInv DEF Next, Step
<1> QED
  BY <1>1, <1>2

\* Only a thread that looks at the locks can be turned away.
LEMMA OnlyLooks ==
    ASSUME Inv, [Next]_vars, NEW t \in Threads, TurnedAway(t)
    PROVE  Looks(t) /\ (LockedForAll(t) \/ LockedForClient(t))
<1>0. thread[t].pc = "look" /\ thread'[t].pc = "idle" /\ thread \in [Threads -> Checks]
  BY Facts DEF TurnedAway
<1>1. thread' # thread
  BY <1>0
<1>2. ~(\E u \in Threads, s \in Slots : Arrives(u, s)) /\ ~Tick
  BY <1>0 DEF Arrives, Tick
<1>3. ~(\E u \in Threads : Sweeps(u))
  <2> SUFFICES ASSUME NEW u \in Threads, Sweeps(u) PROVE FALSE
    OBVIOUS
  <2>1. u # t
    BY <1>0 DEF Sweeps
  <2>2. CASE thread' = [Unlinked(Slots) EXCEPT ![u].pc = "look"]
    <3>1. Unlinked(Slots) \in [Threads -> Checks] /\ Unlinked(Slots)[t].pc = thread[t].pc
      BY Dropped
    <3>2. thread'[t] = Unlinked(Slots)[t]
      BY <2>1, <2>2, <3>1
    <3> QED
      BY <1>0, <3>1, <3>2
  <2>3. CASE thread' # [Unlinked(Slots) EXCEPT ![u].pc = "look"]
    <3>1. thread'[t] = thread[t]
      BY <1>0, <2>1, <2>3 DEF Sweeps
    <3> QED
      BY <1>0, <3>1
  <2> QED
    BY <2>2, <2>3
<1>4. ~(\E u \in Threads : SweepBreaks(u) \/ Right(u) \/ Wrong(u) \/ Renews(u) \/ Counts(u))
  <2> SUFFICES ASSUME NEW u \in Threads,
                      SweepBreaks(u) \/ Right(u) \/ Wrong(u) \/ Renews(u) \/ Counts(u)
               PROVE  FALSE
    OBVIOUS
  <2>1. u # t
    BY <1>0 DEF SweepBreaks, Right, Wrong, Renews, Counts
  <2>2. CASE Right(u)
    <3>1. {thread[u].slot} \in SUBSET Slots
      BY <2>2 DEF Inv, CheckTrue, Right
    <3>2. Unlinked({thread[u].slot}) \in [Threads -> Checks]
          /\ Unlinked({thread[u].slot})[t].pc = thread[t].pc
      BY <3>1, Dropped
    <3>3. thread'[t] = Unlinked({thread[u].slot})[t]
      BY <2>1, <2>2, <3>2 DEF Right
    <3> QED
      BY <1>0, <3>2, <3>3
  <2>3. CASE SweepBreaks(u) \/ Wrong(u) \/ Renews(u) \/ Counts(u)
    <3>1. thread'[t] = thread[t]
      BY <1>0, <2>1, <2>3 DEF SweepBreaks, Wrong, Renews, Counts
    <3> QED
      BY <1>0, <3>1
  <2> QED
    BY <2>2, <2>3
<1>5. PICK u \in Threads : Looks(u)
  BY <1>1, <1>2, <1>3, <1>4 DEF Next, Step, vars
<1>6. thread[u].doomed \in SUBSET Slots
  BY <1>0 DEF Checks
<1>7. Unlinked(thread[u].doomed) \in [Threads -> Checks]
      /\ Unlinked(thread[u].doomed)[t].pc = thread[t].pc
  BY <1>6, Dropped
<1>8. u = t
  <2> SUFFICES ASSUME u # t PROVE FALSE
    OBVIOUS
  <2>1. thread'[t] = Unlinked(thread[u].doomed)[t]
    BY <1>5, <1>7 DEF Looks
  <2> QED
    BY <1>0, <1>7, <2>1
<1>9. LockedForAll(t) \/ LockedForClient(t)
  <2> SUFFICES ASSUME ~LockedForAll(t), ~LockedForClient(t) PROVE FALSE
    OBVIOUS
  <2>1. thread'[t] = [thread[t] EXCEPT !.pc = "guess", !.doomed = {}, !.kept = TRUE]
    BY <1>5, <1>7, <1>8 DEF Looks
  <2> QED
    BY <1>0, <2>1 DEF Checks
<1> QED
  BY <1>5, <1>8, <1>9

LEMMA CauseOfLock ==
    ASSUME Inv, [Next]_vars, NEW t \in Threads, TurnedAway(t)
    PROVE  ClientFailed(t) \/ EveryoneFailed(t)
<1> DEFINE s == thread[t].slot
           at == thread[t].at
<1>0. s \in Slots /\ at \in Nat /\ Lock \in Nat \ {0} /\ thread[t].pc = "look"
      /\ thread[t] \in Checks
  BY Facts, LoginAssumption DEF TurnedAway, Inv, CheckTrue
<1>1. LockedForAll(t) \/ LockedForClient(t)
  BY OnlyLooks
<1>2. CASE LockedForAll(t)
  <2>1. global.until \in Nat /\ at < global.until
    BY <1>2, LoginAssumption DEF LockedForAll, Inv, TypeOK, Untils
  <2>2. Cardinality(From(guesses, global.until - 2 * Lock)) >= Global
    BY <1>0, <2>1 DEF Inv, GlobalTrue
  <2>3. guesses \subseteq Nat \X Times /\ IsFiniteSet(guesses)
    BY DEF Inv, TypeOK
  <2>4. From(guesses, at - 2 * Lock + 1) = Since(at - 2 * Lock)
    <3>1. \A g \in guesses : g[2] \in Int
      BY <2>3, LoginAssumption DEF Times
    <3> QED
      BY <1>0, <3>1 DEF From, Since
  <2>5. at - 2 * Lock + 1 \in Int /\ global.until - 2 * Lock \in Int
        /\ at - 2 * Lock + 1 <= global.until - 2 * Lock
    BY <1>0, <2>1
  <2>6. /\ Cardinality(From(guesses, at - 2 * Lock + 1)) \in Nat
        /\ Cardinality(From(guesses, global.until - 2 * Lock)) \in Nat
        /\ Cardinality(From(guesses, global.until - 2 * Lock))
              <= Cardinality(From(guesses, at - 2 * Lock + 1))
    BY <2>3, <2>5, FromEarlier
  <2>7. Cardinality(Since(at - 2 * Lock)) >= Global
    BY <2>2, <2>4, <2>6, LoginAssumption
  <2> QED
    BY <2>7 DEF EveryoneFailed
<1>3. CASE LockedForClient(t)
  <2>1. Looked(t) \in {NewEntry, failures[s]}
        /\ (Looked(t) # NewEntry => failures[s] # None)
    <3>1. Without(thread[t].doomed)[s] = None \/ Without(thread[t].doomed)[s] = failures[s]
      BY <1>0, Dropped DEF Checks
    <3> QED
      BY <3>1 DEF Looked
  <2>2. at < Looked(t).until /\ Looked(t) # NewEntry
    BY <1>0, <1>3, Numbers DEF LockedForClient
  <2>3. Looked(t) = failures[s] /\ failures[s] # None /\ at < failures[s].until
    BY <2>1, <2>2
  <2>4. failures[s] \in Entries /\ failures[s].until \in Nat
    BY <1>0, <2>3, Facts, LoginAssumption DEF Entries, Untils
  <2>5. mine[s].count = PerClient /\ mine[s].last + Lock >= failures[s].until
    BY <1>0, <2>3, <2>4 DEF Inv, EntryTrue
  <2>6. mine[s].last \in Nat /\ PerClient \in Nat
    BY <1>0, Facts, LoginAssumption DEF Times
  <2>7. mine[s].count >= PerClient /\ mine[s].last > at - Lock
    BY <1>0, <2>3, <2>4, <2>5, <2>6
  <2> QED
    BY <2>7 DEF ClientFailed
<1> QED
  BY <1>1, <1>2, <1>3
-----------------------------------------------------------------------------
(* How many guesses pass in a stretch of time that begins at w and ends a Lock
   later, less the time a check takes. *)

End(w) == w + Lock - Slow
Within(w) == {g \in guesses : w <= g[2] /\ g[2] < End(w)}

\* A thread past both locks, whose guess is counted or will be; and those of
\* them that looked before the end.
Passed(t) == thread[t].pc \in {"guess", "count", "add"}
Pending(w) == {t \in Threads : Passed(t) /\ thread[t].at < End(w)}

\* The most that can pass, and where the guesses of the stretch are accounted
\* for: the present count of everyone's failures holds them all; or the count
\* was begun in the stretch, after one that did not reach Global; or the lock
\* of everyone was set in the stretch, which leaves those past it; or it is over.
Most == 2 * Global - 2 + Cardinality(Threads)
OneCount(w) == Cardinality(Within(w)) <= global.count
TwoCounts(w) == /\ global.since >= w - Slow
                /\ Cardinality(Within(w)) <= Global - 1 + global.count
LockedIn(w) == /\ now >= w /\ global.until >= End(w)
               /\ Cardinality(Within(w)) + Cardinality(Pending(w)) <= Most
Over(w) == now >= End(w) /\ Cardinality(Within(w)) <= Most
Rationed(w) == OneCount(w) \/ TwoCounts(w) \/ LockedIn(w) \/ Over(w)

\* No guess is counted ahead of its time.
Past == \A g \in guesses : g[2] <= now

LEMMA PcFacts ==
    ASSUME Inv, NEW t \in Threads
    PROVE  (thread[t].at \in Nat /\ thread[t].at <= now) \/ thread[t].pc = "idle"
BY Facts DEF Inv, CheckTrue

\* What a step other than a count does to the clock and to the threads.
LEMMA OtherSteps ==
    ASSUME Inv, [Next]_vars, ~\E t \in Threads : Counts(t)
    PROVE  /\ UNCHANGED guesses
           /\ UNCHANGED global \/ \E t \in Threads : Renews(t)
           /\ \/ now' = now
              \/ now' = now + 1 /\ UNCHANGED thread
                 /\ \A u \in Threads : thread[u].pc # "idle" => now - thread[u].at < Slow
           /\ \A u \in Threads :
                 /\ thread'[u].pc # "idle" =>
                       \/ thread'[u].at = now'
                       \/ thread[u].pc # "idle" /\ thread'[u].at = thread[u].at
                 /\ Passed(u)' =>
                       /\ thread'[u].at = thread[u].at
                       /\ Passed(u) \/ thread[u].at >= global.until
                 /\ thread'[u].pc = "add" => thread[u].pc = "add" \/ Renews(u)
<1> DEFINE Fine(u) ==
             /\ thread'[u].pc # "idle" =>
                   \/ thread'[u].at = now'
                   \/ thread[u].pc # "idle" /\ thread'[u].at = thread[u].at
             /\ thread'[u].pc \in {"guess", "count", "add"} =>
                   /\ thread'[u].at = thread[u].at
                   /\ Passed(u) \/ thread[u].at >= global.until
             /\ thread'[u].pc = "add" => thread[u].pc = "add" \/ Renews(u)
<1>0. thread \in [Threads -> Checks] /\ \A u \in Threads : thread[u] \in Checks
  BY Facts
<1>1. CASE Tick \/ UNCHANGED vars
  <2>1. \A u \in Threads : Fine(u)
    BY <1>1 DEF Tick, vars, Passed
  <2> QED
    BY <1>1, <2>1 DEF Tick, vars, Busy, Passed
<1>2. ASSUME NEW t \in Threads, NEW s \in Slots, Arrives(t, s)
      PROVE  UNCHANGED <<now, global, guesses>> /\ \A u \in Threads : Fine(u)
  <2> DEFINE c == [Idle EXCEPT !.pc = "sweep", !.slot = s, !.at = now]
  <2>1. c.pc = "sweep" /\ c.at = now
    BY DEF Idle
  <2>2. thread' = [thread EXCEPT ![t] = c] /\ UNCHANGED <<now, global, guesses>>
    BY <1>2 DEF Arrives
  <2>3. ASSUME NEW u \in Threads PROVE Fine(u)
    <3>1. thread'[u] = IF u = t THEN c ELSE thread[u]
      BY <1>0, <2>2
    <3> HIDE DEF c
    <3> QED
      BY <2>1, <2>2, <3>1 DEF Passed
  <2> QED
    BY <2>2, <2>3
\* A thread that goes on, or ends, while others may learn of lost entries.
<1>3. ASSUME NEW t \in Threads, NEW S \in SUBSET Slots, NEW c \in Checks,
             UNCHANGED <<now, global, guesses>>,
             \A u \in Threads : thread'[u] = IF u = t THEN c ELSE Unlinked(S)[u],
             c.pc # "idle" => thread[t].pc # "idle" /\ c.at = thread[t].at,
             c.pc # "add",
             c.pc \in {"guess", "count"} => Passed(t) \/ thread[t].at >= global.until
      PROVE  \A u \in Threads : Fine(u)
  <2> SUFFICES ASSUME NEW u \in Threads PROVE Fine(u)
    OBVIOUS
  <2>1. Unlinked(S)[u].pc = thread[u].pc /\ Unlinked(S)[u].at = thread[u].at
    BY Dropped
  <2> QED
    BY <1>3, <2>1 DEF Passed
<1>4. ASSUME NEW t \in Threads, Sweeps(t)
      PROVE  UNCHANGED <<now, global, guesses>> /\ \A u \in Threads : Fine(u)
  <2>0. UNCHANGED <<now, global, guesses>> /\ thread[t].pc = "sweep" /\ thread[t] \in Checks
    BY <1>0, <1>4 DEF Sweeps
  <2>1. CASE thread' = [Unlinked(Slots) EXCEPT ![t].pc = "look"]
    <3> DEFINE c == [Unlinked(Slots)[t] EXCEPT !.pc = "look"]
    <3>1. Unlinked(Slots) \in [Threads -> Checks] /\ Unlinked(Slots)[t] \in Checks
          /\ Unlinked(Slots)[t].at = thread[t].at
      BY Dropped
    <3>2. c \in Checks /\ c.pc = "look" /\ c.at = thread[t].at
      BY <3>1 DEF Checks
    <3>3. thread' = [Unlinked(Slots) EXCEPT ![t] = c]
      BY <2>1
    <3>4. \A u \in Threads : thread'[u] = IF u = t THEN c ELSE Unlinked(Slots)[u]
      BY <3>1, <3>3
    <3> HIDE DEF c, Fine
    <3> QED
      BY <1>3, <2>0, <3>2, <3>4
  <2>2. CASE thread' # [Unlinked(Slots) EXCEPT ![t].pc = "look"]
    <3> DEFINE D == {s \in Tracked : failures[s].count = 0
                                     /\ thread[t].at >= failures[s].until}
               c == [thread[t] EXCEPT !.pc = "look", !.doomed = D]
    <3>1. D \in SUBSET Slots
      BY DEF Tracked
    <3>2. c \in Checks /\ c.pc = "look" /\ c.at = thread[t].at
      BY <2>0, <3>1 DEF Checks
    <3>3. thread' = [thread EXCEPT ![t] = c]
      BY <1>4, <2>2 DEF Sweeps
    <3>4. \A u \in Threads : thread'[u] = IF u = t THEN c ELSE thread[u]
      BY <1>0, <3>3
    <3>5. \A u \in Threads : Unlinked({})[u] = thread[u]
      BY <1>0 DEF Unlinked
    <3>6. {} \in SUBSET Slots
      OBVIOUS
    <3> HIDE DEF c, Fine
    <3> QED
      BY <1>3, <2>0, <3>2, <3>4, <3>5, <3>6
  <2> QED
    BY <2>0, <2>1, <2>2
<1>5. ASSUME NEW t \in Threads, Looks(t)
      PROVE  UNCHANGED <<now, global, guesses>> /\ \A u \in Threads : Fine(u)
  <2>0. UNCHANGED <<now, global, guesses>> /\ thread[t].pc = "look" /\ thread[t] \in Checks
        /\ thread[t].doomed \in SUBSET Slots
    BY <1>0, <1>5 DEF Looks, Checks
  <2> DEFINE g == [thread[t] EXCEPT !.pc = "guess", !.doomed = {}, !.kept = TRUE]
             c == IF LockedForAll(t) \/ LockedForClient(t) THEN Idle ELSE g
  <2>1. g \in Checks /\ g.pc = "guess" /\ g.at = thread[t].at
    BY <2>0 DEF Checks
  <2>2. Idle \in Checks /\ Idle.pc = "idle"
    BY Numbers
  <2>3. thread' = [Unlinked(thread[t].doomed) EXCEPT ![t] = c]
    BY <1>5 DEF Looks
  <2>4. Unlinked(thread[t].doomed) \in [Threads -> Checks]
    BY <2>0, Dropped
  <2>5. \A u \in Threads : thread'[u] = IF u = t THEN c ELSE Unlinked(thread[t].doomed)[u]
    BY <2>3, <2>4
  <2>6. ~LockedForAll(t) => thread[t].at >= global.until
    <3>1. thread[t].at \in Int /\ global.until \in Int
      BY <2>0, LoginAssumption DEF Checks, Times, Inv, TypeOK, Untils
    <3> QED
      BY <3>1 DEF LockedForAll
  <2>7. /\ c \in Checks
        /\ c.pc # "idle" => thread[t].pc # "idle" /\ c.at = thread[t].at
        /\ c.pc # "add"
        /\ c.pc \in {"guess", "count", "add"} => thread[t].at >= global.until
    <3> HIDE DEF g
    <3> QED
      BY <2>0, <2>1, <2>2, <2>6
  <2> HIDE DEF c, Fine
  <2> QED
    BY <1>3, <2>0, <2>5, <2>7
<1>6. ASSUME NEW t \in Threads, Right(t)
      PROVE  UNCHANGED <<now, global, guesses>> /\ \A u \in Threads : Fine(u)
  <2>0. UNCHANGED <<now, global, guesses>> /\ {thread[t].slot} \in SUBSET Slots
    BY <1>6 DEF Right, Inv, CheckTrue
  <2>1. Unlinked({thread[t].slot}) \in [Threads -> Checks]
    BY <2>0, Dropped
  <2>2. \A u \in Threads : thread'[u] = IF u = t THEN Idle ELSE Unlinked({thread[t].slot})[u]
    BY <1>6, <2>1 DEF Right
  <2>3. Idle \in Checks /\ Idle.pc = "idle"
    BY Numbers
  <2> HIDE DEF Fine
  <2> QED
    BY <1>3, <2>0, <2>2, <2>3
<1>7. ASSUME NEW t \in Threads, Wrong(t)
      PROVE  UNCHANGED <<now, global, guesses>> /\ \A u \in Threads : Fine(u)
  <2> DEFINE c == [thread[t] EXCEPT !.pc = "count"]
  <2>0. UNCHANGED <<now, global, guesses>> /\ thread[t].pc = "guess" /\ thread[t] \in Checks
        /\ thread' = [thread EXCEPT ![t] = c]
    BY <1>0, <1>7 DEF Wrong
  <2>1. c.pc = "count" /\ c.at = thread[t].at
    BY <2>0 DEF Checks
  <2>2. \A u \in Threads : thread'[u] = IF u = t THEN c ELSE thread[u]
    BY <1>0, <2>0
  <2> HIDE DEF c
  <2> QED
    BY <2>0, <2>1, <2>2 DEF Passed
<1>8. ASSUME NEW t \in Threads, Renews(t)
      PROVE  UNCHANGED <<now, guesses>> /\ \A u \in Threads : Fine(u)
  <2> DEFINE c == [thread[t] EXCEPT !.pc = "add"]
  <2>0. UNCHANGED <<now, guesses>> /\ thread[t].pc = "count" /\ thread[t] \in Checks
        /\ thread' = [thread EXCEPT ![t] = c]
    BY <1>0, <1>8 DEF Renews
  <2>1. c.pc = "add" /\ c.at = thread[t].at
    BY <2>0 DEF Checks
  <2>2. \A u \in Threads : thread'[u] = IF u = t THEN c ELSE thread[u]
    BY <1>0, <2>0
  <2> HIDE DEF c
  <2> QED
    BY <1>8, <2>0, <2>1, <2>2 DEF Passed
<1>9. ASSUME NEW t \in Threads, SweepBreaks(t)
      PROVE  UNCHANGED <<now, global, guesses>> /\ \A u \in Threads : Fine(u)
  <2>1. UNCHANGED <<now, global, guesses>>
        /\ \A u \in Threads : thread'[u] = IF u = t THEN Idle ELSE thread[u]
    BY <1>0, <1>9 DEF SweepBreaks
  <2> QED
    BY <2>1, Numbers DEF Passed
<1>10. CASE Next /\ ~Tick
  <2>1. /\ UNCHANGED <<now, guesses>> /\ \A u \in Threads : Fine(u)
        /\ UNCHANGED global \/ \E t \in Threads : Renews(t)
    <3> HIDE DEF Fine
    <3> QED
      BY <1>2, <1>4, <1>5, <1>6, <1>7, <1>8, <1>9, <1>10 DEF Next, Step
  <2> QED
    BY <2>1 DEF Passed
<1> QED
  BY <1>1, <1>10

LEMMA FreshStep ==
    ASSUME Inv, Fresh, Past, [Next]_vars
    PROVE  Fresh' /\ Past'
<1>0. now \in Nat /\ Slow \in Nat /\ \A t \in Threads : thread[t].at \in Nat
  BY Facts, LoginAssumption
<1>1. ASSUME NEW t \in Threads, Counts(t) PROVE Fresh' /\ Past'
  <2>1. now' = now /\ thread' = [thread EXCEPT ![t] = Idle]
        /\ guesses' = guesses \cup {<<Cardinality(guesses) + 1, now>>}
    BY <1>1 DEF Counts
  <2>2. \A u \in Threads : thread'[u] = thread[u] \/ thread'[u].pc = "idle"
    BY <2>1, Facts, Numbers
  <2> QED
    BY <1>0, <2>1, <2>2 DEF Fresh, Past
<1>2. CASE ~\E t \in Threads : Counts(t)
  <2>1. Past'
    <3>1. \A g \in guesses : g[2] \in Int
      BY LoginAssumption DEF Inv, TypeOK, Times
    <3> QED
      BY <1>0, <1>2, <3>1, OtherSteps DEF Past
  <2>2. ASSUME NEW u \in Threads, thread'[u].pc # "idle" PROVE now' - thread'[u].at <= Slow
    <3>1. \/ thread'[u].at = now'
          \/ thread[u].pc # "idle" /\ thread'[u].at = thread[u].at
      BY <1>2, <2>2, OtherSteps
    <3>2. \/ now' = now
          \/ now' = now + 1 /\ \A t \in Threads : thread[t].pc # "idle" => now - thread[t].at < Slow
      BY <1>2, OtherSteps
    <3> QED
      BY <1>0, <3>1, <3>2 DEF Fresh
  <2> QED
    BY <2>1, <2>2 DEF Fresh
<1> QED
  BY <1>1, <1>2

\* A window begun anew is younger; one begun by a lock is as young as a check.
LEMMA RenewedStep ==
    ASSUME Inv, Fresh, Renewed, [Next]_vars
    PROVE  Renewed'
<1> SUFFICES ASSUME NEW u \in Threads, thread'[u].pc = "add"
             PROVE  thread'[u].at - global'.since <= Lock
  BY DEF Renewed
<1>0. /\ now \in Nat /\ Slow \in Nat /\ Lock \in Nat /\ Slow <= Lock
      /\ global \in [count : 0..(Global - 1), since : Times, until : Untils]
      /\ global.since \in Nat
      /\ thread \in [Threads -> Checks] /\ \A t \in Threads : thread[t].at \in Nat
  BY Facts, LoginAssumption DEF Inv, TypeOK, Times
<1>1. CASE \E t \in Threads : Counts(t)
  <2>1. PICK t \in Threads : Counts(t)
    BY <1>1
  <2> DEFINE at == thread[t].at
  <2>2. /\ u # t /\ thread'[u] = thread[u] /\ thread[u].pc = "add" /\ thread[t].pc = "add"
        /\ global' = Counted(global, at)
    <3>1. thread' = [thread EXCEPT ![t] = Idle] /\ thread[t].pc = "add" /\ global' = Counted(global, at)
      BY <2>1 DEF Counts
    <3>2. \A x \in Threads : thread'[x] = IF x = t THEN Idle ELSE thread[x]
      BY <1>0, <3>1
    <3> QED
      BY <3>1, <3>2, Numbers
  <2>3. thread[u].at <= now /\ now - at <= Slow
    BY <2>2 DEF Inv, CheckTrue, Fresh
  <2>4. global'.since = at \/ global'.since = global.since
    BY <1>0, <2>2 DEF Counted
  <2>5. thread[u].at - global.since <= Lock
    BY <2>2 DEF Renewed
  <2>6. at \in Nat /\ thread[u].at \in Nat
    BY <1>0
  <2> HIDE DEF at
  <2> QED
    BY <1>0, <2>2, <2>3, <2>4, <2>5, <2>6
<1>2. CASE \E t \in Threads : Renews(t)
  <2>1. PICK t \in Threads : Renews(t)
    BY <1>2
  <2> DEFINE at == thread[t].at
             c == [thread[t] EXCEPT !.pc = "add"]
  <2>2. thread' = [thread EXCEPT ![t] = c] /\ global' = Window(at)
    BY <2>1 DEF Renews
  <2>3. c.at = at /\ thread[t] \in Checks
    BY <1>0 DEF Checks
  <2>4. thread'[u] = IF u = t THEN c ELSE thread[u]
    BY <1>0, <2>2
  <2>5. \/ at - global.since > Lock /\ global'.since = at
        \/ at - global.since <= Lock /\ global' = global
    BY <1>0, <2>2 DEF Window
  <2>6. at \in Nat /\ thread[u].at \in Nat
    BY <1>0
  <2> HIDE DEF c, at
  <2>7. CASE u = t
    BY <1>0, <2>3, <2>4, <2>5, <2>6, <2>7
  <2>8. CASE u # t
    <3>1. thread[u].at - global.since <= Lock /\ thread'[u].at = thread[u].at
      BY <2>4, <2>8 DEF Renewed
    <3> QED
      BY <1>0, <2>5, <2>6, <3>1
  <2> QED
    BY <2>7, <2>8
<1>3. CASE ~(\E t \in Threads : Counts(t)) /\ ~\E t \in Threads : Renews(t)
  <2>1. global' = global
    BY <1>3, OtherSteps
  <2>2. thread[u].pc = "add" /\ thread'[u].at = thread[u].at
    BY <1>3, OtherSteps DEF Passed
  <2> QED
    BY <2>1, <2>2 DEF Renewed
<1> QED
  BY <1>1, <1>2, <1>3

LEMMA StepFresh ==
    ASSUME Inv, Fresh, Renewed, Past, [Next]_vars
    PROVE  Inv' /\ Fresh' /\ Renewed' /\ Past'
BY StepInv, FreshStep, RenewedStep

LEMMA InitFresh == Init => Fresh /\ Renewed /\ Past
<1> SUFFICES ASSUME Init PROVE Fresh /\ Renewed /\ Past
  OBVIOUS
<1>1. guesses = {} /\ \A t \in Threads : thread[t].pc = "idle"
  BY Numbers DEF Init
<1> QED
  BY <1>1 DEF Fresh, Renewed, Past

LEMMA SpecInv == Spec => [](Inv /\ Fresh /\ Renewed /\ Past)
<1>1. Init => Inv /\ Fresh /\ Renewed /\ Past
  BY InitInv, InitFresh
<1>2. (Inv /\ Fresh /\ Renewed /\ Past) /\ [Next]_vars => (Inv /\ Fresh /\ Renewed /\ Past)'
  BY StepFresh
<1> QED
  BY <1>1, <1>2, PTL DEF Spec

\* The sets that are counted are finite.
LEMMA Finite ==
    ASSUME Inv, NEW w \in Times
    PROVE  /\ IsFiniteSet(Within(w)) /\ Cardinality(Within(w)) \in Nat
           /\ IsFiniteSet(Pending(w)) /\ Cardinality(Pending(w)) \in Nat
           /\ Cardinality(Pending(w)) <= Cardinality(Threads)
           /\ Cardinality(Threads) \in Nat
<1>1. IsFiniteSet(guesses) /\ Within(w) \subseteq guesses
  BY DEF Inv, TypeOK, Within
<1>2. IsFiniteSet(Threads) /\ Pending(w) \subseteq Threads
  BY LoginAssumption DEF Pending
<1> QED
  BY <1>1, <1>2, FS_Subset, FS_CardinalityType

\* A step that is no count moves no guess, and lets nobody past a lock.
LEMMA RationedOther ==
    ASSUME Inv, Inv', [Next]_vars, ~\E t \in Threads : Counts(t) \/ Renews(t),
           NEW w \in Times, Rationed(w)
    PROVE  Rationed(w)'
<1>0. /\ now \in Nat /\ now' \in Nat /\ now <= now' /\ w \in Nat /\ Slow \in Nat /\ Lock \in Nat
      /\ global' = global /\ Within(w)' = Within(w)
      /\ global.until \in Nat
  <2>1. global' = global /\ guesses' = guesses /\ (now' = now \/ now' = now + 1)
    BY OtherSteps
  <2> QED
    BY <2>1, Facts, LoginAssumption DEF Within, Times, Inv, TypeOK, Untils
<1>1. CASE OneCount(w) \/ TwoCounts(w)
  BY <1>0, <1>1 DEF OneCount, TwoCounts, Rationed
<1>2. CASE Over(w)
  BY <1>0, <1>2 DEF Over, Rationed, End
<1>3. CASE LockedIn(w)
  <2>1. Pending(w)' \subseteq Pending(w)
    <3> SUFFICES ASSUME NEW u \in Threads, Passed(u)', thread'[u].at < End(w)
                 PROVE  Passed(u) /\ thread[u].at < End(w)
      BY DEF Pending, End
    <3>1. thread'[u].at = thread[u].at /\ (Passed(u) \/ thread[u].at >= global.until)
      BY OtherSteps
    <3>2. thread[u].at \in Nat /\ End(w) \in Int
      BY <1>0, Facts DEF End
    <3> QED
      BY <1>0, <1>3, <3>1, <3>2 DEF LockedIn
  <2>2. Cardinality(Pending(w)') <= Cardinality(Pending(w))
    BY <2>1, Finite, FS_Subset
  <2>3. Cardinality(Pending(w)') \in Nat /\ Cardinality(Pending(w)) \in Nat
        /\ Cardinality(Within(w)) \in Nat /\ Most \in Int
    <3>1. Cardinality(Threads) \in Nat /\ Global \in Nat
      BY Finite, LoginAssumption
    <3> QED
      BY <2>1, <3>1, Finite, FS_Subset, FS_CardinalityType DEF Most
  <2> QED
    BY <1>0, <1>3, <2>2, <2>3 DEF LockedIn, Rationed, End, Most
<1> QED
  BY <1>1, <1>2, <1>3 DEF Rationed

\* A window begun anew leaves what was counted in the stretch to the one before.
LEMMA RationedRenews ==
    ASSUME Inv, Fresh, Past, NEW t \in Threads, Renews(t),
           NEW w \in Times, Rationed(w)
    PROVE  Rationed(w)'
<1> DEFINE at == thread[t].at
           v == Window(at)
           c == [thread[t] EXCEPT !.pc = "add"]
           n == Cardinality(Within(w))
           p == Cardinality(Pending(w))
<1>0. /\ at \in Nat /\ now \in Nat /\ at <= now /\ now - at <= Slow /\ w \in Nat
      /\ Slow \in Nat /\ Lock \in Nat \ {0} /\ Global \in Nat \ {0} /\ thread[t].pc = "count"
      /\ thread[t] \in Checks
  <2>1. thread[t].pc = "count"
    BY DEF Renews
  <2> QED
    BY <2>1, Facts, PcFacts, LoginAssumption DEF Fresh, Times
<1>1. global.count \in 0..(Global - 1) /\ global.since \in Nat /\ global.until \in Nat
      /\ global \in [count : 0..(Global - 1), since : Times, until : Untils]
  BY LoginAssumption DEF Inv, TypeOK, Times, Untils
<1>2. now' = now /\ guesses' = guesses /\ global' = v /\ thread' = [thread EXCEPT ![t] = c]
  BY DEF Renews
<1>3. /\ v.until = global.until
      /\ \/ at - global.since > Lock /\ v.count = 0 /\ v.since = at
         \/ v = global
  BY <1>0, <1>1 DEF Window
<1>4. Within(w)' = Within(w)
  BY <1>2 DEF Within, End
<1>5. Pending(w)' = Pending(w)
  <2>1. c.pc = "add" /\ c.at = at
    BY <1>0 DEF Checks
  <2>2. \A u \in Threads : thread'[u] = IF u = t THEN c ELSE thread[u]
    BY <1>2, Facts
  <2>3. \A u \in Threads : (Passed(u)' <=> Passed(u)) /\ thread'[u].at = thread[u].at
    <3> HIDE DEF c
    <3> QED
      BY <1>0, <2>1, <2>2 DEF Passed
  <2> QED
    BY <2>3 DEF Pending, End
<1>6. n \in Nat /\ p \in Nat /\ Cardinality(Threads) \in Nat
  BY Finite
<1> HIDE DEF c, v, n, p, at
<1>7. /\ OneCount(w) <=> n <= global.count
      /\ TwoCounts(w) <=> global.since >= w - Slow /\ n <= Global - 1 + global.count
      /\ LockedIn(w) <=> now >= w /\ global.until >= End(w) /\ n + p <= Most
      /\ Over(w) <=> now >= End(w) /\ n <= Most
  BY DEF OneCount, TwoCounts, LockedIn, Over, n, p
<1>8. /\ OneCount(w)' <=> n <= v.count
      /\ TwoCounts(w)' <=> v.since >= w - Slow /\ n <= Global - 1 + v.count
      /\ LockedIn(w)' <=> now >= w /\ v.until >= End(w) /\ n + p <= Most
      /\ Over(w)' <=> now >= End(w) /\ n <= Most
  BY <1>2, <1>4, <1>5 DEF OneCount, TwoCounts, LockedIn, Over, n, p, End, Most
<1>9. CASE v = global
  BY <1>7, <1>8, <1>9 DEF Rationed
<1>10. CASE at - global.since > Lock /\ v.count = 0 /\ v.since = at
  <2>1. CASE LockedIn(w) \/ Over(w)
    BY <1>3, <1>7, <1>8, <2>1 DEF Rationed
  <2>2. CASE TwoCounts(w)
    <3>1. now >= End(w) /\ n <= Most
      <4>1. Cardinality(Threads) >= 1
        <5>1. IsFiniteSet(Threads) /\ Threads # {}
          BY LoginAssumption
        <5> QED
          BY <1>6, <5>1, FS_EmptySet
      <4> QED
        BY <1>0, <1>1, <1>6, <1>7, <1>10, <2>2, <4>1 DEF End, Most
    <3> QED
      BY <1>8, <3>1 DEF Rationed
  <2>3. CASE OneCount(w)
    <3>1. CASE now < w
      <4>1. Within(w) = {}
        <5>1. \A x \in guesses : x[2] <= now /\ x[2] \in Nat
          BY LoginAssumption DEF Past, Inv, TypeOK, Times
        <5> QED
          BY <1>0, <3>1, <5>1 DEF Within
      <4>2. n = 0
        BY <4>1, FS_EmptySet DEF n
      <4> QED
        BY <1>8, <1>10, <4>2 DEF Rationed
    <3>2. CASE now >= w
      BY <1>0, <1>1, <1>6, <1>7, <1>8, <1>10, <2>3, <3>2 DEF Rationed
    <3> QED
      BY <1>0, <3>1, <3>2
  <2> QED
    BY <2>1, <2>2, <2>3 DEF Rationed
<1> QED
  BY <1>3, <1>9, <1>10

\* A count: the lock is set, or one more is counted.
LEMMA RationedCounts ==
    ASSUME Inv, Fresh, Past, NEW t \in Threads, Counts(t),
           NEW w \in Times, Rationed(w)
    PROVE  Rationed(w)'
<1> DEFINE at == thread[t].at
           v == global
           g == <<Cardinality(guesses) + 1, now>>
           n == Cardinality(Within(w))
           p == Cardinality(Pending(w))
<1>0. /\ at \in Nat /\ now \in Nat /\ at <= now /\ now - at <= Slow /\ w \in Nat
      /\ Slow \in Nat /\ Lock \in Nat \ {0} /\ Global \in Nat \ {0} /\ Passed(t)
  <2>1. thread[t].pc = "add"
    BY DEF Counts
  <2> QED
    BY <2>1, Facts, PcFacts, LoginAssumption DEF Fresh, Passed, Times
<1>1. global.count \in 0..(Global - 1) /\ global.since \in Nat /\ global.until \in Nat
      /\ global \in [count : 0..(Global - 1), since : Times, until : Untils]
  BY LoginAssumption DEF Inv, TypeOK, Times, Untils
<1>2. /\ now' = now /\ thread' = [thread EXCEPT ![t] = Idle]
      /\ guesses' = guesses \cup {g} /\ global' = Counted(v, at)
  BY DEF Counts
<1>3. /\ n \in Nat /\ p \in Nat /\ Cardinality(Threads) \in Nat
      /\ IsFiniteSet(Within(w)) /\ IsFiniteSet(Pending(w)) /\ Most \in Int
  <2>1. n \in Nat /\ p \in Nat /\ Cardinality(Threads) \in Nat
        /\ IsFiniteSet(Within(w)) /\ IsFiniteSet(Pending(w))
    BY Finite
  <2> QED
    BY <1>0, <2>1 DEF Most
<1>5. \/ v.count + 1 >= Global /\ global'.until = at + Lock /\ global'.count = 0
      \/ v.count + 1 < Global /\ global'.until = v.until
         /\ global'.count = v.count + 1 /\ global'.since = v.since
  <2>0. v \in [count : 0..(Global - 1), since : Times, until : Untils]
    BY <1>1
  <2> HIDE DEF v
  <2>1. v.count \in Int
    BY <1>0, <2>0
  <2> QED
    BY <1>0, <1>2, <2>0, <2>1 DEF Counted
<1>6. v.count \in 0..(Global - 1) /\ v.since \in Nat
  BY <1>1
<1>7. Cardinality(Threads) >= 1
  <2>1. IsFiniteSet(Threads) /\ Threads # {}
    BY LoginAssumption
  <2> QED
    BY <1>3, <2>1, FS_EmptySet
<1>8. g[2] = now /\ g \notin guesses
  <2>1. Cardinality(guesses) \in Nat
    BY FS_CardinalityType DEF Inv, TypeOK
  <2>2. \A x \in guesses : x[1] <= Cardinality(guesses) /\ x[1] \in Nat
    BY DEF Inv, Numbered, TypeOK
  <2> QED
    BY <2>1, <2>2
<1> HIDE DEF g
<1>9. CASE now < w
  <2>1. Within(w)' = {}
    <3>1. \A x \in guesses : x[2] <= now /\ x[2] \in Nat
      BY LoginAssumption DEF Past, Inv, TypeOK, Times
    <3>2. \A x \in guesses' : ~(w <= x[2])
      BY <1>0, <1>2, <1>8, <1>9, <3>1
    <3> QED
      BY <3>2 DEF Within
  <2>2. Cardinality(Within(w)') = 0
    BY <2>1, FS_EmptySet
  <2>3. global'.count >= 0
    BY <1>5, <1>6
  <2> QED
    BY <2>2, <2>3 DEF Rationed, OneCount
<1>10. CASE now >= End(w)
  <2>1. Within(w)' = Within(w)
    <3>1. ~(g[2] < End(w))
      BY <1>0, <1>8, <1>10 DEF End
    <3> QED
      BY <1>2, <3>1 DEF Within, End
  <2>2. n <= Most
    <3> HIDE DEF n, p
    <3>1. OneCount(w) => n <= global.count
      BY DEF OneCount, n
    <3>2. TwoCounts(w) => n <= Global - 1 + global.count
      BY DEF TwoCounts, n
    <3>3. LockedIn(w) => n + p <= Most
      BY DEF LockedIn, n, p
    <3>4. Over(w) => n <= Most
      BY DEF Over, n
    <3>5. global.count <= Global - 1 /\ global.count \in Nat /\ Most = 2 * Global - 2 + Cardinality(Threads)
      BY <1>0, <1>1 DEF Most
    <3> QED
      BY <1>0, <1>3, <1>7, <3>1, <3>2, <3>3, <3>4, <3>5 DEF Rationed
  <2> QED
    BY <1>2, <1>10, <2>1, <2>2 DEF Rationed, Over, End, Most
<1>11. CASE w <= now /\ now < End(w)
  <2>1. /\ Within(w)' = Within(w) \cup {g} /\ Cardinality(Within(w)') = n + 1
    <3>1. Within(w)' = Within(w) \cup {g} /\ g \notin Within(w)
      BY <1>2, <1>8, <1>11 DEF Within, End
    <3> QED
      BY <1>3, <3>1, AddOne
  <2>2. t \in Pending(w) /\ at + Lock >= End(w)
    BY <1>0, <1>11 DEF Pending, End
  <2>3. Pending(w)' = Pending(w) \ {t}
    <3>1. \A u \in Threads : thread'[u] = IF u = t THEN Idle ELSE thread[u]
      BY <1>2, Facts
    <3> QED
      BY <3>1, Numbers DEF Pending, Passed, End
  <2>4. /\ Cardinality(Pending(w)') = p - 1
        /\ Cardinality(Pending(w)') <= Cardinality(Threads) - 1
    <3>1. Cardinality(Pending(w)') = p - 1
      BY <1>3, <2>2, <2>3, FS_RemoveElement
    <3>2. p <= Cardinality(Threads)
      BY Finite
    <3> HIDE DEF p
    <3> QED
      BY <1>3, <3>1, <3>2
  <2>5. CASE LockedIn(w)
    <3>1. global'.until >= End(w)
      <4>1. global.until >= End(w)
        BY <2>5 DEF LockedIn
      <4> QED
        BY <1>5, <2>2, <4>1
    <3>2. n + p <= Most
      BY <2>5 DEF LockedIn
    <3>3. (n + 1) + (p - 1) <= Most
      <4> HIDE DEF n, p
      <4> QED
        BY <1>3, <3>2
    <3> QED
      BY <1>2, <1>11, <2>1, <2>4, <3>1, <3>3 DEF LockedIn, Rationed, End, Most
  <2>6. CASE OneCount(w) \/ TwoCounts(w)
    <3>1. \/ n <= v.count
          \/ v.since >= w - Slow /\ n <= Global - 1 + v.count
      BY <2>6 DEF OneCount, TwoCounts
    <3>2. CASE v.count + 1 >= Global
      <4>1. global'.until >= End(w)
        BY <1>0, <1>5, <1>6, <2>2, <3>2
      <4>2. n + 1 + Cardinality(Pending(w)') <= Most
        <5>1. n + 1 <= 2 * Global - 1
          <6> HIDE DEF n, v
          <6> QED
            BY <1>0, <1>3, <1>6, <3>1
        <5>2. Cardinality(Pending(w)') \in Int
          BY <1>3, <2>4
        <5> HIDE DEF n
        <5> QED
          BY <1>0, <1>3, <2>4, <5>1, <5>2 DEF Most
      <4> QED
        BY <1>2, <1>11, <2>1, <4>1, <4>2 DEF LockedIn, Rationed, End, Most
    <3>3. CASE v.count + 1 < Global
      <4>1. global'.count = v.count + 1 /\ global'.since = v.since
        BY <1>0, <1>5, <1>6, <3>3
      <4>2. \/ n + 1 <= global'.count
            \/ global'.since >= w - Slow /\ n + 1 <= Global - 1 + global'.count
        <5> HIDE DEF n, v
        <5> QED
          BY <1>0, <1>3, <1>6, <3>1, <4>1
      <4> QED
        BY <2>1, <4>2 DEF OneCount, TwoCounts, Rationed
    <3> QED
      BY <1>0, <1>6, <3>2, <3>3
  <2>7. ~Over(w)
    BY <1>0, <1>11 DEF Over, End
  <2> QED
    BY <2>5, <2>6, <2>7 DEF Rationed
<1> QED
  BY <1>0, <1>9, <1>10, <1>11 DEF End

LEMMA RationedEnough ==
    ASSUME Inv, NEW w \in Times, Rationed(w)
    PROVE  Cardinality(Within(w)) <= 2 * Global - 1 + (Cardinality(Threads) - 1)
<1> DEFINE n == Cardinality(Within(w))
           p == Cardinality(Pending(w))
<1>1. n \in Nat /\ p \in Nat /\ Cardinality(Threads) \in Nat /\ Global \in Nat \ {0}
      /\ global.count \in 0..(Global - 1)
  BY Finite, LoginAssumption DEF Inv, TypeOK
<1>2. \/ n <= global.count \/ n <= Global - 1 + global.count \/ n + p <= Most \/ n <= Most
  BY DEF Rationed, OneCount, TwoCounts, LockedIn, Over
<1> HIDE DEF n, p
<1>3. n <= 2 * Global - 1 + (Cardinality(Threads) - 1)
  BY <1>1, <1>2 DEF Most
<1> QED
  BY <1>3 DEF n

LEMMA RationedInit ==
    ASSUME Init
    PROVE  \A w \in Times : Rationed(w)
<1>1. guesses = {} /\ global.count = 0
  BY DEF Init
<1>2. \A w \in Times : Within(w) = {}
  BY <1>1 DEF Within
<1> QED
  BY <1>1, <1>2, FS_EmptySet DEF Rationed, OneCount

LEMMA SpecRationed == Spec => [](Inv /\ \A w \in Times : Rationed(w))
<1> DEFINE I == Inv /\ Fresh /\ Renewed /\ Past
           J == \A w \in Times : Rationed(w)
<1>1. Init => J
  BY RationedInit
<1>2. I /\ I' /\ J /\ [Next]_vars => J'
  <2> SUFFICES ASSUME I, I', J, [Next]_vars, NEW w \in Times PROVE Rationed(w)'
    OBVIOUS
  <2>1. CASE \E t \in Threads : Counts(t)
    BY <2>1, RationedCounts
  <2>2. CASE \E t \in Threads : Renews(t)
    BY <2>2, RationedRenews
  <2>3. CASE ~\E t \in Threads : Counts(t) \/ Renews(t)
    BY <2>3, RationedOther
  <2> QED
    BY <2>1, <2>2, <2>3
<1>3. I => Inv
  OBVIOUS
<1>4. Spec => []I
  BY SpecInv
<1> HIDE DEF I, J
<1>5. Spec => [](Inv /\ J)
  BY <1>1, <1>2, <1>3, <1>4, PTL DEF Spec
<1> QED
  BY <1>5 DEF J
-----------------------------------------------------------------------------
\* The types, whatever the number of clients, threads and guesses.
THEOREM LoginTypes == Spec => []TypeOK
<1>1. Inv => TypeOK
  BY DEF Inv
<1> QED
  BY <1>1, SpecInv, PTL

\* check_password: a 429 is owed to this client's failures since its last
\* right password, or to everyone's in the past two LOCKs.
THEOREM LoginRefusesForCause == Spec => RefusedForCause
<1>1. Inv /\ [Next]_vars => \A t \in Threads : TurnedAway(t) => ClientFailed(t) \/ EveryoneFailed(t)
  BY CauseOfLock
<1>2. Inv /\ [Next]_vars => [\A t \in Threads : TurnedAway(t) => ClientFailed(t) \/ EveryoneFailed(t)]_vars
  BY <1>1
<1> QED
  BY <1>2, SpecInv, PTL DEF Spec, RefusedForCause

\* Whatever becomes of the table of clients, and however the threads overlap,
\* fewer than twice GLOBAL guesses pass in a LOCK beside those of the other
\* threads that were past the locks already (auth.py:37-62).
THEOREM LoginGuessesBounded == Spec => []GuessesBounded
<1>1. Inv /\ (\A w \in Times : Rationed(w)) => GuessesBounded
  BY RationedEnough DEF GuessesBounded, Within, End
<1> QED
  BY <1>1, SpecRationed, PTL
=============================================================================
