------------------------- MODULE MessageStoreProofs -------------------------
(***************************************************************************)
(* The message store: its type invariant; that no flagged message falls    *)
(* out of the index; that an erasure outside the known windows leaves no   *)
(* chunk behind; what chunks hold, and that a tick neither cuts a          *)
(* conversation nor leaves any of it out; and by which ways alone a        *)
(* message outlives its member's opt-out.  For any history of messages,    *)
(* any groups, windows, limits and requests.                               *)
(***************************************************************************)
EXTENDS MessageStore, WellFoundedInduction, FiniteSetTheorems, TLAPS

\* What the proofs need of the chunks and of the episodes to come: they hold
\* messages of one group, and outside the known windows only stored ones.
Held == chunks \cup batch
OneGroup == \A c \in Held : \A m, n \in c : Group(m) = Group(n)
WordsStored == ~exposed => \A c \in Held : c \subseteq stored

\* What an erasure removed is gone from the messages at least.
ErasedGone == erased \cap stored = {}

Inv == TypeOK /\ OneGroup /\ WordsStored /\ ErasedGone /\ Indexed

-----------------------------------------------------------------------------
(* The ends of a chunk. *)

LEMMA MinIsLeast ==
    ASSUME NEW S \in SUBSET Nat, S # {}
    PROVE  Min(S) \in S /\ \A y \in S : Min(S) <= y
<1> DEFINE R == OpToRel(<, Nat)
<1>1. PICK x \in S : \A y \in S : ~(<<y, x>> \in R)
  BY WFMin, NatLessThanWellFounded, Zenon
<1>2. \A y \in S : x <= y
  <2> TAKE y \in S
  <2>1. <<y, x>> \in Nat \X Nat
    BY Zenon
  <2>2. ~(y < x)
    BY <1>1, <2>1 DEF OpToRel
  <2> QED BY <2>2
<1> QED BY <1>2 DEF Min

LEMMA MaxIsGreatest ==
    ASSUME NEW N \in Nat, NEW S \in SUBSET (0..N), S # {}
    PROVE  Max(S) \in S /\ \A y \in S : Max(S) >= y
<1> DEFINE T == {N - y : y \in S}
<1>1. T \in SUBSET Nat /\ T # {}
  <2>1. \A y \in S : N - y \in Nat
    OBVIOUS
  <2>2. PICK y \in S : TRUE
    OBVIOUS
  <2>3. N - y \in T
    BY <2>2
  <2> QED BY <2>1, <2>3
<1>2. PICK x \in S : Min(T) = N - x
  BY <1>1, MinIsLeast
<1>3. \A y \in S : x >= y
  BY <1>1, <1>2, MinIsLeast
<1> QED BY <1>3 DEF Max

LEMMA MessagesAreNumbers ==
    Len(Sent) \in Nat /\ Messages \subseteq 0..Len(Sent) /\ Messages \subseteq Int
BY StoreAssumption DEF Messages

\* A chunk of one group spans every message it holds.
LEMMA SpansItsOwn ==
    ASSUME NEW c \in SUBSET Messages, c # {},
           \A m, n \in c : Group(m) = Group(n),
           NEW m \in c
    PROVE  /\ GroupOf(c) = Group(m)
           /\ Spans(c, m)
           /\ Ts(m) <= Ts(Max(c)) /\ Ts(m) \in Nat /\ Ts(Max(c)) \in Nat
<1>1. Min(c) \in c /\ Min(c) <= m
  BY MinIsLeast, MessagesAreNumbers
<1>2. Max(c) \in c /\ Max(c) >= m
  BY MaxIsGreatest, MessagesAreNumbers
<1>3. /\ Ts(Min(c)) \in Nat /\ Ts(m) \in Nat /\ Ts(Max(c)) \in Nat
  BY <1>1, <1>2, StoreAssumption
<1>4. Ts(Min(c)) <= Ts(m) /\ Ts(m) <= Ts(Max(c))
  <2>0. m \in Int /\ Min(c) \in Int /\ Max(c) \in Int
    BY <1>1, <1>2, MessagesAreNumbers
  <2>1. CASE Min(c) = m /\ Max(c) = m
    BY <2>1, <1>3
  <2>2. CASE Min(c) = m /\ m < Max(c)
    BY <2>2, <1>1, <1>2, <1>3, StoreAssumption
  <2>3. CASE Min(c) < m /\ Max(c) = m
    BY <2>3, <1>1, <1>2, <1>3, StoreAssumption
  <2>4. CASE Min(c) < m /\ m < Max(c)
    BY <2>4, <1>1, <1>2, <1>3, StoreAssumption
  <2> QED BY <2>0, <2>1, <2>2, <2>3, <2>4, <1>1, <1>2
<1> QED BY <1>1, <1>3, <1>4 DEF GroupOf, Spans

-----------------------------------------------------------------------------
(* What the chunker reads. *)

LEMMA EpisodesAreParts ==
    ASSUME NEW S, NEW e \in Episodes(S)
    PROVE  e \subseteq S /\ e # {}
BY DEF Episodes

LEMMA ReadsAreWaiting ==
    ASSUME ChunkerReads, NEW e \in batch'
    PROVE  \E g \in Groups : e \subseteq InGroup(stored \ chunked', g) /\ e # {}
<1> DEFINE part(g) == Episodes(InGroup(Unchunked(chunked'), g))
<1>1. batch' = UNION {part(g) : g \in Groups}
  BY Zenon DEF ChunkerReads
<1>2. PICK g \in Groups : e \in part(g)
  <2> HIDE DEF part
  <2> QED BY <1>1
<1>3. e \subseteq InGroup(Unchunked(chunked'), g) /\ e # {}
  BY <1>2, EpisodesAreParts
<1> QED BY <1>1, <1>3 DEF InGroup, Unchunked

\* An update by group and id flags the episode's own rows and no other.
LEMMA FlagsItsOwn ==
    ASSUME TypeOK, NEW e \in SUBSET Messages
    PROVE  Flags(e) = stored \cap e
BY StoreAssumption DEF Flags, TypeOK

-----------------------------------------------------------------------------
(* The type invariant. *)

LEMMA TypeInit == Init => TypeOK
<1> SUFFICES ASSUME Init PROVE TypeOK
  OBVIOUS
<1> USE DEF Init
<1>1. optOut \in [Groups -> SUBSET Senders]
  OBVIOUS
<1>2. clock \in 0..MaxTime /\ admin \in 0..MaxAdmin /\ faults \in 0..MaxFaults
  BY StoreAssumption
<1>3. /\ stored = {} /\ chunked = {} /\ chunks = {} /\ registered = Groups
      /\ posting = {} /\ batch = {} /\ expiring = FALSE
      /\ requests = {} /\ toPurge = {} /\ leaving = {}
      /\ erased = {} /\ exposed = FALSE /\ spared = {}
  OBVIOUS
<1> HIDE DEF Init
<1> QED BY <1>1, <1>2, <1>3 DEF TypeOK

LEMMA TypeStep ==
    ASSUME TypeOK, [Next]_vars
    PROVE  TypeOK'
<1> USE StoreAssumption DEF TypeOK, Purges, rows, settings, running, world, history
<1>1. CASE Tick
  BY <1>1 DEF Tick
<1>2. ASSUME NEW m \in Messages, IngestChecks(m)
      PROVE  TypeOK'
  BY <1>2 DEF IngestChecks
<1>3. ASSUME NEW m \in Messages, ImportChecks(m)
      PROVE  TypeOK'
  BY <1>3 DEF ImportChecks
<1>4. ASSUME NEW m \in Messages, Inserts(m)
      PROVE  TypeOK'
  BY <1>4 DEF Inserts
<1>5. CASE ChunkerReads
  <2>1. chunked' \subseteq stored
    BY <1>5 DEF ChunkerReads, Flagged
  <2>2. \A e \in batch' : e \subseteq Messages /\ e # {}
    BY <1>5, ReadsAreWaiting DEF InGroup
  <2> QED BY <1>5, <2>1, <2>2 DEF ChunkerReads
<1>6. CASE ChunkerWrites
  <2>1. PICK e \in batch : /\ batch' = batch \ {e}
                           /\ chunks' = chunks \cup {e}
                           /\ chunked' = chunked \cup Flags(e)
    BY <1>6 DEF ChunkerWrites
  <2>2. Flags(e) \subseteq stored
    BY DEF Flags
  <2>3. chunks' \subseteq SUBSET Messages /\ {} \notin chunks'
    <3>1. e \in SUBSET Messages /\ e # {}
      BY Zenon
    <3> HIDE DEF TypeOK
    <3> QED BY <2>1, <3>1 DEF TypeOK
  <2>4. batch' \subseteq SUBSET Messages /\ {} \notin batch'
    BY <2>1
  <2>5. stored' = stored /\ chunked' \subseteq stored'
    BY <1>6, <2>1, <2>2 DEF ChunkerWrites
  <2> QED BY <1>6, <2>3, <2>4, <2>5 DEF ChunkerWrites
<1>7. CASE ChunkerFails
  BY <1>7 DEF ChunkerFails, Fault
<1>8. CASE RetentionChunks
  BY <1>8 DEF RetentionChunks
<1>9. CASE RetentionMessages
  BY <1>9 DEF RetentionMessages
<1>10. CASE AppliesReads \/ OptOutWrites
  <2>1. CASE AppliesReads
    <3>1. PICK r \in requests : requests' = (requests \ {r}) \cup
              {[r EXCEPT !.compared = TRUE, !.before = optOut[r.group]]}
      BY <2>1 DEF AppliesReads
    <3>2. [r EXCEPT !.compared = TRUE, !.before = optOut[r.group]]
            \in [group : Groups, list : SUBSET Senders,
                 compared : BOOLEAN, before : SUBSET Senders]
      <4>1. r \in [group : Groups, list : SUBSET Senders,
                   compared : BOOLEAN, before : SUBSET Senders]
        OBVIOUS
      <4>2. optOut[r.group] \in SUBSET Senders
        BY <4>1
      <4> HIDE DEF TypeOK
      <4> QED BY <4>1, <4>2
    <3>3. requests' \subseteq [group : Groups, list : SUBSET Senders,
                              compared : BOOLEAN, before : SUBSET Senders]
      BY <3>1, <3>2
    <3> QED BY <2>1, <3>3 DEF AppliesReads
  <2>2. CASE OptOutWrites
    <3>1. PICK r \in requests :
            /\ requests' = requests \ {r}
            /\ optOut' = [optOut EXCEPT ![r.group] = r.list]
            /\ toPurge' = toPurge \cup ({r.group} \X (r.list \ r.before))
            /\ spared' = (spared \ ByAny(Messages, r.group, r.list \ r.before))
                  \cup ByAny(posting, r.group, r.list)
                  \cup ByAny(stored, r.group, r.before \cap (r.list \ optOut[r.group]))
      BY <2>2 DEF OptOutWrites
    <3>2. r.group \in Groups /\ r.list \subseteq Senders
      OBVIOUS
    <3>3. optOut' \in [Groups -> SUBSET Senders]
      BY <3>1, <3>2
    <3>4. toPurge' \subseteq Groups \X Senders
      BY <3>1, <3>2
    <3>5. spared' \subseteq Messages
      BY <3>1 DEF ByAny, InGroup
    <3> QED BY <2>2, <3>1, <3>3, <3>4, <3>5 DEF OptOutWrites
  <2> QED BY <1>10, <2>1, <2>2
<1>11. CASE Crash
  <2>1. /\ posting' = {} /\ batch' = {} /\ expiring' = FALSE
        /\ requests' = {} /\ toPurge' = {} /\ leaving' = {}
    BY <1>11 DEF Crash
  <2>2. /\ stored' = stored /\ chunked' = chunked /\ chunks' = chunks
        /\ registered' = registered /\ optOut' = optOut /\ clock' = clock
        /\ admin' = admin /\ erased' = erased /\ exposed' = exposed
        /\ faults' \in 0..MaxFaults
    BY <1>11 DEF Crash, Fault
  <2>3. spared' \subseteq Messages
    BY <1>11 DEF Crash
  <2> QED BY <2>1, <2>2, <2>3
<1>12. ASSUME NEW g \in Groups, PurgeGroupMessages(g)
       PROVE  TypeOK'
  BY <1>12 DEF PurgeGroupMessages, Request, Erases, InGroup, ChunksOf
<1>13. ASSUME NEW g \in Groups, Reembed(g)
       PROVE  TypeOK'
  BY <1>13 DEF Reembed, Request, ChunksOf
<1>14. ASSUME NEW g \in Groups, AddGroup(g)
       PROVE  TypeOK'
  BY <1>14 DEF AddGroup
<1>15. ASSUME NEW g \in Groups, PurgeGroup(g)
       PROVE  TypeOK'
  BY <1>15 DEF PurgeGroup, Request, Erases, InGroup, ChunksOf
<1>16. ASSUME NEW g \in Groups, DeleteGroup(g)
       PROVE  TypeOK'
  BY <1>16 DEF DeleteGroup
<1>17. ASSUME NEW g \in Groups, NEW s \in Senders, AsksToErase(g, s)
       PROVE  TypeOK'
  BY <1>17 DEF AsksToErase, Request
<1>18. ASSUME NEW g \in Groups, NEW s \in Senders, PurgeSender(g, s)
       PROVE  TypeOK'
  BY <1>18 DEF PurgeSender, Erases, By, ByAny, InGroup
<1>19. ASSUME NEW g \in Groups, NEW list \in SUBSET Senders, Brings(g, list)
       PROVE  TypeOK'
  <2>1. [group |-> g, list |-> list, compared |-> FALSE, before |-> {}]
            \in [group : Groups, list : SUBSET Senders,
                 compared : BOOLEAN, before : SUBSET Senders]
    OBVIOUS
  <2>2. requests' \subseteq [group : Groups, list : SUBSET Senders,
                            compared : BOOLEAN, before : SUBSET Senders]
    BY <1>19, <2>1 DEF Brings
  <2> QED BY <1>19, <2>2 DEF Brings, Request
<1>20. CASE UNCHANGED vars
  BY <1>20 DEF vars
<1>21. \A g \in Groups : {Sender(m) : m \in InGroup(Messages, g)} \subseteq Senders
  BY DEF Senders, InGroup
<1>22. ASSUME NEW g \in Groups,
              \/ \E s \in Senders : OptOutReads(g, s)
              \/ \E list \in Lists : SavesList(g, list)
       PROVE  \E list \in SUBSET Senders : Brings(g, list)
  BY <1>22 DEF OptOutReads, SavesList
<1> HIDE DEF TypeOK
<1> QED
  BY <1>1, <1>2, <1>3, <1>4, <1>5, <1>6, <1>7, <1>8, <1>9, <1>10, <1>11, <1>12,
     <1>13, <1>14, <1>15, <1>16, <1>17, <1>18, <1>19, <1>20, <1>21, <1>22 DEF Next

-----------------------------------------------------------------------------
(* The steps, sorted by what they do to messages, chunks and episodes. *)

\* Nothing but the clock, and episodes dropped.
Quiet ==
    /\ UNCHANGED <<stored, chunked, chunks, erased, exposed>>
    /\ batch' \subseteq batch
    /\ clock' >= clock

\* A whole group is erased.
WholeGroup(g) ==
    /\ chunks' = chunks \ ChunksOf(g)
    /\ stored' = stored \ InGroup(stored, g)
    /\ chunked' = chunked \ InGroup(stored, g)
    /\ Erases(InGroup(Messages, g))
    /\ UNCHANGED <<batch, clock>>

LEMMA StepKinds ==
    ASSUME TypeOK, [Next]_vars
    PROVE  \/ Quiet
           \/ \E m \in Messages : Inserts(m)
           \/ ChunkerReads
           \/ ChunkerWrites
           \/ RetentionChunks
           \/ RetentionMessages
           \/ \E g \in Groups : WholeGroup(g) \/ Reembed(g)
           \/ \E g \in Groups, s \in Senders : PurgeSender(g, s)
<1> USE DEF rows, settings, running, world, history, Quiet
<1>0. clock \in Int
  BY StoreAssumption DEF TypeOK
<1>1. ASSUME \/ Tick \/ ChunkerFails \/ Crash \/ UNCHANGED vars
             \/ \E m \in Messages : IngestChecks(m) \/ ImportChecks(m)
      PROVE  Quiet
  BY <1>0, <1>1 DEF Tick, ChunkerFails, Crash, vars, IngestChecks, ImportChecks
<1>5. ASSUME AppliesReads \/ OptOutWrites
      PROVE  Quiet
  <2>1. CASE AppliesReads
    BY <1>0, <2>1 DEF AppliesReads
  <2>2. CASE OptOutWrites
    BY <1>0, <2>2 DEF OptOutWrites
  <2> QED BY <1>5, <2>1, <2>2
<1>2. ASSUME NEW g \in Groups,
             \/ AddGroup(g) \/ DeleteGroup(g)
             \/ \E s \in Senders : AsksToErase(g, s) \/ OptOutReads(g, s)
             \/ \E list \in Lists : SavesList(g, list)
      PROVE  Quiet
  BY <1>0, <1>2 DEF AddGroup, DeleteGroup, AsksToErase, OptOutReads, SavesList, Brings
<1>3. ASSUME NEW g \in Groups, PurgeGroupMessages(g) \/ PurgeGroup(g)
      PROVE  WholeGroup(g)
  BY <1>3 DEF PurgeGroupMessages, PurgeGroup, WholeGroup
<1>4. \A g \in Groups : {Sender(m) : m \in InGroup(Messages, g)} \subseteq Senders
  BY DEF Senders, InGroup
<1> HIDE DEF Quiet
<1> QED BY <1>1, <1>2, <1>3, <1>4, <1>5 DEF Next

-----------------------------------------------------------------------------
(* What is held. *)

\* Only the chunker's reading brings episodes, and only they become chunks.
LEMMA BatchComesFromReading ==
    ASSUME TypeOK, [Next]_vars, ~ChunkerReads
    PROVE  batch' \subseteq batch /\ chunks' \subseteq chunks \cup batch
<1>1. CASE Quiet \/ \E k \in Messages : Inserts(k)
  BY <1>1 DEF Quiet, Inserts
<1>2. CASE ChunkerWrites
  BY <1>2 DEF ChunkerWrites
<1>3. CASE RetentionChunks \/ RetentionMessages
  BY <1>3 DEF RetentionChunks, RetentionMessages
<1>4. CASE \E g \in Groups : WholeGroup(g) \/ Reembed(g)
  BY <1>4 DEF WholeGroup, Reembed, running
<1>5. CASE \E g \in Groups, s \in Senders : PurgeSender(g, s)
  BY <1>5 DEF PurgeSender
<1> QED BY <1>1, <1>2, <1>3, <1>4, <1>5, StepKinds

LEMMA HeldComesFromReading ==
    ASSUME TypeOK, [Next]_vars, NEW c \in Held'
    PROVE  c \in Held \/ (ChunkerReads /\ c \in batch')
<1>1. CASE ChunkerReads
  BY <1>1 DEF ChunkerReads, Held
<1>2. CASE ~ChunkerReads
  BY <1>2, BatchComesFromReading DEF Held
<1> QED BY <1>1, <1>2

LEMMA OneGroupStep ==
    ASSUME TypeOK, OneGroup, [Next]_vars
    PROVE  OneGroup'
<1> SUFFICES ASSUME NEW c \in Held', NEW m \in c, NEW n \in c
             PROVE  Group(m) = Group(n)
  BY DEF OneGroup
<1>1. CASE c \in Held
  BY <1>1 DEF OneGroup
<1>2. CASE ChunkerReads /\ c \in batch'
  BY <1>2, ReadsAreWaiting DEF InGroup
<1>3. c \in Held \/ (ChunkerReads /\ c \in batch')
  BY HeldComesFromReading
<1> QED BY <1>1, <1>2, <1>3

LEMMA ErasedGoneStep ==
    ASSUME TypeOK, ErasedGone, [Next]_vars
    PROVE  ErasedGone'
<1> USE DEF ErasedGone, history, rows
<1>1. CASE Quiet \/ \E m \in Messages : Inserts(m)
  BY <1>1 DEF Quiet, Inserts
<1>2. CASE ChunkerReads \/ ChunkerWrites
  BY <1>2 DEF ChunkerReads, ChunkerWrites
<1>3. CASE RetentionChunks \/ RetentionMessages
  BY <1>3 DEF RetentionChunks, RetentionMessages
<1>4. CASE \E g \in Groups : WholeGroup(g) \/ Reembed(g)
  BY <1>4 DEF WholeGroup, Reembed, Erases, InGroup
<1>5. CASE \E g \in Groups, s \in Senders : PurgeSender(g, s)
  BY <1>5 DEF PurgeSender, Erases, By, ByAny, InGroup
<1> QED BY <1>1, <1>2, <1>3, <1>4, <1>5, StepKinds

\* An erasure finds every chunk that holds a word of the member's, because the
\* messages it was built from are still there to be found.
LEMMA AffectedHoldsAll ==
    ASSUME TypeOK, OneGroup, NEW g \in Groups, NEW s \in Senders,
           NEW c \in chunks, NEW m \in c, m \in By(stored, g, s)
    PROVE  c \in Affected(g, s)
<1>1. c \in SUBSET Messages /\ c # {} /\ \A i, j \in c : Group(i) = Group(j)
  BY DEF TypeOK, OneGroup, Held
<1>2. GroupOf(c) = Group(m) /\ Spans(c, m)
  BY <1>1, SpansItsOwn
<1> QED BY <1>2 DEF Affected, ChunksOf, By, ByAny, InGroup

LEMMA WordsStoredStep ==
    ASSUME TypeOK, OneGroup, WordsStored, [Next]_vars
    PROVE  WordsStored'
<1> SUFFICES ASSUME ~exposed', NEW c \in Held'
             PROVE  c \subseteq stored'
  BY DEF WordsStored
<1> USE DEF Held, history, rows
<1>1. CASE Quiet \/ \E m \in Messages : Inserts(m)
  BY <1>1 DEF Quiet, Inserts, WordsStored
<1>2. CASE ChunkerReads
  BY <1>2, ReadsAreWaiting DEF ChunkerReads, InGroup, WordsStored
<1>3. CASE ChunkerWrites
  BY <1>3 DEF ChunkerWrites, WordsStored
<1>4. CASE RetentionChunks
  BY <1>4 DEF RetentionChunks, WordsStored
<1>5. CASE RetentionMessages
  BY <1>5 DEF RetentionMessages, WordsStored
<1>6. ASSUME NEW g \in Groups, Reembed(g)
      PROVE  c \subseteq stored'
  BY <1>6 DEF Reembed, running, WordsStored
<1>7. ASSUME NEW g \in Groups, WholeGroup(g)
      PROVE  c \subseteq stored'
  <2>1. CASE c \in batch
    BY <1>7, <2>1 DEF WholeGroup, Erases, WordsStored, InGroup, TypeOK
  <2>2. CASE c \in chunks \ ChunksOf(g)
    <3>1. c \in SUBSET Messages /\ c # {} /\ \A i, j \in c : Group(i) = Group(j)
      BY <2>2 DEF TypeOK, OneGroup
    <3>2. \A m \in c : Group(m) # g
      BY <2>2, <3>1, SpansItsOwn DEF ChunksOf
    <3> QED BY <1>7, <2>2, <3>2 DEF WholeGroup, Erases, WordsStored, InGroup
  <2> QED BY <1>7, <2>1, <2>2 DEF WholeGroup
<1>8. ASSUME NEW g \in Groups, NEW s \in Senders, PurgeSender(g, s)
      PROVE  c \subseteq stored'
  <2>1. CASE c \in batch
    BY <1>8, <2>1 DEF PurgeSender, Erases, WordsStored, By, ByAny, InGroup, TypeOK
  <2>2. CASE c \in chunks \ Affected(g, s)
    BY <1>8, <2>2, AffectedHoldsAll DEF PurgeSender, Erases, WordsStored
  <2> QED BY <1>8, <2>1, <2>2 DEF PurgeSender
<1> QED BY <1>1, <1>2, <1>3, <1>4, <1>5, <1>6, <1>7, <1>8, StepKinds

-----------------------------------------------------------------------------
(* The index. *)

\* In a chunk, unless it needs none or is old: what Indexed says of a message.
InIndex(m) ==
    \/ Sent[m].skip
    \/ Old(Group(m), Ts(m))
    \/ \E c \in chunks : m \in c

LEMMA OldStaysOld ==
    ASSUME NEW m \in Messages, clock \in Nat, clock' \in Nat, clock' >= clock,
           Old(Group(m), Ts(m))
    PROVE  Old(Group(m), Ts(m))'
<1>1. Ts(m) \in Nat /\ Days \in Nat
  BY StoreAssumption
<1>2. Ts(m) < clock - Days => Ts(m) < clock' - Days
  BY <1>1
<1>3. Ts(m)' = Ts(m) /\ Group(m)' = Group(m)
  BY DEF Ts, Group
<1> QED BY <1>2, <1>3 DEF Old

LEMMA IndexedStep ==
    ASSUME TypeOK, OneGroup, Indexed, [Next]_vars
    PROVE  Indexed'
<1> SUFFICES ASSUME NEW m \in chunked'
             PROVE  InIndex(m)'
  BY DEF Indexed, InIndex
<1> USE DEF rows, history
<1>1. TypeOK' /\ m \in Messages /\ clock \in Nat /\ clock' \in Nat
  BY TypeStep, StoreAssumption DEF TypeOK
<1>2. m \in chunked => InIndex(m)
  BY DEF Indexed, InIndex
<1>3. ASSUME clock' >= clock, m \in chunked, chunks \subseteq chunks'
      PROVE  InIndex(m)'
  BY <1>1, <1>2, <1>3, OldStaysOld DEF InIndex
<1>4. ASSUME NEW c \in chunks, m \in c
      PROVE  /\ GroupOf(c) = Group(m) /\ Spans(c, m)
             /\ Ts(m) <= Ts(Max(c)) /\ Ts(m) \in Nat /\ Ts(Max(c)) \in Nat
  <2>1. c \in SUBSET Messages /\ c # {} /\ \A i, j \in c : Group(i) = Group(j)
    BY DEF TypeOK, OneGroup, Held
  <2> QED BY <1>4, <2>1, SpansItsOwn
<1>5. CASE Quiet
  BY <1>3, <1>5 DEF Quiet
<1>6. CASE \E k \in Messages : Inserts(k)
  BY <1>1, <1>3, <1>6 DEF Inserts, world
<1>7. CASE ChunkerReads
  <2>1. CASE m \in chunked
    BY <1>1, <1>3, <1>7, <2>1 DEF ChunkerReads, world
  <2>2. CASE m \in stored /\ Sent[m].skip
    BY <2>2 DEF InIndex
  <2> QED BY <1>7, <2>1, <2>2 DEF ChunkerReads, Flagged
<1>8. CASE ChunkerWrites
  <2>1. PICK e \in batch : chunks' = chunks \cup {e} /\ chunked' = chunked \cup Flags(e)
    BY <1>8 DEF ChunkerWrites
  <2>2. CASE m \in chunked
    BY <1>1, <1>3, <1>8, <2>1, <2>2 DEF ChunkerWrites, world
  <2>3. CASE m \in Flags(e)
    <3>1. m \in e
      BY <2>3, FlagsItsOwn DEF TypeOK
    <3> QED BY <2>1, <3>1 DEF InIndex
  <2> QED BY <2>1, <2>2, <2>3
<1>9. CASE RetentionChunks
  <2>1. clock' = clock /\ chunked' = chunked
    BY <1>9 DEF RetentionChunks, world
  <2>2. ASSUME NEW c \in chunks, m \in c, c \notin chunks'
        PROVE  Old(Group(m), Ts(m))
    <3>1. Old(GroupOf(c), Ts(Max(c)))
      BY <1>9, <2>2 DEF RetentionChunks, Expired
    <3>2. Ts(m) < clock - Days
      BY <1>1, <1>4, <2>2, <3>1, StoreAssumption DEF Old
    <3> QED BY <1>4, <2>2, <3>1, <3>2 DEF Old
  <2>3. Old(Group(m), Ts(m)) => Old(Group(m), Ts(m))'
    BY <1>1, <2>1, OldStaysOld
  <2> QED BY <1>2, <2>1, <2>2, <2>3 DEF InIndex
<1>10. CASE RetentionMessages
  BY <1>1, <1>3, <1>10 DEF RetentionMessages, world
<1>11. ASSUME NEW g \in Groups, WholeGroup(g) \/ Reembed(g)
       PROVE  InIndex(m)'
  <2>1. /\ clock' = clock /\ m \in chunked /\ Group(m) # g
        /\ chunks' = chunks \ ChunksOf(g)
    BY <1>1, <1>11 DEF WholeGroup, Reembed, InGroup, TypeOK
  <2>2. \A c \in chunks : m \in c => c \in chunks'
    BY <1>4, <2>1 DEF ChunksOf
  <2> QED BY <1>1, <1>2, <2>1, <2>2, OldStaysOld DEF InIndex
<1>12. ASSUME NEW g \in Groups, NEW s \in Senders, PurgeSender(g, s)
       PROVE  InIndex(m)'
  <2>1. /\ clock' = clock /\ m \in chunked /\ m \notin Unflags(g, s)
        /\ chunks' = chunks \ Affected(g, s)
    BY <1>12 DEF PurgeSender, world
  <2>2. ASSUME NEW c \in chunks, m \in c, c \in Affected(g, s)
        PROVE  FALSE
    <3>1. Group(m) = g /\ Spans(c, m)
      BY <1>4, <2>2 DEF Affected, ChunksOf
    <3> QED BY <2>1, <2>2, <3>1 DEF Unflags, InGroup, TypeOK
  <2> QED BY <1>1, <1>2, <2>1, <2>2, OldStaysOld DEF InIndex
<1> QED
  BY <1>5, <1>6, <1>7, <1>8, <1>9, <1>10, <1>11, <1>12, StepKinds

-----------------------------------------------------------------------------
(* Episodes.  Firsts is recursive along the messages of a group; what one    *)
(* step of the recursion computes has a name here, and induction is the      *)
(* search for a least message without the property.                          *)

Prev(S, m) == Max({n \in S : n < m})
Upto(f, S, m) == {n \in S : f[m] <= n /\ n <= m}

Begins(f, S, m) ==
    \/ \A n \in S : n >= m
    \/ Ts(m) - Ts(Prev(S, m)) > Gap
    \/ Full(Upto(f, S, Prev(S, m)))

FirstOf(f, S, m) == IF Begins(f, S, m) THEN m ELSE f[Prev(S, m)]
IsFirsts(f, S) == f = [m \in S |-> FirstOf(f, S, m)]

LEMMA FirstsDefined ==
    ASSUME NEW S
    PROVE  Firsts(S) = CHOOSE f : IsFirsts(f, S)
BY DEF Firsts, IsFirsts, FirstOf, Begins, Upto, Prev

LEMMA PrevIsBefore ==
    ASSUME NEW S \in SUBSET Messages, NEW m \in S, ~\A n \in S : n >= m
    PROVE  /\ Prev(S, m) \in S /\ Prev(S, m) < m
           /\ \A n \in S : n < m => n <= Prev(S, m)
<1> DEFINE T == {n \in S : n < m}
<1>0. S \subseteq Int /\ S \subseteq 0..Len(Sent) /\ m \in Int
  BY MessagesAreNumbers
<1>1. T # {} /\ T \in SUBSET (0..Len(Sent)) /\ T \subseteq Int
  <2>1. PICK n \in S : ~(n >= m)
    OBVIOUS
  <2>2. n \in T
    BY <1>0, <2>1
  <2> QED BY <1>0, <2>2
<1>2. Max(T) \in T /\ \A n \in T : Max(T) >= n
  BY <1>1, MaxIsGreatest, MessagesAreNumbers
<1>3. \A n \in T : n <= Max(T)
  BY <1>1, <1>2
<1>4. Prev(S, m) = Max(T)
  BY DEF Prev
<1> HIDE DEF T
<1> QED
  <2>1. Max(T) \in S /\ Max(T) < m
    BY <1>2 DEF T
  <2>2. \A n \in S : n < m => n <= Max(T)
    BY <1>3 DEF T
  <2> QED BY <1>4, <2>1, <2>2

LEMMA FirstOfSame ==
    ASSUME NEW S \in SUBSET Messages, NEW m \in S, NEW f, NEW g,
           \A n \in S : n < m => f[n] = g[n]
    PROVE  FirstOf(f, S, m) = FirstOf(g, S, m)
<1>1. CASE \A n \in S : n >= m
  BY <1>1 DEF FirstOf, Begins
<1>2. CASE ~\A n \in S : n >= m
  <2>1. f[Prev(S, m)] = g[Prev(S, m)]
    BY <1>2, PrevIsBefore
  <2> QED BY <2>1 DEF FirstOf, Begins, Upto
<1> QED BY <1>1, <1>2

\* The recursion is well founded: such a function there is.
LEMMA FirstsExist ==
    ASSUME NEW S \in SUBSET Messages
    PROVE  \E f : IsFirsts(f, S)
<1> DEFINE Sofar(f, k) == \A m \in S : m <= k => f[m] = FirstOf(f, S, m)
           Bad == {k \in Nat : ~\E f \in [S -> S] : Sofar(f, k)}
<1>0. S \subseteq Nat /\ 0 \notin S /\ \A m \in S : m <= Len(Sent)
  BY MessagesAreNumbers DEF Messages
<1>1. ASSUME NEW f \in [S -> S], NEW m \in S
      PROVE  FirstOf(f, S, m) \in S
  BY PrevIsBefore DEF FirstOf, Begins
<1>2. ASSUME Bad # {}
      PROVE  FALSE
  <2> DEFINE k == Min(Bad)
  <2>1. k \in Bad /\ \A j \in Bad : k <= j
    BY <1>2, MinIsLeast
  <2> HIDE DEF k
  <2>2. k # 0
    <3> DEFINE f == [m \in S |-> m]
    <3>1. f \in [S -> S]
      OBVIOUS
    <3>2. Sofar(f, 0)
      BY <1>0
    <3> QED BY <2>1, <3>1, <3>2
  <2>3. k - 1 \in Nat /\ k - 1 \notin Bad
    BY <2>1, <2>2
  <2>4. PICK f \in [S -> S] : Sofar(f, k - 1)
    BY <2>3
  <2> DEFINE g == [n \in S |-> IF n < k THEN f[n] ELSE FirstOf(f, S, n)]
  <2>5. g \in [S -> S]
    BY <1>1
  <2>6. ASSUME NEW m \in S, m <= k
        PROVE  g[m] = FirstOf(g, S, m)
    <3>0. m \in Nat /\ k \in Nat
      BY <1>0, <2>1
    <3>1. \A n \in S : n < m => f[n] = g[n]
      BY <1>0, <2>6, <3>0
    <3>2. FirstOf(f, S, m) = FirstOf(g, S, m)
      BY <3>1, FirstOfSame
    <3>3. m < k => f[m] = FirstOf(f, S, m)
      BY <2>4, <3>0
    <3>4. g[m] = FirstOf(f, S, m)
      BY <3>3
    <3> QED BY <3>2, <3>4
  <2>7. Sofar(g, k)
    BY <2>6
  <2> QED BY <2>1, <2>5, <2>7
<1>3. PICK f \in [S -> S] : Sofar(f, Len(Sent))
  BY <1>2, MessagesAreNumbers
<1>4. f = [m \in S |-> FirstOf(f, S, m)]
  BY <1>0, <1>3
<1> QED BY <1>4 DEF IsFirsts

LEMMA FirstsFollow ==
    ASSUME NEW S \in SUBSET Messages
    PROVE  \A m \in S : Firsts(S)[m] = FirstOf(Firsts(S), S, m)
<1>1. IsFirsts(Firsts(S), S)
  BY FirstsDefined, FirstsExist
<1> QED BY <1>1 DEF IsFirsts

\* The episode of a message so far is a stretch of its group and within the
\* limit.
Stretch(f, S, m) ==
    /\ f[m] \in S /\ f[m] <= m
    /\ \A n \in Upto(f, S, m) : f[n] = f[m]
    /\ Cardinality(Upto(f, S, m)) <= MaxMessages

LEMMA PartsAreFinite ==
    ASSUME NEW S \in SUBSET Messages
    PROVE  IsFiniteSet(S) /\ Cardinality(S) \in Nat
<1>1. IsFiniteSet(Messages)
  <2>1. Len(Sent) \in Int /\ 1 \in Int
    BY StoreAssumption
  <2> QED BY <2>1, FS_Interval DEF Messages
<1>2. IsFiniteSet(S)
  BY <1>1, FS_Subset
<1> QED BY <1>2, FS_CardinalityType

LEMMA StretchGrows ==
    ASSUME NEW S \in SUBSET Messages, NEW f, NEW m \in S,
           f[m] = FirstOf(f, S, m),
           \A n \in S : n < m => Stretch(f, S, n)
    PROVE  Stretch(f, S, m)
<1>0. S \subseteq Nat /\ MaxMessages \in Nat \ {0} /\ m \in Nat
  BY MessagesAreNumbers, StoreAssumption DEF Messages
<1>1. CASE Begins(f, S, m)
  <2>1. f[m] = m
    BY <1>1 DEF FirstOf
  <2>2. \A n \in S : f[m] <= n /\ n <= m <=> n = m
    BY <1>0, <2>1
  <2>3. Upto(f, S, m) = {m}
    BY <2>2 DEF Upto
  <2>4. Cardinality({m}) = 1
    BY FS_Singleton
  <2> QED BY <1>0, <2>1, <2>3, <2>4 DEF Stretch
<1>2. CASE ~Begins(f, S, m)
  <2>0. ~\A n \in S : n >= m
    BY <1>2 DEF Begins
  <2>1. PICK p \in S : p = Prev(S, m) /\ p < m /\ \A n \in S : n < m => n <= p
    BY <2>0, PrevIsBefore
  <2>2. f[m] = f[p] /\ ~Full(Upto(f, S, p))
    BY <1>2, <2>1 DEF FirstOf, Begins
  <2>3. Stretch(f, S, p)
    BY <2>1
  <2>4. f[m] \in S /\ f[m] <= p /\ f[m] <= m
    <3>1. f[m] \in S /\ f[m] <= p
      BY <2>2, <2>3 DEF Stretch
    <3>2. f[m] \in Nat /\ p \in Nat /\ m \in Nat
      BY <1>0, <3>1
    <3>3. p < m
      BY <2>1
    <3>4. f[m] <= m
      BY <3>1, <3>2, <3>3
    <3> QED BY <3>1, <3>4
  <2>5. Upto(f, S, m) = Upto(f, S, p) \cup {m} /\ m \notin Upto(f, S, p)
    <3>1. \A n \in S : f[m] <= n /\ n <= m <=> (f[m] <= n /\ n <= p) \/ n = m
      BY <1>0, <2>1, <2>4
    <3>2. ~(m <= p)
      BY <1>0, <2>1
    <3> QED BY <2>2, <3>1, <3>2 DEF Upto
  <2>6. IsFiniteSet(Upto(f, S, p)) /\ Cardinality(Upto(f, S, p)) \in Nat
    <3>1. Upto(f, S, p) \in SUBSET Messages
      BY DEF Upto
    <3> QED BY <3>1, PartsAreFinite
  <2>7. Cardinality(Upto(f, S, p)) + 1 <= MaxMessages
    BY <1>0, <2>2, <2>6 DEF Full
  <2>8. Cardinality(Upto(f, S, m)) = Cardinality(Upto(f, S, p)) + 1
    BY <2>5, <2>6, FS_AddElement
  <2>9. \A n \in Upto(f, S, m) : f[n] = f[m]
    BY <2>2, <2>3, <2>5 DEF Stretch
  <2> QED BY <2>4, <2>7, <2>8, <2>9 DEF Stretch
<1> QED BY <1>1, <1>2

LEMMA FirstsStretch ==
    ASSUME NEW S \in SUBSET Messages
    PROVE  \A m \in S : Stretch(Firsts(S), S, m)
<1> DEFINE Bad == {m \in S : ~Stretch(Firsts(S), S, m)}
<1> SUFFICES ASSUME Bad # {} PROVE FALSE
  OBVIOUS
<1>0. S \subseteq Nat
  BY MessagesAreNumbers DEF Messages
<1>1. PICK m \in Bad : \A n \in Bad : m <= n
  BY <1>0, MinIsLeast
<1>2. \A n \in S : n < m => Stretch(Firsts(S), S, n)
  BY <1>0, <1>1
<1> QED BY <1>1, <1>2, FirstsFollow, StretchGrows

\* An episode is everything between its first message and its last.
LEMMA EpisodeIsStretch ==
    ASSUME NEW S \in SUBSET Messages, NEW e \in Episodes(S)
    PROVE  LET f == Firsts(S) IN
           /\ e \in SUBSET Messages /\ e \subseteq S /\ e # {}
           /\ Min(e) \in e /\ \A n \in e : Min(e) <= n
           /\ Max(e) \in e /\ \A n \in e : Max(e) >= n
           /\ e = {n \in S : f[n] = Min(e)}
           /\ e = Upto(f, S, Max(e))
<1> DEFINE f == Firsts(S)
<1>f. \A m \in S : Stretch(f, S, m)
  BY FirstsStretch
<1>1. PICK a \in S : e = {n \in S : f[n] = a}
  BY DEF Episodes
<1> HIDE DEF f
<1>0. S \subseteq Nat /\ S \subseteq 0..Len(Sent)
  BY MessagesAreNumbers DEF Messages
<1>2. e \in SUBSET Messages /\ e \subseteq S /\ e # {}
  BY <1>1, EpisodesAreParts
<1>3. Min(e) \in e /\ \A n \in e : Min(e) <= n
  BY <1>0, <1>2, MinIsLeast
<1>4. Max(e) \in e /\ \A n \in e : Max(e) >= n
  BY <1>0, <1>2, MaxIsGreatest, MessagesAreNumbers
<1>5. f[a] = a
  <2>1. Min(e) \in S /\ f[Min(e)] = a /\ Stretch(f, S, Min(e))
    BY <1>1, <1>3, <1>f
  <2>2. a <= Min(e)
    BY <2>1 DEF Stretch
  <2>3. a \in Nat /\ a <= a
    BY <1>0
  <2>4. a \in Upto(f, S, Min(e))
    BY <2>1, <2>2, <2>3 DEF Upto
  <2> QED BY <2>1, <2>4 DEF Stretch
<1>6. Min(e) = a
  <2>1. a \in e /\ Min(e) <= a
    BY <1>1, <1>3, <1>5
  <2>2. f[Min(e)] = a /\ Stretch(f, S, Min(e))
    BY <1>1, <1>3, <1>f
  <2>3. a <= Min(e)
    BY <2>2 DEF Stretch
  <2>4. a \in Nat /\ Min(e) \in Nat
    BY <1>0, <1>2, <1>3
  <2> QED BY <2>1, <2>3, <2>4
<1>7. ASSUME NEW n \in S
      PROVE  f[n] = a <=> f[Max(e)] <= n /\ n <= Max(e)
  <2>1. f[Max(e)] = a /\ Stretch(f, S, Max(e))
    BY <1>1, <1>4, <1>f
  <2>2. ASSUME f[n] = a
        PROVE  f[Max(e)] <= n /\ n <= Max(e)
    <3>1. n \in e /\ Max(e) >= n
      BY <1>1, <1>4, <2>2
    <3>2. a <= n
      BY <1>3, <1>6, <3>1
    <3>3. n \in Nat /\ Max(e) \in Nat
      BY <1>0, <1>2, <1>4
    <3> QED BY <2>1, <3>1, <3>2, <3>3
  <2>3. ASSUME f[Max(e)] <= n, n <= Max(e)
        PROVE  f[n] = a
    <3>1. n \in Upto(f, S, Max(e))
      BY <2>3 DEF Upto
    <3> QED BY <2>1, <3>1 DEF Stretch
  <2> QED BY <2>2, <2>3
<1>8. e = Upto(f, S, Max(e))
  BY <1>1, <1>7 DEF Upto
<1>9. e = {n \in S : f[n] = Min(e)}
  BY <1>1, <1>6
<1> QED BY <1>2, <1>3, <1>4, <1>8, <1>9 DEF f

LEMMA EpisodesAreEpisodes ==
    ASSUME NEW S \in SUBSET Messages, \A m, n \in S : Group(m) = Group(n),
           NEW e \in Episodes(S)
    PROVE  IsEpisode(e)
<1> DEFINE f == Firsts(S)
<1>1. /\ e \subseteq S /\ Min(e) \in e /\ Max(e) \in e
      /\ e = {n \in S : f[n] = Min(e)} /\ e = Upto(f, S, Max(e))
  BY EpisodeIsStretch
<1>2. Cardinality(e) <= MaxMessages
  <2>1. Stretch(f, S, Max(e))
    BY <1>1, FirstsStretch
  <2> QED BY <1>1, <2>1 DEF Stretch
<1>3. \A m \in e : Group(m) = GroupOf(e)
  BY <1>1 DEF GroupOf
<1>4. ASSUME NEW m \in e, m # Min(e)
      PROVE  \E n \in e : n < m /\ Ts(m) - Ts(n) <= Gap
  <2>1. m \in S /\ f[m] = Min(e) /\ f[m] = FirstOf(f, S, m)
    BY <1>1, FirstsFollow
  <2>2. ~Begins(f, S, m)
    BY <1>4, <2>1 DEF FirstOf
  <2>3. Prev(S, m) \in S /\ Prev(S, m) < m
    BY <2>1, <2>2, PrevIsBefore DEF Begins
  <2>4. f[Prev(S, m)] = Min(e)
    BY <2>1, <2>2 DEF FirstOf
  <2>5. Prev(S, m) \in e
    BY <1>1, <2>3, <2>4
  <2>6. Ts(m) \in Nat /\ Ts(Prev(S, m)) \in Nat /\ Gap \in Nat
    BY <2>1, <2>3, StoreAssumption
  <2>7. ~(Ts(m) - Ts(Prev(S, m)) > Gap)
    BY <2>2 DEF Begins
  <2>8. Ts(m) - Ts(Prev(S, m)) <= Gap
    BY <2>6, <2>7
  <2> QED BY <2>3, <2>5, <2>8
<1> QED BY <1>2, <1>3, <1>4 DEF IsEpisode

\* What follows an episode that is not full follows it after a silence.
LEMMA SilenceFollows ==
    ASSUME NEW S \in SUBSET Messages, \A m, n \in S : Group(m) = Group(n),
           NEW e \in Episodes(S), Cardinality(e) < MaxMessages,
           NEW m \in S, m > Max(e)
    PROVE  Ts(m) - Ts(Max(e)) > Gap
<1> DEFINE f == Firsts(S)
           Later == {n \in S : n > Max(e)}
<1>0. S \subseteq Nat
  BY MessagesAreNumbers DEF Messages
<1>1. /\ e \subseteq S /\ Max(e) \in e /\ \A n \in e : Max(e) >= n
      /\ e = {n \in S : f[n] = Min(e)} /\ e = Upto(f, S, Max(e))
  BY EpisodeIsStretch
<1>2. PICK q \in Later : \A n \in Later : q <= n
  <2>1. Later \in SUBSET Nat /\ Later # {}
    BY <1>0
  <2> QED BY <2>1, MinIsLeast
<1>3. q \in S /\ q \in Nat /\ Max(e) \in S /\ Max(e) \in Nat /\ q > Max(e) /\ q <= m
  BY <1>0, <1>1, <1>2
<1> HIDE DEF f
<1>4. Prev(S, q) = Max(e)
  <2>1. ~\A n \in S : n >= q
    BY <1>3
  <2>2. /\ Prev(S, q) \in S /\ Prev(S, q) < q
        /\ \A n \in S : n < q => n <= Prev(S, q)
    BY <1>3, <2>1, PrevIsBefore
  <2>3. Max(e) <= Prev(S, q)
    BY <1>3, <2>2
  <2>4. Prev(S, q) \in Nat
    BY <1>0, <2>2
  <2>5. ~(Prev(S, q) > Max(e))
    <3>1. Prev(S, q) < q
      BY <2>2
    <3>2. ~(q <= Prev(S, q))
      BY <1>3, <2>4, <3>1
    <3>3. Prev(S, q) \notin Later
      BY <1>2, <3>2
    <3> QED BY <2>2, <3>3
  <2> QED BY <1>3, <2>3, <2>4, <2>5
<1>5. Begins(f, S, q)
  <2>1. f[q] = FirstOf(f, S, q)
    BY <1>3, FirstsFollow DEF f
  <2>2. q \notin e
    <3>1. ~(Max(e) >= q)
      BY <1>3
    <3> QED BY <1>1, <3>1
  <2>3. f[q] # Min(e) /\ f[Max(e)] = Min(e)
    BY <1>1, <1>3, <2>2
  <2> QED BY <1>4, <2>1, <2>3 DEF FirstOf
<1>6. ~Full(Upto(f, S, Prev(S, q)))
  <2>1. Cardinality(e) \in Nat /\ MaxMessages \in Nat
    <3>1. e \in SUBSET Messages
      BY <1>1
    <3> QED BY <3>1, PartsAreFinite, StoreAssumption
  <2>2. ~Full(e)
    BY <2>1 DEF Full
  <2> QED BY <1>1, <1>4, <2>2
<1>7. ~\A n \in S : n >= q
  BY <1>3
<1>8. Ts(q) - Ts(Max(e)) > Gap
  BY <1>4, <1>5, <1>6, <1>7 DEF Begins
<1>9. Ts(q) <= Ts(m)
  <2>1. m \in Nat /\ q \in Messages /\ m \in Messages /\ Ts(q) \in Nat
        /\ Group(q) = Group(m)
    BY <1>0, <1>3, StoreAssumption
  <2>2. CASE q = m
    BY <2>1, <2>2
  <2>3. CASE q < m
    BY <2>1, <2>3, StoreAssumption
  <2> QED BY <1>3, <2>1, <2>2, <2>3
<1>10. Ts(q) \in Nat /\ Ts(m) \in Nat /\ Ts(Max(e)) \in Nat /\ Gap \in Nat
  BY <1>3, StoreAssumption
<1> QED BY <1>8, <1>9, <1>10

-----------------------------------------------------------------------------
(* What is written down.  Episodes are kept from the tick that reads them to *)
(* the chunk they become, and no message is from the future.                 *)

Episodic == \A c \in Held : IsEpisode(c)
Timely == \A m \in stored \cup posting : Ts(m) <= clock

\* What the chunker reads of one group.
Read(g) == InGroup(Unchunked(chunked'), g)

LEMMA ReadsAreEpisodes ==
    ASSUME TypeOK, ChunkerReads, NEW e \in batch'
    PROVE  \E g \in Groups :
              /\ e \in Episodes(Read(g))
              /\ Read(g) \in SUBSET Messages /\ Read(g) \subseteq stored
              /\ \A m \in Read(g) : Group(m) = g
<1> DEFINE part(g) == Episodes(InGroup(Unchunked(chunked'), g))
<1>1. batch' = UNION {part(g) : g \in Groups}
  BY Zenon DEF ChunkerReads
<1>2. PICK g \in Groups : e \in part(g)
  <2> HIDE DEF part
  <2> QED BY <1>1
<1>3. e \in Episodes(Read(g))
  BY <1>1, <1>2 DEF Read
<1>4. Read(g) \subseteq stored /\ \A m \in Read(g) : Group(m) = g
  BY DEF Read, InGroup, Unchunked
<1>5. Read(g) \in SUBSET Messages
  BY <1>4 DEF TypeOK
<1> QED BY <1>3, <1>4, <1>5

LEMMA EpisodicStep ==
    ASSUME TypeOK, Episodic, [Next]_vars
    PROVE  Episodic'
<1> SUFFICES ASSUME NEW c \in Held'
             PROVE  IsEpisode(c)
  BY DEF Episodic, IsEpisode, GroupOf, Group, Ts
<1>1. CASE c \in Held
  BY <1>1 DEF Episodic
<1>2. CASE ChunkerReads /\ c \in batch'
  BY <1>2, ReadsAreEpisodes, EpisodesAreEpisodes
<1>3. c \in Held \/ (ChunkerReads /\ c \in batch')
  BY HeldComesFromReading
<1> QED BY <1>1, <1>2, <1>3

\* Only the checks of /ingest and of an import admit a message.
LEMMA OnlyChecksAdmit ==
    ASSUME TypeOK, [Next]_vars
    PROVE  /\ clock' >= clock
           /\ \/ stored' \cup posting' \subseteq stored \cup posting
              \/ \E k \in Messages : /\ Ts(k) <= clock /\ stored' = stored
                                     /\ posting' = posting \cup {k}
<1> USE DEF rows, settings, running, world, history
<1>0. clock \in Int
  BY StoreAssumption DEF TypeOK
<1>1. CASE Tick \/ ChunkerReads \/ ChunkerWrites \/ ChunkerFails
  BY <1>0, <1>1 DEF Tick, ChunkerReads, ChunkerWrites, ChunkerFails
<1>2. ASSUME NEW m \in Messages, IngestChecks(m) \/ ImportChecks(m)
      PROVE  clock' >= clock /\ Ts(m) <= clock /\ stored' = stored
             /\ posting' = posting \cup {m}
  BY <1>0, <1>2 DEF IngestChecks, ImportChecks
<1>3. ASSUME NEW m \in Messages, Inserts(m)
      PROVE  clock' >= clock /\ stored' \cup posting' \subseteq stored \cup posting
  BY <1>0, <1>3 DEF Inserts
<1>4. CASE RetentionChunks \/ RetentionMessages
  BY <1>0, <1>4 DEF RetentionChunks, RetentionMessages
<1>8. CASE AppliesReads
  BY <1>0, <1>8 DEF AppliesReads
<1>9. CASE OptOutWrites
  BY <1>0, <1>9 DEF OptOutWrites
<1>5. CASE Crash \/ UNCHANGED vars
  BY <1>0, <1>5 DEF Crash, vars
<1>6. ASSUME NEW g \in Groups,
             PurgeGroupMessages(g) \/ Reembed(g) \/ AddGroup(g) \/ PurgeGroup(g)
             \/ DeleteGroup(g)
      PROVE  clock' >= clock /\ stored' \cup posting' \subseteq stored \cup posting
  BY <1>0, <1>6 DEF PurgeGroupMessages, Reembed, AddGroup, PurgeGroup, DeleteGroup
<1>7. ASSUME NEW g \in Groups, NEW s,
             AsksToErase(g, s) \/ PurgeSender(g, s) \/ OptOutReads(g, s)
             \/ SavesList(g, s)
      PROVE  clock' >= clock /\ stored' \cup posting' \subseteq stored \cup posting
  BY <1>0, <1>7 DEF AsksToErase, PurgeSender, OptOutReads, SavesList, Brings
<1> QED BY <1>1, <1>2, <1>3, <1>4, <1>5, <1>6, <1>7, <1>8, <1>9 DEF Next

LEMMA TimelyStep ==
    ASSUME TypeOK, Timely, [Next]_vars
    PROVE  Timely'
<1> SUFFICES ASSUME NEW m \in stored' \cup posting'
             PROVE  Ts(m) <= clock'
  BY DEF Timely, Ts
<1>1. clock \in Int /\ clock' \in Int
  BY TypeStep, StoreAssumption DEF TypeOK
<1>2. m \in Messages /\ Ts(m) \in Nat
  BY TypeStep, StoreAssumption DEF TypeOK
<1>3. Ts(m) <= clock
  BY OnlyChecksAdmit DEF Timely
<1> QED BY <1>1, <1>2, <1>3, OnlyChecksAdmit

\* What the tick reads closes an episode that is not full by a silence: after
\* it, or until now.
LEMMA ReadsNoFragments ==
    ASSUME TypeOK, Timely, ChunkerReads, NEW e \in batch',
           Cardinality(e) < MaxMessages
    PROVE  /\ clock - Ts(Max(e)) > Gap
           /\ \A m \in Read(GroupOf(e)) : m > Max(e) => Ts(m) - Ts(Max(e)) > Gap
<1>1. PICK g \in Groups :
        /\ e \in Episodes(Read(g))
        /\ Read(g) \in SUBSET Messages /\ Read(g) \subseteq stored
        /\ \A m \in Read(g) : Group(m) = g
  BY ReadsAreEpisodes
<1>2. e \subseteq Read(g) /\ Min(e) \in e /\ Max(e) \in e /\ e \in SUBSET Messages
  BY <1>1, EpisodeIsStretch
<1>3. GroupOf(e) = g
  BY <1>1, <1>2 DEF GroupOf
<1>4. ASSUME NEW m \in Read(g), m > Max(e)
      PROVE  Ts(m) - Ts(Max(e)) > Gap
  BY <1>1, <1>4, SilenceFollows
<1>5. clock - Ts(Max(e)) > Gap
  <2>1. CASE \E m \in Read(g) : m > Max(e)
    <3>1. PICK m \in Read(g) : m > Max(e)
      BY <2>1
    <3>2. Ts(m) - Ts(Max(e)) > Gap
      BY <1>4, <3>1
    <3>3. Ts(m) \in Nat /\ Ts(Max(e)) \in Nat /\ Gap \in Nat /\ clock \in Nat
      BY <1>1, <1>2, StoreAssumption DEF TypeOK
    <3>4. Ts(m) <= clock
      BY <1>1 DEF Timely
    <3> QED BY <3>2, <3>3, <3>4
  <2>2. ~Full(e)
    BY <1>2, PartsAreFinite, StoreAssumption DEF Full
  <2>3. Closed(e, Read(g))
    BY <1>1 DEF Episodes
  <2> QED BY <2>1, <2>2, <2>3 DEF Closed
<1> QED BY <1>3, <1>4, <1>5

-----------------------------------------------------------------------------
(* Opting out.  What is on its way into the table needs its excuse already.  *)

OptedOut(m) == Sender(m) \in optOut[Group(m)]
Awaited(m) == <<Group(m), Sender(m)>> \in toPurge

OnTheWay == \A m \in posting : OptedOut(m) => m \in spared

\* Nothing of it changes: what comes in is excused, what goes is gone.
Unmoved ==
    /\ stored' \cup posting' \subseteq stored \cup posting /\ posting' \subseteq posting
    /\ \A m \in stored' \ stored : m \in posting
    /\ toPurge \subseteq toPurge'
    /\ \A g \in Groups : optOut'[g] \subseteq optOut[g]
    /\ spared' = spared

LEMMA OptOutKinds ==
    ASSUME TypeOK, [Next]_vars
    PROVE  \/ Unmoved
           \/ \E m \in Messages : IngestChecks(m) \/ ImportChecks(m)
           \/ \E g \in Groups, s \in Senders : PurgeSender(g, s)
           \/ OptOutWrites
           \/ Crash
<1> USE DEF rows, settings, running, world, history, Unmoved, TypeOK
<1>1. CASE Tick \/ ChunkerFails \/ UNCHANGED vars
  BY <1>1 DEF Tick, ChunkerFails, vars
<1>2. CASE ChunkerReads \/ ChunkerWrites
  BY <1>2 DEF ChunkerReads, ChunkerWrites
<1>3. CASE RetentionChunks \/ RetentionMessages
  BY <1>3 DEF RetentionChunks, RetentionMessages
<1>4. CASE AppliesReads
  BY <1>4 DEF AppliesReads
<1>5. ASSUME NEW m \in Messages, Inserts(m)
      PROVE  Unmoved
  BY <1>5 DEF Inserts
<1>6. ASSUME NEW g \in Groups, PurgeGroupMessages(g) \/ PurgeGroup(g)
      PROVE  Unmoved
  BY <1>6 DEF PurgeGroupMessages, PurgeGroup, Erases
<1>7. ASSUME NEW g \in Groups, Reembed(g) \/ AddGroup(g) \/ DeleteGroup(g)
      PROVE  Unmoved
  BY <1>7 DEF Reembed, AddGroup, DeleteGroup
<1>8. ASSUME NEW g \in Groups, NEW s, AsksToErase(g, s) \/ OptOutReads(g, s)
                                      \/ SavesList(g, s)
      PROVE  Unmoved
  BY <1>8 DEF AsksToErase, OptOutReads, SavesList, Brings
<1>9. \A g \in Groups : {Sender(m) : m \in InGroup(Messages, g)} \subseteq Senders
  BY DEF Senders, InGroup
<1> HIDE DEF Unmoved, TypeOK
<1> QED BY <1>1, <1>2, <1>3, <1>4, <1>5, <1>6, <1>7, <1>8, <1>9 DEF Next

LEMMA OptOutStep ==
    ASSUME TypeOK, OptOutErasesTheRest, OnTheWay, [Next]_vars
    PROVE  OptOutErasesTheRest' /\ OnTheWay'
<1> USE DEF OptedOut, Awaited
<1>1. \A m \in stored : OptedOut(m) => Awaited(m) \/ m \in spared
  BY DEF OptOutErasesTheRest
<1>2. \A m \in posting : OptedOut(m) => m \in spared
  BY DEF OnTheWay
<1>3. \A m \in Messages : Group(m) \in Groups /\ Sender(m) \in Senders
  BY StoreAssumption DEF Senders
<1>4. TypeOK'
  BY TypeStep
<1>5. stored \subseteq Messages /\ posting \subseteq Messages /\ spared \subseteq Messages
      /\ stored' \subseteq Messages /\ posting' \subseteq Messages
  BY <1>4 DEF TypeOK
<1> SUFFICES /\ \A m \in stored' : Sender(m) \in optOut'[Group(m)] =>
                   <<Group(m), Sender(m)>> \in toPurge' \/ m \in spared'
             /\ \A m \in posting' : Sender(m) \in optOut'[Group(m)] => m \in spared'
  BY DEF OptOutErasesTheRest, OnTheWay, Group, Sender
<1>6. CASE Unmoved
  BY <1>1, <1>2, <1>3, <1>5, <1>6 DEF Unmoved
<1>7. ASSUME NEW k \in Messages, IngestChecks(k) \/ ImportChecks(k)
      PROVE  /\ \A m \in stored' : Sender(m) \in optOut'[Group(m)] =>
                   <<Group(m), Sender(m)>> \in toPurge' \/ m \in spared'
             /\ \A m \in posting' : Sender(m) \in optOut'[Group(m)] => m \in spared'
  <2>1. /\ stored' = stored /\ optOut' = optOut /\ toPurge' = toPurge
        /\ posting' = posting \cup {k}
    BY <1>7 DEF IngestChecks, ImportChecks, rows, settings
  <2>2. spared \subseteq spared' /\ (OptedOut(k) => k \in spared')
    <3>1. CASE IngestChecks(k)
      BY <3>1 DEF IngestChecks, history
    <3>2. CASE ImportChecks(k)
      BY <3>2 DEF ImportChecks
    <3> QED BY <1>7, <3>1, <3>2
  <2> QED BY <1>1, <1>2, <2>1, <2>2
<1>8. ASSUME NEW g \in Groups, NEW s \in Senders, PurgeSender(g, s)
      PROVE  /\ \A m \in stored' : Sender(m) \in optOut'[Group(m)] =>
                   <<Group(m), Sender(m)>> \in toPurge' \/ m \in spared'
             /\ \A m \in posting' : Sender(m) \in optOut'[Group(m)] => m \in spared'
  <2>1. /\ toPurge' = toPurge \ {<<g, s>>} /\ optOut' = optOut
        /\ stored' = stored \ By(stored, g, s) /\ posting' = posting /\ spared' = spared
    BY <1>8 DEF PurgeSender, Erases, settings
  <2>2. \A m \in stored' : <<Group(m), Sender(m)>> # <<g, s>>
    BY <2>1 DEF By, ByAny, InGroup
  <2> QED BY <1>1, <1>2, <2>1, <2>2
<1>9. CASE OptOutWrites
  <2>1. PICK r \in requests :
          /\ optOut' = [optOut EXCEPT ![r.group] = r.list]
          /\ toPurge' = toPurge \cup ({r.group} \X (r.list \ r.before))
          /\ spared' = (spared \ ByAny(Messages, r.group, r.list \ r.before))
                \cup ByAny(posting, r.group, r.list)
                \cup ByAny(stored, r.group, r.before \cap (r.list \ optOut[r.group]))
          /\ stored' = stored /\ posting' = posting
    BY <1>9 DEF OptOutWrites, rows
  <2>2. r.group \in Groups /\ optOut \in [Groups -> SUBSET Senders]
    BY DEF TypeOK
  <2>3. ASSUME NEW m \in Messages, Group(m) # r.group
        PROVE  optOut'[Group(m)] = optOut[Group(m)] /\ (m \in spared => m \in spared')
    BY <1>3, <2>1, <2>2, <2>3 DEF ByAny, InGroup
  <2>4. ASSUME NEW m \in Messages, Group(m) = r.group, Sender(m) \in optOut'[Group(m)]
        PROVE  /\ Sender(m) \in r.list
               /\ m \in posting => m \in spared'
    BY <2>1, <2>2, <2>4 DEF ByAny, InGroup
  <2>5. ASSUME NEW m \in stored, Group(m) = r.group, Sender(m) \in optOut'[Group(m)]
        PROVE  <<Group(m), Sender(m)>> \in toPurge' \/ m \in spared'
    <3>0. Sender(m) \in r.list
      BY <1>5, <2>4, <2>5
    <3>1. CASE Sender(m) \notin r.before
      BY <2>1, <2>5, <3>0, <3>1
    <3>2. CASE Sender(m) \in r.before /\ Sender(m) \notin optOut[r.group]
      BY <2>1, <2>5, <3>0, <3>2 DEF ByAny, InGroup
    <3>3. CASE Sender(m) \in r.before /\ Sender(m) \in optOut[r.group]
      BY <1>1, <2>1, <2>5, <3>0, <3>3 DEF ByAny, InGroup
    <3> QED BY <3>1, <3>2, <3>3
  <2>6. toPurge \subseteq toPurge'
    BY <2>1
  <2>7. ASSUME NEW m \in stored', Sender(m) \in optOut'[Group(m)]
        PROVE  <<Group(m), Sender(m)>> \in toPurge' \/ m \in spared'
    BY <1>1, <1>5, <2>1, <2>3, <2>5, <2>6, <2>7
  <2>8. ASSUME NEW m \in posting', Sender(m) \in optOut'[Group(m)]
        PROVE  m \in spared'
    BY <1>2, <1>5, <2>1, <2>3, <2>4, <2>8
  <2> QED BY <2>7, <2>8
<1>10. CASE Crash
  BY <1>1, <1>10 DEF Crash, rows, settings
<1> QED BY <1>6, <1>7, <1>8, <1>9, <1>10, OptOutKinds

-----------------------------------------------------------------------------
(* The theorems. *)

\* The inductive invariant holds throughout.
THEOREM StoreInv == Spec => []Inv
<1>1. Init => Inv
  BY TypeInit DEF Init, Inv, OneGroup, Held, WordsStored, ErasedGone, Indexed
<1>2. Inv /\ [Next]_vars => Inv'
  BY TypeStep, OneGroupStep, WordsStoredStep, ErasedGoneStep, IndexedStep DEF Inv
<1> QED BY <1>1, <1>2, PTL DEF Spec

\* The tables, settings and running requests keep their types.
THEOREM StoreTypeOK == Spec => []TypeOK
<1>1. Inv => TypeOK
  BY DEF Inv
<1> QED BY <1>1, StoreInv, PTL

\* No message that is flagged as chunked falls out of the index: not through
\* re-indexing, retention, or the erasure of anyone (retention.py:86-90).
THEOREM StoreIndexed == Spec => []Indexed
<1>1. Inv => Indexed
  BY DEF Inv
<1> QED BY <1>1, StoreInv, PTL

\* Outside the two known windows nothing an erased member said survives inside
\* a chunk (retention.py:72-74).
THEOREM StoreErased == Spec => []ErasedUnlessExposed
<1>1. Inv => ErasedUnlessExposed
  BY DEF Inv, ErasedUnlessExposed, ErasedStaysErased, WordsStored, ErasedGone, Held
<1> QED BY <1>1, StoreInv, PTL

\* A chunk is a stretch of one group's conversation, within the limit and with
\* no silence inside it, whatever was erased since (chunking.py:18-33).
THEOREM StoreEpisodes == Spec => []ChunksAreEpisodes
<1>1. Init => Episodic
  BY DEF Init, Episodic, Held
<1>2. TypeOK /\ Episodic /\ [Next]_vars => Episodic'
  BY EpisodicStep
<1>3. Episodic => ChunksAreEpisodes
  BY DEF Episodic, Held, ChunksAreEpisodes
<1> QED BY <1>1, <1>2, <1>3, StoreTypeOK, PTL DEF Spec

\* No tick writes down part of a conversation that goes on: what is neither
\* full nor followed by a silence waits (chunking.py:29-32).
THEOREM StoreNoFragments == Spec => NoFragments
<1>1. Init => Timely
  BY DEF Init, Timely
<1>2. TypeOK /\ Timely /\ [Next]_vars => Timely'
  BY TimelyStep
<1>3. ASSUME TypeOK, Timely, [Next]_vars, NEW e \in batch' \ batch,
             Cardinality(e) < MaxMessages
      PROVE  /\ clock - Ts(Max(e)) > Gap
             /\ \A m \in InGroup(Unchunked(chunked'), GroupOf(e)) :
                   m > Max(e) => Ts(m) - Ts(Max(e)) > Gap
  <2>1. ChunkerReads
    BY <1>3, BatchComesFromReading
  <2> QED BY <1>3, <2>1, ReadsNoFragments DEF Read
<1>4. TypeOK /\ Timely /\ [Next]_vars =>
        [\A e \in batch' \ batch :
            Cardinality(e) < MaxMessages =>
                /\ clock - Ts(Max(e)) > Gap
                /\ \A m \in InGroup(Unchunked(chunked'), GroupOf(e)) :
                      m > Max(e) => Ts(m) - Ts(Max(e)) > Gap]_vars
  BY <1>3
<1> QED BY <1>1, <1>2, <1>4, StoreTypeOK, PTL DEF Spec, NoFragments

\* What an opted-out member wrote is purged, or about to be, but for the ways
\* around: let through before the opt-out, imported, opted in again behind a
\* save's back, or left by a crash between list and purge (groups.py:49, 124-136).
THEOREM StoreOptOutErasesTheRest == Spec => []OptOutErasesTheRest
<1>1. Init => OptOutErasesTheRest /\ OnTheWay
  BY DEF Init, OptOutErasesTheRest, OnTheWay
<1>2. TypeOK /\ OptOutErasesTheRest /\ OnTheWay /\ [Next]_vars =>
        OptOutErasesTheRest' /\ OnTheWay'
  BY OptOutStep
<1> QED BY <1>1, <1>2, StoreTypeOK, PTL DEF Spec

\* A tick leaves nothing out: of what it reads of a group, each message goes
\* into exactly one episode, or belongs to the tail, behind all of them, of a
\* group that has not been silent long enough (chunking.py:18-33).
THEOREM EpisodesLeaveNothingOut ==
    ASSUME NEW S \in SUBSET Messages, NEW m \in S
    PROVE  \/ \E e \in Episodes(S) : m \in e /\ \A o \in Episodes(S) : m \in o => o = e
           \/ (\A e \in Episodes(S) : m > Max(e)) /\ ~(clock - Ts(Max(S)) > Gap)
<1> DEFINE f == Firsts(S)
           own == {n \in S : f[n] = f[m]}
<1>0. S \in SUBSET Nat /\ S \subseteq 0..Len(Sent) /\ S # {}
  BY MessagesAreNumbers DEF Messages
<1>f. \A n \in S : Stretch(f, S, n)
  BY FirstsStretch
<1>e. ASSUME NEW e \in Episodes(S)
      PROVE  /\ e \subseteq S /\ Max(e) \in e
             /\ e = {n \in S : f[n] = Min(e)}
  BY EpisodeIsStretch
<1>1. own \in Episodes(S) <=> Closed(own, S)
  <2>1. f[m] \in S /\ m \in own
    BY <1>f DEF Stretch
  <2>2. own \in {{n \in S : f[n] = a} : a \in S}
    BY <2>1
  <2> QED BY <2>1, <2>2 DEF Episodes
<1> HIDE DEF f
<1>2. CASE own \in Episodes(S)
  <2>1. ASSUME NEW o \in Episodes(S), m \in o
        PROVE  o = own
    BY <1>e, <2>1
  <2> QED BY <1>2, <2>1
<1>3. CASE ~Closed(own, S)
  <2>1. own \subseteq S /\ m \in own
    OBVIOUS
  <2>2. Max(own) \in own /\ \A n \in own : Max(own) >= n
    BY <1>0, <2>1, MaxIsGreatest, MessagesAreNumbers
  <2>3. Max(S) \in S /\ \A n \in S : Max(S) >= n
    BY <1>0, MaxIsGreatest, MessagesAreNumbers
  <2>4. Max(own) = Max(S)
    <3> HIDE DEF own
    <3>1. ~(Max(S) > Max(own))
      BY <1>3, <2>3 DEF Closed
    <3>2. Max(own) \in Nat /\ Max(S) \in Nat /\ Max(S) >= Max(own)
      BY <1>0, <2>1, <2>2, <2>3
    <3> QED BY <3>1, <3>2
  <2>5. ~(clock - Ts(Max(S)) > Gap)
    BY <1>3, <2>4 DEF Closed
  <2>6. ASSUME NEW e \in Episodes(S), ~(m > Max(e))
        PROVE  FALSE
    <3>1. Max(e) \in S /\ Max(e) \in Nat /\ m \in Nat /\ Max(S) \in Nat
      BY <1>0, <1>e, <2>3
    <3>2. m <= Max(e) /\ Max(e) <= Max(S)
      BY <2>3, <2>6, <3>1
    <3>3. f[Max(S)] = f[m] /\ f[m] \in S /\ f[m] <= m
      BY <1>f, <2>2, <2>4 DEF Stretch
    <3>4. f[m] <= Max(e)
      <4>1. f[m] \in Nat
        BY <1>0, <3>3
      <4> QED BY <3>1, <3>2, <3>3, <4>1
    <3>5. Max(e) \in Upto(f, S, Max(S))
      BY <3>1, <3>2, <3>3, <3>4 DEF Upto
    <3>6. f[Max(e)] = f[m]
      BY <1>f, <2>3, <3>3, <3>5 DEF Stretch
    <3>7. e = own
      BY <1>e, <3>1, <3>6
    <3> QED BY <1>1, <1>3, <3>7
  <2> QED BY <2>5, <2>6
<1> QED BY <1>1, <1>2, <1>3
=============================================================================
