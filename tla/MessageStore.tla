---------------------------- MODULE MessageStore ----------------------------
(***************************************************************************)
(* The app's tables of messages and chunks, and everybody who writes them: *)
(* the gateway's /ingest, an import, the chunking loop, the retention      *)
(* loop, and the panel's erasures, opt-outs and group deletions.           *)
(*                                                                         *)
(* The connections are autocommit (db.py:11) and the handlers run on a     *)
(* thread pool, so an action is one statement or one explicit transaction, *)
(* and anything may come between two of them: between a handler's check    *)
(* and its insert, the chunker's SELECT and its transactions, the two      *)
(* DELETEs of retention, an opt-out's read, write and purge.               *)
(*                                                                         *)
(* A message is its place in Sent; a chunk is the set of messages whose    *)
(* words it holds, which fixes its group and its time span.  Uploaded      *)
(* documents, questions and decisions are other tables, left out here.     *)
(***************************************************************************)
EXTENDS Integers, Sequences, FiniteSets, FiniteSetsExt

CONSTANTS
    Sent,         \* messages, by group and time: [group, id, sender, ts, skip, imported]
    Groups,
    Aging,        \* groups with a retention window
    Days,         \* that window
    Gap,          \* the silence that ends an episode
    MaxMessages,  \* messages that fill an episode
    PerTick,      \* rows the chunker reads at once
    Lists,        \* opt-out lists that the settings form brings
    MaxTime,      \* a bound on the clock
    MaxAdmin,     \* a bound on the panel's requests
    MaxFaults     \* a bound on crashes and failed ticks

Messages == 1..Len(Sent)
Group(m) == Sent[m].group
Sender(m) == Sent[m].sender
Ts(m) == Sent[m].ts
Senders == {Sender(m) : m \in Messages}

ASSUME StoreAssumption ==
    /\ Len(Sent) \in Nat
    /\ \A m \in Messages :
          /\ Group(m) \in Groups /\ Ts(m) \in Nat
          /\ Sent[m].skip \in BOOLEAN /\ Sent[m].imported \in BOOLEAN
    /\ \A m, n \in Messages :
          /\ m < n /\ Group(m) = Group(n) => Ts(m) <= Ts(n)
          /\ Group(m) = Group(n) /\ Sent[m].id = Sent[n].id => m = n
    /\ Aging \subseteq Groups /\ Lists \subseteq SUBSET Senders
    /\ Days \in Nat /\ Gap \in Nat /\ MaxTime \in Nat
    /\ MaxMessages \in Nat \ {0} /\ PerTick \in Nat \ {0}
    /\ MaxAdmin \in Nat /\ MaxFaults \in Nat

VARIABLES
    \* tables
    stored,      \* rows of messages
    chunked,     \* those with the chunked flag
    chunks,      \* rows of chunks
    registered,  \* rows of groups, all of them enabled
    optOut,      \* their settings.opt_out
    \* requests and loops under way
    posting,     \* messages an /ingest or an import has let through
    batch,       \* episodes the chunker has read and not yet written
    expiring,    \* whether retention has done chunks, and messages come next
    requests,    \* requests that bring an opt-out list
    toPurge,     \* purge_sender calls to be made
    leaving,     \* groups purged, whose row is to be deleted
    \* the environment
    clock,
    admin,       \* panel requests so far
    faults,
    \* history
    erased,      \* messages an erasure was to remove, unless stored again since
    exposed,     \* whether a message was deleted behind the chunker's back or
                 \* left behind in a chunk by retention
    spared       \* messages that an opt-out does not get, for a known reason

rows == <<stored, chunked, chunks>>
settings == <<registered, optOut>>
running == <<posting, batch, expiring, requests, toPurge, leaving>>
world == <<clock, admin, faults>>
history == <<erased, exposed, spared>>
vars == <<rows, settings, running, world, history>>

Init ==
    /\ stored = {} /\ chunked = {} /\ chunks = {}
    /\ registered = Groups /\ optOut = [g \in Groups |-> {}]
    /\ posting = {} /\ batch = {} /\ expiring = FALSE
    /\ requests = {} /\ toPurge = {} /\ leaving = {}
    /\ clock = 0 /\ admin = 0 /\ faults = 0
    /\ erased = {} /\ exposed = FALSE /\ spared = {}

Request == admin < MaxAdmin /\ admin' = admin + 1
Fault == faults < MaxFaults /\ faults' = faults + 1

InGroup(S, g) == {m \in S : Group(m) = g}
ByAny(S, g, senders) == {m \in InGroup(S, g) : Sender(m) \in senders}
By(S, g, s) == ByAny(S, g, {s})

\* A chunk's columns.
GroupOf(c) == Group(Min(c))
Spans(c, m) == Ts(Min(c)) <= Ts(m) /\ Ts(m) <= Ts(Max(c))
ChunksOf(g) == {c \in chunks : GroupOf(c) = g}

Tick ==
    /\ clock < MaxTime
    /\ clock' = clock + 1
    /\ UNCHANGED <<rows, settings, running, admin, faults, history>>
-----------------------------------------------------------------------------
(* /ingest and the import of a chat export. *)

\* mutant: whether the member opted out is not asked.
IngestUnchecked(m) ==
    /\ ~Sent[m].imported
    /\ Ts(m) <= clock
    /\ Group(m) \in registered
    /\ posting' = posting \cup {m}
    /\ UNCHANGED <<rows, settings, batch, expiring, requests, toPurge, leaving,
                   world, history>>

\* The app drops what comes from an unknown group or an opted-out member.
IngestChecks(m) ==
    /\ ~Sent[m].imported
    /\ Ts(m) <= clock
    /\ Group(m) \in registered
    /\ Sender(m) \notin optOut[Group(m)]
    /\ posting' = posting \cup {m}
    /\ UNCHANGED <<rows, settings, batch, expiring, requests, toPurge, leaving,
                   world, history>>

\* An import only asks for the group.
ImportChecks(m) ==
    /\ Sent[m].imported
    /\ Ts(m) <= clock
    /\ Group(m) \in registered
    /\ posting' = posting \cup {m}
    /\ spared' = IF Sender(m) \in optOut[Group(m)] THEN spared \cup {m} ELSE spared
    /\ UNCHANGED <<rows, settings, batch, expiring, requests, toPurge, leaving,
                   world, erased, exposed>>

\* INSERT ... ON CONFLICT DO NOTHING.
Inserts(m) ==
    /\ m \in posting
    /\ posting' = posting \ {m}
    /\ stored' = stored \cup {m}
    /\ erased' = erased \ {m}
    /\ UNCHANGED <<chunked, chunks, settings, batch, expiring, requests, toPurge,
                   leaving, world, exposed, spared>>
-----------------------------------------------------------------------------
(* The chunking loop. *)

FullLate(e) == Cardinality(e) > MaxMessages  \* mutant: off by one
Full(e) == Cardinality(e) >= MaxMessages

\* The first message of the episode each message of one group belongs to.
Firsts(S) ==
    LET first[m \in S] ==
            LET p == Max({n \in S : n < m}) IN
            IF \/ \A n \in S : n >= m
               \/ Ts(m) - Ts(p) > Gap
               \/ Full({n \in S : first[p] <= n /\ n <= p})
            THEN m
            ELSE first[p]
    IN first

\* mutant: the tail is closed at every tick.
ClosedAtOnce(e, S) == TRUE

\* mutant: silence does not close the tail.
ClosedFull(e, S) == (\E m \in S : m > Max(e)) \/ Full(e)

\* The tail stays open until it is full or 30 minutes of silence have passed.
Closed(e, S) ==
    \/ \E m \in S : m > Max(e)
    \/ Full(e)
    \/ clock - Ts(Max(e)) > Gap

\* mutant: an empty tail is returned as well.
EpisodesTail(S) ==
    LET first == Firsts(S) IN
    {e \in {{m \in S : first[m] = a} : a \in S} : e = {} \/ Closed(e, S)}

\* episodes(), for the rows of one group.
Episodes(S) ==
    LET first == Firsts(S) IN
    {e \in {{m \in S : first[m] = a} : a \in S} : e # {} /\ Closed(e, S)}

\* The rows the SELECT returns.  It does not look at what needs a chunk.
Unchunked(flagged) ==
    LET waiting == {m \in stored \ flagged : Sender(m) \notin optOut[Group(m)]} IN
    {m \in waiting : Cardinality({n \in waiting : n < m}) < PerTick}

\* What the UPDATE flags: what needs no chunk, unless it comes after it.
Flagged(late) == chunked \cup ({m \in stored : Sent[m].skip} \ late)

\* The UPDATE and the SELECT, two statements: late has come between them.
ChunkerReads ==
    /\ batch = {}
    /\ \E late \in SUBSET {m \in stored \ chunked : Sent[m].skip} :
        /\ chunked' = Flagged(late)
        /\ batch' = UNION {Episodes(InGroup(Unchunked(Flagged(late)), g)) : g \in Groups}
    /\ UNCHANGED <<stored, chunks, settings, posting, expiring, requests, toPurge,
                   leaving, world, history>>

\* mutant: the flag is set by message id alone, whatever the group.
FlagsById(e) == {m \in stored : \E n \in e : Sent[m].id = Sent[n].id}

\* UPDATE ... WHERE group_id = %s AND wa_msg_id = ANY(%s).
Flags(e) == {m \in stored : \E n \in e : Sent[m].id = Sent[n].id /\ Group(m) = Group(n)}

\* One episode, in one transaction, from what was read before.
ChunkerWrites ==
    \E e \in batch :
        /\ \A f \in batch : Min(e) <= Min(f)
        /\ batch' = batch \ {e}
        /\ chunks' = chunks \cup {e}
        /\ chunked' = chunked \cup Flags(e)
        /\ UNCHANGED <<stored, settings, posting, expiring, requests, toPurge,
                       leaving, world, history>>

\* The embedding or a statement raised: the rest waits for another tick.
ChunkerFails ==
    /\ batch # {}
    /\ Fault
    /\ batch' = {}
    /\ UNCHANGED <<rows, settings, posting, expiring, requests, toPurge, leaving,
                   clock, admin, history>>
-----------------------------------------------------------------------------
(* The retention loop: one statement per table, in the order of EXPIRES. *)

Old(g, t) == g \in Aging /\ t < clock - Days
Expired(g, t) == g \in registered /\ Old(g, t)

\* mutant: the chunks are forgotten.
RetentionMisses ==
    /\ ~expiring
    /\ expiring' = TRUE
    /\ UNCHANGED <<rows, settings, posting, batch, requests, toPurge, leaving,
                   world, history>>

RetentionChunks ==
    /\ ~expiring
    /\ chunks' = {c \in chunks : ~Expired(GroupOf(c), Ts(Max(c)))}
    /\ expiring' = TRUE
    /\ UNCHANGED <<stored, chunked, settings, posting, batch, requests, toPurge,
                   leaving, world, history>>

RetentionMessages ==
    LET gone == {m \in stored : Expired(Group(m), Ts(m))} IN
    /\ expiring
    /\ expiring' = FALSE
    /\ stored' = stored \ gone
    /\ chunked' = chunked \ gone
    /\ exposed' = (exposed \/ \E e \in chunks \cup batch : e \cap gone # {})
    /\ UNCHANGED <<chunks, settings, posting, batch, requests, toPurge, leaving,
                   world, erased, spared>>
-----------------------------------------------------------------------------
(* Erasures.  Each is one transaction. *)

\* The history: theirs is what the erasure is to remove.
Erases(theirs) ==
    /\ erased' = erased \cup theirs
    /\ exposed' = (exposed \/ \E e \in batch : e \cap theirs # {})
    /\ UNCHANGED spared

\* purge_group_messages, behind the panel's "Delete messages"; documents stay.
PurgeGroupMessages(g) ==
    /\ Request
    /\ g \in registered
    /\ chunks' = chunks \ ChunksOf(g)
    /\ stored' = stored \ InGroup(stored, g)
    /\ chunked' = chunked \ InGroup(stored, g)
    /\ Erases(InGroup(Messages, g))
    /\ UNCHANGED <<settings, running, clock, faults>>

\* "Drop a group's chunks and let the loop rebuild them."
Reembed(g) ==
    /\ Request
    /\ g \in registered
    /\ chunks' = chunks \ ChunksOf(g)
    /\ chunked' = chunked \ InGroup(stored, g)
    /\ UNCHANGED <<stored, settings, running, clock, faults, history>>

\* "Erase a member" on the panel's data page.
AsksToErase(g, s) ==
    /\ Request
    /\ g \in registered
    /\ toPurge' = toPurge \cup {<<g, s>>}
    /\ UNCHANGED <<rows, settings, posting, batch, expiring, requests, leaving,
                   clock, faults, history>>

\* mutant: only the chunks that begin with the member's words.
AffectedFirst(g, s) ==
    {c \in ChunksOf(g) : Sender(Min(c)) = s}

\* The chunks whose time span holds a message of the member.
Affected(g, s) ==
    {c \in ChunksOf(g) : \E m \in By(stored, g, s) : Spans(c, m)}

\* mutant: the other members of the episode stay flagged.
UnflagsOwn(g, s) == By(stored, g, s)

\* The messages to be chunked again: all those in an affected time span.
Unflags(g, s) ==
    {m \in InGroup(stored, g) : \E c \in Affected(g, s) : Spans(c, m)}

PurgeSender(g, s) ==
    /\ <<g, s>> \in toPurge
    /\ toPurge' = toPurge \ {<<g, s>>}
    /\ chunks' = chunks \ Affected(g, s)
    /\ stored' = stored \ By(stored, g, s)
    /\ chunked' = (chunked \ Unflags(g, s)) \ By(stored, g, s)
    /\ Erases(By(Messages, g, s))
    /\ UNCHANGED <<settings, posting, batch, expiring, requests, leaving, world>>
-----------------------------------------------------------------------------
(* Opting out: a request brings a list, apply() reads the row, writes the list
   over it, and purges whoever was not in the row it read. *)

Brings(g, list) ==
    /\ Request
    /\ g \in registered
    /\ requests' = requests \cup
          {[group |-> g, list |-> list, compared |-> FALSE, before |-> {}]}
    /\ UNCHANGED <<rows, settings, posting, batch, expiring, toPurge, leaving,
                   clock, faults, history>>

\* "Erase one member and keep them erased."
OptOutReads(g, s) == Brings(g, optOut[g] \cup {s})

\* The settings form, with what the admin made of the list it showed.
SavesList(g, list) == Brings(g, list)

AppliesReads ==
    \E r \in requests :
        /\ ~r.compared
        /\ requests' = (requests \ {r}) \cup
              {[r EXCEPT !.compared = TRUE, !.before = optOut[r.group]]}
        /\ UNCHANGED <<rows, settings, posting, batch, expiring, toPurge, leaving,
                       world, history>>

\* The purges come next.  They miss who was opted in since the row was read.
OptOutWrites ==
    \E r \in requests :
        LET purged == r.list \ r.before
            missed == r.before \cap (r.list \ optOut[r.group])
        IN
        /\ r.compared
        /\ requests' = requests \ {r}
        /\ optOut' = [optOut EXCEPT ![r.group] = r.list]
        /\ toPurge' = toPurge \cup ({r.group} \X purged)
        /\ spared' = (spared \ ByAny(Messages, r.group, purged))
                        \cup ByAny(posting, r.group, r.list)
                        \cup ByAny(stored, r.group, missed)
        /\ UNCHANGED <<rows, registered, posting, batch, expiring, leaving, world,
                       erased, exposed>>
-----------------------------------------------------------------------------
(* Groups come and go. *)

AddGroup(g) ==
    /\ g \notin registered
    /\ registered' = registered \cup {g}
    /\ UNCHANGED <<rows, optOut, running, world, history>>

\* groups.delete, first transaction: purge_group.
PurgeGroup(g) ==
    /\ Request
    /\ g \in registered \ leaving
    /\ leaving' = leaving \cup {g}
    /\ chunks' = chunks \ ChunksOf(g)
    /\ stored' = stored \ InGroup(stored, g)
    /\ chunked' = chunked \ InGroup(stored, g)
    /\ Erases(InGroup(Messages, g))
    /\ UNCHANGED <<settings, posting, batch, expiring, requests, toPurge, clock,
                   faults>>

\* And its second: the row itself, and the settings with it.  A request that
\* names it finds nothing to update, nor would it if the group came back.
DeleteGroup(g) ==
    /\ g \in leaving
    /\ leaving' = leaving \ {g}
    /\ registered' = registered \ {g}
    /\ optOut' = [optOut EXCEPT ![g] = {}]
    /\ requests' = {r \in requests : r.group # g}
    /\ UNCHANGED <<rows, posting, batch, expiring, toPurge, world, history>>

\* The app dies: what was committed stays, what was under way does not.
Crash ==
    /\ Fault
    /\ posting' = {} /\ batch' = {} /\ expiring' = FALSE
    /\ requests' = {} /\ toPurge' = {} /\ leaving' = {}
    /\ spared' = spared \cup {m \in stored : <<Group(m), Sender(m)>> \in toPurge}
    /\ UNCHANGED <<rows, settings, clock, admin, erased, exposed>>
-----------------------------------------------------------------------------
Next ==
    \/ Tick
    \/ \E m \in Messages : IngestChecks(m) \/ ImportChecks(m) \/ Inserts(m)
    \/ ChunkerReads
    \/ ChunkerWrites
    \/ ChunkerFails
    \/ RetentionChunks
    \/ RetentionMessages
    \/ AppliesReads
    \/ OptOutWrites
    \/ Crash
    \/ \E g \in Groups :
          \/ PurgeGroupMessages(g)
          \/ Reembed(g)
          \/ AddGroup(g)
          \/ PurgeGroup(g)
          \/ DeleteGroup(g)
          \/ \E s \in {Sender(m) : m \in InGroup(Messages, g)} :
                AsksToErase(g, s) \/ PurgeSender(g, s) \/ OptOutReads(g, s)
          \/ \E list \in Lists : SavesList(g, list)

Spec == Init /\ [][Next]_vars

(* Time passes and the loops tick; nobody else has to do anything. *)
FairSpec ==
    /\ Spec
    /\ WF_vars(Tick)
    /\ WF_vars(ChunkerReads)
    /\ WF_vars(ChunkerWrites)
    /\ WF_vars(RetentionChunks)
    /\ WF_vars(RetentionMessages)
-----------------------------------------------------------------------------
Purges == Groups \X Senders

TypeOK ==
    /\ stored \subseteq Messages
    /\ chunked \subseteq stored
    /\ chunks \subseteq SUBSET Messages /\ {} \notin chunks
    /\ registered \subseteq Groups
    /\ optOut \in [Groups -> SUBSET Senders]
    /\ posting \subseteq Messages
    /\ batch \subseteq SUBSET Messages /\ {} \notin batch
    /\ expiring \in BOOLEAN
    /\ requests \subseteq [group : Groups, list : SUBSET Senders,
                            compared : BOOLEAN, before : SUBSET Senders]
    /\ toPurge \subseteq Purges
    /\ leaving \subseteq Groups
    /\ clock \in 0..MaxTime /\ admin \in 0..MaxAdmin /\ faults \in 0..MaxFaults
    /\ erased \subseteq Messages
    /\ exposed \in BOOLEAN
    /\ spared \subseteq Messages

\* No message falls out of the index: one that is flagged is in a chunk, unless
\* it needs none or retention has begun to remove it.  The flag is set by the
\* chunker and cleared by re-indexing and by erasures, each at its own moment
\* (chunking.py:66-86, retention.py:86-90, pages_data.py:80-84).
Indexed ==
    \A m \in chunked :
        \/ Sent[m].skip
        \/ Old(Group(m), Ts(m))
        \/ \E c \in chunks : m \in c

\* Nothing an erased member said survives inside a chunk (retention.py:72-74):
\* unconditionally.
ErasedStaysErased == \A c \in chunks : c \cap erased = {}

\* The same for every run in which no message was deleted while the chunker
\* held it, and none by retention from a chunk that outlived it.
ErasedUnlessExposed == ~exposed => ErasedStaysErased

\* A chunk is a stretch of one group's conversation: no longer than the limit,
\* and without a silence inside it (chunking.py:18-33).
IsEpisode(c) ==
    /\ Cardinality(c) <= MaxMessages
    /\ \A m \in c : Group(m) = GroupOf(c)
    /\ \A m \in c \ {Min(c)} : \E n \in c : n < m /\ Ts(m) - Ts(n) <= Gap
ChunksAreEpisodes == \A c \in chunks : IsEpisode(c)

\* A live conversation is not cut into fragments: an episode that is not full is
\* written down only once its group has been silent long enough, and nothing
\* the tick has read continues it (chunking.py:29-32).  What opted-out members
\* wrote and what is beyond PerTick it has not read.
NoFragments ==
    [][\A e \in batch' \ batch :
          Cardinality(e) < MaxMessages =>
              /\ clock - Ts(Max(e)) > Gap
              /\ \A m \in InGroup(Unchunked(chunked'), GroupOf(e)) :
                    m > Max(e) => Ts(m) - Ts(Max(e)) > Gap]_vars

\* Opting out erases what the member wrote and keeps it out (groups.py:49).
OptOutErases ==
    \A m \in stored :
        Sender(m) \in optOut[Group(m)] => <<Group(m), Sender(m)>> \in toPurge

\* The same, with the ways there are around it: what /ingest had let through
\* before the opt-out, what is imported in spite of it, what was stored while
\* the member was opted in behind the back of a save that opts them out, and
\* what a crash leaves between the list and the purge (groups.py:49, 124-136).
OptOutErasesTheRest ==
    \A m \in stored :
        Sender(m) \in optOut[Group(m)] =>
            <<Group(m), Sender(m)>> \in toPurge \/ m \in spared

\* Every message that is to be searchable becomes so, whatever else goes on
\* (chunking.py:48-87, main.py:50-65).
BecomesSearchable ==
    \A m \in Messages :
        (m \in stored \ chunked)
            ~> (m \in chunked \/ m \notin stored \/ Sender(m) \in optOut[Group(m)])

\* The words of an expired message leave both tables, while its group exists
\* and unless it is delivered again and again (retention.py:15-27).
InTables(m) == m \in stored \/ \E c \in chunks : m \in c
AgesOut ==
    \A m \in Messages :
        \/ []<>(m \in posting)
        \/ (InTables(m) /\ Old(Group(m), Ts(m)))
              ~> (~InTables(m) \/ Group(m) \notin registered)
=============================================================================
