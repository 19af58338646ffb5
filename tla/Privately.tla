----------------------------- MODULE Privately -----------------------------
(***************************************************************************)
(* Private questions: who may ask about which group, and what the answer   *)
(* is taken from.  WhatsApp lists its groups with their members when its   *)
(* connection opens, and reports that list to the app every half minute;   *)
(* a report can be lost, and two can arrive in either order.  The app      *)
(* keeps the last list it took in a table.  Meanwhile the admin edits,     *)
(* pauses and removes groups, people write in them, and threads of the app *)
(* answer questions, each a sequence of separate reads.                    *)
(*                                                                         *)
(* A person is a sender id.  A group outside Listed is on a channel that   *)
(* lists nobody (Telegram, Discord): there, having written is what counts. *)
(***************************************************************************)
EXTENDS Integers, FiniteSets

CONSTANTS
    People,
    Groups,
    Listed,       \* those on WhatsApp
    Shared,       \* the owner of a document shared with every group
    NoGroup, NoOne,
    Threads,      \* of the app, for questions
    Forms,        \* the settings an admin may save
    Candidates,   \* DM_CANDIDATES
    MaxFlight     \* a bound on the reports under way

Row == [there : BOOLEAN, enabled : BOOLEAN, allow_dm : BOOLEAN, quiet : BOOLEAN,
        opt_out : SUBSET People]
Gone == [there |-> FALSE, enabled |-> FALSE, allow_dm |-> FALSE, quiet |-> FALSE, opt_out |-> {}]

ASSUME PrivatelyAssumption ==
    /\ Listed \subseteq Groups /\ Shared \notin Groups
    /\ NoGroup \notin Groups /\ NoOne \notin People
    /\ Forms \subseteq {r \in Row : r.there}
    /\ Candidates \in Nat \ {0} /\ MaxFlight \in Nat \ {0}

VARIABLES
    ingroup,  \* who is in a group of Listed
    heard,    \* who the channel last heard is
    flight,   \* reports that the app has not taken
    members,  \* gateway_members: nobody where there is no row
    rows,     \* groups
    wrote,    \* messages: who wrote in a group
    night,    \* it is the hour that quiet hours are about
    ask,      \* the question each thread is at
    \* history: since a thread's question came, the groups that were its
    theirs,   \* asker's at some moment, and those that
    opened    \* answered private questions of the asker

gateway == <<ingroup, heard>>
tables == <<members, rows, wrote>>
history == <<theirs, opened>>
vars == <<gateway, flight, tables, night, ask, history>>

Lists == [Listed -> SUBSET People]
Nobody == [g \in Listed |-> {}]
Found == [asked_in : Groups, owner : Groups \cup {Shared}]

Idle == [pc |-> "idle", who |-> NoOne, reported |-> [g \in Groups |-> {}], wrote |-> {},
         among |-> {}, found |-> {}, from |-> NoGroup]
Asking == [pc : {"idle", "asked", "members", "wrote", "search", "answer"},
           who : People \cup {NoOne}, reported : [Groups -> SUBSET People], wrote : SUBSET Groups,
           among : SUBSET Groups, found : SUBSET Found, from : Groups \cup {NoGroup}]

Init ==
    /\ ingroup \in Lists
    /\ heard = Nobody
    /\ flight = {}
    /\ members = [g \in Groups |-> {}]
    /\ rows = [g \in Groups |-> Gone]
    /\ wrote = [g \in Groups |-> {}]
    /\ night = FALSE
    /\ ask = [t \in Threads |-> Idle]
    /\ theirs = [t \in Threads |-> {}]
    /\ opened = [t \in Threads |-> {}]
-----------------------------------------------------------------------------
(* What a question depends on. *)

\* mutant: no list yet falls back on having written there.
MemberOrWrote(g, who, listed, there) == IF listed # {} THEN who \in listed ELSE there

\* member_of, for a row of the table and whether the sender wrote there.  The
\* table never has a row for a group of a channel that lists nobody.
MemberOf(g, who, listed, there) ==
    \/ who \in listed
    \/ listed = {} /\ g \notin Listed /\ there

Quiet(g) == rows[g].quiet /\ night

\* The group takes the sender's private questions.
Open(g, who) ==
    /\ rows[g].enabled /\ rows[g].allow_dm
    /\ who \notin rows[g].opt_out
    /\ ~Quiet(g)

TheirsNow(who) == {g \in Groups : IF g \in Listed THEN who \in members[g] ELSE who \in wrote[g]}
OpenNow(who) == {g \in Groups : Open(g, who)}

Watching(t) == ask[t].pc # "idle"
TheirsOf == [t \in Threads |-> IF Watching(t) THEN TheirsNow(ask[t].who) ELSE {}]
OpenOf == [t \in Threads |-> IF Watching(t) THEN OpenNow(ask[t].who) ELSE {}]

\* Part of every step.
Watch ==
    /\ theirs' = [t \in Threads |-> IF Watching(t)' THEN theirs[t] \cup TheirsOf'[t] ELSE {}]
    /\ opened' = [t \in Threads |-> IF Watching(t)' THEN opened[t] \cup OpenOf'[t] ELSE {}]
-----------------------------------------------------------------------------
(* The groups on WhatsApp, and what the gateway knows of them. *)

Joins(p, g) ==
    /\ p \notin ingroup[g]
    /\ ingroup' = [ingroup EXCEPT ![g] = @ \cup {p}]
    /\ UNCHANGED <<heard, flight, tables, night, ask>>

Leaves(p, g) ==
    /\ p \in ingroup[g]
    /\ ingroup' = [ingroup EXCEPT ![g] = @ \ {p}]
    /\ UNCHANGED <<heard, flight, tables, night, ask>>

\* The connection opens: listGroups asks for all groups, or fails and has none.
Opens ==
    /\ heard' \in {ingroup, Nobody}
    /\ UNCHANGED <<ingroup, flight, tables, night, ask>>

\* report, which the supervisor calls every half minute.
Reports ==
    /\ flight' = flight \cup {heard}
    /\ Cardinality(flight') <= MaxFlight
    /\ UNCHANGED <<gateway, tables, night, ask>>

\* The gateway restarts, or the channel does with new settings: it has not
\* heard of any group until its connection opens.
Blanks ==
    /\ heard' = Nobody
    /\ UNCHANGED <<ingroup, flight, tables, night, ask>>

LosesReport(list) ==
    /\ list \in flight
    /\ flight' = flight \ {list}
    /\ UNCHANGED <<gateway, tables, night, ask>>

\* mutant: a group that is listed no longer keeps its row.
KeepsUnlisted(list) ==
    members' = [g \in Groups |-> IF g \in Listed /\ list[g] # {} THEN list[g] ELSE members[g]]

\* _remember_members, one transaction.
Remembers(list) ==
    members' = [g \in Groups |-> IF g \in Listed THEN list[g] ELSE members[g]]

Takes(list) ==
    /\ list \in flight
    /\ flight' = flight \ {list}
    /\ Remembers(list)
    /\ UNCHANGED <<gateway, rows, wrote, night, ask>>
-----------------------------------------------------------------------------
(* The groups in the app. *)

AddsGroup(g, form) ==
    /\ ~rows[g].there
    /\ rows' = [rows EXCEPT ![g] = form]
    /\ UNCHANGED <<gateway, flight, members, wrote, night, ask>>

\* apply: whoever is opted out now and was not before is erased.
Saves(g, form) ==
    /\ rows[g].there
    /\ rows' = [rows EXCEPT ![g] = form]
    /\ wrote' = [wrote EXCEPT ![g] = @ \ (form.opt_out \ rows[g].opt_out)]
    /\ UNCHANGED <<gateway, flight, members, night, ask>>

\* groups.delete: all it produced, then its row.  Its list of members stays.
RemovesGroup(g) ==
    /\ rows[g].there
    /\ rows' = [rows EXCEPT ![g] = Gone]
    /\ wrote' = [wrote EXCEPT ![g] = {}]
    /\ UNCHANGED <<gateway, flight, members, night, ask>>

\* /messages, which may have looked at the group's row before it changed.
Writes(p, g) ==
    /\ g \in Listed => p \in ingroup[g]
    /\ wrote' = [wrote EXCEPT ![g] = @ \cup {p}]
    /\ UNCHANGED <<gateway, flight, members, rows, night, ask>>

\* The chat is purged, or past the retention.
Empties(g) ==
    /\ wrote' = [wrote EXCEPT ![g] = {}]
    /\ UNCHANGED <<gateway, flight, members, rows, night, ask>>

Turns ==
    /\ night' = ~night
    /\ UNCHANGED <<gateway, flight, tables, ask>>
-----------------------------------------------------------------------------
(* answer_privately, on a thread. *)

Becomes(t, r) ==
    /\ ask' = [ask EXCEPT ![t] = r]
    /\ UNCHANGED <<gateway, flight, tables, night>>

Asks(t, who) ==
    /\ ask[t].pc = "idle"
    /\ Becomes(t, [Idle EXCEPT !.pc = "asked", !.who = who])

ReadsMembers(t) ==
    /\ ask[t].pc = "asked"
    /\ Becomes(t, [ask[t] EXCEPT !.pc = "members", !.reported = members])

ReadsWrote(t) ==
    /\ ask[t].pc = "members"
    /\ Becomes(t, [ask[t] EXCEPT !.pc = "wrote", !.wrote = {g \in Groups : ask[t].who \in wrote[g]}])

\* dm_candidates, when list_all has the rows.
DmCandidates(q) ==
    {g \in Groups : Open(g, q.who) /\ MemberOf(g, q.who, q.reported[g], g \in q.wrote)}

\* Nobody's question gets no answer at all.
StaysSilent(t) ==
    /\ ask[t].pc = "wrote"
    /\ DmCandidates(ask[t]) = {}
    /\ Becomes(t, Idle)

\* The first few candidates; which ones are first is left open.
Chooses(t) ==
    /\ ask[t].pc = "wrote"
    /\ \E first \in (SUBSET DmCandidates(ask[t])) \ {{}} :
        /\ Cardinality(first) <= Candidates
        /\ Becomes(t, [Idle EXCEPT !.pc = "search", !.who = ask[t].who, !.among = first])

\* What _candidates may find for a group: its own chunks and the shared ones.
Scope(g) == [asked_in : {g}, owner : {g, Shared}]

\* mutant: the chunks of the other groups stay in.
OfTheBestMixed(found, best) == found

OfTheBest(found, best) == {c \in found : c.asked_in = best}

\* Nothing in any of them: one of them answers, with a refusal.
FirstOf(among) == among

\* search_many: every group's chunks, one rerank over all, and the group of the
\* best.  It reads nothing but chunks, and any of a group's may be there.
Searches(t) ==
    /\ ask[t].pc = "search"
    /\ \E found \in SUBSET UNION {Scope(g) : g \in ask[t].among} :
        \E best \in IF found = {} THEN FirstOf(ask[t].among) ELSE {c.asked_in : c \in found} :
            Becomes(t, [ask[t] EXCEPT !.pc = "answer", !.among = {}, !.from = best,
                                      !.found = OfTheBest(found, best)])

\* _answer_in, up to the answer on its way.
Answers(t) ==
    /\ ask[t].pc = "answer"
    /\ Becomes(t, Idle)

\* The app restarts: the questions under way are dropped.
Restarts ==
    /\ ask' = [t \in Threads |-> Idle]
    /\ UNCHANGED <<gateway, flight, tables, night>>
-----------------------------------------------------------------------------
Gateway ==
    \/ \E g \in Listed, p \in People : Joins(p, g) \/ Leaves(p, g)
    \/ Opens \/ Blanks \/ Reports
    \/ \E list \in flight : Takes(list) \/ LosesReport(list)

App ==
    \/ \E g \in Groups, form \in Forms : AddsGroup(g, form) \/ Saves(g, form)
    \/ \E g \in Groups : RemovesGroup(g) \/ Empties(g)
    \/ \E g \in Groups, p \in People : Writes(p, g)
    \/ Turns \/ Restarts

Goes(t) ==
    \/ ReadsMembers(t) \/ ReadsWrote(t) \/ StaysSilent(t) \/ Chooses(t)
    \/ Searches(t) \/ Answers(t)

Question(t) == Goes(t) \/ (\E p \in People : Asks(t, p))

Step == Gateway \/ App \/ (\E t \in Threads : Question(t))
Next == Step /\ Watch

Spec == Init /\ [][Next]_vars

\* The channel reports every half minute (index.js:62-68), not every report is
\* lost, and a thread that has begun a question goes on with it.
Fairness ==
    /\ WF_vars(Reports /\ Watch)
    /\ \A list \in Lists : SF_vars(Takes(list) /\ Watch)
    /\ \A t \in Threads : WF_vars(Goes(t) /\ Watch)

FairSpec == Spec /\ Fairness
-----------------------------------------------------------------------------
(* Properties. *)

TypeOK ==
    /\ ingroup \in Lists /\ heard \in Lists /\ flight \in SUBSET Lists
    /\ members \in [Groups -> SUBSET People]
    /\ rows \in [Groups -> Row]
    /\ wrote \in [Groups -> SUBSET People]
    /\ night \in BOOLEAN
    /\ ask \in [Threads -> Asking]
    /\ \A t \in Threads : ask[t].pc = "answer" => ask[t].from \in Groups
    /\ theirs \in [Threads -> SUBSET Groups] /\ opened \in [Threads -> SUBSET Groups]

Answering(t, g) == ask[t].pc = "answer" /\ ask[t].from = g

\* Whatever changes between its reads, a private answer is from a group that
\* had the asker on its list (or, where no list exists, among its writers) at
\* some moment since the question came, and that took the asker's private
\* questions at some moment (groups.py:152-187, asking.py:224-242).
OnlyFromTheirs ==
    \A t \in Threads, g \in Groups :
        Answering(t, g) => g \in theirs[t] \cap opened[t]

\* What the answer is taken from is that group's, or shared with every group:
\* nothing of another group the search went through, the asker's or not
\* (retrieval.py:143-168).
OfThatGroup ==
    \A t \in Threads, g \in Groups :
        Answering(t, g) => \A c \in ask[t].found : c.owner \in {g, Shared}

\* Once the gateway no longer has someone on a group's list, that group's
\* answers to them end, whatever was lost, late, overtaken or restarted: an
\* older report, or a row for a group that is no longer listed, does not keep
\* them in (gateway_state.py:62-76).
ListDecides ==
    \A p \in People, g \in Listed :
        <>[](p \notin heard[g])
            => <>[](\A t \in Threads : ask[t].who = p => ~Answering(t, g))

\* SECURITY.md:25-27: "where a channel can list members that list decides, so
\* someone who has left cannot keep asking."
LeaversCannotKeepAsking ==
    \A p \in People, g \in Listed :
        <>[](p \notin ingroup[g])
            => <>[](\A t \in Threads : ask[t].who = p => ~Answering(t, g))
=============================================================================
