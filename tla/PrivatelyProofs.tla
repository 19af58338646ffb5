-------------------------- MODULE PrivatelyProofs --------------------------
(***************************************************************************)
(* Proofs about Privately: the types, that an answer is from a group that  *)
(* was its asker's and open to them while the question was under way, and  *)
(* that it is taken from that group's chunks.                              *)
(***************************************************************************)
EXTENDS Privately, TLAPS

\* The table has no row for a group of a channel that lists nobody.
ListlessBare == \A g \in Groups \ Listed : members[g] = {}

\* The history of a question includes this moment.
Seen(t) ==
    ask[t].pc # "idle" =>
        TheirsNow(ask[t].who) \subseteq theirs[t] /\ OpenNow(ask[t].who) \subseteq opened[t]

\* What a thread has read was so at some moment of its question.
Known(t) ==
    /\ ask[t].pc \in {"members", "wrote"} =>
        \A g \in Groups : ask[t].who \in ask[t].reported[g] => g \in theirs[t]
    /\ ask[t].pc = "wrote" => \A g \in ask[t].wrote \ Listed : g \in theirs[t]
    /\ ask[t].pc = "search" => ask[t].among \subseteq theirs[t] \cap opened[t]
    /\ ask[t].pc = "answer" =>
        /\ ask[t].from \in theirs[t] \cap opened[t]
        /\ \A c \in ask[t].found : c.owner \in {ask[t].from, Shared}

\* A thread that searches has a group to search, which TypeOK's last part needs.
Among == \A t \in Threads : ask[t].pc = "search" => ask[t].among # {}

Typed == TypeOK /\ Among

IInv ==
    /\ Typed /\ ListlessBare
    /\ \A t \in Threads : Seen(t) /\ Known(t)
-----------------------------------------------------------------------------
(* The types. *)

LEMMA IdleTyped == Idle \in Asking
<1>1. /\ [g \in Groups |-> {}] \in [Groups -> SUBSET People]
      /\ NoOne \in People \cup {NoOne} /\ NoGroup \in Groups \cup {NoGroup}
  OBVIOUS
<1> QED BY <1>1 DEF Idle, Asking

LEMMA InitTyped == Init => Typed
<1> SUFFICES ASSUME Init PROVE Typed
  OBVIOUS
<1>1. Gone \in Row
  BY DEF Gone, Row
<1>2. \A t \in Threads : ask[t] = Idle
  BY DEF Init
<1>3. Idle.pc = "idle"
  BY DEF Idle
<1>4. ask \in [Threads -> Asking]
  BY IdleTyped DEF Init
<1>5. Nobody \in Lists
  BY DEF Nobody, Lists
<1>6. rows \in [Groups -> Row]
  BY <1>1 DEF Init
<1> QED BY <1>2, <1>3, <1>4, <1>5, <1>6 DEF Init, Typed, TypeOK, Among

\* The history keeps its type in every step.
LEMMA WatchTyped ==
    ASSUME TypeOK, Watch
    PROVE  theirs' \in [Threads -> SUBSET Groups] /\ opened' \in [Threads -> SUBSET Groups]
<1>1. \A t \in Threads : TheirsOf'[t] \in SUBSET Groups /\ OpenOf'[t] \in SUBSET Groups
  BY DEF TheirsOf, OpenOf, TheirsNow, OpenNow
<1>2. \A t \in Threads : theirs[t] \in SUBSET Groups /\ opened[t] \in SUBSET Groups
  BY DEF TypeOK
<1> QED BY <1>1, <1>2 DEF Watch

\* A thread's step writes its own record.
LEMMA ThreadTyped ==
    ASSUME Typed, Watch, NEW t \in Threads, NEW r \in Asking, Becomes(t, r),
           r.pc = "answer" => r.from \in Groups, r.pc = "search" => r.among # {}
    PROVE  Typed'
<1>1. ask' = [ask EXCEPT ![t] = r] /\ ask \in [Threads -> Asking]
  BY DEF Becomes, Typed, TypeOK
<1>2. ask' \in [Threads -> Asking]
  BY <1>1
<1>3. \A u \in Threads : ask'[u] = IF u = t THEN r ELSE ask[u]
  BY <1>1
<1>4. \A u \in Threads : ask'[u].pc = "answer" => ask'[u].from \in Groups
  BY <1>3 DEF Typed, TypeOK
<1>5. \A u \in Threads : ask'[u].pc = "search" => ask'[u].among # {}
  BY <1>3 DEF Typed, Among
<1> QED BY <1>2, <1>4, <1>5, WatchTyped DEF Becomes, gateway, tables, Typed, TypeOK, Among

LEMMA GoesTyped ==
    ASSUME Typed, Watch, NEW t \in Threads, Question(t)
    PROVE  Typed'
<1>1. ask[t] \in Asking /\ members \in [Groups -> SUBSET People]
  BY DEF Typed, TypeOK
<1>2. ASSUME NEW p \in People, Asks(t, p) PROVE Typed'
  <2> DEFINE r == [Idle EXCEPT !.pc = "asked", !.who = p]
  <2>1. r \in Asking /\ r.pc = "asked"
    BY IdleTyped DEF Asking, Idle
  <2> QED BY <1>2, <2>1, ThreadTyped DEF Asks
<1>3. CASE ReadsMembers(t)
  <2> DEFINE r == [ask[t] EXCEPT !.pc = "members", !.reported = members]
  <2>1. r \in Asking /\ r.pc = "members"
    BY <1>1 DEF Asking
  <2> QED BY <1>3, <2>1, ThreadTyped DEF ReadsMembers
<1>4. CASE ReadsWrote(t)
  <2> DEFINE r == [ask[t] EXCEPT !.pc = "wrote", !.wrote = {g \in Groups : ask[t].who \in wrote[g]}]
  <2>1. r \in Asking /\ r.pc = "wrote"
    BY <1>1 DEF Asking
  <2> QED BY <1>4, <2>1, ThreadTyped DEF ReadsWrote
<1>5. CASE StaysSilent(t) \/ Answers(t)
  <2>1. Idle.pc = "idle"
    BY DEF Idle
  <2> QED BY <1>5, <2>1, IdleTyped, ThreadTyped DEF StaysSilent, Answers
<1>6. CASE Chooses(t)
  <2>1. PICK first \in (SUBSET DmCandidates(ask[t])) \ {{}} :
            Becomes(t, [Idle EXCEPT !.pc = "search", !.who = ask[t].who, !.among = first])
    BY <1>6 DEF Chooses
  <2> DEFINE r == [Idle EXCEPT !.pc = "search", !.who = ask[t].who, !.among = first]
  <2>2. first \in SUBSET Groups /\ first # {}
    BY DEF DmCandidates
  <2>3. ask[t].who \in People \cup {NoOne}
    BY <1>1 DEF Asking
  <2>4. r \in Asking /\ r.pc = "search" /\ r.among = first
    BY IdleTyped, <2>2, <2>3 DEF Asking, Idle
  <2> QED BY <2>1, <2>2, <2>4, ThreadTyped
<1>7. CASE Searches(t)
  <2>1. PICK found \in SUBSET UNION {Scope(g) : g \in ask[t].among} :
            \E best \in IF found = {} THEN FirstOf(ask[t].among) ELSE {c.asked_in : c \in found} :
                Becomes(t, [ask[t] EXCEPT !.pc = "answer", !.among = {}, !.from = best,
                                          !.found = OfTheBest(found, best)])
    BY <1>7 DEF Searches
  <2>2. ask[t].among \in SUBSET Groups
    BY <1>1 DEF Asking
  <2>3. found \in SUBSET Found
    BY <2>2 DEF Scope, Found
  <2>4. PICK best \in IF found = {} THEN ask[t].among ELSE {c.asked_in : c \in found} :
            Becomes(t, [ask[t] EXCEPT !.pc = "answer", !.among = {}, !.from = best,
                                      !.found = OfTheBest(found, best)])
    BY <2>1 DEF FirstOf
  <2>5. best \in Groups
    BY <2>2, <2>3 DEF Found
  <2>6. OfTheBest(found, best) \in SUBSET Found
    BY <2>3 DEF OfTheBest
  <2> DEFINE r == [ask[t] EXCEPT !.pc = "answer", !.among = {}, !.from = best,
                                 !.found = OfTheBest(found, best)]
  <2>7. r \in Asking
    BY <1>1, <2>5, <2>6 DEF Asking
  <2>8. r.pc = "answer" /\ r.from = best
    BY <1>1 DEF Asking
  <2> HIDE DEF r
  <2>9. Becomes(t, r)
    BY <2>4 DEF r
  <2> QED BY <2>5, <2>7, <2>8, <2>9, ThreadTyped
<1> QED BY <1>2, <1>3, <1>4, <1>5, <1>6, <1>7 DEF Question, Goes

LEMMA GatewayTyped ==
    ASSUME Typed, Watch, Gateway
    PROVE  Typed'
<1> USE DEF Typed, TypeOK, Among, tables
<1>0. Nobody \in Lists
  BY DEF Nobody, Lists
<1>1. ASSUME NEW p \in People, NEW g \in Listed, Joins(p, g) \/ Leaves(p, g) PROVE Typed'
  <2>1. ingroup' \in Lists
    BY <1>1 DEF Joins, Leaves, Lists
  <2> QED BY <1>1, <2>1, WatchTyped DEF Joins, Leaves
<1>2. CASE Opens
  BY <1>0, <1>2, WatchTyped DEF Opens
<1>3. CASE Blanks
  BY <1>0, <1>3, WatchTyped DEF Blanks
<1>4. CASE Reports
  BY <1>4, WatchTyped DEF Reports, gateway
<1>5. ASSUME NEW list \in flight, Takes(list) PROVE Typed'
  <2>1. list \in Lists
    OBVIOUS
  <2>2. members' \in [Groups -> SUBSET People]
    BY <1>5, <2>1 DEF Takes, Remembers, Lists
  <2> QED BY <1>5, <2>2, WatchTyped DEF Takes, gateway
<1>6. ASSUME NEW list \in flight, LosesReport(list) PROVE Typed'
  BY <1>6, WatchTyped DEF LosesReport, gateway
<1> QED BY <1>1, <1>2, <1>3, <1>4, <1>5, <1>6 DEF Gateway

LEMMA AppTyped ==
    ASSUME Typed, Watch, App
    PROVE  Typed'
<1> USE DEF Typed, TypeOK, Among, gateway
<1>0. Gone \in Row /\ \A form \in Forms : form \in Row
  BY PrivatelyAssumption DEF Gone, Row
<1>1. ASSUME NEW g \in Groups, NEW form \in Forms, AddsGroup(g, form) PROVE Typed'
  <2>1. rows' \in [Groups -> Row]
    BY <1>0, <1>1 DEF AddsGroup
  <2> QED BY <1>1, <2>1, WatchTyped DEF AddsGroup
<1>2. ASSUME NEW g \in Groups, NEW form \in Forms, Saves(g, form) PROVE Typed'
  <2>1. rows' \in [Groups -> Row]
    BY <1>0, <1>2 DEF Saves
  <2>2. wrote' \in [Groups -> SUBSET People]
    BY <1>2 DEF Saves
  <2> QED BY <1>2, <2>1, <2>2, WatchTyped DEF Saves
<1>3. ASSUME NEW g \in Groups, RemovesGroup(g) PROVE Typed'
  <2>1. rows' \in [Groups -> Row]
    BY <1>0, <1>3 DEF RemovesGroup
  <2>2. wrote' \in [Groups -> SUBSET People]
    BY <1>3 DEF RemovesGroup
  <2> QED BY <1>3, <2>1, <2>2, WatchTyped DEF RemovesGroup
<1>4. ASSUME NEW g \in Groups, Empties(g) PROVE Typed'
  BY <1>4, WatchTyped DEF Empties
<1>5. ASSUME NEW g \in Groups, NEW p \in People, Writes(p, g) PROVE Typed'
  BY <1>5, WatchTyped DEF Writes
<1>6. CASE Turns
  BY <1>6, WatchTyped DEF Turns, tables
<1>7. CASE Restarts
  <2>1. ask' \in [Threads -> Asking] /\ \A t \in Threads : ask'[t].pc = "idle"
    BY <1>7, IdleTyped DEF Restarts, Idle
  <2> QED BY <1>7, <2>1, WatchTyped DEF Restarts, tables
<1> QED BY <1>1, <1>2, <1>3, <1>4, <1>5, <1>6, <1>7 DEF App

LEMMA NextTyped == Typed /\ [Next]_vars => Typed'
<1> SUFFICES ASSUME Typed, [Next]_vars PROVE Typed'
  OBVIOUS
<1>1. CASE Next
  BY <1>1, GatewayTyped, AppTyped, GoesTyped DEF Next, Step
<1>2. CASE UNCHANGED vars
  BY <1>2 DEF vars, gateway, tables, history, Typed, TypeOK, Among
<1> QED BY <1>1, <1>2

\* The types hold in every state: a question that is being answered has a group.
THEOREM PrivatelyTypes == Spec => []TypeOK
<1>1. Typed => TypeOK
  BY DEF Typed
<1> QED BY <1>1, InitTyped, NextTyped, PTL DEF Spec
-----------------------------------------------------------------------------
(* The history, and what a thread knows. *)

LEMMA InitKnown == Init => ListlessBare /\ \A t \in Threads : Seen(t) /\ Known(t)
<1> SUFFICES ASSUME Init PROVE ListlessBare /\ \A t \in Threads : Seen(t) /\ Known(t)
  OBVIOUS
<1>1. ListlessBare
  BY DEF Init, ListlessBare
<1>2. ASSUME NEW t \in Threads PROVE ask[t].pc = "idle"
  BY DEF Init, Idle
<1> QED BY <1>1, <1>2 DEF Seen, Known

\* Watch puts the present moment into the history, and keeps what was there.
LEMMA WatchSees ==
    ASSUME Watch, NEW t \in Threads
    PROVE  /\ Seen(t)'
           /\ ask'[t].pc # "idle" => theirs[t] \subseteq theirs'[t] /\ opened[t] \subseteq opened'[t]
<1>1. CASE Watching(t)'
  <2>1. theirs'[t] = theirs[t] \cup TheirsNow(ask[t].who)'
    BY <1>1 DEF Watch, TheirsOf
  <2>2. opened'[t] = opened[t] \cup OpenNow(ask[t].who)'
    BY <1>1 DEF Watch, OpenOf
  <2> QED BY <2>1, <2>2 DEF Seen
<1>2. CASE ~Watching(t)'
  BY <1>2 DEF Watching, Seen
<1> QED BY <1>1, <1>2

\* A larger history knows what it knew.
LEMMA KnownStays ==
    ASSUME Watch, NEW t \in Threads, Known(t), ask'[t] = ask[t]
    PROVE  Known(t)'
<1>1. CASE ask[t].pc = "idle"
  BY <1>1 DEF Known
<1>2. CASE ask[t].pc # "idle"
  <2>1. theirs[t] \subseteq theirs'[t] /\ opened[t] \subseteq opened'[t]
    BY <1>2, WatchSees
  <2> QED BY <2>1 DEF Known
<1> QED BY <1>1, <1>2

\* What a candidate is: its row takes the sender's questions at this moment, and
\* what the thread has read says that it is theirs.
LEMMA CandidatesKnown ==
    ASSUME IInv, NEW t \in Threads, ask[t].pc = "wrote"
    PROVE  DmCandidates(ask[t]) \subseteq theirs[t] \cap opened[t]
<1>1. Seen(t) /\ Known(t)
  BY DEF IInv
<1>2. ASSUME NEW g \in DmCandidates(ask[t]) PROVE g \in theirs[t] \cap opened[t]
  <2>1. /\ g \in Groups /\ Open(g, ask[t].who)
        /\ MemberOf(g, ask[t].who, ask[t].reported[g], g \in ask[t].wrote)
    BY DEF DmCandidates
  <2>2. g \in opened[t]
    BY <1>1, <2>1 DEF Seen, OpenNow
  <2>3. CASE ask[t].who \in ask[t].reported[g]
    BY <1>1, <2>1, <2>2, <2>3 DEF Known
  <2>4. CASE g \notin Listed /\ g \in ask[t].wrote
    BY <1>1, <2>2, <2>4 DEF Known
  <2> QED BY <2>1, <2>3, <2>4 DEF MemberOf
<1> QED BY <1>2

LEMMA GoesKnown ==
    ASSUME IInv, Watch, NEW t \in Threads, Question(t)
    PROVE  Known(t)'
<1>0. /\ Seen(t) /\ Known(t) /\ ask \in [Threads -> Asking] /\ ask[t] \in Asking
      /\ PrivatelyAssumption
  BY PrivatelyAssumption DEF IInv, Typed, TypeOK
<1>1. ask'[t].pc # "idle" => theirs[t] \subseteq theirs'[t] /\ opened[t] \subseteq opened'[t]
  BY WatchSees
<1>2. ASSUME NEW p \in People, Asks(t, p) PROVE Known(t)'
  <2>1. ask'[t].pc = "asked"
    BY <1>0, <1>2 DEF Asks, Becomes, Idle
  <2> QED BY <2>1 DEF Known
<1>3. CASE ReadsMembers(t)
  <2>1. ask'[t] = [ask[t] EXCEPT !.pc = "members", !.reported = members] /\ ask[t].pc = "asked"
    BY <1>0, <1>3 DEF ReadsMembers, Becomes
  <2>2. ask'[t].pc = "members" /\ ask'[t].who = ask[t].who /\ ask'[t].reported = members
    BY <1>0, <2>1 DEF Asking
  <2>3. ASSUME NEW g \in Groups, ask[t].who \in members[g] PROVE g \in theirs[t]
    <3>1. g \in Listed
      BY <2>3 DEF IInv, ListlessBare
    <3> QED BY <1>0, <2>1, <2>3, <3>1 DEF Seen, TheirsNow
  <2> QED BY <1>1, <2>2, <2>3 DEF Known
<1>4. CASE ReadsWrote(t)
  <2> DEFINE here == {g \in Groups : ask[t].who \in wrote[g]}
  <2>1. ask'[t] = [ask[t] EXCEPT !.pc = "wrote", !.wrote = here] /\ ask[t].pc = "members"
    BY <1>0, <1>4 DEF ReadsWrote, Becomes
  <2>2. /\ ask'[t].pc = "wrote" /\ ask'[t].who = ask[t].who
        /\ ask'[t].reported = ask[t].reported /\ ask'[t].wrote = here
    BY <1>0, <2>1 DEF Asking
  <2>3. \A g \in here \ Listed : g \in theirs[t]
    BY <1>0, <2>1 DEF Seen, TheirsNow
  <2>4. \A g \in Groups : ask[t].who \in ask[t].reported[g] => g \in theirs[t]
    BY <1>0, <2>1 DEF Known
  <2> HIDE DEF here
  <2> QED BY <1>1, <2>2, <2>3, <2>4 DEF Known
<1>5. CASE StaysSilent(t) \/ Answers(t)
  <2>1. ask'[t].pc = "idle"
    BY <1>0, <1>5 DEF StaysSilent, Answers, Becomes, Idle
  <2> QED BY <2>1 DEF Known
<1>6. CASE Chooses(t)
  <2>1. PICK first \in (SUBSET DmCandidates(ask[t])) \ {{}} :
            Becomes(t, [Idle EXCEPT !.pc = "search", !.who = ask[t].who, !.among = first])
    BY <1>6 DEF Chooses
  <2>2. ask'[t].pc = "search" /\ ask'[t].among = first
    BY <1>0, <2>1 DEF Becomes, Idle
  <2>3. first \subseteq theirs[t] \cap opened[t]
    BY <1>6, CandidatesKnown DEF Chooses
  <2> QED BY <1>1, <2>2, <2>3 DEF Known
<1>7. CASE Searches(t)
  <2>1. ask[t].pc = "search" /\ ask[t].among \subseteq theirs[t] \cap opened[t]
    BY <1>0, <1>7 DEF Searches, Known
  <2>2. PICK found \in SUBSET UNION {Scope(g) : g \in ask[t].among} :
            \E best \in IF found = {} THEN FirstOf(ask[t].among) ELSE {c.asked_in : c \in found} :
                Becomes(t, [ask[t] EXCEPT !.pc = "answer", !.among = {}, !.from = best,
                                          !.found = OfTheBest(found, best)])
    BY <1>7 DEF Searches
  <2>3. PICK best \in IF found = {} THEN ask[t].among ELSE {c.asked_in : c \in found} :
            Becomes(t, [ask[t] EXCEPT !.pc = "answer", !.among = {}, !.from = best,
                                      !.found = OfTheBest(found, best)])
    BY <2>2 DEF FirstOf
  <2>4. \A c \in found : c.asked_in \in ask[t].among /\ c.owner \in {c.asked_in, Shared}
    BY DEF Scope
  <2>5. best \in ask[t].among
    BY <2>4
  <2>6. \A c \in OfTheBest(found, best) : c.owner \in {best, Shared}
    BY <2>4 DEF OfTheBest
  <2> DEFINE part == OfTheBest(found, best)
  <2>7. ask'[t] = [ask[t] EXCEPT !.pc = "answer", !.among = {}, !.from = best, !.found = part]
    BY <1>0, <2>3 DEF Becomes
  <2> HIDE DEF part
  <2>8. ask'[t].pc = "answer" /\ ask'[t].from = best /\ ask'[t].found = part
    BY <1>0, <2>7 DEF Asking
  <2> QED BY <1>1, <2>1, <2>5, <2>6, <2>8 DEF Known, part
<1> QED BY <1>2, <1>3, <1>4, <1>5, <1>6, <1>7 DEF Question, Goes

\* Only a report writes the table, and only for the groups of its channel.
LEMMA ListlessStays ==
    ASSUME IInv, [Next]_vars
    PROVE  ListlessBare'
<1>1. ASSUME NEW list \in flight, Takes(list) PROVE ListlessBare'
  BY <1>1 DEF Takes, Remembers, IInv, ListlessBare
<1>2. CASE UNCHANGED members
  BY <1>2 DEF IInv, ListlessBare
<1>3. Gateway => UNCHANGED members \/ \E list \in flight : Takes(list)
  BY DEF Gateway, Joins, Leaves, Opens, Blanks, Reports, LosesReport, tables
<1>4. App => UNCHANGED members
  BY DEF App, AddsGroup, Saves, RemovesGroup, Empties, Writes, Turns, Restarts, tables
<1>5. ASSUME NEW t \in Threads, Question(t) PROVE UNCHANGED members
  BY <1>5 DEF Question, Goes, Asks, ReadsMembers, ReadsWrote, StaysSilent, Chooses, Searches,
              Answers, Becomes, tables
<1>6. UNCHANGED vars => UNCHANGED members
  BY DEF vars, tables
<1> QED BY <1>1, <1>2, <1>3, <1>4, <1>5, <1>6 DEF Next, Step

LEMMA NextKnown ==
    ASSUME IInv, Next, NEW t \in Threads
    PROVE  Known(t)'
<1>0. Known(t) /\ Watch /\ ask \in [Threads -> Asking]
  BY DEF IInv, Typed, TypeOK, Next
<1>1. CASE ask'[t] = ask[t]
  BY <1>0, <1>1, KnownStays
<1>2. Gateway => UNCHANGED ask
  BY DEF Gateway, Joins, Leaves, Opens, Blanks, Reports, Takes, LosesReport
<1>3. App => UNCHANGED ask \/ Restarts
  BY DEF App, AddsGroup, Saves, RemovesGroup, Empties, Writes, Turns
<1>4. CASE Restarts
  <2>1. ask'[t].pc = "idle"
    BY <1>4 DEF Restarts, Idle
  <2> QED BY <2>1 DEF Known
<1>5. ASSUME NEW u \in Threads, Question(u) PROVE Known(t)'
  <2>1. CASE u = t
    BY <1>0, <1>5, <2>1, GoesKnown
  <2>2. CASE u # t
    <3>1. \E r : Becomes(u, r)
      BY <1>5 DEF Question, Goes, Asks, ReadsMembers, ReadsWrote, StaysSilent, Chooses, Searches, Answers
    <3>2. ask'[t] = ask[t]
      BY <1>0, <2>2, <3>1 DEF Becomes
    <3> QED BY <1>1, <3>2
  <2> QED BY <2>1, <2>2
<1> QED BY <1>1, <1>2, <1>3, <1>4, <1>5 DEF Next, Step

LEMMA Inductive == Spec => []IInv
<1>1. Init => IInv
  BY InitTyped, InitKnown DEF IInv
<1>2. IInv /\ [Next]_vars => IInv'
  <2> SUFFICES ASSUME IInv, [Next]_vars PROVE IInv'
    OBVIOUS
  <2>1. Typed' /\ ListlessBare'
    BY NextTyped, ListlessStays DEF IInv
  <2>2. CASE Next
    <3>1. ASSUME NEW t \in Threads PROVE Seen(t)' /\ Known(t)'
      BY <2>2, NextKnown, WatchSees DEF Next
    <3> QED BY <2>1, <3>1 DEF IInv
  <2>3. CASE UNCHANGED vars
    BY <2>1, <2>3 DEF IInv, vars, gateway, tables, history, Seen, Known, TheirsNow, OpenNow,
                      Open, Quiet
  <2> QED BY <2>2, <2>3
<1> QED BY <1>1, <1>2, PTL DEF Spec

\* A private answer is from a group that was the asker's, and open to the asker,
\* while the question was under way, whatever changed between its reads.
THEOREM PrivatelyAnswersMembers == Spec => []OnlyFromTheirs
<1>1. IInv => OnlyFromTheirs
  BY DEF IInv, Known, OnlyFromTheirs, Answering
<1> QED BY <1>1, Inductive, PTL

\* And it is taken from the chunks of that group and the shared ones only.
THEOREM PrivatelyKeepsGroupsApart == Spec => []OfThatGroup
<1>1. IInv => OfThatGroup
  BY DEF IInv, Known, OfThatGroup, Answering
<1> QED BY <1>1, Inductive, PTL
=============================================================================
