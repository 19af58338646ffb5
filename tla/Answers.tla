------------------------------ MODULE Answers ------------------------------
(***************************************************************************)
(* What one group's questions cost and what its answers are built on: the  *)
(* threads that serve /ask, the loop that extracts decisions from chunks,  *)
(* the members' corrections, the facts these write, the question log that  *)
(* is also the account of the spending, and the erasures of all that.      *)
(*                                                                         *)
(* A call of the model costs one unit.  A statement, a question and the    *)
(* ranking of chunks are left out; an answer is one of a few texts, since  *)
(* a correction finds what it corrects by the text.  Whatever is similar   *)
(* is a choice, bounded by what the code offers to choose from; so is      *)
(* whether a sender has asked too much lately, and whether the reply to an *)
(* extraction says how many tokens it took.                                *)
(*                                                                         *)
(* Statements are autocommit: an action is one statement, one transaction, *)
(* or the code up to the next call of the model.                           *)
(***************************************************************************)
EXTENDS Integers, FiniteSets

CONSTANTS
    Threads,      \* of the pool that serves requests
    Members,      \* of the group
    Panel,        \* who asks when the admin tries a question
    Texts,        \* of answers
    SlowDown,     \* SLOW_DOWN of asking.py
    Unsaid,       \* the text of a log row that was nobody's answer
    NoOne,        \* the author of a decision
    Cap,          \* the monthly cap
    PerTick,      \* PER_TICK of extraction.py
    MaxFacts, MaxChunks, MaxAsks,  \* bounds on what there is
    MaxFound,     \* a bound on the statements of one reply
    MaxEvents     \* a bound on deletions, failures and replies without usage

ASSUME AnswersAssumption ==
    /\ IsFiniteSet(Threads) /\ Threads # {}
    /\ Panel \notin Members /\ NoOne \notin Members \cup {Panel}
    /\ SlowDown \notin Texts /\ Unsaid \notin Texts \cup {SlowDown}
    /\ Cap \in Nat /\ PerTick \in Nat \ {0}
    /\ {MaxFacts, MaxChunks, MaxAsks, MaxFound, MaxEvents} \subseteq Nat

Ids == 1..MaxFacts
Chunks == 1..MaxChunks

VARIABLES
    \* the table of facts
    lastId,      \* of the sequence that numbers them
    live,        \* the ids of its rows
    successor,   \* superseded_by, 0 when null
    author,      \* sender_jid of a correction, NoOne for a decision
    source,      \* the chunk of a decision, 0 for a correction
    \* the other tables
    made,        \* how many chunks have been made
    papers,      \* those made of a document of the group's
    chunks,      \* those still there
    pending,     \* those with facts_extracted unset
    lastRow,     \* of the sequence that numbers the questions logged
    log,         \* query_log
    posted,      \* the texts of the bot's messages in the table of messages
    optedOut,    \* the list in the group's settings
    \* the processes
    thread,      \* what each thread is at
    loop,        \* what the extraction loop is at
    \* bounds, and history
    asks, events,
    overruled,   \* what each correction superseded when it was stored
    due,         \* how many calls were paid for, less those that left the account
    erased,      \* members on the list who were erased since they came on it
    late,        \* those who had a request running then
    deleted,     \* chunks that were there when the chat was deleted
    held         \* those the loop had in its hands then

facts == <<lastId, live, successor, author, source, overruled>>
index == <<made, papers, chunks, pending>>
account == <<lastRow, log, due>>
people == <<posted, optedOut>>
bounds == <<asks, events>>
erasures == <<erased, late, deleted, held>>
vars == <<facts, index, account, people, thread, loop, bounds, erasures>>

Idle == [pc |-> "idle", by |-> NoOne, facts |-> {}, text |-> Unsaid]
Rest == [pc |-> "idle", chunk |-> 0, known |-> {}, left |-> 0, todo |-> {}]

Init ==
    /\ lastId = 0 /\ live = {}
    /\ successor = [f \in Ids |-> 0] /\ source = [f \in Ids |-> 0]
    /\ author = [f \in Ids |-> NoOne] /\ overruled = [f \in Ids |-> {}]
    /\ made = 0 /\ papers = {} /\ chunks = {} /\ pending = {}
    /\ lastRow = 0 /\ log = {} /\ due = 0
    /\ posted = {} /\ optedOut = {}
    /\ thread = [t \in Threads |-> Idle] /\ loop = Rest
    /\ asks = 0 /\ events = 0
    /\ erased = {} /\ late = {} /\ deleted = {} /\ held = {}

Event == events < MaxEvents /\ events' = events + 1 /\ UNCHANGED asks
-----------------------------------------------------------------------------
(* The tables. *)

\* What has not been replaced.
Active == {f \in live : successor[f] = 0}

\* mutant: what has been replaced already can be replaced again.
ReplaceableAgain(old) == old \cap live

\* Ids that were read earlier are suggestions: only what is active now is
\* replaced.
Replaceable(old) == old \cap Active

\* facts.add, its transaction.
Adds(who, chunk, old) ==
    LET new == lastId + 1
        replaced == Replaceable(old)
    IN  /\ new \in Ids
        /\ lastId' = new
        /\ live' = live \cup {new}
        /\ successor' = [f \in Ids |-> IF f \in replaced THEN new ELSE successor[f]]
        /\ author' = [author EXCEPT ![new] = who]
        /\ source' = [source EXCEPT ![new] = chunk]
        /\ overruled' = [overruled EXCEPT ![new] = IF who = NoOne THEN {} ELSE replaced]

\* What else the rows held is gone with them.
Blanks(gone) ==
    /\ author' = [f \in Ids |-> IF f \in gone THEN NoOne ELSE author[f]]
    /\ source' = [f \in Ids |-> IF f \in gone THEN 0 ELSE source[f]]
    /\ overruled' = [f \in Ids |-> IF f \in gone THEN {} ELSE overruled[f] \ gone]
    /\ UNCHANGED lastId

\* mutant: the rows go, and what they replaced still points at them.
LosesFactsOnly(gone) ==
    /\ live' = live \ gone
    /\ UNCHANGED successor
    /\ Blanks(gone)

\* Rows go, and what they replaced is active again: ON DELETE SET NULL.
LosesFacts(gone) ==
    /\ live' = live \ gone
    /\ successor' = [f \in Ids |-> IF f \in gone \/ successor[f] \in gone THEN 0 ELSE successor[f]]
    /\ Blanks(gone)

\* query_log.record.
Records(who, text, found, cost) ==
    /\ lastRow' = lastRow + 1
    /\ log' = log \cup {[id |-> lastRow + 1, by |-> who, text |-> text, facts |-> found, cost |-> cost]}

CostOf(rows) == Cardinality({r \in rows : r.cost = 1})

\* So many calls will be in no sum any more, or never were.
Leaves(n) == due' = due - n

\* Rows go, and their cost goes with them.
Strikes(rows) ==
    /\ log' = log \ rows
    /\ Leaves(CostOf(rows))
    /\ UNCHANGED lastRow

\* This month's spending is a sum over the log.
Spent == CostOf(log)

\* mutant: a cap that is reached is not exceeded.
ExceededAbove == Spent > Cap

Exceeded == Spent >= Cap

\* Ids that are left, less those promised to what is under way.
Room == MaxFacts - lastId - loop.left - Cardinality({t \in Threads : thread[t].pc = "correcting"})
-----------------------------------------------------------------------------
(* /ask. *)

At(t, pc) == thread[t].pc = pc
Becomes(t, r) == thread' = [thread EXCEPT ![t] = r]
Ends(t) == Becomes(t, Idle)

\* The answer is on its way back, and the gateway will post it.  An answer in
\* the panel is shown, and goes nowhere.
Replies(t, text) ==
    IF thread[t].by = Panel THEN Ends(t)
    ELSE Becomes(t, [Idle EXCEPT !.pc = "sending", !.by = thread[t].by, !.text = text])

\* Too many questions in a row: the question is logged and put off, before
\* anyone looks whether the sender has opted out.  What it is told is built
\* on nothing, and to dispute it finds nothing.
Throttled(who) ==
    /\ asks < MaxAsks /\ asks' = asks + 1
    /\ Records(who, SlowDown, {}, 0)
    /\ UNCHANGED <<facts, index, due, people, thread, loop, events, erasures>>

\* The group is on and the sender has not opted out.
Ask(t, who) ==
    /\ At(t, "idle")
    /\ asks < MaxAsks /\ asks' = asks + 1
    /\ who \notin optedOut
    /\ Becomes(t, [Idle EXCEPT !.pc = "asked", !.by = who])
    /\ UNCHANGED <<facts, index, account, people, loop, events, erasures>>

\* Nothing was found, there is no provider, or the cap is reached: the answer
\* says so, and costs nothing.
Declines(t) ==
    /\ At(t, "asked")
    /\ \E text \in Texts :
        /\ Records(thread[t].by, text, {}, 0)
        /\ Replies(t, text)
    /\ UNCHANGED <<facts, index, due, people, loop, bounds, erasures>>

Affords(t) ==
    /\ At(t, "asked")
    /\ ~Exceeded
    /\ Becomes(t, [thread[t] EXCEPT !.pc = "afforded"])
    /\ UNCHANGED <<facts, index, account, people, loop, bounds, erasures>>

\* facts.search, none when decisions are not tracked; the call of the model
\* begins.
Calls(t) ==
    /\ At(t, "afforded")
    /\ \E found \in SUBSET Active :
        Becomes(t, [thread[t] EXCEPT !.pc = "calling", !.facts = found])
    /\ UNCHANGED <<facts, index, account, people, loop, bounds, erasures>>

Answered(t) ==
    /\ At(t, "calling")
    /\ \E text \in Texts : Becomes(t, [thread[t] EXCEPT !.pc = "answered", !.text = text])
    /\ due' = due + 1
    /\ UNCHANGED <<facts, index, lastRow, log, people, loop, bounds, erasures>>

\* mutant: when the source is gone, the question ends without a row.
LogsOrNot(t) ==
    /\ At(t, "answered")
    /\ Replies(t, thread[t].text)
    /\ \/ Records(thread[t].by, thread[t].text, thread[t].facts, 1)
       \/ UNCHANGED <<lastRow, log>>
    /\ UNCHANGED <<facts, index, due, people, loop, bounds, erasures>>

\* Whether it is an answer, a refusal, or its source is gone: it is logged,
\* with its cost, which answer.generate estimates when no usage is reported.
Logs(t) ==
    /\ At(t, "answered")
    /\ Replies(t, thread[t].text)
    /\ Records(thread[t].by, thread[t].text, thread[t].facts, 1)
    /\ UNCHANGED <<facts, index, due, people, loop, bounds, erasures>>

\* The gateway posts the answer and hands it back to /ingest, or fails to.
Posts(t) ==
    /\ At(t, "sending")
    /\ posted' \in {posted, posted \cup {thread[t].text}}
    /\ Ends(t)
    /\ UNCHANGED <<facts, index, account, optedOut, loop, bounds, erasures>>

\* The row the text of an answer belongs to is the last one with that text.
Latest(text) == {r \in log : r.text = text /\ \A s \in log : s.text = text => s.id <= r.id}

\* A member replies "wrong" to an answer: what that was built on is looked up.
Disputes(t) ==
    /\ At(t, "asked")
    /\ thread[t].by \in Members
    /\ Room > 0
    /\ \E text \in posted :
        Becomes(t, [thread[t] EXCEPT !.pc = "correcting", !.facts = UNION {r.facts : r \in Latest(text)}])
    /\ UNCHANGED <<facts, index, account, people, loop, bounds, erasures>>

Corrects(t) ==
    /\ At(t, "correcting")
    /\ Adds(thread[t].by, 0, thread[t].facts)
    /\ Becomes(t, [thread[t] EXCEPT !.pc = "corrected", !.facts = {}])
    /\ UNCHANGED <<index, account, people, loop, bounds, erasures>>

LogsCorrection(t) ==
    /\ At(t, "corrected")
    /\ Records(thread[t].by, Unsaid, {}, 0)
    /\ Ends(t)
    /\ UNCHANGED <<facts, index, due, people, loop, bounds, erasures>>

\* An exception ends the request: the model's, or the database's.
Raises(t) ==
    /\ ~At(t, "idle")
    /\ Event
    /\ Leaves(IF At(t, "answered") THEN 1 ELSE 0)
    /\ Ends(t)
    /\ UNCHANGED <<facts, index, lastRow, log, people, loop, erasures>>
-----------------------------------------------------------------------------
(* The extraction loop. *)

Chunked ==
    /\ made < MaxChunks
    /\ made' = made + 1
    /\ chunks' = chunks \cup {made + 1} /\ pending' = pending \cup {made + 1}
    /\ UNCHANGED <<facts, papers, account, people, thread, loop, bounds, erasures>>

\* The documents loop stores a chunk of a file of the group's, instead of those
\* it had; facts_extracted is unset here too.  A call of the model that read a
\* page of it is in no account.
StoresDocument(old) ==
    /\ made < MaxChunks
    /\ made' = made + 1 /\ papers' = papers \cup {made + 1}
    /\ chunks' = (chunks \ old) \cup {made + 1} /\ pending' = (pending \ old) \cup {made + 1}
    /\ UNCHANGED <<facts, account, people, thread, loop, bounds, erasures>>

\* There is something to do, and the cap allows it.
Tick ==
    /\ loop.pc = "idle"
    /\ pending # {} /\ ~Exceeded
    /\ loop' = [loop EXCEPT !.pc = "afforded"]
    /\ UNCHANGED <<facts, index, account, people, thread, bounds, erasures>>

\* The first PerTick in the order of their ids, or all when there are fewer.
Oldest(first) ==
    /\ Cardinality(first) <= PerTick
    /\ first # pending => Cardinality(first) = PerTick
    /\ \A c \in first, d \in pending \ first : c < d

ReadsChunks ==
    /\ loop.pc = "afforded"
    /\ \E first \in SUBSET pending :
        /\ Oldest(first)
        /\ loop' = [loop EXCEPT !.pc = "next", !.todo = first]
    /\ UNCHANGED <<facts, index, account, people, thread, bounds, erasures>>

TickEnds ==
    /\ loop.pc = "next" /\ loop.todo = {}
    /\ loop' = Rest
    /\ UNCHANGED <<facts, index, account, people, thread, bounds, erasures>>

\* The one whose turn it is.
First(c) == c \in loop.todo /\ \A d \in loop.todo : c <= d

\* A chunk of a document has no time to put into the prompt: extract raises,
\* which is no refusal, and the tick breaks off.
Stumbles ==
    /\ loop.pc = "next"
    /\ \E c \in papers : First(c)
    /\ loop' = Rest
    /\ UNCHANGED <<facts, index, account, people, thread, bounds, erasures>>

\* The next chunk and the facts it may replace go to the model.
Extracts ==
    /\ loop.pc = "next"
    /\ \E c \in loop.todo \ papers :
        /\ First(c)
        /\ loop' = [loop EXCEPT !.pc = "calling", !.chunk = c, !.known = Active, !.todo = @ \ {c}]
    /\ UNCHANGED <<facts, index, account, people, thread, bounds, erasures>>

\* The model found statements, or none.
Finds ==
    /\ loop.pc = "calling"
    /\ \E n \in 0..MaxFound : n <= Room /\ loop' = [loop EXCEPT !.pc = "adding", !.left = n]
    /\ due' = due + 1
    /\ UNCHANGED <<facts, index, lastRow, log, people, thread, bounds, erasures>>

\* Its reply is JSON, but facts are no objects or supersedes is no list: _parse
\* raises, and the tick breaks off.  The call is paid for, and leaves at once.
Garbles ==
    /\ loop.pc = "calling"
    /\ loop' = Rest
    /\ UNCHANGED <<facts, index, account, people, thread, bounds, erasures>>

\* The loop is done with a chunk.
Proceeds == loop' = [Rest EXCEPT !.pc = "next", !.todo = loop.todo]

\* mutant: a chunk the provider refuses is left to the next tick.
RefusesForNow ==
    /\ loop.pc = "calling"
    /\ Proceeds
    /\ UNCHANGED <<facts, index, account, people, thread, bounds, erasures>>

\* mutant: and the call is logged with a cost, which it had none.
RefusesAtACost ==
    /\ loop.pc = "calling"
    /\ pending' = pending \ {loop.chunk}
    /\ loop' = [Rest EXCEPT !.pc = "marked", !.todo = loop.todo]
    /\ UNCHANGED <<facts, made, papers, chunks, account, people, thread, bounds, erasures>>

\* A 4xx is final: the chunk is marked, and the next one is taken.
RefusesChunk ==
    /\ loop.pc = "calling"
    /\ pending' = pending \ {loop.chunk}
    /\ Proceeds
    /\ UNCHANGED <<facts, made, papers, chunks, account, people, thread, bounds, erasures>>

AddsDecision ==
    /\ loop.pc = "adding" /\ loop.left > 0
    /\ \E old \in SUBSET loop.known : Adds(NoOne, loop.chunk, old)
    /\ loop' = [loop EXCEPT !.left = @ - 1]
    /\ UNCHANGED <<index, account, people, thread, bounds, erasures>>

\* It replaces nothing, and repeats what is active.
Restates ==
    /\ loop.pc = "adding" /\ loop.left > 0
    /\ Active # {}
    /\ loop' = [loop EXCEPT !.left = @ - 1]
    /\ UNCHANGED <<facts, index, account, people, thread, bounds, erasures>>

Marks ==
    /\ loop.pc = "adding" /\ loop.left = 0
    /\ pending' = pending \ {loop.chunk}
    /\ loop' = [Rest EXCEPT !.pc = "marked", !.todo = loop.todo]
    /\ UNCHANGED <<facts, made, papers, chunks, account, people, thread, bounds, erasures>>

LogsExtraction ==
    /\ loop.pc = "marked"
    /\ Records(NoOne, Unsaid, {}, 1)
    /\ Proceeds
    /\ UNCHANGED <<facts, index, due, people, thread, bounds, erasures>>

\* The reply has no usage: its tokens are none, and so is the cost.
LogsForFree ==
    /\ loop.pc = "marked"
    /\ Event
    /\ Records(NoOne, Unsaid, {}, 0)
    /\ Leaves(1)
    /\ Proceeds
    /\ UNCHANGED <<facts, index, people, thread, erasures>>

\* An outage, or the database fails.
BreaksOff ==
    /\ loop.pc # "idle"
    /\ Event
    /\ Leaves(IF loop.pc \in {"adding", "marked"} THEN 1 ELSE 0)
    /\ loop' = Rest
    /\ UNCHANGED <<facts, index, lastRow, log, people, thread, erasures>>
-----------------------------------------------------------------------------
(* The admin, and retention. *)

RemovesFact(f) ==
    /\ Event
    /\ LosesFacts({f})
    /\ UNCHANGED <<index, account, people, thread, loop, erasures>>

\* The rows up to one: those older than some days, by the panel or retention,
\* or all of them.
ClearsLog(row) ==
    /\ Event
    /\ Strikes({r \in log : r.id <= row.id})
    /\ UNCHANGED <<facts, index, people, thread, loop, erasures>>

DeletesQuestion(row) ==
    /\ Event
    /\ Strikes({row})
    /\ UNCHANGED <<facts, index, people, thread, loop, erasures>>

LosesChunks(gone) ==
    /\ chunks' = chunks \ gone /\ pending' = pending \ gone
    /\ UNCHANGED <<made, papers>>

\* Chunks the loop read and is not done with.
Hands == loop.todo \cup IF loop.pc \in {"calling", "adding"} THEN {loop.chunk} ELSE {}

\* mutant: the decisions stay.
DeletesChatOnly ==
    /\ Event
    /\ UNCHANGED facts
    /\ LosesChunks(chunks \ papers) /\ posted' = {}
    /\ deleted' = deleted \cup (chunks \ papers)
    /\ held' = held \cup Hands
    /\ UNCHANGED <<account, optedOut, thread, loop, erased, late>>

\* purge_group_messages: chunks, facts and messages in one transaction.
\* Documents were not said in the group, and stay.
DeletesChat ==
    /\ Event
    /\ LosesFacts(live)
    /\ LosesChunks(chunks \ papers) /\ posted' = {}
    /\ deleted' = deleted \cup (chunks \ papers)
    /\ held' = held \cup Hands
    /\ UNCHANGED <<account, optedOut, thread, loop, erased, late>>

\* A document is deleted, or waits to be read anew.
DropsDocument(gone) ==
    /\ Event
    /\ LosesChunks(gone)
    /\ UNCHANGED <<facts, account, people, thread, loop, erasures>>

\* The whole list is written, as it was filled in or as it was read some time
\* before, and the erasure of who is new on it follows in another transaction.
SavesOptOuts(list) ==
    /\ list # optedOut /\ optedOut' = list
    /\ erased' = erased \cap list /\ late' = late \cap list
    /\ UNCHANGED <<facts, index, account, posted, thread, loop, bounds, deleted, held>>

\* mutant: their corrections stay.
PurgesQuestions(m, spoke) ==
    /\ UNCHANGED facts
    /\ Strikes({r \in log : r.by = m})
    /\ LosesChunks(spoke)

\* purge_sender: the chunks they spoke in, their questions and corrections.
Purges(m, spoke) ==
    /\ LosesFacts({f \in live : author[f] = m})
    /\ Strikes({r \in log : r.by = m})
    /\ LosesChunks(spoke)

Asking(m) == \E t \in Threads : thread[t].by = m /\ ~At(t, "sending")

PurgeSender(m, spoke) ==
    /\ Event
    /\ Purges(m, spoke)
    /\ erased' = IF m \in optedOut THEN erased \cup {m} ELSE erased
    /\ late' = IF m \in optedOut /\ Asking(m) THEN late \cup {m} ELSE late \ {m}
    /\ UNCHANGED <<people, thread, loop, deleted, held>>

\* The statements of run_once; the one on query_log is ClearsLog.  To embed a
\* group anew removes all its chunks, and leaves the facts likewise.
RetentionChunks(gone) ==
    /\ Event
    /\ LosesChunks(gone)
    /\ UNCHANGED <<facts, account, people, thread, loop, erasures>>

RetentionFacts(gone) ==
    /\ Event
    /\ LosesFacts(gone)
    /\ UNCHANGED <<index, account, people, thread, loop, erasures>>
-----------------------------------------------------------------------------

Asks(t) ==
    \/ \E who \in Members \cup {Panel} : Ask(t, who)
    \/ Declines(t) \/ Affords(t) \/ Calls(t) \/ Answered(t) \/ Logs(t) \/ Posts(t)
    \/ Disputes(t) \/ Corrects(t) \/ LogsCorrection(t)
    \/ Raises(t)

LoopRuns ==
    \/ Tick \/ ReadsChunks \/ TickEnds \/ Stumbles \/ Extracts
    \/ Finds \/ Garbles \/ RefusesChunk
    \/ AddsDecision \/ Restates \/ Marks \/ LogsExtraction

Deletions ==
    \/ \E f \in live : RemovesFact(f)
    \/ \E row \in log : ClearsLog(row) \/ DeletesQuestion(row)
    \/ DeletesChat
    \/ \E list \in SUBSET Members : SavesOptOuts(list)
    \/ \E m \in Members : \E spoke \in SUBSET (chunks \ papers) : PurgeSender(m, spoke)
    \/ \E gone \in SUBSET (chunks \ papers) \ {{}} : RetentionChunks(gone)
    \/ \E gone \in SUBSET (chunks \cap papers) \ {{}} : DropsDocument(gone)
    \/ \E gone \in SUBSET live \ {{}} : RetentionFacts(gone)

Stored == Chunked \/ \E old \in SUBSET (chunks \cap papers) : StoresDocument(old)

Next ==
    \/ \E t \in Threads : Asks(t)
    \/ \E who \in Members : Throttled(who)
    \/ Stored \/ LoopRuns \/ LogsForFree \/ BreaksOff \/ Deletions

Spec == Init /\ [][Next]_vars

\* The loop ticks every 90 s, the model answers or fails, and failures end.
FairSpec == Spec /\ WF_vars(LoopRuns)
-----------------------------------------------------------------------------
(* What each variable holds.  No id is ahead of its sequence, a row that is *)
(* gone leaves nothing behind, and no call is logged that was not made.    *)
TypeOK ==
    /\ lastId \in 0..MaxFacts /\ live \subseteq 1..lastId
    /\ successor \in [Ids -> 0..lastId] /\ source \in [Ids -> 0..made]
    /\ author \in [Ids -> Members \cup {Panel, NoOne}]
    /\ overruled \in [Ids -> SUBSET (1..lastId)]
    /\ \A f \in Ids \ live : successor[f] = 0 /\ source[f] = 0 /\ author[f] = NoOne
    /\ made \in 0..MaxChunks /\ papers \subseteq 1..made
    /\ chunks \subseteq 1..made /\ pending \subseteq chunks
    /\ lastRow \in Nat /\ IsFiniteSet(log)
    /\ \A r \in log :
        /\ r.id \in 1..lastRow /\ r.by \in Members \cup {Panel, NoOne} /\ r.text \in Texts \cup {SlowDown, Unsaid}
        /\ r.facts \subseteq 1..lastId /\ r.cost \in 0..1
    /\ posted \subseteq Texts /\ optedOut \subseteq Members
    /\ thread \in [Threads -> [pc : {"idle", "asked", "afforded", "calling", "answered",
                                     "sending", "correcting", "corrected"},
                               by : Members \cup {Panel, NoOne},
                               facts : SUBSET (1..lastId), text : Texts \cup {Unsaid}]]
    /\ loop \in [pc : {"idle", "afforded", "next", "calling", "adding", "marked"},
                 chunk : 0..made, known : SUBSET (1..lastId), left : 0..MaxFound,
                 todo : SUBSET (1..made)]
    /\ asks \in 0..MaxAsks /\ events \in 0..MaxEvents
    /\ due \in Nat /\ Spent <= due
    /\ erased \subseteq optedOut /\ late \subseteq erased
    /\ deleted \subseteq 1..made /\ held \subseteq 0..made

(* A fact that was replaced points at a later one that is still there, so  *)
(* whatever is added and removed, every history ends in a current fact and *)
(* none is out of reach ("a fact that has been replaced keeps its row and  *)
(* points at its successor", migrations/006_facts.sql).                    *)
HistoryEnds ==
    \A f \in live : successor[f] # 0 => successor[f] \in live /\ successor[f] > f

(* A correction outranks what it replaced: as long as it stands, the facts *)
(* it replaced are not current, whoever adds, replaces and removes others, *)
(* the extraction loop with ids it read before the correction included.    *)
CorrectionStands ==
    \A c \in live : \A f \in overruled[c] \cap live : f \notin Active

(* The cap is checked before a call and charged after it, by every thread  *)
(* for each question and by the loop once for a tick.  What the model is   *)
(* paid may exceed the cap by what was under way, and by no more, but for  *)
(* the calls the account does not hold: those whose row a failure or a     *)
(* garbled reply prevented, extractions whose reply reports no usage       *)
(* (facts.py:118), pages of documents (read.py:80), and rows deleted.      *)
SpendBounded == due < Cap + Cardinality(Threads) + PerTick

PaidInHand ==
    Cardinality({t \in Threads : At(t, "answered")}) + IF loop.pc \in {"adding", "marked"} THEN 1 ELSE 0

(* A call that was paid for becomes a row with its cost, whatever comes of *)
(* it, a refusal and a source that vanished included, but for these.       *)
Accounted == due = Spent + PaidInHand

(* "with its tokens and cost" (OPERATIONS.md:150): an extraction is free   *)
(* when the provider reports no usage, which answer.py:76 estimates        *)
(* "instead of silently counting the call as free".                        *)
ExtractionsCost == \A r \in log : r.by = NoOne => r.cost = 1

(* Once a member's words were erased after an opt-out, and as long as they *)
(* stay on the list, none of their questions and corrections is left or    *)
(* comes back, unless a request of theirs was running then.  Only the      *)
(* throttle, which does not look at the list, goes on to log questions.    *)
OptedOutForgotten ==
    \A m \in erased \ late :
        /\ \A r \in log : r.by = m => r.text = SlowDown
        /\ \A f \in live : author[f] # m

(* "nothing they send from now on is kept" (admin/pages_groups.py:252).    *)
OptedOutUnseen == \A m \in erased \ late : \A r \in log : r.by # m

(* Deleting a chat takes its decisions: none comes back from a chunk that  *)
(* was deleted, unless the extraction loop had read it by then.            *)
ChatForgotten ==
    \A f \in live : source[f] \in deleted => source[f] \in held

\* A chunk of a document waits at c or before it.
BehindDocument(c) == \E d \in pending \cap papers : d <= c

(* Every chunk is read for decisions, or goes, or the cap is reached,      *)
(* whatever the model answers about it and the ones before it, unless a    *)
(* chunk of a document is in its way, or the reply for a chunk no later    *)
(* than it is garbled again and again.                                     *)
ChunksAreExtracted ==
    \A c \in Chunks :
        \/ c \in pending ~> c \notin pending \/ Exceeded \/ BehindDocument(c)
        \/ []<><<Garbles /\ loop.chunk <= c>>_vars

(* What must not happen: one chunk "would block every chunk behind it"     *)
(* (extraction.py:61).  A chunk of a document does.                        *)
NothingIsBlocked ==
    \A c \in Chunks :
        \/ c \in pending ~> c \notin pending \/ c \in papers \/ Exceeded
        \/ []<><<Garbles>>_vars
=============================================================================
