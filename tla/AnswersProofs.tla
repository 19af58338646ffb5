--------------------------- MODULE AnswersProofs ---------------------------
(***************************************************************************)
(* Facts and their history, the account of the spending, and what an       *)
(* erasure leaves, for any number of threads, members, facts, chunks,      *)
(* questions, deletions and failures, and for every cap.                   *)
(***************************************************************************)
EXTENDS Answers, FiniteSetTheorems, TLAPS

ThreadType ==
    thread \in [Threads -> [pc : {"idle", "asked", "afforded", "calling", "answered",
                                  "sending", "correcting", "corrected"},
                            by : Members \cup {Panel, NoOne},
                            facts : SUBSET (1..lastId), text : Texts \cup {Unsaid}]]
LoopType ==
    loop \in [pc : {"idle", "afforded", "next", "calling", "adding", "marked"},
              chunk : 0..made, known : SUBSET (1..lastId), left : 0..MaxFound, todo : SUBSET (1..made)]
LogType ==
    /\ lastRow \in Nat /\ IsFiniteSet(log)
    /\ \A r \in log :
        /\ r.id \in 1..lastRow
        /\ r.by \in Members \cup {Panel, NoOne} /\ r.text \in Texts \cup {SlowDown, Unsaid}
        /\ r.facts \subseteq 1..lastId /\ r.cost \in 0..1
FactsType ==
    /\ lastId \in 0..MaxFacts /\ live \subseteq 1..lastId
    /\ successor \in [Ids -> 0..lastId] /\ source \in [Ids -> 0..made]
    /\ author \in [Ids -> Members \cup {Panel, NoOne}]
    /\ overruled \in [Ids -> SUBSET (1..lastId)]
    /\ \A f \in Ids \ live : successor[f] = 0 /\ source[f] = 0 /\ author[f] = NoOne
IndexType ==
    /\ made \in 0..MaxChunks /\ papers \subseteq 1..made
    /\ chunks \subseteq 1..made /\ pending \subseteq chunks
RestType ==
    /\ posted \subseteq Texts /\ optedOut \subseteq Members
    /\ asks \in 0..MaxAsks /\ events \in 0..MaxEvents
    /\ erased \subseteq optedOut /\ late \subseteq erased
    /\ deleted \subseteq 1..made /\ held \subseteq 0..made

Types == FactsType /\ IndexType /\ LogType /\ RestType /\ ThreadType /\ LoopType

-----------------------------------------------------------------------------
(* The parts of a step. *)

\* The table of facts changes by one row added, by rows removed, or not.
LEMMA FactsStep ==
    ASSUME Types, Next
    PROVE  \/ UNCHANGED facts
           \/ \E t \in Threads : thread[t].by \in Members \cup {Panel, NoOne} /\ Adds(thread[t].by, 0, thread[t].facts) /\ UNCHANGED index
           \/ \E old \in SUBSET loop.known : Adds(NoOne, loop.chunk, old) /\ UNCHANGED index
           \/ \E gone \in SUBSET live : LosesFacts(gone) /\ UNCHANGED made
<1>1. ASSUME NEW t \in Threads, Asks(t)
      PROVE  \/ UNCHANGED facts
             \/ thread[t].by \in Members \cup {Panel, NoOne} /\ Adds(thread[t].by, 0, thread[t].facts) /\ UNCHANGED index
  <2>1. CASE Corrects(t)
    BY <2>1 DEF Corrects, Types, ThreadType
  <2> QED
    BY <1>1, <2>1 DEF Asks, Ask, Declines, Affords, Calls, Answered, Logs, Posts, Disputes,
                      LogsCorrection, Raises
<1>2. CASE Stored \/ \E who \in Members : Throttled(who)
  BY <1>2 DEF Stored, Chunked, StoresDocument, Throttled
<1>3. CASE LoopRuns
  BY <1>3 DEF LoopRuns, Tick, ReadsChunks, TickEnds, Stumbles, Extracts, Finds, Garbles, RefusesChunk,
              AddsDecision, Restates, Marks, LogsExtraction
<1>4. CASE LogsForFree \/ BreaksOff
  BY <1>4 DEF LogsForFree, BreaksOff
<1>5. CASE Deletions
  <2>1. CASE \E f \in live : RemovesFact(f)
    BY <2>1 DEF RemovesFact, index
  <2>2. CASE DeletesChat
    BY <2>2 DEF DeletesChat, LosesChunks
  <2>3. CASE \E m \in Members : \E spoke \in SUBSET (chunks \ papers) : PurgeSender(m, spoke)
    BY <2>3 DEF PurgeSender, Purges, LosesChunks
  <2>4. CASE \E gone \in SUBSET live \ {{}} : RetentionFacts(gone)
    BY <2>4 DEF RetentionFacts, index
  <2> QED
    BY <1>5, <2>1, <2>2, <2>3, <2>4 DEF Deletions, ClearsLog, DeletesQuestion, SavesOptOuts,
                                        RetentionChunks, DropsDocument
<1> QED
  BY <1>1, <1>2, <1>3, <1>4, <1>5 DEF Next

\* Nothing is numbered backwards.
LEMMA Forward ==
    ASSUME Types, Next
    PROVE  /\ lastId' \in 0..MaxFacts /\ lastId <= lastId'
           /\ made' \in 0..MaxChunks /\ made <= made'
<1>1. lastId' \in 0..MaxFacts /\ lastId <= lastId'
  BY FactsStep, AnswersAssumption DEF Types, FactsType, facts, Adds, LosesFacts, Blanks, Ids
<1>2. made' \in 0..MaxChunks /\ made <= made'
  <2>1. CASE Stored
    BY <2>1, AnswersAssumption DEF Types, IndexType, Stored, Chunked, StoresDocument
  <2>2. CASE UNCHANGED made
    BY <2>2 DEF Types, IndexType
  <2>3. ASSUME ~Stored PROVE UNCHANGED made
    BY <2>3 DEF Next, Throttled, Asks, Ask, Declines, Affords, Calls, Answered, Logs, Posts, Disputes,
            Corrects, LogsCorrection, Raises, LoopRuns, Tick, ReadsChunks, TickEnds, Stumbles, Extracts,
            Finds, Garbles, RefusesChunk, AddsDecision, Restates, Marks, LogsExtraction,
            LogsForFree, BreaksOff, Deletions, RemovesFact, ClearsLog, DeletesQuestion, DeletesChat,
            SavesOptOuts, PurgeSender, Purges, RetentionChunks, RetentionFacts, DropsDocument,
            LosesChunks, index
  <2> QED
    BY <2>1, <2>2, <2>3
<1> QED
  BY <1>1, <1>2

-----------------------------------------------------------------------------
(* What the variables hold. *)

LEMMA FactsTyped ==
    ASSUME Types, Next
    PROVE  FactsType'
<1>1. /\ lastId' \in 0..MaxFacts /\ lastId <= lastId'
      /\ made' \in 0..MaxChunks /\ made <= made'
  BY Forward
<1>0. lastId \in Nat /\ made \in Nat
  BY AnswersAssumption DEF Types, FactsType, IndexType
<1>a. 0..made \subseteq 0..made' /\ 0..lastId \subseteq 0..lastId'
  BY <1>0, <1>1
<1>2. CASE UNCHANGED facts
  <2>1. source' \in [Ids -> 0..made']
    BY <1>2, <1>a DEF Types, FactsType, facts
  <2> QED
    BY <1>1, <1>2, <2>1 DEF Types, FactsType, facts
<1>3. ASSUME NEW who \in Members \cup {Panel, NoOne}, NEW chunk \in 0..made, NEW old, Adds(who, chunk, old)
      PROVE  FactsType'
  <2>1. lastId' = lastId + 1 /\ lastId' \in Ids
    BY <1>3 DEF Adds
  <2>2. live' = live \cup {lastId + 1} /\ live' \subseteq 1..lastId'
    BY <1>1, <1>3, <2>1 DEF Adds, Types, FactsType
  <2>3. Replaceable(old) \subseteq live
    BY DEF Replaceable, Active
  <2>4. successor' \in [Ids -> 0..lastId']
    <3>1. successor \in [Ids -> 0..lastId'] /\ lastId' \in 0..lastId'
      BY <1>0, <1>a, <2>1 DEF Types, FactsType
    <3>2. successor' = [f \in Ids |-> IF f \in Replaceable(old) THEN lastId' ELSE successor[f]]
      BY <1>3, <2>1 DEF Adds
    <3> QED
      BY <3>1, <3>2
  <2>5. source' \in [Ids -> 0..made']
    BY <1>3, <1>a DEF Adds, Types, FactsType
  <2>6. author' \in [Ids -> Members \cup {Panel, NoOne}]
    BY <1>3 DEF Adds, Types, FactsType
  <2>7. overruled' \in [Ids -> SUBSET (1..lastId')]
    <3>1. (IF who = NoOne THEN {} ELSE Replaceable(old)) \in SUBSET (1..lastId')
      BY <2>2, <2>3
    <3>2. SUBSET (1..lastId) \subseteq SUBSET (1..lastId')
      BY <1>1, <2>1 DEF Types, FactsType
    <3>3. overruled \in [Ids -> SUBSET (1..lastId')]
      BY <3>2 DEF Types, FactsType
    <3> QED
      BY <1>3, <3>1, <3>3 DEF Adds
  <2>8. \A f \in Ids \ live' : successor'[f] = 0 /\ source'[f] = 0 /\ author'[f] = NoOne
    <3> SUFFICES ASSUME NEW f \in Ids \ live'
                 PROVE  successor'[f] = 0 /\ source'[f] = 0 /\ author'[f] = NoOne
      OBVIOUS
    <3>1. f \in Ids \ live /\ f # lastId + 1 /\ f \notin Replaceable(old)
      BY <2>2, <2>3
    <3> QED
      BY <1>3, <3>1 DEF Adds, Types, FactsType
  <2> QED
    BY <1>1, <2>2, <2>4, <2>5, <2>6, <2>7, <2>8 DEF FactsType
<1>4. ASSUME NEW gone \in SUBSET live, LosesFacts(gone), UNCHANGED made
      PROVE  FactsType'
  <2>1. successor' \in [Ids -> 0..lastId'] /\ source' \in [Ids -> 0..made']
    <3>1. 0 \in 0..lastId /\ 0 \in 0..made /\ lastId' = lastId
      BY <1>0, <1>4 DEF LosesFacts, Blanks
    <3>2. successor \in [Ids -> 0..lastId] /\ source \in [Ids -> 0..made]
      BY DEF Types, FactsType
    <3> QED
      BY <1>4, <3>1, <3>2 DEF LosesFacts, Blanks
  <2>2. author' \in [Ids -> Members \cup {Panel, NoOne}] /\ overruled' \in [Ids -> SUBSET (1..lastId')]
    BY <1>4 DEF LosesFacts, Blanks, Types, FactsType
  <2>3. \A f \in Ids \ live' : successor'[f] = 0 /\ source'[f] = 0 /\ author'[f] = NoOne
    BY <1>4 DEF LosesFacts, Blanks, Types, FactsType
  <2>4. live' \subseteq 1..lastId'
    BY <1>4 DEF LosesFacts, Blanks, Types, FactsType
  <2> QED
    BY <1>1, <2>1, <2>2, <2>3, <2>4 DEF FactsType
<1>5. loop.chunk \in 0..made /\ 0 \in 0..made
  BY DEF Types, LoopType, IndexType
<1> QED
  BY FactsStep, <1>2, <1>3, <1>4, <1>5

LEMMA IndexTyped ==
    ASSUME Types, Next
    PROVE  IndexType'
<1>1. CASE Stored
  <2>1. made \in Nat /\ made + 1 \in 0..MaxChunks /\ made' = made + 1
    BY <1>1, AnswersAssumption DEF Stored, Chunked, StoresDocument, Types, IndexType
  <2>2. 1..made \subseteq 1..(made + 1) /\ made + 1 \in 1..(made + 1)
    BY <2>1
  <2>3. /\ papers' \subseteq papers \cup {made + 1} /\ chunks' \subseteq chunks \cup {made + 1}
        /\ pending' \subseteq chunks'
    BY <1>1 DEF Stored, Chunked, StoresDocument, Types, IndexType
  <2> QED
    BY <2>1, <2>2, <2>3 DEF Types, IndexType
<1>2. CASE UNCHANGED index
  BY <1>2 DEF index, Types, IndexType
<1>3. ASSUME made' = made, papers' = papers, chunks' \subseteq chunks, pending' \subseteq pending, pending' \subseteq chunks'
      PROVE  IndexType'
  BY <1>3 DEF Types, IndexType
<1>4. ASSUME NEW t \in Threads, Asks(t) PROVE UNCHANGED index
  BY <1>4 DEF Asks, Ask, Declines, Affords, Calls, Answered, Logs, Posts, Disputes, Corrects,
              LogsCorrection, Raises
<1>5. CASE LoopRuns
  <2>1. CASE RefusesChunk \/ Marks
    BY <1>3, <2>1 DEF RefusesChunk, Marks, Types, IndexType
  <2> QED
    BY <1>2, <1>5, <2>1 DEF LoopRuns, Tick, ReadsChunks, TickEnds, Stumbles, Extracts, Finds, Garbles,
                            AddsDecision, Restates, LogsExtraction
<1>6. CASE LogsForFree \/ BreaksOff \/ \E who \in Members : Throttled(who)
  BY <1>2, <1>6 DEF LogsForFree, BreaksOff, Throttled
<1>7. CASE Deletions
  <2>0. \A gone : LosesChunks(gone) => IndexType'
    BY <1>3 DEF LosesChunks, Types, IndexType
  <2>1. CASE DeletesChat
    BY <2>0, <2>1 DEF DeletesChat
  <2>2. CASE \E m \in Members : \E spoke \in SUBSET (chunks \ papers) : PurgeSender(m, spoke)
    BY <2>0, <2>2 DEF PurgeSender, Purges
  <2>3. CASE \/ \E gone \in SUBSET (chunks \ papers) \ {{}} : RetentionChunks(gone)
             \/ \E gone \in SUBSET (chunks \cap papers) \ {{}} : DropsDocument(gone)
    BY <2>0, <2>3 DEF RetentionChunks, DropsDocument
  <2> QED
    BY <1>2, <1>7, <2>1, <2>2, <2>3 DEF Deletions, RemovesFact, ClearsLog, DeletesQuestion, SavesOptOuts,
                                        RetentionFacts
<1> QED
  BY <1>1, <1>2, <1>4, <1>5, <1>6, <1>7 DEF Next

\* A record of a thread with what is written into it.
LEMMA ThreadWritten ==
    ASSUME Types, Next
    PROVE  ThreadType'
<1> DEFINE Pcs == {"idle", "asked", "afforded", "calling", "answered", "sending", "correcting", "corrected"}
           Rec == [pc : Pcs, by : Members \cup {Panel, NoOne}, facts : SUBSET (1..lastId),
                   text : Texts \cup {Unsaid}]
           Rec2 == [pc : Pcs, by : Members \cup {Panel, NoOne}, facts : SUBSET (1..lastId'),
                    text : Texts \cup {Unsaid}]
<1>0. lastId \in Nat /\ lastId' \in Nat /\ lastId <= lastId'
  BY Forward, AnswersAssumption DEF Types, FactsType
<1>1. SUBSET (1..lastId) \subseteq SUBSET (1..lastId')
  BY <1>0
<1>2. Rec \subseteq Rec2
  BY <1>1
<1>3. thread \in [Threads -> Rec]
  BY DEF Types, ThreadType
<1>4. Idle \in Rec
  BY DEF Idle
<1>5. CASE UNCHANGED thread
  BY <1>2, <1>3, <1>5 DEF ThreadType
<1>6. ASSUME NEW t \in Threads, NEW r \in Rec, thread' = [thread EXCEPT ![t] = r]
      PROVE  ThreadType'
  BY <1>2, <1>3, <1>6 DEF ThreadType
<1>7. ASSUME NEW t \in Threads, Asks(t)
      PROVE  ThreadType'
  <2>0. thread[t] \in Rec
    BY <1>3
  <2>a. [thread[t] EXCEPT !.pc = "afforded"] \in Rec
    BY <2>0
  <2>b. ASSUME NEW text \in Texts \cup {Unsaid}, Replies(t, text)
        PROVE  ThreadType'
    <3>1. [Idle EXCEPT !.pc = "sending", !.by = thread[t].by, !.text = text] \in Rec
      BY <2>0 DEF Idle
    <3> QED
      BY <1>4, <1>6, <2>b, <3>1 DEF Replies, Ends, Becomes
  <2>1. CASE \E who \in Members \cup {Panel} : Ask(t, who)
    <3>1. \A who \in Members \cup {Panel} : [Idle EXCEPT !.pc = "asked", !.by = who] \in Rec
      BY DEF Idle
    <3> QED
      BY <1>6, <2>1, <3>1 DEF Ask, Becomes
  <2>2. CASE Declines(t) \/ Logs(t)
    <3>1. thread[t].text \in Texts \cup {Unsaid}
      BY <2>0
    <3> QED
      BY <2>2, <2>b, <3>1 DEF Declines, Logs
  <2>3. CASE Affords(t)
    BY <1>6, <2>3, <2>a DEF Affords, Becomes
  <2>4. CASE Calls(t)
    <3>1. PICK found \in SUBSET Active : Becomes(t, [thread[t] EXCEPT !.pc = "calling", !.facts = found])
      BY <2>4 DEF Calls
    <3>2. found \in SUBSET (1..lastId)
      BY DEF Active, Types, FactsType
    <3>3. [thread[t] EXCEPT !.pc = "calling", !.facts = found] \in Rec
      BY <2>0, <3>2
    <3> QED
      BY <1>6, <3>1, <3>3 DEF Becomes
  <2>5. CASE Answered(t)
    <3>1. \A text \in Texts : [thread[t] EXCEPT !.pc = "answered", !.text = text] \in Rec
      BY <2>0
    <3> QED
      BY <1>6, <2>5, <3>1 DEF Answered, Becomes
  <2>6. CASE Posts(t) \/ LogsCorrection(t) \/ Raises(t)
    BY <1>4, <1>6, <2>6 DEF Posts, LogsCorrection, Raises, Ends, Becomes
  <2>7. CASE Disputes(t)
    <3>1. \A text \in posted : UNION {r.facts : r \in Latest(text)} \in SUBSET (1..lastId)
      BY DEF Latest, Types, LogType
    <3>2. \A found \in SUBSET (1..lastId) : [thread[t] EXCEPT !.pc = "correcting", !.facts = found] \in Rec
      BY <2>0
    <3> QED
      BY <1>6, <2>7, <3>1, <3>2 DEF Disputes, Becomes
  <2>8. CASE Corrects(t)
    <3>1. [thread[t] EXCEPT !.pc = "corrected", !.facts = {}] \in Rec
      BY <2>0
    <3> QED
      BY <1>6, <2>8, <3>1 DEF Corrects, Becomes
  <2> QED
    BY <1>7, <2>1, <2>2, <2>3, <2>4, <2>5, <2>6, <2>7, <2>8 DEF Asks
<1>8. CASE Stored \/ \E who \in Members : Throttled(who)
  BY <1>5, <1>8 DEF Stored, Chunked, StoresDocument, Throttled
<1>9. CASE LoopRuns
  BY <1>5, <1>9 DEF LoopRuns, Tick, ReadsChunks, TickEnds, Stumbles, Extracts, Finds, Garbles, RefusesChunk,
                    AddsDecision, Restates, Marks, LogsExtraction
<1>10. CASE LogsForFree \/ BreaksOff
  BY <1>5, <1>10 DEF LogsForFree, BreaksOff
<1>11. CASE Deletions
  BY <1>5, <1>11 DEF Deletions, RemovesFact, ClearsLog, DeletesQuestion, DeletesChat, SavesOptOuts,
                     PurgeSender, RetentionChunks, RetentionFacts, DropsDocument
<1> QED
  BY <1>7, <1>8, <1>9, <1>10, <1>11 DEF Next

LEMMA LoopWritten ==
    ASSUME Types, Next
    PROVE  LoopType'
<1> DEFINE Pcs == {"idle", "afforded", "next", "calling", "adding", "marked"}
           Rec == [pc : Pcs, chunk : 0..made, known : SUBSET (1..lastId), left : 0..MaxFound,
                   todo : SUBSET (1..made)]
           Rec2 == [pc : Pcs, chunk : 0..made', known : SUBSET (1..lastId'), left : 0..MaxFound,
                    todo : SUBSET (1..made')]
<1>0. /\ lastId \in Nat /\ lastId' \in Nat /\ lastId <= lastId'
      /\ made \in Nat /\ made' \in Nat /\ made <= made' /\ MaxFound \in Nat
  BY Forward, AnswersAssumption DEF Types, FactsType, IndexType
<1>1. /\ SUBSET (1..lastId) \subseteq SUBSET (1..lastId')
      /\ SUBSET (1..made) \subseteq SUBSET (1..made') /\ 0..made \subseteq 0..made'
  BY <1>0
<1>2. Rec \subseteq Rec2
  BY <1>1
<1>3. loop \in Rec
  BY DEF Types, LoopType
<1>4. Rest \in Rec
  BY <1>0 DEF Rest
<1>5. ASSUME loop' \in Rec PROVE LoopType'
  BY <1>2, <1>5 DEF LoopType
<1>6. CASE UNCHANGED loop
  BY <1>3, <1>5, <1>6
<1>7. CASE LoopRuns
  <2>1. CASE Tick
    BY <1>3, <1>5, <2>1 DEF Tick
  <2>2. CASE ReadsChunks
    <3>1. PICK first \in SUBSET pending : loop' = [loop EXCEPT !.pc = "next", !.todo = first]
      BY <2>2 DEF ReadsChunks
    <3>2. first \in SUBSET (1..made)
      BY DEF Types, IndexType
    <3>3. [loop EXCEPT !.pc = "next", !.todo = first] \in Rec
      BY <1>3, <3>2
    <3> QED
      BY <1>5, <3>1, <3>3
  <2>3. CASE TickEnds \/ Stumbles \/ Garbles
    BY <1>4, <1>5, <2>3 DEF TickEnds, Stumbles, Garbles
  <2>4. CASE Extracts
    <3>1. PICK c \in loop.todo :
            loop' = [loop EXCEPT !.pc = "calling", !.chunk = c, !.known = Active, !.todo = loop.todo \ {c}]
      BY <2>4 DEF Extracts
    <3>2. Active \in SUBSET (1..lastId)
      BY DEF Active, Types, FactsType
    <3>3. loop.todo \in SUBSET (1..made)
      BY <1>3
    <3>4. c \in 0..made /\ loop.todo \ {c} \in SUBSET (1..made)
      BY <1>0, <3>3
    <3> QED
      BY <1>3, <1>5, <3>1, <3>2, <3>4
  <2>5. CASE Finds
    <3>1. \A n \in 0..MaxFound : [loop EXCEPT !.pc = "adding", !.left = n] \in Rec
      BY <1>3
    <3> QED
      BY <1>5, <2>5, <3>1 DEF Finds
  <2>6. CASE RefusesChunk \/ LogsExtraction \/ Marks
    <3>1. loop.todo \in SUBSET (1..made)
      BY <1>3
    <3>2. ASSUME NEW pc \in Pcs PROVE [Rest EXCEPT !.pc = pc, !.todo = loop.todo] \in Rec
      BY <1>4, <3>1
    <3>3. CASE RefusesChunk \/ LogsExtraction
      BY <1>5, <3>2, <3>3 DEF RefusesChunk, LogsExtraction, Proceeds
    <3>4. CASE Marks
      BY <1>5, <3>2, <3>4 DEF Marks
    <3> QED
      BY <2>6, <3>3, <3>4
  <2>7. CASE AddsDecision \/ Restates
    <3>1. loop.left \in 0..MaxFound /\ loop.left > 0 /\ loop' = [loop EXCEPT !.left = loop.left - 1]
      BY <1>3, <2>7 DEF AddsDecision, Restates
    <3>2. loop.left - 1 \in 0..MaxFound
      BY <1>0, <3>1
    <3> QED
      BY <1>3, <1>5, <3>1, <3>2
  <2> QED
    BY <1>7, <2>1, <2>2, <2>3, <2>4, <2>5, <2>6, <2>7 DEF LoopRuns
<1>8. ASSUME NEW t \in Threads, Asks(t) PROVE UNCHANGED loop
  BY <1>8 DEF Asks, Ask, Declines, Affords, Calls, Answered, Logs, Posts, Disputes, Corrects,
              LogsCorrection, Raises
<1>9. CASE Stored \/ \E who \in Members : Throttled(who)
  BY <1>6, <1>9 DEF Stored, Chunked, StoresDocument, Throttled
<1>10. CASE LogsForFree
  <2>1. loop.todo \in SUBSET (1..made)
    BY <1>3
  <2>2. [Rest EXCEPT !.pc = "next", !.todo = loop.todo] \in Rec
    BY <1>4, <2>1
  <2> QED
    BY <1>5, <1>10, <2>2 DEF LogsForFree, Proceeds
<1>11. CASE BreaksOff
  BY <1>4, <1>5, <1>11 DEF BreaksOff
<1>12. CASE Deletions
  BY <1>6, <1>12 DEF Deletions, RemovesFact, ClearsLog, DeletesQuestion, DeletesChat, SavesOptOuts,
                     PurgeSender, RetentionChunks, RetentionFacts, DropsDocument
<1> QED
  BY <1>6, <1>7, <1>8, <1>9, <1>10, <1>11, <1>12 DEF Next

\* The log grows by one row, loses some, or stays.
LEMMA LogStep ==
    ASSUME Types, Next
    PROVE  \/ log' \subseteq log /\ UNCHANGED lastRow
           \/ \E who \in Members \cup {Panel, NoOne}, text \in Texts \cup {SlowDown, Unsaid},
                 found \in SUBSET (1..lastId), cost \in 0..1 :
                Records(who, text, found, cost) /\ UNCHANGED facts
<1>1. ASSUME NEW t \in Threads, Asks(t)
      PROVE  \/ UNCHANGED <<lastRow, log>>
             \/ \E who \in Members \cup {Panel, NoOne}, text \in Texts \cup {SlowDown, Unsaid},
                   found \in SUBSET (1..lastId), cost \in 0..1 :
                  Records(who, text, found, cost) /\ UNCHANGED facts
  <2>0. /\ thread[t].by \in Members \cup {Panel, NoOne} /\ thread[t].text \in Texts \cup {SlowDown, Unsaid}
        /\ thread[t].facts \in SUBSET (1..lastId) /\ {} \in SUBSET (1..lastId)
    BY DEF Types, ThreadType
  <2>1. CASE Declines(t)
    <3>1. PICK text \in Texts : Records(thread[t].by, text, {}, 0)
      BY <2>1 DEF Declines
    <3>2. text \in Texts \cup {SlowDown, Unsaid} /\ 0 \in 0..1 /\ UNCHANGED facts
      BY <2>1 DEF Declines
    <3> QED
      BY <2>0, <3>1, <3>2
  <2>2. CASE Logs(t)
    <3>1. 1 \in 0..1
      OBVIOUS
    <3> QED
      BY <2>0, <2>2, <3>1 DEF Logs
  <2>3. CASE LogsCorrection(t)
    <3>1. Unsaid \in Texts \cup {SlowDown, Unsaid} /\ 0 \in 0..1
      OBVIOUS
    <3>2. Records(thread[t].by, Unsaid, {}, 0) /\ UNCHANGED facts
      BY <2>3 DEF LogsCorrection
    <3> QED
      BY <2>0, <3>1, <3>2
  <2> QED
    BY <1>1, <2>1, <2>2, <2>3 DEF Asks, Ask, Affords, Calls, Answered, Posts, Disputes, Corrects,
                                  Raises, account
<1>2. CASE LoopRuns
  <2>1. CASE LogsExtraction
    <3>1. /\ NoOne \in Members \cup {Panel, NoOne} /\ Unsaid \in Texts \cup {SlowDown, Unsaid}
          /\ {} \in SUBSET (1..lastId) /\ 1 \in 0..1
      OBVIOUS
    <3> QED
      BY <2>1, <3>1 DEF LogsExtraction
  <2> QED
    BY <1>2, <2>1 DEF LoopRuns, Tick, ReadsChunks, TickEnds, Stumbles, Extracts, Finds, Garbles, RefusesChunk,
                      AddsDecision, Restates, Marks, account
<1>3. CASE Stored \/ BreaksOff
  BY <1>3 DEF Stored, Chunked, StoresDocument, BreaksOff, account
<1>4. CASE LogsForFree \/ \E who \in Members : Throttled(who)
  <2>1. /\ Unsaid \in Texts \cup {SlowDown, Unsaid} /\ SlowDown \in Texts \cup {SlowDown, Unsaid}
        /\ {} \in SUBSET (1..lastId) /\ 0 \in 0..1
        /\ \A who \in Members \cup {NoOne} : who \in Members \cup {Panel, NoOne}
    OBVIOUS
  <2> QED
    BY <1>4, <2>1 DEF LogsForFree, Throttled
<1>5. CASE Deletions
  BY <1>5 DEF Deletions, RemovesFact, ClearsLog, DeletesQuestion, DeletesChat, SavesOptOuts,
              PurgeSender, Purges, RetentionChunks, RetentionFacts, DropsDocument, Strikes, account
<1> QED
  BY <1>1, <1>2, <1>3, <1>4, <1>5 DEF Next

LEMMA LogTyped ==
    ASSUME Types, Next
    PROVE  LogType'
<1>0. lastId \in Nat /\ lastId' \in Nat /\ lastId <= lastId'
  BY Forward, AnswersAssumption DEF Types, FactsType
<1>1. 1..lastId \subseteq 1..lastId'
  BY <1>0
<1>2. CASE log' \subseteq log /\ UNCHANGED lastRow
  <2>1. IsFiniteSet(log')
    BY <1>2, FS_Subset DEF Types, LogType
  <2> QED
    BY <1>1, <1>2, <2>1 DEF Types, LogType
<1>3. ASSUME NEW who \in Members \cup {Panel, NoOne}, NEW text \in Texts \cup {SlowDown, Unsaid},
             NEW found \in SUBSET (1..lastId), NEW cost \in 0..1,
             Records(who, text, found, cost)
      PROVE  LogType'
  <2> DEFINE row == [id |-> lastRow + 1, by |-> who, text |-> text, facts |-> found, cost |-> cost]
  <2>0. lastRow \in Nat /\ lastRow' = lastRow + 1
    BY <1>3 DEF Records, Types, LogType
  <2>1. log' = log \cup {row}
    BY <1>3 DEF Records
  <2>2. IsFiniteSet(log')
    BY <2>1, FS_AddElement DEF Types, LogType
  <2>3. row.id = lastRow + 1 /\ row.by = who /\ row.text = text /\ row.facts = found /\ row.cost = cost
    OBVIOUS
  <2> HIDE DEF row
  <2>4. lastRow + 1 \in 1..lastRow' /\ 1..lastRow \subseteq 1..lastRow' /\ lastRow' \in Nat
    BY <2>0
  <2> QED
    BY <1>1, <2>1, <2>2, <2>3, <2>4 DEF Types, LogType
<1> QED
  BY <1>2, <1>3, LogStep

\* What a thread is about to send, or has been answered, is a text.
Said == \A t \in Threads : thread[t].pc \in {"answered", "sending"} => thread[t].text \in Texts

LEMMA SaidStep ==
    ASSUME Types, Said, Next
    PROVE  Said'
<1>1. CASE UNCHANGED thread
  BY <1>1 DEF Said
<1>2. ASSUME NEW t \in Threads, NEW r, thread' = [thread EXCEPT ![t] = r],
             r.pc \in {"answered", "sending"} => r.text \in Texts
      PROVE  Said'
  BY <1>2 DEF Said, Types, ThreadType
<1>3. ASSUME NEW t \in Threads, Asks(t)
      PROVE  Said'
  <2>0. thread[t] = [pc |-> thread[t].pc, by |-> thread[t].by, facts |-> thread[t].facts,
                     text |-> thread[t].text]
    BY DEF Types, ThreadType
  <2>1. CASE \E who \in Members \cup {Panel} : Ask(t, who)
    BY <1>2, <2>1 DEF Ask, Becomes, Idle
  <2>2. CASE Declines(t)
    BY <1>2, <2>2 DEF Declines, Replies, Ends, Becomes, Idle
  <2>3. CASE Affords(t)
    <3>1. [thread[t] EXCEPT !.pc = "afforded"].pc = "afforded"
      BY <2>0
    <3> QED
      BY <1>2, <2>3, <3>1 DEF Affords, Becomes
  <2>4. CASE Calls(t)
    <3>1. ASSUME NEW found
          PROVE  [thread[t] EXCEPT !.pc = "calling", !.facts = found].pc = "calling"
      BY <2>0
    <3> QED
      BY <1>2, <2>4, <3>1 DEF Calls, Becomes
  <2>5. CASE Answered(t)
    <3>1. ASSUME NEW text \in Texts
          PROVE  [thread[t] EXCEPT !.pc = "answered", !.text = text].text \in Texts
      BY <2>0
    <3> QED
      BY <1>2, <2>5, <3>1 DEF Answered, Becomes
  <2>6. CASE Logs(t)
    <3>1. thread[t].text \in Texts
      BY <2>6 DEF Logs, At, Said
    <3> QED
      BY <1>2, <2>6, <3>1 DEF Logs, Replies, Ends, Becomes, Idle
  <2>7. CASE Posts(t) \/ LogsCorrection(t) \/ Raises(t)
    BY <1>2, <2>7 DEF Posts, LogsCorrection, Raises, Ends, Becomes, Idle
  <2>8. CASE Disputes(t)
    <3>1. ASSUME NEW found
          PROVE  [thread[t] EXCEPT !.pc = "correcting", !.facts = found].pc = "correcting"
      BY <2>0
    <3> QED
      BY <1>2, <2>8, <3>1 DEF Disputes, Becomes
  <2>9. CASE Corrects(t)
    <3>1. [thread[t] EXCEPT !.pc = "corrected", !.facts = {}].pc = "corrected"
      BY <2>0
    <3> QED
      BY <1>2, <2>9, <3>1 DEF Corrects, Becomes
  <2> QED
    BY <1>3, <2>1, <2>2, <2>3, <2>4, <2>5, <2>6, <2>7, <2>8, <2>9 DEF Asks
<1>4. CASE Stored \/ LogsForFree \/ BreaksOff \/ \E who \in Members : Throttled(who)
  BY <1>1, <1>4 DEF Stored, Chunked, StoresDocument, LogsForFree, BreaksOff, Throttled
<1>5. CASE LoopRuns
  BY <1>1, <1>5 DEF LoopRuns, Tick, ReadsChunks, TickEnds, Stumbles, Extracts, Finds, Garbles, RefusesChunk,
                    AddsDecision, Restates, Marks, LogsExtraction
<1>6. CASE Deletions
  BY <1>1, <1>6 DEF Deletions, RemovesFact, ClearsLog, DeletesQuestion, DeletesChat, SavesOptOuts,
                    PurgeSender, RetentionChunks, RetentionFacts, DropsDocument
<1> QED
  BY <1>3, <1>4, <1>5, <1>6 DEF Next

LEMMA BoundsTyped ==
    ASSUME Types, Next
    PROVE  asks' \in 0..MaxAsks /\ events' \in 0..MaxEvents
<1>0. asks \in 0..MaxAsks /\ events \in 0..MaxEvents /\ MaxAsks \in Nat /\ MaxEvents \in Nat
  BY AnswersAssumption DEF Types, RestType
<1>1. CASE UNCHANGED bounds
  BY <1>0, <1>1 DEF bounds
<1>2. CASE Event
  BY <1>0, <1>2 DEF Event
<1>3. CASE asks < MaxAsks /\ asks' = asks + 1 /\ UNCHANGED events
  BY <1>0, <1>3
<1>4. CASE \E t \in Threads : Asks(t)
  <2>1. CASE \E t \in Threads : \E who \in Members \cup {Panel} : Ask(t, who)
    BY <1>3, <2>1 DEF Ask
  <2>2. CASE \E t \in Threads : Raises(t)
    BY <1>2, <2>2 DEF Raises
  <2> QED
    BY <1>1, <1>4, <2>1, <2>2 DEF Asks, Declines, Affords, Calls, Answered, Logs, Posts, Disputes,
                                  Corrects, LogsCorrection
<1>5. CASE Stored
  BY <1>1, <1>5 DEF Stored, Chunked, StoresDocument
<1>6. CASE LoopRuns
  BY <1>1, <1>6 DEF LoopRuns, Tick, ReadsChunks, TickEnds, Stumbles, Extracts, Finds, Garbles,
                    RefusesChunk, AddsDecision, Restates, Marks, LogsExtraction
<1>7. CASE LogsForFree \/ BreaksOff
  BY <1>2, <1>7 DEF LogsForFree, BreaksOff
<1>8. CASE \E who \in Members : Throttled(who)
  BY <1>3, <1>8 DEF Throttled
<1>9. CASE Deletions
  <2>1. CASE \E list \in SUBSET Members : SavesOptOuts(list)
    BY <1>1, <2>1 DEF SavesOptOuts
  <2> QED
    BY <1>2, <1>9, <2>1 DEF Deletions, RemovesFact, ClearsLog, DeletesQuestion, DeletesChat,
                            PurgeSender, RetentionChunks, RetentionFacts, DropsDocument
<1> QED
  BY <1>4, <1>5, <1>6, <1>7, <1>8, <1>9 DEF Next

LEMMA PeopleTyped ==
    ASSUME Types, Said, Next
    PROVE  /\ posted' \subseteq Texts /\ optedOut' \subseteq Members
           /\ erased' \subseteq optedOut' /\ late' \subseteq erased'
<1>0. posted \subseteq Texts /\ optedOut \subseteq Members /\ erased \subseteq optedOut /\ late \subseteq erased
  BY DEF Types, RestType
<1>1. CASE UNCHANGED <<people, erasures>>
  BY <1>0, <1>1 DEF people, erasures
<1>2. CASE \E t \in Threads : Asks(t)
  <2>1. ASSUME NEW t \in Threads, Posts(t) PROVE posted' \subseteq Texts
    BY <1>0, <2>1 DEF Posts, Said, At
  <2>2. ASSUME NEW t \in Threads, Posts(t) PROVE UNCHANGED <<optedOut, erasures>>
    BY <2>2 DEF Posts
  <2>3. CASE \E t \in Threads : Posts(t)
    BY <1>0, <2>1, <2>2, <2>3 DEF erasures
  <2> QED
    BY <1>1, <1>2, <2>3 DEF Asks, Ask, Declines, Affords, Calls, Answered, Logs, Disputes, Corrects,
                            LogsCorrection, Raises
<1>3. CASE Stored \/ LogsForFree \/ BreaksOff \/ \E who \in Members : Throttled(who)
  BY <1>1, <1>3 DEF Stored, Chunked, StoresDocument, LogsForFree, BreaksOff, Throttled
<1>4. CASE LoopRuns
  BY <1>1, <1>4 DEF LoopRuns, Tick, ReadsChunks, TickEnds, Stumbles, Extracts, Finds, Garbles, RefusesChunk,
                    AddsDecision, Restates, Marks, LogsExtraction
<1>5. CASE Deletions
  <2>1. CASE \E list \in SUBSET Members : SavesOptOuts(list)
    BY <1>0, <2>1 DEF SavesOptOuts
  <2>2. CASE \E m \in Members : \E spoke \in SUBSET (chunks \ papers) : PurgeSender(m, spoke)
    BY <1>0, <2>2 DEF PurgeSender, people
  <2>3. CASE DeletesChat
    BY <1>0, <2>3 DEF DeletesChat
  <2> QED
    BY <1>1, <1>5, <2>1, <2>2, <2>3 DEF Deletions, RemovesFact, ClearsLog, DeletesQuestion,
                                        RetentionChunks, RetentionFacts, DropsDocument
<1> QED
  BY <1>2, <1>3, <1>4, <1>5 DEF Next

\* What is deleted, and held, is a chat's deletion's doing.
LEMMA ChatStep ==
    ASSUME Types, Next
    PROVE  UNCHANGED <<deleted, held>> \/ DeletesChat
<1>1. ASSUME NEW t \in Threads, Asks(t) PROVE UNCHANGED <<deleted, held>>
  BY <1>1 DEF Asks, Ask, Declines, Affords, Calls, Answered, Logs, Posts, Disputes, Corrects,
              LogsCorrection, Raises, erasures
<1>2. CASE Stored \/ LogsForFree \/ BreaksOff \/ \E who \in Members : Throttled(who)
  BY <1>2 DEF Stored, Chunked, StoresDocument, LogsForFree, BreaksOff, Throttled, erasures
<1>3. CASE LoopRuns
  BY <1>3 DEF LoopRuns, Tick, ReadsChunks, TickEnds, Stumbles, Extracts, Finds, Garbles, RefusesChunk,
              AddsDecision, Restates, Marks, LogsExtraction, erasures
<1>4. CASE Deletions
  BY <1>4 DEF Deletions, RemovesFact, ClearsLog, DeletesQuestion, SavesOptOuts, PurgeSender,
              RetentionChunks, RetentionFacts, DropsDocument, erasures
<1> QED
  BY <1>1, <1>2, <1>3, <1>4 DEF Next

LEMMA RestTyped ==
    ASSUME Types, Said, Next
    PROVE  RestType'
<1>0. made \in Nat /\ made' \in Nat /\ made <= made'
  BY Forward, AnswersAssumption DEF Types, IndexType
<1>1. Hands \subseteq 0..made
  BY <1>0 DEF Hands, Types, LoopType
<1>2. deleted' \subseteq 1..made' /\ held' \subseteq 0..made'
  <2>1. CASE UNCHANGED <<deleted, held>>
    BY <1>0, <2>1 DEF Types, RestType
  <2>2. CASE DeletesChat
    <3>1. deleted' = deleted \cup (chunks \ papers) /\ held' = held \cup Hands
      BY <2>2 DEF DeletesChat
    <3> QED
      BY <1>0, <1>1, <3>1 DEF Types, RestType, IndexType
  <2> QED
    BY <2>1, <2>2, ChatStep
<1> QED
  BY <1>2, BoundsTyped, PeopleTyped DEF RestType

LEMMA TypesInit == Init => Types /\ Said
<1> SUFFICES ASSUME Init PROVE Types /\ Said
  OBVIOUS
<1>1. {MaxFacts, MaxChunks, MaxAsks, MaxFound, MaxEvents} \subseteq Nat
  BY AnswersAssumption
<1>2. FactsType
  <2>1. /\ lastId = 0 /\ live = {} /\ made = 0
        /\ successor = [f \in Ids |-> 0] /\ source = [f \in Ids |-> 0]
        /\ author = [f \in Ids |-> NoOne] /\ overruled = [f \in Ids |-> {}]
    BY DEF Init
  <2>2. lastId \in 0..MaxFacts /\ live \subseteq 1..lastId
    BY <1>1, <2>1
  <2>3. successor \in [Ids -> 0..lastId] /\ source \in [Ids -> 0..made]
    BY <2>1
  <2>4. author \in [Ids -> Members \cup {Panel, NoOne}] /\ overruled \in [Ids -> SUBSET (1..lastId)]
    BY <2>1
  <2>5. \A f \in Ids \ live : successor[f] = 0 /\ source[f] = 0 /\ author[f] = NoOne
    BY <2>1
  <2> QED
    BY <2>2, <2>3, <2>4, <2>5 DEF FactsType
<1>3. IndexType
  BY <1>1 DEF Init, IndexType
<1>4. LogType
  BY FS_EmptySet DEF Init, LogType
<1>5. RestType
  <2>1. /\ posted = {} /\ optedOut = {} /\ asks = 0 /\ events = 0
        /\ erased = {} /\ late = {} /\ deleted = {} /\ held = {}
    BY DEF Init
  <2>2. asks \in 0..MaxAsks /\ events \in 0..MaxEvents
    BY <1>1, <2>1
  <2> QED
    BY <2>1, <2>2 DEF RestType
<1>6. ThreadType
  BY DEF Init, ThreadType, Idle
<1>7. LoopType
  BY <1>1 DEF Init, LoopType, Rest
<1>8. Said
  BY DEF Init, Said, Idle
<1> QED
  BY <1>2, <1>3, <1>4, <1>5, <1>6, <1>7, <1>8 DEF Types

LEMMA TypesStutter == ASSUME UNCHANGED vars, Types, Said PROVE Types' /\ Said'
<1>1. UNCHANGED <<facts, index, lastRow, log, posted, optedOut, thread, loop, asks, events, erasures>>
  BY DEF vars, account, people, bounds
<1>2. FactsType' /\ IndexType'
  BY <1>1 DEF facts, index, Types, FactsType, IndexType
<1>3. LogType' /\ ThreadType' /\ LoopType'
  BY <1>1 DEF facts, index, Types, LogType, ThreadType, LoopType
<1>4. RestType'
  BY <1>1 DEF index, erasures, Types, RestType
<1>5. Said'
  BY <1>1 DEF Said
<1> QED
  BY <1>2, <1>3, <1>4, <1>5 DEF Types

LEMMA TypesAlways == Spec => [](Types /\ Said)
<1>1. Types /\ Said /\ [Next]_vars => (Types /\ Said)'
  <2>1. ASSUME Types, Said, Next PROVE (Types /\ Said)'
    <3>1. Said'
      BY <2>1, SaidStep
    <3>2. FactsType' /\ IndexType' /\ LogType' /\ RestType' /\ ThreadType' /\ LoopType'
      BY <2>1, FactsTyped, IndexTyped, LogTyped, RestTyped, ThreadWritten, LoopWritten
    <3> QED
      BY <3>1, <3>2 DEF Types
  <2> QED
    BY <2>1, TypesStutter
<1> QED
  BY TypesInit, <1>1, PTL DEF Spec

-----------------------------------------------------------------------------
(* The history of facts. *)

\* What a correction replaced points at it for as long as both are there.
Outranks == \A c \in live : \A f \in overruled[c] \cap live : successor[f] = c

LEMMA HistoryStep ==
    ASSUME Types, HistoryEnds, Outranks, Next
    PROVE  HistoryEnds' /\ Outranks'
<1>0. lastId \in Nat /\ live \subseteq 1..lastId /\ live \subseteq Ids
  BY AnswersAssumption DEF Types, FactsType, Ids
<1>1. CASE UNCHANGED facts
  BY <1>1 DEF facts, HistoryEnds, Outranks
<1>2. ASSUME NEW who, NEW chunk, NEW old, Adds(who, chunk, old)
      PROVE  HistoryEnds' /\ Outranks'
  <2> DEFINE new == lastId + 1
             replaced == Replaceable(old)
  <2>1. /\ live' = live \cup {new} /\ new \in Ids /\ new \notin live
        /\ \A f \in Ids : successor'[f] = IF f \in replaced THEN new ELSE successor[f]
        /\ \A f \in live : overruled'[f] = overruled[f]
        /\ overruled'[new] \subseteq replaced
    BY <1>0, <1>2 DEF Adds, Types, FactsType
  <2>2. \A f \in replaced : f \in live /\ successor[f] = 0
    BY DEF Replaceable, Active
  <2>3. successor[new] = 0
    BY <2>1 DEF Types, FactsType
  <2>4. \A f \in live : f \in Ids /\ f # new /\ f < new /\ f # 0
    BY <1>0
  <2>5. \A c \in live : overruled[c] \subseteq 1..lastId
    BY <1>0 DEF Types, FactsType
  <2>6. new \notin 1..lastId
    BY <1>0
  <2> HIDE DEF new, replaced
  <2>7. HistoryEnds'
    BY <2>1, <2>2, <2>3, <2>4 DEF HistoryEnds
  <2>8. Outranks'
    <3> SUFFICES ASSUME NEW c \in live', NEW f \in overruled'[c] \cap live'
                 PROVE  successor'[f] = c
      BY DEF Outranks
    <3>1. CASE c = new
      BY <2>1, <2>2, <2>4, <3>1
    <3>2. CASE c \in live
      <4>1. f \in overruled[c] /\ f # new /\ f \in live
        BY <2>1, <2>5, <2>6, <3>2
      <4>2. successor[f] = c /\ c # 0
        BY <2>4, <3>2, <4>1 DEF Outranks
      <4> QED
        BY <2>1, <2>2, <2>4, <4>1, <4>2
    <3> QED
      BY <2>1, <3>1, <3>2
  <2> QED
    BY <2>7, <2>8
<1>3. ASSUME NEW gone \in SUBSET live, LosesFacts(gone)
      PROVE  HistoryEnds' /\ Outranks'
  <2>1. /\ live' = live \ gone
        /\ \A f \in Ids : successor'[f] = IF f \in gone \/ successor[f] \in gone THEN 0 ELSE successor[f]
        /\ \A f \in Ids : overruled'[f] = IF f \in gone THEN {} ELSE overruled[f] \ gone
    BY <1>3 DEF LosesFacts, Blanks
  <2>2. \A f \in live : f \in Ids /\ f # 0
    BY <1>0
  <2>3. HistoryEnds'
    BY <2>1, <2>2 DEF HistoryEnds
  <2>4. Outranks'
    <3> SUFFICES ASSUME NEW c \in live', NEW f \in overruled'[c] \cap live'
                 PROVE  successor'[f] = c
      BY DEF Outranks
    <3>1. c \in live \ gone /\ f \in live \ gone /\ c \in Ids /\ f \in Ids
      BY <2>1, <2>2
    <3>2. f \in overruled[c]
      BY <2>1, <3>1
    <3>3. successor[f] = c
      BY <3>1, <3>2 DEF Outranks
    <3> QED
      BY <2>1, <3>1, <3>3
  <2> QED
    BY <2>3, <2>4
<1> QED
  BY <1>1, <1>2, <1>3, FactsStep

LEMMA HistoryAlways == Spec => [](HistoryEnds /\ Outranks)
<1>1. Init => HistoryEnds /\ Outranks
  BY DEF Init, HistoryEnds, Outranks
<1>2. Types /\ HistoryEnds /\ Outranks /\ [Next]_vars => (HistoryEnds /\ Outranks)'
  <2>1. ASSUME UNCHANGED vars, HistoryEnds, Outranks PROVE (HistoryEnds /\ Outranks)'
    BY <2>1 DEF vars, facts, HistoryEnds, Outranks
  <2> QED
    BY <2>1, HistoryStep
<1> QED
  BY <1>1, <1>2, TypesAlways, PTL DEF Spec

(* A fact that was replaced points at a later one that is still there:     *)
(* facts.add and ON DELETE SET NULL of migrations/006_facts.sql.           *)
THEOREM HistoriesEnd == Spec => []HistoryEnds
  BY HistoryAlways, PTL

(* A correction outranks what it replaced for as long as it stands, for    *)
(* any interleaving of members, the extraction loop and removals.          *)
THEOREM CorrectionsStand == Spec => []CorrectionStands
<1>1. Types /\ Outranks => CorrectionStands
  <2> SUFFICES ASSUME Types, Outranks, NEW c \in live, NEW f \in overruled[c] \cap live
               PROVE  f \notin Active
    BY DEF CorrectionStands
  <2>1. successor[f] = c
    BY DEF Outranks
  <2>2. c # 0
    BY AnswersAssumption DEF Types, FactsType
  <2> QED
    BY <2>1, <2>2 DEF Active
<1> QED
  BY <1>1, TypesAlways, HistoryAlways, PTL

-----------------------------------------------------------------------------
(* Erasures. *)

\* What a thread does for who was erased is to send an answer.
Silent == \A m \in erased \ late : \A t \in Threads : thread[t].by = m => thread[t].pc = "sending"

Forgotten == OptedOutForgotten /\ Silent

LEMMA RowWritten ==
    ASSUME NEW who, NEW text, NEW found, NEW cost, Records(who, text, found, cost)
    PROVE  \A r \in log' \ log : r.by = who /\ r.text = text
  BY DEF Records

LEMMA ForgottenStep ==
    ASSUME Types, Forgotten, Next
    PROVE  Forgotten'
<1>0. /\ erased \subseteq optedOut /\ optedOut \subseteq Members
      /\ \A m \in erased : m \in Members /\ m # NoOne /\ m # Panel
  BY AnswersAssumption DEF Types, RestType
<1>1. ASSUME UNCHANGED erasures, log' \subseteq log, UNCHANGED facts \/ (\E gone \in SUBSET live : LosesFacts(gone)),
             UNCHANGED thread
      PROVE  Forgotten'
  <2>1. live' \subseteq live /\ \A f \in live' : author'[f] = author[f]
    <3>1. live \subseteq Ids
      BY AnswersAssumption DEF Types, FactsType, Ids
    <3>2. ASSUME NEW gone \in SUBSET live, LosesFacts(gone)
          PROVE  live' \subseteq live /\ \A f \in live' : author'[f] = author[f]
      BY <3>1, <3>2 DEF LosesFacts, Blanks
    <3> QED
      BY <1>1, <3>2 DEF facts
  <2> QED
    BY <1>1, <2>1 DEF Forgotten, OptedOutForgotten, Silent, erasures
<1>2. ASSUME NEW t \in Threads, Asks(t)
      PROVE  Forgotten'
  <2>0. thread \in [Threads -> [pc : {"idle", "asked", "afforded", "calling", "answered",
                                      "sending", "correcting", "corrected"},
                                by : Members \cup {Panel, NoOne},
                                facts : SUBSET (1..lastId), text : Texts \cup {Unsaid}]]
    BY DEF Types, ThreadType
  <2>1. UNCHANGED erasures
    BY <1>2 DEF Asks, Ask, Declines, Affords, Calls, Answered, Logs, Posts, Disputes, Corrects,
                LogsCorrection, Raises
  <2>2. ASSUME NEW r, thread' = [thread EXCEPT ![t] = r],
               \A m \in erased \ late : r.by = m => r.pc = "sending"
        PROVE  Silent'
    BY <2>0, <2>1, <2>2 DEF Forgotten, Silent, erasures
  <2>3. ASSUME NEW r, thread' = [thread EXCEPT ![t] = r],
               \A m \in erased \ late : r.by = m => r.pc = "sending",
               UNCHANGED facts, log' \subseteq log
        PROVE  Forgotten'
    BY <2>1, <2>2, <2>3 DEF Forgotten, OptedOutForgotten, erasures, facts
  <2>4. ASSUME thread[t].pc # "sending"
        PROVE  \A m \in erased \ late : thread[t].by # m
    BY <2>4 DEF Forgotten, Silent
  <2>5. ASSUME NEW who, NEW text, NEW found, NEW cost, Records(who, text, found, cost),
               \A m \in erased \ late : who # m, UNCHANGED facts
        PROVE  OptedOutForgotten'
    <3>1. \A r \in log' : r \in log \/ r.by = who
      BY <2>5, RowWritten
    <3> QED
      BY <2>1, <2>5, <3>1 DEF Forgotten, OptedOutForgotten, facts, erasures
  <2>6. thread[t] = [pc |-> thread[t].pc, by |-> thread[t].by, facts |-> thread[t].facts,
                     text |-> thread[t].text]
    BY <2>0
  <2>7. \A m \in erased \ late : Idle.by # m
    BY <1>0 DEF Idle
  <2>a. CASE \E who \in Members \cup {Panel} : Ask(t, who)
    <3>1. PICK who \in Members \cup {Panel} : Ask(t, who)
      BY <2>a
    <3>2. [Idle EXCEPT !.pc = "asked", !.by = who].by = who
      BY DEF Idle
    <3>3. who \notin optedOut
      BY <3>1 DEF Ask
    <3> QED
      BY <1>0, <2>3, <3>1, <3>2, <3>3 DEF Ask, Becomes, account
  <2>b. CASE Declines(t) \/ Logs(t)
    <3>1. thread[t].pc # "sending"
      BY <2>b DEF Declines, Logs, At
    <3>2. PICK text : Replies(t, text)
      BY <2>b DEF Declines, Logs
    <3>3. [Idle EXCEPT !.pc = "sending", !.by = thread[t].by, !.text = text].pc = "sending"
      BY DEF Idle
    <3>4. Silent'
      BY <2>2, <2>7, <3>2, <3>3 DEF Replies, Ends, Becomes
    <3>5. OptedOutForgotten'
      BY <2>4, <2>5, <2>b, <3>1 DEF Declines, Logs
    <3> QED
      BY <3>4, <3>5 DEF Forgotten
  <2>c. CASE Affords(t)
    <3>1. [thread[t] EXCEPT !.pc = "afforded"].by = thread[t].by
      BY <2>6
    <3> QED
      BY <2>3, <2>4, <2>c, <3>1 DEF Affords, Becomes, At, account
  <2>d. CASE Calls(t)
    <3>1. PICK found : Becomes(t, [thread[t] EXCEPT !.pc = "calling", !.facts = found])
      BY <2>d DEF Calls
    <3>2. [thread[t] EXCEPT !.pc = "calling", !.facts = found].by = thread[t].by
      BY <2>6
    <3>3. thread[t].pc = "afforded" /\ UNCHANGED <<facts, log>>
      BY <2>d DEF Calls, At, account
    <3>4. \A m \in erased \ late : thread[t].by # m
      BY <2>4, <3>3
    <3> QED
      BY <2>3, <3>1, <3>2, <3>3, <3>4 DEF Becomes
  <2>e. CASE Answered(t)
    <3>1. PICK text \in Texts : Becomes(t, [thread[t] EXCEPT !.pc = "answered", !.text = text])
      BY <2>e DEF Answered
    <3>2. [thread[t] EXCEPT !.pc = "answered", !.text = text].by = thread[t].by
      BY <2>6
    <3>3. thread[t].pc = "calling" /\ UNCHANGED <<facts, log>>
      BY <2>e DEF Answered, At
    <3>4. \A m \in erased \ late : thread[t].by # m
      BY <2>4, <3>3
    <3> QED
      BY <2>3, <3>1, <3>2, <3>3, <3>4 DEF Becomes
  <2>f. CASE Posts(t) \/ Raises(t)
    BY <2>3, <2>7, <2>f DEF Posts, Raises, Ends, Becomes, account
  <2>g. CASE Disputes(t)
    <3>1. PICK found : Becomes(t, [thread[t] EXCEPT !.pc = "correcting", !.facts = found])
      BY <2>g DEF Disputes
    <3>2. [thread[t] EXCEPT !.pc = "correcting", !.facts = found].by = thread[t].by
      BY <2>6
    <3>3. thread[t].pc = "asked" /\ UNCHANGED <<facts, log>>
      BY <2>g DEF Disputes, At, account
    <3>4. \A m \in erased \ late : thread[t].by # m
      BY <2>4, <3>3
    <3> QED
      BY <2>3, <3>1, <3>2, <3>3, <3>4 DEF Becomes
  <2>h. CASE Corrects(t)
    <3>1. [thread[t] EXCEPT !.pc = "corrected", !.facts = {}].by = thread[t].by
      BY <2>6
    <3>2. \A m \in erased \ late : thread[t].by # m
      BY <2>4, <2>h DEF Corrects, At
    <3>3. Silent'
      BY <2>2, <2>h, <3>1, <3>2 DEF Corrects, Becomes
    <3>4. \A m \in erased \ late : \A f \in live' : author'[f] # m
      <4>1. live \subseteq Ids /\ author \in [Ids -> Members \cup {Panel, NoOne}]
        BY AnswersAssumption DEF Types, FactsType, Ids
      <4>2. /\ live' = live \cup {lastId + 1} /\ lastId + 1 \in Ids
            /\ author' = [author EXCEPT ![lastId + 1] = thread[t].by]
        BY <2>h DEF Corrects, Adds
      <4> QED
        BY <3>2, <4>1, <4>2 DEF Forgotten, OptedOutForgotten
    <3> QED
      BY <2>1, <2>h, <3>3, <3>4 DEF Forgotten, OptedOutForgotten, erasures, Corrects, account
  <2>i. CASE LogsCorrection(t)
    <3>1. Silent'
      BY <2>2, <2>7, <2>i DEF LogsCorrection, Ends, Becomes
    <3>2. OptedOutForgotten'
      BY <2>4, <2>5, <2>i DEF LogsCorrection, At
    <3> QED
      BY <3>1, <3>2 DEF Forgotten
  <2> QED
    BY <1>2, <2>a, <2>b, <2>c, <2>d, <2>e, <2>f, <2>g, <2>h, <2>i DEF Asks
<1>3. CASE Stored \/ BreaksOff
  BY <1>1, <1>3 DEF Stored, Chunked, StoresDocument, BreaksOff, account
<1>a. ASSUME NEW who, NEW text, NEW found, NEW cost, Records(who, text, found, cost),
             who \notin erased \/ text = SlowDown, UNCHANGED <<facts, thread, erasures>>
      PROVE  Forgotten'
  <2>1. \A r \in log' : r \in log \/ (r.by = who /\ r.text = text)
    BY <1>a, RowWritten
  <2> QED
    BY <1>a, <2>1 DEF Forgotten, OptedOutForgotten, Silent, facts, erasures
<1>b. CASE LogsForFree \/ \E who \in Members : Throttled(who)
  <2>1. CASE LogsForFree
    BY <1>0, <1>a, <2>1 DEF LogsForFree
  <2>2. CASE \E who \in Members : Throttled(who)
    BY <1>a, <2>2 DEF Throttled
  <2> QED
    BY <1>b, <2>1, <2>2
<1>4. CASE LoopRuns
  <2>1. CASE AddsDecision
    <3>1. PICK old : Adds(NoOne, loop.chunk, old)
      BY <2>1 DEF AddsDecision
    <3>2. live \subseteq Ids /\ author \in [Ids -> Members \cup {Panel, NoOne}]
      BY AnswersAssumption DEF Types, FactsType, Ids
    <3>3. /\ live' = live \cup {lastId + 1} /\ lastId + 1 \in Ids
          /\ author' = [author EXCEPT ![lastId + 1] = NoOne]
      BY <3>1 DEF Adds
    <3>4. UNCHANGED <<log, thread, erasures>>
      BY <2>1 DEF AddsDecision, account
    <3> QED
      BY <1>0, <3>2, <3>3, <3>4 DEF Forgotten, OptedOutForgotten, Silent, erasures
  <2>2. CASE LogsExtraction
    BY <1>0, <1>a, <2>2 DEF LogsExtraction
  <2> QED
    BY <1>1, <1>4, <2>1, <2>2 DEF LoopRuns, Tick, ReadsChunks, TickEnds, Stumbles, Extracts, Finds, Garbles,
                                  RefusesChunk, Restates, Marks, account
<1>5. CASE Deletions
  <2>1. CASE \E m \in Members : \E spoke \in SUBSET (chunks \ papers) : PurgeSender(m, spoke)
    <3>1. PICK m \in Members, spoke \in SUBSET (chunks \ papers) : PurgeSender(m, spoke)
      BY <2>1
    <3>2. /\ live' = live \ {f \in live : author[f] = m}
          /\ \A f \in live' : author'[f] = author[f]
          /\ log' = {r \in log : r.by # m} /\ UNCHANGED thread
      <4>1. live \subseteq Ids
        BY AnswersAssumption DEF Types, FactsType, Ids
      <4> QED
        BY <3>1, <4>1 DEF PurgeSender, Purges, Strikes, LosesFacts, Blanks
    <3>3. /\ erased' \subseteq erased \cup {m} /\ late \subseteq late' \cup {m}
          /\ m \in erased' \ late' => ~Asking(m)
      BY <1>0, <3>1 DEF PurgeSender
    <3>4. ASSUME NEW k \in erased' \ late'
          PROVE  /\ \A r \in log' : r.by = k => r.text = SlowDown
                 /\ \A f \in live' : author'[f] # k
                 /\ \A t \in Threads : thread'[t].by = k => thread'[t].pc = "sending"
      <4>1. CASE k \in erased \ late
        BY <3>2, <4>1 DEF Forgotten, OptedOutForgotten, Silent
      <4>2. CASE k = m /\ ~Asking(m)
        BY <3>2, <4>2 DEF Asking, At
      <4> QED
        BY <3>3, <3>4, <4>1, <4>2
    <3> QED
      BY <3>4 DEF Forgotten, OptedOutForgotten, Silent
  <2>2. CASE DeletesChat
    <3>1. LosesFacts(live) /\ UNCHANGED <<log, thread, erased, late>>
      BY <2>2 DEF DeletesChat, account
    <3>2. live' = {}
      BY <3>1 DEF LosesFacts
    <3> QED
      BY <3>1, <3>2 DEF Forgotten, OptedOutForgotten, Silent
  <2>3. CASE \E f \in live : RemovesFact(f)
    BY <1>1, <2>3 DEF RemovesFact, account
  <2>4. CASE \E gone \in SUBSET live \ {{}} : RetentionFacts(gone)
    BY <1>1, <2>4 DEF RetentionFacts, account
  <2>5. CASE \E list \in SUBSET Members : SavesOptOuts(list)
    <3>1. /\ erased' \ late' \subseteq erased \ late /\ UNCHANGED <<log, facts, thread>>
      BY <2>5 DEF SavesOptOuts, account
    <3> QED
      BY <3>1 DEF Forgotten, OptedOutForgotten, Silent, facts
  <2>6. CASE \E row \in log : ClearsLog(row) \/ DeletesQuestion(row)
    BY <1>1, <2>6 DEF ClearsLog, DeletesQuestion, Strikes
  <2> QED
    BY <1>1, <1>5, <2>1, <2>2, <2>3, <2>4, <2>5, <2>6 DEF Deletions, RetentionChunks, DropsDocument, account
<1> QED
  BY <1>2, <1>3, <1>b, <1>4, <1>5 DEF Next

(* None of the questions and corrections of a member erased after an       *)
(* opt-out is left or comes back (retention.purge_sender) while they are   *)
(* on the list, unless a request of theirs was running then, and but for   *)
(* the questions the throttle logs (asking.throttle).                      *)
THEOREM OptOutsForget == Spec => []OptedOutForgotten
<1>1. Init => Forgotten
  BY DEF Init, Forgotten, OptedOutForgotten, Silent
<1>2. Types /\ Forgotten /\ [Next]_vars => Forgotten'
  <2>1. ASSUME UNCHANGED vars, Forgotten PROVE Forgotten'
    BY <2>1 DEF vars, facts, account, erasures, Forgotten, OptedOutForgotten, Silent
  <2> QED
    BY <2>1, ForgottenStep
<1>3. Forgotten => OptedOutForgotten
  BY DEF Forgotten
<1> QED
  BY <1>1, <1>2, <1>3, TypesAlways, PTL DEF Spec

\* Nothing that was deleted is there or unknown to the loop.
Gone ==
    /\ deleted \cap chunks = {}
    /\ Hands \cap deleted \subseteq held
    /\ ChatForgotten

LEMMA GoneStep ==
    ASSUME Types, Gone, Next
    PROVE  Gone'
<1>0. /\ live \subseteq Ids /\ made \in Nat /\ lastId \in Nat /\ deleted \subseteq 1..made
      /\ chunks \subseteq 1..made /\ pending \subseteq chunks /\ source \in [Ids -> 0..made]
  BY AnswersAssumption DEF Types, FactsType, IndexType, RestType, Ids
<1>1. ASSUME UNCHANGED <<deleted, held>>, deleted \cap chunks' = {}, Hands' \cap deleted \subseteq Hands \cup held,
             UNCHANGED facts \/ (\E gone \in SUBSET live : LosesFacts(gone))
      PROVE  Gone'
  <2>1. live' \subseteq live /\ \A f \in live' : source'[f] = source[f]
    <3>1. ASSUME NEW gone \in SUBSET live, LosesFacts(gone)
          PROVE  live' \subseteq live /\ \A f \in live' : source'[f] = source[f]
      BY <1>0, <3>1 DEF LosesFacts, Blanks
    <3> QED
      BY <1>1, <3>1 DEF facts
  <2>2. ChatForgotten'
    BY <1>1, <2>1 DEF Gone, ChatForgotten
  <2>3. Hands' \cap deleted' \subseteq held'
    BY <1>1 DEF Gone
  <2> QED
    BY <1>1, <2>2, <2>3 DEF Gone
<1>2. ASSUME NEW who, NEW chunk, NEW old, Adds(who, chunk, old), chunk \in deleted => chunk \in held,
             UNCHANGED <<deleted, held, chunks>>, Hands' = Hands
      PROVE  Gone'
  <2>1. /\ live' = live \cup {lastId + 1} /\ lastId + 1 \in Ids
        /\ source' = [source EXCEPT ![lastId + 1] = chunk]
    BY <1>2 DEF Adds
  <2>2. ChatForgotten'
    BY <1>0, <1>2, <2>1 DEF Gone, ChatForgotten
  <2> QED
    BY <1>2, <2>2 DEF Gone
<1>3. ASSUME NEW t \in Threads, Asks(t)
      PROVE  Gone'
  <2>1. UNCHANGED <<loop, deleted, held, chunks>>
    BY <1>3 DEF Asks, Ask, Declines, Affords, Calls, Answered, Logs, Posts, Disputes, Corrects,
                LogsCorrection, Raises, erasures, index
  <2>2. Hands' = Hands
    BY <2>1 DEF Hands
  <2>3. CASE Corrects(t)
    <3>1. 0 \notin deleted
      BY <1>0
    <3> QED
      BY <1>2, <2>1, <2>2, <2>3, <3>1 DEF Corrects
  <2>4. CASE UNCHANGED facts
    BY <1>1, <2>1, <2>2, <2>4 DEF Gone
  <2> QED
    BY <1>3, <2>3, <2>4 DEF Asks, Ask, Declines, Affords, Calls, Answered, Logs, Posts, Disputes,
                            LogsCorrection, Raises
<1>4. CASE Stored
  <2>1. UNCHANGED <<facts, loop, deleted, held>> /\ chunks' \subseteq chunks \cup {made + 1}
    BY <1>4 DEF Stored, Chunked, StoresDocument, erasures
  <2>2. made + 1 \notin deleted
    BY <1>0
  <2>3. Hands' = Hands
    BY <2>1 DEF Hands
  <2> QED
    BY <1>1, <2>1, <2>2, <2>3 DEF Gone
<1>5. ASSUME UNCHANGED <<facts, deleted, held, chunks>>, Hands' \cap deleted \subseteq Hands
      PROVE  Gone'
  BY <1>1, <1>5 DEF Gone
<1>6. CASE LoopRuns
  <2>0. loop = [pc |-> loop.pc, chunk |-> loop.chunk, known |-> loop.known, left |-> loop.left,
                todo |-> loop.todo]
    BY DEF Types, LoopType
  <2>1. CASE Tick
    <3>1. loop'.todo = loop.todo /\ loop'.pc = "afforded"
      BY <2>0, <2>1 DEF Tick
    <3> QED
      BY <1>5, <2>1, <3>1 DEF Tick, Hands, erasures, index
  <2>2. CASE ReadsChunks
    <3>1. PICK first \in SUBSET pending : loop' = [loop EXCEPT !.pc = "next", !.todo = first]
      BY <2>2 DEF ReadsChunks
    <3>2. loop'.todo = first /\ loop'.pc = "next"
      BY <2>0, <3>1
    <3>3. Hands' \cap deleted = {}
      BY <1>0, <3>2 DEF Hands, Gone
    <3> QED
      BY <1>5, <2>2, <3>3 DEF ReadsChunks, erasures, index
  <2>3. CASE TickEnds \/ Stumbles \/ Garbles
    <3>1. loop' = Rest
      BY <2>3 DEF TickEnds, Stumbles, Garbles
    <3>2. Hands' = {}
      BY <3>1 DEF Hands, Rest
    <3> QED
      BY <1>5, <2>3, <3>2 DEF TickEnds, Stumbles, Garbles, erasures, index
  <2>4. CASE Extracts
    <3>1. PICK c \in loop.todo :
            loop' = [loop EXCEPT !.pc = "calling", !.chunk = c, !.known = Active, !.todo = loop.todo \ {c}]
      BY <2>4 DEF Extracts
    <3>2. loop'.todo = loop.todo \ {c} /\ loop'.chunk = c
      BY <2>0, <3>1
    <3>3. Hands' \subseteq Hands
      BY <3>2 DEF Hands
    <3> QED
      BY <1>5, <2>4, <3>3 DEF Extracts, erasures, index
  <2>5. CASE Finds
    <3>1. loop'.todo = loop.todo /\ loop'.chunk = loop.chunk /\ loop.pc = "calling"
      BY <2>0, <2>5 DEF Finds
    <3>2. Hands' \subseteq Hands
      BY <3>1 DEF Hands
    <3> QED
      BY <1>5, <2>5, <3>2 DEF Finds, erasures, index
  <2>6. CASE RefusesChunk \/ LogsExtraction \/ Marks
    <3>1. loop'.todo = loop.todo /\ loop'.pc \in {"next", "marked"}
      BY <2>6 DEF RefusesChunk, LogsExtraction, Marks, Proceeds, Rest
    <3>2. Hands' \subseteq Hands
      BY <3>1 DEF Hands
    <3>3. UNCHANGED <<facts, chunks, deleted, held>>
      BY <2>6 DEF RefusesChunk, LogsExtraction, Marks, erasures, index
    <3> QED
      BY <1>5, <3>2, <3>3
  <2>7. CASE AddsDecision \/ Restates
    <3>1. loop.pc = "adding" /\ loop' = [loop EXCEPT !.left = loop.left - 1]
      BY <2>7 DEF AddsDecision, Restates
    <3>2. loop'.todo = loop.todo /\ loop'.chunk = loop.chunk /\ loop'.pc = loop.pc
      BY <2>0, <3>1
    <3>3. Hands' = Hands
      BY <3>2 DEF Hands
    <3>4. loop.chunk \in deleted => loop.chunk \in held
      BY <3>1 DEF Gone, Hands
    <3>5. UNCHANGED <<chunks, deleted, held>>
      BY <2>7 DEF AddsDecision, Restates, erasures, index
    <3>6. CASE AddsDecision
      BY <1>2, <3>3, <3>4, <3>5, <3>6 DEF AddsDecision
    <3>7. CASE Restates
      BY <1>5, <3>3, <3>5, <3>7 DEF Restates
    <3> QED
      BY <2>7, <3>6, <3>7
  <2> QED
    BY <1>6, <2>1, <2>2, <2>3, <2>4, <2>5, <2>6, <2>7 DEF LoopRuns
<1>7. CASE BreaksOff
  <2>1. Hands' = {}
    BY <1>7 DEF BreaksOff, Hands, Rest
  <2> QED
    BY <1>5, <1>7, <2>1 DEF BreaksOff, erasures, index
<1>b. CASE LogsForFree
  <2>1. loop'.todo = loop.todo /\ loop'.pc = "next"
    BY <1>b DEF LogsForFree, Proceeds, Rest
  <2>2. Hands' \subseteq Hands
    BY <2>1 DEF Hands
  <2> QED
    BY <1>5, <1>b, <2>2 DEF LogsForFree, erasures, index
<1>c. CASE \E who \in Members : Throttled(who)
  <2>1. Hands' = Hands
    BY <1>c DEF Throttled, Hands
  <2> QED
    BY <1>5, <1>c, <2>1 DEF Throttled, erasures, index
<1>8. CASE Deletions
  <2>0. UNCHANGED loop
    BY <1>8 DEF Deletions, RemovesFact, ClearsLog, DeletesQuestion, DeletesChat, SavesOptOuts,
                PurgeSender, RetentionChunks, RetentionFacts, DropsDocument
  <2>1. Hands' = Hands
    BY <2>0 DEF Hands
  <2>2. CASE DeletesChat
    <3>1. /\ LosesFacts(live) /\ chunks' = chunks \ (chunks \ papers)
          /\ deleted' = deleted \cup (chunks \ papers) /\ held' = held \cup Hands
      BY <2>2 DEF DeletesChat, LosesChunks
    <3>2. live' = {}
      BY <3>1 DEF LosesFacts
    <3> QED
      BY <2>1, <3>1, <3>2 DEF Gone, ChatForgotten
  <2>3. CASE \E m \in Members : \E spoke \in SUBSET (chunks \ papers) : PurgeSender(m, spoke)
    <3>1. PICK m \in Members, spoke \in SUBSET (chunks \ papers) : PurgeSender(m, spoke)
      BY <2>3
    <3>2. LosesFacts({f \in live : author[f] = m}) /\ chunks' = chunks \ spoke /\ UNCHANGED <<deleted, held>>
      BY <3>1 DEF PurgeSender, Purges, LosesChunks
    <3> QED
      BY <1>1, <2>1, <3>2 DEF Gone
  <2>4. CASE \E f \in live : RemovesFact(f)
    BY <1>1, <2>1, <2>4 DEF Gone, RemovesFact, erasures, index
  <2>5. CASE \E gone \in SUBSET live \ {{}} : RetentionFacts(gone)
    BY <1>1, <2>1, <2>5 DEF Gone, RetentionFacts, erasures, index
  <2>6. CASE \/ \E gone \in SUBSET (chunks \ papers) \ {{}} : RetentionChunks(gone)
             \/ \E gone \in SUBSET (chunks \cap papers) \ {{}} : DropsDocument(gone)
    BY <1>1, <2>1, <2>6 DEF Gone, RetentionChunks, DropsDocument, LosesChunks, erasures
  <2> QED
    BY <1>5, <1>8, <2>1, <2>2, <2>3, <2>4, <2>5, <2>6
       DEF Deletions, ClearsLog, DeletesQuestion, SavesOptOuts, erasures, index
<1> QED
  BY <1>3, <1>4, <1>6, <1>7, <1>8, <1>b, <1>c DEF Next

(* Deleting a chat takes its decisions, and none comes back from a chunk   *)
(* that was deleted (retention.purge_group_messages), unless the           *)
(* extraction loop had read it by then.                                    *)
THEOREM ChatsForget == Spec => []ChatForgotten
<1>1. Init => Gone
  BY DEF Init, Gone, Hands, Rest, ChatForgotten
<1>2. Types /\ Gone /\ [Next]_vars => Gone'
  <2>1. ASSUME UNCHANGED vars, Gone PROVE Gone'
    BY <2>1 DEF vars, facts, index, erasures, Gone, Hands, ChatForgotten
  <2> QED
    BY <2>1, GoneStep
<1>3. Gone => ChatForgotten
  BY DEF Gone
<1> QED
  BY <1>1, <1>2, <1>3, TypesAlways, PTL DEF Spec

-----------------------------------------------------------------------------
(* The spending. *)

Working == {"afforded", "calling", "answered"}
CostsNothing == UNCHANGED log \/ \E who, text, found : Records(who, text, found, 0)

\* What a step of a request does to its place, and to the account.
LEMMA AskMoves ==
    ASSUME Types, NEW t \in Threads, Asks(t)
    PROVE  /\ UNCHANGED loop /\ \A u \in Threads \ {t} : thread'[u] = thread[u]
           /\ \/ /\ thread[t].pc = "asked" /\ thread'[t].pc = "afforded" /\ ~Exceeded
                 /\ UNCHANGED <<log, due>>
              \/ /\ thread[t].pc = "afforded" /\ thread'[t].pc = "calling"
                 /\ UNCHANGED <<log, due>>
              \/ /\ thread[t].pc = "calling" /\ thread'[t].pc = "answered"
                 /\ UNCHANGED log /\ due' = due + 1
              \/ /\ thread[t].pc = "answered" /\ thread'[t].pc \in {"sending", "idle"}
                 /\ \E who, text, found : Records(who, text, found, 1)
                 /\ UNCHANGED due
              \/ /\ thread'[t].pc = "idle" /\ UNCHANGED log
                 /\ due' = due - IF thread[t].pc = "answered" THEN 1 ELSE 0
              \/ /\ thread[t].pc \notin Working /\ thread'[t].pc \notin Working
                 /\ CostsNothing /\ UNCHANGED due
<1>0. thread \in [Threads -> [pc : {"idle", "asked", "afforded", "calling", "answered",
                                    "sending", "correcting", "corrected"},
                              by : Members \cup {Panel, NoOne},
                              facts : SUBSET (1..lastId), text : Texts \cup {Unsaid}]]
  BY DEF Types, ThreadType
<1>1. thread[t] = [pc |-> thread[t].pc, by |-> thread[t].by, facts |-> thread[t].facts,
                   text |-> thread[t].text]
  BY <1>0
<1>2. ASSUME NEW r, Becomes(t, r)
      PROVE  thread'[t] = r /\ \A u \in Threads \ {t} : thread'[u] = thread[u]
  BY <1>0, <1>2 DEF Becomes
<1>3. UNCHANGED loop
  BY DEF Asks, Ask, Declines, Affords, Calls, Answered, Logs, Posts, Disputes, Corrects,
         LogsCorrection, Raises
<1>4. ASSUME NEW text, Replies(t, text)
      PROVE  thread'[t].pc \in {"sending", "idle"} /\ \A u \in Threads \ {t} : thread'[u] = thread[u]
  <2>1. [Idle EXCEPT !.pc = "sending", !.by = thread[t].by, !.text = text].pc = "sending" /\ Idle.pc = "idle"
    BY DEF Idle
  <2> QED
    BY <1>2, <1>4, <2>1 DEF Replies, Ends
<1>a. CASE \E who \in Members \cup {Panel} : Ask(t, who)
  <2>1. PICK who : Becomes(t, [Idle EXCEPT !.pc = "asked", !.by = who])
    BY <1>a DEF Ask
  <2>2. [Idle EXCEPT !.pc = "asked", !.by = who].pc = "asked"
    BY DEF Idle
  <2>3. thread[t].pc = "idle" /\ UNCHANGED <<log, due>>
    BY <1>a DEF Ask, At, account
  <2> QED
    BY <1>2, <1>3, <2>1, <2>2, <2>3 DEF Working, CostsNothing
<1>b. CASE Declines(t)
  <2>1. PICK text : Records(thread[t].by, text, {}, 0) /\ Replies(t, text)
    BY <1>b DEF Declines
  <2>2. thread[t].pc = "asked" /\ UNCHANGED due
    BY <1>b DEF Declines, At
  <2>3. thread'[t].pc \in {"sending", "idle"} /\ \A u \in Threads \ {t} : thread'[u] = thread[u]
    BY <1>4, <2>1
  <2>4. CostsNothing
    BY <2>1 DEF CostsNothing
  <2> QED
    BY <1>3, <2>2, <2>3, <2>4 DEF Working
<1>c. CASE Affords(t)
  <2>1. [thread[t] EXCEPT !.pc = "afforded"].pc = "afforded"
    BY <1>1
  <2> QED
    BY <1>2, <1>3, <1>c, <2>1 DEF Affords, At, account
<1>d. CASE Calls(t)
  <2>1. PICK found : Becomes(t, [thread[t] EXCEPT !.pc = "calling", !.facts = found])
    BY <1>d DEF Calls
  <2>2. [thread[t] EXCEPT !.pc = "calling", !.facts = found].pc = "calling"
    BY <1>1
  <2> QED
    BY <1>2, <1>3, <1>d, <2>1, <2>2 DEF Calls, At, account
<1>e. CASE Answered(t)
  <2>1. PICK text : Becomes(t, [thread[t] EXCEPT !.pc = "answered", !.text = text])
    BY <1>e DEF Answered
  <2>2. [thread[t] EXCEPT !.pc = "answered", !.text = text].pc = "answered"
    BY <1>1
  <2> QED
    BY <1>2, <1>3, <1>e, <2>1, <2>2 DEF Answered, At
<1>f. CASE Logs(t)
  <2>1. thread[t].pc = "answered" /\ UNCHANGED due /\ Records(thread[t].by, thread[t].text, thread[t].facts, 1)
    BY <1>f DEF Logs, At
  <2>2. thread'[t].pc \in {"sending", "idle"} /\ \A u \in Threads \ {t} : thread'[u] = thread[u]
    BY <1>4, <1>f DEF Logs
  <2> QED
    BY <1>3, <2>1, <2>2
<1>g. CASE Posts(t)
  <2>1. thread'[t].pc = "idle" /\ \A u \in Threads \ {t} : thread'[u] = thread[u]
    BY <1>2, <1>g DEF Posts, Ends, Idle
  <2>2. thread[t].pc = "sending" /\ UNCHANGED <<log, due>>
    BY <1>g DEF Posts, At, account
  <2> QED
    BY <1>3, <2>1, <2>2 DEF Working, CostsNothing
<1>h. CASE Disputes(t)
  <2>1. PICK found : Becomes(t, [thread[t] EXCEPT !.pc = "correcting", !.facts = found])
    BY <1>h DEF Disputes
  <2>2. [thread[t] EXCEPT !.pc = "correcting", !.facts = found].pc = "correcting"
    BY <1>1
  <2>3. thread[t].pc = "asked" /\ UNCHANGED <<log, due>>
    BY <1>h DEF Disputes, At, account
  <2> QED
    BY <1>2, <1>3, <2>1, <2>2, <2>3 DEF Working, CostsNothing
<1>i. CASE Corrects(t)
  <2>1. [thread[t] EXCEPT !.pc = "corrected", !.facts = {}].pc = "corrected"
    BY <1>1
  <2>2. thread[t].pc = "correcting" /\ UNCHANGED <<log, due>>
    BY <1>i DEF Corrects, At, account
  <2>3. thread'[t].pc = "corrected" /\ \A u \in Threads \ {t} : thread'[u] = thread[u]
    BY <1>2, <1>i, <2>1 DEF Corrects
  <2> QED
    BY <1>3, <2>2, <2>3 DEF Working, CostsNothing
<1>j. CASE LogsCorrection(t)
  <2>1. thread'[t].pc = "idle" /\ \A u \in Threads \ {t} : thread'[u] = thread[u]
    BY <1>2, <1>j DEF LogsCorrection, Ends, Idle
  <2>2. thread[t].pc = "corrected" /\ UNCHANGED due /\ Records(thread[t].by, Unsaid, {}, 0)
    BY <1>j DEF LogsCorrection, At
  <2> QED
    BY <1>3, <2>1, <2>2 DEF Working, CostsNothing
<1>k. CASE Raises(t)
  <2>1. thread'[t].pc = "idle" /\ \A u \in Threads \ {t} : thread'[u] = thread[u]
    BY <1>2, <1>k DEF Raises, Ends, Idle
  <2> QED
    BY <1>3, <1>k, <2>1 DEF Raises, Leaves, At
<1> QED
  BY <1>a, <1>b, <1>c, <1>d, <1>e, <1>f, <1>g, <1>h, <1>i, <1>j, <1>k DEF Asks

\* What a step of the loop does to its place, and to the account.
LEMMA LoopMoves ==
    ASSUME Types, LoopRuns
    PROVE  /\ UNCHANGED thread
           /\ \/ /\ loop.pc = "idle" /\ loop'.pc = "afforded" /\ ~Exceeded
                 /\ UNCHANGED <<log, due>>
              \/ /\ loop.pc = "afforded" /\ loop'.pc = "next"
                 /\ loop'.todo \in SUBSET pending /\ Oldest(loop'.todo)
                 /\ UNCHANGED <<log, due>>
              \/ /\ loop.pc = "next" /\ loop'.pc = "idle"
                 /\ UNCHANGED <<log, due>>
              \/ /\ loop.pc = "next" /\ loop'.pc = "calling"
                 /\ \E c \in loop.todo : loop'.todo = loop.todo \ {c}
                 /\ UNCHANGED <<log, due>>
              \/ /\ loop.pc = "calling" /\ loop'.pc = "adding" /\ loop'.todo = loop.todo
                 /\ UNCHANGED log /\ due' = due + 1
              \/ /\ loop.pc = "calling" /\ loop'.pc = "idle"
                 /\ UNCHANGED <<log, due>>
              \/ /\ loop.pc = "calling" /\ loop'.pc = "next" /\ loop'.todo = loop.todo
                 /\ UNCHANGED <<log, due>>
              \/ /\ loop.pc = "adding" /\ loop'.pc \in {"adding", "marked"} /\ loop'.todo = loop.todo
                 /\ UNCHANGED <<log, due>>
              \/ /\ loop.pc = "marked" /\ loop'.pc = "next" /\ loop'.todo = loop.todo
                 /\ Records(NoOne, Unsaid, {}, 1) /\ UNCHANGED due
<1>0. loop = [pc |-> loop.pc, chunk |-> loop.chunk, known |-> loop.known, left |-> loop.left,
              todo |-> loop.todo]
  BY DEF Types, LoopType
<1>1. CASE Tick
  BY <1>0, <1>1 DEF Tick, account
<1>2. CASE ReadsChunks
  <2>1. PICK first \in SUBSET pending : Oldest(first) /\ loop' = [loop EXCEPT !.pc = "next", !.todo = first]
    BY <1>2 DEF ReadsChunks
  <2>2. loop'.pc = "next" /\ loop'.todo = first
    BY <1>0, <2>1
  <2> QED
    BY <1>2, <2>1, <2>2 DEF ReadsChunks, account
<1>3. CASE TickEnds \/ Stumbles
  BY <1>3 DEF TickEnds, Stumbles, Rest, account
<1>4. CASE Extracts
  <2>1. PICK c \in loop.todo :
          loop' = [loop EXCEPT !.pc = "calling", !.chunk = c, !.known = Active, !.todo = loop.todo \ {c}]
    BY <1>4 DEF Extracts
  <2>2. loop'.pc = "calling" /\ loop'.todo = loop.todo \ {c}
    BY <1>0, <2>1
  <2> QED
    BY <1>4, <2>2 DEF Extracts, account
<1>5. CASE Finds
  BY <1>0, <1>5 DEF Finds
<1>6. CASE Garbles
  BY <1>6 DEF Garbles, Rest, account
<1>7. CASE RefusesChunk
  <2>1. loop'.pc = "next" /\ loop'.todo = loop.todo
    BY <1>7 DEF RefusesChunk, Proceeds, Rest
  <2> QED
    BY <1>7, <2>1 DEF RefusesChunk, account
<1>8. CASE AddsDecision \/ Restates
  <2>1. loop' = [loop EXCEPT !.left = loop.left - 1]
    BY <1>8 DEF AddsDecision, Restates
  <2>2. loop'.pc = loop.pc /\ loop'.todo = loop.todo
    BY <1>0, <2>1
  <2> QED
    BY <1>8, <2>2 DEF AddsDecision, Restates, account
<1>9. CASE Marks
  <2>1. loop'.pc = "marked" /\ loop'.todo = loop.todo
    BY <1>9 DEF Marks, Rest
  <2> QED
    BY <1>9, <2>1 DEF Marks, account
<1>10. CASE LogsExtraction
  <2>1. loop'.pc = "next" /\ loop'.todo = loop.todo
    BY <1>10 DEF LogsExtraction, Proceeds, Rest
  <2> QED
    BY <1>10, <2>1 DEF LogsExtraction
<1> QED
  BY <1>1, <1>2, <1>3, <1>4, <1>5, <1>6, <1>7, <1>8, <1>9, <1>10 DEF LoopRuns

\* A row with a cost adds one to the spending, any other nothing, and what is
\* struck takes its own cost off.
LEMMA Spends ==
    ASSUME Types
    PROVE  /\ Spent \in Nat
           /\ \A who, text, found : Records(who, text, found, 0) => Spent' = Spent
           /\ \A who, text, found : Records(who, text, found, 1) => Spent' = Spent + 1
           /\ \A rows \in SUBSET log :
                Strikes(rows) => /\ Spent' \in Nat /\ CostOf(rows) \in Nat
                                 /\ Spent' = Spent - CostOf(rows)
<1> DEFINE Paid == {r \in log : r.cost = 1}
           Paid2 == {r \in log' : r.cost = 1}
<1>1. IsFiniteSet(log) /\ IsFiniteSet(Paid) /\ Cardinality(Paid) \in Nat
  <2>1. Paid \subseteq log /\ IsFiniteSet(log)
    BY DEF Types, LogType
  <2> QED
    BY <2>1, FS_Subset, FS_CardinalityType
<1>2. Spent = Cardinality(Paid) /\ Spent' = Cardinality(Paid2)
  BY DEF Spent, CostOf
<1>3. ASSUME NEW who, NEW text, NEW found, NEW cost, Records(who, text, found, cost)
      PROVE  \E row : row \notin log /\ row.cost = cost /\ log' = log \cup {row}
  <2> DEFINE row == [id |-> lastRow + 1, by |-> who, text |-> text, facts |-> found, cost |-> cost]
  <2>1. row.id = lastRow + 1 /\ row.cost = cost /\ log' = log \cup {row}
    BY <1>3 DEF Records
  <2> HIDE DEF row
  <2>2. \A r \in log : r.id # lastRow + 1
    BY DEF Types, LogType
  <2> QED
    BY <2>1, <2>2
<1>4. ASSUME NEW who, NEW text, NEW found, Records(who, text, found, 0) PROVE Spent' = Spent
  <2>1. PICK row : row.cost = 0 /\ log' = log \cup {row}
    BY <1>3, <1>4
  <2>2. Paid2 = Paid
    BY <2>1
  <2> QED
    BY <1>2, <2>2
<1>5. ASSUME NEW who, NEW text, NEW found, Records(who, text, found, 1) PROVE Spent' = Spent + 1
  <2>1. PICK row : row \notin log /\ row.cost = 1 /\ log' = log \cup {row}
    BY <1>3, <1>5
  <2>2. Paid2 = Paid \cup {row} /\ row \notin Paid
    BY <2>1
  <2>3. Cardinality(Paid \cup {row}) = Cardinality(Paid) + 1
    BY <1>1, <2>2, FS_AddElement
  <2> QED
    BY <1>2, <2>2, <2>3
<1>6. ASSUME NEW rows \in SUBSET log, Strikes(rows)
      PROVE  Spent' \in Nat /\ CostOf(rows) \in Nat /\ Spent' = Spent - CostOf(rows)
  <2> DEFINE Struck == {r \in rows : r.cost = 1}
  <2>1. Paid2 = Paid \ Struck /\ Paid \cap Struck = Struck /\ Struck \subseteq Paid
    BY <1>6 DEF Strikes
  <2>2. IsFiniteSet(Struck) /\ Cardinality(Struck) \in Nat
    BY <1>1, <2>1, FS_Subset, FS_CardinalityType
  <2>3. Cardinality(Paid2) = Cardinality(Paid) - Cardinality(Struck)
    <3> HIDE DEF Paid, Paid2, Struck
    <3>1. Cardinality(Paid \ Struck) = Cardinality(Paid) - Cardinality(Paid \cap Struck)
      BY <1>1, <2>2, FS_Difference
    <3> QED
      BY <2>1, <3>1
  <2>4. CostOf(rows) = Cardinality(Struck)
    BY DEF CostOf
  <2>5. Cardinality(Paid2) \in Nat
    BY <1>1, <2>1, FS_Subset, FS_CardinalityType
  <2> HIDE DEF Paid, Paid2, Struck
  <2> QED
    BY <1>2, <2>2, <2>3, <2>4, <2>5
<1> QED
  BY <1>1, <1>2, <1>4, <1>5, <1>6

Answering == {t \in Threads : At(t, "answered")}
Decided == IF loop.pc \in {"adding", "marked"} THEN 1 ELSE 0

LEMMA AccountStep ==
    ASSUME Types, Accounted, Next
    PROVE  Accounted'
<1>0. IsFiniteSet(Threads) /\ IsFiniteSet(Answering) /\ Cardinality(Answering) \in Nat
  <2>1. IsFiniteSet(Answering)
    BY AnswersAssumption, FS_Subset DEF Answering
  <2> QED
    BY <2>1, AnswersAssumption, FS_CardinalityType
<1>1. /\ due = Spent + (Cardinality(Answering) + Decided)
      /\ Spent \in Nat /\ due \in Nat /\ Decided \in 0..1
  BY <1>0, Spends DEF Accounted, PaidInHand, Answering, Decided
<1>2. Accounted' <=> due' = Spent' + (Cardinality(Answering') + Decided')
  BY DEF Accounted, PaidInHand, Answering, Decided
<1>a. CostsNothing => Spent' = Spent
  <2>1. UNCHANGED log => Spent' = Spent
    BY DEF Spent
  <2> QED
    BY <2>1, Spends DEF CostsNothing
<1>b. UNCHANGED log => Spent' = Spent
  BY <1>a DEF CostsNothing
<1>3. ASSUME NEW t \in Threads, Asks(t)
      PROVE  Accounted'
  <2>1. UNCHANGED loop /\ \A u \in Threads \ {t} : thread'[u] = thread[u]
    BY <1>3, AskMoves
  <2>2. Decided' = Decided
    BY <2>1 DEF Decided
  <2>3. CASE thread[t].pc # "answered" /\ thread'[t].pc # "answered"
    <3>1. Answering' = Answering
      BY <2>1, <2>3 DEF Answering, At
    <3>2. Spent' = Spent /\ due' = due
      BY <1>1, <1>3, <1>a, <1>b, <2>3, AskMoves
    <3> QED
      BY <1>1, <1>2, <2>2, <3>1, <3>2
  <2>4. CASE thread[t].pc = "answered"
    <3>1. thread'[t].pc # "answered"
      BY <1>3, <2>4, AskMoves DEF Working
    <3>2. Answering' = Answering \ {t} /\ t \in Answering
      BY <2>1, <2>4, <3>1 DEF Answering, At
    <3>3. Cardinality(Answering') = Cardinality(Answering) - 1
      BY <1>0, <3>2, FS_RemoveElement
    <3>4. \/ UNCHANGED due /\ \E who, text, found : Records(who, text, found, 1)
          \/ UNCHANGED log /\ due' = due - 1
      BY <1>3, <2>4, AskMoves DEF Working
    <3>5. (Spent' = Spent + 1 /\ due' = due) \/ (Spent' = Spent /\ due' = due - 1)
      BY <1>b, <3>4, Spends
    <3> QED
      BY <1>0, <1>1, <1>2, <2>2, <3>3, <3>5
  <2>5. CASE thread[t].pc # "answered" /\ thread'[t].pc = "answered"
    <3>1. Answering' = Answering \cup {t} /\ t \notin Answering
      BY <2>1, <2>5 DEF Answering, At
    <3>2. Cardinality(Answering') = Cardinality(Answering) + 1
      BY <1>0, <3>1, FS_AddElement
    <3>3. Spent' = Spent /\ due' = due + 1
      BY <1>3, <1>b, <2>5, AskMoves DEF Working
    <3> QED
      BY <1>0, <1>1, <1>2, <2>2, <3>2, <3>3
  <2> QED
    BY <2>3, <2>4, <2>5
<1>4. ASSUME UNCHANGED thread, Spent' \in Nat, due' \in Int,
             due' - Spent' - Decided' = due - Spent - Decided, Decided' \in 0..1
      PROVE  Accounted'
  <2>1. Answering' = Answering
    BY <1>4 DEF Answering, At
  <2> QED
    BY <1>0, <1>1, <1>2, <1>4, <2>1
<1>5. ASSUME UNCHANGED <<thread, due>>, Spent' = Spent, Decided' = Decided
      PROVE  Accounted'
  BY <1>1, <1>4, <1>5
<1>6. CASE Stored
  BY <1>5, <1>6, <1>b DEF Stored, Chunked, StoresDocument, Decided, account
<1>7. CASE LoopRuns
  <2>1. UNCHANGED thread
    BY <1>7, LoopMoves
  <2>2. CASE /\ UNCHANGED <<log, due>> /\ loop.pc \notin {"adding", "marked"}
             /\ loop'.pc \notin {"adding", "marked"}
    BY <1>5, <1>b, <2>1, <2>2 DEF Decided
  <2>3. CASE loop.pc = "calling" /\ loop'.pc = "adding" /\ UNCHANGED log /\ due' = due + 1
    <3>1. Decided = 0 /\ Decided' = 1
      BY <2>3 DEF Decided
    <3> QED
      BY <1>1, <1>4, <1>b, <2>1, <2>3, <3>1
  <2>4. CASE loop.pc = "adding" /\ loop'.pc \in {"adding", "marked"} /\ UNCHANGED <<log, due>>
    BY <1>5, <1>b, <2>1, <2>4 DEF Decided
  <2>5. CASE loop.pc = "marked" /\ loop'.pc = "next" /\ Records(NoOne, Unsaid, {}, 1) /\ UNCHANGED due
    <3>1. Decided = 1 /\ Decided' = 0
      BY <2>5 DEF Decided
    <3>2. Spent' = Spent + 1
      BY <2>5, Spends
    <3> QED
      BY <1>1, <1>4, <2>1, <2>5, <3>1, <3>2
  <2> QED
    BY <1>7, <2>2, <2>3, <2>4, <2>5, LoopMoves
<1>8. CASE BreaksOff
  <2>1. UNCHANGED <<thread, log>> /\ Decided' = 0 /\ due' = due - Decided
    BY <1>8 DEF BreaksOff, Rest, Leaves, Decided
  <2> QED
    BY <1>1, <1>4, <1>b, <2>1
<1>9. CASE LogsForFree
  <2>1. UNCHANGED thread /\ Decided = 1 /\ Decided' = 0 /\ due' = due - 1 /\ CostsNothing
    BY <1>9 DEF LogsForFree, Proceeds, Rest, Leaves, Decided, CostsNothing
  <2> QED
    BY <1>1, <1>4, <1>a, <2>1
<1>10. CASE \E who \in Members : Throttled(who)
  <2>1. UNCHANGED <<thread, due>> /\ Decided' = Decided /\ CostsNothing
    BY <1>10 DEF Throttled, Decided, CostsNothing
  <2> QED
    BY <1>5, <1>a, <2>1
<1>11. CASE Deletions
  <2>1. UNCHANGED <<thread, loop>>
    BY <1>11 DEF Deletions, RemovesFact, ClearsLog, DeletesQuestion, DeletesChat, SavesOptOuts,
                 PurgeSender, RetentionChunks, RetentionFacts, DropsDocument
  <2>2. Decided' = Decided
    BY <2>1 DEF Decided
  <2>3. CASE UNCHANGED account
    BY <1>5, <1>b, <2>1, <2>2, <2>3 DEF account
  <2>4. ASSUME NEW rows \in SUBSET log, Strikes(rows)
        PROVE  Accounted'
    <3>1. /\ Spent' \in Nat /\ CostOf(rows) \in Nat
          /\ Spent' = Spent - CostOf(rows) /\ due' = due - CostOf(rows)
      BY <2>4, Spends DEF Strikes, Leaves
    <3> QED
      BY <1>1, <1>4, <2>1, <2>2, <3>1
  <2>5. CASE \E row \in log : ClearsLog(row) \/ DeletesQuestion(row)
    BY <2>4, <2>5 DEF ClearsLog, DeletesQuestion
  <2>6. CASE \E m \in Members : \E spoke \in SUBSET (chunks \ papers) : PurgeSender(m, spoke)
    BY <2>4, <2>6 DEF PurgeSender, Purges
  <2> QED
    BY <1>11, <2>3, <2>5, <2>6 DEF Deletions, RemovesFact, DeletesChat, SavesOptOuts,
                                   RetentionChunks, RetentionFacts, DropsDocument
<1> QED
  BY <1>3, <1>6, <1>7, <1>8, <1>9, <1>10, <1>11 DEF Next

(* Every call that was paid for has its row with its cost, or is about to  *)
(* get it, but for what SpendBounded names (query_log.record in asking.py  *)
(* and extraction.py).                                                     *)
THEOREM CallsAccounted == Spec => []Accounted
<1>1. Init => Accounted
  <2> SUFFICES ASSUME Init PROVE Accounted
    OBVIOUS
  <2>1. {t \in Threads : At(t, "answered")} = {} /\ loop.pc = "idle" /\ {r \in log : r.cost = 1} = {}
    BY DEF Init, At, Idle, Rest
  <2>2. Cardinality({}) = 0
    BY FS_EmptySet
  <2> QED
    BY <2>1, <2>2 DEF Init, Accounted, PaidInHand, Spent, CostOf
<1>2. Types /\ Accounted /\ [Next]_vars => Accounted'
  <2>1. ASSUME UNCHANGED vars, Accounted PROVE Accounted'
    BY <2>1 DEF vars, account, Accounted, PaidInHand, Spent, CostOf, At
  <2> QED
    BY <2>1, AccountStep
<1> QED
  BY <1>1, <1>2, TypesAlways, PTL DEF Spec

(* Every variable holds what it should; no more was charged than was paid. *)
THEOREM AnswersTypes == Spec => []TypeOK
<1>1. Types /\ Accounted => TypeOK
  <2> SUFFICES ASSUME Types, Accounted PROVE TypeOK
    OBVIOUS
  <2>1. Cardinality({t \in Threads : At(t, "answered")}) \in Nat
    BY AnswersAssumption, FS_Subset, FS_CardinalityType
  <2>2. due \in Nat /\ Spent <= due
    BY <2>1, Spends DEF Accounted, PaidInHand
  <2> QED
    BY <2>2 DEF TypeOK, Types, FactsType, IndexType, LogType, RestType, ThreadType, LoopType
<1> QED
  BY <1>1, CallsAccounted, TypesAlways, PTL

\* Requests past the check of the cap and not yet logged, and the calls the
\* loop may still make, or log, in this tick.
InFlight == {t \in Threads : thread[t].pc \in Working}
Owed == IF loop.pc = "afforded" THEN PerTick
        ELSE IF loop.pc = "next" THEN Cardinality(loop.todo)
        ELSE IF loop.pc \in {"calling", "adding", "marked"} THEN Cardinality(loop.todo) + 1
        ELSE 0

\* What is spent and what is on its way exceed the cap by no more than one
\* call a thread and a tick of the loop.
Committed ==
    /\ Owed <= PerTick
    /\ Spent + Cardinality(InFlight) + Owed < Cap + Cardinality(Threads) + PerTick

Tallied ==
    /\ IsFiniteSet(InFlight) /\ Cardinality(InFlight) \in Nat
    /\ Cardinality(Threads) \in Nat /\ Cardinality(InFlight) <= Cardinality(Threads)
    /\ IsFiniteSet(loop.todo) /\ Cardinality(loop.todo) \in Nat
    /\ Spent \in Nat /\ Owed \in Nat
    /\ Cap \in Nat /\ PerTick \in Nat \ {0}

LEMMA Counts == Types => Tallied
<1> SUFFICES ASSUME Types PROVE Tallied
  OBVIOUS
<1>1. IsFiniteSet(Threads) /\ Cap \in Nat /\ PerTick \in Nat \ {0} /\ made \in Nat
  BY AnswersAssumption DEF Types, IndexType
<1>2. InFlight \subseteq Threads
  BY DEF InFlight
<1>3. /\ IsFiniteSet(InFlight) /\ Cardinality(InFlight) <= Cardinality(Threads)
      /\ Cardinality(InFlight) \in Nat /\ Cardinality(Threads) \in Nat
  BY <1>1, <1>2, FS_Subset, FS_CardinalityType
<1>4. IsFiniteSet(loop.todo) /\ Cardinality(loop.todo) \in Nat
  <2>1. loop.todo \subseteq 1..made
    BY DEF Types, LoopType
  <2>2. IsFiniteSet(1..made)
    BY <1>1, FS_Interval
  <2>3. IsFiniteSet(loop.todo)
    BY <2>1, <2>2, FS_Subset
  <2> QED
    BY <2>3, FS_CardinalityType
<1>5. Spent \in Nat
  BY Spends
<1>6. Owed \in Nat
  BY <1>1, <1>4 DEF Owed
<1> QED
  BY <1>1, <1>3, <1>4, <1>5, <1>6 DEF Tallied

LEMMA CountsNext == Types' => Tallied'
  BY Counts, PTL

LEMMA CommittedStep ==
    ASSUME Types, Types', Committed, Next
    PROVE  Committed'
<1> DEFINE Pool == Cardinality(Threads)
           Busy == Cardinality(InFlight)
           Busy2 == Cardinality(InFlight')
<1>0. /\ Pool \in Nat /\ Cap \in Nat /\ PerTick \in Nat \ {0}
      /\ IsFiniteSet(InFlight) /\ Busy \in Nat /\ Busy2 \in Nat /\ Busy <= Pool /\ Busy2 <= Pool
      /\ Spent \in Nat /\ Spent' \in Nat /\ Owed \in Nat /\ Owed' \in Nat
      /\ Owed <= PerTick /\ Spent + Busy + Owed < Cap + Pool + PerTick
  BY Counts, CountsNext DEF Tallied, Committed
<1>1. ASSUME Owed' <= PerTick, Spent' + Busy2 + Owed' <= Spent + Busy + Owed
      PROVE  Committed'
  BY <1>0, <1>1 DEF Committed
<1>2. ASSUME Owed' <= PerTick, Spent' <= Spent, ~Exceeded
      PROVE  Committed'
  BY <1>0, <1>2 DEF Committed, Exceeded
<1>3. ASSUME NEW t \in Threads, Asks(t)
      PROVE  Committed'
  <2>1. UNCHANGED loop /\ \A u \in Threads \ {t} : thread'[u] = thread[u]
    BY <1>3, AskMoves
  <2>2. Owed' = Owed
    BY <2>1 DEF Owed
  <2>3. CASE thread[t].pc = "asked" /\ ~Exceeded /\ UNCHANGED log
    <3>1. Spent' <= Spent
      BY <1>0, <2>3 DEF Spent
    <3> QED
      BY <1>0, <1>2, <2>2, <2>3, <3>1
  <2>4. CASE (thread'[t].pc \in Working => thread[t].pc \in Working) /\ log' = log
    <3>1. InFlight' \subseteq InFlight
      BY <2>1, <2>4 DEF InFlight
    <3>2. Busy2 <= Busy
      BY <1>0, <3>1, FS_Subset
    <3>3. Spent' = Spent
      BY <2>4 DEF Spent
    <3> QED
      BY <1>0, <1>1, <2>2, <3>2, <3>3
  <2>5. CASE /\ thread[t].pc = "answered" /\ thread'[t].pc \in {"sending", "idle"}
             /\ \E who, text, found : Records(who, text, found, 1)
    <3>1. InFlight' = InFlight \ {t} /\ t \in InFlight
      BY <2>1, <2>5 DEF InFlight, Working
    <3>2. Busy2 = Busy - 1
      BY <1>0, <3>1, FS_RemoveElement
    <3>3. Spent' <= Spent + 1
      BY <2>5, Spends
    <3> QED
      BY <1>0, <1>1, <2>2, <3>2, <3>3
  <2>6. CASE thread[t].pc \notin Working /\ thread'[t].pc \notin Working /\ CostsNothing
    <3>1. InFlight' = InFlight
      BY <2>1, <2>6 DEF InFlight
    <3>2. Spent' = Spent
      <4>1. UNCHANGED log => Spent' = Spent
        BY DEF Spent
      <4> QED
        BY <2>6, <4>1, Spends DEF CostsNothing
    <3> QED
      BY <1>0, <1>1, <2>2, <3>1, <3>2
  <2>7. "idle" \notin Working /\ "afforded" \in Working /\ "calling" \in Working /\ "answered" \in Working
    BY DEF Working
  <2> QED
    BY <1>3, <2>3, <2>4, <2>5, <2>6, <2>7, AskMoves
<1>4. ASSUME UNCHANGED thread, CostsNothing, Owed' <= Owed
      PROVE  Committed'
  <2>1. Busy2 = Busy
    BY <1>4 DEF InFlight
  <2>2. UNCHANGED log => Spent' = Spent
    BY DEF Spent
  <2>3. Spent' = Spent
    BY <1>4, <2>2, Spends DEF CostsNothing
  <2> QED
    BY <1>0, <1>1, <1>4, <2>1, <2>3
<1>5. CASE LoopRuns
  <2>0. /\ UNCHANGED thread /\ IsFiniteSet(loop.todo) /\ Cardinality(loop.todo) \in Nat
    BY <1>5, LoopMoves, Counts DEF Tallied
  <2>1. CASE loop.pc = "idle" /\ loop'.pc = "afforded" /\ ~Exceeded /\ UNCHANGED <<log, due>>
    <3>1. Owed' = PerTick
      BY <2>1 DEF Owed
    <3>2. Spent' = Spent
      BY <2>1 DEF Spent
    <3> QED
      BY <1>0, <1>2, <2>1, <3>1, <3>2
  <2>2. CASE /\ loop.pc = "afforded" /\ loop'.pc = "next" /\ Oldest(loop'.todo)
             /\ UNCHANGED <<log, due>>
    <3>1. Owed = PerTick /\ Owed' = Cardinality(loop'.todo)
      BY <2>2 DEF Owed
    <3>2. Cardinality(loop'.todo) <= PerTick
      BY <2>2 DEF Oldest
    <3> QED
      BY <1>4, <2>0, <2>2, <3>1, <3>2 DEF CostsNothing
  <2>3. CASE loop'.pc = "idle" /\ log' = log
    <3>1. Owed' = 0
      BY <2>3 DEF Owed
    <3> QED
      BY <1>0, <1>4, <2>0, <2>3, <3>1 DEF CostsNothing
  <2>4. CASE /\ loop.pc = "next" /\ loop'.pc = "calling" /\ \E c \in loop.todo : loop'.todo = loop.todo \ {c}
             /\ UNCHANGED <<log, due>>
    <3>1. Cardinality(loop'.todo) = Cardinality(loop.todo) - 1
      BY <2>0, <2>4, FS_RemoveElement
    <3>2. Owed = Cardinality(loop.todo) /\ Owed' = Cardinality(loop'.todo) + 1
      BY <2>4 DEF Owed
    <3>3. Owed' = Owed
      BY <2>0, <3>1, <3>2
    <3> QED
      BY <1>0, <1>4, <2>0, <2>4, <3>3 DEF CostsNothing
  <2>5. CASE /\ loop.pc \in {"calling", "adding", "marked"} /\ loop'.pc \in {"next", "adding", "marked"}
             /\ loop'.todo = loop.todo /\ log' = log
    <3>1. Owed = Cardinality(loop.todo) + 1 /\ Owed' \in {Cardinality(loop.todo), Cardinality(loop.todo) + 1}
      BY <2>5 DEF Owed
    <3>2. Owed' <= Owed
      BY <2>0, <3>1
    <3> QED
      BY <1>4, <2>0, <2>5, <3>2 DEF CostsNothing
  <2>6. CASE /\ loop.pc = "marked" /\ loop'.pc = "next" /\ loop'.todo = loop.todo
             /\ Records(NoOne, Unsaid, {}, 1)
    <3>1. Owed = Cardinality(loop.todo) + 1 /\ Owed' = Cardinality(loop.todo)
      BY <2>6 DEF Owed
    <3>2. Spent' <= Spent + 1
      BY <2>6, Spends
    <3>3. Busy2 = Busy
      BY <2>0 DEF InFlight
    <3> QED
      BY <1>0, <1>1, <2>0, <3>1, <3>2, <3>3
  <2> QED
    BY <1>5, <2>1, <2>2, <2>3, <2>4, <2>5, <2>6, LoopMoves
<1>6. CASE Stored
  BY <1>0, <1>4, <1>6 DEF Stored, Chunked, StoresDocument, Owed, CostsNothing, account
<1>7. CASE BreaksOff
  <2>1. Owed' = 0
    BY <1>7 DEF BreaksOff, Owed, Rest
  <2> QED
    BY <1>0, <1>4, <1>7, <2>1 DEF BreaksOff, CostsNothing
<1>8. CASE LogsForFree
  <2>1. UNCHANGED thread /\ CostsNothing
    BY <1>8 DEF LogsForFree, CostsNothing
  <2>2. loop.pc = "marked" /\ loop'.pc = "next" /\ loop'.todo = loop.todo
    BY <1>8 DEF LogsForFree, Proceeds, Rest
  <2>3. Owed = Cardinality(loop.todo) + 1 /\ Owed' = Cardinality(loop.todo)
    BY <2>2 DEF Owed
  <2> QED
    BY <1>0, <1>4, <2>1, <2>3
<1>9. CASE \E who \in Members : Throttled(who)
  <2>1. UNCHANGED thread /\ CostsNothing /\ Owed' = Owed
    BY <1>9 DEF Throttled, Owed, CostsNothing
  <2> QED
    BY <1>0, <1>4, <2>1
<1>10. CASE Deletions
  <2>1. UNCHANGED <<thread, loop>>
    BY <1>10 DEF Deletions, RemovesFact, ClearsLog, DeletesQuestion, DeletesChat, SavesOptOuts,
                 PurgeSender, RetentionChunks, RetentionFacts, DropsDocument
  <2>2. Owed' = Owed /\ Busy2 = Busy
    BY <2>1 DEF Owed, InFlight
  <2>3. CASE UNCHANGED account
    BY <1>0, <1>4, <2>1, <2>2, <2>3 DEF account, CostsNothing
  <2>4. ASSUME NEW rows \in SUBSET log, Strikes(rows)
        PROVE  Committed'
    <3>1. Spent' <= Spent
      BY <1>0, <2>4, Spends
    <3> QED
      BY <1>0, <1>1, <2>2, <3>1
  <2>5. CASE \E row \in log : ClearsLog(row) \/ DeletesQuestion(row)
    BY <2>4, <2>5 DEF ClearsLog, DeletesQuestion
  <2>6. CASE \E m \in Members : \E spoke \in SUBSET (chunks \ papers) : PurgeSender(m, spoke)
    BY <2>4, <2>6 DEF PurgeSender, Purges
  <2> QED
    BY <1>10, <2>3, <2>5, <2>6 DEF Deletions, RemovesFact, DeletesChat, SavesOptOuts,
                                   RetentionChunks, RetentionFacts, DropsDocument
<1> QED
  BY <1>3, <1>5, <1>6, <1>7, <1>8, <1>9, <1>10 DEF Next

(* What is paid for, but for the calls that are in no account, exceeds the *)
(* cap by no more than one question a thread and one tick of the           *)
(* extraction loop: each checks the cap before its call and is charged     *)
(* after it (budget.exceeded).                                             *)
THEOREM SpendingBounded == Spec => []SpendBounded
<1>1. Init => Committed
  <2> SUFFICES ASSUME Init PROVE Committed
    OBVIOUS
  <2>1. InFlight = {} /\ Owed = 0 /\ {r \in log : r.cost = 1} = {}
    BY DEF Init, InFlight, Working, Owed, Idle, Rest
  <2>2. Cardinality({}) = 0
    BY FS_EmptySet
  <2>3. Cardinality(Threads) \in Nat /\ Cap \in Nat /\ PerTick \in Nat \ {0}
    BY AnswersAssumption, FS_CardinalityType
  <2>4. Spent = 0 /\ Cardinality(InFlight) = 0
    BY <2>1, <2>2 DEF Spent, CostOf
  <2>5. 0 + 0 + 0 < Cap + Cardinality(Threads) + PerTick /\ 0 <= PerTick
    BY <2>3
  <2> QED
    BY <2>1, <2>4, <2>5 DEF Committed
<1>2. Types /\ Types' /\ Committed /\ [Next]_vars => Committed'
  <2>1. ASSUME UNCHANGED vars, Committed PROVE Committed'
    BY <2>1 DEF vars, account, Committed, Spent, InFlight, Owed
  <2> QED
    BY <2>1, CommittedStep
<1>3. Types /\ Committed /\ Accounted => SpendBounded
  <2> SUFFICES ASSUME Types, Committed, Accounted PROVE SpendBounded
    OBVIOUS
  <2>1. Tallied
    BY Counts
  <2>2. Answering \subseteq InFlight
    BY DEF Answering, InFlight, At, Working
  <2>3. Cardinality(Answering) <= Cardinality(InFlight) /\ Cardinality(Answering) \in Nat
    BY <2>1, <2>2, FS_Subset, FS_CardinalityType DEF Tallied
  <2>4. Decided <= Owed /\ Decided \in Nat
    BY <2>1 DEF Tallied, Decided, Owed
  <2>5. due = Spent + (Cardinality(Answering) + Decided)
    BY DEF Accounted, PaidInHand, Answering, Decided
  <2> QED
    BY <2>1, <2>3, <2>4, <2>5 DEF Tallied, Committed, SpendBounded
<1> QED
  BY <1>1, <1>2, <1>3, CallsAccounted, TypesAlways, PTL DEF Spec

=============================================================================
