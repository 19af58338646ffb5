----------------------------- MODULE Documents -----------------------------
(***************************************************************************)
(* Uploaded and shared files (app/documents).  A call stores a row; one    *)
(* background loop takes a snapshot of up to BATCH pending rows, reads     *)
(* each file, which can take a minute of model calls, and stores its       *)
(* chunks, or the reason there are none.  Uploads, re-indexing, deletions  *)
(* and the purge of a group run meanwhile on other connections, at READ    *)
(* COMMITTED.  The parts of a document are stored together, so its chunks  *)
(* are represented by the name their labels carry.                         *)
(***************************************************************************)
EXTENDS Integers, Sequences, FiniteSets

CONSTANTS Files,     \* file contents, each with what a reader finds in it
          Names,     \* file names and mime types, each with the kind read() sees
          Groups,    \* groups there are at first
          Sharing,   \* groups that opted into index_files
          Batch,     \* BATCH
          MaxPages,  \* VISION_PAGES
          MaxOps,    \* what the admin and the members do; a bound
          MaxFaults  \* database outages and restarts; a bound

ASSUME DocumentsAssumption ==
    /\ Sharing \subseteq Groups
    /\ Batch \in Nat \ {0}
    /\ MaxOps \in Nat /\ MaxFaults \in Nat

All == "every group"   \* a NULL group_id
NoText == [kind |-> "nothing read"]
ASSUME SentinelAssumption == All \notin Groups /\ NoText \notin Names

Ids == 1..MaxOps       \* a BIGSERIAL: no id is used twice
Places == Groups \cup {All}

VARIABLES
    groups,      \* groups in the database
    leaving,     \* groups purged, whose row is to be deleted
    nextId,      \* documents inserted so far, plus one
    docs,        \* the documents table
    chunk,       \* the name in the labels of a document's chunks
    calls,       \* uploads and re-indexes under way
    \* the loop
    batch,       \* the rows it read and has not dealt with, by id
    verdict,     \* what reading the first of them came to
    \* history
    overlapped,  \* documents reset while the loop had them in hand
    ops, faults  \* bounded counters

loop == <<batch, verdict>>
tables == <<groups, leaving, nextId, docs, chunk>>
vars == <<tables, calls, loop, overlapped, ops, faults>>

Absent == [status |-> "absent"]
Rows == [place : Places, file : Files, name : Names,
         status : {"pending", "indexed", "failed"},
         held : BOOLEAN,                 \* whether raw is kept
         text : Names \cup {NoText}]     \* content, by the name it was read under
Calls == [place : Places, file : Files, name : Names, reindex : BOOLEAN,
          id : Int,          \* the row found, or one of the two below
          missed : BOOLEAN]  \* the loop stored chunks after they were deleted
Checked == -1  \* create has not looked yet
New == 0       \* create found no such document

Init ==
    /\ groups = Groups /\ leaving = {}
    /\ nextId = 1
    /\ docs = [d \in Ids |-> Absent]
    /\ chunk = [d \in Ids |-> NoText]
    /\ calls = {}
    /\ batch = [d \in Ids |-> Absent] /\ verdict = "none"
    /\ overlapped = {}
    /\ ops = 0 /\ faults = 0

Live == {d \in Ids : docs[d] # Absent}
Unindexed == {d \in Live : docs[d].status # "indexed"}  \* mutant: what failed is picked up again
Pending == {d \in Live : docs[d].status = "pending"}
InBatch == {d \in Ids : batch[d] # Absent}
Turn(d) == d \in InBatch /\ \A e \in InBatch : d <= e

Operates == ops < MaxOps /\ ops' = ops + 1
Fault == faults < MaxFaults /\ faults' = faults + 1
-----------------------------------------------------------------------------
(* read.py: what reading a file comes to.  `model` says whether the place  *)
(* has a provider for images, and what becomes of calling it.              *)

Unreadable == "unreadable"  \* refused with a sentence for the admin
Parts == "parts"
Crash == "crash"            \* an exception read() does not expect
Verdicts == {Unreadable, Parts, Crash}

Models == {"none", "fails", "answers"}

Describe(model) == IF model = "answers" THEN Parts ELSE Unreadable

\* One model call a page, and none when there are too many.
Scanned(f, model) == IF Len(f.pages) > MaxPages THEN Unreadable ELSE Describe(model)

\* A page below TEXT_PER_PAGE is "bare"; one page with text spares the model.
Pdf(f, model) ==
    IF f.damaged \/ f.pages = <<>> THEN Unreadable
    ELSE IF \A i \in DOMAIN f.pages : f.pages[i] = "bare" THEN Scanned(f, model)
    ELSE Parts

\* A damaged book is refused when it is opened; a damaged sheet raises later.
Spreadsheet(f) == IF f.damaged THEN {Unreadable, Crash} ELSE {Parts}

\* MarkItDown.
Converted(f) == IF f.damaged THEN Unreadable ELSE Parts

\* _bounded: refused when it expands to too much text.
Bounded(f, v) == IF v = Parts /\ f.huge THEN Unreadable ELSE v

Read(f, name, model) ==
    {Bounded(f, v) : v \in CASE name.kind = "image" -> {Describe(model)}
                             [] name.kind = "pdf" -> {Pdf(f, model)}
                             [] name.kind = "sheet" -> Spreadsheet(f)
                             [] OTHER -> {Converted(f)}}
-----------------------------------------------------------------------------
(* Calls.  A place is checked on one connection and the row is written on  *)
(* another.                                                                *)

Begins(p, f, n) ==
    /\ Operates
    /\ calls' = calls \cup {[place |-> p, file |-> f, name |-> n, reindex |-> FALSE,
                             id |-> Checked, missed |-> FALSE]}
    /\ UNCHANGED <<tables, loop, overlapped, faults>>

\* The panel's upload: for a group, or for all of them.
Upload(p, f, n) == p \in groups \cup {All} /\ Begins(p, f, n)

\* A file shared in a group that indexes files.
IngestFile(g, f, n) == g \in groups \cap Sharing /\ Begins(g, f, n)

Existing(p, f) == {d \in Live : docs[d].place = p /\ docs[d].file = f}

Replace(c, d) == calls' = (calls \ {c}) \cup {d}
End(c) == calls' = calls \ {c}

\* create finds the document, and its DELETE of the chunks sees those stored.
CreateLooks(c) ==
    /\ c.id = Checked
    /\ \/ Existing(c.place, c.file) = {} /\ Replace(c, [c EXCEPT !.id = New])
       \/ \E d \in Existing(c.place, c.file) : Replace(c, [c EXCEPT !.id = d])
    /\ UNCHANGED <<tables, loop, overlapped, ops, faults>>

\* The INSERT; a twin inserted meanwhile makes it a UniqueViolation.
CreateInserts(c) ==
    /\ c.id = New
    /\ IF Existing(c.place, c.file) = {}
       THEN /\ docs' = [docs EXCEPT ![nextId] =
                  [place |-> c.place, file |-> c.file, name |-> c.name,
                   status |-> "pending", held |-> TRUE, text |-> NoText]]
            /\ nextId' = nextId + 1
       ELSE UNCHANGED <<docs, nextId>>
    /\ End(c)
    /\ UNCHANGED <<groups, leaving, chunk, loop, overlapped, ops, faults>>

ResetKeepsText(row, c) ==  \* mutant: an upload resets no more than a re-index
    [row EXCEPT !.status = "pending", !.name = c.name]
Reset(row, c) ==
    IF c.reindex THEN [row EXCEPT !.status = "pending"]
    ELSE [row EXCEPT !.status = "pending", !.name = c.name, !.held = TRUE, !.text = NoText]

ResetLeavesChunks(c) ==  \* mutant: only the row is reset
    /\ docs' = [docs EXCEPT ![c.id] = Reset(docs[c.id], c)]
    /\ UNCHANGED chunk
\* The UPDATE and the commit.  Chunks stored since the DELETE are still there.
ResetDocument(c) ==
    /\ docs' = [docs EXCEPT ![c.id] = Reset(docs[c.id], c)]
    /\ chunk' = [chunk EXCEPT ![c.id] = IF c.missed THEN chunk[c.id] ELSE NoText]

Resets(c) ==
    /\ c.id \in Ids
    /\ IF c.id \in Live THEN ResetDocument(c) ELSE UNCHANGED <<docs, chunk>>
    /\ overlapped' = IF c.missed \/ c.id \in InBatch
                     THEN overlapped \cup {c.id} ELSE overlapped
    /\ End(c)
    /\ UNCHANGED <<groups, leaving, nextId, loop, ops, faults>>

\* The panel's Re-index, which answers 404 when there is no such document.
Reindex(d) ==
    /\ d \in Live
    /\ Operates
    /\ calls' = calls \cup {[place |-> docs[d].place, file |-> docs[d].file,
                             name |-> docs[d].name, reindex |-> TRUE,
                             id |-> d, missed |-> FALSE]}
    /\ UNCHANGED <<tables, loop, overlapped, faults>>

\* Rows go with their chunks: ON DELETE CASCADE.
Remove(D) ==
    /\ docs' = [d \in Ids |-> IF d \in D THEN Absent ELSE docs[d]]
    /\ chunk' = [d \in Ids |-> IF d \in D THEN NoText ELSE chunk[d]]

Delete(d) ==
    /\ d \in Live
    /\ Operates
    /\ Remove({d})
    /\ UNCHANGED <<groups, leaving, nextId, calls, loop, overlapped, faults>>

\* groups.delete: purge_group in a transaction, then the row of the group.
PurgeGroup(g) ==
    /\ g \in groups \ leaving
    /\ Operates
    /\ Remove({d \in Live : docs[d].place = g})
    /\ leaving' = leaving \cup {g}
    /\ UNCHANGED <<groups, nextId, calls, loop, overlapped, faults>>

RemoveGroup(g) ==
    /\ g \in leaving \cap groups
    /\ groups' = groups \ {g}
    /\ UNCHANGED <<leaving, nextId, docs, chunk, calls, loop, overlapped, ops, faults>>
-----------------------------------------------------------------------------
(* index_pending. *)

\* ORDER BY id LIMIT BATCH.
Oldest == {d \in Pending : Cardinality({e \in Pending : e < d}) < Batch}

IndexPending ==
    /\ InBatch = {}
    /\ Pending # {}
    /\ batch' = [d \in Ids |-> IF d \in Oldest THEN docs[d] ELSE Absent]
    /\ UNCHANGED <<tables, calls, verdict, overlapped, ops, faults>>

\* _index: the text already extracted, or the file read with what the place
\* has for a model.  Embedding the parts may raise, whichever they are.
Reads(d) ==
    /\ Turn(d)
    /\ verdict = "none"
    /\ \E model \in Models :
        LET read == IF batch[d].text # NoText THEN {Parts}
                    ELSE Read(batch[d].file, batch[d].name, model)
        IN  verdict' \in read \cup IF Parts \in read THEN {Crash} ELSE {}
    /\ UNCHANGED <<tables, calls, batch, overlapped, ops, faults>>

Label(d) == IF batch[d].text # NoText THEN batch[d].text ELSE batch[d].name

\* The database refuses the chunks: a NUL in the text, or no such document.
Refuses(d) == d \notin Live \/ batch[d].file.nul

Done(d) == batch' = [batch EXCEPT ![d] = Absent] /\ verdict' = "none"

StoredKeepingRaw(row, label) ==  \* mutant: the text is not kept
    [row EXCEPT !.status = "indexed", !.held = FALSE]
Stored(row, label) ==
    [row EXCEPT !.status = "indexed", !.held = FALSE, !.text = label]

\* _store, one transaction.  A reset under way does not see its chunks.
Stores(d) ==
    /\ Turn(d)
    /\ verdict = Parts
    /\ ~Refuses(d)
    /\ docs' = [docs EXCEPT ![d] = Stored(docs[d], Label(d))]
    /\ chunk' = [chunk EXCEPT ![d] = Label(d)]
    /\ calls' = {[c EXCEPT !.missed = c.missed \/ c.id = d] : c \in calls}
    /\ Done(d)
    /\ UNCHANGED <<groups, leaving, nextId, overlapped, ops, faults>>

FailsSilently(d) ==  \* mutant: a parser's exception leaves the row pending
    /\ Turn(d)
    /\ verdict \in {Unreadable, Crash}
    /\ docs' = IF verdict = Crash THEN docs
               ELSE [docs EXCEPT ![d] = IF d \in Live THEN [docs[d] EXCEPT !.status = "failed"] ELSE Absent]
    /\ Done(d)
    /\ UNCHANGED <<groups, leaving, nextId, chunk, calls, overlapped, ops, faults>>
\* _fail: of no effect when the document is gone.
Fails(d) ==
    /\ Turn(d)
    /\ verdict \in {Unreadable, Crash}
    /\ docs' = [docs EXCEPT ![d] = IF d \in Live THEN [docs[d] EXCEPT !.status = "failed"] ELSE Absent]
    /\ Done(d)
    /\ UNCHANGED <<groups, leaving, nextId, chunk, calls, overlapped, ops, faults>>

\* A psycopg.Error is "the database, not the document": the tick raises, and
\* the rest of the batch with it.
TickRaises ==
    /\ batch' = [d \in Ids |-> Absent]
    /\ verdict' = "none"
    /\ UNCHANGED <<tables, overlapped, ops>>

StoreRefused(d) ==
    /\ Turn(d)
    /\ verdict = Parts
    /\ Refuses(d)
    /\ TickRaises
    /\ UNCHANGED <<calls, faults>>

Outage == Fault /\ InBatch # {} /\ TickRaises /\ UNCHANGED calls

Restart == Fault /\ TickRaises /\ calls' = {}
-----------------------------------------------------------------------------
Call(c) == CreateLooks(c) \/ CreateInserts(c) \/ Resets(c)
Index(d) == Reads(d) \/ Stores(d) \/ StoreRefused(d) \/ Fails(d)

Next ==
    \/ \E f \in Files, n \in Names :
         \/ \E p \in Places : Upload(p, f, n)
         \/ \E g \in Groups : IngestFile(g, f, n)
    \/ \E c \in calls : Call(c)
    \/ \E d \in Ids : Reindex(d) \/ Delete(d) \/ Index(d)
    \/ \E g \in Groups : PurgeGroup(g) \/ RemoveGroup(g)
    \/ IndexPending
    \/ Outage
    \/ Restart

Spec == Init /\ [][Next]_vars

\* The loop ticks for as long as the process runs, and what it does to a row
\* and what a call does end.
FairSpec ==
    /\ Spec
    /\ WF_vars(IndexPending)
    /\ WF_vars(\E d \in Ids : Index(d))
    /\ WF_vars(\E c \in calls : Call(c))
-----------------------------------------------------------------------------
TypeOK ==
    /\ groups \subseteq Groups /\ leaving \subseteq Groups
    /\ nextId \in Nat \ {0}
    /\ docs \in [Ids -> Rows \cup {Absent}]
    /\ chunk \in [Ids -> Names \cup {NoText}]
    /\ calls \subseteq Calls
    /\ batch \in [Ids -> Rows \cup {Absent}]
    /\ verdict \in Verdicts \cup {"none"}
    /\ overlapped \subseteq Ids
    /\ ops \in 0..MaxOps /\ faults \in 0..MaxFaults

\* A document the panel shows as indexed is searchable, with the text that is
\* kept for a re-index; and one that is pending, failed or deleted is not
\* searchable, unless it was reset while the loop had it in hand.
Searchable == \A d \in Ids :
    /\ d \in Live /\ docs[d].status = "indexed" => chunk[d] = docs[d].text /\ chunk[d] # NoText
    /\ chunk[d] # NoText /\ d \notin overlapped => d \in Live /\ docs[d].status = "indexed"

\* The label an answer cites is the name the panel shows, unless the file was
\* uploaded again under another name while the loop had it in hand.
CitesItsName == \A d \in Live :
    docs[d].status = "indexed" /\ d \notin overlapped => chunk[d] = docs[d].name

\* A document that is not indexed can be read again: its bytes or its text
\* are kept, whatever was reset and stored in between.
Rereadable == \A d \in Live : docs[d].held \/ docs[d].text # NoText

\* What is promised of a file, in terms of its row and its chunks.
StageOf(d) == IF d \in Live THEN docs[d].status
              ELSE IF d < nextId THEN "deleted" ELSE "unknown"

L == INSTANCE Library WITH
       state <- [d \in Ids |-> StageOf(d)],
       shown <- {d \in Ids : chunk[d] # NoText},
       excused <- overlapped \cap Live

\* The documents implement Library: what the loop decides, it decides of a
\* document that waits, only an upload or a re-index takes a document back,
\* and what was deleted stays out, whatever the loop has in hand.
KeepsLibrary == L!Spec

\* Pending rows whose text the database refuses.
Stuck(d) == d \in Pending /\ docs[d].file.nul

\* Every pending document is indexed, refused or deleted in the end, unless
\* an older one, or itself, is met on every tick and raises there.
Settles == \A d \in Ids :
    d \in Pending ~> (d \notin Pending \/ \E e \in Ids : e <= d /\ Stuck(e))
=============================================================================
