-------------------------- MODULE DocumentsProofs --------------------------
(***************************************************************************)
(* What the panel says of a document is true of the index, and what is not *)
(* indexed can be read again, for any number of files, groups, calls,      *)
(* restarts and outages, and any size of the loop's batch.                 *)
(***************************************************************************)
EXTENDS Documents, TLAPS

\* One row, its chunks and the loop's copy of it.
RowInv(d) ==
    \* An id that is still to come is nowhere.
    /\ d >= nextId => docs[d] = Absent /\ batch[d] = Absent
    /\ docs[d] = Absent => chunk[d] = NoText
    /\ docs[d] # Absent =>
         /\ docs[d].status = "indexed" => chunk[d] = docs[d].text /\ chunk[d] # NoText
         /\ docs[d].held \/ docs[d].text # NoText
         \* What the loop has in hand waits, also when it was reset.
         /\ batch[d] # Absent => docs[d].status = "pending"
    \* Unless it was reset meanwhile, what the loop has in hand is as it read
    \* it, what waits is out of the index, and a text was read under the name.
    /\ docs[d] # Absent /\ d \notin overlapped =>
         /\ batch[d] # Absent => docs[d] = batch[d]
         /\ docs[d].status # "indexed" => chunk[d] = NoText
         /\ docs[d].text \in {NoText, docs[d].name}

Inv == TypeOK /\ \A d \in Ids : RowInv(d)

-----------------------------------------------------------------------------
(* The parts of a step. *)

LEMMA Counts ==
    ASSUME TypeOK
    PROVE  /\ Operates => ops' \in 0..MaxOps
           /\ Fault => faults' \in 0..MaxFaults
BY DocumentsAssumption DEF TypeOK, Operates, Fault

LEMMA RowFacts ==
    ASSUME NEW r \in Rows
    PROVE  r # Absent
<1>1. r.status # "absent"
  BY DEF Rows
<1>2. Absent.status = "absent"
  BY DEF Absent
<1> QED
  BY <1>1, <1>2

LEMMA LiveRows ==
    ASSUME TypeOK, NEW d \in Ids
    PROVE  /\ d \in Live <=> docs[d] \in Rows
           /\ d \in InBatch <=> batch[d] \in Rows
<1>1. docs[d] \in Rows \cup {Absent} /\ batch[d] \in Rows \cup {Absent}
  BY DEF TypeOK
<1> QED
  BY <1>1, RowFacts DEF Live, InBatch

LEMMA ReadFacts ==
    ASSUME NEW f, NEW n, NEW m, NEW v \in Read(f, n, m)
    PROVE  v \in Verdicts
<1>1. PICK w \in Verdicts : v = Bounded(f, w)
  <2>1. PICK w \in CASE n.kind = "image" -> {Describe(m)}
                     [] n.kind = "pdf" -> {Pdf(f, m)}
                     [] n.kind = "sheet" -> Spreadsheet(f)
                     [] OTHER -> {Converted(f)} : v = Bounded(f, w)
    BY DEF Read
  <2>2. Describe(m) \in Verdicts /\ Pdf(f, m) \in Verdicts
        /\ Spreadsheet(f) \subseteq Verdicts /\ Converted(f) \in Verdicts
    BY DEF Describe, Pdf, Scanned, Spreadsheet, Converted, Verdicts, Parts
  <2>3. CASE n.kind = "image"
    BY <2>1, <2>2, <2>3
  <2>4. CASE n.kind = "pdf"
    BY <2>1, <2>2, <2>4
  <2>5. CASE n.kind = "sheet"
    BY <2>1, <2>2, <2>5
  <2>6. CASE n.kind \notin {"image", "pdf", "sheet"}
    BY <2>1, <2>2, <2>6
  <2> QED
    BY <2>3, <2>4, <2>5, <2>6
<1> QED
  BY <1>1 DEF Bounded, Verdicts

\* The rows of the others, and those that go.
LEMMA Others ==
    ASSUME NEW d \in Ids, TypeOK, RowInv(d), nextId' \in Nat, nextId' >= nextId,
           overlapped \subseteq overlapped', batch'[d] \in {batch[d], Absent},
           \/ docs'[d] = docs[d] /\ chunk'[d] = chunk[d]
           \/ docs'[d] = Absent /\ chunk'[d] = NoText
    PROVE  RowInv(d)'
<1>1. d \in Int /\ nextId \in Nat
  BY DEF Ids, TypeOK
<1>2. d >= nextId' => d >= nextId
  BY <1>1
<1>3. CASE docs'[d] = docs[d] /\ chunk'[d] = chunk[d]
  BY <1>2, <1>3 DEF RowInv
<1>4. CASE docs'[d] = Absent /\ chunk'[d] = NoText
  BY <1>2, <1>4 DEF RowInv
<1> QED
  BY <1>3, <1>4

\* A step that leaves the tables and the loop alone, or only drops the batch.
LEMMA Untouched ==
    ASSUME Inv, TypeOK', UNCHANGED <<nextId, docs, chunk>>, overlapped \subseteq overlapped',
           \A d \in Ids : batch'[d] \in {batch[d], Absent}
    PROVE  Inv'
<1>1. ASSUME NEW d \in Ids PROVE RowInv(d)'
  BY Others DEF Inv, TypeOK
<1> QED
  BY <1>1 DEF Inv

LEMMA RemoveInv ==
    ASSUME Inv, NEW D \in SUBSET Ids, Remove(D), groups' \subseteq Groups, leaving' \subseteq Groups,
           ops' \in 0..MaxOps, UNCHANGED <<nextId, calls, loop, overlapped, faults>>
    PROVE  Inv'
<1>1. TypeOK'
  BY DEF Inv, TypeOK, Remove, loop
<1>2. ASSUME NEW d \in Ids PROVE RowInv(d)'
  <2>1. batch'[d] = batch[d] /\ RowInv(d) /\ TypeOK /\ nextId' \in Nat /\ nextId' >= nextId
    BY DEF loop, Inv, TypeOK
  <2>2. CASE d \in D
    BY <2>1, <2>2, Others DEF Remove
  <2>3. CASE d \notin D
    BY <2>1, <2>3, Others DEF Remove
  <2> QED
    BY <2>2, <2>3
<1> QED
  BY <1>1, <1>2 DEF Inv

-----------------------------------------------------------------------------
(* One lemma per action that writes a row or takes it in hand. *)

LEMMA CreateInsertsInv ==
    ASSUME Inv, NEW c \in calls, CreateInserts(c)
    PROVE  Inv'
<1>0. TypeOK /\ c \in Calls
  BY DEF Inv, TypeOK
<1>1. calls' \subseteq Calls
  BY <1>0 DEF CreateInserts, End, TypeOK
<1>2. CASE UNCHANGED <<docs, nextId>>
  <2>1. TypeOK'
    BY <1>0, <1>1, <1>2 DEF TypeOK, CreateInserts, loop
  <2> QED
    BY <1>2, <2>1, Untouched DEF CreateInserts, loop
<1>3. ASSUME NEW r,
             r = [place |-> c.place, file |-> c.file, name |-> c.name,
                  status |-> "pending", held |-> TRUE, text |-> NoText],
             docs' = [docs EXCEPT ![nextId] = r],
             nextId' = nextId + 1
      PROVE  Inv'
  <2>1. r \in Rows
    BY <1>0, <1>3 DEF Rows, Calls
  <2>2. docs' \in [Ids -> Rows \cup {Absent}]
    BY <1>0, <1>3, <2>1 DEF TypeOK
  <2>3. nextId' \in Nat \ {0}
    BY <1>0, <1>3 DEF TypeOK
  <2>4. TypeOK'
    BY <1>0, <1>1, <2>2, <2>3 DEF TypeOK, CreateInserts, loop
  <2>5. ASSUME NEW d \in Ids PROVE RowInv(d)'
    <3>1. RowInv(d) /\ UNCHANGED <<chunk, batch, overlapped>>
      BY DEF Inv, CreateInserts, loop
    <3>2. CASE d # nextId
      <4>1. docs'[d] = docs[d]
        BY <1>3, <3>2, <1>0 DEF TypeOK
      <4>2. nextId' >= nextId
        BY <1>3, <1>0 DEF TypeOK
      <4> QED
        BY <3>1, <4>1, <4>2, <2>3, <1>0, Others
    <3>3. CASE d = nextId
      <4>1. docs'[d] = r /\ r # Absent
        BY <1>3, <3>3, <1>0, <2>1, RowFacts DEF TypeOK
      <4>2. d \in Nat /\ ~(d >= nextId')
        BY <1>3, <3>3, <1>0 DEF TypeOK
      <4>3. d >= nextId
        BY <3>3, <4>2
      <4>4. batch[d] = Absent /\ chunk[d] = NoText
        BY <3>1, <4>3 DEF RowInv
      <4>5. r.status = "pending" /\ r.held /\ r.text = NoText
        BY <1>3
      <4> QED
        BY <4>1, <4>2, <4>4, <4>5, <3>1 DEF RowInv
    <3> QED
      BY <3>2, <3>3
  <2> QED
    BY <2>4, <2>5 DEF Inv
<1> QED
  BY <1>2, <1>3 DEF CreateInserts

LEMMA ResetsInv ==
    ASSUME Inv, NEW c \in calls, Resets(c)
    PROVE  Inv'
<1>0. TypeOK /\ c \in Calls /\ c.id \in Ids
  BY DEF Inv, TypeOK, Resets
<1>1. calls' \subseteq Calls /\ overlapped' \subseteq Ids /\ overlapped \subseteq overlapped'
  BY <1>0 DEF Resets, End, TypeOK
<1>2. CASE c.id \notin Live
  <2>1. UNCHANGED <<docs, chunk>>
    BY <1>2 DEF Resets
  <2>2. TypeOK'
    BY <1>0, <1>1, <2>1 DEF TypeOK, Resets, loop
  <2> QED
    BY <1>1, <2>1, <2>2, Untouched DEF Resets, loop
<1>3. CASE c.id \in Live
  <2> DEFINE row == docs[c.id]
             r == Reset(row, c)
  <2>1. row \in Rows
    BY <1>0, <1>3, LiveRows
  <2>2. r \in Rows /\ r.status = "pending"
    BY <1>0, <2>1 DEF Reset, Rows, Calls
  <2>3. r.held \/ r.text # NoText
    <3>1. row.held \/ row.text # NoText
      BY <1>0, <1>3 DEF Inv, RowInv, Live
    <3>2. CASE c.reindex
      <4>1. r.held = row.held /\ r.text = row.text
        BY <2>1, <3>2 DEF Reset, Rows
      <4> QED
        BY <3>1, <4>1
    <3>3. CASE ~c.reindex
      <4>1. r.held = TRUE
        BY <2>1, <3>3 DEF Reset, Rows
      <4> QED
        BY <4>1
    <3> QED
      BY <3>2, <3>3
  <2>4. r.text = NoText \/ (r.text = row.text /\ r.name = row.name)
    BY <2>1 DEF Reset, Rows
  <2>5. docs' = [docs EXCEPT ![c.id] = r]
        /\ chunk' = [chunk EXCEPT ![c.id] = IF c.missed THEN chunk[c.id] ELSE NoText]
    BY <1>3 DEF Resets, ResetDocument
  <2>6. docs' \in [Ids -> Rows \cup {Absent}] /\ chunk' \in [Ids -> Names \cup {NoText}]
    BY <1>0, <2>2, <2>5 DEF TypeOK
  <2>7. TypeOK'
    BY <1>0, <1>1, <2>6 DEF TypeOK, Resets, loop
  <2>8. ASSUME NEW d \in Ids PROVE RowInv(d)'
    <3>1. RowInv(d) /\ UNCHANGED <<batch, nextId>>
      BY DEF Inv, Resets, loop
    <3>2. CASE d # c.id
      <4>1. docs'[d] = docs[d] /\ chunk'[d] = chunk[d]
        BY <1>0, <2>5, <3>2 DEF TypeOK
      <4>2. nextId' \in Nat /\ nextId' >= nextId
        BY <1>0, <3>1 DEF TypeOK
      <4> QED
        BY <1>0, <1>1, <3>1, <4>1, <4>2, Others
    <3>3. CASE d = c.id
      <4>1. docs'[d] = r /\ r # Absent /\ docs[d] # Absent
        BY <1>0, <1>3, <2>2, <2>5, <3>3, RowFacts DEF TypeOK, Live
      <4>2. d \notin overlapped' => ~c.missed /\ batch[d] = Absent /\ d \notin overlapped
        BY <3>3 DEF Resets, InBatch
      <4>3. d \notin overlapped' => chunk'[d] = NoText
        BY <1>0, <2>5, <3>3, <4>2 DEF TypeOK
      <4>4. ~(d >= nextId')
        BY <3>1, <4>1 DEF RowInv
      <4>5. d \notin overlapped' => r.text \in {NoText, r.name}
        BY <2>4, <3>1, <3>3, <4>1, <4>2 DEF RowInv
      <4> QED
        BY <2>2, <2>3, <3>1, <4>1, <4>2, <4>3, <4>4, <4>5 DEF RowInv
    <3> QED
      BY <3>2, <3>3
  <2> QED
    BY <2>7, <2>8 DEF Inv
<1> QED
  BY <1>2, <1>3

\* The head of the batch is taken off it.
LEMMA DoneFacts ==
    ASSUME TypeOK, NEW d \in Ids, Done(d)
    PROVE  /\ batch' \in [Ids -> Rows \cup {Absent}] /\ verdict' = "none"
           /\ batch'[d] = Absent
           /\ \A e \in Ids : batch'[e] \in {batch[e], Absent}
BY DEF TypeOK, Done

LEMMA StoresInv ==
    ASSUME Inv, NEW d \in Ids, Stores(d)
    PROVE  Inv'
<1> DEFINE row == docs[d]
           r == Stored(row, Label(d))
<1>0. TypeOK /\ RowInv(d) /\ d \in Live /\ d \in InBatch /\ docs[d] # Absent /\ batch[d] # Absent
  BY DEF Inv, Stores, Refuses, Turn, Live, InBatch
<1>1. row \in Rows /\ batch[d] \in Rows
  BY <1>0, LiveRows
<1>2. Label(d) \in Names /\ Label(d) # NoText
  BY <1>1, SentinelAssumption DEF Label, Rows
<1>3. r \in Rows /\ r.status = "indexed" /\ r.text = Label(d) /\ r.name = row.name
  BY <1>1, <1>2 DEF Stored, Rows
<1>4. docs' = [docs EXCEPT ![d] = r] /\ chunk' = [chunk EXCEPT ![d] = Label(d)]
  BY DEF Stores
<1>5. docs' \in [Ids -> Rows \cup {Absent}] /\ chunk' \in [Ids -> Names \cup {NoText}]
  BY <1>0, <1>2, <1>3, <1>4 DEF TypeOK
<1>6. calls' \subseteq Calls
  <2>1. ASSUME NEW c \in calls
        PROVE  [c EXCEPT !.missed = c.missed \/ c.id = d] \in Calls
    <3>1. c \in Calls
      BY <1>0 DEF TypeOK
    <3>2. (c.missed \/ c.id = d) \in BOOLEAN
      OBVIOUS
    <3> QED
      BY <3>1, <3>2 DEF Calls
  <2> QED
    BY <2>1 DEF Stores
<1>7. TypeOK'
  BY <1>0, <1>5, <1>6, DoneFacts DEF TypeOK, Stores
<1>8. ASSUME NEW e \in Ids PROVE RowInv(e)'
  <2>1. RowInv(e) /\ UNCHANGED <<nextId, overlapped>> /\ nextId \in Nat /\ nextId >= nextId
    BY <1>0 DEF Inv, Stores, TypeOK
  <2>2. CASE e # d
    <3>1. docs'[e] = docs[e] /\ chunk'[e] = chunk[e]
      BY <1>0, <1>4, <2>2 DEF TypeOK
    <3>2. batch'[e] \in {batch[e], Absent}
      BY <1>0, DoneFacts DEF Stores
    <3> QED
      BY <1>0, <2>1, <3>1, <3>2, Others
  <2>3. CASE e = d
    <3>1. docs'[d] = r /\ chunk'[d] = Label(d) /\ batch'[d] = Absent /\ r # Absent
      BY <1>0, <1>3, <1>4, DoneFacts, RowFacts DEF TypeOK, Stores
    <3>2. d \notin overlapped => Label(d) = row.name
      BY <1>0, <1>1 DEF RowInv, Label
    <3>3. ~(d >= nextId)
      BY <1>0 DEF RowInv
    <3> QED
      BY <1>2, <1>3, <2>1, <2>3, <3>1, <3>2, <3>3 DEF RowInv
  <2> QED
    BY <2>2, <2>3
<1> QED
  BY <1>7, <1>8 DEF Inv

LEMMA FailsInv ==
    ASSUME Inv, NEW d \in Ids, Fails(d)
    PROVE  Inv'
<1> DEFINE r == [docs[d] EXCEPT !.status = "failed"]
<1>0. TypeOK /\ RowInv(d) /\ batch[d] # Absent
  BY DEF Inv, Fails, Turn, InBatch
<1>1. d \in Live => /\ docs[d] \in Rows /\ r \in Rows /\ r.status = "failed"
                    /\ r.held = docs[d].held /\ r.text = docs[d].text /\ r.name = docs[d].name
  BY <1>0, LiveRows DEF Rows
<1>2. docs' \in [Ids -> Rows \cup {Absent}]
  BY <1>0, <1>1 DEF TypeOK, Fails
<1>3. TypeOK'
  BY <1>0, <1>2, DoneFacts DEF TypeOK, Fails
<1>4. ASSUME NEW e \in Ids PROVE RowInv(e)'
  <2>1. RowInv(e) /\ UNCHANGED <<nextId, overlapped, chunk>> /\ nextId \in Nat /\ nextId >= nextId
    BY <1>0 DEF Inv, Fails, TypeOK
  <2>2. batch'[e] \in {batch[e], Absent}
    BY <1>0, DoneFacts DEF Fails
  <2>3. CASE e # d \/ d \notin Live
    <3>1. docs'[e] = docs[e]
      BY <1>0, <2>3 DEF TypeOK, Fails, Live
    <3> QED
      BY <1>0, <2>1, <2>2, <3>1, Others
  <2>4. CASE e = d /\ d \in Live
    <3>1. docs'[d] = r /\ r # Absent /\ docs[d] # Absent /\ batch'[d] = Absent
      BY <1>0, <1>1, <2>4, DoneFacts, RowFacts DEF TypeOK, Fails, Live
    <3>2. ~(d >= nextId)
      BY <1>0 DEF RowInv
    <3>3. d \notin overlapped => chunk[d] = NoText
      BY <1>0, <3>1 DEF RowInv
    <3> QED
      BY <1>1, <2>1, <2>4, <3>1, <3>2, <3>3 DEF RowInv
  <2> QED
    BY <2>3, <2>4
<1> QED
  BY <1>3, <1>4 DEF Inv

LEMMA IndexPendingInv ==
    ASSUME Inv, IndexPending
    PROVE  Inv'
<1>0. TypeOK
  BY DEF Inv
<1>1. batch' \in [Ids -> Rows \cup {Absent}]
  BY <1>0 DEF IndexPending, TypeOK
<1>2. TypeOK'
  BY <1>0, <1>1 DEF IndexPending, TypeOK, tables
<1>3. ASSUME NEW d \in Ids PROVE RowInv(d)'
  <2>1. RowInv(d) /\ UNCHANGED <<docs, chunk, nextId, overlapped>>
    BY DEF Inv, IndexPending, tables
  <2>2. batch'[d] = Absent \/ (batch'[d] = docs[d] /\ d \in Pending)
    BY DEF IndexPending, Oldest
  <2>3. CASE batch'[d] = Absent
    BY <2>1, <2>3 DEF RowInv
  <2>4. CASE batch'[d] = docs[d] /\ d \in Pending
    <3>1. docs[d] # Absent /\ docs[d].status = "pending"
      BY <2>4 DEF Pending, Live
    <3> QED
      BY <2>1, <2>4, <3>1 DEF RowInv
  <2> QED
    BY <2>2, <2>3, <2>4
<1> QED
  BY <1>2, <1>3 DEF Inv

LEMMA TickRaisesInv ==
    ASSUME Inv, TickRaises, calls' \subseteq calls, faults' \in 0..MaxFaults
    PROVE  Inv'
<1>1. TypeOK'
  BY DEF Inv, TypeOK, TickRaises, tables
<1> QED
  BY <1>1, Untouched DEF TickRaises, tables
-----------------------------------------------------------------------------
LEMMA InitInv == Init => Inv
<1> SUFFICES ASSUME Init PROVE Inv
  OBVIOUS
<1>1. TypeOK
  BY DocumentsAssumption DEF Init, TypeOK, Ids
<1>2. ASSUME NEW d \in Ids PROVE RowInv(d)
  BY DEF Init, RowInv
<1> QED
  BY <1>1, <1>2 DEF Inv

LEMMA StepInv == Inv /\ [Next]_vars => Inv'
<1> SUFFICES ASSUME Inv, [Next]_vars PROVE Inv'
  OBVIOUS
<1>0. TypeOK
  BY DEF Inv
<1>1. ASSUME NEW p \in Places, NEW f \in Files, NEW n \in Names, Begins(p, f, n)
      PROVE  Inv'
  <2> DEFINE c == [place |-> p, file |-> f, name |-> n, reindex |-> FALSE,
                   id |-> Checked, missed |-> FALSE]
  <2>1. c \in Calls
    BY <1>1 DEF Calls, Checked
  <2>2. TypeOK'
    BY <1>0, <1>1, <2>1, Counts DEF Begins, TypeOK, tables, loop
  <2> QED
    BY <1>1, <2>2, Untouched DEF Begins, tables, loop
<1>2. ASSUME NEW c \in calls, CreateLooks(c)
      PROVE  Inv'
  <2>1. c \in Calls /\ Live \subseteq Int /\ New \in Int
    BY <1>0 DEF TypeOK, Live, Ids, New
  <2>2. calls' \subseteq Calls
    <3>1. ASSUME NEW i \in Int PROVE [c EXCEPT !.id = i] \in Calls
      BY <2>1 DEF Calls
    <3>2. PICK i \in Int : Replace(c, [c EXCEPT !.id = i])
      BY <1>2, <2>1 DEF CreateLooks, Existing
    <3> QED
      BY <1>0, <3>1, <3>2 DEF Replace, TypeOK
  <2>3. TypeOK'
    BY <1>0, <1>2, <2>2 DEF CreateLooks, TypeOK, tables, loop
  <2> QED
    BY <1>2, <2>3, Untouched DEF CreateLooks, tables, loop
<1>3. ASSUME NEW d \in Ids, Reindex(d)
      PROVE  Inv'
  <2> DEFINE c == [place |-> docs[d].place, file |-> docs[d].file,
                   name |-> docs[d].name, reindex |-> TRUE, id |-> d, missed |-> FALSE]
  <2>1. docs[d] \in Rows
    BY <1>0, <1>3, LiveRows DEF Reindex
  <2>2. c \in Calls
    BY <2>1 DEF Calls, Rows, Ids
  <2>3. TypeOK'
    BY <1>0, <1>3, <2>2, Counts DEF Reindex, TypeOK, tables, loop
  <2> QED
    BY <1>3, <2>3, Untouched DEF Reindex, tables, loop
<1>4. ASSUME NEW d \in Ids, Delete(d)
      PROVE  Inv'
  BY <1>0, <1>4, Counts, RemoveInv DEF Delete, TypeOK
<1>5. ASSUME NEW g \in Groups, PurgeGroup(g)
      PROVE  Inv'
  <2>1. {d \in Live : docs[d].place = g} \in SUBSET Ids
    BY DEF Live
  <2>2. groups' \subseteq Groups /\ leaving' \subseteq Groups /\ ops' \in 0..MaxOps
    BY <1>0, <1>5, Counts DEF PurgeGroup, TypeOK
  <2> QED
    BY <1>5, <2>1, <2>2, RemoveInv DEF PurgeGroup
<1>6. ASSUME NEW g \in Groups, RemoveGroup(g)
      PROVE  Inv'
  <2>1. TypeOK'
    BY <1>0, <1>6 DEF RemoveGroup, TypeOK, loop
  <2> QED
    BY <1>6, <2>1, Untouched DEF RemoveGroup, loop
<1>7. ASSUME NEW d \in Ids, Reads(d)
      PROVE  Inv'
  <2>1. verdict' \in Verdicts
    BY <1>7, ReadFacts DEF Reads, Verdicts, Parts, Crash, Unreadable
  <2>2. TypeOK'
    BY <1>0, <1>7, <2>1 DEF Reads, TypeOK, tables
  <2> QED
    BY <1>7, <2>2, Untouched DEF Reads, tables
<1>8. ASSUME NEW d \in Ids, StoreRefused(d)
      PROVE  Inv'
  BY <1>0, <1>8, TickRaisesInv DEF StoreRefused, TypeOK
<1>9. CASE Outage
  BY <1>0, <1>9, Counts, TickRaisesInv DEF Outage
<1>10. CASE Restart
  BY <1>0, <1>10, Counts, TickRaisesInv DEF Restart
<1>11. CASE UNCHANGED vars
  <2>1. TypeOK'
    BY <1>0, <1>11 DEF vars, tables, loop, TypeOK
  <2> QED
    BY <1>11, <2>1, Untouched DEF vars, tables, loop
<1>12. CASE Next
  <2>1. ASSUME NEW f \in Files, NEW n \in Names, NEW p \in Places, Upload(p, f, n)
        PROVE  Inv'
    BY <1>1, <2>1 DEF Upload
  <2>2. ASSUME NEW f \in Files, NEW n \in Names, NEW g \in Groups, IngestFile(g, f, n)
        PROVE  Inv'
    BY <1>1, <2>2 DEF IngestFile, Places
  <2>3. ASSUME NEW c \in calls, Call(c)
        PROVE  Inv'
    BY <1>2, <2>3, CreateInsertsInv, ResetsInv DEF Call
  <2>4. ASSUME NEW d \in Ids, Index(d)
        PROVE  Inv'
    BY <1>7, <1>8, <2>4, StoresInv, FailsInv DEF Index
  <2> QED
    BY <1>3, <1>4, <1>5, <1>6, <1>9, <1>10, <1>12, <2>1, <2>2, <2>3, <2>4,
       IndexPendingInv DEF Next
<1> QED
  BY <1>11, <1>12

LEMMA SpecInv == Spec => []Inv
BY InitInv, StepInv, PTL DEF Spec
-----------------------------------------------------------------------------
(* Calls and excuses are of documents there have been. *)

Ahead ==
    /\ \A d \in overlapped : d < nextId
    /\ \A c \in calls : c.id < nextId

\* Nobody is excused, and a call is as it was or of a document there is.
LEMMA AheadStays ==
    ASSUME TypeOK, TypeOK', Ahead, nextId' >= nextId, overlapped' = overlapped,
           \A c \in calls' : c.id < nextId \/ \E e \in calls : c.id = e.id
    PROVE  Ahead'
<1>1. nextId \in Int /\ nextId' \in Int /\ \A d \in overlapped : d \in Int
  BY DEF TypeOK, Ids
<1>2. \A c \in calls' : c.id \in Int
  BY DEF TypeOK, Calls
<1>3. \A c \in calls' : c.id < nextId
  BY DEF Ahead
<1>4. \A x \in Int : x < nextId => x < nextId'
  BY <1>1
<1> QED
  BY <1>1, <1>2, <1>3, <1>4 DEF Ahead

LEMMA LiveIsPast == ASSUME Inv, NEW d \in Live PROVE d < nextId
<1>1. nextId \in Nat /\ d \in Nat /\ d \in Ids
  BY DEF Inv, TypeOK, Live, Ids
<1>2. ~(d >= nextId)
  BY <1>1 DEF Inv, RowInv, Live
<1> QED
  BY <1>1, <1>2

LEMMA StepAhead == Inv /\ Inv' /\ Ahead /\ [Next]_vars => Ahead'
<1> SUFFICES ASSUME Inv, Inv', Ahead, [Next]_vars PROVE Ahead'
  OBVIOUS
<1>0. TypeOK /\ TypeOK' /\ nextId \in Nat \ {0}
  BY DEF Inv, TypeOK
<1>1. ASSUME NEW p, NEW f, NEW n, Begins(p, f, n)
      PROVE  Ahead'
  <2>1. \A c \in calls' : c.id < nextId \/ \E e \in calls : c.id = e.id
    BY <1>0, <1>1 DEF Begins, Checked
  <2> QED
    BY <1>0, <1>1, <2>1, AheadStays DEF Begins, tables
<1>2. ASSUME NEW c \in calls, CreateLooks(c)
      PROVE  Ahead'
  <2>1. c \in Calls
    BY <1>0 DEF TypeOK
  <2>2. \A i : [c EXCEPT !.id = i].id = i
    BY <2>1 DEF Calls
  <2>3. New < nextId /\ \A d \in Existing(c.place, c.file) : d < nextId
    BY <1>0, LiveIsPast DEF New, Existing
  <2>4. \E i : i < nextId /\ calls' = (calls \ {c}) \cup {[c EXCEPT !.id = i]}
    BY <1>2, <2>3 DEF CreateLooks, Replace
  <2>5. \A e \in calls' : e.id < nextId \/ \E b \in calls : e.id = b.id
    BY <2>2, <2>4
  <2> QED
    BY <1>0, <1>2, <2>5, AheadStays DEF CreateLooks, tables
<1>3. ASSUME NEW c \in calls, CreateInserts(c)
      PROVE  Ahead'
  <2>1. nextId' >= nextId
    BY <1>0, <1>3 DEF CreateInserts
  <2> QED
    BY <1>0, <1>3, <2>1, AheadStays DEF CreateInserts, End
<1>4. ASSUME NEW c \in calls, Resets(c)
      PROVE  Ahead'
  <2>1. calls' \subseteq calls /\ overlapped' \subseteq overlapped \cup {c.id} /\ nextId' = nextId
    BY <1>4 DEF Resets, End
  <2> QED
    BY <2>1 DEF Ahead
<1>5. ASSUME NEW d \in Ids, Reindex(d)
      PROVE  Ahead'
  <2>1. d < nextId
    BY <1>5, LiveIsPast DEF Reindex
  <2>2. \A c \in calls' : c.id < nextId \/ \E e \in calls : c.id = e.id
    BY <1>5, <2>1 DEF Reindex
  <2> QED
    BY <1>0, <1>5, <2>2, AheadStays DEF Reindex, tables
<1>6. ASSUME NEW d \in Ids, Stores(d)
      PROVE  Ahead'
  <2>1. \A c \in calls : [c EXCEPT !.missed = c.missed \/ c.id = d].id = c.id
    BY <1>0 DEF TypeOK, Calls
  <2>2. \A c \in calls' : \E e \in calls : c.id = e.id
    BY <1>6, <2>1 DEF Stores
  <2> QED
    BY <1>0, <1>6, <2>2, AheadStays DEF Stores
<1>7. CASE UNCHANGED <<nextId, overlapped>> /\ calls' \subseteq calls
  BY <1>7 DEF Ahead
<1>8. ASSUME NEW d \in Ids, Delete(d) \/ Reads(d) \/ StoreRefused(d) \/ Fails(d)
      PROVE  Ahead'
  BY <1>7, <1>8 DEF Delete, Reads, StoreRefused, Fails, TickRaises, tables
<1>9. ASSUME NEW g \in Groups, PurgeGroup(g) \/ RemoveGroup(g)
      PROVE  Ahead'
  BY <1>7, <1>9 DEF PurgeGroup, RemoveGroup
<1>10. CASE IndexPending \/ Outage \/ Restart \/ UNCHANGED vars
  BY <1>7, <1>10 DEF IndexPending, Outage, Restart, TickRaises, vars, tables
<1> QED
  BY <1>1, <1>2, <1>3, <1>4, <1>5, <1>6, <1>8, <1>9, <1>10
     DEF Next, Upload, IngestFile, Call, Index
-----------------------------------------------------------------------------
(* The steps of Library. *)

Stage == [d \in Ids |-> StageOf(d)]
Shown == {d \in Ids : chunk[d] # NoText}
Excused == overlapped \cap Live

LEMMA Stages ==
    ASSUME TypeOK, NEW d \in Ids
    PROVE  /\ StageOf(d) \in {"unknown", "pending", "indexed", "failed", "deleted"}
           /\ d \in Live <=> StageOf(d) \in {"pending", "indexed", "failed"}
<1>1. d \in Live => docs[d].status \in {"pending", "indexed", "failed"}
  BY LiveRows DEF Rows
<1> QED
  BY <1>1 DEF StageOf

LEMMA HereIsLive == ASSUME TypeOK PROVE L!Here = Live
<1>1. \A d \in Ids : Stage[d] \in {"pending", "indexed", "failed"} <=> d \in Live
  BY Stages DEF Stage
<1> QED
  BY <1>1 DEF L!Here, Live, Stage

\* A document that no step touches is where it was.
LEMMA StageStays ==
    ASSUME NEW d \in Ids, docs'[d] = docs[d], d < nextId' <=> d < nextId
    PROVE  StageOf(d)' = StageOf(d)
BY DEF StageOf, Live

\* One document moves to s, and the others stay.
LEMMA StageMoves ==
    ASSUME NEW d \in Ids, NEW s, StageOf(d)' = s,
           \A e \in Ids : e # d => docs'[e] = docs[e] /\ (e < nextId' <=> e < nextId)
    PROVE  Stage' = [Stage EXCEPT ![d] = s]
<1>1. \A e \in Ids : e # d => StageOf(e)' = StageOf(e)
  BY StageStays
<1> QED
  BY <1>1 DEF Stage

LEMMA QuietSteps ==
    ASSUME UNCHANGED <<docs, chunk, nextId, overlapped>>
    PROVE  UNCHANGED L!vars
<1>1. Stage' = Stage
  BY StageStays DEF Stage
<1>2. Shown' = Shown /\ Excused' = Excused
  BY DEF Shown, Excused, Live
<1> QED
  BY <1>1, <1>2 DEF L!vars, Stage, Shown, Excused

LEMMA InsertAdds ==
    ASSUME Inv, Ahead, NEW c \in calls, CreateInserts(c)
    PROVE  (\E d \in Ids : L!Add(d)) \/ UNCHANGED L!vars
<1>0. TypeOK /\ c \in Calls /\ nextId \in Nat /\ \A d \in Ids : d \in Nat
  BY DEF Inv, TypeOK, Ids
<1>1. CASE UNCHANGED <<docs, nextId>>
  BY <1>1, QuietSteps DEF CreateInserts
<1>2. ASSUME NEW r \in Rows, r.status = "pending",
             docs' = [docs EXCEPT ![nextId] = r], nextId' = nextId + 1
      PROVE  (\E d \in Ids : L!Add(d)) \/ UNCHANGED L!vars
  <2>1. \A e \in Ids : e # nextId => docs'[e] = docs[e] /\ (e < nextId' <=> e < nextId)
    BY <1>0, <1>2 DEF TypeOK
  <2>2. Shown' = Shown
    BY DEF Shown, CreateInserts
  <2>3. CASE nextId \notin Ids
    <3>1. Stage' = Stage
      BY <2>1, <2>3, StageStays DEF Stage
    <3>2. Excused' = Excused
      BY <2>1, <2>3 DEF Excused, Live, CreateInserts
    <3> QED
      BY <2>2, <3>1, <3>2 DEF L!vars, Stage, Shown, Excused
  <2>4. CASE nextId \in Ids
    <3>0. PICK d \in Ids : d = nextId
      BY <2>4
    <3>1. docs[d] = Absent /\ chunk[d] = NoText /\ ~(d < nextId)
      BY <1>0, <3>0 DEF Inv, RowInv
    <3>2. StageOf(d) = "unknown"
      BY <3>1 DEF StageOf, Live
    <3>3. docs'[d] = r /\ r # Absent
      BY <1>0, <1>2, <3>0, RowFacts DEF TypeOK
    <3>4. StageOf(d)' = "pending"
      BY <1>2, <3>3 DEF StageOf, Live
    <3>5. Stage' = [Stage EXCEPT ![d] = "pending"]
      BY <2>1, <3>0, <3>4, StageMoves
    <3>6. d \notin overlapped
      BY <3>1 DEF Ahead
    <3>7. Excused' = Excused
      BY <2>1, <3>0, <3>6 DEF Excused, Live, CreateInserts
    <3>8. L!Add(d)
      BY <2>2, <3>2, <3>5, <3>7 DEF L!Add, Stage, Shown, Excused
    <3> QED
      BY <3>8
  <2> QED
    BY <2>3, <2>4
<1>3. ASSUME NEW r, r = [place |-> c.place, file |-> c.file, name |-> c.name,
                         status |-> "pending", held |-> TRUE, text |-> NoText]
      PROVE  r \in Rows /\ r.status = "pending"
  BY <1>0, <1>3 DEF Rows, Calls
<1> QED
  BY <1>1, <1>2, <1>3 DEF CreateInserts

LEMMA ResetResets ==
    ASSUME Inv, NEW c \in calls, Resets(c)
    PROVE  (\E d \in Ids : L!Reset(d)) \/ UNCHANGED L!vars
<1> DEFINE d == c.id
<1>0. TypeOK /\ d \in Ids
  BY DEF Inv, Resets
<1>1. CASE d \notin Live
  <2>1. UNCHANGED <<docs, chunk, nextId>>
    BY <1>1 DEF Resets
  <2>2. Stage' = Stage
    BY <2>1, StageStays DEF Stage
  <2>3. Shown' = Shown /\ Excused' = Excused
    BY <1>1, <2>1 DEF Shown, Excused, Live, Resets
  <2> QED
    BY <2>2, <2>3 DEF L!vars, Stage, Shown, Excused
<1>2. CASE d \in Live
  <2> DEFINE r == Reset(docs[d], c)
  <2>1. docs[d] \in Rows
    BY <1>0, <1>2, LiveRows
  <2>2. r.status = "pending" /\ r # Absent
    <3>1. r.status = "pending"
      BY <2>1 DEF Reset, Rows
    <3>2. Absent.status = "absent"
      BY DEF Absent
    <3> QED
      BY <3>1, <3>2
  <2>3. /\ docs' = [docs EXCEPT ![d] = r] /\ nextId' = nextId
        /\ chunk' = [chunk EXCEPT ![d] = IF c.missed THEN chunk[d] ELSE NoText]
        /\ overlapped' = IF c.missed \/ d \in InBatch THEN overlapped \cup {d} ELSE overlapped
    BY <1>2 DEF Resets, ResetDocument
  <2> HIDE DEF r, d
  <2>4. docs'[d] = r /\ \A e \in Ids : e # d => docs'[e] = docs[e] /\ (e < nextId' <=> e < nextId)
    BY <1>0, <2>3 DEF TypeOK
  <2>5. d \in Live' /\ Live' = Live
    BY <1>0, <1>2, <2>2, <2>4 DEF Live
  <2>6. StageOf(d)' = "pending"
    BY <2>2, <2>4, <2>5 DEF StageOf
  <2>7. Stage' = [Stage EXCEPT ![d] = "pending"]
    BY <1>0, <2>4, <2>6, StageMoves
  <2>8. /\ Shown' = IF c.missed THEN Shown ELSE Shown \ {d}
        /\ Excused' \in {Excused, Excused \cup {d}}
        /\ c.missed => Excused' = Excused \cup {d}
    <3>1. chunk \in [Ids -> Names \cup {NoText}]
      BY <1>0 DEF TypeOK
    <3>2. CASE c.missed
      BY <1>0, <1>2, <2>3, <2>5, <3>1, <3>2 DEF Shown, Excused
    <3>3. CASE ~c.missed
      BY <1>0, <1>2, <2>3, <2>5, <3>1, <3>3 DEF Shown, Excused
    <3> QED
      BY <3>2, <3>3
  <2>9. d \in L!Here
    BY <1>0, <1>2, HereIsLive
  <2>10. L!Reset(d)
    BY <2>7, <2>8, <2>9 DEF L!Reset, Stage, Shown, Excused
  <2> QED
    BY <1>0, <2>10
<1> QED
  BY <1>1, <1>2

LEMMA RemoveRemoves ==
    ASSUME Inv, NEW D \in SUBSET Live, Remove(D), UNCHANGED <<nextId, overlapped>>
    PROVE  \E E \in SUBSET Ids : L!Remove(E)
<1>0. TypeOK /\ D \in SUBSET Ids /\ nextId \in Nat /\ \A d \in Ids : d \in Nat
  BY DEF Inv, TypeOK, Live, Ids
<1>1. \A d \in Ids : /\ docs'[d] = IF d \in D THEN Absent ELSE docs[d]
                     /\ chunk'[d] = IF d \in D THEN NoText ELSE chunk[d]
  BY DEF Remove
<1>2. Live' = Live \ D
  BY <1>1 DEF Live
<1>3. ASSUME NEW d \in Ids
      PROVE  StageOf(d)' = IF d \in D THEN "deleted" ELSE StageOf(d)
  <2>1. CASE d \in D
    <3>1. docs[d] # Absent
      BY <2>1 DEF Live
    <3>2. d < nextId
      BY <1>0, <3>1 DEF Inv, RowInv
    <3> QED
      BY <1>2, <2>1, <3>2 DEF StageOf
  <2>2. CASE d \notin D
    BY <1>1, <2>2, StageStays
  <2> QED
    BY <2>1, <2>2
<1>4. Stage' = [d \in Ids |-> IF d \in D THEN "deleted" ELSE Stage[d]]
  BY <1>3 DEF Stage
<1>5. Shown' = Shown \ D /\ Excused' = Excused \ D
  BY <1>1, <1>2 DEF Shown, Excused
<1>6. D \subseteq L!Here
  BY <1>0, HereIsLive
<1>7. L!Remove(D)
  BY <1>4, <1>5, <1>6 DEF L!Remove, Stage, Shown, Excused
<1> QED
  BY <1>0, <1>7

LEMMA StoreDecides ==
    ASSUME Inv, NEW d \in Ids, Stores(d)
    PROVE  L!Decide(d)
<1>0. TypeOK /\ d \in Live /\ docs[d].status = "pending" /\ docs[d] \in Rows /\ batch[d] \in Rows
  <2>1. TypeOK /\ d \in Live /\ batch[d] # Absent /\ docs[d] # Absent
    BY DEF Inv, Stores, Refuses, Turn, Live, InBatch
  <2> QED
    BY <2>1, LiveRows DEF Inv, RowInv, InBatch
<1> DEFINE r == Stored(docs[d], Label(d))
<1>1. Label(d) # NoText
  BY <1>0, SentinelAssumption DEF Label, Rows
<1>2. r.status = "indexed"
  BY <1>0 DEF Stored, Rows
<1>3. Absent.status = "absent"
  BY DEF Absent
<1>4. /\ docs' = [docs EXCEPT ![d] = r] /\ chunk' = [chunk EXCEPT ![d] = Label(d)]
      /\ UNCHANGED <<nextId, overlapped>>
  BY DEF Stores
<1> HIDE DEF r
<1>5. docs'[d] = r /\ \A e \in Ids : e # d => docs'[e] = docs[e] /\ (e < nextId' <=> e < nextId)
  BY <1>0, <1>4 DEF TypeOK
<1>6. d \in Live' /\ Live' = Live
  BY <1>0, <1>2, <1>3, <1>5 DEF Live
<1>7. StageOf(d) = "pending" /\ StageOf(d)' = "indexed"
  BY <1>0, <1>2, <1>5, <1>6 DEF StageOf
<1>8. Stage' = [Stage EXCEPT ![d] = "indexed"]
  BY <1>5, <1>7, StageMoves
<1>9. Shown' = Shown \cup {d}
  BY <1>0, <1>1, <1>4 DEF Shown, TypeOK
<1>10. Excused' = Excused
  BY <1>4, <1>6 DEF Excused
<1> QED
  BY <1>7, <1>8, <1>9, <1>10 DEF L!Decide, Stage, Shown, Excused

LEMMA FailDecides ==
    ASSUME Inv, NEW d \in Ids, Fails(d)
    PROVE  L!Decide(d) \/ UNCHANGED L!vars
<1>0. TypeOK /\ batch[d] # Absent /\ UNCHANGED <<nextId, chunk, overlapped>>
  BY DEF Inv, Fails, Turn, InBatch
<1>1. CASE d \notin Live
  <2>1. docs' = docs
    BY <1>0, <1>1 DEF Fails, TypeOK, Live
  <2> QED
    BY <1>0, <2>1, QuietSteps
<1>2. CASE d \in Live
  <2> DEFINE r == [docs[d] EXCEPT !.status = "failed"]
  <2>1. docs[d] \in Rows /\ docs[d].status = "pending"
    BY <1>0, <1>2, LiveRows DEF Inv, RowInv, Live
  <2>2. r.status = "failed"
    BY <2>1 DEF Rows
  <2>3. Absent.status = "absent"
    BY DEF Absent
  <2>4. docs' = [docs EXCEPT ![d] = r]
    BY <1>2 DEF Fails
  <2> HIDE DEF r
  <2>5. docs'[d] = r /\ \A e \in Ids : e # d => docs'[e] = docs[e] /\ (e < nextId' <=> e < nextId)
    BY <1>0, <2>4 DEF TypeOK
  <2>6. d \in Live' /\ Live' = Live
    BY <1>2, <2>2, <2>3, <2>5 DEF Live
  <2>7. StageOf(d) = "pending" /\ StageOf(d)' = "failed"
    BY <1>2, <2>1, <2>2, <2>5, <2>6 DEF StageOf
  <2>8. Stage' = [Stage EXCEPT ![d] = "failed"]
    BY <2>5, <2>7, StageMoves
  <2>9. Shown' = Shown /\ Excused' = Excused
    BY <1>0, <2>6 DEF Shown, Excused
  <2>10. L!Decide(d)
    BY <2>7, <2>8, <2>9 DEF L!Decide, Stage, Shown, Excused
  <2> QED
    BY <2>10
<1> QED
  BY <1>1, <1>2

LEMMA InitKeeps == Init => L!Init
<1> SUFFICES ASSUME Init PROVE L!Init
  OBVIOUS
<1>1. Stage = [d \in Ids |-> "unknown"]
  BY DEF Init, Stage, StageOf, Live, Ids
<1>2. Shown = {} /\ Excused = {}
  BY DEF Init, Shown, Excused
<1> QED
  BY <1>1, <1>2 DEF L!Init, Stage, Shown, Excused

LEMMA StepKeeps == Inv /\ Ahead /\ [Next]_vars => [L!Next]_(L!vars)
<1> SUFFICES ASSUME Inv, Ahead, [Next]_vars PROVE L!Next \/ UNCHANGED L!vars
  OBVIOUS
<1>1. ASSUME NEW p \in Places, NEW f \in Files, NEW n \in Names,
             Upload(p, f, n) \/ IngestFile(p, f, n)
      PROVE  UNCHANGED L!vars
  BY <1>1, QuietSteps DEF Upload, IngestFile, Begins, tables
<1>2. ASSUME NEW c \in calls, Call(c)
      PROVE  L!Next \/ UNCHANGED L!vars
  <2>1. CASE CreateLooks(c)
    BY <2>1, QuietSteps DEF CreateLooks, tables
  <2>2. CASE CreateInserts(c)
    BY <2>2, InsertAdds DEF L!Next
  <2>3. CASE Resets(c)
    BY <2>3, ResetResets DEF L!Next
  <2> QED
    BY <1>2, <2>1, <2>2, <2>3 DEF Call
<1>3. ASSUME NEW d \in Ids, Delete(d)
      PROVE  L!Next
  <2>1. {d} \in SUBSET Live /\ Remove({d}) /\ UNCHANGED <<nextId, overlapped>>
    BY <1>3 DEF Delete
  <2> QED
    BY <2>1, RemoveRemoves DEF L!Next
<1>4. ASSUME NEW g \in Groups, PurgeGroup(g)
      PROVE  L!Next
  <2> DEFINE D == {d \in Live : docs[d].place = g}
  <2>1. D \in SUBSET Live /\ Remove(D) /\ UNCHANGED <<nextId, overlapped>>
    BY <1>4 DEF PurgeGroup
  <2> QED
    BY <2>1, RemoveRemoves DEF L!Next
<1>5. ASSUME NEW d \in Ids, Index(d)
      PROVE  L!Next \/ UNCHANGED L!vars
  <2>1. CASE Reads(d) \/ StoreRefused(d)
    BY <2>1, QuietSteps DEF Reads, StoreRefused, TickRaises, tables
  <2>2. CASE Stores(d)
    BY <2>2, StoreDecides DEF L!Next
  <2>3. CASE Fails(d)
    BY <2>3, FailDecides DEF L!Next
  <2> QED
    BY <1>5, <2>1, <2>2, <2>3 DEF Index
<1>6. ASSUME NEW d \in Ids, Reindex(d)
      PROVE  UNCHANGED L!vars
  BY <1>6, QuietSteps DEF Reindex, tables
<1>7. ASSUME NEW g \in Groups, RemoveGroup(g)
      PROVE  UNCHANGED L!vars
  BY <1>7, QuietSteps DEF RemoveGroup
<1>8. CASE IndexPending \/ Outage \/ Restart
  BY <1>8, QuietSteps DEF IndexPending, Outage, Restart, TickRaises, tables
<1>9. CASE UNCHANGED vars
  BY <1>9, QuietSteps DEF vars, tables
<1>10. \A g \in Groups : g \in Places
  BY DEF Places
<1> QED
  BY <1>1, <1>2, <1>3, <1>4, <1>5, <1>6, <1>7, <1>8, <1>9, <1>10 DEF Next
-----------------------------------------------------------------------------
\* Every variable keeps its type.
THEOREM DocumentsTypes == Spec => []TypeOK
<1>1. Inv => TypeOK
  BY DEF Inv
<1> QED
  BY <1>1, SpecInv, PTL

\* What the panel shows as indexed is what a search finds, and nothing else
\* of it is found, unless it was reset while the loop had it in hand.
THEOREM DocumentsSearchable == Spec => []Searchable
<1>1. Inv => Searchable
  BY DEF Inv, RowInv, Searchable, Live
<1> QED
  BY <1>1, SpecInv, PTL

\* The label an answer cites is the name the panel shows.
THEOREM DocumentsCiteTheirNames == Spec => []CitesItsName
<1>1. ASSUME Inv, NEW d \in Live, docs[d].status = "indexed", d \notin overlapped
      PROVE  chunk[d] = docs[d].name
  BY <1>1 DEF Inv, RowInv, Live
<1>2. Inv => CitesItsName
  BY <1>1 DEF CitesItsName
<1> QED
  BY <1>2, SpecInv, PTL

\* A document that is not indexed can always be read again.
THEOREM DocumentsRereadable == Spec => []Rereadable
<1>1. Inv => Rereadable
  BY DEF Inv, RowInv, Rereadable, Live
<1> QED
  BY <1>1, SpecInv, PTL
\* The documents implement Library: every step of the loop and of a call is a
\* step of a document's life, or none.
THEOREM DocumentsKeepLibrary == Spec => KeepsLibrary
<1>1. Init => Ahead
  BY DEF Init, Ahead
<1>2. Spec => []Ahead
  BY <1>1, StepAhead, SpecInv, PTL DEF Spec
<1> QED
  BY <1>2, InitKeeps, StepKeeps, SpecInv, PTL DEF Spec, KeepsLibrary, L!Spec
=============================================================================
