-------------------------- MODULE RetryQueueProofs --------------------------
(***************************************************************************)
(* The retry queue's type invariant, and that outside the known windows it *)
(* loses no message silently, for any number of messages, limits, set of   *)
(* poisonous messages and number of faults.                                *)
(***************************************************************************)
EXTENDS RetryQueue, SequenceTheorems, TLAPS

\* What a step may rely on beside the ledger itself: a flush holds the head of
\* a queue that is not empty; a post that is no longer on the wire while its
\* caller still waits has reached the app; and only messages that arrived are
\* held, none of them by two callers.
HeadHeld ==
    sending # None => /\ items # <<>>
                      /\ ~exposed => Head(items) = sending
Reached ==
    \A m \in Messages : (m \in direct \/ m = sending) /\ m \notin wire => m \in landed
Apart ==
    /\ direct \subseteq 1..arrived
    /\ Range(items) \subseteq 1..arrived
    /\ Range(lines) \subseteq 1..arrived
    /\ sending \in 0..arrived
    /\ direct \cap Range(items) = {}
    /\ sending \notin direct

Inv ==
    /\ TypeOK /\ HeadHeld /\ Reached /\ Apart
    /\ Durable /\ NoSilentLoss /\ BoundedBacklog

-----------------------------------------------------------------------------
(* Sequences. *)

\* The elements of a sequence are what its positions hold.
LEMMA InRange ==
    ASSUME NEW S, NEW s \in Seq(S)
    PROVE  /\ \A i \in 1 .. Len(s) : s[i] \in Range(s)
           /\ \A x \in Range(s) : \E i \in 1 .. Len(s) : x = s[i]
  <1>1. DOMAIN s = 1 .. Len(s)
    BY LenProperties
  <1> QED
    BY <1>1 DEF Range

LEMMA RangeIn ==
    ASSUME NEW S, NEW s \in Seq(S)
    PROVE  Range(s) \subseteq S
  BY InRange, ElementOfSeq

\* Append adds one element at the end: queue.push.
LEMMA AppendFacts ==
    ASSUME NEW S, NEW s \in Seq(S), NEW x \in S
    PROVE  /\ Append(s, x) \in Seq(S)
           /\ Len(Append(s, x)) = Len(s) + 1
           /\ Append(s, x) # <<>>
           /\ Range(Append(s, x)) = Range(s) \cup {x}
           /\ s # <<>> => Head(Append(s, x)) = Head(s)
  <1>1. /\ Append(s, x) \in Seq(S)
        /\ Len(Append(s, x)) = Len(s) + 1
        /\ \A i \in 1 .. Len(s) : Append(s, x)[i] = s[i]
        /\ Append(s, x)[Len(s) + 1] = x
    BY AppendProperties
  <1>2. Append(s, x) # <<>>
    BY <1>1
  <1>3. Range(Append(s, x)) = Range(s) \cup {x}
    BY <1>1 DEF Range
  <1>4. s # <<>> => Head(Append(s, x)) = Head(s)
    BY <1>1
  <1> QED
    BY <1>1, <1>2, <1>3, <1>4

\* Shift removes the head and nothing else: the flush.
LEMMA TailFacts ==
    ASSUME NEW S, NEW s \in Seq(S), s # <<>>
    PROVE  /\ Tail(s) \in Seq(S)
           /\ Len(Tail(s)) < Len(s)
           /\ Head(s) \in S
           /\ Range(s) = Range(Tail(s)) \cup {Head(s)}
  <1>1. /\ Head(s) \in S
        /\ Tail(s) \in Seq(S)
        /\ Len(Tail(s)) = Len(s) - 1
        /\ \A i \in 1 .. Len(Tail(s)) : Tail(s)[i] = s[i + 1]
        /\ Head(s) = s[1]
        /\ Len(s) \in Nat \ {0}
    BY HeadTailProperties, EmptySeq
  <1>2. ASSUME NEW i \in 1 .. Len(s)
        PROVE  s[i] \in Range(Tail(s)) \cup {Head(s)}
    <2>1. CASE i = 1
      BY <2>1, <1>1
    <2>2. CASE i # 1
      <3>1. i - 1 \in 1 .. Len(Tail(s)) /\ Tail(s)[i - 1] = s[i]
        BY <2>2, <1>1
      <3>2. Tail(s)[i - 1] \in Range(Tail(s))
        BY <3>1, <1>1, InRange
      <3> QED
        BY <3>1, <3>2
    <2> QED
      BY <2>1, <2>2
  <1>3. ASSUME NEW i \in 1 .. Len(Tail(s))
        PROVE  Tail(s)[i] \in Range(s)
    <2>1. i + 1 \in 1 .. Len(s) /\ Tail(s)[i] = s[i + 1]
      BY <1>1
    <2> QED
      BY <2>1, InRange
  <1>4. Head(s) \in Range(s)
    BY <1>1, InRange
  <1>5. Range(s) = Range(Tail(s)) \cup {Head(s)}
    <2>1. ASSUME NEW x \in Range(s) PROVE x \in Range(Tail(s)) \cup {Head(s)}
      <3>1. PICK i \in 1 .. Len(s) : x = s[i]
        BY InRange
      <3> QED
        BY <3>1, <1>2
    <2>2. ASSUME NEW x \in Range(Tail(s)) PROVE x \in Range(s)
      <3>1. PICK i \in 1 .. Len(Tail(s)) : x = Tail(s)[i]
        BY <1>1, InRange
      <3> QED
        BY <3>1, <1>3
    <2> QED
      BY <2>1, <2>2, <1>4
  <1> QED
    BY <1>1, <1>5

\* What an overfull queue keeps is a non-empty part of it, within the limit.
LEMMA NewestFacts ==
    ASSUME NEW S, NEW s \in Seq(S)
    PROVE  /\ Newest(s) \in Seq(S)
           /\ Len(Newest(s)) <= MaxItems
           /\ s # <<>> => Newest(s) # <<>>
           /\ Range(Newest(s)) \subseteq Range(s)
           /\ ~Overflows(s) => Newest(s) = s
  <1>1. Len(s) \in Nat /\ MaxItems \in Nat \ {0}
    BY LenProperties, QueueAssumption
  <1>2. CASE Overflows(s)
    <2> DEFINE m == Len(s) - MaxItems + 1
    <2>1. m \in 1 .. Len(s) + 1 /\ Len(s) \in m - 1 .. Len(s) /\ Len(s) - m + 1 = MaxItems
      BY <1>1, <1>2 DEF Overflows
    <2>2. /\ SubSeq(s, m, Len(s)) \in Seq(S)
          /\ Len(SubSeq(s, m, Len(s))) = MaxItems
          /\ \A i \in 1 .. MaxItems : SubSeq(s, m, Len(s))[i] = s[m + i - 1]
      BY <2>1, <1>1, SubSeqProperties
    <2>3. \A i \in 1 .. MaxItems : m + i - 1 \in 1 .. Len(s)
      BY <2>1, <1>1
    <2>4. Newest(s) = SubSeq(s, m, Len(s))
      BY <1>2 DEF Newest
    <2>5. ASSUME NEW x \in Range(SubSeq(s, m, Len(s)))
          PROVE  x \in Range(s)
      <3>1. PICK i \in 1 .. MaxItems : x = SubSeq(s, m, Len(s))[i]
        BY <2>2, InRange
      <3>2. m + i - 1 \in 1 .. Len(s) /\ x = s[m + i - 1]
        BY <3>1, <2>2, <2>3
      <3> QED
        BY <3>2, InRange
    <2>6. Newest(s) # <<>>
      <3>1. Len(Newest(s)) = MaxItems /\ MaxItems # 0
        BY <2>2, <2>4, <1>1
      <3>2. Len(<<>>) = 0
        BY EmptySeq
      <3> QED
        BY <3>1, <3>2
    <2> HIDE DEF m
    <2> QED
      BY <2>2, <2>4, <2>5, <2>6, <1>1, <1>2
  <1>3. CASE ~Overflows(s)
    BY <1>1, <1>3 DEF Newest, Overflows
  <1> QED
    BY <1>2, <1>3
-----------------------------------------------------------------------------
(* The two pieces actions share. *)

\* A push keeps what waits, adds the message, and leaves both in the file or
\* reported, unless it hits a window.
LEMMA PushFacts ==
    ASSUME TypeOK, Durable, BoundedBacklog, NEW m \in Messages, Push(m)
    PROVE  /\ items' \in Seq(Messages) /\ lines' \in Seq(Messages)
           /\ torn' \in BOOLEAN /\ exposed' \in BOOLEAN
           /\ excused' \subseteq Messages /\ pushed' \in Seq(Messages)
           /\ faults' \in 0..MaxFaults
           /\ excused \subseteq excused' /\ (~exposed' => ~exposed)
           /\ items' # <<>>
           /\ (~exposed' /\ sending # None /\ items # <<>>) => Head(items') = Head(items)
           /\ Range(items') \subseteq Range(items) \cup {m}
           /\ Range(lines') \subseteq Range(lines) \cup Range(items) \cup {m}
           /\ ~exposed' => Range(items) \cup {m} \subseteq Range(items') \cup excused'
           /\ ~exposed' => Range(items') \subseteq Range(lines') \cup excused'
           /\ faults' = 0 => Len(items') <= MaxItems
  <1> DEFINE all == Append(items, m)
             short == Newest(all)
  <1>1. /\ all \in Seq(Messages)
        /\ Len(all) = Len(items) + 1
        /\ all # <<>>
        /\ Range(all) = Range(items) \cup {m}
        /\ items # <<>> => Head(all) = Head(items)
    BY AppendFacts DEF TypeOK
  <1>2. /\ short \in Seq(Messages)
        /\ Len(short) <= MaxItems
        /\ short # <<>>
        /\ Range(short) \subseteq Range(all)
        /\ ~Overflows(all) => short = all
    BY <1>1, NewestFacts
  <1>3. /\ Append(lines, m) \in Seq(Messages)
        /\ Range(Append(lines, m)) = Range(lines) \cup {m}
    BY AppendFacts DEF TypeOK
  <1>4. pushed' \in Seq(Messages)
    BY AppendFacts DEF TypeOK, Push
  <1>5. Range(items) \subseteq Messages
    BY RangeIn DEF TypeOK
  <1>6. /\ faults \in 0..MaxFaults /\ MaxFaults \in Nat /\ exposed \in BOOLEAN
        /\ torn \in BOOLEAN /\ lines \in Seq(Messages) /\ excused \subseteq Messages
    BY QueueAssumption DEF TypeOK
  <1> HIDE DEF all, short
  <1>7. CASE PushWrites(m) /\ Overflows(all)
    <2>1. /\ items' = short /\ lines' = short /\ torn' = FALSE
          /\ excused' = excused \cup (Range(all) \ Range(short))
          /\ exposed' = (exposed \/ sending # None)
          /\ faults' = faults
      BY <1>7 DEF PushWrites, Rewrite, all, short
    <2> QED
      BY <2>1, <1>1, <1>2, <1>4, <1>5, <1>6
  <1>8. CASE PushWrites(m) /\ ~Overflows(all)
    <2>1. /\ items' = all
          /\ lines' = IF torn THEN lines ELSE Append(lines, m)
          /\ torn' = FALSE
          /\ exposed' = (exposed \/ torn)
          /\ excused' = excused
          /\ faults' = faults
      BY <1>8, <1>2 DEF PushWrites, AppendLine, all, short
    <2>2. Len(items') <= MaxItems
      BY <2>1, <1>2, <1>8
    <2>3. ~exposed' => Range(items') \subseteq Range(lines') \cup excused'
      BY <2>1, <1>1, <1>3, <1>6 DEF Durable
    <2> QED
      BY <2>1, <2>2, <2>3, <1>1, <1>3, <1>4, <1>6
  <1>9. CASE PushAppendThrows(m)
    <2>1. /\ items' = all
          /\ lines' = lines
          /\ torn' \in BOOLEAN
          /\ exposed' = exposed
          /\ excused' = excused \cup {m}
          /\ faults' = faults + 1 /\ faults < MaxFaults
      BY <1>9, <1>6 DEF PushAppendThrows, TearLine, Fault, all
    <2>2. ~exposed' => Range(items') \subseteq Range(lines') \cup excused'
      BY <2>1, <1>1 DEF Durable
    <2>3. faults' \in 0..MaxFaults /\ faults' # 0
      BY <2>1, <1>6
    <2> QED
      BY <2>1, <2>2, <2>3, <1>1, <1>4, <1>6
  <1>10. CASE PushRewriteThrows(m)
    <2>1. /\ items' = short
          /\ lines' = IF torn THEN lines ELSE Append(lines, m)
          /\ torn' = FALSE
          /\ exposed' = TRUE
          /\ excused' = excused \cup {m}
          /\ faults' = faults + 1 /\ faults < MaxFaults
      BY <1>10 DEF PushRewriteThrows, AppendLine, Fault, all, short
    <2>2. faults' \in 0..MaxFaults /\ faults' # 0
      BY <2>1, <1>6
    <2> QED
      BY <2>1, <2>2, <1>1, <1>2, <1>3, <1>4, <1>6
  <1> QED
    BY <1>7, <1>8, <1>9, <1>10 DEF Push

\* The loop's next turn: it holds the head of what is left, on the wire, and
\* the file is as it was or is what is left.
LEMMA ContinueFacts ==
    ASSUME TypeOK, NEW rest \in Seq(Messages), NEW w \in SUBSET Messages,
           NEW took \in BOOLEAN, Continue(rest, w, took)
    PROVE  /\ items' = rest
           /\ sending' \in Messages \cup {None}
           /\ changed' \in BOOLEAN /\ torn' \in BOOLEAN
           /\ wire' \subseteq Messages
           /\ lines' \in Seq(Messages) /\ (lines' = lines \/ lines' = rest)
           /\ faults' \in 0..MaxFaults /\ (faults' = 0 => faults = 0)
           /\ w \subseteq wire'
           /\ sending' # None => /\ rest # <<>> /\ sending' = Head(rest)
                                 /\ sending' \in Range(rest) /\ sending' \in wire'
  <1>1. /\ faults \in 0..MaxFaults /\ MaxFaults \in Nat
        /\ torn \in BOOLEAN /\ lines \in Seq(Messages)
    BY QueueAssumption DEF TypeOK
  <1>2. CASE rest # <<>>
    <2>1. Head(rest) \in Messages /\ Head(rest) \in Range(rest)
      BY <1>2, TailFacts
    <2> QED
      BY <1>1, <1>2, <2>1 DEF Continue
  <1>3. CASE rest = <<>>
    <2>1. /\ items' = rest /\ sending' = None /\ changed' = FALSE /\ wire' = w
          /\ \/ lines' = rest /\ torn' = FALSE /\ faults' = faults
             \/ faults < MaxFaults /\ faults' = faults + 1 /\ lines' = lines /\ torn' = torn
      BY <1>3 DEF Continue, Rewrite, Fault
    <2>2. faults' \in 0..MaxFaults /\ (faults' = 0 => faults = 0)
      BY <1>1, <2>1
    <2>3. torn' \in BOOLEAN /\ lines' \in Seq(Messages) /\ (lines' = lines \/ lines' = rest)
      BY <1>1, <2>1, Zenon
    <2> QED
      BY <2>1, <2>2, <2>3
  <1> QED
    BY <1>2, <1>3
-----------------------------------------------------------------------------
(* Every step preserves Inv. *)

LEMMA InitInv == Init => Inv
  <1> SUFFICES ASSUME Init PROVE Inv
    OBVIOUS
  <1>1. <<>> \in Seq(Messages) /\ Range(<<>>) = {} /\ Len(<<>>) = 0
    BY EmptySeq DEF Range
  <1>2. 1..arrived = {} /\ 0 \in 0..arrived
    BY DEF Init
  <1>3. TypeOK
    <2>1. arrived \in 0..NMessages /\ faults \in 0..MaxFaults
      BY QueueAssumption DEF Init
    <2>2. attempts \in [Messages -> 0..MaxAttempts]
      BY QueueAssumption DEF Init
    <2> QED
      BY <1>1, <2>1, <2>2 DEF Init, TypeOK
  <1>4. HeadHeld /\ Reached /\ Apart
    BY <1>1, <1>2, QueueAssumption DEF Init, HeadHeld, Reached, Apart, None
  <1>5. Durable /\ NoSilentLoss /\ BoundedBacklog
    BY <1>1, <1>2, QueueAssumption
    DEF Init, Durable, NoSilentLoss, EveryMessageAccounted, BoundedBacklog
  <1> QED
    BY <1>3, <1>4, <1>5 DEF Inv

\* core.ingest: a message arrives.
LEMMA ArriveInv == Inv /\ Arrive => Inv'
  <1> SUFFICES ASSUME Inv, Arrive PROVE Inv'
    OBVIOUS
  <1> DEFINE m == arrived + 1
  <1>1. /\ m \in Messages /\ arrived' = m /\ m \notin 1..arrived
        /\ 1..m = 1..arrived \cup {m} /\ m # None
        /\ 0..arrived \subseteq 0..m /\ m \notin 0..arrived /\ m \in 0..NMessages
    <2>1. /\ arrived \in 0..NMessages /\ NMessages \in Nat
          /\ arrived < NMessages /\ arrived' = m
      BY QueueAssumption DEF Arrive, Inv, TypeOK
    <2> QED
      BY <2>1 DEF Messages, None
  <1> HIDE DEF m
  <1>2. CASE items = <<>>
    <2>1. /\ direct' = direct \cup {m} /\ wire' = wire \cup {m}
          /\ UNCHANGED <<items, attempts, sending, changed, lines, torn, dead, landed,
                         excused, pushed, exposed, faults>>
      BY <1>1, <1>2 DEF Arrive, memory, files
    <2>2. TypeOK'
      BY <1>1, <2>1 DEF Inv, TypeOK
    <2>3. HeadHeld' /\ Reached' /\ Apart'
      BY <1>1, <2>1 DEF Inv, HeadHeld, Reached, Apart
    <2>4. Durable' /\ NoSilentLoss' /\ BoundedBacklog'
      BY <1>1, <2>1
      DEF Inv, Durable, NoSilentLoss, EveryMessageAccounted, Accounted, Settled, BoundedBacklog
    <2> QED
      BY <2>2, <2>3, <2>4 DEF Inv
  <1>3. CASE items # <<>>
    <2>1. /\ Push(m)
          /\ UNCHANGED <<direct, wire, landed, attempts, sending, changed, dead>>
      BY <1>1, <1>3 DEF Arrive, Push
    <2>2. TypeOK /\ Durable /\ BoundedBacklog
      BY DEF Inv
    <2>3. TypeOK'
      BY <1>1, <2>1, <2>2, PushFacts DEF TypeOK
    <2>4. HeadHeld'
      BY <1>1, <1>3, <2>1, <2>2, PushFacts DEF Inv, HeadHeld
    <2>5. Reached'
      BY <2>1 DEF Inv, Reached
    <2>6. Apart'
      BY <1>1, <2>1, <2>2, PushFacts DEF Inv, Apart
    <2>7. Durable' /\ BoundedBacklog'
      BY <1>1, <2>1, <2>2, PushFacts DEF Durable, BoundedBacklog
    <2>8. NoSilentLoss'
      BY <1>1, <2>1, <2>2, PushFacts
      DEF Inv, NoSilentLoss, EveryMessageAccounted, Accounted, Settled
    <2> QED
      BY <2>3, <2>4, <2>5, <2>6, <2>7, <2>8 DEF Inv
  <1> QED
    BY <1>2, <1>3

\* A direct post ends: answered, or failed and pushed.
LEMMA DirectInv ==
    ASSUME Inv, NEW m \in Messages, DirectAnswered(m) \/ DirectFails(m)
    PROVE  Inv'
  <1>1. CASE DirectAnswered(m)
    <2>1. /\ m \in direct /\ m \notin wire /\ direct' = direct \ {m}
          /\ UNCHANGED <<arrived, items, attempts, sending, changed, lines, torn, dead,
                         wire, landed, excused, pushed, exposed, faults>>
      BY <1>1 DEF DirectAnswered, Answered, memory, files
    <2>2. m \in landed
      BY <2>1 DEF Inv, Reached
    <2>3. TypeOK'
      BY <2>1 DEF Inv, TypeOK
    <2>4. HeadHeld' /\ Reached' /\ Apart'
      BY <2>1 DEF Inv, HeadHeld, Reached, Apart
    <2>5. Durable' /\ BoundedBacklog'
      BY <2>1 DEF Inv, Durable, BoundedBacklog
    <2>6. NoSilentLoss'
      BY <2>1, <2>2 DEF Inv, NoSilentLoss, EveryMessageAccounted, Accounted, Settled
    <2> QED
      BY <2>3, <2>4, <2>5, <2>6 DEF Inv
  <1>2. CASE DirectFails(m)
    <2>1. /\ m \in direct /\ Push(m) /\ wire' = wire \ {m} /\ direct' = direct \ {m}
          /\ UNCHANGED <<arrived, landed, attempts, sending, changed, dead>>
      BY <1>2 DEF DirectFails, NotAnswered, Push
    <2>2. TypeOK /\ Durable /\ BoundedBacklog
      BY DEF Inv
    <2>3. TypeOK'
      BY <2>1, <2>2, PushFacts DEF TypeOK
    <2>4. HeadHeld'
      BY <2>1, <2>2, PushFacts DEF Inv, HeadHeld
    <2>5. Reached' /\ Apart'
      BY <2>1, <2>2, PushFacts DEF Inv, Reached, Apart
    <2>6. Durable' /\ BoundedBacklog'
      BY <2>1, <2>2, PushFacts DEF Durable, BoundedBacklog
    <2>7. NoSilentLoss'
      BY <2>1, <2>2, PushFacts
      DEF Inv, NoSilentLoss, EveryMessageAccounted, Accounted, Settled
    <2> QED
      BY <2>3, <2>4, <2>5, <2>6, <2>7 DEF Inv
  <1> QED
    BY <1>1, <1>2

\* The app handles what is on the wire.
LEMMA AppInv ==
    ASSUME Inv, NEW m \in Messages, AppHandles(m)
    PROVE  Inv'
  <1>1. /\ wire' = wire \ {m} /\ landed' = landed \cup {m}
        /\ UNCHANGED <<arrived, direct, items, attempts, sending, changed, lines, torn,
                       dead, excused, pushed, exposed, faults>>
    BY DEF AppHandles, memory, files
  <1>2. TypeOK'
    BY <1>1 DEF Inv, TypeOK
  <1>3. HeadHeld' /\ Reached' /\ Apart'
    BY <1>1 DEF Inv, HeadHeld, Reached, Apart
  <1>4. Durable' /\ BoundedBacklog' /\ NoSilentLoss'
    BY <1>1 DEF Inv, Durable, BoundedBacklog, NoSilentLoss, EveryMessageAccounted,
                Accounted, Settled
  <1> QED
    BY <1>2, <1>3, <1>4 DEF Inv

\* The timer's flush starts on the head.
LEMMA FlushStartsInv == Inv /\ FlushStarts => Inv'
  <1> SUFFICES ASSUME Inv, FlushStarts PROVE Inv'
    OBVIOUS
  <1>1. /\ sending = None /\ items # <<>> /\ items \in Seq(Messages)
        /\ Continue(items, wire, FALSE) /\ wire \in SUBSET Messages /\ TypeOK
        /\ UNCHANGED <<arrived, direct, attempts, dead, landed, excused, pushed, exposed>>
    BY DEF FlushStarts, Inv, TypeOK
  <1>2. /\ items' = items
        /\ sending' \in Messages \cup {None}
        /\ changed' \in BOOLEAN /\ torn' \in BOOLEAN
        /\ wire' \subseteq Messages
        /\ lines' \in Seq(Messages) /\ (lines' = lines \/ lines' = items)
        /\ faults' \in 0..MaxFaults /\ (faults' = 0 => faults = 0)
        /\ wire \subseteq wire'
        /\ sending' # None => /\ items # <<>> /\ sending' = Head(items)
                              /\ sending' \in Range(items) /\ sending' \in wire'
    BY <1>1, ContinueFacts
  <1>3. TypeOK'
    BY <1>1, <1>2 DEF TypeOK
  <1>4. HeadHeld' /\ Reached'
    BY <1>1, <1>2 DEF Inv, HeadHeld, Reached, None
  <1>5. Apart'
    <2>1. 1..arrived \subseteq 0..arrived /\ 0 \in 0..arrived
      BY <1>1 DEF TypeOK
    <2> QED
      BY <1>1, <1>2, <2>1 DEF Inv, Apart, None
  <1>6. Durable' /\ BoundedBacklog' /\ NoSilentLoss'
    BY <1>1, <1>2 DEF Inv, Durable, BoundedBacklog, NoSilentLoss,
                      EveryMessageAccounted, Accounted, Settled
  <1> QED
    BY <1>3, <1>4, <1>5, <1>6 DEF Inv

\* The head leaves the queue, with the app or set aside, and the flush goes on.
LEMMA ShiftInv ==
    ASSUME Inv, FlushAnswered \/ FlushSetsAside
    PROVE  Inv'
  <1> DEFINE rest == Tail(items)
             w == IF Answered(sending) THEN wire ELSE wire \ {sending}
  <1>1. /\ sending # None /\ sending \in Messages /\ items # <<>> /\ TypeOK
        /\ ~exposed => Head(items) = sending
    BY DEF Inv, TypeOK, HeadHeld, FlushAnswered, FlushSetsAside
  <1>2. /\ rest \in Seq(Messages)
        /\ Len(rest) < Len(items)
        /\ Range(items) = Range(rest) \cup {Head(items)}
    BY <1>1, TailFacts DEF TypeOK
  <1>3. w \in SUBSET Messages /\ wire \ {sending} \subseteq w /\ w \subseteq wire
    BY <1>1 DEF TypeOK
  <1>4. Continue(rest, w, TRUE)
    BY DEF FlushAnswered, FlushSetsAside, Answered, NotAnswered
  <1>5. /\ dead \subseteq dead' /\ dead' \subseteq dead \cup {sending}
        /\ sending \in dead' \cup landed
        /\ attempts' \in [Messages -> 0..MaxAttempts]
    <2>1. CASE FlushAnswered
      BY <2>1, <1>1 DEF FlushAnswered, Answered, Inv, Reached, TypeOK
    <2>2. CASE FlushSetsAside
      <3>1. Tries(sending) \in 0..MaxAttempts
        BY <2>2, QueueAssumption DEF FlushSetsAside
      <3> QED
        BY <2>2, <3>1, <1>1 DEF FlushSetsAside, TypeOK
    <2> QED
      BY <2>1, <2>2
  <1>6. UNCHANGED <<arrived, direct, landed, excused, pushed, exposed>>
    BY DEF FlushAnswered, FlushSetsAside
  <1> HIDE DEF rest, w
  <1>7. /\ items' = rest
        /\ sending' \in Messages \cup {None}
        /\ changed' \in BOOLEAN /\ torn' \in BOOLEAN
        /\ wire' \subseteq Messages
        /\ lines' \in Seq(Messages) /\ (lines' = lines \/ lines' = rest)
        /\ faults' \in 0..MaxFaults /\ (faults' = 0 => faults = 0)
        /\ w \subseteq wire'
        /\ sending' # None => /\ rest # <<>> /\ sending' = Head(rest)
                              /\ sending' \in Range(rest) /\ sending' \in wire'
    BY <1>1, <1>2, <1>3, <1>4, ContinueFacts
  <1>8. TypeOK'
    BY <1>1, <1>2, <1>5, <1>6, <1>7 DEF TypeOK
  <1>9. HeadHeld' /\ Reached'
    <2>1. HeadHeld'
      BY <1>7 DEF HeadHeld
    <2>2. ASSUME NEW m \in Messages, m \in direct' \/ m = sending', m \notin wire'
          PROVE  m \in landed'
      <3>1. m # sending'
        BY <2>2, <1>7 DEF None, Messages
      <3>2. m \in direct /\ m # sending /\ m \notin wire
        BY <2>2, <3>1, <1>3, <1>6, <1>7 DEF Inv, Apart
      <3> QED
        BY <3>2, <1>6 DEF Inv, Reached
    <2> QED
      BY <2>1, <2>2 DEF Reached
  <1>10. Apart'
    <2>1. 1..arrived \subseteq 0..arrived /\ 0 \in 0..arrived
      BY <1>1 DEF TypeOK
    <2> QED
      BY <1>2, <1>6, <1>7, <2>1 DEF Inv, Apart, None
  <1>11. Durable'
    BY <1>2, <1>6, <1>7 DEF Inv, Durable
  <1>12. BoundedBacklog'
    <2>1. Len(items) \in Nat /\ Len(rest) \in Nat /\ MaxItems \in Nat
      BY <1>1, <1>2, LenProperties, QueueAssumption DEF TypeOK
    <2> QED
      BY <1>2, <1>7, <2>1 DEF Inv, BoundedBacklog
  <1>13. NoSilentLoss'
    BY <1>1, <1>2, <1>5, <1>6, <1>7
    DEF Inv, NoSilentLoss, EveryMessageAccounted, Accounted, Settled
  <1> QED
    BY <1>8, <1>9, <1>10, <1>11, <1>12, <1>13 DEF Inv

\* A flush that ends with the queue as it was.
LEMMA GivesUpInv ==
    ASSUME Inv, FlushGivesUp \/ FlushThrows
    PROVE  Inv'
  <1>1. /\ sending # None /\ sending' = None /\ changed' = FALSE
        /\ wire' = wire \ {sending}
        /\ UNCHANGED <<arrived, direct, items, dead, landed, excused, pushed, exposed>>
    BY DEF FlushGivesUp, FlushThrows, NotAnswered
  <1>2. attempts' \in [Messages -> 0..MaxAttempts]
    <2>1. Tries(sending) \in 0..MaxAttempts
      <3>1. sending \in Messages /\ attempts[sending] \in 0..MaxAttempts
        BY <1>1 DEF Inv, TypeOK
      <3> QED
        BY <3>1, QueueAssumption DEF Tries
    <2> QED
      BY <2>1 DEF FlushGivesUp, FlushThrows, Inv, TypeOK
  <1>3. /\ faults' \in 0..MaxFaults /\ (faults' = 0 => faults = 0)
    BY QueueAssumption DEF FlushGivesUp, FlushThrows, Fault, Inv, TypeOK
  <1>4. \/ lines' = lines /\ torn' = torn
        \/ lines' = items /\ torn' = FALSE
    BY DEF FlushGivesUp, FlushThrows, Rewrite
  <1>5. TypeOK'
    BY <1>1, <1>2, <1>3, <1>4, Zenon DEF Inv, TypeOK
  <1>6. HeadHeld' /\ Reached'
    BY <1>1 DEF Inv, HeadHeld, Reached, Apart, None, Messages
  <1>7. Apart'
    <2>1. 0 \in 0..arrived /\ None \notin direct
      BY DEF Inv, TypeOK, Messages, None
    <2> QED
      BY <1>1, <1>4, <2>1 DEF Inv, Apart, None
  <1>8. Durable' /\ BoundedBacklog' /\ NoSilentLoss'
    BY <1>1, <1>3, <1>4 DEF Inv, Durable, BoundedBacklog, NoSilentLoss,
                            EveryMessageAccounted, Accounted, Settled
  <1> QED
    BY <1>5, <1>6, <1>7, <1>8 DEF Inv

\* The restart reads the file back, and starts with nothing in hand.
LEMMA RestartFacts ==
    ASSUME Inv, Restart, Fault
    PROVE  /\ items' = lines' /\ sending' = None /\ changed' = FALSE
           /\ direct' = {} /\ wire' = {} /\ dead' = dead /\ landed' = landed
           /\ faults' \in 0..MaxFaults /\ faults' # 0
           /\ attempts' \in [Messages -> 0..MaxAttempts]
  <1>1. faults' \in 0..MaxFaults /\ faults' # 0
    BY QueueAssumption DEF Fault, Inv, TypeOK
  <1>2. attempts' \in [Messages -> 0..MaxAttempts]
    BY QueueAssumption DEF Restart
  <1> QED
    BY <1>1, <1>2 DEF Restart, Load

\* A crash between two steps.
LEMMA CrashInv == Inv /\ Crash => Inv'
  <1> SUFFICES ASSUME Inv, Crash PROVE Inv'
    OBVIOUS
  <1>1. /\ items' = lines' /\ sending' = None /\ changed' = FALSE
        /\ direct' = {} /\ wire' = {} /\ dead' = dead /\ landed' = landed
        /\ faults' \in 0..MaxFaults /\ faults' # 0
        /\ attempts' \in [Messages -> 0..MaxAttempts]
    BY RestartFacts DEF Crash
  <1>2. /\ UNCHANGED <<lines, torn, arrived, pushed, exposed>>
        /\ excused' = excused \cup direct
    BY DEF Crash
  <1>3. TypeOK'
    BY <1>1, <1>2 DEF Inv, TypeOK
  <1>4. HeadHeld' /\ Reached' /\ Apart'
    <2>1. 0 \in 0..arrived
      BY DEF Inv, TypeOK
    <2> QED
      BY <1>1, <1>2, <2>1 DEF Inv, TypeOK, HeadHeld, Reached, Apart, None, Messages
  <1>5. Durable' /\ BoundedBacklog'
    BY <1>1 DEF Durable, BoundedBacklog
  <1>6. NoSilentLoss'
    BY <1>1, <1>2 DEF Inv, Durable, NoSilentLoss, EveryMessageAccounted, Accounted, Settled
  <1> QED
    BY <1>3, <1>4, <1>5, <1>6 DEF Inv

\* A crash inside a push.
LEMMA CrashInPushInv ==
    ASSUME Inv, NEW m \in Messages, CrashInPush(m)
    PROVE  Inv'
  <1>1. /\ items' = lines' /\ sending' = None /\ changed' = FALSE
        /\ direct' = {} /\ wire' = {} /\ dead' = dead /\ landed' = landed
        /\ faults' \in 0..MaxFaults /\ faults' # 0
        /\ attempts' \in [Messages -> 0..MaxAttempts]
    BY RestartFacts DEF CrashInPush
  <1>2. /\ \/ m \in direct /\ arrived' = arrived
           \/ m = arrived + 1 /\ arrived' = m
        /\ excused' = excused \cup direct \cup {m}
        /\ pushed' = Append(pushed, m)
        /\ \/ lines' = lines /\ torn' = TRUE /\ exposed' = exposed
           \/ /\ lines' = IF torn THEN lines ELSE Append(lines, m)
              /\ torn' = FALSE
              /\ exposed' = (exposed \/ torn)
    BY DEF CrashInPush, TearLine, AppendLine
  <1>3. /\ Append(lines, m) \in Seq(Messages) /\ Append(pushed, m) \in Seq(Messages)
        /\ Range(Append(lines, m)) = Range(lines) \cup {m}
    BY AppendFacts DEF Inv, TypeOK
  <1>4. /\ arrived' \in 0..NMessages /\ 1..arrived' \subseteq 1..arrived \cup {m}
        /\ 1..arrived \subseteq 1..arrived' /\ m \in 1..arrived' /\ 0 \in 0..arrived'
    <2>1. arrived \in 0..NMessages /\ NMessages \in Nat /\ m \in 1..NMessages
      BY QueueAssumption DEF Inv, TypeOK, Messages
    <2>2. m \in direct => m \in 1..arrived
      BY DEF Inv, Apart
    <2> QED
      BY <1>2, <2>1, <2>2
  <1>5. exposed' \in BOOLEAN /\ torn' \in BOOLEAN /\ (~exposed' => ~exposed)
    <2>1. exposed \in BOOLEAN /\ torn \in BOOLEAN
      BY DEF Inv, TypeOK
    <2> QED
      BY <1>2, <2>1, Zenon
  <1>6. /\ lines' \in Seq(Messages)
        /\ Range(lines) \subseteq Range(lines') /\ Range(lines') \subseteq Range(lines) \cup {m}
    BY <1>2, <1>3 DEF Inv, TypeOK
  <1>7. TypeOK'
    BY <1>1, <1>2, <1>3, <1>4, <1>5, <1>6 DEF Inv, TypeOK
  <1>8. HeadHeld' /\ Reached' /\ Apart'
    BY <1>1, <1>4, <1>6 DEF Inv, HeadHeld, Reached, Apart, None, Messages
  <1>9. Durable' /\ BoundedBacklog'
    BY <1>1 DEF Durable, BoundedBacklog
  <1>10. NoSilentLoss'
    BY <1>1, <1>2, <1>4, <1>5, <1>6
    DEF Inv, Durable, NoSilentLoss, EveryMessageAccounted, Accounted, Settled
  <1> QED
    BY <1>7, <1>8, <1>9, <1>10 DEF Inv

LEMMA StepInv == Inv /\ [Next]_vars => Inv'
  <1> SUFFICES ASSUME Inv, [Next]_vars PROVE Inv'
    OBVIOUS
  <1>1. CASE Arrive
    BY <1>1, ArriveInv
  <1>2. CASE FlushStarts
    BY <1>2, FlushStartsInv
  <1>3. CASE FlushAnswered \/ FlushSetsAside
    BY <1>3, ShiftInv
  <1>4. CASE FlushGivesUp \/ FlushThrows
    BY <1>4, GivesUpInv
  <1>5. CASE \E m \in Messages : DirectAnswered(m) \/ DirectFails(m)
    BY <1>5, DirectInv
  <1>6. CASE \E m \in Messages : AppHandles(m)
    BY <1>6, AppInv
  <1>7. CASE \E m \in Messages : CrashInPush(m)
    BY <1>7, CrashInPushInv
  <1>8. CASE Crash
    BY <1>8, CrashInv
  <1>9. CASE UNCHANGED vars
    BY <1>9 DEF vars, memory, files, Inv, TypeOK, HeadHeld, Reached, Apart, Durable,
                NoSilentLoss, EveryMessageAccounted, Accounted, Settled, BoundedBacklog
  <1> QED
    BY <1>1, <1>2, <1>3, <1>4, <1>5, <1>6, <1>7, <1>8, <1>9 DEF Next
-----------------------------------------------------------------------------
(* Every step is one of Delivery's. *)

Holds == direct \cup Range(items)
HasSettled == landed \cup dead \cup excused

\* A push reports only what it drops from the queue, or the message itself.
LEMMA PushReports ==
    ASSUME TypeOK, NEW m \in Messages, Push(m)
    PROVE  /\ excused \subseteq excused' /\ excused' \subseteq excused \cup Range(items) \cup {m}
           /\ (exposed => exposed') /\ UNCHANGED dead
  <1>1. Range(Append(items, m)) = Range(items) \cup {m}
    BY AppendFacts DEF TypeOK
  <1>2. CASE PushWrites(m)
    BY <1>1, <1>2 DEF PushWrites, Push
  <1>3. CASE PushAppendThrows(m)
    BY <1>3 DEF PushAppendThrows, Push
  <1>4. CASE PushRewriteThrows(m)
    BY <1>4 DEF PushRewriteThrows, Push
  <1> QED
    BY <1>2, <1>3, <1>4 DEF Push

\* What a step does to the ledger: at most one message arrives, what is settled
\* stays so, and, outside the windows, only what was held or arrives is settled.
Ledger ==
    /\ HasSettled \subseteq HasSettled'
    /\ exposed => exposed'
    /\ \/ arrived' = arrived /\ (~exposed' => HasSettled' \subseteq HasSettled \cup Holds)
       \/ /\ arrived < NMessages /\ arrived' = arrived + 1
          /\ ~exposed' => HasSettled' \subseteq HasSettled \cup Holds \cup {arrived'}

LEMMA ArriveLedger == Inv /\ Arrive => Ledger
  <1> SUFFICES ASSUME Inv, Arrive PROVE Ledger
    OBVIOUS
  <1>1. arrived < NMessages /\ arrived' = arrived + 1 /\ landed' = landed
    BY DEF Arrive
  <1>2. arrived' \in Messages
    BY <1>1, QueueAssumption DEF Inv, TypeOK, Messages
  <1>3. CASE items = <<>>
    <2>1. UNCHANGED <<dead, excused, exposed>>
      BY <1>3 DEF Arrive, files
    <2> QED
      BY <1>1, <2>1 DEF Ledger, HasSettled
  <1>4. CASE items # <<>>
    <2>1. /\ excused \subseteq excused'
          /\ excused' \subseteq excused \cup Range(items) \cup {arrived'}
          /\ (exposed => exposed') /\ UNCHANGED dead
      BY <1>2, <1>4, PushReports DEF Arrive, Inv
    <2> QED
      BY <1>1, <2>1 DEF Ledger, HasSettled, Holds
  <1> QED
    BY <1>3, <1>4

LEMMA DirectLedger ==
    ASSUME Inv, NEW m \in Messages, DirectAnswered(m) \/ DirectFails(m)
    PROVE  Ledger
  <1>1. CASE DirectAnswered(m)
    BY <1>1 DEF DirectAnswered, files, Ledger, HasSettled
  <1>2. CASE DirectFails(m)
    <2>1. /\ excused \subseteq excused'
          /\ excused' \subseteq excused \cup Range(items) \cup {m}
          /\ (exposed => exposed') /\ UNCHANGED dead
      BY <1>2, PushReports DEF DirectFails, Inv
    <2>2. m \in direct /\ UNCHANGED <<arrived, landed>>
      BY <1>2 DEF DirectFails
    <2> QED
      BY <2>1, <2>2 DEF Ledger, HasSettled, Holds
  <1> QED
    BY <1>1, <1>2

\* What is on the wire is held by its caller, so the app only takes what is held.
OnWire == wire \subseteq direct \cup {sending}

LEMMA OnWireHeld ==
    ASSUME Inv, OnWire, ~exposed, NEW m \in Messages, m \in wire
    PROVE  m \in Holds
  <1>1. CASE m \in direct
    BY <1>1 DEF Holds
  <1>2. CASE m = sending
    <2>1. items # <<>> /\ items \in Seq(Messages) /\ Head(items) = sending
      BY <1>2 DEF Inv, HeadHeld, TypeOK, None, Messages
    <2> QED
      BY <1>2, <2>1, TailFacts DEF Holds
  <1> QED
    BY <1>1, <1>2 DEF OnWire

LEMMA OnWireStays == Inv /\ OnWire /\ [Next]_vars => OnWire'
  <1> SUFFICES ASSUME Inv, OnWire, [Next]_vars PROVE OnWire'
    OBVIOUS
  <1>1. CASE Arrive
    <2>1. UNCHANGED sending
      BY <1>1 DEF Arrive, Push, memory
    <2>2. \/ direct' = direct \cup {arrived'} /\ wire' = wire \cup {arrived'}
          \/ UNCHANGED <<direct, wire>>
      BY <1>1 DEF Arrive
    <2> QED
      BY <2>1, <2>2 DEF OnWire
  <1>2. ASSUME NEW m \in Messages, DirectAnswered(m) \/ DirectFails(m) PROVE OnWire'
    <2>1. /\ direct' = direct \ {m} /\ UNCHANGED sending
          /\ wire' = wire \ {m}
      BY <1>2 DEF DirectAnswered, DirectFails, Answered, NotAnswered, Push, memory
    <2> QED
      BY <2>1 DEF OnWire
  <1>3. ASSUME NEW m \in Messages, AppHandles(m) PROVE OnWire'
    BY <1>3 DEF AppHandles, OnWire, memory
  <1>4. ASSUME NEW rest, NEW w, NEW took, Continue(rest, w, took), UNCHANGED direct,
               w \subseteq direct
        PROVE  OnWire'
    BY <1>4 DEF Continue, OnWire
  <1>5. CASE FlushStarts
    <2>1. wire \subseteq direct
      BY <1>5 DEF FlushStarts, OnWire, Inv, TypeOK, Messages, None
    <2> QED
      BY <1>4, <1>5, <2>1 DEF FlushStarts
  <1>6. CASE FlushAnswered
    <2>1. wire \subseteq direct
      BY <1>6 DEF FlushAnswered, Answered, OnWire
    <2> QED
      BY <1>4, <1>6, <2>1 DEF FlushAnswered
  <1>7. CASE FlushSetsAside
    <2>1. NotAnswered(sending) \subseteq direct
      BY DEF NotAnswered, OnWire
    <2> QED
      BY <1>4, <1>7, <2>1 DEF FlushSetsAside
  <1>8. CASE FlushGivesUp \/ FlushThrows
    BY <1>8 DEF FlushGivesUp, FlushThrows, NotAnswered, OnWire
  <1>9. CASE Crash \/ \E m \in Messages : CrashInPush(m)
    BY <1>9 DEF Crash, CrashInPush, Restart, OnWire
  <1>10. CASE UNCHANGED vars
    BY <1>10 DEF vars, memory, OnWire
  <1> QED
    BY <1>1, <1>2, <1>3, <1>5, <1>6, <1>7, <1>8, <1>9, <1>10 DEF Next

LEMMA AppLedger ==
    ASSUME Inv, OnWire, NEW m \in Messages, AppHandles(m)
    PROVE  Ledger
  <1>1. /\ m \in wire /\ landed' = landed \cup {m}
        /\ UNCHANGED <<arrived, dead, excused, exposed>>
    BY DEF AppHandles, files
  <1>2. ~exposed => m \in Holds
    BY <1>1, OnWireHeld
  <1> QED
    BY <1>1, <1>2 DEF Ledger, HasSettled

LEMMA FlushLedger ==
    ASSUME Inv, FlushStarts \/ FlushEnds
    PROVE  Ledger
  <1>1. CASE FlushSetsAside
    <2>1. /\ sending # None /\ dead' = dead \cup {sending}
          /\ UNCHANGED <<arrived, landed, excused, exposed>>
      BY <1>1 DEF FlushSetsAside
    <2>2. items # <<>> /\ items \in Seq(Messages) /\ (~exposed => Head(items) = sending)
      BY <2>1 DEF Inv, HeadHeld, TypeOK
    <2>3. Head(items) \in Range(items)
      BY <2>2, TailFacts
    <2> QED
      BY <2>1, <2>2, <2>3 DEF Ledger, HasSettled, Holds
  <1>2. CASE FlushStarts \/ FlushAnswered \/ FlushGivesUp \/ FlushThrows
    <2>1. UNCHANGED <<arrived, landed, dead, excused, exposed>>
      BY <1>2 DEF FlushStarts, FlushAnswered, FlushGivesUp, FlushThrows
    <2> QED
      BY <2>1 DEF Ledger, HasSettled
  <1> QED
    BY <1>1, <1>2 DEF FlushEnds

LEMMA CrashLedger ==
    ASSUME Inv, Crash \/ \E m \in Messages : CrashInPush(m)
    PROVE  Ledger
  <1>1. UNCHANGED <<dead, landed>>
    BY DEF Crash, CrashInPush, Restart
  <1>2. CASE Crash
    BY <1>1, <1>2 DEF Crash, Ledger, HasSettled, Holds
  <1>3. ASSUME NEW m \in Messages, CrashInPush(m) PROVE Ledger
    <2>0. exposed => exposed'
      BY <1>3, Zenon DEF CrashInPush
    <2>1. excused' = excused \cup direct \cup {m} /\ (exposed => exposed')
      BY <1>3, <2>0 DEF CrashInPush
    <2>2. CASE m \in direct /\ arrived' = arrived
      BY <1>1, <2>1, <2>2 DEF Ledger, HasSettled, Holds
    <2>3. CASE m = arrived + 1 /\ arrived' = m
      <3>1. arrived < NMessages /\ arrived' = arrived + 1
        BY <2>3, QueueAssumption DEF Messages, Inv, TypeOK
      <3>2. HasSettled' = HasSettled \cup direct \cup {arrived'}
        BY <1>1, <2>1, <2>3 DEF HasSettled
      <3> QED
        BY <2>1, <3>1, <3>2 DEF Ledger, Holds
    <2> QED
      BY <1>3, <2>2, <2>3 DEF CrashInPush
  <1> QED
    BY <1>2, <1>3

LEMMA StepLedger ==
    ASSUME Inv, OnWire, Next
    PROVE  Ledger
  <1>1. CASE Arrive
    BY <1>1, ArriveLedger
  <1>2. CASE \E m \in Messages : DirectAnswered(m) \/ DirectFails(m)
    BY <1>2, DirectLedger
  <1>3. CASE \E m \in Messages : AppHandles(m)
    BY <1>3, AppLedger
  <1>4. CASE FlushStarts \/ FlushEnds
    BY <1>4, FlushLedger
  <1>5. CASE Crash \/ \E m \in Messages : CrashInPush(m)
    BY <1>5, CrashLedger
  <1> QED
    BY <1>1, <1>2, <1>3, <1>4, <1>5 DEF Next, FlushEnds

\* Outside the windows, what is not settled is held.
LEMMA InvKeeps == Inv' => (~exposed' => D!Keeps)
  <1> SUFFICES ASSUME Inv', ~exposed' PROVE D!Keeps
    OBVIOUS
  <1>1. \A m \in 1..arrived' : m \in (direct \cup Range(items))' \cup HasSettled'
    BY DEF Inv, NoSilentLoss, EveryMessageAccounted, Accounted, Settled, HasSettled
  <1>2. (direct \cup Range(items))' \subseteq 1..arrived'
    BY DEF Inv, Apart
  <1> QED
    BY <1>1, <1>2 DEF D!Keeps, HasSettled

LEMMA InitDelivers == Init => D!Init
  <1> SUFFICES ASSUME Init PROVE D!Init
    OBVIOUS
  <1>1. Range(items) = {}
    BY EmptySeq DEF Init, Range
  <1> QED
    BY <1>1 DEF Init, D!Init

LEMMA StepDelivers == Inv /\ Inv' /\ OnWire /\ [Next]_vars => [D!Next]_(D!vars)
  <1> SUFFICES ASSUME Inv, Inv', OnWire, [Next]_vars PROVE [D!Next]_(D!vars)
    OBVIOUS
  <1>1. CASE UNCHANGED vars
    BY <1>1 DEF vars, memory, files, D!vars, Range
  <1>2. CASE Next
    <2>1. Ledger /\ exposed \in BOOLEAN /\ exposed' \in BOOLEAN
      BY <1>2, StepLedger DEF Inv, TypeOK
    <2>2. CASE exposed'
      <3>1. arrived' \in {arrived, arrived + 1} /\ HasSettled \subseteq HasSettled' /\ exposed' = TRUE
        BY <2>1, <2>2 DEF Ledger
      <3>2. D!Breaks
        BY <3>1 DEF D!Breaks, HasSettled
      <3> QED
        BY <3>2 DEF D!Next
    <2>3. CASE ~exposed'
      <3>1. UNCHANGED exposed
        BY <2>1, <2>3 DEF Ledger
      <3>2. D!Keeps
        BY <2>3, InvKeeps
      <3>3. CASE arrived' = arrived /\ HasSettled' \subseteq HasSettled \cup Holds
        <4>1. D!Settles
          BY <2>1, <3>1, <3>2, <3>3 DEF Ledger, D!Settles, HasSettled, Holds
        <4> QED
          BY <4>1 DEF D!Next
      <3>4. CASE /\ arrived < NMessages /\ arrived' = arrived + 1
                 /\ HasSettled' \subseteq HasSettled \cup Holds \cup {arrived'}
        <4>1. D!Arrives
          BY <2>1, <3>1, <3>2, <3>4 DEF Ledger, D!Arrives, HasSettled, Holds
        <4> QED
          BY <4>1 DEF D!Next
      <3> QED
        BY <2>1, <2>3, <3>3, <3>4 DEF Ledger
    <2> QED
      BY <2>2, <2>3
  <1> QED
    BY <1>1, <1>2

-----------------------------------------------------------------------------
(* The order of the queue. *)

Pushed(p, x) == \E k \in 1..Len(p) : p[k] = x
Follows(p, x, y) == \E k, l \in 1..Len(p) : k < l /\ p[k] = x /\ p[l] = y

\* Nothing is twice in p; s holds some of p, in its order.
Once(p) == \A k, l \in 1..Len(p) : p[k] = p[l] => k = l
InOrder(s, p) ==
    /\ \A i \in 1..Len(s) : Pushed(p, s[i])
    /\ \A i, j \in 1..Len(s) : i < j => Follows(p, s[i], s[j])

\* Memory and file hold messages in the order in which they were pushed, which
\* happens once to each, and not while it is in a direct post.
Fifo ==
    /\ Once(pushed)
    /\ InOrder(items, pushed) /\ InOrder(lines, pushed)
    /\ \A x \in Range(pushed) : x \in 1..arrived /\ x \notin direct

LEMMA LongerOrder ==
    ASSUME NEW S, NEW p \in Seq(S), NEW m \in S, NEW s \in Seq(S), InOrder(s, p)
    PROVE  InOrder(s, Append(p, m)) /\ InOrder(Append(s, m), Append(p, m))
  <1> DEFINE q == Append(p, m)
             t == Append(s, m)
  <1>1. /\ Len(p) \in Nat /\ Len(q) = Len(p) + 1 /\ q[Len(p) + 1] = m
        /\ \A k \in 1..Len(p) : q[k] = p[k]
    BY AppendProperties
  <1>2. /\ Len(s) \in Nat /\ Len(t) = Len(s) + 1 /\ t[Len(s) + 1] = m
        /\ \A i \in 1..Len(s) : t[i] = s[i]
    BY AppendProperties
  <1> HIDE DEF q, t
  <1>3. \A x : Pushed(p, x) => Pushed(q, x) /\ Follows(q, x, m)
    <2> SUFFICES ASSUME NEW x, NEW k \in 1..Len(p), p[k] = x
                 PROVE  Pushed(q, x) /\ Follows(q, x, m)
      BY DEF Pushed
    <2>1. k \in 1..Len(q) /\ q[k] = x /\ k < Len(p) + 1 /\ Len(p) + 1 \in 1..Len(q)
      BY <1>1
    <2> QED
      BY <1>1, <2>1 DEF Pushed, Follows
  <1>4. Pushed(q, m)
    <2>1. Len(p) + 1 \in 1..Len(q)
      BY <1>1
    <2> QED
      BY <1>1, <2>1 DEF Pushed
  <1>5. \A x, y : Follows(p, x, y) => Follows(q, x, y)
    <2>1. \A k \in 1..Len(p) : k \in 1..Len(q)
      BY <1>1
    <2> QED
      BY <1>1, <2>1 DEF Follows
  <1>6. InOrder(s, q)
    BY <1>3, <1>5 DEF InOrder
  <1>7. ASSUME NEW i \in 1..Len(t) PROVE Pushed(q, t[i])
    <2>1. CASE i \in 1..Len(s)
      BY <1>2, <1>6, <2>1 DEF InOrder
    <2>2. CASE i \notin 1..Len(s)
      <3>1. i = Len(s) + 1
        BY <1>2, <2>2
      <3> QED
        BY <1>2, <1>4, <3>1
    <2> QED
      BY <2>1, <2>2
  <1>8. ASSUME NEW i \in 1..Len(t), NEW j \in 1..Len(t), i < j
        PROVE  Follows(q, t[i], t[j])
    <2>1. i \in 1..Len(s) /\ t[i] = s[i] /\ (j \in 1..Len(s) \/ j = Len(s) + 1)
      BY <1>2, <1>8
    <2>2. CASE j \in 1..Len(s)
      BY <1>2, <1>6, <1>8, <2>1, <2>2 DEF InOrder
    <2>3. CASE j = Len(s) + 1
      <3>1. Pushed(p, s[i]) /\ t[j] = m
        BY <1>2, <2>1, <2>3 DEF InOrder
      <3> QED
        BY <1>3, <2>1, <3>1
    <2> QED
      BY <2>1, <2>2, <2>3
  <1>9. InOrder(t, q)
    BY <1>7, <1>8 DEF InOrder
  <1> QED
    BY <1>6, <1>9 DEF q, t

\* The end of a sequence, from any place on, is in its order.
LEMMA ShorterOrder ==
    ASSUME NEW S, NEW p \in Seq(S), NEW s \in Seq(S), NEW t \in Seq(S), NEW d \in Nat,
           Len(t) + d <= Len(s), \A i \in 1..Len(t) : t[i] = s[i + d], InOrder(s, p)
    PROVE  InOrder(t, p)
  <1>1. Len(s) \in Nat /\ Len(t) \in Nat
    BY LenProperties
  <1>2. \A i \in 1..Len(t) : i + d \in 1..Len(s)
    BY <1>1
  <1>3. \A i, j \in 1..Len(t) : i < j => i + d < j + d
    OBVIOUS
  <1> QED
    BY <1>2, <1>3 DEF InOrder

LEMMA TailOrder ==
    ASSUME NEW S, NEW p \in Seq(S), NEW s \in Seq(S), s # <<>>, InOrder(s, p)
    PROVE  InOrder(Tail(s), p)
  <1>1. /\ Tail(s) \in Seq(S) /\ Len(s) \in Nat /\ Len(Tail(s)) = Len(s) - 1
        /\ \A i \in 1..Len(Tail(s)) : Tail(s)[i] = s[i + 1]
    BY HeadTailProperties, LenProperties
  <1>2. Len(Tail(s)) + 1 <= Len(s)
    BY <1>1
  <1> QED
    BY <1>1, <1>2, ShorterOrder

LEMMA NewestOrder ==
    ASSUME NEW S, NEW p \in Seq(S), NEW s \in Seq(S), InOrder(s, p)
    PROVE  InOrder(Newest(s), p)
  <1>1. Len(s) \in Nat /\ MaxItems \in Nat \ {0}
    BY LenProperties, QueueAssumption
  <1>2. CASE Overflows(s)
    <2> DEFINE d == Len(s) - MaxItems
               t == SubSeq(s, d + 1, Len(s))
    <2>1. d \in Nat /\ d + 1 \in 1..Len(s) /\ Len(s) - (d + 1) + 1 = MaxItems
          /\ d + 1 <= Len(s)
      BY <1>1, <1>2 DEF Overflows
    <2>2. \A i \in d + 1 .. Len(s) : s[i] \in S
      <3>1. \A i \in d + 1 .. Len(s) : i \in 1..Len(s)
        BY <1>1, <2>1
      <3> QED
        BY <3>1, ElementOfSeq
    <2>3. /\ t \in Seq(S) /\ Len(t) = MaxItems
          /\ \A i \in 1..MaxItems : t[i] = s[d + 1 + i - 1]
      <3>1. d + 1 \in Int /\ Len(s) \in Int
        BY <1>1, <2>1
      <3> HIDE DEF d
      <3> QED
        BY <2>1, <2>2, <3>1, SubSeqProperties
    <2>4. \A i \in 1..Len(t) : t[i] = s[i + d]
      <3>1. \A i \in 1..MaxItems : d + 1 + i - 1 = i + d
        BY <1>1, <2>1
      <3> HIDE DEF t, d
      <3> QED
        BY <2>3, <3>1
    <2>5. Len(t) + d <= Len(s)
      BY <1>1, <2>3
    <2>6. Newest(s) = t
      BY <1>2 DEF Newest
    <2> HIDE DEF t, d
    <2> QED
      BY <2>1, <2>3, <2>4, <2>5, <2>6, ShorterOrder
  <1>3. CASE ~Overflows(s)
    BY <1>3 DEF Newest
  <1> QED
    BY <1>2, <1>3

\* A message is pushed behind all others.
LEMMA OncePushed ==
    ASSUME NEW S, NEW p \in Seq(S), NEW m \in S, Once(p), m \notin Range(p)
    PROVE  Once(Append(p, m))
  <1> DEFINE q == Append(p, m)
  <1>1. /\ Len(p) \in Nat /\ Len(q) = Len(p) + 1 /\ q[Len(p) + 1] = m
        /\ \A k \in 1..Len(p) : q[k] = p[k] /\ p[k] \in Range(p)
    BY AppendProperties, InRange
  <1> HIDE DEF q
  <1>2. \A k \in 1..Len(q) : k \in 1..Len(p) \/ k = Len(p) + 1
    BY <1>1
  <1>3. Once(q)
    BY <1>1, <1>2 DEF Once
  <1> QED
    BY <1>3 DEF q

\* A message not pushed yet, appended to all pushed; to what waits, if at all,
\* of which the newest may be kept; and to the file.
LEMMA PushFifo ==
    ASSUME Inv, Fifo, NEW m \in Messages, m \notin Range(pushed),
           pushed' = Append(pushed, m),
           \/ lines' = lines \/ lines' = Append(lines, m) \/ lines' = Newest(Append(items, m)),
           \/ items' = lines' \/ items' = Append(items, m) \/ items' = Newest(Append(items, m)),
           1..arrived \cup {m} \subseteq 1..arrived',
           direct' \subseteq direct \ {m}
    PROVE  Fifo'
  <1>1. pushed \in Seq(Messages) /\ items \in Seq(Messages) /\ lines \in Seq(Messages)
    BY DEF Inv, TypeOK
  <1>2. InOrder(lines, pushed') /\ InOrder(Append(lines, m), pushed')
    BY <1>1, LongerOrder DEF Fifo
  <1>3. InOrder(Append(items, m), pushed')
    BY <1>1, LongerOrder DEF Fifo
  <1>4. pushed' \in Seq(Messages) /\ Append(items, m) \in Seq(Messages)
        /\ Range(pushed') = Range(pushed) \cup {m}
    BY <1>1, AppendFacts
  <1>5. InOrder(Newest(Append(items, m)), pushed')
    BY <1>3, <1>4, NewestOrder
  <1>6. Once(pushed')
    BY <1>1, OncePushed DEF Fifo
  <1>7. InOrder(lines', pushed')
    BY <1>2, <1>5
  <1>8. InOrder(items', pushed')
    BY <1>3, <1>5, <1>7
  <1>9. \A x \in Range(pushed') : x \in 1..arrived' /\ x \notin direct'
    BY <1>4 DEF Fifo
  <1> QED
    BY <1>6, <1>7, <1>8, <1>9 DEF Fifo

\* Nothing is pushed: the queue is as it was or shorter, the file as it was or
\* like the queue, or the queue is read back from the file.
PushesNothing ==
    /\ pushed' = pushed /\ arrived' = arrived /\ direct' \subseteq direct
    /\ \/ items' = items
       \/ items # <<>> /\ items' = Tail(items)
       \/ items' = lines
    /\ lines' = lines \/ lines' = items'

LEMMA QuietFifo ==
    ASSUME Inv, Fifo, PushesNothing
    PROVE  Fifo'
  <1>1. pushed \in Seq(Messages) /\ items \in Seq(Messages)
    BY DEF Inv, TypeOK
  <1>2. items # <<>> => InOrder(Tail(items), pushed)
    BY <1>1, TailOrder DEF Fifo
  <1>3. InOrder(items', pushed)
    BY <1>2 DEF Fifo, PushesNothing
  <1>4. InOrder(lines', pushed)
    BY <1>3 DEF Fifo, PushesNothing
  <1> QED
    BY <1>3, <1>4 DEF Fifo, PushesNothing

LEMMA PushKinds ==
    ASSUME NEW m, Push(m)
    PROVE  /\ pushed' = Append(pushed, m) /\ UNCHANGED sending
           /\ \/ lines' = lines \/ lines' = Append(lines, m)
              \/ lines' = Newest(Append(items, m))
           /\ items' = Append(items, m) \/ items' = Newest(Append(items, m))
BY DEF Push, PushWrites, PushAppendThrows, PushRewriteThrows, AppendLine, TearLine, Rewrite

LEMMA ArriveFifo == ASSUME Inv, Fifo, Arrive PROVE Fifo'
  <1>1. /\ arrived \in Nat /\ arrived' = arrived + 1 /\ arrived' \in Messages
        /\ arrived' \notin 1..arrived /\ 1..arrived \cup {arrived'} \subseteq 1..arrived'
    BY QueueAssumption DEF Arrive, Inv, TypeOK, Messages
  <1>2. arrived' \notin Range(pushed) /\ arrived' \notin direct
    BY <1>1 DEF Fifo, Inv, Apart
  <1>3. CASE items = <<>>
    <2>1. direct' = direct \cup {arrived'} /\ UNCHANGED <<items, lines, pushed>>
      BY <1>3 DEF Arrive, memory, files
    <2> QED
      BY <1>1, <1>2, <2>1 DEF Fifo
  <1>4. CASE items # <<>>
    <2>1. Push(arrived') /\ UNCHANGED direct
      BY <1>4 DEF Arrive
    <2> QED
      BY <1>1, <1>2, <2>1, PushKinds, PushFifo
  <1> QED
    BY <1>3, <1>4

LEMMA CrashInPushFifo ==
    ASSUME Inv, Fifo, NEW m \in Messages, CrashInPush(m)
    PROVE  Fifo'
  <1>1. /\ \/ m \in direct /\ arrived' = arrived
           \/ m = arrived + 1 /\ arrived' = m
        /\ pushed' = Append(pushed, m) /\ direct' = {} /\ items' = lines'
        /\ lines' = lines \/ lines' = Append(lines, m)
    BY DEF CrashInPush, Restart, Load, TearLine, AppendLine
  <1>2. arrived \in Nat
    BY QueueAssumption DEF Inv, TypeOK
  <1>3. m \notin Range(pushed)
    BY <1>1, <1>2 DEF Fifo
  <1>4. 1..arrived \cup {m} \subseteq 1..arrived'
    <2>1. m \in direct => m \in 1..arrived
      BY DEF Inv, Apart
    <2>2. CASE m = arrived + 1 /\ arrived' = m
      BY <1>2, <2>2
    <2> QED
      BY <1>1, <2>1, <2>2
  <1> QED
    BY <1>1, <1>3, <1>4, PushFifo

LEMMA StepFifo == Inv /\ Fifo /\ [Next]_vars => Fifo'
  <1> SUFFICES ASSUME Inv, Fifo, [Next]_vars PROVE Fifo'
    OBVIOUS
  <1>1. CASE Arrive
    BY <1>1, ArriveFifo
  <1>2. ASSUME NEW m \in Messages, DirectFails(m) PROVE Fifo'
    <2>1. m \in direct /\ direct' = direct \ {m} /\ Push(m) /\ UNCHANGED arrived
      BY <1>2 DEF DirectFails
    <2>2. m \notin Range(pushed) /\ 1..arrived \cup {m} \subseteq 1..arrived'
      BY <2>1 DEF Fifo, Inv, Apart
    <2> QED
      BY <2>1, <2>2, PushKinds, PushFifo
  <1>3. ASSUME NEW m \in Messages, DirectAnswered(m) \/ AppHandles(m) PROVE Fifo'
    <2>1. PushesNothing
      BY <1>3 DEF DirectAnswered, AppHandles, memory, files, PushesNothing
    <2> QED
      BY <2>1, QuietFifo
  <1>4. CASE FlushStarts
    <2>1. PushesNothing
      BY <1>4 DEF FlushStarts, Continue, Rewrite, PushesNothing
    <2> QED
      BY <2>1, QuietFifo
  <1>5. CASE FlushAnswered \/ FlushSetsAside
    <2>1. items # <<>>
      BY <1>5 DEF FlushAnswered, FlushSetsAside, Inv, HeadHeld
    <2>2. PushesNothing
      BY <1>5, <2>1 DEF FlushAnswered, FlushSetsAside, Continue, Rewrite, PushesNothing
    <2> QED
      BY <2>2, QuietFifo
  <1>6. CASE FlushGivesUp \/ FlushThrows
    <2>1. PushesNothing
      BY <1>6 DEF FlushGivesUp, FlushThrows, Rewrite, PushesNothing
    <2> QED
      BY <2>1, QuietFifo
  <1>7. CASE Crash
    <2>1. PushesNothing
      BY <1>7 DEF Crash, Restart, Load, PushesNothing
    <2> QED
      BY <2>1, QuietFifo
  <1>8. CASE \E m \in Messages : CrashInPush(m)
    BY <1>8, CrashInPushFifo
  <1>9. CASE UNCHANGED vars
    <2>1. PushesNothing
      BY <1>9 DEF vars, memory, files, PushesNothing
    <2> QED
      BY <2>1, QuietFifo
  <1> QED
    BY <1>1, <1>2, <1>3, <1>4, <1>5, <1>6, <1>7, <1>8, <1>9 DEF Next

LEMMA InitFifo == Init => Fifo
  <1> SUFFICES ASSUME Init PROVE Fifo
    OBVIOUS
  <1>1. Len(<<>>) = 0 /\ Range(<<>>) = {}
    BY EmptySeq DEF Range
  <1> QED
    BY <1>1 DEF Init, Fifo, Once, InOrder

\* What was pushed before the head of a queue in order is not on it.
LEMMA HeadIsFirst ==
    ASSUME NEW S, NEW p \in Seq(S), NEW s \in Seq(S), Once(p), InOrder(s, p), s # <<>>,
           NEW j \in 1..Len(p), NEW k \in 1..Len(p), j < k, p[k] = Head(s)
    PROVE  p[j] \notin Range(s)
  <1>1. Len(s) \in Nat \ {0} /\ Head(s) = s[1]
    BY LenProperties, EmptySeq
  <1>2. SUFFICES ASSUME NEW i \in 1..Len(s), p[j] = s[i] PROVE FALSE
    BY InRange
  <1>3. CASE i = 1
    BY <1>1, <1>2, <1>3 DEF Once
  <1>4. CASE i # 1
    <2>1. 1 \in 1..Len(s) /\ 1 < i
      BY <1>1, <1>4
    <2>2. PICK a, b \in 1..Len(p) : a < b /\ p[a] = s[1] /\ p[b] = s[i]
      BY <2>1 DEF InOrder, Follows
    <2>3. a = k /\ b = j
      BY <1>1, <1>2, <2>2 DEF Once
    <2> QED
      BY <2>2, <2>3
  <1> QED
    BY <1>3, <1>4

\* A message newly in hand is the head of the queue.
LEMMA SendsHead ==
    ASSUME Inv, [Next]_vars, sending' # None, sending' # sending
    PROVE  items' # <<>> /\ sending' = Head(items') /\ pushed' = pushed
  <1>1. CASE FlushStarts \/ FlushAnswered \/ FlushSetsAside
    BY <1>1 DEF FlushStarts, FlushAnswered, FlushSetsAside, Continue
  <1>2. ~(FlushGivesUp \/ FlushThrows \/ Crash \/ \E m \in Messages : CrashInPush(m))
    BY DEF FlushGivesUp, FlushThrows, Crash, CrashInPush, Restart
  <1>3. ~Arrive
    BY DEF Arrive, Push, memory
  <1>4. ~\E m \in Messages : DirectAnswered(m) \/ DirectFails(m) \/ AppHandles(m)
    BY DEF DirectAnswered, DirectFails, AppHandles, Push, memory
  <1> QED
    BY <1>1, <1>2, <1>3, <1>4 DEF Next, vars, memory

LEMMA NobodyOvertakes ==
    ASSUME Inv, Inv', Fifo', [Next]_vars, sending' # None, sending' # sending, ~exposed',
           NEW m \in Before(sending')
    PROVE  Settled(m)'
  <1>1. items' # <<>> /\ sending' = Head(items') /\ pushed' = pushed
    BY SendsHead
  <1>2. pushed \in Seq(Messages) /\ items' \in Seq(Messages)
    BY DEF Inv, TypeOK
  <1>3. DOMAIN pushed = 1..Len(pushed)
    BY <1>2, LenProperties
  <1>4. PICK j, k \in 1..Len(pushed) : j < k /\ pushed[j] = m /\ pushed[k] = sending'
    BY <1>3 DEF Before
  <1>5. Once(pushed) /\ InOrder(items', pushed)
    BY <1>1 DEF Fifo
  <1>6. m \notin Range(items')
    BY <1>1, <1>2, <1>4, <1>5, HeadIsFirst
  <1>7. m \in Range(pushed)
    BY <1>2, <1>4, InRange
  <1>8. m \in 1..arrived' /\ m \notin direct'
    BY <1>1, <1>7 DEF Fifo
  <1> QED
    BY <1>6, <1>8 DEF Inv, NoSilentLoss, EveryMessageAccounted, Accounted

-----------------------------------------------------------------------------
\* Inv holds in every state of every run of the queue.
THEOREM QueueInv == Spec => []Inv
  <1> QED
    BY InitInv, StepInv, PTL DEF Spec

\* Every variable keeps its type.
THEOREM QueueTypeOK == Spec => []TypeOK
  <1>1. Inv => TypeOK
    BY DEF Inv
  <1> QED
    BY <1>1, QueueInv, PTL

\* Outside the known windows no message that arrived is lost without a trace,
\* whatever the outages, crashes and failed writes.
THEOREM QueueNoSilentLoss == Spec => []NoSilentLoss
  <1>1. Inv => NoSilentLoss
    BY DEF Inv
  <1> QED
    BY <1>1, QueueInv, PTL

\* Outside those windows, what waits in memory is in the file or reported, so
\* that a crash loses none of it.
THEOREM QueueDurable == Spec => []Durable
  <1>1. Inv => Durable
    BY DEF Inv
  <1> QED
    BY <1>1, QueueInv, PTL

\* With a working disk and no crash the queue stays within its limit.
THEOREM QueueBounded == Spec => []BoundedBacklog
  <1>1. Inv => BoundedBacklog
    BY DEF Inv
  <1> QED
    BY <1>1, QueueInv, PTL
\* The queue implements what it promises to deliver: every step of it is a step
\* of Delivery, or none.
THEOREM QueueDelivers == Spec => Delivers
  <1>1. Init => OnWire
    BY DEF Init, OnWire
  <1> QED
    BY <1>1, InitDelivers, OnWireStays, StepDelivers, QueueInv, PTL DEF Spec, Delivers, D!Spec

\* A message is sent only when all that were pushed before it are settled: the
\* queue is first in, first out, through overflows, crashes and reloads.
THEOREM QueueNoOvertaking == Spec => NoOvertaking
  <1> DEFINE Turn == (sending' # None /\ sending' # sending /\ ~exposed')
                        => \A m \in Before(sending') : Settled(m)'
  <1>1. Inv /\ Inv' /\ Fifo' /\ [Next]_vars => [Turn]_vars
    BY NobodyOvertakes
  <1>2. Spec => [](Inv /\ Fifo)
    BY InitFifo, StepFifo, QueueInv, PTL DEF Spec
  <1>3. Spec => [][Turn]_vars
    BY <1>1, <1>2, PTL DEF Spec
  <1> QED
    BY <1>3 DEF NoOvertaking
=============================================================================
