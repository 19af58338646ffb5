----------------------------- MODULE RetryQueue -----------------------------
(***************************************************************************)
(* The gateway's path from a channel to the app: core.ingest posts a       *)
(* message directly while the retry queue is empty, and pushes it on the   *)
(* queue (memory plus an append-only file) when the app is out or older    *)
(* messages wait.  A timer flushes the queue; the only place a flush       *)
(* yields is the await of its send.  JavaScript code between two awaits    *)
(* runs alone, so every action below is such a piece, and a crash strikes  *)
(* between two of them or inside a file append.                            *)
(*                                                                         *)
(* A message is its number in arrival order.  The app is external: it      *)
(* takes or refuses what is on the wire.                                   *)
(***************************************************************************)
EXTENDS Integers, Sequences, Functions

CONSTANTS NMessages,    \* messages that arrive; a bound
          MaxItems,     \* the queue's `max`
          MaxAttempts,  \* the queue's `maxAttempts`
          Poison,       \* messages the app answers with a 5xx whenever asked
          MaxFaults     \* crashes and failed file writes; a bound

ASSUME QueueAssumption ==
    /\ NMessages \in Nat
    /\ MaxItems \in Nat \ {0}
    /\ MaxAttempts \in Nat \ {0}
    /\ Poison \subseteq 1..NMessages
    /\ MaxFaults \in Nat

Messages == 1..NMessages
None == 0

VARIABLES
    \* the gateway's memory
    arrived,    \* how many messages have arrived
    direct,     \* messages whose direct post is being awaited
    items,      \* the queue, oldest first
    attempts,   \* failed sends of each message since the process started
    sending,    \* the message a flush awaits, None when no flush runs
    changed,    \* whether that flush has taken anything off the queue
    \* its files
    lines,      \* the readable lines of the queue file
    torn,       \* whether the file ends in a line cut short
    dead,       \* the dead-letter file
    \* the network and the app
    wire,       \* requests the app has not seen yet
    landed,     \* messages the app has taken, or refused with a 4xx
    \* history
    excused,    \* losses a warning or an error log reports, or a crash took
    pushed,     \* every message pushed, in push order
    exposed,    \* whether one of the known loss windows was hit
    faults      \* crashes and failed writes so far

memory == <<items, attempts, sending, changed>>
files == <<lines, torn, dead>>
vars == <<arrived, direct, memory, files, wire, landed, excused, pushed,
          exposed, faults>>

Init ==
    /\ arrived = 0 /\ direct = {}
    /\ items = <<>> /\ attempts = [m \in Messages |-> 0]
    /\ sending = None /\ changed = FALSE
    /\ lines = <<>> /\ torn = FALSE /\ dead = {}
    /\ wire = {} /\ landed = {}
    /\ excused = {} /\ pushed = <<>>
    /\ exposed = FALSE /\ faults = 0

Fault == faults < MaxFaults /\ faults' = faults + 1
-----------------------------------------------------------------------------
(* The files. *)

AppendLineLater(m) == UNCHANGED <<lines, torn>>  \* mutant: the write is deferred

\* appendFileSync of one line: after a cut line it is glued to it, and
\* neither can be read again.
AppendLine(m) ==
    /\ lines' = IF torn THEN lines ELSE Append(lines, m)
    /\ torn' = FALSE

\* An append that stopped half way, by a crash or a full disk.
TearLine == lines' = lines /\ torn' = TRUE

RewriteEmpty(s) == lines' = <<>> /\ torn' = FALSE  \* mutant: truncates

\* rewrite(): write-then-rename, so it happens or it does not.
Rewrite(s) == lines' = s /\ torn' = FALSE
-----------------------------------------------------------------------------
(* queue.push, called by core.ingest, which logs what it throws. *)

OverflowsLate(s) == Len(s) > MaxItems + 1  \* mutant: the limit is off by one
Overflows(s) == Len(s) > MaxItems

\* What the queue keeps of an overfull backlog: its newest messages.
Newest(s) == IF Overflows(s) THEN SubSeq(s, Len(s) - MaxItems + 1, Len(s)) ELSE s

PushWrites(m) ==
    LET all == Append(items, m) IN
    /\ items' = Newest(all)
    /\ IF Overflows(all)
       THEN /\ Rewrite(Newest(all))
            /\ excused' = excused \cup (Range(all) \ Range(Newest(all)))
            /\ exposed' = (exposed \/ sending # None)
       ELSE /\ AppendLine(m)
            /\ exposed' = (exposed \/ torn)
            /\ UNCHANGED excused
    /\ UNCHANGED faults

\* The append throws: the message is in memory, and logged as lost.
PushAppendThrows(m) ==
    /\ Fault
    /\ items' = Append(items, m)
    /\ \/ TearLine
       \/ UNCHANGED <<lines, torn>>
    /\ excused' = excused \cup {m}
    /\ UNCHANGED exposed

\* The rewrite after an overflow throws: the drop goes unreported.
PushRewriteThrows(m) ==
    LET all == Append(items, m) IN
    /\ Overflows(all)
    /\ Fault
    /\ items' = Newest(all)
    /\ AppendLine(m)
    /\ excused' = excused \cup {m}
    /\ exposed' = TRUE

Push(m) ==
    /\ \/ PushWrites(m)
       \/ PushAppendThrows(m)
       \/ PushRewriteThrows(m)
    /\ pushed' = Append(pushed, m)
    /\ UNCHANGED <<attempts, sending, changed, dead>>
-----------------------------------------------------------------------------
(* core.post: the answers a caller can get. *)

\* 2xx or 4xx: the app has seen the request, and there is nothing to retry.
Answered(m) == m \notin wire

\* 5xx, or no answer: then the app has seen the request, or never will.
NotAnswered(m) == wire \ {m}

(* core.ingest. *)

\* A message arrives: straight to the app, or behind those that wait.
Arrive ==
    /\ arrived < NMessages
    /\ arrived' = arrived + 1
    /\ IF items = <<>>
       THEN /\ direct' = direct \cup {arrived'}
            /\ wire' = wire \cup {arrived'}
            /\ UNCHANGED <<memory, files, excused, pushed, exposed, faults>>
       ELSE /\ Push(arrived')
            /\ UNCHANGED <<direct, wire>>
    /\ UNCHANGED landed

DirectAnswered(m) ==
    /\ m \in direct
    /\ Answered(m)
    /\ direct' = direct \ {m}
    /\ UNCHANGED <<arrived, memory, files, wire, landed, excused, pushed,
                   exposed, faults>>

\* The direct post failed: the message goes to the queue after all.
DirectFails(m) ==
    /\ m \in direct
    /\ wire' = NotAnswered(m)
    /\ direct' = direct \ {m}
    /\ Push(m)
    /\ UNCHANGED <<arrived, landed>>
-----------------------------------------------------------------------------
(* queue.flush. *)

\* The loop's next turn on the rest of the queue, w being on the wire: it
\* awaits the send of the head, or ends with a rewrite, which may throw.
Continue(rest, w, took) ==
    /\ items' = rest
    /\ IF rest # <<>>
       THEN /\ sending' = Head(rest)
            /\ changed' = took
            /\ wire' = w \cup {Head(rest)}
            /\ UNCHANGED <<lines, torn, faults>>
       ELSE /\ sending' = None
            /\ changed' = FALSE
            /\ wire' = w
            /\ \/ Rewrite(rest) /\ UNCHANGED faults
               \/ Fault /\ UNCHANGED <<lines, torn>>

\* The timer's flush; one that is still running makes it return at once.
FlushStarts ==
    /\ sending = None
    /\ items # <<>>
    /\ Continue(items, wire, FALSE)
    /\ UNCHANGED <<arrived, direct, attempts, dead, landed, excused, pushed,
                   exposed>>

\* The app took it, or will never: whatever is at the head leaves the queue.
FlushAnswered ==
    /\ sending # None
    /\ Answered(sending)
    /\ Continue(Tail(items), wire, TRUE)
    /\ UNCHANGED <<arrived, direct, attempts, dead, landed, excused, pushed,
                   exposed>>

TriesForever(m) == attempts[m]  \* mutant: failures are not counted
Tries(m) == IF attempts[m] < MaxAttempts THEN attempts[m] + 1 ELSE MaxAttempts

\* mutant: on an outage the head goes to the back and the flush carries on.
FlushSkips ==
    /\ sending # None
    /\ Tries(sending) < MaxAttempts
    /\ attempts' = [attempts EXCEPT ![sending] = Tries(sending)]
    /\ Continue(Append(Tail(items), sending), NotAnswered(sending), TRUE)
    /\ UNCHANGED <<arrived, direct, dead, landed, excused, pushed, exposed>>

\* An outage: the flush stops, and rewrites the file if it took anything.
FlushGivesUp ==
    /\ sending # None
    /\ attempts' = [attempts EXCEPT ![sending] = Tries(sending)]
    /\ Tries(sending) < MaxAttempts
    /\ wire' = NotAnswered(sending)
    /\ sending' = None
    /\ changed' = FALSE
    /\ IF changed
       THEN \/ Rewrite(items) /\ UNCHANGED faults
            \/ Fault /\ UNCHANGED <<lines, torn>>
       ELSE UNCHANGED <<lines, torn, faults>>
    /\ UNCHANGED <<arrived, direct, items, dead, landed, excused, pushed, exposed>>

\* The last attempt failed: the message is set aside and the flush goes on.
FlushSetsAside ==
    /\ sending # None
    /\ attempts' = [attempts EXCEPT ![sending] = Tries(sending)]
    /\ Tries(sending) = MaxAttempts
    /\ dead' = dead \cup {sending}
    /\ Continue(Tail(items), NotAnswered(sending), TRUE)
    /\ UNCHANGED <<arrived, direct, landed, excused, pushed, exposed>>

\* The dead-letter append throws: the flush ends with nothing shifted.
FlushThrows ==
    /\ sending # None
    /\ attempts' = [attempts EXCEPT ![sending] = Tries(sending)]
    /\ Tries(sending) = MaxAttempts
    /\ Fault
    /\ wire' = NotAnswered(sending)
    /\ sending' = None
    /\ changed' = FALSE
    /\ UNCHANGED <<arrived, direct, items, lines, torn, dead, landed, excused, pushed,
                   exposed>>

FlushEnds == FlushAnswered \/ FlushGivesUp \/ FlushSetsAside \/ FlushThrows
-----------------------------------------------------------------------------
(* The app, external: it takes or refuses what reaches it, a poisonous      *)
(* message apart, and taking one twice changes nothing (main.py:206).        *)

AppHandles(m) ==
    /\ m \in wire \ Poison
    /\ wire' = wire \ {m}
    /\ landed' = landed \cup {m}
    /\ UNCHANGED <<arrived, direct, memory, files, excused, pushed, exposed, faults>>
-----------------------------------------------------------------------------
(* A crash, and the start that follows: load() reads the file back. *)

LoadCut(s, cut) == IF cut THEN Append(s, None) ELSE s  \* mutant: keeps the cut line
Load(s, cut) == s

Restart ==
    /\ items' = Load(lines', torn')
    /\ attempts' = [m \in Messages |-> 0]
    /\ sending' = None
    /\ changed' = FALSE
    /\ direct' = {}
    /\ wire' = {}
    /\ UNCHANGED <<dead, landed>>

Crash ==
    /\ Fault
    /\ UNCHANGED <<lines, torn, arrived, pushed, exposed>>
    /\ excused' = excused \cup direct
    /\ Restart

\* The crash strikes while a push appends its line.
CrashInPush(m) ==
    /\ Fault
    /\ \/ m \in direct /\ UNCHANGED arrived
       \/ m = arrived + 1 /\ m \in Messages /\ items # <<>> /\ arrived' = m
    /\ \/ TearLine /\ UNCHANGED exposed
       \/ AppendLine(m) /\ exposed' = (exposed \/ torn)
    /\ excused' = excused \cup direct \cup {m}
    /\ pushed' = Append(pushed, m)
    /\ Restart
-----------------------------------------------------------------------------
Next ==
    \/ Arrive
    \/ FlushStarts
    \/ FlushAnswered
    \/ FlushGivesUp
    \/ FlushSetsAside
    \/ FlushThrows
    \/ Crash
    \/ \E m \in Messages :
          \/ DirectAnswered(m)
          \/ DirectFails(m)
          \/ AppHandles(m)
          \/ CrashInPush(m)

Spec == Init /\ [][Next]_vars

(* The timer keeps ticking, and a fetch ends, with an answer or without. *)
FairSpec ==
    /\ Spec
    /\ WF_vars(FlushStarts)
    /\ WF_vars(FlushEnds)
    /\ \A m \in Messages : WF_vars(DirectAnswered(m) \/ DirectFails(m))
-----------------------------------------------------------------------------
TypeOK ==
    /\ arrived \in 0..NMessages
    /\ direct \subseteq Messages
    /\ items \in Seq(Messages)
    /\ attempts \in [Messages -> 0..MaxAttempts]
    /\ sending \in Messages \cup {None}
    /\ changed \in BOOLEAN
    /\ lines \in Seq(Messages)
    /\ torn \in BOOLEAN
    /\ dead \subseteq Messages
    /\ wire \subseteq Messages
    /\ landed \subseteq Messages
    /\ excused \subseteq Messages
    /\ pushed \in Seq(Messages)
    /\ exposed \in BOOLEAN
    /\ faults \in 0..MaxFaults

\* Where a message can be without having been lost: with the app, set aside,
\* reported, waiting or in a direct post.
Settled(m) == m \in landed \cup dead \cup excused
Accounted(m) == Settled(m) \/ m \in direct \/ m \in Range(items)

\* Every message that arrived is delivered, refused, set aside, reported lost,
\* or still held (queue.js:4-10): unconditionally.
EveryMessageAccounted == \A m \in 1..arrived : Accounted(m)

\* The same for every run that hits none of the windows in which the queue is
\* known to lose a message: an overflow while a flush awaits its head, an
\* append after a cut line, a rewrite that fails after an overflow.
NoSilentLoss == ~exposed => EveryMessageAccounted

\* The queue keeps its promise: it implements the specification of what it
\* delivers, the messages in a direct post and on the queue being those it holds
\* (queue.js:4-10, core.js:39-50).
D == INSTANCE Delivery WITH
        N <- NMessages,
        held <- direct \cup Range(items),
        settled <- landed \cup dead \cup excused,
        broken <- exposed

Delivers == D!Spec

\* A crash loses nothing the queue has accepted: what waits in memory is in the
\* file as well, or was reported (queue.js:18-34, 65-77).
Durable == ~exposed => Range(items) \subseteq Range(lines) \cup excused

\* A flush never sends a message while an older one still waits: whatever was
\* pushed before it is settled (queue.js:48-49, "FIFO").
Before(m) ==
    {pushed[i] : i \in {j \in DOMAIN pushed :
                            \E k \in DOMAIN pushed : j < k /\ pushed[k] = m}}
NoOvertaking ==
    [][(sending' # None /\ sending' # sending /\ ~exposed')
          => \A m \in Before(sending') : Settled(m)']_vars

\* The queue never outgrows its limit while the disk works and the process
\* lives (queue.js:8-9, 21-24).
BoundedBacklog == faults = 0 => Len(items) <= MaxItems

\* Only an item the app keeps rejecting with a 5xx is moved aside
\* (queue.js:9-10).
DeadMeansRejected == dead \subseteq Poison

\* No message waits forever: outage or not, the queue empties past it
\* (queue.js:9-11, 48-55).
QueueDrains == \A m \in Messages : (m \in Range(items)) ~> (m \notin Range(items))
=============================================================================
