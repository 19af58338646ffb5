# A verification project for group-chat-assistant

group-chat-assistant is a bot for group chats. A Node process, the *gateway*,
holds the connections to WhatsApp, Slack, Telegram, Discord and the WhatsApp
Cloud API. A Python process, the *app*, keeps the messages, builds the search
index, answers questions through a language model, and serves the admin panel.
They talk over HTTP with JSON bodies; PostgreSQL holds whatever must last, and
a file beside the gateway holds the messages the app could not yet take.

This directory holds TLA+ models of the parts where the order of events decides
what is lost, kept, repeated or erased, TLC configurations that check them on
small instances, and TLAPS proofs of the central safety properties for every
instance. Source references are to `src/`.

    tlc -workers 2 -config Queue.cfg RetryQueue.tla
    tlapm RetryQueueProofs.tla

## 1. Inventory

### The gateway (`gateway/`)

**Core** (`core.js`). No state of its own beyond the queue. `ingest` posts a
message to `/ingest` while the queue is empty, and pushes it otherwise, or when
the post fails with a 5xx or without an answer (`retryable`). `handle` is what a
channel calls for each group message: ingest, then, if the bot was addressed, ask
the app and send the answer back through the channel. `handleDirect` is the same
for private questions. `shareFile` forwards an uploaded file, without a queue.
`refresh` polls `/gateway/config` every 15 s and `report` posts the channels'
states. Hard: a request that timed out may have been served; messages that
arrive during a flush; answers that come back out of order.
*Correct when* nothing a channel received is lost silently.

**Retry queue** (`queue.js`). `items` in memory, an append-only JSON-lines file
with the same content, a dead-letter file, an attempt count per item, a `flushing`
flag. `push` appends to both and drops the oldest beyond 50,000; `flush`, from a
10 s timer, sends from the head until a send fails; `load` reads the file at
start. Hard: `push` during the await of a flush, crashes inside a write, failed
writes, an app that refuses one message forever.
*Correct when* every message is delivered, set aside or reported lost; order is
kept among what waits; memory and file agree; the queue drains.

**Supervisor** (`supervisor.js`, `index.js`). The running channels with their
configuration. `sync` compares it with what `/gateway/config` returned and stops,
starts or restarts channels; `index.js` loops on `refresh`/`sync` and shuts down
on SIGTERM. Hard: a channel's late callback after it was stopped, a shutdown in
the middle of a `sync`. *Correct when* one connection per channel exists at most,
and the app's last report describes what runs.

**Channels** (`channels/*.js`). Each keeps its socket, a reconnect timer with
back-off, a set of the bot's own ids, for WhatsApp the credentials on disk and
for the Cloud API the last 1,000 ids seen. Operations: connect, close, reconnect,
relink, list groups, receive, send. Hard: reconnect against stop and relink,
a permanent logout against a temporary failure. *Correct when* a channel that can
reconnect does, and one that was logged out says so and stays quiet.

### The app (`app/`)

**Ingest** (`main.py` 189-208). Checks group and opt-out on one connection,
inserts on another with ON CONFLICT DO NOTHING. **Import** (`pages_data.py`
51-65, `scripts/import_export.py`) inserts an exported chat, and asks for the
group only. *Correct when* a delivered message is stored once, and one of an
opted-out member or an unknown group is not stored at all.

**Chunking loop** (`chunking.py`), every 60 s. Reads up to 5,000 messages whose
`chunked` flag is unset, cuts them into episodes, embeds each and writes chunk
and flags in one transaction per episode. Hard: everything that happens to those
messages between the read and the writes. *Correct when* every message that is to
be searchable becomes so, and the chunks say what the messages say.

**Retention and erasure** (`retention.py`). The hourly `run_once` deletes what is
past each group's window, table by table; `purge_group`, `purge_group_messages`
and `purge_sender` are the panel's erasures. *Correct when* expired words leave
every table, and an erasure leaves nothing behind.

**Groups and settings** (`groups.py`, `pages_groups.py`, `admin_api.py`). One row
per group with a JSON of settings, a 30 s memo of the global ones. Opting a member
out writes a list and purges; deleting a group purges and deletes the row. Hard:
read-modify-write of the JSON, two transactions where one is meant, the memo.

**Answering** (`asking.py`, `answer.py`, `retrieval.py`, `budget.py`,
`query_log.py`). A per-member window of question times in memory, monthly
spending as a sum over `query_log`. A question is throttled, then checked against the
opt-out list and the cap, retrieved, sent to the model and logged; one over the
throttle's limit is logged and put off. Hard: the cap and the list are checked before
and the row is written after; a source may be erased while the model thinks.
*Correct when* limits hold up to what is under way and every call that was paid
for is on record.

**Facts** (`facts.py`, `extraction.py`). A loop takes chunks not yet extracted,
asks a model for decisions, stores them and marks the chunk; a similar older fact
is superseded. Corrections by members and deletions by the panel write the same
table. Hard: crash between store and mark, two writers superseding one fact, an
erasure during the model call, replies of a shape nobody expected, chunks of documents,
which wait in the same column. *Correct when*
what was superseded always leads to what is current, a correction outranks what it
corrected, and no chunk is left behind.

**Documents** (`documents/`). One row per file with its bytes, its status and, once
read, its text; the chunks made of it. Upload, sharing in a group, re-upload,
re-index, deletion; a loop takes up to three pending rows every 15 s, reads each
with a reader for its kind (`read.py`), which may take a model call a page, and
stores the chunks. Hard: whatever happens to a row during that minute; files that
raise; which failures are the file's and which the database's. *Correct when* what
the panel shows as indexed is what search finds, and nothing stays pending.

**Private questions** (`asking.py` 224-242, `groups.py` 152-187, `retrieval.py`
143-168). No state of their own; they read the members table, the messages, the
groups and the chunks, one after the other. *Correct when* an answer comes from a
group the asker belongs to and contains nothing of another.

**Gateway state and API** (`gateway_state.py`, `gateway_api.py`, `channels.py`).
The last report of each channel, the member table each report replaces, the relink
wish which is cleared when the configuration is handed out.

**Loops and health** (`main.py` 36-87, 146-170). Four loops, each retried with
back-off to ten minutes; `/health` calls a loop stalled after three intervals.

**Panel** (`admin/`). Sessions, a login throttle (`auth.py`: the failures of each
client and those of everyone, in two tables shared by the pool's threads), forms over
the operations above. Hard: a thread held between a look and a count while others
sweep. *Correct when* guessing is bounded and nobody is locked out without a cause.

**Providers and bootstrap** (`providers/`, `bootstrap.py`). Rows of model providers,
a memo of them next to the one of the global settings, `ensure_default` at the start
and after every change. Hard: a reader that fills the memo with what it read before
a write; a decision about the default taken through the memo. *Correct when* a change
is served after a bounded time, and the default provider can answer.

**Migrations** run once at the start.
**Templates, static files, scripts**: rendering and one-off tools.

`PROJECT.json` lists these with their status, and every hazard at its line.

### Interactions

    chat network -> channel -> core.ingest -> /ingest -> messages
                                  |    ^                    |
                                  v    | flush, 10 s        | chunking, 60 s
                               queue + file                 v
    panel --- erase, opt out, delete, re-index -------> messages, chunks
    retention, 3600 s --------------------------------> the same tables
    chunks -> extraction -> facts;   chunks, facts -> answers -> query_log
    /gateway/config -> supervisor -> channels -> reports -> gateway_state

There is one app process, with handlers on a thread pool and loops on threads of
their own; connections are autocommit (`db.py:11`), so a statement outside an
explicit transaction is its own transaction. The gateway is one event loop.

## 2. Plan

Order: what can lose or keep words first, then who may read them, then the rest of
the state that several actors write.

1. **RetryQueue**, with proofs. *Done.*
2. **MessageStore** (ingest, import, chunker, retention, erasure, opt-out, group
   deletion), with proofs. *Done.*
3. **Channels** (supervisor, the WhatsApp channel's connection, reports, relink),
   with proofs. *Done* for one channel.
4. **Answers** (questions, corrections, the cap, the extraction loop, facts, the
   question log, and what erasure and retention delete of those), with proofs.
   *Done* for one group.
5. **Documents** with its readers, and proofs. *Done.*
6. **Privately**: channel, members table, groups and answering composed around a
   private question, with proofs. *Done.*
7. **Settings**: providers, global settings, their memos, bootstrap, with proofs. *Done.*
8. **Login**: the throttle, with proofs. *Done.*
9. **Delivery**, **OneConnection** and **Library**, abstract specifications of what the
   queue, the supervisor and the documents promise, and RetryQueue, Channels and
   Documents shown to implement them, by TLC and by proof. *Done.*

Left for later: the dead flag of the other channels; the count of the throttle per
member, which has the shape of the login's; quiet hours and the splitting of replies as pure operators; a
composition of Delivery with the message store (what the queue delivers twice is stored
once); an abstract memo for Settings. Not planned: the back-off of the loops against
`/health` (section 7).

## 3. The models

### RetryQueue

`queue.js` and the ingest half of `core.js`. JavaScript between two awaits runs
alone, so each action is such a piece: `Arrive`, `DirectAnswered` and
`DirectFails` are `core.ingest`; `Push` (in these) is `queue.push` with its three
outcomes, all written, the append threw, the rewrite after an overflow threw;
`FlushStarts` runs to the first await; `FlushAnswered`, `FlushGivesUp`,
`FlushSetsAside` and `FlushThrows` are the continuations after it; `AppHandles` is
the app, external. `Crash` strikes between two pieces and `CrashInPush` inside an
append; both include the restart and `load`.

| variable | code |
| --- | --- |
| `items`, `attempts`, `sending`, `changed` | `items`, `attempts` on each item, the awaited `send(items[0])`, the flush's `changed` |
| `lines`, `torn`, `dead` | the queue file, a cut last line, the dead-letter file |
| `direct`, `wire`, `landed` | posts under way; requests the app has yet to see; what it took or refused for good |
| `excused`, `pushed`, `exposed`, `faults` | history and bounds |

Abstractions. A message is its arrival number. A request whose answer did not come
has been seen by the app or never will be: one seen *later* would only add a
duplicate, which `/ingest` absorbs. SIGTERM is a flush followed by a `Crash`:
`index.js` 41-48 flushes once more and exits, direct posts under way or not. A line that is complete but lacks its newline counts as cut,
since the next append is glued to it. `post` straight from two messages at a time
(`direct`) can reorder them; the code promises order for the queue only.

**Delivery** is what this amounts to for the rest of the system, in three actions:
a message arrives and is held or reported at once, held messages are settled, or a
loss window is hit and the promise is off. `RetryQueue` implements it (`Delivers`)
with what is queued, on the wire, in the file or under way as `held`, and what
landed, was set aside or was excused as `settled`. That messages settled stay so, and
that only those held can be settled, is more than the invariant `NoSilentLoss` says.

### MessageStore

The tables `messages` and `chunks` and everyone who writes them. One action is one
statement or one transaction.

| action | code |
| --- | --- |
| `IngestChecks`, `Inserts` | the two connections of `/ingest` |
| `ImportChecks`, `Inserts` | an import, which looks at the group only |
| `ChunkerReads` | UPDATE of the rows that need no chunk, SELECT, `episodes`; a row that comes between the two statements (`late`) is read, whatever it is |
| `ChunkerWrites`, `ChunkerFails` | one episode's transaction; the tick raised |
| `RetentionChunks`, `RetentionMessages` | the two DELETEs of `run_once` |
| `PurgeGroupMessages`, `Reembed`, `PurgeGroup`, `DeleteGroup`, `AddGroup` | the panel |
| `AsksToErase`, `PurgeSender` | erasing a member |
| `OptOutReads`, `SavesList` | a request brings a list: the endpoint's, or the settings form's (`Lists`) |
| `AppliesReads`, `OptOutWrites`, `PurgeSender` | `apply`'s read of the row, its write, its purges |
| `Crash` | the process dies; what was under way is gone, what was committed is not |

A message is its index in the constant `Sent`, which is sorted by group and time; a
chunk is the set of messages whose words it holds, from which its group and its
`ts_start`, `ts_end` follow. Abstractions. The 1,600-character limit of an episode
is folded into the count limit (`Full`); identical chunk rows, which a repeated
build can leave, are one; every registered group is enabled (pausing only refuses
ingest, as an unknown group does); a transaction is atomic, since a weaker
isolation inside `purge_sender` adds no outcome that the chunker's stale read does
not already give. `query_log` and `facts`, which the same functions delete, belong
to Answers; document chunks carry no times and no message, and are left to
Documents.

### Channels

One channel of the gateway, WhatsApp, with the supervisor above it and the app's
`gateway_state` at the other end. Again an action is the code between two awaits.
`SyncAsks`, `SyncServed`, `SyncFails`, `Blanked`, `Started`, `StartFails`, `Failed`,
`LogsOut` and `LogoutFails` are `sync` cut at its awaits (the configuration, the blank
report of a stop, the start, the blank report of a failed start, the logout), and
`Stops`, `Starts`, `Relinks` and `Finish` the code between them. `ShowsQr`, `Opens`,
`Lists` and `Closes` are the branches of the `connection.update` handler, `Lists`
what follows the await of the group list; `TimerFires`, `Loads` and `LoadFails` are the
reconnect. `Takes`, `Loses` and `AppRestarts` are the reports' fate.

| variable | code |
| --- | --- |
| `wanted`, `wish`, `shown` | the channel's row; `relink` and the last report in `_state` |
| `flight` | reports posted and not yet seen; they may overtake each other |
| `step`, `cfg`, `asked` | where `sync` waits, and the configuration it holds |
| `current`, `fingerprint` | the entry of `running`, from the start's first moment on |
| `phase` | the socket: reading the identity, up, open, waiting for the timer, given up, gone |
| `said`, `stopped`, `listing`, `relinking` | the instance's `state`, flags, and a pending group list |
| `creds`, `linked` | the identity on disk; whether the phone still accepts it |

Each start is a new instance with its own closure, so a stopped one lives on in its
callbacks: that is the point of the model. Abstractions. A report is one of "qr",
"on", "off": code and connection exclude each other in every state the handler sets.
Equal reports under way are one. Group lists, and the members table, are left out;
so is the order among several channels in `sync`, which share nothing but the waiting.
Pairing is a scan; that WhatsApp closes once after it is one of the closes. `logout`
throws without an open socket and otherwise ends with a close that says logged out,
as the library does. The other channels lack pairing and relink and add a `dead`
flag, which makes `sync` restart them; Slack alone checks its stop flag in reports.

**OneConnection** is what is left of it all for the rest of the gateway: a channel is
taken by one instance with one configuration, let go of with its connection before it
is taken again, and only its holder connects. `Channels` implements it (`ChangesHands`)
with `current` and `fingerprint` as holder and configuration, the sockets up or open as
`connected`, and as `ghosts` those stopped while they read their identity and not at
rest yet. That a ghost connects once at most, and then ends, is part of it.

### Answers

One group's questions and decisions. A thread of the pool serves `/ask` (or the
panel's try-out), the extraction loop ticks, the chunker and the documents loop store
chunks, the panel and retention delete, and they share `facts`, `query_log`, the chunks'
`facts_extracted` and the opt-out list.
An action is one statement, one transaction, or the code up to the next call of the
model.

| action | code |
| --- | --- |
| `Throttled` | `asking.throttle` over its limit: a row with question and sender, written before `/ask` looks at the opt-out list |
| `Ask`, `Declines`, `Affords`, `Calls`, `Answered`, `Logs` | `/ask` and `_answer_in` cut at the cap's SELECT, the facts' SELECT, the model's call and the INSERT |
| `Posts` | the gateway sends the answer and hands it to `/ingest`, or fails |
| `Disputes`, `Corrects`, `LogsCorrection` | `try_correction` cut at `facts.correct` and the INSERT |
| `Raises`, `BreaksOff` | an exception ends the request, or the tick |
| `Chunked`, `StoresDocument` | the INSERTs of the chunker, and of the documents loop for a file of the group's, whose chunks have no times |
| `Tick`, `ReadsChunks`, `TickEnds` | the cap and the SELECT of `extraction.run_once`; its end |
| `Stumbles` | `facts.extract` raises on a document's chunk before it calls the model, which ends the tick |
| `Extracts`, `Finds`, `Garbles`, `RefusesChunk` | `facts.extract` up to the model's call; what its reply may be |
| `AddsDecision`, `Restates`, `Marks` | `facts.add` for each statement, the mark |
| `LogsExtraction`, `LogsForFree` | the INSERT, of a reply that reports its usage or does not |
| `RemovesFact`, `ClearsLog`, `DeletesQuestion`, `DeletesChat`, `DropsDocument` | the panel, and retention on `query_log` |
| `SavesOptOuts`, `PurgeSender` | a whole list is written, as filled in or as read some time before, so that members come on it and drop off it; an erasure, after an opt-out or without one |
| `RetentionChunks`, `RetentionFacts` | retention, re-embedding |

| variable | code |
| --- | --- |
| `lastId`, `live`, `successor`, `author`, `source` | the table `facts`: its sequence, its rows, `superseded_by`, `sender_jid`, the chunk behind `source_msg_id` |
| `made`, `papers`, `chunks`, `pending` | chunks ever made, those of documents, those there, those with `facts_extracted` unset |
| `lastRow`, `log`, `posted`, `optedOut` | the ids of `query_log` and its rows; the bot's own messages in `messages`; the list in the settings |
| `thread`, `loop` | where each request and the tick is, and what it holds |
| `overruled`, `due`, `erased`, `late`, `deleted`, `held` | history; `due` counts the calls paid for, less those that left the account (`Leaves`) |

Abstractions. A call costs one unit, and a charge is a reply received: what a provider
bills for a request that timed out, the code cannot know. An answer without usage is
estimated by `answer.py` and costs its unit; an extraction without usage is a row that
costs nothing, as `facts.py` 118 has it. What is similar is a choice among what the code
offers: `Calls` hands the model any of the active facts where the code picks the
five closest, or none; the model names any of those `Extracts` handed it. An answer is one of a few texts, because a correction
finds its row by the text. The statement of a correction is never an answer's text.
Which chunks a member spoke in is a choice, since MessageStore settles it. A reply has
up to `MaxFound` statements, any number in the proofs and one in the run; the reply
that is no JSON is a reply without statements, as in the code. Whether a sender is over
the throttle's limit is a choice, and what it does then is modelled. Quiet hours, private
questions' choice of a group, and pausing a group are left out, and deleting the
group too: it takes everything modelled here at once. A correction's `successor`
points at the newest fact by insertion; `valid_from` orders only the display.

### Documents

`documents/` and its callers. A call of `create` is cut at its statements, for the
loop's transaction falls between them: `CreateLooks` finds the row of the same file in
the same place and deletes its chunks, `Resets` is the UPDATE and the commit,
`CreateInserts` the INSERT, which a twin turns into a violation of `documents_dedupe`.
`Upload`, `IngestFile` and `Reindex` are the handlers up to there; `Delete`,
`PurgeGroup` and `RemoveGroup` remove rows with their chunks. The loop: `IndexPending`
takes its snapshot, `Reads` is `read` on the oldest row of it, `Stores`, `Fails` and
`StoreRefused` are what `_index` does with the outcome; `Outage` and `Restart` end a
tick. `missed` marks a call whose DELETE did not see the chunks stored after it, as
READ COMMITTED allows.

| variable | code |
| --- | --- |
| `docs`, `chunk`, `nextId` | `documents`; the chunks of each, as the name their labels carry |
| `groups`, `leaving` | groups there are; purged and about to be deleted |
| `calls`, `batch`, `verdict` | calls under way; the loop's snapshot; what the read of its first row came to |
| `overlapped`, `ops`, `faults` | history and bounds |

A file is what a reader finds in it: pages with or without text, damaged, too much
text, a NUL character. `Read` follows `read.py`: which kind is tried by the name,
which limit refuses it, whether it needs the model, and for spreadsheets that a
damaged sheet raises outside the `try`. A model is there, fails or answers, freely
each time; embedding the parts may raise too, for a kept text as well. A name stands for
a file name and a mime type, of which `read` sees the kind. Checks that need no database
(empty, too large) refuse before any step.

**Library** is the life of a file as the rest of the system relies on it: it waits, is
decided once, waits again only for an upload or a re-index, and once removed is gone.
`Documents` implements it (`KeepsLibrary`) with the row's status as `state`, the rows
with chunks as `shown` and the overlapped ones as `excused`. A step of the loop late by
minutes is thereby a decision about a document that waits, or no step at all.

### Privately

The composition around a private question: who is in a WhatsApp group (`ingroup`),
what its channel last heard (`heard`, set by `Opens`, blanked by `Blanks`), reports on
their way (`flight`: lost, late, overtaking), the members table (`members`), the
group rows, who wrote where (`wrote`), and on each thread a question at one of its
reads. `ReadsMembers`, `ReadsWrote`, `Chooses` or `StaysSilent`, `Searches` and
`Answers` are `answer_privately` cut at its statements. `theirs` and `opened` record
which groups were the asker's, and open to private questions, at some moment since the
question came.

A chunk is its owner and the group it was found through, since that is what
`search_many` keeps apart; any of a group's chunks may be found or none, and any
group may be the best. Which candidates are the first five is left open (the code
takes the oldest). Abstractions: a report takes effect in one step, though `_state`
changes before the table; `Saves` writes settings and erases in one step (MessageStore
has the gap); a channel that is stopped for good while its last report is lost keeps
its rows in the table, which Channels covers for the connection; the throttle. One
group is on WhatsApp and one on a channel that lists nobody.

### Settings

The providers' rows, the settings table, and the two memos as one map by key, each
entry with its age. A reader that misses takes three steps (`Asks` notes the time,
`ReadsDatabase`, `FillsMemo`), and so may fill in what a write has made untrue. An
admin's call is cut at its statements and its visits to the memo: `ChangeProvider`
(forget), `WritesProvider`, then `ensure_default` as `ReadsDefault` and
`ChecksDefault`, and `set_global` as forget, `FillsSettings`, `WritesSettings` (one
INSERT; `WritesCap` is a PUT's second), `ForgetsAgain`. `BreaksOff` is a call that raises
between two of these, after which what it had written stays written. `CreateProvider`, `UpdateProvider`, `DeleteProvider`, `SetCap`,
`MakeDefault` and `PutSettings` are the handlers of panel and API. `Restart` runs the
bootstrap on an empty memo. `stale` counts for how long the database has differed from
an entry. Of a row only whether it is there and enabled is kept; a visit of an admin's
call to the memo is one step, since the reader already shows the gap.

### Login

`check_password` on the pool's threads, cut between its accesses to the two shared
tables: `Sweeps` (clear, or list what is idle; `SweepBreaks` is the RuntimeError of a
table that another thread changes meanwhile), `Looks` (drop those, look at both
locks), `Right` or `Wrong`, `Renews` and `Counts` (lines 57-58 and 59-61, between which
CPython 3.12 may switch threads). A thread keeps the dict it looked at: `kept` says
whether that is still the one in the table. A slot is a scope and a client, since panel
and API count apart. A check lasts at most `Slow` ticks. `guesses` and `mine` record
what was guessed and when.

## 4. The runs

| run | question | result |
| --- | --- | --- |
| `queue` | does the queue implement Delivery, over overflow, poison, crash, cut line, failed write? order, drain | holds |
| `channel` | does the channel implement OneConnection; stray connections; do gateway and app agree in the end, and pairing recover? | holds, one race apart |
| `store` | index and erasures, all writers interleaved; by which ways does a message outlive an opt-out? | holds outside the known windows; four ways, no more |
| `store_loops` | do messages become searchable, and age out? | holds |
| `store_episodes` | are chunks stretches of conversation, in any order of delivery? | holds |
| `store_opt_out` | is an opted-out member's message ever stored (`groups.py` 49)? | violated: check and insert are apart |
| `answers` | histories, corrections, spending, account, erasures of facts and questions; does extraction get on? | holds |
| `documents` | do the documents implement Library; is what is shown as indexed searchable and cited by its name, can every row be read again, is every one dealt with? | holds, two windows apart |
| `settings` | how stale is what is served; can the default provider answer? | holds outside the known windows |
| `login` | how many guesses pass; is anybody refused without a cause? | holds, at twice the documented rate |
| `privately` | whose groups answer a private question, with what, and does the channel's list decide? | holds |
| `privately_left` | can someone who has left keep asking (`SECURITY.md` 25-27)? | violated: members are listed at the opening only |

Eight more configurations check one statement each of a comment or a document that the
code does not keep; they are run by hand, and TLC finds each violated:

| configuration | statement | what happens |
| --- | --- | --- |
| `QueueOutage.cfg` | `queue.js` 9-10: a message the app *keeps rejecting with a 5xx* is set aside | an unreachable app counts too |
| `QueueOverflow.cfg` | `queue.js` 4-5: messages wait until they land | an overflow during a flush drops one unsent |
| `ChannelStale.cfg` | `supervisor.js` 16, `slack.js` 81: the app forgets a stopped channel | a late report says connected |
| `StoreErasure.cfg` | `retention.py` 72-74: nothing survives inside a chunk | the chunker writes what it read before |
| `AnswersPaid.cfg` | `docs/OPERATIONS.md` 149-150: a row *with its tokens and cost* | an extraction whose reply has no usage costs nothing |
| `AnswersThrottle.cfg` | `pages_groups.py` 252: nothing an opted-out member sends from now on is kept | the throttle logs their question |
| `AnswersBehind.cfg` | `extraction.py` 61: no chunk blocks those behind it | a document's chunk ends every tick |
| `SettingsDefault.cfg` | `bootstrap.py` 27: the default names a provider that exists and is enabled | a `PUT /api/settings` with the cap alone writes the default as none |

**The properties of `queue`.** `Delivers`: the queue implements Delivery, so outside
three windows (`exposed`) every message is delivered, refused, set aside, reported, or
held, and none that was is lost again. The windows are an overflow while a flush
awaits its head, an append after a cut line followed by a crash, and a rewrite that
fails after an overflow. `Durable`: what waits in memory is in the file or was
reported. `NoOvertaking`: a flush never sends past an older message. `QueueDrains`:
whatever happens, a message leaves the queue in the end. `NoSilentLoss` and
`BoundedBacklog` are in no run; they are proved.

**The properties of the channel.** `NoStray`: only the running instance has a socket,
or one that was stopped while a reconnect read its identity (`raced`): there the code
opens a socket that nobody closes. `ChangesHands`: the channel implements
OneConnection (section 3), so a changed configuration never reaches what runs except
through a stop and a new start, and a ghost does not come back. `Converges`: what runs is in the end what the admin
asked for. `AppSees`: the app shows a running channel as connected if and only if it
is, in the end, a reconnect that threw apart: no timer follows it, and the stale state
stays. `PairsAgain`: a refused identity leads to a new code.

**The properties of the store.** `Indexed`: a flagged message is in some chunk,
unless it needs none or has expired; the flag is the only thing that keeps a
message from being chunked, so one wrongly flagged is lost to search without a
trace. `ErasedUnlessExposed`: an erasure leaves no chunk with the erased words,
unless a message was deleted while the chunker held it, or retention had deleted it
and left a chunk that outlives it (the chunk's *end* decides). `ChunksAreEpisodes`,
`NoFragments`: chunks respect limit and silence, and a live conversation is not cut
up, as far as the tick has read it: what an opted-out member wrote and what is beyond
`PerTick` it has not. `OptOutErasesTheRest` says in which four ways `OptOutErases`
fails, each followed by the history variable `spared`: `/ingest` had let the message
through before; an import brought it; it was stored while the member was opted in,
between a save's read of the row and its write, which opts them out again without a
purge; the app died between a list and its purge. `BecomesSearchable`, `AgesOut`: the loops do their work in the end. `AgesOut`
excepts a message that is delivered again and again, as a retrying sender could.

**The properties of the answers.** `HistoryEnds`: a fact that was replaced points at a
later one that is still there, so nothing drops out of sight when what replaced it
goes. `CorrectionStands`: while a correction is there, nothing it replaced is current,
although the loop adds decisions with ids it read before. `SpendBounded`: the cap,
which the panel calls a cap and the code checks before it spends, is exceeded by at
most what was under way: a call per thread and a tick of the loop. `Accounted`: a
charge is in a row with its cost, or in the hands of who will write it. Both are about
the calls that stay in the account; those that do not are taken out of `due` by name:
the row was prevented by a failure or a garbled reply, or deleted later, the extraction's
reply had no usage, and, never in it, the pages of documents a model reads. How much
these add up to nothing in the code bounds: an extraction provider that never reports
usage never reaches the cap (section 6). `OptedOutForgotten` and `ChatForgotten`: an
erasure lasts, while the member stays on the list, except for a request of theirs already
running (`late`), for the throttle's rows, from which the list spares nobody, and for
chunks the loop had read (`held`); all three happen. `ChunksAreExtracted`: no chunk waits
for ever behind one the provider refuses, or one that fails, unless the cap is reached,
a document's chunk waits before it, or the reply for a chunk no later than it is garbled
again and again.

**The properties of the documents.** `Searchable`: an indexed row has its chunks and its
kept text, and a row that is not has none. `CitesItsName`: the label answers cite is
the name the panel shows. Both except a row reset while the loop had it in hand
(`overlapped`): the loop stores what it read, under the old name. `Rereadable`: a row
has its bytes or its text, so that a re-index, or the next tick, has something to
read. `KeepsLibrary`: the documents implement Library (section 3), which says more than
the invariants, of steps: no verdict falls on a document that is indexed or has failed,
none brings a deleted one back, and no reset leaves chunks behind without its excuse. `Settles`: a pending row is dealt with in the end, unless an older one, or it
itself, is refused by the database on every tick.

**The properties of the settings.** `ServedIsRecent`: what is served was true less than
`MEMO_SECONDS` ago, however late its reader fills it in: the time is taken before the
SELECT, which is why. `DefaultStands`: when no call is under way, the default can
answer if any provider can, unless calls overlapped, one broke off midway, a reader filled
the memo during one or with what was no longer true, or the admin chose a default that
cannot answer.

**The properties of the login.** `GuessesBounded`: in any stretch of a `LOCK`, less the
time a check takes, fewer than twice `GLOBAL` guesses pass beside those of the other
threads, however often the table is swept; TLC reaches the bound. `RefusedForCause`:
who is turned away has failed `PER_CLIENT` times since the last right password, the
latest within `LOCK`, or everyone together `GLOBAL` times within two.

**The properties of the private questions.** `OnlyFromTheirs`: the four reads happen at
four moments, yet an answer comes from a group that was the asker's, and open to
them, at some moment since the question. `OfThatGroup`: its material is that group's or
shared with all. `ListDecides`: someone the gateway has off the list for good is
answered no more in the end, whatever older report arrives when.

**Bounds.** The queue: three messages, a limit of two, so the third overflows it;
one poisonous message between two good ones; two attempts, so both "try again" and
"set aside" happen; two faults, so a crash can hit the consequences of a failure.
A longer queue repeats the same head-and-tail steps. The channel: two configurations
and disabled, so that it is restarted and stopped; two changes, so that a second
instance meets the remains of the first and a third a ghost; one failure of any kind,
since each kind has its own branch. The store: two members in one
group share an episode, and a second group repeats a message id later; two panel requests,
enough for a request to meet another; a clock of two against a window and a gap of
one, so that messages expire and a silence closes an episode. The loops' run takes
a clock of three and one fault, and reads three rows a tick; the episodes' run takes
five messages with a burst, a pause, a skipped row and a silence, and reads three rows
a tick, so that the limit cuts an episode. For one request to opt a member in behind
another's back it takes three: `StoreOptOuts.cfg`, run by hand, has them (853,560
states), and TLC finds no error there either. The answers: one thread and the loop, so two
readers of the cap and two writers of facts; a cap of one, which both can pass; three
facts, so that a correction can replace a decision and be replaced; two chunks in one
tick, so that one is behind the other; two requests, a question and its correction or
a second question; one deletion, failure or reply without usage, of any kind and at any
time. Garbled replies, documents' chunks and changes of the list have no bound of their
own. The run has 925,349 states and takes two minutes.
The documents: three calls, enough for an upload, a re-upload and a deletion of the
same row, or three rows against a batch of two; three files (scanned, one with a NUL,
damaged) and two names of different kinds; one
outage or restart. The settings: two providers, one seeded, so that a default can be
adopted; two admins and one reader, so that any two of their steps interleave; two
calls; a memo of two ticks. The login: two clients and two threads; limits of two, so
that both locks are reached; five guesses; a table that holds one entry, so that it
overflows; a clock of seven, past two locks. The private questions: one person, two
groups, one thread and two reports under way, so that one can overtake the other;
settings that open and close a group; nothing is counted there, so the behaviours are
endless and deadlock is checked.
The theorems cover the rest for every number of each. Symmetry is used for the
clients and threads of the login, which has safety properties only; elsewhere
order matters among messages, or the members differ in what they wrote.
CHECK_DEADLOCK is off in the other runs because a bounded history ends: no message
arrives any more and the clock stands.

**Fairness.** The queue: the 10 s timer never stops (`core.js` 37) and a fetch
ends, by answer or by timeout, so `FlushStarts`, the continuation of a running flush
and that of a direct post are weakly fair. The app need not answer, ever. The
channel: the sync loop never ends (`index.js` 64-68) and each thing it awaits does;
posted reports arrive or fail; timers fire; WhatsApp opens or closes a connection
that is coming up. Nobody need scan a code. The store: time passes and the two loops tick, because `loop` (`main.py` 50-65) catches
whatever a tick raises and goes on. Nobody need send, erase or delete. The
answers: the extraction loop ticks, and a call of the model ends, by a reply or an
exception (`providers/http.py` sets a timeout); nobody need ask. A provider that
garbles the same chunk's reply each time keeps the loop there, in the model as in the
code: the property names it. The bound
on faults means that ticks fail finitely often, without which no tick need ever
succeed. `BecomesSearchable` also needs `PerTick` to exceed what waits in total: the
SELECT is ordered by group, so a group that refills the limit between ticks would
keep a later group waiting. With 5,000 rows a minute the code makes the same bet.

The documents: the loop ticks, and what it does to a row, and a call, end; nobody need
upload. A read may go on to fail each time, which settles the row; the bound on faults
means that outages end. The private questions: the supervisor's reports go out every
half minute (`index.js` 62-68) and a thread goes on with its question, both weakly fair;
a given list, reported again and again, is taken again and again (strong fairness:
not every report is lost). Nothing makes the connection reopen, people leave, or the
admin act. Settings and Login have safety properties only.

**Mutants.** Every property has a mutated definition of the code that breaks it
(a flag set by id alone, an episode closed too early, an append deferred, ...); they
stand in the modules beside the definition they change.

## 5. The proofs

`RetryQueueProofs`, for any number of messages, limits, poison and faults:
`QueueTypeOK`, `QueueNoSilentLoss`, `QueueDurable`, `QueueBounded`, and the refinement
`QueueDelivers`, in which each action is shown to be one of Delivery's, or a stutter. The invariant
`Inv` adds to them `HeadHeld` (outside the windows a flush's awaited message is
the head of the queue, so the shift after the await removes what was sent),
`Reached` and `Apart` (numbers not yet arrived are nowhere, and a direct post is
not queued as well). `HeadHeld` is why the overflow window has to be excepted: the
replaced array is what breaks it. The lemmas on Append, Tail and `Newest` say what
push and shift keep; each action has its own lemma.

`QueueNoOvertaking` has an invariant of its own, `Fifo`: each message is pushed once
(`Once`), and memory and file hold messages in the order in which they were pushed
(`InOrder`), through the shift after an await, the overflow's slice and a reload.
Lemmas on the order of a shortened and of a lengthened sequence carry it; that what was
pushed earlier and is missing is settled is `NoSilentLoss`.

`MessageStoreProofs`, for any history `Sent`, groups, windows and limits:
`StoreTypeOK`, `StoreIndexed`, `StoreErased`, `StoreEpisodes`, `StoreNoFragments`,
`StoreOptOutErasesTheRest`, `EpisodesLeaveNothingOut`. The invariant adds `OneGroup` (chunks
and episodes to come do not mix groups, without which an erasure in one group could
miss them), `WordsStored` (outside the windows they hold stored messages only) and
`ErasedGone`. The crux is `AffectedHoldsAll`: a chunk with a word of the member
spans that message's time, so while the message is stored the erasure finds the
chunk. `StoreIndexed` needs no window: whoever deletes a chunk clears the flags of
all it spans, or the chunk has expired and with it everything in it.

What `episodes()` computes is proved too, although the prover has no induction over
data. `Firsts` is a recursive function, so a `CHOOSE`; that such a function exists
(`FirstsExist`), and that the episode of each message so far is a stretch within the
limit (`FirstsStretch`), is shown by taking a least message for which it fails, which
the well-foundedness of `<` on the naturals gives. From there `EpisodesAreEpisodes`,
`SilenceFollows` and `EpisodesLeaveNothingOut` are about sets of numbers.
`StoreNoFragments` also needs `Timely` (no row is from the future: what closes an
episode by a later row closes it by the clock as well). The opt-out's invariant adds
`OnTheWay`: what is between check and insert has its excuse already.

`ChannelsProofs`, for any configurations, instances, changes and failures:
`ChannelsTypeOK`, `ChannelsNoStray`, and the refinement `ChannelsChangeHands`. The
invariant adds `Alone` (what is not at
rest runs or was stopped), `Reading` (what is about to open a socket runs or raced)
and `AtStep` (where `sync` waits fixes whether it has an instance, so that a start
never forgets one). The refinement needs `Held` besides (without an instance there is
no fingerprint, and what runs has not raced); `OneMoves` says what a step of one
instance does to the connections and the ghosts.

`AnswersProofs`, for any threads, members, texts, cap, tick, facts, chunks, questions
and events: the seven invariants of the run. `AnswersTypes` needs `Said` (only texts are
sent) and the account, since `due` falls when a call leaves it. `HistoriesEnd` and `CorrectionsStand`
rest on `FactsStep` (the table changes by one row added, or rows removed) and on
`Outranks`: what a correction replaced *points at it*, which survives later
replacements because only active facts can be replaced. `SpendingBounded` strengthens
the bound to `Committed`: what is spent, plus the requests past the check, plus the
calls the loop may still make in this tick; `Spends` says what one row more costs, and
`CallsAccounted`, from which the bound on `due` follows, counts the threads with an
answer in hand. `OptOutsForget` adds that no request of the forgotten is left but an
answer on its way (`Silent`), for any way in which the list grows and shrinks;
`ChatsForget` that what was deleted is gone or in the loop's hands
(`Gone`). `AskMoves` and `LoopMoves` say once where each step goes and what it does
to the account.

`DocumentsProofs`, for any files, names, groups, batch, operations and faults: the
type invariant, the three invariants of the run, and the refinement
`DocumentsKeepLibrary`. The invariant is one of a row at a time (`RowInv`): what the
loop has in hand waits; unless it was reset meanwhile, it is the row as the loop read
it, what waits is out of the index, and a kept text was read under the row's name.
`DocumentsRereadable` needs no window, as the bytes are dropped only together with the
text being kept. The refinement needs `Ahead` besides (calls and excuses are of
documents there have been, so a new row begins without an excuse); each action that
writes a row has a lemma that says which step of Library it is, and `StageMoves` and
`StageStays` carry them.

`SettingsProofs`, for any providers, seeds, caps, admins and operations:
`SettingsTypes`, `SettingsServeRecent`, `SettingsDefaultStands`. The second rests on
`Recent`: an entry, and what a reader holds, was false for at most as long as it is
old. The third on `Sound`: outside the windows, a call that breaks off included, one call runs at most (`OneCall`), the
memo it decides through is the database, and only a call that has changed a provider
and not yet seen to the default leaves a bad one (`Unsettled`).

`LoginProofs`, for any clients, threads and limits: `LoginTypes`,
`LoginRefusesForCause` and `LoginGuessesBounded`. The invariant says that an entry's count is at most the client's
failures since the last right password (`EntryTrue`), that a lock still in force was
set by the last of enough of them, and that the global count is at most the guesses
since its window began, the lock of everyone backed by `GLOBAL` of them (`GlobalTrue`).
Since a window is looked at in one step and counted in by another, it needs `Fresh` (no
check outlasts `Slow`) and `Renewed` (who is about to count does so in a window no older
than a `LOCK`, whoever began it meanwhile). `LoginGuessesBounded` says of every stretch,
by its first moment, where its guesses are accounted for (`Rationed`): the present
global count holds them all; or that count was begun in the stretch after one that did
not reach `GLOBAL`; or the lock of everyone was set in it, and only the threads already
past it can add theirs; or the stretch is over.

`PrivatelyProofs`, for any people, groups, forms, threads and candidates:
`PrivatelyTypes`, `PrivatelyAnswersMembers`, `PrivatelyKeepsGroupsApart`. What a thread
has read was so at some moment of its question (`Known`), and the history includes this
moment (`Seen`), so that what it reads next is in it.

Assumptions: one named ASSUME a module, types of the constants, the order of `Sent`, and
for Login that a check takes no longer than a `LOCK` (a minute), that the clock's bound
exceeds one, and that the threads are finitely many; ids are unique within a group
(migration 007). Every run evaluates its own.

**Only model-checked:** `Converges`, `AppSees`, `PairsAgain`, `QueueDrains`,
`BecomesSearchable`, `AgesOut`, `ChunksAreExtracted`, `Settles`, `ListDecides`: liveness
under fairness is out of the prover's reach, as is ENABLED. Every other property of a
passing run is proved. The type invariants of Channels, Documents and Privately are
proved, and no run checks them again.

## 6. Findings

Two have a run, `store_opt_out` and `privately_left`, quoted in `PROJECT.json`; eight have a
configuration to run by hand (section 4). Someone removed from a WhatsApp group is
answered about it until the connection is next opened, since nothing listens for changes
of its members; Slack relists on such events, but does not repeat a listing that
failed. An outage of `maxAttempts` ticks
moves messages to the dead-letter file. An overflow during a flush drops a message
unsent and unreported. WhatsApp's open handler reports connected after a stop. The
chunker writes the words of a message erased since it
read it. An `/ingest` in flight stores a message after the opt-out. A reply of the
model that is JSON of another shape is paid for and never logged, and its chunk is
tried and paid for again, for as long as that goes on. A chunk of a group's document is
pending extraction too (`documents/__init__.py` 114-119) and has no `start_ts`; `facts.py`
102 raises on it before the model is called, which is no refusal, so the tick ends there
every time, and that chunk and those behind it wait until the document goes (`docs/AUDIT.md`
A4, blocked extraction, is marked fixed). The throttle (`asking.py` 46, called in `main.py` 252)
logs question and sender before anyone looks at the opt-out list; of a private
question its row names no group, so that erasing a group leaves it. An extraction whose
reply reports no usage has no tokens and no cost (`facts.py` 118), where `answer.py` 76-77
estimates, so that the cap never counts it; the model's calls for scanned pages
(`read.py` 80) are neither checked nor logged. A `PUT /api/settings` that names only the cap leaves no default
provider, and every question is refused. Met on the way, without a run of their own: an `/ingest` in
flight leaves a message behind its group's deletion, in no retention window;
a correction is matched to its answer by text, so equal texts or a cleared log make it
replace other facts, or none; a fact that an extraction had replaced before the
correction came is not among those it replaces, and is active again when that
extraction's decision is removed; re-embedding a group extracts, and charges, all of it
again, and may bring back decisions that had been superseded; a question running
when its sender is erased is logged afterwards; an append after a cut
line loses the new message in the next crash; a stop during a reconnect's read leaves
a connection nobody closes, which goes on storing and answering; a reconnect that
throws is the last; a wish to pair again is dropped unless the channel is connected
when it arrives; two opt-outs at the same time keep only
the second; a crash between an opt-out's list and its purge leaves the messages, and
saving again purges nothing; a member opted in while a save that opts them out is between
its read and its write keeps what was stored in between; a tick whose LIMIT cuts an old
conversation writes its parts as two chunks; an import does not ask for `opt_out`; retention may
leave a chunk with words whose message is gone, which an erasure then cannot find;
a document whose text holds a NUL character is refused by the database with an error
that `_index` takes for an outage, so it stays pending, ends every tick, and keeps what
is behind it waiting; a PDF with some scanned pages loses those without a word, as only
one without any text is sent to the model; a file re-uploaded under another name while
the loop reads it is cited by the old one; "Make default" accepts a disabled provider;
after the last provider is deleted a restart seeds those of `.env` again; `auth.py` 16
and `SECURITY.md` speak of twenty wrong guesses a minute, while the fixed window lets
nearly forty pass; a thread that looked at an entry which another sweeps counts its
failure into a dict nobody reads, and one whose sweep meets a change of the table answers
with a 500; a message of the bot's that arrives between the chunker's UPDATE and its SELECT is
chunked like a member's; a failure between the write of a provider and `ensure_default`
(`admin_api.py` 90-95) leaves a disabled one the default until the next change or start.

## 7. Not modelled

**Real time.** `loop`'s pauses and `/health`'s alarm: the docstring calls the pause after
a failure growing, but for the hourly retention it shrinks to `MAX_BACKOFF`; the alarm
for the documents comes after 45 s, which a healthy tick with scanned pages exceeds; a
loop in back-off is called stalled. These are comparisons of constants, with no
interleaving a model would add to. **The count of the throttle per member** (`asking.py` 34-55) has
the check, sweep and count of the login, and promises less; the row it writes is in Answers. **Quiet hours**, splitting,
triggers: pure functions. **The other channels** share the supervisor's side of
Channels; their payloads, de-duplication and back-off lengths carry no shared state.
**The orderly shutdown** of the gateway beyond its last flush. **Sessions**, CSRF
tokens, flash messages: signed values without a state of the server. **The audit log**
is only appended to. **Statistics and rendering**, the wizard's pages, exports.

Out of scope for good: the cutting of uploads and exports into pieces, ranking and
embedding (numeric), HTTP to the model providers, the browser's code, evaluation
scripts, and migrations, which run once before anything else does. Line numbers in
`PROJECT.json` map every definition to its code.
