--------------------------- MODULE MCMessageStore ---------------------------
(* Small histories for MessageStore. *)
EXTENDS MessageStore

Row(g, i, s, t, skip, imported) ==
    [group |-> g, id |-> i, sender |-> s, ts |-> t, skip |-> skip, imported |-> imported]

\* An episode of two members, and another group where the same id occurs later.
MCSent == <<
    Row("g", "a", "ann", 0, FALSE, FALSE),
    Row("g", "b", "bob", 1, FALSE, FALSE),
    Row("h", "a", "bob", 1, FALSE, TRUE) >>

\* Two groups, one of which keeps its messages, and an answer of the bot's.
MCTwo == <<
    Row("g", "a", "ann", 0, FALSE, FALSE),
    Row("h", "a", "bob", 0, FALSE, TRUE),
    Row("h", "b", "bot", 1, TRUE, FALSE) >>

\* A conversation with a burst, a pause and a silence, and the bot in it.
MCTalk == <<
    Row("g", "a", "ann", 0, FALSE, FALSE),
    Row("g", "b", "bob", 0, FALSE, FALSE),
    Row("g", "c", "bot", 1, TRUE, FALSE),
    Row("g", "d", "ann", 1, FALSE, FALSE),
    Row("g", "e", "bob", 3, FALSE, FALSE) >>
\* Two members, and a message of one of them in an export.
MCMembers == <<
    Row("g", "a", "ann", 0, FALSE, FALSE),
    Row("g", "b", "bob", 0, FALSE, FALSE),
    Row("g", "c", "ann", 0, FALSE, TRUE) >>
=============================================================================
