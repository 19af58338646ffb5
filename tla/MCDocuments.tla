---------------------------- MODULE MCDocuments ----------------------------
(* A few files, and the names they are uploaded under. *)
EXTENDS Documents

Content(pages, damaged, huge, nul) ==
    [pages |-> pages, damaged |-> damaged, huge |-> huge, nul |-> nul]

Scan == Content(<<"bare", "bare">>, FALSE, FALSE, FALSE)  \* a model call a page
Glyphs == Content(<<"text">>, FALSE, FALSE, TRUE)         \* a NUL in its text
Broken == Content(<<>>, TRUE, FALSE, FALSE)

MCFiles == {Scan, Glyphs, Broken}
MCNames == {[tag |-> "a", kind |-> "pdf"], [tag |-> "b", kind |-> "sheet"]}
=============================================================================
