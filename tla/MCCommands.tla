----------------------------- MODULE MCCommands -----------------------------
(* Two imports into one folder: an mbox file of a message with From lines, *)
(* bare and quoted, whose last line has no newline, of one without         *)
(* Message-ID that has a line too long to export, and of one with a line   *)
(* that is too long to import once it is quoted; and a Maildir folder with *)
(* the first message as it comes back from an mbox.                        *)
EXTENDS Commands

CONSTANTS i1, i2

Line(is, quotes, size) == [is |-> is, quotes |-> quotes, size |-> size, cr |-> TRUE, nl |-> TRUE]

Quoting == <<Line("a", 0, 1), Line("other", 0, 0), Line("from", 0, 1), Line("from", 2, 1),
             [Line("other", 0, 1) EXCEPT !.nl = FALSE]>>
Long    == <<Line("none", 0, 1), Line("from", 1, 1), Line("other", 0, 0), Line("other", 0, 5), Line("other", 0, 1)>>
Full    == <<Line("none", 0, 1), [Line("from", 0, 4) EXCEPT !.cr = FALSE], Line("other", 0, 1)>>
Entry(regular, text) == [regular |-> regular, text |-> text]

TwoFolders == <<"f", "g">>
TwoSources ==
    i1 :> [type |-> "mbox", path |-> <<Quoting, Long, Full>>] @@
    i2 :> [type |-> "maildir",
           path |-> [cur |-> <<Entry(FALSE, Long)>>, new |-> <<Entry(TRUE, Lines(Quoting))>>]]
Targets == i1 :> "g" @@ i2 :> "g"
=============================================================================
