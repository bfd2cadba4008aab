-------------------------- MODULE MCEditorSession --------------------------
(***************************************************************************)
(* Values for the constants of EditorSession: two letters of a word, and a *)
(* newline, which ends one and carries the line ending.                    *)
(***************************************************************************)
EXTENDS EditorSession

MCChars == {"a", "b", "n"}
MCCharClass == [c \in MCChars |-> IF c = "n" THEN "newline" ELSE "word"]

(* For the journal: a document and a word typed into it, of two letters, so*)
(* that deltas of different texts are joined and their order shows.        *)
JournalDocuments == {<<"b">>}
JournalTyping == {<<"a">>}

(* For representations: a document whose two line endings may be mixed;    *)
(* deleting leaves one of them or none.                                    *)
RepresentationDocuments == {<<"n", "n">>}
RepresentationTyping == {<<"n">>}
=============================================================================
