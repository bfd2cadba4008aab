--------------------------- MODULE SnapshotEditor ---------------------------
(***************************************************************************)
(* What the editor core promises its user, with no deltas, identities or   *)
(* checkpoints in sight: a document, the versions undo returns to, the     *)
(* versions redo returns to, what the accepted file holds, and whether the *)
(* title bar says Saved.                                                   *)
(***************************************************************************)
EXTENDS Integers, Sequences, SequencesExt

CONSTANT Versions           \* the texts a document can hold

VARIABLES doc, past, future, saved, clean

vars == <<doc, past, future, saved, clean>>

(* Saved is shown only over the accepted text.                             *)
MayBeClean(isClean) == isClean => doc' = saved'

Init ==
  /\ doc = <<>> /\ saved = <<>>
  /\ past = <<>> /\ future = <<>>
  /\ clean \in BOOLEAN

(* An edit goes after the current version, or extends the newest edit if   *)
(* the current version is not the saved one; the oldest versions may be    *)
(* forgotten, the newest never.                                            *)
Edit ==
  /\ doc' \in Versions
  /\ \E kept \in {Append(past, doc)} \cup (IF past # <<>> /\ ~clean THEN {past} ELSE {}) :
       \E k \in 1 .. Len(kept) : past' = SubSeq(kept, k, Len(kept))
  /\ future' = <<>>
  /\ clean' = FALSE
  /\ saved' = saved

Undo ==
  /\ past # <<>>
  /\ doc' = Last(past)
  /\ past' = Front(past)
  /\ future' = Append(future, doc)
  /\ saved' = saved
  /\ clean' \in BOOLEAN /\ MayBeClean(clean')

Redo ==
  /\ future # <<>>
  /\ doc' = Last(future)
  /\ future' = Front(future)
  /\ past' = Append(past, doc)
  /\ saved' = saved
  /\ clean' \in BOOLEAN /\ MayBeClean(clean')

(* Save, and choosing a representation.                                    *)
Keep ==
  /\ saved' \in {saved, doc}
  /\ clean' \in BOOLEAN /\ MayBeClean(clean')
  /\ UNCHANGED <<doc, past, future>>

Replace ==
  /\ doc' \in Versions /\ saved' \in Versions
  /\ past' = <<>> /\ future' = <<>>
  /\ clean' \in BOOLEAN /\ MayBeClean(clean')

Next == Edit \/ Undo \/ Redo \/ Keep \/ Replace

Spec == Init /\ [][Next]_vars
=============================================================================
