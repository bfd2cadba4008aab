---------------------------- MODULE EditorBuffer ----------------------------
(***************************************************************************)
(* The text surface that delta replay works on: GTK text seen as a         *)
(* sequence of characters, and the operations of                           *)
(* adapters/gtk/editor_buffer.py on it.  An operation inserts a text at an *)
(* offset, or deletes an expected text from one; a list of operations is   *)
(* applied from left to right, and an interrupted list is undone by the    *)
(* inverses of what was applied, newest first.  Offsets count from 0.      *)
(***************************************************************************)
EXTENDS Integers, Sequences, SequencesExt

CONSTANT Chars          \* the characters a document is made of

Texts == Seq(Chars)

ReplayOperation == [kind : {"insert", "delete"}, at : Nat, text : Texts]

Insertion(offset, text) == [kind |-> "insert", at |-> offset, text |-> text]

Deletion(offset, text) == [kind |-> "delete", at |-> offset, text |-> text]

(* GTK takes an offset behind the end as the end.                          *)
Clamped(t, offset) == IF offset > Len(t) THEN Len(t) ELSE offset

(* The characters from offset on, up to but without stop.                  *)
TextInRange(t, offset, stop) == SubSeq(t, Clamped(t, offset) + 1, Clamped(t, stop))

(* An insertion always succeeds; a deletion only finds what it expects.    *)
Applies(t, op) ==
  op.kind = "delete" => TextInRange(t, op.at, op.at + Len(op.text)) = op.text

ApplyOperation(t, op) ==
  LET before == TextInRange(t, 0, op.at)
  IN  IF op.kind = "insert"
      THEN before \o op.text \o TextInRange(t, op.at, Len(t))
      ELSE before \o TextInRange(t, op.at + Len(op.text), Len(t))

InverseOf(op) ==
  IF op.kind = "insert" THEN Deletion(op.at, op.text) ELSE Insertion(op.at, op.text)

Inverses(ops) == Reverse([i \in DOMAIN ops |-> InverseOf(ops[i])])

(* The texts a list of operations goes through, from none applied to all.  *)
AfterEach(t, ops) ==
  LET after[k \in 0 .. Len(ops)] ==
        IF k = 0 THEN t ELSE ApplyOperation(after[k - 1], ops[k])
  IN  after

(* The text after the first k operations of ops.                           *)
AfterFirst(t, ops, k) == AfterEach(t, ops)[k]

ApplyOperations(t, ops) == AfterFirst(t, ops, Len(ops))

FirstApply(t, ops, k) == \A j \in 1 .. k : Applies(AfterFirst(t, ops, j - 1), ops[j])

AllApply(t, ops) == FirstApply(t, ops, Len(ops))

NotRolledBack(t, ops, k) == AfterFirst(t, ops, k)   \* mutant: no inverse replay

(* apply_operations interrupted after k operations: the handler replays    *)
(* the inverses of the applied ones.                                       *)
RolledBack(t, ops, k) ==
  ApplyOperations(AfterFirst(t, ops, k), Inverses(SubSeq(ops, 1, k)))
=============================================================================
