------------------------------ MODULE EditPlans ------------------------------
(***************************************************************************)
(* What Replace, Replace All and the text transformations have in common:  *)
(* a plan made from the text and the view, which apply_prevalidated_       *)
(* programmatic_group then applies.  A plan has the final text that was    *)
(* checked for width, the operations that are to produce it, and the view  *)
(* to be shown.  A view is the caret and the other end of the selection.   *)
(***************************************************************************)
EXTENDS TextLines

CONSTANTS
  MaxPayload,     \* DEFAULT_MAX_HISTORY_PAYLOAD_CHARS
  MaxSpans        \* MAX_REPLACE_ALL_MATCHES and MAX_TRANSFORM_CHANGED_SPANS

ASSUME PlanBounds == MaxPayload \in Nat /\ MaxSpans \in Nat

ViewsOf(t) == [ins : 0 .. Len(t), bound : 0 .. Len(t)]

Caret(offset) == [ins |-> offset, bound |-> offset]

Low(view) == Min({view.ins, view.bound})

High(view) == Max({view.ins, view.bound})

HasSelection(view) == view.ins # view.bound

Selected(t, view) == TextInRange(t, Low(view), High(view))

DirectedView(view, lo, hi) ==
  IF view.ins > view.bound THEN [ins |-> hi, bound |-> lo] ELSE [ins |-> lo, bound |-> hi]

-----------------------------------------------------------------------------
NoChange(t, view) == [final |-> t, ops |-> <<>>, view |-> view]

Payload(ops) == Len(FlattenSeq([i \in DOMAIN ops |-> ops[i].text]))

(* A plan with too large a payload or too wide a line raises: nothing      *)
(* changes but a warning.                                                  *)
Accepted(t, view, plan) ==
  IF Payload(plan.ops) =< MaxPayload /\ Renderable(plan.final) THEN plan ELSE NoChange(t, view)

(* A text inserted or deleted, unless it is empty.                         *)
InsertingAt(offset, text) == IF text = <<>> THEN <<>> ELSE <<Insertion(offset, text)>>

DeletingAt(offset, text) == IF text = <<>> THEN <<>> ELSE <<Deletion(offset, text)>>

Spliced(t, start, stop, text) ==
  TextInRange(t, 0, start) \o text \o TextInRange(t, stop, Len(t))

ReplacePlan(t, view, start, stop, text, target) ==
  LET original == TextInRange(t, start, stop)
  IN  IF original = text THEN NoChange(t, view)
      ELSE Accepted(t, view, [final |-> Spliced(t, start, stop, text),
                              ops |-> DeletingAt(start, original) \o InsertingAt(start, text),
                              view |-> target])

InsertPlan(t, view, at, text, target) == ReplacePlan(t, view, at, at, text, target)

(* Several ranges, from left to right, each replaced by a text; operations *)
(* come from right to left so that none moves the ranges still to come.    *)
(* A range that reads like the text already stays as it is.                *)
Cursor(ranges, k) == IF k = 0 THEN 0 ELSE ranges[k][2]

Pieces(t, ranges, text) ==
  [i \in DOMAIN ranges |-> TextInRange(t, Cursor(ranges, i - 1), ranges[i][1]) \o text]

SplicedAll(t, ranges, text) ==
  FlattenSeq(Pieces(t, ranges, text)) \o TextInRange(t, Cursor(ranges, Len(ranges)), Len(t))

OperationsAt(t, range, text) ==
  LET original == TextInRange(t, range[1], range[2])
  IN  IF original = text THEN <<>> ELSE DeletingAt(range[1], original) \o InsertingAt(range[1], text)

OperationsFor(t, ranges, text) ==
  FlattenSeq([i \in DOMAIN ranges |-> OperationsAt(t, ranges[i], text)])

OperationsAscending(t, ranges, text) == OperationsFor(t, ranges, text)
                                                \* mutant: left to right

OperationsDescending(t, ranges, text) == OperationsFor(t, Reverse(ranges), text)

UnmovedOffset(offset, ranges, text) == offset        \* mutant: the view is not mapped

(* How much longer the text is behind the first k ranges.                  *)
Growth(ranges, text) ==
  LET delta[k \in 0 .. Len(ranges)] ==
        IF k = 0 THEN 0 ELSE delta[k - 1] + Len(text) - (ranges[k][2] - ranges[k][1])
  IN  delta

(* Where an offset goes when the ranges are replaced by a text: one inside *)
(* the first range that does not end before it goes to that range's end.   *)
MappedOffset(offset, ranges, text) ==
  LET k == Max({0} \cup {i \in DOMAIN ranges : ranges[i][2] < offset})
      delta == Growth(ranges, text)[k]
  IN  IF k < Len(ranges) /\ ranges[k + 1][1] < offset
      THEN ranges[k + 1][1] + delta + Len(text)
      ELSE offset + delta

MappedView(view, ranges, text) ==
  [ins |-> MappedOffset(view.ins, ranges, text), bound |-> MappedOffset(view.bound, ranges, text)]

(* apply_operations undoes everything when an operation does not apply.    *)
Result(t, plan) == IF AllApply(t, plan.ops) THEN ApplyOperations(t, plan.ops) ELSE t
=============================================================================
