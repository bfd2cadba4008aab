---------------------------- MODULE TextTransform ----------------------------
(***************************************************************************)
(* The planners of application/text_transform.py: case, Duplicate, Move    *)
(* Lines and Trim Trailing Spaces.  The empty line that a final line break *)
(* leaves at the end is no line of theirs.                                 *)
(***************************************************************************)
EXTENDS EditPlans

CONSTANTS
  Upper,          \* the upper case of each character
  Lower,          \* the lower case of each character
  Blanks          \* space and tab

ASSUME CasesAreText ==
  /\ Upper \in [Chars -> UNION {[1 .. n -> Chars] : n \in 1 .. 3}]
  /\ Lower \in [Chars -> UNION {[1 .. n -> Chars] : n \in 1 .. 3}]

ASSUME BlanksAreChars == Blanks \subseteq Chars \ {Newline}

-----------------------------------------------------------------------------
(* Uppercase and Lowercase.                                                *)

Recased(t, view, cased) ==
  LET text == FlattenSeq([i \in DOMAIN Selected(t, view) |-> cased[Selected(t, view)[i]]])
  IN  IF ~HasSelection(view) THEN NoChange(t, view)
      ELSE ReplacePlan(t, view, Low(view), High(view), text,
                       DirectedView(view, Low(view), Low(view) + Len(text)))

-----------------------------------------------------------------------------
(* Real lines.                                                             *)

RealLines(t) == {0} \cup {s \in LineStarts(t) : s < Len(t)}

FullEnd(t, s) == IF LineEnd(t, s) < Len(t) THEN LineEnd(t, s) + 1 ELSE Len(t)

LineOfChar(t, offset) == Max({s \in RealLines(t) : s =< offset})

BehindFinalBreak(t, offset) == offset = Len(t) /\ t # <<>> /\ Last(t) = Newline

(* The first and the last line of the selection, or of the caret.          *)
NoScope == <<>>

Scope(t, view) ==
  IF HasSelection(view) THEN <<LineOfChar(t, Low(view)), LineOfChar(t, High(view) - 1)>>
  ELSE IF BehindFinalBreak(t, view.ins) THEN NoScope
  ELSE <<LineOfChar(t, view.ins), LineOfChar(t, view.ins)>>

-----------------------------------------------------------------------------
(* Duplicate: the selection behind itself, else the line below itself with *)
(* the caret in the same column.                                           *)

Duplicate(t, view) ==
  LET line == LineOfChar(t, view.ins)
      stop == FullEnd(t, line)
      terminated == LineEnd(t, line) < Len(t)
      copy == IF terminated THEN TextInRange(t, line, stop) ELSE <<Newline>> \o Line(t, line)
      copyStart == IF terminated THEN stop ELSE stop + 1
      selected == Selected(t, view)
  IN  IF HasSelection(view)
      THEN InsertPlan(t, view, High(view), selected,
                      DirectedView(view, High(view), High(view) + Len(selected)))
      ELSE IF BehindFinalBreak(t, view.ins)
      THEN InsertPlan(t, view, Len(t), <<Newline>>, Caret(Len(t) + 1))
      ELSE InsertPlan(t, view, stop, copy,
                      Caret(Min({copyStart + view.ins - line, Len(t) + Len(copy)})))

-----------------------------------------------------------------------------
(* Move Lines: the lines of the scope and the line above, or below, change *)
(* places; whether the last of them ends in a line break stays.            *)

Joined(t, region, above, below) ==
  above \o <<Newline>> \o below \o (IF t[region[2]] = Newline THEN <<Newline>> ELSE <<>>)

MovedWithoutItsEnd(t, offset, view, block, shift, blockEnd) ==
                                          \* mutant: the end of the selection stays behind
  IF block[1] =< offset /\ offset =< LineEnd(t, block[2]) THEN offset + shift ELSE offset

MovedTo(t, offset, view, block, shift, blockEnd) ==
  IF HasSelection(view) /\ offset = FullEnd(t, block[2]) THEN blockEnd
  ELSE IF block[1] =< offset /\ offset =< LineEnd(t, block[2]) THEN offset + shift
  ELSE offset

MovedView(t, view, block, shift, blockEnd) ==
  [ins |-> MovedTo(t, view.ins, view, block, shift, blockEnd),
   bound |-> MovedTo(t, view.bound, view, block, shift, blockEnd)]

BlockText(t, block) == TextInRange(t, block[1], LineEnd(t, block[2]))

UpPast(t, view, block, neighbor) ==
  LET region == <<neighbor, FullEnd(t, block[2])>>
      blockEnd == neighbor + Len(BlockText(t, block)) + 1
  IN  ReplacePlan(t, view, region[1], region[2],
                  Joined(t, region, BlockText(t, block), Line(t, neighbor)),
                  MovedView(t, view, block, neighbor - block[1], blockEnd))

DownPast(t, view, block, neighbor) ==
  LET region == <<block[1], FullEnd(t, neighbor)>>
  IN  ReplacePlan(t, view, region[1], region[2],
                  Joined(t, region, Line(t, neighbor), BlockText(t, block)),
                  MovedView(t, view, block, Len(Line(t, neighbor)) + 1, region[2]))

MoveUp(t, view) ==
  LET block == Scope(t, view)
      above == {s \in RealLines(t) : s < block[1]}
  IN  IF block = NoScope \/ above = {} THEN NoChange(t, view)
      ELSE UpPast(t, view, block, Max(above))

MoveDown(t, view) ==
  LET block == Scope(t, view)
      below == {s \in RealLines(t) : s > block[2]}
  IN  IF block = NoScope \/ below = {} THEN NoChange(t, view)
      ELSE DownPast(t, view, block, Min(below))

-----------------------------------------------------------------------------
(* Trim Trailing Spaces: on the lines of the selection, or on all.         *)

RunOffByOne(t, s) ==                       \* mutant: one character too many
  LET end == LineEnd(t, s)
  IN  <<Min({k \in s .. end : \A i \in k + 2 .. end : t[i] \in Blanks}), end>>

TrailingRun(t, s) ==
  LET end == LineEnd(t, s)
  IN  <<Min({k \in s .. end : \A i \in k + 1 .. end : t[i] \in Blanks}), end>>

TrimmedLines(t, view) ==
  IF HasSelection(view)
  THEN {s \in RealLines(t) : Scope(t, view)[1] =< s /\ s =< Scope(t, view)[2]}
  ELSE RealLines(t)

Runs(t, view) ==
  LET HasRun(s) == TrailingRun(t, s)[1] < TrailingRun(t, s)[2]
      lines == Ascending({s \in TrimmedLines(t, view) : HasRun(s)})
  IN  [i \in DOMAIN lines |-> TrailingRun(t, lines[i])]

Trim(t, view) ==
  LET runs == Runs(t, view)
  IN  IF runs = <<>> \/ Len(runs) > MaxSpans THEN NoChange(t, view)
      ELSE Accepted(t, view, [final |-> SplicedAll(t, runs, <<>>),
                              ops |-> OperationsDescending(t, runs, <<>>),
                              view |-> MappedView(view, runs, <<>>)])
=============================================================================
