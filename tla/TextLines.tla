----------------------------- MODULE TextLines -----------------------------
(***************************************************************************)
(* The lines of a text and the limit on their width under which the       *)
(* editor takes it (application/renderability.py).  A line is named by     *)
(* the offset it starts at; it ends before its line break, or with the     *)
(* text.                                                                   *)
(***************************************************************************)
EXTENDS EditorBuffer

CONSTANTS
  Newline,        \* the character between lines
  MaxLine         \* MAX_INTERACTIVE_LINE_CHARS

ASSUME LinesAreSet == Newline \in Chars /\ MaxLine \in Nat \ {0}

NotFound == -1

First(S) == IF S = {} THEN NotFound ELSE Min(S)

OverlappingStarts(starts, length) ==      \* mutant: go on at the next offset
  SetToSortSeq(starts, <)

(* Offsets from left to right, each at least a length behind the one       *)
(* before: what scanning a text finds that goes on behind what it found.   *)
LeftToRight(starts, length) ==
  LET from[c \in Nat] ==
        LET i == First({s \in starts : s >= c})
        IN  IF i = NotFound THEN <<>> ELSE <<i>> \o from[i + length]
  IN  from[0]

Ascending(offsets) == LeftToRight(offsets, 1)

-----------------------------------------------------------------------------
Breaks(t) == {i \in 0 .. Len(t) - 1 : t[i + 1] = Newline}

LineStarts(t) == {0} \cup {i + 1 : i \in Breaks(t)}

LineStart(t, offset) == Max({s \in LineStarts(t) : s =< offset})

LineEnd(t, offset) == Min({Len(t)} \cup {i \in Breaks(t) : i >= offset})

Line(t, start) == TextInRange(t, start, LineEnd(t, start))

Renderable(t) == \A s \in LineStarts(t) : LineEnd(t, s) - s =< MaxLine

(* GTK's forward_to_line_end: at the end of a line it goes to the next.    *)
ForwardToLineEnd(t, offset) ==
  IF offset \in Breaks(t) THEN LineEnd(t, offset + 1) ELSE LineEnd(t, offset)

FitsBefore(t, at, inserted) ==      \* mutant: what is behind the insertion is forgotten
  LineEnd(inserted, 0) + at - LineStart(t, at) =< MaxLine

(* The guard of a native insertion: the first inserted line together with  *)
(* what is before it, the last with what GTK finds behind it.              *)
InsertFits(t, at, inserted) ==
  LET prefix == at - LineStart(t, at)
      suffix == ForwardToLineEnd(t, at) - at
      Width(s) == LineEnd(inserted, s) - s + (IF s = 0 THEN prefix ELSE 0)
                    + (IF LineEnd(inserted, s) = Len(inserted) THEN suffix ELSE 0)
  IN  \A s \in LineStarts(inserted) : Width(s) =< MaxLine

(* The guard of a native deletion that joins two lines.                    *)
DeleteFits(t, lo, hi) ==
  LineStart(t, lo) # LineStart(t, hi) =>
    lo - LineStart(t, lo) + ForwardToLineEnd(t, hi) - hi =< MaxLine
=============================================================================
