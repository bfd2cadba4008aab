----------------------------- MODULE TextSearch -----------------------------
(***************************************************************************)
(* Literal search (domain/text_search.py).  A query has no line break.     *)
(* With Match Case it is looked for as it is; without, line and query are  *)
(* case folded first, and since folding may make one character two, an     *)
(* occurrence in the folded line counts only when both its ends lie        *)
(* between characters of the line.  Offsets count from 0; a match runs     *)
(* from its first offset up to, but without, its second.                   *)
(***************************************************************************)
EXTENDS TextLines

CONSTANT Fold           \* the case folding of each character

ASSUME FoldingIsText ==
  /\ Fold \in [Chars -> UNION {[1 .. n -> Chars] : n \in 1 .. 3}]
  /\ Fold[Newline] = <<Newline>>
  /\ \A c \in Chars \ {Newline} : \A i \in DOMAIN Fold[c] : Fold[c][i] # Newline

NoMatch == <<NotFound, NotFound>>

Final(S) == IF S = {} THEN NotFound ELSE Max(S)

(* Where a query lies in a text.                                           *)
Occurrences(t, q) == {i \in 0 .. Len(t) - Len(q) : SubSeq(t, i + 1, i + Len(q)) = q}

MatchOf(start, q) == IF start = NotFound THEN NoMatch ELSE <<start, start + Len(q)>>

-----------------------------------------------------------------------------
(* Folded lines.                                                           *)

Folded(t) == FlattenSeq([i \in DOMAIN t |-> Fold[t[i]]])

FoldedStart(line, k) == Len(Folded(SubSeq(line, 1, k)))

FoldedEnd(line, k) == FoldedStart(line, k + 1)

(* The characters that do not fold to one.                                 *)
Expansions(line) == {k \in 0 .. Len(line) - 1 : Len(Fold[line[k + 1]]) # 1}

LooseBehind(line, offset, k) ==     \* mutant: inside an expansion is taken for its start
  IF k = NotFound THEN offset
  ELSE IF offset < FoldedEnd(line, k) THEN k
  ELSE offset - FoldedEnd(line, k) + k + 1

(* The offset in the line of an offset in the folded line that lies behind *)
(* the start of expansion k, if there is one.                              *)
SourceBehind(line, offset, k) ==
  IF k = NotFound THEN offset
  ELSE IF offset = FoldedStart(line, k) THEN k
  ELSE IF offset < FoldedEnd(line, k) THEN NotFound
  ELSE offset - FoldedEnd(line, k) + k + 1

SourceBoundary(line, offset) ==
  SourceBehind(line, offset, Final({k \in Expansions(line) : FoldedStart(line, k) =< offset}))

(* And the other way round.                                                *)
FoldedBehind(line, offset, k) ==
  IF k = NotFound THEN offset ELSE offset + FoldedEnd(line, k) - (k + 1)

FoldedBoundary(line, offset) ==
  FoldedBehind(line, offset, Final({k \in Expansions(line) : k + 1 =< offset}))

SourceMatch(line, fq, start) ==
  <<SourceBoundary(line, start), SourceBoundary(line, start + Len(fq))>>

(* Occurrences of a folded query that are whole characters of the line.    *)
IsWhole(match) == match[1] # NotFound /\ match[2] # NotFound /\ match[1] < match[2]

FoldedStarts(line, fq) ==
  {i \in Occurrences(Folded(line), fq) : IsWhole(SourceMatch(line, fq, i))}

SourceMatchOf(line, fq, start) == IF start = NotFound THEN NoMatch ELSE SourceMatch(line, fq, start)

FoldedFindForward(line, fq, from) ==
  SourceMatchOf(line, fq, First({i \in FoldedStarts(line, fq) : i >= FoldedBoundary(line, from)}))

FoldedFindBackward(line, fq, stop) ==
  SourceMatchOf(line, fq,
    Final({i \in FoldedStarts(line, fq) : i + Len(fq) =< FoldedBoundary(line, stop)}))

-----------------------------------------------------------------------------
(* The first and the last of some matches.                                 *)
Leftmost(S) ==
  IF S \subseteq {NoMatch} THEN NoMatch
  ELSE CHOOSE m \in S \ {NoMatch} : \A n \in S \ {NoMatch} : m[1] =< n[1]

Rightmost(S) ==
  IF S \subseteq {NoMatch} THEN NoMatch ELSE CHOOSE m \in S : \A n \in S : n[1] =< m[1]

Shifted(match, start) == IF match = NoMatch THEN NoMatch ELSE <<match[1] + start, match[2] + start>>

-----------------------------------------------------------------------------
(* Find Next and Find Previous, first without a wrap: line after line.     *)

FoldedNext(t, q, from) ==
  LET here == LineStart(t, from)
      InLine(s) == FoldedFindForward(Line(t, s), Folded(q), IF s = here THEN from - here ELSE 0)
  IN  Leftmost({Shifted(InLine(s), s) : s \in {l \in LineStarts(t) : l >= here}})

FoldedPrevious(t, q, stop) ==
  LET here == LineStart(t, stop)
      InLine(s) ==
        FoldedFindBackward(Line(t, s), Folded(q), IF s = here THEN stop - here ELSE Len(Line(t, s)))
  IN  Rightmost({Shifted(InLine(s), s) : s \in {l \in LineStarts(t) : l =< here}})

ExactNext(t, q, from) == MatchOf(First({i \in Occurrences(t, q) : i >= from}), q)

ExactPrevious(t, q, stop) == MatchOf(Final({i \in Occurrences(t, q) : i + Len(q) =< stop}), q)

OrElse(match, other) == IF match # NoMatch THEN match ELSE other

WrappedBefore(match, from) == IF from > 0 /\ match[1] < from THEN match ELSE NoMatch

WrappedBehind(match, stop) == IF match[2] > stop THEN match ELSE NoMatch

(* The wrap: without Match Case the whole text again, with it only the     *)
(* part before (or behind) the offset.                                     *)
FindNext(t, q, from, case) ==
  IF case
  THEN OrElse(ExactNext(t, q, from),
              WrappedBefore(MatchOf(First({i \in Occurrences(t, q) : i + Len(q) =< from}), q), from))
  ELSE OrElse(FoldedNext(t, q, from), WrappedBefore(FoldedNext(t, q, 0), from))

FindPrevious(t, q, stop, case) ==
  IF case
  THEN OrElse(ExactPrevious(t, q, stop),
              WrappedBehind(MatchOf(Final({i \in Occurrences(t, q) : i >= stop}), q), stop))
  ELSE OrElse(FoldedPrevious(t, q, stop), WrappedBehind(FoldedPrevious(t, q, Len(t)), stop))

IsExactMatch(t, q, start, stop, case) ==
  LET selected == TextInRange(t, start, stop)
  IN  /\ selected # <<>> /\ \A i \in DOMAIN selected : selected[i] # Newline
      /\ IF case THEN selected = q ELSE Folded(selected) = Folded(q)

-----------------------------------------------------------------------------
(* All matches, from left to right, none overlapping the one before.       *)

InLineMatches(line, fq) ==
  LET starts == LeftToRight(FoldedStarts(line, fq), Len(fq))
  IN  [i \in DOMAIN starts |-> SourceMatch(line, fq, starts[i])]

FoldedMatches(t, q) ==
  LET starts == Ascending(LineStarts(t))
      InLine(s) == LET found == InLineMatches(Line(t, s), Folded(q))
                   IN  [i \in DOMAIN found |-> Shifted(found[i], s)]
  IN  FlattenSeq([i \in DOMAIN starts |-> InLine(starts[i])])

ExactMatches(t, q) ==
  LET starts == LeftToRight(Occurrences(t, q), Len(q))
  IN  [i \in DOMAIN starts |-> MatchOf(starts[i], q)]

FindAll(t, q, case) == IF case THEN ExactMatches(t, q) ELSE FoldedMatches(t, q)
=============================================================================
