----------------------------- MODULE SearchPlans -----------------------------
(***************************************************************************)
(* The search commands (application/search.py and the handlers of the      *)
(* window that give them the caret): what Find Next and Find Previous      *)
(* select, and the plans of Replace and Replace All.  A search is a query, *)
(* a replacement and whether to match case.                                *)
(***************************************************************************)
EXTENDS TextSearch, EditPlans

SelectedMatch(match) == [ins |-> match[2], bound |-> match[1]]

(* Searching goes on behind the selection, or before it.                   *)
NextMatch(t, view, search) == FindNext(t, search.query, High(view), search.case)

PreviousMatch(t, view, search) == FindPrevious(t, search.query, Low(view), search.case)

Found(match, view) == IF match = NoMatch THEN view ELSE SelectedMatch(match)

-----------------------------------------------------------------------------
(* Replace: the selection if it is a match, else the next match; then the  *)
(* match after the replacement is selected.                                *)

ReplacedMatch(t, view, search) ==
  IF IsExactMatch(t, search.query, Low(view), High(view), search.case)
  THEN <<Low(view), High(view)>>
  ELSE NextMatch(t, view, search)

NextInOldText(t, final, match, search) ==       \* mutant: the next match of the old text
  Found(FindNext(t, search.query, match[2], search.case),
        Caret(match[1] + Len(search.replacement)))

(* Where Replace looks next in the text it leaves.                         *)
AfterReplacement(t, final, match, search) ==
  LET end == match[1] + Len(search.replacement)
  IN  Found(FindNext(final, search.query, end, search.case), Caret(end))

Replacing(t, view, search, match) ==
  LET final == Spliced(t, match[1], match[2], search.replacement)
  IN  IF match = NoMatch THEN NoChange(t, view)
      ELSE IF final = t THEN NoChange(t, AfterReplacement(t, t, match, search))
      ELSE ReplacePlan(t, view, match[1], match[2], search.replacement,
                       AfterReplacement(t, final, match, search))

ReplaceOnePlan(t, view, search) == Replacing(t, view, search, ReplacedMatch(t, view, search))

-----------------------------------------------------------------------------
(* Replace All.  Matches that read like the replacement stay as they are   *)
(* but still move the view.                                                *)

Changed(t, matches, replacement) ==
  {i \in DOMAIN matches : TextInRange(t, matches[i][1], matches[i][2]) # replacement}

ReplacingAll(t, view, search, matches) ==
  IF \/ search.case /\ search.query = search.replacement
     \/ Len(matches) > MaxSpans
     \/ Changed(t, matches, search.replacement) = {}
  THEN NoChange(t, view)
  ELSE Accepted(t, view, [final |-> SplicedAll(t, matches, search.replacement),
                          ops |-> OperationsDescending(t, matches, search.replacement),
                          view |-> MappedView(view, matches, search.replacement)])

ReplaceAllPlan(t, view, search) ==
  ReplacingAll(t, view, search, FindAll(t, search.query, search.case))
=============================================================================
