---------------------------- MODULE TextCommands ----------------------------
(***************************************************************************)
(* What the user does to a text between two saves: moves the caret, types  *)
(* and deletes under the guards of the window, searches, replaces, and     *)
(* transforms.  Every command reads text and view, plans, and applies the  *)
(* plan at once; the journal and the session they go through are those of  *)
(* EditorSession.                                                          *)
(***************************************************************************)
EXTENDS SearchPlans, TextTransform, Serialization

CONSTANTS
  Documents,      \* bound: the texts looked at
  Queries,        \* bound: the queries
  Replacements,   \* bound: the replacements
  Pasted          \* bound: the texts inserted natively

ASSUME SettingsAreSingleLines ==
  /\ Documents \subseteq Texts
  /\ Pasted \subseteq Texts \ {<<>>}
  /\ \A q \in Queries \cup Replacements : q \in Texts /\ Breaks(q) = {}
  /\ <<>> \notin Queries

VARIABLES text, view

vars == <<text, view>>

Seeks == [query : Queries, case : BOOLEAN]

Searches == [query : Queries, replacement : Replacements, case : BOOLEAN]

(* GTK's own lines end at a carriage return too; native edits are looked   *)
(* at where there is none.                                                 *)
NativeLines(t) == \A i \in DOMAIN t : t[i] # CarriageReturn

Init == text \in {t \in Documents : Renderable(t)} /\ view = Caret(0)

-----------------------------------------------------------------------------
Shows(t, v) == t \in Documents /\ text' = t /\ view' = v

Applied(plan) ==
  Shows(Result(text, plan), IF AllApply(text, plan.ops) THEN plan.view ELSE view)

MoveCaret == view' \in ViewsOf(text) /\ UNCHANGED text

Insert ==
  \E inserted \in Pasted :
    /\ ~HasSelection(view) /\ NativeLines(text) /\ NativeLines(inserted)
    /\ InsertFits(text, view.ins, inserted)
    /\ Shows(Spliced(text, view.ins, view.ins, inserted), Caret(view.ins + Len(inserted)))

Delete ==
  /\ HasSelection(view) /\ NativeLines(text)
  /\ DeleteFits(text, Low(view), High(view))
  /\ Shows(Spliced(text, Low(view), High(view), <<>>), Caret(Low(view)))

PerformFindNext ==
  \E search \in Seeks :
    view' = Found(NextMatch(text, view, search), view) /\ UNCHANGED text

PerformFindPrevious ==
  \E search \in Seeks :
    view' = Found(PreviousMatch(text, view, search), view) /\ UNCHANGED text

PerformReplaceOne == \E search \in Searches : Applied(ReplaceOnePlan(text, view, search))

PerformReplaceAll == \E search \in Searches : Applied(ReplaceAllPlan(text, view, search))

Uppercase == Applied(Recased(text, view, Upper))

Lowercase == Applied(Recased(text, view, Lower))

DuplicateLineSelection == Applied(Duplicate(text, view))

MoveLinesUp == Applied(MoveUp(text, view))

MoveLinesDown == Applied(MoveDown(text, view))

TrimTrailingSpaces == Applied(Trim(text, view))

Next ==
  \/ MoveCaret \/ Insert \/ Delete
  \/ PerformFindNext \/ PerformFindPrevious \/ PerformReplaceOne \/ PerformReplaceAll
  \/ Uppercase \/ Lowercase \/ DuplicateLineSelection
  \/ MoveLinesUp \/ MoveLinesDown \/ TrimTrailingSpaces

Spec == Init /\ [][Next]_vars

-----------------------------------------------------------------------------
(* The caret and the end of the selection are always inside the text.      *)
(* Every command computes them from offsets of a text it has changed.      *)
TypeOK == text \in Texts /\ view \in ViewsOf(text)

(* No line is ever wider than the widget can render, whichever way a text  *)
(* came about: typed, pasted, joined, replaced, transformed.               *)
LinesFit == Renderable(text)

Transformations ==
  {Recased(text, view, Upper), Recased(text, view, Lower), Duplicate(text, view),
   MoveUp(text, view), MoveDown(text, view), Trim(text, view)}

Plans ==
  Transformations
    \cup {ReplaceOnePlan(text, view, search) : search \in Searches}
    \cup {ReplaceAllPlan(text, view, search) : search \in Searches}

(* What a plan's operations make of the text is the final text whose width *)
(* was checked, and every deletion finds what it expects: the operations   *)
(* of Replace All and Trim are computed on the old text and applied one    *)
(* after another (apply_prevalidated_programmatic_group does not compare). *)
PlansMakeFinalText ==
  \A plan \in Plans :
    AllApply(text, plan.ops) /\ ApplyOperations(text, plan.ops) = plan.final

-----------------------------------------------------------------------------
(* Where a query is in a text, by its definition: the ranges that read     *)
(* like it, folded or not.                                                 *)
Reads(t, a, b, search) ==
  IF search.case THEN TextInRange(t, a, b) = search.query
  ELSE Folded(TextInRange(t, a, b)) = Folded(search.query)

Matches(t, search) ==
  {m \in (0 .. Len(t)) \X (0 .. Len(t)) : m[1] < m[2] /\ Reads(t, m[1], m[2], search)}

(* Find Next selects the nearest match behind the selection and else the   *)
(* first of the text; Find Previous likewise the other way.  Folding, line *)
(* boundaries and characters that fold to two must not hide or invent one. *)
(* (With Match Case a wrapped search stops at the caret: a match around it *)
(* is not found.)                                                          *)
FindsNearest ==
  \A search \in Seeks :
    LET matches == Matches(text, search)
        ahead == {m \in matches : m[1] >= High(view)}
        behind == {m \in matches : m[2] =< Low(view)}
        wrappedAhead == {m \in matches : search.case => m[2] =< High(view)}
        wrappedBehind == {m \in matches : search.case => m[1] >= Low(view)}
    IN  /\ NextMatch(text, view, search) =
             Leftmost(IF ahead # {} THEN ahead ELSE wrappedAhead)
        /\ PreviousMatch(text, view, search) =
             Rightmost(IF behind # {} THEN behind ELSE wrappedBehind)

(* Replace All replaces disjoint matches and leaves none behind: between   *)
(* two of them, and before the first and behind the last, no match fits.   *)
ReplacesAll ==
  \A search \in Seeks :
    LET found == FindAll(text, search.query, search.case)
        Before(i) == IF i = 1 THEN 0 ELSE found[i - 1][2]
        After(i) == IF i > Len(found) THEN Len(text) ELSE found[i][1]
    IN  /\ \A i \in DOMAIN found :
             found[i] \in Matches(text, search) /\ Before(i) =< found[i][1]
        /\ \A i \in 1 .. Len(found) + 1 : \A m \in Matches(text, search) :
             ~(Before(i) =< m[1] /\ m[2] =< After(i))

(* Replace shows a match of the text it leaves, so that Replace again      *)
(* replaces what is seen; where it shows none, Find Next finds none.       *)
ReplaceShowsTheNext ==
  \A search \in Searches :
    LET plan == ReplaceOnePlan(text, view, search)
    IN  plan.final # text =>
          IF HasSelection(plan.view)
          THEN <<Low(plan.view), High(plan.view)>> \in Matches(plan.final, search)
          ELSE NextMatch(plan.final, plan.view, search) = NoMatch

-----------------------------------------------------------------------------
(* The opposite move undoes Move Lines: the same text, the same lines      *)
(* selected, the caret where it was.  (Not where an empty line moves past  *)
(* the last one, and not where the lines that change places read the same. *)
(* A selection may come back with the line break behind it.)               *)
EndsAlike(s, t) == BehindFinalBreak(s, Len(s)) <=> BehindFinalBreak(t, Len(t))

MovesBack(plan, Opposite(_, _)) ==
  plan.final # text /\ EndsAlike(plan.final, text) =>
    LET back == Opposite(plan.final, plan.view)
    IN  /\ back.final = text
        /\ Scope(text, back.view) = Scope(text, view)
        /\ ~HasSelection(view) => back.view = view

MovesAreUndone ==
  MovesBack(MoveUp(text, view), MoveDown) /\ MovesBack(MoveDown(text, view), MoveUp)

(* Trimming removes nothing but blanks before a line break or the end, and *)
(* leaves none there without a selection; the caret stays before the       *)
(* character it was before, or moves to the end of its line.               *)
Visible(t) == {i \in DOMAIN t : \E j \in i .. LineEnd(t, i - 1) : t[j] \notin Blanks}
                \cup {i \in DOMAIN t : t[i] = Newline}

Kept(t, offset) == Ascending({i \in 1 .. offset : i \in Visible(t)})

TrimmedInPlace ==
  LET plan == Trim(text, view)
  IN  ~HasSelection(view) /\ plan.final # text =>
        /\ plan.final = [i \in DOMAIN Kept(text, Len(text)) |-> text[Kept(text, Len(text))[i]]]
        /\ plan.view = Caret(Len(Kept(text, view.ins)))

(* Duplicate leaves two of what was selected and selects the second; or    *)
(* two of the caret's line, also of the empty one behind a final line      *)
(* break, with the caret in the second before the same character.          *)
DuplicatedInPlace ==
  LET plan == Duplicate(text, view)
      end == LineEnd(text, view.ins)
      line == Line(text, LineStart(text, view.ins))
  IN  plan.final # text =>
        IF HasSelection(view)
        THEN /\ plan.final = Spliced(text, High(view), High(view), Selected(text, view))
             /\ plan.view = [ins |-> view.ins + High(view) - Low(view),
                             bound |-> view.bound + High(view) - Low(view)]
        ELSE /\ plan.final = Spliced(text, end, end, <<Newline>> \o line)
             /\ plan.view = Caret(view.ins + Len(line) + 1)

(* What Trim and Duplicate leave is what was asked for, and the caret or   *)
(* selection is on the text it was on, or on its copy.                     *)
LineCommandsKeepThePlace == TrimmedInPlace /\ DuplicatedInPlace

-----------------------------------------------------------------------------
(* A text saved under a profile and opened again is the same text under    *)
(* the same profile (LF where it has no line break, and never mixed).      *)
(* (Not with a carriage return in it, which would become a line break, nor *)
(* with U+FEFF in front in a file without a mark.)                         *)
SavedTextComesBack ==
  \A profile \in FileProfiles :
    LET file == Serialized(text, profile)
        eol == IF Breaks(text) = {} THEN "lf" ELSE profile.eol
    IN  NativeLines(text) /\ (profile.bom \/ text = <<>> \/ Head(text) # Mark) =>
          /\ Readable(file)
          /\ LoadedText(file) = text
          /\ LoadedProfile(file) = [profile EXCEPT !.eol = eol, !.mixed = FALSE]

(* A file opened and saved untouched keeps its bytes, unless its line      *)
(* endings are mixed, and then it is not saved without consent.            *)
OpenedBytesStay ==
  \A encoding \in Encodings :
    LET file == [in |-> encoding, chars |-> text]
        profile == LoadedProfile(file)
    IN  Readable(file) /\ MaySerialize(profile, FALSE) =>
          Serialized(LoadedText(file), profile) = file

(* Neither saving and opening nor opening and saving changes what a        *)
(* document is, as DocumentLoader and serialize_document stand together.   *)
RoundTripsAreExact == SavedTextComesBack /\ OpenedBytesStay

-----------------------------------------------------------------------------
(* A query that occurs is found: src/docs/user/GRAPHIUM_USER_GUIDE.txt,    *)
(* "Navigate to the next or previous occurrence and wrap once              *)
(* automatically".                                                         *)
FindReachesEveryMatch ==
  \A search \in Seeks :
    Matches(text, search) # {} => NextMatch(text, view, search) # NoMatch
=============================================================================
