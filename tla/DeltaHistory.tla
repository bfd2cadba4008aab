---------------------------- MODULE DeltaHistory ----------------------------
(***************************************************************************)
(* The bounded delta journal of domain/edit_history.py.  A history is one  *)
(* record, because the code checkpoints and restores it as a whole; every  *)
(* operator below maps a history to the history a method leaves behind.    *)
(* Caret and selection views travel with the groups and decide nothing, so *)
(* they are left out.                                                      *)
(***************************************************************************)
EXTENDS EditorBuffer, FiniteSets

CONSTANTS
  CharClass,      \* the class of a character: word, space, tab, newline
  MaxGroups,      \* max_groups: how many groups the undo stack may hold
  MaxPayload      \* max_payload_chars: how many changed characters it may hold

ASSUME LimitsArePositive == MaxGroups \in Nat \ {0} /\ MaxPayload \in Nat \ {0}
ASSUME CharClassIsTotal == DOMAIN CharClass = Chars

NoId == 0         \* no identity: None, and the identity before the first reset

Directions == {"backward", "forward", "range"}

Delta == [kind : {"insert", "delete"}, at : Nat, text : Texts, dir : Directions]

Group == [deltas : Seq(Delta), before : Nat, after : Nat]

History ==
  [undo : Seq(Group), redo : Seq(Group), cur : Nat, next : Nat,
   pend : Seq(Delta), pendBefore : Nat]

EmptyHistory ==
  [undo |-> <<>>, redo |-> <<>>, cur |-> NoId, next |-> 1,
   pend |-> <<>>, pendBefore |-> NoId]

GroupActive(h) == h.pendBefore # NoId

-----------------------------------------------------------------------------
(* Payload accounting and trimming.                                        *)

(* The sums of the first k naturals of a sequence, and of all of them.     *)
Sums(ns) ==
  LET sum[k \in 0 .. Len(ns)] == IF k = 0 THEN 0 ELSE sum[k - 1] + ns[k]
  IN  sum

Total(ns) == Sums(ns)[Len(ns)]

PayloadChars(g) == Total([i \in DOMAIN g.deltas |-> Len(g.deltas[i].text)])

Weights(groups) == [i \in DOMAIN groups |-> PayloadChars(groups[i])]

Payload(groups) == Total(Weights(groups))

WithoutNewest(stack, n) ==        \* mutant: popped from the wrong end
  SubSeq(stack, 1, Len(stack) - n)

(* The newest groups of a stack, without its n oldest.                     *)
WithoutOldest(stack, n) == SubSeq(stack, n + 1, Len(stack))

(* First the group limit, then the payload limit, dropping the oldest      *)
(* groups; the newest group stays however large it is.  Since a longer     *)
(* suffix is never lighter, the groups to drop are those whose suffix is   *)
(* over the limit.                                                         *)
TrimGroupsOneTooFew(stack) ==    \* mutant: one group more than the limit stays
  WithoutOldest(stack, IF Len(stack) > MaxGroups THEN Len(stack) - MaxGroups - 1 ELSE 0)

TrimGroups(stack) ==
  WithoutOldest(stack, IF Len(stack) > MaxGroups THEN Len(stack) - MaxGroups ELSE 0)

Overweight(stack) ==
  {k \in 1 .. Len(stack) - 1 : Payload(WithoutOldest(stack, k - 1)) > MaxPayload}

TrimPayload(stack) == WithoutOldest(stack, Cardinality(Overweight(stack)))

Trim(stack) == TrimPayload(TrimGroups(stack))

-----------------------------------------------------------------------------
(* Structural coalescing of adjacent single-character edits.               *)

TextClass(text) ==
  IF \A i \in DOMAIN text : CharClass[text[i]] = CharClass[text[1]]
  THEN CharClass[text[1]]
  ELSE "none"

Adjacent(a, b) ==
  \/ /\ a.kind = "insert"
     /\ b.at = a.at + Len(a.text)
  \/ /\ a.kind = "delete" /\ a.dir = "backward" /\ b.dir = "backward"
     /\ b.at + Len(b.text) = a.at
  \/ /\ a.kind = "delete" /\ a.dir = "forward" /\ b.dir = "forward"
     /\ b.at = a.at

SameRun(prev, new) ==
  /\ Len(prev.deltas) = 1 /\ Len(new.deltas) = 1
  /\ LET a == prev.deltas[1]
         b == new.deltas[1]
     IN  /\ a.kind = b.kind
         /\ Len(b.text) = 1
         /\ TextClass(a.text) = TextClass(b.text)
         /\ TextClass(a.text) # "none"
         /\ Adjacent(a, b)

MergeableAcrossSave(prev, new, saved) ==   \* mutant: Save is no barrier
  SameRun(prev, new)

(* The saved state is a barrier: undo must be able to land on it.          *)
Mergeable(prev, new, saved) == prev.after # saved /\ SameRun(prev, new)

JoinedDelta(a, b) ==
  IF a.dir = "backward"
  THEN [kind |-> b.kind, at |-> b.at, text |-> b.text \o a.text, dir |-> b.dir]
  ELSE [kind |-> a.kind, at |-> a.at, text |-> a.text \o b.text, dir |-> a.dir]

MergedGroup(prev, new) ==
  [deltas |-> <<JoinedDelta(prev.deltas[1], new.deltas[1])>>,
   before |-> prev.before, after |-> new.after]

Pushed(stack, g, saved) ==
  IF stack # <<>> /\ Mergeable(Last(stack), g, saved)
  THEN Append(Front(stack), MergedGroup(Last(stack), g))
  ELSE Append(stack, g)

-----------------------------------------------------------------------------
(* The methods of DeltaHistory.                                            *)

ResetReusingId(h) ==              \* mutant: the identity handed out stays the next one
  [h EXCEPT !.undo = <<>>, !.redo = <<>>, !.cur = h.next]

Reset(h) ==
  [h EXCEPT !.undo = <<>>, !.redo = <<>>, !.cur = h.next, !.next = h.next + 1]

BeginGroup(h) == [h EXCEPT !.pendBefore = h.cur, !.pend = <<>>]

Record(h, delta) == [h EXCEPT !.pend = Append(@, delta)]

AbortGroup(h) == [h EXCEPT !.pend = <<>>, !.pendBefore = NoId]

KeptRedo(h) == h.redo             \* mutant: an edit leaves the redo stack

RedoAfterEdit(h) == <<>>

(* end_group: a group without deltas leaves the identity alone.            *)
EndGroup(h, saved) ==
  IF h.pend = <<>>
  THEN AbortGroup(h)
  ELSE LET g == [deltas |-> h.pend, before |-> h.pendBefore, after |-> h.next]
       IN  [undo |-> Trim(Pushed(h.undo, g, saved)), redo |-> RedoAfterEdit(h),
            cur |-> h.next, next |-> h.next + 1,
            pend |-> <<>>, pendBefore |-> NoId]

UndoStep(h) ==
  LET g == Last(h.undo)
  IN  [h EXCEPT !.undo = Front(@), !.redo = Append(@, g), !.cur = g.before]

RedoStep(h) ==
  LET g == Last(h.redo)
  IN  [h EXCEPT !.redo = Front(@), !.undo = Trim(Append(@, g)), !.cur = g.after]

AsOperation(delta) == [kind |-> delta.kind, at |-> delta.at, text |-> delta.text]

RedoOperations(g) == [i \in DOMAIN g.deltas |-> AsOperation(g.deltas[i])]

UndoOperationsInOrder(g) ==       \* mutant: inverses oldest first
  [i \in DOMAIN g.deltas |-> InverseOf(AsOperation(g.deltas[i]))]

UndoOperations(g) == Inverses(RedoOperations(g))

(* restore_checkpoint: identities handed out meanwhile are never reused.   *)
RestoreCheckpoint(h, checkpoint) ==
  [checkpoint EXCEPT !.next = IF h.next > checkpoint.next THEN h.next ELSE checkpoint.next]

-----------------------------------------------------------------------------
(* What every history this module makes is like (EditorSession checks it). *)

(* The journal is one path of identities: each stack is linked end to end, *)
(* both end at the current identity, and an open group starts there.       *)
OnePath(h) ==
  /\ \A i \in 1 .. Len(h.undo) - 1 : h.undo[i].after = h.undo[i + 1].before
  /\ h.undo # <<>> => h.undo[Len(h.undo)].after = h.cur
  /\ \A i \in 1 .. Len(h.redo) - 1 : h.redo[i].before = h.redo[i + 1].after
  /\ h.redo # <<>> => h.redo[Len(h.redo)].before = h.cur
  /\ GroupActive(h) => h.pendBefore = h.cur

(* No identity of the journal was handed out later than the last one.      *)
IdsHandedOut(h) ==
  /\ h.cur < h.next
  /\ \A i \in 1 .. Len(h.undo) : h.undo[i].before < h.next
  /\ \A i \in 1 .. Len(h.redo) : h.redo[i].after < h.next
=============================================================================
