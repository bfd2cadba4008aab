--------------------------- MODULE EditorSession ---------------------------
(***************************************************************************)
(* The editor core: the GTK text buffer, the delta journal, the document   *)
(* session and the controller that keeps the three in step                 *)
(* (application/native_editor.py, application/document_session.py, and the *)
(* buffer signal handlers of adapters/gtk/window.py).  All of it runs on   *)
(* the GTK main thread, one handler at a time; what is hard here is that a *)
(* failing step must leave all three where they were, and that an identity *)
(* stands for one text for ever.                                           *)
(***************************************************************************)
EXTENDS DeltaHistory

CONSTANTS
  Newline,        \* the character that separates lines in the buffer
  Encodings,      \* encoding and byte order mark, chosen together
  Eols,           \* concrete line endings
  DefaultEncoding, DefaultEol,
  Mixes,          \* whether a file's line endings are mixed: a subset of BOOLEAN
  Faults,         \* which calls of a controller method may raise
  Documents,      \* texts that are opened, reloaded and recovered
  Typing,         \* texts that are typed, pasted and put in by a plan
  MaxTextLen,     \* bound: length of a document
  MaxDeltas,      \* bound: deltas of one edit group
  MaxId           \* bound: identities handed out

ASSUME DefaultsAreProfiles ==
  DefaultEncoding \in Encodings /\ DefaultEol \in Eols /\ Mixes \in {{FALSE}, BOOLEAN}
ASSUME FaultKinds == Faults \subseteq {"buffer", "install", "listener", "replay listener"}
ASSUME InputsAreTexts == Documents \subseteq Texts /\ Typing \subseteq Texts \ {<<>>}
ASSUME Bounds == MaxTextLen \in Nat /\ MaxDeltas \in Nat /\ MaxId \in Nat

VARIABLES
  buffer,         \* the text of the GTK buffer
  hist,           \* the DeltaHistory
  sess,           \* the DocumentSession
  raised,         \* whether the last operation ended in an exception
  content,        \* observer: the text each live identity was given to
  accepted        \* observer: what the accepted file holds

vars == <<buffer, hist, sess, raised, content, accepted>>

-----------------------------------------------------------------------------
(* Representation profiles and the session.                                *)

Profiles == [enc : Encodings, eol : Eols, mixed : Mixes]

DefaultProfile == [enc |-> DefaultEncoding, eol |-> DefaultEol, mixed |-> FALSE]

HasNewline(text) == \E i \in DOMAIN text : text[i] = Newline

Newlines(text) == {i \in DOMAIN text : text[i] = Newline}

(* The profiles loading a file with this text can report: a text with no   *)
(* line ending reports the default one, and only a text with two can mix.  *)
LoadedProfiles(text) ==
  {p \in Profiles :
     /\ ~HasNewline(text) => p.eol = DefaultEol
     /\ p.mixed => Cardinality(Newlines(text)) >= 2}

ProfileAfterWriteWithoutDefault(text, p) ==   \* mutant: no default for a single line
  [enc |-> p.enc, eol |-> IF HasNewline(text) THEN p.eol ELSE "none", mixed |-> FALSE]

(* What loading reports of the bytes written for a text under a profile:   *)
(* every line ending is the selected one.                                  *)
ProfileAfterWrite(text, p) ==
  [enc |-> p.enc, eol |-> IF HasNewline(text) THEN p.eol ELSE DefaultEol, mixed |-> FALSE]

(* Choosing a line ending ends a mixture; choosing an encoding does not.   *)
WithEncoding(p, enc) == [p EXCEPT !.enc = enc]

WithLineEnding(p, eol) == [p EXCEPT !.eol = eol, !.mixed = FALSE]

Session ==
  [text : Texts, textId : Nat, cur : Nat, saved : Nat,
   prof : Profiles, savedProf : Profiles]

ModifiedByIdentity(s) ==          \* mutant: the representation does not count
  ~(s.cur # NoId /\ s.saved # NoId /\ s.cur = s.saved)

Modified(s) ==
  ~ /\ s.cur # NoId /\ s.saved # NoId
    /\ s.cur = s.saved
    /\ s.prof = s.savedProf

AdvanceWithText(s, id) == [s EXCEPT !.cur = id, !.textId = id]   \* mutant

AdvanceEditorState(s, id) == [s EXCEPT !.cur = id]

SynchronizeCurrentText(s, text) == [s EXCEPT !.text = text, !.textId = s.cur]

Established(text, id, savedId, prof, savedProf) ==
  [text |-> text, textId |-> id, cur |-> id, saved |-> savedId,
   prof |-> prof, savedProf |-> savedProf]

(* accept_committed_save of the captured state: the current profile        *)
(* follows the accepted one unless it was changed since the capture.       *)
AcceptCommittedSave(s, id, captured, acceptedProf) ==
  [s EXCEPT !.saved = id,
            !.prof = IF s.prof = captured THEN acceptedProf ELSE s.prof,
            !.savedProf = acceptedProf]

-----------------------------------------------------------------------------
Active == GroupActive(hist)

Raises(kind) == kind \in Faults

UndoReach == {hist.cur} \cup {hist.undo[i].before : i \in DOMAIN hist.undo}

Reach == UndoReach \cup {hist.redo[i].after : i \in DOMAIN hist.redo}

(* The identities a later step can still compare or return to.             *)
Live == Reach \cup {sess.saved}

(* Observer: an identity gets its text when a step ends with no edit group *)
(* open, and the identity of a recovered baseline the text of its file; if *)
(* a later step ends under the same identity with another text, that text  *)
(* replaces it (and IdentityIsContent sees the change).                    *)
Observe ==
  content' = [i \in Live' |->
                IF i = hist'.cur /\ ~GroupActive(hist') THEN buffer'
                ELSE IF i \in DOMAIN content THEN content[i]
                ELSE accepted'.text]

Init ==
  /\ buffer = <<>>
  /\ hist = EmptyHistory
  /\ sess = Established(<<>>, NoId, NoId, DefaultProfile, DefaultProfile)
  /\ raised = FALSE
  /\ content = [i \in {NoId} |-> <<>>]
  /\ accepted = [text |-> <<>>, prof |-> DefaultProfile]

-----------------------------------------------------------------------------
(* Replacing the document: New, Open, Reload and both recoveries share the *)
(* shape checkpoint, restore the buffer, reset the history, establish the  *)
(* session, notify; whatever raises, the three are restored.  Resetting    *)
(* raises while an edit group is open, before it takes an identity.        *)

InstallFails(resets) ==
  /\ \/ Active /\ hist' = hist
     \/ /\ Raises("install")
        /\ ~Active
        /\ hist.next + resets =< MaxId
        /\ \E n \in 0 .. resets :
             hist' = RestoreCheckpoint([hist EXCEPT !.next = @ + n], hist)
  /\ raised' = TRUE
  /\ UNCHANGED <<buffer, sess, accepted>>

InitializeNew ==
  \/ /\ ~Active /\ hist.next < MaxId
     /\ buffer' = <<>>
     /\ hist' = Reset(hist)
     /\ sess' = Established(<<>>, hist'.cur, hist'.cur, DefaultProfile, DefaultProfile)
     /\ accepted' = [text |-> <<>>, prof |-> DefaultProfile]
     /\ raised' = FALSE
  \/ InstallFails(1)

InitializeOpen(text, prof) ==
  \/ /\ ~Active /\ hist.next < MaxId
     /\ buffer' = text
     /\ hist' = Reset(hist)
     /\ sess' = Established(text, hist'.cur, hist'.cur, prof, prof)
     /\ accepted' = [text |-> text, prof |-> prof]
     /\ raised' = FALSE
  \/ InstallFails(1)

(* Recovered text over a revalidated baseline: two identities, the older   *)
(* for the baseline, the newer for the recovered text.                     *)
InitializeRecoveredNamed(base, baseProf, text, prof) ==
  \/ /\ ~Active /\ hist.next + 1 < MaxId
     /\ buffer' = text
     /\ hist' = Reset(Reset(hist))
     /\ sess' = Established(text, hist'.cur, Reset(hist).cur, prof, baseProf)
     /\ accepted' = [text |-> base, prof |-> baseProf]
     /\ raised' = FALSE
  \/ InstallFails(2)

InitializeRecoveredUnbound(text, prof) ==
  \/ /\ ~Active /\ hist.next < MaxId
     /\ buffer' = text
     /\ hist' = Reset(hist)
     /\ sess' = Established(text, hist'.cur, NoId, prof, prof)
     /\ accepted' = [text |-> <<>>, prof |-> DefaultProfile]
     /\ raised' = FALSE
  \/ InstallFails(1)

-----------------------------------------------------------------------------
(* Native editing: GTK announces a user action, the buffer changes and     *)
(* reports each change, the action ends.  A change outside a user action   *)
(* gets a group of its own, opened and closed by its own handlers.         *)

(* Every change counts for an identity of the bound, also in an open group.*)
CanRecord ==
  hist.cur # NoId /\ Len(hist.pend) < MaxDeltas /\ hist.next + Len(hist.pend) < MaxId

BeginUserAction ==
  /\ ~Active /\ hist.cur # NoId /\ hist.next < MaxId
  /\ hist' = BeginGroup(hist)
  /\ raised' = FALSE
  /\ UNCHANGED <<buffer, sess, accepted>>

(* The group a change is recorded in: the open one, or an implicit one.    *)
RecordInGroup(delta) ==
  IF Active
  THEN /\ hist' = Record(hist, delta)
       /\ UNCHANGED sess
  ELSE /\ hist' = EndGroup(Record(BeginGroup(hist), delta), sess.saved)
       /\ sess' = AdvanceEditorState(sess, hist'.cur)

InsertText(offset, text) ==
  /\ CanRecord
  /\ Len(buffer) + Len(text) =< MaxTextLen
  /\ buffer' = ApplyOperation(buffer, Insertion(offset, text))
  /\ RecordInGroup([kind |-> "insert", at |-> offset, text |-> text, dir |-> "range"])
  /\ raised' = FALSE
  /\ UNCHANGED accepted

DeleteRange(offset, n, dir) ==
  /\ CanRecord
  /\ LET gone == TextInRange(buffer, offset, offset + n)
     IN  /\ buffer' = ApplyOperation(buffer, Deletion(offset, gone))
         /\ RecordInGroup([kind |-> "delete", at |-> offset, text |-> gone, dir |-> dir])
  /\ raised' = FALSE
  /\ UNCHANGED accepted

EndUserAction ==
  /\ Active
  /\ hist' = EndGroup(hist, sess.saved)
  /\ sess' = AdvanceEditorState(sess, hist'.cur)
  /\ raised' = FALSE
  /\ UNCHANGED <<buffer, accepted>>

-----------------------------------------------------------------------------
(* The buffer stops after k operations: GTK raises, or the text the next   *)
(* one expects to delete is not there.                                     *)
InterruptedAfter(ops, k) ==
  /\ FirstApply(buffer, ops, k)
  /\ Raises("buffer") \/ ~Applies(AfterFirst(buffer, ops, k), ops[k + 1])

(* The texts a replay that raises leaves: one that fails part way is taken *)
(* back by the buffer, but nothing takes back one that succeeded before    *)
(* the listener raised.                                                    *)
AfterFailedReplay(ops) ==
  {RolledBack(buffer, ops, k) : k \in {i \in 0 .. Len(ops) - 1 : InterruptedAfter(ops, i)}}
    \cup {text \in {ApplyOperations(buffer, ops)} :
            Raises("replay listener") /\ AllApply(buffer, ops) /\ Len(text) =< MaxTextLen}

(* Undo and redo: the history moves first, then the buffer replays; when   *)
(* that raises, history and session are restored by the controller.        *)
Replay(moved, ops, target) ==
  \/ /\ AllApply(buffer, ops)
     /\ buffer' = ApplyOperations(buffer, ops)
     /\ hist' = moved
     /\ sess' = AdvanceEditorState(sess, target)
     /\ raised' = FALSE
     /\ UNCHANGED accepted
  \/ /\ buffer' \in AfterFailedReplay(ops)
     /\ hist' = RestoreCheckpoint(moved, hist)
     /\ raised' = TRUE
     /\ UNCHANGED <<sess, accepted>>

Undo ==
  /\ ~Active /\ hist.undo # <<>>
  /\ LET g == Last(hist.undo)
     IN  /\ g.after = hist.cur
         /\ Replay(UndoStep(hist), UndoOperations(g), g.before)

Redo ==
  /\ ~Active /\ hist.redo # <<>>
  /\ LET g == Last(hist.redo)
     IN  /\ g.before = hist.cur
         /\ Replay(RedoStep(hist), RedoOperations(g), g.after)

-----------------------------------------------------------------------------
(* One programmatic edit (Replace, a text transformation, a correction):   *)
(* a list of operations planned on the state "expected".  The plan is      *)
(* refused when the editor moved on, when it is over the payload limit or  *)
(* when a user action is open; otherwise the buffer changes first, the     *)
(* history and session follow, and any failure restores all three.         *)

AsRangeDelta(op) == [kind |-> op.kind, at |-> op.at, text |-> op.text, dir |-> "range"]

PlanPayload(ops) == PayloadChars([deltas |-> ops])

PlanAccepted(ops, expected) ==
  /\ ~Active
  /\ expected # NoId /\ expected = hist.cur /\ sess.cur = hist.cur
  /\ PlanPayload(ops) =< MaxPayload

GroupOf(ops) ==
  [BeginGroup(hist) EXCEPT !.pend = [i \in DOMAIN ops |-> AsRangeDelta(ops[i])]]

ApplyProgrammaticGroup(ops, expected) ==
  \/ /\ ~PlanAccepted(ops, expected)
     /\ raised' = TRUE
     /\ UNCHANGED <<buffer, hist, sess, accepted>>
  \/ /\ PlanAccepted(ops, expected)
     /\ hist.next < MaxId
     /\ Len(ApplyOperations(buffer, ops)) =< MaxTextLen
     /\ LET ended == EndGroup(GroupOf(ops), sess.saved)
        IN  \/ /\ AllApply(buffer, ops)
               /\ buffer' = ApplyOperations(buffer, ops)
               /\ hist' = ended
               /\ sess' = AdvanceEditorState(sess, ended.cur)
               /\ raised' = FALSE
               /\ UNCHANGED accepted
            \/ /\ \E k \in 0 .. Len(ops) - 1 :
                     InterruptedAfter(ops, k) /\ buffer' = RolledBack(buffer, ops, k)
               /\ hist' = RestoreCheckpoint(GroupOf(ops), hist)
               /\ raised' = TRUE
               /\ UNCHANGED <<sess, accepted>>
            \/ /\ Raises("listener")
               /\ AllApply(buffer, ops)
               /\ buffer' = RolledBack(buffer, ops, Len(ops))
               /\ hist' = RestoreCheckpoint(ended, hist)
               /\ raised' = TRUE
               /\ UNCHANGED <<sess, accepted>>

-----------------------------------------------------------------------------
(* Representation choices and Save.                                        *)

SelectEncoding(enc) ==
  /\ sess' = [sess EXCEPT !.prof = WithEncoding(sess.prof, enc)]
  /\ raised' = FALSE
  /\ UNCHANGED <<buffer, hist, accepted>>

SelectLineEnding(eol) ==
  /\ sess' = [sess EXCEPT !.prof = WithLineEnding(sess.prof, eol)]
  /\ raised' = FALSE
  /\ UNCHANGED <<buffer, hist, accepted>>

(* prepare_for_save raises in an open group or when the identities differ; *)
(* a Save that is cancelled or fails before the commit leaves the          *)
(* synchronized text behind.                                               *)
PrepareForSave == ~Active /\ hist.cur # NoId /\ sess.cur = hist.cur

SaveNotCommitted ==
  /\ PrepareForSave
  /\ sess' = SynchronizeCurrentText(sess, buffer)
  /\ raised' = TRUE
  /\ UNCHANGED <<buffer, hist, accepted>>

(* The bytes written are those of the synchronized text; the session       *)
(* accepts the profile a fresh load reports, or the captured one when the  *)
(* fresh baseline is unavailable.                                          *)
SaveCommitted(baselineAvailable) ==
  /\ PrepareForSave
  /\ LET synced == SynchronizeCurrentText(sess, buffer)
         onDisk == ProfileAfterWrite(synced.text, synced.prof)
     IN  /\ sess' = AcceptCommittedSave(synced, synced.cur, synced.prof,
                      IF baselineAvailable THEN onDisk ELSE synced.prof)
         /\ accepted' = [text |-> synced.text, prof |-> onDisk]
  /\ raised' = FALSE
  /\ UNCHANGED <<buffer, hist>>

-----------------------------------------------------------------------------
(* The inputs: whole documents, what is typed or pasted, and plans that    *)
(* insert or replace one range, made on the current or the saved state.    *)

Offsets == 0 .. Len(buffer)

Spans == {s \in Offsets \X (1 .. Len(buffer)) : s[1] + s[2] =< Len(buffer)}

Plans ==
  {<<Insertion(o, text)>> : o \in Offsets, text \in Typing}
    \cup {<<Deletion(s[1], TextInRange(buffer, s[1], s[1] + s[2])), Insertion(s[1], text)>> :
             s \in Spans, text \in Typing}

Replacement ==
  \/ InitializeNew
  \/ \E text \in Documents : \E prof \in LoadedProfiles(text) : InitializeOpen(text, prof)
  \/ \E base, text \in Documents : \E baseProf \in LoadedProfiles(base), prof \in Profiles :
       InitializeRecoveredNamed(base, baseProf, text, prof)
  \/ \E text \in Documents, prof \in Profiles : InitializeRecoveredUnbound(text, prof)

Editing ==
  \/ BeginUserAction
  \/ \E o \in Offsets, text \in Typing : InsertText(o, text)
  \/ \E s \in Spans, dir \in Directions : DeleteRange(s[1], s[2], dir)
  \/ EndUserAction
  \/ Undo
  \/ Redo
  \/ \E ops \in Plans, expected \in {hist.cur, sess.saved} : ApplyProgrammaticGroup(ops, expected)

Saving ==
  \/ \E enc \in Encodings : SelectEncoding(enc)
  \/ \E eol \in Eols : SelectLineEnding(eol)
  \/ SaveNotCommitted
  \/ \E available \in BOOLEAN : SaveCommitted(available)

Next == (Replacement \/ Editing \/ Saving) /\ Observe

Spec == Init /\ [][Next]_vars

-----------------------------------------------------------------------------
(* Properties.                                                             *)

(* Types of the state, and of the two observers.                           *)
TypeOK ==
  /\ buffer \in Texts
  /\ hist \in History
  /\ sess \in Session
  /\ raised \in BOOLEAN
  /\ DOMAIN content \subseteq Nat /\ \A i \in DOMAIN content : content[i] \in Texts
  /\ accepted \in [text : Texts, prof : Profiles]

(* The journal is one path, the session shows the identity it stands on,   *)
(* and no identity is known before it was handed out.  So the state-chain  *)
(* errors of undo() and redo() and the identity check of prepare_for_save  *)
(* never fire.                                                             *)
HistoryChain ==
  /\ OnePath(hist)
  /\ sess.cur = hist.cur
  /\ hist.cur < hist.next /\ sess.saved < hist.next /\ sess.textId < hist.next

(* Text changed by an open user action is not committed, so the session    *)
(* does not call the document Saved (architecture contract, section 13.3). *)
PendingTextIsModified ==
  Active /\ hist.pend # <<>> => Modified(sess)

(* An identity stands for one text for ever, whatever undo, redo, merging, *)
(* trimming, failed replays and rolled-back edits happen in between: this  *)
(* is what lets Saved/Modified compare identities instead of texts.        *)
IdentityIsContent ==
  [][\A i \in Live \cap Live' : content'[i] = content[i]]_vars

(* When the session says Saved (and no edit group is open), the text on    *)
(* screen is the text of the accepted file, a Save would write the same    *)
(* encoding and line endings, and mixed line endings are still known to be *)
(* mixed, so that none is normalized unasked.                              *)
SavedMeansAccepted ==
  ~Modified(sess) /\ ~Active =>
    /\ buffer = accepted.text
    /\ sess.prof.enc = accepted.prof.enc
    /\ HasNewline(buffer) => sess.prof.eol = accepted.prof.eol
    /\ accepted.prof.mixed => sess.prof.mixed

(* The text handed to Save is the text on screen whenever the session      *)
(* claims its copy is current.                                             *)
SynchronizedTextIsExact ==
  ~Active /\ sess.cur # NoId /\ sess.textId = sess.cur => sess.text = buffer

(* Undo and redo groups together stay within the group limit, and within   *)
(* the payload limit unless a single oversized edit is all there is.       *)
HistoryBounded ==
  LET all == hist.undo \o hist.redo
  IN  /\ Len(all) =< MaxGroups
      /\ Payload(all) > MaxPayload => Len(all) = 1

(* The next undo and the next redo find exactly the text they expect and   *)
(* produce exactly the text their target identity stands for.              *)
ReplayReady ==
  ~Active =>
    /\ hist.undo # <<>> =>
         LET g == Last(hist.undo)
         IN  /\ AllApply(buffer, UndoOperations(g))
             /\ ApplyOperations(buffer, UndoOperations(g)) = content[g.before]
    /\ hist.redo # <<>> =>
         LET g == Last(hist.redo)
         IN  /\ AllApply(buffer, RedoOperations(g))
             /\ ApplyOperations(buffer, RedoOperations(g)) = content[g.after]

Oldest == IF hist.undo = <<>> THEN hist.cur ELSE hist.undo[1].before

(* A saved state that undo could land on stays one that undo or redo can   *)
(* land on, until the limits drop the oldest state: later typing never     *)
(* coalesces across it.                                                    *)
SaveIsMergeBarrier ==
  [][/\ sess.saved # NoId /\ sess'.saved = sess.saved
     /\ sess.saved \in UndoReach
     /\ Oldest' = Oldest
     => sess.saved \in Reach']_vars

(* An operation that raises leaves buffer, journal and session as they     *)
(* were, but for identities consumed and for the text a Save synchronized. *)
FailedOperationRestores ==
  [][raised' =>
       /\ buffer' = buffer
       /\ [hist' EXCEPT !.next = hist.next] = hist /\ hist'.next >= hist.next
       /\ [sess' EXCEPT !.text = sess.text, !.textId = sess.textId] = sess]_vars

(* The journal of deltas behaves like an editor that keeps every version.  *)
Snapshots ==
  INSTANCE SnapshotEditor WITH
    Versions <- Texts,
    doc <- content[hist.cur],
    past <- [i \in DOMAIN hist.undo |-> content[hist.undo[i].before]],
    future <- [i \in DOMAIN hist.redo |-> content[hist.redo[i].after]],
    saved <- accepted.text,
    clean <- ~Modified(sess)

(* Refinement: the session implements the snapshot editor.                 *)
ImplementsSnapshots == Snapshots!Spec
=============================================================================
