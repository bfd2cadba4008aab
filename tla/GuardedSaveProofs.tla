------------------------- MODULE GuardedSaveProofs -------------------------
(***************************************************************************)
(* Proofs about GuardedSave, for any number of editors, names, directories *)
(* and inodes: types, the accepted baseline, and that a commit overwrites  *)
(* only what its user has read or given up, as long as between the late    *)
(* revalidation and the rename nobody acts but editors, where the target   *)
(* is a new name.                                                          *)
(*                                                                         *)
(* The inductive invariant has a part for the file system, a part for each *)
(* process (its session and the observation its save carries), and the     *)
(* part that makes the rename safe: while a process is in the window, its  *)
(* target is still what it observed, and of any two processes there one    *)
(* has a new target, so that it can only take a name that is free.         *)
(*                                                                         *)
(* On it stand the contents of inodes (DataOK: those of a stage that is    *)
(* written are its save's text), the promises a confirmed save makes       *)
(* (PromisesOK: a promised place and its inode are on disk), and the       *)
(* refinement of AtomicSave, one lemma per step.                           *)
(***************************************************************************)
EXTENDS GuardedSave, FiniteSetTheorems, TLAPS

Entries == Names \cup Inodes \cup {NoInode}

Sessions == [path : Names \cup {NoName}, base : Bases, text : Versions, saved : Versions]

Operations == [kind : {"save", "saveas", "copy"}, obs : Observations, synced : BOOLEAN]

PcValues == {"idle", "consent", "staging", "written", "staged", "commit",
             "linked", "committed", "synced"}

AnswerValues == {"none", "failed", "unbaselined", "uncertain", "confirmed"}

FilesOK ==
  /\ entry \in [Places -> Entries] /\ stable \in [Places -> Entries]
  /\ data \in [Inodes -> Versions] /\ (\A i \in Inodes : data[i] # NoVersion)
  /\ promised \in [Places -> Versions]
  /\ parent \in Dirs /\ next \in 2 .. MaxVersion + 1
  /\ unsynced \subseteq Inodes /\ litter \subseteq Inodes

(* What an operation carries: the observation of a Save is of the text the *)
(* user last opened or saved.                                              *)
OperationOK(o, s) ==
  /\ o \in Operations
  /\ ~Exists(o.obs) => o.obs.ver = NoVersion /\ o.obs.at = o.obs.name
  /\ o.kind = "save" => Exists(o.obs) /\ o.obs.ver = s.saved

SessionOK(s) ==
  /\ s \in Sessions /\ s.text # NoVersion
  /\ s.base # NoBase => s.base.ver = s.saved /\ s.path \in Names

PlaceInSave(c, o, s, st) ==
  /\ c \in PcValues
  /\ c = "idle" => o = NoOperation
  /\ c # "idle" => OperationOK(o, s)
  /\ st \in Inodes \cup {NoInode}
  /\ c \in {"idle", "consent", "staging", "committed", "synced"} => st = NoInode

ProcessOK(q) ==
  /\ SessionOK(sess[q])
  /\ PlaceInSave(pc[q], op[q], sess[q], stage[q])
  /\ answer[q] \in AnswerValues

ByProcess ==
  /\ DOMAIN sess = Procs /\ sess = [q \in Procs |-> sess[q]]
  /\ DOMAIN pc = Procs /\ pc = [q \in Procs |-> pc[q]]
  /\ DOMAIN op = Procs /\ op = [q \in Procs |-> op[q]]
  /\ DOMAIN stage = Procs /\ stage = [q \in Procs |-> stage[q]]
  /\ DOMAIN answer = Procs /\ answer = [q \in Procs |-> answer[q]]

TargetAsObserved(q) ==
  /\ Target(op[q].obs.name) = PlaceOf(op[q].obs)
  /\ Exists(op[q].obs) => /\ entry[PlaceOf(op[q].obs)] = op[q].obs.ino
                         /\ Content(PlaceOf(op[q].obs)) = op[q].obs.ver

WindowOK ==
  Window # "open" =>
    \A p \in Procs : pc[p] = "commit" =>
      /\ TargetAsObserved(p)
      /\ \A q \in Procs \ {p} :
           pc[q] = "commit" => ~Exists(op[p].obs) \/ ~Exists(op[q].obs)

IInv == FilesOK /\ ByProcess /\ (\A q \in Procs : ProcessOK(q)) /\ WindowOK

-----------------------------------------------------------------------------
(* Types of what is computed from the file system.                         *)

LEMMA VersionsAreIntegers ==
  /\ NoVersion \in Versions /\ Empty \in Versions /\ Torn \in Versions /\ 1 \in Versions
  /\ \A v \in 2 .. MaxVersion : v \in Versions
  BY SomeVersions DEF NoVersion, Empty, Torn, Versions

LEMMA ContentType ==
  ASSUME FilesOK, NEW place \in Places
  PROVE  Content(place) \in Versions /\ (entry[place] \in Inodes <=> Content(place) # NoVersion)
<1>1. CASE entry[place] \in Inodes
  BY <1>1 DEF FilesOK, Content, HeldBy
<1>2. CASE entry[place] \notin Inodes
  BY <1>2, VersionsAreIntegers DEF Content, HeldBy
<1> QED
  BY <1>1, <1>2

LEMMA TargetType ==
  ASSUME FilesOK, NEW n \in Names
  PROVE  /\ Target(n) \in Places /\ Target(n)[2] \in Names
         /\ Target(n) = <<parent, Target(n)[2]>>
         /\ entry[<<parent, n>>] = NoInode => Target(n)[2] = n
  BY NamesAndInodes DEF FilesOK, Target, RealPlace, Places

LEMMA NewSessionOK == SessionOK(NewSession)
<1>1. NewSession \in Sessions
  BY VersionsAreIntegers DEF NewSession, Sessions, Bases
<1> QED
  BY <1>1 DEF SessionOK, NewSession, Empty, NoVersion

LEMMA BaseType ==
  ASSUME FilesOK, NEW place \in Places, entry[place] \in Inodes
  PROVE  BaseAt(place) \in Bases /\ BaseAt(place).ver = Content(place) /\ BaseAt(place).ino = entry[place]
  BY ContentType DEF BaseAt, Bases

LEMMA ObservationType ==
  ASSUME FilesOK, NEW n \in Names, Observable(n)
  PROVE  /\ Observation(n) \in Observations
         /\ ~Exists(Observation(n)) =>
              Observation(n).ver = NoVersion /\ Observation(n).at = Observation(n).name
         /\ PlaceOf(Observation(n)) = Target(n)
         /\ Observation(n).ino = entry[Target(n)] /\ Observation(n).ver = Content(Target(n))
<1>1. entry[Target(n)] \in Inodes \cup {NoInode}
  BY NamesAndInodes DEF Observable, Target, RealPlace
<1>2. Content(Target(n)) \in Versions
  BY ContentType, TargetType
<1>3. parent \in Dirs
  BY DEF FilesOK
<1>4. Observation(n) \in Observations
  <2>1. Target(n)[2] \in Names
    BY TargetType
  <2>2. (entry[<<parent, n>>] \in Names) \in BOOLEAN
    OBVIOUS
  <2> QED
    BY <1>1, <1>2, <1>3, <2>1, <2>2, Zenon DEF Observation, Observations
<1>5. ~Exists(Observation(n)) =>
        Observation(n).ver = NoVersion /\ Observation(n).at = Observation(n).name
  BY TargetType, NamesAndInodes DEF Observable, Observation, Exists, Content, HeldBy
<1>6. PlaceOf(Observation(n)) = Target(n)
  BY TargetType DEF PlaceOf, Observation
<1> QED
  BY <1>4, <1>5, <1>6 DEF Observation

-----------------------------------------------------------------------------
(* A step changes at most one process; the other conjuncts follow.         *)

LEMMA SameElsewhere ==
  ASSUME ByProcess, NEW p \in Procs
  PROVE  /\ sess = [sess EXCEPT ![p] = sess[p]] /\ pc = [pc EXCEPT ![p] = pc[p]]
         /\ op = [op EXCEPT ![p] = op[p]] /\ stage = [stage EXCEPT ![p] = stage[p]]
         /\ answer = [answer EXCEPT ![p] = answer[p]]
  BY DEF ByProcess

LEMMA OneProcess ==
  ASSUME ByProcess, \A q \in Procs : ProcessOK(q), NEW p \in Procs,
         NEW s, NEW c, NEW o, NEW st, NEW a,
         sess' = [sess EXCEPT ![p] = s], pc' = [pc EXCEPT ![p] = c], op' = [op EXCEPT ![p] = o],
         stage' = [stage EXCEPT ![p] = st], answer' = [answer EXCEPT ![p] = a],
         SessionOK(s), PlaceInSave(c, o, s, st), a \in AnswerValues
  PROVE  ByProcess' /\ \A q \in Procs : ProcessOK(q)'
<1>1. ByProcess'
  BY DEF ByProcess
<1>2. ASSUME NEW q \in Procs, q # p
      PROVE  ProcessOK(q)'
  <2>1. sess'[q] = sess[q] /\ pc'[q] = pc[q] /\ op'[q] = op[q] /\ stage'[q] = stage[q] /\ answer'[q] = answer[q]
    BY <1>2 DEF ByProcess
  <2> QED
    BY <2>1, <1>2 DEF ProcessOK
<1>3. ProcessOK(p)'
  <2>1. sess'[p] = s /\ pc'[p] = c /\ op'[p] = o /\ stage'[p] = st /\ answer'[p] = a
    BY DEF ByProcess
  <2> QED
    BY <2>1 DEF ProcessOK
<1> QED
  BY <1>1, <1>2, <1>3

LEMMA PlaceOfOperation ==
  ASSUME NEW o \in Operations
  PROVE  /\ PlaceOf(o.obs) \in Places /\ o.obs \in Observations
         /\ o.obs.ino \in Inodes \cup {NoInode} /\ o.obs.ver \in Versions
         /\ o.kind \in {"save", "saveas", "copy"}
  BY DEF Operations, Observations, PlaceOf, Places

(* A process that does not enter the window, in a step that leaves what    *)
(* places hold, keeps the window safe.                                     *)
LEMMA WindowKept ==
  ASSUME ByProcess, \A q \in Procs : ProcessOK(q), WindowOK, NEW p \in Procs, NEW c, NEW o,
         c # "commit", pc' = [pc EXCEPT ![p] = c], op' = [op EXCEPT ![p] = o],
         entry' = entry, parent' = parent, \A place \in Places : Content(place)' = Content(place)
  PROVE  WindowOK'
<1> SUFFICES ASSUME Window # "open", NEW q \in Procs, pc'[q] = "commit"
             PROVE  /\ TargetAsObserved(q)'
                    /\ \A r \in Procs \ {q} :
                         pc'[r] = "commit" => ~Exists(op'[q].obs) \/ ~Exists(op'[r].obs)
  BY DEF WindowOK
<1>1. \A r \in Procs : pc'[r] = "commit" => pc[r] = "commit" /\ op'[r] = op[r]
  BY DEF ByProcess
<1>2. op'[q] = op[q] /\ pc[q] = "commit"
  BY <1>1
<1>3. /\ TargetAsObserved(q)
      /\ \A r \in Procs \ {q} :
           pc[r] = "commit" => ~Exists(op[q].obs) \/ ~Exists(op[r].obs)
  BY <1>2 DEF WindowOK
<1>4. PlaceOf(op[q].obs) \in Places
  BY <1>2, PlaceOfOperation DEF ProcessOK, PlaceInSave, OperationOK
<1>5. TargetAsObserved(q)'
  BY <1>2, <1>3, <1>4 DEF TargetAsObserved, Target, RealPlace, PlaceOf, Exists
<1> QED
  BY <1>1, <1>2, <1>3, <1>5

LEMMA LocalStep ==
  ASSUME IInv, NEW p \in Procs,
         NEW s, NEW c, NEW o, NEW st, NEW a,
         sess' = [sess EXCEPT ![p] = s], pc' = [pc EXCEPT ![p] = c], op' = [op EXCEPT ![p] = o],
         stage' = [stage EXCEPT ![p] = st], answer' = [answer EXCEPT ![p] = a],
         SessionOK(s), PlaceInSave(c, o, s, st), a \in AnswerValues, c # "commit",
         FilesOK', entry' = entry, parent' = parent, \A place \in Places : Content(place)' = Content(place)
  PROVE  IInv'
<1>1. ByProcess' /\ \A q \in Procs : ProcessOK(q)'
  BY OneProcess DEF IInv
<1>2. WindowOK'
  BY WindowKept DEF IInv
<1> QED
  BY <1>1, <1>2 DEF IInv

LEMMA FilesUnchanged ==
  ASSUME FilesOK, entry' = entry, data' = data, parent' = parent, stable' = stable,
         unsynced' = unsynced, litter' = litter, next' = next, promised' = promised
  PROVE  FilesOK' /\ \A place \in Places : Content(place)' = Content(place)
  BY DEF FilesOK, Content, HeldBy

-----------------------------------------------------------------------------
(* The user's steps.                                                       *)

LEMMA NewDocumentStep == ASSUME IInv, NEW p \in Procs, NewDocument(p) PROVE IInv'
<1>1. FilesOK' /\ \A place \in Places : Content(place)' = Content(place)
  BY FilesUnchanged DEF IInv, NewDocument, Undisturbed
<1>2. PlaceInSave(pc[p], op[p], NewSession, stage[p]) /\ answer[p] \in AnswerValues /\ pc[p] # "commit"
  BY DEF IInv, ProcessOK, PlaceInSave, NewDocument, Idle
<1>3. /\ sess' = [sess EXCEPT ![p] = NewSession] /\ pc' = [pc EXCEPT ![p] = pc[p]]
      /\ op' = [op EXCEPT ![p] = op[p]] /\ stage' = [stage EXCEPT ![p] = stage[p]]
      /\ answer' = [answer EXCEPT ![p] = answer[p]] /\ entry' = entry /\ parent' = parent
  BY SameElsewhere DEF IInv, NewDocument, Undisturbed
<1> QED
  BY <1>1, <1>2, <1>3, NewSessionOK, LocalStep

LEMMA OpenDocumentStep == ASSUME IInv, NEW p \in Procs, NEW n \in Names, OpenDocument(p, n) PROVE IInv'
<1> DEFINE base == BaseAt(Target(n))
           s == [path |-> n, base |-> base, text |-> base.ver, saved |-> base.ver]
<1>1. FilesOK' /\ \A place \in Places : Content(place)' = Content(place)
  BY FilesUnchanged DEF IInv, OpenDocument, Undisturbed
<1>2. PlaceInSave(pc[p], op[p], s, stage[p]) /\ answer[p] \in AnswerValues /\ pc[p] # "commit"
  BY DEF IInv, ProcessOK, PlaceInSave, OpenDocument, Idle
<1>3. SessionOK(s)
  <2>1. base \in Bases /\ base.ver \in Versions /\ base.ver # NoVersion
    BY BaseType, TargetType, ContentType DEF IInv, OpenDocument
  <2> QED
    BY <2>1 DEF SessionOK, Sessions
<1>4. /\ sess' = [sess EXCEPT ![p] = s] /\ pc' = [pc EXCEPT ![p] = pc[p]]
      /\ op' = [op EXCEPT ![p] = op[p]] /\ stage' = [stage EXCEPT ![p] = stage[p]]
      /\ answer' = [answer EXCEPT ![p] = answer[p]] /\ entry' = entry /\ parent' = parent
  BY SameElsewhere DEF IInv, OpenDocument, Undisturbed
<1> HIDE DEF s
<1> QED
  BY <1>1, <1>2, <1>3, <1>4, LocalStep

LEMMA NextVersion ==
  ASSUME FilesOK, VersionLeft
  PROVE  next \in Versions /\ next # NoVersion /\ next + 1 \in 2 .. MaxVersion + 1
<1>1. next =< MaxVersion /\ MaxVersion \in Nat
  BY SomeVersions DEF VersionLeft
<1>2. next \in 2 .. MaxVersion
  BY <1>1 DEF FilesOK
<1> QED
  BY <1>1, <1>2, VersionsAreIntegers DEF NoVersion

LEMMA EditStep == ASSUME IInv, NEW p \in Procs, Edit(p) PROVE IInv'
<1> DEFINE s == [sess[p] EXCEPT !.text = next]
<1>1. FilesOK' /\ \A place \in Places : Content(place)' = Content(place)
  <2>1. next' \in 2 .. MaxVersion + 1
    BY NextVersion DEF IInv, Edit
  <2> QED
    BY <2>1 DEF IInv, FilesOK, Edit, Undisturbed, Content, HeldBy
<1>2. PlaceInSave(pc[p], op[p], s, stage[p]) /\ answer[p] \in AnswerValues /\ pc[p] # "commit"
  BY DEF IInv, ProcessOK, PlaceInSave, Edit, Idle
<1>3. SessionOK(s)
  <2>1. next \in Versions /\ next # NoVersion
    BY NextVersion DEF IInv, Edit
  <2>2. sess[p] \in Sessions /\ SessionOK(sess[p])
    BY DEF IInv, ProcessOK, SessionOK
  <2>3. s \in Sessions
    BY <2>1, <2>2, Zenon DEF Sessions
  <2>4. s.base = sess[p].base /\ s.saved = sess[p].saved /\ s.path = sess[p].path /\ s.text = next
    BY <2>2 DEF Sessions
  <2> HIDE DEF s
  <2> QED
    BY <2>1, <2>2, <2>3, <2>4 DEF SessionOK
<1>4. sess' = [sess EXCEPT ![p] = s]
  BY Zenon DEF Edit
<1>5. /\ pc' = [pc EXCEPT ![p] = pc[p]]
      /\ op' = [op EXCEPT ![p] = op[p]] /\ stage' = [stage EXCEPT ![p] = stage[p]]
      /\ answer' = [answer EXCEPT ![p] = answer[p]] /\ entry' = entry /\ parent' = parent
  BY SameElsewhere DEF IInv, Edit, Undisturbed
<1> HIDE DEF s
<1> QED
  BY <1>1, <1>2, <1>3, <1>4, <1>5, LocalStep

-----------------------------------------------------------------------------
(* The way to a commit.                                                    *)

LEMMA FailStep == ASSUME IInv, NEW p \in Procs, Fail(p) PROVE IInv'
<1>1. litter' \subseteq Inodes
  BY DEF IInv, FilesOK, ProcessOK, PlaceInSave, Fail, LitterIfUnlinkFails
<1>2. FilesOK' /\ \A place \in Places : Content(place)' = Content(place)
  BY <1>1 DEF IInv, FilesOK, Fail, Content, HeldBy
<1>3. SessionOK(sess[p]) /\ PlaceInSave("idle", NoOperation, sess[p], NoInode) /\ "failed" \in AnswerValues
  BY DEF IInv, ProcessOK, PlaceInSave, PcValues, AnswerValues
<1>4. /\ sess' = [sess EXCEPT ![p] = sess[p]] /\ pc' = [pc EXCEPT ![p] = "idle"]
      /\ op' = [op EXCEPT ![p] = NoOperation] /\ stage' = [stage EXCEPT ![p] = NoInode]
      /\ answer' = [answer EXCEPT ![p] = "failed"] /\ entry' = entry /\ parent' = parent
  BY SameElsewhere DEF IInv, Fail, Refuse, StageAfterFailure
<1> QED
  BY <1>2, <1>3, <1>4, LocalStep

LEMMA RefuseStep ==
  ASSUME IInv, NEW p \in Procs, pc[p] \in {"idle", "consent"}, Refuse(p),
         Undisturbed, UNCHANGED <<next, promised>>
  PROVE  IInv'
<1>1. FilesOK' /\ \A place \in Places : Content(place)' = Content(place)
  BY FilesUnchanged DEF IInv, Undisturbed
<1>2. /\ SessionOK(sess[p]) /\ "failed" \in AnswerValues
      /\ PlaceInSave("idle", NoOperation, sess[p], stage[p])
  BY DEF IInv, ProcessOK, PlaceInSave, PcValues, AnswerValues
<1>3. /\ sess' = [sess EXCEPT ![p] = sess[p]] /\ pc' = [pc EXCEPT ![p] = "idle"]
      /\ op' = [op EXCEPT ![p] = NoOperation] /\ stage' = [stage EXCEPT ![p] = stage[p]]
      /\ answer' = [answer EXCEPT ![p] = "failed"] /\ entry' = entry /\ parent' = parent
  BY SameElsewhere DEF IInv, Refuse, Undisturbed
<1> QED
  BY <1>1, <1>2, <1>3, LocalStep

LEMMA ProceedStep ==
  ASSUME IInv, NEW p \in Procs, pc[p] \in {"idle", "consent"},
         NEW kind \in {"save", "saveas", "copy"}, NEW obs \in Observations,
         NEW where \in {"consent", "staging"},
         ~Exists(obs) => obs.ver = NoVersion /\ obs.at = obs.name,
         kind = "save" => Exists(obs) /\ obs.ver = sess[p].saved,
         Proceed(p, kind, obs, where), Undisturbed, UNCHANGED <<next, promised>>
  PROVE  IInv'
<1> DEFINE o == [kind |-> kind, obs |-> obs, synced |-> FALSE]
<1>1. FilesOK' /\ \A place \in Places : Content(place)' = Content(place)
  BY FilesUnchanged DEF IInv, Undisturbed
<1>2. o \in Operations
  BY Zenon DEF Operations
<1>3. OperationOK(o, sess[p])
  BY <1>2 DEF OperationOK
<1>4. /\ SessionOK(sess[p]) /\ answer[p] \in AnswerValues
      /\ PlaceInSave(where, o, sess[p], stage[p]) /\ where # "commit"
  <2> HIDE DEF o
  <2> QED
    BY <1>3 DEF IInv, ProcessOK, PlaceInSave, PcValues
<1>5. /\ sess' = [sess EXCEPT ![p] = sess[p]] /\ pc' = [pc EXCEPT ![p] = where]
      /\ op' = [op EXCEPT ![p] = o] /\ stage' = [stage EXCEPT ![p] = stage[p]]
      /\ answer' = [answer EXCEPT ![p] = answer[p]] /\ entry' = entry /\ parent' = parent
  BY SameElsewhere DEF IInv, Proceed, Undisturbed
<1> HIDE DEF o
<1> QED
  BY <1>1, <1>4, <1>5, LocalStep

(* An ordinary Save observes the accepted file, unchanged since.           *)
LEMMA GuardedSaveStep ==
  ASSUME IInv, NEW p \in Procs, pc[p] \in {"idle", "consent"}, sess[p].base # NoBase,
         GuardedSaveOf(p), Undisturbed, UNCHANGED <<next, promised>>
  PROVE  IInv'
<1> DEFINE n == sess[p].path
<1>1. CASE ~MatchesBaseline(sess[p].base, n)
  BY <1>1, RefuseStep DEF GuardedSaveOf
<1>2. CASE MatchesBaseline(sess[p].base, n)
  <2>1. n \in Names /\ sess[p].base.ver = sess[p].saved /\ sess[p].base \in Bases
    BY DEF IInv, ProcessOK, SessionOK, Sessions
  <2>2. Observable(n) /\ BaseAt(Target(n)) = sess[p].base
    BY <1>2 DEF MatchesBaseline
  <2>3. entry[Target(n)] = sess[p].base.ino /\ Content(Target(n)) = sess[p].base.ver
    BY <2>2 DEF BaseAt
  <2>4. sess[p].base.ino \in Inodes
    BY <2>1 DEF Bases
  <2>5. /\ Observation(n) \in Observations /\ Exists(Observation(n))
        /\ Observation(n).ver = sess[p].saved
    BY <2>1, <2>2, <2>3, <2>4, ObservationType, NamesAndInodes DEF IInv, Exists
  <2>6. Proceed(p, "save", Observation(n), "staging")
    BY <1>2 DEF GuardedSaveOf
  <2> QED
    BY <2>5, <2>6, ProceedStep
<1> QED
  BY <1>1, <1>2

LEMMA BeginSaveStep == ASSUME IInv, NEW p \in Procs, BeginSave(p) PROVE IInv'
  BY GuardedSaveStep DEF BeginSave, Idle

LEMMA BeginSaveAsStep ==
  ASSUME IInv, NEW p \in Procs, NEW n \in Names, BeginSaveAs(p, n) PROVE IInv'
<1>1. CASE Observable(n)
  <2>1. /\ Observation(n) \in Observations
        /\ ~Exists(Observation(n)) =>
             Observation(n).ver = NoVersion /\ Observation(n).at = Observation(n).name
    BY <1>1, ObservationType DEF IInv
  <2> QED
    BY <1>1, <2>1, ProceedStep DEF BeginSaveAs, Idle
<1>2. CASE ~Observable(n)
  BY <1>2, RefuseStep DEF BeginSaveAs, Idle
<1> QED
  BY <1>1, <1>2

LEMMA BeginCopyStep ==
  ASSUME IInv, NEW p \in Procs, NEW n \in Names, BeginCopy(p, n) PROVE IInv'
<1>1. CASE Observable(n) /\ CopyAllowed(p, Observation(n))
  <2>1. /\ Observation(n) \in Observations
        /\ ~Exists(Observation(n)) =>
             Observation(n).ver = NoVersion /\ Observation(n).at = Observation(n).name
    BY <1>1, ObservationType DEF IInv
  <2> QED
    BY <1>1, <2>1, ProceedStep DEF BeginCopy, Idle
<1>2. CASE ~(Observable(n) /\ CopyAllowed(p, Observation(n)))
  BY <1>2, RefuseStep DEF BeginCopy, Idle
<1> QED
  BY <1>1, <1>2

LEMMA CancelStep == ASSUME IInv, NEW p \in Procs, Cancel(p) PROVE IInv'
<1>1. FilesOK' /\ \A place \in Places : Content(place)' = Content(place)
  BY FilesUnchanged DEF IInv, Cancel, Undisturbed
<1>2. /\ SessionOK(sess[p]) /\ answer[p] \in AnswerValues
      /\ PlaceInSave("idle", NoOperation, sess[p], stage[p])
  BY DEF IInv, ProcessOK, PlaceInSave, PcValues, Cancel
<1>3. /\ sess' = [sess EXCEPT ![p] = sess[p]] /\ pc' = [pc EXCEPT ![p] = "idle"]
      /\ op' = [op EXCEPT ![p] = NoOperation] /\ stage' = [stage EXCEPT ![p] = stage[p]]
      /\ answer' = [answer EXCEPT ![p] = answer[p]] /\ entry' = entry /\ parent' = parent
  BY SameElsewhere DEF IInv, Cancel, Undisturbed
<1> QED
  BY <1>1, <1>2, <1>3, LocalStep

LEMMA ConfirmStep == ASSUME IInv, NEW p \in Procs, Confirm(p) PROVE IInv'
<1>1. CASE OntoAccepted(p) /\ GuardedSaveOf(p)
  BY <1>1, GuardedSaveStep DEF Confirm, OntoAccepted
<1>2. CASE Forbidden(p) /\ Refuse(p)
  BY <1>2, RefuseStep DEF Confirm
<1>3. CASE Proceed(p, op[p].kind, op[p].obs, "staging")
  <2>1. OperationOK(op[p], sess[p])
    BY DEF IInv, ProcessOK, PlaceInSave, Confirm
  <2>2. op[p].kind \in {"save", "saveas", "copy"} /\ op[p].obs \in Observations
    BY <2>1, PlaceOfOperation DEF OperationOK
  <2> QED
    BY <1>3, <2>1, <2>2, ProceedStep DEF Confirm, OperationOK
<1> QED
  BY <1>1, <1>2, <1>3 DEF Confirm

-----------------------------------------------------------------------------
(* The writer's steps.                                                     *)

(* What a process in the middle of a commit carries.                       *)
LEMMA InCommit ==
  ASSUME IInv, NEW p \in Procs, pc[p] # "idle"
  PROVE  /\ SessionOK(sess[p]) /\ OperationOK(op[p], sess[p]) /\ answer[p] \in AnswerValues
         /\ stage[p] \in Inodes \cup {NoInode} /\ PlaceOf(op[p].obs) \in Places
         /\ sess[p] \in Sessions /\ sess[p].text \in Versions /\ op[p] \in Operations
         /\ op[p].obs \in Observations
<1>1. /\ SessionOK(sess[p]) /\ OperationOK(op[p], sess[p]) /\ answer[p] \in AnswerValues
      /\ stage[p] \in Inodes \cup {NoInode}
  BY DEF IInv, ProcessOK, PlaceInSave
<1> QED
  BY <1>1, PlaceOfOperation DEF OperationOK, SessionOK, Sessions

(* Writing to a free inode changes no file.                                *)
LEMMA FreeInodeWritten ==
  ASSUME FilesOK, NEW inode \in FreeInodes, NEW v \in Versions, v # NoVersion
  PROVE  /\ DataWith(inode, v) \in [Inodes -> Versions]
         /\ \A i \in Inodes : DataWith(inode, v)[i] # NoVersion
         /\ \A place \in Places : entry[place] \in Inodes =>
              DataWith(inode, v)[entry[place]] = data[entry[place]]
<1>1. Empty # NoVersion /\ Empty \in Versions
  BY VersionsAreIntegers DEF Empty, NoVersion
<1>2. \A place \in Places : entry[place] \notin FreeInodes
  BY DEF FreeInodes
<1>3. \A i \in Inodes : DataWith(inode, v)[i] = IF i = inode THEN v ELSE IF i \in FreeInodes THEN Empty ELSE data[i]
  BY DEF DataWith
<1>4. DataWith(inode, v) \in [Inodes -> Versions]
  <2>1. \A i \in Inodes : (IF i = inode THEN v ELSE IF i \in FreeInodes THEN Empty ELSE data[i]) \in Versions
    BY <1>1 DEF FilesOK
  <2> QED
    BY <2>1 DEF DataWith
<1>5. \A i \in Inodes : DataWith(inode, v)[i] # NoVersion
  BY <1>1, <1>3 DEF FilesOK
<1> QED
  BY <1>2, <1>3, <1>4, <1>5

LEMMA CreateStageStep == ASSUME IInv, NEW p \in Procs, CreateStage(p) PROVE IInv'
<1>1. CASE Fail(p)
  BY <1>1, FailStep
<1>2. ASSUME NEW inode \in FreeInodes,
             stage' = [stage EXCEPT ![p] = inode], data' = DataWith(inode, sess[p].text),
             unsynced' = unsynced \cup {inode}, pc' = [pc EXCEPT ![p] = "written"],
             UNCHANGED <<entry, parent, stable, litter, sess, op, answer, next, promised>>
      PROVE  IInv'
  <2>1. inode \in Inodes
    BY DEF FreeInodes
  <2>2. sess[p].text \in Versions /\ sess[p].text # NoVersion
    BY InCommit DEF CreateStage, SessionOK
  <2>3. FilesOK' /\ \A place \in Places : Content(place)' = Content(place)
    BY <1>2, <2>1, <2>2, FreeInodeWritten DEF IInv, FilesOK, Content, HeldBy
  <2>4. PlaceInSave("written", op[p], sess[p], inode)
    BY <2>1, InCommit DEF CreateStage, PlaceInSave, PcValues
  <2>5. SessionOK(sess[p]) /\ answer[p] \in AnswerValues
    BY InCommit DEF CreateStage
  <2>6. /\ sess' = [sess EXCEPT ![p] = sess[p]] /\ op' = [op EXCEPT ![p] = op[p]]
        /\ answer' = [answer EXCEPT ![p] = answer[p]] /\ entry' = entry /\ parent' = parent
    BY <1>2, SameElsewhere DEF IInv
  <2> QED
    BY <1>2, <2>3, <2>4, <2>5, <2>6, LocalStep
<1> QED
  BY <1>1, <1>2 DEF CreateStage

LEMMA SyncStageStep == ASSUME IInv, NEW p \in Procs, SyncStage(p) PROVE IInv'
<1>1. CASE Fail(p)
  BY <1>1, FailStep
<1>2. CASE /\ unsynced' = UnsyncedAfterSync(p) /\ pc' = [pc EXCEPT ![p] = "staged"]
           /\ UNCHANGED <<entry, data, parent, stable, stage, litter, sess, op, answer, next, promised>>
  <2>1. FilesOK' /\ \A place \in Places : Content(place)' = Content(place)
    BY <1>2 DEF IInv, FilesOK, UnsyncedAfterSync, Content, HeldBy
  <2>2. /\ PlaceInSave("staged", op[p], sess[p], stage[p])
        /\ SessionOK(sess[p]) /\ answer[p] \in AnswerValues
    BY InCommit DEF SyncStage, PlaceInSave, PcValues
  <2>3. /\ sess' = [sess EXCEPT ![p] = sess[p]] /\ op' = [op EXCEPT ![p] = op[p]]
        /\ stage' = [stage EXCEPT ![p] = stage[p]]
        /\ answer' = [answer EXCEPT ![p] = answer[p]] /\ entry' = entry /\ parent' = parent
        /\ pc' = [pc EXCEPT ![p] = "staged"]
    BY <1>2, SameElsewhere DEF IInv
  <2> QED
    BY <2>1, <2>2, <2>3, LocalStep
<1> QED
  BY <1>1, <1>2 DEF SyncStage

(* The late revalidation establishes that the target is as observed.       *)
LEMMA RevalidateStep == ASSUME IInv, NEW p \in Procs, Revalidate(p) PROVE IInv'
<1>1. CASE Fail(p)
  BY <1>1, FailStep
<1>2. CASE /\ Revalidated(op[p].obs) /\ pc' = [pc EXCEPT ![p] = "commit"]
           /\ Undisturbed /\ UNCHANGED <<sess, op, answer, next, promised>>
  <2>1. FilesOK' /\ \A place \in Places : Content(place)' = Content(place)
    BY <1>2, FilesUnchanged DEF IInv, Undisturbed
  <2>2. /\ PlaceInSave("commit", op[p], sess[p], stage[p])
        /\ SessionOK(sess[p]) /\ answer[p] \in AnswerValues
    BY InCommit DEF Revalidate, PlaceInSave, PcValues
  <2>3. /\ sess' = [sess EXCEPT ![p] = sess[p]] /\ op' = [op EXCEPT ![p] = op[p]]
        /\ stage' = [stage EXCEPT ![p] = stage[p]]
        /\ answer' = [answer EXCEPT ![p] = answer[p]]
    BY <1>2, SameElsewhere DEF IInv, Undisturbed
  <2>4. ByProcess' /\ \A q \in Procs : ProcessOK(q)'
    BY <1>2, <2>2, <2>3, OneProcess DEF IInv
  <2>5. TargetAsObserved(p)
    <3>1. op[p].obs.name \in Names /\ OperationOK(op[p], sess[p])
      BY InCommit DEF Revalidate, Observations
    <3>2. CASE Exists(op[p].obs)
      <4>1. Observable(op[p].obs.name) /\ Observation(op[p].obs.name) = op[p].obs
        BY <1>2, <3>2 DEF Revalidated
      <4> QED
        BY <3>1, <4>1, ObservationType DEF IInv, TargetAsObserved
    <3>3. CASE ~Exists(op[p].obs)
      BY <1>2, <3>1, <3>3, NamesAndInodes
      DEF Revalidated, OperationOK, Target, RealPlace, PlaceOf, TargetAsObserved
    <3> QED
      BY <3>2, <3>3
  <2>6. WindowOK'
    <3> SUFFICES ASSUME Window # "open", NEW q \in Procs, pc'[q] = "commit"
                 PROVE  /\ TargetAsObserved(q)'
                        /\ \A r \in Procs \ {q} :
                             pc'[r] = "commit" => ~Exists(op[q].obs) \/ ~Exists(op[r].obs)
      BY <1>2 DEF WindowOK
    <3>1. \A r \in Procs : pc'[r] = "commit" => r = p \/ pc[r] = "commit"
      BY <1>2 DEF IInv, ByProcess
    <3>2. \A r \in Procs \ {p} : pc[r] = "commit" => ~Exists(op[r].obs)
      BY DEF Revalidate, OutsideWindow
    <3>3. TargetAsObserved(q)
      BY <2>5, <3>1 DEF IInv, WindowOK
    <3>4. PlaceOf(op[q].obs) \in Places
      BY <3>1, InCommit DEF Revalidate
    <3>5. TargetAsObserved(q)'
      BY <1>2, <2>1, <3>3, <3>4
      DEF TargetAsObserved, Target, RealPlace, PlaceOf, Exists, Undisturbed
    <3> QED
      BY <3>1, <3>2, <3>5
  <2> QED
    BY <2>1, <2>4, <2>6 DEF IInv
<1> QED
  BY <1>1, <1>2 DEF Revalidate

(* A process leaves the window by putting its stage where its target was:  *)
(* a new target was free, and one that exists is nobody else's there.      *)
LEMMA WindowLeft ==
  ASSUME IInv, NEW p \in Procs, pc[p] = "commit", stage[p] \in Inodes,
         ~Exists(op[p].obs) => entry[PlaceOf(op[p].obs)] = NoInode,
         NEW where, where # "commit", StageToTarget(p, where)
  PROVE  WindowOK'
<1> DEFINE place == PlaceOf(op[p].obs)
<1>1. place \in Places /\ op[p].obs.ino \in Inodes \cup {NoInode}
  BY InCommit, PlaceOfOperation
<1> SUFFICES ASSUME Window # "open", NEW q \in Procs, pc'[q] = "commit"
             PROVE  /\ TargetAsObserved(q)'
                    /\ \A r \in Procs \ {q} :
                         pc'[r] = "commit" => ~Exists(op[q].obs) \/ ~Exists(op[r].obs)
  BY DEF WindowOK, StageToTarget
<1>2. \A r \in Procs : pc'[r] = "commit" => r # p /\ pc[r] = "commit"
  BY DEF IInv, ByProcess, StageToTarget
<1>3. TargetAsObserved(p) /\ TargetAsObserved(q)
  BY <1>2 DEF IInv, WindowOK
<1>4. \A r \in Procs \ {q} : pc[r] = "commit" => ~Exists(op[q].obs) \/ ~Exists(op[r].obs)
  BY <1>2 DEF IInv, WindowOK
<1>5. entry[place] \notin Names
  BY <1>1, <1>3, NamesAndInodes DEF TargetAsObserved, Exists
<1>6. /\ entry' = [entry EXCEPT ![place] = stage[p]] /\ data' = data
      /\ parent' = parent /\ op' = op /\ entry \in [Places -> Entries]
  BY DEF StageToTarget, IInv, FilesOK
<1>7. PlaceOf(op[q].obs) \in Places /\ op[q].obs.name \in Names /\ parent \in Dirs
  BY <1>2, InCommit DEF Observations, IInv, FilesOK
<1> HIDE DEF place
<1>8. Target(op[q].obs.name)' = Target(op[q].obs.name)
  <2>1. <<parent, op[q].obs.name>> \in Places
    BY <1>7 DEF Places
  <2>2. CASE <<parent, op[q].obs.name>> = place
    <3>1. entry'[<<parent, op[q].obs.name>>] \notin Names
      BY <1>1, <1>6, <2>2, NamesAndInodes
    <3> QED
      BY <1>5, <1>6, <2>2, <3>1 DEF Target, RealPlace
  <2>3. CASE <<parent, op[q].obs.name>> # place
    BY <1>6, <2>1, <2>3 DEF Target, RealPlace
  <2> QED
    BY <2>2, <2>3
<1>9. Exists(op[q].obs) => PlaceOf(op[q].obs) # place
  BY <1>2, <1>3, <1>4 DEF TargetAsObserved, Exists, place
<1>10. TargetAsObserved(q)'
  BY <1>3, <1>6, <1>7, <1>8, <1>9 DEF TargetAsObserved, Content, HeldBy, PlaceOf, Exists
<1> QED
  BY <1>2, <1>4, <1>10

LEMMA StageToTargetStep ==
  ASSUME IInv, NEW p \in Procs, pc[p] = "commit", stage[p] # NoInode,
         NEW where \in {"linked", "committed"}, StageToTarget(p, where),
         NEW st \in Inodes \cup {NoInode}, stage' = [stage EXCEPT ![p] = st],
         where = "committed" => st = NoInode,
         ~Exists(op[p].obs) => entry[PlaceOf(op[p].obs)] = NoInode
  PROVE  IInv'
<1>1. stage[p] \in Inodes /\ PlaceOf(op[p].obs) \in Places
  BY InCommit
<1>2. FilesOK'
  <2>1. entry' \in [Places -> Entries]
    BY <1>1 DEF IInv, FilesOK, StageToTarget, Entries
  <2>2. promised' \in [Places -> Versions]
    BY <1>1, VersionsAreIntegers DEF IInv, FilesOK, StageToTarget
  <2> QED
    BY <2>1, <2>2 DEF IInv, FilesOK, StageToTarget
<1>3. /\ PlaceInSave(where, op[p], sess[p], st)
      /\ SessionOK(sess[p]) /\ answer[p] \in AnswerValues
  BY InCommit DEF PlaceInSave, PcValues
<1>4. /\ sess' = [sess EXCEPT ![p] = sess[p]] /\ op' = [op EXCEPT ![p] = op[p]]
      /\ answer' = [answer EXCEPT ![p] = answer[p]] /\ pc' = [pc EXCEPT ![p] = where]
  BY SameElsewhere DEF IInv, StageToTarget
<1>5. ByProcess' /\ \A q \in Procs : ProcessOK(q)'
  BY <1>3, <1>4, OneProcess DEF IInv
<1>6. WindowOK'
  BY <1>1, WindowLeft
<1> QED
  BY <1>2, <1>5, <1>6 DEF IInv

LEMMA ReplaceStep == ASSUME IInv, NEW p \in Procs, Replace(p) PROVE IInv'
  BY FailStep, StageToTargetStep DEF Replace

LEMMA RenameNoReplaceStep == ASSUME IInv, NEW p \in Procs, RenameNoReplace(p) PROVE IInv'
  BY FailStep, StageToTargetStep DEF RenameNoReplace, TargetFree

LEMMA LinkStageStep == ASSUME IInv, NEW p \in Procs, LinkStage(p) PROVE IInv'
<1>1. stage[p] \in Inodes \cup {NoInode} /\ stage' = [stage EXCEPT ![p] = stage[p]]
  BY InCommit, SameElsewhere DEF LinkStage, IInv
<1> QED
  BY <1>1, StageToTargetStep DEF LinkStage, TargetFree

LEMMA UnlinkStageStep == ASSUME IInv, NEW p \in Procs, UnlinkStage(p) PROVE IInv'
<1>1. litter' \subseteq Inodes
  BY InCommit DEF IInv, FilesOK, UnlinkStage, LitterIfUnlinkFails
<1>2. FilesOK' /\ \A place \in Places : Content(place)' = Content(place)
  BY <1>1 DEF IInv, FilesOK, UnlinkStage, Content, HeldBy
<1>3. /\ PlaceInSave("committed", op[p], sess[p], NoInode)
      /\ SessionOK(sess[p]) /\ answer[p] \in AnswerValues
  BY InCommit DEF UnlinkStage, PlaceInSave, PcValues
<1>4. /\ sess' = [sess EXCEPT ![p] = sess[p]] /\ op' = [op EXCEPT ![p] = op[p]]
      /\ answer' = [answer EXCEPT ![p] = answer[p]] /\ entry' = entry /\ parent' = parent
      /\ pc' = [pc EXCEPT ![p] = "committed"] /\ stage' = [stage EXCEPT ![p] = NoInode]
  BY SameElsewhere DEF IInv, UnlinkStage
<1> QED
  BY <1>2, <1>3, <1>4, LocalStep

LEMMA SyncDirectoryStep == ASSUME IInv, NEW p \in Procs, SyncDirectory(p) PROVE IInv'
<1> DEFINE o == [op[p] EXCEPT !.synced = TRUE]
<1>1. stable' \in [Places -> Entries]
  <2>1. CASE stable' = stable
    BY <2>1 DEF IInv, FilesOK
  <2>2. CASE stable' = [place \in Places |->
                          IF place[1] = op[p].obs.dir THEN entry[place] ELSE stable[place]]
    BY <2>2 DEF IInv, FilesOK
  <2> QED
    BY <2>1, <2>2 DEF SyncDirectory
<1>2. FilesOK' /\ \A place \in Places : Content(place)' = Content(place)
  BY <1>1 DEF IInv, FilesOK, SyncDirectory, Content, HeldBy
<1>3. OperationOK(op[p], sess[p]) /\ OperationOK(o, sess[p])
  <2>1. OperationOK(op[p], sess[p]) /\ op[p] \in Operations
    BY InCommit DEF SyncDirectory
  <2>2. o \in Operations
    BY <2>1, Zenon DEF Operations
  <2>3. o.obs = op[p].obs /\ o.kind = op[p].kind
    BY <2>1 DEF Operations
  <2> HIDE DEF o
  <2> QED
    BY <2>1, <2>2, <2>3 DEF OperationOK
<1>4. /\ SessionOK(sess[p]) /\ answer[p] \in AnswerValues
      /\ stage[p] = NoInode
  BY InCommit DEF SyncDirectory, IInv, ProcessOK, PlaceInSave
<1>5. PlaceInSave("synced", op[p], sess[p], stage[p]) /\ PlaceInSave("synced", o, sess[p], stage[p])
  <2> HIDE DEF o
  <2> QED
    BY <1>3, <1>4 DEF PlaceInSave, PcValues
<1>6. op' = [op EXCEPT ![p] = o] \/ op' = [op EXCEPT ![p] = op[p]]
  <2>1. CASE op' = op
    BY <2>1, SameElsewhere DEF IInv
  <2>2. CASE op' = [op EXCEPT ![p].synced = TRUE]
    BY <2>2, Zenon
  <2> QED
    BY <2>1, <2>2 DEF SyncDirectory
<1>7. /\ sess' = [sess EXCEPT ![p] = sess[p]] /\ stage' = [stage EXCEPT ![p] = stage[p]]
      /\ answer' = [answer EXCEPT ![p] = answer[p]] /\ entry' = entry /\ parent' = parent
      /\ pc' = [pc EXCEPT ![p] = "synced"]
  BY SameElsewhere DEF IInv, SyncDirectory
<1> HIDE DEF o
<1> QED
  BY <1>2, <1>4, <1>5, <1>6, <1>7, LocalStep

(* The baseline that Finish accepts holds the text that was saved.         *)
LEMMA FinishStep == ASSUME IInv, NEW p \in Procs, Finish(p) PROVE IInv'
<1> DEFINE n == op[p].obs.name
           base == IF BaselineAvailable(p) THEN BaseAt(Target(n)) ELSE NoBase
           s == [path |-> n, text |-> sess[p].text, saved |-> sess[p].text, base |-> base]
<1>1. /\ SessionOK(sess[p]) /\ sess[p] \in Sessions /\ sess[p].text \in Versions
      /\ sess[p].text # NoVersion /\ n \in Names /\ PlaceOf(op[p].obs) \in Places
      /\ stage[p] = NoInode
  BY InCommit DEF Finish, SessionOK, Observations, IInv, ProcessOK, PlaceInSave
<1>2. base \in Bases /\ (base # NoBase => base.ver = sess[p].text)
  <2>1. CASE BaselineAvailable(p)
    <3>1. Target(n) \in Places /\ Content(Target(n)) = sess[p].text
      BY <1>1, <2>1, TargetType DEF BaselineAvailable, IInv
    <3>2. entry[Target(n)] \in Inodes
      BY <1>1, <3>1, ContentType DEF IInv
    <3> QED
      BY <2>1, <3>1, <3>2, BaseType DEF IInv
  <2>2. CASE ~BaselineAvailable(p)
    BY <2>2 DEF Bases
  <2> QED
    BY <2>1, <2>2
<1>3. SessionOK(s)
  <2> HIDE DEF base
  <2> QED
    BY <1>1, <1>2 DEF SessionOK, Sessions
<1>4. SessionOK(Accepted(p))
  <2>1. CASE op[p].kind = "copy"
    BY <1>1, <2>1 DEF Accepted
  <2>2. CASE op[p].kind # "copy"
    <3>1. Accepted(p) = s
      BY <2>2, Zenon DEF Accepted
    <3> HIDE DEF s
    <3> QED
      BY <1>3, <3>1
  <2> QED
    BY <2>1, <2>2
<1>5. FilesOK' /\ \A place \in Places : Content(place)' = Content(place)
  <2>1. promised' \in [Places -> Versions]
    BY <1>1, ContentType DEF IInv, FilesOK, Finish
  <2> QED
    BY <2>1 DEF IInv, FilesOK, Finish, Undisturbed, Content, HeldBy
<1>6. PlaceInSave("idle", NoOperation, Accepted(p), stage[p]) /\ Disposition(p) \in AnswerValues
  BY <1>1 DEF PlaceInSave, PcValues, Disposition, AnswerValues
<1>7. /\ sess' = [sess EXCEPT ![p] = Accepted(p)] /\ stage' = [stage EXCEPT ![p] = stage[p]]
      /\ answer' = [answer EXCEPT ![p] = Disposition(p)] /\ entry' = entry /\ parent' = parent
      /\ pc' = [pc EXCEPT ![p] = "idle"] /\ op' = [op EXCEPT ![p] = NoOperation]
  BY SameElsewhere DEF IInv, Finish, Undisturbed
<1> QED
  BY <1>4, <1>5, <1>6, <1>7, LocalStep

-----------------------------------------------------------------------------
(* Crash, power loss and other programs.                                   *)

LEMMA CrashStep == ASSUME IInv, NEW p \in Procs, Crash(p) PROVE IInv'
<1>1. litter' \subseteq Inodes
  BY InCommit DEF IInv, FilesOK, Crash, Idle
<1>2. FilesOK' /\ \A place \in Places : Content(place)' = Content(place)
  BY <1>1 DEF IInv, FilesOK, Crash, Content, HeldBy
<1>3. PlaceInSave("idle", NoOperation, NewSession, NoInode) /\ "none" \in AnswerValues
  BY DEF PlaceInSave, PcValues, AnswerValues
<1>4. /\ sess' = [sess EXCEPT ![p] = NewSession] /\ op' = [op EXCEPT ![p] = NoOperation]
      /\ answer' = [answer EXCEPT ![p] = "none"] /\ entry' = entry /\ parent' = parent
      /\ pc' = [pc EXCEPT ![p] = "idle"] /\ stage' = [stage EXCEPT ![p] = NoInode]
  BY DEF Crash
<1> QED
  BY <1>2, <1>3, <1>4, NewSessionOK, LocalStep

LEMMA PowerLossStep == ASSUME IInv, PowerLoss PROVE IInv'
<1>1. entry' \in [Places -> Entries] /\ stable' \in [Places -> Entries]
  BY DEF PowerLoss, Entries, IInv, FilesOK
<1>2. data' \in [Inodes -> Versions] /\ (\A i \in Inodes : data'[i] # NoVersion)
  BY VersionsAreIntegers DEF IInv, FilesOK, PowerLoss, Torn, NoVersion
<1>3. litter' \subseteq Inodes /\ unsynced' \subseteq Inodes
  <2>1. \A p \in Procs : stage[p] \in Inodes \cup {NoInode}
    BY DEF IInv, ProcessOK, PlaceInSave
  <2> QED
    BY <2>1 DEF IInv, FilesOK, PowerLoss
<1>4. FilesOK'
  BY <1>1, <1>2, <1>3 DEF IInv, FilesOK, PowerLoss
<1>5. ByProcess'
  BY DEF PowerLoss, ByProcess
<1>6. ASSUME NEW q \in Procs PROVE ProcessOK(q)' /\ pc'[q] # "commit"
  <2>1. /\ sess'[q] = NewSession /\ pc'[q] = "idle" /\ op'[q] = NoOperation
        /\ stage'[q] = NoInode /\ answer'[q] = "none"
    BY DEF PowerLoss
  <2> QED
    BY <2>1, NewSessionOK DEF ProcessOK, PlaceInSave, PcValues, AnswerValues
<1> QED
  BY <1>4, <1>5, <1>6 DEF IInv, WindowOK

(* Other programs stay out of the window; they change no process but for a *)
(* stage that is taken.                                                    *)
LEMMA ForeignKept ==
  ASSUME IInv, NEW kind, ForeignDo(kind), UNCHANGED <<sess, pc, op, answer>>, FilesOK',
         stage' = stage \/ \E p \in Procs : stage' = [stage EXCEPT ![p] = NoInode]
  PROVE  IInv'
<1>1. WindowOK'
  BY DEF WindowOK, ForeignDo
<1>2. ByProcess'
  BY DEF IInv, ByProcess
<1>3. ASSUME NEW q \in Procs PROVE ProcessOK(q)'
  <2>1. ProcessOK(q)
    BY DEF IInv
  <2>2. stage'[q] = stage[q] \/ stage'[q] = NoInode
    BY DEF IInv, ByProcess
  <2>3. /\ sess'[q] = sess[q] /\ pc'[q] = pc[q] /\ op'[q] = op[q] /\ answer'[q] = answer[q]
    OBVIOUS
  <2> QED
    BY <2>1, <2>2, <2>3 DEF ProcessOK, PlaceInSave
<1> QED
  BY <1>1, <1>2, <1>3 DEF IInv

(* What other programs do to a place keeps the types of the file system.   *)
LEMMA OthersTypes ==
  ASSUME FilesOK, NEW place \in Places,
         NEW newEntry \in [Places -> Entries], NEW newData \in [Inodes -> Versions],
         \A i \in Inodes : newData[i] # NoVersion,
         Others(newEntry, newData, place), next' \in 2 .. MaxVersion + 1
  PROVE  FilesOK' /\ stage' = stage /\ UNCHANGED <<sess, pc, op, answer>>
<1>1. promised' \in [Places -> Versions]
  BY VersionsAreIntegers DEF FilesOK, Others
<1>2. stable' \in [Places -> Entries]
  BY DEF FilesOK, Others
<1> QED
  BY <1>1, <1>2 DEF FilesOK, Others

LEMMA ForeignWriteStep == ASSUME IInv, NEW place \in Places, ForeignWrite(place) PROVE IInv'
<1>1. FilesOK /\ entry \in [Places -> Entries] /\ entry[place] \in Inodes
  BY DEF IInv, FilesOK, ForeignWrite
<1>2. /\ [data EXCEPT ![entry[place]] = next] \in [Inodes -> Versions]
      /\ \A i \in Inodes : [data EXCEPT ![entry[place]] = next][i] # NoVersion
      /\ next' \in 2 .. MaxVersion + 1
  BY <1>1, NextVersion DEF FilesOK, ForeignWrite
<1> QED
  BY <1>1, <1>2, OthersTypes, ForeignKept DEF ForeignWrite

LEMMA ForeignPutStep == ASSUME IInv, NEW place \in Places, ForeignPut(place) PROVE IInv'
<1>1. FilesOK /\ next \in Versions /\ next # NoVersion /\ next' \in 2 .. MaxVersion + 1
  BY NextVersion DEF IInv, ForeignPut
<1>2. PICK inode \in FreeInodes :
        Others([entry EXCEPT ![place] = inode], DataWith(inode, next), place)
  BY DEF ForeignPut
<1>3. [entry EXCEPT ![place] = inode] \in [Places -> Entries]
  BY DEF IInv, FilesOK, Entries, FreeInodes
<1>4. /\ DataWith(inode, next) \in [Inodes -> Versions]
      /\ \A i \in Inodes : DataWith(inode, next)[i] # NoVersion
  BY <1>1, FreeInodeWritten
<1>5. FilesOK' /\ stage' = stage /\ UNCHANGED <<sess, pc, op, answer>>
  BY <1>1, <1>2, <1>3, <1>4, OthersTypes
<1> QED
  BY <1>5, ForeignKept DEF ForeignPut

LEMMA ForeignRemoveStep == ASSUME IInv, NEW place \in Places, ForeignRemove(place) PROVE IInv'
<1>1. [entry EXCEPT ![place] = NoInode] \in [Places -> Entries]
  BY DEF IInv, FilesOK, Entries
<1> QED
  BY <1>1, OthersTypes, ForeignKept DEF IInv, FilesOK, ForeignRemove

LEMMA ForeignHardLinkStep ==
  ASSUME IInv, NEW place \in Places, NEW other \in Places, ForeignHardLink(place, other) PROVE IInv'
<1>1. [entry EXCEPT ![place] = entry[other]] \in [Places -> Entries]
  BY DEF IInv, FilesOK, Entries, ForeignHardLink
<1> QED
  BY <1>1, OthersTypes, ForeignKept DEF IInv, FilesOK, ForeignHardLink

LEMMA ForeignSymlinkStep ==
  ASSUME IInv, NEW d \in Dirs, NEW n \in Names, NEW to \in Names, ForeignSymlink(d, n, to) PROVE IInv'
<1>1. [entry EXCEPT ![<<d, n>>] = to] \in [Places -> Entries] /\ <<d, n>> \in Places
  BY DEF IInv, FilesOK, Entries, Places
<1> QED
  BY <1>1, OthersTypes, ForeignKept DEF IInv, FilesOK, ForeignSymlink

LEMMA ForeignParentStep == ASSUME IInv, NEW d \in Dirs, ForeignParent(d) PROVE IInv'
<1>1. FilesOK'
  BY DEF IInv, FilesOK, ForeignParent
<1> QED
  BY <1>1, ForeignKept DEF ForeignParent

LEMMA ForeignCleanStep == ASSUME IInv, NEW p \in Procs, ForeignClean(p) PROVE IInv'
<1>1. FilesOK'
  BY DEF IInv, FilesOK, ForeignClean
<1> QED
  BY <1>1, ForeignKept DEF ForeignClean

LEMMA StutteringStep == ASSUME IInv, UNCHANGED vars PROVE IInv'
<1>1. FilesOK' /\ ByProcess'
  BY DEF vars, IInv, FilesOK, ByProcess
<1>2. \A q \in Procs : ProcessOK(q)'
  BY DEF vars, IInv, ProcessOK
<1>3. \A q \in Procs : TargetAsObserved(q)' = TargetAsObserved(q)
  BY DEF vars, TargetAsObserved, Target, RealPlace, Content, HeldBy
<1>4. WindowOK'
  BY <1>3 DEF vars, IInv, WindowOK
<1> QED
  BY <1>1, <1>2, <1>4 DEF IInv

-----------------------------------------------------------------------------
(* The invariant.                                                          *)

LEMMA InitInvariant == ASSUME Init PROVE IInv
<1>1. FilesOK
  <2>1. data \in [Inodes -> Versions] /\ (\A i \in Inodes : data[i] # NoVersion)
    BY VersionsAreIntegers DEF Init, NoVersion
  <2>2. entry \in [Places -> Entries]
    BY WorldsAreDescribed DEF Init, World, Entries
  <2>3. /\ parent \in Dirs /\ stable = entry /\ unsynced = {} /\ litter = {} /\ next = 2
        /\ promised = [place \in Places |-> NoVersion]
    BY DEF Init, DirsHere
  <2>4. 2 \in 2 .. MaxVersion + 1
    BY SomeVersions
  <2>5. stable \in [Places -> Entries] /\ promised \in [Places -> Versions]
    BY <2>2, <2>3, VersionsAreIntegers
  <2> QED
    BY <2>1, <2>2, <2>3, <2>4, <2>5 DEF FilesOK
<1>2. ByProcess
  BY DEF Init, ByProcess
<1>3. ASSUME NEW q \in Procs PROVE ProcessOK(q) /\ pc[q] # "commit"
  <2>1. /\ sess[q] = NewSession /\ pc[q] = "idle" /\ op[q] = NoOperation
        /\ stage[q] = NoInode /\ answer[q] = "none"
    BY DEF Init
  <2> QED
    BY <2>1, NewSessionOK DEF ProcessOK, PlaceInSave, PcValues, AnswerValues
<1> QED
  BY <1>1, <1>2, <1>3 DEF IInv, WindowOK

LEMMA StepInvariant == ASSUME IInv, [Next]_vars PROVE IInv'
<1>1. ASSUME NEW p \in Procs, UserStep(p) PROVE IInv'
  BY <1>1, NewDocumentStep, OpenDocumentStep, EditStep, BeginSaveStep, BeginSaveAsStep,
     BeginCopyStep, CancelStep, ConfirmStep DEF UserStep, NamesHere
<1>2. ASSUME NEW p \in Procs, WriterStep(p) PROVE IInv'
  BY <1>2, CreateStageStep, SyncStageStep, RevalidateStep, ReplaceStep, RenameNoReplaceStep,
     LinkStageStep, UnlinkStageStep, SyncDirectoryStep, FinishStep DEF WriterStep
<1>3. ASSUME ForeignStep PROVE IInv'
  BY <1>3, ForeignWriteStep, ForeignPutStep, ForeignRemoveStep, ForeignHardLinkStep,
     ForeignSymlinkStep, ForeignParentStep, ForeignCleanStep
  DEF ForeignStep, Here, NamesHere, DirsHere, Places
<1> QED
  BY <1>1, <1>2, <1>3, CrashStep, PowerLossStep, StutteringStep DEF Next

THEOREM Invariant == Spec => []IInv
  BY InitInvariant, StepInvariant, PTL DEF Spec

(* Every reachable state of the file system, of every editor's session and *)
(* of every save under way has its type; a stage name outlives no commit.  *)
(* This is about every operation of save_service.py, copy_service.py and   *)
(* guarded_file_writer.py, with crashes, power loss and other programs.    *)
THEOREM TypeCorrect == Spec => []TypeOK
<1>1. IInv => TypeOK
  <2> SUFFICES ASSUME IInv PROVE TypeOK
    OBVIOUS
  <2>1. /\ sess \in [Procs -> Sessions] /\ pc \in [Procs -> PcValues]
        /\ stage \in [Procs -> Inodes \cup {NoInode}] /\ answer \in [Procs -> AnswerValues]
    BY DEF IInv, ByProcess, ProcessOK, PlaceInSave, SessionOK
  <2>2. ASSUME NEW p \in Procs
        PROVE  /\ Idle(p) => op[p] = NoOperation
               /\ ~Idle(p) => op[p] \in Operations
               /\ pc[p] \in {"idle", "consent", "staging", "committed", "synced"} => stage[p] = NoInode
    BY DEF IInv, ProcessOK, PlaceInSave, OperationOK, Idle
  <2> QED
    BY <2>1, <2>2 DEF IInv, FilesOK, TypeOK, Entries, Sessions, Operations, PcValues, AnswerValues
<1> QED
  BY <1>1, Invariant, PTL

(* Whatever fails, crashes or is written by others, the baseline an editor *)
(* accepted (accept_committed_save, or opening) is the text its user last  *)
(* opened or saved: a foreign version that slipped in behind the rename is *)
(* never taken for the saved one.                                          *)
THEOREM BaselineIsSaved == Spec => []SavedIsBaseline
<1>1. IInv => SavedIsBaseline
  BY DEF IInv, ProcessOK, SessionOK, SavedIsBaseline
<1> QED
  BY <1>1, Invariant, PTL

(* Commits are the two renames and the link.                               *)
LEMMA CommitsAreRenames ==
  ASSUME IInv, [Next]_vars, NEW p \in Procs, Commits(p)
  PROVE  Replace(p) \/ RenameNoReplace(p) \/ LinkStage(p)
<1> USE DEF Idle
<1>1. pc[p] = "commit" /\ pc'[p] \in {"committed", "linked"} /\ ByProcess
  BY DEF Commits, IInv
<1>2. ASSUME NEW q \in Procs, UserStep(q) PROVE FALSE
  <2>1. \/ pc' = pc
        \/ \E c \in {"idle", "consent", "staging"} : pc' = [pc EXCEPT ![q] = c]
    BY <1>2 DEF UserStep, NewDocument, OpenDocument, Edit, BeginSave, BeginSaveAs, BeginCopy,
       Cancel, Confirm, GuardedSaveOf, Proceed, Refuse
  <2> QED
    BY <1>1, <2>1 DEF ByProcess
<1>3. ASSUME NEW q \in Procs, WriterStep(q), q # p PROVE FALSE
  <2>1. \E c \in PcValues : pc' = [pc EXCEPT ![q] = c]
    BY <1>3 DEF WriterStep, CreateStage, SyncStage, Revalidate, Replace, RenameNoReplace, LinkStage,
       StageToTarget, UnlinkStage, SyncDirectory, Finish, Fail, Refuse, PcValues
  <2> QED
    BY <1>1, <1>3, <2>1 DEF ByProcess
<1>4. ASSUME NEW q \in Procs, Crash(q) PROVE FALSE
  BY <1>1, <1>4 DEF Crash, ByProcess
<1>5. ASSUME PowerLoss PROVE FALSE
  BY <1>1, <1>5 DEF PowerLoss
<1>6. ASSUME ForeignStep PROVE FALSE
  BY <1>1, <1>6 DEF ForeignStep, ForeignWrite, ForeignPut, ForeignRemove, ForeignHardLink, ForeignSymlink,
     ForeignParent, ForeignClean, Others
<1>7. WriterStep(p)
  BY <1>1, <1>2, <1>3, <1>4, <1>5, <1>6 DEF Next, vars
<1> QED
  BY <1>1, <1>7 DEF WriterStep, CreateStage, SyncStage, Revalidate, UnlinkStage, SyncDirectory, Finish

(* A commit onto a new name finds it free, the window open or not: the     *)
(* rename itself checks it.                                                *)
LEMMA NewTargetIsFree ==
  ASSUME IInv, [Next]_vars, NEW p \in Procs, Commits(p), ~Exists(op[p].obs)
  PROVE  entry[PlaceOf(op[p].obs)] = NoInode
<1>1. (RenameNoReplace(p) \/ LinkStage(p)) /\ pc'[p] \in {"committed", "linked"}
  BY CommitsAreRenames DEF Replace, Commits
<1> QED
  BY <1>1 DEF RenameNoReplace, LinkStage, TargetFree, Fail, Refuse, IInv, ByProcess

(* With the window not open, a commit finds what was observed and promised.  *)
LEMMA CommitsAsObserved ==
  ASSUME IInv, Window # "open", [Next]_vars, NEW p \in Procs, Commits(p)
  PROVE  /\ Target(op[p].obs.name) = PlaceOf(op[p].obs)
         /\ Content(PlaceOf(op[p].obs)) = IF op[p].kind = "save" THEN sess[p].saved ELSE op[p].obs.ver
<1>1. pc[p] = "commit" /\ TargetAsObserved(p) /\ OperationOK(op[p], sess[p])
  BY DEF Commits, IInv, WindowOK, ProcessOK, PlaceInSave
<1>2. CASE Exists(op[p].obs)
  BY <1>1, <1>2 DEF TargetAsObserved, OperationOK
<1>3. CASE ~Exists(op[p].obs)
  <2>1. op[p].obs.ver = NoVersion /\ op[p].kind # "save"
    BY <1>1, <1>3 DEF OperationOK
  <2> QED
    BY <1>1, <1>3, <2>1, NewTargetIsFree, NamesAndInodes DEF Content, HeldBy, TargetAsObserved
<1> QED
  BY <1>2, <1>3

(* Whoever creates the name in the last moment, a save to a new name never *)
(* replaces it: renameat2(RENAME_NOREPLACE) and the link fallback check    *)
(* what the late revalidation cannot.                                      *)
THEOREM NewTargetsAreFree == Spec => NewTargetNeverOverwrites
<1>1. ASSUME IInv, [Next]_vars
      PROVE  [\A p \in Procs : Commits(p) /\ ~Exists(op[p].obs) =>
                entry[PlaceOf(op[p].obs)] = NoInode]_vars
  BY <1>1, NewTargetIsFree
<1> QED
  BY <1>1, Invariant, PTL DEF Spec, NewTargetNeverOverwrites

(* As long as nobody acts between _late_revalidate and the rename but      *)
(* other editors, and they only where the target is a new name, a commit   *)
(* overwrites only the version its user opened or saved last (Save) or     *)
(* agreed to lose (Save As, a copy), with any number of editors and other  *)
(* programs at work around it.                                             *)
THEOREM NothingUnreadOverwritten == ASSUME Window # "open" PROVE Spec => NeverOverwritesUnread
<1>1. ASSUME IInv, [Next]_vars
      PROVE  [\A p \in Procs : Commits(p) =>
                Content(PlaceOf(op[p].obs)) =
                  IF op[p].kind = "save" THEN sess[p].saved ELSE op[p].obs.ver]_vars
  BY <1>1, CommitsAsObserved
<1> QED
  BY <1>1, Invariant, PTL DEF Spec, NeverOverwritesUnread

(* Under the same assumption a commit reaches the place its path leads to, *)
(* wherever links and the parent were turned since the observation.        *)
THEOREM CommitsReachThePath == ASSUME Window # "open" PROVE Spec => CommitsWhereThePathLeads
<1>1. ASSUME IInv, [Next]_vars
      PROVE  [\A p \in Procs : Commits(p) => Target(op[p].obs.name) = PlaceOf(op[p].obs)]_vars
  BY <1>1, CommitsAsObserved
<1> QED
  BY <1>1, Invariant, PTL DEF Spec, CommitsWhereThePathLeads

-----------------------------------------------------------------------------
(* What the files hold.  A stage that is being written is nobody else's    *)
(* and under no name, and holds the text of its save; before it gets a     *)
(* name its data was synced, so that no name ever leads to data that a     *)
(* loss of power could tear.                                               *)
StageOK(p) ==
  /\ pc[p] \in {"written", "staged", "commit"} /\ stage[p] # NoInode =>
       data[stage[p]] = sess[p].text /\ \A place \in Places : entry[place] # stage[p]
  /\ pc[p] \in {"staged", "commit", "linked"} => stage[p] \notin unsynced
  /\ \A q \in Procs \ {p} : stage[p] = stage[q] => stage[p] = NoInode

NamesWhole ==
  \A place \in Places :
    /\ entry[place] \notin unsynced /\ stable[place] \notin unsynced
    /\ Content(place) # Torn /\ HeldBy(stable[place]) # Torn

(* Versions are new when they are handed out.                              *)
TextOK(s, n) == s.text < n /\ s.text # Torn

(* What a copy is written to is not the active file.                       *)
Apart(obs, s) ==
  obs.name # s.path /\ (Exists(obs) /\ s.base # NoBase => obs.ino # s.base.ino)

CopyApart(c, o, s) == c # "idle" /\ o.kind = "copy" => Apart(o.obs, s)

DataOK ==
  /\ NamesWhole
  /\ \A i \in Inodes : data[i] < next
  /\ \A p \in Procs : StageOK(p) /\ TextOK(sess[p], next) /\ CopyApart(pc[p], op[p], sess[p])

LEMMA NextIsNatural ==
  ASSUME FilesOK
  PROVE  next \in Nat /\ next >= 2
  BY SomeVersions DEF FilesOK

LEMMA CopyAllowedIsApart == \A p, obs : CopyAllowed(p, obs) <=> Apart(obs, sess[p])
  BY DEF CopyAllowed, Apart

LEMMA OthersStay ==
  ASSUME ByProcess, NEW p \in Procs, NEW s, NEW c, NEW o, NEW st,
         sess' = [sess EXCEPT ![p] = s], pc' = [pc EXCEPT ![p] = c],
         op' = [op EXCEPT ![p] = o], stage' = [stage EXCEPT ![p] = st]
  PROVE  /\ sess'[p] = s /\ pc'[p] = c /\ op'[p] = o /\ stage'[p] = st
         /\ \A q \in Procs \ {p} :
              sess'[q] = sess[q] /\ pc'[q] = pc[q] /\ op'[q] = op[q] /\ stage'[q] = stage[q]
  BY DEF ByProcess

(* A step of one process that changes no file but what a directory was     *)
(* last synced to hold.                                                    *)
LEMMA DataKept ==
  ASSUME IInv, DataOK, NEW p \in Procs, NEW s, NEW c, NEW o, NEW st \in {stage[p], NoInode},
         sess' = [sess EXCEPT ![p] = s], pc' = [pc EXCEPT ![p] = c],
         op' = [op EXCEPT ![p] = o], stage' = [stage EXCEPT ![p] = st],
         entry' = entry, data' = data, unsynced' \subseteq unsynced,
         \A place \in Places : stable'[place] \in {stable[place], entry[place]},
         next' \in Nat, next =< next', TextOK(s, next'), CopyApart(c, o, s),
         c \in {"written", "staged", "commit"} /\ st # NoInode =>
           pc[p] \in {"written", "staged", "commit"} /\ s.text = sess[p].text,
         c \in {"staged", "commit", "linked"} => st \notin unsynced'
  PROVE  DataOK'
<1>1. /\ sess'[p] = s /\ pc'[p] = c /\ op'[p] = o /\ stage'[p] = st
      /\ \A q \in Procs \ {p} :
           sess'[q] = sess[q] /\ pc'[q] = pc[q] /\ op'[q] = op[q] /\ stage'[q] = stage[q]
  BY OthersStay DEF IInv
<1>2. NamesWhole'
  BY DEF DataOK, NamesWhole, Content, HeldBy
<1>3. next \in Nat
  BY NextIsNatural DEF IInv
<1>4. ASSUME NEW v \in Int, v < next
      PROVE  v < next'
  BY <1>3, <1>4
<1>5. \A i \in Inodes : data[i] \in Int
  BY DEF IInv, FilesOK, Versions
<1>6. \A q \in Procs : sess[q].text \in Int
  BY DEF IInv, ProcessOK, SessionOK, Sessions, Versions
<1>7. ASSUME NEW q \in Procs
      PROVE  TextOK(sess'[q], next') /\ CopyApart(pc'[q], op'[q], sess'[q])
  <2>1. CASE q = p
    BY <1>1, <2>1
  <2>2. CASE q # p
    BY <1>1, <1>4, <1>6, <2>2 DEF DataOK, TextOK
  <2> QED
    BY <2>1, <2>2
<1>8. ASSUME NEW q \in Procs
      PROVE  StageOK(q)'
  <2>1. \A r \in Procs \ {q} : stage'[q] = stage'[r] => stage'[q] = NoInode
    BY <1>1 DEF DataOK, StageOK
  <2>2. CASE q = p
    BY <1>1, <2>1, <2>2 DEF DataOK, StageOK
  <2>3. CASE q # p
    BY <1>1, <2>1, <2>3 DEF DataOK, StageOK
  <2> QED
    BY <2>2, <2>3
<1> QED
  BY <1>2, <1>4, <1>5, <1>7, <1>8 DEF DataOK

-----------------------------------------------------------------------------
(* What the files hold: the user's steps.                                  *)

LEMMA DataKeptByUser ==
  ASSUME IInv, DataOK, NEW p \in Procs, NEW s, NEW c \in {"idle", "consent", "staging"}, NEW o,
         sess' = [sess EXCEPT ![p] = s], pc' = [pc EXCEPT ![p] = c],
         op' = [op EXCEPT ![p] = o], Undisturbed,
         next' \in Nat, next =< next', TextOK(s, next'), CopyApart(c, o, s)
  PROVE  DataOK'
<1>1. /\ stage' = [stage EXCEPT ![p] = stage[p]]
      /\ entry' = entry /\ data' = data /\ unsynced' = unsynced /\ stable' = stable
  BY SameElsewhere DEF IInv, Undisturbed
<1> QED
  BY <1>1, DataKept

LEMMA TextsAreOld ==
  ASSUME IInv, DataOK, NEW p \in Procs
  PROVE  TextOK(sess[p], next) /\ TextOK(NewSession, next) /\ next \in Nat /\ CopyApart(pc[p], op[p], sess[p])
<1>1. next \in Nat /\ next >= 2
  BY NextIsNatural DEF IInv
<1>2. TextOK(NewSession, next)
  BY <1>1 DEF TextOK, NewSession, Empty, Torn
<1> QED
  BY <1>1, <1>2 DEF DataOK

LEMMA NewDocumentData == ASSUME IInv, DataOK, NEW p \in Procs, NewDocument(p) PROVE DataOK'
<1>1. pc[p] = "idle" /\ next' = next /\ next' \in Nat /\ next =< next'
  BY TextsAreOld DEF NewDocument, Idle
<1>2. TextOK(NewSession, next') /\ CopyApart(pc[p], op[p], NewSession)
  BY <1>1, TextsAreOld DEF CopyApart
<1>3. /\ sess' = [sess EXCEPT ![p] = NewSession] /\ pc' = [pc EXCEPT ![p] = pc[p]]
      /\ op' = [op EXCEPT ![p] = op[p]] /\ Undisturbed
  BY SameElsewhere DEF IInv, NewDocument
<1> QED
  BY <1>1, <1>2, <1>3, DataKeptByUser

LEMMA OpenDocumentData ==
  ASSUME IInv, DataOK, NEW p \in Procs, NEW n \in Names, OpenDocument(p, n) PROVE DataOK'
<1> DEFINE base == BaseAt(Target(n))
           s == [path |-> n, base |-> base, text |-> base.ver, saved |-> base.ver]
<1>1. pc[p] = "idle" /\ next' = next /\ next' \in Nat /\ next =< next'
  BY TextsAreOld DEF OpenDocument, Idle
<1>2. TextOK(s, next')
  <2>1. Target(n) \in Places /\ entry[Target(n)] \in Inodes
    BY TargetType DEF IInv, OpenDocument
  <2>2. s.text = data[entry[Target(n)]] /\ s.text # Torn
    BY <2>1 DEF DataOK, NamesWhole, BaseAt, Content, HeldBy
  <2> QED
    BY <1>1, <2>1, <2>2 DEF TextOK, DataOK
<1>3. CopyApart(pc[p], op[p], s)
  BY <1>1 DEF CopyApart
<1>4. /\ sess' = [sess EXCEPT ![p] = s] /\ pc' = [pc EXCEPT ![p] = pc[p]]
      /\ op' = [op EXCEPT ![p] = op[p]] /\ Undisturbed
  BY SameElsewhere DEF IInv, OpenDocument
<1> HIDE DEF s
<1> QED
  BY <1>1, <1>2, <1>3, <1>4, DataKeptByUser

LEMMA EditData == ASSUME IInv, DataOK, NEW p \in Procs, Edit(p) PROVE DataOK'
<1> DEFINE s == [sess[p] EXCEPT !.text = next]
<1>1. pc[p] = "idle" /\ next' = next + 1 /\ next \in Nat /\ next' \in Nat /\ next =< next'
  BY TextsAreOld DEF Edit, Idle
<1>2. TextOK(s, next')
  <2>1. s.text = next
    BY DEF IInv, ProcessOK, SessionOK, Sessions
  <2> QED
    BY <1>1, <2>1 DEF TextOK, Torn
<1>3. CopyApart(pc[p], op[p], s)
  BY <1>1 DEF CopyApart
<1>4. sess' = [sess EXCEPT ![p] = s]
  BY Zenon DEF Edit
<1>5. pc' = [pc EXCEPT ![p] = pc[p]] /\ op' = [op EXCEPT ![p] = op[p]] /\ Undisturbed
  BY SameElsewhere DEF IInv, Edit
<1> HIDE DEF s
<1> QED
  BY <1>1, <1>2, <1>3, <1>4, <1>5, DataKeptByUser

LEMMA RefuseData ==
  ASSUME IInv, DataOK, NEW p \in Procs, Refuse(p), Undisturbed, next' = next
  PROVE  DataOK'
<1>1. TextOK(sess[p], next') /\ next' \in Nat /\ next =< next'
  BY TextsAreOld
<1>2. CopyApart("idle", NoOperation, sess[p])
  BY DEF CopyApart
<1>3. /\ sess' = [sess EXCEPT ![p] = sess[p]] /\ pc' = [pc EXCEPT ![p] = "idle"]
      /\ op' = [op EXCEPT ![p] = NoOperation]
  BY SameElsewhere DEF IInv, Refuse
<1> QED
  BY <1>1, <1>2, <1>3, DataKeptByUser

LEMMA ProceedData ==
  ASSUME IInv, DataOK, NEW p \in Procs, NEW kind, NEW obs, NEW where \in {"consent", "staging"},
         kind = "copy" => Apart(obs, sess[p]),
         Proceed(p, kind, obs, where), Undisturbed, next' = next
  PROVE  DataOK'
<1> DEFINE o == [kind |-> kind, obs |-> obs, synced |-> FALSE]
<1>1. TextOK(sess[p], next') /\ next' \in Nat /\ next =< next'
  BY TextsAreOld
<1>2. CopyApart(where, o, sess[p])
  BY DEF CopyApart
<1>3. /\ sess' = [sess EXCEPT ![p] = sess[p]] /\ pc' = [pc EXCEPT ![p] = where]
      /\ op' = [op EXCEPT ![p] = o]
  BY SameElsewhere DEF IInv, Proceed
<1> HIDE DEF o
<1> QED
  BY <1>1, <1>2, <1>3, DataKeptByUser

LEMMA GuardedSaveData ==
  ASSUME IInv, DataOK, NEW p \in Procs, GuardedSaveOf(p), Undisturbed, next' = next
  PROVE  DataOK'
  BY RefuseData, ProceedData DEF GuardedSaveOf

LEMMA BeginSaveAsData ==
  ASSUME IInv, DataOK, NEW p \in Procs, NEW n \in Names, BeginSaveAs(p, n) PROVE DataOK'
  BY RefuseData, ProceedData DEF BeginSaveAs

LEMMA BeginCopyData ==
  ASSUME IInv, DataOK, NEW p \in Procs, NEW n \in Names, BeginCopy(p, n) PROVE DataOK'
  BY RefuseData, ProceedData, CopyAllowedIsApart DEF BeginCopy

LEMMA CancelData == ASSUME IInv, DataOK, NEW p \in Procs, Cancel(p) PROVE DataOK'
<1>1. TextOK(sess[p], next') /\ next' \in Nat /\ next =< next' /\ Undisturbed
  BY TextsAreOld DEF Cancel
<1>2. CopyApart("idle", NoOperation, sess[p])
  BY DEF CopyApart
<1>3. /\ sess' = [sess EXCEPT ![p] = sess[p]] /\ pc' = [pc EXCEPT ![p] = "idle"]
      /\ op' = [op EXCEPT ![p] = NoOperation]
  BY SameElsewhere DEF IInv, Cancel
<1> QED
  BY <1>1, <1>2, <1>3, DataKeptByUser

LEMMA ConfirmData == ASSUME IInv, DataOK, NEW p \in Procs, Confirm(p) PROVE DataOK'
<1>1. CASE GuardedSaveOf(p)
  BY <1>1, GuardedSaveData DEF Confirm
<1>2. CASE Refuse(p)
  BY <1>2, RefuseData DEF Confirm
<1>3. CASE ~Forbidden(p) /\ Proceed(p, op[p].kind, op[p].obs, "staging")
  BY <1>3, ProceedData, CopyAllowedIsApart DEF Confirm, Forbidden
<1> QED
  BY <1>1, <1>2, <1>3 DEF Confirm

LEMMA UserData == ASSUME IInv, DataOK, NEW p \in Procs, UserStep(p) PROVE DataOK'
  BY NewDocumentData, OpenDocumentData, EditData, GuardedSaveData, BeginSaveAsData,
     BeginCopyData, CancelData, ConfirmData DEF UserStep, NamesHere, BeginSave

-----------------------------------------------------------------------------
(* What the files hold: the writer's steps.                                *)

LEMMA FailData == ASSUME IInv, DataOK, NEW p \in Procs, Fail(p) PROVE DataOK'
<1>1. TextOK(sess[p], next') /\ next' \in Nat /\ next =< next'
  BY TextsAreOld DEF Fail
<1>2. CopyApart("idle", NoOperation, sess[p])
  BY DEF CopyApart
<1>3. /\ sess' = [sess EXCEPT ![p] = sess[p]] /\ pc' = [pc EXCEPT ![p] = "idle"]
      /\ op' = [op EXCEPT ![p] = NoOperation] /\ stage' = [stage EXCEPT ![p] = NoInode]
      /\ entry' = entry /\ data' = data /\ unsynced' = unsynced /\ stable' = stable
  BY SameElsewhere DEF IInv, Fail, Refuse, StageAfterFailure
<1> QED
  BY <1>1, <1>2, <1>3, DataKept

(* A free inode is under no name and nobody's stage; taking it for a whole *)
(* version changes no file.                                                *)
LEMMA FreshInode ==
  ASSUME IInv, DataOK, NEW inode \in FreeInodes, NEW v \in Int, v # Torn, v # NoVersion
  PROVE  /\ inode \in Inodes /\ inode # NoInode /\ DataWith(inode, v)[inode] = v
         /\ \A place \in Places :
              /\ entry[place] # inode /\ stable[place] # inode
              /\ entry[place] \in Inodes => DataWith(inode, v)[entry[place]] = data[entry[place]]
              /\ stable[place] \in Inodes => DataWith(inode, v)[stable[place]] = data[stable[place]]
         /\ \A q \in Procs :
              /\ stage[q] # inode
              /\ stage[q] # NoInode => DataWith(inode, v)[stage[q]] = data[stage[q]]
         /\ \A i \in Inodes : DataWith(inode, v)[i] \in {v, Empty, data[i]}
<1>1. inode \in Inodes /\ inode # NoInode
  BY NamesAndInodes DEF FreeInodes
<1>2. \A i \in Inodes : DataWith(inode, v)[i] = IF i = inode THEN v ELSE IF i \in FreeInodes THEN Empty ELSE data[i]
  BY DEF DataWith
<1>3. \A place \in Places : entry[place] \notin FreeInodes /\ stable[place] \notin FreeInodes
  BY DEF FreeInodes
<1>4. \A q \in Procs : stage[q] \notin FreeInodes /\ stage[q] \in Inodes \cup {NoInode}
  BY DEF FreeInodes, IInv, ProcessOK, PlaceInSave
<1> QED
  BY <1>1, <1>2, <1>3, <1>4

LEMMA CreateStageData == ASSUME IInv, DataOK, NEW p \in Procs, CreateStage(p) PROVE DataOK'
<1>1. CASE Fail(p)
  BY <1>1, FailData
<1>2. ASSUME NEW inode \in FreeInodes,
             stage' = [stage EXCEPT ![p] = inode], data' = DataWith(inode, sess[p].text),
             unsynced' = unsynced \cup {inode}, pc' = [pc EXCEPT ![p] = "written"],
             UNCHANGED <<entry, parent, stable, litter, sess, op, answer, next, promised>>
      PROVE  DataOK'
  <2> DEFINE v == sess[p].text
  <2>1. v \in Int /\ v # NoVersion /\ v # Torn /\ v < next /\ next \in Nat /\ next >= 2
    BY InCommit, TextsAreOld, NextIsNatural DEF CreateStage, SessionOK, TextOK, Versions, IInv
  <2>2. /\ inode \in Inodes /\ inode # NoInode /\ data'[inode] = v
        /\ \A place \in Places :
             /\ entry[place] # inode /\ stable[place] # inode
             /\ entry[place] \in Inodes => data'[entry[place]] = data[entry[place]]
             /\ stable[place] \in Inodes => data'[stable[place]] = data[stable[place]]
        /\ \A q \in Procs :
             /\ stage[q] # inode
             /\ stage[q] # NoInode => data'[stage[q]] = data[stage[q]]
        /\ \A i \in Inodes : data'[i] \in {v, Empty, data[i]}
    <3> HIDE DEF v
    <3> QED
      BY <1>2, <2>1, FreshInode DEF v
  <2>3. NamesWhole'
    BY <1>2, <2>2 DEF DataOK, NamesWhole, Content, HeldBy
  <2>4. \A i \in Inodes : data'[i] < next'
    BY <1>2, <2>1, <2>2 DEF DataOK, Empty
  <2>5. /\ pc'[p] = "written" /\ stage'[p] = inode
        /\ \A q \in Procs \ {p} : pc'[q] = pc[q] /\ stage'[q] = stage[q]
        /\ sess' = sess /\ op' = op /\ next' = next /\ entry' = entry
    BY <1>2 DEF IInv, ByProcess
  <2>6. \A q \in Procs : TextOK(sess'[q], next') /\ CopyApart(pc'[q], op'[q], sess'[q])
    BY <2>5 DEF DataOK, CopyApart, CreateStage
  <2>7. ASSUME NEW q \in Procs
        PROVE  StageOK(q)'
    <3>1. \A r \in Procs \ {q} : stage'[q] = stage'[r] => stage'[q] = NoInode
      BY <2>2, <2>5 DEF DataOK, StageOK
    <3>2. CASE q = p
      BY <2>2, <2>5, <3>1, <3>2 DEF StageOK
    <3>3. CASE q # p
      BY <1>2, <2>2, <2>5, <3>1, <3>3 DEF DataOK, StageOK
    <3> QED
      BY <3>2, <3>3
  <2> QED
    BY <2>3, <2>4, <2>5, <2>6, <2>7 DEF DataOK, TextOK
<1> QED
  BY <1>1, <1>2 DEF CreateStage

(* A writer's step that keeps its operation and what it saves.             *)
LEMMA DataKeptByWriter ==
  ASSUME IInv, DataOK, NEW p \in Procs, pc[p] # "idle",
         NEW c, NEW o, NEW st \in {stage[p], NoInode}, o.kind = op[p].kind, o.obs = op[p].obs,
         sess' = sess, pc' = [pc EXCEPT ![p] = c], op' = [op EXCEPT ![p] = o],
         stage' = [stage EXCEPT ![p] = st], entry' = entry, data' = data,
         unsynced' \subseteq unsynced, next' = next,
         \A place \in Places : stable'[place] \in {stable[place], entry[place]},
         c \in {"written", "staged", "commit"} /\ st # NoInode => pc[p] \in {"written", "staged", "commit"},
         c \in {"staged", "commit", "linked"} => st \notin unsynced'
  PROVE  DataOK'
<1>1. TextOK(sess[p], next') /\ next' \in Nat /\ next =< next'
  BY TextsAreOld
<1>2. CopyApart(c, o, sess[p])
  BY TextsAreOld DEF CopyApart
<1>3. sess' = [sess EXCEPT ![p] = sess[p]]
  BY SameElsewhere DEF IInv
<1> QED
  BY <1>1, <1>2, <1>3, DataKept

LEMMA SyncStageData == ASSUME IInv, DataOK, NEW p \in Procs, SyncStage(p) PROVE DataOK'
<1>1. CASE Fail(p)
  BY <1>1, FailData
<1>2. CASE /\ unsynced' = UnsyncedAfterSync(p) /\ pc' = [pc EXCEPT ![p] = "staged"]
           /\ UNCHANGED <<entry, data, parent, stable, stage, litter, sess, op, answer, next, promised>>
  <2>1. unsynced' \subseteq unsynced /\ stage[p] \notin unsynced' /\ pc[p] = "written"
    BY <1>2 DEF UnsyncedAfterSync, SyncStage
  <2>2. op' = [op EXCEPT ![p] = op[p]] /\ stage' = [stage EXCEPT ![p] = stage[p]]
    BY <1>2, SameElsewhere DEF IInv
  <2> QED
    BY <1>2, <2>1, <2>2, DataKeptByWriter
<1> QED
  BY <1>1, <1>2 DEF SyncStage

LEMMA RevalidateData == ASSUME IInv, DataOK, NEW p \in Procs, Revalidate(p) PROVE DataOK'
<1>1. CASE Fail(p)
  BY <1>1, FailData
<1>2. CASE /\ pc' = [pc EXCEPT ![p] = "commit"]
           /\ Undisturbed /\ UNCHANGED <<sess, op, answer, next, promised>>
  <2>1. stage[p] \notin unsynced' /\ pc[p] = "staged"
    BY <1>2 DEF DataOK, StageOK, Revalidate, Undisturbed
  <2>2. op' = [op EXCEPT ![p] = op[p]] /\ stage' = [stage EXCEPT ![p] = stage[p]]
    BY <1>2, SameElsewhere DEF IInv, Undisturbed
  <2> QED
    BY <1>2, <2>1, <2>2, DataKeptByWriter DEF Undisturbed
<1> QED
  BY <1>1, <1>2 DEF Revalidate

(* What is renamed or linked is whole, and was under no name.              *)
LEMMA StageToTargetData ==
  ASSUME IInv, DataOK, NEW p \in Procs, pc[p] = "commit", stage[p] # NoInode,
         NEW where \in {"linked", "committed"}, StageToTarget(p, where),
         NEW st \in {stage[p], NoInode}, stage' = [stage EXCEPT ![p] = st]
  PROVE  DataOK'
<1> DEFINE at == PlaceOf(op[p].obs)
<1>1. stage[p] \in Inodes /\ at \in Places
  BY InCommit
<1>2. /\ pc'[p] = where /\ stage'[p] = st /\ sess' = sess /\ op' = op /\ next' = next
      /\ data' = data /\ unsynced' = unsynced /\ stable' = stable
      /\ \A q \in Procs \ {p} : pc'[q] = pc[q] /\ stage'[q] = stage[q]
      /\ \A place \in Places : entry'[place] = IF place = at THEN stage[p] ELSE entry[place]
  BY <1>1 DEF StageToTarget, IInv, ByProcess, FilesOK
<1> HIDE DEF at
<1>3. /\ data[stage[p]] = sess[p].text /\ stage[p] \notin unsynced /\ sess[p].text # Torn
  BY DEF DataOK, StageOK, TextOK
<1>4. NamesWhole'
  BY <1>1, <1>2, <1>3 DEF DataOK, NamesWhole, Content, HeldBy
<1>5. \A q \in Procs : TextOK(sess'[q], next') /\ CopyApart(pc'[q], op'[q], sess'[q])
  BY <1>2 DEF DataOK, CopyApart
<1>6. ASSUME NEW q \in Procs
      PROVE  StageOK(q)'
  <2>1. \A r \in Procs \ {q} : stage'[q] = stage'[r] => stage'[q] = NoInode
    BY <1>2 DEF DataOK, StageOK
  <2>2. CASE q = p
    <3>1. st \notin unsynced'
      BY <1>2, <1>3, NamesAndInodes DEF IInv, FilesOK
    <3> QED
      BY <1>2, <2>1, <2>2, <3>1 DEF StageOK
  <2>3. CASE q # p
    <3>1. StageOK(q) /\ (stage[q] = stage[p] => stage[q] = NoInode)
      BY <2>3 DEF DataOK, StageOK
    <3>2. /\ pc'[q] = pc[q] /\ stage'[q] = stage[q] /\ sess'[q] = sess[q]
          /\ data' = data /\ unsynced' = unsynced
      BY <1>2, <2>3
    <3>3. stage[q] # NoInode /\ (\A place \in Places : entry[place] # stage[q]) =>
            \A place \in Places : entry'[place] # stage[q]
      BY <1>2, <3>1
    <3> QED
      BY <2>1, <3>1, <3>2, <3>3 DEF StageOK
  <2> QED
    BY <2>2, <2>3
<1> QED
  BY <1>2, <1>4, <1>5, <1>6 DEF DataOK

LEMMA ReplaceData == ASSUME IInv, DataOK, NEW p \in Procs, Replace(p) PROVE DataOK'
  BY FailData, StageToTargetData DEF Replace

LEMMA RenameNoReplaceData == ASSUME IInv, DataOK, NEW p \in Procs, RenameNoReplace(p) PROVE DataOK'
  BY FailData, StageToTargetData DEF RenameNoReplace

LEMMA LinkStageData == ASSUME IInv, DataOK, NEW p \in Procs, LinkStage(p) PROVE DataOK'
<1>1. stage' = [stage EXCEPT ![p] = stage[p]]
  BY SameElsewhere DEF IInv, LinkStage
<1> QED
  BY <1>1, StageToTargetData DEF LinkStage

LEMMA UnlinkStageData == ASSUME IInv, DataOK, NEW p \in Procs, UnlinkStage(p) PROVE DataOK'
<1>1. op' = [op EXCEPT ![p] = op[p]]
  BY SameElsewhere DEF IInv, UnlinkStage
<1> QED
  BY <1>1, DataKeptByWriter DEF UnlinkStage

LEMMA SyncDirectoryData == ASSUME IInv, DataOK, NEW p \in Procs, SyncDirectory(p) PROVE DataOK'
<1> DEFINE o == [op[p] EXCEPT !.synced = TRUE]
<1>1. o.kind = op[p].kind /\ o.obs = op[p].obs
  BY InCommit DEF SyncDirectory, Operations
<1>2. op' = [op EXCEPT ![p] = o] \/ op' = [op EXCEPT ![p] = op[p]]
  <2>1. CASE op' = op
    BY <2>1, SameElsewhere DEF IInv
  <2>2. CASE op' = [op EXCEPT ![p].synced = TRUE]
    BY <2>2, Zenon
  <2> QED
    BY <2>1, <2>2 DEF SyncDirectory
<1>3. \A place \in Places : stable'[place] \in {stable[place], entry[place]}
  BY DEF SyncDirectory
<1>4. stage' = [stage EXCEPT ![p] = stage[p]] /\ pc[p] = "committed"
  BY SameElsewhere DEF IInv, SyncDirectory
<1> HIDE DEF o
<1> QED
  BY <1>1, <1>2, <1>3, <1>4, DataKeptByWriter DEF SyncDirectory

LEMMA FinishData == ASSUME IInv, DataOK, NEW p \in Procs, Finish(p) PROVE DataOK'
<1>1. TextOK(sess[p], next') /\ next' \in Nat /\ next =< next'
  BY TextsAreOld DEF Finish
<1>2. Accepted(p).text = sess[p].text
  BY DEF Accepted
<1>3. TextOK(Accepted(p), next') /\ CopyApart("idle", NoOperation, Accepted(p))
  BY <1>1, <1>2 DEF TextOK, CopyApart
<1>4. /\ sess' = [sess EXCEPT ![p] = Accepted(p)] /\ pc' = [pc EXCEPT ![p] = "idle"]
      /\ op' = [op EXCEPT ![p] = NoOperation] /\ Undisturbed
  BY DEF Finish
<1> QED
  BY <1>1, <1>3, <1>4, DataKeptByUser

LEMMA WriterData == ASSUME IInv, DataOK, NEW p \in Procs, WriterStep(p) PROVE DataOK'
  BY CreateStageData, SyncStageData, RevalidateData, ReplaceData, RenameNoReplaceData,
     LinkStageData, UnlinkStageData, SyncDirectoryData, FinishData DEF WriterStep

-----------------------------------------------------------------------------
(* What the files hold: crash, power loss and other programs.              *)

LEMMA CrashData == ASSUME IInv, DataOK, NEW p \in Procs, Crash(p) PROVE DataOK'
<1>1. TextOK(NewSession, next') /\ next' \in Nat /\ next =< next'
  BY TextsAreOld DEF Crash
<1>2. CopyApart("idle", NoOperation, NewSession)
  BY DEF CopyApart
<1>3. /\ sess' = [sess EXCEPT ![p] = NewSession] /\ pc' = [pc EXCEPT ![p] = "idle"]
      /\ op' = [op EXCEPT ![p] = NoOperation] /\ stage' = [stage EXCEPT ![p] = NoInode]
      /\ entry' = entry /\ data' = data /\ unsynced' = unsynced /\ stable' = stable
  BY DEF Crash
<1> QED
  BY <1>1, <1>2, <1>3, DataKept

LEMMA PowerLossData == ASSUME IInv, DataOK, PowerLoss PROVE DataOK'
<1>1. /\ \A place \in Places : entry'[place] \in {entry[place], stable[place]} /\ stable' = entry'
      /\ \A i \in Inodes : data'[i] = IF i \in unsynced THEN Torn ELSE data[i]
      /\ unsynced' = {} /\ next' = next
      /\ \A q \in Procs : /\ stage'[q] = NoInode /\ sess'[q] = NewSession
                          /\ pc'[q] = "idle" /\ op'[q] = NoOperation
  BY DEF PowerLoss
<1>2. next \in Nat /\ next >= 2
  BY NextIsNatural DEF IInv
<1>3. NamesWhole'
  BY <1>1 DEF DataOK, NamesWhole, Content, HeldBy
<1>4. \A i \in Inodes : data'[i] < next'
  BY <1>1, <1>2 DEF DataOK, Torn
<1>5. TextOK(NewSession, next)
  BY <1>2 DEF TextOK, NewSession, Empty, Torn
<1>6. \A q \in Procs : StageOK(q)' /\ TextOK(sess'[q], next') /\ CopyApart(pc'[q], op'[q], sess'[q])
  BY <1>1, <1>5 DEF StageOK, CopyApart
<1> QED
  BY <1>3, <1>4, <1>6 DEF DataOK

(* What other programs do to one place: they put a whole file, a link or   *)
(* nothing there, and leave every stage that is still to be renamed alone. *)
LEMMA OthersData ==
  ASSUME IInv, DataOK, NEW place \in Places,
         \A at \in Places \ {place} : entry'[at] = entry[at] /\ stable'[at] = stable[at],
         stable'[place] = entry'[place], unsynced' = unsynced \ {entry'[place]},
         UNCHANGED <<stage, sess, pc, op>>,
         next' \in Nat, next =< next', \A i \in Inodes : data'[i] < next',
         entry'[place] \in Inodes => data'[entry'[place]] # Torn,
         \A at \in Places :
           /\ entry[at] \in Inodes => data'[entry[at]] = data[entry[at]] \/ data'[entry[at]] = next
           /\ stable[at] \in Inodes => data'[stable[at]] = data[stable[at]] \/ data'[stable[at]] = next,
         \A q \in Procs :
           pc[q] \in {"written", "staged", "commit"} /\ stage[q] # NoInode =>
             data'[stage[q]] = data[stage[q]] /\ entry'[place] # stage[q]
  PROVE  DataOK'
<1>1. next \in Nat
  BY NextIsNatural DEF IInv
<1>2. NamesWhole'
  <2>1. ASSUME NEW at \in Places, at # place
        PROVE  /\ entry'[at] \notin unsynced' /\ stable'[at] \notin unsynced'
               /\ Content(at)' # Torn /\ HeldBy(stable[at])' # Torn
    <3>1. entry'[at] = entry[at] /\ stable'[at] = stable[at]
      BY <2>1
    <3>2. /\ entry[at] \notin unsynced /\ stable[at] \notin unsynced
          /\ HeldBy(entry[at]) # Torn /\ HeldBy(stable[at]) # Torn
      BY DEF DataOK, NamesWhole, Content
    <3>3. next # Torn /\ NoVersion # Torn
      BY <1>1 DEF Torn, NoVersion
    <3> QED
      BY <3>1, <3>2, <3>3 DEF HeldBy, Content
  <2>2. /\ entry'[place] \notin unsynced' /\ stable'[place] \notin unsynced'
        /\ Content(place)' # Torn /\ HeldBy(stable[place])' # Torn
    BY DEF HeldBy, Content, Torn, NoVersion
  <2> QED
    BY <2>1, <2>2 DEF NamesWhole
<1>3. ASSUME NEW q \in Procs
      PROVE  StageOK(q)'
  <2>1. StageOK(q)
    BY DEF DataOK
  <2>2. pc[q] \in {"written", "staged", "commit"} /\ stage[q] # NoInode =>
          /\ data'[stage[q]] = data[stage[q]]
          /\ \A at \in Places : entry'[at] # stage[q]
    BY <2>1 DEF StageOK
  <2> QED
    BY <2>1, <2>2 DEF StageOK
<1>4. ASSUME NEW q \in Procs
      PROVE  TextOK(sess'[q], next') /\ CopyApart(pc'[q], op'[q], sess'[q])
  <2>1. sess[q].text \in Int
    BY DEF IInv, ProcessOK, SessionOK, Sessions, Versions
  <2>2. TextOK(sess[q], next) /\ CopyApart(pc[q], op[q], sess[q])
    BY DEF DataOK
  <2> QED
    BY <1>1, <2>1, <2>2 DEF TextOK
<1> QED
  BY <1>2, <1>3, <1>4 DEF DataOK

LEMMA NextIsNew ==
  ASSUME IInv, DataOK
  PROVE  /\ next \in Nat /\ next # Torn /\ next # NoVersion /\ next > 0
         /\ \A i \in Inodes : data[i] \in Int /\ data[i] < next /\ data[i] < next + 1
<1>1. next \in Nat /\ next >= 2
  BY NextIsNatural DEF IInv
<1>2. \A i \in Inodes : data[i] \in Int /\ data[i] < next
  BY DEF IInv, FilesOK, DataOK, Versions
<1> QED
  BY <1>1, <1>2 DEF Torn, NoVersion

LEMMA ForeignWriteData ==
  ASSUME IInv, DataOK, NEW place \in Places, ForeignWrite(place) PROVE DataOK'
<1> DEFINE x == entry[place]
<1>1. /\ x \in Inodes /\ next' = next + 1 /\ entry' = entry /\ data' = [data EXCEPT ![x] = next]
      /\ stable' = [stable EXCEPT ![place] = x] /\ unsynced' = unsynced \ {x}
      /\ UNCHANGED <<stage, sess, pc, op>>
  BY DEF ForeignWrite, Others
<1>2. \A i \in Inodes : data'[i] = IF i = x THEN next ELSE data[i]
  BY <1>1 DEF IInv, FilesOK
<1>3. \A q \in Procs : stage[q] \in Inodes \cup {NoInode}
  BY DEF IInv, ProcessOK, PlaceInSave
<1>4. ASSUME NEW q \in Procs, pc[q] \in {"written", "staged", "commit"}, stage[q] # NoInode
      PROVE  data'[stage[q]] = data[stage[q]] /\ entry'[place] # stage[q]
  <2>1. x # stage[q]
    BY <1>4 DEF DataOK, StageOK
  <2> QED
    BY <1>1, <1>2, <1>3, <1>4, <2>1
<1>5. \A i \in Inodes : data'[i] < next' /\ data'[i] \in {data[i], next}
  BY <1>1, <1>2, NextIsNew
<1>6. data'[entry'[place]] # Torn /\ next' \in Nat /\ next =< next'
  BY <1>1, <1>2, NextIsNew
<1>7. /\ \A at \in Places \ {place} : entry'[at] = entry[at] /\ stable'[at] = stable[at]
      /\ stable'[place] = entry'[place] /\ unsynced' = unsynced \ {entry'[place]}
  BY <1>1 DEF IInv, FilesOK
<1> HIDE DEF x
<1> QED
  BY <1>1, <1>4, <1>5, <1>6, <1>7, OthersData

LEMMA ForeignPutData ==
  ASSUME IInv, DataOK, NEW place \in Places, ForeignPut(place) PROVE DataOK'
<1>1. PICK x \in FreeInodes : Others([entry EXCEPT ![place] = x], DataWith(x, next), place)
  BY DEF ForeignPut
<1>2. next' = next + 1 /\ next \in Int /\ next # Torn /\ next # NoVersion /\ next' \in Nat /\ next =< next'
  BY NextIsNew DEF ForeignPut
<1>3. /\ entry'[place] = x /\ data' = DataWith(x, next)
      /\ \A at \in Places \ {place} : entry'[at] = entry[at] /\ stable'[at] = stable[at]
      /\ stable'[place] = entry'[place] /\ unsynced' = unsynced \ {entry'[place]}
      /\ UNCHANGED <<stage, sess, pc, op>>
  BY <1>1 DEF Others, IInv, FilesOK
<1>4. /\ x \in Inodes /\ data'[x] = next
      /\ \A at \in Places :
           /\ entry[at] \in Inodes => data'[entry[at]] = data[entry[at]]
           /\ stable[at] \in Inodes => data'[stable[at]] = data[stable[at]]
      /\ \A q \in Procs :
           /\ stage[q] # x
           /\ stage[q] # NoInode => data'[stage[q]] = data[stage[q]]
      /\ \A i \in Inodes : data'[i] \in {next, Empty, data[i]}
  BY <1>2, <1>3, FreshInode
<1>5. \A i \in Inodes : data'[i] < next'
  BY <1>2, <1>4, NextIsNew DEF Empty
<1> QED
  BY <1>2, <1>3, <1>4, <1>5, OthersData

LEMMA SameDataByOthers ==
  ASSUME IInv, DataOK, NEW place \in Places, NEW x,
         Others([entry EXCEPT ![place] = x], data, place), next' = next,
         x \in Inodes => \E at \in Places : x = entry[at],
         x \in Inodes \cup Names \cup {NoInode}
  PROVE  DataOK'
<1>1. /\ entry'[place] = x /\ data' = data
      /\ \A at \in Places \ {place} : entry'[at] = entry[at] /\ stable'[at] = stable[at]
      /\ stable'[place] = entry'[place] /\ unsynced' = unsynced \ {entry'[place]}
      /\ UNCHANGED <<stage, sess, pc, op>>
  BY DEF Others, IInv, FilesOK
<1>2. x \in Inodes => data'[x] # Torn
  BY <1>1 DEF DataOK, NamesWhole, Content, HeldBy
<1>3. \A q \in Procs : stage[q] \in Inodes \cup {NoInode}
  BY DEF IInv, ProcessOK, PlaceInSave
<1>4. ASSUME NEW q \in Procs, pc[q] \in {"written", "staged", "commit"}, stage[q] # NoInode
      PROVE  x # stage[q]
  BY <1>3, <1>4, NamesAndInodes DEF DataOK, StageOK
<1>5. (\A i \in Inodes : data'[i] < next') /\ next' \in Nat /\ next =< next'
  BY <1>1, NextIsNew
<1> QED
  BY <1>1, <1>2, <1>4, <1>5, OthersData

LEMMA ForeignRemoveData ==
  ASSUME IInv, DataOK, NEW place \in Places, ForeignRemove(place) PROVE DataOK'
  BY SameDataByOthers, NamesAndInodes DEF ForeignRemove

LEMMA ForeignHardLinkData ==
  ASSUME IInv, DataOK, NEW place \in Places, NEW other \in Places, ForeignHardLink(place, other)
  PROVE  DataOK'
  BY SameDataByOthers DEF ForeignHardLink

LEMMA ForeignSymlinkData ==
  ASSUME IInv, DataOK, NEW d \in Dirs, NEW n \in Names, NEW to \in Names, ForeignSymlink(d, n, to)
  PROVE  DataOK'
<1>1. <<d, n>> \in Places /\ to \notin Inodes
  BY NamesAndInodes DEF Places
<1> QED
  BY <1>1, SameDataByOthers DEF ForeignSymlink

LEMMA ForeignCleanData == ASSUME IInv, DataOK, NEW p \in Procs, ForeignClean(p) PROVE DataOK'
<1>1. TextOK(sess[p], next') /\ next' \in Nat /\ next =< next' /\ CopyApart(pc[p], op[p], sess[p])
  BY TextsAreOld DEF ForeignClean
<1>2. /\ sess' = [sess EXCEPT ![p] = sess[p]] /\ pc' = [pc EXCEPT ![p] = pc[p]]
      /\ op' = [op EXCEPT ![p] = op[p]] /\ stage' = [stage EXCEPT ![p] = NoInode]
      /\ entry' = entry /\ data' = data /\ unsynced' = unsynced /\ stable' = stable
  BY SameElsewhere DEF IInv, ForeignClean
<1>3. NoInode \notin unsynced'
  BY <1>2, NamesAndInodes DEF IInv, FilesOK
<1> QED
  BY <1>1, <1>2, <1>3, DataKept

LEMMA SameFilesData ==
  ASSUME IInv, DataOK, UNCHANGED <<entry, data, stable, unsynced, stage, sess, pc, op, next>>
  PROVE  DataOK'
  BY DEF DataOK, NamesWhole, Content, HeldBy, StageOK, TextOK

LEMMA ForeignData == ASSUME IInv, DataOK, ForeignStep PROVE DataOK'
<1>1. Here \subseteq Places /\ DirsHere \subseteq Dirs /\ NamesHere \subseteq Names
  BY DEF Here, NamesHere, DirsHere, Places
<1>2. ASSUME NEW d \in Dirs, ForeignParent(d) PROVE DataOK'
  BY <1>2, SameFilesData DEF ForeignParent
<1> QED
  BY <1>1, <1>2, ForeignWriteData, ForeignPutData, ForeignRemoveData, ForeignHardLinkData,
     ForeignSymlinkData, ForeignCleanData DEF ForeignStep

LEMMA InitData == ASSUME Init PROVE DataOK
<1>1. /\ stable = entry /\ unsynced = {} /\ next = 2 /\ \A i \in Inodes : data[i] = 1
      /\ \A q \in Procs : /\ stage[q] = NoInode /\ sess[q] = NewSession
                          /\ pc[q] = "idle" /\ op[q] = NoOperation
  BY DEF Init
<1>2. NamesWhole
  BY <1>1 DEF NamesWhole, Content, HeldBy, Torn, NoVersion
<1>3. TextOK(NewSession, next)
  BY <1>1 DEF TextOK, NewSession, Empty, Torn
<1> QED
  BY <1>1, <1>2, <1>3 DEF DataOK, StageOK, CopyApart

LEMMA StepData == ASSUME IInv, DataOK, [Next]_vars PROVE DataOK'
<1>1. CASE UNCHANGED vars
  BY <1>1, SameFilesData DEF vars
<1> QED
  BY <1>1, UserData, WriterData, CrashData, PowerLossData, ForeignData DEF Next

LEMMA DataHolds == Spec => []DataOK
  BY InitData, StepData, Invariant, PTL DEF Spec

-----------------------------------------------------------------------------
(* A commit that succeeds puts the stage, and nothing else, at its place.  *)
LEMMA CommitPutsTheStage ==
  ASSUME IInv, [Next]_vars, NEW p \in Procs, Commits(p)
  PROVE  /\ stage[p] \in Inodes /\ PlaceOf(op[p].obs) \in Places
         /\ entry' = [entry EXCEPT ![PlaceOf(op[p].obs)] = stage[p]]
         /\ UNCHANGED <<data, parent, sess, op>>
<1>1. pc[p] = "commit" /\ pc'[p] \in {"committed", "linked"} /\ pc' # [pc EXCEPT ![p] = "idle"]
  BY DEF Commits, IInv, ByProcess
<1>2. ~Fail(p)
  BY <1>1 DEF Fail, Refuse
<1>3. stage[p] # NoInode /\ \E where : StageToTarget(p, where)
  BY <1>2, CommitsAreRenames DEF Replace, RenameNoReplace, LinkStage
<1> QED
  BY <1>1, <1>3, InCommit DEF StageToTarget

(* The place a copy is committed to is not the active file's.              *)
LEMMA CopyIsElsewhere ==
  ASSUME IInv, DataOK, Window # "open", [Next]_vars,
         NEW p \in Procs, Commits(p), op[p].kind = "copy", ActiveIsBaseline(p)
  PROVE  /\ sess[p].path \in Names /\ sess[p].base.ino \in Inodes
         /\ Target(sess[p].path) # PlaceOf(op[p].obs)
         /\ entry[PlaceOf(op[p].obs)] \notin Names
<1>1. pc[p] = "commit" /\ Apart(op[p].obs, sess[p])
  BY DEF Commits, DataOK, CopyApart
<1>2. sess[p].base # NoBase /\ BaseAt(Target(sess[p].path)) = sess[p].base
  BY DEF ActiveIsBaseline
<1>3. SessionOK(sess[p]) /\ sess[p].path \in Names /\ sess[p].base \in Bases
  BY <1>1, <1>2, InCommit DEF SessionOK, Sessions
<1>4. sess[p].base.ino \in Inodes /\ entry[Target(sess[p].path)] = sess[p].base.ino
  BY <1>2, <1>3 DEF Bases, BaseAt
<1>5. op[p].obs.ino \in Inodes \cup {NoInode}
  BY <1>1, InCommit DEF Observations
<1>6. CASE Exists(op[p].obs)
  <2>1. entry[PlaceOf(op[p].obs)] = op[p].obs.ino
    BY <1>1, <1>6 DEF IInv, WindowOK, TargetAsObserved
  <2>2. op[p].obs.ino # sess[p].base.ino
    BY <1>1, <1>2, <1>6 DEF Apart
  <2> QED
    BY <1>3, <1>4, <1>5, <2>1, <2>2, NamesAndInodes
<1>7. CASE ~Exists(op[p].obs)
  BY <1>3, <1>4, <1>7, NewTargetIsFree, NamesAndInodes
<1> QED
  BY <1>6, <1>7

LEMMA CopyKeepsActive ==
  ASSUME IInv, DataOK, Window # "open", [Next]_vars,
         NEW p \in Procs, Commits(p), op[p].kind = "copy", ActiveIsBaseline(p)
  PROVE  ActiveIsBaseline(p)'
<1> DEFINE path == sess[p].path
           place == PlaceOf(op[p].obs)
<1>1. /\ path \in Names /\ sess[p].base.ino \in Inodes /\ Target(path) # place
      /\ entry[place] \notin Names
  BY CopyIsElsewhere
<1>2. /\ stage[p] \in Inodes /\ place \in Places /\ entry' = [entry EXCEPT ![place] = stage[p]]
      /\ data' = data /\ parent' = parent /\ sess' = sess
  BY CommitPutsTheStage
<1>3. entry \in [Places -> Entries] /\ <<parent, path>> \in Places /\ Target(path) \in Places
  BY <1>1, TargetType DEF IInv, FilesOK, Places
<1>4. <<parent, path>> # place
  BY <1>1 DEF Target, RealPlace
<1> HIDE DEF path, place
<1>5. entry'[<<parent, path>>] = entry[<<parent, path>>] /\ entry'[Target(path)] = entry[Target(path)]
  BY <1>1, <1>2, <1>3, <1>4
<1>6. Target(path)' = Target(path)
  BY <1>2, <1>5 DEF Target, RealPlace, path
<1>7. BaseAt(Target(path))' = BaseAt(Target(path))
  BY <1>2, <1>5, <1>6 DEF BaseAt, Content, HeldBy
<1> QED
  BY <1>2, <1>7 DEF ActiveIsBaseline, path

(* Under the same assumption a copy leaves the active document's file as   *)
(* it was accepted, under every path, link or name that reaches it: the    *)
(* copy service compares what it observed with the accepted inode, not     *)
(* only the paths.                                                         *)
THEOREM CopiesLeaveTheActiveFile == ASSUME Window # "open" PROVE Spec => CopyLeavesActiveFile
<1>1. ASSUME IInv, DataOK, [Next]_vars
      PROVE  [\A p \in Procs : Commits(p) /\ op[p].kind = "copy" /\ ActiveIsBaseline(p) =>
                ActiveIsBaseline(p)']_vars
  BY <1>1, CopyKeepsActive
<1> QED
  BY <1>1, Invariant, DataHolds, PTL DEF Spec, CopyLeavesActiveFile

-----------------------------------------------------------------------------
(* What was confirmed is durable.  A confirmed place holds what it was     *)
(* confirmed to hold, and its name was synced; a save that has synced its  *)
(* directory finds the place as it was synced until it answers.  That last *)
(* part is why the theorem is about one editor where power may fail: with  *)
(* two, another may replace the text by a second and by the same one again *)
(* between the sync and the fresh load, which then takes the last, not yet *)
(* synced, for its own.                                                    *)
PromiseOK ==
  \A place \in Places :
    promised[place] # NoVersion =>
      /\ Content(place) = promised[place]
      /\ MayFail("power") => entry[place] = stable[place]

SyncOK(p) ==
  /\ pc[p] # "idle" => p \in editors
  /\ pc[p] \notin {"idle", "synced"} => ~op[p].synced
  /\ MayFail("power") /\ pc[p] = "synced" /\ op[p].synced =>
       entry[PlaceOf(op[p].obs)] = stable[PlaceOf(op[p].obs)]

Alone == MayFail("power") => \A p, q \in editors : p = q

PromisesOK == PromiseOK /\ (\A p \in Procs : SyncOK(p)) /\ Alone

SameWorld == world' = world /\ editors' = editors

LEMMA SameFailures ==
  ASSUME SameWorld
  PROVE  MayFail("power")' = MayFail("power") /\ Alone' = Alone
  BY DEF SameWorld, MayFail, World, Alone

(* A step of one process that moves no name and changes no file.           *)
LEMMA PromisesKept ==
  ASSUME IInv, PromisesOK, SameWorld, NEW p \in Procs, NEW c, NEW o,
         pc' = [pc EXCEPT ![p] = c], op' = [op EXCEPT ![p] = o],
         entry' = entry, promised' = promised, \A place \in Places : Content(place)' = Content(place),
         \A place \in Places : stable'[place] \in {stable[place], entry[place]},
         c # "idle" => p \in editors,
         c \notin {"idle", "synced"} => ~o.synced,
         MayFail("power") /\ c = "synced" /\ o.synced =>
           entry[PlaceOf(o.obs)] = stable'[PlaceOf(o.obs)]
  PROVE  PromisesOK'
<1>1. /\ pc'[p] = c /\ op'[p] = o
      /\ \A q \in Procs \ {p} : pc'[q] = pc[q] /\ op'[q] = op[q]
  BY DEF IInv, ByProcess
<1>2. MayFail("power")' = MayFail("power") /\ Alone'
  BY SameFailures DEF PromisesOK
<1>3. PromiseOK'
  BY <1>2 DEF PromisesOK, PromiseOK
<1>4. ASSUME NEW q \in Procs PROVE SyncOK(q)'
  <2>1. CASE q = p
    BY <1>1, <1>2, <2>1 DEF SyncOK, SameWorld, PlaceOf
  <2>2. CASE q # p
    <3>1. SyncOK(q) /\ (pc[q] # "idle" => PlaceOf(op[q].obs) \in Places)
      BY InCommit DEF PromisesOK
    <3>2. pc'[q] = pc[q] /\ op'[q] = op[q]
      BY <1>1, <2>2
    <3> QED
      BY <1>2, <3>1, <3>2 DEF SyncOK, SameWorld, PlaceOf
  <2> QED
    BY <2>1, <2>2
<1> QED
  BY <1>2, <1>3, <1>4 DEF PromisesOK

LEMMA UserMoves ==
  ASSUME IInv, NEW p \in Procs, UserStep(p)
  PROVE  /\ p \in editors /\ Undisturbed /\ promised' = promised
         /\ \E o : \E c \in {"idle", "consent", "staging"} :
              /\ pc' = [pc EXCEPT ![p] = c] /\ op' = [op EXCEPT ![p] = o]
              /\ c # "idle" => o.synced = FALSE
<1>1. pc = [pc EXCEPT ![p] = pc[p]] /\ op = [op EXCEPT ![p] = op[p]]
  BY SameElsewhere DEF IInv
<1>2. CASE NewDocument(p) \/ (\E n \in NamesHere : OpenDocument(p, n)) \/ Edit(p)
  BY <1>1, <1>2 DEF NewDocument, OpenDocument, Edit, Idle, UserStep
<1>3. ASSUME Refuse(p) \/ (\E kind, obs : \E where \in {"consent", "staging"} : Proceed(p, kind, obs, where))
      PROVE  \E o : \E c \in {"idle", "consent", "staging"} :
               /\ pc' = [pc EXCEPT ![p] = c] /\ op' = [op EXCEPT ![p] = o]
               /\ c # "idle" => o.synced = FALSE
  <2>1. CASE Refuse(p)
    BY <2>1 DEF Refuse
  <2>2. ASSUME NEW kind, NEW obs, NEW where \in {"consent", "staging"}, Proceed(p, kind, obs, where)
        PROVE  /\ pc' = [pc EXCEPT ![p] = where]
               /\ \E o : op' = [op EXCEPT ![p] = o] /\ o.synced = FALSE
    <3> DEFINE o == [kind |-> kind, obs |-> obs, synced |-> FALSE]
    <3>1. op' = [op EXCEPT ![p] = o] /\ o.synced = FALSE
      BY <2>2 DEF Proceed
    <3> HIDE DEF o
    <3> QED
      BY <2>2, <3>1 DEF Proceed
  <2> QED
    BY <1>3, <2>1, <2>2
<1>4. CASE BeginSave(p) \/ Confirm(p) \/ (\E n \in NamesHere : BeginSaveAs(p, n) \/ BeginCopy(p, n))
  <2>1. Refuse(p) \/ (\E kind, obs : \E where \in {"consent", "staging"} : Proceed(p, kind, obs, where))
    BY <1>4 DEF BeginSave, Confirm, BeginSaveAs, BeginCopy, GuardedSaveOf
  <2> QED
    BY <1>3, <1>4, <2>1 DEF BeginSave, Confirm, BeginSaveAs, BeginCopy, UserStep
<1>5. CASE Cancel(p)
  BY <1>5 DEF Cancel, UserStep
<1> QED
  BY <1>2, <1>4, <1>5 DEF UserStep

LEMMA UserPromises ==
  ASSUME IInv, PromisesOK, SameWorld, NEW p \in Procs, UserStep(p)
  PROVE  PromisesOK'
<1>1. PICK o : \E c \in {"idle", "consent", "staging"} :
        /\ pc' = [pc EXCEPT ![p] = c] /\ op' = [op EXCEPT ![p] = o]
        /\ c # "idle" => o.synced = FALSE
  BY UserMoves
<1>2. PICK c \in {"idle", "consent", "staging"} :
        /\ pc' = [pc EXCEPT ![p] = c] /\ op' = [op EXCEPT ![p] = o]
        /\ c # "idle" => o.synced = FALSE
  BY <1>1
<1>3. /\ entry' = entry /\ promised' = promised /\ stable' = stable /\ p \in editors
      /\ \A place \in Places : Content(place)' = Content(place)
  BY UserMoves DEF Undisturbed, Content, HeldBy
<1> QED
  BY <1>2, <1>3, PromisesKept

LEMMA FailPromises ==
  ASSUME IInv, PromisesOK, SameWorld, NEW p \in Procs, Fail(p)
  PROVE  PromisesOK'
<1>1. /\ pc' = [pc EXCEPT ![p] = "idle"] /\ op' = [op EXCEPT ![p] = NoOperation]
      /\ entry' = entry /\ promised' = promised /\ stable' = stable
      /\ \A place \in Places : Content(place)' = Content(place)
  BY DEF Fail, Refuse, Content, HeldBy
<1> QED
  BY <1>1, PromisesKept

(* A writer's step before the commit, or after it, that keeps its          *)
(* operation.                                                              *)
LEMMA WriterKeepsPromises ==
  ASSUME IInv, PromisesOK, SameWorld, NEW p \in Procs, pc[p] \notin {"idle", "synced"},
         NEW c, c \notin {"idle", "synced"},
         pc' = [pc EXCEPT ![p] = c], op' = op, stable' = stable,
         entry' = entry, promised' = promised, \A place \in Places : Content(place)' = Content(place)
  PROVE  PromisesOK'
<1>1. op' = [op EXCEPT ![p] = op[p]]
  BY SameElsewhere DEF IInv
<1>2. SyncOK(p)
  BY DEF PromisesOK
<1> QED
  BY <1>1, <1>2, PromisesKept DEF SyncOK

LEMMA CreateStagePromises ==
  ASSUME IInv, PromisesOK, SameWorld, NEW p \in Procs, CreateStage(p)
  PROVE  PromisesOK'
<1>1. CASE Fail(p)
  BY <1>1, FailPromises
<1>2. ASSUME NEW inode \in FreeInodes,
             data' = DataWith(inode, sess[p].text), pc' = [pc EXCEPT ![p] = "written"],
             UNCHANGED <<entry, parent, stable, litter, sess, op, answer, next, promised>>
      PROVE  PromisesOK'
  <2>1. sess[p].text \in Versions /\ sess[p].text # NoVersion
    BY InCommit DEF CreateStage, SessionOK
  <2>2. \A place \in Places : Content(place)' = Content(place)
    BY <1>2, <2>1, FreeInodeWritten DEF IInv, Content, HeldBy
  <2> QED
    BY <1>2, <2>2, WriterKeepsPromises DEF CreateStage
<1> QED
  BY <1>1, <1>2 DEF CreateStage

LEMMA SyncStagePromises ==
  ASSUME IInv, PromisesOK, SameWorld, NEW p \in Procs, SyncStage(p)
  PROVE  PromisesOK'
<1>1. CASE Fail(p)
  BY <1>1, FailPromises
<1>2. CASE ~Fail(p)
  BY <1>2, WriterKeepsPromises DEF SyncStage, Content, HeldBy
<1> QED
  BY <1>1, <1>2

LEMMA RevalidatePromises ==
  ASSUME IInv, PromisesOK, SameWorld, NEW p \in Procs, Revalidate(p)
  PROVE  PromisesOK'
<1>1. CASE Fail(p)
  BY <1>1, FailPromises
<1>2. CASE ~Fail(p)
  BY <1>2, WriterKeepsPromises DEF Revalidate, Undisturbed, Content, HeldBy
<1> QED
  BY <1>1, <1>2

LEMMA UnlinkStagePromises ==
  ASSUME IInv, PromisesOK, SameWorld, NEW p \in Procs, UnlinkStage(p)
  PROVE  PromisesOK'
  BY WriterKeepsPromises DEF UnlinkStage, Content, HeldBy

(* A commit ends what was promised of its place.  Where power may fail     *)
(* there is no other process whose synced save it could undo.              *)
LEMMA StageToTargetPromises ==
  ASSUME IInv, PromisesOK, SameWorld, NEW p \in Procs, pc[p] = "commit",
         NEW where \in {"linked", "committed"}, StageToTarget(p, where)
  PROVE  PromisesOK'
<1> DEFINE at == PlaceOf(op[p].obs)
<1>1. at \in Places
  BY InCommit
<1>2. /\ pc'[p] = where /\ op' = op /\ data' = data /\ stable' = stable
      /\ \A q \in Procs \ {p} : pc'[q] = pc[q]
      /\ \A place \in Places \ {at} : entry'[place] = entry[place] /\ promised'[place] = promised[place]
      /\ promised'[at] = NoVersion
  BY <1>1 DEF StageToTarget, IInv, ByProcess, FilesOK
<1> HIDE DEF at
<1>3. MayFail("power")' = MayFail("power") /\ Alone'
  BY SameFailures DEF PromisesOK
<1>4. PromiseOK'
  BY <1>2, <1>3 DEF PromisesOK, PromiseOK, Content, HeldBy
<1>5. ASSUME NEW q \in Procs PROVE SyncOK(q)'
  <2>1. SyncOK(q) /\ SyncOK(p) /\ Alone
    BY DEF PromisesOK
  <2>2. CASE q = p
    BY <1>2, <2>1, <2>2 DEF SyncOK, SameWorld
  <2>3. CASE q # p
    <3>1. MayFail("power") => pc[q] = "idle"
      BY <2>1, <2>3 DEF SyncOK, Alone
    <3> QED
      BY <1>2, <1>3, <2>1, <2>3, <3>1 DEF SyncOK, SameWorld
  <2> QED
    BY <2>2, <2>3
<1> QED
  BY <1>3, <1>4, <1>5 DEF PromisesOK

LEMMA RenamePromises ==
  ASSUME IInv, PromisesOK, SameWorld, NEW p \in Procs, Replace(p) \/ RenameNoReplace(p) \/ LinkStage(p)
  PROVE  PromisesOK'
  BY FailPromises, StageToTargetPromises DEF Replace, RenameNoReplace, LinkStage

LEMMA SyncDirectoryPromises ==
  ASSUME IInv, PromisesOK, SameWorld, NEW p \in Procs, SyncDirectory(p)
  PROVE  PromisesOK'
<1> DEFINE o == [op[p] EXCEPT !.synced = TRUE]
<1>1. /\ pc[p] = "committed" /\ pc' = [pc EXCEPT ![p] = "synced"]
      /\ entry' = entry /\ promised' = promised
      /\ \A place \in Places : Content(place)' = Content(place)
  BY DEF SyncDirectory, Content, HeldBy
<1>2. SyncOK(p) /\ PlaceOf(op[p].obs) \in Places
  BY <1>1, InCommit DEF PromisesOK
<1>3. p \in editors /\ ~op[p].synced
  BY <1>1, <1>2 DEF SyncOK
<1>4. CASE stable' = stable /\ op' = op
  <2>1. op' = [op EXCEPT ![p] = op[p]]
    BY <1>4, SameElsewhere DEF IInv
  <2> QED
    BY <1>1, <1>3, <1>4, <2>1, PromisesKept
<1>5. CASE /\ stable' = [place \in Places |->
                           IF place[1] = op[p].obs.dir THEN entry[place] ELSE stable[place]]
           /\ op' = [op EXCEPT ![p].synced = TRUE]
  <2>1. op' = [op EXCEPT ![p] = o]
    BY <1>5, Zenon
  <2>2. o.obs = op[p].obs
    BY <1>1, InCommit DEF Operations
  <2>3. entry[PlaceOf(o.obs)] = stable'[PlaceOf(o.obs)]
    BY <1>2, <1>5, <2>2 DEF PlaceOf
  <2>4. \A place \in Places : stable'[place] \in {stable[place], entry[place]}
    BY <1>5
  <2> HIDE DEF o
  <2> QED
    BY <1>1, <1>3, <2>1, <2>3, <2>4, PromisesKept
<1> QED
  BY <1>4, <1>5 DEF SyncDirectory

LEMMA FinishPromises ==
  ASSUME IInv, PromisesOK, SameWorld, NEW p \in Procs, Finish(p)
  PROVE  PromisesOK'
<1> DEFINE at == PlaceOf(op[p].obs)
<1>1. at \in Places /\ pc[p] = "synced"
  BY InCommit DEF Finish
<1>2. /\ pc'[p] = "idle" /\ entry' = entry /\ stable' = stable
      /\ \A q \in Procs \ {p} : pc'[q] = pc[q] /\ op'[q] = op[q]
      /\ \A place \in Places : Content(place)' = Content(place)
  BY DEF Finish, Undisturbed, IInv, ByProcess, Content, HeldBy
<1>3. \/ promised' = promised
      \/ op[p].synced /\ promised' = [promised EXCEPT ![at] = Content(at)]
  BY DEF Finish, Disposition
<1>4. MayFail("power") /\ op[p].synced => entry[at] = stable[at]
  BY <1>1 DEF PromisesOK, SyncOK
<1>5. promised \in [Places -> Versions]
  BY DEF IInv, FilesOK
<1> HIDE DEF at
<1>6. MayFail("power")' = MayFail("power") /\ Alone'
  BY SameFailures DEF PromisesOK
<1>7. PromiseOK'
  <2>1. CASE promised' = promised
    BY <1>2, <1>6, <2>1 DEF PromisesOK, PromiseOK
  <2>2. CASE op[p].synced /\ promised' = [promised EXCEPT ![at] = Content(at)]
    BY <1>1, <1>2, <1>4, <1>5, <1>6, <2>2 DEF PromisesOK, PromiseOK
  <2> QED
    BY <1>3, <2>1, <2>2
<1>8. ASSUME NEW q \in Procs PROVE SyncOK(q)'
  <2>1. SyncOK(q)
    BY DEF PromisesOK
  <2> QED
    BY <1>2, <1>6, <2>1 DEF SyncOK, SameWorld, PlaceOf
<1> QED
  BY <1>6, <1>7, <1>8 DEF PromisesOK

LEMMA WriterPromises ==
  ASSUME IInv, PromisesOK, SameWorld, NEW p \in Procs, WriterStep(p)
  PROVE  PromisesOK'
  BY CreateStagePromises, SyncStagePromises, RevalidatePromises, RenamePromises,
     UnlinkStagePromises, SyncDirectoryPromises, FinishPromises DEF WriterStep

LEMMA CrashPromises ==
  ASSUME IInv, PromisesOK, SameWorld, NEW p \in Procs, Crash(p)
  PROVE  PromisesOK'
<1>1. /\ pc' = [pc EXCEPT ![p] = "idle"] /\ op' = [op EXCEPT ![p] = NoOperation]
      /\ entry' = entry /\ promised' = promised /\ stable' = stable
      /\ \A place \in Places : Content(place)' = Content(place)
  BY DEF Crash, Content, HeldBy
<1> QED
  BY <1>1, PromisesKept

(* Power loss takes back only names that were not synced, and tears only   *)
(* data that is under no name.                                             *)
LEMMA PowerLossPromises ==
  ASSUME IInv, DataOK, PromisesOK, SameWorld, PowerLoss
  PROVE  PromisesOK'
<1>1. /\ MayFail("power") /\ promised' = promised /\ stable' = entry'
      /\ \A i \in Inodes : data'[i] = IF i \in unsynced THEN Torn ELSE data[i]
      /\ \A q \in Procs : pc'[q] = "idle"
      /\ \A place \in Places : entry[place] = stable[place] => entry'[place] = entry[place]
  BY DEF PowerLoss
<1>2. MayFail("power")' = MayFail("power") /\ Alone'
  BY SameFailures DEF PromisesOK
<1>3. \A place \in Places : entry[place] \notin unsynced
  BY DEF DataOK, NamesWhole
<1>4. PromiseOK'
  BY <1>1, <1>2, <1>3 DEF PromisesOK, PromiseOK, Content, HeldBy
<1>5. \A q \in Procs : SyncOK(q)'
  BY <1>1 DEF SyncOK
<1> QED
  BY <1>2, <1>4, <1>5 DEF PromisesOK

LEMMA OthersPromises ==
  ASSUME IInv, PromisesOK, SameWorld, NEW place \in Places, NEW newEntry, NEW newData,
         Others(newEntry, newData, place),
         \A at \in Places \ {place} : newEntry[at] = entry[at]
  PROVE  PromisesOK'
<1>1. /\ entry' = newEntry /\ pc' = pc /\ op' = op /\ stable'[place] = newEntry[place]
      /\ \A at \in Places \ {place} : stable'[at] = stable[at]
      /\ \A at \in Places : promised'[at] = IF Content(at)' = Content(at) THEN promised[at] ELSE NoVersion
  BY DEF Others, IInv, FilesOK
<1>2. MayFail("power")' = MayFail("power") /\ Alone'
  BY SameFailures DEF PromisesOK
<1>3. \A at \in Places : entry[at] = stable[at] => entry'[at] = stable'[at]
  BY <1>1
<1>4. PromiseOK'
  BY <1>1, <1>2, <1>3 DEF PromisesOK, PromiseOK
<1>5. ASSUME NEW q \in Procs PROVE SyncOK(q)'
  <2>1. SyncOK(q) /\ (pc[q] # "idle" => PlaceOf(op[q].obs) \in Places)
    BY InCommit DEF PromisesOK
  <2> QED
    BY <1>1, <1>2, <1>3, <2>1 DEF SyncOK, SameWorld, PlaceOf
<1> QED
  BY <1>2, <1>4, <1>5 DEF PromisesOK

LEMMA SameFilesPromises ==
  ASSUME PromisesOK, SameWorld, UNCHANGED <<entry, data, stable, pc, op, promised>>
  PROVE  PromisesOK'
  BY SameFailures DEF PromisesOK, PromiseOK, SyncOK, SameWorld, Content, HeldBy, PlaceOf

LEMMA ForeignPromises ==
  ASSUME IInv, PromisesOK, SameWorld, ForeignStep
  PROVE  PromisesOK'
<1>1. Here \subseteq Places /\ \A d \in DirsHere, n \in NamesHere : <<d, n>> \in Places
  BY DEF Here, NamesHere, DirsHere, Places
<1>2. entry \in [Places -> Entries]
  BY DEF IInv, FilesOK
<1>3. ASSUME NEW place \in Places, ForeignWrite(place) PROVE PromisesOK'
  BY <1>3, OthersPromises DEF ForeignWrite
<1>4. ASSUME NEW place \in Places, ForeignPut(place) PROVE PromisesOK'
  <2>1. PICK x \in FreeInodes : Others([entry EXCEPT ![place] = x], DataWith(x, next), place)
    BY <1>4 DEF ForeignPut
  <2>2. \A at \in Places \ {place} : [entry EXCEPT ![place] = x][at] = entry[at]
    BY <1>2
  <2> QED
    BY <1>4, <2>1, <2>2, OthersPromises
<1>5. ASSUME NEW place \in Places, NEW x, Others([entry EXCEPT ![place] = x], data, place)
      PROVE  PromisesOK'
  <2>1. \A at \in Places \ {place} : [entry EXCEPT ![place] = x][at] = entry[at]
    BY <1>2
  <2> QED
    BY <1>5, <2>1, OthersPromises
<1>6. ASSUME NEW d \in DirsHere, ForeignParent(d) PROVE PromisesOK'
  BY <1>6, SameFilesPromises DEF ForeignParent
<1>7. ASSUME NEW p \in Procs, ForeignClean(p) PROVE PromisesOK'
  BY <1>7, SameFilesPromises DEF ForeignClean
<1> QED
  BY <1>1, <1>3, <1>4, <1>5, <1>6, <1>7
  DEF ForeignStep, ForeignRemove, ForeignHardLink, ForeignSymlink

LEMMA StepPromises == ASSUME IInv, DataOK, PromisesOK, [Next]_vars PROVE PromisesOK'
<1>1. CASE UNCHANGED vars
  BY <1>1, SameFilesPromises DEF vars, SameWorld
<1>2. CASE Next
  <2>1. SameWorld
    BY <1>2 DEF Next, SameWorld
  <2> QED
    BY <1>2, <2>1, UserPromises, WriterPromises, CrashPromises, PowerLossPromises, ForeignPromises DEF Next
<1> QED
  BY <1>1, <1>2

(* In each world there is one editor, or power does not fail.              *)
OneEditorOrNoPowerLoss ==
  \A w \in DOMAIN Worlds : Worlds[w].editors =< 1 \/ "power" \notin Worlds[w].failures

LEMMA InitPromises == ASSUME OneEditorOrNoPowerLoss, Init PROVE PromisesOK
<1>1. /\ \A place \in Places : promised[place] = NoVersion
      /\ \A q \in Procs : pc[q] = "idle"
      /\ world \in DOMAIN Worlds /\ editors \subseteq Procs /\ Cardinality(editors) = World.editors
  BY DEF Init
<1>2. PromiseOK /\ \A q \in Procs : SyncOK(q)
  BY <1>1 DEF PromiseOK, SyncOK
<1>3. ASSUME MayFail("power"), NEW p \in editors, NEW q \in editors PROVE p = q
  <2>1. World.editors \in Nat /\ World.editors =< 1
    BY <1>1, <1>3, WorldsAreDescribed DEF OneEditorOrNoPowerLoss, MayFail, World
  <2>2. IsFiniteSet(editors)
    BY <1>1, FinitelyManyProcesses, FS_Subset
  <2>3. Cardinality(editors) = 1
    <3>1. Cardinality(editors) # 0
      BY <2>2, FS_EmptySet
    <3> QED
      BY <1>1, <2>1, <3>1
  <2>4. \E e : editors = {e}
    BY <2>2, <2>3, FS_Singleton
  <2> QED
    BY <2>4
<1> QED
  BY <1>2, <1>3 DEF PromisesOK, Alone

(* What the user was told is saved and in place ("confirmed": committed,   *)
(* directory synced, and found again by a fresh load) survives every crash *)
(* and loss of power until someone else changes the place: the writer syncs*)
(* the stage before the rename and the directory after it.  The window     *)
(* between revalidation and rename may be open.                            *)
THEOREM ConfirmedSavesAreDurable ==
  ASSUME OneEditorOrNoPowerLoss PROVE Spec => []ConfirmedIsDurable
<1>1. Init => PromisesOK
  BY InitPromises
<1>2. PromisesOK => ConfirmedIsDurable
  BY DEF PromisesOK, PromiseOK, ConfirmedIsDurable
<1> QED
  BY <1>1, <1>2, StepPromises, Invariant, DataHolds, PTL DEF Spec

-----------------------------------------------------------------------------
(* The refinement: what a user sees of the places, of the requests and of  *)
(* the answers is an atomic save.  The rename (or the link) is the step    *)
(* that takes effect, and DataOK says that it puts the requested text.     *)
Docs == [place \in Places |-> Content(place)]

RequestOf(c, o, s) ==
  IF c \in {"idle", "consent"}
  THEN [pending |-> FALSE]
  ELSE [pending |-> TRUE, at |-> PlaceOf(o.obs), text |-> s.text,
        done |-> c \in {"linked", "committed", "synced"}]

AsRequests == [p \in Procs |-> RequestOf(pc[p], op[p], sess[p])]

AnswerOf(a) == IF a \in {"none", "failed"} THEN a ELSE "written"

AsAnswers == [p \in Procs |-> AnswerOf(answer[p])]

DocsWhole == \A place \in Places : Content(place) \in Whole

LEMMA PlacesAreWhole == IInv /\ DataOK => DocsWhole
  BY ContentType DEF IInv, DataOK, NamesWhole, DocsWhole, Whole

LEMMA PlacesStayWhole == (IInv /\ DataOK)' => DocsWhole'
  BY PlacesAreWhole, PTL

(* The abstract steps under the mapping.                                   *)
AtomicStep ==
  [ \/ \E p \in Procs : Atomic!Ask(p) \/ Atomic!TakeEffect(p) \/ Atomic!Answer(p)
                         \/ Atomic!Refuse(p) \/ Atomic!Die(p)
    \/ Atomic!Interfere \/ Atomic!Restart ]_<<Docs, AsRequests, AsAnswers>>

LEMMA MappedNext == ASSUME AtomicStep PROVE [Atomic!Next]_Atomic!vars
  BY DEF AtomicStep, Atomic!Next, Atomic!vars, Docs, AsRequests, AsAnswers, RequestOf, AnswerOf

Mapped(c, o, s, a, p) ==
  /\ AsRequests' = [AsRequests EXCEPT ![p] = RequestOf(c, o, s)]
  /\ AsAnswers' = [AsAnswers EXCEPT ![p] = AnswerOf(a)]

LEMMA OneProcessMapped ==
  ASSUME ByProcess, NEW p \in Procs, NEW s, NEW c, NEW o, NEW a,
         sess' = [sess EXCEPT ![p] = s], pc' = [pc EXCEPT ![p] = c],
         op' = [op EXCEPT ![p] = o], answer' = [answer EXCEPT ![p] = a]
  PROVE  Mapped(c, o, s, a, p)
<1>1. \A q \in Procs : /\ sess'[q] = IF q = p THEN s ELSE sess[q]
                       /\ pc'[q] = IF q = p THEN c ELSE pc[q]
                       /\ op'[q] = IF q = p THEN o ELSE op[q]
                       /\ answer'[q] = IF q = p THEN a ELSE answer[q]
  BY DEF ByProcess
<1>2. AsRequests' = [q \in Procs |-> RequestOf(pc[q], op[q], sess[q])']
  BY DEF AsRequests
<1>3. \A q \in Procs : RequestOf(pc[q], op[q], sess[q])' = RequestOf(pc'[q], op'[q], sess'[q])
  BY DEF RequestOf, PlaceOf
<1>4. AsRequests' = [AsRequests EXCEPT ![p] = RequestOf(c, o, s)]
  <2> DEFINE r(q) == RequestOf(pc[q], op[q], sess[q])
  <2>1. \A q \in Procs : r(q)' = IF q = p THEN RequestOf(c, o, s) ELSE r(q)
    BY <1>1, <1>3
  <2>2. AsRequests = [q \in Procs |-> r(q)] /\ AsRequests' = [q \in Procs |-> r(q)']
    BY <1>2 DEF AsRequests
  <2> HIDE DEF r
  <2> QED
    BY <2>1, <2>2
<1>5. AsAnswers' = [AsAnswers EXCEPT ![p] = AnswerOf(a)]
  BY <1>1 DEF AsAnswers, AnswerOf
<1> QED
  BY <1>4, <1>5 DEF Mapped

LEMMA SameDocs ==
  ASSUME \A place \in Places : Content(place)' = Content(place)
  PROVE  Docs' = Docs
  BY DEF Docs

(* The requests and answers a step of one process goes through.            *)
LEMMA MappedTypes ==
  ASSUME IInv, NEW p \in Procs
  PROVE  /\ AsRequests[p] = RequestOf(pc[p], op[p], sess[p]) /\ AsAnswers[p] = AnswerOf(answer[p])
         /\ AsRequests = [AsRequests EXCEPT ![p] = RequestOf(pc[p], op[p], sess[p])]
         /\ AsAnswers = [AsAnswers EXCEPT ![p] = AnswerOf(answer[p])]
  BY DEF AsRequests, AsAnswers

(* A step the user does not see.                                           *)
LEMMA UnseenStep ==
  ASSUME IInv, NEW p \in Procs, NEW c, NEW o, NEW s, NEW a, Mapped(c, o, s, a, p), Docs' = Docs,
         RequestOf(c, o, s) = RequestOf(pc[p], op[p], sess[p]), AnswerOf(a) = AnswerOf(answer[p])
  PROVE  AtomicStep
  BY MappedTypes DEF Mapped, AtomicStep

LEMMA RefusedStep ==
  ASSUME IInv, NEW p \in Procs, NEW c \in {"idle", "consent"}, NEW o, NEW s, Mapped(c, o, s, "failed", p),
         Docs' = Docs, pc[p] \in {"idle", "consent"}
  PROVE  AtomicStep
<1>1. RequestOf(c, o, s) = [pending |-> FALSE] /\ RequestOf(pc[p], op[p], sess[p]) = [pending |-> FALSE]
  BY DEF RequestOf
<1>2. AsRequests' = AsRequests /\ AsRequests[p] = [pending |-> FALSE]
  BY <1>1, MappedTypes DEF Mapped
<1>3. AsAnswers' = [AsAnswers EXCEPT ![p] = "failed"]
  BY DEF Mapped, AnswerOf
<1>4. Atomic!Refuse(p)
  BY <1>2, <1>3 DEF Atomic!Refuse, Atomic!NoRequest, Docs, AsRequests, AsAnswers, RequestOf, AnswerOf
<1> QED
  BY <1>4 DEF AtomicStep

LEMMA AskedStep ==
  ASSUME IInv, NEW p \in Procs, NEW c \in {"staging", "written", "staged", "commit"}, NEW o \in Operations,
         NEW s, s.text \in Whole, NEW a, Mapped(c, o, s, a, p),
         AnswerOf(a) = AnswerOf(answer[p]), Docs' = Docs, pc[p] \in {"idle", "consent"}
  PROVE  AtomicStep
<1> DEFINE r == RequestOf(c, o, s)
<1>1. AsRequests[p] = [pending |-> FALSE] /\ AsRequests' = [AsRequests EXCEPT ![p] = r]
  BY MappedTypes DEF RequestOf, Mapped
<1>2. AsAnswers' = AsAnswers
  BY MappedTypes DEF Mapped
<1>3. r \in [pending : {TRUE}, at : Places, text : Whole, done : BOOLEAN] /\ ~r.done
  <2>1. r = [pending |-> TRUE, at |-> PlaceOf(o.obs), text |-> s.text, done |-> FALSE]
    <3>1. c \notin {"idle", "consent"} /\ (c \in {"linked", "committed", "synced"}) = FALSE
      OBVIOUS
    <3> QED
      BY <3>1, Zenon DEF RequestOf
  <2>2. PlaceOf(o.obs) \in Places
    BY PlaceOfOperation
  <2> HIDE DEF r
  <2> QED
    BY <2>1, <2>2
<1> HIDE DEF r
<1>4. Atomic!Ask(p)
  BY <1>1, <1>2, <1>3
  DEF Atomic!Ask, Atomic!NoRequest, Atomic!Requests, Docs, AsRequests, AsAnswers, RequestOf, AnswerOf
<1> QED
  BY <1>4 DEF AtomicStep

(* What a process in a commit has asked for.                               *)
LEMMA Pending ==
  ASSUME IInv, NEW p \in Procs, pc[p] \notin {"idle", "consent"}
  PROVE  /\ AsRequests[p].pending = TRUE /\ AsRequests[p].at = PlaceOf(op[p].obs)
         /\ AsRequests[p].text = sess[p].text
         /\ AsRequests[p].done = (pc[p] \in {"linked", "committed", "synced"})
         /\ AsRequests[p] = [pending |-> TRUE, at |-> PlaceOf(op[p].obs), text |-> sess[p].text,
                             done |-> pc[p] \in {"linked", "committed", "synced"}]
<1>1. AsRequests[p] = [pending |-> TRUE, at |-> PlaceOf(op[p].obs), text |-> sess[p].text,
                       done |-> pc[p] \in {"linked", "committed", "synced"}]
  BY MappedTypes DEF RequestOf
<1> QED
  BY <1>1

LEMMA AnsweredStep ==
  ASSUME IInv, NEW p \in Procs, pc[p] \notin {"idle", "consent"}, NEW o, NEW s, NEW a,
         Mapped("idle", o, s, a, p), Docs' = Docs,
         AnswerOf(a) = IF pc[p] \in {"linked", "committed", "synced"} THEN "written" ELSE "failed"
  PROVE  AtomicStep
<1>1. AsRequests' = [AsRequests EXCEPT ![p] = [pending |-> FALSE]]
  BY DEF Mapped, RequestOf
<1>2. AsAnswers' = [AsAnswers EXCEPT ![p] = IF AsRequests[p].done THEN "written" ELSE "failed"]
  BY Pending DEF Mapped
<1>3. Atomic!Answer(p)
  BY <1>1, <1>2, Pending DEF Atomic!Answer, Atomic!NoRequest, Docs, AsRequests, AsAnswers, RequestOf, AnswerOf
<1> QED
  BY <1>3 DEF AtomicStep

LEMMA DiedStep ==
  ASSUME NEW p \in Procs, NEW o, NEW s, Mapped("idle", o, s, "none", p), Docs' = Docs
  PROVE  AtomicStep
<1>1. AsRequests' = [AsRequests EXCEPT ![p] = [pending |-> FALSE]]
  BY DEF Mapped, RequestOf
<1>2. AsAnswers' = [AsAnswers EXCEPT ![p] = "none"]
  BY DEF Mapped, AnswerOf
<1>3. Atomic!Die(p)
  BY <1>1, <1>2 DEF Atomic!Die, Atomic!NoRequest, Docs, AsRequests, AsAnswers, RequestOf, AnswerOf
<1> QED
  BY <1>3 DEF AtomicStep

LEMMA EffectStep ==
  ASSUME IInv, NEW p \in Procs, pc[p] = "commit", NEW c \in {"linked", "committed"},
         Mapped(c, op[p], sess[p], answer[p], p),
         Docs' = [Docs EXCEPT ![PlaceOf(op[p].obs)] = sess[p].text]
  PROVE  AtomicStep
<1> DEFINE r == [AsRequests[p] EXCEPT !.done = TRUE]
<1>1. RequestOf(c, op[p], sess[p]) = r
  <2> DEFINE R == [pending : {TRUE}, at : Places, text : Versions, done : BOOLEAN]
  <2>1. /\ AsRequests[p] \in R /\ AsRequests[p].at = PlaceOf(op[p].obs) /\ AsRequests[p].text = sess[p].text
    <3>1. PlaceOf(op[p].obs) \in Places /\ sess[p].text \in Versions
      BY InCommit
    <3>2. \A at \in Places, v \in Versions, d \in BOOLEAN :
            [pending |-> TRUE, at |-> at, text |-> v, done |-> d] \in R
      OBVIOUS
    <3>3. (pc[p] \in {"linked", "committed", "synced"}) \in BOOLEAN
      OBVIOUS
    <3>4. /\ AsRequests[p].at = PlaceOf(op[p].obs) /\ AsRequests[p].text = sess[p].text
          /\ AsRequests[p] = [pending |-> TRUE, at |-> PlaceOf(op[p].obs), text |-> sess[p].text,
                               done |-> pc[p] \in {"linked", "committed", "synced"}]
      BY Pending
    <3> HIDE DEF R
    <3> QED
      BY <3>1, <3>2, <3>3, <3>4, Zenon
  <2>2. r \in R
    BY <2>1, Zenon
  <2>3. r.pending = TRUE /\ r.done = TRUE /\ r.at = PlaceOf(op[p].obs) /\ r.text = sess[p].text
    BY <2>1
  <2> HIDE DEF r
  <2>4. r = [pending |-> TRUE, at |-> PlaceOf(op[p].obs), text |-> sess[p].text, done |-> TRUE]
    BY <2>2, <2>3
  <2>5. c \notin {"idle", "consent"} /\ (c \in {"linked", "committed", "synced"}) = TRUE
    OBVIOUS
  <2> QED
    BY <2>4, <2>5, Zenon DEF RequestOf
<1>2. AsRequests' = [AsRequests EXCEPT ![p] = r] /\ AsAnswers' = AsAnswers
  BY <1>1, MappedTypes DEF Mapped
<1>3. AsRequests' = [AsRequests EXCEPT ![p].done = TRUE]
  BY <1>2, Zenon
<1>4. AsRequests[p].pending /\ ~AsRequests[p].done
  BY Pending
<1>5. Docs' = [Docs EXCEPT ![AsRequests[p].at] = AsRequests[p].text]
  BY Pending
<1>6. Atomic!TakeEffect(p)
  BY <1>2, <1>3, <1>4, <1>5 DEF Atomic!TakeEffect, Docs, AsRequests, AsAnswers, RequestOf, AnswerOf
<1> QED
  BY <1>6 DEF AtomicStep

(* Others write new versions, copy links or remove.                        *)
LEMMA InterferenceStep ==
  ASSUME IInv, DataOK, UNCHANGED <<sess, pc, op, answer>>,
         \A place \in Places :
           \/ Content(place)' \in {Content(place), NoVersion}
           \/ Content(place)' = next /\ next \in Whole
           \/ \E other \in Places : Content(place)' = Content(other)
  PROVE  AtomicStep
<1>1. AsRequests' = AsRequests /\ AsAnswers' = AsAnswers
  BY DEF AsRequests, AsAnswers, RequestOf, AnswerOf, PlaceOf
<1>2. ASSUME NEW q \in Procs, AsRequests[q].pending
      PROVE  AsRequests[q].text # next /\ AsRequests[q].text # NoVersion
  <2>1. pc[q] \notin {"idle", "consent"}
    <3> SUFFICES ASSUME pc[q] \in {"idle", "consent"} PROVE FALSE
      OBVIOUS
    <3>1. AsRequests[q] = [pending |-> FALSE]
      BY MappedTypes DEF RequestOf
    <3> QED
      BY <1>2, <3>1
  <2>2. AsRequests[q].text = sess[q].text
    BY <2>1, Pending
  <2>3. sess[q].text # NoVersion /\ sess[q].text < next /\ sess[q].text \in Int /\ next \in Int
    BY <2>1, InCommit, NextIsNew DEF SessionOK, DataOK, TextOK, Versions
  <2> QED
    BY <2>2, <2>3
<1>3. NoVersion \in Whole
  BY VersionsAreIntegers DEF Whole, NoVersion, Torn
<1>4. Docs = [place \in Places |-> Content(place)] /\ Docs' = [place \in Places |-> Content(place)']
  BY DEF Docs
<1> DEFINE Awaited == {AsRequests[q].text : q \in {r \in Procs : AsRequests[r].pending /\ ~AsRequests[r].done}}
           Present == {Docs[at] : at \in Places}
<1>5. next \notin Awaited /\ NoVersion \notin Awaited
  BY <1>2
<1>6. ASSUME NEW at \in Places, Docs'[at] # Docs[at]
      PROVE  Docs'[at] \in Present \cup (Whole \ Awaited)
  <2>1. Docs[at] = Content(at) /\ Docs'[at] = Content(at)' /\ \A other \in Places : Content(other) \in Present
    BY <1>4
  <2> HIDE DEF Awaited, Present
  <2> QED
    BY <1>3, <1>5, <1>6, <2>1
<1>7. Atomic!Interfere
  BY <1>1, <1>6, Zenon
  DEF Atomic!Interfere, Atomic!ByOthers, Atomic!Held, Atomic!StillToBeWritten,
      Docs, AsRequests, AsAnswers, RequestOf, AnswerOf
<1> QED
  BY <1>7 DEF AtomicStep

LEMMA DocsKept ==
  ASSUME entry' = entry, data' = data
  PROVE  Docs' = Docs
  BY DEF Docs, Content, HeldBy

(* The user's steps ask, are refused or are not seen.                      *)
LEMMA IdleAtomic ==
  ASSUME IInv, NEW p \in Procs, NEW s, pc[p] = "idle",
         sess' = [sess EXCEPT ![p] = s], UNCHANGED <<pc, op, answer, entry, data>>
  PROVE  AtomicStep
<1>1. Mapped(pc[p], op[p], s, answer[p], p)
  BY SameElsewhere, OneProcessMapped DEF IInv
<1>2. RequestOf(pc[p], op[p], s) = RequestOf(pc[p], op[p], sess[p])
  BY DEF RequestOf
<1> QED
  BY <1>1, <1>2, DocsKept, UnseenStep

LEMMA RefuseAtomic ==
  ASSUME IInv, NEW p \in Procs, pc[p] \in {"idle", "consent"}, Refuse(p), Undisturbed
  PROVE  AtomicStep
<1>1. Mapped("idle", NoOperation, sess[p], "failed", p)
  BY SameElsewhere, OneProcessMapped DEF IInv, Refuse
<1> QED
  BY <1>1, DocsKept, RefusedStep DEF Undisturbed

LEMMA ProceedAtomic ==
  ASSUME IInv, DataOK, NEW p \in Procs, pc[p] \in {"idle", "consent"},
         NEW kind \in {"save", "saveas", "copy"}, NEW obs \in Observations,
         NEW where \in {"consent", "staging"}, Proceed(p, kind, obs, where), Undisturbed
  PROVE  AtomicStep
<1> DEFINE o == [kind |-> kind, obs |-> obs, synced |-> FALSE]
<1>1. o \in Operations
  BY Zenon DEF Operations
<1>2. Mapped(where, o, sess[p], answer[p], p)
  BY SameElsewhere, OneProcessMapped, Zenon DEF IInv, Proceed
<1>3. sess[p].text \in Whole
  BY DEF IInv, DataOK, ProcessOK, SessionOK, Sessions, TextOK, Whole
<1> HIDE DEF o
<1>4. CASE where = "consent"
  <2>1. RequestOf(where, o, sess[p]) = RequestOf(pc[p], op[p], sess[p])
    BY <1>4 DEF RequestOf
  <2> QED
    BY <1>2, <2>1, DocsKept, UnseenStep DEF Undisturbed
<1>5. CASE where = "staging"
  BY <1>1, <1>2, <1>3, <1>5, DocsKept, AskedStep DEF Undisturbed
<1> QED
  BY <1>4, <1>5

LEMMA GuardedSaveAtomic ==
  ASSUME IInv, DataOK, NEW p \in Procs, pc[p] \in {"idle", "consent"}, sess[p].base # NoBase,
         GuardedSaveOf(p), Undisturbed
  PROVE  AtomicStep
<1>1. sess[p].path \in Names
  BY DEF IInv, ProcessOK, SessionOK
<1>2. CASE MatchesBaseline(sess[p].base, sess[p].path)
  <2>1. Observation(sess[p].path) \in Observations
    BY <1>1, <1>2, ObservationType DEF MatchesBaseline, IInv
  <2>2. Proceed(p, "save", Observation(sess[p].path), "staging")
    BY <1>2 DEF GuardedSaveOf
  <2> QED
    BY <2>1, <2>2, ProceedAtomic
<1>3. CASE ~MatchesBaseline(sess[p].base, sess[p].path)
  BY <1>3, RefuseAtomic DEF GuardedSaveOf
<1> QED
  BY <1>2, <1>3

LEMMA BeginAtomic ==
  ASSUME IInv, DataOK, NEW p \in Procs, NEW n \in Names, BeginSaveAs(p, n) \/ BeginCopy(p, n)
  PROVE  AtomicStep
<1>1. pc[p] \in {"idle", "consent"} /\ Undisturbed
  BY DEF BeginSaveAs, BeginCopy, Idle
<1>2. \/ Refuse(p)
      \/ Observable(n) /\ \E kind \in {"saveas", "copy"} : Proceed(p, kind, Observation(n), "consent")
  BY DEF BeginSaveAs, BeginCopy
<1>3. Observable(n) => Observation(n) \in Observations
  BY ObservationType DEF IInv
<1> QED
  BY <1>1, <1>2, <1>3, RefuseAtomic, ProceedAtomic

LEMMA CancelAtomic == ASSUME IInv, NEW p \in Procs, Cancel(p) PROVE AtomicStep
<1>1. Mapped("idle", NoOperation, sess[p], answer[p], p)
  BY SameElsewhere, OneProcessMapped DEF IInv, Cancel
<1>2. RequestOf("idle", NoOperation, sess[p]) = RequestOf(pc[p], op[p], sess[p])
  BY DEF Cancel, RequestOf
<1> QED
  BY <1>1, <1>2, DocsKept, UnseenStep DEF Cancel, Undisturbed

LEMMA ConfirmAtomic == ASSUME IInv, DataOK, NEW p \in Procs, Confirm(p) PROVE AtomicStep
<1>1. CASE OntoAccepted(p) /\ GuardedSaveOf(p)
  BY <1>1, GuardedSaveAtomic DEF Confirm, OntoAccepted
<1>2. CASE Refuse(p)
  BY <1>2, RefuseAtomic DEF Confirm
<1>3. CASE Proceed(p, op[p].kind, op[p].obs, "staging")
  <2>1. op[p].kind \in {"save", "saveas", "copy"} /\ op[p].obs \in Observations
    BY InCommit, PlaceOfOperation DEF Confirm
  <2> QED
    BY <1>3, <2>1, ProceedAtomic DEF Confirm
<1> QED
  BY <1>1, <1>2, <1>3 DEF Confirm

LEMMA UserAtomic == ASSUME IInv, DataOK, NEW p \in Procs, UserStep(p) PROVE AtomicStep
<1>1. ASSUME NewDocument(p) \/ (\E n \in NamesHere : OpenDocument(p, n)) \/ Edit(p) PROVE AtomicStep
  <2>1. /\ pc[p] = "idle" /\ UNCHANGED <<pc, op, answer, entry, data>>
    BY <1>1 DEF NewDocument, OpenDocument, Edit, Idle, Undisturbed
  <2>2. \E s : sess' = [sess EXCEPT ![p] = s]
    BY <1>1, Zenon DEF NewDocument, OpenDocument, Edit
  <2> QED
    BY <2>1, <2>2, IdleAtomic
<1>2. ASSUME BeginSave(p) PROVE AtomicStep
  BY <1>2, GuardedSaveAtomic DEF BeginSave, Idle
<1> QED
  BY <1>1, <1>2, BeginAtomic, CancelAtomic, ConfirmAtomic DEF UserStep, NamesHere

(* The writer's steps: the rename takes effect, a failure or the end       *)
(* answers, and the rest is not seen.                                      *)
LEMMA FailAtomic ==
  ASSUME IInv, NEW p \in Procs, pc[p] \in {"staging", "written", "staged", "commit"}, Fail(p)
  PROVE  AtomicStep
<1>1. Mapped("idle", NoOperation, sess[p], "failed", p)
  BY SameElsewhere, OneProcessMapped DEF IInv, Fail, Refuse
<1> QED
  BY <1>1, DocsKept, AnsweredStep DEF Fail, AnswerOf

Early == {"staging", "written", "staged", "commit"}

Late == {"linked", "committed", "synced"}

LEMMA WriterUnseen ==
  ASSUME IInv, NEW p \in Procs, NEW c, NEW o, o.obs = op[p].obs,
         \/ pc[p] \in Early /\ c \in Early
         \/ pc[p] \in Late /\ c \in Late,
         UNCHANGED <<sess, answer>>, pc' = [pc EXCEPT ![p] = c], op' = [op EXCEPT ![p] = o], Docs' = Docs
  PROVE  AtomicStep
<1>1. Mapped(c, o, sess[p], answer[p], p)
  BY SameElsewhere, OneProcessMapped DEF IInv
<1>2. RequestOf(c, o, sess[p]) = RequestOf(pc[p], op[p], sess[p])
  <2>1. c \notin {"idle", "consent"} /\ pc[p] \notin {"idle", "consent"}
    BY DEF Early, Late
  <2>2. (c \in {"linked", "committed", "synced"}) = (pc[p] \in {"linked", "committed", "synced"})
    BY DEF Early, Late
  <2> QED
    BY <2>1, <2>2, Zenon DEF RequestOf, PlaceOf
<1> QED
  BY <1>1, <1>2, UnseenStep

LEMMA CreateStageAtomic == ASSUME IInv, DataOK, NEW p \in Procs, CreateStage(p) PROVE AtomicStep
<1>1. CASE Fail(p)
  BY <1>1, FailAtomic DEF CreateStage
<1>2. ASSUME NEW inode \in FreeInodes,
             data' = DataWith(inode, sess[p].text), pc' = [pc EXCEPT ![p] = "written"],
             UNCHANGED <<entry, parent, stable, litter, sess, op, answer, next, promised>>
      PROVE  AtomicStep
  <2>1. sess[p].text \in Versions /\ sess[p].text # NoVersion
    BY InCommit DEF CreateStage, SessionOK
  <2>2. \A place \in Places : Content(place)' = Content(place)
    BY <1>2, <2>1, FreeInodeWritten DEF IInv, Content, HeldBy
  <2>3. op' = [op EXCEPT ![p] = op[p]] /\ pc[p] \in Early /\ "written" \in Early
    BY <1>2, SameElsewhere DEF IInv, Early, CreateStage
  <2> QED
    BY <1>2, <2>2, <2>3, SameDocs, WriterUnseen
<1> QED
  BY <1>1, <1>2 DEF CreateStage

LEMMA EarlyAtomic ==
  ASSUME IInv, NEW p \in Procs, SyncStage(p) \/ Revalidate(p)
  PROVE  AtomicStep
<1>1. CASE Fail(p)
  BY <1>1, FailAtomic DEF SyncStage, Revalidate
<1>2. CASE ~Fail(p)
  <2>1. op' = [op EXCEPT ![p] = op[p]]
    BY <1>2, SameElsewhere DEF IInv, SyncStage, Revalidate
  <2>2. /\ pc[p] \in Early /\ UNCHANGED <<sess, answer, entry, data>>
        /\ \E c \in Early : pc' = [pc EXCEPT ![p] = c]
    BY <1>2 DEF SyncStage, Revalidate, Undisturbed, Early
  <2> QED
    BY <2>1, <2>2, DocsKept, WriterUnseen
<1> QED
  BY <1>1, <1>2

LEMMA StageToTargetAtomic ==
  ASSUME IInv, DataOK, NEW p \in Procs, pc[p] = "commit", stage[p] # NoInode,
         NEW where \in {"linked", "committed"}, StageToTarget(p, where)
  PROVE  AtomicStep
<1> DEFINE at == PlaceOf(op[p].obs)
<1>1. at \in Places /\ stage[p] \in Inodes /\ data[stage[p]] = sess[p].text
  BY InCommit DEF DataOK, StageOK
<1>2. Mapped(where, op[p], sess[p], answer[p], p)
  BY SameElsewhere, OneProcessMapped DEF IInv, StageToTarget
<1>3. /\ \A place \in Places : entry'[place] = IF place = at THEN stage[p] ELSE entry[place]
      /\ data' = data
  BY <1>1 DEF StageToTarget, IInv, FilesOK
<1> HIDE DEF at
<1>4. \A place \in Places : Content(place)' = IF place = at THEN sess[p].text ELSE Content(place)
  BY <1>1, <1>3 DEF Content, HeldBy
<1>5. Docs' = [Docs EXCEPT ![at] = sess[p].text]
  BY <1>4 DEF Docs
<1> QED
  BY <1>2, <1>5, EffectStep DEF at

LEMMA RenameAtomic ==
  ASSUME IInv, DataOK, NEW p \in Procs, Replace(p) \/ RenameNoReplace(p) \/ LinkStage(p)
  PROVE  AtomicStep
  BY FailAtomic, StageToTargetAtomic DEF Replace, RenameNoReplace, LinkStage

LEMMA LateAtomic ==
  ASSUME IInv, NEW p \in Procs, UnlinkStage(p) \/ SyncDirectory(p)
  PROVE  AtomicStep
<1>1. /\ pc[p] \in Late /\ UNCHANGED <<sess, answer, entry, data>>
      /\ \E c \in Late : pc' = [pc EXCEPT ![p] = c]
  BY DEF UnlinkStage, SyncDirectory, Late
<1>2. \E o : op' = [op EXCEPT ![p] = o] /\ o.obs = op[p].obs
  <2>1. CASE op' = op
    BY <2>1, SameElsewhere DEF IInv
  <2>2. CASE op' = [op EXCEPT ![p].synced = TRUE]
    <3> DEFINE o == [op[p] EXCEPT !.synced = TRUE]
    <3>1. op' = [op EXCEPT ![p] = o]
      BY <2>2, Zenon
    <3>2. o.obs = op[p].obs
      BY <1>1, InCommit DEF Late, Operations
    <3> HIDE DEF o
    <3> QED
      BY <3>1, <3>2
  <2> QED
    BY <2>1, <2>2 DEF UnlinkStage, SyncDirectory
<1> QED
  BY <1>1, <1>2, DocsKept, WriterUnseen

LEMMA FinishAtomic == ASSUME IInv, NEW p \in Procs, Finish(p) PROVE AtomicStep
<1>1. Mapped("idle", NoOperation, Accepted(p), Disposition(p), p)
  BY SameElsewhere, OneProcessMapped DEF IInv, Finish
<1>2. AnswerOf(Disposition(p)) = "written" /\ pc[p] = "synced"
  BY DEF Disposition, AnswerOf, Finish
<1> QED
  BY <1>1, <1>2, DocsKept, AnsweredStep DEF Finish, Undisturbed

LEMMA WriterAtomic == ASSUME IInv, DataOK, NEW p \in Procs, WriterStep(p) PROVE AtomicStep
  BY CreateStageAtomic, EarlyAtomic, RenameAtomic, LateAtomic, FinishAtomic DEF WriterStep

(* Crash, power loss and other programs.                                   *)
LEMMA CrashAtomic == ASSUME IInv, NEW p \in Procs, Crash(p) PROVE AtomicStep
<1>1. Mapped("idle", NoOperation, NewSession, "none", p)
  BY OneProcessMapped DEF IInv, Crash
<1> QED
  BY <1>1, DocsKept, DiedStep DEF Crash

LEMMA PowerLossAtomic == ASSUME DocsWhole', PowerLoss PROVE AtomicStep
<1>1. /\ AsRequests' = [p \in Procs |-> [pending |-> FALSE]]
      /\ AsAnswers' = [p \in Procs |-> "none"]
  BY DEF PowerLoss, AsRequests, AsAnswers, RequestOf, AnswerOf
<1>2. Docs' \in [Places -> Whole]
  BY DEF DocsWhole, Docs
<1>3. Atomic!Restart
  BY <1>1, <1>2 DEF Atomic!Restart, Atomic!NoRequest, Docs, AsRequests, AsAnswers, RequestOf, AnswerOf
<1> QED
  BY <1>3 DEF AtomicStep

LEMMA NewVersionIsWhole ==
  ASSUME IInv, VersionLeft
  PROVE  next \in Whole
<1>1. next \in Versions /\ next \in Nat
  BY NextVersion, NextIsNatural DEF IInv
<1> QED
  BY <1>1 DEF Whole, Torn

LEMMA ForeignWriteAtomic ==
  ASSUME IInv, DataOK, NEW place \in Places, ForeignWrite(place) PROVE AtomicStep
<1>1. /\ entry' = entry /\ data' = [data EXCEPT ![entry[place]] = next]
      /\ UNCHANGED <<sess, pc, op, answer>>
  BY DEF ForeignWrite, Others
<1>2. \A at \in Places : Content(at)' \in {Content(at), NoVersion} \/ Content(at)' = next
  BY <1>1 DEF Content, HeldBy, IInv, FilesOK
<1> QED
  BY <1>1, <1>2, NewVersionIsWhole, InterferenceStep DEF ForeignWrite

LEMMA ForeignPutAtomic ==
  ASSUME IInv, DataOK, NEW place \in Places, ForeignPut(place) PROVE AtomicStep
<1>1. PICK x \in FreeInodes : Others([entry EXCEPT ![place] = x], DataWith(x, next), place)
  BY DEF ForeignPut
<1>2. next \in Int /\ next # Torn /\ next # NoVersion
  BY NextIsNew
<1>3. /\ entry' = [entry EXCEPT ![place] = x] /\ data' = DataWith(x, next)
      /\ UNCHANGED <<sess, pc, op, answer>>
  BY <1>1 DEF Others
<1>4. /\ x \in Inodes /\ data'[x] = next
      /\ \A at \in Places : entry[at] \in Inodes => data'[entry[at]] = data[entry[at]]
  BY <1>2, <1>3, FreshInode
<1>5. \A at \in Places : entry'[at] = IF at = place THEN x ELSE entry[at]
  BY <1>3 DEF IInv, FilesOK
<1>6. \A at \in Places : Content(at)' \in {Content(at), NoVersion} \/ Content(at)' = next
  BY <1>4, <1>5 DEF Content, HeldBy
<1> QED
  BY <1>3, <1>6, NewVersionIsWhole, InterferenceStep DEF ForeignPut

(* Removing and linking hand out no version.                               *)
LEMMA NamedAnewAtomic ==
  ASSUME IInv, DataOK, NEW place \in Places, NEW x, Others([entry EXCEPT ![place] = x], data, place),
         x \notin Inodes \/ \E other \in Places : x = entry[other]
  PROVE  AtomicStep
<1>1. /\ entry' = [entry EXCEPT ![place] = x] /\ data' = data
      /\ UNCHANGED <<sess, pc, op, answer>>
  BY DEF Others
<1>2. \A at \in Places : entry'[at] = IF at = place THEN x ELSE entry[at]
  BY <1>1 DEF IInv, FilesOK
<1>3. \A at \in Places : Content(at)' = NoVersion \/ \E other \in Places : Content(at)' = Content(other)
  BY <1>1, <1>2 DEF Content, HeldBy
<1> QED
  BY <1>1, <1>3, InterferenceStep

LEMMA UnseenByAll ==
  ASSUME UNCHANGED <<entry, data, sess, pc, op, answer>>
  PROVE  AtomicStep
<1>1. AsRequests' = AsRequests /\ AsAnswers' = AsAnswers
  BY DEF AsRequests, AsAnswers, RequestOf, AnswerOf, PlaceOf
<1> QED
  BY <1>1, DocsKept DEF AtomicStep

LEMMA ForeignAtomic == ASSUME IInv, DataOK, ForeignStep PROVE AtomicStep
<1>1. Here \subseteq Places /\ \A d \in DirsHere, n \in NamesHere : <<d, n>> \in Places
  BY DEF Here, NamesHere, DirsHere, Places
<1>2. \A n \in NamesHere : n \notin Inodes
  BY NamesAndInodes DEF NamesHere
<1>3. ASSUME NEW place \in Places, ForeignRemove(place) PROVE AtomicStep
  BY <1>3, NamedAnewAtomic, NamesAndInodes DEF ForeignRemove
<1>4. ASSUME NEW place \in Places, NEW other \in Places, ForeignHardLink(place, other) PROVE AtomicStep
  BY <1>4, NamedAnewAtomic DEF ForeignHardLink
<1>5. ASSUME NEW d \in DirsHere, NEW n \in NamesHere, NEW to \in NamesHere, ForeignSymlink(d, n, to)
      PROVE  AtomicStep
  BY <1>1, <1>2, <1>5, NamedAnewAtomic DEF ForeignSymlink
<1>6. ASSUME NEW d \in DirsHere, ForeignParent(d) PROVE AtomicStep
  BY <1>6, UnseenByAll DEF ForeignParent
<1>7. ASSUME NEW p \in Procs, ForeignClean(p) PROVE AtomicStep
  BY <1>7, UnseenByAll DEF ForeignClean
<1> QED
  BY <1>1, <1>3, <1>4, <1>5, <1>6, <1>7, ForeignWriteAtomic, ForeignPutAtomic DEF ForeignStep

LEMMA NextAtomic == ASSUME IInv, DataOK, DocsWhole', [Next]_vars PROVE AtomicStep
<1>1. CASE UNCHANGED vars
  BY <1>1, UnseenByAll DEF vars
<1> QED
  BY <1>1, UserAtomic, WriterAtomic, CrashAtomic, PowerLossAtomic, ForeignAtomic DEF Next

LEMMA InitAtomic == ASSUME IInv, DataOK, Init PROVE Atomic!Init
<1>1. Docs \in [Places -> Whole]
  BY PlacesAreWhole DEF DocsWhole, Docs
<1>2. AsRequests = [p \in Procs |-> [pending |-> FALSE]] /\ AsAnswers = [p \in Procs |-> "none"]
  BY DEF Init, AsRequests, AsAnswers, RequestOf, AnswerOf
<1> QED
  BY <1>1, <1>2 DEF Atomic!Init, Atomic!NoRequest, Docs, AsRequests, AsAnswers, RequestOf, AnswerOf

(* Whatever fails, crashes, loses power or is done by others in between,   *)
(* and with the window open: a guarded save takes effect at once and whole,*)
(* or not at all, and what its user is told is what happened: "failed" is  *)
(* said only of a save that changed nothing, and any other disposition of  *)
(* one that put its text in place.                                         *)
THEOREM SavesAreAtomic == Spec => ImplementsAtomicSave
<1>1. ASSUME IInv, DataOK, Init PROVE Atomic!Init
  BY <1>1, InitAtomic
<1>2. ASSUME IInv, DataOK, DocsWhole', [Next]_vars PROVE [Atomic!Next]_Atomic!vars
  BY <1>2, NextAtomic, MappedNext
<1> QED
  BY <1>1, <1>2, PlacesStayWhole, Invariant, DataHolds, PTL DEF Spec, ImplementsAtomicSave, Atomic!Spec
=============================================================================
