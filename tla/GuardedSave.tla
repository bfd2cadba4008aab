---------------------------- MODULE GuardedSave -----------------------------
(***************************************************************************)
(* Saving to a file system that other processes share: the guarded writer  *)
(* (infrastructure/guarded_file_writer.py), the save and copy services and *)
(* the lifecycle that calls them.  Every process is one editor window; its *)
(* save is a sequence of system calls and dialogs, and between any two of  *)
(* them another process may act, a call may fail, the process may crash or *)
(* power may be lost.                                                      *)
(*                                                                         *)
(* A file is an inode that holds a version; every new text is a version of *)
(* its own, so a version stands for content, digest, size and times.  Mode,*)
(* owner and extended attributes are left out.  One observation of a       *)
(* target (open, hash, stat, compare) is one step: the code detects a      *)
(* change during it and refuses.                                           *)
(***************************************************************************)
EXTENDS Integers, FiniteSets

CONSTANTS
  Procs, Names, Dirs, Inodes,
  NoName, NoInode,
  Worlds,           \* by name, the worlds the editors may find themselves in
  Window,           \* who acts between revalidation and rename
  MaxVersion        \* bound: versions handed out

Places == Dirs \X Names

ASSUME NamesAndInodes ==
  /\ Names \cap Inodes = {}
  /\ NoName \notin Names \cup Inodes /\ NoInode \notin Names \cup Inodes
ASSUME WindowIsKnown == Window \in {"closed", "new targets", "open"}
ASSUME SomeVersions == MaxVersion \in Nat \ {0}
ASSUME FinitelyManyProcesses == IsFiniteSet(Procs)

(* What differs between worlds: how many editors run, what the directories *)
(* hold at first, what other programs do, which calls fail and how a       *)
(* process ends; and the bounds, the places in use and the last version.   *)
ASSUME WorldsAreDescribed ==
  \A w \in DOMAIN Worlds :
    /\ Worlds[w].editors \in Nat /\ Worlds[w].last \in Nat
    /\ Worlds[w].names \subseteq Names /\ Worlds[w].dirs \subseteq Dirs
    /\ Worlds[w].entries \subseteq [Places -> Names \cup Inodes \cup {NoInode}]
    /\ Worlds[w].foreign \subseteq
         {"write", "replace", "remove", "create", "hardlink", "symlink", "parent", "clean"}
    /\ Worlds[w].failures \subseteq
         {"stage", "rename", "norename", "unlink", "sync", "crash", "power"}

Torn == -2          \* a file whose blocks never reached the disk
NoVersion == -1     \* no file
Empty == 0          \* the text of an untitled document

Versions == -2 .. MaxVersion

Whole == Versions \ {Torn}

VARIABLES
  world,      \* the world this is; it never changes
  editors,    \* the processes that are editors in it; they never change
  entry,      \* the directories: an inode, the name a symbolic link leads to, or nothing
  data,       \* the version each inode holds
  parent,     \* the directory the parent path leads to
  stable,     \* the directories as they were last synced
  unsynced,   \* inodes whose data was not synced
  stage,      \* the inode under the stage name of each process
  litter,     \* inodes left under the stage names of dead processes
  sess,       \* the session: path, accepted baseline, text, saved text
  pc, op,     \* where a process is in a save, and of what
  answer,     \* the disposition its user was last told
  next,       \* the next version
  promised    \* observer: the version a place was confirmed to hold

vars == <<world, editors, entry, data, parent, stable, unsynced, stage, litter,
          sess, pc, op, answer, next, promised>>

World == Worlds[world]

NamesHere == Names \cap World.names
DirsHere == Dirs \cap World.dirs
Here == DirsHere \X NamesHere

-----------------------------------------------------------------------------
(* The file system.                                                        *)

RealPlace(d, n) == IF entry[<<d, n>>] \in Names THEN <<d, entry[<<d, n>>]>> ELSE <<d, n>>

(* The place a path leads to now.                                          *)
Target(n) == RealPlace(parent, n)

HeldBy(inode) == IF inode \in Inodes THEN data[inode] ELSE NoVersion

Content(place) == HeldBy(entry[place])

LinkCount(inode) ==
  Cardinality({place \in Places : entry[place] = inode})
    + Cardinality({p \in Procs : stage[p] = inode}) + Cardinality(litter \cap {inode})

FreeInodes ==
  {i \in Inodes : /\ \A place \in Places : entry[place] # i /\ stable[place] # i
                  /\ \A p \in Procs : stage[p] # i
                  /\ i \notin litter}

(* A free inode taken for a new version; what other free ones held is of   *)
(* no concern.                                                             *)
DataWith(inode, version) ==
  [i \in Inodes |-> IF i = inode THEN version ELSE IF i \in FreeInodes THEN Empty ELSE data[i]]

-----------------------------------------------------------------------------
(* Observations and baselines.                                             *)

NoBase == [ino |-> NoInode, ver |-> NoVersion, at |-> <<NoName, NoName>>]

BaseAt(place) == [ino |-> entry[place], ver |-> Content(place), at |-> place]

NewSession == [path |-> NoName, base |-> NoBase, text |-> Empty, saved |-> Empty]

NoOperation == [kind |-> "none"]

Exists(obs) == obs.ino # NoInode

PlaceOf(obs) == <<obs.dir, obs.at>>

(* observe_target: a regular file with one link, or nothing; dangling      *)
(* links and hard links are refused.                                       *)
Observable(n) ==
  \/ entry[<<parent, n>>] = NoInode
  \/ entry[Target(n)] \in Inodes /\ LinkCount(entry[Target(n)]) = 1

Observation(n) ==
  [name |-> n, dir |-> parent, at |-> Target(n)[2], ino |-> entry[Target(n)],
   ver |-> Content(Target(n)), link |-> entry[<<parent, n>>] \in Names]

(* observe_target of an ordinary Save: the accepted file, unchanged.       *)
MatchesBaseline(base, n) == Observable(n) /\ BaseAt(Target(n)) = base

RevalidatedPlace(obs) ==            \* mutant: the observed place, not the path to it
  entry[PlaceOf(obs)] = obs.ino

RevalidatedPath(obs) ==             \* mutant: the path to the place, not what it holds
  IF Exists(obs)
  THEN Observable(obs.name) /\ Target(obs.name) = PlaceOf(obs)
  ELSE entry[<<parent, obs.name>>] = NoInode /\ parent = obs.dir

(* _verify_parent and _late_revalidate.                                    *)
Revalidated(obs) ==
  /\ parent = obs.dir
  /\ IF Exists(obs)
     THEN Observable(obs.name) /\ Observation(obs.name) = obs
     ELSE entry[<<obs.dir, obs.name>>] = NoInode

-----------------------------------------------------------------------------
(* A user's documents: New, Open or Reload, Edit.                          *)

Idle(p) == pc[p] = "idle"

(* Others stay out of the window between revalidation and rename unless it *)
(* is open; other editors may be let in where the target is a new name.    *)
OutsideWindow(p) ==
  Window = "open" \/ \A q \in Procs \ {p} :
    pc[q] = "commit" => Window = "new targets" /\ ~Exists(op[q].obs)

VersionLeft == next =< MaxVersion /\ next =< World.last

Undisturbed == UNCHANGED <<entry, data, parent, stable, unsynced, stage, litter>>

NewDocument(p) ==
  /\ Idle(p)
  /\ sess' = [sess EXCEPT ![p] = NewSession]
  /\ Undisturbed /\ UNCHANGED <<pc, op, answer, next, promised>>

OpenDocument(p, n) ==
  /\ Idle(p) /\ entry[Target(n)] \in Inodes
  /\ LET base == BaseAt(Target(n))
     IN  sess' = [sess EXCEPT ![p] = [path |-> n, base |-> base,
                                      text |-> base.ver, saved |-> base.ver]]
  /\ Undisturbed /\ UNCHANGED <<pc, op, answer, next, promised>>

Edit(p) ==
  /\ Idle(p) /\ VersionLeft
  /\ sess' = [sess EXCEPT ![p].text = next]
  /\ next' = next + 1
  /\ Undisturbed /\ UNCHANGED <<pc, op, answer, promised>>

-----------------------------------------------------------------------------
(* The way to a commit: observation, dialogs, checks.                      *)

Refuse(p) ==
  /\ answer' = [answer EXCEPT ![p] = "failed"]
  /\ pc' = [pc EXCEPT ![p] = "idle"]
  /\ op' = [op EXCEPT ![p] = NoOperation]
  /\ UNCHANGED sess

Proceed(p, kind, obs, where) ==
  /\ op' = [op EXCEPT ![p] = [kind |-> kind, obs |-> obs, synced |-> FALSE]]
  /\ pc' = [pc EXCEPT ![p] = where]
  /\ UNCHANGED <<sess, answer>>

(* save_service.save: observe the active path and require the baseline.    *)
GuardedSaveOf(p) ==
  IF MatchesBaseline(sess[p].base, sess[p].path)
  THEN Proceed(p, "save", Observation(sess[p].path), "staging")
  ELSE Refuse(p)

BeginSave(p) ==
  /\ Idle(p) /\ sess[p].base # NoBase
  /\ GuardedSaveOf(p)
  /\ Undisturbed /\ UNCHANGED <<next, promised>>

(* Save As (and Save without a baseline): the observation is frozen, then  *)
(* the user is asked before anything is overwritten or normalized.         *)
BeginSaveAs(p, n) ==
  /\ Idle(p)
  /\ IF Observable(n)
     THEN Proceed(p, "saveas", Observation(n), "consent")
     ELSE Refuse(p)
  /\ Undisturbed /\ UNCHANGED <<next, promised>>

CopyAllowedOverAlias(p, obs) == obs.name # sess[p].path   \* mutant: only the path is compared

(* A copy never goes to the active path or to the accepted file.           *)
CopyAllowed(p, obs) ==
  /\ obs.name # sess[p].path
  /\ Exists(obs) /\ sess[p].base # NoBase => obs.ino # sess[p].base.ino

BeginCopy(p, n) ==
  /\ Idle(p)
  /\ IF Observable(n) /\ CopyAllowed(p, Observation(n))
     THEN Proceed(p, "copy", Observation(n), "consent")
     ELSE Refuse(p)
  /\ Undisturbed /\ UNCHANGED <<next, promised>>

Cancel(p) ==
  /\ pc[p] = "consent"
  /\ pc' = [pc EXCEPT ![p] = "idle"]
  /\ op' = [op EXCEPT ![p] = NoOperation]
  /\ Undisturbed /\ UNCHANGED <<sess, answer, next, promised>>

(* The user agrees to lose what was observed.  A Save As onto the accepted *)
(* file is an ordinary Save, with its own observation.                     *)
OntoAccepted(p) ==
  /\ op[p].kind = "saveas" /\ Exists(op[p].obs)
  /\ sess[p].base # NoBase /\ op[p].obs.ino = sess[p].base.ino

Forbidden(p) == op[p].kind = "copy" /\ ~CopyAllowed(p, op[p].obs)

Confirm(p) ==
  /\ pc[p] = "consent"
  /\ \/ OntoAccepted(p) /\ GuardedSaveOf(p)
     \/ Forbidden(p) /\ Refuse(p)
     \/ ~OntoAccepted(p) /\ ~Forbidden(p) /\ Proceed(p, op[p].kind, op[p].obs, "staging")
  /\ Undisturbed /\ UNCHANGED <<next, promised>>

-----------------------------------------------------------------------------
(* GuardedFileWriter.commit, one system call after the other.  A failure   *)
(* before the rename removes the stage and is reported as such; when       *)
(* removing fails too, the stage stays where it is.                        *)

MayFail(kind) == kind \in World.failures

LitterIfUnlinkFails(p) ==
  {litter} \cup (IF MayFail("unlink") THEN {litter \cup ({stage[p]} \ {NoInode})} ELSE {})

StageLeftBehind(p) == stage[p]      \* mutant: no cleanup

StageAfterFailure(p) == NoInode

Fail(p) ==
  /\ stage' = [stage EXCEPT ![p] = StageAfterFailure(p)]
  /\ litter' \in LitterIfUnlinkFails(p)
  /\ Refuse(p)
  /\ UNCHANGED <<entry, data, parent, stable, unsynced, next, promised>>

CreateStage(p) ==
  /\ pc[p] = "staging"
  /\ \/ /\ parent = op[p].obs.dir
        /\ \E inode \in FreeInodes :
             /\ stage' = [stage EXCEPT ![p] = inode]
             /\ data' = DataWith(inode, sess[p].text)
             /\ unsynced' = unsynced \cup {inode}
        /\ pc' = [pc EXCEPT ![p] = "written"]
        /\ UNCHANGED <<entry, parent, stable, litter, sess, op, answer, next, promised>>
     \/ (parent # op[p].obs.dir \/ MayFail("stage")) /\ Fail(p)

SyncSkipped(p) == unsynced           \* mutant: no fsync of the stage

(* The stage is synced through its descriptor, whether or not its name is  *)
(* still there.                                                            *)
UnsyncedAfterSync(p) == unsynced \ {stage[p]}

SyncStage(p) ==
  /\ pc[p] = "written"
  /\ \/ /\ unsynced' = UnsyncedAfterSync(p)
        /\ pc' = [pc EXCEPT ![p] = "staged"]
        /\ UNCHANGED <<entry, data, parent, stable, stage, litter, sess, op, answer, next, promised>>
     \/ MayFail("stage") /\ Fail(p)

Revalidate(p) ==
  /\ pc[p] = "staged" /\ OutsideWindow(p)
  /\ IF stage[p] # NoInode /\ Revalidated(op[p].obs)
     THEN /\ pc' = [pc EXCEPT ![p] = "commit"]
          /\ Undisturbed /\ UNCHANGED <<sess, op, answer, next, promised>>
     ELSE Fail(p)

(* The stage name becomes the target's; whatever the target was goes.      *)
StageToTarget(p, where) ==
  /\ entry' = [entry EXCEPT ![PlaceOf(op[p].obs)] = stage[p]]
  /\ pc' = [pc EXCEPT ![p] = where]
  /\ promised' = [promised EXCEPT ![PlaceOf(op[p].obs)] = NoVersion]
  /\ UNCHANGED <<data, parent, stable, unsynced, litter, sess, op, answer, next>>

Replace(p) ==
  /\ pc[p] = "commit" /\ Exists(op[p].obs)
  /\ \/ /\ stage[p] # NoInode
        /\ StageToTarget(p, "committed")
        /\ stage' = [stage EXCEPT ![p] = NoInode]
     \/ (stage[p] = NoInode \/ MayFail("rename")) /\ Fail(p)

TargetFree(p) == entry[PlaceOf(op[p].obs)] = NoInode

(* renameat2(RENAME_NOREPLACE), or link and unlink where it is missing.    *)
RenameNoReplace(p) ==
  /\ pc[p] = "commit" /\ ~Exists(op[p].obs)
  /\ \/ /\ TargetFree(p) /\ stage[p] # NoInode
        /\ StageToTarget(p, "committed")
        /\ stage' = [stage EXCEPT ![p] = NoInode]
     \/ (~TargetFree(p) \/ stage[p] = NoInode \/ MayFail("rename")) /\ Fail(p)

LinkStage(p) ==
  /\ pc[p] = "commit" /\ ~Exists(op[p].obs) /\ MayFail("norename")
  /\ TargetFree(p) /\ stage[p] # NoInode
  /\ StageToTarget(p, "linked")
  /\ UNCHANGED stage

(* Past the commit a failure is a warning: the stage name may stay behind. *)
UnlinkStage(p) ==
  /\ pc[p] = "linked" /\ OutsideWindow(p)
  /\ stage' = [stage EXCEPT ![p] = NoInode]
  /\ pc' = [pc EXCEPT ![p] = "committed"]
  /\ litter' \in LitterIfUnlinkFails(p)
  /\ UNCHANGED <<entry, data, parent, stable, unsynced, sess, op, answer, next, promised>>

SyncDirectory(p) ==
  /\ pc[p] = "committed"
  /\ \/ /\ stable' = [place \in Places |->
                        IF place[1] = op[p].obs.dir THEN entry[place] ELSE stable[place]]
        /\ op' = [op EXCEPT ![p].synced = TRUE]
     \/ MayFail("sync") /\ UNCHANGED <<stable, op>>
  /\ pc' = [pc EXCEPT ![p] = "synced"]
  /\ UNCHANGED <<entry, data, parent, unsynced, stage, litter, sess, answer, next, promised>>

AnyFileIsBaseline(p) == entry[Target(op[p].obs.name)] \in Inodes   \* mutant: no digest check

(* A fresh load through the path tells whether the bytes are still there.  *)
BaselineAvailable(p) == Content(Target(op[p].obs.name)) = sess[p].text

DispositionOfUnsynced(p) ==          \* mutant: an uncertain commit is reported as a failure
  IF ~op[p].synced THEN "failed" ELSE IF BaselineAvailable(p) THEN "confirmed" ELSE "unbaselined"

Disposition(p) ==
  IF ~BaselineAvailable(p) THEN "unbaselined"
  ELSE IF op[p].synced THEN "confirmed" ELSE "uncertain"

(* accept_committed_save binds to the written path; a copy binds nothing.  *)
Accepted(p) ==
  IF op[p].kind = "copy"
  THEN sess[p]
  ELSE [path |-> op[p].obs.name, text |-> sess[p].text, saved |-> sess[p].text,
        base |-> IF BaselineAvailable(p) THEN BaseAt(Target(op[p].obs.name)) ELSE NoBase]

Finish(p) ==
  /\ pc[p] = "synced"
  /\ answer' = [answer EXCEPT ![p] = Disposition(p)]
  /\ sess' = [sess EXCEPT ![p] = Accepted(p)]
  /\ promised' = IF Disposition(p) = "confirmed"
                 THEN [promised EXCEPT ![PlaceOf(op[p].obs)] = Content(PlaceOf(op[p].obs))]
                 ELSE promised
  /\ pc' = [pc EXCEPT ![p] = "idle"]
  /\ op' = [op EXCEPT ![p] = NoOperation]
  /\ Undisturbed /\ UNCHANGED next

-----------------------------------------------------------------------------
(* Crash and power loss.                                                   *)

Crash(p) ==
  /\ MayFail("crash") /\ ~Idle(p)
  /\ litter' = litter \cup ({stage[p]} \ {NoInode})
  /\ stage' = [stage EXCEPT ![p] = NoInode]
  /\ sess' = [sess EXCEPT ![p] = NewSession]
  /\ pc' = [pc EXCEPT ![p] = "idle"]
  /\ op' = [op EXCEPT ![p] = NoOperation]
  /\ answer' = [answer EXCEPT ![p] = "none"]
  /\ UNCHANGED <<entry, data, parent, stable, unsynced, next, promised>>

(* Each name is as it was last synced or as it is now; data that was not   *)
(* synced is gone.                                                         *)
PowerLoss ==
  /\ MayFail("power") /\ \E p \in Procs : ~Idle(p)
  /\ \E lost \in SUBSET {place \in Places : entry[place] # stable[place]} :
       entry' = [place \in Places |-> IF place \in lost THEN stable[place] ELSE entry[place]]
  /\ data' = [i \in Inodes |-> IF i \in unsynced THEN Torn ELSE data[i]]
  /\ stable' = entry' /\ unsynced' = {}
  /\ litter' = litter \cup ({stage[p] : p \in Procs} \ {NoInode})
  /\ stage' = [p \in Procs |-> NoInode]
  /\ sess' = [p \in Procs |-> NewSession]
  /\ pc' = [p \in Procs |-> "idle"]
  /\ op' = [p \in Procs |-> NoOperation]
  /\ answer' = [p \in Procs |-> "none"]
  /\ UNCHANGED <<parent, next, promised>>

-----------------------------------------------------------------------------
(* Other programs.  What they do is durable at once; a promise ends where  *)
(* they change what a place holds.                                         *)

ForeignDo(kind) ==
  kind \in World.foreign /\ \A p \in Procs : Window = "open" \/ pc[p] # "commit"

Others(newEntry, newData, place) ==
  /\ entry' = newEntry /\ data' = newData
  /\ stable' = [stable EXCEPT ![place] = newEntry[place]]
  /\ unsynced' = unsynced \ {newEntry[place]}
  /\ promised' = [at \in Places |-> IF Content(at)' = Content(at) THEN promised[at] ELSE NoVersion]
  /\ UNCHANGED <<parent, stage, litter, sess, pc, op, answer>>

ForeignWrite(place) ==
  /\ ForeignDo("write") /\ entry[place] \in Inodes /\ VersionLeft
  /\ Others(entry, [data EXCEPT ![entry[place]] = next], place)
  /\ next' = next + 1

(* A new file under a name, over whatever was there.                       *)
ForeignPut(place) ==
  /\ ForeignDo(IF entry[place] = NoInode THEN "create" ELSE "replace")
  /\ VersionLeft
  /\ \E inode \in FreeInodes :
       Others([entry EXCEPT ![place] = inode], DataWith(inode, next), place)
  /\ next' = next + 1

ForeignRemove(place) ==
  /\ ForeignDo("remove") /\ entry[place] # NoInode
  /\ Others([entry EXCEPT ![place] = NoInode], data, place)
  /\ UNCHANGED next

ForeignHardLink(place, other) ==
  /\ ForeignDo("hardlink") /\ entry[place] = NoInode /\ entry[other] \in Inodes
  /\ Others([entry EXCEPT ![place] = entry[other]], data, place)
  /\ UNCHANGED next

(* Links lead to names that are no links themselves.                       *)
ForeignSymlink(d, n, to) ==
  /\ ForeignDo("symlink") /\ n # to
  /\ entry[<<d, to>>] \notin Names
  /\ \A m \in Names : entry[<<d, m>>] # n
  /\ Others([entry EXCEPT ![<<d, n>>] = to], data, <<d, n>>)
  /\ UNCHANGED next

(* The parent path leads to another directory.                             *)
ForeignParent(d) ==
  /\ ForeignDo("parent") /\ d # parent
  /\ parent' = d
  /\ UNCHANGED <<entry, data, stable, unsynced, stage, litter, sess, pc, op, answer, next, promised>>

(* A cleaner of temporary files takes the stage.                           *)
ForeignClean(p) ==
  /\ ForeignDo("clean") /\ stage[p] # NoInode
  /\ stage' = [stage EXCEPT ![p] = NoInode]
  /\ UNCHANGED <<entry, data, parent, stable, unsynced, litter, sess, pc, op, answer, next, promised>>

-----------------------------------------------------------------------------
Init ==
  /\ world \in DOMAIN Worlds
  /\ editors \in {S \in SUBSET Procs : Cardinality(S) = World.editors}
  /\ entry \in World.entries
  /\ data = [i \in Inodes |-> 1]
  /\ parent \in DirsHere
  /\ stable = entry
  /\ unsynced = {} /\ litter = {}
  /\ stage = [p \in Procs |-> NoInode]
  /\ sess = [p \in Procs |-> NewSession]
  /\ pc = [p \in Procs |-> "idle"]
  /\ op = [p \in Procs |-> NoOperation]
  /\ answer = [p \in Procs |-> "none"]
  /\ next = 2
  /\ promised = [place \in Places |-> NoVersion]

UserStep(p) ==
  /\ p \in editors
  /\ \/ NewDocument(p)
     \/ \E n \in NamesHere : OpenDocument(p, n)
     \/ Edit(p)
     \/ BeginSave(p)
     \/ \E n \in NamesHere : BeginSaveAs(p, n)
     \/ \E n \in NamesHere : BeginCopy(p, n)
     \/ Cancel(p)
     \/ Confirm(p)

WriterStep(p) ==
  \/ CreateStage(p) \/ SyncStage(p) \/ Revalidate(p)
  \/ Replace(p) \/ RenameNoReplace(p) \/ LinkStage(p) \/ UnlinkStage(p)
  \/ SyncDirectory(p) \/ Finish(p)

ForeignStep ==
  \/ \E place \in Here : ForeignWrite(place)
  \/ \E place \in Here : ForeignPut(place)
  \/ \E place \in Here : ForeignRemove(place)
  \/ \E place, other \in Here : ForeignHardLink(place, other)
  \/ \E d \in DirsHere, n, to \in NamesHere : ForeignSymlink(d, n, to)
  \/ \E d \in DirsHere : ForeignParent(d)
  \/ \E p \in Procs : ForeignClean(p)

Next ==
  /\ \/ \E p \in Procs : UserStep(p)
     \/ \E p \in Procs : WriterStep(p)
     \/ \E p \in Procs : Crash(p)
     \/ PowerLoss
     \/ ForeignStep
  /\ UNCHANGED <<world, editors>>

Spec == Init /\ [][Next]_vars

-----------------------------------------------------------------------------
(* Properties.                                                             *)

Observations ==
  [name : Names, dir : Dirs, at : Names, ino : Inodes \cup {NoInode},
   ver : Versions, link : BOOLEAN]

Bases ==
  {NoBase} \cup [ino : Inodes, ver : Versions, at : Places]

(* Types; and a stage name exists only while a commit is under way.        *)
TypeOK ==
  /\ entry \in [Places -> Names \cup Inodes \cup {NoInode}]
  /\ data \in [Inodes -> Versions]
  /\ parent \in Dirs
  /\ stable \in [Places -> Names \cup Inodes \cup {NoInode}]
  /\ unsynced \subseteq Inodes /\ litter \subseteq Inodes
  /\ stage \in [Procs -> Inodes \cup {NoInode}]
  /\ sess \in [Procs -> [path : Names \cup {NoName}, base : Bases, text : Versions, saved : Versions]]
  /\ \A p \in Procs :
       /\ Idle(p) => op[p] = NoOperation
       /\ ~Idle(p) => op[p] \in [kind : {"save", "saveas", "copy"}, obs : Observations, synced : BOOLEAN]
       /\ pc[p] \in {"idle", "consent", "staging", "committed", "synced"} => stage[p] = NoInode
  /\ pc \in [Procs -> {"idle", "consent", "staging", "written", "staged", "commit",
                       "linked", "committed", "synced"}]
  /\ answer \in [Procs -> {"none", "failed", "unbaselined", "uncertain", "confirmed"}]
  /\ next \in 2 .. MaxVersion + 1
  /\ promised \in [Places -> Versions]

Commits(p) == pc[p] = "commit" /\ pc'[p] \in {"committed", "linked"}

(* A commit replaces only the version its user last opened or saved (Save) *)
(* or agreed to lose (Save As, a copy), whatever other processes did since *)
(* the target was observed.                                                *)
NeverOverwritesUnread ==
  [][\A p \in Procs : Commits(p) =>
       Content(PlaceOf(op[p].obs)) =
         IF op[p].kind = "save" THEN sess[p].saved ELSE op[p].obs.ver]_vars

(* A commit reaches the place its path leads to: when a link or the parent *)
(* was turned elsewhere since the observation, nothing is written.         *)
CommitsWhereThePathLeads ==
  [][\A p \in Procs : Commits(p) => Target(op[p].obs.name) = PlaceOf(op[p].obs)]_vars

(* A save to a new name replaces nothing, even when another process takes  *)
(* the name in the last moment.                                            *)
NewTargetNeverOverwrites ==
  [][\A p \in Procs : Commits(p) /\ ~Exists(op[p].obs) =>
       entry[PlaceOf(op[p].obs)] = NoInode]_vars

(* What was confirmed to be saved survives crashes and power loss, until   *)
(* someone else changes it.                                                *)
ConfirmedIsDurable ==
  \A place \in Places : promised[place] # NoVersion => Content(place) = promised[place]

(* The accepted baseline is the text that was last opened or saved, so a   *)
(* foreign version that slipped in behind a commit is not taken for it.    *)
SavedIsBaseline ==
  \A p \in Procs : sess[p].base # NoBase => sess[p].base.ver = sess[p].saved

ActiveIsBaseline(p) == sess[p].base # NoBase /\ BaseAt(Target(sess[p].path)) = sess[p].base

(* A copy leaves the active document's file as it was accepted, under      *)
(* whatever paths it can be reached.                                       *)
CopyLeavesActiveFile ==
  [][\A p \in Procs : Commits(p) /\ op[p].kind = "copy" /\ ActiveIsBaseline(p) =>
       ActiveIsBaseline(p)']_vars

(* A copy is never accepted onto the file the active path leads to.        *)
CopyAvoidsActiveFile ==
  [][\A p \in Procs : Idle(p) /\ pc'[p] = "consent" /\ op'[p].kind = "copy" /\ sess[p].path # NoName =>
       PlaceOf(op'[p].obs) # Target(sess[p].path)]_vars

(* The places, requests and answers a user sees.                           *)
Atomic ==
  INSTANCE AtomicSave WITH
    Versions <- Whole,
    docs <- [place \in Places |-> Content(place)],
    request <- [p \in Procs |->
      IF pc[p] \in {"idle", "consent"}
      THEN [pending |-> FALSE]
      ELSE [pending |-> TRUE, at |-> PlaceOf(op[p].obs), text |-> sess[p].text,
            done |-> pc[p] \in {"linked", "committed", "synced"}]],
    answer <- [p \in Procs |->
      IF answer[p] \in {"none", "failed"} THEN answer[p] ELSE "written"]

(* Refinement: a save takes effect at once or not at all, and the user is  *)
(* told which.                                                             *)
ImplementsAtomicSave == Atomic!Spec
=============================================================================
