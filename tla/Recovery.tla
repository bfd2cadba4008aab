------------------------------ MODULE Recovery ------------------------------
(***************************************************************************)
(* Crash recovery: each process edits one document, keeps a copy of what   *)
(* is not saved in an artifact of the recovery directory, and is offered at*)
(* its start what other processes left there (application/recovery.py,     *)
(* application/recovery_startup.py, infrastructure/recovery_store.py,      *)
(* infrastructure/recovery_worker.py).  Every process has a main thread and*)
(* one worker thread; an idle callback brings a result back.               *)
(*                                                                         *)
(* A text is a version; version 0 is the empty text.  There is one file,   *)
(* and a saved version stands for its content and identity.  The generation*)
(* of the controller is its artifact: a new one takes a new random name.   *)
(***************************************************************************)
EXTENDS Integers, Sequences

CONSTANTS
  Process,
  Artifact,         \* names of artifacts (numbers), taken again once unreferenced
  NoArtifact, Nobody,
  MaxVersion,       \* bound: versions handed out
  MaxCrashes,       \* bound: crashes
  Faults            \* which calls may fail

ASSUME NoSuchNames == NoArtifact \notin Artifact /\ Nobody \notin Process
ASSUME BoundsAreNat == MaxVersion \in Nat /\ MaxCrashes \in Nat
ASSUME FaultKinds == Faults \subseteq {"lock", "submit", "stage", "publish", "sync", "remove"}

NoBase == -1        \* an untitled document
Unreachable == -1   \* no state of the history is the saved one
NoText == -1        \* no artifact

Version == 0 .. MaxVersion

VARIABLES
  file,       \* the version in the file
  artifact,   \* the recovery directory: the record under each name
  lock,       \* who holds the advisory lock of each name
  phase,      \* what the main thread of each process is doing
  asked,      \* whether the process was started on the file
  cand, claim,\* names still to try at startup, and the one being claimed
  doc,        \* the document: accepted version of the file, saved text, text
  ctl,        \* the recovery controller
  jobs,       \* the queue of the worker
  reported,   \* whether an idle callback will report the end of a write
  last,       \* versions handed out
  crashes,
  seen,       \* observer: what the author of each version had in view
  left,       \* observer: artifacts whose owner crashed or could not remove them
  failed      \* observer: versions a call failed for; the user is warned, once a generation

vars == <<file, artifact, lock, phase, asked, cand, claim, doc, ctl, jobs, reported,
          last, crashes, seen, left, failed>>
startup == <<asked, cand, claim>>
observers == <<last, crashes, seen>>

Phases == {"off", "looking", "locking", "reading", "offered", "running", "saved", "closing"}
Document == [base : Version \cup {NoBase}, saved : Version \cup {Unreachable}, text : Version]
Controller == [art : Artifact \cup {NoArtifact}, key : Version \cup {NoBase}, timer : BOOLEAN,
               inflight : BOOLEAN, newer : BOOLEAN]
Record == [text : Version, base : Version \cup {NoBase}]
NoRecord == [text |-> NoText, base |-> NoBase]
Job ==
  [kind : {"persist", "staged"}, art : Artifact, rec : Record]
    \cup [kind : {"cleanup", "release"}, art : Artifact, rec : {NoRecord}]

Untitled == [base |-> NoBase, saved |-> 0, text |-> 0]
Opened(v) == [base |-> v, saved |-> v, text |-> v]
Idle == [art |-> NoArtifact, key |-> NoBase, timer |-> FALSE, inflight |-> FALSE, newer |-> FALSE]

Exists(a) == artifact[a] # NoRecord
Modified(d) == d.text # d.saved

KeyOf(d) == d.base

(* Each call below may fail if Faults says so.                             *)
Outcomes(fault) == IF fault \in Faults THEN BOOLEAN ELSE {TRUE}

(* Names nothing refers to; random names are never taken twice, and which  *)
(* of the unused ones is taken does not matter.                            *)
Unused ==
  {a \in Artifact :
     /\ ~Exists(a) /\ lock[a] = Nobody
     /\ \A p \in Process : /\ a \notin cand[p] /\ claim[p] # a
                           /\ \A i \in DOMAIN jobs[p] : jobs[p][i].art # a}
Fresh == {a \in Unused : \A b \in Unused : a <= b}

-----------------------------------------------------------------------------
(* The controller, on the main thread.  A change leads to what becomes of  *)
(* the controller, the queue, the locks and the stray artifacts.           *)

Outcome(c, queue, locks, strays, ok) ==
  [ctl |-> c, jobs |-> queue, lock |-> locks, left |-> strays, ok |-> ok]

Steady(p) == Outcome(ctl[p], jobs[p], lock, left, TRUE)

Cleanup(a) == [kind |-> "cleanup", art |-> a, rec |-> NoRecord]

Ended(c) == [c EXCEPT !.art = NoArtifact, !.key = NoBase, !.timer = FALSE]

RetiredWithoutCleanup(p) ==          \* mutant: the generation is dropped, its artifact not
  {Outcome(Ended(ctl[p]), jobs[p], lock, left, TRUE)}

RetiredAlways(p) ==                  \* mutant: also without a generation
  {Outcome(Ended(ctl[p]), Append(jobs[p], Cleanup(ctl[p].art)), lock, left, TRUE)}

(* The generation ends.  Its artifact is removed and its lock released by  *)
(* the worker; if no job can be submitted the lock is released at once.    *)
Retired(p) ==
  LET a == ctl[p].art
  IN IF a = NoArtifact THEN {Outcome(Ended(ctl[p]), jobs[p], lock, left, TRUE)}
     ELSE {IF submitted
           THEN Outcome(Ended(ctl[p]), Append(jobs[p], Cleanup(a)), lock, left, TRUE)
           ELSE Outcome(Ended(ctl[p]), jobs[p], [lock EXCEPT ![a] = Nobody], left \cup {a}, TRUE)
             : submitted \in Outcomes("submit")}

(* A new generation takes a new name and its lock, or fails.               *)
Started(p, d, before) ==
  {Outcome([before.ctl EXCEPT !.art = a, !.key = KeyOf(d)], before.jobs,
           [before.lock EXCEPT ![a] = p], before.left, TRUE) : a \in Fresh}
    \cup {Outcome(before.ctl, before.jobs, before.lock, before.left, FALSE)
             : failure \in Outcomes("lock") \ {TRUE}}

(* The generation goes on while it has a name and the same saved file.     *)
Ensured(p, d) ==
  IF ctl[p].art # NoArtifact /\ ctl[p].key = KeyOf(d) THEN {Steady(p)}
  ELSE UNION {Started(p, d, before) : before \in Retired(p)}

(* One timer, and none while a write is in flight.                         *)
Scheduled(c) == [c EXCEPT !.timer = ~c.inflight, !.newer = c.inflight]

Becomes(p, e, c) ==
  /\ ctl' = [ctl EXCEPT ![p] = c]
  /\ jobs' = [jobs EXCEPT ![p] = e.jobs]
  /\ lock' = e.lock
  /\ left' = e.left

(* document_state_changed: the document is now d.                          *)
StateChanged(p, d) ==
  /\ doc' = [doc EXCEPT ![p] = d]
  /\ \/ /\ ~Modified(d)
        /\ \E e \in Retired(p) : Becomes(p, e, [e.ctl EXCEPT !.newer = e.ctl.inflight])
        /\ UNCHANGED failed
     \/ /\ Modified(d)
        /\ \E e \in Ensured(p, d) :
             /\ Becomes(p, e, IF e.ok THEN Scheduled(e.ctl)
                              ELSE [e.ctl EXCEPT !.newer = e.ctl.inflight])
             /\ failed' = IF e.ok THEN failed ELSE failed \cup {d.text}

(* The timer: the text is captured and its write submitted.  Nothing runs  *)
(* between the two looks at the session, so they agree.                    *)
Capture(p) ==
  LET d == doc[p] IN
  /\ phase[p] \in {"running", "saved"} /\ ctl[p].timer
  /\ \/ /\ ~Modified(d)
        /\ \E e \in Retired(p) : Becomes(p, e, e.ctl)
        /\ UNCHANGED failed
     \/ /\ Modified(d)
        /\ \E e \in Ensured(p, d), submitted \in Outcomes("submit") :
             LET write == [kind |-> "persist", art |-> e.ctl.art,
                           rec |-> [text |-> d.text, base |-> d.base]]
             IN IF e.ok /\ submitted
                THEN /\ Becomes(p, Outcome(e.ctl, Append(e.jobs, write), e.lock, e.left, TRUE),
                                [e.ctl EXCEPT !.timer = FALSE, !.inflight = TRUE, !.newer = FALSE])
                     /\ UNCHANGED failed
                ELSE /\ Becomes(p, e, [e.ctl EXCEPT !.timer = FALSE])
                     /\ failed' = failed \cup {d.text}
  /\ UNCHANGED <<file, artifact, phase, startup, doc, reported, observers>>

(* What becomes of the controller when its write has ended.                *)
StillInFlight(c) == [c EXCEPT !.newer = FALSE]      \* mutant: the slot is not freed

Landed(c) == [c EXCEPT !.inflight = FALSE, !.newer = FALSE]

(* The idle callback of a write: a change made meanwhile sets the timer.   *)
Completed(p) ==
  LET d == doc[p] IN
  /\ phase[p] \in {"running", "saved"} /\ reported[p]
  /\ reported' = [reported EXCEPT ![p] = FALSE]
  /\ \/ /\ ~Modified(d)
        /\ \E e \in Retired(p) : Becomes(p, e, Landed(e.ctl))
        /\ UNCHANGED failed
     \/ /\ Modified(d) /\ ~ctl[p].newer
        /\ Becomes(p, Steady(p), Landed(ctl[p]))
        /\ UNCHANGED failed
     \/ /\ Modified(d) /\ ctl[p].newer
        /\ \E e \in Ensured(p, d) :
             /\ Becomes(p, e, IF e.ok THEN Scheduled(Landed(e.ctl)) ELSE Landed(e.ctl))
             /\ failed' = IF e.ok THEN failed ELSE failed \cup {d.text}
  /\ UNCHANGED <<file, artifact, phase, startup, doc, observers>>

-----------------------------------------------------------------------------
(* The worker: one job at a time, in order.  Publication and the change of *)
(* generation exclude each other through the publication lock.             *)

Done(p) == jobs' = [jobs EXCEPT ![p] = Tail(@)]
Report(p) == reported' = [reported EXCEPT ![p] = TRUE]
Warned(job, outcome) == failed' = IF outcome = "ok" THEN failed ELSE failed \cup {job.rec.text}

Stage(p) ==
  /\ jobs[p] # <<>> /\ Head(jobs[p]).kind = "persist"
  /\ \E staged \in Outcomes("stage") :
       IF staged THEN /\ jobs' = [jobs EXCEPT ![p][1].kind = "staged"]
                      /\ UNCHANGED <<reported, failed>>
                 ELSE /\ Done(p) /\ Report(p) /\ Warned(Head(jobs[p]), "failed")
  /\ UNCHANGED <<file, artifact, lock, phase, startup, doc, ctl, observers, left>>

IsCurrentAlways(p, job) == TRUE      \* mutant: no look at the generation

IsCurrent(p, job) == phase[p] # "closing" /\ ctl[p].art = job.art

(* The staged file replaces the artifact if the generation is still current.*)
(* The rename may fail, or the sync of the directory after it.             *)
Publish(p) ==
  LET job == Head(jobs[p]) IN
  /\ jobs[p] # <<>> /\ job.kind = "staged"
  /\ Done(p)
  /\ \/ /\ IsCurrent(p, job)
        /\ \E renamed \in Outcomes("publish"), synced \in Outcomes("sync") :
             /\ artifact' = IF renamed THEN [artifact EXCEPT ![job.art] = job.rec] ELSE artifact
             /\ LET outcome == IF renamed /\ synced THEN "ok" ELSE "failed"
                IN Report(p) /\ Warned(job, outcome)
     \/ /\ ~IsCurrent(p, job)
        /\ Report(p)
        /\ UNCHANGED <<artifact, failed>>
  /\ UNCHANGED <<file, lock, phase, startup, doc, ctl, observers, left>>

RemoveForgotten(p) ==                \* mutant: the lock is released, the artifact kept
  /\ jobs[p] # <<>> /\ Head(jobs[p]).kind = "cleanup"
  /\ jobs' = [jobs EXCEPT ![p][1].kind = "release"]
  /\ UNCHANGED <<file, artifact, lock, phase, startup, doc, ctl, reported, observers, left, failed>>

RemoveOld(p) ==
  LET a == Head(jobs[p]).art IN
  /\ jobs[p] # <<>> /\ Head(jobs[p]).kind = "cleanup"
  /\ jobs' = [jobs EXCEPT ![p][1].kind = "release"]
  /\ \E removed \in Outcomes("remove") :
       /\ artifact' = IF removed THEN [artifact EXCEPT ![a] = NoRecord] ELSE artifact
       /\ left' = IF removed THEN left ELSE left \cup {a}
  /\ UNCHANGED <<file, lock, phase, startup, doc, ctl, reported, observers, failed>>

ReleaseOld(p) ==
  /\ jobs[p] # <<>> /\ Head(jobs[p]).kind = "release"
  /\ Done(p)
  /\ lock' = [lock EXCEPT ![Head(jobs[p]).art] = Nobody]
  /\ UNCHANGED <<file, artifact, phase, startup, doc, ctl, reported, observers, left, failed>>

Worker(p) == Stage(p) \/ Publish(p) \/ RemoveOld(p) \/ ReleaseOld(p)

-----------------------------------------------------------------------------
(* What the user does with a document.                                     *)

Unchanged == UNCHANGED <<artifact, startup, reported, crashes>>

Edit(p) ==
  /\ phase[p] = "running" /\ last < MaxVersion
  /\ last' = last + 1
  /\ seen' = [seen EXCEPT ![last + 1] = seen[doc[p].text] \cup {doc[p].text}]
  /\ StateChanged(p, [doc[p] EXCEPT !.text = last + 1])
  /\ UNCHANGED <<file, phase>> /\ Unchanged

UndoToSaved(p) ==
  /\ phase[p] = "running" /\ Modified(doc[p]) /\ doc[p].saved # Unreachable
  /\ StateChanged(p, [doc[p] EXCEPT !.text = doc[p].saved])
  /\ UNCHANGED <<file, phase, last, seen>> /\ Unchanged

(* New, Open and Reload, after the unsaved text was given up if there is any.*)
Replace(p) ==
  /\ phase[p] = "running"
  /\ \E d \in {Untitled, Opened(file)} :
       d # doc[p] /\ StateChanged(p, d)
  /\ UNCHANGED <<file, phase, last, seen>> /\ Unchanged

(* Save commits over the accepted version only; Save As has the overwriting*)
(* confirmed.  The controller hears of it after a dialog of warnings.  To  *)
(* save a document that is not modified is left out: no recovery is due.   *)
Commit(p) ==
  LET d == doc[p] IN
  /\ phase[p] = "running" /\ Modified(d) /\ d.base \in {NoBase, file}
  /\ file' = d.text
  /\ doc' = [doc EXCEPT ![p] = Opened(d.text)]
  /\ phase' = [phase EXCEPT ![p] = "saved"]
  /\ UNCHANGED <<lock, ctl, jobs, last, seen, left, failed>> /\ Unchanged

SaveNotified(p) ==
  /\ phase[p] = "saved"
  /\ phase' = [phase EXCEPT ![p] = "running"]
  /\ StateChanged(p, doc[p])
  /\ UNCHANGED <<file, last, seen>> /\ Unchanged

(* The window closes: the generation ends, and the worker is drained.      *)
Quit(p) ==
  /\ phase[p] = "running"
  /\ phase' = [phase EXCEPT ![p] = "closing"]
  /\ \E e \in Retired(p) : Becomes(p, e, e.ctl)
  /\ UNCHANGED <<file, doc, last, seen, failed>> /\ Unchanged

Gone(p) ==
  /\ phase' = [phase EXCEPT ![p] = "off"]
  /\ cand' = [cand EXCEPT ![p] = {}]
  /\ claim' = [claim EXCEPT ![p] = NoArtifact]
  /\ asked' = [asked EXCEPT ![p] = FALSE]
  /\ doc' = [doc EXCEPT ![p] = Untitled]
  /\ ctl' = [ctl EXCEPT ![p] = Idle]
  /\ reported' = [reported EXCEPT ![p] = FALSE]
  /\ UNCHANGED <<file, artifact, last, seen, failed>>

Exit(p) ==
  /\ phase[p] = "closing" /\ jobs[p] = <<>>
  /\ Gone(p)
  /\ UNCHANGED <<lock, jobs, crashes, left>>

(* The process dies; the kernel releases its locks.                        *)
Crash(p) ==
  /\ phase[p] # "off" /\ crashes < MaxCrashes
  /\ crashes' = crashes + 1
  /\ Gone(p)
  /\ jobs' = [jobs EXCEPT ![p] = <<>>]
  /\ lock' = [a \in Artifact |-> IF lock[a] = p THEN Nobody ELSE lock[a]]
  /\ left' = left \cup {a \in Artifact : lock[a] = p}

-----------------------------------------------------------------------------
(* Startup: at most one artifact that nobody holds is offered.             *)

StartupUnchanged == UNCHANGED <<file, artifact, ctl, jobs, reported, observers, failed>>

Matches(p, rec) == asked[p] => rec.base # NoBase

(* All artifacts are listed and loaded.                                    *)
Start(p) ==
  /\ phase[p] = "off"
  /\ phase' = [phase EXCEPT ![p] = "looking"]
  /\ \E onFile \in BOOLEAN :
       /\ asked' = [asked EXCEPT ![p] = onFile]
       /\ cand' = [cand EXCEPT ![p] =
                     {a \in Artifact : Exists(a) /\ (onFile => artifact[a].base # NoBase)}]
  /\ UNCHANGED <<lock, claim, doc, left>> /\ StartupUnchanged

(* A candidate is opened: it may be gone.  In which order they are tried is*)
(* left open.                                                              *)
Look(p) ==
  /\ phase[p] = "looking"
  /\ \E a \in cand[p] :
       /\ cand' = [cand EXCEPT ![p] = @ \ {a}]
       /\ \/ /\ Exists(a)
             /\ phase' = [phase EXCEPT ![p] = "locking"]
             /\ claim' = [claim EXCEPT ![p] = a]
          \/ /\ ~Exists(a)
             /\ UNCHANGED <<phase, claim>>
  /\ UNCHANGED <<asked, lock, doc, left>> /\ StartupUnchanged

ClaimOfAnyone(p) ==                  \* mutant: a held lock does not stop the claim
  /\ phase[p] = "locking"
  /\ lock' = [lock EXCEPT ![claim[p]] = p]
  /\ phase' = [phase EXCEPT ![p] = "reading"]
  /\ UNCHANGED <<asked, cand, claim, doc, left>> /\ StartupUnchanged

(* Its lock is taken, unless a process that is alive holds it.             *)
Claim(p) ==
  LET a == claim[p] IN
  /\ phase[p] = "locking"
  /\ \/ /\ lock[a] = Nobody
        /\ lock' = [lock EXCEPT ![a] = p]
        /\ phase' = [phase EXCEPT ![p] = "reading"]
        /\ UNCHANGED claim
     \/ /\ lock[a] # Nobody \/ "lock" \in Faults
        /\ phase' = [phase EXCEPT ![p] = "looking"]
        /\ claim' = [claim EXCEPT ![p] = NoArtifact]
        /\ UNCHANGED lock
  /\ UNCHANGED <<asked, cand, doc, left>> /\ StartupUnchanged

Released(p) ==
  /\ lock' = [lock EXCEPT ![claim[p]] = Nobody]
  /\ claim' = [claim EXCEPT ![p] = NoArtifact]

(* It is read again under the lock.                                        *)
Reread(p) ==
  /\ phase[p] = "reading"
  /\ \/ /\ Exists(claim[p]) /\ Matches(p, artifact[claim[p]])
        /\ phase' = [phase EXCEPT ![p] = "offered"]
        /\ UNCHANGED <<lock, claim>>
     \/ /\ ~(Exists(claim[p]) /\ Matches(p, artifact[claim[p]]))
        /\ phase' = [phase EXCEPT ![p] = "looking"]
        /\ Released(p)
  /\ UNCHANGED <<asked, cand, doc, left>> /\ StartupUnchanged

(* Without a recovered document the process starts on its file, or empty.  *)
BeginsOn(p, d) ==
  /\ phase' = [phase EXCEPT ![p] = "running"]
  /\ doc' = [doc EXCEPT ![p] = d]
  /\ cand' = [cand EXCEPT ![p] = {}]
  /\ asked' = [asked EXCEPT ![p] = FALSE]
First(p) == IF asked[p] THEN Opened(file) ELSE Untitled

NothingOffered(p) ==
  /\ phase[p] = "looking" /\ cand[p] = {}
  /\ BeginsOn(p, First(p))
  /\ UNCHANGED <<claim, lock, left>> /\ StartupUnchanged

StartWithout(p) ==
  /\ phase[p] = "offered"
  /\ Released(p)
  /\ BeginsOn(p, First(p))
  /\ UNCHANGED left /\ StartupUnchanged

Discard(p) ==
  /\ phase[p] = "offered"
  /\ \E removed \in Outcomes("remove") :
       artifact' = IF removed THEN [artifact EXCEPT ![claim[p]] = NoRecord] ELSE artifact
  /\ Released(p)
  /\ BeginsOn(p, First(p))
  /\ UNCHANGED <<file, left, ctl, jobs, reported, observers, failed>>

Rebound(rec) ==                      \* mutant: bound to the file as it is now
  [base |-> IF rec.base # NoBase THEN file ELSE NoBase, saved |-> Unreachable, text |-> rec.text]

(* A text is bound to the file again only if the file still is the version *)
(* it was derived from.                                                    *)
BaselineMatches(rec) == rec.base # NoBase /\ file = rec.base
Recovered(rec) == [base |-> IF BaselineMatches(rec) THEN rec.base ELSE NoBase,
                   saved |-> Unreachable, text |-> rec.text]

Recover(p) ==
  LET d == Recovered(artifact[claim[p]]) IN
  /\ phase[p] = "offered"
  /\ ctl' = [ctl EXCEPT ![p] = [Idle EXCEPT !.art = claim[p], !.key = KeyOf(d)]]
  /\ claim' = [claim EXCEPT ![p] = NoArtifact]
  /\ left' = left \ {claim[p]}
  /\ BeginsOn(p, d)
  /\ UNCHANGED <<file, artifact, lock, jobs, reported, observers, failed>>

-----------------------------------------------------------------------------

Init ==
  /\ file = 0
  /\ artifact = [a \in Artifact |-> NoRecord]
  /\ lock = [a \in Artifact |-> Nobody]
  /\ phase = [p \in Process |-> "off"]
  /\ asked = [p \in Process |-> FALSE]
  /\ cand = [p \in Process |-> {}]
  /\ claim = [p \in Process |-> NoArtifact]
  /\ doc = [p \in Process |-> Untitled]
  /\ ctl = [p \in Process |-> Idle]
  /\ jobs = [p \in Process |-> <<>>]
  /\ reported = [p \in Process |-> FALSE]
  /\ last = 0 /\ crashes = 0
  /\ seen = [v \in Version |-> {}]
  /\ left = {} /\ failed = {}

User(p) ==
  Edit(p) \/ UndoToSaved(p) \/ Replace(p) \/ Commit(p) \/ Quit(p)

StartupStep(p) ==
  Look(p) \/ Claim(p) \/ Reread(p) \/ NothingOffered(p)

Next ==
  \E p \in Process :
    \/ User(p) \/ SaveNotified(p) \/ Capture(p) \/ Completed(p) \/ Worker(p)
    \/ Exit(p) \/ Crash(p)
    \/ Start(p) \/ StartupStep(p) \/ StartWithout(p) \/ Discard(p) \/ Recover(p)

(* The program's own steps happen: the timer, the worker, idle callbacks   *)
(* and the search at startup.  What the user does (the answer to a dialog  *)
(* too) and a crash need not.                                              *)
Fairness ==
  \A p \in Process :
    /\ WF_vars(Capture(p)) /\ WF_vars(Completed(p)) /\ WF_vars(Worker(p))
    /\ WF_vars(StartupStep(p))

Spec == Init /\ [][Next]_vars /\ Fairness

-----------------------------------------------------------------------------

TypeOK ==
  /\ file \in Version
  /\ artifact \in [Artifact -> Record \cup {NoRecord}]
  /\ lock \in [Artifact -> Process \cup {Nobody}]
  /\ phase \in [Process -> Phases]
  /\ asked \in [Process -> BOOLEAN]
  /\ cand \in [Process -> SUBSET Artifact]
  /\ claim \in [Process -> Artifact \cup {NoArtifact}]
  /\ doc \in [Process -> Document]
  /\ ctl \in [Process -> Controller]
  /\ jobs \in [Process -> Seq(Job)]
  /\ reported \in [Process -> BOOLEAN]
  /\ last \in Version /\ crashes \in Nat
  /\ seen \in [Version -> SUBSET Version]
  /\ left \subseteq Artifact /\ failed \subseteq Version

(* Whoever uses an artifact holds its lock: the controller that writes it, *)
(* the startup that offers it, the worker that removes it.  So no two      *)
(* processes ever restore or write the same artifact.                      *)
UsersHoldTheLock ==
  \A p \in Process :
    /\ ctl[p].art # NoArtifact => lock[ctl[p].art] = p
    /\ phase[p] \in {"reading", "offered"} => lock[claim[p]] = p
    /\ \A i \in DOMAIN jobs[p] :
         jobs[p][i].kind \in {"cleanup", "release"} => lock[jobs[p][i].art] = p

(* An artifact that nobody holds, which the next start would offer, is of a*)
(* process that crashed or was unable to remove it: a late write never     *)
(* brings back the text of a document that was saved, closed or discarded. *)
StraysAreLeft ==
  \A a \in Artifact : Exists(a) /\ lock[a] = Nobody => a \in left

(* An artifact changes only by a step of the process that holds its lock,  *)
(* and gets a text only while it belongs to the document of that process:  *)
(* a write that comes late publishes nothing.                              *)
Acts(p) == jobs[p] # jobs'[p] \/ phase[p] # phase'[p]
HolderWrites ==
  [][\A a \in Artifact : artifact'[a] # artifact[a] =>
       \E p \in Process : /\ lock[a] = p /\ Acts(p)
                          /\ artifact'[a] # NoRecord => ctl[p].art = a]_vars

(* Save replaces only a version that the author of the new text had in     *)
(* view, through a crash and a recovery too.                               *)
SavesAreInformed ==
  [][\A p \in Process :
       phase[p] = "running" /\ phase'[p] = "saved" /\ doc[p].base # NoBase =>
         file \in seen[doc[p].text] \cup {doc[p].text}]_vars

(* When the editing comes to an end all unsaved text is in artifacts, but  *)
(* for the texts a call failed for, of which the user is warned: no        *)
(* interleaving of edits, saves and answers of the worker forgets one.     *)
Kept(p) == ctl[p].art # NoArtifact /\ artifact[ctl[p].art].text = doc[p].text
Unkept(p) ==
  /\ phase[p] = "running" /\ Modified(doc[p])
  /\ ~Kept(p) /\ doc[p].text \notin failed
WorkIsKept == <>[](\A p \in Process : ~Unkept(p))

(* The artifact of a generation that has ended is removed in the end, or   *)
(* that failed, however often processes come and go meanwhile.             *)
Superseded(a) == Exists(a) /\ a \notin left /\ \A p \in Process : ctl[p].art # a
SupersededAreRemoved == \A a \in Artifact : []<>~Superseded(a)
=============================================================================
