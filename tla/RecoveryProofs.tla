--------------------------- MODULE RecoveryProofs ---------------------------
(***************************************************************************)
(* Proofs about Recovery, for any number of processes, names, versions and *)
(* crashes, and for every choice of calls that may fail: types, that an    *)
(* artifact is used only under its lock and written only by its holder,    *)
(* what is left behind, and what a save after a recovery replaces.         *)
(*                                                                         *)
(* The inductive invariant says of each process which names it holds: that *)
(* of its generation, those of the cleanups in its queue, all different,   *)
(* and while it starts the one it claims, before there is any other.  A    *)
(* name held by one process is out of reach of every other, so a step of   *)
(* one leaves what the invariant says of the others alone.                 *)
(*                                                                         *)
(* A second invariant (InViewOK) follows a text from the document through  *)
(* queue, artifact and crash to the process that restores it: what it is   *)
(* based on is what its author had in view.                                *)
(***************************************************************************)
EXTENDS Recovery, SequenceTheorems, TLAPS

Locks == [Artifact -> Process \cup {Nobody}]

-----------------------------------------------------------------------------
(* Controllers and jobs.                                                   *)

LEMMA ControllerFields ==
  ASSUME NEW c \in Controller
  PROVE  /\ c.art \in Artifact \cup {NoArtifact} /\ c.key \in Version \cup {NoBase}
         /\ c.timer \in BOOLEAN /\ c.inflight \in BOOLEAN /\ c.newer \in BOOLEAN
  BY Zenon DEF Controller

LEMMA IdleIsController == Idle \in Controller /\ Idle.art = NoArtifact
  <1>1. Idle.art = NoArtifact BY DEF Idle
  <1>2. Idle \in Controller BY Zenon DEF Idle, Controller
  <1> QED BY <1>1, <1>2

LEMMA EndedIsController ==
  ASSUME NEW c \in Controller
  PROVE  Ended(c) \in Controller /\ Ended(c).art = NoArtifact
  BY Zenon DEF Ended, Controller

LEMMA NamedIsController ==
  ASSUME NEW c \in Controller, NEW a \in Artifact, NEW k \in Version \cup {NoBase}
  PROVE  /\ [c EXCEPT !.art = a, !.key = k] \in Controller
         /\ [c EXCEPT !.art = a, !.key = k].art = a
  BY Zenon DEF Controller

LEMMA LandedIsController ==
  ASSUME NEW c \in Controller
  PROVE  Landed(c) \in Controller /\ Landed(c).art = c.art
  BY Zenon DEF Landed, Controller

LEMMA ScheduledIsController ==
  ASSUME NEW c \in Controller
  PROVE  Scheduled(c) \in Controller /\ Scheduled(c).art = c.art
  BY ControllerFields, Zenon DEF Scheduled, Controller

LEMMA NewerIsController ==
  ASSUME NEW c \in Controller, NEW b \in BOOLEAN
  PROVE  /\ [c EXCEPT !.newer = b] \in Controller
         /\ [c EXCEPT !.newer = b].art = c.art
  BY Zenon DEF Controller

LEMMA UntimedIsController ==
  ASSUME NEW c \in Controller
  PROVE  /\ [c EXCEPT !.timer = FALSE] \in Controller
         /\ [c EXCEPT !.timer = FALSE].art = c.art
  BY Zenon DEF Controller

LEMMA WritingIsController ==
  ASSUME NEW c \in Controller
  PROVE  /\ [c EXCEPT !.timer = FALSE, !.inflight = TRUE, !.newer = FALSE] \in Controller
         /\ [c EXCEPT !.timer = FALSE, !.inflight = TRUE, !.newer = FALSE].art = c.art
  BY Zenon DEF Controller

LEMMA JobsAreJobs ==
  /\ \A a \in Artifact : Cleanup(a) \in Job
  /\ \A a \in Artifact, r \in Record : [kind |-> "persist", art |-> a, rec |-> r] \in Job
  BY Zenon DEF Cleanup, Job

LEMMA JobFields ==
  ASSUME NEW j \in Job
  PROVE  /\ j.art \in Artifact /\ j.rec \in Record \cup {NoRecord}
         /\ j.kind \in {"persist", "staged"} => j.rec \in Record
  <1>1. CASE j \in [kind : {"persist", "staged"}, art : Artifact, rec : Record]
    BY <1>1, Zenon
  <1>2. CASE j \in [kind : {"cleanup", "release"}, art : Artifact, rec : {NoRecord}]
    <2>1. j.kind \in {"cleanup", "release"} /\ j.art \in Artifact /\ j.rec = NoRecord
      BY <1>2, Zenon
    <2> QED BY <2>1
  <1> QED BY <1>1, <1>2 DEF Job

(* The two steps of a job.                                                 *)
LEMMA StagedIsJob ==
  ASSUME NEW j \in Job, j.kind = "persist"
  PROVE  /\ [j EXCEPT !.kind = "staged"] \in Job
         /\ [j EXCEPT !.kind = "staged"].kind = "staged"
         /\ [j EXCEPT !.kind = "staged"].art = j.art
  <1>1. j \in [kind : {"persist", "staged"}, art : Artifact, rec : Record]
    <2>1. j \notin [kind : {"cleanup", "release"}, art : Artifact, rec : {NoRecord}] OBVIOUS
    <2> QED BY <2>1 DEF Job
  <1>2. [j EXCEPT !.kind = "staged"] \in [kind : {"persist", "staged"}, art : Artifact, rec : Record]
    BY <1>1, Zenon
  <1>3. /\ [j EXCEPT !.kind = "staged"].kind = "staged"
        /\ [j EXCEPT !.kind = "staged"].art = j.art
    BY <1>1, Zenon
  <1> QED BY <1>2, <1>3 DEF Job

LEMMA ReleaseIsJob ==
  ASSUME NEW j \in Job, j.kind = "cleanup"
  PROVE  /\ [j EXCEPT !.kind = "release"] \in Job
         /\ [j EXCEPT !.kind = "release"].kind = "release"
         /\ [j EXCEPT !.kind = "release"].art = j.art
  <1>1. j \in [kind : {"cleanup", "release"}, art : Artifact, rec : {NoRecord}]
    <2>1. j \notin [kind : {"persist", "staged"}, art : Artifact, rec : Record] OBVIOUS
    <2> QED BY <2>1 DEF Job
  <1>2. [j EXCEPT !.kind = "release"]
          \in [kind : {"cleanup", "release"}, art : Artifact, rec : {NoRecord}]
    BY <1>1, Zenon
  <1>3. /\ [j EXCEPT !.kind = "release"].kind = "release"
        /\ [j EXCEPT !.kind = "release"].art = j.art
    BY <1>1, Zenon
  <1> QED BY <1>2, <1>3 DEF Job

-----------------------------------------------------------------------------
(* The inductive invariant.                                                *)

Removing(j) == j.kind \in {"cleanup", "release"}

(* The names a controller c and a queue js hold for p.                     *)
HoldsWith(p, c, js, lk) ==
  /\ c.art # NoArtifact => lk[c.art] = p
  /\ \A i \in DOMAIN js : Removing(js[i]) => lk[js[i].art] = p /\ js[i].art # c.art
  /\ \A i, j \in DOMAIN js :
       i # j /\ Removing(js[i]) /\ Removing(js[j]) => js[i].art # js[j].art

(* What a lock is released from is gone, or left.                          *)
EmptiedWith(ar, js, lf) ==
  \A i \in DOMAIN js : js[i].kind = "release" /\ ar[js[i].art] # NoRecord => js[i].art \in lf

StraysWith(ar, lk, lf) == \A a \in Artifact : ar[a] # NoRecord /\ lk[a] = Nobody => a \in lf

(* While a process starts it holds the name it claims, and no other.       *)
ClaimsWith(p, ph, cl, ar, lk, lf) ==
  /\ ph \in {"locking", "reading", "offered"} => cl \in Artifact
  /\ ph \in {"reading", "offered"} => lk[cl] = p /\ (ar[cl] # NoRecord => cl \in lf)
  /\ ph = "offered" => ar[cl] # NoRecord

NotStarted == {"off", "looking", "locking", "reading", "offered"}

Own(p) ==
  /\ HoldsWith(p, ctl[p], jobs[p], lock)
  /\ EmptiedWith(artifact, jobs[p], left)
  /\ ClaimsWith(p, phase[p], claim[p], artifact, lock, left)
  /\ phase[p] \in NotStarted => ctl[p].art = NoArtifact /\ jobs[p] = <<>>

IInv ==
  /\ TypeOK
  /\ \A p \in Process : Own(p)
  /\ StraysAreLeft

-----------------------------------------------------------------------------
(* What becomes of controller, queue, locks and strays keeps their part of *)
(* the invariant.                                                          *)

Good(p, e) ==
  /\ e.ctl \in Controller /\ e.jobs \in Seq(Job)
  /\ e.lock \in Locks /\ e.left \in SUBSET Artifact
  /\ left \subseteq e.left
  /\ \A a \in Artifact : e.lock[a] # lock[a] => lock[a] \in {p, Nobody}
  /\ HoldsWith(p, e.ctl, e.jobs, e.lock)
  /\ EmptiedWith(artifact, e.jobs, e.left)
  /\ StraysWith(artifact, e.lock, e.left)

LEMMA GoodSteady ==
  ASSUME IInv, NEW p \in Process
  PROVE  Good(p, Steady(p))
  <1>1. Own(p) /\ StraysWith(artifact, lock, left) BY DEF IInv, StraysAreLeft, StraysWith, Exists
  <1>2. ctl[p] \in Controller /\ jobs[p] \in Seq(Job) /\ lock \in Locks /\ left \in SUBSET Artifact
    BY DEF IInv, TypeOK, Locks
  <1> QED BY <1>1, <1>2 DEF Own, Good, Steady, Outcome

(* An end of the generation takes no lock and puts no other name in line.  *)
TakesNothing(p, e) ==
  /\ e.ctl.art = NoArtifact
  /\ \A a \in Artifact : e.lock[a] = p => lock[a] = p
  /\ \A i \in DOMAIN e.jobs : \/ \E j \in DOMAIN jobs[p] : e.jobs[i].art = jobs[p][j].art
                              \/ e.jobs[i].art = ctl[p].art /\ lock[e.jobs[i].art] = p

LEMMA GoodRetired ==
  ASSUME IInv, NEW p \in Process
  PROVE  \A e \in Retired(p) : Good(p, e) /\ TakesNothing(p, e)
  <1> SUFFICES ASSUME NEW e \in Retired(p) PROVE Good(p, e) /\ TakesNothing(p, e)
    OBVIOUS
  <1> DEFINE a == ctl[p].art
             c == Ended(ctl[p])
  <1>1. Own(p) /\ StraysWith(artifact, lock, left) BY DEF IInv, StraysAreLeft, StraysWith, Exists
  <1>2. ctl[p] \in Controller /\ jobs[p] \in Seq(Job) /\ lock \in Locks /\ left \in SUBSET Artifact
    BY DEF IInv, TypeOK, Locks
  <1>3. c \in Controller /\ c.art = NoArtifact BY <1>2, EndedIsController
  <1>4. a \in Artifact \cup {NoArtifact} BY <1>2, ControllerFields
  <1>5. \A i \in DOMAIN jobs[p] : jobs[p][i] \in Job /\ jobs[p][i].art \in Artifact
    BY <1>2, JobFields, ElementOfSeq
  <1> HIDE DEF c
  <1>6. CASE e = Outcome(c, jobs[p], lock, left, TRUE)
    <2>1. HoldsWith(p, c, jobs[p], lock) BY <1>1, <1>3, <1>5, NoSuchNames DEF Own, HoldsWith
    <2> QED BY <1>1, <1>2, <1>3, <1>6, <2>1 DEF Outcome, Good, Own, TakesNothing
  <1>7. CASE a # NoArtifact /\ e = Outcome(c, Append(jobs[p], Cleanup(a)), lock, left, TRUE)
    <2> DEFINE js == Append(jobs[p], Cleanup(a))
    <2>1. lock[a] = p /\ a \in Artifact BY <1>1, <1>4, <1>7 DEF Own, HoldsWith
    <2>2. Cleanup(a) \in Job /\ Cleanup(a).art = a /\ Cleanup(a).kind = "cleanup"
      BY <2>1, JobsAreJobs DEF Cleanup
    <2>3. js \in Seq(Job) /\ DOMAIN js = 1 .. Len(jobs[p]) + 1
          /\ DOMAIN jobs[p] = 1 .. Len(jobs[p]) /\ Len(jobs[p]) \in Nat
          /\ (\A i \in DOMAIN jobs[p] : js[i] = jobs[p][i]) /\ js[Len(jobs[p]) + 1] = Cleanup(a)
      BY <1>2, <2>2
    <2> HIDE DEF js
    <2>4. HoldsWith(p, c, js, lock)
      <3>1. \A i \in DOMAIN jobs[p] : Removing(jobs[p][i]) =>
              lock[jobs[p][i].art] = p /\ jobs[p][i].art # a
        BY <1>1 DEF Own, HoldsWith
      <3>2. \A i \in DOMAIN js : js[i].art # c.art BY <1>3, <1>5, <2>1, <2>2, <2>3, NoSuchNames
      <3>3. \A i \in DOMAIN js : Removing(js[i]) => lock[js[i].art] = p
        BY <2>1, <2>2, <2>3, <3>1
      <3>4. \A i, j \in DOMAIN js :
              i # j /\ Removing(js[i]) /\ Removing(js[j]) => js[i].art # js[j].art
        <4>1. \A i, j \in DOMAIN jobs[p] :
                i # j /\ Removing(jobs[p][i]) /\ Removing(jobs[p][j]) =>
                  jobs[p][i].art # jobs[p][j].art
          BY <1>1 DEF Own, HoldsWith
        <4>2. \A i \in DOMAIN js : i \in DOMAIN jobs[p] \/ i = Len(jobs[p]) + 1 BY <2>3
        <4> QED BY <2>2, <2>3, <3>1, <4>1, <4>2
      <3> QED BY <1>3, <3>2, <3>3, <3>4 DEF HoldsWith
    <2>5. EmptiedWith(artifact, js, left) BY <1>1, <2>2, <2>3 DEF Own, EmptiedWith
    <2>6. \A i \in DOMAIN js : \/ \E j \in DOMAIN jobs[p] : js[i].art = jobs[p][j].art
                               \/ js[i].art = a /\ lock[js[i].art] = p
      BY <2>1, <2>2, <2>3
    <2>7. e = Outcome(c, js, lock, left, TRUE) BY <1>7 DEF js
    <2> QED BY <1>1, <1>2, <1>3, <2>3, <2>4, <2>5, <2>6, <2>7 DEF Outcome, Good, TakesNothing
  <1>8. CASE /\ a # NoArtifact
             /\ e = Outcome(c, jobs[p], [lock EXCEPT ![a] = Nobody], left \cup {a}, TRUE)
    <2> DEFINE lk == [lock EXCEPT ![a] = Nobody]
    <2>1. lock[a] = p /\ a \in Artifact BY <1>1, <1>4, <1>8 DEF Own, HoldsWith
    <2>2. lk \in Locks /\ lk[a] = Nobody /\ \A b \in Artifact \ {a} : lk[b] = lock[b]
      BY <1>2, <2>1 DEF Locks
    <2> HIDE DEF lk
    <2>3. HoldsWith(p, c, jobs[p], lk)
      BY <1>1, <1>3, <1>5, <2>1, <2>2, NoSuchNames DEF Own, HoldsWith
    <2>4. EmptiedWith(artifact, jobs[p], left \cup {a}) BY <1>1 DEF Own, EmptiedWith
    <2>5. StraysWith(artifact, lk, left \cup {a}) BY <1>1, <2>2 DEF StraysWith
    <2>6. \A b \in Artifact : lk[b] = p => lock[b] = p BY <2>2, NoSuchNames
    <2>7. e = Outcome(c, jobs[p], lk, left \cup {a}, TRUE) BY <1>8 DEF lk
    <2>8. \A b \in Artifact : lk[b] # lock[b] => lock[b] \in {p, Nobody} BY <2>1, <2>2
    <2> QED BY <1>2, <1>3, <2>1, <2>2, <2>3, <2>4, <2>5, <2>6, <2>7, <2>8 DEF Outcome, Good, TakesNothing
  <1> QED BY <1>6, <1>7, <1>8 DEF Retired, c, Outcomes

LEMMA GoodStarted ==
  ASSUME IInv, NEW p \in Process, NEW before \in Retired(p), NEW d \in Document
  PROVE  \A e \in Started(p, d, before) : Good(p, e)
  <1> SUFFICES ASSUME NEW e \in Started(p, d, before) PROVE Good(p, e)
    OBVIOUS
  <1>1. Good(p, before) /\ TakesNothing(p, before) BY GoodRetired
  <1>2. CASE e = Outcome(before.ctl, before.jobs, before.lock, before.left, FALSE)
    BY <1>1, <1>2 DEF Good, Outcome
  <1>3. ASSUME NEW a \in Fresh,
               e = Outcome([before.ctl EXCEPT !.art = a, !.key = KeyOf(d)], before.jobs,
                           [before.lock EXCEPT ![a] = p], before.left, TRUE)
        PROVE  Good(p, e)
    <2> DEFINE c == [before.ctl EXCEPT !.art = a, !.key = KeyOf(d)]
               lk == [before.lock EXCEPT ![a] = p]
    <2>1. /\ a \in Artifact /\ ~Exists(a) /\ lock[a] = Nobody
          /\ \A i \in DOMAIN jobs[p] : jobs[p][i].art # a
      BY DEF Fresh, Unused
    <2>2. before.ctl \in Controller /\ before.lock \in Locks /\ before.jobs \in Seq(Job)
      BY <1>1 DEF Good
    <2>3. d.base \in Version \cup {NoBase} BY Zenon DEF Document
    <2>4. c \in Controller /\ c.art = a BY <2>1, <2>2, <2>3, NamedIsController DEF KeyOf
    <2>5. lk \in Locks /\ lk[a] = p /\ \A b \in Artifact \ {a} : lk[b] = before.lock[b]
      BY <2>1, <2>2 DEF Locks
    <2>6. \A i \in DOMAIN before.jobs : before.jobs[i].art # a BY <1>1, <2>1, NoSuchNames DEF TakesNothing
    <2>7. \A i \in DOMAIN before.jobs : before.jobs[i].art \in Artifact
      BY <2>2, JobFields, ElementOfSeq
    <2> HIDE DEF c, lk
    <2>8. HoldsWith(p, c, before.jobs, lk)
      BY <1>1, <2>4, <2>5, <2>6, <2>7 DEF Good, HoldsWith
    <2>9. StraysWith(artifact, lk, before.left)
      BY <1>1, <2>1, <2>5 DEF Good, StraysWith, Exists
    <2>10. \A b \in Artifact : lk[b] # lock[b] => lock[b] \in {p, Nobody}
      BY <1>1, <2>1, <2>5 DEF Good
    <2>11. e = Outcome(c, before.jobs, lk, before.left, TRUE) BY <1>3 DEF c, lk
    <2> QED BY <1>1, <2>2, <2>4, <2>5, <2>8, <2>9, <2>10, <2>11 DEF Good, Outcome
  <1> QED BY <1>2, <1>3 DEF Started

LEMMA GoodEnsured ==
  ASSUME IInv, NEW p \in Process, NEW d \in Document
  PROVE  \A e \in Ensured(p, d) : Good(p, e)
  BY GoodSteady, GoodStarted DEF Ensured
-----------------------------------------------------------------------------
(* A step of p leaves what every other process owns alone.                 *)

Frame(p) ==
  /\ \A q \in Process \ {p} : /\ ctl'[q] = ctl[q] /\ jobs'[q] = jobs[q]
                              /\ phase'[q] = phase[q] /\ claim'[q] = claim[q]
  /\ \A a \in Artifact :
       /\ lock'[a] # lock[a] => lock[a] \in {p, Nobody}
       /\ lock[a] # p => artifact'[a] = artifact[a] /\ (a \in left => a \in left')

LEMMA NamesOfJobs ==
  ASSUME TypeOK, NEW p \in Process
  PROVE  /\ jobs[p] \in Seq(Job) /\ DOMAIN jobs[p] = 1 .. Len(jobs[p]) /\ Len(jobs[p]) \in Nat
         /\ \A i \in DOMAIN jobs[p] : jobs[p][i] \in Job /\ jobs[p][i].art \in Artifact
  <1>1. jobs[p] \in Seq(Job) BY DEF TypeOK
  <1>2. \A i \in DOMAIN jobs[p] : jobs[p][i] \in Job BY <1>1, ElementOfSeq
  <1> QED BY <1>1, <1>2, JobFields

LEMMA NameOfController ==
  ASSUME TypeOK, NEW p \in Process
  PROVE  ctl[p] \in Controller /\ ctl[p].art \in Artifact \cup {NoArtifact}
  <1>1. ctl[p] \in Controller BY DEF TypeOK
  <1> QED BY <1>1, ControllerFields

LEMMA OthersKeep ==
  ASSUME IInv, NEW p \in Process, Frame(p), NEW q \in Process \ {p}
  PROVE  Own(q)'
  <1>1. Own(q) BY DEF IInv
  <1>2. /\ ctl'[q] = ctl[q] /\ jobs'[q] = jobs[q]
        /\ phase'[q] = phase[q] /\ claim'[q] = claim[q]
    BY DEF Frame
  <1>3. \A a \in Artifact : lock[a] = q =>
          lock'[a] = q /\ artifact'[a] = artifact[a] /\ (a \in left => a \in left')
    BY NoSuchNames DEF Frame
  <1>4. ctl[q].art \in Artifact \cup {NoArtifact} BY NameOfController DEF IInv
  <1>5. \A i \in DOMAIN jobs[q] : jobs[q][i].art \in Artifact BY NamesOfJobs DEF IInv
  <1>6. HoldsWith(q, ctl'[q], jobs'[q], lock')
    BY <1>1, <1>2, <1>3, <1>4, <1>5 DEF Own, HoldsWith
  <1>7. EmptiedWith(artifact', jobs'[q], left')
    <2> SUFFICES ASSUME NEW i \in DOMAIN jobs[q], jobs[q][i].kind = "release",
                        artifact'[jobs[q][i].art] # NoRecord
                 PROVE  jobs[q][i].art \in left'
      BY <1>2 DEF EmptiedWith
    <2>1. lock[jobs[q][i].art] = q BY <1>1 DEF Own, HoldsWith, Removing
    <2>2. artifact[jobs[q][i].art] # NoRecord BY <1>3, <1>5, <2>1
    <2>3. jobs[q][i].art \in left BY <1>1, <2>2 DEF Own, EmptiedWith
    <2> QED BY <1>3, <1>5, <2>1, <2>3
  <1>8. ClaimsWith(q, phase'[q], claim'[q], artifact', lock', left')
    BY <1>1, <1>2, <1>3 DEF Own, ClaimsWith
  <1>9. phase'[q] \in NotStarted => ctl'[q].art = NoArtifact /\ jobs'[q] = <<>>
    BY <1>1, <1>2 DEF Own
  <1> QED BY <1>6, <1>7, <1>8, <1>9 DEF Own

LEMMA StepKeeps ==
  ASSUME IInv, NEW p \in Process, TypeOK', Frame(p), Own(p)', StraysAreLeft'
  PROVE  IInv'
  BY OthersKeep DEF IInv

-----------------------------------------------------------------------------
(* Steps that decide what becomes of the controller.                       *)

Stays(p) ==
  /\ \A q \in Process \ {p} : phase'[q] = phase[q]
  /\ phase'[p] \notin NotStarted
  /\ UNCHANGED <<artifact, claim>>

ControlOK ==
  /\ ctl \in [Process -> Controller] /\ jobs \in [Process -> Seq(Job)]
  /\ lock \in Locks /\ left \subseteq Artifact

LEMMA BecomesKeeps ==
  ASSUME IInv, NEW p \in Process, Stays(p), NEW e, Good(p, e),
         NEW c \in Controller, c.art = e.ctl.art, Becomes(p, e, c)
  PROVE  ControlOK' /\ Frame(p) /\ Own(p)' /\ StraysAreLeft'
  <1>1. /\ ctl \in [Process -> Controller] /\ jobs \in [Process -> Seq(Job)]
        /\ lock \in Locks /\ left \subseteq Artifact
    BY DEF IInv, TypeOK, Locks
  <1>2. /\ ctl' = [ctl EXCEPT ![p] = c] /\ jobs' = [jobs EXCEPT ![p] = e.jobs]
        /\ lock' = e.lock /\ left' = e.left
    BY DEF Becomes
  <1>3. /\ ctl' \in [Process -> Controller] /\ ctl'[p] = c
        /\ \A q \in Process \ {p} : ctl'[q] = ctl[q]
    BY <1>1, <1>2
  <1>4. /\ jobs' \in [Process -> Seq(Job)] /\ jobs'[p] = e.jobs
        /\ \A q \in Process \ {p} : jobs'[q] = jobs[q]
    BY <1>1, <1>2 DEF Good
  <1>5. lock' \in Locks /\ left' \subseteq Artifact /\ left \subseteq left'
    BY <1>2 DEF Good
  <1>6. Frame(p) BY <1>2, <1>3, <1>4, <1>5 DEF Frame, Stays, Good
  <1>7. HoldsWith(p, ctl'[p], jobs'[p], lock')
    BY <1>2, <1>3, <1>4 DEF Good, HoldsWith
  <1>8. EmptiedWith(artifact', jobs'[p], left')
    BY <1>2, <1>4 DEF Good, EmptiedWith, Stays
  <1>9. ClaimsWith(p, phase'[p], claim'[p], artifact', lock', left')
    BY DEF Stays, ClaimsWith, NotStarted
  <1>10. Own(p)' BY <1>7, <1>8, <1>9 DEF Own, Stays
  <1>11. StraysAreLeft' BY <1>2 DEF Good, StraysWith, StraysAreLeft, Stays, Exists
  <1> QED BY <1>3, <1>4, <1>5, <1>6, <1>10, <1>11 DEF ControlOK

(* document_state_changed.                                                 *)
LEMMA StateChangedKeeps ==
  ASSUME IInv, NEW p \in Process, Stays(p), NEW d \in Document, StateChanged(p, d)
  PROVE  /\ ControlOK' /\ Frame(p) /\ Own(p)' /\ StraysAreLeft'
         /\ doc' \in [Process -> Document] /\ failed' \subseteq Version
  <1>1. doc' \in [Process -> Document] BY DEF IInv, TypeOK, StateChanged
  <1>2. d.text \in Version BY Zenon DEF Document
  <1>3. failed' \subseteq Version BY <1>2 DEF IInv, TypeOK, StateChanged
  <1>4. ASSUME NEW e \in Retired(p),
               Becomes(p, e, [e.ctl EXCEPT !.newer = e.ctl.inflight])
        PROVE  ControlOK' /\ Frame(p) /\ Own(p)' /\ StraysAreLeft'
    <2>1. Good(p, e) BY GoodRetired
    <2>2. e.ctl \in Controller BY <2>1 DEF Good
    <2>3. e.ctl.inflight \in BOOLEAN BY <2>2, ControllerFields, Zenon
    <2>4. /\ [e.ctl EXCEPT !.newer = e.ctl.inflight] \in Controller
          /\ [e.ctl EXCEPT !.newer = e.ctl.inflight].art = e.ctl.art
      BY <2>2, <2>3, NewerIsController, Zenon
    <2> QED BY <1>4, <2>1, <2>4, BecomesKeeps, Zenon
  <1>5. ASSUME NEW e \in Ensured(p, d),
               Becomes(p, e, IF e.ok THEN Scheduled(e.ctl)
                             ELSE [e.ctl EXCEPT !.newer = e.ctl.inflight])
        PROVE  ControlOK' /\ Frame(p) /\ Own(p)' /\ StraysAreLeft'
    <2> DEFINE c == IF e.ok THEN Scheduled(e.ctl)
                    ELSE [e.ctl EXCEPT !.newer = e.ctl.inflight]
    <2>1. Good(p, e) BY GoodEnsured
    <2>2. e.ctl \in Controller BY <2>1 DEF Good
    <2>3. e.ctl.inflight \in BOOLEAN BY <2>2, ControllerFields, Zenon
    <2>4. /\ [e.ctl EXCEPT !.newer = e.ctl.inflight] \in Controller
          /\ [e.ctl EXCEPT !.newer = e.ctl.inflight].art = e.ctl.art
      BY <2>2, <2>3, NewerIsController, Zenon
    <2>5. c \in Controller /\ c.art = e.ctl.art BY <2>2, <2>4, ScheduledIsController, Zenon
    <2>6. Becomes(p, e, c) BY <1>5
    <2> HIDE DEF c
    <2> QED BY <2>1, <2>5, <2>6, BecomesKeeps, Zenon
  <1> DEFINE Ends(e) == Becomes(p, e, [e.ctl EXCEPT !.newer = e.ctl.inflight])
             Goes(e) == Becomes(p, e, IF e.ok THEN Scheduled(e.ctl)
                                      ELSE [e.ctl EXCEPT !.newer = e.ctl.inflight])
             Upheld == ControlOK' /\ Frame(p) /\ Own(p)' /\ StraysAreLeft'
  <1>6. (\E e \in Retired(p) : Ends(e)) \/ (\E e \in Ensured(p, d) : Goes(e))
    BY Zenon DEF StateChanged
  <1>7. \A e \in Retired(p) : Ends(e) => Upheld BY <1>4
  <1>8. \A e \in Ensured(p, d) : Goes(e) => Upheld BY <1>5
  <1> HIDE DEF Ends, Goes, Upheld
  <1>9. Upheld BY <1>6, <1>7, <1>8
  <1> USE DEF Upheld
  <1> QED BY <1>1, <1>3, <1>9
-----------------------------------------------------------------------------
(* What the user does.                                                     *)

LEMMA DocumentFields ==
  ASSUME NEW d \in Document
  PROVE  /\ d.text \in Version /\ d.base \in Version \cup {NoBase}
         /\ d.saved \in Version \cup {Unreachable}
  BY Zenon DEF Document

LEMMA RewrittenIsDocument ==
  ASSUME NEW d \in Document, NEW v \in Version
  PROVE  [d EXCEPT !.text = v] \in Document
  BY Zenon DEF Document

LEMMA NewIsDocument ==
  Untitled \in Document /\ \A v \in Version : Opened(v) \in Document
  <1>1. 0 \in Version BY BoundsAreNat DEF Version
  <1>2. Untitled \in Document BY <1>1, Zenon DEF Untitled, Document
  <1>3. \A v \in Version : Opened(v) \in Document BY Zenon DEF Opened, Document
  <1> QED BY <1>2, <1>3

LEMMA DocumentStepKeeps ==
  ASSUME IInv, NEW p \in Process, Stays(p), NEW d \in Document, StateChanged(p, d),
         file' \in Version, phase' \in [Process -> Phases],
         last' \in Version, seen' \in [Version -> SUBSET Version],
         UNCHANGED <<startup, reported, crashes>>
  PROVE  IInv'
  <1>1. /\ ControlOK' /\ Frame(p) /\ Own(p)' /\ StraysAreLeft'
        /\ doc' \in [Process -> Document] /\ failed' \subseteq Version
    BY StateChangedKeeps
  <1>2. TypeOK' BY <1>1 DEF IInv, TypeOK, ControlOK, Locks, Stays, startup
  <1> QED BY <1>1, <1>2, StepKeeps

LEMMA EditKeeps ==
  ASSUME IInv, NEW p \in Process, Edit(p)
  PROVE  IInv'
  <1> DEFINE d == [doc[p] EXCEPT !.text = last + 1]
  <1>1. doc[p] \in Document /\ last \in Version BY DEF IInv, TypeOK
  <1>2. last' = last + 1 /\ last' \in Version BY <1>1, BoundsAreNat DEF Edit, Version
  <1>3. d \in Document BY <1>1, <1>2, RewrittenIsDocument
  <1>4. seen' \in [Version -> SUBSET Version]
    <2>1. doc[p].text \in Version BY <1>1, DocumentFields
    <2> QED BY <1>2, <2>1 DEF IInv, TypeOK, Edit
  <1>5. Stays(p) BY DEF Edit, Stays, Unchanged, NotStarted, startup
  <1>6. StateChanged(p, d) BY DEF Edit
  <1> HIDE DEF d
  <1> QED BY <1>2, <1>3, <1>4, <1>5, <1>6, DocumentStepKeeps DEF Edit, Unchanged, IInv, TypeOK

LEMMA UndoToSavedKeeps ==
  ASSUME IInv, NEW p \in Process, UndoToSaved(p)
  PROVE  IInv'
  <1> DEFINE d == [doc[p] EXCEPT !.text = doc[p].saved]
  <1>1. doc[p] \in Document BY DEF IInv, TypeOK
  <1>2. doc[p].saved \in Version BY <1>1, DocumentFields DEF UndoToSaved
  <1>3. d \in Document BY <1>1, <1>2, RewrittenIsDocument
  <1>4. Stays(p) BY DEF UndoToSaved, Stays, Unchanged, NotStarted, startup
  <1>5. StateChanged(p, d) BY DEF UndoToSaved
  <1> HIDE DEF d
  <1> QED BY <1>3, <1>4, <1>5, DocumentStepKeeps DEF UndoToSaved, Unchanged, IInv, TypeOK

LEMMA ReplaceKeeps ==
  ASSUME IInv, NEW p \in Process, Replace(p)
  PROVE  IInv'
  <1>1. PICK d \in {Untitled, Opened(file)} : StateChanged(p, d) BY DEF Replace
  <1>2. d \in Document BY NewIsDocument DEF IInv, TypeOK
  <1>3. Stays(p) BY DEF Replace, Stays, Unchanged, NotStarted, startup
  <1> QED BY <1>1, <1>2, <1>3, DocumentStepKeeps DEF Replace, Unchanged, IInv, TypeOK

LEMMA SaveNotifiedKeeps ==
  ASSUME IInv, NEW p \in Process, SaveNotified(p)
  PROVE  IInv'
  <1>1. doc[p] \in Document BY DEF IInv, TypeOK
  <1>2. /\ phase' \in [Process -> Phases] /\ phase'[p] = "running"
        /\ \A q \in Process \ {p} : phase'[q] = phase[q]
    BY DEF SaveNotified, IInv, TypeOK, Phases
  <1>3. Stays(p) BY <1>2 DEF SaveNotified, Stays, Unchanged, NotStarted, startup
  <1> QED BY <1>1, <1>2, <1>3, DocumentStepKeeps DEF SaveNotified, Unchanged, IInv, TypeOK

LEMMA CommitKeeps ==
  ASSUME IInv, NEW p \in Process, Commit(p)
  PROVE  IInv'
  <1>1. doc[p] \in Document BY DEF IInv, TypeOK
  <1>2. doc[p].text \in Version BY <1>1, DocumentFields
  <1>3. file' \in Version /\ doc' \in [Process -> Document]
    BY <1>2, NewIsDocument DEF Commit, IInv, TypeOK
  <1>4. /\ phase' \in [Process -> Phases] /\ phase'[p] = "saved" /\ phase[p] = "running"
        /\ \A q \in Process \ {p} : phase'[q] = phase[q]
    BY DEF Commit, IInv, TypeOK, Phases
  <1>5. TypeOK' BY <1>3, <1>4 DEF Commit, Unchanged, IInv, TypeOK, startup
  <1>6. Frame(p) BY <1>4 DEF Commit, Unchanged, Frame, startup
  <1>7. Own(p)'
    BY <1>4 DEF IInv, Own, HoldsWith, EmptiedWith, ClaimsWith, NotStarted, Commit, Unchanged, startup
  <1>8. StraysAreLeft' BY DEF IInv, StraysAreLeft, Exists, Commit, Unchanged
  <1> QED BY <1>5, <1>6, <1>7, <1>8, StepKeeps

LEMMA QuitKeeps ==
  ASSUME IInv, NEW p \in Process, Quit(p)
  PROVE  IInv'
  <1>1. PICK e \in Retired(p) : Becomes(p, e, e.ctl) BY DEF Quit
  <1>2. Good(p, e) /\ e.ctl \in Controller BY GoodRetired DEF Good
  <1>3. /\ phase' \in [Process -> Phases] /\ phase'[p] = "closing"
        /\ \A q \in Process \ {p} : phase'[q] = phase[q]
    BY DEF Quit, IInv, TypeOK, Phases
  <1>4. Stays(p) BY <1>3 DEF Quit, Stays, Unchanged, NotStarted, startup
  <1>5. ControlOK' /\ Frame(p) /\ Own(p)' /\ StraysAreLeft' BY <1>1, <1>2, <1>4, BecomesKeeps
  <1>6. TypeOK' BY <1>3, <1>5 DEF Quit, Unchanged, IInv, TypeOK, ControlOK, Locks, startup
  <1> QED BY <1>5, <1>6, StepKeeps
-----------------------------------------------------------------------------
(* The timer and the idle callback.                                        *)

LEMMA CaptureKeeps ==
  ASSUME IInv, NEW p \in Process, Capture(p)
  PROVE  IInv'
  <1> DEFINE d == doc[p]
             Write(e) == [kind |-> "persist", art |-> e.ctl.art,
                          rec |-> [text |-> d.text, base |-> d.base]]
             Wrote(e) == Outcome(e.ctl, Append(e.jobs, Write(e)), e.lock, e.left, TRUE)
             Writing(c) == [c EXCEPT !.timer = FALSE, !.inflight = TRUE, !.newer = FALSE]
             Untimed(c) == [c EXCEPT !.timer = FALSE]
             Upheld == ControlOK' /\ Frame(p) /\ Own(p)' /\ StraysAreLeft'
  <1>1. d \in Document BY DEF IInv, TypeOK
  <1>2. d.text \in Version /\ d.base \in Version \cup {NoBase} BY <1>1, DocumentFields
  <1>3. Stays(p) BY DEF Capture, Stays, NotStarted, startup
  <1>4. ASSUME NEW e \in Retired(p), Becomes(p, e, e.ctl) PROVE Upheld
    <2>1. Good(p, e) /\ e.ctl \in Controller BY GoodRetired DEF Good
    <2> QED BY <1>3, <1>4, <2>1, BecomesKeeps
  <1>5. ASSUME NEW e \in Ensured(p, d), Becomes(p, e, Untimed(e.ctl)) PROVE Upheld
    <2>1. Good(p, e) /\ e.ctl \in Controller BY <1>1, GoodEnsured DEF Good
    <2>2. Untimed(e.ctl) \in Controller /\ Untimed(e.ctl).art = e.ctl.art
      BY <2>1, UntimedIsController
    <2> HIDE DEF Untimed
    <2> QED BY <1>3, <1>5, <2>1, <2>2, BecomesKeeps
  <1>6. ASSUME NEW e \in Ensured(p, d), e.ctl.art # NoArtifact,
               Becomes(p, Wrote(e), Writing(e.ctl))
        PROVE  Upheld
    <2>1. Good(p, e) /\ e.ctl \in Controller /\ e.jobs \in Seq(Job) BY <1>1, GoodEnsured DEF Good
    <2>2. e.ctl.art \in Artifact BY <1>6, <2>1, ControllerFields
    <2>3. Writing(e.ctl) \in Controller /\ Writing(e.ctl).art = e.ctl.art
      BY <2>1, WritingIsController
    <2>4. [text |-> d.text, base |-> d.base] \in Record BY <1>2 DEF Record
    <2>5. Write(e) \in Job /\ Write(e).kind = "persist" BY <2>2, <2>4, JobsAreJobs
    <2> DEFINE js == Append(e.jobs, Write(e))
    <2>6. /\ js \in Seq(Job) /\ DOMAIN js = 1 .. Len(e.jobs) + 1
          /\ DOMAIN e.jobs = 1 .. Len(e.jobs) /\ Len(e.jobs) \in Nat
          /\ (\A i \in DOMAIN e.jobs : js[i] = e.jobs[i]) /\ js[Len(e.jobs) + 1] = Write(e)
      BY <2>1, <2>5
    <2> HIDE DEF js, Writing, Write
    <2>7. \A i \in DOMAIN js : js[i].kind # "persist" => i \in DOMAIN e.jobs /\ js[i] = e.jobs[i]
      BY <2>5, <2>6
    <2>8. HoldsWith(p, e.ctl, js, e.lock)
      BY <2>1, <2>7 DEF Good, HoldsWith, Removing
    <2>9. EmptiedWith(artifact, js, e.left) BY <2>1, <2>7 DEF Good, EmptiedWith
    <2>10. Wrote(e) = Outcome(e.ctl, js, e.lock, e.left, TRUE) BY DEF js
    <2> HIDE DEF Wrote
    <2>11. Wrote(e).ctl = e.ctl /\ Good(p, Wrote(e))
      BY <2>1, <2>6, <2>8, <2>9, <2>10 DEF Good, Outcome
    <2> QED BY <1>3, <1>6, <2>3, <2>11, BecomesKeeps
  <1>7. \A e \in Ensured(p, d) : e.ok => e.ctl.art # NoArtifact
    <2>1. ctl[p].art # NoArtifact => Steady(p).ctl.art # NoArtifact BY DEF Steady, Outcome
    <2>2. ASSUME NEW before \in Retired(p), NEW e \in Started(p, d, before), e.ok
          PROVE  e.ctl.art # NoArtifact
      <3>1. Good(p, before) BY GoodRetired
      <3>2. PICK a \in Fresh :
              e = Outcome([before.ctl EXCEPT !.art = a, !.key = KeyOf(d)], before.jobs,
                          [before.lock EXCEPT ![a] = p], before.left, TRUE)
        <4> DEFINE Named(a) == Outcome([before.ctl EXCEPT !.art = a, !.key = KeyOf(d)],
                                       before.jobs, [before.lock EXCEPT ![a] = p],
                                       before.left, TRUE)
                   refused == Outcome(before.ctl, before.jobs, before.lock, before.left, FALSE)
        <4>1. (\E a \in Fresh : e = Named(a)) \/ e = refused BY <2>2, Zenon DEF Started
        <4>2. refused.ok = FALSE BY DEF Outcome
        <4> HIDE DEF Named, refused
        <4>3. \E a \in Fresh : e = Named(a) BY <2>2, <4>1, <4>2
        <4> QED BY <4>3 DEF Named
      <3>3. a \in Artifact BY DEF Fresh, Unused
      <3>4. before.ctl \in Controller BY <3>1 DEF Good
      <3>5. [before.ctl EXCEPT !.art = a, !.key = KeyOf(d)].art = a
        BY <1>2, <3>3, <3>4, NamedIsController DEF KeyOf
      <3> QED BY <3>2, <3>3, <3>5, NoSuchNames DEF Outcome
    <2> QED BY <2>1, <2>2 DEF Ensured
  <1>8. \/ \E e \in Retired(p) : Becomes(p, e, e.ctl)
        \/ \E e \in Ensured(p, d) : e.ok /\ Becomes(p, Wrote(e), Writing(e.ctl))
        \/ \E e \in Ensured(p, d) : Becomes(p, e, Untimed(e.ctl))
    BY Zenon DEF Capture
  <1>9. failed' \subseteq Version
    BY <1>2 DEF Capture, IInv, TypeOK
  <1> HIDE DEF Wrote, Writing, Untimed, Upheld
  <1>10. Upheld BY <1>4, <1>5, <1>6, <1>7, <1>8
  <1> USE DEF Upheld
  <1>11. TypeOK' BY <1>9, <1>10 DEF Capture, IInv, TypeOK, ControlOK, Locks, startup, observers
  <1> QED BY <1>10, <1>11, StepKeeps

LEMMA CompletedKeeps ==
  ASSUME IInv, NEW p \in Process, Completed(p)
  PROVE  IInv'
  <1> DEFINE d == doc[p]
             Next1(e) == IF e.ok THEN Scheduled(Landed(e.ctl)) ELSE Landed(e.ctl)
             Upheld == ControlOK' /\ Frame(p) /\ Own(p)' /\ StraysAreLeft'
  <1>1. d \in Document BY DEF IInv, TypeOK
  <1>2. d.text \in Version BY <1>1, DocumentFields
  <1>3. Stays(p) BY DEF Completed, Stays, NotStarted, startup
  <1>4. ASSUME NEW e \in Retired(p), Becomes(p, e, Landed(e.ctl)) PROVE Upheld
    <2>1. Good(p, e) /\ e.ctl \in Controller BY GoodRetired DEF Good
    <2>2. Landed(e.ctl) \in Controller /\ Landed(e.ctl).art = e.ctl.art
      BY <2>1, LandedIsController
    <2> QED BY <1>3, <1>4, <2>1, <2>2, BecomesKeeps
  <1>5. ASSUME Becomes(p, Steady(p), Landed(ctl[p])) PROVE Upheld
    <2>1. Good(p, Steady(p)) /\ ctl[p] \in Controller BY GoodSteady, NameOfController DEF IInv
    <2>2. Landed(ctl[p]) \in Controller /\ Landed(ctl[p]).art = Steady(p).ctl.art
      BY <2>1, LandedIsController DEF Steady, Outcome
    <2> QED BY <1>3, <1>5, <2>1, <2>2, BecomesKeeps
  <1>6. ASSUME NEW e \in Ensured(p, d), Becomes(p, e, Next1(e)) PROVE Upheld
    <2>1. Good(p, e) /\ e.ctl \in Controller BY <1>1, GoodEnsured DEF Good
    <2>2. Landed(e.ctl) \in Controller /\ Landed(e.ctl).art = e.ctl.art
      BY <2>1, LandedIsController
    <2>3. Next1(e) \in Controller /\ Next1(e).art = e.ctl.art BY <2>2, ScheduledIsController
    <2> HIDE DEF Next1
    <2> QED BY <1>3, <1>6, <2>1, <2>3, BecomesKeeps
  <1>7. \/ \E e \in Retired(p) : Becomes(p, e, Landed(e.ctl))
        \/ Becomes(p, Steady(p), Landed(ctl[p]))
        \/ \E e \in Ensured(p, d) : Becomes(p, e, Next1(e))
    BY Zenon DEF Completed
  <1>8. failed' \subseteq Version BY <1>2 DEF Completed, IInv, TypeOK
  <1>9. reported' \in [Process -> BOOLEAN] BY DEF Completed, IInv, TypeOK
  <1> HIDE DEF Next1, Upheld
  <1>10. Upheld BY <1>4, <1>5, <1>6, <1>7
  <1> USE DEF Upheld
  <1>11. TypeOK' BY <1>8, <1>9, <1>10 DEF Completed, IInv, TypeOK, ControlOK, Locks, startup, observers
  <1> QED BY <1>10, <1>11, StepKeeps
-----------------------------------------------------------------------------
(* The worker.  Its queue is empty before the process has started.         *)

LEMMA WorkerRuns ==
  ASSUME IInv, NEW p \in Process, jobs[p] # <<>>
  PROVE  /\ phase[p] \notin NotStarted
         /\ Len(jobs[p]) \in Nat \ {0} /\ Head(jobs[p]) = jobs[p][1] /\ 1 \in DOMAIN jobs[p]
         /\ jobs[p][1] \in Job /\ jobs[p][1].art \in Artifact
  <1>1. Own(p) BY DEF IInv
  <1>2. jobs[p] \in Seq(Job) BY DEF IInv, TypeOK
  <1>3. /\ Len(jobs[p]) \in Nat \ {0} /\ Head(jobs[p]) = jobs[p][1] /\ 1 \in DOMAIN jobs[p]
    BY <1>2, EmptySeq
  <1> QED BY <1>1, <1>3, NamesOfJobs DEF Own, IInv

LEMMA TailHolds ==
  ASSUME NEW p, NEW c, NEW js, NEW ks, NEW lk, HoldsWith(p, c, js, lk),
         \A i \in DOMAIN ks : i \in Int /\ i + 1 \in DOMAIN js /\ ks[i] = js[i + 1]
  PROVE  HoldsWith(p, c, ks, lk)
  <1>1. c.art # NoArtifact => lk[c.art] = p BY DEF HoldsWith
  <1>2. \A i \in DOMAIN ks : Removing(ks[i]) => lk[ks[i].art] = p /\ ks[i].art # c.art
    BY DEF HoldsWith
  <1>3. ASSUME NEW i \in DOMAIN ks, NEW j \in DOMAIN ks, i # j, Removing(ks[i]), Removing(ks[j])
        PROVE  ks[i].art # ks[j].art
    <2>1. i + 1 # j + 1 BY <1>3
    <2>2. i + 1 \in DOMAIN js /\ j + 1 \in DOMAIN js /\ ks[i] = js[i + 1] /\ ks[j] = js[j + 1]
      OBVIOUS
    <2> QED BY <1>3, <2>1, <2>2 DEF HoldsWith
  <1> QED BY <1>1, <1>2, <1>3 DEF HoldsWith

LEMMA SameNamesHold ==
  ASSUME NEW p, NEW c, NEW js, NEW ks, NEW lk, HoldsWith(p, c, js, lk), DOMAIN ks = DOMAIN js,
         \A i \in DOMAIN ks : Removing(ks[i]) => ks[i].art = js[i].art /\ Removing(js[i])
  PROVE  HoldsWith(p, c, ks, lk)
  BY DEF HoldsWith

(* The head of the queue is done.                                          *)
LEMMA DoneTakesHead ==
  ASSUME IInv, NEW p \in Process, jobs[p] # <<>>, Done(p)
  PROVE  /\ jobs' \in [Process -> Seq(Job)]
         /\ \A q \in Process \ {p} : jobs'[q] = jobs[q]
         /\ DOMAIN jobs'[p] = 1 .. Len(jobs[p]) - 1
         /\ \A i \in DOMAIN jobs'[p] : i + 1 \in DOMAIN jobs[p] /\ jobs'[p][i] = jobs[p][i + 1]
         /\ \A i \in DOMAIN jobs'[p] : i \in Int
         /\ HoldsWith(p, ctl[p], jobs'[p], lock)
         /\ EmptiedWith(artifact, jobs'[p], left)
  <1>1. jobs \in [Process -> Seq(Job)] /\ jobs[p] \in Seq(Job) BY DEF IInv, TypeOK
  <1>2. jobs' = [jobs EXCEPT ![p] = Tail(jobs[p])] BY DEF Done
  <1>3. /\ Tail(jobs[p]) \in Seq(Job) /\ DOMAIN Tail(jobs[p]) = 1 .. Len(jobs[p]) - 1
        /\ \A i \in 1 .. Len(jobs[p]) - 1 :
             i + 1 \in DOMAIN jobs[p] /\ Tail(jobs[p])[i] = jobs[p][i + 1]
    BY <1>1, WorkerRuns
  <1>4. jobs'[p] = Tail(jobs[p]) BY <1>1, <1>2
  <1>5. Own(p) BY DEF IInv
  <1>6. \A i \in DOMAIN Tail(jobs[p]) : i \in Int BY <1>1, <1>3, WorkerRuns
  <1>7. HoldsWith(p, ctl[p], Tail(jobs[p]), lock) BY <1>3, <1>5, <1>6, TailHolds DEF Own
  <1>8. EmptiedWith(artifact, Tail(jobs[p]), left) BY <1>3, <1>5 DEF Own, EmptiedWith
  <1> QED BY <1>1, <1>2, <1>3, <1>4, <1>6, <1>7, <1>8

LEMMA StageKeeps ==
  ASSUME IInv, NEW p \in Process, Stage(p)
  PROVE  IInv'
  <1>1. jobs[p] # <<>> /\ Head(jobs[p]).kind = "persist" BY DEF Stage
  <1>2. /\ phase[p] \notin NotStarted /\ jobs[p][1] \in Job /\ jobs[p][1].kind = "persist"
        /\ Len(jobs[p]) \in Nat \ {0} /\ Head(jobs[p]) = jobs[p][1] /\ 1 \in DOMAIN jobs[p]
    BY <1>1, WorkerRuns
  <1>3. Own(p) /\ jobs \in [Process -> Seq(Job)] /\ jobs[p] \in Seq(Job) BY DEF IInv, TypeOK
  <1>4. CASE jobs' = [jobs EXCEPT ![p][1].kind = "staged"] /\ UNCHANGED <<reported, failed>>
    <2> DEFINE job == [jobs[p][1] EXCEPT !.kind = "staged"]
    <2>1. job \in Job /\ job.kind = "staged" BY <1>2, StagedIsJob
    <2>2. jobs' = [jobs EXCEPT ![p] = [jobs[p] EXCEPT ![1] = job]] BY <1>4, Zenon
    <2> HIDE DEF job
    <2>3. /\ [jobs[p] EXCEPT ![1] = job] \in Seq(Job)
          /\ DOMAIN [jobs[p] EXCEPT ![1] = job] = DOMAIN jobs[p]
          /\ [jobs[p] EXCEPT ![1] = job][1] = job
          /\ \A i \in DOMAIN jobs[p] \ {1} : [jobs[p] EXCEPT ![1] = job][i] = jobs[p][i]
      BY <1>2, <1>3, <2>1
    <2>4. /\ jobs' \in [Process -> Seq(Job)] /\ DOMAIN jobs'[p] = DOMAIN jobs[p]
          /\ jobs'[p][1] = job /\ (\A i \in DOMAIN jobs[p] \ {1} : jobs'[p][i] = jobs[p][i])
          /\ \A q \in Process \ {p} : jobs'[q] = jobs[q]
      BY <1>3, <2>2, <2>3
    <2>5. TypeOK' BY <1>4, <2>4 DEF Stage, IInv, TypeOK, startup, observers
    <2>6. Frame(p) BY <2>4 DEF Frame, Stage, startup
    <2>7. Own(p)'
      <3>1. \A i \in DOMAIN jobs'[p] : jobs'[p][i].kind # "staged" => jobs'[p][i] = jobs[p][i]
        BY <2>1, <2>4
      <3>2. HoldsWith(p, ctl'[p], jobs'[p], lock')
        <4>1. \A i \in DOMAIN jobs'[p] : Removing(jobs'[p][i]) => jobs'[p][i] = jobs[p][i]
          BY <3>1 DEF Removing
        <4>2. HoldsWith(p, ctl[p], jobs'[p], lock) BY <1>3, <2>4, <4>1, SameNamesHold DEF Own
        <4> QED BY <4>2 DEF Stage
      <3>3. EmptiedWith(artifact', jobs'[p], left')
        BY <1>3, <2>4, <3>1 DEF Own, EmptiedWith, Stage
      <3> QED BY <1>2, <1>3, <3>2, <3>3 DEF Own, Stage, startup, ClaimsWith, NotStarted
    <2>8. StraysAreLeft' BY DEF IInv, StraysAreLeft, Exists, Stage
    <2> QED BY <2>5, <2>6, <2>7, <2>8, StepKeeps
  <1>5. CASE Done(p) /\ Report(p) /\ Warned(Head(jobs[p]), "failed")
    <2>1. /\ jobs' \in [Process -> Seq(Job)]
          /\ \A q \in Process \ {p} : jobs'[q] = jobs[q]
          /\ DOMAIN jobs'[p] = 1 .. Len(jobs[p]) - 1
          /\ HoldsWith(p, ctl[p], jobs'[p], lock) /\ EmptiedWith(artifact, jobs'[p], left)
      BY <1>1, <1>5, DoneTakesHead
    <2>2. jobs[p][1].rec \in Record BY <1>2, JobFields
    <2>3. jobs[p][1].rec.text \in Version BY <2>2, Zenon DEF Record
    <2>4. failed' \subseteq Version /\ reported' \in [Process -> BOOLEAN]
      BY <1>2, <1>5, <2>3 DEF Warned, Report, IInv, TypeOK
    <2>5. TypeOK' BY <2>1, <2>4 DEF Stage, IInv, TypeOK, startup, observers
    <2>6. Frame(p) BY <2>1 DEF Frame, Stage, startup
    <2>7. Own(p)'
      <3>1. HoldsWith(p, ctl'[p], jobs'[p], lock')
        BY <2>1 DEF Stage
      <3>2. EmptiedWith(artifact', jobs'[p], left') BY <2>1 DEF Stage
      <3> QED BY <1>2, <1>3, <3>1, <3>2 DEF Own, Stage, startup, ClaimsWith, NotStarted
    <2>8. StraysAreLeft' BY DEF IInv, StraysAreLeft, Exists, Stage
    <2> QED BY <2>5, <2>6, <2>7, <2>8, StepKeeps
  <1> QED BY <1>4, <1>5 DEF Stage

LEMMA PublishKeeps ==
  ASSUME IInv, NEW p \in Process, Publish(p)
  PROVE  IInv'
  <1> DEFINE job == Head(jobs[p])
  <1>1. jobs[p] # <<>> /\ Head(jobs[p]).kind = "staged" /\ Done(p) BY DEF Publish
  <1>2. /\ phase[p] \notin NotStarted /\ job \in Job /\ job.kind = "staged"
        /\ Len(jobs[p]) \in Nat \ {0} /\ job = jobs[p][1] /\ 1 \in DOMAIN jobs[p]
    BY <1>1, WorkerRuns
  <1>3. Own(p) /\ jobs \in [Process -> Seq(Job)] BY DEF IInv, TypeOK
  <1>4. /\ jobs' \in [Process -> Seq(Job)]
        /\ \A q \in Process \ {p} : jobs'[q] = jobs[q]
        /\ DOMAIN jobs'[p] = 1 .. Len(jobs[p]) - 1
        /\ \A i \in DOMAIN jobs'[p] : i + 1 \in DOMAIN jobs[p] /\ jobs'[p][i] = jobs[p][i + 1]
        /\ HoldsWith(p, ctl[p], jobs'[p], lock) /\ EmptiedWith(artifact, jobs'[p], left)
    BY <1>1, DoneTakesHead
  <1>5. job.art \in Artifact /\ job.rec \in Record BY <1>2, JobFields
  <1>6. job.rec.text \in Version BY <1>5, Zenon DEF Record
  <1>7. failed' \subseteq Version /\ reported' \in [Process -> BOOLEAN]
    BY <1>2, <1>6 DEF Publish, Warned, Report, IInv, TypeOK
  <1>8. /\ artifact' \in [Artifact -> Record \cup {NoRecord}]
        /\ \A a \in Artifact : artifact'[a] # artifact[a] => a = ctl[p].art /\ lock[a] = p
    <2>1. \/ artifact' = artifact
          \/ IsCurrent(p, job) /\ artifact' = [artifact EXCEPT ![job.art] = job.rec]
      BY Zenon DEF Publish
    <2>2. IsCurrent(p, job) => ctl[p].art = job.art /\ lock[job.art] = p
      BY <1>3, <1>5, NoSuchNames DEF IsCurrent, Own, HoldsWith
    <2> QED BY <1>5, <2>1, <2>2 DEF IInv, TypeOK
  <1>9. TypeOK' BY <1>4, <1>7, <1>8 DEF Publish, IInv, TypeOK, startup, observers
  <1>10. Frame(p) BY <1>4, <1>8 DEF Frame, Publish, startup
  <1>11. Own(p)'
    <2>1. HoldsWith(p, ctl'[p], jobs'[p], lock')
      BY <1>4 DEF Publish
    <2>2. \A i \in DOMAIN jobs'[p] : jobs'[p][i].kind = "release" =>
            jobs'[p][i].art # ctl[p].art /\ jobs'[p][i].art \in Artifact
      BY <1>3, <1>4, NamesOfJobs DEF Own, HoldsWith, Removing, IInv
    <2>3. EmptiedWith(artifact', jobs'[p], left')
      <3>1. \A i \in DOMAIN jobs'[p] : jobs'[p][i].kind = "release" =>
              artifact'[jobs'[p][i].art] = artifact[jobs'[p][i].art]
        BY <1>8, <2>2
      <3> QED BY <1>4, <3>1 DEF EmptiedWith, Publish
    <2> QED BY <1>2, <1>3, <2>1, <2>3 DEF Own, Publish, startup, ClaimsWith, NotStarted
  <1>12. StraysAreLeft' BY <1>8, NoSuchNames DEF IInv, StraysAreLeft, Exists, Publish
  <1> QED BY <1>9, <1>10, <1>11, <1>12, StepKeeps

LEMMA RemoveOldKeeps ==
  ASSUME IInv, NEW p \in Process, RemoveOld(p)
  PROVE  IInv'
  <1> DEFINE a == jobs[p][1].art
             job == [jobs[p][1] EXCEPT !.kind = "release"]
  <1>1. jobs[p] # <<>> /\ Head(jobs[p]).kind = "cleanup" BY DEF RemoveOld
  <1>2. /\ phase[p] \notin NotStarted /\ jobs[p][1] \in Job /\ jobs[p][1].kind = "cleanup"
        /\ Head(jobs[p]) = jobs[p][1] /\ 1 \in DOMAIN jobs[p] /\ a \in Artifact
    BY <1>1, WorkerRuns
  <1>3. Own(p) /\ jobs \in [Process -> Seq(Job)] /\ jobs[p] \in Seq(Job) BY DEF IInv, TypeOK
  <1>4. job \in Job /\ job.kind = "release" /\ job.art = a BY <1>2, ReleaseIsJob
  <1>5. jobs' = [jobs EXCEPT ![p] = [jobs[p] EXCEPT ![1] = job]] BY Zenon DEF RemoveOld
  <1> HIDE DEF job
  <1>6. /\ [jobs[p] EXCEPT ![1] = job] \in Seq(Job)
        /\ DOMAIN [jobs[p] EXCEPT ![1] = job] = DOMAIN jobs[p]
        /\ [jobs[p] EXCEPT ![1] = job][1] = job
        /\ \A i \in DOMAIN jobs[p] \ {1} : [jobs[p] EXCEPT ![1] = job][i] = jobs[p][i]
    BY <1>2, <1>3, <1>4
  <1>7. /\ jobs' \in [Process -> Seq(Job)] /\ DOMAIN jobs'[p] = DOMAIN jobs[p]
        /\ jobs'[p][1] = job /\ (\A i \in DOMAIN jobs[p] \ {1} : jobs'[p][i] = jobs[p][i])
        /\ \A q \in Process \ {p} : jobs'[q] = jobs[q]
    BY <1>3, <1>5, <1>6
  <1>8. /\ artifact' \in [Artifact -> Record \cup {NoRecord}] /\ left' \subseteq Artifact
        /\ left \subseteq left' /\ (artifact'[a] = NoRecord \/ a \in left')
        /\ \A b \in Artifact \ {a} : artifact'[b] = artifact[b]
        /\ artifact'[a] \in {artifact[a], NoRecord}
    BY <1>2 DEF RemoveOld, IInv, TypeOK
  <1>9. lock[a] = p BY <1>2, <1>3 DEF Own, HoldsWith, Removing
  <1>10. TypeOK' BY <1>7, <1>8 DEF RemoveOld, IInv, TypeOK, startup, observers
  <1>11. Frame(p) BY <1>7, <1>8, <1>9 DEF Frame, RemoveOld, startup
  <1>12. Own(p)'
    <2>1. \A i \in DOMAIN jobs'[p] :
            /\ jobs'[p][i].art = jobs[p][i].art
            /\ Removing(jobs'[p][i]) <=> Removing(jobs[p][i])
      BY <1>2, <1>4, <1>7 DEF Removing
    <2>2. HoldsWith(p, ctl'[p], jobs'[p], lock')
      <3>1. HoldsWith(p, ctl[p], jobs'[p], lock) BY <1>3, <1>7, <2>1, SameNamesHold DEF Own
      <3> QED BY <3>1 DEF RemoveOld
    <2>3. EmptiedWith(artifact', jobs'[p], left')
      <3> SUFFICES ASSUME NEW i \in DOMAIN jobs[p], jobs'[p][i].kind = "release",
                          artifact'[jobs'[p][i].art] # NoRecord
                   PROVE  jobs'[p][i].art \in left'
        BY <1>7 DEF EmptiedWith
      <3>1. CASE i = 1 BY <1>4, <1>7, <1>8, <3>1
      <3>2. CASE i # 1
        <4>1. jobs[p][i].art \in Artifact BY NamesOfJobs DEF IInv
        <4>2. jobs'[p][i] = jobs[p][i] BY <1>7, <3>2
        <4>3. artifact[jobs[p][i].art] # NoRecord BY <1>8, <4>1, <4>2
        <4> QED BY <1>3, <1>8, <4>2, <4>3 DEF Own, EmptiedWith
      <3> QED BY <3>1, <3>2
    <2> QED BY <1>2, <1>3, <2>2, <2>3 DEF Own, RemoveOld, startup, ClaimsWith, NotStarted
  <1>13. StraysAreLeft' BY <1>8 DEF IInv, StraysAreLeft, Exists, RemoveOld
  <1> QED BY <1>10, <1>11, <1>12, <1>13, StepKeeps

LEMMA ReleaseOldKeeps ==
  ASSUME IInv, NEW p \in Process, ReleaseOld(p)
  PROVE  IInv'
  <1> DEFINE a == jobs[p][1].art
  <1>1. jobs[p] # <<>> /\ Head(jobs[p]).kind = "release" /\ Done(p) BY DEF ReleaseOld
  <1>2. /\ phase[p] \notin NotStarted /\ jobs[p][1].kind = "release"
        /\ Len(jobs[p]) \in Nat \ {0} /\ Head(jobs[p]) = jobs[p][1] /\ 1 \in DOMAIN jobs[p]
        /\ a \in Artifact
    BY <1>1, WorkerRuns
  <1>3. Own(p) BY DEF IInv
  <1>4. /\ jobs' \in [Process -> Seq(Job)]
        /\ \A q \in Process \ {p} : jobs'[q] = jobs[q]
        /\ DOMAIN jobs'[p] = 1 .. Len(jobs[p]) - 1
        /\ \A i \in DOMAIN jobs'[p] : i + 1 \in DOMAIN jobs[p] /\ jobs'[p][i] = jobs[p][i + 1]
        /\ HoldsWith(p, ctl[p], jobs'[p], lock) /\ EmptiedWith(artifact, jobs'[p], left)
    BY <1>1, DoneTakesHead
  <1>5. /\ lock' \in Locks /\ lock'[a] = Nobody
        /\ \A b \in Artifact \ {a} : lock'[b] = lock[b]
    BY <1>2 DEF ReleaseOld, IInv, TypeOK, Locks
  <1>6. lock[a] = p /\ a # ctl[p].art /\ (artifact[a] # NoRecord => a \in left)
    BY <1>2, <1>3 DEF Own, HoldsWith, EmptiedWith, Removing
  <1>7. TypeOK' BY <1>4, <1>5 DEF ReleaseOld, IInv, TypeOK, Locks, startup, observers
  <1>8. Frame(p) BY <1>4, <1>5, <1>6 DEF Frame, ReleaseOld, startup
  <1>9. Own(p)'
    <2>1. \A i \in DOMAIN jobs'[p] : Removing(jobs'[p][i]) => jobs'[p][i].art # a
      <3> SUFFICES ASSUME NEW i \in DOMAIN jobs'[p], Removing(jobs'[p][i])
                   PROVE  jobs'[p][i].art # a
        OBVIOUS
      <3>1. i + 1 \in DOMAIN jobs[p] /\ i + 1 # 1 /\ jobs'[p][i] = jobs[p][i + 1] BY <1>2, <1>4
      <3>2. Removing(jobs[p][1]) BY <1>2 DEF Removing
      <3> QED BY <1>2, <1>3, <3>1, <3>2 DEF Own, HoldsWith
    <2>2. \A i \in DOMAIN jobs'[p] : jobs'[p][i].art \in Artifact
      BY <1>4, NamesOfJobs DEF IInv
    <2>3. ctl[p].art \in Artifact \cup {NoArtifact} BY NameOfController DEF IInv
    <2>4. HoldsWith(p, ctl'[p], jobs'[p], lock')
      BY <1>4, <1>5, <1>6, <2>1, <2>2, <2>3, NoSuchNames DEF HoldsWith, ReleaseOld
    <2>5. EmptiedWith(artifact', jobs'[p], left') BY <1>4 DEF ReleaseOld
    <2> QED BY <1>2, <1>3, <2>4, <2>5 DEF Own, ReleaseOld, startup, ClaimsWith, NotStarted
  <1>10. StraysAreLeft' BY <1>5, <1>6 DEF IInv, StraysAreLeft, Exists, ReleaseOld
  <1> QED BY <1>7, <1>8, <1>9, <1>10, StepKeeps

-----------------------------------------------------------------------------
(* The end of a process.                                                   *)

NothingHeld(p) ==
  /\ ctl'[p].art = NoArtifact /\ jobs'[p] = <<>>
  /\ phase'[p] \notin {"locking", "reading", "offered"}

LEMMA NothingHeldOwns ==
  ASSUME NEW p \in Process, NothingHeld(p)
  PROVE  Own(p)'
  BY DEF NothingHeld, Own, HoldsWith, EmptiedWith, ClaimsWith

LEMMA GoneIsOff ==
  ASSUME IInv, NEW p \in Process, Gone(p)
  PROVE  /\ file' \in Version /\ artifact' \in [Artifact -> Record \cup {NoRecord}]
         /\ phase' \in [Process -> Phases] /\ asked' \in [Process -> BOOLEAN]
         /\ cand' \in [Process -> SUBSET Artifact]
         /\ claim' \in [Process -> Artifact \cup {NoArtifact}]
         /\ doc' \in [Process -> Document] /\ ctl' \in [Process -> Controller]
         /\ reported' \in [Process -> BOOLEAN]
         /\ last' \in Version /\ seen' \in [Version -> SUBSET Version]
         /\ failed' \subseteq Version
         /\ phase'[p] = "off" /\ ctl'[p].art = NoArtifact
         /\ \A q \in Process \ {p} : /\ ctl'[q] = ctl[q] /\ phase'[q] = phase[q]
                                     /\ claim'[q] = claim[q]
  <1>1. "off" \in Phases BY DEF Phases
  <1>2. Untitled \in Document /\ Idle \in Controller /\ Idle.art = NoArtifact
    BY NewIsDocument, IdleIsController
  <1>3. ctl' = [ctl EXCEPT ![p] = Idle] /\ ctl \in [Process -> Controller]
    BY DEF Gone, IInv, TypeOK
  <1>4. /\ ctl' \in [Process -> Controller] /\ ctl'[p].art = NoArtifact
        /\ \A q \in Process \ {p} : ctl'[q] = ctl[q]
    BY <1>2, <1>3
  <1> QED BY <1>1, <1>2, <1>4 DEF Gone, IInv, TypeOK

LEMMA ExitKeeps ==
  ASSUME IInv, NEW p \in Process, Exit(p)
  PROVE  IInv'
  <1>1. Gone(p) /\ UNCHANGED <<lock, jobs, crashes, left>> /\ jobs[p] = <<>> BY DEF Exit
  <1>2. TypeOK' BY <1>1, GoneIsOff DEF IInv, TypeOK
  <1>3. Frame(p) BY <1>1, GoneIsOff DEF Frame, Gone
  <1>4. NothingHeld(p) BY <1>1, GoneIsOff DEF NothingHeld
  <1>5. StraysAreLeft' BY <1>1 DEF IInv, StraysAreLeft, Exists, Gone
  <1> QED BY <1>2, <1>3, <1>4, <1>5, NothingHeldOwns, StepKeeps

LEMMA CrashKeeps ==
  ASSUME IInv, NEW p \in Process, Crash(p)
  PROVE  IInv'
  <1>1. Gone(p) /\ crashes' = crashes + 1 BY DEF Crash
  <1>2. /\ jobs' \in [Process -> Seq(Job)] /\ jobs'[p] = <<>>
        /\ \A q \in Process \ {p} : jobs'[q] = jobs[q]
    <2>1. <<>> \in Seq(Job) OBVIOUS
    <2> QED BY <2>1 DEF Crash, IInv, TypeOK
  <1>3. /\ lock' \in Locks /\ left' \subseteq Artifact /\ left \subseteq left'
        /\ \A a \in Artifact : /\ lock'[a] # lock[a] => lock[a] = p
                               /\ lock'[a] = Nobody => lock[a] = Nobody \/ a \in left'
    BY DEF Crash, IInv, TypeOK, Locks
  <1>4. TypeOK'
    <2>1. crashes' \in Nat BY <1>1 DEF IInv, TypeOK
    <2> QED BY <1>1, <1>2, <1>3, <2>1, GoneIsOff DEF TypeOK, Locks
  <1>5. Frame(p) BY <1>1, <1>2, <1>3, GoneIsOff DEF Frame, Gone
  <1>6. NothingHeld(p) BY <1>1, <1>2, GoneIsOff DEF NothingHeld
  <1>7. StraysAreLeft' BY <1>1, <1>3 DEF IInv, StraysAreLeft, Exists, Gone
  <1> QED BY <1>4, <1>5, <1>6, <1>7, NothingHeldOwns, StepKeeps

-----------------------------------------------------------------------------
(* Startup: the process holds at most the name it claims.                  *)

OthersStay(p) ==
  \A q \in Process \ {p} : phase'[q] = phase[q] /\ claim'[q] = claim[q]

LEMMA StartupKeeps ==
  ASSUME IInv, NEW p \in Process, phase[p] \in NotStarted, OthersStay(p), TypeOK',
         UNCHANGED <<artifact, ctl, jobs, left>>,
         \A a \in Artifact : lock'[a] # lock[a] => lock[a] \in {p, Nobody},
         ClaimsWith(p, phase'[p], claim'[p], artifact, lock', left),
         \A a \in Artifact : lock'[a] = Nobody /\ artifact[a] # NoRecord => a \in left
  PROVE  IInv'
  <1>1. ctl[p].art = NoArtifact /\ jobs[p] = <<>> BY DEF IInv, Own
  <1>2. Frame(p) BY DEF Frame, OthersStay
  <1>3. Own(p)' BY <1>1 DEF Own, HoldsWith, EmptiedWith
  <1>4. StraysAreLeft' BY DEF StraysAreLeft, Exists
  <1> QED BY <1>2, <1>3, <1>4, StepKeeps

LEMMA OneReleased ==
  ASSUME IInv, NEW p \in Process, claim[p] \in Artifact, Released(p)
  PROVE  /\ lock' \in Locks /\ lock'[claim[p]] = Nobody
         /\ \A a \in Artifact \ {claim[p]} : lock'[a] = lock[a]
         /\ claim' \in [Process -> Artifact \cup {NoArtifact}] /\ claim'[p] = NoArtifact
         /\ \A q \in Process \ {p} : claim'[q] = claim[q]
  BY DEF Released, IInv, TypeOK, Locks

LEMMA StartKeeps ==
  ASSUME IInv, NEW p \in Process, Start(p)
  PROVE  IInv'
  <1>1. /\ phase' \in [Process -> Phases] /\ phase'[p] = "looking"
        /\ \A q \in Process \ {p} : phase'[q] = phase[q]
    BY DEF Start, IInv, TypeOK, Phases
  <1>2. asked' \in [Process -> BOOLEAN] /\ cand' \in [Process -> SUBSET Artifact]
    BY DEF Start, IInv, TypeOK
  <1>3. TypeOK' BY <1>1, <1>2 DEF Start, StartupUnchanged, IInv, TypeOK, observers
  <1>4. OthersStay(p) BY <1>1 DEF OthersStay, Start
  <1> QED BY <1>1, <1>3, <1>4, StartupKeeps
          DEF Start, StartupUnchanged, ClaimsWith, NotStarted, IInv, StraysAreLeft, Exists

LEMMA LookKeeps ==
  ASSUME IInv, NEW p \in Process, Look(p)
  PROVE  IInv'
  <1>1. PICK a \in cand[p] :
          \/ phase' = [phase EXCEPT ![p] = "locking"] /\ claim' = [claim EXCEPT ![p] = a]
          \/ UNCHANGED <<phase, claim>>
    BY DEF Look
  <1>2. phase[p] = "looking" /\ a \in Artifact BY DEF Look, IInv, TypeOK
  <1>3. /\ phase' \in [Process -> Phases] /\ claim' \in [Process -> Artifact \cup {NoArtifact}]
        /\ (phase'[p] = "locking" /\ claim'[p] \in Artifact) \/ phase'[p] = "looking"
        /\ OthersStay(p)
    <2>1. /\ phase \in [Process -> Phases] /\ claim \in [Process -> Artifact \cup {NoArtifact}]
          /\ "locking" \in Phases /\ a \in Artifact \cup {NoArtifact}
      BY <1>2 DEF IInv, TypeOK, Phases
    <2>2. CASE phase' = [phase EXCEPT ![p] = "locking"] /\ claim' = [claim EXCEPT ![p] = a]
      BY <1>2, <2>1, <2>2 DEF OthersStay
    <2>3. CASE UNCHANGED <<phase, claim>>
      BY <1>2, <2>1, <2>3 DEF OthersStay
    <2> QED BY <1>1, <2>2, <2>3
  <1>4. cand' \in [Process -> SUBSET Artifact] BY DEF Look, IInv, TypeOK
  <1>5. TypeOK' BY <1>3, <1>4 DEF Look, StartupUnchanged, IInv, TypeOK, observers
  <1> QED BY <1>2, <1>3, <1>5, StartupKeeps
          DEF Look, StartupUnchanged, ClaimsWith, NotStarted, IInv, StraysAreLeft, Exists

LEMMA ClaimKeeps ==
  ASSUME IInv, NEW p \in Process, Claim(p)
  PROVE  IInv'
  <1>1. Own(p) /\ phase[p] = "locking" BY DEF IInv, Claim
  <1>2. claim[p] \in Artifact BY <1>1 DEF Own, ClaimsWith
  <1>3. CASE /\ lock[claim[p]] = Nobody
             /\ lock' = [lock EXCEPT ![claim[p]] = p]
             /\ phase' = [phase EXCEPT ![p] = "reading"] /\ UNCHANGED claim
    <2>1. /\ lock' \in Locks /\ lock'[claim[p]] = p
          /\ \A a \in Artifact \ {claim[p]} : lock'[a] = lock[a]
      BY <1>2, <1>3 DEF IInv, TypeOK, Locks
    <2>2. phase' \in [Process -> Phases] /\ phase'[p] = "reading" /\ OthersStay(p)
      BY <1>3 DEF IInv, TypeOK, Phases, OthersStay
    <2>3. TypeOK' BY <1>3, <2>1, <2>2 DEF Claim, StartupUnchanged, IInv, TypeOK, Locks, observers
    <2>4. ClaimsWith(p, phase'[p], claim'[p], artifact, lock', left)
      BY <1>2, <1>3, <2>1, <2>2 DEF ClaimsWith, IInv, StraysAreLeft, Exists
    <2>5. \A a \in Artifact : lock'[a] = Nobody /\ artifact[a] # NoRecord => a \in left
      BY <2>1, NoSuchNames DEF IInv, StraysAreLeft, Exists
    <2> QED BY <1>1, <1>3, <2>1, <2>2, <2>3, <2>4, <2>5, StartupKeeps
            DEF Claim, StartupUnchanged, NotStarted
  <1>4. CASE /\ phase' = [phase EXCEPT ![p] = "looking"]
             /\ claim' = [claim EXCEPT ![p] = NoArtifact] /\ UNCHANGED lock
    <2>1. /\ phase' \in [Process -> Phases] /\ phase'[p] = "looking" /\ OthersStay(p)
          /\ claim' \in [Process -> Artifact \cup {NoArtifact}]
      BY <1>4 DEF IInv, TypeOK, Phases, OthersStay
    <2>2. TypeOK' BY <1>4, <2>1 DEF Claim, StartupUnchanged, IInv, TypeOK, observers
    <2> QED BY <1>1, <1>4, <2>1, <2>2, StartupKeeps
            DEF Claim, StartupUnchanged, ClaimsWith, NotStarted, IInv, StraysAreLeft, Exists
  <1> QED BY <1>3, <1>4 DEF Claim

LEMMA RereadKeeps ==
  ASSUME IInv, NEW p \in Process, Reread(p)
  PROVE  IInv'
  <1>1. Own(p) /\ phase[p] = "reading" BY DEF IInv, Reread
  <1>2. /\ claim[p] \in Artifact /\ lock[claim[p]] = p
        /\ artifact[claim[p]] # NoRecord => claim[p] \in left
    BY <1>1 DEF Own, ClaimsWith
  <1>3. CASE Exists(claim[p]) /\ phase' = [phase EXCEPT ![p] = "offered"] /\ UNCHANGED <<lock, claim>>
    <2>1. phase' \in [Process -> Phases] /\ phase'[p] = "offered" /\ OthersStay(p)
      BY <1>3 DEF IInv, TypeOK, Phases, OthersStay
    <2>2. TypeOK' BY <1>3, <2>1 DEF Reread, StartupUnchanged, IInv, TypeOK, observers
    <2> QED BY <1>1, <1>2, <1>3, <2>1, <2>2, StartupKeeps
            DEF Reread, StartupUnchanged, ClaimsWith, NotStarted, IInv, StraysAreLeft, Exists
  <1>4. CASE phase' = [phase EXCEPT ![p] = "looking"] /\ Released(p)
    <2>1. phase' \in [Process -> Phases] /\ phase'[p] = "looking" /\ OthersStay(p)
      BY <1>2, <1>4, OneReleased DEF IInv, TypeOK, Phases, OthersStay
    <2>2. TypeOK' BY <1>2, <1>4, <2>1, OneReleased
                  DEF Reread, StartupUnchanged, IInv, TypeOK, Locks, observers
    <2>3. \A a \in Artifact : lock'[a] = Nobody /\ artifact[a] # NoRecord => a \in left
      BY <1>2, <1>4, OneReleased DEF IInv, StraysAreLeft, Exists
    <2>4. \A a \in Artifact : lock'[a] # lock[a] => lock[a] \in {p, Nobody}
      BY <1>2, <1>4, OneReleased
    <2> QED BY <1>1, <2>1, <2>2, <2>3, <2>4, StartupKeeps
            DEF Reread, StartupUnchanged, ClaimsWith, NotStarted
  <1> QED BY <1>3, <1>4 DEF Reread

(* The process gets its first document.                                    *)
LEMMA BeginsRunning ==
  ASSUME IInv, NEW p \in Process, NEW d \in Document, BeginsOn(p, d)
  PROVE  /\ phase' \in [Process -> Phases] /\ phase'[p] = "running"
         /\ doc' \in [Process -> Document]
         /\ cand' \in [Process -> SUBSET Artifact] /\ asked' \in [Process -> BOOLEAN]
         /\ \A q \in Process \ {p} : phase'[q] = phase[q]
  BY DEF BeginsOn, IInv, TypeOK, Phases

LEMMA FirstIsDocument ==
  ASSUME IInv, NEW p \in Process
  PROVE  First(p) \in Document
  BY NewIsDocument DEF First, IInv, TypeOK

LEMMA OfferedIsHeld ==
  ASSUME IInv, NEW p \in Process, phase[p] = "offered"
  PROVE  /\ claim[p] \in Artifact /\ lock[claim[p]] = p /\ claim[p] \in left
         /\ artifact[claim[p]] \in Record
         /\ ctl[p].art = NoArtifact /\ jobs[p] = <<>>
  <1>1. Own(p) BY DEF IInv
  <1>2. claim[p] \in Artifact /\ artifact[claim[p]] # NoRecord
    BY <1>1 DEF Own, ClaimsWith
  <1> QED BY <1>1, <1>2 DEF Own, ClaimsWith, NotStarted, IInv, TypeOK

LEMMA NothingOfferedKeeps ==
  ASSUME IInv, NEW p \in Process, NothingOffered(p)
  PROVE  IInv'
  <1>1. Own(p) /\ phase[p] \in NotStarted BY DEF IInv, NothingOffered, NotStarted
  <1>2. /\ phase' \in [Process -> Phases] /\ phase'[p] = "running"
        /\ doc' \in [Process -> Document]
        /\ cand' \in [Process -> SUBSET Artifact] /\ asked' \in [Process -> BOOLEAN]
        /\ \A q \in Process \ {p} : phase'[q] = phase[q]
    BY FirstIsDocument, BeginsRunning DEF NothingOffered
  <1>3. TypeOK' BY <1>2 DEF NothingOffered, StartupUnchanged, observers, IInv, TypeOK
  <1>4. OthersStay(p) BY <1>2 DEF OthersStay, NothingOffered
  <1> QED BY <1>1, <1>2, <1>3, <1>4, StartupKeeps
          DEF NothingOffered, StartupUnchanged, ClaimsWith, IInv, StraysAreLeft, Exists

LEMMA StartWithoutKeeps ==
  ASSUME IInv, NEW p \in Process, StartWithout(p)
  PROVE  IInv'
  <1>1. /\ claim[p] \in Artifact /\ lock[claim[p]] = p /\ claim[p] \in left
        /\ phase[p] \in NotStarted
    BY OfferedIsHeld DEF StartWithout, NotStarted
  <1>2. /\ phase' \in [Process -> Phases] /\ phase'[p] = "running"
        /\ doc' \in [Process -> Document]
        /\ cand' \in [Process -> SUBSET Artifact] /\ asked' \in [Process -> BOOLEAN]
        /\ \A q \in Process \ {p} : phase'[q] = phase[q]
    BY FirstIsDocument, BeginsRunning DEF StartWithout
  <1>3. /\ lock' \in Locks /\ lock'[claim[p]] = Nobody
        /\ \A a \in Artifact \ {claim[p]} : lock'[a] = lock[a]
        /\ claim' \in [Process -> Artifact \cup {NoArtifact}]
        /\ \A q \in Process \ {p} : claim'[q] = claim[q]
    BY <1>1, OneReleased DEF StartWithout
  <1>4. TypeOK' BY <1>2, <1>3 DEF StartWithout, StartupUnchanged, observers, IInv, TypeOK, Locks
  <1>5. OthersStay(p) BY <1>2, <1>3 DEF OthersStay
  <1>6. \A a \in Artifact : lock'[a] = Nobody /\ artifact[a] # NoRecord => a \in left
    BY <1>1, <1>3 DEF IInv, StraysAreLeft, Exists
  <1>7. \A a \in Artifact : lock'[a] # lock[a] => lock[a] \in {p, Nobody} BY <1>1, <1>3
  <1> QED BY <1>1, <1>2, <1>4, <1>5, <1>6, <1>7, StartupKeeps
          DEF StartWithout, StartupUnchanged, ClaimsWith

LEMMA DiscardKeeps ==
  ASSUME IInv, NEW p \in Process, Discard(p)
  PROVE  IInv'
  <1>1. /\ claim[p] \in Artifact /\ lock[claim[p]] = p /\ claim[p] \in left
        /\ ctl[p].art = NoArtifact /\ jobs[p] = <<>>
    BY OfferedIsHeld DEF Discard
  <1>2. /\ phase' \in [Process -> Phases] /\ phase'[p] = "running"
        /\ doc' \in [Process -> Document]
        /\ cand' \in [Process -> SUBSET Artifact] /\ asked' \in [Process -> BOOLEAN]
        /\ \A q \in Process \ {p} : phase'[q] = phase[q]
    BY FirstIsDocument, BeginsRunning DEF Discard
  <1>3. /\ lock' \in Locks /\ lock'[claim[p]] = Nobody
        /\ \A a \in Artifact \ {claim[p]} : lock'[a] = lock[a]
        /\ claim' \in [Process -> Artifact \cup {NoArtifact}]
        /\ \A q \in Process \ {p} : claim'[q] = claim[q]
    BY <1>1, OneReleased DEF Discard
  <1>4. /\ artifact' \in [Artifact -> Record \cup {NoRecord}]
        /\ \A a \in Artifact \ {claim[p]} : artifact'[a] = artifact[a]
    BY <1>1 DEF Discard, IInv, TypeOK
  <1>5. UNCHANGED <<file, left, ctl, jobs, reported, observers, failed>> BY DEF Discard
  <1>6. TypeOK' BY <1>2, <1>3, <1>4, <1>5 DEF observers, IInv, TypeOK, Locks
  <1>7. Frame(p) BY <1>1, <1>2, <1>3, <1>4, <1>5 DEF Frame
  <1>8. NothingHeld(p) BY <1>1, <1>2, <1>5 DEF NothingHeld
  <1>9. StraysAreLeft' BY <1>1, <1>3, <1>4, <1>5 DEF IInv, StraysAreLeft, Exists
  <1> QED BY <1>6, <1>7, <1>8, <1>9, NothingHeldOwns, StepKeeps

LEMMA RecoveredIsDocument ==
  ASSUME IInv, NEW rec \in Record
  PROVE  Recovered(rec) \in Document
  <1>1. rec.text \in Version /\ rec.base \in Version \cup {NoBase} BY Zenon DEF Record
  <1>2. (IF BaselineMatches(rec) THEN rec.base ELSE NoBase) \in Version \cup {NoBase} BY <1>1
  <1> QED BY <1>1, <1>2, Zenon DEF Recovered, Document

LEMMA RecoverKeeps ==
  ASSUME IInv, NEW p \in Process, Recover(p)
  PROVE  IInv'
  <1> DEFINE d == Recovered(artifact[claim[p]])
             c == [Idle EXCEPT !.art = claim[p], !.key = KeyOf(d)]
  <1>1. /\ claim[p] \in Artifact /\ lock[claim[p]] = p
        /\ artifact[claim[p]] \in Record /\ jobs[p] = <<>>
    BY OfferedIsHeld DEF Recover
  <1>2. d \in Document BY <1>1, RecoveredIsDocument
  <1>3. c \in Controller /\ c.art = claim[p]
    <2>1. KeyOf(d) \in Version \cup {NoBase} BY <1>2, Zenon DEF KeyOf, Document
    <2>2. ASSUME NEW k \in Version \cup {NoBase}
          PROVE  /\ [Idle EXCEPT !.art = claim[p], !.key = k] \in Controller
                 /\ [Idle EXCEPT !.art = claim[p], !.key = k].art = claim[p]
      BY <1>1, IdleIsController, NamedIsController
    <2> HIDE DEF d
    <2> QED BY <2>1, <2>2, Zenon
  <1>4. BeginsOn(p, d) /\ ctl' = [ctl EXCEPT ![p] = c]
    BY DEF Recover
  <1> HIDE DEF d, c
  <1>5. /\ phase' \in [Process -> Phases] /\ phase'[p] = "running"
        /\ doc' \in [Process -> Document]
        /\ cand' \in [Process -> SUBSET Artifact] /\ asked' \in [Process -> BOOLEAN]
        /\ \A q \in Process \ {p} : phase'[q] = phase[q]
    BY <1>2, <1>4, BeginsRunning
  <1>6. /\ ctl' \in [Process -> Controller] /\ ctl'[p] = c
        /\ \A q \in Process \ {p} : ctl'[q] = ctl[q]
    BY <1>3, <1>4 DEF IInv, TypeOK
  <1>7. /\ claim' \in [Process -> Artifact \cup {NoArtifact}]
        /\ \A q \in Process \ {p} : claim'[q] = claim[q]
        /\ left' = left \ {claim[p]}
        /\ UNCHANGED <<file, artifact, lock, jobs, reported, observers, failed>>
    BY DEF Recover, IInv, TypeOK
  <1>8. TypeOK' BY <1>5, <1>6, <1>7 DEF observers, IInv, TypeOK
  <1>9. Frame(p) BY <1>1, <1>5, <1>6, <1>7 DEF Frame
  <1>10. Own(p)'
    BY <1>1, <1>3, <1>5, <1>6, <1>7
       DEF Own, HoldsWith, EmptiedWith, ClaimsWith, NotStarted
  <1>11. StraysAreLeft' BY <1>1, <1>7, NoSuchNames DEF IInv, StraysAreLeft, Exists
  <1> QED BY <1>8, <1>9, <1>10, <1>11, StepKeeps

-----------------------------------------------------------------------------
(* The invariant.                                                          *)

LEMMA InitHolds == Init => IInv
  <1> SUFFICES ASSUME Init PROVE IInv OBVIOUS
  <1>1. 0 \in Version /\ 0 \in Nat BY BoundsAreNat DEF Version
  <1>2. Untitled \in Document /\ Idle \in Controller /\ Idle.art = NoArtifact
    BY NewIsDocument, IdleIsController
  <1>3. ctl \in [Process -> Controller] /\ \A p \in Process : ctl[p].art = NoArtifact
    BY <1>2 DEF Init
  <1>4. jobs \in [Process -> Seq(Job)] /\ \A p \in Process : jobs[p] = <<>>
    <2>1. <<>> \in Seq(Job) OBVIOUS
    <2> QED BY <2>1 DEF Init
  <1>5. TypeOK BY <1>1, <1>2, <1>3, <1>4 DEF Init, TypeOK, Phases
  <1>6. ASSUME NEW p \in Process PROVE Own(p)
    <2>1. phase[p] = "off" /\ ctl[p].art = NoArtifact /\ jobs[p] = <<>> BY <1>3, <1>4 DEF Init
    <2> QED BY <2>1 DEF Own, HoldsWith, EmptiedWith, ClaimsWith
  <1>7. StraysAreLeft BY DEF Init, StraysAreLeft, Exists
  <1> QED BY <1>5, <1>6, <1>7 DEF IInv

LEMMA StepHolds == IInv /\ [Next]_vars => IInv'
  <1> SUFFICES ASSUME IInv, [Next]_vars PROVE IInv' OBVIOUS
  <1>1. CASE UNCHANGED vars
    <2>1. TypeOK' BY <1>1 DEF IInv, TypeOK, vars, startup, observers
    <2>2. \A p \in Process : Own(p)'
      BY <1>1 DEF IInv, Own, HoldsWith, EmptiedWith, ClaimsWith, vars, startup, observers
    <2>3. StraysAreLeft' BY <1>1 DEF IInv, StraysAreLeft, Exists, vars
    <2> QED BY <2>1, <2>2, <2>3 DEF IInv
  <1>2. ASSUME NEW p \in Process, User(p) PROVE IInv'
    BY <1>2, EditKeeps, UndoToSavedKeeps, ReplaceKeeps, CommitKeeps, QuitKeeps DEF User
  <1>3. ASSUME NEW p \in Process, Worker(p) PROVE IInv'
    BY <1>3, StageKeeps, PublishKeeps, RemoveOldKeeps, ReleaseOldKeeps DEF Worker
  <1>4. ASSUME NEW p \in Process, StartupStep(p) PROVE IInv'
    BY <1>4, LookKeeps, ClaimKeeps, RereadKeeps, NothingOfferedKeeps DEF StartupStep
  <1> QED
    BY <1>1, <1>2, <1>3, <1>4, SaveNotifiedKeeps, CaptureKeeps, CompletedKeeps, ExitKeeps,
       CrashKeeps, StartKeeps, StartWithoutKeeps, DiscardKeeps, RecoverKeeps DEF Next

LEMMA InvariantHolds == Spec => []IInv
  BY InitHolds, StepHolds, PTL DEF Spec

-----------------------------------------------------------------------------

(* Every variable of the recovery model keeps its type.                    *)
THEOREM TypeCorrect == Spec => []TypeOK
  <1>1. IInv => TypeOK BY DEF IInv
  <1> QED BY <1>1, InvariantHolds, PTL

(* The controller that writes an artifact, the startup that offers it and  *)
(* the worker that removes it hold its lock, so they are of one process.   *)
THEOREM Exclusion == Spec => []UsersHoldTheLock
  <1>1. IInv => UsersHoldTheLock
    BY DEF IInv, Own, HoldsWith, ClaimsWith, Removing, UsersHoldTheLock
  <1> QED BY <1>1, InvariantHolds, PTL

(* What a start can find was left by a crash or by a removal that failed.  *)
THEOREM StraysLeft == Spec => []StraysAreLeft
  <1>1. IInv => StraysAreLeft BY DEF IInv
  <1> QED BY <1>1, InvariantHolds, PTL

WritesOnly(p, a) ==
  /\ lock[a] = p /\ Acts(p)
  /\ artifact'[a] # NoRecord => ctl[p].art = a

LEMMA PublishWrites ==
  ASSUME IInv, NEW p \in Process, Publish(p), NEW a \in Artifact, artifact'[a] # artifact[a]
  PROVE  WritesOnly(p, a)
  <1> DEFINE job == Head(jobs[p])
  <1>1. jobs[p] # <<>> /\ job.kind = "staged" /\ Done(p) BY DEF Publish
  <1>2. \/ artifact' = artifact
        \/ IsCurrent(p, job) /\ artifact' = [artifact EXCEPT ![job.art] = job.rec]
    BY Zenon DEF Publish
  <1>3. job.art \in Artifact BY <1>1, WorkerRuns
  <1> HIDE DEF job
  <1>4. ctl[p].art = job.art /\ a = job.art BY <1>2, <1>3 DEF IsCurrent, IInv, TypeOK
  <1>5. lock[a] = p BY <1>3, <1>4, NoSuchNames DEF IInv, Own, HoldsWith
  <1>6. jobs'[p] # jobs[p]
    <2>1. DOMAIN jobs'[p] = 1 .. Len(jobs[p]) - 1 BY <1>1, DoneTakesHead
    <2>2. DOMAIN jobs[p] = 1 .. Len(jobs[p]) /\ Len(jobs[p]) \in Nat \ {0}
      BY <1>1, WorkerRuns, NamesOfJobs DEF IInv
    <2> QED BY <2>1, <2>2
  <1> QED BY <1>4, <1>5, <1>6 DEF WritesOnly, Acts

LEMMA RemoveOldWrites ==
  ASSUME IInv, NEW p \in Process, RemoveOld(p), NEW a \in Artifact, artifact'[a] # artifact[a]
  PROVE  WritesOnly(p, a)
  <1> DEFINE old == Head(jobs[p]).art
  <1>1. jobs[p] # <<>> /\ Head(jobs[p]).kind = "cleanup" BY DEF RemoveOld
  <1>2. /\ old \in Artifact /\ Head(jobs[p]) = jobs[p][1] /\ 1 \in DOMAIN jobs[p]
        /\ jobs[p][1] \in Job
    BY <1>1, WorkerRuns
  <1>3. artifact' = artifact \/ artifact' = [artifact EXCEPT ![old] = NoRecord]
    BY DEF RemoveOld
  <1>4. a = old /\ artifact'[a] = NoRecord BY <1>2, <1>3 DEF IInv, TypeOK
  <1>5. lock[old] = p BY <1>1, <1>2 DEF IInv, Own, HoldsWith, Removing
  <1>6. jobs'[p] # jobs[p]
    <2> DEFINE job == [jobs[p][1] EXCEPT !.kind = "release"]
    <2>1. jobs' = [jobs EXCEPT ![p] = [jobs[p] EXCEPT ![1] = job]] BY Zenon DEF RemoveOld
    <2>2. job.kind = "release" BY <1>1, <1>2, ReleaseIsJob
    <2> HIDE DEF job
    <2>3. jobs'[p][1] = job BY <1>2, <2>1 DEF IInv, TypeOK
    <2> QED BY <1>1, <1>2, <2>2, <2>3
  <1> QED BY <1>4, <1>5, <1>6 DEF WritesOnly, Acts

LEMMA DiscardWrites ==
  ASSUME IInv, NEW p \in Process, Discard(p), NEW a \in Artifact, artifact'[a] # artifact[a]
  PROVE  WritesOnly(p, a)
  <1>1. claim[p] \in Artifact /\ lock[claim[p]] = p BY OfferedIsHeld DEF Discard
  <1>2. artifact' = artifact \/ artifact' = [artifact EXCEPT ![claim[p]] = NoRecord]
    BY DEF Discard
  <1>3. a = claim[p] /\ artifact'[a] = NoRecord BY <1>1, <1>2 DEF IInv, TypeOK
  <1>4. phase[p] # phase'[p] BY DEF Discard, BeginsOn, IInv, TypeOK
  <1> QED BY <1>1, <1>3, <1>4 DEF WritesOnly, Acts

(* An artifact is changed only by the process that holds its lock, and     *)
(* written only for the document of that process: no late write gets past  *)
(* the publication lock.                                                   *)
THEOREM WritesByHolder == Spec => HolderWrites
  <1> DEFINE Written == \A a \in Artifact : artifact'[a] # artifact[a] =>
                          \E p \in Process : /\ lock[a] = p /\ Acts(p)
                                             /\ artifact'[a] # NoRecord => ctl[p].art = a
  <1>1. IInv /\ [Next]_vars => [Written]_vars
    <2> SUFFICES ASSUME IInv, Next, NEW a \in Artifact, artifact'[a] # artifact[a]
                 PROVE  \E p \in Process : WritesOnly(p, a)
      BY DEF WritesOnly
    <2>1. PICK p \in Process : Publish(p) \/ RemoveOld(p) \/ Discard(p)
      <3>1. PICK p \in Process :
              \/ User(p) \/ SaveNotified(p) \/ Capture(p) \/ Completed(p) \/ Worker(p)
              \/ Exit(p) \/ Crash(p)
              \/ Start(p) \/ StartupStep(p) \/ StartWithout(p) \/ Discard(p) \/ Recover(p)
        BY DEF Next
      <3>2. ~User(p) /\ ~SaveNotified(p)
        BY DEF User, Edit, UndoToSaved, Replace, Commit, Quit, SaveNotified, Unchanged
      <3>3. ~Capture(p) /\ ~Completed(p) /\ ~Exit(p) /\ ~Crash(p)
        BY DEF Capture, Completed, Exit, Crash, Gone
      <3>4. ~Start(p) /\ ~StartupStep(p) /\ ~StartWithout(p) /\ ~Recover(p)
        BY DEF Start, StartupStep, Look, Claim, Reread, NothingOffered, StartWithout, Recover,
               StartupUnchanged
      <3> QED BY <3>1, <3>2, <3>3, <3>4 DEF Worker, Stage, ReleaseOld
    <2> QED BY <2>1, PublishWrites, RemoveOldWrites, DiscardWrites
  <1> QED BY <1>1, InvariantHolds, PTL DEF Spec, HolderWrites

-----------------------------------------------------------------------------
(* What a text was derived from.  Records and documents carry the version  *)
(* their text is based on; wherever they go, into the queue, an artifact   *)
(* and after a crash into another process, the author of the text had that *)
(* version in view.                                                        *)

InView(r) == r.base # NoBase => r.base \in seen[r.text] \cup {r.text}

DocumentOK(d) ==
  InView(d) /\ (d.base # NoBase /\ d.saved # Unreachable => d.saved = d.base)

RecordsOf(js) == {js[i].rec : i \in DOMAIN js}

InViewOK ==
  /\ \A p \in Process : DocumentOK(doc[p])
  /\ \A a \in Artifact : InView(artifact[a])
  /\ \A p \in Process : \A r \in RecordsOf(jobs[p]) : InView(r)
  /\ \A v \in Version : v > last => seen[v] = {}

(* Versions are handed out once, so what was in view stays so.             *)
SeenGrows ==
  /\ \A v \in Version : seen[v] \subseteq seen'[v]
  /\ \A v \in Version : v > last' => seen'[v] = {}

LEMMA TextOf ==
  /\ \A r \in Record \cup {NoRecord} : r.base # NoBase => r.text \in Version
  /\ \A d \in Document : d.text \in Version /\ d.saved \in Version \cup {Unreachable}
                           /\ d.base \in Version \cup {NoBase}
<1>1. NoRecord.base = NoBase
  BY DEF NoRecord
<1> QED
  BY <1>1, Zenon DEF Record, Document

LEMMA InViewStays ==
  ASSUME SeenGrows, NEW r, r.base # NoBase => r.text \in Version, InView(r)
  PROVE  InView(r)'
  BY DEF InView, SeenGrows

LEMMA RecordsAreRecords ==
  ASSUME TypeOK, NEW p \in Process
  PROVE  RecordsOf(jobs[p]) \subseteq Record \cup {NoRecord}
  BY NamesOfJobs, JobFields DEF RecordsOf

(* What a step of p has to show: that of what it changed.                  *)
LEMMA InViewKept ==
  ASSUME IInv, InViewOK, NEW p \in Process, SeenGrows,
         \A q \in Process \ {p} : doc'[q] = doc[q] /\ jobs'[q] = jobs[q],
         DocumentOK(doc[p])',
         \A a \in Artifact : artifact'[a] = artifact[a] \/ InView(artifact[a])',
         \A r \in RecordsOf(jobs'[p]) : r \in RecordsOf(jobs[p]) \/ InView(r)'
  PROVE  InViewOK'
<1>1. /\ \A q \in Process : doc[q] \in Document
      /\ \A a \in Artifact : artifact[a] \in Record \cup {NoRecord}
  BY DEF IInv, TypeOK
<1>2. \A q \in Process : DocumentOK(doc[q])'
  <2> SUFFICES ASSUME NEW q \in Process, q # p
               PROVE  DocumentOK(doc[q])'
    OBVIOUS
  <2>1. doc'[q] = doc[q] /\ doc[q] \in Document /\ DocumentOK(doc[q])
    BY <1>1 DEF InViewOK
  <2>2. doc[q].base # NoBase => doc[q].text \in Version
    BY <2>1, TextOf
  <2> DEFINE d == doc[q]
  <2>3. doc'[q] = d /\ InView(d) /\ (d.base # NoBase /\ d.saved # Unreachable => d.saved = d.base)
    BY <2>1 DEF DocumentOK
  <2>4. doc'[q].base # NoBase => doc'[q].base \in seen'[doc'[q].text] \cup {doc'[q].text}
    BY <2>2, <2>3 DEF InView, SeenGrows
  <2> QED
    BY <2>3, <2>4 DEF DocumentOK, InView
<1>3. \A a \in Artifact : InView(artifact[a])'
  <2> SUFFICES ASSUME NEW a \in Artifact, artifact'[a] = artifact[a]
               PROVE  InView(artifact[a])'
    OBVIOUS
  <2>1. InView(artifact[a])
    BY DEF InViewOK
  <2>2. artifact[a].base # NoBase => artifact[a].text \in Version
    BY <1>1, TextOf
  <2> QED
    BY <2>1, <2>2 DEF InView, SeenGrows
<1>4. \A q \in Process : \A r \in RecordsOf(jobs'[q]) : InView(r)'
  <2> SUFFICES ASSUME NEW q \in Process, NEW r \in RecordsOf(jobs'[q])
               PROVE  InView(r)'
    OBVIOUS
  <2>1. CASE r \in RecordsOf(jobs[q])
    <3>1. InView(r)
      BY <2>1, Zenon DEF InViewOK
    <3>2. r \in Record \cup {NoRecord}
      BY <2>1, RecordsAreRecords DEF IInv
    <3>3. r.base # NoBase => r.text \in Version
      BY <3>2, TextOf, Zenon
    <3> QED
      BY <3>1, <3>3, InViewStays
  <2>2. CASE r \notin RecordsOf(jobs[q])
    <3>1. q = p
      BY <2>2, Zenon
    <3> QED
      BY <2>2, <3>1, Zenon
  <2> QED
    BY <2>1, <2>2
<1>5. \A q \in Process : RecordsOf(jobs[q])' = RecordsOf(jobs'[q])
  BY DEF RecordsOf
<1> QED
  BY <1>2, <1>3, <1>4, <1>5 DEF InViewOK, SeenGrows

(* Where nothing is handed out.                                            *)
LEMMA SeenSame ==
  ASSUME InViewOK, UNCHANGED <<last, seen>>
  PROVE  SeenGrows
  BY DEF InViewOK, SeenGrows

LEMMA OpenedInView ==
  ASSUME NEW v \in Version
  PROVE  /\ Opened(v).base = v /\ Opened(v).saved = v /\ Opened(v).text = v
         /\ Untitled.base = NoBase
  BY DEF Opened, Untitled

LEMMA AppendedRecords ==
  ASSUME NEW js \in Seq(Job), NEW j
  PROVE  \A r \in RecordsOf(Append(js, j)) : r \in RecordsOf(js) \/ r = j.rec
<1> DEFINE ks == Append(js, j)
           S == Job \cup {j}
<1>0. js \in Seq(S) /\ j \in S
  <2>1. Job \subseteq S
    OBVIOUS
  <2> HIDE DEF S
  <2>2. js \in Seq(S)
    BY <2>1, SeqMonotonic
  <2> QED
    BY <2>2 DEF S
<1> HIDE DEF S
<1>1. /\ Len(js) \in Nat /\ DOMAIN js = 1 .. Len(js) /\ DOMAIN ks = 1 .. Len(js) + 1
      /\ \A i \in 1 .. Len(js) : ks[i] = js[i]
      /\ ks[Len(js) + 1] = j
  BY <1>0
<1> HIDE DEF ks
<1>2. \A i \in DOMAIN ks : (i \in DOMAIN js /\ ks[i] = js[i]) \/ ks[i] = j
  BY <1>1
<1>3. \A r \in RecordsOf(ks) : r \in RecordsOf(js) \/ r = j.rec
  BY <1>2, Zenon DEF RecordsOf
<1> QED
  BY <1>3 DEF ks

LEMMA QueueOfOutcome ==
  ASSUME NEW c, NEW js, NEW lk, NEW lf, NEW ok
  PROVE  Outcome(c, js, lk, lf, ok).jobs = js
  BY DEF Outcome

(* What becomes of the controller adds no record to the queue.             *)
LEMMA ControlAddsNoRecord ==
  ASSUME IInv, NEW p \in Process
  PROVE  /\ \A e \in Retired(p) :
              \A r \in RecordsOf(e.jobs) : r \in RecordsOf(jobs[p]) \/ r = NoRecord
         /\ \A d \in Document : \A e \in Ensured(p, d) :
              \A r \in RecordsOf(e.jobs) : r \in RecordsOf(jobs[p]) \/ r = NoRecord
<1> DEFINE a == ctl[p].art
<1>1. jobs[p] \in Seq(Job) /\ a \in Artifact \cup {NoArtifact}
  BY NamesOfJobs, NameOfController DEF IInv
<1>2. a # NoArtifact => Cleanup(a) \in Job /\ Cleanup(a).rec = NoRecord
  BY <1>1, JobsAreJobs DEF Cleanup
<1>3. ASSUME NEW e \in Retired(p)
      PROVE  \A r \in RecordsOf(e.jobs) : r \in RecordsOf(jobs[p]) \/ r = NoRecord
  <2>1. e.jobs = jobs[p] \/ (a # NoArtifact /\ e.jobs = Append(jobs[p], Cleanup(a)))
    <3>1. \/ e = Outcome(Ended(ctl[p]), jobs[p], lock, left, TRUE)
          \/ a # NoArtifact /\ e = Outcome(Ended(ctl[p]), Append(jobs[p], Cleanup(a)), lock, left, TRUE)
          \/ e = Outcome(Ended(ctl[p]), jobs[p], [lock EXCEPT ![a] = Nobody], left \cup {a}, TRUE)
      BY DEF Retired, Outcomes
    <3>2. ASSUME NEW c, NEW js, NEW lk, NEW lf, NEW ok, e = Outcome(c, js, lk, lf, ok)
          PROVE  e.jobs = js
      BY <3>2, QueueOfOutcome
    <3> HIDE DEF a
    <3>3. CASE e = Outcome(Ended(ctl[p]), jobs[p], lock, left, TRUE)
      BY <3>2, <3>3
    <3>4. CASE a # NoArtifact /\ e = Outcome(Ended(ctl[p]), Append(jobs[p], Cleanup(a)), lock, left, TRUE)
      BY <3>2, <3>4
    <3>5. CASE e = Outcome(Ended(ctl[p]), jobs[p], [lock EXCEPT ![a] = Nobody], left \cup {a}, TRUE)
      BY <3>2, <3>5
    <3> QED
      BY <3>1, <3>3, <3>4, <3>5
  <2> HIDE DEF a
  <2>2. CASE a # NoArtifact /\ e.jobs = Append(jobs[p], Cleanup(a))
    BY <1>1, <1>2, <2>2, AppendedRecords
  <2> QED
    BY <2>1, <2>2
<1>4. ASSUME NEW d \in Document, NEW e \in Ensured(p, d)
      PROVE  \A r \in RecordsOf(e.jobs) : r \in RecordsOf(jobs[p]) \/ r = NoRecord
  <2>1. e = Steady(p) \/ \E before \in Retired(p) : e \in Started(p, d, before)
    BY DEF Ensured
  <2>2. CASE e = Steady(p)
    BY <2>2 DEF Steady, Outcome
  <2>3. ASSUME NEW before \in Retired(p), e \in Started(p, d, before)
        PROVE  \A r \in RecordsOf(e.jobs) : r \in RecordsOf(jobs[p]) \/ r = NoRecord
    <3>1. e.jobs = before.jobs
      <4>1. \/ e = Outcome(before.ctl, before.jobs, before.lock, before.left, FALSE)
            \/ \E b \in Fresh :
                 e = Outcome([before.ctl EXCEPT !.art = b, !.key = KeyOf(d)], before.jobs,
                             [before.lock EXCEPT ![b] = p], before.left, TRUE)
        BY <2>3, Zenon DEF Started
      <4>2. ASSUME NEW c, NEW js, NEW lk, NEW lf, NEW ok, e = Outcome(c, js, lk, lf, ok)
            PROVE  e.jobs = js
        BY <4>2, QueueOfOutcome
      <4>3. CASE e = Outcome(before.ctl, before.jobs, before.lock, before.left, FALSE)
        BY <4>2, <4>3
      <4>4. CASE \E b \in Fresh :
                   e = Outcome([before.ctl EXCEPT !.art = b, !.key = KeyOf(d)], before.jobs,
                               [before.lock EXCEPT ![b] = p], before.left, TRUE)
        BY <4>2, <4>4
      <4> QED
        BY <4>1, <4>3, <4>4
    <3> QED
      BY <1>3, <3>1
  <2> QED
    BY <2>1, <2>2, <2>3
<1> QED
  BY <1>3, <1>4

(* Steps in which the controller hears of the document.                    *)
LEMMA ControlInView ==
  ASSUME IInv, InViewOK, NEW p \in Process, SeenGrows, UNCHANGED artifact,
         \A q \in Process \ {p} : doc'[q] = doc[q], DocumentOK(doc[p])',
         NEW e, NEW c, Becomes(p, e, c),
         \A r \in RecordsOf(e.jobs) : r \in RecordsOf(jobs[p]) \/ r = NoRecord
  PROVE  InViewOK'
<1>1. NoRecord.base = NoBase
  BY DEF NoRecord
<1>2. jobs' = [jobs EXCEPT ![p] = e.jobs]
  BY DEF Becomes
<1>3. jobs'[p] = e.jobs /\ \A q \in Process \ {p} : jobs'[q] = jobs[q]
  BY <1>2 DEF IInv, TypeOK
<1>4. InView(NoRecord)'
  BY <1>1 DEF InView
<1>5. \A r \in RecordsOf(jobs'[p]) : r \in RecordsOf(jobs[p]) \/ InView(r)'
  <2> SUFFICES ASSUME NEW r \in RecordsOf(e.jobs)
               PROVE  r \in RecordsOf(jobs[p]) \/ InView(r)'
    BY <1>3
  <2>1. CASE r = NoRecord
    BY <1>1, <2>1 DEF InView
  <2> QED
    BY <2>1
<1> QED
  BY <1>3, <1>5, InViewKept

LEMMA StateChangedInView ==
  ASSUME IInv, InViewOK, NEW p \in Process, SeenGrows, UNCHANGED artifact,
         NEW d \in Document, StateChanged(p, d), DocumentOK(doc[p])'
  PROVE  InViewOK'
<1>1. \A q \in Process \ {p} : doc'[q] = doc[q]
  BY DEF StateChanged, IInv, TypeOK
<1>2. CASE ~Modified(d)
  <2>1. PICK e \in Retired(p) : Becomes(p, e, [e.ctl EXCEPT !.newer = e.ctl.inflight])
    BY <1>2 DEF StateChanged
  <2>2. \A r \in RecordsOf(e.jobs) : r \in RecordsOf(jobs[p]) \/ r = NoRecord
    BY ControlAddsNoRecord
  <2> QED
    BY <1>1, <2>1, <2>2, ControlInView
<1>3. CASE Modified(d)
  <2>1. PICK e \in Ensured(p, d) :
          Becomes(p, e, IF e.ok THEN Scheduled(e.ctl) ELSE [e.ctl EXCEPT !.newer = e.ctl.inflight])
    BY <1>3 DEF StateChanged
  <2>2. \A r \in RecordsOf(e.jobs) : r \in RecordsOf(jobs[p]) \/ r = NoRecord
    BY ControlAddsNoRecord
  <2> QED
    BY <1>1, <2>1, <2>2, ControlInView
<1> QED
  BY <1>2, <1>3

(* A document that was just opened, saved or created.                      *)
LEMMA OpenedIsOK ==
  ASSUME NEW p \in Process, doc'[p] = Untitled \/ \E v \in Version : doc'[p] = Opened(v)
  PROVE  DocumentOK(doc[p])'
<1>1. CASE doc'[p] = Untitled
  BY <1>1 DEF DocumentOK, InView, Untitled
<1>2. CASE \E v \in Version : doc'[p] = Opened(v)
  <2>1. PICK v \in Version : doc'[p] = Opened(v)
    BY <1>2
  <2>2. doc'[p].base = v /\ doc'[p].saved = v /\ doc'[p].text = v
    BY <2>1, OpenedInView
  <2> QED
    BY <2>2 DEF DocumentOK, InView
<1> QED
  BY <1>1, <1>2

LEMMA SameDocumentIsOK ==
  ASSUME InViewOK, NEW p \in Process, doc'[p] = doc[p], seen' = seen
  PROVE  DocumentOK(doc[p])'
  BY DEF InViewOK, DocumentOK, InView

(* The author of a new text has in view what the author of the old one had,*)
(* and the old one.                                                        *)
LEMMA EditInView ==
  ASSUME IInv, InViewOK, NEW p \in Process, Edit(p)
  PROVE  InViewOK'
<1> DEFINE d == [doc[p] EXCEPT !.text = last + 1]
           old == doc[p].text
<1>1. doc[p] \in Document /\ last \in Version /\ old \in Version /\ last + 1 \in Version
  BY BoundsAreNat, DocumentFields DEF IInv, TypeOK, Edit, Version
<1>2. d \in Document /\ d.base = doc[p].base /\ d.saved = doc[p].saved /\ d.text = last + 1
  BY <1>1, RewrittenIsDocument, Zenon DEF Document
<1>3. StateChanged(p, d) /\ artifact' = artifact /\ last' = last + 1
        /\ seen' = [seen EXCEPT ![last + 1] = seen[old] \cup {old}]
  BY DEF Edit, Unchanged
<1>4. doc'[p] = d
  BY <1>1, <1>3 DEF StateChanged, IInv, TypeOK
<1> HIDE DEF d, old
<1>5. seen'[last + 1] = seen[old] \cup {old} /\ \A v \in Version : v # last + 1 => seen'[v] = seen[v]
  BY <1>1, <1>3, Zenon DEF IInv, TypeOK
<1>6. SeenGrows
  <2>1. seen[last + 1] = {}
    BY <1>1 DEF InViewOK, Version
  <2>2. \A v \in Version : v > last + 1 => v > last /\ v # last + 1
    BY <1>1 DEF Version
  <2> QED
    BY <1>3, <1>5, <2>1, <2>2, Zenon DEF SeenGrows, InViewOK
<1>7. DocumentOK(doc[p])
  BY DEF InViewOK
<1>8. DocumentOK(doc[p])'
  <2>1. doc[p].base # NoBase => doc[p].base \in seen'[last + 1]
    BY <1>5, <1>7, Zenon DEF DocumentOK, InView, old
  <2>2. doc'[p].base # NoBase => doc'[p].base \in seen'[doc'[p].text]
    BY <1>2, <1>4, <2>1, Zenon
  <2>3. doc'[p].base # NoBase /\ doc'[p].saved # Unreachable => doc'[p].saved = doc'[p].base
    BY <1>2, <1>4, <1>7, Zenon DEF DocumentOK
  <2> QED
    BY <2>2, <2>3, Zenon DEF DocumentOK, InView
<1> QED
  BY <1>2, <1>3, <1>6, <1>8, StateChangedInView

LEMMA UndoToSavedInView ==
  ASSUME IInv, InViewOK, NEW p \in Process, UndoToSaved(p)
  PROVE  InViewOK'
<1> DEFINE d == [doc[p] EXCEPT !.text = doc[p].saved]
<1>1. doc[p] \in Document /\ doc[p].saved # Unreachable /\ doc[p].saved \in Version
  BY DocumentFields DEF IInv, TypeOK, UndoToSaved
<1>2. d \in Document /\ d.base = doc[p].base /\ d.saved = doc[p].saved /\ d.text = doc[p].saved
  BY <1>1, RewrittenIsDocument, Zenon DEF Document
<1>3. StateChanged(p, d) /\ UNCHANGED <<artifact, last, seen>>
  BY DEF UndoToSaved, Unchanged
<1>4. doc'[p] = d
  BY <1>3 DEF StateChanged, IInv, TypeOK
<1> HIDE DEF d
<1>5. DocumentOK(doc[p])
  BY DEF InViewOK
<1>6. DocumentOK(doc[p])'
  <2>1. doc'[p].base # NoBase => doc'[p].saved = doc'[p].base /\ doc'[p].text = doc'[p].base
    BY <1>1, <1>2, <1>4, <1>5, Zenon DEF DocumentOK
  <2> QED
    BY <2>1, Zenon DEF DocumentOK, InView
<1> QED
  BY <1>2, <1>3, <1>6, SeenSame, StateChangedInView

LEMMA ReplaceInView ==
  ASSUME IInv, InViewOK, NEW p \in Process, Replace(p)
  PROVE  InViewOK'
<1>1. PICK d \in {Untitled, Opened(file)} : StateChanged(p, d)
  BY DEF Replace
<1>2. d \in Document /\ file \in Version
  BY NewIsDocument DEF IInv, TypeOK
<1>3. doc'[p] = d
  BY <1>1 DEF StateChanged, IInv, TypeOK
<1>4. DocumentOK(doc[p])'
  BY <1>2, <1>3, OpenedIsOK
<1> QED
  BY <1>1, <1>2, <1>4, SeenSame, StateChangedInView DEF Replace, Unchanged

LEMMA SaveNotifiedInView ==
  ASSUME IInv, InViewOK, NEW p \in Process, SaveNotified(p)
  PROVE  InViewOK'
<1>1. StateChanged(p, doc[p]) /\ UNCHANGED <<artifact, last, seen>> /\ doc[p] \in Document
  BY DEF SaveNotified, Unchanged, IInv, TypeOK
<1>2. doc'[p] = doc[p]
  BY <1>1 DEF StateChanged, IInv, TypeOK
<1> QED
  BY <1>1, <1>2, SeenSame, SameDocumentIsOK, StateChangedInView

LEMMA CommitInView ==
  ASSUME IInv, InViewOK, NEW p \in Process, Commit(p)
  PROVE  InViewOK'
<1>1. doc[p] \in Document /\ doc[p].text \in Version
  BY DocumentFields DEF IInv, TypeOK
<1>2. doc' = [doc EXCEPT ![p] = Opened(doc[p].text)] /\ UNCHANGED <<artifact, jobs, last, seen>>
  BY DEF Commit, Unchanged
<1>3. doc'[p] = Opened(doc[p].text) /\ \A q \in Process \ {p} : doc'[q] = doc[q]
  BY <1>2 DEF IInv, TypeOK
<1>4. DocumentOK(doc[p])'
  BY <1>1, <1>3, OpenedIsOK
<1> QED
  BY <1>2, <1>3, <1>4, SeenSame, InViewKept

LEMMA QuitInView ==
  ASSUME IInv, InViewOK, NEW p \in Process, Quit(p)
  PROVE  InViewOK'
<1>1. UNCHANGED <<artifact, doc, last, seen>>
  BY DEF Quit, Unchanged
<1>2. PICK e \in Retired(p) : Becomes(p, e, e.ctl)
  BY DEF Quit
<1>3. \A r \in RecordsOf(e.jobs) : r \in RecordsOf(jobs[p]) \/ r = NoRecord
  BY ControlAddsNoRecord
<1> QED
  BY <1>1, <1>2, <1>3, SeenSame, SameDocumentIsOK, ControlInView

(* What is captured carries the version it is derived from.                *)
LEMMA CaptureInView ==
  ASSUME IInv, InViewOK, NEW p \in Process, Capture(p)
  PROVE  InViewOK'
<1> DEFINE d == doc[p]
<1>1. UNCHANGED <<artifact, doc, last, seen>>
  BY DEF Capture, observers
<1>2. d \in Document /\ d.text \in Version /\ d.base \in Version \cup {NoBase}
  BY DocumentFields DEF IInv, TypeOK
<1>3. SeenGrows /\ DocumentOK(doc[p])'
  BY <1>1, SeenSame, SameDocumentIsOK
<1>4. ASSUME NEW e, NEW c, Becomes(p, e, c),
             \A r \in RecordsOf(e.jobs) : r \in RecordsOf(jobs[p]) \/ r = NoRecord
      PROVE  InViewOK'
  BY <1>1, <1>3, <1>4, ControlInView
<1>5. CASE ~Modified(d)
  <2>1. PICK e \in Retired(p) : Becomes(p, e, e.ctl)
    BY <1>5 DEF Capture
  <2> QED
    BY <1>4, <2>1, ControlAddsNoRecord
<1>6. CASE Modified(d)
  <2> DEFINE rec == [text |-> d.text, base |-> d.base]
             Write(e) == [kind |-> "persist", art |-> e.ctl.art, rec |-> rec]
             Wrote(e) == Outcome(e.ctl, Append(e.jobs, Write(e)), e.lock, e.left, TRUE)
             Writing(c) == [c EXCEPT !.timer = FALSE, !.inflight = TRUE, !.newer = FALSE]
  <2>1. \/ \E e \in Ensured(p, d) : Becomes(p, Wrote(e), Writing(e.ctl))
        \/ \E e \in Ensured(p, d) : Becomes(p, e, [e.ctl EXCEPT !.timer = FALSE])
    BY <1>6, Zenon DEF Capture
  <2>2. \A e \in Ensured(p, d) :
          \A r \in RecordsOf(e.jobs) : r \in RecordsOf(jobs[p]) \/ r = NoRecord
    BY <1>2, ControlAddsNoRecord
  <2>3. ASSUME NEW e \in Ensured(p, d), Becomes(p, e, [e.ctl EXCEPT !.timer = FALSE])
        PROVE  InViewOK'
    BY <1>4, <2>2, <2>3
  <2>4. ASSUME NEW e \in Ensured(p, d), Becomes(p, Wrote(e), Writing(e.ctl))
        PROVE  InViewOK'
    <3>1. jobs' = [jobs EXCEPT ![p] = Append(e.jobs, Write(e))]
      <4>1. Wrote(e).jobs = Append(e.jobs, Write(e))
        BY DEF Outcome
      <4> HIDE DEF Wrote, Writing, Write
      <4> QED
        BY <2>4, <4>1, Zenon DEF Becomes
    <3>2. jobs'[p] = Append(e.jobs, Write(e)) /\ \A q \in Process \ {p} : jobs'[q] = jobs[q]
      BY <3>1 DEF IInv, TypeOK
    <3>3. e.jobs \in Seq(Job)
      BY <1>2, GoodEnsured DEF Good
    <3>4. rec.text = d.text /\ rec.base = d.base
      OBVIOUS
    <3>5. Write(e).rec = rec
      OBVIOUS
    <3> HIDE DEF Write, rec
    <3>6. \A r \in RecordsOf(jobs'[p]) : r \in RecordsOf(e.jobs) \/ r = rec
      BY <3>2, <3>3, <3>5, AppendedRecords
    <3>7. \A r : r = rec => InView(r)'
      BY <1>1, <3>4 DEF InViewOK, DocumentOK, InView
    <3>8. \A r : r = NoRecord => InView(r)'
      BY DEF InView, NoRecord
    <3>9. \A r \in RecordsOf(jobs'[p]) : r \in RecordsOf(jobs[p]) \/ InView(r)'
      BY <2>2, <3>6, <3>7, <3>8, Zenon
    <3> QED
      BY <1>1, <1>3, <3>2, <3>9, InViewKept
  <2> QED
    BY <2>1, <2>3, <2>4
<1> QED
  BY <1>5, <1>6

LEMMA CompletedInView ==
  ASSUME IInv, InViewOK, NEW p \in Process, Completed(p)
  PROVE  InViewOK'
<1> DEFINE d == doc[p]
<1>1. UNCHANGED <<artifact, doc, last, seen>> /\ d \in Document
  BY DEF Completed, observers, IInv, TypeOK
<1>2. SeenGrows /\ DocumentOK(doc[p])'
  BY <1>1, SeenSame, SameDocumentIsOK
<1>3. ASSUME NEW e, NEW c, Becomes(p, e, c),
             \A r \in RecordsOf(e.jobs) : r \in RecordsOf(jobs[p]) \/ r = NoRecord
      PROVE  InViewOK'
  BY <1>1, <1>2, <1>3, ControlInView
<1>4. CASE ~Modified(d)
  <2>1. PICK e \in Retired(p) : Becomes(p, e, Landed(e.ctl))
    BY <1>4 DEF Completed
  <2> QED
    BY <1>3, <2>1, ControlAddsNoRecord
<1>5. CASE Modified(d) /\ ~ctl[p].newer
  <2>1. Becomes(p, Steady(p), Landed(ctl[p]))
    BY <1>5 DEF Completed
  <2>2. Steady(p).jobs = jobs[p]
    BY DEF Steady, Outcome
  <2> QED
    BY <1>3, <2>1, <2>2
<1>6. CASE Modified(d) /\ ctl[p].newer
  <2>1. PICK e \in Ensured(p, d) :
          Becomes(p, e, IF e.ok THEN Scheduled(Landed(e.ctl)) ELSE Landed(e.ctl))
    BY <1>6 DEF Completed
  <2> QED
    BY <1>1, <1>3, <2>1, ControlAddsNoRecord
<1> QED
  BY <1>4, <1>5, <1>6

(* The worker moves records from the queue into artifacts.                 *)
LEMMA QueueShrinks ==
  ASSUME IInv, NEW p \in Process, jobs[p] # <<>>, Done(p)
  PROVE  /\ \A q \in Process \ {p} : jobs'[q] = jobs[q]
         /\ RecordsOf(jobs'[p]) \subseteq RecordsOf(jobs[p])
<1>1. /\ \A q \in Process \ {p} : jobs'[q] = jobs[q]
      /\ \A i \in DOMAIN jobs'[p] : i + 1 \in DOMAIN jobs[p] /\ jobs'[p][i] = jobs[p][i + 1]
  BY DoneTakesHead
<1>2. \A i \in DOMAIN jobs'[p] :
        \E k \in DOMAIN jobs[p] : jobs'[p][i].rec = jobs[p][k].rec
  BY <1>1, Zenon
<1>3. RecordsOf(jobs'[p]) \subseteq RecordsOf(jobs[p])
  BY <1>2, Zenon DEF RecordsOf
<1> QED
  BY <1>1, <1>3, Zenon

LEMMA WorkerInView ==
  ASSUME IInv, InViewOK, NEW p \in Process, Worker(p)
  PROVE  InViewOK'
<1>1. /\ UNCHANGED <<doc, last, seen>> /\ jobs[p] # <<>>
      /\ jobs \in [Process -> Seq(Job)] /\ artifact \in [Artifact -> Record \cup {NoRecord}]
  BY DEF Worker, Stage, Publish, RemoveOld, ReleaseOld, observers, IInv, TypeOK
<1>2. SeenGrows /\ DocumentOK(doc[p])'
  BY <1>1, SeenSame, SameDocumentIsOK
<1>3. /\ Head(jobs[p]) = jobs[p][1] /\ 1 \in DOMAIN jobs[p] /\ jobs[p][1] \in Job
      /\ jobs[p][1].art \in Artifact /\ jobs[p] \in Seq(Job)
  BY <1>1, WorkerRuns
<1> DEFINE Grown == \A a \in Artifact : artifact'[a] = artifact[a] \/ InView(artifact[a])'
           Shrunk == /\ \A q \in Process \ {p} : jobs'[q] = jobs[q]
                     /\ RecordsOf(jobs'[p]) \subseteq RecordsOf(jobs[p])
<1>4. Grown /\ Shrunk => InViewOK'
  BY <1>1, <1>2, InViewKept
<1>5. ASSUME NEW k, jobs' = [jobs EXCEPT ![p][1].kind = k]
      PROVE  Shrunk
  <2> DEFINE job == [jobs[p][1] EXCEPT !.kind = k]
             js == [jobs[p] EXCEPT ![1] = job]
  <2>1. job.rec = jobs[p][1].rec
    <3>1. jobs[p][1] \in [kind : {"persist", "staged"}, art : Artifact, rec : Record]
            \/ jobs[p][1] \in [kind : {"cleanup", "release"}, art : Artifact, rec : {NoRecord}]
      BY <1>3 DEF Job
    <3> QED
      BY <3>1, Zenon
  <2>2. jobs' = [jobs EXCEPT ![p] = js]
    BY <1>5, Zenon
  <2> HIDE DEF job
  <2>3. DOMAIN js = DOMAIN jobs[p] /\ js[1] = job /\ \A i \in DOMAIN js : i # 1 => js[i] = jobs[p][i]
    BY <1>3
  <2> HIDE DEF js
  <2>4. jobs'[p] = js /\ \A q \in Process \ {p} : jobs'[q] = jobs[q]
    BY <1>1, <2>2
  <2>5. \A i \in DOMAIN js : js[i].rec = jobs[p][i].rec
    BY <2>1, <2>3, Zenon
  <2>6. RecordsOf(js) \subseteq RecordsOf(jobs[p])
    BY <2>3, <2>5, Zenon DEF RecordsOf
  <2> QED
    BY <2>4, <2>6
<1>6. InView(NoRecord)' /\ \A r \in RecordsOf(jobs[p]) : InView(r)'
  BY <1>1 DEF InViewOK, InView, NoRecord
<1> HIDE DEF Shrunk
<1>7. CASE Stage(p)
  <2>1. Shrunk
    <3>1. CASE jobs' = [jobs EXCEPT ![p][1].kind = "staged"]
      BY <1>5, <3>1
    <3>2. CASE Done(p)
      BY <1>1, <3>2, QueueShrinks DEF Shrunk
    <3> QED
      BY <1>7, <3>1, <3>2 DEF Stage
  <2> QED
    BY <1>4, <1>7, <2>1 DEF Stage
<1>8. CASE Publish(p)
  <2> DEFINE job == Head(jobs[p])
  <2>1. Done(p) /\ (artifact' = artifact \/ artifact' = [artifact EXCEPT ![job.art] = job.rec])
    BY <1>8, Zenon DEF Publish
  <2>2. Shrunk
    BY <1>1, <2>1, QueueShrinks DEF Shrunk
  <2>3. job.rec \in RecordsOf(jobs[p]) /\ job.art \in Artifact
    BY <1>3, Zenon DEF RecordsOf
  <2> HIDE DEF job
  <2>4. \A a \in Artifact : artifact'[a] = artifact[a] \/ artifact'[a] = job.rec
    BY <1>1, <2>1, <2>3
  <2>5. Grown
    <3>1. \A r : r = job.rec => InView(r)'
      BY <1>6, <2>3
    <3> QED
      BY <1>1, <2>3, <2>4 DEF InView, InViewOK
  <2> QED
    BY <1>4, <2>2, <2>5
<1>9. CASE RemoveOld(p)
  <2> DEFINE old == Head(jobs[p]).art
  <2>1. jobs' = [jobs EXCEPT ![p][1].kind = "release"]
          /\ (artifact' = artifact \/ artifact' = [artifact EXCEPT ![old] = NoRecord])
    BY <1>9 DEF RemoveOld
  <2>2. Shrunk
    BY <1>5, <2>1
  <2>3. old \in Artifact
    BY <1>3
  <2> HIDE DEF old
  <2>4. \A a \in Artifact : artifact'[a] = artifact[a] \/ artifact'[a] = NoRecord
    BY <1>1, <2>1, <2>3
  <2>5. Grown
    BY <2>4 DEF InView, NoRecord
  <2> QED
    BY <1>4, <2>2, <2>5
<1>10. CASE ReleaseOld(p)
  <2>1. Shrunk
    BY <1>1, <1>10, QueueShrinks DEF ReleaseOld, Shrunk
  <2> QED
    BY <1>4, <1>10, <2>1 DEF ReleaseOld
<1> QED
  BY <1>7, <1>8, <1>9, <1>10 DEF Worker

(* The end of a process, and the beginning of another.                     *)
LEMMA GoneInView ==
  ASSUME IInv, InViewOK, NEW p \in Process, Gone(p),
         jobs' = jobs \/ jobs' = [jobs EXCEPT ![p] = <<>>]
  PROVE  InViewOK'
<1>1. UNCHANGED <<artifact, last, seen>> /\ doc' = [doc EXCEPT ![p] = Untitled]
  BY DEF Gone
<1>2. doc'[p] = Untitled /\ \A q \in Process \ {p} : doc'[q] = doc[q]
  BY <1>1 DEF IInv, TypeOK
<1>3. DocumentOK(doc[p])'
  BY <1>2, OpenedIsOK
<1>4. \A q \in Process \ {p} : jobs'[q] = jobs[q]
  BY DEF IInv, TypeOK
<1>5. jobs'[p] = jobs[p] \/ jobs'[p] = <<>>
  BY DEF IInv, TypeOK
<1>6. RecordsOf(jobs'[p]) \subseteq RecordsOf(jobs[p])
  BY <1>5 DEF RecordsOf
<1> QED
  BY <1>1, <1>2, <1>3, <1>4, <1>6, SeenSame, InViewKept

LEMMA WaitingInView ==
  ASSUME IInv, InViewOK, UNCHANGED <<artifact, doc, jobs, last, seen>>
  PROVE  InViewOK'
  BY DEF InViewOK, DocumentOK, InView, RecordsOf

LEMMA BeginsInView ==
  ASSUME IInv, InViewOK, NEW p \in Process, NEW d, BeginsOn(p, d),
         UNCHANGED <<jobs, last, seen>>, DocumentOK(doc[p])',
         \A a \in Artifact : artifact'[a] = artifact[a] \/ artifact'[a] = NoRecord
  PROVE  InViewOK'
<1>1. \A q \in Process \ {p} : doc'[q] = doc[q]
  BY DEF BeginsOn, IInv, TypeOK
<1>2. \A a \in Artifact : artifact'[a] = artifact[a] \/ InView(artifact[a])'
  BY DEF InView, NoRecord
<1> QED
  BY <1>1, <1>2, SeenSame, InViewKept

LEMMA FirstInView ==
  ASSUME IInv, InViewOK, NEW p \in Process, BeginsOn(p, First(p)),
         UNCHANGED <<jobs, last, seen>>,
         \A a \in Artifact : artifact'[a] = artifact[a] \/ artifact'[a] = NoRecord
  PROVE  InViewOK'
<1>1. doc'[p] = First(p) /\ file \in Version
  BY DEF BeginsOn, IInv, TypeOK
<1>2. DocumentOK(doc[p])'
  BY <1>1, OpenedIsOK DEF First
<1> QED
  BY <1>2, BeginsInView

(* The text of an artifact is bound to the file only if that is the version*)
(* the artifact names.                                                     *)
LEMMA RecoverInView ==
  ASSUME IInv, InViewOK, NEW p \in Process, Recover(p)
  PROVE  InViewOK'
<1> DEFINE rec == artifact[claim[p]]
           d == Recovered(rec)
<1>1. /\ claim[p] \in Artifact /\ BeginsOn(p, d)
      /\ UNCHANGED <<artifact, jobs, last, seen>>
  BY OfferedIsHeld DEF Recover, observers
<1>2. doc'[p] = d
  BY <1>1 DEF BeginsOn, IInv, TypeOK
<1>3. InView(rec)
  BY <1>1 DEF InViewOK
<1> HIDE DEF rec
<1>4. /\ d.base # NoBase => d.base = rec.base
      /\ d.text = rec.text /\ d.saved = Unreachable
  BY DEF Recovered
<1> HIDE DEF d
<1>5. DocumentOK(doc[p])'
  BY <1>1, <1>2, <1>3, <1>4, Zenon DEF DocumentOK, InView
<1> QED
  BY <1>1, <1>5, BeginsInView

LEMMA StartupInView ==
  ASSUME IInv, InViewOK, NEW p \in Process,
         Start(p) \/ StartupStep(p) \/ StartWithout(p) \/ Discard(p)
  PROVE  InViewOK'
<1>1. CASE Start(p) \/ Look(p) \/ Claim(p) \/ Reread(p)
  BY <1>1, WaitingInView DEF Start, Look, Claim, Reread, StartupUnchanged, observers
<1>2. CASE NothingOffered(p) \/ StartWithout(p)
  BY <1>2, FirstInView DEF NothingOffered, StartWithout, StartupUnchanged, observers
<1>3. CASE Discard(p)
  <2>1. claim[p] \in Artifact
    BY <1>3, OfferedIsHeld DEF Discard
  <2>2. \A a \in Artifact : artifact'[a] = artifact[a] \/ artifact'[a] = NoRecord
    BY <1>3, <2>1 DEF Discard, IInv, TypeOK
  <2> QED
    BY <1>3, <2>2, FirstInView DEF Discard, observers
<1> QED
  BY <1>1, <1>2, <1>3 DEF StartupStep

LEMMA InitInView == Init => InViewOK
  BY DEF Init, InViewOK, DocumentOK, InView, RecordsOf, Untitled, NoRecord

LEMMA StepInView == IInv /\ InViewOK /\ [Next]_vars => InViewOK'
<1> SUFFICES ASSUME IInv, InViewOK, [Next]_vars
             PROVE  InViewOK'
  OBVIOUS
<1>1. CASE UNCHANGED vars
  BY <1>1, WaitingInView DEF vars
<1>2. ASSUME NEW p \in Process, User(p)
      PROVE  InViewOK'
  BY <1>2, EditInView, UndoToSavedInView, ReplaceInView, CommitInView, QuitInView DEF User
<1>3. ASSUME NEW p \in Process, Exit(p) \/ Crash(p)
      PROVE  InViewOK'
  BY <1>3, GoneInView DEF Exit, Crash
<1> QED
  BY <1>1, <1>2, <1>3, SaveNotifiedInView, CaptureInView, CompletedInView, WorkerInView,
     StartupInView, RecoverInView DEF Next

LEMMA InViewHolds == Spec => []InViewOK
  BY InitInView, StepInView, InvariantHolds, PTL DEF Spec

(* Save replaces only a version that the author of the new text had in     *)
(* view: also when the text comes from an artifact of a process that       *)
(* crashed, and the file was saved by others meanwhile.                    *)
THEOREM InformedSaves == Spec => SavesAreInformed
<1> DEFINE Informed == \A p \in Process :
                         phase[p] = "running" /\ phase'[p] = "saved" /\ doc[p].base # NoBase =>
                           file \in seen[doc[p].text] \cup {doc[p].text}
<1>1. IInv /\ InViewOK /\ [Next]_vars => [Informed]_vars
  <2> SUFFICES ASSUME IInv, InViewOK, Next, NEW p \in Process,
                      phase[p] = "running", phase'[p] = "saved", doc[p].base # NoBase
               PROVE  file \in seen[doc[p].text] \cup {doc[p].text}
    OBVIOUS
  <2>1. Commit(p)
    <3>1. PICK q \in Process :
            \/ User(q) \/ SaveNotified(q) \/ Capture(q) \/ Completed(q) \/ Worker(q)
            \/ Exit(q) \/ Crash(q)
            \/ Start(q) \/ StartupStep(q) \/ StartWithout(q) \/ Discard(q) \/ Recover(q)
      BY DEF Next
    <3>2. phase \in [Process -> Phases]
      BY DEF IInv, TypeOK
    <3>3. ~Edit(q) /\ ~UndoToSaved(q) /\ ~Replace(q)
      BY DEF Edit, UndoToSaved, Replace
    <3>4. ~Quit(q) /\ ~SaveNotified(q)
      BY <3>2 DEF Quit, SaveNotified
    <3>5. ~Capture(q) /\ ~Completed(q) /\ ~Worker(q)
      BY DEF Capture, Completed, Worker, Stage, Publish, RemoveOld, ReleaseOld
    <3>6. ~Exit(q) /\ ~Crash(q)
      BY <3>2 DEF Exit, Crash, Gone
    <3>7. ~Start(q) /\ ~Look(q) /\ ~Claim(q) /\ ~Reread(q)
      BY <3>2 DEF Start, Look, Claim, Reread
    <3>8. ~NothingOffered(q) /\ ~StartWithout(q) /\ ~Discard(q) /\ ~Recover(q)
      BY <3>2 DEF NothingOffered, StartWithout, Discard, Recover, BeginsOn
    <3>9. Commit(q)
      BY <3>1, <3>3, <3>4, <3>5, <3>6, <3>7, <3>8 DEF User, StartupStep
    <3>10. q = p
      BY <3>2, <3>9 DEF Commit
    <3> QED
      BY <3>9, <3>10
  <2>2. doc[p].base = file
    BY <2>1 DEF Commit
  <2> QED
    BY <2>2 DEF InViewOK, DocumentOK, InView
<1> QED
  BY <1>1, InvariantHolds, InViewHolds, PTL DEF Spec, SavesAreInformed
=============================================================================
