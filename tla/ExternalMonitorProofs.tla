------------------------ MODULE ExternalMonitorProofs -----------------------
(***************************************************************************)
(* Proofs about ExternalMonitor, for any paths, contents and changes: at   *)
(* most one observation at a time, and no late result that says of a       *)
(* document what never was the case.                                       *)
(*                                                                         *)
(* The inductive invariant counts generations.  Nothing under way is of a  *)
(* generation to come; and while a lifecycle action runs, which may put    *)
(* another document in place, everything under way is of a generation that *)
(* has passed.  So a result of the generation of now was read while the    *)
(* document of now was in place, and it said then what was the case then.  *)
(***************************************************************************)
EXTENDS ExternalMonitor, FiniteSetTheorems, TLAPS

FileState == [object : Objects \cup {NoObject}, content : Contents, stamp : Nat]
Document == {Untitled} \cup [path : Paths, accepted : FileState]
Ticket == [generation : Nat, path : Paths, accepted : FileState]
Observation == [ticket : Ticket, retries : {0, 1}, read : SUBSET FileState]
Status == {"missing", "replaced", "content", "metadata", "unchanged", "unavailable"}
Result == [ticket : Ticket, status : Status]

TypeOK ==
  /\ file \in [Paths -> FileState]
  /\ stamp \in Nat
  /\ doc \in Document
  /\ phase \in {"idle", "acting", "closed"} /\ rebind \in BOOLEAN
  /\ generation \in Nat \ {None} /\ watched \in Paths \cup {NoPath}
  /\ events \subseteq Nat
  /\ initial \in {None, generation} /\ debounce \in {None, generation}
  /\ pending \in {None, generation}
  /\ inflight \in BOOLEAN
  /\ workers \subseteq Observation /\ results \subseteq Result

Tickets == {w.ticket : w \in workers} \cup {r.ticket : r \in results}

(* The slot is taken exactly while there is an observation or a result,    *)
(* one of them, and then no timer is set to start another.                 *)
SlotOK ==
  IF inflight
  THEN /\ debounce = None
       /\ \/ \E w \in Observation : workers = {w} /\ results = {}
          \/ \E r \in Result : workers = {} /\ results = {r}
  ELSE workers = {} /\ results = {}

PastOK ==
  /\ \A g \in events : g <= generation
  /\ \A t \in Tickets : t.generation <= generation

(* While an action runs, all that is under way has been outdated by it.    *)
SuspendedOK ==
  phase # "idle" =>
    /\ initial = None /\ debounce = None /\ pending = None /\ watched = NoPath /\ ~rebind
    /\ \A g \in events : g < generation
    /\ \A t \in Tickets : t.generation < generation

Told == truths \cup {"unavailable"}

TruthOK ==
  /\ Verdict(doc, file) \in truths
  /\ alert \in Told
  /\ \A r \in results : Fits(r) => r.status \in Told

IInv == TypeOK /\ SlotOK /\ PastOK /\ SuspendedOK /\ TruthOK

-----------------------------------------------------------------------------
(* Files and documents.                                                    *)

LEMMA ClassifiedStatus ==
  ASSUME NEW a, NEW f
  PROVE  Classified(a, f) \in Status
  BY DEF Classified, Status

LEMMA NewDocumentIsCurrent ==
  ASSUME NEW p \in Paths, NEW files \in [Paths -> FileState], Exists(files[p])
  PROVE  LET d == [path |-> p, accepted |-> files[p]] IN
         d \in Document /\ Verdict(d, files) = "unchanged"
  <1> DEFINE d == [path |-> p, accepted |-> files[p]]
  <1>1. d \in Document BY DEF Document
  <1>2. d # Untitled
    BY NoSuchPath DEF Untitled
  <1>3. Classified(files[p], files[p]) = "unchanged" BY DEF Classified
  <1> QED BY <1>1, <1>2, <1>3 DEF Verdict

LEMMA NamedDocument ==
  ASSUME NEW d \in Document, d # Untitled
  PROVE  d.path \in Paths /\ d.accepted \in FileState
  BY DEF Document

-----------------------------------------------------------------------------
LEMMA InitOK == Init => IInv
  <1> SUFFICES ASSUME Init PROVE IInv
    OBVIOUS
  <1> USE DEF Init
  <1>1. First \in FileState /\ Exists(First)
    BY SomeFile, NoSuchPath DEF First, FileState, Exists
  <1>2. file \in [Paths -> FileState] BY <1>1
  <1>3. doc \in Document /\ Verdict(doc, file) = "unchanged"
    <2>1. CASE doc = Untitled BY <2>1 DEF Document, Verdict
    <2>2. ASSUME NEW p \in Paths, doc = [path |-> p, accepted |-> file[p]]
          PROVE  doc \in Document /\ Verdict(doc, file) = "unchanged"
      BY <1>1, <1>2, <2>2, NewDocumentIsCurrent
    <2> QED BY <2>1, <2>2
  <1>4. TypeOK
    <2>1. phase \in {"idle", "acting", "closed"} /\ rebind \in BOOLEAN OBVIOUS
    <2>2. stamp \in Nat /\ generation \in Nat \ {None} BY DEF None
    <2> QED BY <1>2, <1>3, <2>1, <2>2 DEF TypeOK
  <1>5. SlotOK BY DEF SlotOK
  <1>6. PastOK BY DEF PastOK, Tickets
  <1>7. SuspendedOK BY DEF SuspendedOK
  <1>8. TruthOK BY <1>3 DEF TruthOK, Told
  <1> QED BY <1>4, <1>5, <1>6, <1>7, <1>8 DEF IInv

(* What a stutter and every step that leaves the rest alone keep.          *)
LEMMA StutterKeeps == ASSUME IInv, UNCHANGED vars PROVE IInv'
  BY DEF vars, monitor, threads, IInv, TypeOK, SlotOK, PastOK, SuspendedOK, TruthOK,
         Tickets, Told, Verdict, Fits, Current, Closed

-----------------------------------------------------------------------------
(* The monitor.                                                            *)

LEMMA SuspendKeepsBounds ==
  ASSUME IInv, generation' = generation + 1, events' = events, UNCHANGED threads
  PROVE  /\ generation' \in Nat \ {None}
         /\ \A g \in events' : g < generation'
         /\ \A t \in Tickets' : t.generation < generation'
  <1>1. Tickets' = Tickets BY DEF Tickets, threads
  <1>2. \A t \in Tickets : t.generation \in Nat
    BY DEF IInv, TypeOK, Tickets, Observation, Result, Ticket
  <1>3. generation \in Nat \ {None} /\ generation + 1 \in Nat \ {None}
    BY DEF IInv, TypeOK, None
  <1>4. \A g \in events : g \in Nat BY DEF IInv, TypeOK
  <1>5. \A g \in events : g < generation + 1 BY <1>3, <1>4 DEF IInv, PastOK
  <1>6. \A t \in Tickets : t.generation < generation + 1
    BY <1>2, <1>3 DEF IInv, PastOK
  <1> QED BY <1>1, <1>3, <1>5, <1>6

LEMMA EventKeeps == ASSUME IInv, NEW g, Event(g) PROVE IInv'
  <1> USE DEF IInv, Event, Schedule, threads
  <1>1. g \in events /\ g \in Nat BY DEF TypeOK
  <1>2. TypeOK' BY DEF TypeOK, Current
  <1>3. SlotOK' BY DEF SlotOK
  <1>4. PastOK' BY DEF PastOK, Tickets
  <1>5. SuspendedOK'
    BY <1>1 DEF SuspendedOK, Tickets, Current, TypeOK
  <1>6. TruthOK' BY DEF TruthOK, Told, Fits, Current, Closed
  <1> QED BY <1>2, <1>3, <1>4, <1>5, <1>6

LEMMA InitialCheckKeeps == ASSUME IInv, InitialCheck PROVE IInv'
  <1> USE DEF IInv, InitialCheck, Schedule, threads
  <1>1. phase = "idle" BY DEF SuspendedOK
  <1>2. TypeOK' BY DEF TypeOK
  <1>3. SlotOK' BY DEF SlotOK
  <1>4. PastOK' BY DEF PastOK, Tickets
  <1>5. SuspendedOK' BY <1>1 DEF SuspendedOK
  <1>6. TruthOK' BY DEF TruthOK, Told, Fits, Current, Closed
  <1> QED BY <1>2, <1>3, <1>4, <1>5, <1>6

LEMMA StartObservationKeeps == ASSUME IInv, StartObservation PROVE IInv'
  <1> USE DEF IInv, StartObservation
  <1> DEFINE t == [generation |-> debounce, path |-> doc.path, accepted |-> doc.accepted]
             w == [ticket |-> t, retries |-> 1, read |-> {}]
  <1>1. phase = "idle" BY DEF SuspendedOK
  <1>2. ~inflight /\ workers = {} /\ results = {}
    BY DEF SlotOK, TypeOK
  <1>3. results' = results BY DEF threads
  <1>4. CASE IsNamed /\ inflight' = TRUE /\ workers' = workers \cup {w}
             /\ pending' = IF pending = debounce THEN None ELSE pending
    <2>1. t \in Ticket /\ t.generation = generation
      BY <1>4, NamedDocument DEF TypeOK, IsNamed, Ticket
    <2>2. w \in Observation /\ w.ticket = t BY <2>1 DEF Observation
    <2> HIDE DEF w, t
    <2>3. workers' = {w} /\ results' = {} BY <1>2, <1>3, <1>4
    <2>4. TypeOK' BY <1>4, <2>2, <2>3 DEF TypeOK
    <2>5. SlotOK' BY <1>4, <2>2, <2>3 DEF SlotOK
    <2>6. Tickets' = {t} BY <2>2, <2>3 DEF Tickets
    <2>7. PastOK' BY <2>1, <2>6 DEF PastOK, TypeOK
    <2>8. SuspendedOK' BY <1>1 DEF SuspendedOK
    <2>9. TruthOK' BY <2>3 DEF TruthOK, Told
    <2> QED BY <2>4, <2>5, <2>7, <2>8, <2>9
  <1>5. CASE UNCHANGED <<threads, pending>>
    <2>1. TypeOK' BY <1>5 DEF TypeOK, threads
    <2>2. SlotOK' BY <1>5 DEF SlotOK, threads
    <2>3. PastOK' BY <1>5 DEF PastOK, Tickets, threads
    <2>4. SuspendedOK' BY <1>1 DEF SuspendedOK
    <2>5. TruthOK' BY <1>5 DEF TruthOK, Told, Fits, Current, Closed, threads
    <2> QED BY <2>1, <2>2, <2>3, <2>4, <2>5
  <1> QED BY <1>4, <1>5

LEMMA BindKeeps == ASSUME IInv, Bind PROVE IInv'
  <1> USE DEF IInv, Bind
  <1>1. phase = "idle" BY DEF SuspendedOK, TypeOK
  <1>2. /\ generation' \in Nat \ {None}
        /\ \A g \in events' : g < generation'
        /\ \A t \in Tickets' : t.generation < generation'
    BY SuspendKeepsBounds
  <1>3. watched' \in Paths \cup {NoPath} /\ initial' \in {None, generation'}
    BY NamedDocument DEF TypeOK, IsNamed
  <1>4. TypeOK' BY <1>2, <1>3 DEF TypeOK, threads
  <1>5. SlotOK' BY DEF SlotOK, threads
  <1>6. PastOK'
    <2>1. \A t \in Tickets' : t.generation \in Nat
      BY <1>4 DEF TypeOK, Tickets, Observation, Result, Ticket
    <2> QED BY <1>2, <1>4, <2>1 DEF PastOK, TypeOK
  <1>7. SuspendedOK' BY <1>1 DEF SuspendedOK
  <1>8. TruthOK'
    <2>1. \A r \in results' : r.ticket.generation # generation'
      <3>1. \A r \in results' : r.ticket \in Tickets' BY DEF Tickets
      <3>2. \A r \in results' : r.ticket.generation \in Nat
        BY <1>4 DEF TypeOK, Result, Ticket
      <3> QED BY <1>2, <3>1, <3>2
    <2>2. \A r \in results' : ~Fits(r)' BY <2>1 DEF Fits, Current
    <2> QED BY <2>2 DEF TruthOK, Told
  <1> QED BY <1>4, <1>5, <1>6, <1>7, <1>8

(* A thread that goes on, or that reports: one thing still has the slot.   *)
LEMMA ObserveKeeps == ASSUME IInv, NEW w, Observe(w) PROVE IInv'
  <1> USE DEF IInv
  <1> DEFINE now == file[w.ticket.path]
  <1>1. inflight /\ debounce = None /\ workers = {w} /\ results = {}
    BY DEF Observe, SlotOK, TypeOK
  <1>2. w \in Observation /\ w.ticket \in Ticket /\ now \in FileState
    BY DEF Observe, TypeOK, Observation, Ticket
  <1>3. UNCHANGED <<file, stamp, doc, phase, rebind, monitor, events, inflight, alert, truths>>
    BY DEF Observe
  <1>4. w.ticket \in Tickets BY <1>1 DEF Tickets
  <1>5. \/ \E v \in Observation : v.ticket = w.ticket /\ workers' = {v} /\ results' = {}
        \/ \E v \in Status :
             /\ v = "unavailable" \/ v = Classified(w.ticket.accepted, now)
             /\ workers' = {} /\ results' = {[ticket |-> w.ticket, status |-> v]}
    <2> HIDE DEF now
    <2> DEFINE becomes(v) == workers' = (workers \ {w}) \cup {v} /\ UNCHANGED results
               reports(v) == /\ workers' = workers \ {w}
                             /\ results' = results \cup {[ticket |-> w.ticket, status |-> v]}
    <2>1. \/ w.read = {} /\ ~Exists(now) /\ reports("missing")
          \/ w.read = {} /\ Exists(now) /\ becomes([w EXCEPT !.read = {now}])
          \/ w.read = {now} /\ reports(Classified(w.ticket.accepted, now))
          \/ w.read \notin {{}, {now}} /\ GivesUp(w) /\ reports("unavailable")
          \/ w.read \notin {{}, {now}} /\ ~GivesUp(w)
             /\ becomes([w EXCEPT !.retries = @ - 1, !.read = {}])
      BY DEF Observe, now
    <2>2. ASSUME NEW v \in Observation, v.ticket = w.ticket, becomes(v)
          PROVE  \E u \in Observation : u.ticket = w.ticket /\ workers' = {u} /\ results' = {}
      BY <1>1, <2>2
    <2>3. ASSUME NEW v \in Status, reports(v),
                 v = "unavailable" \/ v = Classified(w.ticket.accepted, now)
          PROVE  \E u \in Status :
                   /\ u = "unavailable" \/ u = Classified(w.ticket.accepted, now)
                   /\ workers' = {} /\ results' = {[ticket |-> w.ticket, status |-> u]}
      BY <1>1, <2>3
    <2>4. CASE w.read = {} /\ ~Exists(now) /\ reports("missing")
      <3>1. Classified(w.ticket.accepted, now) = "missing" BY <2>4 DEF Classified
      <3>2. "missing" \in Status BY DEF Status
      <3> HIDE DEF reports
      <3> QED BY <2>3, <2>4, <3>1, <3>2
    <2>5. CASE w.read = {} /\ Exists(now) /\ becomes([w EXCEPT !.read = {now}])
      <3> DEFINE v == [w EXCEPT !.read = {now}]
      <3>1. v \in Observation /\ v.ticket = w.ticket
        BY <1>2, Zenon DEF Observation
      <3> HIDE DEF v, becomes
      <3> QED BY <2>2, <2>5, <3>1 DEF v
    <2>6. CASE w.read = {now} /\ reports(Classified(w.ticket.accepted, now))
      <3> HIDE DEF reports
      <3> QED BY <2>3, <2>6, ClassifiedStatus
    <2>7. CASE w.read \notin {{}, {now}} /\ GivesUp(w) /\ reports("unavailable")
      <3>1. "unavailable" \in Status BY DEF Status
      <3> HIDE DEF reports
      <3> QED BY <2>3, <2>7, <3>1
    <2>8. CASE /\ w.read \notin {{}, {now}} /\ ~GivesUp(w)
               /\ becomes([w EXCEPT !.retries = @ - 1, !.read = {}])
      <3> DEFINE v == [w EXCEPT !.retries = @ - 1, !.read = {}]
      <3>1. w.retries - 1 \in {0, 1} BY <1>2, <2>8 DEF Observation, GivesUp
      <3>2. v \in Observation /\ v.ticket = w.ticket
        BY <1>2, <3>1, Zenon DEF Observation
      <3> HIDE DEF v, becomes
      <3> QED BY <2>2, <2>8, <3>2 DEF v
    <2> QED BY <2>1, <2>4, <2>5, <2>6, <2>7, <2>8
  <1>6. Tickets' = {w.ticket}
    <2>1. CASE \E v \in Observation : v.ticket = w.ticket /\ workers' = {v} /\ results' = {}
      BY <2>1 DEF Tickets
    <2>2. CASE \E v \in Status : workers' = {} /\ results' = {[ticket |-> w.ticket, status |-> v]}
      BY <2>2 DEF Tickets
    <2> QED BY <1>5, <2>1, <2>2
  <1>7. workers' \subseteq Observation /\ results' \subseteq Result
    BY <1>2, <1>5 DEF Result
  <1>8. TypeOK' BY <1>3, <1>7 DEF TypeOK, monitor
  <1>9. SlotOK' BY <1>1, <1>3, <1>5, <1>7 DEF SlotOK, monitor
  <1>10. PastOK' BY <1>3, <1>4, <1>6 DEF PastOK, monitor
  <1>11. SuspendedOK' BY <1>3, <1>4, <1>6 DEF SuspendedOK, monitor
  <1>12. TruthOK'
    <2>1. ASSUME NEW r \in results', Fits(r)' PROVE r.status \in Told
      <3>1. r.ticket = w.ticket BY <1>5
      <3>2. r.status = "unavailable" \/ r.status = Classified(w.ticket.accepted, now) BY <1>5
      <3>3. doc = [path |-> w.ticket.path, accepted |-> w.ticket.accepted]
        BY <1>3, <2>1, <3>1 DEF Fits
      <3>4. doc # Untitled
        BY <1>2, <3>3, NoSuchPath DEF Untitled, Ticket
      <3>5. Verdict(doc, file) = Classified(w.ticket.accepted, now) BY <3>3, <3>4 DEF Verdict
      <3> QED BY <3>2, <3>5 DEF Told, TruthOK
    <2> QED BY <1>3, <2>1 DEF TruthOK, Told
  <1> QED BY <1>8, <1>9, <1>10, <1>11, <1>12

LEMMA DeliverKeeps == ASSUME IInv, NEW r, Deliver(r) PROVE IInv'
  <1> USE DEF IInv, Deliver
  <1>1. workers' = {} /\ results' = {} /\ inflight' = FALSE
    BY DEF SlotOK, TypeOK
  <1>2. TypeOK' BY <1>1 DEF TypeOK
  <1>3. SlotOK' BY <1>1 DEF SlotOK
  <1>4. PastOK' BY <1>1 DEF PastOK, Tickets
  <1>5. SuspendedOK' BY <1>1 DEF SuspendedOK, Tickets, AskedMeanwhile
  <1>6. TruthOK' BY <1>1 DEF TruthOK, Told
  <1> QED BY <1>2, <1>3, <1>4, <1>5, <1>6

-----------------------------------------------------------------------------
(* The window and other programs.                                          *)

(* A suspension outdates all that is under way.                            *)
LEMMA SuspensionKeeps ==
  ASSUME IInv, Suspend, phase' \in {"acting", "closed"}, rebind' = FALSE,
         UNCHANGED <<file, stamp, doc, events, threads, alert, truths>>
  PROVE  IInv'
  <1> USE DEF IInv, Suspend
  <1>1. /\ generation' \in Nat \ {None}
        /\ \A g \in events' : g < generation'
        /\ \A t \in Tickets' : t.generation < generation'
    BY SuspendKeepsBounds
  <1>2. TypeOK' BY <1>1 DEF TypeOK, threads
  <1>3. SlotOK' BY DEF SlotOK, threads
  <1>4. \A t \in Tickets' : t.generation \in Nat
    BY <1>2 DEF TypeOK, Tickets, Observation, Result, Ticket
  <1>5. PastOK' BY <1>1, <1>2, <1>4 DEF PastOK, TypeOK
  <1>6. SuspendedOK' BY <1>1 DEF SuspendedOK
  <1>7. \A u \in results' : ~Fits(u)'
    <2>1. \A u \in results' : u.ticket \in Tickets' BY DEF Tickets
    <2>2. \A u \in results' : u.ticket.generation # generation' BY <1>1, <1>4, <2>1
    <2> QED BY <2>2 DEF Fits, Current
  <1>8. TruthOK' BY <1>7 DEF TruthOK, Told
  <1> QED BY <1>2, <1>3, <1>5, <1>6, <1>8

LEMMA BeginActionKeeps == ASSUME IInv, BeginAction PROVE IInv'
  BY SuspensionKeeps DEF BeginAction

LEMMA CloseWindowKeeps == ASSUME IInv, CloseWindow PROVE IInv'
  BY SuspensionKeeps DEF CloseWindow

(* The end of an action, with any document whose verdict is told.          *)
LEMMA EndsKeeps ==
  ASSUME IInv, NEW d \in Document, EndsWith(d),
         file' \in [Paths -> FileState], stamp' \in Nat,
         Verdict(d, file') \in truths', alert' \in truths' \cup {"unavailable"}
  PROVE  IInv'
  <1> USE DEF IInv, EndsWith, monitor, threads
  <1>1. TypeOK' BY DEF TypeOK
  <1>2. SlotOK' BY DEF SlotOK
  <1>3. PastOK' BY DEF PastOK, Tickets
  <1>4. SuspendedOK' BY DEF SuspendedOK
  <1>5. \A r \in results : r.ticket.generation # generation
    <2>1. \A r \in results : r.ticket \in Tickets BY DEF Tickets
    <2>2. \A r \in results : r.ticket.generation < generation BY <2>1 DEF SuspendedOK
    <2> QED BY <2>2 DEF TypeOK, Result, Ticket
  <1>6. \A r \in results' : ~Fits(r)' BY <1>5 DEF Fits, Current
  <1>7. TruthOK' BY <1>6 DEF TruthOK, Told
  <1> QED BY <1>1, <1>2, <1>3, <1>4, <1>7

LEMMA NewDocumentKeeps == ASSUME IInv, NewDocument PROVE IInv'
  <1>1. Untitled \in Document /\ Verdict(Untitled, file') = "unchanged"
    BY DEF Document, Verdict
  <1> QED BY <1>1, EndsKeeps DEF NewDocument, Completes, IInv, TypeOK

LEMMA OpenDocumentKeeps == ASSUME IInv, OpenDocument PROVE IInv'
  <1>1. PICK p \in Paths :
          /\ Exists(file[p])
          /\ Completes([path |-> p, accepted |-> file[p]])
          /\ UNCHANGED <<file, stamp>>
    BY DEF OpenDocument
  <1> DEFINE d == [path |-> p, accepted |-> file[p]]
  <1>2. file' \in [Paths -> FileState] /\ stamp' \in Nat BY <1>1 DEF IInv, TypeOK
  <1>3. d \in Document /\ Verdict(d, file') = "unchanged"
    BY <1>1, <1>2, NewDocumentIsCurrent
  <1>4. EndsWith(d) /\ alert' = "unchanged" /\ truths' = {"unchanged"}
    BY <1>1 DEF Completes
  <1> HIDE DEF d
  <1> QED BY <1>2, <1>3, <1>4, EndsKeeps

LEMMA SaveDocumentKeeps == ASSUME IInv, SaveDocument PROVE IInv'
  <1>1. PICK p \in Paths, o \in Objects, c \in Contents :
          LET saved == [object |-> o, content |-> c, stamp |-> stamp + 1] IN
          /\ file' = [file EXCEPT ![p] = saved]
          /\ Completes([path |-> p, accepted |-> saved])
    BY DEF SaveDocument
  <1> DEFINE saved == [object |-> o, content |-> c, stamp |-> stamp + 1]
             d == [path |-> p, accepted |-> saved]
  <1>2. stamp' \in Nat /\ stamp' = stamp + 1 BY DEF SaveDocument, IInv, TypeOK
  <1>3. saved \in FileState BY <1>2 DEF FileState
  <1>4. Exists(saved) BY NoSuchPath DEF Exists
  <1>5. /\ file' = [file EXCEPT ![p] = saved]
        /\ EndsWith(d) /\ alert' = "unchanged" /\ truths' = {"unchanged"}
    BY <1>1 DEF Completes
  <1> HIDE DEF saved
  <1>6. file' \in [Paths -> FileState] /\ file'[p] = saved
    BY <1>3, <1>5 DEF IInv, TypeOK
  <1>7. d \in Document /\ Verdict(d, file') = "unchanged"
    BY <1>4, <1>6, NewDocumentIsCurrent
  <1> HIDE DEF d
  <1> QED BY <1>2, <1>5, <1>6, <1>7, EndsKeeps

LEMMA NotCompletedKeeps == ASSUME IInv, NotCompleted PROVE IInv'
  <1>1. doc \in Document /\ Verdict(doc, file') \in truths'
    BY DEF NotCompleted, IInv, TypeOK, TruthOK
  <1> QED BY <1>1, EndsKeeps DEF NotCompleted, IInv, TypeOK, TruthOK, Told

(* What was the case stays told, and what is the case now is told as well. *)
LEMMA ChangeFileKeeps == ASSUME IInv, NEW p \in Paths, ChangeFile(p) PROVE IInv'
  <1> USE DEF IInv, ChangeFile, monitor, threads
  <1>1. PICK o \in Objects \cup {NoObject}, c \in Contents :
          file' = [file EXCEPT ![p] = [object |-> o, content |-> c, stamp |-> stamp + 1]]
    OBVIOUS
  <1>2. stamp' \in Nat /\ stamp' = stamp + 1 BY DEF TypeOK
  <1>3. [object |-> o, content |-> c, stamp |-> stamp + 1] \in FileState
    BY <1>2 DEF FileState
  <1>4. file' \in [Paths -> FileState] BY <1>1, <1>3 DEF TypeOK
  <1>5. TypeOK' BY <1>2, <1>4 DEF TypeOK
  <1>6. SlotOK' BY DEF SlotOK
  <1>7. PastOK' BY DEF PastOK, Tickets, TypeOK
  <1>8. SuspendedOK' BY NoSuchPath DEF SuspendedOK, Tickets
  <1>9. TruthOK' BY DEF TruthOK, Told, Fits, Current, Closed
  <1> QED BY <1>5, <1>6, <1>7, <1>8, <1>9

-----------------------------------------------------------------------------
LEMMA NextKeeps == ASSUME IInv, [Next]_vars PROVE IInv'
  <1>1. CASE UNCHANGED vars BY <1>1, StutterKeeps
  <1>2. CASE Timers
    BY <1>2, InitialCheckKeeps, StartObservationKeeps, BindKeeps DEF Timers
  <1>3. CASE Events BY <1>3, EventKeeps DEF Events
  <1>4. CASE Observing BY <1>4, ObserveKeeps DEF Observing
  <1>5. CASE Delivering BY <1>5, DeliverKeeps DEF Delivering
  <1>6. CASE BeginAction BY <1>6, BeginActionKeeps
  <1>7. CASE EndAction
    BY <1>7, NewDocumentKeeps, OpenDocumentKeeps, SaveDocumentKeeps, NotCompletedKeeps
       DEF EndAction
  <1>8. CASE CloseWindow BY <1>8, CloseWindowKeeps
  <1>9. CASE \E p \in Paths : ChangeFile(p) BY <1>9, ChangeFileKeeps
  <1> QED BY <1>1, <1>2, <1>3, <1>4, <1>5, <1>6, <1>7, <1>8, <1>9 DEF Next

LEMMA InvariantHolds == Spec => []IInv
  <1>1. Init => IInv BY InitOK
  <1>2. IInv /\ [Next]_vars => IInv' BY NextKeeps
  <1> QED BY <1>1, <1>2, PTL DEF Spec

-----------------------------------------------------------------------------

(* One thread at most observes the file of the document, whatever events,  *)
(* suspensions and bindings come while it does.                            *)
THEOREM OneObservationHolds == Spec => []OneObservation
  <1>1. IInv => OneObservation
    <2> SUFFICES ASSUME IInv PROVE OneObservation
      OBVIOUS
    <2>1. Cardinality({}) = 0 BY FS_EmptySet
    <2>2. ASSUME NEW x PROVE Cardinality({x}) = 1 BY FS_Singleton
    <2>3. \/ workers = {} /\ results = {}
          \/ \E x : workers = {x} /\ results = {}
          \/ \E x : workers = {} /\ results = {x}
      BY DEF IInv, SlotOK
    <2>4. CASE workers = {} /\ results = {} BY <2>1, <2>4 DEF OneObservation
    <2>5. ASSUME NEW x, workers = {x} /\ results = {} PROVE OneObservation
      <3>1. Cardinality(workers) = 1 /\ Cardinality(results) = 0 BY <2>1, <2>2, <2>5
      <3> QED BY <3>1 DEF OneObservation
    <2>6. ASSUME NEW x, workers = {} /\ results = {x} PROVE OneObservation
      <3>1. Cardinality(workers) = 0 /\ Cardinality(results) = 1 BY <2>1, <2>2, <2>6
      <3> QED BY <3>1 DEF OneObservation
    <2> QED BY <2>3, <2>4, <2>5, <2>6
  <1> QED BY <1>1, InvariantHolds, PTL

(* What the bar says of the document was the case since it was accepted:   *)
(* no result of a document before, or of the state before a save, is shown.*)
THEOREM AlertWasTrueHolds == Spec => []AlertWasTrue
  <1>1. IInv => AlertWasTrue BY DEF IInv, TruthOK, Told, AlertWasTrue
  <1> QED BY <1>1, InvariantHolds, PTL
=============================================================================
