-------------------------- MODULE ExternalMonitor ---------------------------
(***************************************************************************)
(* Telling the user that the file of the document changed on disk          *)
(* (adapters/gtk/external_monitor.py, infrastructure/document_observer.py, *)
(* and the window around them).  File monitors only interrupt: each event  *)
(* leads, after a delay, to an observation by a thread, whose result comes *)
(* back by an idle callback and may then belong to a document that was     *)
(* replaced or saved in the meantime.                                      *)
(*                                                                         *)
(* A state of a file is its object, its content and a stamp that every     *)
(* change renews (the times and the other metadata).  The events a monitor *)
(* does not report or the filters reject are left out.                     *)
(***************************************************************************)
EXTENDS Integers, FiniteSets

CONSTANTS
  Paths, Objects, Contents,
  NoPath, NoObject,
  MaxStamp,         \* bound: changes of files
  MaxGeneration,    \* bound: bindings and suspensions
  Faults            \* which calls may fail

ASSUME NoSuchPath == NoPath \notin Paths /\ NoObject \notin Objects
ASSUME SomeFile == Objects # {} /\ Contents # {}
ASSUME Bounds == MaxStamp \in Nat /\ MaxGeneration \in Nat
ASSUME FaultKinds == Faults \subseteq {"monitor"}

VARIABLES
  file,         \* under each path: its object or none, content and stamp
  stamp,        \* changes so far
  doc,          \* the document: its path and the accepted state of the file
  phase,        \* what the window does: idle, a lifecycle action, closed
  rebind,       \* the timer of the window that binds the monitor again
  generation,   \* of bindings and suspensions
  watched,      \* the path the monitors watch
  events,       \* generations of monitors with an event to deliver
  initial,      \* the timer of the first check: its generation, or none
  debounce,     \* the timer of the next observation: its generation, or none
  inflight,     \* whether the observation slot is taken
  pending,      \* the generation that asked while it was, or none
  workers,      \* observations under way
  results,      \* results not delivered
  alert,        \* the information bar: a Classified verdict, or unavailable
  truths        \* observer: what was the case since the document was accepted

vars == <<file, stamp, doc, phase, rebind, generation, watched, events, initial,
          debounce, inflight, pending, workers, results, alert, truths>>
monitor == <<generation, watched, initial, debounce, pending>>
threads == <<inflight, workers, results>>

None == 0   \* generations begin at 1

Untitled == [path |-> NoPath]

Exists(s) == s.object # NoObject

(* A fresh observation compared with the accepted state.                   *)
Classified(accepted, fresh) ==
  IF ~Exists(fresh) THEN "missing"
  ELSE IF accepted.object # fresh.object THEN "replaced"
  ELSE IF accepted.content # fresh.content THEN "content"
  ELSE IF accepted.stamp # fresh.stamp THEN "metadata"
  ELSE "unchanged"

IsNamed == doc # Untitled
Closed == phase = "closed"
Current(g) == ~Closed /\ g = generation

(* What the bar ought to say of document d.                                *)
Verdict(d, files) ==
  IF d = Untitled THEN "unchanged" ELSE Classified(d.accepted, files[d.path])

-----------------------------------------------------------------------------
(* The monitor, on the main thread.                                        *)

Suspend ==
  /\ generation' = generation + 1
  /\ pending' = None /\ debounce' = None /\ initial' = None
  /\ watched' = NoPath

(* The one slot: a request that finds it taken is kept, and one that finds *)
(* the timer set waits for it, unless it is the immediate one.             *)
ScheduleAtOnce(g) ==                 \* mutant: no look at the slot
  debounce' = g /\ UNCHANGED pending

Schedule(g) ==
  IF inflight
  THEN /\ pending' = g /\ UNCHANGED debounce
  ELSE /\ debounce' = g /\ UNCHANGED pending

Event(g) ==
  /\ g \in events
  /\ events' = events \ {g}
  /\ \/ /\ Current(g) /\ Schedule(g)
     \/ /\ ~Current(g) /\ UNCHANGED <<pending, debounce>>
  /\ UNCHANGED <<file, stamp, doc, phase, rebind, generation, watched, initial,
                 threads, alert, truths>>

InitialCheck ==
  /\ initial # None
  /\ initial' = None
  /\ Schedule(initial)
  /\ UNCHANGED <<file, stamp, doc, phase, rebind, generation, watched, events,
                 threads, alert, truths>>

StartObservation ==
  /\ debounce # None
  /\ debounce' = None
  /\ \/ /\ IsNamed
        /\ inflight' = TRUE
        /\ pending' = IF pending = debounce THEN None ELSE pending
        /\ workers' = workers \cup
             {[ticket |-> [generation |-> debounce, path |-> doc.path, accepted |-> doc.accepted],
               retries |-> 1, read |-> {}]}
        /\ UNCHANGED results
     \/ /\ ~IsNamed
        /\ UNCHANGED <<threads, pending>>
  /\ UNCHANGED <<file, stamp, doc, phase, rebind, generation, watched, events, initial,
                 alert, truths>>

GivesUp(w) == w.retries = 0

(* The thread: the file is opened, hashed and looked at again.  If it has  *)
(* changed it is read once more, and then the observation is given up.     *)
Observe(w) ==
  LET now == file[w.ticket.path]
      becomes(v) == workers' = (workers \ {w}) \cup {v} /\ UNCHANGED results
      reports(status) ==
        /\ workers' = workers \ {w}
        /\ results' = results \cup {[ticket |-> w.ticket, status |-> status]}
  IN
  /\ w \in workers
  /\ \/ w.read = {} /\ ~Exists(now) /\ reports("missing")
     \/ w.read = {} /\ Exists(now) /\ becomes([w EXCEPT !.read = {now}])
     \/ w.read = {now} /\ reports(Classified(w.ticket.accepted, now))
     \/ w.read \notin {{}, {now}} /\ GivesUp(w) /\ reports("unavailable")
     \/ w.read \notin {{}, {now}} /\ ~GivesUp(w)
        /\ becomes([w EXCEPT !.retries = @ - 1, !.read = {}])
  /\ UNCHANGED <<file, stamp, doc, phase, rebind, monitor, events, inflight, alert, truths>>

NeverAsked == FALSE                  \* mutant: the request that was kept is lost

AskedMeanwhile == pending # None /\ Current(pending)

FitsPath(r) ==                       \* mutant: any result of the path is shown
  IsNamed /\ doc.path = r.ticket.path

Fits(r) ==
  /\ Current(r.ticket.generation)
  /\ doc = [path |-> r.ticket.path, accepted |-> r.ticket.accepted]

(* The idle callback: the slot is free.  A result is shown if it is of the *)
(* binding and the accepted state of now, and nothing newer was asked for. *)
Deliver(r) ==
  /\ r \in results
  /\ results' = results \ {r}
  /\ inflight' = FALSE
  /\ pending' = None
  /\ \/ /\ Fits(r) /\ ~AskedMeanwhile
        /\ alert' = r.status
     \/ /\ ~Fits(r) \/ AskedMeanwhile
        /\ UNCHANGED alert
  /\ debounce' = IF AskedMeanwhile /\ debounce = None THEN pending ELSE debounce
  /\ UNCHANGED <<file, stamp, doc, phase, rebind, generation, watched, events, initial,
                 workers, truths>>

(* The window binds the monitor to the document of now.  It may be refused.*)
Bind ==
  /\ phase # "closed" /\ rebind
  /\ rebind' = FALSE
  /\ generation' = generation + 1
  /\ pending' = None /\ debounce' = None
  /\ \/ /\ IsNamed
        /\ watched' = doc.path /\ initial' = generation + 1
        /\ UNCHANGED alert
     \/ /\ IsNamed /\ "monitor" \in Faults
        /\ watched' = NoPath /\ initial' = None
        /\ alert' = "unavailable"
     \/ /\ ~IsNamed
        /\ watched' = NoPath /\ initial' = None
        /\ UNCHANGED alert
  /\ UNCHANGED <<file, stamp, doc, phase, events, threads, truths>>

-----------------------------------------------------------------------------
(* The window: every lifecycle action suspends the monitor, may show       *)
(* dialogs, and has the monitor bound again a moment after its end.        *)

BeginAction ==
  /\ phase = "idle" /\ generation + 2 <= MaxGeneration
  /\ phase' = "acting"
  /\ rebind' = FALSE
  /\ Suspend
  /\ UNCHANGED <<file, stamp, doc, events, threads, alert, truths>>

EndsWith(d) ==
  /\ phase = "acting"
  /\ phase' = "idle" /\ rebind' = TRUE
  /\ doc' = d
  /\ UNCHANGED <<monitor, events, threads>>

(* A completed action clears the bar.                                      *)
Completes(d) == EndsWith(d) /\ alert' = "unchanged" /\ truths' = {"unchanged"}

NewDocument == Completes(Untitled) /\ UNCHANGED <<file, stamp>>

(* Open, Reload, and recovery at startup.                                  *)
OpenDocument ==
  \E p \in Paths :
    /\ Exists(file[p])
    /\ Completes([path |-> p, accepted |-> file[p]])
    /\ UNCHANGED <<file, stamp>>

(* Save replaces the accepted object by a new one; it fails if the file is *)
(* not as accepted.  Save As may take any path, once confirmed.            *)
SaveDocument ==
  /\ stamp < MaxStamp
  /\ \E p \in Paths, o \in Objects, c \in Contents :
       LET saved == [object |-> o, content |-> c, stamp |-> stamp + 1] IN
       /\ IsNamed /\ p = doc.path => file[p] = doc.accepted
       /\ o # file[p].object
       /\ file' = [file EXCEPT ![p] = saved]
       /\ Completes([path |-> p, accepted |-> saved])
  /\ stamp' = stamp + 1

(* Cancelled, refused or failed.                                           *)
NotCompleted == EndsWith(doc) /\ UNCHANGED <<file, stamp, alert, truths>>

EndAction == NewDocument \/ OpenDocument \/ SaveDocument \/ NotCompleted

CloseWindow ==
  /\ phase = "acting"
  /\ phase' = "closed"
  /\ rebind' = FALSE
  /\ Suspend
  /\ UNCHANGED <<file, stamp, doc, events, threads, alert, truths>>

(* Another program writes the file, touches it, replaces or removes it.    *)
ChangeFile(p) ==
  /\ stamp < MaxStamp
  /\ \E o \in Objects \cup {NoObject}, c \in Contents :
       file' = [file EXCEPT ![p] = [object |-> o, content |-> c, stamp |-> stamp + 1]]
  /\ stamp' = stamp + 1
  /\ events' = IF watched = p THEN events \cup {generation} ELSE events
  /\ truths' = truths \cup {Verdict(doc, file')}
  /\ UNCHANGED <<doc, phase, rebind, monitor, threads, alert>>

-----------------------------------------------------------------------------

(* Objects are alike, and so are contents.                                 *)
First == [object |-> CHOOSE o \in Objects : TRUE, content |-> CHOOSE c \in Contents : TRUE,
          stamp |-> 0]

Init ==
  /\ file = [p \in Paths |-> First]
  /\ stamp = 0
  /\ doc \in {Untitled} \cup {[path |-> p, accepted |-> file[p]] : p \in Paths}
  /\ phase = "idle" /\ rebind = TRUE
  /\ generation = 1 /\ watched = NoPath /\ events = {}
  /\ initial = None /\ debounce = None /\ pending = None
  /\ inflight = FALSE /\ workers = {} /\ results = {}
  /\ alert = "unchanged" /\ truths = {"unchanged"}

Timers == InitialCheck \/ StartObservation \/ Bind
Events == \E g \in events : Event(g)
Observing == \E w \in workers : Observe(w)
Delivering == \E r \in results : Deliver(r)

Next ==
  \/ Timers \/ Events \/ Observing \/ Delivering
  \/ BeginAction \/ EndAction \/ CloseWindow
  \/ \E p \in Paths : ChangeFile(p)

(* Timers, events, threads and idle callbacks are served.                  *)
Fairness ==
  /\ WF_vars(InitialCheck) /\ WF_vars(StartObservation) /\ WF_vars(Bind)
  /\ WF_vars(Events) /\ WF_vars(Observing) /\ WF_vars(Delivering)

Spec == Init /\ [][Next]_vars /\ Fairness

-----------------------------------------------------------------------------

(* At most one thread observes the file, through suspensions, new bindings *)
(* and bursts of events.                                                   *)
OneObservation == Cardinality(workers) + Cardinality(results) <= 1

(* The bar never says of a document what was not the case at some time     *)
(* since it was accepted: a late result of the document before, or of the  *)
(* state before a save, is not shown.                                      *)
AlertWasTrue == alert \in truths \cup {"unavailable"}

(* When changes and actions come to an end, the bar says what is the case, *)
(* although events may come while an observation of an old binding has the *)
(* slot, and changes may tear an observation.                              *)
Settled == phase = "idle" /\ watched # NoPath => alert = Verdict(doc, file)
AlertCatchesUp == <>[]Settled
=============================================================================
