----------------------------- MODULE AtomicSave -----------------------------
(***************************************************************************)
(* What a guarded write promises: a request to put a text at a place takes *)
(* effect at once or not at all, and the answer says which.  Other writers *)
(* may change any place at any time; a request may die without an answer.  *)
(***************************************************************************)
EXTENDS Integers

CONSTANTS Procs, Places, Versions

VARIABLES
  docs,       \* the version each place holds
  request,    \* the pending request of each process
  answer      \* what each process was last told

vars == <<docs, request, answer>>

Answers == {"none", "failed", "written"}

NoRequest == [pending |-> FALSE]

Requests == [pending : {TRUE}, at : Places, text : Versions, done : BOOLEAN]

Init ==
  /\ docs \in [Places -> Versions]
  /\ request = [p \in Procs |-> NoRequest]
  /\ answer = [p \in Procs |-> "none"]

Ask(p) ==
  /\ request[p] = NoRequest
  /\ \E r \in Requests : ~r.done /\ request' = [request EXCEPT ![p] = r]
  /\ UNCHANGED <<docs, answer>>

TakeEffect(p) ==
  /\ request[p].pending /\ ~request[p].done
  /\ docs' = [docs EXCEPT ![request[p].at] = request[p].text]
  /\ request' = [request EXCEPT ![p].done = TRUE]
  /\ UNCHANGED answer

Answer(p) ==
  /\ request[p].pending
  /\ request' = [request EXCEPT ![p] = NoRequest]
  /\ answer' = [answer EXCEPT ![p] = IF request[p].done THEN "written" ELSE "failed"]
  /\ UNCHANGED docs

(* A request that is refused before it was begun.                          *)
Refuse(p) ==
  /\ request[p] = NoRequest
  /\ answer' = [answer EXCEPT ![p] = "failed"]
  /\ UNCHANGED <<docs, request>>

Die(p) ==
  /\ request' = [request EXCEPT ![p] = NoRequest]
  /\ answer' = [answer EXCEPT ![p] = "none"]
  /\ UNCHANGED docs

(* Others change places: a text that is still to be written they can only  *)
(* link from a place that holds it already.                                *)
StillToBeWritten == {request[p].text : p \in {q \in Procs : request[q].pending /\ ~request[q].done}}

Held == {docs[at] : at \in Places}

ByOthers ==
  \A at \in Places :
    docs'[at] # docs[at] => docs'[at] \in Held \cup (Versions \ StillToBeWritten)

Interfere == ByOthers /\ UNCHANGED <<request, answer>>

(* Power is lost: all processes die, and a place may hold another version, *)
(* but a whole one.                                                        *)
Restart ==
  /\ docs' \in [Places -> Versions]
  /\ request' = [p \in Procs |-> NoRequest]
  /\ answer' = [p \in Procs |-> "none"]

Next ==
  \/ \E p \in Procs : Ask(p) \/ TakeEffect(p) \/ Answer(p) \/ Refuse(p) \/ Die(p)
  \/ Interfere \/ Restart

Spec == Init /\ [][Next]_vars
=============================================================================
