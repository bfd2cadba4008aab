----------------------------- MODULE SpellCheck -----------------------------
(***************************************************************************)
(* The spelling dialog (adapters/gtk/spelling.py), its controller          *)
(* (application/spellcheck.py) and the Hunspell child it talks to over a   *)
(* pipe (infrastructure/hunspell_session.py).  A worker thread asks about  *)
(* one word at a time; the answers come back by idle callbacks, while the  *)
(* user may close the dialog or choose another dictionary at any time.     *)
(*                                                                         *)
(* A text is a sequence of words, a span the position of a word.  The pipe *)
(* carries no names of words that are known: answers belong to questions by*)
(* their order only.  The dialog is modal, so no one else edits the text.  *)
(***************************************************************************)
EXTENDS Integers, Sequences, FiniteSets

CONSTANTS
  Words, Dictionaries,
  Known,            \* the words each dictionary knows
  Texts,            \* the texts a check begins with
  MaxWords,         \* bound: words of a text
  MaxSessions       \* bound: sessions, so changes of the dictionary

ASSUME DictionariesKnowWords == Known \in [Dictionaries -> SUBSET Words]
ASSUME TextsAreBounded == Texts \subseteq UNION {[1 .. n -> Words] : n \in 0 .. MaxWords}
ASSUME BoundsAreNat == MaxWords \in Nat /\ MaxSessions \in Nat \ {0}

Sessions == 1 .. MaxSessions

VARIABLES
  text, mark,       \* the words, and (observer) what was decided of each:
                    \*   new, known, ignored or typed
  cursor,           \* how far the check came
  pending, issue,   \* the word being asked, the unknown word shown; 0 if none
  ignored,          \* the words of Ignore All
  dialog,           \* what the dialog is doing
  ticket,           \* of the last request; older answers are stale
  session,          \* the current session, 0 before the first
  dict,             \* the dictionary of each session
  closed,           \* the sessions that are closed
  child,            \* the Hunspell child of each session
  asked, said,      \* its pipes: questions to answer, answers to read
  queue, step,      \* the executor, and where its first job is
  calls             \* idle callbacks to come

vars == <<text, mark, cursor, pending, issue, ignored, dialog, ticket, session, dict,
          closed, child, asked, said, queue, step, calls>>
check == <<text, mark, cursor, pending, issue, ignored>>
pipes == <<closed, child, asked, said>>
worker == <<queue, step>>

Fresh(t) == [i \in DOMAIN t |-> "new"]

-----------------------------------------------------------------------------
(* Sessions.                                                               *)

(* close, which is cancel: the pipes are closed and the child is reaped.   *)
Closes(s) ==
  /\ closed' = closed \cup {s}
  /\ child' = [child EXCEPT ![s] = "none"]
  /\ asked' = [asked EXCEPT ![s] = <<>>]
  /\ UNCHANGED said

Ends(outcome) ==
  /\ queue' = Tail(queue) /\ step' = "start"
  /\ calls' = calls \cup {[job |-> Head(queue), outcome |-> outcome]}

(* Any failure closes the session, so that no late answer is ever read.    *)
Fails(s) == Closes(s) /\ Ends("error")

HangsForever(s) ==                   \* mutant: no timeout
  s \in closed \/ child[s] = "dead"

(* Reading ends when the session is closed, the child is gone, or in time. *)
GivesUp(s) == s \in Sessions

Working(kind, at) ==
  /\ queue # <<>> /\ Head(queue).kind = kind /\ step = at
  /\ UNCHANGED <<check, dialog, ticket, session, dict>>

(* Hunspell's errors, timeout and cancellation leave the system default:   *)
(* what counts is that it was "found" or that anything else was "raised",  *)
(* a ValueError over a name or a path, a child that cannot be reaped.      *)
DiscoveryEnds == (\E outcome \in {"found", "raised"} : Ends(outcome)) /\ UNCHANGED pipes

(* One read has neither deadline nor cancellation: that after the child    *)
(* exited, which blocks while another process holds the pipe open.         *)
Discover ==
  /\ Working("discovery", "start")
  /\ DiscoveryEnds \/ (step' = "blocked" /\ UNCHANGED <<pipes, queue, calls>>)

(* That process writes or goes, which it need not do.                      *)
Unblock == Working("discovery", "blocked") /\ DiscoveryEnds

StartUnlessRunning(s) == s \notin closed \/ child[s] = "none"   \* mutant: closed is not looked at
MayStart(s) == s \notin closed

Start ==
  LET s == Head(queue).session IN
  /\ Working("check", "start")
  /\ \/ /\ ~MayStart(s) /\ Fails(s)
     \/ /\ MayStart(s) /\ child[s] # "none"
        /\ step' = "send" /\ UNCHANGED <<pipes, queue, calls>>
     \/ /\ MayStart(s) /\ child[s] = "none"
        /\ child' = [child EXCEPT ![s] = "alive"]
        /\ step' = "banner" /\ UNCHANGED <<closed, asked, said, queue, calls>>
     \/ /\ MayStart(s) /\ child[s] = "none" /\ Fails(s)

Banner ==
  LET s == Head(queue).session IN
  /\ Working("check", "banner")
  /\ \/ /\ child[s] = "alive"
        /\ step' = "send" /\ UNCHANGED <<pipes, queue, calls>>
     \/ GivesUp(s) /\ Fails(s)

Send ==
  LET s == Head(queue).session IN
  /\ Working("check", "send")
  /\ \/ /\ child[s] = "alive"
        /\ asked' = [asked EXCEPT ![s] = Append(@, Head(queue).word)]
        /\ step' = "read" /\ UNCHANGED <<closed, child, said, queue, calls>>
     \/ /\ child[s] # "alive" /\ Fails(s)

(* A single record names its unknown word, which is compared, but a group  *)
(* of several (a compound) is taken for whatever was asked: so any answer. *)
Read ==
  LET s == Head(queue).session
      w == Head(said[s])
  IN
  /\ Working("check", "read")
  /\ \/ /\ said[s] # <<>>
        /\ said' = [said EXCEPT ![s] = Tail(@)]
        /\ Ends(IF w \in Known[dict[s]] THEN "known" ELSE "unknown")
        /\ UNCHANGED <<closed, child, asked>>
     \/ GivesUp(s) /\ Fails(s)

Check == Start \/ Banner \/ Send \/ Read

(* The child answers in order, or dies, whenever it likes.                 *)
Answer(s) ==
  /\ child[s] = "alive" /\ asked[s] # <<>>
  /\ said' = [said EXCEPT ![s] = Append(@, Head(asked[s]))]
  /\ asked' = [asked EXCEPT ![s] = Tail(@)]
  /\ UNCHANGED <<check, dialog, ticket, session, dict, closed, child, worker, calls>>

Die(s) ==
  /\ child[s] = "alive"
  /\ child' = [child EXCEPT ![s] = "dead"]
  /\ UNCHANGED <<check, dialog, ticket, session, dict, closed, asked, said, worker, calls>>

-----------------------------------------------------------------------------
(* The dialog.                                                             *)

(* The next word of t after c that is not ignored is asked, if there is one.*)
Advance(t, m, c, skip, s, tk) ==
  LET ahead == {i \in c + 1 .. Len(t) : t[i] \notin skip}
      next == CHOOSE i \in ahead : \A j \in ahead : i <= j
      upTo == IF ahead = {} THEN Len(t) ELSE next
  IN
  /\ text' = t /\ ignored' = skip /\ issue' = 0
  /\ mark' = [i \in DOMAIN t |-> IF i \in c + 1 .. upTo /\ t[i] \in skip THEN "ignored" ELSE m[i]]
  /\ cursor' = upTo
  /\ pending' = IF ahead = {} THEN 0 ELSE next
  /\ ticket' = IF ahead = {} THEN tk ELSE tk + 1
  /\ queue' = IF ahead = {} THEN queue
              ELSE Append(queue, [kind |-> "check", ticket |-> tk + 1, session |-> s,
                                  at |-> next, word |-> t[next]])
  /\ UNCHANGED step

AnyTicket(c) == TRUE                 \* mutant: stale answers are taken
IsCurrent(c) == c.job.ticket = ticket

Marked(at, m) == [mark EXCEPT ![at] = m]

(* What discovery raised, or what showing a name that is no text raises,   *)
(* ends the callback: the dialog goes on saying that it is finding.        *)
Deliver(c) ==
  /\ dialog \in {"finding", "ready", "fatal"}
  /\ calls' = calls \ {c}
  /\ \/ /\ ~IsCurrent(c)
        /\ UNCHANGED <<check, dialog, ticket, session, dict, pipes, worker>>
     \/ /\ IsCurrent(c) /\ c.outcome = "found"
        /\ dialog' = "ready" /\ session' = 1
        /\ Advance(text, mark, 0, {}, 1, ticket)
        /\ UNCHANGED <<dict, pipes>>
     \/ /\ IsCurrent(c) /\ c.outcome = "raised"
        /\ dialog' = "stuck"
        /\ UNCHANGED <<check, ticket, session, dict, pipes, worker>>
     \/ /\ IsCurrent(c) /\ c.outcome = "known" /\ c.job.at = pending
        /\ Advance(text, Marked(c.job.at, "known"), cursor, ignored, session, ticket)
        /\ UNCHANGED <<dialog, session, dict, pipes>>
     \/ /\ IsCurrent(c) /\ c.outcome = "unknown" /\ c.job.at = pending
        /\ pending' = 0 /\ issue' = c.job.at
        /\ UNCHANGED <<text, mark, cursor, ignored, dialog, ticket, session, dict, pipes, worker>>
     \/ /\ IsCurrent(c) /\ c.outcome = "error"
        /\ dialog' = "fatal"
        /\ UNCHANGED <<check, ticket, session, dict, pipes, worker>>

Ignore ==
  /\ dialog = "ready" /\ issue # 0
  /\ Advance(text, Marked(issue, "ignored"), cursor, ignored, session, ticket)
  /\ UNCHANGED <<dialog, session, dict, pipes, calls>>

IgnoreAll ==
  /\ dialog = "ready" /\ issue # 0
  /\ Advance(text, Marked(issue, "ignored"), cursor, ignored \cup {text[issue]}, session, ticket)
  /\ UNCHANGED <<dialog, session, dict, pipes, calls>>

AfterTheOldWord(at, r) == at         \* mutant: the length of the replacement is forgotten
AfterReplacement(at, r) == at - 1 + Len(r)

Spliced(s, at, r) == SubSeq(s, 1, at - 1) \o r \o SubSeq(s, at + 1, Len(s))

(* The unknown word is replaced by what the user chose or typed: none, one *)
(* or more words, which are not checked again.                             *)
Replace ==
  /\ dialog = "ready" /\ issue # 0
  /\ \E r \in UNION {[1 .. n -> Words] : n \in 0 .. 1 + MaxWords - Len(text)} :
       Advance(Spliced(text, issue, r), Spliced(mark, issue, [i \in DOMAIN r |-> "typed"]),
               AfterReplacement(issue, r), ignored, session, ticket)
  /\ UNCHANGED <<dialog, session, dict, pipes, calls>>

(* The editor refuses the replacement (a limit, an open user action).      *)
ReplaceRefused ==
  /\ dialog = "ready" /\ issue # 0
  /\ dialog' = "fatal"
  /\ UNCHANGED <<check, ticket, session, dict, pipes, worker, calls>>

(* Another dictionary: the session is cancelled and the check begins anew. *)
Restart(d) ==
  /\ dialog = "ready" /\ session < MaxSessions /\ d # dict[session]
  /\ Closes(session)
  /\ session' = session + 1
  /\ dict' = [dict EXCEPT ![session + 1] = d]
  /\ Advance(text, Fresh(text), 0, {}, session + 1, ticket + 1)
  /\ UNCHANGED <<dialog, calls>>

(* Closing waits for the job the worker is at; what is queued is dropped.  *)
Close ==
  /\ dialog \in {"finding", "stuck", "ready", "fatal"}
  /\ dialog' = "closing"
  /\ ticket' = ticket + 1
  /\ pending' = 0 /\ issue' = 0 /\ ignored' = {}
  /\ IF session = 0 THEN UNCHANGED pipes ELSE Closes(session)
  /\ queue' = IF queue = <<>> THEN <<>> ELSE <<Head(queue)>>
  /\ UNCHANGED <<text, mark, cursor, session, dict, step, calls>>

Closed ==
  /\ dialog = "closing" /\ queue = <<>>
  /\ dialog' = "closed"
  /\ UNCHANGED <<check, ticket, session, dict, pipes, worker, calls>>

-----------------------------------------------------------------------------

Init ==
  /\ text \in Texts /\ mark = Fresh(text)
  /\ cursor = 0 /\ pending = 0 /\ issue = 0 /\ ignored = {}
  /\ dialog = "finding" /\ ticket = 1 /\ session = 0
  /\ dict \in {[s \in Sessions |-> d] : d \in Dictionaries}
  /\ closed = {} /\ child = [s \in Sessions |-> "none"]
  /\ asked = [s \in Sessions |-> <<>>] /\ said = [s \in Sessions |-> <<>>]
  /\ queue = <<[kind |-> "discovery", ticket |-> 1]>> /\ step = "start"
  /\ calls = {}

Delivery == \E c \in calls : Deliver(c)
User ==
  \/ Ignore \/ IgnoreAll \/ Replace \/ ReplaceRefused \/ Close
  \/ \E d \in Dictionaries : Restart(d)
Hunspell == \E s \in Sessions : Answer(s) \/ Die(s)

Next == Discover \/ Unblock \/ Check \/ Hunspell \/ Delivery \/ User \/ Closed

(* The worker and the main loop go on, but for a worker whose read blocks; *)
(* the children, who holds their pipes, and the user need not.             *)
Fairness ==
  WF_vars(Discover) /\ WF_vars(Check) /\ WF_vars(Delivery) /\ WF_vars(Closed)

Spec == Init /\ [][Next]_vars /\ Fairness

-----------------------------------------------------------------------------

(* What the dialog says of a word is what the chosen dictionary says of it:*)
(* no answer of an earlier session, or to an earlier question, is used.    *)
VerdictsAreTrue ==
  /\ \A i \in DOMAIN text : mark[i] = "known" => text[i] \in Known[dict[session]]
  /\ issue # 0 => text[issue] \notin Known[dict[session]]

(* No word is passed over: all up to the cursor were decided, but for the  *)
(* one that is being asked or shown.                                       *)
NothingSkipped ==
  dialog = "ready" =>
    \A i \in 1 .. cursor : mark[i] = "new" <=> i \in {pending, issue}

(* There is at most one Hunspell child to ask, and none when the dialog is *)
(* gone (the child of discovery, which has none of a session, is not       *)
(* counted).                                                               *)
OneChild ==
  LET running == {s \in Sessions : child[s] # "none"} IN
  Cardinality(running) <= 1 /\ (dialog = "closed" => running = {})

(* What no one but another process, or the user by closing, will end: a    *)
(* worker that blocks in discovery, and a dialog whose discovery raised.   *)
DiscoveryHangs == step = "blocked" \/ dialog = "stuck"

(* Once discovery has found what it could, the user waits for no answer for*)
(* ever, whatever the child does; and unless discovery hangs, the dialog   *)
(* waits neither for it nor, when it closes, for the worker.               *)
Waiting == dialog \in {"finding", "stuck", "closing"} \/ (dialog = "ready" /\ pending # 0)
WaitsEnd == <>[](Waiting => DiscoveryHangs)
=============================================================================
