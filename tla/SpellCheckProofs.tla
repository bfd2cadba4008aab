-------------------------- MODULE SpellCheckProofs --------------------------
(***************************************************************************)
(* For every text, every set of dictionaries and every number of sessions: *)
(* what the dialog says of a word is what the chosen dictionary says of it,*)
(* no word is passed over and there is never a second Hunspell child.      *)
(*                                                                         *)
(* Answers carry no names of words that are known, so the invariant has to *)
(* say what is in the pipes (PipesOK): those of a session that is open hold*)
(* nothing but the one question that is being asked, or its answer.        *)
(* Whatever failed has closed its session, and a closed session is never   *)
(* asked again.  The other half is about the callbacks (JobsOK, AnswersOK):*)
(* an answer is true of the word and the dictionary it was asked about, and*)
(* the answer with the current ticket is about the word that is pending.   *)
(***************************************************************************)
EXTENDS SpellCheck, FiniteSetTheorems, SequenceTheorems, TLAPS

Numbers == INSTANCE EditorBufferProofs WITH Chars <- Words

Marks == {"new", "known", "ignored", "typed"}
Discovery == [kind |-> "discovery", ticket |-> 1]
Checks == [kind : {"check"}, ticket : Nat, session : Sessions, at : Nat \ {0}, word : Words]
Jobs == Checks \cup {Discovery}
Outcomes == {"found", "raised", "known", "unknown", "error"}
Dialogs == {"finding", "stuck", "ready", "fatal", "closing", "closed"}
Steps == {"start", "blocked", "banner", "send", "read"}
JobsOf(q) == {q[k] : k \in DOMAIN q}

TypeOK ==
  /\ text \in Seq(Words) /\ mark \in Seq(Marks) /\ Len(mark) = Len(text)
  /\ cursor \in 0 .. Len(text) /\ pending \in Nat /\ issue \in Nat
  /\ ignored \subseteq Words
  /\ dialog \in Dialogs
  /\ ticket \in Nat /\ session \in 0 .. MaxSessions
  /\ dict \in [Sessions -> Dictionaries] /\ closed \subseteq Sessions
  /\ child \in [Sessions -> {"none", "alive", "dead"}]
  /\ asked \in [Sessions -> Seq(Words)] /\ said \in [Sessions -> Seq(Words)]
  /\ queue \in Seq(Jobs) /\ step \in Steps
  /\ calls \subseteq [job : Jobs, outcome : Outcomes]
  /\ (queue = <<>> => step = "start")

(* Until a dictionary was found nothing is asked and nothing decided.      *)
FirstOK ==
  /\ dialog \in {"finding", "stuck"} => session = 0 /\ ticket = 1
  /\ session = 0 =>
       /\ dialog \in {"finding", "stuck", "closing", "closed"}
       /\ issue = 0 /\ \A i \in DOMAIN mark : mark[i] = "new"
       /\ queue = <<>> \/ (queue = <<Discovery>> /\ step \in {"start", "blocked"} /\ calls = {})
       /\ \E o \in {"found", "raised"} : calls \subseteq {[job |-> Discovery, outcome |-> o]}
       /\ \A s \in Sessions : child[s] = "none" /\ asked[s] = <<>> /\ said[s] = <<>>

(* Only the job with the current ticket can be about the pending word.     *)
JobOK(j) ==
  /\ j \in Checks /\ j.session <= session /\ j.ticket <= ticket
  /\ j.ticket = ticket =>
       j.session = session /\ (j.at = pending => text[pending] = j.word)

JobsOK ==
  session # 0 =>
    /\ \A j \in JobsOf(queue) : JobOK(j)
    /\ \A c \in calls : JobOK(c.job)

(* An answer is true of the word and of the dictionary it was asked about. *)
AnswerOK(c) ==
  /\ c.outcome \notin {"found", "raised"}
  /\ c.outcome = "known" => c.job.word \in Known[dict[c.job.session]]
  /\ c.outcome = "unknown" => c.job.word \notin Known[dict[c.job.session]]

AnswersOK == session # 0 => \A c \in calls : AnswerOK(c)

SessionsOK ==
  /\ \A s \in Sessions : s < session => s \in closed
  /\ \A s \in Sessions : s > session => child[s] = "none"
  /\ \A s \in closed : child[s] = "none" /\ asked[s] = <<>>
  /\ dialog \in {"closing", "closed"} /\ session # 0 => session \in closed

Reading(s) == step = "read" /\ Head(queue).session = s

PipeOK(s) ==
  /\ Reading(s) =>
       \/ said[s] = <<>> /\ asked[s] \in {<<>>, <<Head(queue).word>>}
       \/ said[s] = <<Head(queue).word>> /\ asked[s] = <<>>
  /\ ~Reading(s) /\ s \notin closed => said[s] = <<>> /\ asked[s] = <<>>

PipesOK == \A s \in Sessions : PipeOK(s)

(* What is decided is all before the cursor, except the word in hand.      *)
DecidedOK ==
  dialog \in {"ready", "fatal"} =>
    /\ pending \in {0, cursor} /\ issue \in {0, cursor}
    /\ \A i \in 1 .. cursor : mark[i] = "new" <=> i \in {pending, issue}
    /\ \A i \in cursor + 1 .. Len(text) : mark[i] = "new"

IInv == TypeOK /\ FirstOK /\ JobsOK /\ AnswersOK /\ SessionsOK /\ PipesOK
          /\ DecidedOK /\ VerdictsAreTrue

-----------------------------------------------------------------------------
(* The executor's queue and the pipes.                                     *)

LEMMA Appended ==
  ASSUME NEW q \in Seq(Jobs), NEW j \in Jobs
  PROVE  /\ Append(q, j) \in Seq(Jobs) /\ Append(q, j) # <<>>
         /\ JobsOf(Append(q, j)) = JobsOf(q) \cup {j}
         /\ q # <<>> => Head(Append(q, j)) = Head(q)
<1> DEFINE J == Jobs
<1>0. q \in Seq(J) /\ j \in J
  OBVIOUS
<1> HIDE DEF J
<1> DEFINE u == Append(q, j)
<1>1. u \in Seq(J) /\ Len(u) = Len(q) + 1 /\ Len(q) \in Nat /\ u[Len(q) + 1] = j
        /\ \A k \in 1 .. Len(q) : u[k] = q[k]
  BY <1>0, SMT
<1>2. q # <<>> => Len(q) >= 1
  BY <1>0, SMT
<1> DEFINE D == DOMAIN u
           E == DOMAIN q
<1>3. D = 1 .. Len(q) + 1 /\ E = 1 .. Len(q)
  BY <1>0, <1>1, SMT
<1>4. D = E \cup {Len(q) + 1} /\ \A k \in E : u[k] = q[k]
  BY <1>1, <1>3, SMT
<1>5. u # <<>>
  BY <1>0, <1>1, SMT
<1>6. Head(u) = u[1] /\ Head(q) = q[1]
  BY <1>0, <1>1, <1>5, SMT
<1>7. q # <<>> => Head(u) = Head(q)
  BY <1>1, <1>2, <1>6, SMT
<1>8. JobsOf(u) = {u[k] : k \in D} /\ JobsOf(q) = {q[k] : k \in E}
  BY DEF JobsOf
<1> HIDE DEF u, D, E
<1>9. JobsOf(u) = JobsOf(q) \cup {j}
  <2>1. ASSUME NEW x \in JobsOf(u)
        PROVE  x \in JobsOf(q) \cup {j}
    BY <1>1, <1>4, <1>8, Zenon
  <2>2. ASSUME NEW x \in JobsOf(q) \cup {j}
        PROVE  x \in JobsOf(u)
    BY <1>1, <1>4, <1>8, Zenon
  <2> QED
    BY <2>1, <2>2, Zenon
<1> QED
  BY <1>1, <1>5, <1>7, <1>9 DEF u, J

LEMMA Finished ==
  ASSUME NEW q \in Seq(Jobs), q # <<>>
  PROVE  /\ Tail(q) \in Seq(Jobs) /\ <<Head(q)>> \in Seq(Jobs)
         /\ Head(q) \in Jobs /\ Head(q) \in JobsOf(q)
         /\ JobsOf(Tail(q)) \subseteq JobsOf(q)
         /\ JobsOf(<<Head(q)>>) \subseteq JobsOf(q)
         /\ <<Head(q)>> # <<>> /\ Head(<<Head(q)>>) = Head(q)
<1> DEFINE J == Jobs
<1>0. q \in Seq(J)
  OBVIOUS
<1> HIDE DEF J
<1>1. Len(q) \in Nat /\ Len(q) >= 1 /\ DOMAIN q = 1 .. Len(q) /\ Head(q) = q[1] /\ q[1] \in J
  BY <1>0, SMT
<1>2. Tail(q) \in Seq(J) /\ DOMAIN Tail(q) = 1 .. Len(q) - 1
        /\ \A k \in 1 .. Len(q) - 1 : Tail(q)[k] = q[k + 1]
  BY <1>0, <1>1, SMT
<1>3. <<Head(q)>> \in Seq(J) /\ DOMAIN <<Head(q)>> = {1} /\ <<Head(q)>>[1] = Head(q)
        /\ <<Head(q)>> # <<>> /\ Head(<<Head(q)>>) = Head(q)
  BY <1>1, SMT
<1>4. \A k \in DOMAIN Tail(q) : k + 1 \in DOMAIN q /\ Tail(q)[k] = q[k + 1]
  BY <1>1, <1>2, SMT
<1>5. Head(q) \in JobsOf(q)
  <2>1. 1 \in DOMAIN q
    BY <1>1, SMT
  <2> QED
    BY <1>1, <2>1, Zenon DEF JobsOf
<1>6. JobsOf(Tail(q)) \subseteq JobsOf(q)
  BY <1>4, Zenon DEF JobsOf
<1>7. JobsOf(<<Head(q)>>) \subseteq JobsOf(q)
  <2>1. ASSUME NEW x \in JobsOf(<<Head(q)>>)
        PROVE  x = Head(q)
    BY <1>3, Zenon DEF JobsOf
  <2> QED
    BY <1>5, <2>1, Zenon
<1> QED
  BY <1>1, <1>2, <1>3, <1>5, <1>6, <1>7 DEF J

(* A pipe that holds one word, and then none.                              *)
LEMMA OneWord ==
  ASSUME NEW w \in Words
  PROVE  /\ Append(<<>>, w) = <<w>> /\ <<w>> \in Seq(Words)
         /\ <<w>> # <<>> /\ Head(<<w>>) = w /\ Tail(<<w>>) = <<>>
  OBVIOUS

LEMMA NoWords == <<>> \in Seq(Words) /\ <<>> \in Seq(Jobs) /\ JobsOf(<<>>) = {}
  BY DEF JobsOf

-----------------------------------------------------------------------------
(* next_request: the words that are ignored are passed, and one is asked.  *)
LEMMA AdvanceStops ==
  ASSUME NEW t \in Seq(Words), NEW m \in Seq(Marks), Len(m) = Len(t),
         NEW c \in 0 .. Len(t), NEW skip \in SUBSET Words,
         NEW s \in Sessions, NEW tk \in Nat,
         \A i \in 1 .. c : m[i] # "new",
         \A i \in c + 1 .. Len(t) : m[i] = "new",
         Advance(t, m, c, skip, s, tk)
  PROVE  /\ text' = t /\ ignored' = skip /\ issue' = 0 /\ step' = step
         /\ mark' \in Seq(Marks) /\ Len(mark') = Len(t)
         /\ cursor' \in 0 .. Len(t) /\ pending' \in {0, cursor'}
         /\ \A i \in 1 .. cursor' : mark'[i] = "new" <=> i = pending'
         /\ \A i \in cursor' + 1 .. Len(t) : mark'[i] = "new"
         /\ \A i \in 1 .. Len(t) : mark'[i] = "known" => m[i] = "known"
         /\ \/ pending' = 0 /\ ticket' = tk /\ queue' = queue
            \/ /\ pending' # 0 /\ ticket' = tk + 1
               /\ \E j \in Checks :
                    /\ queue' = Append(queue, j)
                    /\ j.ticket = tk + 1 /\ j.session = s
                    /\ j.at = pending' /\ j.word = t[pending']
<1> DEFINE L == Len(t)
           ahead == {i \in c + 1 .. L : t[i] \notin skip}
           next == CHOOSE i \in ahead : \A j \in ahead : i <= j
           upTo == IF ahead = {} THEN L ELSE next
<1>1. L \in Nat /\ DOMAIN t = 1 .. L /\ DOMAIN m = 1 .. L /\ \A i \in 1 .. L : t[i] \in Words /\ m[i] \in Marks
  BY SMT
<1>2. ahead # {} => next \in ahead /\ \A j \in ahead : next <= j
  <2>1. ahead \in SUBSET Nat
    BY <1>1, SMT
  <2>2. ahead # {} => \E i \in ahead : \A j \in ahead : i <= j
    <3> HIDE DEF ahead
    <3> QED
      BY <2>1, Numbers!NaturalsHaveLeast
  <2> QED
    <3> HIDE DEF ahead
    <3> QED
      BY <2>2, Zenon
<1>3. /\ text' = t /\ ignored' = skip /\ issue' = 0 /\ step' = step
      /\ mark' = [i \in 1 .. L |-> IF i \in c + 1 .. upTo /\ t[i] \in skip THEN "ignored" ELSE m[i]]
      /\ cursor' = upTo
      /\ pending' = IF ahead = {} THEN 0 ELSE next
      /\ ticket' = IF ahead = {} THEN tk ELSE tk + 1
      /\ queue' = IF ahead = {} THEN queue
                  ELSE Append(queue, [kind |-> "check", ticket |-> tk + 1, session |-> s,
                                      at |-> next, word |-> t[next]])
  BY <1>1, Zenon DEF Advance
<1>4. \A i \in c + 1 .. L : t[i] \notin skip <=> i \in ahead
  OBVIOUS
<1>5. ahead \subseteq c + 1 .. L
  OBVIOUS
<1> HIDE DEF next, ahead, L
<1>6. upTo \in 0 .. L /\ c <= upTo /\ (ahead # {} => upTo = next /\ next \in c + 1 .. L)
  <2>1. c \in 0 .. L
    BY DEF L
  <2>2. CASE ahead = {}
    BY <1>1, <2>1, <2>2, SMT
  <2>3. CASE ahead # {}
    <3>1. next \in c + 1 .. L /\ upTo = next
      BY <1>2, <1>5, <2>3
    <3> QED
      BY <1>1, <2>1, <2>3, <3>1, SMT
  <2> QED
    BY <2>2, <2>3
<1>7. \A i \in 1 .. L : mark'[i] = IF i \in c + 1 .. upTo /\ t[i] \in skip THEN "ignored" ELSE m[i]
  BY <1>3, Zenon
<1>8. mark' \in Seq(Marks) /\ Len(mark') = L
  <2>1. \A i \in 1 .. L : (IF i \in c + 1 .. upTo /\ t[i] \in skip THEN "ignored" ELSE m[i]) \in Marks
    BY <1>1, Zenon DEF Marks
  <2> DEFINE e(i) == IF i \in c + 1 .. upTo /\ t[i] \in skip THEN "ignored" ELSE m[i]
  <2>2. mark' = [i \in 1 .. L |-> e(i)] /\ \A i \in 1 .. L : e(i) \in Marks
    BY <1>3, <2>1, Zenon
  <2> HIDE DEF e
  <2> QED
    BY <1>1, <2>2, IsASeq, SMT
<1>9. \A i \in 1 .. upTo : mark'[i] = "new" <=> i = pending'
  <2> SUFFICES ASSUME NEW i \in 1 .. upTo
               PROVE  mark'[i] = "new" <=> i = pending'
    OBVIOUS
  <2>1. i \in 1 .. L
    BY <1>1, <1>6, SMT
  <2>2. CASE i \in 1 .. c
    <3>1. mark'[i] = m[i] /\ m[i] # "new"
      BY <1>1, <1>7, <2>1, <2>2, SMT
    <3>2. i # pending'
      BY <1>1, <1>3, <1>6, <2>2, SMT
    <3> QED
      BY <3>1, <3>2
  <2>3. CASE i \in c + 1 .. upTo
    <3>1. i \in c + 1 .. L
      BY <1>1, <1>6, <2>3, SMT
    <3>2. m[i] = "new"
      BY <3>1 DEF L
    <3>3. i \in ahead <=> i = pending'
      <4>1. CASE ahead = {}
        BY <1>1, <1>3, <2>3, <4>1, SMT
      <4>2. CASE ahead # {}
        <5>1. pending' = next /\ upTo = next
          BY <1>3, <4>2
        <5>2. i \in ahead => i = next
          BY <1>1, <1>2, <1>6, <2>3, <4>2, <5>1, SMT
        <5> QED
          BY <1>2, <4>2, <5>1, <5>2, Zenon
      <4> QED
        BY <4>1, <4>2
    <3>4. mark'[i] = IF i \in ahead THEN "new" ELSE "ignored"
      BY <1>4, <1>7, <2>1, <2>3, <3>1, <3>2, Zenon
    <3> QED
      BY <3>3, <3>4
  <2> QED
    BY <1>1, <1>6, <2>2, <2>3, SMT
<1>10. \A i \in upTo + 1 .. L : mark'[i] = "new"
  <2> SUFFICES ASSUME NEW i \in upTo + 1 .. L
               PROVE  mark'[i] = "new"
    OBVIOUS
  <2>1. i \in 1 .. L /\ i \in c + 1 .. L /\ i \notin c + 1 .. upTo
    BY <1>1, <1>6, SMT
  <2> QED
    BY <1>7, <2>1, Zenon DEF L
<1>11. \A i \in 1 .. L : mark'[i] = "known" => m[i] = "known"
  BY <1>7, Zenon
<1>12. CASE ahead = {}
  <2>1. pending' = 0 /\ ticket' = tk /\ queue' = queue
    BY <1>3, <1>12
  <2> QED
    BY <1>3, <1>6, <1>8, <1>9, <1>10, <1>11, <2>1, Zenon DEF L
<1>13. CASE ahead # {}
  <2> DEFINE j == [kind |-> "check", ticket |-> tk + 1, session |-> s, at |-> next, word |-> t[next]]
  <2>1. next \in Nat \ {0} /\ tk + 1 \in Nat /\ t[next] \in Words
    BY <1>1, <1>6, <1>13, SMT
  <2>2. j \in Checks /\ j.ticket = tk + 1 /\ j.session = s /\ j.at = next /\ j.word = t[next]
    BY <2>1, Zenon DEF Checks
  <2>3. pending' = next /\ ticket' = tk + 1 /\ queue' = Append(queue, j) /\ cursor' = next
    BY <1>3, <1>13, Zenon
  <2>4. pending' # 0 /\ pending' \in {0, cursor'}
    BY <2>1, <2>3, Zenon
  <2> HIDE DEF j
  <2>5. \E k \in Checks : /\ queue' = Append(queue, k)
                          /\ k.ticket = tk + 1 /\ k.session = s
                          /\ k.at = pending' /\ k.word = t[pending']
    BY <2>2, <2>3, Zenon
  <2> QED
    BY <1>3, <1>6, <1>8, <1>9, <1>10, <1>11, <2>3, <2>4, <2>5, Zenon DEF L
<1> QED
  BY <1>12, <1>13

-----------------------------------------------------------------------------
(* The worker and the child.                                               *)

LEMMA AJob ==
  ASSUME NEW j \in Checks
  PROVE  /\ j.kind = "check" /\ j.ticket \in Nat /\ j.session \in Sessions
         /\ j.at \in Nat \ {0} /\ j.word \in Words /\ j # Discovery
<1>1. Discovery.kind = "discovery"
  BY DEF Discovery
<1>2. j.kind = "check"
  BY Zenon DEF Checks
<1> QED
  BY <1>1, <1>2, Zenon DEF Checks

LEMMA CheckAtHand ==
  ASSUME IInv, queue # <<>>, Head(queue).kind = "check"
  PROVE  /\ session # 0 /\ dialog \notin {"finding", "stuck"}
         /\ Head(queue) \in Checks /\ JobOK(Head(queue))
         /\ Head(queue).session \in Sessions /\ Head(queue).word \in Words
<1>1. Discovery.kind = "discovery" /\ Head(<<Discovery>>) = Discovery
  BY DEF Discovery
<1>2. session # 0
  BY <1>1, Zenon DEF IInv, FirstOK
<1>3. Head(queue) \in JobsOf(queue)
  BY Finished, Zenon DEF IInv, TypeOK
<1>4. JobOK(Head(queue))
  BY <1>2, <1>3, Zenon DEF IInv, JobsOK
<1>5. Head(queue) \in Checks
  BY <1>4, Zenon DEF JobOK
<1> QED
  BY <1>2, <1>4, <1>5, AJob, Zenon DEF IInv, FirstOK

(* What the worker and the child never touch, while a job stays or ends.   *)
LEMMA JobStays ==
  ASSUME IInv, session # 0,
         UNCHANGED <<check, dialog, ticket, session, dict>>, UNCHANGED <<queue, calls>>
  PROVE  FirstOK' /\ JobsOK' /\ AnswersOK' /\ DecidedOK' /\ VerdictsAreTrue'
<1>1. UNCHANGED <<text, mark, cursor, pending, issue, ignored, dialog, ticket, session, dict, queue, calls>>
  BY DEF check
<1>2. FirstOK'
  BY <1>1 DEF IInv, FirstOK
<1>3. JobsOK'
  BY <1>1 DEF IInv, JobsOK, JobOK
<1>4. AnswersOK'
  BY <1>1 DEF IInv, AnswersOK, AnswerOK
<1>5. DecidedOK'
  BY <1>1 DEF IInv, DecidedOK
<1>6. VerdictsAreTrue'
  BY <1>1 DEF IInv, VerdictsAreTrue
<1> QED
  BY <1>2, <1>3, <1>4, <1>5, <1>6

LEMMA JobEnds ==
  ASSUME IInv, queue # <<>>, Head(queue).kind = "check",
         UNCHANGED <<check, dialog, ticket, session, dict>>,
         NEW o \in {"known", "unknown", "error"}, Ends(o),
         o = "known" => Head(queue).word \in Known[dict[Head(queue).session]],
         o = "unknown" => Head(queue).word \notin Known[dict[Head(queue).session]]
  PROVE  /\ queue' \in Seq(Jobs) /\ step' = "start"
         /\ calls' \subseteq [job : Jobs, outcome : Outcomes]
         /\ FirstOK' /\ JobsOK' /\ AnswersOK' /\ DecidedOK' /\ VerdictsAreTrue'
<1>1. UNCHANGED <<text, mark, cursor, pending, issue, ignored, dialog, ticket, session, dict>>
  BY DEF check
<1> DEFINE h == Head(queue)
           a == [job |-> h, outcome |-> o]
<1>2. session # 0 /\ dialog \notin {"finding", "stuck"} /\ h \in Checks /\ JobOK(h) /\ h \in Jobs
  BY CheckAtHand, Zenon DEF Jobs
<1>3. queue' = Tail(queue) /\ step' = "start" /\ calls' = calls \cup {a}
  BY DEF Ends
<1>4. queue' \in Seq(Jobs) /\ JobsOf(queue') \subseteq JobsOf(queue)
  BY <1>3, Finished, Zenon DEF IInv, TypeOK
<1>5. a.job = h /\ a.outcome = o /\ a \in [job : Jobs, outcome : Outcomes]
  BY <1>2, Zenon DEF Outcomes
<1>6. AnswerOK(a)
  BY <1>5 DEF AnswerOK
<1> HIDE DEF a, h
<1>7. calls' \subseteq [job : Jobs, outcome : Outcomes]
  BY <1>3, <1>5, Zenon DEF IInv, TypeOK
<1>8. FirstOK'
  BY <1>1, <1>2 DEF FirstOK
<1>9. JobsOK'
  <2>1. \A j : JobOK(j) => JobOK(j)'
    BY <1>1 DEF JobOK
  <2>2. \A j \in JobsOf(queue') : JobOK(j)'
    BY <1>2, <1>4, <2>1, Zenon DEF IInv, JobsOK
  <2>3. \A c \in calls' : JobOK(c.job)'
    BY <1>2, <1>3, <1>5, <2>1, Zenon DEF IInv, JobsOK
  <2>4. JobsOf(queue)' = JobsOf(queue')
    BY DEF JobsOf
  <2> QED
    BY <2>2, <2>3, <2>4, Zenon DEF JobsOK
<1>10. AnswersOK'
  <2>1. \A c : AnswerOK(c) => AnswerOK(c)'
    BY <1>1 DEF AnswerOK
  <2>2. \A c \in calls' : AnswerOK(c)'
    BY <1>2, <1>3, <1>6, <2>1, Zenon DEF IInv, AnswersOK
  <2> QED
    BY <2>2, Zenon DEF AnswersOK
<1>11. DecidedOK'
  BY <1>1 DEF IInv, DecidedOK
<1>12. VerdictsAreTrue'
  BY <1>1 DEF IInv, VerdictsAreTrue
<1> QED
  BY <1>3, <1>4, <1>7, <1>8, <1>9, <1>10, <1>11, <1>12

(* A failing job closes its session: whatever is left in its pipes is never*)
(* read.                                                                   *)
LEMMA JobFails ==
  ASSUME IInv, queue # <<>>, Head(queue).kind = "check",
         UNCHANGED <<check, dialog, ticket, session, dict>>,
         Fails(Head(queue).session)
  PROVE  IInv'
<1> DEFINE s == Head(queue).session
<1>1. UNCHANGED <<text, mark, cursor, pending, issue, ignored, dialog, ticket, session, dict>>
  BY DEF check
<1>2. session # 0 /\ s \in Sessions /\ Ends("error") /\ Closes(s)
  BY CheckAtHand, Zenon DEF Fails
<1>3. /\ queue' \in Seq(Jobs) /\ step' = "start"
      /\ calls' \subseteq [job : Jobs, outcome : Outcomes]
      /\ FirstOK' /\ JobsOK' /\ AnswersOK' /\ DecidedOK' /\ VerdictsAreTrue'
  BY <1>2, JobEnds
<1>4. closed' = closed \cup {s} /\ said' = said
      /\ child' = [child EXCEPT ![s] = "none"] /\ asked' = [asked EXCEPT ![s] = <<>>]
  BY <1>2 DEF Closes
<1> HIDE DEF s
<1>5. /\ text \in Seq(Words) /\ mark \in Seq(Marks) /\ Len(mark) = Len(text)
      /\ cursor \in 0 .. Len(text) /\ pending \in Nat /\ issue \in Nat
      /\ ignored \subseteq Words
      /\ dialog \in Dialogs
      /\ ticket \in Nat /\ session \in 0 .. MaxSessions
      /\ dict \in [Sessions -> Dictionaries] /\ closed \subseteq Sessions
      /\ child \in [Sessions -> {"none", "alive", "dead"}]
      /\ asked \in [Sessions -> Seq(Words)] /\ said \in [Sessions -> Seq(Words)]
  BY DEF IInv, TypeOK
<1>6. child' \in [Sessions -> {"none", "alive", "dead"}] /\ asked' \in [Sessions -> Seq(Words)]
  BY <1>2, <1>4, <1>5, NoWords
<1>7. TypeOK'
  BY <1>1, <1>2, <1>3, <1>4, <1>5, <1>6, Zenon DEF TypeOK, Steps, Dialogs
<1>8. \A z \in Sessions : child'[z] = (IF z = s THEN "none" ELSE child[z])
                          /\ asked'[z] = (IF z = s THEN <<>> ELSE asked[z])
  BY <1>4, <1>5, Zenon
<1>9. SessionsOK'
  BY <1>1, <1>2, <1>4, <1>5, <1>8 DEF IInv, SessionsOK
<1>10. PipesOK'
  <2> SUFFICES ASSUME NEW z \in Sessions
               PROVE  PipeOK(z)'
    BY DEF PipesOK
  <2>1. ~Reading(z)'
    BY <1>3 DEF Reading
  <2>2. CASE z = s
    BY <1>4, <2>1, <2>2, Zenon DEF PipeOK
  <2>3. CASE z # s
    <3>1. ~Reading(z)
      BY <2>3 DEF Reading, s
    <3>2. z \notin closed' => said[z] = <<>> /\ asked[z] = <<>>
      BY <1>4, <3>1, Zenon DEF IInv, PipesOK, PipeOK
    <3> QED
      BY <1>4, <1>8, <2>1, <2>3, <3>2, Zenon DEF PipeOK
  <2> QED
    BY <2>2, <2>3
<1> QED
  BY <1>3, <1>7, <1>9, <1>10 DEF IInv

LEMMA StartStep == IInv /\ Start => IInv'
<1> SUFFICES ASSUME IInv, Start
             PROVE  IInv'
  OBVIOUS
<1> DEFINE s == Head(queue).session
<1>1. /\ queue # <<>> /\ Head(queue).kind = "check" /\ step = "start"
      /\ UNCHANGED <<check, dialog, ticket, session, dict>>
  BY DEF Start, Working
<1>2. session # 0 /\ s \in Sessions /\ JobOK(Head(queue))
  BY <1>1, CheckAtHand, Zenon
<1>3. CASE Fails(s)
  BY <1>1, <1>3, JobFails
<1>4. CASE ~Fails(s)
  <2>1. /\ UNCHANGED <<text, mark, cursor, pending, issue, ignored, dialog, ticket, session, dict>>
        /\ UNCHANGED <<queue, calls>> /\ UNCHANGED <<closed, asked, said>>
        /\ s \notin closed
        /\ \/ child[s] # "none" /\ step' = "send" /\ child' = child
           \/ child[s] = "none" /\ step' = "banner" /\ child' = [child EXCEPT ![s] = "alive"]
    BY <1>4, Zenon DEF Start, Working, MayStart, check, pipes
  <2>2. FirstOK' /\ JobsOK' /\ AnswersOK' /\ DecidedOK' /\ VerdictsAreTrue'
    BY <1>1, <1>2, <2>1, JobStays
  <2>3. s = session
    BY <1>2, <2>1, SMT DEF IInv, SessionsOK, TypeOK, JobOK, Checks, Sessions
  <2> HIDE DEF s
  <2>4. TypeOK'
    BY <1>1, <1>2, <2>1 DEF IInv, TypeOK, Steps, Dialogs
  <2>5. \A z \in Sessions : z # s => child'[z] = child[z]
    BY <1>2, <2>1 DEF IInv, TypeOK
  <2>6. SessionsOK'
    <3>1. \A z \in Sessions : z > session => z # s
      BY <2>3, SMT DEF IInv, TypeOK, Sessions
    <3>2. \A z \in closed : z \in Sessions /\ z # s
      BY <2>1 DEF IInv, TypeOK
    <3>3. \A z \in Sessions : z < session' => z \in closed'
      BY <2>1 DEF IInv, SessionsOK
    <3>4. \A z \in Sessions : z > session' => child'[z] = "none"
      BY <2>1, <2>5, <3>1 DEF IInv, SessionsOK
    <3>5. \A z \in closed' : child'[z] = "none" /\ asked'[z] = <<>>
      BY <2>1, <2>5, <3>2 DEF IInv, SessionsOK
    <3> QED
      BY <2>1, <3>3, <3>4, <3>5 DEF IInv, SessionsOK
  <2>7. PipesOK'
    <3>1. step # "read" /\ step' # "read"
      BY <1>1, <2>1
    <3> QED
      BY <2>1, <3>1 DEF IInv, PipesOK, PipeOK, Reading
  <2> QED
    BY <2>2, <2>4, <2>6, <2>7 DEF IInv
<1> QED
  BY <1>3, <1>4

LEMMA BannerStep == IInv /\ Banner => IInv'
<1> SUFFICES ASSUME IInv, Banner
             PROVE  IInv'
  OBVIOUS
<1> DEFINE s == Head(queue).session
<1>1. /\ queue # <<>> /\ Head(queue).kind = "check" /\ step = "banner"
      /\ UNCHANGED <<check, dialog, ticket, session, dict>>
  BY DEF Banner, Working
<1>2. session # 0
  BY <1>1, CheckAtHand, Zenon
<1>3. CASE Fails(s)
  BY <1>1, <1>3, JobFails
<1>4. CASE ~Fails(s)
  <2>1. /\ UNCHANGED <<text, mark, cursor, pending, issue, ignored, dialog, ticket, session, dict>>
        /\ UNCHANGED <<queue, calls>> /\ UNCHANGED <<closed, child, asked, said>>
        /\ step' = "send"
    BY <1>4, Zenon DEF Banner, Working, check, pipes
  <2>2. FirstOK' /\ JobsOK' /\ AnswersOK' /\ DecidedOK' /\ VerdictsAreTrue'
    BY <1>1, <1>2, <2>1, JobStays
  <2>3. TypeOK'
    BY <1>1, <2>1 DEF IInv, TypeOK, Steps, Dialogs
  <2>4. SessionsOK'
    BY <2>1 DEF IInv, SessionsOK
  <2>5. PipesOK'
    BY <1>1, <2>1 DEF IInv, PipesOK, PipeOK, Reading
  <2> QED
    BY <2>2, <2>3, <2>4, <2>5 DEF IInv
<1> QED
  BY <1>3, <1>4

(* The child is alive, so the session is open and its pipes are empty: the *)
(* question is the only thing in them.                                     *)
LEMMA SendStep == IInv /\ Send => IInv'
<1> SUFFICES ASSUME IInv, Send
             PROVE  IInv'
  OBVIOUS
<1> DEFINE s == Head(queue).session
           w == Head(queue).word
<1>1. /\ queue # <<>> /\ Head(queue).kind = "check" /\ step = "send"
      /\ UNCHANGED <<check, dialog, ticket, session, dict>>
  BY DEF Send, Working
<1>2. session # 0 /\ s \in Sessions /\ w \in Words
  BY <1>1, CheckAtHand, Zenon
<1>3. CASE Fails(s)
  BY <1>1, <1>3, JobFails
<1>4. CASE ~Fails(s)
  <2>1. /\ UNCHANGED <<text, mark, cursor, pending, issue, ignored, dialog, ticket, session, dict>>
        /\ UNCHANGED <<queue, calls>> /\ UNCHANGED <<closed, child, said>>
        /\ child[s] = "alive" /\ step' = "read"
        /\ asked' = [asked EXCEPT ![s] = Append(asked[s], w)]
    BY <1>4, Zenon DEF Send, Working, check
  <2>2. FirstOK' /\ JobsOK' /\ AnswersOK' /\ DecidedOK' /\ VerdictsAreTrue'
    BY <1>1, <1>2, <2>1, JobStays
  <2>3. s \notin closed
    BY <2>1, Zenon DEF IInv, SessionsOK
  <2>4. said[s] = <<>> /\ asked[s] = <<>>
    BY <1>1, <1>2, <2>3, Zenon DEF IInv, PipesOK, PipeOK, Reading
  <2>5. asked' = [asked EXCEPT ![s] = <<w>>] /\ <<w>> \in Seq(Words)
    BY <1>2, <2>1, <2>4, OneWord
  <2> HIDE DEF s, w
  <2>6. TypeOK'
    BY <1>1, <1>2, <2>1, <2>5 DEF IInv, TypeOK, Steps, Dialogs
  <2>7. \A z \in Sessions : asked'[z] = IF z = s THEN <<w>> ELSE asked[z]
    BY <1>2, <2>5, Zenon DEF IInv, TypeOK
  <2>8. SessionsOK'
    <3>1. \A z \in closed : z \in Sessions /\ z # s
      BY <2>3 DEF IInv, TypeOK
    <3>2. \A z \in closed' : child'[z] = "none" /\ asked'[z] = <<>>
      BY <2>1, <2>7, <3>1, Zenon DEF IInv, SessionsOK
    <3> QED
      BY <2>1, <3>2 DEF IInv, SessionsOK
  <2>9. PipesOK'
    <3> SUFFICES ASSUME NEW z \in Sessions
                 PROVE  PipeOK(z)'
      BY DEF PipesOK
    <3>1. ~Reading(z) /\ (Reading(z)' <=> z = s)
      BY <1>1, <2>1 DEF Reading, s
    <3>2. CASE z = s
      <4>1. said'[z] = <<>> /\ asked'[z] = <<Head(queue').word>>
        BY <1>2, <2>1, <2>4, <2>7, <3>2, Zenon DEF w
      <4> QED
        BY <3>1, <3>2, <4>1, Zenon DEF PipeOK
    <3>3. CASE z # s
      BY <2>1, <2>7, <3>1, <3>3, Zenon DEF IInv, PipesOK, PipeOK
    <3> QED
      BY <3>2, <3>3
  <2> QED
    BY <2>2, <2>6, <2>8, <2>9 DEF IInv
<1> QED
  BY <1>3, <1>4

(* What is read is the word that was asked, so the verdict is about it.    *)
LEMMA ReadStep == IInv /\ Read => IInv'
<1> SUFFICES ASSUME IInv, Read
             PROVE  IInv'
  OBVIOUS
<1> DEFINE s == Head(queue).session
           w == Head(queue).word
           o == IF Head(said[s]) \in Known[dict[s]] THEN "known" ELSE "unknown"
<1>1. /\ queue # <<>> /\ Head(queue).kind = "check" /\ step = "read"
      /\ UNCHANGED <<check, dialog, ticket, session, dict>>
  BY DEF Read, Working
<1>2. session # 0 /\ s \in Sessions /\ w \in Words
  BY <1>1, CheckAtHand, Zenon
<1>3. CASE Fails(s)
  BY <1>1, <1>3, JobFails
<1>4. CASE ~Fails(s)
  <2>1. /\ UNCHANGED <<text, mark, cursor, pending, issue, ignored, dialog, ticket, session, dict>>
        /\ UNCHANGED <<closed, child, asked>> /\ Ends(o)
        /\ said[s] # <<>> /\ said' = [said EXCEPT ![s] = Tail(said[s])]
    BY <1>4, Zenon DEF Read, Working, check
  <2>2. Reading(s)
    BY <1>1 DEF Reading
  <2>3. said[s] = <<w>> /\ asked[s] = <<>>
    BY <1>2, <2>1, <2>2, Zenon DEF IInv, PipesOK, PipeOK
  <2>4. Head(said[s]) = w /\ Tail(said[s]) = <<>>
    BY <1>2, <2>3, OneWord, Zenon
  <2>5. o \in {"known", "unknown", "error"} /\ (o = "known" => w \in Known[dict[s]])
          /\ (o = "unknown" => w \notin Known[dict[s]])
    BY <2>4
  <2>6. /\ queue' \in Seq(Jobs) /\ step' = "start"
        /\ calls' \subseteq [job : Jobs, outcome : Outcomes]
        /\ FirstOK' /\ JobsOK' /\ AnswersOK' /\ DecidedOK' /\ VerdictsAreTrue'
    <3> HIDE DEF o
    <3> QED
      BY <1>1, <2>1, <2>5, JobEnds
  <2>7. said' = [said EXCEPT ![s] = <<>>]
    BY <2>1, <2>4, Zenon
  <2> HIDE DEF s, w, o
  <2>8. TypeOK'
    BY <1>2, <2>1, <2>6, <2>7, NoWords DEF IInv, TypeOK, Steps, Dialogs
  <2>9. SessionsOK'
    BY <2>1 DEF IInv, SessionsOK
  <2>10. PipesOK'
    <3> SUFFICES ASSUME NEW z \in Sessions
                 PROVE  PipeOK(z)'
      BY DEF PipesOK
    <3>1. ~Reading(z)' /\ (Reading(z) <=> z = s)
      BY <1>1, <2>6 DEF Reading, s
    <3>2. said'[z] = IF z = s THEN <<>> ELSE said[z]
      BY <1>2, <2>7, Zenon DEF IInv, TypeOK
    <3>3. CASE z = s
      BY <2>1, <2>3, <3>1, <3>2, <3>3, Zenon DEF PipeOK
    <3>4. CASE z # s
      BY <2>1, <3>1, <3>2, <3>4, Zenon DEF IInv, PipesOK, PipeOK
    <3> QED
      BY <3>3, <3>4
  <2> QED
    BY <2>6, <2>8, <2>9, <2>10 DEF IInv
<1> QED
  BY <1>3, <1>4

LEMMA AnswerStep == ASSUME NEW s \in Sessions PROVE IInv /\ Answer(s) => IInv'
<1> SUFFICES ASSUME IInv, Answer(s)
             PROVE  IInv'
  OBVIOUS
<1>1. /\ UNCHANGED <<text, mark, cursor, pending, issue, ignored, dialog, ticket, session, dict>>
      /\ UNCHANGED <<closed, child, queue, step, calls>>
      /\ child[s] = "alive" /\ asked[s] # <<>>
      /\ said' = [said EXCEPT ![s] = Append(said[s], Head(asked[s]))]
      /\ asked' = [asked EXCEPT ![s] = Tail(asked[s])]
  BY Zenon DEF Answer, check, worker
<1>2. session # 0
  BY <1>1 DEF IInv, FirstOK
<1>3. FirstOK' /\ JobsOK' /\ AnswersOK' /\ DecidedOK' /\ VerdictsAreTrue'
  BY <1>1, <1>2, JobStays DEF check
<1>4. s \notin closed
  BY <1>1, Zenon DEF IInv, SessionsOK
<1>5. Reading(s) /\ said[s] = <<>> /\ asked[s] = <<Head(queue).word>>
  BY <1>1, <1>4, Zenon DEF IInv, PipesOK, PipeOK
<1> DEFINE w == Head(queue).word
<1>6. queue # <<>>
  BY <1>5 DEF IInv, TypeOK, Reading
<1>7. w \in Words
  <2>1. Head(queue) \in JobsOf(queue)
    BY <1>6, Finished, Zenon DEF IInv, TypeOK
  <2>2. Head(queue) \in Checks
    BY <1>2, <2>1, Zenon DEF IInv, JobsOK, JobOK
  <2> QED
    BY <2>2, AJob, Zenon
<1> HIDE DEF w
<1>8. said' = [said EXCEPT ![s] = <<w>>] /\ asked' = [asked EXCEPT ![s] = <<>>] /\ <<w>> \in Seq(Words)
  BY <1>1, <1>5, <1>7, OneWord DEF w
<1>9. TypeOK'
  BY <1>1, <1>8, NoWords DEF IInv, TypeOK
<1>10. \A z \in Sessions : said'[z] = (IF z = s THEN <<w>> ELSE said[z])
                           /\ asked'[z] = (IF z = s THEN <<>> ELSE asked[z])
  BY <1>8, Zenon DEF IInv, TypeOK
<1>11. SessionsOK'
  <2>1. \A z \in closed : z \in Sessions
    BY DEF IInv, TypeOK
  <2>2. \A z \in closed' : child'[z] = "none" /\ asked'[z] = <<>>
    BY <1>1, <1>10, <2>1, Zenon DEF IInv, SessionsOK
  <2> QED
    BY <1>1, <2>2 DEF IInv, SessionsOK
<1>12. PipesOK'
  <2> SUFFICES ASSUME NEW z \in Sessions
               PROVE  PipeOK(z)'
    BY DEF PipesOK
  <2>1. (Reading(z)' <=> Reading(z)) /\ Head(queue').word = w
    BY <1>1 DEF Reading, w
  <2>2. CASE z = s
    BY <1>5, <1>10, <2>1, <2>2, Zenon DEF PipeOK
  <2>3. CASE z # s
    BY <1>1, <1>10, <2>1, <2>3, Zenon DEF IInv, PipesOK, PipeOK
  <2> QED
    BY <2>2, <2>3
<1> QED
  BY <1>3, <1>9, <1>11, <1>12 DEF IInv

LEMMA DieStep == ASSUME NEW s \in Sessions PROVE IInv /\ Die(s) => IInv'
<1> SUFFICES ASSUME IInv, Die(s)
             PROVE  IInv'
  OBVIOUS
<1>1. /\ UNCHANGED <<text, mark, cursor, pending, issue, ignored, dialog, ticket, session, dict>>
      /\ UNCHANGED <<closed, asked, said, queue, step, calls>>
      /\ child[s] = "alive" /\ child' = [child EXCEPT ![s] = "dead"]
  BY Zenon DEF Die, check, worker
<1>2. session # 0
  BY <1>1 DEF IInv, FirstOK
<1>3. FirstOK' /\ JobsOK' /\ AnswersOK' /\ DecidedOK' /\ VerdictsAreTrue'
  BY <1>1, <1>2, JobStays DEF check
<1>4. TypeOK'
  BY <1>1 DEF IInv, TypeOK
<1>5. \A z \in Sessions : child[z] = "none" => child'[z] = "none"
  BY <1>1 DEF IInv, TypeOK
<1>6. SessionsOK'
  BY <1>1, <1>5 DEF IInv, TypeOK, SessionsOK
<1>7. PipesOK'
  BY <1>1 DEF IInv, PipesOK, PipeOK, Reading
<1> QED
  BY <1>3, <1>4, <1>6, <1>7 DEF IInv

LEMMA DiscoveryIsFirst ==
  ASSUME IInv, queue # <<>>, Head(queue).kind = "discovery"
  PROVE  session = 0
<1>1. Head(queue) \in JobsOf(queue)
  BY Finished, Zenon DEF IInv, TypeOK
<1>2. session # 0 => Head(queue) \in Checks
  BY <1>1, Zenon DEF IInv, JobsOK, JobOK
<1> QED
  BY <1>2, AJob

(* Discovery ends while the dialog still waits for it, or is closing.      *)
LEMMA DiscoveryIsOver ==
  ASSUME IInv, Working("discovery", step), DiscoveryEnds
  PROVE  IInv'
<1>0. PICK o \in {"found", "raised"} : Ends(o)
  BY DEF DiscoveryEnds
<1> DEFINE a == [job |-> Head(queue), outcome |-> o]
<1>1. /\ UNCHANGED <<text, mark, cursor, pending, issue, ignored, dialog, ticket, session, dict>>
      /\ UNCHANGED <<closed, child, asked, said>>
      /\ queue # <<>> /\ Head(queue).kind = "discovery"
      /\ queue' = Tail(queue) /\ step' = "start" /\ calls' = calls \cup {a}
  BY <1>0, Zenon DEF DiscoveryEnds, Working, Ends, check, pipes
<1>2. session = 0
  BY <1>1, DiscoveryIsFirst
<1>3. queue = <<Discovery>> /\ calls = {}
  BY <1>1, <1>2, Zenon DEF IInv, FirstOK
<1>4. Head(queue) = Discovery /\ queue' = <<>> /\ Discovery \in Jobs
  BY <1>1, <1>3 DEF Jobs
<1>5. a = [job |-> Discovery, outcome |-> o] /\ a \in [job : Jobs, outcome : Outcomes]
  BY <1>4, Zenon DEF Outcomes
<1> HIDE DEF a
<1>6. calls' = {a}
  BY <1>1, <1>3
<1>7. TypeOK'
  BY <1>1, <1>4, <1>5, <1>6, NoWords DEF IInv, TypeOK, Steps, Dialogs
<1>8. FirstOK'
  <2>1. calls' \subseteq {[job |-> Discovery, outcome |-> o]}
    BY <1>5, <1>6, Zenon
  <2>2. dialog' \in {"finding", "stuck"} => session' = 0 /\ ticket' = 1
    BY <1>1 DEF IInv, FirstOK
  <2>3. /\ dialog' \in {"finding", "stuck", "closing", "closed"}
        /\ issue' = 0 /\ \A i \in DOMAIN mark' : mark'[i] = "new"
        /\ \A s \in Sessions : child'[s] = "none" /\ asked'[s] = <<>> /\ said'[s] = <<>>
    BY <1>1, <1>2 DEF IInv, FirstOK
  <2> QED
    BY <1>4, <2>1, <2>2, <2>3, Zenon DEF FirstOK
<1>9. JobsOK' /\ AnswersOK'
  BY <1>1, <1>2 DEF JobsOK, AnswersOK
<1>10. SessionsOK' /\ DecidedOK' /\ VerdictsAreTrue'
  BY <1>1 DEF IInv, SessionsOK, DecidedOK, VerdictsAreTrue
<1>11. PipesOK'
  <2>1. step' # "read" /\ \A z \in Sessions : said'[z] = <<>> /\ asked'[z] = <<>>
    BY <1>1, <1>2 DEF IInv, FirstOK
  <2> QED
    BY <2>1, Zenon DEF PipesOK, PipeOK, Reading
<1> QED
  BY <1>7, <1>8, <1>9, <1>10, <1>11 DEF IInv

LEMMA DiscoverStep == IInv /\ Discover => IInv'
<1> SUFFICES ASSUME IInv, Discover
             PROVE  IInv'
  OBVIOUS
<1>1. Working("discovery", step) /\ step = "start"
  BY DEF Discover, Working
<1>2. CASE DiscoveryEnds
  BY <1>1, <1>2, DiscoveryIsOver
<1>3. CASE step' = "blocked" /\ UNCHANGED <<pipes, queue, calls>>
  <2>1. /\ UNCHANGED <<text, mark, cursor, pending, issue, ignored, dialog, ticket, session, dict>>
        /\ UNCHANGED <<closed, child, asked, said, queue, calls>>
        /\ queue # <<>> /\ Head(queue).kind = "discovery" /\ step' = "blocked"
    BY <1>1, <1>3 DEF Working, check, pipes
  <2>2. session = 0
    BY <2>1, DiscoveryIsFirst
  <2>3. TypeOK'
    BY <2>1 DEF IInv, TypeOK, Steps, Dialogs
  <2>4. FirstOK'
    BY <2>1, <2>2 DEF IInv, FirstOK
  <2>5. JobsOK' /\ AnswersOK'
    BY <2>1, <2>2 DEF JobsOK, AnswersOK
  <2>6. SessionsOK' /\ DecidedOK' /\ VerdictsAreTrue'
    BY <2>1 DEF IInv, SessionsOK, DecidedOK, VerdictsAreTrue
  <2>7. PipesOK'
    <3>1. \A z \in Sessions : said'[z] = <<>> /\ asked'[z] = <<>>
      BY <2>1, <2>2 DEF IInv, FirstOK
    <3> QED
      BY <2>1, <3>1, Zenon DEF PipesOK, PipeOK, Reading
  <2> QED
    BY <2>3, <2>4, <2>5, <2>6, <2>7 DEF IInv
<1> QED
  BY <1>2, <1>3 DEF Discover

LEMMA UnblockStep == IInv /\ Unblock => IInv'
<1> SUFFICES ASSUME IInv, Unblock
             PROVE  IInv'
  OBVIOUS
<1>1. Working("discovery", step) /\ DiscoveryEnds
  BY DEF Unblock, Working
<1> QED
  BY <1>1, DiscoveryIsOver

-----------------------------------------------------------------------------
(* The dialog.                                                             *)

(* A job of the session s and the ticket tk, or an earlier one.            *)
Passed(j, s, tk) ==
  j \in Checks /\ j.session <= s /\ j.ticket <= tk /\ (j.ticket = tk => j.session = s)

SameReading == step' = step /\ (step = "read" => Head(queue') = Head(queue))

(* A step of the dialog that goes on to the next word: what was asked      *)
(* before is not current any more, or is not about the pending word.       *)
LEMMA Proceeds ==
  ASSUME IInv,
         NEW t \in Seq(Words), NEW m \in Seq(Marks), Len(m) = Len(t),
         NEW c \in 0 .. Len(t), NEW skip \in SUBSET Words,
         NEW s \in Sessions, NEW tk \in Nat,
         \A i \in 1 .. c : m[i] # "new",
         \A i \in c + 1 .. Len(t) : m[i] = "new",
         Advance(t, m, c, skip, s, tk),
         session' = s, dialog' \in {"ready", "fatal"}, calls' \subseteq calls,
         \A j \in JobsOf(queue) : Passed(j, s, tk),
         \A a \in calls' : Passed(a.job, s, tk) /\ AnswerOK(a)',
         \A i \in 1 .. Len(t) : m[i] = "known" => t[i] \in Known[dict'[s]]
  PROVE  /\ text' \in Seq(Words) /\ mark' \in Seq(Marks) /\ Len(mark') = Len(text')
         /\ cursor' \in 0 .. Len(text') /\ pending' \in Nat /\ issue' \in Nat
         /\ ignored' \subseteq Words /\ ticket' \in Nat
         /\ queue' \in Seq(Jobs) /\ (queue' = <<>> => step' = "start")
         /\ calls' \subseteq [job : Jobs, outcome : Outcomes]
         /\ FirstOK' /\ JobsOK' /\ AnswersOK' /\ DecidedOK' /\ VerdictsAreTrue'
         /\ SameReading
<1>1. /\ text' = t /\ ignored' = skip /\ issue' = 0 /\ step' = step
      /\ mark' \in Seq(Marks) /\ Len(mark') = Len(t)
      /\ cursor' \in 0 .. Len(t) /\ pending' \in {0, cursor'}
      /\ \A i \in 1 .. cursor' : mark'[i] = "new" <=> i = pending'
      /\ \A i \in cursor' + 1 .. Len(t) : mark'[i] = "new"
      /\ \A i \in 1 .. Len(t) : mark'[i] = "known" => m[i] = "known"
      /\ \/ pending' = 0 /\ ticket' = tk /\ queue' = queue
         \/ /\ pending' # 0 /\ ticket' = tk + 1
            /\ \E j \in Checks :
                 /\ queue' = Append(queue, j)
                 /\ j.ticket = tk + 1 /\ j.session = s
                 /\ j.at = pending' /\ j.word = t[pending']
  BY AdvanceStops
<1>2. Len(t) \in Nat /\ DOMAIN t = 1 .. Len(t) /\ s \in Nat /\ s # 0
  BY SMT DEF Sessions
<1>3. pending' \in Nat /\ issue' \in Nat /\ ticket' \in Nat
  BY <1>1, <1>2, SMT
<1>4. calls' \subseteq [job : Jobs, outcome : Outcomes]
  BY DEF IInv, TypeOK
<1>5. queue \in Seq(Jobs) /\ (queue = <<>> => step = "start")
  BY DEF IInv, TypeOK
<1>6. ASSUME pending' = 0, ticket' = tk, queue' = queue
      PROVE  /\ JobsOK' /\ SameReading /\ queue' \in Seq(Jobs)
             /\ queue' = <<>> => step' = "start"
  <2>1. \A j : Passed(j, s, tk) => JobOK(j)'
    <3> SUFFICES ASSUME NEW j, Passed(j, s, tk)
                 PROVE  JobOK(j)'
      OBVIOUS
    <3>1. j.at # pending'
      BY <1>6, AJob, Zenon DEF Passed
    <3> QED
      BY <1>6, <3>1, Zenon DEF Passed, JobOK
  <2>2. JobsOK'
    BY <1>6, <2>1, Zenon DEF JobsOK, JobsOf
  <2>3. SameReading /\ queue' \in Seq(Jobs) /\ (queue' = <<>> => step' = "start")
    BY <1>1, <1>5, <1>6 DEF SameReading
  <2> QED
    BY <2>2, <2>3
<1>7. ASSUME pending' # 0, ticket' = tk + 1,
             \E j \in Checks : /\ queue' = Append(queue, j)
                               /\ j.ticket = tk + 1 /\ j.session = s
                               /\ j.at = pending' /\ j.word = t[pending']
      PROVE  /\ JobsOK' /\ SameReading /\ queue' \in Seq(Jobs)
             /\ queue' = <<>> => step' = "start"
  <2>1. PICK j \in Checks : /\ queue' = Append(queue, j)
                            /\ j.ticket = tk + 1 /\ j.session = s
                            /\ j.at = pending' /\ j.word = t[pending']
    BY <1>7, Zenon
  <2>2. JobOK(j)'
    BY <1>1, <1>2, <1>7, <2>1, SMT DEF JobOK
  <2>3. \A k : Passed(k, s, tk) => JobOK(k)'
    <3> SUFFICES ASSUME NEW k, Passed(k, s, tk)
                 PROVE  JobOK(k)'
      OBVIOUS
    <3>1. k \in Checks /\ k.ticket \in Nat /\ k.ticket <= tk /\ k.session <= s
      BY AJob, Zenon DEF Passed
    <3>2. k.ticket <= ticket' /\ k.ticket # ticket'
      BY <1>7, <3>1, SMT
    <3> QED
      BY <3>1, <3>2, Zenon DEF JobOK
  <2>4. j \in Jobs
    BY DEF Jobs
  <2>5. /\ queue' \in Seq(Jobs) /\ queue' # <<>> /\ JobsOf(queue') = JobsOf(queue) \cup {j}
        /\ queue # <<>> => Head(queue') = Head(queue)
    BY <1>5, <2>1, <2>4, Appended
  <2>6. JobsOf(queue)' = JobsOf(queue')
    BY DEF JobsOf
  <2>7. JobsOK'
    BY <2>2, <2>3, <2>5, <2>6, Zenon DEF JobsOK
  <2>8. SameReading
    BY <1>1, <1>5, <2>5 DEF SameReading
  <2> QED
    BY <2>5, <2>7, <2>8
<1>8. FirstOK'
  BY <1>2 DEF FirstOK
<1>9. AnswersOK'
  BY Zenon DEF AnswersOK
<1>10. DecidedOK'
  <2>1. pending' \in {0, cursor'} /\ issue' \in {0, cursor'}
    BY <1>1
  <2>2. \A i \in 1 .. cursor' : mark'[i] = "new" <=> i \in {pending', issue'}
    <3>1. \A i \in 1 .. cursor' : i # issue'
      BY <1>1, <1>2, SMT
    <3> QED
      BY <1>1, <3>1, Zenon
  <2>3. \A i \in cursor' + 1 .. Len(text') : mark'[i] = "new"
    BY <1>1
  <2> QED
    BY <2>1, <2>2, <2>3, Zenon DEF DecidedOK
<1>11. VerdictsAreTrue'
  <2>1. \A i \in DOMAIN text' : mark'[i] = "known" => text'[i] \in Known[dict'[session']]
    BY <1>1, <1>2, Zenon
  <2> QED
    BY <1>1, <2>1, Zenon DEF VerdictsAreTrue
<1>12. /\ JobsOK' /\ SameReading /\ queue' \in Seq(Jobs) /\ (queue' = <<>> => step' = "start")
  BY <1>1, <1>6, <1>7
<1> QED
  BY <1>1, <1>3, <1>4, <1>8, <1>9, <1>10, <1>11, <1>12

LEMMA JobPassed == \A j : JobOK(j) => Passed(j, session, ticket)
  BY Zenon DEF JobOK, Passed

(* The word in hand is decided: there is no other before the cursor.       *)
LEMMA WordDecided ==
  ASSUME IInv, dialog \in {"ready", "fatal"},
         NEW at \in Nat \ {0}, at \in {pending, issue}, NEW v \in Marks, v # "new"
  PROVE  /\ session # 0 /\ session \in Sessions
         /\ at = cursor /\ at \in 1 .. Len(text) /\ cursor \in 0 .. Len(text)
         /\ Marked(at, v) \in Seq(Marks) /\ Len(Marked(at, v)) = Len(text)
         /\ \A i \in 1 .. cursor : Marked(at, v)[i] # "new"
         /\ \A i \in cursor + 1 .. Len(text) : Marked(at, v)[i] = "new"
         /\ \A i \in 1 .. Len(text) : Marked(at, v)[i] = IF i = at THEN v ELSE mark[i]
<1> DEFINE L == Len(text)
           m == Marked(at, v)
<1>1. L \in Nat /\ mark \in Seq(Marks) /\ Len(mark) = L /\ cursor \in 0 .. L
  BY SMT DEF IInv, TypeOK
<1>2. session # 0 /\ session \in Sessions
  BY SMT DEF IInv, FirstOK, TypeOK, Sessions
<1>3. /\ pending \in {0, cursor} /\ issue \in {0, cursor}
      /\ \A i \in 1 .. cursor : mark[i] = "new" <=> i \in {pending, issue}
      /\ \A i \in cursor + 1 .. L : mark[i] = "new"
  BY Zenon DEF IInv, DecidedOK
<1>4. at = cursor
  BY <1>3, Zenon
<1> DEFINE S == Marks
<1>5. mark \in Seq(S) /\ v \in S
  BY <1>1
<1> HIDE DEF L, S
<1>6. at \in 1 .. L
  BY <1>1, <1>4, SMT
<1>7. m = [mark EXCEPT ![at] = v]
  BY DEF Marked
<1>8. m \in Seq(S) /\ Len(m) = L /\ \A i \in 1 .. L : m[i] = IF i = at THEN v ELSE mark[i]
  BY <1>1, <1>5, <1>6, <1>7, SMT
<1>9. \A i \in 1 .. cursor : m[i] # "new"
  <2>1. \A i \in 1 .. cursor : i \in 1 .. L /\ (i # at => i \notin {pending, issue})
    BY <1>1, <1>3, <1>4, SMT
  <2> QED
    BY <1>3, <1>8, <2>1, Zenon
<1>10. \A i \in cursor + 1 .. L : m[i] = "new"
  <2>1. \A i \in cursor + 1 .. L : i \in 1 .. L /\ i # at
    BY <1>1, <1>4, SMT
  <2> QED
    BY <1>3, <1>8, <2>1, Zenon
<1> QED
  BY <1>1, <1>2, <1>4, <1>6, <1>8, <1>9, <1>10 DEF L, S

LEMMA PipesStay ==
  ASSUME IInv, SameReading, UNCHANGED <<closed, asked, said>>
  PROVE  PipesOK'
<1> SUFFICES ASSUME NEW z \in Sessions
             PROVE  PipeOK(z)'
  BY DEF PipesOK
<1>1. (Reading(z)' <=> Reading(z)) /\ (Reading(z) => Head(queue') = Head(queue))
  BY DEF SameReading, Reading
<1> QED
  BY <1>1, Zenon DEF IInv, PipesOK, PipeOK

LEMMA ASessionCloses ==
  ASSUME IInv, SameReading, NEW s \in Sessions, Closes(s)
  PROVE  /\ PipesOK'
         /\ closed' = closed \cup {s} /\ closed' \subseteq Sessions
         /\ child' \in [Sessions -> {"none", "alive", "dead"}]
         /\ asked' \in [Sessions -> Seq(Words)] /\ said' \in [Sessions -> Seq(Words)]
         /\ \A z \in closed' : child'[z] = "none" /\ asked'[z] = <<>>
         /\ \A z \in Sessions : child[z] = "none" => child'[z] = "none"
<1>1. closed' = closed \cup {s} /\ said' = said
      /\ child' = [child EXCEPT ![s] = "none"] /\ asked' = [asked EXCEPT ![s] = <<>>]
  BY DEF Closes
<1>2. /\ closed \subseteq Sessions /\ child \in [Sessions -> {"none", "alive", "dead"}]
      /\ asked \in [Sessions -> Seq(Words)] /\ said \in [Sessions -> Seq(Words)]
  BY DEF IInv, TypeOK
<1>3. child' \in [Sessions -> {"none", "alive", "dead"}] /\ asked' \in [Sessions -> Seq(Words)]
  BY <1>1, <1>2, NoWords
<1>4. \A z \in Sessions : child'[z] = (IF z = s THEN "none" ELSE child[z])
                          /\ asked'[z] = (IF z = s THEN <<>> ELSE asked[z])
  BY <1>1, <1>2, Zenon
<1>5. \A z \in closed' : child'[z] = "none" /\ asked'[z] = <<>>
  BY <1>1, <1>2, <1>4, Zenon DEF IInv, SessionsOK
<1>6. PipesOK'
  <2> SUFFICES ASSUME NEW z \in Sessions
               PROVE  PipeOK(z)'
    BY DEF PipesOK
  <2>1. (Reading(z)' <=> Reading(z)) /\ (Reading(z) => Head(queue') = Head(queue))
    BY DEF SameReading, Reading
  <2>2. CASE z = s
    BY <1>1, <1>4, <2>1, <2>2, Zenon DEF IInv, PipesOK, PipeOK
  <2>3. CASE z # s
    BY <1>1, <1>4, <2>1, <2>3, Zenon DEF IInv, PipesOK, PipeOK
  <2> QED
    BY <2>2, <2>3
<1> QED
  BY <1>1, <1>2, <1>3, <1>4, <1>5, <1>6, Zenon

(* What was asked of the current session, or earlier, stays so.            *)
LEMMA AllPassed ==
  ASSUME IInv, session # 0
  PROVE  /\ \A j \in JobsOf(queue) : Passed(j, session, ticket)
         /\ \A a \in calls : Passed(a.job, session, ticket) /\ AnswerOK(a)
  BY JobPassed, Zenon DEF IInv, JobsOK, AnswersOK

(* Ignore, Ignore All and the answer "known": the word in hand is marked,  *)
(* and the check goes on behind it.                                        *)
LEMMA WordMarked ==
  ASSUME IInv, dialog \in {"ready", "fatal"},
         NEW at \in Nat \ {0}, at \in {pending, issue}, NEW v \in Marks, v # "new",
         v = "known" => text[at] \in Known[dict[session]],
         NEW skip \in SUBSET Words,
         Advance(text, Marked(at, v), cursor, skip, session, ticket),
         UNCHANGED <<dialog, session, dict, pipes>>, calls' \subseteq calls
  PROVE  IInv'
<1>1. /\ session # 0 /\ session \in Sessions
      /\ at = cursor /\ at \in 1 .. Len(text) /\ cursor \in 0 .. Len(text)
      /\ Marked(at, v) \in Seq(Marks) /\ Len(Marked(at, v)) = Len(text)
      /\ \A i \in 1 .. cursor : Marked(at, v)[i] # "new"
      /\ \A i \in cursor + 1 .. Len(text) : Marked(at, v)[i] = "new"
      /\ \A i \in 1 .. Len(text) : Marked(at, v)[i] = IF i = at THEN v ELSE mark[i]
  BY WordDecided
<1>2. UNCHANGED <<closed, child, asked, said>>
  BY DEF pipes
<1>3. text \in Seq(Words) /\ ticket \in Nat
  BY DEF IInv, TypeOK
<1>4. \A i \in 1 .. Len(text) : Marked(at, v)[i] = "known" => text[i] \in Known[dict'[session]]
  <2>1. \A i \in 1 .. Len(text) : mark[i] = "known" => text[i] \in Known[dict[session]]
    <3>1. DOMAIN text = 1 .. Len(text)
      BY <1>3, SMT
    <3> QED
      BY <3>1, Zenon DEF IInv, VerdictsAreTrue
  <2> QED
    BY <1>1, <2>1, Zenon
<1>5. \A j \in JobsOf(queue) : Passed(j, session, ticket)
  BY <1>1, AllPassed
<1>6. \A a \in calls' : Passed(a.job, session, ticket) /\ AnswerOK(a)'
  <2>1. \A a : AnswerOK(a) => AnswerOK(a)'
    BY DEF AnswerOK
  <2> QED
    BY <1>1, <2>1, AllPassed, Zenon
<1> DEFINE m == Marked(at, v)
<1>7. /\ m \in Seq(Marks) /\ Len(m) = Len(text)
      /\ \A i \in 1 .. cursor : m[i] # "new"
      /\ \A i \in cursor + 1 .. Len(text) : m[i] = "new"
      /\ \A i \in 1 .. Len(text) : m[i] = "known" => text[i] \in Known[dict'[session]]
      /\ Advance(text, m, cursor, skip, session, ticket)
  BY <1>1, <1>4
<1> HIDE DEF m
<1>8. /\ text' \in Seq(Words) /\ mark' \in Seq(Marks) /\ Len(mark') = Len(text')
      /\ cursor' \in 0 .. Len(text') /\ pending' \in Nat /\ issue' \in Nat
      /\ ignored' \subseteq Words /\ ticket' \in Nat
      /\ queue' \in Seq(Jobs) /\ (queue' = <<>> => step' = "start")
      /\ calls' \subseteq [job : Jobs, outcome : Outcomes]
      /\ FirstOK' /\ JobsOK' /\ AnswersOK' /\ DecidedOK' /\ VerdictsAreTrue'
      /\ SameReading
  <2>1. cursor \in 0 .. Len(text) /\ session \in Sessions /\ session' = session
          /\ dialog' \in {"ready", "fatal"}
    BY <1>1
  <2> QED
    BY <1>3, <1>5, <1>6, <1>7, <2>1, Proceeds
<1>9. TypeOK'
  BY <1>2, <1>8 DEF IInv, TypeOK, SameReading
<1>10. SessionsOK'
  BY <1>2 DEF IInv, SessionsOK
<1>11. PipesOK'
  BY <1>2, <1>8, PipesStay
<1> QED
  BY <1>8, <1>9, <1>10, <1>11 DEF IInv

LEMMA IgnoreStep == IInv /\ Ignore => IInv'
<1> SUFFICES ASSUME IInv, Ignore
             PROVE  IInv'
  OBVIOUS
<1>1. /\ dialog \in {"ready", "fatal"} /\ issue # 0
      /\ Advance(text, Marked(issue, "ignored"), cursor, ignored, session, ticket)
      /\ UNCHANGED <<dialog, session, dict, pipes>> /\ calls' \subseteq calls
  BY DEF Ignore
<1>2. issue \in Nat \ {0} /\ ignored \in SUBSET Words /\ "ignored" \in Marks
        /\ issue \in {pending, issue}
  BY <1>1 DEF IInv, TypeOK, Marks
<1> QED
  BY <1>1, <1>2, WordMarked

LEMMA IgnoreAllStep == IInv /\ IgnoreAll => IInv'
<1> SUFFICES ASSUME IInv, IgnoreAll
             PROVE  IInv'
  OBVIOUS
<1> DEFINE skip == ignored \cup {text[issue]}
<1>1. /\ dialog \in {"ready", "fatal"} /\ issue # 0
      /\ Advance(text, Marked(issue, "ignored"), cursor, skip, session, ticket)
      /\ UNCHANGED <<dialog, session, dict, pipes>> /\ calls' \subseteq calls
  BY DEF IgnoreAll
<1>2. issue \in Nat \ {0} /\ "ignored" \in Marks /\ issue \in {pending, issue}
  BY <1>1 DEF IInv, TypeOK, Marks
<1>3. issue \in 1 .. Len(text)
  BY <1>1, <1>2, WordDecided
<1>4. skip \in SUBSET Words
  BY <1>3 DEF IInv, TypeOK
<1> HIDE DEF skip
<1> QED
  BY <1>1, <1>2, <1>4, WordMarked

(* A word of the text is replaced by the words of r.                       *)
LEMMA SplicedIs ==
  ASSUME NEW S, NEW q \in Seq(S), NEW at \in 1 .. Len(q), NEW r \in Seq(S)
  PROVE  /\ Spliced(q, at, r) \in Seq(S) /\ Len(Spliced(q, at, r)) = Len(q) - 1 + Len(r)
         /\ \A i \in 1 .. at - 1 : Spliced(q, at, r)[i] = q[i]
         /\ \A i \in at .. at - 1 + Len(r) : Spliced(q, at, r)[i] = r[i - at + 1]
         /\ \A i \in at + Len(r) .. Len(q) - 1 + Len(r) :
              Spliced(q, at, r)[i] = q[i - Len(r) + 1]
<1> DEFINE a == SubSeq(q, 1, at - 1)
           b == SubSeq(q, at + 1, Len(q))
           u == a \o r
<1>1. a \in Seq(S) /\ Len(a) = at - 1 /\ \A i \in 1 .. at - 1 : a[i] = q[i]
  BY SMT
<1>2. b \in Seq(S) /\ Len(b) = Len(q) - at /\ \A i \in 1 .. Len(q) - at : b[i] = q[at + i]
  BY SMT
<1>3. Len(q) \in Nat /\ Len(r) \in Nat
  BY SMT
<1> HIDE DEF a, b
<1>4. u \in Seq(S) /\ Len(u) = at - 1 + Len(r)
        /\ (\A i \in 1 .. at - 1 : u[i] = q[i])
        /\ (\A i \in at .. at - 1 + Len(r) : u[i] = r[i - at + 1])
  <2> DEFINE k == at - 1
  <2>1. k \in Nat /\ at = k + 1
    BY SMT
  <2> HIDE DEF k
  <2>2. u \in Seq(S) /\ Len(u) = k + Len(r)
    BY <1>1, ConcatProperties, Zenon DEF k
  <2>3. \A i \in 1 .. k : u[i] = a[i]
    BY <1>1, SMT DEF k
  <2>4. \A i \in k + 1 .. k + Len(r) : u[i] = r[i - k]
    BY <1>1, SMT DEF k
  <2>5. \A i \in at .. at - 1 + Len(r) : u[i] = r[i - at + 1]
    <3> TAKE i \in at .. at - 1 + Len(r)
    <3>1. i \in k + 1 .. k + Len(r) /\ i - k = i - at + 1
      BY <1>3, <2>1, SMT DEF k
    <3> HIDE DEF u
    <3> QED
      BY <2>4, <3>1
  <2>6. \A i \in 1 .. at - 1 : u[i] = q[i]
    BY <1>1, <2>3 DEF k
  <2> QED
    BY <2>2, <2>5, <2>6 DEF k
<1> HIDE DEF u
<1> DEFINE w == u \o b
<1>5. w \in Seq(S) /\ Len(w) = Len(q) - 1 + Len(r)
        /\ (\A i \in 1 .. at - 1 + Len(r) : w[i] = u[i])
        /\ (\A i \in at + Len(r) .. Len(q) - 1 + Len(r) : w[i] = b[i - (at - 1 + Len(r))])
  <2>1. w \in Seq(S) /\ Len(w) = Len(u) + Len(b)
          /\ \A i \in 1 .. Len(u) + Len(b) : w[i] = IF i <= Len(u) THEN u[i] ELSE b[i - Len(u)]
    <3>1. u \in Seq(S) /\ b \in Seq(S)
      BY <1>2, <1>4
    <3> QED
      BY <3>1, ConcatProperties, Zenon
  <2> HIDE DEF w
  <2>2. Len(u) = at - 1 + Len(r) /\ Len(u) + Len(b) = Len(q) - 1 + Len(r) /\ at \in Nat
    BY <1>2, <1>3, <1>4, SMT
  <2>3. \A i \in 1 .. at - 1 + Len(r) : i \in 1 .. Len(u) + Len(b) /\ i <= Len(u)
    BY <1>2, <1>3, <2>2, SMT
  <2>4. \A i \in at + Len(r) .. Len(q) - 1 + Len(r) : i \in 1 .. Len(u) + Len(b) /\ ~(i <= Len(u))
    BY <1>2, <1>3, <2>2, SMT
  <2> QED
    BY <2>1, <2>2, <2>3, <2>4
<1>6. w = Spliced(q, at, r)
  BY DEF Spliced, a, b, u
<1> HIDE DEF w
<1>7. \A i \in at + Len(r) .. Len(q) - 1 + Len(r) : w[i] = q[i - Len(r) + 1]
  <2> SUFFICES ASSUME NEW i \in at + Len(r) .. Len(q) - 1 + Len(r)
               PROVE  w[i] = q[i - Len(r) + 1]
    OBVIOUS
  <2> DEFINE k == i - (at - 1 + Len(r))
  <2>1. k \in 1 .. Len(q) - at /\ at + k = i - Len(r) + 1
    BY <1>3, SMT
  <2>2. w[i] = b[k]
    BY <1>5
  <2> QED
    BY <1>2, <2>1, <2>2
<1>8. \A i \in 1 .. at - 1 : w[i] = q[i]
  BY <1>3, <1>4, <1>5, SMT
<1>9. \A i \in at .. at - 1 + Len(r) : w[i] = r[i - at + 1]
  BY <1>3, <1>4, <1>5, SMT
<1> QED
  BY <1>5, <1>6, <1>7, <1>8, <1>9

(* The check goes on exactly behind what was put in: nothing before it is  *)
(* left undecided, nothing behind it was decided.                          *)
LEMMA ReplaceStep == IInv /\ Replace => IInv'
<1> SUFFICES ASSUME IInv, Replace
             PROVE  IInv'
  OBVIOUS
<1>1. /\ dialog = "ready" /\ issue # 0
      /\ UNCHANGED <<dialog, session, dict, pipes, calls>>
      /\ UNCHANGED <<closed, child, asked, said>>
  BY DEF Replace, pipes
<1>0. PICK n \in 0 .. 1 + MaxWords - Len(text) : \E r \in [1 .. n -> Words] :
        Advance(Spliced(text, issue, r), Spliced(mark, issue, [i \in DOMAIN r |-> "typed"]),
                AfterReplacement(issue, r), ignored, session, ticket)
  BY DEF Replace
<1>2. PICK r \in [1 .. n -> Words] :
        Advance(Spliced(text, issue, r), Spliced(mark, issue, [i \in DOMAIN r |-> "typed"]),
                AfterReplacement(issue, r), ignored, session, ticket)
  BY <1>0
<1> DEFINE typed == [i \in DOMAIN r |-> "typed"]
           t == Spliced(text, issue, r)
           m == Spliced(mark, issue, typed)
           c == issue - 1 + n
<1>3. /\ text \in Seq(Words) /\ mark \in Seq(Marks) /\ Len(mark) = Len(text) /\ Len(text) \in Nat
      /\ issue \in Nat /\ ticket \in Nat /\ ignored \in SUBSET Words /\ MaxWords \in Nat
  BY BoundsAreNat, SMT DEF IInv, TypeOK
<1>4. /\ session # 0 /\ session \in Sessions /\ issue = cursor /\ issue \in 1 .. Len(text)
      /\ \A i \in 1 .. cursor : Marked(issue, "ignored")[i] # "new"
      /\ \A i \in cursor + 1 .. Len(text) : Marked(issue, "ignored")[i] = "new"
      /\ \A i \in 1 .. Len(text) : Marked(issue, "ignored")[i] = IF i = issue THEN "ignored" ELSE mark[i]
  <2>1. issue \in Nat \ {0} /\ "ignored" \in Marks /\ issue \in {pending, issue}
          /\ dialog \in {"ready", "fatal"}
    BY <1>1, <1>3 DEF Marks
  <2> QED
    BY <2>1, WordDecided
<1>5. \A i \in 1 .. issue - 1 : mark[i] # "new"
  <2>1. \A i \in 1 .. issue - 1 : i \in 1 .. cursor /\ i \in 1 .. Len(text) /\ i # issue
    BY <1>3, <1>4, SMT
  <2> QED
    BY <1>4, <2>1, Zenon
<1>6. \A i \in issue + 1 .. Len(text) : mark[i] = "new"
  <2>1. \A i \in issue + 1 .. Len(text) : i \in cursor + 1 .. Len(text) /\ i \in 1 .. Len(text) /\ i # issue
    BY <1>3, <1>4, SMT
  <2> QED
    BY <1>4, <2>1, Zenon
<1>7. n \in Nat /\ r \in Seq(Words) /\ Len(r) = n /\ DOMAIN r = 1 .. n
  BY <1>3, SMT
<1>8. typed \in Seq(Marks) /\ Len(typed) = n /\ \A i \in 1 .. n : typed[i] = "typed"
  <2>1. "typed" \in Marks
    BY DEF Marks
  <2> QED
    BY <1>7, <2>1, SMT
<1> HIDE DEF typed
<1>9. /\ t \in Seq(Words) /\ Len(t) = Len(text) - 1 + n
      /\ \A i \in 1 .. issue - 1 : t[i] = text[i]
  BY <1>3, <1>4, <1>7, SplicedIs
<1>10. /\ m \in Seq(Marks) /\ Len(m) = Len(text) - 1 + n
       /\ \A i \in 1 .. issue - 1 : m[i] = mark[i]
       /\ \A i \in issue .. issue - 1 + n : m[i] = typed[i - issue + 1]
       /\ \A i \in issue + n .. Len(text) - 1 + n : m[i] = mark[i - n + 1]
  <2>1. issue \in 1 .. Len(mark)
    BY <1>3, <1>4
  <2>2. /\ m \in Seq(Marks) /\ Len(m) = Len(mark) - 1 + Len(typed)
        /\ \A i \in 1 .. issue - 1 : m[i] = mark[i]
        /\ \A i \in issue .. issue - 1 + Len(typed) : m[i] = typed[i - issue + 1]
        /\ \A i \in issue + Len(typed) .. Len(mark) - 1 + Len(typed) : m[i] = mark[i - Len(typed) + 1]
    <3> DEFINE S == Marks
    <3>1. mark \in Seq(S) /\ typed \in Seq(S)
      BY <1>3, <1>8
    <3> HIDE DEF S
    <3>2. /\ Spliced(mark, issue, typed) \in Seq(S)
          /\ Len(Spliced(mark, issue, typed)) = Len(mark) - 1 + Len(typed)
      BY <2>1, <3>1, SplicedIs
    <3>3. \A i \in 1 .. issue - 1 : Spliced(mark, issue, typed)[i] = mark[i]
      BY <2>1, <3>1, SplicedIs
    <3>4. \A i \in issue .. issue - 1 + Len(typed) :
            Spliced(mark, issue, typed)[i] = typed[i - issue + 1]
      BY <2>1, <3>1, SplicedIs
    <3>5. \A i \in issue + Len(typed) .. Len(mark) - 1 + Len(typed) :
            Spliced(mark, issue, typed)[i] = mark[i - Len(typed) + 1]
      BY <2>1, <3>1, SplicedIs
    <3> QED
      BY <3>2, <3>3, <3>4, <3>5 DEF S
  <2> HIDE DEF m
  <2> QED
    BY <1>3, <1>8, <2>2
<1>11. Advance(t, m, c, ignored, session, ticket)
  BY <1>2, <1>7 DEF AfterReplacement, typed
<1> HIDE DEF t, m
<1>12. c \in 0 .. Len(t) /\ Len(m) = Len(t)
  BY <1>3, <1>4, <1>7, <1>9, <1>10, SMT
<1>13. \A i \in 1 .. c : m[i] # "new"
  <2> SUFFICES ASSUME NEW i \in 1 .. c
               PROVE  m[i] # "new"
    OBVIOUS
  <2>1. CASE i \in 1 .. issue - 1
    BY <1>5, <1>10, <2>1, Zenon
  <2>2. CASE i \in issue .. issue - 1 + n
    <3>1. i - issue + 1 \in 1 .. n
      BY <1>3, <1>7, <2>2, SMT
    <3> QED
      BY <1>8, <1>10, <2>2, <3>1
  <2> QED
    BY <1>3, <1>7, <2>1, <2>2, SMT
<1>14. \A i \in c + 1 .. Len(t) : m[i] = "new"
  <2> SUFFICES ASSUME NEW i \in c + 1 .. Len(t)
               PROVE  m[i] = "new"
    OBVIOUS
  <2>1. i \in issue + n .. Len(text) - 1 + n /\ i - n + 1 \in issue + 1 .. Len(text)
    BY <1>3, <1>7, <1>9, SMT
  <2> QED
    BY <1>6, <1>10, <2>1
<1>15. \A i \in 1 .. Len(t) : m[i] = "known" => t[i] \in Known[dict'[session]]
  <2> SUFFICES ASSUME NEW i \in 1 .. Len(t), m[i] = "known"
               PROVE  t[i] \in Known[dict'[session]]
    OBVIOUS
  <2>1. i \in 1 .. issue - 1
    <3>1. i \in c + 1 .. Len(t) => m[i] = "new"
      BY <1>14
    <3>2. i \in issue .. issue - 1 + n => m[i] = "typed"
      <4>1. i \in issue .. issue - 1 + n => i - issue + 1 \in 1 .. n
        BY <1>3, <1>7, SMT
      <4> QED
        BY <1>8, <1>10, <4>1
    <3>3. i \in 1 .. issue - 1 \/ i \in issue .. issue - 1 + n \/ i \in c + 1 .. Len(t)
      BY <1>3, <1>7, <1>12, SMT
    <3> QED
      BY <3>1, <3>2, <3>3
  <2>2. t[i] = text[i] /\ mark[i] = "known"
    BY <1>9, <1>10, <2>1, Zenon
  <2>3. i \in DOMAIN text
    BY <1>3, <1>4, <2>1, SMT
  <2> QED
    BY <1>1, <2>2, <2>3, Zenon DEF IInv, VerdictsAreTrue
<1>16. \A j \in JobsOf(queue) : Passed(j, session, ticket)
  BY <1>4, AllPassed
<1>17. \A a \in calls' : Passed(a.job, session, ticket) /\ AnswerOK(a)'
  <2>1. \A a : AnswerOK(a) => AnswerOK(a)'
    BY <1>1 DEF AnswerOK
  <2> QED
    BY <1>1, <1>4, <2>1, AllPassed, Zenon
<1> HIDE DEF c
<1>18. /\ text' \in Seq(Words) /\ mark' \in Seq(Marks) /\ Len(mark') = Len(text')
       /\ cursor' \in 0 .. Len(text') /\ pending' \in Nat /\ issue' \in Nat
       /\ ignored' \subseteq Words /\ ticket' \in Nat
       /\ queue' \in Seq(Jobs) /\ (queue' = <<>> => step' = "start")
       /\ calls' \subseteq [job : Jobs, outcome : Outcomes]
       /\ FirstOK' /\ JobsOK' /\ AnswersOK' /\ DecidedOK' /\ VerdictsAreTrue'
       /\ SameReading
  <2>1. session' = session /\ dialog' \in {"ready", "fatal"} /\ calls' \subseteq calls
    BY <1>1
  <2> QED
    BY <1>3, <1>4, <1>9, <1>10, <1>11, <1>12, <1>13, <1>14, <1>15, <1>16, <1>17, <2>1, Proceeds
<1>19. TypeOK'
  BY <1>1, <1>18 DEF IInv, TypeOK, SameReading
<1>20. SessionsOK'
  BY <1>1 DEF IInv, SessionsOK
<1>21. PipesOK'
  BY <1>1, <1>18, PipesStay
<1> QED
  BY <1>18, <1>19, <1>20, <1>21 DEF IInv

(* The first words: none is decided.                                       *)
LEMMA FreshIs ==
  ASSUME NEW t \in Seq(Words)
  PROVE  Fresh(t) \in Seq(Marks) /\ Len(Fresh(t)) = Len(t)
           /\ \A i \in 1 .. Len(t) : Fresh(t)[i] = "new"
<1>1. Len(t) \in Nat /\ DOMAIN t = 1 .. Len(t) /\ "new" \in Marks
  BY DEF Marks
<1> QED
  BY <1>1 DEF Fresh

(* An answer that is not current changes nothing.                          *)
LEMMA StaleAnswer ==
  ASSUME IInv, NEW c \in calls, calls' = calls \ {c},
         UNCHANGED <<check, dialog, ticket, session, dict, pipes, worker>>
  PROVE  IInv'
<1>1. /\ UNCHANGED <<text, mark, cursor, pending, issue, ignored, dialog, ticket, session, dict>>
      /\ UNCHANGED <<closed, child, asked, said, queue, step>> /\ calls' \subseteq calls
  BY DEF check, pipes, worker
<1>2. TypeOK'
  BY <1>1 DEF IInv, TypeOK
<1>3. FirstOK'
  BY <1>1 DEF IInv, FirstOK
<1>4. JobsOK'
  BY <1>1 DEF IInv, JobsOK, JobOK
<1>5. AnswersOK'
  BY <1>1 DEF IInv, AnswersOK, AnswerOK
<1>6. SessionsOK' /\ DecidedOK' /\ VerdictsAreTrue'
  BY <1>1 DEF IInv, SessionsOK, DecidedOK, VerdictsAreTrue
<1>7. PipesOK'
  BY <1>1, PipesStay DEF SameReading
<1> QED
  BY <1>2, <1>3, <1>4, <1>5, <1>6, <1>7 DEF IInv

(* Before there is a session, no call tells of a word.                     *)
LEMMA AnswerToACheck ==
  ASSUME IInv, NEW c \in calls, c.outcome \notin {"found", "raised"}
  PROVE  session # 0
<1> SUFFICES ASSUME session = 0
             PROVE  FALSE
  OBVIOUS
<1>1. PICK o \in {"found", "raised"} : calls \subseteq {[job |-> Discovery, outcome |-> o]}
  BY Zenon DEF IInv, FirstOK
<1>2. c.outcome = o
  BY <1>1
<1> QED
  BY <1>2

(* The dictionaries were found: the check begins, with the first session.  *)
LEMMA FoundAnswer ==
  ASSUME IInv, NEW c \in calls, calls' = calls \ {c},
         dialog \in {"finding", "ready", "fatal"}, c.outcome = "found",
         dialog' = "ready", session' = 1,
         Advance(text, mark, 0, {}, 1, ticket), UNCHANGED <<dict, pipes>>
  PROVE  IInv'
<1>1. session = 0
  BY Zenon DEF IInv, AnswersOK, AnswerOK
<1>2. queue = <<>> /\ step = "start"
  BY <1>1 DEF IInv, FirstOK, TypeOK
<1>3. calls' = {}
  BY <1>1, Zenon DEF IInv, FirstOK
<1>4. /\ text \in Seq(Words) /\ mark \in Seq(Marks) /\ Len(mark) = Len(text)
      /\ 0 \in 0 .. Len(text) /\ {} \in SUBSET Words /\ 1 \in Sessions /\ ticket \in Nat
  BY BoundsAreNat, SMT DEF IInv, TypeOK, Sessions
<1>5. \A i \in 1 .. Len(text) : mark[i] = "new"
  <2>1. DOMAIN mark = 1 .. Len(text)
    BY <1>4, SMT
  <2> QED
    BY <1>1, <2>1, Zenon DEF IInv, FirstOK
<1>6. /\ \A i \in 1 .. 0 : mark[i] # "new"
      /\ \A i \in 0 + 1 .. Len(text) : mark[i] = "new"
      /\ \A i \in 1 .. Len(text) : mark[i] = "known" => text[i] \in Known[dict'[1]]
  BY <1>4, <1>5, SMT
<1>7. JobsOf(queue) = {}
  BY <1>2, NoWords
<1>8. /\ text' \in Seq(Words) /\ mark' \in Seq(Marks) /\ Len(mark') = Len(text')
      /\ cursor' \in 0 .. Len(text') /\ pending' \in Nat /\ issue' \in Nat
      /\ ignored' \subseteq Words /\ ticket' \in Nat
      /\ queue' \in Seq(Jobs) /\ (queue' = <<>> => step' = "start")
      /\ calls' \subseteq [job : Jobs, outcome : Outcomes]
      /\ FirstOK' /\ JobsOK' /\ AnswersOK' /\ DecidedOK' /\ VerdictsAreTrue'
      /\ SameReading
  <2>1. dialog' \in {"ready", "fatal"} /\ calls' \subseteq calls
    BY <1>3
  <2>2. \A j \in JobsOf(queue) : Passed(j, 1, ticket)
    BY <1>7
  <2>3. \A a \in calls' : Passed(a.job, 1, ticket) /\ AnswerOK(a)'
    BY <1>3
  <2> QED
    BY <1>4, <1>6, <2>1, <2>2, <2>3, Proceeds
<1>9. UNCHANGED <<dict, closed, child, asked, said>>
  BY DEF pipes
<1>10. TypeOK'
  BY <1>4, <1>8, <1>9, SMT DEF IInv, TypeOK, SameReading, Sessions, Steps, Dialogs
<1>11. SessionsOK'
  <2>1. \A s \in Sessions : ~(s < session')
    BY SMT DEF Sessions
  <2>2. \A s \in Sessions : child'[s] = "none"
    BY <1>1, <1>9 DEF IInv, FirstOK
  <2>3. \A s \in closed' : child'[s] = "none" /\ asked'[s] = <<>>
    BY <1>9 DEF IInv, SessionsOK
  <2> QED
    BY <2>1, <2>2, <2>3 DEF SessionsOK
<1>12. PipesOK'
  BY <1>8, <1>9, PipesStay
<1> QED
  BY <1>8, <1>10, <1>11, <1>12 DEF IInv

(* The pending word is not known: it is shown.                             *)
LEMMA UnknownAnswer ==
  ASSUME IInv, NEW c \in calls, calls' = calls \ {c},
         dialog \in {"finding", "ready", "fatal"},
         IsCurrent(c), c.outcome = "unknown", c.job.at = pending,
         pending' = 0, issue' = c.job.at,
         UNCHANGED <<text, mark, cursor, ignored, dialog, ticket, session, dict, pipes, worker>>
  PROVE  IInv'
<1>1. session # 0
  BY AnswerToACheck
<1>2. JobOK(c.job) /\ AnswerOK(c) /\ c.job \in Checks
  BY <1>1, Zenon DEF IInv, JobsOK, JobOK, AnswersOK
<1>3. c.job.at \in Nat \ {0} /\ c.job.session = session /\ text[pending] = c.job.word
  BY <1>2, AJob, Zenon DEF JobOK, IsCurrent
<1>4. /\ UNCHANGED <<closed, child, asked, said, queue, step>> /\ calls' \subseteq calls
  BY DEF pipes, worker
<1>5. dialog \in {"ready", "fatal"} /\ pending = cursor /\ issue' = cursor
  BY <1>1, <1>3, Zenon DEF IInv, FirstOK, DecidedOK
<1>6. TypeOK'
  BY <1>3, <1>4 DEF IInv, TypeOK
<1>7. FirstOK'
  BY <1>1, <1>5 DEF FirstOK
<1>8. JobsOK'
  <2>1. \A j : JobOK(j) => JobOK(j)'
    <3> SUFFICES ASSUME NEW j, JobOK(j)
                 PROVE  JobOK(j)'
      OBVIOUS
    <3>1. j.at # pending'
      BY AJob, Zenon DEF JobOK
    <3> QED
      BY <3>1, Zenon DEF JobOK
  <2>2. \A j \in JobsOf(queue') : JobOK(j)'
    BY <1>1, <1>4, <2>1, Zenon DEF IInv, JobsOK
  <2>3. \A a \in calls' : JobOK(a.job)'
    BY <1>1, <1>4, <2>1, Zenon DEF IInv, JobsOK
  <2>4. JobsOf(queue)' = JobsOf(queue')
    BY DEF JobsOf
  <2> QED
    BY <2>2, <2>3, <2>4, Zenon DEF JobsOK
<1>9. AnswersOK'
  BY <1>4 DEF IInv, AnswersOK, AnswerOK
<1>10. SessionsOK'
  BY <1>4 DEF IInv, SessionsOK
<1>11. PipesOK'
  BY <1>4, PipesStay DEF SameReading
<1>12. DecidedOK'
  <2>1. \A i : i \in 1 .. cursor => (i \in {pending, issue} <=> i \in {pending', issue'})
    <3>1. \A i \in 1 .. cursor : i # 0
      BY SMT DEF IInv, TypeOK
    <3> QED
      BY <1>5, <3>1, Zenon DEF IInv, DecidedOK
  <2> QED
    BY <1>5, <2>1, Zenon DEF IInv, DecidedOK
<1>13. VerdictsAreTrue'
  BY <1>2, <1>3 DEF IInv, VerdictsAreTrue, AnswerOK
<1> QED
  BY <1>6, <1>7, <1>8, <1>9, <1>10, <1>11, <1>12, <1>13 DEF IInv

(* The dialog gives up, over an error or a replacement that was refused.   *)
LEMMA DialogStops ==
  ASSUME IInv, session # 0, dialog \in {"ready", "fatal"}, dialog' = "fatal",
         UNCHANGED <<check, ticket, session, dict, pipes, worker>>, calls' \subseteq calls
  PROVE  IInv'
<1>1. /\ UNCHANGED <<text, mark, cursor, pending, issue, ignored, ticket, session, dict>>
      /\ UNCHANGED <<closed, child, asked, said, queue, step>>
  BY DEF check, pipes, worker
<1>2. TypeOK'
  BY <1>1 DEF IInv, TypeOK, Dialogs, Steps
<1>3. FirstOK'
  BY <1>1 DEF FirstOK
<1>4. JobsOK'
  BY <1>1 DEF IInv, JobsOK, JobOK
<1>5. AnswersOK'
  BY <1>1 DEF IInv, AnswersOK, AnswerOK
<1>6. SessionsOK'
  BY <1>1 DEF IInv, SessionsOK
<1>7. PipesOK'
  BY <1>1, PipesStay DEF SameReading
<1>8. DecidedOK'
  BY <1>1 DEF IInv, DecidedOK
<1>9. VerdictsAreTrue'
  BY <1>1 DEF IInv, VerdictsAreTrue
<1> QED
  BY <1>2, <1>3, <1>4, <1>5, <1>6, <1>7, <1>8, <1>9 DEF IInv

LEMMA ReplaceRefusedStep == IInv /\ ReplaceRefused => IInv'
<1> SUFFICES ASSUME IInv, ReplaceRefused
             PROVE  IInv'
  OBVIOUS
<1>1. session # 0 /\ dialog \in {"ready", "fatal"} /\ dialog' = "fatal" /\ calls' \subseteq calls
  BY DEF ReplaceRefused, IInv, FirstOK
<1> QED
  BY <1>1, DialogStops DEF ReplaceRefused

(* What discovery raised leaves the dialog as it is, saying that it finds. *)
LEMMA RaisedAnswer ==
  ASSUME IInv, NEW c \in calls, calls' = calls \ {c},
         dialog \in {"finding", "ready", "fatal"}, c.outcome = "raised", dialog' = "stuck",
         UNCHANGED <<check, ticket, session, dict, pipes, worker>>
  PROVE  IInv'
<1>1. /\ UNCHANGED <<text, mark, cursor, pending, issue, ignored, ticket, session, dict>>
      /\ UNCHANGED <<closed, child, asked, said, queue, step>> /\ calls' \subseteq calls
  BY DEF check, pipes, worker
<1>2. session = 0
  BY Zenon DEF IInv, AnswersOK, AnswerOK
<1>3. dialog = "finding"
  BY <1>2, Zenon DEF IInv, FirstOK
<1>4. TypeOK'
  BY <1>1 DEF IInv, TypeOK, Dialogs, Steps
<1>5. FirstOK'
  <2>1. ticket' = 1 /\ session' = 0
    BY <1>1, <1>2, <1>3 DEF IInv, FirstOK
  <2>2. PICK o \in {"found", "raised"} : calls \subseteq {[job |-> Discovery, outcome |-> o]}
    BY <1>2, Zenon DEF IInv, FirstOK
  <2>3. calls' \subseteq {[job |-> Discovery, outcome |-> o]}
    BY <1>1, <2>2
  <2>4. /\ issue' = 0 /\ \A i \in DOMAIN mark' : mark'[i] = "new"
        /\ queue' = <<>>
        /\ \A s \in Sessions : child'[s] = "none" /\ asked'[s] = <<>> /\ said'[s] = <<>>
    BY <1>1, <1>2 DEF IInv, FirstOK
  <2> QED
    BY <2>1, <2>3, <2>4, Zenon DEF FirstOK
<1>6. JobsOK' /\ AnswersOK'
  BY <1>1, <1>2 DEF JobsOK, AnswersOK
<1>7. SessionsOK'
  BY <1>1 DEF IInv, SessionsOK
<1>8. PipesOK'
  BY <1>1, PipesStay DEF SameReading
<1>9. DecidedOK'
  BY DEF DecidedOK
<1>10. VerdictsAreTrue'
  BY <1>1 DEF IInv, VerdictsAreTrue
<1> QED
  BY <1>4, <1>5, <1>6, <1>7, <1>8, <1>9, <1>10 DEF IInv

LEMMA DeliverStep == ASSUME NEW c \in calls PROVE IInv /\ Deliver(c) => IInv'
<1> SUFFICES ASSUME IInv, Deliver(c)
             PROVE  IInv'
  OBVIOUS
<1>1. dialog \in {"finding", "ready", "fatal"} /\ calls' = calls \ {c}
  BY DEF Deliver
<1>2. CASE UNCHANGED <<check, dialog, ticket, session, dict, pipes, worker>>
  BY <1>1, <1>2, StaleAnswer
<1>3. CASE /\ c.outcome = "found" /\ dialog' = "ready" /\ session' = 1
           /\ Advance(text, mark, 0, {}, 1, ticket) /\ UNCHANGED <<dict, pipes>>
  BY <1>1, <1>3, FoundAnswer
<1>4. CASE /\ IsCurrent(c) /\ c.outcome = "known" /\ c.job.at = pending
           /\ Advance(text, Marked(c.job.at, "known"), cursor, ignored, session, ticket)
           /\ UNCHANGED <<dialog, session, dict, pipes>>
  <2>1. session # 0
    BY <1>4, AnswerToACheck
  <2>2. JobOK(c.job) /\ AnswerOK(c) /\ c.job \in Checks
    BY <2>1, Zenon DEF IInv, JobsOK, JobOK, AnswersOK
  <2>3. c.job.at \in Nat \ {0} /\ c.job.session = session /\ text[c.job.at] = c.job.word
    BY <1>4, <2>2, AJob, Zenon DEF JobOK, IsCurrent
  <2>4. text[c.job.at] \in Known[dict[session]]
    BY <1>4, <2>2, <2>3, Zenon DEF AnswerOK
  <2>5. dialog \in {"ready", "fatal"}
    BY <1>1, <2>1, Zenon DEF IInv, FirstOK
  <2>6. "known" \in Marks /\ ignored \in SUBSET Words /\ calls' \subseteq calls
          /\ c.job.at \in {pending, issue} /\ "known" # "new"
    BY <1>1, <1>4 DEF IInv, TypeOK, Marks
  <2> QED
    BY <1>4, <2>3, <2>4, <2>5, <2>6, WordMarked
<1>5. CASE /\ IsCurrent(c) /\ c.outcome = "unknown" /\ c.job.at = pending
           /\ pending' = 0 /\ issue' = c.job.at
           /\ UNCHANGED <<text, mark, cursor, ignored, dialog, ticket, session, dict, pipes, worker>>
  BY <1>1, <1>5, UnknownAnswer
<1>6. CASE /\ c.outcome = "error" /\ dialog' = "fatal"
           /\ UNCHANGED <<check, ticket, session, dict, pipes, worker>>
  <2>1. session # 0
    BY <1>6, AnswerToACheck
  <2>2. dialog \in {"ready", "fatal"} /\ calls' \subseteq calls
    BY <1>1, <2>1, Zenon DEF IInv, FirstOK
  <2> QED
    BY <1>6, <2>1, <2>2, DialogStops
<1>7. CASE /\ c.outcome = "raised" /\ dialog' = "stuck"
           /\ UNCHANGED <<check, ticket, session, dict, pipes, worker>>
  BY <1>1, <1>7, RaisedAnswer
<1> QED
  BY <1>2, <1>3, <1>4, <1>5, <1>6, <1>7, Zenon DEF Deliver

(* Another dictionary: no answer of the old session is current any more,   *)
(* and nothing is decided.                                                 *)
LEMMA RestartStep == ASSUME NEW d \in Dictionaries PROVE IInv /\ Restart(d) => IInv'
<1> SUFFICES ASSUME IInv, Restart(d)
             PROVE  IInv'
  OBVIOUS
<1> DEFINE s == session + 1
<1>1. /\ dialog = "ready" /\ session < MaxSessions
      /\ Closes(session) /\ session' = s
      /\ dict' = [dict EXCEPT ![s] = d]
      /\ Advance(text, Fresh(text), 0, {}, s, ticket + 1)
      /\ UNCHANGED <<dialog, calls>>
  BY DEF Restart
<1>2. session # 0
  BY <1>1 DEF IInv, FirstOK
<1>3. /\ session \in Sessions /\ s \in Sessions /\ session \in Nat /\ s # session
      /\ text \in Seq(Words) /\ 0 \in 0 .. Len(text) /\ {} \in SUBSET Words
      /\ ticket \in Nat /\ ticket + 1 \in Nat
  BY <1>1, <1>2, BoundsAreNat, SMT DEF IInv, TypeOK, Sessions
<1>4. Fresh(text) \in Seq(Marks) /\ Len(Fresh(text)) = Len(text)
        /\ \A i \in 1 .. Len(text) : Fresh(text)[i] = "new"
  BY <1>3, FreshIs
<1> DEFINE m == Fresh(text)
<1> HIDE DEF m
<1>5. /\ m \in Seq(Marks) /\ Len(m) = Len(text) /\ Advance(text, m, 0, {}, s, ticket + 1)
      /\ \A i \in 1 .. Len(text) : m[i] = "new"
  BY <1>1, <1>4 DEF m
<1>6. /\ \A i \in 1 .. 0 : m[i] # "new"
      /\ \A i \in 0 + 1 .. Len(text) : m[i] = "new"
      /\ \A i \in 1 .. Len(text) : m[i] = "known" => text[i] \in Known[dict'[s]]
  BY <1>3, <1>5, SMT
<1>7. \A j : JobOK(j) => Passed(j, s, ticket + 1)
  <2> SUFFICES ASSUME NEW j, JobOK(j)
               PROVE  Passed(j, s, ticket + 1)
    OBVIOUS
  <2>1. j \in Checks /\ j.ticket \in Nat /\ j.session \in Nat /\ j.ticket <= ticket /\ j.session <= session
    BY AJob, SMT DEF JobOK, Sessions
  <2>2. j.ticket <= ticket + 1 /\ j.ticket # ticket + 1 /\ j.session <= s
    BY <1>3, <2>1, SMT
  <2> QED
    BY <2>1, <2>2, Zenon DEF Passed
<1>8. \A j \in JobsOf(queue) : Passed(j, s, ticket + 1)
  BY <1>2, <1>7, Zenon DEF IInv, JobsOK
<1>9. \A a \in calls' : Passed(a.job, s, ticket + 1) /\ AnswerOK(a)'
  <2> SUFFICES ASSUME NEW a \in calls
               PROVE  Passed(a.job, s, ticket + 1) /\ AnswerOK(a)'
    BY <1>1
  <2>1. JobOK(a.job) /\ AnswerOK(a)
    BY <1>2, Zenon DEF IInv, JobsOK, AnswersOK
  <2>2. a.job.session \in Sessions /\ a.job.session <= session
    BY <2>1, AJob, Zenon DEF JobOK
  <2>3. a.job.session # s
    BY <1>3, <2>2, SMT DEF Sessions
  <2>4. dict'[a.job.session] = dict[a.job.session]
    BY <1>1, <1>3, <2>2, <2>3, Zenon DEF IInv, TypeOK
  <2> QED
    BY <1>7, <2>1, <2>4, Zenon DEF AnswerOK
<1> HIDE DEF s
<1>10. /\ text' \in Seq(Words) /\ mark' \in Seq(Marks) /\ Len(mark') = Len(text')
       /\ cursor' \in 0 .. Len(text') /\ pending' \in Nat /\ issue' \in Nat
       /\ ignored' \subseteq Words /\ ticket' \in Nat
       /\ queue' \in Seq(Jobs) /\ (queue' = <<>> => step' = "start")
       /\ calls' \subseteq [job : Jobs, outcome : Outcomes]
       /\ FirstOK' /\ JobsOK' /\ AnswersOK' /\ DecidedOK' /\ VerdictsAreTrue'
       /\ SameReading
  <2>1. session' = s /\ dialog' \in {"ready", "fatal"} /\ calls' \subseteq calls
    BY <1>1
  <2> QED
    BY <1>3, <1>5, <1>6, <1>8, <1>9, <2>1, Proceeds
<1>11. /\ PipesOK'
       /\ closed' = closed \cup {session} /\ closed' \subseteq Sessions
       /\ child' \in [Sessions -> {"none", "alive", "dead"}]
       /\ asked' \in [Sessions -> Seq(Words)] /\ said' \in [Sessions -> Seq(Words)]
       /\ \A z \in closed' : child'[z] = "none" /\ asked'[z] = <<>>
       /\ \A z \in Sessions : child[z] = "none" => child'[z] = "none"
  BY <1>1, <1>3, <1>10, ASessionCloses
<1>12. TypeOK'
  <2>1. dict' \in [Sessions -> Dictionaries]
    BY <1>1, <1>3 DEF IInv, TypeOK
  <2>2. session' \in 0 .. MaxSessions /\ step' \in Steps /\ dialog' \in Dialogs
    BY <1>1, <1>3, <1>10, SMT DEF Sessions, SameReading, IInv, TypeOK
  <2> QED
    BY <1>10, <1>11, <2>1, <2>2, Zenon DEF TypeOK
<1>13. SessionsOK'
  <2>1. \A z \in Sessions : z < session' => z \in closed'
    <3>1. \A z \in Sessions : z < session' => z < session \/ z = session
      BY <1>1, <1>3, SMT DEF Sessions, s
    <3> QED
      BY <1>11, <3>1, Zenon DEF IInv, SessionsOK
  <2>2. \A z \in Sessions : z > session' => child'[z] = "none"
    <3>1. \A z \in Sessions : z > session' => z > session
      BY <1>1, <1>3, SMT DEF Sessions, s
    <3> QED
      BY <1>11, <3>1, Zenon DEF IInv, SessionsOK
  <2>3. dialog' = "ready"
    BY <1>1
  <2> QED
    BY <1>11, <2>1, <2>2, <2>3 DEF SessionsOK
<1> QED
  BY <1>10, <1>11, <1>12, <1>13 DEF IInv

LEMMA CloseStep == IInv /\ Close => IInv'
<1> SUFFICES ASSUME IInv, Close
             PROVE  IInv'
  OBVIOUS
<1>1. /\ dialog' = "closing"
      /\ ticket' = ticket + 1 /\ pending' = 0 /\ issue' = 0 /\ ignored' = {}
      /\ IF session = 0 THEN UNCHANGED <<closed, child, asked, said>> ELSE Closes(session)
      /\ queue' = IF queue = <<>> THEN <<>> ELSE <<Head(queue)>>
      /\ UNCHANGED <<text, mark, cursor, session, dict, step, calls>>
  BY DEF Close, pipes
<1>2. queue \in Seq(Jobs) /\ ticket \in Nat /\ session \in Nat
        /\ (queue = <<>> => step = "start") /\ (session # 0 => session \in Sessions)
  BY SMT DEF IInv, TypeOK, Sessions
<1>3. queue' \in Seq(Jobs) /\ JobsOf(queue') \subseteq JobsOf(queue) /\ (queue' = <<>> => queue = <<>>)
        /\ (queue # <<>> => Head(queue') = Head(queue))
  BY <1>1, <1>2, Finished, NoWords
<1>4. SameReading
  BY <1>1, <1>2, <1>3 DEF SameReading
<1>5. /\ PipesOK' /\ closed' \subseteq Sessions
      /\ child' \in [Sessions -> {"none", "alive", "dead"}]
      /\ asked' \in [Sessions -> Seq(Words)] /\ said' \in [Sessions -> Seq(Words)]
      /\ \A z \in closed' : child'[z] = "none" /\ asked'[z] = <<>>
      /\ \A z \in Sessions : child[z] = "none" => child'[z] = "none"
      /\ closed \subseteq closed' /\ (session # 0 => session \in closed')
  <2>1. CASE session = 0
    <3>1. UNCHANGED <<closed, child, asked, said>>
      BY <1>1, <2>1
    <3>2. PipesOK'
      BY <1>4, <3>1, PipesStay
    <3> QED
      BY <2>1, <3>1, <3>2 DEF IInv, TypeOK, SessionsOK
  <2>2. CASE session # 0
    <3>1. Closes(session) /\ session \in Sessions
      BY <1>1, <1>2, <2>2
    <3> QED
      BY <1>4, <3>1, ASessionCloses, Zenon
  <2> QED
    BY <2>1, <2>2
<1>6. TypeOK'
  <2>1. pending' \in Nat /\ issue' \in Nat /\ ticket' \in Nat
    BY <1>1, <1>2, SMT
  <2> QED
    BY <1>1, <1>2, <1>3, <1>5, <2>1 DEF IInv, TypeOK, Steps, Dialogs
<1>7. FirstOK'
  <2>1. session' = 0 =>
          /\ issue' = 0 /\ \A i \in DOMAIN mark' : mark'[i] = "new"
          /\ \E o \in {"found", "raised"} : calls' \subseteq {[job |-> Discovery, outcome |-> o]}
          /\ \A z \in Sessions : child'[z] = "none" /\ asked'[z] = <<>> /\ said'[z] = <<>>
    BY <1>1 DEF IInv, FirstOK
  <2>2. session' = 0 =>
          queue' = <<>> \/ (queue' = <<Discovery>> /\ step' \in {"start", "blocked"} /\ calls' = {})
    <3>1. Head(<<Discovery>>) = Discovery
      OBVIOUS
    <3> QED
      BY <1>1, <3>1 DEF IInv, FirstOK
  <2> QED
    BY <1>1, <2>1, <2>2 DEF FirstOK
<1>8. JobsOK'
  <2>1. \A j : JobOK(j) => JobOK(j)'
    <3> SUFFICES ASSUME NEW j, JobOK(j)
                 PROVE  JobOK(j)'
      OBVIOUS
    <3>1. j \in Checks /\ j.ticket \in Nat /\ j.ticket <= ticket /\ j.session <= session
      BY AJob, Zenon DEF JobOK
    <3>2. j.ticket <= ticket' /\ j.ticket # ticket'
      BY <1>1, <1>2, <3>1, SMT
    <3> QED
      BY <1>1, <3>1, <3>2 DEF JobOK
  <2>2. \A j \in JobsOf(queue') : session # 0 => JobOK(j)'
    BY <1>3, <2>1, Zenon DEF IInv, JobsOK
  <2>3. \A a \in calls' : session # 0 => JobOK(a.job)'
    BY <1>1, <2>1, Zenon DEF IInv, JobsOK
  <2>4. JobsOf(queue)' = JobsOf(queue')
    BY DEF JobsOf
  <2> QED
    BY <1>1, <2>2, <2>3, <2>4, Zenon DEF JobsOK
<1>9. AnswersOK'
  BY <1>1 DEF IInv, AnswersOK, AnswerOK
<1>10. SessionsOK'
  BY <1>1, <1>5 DEF IInv, SessionsOK
<1>11. DecidedOK'
  BY <1>1 DEF DecidedOK
<1>12. VerdictsAreTrue'
  BY <1>1 DEF IInv, VerdictsAreTrue
<1> QED
  BY <1>5, <1>6, <1>7, <1>8, <1>9, <1>10, <1>11, <1>12 DEF IInv

LEMMA ClosedStep == IInv /\ Closed => IInv'
<1> SUFFICES ASSUME IInv, Closed
             PROVE  IInv'
  OBVIOUS
<1>1. /\ UNCHANGED <<text, mark, cursor, pending, issue, ignored, ticket, session, dict>>
      /\ UNCHANGED <<closed, child, asked, said, queue, step, calls>>
      /\ dialog = "closing" /\ dialog' = "closed"
  BY DEF Closed, check, pipes, worker
<1>2. TypeOK'
  BY <1>1 DEF IInv, TypeOK, Steps, Dialogs
<1>3. FirstOK'
  BY <1>1 DEF IInv, FirstOK
<1>4. JobsOK'
  BY <1>1 DEF IInv, JobsOK, JobOK
<1>5. AnswersOK'
  BY <1>1 DEF IInv, AnswersOK, AnswerOK
<1>6. SessionsOK' /\ DecidedOK' /\ VerdictsAreTrue'
  BY <1>1 DEF IInv, SessionsOK, DecidedOK, VerdictsAreTrue
<1>7. PipesOK'
  BY <1>1, PipesStay DEF SameReading
<1> QED
  BY <1>2, <1>3, <1>4, <1>5, <1>6, <1>7 DEF IInv

-----------------------------------------------------------------------------

LEMMA AtInit == Init => IInv
<1> SUFFICES ASSUME Init
             PROVE  IInv
  OBVIOUS
<1>1. text \in Seq(Words)
  BY TextsAreBounded, BoundsAreNat DEF Init
<1>2. mark \in Seq(Marks) /\ Len(mark) = Len(text) /\ \A i \in 1 .. Len(text) : mark[i] = "new"
  BY <1>1, FreshIs DEF Init
<1>3. DOMAIN mark = 1 .. Len(text) /\ Len(text) \in Nat /\ DOMAIN text = 1 .. Len(text)
  BY <1>1, <1>2
<1>4. queue = <<Discovery>> /\ Discovery \in Jobs
  BY DEF Init, Discovery, Jobs
<1>5. queue \in Seq(Jobs) /\ queue # <<>>
  BY <1>4
<1>6. TypeOK
  <2>1. cursor \in 0 .. Len(text)
    BY <1>3, SMT DEF Init
  <2>2. pending \in Nat /\ issue \in Nat /\ ticket \in Nat /\ session \in 0 .. MaxSessions
    BY BoundsAreNat, SMT DEF Init
  <2>3. /\ asked \in [Sessions -> Seq(Words)] /\ said \in [Sessions -> Seq(Words)]
        /\ dict \in [Sessions -> Dictionaries] /\ child \in [Sessions -> {"none", "alive", "dead"}]
    BY NoWords DEF Init
  <2> QED
    BY <1>1, <1>2, <1>5, <2>1, <2>2, <2>3 DEF Init, TypeOK, Steps, Dialogs
<1>7. FirstOK
  BY <1>2, <1>3, <1>4 DEF Init, FirstOK
<1>8. JobsOK /\ AnswersOK
  BY DEF Init, JobsOK, AnswersOK
<1>9. SessionsOK
  <2>1. \A s \in Sessions : ~(s < session)
    BY SMT DEF Init, Sessions
  <2> QED
    BY <2>1 DEF Init, SessionsOK
<1>10. PipesOK
  BY DEF Init, PipesOK, PipeOK, Reading
<1>11. DecidedOK
  BY DEF Init, DecidedOK
<1>12. VerdictsAreTrue
  BY <1>2, <1>3 DEF Init, VerdictsAreTrue
<1> QED
  BY <1>6, <1>7, <1>8, <1>9, <1>10, <1>11, <1>12 DEF IInv

LEMMA AtStutter == IInv /\ UNCHANGED vars => IInv'
  BY DEF vars, IInv, TypeOK, FirstOK, JobsOK, JobsOf, JobOK, AnswersOK, AnswerOK,
         SessionsOK, PipesOK, PipeOK, Reading, DecidedOK, VerdictsAreTrue

LEMMA EveryStep == IInv /\ [Next]_vars => IInv'
<1> SUFFICES ASSUME IInv, [Next]_vars
             PROVE  IInv'
  OBVIOUS
<1>1. CASE Discover \/ Unblock
  BY <1>1, DiscoverStep, UnblockStep
<1>2. CASE Check
  BY <1>2, StartStep, BannerStep, SendStep, ReadStep DEF Check
<1>3. CASE Hunspell
  BY <1>3, AnswerStep, DieStep DEF Hunspell
<1>4. CASE Delivery
  BY <1>4, DeliverStep DEF Delivery
<1>5. CASE User
  BY <1>5, IgnoreStep, IgnoreAllStep, ReplaceStep, ReplaceRefusedStep,
     RestartStep, CloseStep DEF User
<1>6. CASE Closed
  BY <1>6, ClosedStep
<1>7. CASE UNCHANGED vars
  BY <1>7, AtStutter
<1> QED
  BY <1>1, <1>2, <1>3, <1>4, <1>5, <1>6, <1>7 DEF Next

LEMMA InvariantHolds == Spec => []IInv
  BY AtInit, EveryStep, PTL DEF Spec

(* What the dialog says of a word is what the chosen dictionary says of it.*)
(* Answers name no word that is known and come back when the text, the     *)
(* session and the dictionary may have changed: they are never taken for   *)
(* another word's, or another dictionary's.                                *)
THEOREM VerdictsHold == Spec => []VerdictsAreTrue
<1>1. IInv => VerdictsAreTrue
  BY DEF IInv
<1> QED
  BY <1>1, InvariantHolds, PTL

(* Every word before the cursor was decided, but for the one in hand:      *)
(* neither the words passed over for Ignore All nor a replacement that is  *)
(* longer or shorter than the word makes the check miss one.               *)
THEOREM NothingIsSkipped == Spec => []NothingSkipped
<1>1. IInv => NothingSkipped
  BY DEF IInv, DecidedOK, NothingSkipped
<1> QED
  BY <1>1, InvariantHolds, PTL

(* There is never a second Hunspell child, and when the dialog is closed   *)
(* there is none, wherever the worker was when its session was cancelled.  *)
THEOREM OneChildHolds == Spec => []OneChild
<1>1. IInv => OneChild
  <2> SUFFICES ASSUME IInv
               PROVE  OneChild
    OBVIOUS
  <2> DEFINE running == {s \in Sessions : child[s] # "none"}
  <2>1. session = 0 => running = {}
    BY DEF IInv, FirstOK
  <2>2. running \subseteq {session}
    <3> SUFFICES ASSUME NEW s \in Sessions, s # session
                 PROVE  child[s] = "none"
      OBVIOUS
    <3>1. s < session \/ s > session
      BY SMT DEF IInv, TypeOK, Sessions
    <3> QED
      BY <3>1, Zenon DEF IInv, SessionsOK
  <2>3. dialog = "closed" => running = {}
    BY <2>1, <2>2, Zenon DEF IInv, SessionsOK
  <2>4. Cardinality(running) <= 1
    <3>1. IsFiniteSet({session}) /\ Cardinality({session}) = 1
      BY FS_Singleton, Zenon
    <3> HIDE DEF running
    <3>2. Cardinality(running) <= Cardinality({session})
      BY <2>2, <3>1, FS_Subset, Zenon
    <3> QED
      BY <3>1, <3>2
  <2> QED
    BY <2>3, <2>4 DEF OneChild
<1> QED
  BY <1>1, InvariantHolds, PTL
=============================================================================
