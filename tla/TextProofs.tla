----------------------------- MODULE TextProofs -----------------------------
(***************************************************************************)
(* Proofs about the text commands, for every alphabet, text, view, query,  *)
(* folding and limit.  None of the properties needs an inductive invariant *)
(* beyond TypeOK and LinesFit: they say what the commands do on any text   *)
(* and view, so that nearly all of this is lemmas about the operators.     *)
(***************************************************************************)
EXTENDS TextCommands, EditorBufferProofs

-----------------------------------------------------------------------------
(* The least and the greatest of some numbers.                             *)

LEMMA LeastOf ==
  ASSUME NEW S \in SUBSET Nat, S # {}
  PROVE  /\ Min(S) \in S /\ Min(S) \in Nat
         /\ \A y \in S : Min(S) =< y
<1>1. \E m \in S : \A y \in S : m =< y
  BY NaturalsHaveLeast
<1> QED
  BY <1>1 DEF Min

LEMMA GreatestOf ==
  ASSUME NEW n \in Nat, NEW S \in SUBSET (0 .. n), S # {}
  PROVE  /\ Max(S) \in S /\ Max(S) \in 0 .. n
         /\ \A y \in S : y =< Max(S)
<1> DEFINE T == {n - x : x \in S}
<1>1. T \in SUBSET Nat /\ T # {}
  <2>1. \A x \in S : n - x \in Nat
    BY SMT
  <2> QED
    BY <2>1
<1>2. PICK m \in T : \A y \in T : m =< y
  BY <1>1, NaturalsHaveLeast
<1>3. PICK x \in S : m = n - x
  BY <1>2
<1>4. \A y \in S : y =< x
  <2> TAKE y \in S
  <2>1. n - y \in T
    OBVIOUS
  <2>2. m =< n - y
    BY <1>2, <2>1
  <2> QED
    BY <1>3, <2>2, SMT
<1>5. \A y \in S : x >= y
  BY <1>4, SMT
<1>6. Max(S) \in S /\ \A y \in S : Max(S) >= y
  BY <1>3, <1>5 DEF Max
<1>7. Max(S) \in 0 .. n
  BY <1>6
<1>8. \A y \in S : y =< Max(S)
  <2> TAKE y \in S
  <2>1. Max(S) >= y
    BY <1>6
  <2> QED
    BY <2>1
<1> QED
  BY <1>6, <1>7, <1>8

-----------------------------------------------------------------------------
(* Lines.                                                                  *)

LEMMA BreaksAndStarts ==
  ASSUME NEW t \in Texts
  PROVE  /\ Len(t) \in Nat
         /\ \A i \in Breaks(t) : i \in Nat /\ i < Len(t) /\ i + 1 \in LineStarts(t)
         /\ 0 \in LineStarts(t)
         /\ \A s \in LineStarts(t) : s \in 0 .. Len(t) /\ (s = 0 \/ s - 1 \in Breaks(t))
<1>1. Len(t) \in Nat
  BY SMT DEF Texts
<1>2. \A i \in Breaks(t) : i \in Nat /\ i < Len(t)
  BY <1>1, SMT DEF Breaks
<1>3. ASSUME NEW s \in LineStarts(t)
      PROVE  s \in 0 .. Len(t) /\ (s = 0 \/ s - 1 \in Breaks(t))
  <2>1. CASE s = 0
    BY <1>1, <2>1, SMT
  <2>2. CASE s # 0
    <3>1. PICK i \in Breaks(t) : s = i + 1
      BY <2>2 DEF LineStarts
    <3>2. s - 1 = i /\ s \in 0 .. Len(t)
      BY <1>1, <1>2, <3>1, SMT
    <3> QED
      BY <3>1, <3>2
  <2> QED
    BY <2>1, <2>2
<1> QED
  BY <1>1, <1>2, <1>3 DEF LineStarts

(* The end of a line is the first line break from an offset on, or the end *)
(* of the text.                                                            *)
LEMMA LineEnds ==
  ASSUME NEW t \in Texts, NEW o \in Nat
  PROVE  /\ LineEnd(t, o) \in 0 .. Len(t)
         /\ o =< Len(t) => o =< LineEnd(t, o)
         /\ \A i \in Breaks(t) : o =< i => LineEnd(t, o) =< i
         /\ LineEnd(t, o) < Len(t) => LineEnd(t, o) \in Breaks(t)
<1> DEFINE S == {Len(t)} \cup {i \in Breaks(t) : i >= o}
<1>1. Len(t) \in Nat /\ \A i \in Breaks(t) : i \in Nat /\ i < Len(t)
  BY BreaksAndStarts
<1>2. S \in SUBSET Nat /\ S # {}
  BY <1>1
<1>3. LineEnd(t, o) = Min(S)
  BY DEF LineEnd
<1>4. Min(S) \in S /\ \A y \in S : Min(S) =< y
  <2> HIDE DEF S
  <2> QED
    BY <1>2, LeastOf
<1>5. Min(S) = Len(t) \/ (Min(S) \in Breaks(t) /\ Min(S) >= o)
  BY <1>4
<1>6. Len(t) \in S /\ \A i \in Breaks(t) : o =< i => i \in S
  BY <1>1, SMT
<1>7. Min(S) \in Nat /\ Min(S) =< Len(t) /\ \A i \in Breaks(t) : o =< i => Min(S) =< i
  BY <1>2, <1>4, <1>6
<1> HIDE DEF S
<1> QED
  BY <1>1, <1>3, <1>5, <1>7, SMT

(* The start of a line is the last one up to an offset.                    *)
LEMMA LineStartsBefore ==
  ASSUME NEW t \in Texts, NEW o \in Nat
  PROVE  /\ LineStart(t, o) \in LineStarts(t) /\ LineStart(t, o) \in 0 .. o
         /\ \A s \in LineStarts(t) : s =< o => s =< LineStart(t, o)
<1> DEFINE S == {s \in LineStarts(t) : s =< o}
<1>1. 0 \in LineStarts(t) /\ \A s \in LineStarts(t) : s \in Nat
  <2>1. 0 \in LineStarts(t) /\ Len(t) \in Nat /\ \A s \in LineStarts(t) : s \in 0 .. Len(t)
    BY BreaksAndStarts
  <2> QED
    BY <2>1, SMT
<1>2. S \in SUBSET (0 .. o) /\ S # {}
  BY <1>1, SMT
<1>3. Max(S) \in S /\ Max(S) \in 0 .. o /\ \A y \in S : y =< Max(S)
  <2> HIDE DEF S
  <2> QED
    BY <1>2, GreatestOf
<1>4. LineStart(t, o) = Max(S)
  BY DEF LineStart
<1> QED
  BY <1>3, <1>4

(* A line ends where one of its parts does: nothing breaks it in between.  *)
LEMMA NoBreakWithinLine ==
  ASSUME NEW t \in Texts, NEW o \in Nat, NEW i \in Breaks(t), LineStart(t, o) =< i
  PROVE  o =< i
<1>1. i \in Nat /\ i + 1 \in LineStarts(t)
  BY BreaksAndStarts
<1>2. /\ LineStart(t, o) \in 0 .. o
      /\ i + 1 =< o => i + 1 =< LineStart(t, o)
  BY <1>1, LineStartsBefore
<1> QED
  BY <1>1, <1>2, SMT

-----------------------------------------------------------------------------
(* The width of lines.  A text is renderable if every range of it without  *)
(* a line break is narrow: this says the same without naming lines, and    *)
(* can be followed through a replacement.                                  *)

Unbroken(t, a, b) == \A i \in Breaks(t) : ~(a =< i /\ i < b)

Narrow(t) == \A a, b \in 0 .. Len(t) : a =< b /\ Unbroken(t, a, b) => b - a =< MaxLine

LEMMA RenderableIsNarrow ==
  ASSUME NEW t \in Texts
  PROVE  Renderable(t) <=> Narrow(t)
<1>1. /\ Len(t) \in Nat /\ MaxLine \in Nat
      /\ \A i \in Breaks(t) : i \in Nat /\ i < Len(t)
      /\ \A s \in LineStarts(t) : s \in 0 .. Len(t)
  BY BreaksAndStarts, LinesAreSet
<1>2. ASSUME Renderable(t), NEW a \in 0 .. Len(t), NEW b \in 0 .. Len(t),
             a =< b, Unbroken(t, a, b)
      PROVE  b - a =< MaxLine
  <2> DEFINE s == LineStart(t, a)
             e == LineEnd(t, s)
  <2>1. a \in Nat
    BY SMT
  <2>2. s \in LineStarts(t) /\ s \in 0 .. a
    BY <2>1, LineStartsBefore
  <2>3. e \in 0 .. Len(t) /\ (s =< Len(t) => s =< e) /\ (e < Len(t) => e \in Breaks(t))
    <3>1. s \in Nat
      BY <2>2, SMT
    <3> HIDE DEF s
    <3> QED
      BY <3>1, LineEnds
  <2>4. e - s =< MaxLine
    BY <1>2, <2>2 DEF Renderable
  <2>5. e \in Breaks(t) /\ s =< e => a =< e
    BY <2>1, NoBreakWithinLine
  <2>6. e \in Breaks(t) => ~(a =< e /\ e < b)
    BY <1>2 DEF Unbroken
  <2> HIDE DEF s, e
  <2> QED
    BY <1>1, <1>2, <2>1, <2>2, <2>3, <2>4, <2>5, <2>6, SMT
<1>3. ASSUME Narrow(t), NEW s \in LineStarts(t)
      PROVE  LineEnd(t, s) - s =< MaxLine
  <2>1. s \in 0 .. Len(t) /\ s \in Nat
    BY <1>1, SMT
  <2>2. LineEnd(t, s) \in 0 .. Len(t) /\ s =< LineEnd(t, s)
    BY <1>1, <2>1, LineEnds, SMT
  <2>3. Unbroken(t, s, LineEnd(t, s))
    <3> SUFFICES ASSUME NEW i \in Breaks(t), s =< i, i < LineEnd(t, s)
                 PROVE  FALSE
      BY DEF Unbroken
    <3>1. LineEnd(t, s) =< i
      BY <2>1, LineEnds
    <3> QED
      BY <1>1, <2>2, <3>1, SMT
  <2> QED
    BY <1>3, <2>1, <2>2, <2>3 DEF Narrow
<1> QED
  BY <1>2, <1>3 DEF Renderable, Narrow

-----------------------------------------------------------------------------
(* Replacing a range.                                                      *)

LEMMA JoinedElements ==
  ASSUME NEW a \in Texts, NEW b \in Texts, NEW m, Len(a) = m, NEW n, Len(b) = n
  PROVE  /\ a \o b \in Texts /\ Len(a \o b) = m + n /\ m \in Nat /\ n \in Nat
         /\ \A i \in 1 .. m : (a \o b)[i] = a[i]
         /\ \A i \in 1 .. n : (a \o b)[m + i] = b[i]
  BY SMT DEF Texts

(* Conclusions about sequences with a name of their own, so that they can  *)
(* be cited without the provers taking them apart.                         *)
ReadsBehind(c, m, b, n) == \A i \in 1 .. n : c[m + i] = b[i]

Regroup(a, b, c) == (a \o b) \o c = a \o (b \o c)

LEMMA JoinedBehind ==
  ASSUME NEW a \in Texts, NEW b \in Texts, NEW m, Len(a) = m, NEW n, Len(b) = n
  PROVE  ReadsBehind(a \o b, m, b, n)
  BY JoinedElements DEF ReadsBehind

LEMMA RegroupAny ==
  ASSUME NEW S, NEW a \in Seq(S), NEW b \in Seq(S), NEW c \in Seq(S)
  PROVE  Regroup(a, b, c)
  BY SMT DEF Regroup

LEMMA RegroupTexts ==
  ASSUME NEW a \in Texts, NEW b \in Texts, NEW c \in Texts
  PROVE  Regroup(a, b, c)
  BY RegroupAny DEF Texts

(* How a text reads in which a range was replaced.                         *)
ReadsReplaced(t, lo, hi, x, u) ==
  /\ u \in Texts
  /\ Len(u) = lo + Len(x) + (Len(t) - hi)
  /\ \A i \in 1 .. lo : u[i] = t[i]
  /\ \A i \in 1 .. Len(x) : u[lo + i] = x[i]
  /\ \A i \in 1 .. Len(t) - hi : u[lo + Len(x) + i] = t[hi + i]

LEMMA JoinedReads ==
  ASSUME NEW t \in Texts, NEW lo \in Nat, NEW hi \in Nat, lo =< hi, hi =< Len(t),
         NEW x \in Texts,
         NEW a \in Texts, Len(a) = lo, \A i \in 1 .. lo : a[i] = t[i],
         NEW b \in Texts, NEW m, m = Len(t) - hi, Len(b) = m, \A i \in 1 .. m : b[i] = t[hi + i]
  PROVE  ReadsReplaced(t, lo, hi, x, (a \o x) \o b)
<1> DEFINE n == Len(x)
           c == a \o x
           d == c \o b
<1>1. Len(x) = n /\ n \in Nat /\ Len(t) \in Nat
  BY SMT DEF Texts
<1> HIDE DEF n, c, d
<1>2. /\ c \in Texts /\ Len(c) = lo + n
      /\ \A i \in 1 .. lo : c[i] = a[i]
      /\ \A i \in 1 .. n : c[lo + i] = x[i]
  <2>1. c \in Texts /\ Len(c) = lo + n
    BY <1>1, Glue DEF c
  <2>2. \A i \in 1 .. lo : c[i] = a[i]
    BY <1>1, JoinedElements DEF c
  <2>3. \A i \in 1 .. n : c[lo + i] = x[i]
    BY <1>1, JoinedElements DEF c
  <2> QED
    BY <2>1, <2>2, <2>3
<1>3. /\ d \in Texts /\ Len(d) = lo + n + m /\ m \in Nat
      /\ \A i \in 1 .. lo + n : d[i] = c[i]
      /\ \A i \in 1 .. m : d[lo + n + i] = b[i]
  <2>1. c \in Texts /\ Len(c) = lo + n
    BY <1>2
  <2>2. d \in Texts /\ Len(d) = lo + n + m /\ m \in Nat
    BY <2>1, Glue DEF d
  <2>3. \A i \in 1 .. lo + n : d[i] = c[i]
    BY <2>1, JoinedElements DEF d
  <2>4. \A i \in 1 .. m : d[lo + n + i] = b[i]
    <3>1. ReadsBehind(c \o b, lo + n, b, m)
      BY <2>1, JoinedBehind
    <3> QED
      BY <3>1 DEF ReadsBehind, d
  <2> QED
    BY <2>2, <2>3, <2>4
<1>4. \A i \in 1 .. lo : d[i] = t[i]
  <2> TAKE i \in 1 .. lo
  <2>1. i \in 1 .. lo + n
    BY <1>1, SMT
  <2> QED
    BY <1>2, <1>3, <2>1
<1>5. \A i \in 1 .. n : d[lo + i] = x[i]
  <2> TAKE i \in 1 .. n
  <2>1. lo + i \in 1 .. lo + n
    BY <1>1, SMT
  <2> QED
    BY <1>2, <1>3, <2>1
<1>6. \A i \in 1 .. m : d[lo + n + i] = t[hi + i]
  BY <1>3
<1> QED
  BY <1>3, <1>4, <1>5, <1>6 DEF ReadsReplaced, n, d, c

LEMMA SplicedText ==
  ASSUME NEW t \in Texts, NEW lo \in Nat, NEW hi \in Nat, lo =< hi, hi =< Len(t),
         NEW x \in Texts
  PROVE  /\ Spliced(t, lo, hi, x) = (SubSeq(t, 1, lo) \o x) \o SubSeq(t, hi + 1, Len(t))
         /\ Spliced(t, lo, hi, x) \in Texts
         /\ ReadsReplaced(t, lo, hi, x, Spliced(t, lo, hi, x))
<1> DEFINE a == SubSeq(t, 1, lo)
           b == SubSeq(t, hi + 1, Len(t))
           m == Len(t) - hi
<1>1. Len(t) \in Nat /\ lo =< Len(t) /\ 0 \in Nat /\ 0 =< lo /\ Len(t) =< Len(t)
  BY SMT DEF Texts
<1>2. TextInRange(t, 0, lo) = a
  BY <1>1, PrefixThatFits
<1>3. TextInRange(t, hi, Len(t)) = b
  BY <1>1, RangeThatFits
<1>4. Spliced(t, lo, hi, x) = (a \o x) \o b
  BY <1>2, <1>3 DEF Spliced
<1>5. a \in Texts /\ Len(a) = lo /\ \A i \in 1 .. lo : a[i] = t[i]
  BY <1>1, SMT DEF Texts
<1>6. b \in Texts /\ Len(b) = m /\ \A i \in 1 .. m : b[i] = t[hi + i]
  BY <1>1, SMT DEF Texts
<1>7. m = Len(t) - hi
  OBVIOUS
<1> HIDE DEF a, b, m
<1>8. ReadsReplaced(t, lo, hi, x, (a \o x) \o b)
  BY <1>5, <1>6, <1>7, JoinedReads
<1> QED
  BY <1>4, <1>8 DEF a, b, ReadsReplaced

(* Line breaks stay where they are before the range, and move with what is *)
(* behind it.                                                              *)
LEMMA ReplacedBreaks ==
  ASSUME NEW t \in Texts, NEW lo \in Nat, NEW hi \in Nat, lo =< hi, hi =< Len(t),
         NEW x \in Texts, NEW u, ReadsReplaced(t, lo, hi, x, u)
  PROVE  /\ \A i \in Breaks(t) : i < lo => i \in Breaks(u)
         /\ \A i \in Breaks(x) : lo + i \in Breaks(u)
         /\ \A i \in Breaks(t) : hi =< i => lo + Len(x) + (i - hi) \in Breaks(u)
         /\ \A i \in Breaks(u) :
              \/ i \in Breaks(t) /\ i < lo
              \/ lo =< i /\ i - lo \in Breaks(x)
              \/ lo + Len(x) =< i /\ i - lo - Len(x) + hi \in Breaks(t)
<1> DEFINE n == Len(x)
<1>1. /\ Len(t) \in Nat /\ n \in Nat /\ Len(u) \in Nat
      /\ Len(u) = lo + n + (Len(t) - hi)
      /\ \A i \in 1 .. lo : u[i] = t[i]
      /\ \A i \in 1 .. n : u[lo + i] = x[i]
      /\ \A i \in 1 .. Len(t) - hi : u[lo + n + i] = t[hi + i]
  <2>1. Len(t) \in Nat /\ n \in Nat
    BY SMT DEF Texts
  <2>2. Len(u) \in Nat
    BY SMT DEF ReadsReplaced, Texts
  <2> QED
    BY <2>1, <2>2 DEF ReadsReplaced
<1> HIDE DEF n
<1>2. \A i \in Breaks(t) : i < lo => i \in Breaks(u)
  BY <1>1, SMT DEF Breaks
<1>3. \A i \in Breaks(x) : lo + i \in Breaks(u)
  <2> TAKE i \in Breaks(x)
  <2>1. i \in 0 .. n - 1 /\ x[i + 1] = Newline
    BY DEF Breaks, n
  <2>2. u[lo + (i + 1)] = Newline /\ lo + (i + 1) = (lo + i) + 1 /\ lo + i \in 0 .. Len(u) - 1
    BY <1>1, <2>1, SMT
  <2> QED
    BY <2>2 DEF Breaks
<1>4. \A i \in Breaks(t) : hi =< i => lo + n + (i - hi) \in Breaks(u)
  <2> SUFFICES ASSUME NEW i \in Breaks(t), hi =< i
               PROVE  lo + n + (i - hi) \in Breaks(u)
    OBVIOUS
  <2>1. i \in 0 .. Len(t) - 1 /\ t[i + 1] = Newline
    BY DEF Breaks
  <2>2. i - hi + 1 \in 1 .. Len(t) - hi /\ hi + (i - hi + 1) = i + 1
    BY <1>1, <2>1, SMT
  <2>3. u[lo + n + (i - hi + 1)] = Newline
    BY <1>1, <2>1, <2>2
  <2>4. /\ lo + n + (i - hi + 1) = (lo + n + (i - hi)) + 1
        /\ lo + n + (i - hi) \in 0 .. Len(u) - 1
    BY <1>1, <2>1, SMT
  <2> QED
    BY <2>3, <2>4 DEF Breaks
<1>5. ASSUME NEW i \in Breaks(u)
      PROVE  \/ i \in Breaks(t) /\ i < lo
             \/ lo =< i /\ i - lo \in Breaks(x)
             \/ lo + n =< i /\ i - lo - n + hi \in Breaks(t)
  <2>1. i \in 0 .. Len(u) - 1 /\ u[i + 1] = Newline
    BY DEF Breaks
  <2>2. CASE i < lo
    BY <1>1, <2>1, <2>2, SMT DEF Breaks
  <2>3. CASE lo =< i /\ i < lo + n
    <3>1. (i - lo) + 1 \in 1 .. n /\ lo + ((i - lo) + 1) = i + 1 /\ i - lo \in 0 .. n - 1
      BY <1>1, <2>1, <2>3, SMT
    <3>2. x[(i - lo) + 1] = Newline
      BY <1>1, <2>1, <3>1
    <3> QED
      BY <2>3, <3>1, <3>2 DEF Breaks, n
  <2>4. CASE lo + n =< i
    <3>1. /\ i - lo - n + 1 \in 1 .. Len(t) - hi /\ lo + n + (i - lo - n + 1) = i + 1
          /\ hi + (i - lo - n + 1) = (i - lo - n + hi) + 1 /\ i - lo - n + hi \in 0 .. Len(t) - 1
      <4>1. /\ Len(t) \in Nat /\ n \in Nat /\ Len(u) = lo + n + (Len(t) - hi)
            /\ i \in 0 .. Len(u) - 1
        BY <1>1, <2>1
      <4> QED
        BY <2>4, <4>1, SMT
    <3>2. t[(i - lo - n + hi) + 1] = Newline
      <4>1. u[lo + n + (i - lo - n + 1)] = t[hi + (i - lo - n + 1)]
        BY <1>1, <3>1
      <4> QED
        BY <2>1, <3>1, <4>1
    <3> QED
      BY <2>4, <3>1, <3>2 DEF Breaks
  <2>5. i < lo \/ (lo =< i /\ i < lo + n) \/ lo + n =< i
    BY <1>1, <2>1, SMT
  <2> QED
    BY <2>2, <2>3, <2>4, <2>5, Zenon
<1> QED
  BY <1>2, <1>3, <1>4, <1>5 DEF n
-----------------------------------------------------------------------------
(* The guards of native edits.  A range of the new text without a line     *)
(* break is a piece of what is before, the inserted text and what is       *)
(* behind; the guards bound the sum.                                       *)

LEMMA LineAround ==
  ASSUME NEW t \in Texts, NEW a \in Nat, NEW b \in Nat, a =< b, b =< Len(t), Unbroken(t, a, b)
  PROVE  /\ LineStart(t, a) \in LineStarts(t) /\ LineStart(t, a) \in 0 .. a
         /\ LineEnd(t, LineStart(t, a)) \in b .. Len(t)
<1> DEFINE s == LineStart(t, a)
           e == LineEnd(t, s)
<1>1. Len(t) \in Nat /\ \A i \in Breaks(t) : i \in Nat
  BY BreaksAndStarts
<1>2. s \in LineStarts(t) /\ s \in 0 .. a
  BY LineStartsBefore
<1>3. e \in 0 .. Len(t) /\ (s =< Len(t) => s =< e) /\ (e < Len(t) => e \in Breaks(t))
  <2>1. s \in Nat
    BY <1>2, SMT
  <2> HIDE DEF s
  <2> QED
    BY <2>1, LineEnds
<1>4. e \in Breaks(t) /\ s =< e => a =< e
  BY NoBreakWithinLine
<1>5. e \in Breaks(t) => ~(a =< e /\ e < b)
  BY DEF Unbroken
<1> HIDE DEF s, e
<1>6. e \in b .. Len(t)
  BY <1>1, <1>2, <1>3, <1>4, <1>5, SMT
<1> QED
  BY <1>2, <1>6 DEF e, s

LEMMA LineStartsAtMost ==
  ASSUME NEW t \in Texts, NEW a \in Nat, NEW o \in Nat, a =< o, Unbroken(t, a, o)
  PROVE  LineStart(t, o) \in 0 .. a
<1> DEFINE s == LineStart(t, o)
<1>1. s \in LineStarts(t) /\ s \in 0 .. o
  BY LineStartsBefore
<1>2. s = 0 \/ s - 1 \in Breaks(t)
  BY <1>1, BreaksAndStarts
<1>3. s - 1 \in Breaks(t) => ~(a =< s - 1 /\ s - 1 < o)
  BY DEF Unbroken
<1> HIDE DEF s
<1>4. s \in 0 .. a
  BY <1>1, <1>2, <1>3, SMT
<1> QED
  BY <1>4 DEF s

LEMMA LineEndsAtLeast ==
  ASSUME NEW t \in Texts, NEW o \in Nat, NEW b \in Nat, o =< b, b =< Len(t), Unbroken(t, o, b)
  PROVE  /\ LineEnd(t, o) \in b .. Len(t)
         /\ ForwardToLineEnd(t, o) \in b .. Len(t)
<1>1. Len(t) \in Nat /\ \A i \in Breaks(t) : i \in Nat /\ i < Len(t)
  BY BreaksAndStarts
<1>2. /\ LineEnd(t, o) \in 0 .. Len(t) /\ o =< LineEnd(t, o)
      /\ LineEnd(t, o) < Len(t) => LineEnd(t, o) \in Breaks(t)
  <2>1. o =< Len(t)
    BY <1>1, SMT
  <2> QED
    BY <2>1, LineEnds
<1>3. LineEnd(t, o) \in Breaks(t) => ~(o =< LineEnd(t, o) /\ LineEnd(t, o) < b)
  BY DEF Unbroken
<1>4. LineEnd(t, o) \in b .. Len(t)
  BY <1>1, <1>2, <1>3, SMT
<1>5. CASE o \in Breaks(t)
  <2>1. o + 1 \in Nat /\ o + 1 =< Len(t) /\ LineEnd(t, o) =< o
    BY <1>1, <1>5, LineEnds, SMT
  <2>2. LineEnd(t, o + 1) \in 0 .. Len(t) /\ o + 1 =< LineEnd(t, o + 1)
    BY <2>1, LineEnds
  <2>3. LineEnd(t, o + 1) \in b .. Len(t)
    BY <1>1, <1>4, <2>1, <2>2, SMT
  <2> QED
    BY <1>4, <1>5, <2>3 DEF ForwardToLineEnd
<1>6. CASE o \notin Breaks(t)
  BY <1>4, <1>6 DEF ForwardToLineEnd
<1> QED
  BY <1>5, <1>6

(* The insertion guard (_on_insert_text) keeps the text renderable.        *)
LEMMA InsertFitsMeansRenderable ==
  ASSUME NEW t \in Texts, Renderable(t), NEW at \in Nat, at =< Len(t), NEW x \in Texts,
         InsertFits(t, at, x)
  PROVE  Renderable(Spliced(t, at, at, x))
<1> DEFINE u == Spliced(t, at, at, x)
           n == Len(x)
           prefix == at - LineStart(t, at)
           suffix == ForwardToLineEnd(t, at) - at
<1>1. Len(t) \in Nat /\ n \in Nat /\ MaxLine \in Nat /\ at =< at
  BY LinesAreSet, SMT DEF Texts
<1>2. u \in Texts /\ ReadsReplaced(t, at, at, x, u)
  BY <1>1, SplicedText
<1>3. Len(u) = Len(t) + n
  BY <1>1, <1>2, SMT DEF ReadsReplaced
<1>4. /\ \A i \in Breaks(t) : i < at => i \in Breaks(u)
      /\ \A i \in Breaks(x) : at + i \in Breaks(u)
      /\ \A i \in Breaks(t) : at =< i => at + n + (i - at) \in Breaks(u)
  BY <1>1, <1>2, ReplacedBreaks
<1>5. \A i \in Breaks(t) : i \in Nat
  BY BreaksAndStarts
<1>6. \A i \in Breaks(x) : i \in Nat
  BY BreaksAndStarts
<1> HIDE DEF u
<1> SUFFICES ASSUME NEW a \in 0 .. Len(u), NEW b \in 0 .. Len(u), a =< b, Unbroken(u, a, b)
             PROVE  b - a =< MaxLine
  BY <1>2, RenderableIsNarrow DEF Narrow, u
<1>7. a \in Nat /\ b \in Nat /\ b =< Len(t) + n
  BY <1>1, <1>3, SMT
<1>8. Narrow(t)
  BY RenderableIsNarrow
<1>9. CASE b =< at
  <2>1. Unbroken(t, a, b)
    <3> SUFFICES ASSUME NEW i \in Breaks(t), a =< i, i < b
                 PROVE  FALSE
      BY DEF Unbroken
    <3>1. i < at
      BY <1>5, <1>7, <1>9, SMT
    <3> QED
      BY <1>4, <3>1 DEF Unbroken
  <2>2. a \in 0 .. Len(t) /\ b \in 0 .. Len(t)
    BY <1>1, <1>7, <1>9, SMT
  <2> QED
    BY <1>8, <2>1, <2>2 DEF Narrow
<1>10. CASE at + n =< a
  <2>1. Unbroken(t, a - n, b - n)
    <3> SUFFICES ASSUME NEW i \in Breaks(t), a - n =< i, i < b - n
                 PROVE  FALSE
      BY DEF Unbroken
    <3>1. at =< i /\ a =< at + n + (i - at) /\ at + n + (i - at) < b
      BY <1>1, <1>5, <1>7, <1>10, SMT
    <3> QED
      BY <1>4, <3>1 DEF Unbroken
  <2>2. /\ a - n \in 0 .. Len(t) /\ b - n \in 0 .. Len(t) /\ a - n =< b - n
        /\ (b - n) - (a - n) = b - a
    BY <1>1, <1>7, <1>10, SMT
  <2>3. (b - n) - (a - n) =< MaxLine
    BY <1>8, <2>1, <2>2 DEF Narrow
  <2> QED
    BY <2>2, <2>3
<1>11. CASE at < b /\ a < at + n
  <2> DEFINE a1 == IF a < at THEN 0 ELSE a - at
             b1 == IF at + n < b THEN n ELSE b - at
             s == LineStart(x, a1)
             e == LineEnd(x, s)
  <2>1. a1 \in Nat /\ b1 \in Nat /\ a1 =< b1 /\ b1 =< n
    BY <1>1, <1>7, <1>11, SMT
  <2>2. Unbroken(x, a1, b1)
    <3> SUFFICES ASSUME NEW i \in Breaks(x), a1 =< i, i < b1
                 PROVE  FALSE
      BY DEF Unbroken
    <3>1. a =< at + i /\ at + i < b
      BY <1>1, <1>6, <1>7, <1>11, SMT
    <3> QED
      BY <1>4, <3>1 DEF Unbroken
  <2>3. s \in LineStarts(x) /\ s \in 0 .. a1 /\ e \in b1 .. n
    <3> HIDE DEF a1, b1
    <3> QED
      BY <2>1, <2>2, LineAround
  <2>4. /\ prefix \in Nat
        /\ a < at => at - a =< prefix
    <3>1. LineStart(t, at) \in 0 .. at
      BY LineStartsBefore
    <3>2. a < at => LineStart(t, at) \in 0 .. a
      <4> SUFFICES ASSUME a < at
                   PROVE  LineStart(t, at) \in 0 .. a
        OBVIOUS
      <4>1. Unbroken(t, a, at)
        <5> SUFFICES ASSUME NEW i \in Breaks(t), a =< i, i < at
                     PROVE  FALSE
          BY DEF Unbroken
        <5>1. i < b
          BY <1>5, <1>7, <1>11, SMT
        <5> QED
          BY <1>4, <5>1 DEF Unbroken
      <4> QED
        BY <1>7, <4>1, LineStartsAtMost
    <3> QED
      BY <1>7, <3>1, <3>2, SMT
  <2>5. /\ suffix \in Nat
        /\ at + n < b => b - n - at =< suffix
    <3>1. ForwardToLineEnd(t, at) \in at .. Len(t)
      <4>1. Unbroken(t, at, at)
        BY <1>1, <1>5, SMT DEF Unbroken
      <4> QED
        BY <1>1, <4>1, LineEndsAtLeast
    <3>2. at + n < b => ForwardToLineEnd(t, at) \in b - n .. Len(t)
      <4> SUFFICES ASSUME at + n < b
                   PROVE  ForwardToLineEnd(t, at) \in b - n .. Len(t)
        OBVIOUS
      <4>1. Unbroken(t, at, b - n)
        <5> SUFFICES ASSUME NEW i \in Breaks(t), at =< i, i < b - n
                     PROVE  FALSE
          BY DEF Unbroken
        <5>1. a =< at + n + (i - at) /\ at + n + (i - at) < b
          BY <1>1, <1>5, <1>7, <1>11, SMT
        <5> QED
          BY <1>4, <5>1 DEF Unbroken
      <4>2. b - n \in Nat /\ at =< b - n /\ b - n =< Len(t)
        BY <1>1, <1>7, SMT
      <4> QED
        BY <4>1, <4>2, LineEndsAtLeast
    <3> QED
      BY <1>1, <1>7, <3>1, <3>2, SMT
  <2>6. e - s + (IF s = 0 THEN prefix ELSE 0) + (IF e = n THEN suffix ELSE 0) =< MaxLine
    <3>1. \A r \in LineStarts(x) :
            LineEnd(x, r) - r + (IF r = 0 THEN prefix ELSE 0)
              + (IF LineEnd(x, r) = n THEN suffix ELSE 0) =< MaxLine
      BY DEF InsertFits
    <3> HIDE DEF s, prefix, suffix, n
    <3> QED
      BY <2>3, <3>1
  <2> HIDE DEF s, e, prefix, suffix, n
  <2> QED
    BY <1>1, <1>7, <1>11, <2>1, <2>3, <2>4, <2>5, <2>6, SMT
<1>12. b =< at \/ at + n =< a \/ (at < b /\ a < at + n)
  BY <1>1, <1>7, SMT
<1> QED
  BY <1>9, <1>10, <1>11, <1>12

(* The deletion guard (_on_delete_range) keeps the text renderable.        *)
LEMMA DeleteFitsMeansRenderable ==
  ASSUME NEW t \in Texts, Renderable(t), NEW lo \in Nat, NEW hi \in Nat, lo =< hi, hi =< Len(t),
         DeleteFits(t, lo, hi)
  PROVE  Renderable(Spliced(t, lo, hi, <<>>))
<1> DEFINE u == Spliced(t, lo, hi, <<>>)
<1>1. Len(t) \in Nat /\ MaxLine \in Nat /\ <<>> \in Texts /\ Len(<<>>) = 0
  BY LinesAreSet, SMT DEF Texts
<1>2. u \in Texts /\ ReadsReplaced(t, lo, hi, <<>>, u)
  BY <1>1, SplicedText
<1>3. Len(u) = lo + (Len(t) - hi)
  BY <1>1, <1>2, SMT DEF ReadsReplaced
<1>4. \A i \in Breaks(t) : i \in Nat
  BY BreaksAndStarts
<1>5. /\ \A i \in Breaks(t) : i < lo => i \in Breaks(u)
      /\ \A i \in Breaks(t) : hi =< i => lo + (i - hi) \in Breaks(u)
  <2>1. /\ \A i \in Breaks(t) : i < lo => i \in Breaks(u)
        /\ \A i \in Breaks(t) : hi =< i => lo + Len(<<>>) + (i - hi) \in Breaks(u)
    BY <1>1, <1>2, ReplacedBreaks
  <2>2. \A i \in Breaks(t) : lo + Len(<<>>) + (i - hi) = lo + (i - hi)
    BY <1>1, <1>4, SMT
  <2> QED
    BY <2>1, <2>2
<1> HIDE DEF u
<1> SUFFICES ASSUME NEW a \in 0 .. Len(u), NEW b \in 0 .. Len(u), a =< b, Unbroken(u, a, b)
             PROVE  b - a =< MaxLine
  BY <1>2, RenderableIsNarrow DEF Narrow, u
<1>6. a \in Nat /\ b \in Nat /\ b =< lo + (Len(t) - hi)
  BY <1>1, <1>3, SMT
<1>7. Narrow(t)
  BY RenderableIsNarrow
<1> DEFINE c == b - lo + hi
<1>8. CASE b =< lo
  <2>1. Unbroken(t, a, b)
    <3> SUFFICES ASSUME NEW i \in Breaks(t), a =< i, i < b
                 PROVE  FALSE
      BY DEF Unbroken
    <3>1. i < lo
      BY <1>4, <1>6, <1>8, SMT
    <3> QED
      BY <1>5, <3>1 DEF Unbroken
  <2>2. a \in 0 .. Len(t) /\ b \in 0 .. Len(t)
    BY <1>1, <1>6, <1>8, SMT
  <2> QED
    BY <1>7, <2>1, <2>2 DEF Narrow
<1>9. CASE lo =< a
  <2> DEFINE d == a - lo + hi
  <2>1. Unbroken(t, d, c)
    <3> SUFFICES ASSUME NEW i \in Breaks(t), d =< i, i < c
                 PROVE  FALSE
      BY DEF Unbroken
    <3>1. hi =< i /\ a =< lo + (i - hi) /\ lo + (i - hi) < b
      BY <1>1, <1>4, <1>6, <1>9, SMT
    <3> QED
      BY <1>5, <3>1 DEF Unbroken
  <2>2. /\ d \in 0 .. Len(t) /\ c \in 0 .. Len(t) /\ d =< c /\ c - d = b - a
    BY <1>1, <1>6, <1>9, SMT
  <2> HIDE DEF c, d
  <2>3. c - d =< MaxLine
    BY <1>7, <2>1, <2>2 DEF Narrow
  <2> QED
    BY <2>2, <2>3
<1>10. CASE a < lo /\ lo < b
  <2>1. Unbroken(t, a, lo)
    <3> SUFFICES ASSUME NEW i \in Breaks(t), a =< i, i < lo
                 PROVE  FALSE
      BY DEF Unbroken
    <3>1. i < b
      BY <1>4, <1>6, <1>10, SMT
    <3> QED
      BY <1>5, <3>1 DEF Unbroken
  <2>2. Unbroken(t, hi, c)
    <3> SUFFICES ASSUME NEW i \in Breaks(t), hi =< i, i < c
                 PROVE  FALSE
      BY DEF Unbroken
    <3>1. a =< lo + (i - hi) /\ lo + (i - hi) < b
      BY <1>1, <1>4, <1>6, <1>10, SMT
    <3> QED
      BY <1>5, <3>1 DEF Unbroken
  <2>3. c \in Nat /\ hi =< c /\ c =< Len(t) /\ b - a =< c - a /\ a \in 0 .. Len(t)
    BY <1>1, <1>6, <1>10, SMT
  <2>4. LineStart(t, lo) \in 0 .. a
    BY <1>6, <1>10, <2>1, LineStartsAtMost
  <2>5. ForwardToLineEnd(t, hi) \in c .. Len(t)
    BY <2>2, <2>3, LineEndsAtLeast
  <2>6. CASE LineStart(t, lo) # LineStart(t, hi)
    <3>1. lo - LineStart(t, lo) + ForwardToLineEnd(t, hi) - hi =< MaxLine
      BY <2>6 DEF DeleteFits
    <3> QED
      BY <1>1, <1>6, <2>3, <2>4, <2>5, <3>1, SMT
  <2>7. CASE LineStart(t, lo) = LineStart(t, hi)
    <3>1. Unbroken(t, a, c)
      <4> SUFFICES ASSUME NEW i \in Breaks(t), a =< i, i < c
                   PROVE  FALSE
        BY DEF Unbroken
      <4>1. lo =< i /\ i < hi
        <5>1. ~(a =< i /\ i < lo) /\ ~(hi =< i /\ i < c)
          BY <2>1, <2>2 DEF Unbroken
        <5> QED
          BY <1>4, <1>6, <2>3, <5>1, SMT
      <4>2. i + 1 \in LineStarts(t)
        BY BreaksAndStarts
      <4>3. i + 1 =< hi => i + 1 =< LineStart(t, hi)
        BY <4>2, LineStartsBefore
      <4> QED
        BY <1>4, <1>6, <2>4, <2>7, <4>1, <4>3, SMT
    <3>2. c - a =< MaxLine
      <4>1. c \in 0 .. Len(t) /\ a =< c
        BY <1>1, <1>6, <1>10, <2>3, SMT
      <4> HIDE DEF c
      <4> QED
        BY <1>7, <2>3, <3>1, <4>1 DEF Narrow
    <3> QED
      BY <1>1, <1>6, <2>3, <3>2, SMT
  <2> QED
    BY <2>6, <2>7
<1>11. b =< lo \/ lo =< a \/ (a < lo /\ lo < b)
  BY <1>6, SMT
<1> QED
  BY <1>8, <1>9, <1>10, <1>11
-----------------------------------------------------------------------------
(* Sequences of sequences made one.                                        *)

LEMMA FlattenStep ==
  ASSUME NEW ss, Len(ss) \in Nat \ {0}
  PROVE  \E f : /\ f[1] = ss[1]
                /\ \A i \in 1 .. Len(ss) - 1 : f[i + 1] = f[i] \o ss[i + 1]
                /\ FlattenSeq(ss) = f[Len(ss)]
<1> DEFINE n == Len(ss)
           Meets(f, m) == f = [i \in 1 .. m |-> IF i = 1 THEN ss[i] ELSE f[i - 1] \o ss[i]]
           S == {m \in Nat : \E f : Meets(f, m)}
<1>1. 0 \in S
  <2>1. Meets([i \in 1 .. 0 |-> ss[i]], 0)
    BY SMT
  <2> QED
    BY <2>1
<1>2. ASSUME NEW m \in 0 .. n - 1, m \in S
      PROVE  m + 1 \in S
  <2>1. PICK f : Meets(f, m)
    BY <1>2
  <2> DEFINE g == [i \in 1 .. m + 1 |->
                     IF i =< m THEN f[i]
                     ELSE IF m = 0 THEN ss[m + 1] ELSE f[m] \o ss[m + 1]]
  <2>2. \A i \in 1 .. m : f[i] = IF i = 1 THEN ss[i] ELSE f[i - 1] \o ss[i]
    BY <2>1
  <2>3. \A i \in 1 .. m + 1 : g[i] = IF i = 1 THEN ss[i] ELSE g[i - 1] \o ss[i]
    <3> TAKE i \in 1 .. m + 1
    <3>1. CASE i = 1 /\ i =< m
      <4>1. g[i] = f[i] /\ i \in 1 .. m
        BY <1>2, <3>1, SMT
      <4> QED
        BY <2>2, <3>1, <4>1
    <3>2. CASE i = 1 /\ m = 0
      <4>1. g[i] = ss[m + 1] /\ m + 1 = i
        BY <1>2, <3>2, SMT
      <4> QED
        BY <3>2, <4>1
    <3>3. CASE i # 1 /\ i =< m
      <4>1. i - 1 \in 1 .. m /\ i \in 1 .. m /\ i # 1 /\ g[i] = f[i] /\ g[i - 1] = f[i - 1]
        BY <1>2, <3>3, SMT
      <4> HIDE DEF g
      <4> QED
        BY <2>2, <4>1
    <3>4. CASE i # 1 /\ i = m + 1
      <4>1. m \in 1 .. m /\ m # 0 /\ i - 1 = m /\ ~(i =< m) /\ m =< m
        BY <1>2, <3>4, SMT
      <4>2. g[i] = f[m] \o ss[m + 1]
        BY <4>1
      <4>3. g[m] = f[m]
        <5>1. m \in 1 .. m + 1
          BY <1>2, <4>1, SMT
        <5> QED
          BY <4>1, <5>1
      <4> HIDE DEF g
      <4> QED
        BY <3>4, <4>1, <4>2, <4>3
    <3> QED
      BY <1>2, <3>1, <3>2, <3>3, <3>4, SMT
  <2>4. Meets(g, m + 1)
    BY <2>3
  <2>5. m + 1 \in Nat
    BY <1>2, SMT
  <2> HIDE DEF Meets
  <2> QED
    BY <2>4, <2>5
<1>3. n \in S
  <2> HIDE DEF S
  <2>1. n \in Nat /\ n \in 0 .. n
    BY SMT
  <2> HIDE DEF n
  <2>2. 0 .. n \subseteq S
    BY <1>1, <1>2, <2>1, InductionUpTo
  <2> QED
    BY <2>1, <2>2
<1>4. \E f : Meets(f, n)
  BY <1>3
<1> DEFINE h == CHOOSE f : Meets(f, n)
<1>5. FlattenSeq(ss) = h[n]
  BY DEF FlattenSeq
<1>6. Meets(h, n)
  <2> HIDE DEF Meets
  <2> QED
    BY <1>4
<1>7. h = [i \in 1 .. n |-> IF i = 1 THEN ss[i] ELSE h[i - 1] \o ss[i]]
  BY <1>6
<1> HIDE DEF h
<1>8. h[1] = ss[1]
  <2>1. 1 \in 1 .. n
    BY SMT
  <2> QED
    BY <1>7, <2>1
<1>9. \A i \in 1 .. n - 1 : h[i + 1] = h[i] \o ss[i + 1]
  <2> TAKE i \in 1 .. n - 1
  <2>1. i + 1 \in 1 .. n /\ i + 1 # 1 /\ (i + 1) - 1 = i
    BY SMT
  <2>2. h[i + 1] = IF i + 1 = 1 THEN ss[i + 1] ELSE h[(i + 1) - 1] \o ss[i + 1]
    BY <1>7, <2>1
  <2> QED
    BY <2>1, <2>2
<1> QED
  BY <1>5, <1>8, <1>9

LEMMA FlattenEmpty == FlattenSeq(<<>>) = <<>>
  BY SMT DEF FlattenSeq

LEMMA FlattenAppend ==
  ASSUME NEW S, NEW ss \in Seq(Seq(S)), NEW x \in Seq(S)
  PROVE  /\ FlattenSeq(ss) \in Seq(S)
         /\ FlattenSeq(Append(ss, x)) = FlattenSeq(ss) \o x
<1> DEFINE n == Len(ss)
           st == Append(ss, x)
<1>1. /\ n \in Nat /\ Len(st) = n + 1 /\ st[n + 1] = x
      /\ \A i \in 1 .. n : st[i] = ss[i] /\ ss[i] \in Seq(S)
  BY SMT
<1> HIDE DEF st
<1>2. PICK g : /\ g[1] = st[1]
               /\ \A i \in 1 .. n : g[i + 1] = g[i] \o st[i + 1]
               /\ FlattenSeq(st) = g[n + 1]
  <2>1. Len(st) \in Nat \ {0} /\ Len(st) - 1 = n
    BY <1>1, SMT
  <2>2. \E g : /\ g[1] = st[1]
               /\ \A i \in 1 .. Len(st) - 1 : g[i + 1] = g[i] \o st[i + 1]
               /\ FlattenSeq(st) = g[Len(st)]
    BY <2>1, FlattenStep
  <2> HIDE DEF n
  <2> QED
    BY <1>1, <2>1, <2>2
<1>3. CASE n = 0
  <2>1. ss = <<>> /\ <<>> \o x = x /\ <<>> \in Seq(S)
    BY <1>3, SMT
  <2>2. n + 1 = 1
    BY <1>3, SMT
  <2> QED
    BY <1>1, <1>2, <2>1, <2>2, FlattenEmpty DEF st
<1>4. CASE n # 0
  <2>1. PICK f : /\ f[1] = ss[1]
                 /\ \A i \in 1 .. n - 1 : f[i + 1] = f[i] \o ss[i + 1]
                 /\ FlattenSeq(ss) = f[n]
    BY <1>1, <1>4, FlattenStep
  <2> DEFINE T == {k \in Nat : k = 0 \/ (f[k] \in Seq(S) /\ g[k] = f[k])}
  <2>2. 0 \in T
    OBVIOUS
  <2>3. ASSUME NEW k \in 0 .. n - 1, k \in T
        PROVE  k + 1 \in T
    <3>1. CASE k = 0
      <4>1. 1 \in 1 .. n /\ k + 1 = 1 /\ 1 \in Nat
        BY <1>1, <1>4, <3>1, SMT
      <4>2. st[1] = ss[1] /\ ss[1] \in Seq(S)
        BY <1>1, <4>1
      <4> QED
        BY <1>2, <2>1, <4>1, <4>2
    <3>2. CASE k # 0
      <4>1. k \in 1 .. n - 1 /\ k \in 1 .. n /\ k + 1 \in 1 .. n /\ k + 1 \in Nat
        BY <1>1, <3>2, SMT
      <4>2. f[k] \in Seq(S) /\ g[k] = f[k]
        BY <2>3, <3>2
      <4>3. f[k + 1] = f[k] \o ss[k + 1]
        BY <2>1, <4>1
      <4>4. g[k + 1] = g[k] \o st[k + 1]
        BY <1>2, <4>1
      <4>5. st[k + 1] = ss[k + 1] /\ ss[k + 1] \in Seq(S)
        BY <1>1, <4>1
      <4>6. \A a, b \in Seq(S) : a \o b \in Seq(S)
        BY SMT
      <4> QED
        BY <4>1, <4>2, <4>3, <4>4, <4>5, <4>6
    <3> QED
      BY <3>1, <3>2
  <2> HIDE DEF T
  <2>4. 0 .. n \subseteq T
    <3> HIDE DEF n
    <3> QED
      BY <1>1, <2>2, <2>3, InductionUpTo
  <2>5. f[n] \in Seq(S) /\ g[n] = f[n]
    <3>1. n \in 0 .. n
      BY <1>1, SMT
    <3> QED
      BY <1>4, <2>4, <3>1 DEF T
  <2>6. g[n + 1] = g[n] \o x
    <3>1. n \in 1 .. n
      BY <1>1, <1>4, SMT
    <3> QED
      BY <1>1, <1>2, <3>1
  <2> QED
    BY <1>2, <2>1, <2>5, <2>6 DEF st
<1> QED
  BY <1>3, <1>4

LEMMA FlattenOne ==
  ASSUME NEW S, NEW x \in Seq(S)
  PROVE  FlattenSeq(<<x>>) = x
<1>1. <<>> \in Seq(Seq(S)) /\ Append(<<>>, x) = <<x>> /\ <<>> \o x = x
  BY SMT
<1>2. FlattenSeq(Append(<<>>, x)) = FlattenSeq(<<>>) \o x
  BY <1>1, FlattenAppend
<1> QED
  BY <1>1, <1>2, FlattenEmpty

(* Sequences are settled from their beginnings.                            *)
LEMMA FromBeginnings ==
  ASSUME NEW S, NEW s \in Seq(S), NEW P, <<>> \in P,
         \A k \in 0 .. Len(s) - 1 :
           SubSeq(s, 1, k) \in P => Append(SubSeq(s, 1, k), s[k + 1]) \in P
  PROVE  s \in P
<1> DEFINE n == Len(s)
           T == {k \in Nat : SubSeq(s, 1, k) \in P}
<1>1. n \in Nat /\ n \in 0 .. n /\ SubSeq(s, 1, n) = s /\ SubSeq(s, 1, 0) = <<>>
  BY SMT
<1>2. 0 \in T
  BY <1>1
<1>3. ASSUME NEW k \in 0 .. n - 1, k \in T
      PROVE  k + 1 \in T
  <2>1. SubSeq(s, 1, k + 1) = Append(SubSeq(s, 1, k), s[k + 1])
    BY SMT
  <2>2. k + 1 \in Nat
    BY <1>1, SMT
  <2>3. SubSeq(s, 1, k) \in P
    BY <1>3
  <2> QED
    BY <2>1, <2>2, <2>3
<1> HIDE DEF T, n
<1>4. 0 .. n \subseteq T
  BY <1>1, <1>2, <1>3, InductionUpTo
<1> QED
  BY <1>1, <1>4 DEF T

LEMMA FlattenConcat ==
  ASSUME NEW S, NEW ss \in Seq(Seq(S)), NEW tt \in Seq(Seq(S))
  PROVE  FlattenSeq(ss \o tt) = FlattenSeq(ss) \o FlattenSeq(tt)
<1> DEFINE P == {vv \in Seq(Seq(S)) : FlattenSeq(ss \o vv) = FlattenSeq(ss) \o FlattenSeq(vv)}
<1>1. FlattenSeq(ss) \in Seq(S)
  <2>1. <<>> \in Seq(S)
    BY SMT
  <2> QED
    BY <2>1, FlattenAppend
<1>2. <<>> \in P
  <2>1. ss \o <<>> = ss /\ <<>> \in Seq(Seq(S))
    BY SMT
  <2>2. FlattenSeq(ss) \o <<>> = FlattenSeq(ss)
    <3> DEFINE f == FlattenSeq(ss)
    <3> HIDE DEF f
    <3>1. f \in Seq(S)
      BY <1>1 DEF f
    <3>2. f \o <<>> = f
      BY <3>1, SMT
    <3> QED
      BY <3>2 DEF f
  <2> QED
    BY <2>1, <2>2, FlattenEmpty
<1>3. ASSUME NEW vv \in P, NEW x \in Seq(S)
      PROVE  Append(vv, x) \in P
  <2>1. vv \in Seq(Seq(S)) /\ FlattenSeq(ss \o vv) = FlattenSeq(ss) \o FlattenSeq(vv)
    BY <1>3
  <2>2. /\ ss \o vv \in Seq(Seq(S)) /\ ss \o Append(vv, x) = Append(ss \o vv, x)
        /\ Append(vv, x) \in Seq(Seq(S))
    <3> DEFINE E == Seq(S)
    <3>1. ss \in Seq(E) /\ vv \in Seq(E) /\ x \in E
      BY <2>1
    <3> HIDE DEF E
    <3>2. /\ ss \o vv \in Seq(E) /\ ss \o Append(vv, x) = Append(ss \o vv, x)
          /\ Append(vv, x) \in Seq(E)
      <4>1. ss \o vv \in Seq(E)
        BY <3>1, SMT
      <4>2. Append(vv, x) \in Seq(E)
        BY <3>1, SMT
      <4>3. ss \o Append(vv, x) = Append(ss \o vv, x)
        BY <3>1, SMTT(30)
      <4> QED
        BY <4>1, <4>2, <4>3
    <3> QED
      BY <3>2 DEF E
  <2>3. FlattenSeq(Append(ss \o vv, x)) = FlattenSeq(ss \o vv) \o x
    BY <2>2, FlattenAppend
  <2>4. FlattenSeq(Append(vv, x)) = FlattenSeq(vv) \o x /\ FlattenSeq(vv) \in Seq(S)
    BY <2>1, FlattenAppend
  <2>5. (FlattenSeq(ss) \o FlattenSeq(vv)) \o x = FlattenSeq(ss) \o (FlattenSeq(vv) \o x)
    <3> DEFINE fs == FlattenSeq(ss)
               fv == FlattenSeq(vv)
    <3>1. fs \in Seq(S) /\ fv \in Seq(S)
      BY <1>1, <2>4
    <3> HIDE DEF fs, fv, P
    <3>2. Regroup(fs, fv, x)
      BY <3>1, RegroupAny
    <3> QED
      BY <3>2 DEF fs, fv, Regroup
  <2> QED
    BY <2>1, <2>2, <2>3, <2>4, <2>5
<1>4. ASSUME NEW k \in 0 .. Len(tt) - 1, SubSeq(tt, 1, k) \in P
      PROVE  Append(SubSeq(tt, 1, k), tt[k + 1]) \in P
  <2>1. tt[k + 1] \in Seq(S)
    <3>1. k + 1 \in 1 .. Len(tt)
      BY SMT
    <3> QED
      BY <3>1, ElementOfSeq
  <2> QED
    BY <1>3, <1>4, <2>1
<1> HIDE DEF P
<1>5. tt \in P
  BY <1>2, <1>4, FromBeginnings
<1> QED
  BY <1>5 DEF P
-----------------------------------------------------------------------------
(* Plans.  A good plan's operations find their places in the text and make *)
(* the final text; its view lies in that text, which is renderable if the  *)
(* old one was.                                                            *)

GoodPlan(t, plan) ==
  /\ plan.ops \in Seq(ReplayOperation)
  /\ plan.final \in Texts
  /\ Makes(t, plan.ops, plan.final)
  /\ plan.view \in ViewsOf(plan.final)
  /\ Renderable(t) => Renderable(plan.final)

LEMMA NoChangeIsGood ==
  ASSUME NEW t \in Texts, NEW v \in ViewsOf(t)
  PROVE  GoodPlan(t, NoChange(t, v))
<1>1. Makes(t, <<>>, t) /\ <<>> \in Seq(ReplayOperation)
  BY NothingMakes
<1> QED
  BY <1>1 DEF GoodPlan, NoChange

LEMMA AcceptedIsGood ==
  ASSUME NEW t \in Texts, NEW v \in ViewsOf(t), NEW final \in Texts,
         NEW ops \in Seq(ReplayOperation), Makes(t, ops, final), NEW target \in ViewsOf(final)
  PROVE  GoodPlan(t, Accepted(t, v, [final |-> final, ops |-> ops, view |-> target]))
<1> DEFINE plan == [final |-> final, ops |-> ops, view |-> target]
<1>1. plan.final = final /\ plan.ops = ops /\ plan.view = target
  OBVIOUS
<1> HIDE DEF plan
<1>2. CASE Payload(plan.ops) =< MaxPayload /\ Renderable(plan.final)
  <2>1. Accepted(t, v, plan) = plan
    BY <1>2 DEF Accepted
  <2> QED
    BY <1>1, <1>2, <2>1 DEF GoodPlan, plan
<1>3. CASE ~(Payload(plan.ops) =< MaxPayload /\ Renderable(plan.final))
  <2>1. Accepted(t, v, plan) = NoChange(t, v)
    BY <1>3 DEF Accepted
  <2> QED
    BY <2>1, NoChangeIsGood DEF plan
<1> QED
  BY <1>2, <1>3

(* A text deleted or inserted after some operations, unless it is empty.   *)
LEMMA DeletingMakes ==
  ASSUME NEW p \in Texts, NEW o \in Texts, NEW r \in Texts,
         NEW t, NEW ops \in Seq(ReplayOperation), Makes(t, ops, (p \o o) \o r)
  PROVE  /\ ops \o DeletingAt(Len(p), o) \in Seq(ReplayOperation)
         /\ Makes(t, ops \o DeletingAt(Len(p), o), p \o r)
<1>1. CASE o = <<>>
  <2>1. DeletingAt(Len(p), o) = <<>> /\ ops \o <<>> = ops /\ p \o o = p
    BY <1>1, SMT DEF DeletingAt, Texts
  <2> QED
    BY <2>1
<1>2. CASE o # <<>>
  <2> DEFINE op == Deletion(Len(p), o)
             into == Insertion(Len(p), o)
  <2>1. Len(p) \in Nat /\ p \o r \in Texts
    BY Glue
  <2>2. op \in ReplayOperation /\ into \in ReplayOperation /\ InverseOf(into) = op
    BY <2>1 DEF ReplayOperation, Deletion, Insertion, InverseOf
  <2>3. Step(p \o r, into, (p \o o) \o r)
    BY InsertedWithin
  <2>4. Step((p \o o) \o r, op, p \o r)
    <3> HIDE DEF op, into
    <3> QED
      BY <2>1, <2>2, <2>3, StepBack
  <2>5. DeletingAt(Len(p), o) = <<op>>
    BY <1>2 DEF DeletingAt
  <2> HIDE DEF op
  <2>6. ops \o <<op>> = Append(ops, op) /\ Append(ops, op) \in Seq(ReplayOperation)
    BY <2>2, SMT
  <2>7. Makes(t, Append(ops, op), p \o r)
    BY <2>2, <2>4, OneMoreMakes DEF Step
  <2> QED
    BY <2>5, <2>6, <2>7
<1> QED
  BY <1>1, <1>2

LEMMA InsertingMakes ==
  ASSUME NEW p \in Texts, NEW x \in Texts, NEW r \in Texts,
         NEW t, NEW ops \in Seq(ReplayOperation), Makes(t, ops, p \o r)
  PROVE  /\ ops \o InsertingAt(Len(p), x) \in Seq(ReplayOperation)
         /\ Makes(t, ops \o InsertingAt(Len(p), x), (p \o x) \o r)
<1>1. CASE x = <<>>
  <2>1. InsertingAt(Len(p), x) = <<>> /\ ops \o <<>> = ops /\ p \o x = p
    BY <1>1, SMT DEF InsertingAt, Texts
  <2> QED
    BY <2>1
<1>2. CASE x # <<>>
  <2> DEFINE op == Insertion(Len(p), x)
  <2>1. Len(p) \in Nat
    BY Glue
  <2>2. op \in ReplayOperation
    BY <2>1 DEF ReplayOperation, Insertion
  <2>3. Step(p \o r, op, (p \o x) \o r)
    BY InsertedWithin
  <2>4. InsertingAt(Len(p), x) = <<op>>
    BY <1>2 DEF InsertingAt
  <2> HIDE DEF op
  <2>5. ops \o <<op>> = Append(ops, op) /\ Append(ops, op) \in Seq(ReplayOperation)
    BY <2>2, SMT
  <2>6. Makes(t, Append(ops, op), (p \o x) \o r)
    BY <2>2, <2>3, OneMoreMakes DEF Step
  <2> QED
    BY <2>4, <2>5, <2>6
<1> QED
  BY <1>1, <1>2

(* A range replaced: what is deleted, then what is inserted.               *)
LEMMA RangeReplacedMakes ==
  ASSUME NEW t \in Texts, NEW a \in Nat, NEW b \in Nat, a =< b, b =< Len(t),
         NEW x \in Texts, NEW r \in Texts,
         NEW s, NEW ops \in Seq(ReplayOperation), Makes(s, ops, SubSeq(t, 1, b) \o r)
  PROVE  /\ (ops \o DeletingAt(a, TextInRange(t, a, b))) \o InsertingAt(a, x)
              \in Seq(ReplayOperation)
         /\ Makes(s, (ops \o DeletingAt(a, TextInRange(t, a, b))) \o InsertingAt(a, x),
                  (SubSeq(t, 1, a) \o x) \o r)
<1> DEFINE p == SubSeq(t, 1, a)
           o == SubSeq(t, a + 1, b)
<1>1. p \in Texts /\ o \in Texts /\ Len(p) = a /\ SubSeq(t, 1, b) \in Texts
  BY SMT DEF Texts
<1>2. TextInRange(t, a, b) = o
  BY RangeThatFits
<1>3. SubSeq(t, 1, b) = p \o o
  <2>1. t \in Seq(Chars) /\ 1 \in 1 .. Len(t) + 1 /\ a \in 1 - 1 .. Len(t) /\ b \in a .. Len(t)
    BY SMT DEF Texts
  <2>2. SubSeq(t, 1, a) \o SubSeq(t, a + 1, b) = SubSeq(t, 1, b)
    BY <2>1, ConcatAdjacentSubSeq
  <2> QED
    BY <2>2
<1> HIDE DEF p, o
<1>4. /\ ops \o DeletingAt(a, o) \in Seq(ReplayOperation)
      /\ Makes(s, ops \o DeletingAt(a, o), p \o r)
  BY <1>1, <1>3, DeletingMakes
<1> DEFINE ops2 == ops \o DeletingAt(a, o)
<1> HIDE DEF ops2
<1>5. ops2 \in Seq(ReplayOperation) /\ Makes(s, ops2, p \o r)
  BY <1>4 DEF ops2
<1>6. /\ ops2 \o InsertingAt(a, x) \in Seq(ReplayOperation)
      /\ Makes(s, ops2 \o InsertingAt(a, x), (p \o x) \o r)
  BY <1>1, <1>5, InsertingMakes
<1> QED
  BY <1>2, <1>6 DEF ops2, p

LEMMA ReplacePlanIsGood ==
  ASSUME NEW t \in Texts, NEW v \in ViewsOf(t), NEW start \in Nat, NEW stop \in Nat,
         start =< stop, stop =< Len(t), NEW x \in Texts,
         NEW target \in ViewsOf(Spliced(t, start, stop, x))
  PROVE  GoodPlan(t, ReplacePlan(t, v, start, stop, x, target))
<1> DEFINE original == TextInRange(t, start, stop)
           ops == DeletingAt(start, original) \o InsertingAt(start, x)
           final == Spliced(t, start, stop, x)
<1>1. final \in Texts /\ final = (SubSeq(t, 1, start) \o x) \o SubSeq(t, stop + 1, Len(t))
  BY SplicedText
<1>2. ops \in Seq(ReplayOperation) /\ Makes(t, ops, final)
  <2> DEFINE r == SubSeq(t, stop + 1, Len(t))
             none == <<>>
  <2>1. r \in Texts /\ SubSeq(t, 1, stop) \o r = t /\ none \in Seq(ReplayOperation)
    <3>1. stop =< stop
      OBVIOUS
    <3>2. SubSeq(t, 1, stop) \o r = t
      BY <3>1, Cut
    <3>3. r \in Texts
      BY SMT DEF Texts
    <3>4. none \in Seq(ReplayOperation)
      BY SMT
    <3> HIDE DEF none
    <3> QED
      BY <3>2, <3>3, <3>4
  <2>2. Makes(t, none, SubSeq(t, 1, stop) \o r)
    BY <2>1, NothingMakes
  <2> HIDE DEF r, none
  <2>3. /\ (none \o DeletingAt(start, original)) \o InsertingAt(start, x) \in Seq(ReplayOperation)
        /\ Makes(t, (none \o DeletingAt(start, original)) \o InsertingAt(start, x),
                 (SubSeq(t, 1, start) \o x) \o r)
    BY <2>1, <2>2, RangeReplacedMakes
  <2>4. none \o DeletingAt(start, original) = DeletingAt(start, original)
    BY SMT DEF none, DeletingAt
  <2> QED
    BY <1>1, <2>3, <2>4 DEF r
<1>3. CASE original = x
  <2>1. ReplacePlan(t, v, start, stop, x, target) = NoChange(t, v)
    BY <1>3 DEF ReplacePlan
  <2> QED
    BY <2>1, NoChangeIsGood
<1>4. CASE original # x
  <2>1. ReplacePlan(t, v, start, stop, x, target)
          = Accepted(t, v, [final |-> final, ops |-> ops, view |-> target])
    BY <1>4 DEF ReplacePlan
  <2> HIDE DEF ops, final
  <2>2. target \in ViewsOf(final)
    BY DEF final
  <2> QED
    BY <1>1, <1>2, <2>1, <2>2, AcceptedIsGood
<1> QED
  BY <1>3, <1>4
-----------------------------------------------------------------------------
(* Several ranges: none overlaps another, from left to right.              *)

InOrder(ranges, lo, hi) ==
  /\ ranges \in Seq(Nat \X Nat)
  /\ \A i \in DOMAIN ranges :
       lo =< ranges[i][1] /\ ranges[i][1] =< ranges[i][2] /\ ranges[i][2] =< hi
  /\ \A i, j \in DOMAIN ranges : i < j => ranges[i][2] =< ranges[j][1]

LEMMA Cursors ==
  ASSUME NEW hi \in Nat, NEW ranges, InOrder(ranges, 0, hi)
  PROVE  /\ Len(ranges) \in Nat /\ DOMAIN ranges = 1 .. Len(ranges)
         /\ \A k \in 0 .. Len(ranges) : Cursor(ranges, k) \in 0 .. hi
         /\ \A k \in 0 .. Len(ranges) - 1 :
              /\ ranges[k + 1][1] \in Nat /\ ranges[k + 1][2] \in Nat
              /\ Cursor(ranges, k) =< ranges[k + 1][1]
              /\ ranges[k + 1][1] =< ranges[k + 1][2]
              /\ ranges[k + 1][2] = Cursor(ranges, k + 1)
              /\ ranges[k + 1][2] =< hi
<1> DEFINE n == Len(ranges)
<1>1. n \in Nat /\ DOMAIN ranges = 1 .. n
  BY SMT DEF InOrder
<1>2. \A i \in 1 .. n : /\ ranges[i][1] \in Nat /\ ranges[i][2] \in Nat
                        /\ ranges[i][1] =< ranges[i][2] /\ ranges[i][2] =< hi
  <2> TAKE i \in 1 .. n
  <2>1. ranges[i] \in Nat \X Nat
    BY <1>1, ElementOfSeq DEF InOrder
  <2>2. ranges[i][1] =< ranges[i][2] /\ ranges[i][2] =< hi
    BY <1>1 DEF InOrder
  <2> QED
    BY <2>1, <2>2
<1>3. \A i, j \in 1 .. n : i < j => ranges[i][2] =< ranges[j][1]
  BY <1>1 DEF InOrder
<1> HIDE DEF n
<1>4. ASSUME NEW k \in 0 .. n
      PROVE  Cursor(ranges, k) \in 0 .. hi
  <2>1. k = 0 \/ k \in 1 .. n
    BY <1>1, SMT
  <2> QED
    BY <1>2, <2>1, SMT DEF Cursor
<1>5. ASSUME NEW k \in 0 .. n - 1
      PROVE  /\ ranges[k + 1][1] \in Nat /\ ranges[k + 1][2] \in Nat
             /\ Cursor(ranges, k) =< ranges[k + 1][1]
             /\ ranges[k + 1][1] =< ranges[k + 1][2]
             /\ ranges[k + 1][2] = Cursor(ranges, k + 1)
             /\ ranges[k + 1][2] =< hi
  <2>1. k + 1 \in 1 .. n /\ k + 1 # 0 /\ k \in Nat /\ (k = 0 \/ (k \in 1 .. n /\ k < k + 1))
    BY <1>1, SMT
  <2>2. Cursor(ranges, k + 1) = ranges[k + 1][2]
    BY <2>1 DEF Cursor
  <2>3. ranges[k + 1][1] \in Nat
    BY <1>2, <2>1
  <2>4. Cursor(ranges, k) =< ranges[k + 1][1]
    <3>1. CASE k = 0
      BY <2>3, <3>1, SMT DEF Cursor
    <3>2. CASE k # 0
      <4>1. ranges[k][2] =< ranges[k + 1][1]
        BY <1>3, <2>1, <3>2
      <4> QED
        BY <3>2, <4>1 DEF Cursor
    <3> QED
      BY <3>1, <3>2
  <2> QED
    BY <1>2, <2>1, <2>2, <2>4
<1> QED
  BY <1>1, <1>4, <1>5 DEF n

LEMMA ListsJoin ==
  ASSUME NEW S, NEW a \in Seq(S), NEW b \in Seq(S), NEW c \in Seq(S)
  PROVE  b \o c \in Seq(S) /\ (a \o b) \o c = a \o (b \o c)
  BY SMT

LEMMA OperationsAtMakes ==
  ASSUME NEW t \in Texts, NEW range, range[1] \in Nat, range[2] \in Nat,
         range[1] =< range[2], range[2] =< Len(t), NEW x \in Texts, NEW r \in Texts,
         NEW s, NEW ops \in Seq(ReplayOperation), Makes(s, ops, SubSeq(t, 1, range[2]) \o r)
  PROVE  /\ OperationsAt(t, range, x) \in Seq(ReplayOperation)
         /\ ops \o OperationsAt(t, range, x) \in Seq(ReplayOperation)
         /\ Makes(s, ops \o OperationsAt(t, range, x), (SubSeq(t, 1, range[1]) \o x) \o r)
<1> DEFINE a == range[1]
           b == range[2]
           o == TextInRange(t, a, b)
           deleting == DeletingAt(a, o)
           inserting == InsertingAt(a, x)
<1>1. /\ (ops \o deleting) \o inserting \in Seq(ReplayOperation)
      /\ Makes(s, (ops \o deleting) \o inserting, (SubSeq(t, 1, a) \o x) \o r)
  BY RangeReplacedMakes
<1>2. o \in Texts
  BY TextInRangeType
<1>3. deleting \in Seq(ReplayOperation) /\ inserting \in Seq(ReplayOperation)
  <2>1. Deletion(a, o) \in ReplayOperation /\ Insertion(a, x) \in ReplayOperation
    BY <1>2 DEF Deletion, Insertion, ReplayOperation
  <2>2. \A op \in ReplayOperation : <<op>> \in Seq(ReplayOperation)
    <3> DEFINE S == ReplayOperation
    <3> HIDE DEF S
    <3>1. \A op \in S : <<op>> \in Seq(S)
      BY SMT
    <3> QED
      BY <3>1 DEF S
  <2>3. <<>> \in Seq(ReplayOperation)
    BY SMT
  <2> HIDE DEF a, o
  <2> QED
    BY <2>1, <2>2, <2>3 DEF DeletingAt, InsertingAt
<1>4. CASE o = x
  <2>1. OperationsAt(t, range, x) = <<>>
    BY <1>4 DEF OperationsAt
  <2>2. ops \o <<>> = ops /\ <<>> \in Seq(ReplayOperation)
    BY SMT
  <2>3. SubSeq(t, 1, b) = SubSeq(t, 1, a) \o x
    <3>1. o = SubSeq(t, a + 1, b)
      BY RangeThatFits
    <3>2. t \in Seq(Chars) /\ 1 \in 1 .. Len(t) + 1 /\ a \in 1 - 1 .. Len(t) /\ b \in a .. Len(t)
      BY SMT DEF Texts
    <3> HIDE DEF a, b, o
    <3>3. SubSeq(t, 1, a) \o SubSeq(t, a + 1, b) = SubSeq(t, 1, b)
      BY <3>2, ConcatAdjacentSubSeq
    <3> QED
      BY <1>4, <3>1, <3>3
  <2> QED
    BY <2>1, <2>2, <2>3
<1>5. CASE o # x
  <2>1. OperationsAt(t, range, x) = deleting \o inserting
    BY <1>5 DEF OperationsAt
  <2> HIDE DEF deleting, inserting
  <2>2. /\ deleting \o inserting \in Seq(ReplayOperation)
        /\ (ops \o deleting) \o inserting = ops \o (deleting \o inserting)
    <3>1. /\ ops \in Seq(ReplayOperation) /\ deleting \in Seq(ReplayOperation)
          /\ inserting \in Seq(ReplayOperation)
      BY <1>3
    <3> QED
      BY ONLY <3>1, ListsJoin
  <2> QED
    BY <1>1, <2>1, <2>2
<1> QED
  BY <1>4, <1>5

Regroups(c, d, x, f, r) == ((c \o d) \o x) \o (f \o r) = c \o (((d \o x) \o f) \o r)

LEMMA Regrouped ==
  ASSUME NEW c \in Texts, NEW d \in Texts, NEW x \in Texts, NEW f \in Texts, NEW r \in Texts
  PROVE  Regroups(c, d, x, f, r)
<1>1. Regroup(c, d, x)
  BY RegroupTexts
<1>2. d \o x \in Texts
  BY Glue
<1>3. (c \o (d \o x)) \o (f \o r) = c \o (((d \o x) \o f) \o r)
  <2> DEFINE e == d \o x
  <2>1. e \in Texts
    BY <1>2
  <2> HIDE DEF e
  <2>2. f \o r \in Texts
    BY Glue
  <2>3. Regroup(c, e, f \o r)
    BY <2>1, <2>2, RegroupTexts
  <2>4. Regroup(e, f, r)
    BY <2>1, RegroupTexts
  <2> QED
    BY <2>3, <2>4, Zenon DEF e, Regroup
<1> QED
  BY <1>1, <1>3, Zenon DEF Regroups, Regroup

(* The pieces of a text with ranges replaced.                              *)
ArePieces(pieces, t, ranges, x) ==
  /\ pieces \in Seq(Texts) /\ Len(pieces) = Len(ranges)
  /\ \A k \in 0 .. Len(ranges) - 1 :
       pieces[k + 1] = SubSeq(t, Cursor(ranges, k) + 1, ranges[k + 1][1]) \o x

LEMMA PiecesAreTexts ==
  ASSUME NEW t \in Texts, NEW ranges, InOrder(ranges, 0, Len(t)), NEW x \in Texts
  PROVE  ArePieces(Pieces(t, ranges, x), t, ranges, x)
<1> DEFINE n == Len(ranges)
           each == Pieces(t, ranges, x)
<1>1. Len(t) \in Nat
  BY SMT DEF Texts
<1>2. /\ n \in Nat /\ DOMAIN ranges = 1 .. n
      /\ \A k \in 0 .. n : Cursor(ranges, k) \in 0 .. Len(t)
      /\ \A k \in 0 .. n - 1 :
           /\ ranges[k + 1][1] \in Nat /\ ranges[k + 1][2] \in Nat
           /\ Cursor(ranges, k) =< ranges[k + 1][1]
           /\ ranges[k + 1][1] =< ranges[k + 1][2]
           /\ ranges[k + 1][2] = Cursor(ranges, k + 1)
           /\ ranges[k + 1][2] =< Len(t)
  BY <1>1, Cursors
<1>3. ASSUME NEW k \in 0 .. n - 1
      PROVE  /\ each[k + 1] = SubSeq(t, Cursor(ranges, k) + 1, ranges[k + 1][1]) \o x
             /\ each[k + 1] \in Texts
  <2>1. k + 1 \in 1 .. n /\ (k + 1) - 1 = k /\ k \in 0 .. n
    BY <1>2, SMT
  <2>2. each[k + 1] = TextInRange(t, Cursor(ranges, (k + 1) - 1), ranges[k + 1][1]) \o x
    BY <1>2, <2>1 DEF Pieces
  <2>3. Cursor(ranges, k) \in Nat /\ ranges[k + 1][1] =< Len(t)
    BY <1>1, <1>2, <2>1, SMT
  <2>4. /\ TextInRange(t, Cursor(ranges, k), ranges[k + 1][1])
             = SubSeq(t, Cursor(ranges, k) + 1, ranges[k + 1][1])
        /\ TextInRange(t, Cursor(ranges, k), ranges[k + 1][1]) \in Texts
    BY <1>2, <2>3, RangeThatFits, TextInRangeType
  <2>5. TextInRange(t, Cursor(ranges, k), ranges[k + 1][1]) \o x \in Texts
    BY <2>4, Glue
  <2> HIDE DEF each
  <2> QED
    BY <2>1, <2>2, <2>4, <2>5
<1>4. \A i \in 1 .. n : each[i] \in Texts
  <2> TAKE i \in 1 .. n
  <2>1. i - 1 \in 0 .. n - 1 /\ (i - 1) + 1 = i
    BY <1>2, SMT
  <2>2. each[(i - 1) + 1] \in Texts
    BY <1>3, <2>1
  <2> HIDE DEF each
  <2> QED
    BY <2>1, <2>2
<1>5. each \in Seq(Texts) /\ Len(each) = n
  <2>1. each = [i \in 1 .. n |-> each[i]]
    BY <1>2 DEF Pieces
  <2> HIDE DEF each, n
  <2>2. [i \in 1 .. n |-> each[i]] \in Seq(Texts) /\ Len([i \in 1 .. n |-> each[i]]) = n
    BY <1>2, <1>4, SMT
  <2> QED
    BY <2>1, <2>2
<1> QED
  BY <1>3, <1>5 DEF ArePieces

(* Operations from right to left, computed on the old text, find their     *)
(* places and make the text with all ranges replaced: while range k is     *)
(* replaced, the text up to its end is still the old one.                  *)
LEMMA HeadOfRange ==
  ASSUME NEW S, NEW q \in Seq(S), NEW n, Len(q) = n, NEW i \in 1 .. n
  PROVE  SubSeq(q, i, n) = <<q[i]>> \o SubSeq(q, i + 1, n)
  BY SMT

LEMMA AllRangesMake ==
  ASSUME NEW t \in Texts, NEW ranges, InOrder(ranges, 0, Len(t)), NEW x \in Texts
  PROVE  /\ OperationsDescending(t, ranges, x) \in Seq(ReplayOperation)
         /\ SplicedAll(t, ranges, x) \in Texts
         /\ Makes(t, OperationsDescending(t, ranges, x), SplicedAll(t, ranges, x))
<1> DEFINE n == Len(ranges)
           pieces == Pieces(t, ranges, x)
           back == Reverse(ranges)
           each == [i \in DOMAIN back |-> OperationsAt(t, back[i], x)]
           rest == TextInRange(t, Cursor(ranges, n), Len(t))
           Right(k) == FlattenSeq(SubSeq(pieces, k + 1, n)) \o rest
           Left(k) == SubSeq(t, 1, Cursor(ranges, k))
           ops(j) == FlattenSeq(SubSeq(each, 1, j))
<1>1. Len(t) \in Nat
  BY SMT DEF Texts
<1>2. /\ n \in Nat /\ DOMAIN ranges = 1 .. n
      /\ \A k \in 0 .. n : Cursor(ranges, k) \in 0 .. Len(t)
      /\ \A k \in 0 .. n - 1 :
           /\ ranges[k + 1][1] \in Nat /\ ranges[k + 1][2] \in Nat
           /\ Cursor(ranges, k) =< ranges[k + 1][1]
           /\ ranges[k + 1][1] =< ranges[k + 1][2]
           /\ ranges[k + 1][2] = Cursor(ranges, k + 1)
           /\ ranges[k + 1][2] =< Len(t)
  BY <1>1, Cursors
<1>3. /\ pieces \in Seq(Texts) /\ Len(pieces) = n
      /\ \A k \in 0 .. n - 1 :
           pieces[k + 1] = SubSeq(t, Cursor(ranges, k) + 1, ranges[k + 1][1]) \o x
  <2>1. ArePieces(Pieces(t, ranges, x), t, ranges, x)
    BY PiecesAreTexts
  <2> QED
    BY <2>1 DEF ArePieces
<1>4. /\ rest \in Texts /\ rest = SubSeq(t, Cursor(ranges, n) + 1, Len(t))
  <2>1. n \in 0 .. n
    BY <1>2, SMT
  <2>2. Cursor(ranges, n) \in Nat /\ Cursor(ranges, n) =< Len(t) /\ Len(t) =< Len(t)
    BY <1>1, <1>2, <2>1, SMT
  <2> QED
    BY <1>1, <2>2, RangeThatFits, TextInRangeType
<1>5. ASSUME NEW k \in 0 .. n
      PROVE  FlattenSeq(SubSeq(pieces, k + 1, n)) \in Texts /\ Right(k) \in Texts
  <2>1. SubSeq(pieces, k + 1, n) \in Seq(Texts)
    <3> DEFINE E == Texts
    <3> HIDE DEF E, pieces, n
    <3>1. pieces \in Seq(E)
      BY <1>3 DEF E
    <3>2. SubSeq(pieces, k + 1, n) \in Seq(E)
      BY <1>2, <1>3, <3>1, SMT
    <3> QED
      BY <3>2 DEF E
  <2> DEFINE f == FlattenSeq(SubSeq(pieces, k + 1, n))
  <2>2. f \in Texts
    <3>1. <<>> \in Seq(Chars)
      BY SMT
    <3> QED
      BY <2>1, <3>1, FlattenAppend DEF Texts
  <2> HIDE DEF f, rest
  <2>3. f \o rest \in Texts
    BY <1>4, <2>2, Glue
  <2> QED
    BY <2>2, <2>3 DEF f
<1>6. /\ DOMAIN back = 1 .. n /\ Len(each) = n
      /\ \A j \in 0 .. n - 1 : each[j + 1] = OperationsAt(t, ranges[n - j], x)
  <2>1. /\ back = [i \in 1 .. n |-> ranges[n - i + 1]]
    BY DEF Reverse
  <2>2. DOMAIN back = 1 .. n
    BY <2>1
  <2>3. Len(each) = n
    <3> HIDE DEF back, n
    <3> QED
      BY <1>2, <2>2, SMT
  <2>4. ASSUME NEW j \in 0 .. n - 1
        PROVE  each[j + 1] = OperationsAt(t, ranges[n - j], x)
    <3>1. j + 1 \in 1 .. n /\ n - (j + 1) + 1 = n - j
      BY <1>2, SMT
    <3>2. back[j + 1] = ranges[n - j]
      BY <2>1, <3>1
    <3>3. each[j + 1] = OperationsAt(t, back[j + 1], x)
      BY <2>2, <3>1
    <3> QED
      BY <3>2, <3>3
  <2> QED
    BY <2>2, <2>3, <2>4
<1>7. ASSUME NEW j \in 0 .. n - 1
      PROVE  /\ n - j \in 1 .. n /\ n - (j + 1) \in 0 .. n - 1 /\ n - (j + 1) \in 0 .. n
             /\ (n - (j + 1)) + 1 = n - j /\ j + 1 \in Nat /\ j + 1 \in 0 .. n
             /\ ranges[n - j][1] \in Nat /\ ranges[n - j][2] \in Nat
             /\ ranges[n - j][1] =< ranges[n - j][2] /\ ranges[n - j][2] =< Len(t)
             /\ ranges[n - j][2] = Cursor(ranges, n - j)
             /\ Cursor(ranges, n - (j + 1)) =< ranges[n - j][1]
             /\ Cursor(ranges, n - (j + 1)) \in Nat
  <2>1. /\ n - j \in 1 .. n /\ n - (j + 1) \in 0 .. n - 1 /\ n - (j + 1) \in 0 .. n
        /\ (n - (j + 1)) + 1 = n - j /\ j + 1 \in Nat /\ j + 1 \in 0 .. n
    BY <1>2, SMTT(30)
  <2> DEFINE k == n - (j + 1)
  <2>2. k \in 0 .. n - 1 /\ k \in 0 .. n /\ k + 1 = n - j
    BY <2>1
  <2> HIDE DEF k
  <2>3. /\ ranges[k + 1][1] \in Nat /\ ranges[k + 1][2] \in Nat
        /\ Cursor(ranges, k) =< ranges[k + 1][1]
        /\ ranges[k + 1][1] =< ranges[k + 1][2]
        /\ ranges[k + 1][2] = Cursor(ranges, k + 1)
        /\ ranges[k + 1][2] =< Len(t)
    BY <1>2, <2>2
  <2>4. Cursor(ranges, k) \in Nat
    BY <1>1, <1>2, <2>2, SMT
  <2> QED
    BY <2>1, <2>2, <2>3, <2>4 DEF k
<1>8. each \in Seq(Seq(ReplayOperation))
  <2>1. ASSUME NEW i \in 1 .. n
        PROVE  each[i] \in Seq(ReplayOperation)
    <3>1. i - 1 \in 0 .. n - 1 /\ (i - 1) + 1 = i
      BY <1>2, SMT
    <3>2. each[i] = OperationsAt(t, ranges[n - (i - 1)], x)
      <4> HIDE DEF each
      <4>1. each[(i - 1) + 1] = OperationsAt(t, ranges[n - (i - 1)], x)
        BY <1>6, <3>1
      <4> QED
        BY <3>1, <4>1
    <3> DEFINE range == ranges[n - (i - 1)]
               s == SubSeq(t, 1, range[2])
    <3>3. /\ range[1] \in Nat /\ range[2] \in Nat /\ range[1] =< range[2] /\ range[2] =< Len(t)
      BY <1>7, <3>1
    <3> HIDE DEF range
    <3>4. s \in Texts /\ s \o <<>> = s /\ <<>> \in Texts
      BY <1>1, <3>3, SMT DEF Texts
    <3> HIDE DEF s
    <3>5. Makes(s, <<>>, s \o <<>>) /\ <<>> \in Seq(ReplayOperation)
      BY <3>4, NothingMakes
    <3>6. Makes(s, <<>>, SubSeq(t, 1, range[2]) \o <<>>)
      BY <3>5, Zenon DEF s
    <3>7. OperationsAt(t, range, x) \in Seq(ReplayOperation)
      BY <3>3, <3>4, <3>5, <3>6, OperationsAtMakes, Zenon
    <3> QED
      BY <3>2, <3>7 DEF range
  <2>2. each = [i \in 1 .. n |-> each[i]]
    BY <1>6
  <2> DEFINE E == Seq(ReplayOperation)
  <2> HIDE DEF each, E, n
  <2>3. [i \in 1 .. n |-> each[i]] \in Seq(E)
    <3>1. \A i \in 1 .. n : each[i] \in E
      BY <2>1 DEF E
    <3> QED
      BY <1>2, <3>1, SMT
  <2> QED
    BY <2>2, <2>3 DEF E
<1>9. ASSUME NEW j \in 0 .. n
      PROVE  SubSeq(each, 1, j) \in Seq(Seq(ReplayOperation)) /\ ops(j) \in Seq(ReplayOperation)
  <2> DEFINE E == Seq(ReplayOperation)
  <2>1. SubSeq(each, 1, j) \in Seq(E)
    <3>1. each \in Seq(E)
      BY <1>8
    <3> HIDE DEF E, each, n
    <3> QED
      BY <1>2, <1>6, <3>1, SMT
  <2>2. <<>> \in Seq(ReplayOperation)
    BY SMT
  <2> QED
    BY <2>1, <2>2, FlattenAppend
<1> DEFINE T == {j \in Nat : j =< n => Makes(t, ops(j), Left(n - j) \o Right(n - j))}
<1>10. 0 \in T
  <2>1. ops(0) = <<>>
    <3>1. SubSeq(each, 1, 0) = <<>>
      BY SMT
    <3> QED
      BY <3>1, FlattenEmpty
  <2>2. Right(n) = rest
    <3>1. SubSeq(pieces, n + 1, n) = <<>>
      BY <1>2, SMT
    <3>2. <<>> \o rest = rest
      <4> HIDE DEF rest
      <4> QED
        BY <1>4, SMT DEF Texts
    <3> QED
      BY <3>1, <3>2, FlattenEmpty
  <2>3. Left(n) \o rest = t
    <3> DEFINE c == Cursor(ranges, n)
    <3>1. c \in Nat /\ c =< Len(t) /\ c =< c
      <4>1. n \in 0 .. n
        BY <1>2, SMT
      <4>2. c \in 0 .. Len(t)
        BY <1>2, <4>1
      <4> HIDE DEF c
      <4> QED
        BY <1>1, <4>2, SMT
    <3> HIDE DEF c
    <3>2. SubSeq(t, 1, c) \o SubSeq(t, c + 1, Len(t)) = t
      BY <3>1, Cut
    <3> QED
      BY <1>4, <3>2 DEF c
  <2>4. n - 0 = n
    BY <1>2, SMT
  <2>5. Makes(t, <<>>, t)
    BY NothingMakes
  <2>6. Makes(t, ops(0), Left(n - 0) \o Right(n - 0))
    BY <2>1, <2>2, <2>3, <2>4, <2>5
  <2> QED
    BY <2>6
<1>11. ASSUME NEW j \in 0 .. n - 1, j \in T
       PROVE  j + 1 \in T
  <2> DEFINE k == n - (j + 1)
             range == ranges[n - j]
             a == range[1]
             c == Cursor(ranges, k)
             f == FlattenSeq(SubSeq(pieces, n - j + 1, n))
             d == SubSeq(t, c + 1, a)
  <2>1. /\ n - j \in 0 .. n /\ j \in 0 .. n /\ j =< n
    BY <1>2, SMT
  <2>2. Makes(t, ops(j), SubSeq(t, 1, range[2]) \o Right(n - j))
    <3>1. Makes(t, ops(j), Left(n - j) \o Right(n - j))
      BY <1>11, <2>1
    <3>2. range[2] = Cursor(ranges, n - j)
      BY <1>7
    <3> QED
      BY <3>1, <3>2
  <2>3. Makes(t, ops(j) \o OperationsAt(t, range, x), (SubSeq(t, 1, a) \o x) \o Right(n - j))
    <3>1. ops(j) \in Seq(ReplayOperation) /\ Right(n - j) \in Texts
      BY <1>5, <1>9, <2>1
    <3>2. /\ range[1] \in Nat /\ range[2] \in Nat /\ range[1] =< range[2] /\ range[2] =< Len(t)
      BY <1>7
    <3> HIDE DEF range, ops, Right
    <3> QED
      BY <2>2, <3>1, <3>2, OperationsAtMakes
  <2>4. ops(j + 1) = ops(j) \o OperationsAt(t, range, x)
    <3>1. SubSeq(each, 1, j + 1) = Append(SubSeq(each, 1, j), each[j + 1])
      <4> DEFINE E == Seq(ReplayOperation)
      <4>1. each \in Seq(E)
        BY <1>8
      <4> HIDE DEF each, E, n
      <4> QED
        BY <1>2, <1>6, <4>1, SMTT(30)
    <3>2. each[j + 1] = OperationsAt(t, range, x)
      BY <1>6
    <3>3. each[j + 1] \in Seq(ReplayOperation)
      <4>1. j + 1 \in 1 .. Len(each)
        BY <1>2, <1>6, SMT
      <4> HIDE DEF each
      <4> QED
        BY <1>8, <4>1, ElementOfSeq
    <3>4. SubSeq(each, 1, j) \in Seq(Seq(ReplayOperation))
      BY <1>9, <2>1
    <3> HIDE DEF each
    <3>5. FlattenSeq(Append(SubSeq(each, 1, j), each[j + 1])) = ops(j) \o each[j + 1]
      BY <3>3, <3>4, FlattenAppend
    <3> QED
      BY <3>1, <3>2, <3>5
  <2>5. (SubSeq(t, 1, a) \o x) \o Right(n - j) = Left(k) \o Right(k)
    <3>1. /\ a \in Nat /\ a =< Len(t) /\ c \in Nat /\ c =< a
          /\ k \in 0 .. n - 1 /\ k \in 0 .. n /\ k + 1 = n - j
      <4>1. /\ a \in Nat /\ range[2] \in Nat /\ a =< range[2] /\ range[2] =< Len(t)
            /\ c \in Nat /\ c =< a /\ k \in 0 .. n - 1 /\ k \in 0 .. n /\ k + 1 = n - j
        BY <1>7
      <4> HIDE DEF a, range, c, k, n
      <4> QED
        BY <1>1, <4>1, SMT
    <3>2. SubSeq(t, 1, a) = SubSeq(t, 1, c) \o d
      <4> HIDE DEF a, c
      <4>1. t \in Seq(Chars) /\ 1 \in 1 .. Len(t) + 1 /\ c \in 1 - 1 .. Len(t) /\ a \in c .. Len(t)
        BY <1>1, <3>1, SMT DEF Texts
      <4>2. SubSeq(t, 1, c) \o SubSeq(t, c + 1, a) = SubSeq(t, 1, a)
        BY <4>1, ConcatAdjacentSubSeq
      <4> QED
        BY <4>2
    <3>3. pieces[k + 1] = d \o x
      <4>1. pieces[k + 1] = SubSeq(t, Cursor(ranges, k) + 1, ranges[k + 1][1]) \o x
        <5> HIDE DEF k, pieces
        <5> QED
          BY <1>3, <3>1
      <4> HIDE DEF pieces
      <4> QED
        BY <3>1, <4>1
    <3>4. /\ SubSeq(t, 1, c) \in Texts /\ d \in Texts /\ f \in Texts /\ rest \in Texts
      <4>1. f \in Texts
        BY <1>5, <2>1
      <4>2. SubSeq(t, 1, c) \in Texts /\ d \in Texts
        <5> HIDE DEF a, c
        <5> QED
          BY <1>1, <3>1, SMT DEF Texts
      <4> QED
        BY <1>4, <4>1, <4>2
    <3>5. FlattenSeq(SubSeq(pieces, k + 1, n)) = (d \o x) \o f
      <4> DEFINE E == Texts
                 tail == SubSeq(pieces, n - j + 1, n)
      <4>1. SubSeq(pieces, k + 1, n) = <<pieces[k + 1]>> \o tail
        <5>1. k + 1 \in 1 .. n /\ n - j + 1 = (k + 1) + 1 /\ pieces \in Seq(E)
          BY <1>2, <1>3, <3>1, SMT
        <5> HIDE DEF E, pieces, n, k
        <5>2. Len(pieces) = n
          BY <1>3
        <5>3. SubSeq(pieces, k + 1, n) = <<pieces[k + 1]>> \o SubSeq(pieces, (k + 1) + 1, n)
          BY ONLY <5>1, <5>2, HeadOfRange
        <5> QED
          BY <5>1, <5>3
      <4>2. tail \in Seq(E) /\ <<pieces[k + 1]>> \in Seq(E) /\ pieces[k + 1] \in E
        <5>1. k + 1 \in 1 .. n /\ n - j + 1 \in 1 .. n + 1 /\ pieces \in Seq(E)
          BY <1>2, <1>3, <2>1, <3>1, SMT
        <5> HIDE DEF E, pieces, n, k
        <5> QED
          BY <1>2, <1>3, <5>1, SMT
      <4>3. FlattenSeq(<<pieces[k + 1]>> \o tail) = FlattenSeq(<<pieces[k + 1]>>) \o FlattenSeq(tail)
        <5> HIDE DEF pieces, tail, k
        <5> QED
          BY <4>2, FlattenConcat DEF Texts
      <4>4. FlattenSeq(<<pieces[k + 1]>>) = pieces[k + 1]
        <5> HIDE DEF pieces, tail, k
        <5> QED
          BY <4>2, FlattenOne DEF Texts
      <4> QED
        BY <3>3, <4>1, <4>3, <4>4
    <3> DEFINE p == SubSeq(t, 1, c)
    <3> HIDE DEF a, c, d, f, rest
    <3>6. p \in Texts
      BY <3>4
    <3> HIDE DEF p
    <3>7. ((p \o d) \o x) \o (f \o rest) = p \o (((d \o x) \o f) \o rest)
      <4>1. p \in Texts /\ d \in Texts /\ x \in Texts /\ f \in Texts /\ rest \in Texts
        BY <3>4, <3>6
      <4>2. Regroups(p, d, x, f, rest)
        BY ONLY <4>1, Regrouped
      <4> QED
        BY <4>2 DEF Regroups
    <3> QED
      BY <3>2, <3>5, <3>7 DEF p, c, f
  <2>6. Makes(t, ops(j + 1), Left(k) \o Right(k))
    <3> HIDE DEF ops, Right, Left, range
    <3> QED
      BY <2>3, <2>4, <2>5
  <2>7. j + 1 \in Nat
    BY <1>7
  <2> QED
    BY <2>6, <2>7
<1> HIDE DEF T
<1>12. n \in T
  <2>1. n \in 0 .. n
    BY <1>2, SMT
  <2> HIDE DEF n
  <2>2. 0 .. n \subseteq T
    BY <1>2, <1>10, <1>11, InductionUpTo
  <2> QED
    BY <2>1, <2>2
<1>13. ops(n) = OperationsDescending(t, ranges, x)
  <2>1. SubSeq(each, 1, n) = each
    <3> DEFINE E == Seq(ReplayOperation)
    <3>1. each \in Seq(E)
      BY <1>8
    <3> HIDE DEF each, E, n
    <3> QED
      BY <1>2, <1>6, <3>1, SMT
  <2> QED
    BY <2>1 DEF OperationsDescending, OperationsFor
<1>14. Left(0) \o Right(0) = SplicedAll(t, ranges, x) /\ Right(0) \in Texts
  <2>1. Left(0) = <<>>
    BY SMT DEF Cursor
  <2>2. SubSeq(pieces, 0 + 1, n) = pieces
    <3> DEFINE E == Texts
    <3>1. pieces \in Seq(E)
      BY <1>3
    <3> HIDE DEF pieces, E, n
    <3> QED
      BY <1>2, <1>3, <3>1, SMT
  <2>3. Right(0) = SplicedAll(t, ranges, x)
    BY <2>2 DEF SplicedAll
  <2>4. 0 \in 0 .. n
    BY <1>2, SMT
  <2>5. Right(0) \in Texts
    BY <1>5, <2>4
  <2>6. <<>> \o Right(0) = Right(0)
    <3> HIDE DEF Right
    <3> QED
      BY <2>5, SMT DEF Texts
  <2> QED
    BY <2>1, <2>3, <2>5, <2>6
<1>15. n - n = 0 /\ n \in 0 .. n
  BY <1>2, SMT
<1> DEFINE all == ops(n)
           whole == Left(0) \o Right(0)
<1>16. Makes(t, all, whole) /\ all \in Seq(ReplayOperation)
  <2>1. n =< n
    BY <1>2, SMT
  <2>2. Makes(t, ops(n), Left(n - n) \o Right(n - n))
    BY <1>12, <2>1 DEF T
  <2>3. ops(n) \in Seq(ReplayOperation)
    BY <1>9, <1>15
  <2> QED
    BY <1>15, <2>2, <2>3
<1>17. all = OperationsDescending(t, ranges, x) /\ whole = SplicedAll(t, ranges, x)
       /\ whole \in Texts
  <2>1. Left(0) = <<>>
    BY SMT DEF Cursor
  <2>2. <<>> \o Right(0) = Right(0)
    <3> HIDE DEF Right
    <3> QED
      BY <1>14, SMT DEF Texts
  <2> QED
    BY <1>13, <1>14, <2>1, <2>2
<1> HIDE DEF all, whole
<1> QED
  BY <1>16, <1>17
-----------------------------------------------------------------------------
(* Where an offset goes when ranges are replaced.                          *)

LEMMA Mounts ==
  ASSUME NEW n \in Nat, NEW f, \A k \in 0 .. n : f[k] \in Int,
         \A k \in 0 .. n - 1 : f[k] =< f[k + 1]
  PROVE  \A k \in 0 .. n : f[k] =< f[n]
<1> DEFINE T == {j \in Nat : j =< n => f[n - j] =< f[n]}
<1>1. 0 \in T
  <2>1. n - 0 = n /\ n \in 0 .. n
    BY SMT
  <2>2. f[n] \in Int
    BY <2>1
  <2>3. f[n] =< f[n]
    BY <2>2, SMT
  <2> QED
    BY <2>1, <2>3
<1>2. ASSUME NEW j \in 0 .. n - 1, j \in T
      PROVE  j + 1 \in T
  <2> DEFINE m == n - (j + 1)
  <2>1. /\ m \in 0 .. n - 1 /\ m \in 0 .. n /\ m + 1 \in 0 .. n /\ n \in 0 .. n
        /\ m + 1 = n - j /\ j =< n /\ j + 1 \in Nat
    BY <1>2, SMT
  <2>2. f[n - j] =< f[n]
    BY <1>2, <2>1
  <2> HIDE DEF m
  <2>3. f[m] =< f[m + 1] /\ f[m + 1] =< f[n]
    BY <2>1, <2>2
  <2>4. f[m] \in Int /\ f[m + 1] \in Int /\ f[n] \in Int
    BY <2>1
  <2>5. f[m] =< f[n]
    BY <2>3, <2>4, SMT
  <2> QED
    BY <2>1, <2>5 DEF m
<1> HIDE DEF T
<1>3. 0 .. n \subseteq T
  BY <1>1, <1>2, InductionUpTo
<1>4. TAKE k \in 0 .. n
<1>5. n - k \in 0 .. n /\ n - k =< n /\ n - (n - k) = k
  BY SMT
<1> QED
  BY <1>3, <1>5 DEF T

LEMMA GrowthSteps ==
  ASSUME NEW ranges, Len(ranges) \in Nat, NEW x
  PROVE  /\ Growth(ranges, x)[0] = 0
         /\ \A k \in 0 .. Len(ranges) - 1 :
              Growth(ranges, x)[k + 1] =
                Growth(ranges, x)[k] + Len(x) - (ranges[k + 1][2] - ranges[k + 1][1])
<1> DEFINE n == Len(ranges)
           by(k) == ranges[k][2] - ranges[k][1]
           Meets(f, m) ==
             f = [k \in 0 .. m |-> IF k = 0 THEN 0 ELSE f[k - 1] + Len(x) - by(k)]
           S == {m \in Nat : \E f : Meets(f, m)}
<1> HIDE DEF by
<1>1. 0 \in S
  <2>1. Meets([k \in 0 .. 0 |-> 0], 0)
    <3>1. \A k \in 0 .. 0 : k = 0
      BY SMT
    <3> QED
      BY <3>1
  <2> QED
    BY <2>1
<1>2. ASSUME NEW m \in 0 .. n - 1, m \in S
      PROVE  m + 1 \in S
  <2>1. PICK f : Meets(f, m)
    BY <1>2
  <2> DEFINE g == [k \in 0 .. m + 1 |-> IF k =< m THEN f[k] ELSE f[m] + Len(x) - by(k)]
  <2>2. \A k \in 0 .. m : f[k] = IF k = 0 THEN 0 ELSE f[k - 1] + Len(x) - by(k)
    BY <2>1
  <2>3. \A k \in 0 .. m + 1 : g[k] = IF k = 0 THEN 0 ELSE g[k - 1] + Len(x) - by(k)
    <3> TAKE k \in 0 .. m + 1
    <3>1. CASE k = 0
      <4>1. k \in 0 .. m /\ k =< m
        BY <1>2, <3>1, SMT
      <4> QED
        BY <2>2, <3>1, <4>1
    <3>2. CASE k # 0 /\ k =< m
      <4>1. k \in 0 .. m /\ k - 1 \in 0 .. m + 1 /\ k - 1 =< m
        BY <1>2, <3>2, SMT
      <4>2. g[k] = f[k] /\ g[k - 1] = f[k - 1]
        BY <3>2, <4>1
      <4> HIDE DEF g
      <4> QED
        BY <2>2, <3>2, <4>1, <4>2
    <3>3. CASE ~(k =< m)
      <4>1. k # 0 /\ k - 1 = m /\ m \in 0 .. m + 1 /\ m =< m
        BY <1>2, <3>3, SMT
      <4>2. g[k] = f[m] + Len(x) - by(k) /\ g[m] = f[m]
        BY <3>3, <4>1
      <4> HIDE DEF g
      <4> QED
        BY <4>1, <4>2
    <3> QED
      BY <3>1, <3>2, <3>3
  <2>4. Meets(g, m + 1)
    BY <2>3
  <2>5. m + 1 \in Nat
    BY <1>2, SMT
  <2> HIDE DEF Meets
  <2> QED
    BY <2>4, <2>5
<1>3. \E f : Meets(f, n)
  <2> HIDE DEF S
  <2>1. n \in Nat /\ n \in 0 .. n
    BY SMT
  <2> HIDE DEF n
  <2>2. 0 .. n \subseteq S
    BY <1>1, <1>2, <2>1, InductionUpTo
  <2> QED
    BY <2>1, <2>2 DEF S
<1> DEFINE h == CHOOSE f : Meets(f, n)
<1>4. Growth(ranges, x) = h
  BY DEF Growth, by
<1>5. Meets(h, n)
  <2> HIDE DEF Meets
  <2> QED
    BY <1>3
<1> HIDE DEF h
<1>6. \A k \in 0 .. n : h[k] = IF k = 0 THEN 0 ELSE h[k - 1] + Len(x) - by(k)
  BY <1>5
<1>7. h[0] = 0
  <2>1. 0 \in 0 .. n
    BY SMT
  <2> QED
    BY <1>6, <2>1
<1>8. \A k \in 0 .. n - 1 : h[k + 1] = h[k] + Len(x) - by(k + 1)
  <2> TAKE k \in 0 .. n - 1
  <2>1. k + 1 \in 0 .. n /\ k + 1 # 0 /\ (k + 1) - 1 = k
    BY SMT
  <2>2. h[k + 1] = h[(k + 1) - 1] + Len(x) - by(k + 1)
    BY <1>6, <2>1
  <2> QED
    BY <2>1, <2>2
<1> QED
  BY <1>4, <1>7, <1>8 DEF by
LEMMA MappedWithin ==
  ASSUME NEW t \in Texts, NEW ranges, InOrder(ranges, 0, Len(t)), NEW x \in Texts,
         NEW offset \in 0 .. Len(t)
  PROVE  MappedOffset(offset, ranges, x) \in 0 .. Len(SplicedAll(t, ranges, x))
<1> DEFINE n == Len(ranges)
           pieces == Pieces(t, ranges, x)
           D == Growth(ranges, x)
           C(k) == Cursor(ranges, k)
           reach == [k \in 0 .. n |-> C(k) + D[k]]
           rest == TextInRange(t, Cursor(ranges, n), Len(t))
<1>1. Len(t) \in Nat /\ Len(x) \in Nat
  BY SMT DEF Texts
<1>2. /\ n \in Nat /\ DOMAIN ranges = 1 .. n
      /\ \A k \in 0 .. n : C(k) \in 0 .. Len(t)
      /\ \A k \in 0 .. n - 1 :
           /\ ranges[k + 1][1] \in Nat /\ ranges[k + 1][2] \in Nat
           /\ C(k) =< ranges[k + 1][1]
           /\ ranges[k + 1][1] =< ranges[k + 1][2]
           /\ ranges[k + 1][2] = C(k + 1)
           /\ ranges[k + 1][2] =< Len(t)
  BY <1>1, Cursors
<1>3. /\ D[0] = 0
      /\ \A k \in 0 .. n - 1 :
           D[k + 1] = D[k] + Len(x) - (ranges[k + 1][2] - ranges[k + 1][1])
  BY <1>2, GrowthSteps
<1>4. /\ pieces \in Seq(Texts) /\ Len(pieces) = n
      /\ \A k \in 0 .. n - 1 : pieces[k + 1] = SubSeq(t, C(k) + 1, ranges[k + 1][1]) \o x
  <2>1. ArePieces(Pieces(t, ranges, x), t, ranges, x)
    BY PiecesAreTexts
  <2> QED
    BY <2>1 DEF ArePieces
<1>5. C(0) = 0
  BY DEF Cursor
<1> HIDE DEF D, C, pieces, n
(* The first k pieces end where the k-th range's end has moved to.         *)
<1>6. ASSUME NEW k \in 0 .. n - 1
      PROVE  Len(pieces[k + 1]) = ranges[k + 1][1] - C(k) + Len(x) /\ pieces[k + 1] \in Texts
  <2> DEFINE d == SubSeq(t, C(k) + 1, ranges[k + 1][1])
  <2>1. k \in 0 .. n /\ k + 1 \in 1 .. n
    BY <1>2, SMT
  <2>2. /\ C(k) \in Nat /\ ranges[k + 1][1] \in Nat /\ C(k) =< ranges[k + 1][1]
        /\ ranges[k + 1][1] =< Len(t)
    <3>1. /\ C(k) \in 0 .. Len(t) /\ ranges[k + 1][1] \in Nat /\ ranges[k + 1][2] \in Nat
          /\ C(k) =< ranges[k + 1][1] /\ ranges[k + 1][1] =< ranges[k + 1][2]
          /\ ranges[k + 1][2] =< Len(t)
      BY <1>2, <2>1
    <3> QED
      BY <1>1, <3>1, SMT
  <2>3. d \in Texts /\ Len(d) = ranges[k + 1][1] - C(k)
    BY <1>1, <2>2, SMT DEF Texts
  <2> HIDE DEF d
  <2>4. Len(d \o x) = Len(d) + Len(x) /\ d \o x \in Texts
    BY <2>3, Glue
  <2> QED
    BY <1>4, <2>3, <2>4 DEF d
<1> DEFINE T == {k \in Nat : k =< n =>
                   /\ D[k] \in Int
                   /\ FlattenSeq(SubSeq(pieces, 1, k)) \in Texts
                   /\ Len(FlattenSeq(SubSeq(pieces, 1, k))) = C(k) + D[k]}
<1>7. 0 \in T
  <2>1. SubSeq(pieces, 1, 0) = <<>> /\ <<>> \in Texts /\ Len(<<>>) = 0
    BY SMT DEF Texts
  <2>2. D[0] \in Int /\ C(0) + D[0] = 0
    BY <1>3, <1>5, SMT
  <2>3. 0 \in Nat
    OBVIOUS
  <2> QED
    BY <2>1, <2>2, <2>3, FlattenEmpty
<1>8. ASSUME NEW k \in 0 .. n - 1, k \in T
      PROVE  k + 1 \in T
  <2> DEFINE front == SubSeq(pieces, 1, k)
             p == pieces[k + 1]
  <2>1. k =< n /\ k + 1 \in Nat /\ k \in 0 .. n
    BY <1>2, SMT
  <2>2. D[k] \in Int /\ FlattenSeq(front) \in Texts /\ Len(FlattenSeq(front)) = C(k) + D[k]
    BY <1>8, <2>1
  <2>3. SubSeq(pieces, 1, k + 1) = Append(front, p) /\ front \in Seq(Texts)
    <3> DEFINE E == Texts
    <3>1. pieces \in Seq(E)
      BY <1>4
    <3> HIDE DEF E
    <3>2. SubSeq(pieces, 1, k + 1) = Append(front, p) /\ front \in Seq(E)
      BY <1>2, <1>4, <3>1, SMT
    <3> QED
      BY <3>2 DEF E
  <2>4. p \in Texts /\ Len(p) = ranges[k + 1][1] - C(k) + Len(x)
    BY <1>6
  <2> HIDE DEF front, p
  <2>5. FlattenSeq(Append(front, p)) = FlattenSeq(front) \o p
    BY <2>3, <2>4, FlattenAppend DEF Texts
  <2>6. /\ FlattenSeq(front) \o p \in Texts
        /\ Len(FlattenSeq(front) \o p) = Len(FlattenSeq(front)) + Len(p)
    BY <2>2, <2>4, Glue
  <2>7. /\ D[k + 1] = D[k] + Len(x) - (ranges[k + 1][2] - ranges[k + 1][1])
        /\ ranges[k + 1][1] \in Nat /\ ranges[k + 1][2] \in Nat
        /\ ranges[k + 1][2] = C(k + 1) /\ C(k) \in 0 .. Len(t)
    BY <1>2, <1>3, <2>1
  <2>8. D[k + 1] \in Int /\ C(k) + D[k] + (ranges[k + 1][1] - C(k) + Len(x)) = C(k + 1) + D[k + 1]
    <3> DEFINE a == ranges[k + 1][1]
               b == ranges[k + 1][2]
               c == C(k)
               d == D[k]
    <3>1. a \in Nat /\ b \in Nat /\ c \in Nat /\ d \in Int
      BY <1>1, <2>2, <2>7
    <3> HIDE DEF a, b, c, d
    <3>2. d + Len(x) - (b - a) \in Int /\ c + d + (a - c + Len(x)) = b + (d + Len(x) - (b - a))
      BY <1>1, <3>1, SMT
    <3> QED
      BY <2>7, <3>2 DEF a, b, c, d
  <2> QED
    BY <2>1, <2>2, <2>3, <2>4, <2>5, <2>6, <2>8
<1> HIDE DEF T
<1>9. \A k \in 0 .. n : /\ D[k] \in Int
                        /\ FlattenSeq(SubSeq(pieces, 1, k)) \in Texts
                        /\ Len(FlattenSeq(SubSeq(pieces, 1, k))) = C(k) + D[k]
  <2>1. 0 .. n \subseteq T
    BY <1>2, <1>7, <1>8, InductionUpTo
  <2>2. \A k \in 0 .. n : k =< n
    BY SMT
  <2> QED
    BY <2>1, <2>2 DEF T
(* They grow, and the text ends behind the last of them.                   *)
<1>10. \A k \in 0 .. n : reach[k] = C(k) + D[k] /\ reach[k] \in Nat
  <2>1. \A k \in 0 .. n : Len(FlattenSeq(SubSeq(pieces, 1, k))) \in Nat
    <3> TAKE k \in 0 .. n
    <3>1. FlattenSeq(SubSeq(pieces, 1, k)) \in Texts
      BY <1>9
    <3> QED
      BY <3>1, SMT DEF Texts
  <2>2. \A k \in 0 .. n : C(k) + D[k] \in Nat
    BY <1>9, <2>1
  <2> QED
    BY <2>2
<1>11. n \in 0 .. n /\ C(n) \in Nat /\ C(n) =< Len(t)
  <2>1. n \in 0 .. n
    BY <1>2, SMT
  <2>2. C(n) \in 0 .. Len(t)
    BY <1>2, <2>1
  <2> QED
    BY <1>1, <2>1, <2>2, SMT
<1>12. Len(SplicedAll(t, ranges, x)) = reach[n] + Len(t) - C(n)
  <2>1. SubSeq(pieces, 1, n) = pieces
    <3> DEFINE E == Texts
    <3>1. pieces \in Seq(E)
      BY <1>4
    <3> HIDE DEF E
    <3> QED
      BY <1>2, <1>4, <3>1, SMT
  <2>2. FlattenSeq(pieces) \in Texts /\ Len(FlattenSeq(pieces)) = reach[n]
    BY <1>9, <1>10, <1>11, <2>1
  <2>3. rest \in Texts /\ Len(rest) = Len(t) - C(n)
    <3>1. Len(t) =< Len(t)
      BY <1>1, SMT
    <3>2. rest = SubSeq(t, C(n) + 1, Len(t)) /\ rest \in Texts
      BY <1>1, <1>11, <3>1, RangeThatFits, TextInRangeType DEF C
    <3>3. Len(SubSeq(t, C(n) + 1, Len(t))) = Len(t) - C(n)
      BY <1>1, <1>11, SMT DEF Texts
    <3> QED
      BY <3>2, <3>3
  <2>4. SplicedAll(t, ranges, x) = FlattenSeq(pieces) \o rest
    BY DEF SplicedAll, pieces, n
  <2> HIDE DEF rest, reach
  <2>5. Len(FlattenSeq(pieces) \o rest) = Len(FlattenSeq(pieces)) + Len(rest)
    BY <2>2, <2>3, Glue
  <2>6. reach[n] \in Nat
    BY <1>10, <1>11
  <2> QED
    BY <1>1, <1>11, <2>2, <2>3, <2>4, <2>5, <2>6, SMT
<1>13. \A k \in 0 .. n - 1 : reach[k + 1] = ranges[k + 1][1] + D[k] + Len(x)
  <2> TAKE k \in 0 .. n - 1
  <2>1. k \in 0 .. n /\ k + 1 \in 0 .. n
    BY <1>2, SMT
  <2>2. /\ D[k + 1] = D[k] + Len(x) - (ranges[k + 1][2] - ranges[k + 1][1])
        /\ ranges[k + 1][1] \in Nat /\ ranges[k + 1][2] \in Nat
        /\ ranges[k + 1][2] = C(k + 1)
    BY <1>2, <1>3
  <2>3. D[k] \in Int /\ reach[k + 1] = C(k + 1) + D[k + 1]
    BY <1>9, <1>10, <2>1
  <2> HIDE DEF reach
  <2> QED
    BY <1>1, <2>2, <2>3, SMT
<1> HIDE DEF reach
<1>14. \A k \in 0 .. n - 1 : reach[k] =< reach[k + 1]
  <2> TAKE k \in 0 .. n - 1
  <2>1. k \in 0 .. n /\ k + 1 \in 0 .. n
    BY <1>2, SMT
  <2>2. C(k) =< ranges[k + 1][1] /\ ranges[k + 1][1] \in Nat /\ C(k) \in 0 .. Len(t)
    BY <1>2, <2>1
  <2>3. reach[k] = C(k) + D[k] /\ D[k] \in Int /\ reach[k + 1] = ranges[k + 1][1] + D[k] + Len(x)
    BY <1>9, <1>10, <1>13, <2>1
  <2> QED
    BY <1>1, <2>2, <2>3, SMT
<1>15. \A k \in 0 .. n : reach[k] =< reach[n]
  <2>1. \A k \in 0 .. n : reach[k] \in Int
    BY <1>10, SMT
  <2> QED
    BY <1>2, <1>14, <2>1, Mounts
(* So an offset stays within the text.                                     *)
<1> DEFINE K == {0} \cup {i \in DOMAIN ranges : ranges[i][2] < offset}
           k == Max(K)
<1>16. k \in 0 .. n /\ C(k) =< offset
  <2>1. K \in SUBSET (0 .. n) /\ K # {}
    BY <1>2, SMT
  <2>2. k \in K /\ k \in 0 .. n
    <3> HIDE DEF K
    <3> QED
      BY <1>2, <2>1, GreatestOf
  <2> HIDE DEF k
  <2>3. k = 0 \/ (k # 0 /\ ranges[k][2] < offset)
    BY <1>2, <2>2, SMT
  <2>4. CASE k = 0
    BY <1>1, <1>5, <2>2, <2>4, SMT
  <2>5. CASE k # 0 /\ ranges[k][2] < offset
    <3>1. C(k) = ranges[k][2]
      BY <2>5 DEF Cursor, C
    <3>2. C(k) \in 0 .. Len(t)
      BY <1>2, <2>2
    <3> QED
      BY <1>1, <2>2, <2>5, <3>1, <3>2, SMT
  <2> QED
    BY <2>3, <2>4, <2>5
<1>17. MappedOffset(offset, ranges, x) =
         IF k < n /\ ranges[k + 1][1] < offset
         THEN ranges[k + 1][1] + D[k] + Len(x)
         ELSE offset + D[k]
  BY DEF MappedOffset, n, D
<1> HIDE DEF k
<1>18. /\ reach[k] = C(k) + D[k] /\ reach[k] \in Nat /\ reach[k] =< reach[n] /\ D[k] \in Int
       /\ C(k) \in 0 .. Len(t) /\ reach[n] \in Nat
  BY <1>2, <1>9, <1>10, <1>11, <1>15, <1>16
<1> DEFINE size == Len(SplicedAll(t, ranges, x))
<1>19. size = reach[n] + Len(t) - C(n)
  BY <1>12
<1> HIDE DEF size
<1>20. CASE k = n
  <2>1. MappedOffset(offset, ranges, x) = offset + D[k]
    BY <1>2, <1>17, <1>20, SMT
  <2> DEFINE dk == D[k]
             rk == reach[k]
             ck == C(k)
             l == Len(t)
  <2>2. /\ size = rk + l - ck /\ rk = ck + dk /\ rk \in Nat /\ dk \in Int /\ ck \in 0 .. l
        /\ l \in Nat /\ ck =< offset /\ offset \in 0 .. l
    BY <1>1, <1>16, <1>18, <1>19, <1>20
  <2> HIDE DEF dk, rk, ck, l
  <2>3. offset + dk \in 0 .. size
    BY <2>2, SMT
  <2> QED
    BY <2>1, <2>3 DEF size, dk
<1>21. CASE k # n
  <2>1. k < n /\ k \in 0 .. n - 1 /\ k + 1 \in 0 .. n
    BY <1>2, <1>16, <1>21, SMT
  <2>2. /\ reach[k + 1] = ranges[k + 1][1] + D[k] + Len(x) /\ reach[k + 1] \in Nat
        /\ reach[k + 1] =< reach[n] /\ ranges[k + 1][1] \in Nat
    BY <1>2, <1>10, <1>13, <1>15, <2>1
  <2>3. CASE ranges[k + 1][1] < offset
    <3>1. MappedOffset(offset, ranges, x) = reach[k + 1]
      BY <1>17, <2>1, <2>2, <2>3
    <3> DEFINE r1 == reach[k + 1]
               rn == reach[n]
               cn == C(n)
               l == Len(t)
    <3>2. /\ r1 \in Nat /\ r1 =< rn /\ rn \in Nat /\ size = rn + l - cn
          /\ cn \in 0 .. l /\ l \in Nat
      BY <1>1, <1>11, <1>18, <1>19, <2>2
    <3> HIDE DEF r1, rn, cn, l
    <3>3. r1 \in 0 .. size
      BY <3>2, SMT
    <3> QED
      BY <3>1, <3>3 DEF size, r1
  <2>4. CASE ~(ranges[k + 1][1] < offset)
    <3>1. MappedOffset(offset, ranges, x) = offset + D[k]
      BY <1>17, <2>4
    <3>2. offset + D[k] \in 0 .. size
      <4> DEFINE r == ranges[k + 1][1]
      <4>1. offset =< r /\ r \in Nat /\ reach[k + 1] = r + D[k] + Len(x)
        BY <2>2, <2>4, SMT
      <4> DEFINE d == D[k]
                 c == C(k)
                 m == reach[n]
                 next == reach[k + 1]
                 stop == C(n)
      <4>2. /\ c \in Nat /\ d \in Int /\ c + d \in Nat /\ c =< offset /\ m \in Nat
            /\ next = r + d + Len(x) /\ next =< m /\ stop \in Nat /\ stop =< Len(t)
            /\ size = m + Len(t) - stop
        BY <1>1, <1>11, <1>16, <1>18, <1>19, <2>2, <4>1
      <4> HIDE DEF r, d, c, m, next, stop
      <4>3. offset + d \in 0 .. size
        BY <1>1, <4>1, <4>2, SMT
      <4> QED
        BY <4>3 DEF d
    <3> QED
      BY <3>1, <3>2 DEF size
  <2> QED
    BY <2>3, <2>4
<1> QED
  BY <1>20, <1>21
(* Ranges from left to right, all replaced, with the view moved along.     *)
LEMMA RangesReplacedIsGood ==
  ASSUME NEW t \in Texts, NEW v \in ViewsOf(t), NEW ranges, InOrder(ranges, 0, Len(t)),
         NEW x \in Texts
  PROVE  GoodPlan(t, Accepted(t, v, [final |-> SplicedAll(t, ranges, x),
                                     ops |-> OperationsDescending(t, ranges, x),
                                     view |-> MappedView(v, ranges, x)]))
<1>1. /\ SplicedAll(t, ranges, x) \in Texts
      /\ OperationsDescending(t, ranges, x) \in Seq(ReplayOperation)
      /\ Makes(t, OperationsDescending(t, ranges, x), SplicedAll(t, ranges, x))
  BY AllRangesMake
<1>2. MappedView(v, ranges, x) \in ViewsOf(SplicedAll(t, ranges, x))
  <2>1. v.ins \in 0 .. Len(t) /\ v.bound \in 0 .. Len(t)
    BY DEF ViewsOf
  <2>2. /\ MappedOffset(v.ins, ranges, x) \in 0 .. Len(SplicedAll(t, ranges, x))
        /\ MappedOffset(v.bound, ranges, x) \in 0 .. Len(SplicedAll(t, ranges, x))
    BY <2>1, MappedWithin
  <2> QED
    BY <2>2 DEF MappedView, ViewsOf
<1> DEFINE final == SplicedAll(t, ranges, x)
           ops == OperationsDescending(t, ranges, x)
           target == MappedView(v, ranges, x)
<1>3. final \in Texts /\ ops \in Seq(ReplayOperation) /\ Makes(t, ops, final)
      /\ target \in ViewsOf(final)
  BY <1>1, <1>2
<1> HIDE DEF final, ops, target
<1>4. GoodPlan(t, Accepted(t, v, [final |-> final, ops |-> ops, view |-> target]))
  BY <1>3, AcceptedIsGood
<1> QED
  BY <1>4 DEF final, ops, target
-----------------------------------------------------------------------------
(* From left to right.  The offsets found from c on are some of the        *)
(* starts, a length apart, and every start lies within a length of one.    *)

Spaced(q, starts, length, c) ==
  /\ q \in Seq(Nat)
  /\ \A i \in DOMAIN q : q[i] \in starts /\ c =< q[i]
  /\ \A i, j \in DOMAIN q : i < j => q[i] + length =< q[j]
  /\ \A s \in starts : c =< s => \E i \in DOMAIN q : q[i] =< s /\ s < q[i] + length

LEMMA SpacedEmpty ==
  ASSUME NEW starts, NEW length, NEW c, {s \in starts : s >= c} = {}, starts \subseteq Nat, c \in Nat
  PROVE  Spaced(<<>>, starts, length, c)
<1>1. <<>> \in Seq(Nat) /\ DOMAIN <<>> = {}
  BY SMT
<1>2. \A s \in starts : ~(c =< s)
  BY SMT
<1> QED
  BY <1>1, <1>2 DEF Spaced

LEMMA SpacedCons ==
  ASSUME NEW starts \in SUBSET Nat, NEW length \in Nat \ {0}, NEW c \in Nat,
         NEW a \in starts, c =< a, \A s \in starts : c =< s => a =< s,
         NEW q, Spaced(q, starts, length, a + length)
  PROVE  Spaced(<<a>> \o q, starts, length, c)
<1> DEFINE p == <<a>> \o q
<1>1. q \in Seq(Nat) /\ a \in Nat /\ Len(q) \in Nat /\ DOMAIN q = 1 .. Len(q)
  BY SMT DEF Spaced
<1>2. /\ p \in Seq(Nat) /\ DOMAIN p = 1 .. Len(q) + 1 /\ p[1] = a
      /\ \A i \in 1 .. Len(q) : p[i + 1] = q[i]
  BY <1>1, SMT
<1>3. \A i \in 1 .. Len(q) + 1 : i = 1 \/ (i - 1 \in 1 .. Len(q) /\ (i - 1) + 1 = i)
  BY <1>1, SMT
<1>4. \A i \in 1 .. Len(q) : q[i] \in starts /\ q[i] \in Nat /\ a + length =< q[i]
  BY <1>1 DEF Spaced
<1> HIDE DEF p
<1>5. ASSUME NEW i \in DOMAIN p
      PROVE  p[i] \in starts /\ c =< p[i]
  <2>1. CASE i = 1
    BY <1>2, <2>1
  <2>2. CASE i # 1
    <3>1. i - 1 \in 1 .. Len(q) /\ (i - 1) + 1 = i
      BY <1>2, <1>3, <2>2
    <3>2. p[i] = q[i - 1] /\ q[i - 1] \in starts /\ q[i - 1] \in Nat /\ a + length =< q[i - 1]
      BY <1>2, <1>4, <3>1
    <3> QED
      BY <1>1, <3>2, SMT
  <2> QED
    BY <2>1, <2>2
<1>6. ASSUME NEW i \in DOMAIN p, NEW j \in DOMAIN p, i < j
      PROVE  p[i] + length =< p[j]
  <2>1. j # 1 /\ j - 1 \in 1 .. Len(q) /\ (j - 1) + 1 = j
    <3>1. i \in 1 .. Len(q) + 1 /\ j \in 1 .. Len(q) + 1
      BY <1>2
    <3>2. j # 1
      BY <1>1, <1>6, <3>1, SMT
    <3> QED
      BY <1>3, <3>1, <3>2, Zenon
  <2>2. p[j] = q[j - 1]
    BY <1>2, <2>1
  <2>3. CASE i = 1
    BY <1>2, <1>4, <2>1, <2>2, <2>3
  <2>4. CASE i # 1
    <3>1. i - 1 \in 1 .. Len(q) /\ (i - 1) + 1 = i
      BY <1>2, <1>3, <2>4
    <3>2. i \in Int /\ j \in Int
      BY <1>2
    <3>3. i - 1 < j - 1
      BY ONLY <3>2, <1>6, SMT
    <3>4. p[i] = q[i - 1]
      BY <1>2, <3>1
    <3>5. q[i - 1] + length =< q[j - 1]
      BY <1>1, <2>1, <3>1, <3>3 DEF Spaced
    <3> QED
      BY <2>2, <3>4, <3>5
  <2> QED
    BY <2>3, <2>4
<1>7. ASSUME NEW s \in starts, c =< s
      PROVE  \E i \in DOMAIN p : p[i] =< s /\ s < p[i] + length
  <2>1. CASE s < a + length
    <3>1. 1 \in DOMAIN p /\ a =< s
      BY <1>1, <1>2, <1>7, SMT
    <3> QED
      BY <1>2, <2>1, <3>1
  <2>2. CASE ~(s < a + length)
    <3>1. a + length =< s
      BY <1>1, <2>2, SMT
    <3>2. PICK i \in DOMAIN q : q[i] =< s /\ s < q[i] + length
      BY <3>1 DEF Spaced
    <3>3. i + 1 \in DOMAIN p /\ p[i + 1] = q[i]
      <4>1. i \in 1 .. Len(q) /\ i + 1 \in 1 .. Len(q) + 1
        BY <1>1, SMT
      <4> QED
        BY <1>2, <4>1
    <3> QED
      BY <3>2, <3>3
  <2> QED
    BY <2>1, <2>2
<1>8. p \in Seq(Nat)
  BY <1>2
<1>9. Spaced(p, starts, length, c)
  BY <1>5, <1>6, <1>7, <1>8 DEF Spaced
<1> QED
  BY <1>9 DEF p

LEMMA FirstIsLeast ==
  ASSUME NEW S \in SUBSET Nat
  PROVE  /\ S = {} => First(S) = NotFound
         /\ S # {} => /\ First(S) # NotFound /\ First(S) \in S /\ First(S) \in Nat
                      /\ \A y \in S : First(S) =< y
<1>1. CASE S = {}
  BY <1>1 DEF First
<1>2. CASE S # {}
  <2>1. First(S) = Min(S)
    BY <1>2 DEF First
  <2>2. Min(S) \in S /\ Min(S) \in Nat /\ \A y \in S : Min(S) =< y
    BY <1>2, LeastOf
  <2>3. Min(S) # NotFound
    BY <2>2, SMT DEF NotFound
  <2> QED
    BY <1>2, <2>1, <2>2, <2>3
<1> QED
  BY <1>1, <1>2

LEMMA LeftToRightSpaced ==
  ASSUME NEW m \in Nat, NEW starts \in SUBSET (0 .. m), NEW length \in Nat \ {0}
  PROVE  Spaced(LeftToRight(starts, length), starts, length, 0)
<1> DEFINE n == m + 1
           At(c) == First({s \in starts : s >= c})
           Rest(f, c) == IF At(c) = NotFound THEN <<>> ELSE <<At(c)>> \o f[At(c) + length]
           Meets(f) == f = [c \in Nat |-> Rest(f, c)]
           Partly(f, j) == f = [c \in Nat |-> f[c]] /\ \A c \in Nat : c + j >= n => f[c] = Rest(f, c)
           S == {j \in Nat : \E f : Partly(f, j)}
<1>1. starts \in SUBSET Nat /\ n \in Nat /\ \A s \in starts : s < n
  BY SMT
<1>2. ASSUME NEW c \in Nat
      PROVE  /\ At(c) = NotFound <=> {s \in starts : s >= c} = {}
             /\ At(c) # NotFound => /\ At(c) \in starts /\ At(c) \in Nat /\ c =< At(c)
                                    /\ \A s \in starts : c =< s => At(c) =< s
  <2> DEFINE A == {s \in starts : s >= c}
  <2>1. A \in SUBSET Nat
    BY <1>1
  <2>2. \A s \in starts : s \in A <=> c =< s
    BY <1>1, SMT
  <2>3. A \subseteq starts
    OBVIOUS
  <2> HIDE DEF A
  <2>4. /\ A = {} => First(A) = NotFound
        /\ A # {} => /\ First(A) # NotFound /\ First(A) \in A /\ First(A) \in Nat
                     /\ \A y \in A : First(A) =< y
    BY <2>1, FirstIsLeast
  <2>5. /\ First(A) = NotFound <=> A = {}
        /\ First(A) # NotFound => /\ First(A) \in starts /\ First(A) \in Nat /\ c =< First(A)
                                  /\ \A s \in starts : c =< s => First(A) =< s
    BY <2>2, <2>3, <2>4
  <2> QED
    BY <2>5 DEF A
<1> HIDE DEF At, n
<1>3. ASSUME NEW c \in Nat, n =< c
      PROVE  At(c) = NotFound
  <2>1. \A s \in starts : ~(s >= c)
    BY <1>1, <1>3, SMT
  <2> QED
    BY <1>2, <2>1
<1>4. 0 \in S
  <2> DEFINE g == [c \in Nat |-> <<>>]
  <2>1. \A c \in Nat : c + 0 >= n => g[c] = Rest(g, c)
    <3> SUFFICES ASSUME NEW c \in Nat, c + 0 >= n
                 PROVE  g[c] = Rest(g, c)
      OBVIOUS
    <3>1. n =< c
      BY <1>1, SMT
    <3>2. At(c) = NotFound
      BY <1>3, <3>1
    <3> QED
      BY <3>2
  <2>2. g = [c \in Nat |-> g[c]]
    OBVIOUS
  <2>3. Partly(g, 0)
    BY <2>1, <2>2
  <2>4. 0 \in Nat
    OBVIOUS
  <2> HIDE DEF Partly, g
  <2> QED
    BY <2>3, <2>4
<1>5. ASSUME NEW j \in 0 .. n - 1, j \in S
      PROVE  j + 1 \in S
  <2>1. PICK f : Partly(f, j)
    BY <1>5
  <2> DEFINE b == n - (j + 1)
             g == [c \in Nat |-> IF c = b THEN Rest(f, b) ELSE f[c]]
  <2>2. b \in Nat /\ j + 1 \in Nat
    BY <1>1, SMT
  <2>3. ASSUME NEW c \in Nat, c + (j + 1) >= n
        PROVE  g[c] = Rest(g, c)
    <3>1. b =< c /\ (c = b \/ c + j >= n)
      BY <1>1, <2>3, SMT
    <3>2. Rest(g, c) = Rest(f, c)
      <4>1. CASE At(c) = NotFound
        BY <4>1
      <4>2. CASE At(c) # NotFound
        <5>1. At(c) \in Nat /\ c =< At(c)
          BY <1>2, <4>2
        <5>2. At(c) + length \in Nat /\ At(c) + length # b
          BY <2>2, <3>1, <5>1, SMT
        <5>3. g[At(c) + length] = f[At(c) + length]
          BY <5>2
        <5> HIDE DEF g
        <5> QED
          BY <4>2, <5>3
      <4> QED
        BY <4>1, <4>2
    <3>3. CASE c = b
      <4>1. g[c] = Rest(f, c)
        BY <3>3
      <4> QED
        BY <3>2, <4>1
    <3>4. CASE c # b
      <4>1. g[c] = f[c]
        BY <3>4
      <4>2. f[c] = Rest(f, c)
        BY <2>1, <3>1, <3>4
      <4> QED
        BY <3>2, <4>1, <4>2
    <3> QED
      BY <3>3, <3>4
  <2>4. g = [c \in Nat |-> g[c]]
    OBVIOUS
  <2>5. Partly(g, j + 1)
    BY <2>3, <2>4
  <2> HIDE DEF Partly, g
  <2> QED
    BY <2>2, <2>5
<1>6. n \in S
  <2> HIDE DEF S
  <2>1. n \in 0 .. n
    BY <1>1, SMT
  <2>2. 0 .. n \subseteq S
    BY <1>1, <1>4, <1>5, InductionUpTo
  <2> QED
    BY <2>1, <2>2
<1>7. \E f : Meets(f)
  <2>1. PICK f : Partly(f, n)
    BY <1>6
  <2>2. \A c \in Nat : c + n >= n
    BY <1>1, SMT
  <2>3. \A c \in Nat : f[c] = Rest(f, c)
    BY <2>1, <2>2
  <2>4. f = [c \in Nat |-> f[c]]
    BY <2>1
  <2>5. Meets(f)
    BY <2>3, <2>4
  <2> QED
    BY <2>5
<1> DEFINE h == CHOOSE f : Meets(f)
<1>8. LeftToRight(starts, length) = h[0]
  BY DEF LeftToRight, At
<1>9. Meets(h)
  <2> HIDE DEF Meets
  <2> QED
    BY <1>7
<1> HIDE DEF h
<1>10. \A c \in Nat : h[c] = Rest(h, c)
  BY <1>9
<1> DEFINE T == {j \in Nat : \A c \in Nat : c + j >= n => Spaced(h[c], starts, length, c)}
<1>11. ASSUME NEW c \in Nat, At(c) = NotFound
       PROVE  Spaced(h[c], starts, length, c)
  <2>1. h[c] = <<>>
    BY <1>10, <1>11
  <2>2. {s \in starts : s >= c} = {}
    BY <1>2, <1>11
  <2> QED
    BY <1>1, <2>1, <2>2, SpacedEmpty
<1>12. 0 \in T
  <2>1. ASSUME NEW c \in Nat, c + 0 >= n
        PROVE  Spaced(h[c], starts, length, c)
    <3>1. n =< c
      BY <1>1, <2>1, SMT
    <3> QED
      BY <1>3, <1>11, <3>1
  <2>2. 0 \in Nat
    OBVIOUS
  <2> QED
    BY <2>1, <2>2
<1>13. ASSUME NEW j \in 0 .. n - 1, j \in T
       PROVE  j + 1 \in T
  <2>1. ASSUME NEW c \in Nat, c + (j + 1) >= n, At(c) # NotFound
        PROVE  Spaced(h[c], starts, length, c)
    <3> DEFINE a == At(c)
    <3>1. /\ a \in starts /\ a \in Nat /\ c =< a /\ \A s \in starts : c =< s => a =< s
          /\ h[c] = <<a>> \o h[a + length]
      BY <1>2, <1>10, <2>1
    <3> HIDE DEF a
    <3>2. a + length \in Nat /\ (a + length) + j >= n
      BY <1>1, <2>1, <3>1, SMT
    <3>3. Spaced(h[a + length], starts, length, a + length)
      BY <1>13, <3>2
    <3>4. Spaced(<<a>> \o h[a + length], starts, length, c)
      BY <1>1, <3>1, <3>3, SpacedCons
    <3> QED
      BY <3>1, <3>4
  <2>2. j + 1 \in Nat
    BY <1>1, SMT
  <2> QED
    BY <1>11, <2>1, <2>2
<1> HIDE DEF T
<1>14. n \in T
  <2>1. n \in 0 .. n
    BY <1>1, SMT
  <2>2. 0 .. n \subseteq T
    BY <1>1, <1>12, <1>13, InductionUpTo
  <2> QED
    BY <2>1, <2>2
<1>15. 0 \in Nat /\ 0 + n >= n
  BY <1>1, SMT
<1> QED
  BY <1>8, <1>14, <1>15 DEF T
LEMMA AscendingLists ==
  ASSUME NEW m \in Nat, NEW S \in SUBSET (0 .. m)
  PROVE  /\ Ascending(S) \in Seq(Nat)
         /\ \A i \in DOMAIN Ascending(S) : Ascending(S)[i] \in S
         /\ \A i, j \in DOMAIN Ascending(S) : i < j => Ascending(S)[i] < Ascending(S)[j]
         /\ \A s \in S : \E i \in DOMAIN Ascending(S) : Ascending(S)[i] = s
<1> DEFINE q == LeftToRight(S, 1)
<1>1. Ascending(S) = q /\ Spaced(q, S, 1, 0)
  <2>1. 1 \in Nat \ {0}
    BY SMT
  <2> QED
    BY <2>1, LeftToRightSpaced DEF Ascending
<1> HIDE DEF q
<1>2. \A i \in DOMAIN q : q[i] \in S /\ q[i] \in Nat
  BY <1>1, SMT DEF Spaced
<1>3. ASSUME NEW i \in DOMAIN q, NEW j \in DOMAIN q, i < j
      PROVE  q[i] < q[j]
  <2>1. q[i] + 1 =< q[j]
    BY <1>1, <1>3 DEF Spaced
  <2> QED
    BY <1>2, <2>1, SMT
<1>4. ASSUME NEW s \in S
      PROVE  \E i \in DOMAIN q : q[i] = s
  <2>1. s \in Nat /\ 0 =< s
    BY SMT
  <2>2. PICK i \in DOMAIN q : q[i] =< s /\ s < q[i] + 1
    BY <1>1, <2>1 DEF Spaced
  <2>3. q[i] = s
    BY <1>2, <2>1, <2>2, SMT
  <2> QED
    BY <2>3
<1>5. q \in Seq(Nat)
  BY <1>1 DEF Spaced
<1> QED
  BY <1>1, <1>2, <1>3, <1>4, <1>5
-----------------------------------------------------------------------------
(* Views.                                                                  *)

LEMMA SelectionEnds ==
  ASSUME NEW t \in Texts, NEW v \in ViewsOf(t)
  PROVE  /\ v.ins \in Nat /\ v.ins =< Len(t) /\ v.bound \in Nat /\ v.bound =< Len(t)
         /\ Low(v) \in Nat /\ High(v) \in Nat /\ Low(v) =< High(v) /\ High(v) =< Len(t)
         /\ \/ Low(v) = v.ins /\ High(v) = v.bound
            \/ Low(v) = v.bound /\ High(v) = v.ins
         /\ HasSelection(v) => Low(v) < High(v)
         /\ ~HasSelection(v) => Low(v) = v.ins /\ High(v) = v.ins
<1> DEFINE S == {v.ins, v.bound}
<1>1. Len(t) \in Nat /\ v.ins \in 0 .. Len(t) /\ v.bound \in 0 .. Len(t)
  BY SMT DEF Texts, ViewsOf
<1>2. S \in SUBSET Nat /\ S # {} /\ S \in SUBSET (0 .. Len(t))
  BY <1>1, SMT
<1> HIDE DEF S
<1>3. Min(S) \in S /\ \A y \in S : Min(S) =< y
  BY <1>2, LeastOf
<1>4. Max(S) \in S /\ \A y \in S : y =< Max(S)
  BY <1>1, <1>2, GreatestOf
<1>5. Low(v) = Min(S) /\ High(v) = Max(S)
  BY DEF Low, High, S
<1>6. v.ins \in S /\ v.bound \in S /\ \A y \in S : y = v.ins \/ y = v.bound
  BY DEF S
<1> QED
  BY <1>1, <1>3, <1>4, <1>5, <1>6, SMT DEF HasSelection

LEMMA SelectedText ==
  ASSUME NEW t \in Texts, NEW v \in ViewsOf(t)
  PROVE  /\ Selected(t, v) \in Texts /\ Len(Selected(t, v)) = High(v) - Low(v)
         /\ Selected(t, v) = SubSeq(t, Low(v) + 1, High(v))
<1>1. Low(v) \in Nat /\ High(v) \in Nat /\ Low(v) =< High(v) /\ High(v) =< Len(t)
  BY SelectionEnds
<1> QED
  BY <1>1, TextInRangeType, RangeThatFits DEF Selected

LEMMA SplicedViews ==
  ASSUME NEW t \in Texts, NEW lo \in Nat, NEW hi \in Nat, lo =< hi, hi =< Len(t),
         NEW x \in Texts, NEW target,
         target = [ins |-> target.ins, bound |-> target.bound],
         target.ins \in 0 .. lo + Len(x) + (Len(t) - hi),
         target.bound \in 0 .. lo + Len(x) + (Len(t) - hi)
  PROVE  target \in ViewsOf(Spliced(t, lo, hi, x))
<1>1. Len(Spliced(t, lo, hi, x)) = lo + Len(x) + (Len(t) - hi)
  BY SplicedText DEF ReadsReplaced
<1> QED
  BY <1>1 DEF ViewsOf

LEMMA CaretAt == \A o : Caret(o).ins = o /\ Caret(o).bound = o
                         /\ Caret(o) = [ins |-> Caret(o).ins, bound |-> Caret(o).bound]
  BY DEF Caret

LEMMA DirectedAt ==
  ASSUME NEW v, NEW lo, NEW hi
  PROVE  /\ DirectedView(v, lo, hi)
              = [ins |-> DirectedView(v, lo, hi).ins, bound |-> DirectedView(v, lo, hi).bound]
         /\ DirectedView(v, lo, hi).ins \in {lo, hi} /\ DirectedView(v, lo, hi).bound \in {lo, hi}
  BY DEF DirectedView
-----------------------------------------------------------------------------
(* Texts mapped character by character.                                    *)

Mapped(t, f) == FlattenSeq([i \in DOMAIN t |-> f[t[i]]])

LEMMA MappedText ==
  ASSUME NEW t \in Texts, NEW f, \A c \in Chars : f[c] \in Texts
  PROVE  [i \in DOMAIN t |-> f[t[i]]] \in Seq(Texts) /\ Mapped(t, f) \in Texts
<1> DEFINE each == [i \in DOMAIN t |-> f[t[i]]]
<1>1. Len(t) \in Nat /\ DOMAIN t = 1 .. Len(t) /\ \A i \in 1 .. Len(t) : t[i] \in Chars
  BY SMT DEF Texts
<1>2. each \in Seq(Texts)
  <2> DEFINE E == Texts
  <2>1. \A i \in 1 .. Len(t) : f[t[i]] \in E
    BY <1>1
  <2> HIDE DEF E
  <2>2. each \in Seq(E)
    BY <1>1, <2>1, SMT
  <2> QED
    BY <2>2 DEF E
<1>3. FlattenSeq(each) \in Texts
  <2> HIDE DEF each
  <2>1. <<>> \in Seq(Chars)
    BY SMT
  <2> QED
    BY <1>2, <2>1, FlattenAppend DEF Texts
<1> QED
  BY <1>2, <1>3 DEF Mapped

LEMMA ConcatElements ==
  ASSUME NEW S, NEW a \in Seq(S), NEW b \in Seq(S), NEW c \in Seq(S), Len(c) = Len(a) + Len(b),
         \A i \in 1 .. Len(a) : c[i] = a[i], \A i \in 1 .. Len(b) : c[Len(a) + i] = b[i]
  PROVE  c = a \o b
<1>1. a \o b \in Seq(S) /\ Len(a \o b) = Len(c) /\ Len(a) \in Nat /\ Len(b) \in Nat
      /\ Len(c) \in Nat
  BY SMT
<1>2. \A i \in 1 .. Len(c) : c[i] = (a \o b)[i]
  <2> TAKE i \in 1 .. Len(c)
  <2>1. CASE i =< Len(a)
    <3>1. i \in 1 .. Len(a) /\ (a \o b)[i] = a[i]
      BY <1>1, <2>1, SMT
    <3> QED
      BY <3>1
  <2>2. CASE ~(i =< Len(a))
    <3> DEFINE k == i - Len(a)
    <3>1. k \in 1 .. Len(b) /\ Len(a) + k = i
      BY <1>1, <2>2, SMT
    <3> HIDE DEF k
    <3>2. (a \o b)[Len(a) + k] = b[k]
      BY <3>1, SMT
    <3>3. c[Len(a) + k] = b[k]
      BY <3>1
    <3> QED
      BY <3>1, <3>2, <3>3
  <2> QED
    BY <2>1, <2>2
<1> DEFINE d == a \o b
<1> HIDE DEF d
<1>3. d \in Seq(S) /\ Len(d) = Len(c) /\ \A i \in 1 .. Len(c) : c[i] = d[i]
  BY <1>1, <1>2 DEF d
<1>4. c = d
  BY <1>3, SMT
<1> QED
  BY <1>4 DEF d


LEMMA MappedJoin ==
  ASSUME NEW f, \A c \in Chars : f[c] \in Texts, NEW a \in Texts, NEW b \in Texts
  PROVE  Mapped(a \o b, f) = Mapped(a, f) \o Mapped(b, f)
<1> DEFINE each(t) == [i \in DOMAIN t |-> f[t[i]]]
           c == a \o b
<1>1. each(a) \in Seq(Texts) /\ each(b) \in Seq(Texts)
  BY MappedText
<1>2. /\ Len(a) \in Nat /\ DOMAIN a = 1 .. Len(a) /\ Len(b) \in Nat /\ DOMAIN b = 1 .. Len(b)
      /\ DOMAIN c = 1 .. Len(a) + Len(b)
      /\ \A i \in 1 .. Len(a) : c[i] = a[i]
      /\ \A i \in 1 .. Len(b) : c[Len(a) + i] = b[i]
  BY SMT DEF Texts
<1> HIDE DEF c
<1>3. /\ DOMAIN each(a) = 1 .. Len(a) /\ DOMAIN each(b) = 1 .. Len(b)
      /\ Len(each(a)) = Len(a) /\ Len(each(b)) = Len(b)
  <2>1. DOMAIN each(a) = 1 .. Len(a) /\ DOMAIN each(b) = 1 .. Len(b)
    BY <1>2
  <2> DEFINE ea == each(a)
             eb == each(b)
             E == Texts
  <2>2. ea \in Seq(E) /\ eb \in Seq(E) /\ DOMAIN ea = 1 .. Len(a) /\ DOMAIN eb = 1 .. Len(b)
    BY <1>1, <2>1
  <2> HIDE DEF ea, eb, E
  <2>3. Len(ea) = Len(a) /\ Len(eb) = Len(b)
    BY <1>2, <2>2, SMT
  <2> QED
    BY <2>1, <2>3 DEF ea, eb
<1>4. each(c) = each(a) \o each(b)
  <2>1. c \in Texts
    BY Glue DEF c
  <2>2. each(c) \in Seq(Texts) /\ DOMAIN each(c) = 1 .. Len(a) + Len(b)
    BY <1>2, <2>1, MappedText
  <2>3. \A i \in 1 .. Len(a) : each(c)[i] = each(a)[i]
    <3> TAKE i \in 1 .. Len(a)
    <3>1. i \in 1 .. Len(a) + Len(b)
      BY <1>2, SMT
    <3>2. each(c)[i] = f[c[i]] /\ each(a)[i] = f[a[i]] /\ c[i] = a[i]
      BY <1>2, <3>1
    <3> QED
      BY <3>2
  <2>4. \A i \in 1 .. Len(b) : each(c)[Len(a) + i] = each(b)[i]
    <3> TAKE i \in 1 .. Len(b)
    <3>1. Len(a) + i \in 1 .. Len(a) + Len(b)
      BY <1>2, SMT
    <3>2. each(c)[Len(a) + i] = f[c[Len(a) + i]] /\ each(b)[i] = f[b[i]] /\ c[Len(a) + i] = b[i]
      BY <1>2, <3>1
    <3> QED
      BY <3>2
  <2> DEFINE ea == each(a)
             eb == each(b)
             ec == each(c)
             E == Texts
  <2>5. /\ ea \in Seq(E) /\ eb \in Seq(E) /\ ec \in Seq(E)
        /\ DOMAIN ec = 1 .. Len(a) + Len(b) /\ Len(ea) = Len(a) /\ Len(eb) = Len(b)
        /\ \A i \in 1 .. Len(ea) : ec[i] = ea[i]
        /\ \A i \in 1 .. Len(eb) : ec[Len(ea) + i] = eb[i]
    BY <1>1, <1>3, <2>2, <2>3, <2>4
  <2> HIDE DEF ea, eb, ec, E
  <2>6. Len(ec) = Len(ea) + Len(eb)
    BY <1>2, <2>5, SMT
  <2>7. ec = ea \o eb
    BY <2>5, <2>6, ConcatElements
  <2> QED
    BY <2>7 DEF ea, eb, ec
<1>5. FlattenSeq(each(a) \o each(b)) = FlattenSeq(each(a)) \o FlattenSeq(each(b))
  <2> HIDE DEF each
  <2> QED
    BY <1>1, FlattenConcat DEF Texts
<1>6. Mapped(c, f) = FlattenSeq(each(c)) /\ Mapped(a, f) = FlattenSeq(each(a))
      /\ Mapped(b, f) = FlattenSeq(each(b))
  BY DEF Mapped
<1> HIDE DEF each
<1> QED
  BY <1>4, <1>5, <1>6 DEF c


LEMMA MappedNothing == \A f : Mapped(<<>>, f) = <<>>
<1> TAKE f
<1>1. [i \in DOMAIN <<>> |-> f[<<>>[i]]] = <<>>
  BY SMT
<1> QED
  BY <1>1, FlattenEmpty DEF Mapped

LEMMA MappedCharacter ==
  ASSUME NEW f, NEW c, f[c] \in Texts
  PROVE  Mapped(<<c>>, f) = f[c]
<1>1. [i \in DOMAIN <<c>> |-> f[<<c>>[i]]] = <<f[c]>>
  BY SMT
<1> QED
  BY <1>1, FlattenOne DEF Mapped, Texts

-----------------------------------------------------------------------------
(* Uppercase and Lowercase.                                                *)

LEMMA EachMapped ==
  ASSUME NEW t \in Texts, NEW cased \in [Chars -> UNION {[1 .. n -> Chars] : n \in 1 .. 3}]
  PROVE  FlattenSeq([i \in DOMAIN t |-> cased[t[i]]]) \in Texts
<1>1. \A c \in Chars : cased[c] \in Texts
  <2> TAKE c \in Chars
  <2>1. PICK n \in 1 .. 3 : cased[c] \in [1 .. n -> Chars]
    OBVIOUS
  <2> QED
    BY <2>1, SMT DEF Texts
<1> QED
  BY <1>1, MappedText DEF Mapped

LEMMA RecasedIsGood ==
  ASSUME NEW t \in Texts, NEW v \in ViewsOf(t),
         NEW cased \in [Chars -> UNION {[1 .. n -> Chars] : n \in 1 .. 3}]
  PROVE  GoodPlan(t, Recased(t, v, cased))
<1> DEFINE x == FlattenSeq([i \in DOMAIN Selected(t, v) |-> cased[Selected(t, v)[i]]])
           target == DirectedView(v, Low(v), Low(v) + Len(x))
<1>1. x \in Texts
  BY SelectedText, EachMapped
<1>2. Low(v) \in Nat /\ High(v) \in Nat /\ Low(v) =< High(v) /\ High(v) =< Len(t)
  BY SelectionEnds
<1>3. Recased(t, v, cased) =
        IF ~HasSelection(v) THEN NoChange(t, v)
        ELSE ReplacePlan(t, v, Low(v), High(v), x, target)
  BY DEF Recased
<1> HIDE DEF x
<1>4. target \in ViewsOf(Spliced(t, Low(v), High(v), x))
  <2>1. Len(x) \in Nat /\ Len(t) \in Nat
    BY <1>1, SMT DEF Texts
  <2>2. /\ Low(v) \in 0 .. Low(v) + Len(x) + (Len(t) - High(v))
        /\ Low(v) + Len(x) \in 0 .. Low(v) + Len(x) + (Len(t) - High(v))
    BY <1>2, <2>1, SMT
  <2>3. /\ target = [ins |-> target.ins, bound |-> target.bound]
        /\ target.ins \in {Low(v), Low(v) + Len(x)} /\ target.bound \in {Low(v), Low(v) + Len(x)}
    BY DirectedAt
  <2> HIDE DEF target
  <2> QED
    BY <1>1, <1>2, <2>2, <2>3, SplicedViews
<1> HIDE DEF target
<1>5. GoodPlan(t, ReplacePlan(t, v, Low(v), High(v), x, target))
  BY <1>1, <1>2, <1>4, ReplacePlanIsGood
<1> QED
  BY <1>3, <1>5, NoChangeIsGood
-----------------------------------------------------------------------------
(* Real lines.  A line ends before the next one starts.                    *)

LEMMA LinesInOrder ==
  ASSUME NEW t \in Texts, NEW s \in LineStarts(t)
  PROVE  /\ s \in Nat /\ s =< Len(t)
         /\ LineEnd(t, s) \in Nat /\ s =< LineEnd(t, s) /\ LineEnd(t, s) =< Len(t)
         /\ \A r \in LineStarts(t) : s < r => LineEnd(t, s) + 1 =< r
         /\ LineEnd(t, s) < Len(t) => LineEnd(t, s) + 1 \in LineStarts(t)
         /\ LineEnd(t, s) < Len(t) => t[LineEnd(t, s) + 1] = Newline
         /\ FullEnd(t, s) = IF LineEnd(t, s) < Len(t) THEN LineEnd(t, s) + 1 ELSE LineEnd(t, s)
         /\ FullEnd(t, s) \in Nat /\ LineEnd(t, s) =< FullEnd(t, s) /\ FullEnd(t, s) =< Len(t)
<1> DEFINE e == LineEnd(t, s)
<1>1. /\ Len(t) \in Nat /\ \A i \in Breaks(t) : i \in Nat /\ i < Len(t) /\ i + 1 \in LineStarts(t)
      /\ \A r \in LineStarts(t) : r \in 0 .. Len(t) /\ (r = 0 \/ r - 1 \in Breaks(t))
  BY BreaksAndStarts
<1>2. s \in Nat /\ s =< Len(t)
  BY <1>1, SMT
<1>3. e \in 0 .. Len(t) /\ s =< e /\ (\A i \in Breaks(t) : s =< i => e =< i)
      /\ (e < Len(t) => e \in Breaks(t))
  BY <1>2, LineEnds
<1> HIDE DEF e
<1>4. e \in Nat /\ e =< Len(t)
  BY <1>1, <1>3, SMT
<1>5. ASSUME NEW r \in LineStarts(t), s < r
      PROVE  e + 1 =< r
  <2>1. r \in Nat /\ r # 0 /\ r - 1 \in Breaks(t)
    BY <1>1, <1>2, <1>5, SMT
  <2>2. s =< r - 1
    BY <1>2, <1>5, <2>1, SMT
  <2>3. e =< r - 1
    BY <1>3, <2>1, <2>2
  <2> QED
    BY <1>4, <2>1, <2>3, SMT
<1>6. e < Len(t) => e + 1 \in LineStarts(t) /\ t[e + 1] = Newline
  BY <1>1, <1>3 DEF Breaks
<1>7. FullEnd(t, s) = IF e < Len(t) THEN e + 1 ELSE e
  <2>1. ~(e < Len(t)) => e = Len(t)
    BY <1>1, <1>4, SMT
  <2> QED
    BY <2>1 DEF FullEnd, e
<1>8. FullEnd(t, s) \in Nat /\ e =< FullEnd(t, s) /\ FullEnd(t, s) =< Len(t)
  BY <1>1, <1>4, <1>7, SMT
<1> QED
  BY <1>2, <1>3, <1>4, <1>5, <1>6, <1>7, <1>8 DEF e

LEMMA RealLinesAreLines ==
  ASSUME NEW t \in Texts
  PROVE  /\ 0 \in RealLines(t) /\ RealLines(t) \in SUBSET (0 .. Len(t))
         /\ \A s \in RealLines(t) : s \in LineStarts(t) /\ s \in Nat /\ (s = 0 \/ s < Len(t))
         /\ \A s \in LineStarts(t) : s < Len(t) => s \in RealLines(t)
<1>1. /\ Len(t) \in Nat /\ 0 \in LineStarts(t)
      /\ \A r \in LineStarts(t) : r \in 0 .. Len(t)
  BY BreaksAndStarts
<1>2. 0 \in 0 .. Len(t)
  BY <1>1, SMT
<1> QED
  BY <1>1, <1>2 DEF RealLines

LEMMA LineOfCharacter ==
  ASSUME NEW t \in Texts, NEW o \in Nat
  PROVE  /\ LineOfChar(t, o) \in RealLines(t) /\ LineOfChar(t, o) \in Nat /\ LineOfChar(t, o) =< o
         /\ \A s \in RealLines(t) : s =< o => s =< LineOfChar(t, o)
<1> DEFINE S == {s \in RealLines(t) : s =< o}
<1>1. 0 \in RealLines(t) /\ RealLines(t) \in SUBSET (0 .. Len(t)) /\ Len(t) \in Nat
      /\ \A s \in RealLines(t) : s \in Nat
  BY RealLinesAreLines, BreaksAndStarts
<1>2. S \in SUBSET (0 .. Len(t)) /\ S # {} /\ 0 =< o
  <2>1. 0 =< o
    BY SMT
  <2> QED
    BY <1>1, <2>1
<1>3. Max(S) \in S /\ \A y \in S : y =< Max(S)
  <2> HIDE DEF S
  <2> QED
    BY <1>1, <1>2, GreatestOf
<1> QED
  BY <1>1, <1>3 DEF LineOfChar
-----------------------------------------------------------------------------
(* Duplicate.                                                              *)

LEMMA InsertPlanIsGood ==
  ASSUME NEW t \in Texts, NEW v \in ViewsOf(t), NEW at \in Nat, at =< Len(t), NEW x \in Texts,
         NEW target, target = [ins |-> target.ins, bound |-> target.bound],
         target.ins \in Nat, target.ins =< Len(t) + Len(x),
         target.bound \in Nat, target.bound =< Len(t) + Len(x)
  PROVE  GoodPlan(t, InsertPlan(t, v, at, x, target))
<1>1. Len(t) \in Nat /\ Len(x) \in Nat
  BY SMT DEF Texts
<1>2. at + Len(x) + (Len(t) - at) = Len(t) + Len(x)
  BY <1>1, SMT
<1>3. /\ target.ins \in 0 .. at + Len(x) + (Len(t) - at)
      /\ target.bound \in 0 .. at + Len(x) + (Len(t) - at)
  BY <1>1, <1>2, SMT
<1>4. at =< at
  BY SMT
<1>5. target \in ViewsOf(Spliced(t, at, at, x))
  BY <1>3, <1>4, SplicedViews
<1> QED
  BY <1>4, <1>5, ReplacePlanIsGood DEF InsertPlan

LEMMA LineText ==
  ASSUME NEW t \in Texts, NEW s \in LineStarts(t)
  PROVE  /\ Line(t, s) \in Texts /\ Len(Line(t, s)) = LineEnd(t, s) - s
         /\ Line(t, s) = SubSeq(t, s + 1, LineEnd(t, s))
<1>1. /\ s \in Nat /\ s =< Len(t)
      /\ LineEnd(t, s) \in Nat /\ s =< LineEnd(t, s) /\ LineEnd(t, s) =< Len(t)
  BY LinesInOrder
<1> QED
  BY <1>1, TextInRangeType, RangeThatFits DEF Line

LEMMA OneCharacter ==
  ASSUME NEW c \in Chars
  PROVE  <<c>> \in Texts /\ Len(<<c>>) = 1
  BY SMT DEF Texts

LEMMA DuplicateIsGood ==
  ASSUME NEW t \in Texts, NEW v \in ViewsOf(t)
  PROVE  GoodPlan(t, Duplicate(t, v))
<1> DEFINE line == LineOfChar(t, v.ins)
           stop == FullEnd(t, line)
           terminated == LineEnd(t, line) < Len(t)
           copy == IF terminated THEN TextInRange(t, line, stop) ELSE <<Newline>> \o Line(t, line)
           copyStart == IF terminated THEN stop ELSE stop + 1
           x == Selected(t, v)
           S == {copyStart + v.ins - line, Len(t) + Len(copy)}
<1>1. /\ Len(t) \in Nat /\ v.ins \in Nat /\ v.ins =< Len(t)
      /\ Low(v) \in Nat /\ High(v) \in Nat /\ Low(v) =< High(v) /\ High(v) =< Len(t)
      /\ x \in Texts /\ Len(x) \in Nat
  <2>1. Len(t) \in Nat
    BY SMT DEF Texts
  <2>2. x \in Texts
    BY SelectedText
  <2>3. Len(x) \in Nat
    <3> HIDE DEF x
    <3> QED
      BY <2>2, SMT DEF Texts
  <2> QED
    BY <2>1, <2>2, <2>3, SelectionEnds
<1>2. <<Newline>> \in Texts /\ Len(<<Newline>>) = 1
  BY LinesAreSet, OneCharacter
<1>3. Duplicate(t, v) =
        IF HasSelection(v)
        THEN InsertPlan(t, v, High(v), x, DirectedView(v, High(v), High(v) + Len(x)))
        ELSE IF BehindFinalBreak(t, v.ins)
        THEN InsertPlan(t, v, Len(t), <<Newline>>, Caret(Len(t) + 1))
        ELSE InsertPlan(t, v, stop, copy, Caret(Min(S)))
  BY DEF Duplicate
<1>4. GoodPlan(t, InsertPlan(t, v, High(v), x, DirectedView(v, High(v), High(v) + Len(x))))
  <2> DEFINE target == DirectedView(v, High(v), High(v) + Len(x))
  <2> HIDE DEF x
  <2>1. /\ target = [ins |-> target.ins, bound |-> target.bound]
        /\ target.ins \in {High(v), High(v) + Len(x)} /\ target.bound \in {High(v), High(v) + Len(x)}
    BY DirectedAt
  <2> HIDE DEF target
  <2>2. /\ target.ins \in Nat /\ target.ins =< Len(t) + Len(x)
        /\ target.bound \in Nat /\ target.bound =< Len(t) + Len(x)
    BY <1>1, <2>1, SMT
  <2>3. GoodPlan(t, InsertPlan(t, v, High(v), x, target))
    BY <1>1, <2>1, <2>2, InsertPlanIsGood
  <2> QED
    BY <2>3 DEF target
<1>5. GoodPlan(t, InsertPlan(t, v, Len(t), <<Newline>>, Caret(Len(t) + 1)))
  <2> DEFINE target == Caret(Len(t) + 1)
             nl == <<Newline>>
  <2>1. /\ target = [ins |-> target.ins, bound |-> target.bound]
        /\ target.ins = Len(t) + 1 /\ target.bound = Len(t) + 1
    BY CaretAt
  <2>2. Len(t) + 1 \in Nat /\ Len(t) + 1 =< Len(t) + 1 /\ Len(t) =< Len(t)
    BY <1>1, SMT
  <2>3. nl \in Texts /\ Len(nl) = 1
    BY <1>2
  <2> HIDE DEF target, nl
  <2>4. GoodPlan(t, InsertPlan(t, v, Len(t), nl, target))
    BY <1>1, <2>1, <2>2, <2>3, InsertPlanIsGood
  <2> QED
    BY <2>4 DEF target, nl
<1>6. GoodPlan(t, InsertPlan(t, v, stop, copy, Caret(Min(S))))
  <2>1. line \in LineStarts(t) /\ line \in Nat /\ line =< v.ins
    BY <1>1, LineOfCharacter, RealLinesAreLines
  <2>2. /\ stop \in Nat /\ stop =< Len(t) /\ line =< stop
    <3> HIDE DEF line
    <3>1. /\ LineEnd(t, line) \in Nat /\ line =< LineEnd(t, line)
          /\ FullEnd(t, line) \in Nat /\ LineEnd(t, line) =< FullEnd(t, line)
          /\ FullEnd(t, line) =< Len(t)
      BY <2>1, LinesInOrder
    <3> QED
      BY <2>1, <3>1, SMT
  <2>3. copy \in Texts
    <3>1. TextInRange(t, line, stop) \in Texts
      <4> HIDE DEF line, stop
      <4> QED
        BY <2>1, <2>2, TextInRangeType
    <3>2. <<Newline>> \o Line(t, line) \in Texts
      <4> HIDE DEF line
      <4>1. Line(t, line) \in Texts
        BY <2>1, LineText
      <4> QED
        BY <1>2, <4>1, Glue
    <3> QED
      BY <3>1, <3>2
  <2>4. copyStart \in Nat
    <3> HIDE DEF stop
    <3> QED
      BY <2>2, SMT
  <2> HIDE DEF line, stop, copy, copyStart
  <2>5. Len(copy) \in Nat
    BY <2>3, SMT DEF Texts
  <2>6. S \in SUBSET Nat /\ S # {} /\ Len(t) + Len(copy) \in S
    BY <1>1, <2>1, <2>4, <2>5, SMT
  <2> HIDE DEF S
  <2>7. Min(S) \in Nat /\ Min(S) =< Len(t) + Len(copy)
    BY <2>6, LeastOf
  <2> DEFINE target == Caret(Min(S))
  <2>8. /\ target = [ins |-> target.ins, bound |-> target.bound]
        /\ target.ins = Min(S) /\ target.bound = Min(S)
    BY CaretAt
  <2> HIDE DEF target
  <2>9. GoodPlan(t, InsertPlan(t, v, stop, copy, target))
    BY <2>2, <2>3, <2>7, <2>8, InsertPlanIsGood
  <2> QED
    BY <2>9 DEF target
<1> QED
  BY <1>3, <1>4, <1>5, <1>6
-----------------------------------------------------------------------------
(* Move Lines.                                                             *)

LEMMA ScopeIsLines ==
  ASSUME NEW t \in Texts, NEW v \in ViewsOf(t), Scope(t, v) # NoScope
  PROVE  /\ Scope(t, v) = <<Scope(t, v)[1], Scope(t, v)[2]>>
         /\ Scope(t, v)[1] \in RealLines(t) /\ Scope(t, v)[2] \in RealLines(t)
         /\ Scope(t, v)[1] \in Nat /\ Scope(t, v)[2] \in Nat
         /\ Scope(t, v)[1] =< Scope(t, v)[2]
<1>1. /\ v.ins \in Nat /\ Low(v) \in Nat /\ High(v) \in Nat /\ Low(v) =< High(v)
      /\ HasSelection(v) => Low(v) < High(v)
  BY SelectionEnds
<1>2. CASE HasSelection(v)
  <2> DEFINE a == LineOfChar(t, Low(v))
             b == LineOfChar(t, High(v) - 1)
  <2>1. Scope(t, v) = <<a, b>>
    BY <1>2 DEF Scope
  <2>2. High(v) - 1 \in Nat /\ Low(v) =< High(v) - 1
    BY <1>1, <1>2, SMT
  <2>3. /\ a \in RealLines(t) /\ a \in Nat /\ a =< Low(v)
        /\ b \in RealLines(t) /\ b \in Nat /\ b =< High(v) - 1
        /\ \A s \in RealLines(t) : s =< High(v) - 1 => s =< b
    BY <1>1, <2>2, LineOfCharacter
  <2> HIDE DEF a, b
  <2>4. a =< High(v) - 1
    BY <1>1, <2>2, <2>3, SMT
  <2>5. a =< b
    BY <2>3, <2>4
  <2> QED
    BY <2>1, <2>3, <2>5
<1>3. CASE ~HasSelection(v)
  <2> DEFINE a == LineOfChar(t, v.ins)
  <2>1. Scope(t, v) = <<a, a>>
    BY <1>3 DEF Scope
  <2>2. a \in RealLines(t) /\ a \in Nat
    BY <1>1, LineOfCharacter
  <2> HIDE DEF a
  <2>3. a =< a
    BY <2>2, SMT
  <2> QED
    BY <2>1, <2>2, <2>3
<1> QED
  BY <1>2, <1>3

(* The line above starts where the line before ends, with its break.       *)
LEMMA LineAbove ==
  ASSUME NEW t \in Texts, NEW a \in RealLines(t), {s \in RealLines(t) : s < a} # {}
  PROVE  LET n == Max({s \in RealLines(t) : s < a})
         IN  n \in RealLines(t) /\ LineEnd(t, n) + 1 = a /\ LineEnd(t, n) < Len(t)
<1> DEFINE S == {s \in RealLines(t) : s < a}
           n == Max(S)
<1>1. /\ Len(t) \in Nat /\ RealLines(t) \in SUBSET (0 .. Len(t))
      /\ \A s \in RealLines(t) : s \in LineStarts(t) /\ s \in Nat /\ (s = 0 \/ s < Len(t))
      /\ \A s \in LineStarts(t) : s < Len(t) => s \in RealLines(t)
  BY BreaksAndStarts, RealLinesAreLines
<1>2. n \in S /\ \A y \in S : y =< n
  <2>1. S \in SUBSET (0 .. Len(t)) /\ S # {}
    BY <1>1
  <2> HIDE DEF S
  <2> QED
    BY <1>1, <2>1, GreatestOf
<1>3. n \in RealLines(t) /\ n < a
  BY <1>2
<1> HIDE DEF n
<1>4. n \in LineStarts(t) /\ n \in Nat /\ a \in LineStarts(t) /\ a \in Nat /\ a < Len(t)
  BY <1>1, <1>3, SMT
<1> DEFINE e == LineEnd(t, n)
<1>5. /\ e \in Nat /\ n =< e /\ e + 1 =< a /\ (e < Len(t) => e + 1 \in LineStarts(t))
  BY <1>3, <1>4, LinesInOrder
<1> HIDE DEF e
<1>6. e < Len(t) /\ e + 1 < Len(t) /\ n < e + 1 /\ e + 1 \in Nat
  BY <1>1, <1>4, <1>5, SMT
<1>7. e + 1 \in RealLines(t)
  BY <1>1, <1>5, <1>6
<1>8. ~(e + 1 < a)
  <2> SUFFICES ASSUME e + 1 < a
               PROVE  FALSE
    OBVIOUS
  <2>1. e + 1 =< n
    BY <1>2, <1>7
  <2> QED
    BY <1>4, <1>6, <2>1, SMT
<1>9. e + 1 = a
  BY <1>4, <1>5, <1>6, <1>8, SMT
<1> QED
  BY <1>3, <1>6, <1>9 DEF n, e

LEMMA LineBelow ==
  ASSUME NEW t \in Texts, NEW b \in RealLines(t), {s \in RealLines(t) : s > b} # {}
  PROVE  LET n == Min({s \in RealLines(t) : s > b})
         IN  n \in RealLines(t) /\ LineEnd(t, b) + 1 = n /\ LineEnd(t, b) < Len(t)
<1> DEFINE S == {s \in RealLines(t) : s > b}
           n == Min(S)
<1>1. /\ Len(t) \in Nat /\ RealLines(t) \in SUBSET (0 .. Len(t))
      /\ \A s \in RealLines(t) : s \in LineStarts(t) /\ s \in Nat /\ (s = 0 \/ s < Len(t))
      /\ \A s \in LineStarts(t) : s < Len(t) => s \in RealLines(t)
  BY BreaksAndStarts, RealLinesAreLines
<1>2. n \in S /\ \A y \in S : n =< y
  <2>1. S \in SUBSET Nat /\ S # {}
    BY <1>1
  <2> HIDE DEF S
  <2> QED
    BY <2>1, LeastOf
<1>3. n \in RealLines(t) /\ n > b
  BY <1>2
<1> HIDE DEF n
<1>4. n \in LineStarts(t) /\ n \in Nat /\ b \in LineStarts(t) /\ b \in Nat /\ n < Len(t) /\ b < n
  BY <1>1, <1>3, SMT
<1> DEFINE e == LineEnd(t, b)
<1>5. /\ e \in Nat /\ b =< e /\ e + 1 =< n /\ (e < Len(t) => e + 1 \in LineStarts(t))
  BY <1>3, <1>4, LinesInOrder
<1> HIDE DEF e
<1>6. e < Len(t) /\ e + 1 < Len(t) /\ e + 1 > b /\ e + 1 \in Nat
  BY <1>1, <1>4, <1>5, SMT
<1>7. e + 1 \in RealLines(t)
  BY <1>1, <1>5, <1>6
<1>8. n =< e + 1
  BY <1>2, <1>6, <1>7
<1>9. e + 1 = n
  BY <1>4, <1>5, <1>6, <1>8, SMT
<1> QED
  BY <1>3, <1>6, <1>9 DEF n, e

(* Whether a line has a break, read at its full end.                       *)
LEMMA BreakAtFullEnd ==
  ASSUME NEW t \in Texts, t # <<>>, NEW s \in RealLines(t)
  PROVE  t[FullEnd(t, s)] = Newline <=> LineEnd(t, s) < Len(t)
<1>1. Len(t) \in Nat \ {0}
  BY SMT DEF Texts
<1>2. s \in LineStarts(t) /\ s \in Nat /\ (s = 0 \/ s < Len(t))
  BY RealLinesAreLines
<1> DEFINE e == LineEnd(t, s)
<1>3. /\ e \in Nat /\ e =< Len(t)
      /\ e < Len(t) => t[e + 1] = Newline
      /\ FullEnd(t, s) = IF e < Len(t) THEN e + 1 ELSE e
  BY <1>2, LinesInOrder
<1>4. \A i \in Breaks(t) : s =< i => e =< i
  BY <1>2, LineEnds
<1> HIDE DEF e
<1>5. ASSUME ~(e < Len(t)), t[FullEnd(t, s)] = Newline
      PROVE  FALSE
  <2>1. FullEnd(t, s) = Len(t) /\ e = Len(t) /\ Len(t) - 1 \in 0 .. Len(t) - 1
        /\ (Len(t) - 1) + 1 = Len(t) /\ s =< Len(t) - 1
    BY <1>1, <1>2, <1>3, <1>5, SMT
  <2>2. Len(t) - 1 \in Breaks(t)
    BY <1>5, <2>1 DEF Breaks
  <2>3. e =< Len(t) - 1
    BY <1>4, <2>1, <2>2
  <2> QED
    BY <1>1, <2>1, <2>3, SMT
<1> QED
  BY <1>3, <1>5 DEF e

LEMMA JoinedText ==
  ASSUME NEW t \in Texts, NEW region, NEW above \in Texts, NEW below \in Texts
  PROVE  /\ Joined(t, region, above, below) \in Texts
         /\ Len(above) \in Nat /\ Len(below) \in Nat
         /\ Len(Joined(t, region, above, below)) =
              Len(above) + 1 + Len(below) + (IF t[region[2]] = Newline THEN 1 ELSE 0)
<1> DEFINE nl == <<Newline>>
           tail == IF t[region[2]] = Newline THEN <<Newline>> ELSE <<>>
           up == above \o nl
           both == up \o below
<1>1. nl \in Texts /\ Len(nl) = 1
  BY LinesAreSet, OneCharacter
<1>2. tail \in Texts /\ Len(tail) = IF t[region[2]] = Newline THEN 1 ELSE 0
  <2>1. <<>> \in Texts /\ Len(<<>>) = 0
    BY SMT DEF Texts
  <2> QED
    BY <1>1, <2>1
<1>3. Joined(t, region, above, below) = both \o tail
  BY DEF Joined
<1> HIDE DEF nl, tail
<1>4. up \in Texts /\ Len(above) \in Nat /\ Len(up) = Len(above) + 1
  BY <1>1, Glue
<1> HIDE DEF up
<1>5. both \in Texts /\ Len(below) \in Nat /\ Len(both) = Len(up) + Len(below)
  BY <1>4, Glue
<1> HIDE DEF both
<1>6. both \o tail \in Texts /\ Len(both \o tail) = Len(both) + Len(tail)
  BY <1>2, <1>5, Glue
<1> QED
  BY <1>2, <1>3, <1>4, <1>5, <1>6

IsJoined(x, t, region, above, below) ==
  /\ x \in Texts
  /\ Len(x) = Len(above) + 1 + Len(below) + (IF t[region[2]] = Newline THEN 1 ELSE 0)

LEMMA JoinedIs ==
  ASSUME NEW t \in Texts, NEW region, NEW above \in Texts, NEW below \in Texts
  PROVE  IsJoined(Joined(t, region, above, below), t, region, above, below)
  BY JoinedText DEF IsJoined

(* A region replaced by a text that is as long.                            *)
LEMMA RegionReplacedIsGood ==
  ASSUME NEW t \in Texts, NEW v \in ViewsOf(t), NEW start \in Nat, NEW stop \in Nat,
         start =< stop, stop =< Len(t), NEW x \in Texts, Len(x) = stop - start,
         NEW target, target = [ins |-> target.ins, bound |-> target.bound],
         target.ins \in 0 .. Len(t), target.bound \in 0 .. Len(t)
  PROVE  GoodPlan(t, ReplacePlan(t, v, start, stop, x, target))
<1>1. start + Len(x) + (Len(t) - stop) = Len(t)
  <2> DEFINE l == Len(t)
             k == Len(x)
  <2>1. l \in Nat /\ k = stop - start /\ stop =< l
    BY SMT DEF Texts
  <2> HIDE DEF l, k
  <2>2. start + k + (l - stop) = l
    BY <2>1, SMT
  <2> QED
    BY <2>2 DEF l, k
<1>2. target \in ViewsOf(Spliced(t, start, stop, x))
  BY <1>1, SplicedViews
<1> QED
  BY <1>2, ReplacePlanIsGood

(* Two neighbouring ranges of lines, as Move Lines exchanges them: the     *)
(* upper ends before the lower starts, and the lower ends in line s.       *)
LEMMA ExchangedIsAsLong ==
  ASSUME NEW t \in Texts, NEW a \in LineStarts(t), NEW e \in Nat, a =< e,
         NEW b \in Nat, e + 1 = b, NEW s \in RealLines(t), b =< s
  PROVE  LET stop == FullEnd(t, s)
             upper == TextInRange(t, a, e)
             lower == TextInRange(t, b, LineEnd(t, s))
         IN  /\ a \in Nat /\ stop \in Nat /\ a =< stop /\ stop =< Len(t) /\ a =< e /\ e =< Len(t)
             /\ LineEnd(t, s) \in Nat /\ b =< LineEnd(t, s) /\ LineEnd(t, s) =< stop
             /\ upper \in Texts /\ Len(upper) = e - a
             /\ lower \in Texts /\ Len(lower) = LineEnd(t, s) - b
             /\ Joined(t, <<a, stop>>, lower, upper) \in Texts
             /\ Len(Joined(t, <<a, stop>>, lower, upper)) = stop - a
<1> DEFINE stop == FullEnd(t, s)
           upper == TextInRange(t, a, e)
           lower == TextInRange(t, b, LineEnd(t, s))
           last == LineEnd(t, s)
           region == <<a, stop>>
<1>1. a \in Nat
  BY LinesInOrder
<1>2. s \in LineStarts(t)
  BY RealLinesAreLines
<1>3. /\ s \in Nat /\ s =< Len(t) /\ last \in Nat /\ s =< last /\ last =< Len(t)
      /\ stop = IF last < Len(t) THEN last + 1 ELSE last
      /\ stop \in Nat /\ last =< stop /\ stop =< Len(t)
  BY <1>2, LinesInOrder
<1>4. t # <<>> /\ Len(t) \in Nat
  <2>1. Len(t) \in Nat /\ (t = <<>> => Len(t) = 0)
    BY SMT DEF Texts
  <2>2. Len(t) # 0
    <3> HIDE DEF last, stop
    <3> QED
      BY <1>1, <1>3, <2>1, SMT
  <2> QED
    BY <2>1, <2>2
<1>5. t[stop] = Newline <=> last < Len(t)
  BY <1>4, BreakAtFullEnd
<1> HIDE DEF last, stop
<1>6. b =< last /\ e =< Len(t) /\ a =< stop
  BY <1>1, <1>3, <1>4, SMT
<1>7. upper \in Texts /\ Len(upper) = e - a
  BY <1>1, <1>6, TextInRangeType
<1>8. lower \in Texts /\ Len(lower) = last - b
  BY <1>3, <1>6, TextInRangeType DEF last
<1> HIDE DEF upper, lower
<1>9. /\ Joined(t, region, lower, upper) \in Texts
      /\ Len(Joined(t, region, lower, upper)) =
           Len(lower) + 1 + Len(upper) + (IF t[region[2]] = Newline THEN 1 ELSE 0)
  <2> HIDE DEF region
  <2>1. IsJoined(Joined(t, region, lower, upper), t, region, lower, upper)
    BY <1>7, <1>8, JoinedIs
  <2> QED
    BY <2>1 DEF IsJoined
<1>10. region[2] = stop
  OBVIOUS
<1> HIDE DEF region
<1>11. Len(Joined(t, region, lower, upper)) = stop - a
  <2>1. CASE last < Len(t)
    BY <1>1, <1>3, <1>5, <1>7, <1>8, <1>9, <1>10, <2>1, SMT
  <2>2. CASE ~(last < Len(t))
    BY <1>1, <1>3, <1>5, <1>7, <1>8, <1>9, <1>10, <2>2, SMT
  <2> QED
    BY <2>1, <2>2
<1> QED
  BY <1>1, <1>3, <1>6, <1>7, <1>8, <1>9, <1>11 DEF last, stop, upper, lower, region
LEMMA MovedWithin ==
  ASSUME NEW t \in Texts, NEW v \in ViewsOf(t), NEW block, NEW shift, NEW blockEnd,
         blockEnd \in 0 .. Len(t), block[1] \in Nat, LineEnd(t, block[2]) \in Nat,
         \A o \in Nat : block[1] =< o /\ o =< LineEnd(t, block[2]) => o + shift \in 0 .. Len(t)
  PROVE  LET target == MovedView(t, v, block, shift, blockEnd)
         IN  /\ target = [ins |-> target.ins, bound |-> target.bound]
             /\ target.ins \in 0 .. Len(t) /\ target.bound \in 0 .. Len(t)
<1>1. /\ v.ins \in Nat /\ v.ins \in 0 .. Len(t) /\ v.bound \in Nat /\ v.bound \in 0 .. Len(t)
  BY SMT DEF ViewsOf
<1>2. ASSUME NEW o \in Nat, o \in 0 .. Len(t)
      PROVE  MovedTo(t, o, v, block, shift, blockEnd) \in 0 .. Len(t)
  <2>1. CASE HasSelection(v) /\ o = FullEnd(t, block[2])
    BY <2>1 DEF MovedTo
  <2>2. CASE ~(HasSelection(v) /\ o = FullEnd(t, block[2])) /\ block[1] =< o /\ o =< LineEnd(t, block[2])
    <3>1. MovedTo(t, o, v, block, shift, blockEnd) = o + shift
      BY <2>2 DEF MovedTo
    <3> QED
      BY <2>2, <3>1
  <2>3. CASE ~(HasSelection(v) /\ o = FullEnd(t, block[2])) /\ ~(block[1] =< o /\ o =< LineEnd(t, block[2]))
    <3>1. MovedTo(t, o, v, block, shift, blockEnd) = o
      BY <2>3 DEF MovedTo
    <3> QED
      BY <1>2, <3>1
  <2> QED
    BY <2>1, <2>2, <2>3
<1> DEFINE i == MovedTo(t, v.ins, v, block, shift, blockEnd)
           j == MovedTo(t, v.bound, v, block, shift, blockEnd)
<1>3. i \in 0 .. Len(t) /\ j \in 0 .. Len(t)
  BY <1>1, <1>2
<1>4. MovedView(t, v, block, shift, blockEnd) = [ins |-> i, bound |-> j]
  BY DEF MovedView
<1> HIDE DEF i, j
<1> QED
  BY <1>3, <1>4

LEMMA MoveUpIsGood ==
  ASSUME NEW t \in Texts, NEW v \in ViewsOf(t)
  PROVE  GoodPlan(t, MoveUp(t, v))
<1> DEFINE block == Scope(t, v)
           S == {s \in RealLines(t) : s < block[1]}
           n == Max(S)
           a == block[1]
           b == block[2]
           e == LineEnd(t, n)
           last == LineEnd(t, b)
           stop == FullEnd(t, b)
           x == Joined(t, <<n, stop>>, BlockText(t, block), Line(t, n))
           blockEnd == n + Len(BlockText(t, block)) + 1
           target == MovedView(t, v, block, n - a, blockEnd)
<1>1. CASE block = NoScope \/ S = {}
  <2>1. MoveUp(t, v) = NoChange(t, v)
    BY <1>1 DEF MoveUp
  <2> QED
    BY <2>1, NoChangeIsGood
<1>2. CASE ~(block = NoScope \/ S = {})
  <2>1. MoveUp(t, v) = ReplacePlan(t, v, n, stop, x, target)
    BY <1>2 DEF MoveUp, UpPast
  <2>2. /\ a \in RealLines(t) /\ b \in RealLines(t) /\ a \in Nat /\ b \in Nat /\ a =< b
    BY <1>2, ScopeIsLines
  <2>3. n \in RealLines(t) /\ e + 1 = a /\ e < Len(t)
    <3>1. a \in RealLines(t) /\ {s \in RealLines(t) : s < a} # {}
      BY <1>2, <2>2
    <3> HIDE DEF a
    <3> QED
      BY <3>1, LineAbove DEF a
  <2>4. BlockText(t, block) = TextInRange(t, a, last) /\ Line(t, n) = TextInRange(t, n, e)
    BY DEF BlockText, Line
  <2> HIDE DEF block, S, n, a, b
  <2>5. n \in LineStarts(t) /\ e \in Nat /\ n =< e
    BY <2>3, RealLinesAreLines, LinesInOrder
  <2>6. /\ n \in Nat /\ stop \in Nat /\ n =< stop /\ stop =< Len(t)
        /\ last \in Nat /\ a =< last /\ last =< stop
        /\ Len(TextInRange(t, a, last)) = last - a
        /\ Joined(t, <<n, stop>>, TextInRange(t, a, last), TextInRange(t, n, e)) \in Texts
        /\ Len(Joined(t, <<n, stop>>, TextInRange(t, a, last), TextInRange(t, n, e))) = stop - n
    <3> HIDE DEF e
    <3> QED
      BY <2>2, <2>3, <2>5, ExchangedIsAsLong
  <2>7. x \in Texts /\ Len(x) = stop - n
    BY <2>4, <2>6
  <2>8. blockEnd = n + (last - a) + 1
    BY <2>4, <2>6
  <2> HIDE DEF x, blockEnd, e, stop
  <2>9. Len(t) \in Nat
    BY SMT DEF Texts
  <2>10. blockEnd \in 0 .. Len(t)
    <3> DEFINE l == Len(t)
               z == last
    <3>1. /\ e + 1 = a /\ n =< e /\ blockEnd = n + (z - a) + 1 /\ n \in Nat /\ e \in Nat
          /\ l \in Nat /\ z \in Nat /\ a =< z /\ z =< l
      <4>1. stop \in Nat /\ stop =< l /\ z =< stop /\ z \in Nat /\ l \in Nat
        BY <2>6, <2>9
      <4> HIDE DEF l, z
      <4>2. z =< l
        BY <4>1, SMT
      <4> QED
        BY <2>3, <2>5, <2>6, <2>8, <4>1, <4>2 DEF z
    <3> HIDE DEF l, z
    <3>2. blockEnd \in 0 .. l
      BY <2>2, <3>1, SMT
    <3> QED
      BY <3>2 DEF l
  <2>11. \A o \in Nat : a =< o /\ o =< last => o + (n - a) \in 0 .. Len(t)
    <3> HIDE DEF last
    <3> QED
      BY <2>2, <2>3, <2>5, <2>6, <2>9, SMT
  <2>12. /\ target = [ins |-> target.ins, bound |-> target.bound]
         /\ target.ins \in 0 .. Len(t) /\ target.bound \in 0 .. Len(t)
    <3>1. block[1] = a /\ block[2] = b
      BY DEF a, b
    <3> QED
      BY <2>2, <2>6, <2>10, <2>11, <3>1, MovedWithin
  <2> HIDE DEF target
  <2>13. GoodPlan(t, ReplacePlan(t, v, n, stop, x, target))
    BY <2>6, <2>7, <2>12, RegionReplacedIsGood
  <2> QED
    BY <2>1, <2>13
<1> QED
  BY <1>1, <1>2

LEMMA MoveDownIsGood ==
  ASSUME NEW t \in Texts, NEW v \in ViewsOf(t)
  PROVE  GoodPlan(t, MoveDown(t, v))
<1> DEFINE block == Scope(t, v)
           S == {s \in RealLines(t) : s > block[2]}
           n == Min(S)
           a == block[1]
           b == block[2]
           e == LineEnd(t, b)
           last == LineEnd(t, n)
           stop == FullEnd(t, n)
           x == Joined(t, <<a, stop>>, Line(t, n), BlockText(t, block))
           shift == Len(Line(t, n)) + 1
           target == MovedView(t, v, block, shift, stop)
<1>1. CASE block = NoScope \/ S = {}
  <2>1. MoveDown(t, v) = NoChange(t, v)
    BY <1>1 DEF MoveDown
  <2> QED
    BY <2>1, NoChangeIsGood
<1>2. CASE ~(block = NoScope \/ S = {})
  <2>1. MoveDown(t, v) = ReplacePlan(t, v, a, stop, x, target)
    BY <1>2 DEF MoveDown, DownPast
  <2>2. /\ a \in RealLines(t) /\ b \in RealLines(t) /\ a \in Nat /\ b \in Nat /\ a =< b
    BY <1>2, ScopeIsLines
  <2>3. n \in RealLines(t) /\ e + 1 = n /\ e < Len(t)
    <3>1. b \in RealLines(t) /\ {s \in RealLines(t) : s > b} # {}
      BY <1>2, <2>2
    <3> HIDE DEF b
    <3> QED
      BY <3>1, LineBelow DEF b
  <2>4. BlockText(t, block) = TextInRange(t, a, e) /\ Line(t, n) = TextInRange(t, n, last)
    BY DEF BlockText, Line
  <2> HIDE DEF block, S, n, a, b
  <2>5. a \in LineStarts(t) /\ b \in LineStarts(t) /\ n \in LineStarts(t) /\ n \in Nat
    BY <2>2, <2>3, RealLinesAreLines
  <2>6. e \in Nat /\ b =< e
    BY <2>5, LinesInOrder
  <2>7. a =< e /\ n =< n
    <3> HIDE DEF e
    <3> QED
      BY <2>2, <2>5, <2>6, SMT
  <2>8. /\ stop \in Nat /\ a =< stop /\ stop =< Len(t)
        /\ last \in Nat /\ n =< last /\ last =< stop
        /\ Len(TextInRange(t, n, last)) = last - n
        /\ Joined(t, <<a, stop>>, TextInRange(t, n, last), TextInRange(t, a, e)) \in Texts
        /\ Len(Joined(t, <<a, stop>>, TextInRange(t, n, last), TextInRange(t, a, e))) = stop - a
    <3> HIDE DEF e
    <3> QED
      BY <2>3, <2>5, <2>6, <2>7, ExchangedIsAsLong
  <2>9. x \in Texts /\ Len(x) = stop - a
    BY <2>4, <2>8
  <2>10. shift = (last - n) + 1
    BY <2>4, <2>8
  <2> HIDE DEF x, shift, last, stop
  <2>11. Len(t) \in Nat
    BY SMT DEF Texts
  <2>12. stop \in 0 .. Len(t)
    BY <2>8, <2>11, SMT
  <2>13. \A o \in Nat : a =< o /\ o =< e => o + shift \in 0 .. Len(t)
    <3> HIDE DEF e
    <3> QED
      BY <2>2, <2>3, <2>5, <2>6, <2>8, <2>10, <2>11, SMT
  <2>14. /\ target = [ins |-> target.ins, bound |-> target.bound]
         /\ target.ins \in 0 .. Len(t) /\ target.bound \in 0 .. Len(t)
    <3>1. block[1] = a /\ block[2] = b
      BY DEF a, b
    <3> QED
      BY <2>2, <2>6, <2>12, <2>13, <3>1, MovedWithin
  <2> HIDE DEF target
  <2>15. GoodPlan(t, ReplacePlan(t, v, a, stop, x, target))
    BY <2>2, <2>8, <2>9, <2>14, RegionReplacedIsGood
  <2> QED
    BY <2>1, <2>15
<1> QED
  BY <1>1, <1>2
-----------------------------------------------------------------------------
(* Trim.                                                                   *)

LEMMA TrailingRuns ==
  ASSUME NEW t \in Texts, NEW s \in LineStarts(t)
  PROVE  /\ TrailingRun(t, s) = <<TrailingRun(t, s)[1], LineEnd(t, s)>>
         /\ TrailingRun(t, s)[1] \in Nat /\ s =< TrailingRun(t, s)[1]
         /\ TrailingRun(t, s)[1] =< LineEnd(t, s)
         /\ \A i \in TrailingRun(t, s)[1] + 1 .. LineEnd(t, s) : t[i] \in Blanks
         /\ \A k \in s .. LineEnd(t, s) :
              (\A i \in k + 1 .. LineEnd(t, s) : t[i] \in Blanks) => TrailingRun(t, s)[1] =< k
<1> DEFINE e == LineEnd(t, s)
           S == {k \in s .. e : \A i \in k + 1 .. e : t[i] \in Blanks}
<1>1. s \in Nat /\ e \in Nat /\ s =< e
  BY LinesInOrder
<1>2. TrailingRun(t, s) = <<Min(S), e>>
  BY DEF TrailingRun
<1> HIDE DEF e
<1>3. S \in SUBSET Nat /\ S # {}
  <2>1. \A k \in s .. e : k \in Nat
    BY <1>1, SMT
  <2>2. e \in s .. e /\ e + 1 .. e = {}
    BY <1>1, SMT
  <2>3. e \in S
    BY <2>2
  <2> QED
    BY <2>1, <2>3
<1> DEFINE m == Min(S)
<1>4. m \in S /\ m \in Nat /\ \A y \in S : m =< y
  <2> HIDE DEF S
  <2> QED
    BY <1>3, LeastOf
<1>5. s =< m /\ m =< e /\ \A i \in m + 1 .. e : t[i] \in Blanks
  BY <1>4
<1> HIDE DEF m
<1>6. \A k \in s .. e : (\A i \in k + 1 .. e : t[i] \in Blanks) => m =< k
  BY <1>4
<1> QED
  BY <1>2, <1>4, <1>5, <1>6 DEF m, e

LEMMA RunsInOrder ==
  ASSUME NEW t \in Texts, NEW v \in ViewsOf(t)
  PROVE  InOrder(Runs(t, v), 0, Len(t))
<1> DEFINE S == {s \in TrimmedLines(t, v) : TrailingRun(t, s)[1] < TrailingRun(t, s)[2]}
           lines == Ascending(S)
           runs == [i \in DOMAIN lines |-> TrailingRun(t, lines[i])]
<1>1. Runs(t, v) = runs
  BY DEF Runs
<1>2. Len(t) \in Nat /\ S \in SUBSET (0 .. Len(t)) /\ S \subseteq LineStarts(t)
  <2>1. Len(t) \in Nat
    BY SMT DEF Texts
  <2>2. /\ RealLines(t) \in SUBSET (0 .. Len(t))
        /\ \A s \in RealLines(t) : s \in LineStarts(t)
    BY RealLinesAreLines
  <2>3. TrimmedLines(t, v) \subseteq RealLines(t)
    BY DEF TrimmedLines
  <2> QED
    BY <2>1, <2>2, <2>3
<1> HIDE DEF S
<1>3. /\ lines \in Seq(Nat) /\ \A i \in DOMAIN lines : lines[i] \in S
      /\ \A i, j \in DOMAIN lines : i < j => lines[i] < lines[j]
  BY <1>2, AscendingLists
<1> HIDE DEF lines
<1>4. DOMAIN runs = DOMAIN lines /\ \A i \in DOMAIN lines : runs[i] = TrailingRun(t, lines[i])
  OBVIOUS
<1>5. ASSUME NEW i \in DOMAIN lines
      PROVE  /\ runs[i] \in Nat \X Nat
             /\ runs[i][1] \in Nat /\ 0 =< runs[i][1] /\ runs[i][1] =< runs[i][2]
             /\ runs[i][2] =< Len(t) /\ lines[i] =< runs[i][1] /\ lines[i] \in Nat
             /\ runs[i][2] = LineEnd(t, lines[i])
  <2> DEFINE s == lines[i]
             r == TrailingRun(t, s)
             e == LineEnd(t, s)
  <2>1. s \in LineStarts(t) /\ s \in Nat
    BY <1>2, <1>3, LinesInOrder
  <2> HIDE DEF s
  <2>2. r = <<r[1], e>> /\ r[1] \in Nat /\ s =< r[1] /\ r[1] =< e
    BY <2>1, TrailingRuns
  <2>3. e \in Nat /\ e =< Len(t)
    BY <2>1, LinesInOrder
  <2> HIDE DEF r, e
  <2>4. r[2] = e /\ r \in Nat \X Nat /\ 0 =< r[1]
    <3>1. r[2] = e /\ r \in Nat \X Nat
      BY <2>2, <2>3
    <3> QED
      BY <2>2, <3>1, SMT
  <2>5. runs[i] = r
    BY <1>4 DEF r, s
  <2> QED
    BY <2>1, <2>2, <2>3, <2>4, <2>5 DEF s, e
<1>6. ASSUME NEW i \in DOMAIN lines, NEW j \in DOMAIN lines, i < j
      PROVE  runs[i][2] =< runs[j][1]
  <2>1. lines[i] < lines[j] /\ lines[i] \in LineStarts(t) /\ lines[j] \in LineStarts(t)
    BY <1>2, <1>3, <1>6
  <2>2. LineEnd(t, lines[i]) + 1 =< lines[j] /\ LineEnd(t, lines[i]) \in Nat
    BY <2>1, LinesInOrder
  <2>3. /\ lines[j] =< runs[j][1] /\ runs[i][2] = LineEnd(t, lines[i])
        /\ lines[j] \in Nat /\ runs[j][1] \in Nat
    BY <1>5
  <2> QED
    BY <2>2, <2>3, SMT
<1>7. runs \in Seq(Nat \X Nat)
  <2> DEFINE E == Nat \X Nat
  <2>1. \A i \in DOMAIN lines : TrailingRun(t, lines[i]) \in E
    BY <1>4, <1>5
  <2> HIDE DEF E
  <2>2. Len(lines) \in Nat /\ DOMAIN lines = 1 .. Len(lines)
    BY <1>3, SMT
  <2>3. runs \in Seq(E)
    BY <2>1, <2>2, SMT
  <2> QED
    BY <2>3 DEF E
<1> HIDE DEF runs
<1> QED
  BY <1>1, <1>4, <1>5, <1>6, <1>7 DEF InOrder

LEMMA TrimIsGood ==
  ASSUME NEW t \in Texts, NEW v \in ViewsOf(t)
  PROVE  GoodPlan(t, Trim(t, v))
<1> DEFINE runs == Runs(t, v)
<1>1. <<>> \in Texts
  BY SMT DEF Texts
<1>2. InOrder(runs, 0, Len(t))
  BY RunsInOrder
<1>3. Trim(t, v) =
        IF runs = <<>> \/ Len(runs) > MaxSpans THEN NoChange(t, v)
        ELSE Accepted(t, v, [final |-> SplicedAll(t, runs, <<>>),
                             ops |-> OperationsDescending(t, runs, <<>>),
                             view |-> MappedView(v, runs, <<>>)])
  BY DEF Trim
<1> HIDE DEF runs
<1>4. GoodPlan(t, Accepted(t, v, [final |-> SplicedAll(t, runs, <<>>),
                                  ops |-> OperationsDescending(t, runs, <<>>),
                                  view |-> MappedView(v, runs, <<>>)]))
  BY <1>1, <1>2, RangesReplacedIsGood
<1> QED
  BY <1>3, <1>4, NoChangeIsGood
-----------------------------------------------------------------------------
(* Folded texts.                                                           *)

LEMMA FoldedIsMapped == \A t : Folded(t) = Mapped(t, Fold)
  BY DEF Folded, Mapped

LEMMA FoldsAreTexts == \A c \in Chars : Fold[c] \in Texts
<1> TAKE c \in Chars
<1>1. PICK n \in 1 .. 3 : Fold[c] \in [1 .. n -> Chars]
  BY FoldingIsText
<1> QED
  BY <1>1, SMT DEF Texts

LEMMA FoldedText ==
  ASSUME NEW t \in Texts
  PROVE  Folded(t) \in Texts
  BY FoldsAreTexts, FoldedIsMapped, MappedText

LEMMA FoldedJoin ==
  ASSUME NEW a \in Texts, NEW b \in Texts
  PROVE  Folded(a \o b) = Folded(a) \o Folded(b)
  BY FoldsAreTexts, FoldedIsMapped, MappedJoin

LEMMA FoldedCharacter ==
  ASSUME NEW c \in Chars
  PROVE  Folded(<<c>>) = Fold[c] /\ Fold[c] \in Texts /\ Len(Fold[c]) \in 1 .. 3
<1>1. PICK n \in 1 .. 3 : Fold[c] \in [1 .. n -> Chars]
  BY FoldingIsText
<1>2. Fold[c] \in Seq(Chars) /\ Len(Fold[c]) = n
  BY <1>1, SMT
<1> QED
  BY <1>2, FoldedIsMapped, MappedCharacter DEF Texts

LEMMA FoldedNothing == Folded(<<>>) = <<>>
  BY FoldedIsMapped, MappedNothing

LEMMA Rises ==
  ASSUME NEW n \in Nat, NEW f, \A k \in 0 .. n : f[k] \in Nat,
         \A k \in 0 .. n - 1 : f[k] < f[k + 1]
  PROVE  \A j, k \in 0 .. n : j < k => f[j] < f[k]
<1> DEFINE T == {k \in Nat : k =< n => \A j \in 0 .. n : j < k => f[j] < f[k]}
<1>1. 0 \in T
  <2>1. \A j \in 0 .. n : ~(j < 0)
    BY SMT
  <2> QED
    BY <2>1
<1>2. ASSUME NEW k \in 0 .. n - 1, k \in T
      PROVE  k + 1 \in T
  <2>1. k + 1 \in Nat /\ k =< n /\ k \in 0 .. n /\ k + 1 \in 0 .. n
    BY SMT
  <2>2. f[k] < f[k + 1] /\ f[k] \in Nat /\ f[k + 1] \in Nat
    BY <2>1
  <2>3. ASSUME NEW j \in 0 .. n, j < k + 1
        PROVE  f[j] < f[k + 1]
    <3>1. j = k \/ j < k
      BY <2>3, SMT
    <3>2. j < k => f[j] < f[k]
      BY <1>2, <2>1
    <3>3. f[j] \in Nat
      OBVIOUS
    <3> QED
      BY <2>2, <3>1, <3>2, <3>3, SMT
  <2> QED
    BY <2>1, <2>3
<1> HIDE DEF T
<1>3. 0 .. n \subseteq T
  BY <1>1, <1>2, InductionUpTo
<1> TAKE j, k \in 0 .. n
<1>4. k =< n
  BY SMT
<1> QED
  BY <1>3, <1>4 DEF T

(* Where the characters of a line are in the folded line.                  *)
LEMMA FoldedOffsets ==
  ASSUME NEW line \in Texts, NEW n, n = Len(line)
  PROVE  /\ n \in Nat
         /\ FoldedStart(line, 0) = 0
         /\ \A k \in 0 .. n : FoldedStart(line, k) \in Nat
         /\ \A k \in 0 .. n - 1 :
              /\ FoldedStart(line, k + 1) = FoldedStart(line, k) + Len(Fold[line[k + 1]])
              /\ Len(Fold[line[k + 1]]) \in 1 .. 3
         /\ FoldedStart(line, n) = Len(Folded(line))
         /\ \A j, k \in 0 .. n : j < k => FoldedStart(line, j) < FoldedStart(line, k)
<1>1. n \in Nat /\ SubSeq(line, 1, 0) = <<>> /\ SubSeq(line, 1, n) = line
  BY SMT DEF Texts
<1>2. FoldedStart(line, 0) = 0
  <2>1. Len(<<>>) = 0
    BY SMT
  <2> QED
    BY <1>1, <2>1, FoldedNothing DEF FoldedStart
<1>3. ASSUME NEW k \in 0 .. n
      PROVE  SubSeq(line, 1, k) \in Texts /\ FoldedStart(line, k) \in Nat
  <2>1. SubSeq(line, 1, k) \in Texts
    BY <1>1, SMT DEF Texts
  <2>2. Folded(SubSeq(line, 1, k)) \in Texts
    BY <2>1, FoldedText
  <2> DEFINE f == Folded(SubSeq(line, 1, k))
  <2> HIDE DEF f
  <2>3. Len(f) \in Nat
    BY <2>2, SMT DEF Texts, f
  <2> QED
    BY <2>1, <2>3 DEF FoldedStart, f
<1>4. ASSUME NEW k \in 0 .. n - 1
      PROVE  /\ FoldedStart(line, k + 1) = FoldedStart(line, k) + Len(Fold[line[k + 1]])
             /\ Len(Fold[line[k + 1]]) \in 1 .. 3
  <2> DEFINE p == SubSeq(line, 1, k)
             c == line[k + 1]
  <2>1. c \in Chars /\ SubSeq(line, 1, k + 1) = p \o <<c>> /\ k \in 0 .. n
    BY <1>1, SMT DEF Texts
  <2>2. p \in Texts
    BY <1>3, <2>1
  <2> HIDE DEF p, c
  <2>3. <<c>> \in Texts
    BY <2>1, OneCharacter
  <2>4. Folded(p \o <<c>>) = Folded(p) \o Folded(<<c>>)
    BY <2>2, <2>3, FoldedJoin
  <2>5. Folded(<<c>>) = Fold[c] /\ Fold[c] \in Texts /\ Len(Fold[c]) \in 1 .. 3
    BY <2>1, FoldedCharacter
  <2>6. Folded(p) \in Texts
    BY <2>2, FoldedText
  <2>7. Len(Folded(p) \o Fold[c]) = Len(Folded(p)) + Len(Fold[c])
    BY <2>5, <2>6, Glue
  <2>8. FoldedStart(line, k + 1) = Len(Folded(p \o <<c>>)) /\ FoldedStart(line, k) = Len(Folded(p))
    BY <2>1 DEF FoldedStart, p
  <2> QED
    BY <2>4, <2>5, <2>7, <2>8 DEF c
<1>5. FoldedStart(line, n) = Len(Folded(line))
  BY <1>1 DEF FoldedStart
<1>6. \A j, k \in 0 .. n : j < k => FoldedStart(line, j) < FoldedStart(line, k)
  <2> DEFINE f == [k \in 0 .. n |-> FoldedStart(line, k)]
  <2>1. \A k \in 0 .. n : f[k] = FoldedStart(line, k) /\ f[k] \in Nat
    BY <1>3
  <2>2. ASSUME NEW k \in 0 .. n - 1
        PROVE  f[k] < f[k + 1]
    <3>1. k \in 0 .. n /\ k + 1 \in 0 .. n
      BY <1>1, SMT
    <3>2. f[k + 1] = f[k] + Len(Fold[line[k + 1]]) /\ Len(Fold[line[k + 1]]) \in 1 .. 3
          /\ f[k] \in Nat
      BY <1>4, <2>1, <3>1
    <3> QED
      BY <3>2, SMT
  <2> HIDE DEF f
  <2>3. \A j, k \in 0 .. n : j < k => f[j] < f[k]
    BY <1>1, <2>1, <2>2, Rises
  <2> QED
    BY <2>1, <2>3
<1> QED
  BY <1>1, <1>2, <1>3, <1>4, <1>5, <1>6

LEMMA MiddleOfThree ==
  ASSUME NEW p \in Texts, NEW m \in Texts, NEW r \in Texts
  PROVE  SubSeq((p \o m) \o r, Len(p) + 1, Len(p) + Len(m)) = m
  BY SMT DEF Texts

LEMMA FoldedRange ==
  ASSUME NEW line \in Texts, NEW a \in Nat, NEW b \in Nat, a =< b, b =< Len(line)
  PROVE  SubSeq(Folded(line), FoldedStart(line, a) + 1, FoldedStart(line, b))
           = Folded(SubSeq(line, a + 1, b))
<1> DEFINE p == SubSeq(line, 1, a)
           m == SubSeq(line, a + 1, b)
           r == SubSeq(line, b + 1, Len(line))
<1>1. p \in Texts /\ m \in Texts /\ r \in Texts /\ SubSeq(line, 1, b) = p \o m
  <2>1. p \in Texts /\ m \in Texts /\ r \in Texts
    BY SMT DEF Texts
  <2>2. SubSeq(line, 1, b) = p \o m
    <3>1. line \in Seq(Chars) /\ 1 \in 1 .. Len(line) + 1 /\ a \in 1 - 1 .. Len(line) /\ b \in a .. Len(line)
      BY SMT DEF Texts
    <3>2. SubSeq(line, 1, a) \o SubSeq(line, a + 1, b) = SubSeq(line, 1, b)
      BY <3>1, ConcatAdjacentSubSeq
    <3> QED
      BY <3>2
  <2> QED
    BY <2>1, <2>2
<1>2. line = (p \o m) \o r
  BY Cut
<1>3. FoldedStart(line, a) = Len(Folded(p)) /\ FoldedStart(line, b) = Len(Folded(p \o m))
  BY <1>1 DEF FoldedStart
<1> HIDE DEF p, m, r
<1>4. p \o m \in Texts
  BY <1>1, Glue
<1>5. Folded(p \o m) = Folded(p) \o Folded(m)
  BY <1>1, FoldedJoin
<1>6. Folded((p \o m) \o r) = Folded(p \o m) \o Folded(r)
  <2> DEFINE pm == p \o m
  <2>1. pm \in Texts
    BY <1>4
  <2> HIDE DEF pm
  <2>2. Folded(pm \o r) = Folded(pm) \o Folded(r)
    BY <1>1, <2>1, FoldedJoin
  <2> QED
    BY <2>2 DEF pm
<1> DEFINE fp == Folded(p)
           fm == Folded(m)
           fr == Folded(r)
<1>7. fp \in Texts /\ fm \in Texts /\ fr \in Texts
  BY <1>1, FoldedText
<1>8. Folded(line) = (fp \o fm) \o fr /\ FoldedStart(line, a) = Len(fp)
      /\ FoldedStart(line, b) = Len(fp \o fm)
  BY <1>2, <1>3, <1>5, <1>6
<1> HIDE DEF fp, fm, fr
<1>9. Len(fp \o fm) = Len(fp) + Len(fm)
  BY <1>7, Glue
<1>10. SubSeq((fp \o fm) \o fr, Len(fp) + 1, Len(fp) + Len(fm)) = fm
  BY <1>7, MiddleOfThree
<1> QED
  BY <1>8, <1>9, <1>10 DEF fm, m
LEMMA FinalIsGreatest ==
  ASSUME NEW n \in Nat, NEW S \in SUBSET (0 .. n)
  PROVE  /\ S = {} => Final(S) = NotFound
         /\ S # {} => /\ Final(S) # NotFound /\ Final(S) \in S /\ Final(S) \in Nat
                      /\ \A y \in S : y =< Final(S)
<1>1. CASE S = {}
  BY <1>1 DEF Final
<1>2. CASE S # {}
  <2>1. Final(S) = Max(S)
    BY <1>2 DEF Final
  <2>2. Max(S) \in S /\ Max(S) \in 0 .. n /\ \A y \in S : y =< Max(S)
    BY <1>2, GreatestOf
  <2>3. Max(S) # NotFound
    BY <2>2, SMT DEF NotFound
  <2>4. Max(S) \in Nat
    BY <2>2, SMT
  <2> QED
    BY <1>2, <2>1, <2>2, <2>3, <2>4
<1> QED
  BY <1>1, <1>2

(* Characters that fold to one keep their distance.                        *)
LEMMA SinglesBetween ==
  ASSUME NEW line \in Texts, NEW n, n = Len(line), NEW a \in 0 .. n, NEW b \in 0 .. n, a =< b,
         \A k \in Expansions(line) : ~(a =< k /\ k < b)
  PROVE  FoldedStart(line, b) = FoldedStart(line, a) + (b - a)
<1>1. /\ n \in Nat /\ \A k \in 0 .. n : FoldedStart(line, k) \in Nat
      /\ \A k \in 0 .. n - 1 :
           /\ FoldedStart(line, k + 1) = FoldedStart(line, k) + Len(Fold[line[k + 1]])
           /\ Len(Fold[line[k + 1]]) \in 1 .. 3
  BY FoldedOffsets
<1> DEFINE d == b - a
           T == {j \in Nat : j =< d => FoldedStart(line, a + j) = FoldedStart(line, a) + j}
<1>2. d \in Nat /\ a + d = b
  BY <1>1, SMT
<1> HIDE DEF d
<1>3. 0 \in T
  <2>1. a + 0 = a /\ FoldedStart(line, a) + 0 = FoldedStart(line, a)
    BY <1>1, SMT
  <2> QED
    BY <2>1
<1>4. ASSUME NEW j \in 0 .. d - 1, j \in T
      PROVE  j + 1 \in T
  <2>1. /\ a + j \in 0 .. n - 1 /\ a + j \in 0 .. n /\ a =< a + j /\ a + j < b
        /\ (a + j) + 1 = a + (j + 1) /\ j =< d /\ j + 1 \in Nat /\ n = Len(line)
    BY <1>1, <1>2, SMT
  <2>2. Len(Fold[line[(a + j) + 1]]) = 1
    <3>1. a + j \notin Expansions(line)
      BY <2>1
    <3> QED
      BY <2>1, <3>1 DEF Expansions
  <2>3. FoldedStart(line, (a + j) + 1) = FoldedStart(line, a + j) + 1
    BY <1>1, <2>1, <2>2
  <2>4. FoldedStart(line, a + j) = FoldedStart(line, a) + j /\ FoldedStart(line, a) \in Nat
    BY <1>1, <1>4, <2>1
  <2>5. (FoldedStart(line, a) + j) + 1 = FoldedStart(line, a) + (j + 1)
    BY <2>4, SMT
  <2> QED
    BY <2>1, <2>3, <2>4, <2>5
<1> HIDE DEF T
<1>5. 0 .. d \subseteq T
  BY <1>2, <1>3, <1>4, InductionUpTo
<1>6. d \in 0 .. d /\ d =< d
  BY <1>2, SMT
<1>7. FoldedStart(line, a + d) = FoldedStart(line, a) + d
  BY <1>5, <1>6 DEF T
<1> QED
  BY <1>2, <1>7 DEF d

(* The two boundary functions are the folded offsets and their inverse.    *)
LEMMA FoldedBoundaries ==
  ASSUME NEW line \in Texts, NEW n, n = Len(line), NEW k \in 0 .. n
  PROVE  FoldedBoundary(line, k) = FoldedStart(line, k)
<1>1. n \in Nat /\ FoldedStart(line, 0) = 0 /\ \A j \in 0 .. n : FoldedStart(line, j) \in Nat
  BY FoldedOffsets
<1> DEFINE S == {e \in Expansions(line) : e + 1 =< k}
           e == Final(S)
<1>2. /\ S = {} => e = NotFound
      /\ S # {} => e # NotFound /\ e \in S /\ e \in Nat /\ \A y \in S : y =< e
  <2>1. S \in SUBSET (0 .. n)
    BY <1>1, SMT DEF Expansions
  <2> HIDE DEF S
  <2> QED
    BY <1>1, <2>1, FinalIsGreatest
<1>3. FoldedBoundary(line, k) = FoldedBehind(line, k, e)
  BY DEF FoldedBoundary
<1>4. \A f \in Expansions(line) : f \in Nat /\ f < n
  BY <1>1, SMT DEF Expansions
<1>5. CASE S = {}
  <2>1. \A f \in Expansions(line) : ~(0 =< f /\ f < k)
    <3> SUFFICES ASSUME NEW f \in Expansions(line), f < k
                 PROVE  FALSE
      OBVIOUS
    <3>1. f + 1 =< k
      BY <1>1, <1>4, SMT
    <3> QED
      BY <1>5, <3>1
  <2>2. 0 \in 0 .. n /\ 0 =< k
    BY <1>1, SMT
  <2>3. FoldedStart(line, k) = FoldedStart(line, 0) + (k - 0)
    BY <2>1, <2>2, SinglesBetween
  <2>4. FoldedBoundary(line, k) = k
    BY <1>2, <1>3, <1>5 DEF FoldedBehind
  <2> QED
    BY <1>1, <2>3, <2>4, SMT
<1>6. CASE S # {}
  <2>1. e # NotFound /\ e \in Expansions(line) /\ e + 1 =< k /\ e \in Nat
    BY <1>2, <1>6
  <2>2. \A f \in Expansions(line) : ~(e + 1 =< f /\ f < k)
    <3> SUFFICES ASSUME NEW f \in Expansions(line), e + 1 =< f, f < k
                 PROVE  FALSE
      OBVIOUS
    <3>1. f + 1 =< k
      <4> HIDE DEF e
      <4> QED
        BY <1>1, <1>4, SMT
    <3>2. f =< e
      BY <1>2, <1>6, <3>1
    <3> HIDE DEF e
    <3> QED
      BY <1>4, <2>1, <3>2, SMT
  <2> HIDE DEF e
  <2>3. e + 1 \in 0 .. n
    BY <1>1, <2>1, SMT
  <2>4. FoldedStart(line, k) = FoldedStart(line, e + 1) + (k - (e + 1))
    BY <2>1, <2>2, <2>3, SinglesBetween
  <2>5. FoldedBoundary(line, k) = k + FoldedStart(line, e + 1) - (e + 1)
    BY <1>3, <2>1 DEF FoldedBehind, FoldedEnd
  <2>6. FoldedStart(line, e + 1) \in Nat /\ FoldedStart(line, k) \in Nat
    BY <1>1, <2>3
  <2> QED
    BY <2>1, <2>4, <2>5, <2>6, SMT
<1> QED
  BY <1>5, <1>6

LEMMA OffsetsSet ==
  ASSUME NEW line \in Texts, NEW n, n = Len(line), NEW a \in 0 .. n, NEW o \in Nat,
         o =< FoldedStart(line, n), FoldedStart(line, a) =< o,
         \A k \in Expansions(line) : a =< k => o < FoldedStart(line, k)
  PROVE  /\ o - FoldedStart(line, a) + a \in 0 .. n
         /\ FoldedStart(line, o - FoldedStart(line, a) + a) = o
<1> DEFINE F(k) == FoldedStart(line, k)
           S == {j \in a .. n : F(j) =< o}
           j == Max(S)
<1>1. /\ n \in Nat /\ \A k \in 0 .. n : F(k) \in Nat
      /\ \A k \in 0 .. n - 1 :
           F(k + 1) = F(k) + Len(Fold[line[k + 1]]) /\ Len(Fold[line[k + 1]]) \in 1 .. 3
      /\ \A i, k \in 0 .. n : i < k => F(i) < F(k)
  BY FoldedOffsets
<1>2. F(a) =< o /\ o =< F(n)
  OBVIOUS
<1>3. \A k \in Expansions(line) : a =< k => o < F(k)
  OBVIOUS
<1> HIDE DEF F
<1>4. S \in SUBSET (0 .. n) /\ S # {}
  <2>1. \A k \in a .. n : k \in 0 .. n
    BY <1>1, SMT
  <2>2. a \in a .. n
    BY <1>1, SMT
  <2> QED
    BY <1>2, <2>1, <2>2
<1>5. j \in S /\ \A y \in S : y =< j
  <2> HIDE DEF S
  <2> QED
    BY <1>1, <1>4, GreatestOf
<1>6. j \in 0 .. n /\ a =< j /\ F(j) =< o /\ F(j) \in Nat
  <2>1. j \in a .. n /\ F(j) =< o
    BY <1>5
  <2> HIDE DEF j
  <2>2. j \in 0 .. n /\ a =< j
    BY <1>1, <2>1, SMT
  <2> QED
    BY <1>1, <2>1, <2>2
<1>7. \A y \in a .. n : F(y) =< o => y =< j
  BY <1>5
<1> HIDE DEF j, S
<1>8. F(j) = F(a) + (j - a)
  <2>1. \A k \in Expansions(line) : ~(a =< k /\ k < j)
    <3> SUFFICES ASSUME NEW k \in Expansions(line), a =< k, k < j
                 PROVE  FALSE
      OBVIOUS
    <3>1. k \in 0 .. n
      BY <1>1, SMT DEF Expansions
    <3>2. F(k) < F(j) /\ o < F(k) /\ F(k) \in Nat
      BY <1>1, <1>3, <1>6, <3>1
    <3> QED
      BY <1>6, <3>2, SMT
  <2> QED
    BY <1>6, <2>1, SinglesBetween DEF F
<1>9. F(j) = o
  <2>1. CASE j = n
    <3>1. F(j) = F(n)
      BY <2>1
    <3> QED
      BY <1>2, <1>6, <3>1, SMT
  <2>2. CASE j # n
    <3>1. j \in 0 .. n - 1 /\ j + 1 \in a .. n /\ j + 1 \in 0 .. n /\ ~(j + 1 =< j)
      BY <1>1, <1>6, <2>2, SMT
    <3>2. ~(F(j + 1) =< o)
      BY <1>7, <3>1
    <3>3. F(j + 1) = F(j) + Len(Fold[line[j + 1]]) /\ Len(Fold[line[j + 1]]) \in 1 .. 3
          /\ F(j + 1) \in Nat
      BY <1>1, <3>1
    <3>4. CASE j \in Expansions(line)
      <4>1. o < F(j)
        BY <1>3, <1>6, <3>4
      <4> QED
        BY <1>6, <4>1, SMT
    <3>5. CASE j \notin Expansions(line)
      <4>1. j \in 0 .. Len(line) - 1
        BY <3>1
      <4>2. Len(Fold[line[j + 1]]) = 1
        BY <3>5, <4>1 DEF Expansions
      <4> QED
        BY <1>6, <3>2, <3>3, <4>2, SMT
    <3> QED
      BY <3>4, <3>5
  <2> QED
    BY <2>1, <2>2
<1>10. o - F(a) + a = j
  <2>1. F(a) \in Nat
    BY <1>1
  <2> QED
    BY <1>6, <1>8, <1>9, <2>1, SMT
<1> QED
  BY <1>6, <1>9, <1>10 DEF F

LEMMA SourceBoundaries ==
  ASSUME NEW line \in Texts, NEW n, n = Len(line), NEW o \in Nat, o =< Len(Folded(line))
  PROVE  \/ SourceBoundary(line, o) = NotFound /\ \A k \in 0 .. n : FoldedStart(line, k) # o
         \/ SourceBoundary(line, o) \in 0 .. n /\ FoldedStart(line, SourceBoundary(line, o)) = o
<1> DEFINE F(k) == FoldedStart(line, k)
           S == {k \in Expansions(line) : F(k) =< o}
           e == Final(S)
<1>1. /\ n \in Nat /\ F(0) = 0 /\ \A k \in 0 .. n : F(k) \in Nat
      /\ F(n) = Len(Folded(line))
      /\ \A i, k \in 0 .. n : i < k => F(i) < F(k)
  BY FoldedOffsets
<1>2. \A f \in Expansions(line) : f \in 0 .. n /\ f \in Nat /\ f + 1 \in 0 .. n
  BY <1>1, SMT DEF Expansions
<1>3. /\ S = {} => e = NotFound
      /\ S # {} => e # NotFound /\ e \in S /\ e \in Nat /\ \A y \in S : y =< e
  <2>1. S \in SUBSET (0 .. n)
    BY <1>2
  <2> HIDE DEF S
  <2> QED
    BY <1>1, <2>1, FinalIsGreatest
<1>4. SourceBoundary(line, o) = SourceBehind(line, o, e)
  BY DEF SourceBoundary
<1>5. CASE S = {}
  <2>1. SourceBoundary(line, o) = o
    BY <1>3, <1>4, <1>5 DEF SourceBehind
  <2>2. \A k \in Expansions(line) : 0 =< k => o < F(k)
    <3> SUFFICES ASSUME NEW k \in Expansions(line)
                 PROVE  o < F(k)
      OBVIOUS
    <3>1. ~(F(k) =< o)
      BY <1>5
    <3>2. F(k) \in Nat
      BY <1>1, <1>2
    <3> HIDE DEF F
    <3> QED
      BY <3>1, <3>2, SMT
  <2>3. 0 \in 0 .. n /\ F(0) =< o /\ o =< F(n)
    <3> HIDE DEF F
    <3> QED
      BY <1>1, SMT
  <2>4. o - F(0) + 0 \in 0 .. n /\ F(o - F(0) + 0) = o
    BY <2>2, <2>3, OffsetsSet
  <2>5. o - F(0) + 0 = o
    <3> HIDE DEF F
    <3> QED
      BY <1>1, SMT
  <2> QED
    BY <2>1, <2>4, <2>5
<1>6. CASE S # {}
  <2>1. e # NotFound /\ e \in Expansions(line) /\ F(e) =< o /\ e \in Nat
    BY <1>3, <1>6
  <2>2. e \in 0 .. n /\ e + 1 \in 0 .. n
    BY <1>2, <2>1
  <2>3. \A k \in Expansions(line) : e + 1 =< k => o < F(k)
    <3> SUFFICES ASSUME NEW k \in Expansions(line), e + 1 =< k
                 PROVE  o < F(k)
      OBVIOUS
    <3>1. ~(k =< e)
      <4>1. k \in Nat
        BY <1>2
      <4> HIDE DEF e
      <4> QED
        BY <2>1, <4>1, SMT
    <3>2. ~(F(k) =< o)
      BY <1>3, <1>6, <3>1
    <3>3. F(k) \in Nat
      BY <1>1, <1>2
    <3> HIDE DEF F
    <3> QED
      BY <3>2, <3>3, SMT
  <2> HIDE DEF e, S
  <2>4. CASE o = F(e)
    <3>1. SourceBoundary(line, o) = e
      BY <1>4, <2>1, <2>4 DEF SourceBehind
    <3> QED
      BY <2>2, <2>4, <3>1
  <2>5. CASE o # F(e) /\ o < F(e + 1)
    <3>1. SourceBoundary(line, o) = NotFound
      BY <1>4, <2>1, <2>5 DEF SourceBehind, FoldedEnd
    <3>2. ASSUME NEW k \in 0 .. n, F(k) = o
          PROVE  FALSE
      <4>1. e < e + 1 /\ (k < e \/ k = e \/ k = e + 1 \/ e + 1 < k)
        BY <2>1, SMT
      <4>2. /\ k < e => F(k) < F(e)
            /\ e + 1 < k => F(e + 1) < F(k)
        BY <1>1, <2>2
      <4>3. F(k) \in Nat /\ F(e) \in Nat /\ F(e + 1) \in Nat
        BY <1>1, <2>2
      <4>4. /\ k = e => F(k) = F(e)
            /\ k = e + 1 => F(k) = F(e + 1)
        OBVIOUS
      <4> DEFINE fk == F(k)
                 fe == F(e)
                 fn == F(e + 1)
      <4>5. /\ fk \in Nat /\ fe \in Nat /\ fn \in Nat /\ fe =< o /\ o # fe /\ o < fn /\ fk = o
            /\ (k < e => fk < fe) /\ (e + 1 < k => fn < fk) /\ (k = e => fk = fe)
            /\ (k = e + 1 => fk = fn)
        BY <2>1, <2>5, <3>2, <4>2, <4>3, <4>4
      <4> HIDE DEF fk, fe, fn
      <4> QED
        BY <4>1, <4>5, SMT
    <3> QED
      BY <3>1, <3>2
  <2>6. CASE ~(o < F(e + 1)) /\ o # F(e)
    <3>1. SourceBoundary(line, o) = o - F(e + 1) + e + 1
      BY <1>4, <2>1, <2>6 DEF SourceBehind, FoldedEnd
    <3>2. F(e + 1) \in Nat
      BY <1>1, <2>2
    <3>3. F(e + 1) =< o /\ o =< F(n) /\ o - F(e + 1) + e + 1 = o - F(e + 1) + (e + 1)
      <4> DEFINE fe == F(e + 1)
                 fn == F(n)
      <4>1. fe \in Nat /\ ~(o < fe) /\ fn = Len(Folded(line))
        BY <1>1, <2>6, <3>2
      <4> HIDE DEF fe, fn
      <4>2. fe =< o /\ o =< fn /\ o - fe + e + 1 = o - fe + (e + 1)
        BY <2>1, <4>1, SMT
      <4> QED
        BY <4>2 DEF fe, fn
    <3>4. /\ o - F(e + 1) + (e + 1) \in 0 .. n
          /\ F(o - F(e + 1) + (e + 1)) = o
      BY <2>2, <2>3, <3>3, OffsetsSet
    <3> QED
      BY <3>1, <3>3, <3>4
  <2> QED
    BY <2>4, <2>5, <2>6
<1> QED
  BY <1>5, <1>6
-----------------------------------------------------------------------------
(* The matches of a folded query in a line, by definition and as found.    *)

LineMatches(line, fq) ==
  {m \in (0 .. Len(line)) \X (0 .. Len(line)) :
     m[1] < m[2] /\ Folded(SubSeq(line, m[1] + 1, m[2])) = fq}

LEMMA OffsetsDiffer ==
  ASSUME NEW line \in Texts, NEW n, n = Len(line), NEW a \in 0 .. n, NEW b \in 0 .. n
  PROVE  /\ FoldedStart(line, a) = FoldedStart(line, b) => a = b
         /\ FoldedStart(line, a) =< FoldedStart(line, b) <=> a =< b
<1>1. /\ n \in Nat /\ \A k \in 0 .. n : FoldedStart(line, k) \in Nat
      /\ \A i, k \in 0 .. n : i < k => FoldedStart(line, i) < FoldedStart(line, k)
  BY FoldedOffsets
<1> DEFINE x == FoldedStart(line, a)
           y == FoldedStart(line, b)
<1>2. /\ x \in Nat /\ y \in Nat /\ (a < b => x < y) /\ (b < a => y < x) /\ (a = b => x = y)
  BY <1>1
<1> HIDE DEF x, y
<1>3. (x = y => a = b) /\ (x =< y <=> a =< b)
  BY <1>1, <1>2, SMT
<1> QED
  BY <1>3 DEF x, y

LEMMA SourceMatches ==
  ASSUME NEW line \in Texts, NEW fq \in Texts, NEW i \in FoldedStarts(line, fq)
  PROVE  /\ i \in 0 .. Len(Folded(line)) /\ i \in Nat
         /\ SourceMatch(line, fq, i) \in LineMatches(line, fq)
         /\ FoldedStart(line, SourceMatch(line, fq, i)[1]) = i
         /\ FoldedStart(line, SourceMatch(line, fq, i)[2]) = i + Len(fq)
<1> DEFINE F == Folded(line)
           n == Len(line)
           j == i + Len(fq)
           a == SourceBoundary(line, i)
           b == SourceBoundary(line, j)
<1>1. F \in Texts /\ n \in Nat /\ Len(fq) \in Nat
  <2>1. F \in Texts
    BY FoldedText
  <2> QED
    BY <2>1, SMT DEF Texts
<1>2. i \in 0 .. Len(F) - Len(fq) /\ SubSeq(F, i + 1, j) = fq
  BY DEF FoldedStarts, Occurrences
<1>3. SourceMatch(line, fq, i) = <<a, b>>
  BY DEF SourceMatch
<1>4. a # NotFound /\ b # NotFound /\ a < b
  BY <1>3 DEF FoldedStarts, IsWhole
<1>5. i \in Nat /\ j \in Nat /\ i =< Len(F) /\ j =< Len(F) /\ i \in 0 .. Len(F)
  <2>1. Len(F) \in Nat
    <3> HIDE DEF F
    <3> QED
      BY <1>1, SMT DEF Texts
  <2> HIDE DEF F
  <2> QED
    BY <1>1, <1>2, <2>1, SMT
<1>6. /\ a \in 0 .. n /\ FoldedStart(line, a) = i
      /\ b \in 0 .. n /\ FoldedStart(line, b) = j
  <2> HIDE DEF j
  <2> QED
    BY <1>4, <1>5, SourceBoundaries
<1> HIDE DEF a, b
<1>7. a \in Nat /\ b \in Nat /\ a =< b /\ b =< n
  BY <1>1, <1>4, <1>6, SMT
<1>8. Folded(SubSeq(line, a + 1, b)) = fq
  <2>1. SubSeq(F, FoldedStart(line, a) + 1, FoldedStart(line, b)) = Folded(SubSeq(line, a + 1, b))
    BY <1>7, FoldedRange
  <2> QED
    BY <1>2, <1>6, <2>1
<1>9. <<a, b>> \in LineMatches(line, fq)
  BY <1>4, <1>6, <1>8 DEF LineMatches
<1> QED
  BY <1>3, <1>5, <1>6, <1>9

LEMMA MatchesHaveStarts ==
  ASSUME NEW line \in Texts, NEW fq \in Texts, NEW m \in LineMatches(line, fq)
  PROVE  /\ FoldedStart(line, m[1]) \in FoldedStarts(line, fq)
         /\ SourceMatch(line, fq, FoldedStart(line, m[1])) = m
         /\ FoldedStart(line, m[2]) = FoldedStart(line, m[1]) + Len(fq)
         /\ m[1] \in 0 .. Len(line) /\ m[2] \in 0 .. Len(line)
         /\ m[1] \in Nat /\ m[2] \in Nat /\ m[1] < m[2] /\ m[2] =< Len(line)
<1> DEFINE F == Folded(line)
           n == Len(line)
           a == m[1]
           b == m[2]
           i == FoldedStart(line, a)
           j == FoldedStart(line, b)
<1>1. F \in Texts /\ n \in Nat
  <2>1. F \in Texts
    BY FoldedText
  <2> QED
    BY <2>1, SMT DEF Texts
<1>2. a \in 0 .. n /\ b \in 0 .. n /\ a < b /\ Folded(SubSeq(line, a + 1, b)) = fq
      /\ m = <<a, b>>
  BY DEF LineMatches
<1> HIDE DEF a, b
<1>3. a \in Nat /\ b \in Nat /\ a =< b /\ b =< n
  BY <1>1, <1>2, SMT
<1>4. SubSeq(F, i + 1, j) = fq
  BY <1>2, <1>3, FoldedRange
<1>5. /\ i \in Nat /\ j \in Nat /\ i < j /\ FoldedStart(line, n) = Len(F)
      /\ \A k \in 0 .. n : k < n => FoldedStart(line, k) < FoldedStart(line, n)
  <2>1. n \in 0 .. n
    BY <1>1, SMT
  <2> QED
    BY <1>2, <2>1, FoldedOffsets
<1>6. j =< Len(F)
  <2>1. b = n \/ b < n
    BY <1>1, <1>3, SMT
  <2>2. b < n => j < Len(F)
    BY <1>2, <1>5
  <2>3. b = n => j = Len(F)
    BY <1>5
  <2> HIDE DEF j, F
  <2> QED
    BY <1>5, <2>1, <2>2, <2>3, SMT DEF j
<1> HIDE DEF i, j, F
<1>7. Len(fq) = j - i /\ i + Len(fq) = j /\ i \in 0 .. Len(F) - Len(fq)
  <2>1. Len(SubSeq(F, i + 1, j)) = j - i /\ Len(F) \in Nat
    BY <1>1, <1>5, <1>6, SMT DEF Texts
  <2>2. Len(fq) = j - i
    BY <1>4, <2>1
  <2> QED
    BY <1>5, <1>6, <2>1, <2>2, SMT
<1>8. i \in Occurrences(F, fq)
  BY <1>4, <1>7 DEF Occurrences
<1>9. SourceBoundary(line, i) = a /\ SourceBoundary(line, j) = b
  <2>1. i =< Len(F)
    BY <1>1, <1>5, <1>6, SMT DEF Texts
  <2>2. SourceBoundary(line, i) \in 0 .. n /\ FoldedStart(line, SourceBoundary(line, i)) = i
    BY <1>2, <1>5, <2>1, SourceBoundaries DEF F, i
  <2>3. SourceBoundary(line, j) \in 0 .. n /\ FoldedStart(line, SourceBoundary(line, j)) = j
    BY <1>2, <1>5, <1>6, SourceBoundaries DEF F, j
  <2> QED
    BY <1>2, <2>2, <2>3, OffsetsDiffer DEF i, j
<1>10. SourceMatch(line, fq, i) = m
  BY <1>2, <1>7, <1>9 DEF SourceMatch
<1>11. IsWhole(m)
  <2>1. a # NotFound /\ b # NotFound
    BY <1>3, SMT DEF NotFound
  <2> QED
    BY <1>2, <2>1 DEF IsWhole, a, b
<1>12. i \in FoldedStarts(line, fq)
  BY <1>8, <1>10, <1>11 DEF FoldedStarts, F
<1> QED
  BY <1>2, <1>3, <1>7, <1>10, <1>12 DEF i, j, a, b

LEMMA FindForwardInLine ==
  ASSUME NEW line \in Texts, NEW fq \in Texts, NEW from \in 0 .. Len(line)
  PROVE  LET A == {m \in LineMatches(line, fq) : m[1] >= from}
             r == FoldedFindForward(line, fq, from)
         IN  \/ A = {} /\ r = NoMatch
             \/ r \in A /\ \A m \in A : r[1] =< m[1]
<1> DEFINE A == {m \in LineMatches(line, fq) : m[1] >= from}
           n == Len(line)
           o == FoldedStart(line, from)
           S == {i \in FoldedStarts(line, fq) : i >= o}
           r == FoldedFindForward(line, fq, from)
<1>1. FoldedBoundary(line, from) = o
  BY FoldedBoundaries
<1>2. r = SourceMatchOf(line, fq, First(S))
  BY <1>1 DEF FoldedFindForward
<1>3. o \in Nat /\ n \in Nat /\ from \in Nat
  <2>1. n \in Nat
    BY SMT DEF Texts
  <2>2. from \in Nat
    BY <2>1, SMT
  <2> QED
    BY <2>1, <2>2, FoldedOffsets
<1> HIDE DEF o, r
<1>4. ASSUME NEW m \in A
      PROVE  FoldedStart(line, m[1]) \in S
  <2>1. /\ FoldedStart(line, m[1]) \in FoldedStarts(line, fq) /\ m[1] \in 0 .. n /\ m[1] \in Nat
        /\ from =< m[1]
    BY <1>3, <1>4, MatchesHaveStarts, SMT
  <2>2. o =< FoldedStart(line, m[1])
    BY <2>1, OffsetsDiffer DEF o
  <2>3. FoldedStart(line, m[1]) \in Nat
    BY <2>1, FoldedOffsets
  <2>4. FoldedStart(line, m[1]) >= o
    BY <1>3, <2>2, <2>3, SMT
  <2> QED
    BY <2>1, <2>4
<1>5. ASSUME NEW i \in S
      PROVE  SourceMatch(line, fq, i) \in A
  <2> DEFINE m == SourceMatch(line, fq, i)
  <2>1. m \in LineMatches(line, fq) /\ FoldedStart(line, m[1]) = i /\ i \in Nat
    BY SourceMatches
  <2> HIDE DEF m
  <2>2. m[1] \in 0 .. n /\ m[1] \in Nat
    BY <2>1, MatchesHaveStarts
  <2>3. o =< i
    BY <1>3, <2>1, SMT
  <2>4. from =< m[1]
    BY <2>1, <2>2, <2>3, OffsetsDiffer DEF o
  <2>5. m[1] >= from
    BY <1>3, <2>2, <2>4, SMT
  <2> QED
    BY <2>1, <2>5 DEF m
<1>6. S \in SUBSET Nat
  BY SourceMatches
<1>7. CASE A = {}
  <2>1. S = {}
    BY <1>5, <1>7
  <2> HIDE DEF S
  <2>2. First(S) = NotFound
    BY <1>6, <2>1, FirstIsLeast
  <2> QED
    BY <1>2, <1>7, <2>2 DEF SourceMatchOf, r
<1>8. CASE A # {}
  <2>1. S # {}
    BY <1>4, <1>8
  <2> DEFINE i == First(S)
  <2>2. i # NotFound /\ i \in S /\ i \in Nat /\ \A y \in S : i =< y
    <3> HIDE DEF S
    <3> QED
      BY <1>6, <2>1, FirstIsLeast
  <2>3. r = SourceMatch(line, fq, i)
    BY <1>2, <2>2 DEF SourceMatchOf
  <2> HIDE DEF i
  <2>4. r \in A /\ FoldedStart(line, r[1]) = i
    BY <1>5, <2>2, <2>3, SourceMatches
  <2>5. ASSUME NEW m \in A
        PROVE  r[1] =< m[1]
    <3>1. i =< FoldedStart(line, m[1])
      BY <1>4, <2>2
    <3>2. r[1] \in 0 .. n /\ m[1] \in 0 .. n
      BY <2>4, MatchesHaveStarts
    <3> QED
      BY <2>4, <3>1, <3>2, OffsetsDiffer
  <2> QED
    BY <2>4, <2>5 DEF r
<1> QED
  BY <1>7, <1>8

LEMMA FindBackwardInLine ==
  ASSUME NEW line \in Texts, NEW fq \in Texts, NEW stop \in 0 .. Len(line)
  PROVE  LET A == {m \in LineMatches(line, fq) : m[2] =< stop}
             r == FoldedFindBackward(line, fq, stop)
         IN  \/ A = {} /\ r = NoMatch
             \/ r \in A /\ \A m \in A : m[1] =< r[1]
<1> DEFINE A == {m \in LineMatches(line, fq) : m[2] =< stop}
           n == Len(line)
           o == FoldedStart(line, stop)
           S == {i \in FoldedStarts(line, fq) : i + Len(fq) =< o}
           r == FoldedFindBackward(line, fq, stop)
<1>1. FoldedBoundary(line, stop) = o
  BY FoldedBoundaries
<1>2. r = SourceMatchOf(line, fq, Final(S))
  BY <1>1 DEF FoldedFindBackward
<1> HIDE DEF o, r
<1>3. ASSUME NEW m \in A
      PROVE  FoldedStart(line, m[1]) \in S
  <2>1. /\ FoldedStart(line, m[1]) \in FoldedStarts(line, fq) /\ m[2] \in 0 .. n
        /\ FoldedStart(line, m[2]) = FoldedStart(line, m[1]) + Len(fq)
    BY <1>3, MatchesHaveStarts
  <2>2. FoldedStart(line, m[2]) =< o
    BY <1>3, <2>1, OffsetsDiffer DEF o
  <2> QED
    BY <2>1, <2>2
<1>4. ASSUME NEW i \in S
      PROVE  SourceMatch(line, fq, i) \in A
  <2> DEFINE m == SourceMatch(line, fq, i)
  <2>1. m \in LineMatches(line, fq) /\ FoldedStart(line, m[2]) = i + Len(fq)
    BY SourceMatches
  <2> HIDE DEF m
  <2>2. m[2] \in 0 .. n
    BY <2>1, MatchesHaveStarts
  <2>3. FoldedStart(line, m[2]) =< o
    BY <2>1
  <2>4. m[2] =< stop
    BY <2>2, <2>3, OffsetsDiffer DEF o
  <2> QED
    BY <2>1, <2>4 DEF m
<1>5. S \in SUBSET (0 .. Len(Folded(line))) /\ Len(Folded(line)) \in Nat
  <2>1. S \in SUBSET (0 .. Len(Folded(line)))
    BY SourceMatches
  <2>2. Folded(line) \in Texts
    BY FoldedText
  <2> DEFINE F == Folded(line)
  <2> HIDE DEF F
  <2>3. Len(F) \in Nat
    BY <2>2, SMT DEF Texts, F
  <2> QED
    BY <2>1, <2>3 DEF F
<1>6. CASE A = {}
  <2>1. S = {}
    BY <1>4, <1>6
  <2> HIDE DEF S
  <2>2. Final(S) = NotFound
    BY <1>5, <2>1, FinalIsGreatest
  <2> QED
    BY <1>2, <1>6, <2>2 DEF SourceMatchOf, r
<1>7. CASE A # {}
  <2>1. S # {}
    BY <1>3, <1>7
  <2> DEFINE i == Final(S)
  <2>2. i # NotFound /\ i \in S /\ i \in Nat /\ \A y \in S : y =< i
    <3> HIDE DEF S
    <3> QED
      BY <1>5, <2>1, FinalIsGreatest
  <2>3. r = SourceMatch(line, fq, i)
    BY <1>2, <2>2 DEF SourceMatchOf
  <2> HIDE DEF i
  <2>4. r \in A /\ FoldedStart(line, r[1]) = i
    BY <1>4, <2>2, <2>3, SourceMatches
  <2>5. ASSUME NEW m \in A
        PROVE  m[1] =< r[1]
    <3>1. FoldedStart(line, m[1]) =< i
      BY <1>3, <2>2
    <3>2. r[1] \in 0 .. n /\ m[1] \in 0 .. n
      BY <2>4, MatchesHaveStarts
    <3> QED
      BY <2>4, <3>1, <3>2, OffsetsDiffer
  <2> QED
    BY <2>4, <2>5 DEF r
<1> QED
  BY <1>6, <1>7
-----------------------------------------------------------------------------
(* Only a line break folds to one, so a match of a single line lies in a   *)
(* single line.                                                            *)

LEMMA BreaksOfElements ==
  ASSUME NEW t \in Texts
  PROVE  Breaks(t) = {} <=> \A i \in 1 .. Len(t) : t[i] # Newline
<1>1. Len(t) \in Nat
  BY SMT DEF Texts
<1>2. ASSUME Breaks(t) = {}, NEW i \in 1 .. Len(t)
      PROVE  t[i] # Newline
  <2> DEFINE k == i - 1
  <2>1. k \in 0 .. Len(t) - 1 /\ k + 1 = i
    BY <1>1, SMT
  <2> HIDE DEF k
  <2>2. k \notin Breaks(t)
    BY <1>2
  <2> QED
    BY <2>1, <2>2 DEF Breaks
<1>3. ASSUME \A i \in 1 .. Len(t) : t[i] # Newline, NEW k \in Breaks(t)
      PROVE  FALSE
  <2>1. k \in 0 .. Len(t) - 1 /\ t[k + 1] = Newline
    BY DEF Breaks
  <2>2. k + 1 \in 1 .. Len(t)
    BY <1>1, <2>1, SMT
  <2> QED
    BY <1>3, <2>1, <2>2
<1> QED
  BY <1>2, <1>3

LEMMA BreaksOfJoin ==
  ASSUME NEW a \in Texts, NEW b \in Texts
  PROVE  Breaks(a \o b) = {} <=> Breaks(a) = {} /\ Breaks(b) = {}
<1> DEFINE c == a \o b
           m == Len(a)
           n == Len(b)
<1>1. /\ c \in Texts /\ Len(c) = m + n /\ m \in Nat /\ n \in Nat
      /\ \A i \in 1 .. m : c[i] = a[i]
      /\ \A i \in 1 .. n : c[m + i] = b[i]
  BY JoinedElements
<1>2. /\ Breaks(a) = {} <=> \A i \in 1 .. m : a[i] # Newline
      /\ Breaks(b) = {} <=> \A i \in 1 .. n : b[i] # Newline
  BY BreaksOfElements
<1> HIDE DEF c, m, n
<1>3. Breaks(c) = {} <=> \A i \in 1 .. m + n : c[i] # Newline
  BY <1>1, BreaksOfElements
<1>4. \A i \in 1 .. m + n : i \in 1 .. m \/ \E k \in 1 .. n : i = m + k
  <2> TAKE i \in 1 .. m + n
  <2> DEFINE k == i - m
  <2>1. i \in 1 .. m \/ (k \in 1 .. n /\ i = m + k)
    BY <1>1, SMT
  <2> HIDE DEF k
  <2> QED
    BY <2>1
<1>5. (\A i \in 1 .. m : i \in 1 .. m + n) /\ (\A k \in 1 .. n : m + k \in 1 .. m + n)
  BY <1>1, SMT
<1>6. Breaks(c) = {} <=> Breaks(a) = {} /\ Breaks(b) = {}
  BY <1>1, <1>2, <1>3, <1>4, <1>5
<1> QED
  BY <1>6 DEF c

LEMMA FoldedBreaks ==
  ASSUME NEW t \in Texts
  PROVE  Breaks(Folded(t)) = {} <=> Breaks(t) = {}
<1> DEFINE P == {s \in Texts : Breaks(Folded(s)) = {} <=> Breaks(s) = {}}
<1>1. <<>> \in P
  <2>1. <<>> \in Texts
    BY SMT DEF Texts
  <2> QED
    BY <2>1, FoldedNothing
<1>2. ASSUME NEW s \in P, NEW c \in Chars
      PROVE  Append(s, c) \in P
  <2> DEFINE x == <<c>>
  <2>1. Append(s, c) = s \o x /\ x \in Texts /\ Len(x) = 1 /\ x[1] = c
    <3>1. s \in Seq(Chars) /\ <<c>> \in Seq(Chars)
      BY OneCharacter DEF Texts
    <3>2. Append(s, c) = s \o <<c>>
      BY <3>1, SMT
    <3> QED
      BY <3>2, OneCharacter
  <2>2. Fold[c] \in Texts /\ Folded(x) = Fold[c]
    BY FoldedCharacter
  <2>3. Breaks(x) = {} <=> c # Newline
    <3> HIDE DEF x
    <3>1. Breaks(x) = {} <=> \A i \in 1 .. 1 : x[i] # Newline
      BY <2>1, BreaksOfElements
    <3> QED
      BY <2>1, <3>1, SMT
  <2>4. Breaks(Fold[c]) = {} <=> c # Newline
    <3>1. Breaks(Fold[c]) = {} <=> \A i \in 1 .. Len(Fold[c]) : Fold[c][i] # Newline
      BY <2>2, BreaksOfElements
    <3>2. CASE c = Newline
      <4>1. Fold[c] = <<Newline>>
        BY <3>2, FoldingIsText
      <4>2. 1 \in 1 .. Len(<<Newline>>) /\ <<Newline>>[1] = Newline
        BY SMT
      <4> QED
        BY <3>1, <3>2, <4>1, <4>2
    <3>3. CASE c # Newline
      <4>1. \A i \in DOMAIN Fold[c] : Fold[c][i] # Newline
        BY <3>3, FoldingIsText
      <4>2. DOMAIN Fold[c] = 1 .. Len(Fold[c])
        BY <2>2, SMT DEF Texts
      <4> QED
        BY <3>1, <3>3, <4>1, <4>2
    <3> QED
      BY <3>2, <3>3
  <2>5. Folded(s \o x) = Folded(s) \o Fold[c] /\ Folded(s) \in Texts
    <3>1. s \in Texts
      OBVIOUS
    <3> HIDE DEF x
    <3>2. Folded(s \o x) = Folded(s) \o Folded(x)
      BY <2>1, <3>1, FoldedJoin, Zenon
    <3> QED
      BY <2>2, <3>1, <3>2, FoldedText, Zenon
  <2>6. Breaks(s \o x) = {} <=> Breaks(s) = {} /\ Breaks(x) = {}
    BY <2>1, BreaksOfJoin
  <2>7. Breaks(Folded(s) \o Fold[c]) = {} <=> Breaks(Folded(s)) = {} /\ Breaks(Fold[c]) = {}
    BY <2>2, <2>5, BreaksOfJoin
  <2>8. s \o x \in Texts
    BY <2>1, Glue
  <2> QED
    BY <2>1, <2>3, <2>4, <2>5, <2>6, <2>7, <2>8
<1> HIDE DEF P
<1>3. t \in Seq(Chars)
  BY DEF Texts
<1>4. \A k \in 0 .. Len(t) - 1 :
        SubSeq(t, 1, k) \in P => Append(SubSeq(t, 1, k), t[k + 1]) \in P
  <2> TAKE k \in 0 .. Len(t) - 1
  <2>1. t[k + 1] \in Chars
    BY <1>3, SMT
  <2> QED
    BY <1>2, <2>1
<1>5. t \in P
  BY <1>1, <1>3, <1>4, FromBeginnings
<1> QED
  BY <1>5 DEF P

LEMMA RangeElements ==
  ASSUME NEW t \in Texts, NEW a \in Nat, NEW b \in Nat, a =< b, b =< Len(t)
  PROVE  /\ SubSeq(t, a + 1, b) \in Texts /\ Len(SubSeq(t, a + 1, b)) = b - a
         /\ \A i \in 1 .. b - a : SubSeq(t, a + 1, b)[i] = t[a + i]
  BY SMT DEF Texts

LEMMA ReadUnbroken ==
  ASSUME NEW t \in Texts, NEW a \in Nat, NEW b \in Nat, a =< b, b =< Len(t),
         Breaks(SubSeq(t, a + 1, b)) = {}
  PROVE  Unbroken(t, a, b)
<1> DEFINE x == SubSeq(t, a + 1, b)
<1>1. x \in Texts /\ Len(x) = b - a /\ \A i \in 1 .. b - a : x[i] = t[a + i]
  BY RangeElements
<1>2. \A i \in 1 .. b - a : x[i] # Newline
  <2>1. Breaks(x) = {}
    OBVIOUS
  <2> HIDE DEF x
  <2> QED
    BY <1>1, <2>1, BreaksOfElements
<1> HIDE DEF x
<1>3. ASSUME NEW i \in Breaks(t), a =< i, i < b
      PROVE  FALSE
  <2>1. i \in Nat /\ t[i + 1] = Newline
    BY BreaksAndStarts DEF Breaks
  <2> DEFINE k == i - a + 1
  <2>2. k \in 1 .. b - a /\ a + k = i + 1
    BY <1>3, <2>1, SMT
  <2> HIDE DEF k
  <2>3. x[k] = t[i + 1]
    BY <1>1, <2>2
  <2> QED
    BY <1>2, <2>1, <2>2, <2>3
<1> QED
  BY <1>3 DEF Unbroken

(* A range of a line is a range of the text, shifted.                      *)
WithinLine(t, s, a, b) ==
  /\ s \in Nat /\ a + s \in Nat /\ b + s \in Nat /\ b + s =< Len(t)
  /\ SubSeq(Line(t, s), a + 1, b) = SubSeq(t, (a + s) + 1, b + s)

LEMMA RangeInLine ==
  ASSUME NEW t \in Texts, NEW s \in LineStarts(t), NEW a \in Nat, NEW b \in Nat, a =< b,
         b =< Len(Line(t, s))
  PROVE  WithinLine(t, s, a, b)
<1> DEFINE x == Line(t, s)
           e == LineEnd(t, s)
<1>1. x \in Texts /\ Len(x) = e - s /\ x = SubSeq(t, s + 1, e)
  BY LineText
<1>2. s \in Nat /\ e \in Nat /\ s =< e /\ e =< Len(t) /\ Len(t) \in Nat
  BY LinesInOrder, BreaksAndStarts
<1>3. b =< Len(x)
  OBVIOUS
<1> HIDE DEF x, e
<1>4. /\ s \in Nat /\ a + s \in Nat /\ b + s \in Nat /\ a + s =< b + s /\ b + s =< e
      /\ b + s =< Len(t)
  BY <1>1, <1>2, <1>3, SMT
<1>5. SubSeq(x, a + 1, b) = SubSeq(t, (a + s) + 1, b + s)
  <2> DEFINE y == SubSeq(t, s + 1, e)
             c == a + s
             d == b + s
  <2>1. y \in Texts /\ Len(y) = e - s /\ \A i \in 1 .. e - s : y[i] = t[s + i]
    BY <1>2, RangeElements
  <2>2. b =< Len(y)
    BY <1>1, <1>3
  <2>3. c \in Nat /\ d \in Nat /\ c =< d /\ d =< Len(t) /\ d - c = b - a /\ b =< e - s
    BY <1>1, <1>3, <1>4, SMT
  <2> HIDE DEF y, c, d
  <2> DEFINE u == SubSeq(y, a + 1, b)
             v == SubSeq(t, c + 1, d)
  <2>4. u \in Texts /\ Len(u) = b - a /\ \A i \in 1 .. b - a : u[i] = y[a + i]
    BY <2>1, <2>2, RangeElements
  <2>5. v \in Texts /\ Len(v) = b - a /\ \A i \in 1 .. b - a : v[i] = t[c + i]
    <3>1. Len(v) = d - c /\ v \in Texts /\ \A i \in 1 .. d - c : v[i] = t[c + i]
      BY <2>3, RangeElements
    <3> QED
      BY <2>3, <3>1
  <2> HIDE DEF u, v
  <2>6. \A i \in 1 .. b - a : u[i] = v[i]
    <3> TAKE i \in 1 .. b - a
    <3>1. a + i \in 1 .. e - s /\ s + (a + i) = c + i
      <4>1. c = a + s
        BY DEF c
      <4> QED
        BY <1>2, <2>3, <4>1, SMT
    <3> DEFINE j == a + i
    <3>2. y[j] = t[s + j] /\ s + j = c + i
      BY <2>1, <3>1
    <3> QED
      BY <2>4, <2>5, <3>2
  <2>7. u = v
    BY <2>4, <2>5, <2>6, SMT DEF Texts
  <2> QED
    BY <1>1, <2>7 DEF u, v, y, c, d
<1> QED
  BY <1>4, <1>5 DEF x, WithinLine
-----------------------------------------------------------------------------
(* The first of some matches starts where no other starts before it.       *)

IsLeftmost(A, r) == \/ A = {} /\ r = NoMatch
                    \/ r \in A /\ \A m \in A : r[1] =< m[1]

IsRightmost(A, r) == \/ A = {} /\ r = NoMatch
                     \/ r \in A /\ \A m \in A : m[1] =< r[1]

(* Matches differ in their starts.                                         *)
Apart(A) == \A m, n \in A : m[1] = n[1] => m = n

LEMMA NoMatchOutside == NoMatch \notin Nat \X Nat /\ NoMatch[1] = -1 /\ NoMatch[2] = -1
<1>1. -1 \notin Nat
  BY SMT
<1>2. NoMatch[1] = -1 /\ NoMatch[2] = -1
  BY DEF NoMatch, NotFound
<1>3. \A m \in Nat \X Nat : m[1] \in Nat
  OBVIOUS
<1> QED
  BY <1>1, <1>2, <1>3

LEMMA LeftmostCovers ==
  ASSUME NEW A \in SUBSET (Nat \X Nat), NEW S, S \subseteq A \cup {NoMatch},
         \A m \in A : \E e \in S \ {NoMatch} : e[1] =< m[1]
  PROVE  IsLeftmost(A, Leftmost(S))
<1>1. CASE S \subseteq {NoMatch}
  <2>1. A = {}
    BY <1>1
  <2> QED
    BY <1>1, <2>1 DEF Leftmost, IsLeftmost
<1>2. CASE ~(S \subseteq {NoMatch})
  <2> DEFINE R == S \ {NoMatch}
             F == {m[1] : m \in R}
             r == Leftmost(S)
  <2>1. R \subseteq A /\ R # {} /\ \A m \in R : m[1] \in Nat
    BY <1>2, NoMatchOutside
  <2>2. F \in SUBSET Nat /\ F # {}
    BY <2>1
  <2>3. Min(F) \in F /\ \A y \in F : Min(F) =< y
    <3> HIDE DEF F
    <3> QED
      BY <2>2, LeastOf
  <2>4. PICK m \in R : m[1] = Min(F)
    BY <2>3
  <2>5. \A k \in R : m[1] =< k[1]
    BY <2>3, <2>4
  <2>6. r = CHOOSE x \in R : \A k \in R : x[1] =< k[1]
    BY <1>2 DEF Leftmost
  <2>7. r \in R /\ \A k \in R : r[1] =< k[1]
    <3> HIDE DEF r, R
    <3> QED
      BY <2>5, <2>6
  <2>8. \A x \in A : r[1] =< x[1]
    <3> TAKE x \in A
    <3>1. PICK k \in R : k[1] =< x[1]
      OBVIOUS
    <3>2. r[1] =< k[1] /\ r[1] \in Nat /\ k[1] \in Nat /\ x[1] \in Nat
      BY <2>1, <2>7
    <3> DEFINE p == r[1]
               q == k[1]
               z == x[1]
    <3>3. p \in Nat /\ q \in Nat /\ z \in Nat /\ p =< q /\ q =< z
      BY <3>1, <3>2
    <3> HIDE DEF p, q, z
    <3>4. p =< z
      BY <3>3, SMT
    <3> QED
      BY <3>4 DEF p, z
  <2> QED
    BY <2>1, <2>7, <2>8 DEF IsLeftmost
<1> QED
  BY <1>1, <1>2

LEMMA RightmostCovers ==
  ASSUME NEW n \in Nat, NEW A \in SUBSET ((0 .. n) \X (0 .. n)), NEW S,
         S \subseteq A \cup {NoMatch},
         \A m \in A : \E e \in S \ {NoMatch} : m[1] =< e[1]
  PROVE  IsRightmost(A, Rightmost(S))
<1>1. CASE S \subseteq {NoMatch}
  <2>1. A = {}
    BY <1>1
  <2> QED
    BY <1>1, <2>1 DEF Rightmost, IsRightmost
<1>2. CASE ~(S \subseteq {NoMatch})
  <2> DEFINE R == S \ {NoMatch}
             F == {m[1] : m \in R}
             r == Rightmost(S)
  <2>1. R \subseteq A /\ R # {} /\ (\A m \in R : m[1] \in 0 .. n) /\ \A m \in A : m[1] \in 0 .. n
    BY <1>2
  <2>2. F \in SUBSET (0 .. n) /\ F # {}
    BY <2>1
  <2>3. Max(F) \in F /\ \A y \in F : y =< Max(F)
    <3> HIDE DEF F
    <3> QED
      BY <2>2, GreatestOf
  <2>4. PICK m \in R : m[1] = Max(F)
    BY <2>3
  <2>5. \A k \in R : k[1] =< m[1]
    BY <2>3, <2>4
  <2>6. m[1] \in Nat /\ \A k \in S : k[1] =< m[1]
    <3>1. m[1] \in 0 .. n
      BY <2>1
    <3> DEFINE p == m[1]
    <3>2. p \in Nat /\ -1 =< p
      <4>1. p \in 0 .. n
        BY <3>1
      <4> HIDE DEF p
      <4> QED
        BY <4>1, SMT
    <3> QED
      BY <2>5, <3>2, NoMatchOutside
  <2>7. r = CHOOSE x \in S : \A k \in S : k[1] =< x[1]
    BY <1>2 DEF Rightmost
  <2>8. r \in S /\ \A k \in S : k[1] =< r[1]
    <3>1. m \in S
      OBVIOUS
    <3> HIDE DEF r
    <3> QED
      BY <2>6, <2>7, <3>1
  <2>9. r # NoMatch
    <3> SUFFICES ASSUME r = NoMatch PROVE FALSE
      OBVIOUS
    <3>1. m[1] =< r[1]
      BY <2>8
    <3>2. m[1] =< -1
      BY <3>1, NoMatchOutside
    <3> DEFINE p == m[1]
    <3> HIDE DEF p
    <3>3. p \in Nat /\ p =< -1
      BY <2>6, <3>2 DEF p
    <3> QED
      BY <3>3, SMT
  <2>10. r \in A
    BY <2>8, <2>9
  <2>11. \A x \in A : x[1] =< r[1]
    <3> TAKE x \in A
    <3>1. PICK k \in R : x[1] =< k[1]
      OBVIOUS
    <3>2. k[1] =< r[1] /\ r[1] \in 0 .. n /\ k[1] \in 0 .. n /\ x[1] \in 0 .. n
      BY <2>1, <2>8, <2>10
    <3> DEFINE p == r[1]
               q == k[1]
               z == x[1]
    <3>3. p \in 0 .. n /\ q \in 0 .. n /\ z \in 0 .. n /\ z =< q /\ q =< p
      BY <3>1, <3>2
    <3> HIDE DEF p, q, z
    <3>4. z =< p
      BY <3>3, SMT
    <3> QED
      BY <3>4 DEF p, z
  <2> QED
    BY <2>10, <2>11 DEF IsRightmost
<1> QED
  BY <1>1, <1>2

(* Where matches differ in their starts, there is only one first.          *)
LEMMA LeftmostIs ==
  ASSUME NEW A \in SUBSET (Nat \X Nat), Apart(A), NEW r, IsLeftmost(A, r)
  PROVE  Leftmost(A) = r
<1> DEFINE l == Leftmost(A)
<1>1. IsLeftmost(A, l)
  <2>1. \A m \in A : m \in A \ {NoMatch} /\ m[1] =< m[1]
    <3> TAKE m \in A
    <3>1. m[1] \in Nat
      OBVIOUS
    <3> DEFINE p == m[1]
    <3>2. p =< p
      <4>1. p \in Nat
        BY <3>1
      <4> HIDE DEF p
      <4> QED
        BY <4>1, SMT
    <3> QED
      BY <3>2, NoMatchOutside
  <2> QED
    BY <2>1, LeftmostCovers
<1> HIDE DEF l
<1>2. CASE A = {}
  BY <1>1, <1>2 DEF IsLeftmost, l
<1>3. CASE A # {}
  <2>1. l \in A /\ r \in A /\ l[1] =< r[1] /\ r[1] =< l[1] /\ l[1] \in Nat /\ r[1] \in Nat
    BY <1>1, <1>3 DEF IsLeftmost
  <2> DEFINE p == l[1]
             q == r[1]
  <2>2. p \in Nat /\ q \in Nat /\ p =< q /\ q =< p
    BY <2>1
  <2> HIDE DEF p, q
  <2>3. p = q
    BY <2>2, SMT
  <2>4. l = r
    BY <2>1, <2>3 DEF Apart, p, q
  <2> QED
    BY <2>4 DEF l
<1> QED
  BY <1>2, <1>3

LEMMA RightmostIs ==
  ASSUME NEW n \in Nat, NEW A \in SUBSET ((0 .. n) \X (0 .. n)), Apart(A), NEW r, IsRightmost(A, r)
  PROVE  Rightmost(A) = r
<1> DEFINE l == Rightmost(A)
<1>0. A \subseteq Nat \X Nat
  <2>1. 0 .. n \subseteq Nat
    BY SMT
  <2> QED
    BY <2>1
<1>1. IsRightmost(A, l)
  <2>1. \A m \in A : m \in A \ {NoMatch} /\ m[1] =< m[1]
    <3> TAKE m \in A
    <3>1. m[1] \in Nat
      BY <1>0
    <3> DEFINE p == m[1]
    <3>2. p =< p
      <4>1. p \in Nat
        BY <3>1
      <4> HIDE DEF p
      <4> QED
        BY <4>1, SMT
    <3> QED
      BY <1>0, <3>2, NoMatchOutside
  <2> QED
    BY <2>1, RightmostCovers
<1> HIDE DEF l
<1>2. CASE A = {}
  BY <1>1, <1>2 DEF IsRightmost, l
<1>3. CASE A # {}
  <2>1. l \in A /\ r \in A /\ l[1] =< r[1] /\ r[1] =< l[1] /\ l[1] \in Nat /\ r[1] \in Nat
    BY <1>0, <1>1, <1>3 DEF IsRightmost
  <2> DEFINE p == l[1]
             q == r[1]
  <2>2. p \in Nat /\ q \in Nat /\ p =< q /\ q =< p
    BY <2>1
  <2> HIDE DEF p, q
  <2>3. p = q
    BY <2>2, SMT
  <2>4. l = r
    BY <2>1, <2>3 DEF Apart, p, q
  <2> QED
    BY <2>4 DEF l
<1> QED
  BY <1>2, <1>3

LEMMA LineMatchesApart ==
  ASSUME NEW t \in Texts, NEW fq \in Texts
  PROVE  Apart(LineMatches(t, fq)) /\ LineMatches(t, fq) \subseteq (0 .. Len(t)) \X (0 .. Len(t))
<1>1. ASSUME NEW m \in LineMatches(t, fq), NEW n \in LineMatches(t, fq), m[1] = n[1]
      PROVE  m = n
  <2>1. /\ SourceMatch(t, fq, FoldedStart(t, m[1])) = m
        /\ SourceMatch(t, fq, FoldedStart(t, n[1])) = n
    BY MatchesHaveStarts
  <2> QED
    BY <1>1, <2>1
<1> QED
  BY <1>1 DEF Apart, LineMatches
-----------------------------------------------------------------------------
(* Without Match Case: the matches of the text are those of its lines.     *)

LEMMA RangesInLine ==
  ASSUME NEW t \in Texts, NEW s \in LineStarts(t)
  PROVE  \A x, y \in Nat : x =< y /\ y =< Len(Line(t, s)) =>
           /\ s \in Nat /\ x + s \in Nat /\ y + s \in Nat /\ y + s =< Len(t)
           /\ SubSeq(Line(t, s), x + 1, y) = SubSeq(t, (x + s) + 1, y + s)
<1> SUFFICES ASSUME NEW x \in Nat, NEW y \in Nat, x =< y, y =< Len(Line(t, s))
             PROVE  WithinLine(t, s, x, y)
  BY Zenon DEF WithinLine
<1> QED
  BY RangeInLine

LEMMA MatchOfLine ==
  ASSUME NEW t \in Texts, NEW s \in LineStarts(t), NEW fq \in Texts,
         NEW m \in LineMatches(Line(t, s), fq)
  PROVE  /\ Shifted(m, s) = <<m[1] + s, m[2] + s>>
         /\ Shifted(m, s) \in LineMatches(t, fq)
         /\ m[1] \in Nat /\ m[2] \in Nat /\ s \in Nat
         /\ m[2] + s =< LineEnd(t, s)
<1> DEFINE line == Line(t, s)
           e == LineEnd(t, s)
           a == m[1]
           b == m[2]
           c == a + s
           d == b + s
<1>1. line \in Texts /\ Len(line) = e - s
  BY LineText
<1>2. a \in Nat /\ b \in Nat /\ a < b /\ b =< Len(line)
  <2> HIDE DEF line
  <2> QED
    BY <1>1, MatchesHaveStarts DEF line
<1>3. Folded(SubSeq(line, a + 1, b)) = fq
  BY DEF LineMatches
<1>4. m # NoMatch
  <2>1. m[1] # -1
    <3> HIDE DEF a
    <3>1. a # -1
      BY <1>2, SMT
    <3> QED
      BY <3>1 DEF a
  <2> QED
    BY <2>1, NoMatchOutside
<1>5. Shifted(m, s) = <<c, d>>
  BY <1>4 DEF Shifted
<1>6. /\ s \in Nat /\ c \in Nat /\ d \in Nat /\ d =< Len(t)
      /\ SubSeq(line, a + 1, b) = SubSeq(t, c + 1, d)
  <2>1. a =< b
    <3> HIDE DEF a, b, line
    <3> QED
      BY <1>2, SMT
  <2>2. b =< Len(Line(t, s)) /\ a \in Nat /\ b \in Nat
    BY <1>2
  <2>3. \A x, y \in Nat : x =< y /\ y =< Len(Line(t, s)) =>
          /\ s \in Nat /\ x + s \in Nat /\ y + s \in Nat /\ y + s =< Len(t)
          /\ SubSeq(Line(t, s), x + 1, y) = SubSeq(t, (x + s) + 1, y + s)
    BY RangesInLine
  <2> HIDE DEF a, b
  <2> QED
    BY <2>1, <2>2, <2>3
<1>7. e \in Nat /\ Len(t) \in Nat
  BY LinesInOrder, BreaksAndStarts
<1>8. c < d /\ d =< e /\ c \in 0 .. Len(t) /\ d \in 0 .. Len(t)
  <2>1. c = a + s /\ d = b + s
    OBVIOUS
  <2> HIDE DEF line, a, b, c, d, e
  <2> QED
    BY <1>1, <1>2, <1>6, <1>7, <2>1, SMT
<1>9. <<c, d>> \in LineMatches(t, fq)
  <2> DEFINE x == SubSeq(t, c + 1, d)
  <2>1. Folded(x) = fq
    BY <1>3, <1>6
  <2> HIDE DEF c, d
  <2>2. <<c, d>>[1] = c /\ <<c, d>>[2] = d
    OBVIOUS
  <2> QED
    BY <1>8, <2>1, <2>2 DEF LineMatches
<1> QED
  BY <1>2, <1>5, <1>6, <1>8, <1>9

LEMMA LineOfMatch ==
  ASSUME NEW t \in Texts, NEW q \in Texts, Breaks(q) = {}, NEW m \in LineMatches(t, Folded(q)),
         NEW s, s = LineStart(t, m[1])
  PROVE  /\ m[1] \in Nat /\ m[2] \in Nat /\ m[1] < m[2] /\ m[2] =< Len(t)
         /\ s \in LineStarts(t) /\ s \in Nat /\ s =< m[1] /\ m[2] =< LineEnd(t, s)
         /\ <<m[1] - s, m[2] - s>> \in LineMatches(Line(t, s), Folded(q))
         /\ m[1] - s \in Nat /\ m[2] - s \in Nat
         /\ m[2] - s =< Len(Line(t, s))
<1> DEFINE fq == Folded(q)
           a == m[1]
           b == m[2]
           x == SubSeq(t, a + 1, b)
<1>1. fq \in Texts /\ Breaks(fq) = {}
  BY FoldedText, FoldedBreaks
<1>2. a \in Nat /\ b \in Nat /\ a < b /\ b =< Len(t)
  BY <1>1, MatchesHaveStarts
<1>3. a =< b
  <2> HIDE DEF a, b
  <2> QED
    BY <1>2, SMT
<1>4. Folded(x) = fq
  BY DEF LineMatches
<1>5. x \in Texts
  <2> HIDE DEF a, b
  <2> QED
    BY <1>2, <1>3, RangeElements
<1>6. Breaks(x) = {}
  <2> HIDE DEF x
  <2> QED
    BY <1>1, <1>4, <1>5, FoldedBreaks
<1>7. Unbroken(t, a, b)
  <2> HIDE DEF a, b
  <2> QED
    BY <1>2, <1>3, <1>6, ReadUnbroken DEF x
<1>8. s \in LineStarts(t) /\ s \in 0 .. a /\ LineEnd(t, s) \in b .. Len(t)
  <2> HIDE DEF a, b
  <2> QED
    BY <1>2, <1>3, <1>7, LineAround DEF a
<1> DEFINE line == Line(t, s)
           e == LineEnd(t, s)
           c == a - s
           d == b - s
<1>9. line \in Texts /\ Len(line) = e - s
  BY <1>8, LineText
<1>10. e \in Nat /\ Len(t) \in Nat
  BY <1>8, LinesInOrder, BreaksAndStarts
<1>11. /\ s \in Nat /\ s =< a /\ b =< e /\ c \in Nat /\ d \in Nat /\ c < d /\ c =< d
       /\ d =< Len(line) /\ c \in 0 .. Len(line) /\ d \in 0 .. Len(line)
       /\ c + s = a /\ d + s = b
  <2>1. e \in b .. Len(t)
    BY <1>8
  <2>2. c = a - s /\ d = b - s
    OBVIOUS
  <2> DEFINE w == Len(line)
             l == Len(t)
  <2>3. /\ w = e - s /\ e \in Nat /\ l \in Nat /\ s \in 0 .. a /\ e \in b .. l
    BY <1>8, <1>9, <1>10, <2>1
  <2>4. a \in Nat /\ b \in Nat /\ a < b
    BY <1>2
  <2> HIDE DEF line, a, b, c, d, e, w, l
  <2>5. /\ s \in Nat /\ s =< a /\ b =< e /\ c \in Nat /\ d \in Nat /\ c < d /\ c =< d
        /\ d =< w /\ c \in 0 .. w /\ d \in 0 .. w /\ c + s = a /\ d + s = b
    BY <2>2, <2>3, <2>4, SMT
  <2> QED
    BY <2>5 DEF w
<1>12. SubSeq(line, c + 1, d) = x
  <2>1. d =< Len(Line(t, s)) /\ c \in Nat /\ d \in Nat /\ c =< d
    BY <1>11
  <2>2. \A k, l \in Nat : k =< l /\ l =< Len(Line(t, s)) =>
          /\ s \in Nat /\ k + s \in Nat /\ l + s \in Nat /\ l + s =< Len(t)
          /\ SubSeq(Line(t, s), k + 1, l) = SubSeq(t, (k + s) + 1, l + s)
    BY <1>8, RangesInLine
  <2> HIDE DEF c, d, a, b
  <2>3. SubSeq(line, c + 1, d) = SubSeq(t, (c + s) + 1, d + s)
    BY <2>1, <2>2
  <2> QED
    BY <1>11, <2>3 DEF x
<1>13. <<c, d>> \in LineMatches(line, fq)
  <2> HIDE DEF c, d, x, line, fq
  <2>1. <<c, d>>[1] = c /\ <<c, d>>[2] = d
    OBVIOUS
  <2> QED
    BY <1>4, <1>11, <1>12, <2>1 DEF LineMatches
<1> QED
  BY <1>2, <1>8, <1>11, <1>13

(* The caret is inside its line.                                           *)
LEMMA OffsetInLine ==
  ASSUME NEW t \in Texts, NEW o \in 0 .. Len(t), NEW s, s = LineStart(t, o)
  PROVE  s \in LineStarts(t) /\ s \in Nat /\ s =< o /\ o =< LineEnd(t, s) /\ o - s \in 0 .. Len(Line(t, s))
<1> DEFINE e == LineEnd(t, s)
           line == Line(t, s)
<1>1. o \in Nat /\ o =< Len(t) /\ o =< o /\ Len(t) \in Nat
  <2>1. Len(t) \in Nat
    BY BreaksAndStarts
  <2> QED
    BY <2>1, SMT
<1>2. Unbroken(t, o, o)
  <2>1. \A i \in Breaks(t) : i \in Nat
    BY BreaksAndStarts
  <2>2. \A i \in Nat : ~(o =< i /\ i < o)
    BY <1>1, SMT
  <2> QED
    BY <2>1, <2>2 DEF Unbroken
<1>3. s \in LineStarts(t) /\ s \in 0 .. o /\ e \in o .. Len(t)
  BY <1>1, <1>2, LineAround
<1>4. Len(line) = e - s
  BY <1>3, LineText
<1> HIDE DEF e, line
<1>5. s \in Nat /\ s =< o /\ o =< e /\ o - s \in 0 .. Len(line)
  BY <1>1, <1>3, <1>4, SMT
<1> QED
  BY <1>3, <1>5 DEF e, line

LEMMA FoldedNextIs ==
  ASSUME NEW t \in Texts, NEW q \in Texts, Breaks(q) = {}, NEW from \in 0 .. Len(t)
  PROVE  IsLeftmost({m \in LineMatches(t, Folded(q)) : m[1] >= from}, FoldedNext(t, q, from))
<1> DEFINE fq == Folded(q)
           here == LineStart(t, from)
           Off(s) == IF s = here THEN from - here ELSE 0
           InLine(s) == FoldedFindForward(Line(t, s), fq, Off(s))
           K == {l \in LineStarts(t) : l >= here}
           S == {Shifted(InLine(s), s) : s \in K}
           A == {m \in LineMatches(t, fq) : m[1] >= from}
           B(s) == {m \in LineMatches(Line(t, s), fq) : m[1] >= Off(s)}
<1>1. FoldedNext(t, q, from) = Leftmost(S)
  BY DEF FoldedNext
<1>2. fq \in Texts
  BY FoldedText
<1>3. here \in LineStarts(t) /\ here \in Nat /\ here =< from /\ from - here \in 0 .. Len(Line(t, here))
  BY OffsetInLine
<1>4. from \in Nat
  <2>1. Len(t) \in Nat
    BY BreaksAndStarts
  <2> QED
    BY <2>1, SMT
<1>5. \A s \in K : s \in LineStarts(t) /\ s \in Nat /\ s >= here
      /\ Line(t, s) \in Texts /\ Off(s) \in 0 .. Len(Line(t, s)) /\ Off(s) \in Nat
      /\ (s = here \/ s > from)
      /\ Off(s) + s >= from
  <2> TAKE s \in K
  <2>1. s \in LineStarts(t) /\ s \in Nat /\ s >= here /\ Line(t, s) \in Texts
    BY LinesInOrder, LineText
  <2>2. s =< from => s =< here
    BY <1>4, <2>1, LineStartsBefore
  <2> DEFINE n == Len(Line(t, s))
  <2>3. n \in Nat
    <3> DEFINE x == Line(t, s)
    <3>1. x \in Texts
      BY <2>1
    <3> HIDE DEF x
    <3>2. Len(x) \in Nat
      BY <3>1, SMT DEF Texts
    <3> QED
      BY <3>2 DEF x
  <2> DEFINE o == Off(s)
  <2>4. (s = here => o = from - here /\ o \in 0 .. n) /\ (s # here => o = 0)
    BY <1>3
  <2> HIDE DEF n, o, here
  <2>5. o \in 0 .. n /\ o \in Nat /\ (s = here \/ s > from) /\ o + s >= from
    BY <1>3, <1>4, <2>1, <2>2, <2>3, <2>4, SMT
  <2> QED
    BY <2>1, <2>5 DEF n, o
<1>6. \A s \in K : \/ B(s) = {} /\ InLine(s) = NoMatch
                   \/ InLine(s) \in B(s) /\ \A m \in B(s) : InLine(s)[1] =< m[1]
  <2> TAKE s \in K
  <2> DEFINE line == Line(t, s)
             o == Off(s)
  <2>1. line \in Texts /\ o \in 0 .. Len(line)
    <3> HIDE DEF Off
    <3> QED
      BY <1>5
  <2> HIDE DEF line, o
  <2>2. LET C == {m \in LineMatches(line, fq) : m[1] >= o}
            r == FoldedFindForward(line, fq, o)
        IN  \/ C = {} /\ r = NoMatch
            \/ r \in C /\ \A m \in C : r[1] =< m[1]
    <3> HIDE DEF fq
    <3> QED
      BY <1>2, <2>1, FindForwardInLine
  <2> QED
    BY <2>2 DEF line, o
<1> HIDE DEF fq, Off, InLine, B
<1>7. \A s \in K : Shifted(InLine(s), s) \in A \cup {NoMatch}
  <2> TAKE s \in K
  <2>1. CASE InLine(s) = NoMatch
    BY <2>1 DEF Shifted
  <2>2. CASE InLine(s) \in B(s)
    <3> DEFINE r == InLine(s)
    <3>1. r \in LineMatches(Line(t, s), fq) /\ r[1] >= Off(s)
      BY <2>2 DEF B
    <3>2. /\ Shifted(r, s) = <<r[1] + s, r[2] + s>> /\ Shifted(r, s) \in LineMatches(t, fq)
          /\ r[1] \in Nat
      <4> HIDE DEF r
      <4> QED
        BY <1>2, <1>5, <3>1, MatchOfLine
    <3> DEFINE p == r[1]
               o == Off(s)
    <3>3. p \in Nat /\ o \in Nat /\ s \in Nat /\ p >= o /\ o + s >= from
      <4> HIDE DEF A, S, K, r
      <4>1. s \in K
        OBVIOUS
      <4> QED
        BY <1>5, <3>1, <3>2, <4>1
    <3>4. p + s >= from
      <4> HIDE DEF p, o
      <4> QED
        BY <1>4, <3>3, SMT
    <3>5. Shifted(r, s)[1] = p + s
      BY <3>2
    <3> QED
      BY <3>2, <3>4, <3>5
  <2> QED
    BY <1>6, <2>1, <2>2
<1>8. \A m \in A : \E e \in S \ {NoMatch} : e[1] =< m[1]
  <2> TAKE m \in A
  <2> DEFINE s == LineStart(t, m[1])
  <2>1. m \in LineMatches(t, fq) /\ m[1] >= from
    OBVIOUS
  <2>2. /\ m[1] \in Nat
        /\ s \in LineStarts(t) /\ s \in Nat /\ s =< m[1]
        /\ <<m[1] - s, m[2] - s>> \in LineMatches(Line(t, s), fq)
        /\ m[1] - s \in Nat
    BY <2>1, LineOfMatch DEF fq
  <2>3. here =< m[1] => here =< s
    BY <1>3, <2>2, LineStartsBefore
  <2> DEFINE p == m[1]
             c == p - s
             k == <<c, m[2] - s>>
  <2>4. here =< s
    <3>1. p \in Nat /\ p >= from /\ (here =< p => here =< s)
      BY <2>1, <2>2, <2>3
    <3> HIDE DEF p, here, s
    <3> QED
      BY <1>3, <1>4, <3>1, SMT
  <2>5. s \in K
    BY <2>2, <2>4, <1>3, SMT
  <2>6. k \in B(s)
    <3>1. k \in LineMatches(Line(t, s), fq) /\ k[1] = c
      BY <2>2
    <3>2. c >= Off(s)
      <4>1. p >= from /\ p \in Nat /\ (s = here => Off(s) = from - here) /\ (s # here => Off(s) = 0)
            /\ c \in Nat /\ s \in Nat /\ c = p - s
        BY <2>1, <2>2 DEF Off
      <4> DEFINE o == Off(s)
      <4>2. (s = here => o = from - here) /\ (s # here => o = 0)
        BY <4>1
      <4> HIDE DEF p, c, s, o, here
      <4>3. c >= o
        BY <1>3, <1>4, <4>1, <4>2, SMT
      <4> QED
        BY <4>3 DEF o
    <3> QED
      BY <3>1, <3>2 DEF B
  <2> DEFINE r == InLine(s)
  <2>7. r \in B(s) /\ r[1] =< c
    <3>1. r \in B(s) /\ \A x \in B(s) : r[1] =< x[1]
      BY <1>6, <2>5, <2>6
    <3>2. r[1] =< k[1] /\ k[1] = c
      BY <2>6, <3>1
    <3> QED
      BY <3>1, <3>2
  <2>8. /\ Shifted(r, s) = <<r[1] + s, r[2] + s>> /\ r[1] \in Nat
    <3>1. r \in LineMatches(Line(t, s), fq)
      BY <2>7 DEF B
    <3> HIDE DEF r, s
    <3> QED
      BY <1>2, <2>2, <3>1, MatchOfLine
  <2> DEFINE e == Shifted(r, s)
             z == r[1]
  <2>9. e[1] = z + s
    BY <2>8
  <2>10. z + s =< p /\ z + s # -1
    <3>1. z \in Nat /\ z =< c /\ c \in Nat /\ c = p - s /\ s \in Nat /\ p \in Nat
      BY <2>2, <2>7, <2>8
    <3> HIDE DEF z, c, s, p
    <3> QED
      BY <3>1, SMT
  <2>11. e \in S
    BY <2>5
  <2>12. e # NoMatch
    <3> HIDE DEF e, z
    <3> QED
      BY <2>9, <2>10, NoMatchOutside
  <2> QED
    BY <2>9, <2>10, <2>11, <2>12
<1>9. A \in SUBSET (Nat \X Nat)
  <2>1. \A m \in LineMatches(t, fq) : m[1] \in Nat /\ m[2] \in Nat /\ m = <<m[1], m[2]>>
    <3>1. \A m \in LineMatches(t, fq) : m = <<m[1], m[2]>>
      BY DEF LineMatches
    <3> QED
      BY <1>2, <3>1, MatchesHaveStarts
  <2> QED
    BY <2>1
<1>10. S \subseteq A \cup {NoMatch}
  BY <1>7
<1> HIDE DEF A, S
<1>11. IsLeftmost(A, Leftmost(S))
  BY <1>8, <1>9, <1>10, LeftmostCovers
<1> QED
  BY <1>1, <1>11 DEF A, fq

LEMMA FoldedPreviousIs ==
  ASSUME NEW t \in Texts, NEW q \in Texts, Breaks(q) = {}, NEW stop \in 0 .. Len(t)
  PROVE  IsRightmost({m \in LineMatches(t, Folded(q)) : m[2] =< stop}, FoldedPrevious(t, q, stop))
<1> DEFINE fq == Folded(q)
           here == LineStart(t, stop)
           Off(s) == IF s = here THEN stop - here ELSE Len(Line(t, s))
           InLine(s) == FoldedFindBackward(Line(t, s), fq, Off(s))
           K == {l \in LineStarts(t) : l =< here}
           S == {Shifted(InLine(s), s) : s \in K}
           A == {m \in LineMatches(t, fq) : m[2] =< stop}
           B(s) == {m \in LineMatches(Line(t, s), fq) : m[2] =< Off(s)}
<1>1. FoldedPrevious(t, q, stop) = Rightmost(S)
  BY DEF FoldedPrevious
<1>2. fq \in Texts
  BY FoldedText
<1>3. /\ here \in LineStarts(t) /\ here \in Nat /\ here =< stop
      /\ stop - here \in 0 .. Len(Line(t, here))
  BY OffsetInLine
<1>4. stop \in Nat /\ Len(t) \in Nat
  <2>1. Len(t) \in Nat
    BY BreaksAndStarts
  <2> QED
    BY <2>1, SMT
<1>5. \A s \in K : s \in LineStarts(t) /\ s \in Nat /\ s =< here
      /\ Line(t, s) \in Texts /\ Off(s) \in 0 .. Len(Line(t, s)) /\ Off(s) \in Nat
      /\ Off(s) + s =< stop
  <2> TAKE s \in K
  <2>1. s \in LineStarts(t) /\ s \in Nat /\ s =< here /\ Line(t, s) \in Texts
    BY LinesInOrder, LineText
  <2> DEFINE n == Len(Line(t, s))
             e == LineEnd(t, s)
  <2>2. n \in Nat /\ n = e - s /\ e \in Nat /\ (s < here => e + 1 =< here)
    <3> DEFINE x == Line(t, s)
    <3>1. x \in Texts /\ Len(x) = e - s /\ e \in Nat /\ (s < here => e + 1 =< here)
      BY <1>3, <2>1, LineText, LinesInOrder
    <3> HIDE DEF x
    <3>2. Len(x) \in Nat
      BY <3>1, SMT DEF Texts
    <3> QED
      BY <3>1, <3>2 DEF x
  <2> DEFINE o == Off(s)
  <2>3. (s = here => o = stop - here /\ o \in 0 .. n) /\ (s # here => o = n)
    BY <1>3
  <2> HIDE DEF n, o, here, e
  <2>4. o \in 0 .. n /\ o \in Nat /\ o + s =< stop
    BY <1>3, <1>4, <2>1, <2>2, <2>3, SMT
  <2> QED
    BY <2>1, <2>4 DEF n, o
<1>6. \A s \in K : \/ B(s) = {} /\ InLine(s) = NoMatch
                   \/ InLine(s) \in B(s) /\ \A m \in B(s) : m[1] =< InLine(s)[1]
  <2> TAKE s \in K
  <2> DEFINE line == Line(t, s)
             o == Off(s)
  <2>1. line \in Texts /\ o \in 0 .. Len(line)
    <3> HIDE DEF Off
    <3> QED
      BY <1>5
  <2> HIDE DEF line, o
  <2>2. LET C == {m \in LineMatches(line, fq) : m[2] =< o}
            r == FoldedFindBackward(line, fq, o)
        IN  \/ C = {} /\ r = NoMatch
            \/ r \in C /\ \A m \in C : m[1] =< r[1]
    <3> HIDE DEF fq
    <3> QED
      BY <1>2, <2>1, FindBackwardInLine
  <2> QED
    BY <2>2 DEF line, o
<1> HIDE DEF fq, Off, InLine, B
<1>7. \A s \in K : Shifted(InLine(s), s) \in A \cup {NoMatch}
  <2> TAKE s \in K
  <2>1. CASE InLine(s) = NoMatch
    BY <2>1 DEF Shifted
  <2>2. CASE InLine(s) \in B(s)
    <3> DEFINE r == InLine(s)
    <3>1. r \in LineMatches(Line(t, s), fq) /\ r[2] =< Off(s)
      BY <2>2 DEF B
    <3>2. /\ Shifted(r, s) = <<r[1] + s, r[2] + s>> /\ Shifted(r, s) \in LineMatches(t, fq)
          /\ r[2] \in Nat
      <4> HIDE DEF r
      <4> QED
        BY <1>2, <1>5, <3>1, MatchOfLine
    <3> DEFINE p == r[2]
               o == Off(s)
    <3>3. p \in Nat /\ o \in Nat /\ s \in Nat /\ p =< o /\ o + s =< stop
      <4> HIDE DEF A, S, K, r
      <4>1. s \in K
        OBVIOUS
      <4> QED
        BY <1>5, <3>1, <3>2, <4>1
    <3>4. p + s =< stop
      <4> HIDE DEF p, o
      <4> QED
        BY <1>4, <3>3, SMT
    <3>5. Shifted(r, s)[2] = p + s
      BY <3>2
    <3> QED
      BY <3>2, <3>4, <3>5
  <2> QED
    BY <1>6, <2>1, <2>2
<1>8. \A m \in A : \E e \in S \ {NoMatch} : m[1] =< e[1]
  <2> TAKE m \in A
  <2> DEFINE s == LineStart(t, m[1])
  <2>1. m \in LineMatches(t, fq) /\ m[2] =< stop
    OBVIOUS
  <2>2. /\ m[1] \in Nat /\ m[2] \in Nat /\ m[1] < m[2]
        /\ s \in LineStarts(t) /\ s \in Nat /\ s =< m[1]
        /\ <<m[1] - s, m[2] - s>> \in LineMatches(Line(t, s), fq)
        /\ m[1] - s \in Nat /\ m[2] - s \in Nat /\ m[2] - s =< Len(Line(t, s))
    BY <2>1, LineOfMatch DEF fq
  <2>3. s =< stop => s =< here
    BY <1>4, <2>2, LineStartsBefore
  <2> DEFINE p == m[1]
             q2 == m[2]
             c == p - s
             d == q2 - s
             k == <<c, d>>
  <2>4. s =< here
    <3>1. p \in Nat /\ q2 \in Nat /\ p < q2 /\ q2 =< stop /\ s =< p /\ s \in Nat /\ (s =< stop => s =< here)
      BY <2>1, <2>2, <2>3
    <3> HIDE DEF p, q2, here, s
    <3> QED
      BY <1>3, <1>4, <3>1, SMT
  <2>5. s \in K
    BY <2>2, <2>4
  <2>6. k \in B(s)
    <3>1. k \in LineMatches(Line(t, s), fq) /\ k[2] = d
      BY <2>2
    <3>2. d =< Off(s)
      <4>1. /\ q2 =< stop /\ q2 \in Nat /\ (s = here => Off(s) = stop - here)
            /\ (s # here => Off(s) = Len(Line(t, s)))
            /\ d \in Nat /\ s \in Nat /\ d = q2 - s /\ d =< Len(Line(t, s))
        BY <2>1, <2>2 DEF Off
      <4> DEFINE o == Off(s)
                 n == Len(Line(t, s))
      <4>2. (s = here => o = stop - here) /\ (s # here => o = n) /\ d =< n
        BY <4>1
      <4> HIDE DEF q2, d, s, o, here, n
      <4>3. d =< o
        BY <1>3, <1>4, <4>1, <4>2, SMT
      <4> QED
        BY <4>3 DEF o
    <3> QED
      BY <3>1, <3>2 DEF B
  <2> DEFINE r == InLine(s)
  <2>7. r \in B(s) /\ c =< r[1]
    <3>1. r \in B(s) /\ \A x \in B(s) : x[1] =< r[1]
      BY <1>6, <2>5, <2>6
    <3>2. k[1] =< r[1] /\ k[1] = c
      BY <2>6, <3>1
    <3> QED
      BY <3>1, <3>2
  <2>8. /\ Shifted(r, s) = <<r[1] + s, r[2] + s>> /\ r[1] \in Nat
    <3>1. r \in LineMatches(Line(t, s), fq)
      BY <2>7 DEF B
    <3> HIDE DEF r, s
    <3> QED
      BY <1>2, <2>2, <3>1, MatchOfLine
  <2> DEFINE e == Shifted(r, s)
             z == r[1]
  <2>9. e[1] = z + s
    BY <2>8
  <2>10. p =< z + s /\ z + s # -1
    <3>1. z \in Nat /\ c =< z /\ c \in Nat /\ c = p - s /\ s \in Nat /\ p \in Nat
      BY <2>2, <2>7, <2>8
    <3> HIDE DEF z, c, s, p
    <3> QED
      BY <3>1, SMT
  <2>11. e \in S
    BY <2>5
  <2>12. e # NoMatch
    <3> HIDE DEF e, z
    <3> QED
      BY <2>9, <2>10, NoMatchOutside
  <2> QED
    BY <2>9, <2>10, <2>11, <2>12
<1>9. A \in SUBSET ((0 .. Len(t)) \X (0 .. Len(t)))
  BY <1>2, LineMatchesApart
<1>10. S \subseteq A \cup {NoMatch}
  BY <1>7
<1> HIDE DEF A, S
<1>11. IsRightmost(A, Rightmost(S))
  BY <1>4, <1>8, <1>9, <1>10, RightmostCovers
<1> QED
  BY <1>1, <1>11 DEF A, fq

-----------------------------------------------------------------------------
(* With Match Case.                                                        *)

ExactlyAt(t, q) ==
  {m \in (0 .. Len(t)) \X (0 .. Len(t)) : m[1] < m[2] /\ SubSeq(t, m[1] + 1, m[2]) = q}

LEMMA OccurrencesMatch ==
  ASSUME NEW t \in Texts, NEW q \in Texts, q # <<>>
  PROVE  /\ Len(q) \in Nat \ {0}
         /\ Occurrences(t, q) \in SUBSET (0 .. Len(t))
         /\ \A i \in Occurrences(t, q) :
              i \in Nat /\ MatchOf(i, q) = <<i, i + Len(q)>> /\ MatchOf(i, q) \in ExactlyAt(t, q)
         /\ \A m \in ExactlyAt(t, q) :
              /\ m[1] \in Occurrences(t, q) /\ m = MatchOf(m[1], q) /\ m[2] = m[1] + Len(q)
              /\ m[1] \in Nat /\ m[2] \in Nat /\ m[1] < m[2] /\ m[2] =< Len(t)
         /\ Apart(ExactlyAt(t, q))
<1> DEFINE n == Len(q)
<1>1. n \in Nat \ {0} /\ Len(t) \in Nat
  BY SMT DEF Texts
<1>2. ASSUME NEW i \in Occurrences(t, q)
      PROVE  /\ i \in 0 .. Len(t) /\ i \in Nat /\ MatchOf(i, q) = <<i, i + n>>
             /\ <<i, i + n>> \in ExactlyAt(t, q)
  <2> DEFINE j == i + n
  <2>1. i \in 0 .. Len(t) - n /\ SubSeq(t, i + 1, j) = q
    BY DEF Occurrences
  <2> HIDE DEF n
  <2>2. i \in 0 .. Len(t) /\ i \in Nat /\ j \in 0 .. Len(t) /\ i < j /\ i # -1
    BY <1>1, <2>1, SMT
  <2>3. MatchOf(i, q) = <<i, j>>
    BY <2>2 DEF MatchOf, NotFound, n
  <2> HIDE DEF j
  <2>4. <<i, j>>[1] = i /\ <<i, j>>[2] = j
    OBVIOUS
  <2>5. <<i, j>> \in ExactlyAt(t, q)
    BY <2>1, <2>2, <2>4 DEF ExactlyAt
  <2> QED
    BY <2>2, <2>3, <2>5 DEF j
<1>3. ASSUME NEW m \in ExactlyAt(t, q)
      PROVE  /\ m[1] \in Occurrences(t, q) /\ m = <<m[1], m[2]>> /\ m[2] = m[1] + n
             /\ m[1] \in Nat /\ m[2] \in Nat /\ m[1] < m[2] /\ m[2] =< Len(t)
  <2> DEFINE a == m[1]
             b == m[2]
  <2>1. /\ a \in 0 .. Len(t) /\ b \in 0 .. Len(t) /\ a < b /\ SubSeq(t, a + 1, b) = q
        /\ m = <<a, b>>
    BY DEF ExactlyAt
  <2> HIDE DEF a, b
  <2>2. a \in Nat /\ b \in Nat /\ a =< b /\ b =< Len(t)
    BY <1>1, <2>1, SMT
  <2>3. n = b - a
    BY <2>1, <2>2, RangeElements
  <2> HIDE DEF n
  <2>4. b = a + n /\ a \in 0 .. Len(t) - n
    BY <1>1, <2>1, <2>2, <2>3, SMT
  <2>5. a \in Occurrences(t, q)
    BY <2>1, <2>4 DEF Occurrences, n
  <2> QED
    BY <2>1, <2>2, <2>4, <2>5 DEF a, b
<1> HIDE DEF n
<1>4. \A m \in ExactlyAt(t, q) : m = MatchOf(m[1], q)
  BY <1>2, <1>3
<1>5. Apart(ExactlyAt(t, q))
  BY <1>4 DEF Apart
<1> QED
  BY <1>1, <1>2, <1>3, <1>4, <1>5 DEF n

LEMMA FirstOccurrence ==
  ASSUME NEW t \in Texts, NEW q \in Texts, q # <<>>,
         NEW O \in SUBSET Occurrences(t, q)
  PROVE  IsLeftmost({m \in ExactlyAt(t, q) : m[1] \in O}, MatchOf(First(O), q))
<1> DEFINE A == {m \in ExactlyAt(t, q) : m[1] \in O}
           f == First(O)
<1>1. /\ Occurrences(t, q) \in SUBSET (0 .. Len(t))
      /\ \A i \in Occurrences(t, q) :
           i \in Nat /\ MatchOf(i, q) = <<i, i + Len(q)>> /\ MatchOf(i, q) \in ExactlyAt(t, q)
  BY OccurrencesMatch
<1>2. O \in SUBSET Nat
  BY <1>1
<1>3. CASE O = {}
  <2>1. f = NotFound
    BY <1>2, <1>3, FirstIsLeast
  <2> QED
    BY <1>3, <2>1 DEF IsLeftmost, MatchOf
<1>4. CASE O # {}
  <2>1. f \in O /\ \A y \in O : f =< y
    BY <1>2, <1>4, FirstIsLeast
  <2> DEFINE r == MatchOf(f, q)
  <2>2. r = <<f, f + Len(q)>> /\ r \in ExactlyAt(t, q)
    BY <1>1, <2>1
  <2>3. r[1] = f
    BY <2>2
  <2> HIDE DEF r, f
  <2>4. r \in A /\ \A m \in A : r[1] =< m[1]
    BY <2>1, <2>2, <2>3
  <2> QED
    BY <2>4 DEF IsLeftmost, r, f
<1> QED
  BY <1>3, <1>4

LEMMA FinalOccurrence ==
  ASSUME NEW t \in Texts, NEW q \in Texts, q # <<>>,
         NEW O \in SUBSET Occurrences(t, q)
  PROVE  IsRightmost({m \in ExactlyAt(t, q) : m[1] \in O}, MatchOf(Final(O), q))
<1> DEFINE A == {m \in ExactlyAt(t, q) : m[1] \in O}
           f == Final(O)
<1>1. /\ Occurrences(t, q) \in SUBSET (0 .. Len(t))
      /\ \A i \in Occurrences(t, q) :
           i \in Nat /\ MatchOf(i, q) = <<i, i + Len(q)>> /\ MatchOf(i, q) \in ExactlyAt(t, q)
  BY OccurrencesMatch
<1>2. O \in SUBSET (0 .. Len(t)) /\ Len(t) \in Nat
  BY <1>1, BreaksAndStarts
<1>3. CASE O = {}
  <2>1. f = NotFound
    BY <1>2, <1>3, FinalIsGreatest
  <2> QED
    BY <1>3, <2>1 DEF IsRightmost, MatchOf
<1>4. CASE O # {}
  <2>1. f \in O /\ \A y \in O : y =< f
    BY <1>2, <1>4, FinalIsGreatest
  <2> DEFINE r == MatchOf(f, q)
  <2>2. r = <<f, f + Len(q)>> /\ r \in ExactlyAt(t, q)
    BY <1>1, <2>1
  <2>3. r[1] = f
    BY <2>2
  <2> HIDE DEF r, f
  <2>4. r \in A /\ \A m \in A : m[1] =< r[1]
    BY <2>1, <2>2, <2>3
  <2> QED
    BY <2>4 DEF IsRightmost, r, f
<1> QED
  BY <1>3, <1>4

-----------------------------------------------------------------------------
(* Find Next and Find Previous, with the wrap.                             *)

LEMMA MatchesByCase ==
  ASSUME NEW t \in Texts, NEW search
  PROVE  Matches(t, search) = IF search.case THEN ExactlyAt(t, search.query)
                              ELSE LineMatches(t, Folded(search.query))
<1>1. Len(t) \in Nat
  BY BreaksAndStarts
<1>2. ASSUME NEW m \in (0 .. Len(t)) \X (0 .. Len(t)), m[1] < m[2]
      PROVE  TextInRange(t, m[1], m[2]) = SubSeq(t, m[1] + 1, m[2])
  <2> DEFINE a == m[1]
             b == m[2]
  <2>1. a \in 0 .. Len(t) /\ b \in 0 .. Len(t) /\ a < b
    BY <1>2
  <2> HIDE DEF a, b
  <2>2. a \in Nat /\ b \in Nat /\ a =< b /\ b =< Len(t)
    BY <1>1, <2>1, SMT
  <2>3. TextInRange(t, a, b) = SubSeq(t, a + 1, b)
    BY <2>2, RangeThatFits
  <2> QED
    BY <2>3 DEF a, b
<1>3. CASE search.case
  <2>1. \A m \in (0 .. Len(t)) \X (0 .. Len(t)) : m[1] < m[2] =>
          (Reads(t, m[1], m[2], search) <=> SubSeq(t, m[1] + 1, m[2]) = search.query)
    BY <1>2, <1>3 DEF Reads
  <2> QED
    BY <1>3, <2>1 DEF Matches, ExactlyAt
<1>4. CASE ~search.case
  <2>1. \A m \in (0 .. Len(t)) \X (0 .. Len(t)) : m[1] < m[2] =>
          (Reads(t, m[1], m[2], search)
             <=> Folded(SubSeq(t, m[1] + 1, m[2])) = Folded(search.query))
    BY <1>2, <1>4 DEF Reads
  <2> QED
    BY <1>4, <2>1 DEF Matches, LineMatches
<1> QED
  BY <1>3, <1>4

(* A query of the user's: not empty and one line.                          *)
IsQuery(q) == q \in Texts /\ q # <<>> /\ Breaks(q) = {}

LEMMA MatchesAreRanges ==
  ASSUME NEW t \in Texts, NEW search, IsQuery(search.query)
  PROVE  /\ Matches(t, search) \subseteq (0 .. Len(t)) \X (0 .. Len(t))
         /\ Matches(t, search) \in SUBSET (Nat \X Nat)
         /\ \A m \in Matches(t, search) :
              m[1] \in Nat /\ m[2] \in Nat /\ m[1] < m[2] /\ m[2] =< Len(t)
         /\ Apart(Matches(t, search))
<1> DEFINE q == search.query
           M == Matches(t, search)
<1>1. q \in Texts /\ q # <<>>
  BY DEF IsQuery
<1>2. M \subseteq (0 .. Len(t)) \X (0 .. Len(t)) /\ \A m \in M : m[1] < m[2]
  BY DEF Matches
<1>3. 0 .. Len(t) \subseteq Nat /\ Len(t) \in Nat /\ \A n \in 0 .. Len(t) : n =< Len(t)
  <2>1. Len(t) \in Nat
    BY BreaksAndStarts
  <2> QED
    BY <2>1, SMT
<1>4. Apart(M)
  <2>1. Folded(q) \in Texts
    BY <1>1, FoldedText
  <2> HIDE DEF q, M
  <2>2. Apart(ExactlyAt(t, q)) /\ Apart(LineMatches(t, Folded(q)))
    BY <1>1, <2>1, LineMatchesApart, OccurrencesMatch
  <2> QED
    BY <2>2, MatchesByCase DEF M, q
<1> HIDE DEF M
<1>5. \A m \in M : m[1] \in Nat /\ m[2] \in Nat /\ m[1] < m[2] /\ m[2] =< Len(t)
  BY <1>2, <1>3
<1>6. M \in SUBSET (Nat \X Nat)
  BY <1>2, <1>3
<1> QED
  BY <1>2, <1>4, <1>5, <1>6 DEF M

LEMMA NextWraps ==
  ASSUME NEW M \in SUBSET (Nat \X Nat), NEW from \in Nat, NEW W \in SUBSET M, NEW r, NEW w,
         IsLeftmost({m \in M : m[1] >= from}, r), IsLeftmost(W, w)
  PROVE  LET ahead == {m \in M : m[1] >= from}
         IN  IsLeftmost(IF ahead # {} THEN ahead ELSE W, OrElse(r, WrappedBefore(w, from)))
<1> DEFINE ahead == {m \in M : m[1] >= from}
<1>1. CASE ahead # {}
  <2>1. r \in ahead
    BY <1>1 DEF IsLeftmost
  <2>2. r # NoMatch
    BY <2>1, NoMatchOutside
  <2> QED
    BY <1>1, <2>2 DEF OrElse
<1>2. CASE ahead = {}
  <2>1. r = NoMatch
    BY <1>2 DEF IsLeftmost
  <2>2. WrappedBefore(w, from) = w
    <3>1. CASE w = NoMatch
      BY <3>1 DEF WrappedBefore
    <3>2. CASE w # NoMatch
      <4>1. w \in M /\ ~(w[1] >= from) /\ w[1] \in Nat
        BY <1>2, <3>2 DEF IsLeftmost
      <4> DEFINE p == w[1]
      <4>2. ~(p >= from) /\ p \in Nat
        BY <4>1
      <4> HIDE DEF p
      <4>3. from > 0 /\ p < from
        BY <4>2, SMT
      <4> QED
        BY <4>3 DEF WrappedBefore, p
    <3> QED
      BY <3>1, <3>2
  <2> QED
    BY <1>2, <2>1, <2>2 DEF OrElse
<1> QED
  BY <1>1, <1>2

LEMMA PreviousWraps ==
  ASSUME NEW M \in SUBSET (Nat \X Nat), NEW stop \in Nat, NEW W \in SUBSET M, NEW r, NEW w,
         IsRightmost({m \in M : m[2] =< stop}, r), IsRightmost(W, w)
  PROVE  LET behind == {m \in M : m[2] =< stop}
         IN  IsRightmost(IF behind # {} THEN behind ELSE W, OrElse(r, WrappedBehind(w, stop)))
<1> DEFINE behind == {m \in M : m[2] =< stop}
<1>1. CASE behind # {}
  <2>1. r \in behind
    BY <1>1 DEF IsRightmost
  <2>2. r # NoMatch
    BY <2>1, NoMatchOutside
  <2> QED
    BY <1>1, <2>2 DEF OrElse
<1>2. CASE behind = {}
  <2>1. r = NoMatch
    BY <1>2 DEF IsRightmost
  <2>2. WrappedBehind(w, stop) = w
    <3>1. CASE w = NoMatch
      BY <3>1 DEF WrappedBehind
    <3>2. CASE w # NoMatch
      <4>1. w \in M /\ ~(w[2] =< stop) /\ w[2] \in Nat
        BY <1>2, <3>2 DEF IsRightmost
      <4> DEFINE p == w[2]
      <4>2. ~(p =< stop) /\ p \in Nat
        BY <4>1
      <4> HIDE DEF p
      <4>3. p > stop
        BY <4>2, SMT
      <4> QED
        BY <4>3 DEF WrappedBehind, p
    <3> QED
      BY <3>1, <3>2
  <2> QED
    BY <1>2, <2>1, <2>2 DEF OrElse
<1> QED
  BY <1>1, <1>2

LEMMA FindNextIs ==
  ASSUME NEW t \in Texts, NEW search, IsQuery(search.query), search.case \in BOOLEAN,
         NEW from \in 0 .. Len(t)
  PROVE  LET M == Matches(t, search)
             ahead == {m \in M : m[1] >= from}
             wrapped == {m \in M : search.case => m[2] =< from}
         IN  IsLeftmost(IF ahead # {} THEN ahead ELSE wrapped,
                        FindNext(t, search.query, from, search.case))
<1> DEFINE q == search.query
           M == Matches(t, search)
           ahead == {m \in M : m[1] >= from}
           wrapped == {m \in M : search.case => m[2] =< from}
<1>1. q \in Texts /\ q # <<>> /\ Breaks(q) = {}
  BY DEF IsQuery
<1>2. from \in Nat /\ Len(t) \in Nat /\ 0 \in 0 .. Len(t)
  <2>1. Len(t) \in Nat
    BY BreaksAndStarts
  <2> QED
    BY <2>1, SMT
<1>3. M \in SUBSET (Nat \X Nat)
  BY MatchesAreRanges
<1>4. CASE search.case
  <2> DEFINE O == {i \in Occurrences(t, q) : i >= from}
             L == {i \in Occurrences(t, q) : i + Len(q) =< from}
             E == ExactlyAt(t, q)
             r == MatchOf(First(O), q)
             w == MatchOf(First(L), q)
  <2>1. M = E
    BY <1>4, MatchesByCase
  <2>2. \A m \in E : m[1] \in Occurrences(t, q) /\ m[2] = m[1] + Len(q)
    BY <1>1, OccurrencesMatch
  <2>3. {m \in E : m[1] \in O} = ahead /\ {m \in E : m[1] \in L} = wrapped
    <3> HIDE DEF E, q
    <3> QED
      BY <1>4, <2>1, <2>2
  <2>4. IsLeftmost({m \in E : m[1] \in O}, r) /\ IsLeftmost({m \in E : m[1] \in L}, w)
    <3> DEFINE O2 == O
               L2 == L
    <3>1. O2 \in SUBSET Occurrences(t, q) /\ L2 \in SUBSET Occurrences(t, q)
      OBVIOUS
    <3> HIDE DEF O2, L2, q
    <3>2. /\ IsLeftmost({m \in ExactlyAt(t, q) : m[1] \in O2}, MatchOf(First(O2), q))
          /\ IsLeftmost({m \in ExactlyAt(t, q) : m[1] \in L2}, MatchOf(First(L2), q))
      BY <1>1, <3>1, FirstOccurrence
    <3> QED
      BY <3>2 DEF O2, L2
  <2>5. FindNext(t, q, from, search.case) = OrElse(r, WrappedBefore(w, from))
    BY <1>4 DEF FindNext, ExactNext
  <2>6. wrapped \in SUBSET M
    OBVIOUS
  <2>7. IsLeftmost(ahead, r) /\ IsLeftmost(wrapped, w)
    BY <2>3, <2>4
  <2> HIDE DEF M, r, w, wrapped
  <2>8. IsLeftmost(IF ahead # {} THEN ahead ELSE wrapped, OrElse(r, WrappedBefore(w, from)))
    BY <1>2, <1>3, <2>6, <2>7, NextWraps
  <2> QED
    BY <2>5, <2>8 DEF M, wrapped
<1>5. CASE ~search.case
  <2> DEFINE r == FoldedNext(t, q, from)
             w == FoldedNext(t, q, 0)
  <2>1. M = LineMatches(t, Folded(q))
    BY <1>5, MatchesByCase
  <2>2. /\ IsLeftmost({m \in LineMatches(t, Folded(q)) : m[1] >= from}, r)
        /\ IsLeftmost({m \in LineMatches(t, Folded(q)) : m[1] >= 0}, w)
    <3> HIDE DEF q
    <3> QED
      BY <1>1, <1>2, FoldedNextIs
  <2>3. IsLeftmost(ahead, r)
    BY <2>1, <2>2
  <2>4. {m \in M : m[1] >= 0} = wrapped
    <3> HIDE DEF M
    <3>1. \A m \in M : m[1] >= 0
      <4>1. \A n \in Nat : n >= 0
        BY SMT
      <4> QED
        BY <1>3, <4>1
    <3> QED
      BY <1>5, <3>1
  <2>5. IsLeftmost(wrapped, w)
    BY <2>1, <2>2, <2>4
  <2>6. FindNext(t, q, from, search.case) = OrElse(r, WrappedBefore(w, from))
    BY <1>5 DEF FindNext
  <2>7. wrapped \in SUBSET M
    OBVIOUS
  <2> HIDE DEF M, r, w, wrapped
  <2>8. IsLeftmost(IF ahead # {} THEN ahead ELSE wrapped, OrElse(r, WrappedBefore(w, from)))
    BY <1>2, <1>3, <2>3, <2>5, <2>7, NextWraps
  <2> QED
    BY <2>6, <2>8 DEF M, wrapped
<1> QED
  BY <1>4, <1>5

LEMMA FindPreviousIs ==
  ASSUME NEW t \in Texts, NEW search, IsQuery(search.query), search.case \in BOOLEAN,
         NEW stop \in 0 .. Len(t)
  PROVE  LET M == Matches(t, search)
             behind == {m \in M : m[2] =< stop}
             wrapped == {m \in M : search.case => m[1] >= stop}
         IN  IsRightmost(IF behind # {} THEN behind ELSE wrapped,
                         FindPrevious(t, search.query, stop, search.case))
<1> DEFINE q == search.query
           M == Matches(t, search)
           behind == {m \in M : m[2] =< stop}
           wrapped == {m \in M : search.case => m[1] >= stop}
<1>1. q \in Texts /\ q # <<>> /\ Breaks(q) = {}
  BY DEF IsQuery
<1>2. stop \in Nat /\ Len(t) \in Nat /\ Len(t) \in 0 .. Len(t)
  <2>1. Len(t) \in Nat
    BY BreaksAndStarts
  <2> QED
    BY <2>1, SMT
<1>3. M \in SUBSET (Nat \X Nat) /\ \A m \in M : m[2] =< Len(t)
  BY MatchesAreRanges
<1>4. CASE search.case
  <2> DEFINE O == {i \in Occurrences(t, q) : i + Len(q) =< stop}
             L == {i \in Occurrences(t, q) : i >= stop}
             E == ExactlyAt(t, q)
             r == MatchOf(Final(O), q)
             w == MatchOf(Final(L), q)
  <2>1. M = E
    BY <1>4, MatchesByCase
  <2>2. \A m \in E : m[1] \in Occurrences(t, q) /\ m[2] = m[1] + Len(q)
    BY <1>1, OccurrencesMatch
  <2>3. {m \in E : m[1] \in O} = behind /\ {m \in E : m[1] \in L} = wrapped
    <3> HIDE DEF E, q
    <3> QED
      BY <1>4, <2>1, <2>2
  <2>4. IsRightmost({m \in E : m[1] \in O}, r) /\ IsRightmost({m \in E : m[1] \in L}, w)
    <3> DEFINE O2 == O
               L2 == L
    <3>1. O2 \in SUBSET Occurrences(t, q) /\ L2 \in SUBSET Occurrences(t, q)
      OBVIOUS
    <3> HIDE DEF O2, L2, q
    <3>2. /\ IsRightmost({m \in ExactlyAt(t, q) : m[1] \in O2}, MatchOf(Final(O2), q))
          /\ IsRightmost({m \in ExactlyAt(t, q) : m[1] \in L2}, MatchOf(Final(L2), q))
      BY <1>1, <3>1, FinalOccurrence
    <3> QED
      BY <3>2 DEF O2, L2
  <2>5. FindPrevious(t, q, stop, search.case) = OrElse(r, WrappedBehind(w, stop))
    BY <1>4 DEF FindPrevious, ExactPrevious
  <2>6. wrapped \in SUBSET M
    OBVIOUS
  <2>7. IsRightmost(behind, r) /\ IsRightmost(wrapped, w)
    BY <2>3, <2>4
  <2> HIDE DEF M, r, w, wrapped
  <2>8. IsRightmost(IF behind # {} THEN behind ELSE wrapped, OrElse(r, WrappedBehind(w, stop)))
    BY <1>2, <1>3, <2>6, <2>7, PreviousWraps
  <2> QED
    BY <2>5, <2>8 DEF M, wrapped
<1>5. CASE ~search.case
  <2> DEFINE r == FoldedPrevious(t, q, stop)
             w == FoldedPrevious(t, q, Len(t))
  <2>1. M = LineMatches(t, Folded(q))
    BY <1>5, MatchesByCase
  <2>2. /\ IsRightmost({m \in LineMatches(t, Folded(q)) : m[2] =< stop}, r)
        /\ IsRightmost({m \in LineMatches(t, Folded(q)) : m[2] =< Len(t)}, w)
    <3> HIDE DEF q
    <3> QED
      BY <1>1, <1>2, FoldedPreviousIs
  <2>3. IsRightmost(behind, r)
    BY <2>1, <2>2
  <2>4. {m \in M : m[2] =< Len(t)} = wrapped
    <3> HIDE DEF M
    <3> QED
      BY <1>3, <1>5
  <2>5. IsRightmost(wrapped, w)
    BY <2>1, <2>2, <2>4
  <2>6. FindPrevious(t, q, stop, search.case) = OrElse(r, WrappedBehind(w, stop))
    BY <1>5 DEF FindPrevious
  <2>7. wrapped \in SUBSET M
    OBVIOUS
  <2> HIDE DEF M, r, w, wrapped
  <2>8. IsRightmost(IF behind # {} THEN behind ELSE wrapped, OrElse(r, WrappedBehind(w, stop)))
    BY <1>2, <1>3, <2>3, <2>5, <2>7, PreviousWraps
  <2> QED
    BY <2>6, <2>8 DEF M, wrapped
<1> QED
  BY <1>4, <1>5

LEMMA SeeksAreQueries ==
  /\ \A search \in Seeks : IsQuery(search.query) /\ search.case \in BOOLEAN
  /\ \A search \in Searches :
       IsQuery(search.query) /\ search.case \in BOOLEAN /\ search.replacement \in Texts
  BY SettingsAreSingleLines DEF Seeks, Searches, IsQuery

LEMMA ApartWithin ==
  ASSUME NEW M, Apart(M), NEW A \in SUBSET M
  PROVE  Apart(A)
  BY DEF Apart

LEMMA EveryFindIsNearest == TypeOK => FindsNearest
<1> SUFFICES ASSUME TypeOK, NEW search \in Seeks
             PROVE  LET matches == Matches(text, search)
                        ahead == {m \in matches : m[1] >= High(view)}
                        behind == {m \in matches : m[2] =< Low(view)}
                        wrappedAhead == {m \in matches : search.case => m[2] =< High(view)}
                        wrappedBehind == {m \in matches : search.case => m[1] >= Low(view)}
                    IN  /\ NextMatch(text, view, search)
                             = Leftmost(IF ahead # {} THEN ahead ELSE wrappedAhead)
                        /\ PreviousMatch(text, view, search)
                             = Rightmost(IF behind # {} THEN behind ELSE wrappedBehind)
  BY DEF FindsNearest
<1> DEFINE M == Matches(text, search)
           ahead == {m \in M : m[1] >= High(view)}
           behind == {m \in M : m[2] =< Low(view)}
           wrappedAhead == {m \in M : search.case => m[2] =< High(view)}
           wrappedBehind == {m \in M : search.case => m[1] >= Low(view)}
           F == IF ahead # {} THEN ahead ELSE wrappedAhead
           B == IF behind # {} THEN behind ELSE wrappedBehind
           n == Len(text)
<1>1. text \in Texts /\ view \in ViewsOf(text) /\ n \in Nat
  BY BreaksAndStarts DEF TypeOK
<1>2. High(view) \in 0 .. n /\ Low(view) \in 0 .. n
  <2>1. High(view) \in Nat /\ High(view) =< n /\ Low(view) \in Nat /\ Low(view) =< High(view)
    BY <1>1, SelectionEnds
  <2> DEFINE h == High(view)
             l == Low(view)
  <2> HIDE DEF n, h, l
  <2>2. h \in 0 .. n /\ l \in 0 .. n
    <3>1. h \in Nat /\ h =< n /\ l \in Nat /\ l =< h
      BY <2>1 DEF h, l
    <3> QED
      BY <1>1, <3>1, SMT
  <2> QED
    BY <2>2 DEF h, l
<1>3. IsQuery(search.query) /\ search.case \in BOOLEAN
  BY SeeksAreQueries
<1>4. M \subseteq (0 .. n) \X (0 .. n) /\ M \in SUBSET (Nat \X Nat) /\ Apart(M)
  BY <1>1, <1>3, MatchesAreRanges
<1>5. IsLeftmost(F, NextMatch(text, view, search))
  BY <1>1, <1>2, <1>3, FindNextIs DEF NextMatch
<1>6. IsRightmost(B, PreviousMatch(text, view, search))
  BY <1>1, <1>2, <1>3, FindPreviousIs DEF PreviousMatch
<1>7. F \in SUBSET M /\ B \in SUBSET M
  OBVIOUS
<1> HIDE DEF M, F, B, n
<1>8. /\ F \in SUBSET (Nat \X Nat) /\ Apart(F)
      /\ B \in SUBSET ((0 .. n) \X (0 .. n)) /\ Apart(B)
  BY <1>4, <1>7, ApartWithin
<1>9. Leftmost(F) = NextMatch(text, view, search)
  BY <1>5, <1>8, LeftmostIs
<1>10. Rightmost(B) = PreviousMatch(text, view, search)
  BY <1>1, <1>6, <1>8, RightmostIs
<1> QED
  BY <1>9, <1>10 DEF F, B, M

-----------------------------------------------------------------------------
(* All matches of a stretch: those found do not overlap, and every match   *)
(* starts within one of them.                                              *)

Exhausts(found, M, lo, hi) ==
  /\ found \in Seq(Nat \X Nat)
  /\ \A i \in DOMAIN found : found[i] \in M /\ lo =< found[i][1] /\ found[i][2] =< hi
  /\ \A i, j \in DOMAIN found : i < j => found[i][2] =< found[j][1]
  /\ \A m \in M : lo =< m[1] /\ m[2] =< hi =>
       \E i \in DOMAIN found : found[i][1] =< m[1] /\ m[1] < found[i][2]

(* Ranges that are not empty.                                              *)
Ranges(M) == \A m \in M : m[1] \in Nat /\ m[2] \in Nat /\ m[1] < m[2]

(* Where the elements of a list are that was put together from two.        *)
PutTogether(f, g, c, n) ==
  /\ \A i \in DOMAIN f : i \in Nat /\ i =< n /\ i \in DOMAIN c /\ c[i] = f[i]
  /\ \A k \in DOMAIN g : k \in Nat /\ k > 0 /\ n + k \in DOMAIN c /\ c[n + k] = g[k]
  /\ \A i \in DOMAIN c : i \in DOMAIN f \/ \E k \in DOMAIN g : i = n + k

LEMMA JoinedLists ==
  ASSUME NEW E, NEW f \in Seq(E), NEW g \in Seq(E)
  PROVE  f \o g \in Seq(E) /\ Len(f) \in Nat /\ PutTogether(f, g, f \o g, Len(f))
<1> DEFINE c == f \o g
           m == Len(f)
           n == Len(g)
<1>1. /\ c \in Seq(E) /\ m \in Nat /\ n \in Nat /\ DOMAIN f = 1 .. m /\ DOMAIN g = 1 .. n
      /\ DOMAIN c = 1 .. m + n
      /\ \A i \in 1 .. m : c[i] = f[i]
      /\ \A i \in 1 .. n : c[m + i] = g[i]
  BY SMT
<1> HIDE DEF c, m, n
<1>2. \A i \in 1 .. m + n : i \in 1 .. m \/ \E k \in 1 .. n : i = m + k
  <2> TAKE i \in 1 .. m + n
  <2> DEFINE k == i - m
  <2>1. i \in 1 .. m \/ (k \in 1 .. n /\ i = m + k)
    BY <1>1, SMT
  <2> HIDE DEF k
  <2> QED
    BY <2>1
<1>3. /\ \A i \in 1 .. m : i \in Nat /\ i =< m /\ i \in 1 .. m + n
      /\ \A k \in 1 .. n : k \in Nat /\ k > 0 /\ m + k \in 1 .. m + n
  BY <1>1, SMT
<1>4. PutTogether(f, g, c, m)
  BY <1>1, <1>2, <1>3 DEF PutTogether
<1> QED
  BY <1>1, <1>4 DEF c, m

LEMMA NothingExhausts ==
  ASSUME NEW M, Ranges(M), NEW lo \in Nat
  PROVE  Exhausts(<<>>, M, lo, lo)
<1>1. <<>> \in Seq(Nat \X Nat) /\ DOMAIN <<>> = {}
  <2> DEFINE E == Nat \X Nat
  <2> HIDE DEF E
  <2>1. <<>> \in Seq(E) /\ DOMAIN <<>> = {}
    BY SMT
  <2> QED
    BY <2>1 DEF E
<1>2. ASSUME NEW m \in M, lo =< m[1], m[2] =< lo
      PROVE  FALSE
  <2> DEFINE a == m[1]
             b == m[2]
  <2>1. a \in Nat /\ b \in Nat /\ a < b /\ lo =< a /\ b =< lo
    BY <1>2 DEF Ranges
  <2> HIDE DEF a, b
  <2> QED
    BY <2>1, SMT
<1> QED
  BY <1>1, <1>2 DEF Exhausts

LEMMA StretchesJoin ==
  ASSUME NEW M, Ranges(M), NEW lo \in Nat, NEW mid \in Nat, NEW at \in Nat, NEW hi \in Nat,
         lo =< mid, mid =< at, at =< hi,
         NEW f, Exhausts(f, M, lo, mid), NEW g, Exhausts(g, M, at, hi),
         \A m \in M : lo =< m[1] /\ m[2] =< hi => m[2] =< mid \/ at =< m[1]
  PROVE  Exhausts(f \o g, M, lo, hi)
<1> DEFINE c == f \o g
           n == Len(f)
<1>1. f \in Seq(Nat \X Nat) /\ g \in Seq(Nat \X Nat)
  BY DEF Exhausts
<1>2. c \in Seq(Nat \X Nat) /\ n \in Nat /\ PutTogether(f, g, c, n)
  BY <1>1, JoinedLists
<1>3. /\ n \in Nat
      /\ \A i \in DOMAIN f : i \in Nat /\ i =< n /\ i \in DOMAIN c /\ c[i] = f[i]
      /\ \A k \in DOMAIN g : k \in Nat /\ k > 0 /\ n + k \in DOMAIN c /\ c[n + k] = g[k]
      /\ \A i \in DOMAIN c : i \in DOMAIN f \/ \E k \in DOMAIN g : i = n + k
  <2> HIDE DEF c, n
  <2> QED
    BY <1>2 DEF PutTogether
<1> HIDE DEF c, n
<1>4. /\ \A i \in DOMAIN f : f[i] \in M /\ lo =< f[i][1] /\ f[i][2] =< mid
                             /\ f[i][1] \in Nat /\ f[i][2] \in Nat /\ f[i][1] < f[i][2]
      /\ \A i \in DOMAIN g : g[i] \in M /\ at =< g[i][1] /\ g[i][2] =< hi
                             /\ g[i][1] \in Nat /\ g[i][2] \in Nat /\ g[i][1] < g[i][2]
  BY DEF Exhausts, Ranges
<1>5. /\ \A i \in DOMAIN f : f[i] \in M /\ lo =< f[i][1] /\ f[i][2] =< hi
      /\ \A i \in DOMAIN g : g[i] \in M /\ lo =< g[i][1] /\ g[i][2] =< hi
  <2>1. \A a, b \in Nat : b =< mid => b =< hi
    BY SMT
  <2>2. \A a \in Nat : at =< a => lo =< a
    BY SMT
  <2> QED
    BY <1>4, <2>1, <2>2
<1>6. \A i \in DOMAIN c : c[i] \in M /\ lo =< c[i][1] /\ c[i][2] =< hi
  BY <1>3, <1>5
<1>7. ASSUME NEW i \in DOMAIN c, NEW j \in DOMAIN c, i < j
      PROVE  c[i][2] =< c[j][1]
  <2>1. CASE i \in DOMAIN f /\ j \in DOMAIN f
    <3>1. f[i][2] =< f[j][1]
      BY <1>7, <2>1 DEF Exhausts
    <3> QED
      BY <1>3, <2>1, <3>1
  <2>2. CASE i \in DOMAIN f /\ \E k \in DOMAIN g : j = n + k
    <3>1. PICK k \in DOMAIN g : j = n + k
      BY <2>2
    <3>2. c[i] = f[i] /\ c[j] = g[k] /\ f[i][2] \in Nat /\ f[i][2] =< mid
          /\ g[k][1] \in Nat /\ at =< g[k][1]
      BY <1>3, <1>4, <2>2, <3>1
    <3> DEFINE a == f[i][2]
               b == g[k][1]
    <3>3. a \in Nat /\ b \in Nat /\ a =< mid /\ at =< b
      BY <3>2
    <3> HIDE DEF a, b
    <3>4. a =< b
      BY <3>3, SMT
    <3> QED
      BY <3>2, <3>4 DEF a, b
  <2>3. CASE (\E k \in DOMAIN g : i = n + k) /\ j \in DOMAIN f
    <3>1. PICK k \in DOMAIN g : i = n + k
      BY <2>3
    <3>2. k \in Nat /\ k > 0 /\ j \in Nat /\ j =< n
      BY <1>3, <2>3
    <3> QED
      BY <1>3, <1>7, <3>1, <3>2, SMT
  <2>4. CASE (\E k \in DOMAIN g : i = n + k) /\ (\E k \in DOMAIN g : j = n + k)
    <3>1. PICK k \in DOMAIN g : i = n + k
      BY <2>4
    <3>2. PICK l \in DOMAIN g : j = n + l
      BY <2>4
    <3>3. k \in Nat /\ l \in Nat
      BY <1>3
    <3>4. k < l
      BY <1>3, <1>7, <3>1, <3>2, <3>3, SMT
    <3>5. g[k][2] =< g[l][1]
      BY <3>4 DEF Exhausts
    <3> QED
      BY <1>3, <3>1, <3>2, <3>5
  <2> QED
    BY <1>3, <2>1, <2>2, <2>3, <2>4
<1>8. ASSUME NEW m \in M, lo =< m[1], m[2] =< hi
      PROVE  \E i \in DOMAIN c : c[i][1] =< m[1] /\ m[1] < c[i][2]
  <2>1. m[2] =< mid \/ at =< m[1]
    BY <1>8
  <2>2. CASE m[2] =< mid
    <3>1. PICK i \in DOMAIN f : f[i][1] =< m[1] /\ m[1] < f[i][2]
      BY <1>8, <2>2 DEF Exhausts
    <3>2. i \in DOMAIN c /\ c[i] = f[i]
      BY <1>3
    <3> QED
      BY <3>1, <3>2
  <2>3. CASE at =< m[1]
    <3>1. PICK k \in DOMAIN g : g[k][1] =< m[1] /\ m[1] < g[k][2]
      BY <1>8, <2>3 DEF Exhausts
    <3>2. n + k \in DOMAIN c /\ c[n + k] = g[k]
      BY <1>3
    <3> QED
      BY <3>1, <3>2
  <2> QED
    BY <2>1, <2>2, <2>3
<1> QED
  BY <1>2, <1>6, <1>7, <1>8 DEF Exhausts, c

(* In a line.                                                              *)
LEMMA FoldedNotEmpty ==
  ASSUME NEW q \in Texts, q # <<>>
  PROVE  Folded(q) \in Texts /\ Len(Folded(q)) \in Nat \ {0}
<1> DEFINE n == Len(q)
<1>1. n \in Nat /\ n # 0 /\ 0 \in 0 .. n /\ n \in 0 .. n /\ 0 < n
  BY SMT DEF Texts
<1>2. /\ FoldedStart(q, 0) = 0 /\ FoldedStart(q, n) = Len(Folded(q))
      /\ FoldedStart(q, 0) < FoldedStart(q, n) /\ FoldedStart(q, n) \in Nat
  <2> HIDE DEF n
  <2>1. n = Len(q)
    BY DEF n
  <2> QED
    BY <1>1, <2>1, FoldedOffsets
<1>3. Folded(q) \in Texts
  BY FoldedText
<1> DEFINE l == Len(Folded(q))
<1>4. l \in Nat /\ 0 < l
  BY <1>2
<1> HIDE DEF l
<1>5. l \in Nat \ {0}
  BY <1>4, SMT
<1> QED
  BY <1>3, <1>5 DEF l

LEMMA LineExhausted ==
  ASSUME NEW line \in Texts, NEW fq \in Texts, Len(fq) \in Nat \ {0}
  PROVE  Exhausts(InLineMatches(line, fq), LineMatches(line, fq), 0, Len(line))
<1> DEFINE S == FoldedStarts(line, fq)
           n == Len(fq)
           M == LineMatches(line, fq)
           starts == LeftToRight(S, n)
           found == [i \in DOMAIN starts |-> SourceMatch(line, fq, starts[i])]
           FS(k) == FoldedStart(line, k)
           m0 == Len(Folded(line))
<1>1. m0 \in Nat
  <2> DEFINE F == Folded(line)
  <2>1. F \in Texts
    BY FoldedText
  <2> HIDE DEF F
  <2>2. Len(F) \in Nat
    BY <2>1, SMT DEF Texts
  <2> QED
    BY <2>2 DEF F
<1>2. S \in SUBSET (0 .. m0)
  BY SourceMatches
<1>3. Spaced(starts, S, n, 0)
  <2> HIDE DEF S, n, m0
  <2>1. n \in Nat \ {0}
    BY DEF n
  <2> QED
    BY <1>1, <1>2, <2>1, LeftToRightSpaced
<1> HIDE DEF starts
<1>4. /\ starts \in Seq(Nat)
      /\ \A i \in DOMAIN starts : starts[i] \in S
      /\ \A i, j \in DOMAIN starts : i < j => starts[i] + n =< starts[j]
      /\ \A s \in S : 0 =< s => \E i \in DOMAIN starts : starts[i] =< s /\ s < starts[i] + n
  BY <1>3 DEF Spaced
<1>5. InLineMatches(line, fq) = found
  BY DEF InLineMatches, starts
<1>6. ASSUME NEW i \in DOMAIN starts
      PROVE  /\ i \in DOMAIN found /\ found[i] \in M
             /\ FS(found[i][1]) = starts[i] /\ FS(found[i][2]) = starts[i] + n
             /\ starts[i] \in Nat
  <2>1. starts[i] \in S /\ found[i] = SourceMatch(line, fq, starts[i])
    BY <1>4
  <2> QED
    BY <2>1, SourceMatches
<1>7. DOMAIN found = DOMAIN starts
  OBVIOUS
<1>8. \A m \in M : /\ m[1] \in 0 .. Len(line) /\ m[2] \in 0 .. Len(line)
                   /\ m[1] \in Nat /\ m[2] \in Nat /\ m[1] < m[2] /\ m[2] =< Len(line)
                   /\ FS(m[1]) \in S /\ m \in Nat \X Nat
  <2>1. \A m \in M : m = <<m[1], m[2]>>
    BY DEF LineMatches
  <2>2. \A m \in M : /\ m[1] \in 0 .. Len(line) /\ m[2] \in 0 .. Len(line)
                     /\ m[1] \in Nat /\ m[2] \in Nat /\ m[1] < m[2] /\ m[2] =< Len(line)
                     /\ FS(m[1]) \in S
    BY MatchesHaveStarts
  <2> QED
    BY <2>1, <2>2
<1>9. found \in Seq(Nat \X Nat)
  <2> DEFINE E == Nat \X Nat
  <2>1. \A i \in DOMAIN starts : SourceMatch(line, fq, starts[i]) \in E
    BY <1>6, <1>8
  <2> HIDE DEF E
  <2>2. Len(starts) \in Nat /\ DOMAIN starts = 1 .. Len(starts)
    BY <1>4, SMT
  <2>3. found \in Seq(E)
    BY <2>1, <2>2, SMT
  <2> QED
    BY <2>3 DEF E
<1> HIDE DEF found, M, S
<1>10. \A i \in DOMAIN found : found[i] \in M /\ 0 =< found[i][1] /\ found[i][2] =< Len(line)
  <2>1. \A k \in Nat : 0 =< k
    BY SMT
  <2> QED
    BY <1>6, <1>7, <1>8, <2>1
<1>11. \A a, b \in 0 .. Len(line) : FS(a) =< FS(b) <=> a =< b
  BY OffsetsDiffer
<1>12. ASSUME NEW i \in DOMAIN found, NEW j \in DOMAIN found, i < j
       PROVE  found[i][2] =< found[j][1]
  <2>1. FS(found[i][2]) = starts[i] + n /\ FS(found[j][1]) = starts[j]
    BY <1>6, <1>7
  <2>2. starts[i] + n =< starts[j]
    BY <1>4, <1>7, <1>12
  <2>3. FS(found[i][2]) =< FS(found[j][1])
    BY <2>1, <2>2
  <2>4. found[i][2] \in 0 .. Len(line) /\ found[j][1] \in 0 .. Len(line)
    BY <1>8, <1>10
  <2> HIDE DEF FS
  <2> QED
    BY <1>11, <2>3, <2>4
<1>13. ASSUME NEW m \in M
       PROVE  \E i \in DOMAIN found : found[i][1] =< m[1] /\ m[1] < found[i][2]
  <2>1. FS(m[1]) \in S /\ m[1] \in 0 .. Len(line) /\ m[1] \in Nat
    BY <1>8
  <2> DEFINE s == FS(m[1])
  <2>2. s \in Nat /\ 0 =< s
    <3> HIDE DEF s
    <3>1. s \in 0 .. m0
      BY <1>2, <2>1 DEF s
    <3> HIDE DEF m0
    <3> QED
      BY <1>1, <3>1, SMT
  <2>3. PICK i \in DOMAIN starts : starts[i] =< s /\ s < starts[i] + n
    BY <1>4, <2>1, <2>2
  <2>4. /\ i \in DOMAIN found /\ FS(found[i][1]) = starts[i] /\ FS(found[i][2]) = starts[i] + n
        /\ found[i][1] \in 0 .. Len(line) /\ found[i][2] \in 0 .. Len(line)
        /\ found[i][2] \in Nat /\ starts[i] \in Nat
    BY <1>6, <1>7, <1>8
  <2>5. ~(FS(found[i][2]) =< FS(m[1]))
    <3> DEFINE k == starts[i]
    <3>1. FS(found[i][2]) = k + n /\ k \in Nat /\ s < k + n /\ n \in Nat
      BY <2>3, <2>4
    <3> HIDE DEF s, k, n
    <3>2. ~(k + n =< s)
      BY <2>2, <3>1, SMT
    <3> QED
      BY <3>1, <3>2 DEF s
  <2>6. FS(found[i][1]) =< FS(m[1])
    BY <2>3, <2>4
  <2> HIDE DEF FS
  <2>7. found[i][1] =< m[1] /\ ~(found[i][2] =< m[1])
    BY <1>11, <2>1, <2>4, <2>5, <2>6
  <2> DEFINE x == found[i][2]
             y == m[1]
  <2>8. ~(x =< y) /\ x \in Nat /\ y \in Nat
    BY <2>1, <2>4, <2>7
  <2> HIDE DEF x, y
  <2>9. y < x
    BY <2>8, SMT
  <2> QED
    BY <2>4, <2>7, <2>9 DEF x, y
<1> QED
  BY <1>5, <1>9, <1>10, <1>12, <1>13 DEF Exhausts, M

(* In the text.                                                            *)
LEMMA LineOfTextExhausted ==
  ASSUME NEW t \in Texts, NEW q \in Texts, q # <<>>, Breaks(q) = {}, NEW s \in LineStarts(t),
         NEW found, found = InLineMatches(Line(t, s), Folded(q))
  PROVE  Exhausts([i \in DOMAIN found |-> Shifted(found[i], s)], LineMatches(t, Folded(q)),
                  s, LineEnd(t, s))
<1> DEFINE fq == Folded(q)
           line == Line(t, s)
           e == LineEnd(t, s)
           L == LineMatches(line, fq)
           M == LineMatches(t, fq)
           shifted == [i \in DOMAIN found |-> Shifted(found[i], s)]
<1>1. fq \in Texts /\ Len(fq) \in Nat \ {0}
  BY FoldedNotEmpty
<1>2. line \in Texts /\ Len(line) = e - s /\ s \in Nat /\ e \in Nat /\ s =< e
  BY LineText, LinesInOrder
<1>3. Exhausts(found, L, 0, Len(line))
  <2> HIDE DEF fq, line
  <2> QED
    BY <1>1, <1>2, LineExhausted DEF fq, line
<1>4. /\ found \in Seq(Nat \X Nat)
      /\ \A i \in DOMAIN found : found[i] \in L
      /\ \A i, j \in DOMAIN found : i < j => found[i][2] =< found[j][1]
      /\ \A m \in L : 0 =< m[1] /\ m[2] =< Len(line) =>
           \E i \in DOMAIN found : found[i][1] =< m[1] /\ m[1] < found[i][2]
  BY <1>3 DEF Exhausts
<1>5. ASSUME NEW m \in L
      PROVE  /\ Shifted(m, s) = <<m[1] + s, m[2] + s>> /\ Shifted(m, s) \in M
             /\ m[1] \in Nat /\ m[2] \in Nat /\ m[2] + s =< e
             /\ m[1] + s \in Nat /\ m[2] + s \in Nat /\ s =< m[1] + s
  <2>1. /\ Shifted(m, s) = <<m[1] + s, m[2] + s>> /\ Shifted(m, s) \in M
        /\ m[1] \in Nat /\ m[2] \in Nat /\ m[2] + s =< e
    <3> HIDE DEF fq
    <3> QED
      BY <1>1, MatchOfLine
  <2> DEFINE a == m[1]
             b == m[2]
  <2>2. a \in Nat /\ b \in Nat
    BY <2>1
  <2> HIDE DEF a, b
  <2>3. a + s \in Nat /\ b + s \in Nat /\ s =< a + s
    BY <1>2, <2>2, SMT
  <2> QED
    BY <2>1, <2>3 DEF a, b
<1>6. DOMAIN shifted = DOMAIN found /\ \A i \in DOMAIN found : shifted[i] = Shifted(found[i], s)
  OBVIOUS
<1>7. shifted \in Seq(Nat \X Nat)
  <2> DEFINE E == Nat \X Nat
  <2>1. found \in Seq(E)
    BY <1>4
  <2>2. \A i \in DOMAIN found : Shifted(found[i], s) \in E
    BY <1>4, <1>5
  <2> HIDE DEF E
  <2>3. Len(found) \in Nat /\ DOMAIN found = 1 .. Len(found)
    BY <2>1, SMT
  <2>4. shifted \in Seq(E)
    BY <2>2, <2>3, SMT
  <2> QED
    BY <2>4 DEF E
<1> HIDE DEF shifted, L, M
<1>8. \A i \in DOMAIN shifted : shifted[i] \in M /\ s =< shifted[i][1] /\ shifted[i][2] =< e
  BY <1>4, <1>5, <1>6
<1>9. ASSUME NEW i \in DOMAIN shifted, NEW j \in DOMAIN shifted, i < j
      PROVE  shifted[i][2] =< shifted[j][1]
  <2>1. found[i][2] =< found[j][1] /\ found[i] \in L /\ found[j] \in L
    BY <1>4, <1>6, <1>9
  <2>2. /\ shifted[i][2] = found[i][2] + s /\ shifted[j][1] = found[j][1] + s
        /\ found[i][2] \in Nat /\ found[j][1] \in Nat
    BY <1>5, <1>6, <2>1
  <2> DEFINE a == found[i][2]
             b == found[j][1]
  <2>3. a \in Nat /\ b \in Nat /\ a =< b
    BY <2>1, <2>2
  <2> HIDE DEF a, b
  <2>4. a + s =< b + s
    BY <1>2, <2>3, SMT
  <2> QED
    BY <2>2, <2>4 DEF a, b
<1>10. ASSUME NEW m \in M, s =< m[1], m[2] =< e
       PROVE  \E i \in DOMAIN shifted : shifted[i][1] =< m[1] /\ m[1] < shifted[i][2]
  <2> DEFINE r == LineStart(t, m[1])
             a == m[1]
             b == m[2]
  <2>1. /\ a \in Nat /\ b \in Nat /\ a < b
        /\ r \in LineStarts(t) /\ r \in Nat /\ r =< a
        /\ <<a - r, b - r>> \in LineMatches(Line(t, r), fq)
    BY LineOfMatch DEF M
  <2>2. s =< r
    BY <1>10, <2>1, LineStartsBefore
  <2>3. s < r => e + 1 =< r
    BY <2>1, LinesInOrder
  <2>4. s =< a /\ b =< e
    BY <1>10
  <2> HIDE DEF a, b, r, e
  <2>5. r = s
    BY <1>2, <2>1, <2>2, <2>3, <2>4, SMT
  <2> DEFINE c == a - s
             d == b - s
  <2>6. <<c, d>> \in L
    BY <2>1, <2>5 DEF L
  <2>7. c \in Nat /\ 0 =< c /\ d =< Len(line) /\ a = c + s
    <3> HIDE DEF line
    <3> QED
      BY <1>2, <2>1, <2>4, SMT
  <2> HIDE DEF c, d, line
  <2>8. PICK i \in DOMAIN found : found[i][1] =< c /\ c < found[i][2]
    <3>1. <<c, d>>[1] = c /\ <<c, d>>[2] = d
      OBVIOUS
    <3> QED
      BY <1>4, <2>6, <2>7, <3>1
  <2>9. /\ shifted[i][1] = found[i][1] + s /\ shifted[i][2] = found[i][2] + s
        /\ found[i][1] \in Nat /\ found[i][2] \in Nat
    BY <1>4, <1>5, <1>6
  <2> DEFINE x == found[i][1]
             y == found[i][2]
  <2>10. x \in Nat /\ y \in Nat /\ x =< c /\ c < y
    BY <2>8, <2>9
  <2> HIDE DEF x, y
  <2>11. x + s =< a /\ a < y + s
    BY <1>2, <2>7, <2>10, SMT
  <2> QED
    BY <1>6, <2>9, <2>11 DEF x, y, a
<1> QED
  BY <1>7, <1>8, <1>9, <1>10 DEF Exhausts, shifted, M

LEMMA FoldedMatchesExhaust ==
  ASSUME NEW t \in Texts, NEW q \in Texts, q # <<>>, Breaks(q) = {}
  PROVE  Exhausts(FoldedMatches(t, q), LineMatches(t, Folded(q)), 0, Len(t))
<1> DEFINE fq == Folded(q)
           M == LineMatches(t, fq)
           starts == Ascending(LineStarts(t))
           n == Len(starts)
           InLine(s) == LET found == InLineMatches(Line(t, s), fq)
                        IN  [i \in DOMAIN found |-> Shifted(found[i], s)]
           pieces == [i \in DOMAIN starts |-> InLine(starts[i])]
           End(k) == IF k = 0 THEN 0 ELSE LineEnd(t, starts[k])
           S == {k \in 0 .. n : Exhausts(FlattenSeq(SubSeq(pieces, 1, k)), M, 0, End(k))}
<1>1. FoldedMatches(t, q) = FlattenSeq(pieces)
  BY DEF FoldedMatches
<1>2. fq \in Texts /\ Len(t) \in Nat
  BY FoldedText, BreaksAndStarts
<1>3. LineStarts(t) \in SUBSET (0 .. Len(t)) /\ 0 \in LineStarts(t)
  BY BreaksAndStarts
<1>4. /\ starts \in Seq(Nat)
      /\ \A i \in DOMAIN starts : starts[i] \in LineStarts(t)
      /\ \A i, j \in DOMAIN starts : i < j => starts[i] < starts[j]
      /\ \A s \in LineStarts(t) : \E i \in DOMAIN starts : starts[i] = s
  BY <1>2, <1>3, AscendingLists
<1> HIDE DEF starts
<1>5. DOMAIN starts = 1 .. n /\ n \in Nat
  BY <1>4, SMT
<1>6. \A s \in LineStarts(t) : Exhausts(InLine(s), M, s, LineEnd(t, s))
  BY LineOfTextExhausted
<1>7. Ranges(M)
  BY <1>2, MatchesHaveStarts DEF Ranges
<1> HIDE DEF M, InLine, n
<1>8. pieces \in Seq(Seq(Nat \X Nat)) /\ DOMAIN pieces = 1 .. n /\ Len(pieces) = n
      /\ \A i \in 1 .. n : pieces[i] = InLine(starts[i]) /\ pieces[i] \in Seq(Nat \X Nat)
  <2> DEFINE E == Seq(Nat \X Nat)
  <2>1. \A i \in 1 .. n : InLine(starts[i]) \in E
    BY <1>4, <1>5, <1>6 DEF Exhausts
  <2>2. DOMAIN pieces = 1 .. n /\ \A i \in 1 .. n : pieces[i] = InLine(starts[i])
    BY <1>5
  <2> HIDE DEF E
  <2>3. pieces \in Seq(E)
    BY <1>5, <2>1, SMT
  <2> HIDE DEF pieces
  <2>4. Len(pieces) = n
    BY <1>5, <2>2, <2>3, SMT
  <2> QED
    BY <2>1, <2>2, <2>3, <2>4 DEF E
<1> HIDE DEF pieces
<1>9. 0 \in S
  <2> DEFINE E == Seq(Nat \X Nat)
  <2>1. pieces \in Seq(E)
    BY <1>8
  <2> HIDE DEF E
  <2>2. SubSeq(pieces, 1, 0) = <<>>
    BY <2>1, SMT
  <2>3. Exhausts(<<>>, M, 0, 0)
    <3>1. 0 \in Nat
      BY SMT
    <3> QED
      BY <1>7, <3>1, NothingExhausts
  <2>4. 0 \in 0 .. n
    BY <1>5, SMT
  <2> QED
    BY <2>2, <2>3, <2>4, FlattenEmpty
<1>10. ASSUME NEW k \in 0 .. n - 1, k \in S
       PROVE  k + 1 \in S
  <2> DEFINE s == starts[k + 1]
             e == LineEnd(t, s)
             mid == End(k)
             front == SubSeq(pieces, 1, k)
             f == FlattenSeq(front)
             g == InLine(s)
  <2>1. k \in Nat /\ k + 1 \in 1 .. n /\ k + 1 \in 0 .. n /\ k + 1 # 0 /\ (k = 0 \/ k \in 1 .. n)
        /\ k < k + 1
    BY <1>5, SMT
  <2>2. s \in LineStarts(t) /\ s \in Nat /\ e \in Nat /\ s =< e /\ 0 =< s /\ 0 =< e
    <3>1. s \in LineStarts(t)
      BY <1>4, <1>5, <2>1
    <3>2. \A i \in Nat : 0 =< i
      BY SMT
    <3> HIDE DEF s
    <3> QED
      BY <3>1, <3>2, LinesInOrder
  <2>3. End(k + 1) = e
    BY <2>1
  <2>4. Exhausts(f, M, 0, mid)
    BY <1>10
  <2>5. Exhausts(g, M, s, e)
    <3> HIDE DEF s
    <3> QED
      BY <1>6, <2>2
  <2>6. FlattenSeq(SubSeq(pieces, 1, k + 1)) = f \o g
    <3> DEFINE E == Nat \X Nat
               x == pieces[k + 1]
    <3>1. pieces \in Seq(Seq(E)) /\ Len(pieces) = n /\ x = g /\ x \in Seq(E)
      BY <1>8, <2>1
    <3> HIDE DEF E, g
    <3> DEFINE D == Seq(E)
    <3>2. pieces \in Seq(D) /\ x \in D
      BY <3>1
    <3> HIDE DEF D
    <3>3. SubSeq(pieces, 1, k + 1) = Append(front, x) /\ front \in Seq(D)
      BY <1>5, <2>1, <3>1, <3>2, SMT
    <3>4. front \in Seq(Seq(E))
      BY <3>3 DEF D
    <3> HIDE DEF front, x
    <3>5. FlattenSeq(Append(front, x)) = FlattenSeq(front) \o x
      BY <3>1, <3>4, FlattenAppend
    <3> QED
      BY <3>1, <3>3, <3>5
  <2>7. mid \in Nat /\ 0 =< mid /\ mid =< s
        /\ \A r \in LineStarts(t) : (s =< r \/ LineEnd(t, r) =< mid)
    <3>1. CASE k = 0
      <4>1. mid = 0 /\ k + 1 = 1
        BY <3>1, SMT
      <4>2. ASSUME NEW r \in LineStarts(t)
            PROVE  s =< r
        <5>1. PICK j \in 1 .. n : starts[j] = r
          BY <1>4, <1>5
        <5>2. j = 1 \/ 1 < j
          BY <1>5, SMT
        <5>3. r = s \/ s < r
          BY <1>4, <1>5, <2>1, <4>1, <5>1, <5>2
        <5>4. r \in Nat
          BY LinesInOrder
        <5> HIDE DEF s
        <5> QED
          BY <2>2, <5>3, <5>4, SMT
      <4>3. 0 \in Nat /\ 0 =< 0
        BY SMT
      <4> QED
        BY <2>2, <4>1, <4>2, <4>3
    <3>2. CASE k # 0
      <4> DEFINE p == starts[k]
      <4>1. k \in 1 .. n /\ mid = LineEnd(t, p)
        BY <2>1, <3>2
      <4>2. p \in LineStarts(t) /\ p < s
        BY <1>4, <1>5, <2>1, <4>1
      <4>3. /\ LineEnd(t, p) + 1 =< s /\ LineEnd(t, p) \in Nat
        <5> HIDE DEF s, p
        <5> QED
          BY <2>2, <4>2, LinesInOrder
      <4>4. mid \in Nat /\ 0 =< mid /\ mid =< s
        <5>1. mid \in Nat /\ mid + 1 =< s
          BY <4>1, <4>3
        <5> HIDE DEF mid, s
        <5> QED
          BY <2>2, <5>1, SMT
      <4>5. ASSUME NEW r \in LineStarts(t)
            PROVE  s =< r \/ LineEnd(t, r) =< mid
        <5>1. PICK j \in 1 .. n : starts[j] = r
          BY <1>4, <1>5
        <5>2. j < k \/ j = k \/ j = k + 1 \/ k + 1 < j
          BY <1>5, <2>1, SMT
        <5>3. r < p \/ r = p \/ r = s \/ s < r
          BY <1>4, <1>5, <2>1, <4>1, <5>1, <5>2
        <5>4. r \in Nat /\ LineEnd(t, r) \in Nat /\ (r < p => LineEnd(t, r) + 1 =< p) /\ p \in Nat
              /\ p =< LineEnd(t, p)
          <6> HIDE DEF p
          <6> QED
            BY <4>2, LinesInOrder
        <5> DEFINE l == LineEnd(t, r)
        <5>5. /\ l \in Nat /\ (r < p => l + 1 =< p) /\ (r = p => l = mid) /\ p =< mid
          BY <4>1, <5>4
        <5> HIDE DEF l, p, s, mid
        <5>6. s =< r \/ l =< mid
          BY <2>2, <4>4, <5>3, <5>4, <5>5, SMT
        <5> QED
          BY <5>6 DEF l
      <4> QED
        BY <4>4, <4>5
    <3> QED
      BY <3>1, <3>2
  <2>8. ASSUME NEW m \in M
        PROVE  m[2] =< mid \/ s =< m[1]
    <3> DEFINE r == LineStart(t, m[1])
               a == m[1]
               b == m[2]
               l == LineEnd(t, r)
    <3>1. a \in Nat /\ b \in Nat /\ r \in LineStarts(t) /\ r \in Nat /\ r =< a /\ b =< l
      BY LineOfMatch DEF M
    <3>2. l \in Nat /\ (s =< r \/ l =< mid)
      <4> HIDE DEF r
      <4> QED
        BY <2>7, <3>1, LinesInOrder
    <3> HIDE DEF a, b, r, l, s, mid
    <3>3. b =< mid \/ s =< a
      BY <2>2, <2>7, <3>1, <3>2, SMT
    <3> QED
      BY <3>3 DEF a, b
  <2> HIDE DEF s, e, mid, f, g
  <2>9. Exhausts(f \o g, M, 0, e)
    <3>1. 0 \in Nat
      BY SMT
    <3> QED
      BY <1>7, <2>2, <2>4, <2>5, <2>7, <2>8, <3>1, StretchesJoin
  <2> QED
    BY <2>1, <2>3, <2>6, <2>9
<1>11. n \in S
  <2> HIDE DEF S
  <2>1. 0 .. n \subseteq S
    BY <1>5, <1>9, <1>10, InductionUpTo
  <2>2. n \in 0 .. n
    BY <1>5, SMT
  <2> QED
    BY <2>1, <2>2
<1>12. SubSeq(pieces, 1, n) = pieces
  <2> DEFINE E == Seq(Nat \X Nat)
  <2>1. pieces \in Seq(E) /\ Len(pieces) = n
    BY <1>8
  <2> HIDE DEF E
  <2> QED
    BY <2>1, SMT
<1>13. End(n) = Len(t)
  <2>1. PICK i \in 1 .. n : starts[i] = 0
    BY <1>3, <1>4, <1>5
  <2>2. n # 0 /\ n \in 1 .. n
    BY <1>5, <2>1, SMT
  <2> DEFINE s == starts[n]
             e == LineEnd(t, s)
  <2>3. End(n) = e /\ s \in LineStarts(t)
    BY <1>4, <1>5, <2>2
  <2>4. e \in Nat /\ e =< Len(t) /\ s \in Nat /\ s =< e /\ (e < Len(t) => e + 1 \in LineStarts(t))
    <3> HIDE DEF s
    <3> QED
      BY <2>3, LinesInOrder
  <2>5. ~(e < Len(t))
    <3> SUFFICES ASSUME e < Len(t) PROVE FALSE
      OBVIOUS
    <3>1. PICK j \in 1 .. n : starts[j] = e + 1
      BY <1>4, <1>5, <2>4
    <3>2. j = n \/ j < n
      BY <1>5, SMT
    <3>3. e + 1 = s \/ e + 1 < s
      BY <1>4, <1>5, <2>2, <3>1, <3>2
    <3> HIDE DEF e, s
    <3> QED
      BY <2>4, <3>3, SMT
  <2> HIDE DEF e
  <2>6. e = Len(t)
    BY <1>2, <2>4, <2>5, SMT
  <2> QED
    BY <2>3, <2>6
<1> QED
  BY <1>1, <1>11, <1>12, <1>13 DEF M

LEMMA ExactMatchesExhaust ==
  ASSUME NEW t \in Texts, NEW q \in Texts, q # <<>>
  PROVE  Exhausts(ExactMatches(t, q), ExactlyAt(t, q), 0, Len(t))
<1> DEFINE O == Occurrences(t, q)
           n == Len(q)
           M == ExactlyAt(t, q)
           starts == LeftToRight(O, n)
           found == [i \in DOMAIN starts |-> MatchOf(starts[i], q)]
<1>1. /\ n \in Nat \ {0} /\ O \in SUBSET (0 .. Len(t))
      /\ \A i \in O : i \in Nat /\ MatchOf(i, q) = <<i, i + n>> /\ MatchOf(i, q) \in M
      /\ \A m \in M : /\ m[1] \in O /\ m = MatchOf(m[1], q) /\ m[2] = m[1] + n
                      /\ m[1] \in Nat /\ m[2] \in Nat /\ m[1] < m[2] /\ m[2] =< Len(t)
  BY OccurrencesMatch
<1>2. Len(t) \in Nat /\ \A k \in Nat : 0 =< k
  <2>1. \A k \in Nat : 0 =< k
    BY SMT
  <2> QED
    BY <2>1, BreaksAndStarts
<1>3. Spaced(starts, O, n, 0)
  <2> HIDE DEF O, n
  <2> QED
    BY <1>1, <1>2, LeftToRightSpaced
<1>4. ExactMatches(t, q) = found
  BY DEF ExactMatches
<1> HIDE DEF starts, O, n, M
<1>5. /\ starts \in Seq(Nat)
      /\ \A i \in DOMAIN starts : starts[i] \in O
      /\ \A i, j \in DOMAIN starts : i < j => starts[i] + n =< starts[j]
      /\ \A s \in O : 0 =< s => \E i \in DOMAIN starts : starts[i] =< s /\ s < starts[i] + n
  BY <1>3 DEF Spaced
<1>6. DOMAIN found = DOMAIN starts
      /\ \A i \in DOMAIN starts : /\ found[i] = MatchOf(starts[i], q)
                                  /\ found[i] = <<starts[i], starts[i] + n>> /\ found[i] \in M
                                  /\ found[i][1] = starts[i] /\ found[i][2] = starts[i] + n
  BY <1>1, <1>5
<1>7. found \in Seq(Nat \X Nat)
  <2> DEFINE E == Nat \X Nat
  <2>1. \A i \in DOMAIN starts : MatchOf(starts[i], q) \in E
    <3> TAKE i \in DOMAIN starts
    <3>1. found[i] = <<found[i][1], found[i][2]>> /\ found[i] \in M
      BY <1>6
    <3> QED
      BY <1>1, <1>6, <3>1
  <2> HIDE DEF E
  <2>2. Len(starts) \in Nat /\ DOMAIN starts = 1 .. Len(starts)
    BY <1>5, SMT
  <2>3. found \in Seq(E)
    BY <2>1, <2>2, SMT
  <2> QED
    BY <2>3 DEF E
<1> HIDE DEF found
<1>8. \A i \in DOMAIN found : found[i] \in M /\ 0 =< found[i][1] /\ found[i][2] =< Len(t)
  BY <1>1, <1>2, <1>6
<1>9. \A i, j \in DOMAIN found : i < j => found[i][2] =< found[j][1]
  BY <1>5, <1>6
<1>10. \A m \in M : \E i \in DOMAIN found : found[i][1] =< m[1] /\ m[1] < found[i][2]
  <2> TAKE m \in M
  <2>1. m[1] \in O /\ 0 =< m[1]
    BY <1>1, <1>2
  <2>2. PICK i \in DOMAIN starts : starts[i] =< m[1] /\ m[1] < starts[i] + n
    BY <1>5, <2>1
  <2> QED
    BY <1>6, <2>2
<1> QED
  BY <1>4, <1>7, <1>8, <1>9, <1>10 DEF Exhausts, M

LEMMA FindAllExhausts ==
  ASSUME NEW t \in Texts, NEW search, IsQuery(search.query), search.case \in BOOLEAN
  PROVE  Exhausts(FindAll(t, search.query, search.case), Matches(t, search), 0, Len(t))
<1> DEFINE q == search.query
<1>1. q \in Texts /\ q # <<>> /\ Breaks(q) = {}
  BY DEF IsQuery
<1>2. /\ Exhausts(ExactMatches(t, q), ExactlyAt(t, q), 0, Len(t))
      /\ Exhausts(FoldedMatches(t, q), LineMatches(t, Folded(q)), 0, Len(t))
  <2> HIDE DEF q
  <2> QED
    BY <1>1, ExactMatchesExhaust, FoldedMatchesExhaust
<1> QED
  BY <1>2, MatchesByCase DEF FindAll

LEMMA ExhaustedInOrder ==
  ASSUME NEW found, NEW M, Ranges(M), NEW hi \in Nat, Exhausts(found, M, 0, hi)
  PROVE  InOrder(found, 0, hi)
<1>1. \A i \in DOMAIN found : found[i][1] =< found[i][2]
  <2> TAKE i \in DOMAIN found
  <2> DEFINE a == found[i][1]
             b == found[i][2]
  <2>1. a \in Nat /\ b \in Nat /\ a < b
    BY DEF Exhausts, Ranges
  <2> HIDE DEF a, b
  <2>2. a =< b
    BY <2>1, SMT
  <2> QED
    BY <2>2 DEF a, b
<1> QED
  BY <1>1 DEF Exhausts, InOrder

(* No match fits between two of them.                                      *)
LEMMA NoneBetween ==
  ASSUME NEW found, NEW M, Ranges(M), NEW hi \in Nat, Exhausts(found, M, 0, hi),
         NEW i \in 1 .. Len(found) + 1, NEW m \in M,
         (IF i = 1 THEN 0 ELSE found[i - 1][2]) =< m[1],
         m[2] =< (IF i > Len(found) THEN hi ELSE found[i][1])
  PROVE  FALSE
<1> DEFINE n == Len(found)
           a == m[1]
           b == m[2]
<1>1. n \in Nat /\ DOMAIN found = 1 .. n
  <2> DEFINE E == Nat \X Nat
  <2>1. found \in Seq(E)
    BY DEF Exhausts
  <2> HIDE DEF E
  <2> QED
    BY <2>1, SMT
<1>2. \A k \in 1 .. n : /\ found[k][1] \in Nat /\ found[k][2] \in Nat /\ found[k][1] < found[k][2]
                        /\ found[k][2] =< hi
  BY <1>1 DEF Exhausts, Ranges
<1>3. a \in Nat /\ b \in Nat /\ a < b
  BY DEF Ranges
<1>4. \A k, l \in 1 .. n : k < l => found[k][2] =< found[l][1]
  BY <1>1 DEF Exhausts
<1> HIDE DEF n
<1>5. i \in 1 .. n + 1
  BY DEF n
<1>6. /\ i # 1 => found[i - 1][2] =< a
      /\ i > n => b =< hi
      /\ ~(i > n) => b =< found[i][1]
  BY DEF n
<1>7. 0 =< a /\ b =< hi
  <2>1. CASE i > n
    <3> HIDE DEF a, b
    <3> QED
      BY <1>3, <1>6, <2>1, SMT
  <2>2. CASE ~(i > n)
    <3> DEFINE x == found[i][1]
               y == found[i][2]
    <3>1. i \in 1 .. n
      BY <1>1, <1>5, <2>2, SMT
    <3>2. x \in Nat /\ y \in Nat /\ x < y /\ y =< hi /\ b =< x
      BY <1>2, <1>6, <2>2, <3>1
    <3> HIDE DEF a, b, x, y
    <3> QED
      BY <1>3, <3>2, SMT
  <2> QED
    BY <2>1, <2>2
<1>8. PICK k \in 1 .. n : found[k][1] =< a /\ a < found[k][2]
  BY <1>1, <1>7 DEF Exhausts
<1> DEFINE x == found[k][1]
           y == found[k][2]
<1>9. x \in Nat /\ y \in Nat /\ x =< a /\ a < y
  BY <1>2, <1>8
<1>10. CASE k < i
  <2> DEFINE j == i - 1
  <2>1. j \in 1 .. n /\ i # 1 /\ (k = j \/ k < j)
    BY <1>1, <1>5, <1>10, SMT
  <2>2. found[j][2] =< a
    BY <1>6, <2>1
  <2> DEFINE c == found[j][1]
             d == found[j][2]
  <2>3. /\ c \in Nat /\ d \in Nat /\ c < d /\ d =< a /\ (k < j => y =< c) /\ (k = j => y = d)
    <3> HIDE DEF j
    <3> QED
      BY <1>2, <1>4, <2>1, <2>2
  <2> HIDE DEF a, b, x, y, c, d, j
  <2> QED
    BY <1>3, <1>9, <2>1, <2>3, SMT
<1>11. CASE ~(k < i)
  <2>1. i \in 1 .. n /\ (k = i \/ i < k) /\ ~(i > n)
    BY <1>1, <1>5, <1>11, SMT
  <2> DEFINE c == found[i][1]
             d == found[i][2]
  <2>2. /\ c \in Nat /\ d \in Nat /\ c < d /\ b =< c /\ (i < k => d =< x) /\ (k = i => x = c)
    BY <1>2, <1>4, <1>6, <2>1
  <2> HIDE DEF a, b, x, y, c, d
  <2> QED
    BY <1>3, <1>9, <2>1, <2>2, SMT
<1> QED
  BY <1>10, <1>11

LEMMA MatchesAreNotEmpty ==
  ASSUME NEW t \in Texts, NEW search, IsQuery(search.query)
  PROVE  Ranges(Matches(t, search))
  BY MatchesAreRanges DEF Ranges

LEMMA EveryReplaceAllIsComplete == TypeOK => ReplacesAll
<1> SUFFICES ASSUME TypeOK, NEW search \in Seeks
             PROVE  LET found == FindAll(text, search.query, search.case)
                        Before(i) == IF i = 1 THEN 0 ELSE found[i - 1][2]
                        After(i) == IF i > Len(found) THEN Len(text) ELSE found[i][1]
                    IN  /\ \A i \in DOMAIN found :
                             found[i] \in Matches(text, search) /\ Before(i) =< found[i][1]
                        /\ \A i \in 1 .. Len(found) + 1 : \A m \in Matches(text, search) :
                             ~(Before(i) =< m[1] /\ m[2] =< After(i))
  BY DEF ReplacesAll
<1> DEFINE found == FindAll(text, search.query, search.case)
           M == Matches(text, search)
           n == Len(found)
<1>1. text \in Texts /\ Len(text) \in Nat
  BY BreaksAndStarts DEF TypeOK
<1>2. Ranges(M) /\ Exhausts(found, M, 0, Len(text))
  BY <1>1, SeeksAreQueries, MatchesAreNotEmpty, FindAllExhausts
<1> HIDE DEF found, M
<1>3. n \in Nat /\ DOMAIN found = 1 .. n
  <2> DEFINE E == Nat \X Nat
  <2>1. found \in Seq(E)
    BY <1>2 DEF Exhausts
  <2> HIDE DEF E
  <2> QED
    BY <2>1, SMT
<1>4. ASSUME NEW i \in DOMAIN found
      PROVE  found[i] \in M /\ (IF i = 1 THEN 0 ELSE found[i - 1][2]) =< found[i][1]
  <2>1. found[i] \in M /\ 0 =< found[i][1]
    BY <1>2 DEF Exhausts
  <2>2. CASE i # 1
    <3> DEFINE j == i - 1
    <3>1. j \in 1 .. n /\ j < i
      <4> HIDE DEF n
      <4> QED
        BY <1>3, <2>2, SMT
    <3> HIDE DEF j
    <3>2. found[j][2] =< found[i][1]
      BY <1>2, <1>3, <3>1 DEF Exhausts
    <3> QED
      BY <2>1, <2>2, <3>2 DEF j
  <2> QED
    BY <2>1, <2>2
<1>5. ASSUME NEW i \in 1 .. n + 1, NEW m \in M,
             (IF i = 1 THEN 0 ELSE found[i - 1][2]) =< m[1],
             m[2] =< (IF i > Len(found) THEN Len(text) ELSE found[i][1])
      PROVE  FALSE
  BY <1>1, <1>2, <1>5, NoneBetween
<1> QED
  BY <1>4, <1>5 DEF found, M

LEMMA ReplaceAllIsGood ==
  ASSUME NEW t \in Texts, NEW v \in ViewsOf(t), NEW search, IsQuery(search.query),
         search.case \in BOOLEAN, search.replacement \in Texts
  PROVE  GoodPlan(t, ReplaceAllPlan(t, v, search))
<1> DEFINE found == FindAll(t, search.query, search.case)
           x == search.replacement
<1>1. InOrder(found, 0, Len(t))
  <2>1. Ranges(Matches(t, search)) /\ Exhausts(found, Matches(t, search), 0, Len(t))
    BY MatchesAreNotEmpty, FindAllExhausts
  <2>2. Len(t) \in Nat
    BY BreaksAndStarts
  <2> HIDE DEF found
  <2> QED
    BY <2>1, <2>2, ExhaustedInOrder
<1> HIDE DEF found
<1>2. GoodPlan(t, NoChange(t, v))
  BY NoChangeIsGood
<1>3. GoodPlan(t, Accepted(t, v, [final |-> SplicedAll(t, found, x),
                                  ops |-> OperationsDescending(t, found, x),
                                  view |-> MappedView(v, found, x)]))
  <2>1. x \in Texts
    OBVIOUS
  <2> HIDE DEF x
  <2> QED
    BY <1>1, <2>1, RangesReplacedIsGood
<1>4. GoodPlan(t, ReplacingAll(t, v, search, found))
  BY <1>2, <1>3 DEF ReplacingAll
<1> QED
  BY <1>4 DEF ReplaceAllPlan, found

-----------------------------------------------------------------------------
(* Replace, and what it shows afterwards.                                  *)

LEMMA FindNextFinds ==
  ASSUME NEW t \in Texts, NEW search, IsQuery(search.query), search.case \in BOOLEAN,
         NEW from \in 0 .. Len(t),
         NEW r, r = FindNext(t, search.query, from, search.case)
  PROVE  \/ r = NoMatch
         \/ /\ r \in Matches(t, search) /\ r = <<r[1], r[2]>>
            /\ r[1] \in Nat /\ r[2] \in Nat /\ r[1] < r[2] /\ r[2] =< Len(t)
<1> DEFINE M == Matches(t, search)
           ahead == {m \in M : m[1] >= from}
           wrapped == {m \in M : search.case => m[2] =< from}
<1>1. IsLeftmost(IF ahead # {} THEN ahead ELSE wrapped, r)
  BY FindNextIs
<1>2. r = NoMatch \/ r \in M
  BY <1>1 DEF IsLeftmost
<1>3. /\ M \subseteq (0 .. Len(t)) \X (0 .. Len(t))
      /\ \A m \in M : m[1] \in Nat /\ m[2] \in Nat /\ m[1] < m[2] /\ m[2] =< Len(t)
  BY MatchesAreRanges
<1> HIDE DEF M
<1>4. r \in M => r = <<r[1], r[2]>>
  BY <1>3
<1> QED
  BY <1>2, <1>3, <1>4 DEF M

LEMMA NextShown ==
  ASSUME NEW t \in Texts, NEW search, IsQuery(search.query), search.case \in BOOLEAN,
         NEW end \in 0 .. Len(t),
         NEW v, v = Found(FindNext(t, search.query, end, search.case), Caret(end))
  PROVE  /\ v \in ViewsOf(t)
         /\ IF HasSelection(v) THEN <<Low(v), High(v)>> \in Matches(t, search)
            ELSE NextMatch(t, v, search) = NoMatch
<1> DEFINE r == FindNext(t, search.query, end, search.case)
<1>1. \/ r = NoMatch
      \/ /\ r \in Matches(t, search) /\ r = <<r[1], r[2]>>
         /\ r[1] \in Nat /\ r[2] \in Nat /\ r[1] < r[2] /\ r[2] =< Len(t)
  BY FindNextFinds
<1>2. Len(t) \in Nat
  BY BreaksAndStarts
<1>3. CASE r = NoMatch
  <2>1. v = Caret(end)
    BY <1>3 DEF Found
  <2>2. v \in ViewsOf(t) /\ ~HasSelection(v) /\ v.ins = end
    BY <2>1 DEF Caret, ViewsOf, HasSelection
  <2>3. High(v) = end
    BY <2>2, SelectionEnds
  <2> QED
    BY <1>3, <2>2, <2>3 DEF NextMatch
<1>4. CASE r # NoMatch
  <2> DEFINE a == r[1]
             b == r[2]
  <2>1. r \in Matches(t, search) /\ r = <<a, b>>
        /\ a \in Nat /\ b \in Nat /\ a < b /\ b =< Len(t)
    BY <1>1, <1>4
  <2>2. v = [ins |-> b, bound |-> a]
    BY <1>4 DEF Found, SelectedMatch
  <2> HIDE DEF a, b, r
  <2>3. a \in 0 .. Len(t) /\ b \in 0 .. Len(t) /\ a # b /\ ~(b =< a)
    BY <1>2, <2>1, SMT
  <2>4. v \in ViewsOf(t) /\ HasSelection(v) /\ v.ins = b /\ v.bound = a
    BY <2>2, <2>3 DEF ViewsOf, HasSelection
  <2>5. /\ Low(v) =< High(v)
        /\ (Low(v) = b /\ High(v) = a) \/ (Low(v) = a /\ High(v) = b)
    BY <2>4, SelectionEnds
  <2>6. Low(v) = a /\ High(v) = b
    BY <2>3, <2>5
  <2> QED
    BY <2>1, <2>4, <2>6
<1> QED
  BY <1>3, <1>4

LEMMA ReplacedRange ==
  ASSUME NEW t \in Texts, NEW v \in ViewsOf(t), NEW search, IsQuery(search.query),
         search.case \in BOOLEAN, NEW m, m = ReplacedMatch(t, v, search)
  PROVE  \/ m = NoMatch
         \/ m[1] \in Nat /\ m[2] \in Nat /\ m[1] =< m[2] /\ m[2] =< Len(t)
<1>1. Low(v) \in Nat /\ High(v) \in Nat /\ Low(v) =< High(v) /\ High(v) =< Len(t)
  BY SelectionEnds
<1>2. CASE IsExactMatch(t, search.query, Low(v), High(v), search.case)
  <2>1. m = <<Low(v), High(v)>>
    BY <1>2 DEF ReplacedMatch
  <2> QED
    BY <1>1, <2>1
<1>3. CASE ~IsExactMatch(t, search.query, Low(v), High(v), search.case)
  <2>1. m = FindNext(t, search.query, High(v), search.case)
    BY <1>3 DEF ReplacedMatch, NextMatch
  <2>2. High(v) \in 0 .. Len(t)
    <3> DEFINE h == High(v)
    <3>1. h \in Nat /\ h =< Len(t) /\ Len(t) \in Nat
      BY <1>1, BreaksAndStarts
    <3> HIDE DEF h
    <3>2. h \in 0 .. Len(t)
      BY <3>1, SMT
    <3> QED
      BY <3>2 DEF h
  <2>3. \/ m = NoMatch
        \/ m[1] \in Nat /\ m[2] \in Nat /\ m[1] < m[2] /\ m[2] =< Len(t)
    BY <2>1, <2>2, FindNextFinds
  <2>4. CASE m # NoMatch
    <3> DEFINE a == m[1]
               b == m[2]
    <3>1. a \in Nat /\ b \in Nat /\ a < b
      BY <2>3, <2>4
    <3> HIDE DEF a, b
    <3>2. a =< b
      BY <3>1, SMT
    <3> QED
      BY <2>3, <3>2 DEF a, b
  <2> QED
    BY <2>4
<1> QED
  BY <1>2, <1>3

LEMMA ReplaceOneIsGood ==
  ASSUME NEW t \in Texts, NEW v \in ViewsOf(t), NEW search, IsQuery(search.query),
         search.case \in BOOLEAN, search.replacement \in Texts,
         NEW plan, plan = ReplaceOnePlan(t, v, search)
  PROVE  /\ GoodPlan(t, plan)
         /\ plan.final # t =>
              IF HasSelection(plan.view)
              THEN <<Low(plan.view), High(plan.view)>> \in Matches(plan.final, search)
              ELSE NextMatch(plan.final, plan.view, search) = NoMatch
<1> DEFINE m == ReplacedMatch(t, v, search)
           a == m[1]
           b == m[2]
           x == search.replacement
           final == Spliced(t, a, b, x)
           end == a + Len(x)
           target == AfterReplacement(t, final, m, search)
           Shows2(u, w) == IF HasSelection(w) THEN <<Low(w), High(w)>> \in Matches(u, search)
                           ELSE NextMatch(u, w, search) = NoMatch
<1>1. plan = IF m = NoMatch THEN NoChange(t, v)
             ELSE IF final = t THEN NoChange(t, AfterReplacement(t, t, m, search))
             ELSE ReplacePlan(t, v, a, b, x, target)
  BY DEF ReplaceOnePlan, Replacing
<1>2. CASE m = NoMatch
  <2>1. plan = NoChange(t, v)
    BY <1>1, <1>2
  <2>2. GoodPlan(t, plan)
    BY <2>1, NoChangeIsGood
  <2>3. plan.final = t
    BY <2>1 DEF NoChange
  <2> QED
    BY <2>2, <2>3
<1>3. CASE m # NoMatch
  <2>1. a \in Nat /\ b \in Nat /\ a =< b /\ b =< Len(t) /\ x \in Texts
    BY <1>3, ReplacedRange
  <2> HIDE DEF a, b, x, m
  <2>2. final \in Texts /\ Len(final) = a + Len(x) + (Len(t) - b) /\ Len(x) \in Nat /\ Len(t) \in Nat
    <3>1. ReadsReplaced(t, a, b, x, final)
      BY <2>1, SplicedText
    <3>2. Len(x) \in Nat /\ Len(t) \in Nat
      BY <2>1, BreaksAndStarts
    <3> HIDE DEF final
    <3> QED
      BY <3>1, <3>2 DEF ReadsReplaced
  <2>3. end \in 0 .. Len(final)
    <3> HIDE DEF final
    <3> QED
      BY <2>1, <2>2, SMT
  <2>4. target = Found(FindNext(final, search.query, end, search.case), Caret(end))
    BY DEF AfterReplacement, a, x
  <2>5. target \in ViewsOf(final) /\ Shows2(final, target)
    <3> HIDE DEF final, end, target
    <3> QED
      BY <2>2, <2>3, <2>4, NextShown
  <2>6. CASE final = t
    <3>1. plan = NoChange(t, target) /\ target \in ViewsOf(t)
      BY <1>1, <1>3, <2>5, <2>6
    <3> HIDE DEF target
    <3>2. GoodPlan(t, plan)
      BY <3>1, NoChangeIsGood
    <3>3. plan.final = t
      BY <3>1 DEF NoChange
    <3> QED
      BY <3>2, <3>3
  <2>7. CASE final # t
    <3>1. plan = ReplacePlan(t, v, a, b, x, target)
      BY <1>1, <1>3, <2>7
    <3>2. target \in ViewsOf(Spliced(t, a, b, x))
      BY <2>5
    <3> HIDE DEF target
    <3>3. GoodPlan(t, plan)
      BY <2>1, <3>1, <3>2, ReplacePlanIsGood
    <3>4. plan.final = t \/ (plan.final = final /\ plan.view = target)
      BY <3>1 DEF ReplacePlan, NoChange, Accepted
    <3> HIDE DEF final
    <3>5. plan.final # t => Shows2(plan.final, plan.view)
      BY <2>5, <3>4
    <3> QED
      BY <3>3, <3>5
  <2> QED
    BY <2>6, <2>7
<1> QED
  BY <1>2, <1>3

LEMMA EveryReplaceShowsTheNext == TypeOK => ReplaceShowsTheNext
<1> SUFFICES ASSUME TypeOK, NEW search \in Searches
             PROVE  LET plan == ReplaceOnePlan(text, view, search)
                    IN  plan.final # text =>
                          IF HasSelection(plan.view)
                          THEN <<Low(plan.view), High(plan.view)>> \in Matches(plan.final, search)
                          ELSE NextMatch(plan.final, plan.view, search) = NoMatch
  BY DEF ReplaceShowsTheNext
<1> DEFINE plan == ReplaceOnePlan(text, view, search)
<1>1. /\ text \in Texts /\ view \in ViewsOf(text)
      /\ IsQuery(search.query) /\ search.case \in BOOLEAN /\ search.replacement \in Texts
  BY SeeksAreQueries DEF TypeOK
<1>2. plan = ReplaceOnePlan(text, view, search)
  OBVIOUS
<1> HIDE DEF plan
<1> QED
  BY <1>1, <1>2, ReplaceOneIsGood

-----------------------------------------------------------------------------
(* Every step keeps text, view and line width.                             *)

LEMMA GoodResult ==
  ASSUME NEW t \in Texts, NEW plan, GoodPlan(t, plan)
  PROVE  /\ AllApply(t, plan.ops) /\ ApplyOperations(t, plan.ops) = plan.final
         /\ Result(t, plan) = plan.final
         /\ plan.final \in Texts /\ plan.view \in ViewsOf(plan.final)
         /\ Renderable(t) => Renderable(plan.final)
  BY DEF GoodPlan, Makes, Result

LEMMA EveryPlanIsGood == TypeOK => \A plan \in Plans : GoodPlan(text, plan)
<1> SUFFICES ASSUME TypeOK, NEW plan \in Plans
             PROVE  GoodPlan(text, plan)
  OBVIOUS
<1>1. text \in Texts /\ view \in ViewsOf(text)
  BY DEF TypeOK
<1>2. GoodPlan(text, Recased(text, view, Upper)) /\ GoodPlan(text, Recased(text, view, Lower))
  BY <1>1, RecasedIsGood, CasesAreText
<1>3. /\ GoodPlan(text, Duplicate(text, view)) /\ GoodPlan(text, Trim(text, view))
      /\ GoodPlan(text, MoveUp(text, view)) /\ GoodPlan(text, MoveDown(text, view))
  BY <1>1, DuplicateIsGood, TrimIsGood, MoveUpIsGood, MoveDownIsGood
<1>4. ASSUME NEW search \in Searches
      PROVE  /\ GoodPlan(text, ReplaceOnePlan(text, view, search))
             /\ GoodPlan(text, ReplaceAllPlan(text, view, search))
  BY <1>1, SeeksAreQueries, ReplaceOneIsGood, ReplaceAllIsGood
<1> QED
  BY <1>2, <1>3, <1>4 DEF Plans, Transformations

(* What is found is shown inside the text.                                 *)
LEMMA FoundShown ==
  ASSUME NEW t \in Texts, NEW v \in ViewsOf(t), NEW m,
         m = NoMatch \/ m \in (0 .. Len(t)) \X (0 .. Len(t))
  PROVE  Found(m, v) \in ViewsOf(t)
  BY DEF Found, SelectedMatch, ViewsOf

LEMMA FoundMatches ==
  ASSUME NEW t \in Texts, NEW v \in ViewsOf(t), NEW search, IsQuery(search.query),
         search.case \in BOOLEAN
  PROVE  /\ Found(NextMatch(t, v, search), v) \in ViewsOf(t)
         /\ Found(PreviousMatch(t, v, search), v) \in ViewsOf(t)
<1> DEFINE M == Matches(t, search)
           h == High(v)
           l == Low(v)
           n == NextMatch(t, v, search)
           p == PreviousMatch(t, v, search)
           ahead == {m \in M : m[1] >= h}
           wrappedAhead == {m \in M : search.case => m[2] =< h}
           behind == {m \in M : m[2] =< l}
           wrappedBehind == {m \in M : search.case => m[1] >= l}
<1>1. h \in 0 .. Len(t) /\ l \in 0 .. Len(t)
  <2>1. l \in Nat /\ h \in Nat /\ l =< h /\ h =< Len(t) /\ Len(t) \in Nat
    BY SelectionEnds, BreaksAndStarts
  <2> HIDE DEF l, h
  <2> QED
    BY <2>1, SMT
<1>2. IsLeftmost(IF ahead # {} THEN ahead ELSE wrappedAhead, n)
  BY <1>1, FindNextIs DEF NextMatch
<1>3. IsRightmost(IF behind # {} THEN behind ELSE wrappedBehind, p)
  BY <1>1, FindPreviousIs DEF PreviousMatch
<1>4. (n = NoMatch \/ n \in M) /\ (p = NoMatch \/ p \in M)
  <2> HIDE DEF M, n, p
  <2> QED
    BY <1>2, <1>3 DEF IsLeftmost, IsRightmost
<1>5. M \subseteq (0 .. Len(t)) \X (0 .. Len(t))
  BY MatchesAreRanges
<1> HIDE DEF M, n, p
<1>6. Found(n, v) \in ViewsOf(t) /\ Found(p, v) \in ViewsOf(t)
  BY <1>4, <1>5, FoundShown
<1> QED
  BY <1>6 DEF n, p

LEMMA Beginning == Init => TypeOK /\ LinesFit
<1> SUFFICES ASSUME Init
             PROVE  TypeOK /\ LinesFit
  OBVIOUS
<1>1. text \in Texts /\ Renderable(text) /\ view = Caret(0)
  BY SettingsAreSingleLines DEF Init
<1>2. 0 \in 0 .. Len(text)
  <2>1. Len(text) \in Nat
    BY <1>1, BreaksAndStarts
  <2> QED
    BY <2>1, SMT
<1> QED
  BY <1>1, <1>2 DEF TypeOK, LinesFit, Caret, ViewsOf

LEMMA EveryStepFits == TypeOK /\ LinesFit /\ [Next]_vars => TypeOK' /\ LinesFit'
<1> SUFFICES ASSUME TypeOK, LinesFit, [Next]_vars
             PROVE  TypeOK' /\ LinesFit'
  OBVIOUS
<1>1. text \in Texts /\ view \in ViewsOf(text) /\ Renderable(text) /\ Len(text) \in Nat
  BY BreaksAndStarts DEF TypeOK, LinesFit
<1>2. ASSUME text' \in Texts, view' \in ViewsOf(text'), Renderable(text')
      PROVE  TypeOK' /\ LinesFit'
  BY <1>2 DEF TypeOK, LinesFit
<1>3. ASSUME UNCHANGED text, view' \in ViewsOf(text)
      PROVE  TypeOK' /\ LinesFit'
  BY <1>1, <1>2, <1>3
<1>4. ASSUME \E plan \in Plans : Applied(plan)
      PROVE  TypeOK' /\ LinesFit'
  <2>1. PICK plan \in Plans : Applied(plan)
    BY <1>4
  <2>2. GoodPlan(text, plan)
    BY EveryPlanIsGood
  <2>3. /\ AllApply(text, plan.ops) /\ Result(text, plan) = plan.final
        /\ plan.final \in Texts /\ plan.view \in ViewsOf(plan.final) /\ Renderable(plan.final)
    BY <1>1, <2>2, GoodResult
  <2>4. text' = plan.final /\ view' = plan.view
    BY <2>1, <2>3 DEF Applied, Shows
  <2> QED
    BY <1>2, <2>3, <2>4
<1>5. CASE MoveCaret
  BY <1>3, <1>5 DEF MoveCaret
<1>6. CASE Insert
  <2>1. PICK x \in Pasted :
          /\ ~HasSelection(view)
          /\ InsertFits(text, view.ins, x)
          /\ text' = Spliced(text, view.ins, view.ins, x) /\ view' = Caret(view.ins + Len(x))
    BY <1>6 DEF Insert, Shows
  <2>2. x \in Texts
    BY SettingsAreSingleLines
  <2>3. view.ins \in Nat /\ view.ins =< Len(text)
    BY <1>1, SelectionEnds
  <2> DEFINE o == view.ins
             u == Spliced(text, o, o, x)
  <2>4. o =< o /\ Len(x) \in Nat
    <3> HIDE DEF o
    <3>1. Len(x) \in Nat
      BY <2>2, SMT DEF Texts
    <3>2. o \in Nat
      BY <2>3 DEF o
    <3> QED
      BY <3>1, <3>2, SMT
  <2> HIDE DEF o
  <2>5. u \in Texts /\ ReadsReplaced(text, o, o, x, u)
    BY <1>1, <2>2, <2>3, <2>4, SplicedText DEF o
  <2>6. Renderable(u)
    BY <1>1, <2>1, <2>2, <2>3, InsertFitsMeansRenderable DEF o
  <2>7. o + Len(x) \in 0 .. Len(u)
    <3>1. Len(u) = o + Len(x) + (Len(text) - o)
      BY <2>5 DEF ReadsReplaced
    <3>2. o \in Nat /\ o =< Len(text)
      BY <2>3 DEF o
    <3> HIDE DEF u
    <3> QED
      BY <1>1, <2>4, <3>1, <3>2, SMT
  <2>8. text' = u /\ view' = Caret(o + Len(x))
    BY <2>1 DEF o
  <2>9. Caret(o + Len(x)) \in ViewsOf(u)
    <3> HIDE DEF u
    <3> QED
      BY <2>7 DEF Caret, ViewsOf
  <2> HIDE DEF u
  <2> QED
    BY <1>2, <2>5, <2>6, <2>8, <2>9
<1>7. CASE Delete
  <2> DEFINE lo == Low(view)
             hi == High(view)
             u == Spliced(text, lo, hi, <<>>)
  <2>1. /\ DeleteFits(text, lo, hi) /\ text' = u /\ view' = Caret(lo)
    BY <1>7 DEF Delete, Shows
  <2>2. lo \in Nat /\ hi \in Nat /\ lo =< hi /\ hi =< Len(text)
    BY <1>1, SelectionEnds
  <2> HIDE DEF lo, hi
  <2>3. <<>> \in Texts /\ Len(<<>>) = 0
    BY SMT DEF Texts
  <2>4. u \in Texts /\ ReadsReplaced(text, lo, hi, <<>>, u)
    BY <1>1, <2>2, <2>3, SplicedText
  <2>5. Renderable(u)
    BY <1>1, <2>1, <2>2, DeleteFitsMeansRenderable
  <2>6. lo \in 0 .. Len(u)
    <3>1. Len(u) = lo + 0 + (Len(text) - hi)
      BY <2>3, <2>4 DEF ReadsReplaced
    <3> HIDE DEF u
    <3> QED
      BY <1>1, <2>2, <3>1, SMT
  <2> HIDE DEF u
  <2>7. Caret(lo) \in ViewsOf(u)
    BY <2>6 DEF Caret, ViewsOf
  <2> QED
    BY <1>2, <2>1, <2>4, <2>5, <2>7
<1>8. CASE PerformFindNext \/ PerformFindPrevious
  <2>1. PICK search \in Seeks :
          /\ \/ view' = Found(NextMatch(text, view, search), view)
             \/ view' = Found(PreviousMatch(text, view, search), view)
          /\ UNCHANGED text
    BY <1>8 DEF PerformFindNext, PerformFindPrevious
  <2>2. /\ Found(NextMatch(text, view, search), view) \in ViewsOf(text)
        /\ Found(PreviousMatch(text, view, search), view) \in ViewsOf(text)
    BY <1>1, SeeksAreQueries, FoundMatches
  <2> QED
    BY <1>3, <2>1, <2>2
<1>9. CASE PerformReplaceOne \/ PerformReplaceAll
  BY <1>4, <1>9 DEF PerformReplaceOne, PerformReplaceAll, Plans
<1>10. CASE \/ Uppercase \/ Lowercase \/ DuplicateLineSelection
            \/ MoveLinesUp \/ MoveLinesDown \/ TrimTrailingSpaces
  BY <1>4, <1>10 DEF Uppercase, Lowercase, DuplicateLineSelection, MoveLinesUp, MoveLinesDown,
                    TrimTrailingSpaces, Plans, Transformations
<1>11. CASE UNCHANGED vars
  BY <1>1, <1>3, <1>11 DEF vars
<1> QED
  BY <1>5, <1>6, <1>7, <1>8, <1>9, <1>10, <1>11 DEF Next

LEMMA EverythingFits == Spec => [](TypeOK /\ LinesFit)
<1>1. TypeOK /\ LinesFit /\ [Next]_vars => (TypeOK /\ LinesFit)'
  BY EveryStepFits
<1> QED
  BY Beginning, <1>1, PTL DEF Spec

(* Caret and selection never leave the text, whatever the commands made of *)
(* it (EditorController, TextSearchService, transformations).              *)
THEOREM TypeCorrect == Spec => []TypeOK
  BY EverythingFits, PTL

(* No line becomes wider than the widget can render: the window's guards   *)
(* for native insertions and deletions and the check of every plan leave   *)
(* no way around the limit.                                                *)
THEOREM LinesAlwaysFit == Spec => []LinesFit
  BY EverythingFits, PTL

(* What the operations of every plan make of the text is the text whose    *)
(* width was checked, and no operation misses its place.                   *)
THEOREM PlansAreExact == Spec => []PlansMakeFinalText
<1>1. TypeOK => PlansMakeFinalText
  <2> SUFFICES ASSUME TypeOK, NEW plan \in Plans
               PROVE  AllApply(text, plan.ops) /\ ApplyOperations(text, plan.ops) = plan.final
    BY DEF PlansMakeFinalText
  <2>1. GoodPlan(text, plan) /\ text \in Texts
    BY EveryPlanIsGood DEF TypeOK
  <2> QED
    BY <2>1, GoodResult
<1> QED
  BY <1>1, TypeCorrect, PTL

(* Find Next and Find Previous select the nearest match there is, in every *)
(* text and for every query: neither case folding nor line boundaries hide *)
(* or invent one (find_next, find_previous).                               *)
THEOREM SearchFindsNearest == Spec => []FindsNearest
  BY EveryFindIsNearest, TypeCorrect, PTL

(* Replace All replaces disjoint matches and leaves none that fits between *)
(* two of them (find_all).                                                 *)
THEOREM ReplaceAllIsComplete == Spec => []ReplacesAll
  BY EveryReplaceAllIsComplete, TypeCorrect, PTL

(* Replace shows a match of the text it leaves, and none only where Find   *)
(* Next finds none (plan_replace_one).                                     *)
THEOREM ReplaceLeavesTheNext == Spec => []ReplaceShowsTheNext
  BY EveryReplaceShowsTheNext, TypeCorrect, PTL
=============================================================================
