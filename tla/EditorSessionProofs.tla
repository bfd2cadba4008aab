------------------------ MODULE EditorSessionProofs ------------------------
(***************************************************************************)
(* Proofs about the journal and the session.                               *)
(*                                                                         *)
(* First what the operations of the delta journal return and preserve, for *)
(* every history; then type correctness and HistoryChain, for any          *)
(* alphabet, limits, inputs and faults.  The inductive invariant is        *)
(* StateOK (with the types of the observer content): HistoryChain alone is *)
(* not inductive, because Undo and Redo make an identity current that only *)
(* the stacks know, so the invariant also says that those were handed out  *)
(* before the next one.                                                    *)
(*                                                                         *)
(* Then what the identities stand for: the next undo and redo find what    *)
(* they expect, an identity keeps its text, Saved means accepted, a failed *)
(* operation restores, the journal stays within its limits, and the        *)
(* session implements the snapshot editor.  The inductive invariant        *)
(* (Meaning, below) says that every group of the journal leads, delta by   *)
(* delta, from the text of the identity it starts from to the text of the  *)
(* one it ends at.                                                         *)
(***************************************************************************)
EXTENDS EditorSession, EditorBufferProofs

-----------------------------------------------------------------------------
(* Stacks.                                                                 *)

LEMMA FrontAndLast ==
  ASSUME NEW S, NEW s \in Seq(S), s # <<>>
  PROVE  /\ Len(s) \in Nat \ {0} /\ Last(s) = s[Len(s)] /\ Last(s) \in S
         /\ Front(s) \in Seq(S) /\ Len(Front(s)) = Len(s) - 1
         /\ \A i \in 1 .. Len(s) - 1 : Front(s)[i] = s[i]
<1>1. Len(s) \in Nat \ {0}
  BY SMT
<1>2. Last(s) = s[Len(s)] /\ s[Len(s)] \in S
  BY <1>1, SMT DEF Last
<1>3. Front(s) = SubSeq(s, 1, Len(s) - 1)
  BY DEF Front
<1>4. /\ SubSeq(s, 1, Len(s) - 1) \in Seq(S)
      /\ Len(SubSeq(s, 1, Len(s) - 1)) = Len(s) - 1
      /\ \A i \in 1 .. Len(s) - 1 : SubSeq(s, 1, Len(s) - 1)[i] = s[i]
  <2> DEFINE m == Len(s) - 1
  <2>1. m \in Int /\ 1 \in Int /\ m \in Nat /\ \A i \in 1 .. m : s[i] \in S
    BY <1>1, SMT
  <2> HIDE DEF m
  <2>2. /\ SubSeq(s, 1, m) \in Seq(S)
        /\ Len(SubSeq(s, 1, m)) = IF 1 <= m THEN m - 1 + 1 ELSE 0
        /\ \A i \in 1 .. m - 1 + 1 : SubSeq(s, 1, m)[i] = s[1 + i - 1]
    BY <2>1, SubSeqProperties
  <2>3. /\ Len(SubSeq(s, 1, m)) = m
        /\ \A i \in 1 .. m : SubSeq(s, 1, m)[i] = s[i]
    BY <2>1, <2>2, SMT
  <2> QED
    BY <2>2, <2>3 DEF m
<1> QED
  BY <1>1, <1>2, <1>3, <1>4

LEMMA Appended ==
  ASSUME NEW S, NEW s \in Seq(S), NEW e \in S
  PROVE  /\ Append(s, e) \in Seq(S) /\ Len(Append(s, e)) = Len(s) + 1 /\ Len(s) \in Nat
         /\ Append(s, e) # <<>>
         /\ Append(s, e)[Len(s) + 1] = e
         /\ \A i \in 1 .. Len(s) : Append(s, e)[i] = s[i]
  BY SMT

(* A stack without its n oldest groups is its newest part.                 *)
LEMMA WithoutOldestIsSuffix ==
  ASSUME NEW S, NEW s \in Seq(S), NEW n \in Nat, n < Len(s)
  PROVE  /\ WithoutOldest(s, n) \in Seq(S)
         /\ Len(WithoutOldest(s, n)) = Len(s) - n
         /\ \A i \in 1 .. Len(s) - n : WithoutOldest(s, n)[i] = s[n + i]
  BY SMT DEF WithoutOldest

LEMMA NothingDropped ==
  ASSUME NEW S, NEW s \in Seq(S)
  PROVE  WithoutOldest(s, 0) = s
<1>1. Len(s) \in Nat
  BY SMT
<1>2. WithoutOldest(s, 0) = SubSeq(s, 1, Len(s))
  BY <1>1, SMT DEF WithoutOldest
<1>3. SubSeq(s, 1, Len(s)) = s
  BY <1>1, SMT
<1> QED
  BY <1>2, <1>3

(* Trimming keeps the newest group of a stack, and the order of what it    *)
(* keeps: what it drops are the n oldest groups, for some n.               *)
LEMMA TrimKeepsNewest ==
  ASSUME NEW stack \in Seq(Group), stack # <<>>
  PROVE  \E n \in 0 .. Len(stack) - 1 :
           /\ Trim(stack) \in Seq(Group)
           /\ Len(Trim(stack)) = Len(stack) - n
           /\ \A i \in 1 .. Len(stack) - n : Trim(stack)[i] = stack[n + i]
<1> DEFINE kept == TrimGroups(stack)
           m == IF Len(stack) > MaxGroups THEN Len(stack) - MaxGroups ELSE 0
           k == Cardinality(Overweight(kept))
<1>1. Len(stack) \in Nat /\ Len(stack) > 0
  BY SMT
<1>2. m \in Nat /\ m < Len(stack)
  BY <1>1, LimitsArePositive, SMT
<1>3. kept = WithoutOldest(stack, m)
  BY DEF TrimGroups
<1> HIDE DEF kept, m
<1>4. /\ kept \in Seq(Group) /\ Len(kept) = Len(stack) - m
      /\ \A i \in 1 .. Len(stack) - m : kept[i] = stack[m + i]
  BY <1>2, <1>3, WithoutOldestIsSuffix
<1>5. Len(kept) \in Nat /\ Len(kept) > 0
  BY <1>1, <1>2, <1>4, SMT
<1>6. k \in Nat /\ k < Len(kept)
  <2>1. /\ IsFiniteSet(1 .. Len(kept) - 1)
        /\ Cardinality(1 .. Len(kept) - 1) = Len(kept) - 1
    <3>1. 1 \in Int /\ Len(kept) - 1 \in Int
      BY <1>5, SMT
    <3>2. /\ IsFiniteSet(1 .. Len(kept) - 1)
          /\ Cardinality(1 .. Len(kept) - 1) =
               IF 1 > Len(kept) - 1 THEN 0 ELSE (Len(kept) - 1) - 1 + 1
      BY <3>1, FS_Interval
    <3> QED
      BY <1>5, <3>2, SMT
  <2>2. Overweight(kept) \subseteq 1 .. Len(kept) - 1
    BY DEF Overweight
  <2>3. /\ IsFiniteSet(Overweight(kept))
        /\ Cardinality(Overweight(kept)) =< Cardinality(1 .. Len(kept) - 1)
    BY <2>1, <2>2, FS_Subset
  <2>4. k \in Nat
    BY <2>3, FS_CardinalityType
  <2> QED
    BY <1>5, <2>1, <2>3, <2>4, SMT
<1>7. Trim(stack) = WithoutOldest(kept, k)
  BY DEF Trim, TrimPayload, kept
<1> HIDE DEF k
<1>8. /\ Trim(stack) \in Seq(Group) /\ Len(Trim(stack)) = Len(kept) - k
      /\ \A i \in 1 .. Len(kept) - k : Trim(stack)[i] = kept[k + i]
  BY <1>4, <1>6, <1>7, WithoutOldestIsSuffix
<1>9. m + k \in 0 .. Len(stack) - 1 /\ Len(kept) - k = Len(stack) - (m + k)
  BY <1>1, <1>2, <1>4, <1>6, SMT
<1>10. \A i \in 1 .. Len(stack) - (m + k) : Trim(stack)[i] = stack[(m + k) + i]
  <2> TAKE i \in 1 .. Len(stack) - (m + k)
  <2>1. /\ i \in 1 .. Len(kept) - k /\ k + i \in 1 .. Len(stack) - m
        /\ m + (k + i) = (m + k) + i
    BY <1>1, <1>2, <1>4, <1>6, <1>9, SMT
  <2> QED
    BY <1>4, <1>8, <2>1
<1> QED
  BY <1>8, <1>9, <1>10

-----------------------------------------------------------------------------
(* Sums of naturals.  As in AfterEachStep, that the recursive function is  *)
(* what its definition says takes a function of every length that is.      *)
LEMMA SumsStep ==
  ASSUME NEW ns, Len(ns) \in Nat
  PROVE  Sums(ns) = [k \in 0 .. Len(ns) |-> IF k = 0 THEN 0 ELSE Sums(ns)[k - 1] + ns[k]]
<1> DEFINE n == Len(ns)
           Meets(f, m) == f = [k \in 0 .. m |-> IF k = 0 THEN 0 ELSE f[k - 1] + ns[k]]
           S == {m \in Nat : \E f : Meets(f, m)}
<1>1. 0 \in S
  <2>1. Meets([k \in 0 .. 0 |-> 0], 0)
    BY SMT
  <2> QED
    BY <2>1
<1>2. ASSUME NEW m \in 0 .. n - 1, m \in S
      PROVE  m + 1 \in S
  <2>1. PICK f : Meets(f, m)
    BY <1>2
  <2> DEFINE g == [k \in 0 .. m + 1 |-> IF k =< m THEN f[k] ELSE f[m] + ns[m + 1]]
  <2>2. \A k \in 0 .. m : f[k] = IF k = 0 THEN 0 ELSE f[k - 1] + ns[k]
    BY <2>1
  <2>3. \A k \in 0 .. m + 1 : g[k] = IF k = 0 THEN 0 ELSE g[k - 1] + ns[k]
    <3> TAKE k \in 0 .. m + 1
    <3>1. CASE k = 0
      BY <1>2, <2>2, <3>1, SMT
    <3>2. CASE k \in 1 .. m
      <4>1. k - 1 \in 0 .. m /\ k \in 0 .. m /\ k # 0
        BY <1>2, <3>2, SMT
      <4>2. g[k] = f[k] /\ g[k - 1] = f[k - 1]
        BY <1>2, <4>1, SMT
      <4> QED
        BY <2>2, <4>1, <4>2
    <3>3. CASE k = m + 1
      <4>1. g[k] = f[m] + ns[m + 1] /\ g[m] = f[m]
        BY <1>2, <3>3, SMT
      <4>2. k # 0 /\ k - 1 = m
        BY <1>2, <3>3, SMT
      <4> HIDE DEF g
      <4> QED
        BY <3>3, <4>1, <4>2
    <3> QED
      BY <1>2, <3>1, <3>2, <3>3, SMT
  <2>4. Meets(g, m + 1)
    BY <2>3
  <2>5. m + 1 \in Nat
    BY <1>2, SMT
  <2> HIDE DEF Meets
  <2> QED
    BY <2>4, <2>5
<1>3. n \in S
  <2> HIDE DEF S
  <2>1. n \in Nat /\ n \in 0 .. n
    BY SMT
  <2> HIDE DEF n
  <2>2. 0 .. n \subseteq S
    BY <1>1, <1>2, <2>1, InductionUpTo
  <2> QED
    BY <2>1, <2>2
<1>4. \E f : Meets(f, n)
  BY <1>3
<1>5. Sums(ns) = CHOOSE f : Meets(f, n)
  BY DEF Sums
<1> QED
  BY <1>4, <1>5

LEMMA SumsNext ==
  ASSUME NEW ns \in Seq(Nat)
  PROVE  /\ Sums(ns)[0] = 0
         /\ \A k \in 0 .. Len(ns) - 1 : Sums(ns)[k + 1] = Sums(ns)[k] + ns[k + 1]
<1> DEFINE f == Sums(ns)
<1>1. Len(ns) \in Nat
  BY SMT
<1>2. f = [k \in 0 .. Len(ns) |-> IF k = 0 THEN 0 ELSE f[k - 1] + ns[k]]
  BY <1>1, SumsStep
<1> HIDE DEF f
<1>3. f[0] = 0
  BY <1>1, <1>2, SMT
<1>4. \A k \in 0 .. Len(ns) - 1 : f[k + 1] = f[k] + ns[k + 1]
  <2> TAKE k \in 0 .. Len(ns) - 1
  <2>1. k + 1 \in 0 .. Len(ns) /\ k + 1 # 0 /\ (k + 1) - 1 = k
    BY <1>1, SMT
  <2> QED
    BY <1>2, <2>1, SMT
<1> QED
  BY <1>3, <1>4 DEF f

LEMMA SumsType ==
  ASSUME NEW ns \in Seq(Nat)
  PROVE  /\ \A k \in 0 .. Len(ns) : Sums(ns)[k] \in Nat
         /\ Total(ns) \in Nat
<1> DEFINE S == {k \in Nat : Sums(ns)[k] \in Nat}
<1>1. Len(ns) \in Nat /\ Len(ns) \in 0 .. Len(ns)
  BY SMT
<1>2. 0 \in S
  BY SumsNext
<1>3. ASSUME NEW k \in 0 .. Len(ns) - 1, k \in S
      PROVE  k + 1 \in S
  <2>1. k + 1 \in Nat /\ ns[k + 1] \in Nat
    BY <1>1, SMT
  <2>2. Sums(ns)[k + 1] = Sums(ns)[k] + ns[k + 1]
    BY SumsNext
  <2>3. Sums(ns)[k] \in Nat
    BY <1>3
  <2> QED
    BY <2>1, <2>2, <2>3
<1> HIDE DEF S
<1>4. 0 .. Len(ns) \subseteq S
  BY <1>1, <1>2, <1>3, InductionUpTo
<1>5. \A k \in 0 .. Len(ns) : Sums(ns)[k] \in Nat
  BY <1>4 DEF S
<1> QED
  BY <1>1, <1>5 DEF Total

(* A sequence that goes on, from its n-th place on, as another one does    *)
(* from the start, adds the sums of that one to its own.                   *)
LEMMA SumsAfter ==
  ASSUME NEW ns \in Seq(Nat), NEW part \in Seq(Nat), NEW n \in Nat,
         n + Len(part) =< Len(ns), \A i \in 1 .. Len(part) : ns[n + i] = part[i]
  PROVE  \A k \in 0 .. Len(part) : Sums(ns)[n + k] = Sums(ns)[n] + Sums(part)[k]
<1> DEFINE S == {k \in Nat : Sums(ns)[n + k] = Sums(ns)[n] + Sums(part)[k]}
<1>1. Len(ns) \in Nat /\ Len(part) \in Nat
  BY SMT
<1>2. 0 \in S
  <2>1. n \in 0 .. Len(ns) /\ n + 0 = n
    BY <1>1, SMT
  <2>2. Sums(ns)[n] \in Nat /\ Sums(part)[0] = 0
    BY <2>1, SumsType, SumsNext
  <2> QED
    BY <2>1, <2>2, SMT
<1>3. ASSUME NEW k \in 0 .. Len(part) - 1, k \in S
      PROVE  k + 1 \in S
  <2>1. /\ k + 1 \in 1 .. Len(part) /\ n + k \in 0 .. Len(ns) - 1
        /\ (n + k) + 1 = n + (k + 1) /\ n \in 0 .. Len(ns) /\ k \in 0 .. Len(part)
        /\ k + 1 \in Nat
    BY <1>1, SMT
  <2>2. Sums(ns)[(n + k) + 1] = Sums(ns)[n + k] + ns[(n + k) + 1]
    BY <2>1, SumsNext
  <2>3. Sums(part)[k + 1] = Sums(part)[k] + part[k + 1]
    BY SumsNext
  <2>4. ns[n + (k + 1)] = part[k + 1]
    BY <2>1
  <2>5. Sums(ns)[n + k] = Sums(ns)[n] + Sums(part)[k]
    BY <1>3
  <2>6. Sums(ns)[n] \in Nat /\ Sums(part)[k] \in Nat /\ part[k + 1] \in Nat
    <3>1. part[k + 1] \in Nat
      <4>1. k + 1 \in 1 .. Len(part) /\ part \in Seq(Nat)
        BY <2>1
      <4> QED
        BY ONLY <4>1, ElementOfSeq
    <3> QED
      BY <2>1, <3>1, SumsType
  <2>7. Sums(ns)[n + (k + 1)] = Sums(ns)[n] + Sums(part)[k + 1]
    <3>1. ns[(n + k) + 1] = part[k + 1]
      BY <2>1, <2>4
    <3>2. Sums(ns)[(n + k) + 1] = (Sums(ns)[n] + Sums(part)[k]) + part[k + 1]
      BY <2>2, <2>5, <3>1, Zenon
    <3>3. (Sums(ns)[n] + Sums(part)[k]) + part[k + 1] = Sums(ns)[n] + (Sums(part)[k] + part[k + 1])
      <4> DEFINE p == Sums(ns)[n]
                 q == Sums(part)[k]
                 r == part[k + 1]
      <4>1. p \in Nat /\ q \in Nat /\ r \in Nat
        BY <2>6
      <4> HIDE DEF p, q, r
      <4>2. (p + q) + r = p + (q + r)
        BY <4>1, SMT
      <4> QED
        BY <4>2, Zenon DEF p, q, r
    <3> QED
      BY <2>1, <2>3, <3>2, <3>3, Zenon
  <2> QED
    BY <2>1, <2>7
<1> HIDE DEF S
<1>4. 0 .. Len(part) \subseteq S
  BY <1>1, <1>2, <1>3, InductionUpTo
<1> QED
  BY <1>4 DEF S

(* A sequence that begins as another one does has its sums so far.         *)
LEMMA SameSums ==
  ASSUME NEW ns \in Seq(Nat), NEW part \in Seq(Nat), Len(part) =< Len(ns),
         \A i \in 1 .. Len(part) : ns[i] = part[i]
  PROVE  Sums(ns)[Len(part)] = Sums(part)[Len(part)]
<1>1. /\ 0 \in Nat /\ 0 + Len(part) =< Len(ns) /\ Len(part) \in 0 .. Len(part)
      /\ 0 + Len(part) = Len(part) /\ \A i \in 1 .. Len(part) : 0 + i = i
  BY SMT
<1>2. \A i \in 1 .. Len(part) : ns[0 + i] = part[i]
  BY <1>1
<1>3. \A k \in 0 .. Len(part) : Sums(ns)[0 + k] = Sums(ns)[0] + Sums(part)[k]
  BY <1>1, <1>2, SumsAfter
<1>4. Sums(ns)[0 + Len(part)] = Sums(ns)[0] + Sums(part)[Len(part)]
  BY <1>1, <1>3, Zenon
<1>5. Sums(ns)[0] = 0 /\ Sums(part)[Len(part)] \in Nat
  BY <1>1, SumsNext, SumsType
<1>6. \A n \in Nat : 0 + n = n
  BY SMT
<1> QED
  BY <1>1, <1>4, <1>5, <1>6, Zenon

LEMMA TotalAfter ==
  ASSUME NEW ns \in Seq(Nat), NEW part \in Seq(Nat), NEW n \in Nat,
         n + Len(part) = Len(ns), \A i \in 1 .. Len(part) : ns[n + i] = part[i]
  PROVE  Total(ns) = Sums(ns)[n] + Total(part)
<1>1. Len(part) \in 0 .. Len(part) /\ n + Len(part) =< Len(ns)
  BY SMT
<1>2. Sums(ns)[n + Len(part)] = Sums(ns)[n] + Sums(part)[Len(part)]
  BY <1>1, SumsAfter
<1> QED
  BY <1>2 DEF Total

LEMMA TotalOfConcat ==
  ASSUME NEW a \in Seq(Nat), NEW b \in Seq(Nat)
  PROVE  Total(a \o b) = Total(a) + Total(b)
<1>1. /\ a \o b \in Seq(Nat) /\ Len(a) \in Nat /\ Len(b) \in Nat
      /\ Len(a \o b) = Len(a) + Len(b)
      /\ \A i \in 1 .. Len(b) : (a \o b)[Len(a) + i] = b[i]
      /\ \A i \in 1 .. Len(a) : (a \o b)[i] = a[i]
  BY SMT
<1>2. Total(a \o b) = Sums(a \o b)[Len(a)] + Total(b)
  BY <1>1, TotalAfter
<1>3. Sums(a \o b)[Len(a)] = Total(a)
  <2> DEFINE ns == a \o b
  <2>1. /\ ns \in Seq(Nat) /\ Len(a) \in Nat /\ Len(a) =< Len(ns)
        /\ \A i \in 1 .. Len(a) : ns[i] = a[i]
    BY <1>1, SMT
  <2> HIDE DEF ns
  <2>2. Sums(ns)[Len(a)] = Sums(a)[Len(a)]
    BY <2>1, SameSums
  <2> QED
    BY <2>2 DEF Total, ns
<1> QED
  BY <1>2, <1>3

LEMMA TotalOfOne ==
  ASSUME NEW n \in Nat
  PROVE  Total(<<n>>) = n /\ Total(<<>>) = 0
<1>1. <<n>> \in Seq(Nat) /\ Len(<<n>>) = 1 /\ <<n>>[1] = n /\ 0 \in 0 .. Len(<<n>>) - 1 /\ 0 + 1 = 1
  BY SMT
<1>2. <<>> \in Seq(Nat) /\ Len(<<>>) = 0
  BY SMT
<1>3. Sums(<<n>>)[0 + 1] = Sums(<<n>>)[0] + <<n>>[0 + 1] /\ Sums(<<n>>)[0] = 0
  BY <1>1, SumsNext
<1>4. Sums(<<>>)[0] = 0
  BY <1>2, SumsNext
<1> QED
  BY <1>1, <1>2, <1>3, <1>4 DEF Total

-----------------------------------------------------------------------------
(* Payloads of stacks.                                                     *)
LEMMA PayloadCharsType ==
  ASSUME NEW g \in Group
  PROVE  PayloadChars(g) \in Nat
<1>1. g.deltas \in Seq(Delta)
  BY DEF Group
<1>2. \A d \in Delta : Len(d.text) \in Nat
  BY SMT DEF Delta, Texts
<1>3. [i \in DOMAIN g.deltas |-> Len(g.deltas[i].text)] \in Seq(Nat)
  BY <1>1, <1>2, SMT
<1> QED
  BY <1>3, SumsType DEF PayloadChars

LEMMA WeightsType ==
  ASSUME NEW stack \in Seq(Group)
  PROVE  /\ Weights(stack) \in Seq(Nat) /\ Len(Weights(stack)) = Len(stack)
         /\ \A i \in 1 .. Len(stack) : Weights(stack)[i] = PayloadChars(stack[i])
         /\ Payload(stack) \in Nat
<1>1. \A i \in DOMAIN stack : PayloadChars(stack[i]) \in Nat
  <2>1. \A i \in DOMAIN stack : stack[i] \in Group
    BY SMT
  <2> QED
    BY <2>1, PayloadCharsType
<1>2. /\ Weights(stack) \in Seq(Nat) /\ Len(Weights(stack)) = Len(stack)
      /\ \A i \in 1 .. Len(stack) : Weights(stack)[i] = PayloadChars(stack[i])
  BY <1>1, SMT DEF Weights
<1> QED
  BY <1>2, SumsType DEF Payload

LEMMA WeightsOfConcat ==
  ASSUME NEW a \in Seq(Group), NEW b \in Seq(Group)
  PROVE  Payload(a \o b) = Payload(a) + Payload(b)
<1>1. /\ a \o b \in Seq(Group) /\ Len(a \o b) = Len(a) + Len(b)
      /\ Len(a) \in Nat /\ Len(b) \in Nat
      /\ \A i \in 1 .. Len(a) + Len(b) :
           (a \o b)[i] = IF i =< Len(a) THEN a[i] ELSE b[i - Len(a)]
  BY SMT
<1>2. /\ Weights(a) \in Seq(Nat) /\ Len(Weights(a)) = Len(a)
      /\ \A i \in 1 .. Len(a) : Weights(a)[i] = PayloadChars(a[i])
      /\ Weights(b) \in Seq(Nat) /\ Len(Weights(b)) = Len(b)
      /\ \A i \in 1 .. Len(b) : Weights(b)[i] = PayloadChars(b[i])
  BY WeightsType
<1>3. /\ Weights(a \o b) \in Seq(Nat) /\ Len(Weights(a \o b)) = Len(a) + Len(b)
      /\ \A i \in 1 .. Len(a) + Len(b) : Weights(a \o b)[i] = PayloadChars((a \o b)[i])
  BY <1>1, WeightsType
<1> DEFINE wa == Weights(a)
           wb == Weights(b)
           w == Weights(a \o b)
<1> HIDE DEF wa, wb, w
<1>4. \A i \in 1 .. Len(a) + Len(b) : w[i] = (wa \o wb)[i]
  <2> TAKE i \in 1 .. Len(a) + Len(b)
  <2>1. CASE i =< Len(a)
    <3>1. w[i] = wa[i]
      BY <1>1, <1>2, <1>3, <2>1, SMT DEF w, wa
    <3>2. (wa \o wb)[i] = wa[i]
      BY <1>1, <1>2, <2>1, SMT DEF wa, wb
    <3> QED
      BY <3>1, <3>2
  <2>2. CASE ~(i =< Len(a))
    <3>1. i - Len(a) \in 1 .. Len(b)
      BY <1>1, <2>2, SMT
    <3>2. w[i] = wb[i - Len(a)]
      BY <1>1, <1>2, <1>3, <2>2, <3>1 DEF w, wb
    <3>3. (wa \o wb)[i] = wb[i - Len(a)]
      BY <1>1, <1>2, <2>2, SMT DEF wa, wb
    <3> QED
      BY <3>2, <3>3
  <2> QED
    BY <2>1, <2>2
<1>5. /\ wa \in Seq(Nat) /\ wb \in Seq(Nat) /\ w \in Seq(Nat)
      /\ Len(wa) = Len(a) /\ Len(wb) = Len(b) /\ Len(w) = Len(a) + Len(b)
  BY <1>2, <1>3 DEF wa, wb, w
<1>6. wa \o wb \in Seq(Nat) /\ Len(wa \o wb) = Len(w)
  BY <1>5, SMT
<1>7. w = wa \o wb
  <2>1. \A i \in 1 .. Len(w) : w[i] = (wa \o wb)[i]
    BY <1>4, <1>5
  <2> QED
    BY <1>5, <1>6, <2>1, SeqEqual
<1> QED
  BY <1>5, <1>7, TotalOfConcat DEF Payload, wa, wb, w

-----------------------------------------------------------------------------
(* What trimming reaches.  A longer part of a stack is never lighter.      *)
LEMMA NewestPartWeighs ==
  ASSUME NEW stack \in Seq(Group), NEW n \in Nat, n < Len(stack)
  PROVE  /\ Payload(WithoutOldest(stack, n)) \in Nat /\ Payload(stack) \in Nat
         /\ Payload(WithoutOldest(stack, n)) =< Payload(stack)
<1> DEFINE kept == WithoutOldest(stack, n)
           ws == Weights(stack)
           wk == Weights(kept)
<1>1. /\ kept \in Seq(Group) /\ Len(kept) = Len(stack) - n
      /\ \A i \in 1 .. Len(stack) - n : kept[i] = stack[n + i]
  BY WithoutOldestIsSuffix
<1>2. /\ ws \in Seq(Nat) /\ Len(ws) = Len(stack)
      /\ \A i \in 1 .. Len(stack) : ws[i] = PayloadChars(stack[i])
      /\ Payload(stack) \in Nat
  BY WeightsType
<1> HIDE DEF kept
<1>3. /\ wk \in Seq(Nat) /\ Len(wk) = Len(kept)
      /\ \A i \in 1 .. Len(kept) : wk[i] = PayloadChars(kept[i])
      /\ Payload(kept) \in Nat
  BY <1>1, WeightsType
<1> HIDE DEF ws, wk
<1>4. Len(stack) \in Nat
  BY SMT
<1>5. n + Len(wk) = Len(ws) /\ n \in 0 .. Len(ws)
  BY <1>1, <1>2, <1>3, <1>4, SMT
<1>6. \A i \in 1 .. Len(wk) : ws[n + i] = wk[i]
  <2> TAKE i \in 1 .. Len(wk)
  <2>1. i \in 1 .. Len(kept) /\ i \in 1 .. Len(stack) - n /\ n + i \in 1 .. Len(stack)
    BY <1>1, <1>3, <1>4, SMT
  <2> QED
    BY <1>1, <1>2, <1>3, <2>1
<1>7. Total(ws) = Sums(ws)[n] + Total(wk)
  BY <1>2, <1>3, <1>5, <1>6, TotalAfter
<1>8. Sums(ws)[n] \in Nat /\ Payload(stack) = Total(ws) /\ Payload(kept) = Total(wk)
  BY <1>2, <1>5, SumsType DEF Payload, ws, wk
<1> HIDE DEF kept
<1>9. Payload(kept) =< Payload(stack)
  BY <1>2, <1>3, <1>7, <1>8, SMT
<1> QED
  BY <1>2, <1>3, <1>9 DEF kept

LEMMA DroppedTwice ==
  ASSUME NEW stack \in Seq(Group), NEW k \in Nat, NEW m \in Nat, k =< m, m < Len(stack)
  PROVE  Payload(WithoutOldest(stack, m)) =< Payload(WithoutOldest(stack, k))
<1> DEFINE a == WithoutOldest(stack, k)
           b == WithoutOldest(stack, m)
           d == m - k
           c == WithoutOldest(a, d)
<1>1. Len(stack) \in Nat /\ k < Len(stack) /\ d \in Nat
  BY SMT
<1>2. /\ a \in Seq(Group) /\ Len(a) = Len(stack) - k
      /\ \A i \in 1 .. Len(stack) - k : a[i] = stack[k + i]
  BY <1>1, WithoutOldestIsSuffix
<1>3. /\ b \in Seq(Group) /\ Len(b) = Len(stack) - m
      /\ \A i \in 1 .. Len(stack) - m : b[i] = stack[m + i]
  BY <1>1, WithoutOldestIsSuffix
<1> HIDE DEF a, b
<1>4. d < Len(a)
  BY <1>1, <1>2, SMT
<1> HIDE DEF d
<1>5. /\ c \in Seq(Group) /\ Len(c) = Len(a) - d
      /\ \A i \in 1 .. Len(a) - d : c[i] = a[d + i]
  <2>1. a \in Seq(Group) /\ d \in Nat /\ d < Len(a)
    BY <1>1, <1>2, <1>4 DEF d
  <2> QED
    BY <2>1, WithoutOldestIsSuffix
<1>6. Payload(c) =< Payload(a)
  BY <1>1, <1>2, <1>4, NewestPartWeighs
<1> HIDE DEF c
<1>7. Len(c) = Len(b)
  BY <1>1, <1>2, <1>3, <1>5, SMT DEF d
<1>8. \A i \in 1 .. Len(b) : b[i] = c[i]
  <2> TAKE i \in 1 .. Len(b)
  <2>1. /\ i \in 1 .. Len(stack) - m /\ i \in 1 .. Len(a) - d
        /\ d + i \in 1 .. Len(stack) - k /\ k + (d + i) = m + i
    BY <1>1, <1>2, <1>3, SMT DEF d
  <2>2. b[i] = stack[m + i] /\ c[i] = a[d + i]
    BY <1>3, <1>5, <2>1
  <2>3. a[d + i] = stack[k + (d + i)]
    BY <1>2, <2>1
  <2> QED
    BY <2>1, <2>2, <2>3
<1>9. b = c
  BY <1>3, <1>5, <1>7, <1>8, SeqEqual
<1> QED
  BY <1>6, <1>9 DEF a, b

(* The payload limit is met, or a single group is left; and a stack within *)
(* the limit is left alone.                                                *)
LEMMA TrimPayloadReaches ==
  ASSUME NEW stack \in Seq(Group), stack # <<>>
  PROVE  /\ TrimPayload(stack) \in Seq(Group) /\ Len(TrimPayload(stack)) =< Len(stack)
         /\ Payload(TrimPayload(stack)) > MaxPayload => Len(TrimPayload(stack)) = 1
         /\ (Payload(stack) > MaxPayload => Len(stack) = 1) => TrimPayload(stack) = stack
<1> DEFINE over == Overweight(stack)
           c == Cardinality(over)
<1>1. Len(stack) \in Nat /\ Len(stack) > 0 /\ MaxPayload \in Nat
  BY LimitsArePositive, SMT
<1>2. over = {k \in 1 .. Len(stack) - 1 : Payload(WithoutOldest(stack, k - 1)) > MaxPayload}
  BY DEF Overweight
<1> HIDE DEF over
<1>3. /\ IsFiniteSet(over) /\ c \in Nat /\ c =< Len(stack) - 1
  <2>1. 1 \in Int /\ Len(stack) - 1 \in Int
    BY <1>1, SMT
  <2>2. /\ IsFiniteSet(1 .. Len(stack) - 1)
        /\ Cardinality(1 .. Len(stack) - 1) =
             IF 1 > Len(stack) - 1 THEN 0 ELSE (Len(stack) - 1) - 1 + 1
    BY <2>1, FS_Interval
  <2>3. over \subseteq 1 .. Len(stack) - 1
    BY <1>2
  <2>4. /\ IsFiniteSet(over) /\ c =< Cardinality(1 .. Len(stack) - 1)
    BY <2>2, <2>3, FS_Subset
  <2>5. c \in Nat
    BY <2>4, FS_CardinalityType
  <2> HIDE DEF c
  <2> QED
    BY <1>1, <2>2, <2>4, <2>5, SMT
<1>4. TrimPayload(stack) = WithoutOldest(stack, c)
  BY DEF TrimPayload, over
<1>5. c + 1 \in 1 .. Len(stack) - 1 /\ Payload(WithoutOldest(stack, c)) > MaxPayload => FALSE
  <2> SUFFICES ASSUME c + 1 \in 1 .. Len(stack) - 1, Payload(WithoutOldest(stack, c)) > MaxPayload
               PROVE  FALSE
    OBVIOUS
  <2>1. 1 .. c + 1 \subseteq over
    <3> SUFFICES ASSUME NEW k \in 1 .. c + 1
                 PROVE  k \in over
      OBVIOUS
    <3>1. k \in 1 .. Len(stack) - 1 /\ k - 1 \in Nat /\ k - 1 =< c /\ c < Len(stack)
      BY <1>1, <1>3, SMT
    <3>2. Payload(WithoutOldest(stack, c)) =< Payload(WithoutOldest(stack, k - 1))
      BY <1>3, <3>1, DroppedTwice
    <3>3. Payload(WithoutOldest(stack, c)) \in Nat /\ Payload(WithoutOldest(stack, k - 1)) \in Nat
      <4>1. k - 1 < Len(stack)
        BY <1>1, <1>3, <3>1, SMT
      <4> QED
        BY <1>3, <3>1, <4>1, NewestPartWeighs
    <3>4. Payload(WithoutOldest(stack, k - 1)) > MaxPayload
      BY <1>1, <3>2, <3>3, SMT
    <3> QED
      BY <1>2, <3>1, <3>4
  <2>2. 1 \in Int /\ c + 1 \in Int
    BY <1>3, SMT
  <2>3. Cardinality(1 .. c + 1) = IF 1 > c + 1 THEN 0 ELSE (c + 1) - 1 + 1
    BY <2>2, FS_Interval
  <2>4. Cardinality(1 .. c + 1) =< c
    BY <1>3, <2>1, FS_Subset
  <2> HIDE DEF c
  <2> QED
    BY <1>3, <2>3, <2>4, SMT
<1>6. (Payload(stack) > MaxPayload => Len(stack) = 1) => c = 0
  <2> SUFFICES ASSUME Payload(stack) > MaxPayload => Len(stack) = 1, NEW k \in over
               PROVE  FALSE
    BY FS_EmptySet
  <2>1. /\ k \in 1 .. Len(stack) - 1 /\ k - 1 \in Nat /\ k - 1 < Len(stack)
        /\ Len(stack) # 1
    BY <1>1, <1>2, SMT
  <2>2. Payload(WithoutOldest(stack, k - 1)) > MaxPayload
    BY <1>2
  <2>3. /\ Payload(WithoutOldest(stack, k - 1)) \in Nat /\ Payload(stack) \in Nat
        /\ Payload(WithoutOldest(stack, k - 1)) =< Payload(stack)
    BY <2>1, NewestPartWeighs
  <2> QED
    BY <1>1, <2>1, <2>2, <2>3, SMT
<1> HIDE DEF c
<1>7. /\ WithoutOldest(stack, c) \in Seq(Group)
      /\ Len(WithoutOldest(stack, c)) = Len(stack) - c
  <2>1. c < Len(stack)
    BY <1>1, <1>3, SMT
  <2> QED
    BY <1>3, <2>1, WithoutOldestIsSuffix
<1>8. Len(stack) - c =< Len(stack)
  BY <1>1, <1>3, SMT
<1>9. Payload(WithoutOldest(stack, c)) > MaxPayload => Len(stack) - c = 1
  BY <1>1, <1>3, <1>5, SMT
<1>10. WithoutOldest(stack, 0) = stack
  BY NothingDropped
<1> QED
  BY <1>4, <1>6, <1>7, <1>8, <1>9, <1>10

LEMMA TrimReaches ==
  ASSUME NEW stack \in Seq(Group), stack # <<>>
  PROVE  /\ Len(Trim(stack)) =< MaxGroups
         /\ Payload(Trim(stack)) > MaxPayload => Len(Trim(stack)) = 1
         /\ Len(stack) =< MaxGroups /\ (Payload(stack) > MaxPayload => Len(stack) = 1)
              => Trim(stack) = stack
<1> DEFINE kept == TrimGroups(stack)
           m == IF Len(stack) > MaxGroups THEN Len(stack) - MaxGroups ELSE 0
<1>1. Len(stack) \in Nat /\ Len(stack) > 0 /\ MaxGroups \in Nat
  BY LimitsArePositive, SMT
<1>2. m \in Nat /\ m < Len(stack)
  BY <1>1, LimitsArePositive, SMT
<1>3. Len(stack) - m =< MaxGroups /\ (Len(stack) =< MaxGroups => m = 0)
  BY <1>1, SMT
<1>4. kept = WithoutOldest(stack, m)
  BY DEF TrimGroups
<1> HIDE DEF kept, m
<1>5. kept \in Seq(Group) /\ Len(kept) = Len(stack) - m
  BY <1>2, <1>4, WithoutOldestIsSuffix
<1>6. kept # <<>>
  BY <1>1, <1>2, <1>5, SMT
<1>7. Trim(stack) = TrimPayload(kept)
  BY DEF Trim, kept
<1>8. /\ TrimPayload(kept) \in Seq(Group) /\ Len(TrimPayload(kept)) =< Len(kept)
      /\ Payload(TrimPayload(kept)) > MaxPayload => Len(TrimPayload(kept)) = 1
      /\ (Payload(kept) > MaxPayload => Len(kept) = 1) => TrimPayload(kept) = kept
  BY <1>5, <1>6, TrimPayloadReaches
<1>9. Len(TrimPayload(kept)) =< MaxGroups
  <2>1. Len(TrimPayload(kept)) \in Nat /\ Len(kept) \in Nat
    BY <1>5, <1>8, SMT
  <2> QED
    BY <1>1, <1>3, <1>5, <1>8, <2>1, SMT
<1>10. Len(stack) =< MaxGroups => kept = stack
  BY <1>3, <1>4, NothingDropped
<1> QED
  BY <1>7, <1>8, <1>9, <1>10

-----------------------------------------------------------------------------
(* Paths of identities: an undo stack is a path that ends at cur, with     *)
(* every state it can return to below bound.                               *)
UndoPath(stack, cur, bound) ==
  /\ stack \in Seq(Group)
  /\ \A i \in 1 .. Len(stack) - 1 : stack[i].after = stack[i + 1].before
  /\ stack # <<>> => stack[Len(stack)].after = cur
  /\ \A i \in 1 .. Len(stack) : stack[i].before < bound

RedoPath(stack, cur, bound) ==
  /\ stack \in Seq(Group)
  /\ \A i \in 1 .. Len(stack) - 1 : stack[i].before = stack[i + 1].after
  /\ stack # <<>> => stack[Len(stack)].before = cur
  /\ \A i \in 1 .. Len(stack) : stack[i].after < bound

(* Trimming a path leaves a path to the same end.                          *)
LEMMA TrimmedPath ==
  ASSUME NEW stack, NEW cur, NEW bound, UndoPath(stack, cur, bound), stack # <<>>
  PROVE  UndoPath(Trim(stack), cur, bound)
<1>1. stack \in Seq(Group) /\ Len(stack) \in Nat /\ Len(stack) > 0
  BY SMT DEF UndoPath
<1>2. PICK n \in 0 .. Len(stack) - 1 :
        /\ Trim(stack) \in Seq(Group)
        /\ Len(Trim(stack)) = Len(stack) - n
        /\ \A i \in 1 .. Len(stack) - n : Trim(stack)[i] = stack[n + i]
  BY <1>1, TrimKeepsNewest
<1> DEFINE kept == Trim(stack)
<1> HIDE DEF kept
<1>3. \A i \in 1 .. Len(kept) - 1 : kept[i].after = kept[i + 1].before
  <2> TAKE i \in 1 .. Len(kept) - 1
  <2>1. /\ i \in 1 .. Len(stack) - n /\ i + 1 \in 1 .. Len(stack) - n
        /\ n + i \in 1 .. Len(stack) - 1 /\ n + (i + 1) = (n + i) + 1
    BY <1>1, <1>2, SMT DEF kept
  <2>2. kept[i] = stack[n + i] /\ kept[i + 1] = stack[(n + i) + 1]
    BY <1>2, <2>1 DEF kept
  <2> QED
    BY <2>1, <2>2 DEF UndoPath
<1>4. kept[Len(kept)].after = cur
  <2>1. Len(kept) \in 1 .. Len(stack) - n /\ n + Len(kept) = Len(stack)
    BY <1>1, <1>2, SMT DEF kept
  <2>2. kept[Len(kept)] = stack[Len(stack)]
    BY <1>2, <2>1 DEF kept
  <2> QED
    BY <2>2 DEF UndoPath
<1>5. \A i \in 1 .. Len(kept) : kept[i].before < bound
  <2> TAKE i \in 1 .. Len(kept)
  <2>1. i \in 1 .. Len(stack) - n /\ n + i \in 1 .. Len(stack)
    BY <1>1, <1>2, SMT DEF kept
  <2>2. kept[i] = stack[n + i]
    BY <1>2, <2>1 DEF kept
  <2> QED
    BY <2>1, <2>2 DEF UndoPath
<1> QED
  BY <1>2, <1>3, <1>4, <1>5 DEF UndoPath, kept

(* A group that starts where the path ends prolongs it.                    *)
LEMMA ProlongedPath ==
  ASSUME NEW stack, NEW cur, NEW bound, UndoPath(stack, cur, bound),
         NEW g \in Group, g.before = cur, cur < bound
  PROVE  UndoPath(Append(stack, g), g.after, bound) /\ Append(stack, g) # <<>>
<1>1. /\ Append(stack, g) \in Seq(Group) /\ Len(Append(stack, g)) = Len(stack) + 1
      /\ Len(stack) \in Nat /\ Append(stack, g) # <<>>
      /\ Append(stack, g)[Len(stack) + 1] = g
      /\ \A i \in 1 .. Len(stack) : Append(stack, g)[i] = stack[i]
  BY Appended DEF UndoPath
<1> DEFINE longer == Append(stack, g)
<1>2. stack # <<>> <=> Len(stack) > 0
  BY SMT DEF UndoPath
<1>3. \A i \in 1 .. Len(longer) - 1 : longer[i].after = longer[i + 1].before
  <2> TAKE i \in 1 .. Len(longer) - 1
  <2>1. CASE i = Len(stack)
    BY <1>1, <1>2, <2>1, SMT DEF UndoPath
  <2>2. CASE i \in 1 .. Len(stack) - 1
    <3>1. i \in 1 .. Len(stack) /\ i + 1 \in 1 .. Len(stack)
      BY <1>1, <2>2, SMT
    <3> QED
      BY <1>1, <2>2, <3>1 DEF UndoPath
  <2> QED
    BY <1>1, <2>1, <2>2, SMT
<1>4. \A i \in 1 .. Len(longer) : longer[i].before < bound
  <2> TAKE i \in 1 .. Len(longer)
  <2>1. CASE i = Len(stack) + 1
    BY <1>1, <2>1
  <2>2. CASE i \in 1 .. Len(stack)
    BY <1>1, <2>2 DEF UndoPath
  <2> QED
    BY <1>1, <2>1, <2>2, SMT
<1> QED
  BY <1>1, <1>3, <1>4 DEF UndoPath

(* Without its newest group the path ends where that group started.        *)
LEMMA ShortenedPath ==
  ASSUME NEW stack, NEW cur, NEW bound, UndoPath(stack, cur, bound), stack # <<>>
  PROVE  UndoPath(Front(stack), Last(stack).before, bound)
<1>1. /\ stack \in Seq(Group)
      /\ Len(stack) \in Nat \ {0} /\ Last(stack) = stack[Len(stack)] /\ Last(stack) \in Group
      /\ Front(stack) \in Seq(Group) /\ Len(Front(stack)) = Len(stack) - 1
      /\ \A i \in 1 .. Len(stack) - 1 : Front(stack)[i] = stack[i]
  BY FrontAndLast DEF UndoPath
<1> DEFINE shorter == Front(stack)
<1> HIDE DEF shorter
<1>2. \A i \in 1 .. Len(shorter) - 1 : shorter[i].after = shorter[i + 1].before
  <2> TAKE i \in 1 .. Len(shorter) - 1
  <2>1. i \in 1 .. Len(stack) - 1 /\ i + 1 \in 1 .. Len(stack) - 1
    BY <1>1, SMT DEF shorter
  <2> QED
    BY <1>1, <2>1 DEF UndoPath, shorter
<1>3. shorter # <<>> => shorter[Len(shorter)].after = Last(stack).before
  <2> HAVE shorter # <<>>
  <2>1. Len(stack) - 1 \in 1 .. Len(stack) - 1 /\ (Len(stack) - 1) + 1 = Len(stack)
    BY <1>1, SMT DEF shorter
  <2>2. shorter[Len(shorter)] = stack[Len(stack) - 1]
    BY <1>1, <2>1 DEF shorter
  <2>3. stack[Len(stack) - 1].after = stack[(Len(stack) - 1) + 1].before
    BY <2>1 DEF UndoPath
  <2> QED
    BY <1>1, <2>1, <2>2, <2>3
<1>4. \A i \in 1 .. Len(shorter) : shorter[i].before < bound
  <2> TAKE i \in 1 .. Len(shorter)
  <2>1. i \in 1 .. Len(stack) - 1 /\ i \in 1 .. Len(stack)
    BY <1>1, SMT DEF shorter
  <2> QED
    BY <1>1, <2>1 DEF UndoPath, shorter
<1> QED
  BY <1>1, <1>2, <1>3, <1>4 DEF UndoPath, shorter

(* The same two facts for a redo stack.                                    *)
LEMMA ProlongedRedoPath ==
  ASSUME NEW stack, NEW cur, NEW bound, RedoPath(stack, cur, bound),
         NEW g \in Group, g.after = cur, cur < bound
  PROVE  RedoPath(Append(stack, g), g.before, bound) /\ Append(stack, g) # <<>>
<1>1. /\ Append(stack, g) \in Seq(Group) /\ Len(Append(stack, g)) = Len(stack) + 1
      /\ Len(stack) \in Nat /\ Append(stack, g) # <<>>
      /\ Append(stack, g)[Len(stack) + 1] = g
      /\ \A i \in 1 .. Len(stack) : Append(stack, g)[i] = stack[i]
  BY Appended DEF RedoPath
<1> DEFINE longer == Append(stack, g)
<1>2. stack # <<>> <=> Len(stack) > 0
  BY SMT DEF RedoPath
<1>3. \A i \in 1 .. Len(longer) - 1 : longer[i].before = longer[i + 1].after
  <2> TAKE i \in 1 .. Len(longer) - 1
  <2>1. CASE i = Len(stack)
    BY <1>1, <1>2, <2>1, SMT DEF RedoPath
  <2>2. CASE i \in 1 .. Len(stack) - 1
    <3>1. i \in 1 .. Len(stack) /\ i + 1 \in 1 .. Len(stack)
      BY <1>1, <2>2, SMT
    <3> QED
      BY <1>1, <2>2, <3>1 DEF RedoPath
  <2> QED
    BY <1>1, <2>1, <2>2, SMT
<1>4. \A i \in 1 .. Len(longer) : longer[i].after < bound
  <2> TAKE i \in 1 .. Len(longer)
  <2>1. CASE i = Len(stack) + 1
    BY <1>1, <2>1
  <2>2. CASE i \in 1 .. Len(stack)
    BY <1>1, <2>2 DEF RedoPath
  <2> QED
    BY <1>1, <2>1, <2>2, SMT
<1> QED
  BY <1>1, <1>3, <1>4 DEF RedoPath

LEMMA ShortenedRedoPath ==
  ASSUME NEW stack, NEW cur, NEW bound, RedoPath(stack, cur, bound), stack # <<>>
  PROVE  RedoPath(Front(stack), Last(stack).after, bound)
<1>1. /\ stack \in Seq(Group)
      /\ Len(stack) \in Nat \ {0} /\ Last(stack) = stack[Len(stack)] /\ Last(stack) \in Group
      /\ Front(stack) \in Seq(Group) /\ Len(Front(stack)) = Len(stack) - 1
      /\ \A i \in 1 .. Len(stack) - 1 : Front(stack)[i] = stack[i]
  BY FrontAndLast DEF RedoPath
<1> DEFINE shorter == Front(stack)
<1> HIDE DEF shorter
<1>2. \A i \in 1 .. Len(shorter) - 1 : shorter[i].before = shorter[i + 1].after
  <2> TAKE i \in 1 .. Len(shorter) - 1
  <2>1. i \in 1 .. Len(stack) - 1 /\ i + 1 \in 1 .. Len(stack) - 1
    BY <1>1, SMT DEF shorter
  <2> QED
    BY <1>1, <2>1 DEF RedoPath, shorter
<1>3. shorter # <<>> => shorter[Len(shorter)].before = Last(stack).after
  <2> HAVE shorter # <<>>
  <2>1. Len(stack) - 1 \in 1 .. Len(stack) - 1 /\ (Len(stack) - 1) + 1 = Len(stack)
    BY <1>1, SMT DEF shorter
  <2>2. shorter[Len(shorter)] = stack[Len(stack) - 1]
    BY <1>1, <2>1 DEF shorter
  <2>3. stack[Len(stack) - 1].before = stack[(Len(stack) - 1) + 1].after
    BY <2>1 DEF RedoPath
  <2> QED
    BY <1>1, <2>1, <2>2, <2>3
<1>4. \A i \in 1 .. Len(shorter) : shorter[i].after < bound
  <2> TAKE i \in 1 .. Len(shorter)
  <2>1. i \in 1 .. Len(stack) - 1 /\ i \in 1 .. Len(stack)
    BY <1>1, SMT DEF shorter
  <2> QED
    BY <1>1, <2>1 DEF RedoPath, shorter
<1> QED
  BY <1>1, <1>2, <1>3, <1>4 DEF RedoPath, shorter

(* A path below a bound is below every later one.                          *)
LEMMA PathsStayBelow ==
  ASSUME NEW cur, NEW bound \in Nat, NEW later \in Nat, bound =< later
  PROVE  /\ \A stack : UndoPath(stack, cur, bound) => UndoPath(stack, cur, later)
         /\ \A stack : RedoPath(stack, cur, bound) => RedoPath(stack, cur, later)
<1>1. \A stack \in Seq(Group) : \A i \in 1 .. Len(stack) :
        stack[i].before \in Nat /\ stack[i].after \in Nat
  <2> TAKE stack \in Seq(Group)
  <2> TAKE i \in 1 .. Len(stack)
  <2>1. stack[i] \in Group
    BY ElementOfSeq
  <2> QED
    BY <2>1 DEF Group
<1>2. \A n \in Nat : n < bound => n < later
  BY SMT
<1> QED
  BY <1>1, <1>2 DEF UndoPath, RedoPath

-----------------------------------------------------------------------------
(* Coalescing.                                                             *)

LEMMA JoinedDeltaType ==
  ASSUME NEW a \in Delta, NEW b \in Delta
  PROVE  JoinedDelta(a, b) \in Delta
<1>1. b.text \o a.text \in Texts /\ a.text \o b.text \in Texts
  BY SMT DEF Delta, Texts
<1>2. /\ a.kind \in {"insert", "delete"} /\ a.at \in Nat /\ a.dir \in Directions
      /\ b.kind \in {"insert", "delete"} /\ b.at \in Nat /\ b.dir \in Directions
  BY DEF Delta
<1> QED
  BY <1>1, <1>2 DEF Delta, JoinedDelta

(* A coalesced group is a group, with the ends of the two it is made of.   *)
LEMMA MergedGroupType ==
  ASSUME NEW prev \in Group, NEW new \in Group, SameRun(prev, new)
  PROVE  /\ MergedGroup(prev, new) \in Group
         /\ MergedGroup(prev, new).before = prev.before
         /\ MergedGroup(prev, new).after = new.after
<1>1. /\ prev.deltas \in Seq(Delta) /\ new.deltas \in Seq(Delta)
      /\ Len(prev.deltas) = 1 /\ Len(new.deltas) = 1
      /\ prev.before \in Nat /\ new.after \in Nat
  BY DEF Group, SameRun
<1>2. prev.deltas[1] \in Delta /\ new.deltas[1] \in Delta
  BY <1>1, SMT
<1>3. JoinedDelta(prev.deltas[1], new.deltas[1]) \in Delta
  BY <1>2, JoinedDeltaType
<1>4. <<JoinedDelta(prev.deltas[1], new.deltas[1])>> \in Seq(Delta)
  BY <1>3, SMT
<1> QED
  BY <1>1, <1>4 DEF MergedGroup, Group

(* Whether or not an edit coalesces, the stack stays one path, now to the  *)
(* identity of the edit.                                                   *)
LEMMA PushedPath ==
  ASSUME NEW stack, NEW cur, NEW bound, UndoPath(stack, cur, bound), NEW saved,
         NEW g \in Group, g.before = cur, cur < bound
  PROVE  /\ UndoPath(Pushed(stack, g, saved), g.after, bound)
         /\ Pushed(stack, g, saved) # <<>>
<1>1. CASE stack # <<>> /\ Mergeable(Last(stack), g, saved)
  <2> DEFINE m == MergedGroup(Last(stack), g)
  <2>1. UndoPath(Front(stack), Last(stack).before, bound)
    BY <1>1, ShortenedPath
  <2>2. Last(stack) \in Group /\ Last(stack).before < bound
    <3>1. stack \in Seq(Group)
      BY DEF UndoPath
    <3>2. Len(stack) \in Nat \ {0} /\ Last(stack) = stack[Len(stack)] /\ Last(stack) \in Group
      BY <1>1, <3>1, FrontAndLast
    <3>3. Len(stack) \in 1 .. Len(stack)
      BY <3>2, SMT
    <3> QED
      BY <3>2, <3>3 DEF UndoPath
  <2>3. m \in Group /\ m.before = Last(stack).before /\ m.after = g.after
    BY <1>1, <2>2, MergedGroupType DEF Mergeable
  <2> HIDE DEF m
  <2>4. UndoPath(Append(Front(stack), m), m.after, bound) /\ Append(Front(stack), m) # <<>>
    BY <2>1, <2>2, <2>3, ProlongedPath
  <2> QED
    BY <1>1, <2>3, <2>4 DEF Pushed, m
<1>2. CASE ~(stack # <<>> /\ Mergeable(Last(stack), g, saved))
  <2>1. UndoPath(Append(stack, g), g.after, bound) /\ Append(stack, g) # <<>>
    BY ProlongedPath
  <2> QED
    BY <1>2, <2>1 DEF Pushed
<1> QED
  BY <1>1, <1>2

-----------------------------------------------------------------------------
(* The methods: each takes a well-formed history to a well-formed history. *)
GoodHistory(h) == h \in History /\ OnePath(h) /\ IdsHandedOut(h)

LEMMA HistoryFields ==
  ASSUME NEW h \in History
  PROVE  /\ h.undo \in Seq(Group) /\ h.redo \in Seq(Group)
         /\ h.cur \in Nat /\ h.next \in Nat
         /\ h.pend \in Seq(Delta) /\ h.pendBefore \in Nat
  BY DEF History

LEMMA GoodHistoryIsPaths ==
  ASSUME NEW h \in History
  PROVE  GoodHistory(h) <=>
           /\ UndoPath(h.undo, h.cur, h.next)
           /\ RedoPath(h.redo, h.cur, h.next)
           /\ h.cur < h.next
           /\ GroupActive(h) => h.pendBefore = h.cur
  BY HistoryFields DEF GoodHistory, OnePath, IdsHandedOut, UndoPath, RedoPath

(* reset: a new identity, and nothing to undo or redo.                     *)
LEMMA ResetGood ==
  ASSUME NEW h, GoodHistory(h), ~GroupActive(h)
  PROVE  /\ GoodHistory(Reset(h)) /\ ~GroupActive(Reset(h))
         /\ Reset(h).cur = h.next /\ Reset(h).next = h.next + 1
<1> DEFINE r == Reset(h)
<1>1. h \in History
  BY DEF GoodHistory
<1>2. h.next \in Nat /\ h.next + 1 \in Nat /\ h.next < h.next + 1
  BY <1>1, HistoryFields, SMT
<1>3. <<>> \in Seq(Group) /\ Len(<<>>) = 0
  BY SMT
<1>4. r \in History
  BY <1>1, <1>2, <1>3, Zenon DEF Reset, History
<1>5. /\ r.undo = <<>> /\ r.redo = <<>> /\ r.cur = h.next /\ r.next = h.next + 1
      /\ r.pendBefore = h.pendBefore
  BY <1>1, Zenon DEF Reset, History
<1> HIDE DEF r
<1>6. UndoPath(r.undo, r.cur, r.next) /\ RedoPath(r.redo, r.cur, r.next)
  BY <1>3, <1>5, SMT DEF UndoPath, RedoPath
<1>7. ~GroupActive(r)
  BY <1>5 DEF GroupActive
<1> QED
  BY <1>2, <1>4, <1>5, <1>6, <1>7, GoodHistoryIsPaths DEF r

(* begin_group and record: the path is not touched.                        *)
LEMMA BeginGroupGood ==
  ASSUME NEW h, GoodHistory(h)
  PROVE  /\ GoodHistory(BeginGroup(h))
         /\ BeginGroup(h).cur = h.cur /\ BeginGroup(h).next = h.next
         /\ BeginGroup(h).pendBefore = h.cur
<1> DEFINE r == BeginGroup(h)
<1>1. h \in History
  BY DEF GoodHistory
<1>2. h.cur \in Nat /\ <<>> \in Seq(Delta)
  BY <1>1, HistoryFields, SMT
<1>3. r \in History
  BY <1>1, <1>2, Zenon DEF BeginGroup, History
<1>4. /\ r.undo = h.undo /\ r.redo = h.redo /\ r.cur = h.cur /\ r.next = h.next
      /\ r.pendBefore = h.cur
  BY <1>1, Zenon DEF BeginGroup, History
<1> HIDE DEF r
<1> QED
  BY <1>1, <1>3, <1>4, GoodHistoryIsPaths DEF r

LEMMA PendingDeltasGood ==
  ASSUME NEW h, GoodHistory(h), NEW deltas \in Seq(Delta)
  PROVE  /\ GoodHistory([h EXCEPT !.pend = deltas])
         /\ [h EXCEPT !.pend = deltas].cur = h.cur
         /\ [h EXCEPT !.pend = deltas].next = h.next
         /\ [h EXCEPT !.pend = deltas].pendBefore = h.pendBefore
<1> DEFINE r == [h EXCEPT !.pend = deltas]
<1>1. h \in History
  BY DEF GoodHistory
<1>2. r \in History
  BY <1>1, Zenon DEF History
<1>3. /\ r.undo = h.undo /\ r.redo = h.redo /\ r.cur = h.cur /\ r.next = h.next
      /\ r.pendBefore = h.pendBefore
  BY <1>1, Zenon DEF History
<1> HIDE DEF r
<1> QED
  BY <1>1, <1>2, <1>3, GoodHistoryIsPaths DEF r, GroupActive

LEMMA RecordGood ==
  ASSUME NEW h, GoodHistory(h), NEW delta \in Delta
  PROVE  /\ GoodHistory(Record(h, delta))
         /\ Record(h, delta).cur = h.cur /\ Record(h, delta).next = h.next
         /\ Record(h, delta).pendBefore = h.pendBefore
<1>1. Record(h, delta) = [h EXCEPT !.pend = Append(h.pend, delta)]
  BY DEF Record
<1>2. Append(h.pend, delta) \in Seq(Delta)
  BY HistoryFields, Appended DEF GoodHistory
<1> QED
  BY <1>1, <1>2, PendingDeltasGood

LEMMA AbortGroupGood ==
  ASSUME NEW h, GoodHistory(h)
  PROVE  /\ GoodHistory(AbortGroup(h)) /\ ~GroupActive(AbortGroup(h))
         /\ AbortGroup(h).cur = h.cur /\ AbortGroup(h).next = h.next
<1> DEFINE r == AbortGroup(h)
<1>1. h \in History
  BY DEF GoodHistory
<1>2. NoId \in Nat /\ <<>> \in Seq(Delta)
  BY SMT DEF NoId
<1>3. r \in History
  BY <1>1, <1>2, Zenon DEF AbortGroup, History
<1>4. /\ r.undo = h.undo /\ r.redo = h.redo /\ r.cur = h.cur /\ r.next = h.next
      /\ r.pendBefore = NoId
  BY <1>1, Zenon DEF AbortGroup, History
<1> HIDE DEF r
<1> QED
  BY <1>1, <1>3, <1>4, GoodHistoryIsPaths DEF r, GroupActive

(* end_group: the path ends at a new identity, or is not touched when the  *)
(* group is empty.                                                         *)
LEMMA EndGroupGood ==
  ASSUME NEW h, GoodHistory(h), GroupActive(h), NEW saved
  PROVE  /\ GoodHistory(EndGroup(h, saved)) /\ ~GroupActive(EndGroup(h, saved))
         /\ EndGroup(h, saved).next \in {h.next, h.next + 1}
         /\ h.pend # <<>> => EndGroup(h, saved).cur = h.next
<1>1. CASE h.pend = <<>>
  BY <1>1, AbortGroupGood DEF EndGroup
<1>2. CASE h.pend # <<>>
  <2> DEFINE g == [deltas |-> h.pend, before |-> h.pendBefore, after |-> h.next]
             pushed == Pushed(h.undo, g, saved)
             r == EndGroup(h, saved)
  <2>1. /\ h \in History /\ h.pendBefore = h.cur /\ h.cur < h.next
        /\ UndoPath(h.undo, h.cur, h.next)
    BY GoodHistoryIsPaths DEF GoodHistory
  <2>2. /\ h.pend \in Seq(Delta) /\ h.cur \in Nat /\ h.pendBefore \in Nat
        /\ h.next \in Nat /\ h.next + 1 \in Nat /\ h.next < h.next + 1 /\ h.next =< h.next + 1
    BY <2>1, HistoryFields, SMT
  <2>3. g \in Group /\ g.before = h.cur /\ g.after = h.next
    BY <2>1, <2>2 DEF Group
  <2> HIDE DEF g
  <2>4. UndoPath(pushed, h.next, h.next) /\ pushed # <<>>
    BY <2>1, <2>3, PushedPath
  <2> HIDE DEF pushed
  <2>5. UndoPath(Trim(pushed), h.next, h.next)
    BY <2>4, TrimmedPath
  <2>6. UndoPath(Trim(pushed), h.next, h.next + 1)
    BY <2>2, <2>5, PathsStayBelow
  <2>7. r = [undo |-> Trim(pushed), redo |-> <<>>, cur |-> h.next, next |-> h.next + 1,
             pend |-> <<>>, pendBefore |-> NoId]
    BY <1>2 DEF EndGroup, RedoAfterEdit, pushed, g
  <2>8. NoId \in Nat /\ <<>> \in Seq(Delta) /\ <<>> \in Seq(Group) /\ Len(<<>>) = 0
    BY SMT DEF NoId
  <2>9. Trim(pushed) \in Seq(Group)
    BY <2>5 DEF UndoPath
  <2> HIDE DEF r
  <2>10. r \in History
    BY <2>2, <2>7, <2>8, <2>9 DEF History
  <2>11. /\ r.undo = Trim(pushed) /\ r.redo = <<>> /\ r.cur = h.next /\ r.next = h.next + 1
         /\ r.pendBefore = NoId
    BY <2>7
  <2>12. RedoPath(r.redo, r.cur, r.next)
    BY <2>8, <2>11, SMT DEF RedoPath
  <2>13. ~GroupActive(r)
    BY <2>11 DEF GroupActive
  <2>14. GoodHistory(r)
    BY <2>2, <2>6, <2>10, <2>11, <2>12, <2>13, GoodHistoryIsPaths
  <2> QED
    BY <2>11, <2>13, <2>14 DEF r
<1> QED
  BY <1>1, <1>2

(* undo and redo move one group across; the path is cut at another place.  *)
LEMMA UndoStepGood ==
  ASSUME NEW h, GoodHistory(h), ~GroupActive(h), h.undo # <<>>
  PROVE  /\ GoodHistory(UndoStep(h)) /\ ~GroupActive(UndoStep(h))
         /\ UndoStep(h).cur = Last(h.undo).before /\ UndoStep(h).next = h.next
         /\ Last(h.undo) \in Group /\ Last(h.undo).after = h.cur
<1> DEFINE g == Last(h.undo)
           r == UndoStep(h)
<1>1. /\ h \in History /\ h.cur < h.next
      /\ UndoPath(h.undo, h.cur, h.next) /\ RedoPath(h.redo, h.cur, h.next)
  BY GoodHistoryIsPaths DEF GoodHistory
<1>2. /\ h.undo \in Seq(Group) /\ h.redo \in Seq(Group) /\ h.cur \in Nat /\ h.next \in Nat
  BY <1>1, HistoryFields
<1>3. /\ Len(h.undo) \in Nat \ {0} /\ g = h.undo[Len(h.undo)] /\ g \in Group
      /\ Front(h.undo) \in Seq(Group)
  BY <1>2, FrontAndLast
<1>4. Len(h.undo) \in 1 .. Len(h.undo)
  BY <1>3, SMT
<1>5. g.after = h.cur /\ g.before < h.next /\ g.before \in Nat
  BY <1>1, <1>3, <1>4 DEF UndoPath, Group
<1>6. UndoPath(Front(h.undo), g.before, h.next)
  BY <1>1, ShortenedPath
<1> HIDE DEF g
<1>7. RedoPath(Append(h.redo, g), g.before, h.next)
  BY <1>1, <1>3, <1>5, ProlongedRedoPath
<1>8. Append(h.redo, g) \in Seq(Group)
  BY <1>7 DEF RedoPath
<1>9. r = [[[h EXCEPT !.undo = Front(h.undo)] EXCEPT !.redo = Append(h.redo, g)]
             EXCEPT !.cur = g.before]
  BY DEF UndoStep, g
<1> HIDE DEF r
<1>10. r \in History
  BY <1>1, <1>3, <1>5, <1>8, <1>9, Zenon DEF History
<1>11. /\ r.undo = Front(h.undo) /\ r.redo = Append(h.redo, g) /\ r.cur = g.before
       /\ r.next = h.next /\ r.pendBefore = h.pendBefore
  BY <1>1, <1>9, Zenon DEF History
<1>12. ~GroupActive(r)
  BY <1>11 DEF GroupActive
<1>13. GoodHistory(r)
  BY <1>5, <1>6, <1>7, <1>10, <1>11, <1>12, GoodHistoryIsPaths
<1> QED
  BY <1>3, <1>5, <1>11, <1>12, <1>13 DEF g, r

LEMMA RedoStepGood ==
  ASSUME NEW h, GoodHistory(h), ~GroupActive(h), h.redo # <<>>
  PROVE  /\ GoodHistory(RedoStep(h)) /\ ~GroupActive(RedoStep(h))
         /\ RedoStep(h).cur = Last(h.redo).after /\ RedoStep(h).next = h.next
         /\ Last(h.redo) \in Group /\ Last(h.redo).before = h.cur
<1> DEFINE g == Last(h.redo)
           longer == Append(h.undo, g)
           r == RedoStep(h)
<1>1. /\ h \in History /\ h.cur < h.next
      /\ UndoPath(h.undo, h.cur, h.next) /\ RedoPath(h.redo, h.cur, h.next)
  BY GoodHistoryIsPaths DEF GoodHistory
<1>2. /\ h.undo \in Seq(Group) /\ h.redo \in Seq(Group) /\ h.cur \in Nat /\ h.next \in Nat
  BY <1>1, HistoryFields
<1>3. /\ Len(h.redo) \in Nat \ {0} /\ g = h.redo[Len(h.redo)] /\ g \in Group
      /\ Front(h.redo) \in Seq(Group)
  BY <1>2, FrontAndLast
<1>4. Len(h.redo) \in 1 .. Len(h.redo)
  BY <1>3, SMT
<1>5. g.before = h.cur /\ g.after < h.next /\ g.after \in Nat
  BY <1>1, <1>3, <1>4 DEF RedoPath, Group
<1>6. RedoPath(Front(h.redo), g.after, h.next)
  BY <1>1, ShortenedRedoPath
<1> HIDE DEF g
<1>7. UndoPath(longer, g.after, h.next) /\ longer # <<>>
  BY <1>1, <1>3, <1>5, ProlongedPath
<1>8. r = [[[h EXCEPT !.redo = Front(h.redo)] EXCEPT !.undo = Trim(longer)]
             EXCEPT !.cur = g.after]
  BY DEF RedoStep, g
<1> HIDE DEF longer, r
<1>9. UndoPath(Trim(longer), g.after, h.next)
  BY <1>7, TrimmedPath
<1>10. Trim(longer) \in Seq(Group)
  BY <1>9 DEF UndoPath
<1>11. r \in History
  BY <1>1, <1>3, <1>5, <1>8, <1>10, Zenon DEF History
<1>12. /\ r.redo = Front(h.redo) /\ r.undo = Trim(longer) /\ r.cur = g.after
       /\ r.next = h.next /\ r.pendBefore = h.pendBefore
  BY <1>1, <1>8, Zenon DEF History
<1>13. ~GroupActive(r)
  BY <1>12 DEF GroupActive
<1>14. GoodHistory(r)
  BY <1>5, <1>6, <1>9, <1>11, <1>12, <1>13, GoodHistoryIsPaths
<1> QED
  BY <1>3, <1>5, <1>12, <1>13, <1>14 DEF g, r

(* restore_checkpoint: the old path, under a bound that never goes back.   *)
LEMMA RestoreCheckpointGood ==
  ASSUME NEW h, NEW checkpoint, GoodHistory(checkpoint), h.next \in Nat
  PROVE  /\ GoodHistory(RestoreCheckpoint(h, checkpoint))
         /\ RestoreCheckpoint(h, checkpoint).cur = checkpoint.cur
         /\ RestoreCheckpoint(h, checkpoint).pendBefore = checkpoint.pendBefore
         /\ RestoreCheckpoint(h, checkpoint).next \in Nat
         /\ checkpoint.next =< RestoreCheckpoint(h, checkpoint).next
<1> DEFINE n == IF h.next > checkpoint.next THEN h.next ELSE checkpoint.next
           r == [checkpoint EXCEPT !.next = n]
<1>1. /\ checkpoint \in History /\ checkpoint.cur < checkpoint.next
      /\ UndoPath(checkpoint.undo, checkpoint.cur, checkpoint.next)
      /\ RedoPath(checkpoint.redo, checkpoint.cur, checkpoint.next)
      /\ GroupActive(checkpoint) => checkpoint.pendBefore = checkpoint.cur
  BY GoodHistoryIsPaths DEF GoodHistory
<1>2. checkpoint.next \in Nat /\ checkpoint.cur \in Nat
  BY <1>1, HistoryFields
<1>3. n \in Nat /\ checkpoint.next =< n /\ checkpoint.cur < n
  BY <1>1, <1>2, SMT
<1>4. RestoreCheckpoint(h, checkpoint) = r
  BY DEF RestoreCheckpoint
<1> HIDE DEF n
<1>5. r \in History
  BY <1>1, <1>3, Zenon DEF History
<1>6. /\ r.undo = checkpoint.undo /\ r.redo = checkpoint.redo /\ r.cur = checkpoint.cur
      /\ r.next = n /\ r.pendBefore = checkpoint.pendBefore
  BY <1>1, Zenon DEF History
<1> HIDE DEF r
<1>7. UndoPath(r.undo, r.cur, r.next) /\ RedoPath(r.redo, r.cur, r.next)
  BY <1>1, <1>2, <1>3, <1>6, PathsStayBelow
<1>8. GoodHistory(r)
  BY <1>1, <1>3, <1>5, <1>6, <1>7, GoodHistoryIsPaths DEF GroupActive
<1> QED
  BY <1>3, <1>4, <1>6, <1>8

-----------------------------------------------------------------------------
(* The operations a group replays.                                         *)

LEMMA ReplayOperationsType ==
  ASSUME NEW g \in Group
  PROVE  UndoOperations(g) \in Seq(ReplayOperation) /\ RedoOperations(g) \in Seq(ReplayOperation)
<1>1. g.deltas \in Seq(Delta)
  BY DEF Group
<1>2. \A d \in Delta : AsOperation(d) \in ReplayOperation
  BY DEF AsOperation, Delta, ReplayOperation
<1>3. [i \in DOMAIN g.deltas |-> AsOperation(g.deltas[i])] \in Seq(ReplayOperation)
  BY <1>1, <1>2, SMT
<1> QED
  BY <1>3, InversesType DEF UndoOperations, RedoOperations

-----------------------------------------------------------------------------
(* The limits, over both stacks.                                           *)
WithinLimits(undo, redo) ==
  /\ Len(undo) + Len(redo) =< MaxGroups
  /\ Payload(undo) + Payload(redo) > MaxPayload => Len(undo) + Len(redo) = 1

LEMMA NothingWeighs == Payload(<<>>) = 0
<1>1. Weights(<<>>) = <<>>
  BY SMT DEF Weights
<1> QED
  BY <1>1, TotalOfOne DEF Payload

LEMMA PayloadOfAppend ==
  ASSUME NEW s \in Seq(Group), NEW g \in Group
  PROVE  Payload(Append(s, g)) = Payload(s) + PayloadChars(g)
<1>1. <<g>> \in Seq(Group) /\ Append(s, g) = s \o <<g>>
  BY SMT
<1>2. Weights(<<g>>) = <<PayloadChars(g)>>
  BY SMT DEF Weights
<1>3. Payload(<<g>>) = PayloadChars(g)
  BY <1>2, PayloadCharsType, TotalOfOne DEF Payload
<1> QED
  BY <1>1, <1>3, WeightsOfConcat

LEMMA FrontThenLast ==
  ASSUME NEW S, NEW s \in Seq(S), s # <<>>
  PROVE  Append(Front(s), Last(s)) = s
<1> DEFINE f == Front(s)
           e == Last(s)
<1>1. /\ Len(s) \in Nat \ {0} /\ e = s[Len(s)] /\ e \in S
      /\ f \in Seq(S) /\ Len(f) = Len(s) - 1
      /\ \A i \in 1 .. Len(s) - 1 : f[i] = s[i]
  BY FrontAndLast
<1> HIDE DEF f, e
<1> DEFINE r == Append(f, e)
<1>2. /\ r \in Seq(S) /\ Len(r) = Len(f) + 1 /\ r[Len(f) + 1] = e
      /\ \A i \in 1 .. Len(f) : r[i] = f[i]
  BY <1>1, Appended
<1> HIDE DEF r
<1>3. Len(r) = Len(s)
  BY <1>1, <1>2, SMT
<1>4. \A i \in 1 .. Len(s) : r[i] = s[i]
  BY <1>1, <1>2, SMT
<1>5. r = s
  BY <1>2, <1>3, <1>4, SeqEqual
<1> QED
  BY <1>5 DEF r, f, e

LEMMA EmptyWithinLimits == WithinLimits(<<>>, <<>>)
  BY NothingWeighs, LimitsArePositive, SMT DEF WithinLimits

LEMMA TrimmedWithinLimits ==
  ASSUME NEW stack \in Seq(Group), stack # <<>>
  PROVE  WithinLimits(Trim(stack), <<>>)
<1>1. /\ Len(Trim(stack)) =< MaxGroups
      /\ Payload(Trim(stack)) > MaxPayload => Len(Trim(stack)) = 1
  BY TrimReaches
<1>2. Trim(stack) \in Seq(Group)
  BY TrimKeepsNewest
<1>3. Payload(Trim(stack)) \in Nat /\ Len(Trim(stack)) \in Nat
  BY <1>2, WeightsType, SMT
<1>4. Payload(<<>>) = 0 /\ Len(<<>>) = 0
  BY NothingWeighs, SMT
<1> QED
  BY <1>1, <1>3, <1>4, SMT DEF WithinLimits

(* A group that moves from one stack to the other changes neither sum.     *)
LEMMA MovedWithinLimits ==
  ASSUME NEW from \in Seq(Group), from # <<>>, NEW to \in Seq(Group)
  PROVE  /\ Len(Front(from)) + Len(Append(to, Last(from))) = Len(from) + Len(to)
         /\ Payload(Front(from)) + Payload(Append(to, Last(from))) = Payload(from) + Payload(to)
         /\ Len(Append(to, Last(from))) =< Len(from) + Len(to)
         /\ Payload(Append(to, Last(from))) =< Payload(from) + Payload(to)
<1> DEFINE f == Front(from)
           g == Last(from)
           a == Append(to, g)
<1>1. f \in Seq(Group) /\ g \in Group /\ Len(f) = Len(from) - 1 /\ Len(from) \in Nat \ {0}
  BY FrontAndLast
<1>2. Append(f, g) = from
  BY FrontThenLast
<1> HIDE DEF f, g
<1>3. a \in Seq(Group) /\ Len(a) = Len(to) + 1 /\ Len(to) \in Nat
  BY <1>1, Appended
<1>4. Payload(from) = Payload(f) + PayloadChars(g) /\ Payload(a) = Payload(to) + PayloadChars(g)
  BY <1>1, <1>2, PayloadOfAppend
<1>5. Payload(f) \in Nat /\ Payload(to) \in Nat /\ PayloadChars(g) \in Nat
  BY <1>1, WeightsType, PayloadCharsType
<1> HIDE DEF a
<1>6. /\ Len(f) + Len(a) = Len(from) + Len(to) /\ Len(a) =< Len(from) + Len(to)
  BY <1>1, <1>3, SMT
<1>7. /\ Payload(f) + Payload(a) = Payload(from) + Payload(to)
      /\ Payload(a) =< Payload(from) + Payload(to)
  BY <1>4, <1>5, SMT
<1> QED
  BY <1>6, <1>7 DEF f, g, a

LEMMA UndoneWithinLimits ==
  ASSUME NEW undo \in Seq(Group), NEW redo \in Seq(Group), undo # <<>>,
         WithinLimits(undo, redo)
  PROVE  WithinLimits(Front(undo), Append(redo, Last(undo)))
  BY MovedWithinLimits DEF WithinLimits

(* So redo never drops a group, for the trimming it ends with.             *)
LEMMA RedoneWithinLimits ==
  ASSUME NEW undo \in Seq(Group), NEW redo \in Seq(Group), redo # <<>>,
         WithinLimits(undo, redo)
  PROVE  /\ Trim(Append(undo, Last(redo))) = Append(undo, Last(redo))
         /\ WithinLimits(Trim(Append(undo, Last(redo))), Front(redo))
<1> DEFINE a == Append(undo, Last(redo))
<1>1. /\ Len(Front(redo)) + Len(a) = Len(redo) + Len(undo)
      /\ Payload(Front(redo)) + Payload(a) = Payload(redo) + Payload(undo)
      /\ Len(a) =< Len(redo) + Len(undo)
      /\ Payload(a) =< Payload(redo) + Payload(undo)
  BY MovedWithinLimits
<1>2. /\ Front(redo) \in Seq(Group) /\ Last(redo) \in Group
  BY FrontAndLast
<1>3. a \in Seq(Group) /\ a # <<>> /\ Len(a) = Len(undo) + 1 /\ Len(undo) \in Nat
  BY <1>2, Appended
<1> HIDE DEF a
<1>4. /\ Payload(a) \in Nat /\ Payload(undo) \in Nat /\ Payload(redo) \in Nat
      /\ Payload(Front(redo)) \in Nat
  BY <1>2, <1>3, WeightsType
<1>5. Len(redo) \in Nat \ {0} /\ Len(Front(redo)) = Len(redo) - 1
  BY FrontAndLast
<1>6. Len(a) =< MaxGroups /\ (Payload(a) > MaxPayload => Len(a) = 1)
  BY <1>1, <1>3, <1>4, <1>5, LimitsArePositive, SMT DEF WithinLimits
<1>7. Trim(a) = a
  BY <1>3, <1>6, TrimReaches
<1>8. WithinLimits(a, Front(redo))
  BY <1>1, <1>3, <1>4, <1>5, SMT DEF WithinLimits
<1> QED
  BY <1>7, <1>8 DEF a

-----------------------------------------------------------------------------
(* Identities grow along the path: undo leads to ever older states, redo   *)
(* to ever newer ones.                                                     *)
UndoOrdered(stack, cur) ==
  \A i \in 1 .. Len(stack) :
    /\ stack[i].before < cur
    /\ \A j \in i + 1 .. Len(stack) : stack[i].before < stack[j].before

RedoOrdered(stack, cur) ==
  \A i \in 1 .. Len(stack) :
    /\ cur < stack[i].after
    /\ \A j \in i + 1 .. Len(stack) : stack[j].after < stack[i].after

Ordered(h) == UndoOrdered(h.undo, h.cur) /\ RedoOrdered(h.redo, h.cur)

LEMMA NothingOrdered ==
  ASSUME NEW cur
  PROVE  UndoOrdered(<<>>, cur) /\ RedoOrdered(<<>>, cur)
  BY SMT DEF UndoOrdered, RedoOrdered

LEMMA GroupIds ==
  ASSUME NEW s \in Seq(Group), NEW i \in 1 .. Len(s)
  PROVE  s[i] \in Group /\ s[i].before \in Nat /\ s[i].after \in Nat
<1>1. s[i] \in Group
  BY SMT
<1> QED
  BY <1>1 DEF Group

LEMMA ProlongedOrder ==
  ASSUME NEW s \in Seq(Group), NEW cur \in Nat, NEW n \in Nat, cur < n,
         UndoOrdered(s, cur), NEW g \in Group, g.before = cur
  PROVE  UndoOrdered(Append(s, g), n)
<1> DEFINE a == Append(s, g)
<1>1. /\ Len(a) = Len(s) + 1 /\ Len(s) \in Nat /\ a[Len(s) + 1] = g
      /\ \A i \in 1 .. Len(s) : a[i] = s[i]
  BY Appended
<1> HIDE DEF a
<1> SUFFICES ASSUME NEW i \in 1 .. Len(a)
             PROVE  /\ a[i].before < n
                    /\ \A j \in i + 1 .. Len(a) : a[i].before < a[j].before
  BY DEF UndoOrdered, a
<1>2. CASE i = Len(s) + 1
  <2>1. i + 1 .. Len(a) = {}
    BY <1>1, <1>2, SMT
  <2> QED
    BY <1>1, <1>2, <2>1
<1>3. CASE i \in 1 .. Len(s)
  <2>1. /\ a[i] = s[i] /\ s[i].before \in Nat /\ s[i].before < cur
        /\ \A j \in i + 1 .. Len(s) : s[i].before < s[j].before
    BY <1>1, <1>3, GroupIds DEF UndoOrdered
  <2>2. a[i].before < n
    BY <2>1, SMT
  <2>3. ASSUME NEW j \in i + 1 .. Len(a)
        PROVE  a[i].before < a[j].before
    <3>1. CASE j = Len(s) + 1
      BY <1>1, <2>1, <3>1
    <3>2. CASE j \in i + 1 .. Len(s)
      <4>1. j \in 1 .. Len(s)
        BY <1>1, <1>3, <3>2, SMT
      <4> QED
        BY <1>1, <2>1, <3>2, <4>1
    <3>3. j = Len(s) + 1 \/ j \in i + 1 .. Len(s)
      BY <1>1, <1>3, SMT
    <3> QED
      BY <3>1, <3>2, <3>3
  <2> QED
    BY <2>2, <2>3
<1> QED
  BY <1>1, <1>2, <1>3, SMT

LEMMA ProlongedRedoOrder ==
  ASSUME NEW s \in Seq(Group), NEW cur \in Nat, NEW n \in Nat, n < cur,
         RedoOrdered(s, cur), NEW g \in Group, g.after = cur
  PROVE  RedoOrdered(Append(s, g), n)
<1> DEFINE a == Append(s, g)
<1>1. /\ Len(a) = Len(s) + 1 /\ Len(s) \in Nat /\ a[Len(s) + 1] = g
      /\ \A i \in 1 .. Len(s) : a[i] = s[i]
  BY Appended
<1> HIDE DEF a
<1> SUFFICES ASSUME NEW i \in 1 .. Len(a)
             PROVE  /\ n < a[i].after
                    /\ \A j \in i + 1 .. Len(a) : a[j].after < a[i].after
  BY DEF RedoOrdered, a
<1>2. CASE i = Len(s) + 1
  <2>1. i + 1 .. Len(a) = {}
    BY <1>1, <1>2, SMT
  <2> QED
    BY <1>1, <1>2, <2>1
<1>3. CASE i \in 1 .. Len(s)
  <2>1. /\ a[i] = s[i] /\ s[i].after \in Nat /\ cur < s[i].after
        /\ \A j \in i + 1 .. Len(s) : s[j].after < s[i].after
    BY <1>1, <1>3, GroupIds DEF RedoOrdered
  <2>2. n < a[i].after
    BY <2>1, SMT
  <2>3. ASSUME NEW j \in i + 1 .. Len(a)
        PROVE  a[j].after < a[i].after
    <3>1. CASE j = Len(s) + 1
      BY <1>1, <2>1, <3>1
    <3>2. CASE j \in i + 1 .. Len(s)
      <4>1. j \in 1 .. Len(s)
        BY <1>1, <1>3, <3>2, SMT
      <4>2. a[j] = s[j]
        BY <1>1, <4>1, Zenon
      <4>3. s[j].after < s[i].after
        BY <2>1, <3>2, Zenon
      <4>4. a[i] = s[i]
        BY <2>1
      <4> QED
        BY <4>2, <4>3, <4>4, Zenon
    <3>3. j = Len(s) + 1 \/ j \in i + 1 .. Len(s)
      BY <1>1, <1>3, SMT
    <3> QED
      BY <3>1, <3>2, <3>3
  <2> QED
    BY <2>2, <2>3
<1> QED
  BY <1>1, <1>2, <1>3, SMT

LEMMA ShortenedOrder ==
  ASSUME NEW s \in Seq(Group), s # <<>>, NEW cur
  PROVE  /\ UndoOrdered(s, cur) =>
              UndoOrdered(Front(s), Last(s).before) /\ Last(s).before < cur
         /\ RedoOrdered(s, cur) =>
              RedoOrdered(Front(s), Last(s).after) /\ cur < Last(s).after
<1> DEFINE f == Front(s)
           n == Len(s)
<1>1. /\ n \in Nat \ {0} /\ Last(s) = s[n] /\ Len(f) = n - 1
      /\ \A i \in 1 .. n - 1 : f[i] = s[i]
  BY FrontAndLast
<1> HIDE DEF f
<1>2. /\ n \in 1 .. n /\ Len(f) = n - 1
      /\ \A i \in 1 .. n - 1 : i \in 1 .. n /\ n \in i + 1 .. n
      /\ \A i \in 1 .. n - 1 : \A j \in i + 1 .. n - 1 : j \in i + 1 .. n /\ j \in 1 .. n - 1
  BY <1>1, SMT
<1>3. ASSUME UndoOrdered(s, cur)
      PROVE  UndoOrdered(f, s[n].before) /\ s[n].before < cur
  <2>1. ASSUME NEW i \in 1 .. Len(f)
        PROVE  /\ f[i].before < s[n].before
               /\ \A j \in i + 1 .. Len(f) : f[i].before < f[j].before
    BY <1>1, <1>2, <1>3 DEF UndoOrdered
  <2>2. s[n].before < cur
    BY <1>2, <1>3 DEF UndoOrdered
  <2> QED
    BY <2>1, <2>2 DEF UndoOrdered
<1>4. ASSUME RedoOrdered(s, cur)
      PROVE  RedoOrdered(f, s[n].after) /\ cur < s[n].after
  <2>1. ASSUME NEW i \in 1 .. Len(f)
        PROVE  /\ s[n].after < f[i].after
               /\ \A j \in i + 1 .. Len(f) : f[j].after < f[i].after
    BY <1>1, <1>2, <1>4 DEF RedoOrdered
  <2>2. cur < s[n].after
    BY <1>2, <1>4 DEF RedoOrdered
  <2> QED
    BY <2>1, <2>2 DEF RedoOrdered
<1> QED
  BY <1>1, <1>3, <1>4 DEF f

LEMMA TrimmedOrder ==
  ASSUME NEW s \in Seq(Group), s # <<>>, NEW cur, UndoOrdered(s, cur)
  PROVE  UndoOrdered(Trim(s), cur)
<1> DEFINE kept == Trim(s)
<1>1. PICK n \in 0 .. Len(s) - 1 :
        /\ Len(kept) = Len(s) - n
        /\ \A i \in 1 .. Len(s) - n : kept[i] = s[n + i]
  BY TrimKeepsNewest
<1> HIDE DEF kept
<1>2. Len(s) \in Nat
  BY SMT
<1>3. ASSUME NEW i \in 1 .. Len(kept)
      PROVE  /\ kept[i].before < cur
             /\ \A j \in i + 1 .. Len(kept) : kept[i].before < kept[j].before
  <2>1. /\ i \in 1 .. Len(s) - n /\ n + i \in 1 .. Len(s) /\ kept[i] = s[n + i]
        /\ \A j \in i + 1 .. Len(kept) :
             j \in 1 .. Len(s) - n /\ n + j \in (n + i) + 1 .. Len(s)
    BY <1>1, <1>2, SMT
  <2> QED
    BY <1>1, <2>1 DEF UndoOrdered
<1> QED
  BY <1>3 DEF UndoOrdered, kept

LEMMA PushedOrder ==
  ASSUME NEW s \in Seq(Group), NEW cur \in Nat, NEW n \in Nat, cur < n,
         UndoOrdered(s, cur), NEW g \in Group, g.before = cur, NEW saved
  PROVE  /\ Pushed(s, g, saved) \in Seq(Group) /\ Pushed(s, g, saved) # <<>>
         /\ UndoOrdered(Pushed(s, g, saved), n)
<1>1. CASE s # <<>> /\ Mergeable(Last(s), g, saved)
  <2> DEFINE m == MergedGroup(Last(s), g)
             f == Front(s)
  <2>1. Last(s) \in Group /\ f \in Seq(Group)
    BY <1>1, FrontAndLast
  <2>2. m \in Group /\ m.before = Last(s).before /\ Last(s).before \in Nat
    BY <1>1, <2>1, MergedGroupType DEF Mergeable, Group
  <2>3. UndoOrdered(f, Last(s).before) /\ Last(s).before < cur
    BY <1>1, ShortenedOrder
  <2> HIDE DEF m, f
  <2>4. Last(s).before < n
    BY <2>2, <2>3, SMT
  <2>5. UndoOrdered(Append(f, m), n)
    BY <2>1, <2>2, <2>3, <2>4, ProlongedOrder
  <2>6. Append(f, m) \in Seq(Group) /\ Append(f, m) # <<>>
    BY <2>1, <2>2, Appended
  <2> QED
    BY <1>1, <2>5, <2>6 DEF Pushed, m, f
<1>2. CASE ~(s # <<>> /\ Mergeable(Last(s), g, saved))
  <2>1. UndoOrdered(Append(s, g), n)
    BY ProlongedOrder
  <2>2. Append(s, g) \in Seq(Group) /\ Append(s, g) # <<>>
    BY Appended
  <2> QED
    BY <1>2, <2>1, <2>2 DEF Pushed
<1> QED
  BY <1>1, <1>2

-----------------------------------------------------------------------------
(* The groups of a stack, whatever their order.                            *)
GroupsOf(stack) == {stack[i] : i \in 1 .. Len(stack)}

LEMMA GroupsAreGroups ==
  ASSUME NEW s \in Seq(Group)
  PROVE  GroupsOf(s) \subseteq Group
  BY GroupIds DEF GroupsOf

LEMMA GroupsOfAppend ==
  ASSUME NEW s \in Seq(Group), NEW g \in Group
  PROVE  GroupsOf(Append(s, g)) = GroupsOf(s) \cup {g}
<1> DEFINE a == Append(s, g)
<1>1. /\ Len(a) = Len(s) + 1 /\ Len(s) \in Nat /\ a[Len(s) + 1] = g
      /\ \A i \in 1 .. Len(s) : a[i] = s[i]
  BY Appended
<1> HIDE DEF a
<1>2. 1 .. Len(a) = (1 .. Len(s)) \cup {Len(s) + 1}
  BY <1>1, SMT
<1> QED
  BY <1>1, <1>2 DEF GroupsOf, a

LEMMA GroupsOfFront ==
  ASSUME NEW s \in Seq(Group), s # <<>>
  PROVE  GroupsOf(s) = GroupsOf(Front(s)) \cup {Last(s)}
<1>1. Front(s) \in Seq(Group) /\ Last(s) \in Group
  BY FrontAndLast
<1> QED
  BY <1>1, FrontThenLast, GroupsOfAppend

LEMMA GroupsOfTrim ==
  ASSUME NEW s \in Seq(Group), s # <<>>
  PROVE  GroupsOf(Trim(s)) \subseteq GroupsOf(s)
<1>1. PICK n \in 0 .. Len(s) - 1 :
        /\ Len(Trim(s)) = Len(s) - n
        /\ \A i \in 1 .. Len(s) - n : Trim(s)[i] = s[n + i]
  BY TrimKeepsNewest
<1>2. Len(s) \in Nat
  BY SMT
<1>3. \A i \in 1 .. Len(s) - n : n + i \in 1 .. Len(s)
  BY <1>2, SMT
<1> QED
  BY <1>1, <1>3 DEF GroupsOf

LEMMA GroupsOfPushed ==
  ASSUME NEW s \in Seq(Group), NEW g \in Group, NEW saved, NEW p \in GroupsOf(Pushed(s, g, saved))
  PROVE  \/ p \in GroupsOf(s) \cup {g}
         \/ s # <<>> /\ Mergeable(Last(s), g, saved) /\ p = MergedGroup(Last(s), g)
<1>1. CASE s # <<>> /\ Mergeable(Last(s), g, saved)
  <2>1. Last(s) \in Group /\ Front(s) \in Seq(Group)
    BY <1>1, FrontAndLast
  <2>2. MergedGroup(Last(s), g) \in Group
    BY <1>1, <2>1, MergedGroupType DEF Mergeable
  <2>3. GroupsOf(Pushed(s, g, saved)) = GroupsOf(Front(s)) \cup {MergedGroup(Last(s), g)}
    BY <1>1, <2>1, <2>2, GroupsOfAppend DEF Pushed
  <2> QED
    BY <1>1, <2>3, GroupsOfFront
<1>2. CASE ~(s # <<>> /\ Mergeable(Last(s), g, saved))
  BY <1>2, GroupsOfAppend DEF Pushed
<1> QED
  BY <1>1, <1>2

(* A state of the path that a group leads to is the current one, or one    *)
(* that another group starts from; and the other way round for redo.       *)
LEMMA EndsOfGroups ==
  ASSUME NEW stack, NEW cur, NEW bound
  PROVE  /\ UndoPath(stack, cur, bound) =>
              \A g \in GroupsOf(stack) :
                g.after = cur \/ \E h \in GroupsOf(stack) : g.after = h.before
         /\ RedoPath(stack, cur, bound) =>
              \A g \in GroupsOf(stack) :
                g.before = cur \/ \E h \in GroupsOf(stack) : g.before = h.after
<1>1. ASSUME stack \in Seq(Group), NEW i \in 1 .. Len(stack)
      PROVE  /\ i # Len(stack) => i \in 1 .. Len(stack) - 1 /\ i + 1 \in 1 .. Len(stack)
             /\ stack # <<>>
  BY <1>1, SMT
<1>2. ASSUME UndoPath(stack, cur, bound), NEW i \in 1 .. Len(stack)
      PROVE  stack[i].after = cur \/ \E h \in GroupsOf(stack) : stack[i].after = h.before
  <2>1. stack \in Seq(Group)
    BY <1>2 DEF UndoPath
  <2> QED
    BY <1>1, <1>2, <2>1 DEF UndoPath, GroupsOf
<1>3. ASSUME RedoPath(stack, cur, bound), NEW i \in 1 .. Len(stack)
      PROVE  stack[i].before = cur \/ \E h \in GroupsOf(stack) : stack[i].before = h.after
  <2>1. stack \in Seq(Group)
    BY <1>3 DEF RedoPath
  <2> QED
    BY <1>1, <1>3, <2>1 DEF RedoPath, GroupsOf
<1> QED
  BY <1>2, <1>3 DEF GroupsOf

-----------------------------------------------------------------------------
(* The session.                                                            *)

StateOK ==
  /\ buffer \in Texts
  /\ GoodHistory(hist)
  /\ sess \in Session
  /\ sess.cur = hist.cur /\ sess.saved < hist.next /\ sess.textId < hist.next
  /\ raised \in BOOLEAN
  /\ accepted \in [text : Texts, prof : Profiles]

ContentOK == DOMAIN content \subseteq Nat /\ \A i \in DOMAIN content : content[i] \in Texts

IInv == StateOK /\ ContentOK

-----------------------------------------------------------------------------
(* Types of the session operators.                                         *)

LEMMA DefaultProfileType == DefaultProfile \in Profiles
<1>1. FALSE \in Mixes
  BY DefaultsAreProfiles
<1> QED
  BY <1>1, DefaultsAreProfiles DEF DefaultProfile, Profiles

LEMMA ProfileTypes ==
  ASSUME NEW p \in Profiles
  PROVE  /\ \A enc \in Encodings : WithEncoding(p, enc) \in Profiles
         /\ \A eol \in Eols : WithLineEnding(p, eol) \in Profiles
         /\ \A text : ProfileAfterWrite(text, p) \in Profiles
<1>1. FALSE \in Mixes /\ DefaultEol \in Eols
  BY DefaultsAreProfiles
<1>2. p.enc \in Encodings /\ p.eol \in Eols /\ p.mixed \in Mixes
  BY DEF Profiles
<1>3. \A enc \in Encodings : WithEncoding(p, enc) \in Profiles
  BY Zenon DEF WithEncoding, Profiles
<1>4. \A eol \in Eols : WithLineEnding(p, eol) \in Profiles
  BY <1>1, Zenon DEF WithLineEnding, Profiles
<1>5. \A text : ProfileAfterWrite(text, p) \in Profiles
  BY <1>1, <1>2, Zenon DEF ProfileAfterWrite, Profiles
<1> QED
  BY <1>3, <1>4, <1>5

LEMMA SessionFields ==
  ASSUME NEW s \in Session
  PROVE  /\ s.text \in Texts /\ s.textId \in Nat /\ s.cur \in Nat /\ s.saved \in Nat
         /\ s.prof \in Profiles /\ s.savedProf \in Profiles
  BY DEF Session

LEMMA AdvanceEditorStateType ==
  ASSUME NEW s \in Session, NEW id \in Nat
  PROVE  /\ AdvanceEditorState(s, id) \in Session
         /\ AdvanceEditorState(s, id).cur = id
         /\ AdvanceEditorState(s, id).saved = s.saved
         /\ AdvanceEditorState(s, id).textId = s.textId
  BY Zenon DEF AdvanceEditorState, Session

LEMMA SynchronizeType ==
  ASSUME NEW s \in Session, NEW text \in Texts
  PROVE  /\ SynchronizeCurrentText(s, text) \in Session
         /\ SynchronizeCurrentText(s, text).cur = s.cur
         /\ SynchronizeCurrentText(s, text).saved = s.saved
         /\ SynchronizeCurrentText(s, text).textId = s.cur
<1>1. s.cur \in Nat
  BY SessionFields
<1> QED
  BY <1>1, Zenon DEF SynchronizeCurrentText, Session

LEMMA EstablishedType ==
  ASSUME NEW text \in Texts, NEW id \in Nat, NEW savedId \in Nat,
         NEW prof \in Profiles, NEW savedProf \in Profiles
  PROVE  /\ Established(text, id, savedId, prof, savedProf) \in Session
         /\ Established(text, id, savedId, prof, savedProf).cur = id
         /\ Established(text, id, savedId, prof, savedProf).saved = savedId
         /\ Established(text, id, savedId, prof, savedProf).textId = id
  BY Zenon DEF Established, Session

LEMMA AcceptType ==
  ASSUME NEW s \in Session, NEW id \in Nat, NEW captured, NEW prof \in Profiles
  PROVE  /\ AcceptCommittedSave(s, id, captured, prof) \in Session
         /\ AcceptCommittedSave(s, id, captured, prof).cur = s.cur
         /\ AcceptCommittedSave(s, id, captured, prof).saved = id
         /\ AcceptCommittedSave(s, id, captured, prof).textId = s.textId
<1> DEFINE p == IF s.prof = captured THEN prof ELSE s.prof
<1>1. p \in Profiles
  BY SessionFields
<1>2. AcceptCommittedSave(s, id, captured, prof)
        = [[[s EXCEPT !.saved = id] EXCEPT !.prof = p] EXCEPT !.savedProf = prof]
  BY DEF AcceptCommittedSave
<1> HIDE DEF p
<1> QED
  BY <1>1, <1>2, Zenon DEF Session

-----------------------------------------------------------------------------
(* StateOK action by action.  What an action has to show: the new buffer   *)
(* is a text, the new history well-formed, and the session stands on its   *)
(* identity, below the next one.                                           *)

LEMMA StateFacts ==
  ASSUME StateOK
  PROVE  /\ buffer \in Texts /\ GoodHistory(hist) /\ hist \in History /\ sess \in Session
         /\ hist.cur \in Nat /\ hist.next \in Nat /\ hist.cur < hist.next
         /\ sess.cur = hist.cur /\ sess.saved < hist.next /\ sess.textId < hist.next
         /\ sess.saved \in Nat /\ sess.textId \in Nat
         /\ raised \in BOOLEAN
         /\ accepted \in [text : Texts, prof : Profiles]
  BY HistoryFields, SessionFields DEF StateOK, GoodHistory, IdsHandedOut

(* The four ways to replace the document fail alike.                       *)
LEMMA InstallFailsOK ==
  ASSUME StateOK, NEW resets \in Nat, InstallFails(resets)
  PROVE  StateOK'
<1>1. raised' = TRUE /\ buffer' = buffer /\ sess' = sess /\ accepted' = accepted
  BY DEF InstallFails
<1>2. CASE hist' = hist
  BY <1>1, <1>2, StateFacts DEF StateOK
<1>3. CASE \E n \in 0 .. resets : hist' = RestoreCheckpoint([hist EXCEPT !.next = @ + n], hist)
  <2>1. PICK n \in 0 .. resets : hist' = RestoreCheckpoint([hist EXCEPT !.next = hist.next + n], hist)
    BY <1>3
  <2>2. [hist EXCEPT !.next = hist.next + n].next = hist.next + n
    BY StateFacts, Zenon DEF History
  <2>3. [hist EXCEPT !.next = hist.next + n].next \in Nat
    BY <2>2, StateFacts, SMT
  <2>4. GoodHistory(hist') /\ hist'.cur = hist.cur /\ hist'.next \in Nat /\ hist.next =< hist'.next
    BY <2>1, <2>3, StateFacts, RestoreCheckpointGood
  <2>5. sess.saved < hist'.next /\ sess.textId < hist'.next
    BY <2>4, StateFacts, SMT
  <2> QED
    BY <1>1, <2>4, <2>5, StateFacts DEF StateOK
<1> QED
  BY <1>2, <1>3 DEF InstallFails

(* One reset and a session established on its identity.                    *)
LEMMA InstalledOK ==
  ASSUME StateOK, ~Active,
         NEW text \in Texts, NEW savedId \in Nat, savedId =< hist.next,
         NEW prof \in Profiles, NEW savedProf \in Profiles,
         NEW base \in Texts, NEW baseProf \in Profiles,
         buffer' = text, hist' = Reset(hist),
         sess' = Established(text, hist'.cur, savedId, prof, savedProf),
         accepted' = [text |-> base, prof |-> baseProf], raised' = FALSE
  PROVE  StateOK'
<1>1. GoodHistory(hist') /\ hist'.cur = hist.next /\ hist'.next = hist.next + 1
  BY StateFacts, ResetGood DEF Active
<1>2. hist'.cur \in Nat
  BY <1>1, StateFacts
<1>3. sess' \in Session /\ sess'.cur = hist'.cur /\ sess'.saved = savedId /\ sess'.textId = hist'.cur
  BY <1>2, EstablishedType
<1>4. sess'.saved < hist'.next /\ sess'.textId < hist'.next
  BY <1>1, <1>3, StateFacts, SMT
<1> QED
  BY <1>1, <1>3, <1>4 DEF StateOK

LEMMA InitializeNewOK ==
  ASSUME StateOK, InitializeNew
  PROVE  StateOK'
<1>1. CASE InstallFails(1)
  BY <1>1, InstallFailsOK, SMT
<1>2. CASE ~InstallFails(1)
  <2>1. <<>> \in Texts
    BY SMT DEF Texts
  <2>2. hist'.cur \in Nat /\ hist'.cur =< hist.next
    <3>1. ~Active /\ hist' = Reset(hist)
      BY <1>2 DEF InitializeNew
    <3>2. hist'.cur = hist.next
      BY <3>1, StateFacts, ResetGood DEF Active
    <3> QED
      BY <3>2, StateFacts, SMT
  <2> QED
    BY <1>2, <2>1, <2>2, DefaultProfileType, InstalledOK DEF InitializeNew
<1> QED
  BY <1>1, <1>2

LEMMA InitializeOpenOK ==
  ASSUME StateOK, NEW text \in Texts, NEW prof \in Profiles, InitializeOpen(text, prof)
  PROVE  StateOK'
<1>1. CASE InstallFails(1)
  BY <1>1, InstallFailsOK, SMT
<1>2. CASE ~InstallFails(1)
  <2>1. hist'.cur \in Nat /\ hist'.cur =< hist.next
    <3>1. ~Active /\ hist' = Reset(hist)
      BY <1>2 DEF InitializeOpen
    <3>2. hist'.cur = hist.next
      BY <3>1, StateFacts, ResetGood DEF Active
    <3> QED
      BY <3>2, StateFacts, SMT
  <2> QED
    BY <1>2, <2>1, InstalledOK DEF InitializeOpen
<1> QED
  BY <1>1, <1>2

LEMMA InitializeRecoveredUnboundOK ==
  ASSUME StateOK, NEW text \in Texts, NEW prof \in Profiles,
         InitializeRecoveredUnbound(text, prof)
  PROVE  StateOK'
<1>1. CASE InstallFails(1)
  BY <1>1, InstallFailsOK, SMT
<1>2. CASE ~InstallFails(1)
  <2>1. NoId \in Nat /\ NoId =< hist.next /\ <<>> \in Texts
    BY StateFacts, SMT DEF NoId, Texts
  <2> QED
    BY <1>2, <2>1, DefaultProfileType, InstalledOK DEF InitializeRecoveredUnbound
<1> QED
  BY <1>1, <1>2

LEMMA InitializeRecoveredNamedOK ==
  ASSUME StateOK, NEW base \in Texts, NEW baseProf \in Profiles,
         NEW text \in Texts, NEW prof \in Profiles,
         InitializeRecoveredNamed(base, baseProf, text, prof)
  PROVE  StateOK'
<1>1. CASE InstallFails(2)
  BY <1>1, InstallFailsOK, SMT
<1>2. CASE ~InstallFails(2)
  <2>1. /\ ~Active /\ buffer' = text /\ hist' = Reset(Reset(hist))
        /\ sess' = Established(text, hist'.cur, Reset(hist).cur, prof, baseProf)
        /\ accepted' = [text |-> base, prof |-> baseProf] /\ raised' = FALSE
    BY <1>2 DEF InitializeRecoveredNamed
  <2>2. /\ GoodHistory(Reset(hist)) /\ ~GroupActive(Reset(hist))
        /\ Reset(hist).cur = hist.next /\ Reset(hist).next = hist.next + 1
    BY <2>1, StateFacts, ResetGood DEF Active
  <2>3. GoodHistory(hist') /\ hist'.cur = Reset(hist).next /\ hist'.next = Reset(hist).next + 1
    BY <2>1, <2>2, ResetGood
  <2>4. /\ hist'.cur \in Nat /\ Reset(hist).cur \in Nat
        /\ Reset(hist).cur < hist'.next /\ hist'.cur < hist'.next
    BY <2>2, <2>3, StateFacts, SMT
  <2>5. /\ sess' \in Session /\ sess'.cur = hist'.cur
        /\ sess'.saved = Reset(hist).cur /\ sess'.textId = hist'.cur
    BY <2>1, <2>4, EstablishedType
  <2> QED
    BY <2>1, <2>3, <2>4, <2>5 DEF StateOK
<1> QED
  BY <1>1, <1>2

(* A history that moves on, and a session that follows it.                 *)
LEMMA FollowedOK ==
  ASSUME StateOK, buffer' \in Texts, GoodHistory(hist'), hist.next =< hist'.next,
         sess' = AdvanceEditorState(sess, hist'.cur),
         raised' \in BOOLEAN, accepted' = accepted
  PROVE  StateOK'
<1>1. hist' \in History /\ hist'.cur \in Nat /\ hist'.next \in Nat
  BY HistoryFields DEF GoodHistory
<1>2. /\ sess' \in Session /\ sess'.cur = hist'.cur
      /\ sess'.saved = sess.saved /\ sess'.textId = sess.textId
  BY <1>1, StateFacts, AdvanceEditorStateType
<1>3. sess'.saved < hist'.next /\ sess'.textId < hist'.next
  BY <1>1, <1>2, StateFacts, SMT
<1> QED
  BY <1>2, <1>3, StateFacts DEF StateOK

(* A history that goes back to its checkpoint under a session left alone.  *)
LEMMA RestoredOK ==
  ASSUME StateOK, buffer' \in Texts, NEW h, h.next \in Nat,
         hist' = RestoreCheckpoint(h, hist),
         sess' = sess, raised' \in BOOLEAN, accepted' = accepted
  PROVE  StateOK'
<1>1. GoodHistory(hist') /\ hist'.cur = hist.cur /\ hist'.next \in Nat /\ hist.next =< hist'.next
  BY StateFacts, RestoreCheckpointGood
<1>2. sess.saved < hist'.next /\ sess.textId < hist'.next
  BY <1>1, StateFacts, SMT
<1> QED
  BY <1>1, <1>2, StateFacts DEF StateOK

LEMMA BeginUserActionOK ==
  ASSUME StateOK, BeginUserAction
  PROVE  StateOK'
<1>1. GoodHistory(hist') /\ hist'.cur = hist.cur /\ hist'.next = hist.next
  BY StateFacts, BeginGroupGood DEF BeginUserAction
<1> QED
  BY <1>1, StateFacts DEF BeginUserAction, StateOK

(* A recorded change, in the open group or in one of its own.              *)
LEMMA RecordInGroupOK ==
  ASSUME StateOK, NEW delta \in Delta, CanRecord, RecordInGroup(delta),
         buffer' \in Texts, raised' \in BOOLEAN, accepted' = accepted
  PROVE  StateOK'
<1>1. CASE Active
  <2>1. hist' = Record(hist, delta) /\ sess' = sess
    BY <1>1 DEF RecordInGroup
  <2>2. GoodHistory(hist') /\ hist'.cur = hist.cur /\ hist'.next = hist.next
    BY <2>1, StateFacts, RecordGood
  <2> QED
    BY <2>1, <2>2, StateFacts DEF StateOK
<1>2. CASE ~Active
  <2> DEFINE h == Record(BeginGroup(hist), delta)
  <2>1. hist' = EndGroup(h, sess.saved) /\ sess' = AdvanceEditorState(sess, hist'.cur)
    BY <1>2 DEF RecordInGroup
  <2>2. GoodHistory(BeginGroup(hist)) /\ BeginGroup(hist).next = hist.next
        /\ BeginGroup(hist).pendBefore = hist.cur
    BY StateFacts, BeginGroupGood
  <2>3. GoodHistory(h) /\ h.next = hist.next /\ h.pendBefore = hist.cur
    BY <2>2, RecordGood
  <2>4. GroupActive(h)
    BY <2>3 DEF GroupActive, CanRecord
  <2> HIDE DEF h
  <2>5. GoodHistory(hist') /\ hist'.next \in {h.next, h.next + 1}
    BY <2>1, <2>3, <2>4, EndGroupGood
  <2>6. hist.next =< hist'.next
    BY <2>3, <2>5, StateFacts, SMT
  <2> QED
    BY <2>1, <2>5, <2>6, FollowedOK
<1> QED
  BY <1>1, <1>2

LEMMA InsertTextOK ==
  ASSUME StateOK, NEW offset \in Nat, NEW text \in Texts, InsertText(offset, text)
  PROVE  StateOK'
<1>1. Insertion(offset, text) \in ReplayOperation
  BY DEF Insertion, ReplayOperation
<1>2. buffer' \in Texts
  BY <1>1, StateFacts, ApplyOperationType DEF InsertText
<1>3. [kind |-> "insert", at |-> offset, text |-> text, dir |-> "range"] \in Delta
  BY DEF Delta, Directions
<1> QED
  BY <1>2, <1>3, RecordInGroupOK DEF InsertText

LEMMA DeleteRangeOK ==
  ASSUME StateOK, NEW offset \in Nat, NEW n \in Nat, NEW dir \in Directions,
         DeleteRange(offset, n, dir)
  PROVE  StateOK'
<1> DEFINE gone == TextInRange(buffer, offset, offset + n)
<1>1. offset + n \in Nat /\ offset =< offset + n
  BY SMT
<1>2. gone \in Texts
  BY <1>1, StateFacts, TextInRangeType
<1>3. /\ CanRecord /\ buffer' = ApplyOperation(buffer, Deletion(offset, gone))
      /\ RecordInGroup([kind |-> "delete", at |-> offset, text |-> gone, dir |-> dir])
      /\ raised' = FALSE /\ accepted' = accepted
  BY DEF DeleteRange
<1> HIDE DEF gone
<1>4. Deletion(offset, gone) \in ReplayOperation
  BY <1>2 DEF Deletion, ReplayOperation
<1>5. buffer' \in Texts
  BY <1>3, <1>4, StateFacts, ApplyOperationType
<1>6. [kind |-> "delete", at |-> offset, text |-> gone, dir |-> dir] \in Delta
  BY <1>2 DEF Delta
<1> QED
  BY <1>3, <1>5, <1>6, RecordInGroupOK

LEMMA EndUserActionOK ==
  ASSUME StateOK, EndUserAction
  PROVE  StateOK'
<1>1. GroupActive(hist) /\ hist' = EndGroup(hist, sess.saved)
  BY DEF EndUserAction, Active
<1>2. GoodHistory(hist') /\ hist'.next \in {hist.next, hist.next + 1}
  BY <1>1, StateFacts, EndGroupGood
<1>3. hist.next =< hist'.next
  BY <1>2, StateFacts, SMT
<1> QED
  BY <1>2, <1>3, StateFacts, FollowedOK DEF EndUserAction

-----------------------------------------------------------------------------
(* Replay: undo, redo, and programmatic groups.                            *)

LEMMA RolledBackType ==
  ASSUME NEW t \in Texts, NEW ops \in Seq(ReplayOperation), NEW k \in 0 .. Len(ops)
  PROVE  RolledBack(t, ops, k) \in Texts
<1>1. SubSeq(ops, 1, k) \in Seq(ReplayOperation)
  BY SMT
<1>2. Inverses(SubSeq(ops, 1, k)) \in Seq(ReplayOperation)
  BY <1>1, InversesType
<1> QED
  BY <1>2, AfterFirstType, ApplyOperationsType DEF RolledBack

LEMMA InterruptedType ==
  ASSUME NEW t \in Texts, NEW ops \in Seq(ReplayOperation), NEW k \in 0 .. Len(ops) - 1
  PROVE  RolledBack(t, ops, k) \in Texts
<1>1. k \in 0 .. Len(ops)
  BY SMT
<1> QED
  BY <1>1, RolledBackType

LEMMA ReplayOK ==
  ASSUME StateOK, NEW moved, GoodHistory(moved), moved.next = hist.next,
         NEW ops \in Seq(ReplayOperation), Replay(moved, ops, moved.cur)
  PROVE  StateOK'
<1>1. ApplyOperations(buffer, ops) \in Texts
  BY StateFacts, ApplyOperationsType
<1>2. moved.next \in Nat /\ hist.next =< moved.next
  BY StateFacts, SMT
<1>3. CASE hist' = moved /\ buffer' = ApplyOperations(buffer, ops)
           /\ sess' = AdvanceEditorState(sess, moved.cur) /\ raised' = FALSE
           /\ accepted' = accepted
  BY <1>1, <1>2, <1>3, FollowedOK
<1>4. CASE /\ buffer' \in AfterFailedReplay(ops)
           /\ hist' = RestoreCheckpoint(moved, hist) /\ raised' = TRUE
           /\ sess' = sess /\ accepted' = accepted
  <2>1. \A k \in 0 .. Len(ops) - 1 : RolledBack(buffer, ops, k) \in Texts
    BY StateFacts, InterruptedType
  <2>2. buffer' \in Texts
    BY <1>1, <1>4, <2>1, Zenon DEF AfterFailedReplay
  <2> QED
    BY <1>2, <1>4, <2>2, RestoredOK
<1> QED
  BY <1>3, <1>4, Zenon DEF Replay

LEMMA UndoOK ==
  ASSUME StateOK, Undo
  PROVE  StateOK'
<1> DEFINE g == Last(hist.undo)
<1>1. /\ GoodHistory(UndoStep(hist)) /\ UndoStep(hist).cur = g.before
      /\ UndoStep(hist).next = hist.next /\ g \in Group
  BY StateFacts, UndoStepGood DEF Undo, Active
<1>2. Replay(UndoStep(hist), UndoOperations(g), g.before)
  BY DEF Undo
<1> QED
  BY <1>1, <1>2, ReplayOperationsType, ReplayOK

LEMMA RedoOK ==
  ASSUME StateOK, Redo
  PROVE  StateOK'
<1> DEFINE g == Last(hist.redo)
<1>1. /\ GoodHistory(RedoStep(hist)) /\ RedoStep(hist).cur = g.after
      /\ RedoStep(hist).next = hist.next /\ g \in Group
  BY StateFacts, RedoStepGood DEF Redo, Active
<1>2. Replay(RedoStep(hist), RedoOperations(g), g.after)
  BY DEF Redo
<1> QED
  BY <1>1, <1>2, ReplayOperationsType, ReplayOK

LEMMA GroupOfGood ==
  ASSUME StateOK, NEW ops \in Seq(ReplayOperation)
  PROVE  GoodHistory(GroupOf(ops)) /\ GroupOf(ops).next = hist.next
         /\ GroupOf(ops).pendBefore = hist.cur
<1> DEFINE deltas == [i \in DOMAIN ops |-> AsRangeDelta(ops[i])]
<1>1. \A op \in ReplayOperation : AsRangeDelta(op) \in Delta
  BY DEF AsRangeDelta, ReplayOperation, Delta, Directions
<1>2. deltas \in Seq(Delta)
  BY <1>1, SMT
<1>3. /\ GoodHistory(BeginGroup(hist)) /\ BeginGroup(hist).next = hist.next
      /\ BeginGroup(hist).pendBefore = hist.cur
  BY StateFacts, BeginGroupGood
<1>4. GroupOf(ops) = [BeginGroup(hist) EXCEPT !.pend = deltas]
  BY DEF GroupOf
<1> HIDE DEF deltas
<1> QED
  BY <1>2, <1>3, <1>4, PendingDeltasGood

LEMMA ApplyProgrammaticGroupOK ==
  ASSUME StateOK, NEW ops \in Seq(ReplayOperation), NEW expected,
         ApplyProgrammaticGroup(ops, expected)
  PROVE  StateOK'
<1> DEFINE ended == EndGroup(GroupOf(ops), sess.saved)
<1>1. CASE ~PlanAccepted(ops, expected)
  <2>1. raised' = TRUE /\ UNCHANGED <<buffer, hist, sess, accepted>>
    BY <1>1 DEF ApplyProgrammaticGroup
  <2> QED
    BY <2>1, StateFacts DEF StateOK
<1>2. CASE PlanAccepted(ops, expected)
  <2>1. GoodHistory(GroupOf(ops)) /\ GroupOf(ops).next = hist.next /\ GroupActive(GroupOf(ops))
    BY <1>2, GroupOfGood DEF PlanAccepted, GroupActive
  <2>2. GoodHistory(ended) /\ ended.next \in {hist.next, hist.next + 1}
    BY <2>1, EndGroupGood
  <2>3. ended.next \in Nat /\ hist.next =< ended.next /\ GroupOf(ops).next \in Nat
    BY <2>1, <2>2, StateFacts, SMT
  <2>4. ApplyOperations(buffer, ops) \in Texts
    BY StateFacts, ApplyOperationsType
  <2>5. CASE /\ buffer' = ApplyOperations(buffer, ops) /\ hist' = ended
             /\ sess' = AdvanceEditorState(sess, ended.cur) /\ raised' = FALSE
             /\ accepted' = accepted
    BY <2>2, <2>3, <2>4, <2>5, FollowedOK
  <2>6. CASE /\ \E k \in 0 .. Len(ops) - 1 : buffer' = RolledBack(buffer, ops, k)
             /\ hist' = RestoreCheckpoint(GroupOf(ops), hist) /\ raised' = TRUE
             /\ sess' = sess /\ accepted' = accepted
    <3>1. buffer' \in Texts
      BY <2>6, StateFacts, InterruptedType
    <3> QED
      BY <2>3, <2>6, <3>1, RestoredOK
  <2>7. CASE /\ buffer' = RolledBack(buffer, ops, Len(ops))
             /\ hist' = RestoreCheckpoint(ended, hist) /\ raised' = TRUE
             /\ sess' = sess /\ accepted' = accepted
    <3>1. Len(ops) \in 0 .. Len(ops)
      BY SMT
    <3>2. buffer' \in Texts
      BY <2>7, <3>1, StateFacts, RolledBackType
    <3> QED
      BY <2>3, <2>7, <3>2, RestoredOK
  <2> HIDE DEF ended
  <2> QED
    BY <1>2, <2>5, <2>6, <2>7, Zenon DEF ApplyProgrammaticGroup, ended
<1> QED
  BY <1>1, <1>2

-----------------------------------------------------------------------------
(* Representation choices and Save leave the buffer and the history alone. *)

LEMMA SelectOK ==
  ASSUME StateOK, NEW p \in Profiles, sess' = [sess EXCEPT !.prof = p],
         raised' \in BOOLEAN, UNCHANGED <<buffer, hist, accepted>>
  PROVE  StateOK'
<1>1. /\ sess' \in Session /\ sess'.cur = sess.cur
      /\ sess'.saved = sess.saved /\ sess'.textId = sess.textId
  BY StateFacts, Zenon DEF Session
<1> QED
  BY <1>1, StateFacts DEF StateOK

LEMMA SaveNotCommittedOK ==
  ASSUME StateOK, SaveNotCommitted
  PROVE  StateOK'
<1>1. /\ sess' \in Session /\ sess'.cur = sess.cur
      /\ sess'.saved = sess.saved /\ sess'.textId = sess.cur
  BY StateFacts, SynchronizeType DEF SaveNotCommitted
<1> QED
  BY <1>1, StateFacts DEF StateOK, SaveNotCommitted

LEMMA SaveCommittedOK ==
  ASSUME StateOK, NEW available \in BOOLEAN, SaveCommitted(available)
  PROVE  StateOK'
<1> DEFINE synced == SynchronizeCurrentText(sess, buffer)
           onDisk == ProfileAfterWrite(synced.text, synced.prof)
           prof == IF available THEN onDisk ELSE synced.prof
<1>1. /\ sess' = AcceptCommittedSave(synced, synced.cur, synced.prof, prof)
      /\ accepted' = [text |-> synced.text, prof |-> onDisk]
      /\ raised' = FALSE /\ buffer' = buffer /\ hist' = hist
  BY DEF SaveCommitted
<1>2. /\ synced \in Session /\ synced.cur = hist.cur /\ synced.textId = hist.cur
  BY StateFacts, SynchronizeType
<1> HIDE DEF synced
<1>3. synced.text \in Texts /\ synced.prof \in Profiles /\ synced.cur \in Nat
  BY <1>2, SessionFields
<1>4. onDisk \in Profiles /\ prof \in Profiles
  BY <1>3, ProfileTypes
<1> HIDE DEF prof, onDisk
<1>5. /\ sess' \in Session /\ sess'.cur = hist.cur
      /\ sess'.saved = hist.cur /\ sess'.textId = hist.cur
  BY <1>1, <1>2, <1>3, <1>4, AcceptType
<1> QED
  BY <1>1, <1>3, <1>4, <1>5, StateFacts DEF StateOK

-----------------------------------------------------------------------------
(* The steps together.                                                     *)

LEMMA OffsetsAndSpans ==
  ASSUME StateOK
  PROVE  /\ Offsets \subseteq Nat
         /\ \A s \in Spans : s[1] \in Nat /\ s[2] \in Nat
  BY StateFacts, SMT DEF Offsets, Spans, Texts

LEMMA PlansType ==
  ASSUME StateOK
  PROVE  Plans \subseteq Seq(ReplayOperation)
<1>1. ASSUME NEW o \in Nat, NEW text \in Texts
      PROVE  Insertion(o, text) \in ReplayOperation
  BY DEF Insertion, ReplayOperation
<1>2. ASSUME NEW s \in Spans
      PROVE  Deletion(s[1], TextInRange(buffer, s[1], s[1] + s[2])) \in ReplayOperation
  <2>1. s[1] \in Nat /\ s[1] + s[2] \in Nat /\ s[1] =< s[1] + s[2]
    BY OffsetsAndSpans, SMT
  <2>2. TextInRange(buffer, s[1], s[1] + s[2]) \in Texts
    BY <2>1, StateFacts, TextInRangeType
  <2> QED
    BY <2>1, <2>2 DEF Deletion, ReplayOperation
<1>3. \A a, b \in ReplayOperation :
        <<a>> \in Seq(ReplayOperation) /\ <<a, b>> \in Seq(ReplayOperation)
  BY SMT
<1>4. \A text \in Typing : text \in Texts
  BY InputsAreTexts
<1>5. ASSUME NEW o \in Offsets, NEW text \in Typing
      PROVE  <<Insertion(o, text)>> \in Seq(ReplayOperation)
  BY <1>1, <1>3, <1>4, OffsetsAndSpans, Zenon
<1>6. ASSUME NEW s \in Spans, NEW text \in Typing
      PROVE  <<Deletion(s[1], TextInRange(buffer, s[1], s[1] + s[2])), Insertion(s[1], text)>>
               \in Seq(ReplayOperation)
  <2>1. Insertion(s[1], text) \in ReplayOperation
    BY <1>1, <1>4, OffsetsAndSpans, Zenon
  <2> QED
    BY <1>2, <1>3, <2>1, Zenon
<1>7. ASSUME NEW ops \in Plans
      PROVE  ops \in Seq(ReplayOperation)
  <2>1. CASE \E o \in Offsets, text \in Typing : ops = <<Insertion(o, text)>>
    BY <1>5, <2>1, Zenon
  <2>2. CASE \E s \in Spans, text \in Typing :
               ops = <<Deletion(s[1], TextInRange(buffer, s[1], s[1] + s[2])), Insertion(s[1], text)>>
    BY <1>6, <2>2, Zenon
  <2>3. Plans = {<<Insertion(o, text)>> : o \in Offsets, text \in Typing}
          \cup {<<Deletion(s[1], TextInRange(buffer, s[1], s[1] + s[2])), Insertion(s[1], text)>> :
                   s \in Spans, text \in Typing}
    BY DEF Plans
  <2> QED
    BY <2>1, <2>2, <2>3
<1> QED
  BY <1>7

LEMMA ReplacementOK ==
  ASSUME StateOK, Replacement
  PROVE  StateOK'
<1>1. Documents \subseteq Texts
  BY InputsAreTexts
<1>2. \A text : LoadedProfiles(text) \subseteq Profiles
  BY DEF LoadedProfiles
<1> QED
  BY <1>1, <1>2, InitializeNewOK, InitializeOpenOK, InitializeRecoveredNamedOK,
     InitializeRecoveredUnboundOK DEF Replacement

LEMMA EditingOK ==
  ASSUME StateOK, Editing
  PROVE  StateOK'
<1>1. Typing \subseteq Texts
  BY InputsAreTexts
<1> QED
  BY <1>1, OffsetsAndSpans, PlansType, BeginUserActionOK, InsertTextOK, DeleteRangeOK,
     EndUserActionOK, UndoOK, RedoOK, ApplyProgrammaticGroupOK DEF Editing

LEMMA SavingOK ==
  ASSUME StateOK, Saving
  PROVE  StateOK'
<1>1. sess.prof \in Profiles
  BY StateFacts, SessionFields
<1>2. ASSUME NEW enc \in Encodings, SelectEncoding(enc)
      PROVE  StateOK'
  BY <1>1, <1>2, ProfileTypes, SelectOK DEF SelectEncoding
<1>3. ASSUME NEW eol \in Eols, SelectLineEnding(eol)
      PROVE  StateOK'
  BY <1>1, <1>3, ProfileTypes, SelectOK DEF SelectLineEnding
<1> QED
  BY <1>2, <1>3, SaveNotCommittedOK, SaveCommittedOK DEF Saving

(* The observer: an identity that can still be met is a natural, and gets  *)
(* the text of the buffer, of the accepted file, or the one it had.        *)
LEMMA ObserveOK ==
  ASSUME ContentOK, StateOK', Observe
  PROVE  ContentOK'
<1>1. /\ hist'.undo \in Seq(Group) /\ hist'.redo \in Seq(Group) /\ hist'.cur \in Nat
      /\ sess'.saved \in Nat /\ buffer' \in Texts /\ accepted'.text \in Texts
  BY HistoryFields, SessionFields DEF StateOK, GoodHistory
<1>2. ASSUME NEW stack \in Seq(Group), NEW i \in DOMAIN stack
      PROVE  stack[i].before \in Nat /\ stack[i].after \in Nat
  <2>1. stack[i] \in Group
    BY SMT
  <2> QED
    BY <2>1 DEF Group
<1>3. Live' \subseteq Nat
  BY <1>1, <1>2, Zenon DEF Live, Reach, UndoReach
<1>4. content' = [i \in Live' |->
                    IF i = hist'.cur /\ ~GroupActive(hist') THEN buffer'
                    ELSE IF i \in DOMAIN content THEN content[i]
                    ELSE accepted'.text]
  BY DEF Observe
<1>5. ASSUME NEW i \in Live'
      PROVE  content'[i] \in Texts
  <2>1. \/ content'[i] \in {buffer', accepted'.text}
        \/ i \in DOMAIN content /\ content'[i] = content[i]
    BY <1>4
  <2> QED
    BY <1>1, <2>1 DEF ContentOK
<1> QED
  BY <1>3, <1>4, <1>5 DEF ContentOK

LEMMA InitOK ==
  ASSUME Init
  PROVE  IInv
<1>1. /\ <<>> \in Texts /\ <<>> \in Seq(Group) /\ <<>> \in Seq(Delta)
      /\ Len(<<>>) = 0 /\ NoId \in Nat /\ NoId < 1 /\ 1 \in Nat
  BY SMT DEF Texts, NoId
<1>2. hist = [undo |-> <<>>, redo |-> <<>>, cur |-> NoId, next |-> 1,
              pend |-> <<>>, pendBefore |-> NoId]
  BY DEF Init, EmptyHistory
<1>3. hist \in History
  BY <1>1, <1>2 DEF History
<1>4. UndoPath(hist.undo, hist.cur, hist.next) /\ RedoPath(hist.redo, hist.cur, hist.next)
  BY <1>1, <1>2, SMT DEF UndoPath, RedoPath
<1>5. GoodHistory(hist)
  BY <1>1, <1>2, <1>3, <1>4, GoodHistoryIsPaths DEF GroupActive
<1>6. /\ sess \in Session /\ sess.cur = NoId /\ sess.saved = NoId /\ sess.textId = NoId
  BY <1>1, DefaultProfileType, EstablishedType DEF Init
<1>7. StateOK
  <2>1. buffer \in Texts /\ raised \in BOOLEAN /\ hist.cur = NoId /\ hist.next = 1
    BY <1>1, <1>2 DEF Init
  <2>2. accepted \in [text : Texts, prof : Profiles]
    BY <1>1, DefaultProfileType DEF Init
  <2> QED
    BY <1>1, <1>5, <1>6, <2>1, <2>2, Zenon DEF StateOK
<1>8. ContentOK
  BY <1>1 DEF Init, ContentOK
<1> QED
  BY <1>7, <1>8 DEF IInv

LEMMA NextOK ==
  ASSUME IInv, [Next]_vars
  PROVE  IInv'
<1>1. CASE Next
  <2>1. StateOK'
    BY <1>1, ReplacementOK, EditingOK, SavingOK DEF IInv, Next
  <2> QED
    BY <1>1, <2>1, ObserveOK DEF IInv, Next
<1>2. CASE UNCHANGED vars
  BY <1>2 DEF IInv, StateOK, ContentOK, vars
<1> QED
  BY <1>1, <1>2

LEMMA InvariantHolds == Spec => []IInv
<1>1. Init => IInv
  BY InitOK
<1>2. IInv /\ [Next]_vars => IInv'
  BY NextOK
<1> QED
  BY <1>1, <1>2, PTL DEF Spec

-----------------------------------------------------------------------------
(* Type correctness: whatever is opened, typed, replayed, rolled back or   *)
(* saved, the buffer and every text the session keeps are texts, and the   *)
(* journal and the session keep their shapes.                              *)
THEOREM TypeCorrect == Spec => []TypeOK
<1>1. IInv => TypeOK
  BY DEF IInv, StateOK, ContentOK, GoodHistory, TypeOK
<1> QED
  BY <1>1, InvariantHolds, PTL

(* The journal is one path of identities under every interleaving of       *)
(* edits, saves, replays and failures: the state-chain errors of undo()    *)
(* and redo() and the identity check of prepare_for_save() never fire.     *)
THEOREM HistoryIsOnePath == Spec => []HistoryChain
<1>1. IInv => HistoryChain
  BY DEF IInv, StateOK, GoodHistory, IdsHandedOut, HistoryChain
<1> QED
  BY <1>1, InvariantHolds, PTL

-----------------------------------------------------------------------------
(* Deltas that lead from one text to another.                              *)
Replayed(deltas) == [i \in DOMAIN deltas |-> AsOperation(deltas[i])]

(* An insertion is never recorded as a backward deletion is: coalescing    *)
(* takes the direction of a run from its first delta.                      *)
Leads(t, deltas, u) ==
  /\ Makes(t, Replayed(deltas), u)
  /\ \A i \in DOMAIN deltas : deltas[i].kind = "insert" => deltas[i].dir # "backward"

LEMMA AsOperationType ==
  ASSUME NEW d \in Delta
  PROVE  /\ AsOperation(d) \in ReplayOperation
         /\ d.at \in Nat /\ d.text \in Texts /\ d.dir \in Directions
         /\ d.kind = "insert" => AsOperation(d) = Insertion(d.at, d.text)
         /\ d.kind = "delete" => AsOperation(d) = Deletion(d.at, d.text)
         /\ d.kind \in {"insert", "delete"}
<1>1. d.kind \in {"insert", "delete"} /\ d.at \in Nat /\ d.text \in Texts /\ d.dir \in Directions
  BY DEF Delta
<1>2. AsOperation(d) \in ReplayOperation
  BY <1>1 DEF AsOperation, ReplayOperation
<1>3. d.kind = "insert" => AsOperation(d) = Insertion(d.at, d.text)
  BY Zenon DEF AsOperation, Insertion
<1>4. d.kind = "delete" => AsOperation(d) = Deletion(d.at, d.text)
  BY Zenon DEF AsOperation, Deletion
<1> QED
  BY <1>1, <1>2, <1>3, <1>4

LEMMA ReplayedType ==
  ASSUME NEW deltas \in Seq(Delta)
  PROVE  /\ Replayed(deltas) \in Seq(ReplayOperation)
         /\ Len(Replayed(deltas)) = Len(deltas)
         /\ \A i \in 1 .. Len(deltas) : Replayed(deltas)[i] = AsOperation(deltas[i])
<1>1. \A d \in Delta : AsOperation(d) \in ReplayOperation
  BY AsOperationType
<1> QED
  BY <1>1, SMT DEF Replayed

LEMMA NothingLeads ==
  ASSUME NEW t, NEW u
  PROVE  Leads(t, <<>>, u) <=> u = t
<1>1. Replayed(<<>>) = <<>> /\ DOMAIN <<>> = {}
  BY SMT DEF Replayed
<1>2. Makes(t, <<>>, t)
  BY NothingMakes
<1>3. Makes(t, <<>>, u) => u = t
  BY <1>2 DEF Makes
<1> QED
  BY <1>1, <1>2, <1>3 DEF Leads

(* The deltas recorded one by one.                                         *)
LEMMA OneMoreLeads ==
  ASSUME NEW t, NEW deltas \in Seq(Delta), NEW u, Leads(t, deltas, u),
         NEW d \in Delta, d.kind = "insert" => d.dir # "backward",
         NEW v, Step(u, AsOperation(d), v)
  PROVE  Leads(t, Append(deltas, d), v)
<1> DEFINE more == Append(deltas, d)
           a == Append(Replayed(deltas), AsOperation(d))
<1>1. /\ more \in Seq(Delta) /\ Len(more) = Len(deltas) + 1 /\ Len(deltas) \in Nat
      /\ more[Len(deltas) + 1] = d /\ \A i \in 1 .. Len(deltas) : more[i] = deltas[i]
  BY Appended
<1>2. /\ Replayed(deltas) \in Seq(ReplayOperation) /\ Len(Replayed(deltas)) = Len(deltas)
      /\ \A i \in 1 .. Len(deltas) : Replayed(deltas)[i] = AsOperation(deltas[i])
  BY ReplayedType
<1>3. AsOperation(d) \in ReplayOperation
  BY AsOperationType
<1>4. /\ a \in Seq(ReplayOperation) /\ Len(a) = Len(deltas) + 1
      /\ a[Len(deltas) + 1] = AsOperation(d)
      /\ \A i \in 1 .. Len(deltas) : a[i] = Replayed(deltas)[i]
  BY <1>2, <1>3, Appended
<1>5. Makes(t, a, ApplyOperation(u, AsOperation(d)))
  BY <1>2, <1>3, OneMoreMakes DEF Leads, Step
<1> HIDE DEF more, a
<1>6. /\ Replayed(more) \in Seq(ReplayOperation) /\ Len(Replayed(more)) = Len(more)
      /\ \A i \in 1 .. Len(more) : Replayed(more)[i] = AsOperation(more[i])
  BY <1>1, ReplayedType
<1>7. \A i \in 1 .. Len(deltas) + 1 : i \in 1 .. Len(deltas) \/ i = Len(deltas) + 1
  BY <1>1, SMT
<1>8. \A i \in 1 .. Len(a) : Replayed(more)[i] = a[i]
  BY <1>1, <1>2, <1>4, <1>6, <1>7
<1>9. Replayed(more) = a
  BY <1>1, <1>4, <1>6, <1>8, SeqEqual
<1>10. \A i \in DOMAIN more : more[i].kind = "insert" => more[i].dir # "backward"
  <2>1. DOMAIN more = 1 .. Len(deltas) + 1 /\ DOMAIN deltas = 1 .. Len(deltas)
    BY <1>1, SMT
  <2> QED
    BY <1>1, <1>7, <2>1 DEF Leads
<1> QED
  BY <1>5, <1>9, <1>10 DEF Leads, Step, more

LEMMA OneLeads ==
  ASSUME NEW t, NEW d \in Delta, NEW u
  PROVE  Leads(t, <<d>>, u) <=>
           /\ Step(t, AsOperation(d), u)
           /\ d.kind = "insert" => d.dir # "backward"
<1>1. Replayed(<<d>>) = <<AsOperation(d)>> /\ DOMAIN <<d>> = {1} /\ <<d>>[1] = d
  BY SMT DEF Replayed
<1> QED
  BY <1>1, SingleMakes DEF Leads

(* Two adjacent runs coalesce to one that leads all the way.               *)
LEMMA JoinedLeads ==
  ASSUME NEW t \in Texts, NEW a \in Delta, NEW u, Step(t, AsOperation(a), u),
         a.kind = "insert" => a.dir # "backward",
         NEW b \in Delta, NEW v, Step(u, AsOperation(b), v),
         b.kind = "insert" => b.dir # "backward",
         a.kind = b.kind, Adjacent(a, b)
  PROVE  Leads(t, <<JoinedDelta(a, b)>>, v)
<1> DEFINE d == JoinedDelta(a, b)
<1>1. d \in Delta
  BY JoinedDeltaType
<1>2. a.at \in Nat /\ a.text \in Texts /\ b.at \in Nat /\ b.text \in Texts
  BY AsOperationType
<1>3. CASE a.kind = "insert"
  <2>1. /\ AsOperation(a) = Insertion(a.at, a.text) /\ AsOperation(b) = Insertion(b.at, b.text)
        /\ b.at = a.at + Len(a.text) /\ a.dir # "backward"
    BY <1>3, AsOperationType DEF Adjacent
  <2>2. Step(t, Insertion(a.at, a.text \o b.text), v)
    BY <1>2, <2>1, InsertionsJoin
  <2>3. d = [kind |-> "insert", at |-> a.at, text |-> a.text \o b.text, dir |-> a.dir]
    BY <1>3, <2>1 DEF JoinedDelta
  <2>4. AsOperation(d) = Insertion(a.at, a.text \o b.text) /\ d.dir # "backward"
    BY <2>1, <2>3 DEF AsOperation, Insertion
  <2> HIDE DEF d
  <2>5. Leads(t, <<d>>, v)
    BY <1>1, <2>2, <2>4, OneLeads
  <2> QED
    BY <2>5 DEF d
<1>4. CASE a.kind = "delete" /\ a.dir = "backward" /\ b.at + Len(b.text) = a.at
  <2>1. AsOperation(a) = Deletion(a.at, a.text) /\ AsOperation(b) = Deletion(b.at, b.text)
    BY <1>4, AsOperationType
  <2>2. Step(t, Deletion(b.at, b.text \o a.text), v)
    BY <1>2, <1>4, <2>1, DeletionsJoin
  <2>3. d = [kind |-> "delete", at |-> b.at, text |-> b.text \o a.text, dir |-> b.dir]
    BY <1>4 DEF JoinedDelta
  <2>4. AsOperation(d) = Deletion(b.at, b.text \o a.text) /\ d.kind # "insert"
    BY <2>3 DEF AsOperation, Deletion
  <2> HIDE DEF d
  <2>5. Leads(t, <<d>>, v)
    BY <1>1, <2>2, <2>4, OneLeads
  <2> QED
    BY <2>5 DEF d
<1>5. CASE a.kind = "delete" /\ a.dir = "forward" /\ b.at = a.at
  <2>1. AsOperation(a) = Deletion(a.at, a.text) /\ AsOperation(b) = Deletion(b.at, b.text)
    BY <1>5, AsOperationType
  <2>2. Step(t, Deletion(a.at, a.text \o b.text), v)
    BY <1>2, <1>5, <2>1, DeletionsJoin
  <2>3. d = [kind |-> "delete", at |-> a.at, text |-> a.text \o b.text, dir |-> a.dir]
    BY <1>5 DEF JoinedDelta
  <2>4. AsOperation(d) = Deletion(a.at, a.text \o b.text) /\ d.kind # "insert"
    BY <2>3 DEF AsOperation, Deletion
  <2> HIDE DEF d
  <2>5. Leads(t, <<d>>, v)
    BY <1>1, <2>2, <2>4, OneLeads
  <2> QED
    BY <2>5 DEF d
<1> QED
  BY <1>3, <1>4, <1>5 DEF Adjacent

LEMMA MergedLeads ==
  ASSUME NEW t \in Texts, NEW u, NEW v, NEW prev \in Group, NEW g \in Group,
         Leads(t, prev.deltas, u), Leads(u, g.deltas, v), SameRun(prev, g)
  PROVE  Leads(t, MergedGroup(prev, g).deltas, v)
<1> DEFINE a == prev.deltas[1]
           b == g.deltas[1]
<1>1. /\ prev.deltas \in Seq(Delta) /\ g.deltas \in Seq(Delta)
      /\ Len(prev.deltas) = 1 /\ Len(g.deltas) = 1
      /\ a.kind = b.kind /\ Adjacent(a, b)
  BY DEF Group, SameRun
<1>2. a \in Delta /\ b \in Delta /\ prev.deltas = <<a>> /\ g.deltas = <<b>>
  BY <1>1, SMT
<1>3. MergedGroup(prev, g).deltas = <<JoinedDelta(a, b)>>
  BY DEF MergedGroup
<1> HIDE DEF a, b
<1>4. Leads(t, <<a>>, u) /\ Leads(u, <<b>>, v)
  BY <1>2
<1>5. /\ Step(t, AsOperation(a), u) /\ (a.kind = "insert" => a.dir # "backward")
      /\ Step(u, AsOperation(b), v) /\ (b.kind = "insert" => b.dir # "backward")
  BY <1>2, <1>4, OneLeads
<1> QED
  BY <1>1, <1>2, <1>3, <1>5, JoinedLeads

(* A group that leads from t to u is ready for redo at t and undo at u.    *)
LEMMA GroupReplays ==
  ASSUME NEW t \in Texts, NEW g \in Group, NEW u, Leads(t, g.deltas, u)
  PROVE  Makes(t, RedoOperations(g), u) /\ Makes(u, UndoOperations(g), t) /\ u \in Texts
<1>1. g.deltas \in Seq(Delta)
  BY DEF Group
<1>2. RedoOperations(g) = Replayed(g.deltas)
  BY DEF RedoOperations, Replayed
<1>3. RedoOperations(g) \in Seq(ReplayOperation)
  BY ReplayOperationsType
<1>4. Makes(t, RedoOperations(g), u)
  BY <1>2 DEF Leads
<1> QED
  BY <1>3, <1>4, InversesTakeBack, MadeTextType DEF UndoOperations

-----------------------------------------------------------------------------
(* What the actions do, by kind.  The history goes back to where it was,   *)
(* but for the identities consumed.                                        *)
Restored == \E n \in Nat : hist.next =< n /\ hist' = [hist EXCEPT !.next = n]

Refused ==
  /\ Restored /\ buffer' = buffer
  /\ raised' = TRUE /\ UNCHANGED <<sess, accepted>>

ReplayFailed ==
  /\ ~Active /\ Restored
  /\ \/ hist.undo # <<>> /\ buffer' \in AfterFailedReplay(UndoOperations(Last(hist.undo)))
     \/ hist.redo # <<>> /\ buffer' \in AfterFailedReplay(RedoOperations(Last(hist.redo)))
  /\ raised' = TRUE /\ UNCHANGED <<sess, accepted>>

Recorded(delta) ==
  /\ Active
  /\ delta.kind = "insert" => delta.dir # "backward"
  /\ Step(buffer, AsOperation(delta), buffer')
  /\ hist' = Record(hist, delta)
  /\ raised' = FALSE /\ UNCHANGED <<sess, accepted>>

EditGroup(deltas) == [deltas |-> deltas, before |-> hist.cur, after |-> hist.next]

Edited(deltas) ==
  /\ deltas # <<>> /\ hist.cur # NoId
  /\ IF Active THEN deltas = hist.pend /\ buffer' = buffer ELSE Leads(buffer, deltas, buffer')
  /\ hist' = [undo |-> Trim(Pushed(hist.undo, EditGroup(deltas), sess.saved)), redo |-> <<>>,
              cur |-> hist.next, next |-> hist.next + 1, pend |-> <<>>, pendBefore |-> NoId]
  /\ sess' = AdvanceEditorState(sess, hist.next)
  /\ raised' = FALSE /\ UNCHANGED accepted

NothingEdited ==
  /\ Active /\ hist.pend = <<>>
  /\ hist' = AbortGroup(hist) /\ sess' = AdvanceEditorState(sess, hist.cur)
  /\ raised' = FALSE /\ UNCHANGED <<buffer, accepted>>

Undone ==
  LET g == Last(hist.undo)
  IN  /\ ~Active /\ hist.undo # <<>>
      /\ buffer' = ApplyOperations(buffer, UndoOperations(g))
      /\ hist' = UndoStep(hist) /\ sess' = AdvanceEditorState(sess, g.before)
      /\ raised' = FALSE /\ UNCHANGED accepted

Redone ==
  LET g == Last(hist.redo)
  IN  /\ ~Active /\ hist.redo # <<>>
      /\ buffer' = ApplyOperations(buffer, RedoOperations(g))
      /\ hist' = RedoStep(hist) /\ sess' = AdvanceEditorState(sess, g.after)
      /\ raised' = FALSE /\ UNCHANGED accepted

Chosen ==
  /\ \E p \in Profiles : sess' = [sess EXCEPT !.prof = p]
  /\ raised' = FALSE /\ UNCHANGED <<buffer, hist, accepted>>

(* The accepted profile is known to the session as far as a Save would     *)
(* write it.                                                               *)
ProfileKnown(s, a) ==
  /\ s.savedProf.enc = a.prof.enc
  /\ HasNewline(a.text) => s.savedProf.eol = a.prof.eol
  /\ a.prof.mixed => s.savedProf.mixed

Replaced ==
  /\ ~Active /\ ~GroupActive(hist')
  /\ hist'.undo = <<>> /\ hist'.redo = <<>>
  /\ hist.next =< hist'.cur
  /\ sess'.text = buffer' /\ sess'.textId = hist'.cur
  /\ sess'.saved = NoId \/ hist.next =< sess'.saved
  /\ sess'.saved = hist'.cur => accepted'.text = buffer'
  /\ sess'.saved # NoId => ProfileKnown(sess', accepted')
  /\ raised' = FALSE

LEMMA RestoredFrom ==
  ASSUME StateOK, NEW h, h.next \in Nat, hist' = RestoreCheckpoint(h, hist)
  PROVE  Restored
<1> DEFINE n == IF h.next > hist.next THEN h.next ELSE hist.next
<1>1. n \in Nat /\ hist.next =< n
  BY StateFacts, SMT
<1>2. hist' = [hist EXCEPT !.next = n]
  BY DEF RestoreCheckpoint
<1> HIDE DEF n
<1> QED
  BY <1>1, <1>2 DEF Restored

LEMMA NothingRestored ==
  ASSUME StateOK, hist' = hist
  PROVE  Restored
<1>1. hist = [hist EXCEPT !.next = hist.next]
  BY StateFacts, Zenon DEF History
<1>2. hist.next \in Nat /\ hist.next =< hist.next
  BY StateFacts, SMT
<1> QED
  BY <1>1, <1>2 DEF Restored

(* Replacing the document.                                                 *)
LEMMA InstallFailsRefuses ==
  ASSUME StateOK, NEW resets \in Nat, InstallFails(resets)
  PROVE  Refused
<1>1. raised' = TRUE /\ buffer' = buffer /\ sess' = sess /\ accepted' = accepted
  BY DEF InstallFails
<1>2. CASE hist' = hist
  BY <1>1, <1>2, NothingRestored DEF Refused
<1>3. CASE \E n \in 0 .. resets : hist' = RestoreCheckpoint([hist EXCEPT !.next = @ + n], hist)
  <2>1. PICK n \in 0 .. resets : hist' = RestoreCheckpoint([hist EXCEPT !.next = hist.next + n], hist)
    BY <1>3
  <2>2. [hist EXCEPT !.next = hist.next + n].next = hist.next + n
    BY StateFacts, Zenon DEF History
  <2>3. [hist EXCEPT !.next = hist.next + n].next \in Nat
    BY <2>2, StateFacts, SMT
  <2> QED
    BY <1>1, <2>1, <2>3, RestoredFrom DEF Refused
<1> QED
  BY <1>2, <1>3 DEF InstallFails

LEMMA ResetFields ==
  ASSUME NEW h \in History
  PROVE  /\ Reset(h).undo = <<>> /\ Reset(h).redo = <<>> /\ Reset(h).cur = h.next
         /\ Reset(h).next = h.next + 1 /\ Reset(h).pendBefore = h.pendBefore
  BY Zenon DEF Reset, History

LEMMA EstablishedReplaces ==
  ASSUME StateOK, ~Active, NEW savedId, NEW prof, NEW savedProf, NEW base,
         hist' = Reset(hist),
         sess' = Established(buffer', hist'.cur, savedId, prof, savedProf),
         \/ savedId = NoId
         \/ savedId = hist'.cur /\ accepted' = [text |-> buffer', prof |-> savedProf],
         raised' = FALSE
  PROVE  Replaced
<1>1. /\ hist'.undo = <<>> /\ hist'.redo = <<>> /\ hist'.cur = hist.next
      /\ hist'.pendBefore = hist.pendBefore
  BY StateFacts, ResetFields
<1>2. /\ sess'.text = buffer' /\ sess'.textId = hist'.cur /\ sess'.saved = savedId
      /\ sess'.savedProf = savedProf
  BY DEF Established
<1>3. hist.next \in Nat /\ hist.next =< hist.next /\ hist.next # NoId
  BY StateFacts, SMT DEF NoId
<1>4. CASE savedId = NoId
  BY <1>1, <1>2, <1>3, <1>4 DEF Replaced, Active, GroupActive
<1>5. CASE savedId = hist'.cur /\ accepted' = [text |-> buffer', prof |-> savedProf]
  <2>1. ProfileKnown(sess', accepted')
    BY <1>2, <1>5 DEF ProfileKnown
  <2> QED
    BY <1>1, <1>2, <1>3, <1>5, <2>1 DEF Replaced, Active, GroupActive
<1> QED
  BY <1>4, <1>5

LEMMA RecoveredNamedReplaces ==
  ASSUME StateOK, NEW base, NEW baseProf, NEW text, NEW prof,
         InitializeRecoveredNamed(base, baseProf, text, prof), ~InstallFails(2)
  PROVE  Replaced
<1>1. /\ ~Active /\ buffer' = text /\ hist' = Reset(Reset(hist))
      /\ sess' = Established(text, hist'.cur, Reset(hist).cur, prof, baseProf)
      /\ accepted' = [text |-> base, prof |-> baseProf] /\ raised' = FALSE
  BY DEF InitializeRecoveredNamed
<1>2. /\ Reset(hist) \in History /\ Reset(hist).cur = hist.next /\ Reset(hist).next = hist.next + 1
      /\ Reset(hist).pendBefore = hist.pendBefore
  <2>1. GoodHistory(Reset(hist))
    BY <1>1, StateFacts, ResetGood DEF Active
  <2> QED
    BY <2>1, StateFacts, ResetFields DEF GoodHistory
<1>3. /\ hist'.undo = <<>> /\ hist'.redo = <<>> /\ hist'.cur = hist.next + 1
      /\ hist'.pendBefore = hist.pendBefore
  BY <1>1, <1>2, ResetFields
<1>4. /\ sess'.text = buffer' /\ sess'.textId = hist'.cur /\ sess'.saved = hist.next
      /\ sess'.savedProf = baseProf
  BY <1>1, <1>2 DEF Established
<1>5. hist.next =< hist'.cur /\ hist.next =< hist.next /\ hist.next # hist'.cur
  BY <1>3, StateFacts, SMT
<1>6. ProfileKnown(sess', accepted')
  BY <1>1, <1>4 DEF ProfileKnown
<1> QED
  BY <1>1, <1>3, <1>4, <1>5, <1>6 DEF Replaced, Active, GroupActive

LEMMA ReplacementKinds ==
  ASSUME StateOK, Replacement
  PROVE  Refused \/ Replaced
<1>1. ASSUME NEW n \in {1, 2}, InstallFails(n)
      PROVE  Refused
  BY <1>1, InstallFailsRefuses, SMT
<1>2. ASSUME InitializeNew, ~InstallFails(1)
      PROVE  Replaced
  <2>1. /\ ~Active /\ hist' = Reset(hist) /\ buffer' = <<>> /\ raised' = FALSE
        /\ sess' = Established(buffer', hist'.cur, hist'.cur, DefaultProfile, DefaultProfile)
        /\ accepted' = [text |-> buffer', prof |-> DefaultProfile]
    BY <1>2 DEF InitializeNew
  <2> QED
    BY <2>1, EstablishedReplaces
<1>3. ASSUME NEW text, NEW prof, InitializeOpen(text, prof), ~InstallFails(1)
      PROVE  Replaced
  <2>1. /\ ~Active /\ hist' = Reset(hist) /\ buffer' = text /\ raised' = FALSE
        /\ sess' = Established(buffer', hist'.cur, hist'.cur, prof, prof)
        /\ accepted' = [text |-> buffer', prof |-> prof]
    BY <1>3 DEF InitializeOpen
  <2> QED
    BY <2>1, EstablishedReplaces
<1>4. ASSUME NEW text, NEW prof, InitializeRecoveredUnbound(text, prof), ~InstallFails(1)
      PROVE  Replaced
  <2>1. /\ ~Active /\ hist' = Reset(hist) /\ buffer' = text /\ raised' = FALSE
        /\ sess' = Established(buffer', hist'.cur, NoId, prof, prof)
    BY <1>4 DEF InitializeRecoveredUnbound
  <2> QED
    BY <2>1, EstablishedReplaces
<1> QED
  BY <1>1, <1>2, <1>3, <1>4, RecoveredNamedReplaces, Zenon DEF Replacement

(* Native editing.                                                         *)
LEMMA EndGroupEdits ==
  ASSUME StateOK, NEW h, h.undo = hist.undo, h.next = hist.next, h.pendBefore = hist.cur,
         h.pend # <<>>
  PROVE  EndGroup(h, sess.saved) =
           [undo |-> Trim(Pushed(hist.undo, EditGroup(h.pend), sess.saved)), redo |-> <<>>,
            cur |-> hist.next, next |-> hist.next + 1, pend |-> <<>>, pendBefore |-> NoId]
  BY Zenon DEF EndGroup, EditGroup, RedoAfterEdit

LEMMA BegunFields ==
  ASSUME NEW h \in History, NEW deltas
  PROVE  /\ BeginGroup(h).undo = h.undo /\ BeginGroup(h).next = h.next
         /\ BeginGroup(h).pendBefore = h.cur /\ BeginGroup(h).pend = <<>>
         /\ [BeginGroup(h) EXCEPT !.pend = deltas].undo = h.undo
         /\ [BeginGroup(h) EXCEPT !.pend = deltas].next = h.next
         /\ [BeginGroup(h) EXCEPT !.pend = deltas].pendBefore = h.cur
         /\ [BeginGroup(h) EXCEPT !.pend = deltas].pend = deltas
  BY Zenon DEF BeginGroup, History

LEMMA RecordInGroupKinds ==
  ASSUME StateOK, NEW delta \in Delta, CanRecord, RecordInGroup(delta),
         delta.kind = "insert" => delta.dir # "backward",
         Step(buffer, AsOperation(delta), buffer'), raised' = FALSE, accepted' = accepted
  PROVE  Recorded(delta) \/ Edited(<<delta>>)
<1>1. CASE Active
  BY <1>1 DEF RecordInGroup, Recorded
<1>2. CASE ~Active
  <2> DEFINE h == Record(BeginGroup(hist), delta)
  <2>1. hist' = EndGroup(h, sess.saved) /\ sess' = AdvanceEditorState(sess, hist'.cur)
    BY <1>2 DEF RecordInGroup
  <2>2. h = [BeginGroup(hist) EXCEPT !.pend = Append(BeginGroup(hist).pend, delta)]
    BY DEF Record
  <2>3. Append(BeginGroup(hist).pend, delta) = <<delta>> /\ <<delta>> # <<>>
    <3>1. BeginGroup(hist).pend = <<>>
      BY StateFacts, BegunFields
    <3> QED
      BY <3>1, SMT
  <2>4. /\ h.undo = hist.undo /\ h.next = hist.next /\ h.pendBefore = hist.cur
        /\ h.pend = <<delta>>
    BY <2>2, <2>3, StateFacts, BegunFields
  <2> HIDE DEF h
  <2>5. hist' = [undo |-> Trim(Pushed(hist.undo, EditGroup(<<delta>>), sess.saved)), redo |-> <<>>,
                 cur |-> hist.next, next |-> hist.next + 1, pend |-> <<>>, pendBefore |-> NoId]
    BY <2>1, <2>3, <2>4, EndGroupEdits
  <2>6. hist'.cur = hist.next
    BY <2>5
  <2>7. Leads(buffer, <<delta>>, buffer')
    BY OneLeads
  <2> QED
    BY <1>2, <2>1, <2>3, <2>5, <2>6, <2>7 DEF Edited, CanRecord
<1> QED
  BY <1>1, <1>2

LEMMA InsertTextKinds ==
  ASSUME StateOK, NEW o \in Offsets, NEW text \in Texts, InsertText(o, text)
  PROVE  \E d \in Delta : Recorded(d) \/ Edited(<<d>>)
<1> DEFINE d == [kind |-> "insert", at |-> o, text |-> text, dir |-> "range"]
<1>1. o \in Nat /\ o =< Len(buffer)
  BY StateFacts, SMT DEF Offsets, Texts
<1>2. d \in Delta /\ AsOperation(d) = Insertion(o, text) /\ d.dir # "backward"
  BY <1>1 DEF Delta, Directions, AsOperation, Insertion
<1>3. Step(buffer, Insertion(o, text), buffer')
  BY <1>1 DEF InsertText, Step, Applies, Insertion
<1>4. CanRecord /\ RecordInGroup(d) /\ raised' = FALSE /\ accepted' = accepted
  BY DEF InsertText
<1> HIDE DEF d
<1> QED
  BY <1>2, <1>3, <1>4, RecordInGroupKinds

LEMMA DeletionFits ==
  ASSUME NEW t \in Texts, NEW o \in Nat, NEW n \in Nat, o + n =< Len(t)
  PROVE  /\ TextInRange(t, o, o + n) \in Texts
         /\ Len(TextInRange(t, o, o + n)) = n
         /\ Step(t, Deletion(o, TextInRange(t, o, o + n)),
                 ApplyOperation(t, Deletion(o, TextInRange(t, o, o + n))))
<1> DEFINE gone == TextInRange(t, o, o + n)
<1>1. o + n \in Nat /\ o =< o + n /\ (o + n) - o = n
  BY SMT
<1>2. gone \in Texts /\ Len(gone) = n
  BY <1>1, TextInRangeType
<1>3. o =< Len(t)
  BY SMT DEF Texts
<1> HIDE DEF gone
<1>4. /\ Deletion(o, gone).kind = "delete" /\ Deletion(o, gone).at = o
      /\ Deletion(o, gone).text = gone
  BY DEF Deletion
<1>5. Applies(t, Deletion(o, gone))
  BY <1>2, <1>4 DEF Applies, gone
<1> QED
  BY <1>2, <1>3, <1>4, <1>5 DEF Step, gone

LEMMA SpansFit ==
  ASSUME StateOK, NEW s \in Spans
  PROVE  s[1] \in Nat /\ s[2] \in Nat /\ s[1] + s[2] =< Len(buffer)
  BY OffsetsAndSpans DEF Spans

LEMMA DeleteRangeKinds ==
  ASSUME StateOK, NEW s \in Spans, NEW dir \in Directions, DeleteRange(s[1], s[2], dir)
  PROVE  \E d \in Delta : Recorded(d) \/ Edited(<<d>>)
<1> DEFINE o == s[1]
           gone == TextInRange(buffer, s[1], s[1] + s[2])
           d == [kind |-> "delete", at |-> o, text |-> gone, dir |-> dir]
<1>1. /\ o \in Nat /\ gone \in Texts
      /\ Step(buffer, Deletion(o, gone), ApplyOperation(buffer, Deletion(o, gone)))
  BY StateFacts, SpansFit, DeletionFits
<1>2. /\ CanRecord /\ buffer' = ApplyOperation(buffer, Deletion(o, gone))
      /\ RecordInGroup(d) /\ raised' = FALSE /\ accepted' = accepted
  BY DEF DeleteRange
<1> HIDE DEF o, gone
<1>3. d \in Delta /\ AsOperation(d) = Deletion(o, gone) /\ d.kind # "insert"
  BY <1>1 DEF Delta, AsOperation, Deletion
<1> HIDE DEF d
<1> QED
  BY <1>1, <1>2, <1>3, RecordInGroupKinds

LEMMA EndUserActionKinds ==
  ASSUME StateOK, EndUserAction
  PROVE  NothingEdited \/ Edited(hist.pend)
<1>1. /\ Active /\ hist' = EndGroup(hist, sess.saved)
      /\ sess' = AdvanceEditorState(sess, hist'.cur)
      /\ raised' = FALSE /\ buffer' = buffer /\ accepted' = accepted
  BY DEF EndUserAction
<1>2. hist.pendBefore = hist.cur /\ hist.cur # NoId
  BY <1>1, StateFacts DEF Active, GroupActive, GoodHistory, OnePath
<1>3. CASE hist.pend = <<>>
  <2>1. hist' = AbortGroup(hist)
    BY <1>1, <1>3 DEF EndGroup
  <2>2. hist'.cur = hist.cur
    BY <2>1, StateFacts, AbortGroupGood
  <2> QED
    BY <1>1, <1>3, <2>1, <2>2 DEF NothingEdited
<1>4. CASE hist.pend # <<>>
  <2>1. hist' = [undo |-> Trim(Pushed(hist.undo, EditGroup(hist.pend), sess.saved)), redo |-> <<>>,
                 cur |-> hist.next, next |-> hist.next + 1, pend |-> <<>>, pendBefore |-> NoId]
    BY <1>1, <1>2, <1>4, EndGroupEdits
  <2>2. hist'.cur = hist.next
    BY <2>1
  <2> QED
    BY <1>1, <1>2, <1>4, <2>1, <2>2 DEF Edited
<1> QED
  BY <1>3, <1>4

(* Undo and redo.                                                          *)
LEMMA UndoKinds ==
  ASSUME StateOK, Undo
  PROVE  ReplayFailed \/ Undone
<1> DEFINE g == Last(hist.undo)
<1>1. ~Active /\ hist.undo # <<>> /\ Replay(UndoStep(hist), UndoOperations(g), g.before)
  BY DEF Undo
<1>2. UndoStep(hist).next \in Nat
  BY <1>1, StateFacts, UndoStepGood DEF Active
<1>3. CASE /\ buffer' \in AfterFailedReplay(UndoOperations(g))
           /\ hist' = RestoreCheckpoint(UndoStep(hist), hist)
           /\ raised' = TRUE /\ UNCHANGED <<sess, accepted>>
  BY <1>1, <1>2, <1>3, RestoredFrom DEF ReplayFailed
<1> QED
  BY <1>1, <1>3, Zenon DEF Replay, Undone

LEMMA RedoKinds ==
  ASSUME StateOK, Redo
  PROVE  ReplayFailed \/ Redone
<1> DEFINE g == Last(hist.redo)
<1>1. ~Active /\ hist.redo # <<>> /\ Replay(RedoStep(hist), RedoOperations(g), g.after)
  BY DEF Redo
<1>2. RedoStep(hist).next \in Nat
  BY <1>1, StateFacts, RedoStepGood DEF Active
<1>3. CASE /\ buffer' \in AfterFailedReplay(RedoOperations(g))
           /\ hist' = RestoreCheckpoint(RedoStep(hist), hist)
           /\ raised' = TRUE /\ UNCHANGED <<sess, accepted>>
  BY <1>1, <1>2, <1>3, RestoredFrom DEF ReplayFailed
<1> QED
  BY <1>1, <1>3, Zenon DEF Replay, Redone

(* The plans fit the text they are made for, so that taking one back       *)
(* restores it.                                                            *)
LEMMA DeletionKeepsPrefix ==
  ASSUME NEW t \in Texts, NEW op \in ReplayOperation, op.kind = "delete",
         op.at + Len(op.text) =< Len(t)
  PROVE  op.at =< Len(ApplyOperation(t, op))
<1> DEFINE o == op.at
           p == op.at + Len(op.text)
           a == SubSeq(t, 1, o)
           b == SubSeq(t, p + 1, Len(t))
<1>1. ApplyOperation(t, op) = a \o b
  BY DeletedText
<1>2. /\ op.at \in Nat /\ op.text \in Texts /\ Len(op.text) \in Nat /\ t \in Texts
  BY SMT DEF ReplayOperation, Texts
<1>3. o \in Nat /\ p \in Nat /\ Len(t) \in Nat /\ o =< Len(t) /\ p =< Len(t)
  BY <1>2, SMT DEF Texts
<1> HIDE DEF o, p
<1>4. a \in Texts /\ Len(a) = o
  BY <1>3, SMT DEF Texts
<1>5. b \in Texts
  BY <1>3, SMT DEF Texts
<1> HIDE DEF a, b
<1>6. Len(a \o b) = Len(a) + Len(b) /\ Len(b) \in Nat
  BY <1>4, <1>5, Glue
<1>7. o =< Len(a \o b)
  BY <1>3, <1>4, <1>6, SMT
<1> QED
  BY <1>1, <1>7 DEF o

Fits(t, ops) == \A j \in 0 .. Len(ops) - 1 : ops[j + 1].at =< Len(AfterFirst(t, ops, j))

LEMMA OneFits ==
  ASSUME NEW t, NEW a \in ReplayOperation, a.at =< Len(t)
  PROVE  Fits(t, <<a>>) /\ <<a>> # <<>>
<1> DEFINE ops == <<a>>
<1>1. /\ ops \in Seq(ReplayOperation) /\ Len(ops) = 1 /\ ops[1] = a /\ ops # <<>>
      /\ 0 .. Len(ops) - 1 = {0} /\ 0 + 1 = 1
  BY SMT
<1> HIDE DEF ops
<1>2. AfterFirst(t, ops, 0) = t
  BY <1>1, AfterFirstNext
<1>3. Fits(t, ops)
  BY <1>1, <1>2 DEF Fits
<1> QED
  BY <1>1, <1>3 DEF ops

LEMMA TwoFit ==
  ASSUME NEW t, NEW a \in ReplayOperation, a.at =< Len(t),
         NEW b \in ReplayOperation, b.at =< Len(ApplyOperation(t, a))
  PROVE  Fits(t, <<a, b>>) /\ <<a, b>> # <<>>
<1> DEFINE ops == <<a, b>>
<1>1. /\ ops \in Seq(ReplayOperation) /\ Len(ops) = 2 /\ ops[1] = a /\ ops[2] = b /\ ops # <<>>
      /\ 0 .. Len(ops) - 1 = {0, 1} /\ 0 + 1 = 1 /\ 1 + 1 = 2 /\ 0 \in 0 .. Len(ops) - 1
  BY SMT
<1> HIDE DEF ops
<1>2. AfterFirst(t, ops, 0) = t
  BY <1>1, AfterFirstNext
<1>3. AfterFirst(t, ops, 0 + 1) = ApplyOperation(AfterFirst(t, ops, 0), ops[0 + 1])
  BY <1>1, AfterFirstNext
<1>4. AfterFirst(t, ops, 1) = ApplyOperation(t, a)
  BY <1>1, <1>2, <1>3
<1>5. Fits(t, ops)
  BY <1>1, <1>2, <1>4 DEF Fits
<1> QED
  BY <1>1, <1>5 DEF ops

LEMMA PlansFit ==
  ASSUME StateOK, NEW ops \in Plans
  PROVE  ops \in Seq(ReplayOperation) /\ ops # <<>> /\ Fits(buffer, ops)
<1>1. ops \in Seq(ReplayOperation)
  BY PlansType
<1>2. \A o \in Nat, text \in Texts :
         /\ Insertion(o, text) \in ReplayOperation /\ Insertion(o, text).at = o
         /\ Deletion(o, text) \in ReplayOperation /\ Deletion(o, text).at = o
         /\ Deletion(o, text).kind = "delete" /\ Deletion(o, text).text = text
  BY DEF Insertion, Deletion, ReplayOperation
<1>3. \A text \in Typing : text \in Texts
  BY InputsAreTexts
<1>4. ASSUME NEW o \in Offsets, NEW text \in Typing
      PROVE  Fits(buffer, <<Insertion(o, text)>>) /\ <<Insertion(o, text)>> # <<>>
  <2>1. o \in Nat /\ o =< Len(buffer)
    BY StateFacts, SMT DEF Offsets, Texts
  <2> QED
    BY <1>2, <1>3, <2>1, OneFits
<1>5. ASSUME NEW s \in Spans, NEW text \in Typing
      PROVE  /\ Fits(buffer, <<Deletion(s[1], TextInRange(buffer, s[1], s[1] + s[2])),
                               Insertion(s[1], text)>>)
             /\ <<Deletion(s[1], TextInRange(buffer, s[1], s[1] + s[2])),
                  Insertion(s[1], text)>> # <<>>
  <2> DEFINE o == s[1]
             gone == TextInRange(buffer, s[1], s[1] + s[2])
  <2>1. o \in Nat /\ s[2] \in Nat /\ o + s[2] =< Len(buffer)
    BY SpansFit
  <2>2. gone \in Texts /\ Len(gone) = s[2]
    BY <2>1, StateFacts, DeletionFits
  <2> HIDE DEF o, gone
  <2>3. /\ Deletion(o, gone) \in ReplayOperation /\ Deletion(o, gone).at = o
        /\ Deletion(o, gone).kind = "delete" /\ Deletion(o, gone).text = gone
        /\ Insertion(o, text) \in ReplayOperation /\ Insertion(o, text).at = o
    BY <1>2, <1>3, <2>1, <2>2
  <2>4. o =< Len(ApplyOperation(buffer, Deletion(o, gone)))
    BY <2>1, <2>2, <2>3, StateFacts, DeletionKeepsPrefix
  <2>5. o =< Len(buffer)
    BY <2>1, StateFacts, SMT DEF Texts
  <2>6. Fits(buffer, <<Deletion(o, gone), Insertion(o, text)>>)
        /\ <<Deletion(o, gone), Insertion(o, text)>> # <<>>
    BY <2>3, <2>4, <2>5, TwoFit
  <2> QED
    BY <2>6 DEF o, gone
<1>6. Plans = {<<Insertion(o, text)>> : o \in Offsets, text \in Typing}
        \cup {<<Deletion(s[1], TextInRange(buffer, s[1], s[1] + s[2])), Insertion(s[1], text)>> :
                 s \in Spans, text \in Typing}
  BY DEF Plans
<1>7. CASE \E o \in Offsets, text \in Typing : ops = <<Insertion(o, text)>>
  BY <1>1, <1>4, <1>7, Zenon
<1>8. CASE \E s \in Spans, text \in Typing :
             ops = <<Deletion(s[1], TextInRange(buffer, s[1], s[1] + s[2])), Insertion(s[1], text)>>
  BY <1>1, <1>5, <1>8, Zenon
<1> QED
  BY <1>6, <1>7, <1>8

(* A list that fits is taken back wherever it is interrupted.              *)
LEMMA FittingIsTakenBack ==
  ASSUME NEW t \in Texts, NEW ops \in Seq(ReplayOperation), Fits(t, ops),
         NEW k \in 0 .. Len(ops), FirstApply(t, ops, k)
  PROVE  RolledBack(t, ops, k) = t
<1>1. Len(ops) \in Nat
  BY SMT
<1>2. \A j \in 0 .. k - 1 : j \in 0 .. Len(ops) - 1
  BY <1>1, SMT
<1>3. \A j \in 0 .. k - 1 : ops[j + 1].at =< Len(AfterFirst(t, ops, j))
  BY <1>2 DEF Fits
<1> QED
  BY <1>3, RollbackRestores

LEMMA RangeDeltasType ==
  ASSUME NEW ops \in Seq(ReplayOperation), ops # <<>>,
         NEW deltas, deltas = [i \in DOMAIN ops |-> AsRangeDelta(ops[i])]
  PROVE  /\ deltas \in Seq(Delta) /\ deltas # <<>> /\ Replayed(deltas) = ops
         /\ \A i \in DOMAIN deltas : deltas[i].dir # "backward"
<1>1. \A op \in ReplayOperation :
        /\ AsRangeDelta(op) \in Delta /\ AsRangeDelta(op).dir = "range"
        /\ AsOperation(AsRangeDelta(op)) = op
  BY DEF AsRangeDelta, AsOperation, ReplayOperation, Delta, Directions
<1>2. /\ Len(ops) \in Nat \ {0} /\ DOMAIN ops = 1 .. Len(ops)
      /\ \A i \in 1 .. Len(ops) : ops[i] \in ReplayOperation
  BY SMT
<1>3. \A i \in 1 .. Len(ops) : deltas[i] = AsRangeDelta(ops[i])
  BY <1>2
<1>4. DOMAIN deltas = 1 .. Len(ops) /\ \A i \in 1 .. Len(ops) : deltas[i] \in Delta
  BY <1>1, <1>2, <1>3
<1>5. deltas \in Seq(Delta) /\ Len(deltas) = Len(ops)
  BY <1>1, <1>2, SMT
<1>6. deltas # <<>>
  BY <1>2, <1>5, SMT
<1>7. /\ Replayed(deltas) \in Seq(ReplayOperation) /\ Len(Replayed(deltas)) = Len(ops)
      /\ \A i \in 1 .. Len(ops) : Replayed(deltas)[i] = AsOperation(deltas[i])
  BY <1>5, ReplayedType
<1>8. \A i \in 1 .. Len(ops) : Replayed(deltas)[i] = ops[i]
  BY <1>1, <1>2, <1>3, <1>7
<1>9. Replayed(deltas) = ops
  BY <1>7, <1>8, SeqEqual
<1>10. \A i \in DOMAIN deltas : deltas[i].dir # "backward"
  BY <1>1, <1>2, <1>3, <1>4
<1> QED
  BY <1>5, <1>6, <1>9, <1>10

LEMMA ApplyProgrammaticGroupKinds ==
  ASSUME StateOK, NEW ops \in Plans, NEW expected, ApplyProgrammaticGroup(ops, expected)
  PROVE  Refused \/ \E deltas \in Seq(Delta) : Edited(deltas)
<1> DEFINE ended == EndGroup(GroupOf(ops), sess.saved)
           deltas == [i \in DOMAIN ops |-> AsRangeDelta(ops[i])]
<1>1. ops \in Seq(ReplayOperation) /\ ops # <<>> /\ Fits(buffer, ops)
  BY PlansFit
<1>2. CASE ~PlanAccepted(ops, expected)
  <2>1. raised' = TRUE /\ UNCHANGED <<buffer, hist, sess, accepted>>
    BY <1>2 DEF ApplyProgrammaticGroup
  <2> QED
    BY <2>1, NothingRestored DEF Refused
<1>3. CASE PlanAccepted(ops, expected)
  <2>1. ~Active /\ hist.cur # NoId
    BY <1>3 DEF PlanAccepted
  <2>2. /\ deltas \in Seq(Delta) /\ deltas # <<>> /\ Replayed(deltas) = ops
        /\ \A i \in DOMAIN deltas : deltas[i].dir # "backward"
    BY <1>1, RangeDeltasType
  <2>3. GroupOf(ops) = [BeginGroup(hist) EXCEPT !.pend = deltas]
    BY DEF GroupOf
  <2> HIDE DEF deltas
  <2>4. /\ GroupOf(ops).undo = hist.undo /\ GroupOf(ops).next = hist.next
        /\ GroupOf(ops).pendBefore = hist.cur /\ GroupOf(ops).pend = deltas
    BY <2>3, StateFacts, BegunFields
  <2>5. ended = [undo |-> Trim(Pushed(hist.undo, EditGroup(deltas), sess.saved)), redo |-> <<>>,
                 cur |-> hist.next, next |-> hist.next + 1, pend |-> <<>>, pendBefore |-> NoId]
    BY <2>2, <2>4, EndGroupEdits
  <2>6. ended.cur = hist.next /\ ended.next = hist.next + 1
    BY <2>5
  <2> HIDE DEF ended
  <2>7. ended.next \in Nat /\ GroupOf(ops).next \in Nat
    BY <2>4, <2>6, StateFacts, SMT
  <2>8. CASE /\ AllApply(buffer, ops)
             /\ buffer' = ApplyOperations(buffer, ops)
             /\ hist' = ended
             /\ sess' = AdvanceEditorState(sess, ended.cur)
             /\ raised' = FALSE /\ UNCHANGED accepted
    <3>1. Makes(buffer, ops, buffer')
      BY <1>1, <2>8 DEF Makes, Fits
    <3>2. Leads(buffer, deltas, buffer')
      BY <2>2, <3>1 DEF Leads
    <3>3. Edited(deltas)
      BY <2>1, <2>2, <2>5, <2>6, <2>8, <3>2 DEF Edited
    <3> QED
      BY <2>2, <3>3
  <2>9. CASE /\ \E k \in 0 .. Len(ops) - 1 :
                   InterruptedAfter(ops, k) /\ buffer' = RolledBack(buffer, ops, k)
             /\ hist' = RestoreCheckpoint(GroupOf(ops), hist)
             /\ raised' = TRUE /\ UNCHANGED <<sess, accepted>>
    <3>1. PICK k \in 0 .. Len(ops) - 1 :
                 FirstApply(buffer, ops, k) /\ buffer' = RolledBack(buffer, ops, k)
      BY <2>9 DEF InterruptedAfter
    <3>2. k \in 0 .. Len(ops)
      BY SMT
    <3>3. buffer' = buffer
      BY <1>1, <3>1, <3>2, StateFacts, FittingIsTakenBack
    <3> QED
      BY <2>7, <2>9, <3>3, RestoredFrom DEF Refused
  <2>10. CASE /\ AllApply(buffer, ops)
              /\ buffer' = RolledBack(buffer, ops, Len(ops))
              /\ hist' = RestoreCheckpoint(ended, hist)
              /\ raised' = TRUE /\ UNCHANGED <<sess, accepted>>
    <3>1. Len(ops) \in 0 .. Len(ops)
      BY <1>1, SMT
    <3>2. buffer' = buffer
      BY <1>1, <2>10, <3>1, StateFacts, FittingIsTakenBack DEF AllApply
    <3> QED
      BY <2>7, <2>10, <3>2, RestoredFrom DEF Refused
  <2> QED
    BY <1>3, <2>8, <2>9, <2>10, Zenon DEF ApplyProgrammaticGroup, ended
<1> QED
  BY <1>2, <1>3

(* Representation choices.                                                 *)
LEMMA SelectKinds ==
  ASSUME StateOK, \/ \E enc \in Encodings : SelectEncoding(enc)
                  \/ \E eol \in Eols : SelectLineEnding(eol)
  PROVE  Chosen
  BY StateFacts, SessionFields, ProfileTypes DEF SelectEncoding, SelectLineEnding, Chosen

Moved ==
  \/ Refused \/ Replaced
  \/ BeginUserAction \/ NothingEdited \/ \E d \in Delta : Recorded(d)
  \/ \E deltas \in Seq(Delta) : Edited(deltas)
  \/ ReplayFailed \/ Undone \/ Redone
  \/ Chosen \/ SaveNotCommitted \/ \E available \in BOOLEAN : SaveCommitted(available)

LEMMA StepKinds ==
  ASSUME StateOK, Next
  PROVE  Moved /\ Observe
<1>1. \A text \in Typing : text \in Texts
  BY InputsAreTexts
<1>2. ASSUME NEW d \in Delta
      PROVE  <<d>> \in Seq(Delta)
  BY SMT
<1>3. ASSUME Editing
      PROVE  Moved
  <2>1. ASSUME NEW o \in Offsets, NEW text \in Typing, InsertText(o, text)
        PROVE  Moved
    BY <1>1, <1>2, <2>1, InsertTextKinds DEF Moved
  <2>2. ASSUME NEW s \in Spans, NEW dir \in Directions, DeleteRange(s[1], s[2], dir)
        PROVE  Moved
    BY <1>2, <2>2, DeleteRangeKinds DEF Moved
  <2>3. ASSUME EndUserAction
        PROVE  Moved
    <3>1. hist.pend \in Seq(Delta)
      BY StateFacts, HistoryFields
    <3> QED
      BY <2>3, <3>1, EndUserActionKinds DEF Moved
  <2>4. ASSUME NEW ops \in Plans, NEW expected, ApplyProgrammaticGroup(ops, expected)
        PROVE  Moved
    BY <2>4, ApplyProgrammaticGroupKinds DEF Moved
  <2> QED
    BY <1>3, <2>1, <2>2, <2>3, <2>4, UndoKinds, RedoKinds DEF Editing, Moved
<1>4. ASSUME Saving
      PROVE  Moved
  BY <1>4, SelectKinds DEF Saving, Moved
<1> QED
  BY <1>3, <1>4, ReplacementKinds DEF Next, Moved

-----------------------------------------------------------------------------
(* The limits and the order of the journal, whatever raises.               *)
JournalOK == WithinLimits(hist.undo, hist.redo) /\ Ordered(hist)

SameStacks == hist'.undo = hist.undo /\ hist'.redo = hist.redo /\ hist'.cur = hist.cur

LEMMA RestoredFields ==
  ASSUME StateOK, Restored
  PROVE  /\ SameStacks /\ hist'.pend = hist.pend /\ hist'.pendBefore = hist.pendBefore
         /\ hist.next =< hist'.next
<1>1. PICK n \in Nat : hist.next =< n /\ hist' = [hist EXCEPT !.next = n]
  BY DEF Restored
<1> QED
  BY <1>1, StateFacts, Zenon DEF SameStacks, History

LEMMA GroupFields ==
  ASSUME NEW h \in History, NEW delta
  PROVE  /\ LET r == BeginGroup(h)
            IN  r.undo = h.undo /\ r.redo = h.redo /\ r.cur = h.cur /\ r.next = h.next
                /\ r.pend = <<>> /\ r.pendBefore = h.cur
         /\ LET r == Record(h, delta)
            IN  r.undo = h.undo /\ r.redo = h.redo /\ r.cur = h.cur /\ r.next = h.next
                /\ r.pend = Append(h.pend, delta) /\ r.pendBefore = h.pendBefore
         /\ LET r == AbortGroup(h)
            IN  r.undo = h.undo /\ r.redo = h.redo /\ r.cur = h.cur /\ r.next = h.next
                /\ r.pend = <<>> /\ r.pendBefore = NoId
  BY Zenon DEF BeginGroup, Record, AbortGroup, History

LEMMA MovedFields ==
  ASSUME NEW h \in History
  PROVE  /\ LET r == UndoStep(h)
            IN  r.undo = Front(h.undo) /\ r.redo = Append(h.redo, Last(h.undo))
                /\ r.cur = Last(h.undo).before /\ r.next = h.next /\ r.pendBefore = h.pendBefore
         /\ LET r == RedoStep(h)
            IN  r.undo = Trim(Append(h.undo, Last(h.redo))) /\ r.redo = Front(h.redo)
                /\ r.cur = Last(h.redo).after /\ r.next = h.next /\ r.pendBefore = h.pendBefore
  BY Zenon DEF UndoStep, RedoStep, History

LEMMA EditedFacts ==
  ASSUME StateOK, NEW deltas \in Seq(Delta), Edited(deltas)
  PROVE  /\ EditGroup(deltas) \in Group
         /\ EditGroup(deltas).before = hist.cur /\ EditGroup(deltas).after = hist.next
         /\ hist'.undo = Trim(Pushed(hist.undo, EditGroup(deltas), sess.saved))
         /\ hist'.redo = <<>> /\ hist'.cur = hist.next /\ hist'.next = hist.next + 1
         /\ hist'.pend = <<>> /\ hist'.pendBefore = NoId
<1>1. EditGroup(deltas) \in Group
  BY StateFacts DEF EditGroup, Group
<1>2. hist' = [undo |-> Trim(Pushed(hist.undo, EditGroup(deltas), sess.saved)), redo |-> <<>>,
               cur |-> hist.next, next |-> hist.next + 1, pend |-> <<>>, pendBefore |-> NoId]
  BY DEF Edited
<1>3. EditGroup(deltas).before = hist.cur /\ EditGroup(deltas).after = hist.next
  BY DEF EditGroup
<1> QED
  BY <1>1, <1>2, <1>3

LEMMA StacksAreGroups ==
  ASSUME StateOK
  PROVE  /\ hist.undo \in Seq(Group) /\ hist.redo \in Seq(Group)
         /\ UndoPath(hist.undo, hist.cur, hist.next) /\ RedoPath(hist.redo, hist.cur, hist.next)
  BY StateFacts, HistoryFields, GoodHistoryIsPaths

(* What the kinds do to the journal.                                       *)
LEMMA JournalMoves ==
  ASSUME StateOK, Moved
  PROVE  \/ SameStacks /\ (accepted' = accepted \/ \E available \in BOOLEAN : SaveCommitted(available))
         \/ hist'.undo = <<>> /\ hist'.redo = <<>> /\ Replaced
         \/ \E deltas \in Seq(Delta) : Edited(deltas)
         \/ ~Active /\ hist.undo # <<>> /\ hist' = UndoStep(hist) /\ Undone
         \/ ~Active /\ hist.redo # <<>> /\ hist' = RedoStep(hist) /\ Redone
<1>1. ASSUME \/ hist' = BeginGroup(hist) \/ hist' = AbortGroup(hist)
             \/ \E d \in Delta : hist' = Record(hist, d)
      PROVE  SameStacks
  BY <1>1, StateFacts, GroupFields DEF SameStacks
<1>2. ASSUME hist' = hist
      PROVE  SameStacks
  BY <1>2 DEF SameStacks
<1>3. Refused \/ ReplayFailed => SameStacks /\ accepted' = accepted
  BY RestoredFields DEF Refused, ReplayFailed
<1>4. BeginUserAction \/ NothingEdited \/ (\E d \in Delta : Recorded(d))
        => SameStacks /\ accepted' = accepted
  BY <1>1 DEF BeginUserAction, NothingEdited, Recorded
<1>5. Chosen \/ SaveNotCommitted => SameStacks /\ accepted' = accepted
  BY <1>2 DEF Chosen, SaveNotCommitted
<1>6. (\E available \in BOOLEAN : SaveCommitted(available)) => SameStacks
  BY <1>2 DEF SaveCommitted
<1>7. Replaced => hist'.undo = <<>> /\ hist'.redo = <<>>
  BY DEF Replaced
<1>8. Undone => ~Active /\ hist.undo # <<>> /\ hist' = UndoStep(hist)
  BY DEF Undone
<1>9. Redone => ~Active /\ hist.redo # <<>> /\ hist' = RedoStep(hist)
  BY DEF Redone
<1> QED
  BY <1>3, <1>4, <1>5, <1>6, <1>7, <1>8, <1>9 DEF Moved

LEMMA EditedJournal ==
  ASSUME StateOK, JournalOK, NEW deltas \in Seq(Delta), Edited(deltas)
  PROVE  JournalOK'
<1> DEFINE g == EditGroup(deltas)
           pushed == Pushed(hist.undo, g, sess.saved)
<1>1. /\ g \in Group /\ g.before = hist.cur
      /\ hist'.undo = Trim(pushed) /\ hist'.redo = <<>> /\ hist'.cur = hist.next
  BY EditedFacts
<1> HIDE DEF g
<1>2. /\ hist.undo \in Seq(Group) /\ hist.cur \in Nat /\ hist.next \in Nat
      /\ hist.cur < hist.next /\ UndoOrdered(hist.undo, hist.cur)
  BY StateFacts, StacksAreGroups DEF JournalOK, Ordered
<1>3. pushed \in Seq(Group) /\ pushed # <<>> /\ UndoOrdered(pushed, hist.next)
  BY <1>1, <1>2, PushedOrder
<1> HIDE DEF pushed
<1>4. WithinLimits(Trim(pushed), <<>>)
  BY <1>3, TrimmedWithinLimits
<1>5. UndoOrdered(Trim(pushed), hist.next) /\ RedoOrdered(<<>>, hist.next)
  BY <1>3, TrimmedOrder, NothingOrdered
<1> QED
  BY <1>1, <1>4, <1>5 DEF JournalOK, Ordered

LEMMA UndoneJournal ==
  ASSUME StateOK, JournalOK, hist.undo # <<>>, hist' = UndoStep(hist)
  PROVE  JournalOK'
<1> DEFINE g == Last(hist.undo)
<1>1. /\ hist.undo \in Seq(Group) /\ hist.redo \in Seq(Group) /\ hist.cur \in Nat
      /\ UndoPath(hist.undo, hist.cur, hist.next)
      /\ UndoOrdered(hist.undo, hist.cur) /\ RedoOrdered(hist.redo, hist.cur)
      /\ WithinLimits(hist.undo, hist.redo)
  BY StateFacts, StacksAreGroups DEF JournalOK, Ordered
<1>2. /\ hist'.undo = Front(hist.undo) /\ hist'.redo = Append(hist.redo, g) /\ hist'.cur = g.before
  BY StateFacts, MovedFields
<1>3. WithinLimits(Front(hist.undo), Append(hist.redo, g))
  BY <1>1, UndoneWithinLimits
<1>4. UndoOrdered(Front(hist.undo), g.before) /\ g.before < hist.cur
  BY <1>1, ShortenedOrder
<1>5. g \in Group /\ g.after = hist.cur /\ g.before \in Nat
  <2>1. Len(hist.undo) \in Nat \ {0} /\ g = hist.undo[Len(hist.undo)] /\ g \in Group
    BY <1>1, FrontAndLast
  <2> QED
    BY <1>1, <2>1 DEF UndoPath, Group
<1> HIDE DEF g
<1>6. RedoOrdered(Append(hist.redo, g), g.before)
  BY <1>1, <1>4, <1>5, ProlongedRedoOrder
<1> QED
  BY <1>2, <1>3, <1>4, <1>6 DEF JournalOK, Ordered, g

LEMMA RedoneJournal ==
  ASSUME StateOK, JournalOK, hist.redo # <<>>, hist' = RedoStep(hist)
  PROVE  JournalOK' /\ hist'.undo = Append(hist.undo, Last(hist.redo))
<1> DEFINE g == Last(hist.redo)
<1>1. /\ hist.undo \in Seq(Group) /\ hist.redo \in Seq(Group) /\ hist.cur \in Nat
      /\ RedoPath(hist.redo, hist.cur, hist.next)
      /\ UndoOrdered(hist.undo, hist.cur) /\ RedoOrdered(hist.redo, hist.cur)
      /\ WithinLimits(hist.undo, hist.redo)
  BY StateFacts, StacksAreGroups DEF JournalOK, Ordered
<1>2. /\ hist'.undo = Trim(Append(hist.undo, g)) /\ hist'.redo = Front(hist.redo) /\ hist'.cur = g.after
  BY StateFacts, MovedFields
<1>3. /\ Trim(Append(hist.undo, g)) = Append(hist.undo, g)
      /\ WithinLimits(Trim(Append(hist.undo, g)), Front(hist.redo))
  BY <1>1, RedoneWithinLimits
<1>4. RedoOrdered(Front(hist.redo), g.after) /\ hist.cur < g.after
  BY <1>1, ShortenedOrder
<1>5. g \in Group /\ g.before = hist.cur /\ g.after \in Nat
  <2>1. Len(hist.redo) \in Nat \ {0} /\ g = hist.redo[Len(hist.redo)] /\ g \in Group
    BY <1>1, FrontAndLast
  <2> QED
    BY <1>1, <2>1 DEF RedoPath, Group
<1> HIDE DEF g
<1>6. UndoOrdered(Append(hist.undo, g), g.after)
  BY <1>1, <1>4, <1>5, ProlongedOrder
<1>7. JournalOK'
  BY <1>2, <1>3, <1>4, <1>6 DEF JournalOK, Ordered
<1> QED
  BY <1>2, <1>3, <1>7 DEF g

LEMMA JournalNext ==
  ASSUME IInv, JournalOK, [Next]_vars
  PROVE  JournalOK'
<1>1. StateOK
  BY DEF IInv
<1>2. SameStacks => JournalOK'
  BY DEF SameStacks, JournalOK, Ordered
<1>3. hist'.undo = <<>> /\ hist'.redo = <<>> => JournalOK'
  BY EmptyWithinLimits, NothingOrdered DEF JournalOK, Ordered
<1>4. CASE UNCHANGED vars
  BY <1>2, <1>4 DEF vars, SameStacks
<1>5. CASE Next
  BY <1>1, <1>2, <1>3, <1>5, StepKinds, JournalMoves, EditedJournal, UndoneJournal, RedoneJournal
<1> QED
  BY <1>4, <1>5

LEMMA JournalHolds == Spec => []JournalOK
<1>1. Init => JournalOK
  BY EmptyWithinLimits, NothingOrdered DEF Init, EmptyHistory, JournalOK, Ordered
<1>2. IInv /\ JournalOK /\ [Next]_vars => JournalOK'
  BY JournalNext
<1> QED
  BY <1>1, <1>2, InvariantHolds, PTL DEF Spec

(* The journal stays within its limits, over both stacks: an edit trims    *)
(* the undo stack and empties the other one, and undo and redo only move a *)
(* group across, whatever raises on the way.                               *)
THEOREM HistoryBoundedHolds == Spec => []HistoryBounded
<1>1. IInv /\ JournalOK => HistoryBounded
  <2> SUFFICES ASSUME IInv, JournalOK
               PROVE  HistoryBounded
    OBVIOUS
  <2>1. hist.undo \in Seq(Group) /\ hist.redo \in Seq(Group)
    BY StacksAreGroups DEF IInv
  <2>2. Len(hist.undo \o hist.redo) = Len(hist.undo) + Len(hist.redo)
    BY <2>1, SMT
  <2>3. Payload(hist.undo \o hist.redo) = Payload(hist.undo) + Payload(hist.redo)
    BY <2>1, WeightsOfConcat
  <2> QED
    BY <2>2, <2>3 DEF HistoryBounded, JournalOK, WithinLimits
<1> QED
  BY <1>1, InvariantHolds, JournalHolds, PTL

-----------------------------------------------------------------------------
(* An edit either goes after the newest group or takes its place; the      *)
(* states that undo can land on keep their places.                         *)
LEMMA PushedPlaces ==
  ASSUME NEW s \in Seq(Group), NEW g \in Group, NEW saved
  PROVE  \/ Pushed(s, g, saved) = Append(s, g)
         \/ /\ s # <<>> /\ Last(s).after # saved
            /\ Pushed(s, g, saved) \in Seq(Group) /\ Len(Pushed(s, g, saved)) = Len(s)
            /\ \A i \in 1 .. Len(s) : Pushed(s, g, saved)[i].before = s[i].before
<1>1. CASE s # <<>> /\ Mergeable(Last(s), g, saved)
  <2> DEFINE f == Front(s)
             m == MergedGroup(Last(s), g)
             a == Append(f, m)
  <2>1. /\ Len(s) \in Nat \ {0} /\ Last(s) = s[Len(s)] /\ Last(s) \in Group
        /\ f \in Seq(Group) /\ Len(f) = Len(s) - 1
        /\ \A i \in 1 .. Len(s) - 1 : f[i] = s[i]
    BY <1>1, FrontAndLast
  <2>2. m \in Group /\ m.before = Last(s).before
    BY <1>1, <2>1, MergedGroupType DEF Mergeable
  <2> HIDE DEF f, m
  <2>3. /\ a \in Seq(Group) /\ Len(a) = Len(f) + 1 /\ a[Len(f) + 1] = m
        /\ \A i \in 1 .. Len(f) : a[i] = f[i]
    BY <2>1, <2>2, Appended
  <2> HIDE DEF a
  <2>4. Len(a) = Len(s) /\ Len(f) + 1 = Len(s)
    BY <2>1, <2>3, SMT
  <2>5. \A i \in 1 .. Len(s) : i \in 1 .. Len(s) - 1 \/ i = Len(s)
    BY <2>1, SMT
  <2>6. \A i \in 1 .. Len(s) : a[i].before = s[i].before
    BY <2>1, <2>2, <2>3, <2>4, <2>5
  <2>7. Pushed(s, g, saved) = a
    BY <1>1 DEF Pushed, a, f, m
  <2> QED
    BY <1>1, <2>3, <2>4, <2>6, <2>7 DEF Mergeable
<1>2. CASE ~(s # <<>> /\ Mergeable(Last(s), g, saved))
  BY <1>2 DEF Pushed
<1> QED
  BY <1>1, <1>2

LEMMA StackReach ==
  ASSUME NEW s \in Seq(Group)
  PROVE  /\ {s[i].before : i \in DOMAIN s} = {g.before : g \in GroupsOf(s)}
         /\ {s[i].after : i \in DOMAIN s} = {g.after : g \in GroupsOf(s)}
<1>1. DOMAIN s = 1 .. Len(s)
  BY SMT
<1> QED
  BY <1>1 DEF GroupsOf

LEMMA ReachIsGroups ==
  ASSUME StateOK
  PROVE  /\ UndoReach = {hist.cur} \cup {g.before : g \in GroupsOf(hist.undo)}
         /\ Reach = UndoReach \cup {g.after : g \in GroupsOf(hist.redo)}
  BY StacksAreGroups, StackReach DEF UndoReach, Reach

(* The same for the state a step leads to.                                 *)
LEMMA ReachIsGroupsThen ==
  ASSUME StateOK'
  PROVE  Reach' = {hist'.cur} \cup {g.before : g \in GroupsOf(hist'.undo)}
                    \cup {g.after : g \in GroupsOf(hist'.redo)}
<1>1. hist'.undo \in Seq(Group) /\ hist'.redo \in Seq(Group)
  BY HistoryFields DEF StateOK, GoodHistory
<1> QED
  BY <1>1, StackReach DEF UndoReach, Reach

LEMMA EditKeepsSaved ==
  ASSUME StateOK, JournalOK, NEW deltas \in Seq(Delta), Edited(deltas),
         sess.saved \in UndoReach, Oldest' = Oldest
  PROVE  \E i \in 1 .. Len(hist'.undo) : hist'.undo[i].before = sess.saved
<1> DEFINE g == EditGroup(deltas)
           p == Pushed(hist.undo, g, sess.saved)
           s == hist.undo
<1>1. /\ g \in Group /\ g.before = hist.cur
      /\ hist'.undo = Trim(p) /\ hist'.cur = hist.next
  BY EditedFacts
<1> HIDE DEF g
<1>2. /\ s \in Seq(Group) /\ hist.cur \in Nat /\ hist.next \in Nat /\ hist.cur < hist.next
      /\ UndoPath(s, hist.cur, hist.next) /\ UndoOrdered(s, hist.cur)
  BY StateFacts, StacksAreGroups DEF JournalOK, Ordered
<1>3. p \in Seq(Group) /\ p # <<>> /\ UndoOrdered(p, hist.next)
  BY <1>1, <1>2, PushedOrder
<1>4. \/ p = Append(s, g)
      \/ /\ s # <<>> /\ Last(s).after # sess.saved
         /\ Len(p) = Len(s) /\ \A i \in 1 .. Len(s) : p[i].before = s[i].before
  BY <1>1, <1>2, PushedPlaces
<1>5. /\ Append(s, g) \in Seq(Group) /\ Len(Append(s, g)) = Len(s) + 1
      /\ Append(s, g)[Len(s) + 1] = g /\ \A i \in 1 .. Len(s) : Append(s, g)[i] = s[i]
  BY <1>1, <1>2, Appended
<1> HIDE DEF p
<1>6. Len(s) \in Nat /\ Len(p) \in Nat /\ Len(p) > 0 /\ (s # <<>> => Len(s) > 0)
  BY <1>2, <1>3, SMT
<1>7. \A i \in 1 .. Len(s) : p[i].before = s[i].before /\ i \in 1 .. Len(p)
  <2>1. \A i \in 1 .. Len(s) : i \in 1 .. Len(p)
    BY <1>4, <1>5, <1>6, SMT
  <2> QED
    BY <1>4, <1>5, <2>1
<1>8. p[1].before = Oldest
  <2>1. CASE s = <<>>
    <3>1. Len(s) = 0
      BY <2>1
    <3>2. p[1] = g
      BY <1>4, <1>5, <2>1, <3>1, SMT
    <3> QED
      BY <1>1, <2>1, <3>2 DEF Oldest
  <2>2. CASE s # <<>>
    <3>1. 1 \in 1 .. Len(s)
      BY <1>6, <2>2, SMT
    <3> QED
      BY <1>7, <2>2, <3>1 DEF Oldest
  <2> QED
    BY <2>1, <2>2
<1>9. PICK n \in 0 .. Len(p) - 1 :
        /\ Trim(p) \in Seq(Group) /\ Len(Trim(p)) = Len(p) - n
        /\ \A i \in 1 .. Len(p) - n : Trim(p)[i] = p[n + i]
  BY <1>3, TrimKeepsNewest
<1>10. n = 0
  <2> SUFFICES ASSUME n # 0
               PROVE  FALSE
    OBVIOUS
  <2>1. /\ n + 1 \in 1 + 1 .. Len(p) /\ 1 \in 1 .. Len(p) /\ 1 \in 1 .. Len(p) - n
        /\ n + 1 \in 1 .. Len(p) /\ Len(Trim(p)) # 0
    BY <1>6, <1>9, SMT
  <2>2. p[1].before < p[n + 1].before
    BY <1>3, <2>1 DEF UndoOrdered
  <2>3. Trim(p) # <<>>
    BY <2>1
  <2>4. Oldest' = p[n + 1].before
    BY <1>1, <1>9, <2>1, <2>3 DEF Oldest
  <2>5. p[1].before \in Nat
    BY <1>3, <2>1, GroupIds
  <2> QED
    BY <1>8, <2>2, <2>4, <2>5, SMT
<1>11. Len(Trim(p)) = Len(p) /\ \A i \in 1 .. Len(p) : Trim(p)[i] = p[i]
  BY <1>6, <1>9, <1>10, SMT
<1>12. \E i \in 1 .. Len(p) : p[i].before = sess.saved
  <2>1. CASE \E h \in GroupsOf(s) : h.before = sess.saved
    <3>1. PICK i \in 1 .. Len(s) : s[i].before = sess.saved
      BY <2>1 DEF GroupsOf
    <3> QED
      BY <1>7, <3>1
  <2>2. CASE sess.saved = hist.cur
    <3>1. s # <<>> => Last(s).after = hist.cur
      BY <1>2, FrontAndLast DEF UndoPath
    <3>2. p = Append(s, g)
      BY <1>4, <2>2, <3>1
    <3>3. Len(s) + 1 \in 1 .. Len(p) /\ p[Len(s) + 1] = g
      BY <1>5, <1>6, <3>2, SMT
    <3> QED
      BY <1>1, <2>2, <3>3
  <2> QED
    BY <2>1, <2>2, ReachIsGroups
<1> QED
  BY <1>1, <1>11, <1>12

(* Typing never coalesces across a saved state that undo could land on.    *)
THEOREM SaveIsMergeBarrierHolds == Spec => SaveIsMergeBarrier
<1> DEFINE Kept == /\ sess.saved # NoId /\ sess'.saved = sess.saved
                   /\ sess.saved \in UndoReach /\ Oldest' = Oldest
                   => sess.saved \in Reach'
<1>1. ASSUME IInv, JournalOK, Next
      PROVE  Kept
  <2> SUFFICES ASSUME sess.saved # NoId, sess'.saved = sess.saved,
                      sess.saved \in UndoReach, Oldest' = Oldest
               PROVE  sess.saved \in Reach'
    OBVIOUS
  <2>1. StateOK /\ StateOK'
    BY <1>1, NextOK DEF IInv
  <2>2. /\ UndoReach = {hist.cur} \cup {g.before : g \in GroupsOf(hist.undo)}
        /\ Reach' = {hist'.cur} \cup {g.before : g \in GroupsOf(hist'.undo)}
                      \cup {g.after : g \in GroupsOf(hist'.redo)}
    BY <2>1, ReachIsGroups, ReachIsGroupsThen
  <2>3. CASE SameStacks
    BY <2>2, <2>3 DEF SameStacks
  <2>4. CASE Replaced
    <3>1. hist.next =< sess.saved /\ sess.saved < hist.next
      BY <2>1, <2>4, StateFacts DEF Replaced
    <3> QED
      BY <2>1, <3>1, StateFacts, SMT
  <2>5. ASSUME NEW deltas \in Seq(Delta), Edited(deltas)
        PROVE  sess.saved \in Reach'
    <3>1. PICK i \in 1 .. Len(hist'.undo) : hist'.undo[i].before = sess.saved
      BY <1>1, <2>1, <2>5, EditKeepsSaved
    <3> QED
      BY <2>2, <3>1 DEF GroupsOf
  <2>6. CASE hist.undo # <<>> /\ hist' = UndoStep(hist)
    <3> DEFINE g == Last(hist.undo)
    <3>1. /\ hist'.undo = Front(hist.undo) /\ hist'.redo = Append(hist.redo, g) /\ hist'.cur = g.before
      BY <2>1, <2>6, StateFacts, MovedFields
    <3>2. GroupsOf(hist.undo) = GroupsOf(Front(hist.undo)) \cup {g}
      BY <2>1, <2>6, StacksAreGroups, GroupsOfFront
    <3>3. g \in Group /\ g.after = hist.cur
      <4>1. /\ hist.undo \in Seq(Group) /\ UndoPath(hist.undo, hist.cur, hist.next)
        BY <2>1, StacksAreGroups
      <4> QED
        BY <2>6, <4>1, FrontAndLast DEF UndoPath
    <3>4. g \in GroupsOf(Append(hist.redo, g))
      BY <2>1, <3>3, StacksAreGroups, GroupsOfAppend
    <3> HIDE DEF g
    <3> QED
      BY <2>2, <3>1, <3>2, <3>3, <3>4
  <2>7. CASE hist.redo # <<>> /\ hist' = RedoStep(hist)
    <3> DEFINE g == Last(hist.redo)
    <3>1. hist'.undo = Append(hist.undo, g)
      BY <1>1, <2>1, <2>7, RedoneJournal
    <3>2. g \in Group /\ g.before = hist.cur
      <4>1. /\ hist.redo \in Seq(Group) /\ RedoPath(hist.redo, hist.cur, hist.next)
        BY <2>1, StacksAreGroups
      <4> QED
        BY <2>7, <4>1, FrontAndLast DEF RedoPath
    <3>3. GroupsOf(hist'.undo) = GroupsOf(hist.undo) \cup {g}
      BY <2>1, <3>1, <3>2, StacksAreGroups, GroupsOfAppend
    <3> HIDE DEF g
    <3> QED
      BY <2>2, <3>2, <3>3
  <2> QED
    BY <1>1, <2>1, <2>3, <2>4, <2>5, <2>6, <2>7, StepKinds, JournalMoves
<1>2. ASSUME IInv, JournalOK, [Next]_vars
      PROVE  [Kept]_vars
  BY <1>1, <1>2
<1> QED
  BY <1>2, InvariantHolds, JournalHolds, PTL DEF Spec, SaveIsMergeBarrier

-----------------------------------------------------------------------------
(* What the identities stand for.  This needs that no listener of undo or  *)
(* redo raises: nothing takes a replay back that its listener refuses, so  *)
(* that the text would change under the identity (see the violation that   *)
(* EditorReplayListener finds).                                            *)
ReplayListenersReturn == "replay listener" \notin Faults

JournalMeaning ==
  /\ DOMAIN content = Live
  /\ IF Active THEN Leads(content[hist.cur], hist.pend, buffer) ELSE content[hist.cur] = buffer
  /\ \A g \in GroupsOf(hist.undo) \cup GroupsOf(hist.redo) :
       Leads(content[g.before], g.deltas, content[g.after])

SessionMeaning ==
  /\ sess.textId \in Live => sess.text = content[sess.textId]
  /\ sess.saved # NoId => content[sess.saved] = accepted.text /\ ProfileKnown(sess, accepted)

Meaning == JournalMeaning /\ SessionMeaning

LiveIs(h, saved) ==
  {h.cur} \cup {g.before : g \in GroupsOf(h.undo)} \cup {g.after : g \in GroupsOf(h.redo)}
    \cup {saved}

LEMMA LiveIds ==
  ASSUME NEW h, GoodHistory(h), NEW saved \in Nat, saved < h.next
  PROVE  /\ \A i \in LiveIs(h, saved) : i \in Nat /\ i < h.next
         /\ \A g \in GroupsOf(h.undo) \cup GroupsOf(h.redo) :
              g \in Group /\ g.before \in LiveIs(h, saved) /\ g.after \in LiveIs(h, saved)
         /\ h.cur \in LiveIs(h, saved) /\ saved \in LiveIs(h, saved)
<1>1. /\ h \in History /\ UndoPath(h.undo, h.cur, h.next) /\ RedoPath(h.redo, h.cur, h.next)
      /\ h.cur < h.next
  BY GoodHistoryIsPaths DEF GoodHistory
<1>2. h.undo \in Seq(Group) /\ h.redo \in Seq(Group) /\ h.cur \in Nat
  BY <1>1, HistoryFields
<1>3. \A g \in GroupsOf(h.undo) : g \in Group /\ g.before \in Nat /\ g.before < h.next
  BY <1>1, <1>2, GroupIds DEF GroupsOf, UndoPath
<1>4. \A g \in GroupsOf(h.redo) : g \in Group /\ g.after \in Nat /\ g.after < h.next
  BY <1>1, <1>2, GroupIds DEF GroupsOf, RedoPath
<1>5. \A g \in GroupsOf(h.undo) :
        g.after = h.cur \/ \E e \in GroupsOf(h.undo) : g.after = e.before
  BY <1>1, EndsOfGroups
<1>6. \A g \in GroupsOf(h.redo) :
        g.before = h.cur \/ \E e \in GroupsOf(h.redo) : g.before = e.after
  BY <1>1, EndsOfGroups
<1>7. \A i \in LiveIs(h, saved) : i \in Nat /\ i < h.next
  BY <1>1, <1>2, <1>3, <1>4 DEF LiveIs
<1>8. \A g \in GroupsOf(h.undo) : g.before \in LiveIs(h, saved) /\ g.after \in LiveIs(h, saved)
  BY <1>5 DEF LiveIs
<1>9. \A g \in GroupsOf(h.redo) : g.before \in LiveIs(h, saved) /\ g.after \in LiveIs(h, saved)
  BY <1>6 DEF LiveIs
<1> QED
  BY <1>3, <1>4, <1>7, <1>8, <1>9 DEF LiveIs

LEMMA LiveNow ==
  ASSUME StateOK
  PROVE  /\ Live = LiveIs(hist, sess.saved)
         /\ \A i \in Live : i \in Nat /\ i < hist.next
         /\ \A g \in GroupsOf(hist.undo) \cup GroupsOf(hist.redo) :
              g \in Group /\ g.before \in Live /\ g.after \in Live
         /\ hist.cur \in Live /\ sess.saved \in Live
<1>1. Live = LiveIs(hist, sess.saved)
  BY ReachIsGroups DEF Live, LiveIs
<1> QED
  BY <1>1, StateFacts, LiveIds

LEMMA LiveThen ==
  ASSUME StateOK'
  PROVE  /\ Live' = LiveIs(hist', sess'.saved)
         /\ \A g \in GroupsOf(hist'.undo) \cup GroupsOf(hist'.redo) :
              g \in Group /\ g.before \in Live' /\ g.after \in Live'
         /\ hist'.cur \in Live' /\ sess'.saved \in Live'
<1>1. Live' = LiveIs(hist', sess'.saved)
  BY ReachIsGroupsThen DEF Live, LiveIs
<1>2. GoodHistory(hist') /\ sess'.saved \in Nat /\ sess'.saved < hist'.next
  BY SessionFields DEF StateOK
<1> QED
  BY <1>1, <1>2, LiveIds

(* What is recorded of a step, and what it keeps.                          *)
KeepsContent == \A i \in Live \cap Live' : content'[i] = content[i]

LEMMA Observed ==
  ASSUME JournalMeaning, Observe
  PROVE  /\ DOMAIN content' = Live'
         /\ ~GroupActive(hist') /\ hist'.cur \in Live' => content'[hist'.cur] = buffer'
         /\ \A i \in Live \cap Live' :
              i # hist'.cur \/ GroupActive(hist') => content'[i] = content[i]
         /\ \A i \in Live' :
              i # hist'.cur /\ i \notin Live => content'[i] = accepted'.text
<1>1. content' = [i \in Live' |->
                    IF i = hist'.cur /\ ~GroupActive(hist') THEN buffer'
                    ELSE IF i \in DOMAIN content THEN content[i]
                    ELSE accepted'.text]
  BY DEF Observe
<1>2. DOMAIN content = Live
  BY DEF JournalMeaning
<1> QED
  BY <1>1, <1>2, Zenon

LEMMA KeepsWhen ==
  ASSUME JournalMeaning, Observe,
         ~GroupActive(hist') /\ hist'.cur \in Live => buffer' = content[hist'.cur]
  PROVE  KeepsContent
<1> SUFFICES ASSUME NEW i \in Live \cap Live'
             PROVE  content'[i] = content[i]
  BY DEF KeepsContent
<1>1. CASE i # hist'.cur \/ GroupActive(hist')
  BY <1>1, Observed
<1>2. CASE i = hist'.cur /\ ~GroupActive(hist')
  BY <1>2, Observed
<1> QED
  BY <1>1, <1>2

LEMMA OldGroupsLead ==
  ASSUME StateOK, StateOK', JournalMeaning, KeepsContent,
         NEW g \in GroupsOf(hist.undo) \cup GroupsOf(hist.redo),
         g \in GroupsOf(hist'.undo) \cup GroupsOf(hist'.redo)
  PROVE  Leads(content'[g.before], g.deltas, content'[g.after])
<1>1. g.before \in Live \cap Live' /\ g.after \in Live \cap Live'
  BY LiveNow, LiveThen
<1>2. content'[g.before] = content[g.before] /\ content'[g.after] = content[g.after]
  BY <1>1 DEF KeepsContent
<1> QED
  BY <1>2 DEF JournalMeaning

(* The session keeps its text and its saved state.                         *)
LEMMA SessionKept ==
  ASSUME StateOK, StateOK', SessionMeaning, KeepsContent,
         \A i \in Live' : i \in Live \/ hist.next =< i,
         sess'.textId = sess.textId, sess'.text = sess.text,
         sess'.saved = sess.saved, sess'.savedProf = sess.savedProf, accepted' = accepted
  PROVE  SessionMeaning'
<1>1. ASSUME sess'.textId \in Live'
      PROVE  sess'.text = content'[sess'.textId]
  <2>1. sess.textId \in Live
    <3>1. ~(hist.next =< sess.textId)
      BY StateFacts, SMT
    <3> QED
      BY <1>1, <3>1
  <2>2. content'[sess.textId] = content[sess.textId]
    BY <1>1, <2>1 DEF KeepsContent
  <2> QED
    BY <2>1, <2>2 DEF SessionMeaning
<1>2. ASSUME sess'.saved # NoId
      PROVE  content'[sess'.saved] = accepted'.text /\ ProfileKnown(sess', accepted')
  <2>1. sess.saved \in Live \cap Live'
    BY LiveNow, LiveThen
  <2>2. content'[sess.saved] = content[sess.saved]
    BY <2>1 DEF KeepsContent
  <2> QED
    BY <1>2, <2>2 DEF SessionMeaning, ProfileKnown
<1> QED
  BY <1>1, <1>2 DEF SessionMeaning

LEMMA LiveStays ==
  ASSUME StateOK, StateOK', SameStacks
  PROVE  /\ Live' = LiveIs(hist, sess'.saved)
         /\ sess'.saved \in {hist.cur, sess.saved} => Live' \subseteq Live
<1>1. Live' = LiveIs(hist, sess'.saved) /\ Live = LiveIs(hist, sess.saved)
  BY LiveNow, LiveThen DEF SameStacks, LiveIs
<1> QED
  BY <1>1 DEF LiveIs

(* A step that moves nothing.                                              *)
LEMMA StayedMeaning ==
  ASSUME StateOK, StateOK', JournalMeaning, Observe,
         SameStacks, hist'.pend = hist.pend, hist'.pendBefore = hist.pendBefore,
         buffer' = buffer
  PROVE  JournalMeaning' /\ KeepsContent
<1>1. hist'.cur = hist.cur /\ (GroupActive(hist') <=> Active)
  BY DEF SameStacks, Active, GroupActive
<1>2. KeepsContent
  BY <1>1, KeepsWhen DEF JournalMeaning
<1>3. hist.cur \in Live \cap Live'
  BY <1>1, LiveNow, LiveThen
<1>4. content'[hist'.cur] = content[hist.cur]
  BY <1>1, <1>2, <1>3 DEF KeepsContent
<1>5. \A g \in GroupsOf(hist'.undo) \cup GroupsOf(hist'.redo) :
        Leads(content'[g.before], g.deltas, content'[g.after])
  BY <1>2, OldGroupsLead DEF SameStacks
<1> QED
  BY <1>1, <1>2, <1>4, <1>5, Observed DEF JournalMeaning, Active

LEMMA BegunMeaning ==
  ASSUME StateOK, StateOK', JournalMeaning, Observe, BeginUserAction
  PROVE  JournalMeaning' /\ KeepsContent /\ SameStacks
<1>1. /\ ~Active /\ hist' = BeginGroup(hist) /\ buffer' = buffer /\ hist.cur # NoId
  BY DEF BeginUserAction
<1>2. SameStacks /\ hist'.pend = <<>> /\ hist'.pendBefore = hist.cur
  BY <1>1, StateFacts, GroupFields DEF SameStacks
<1>3. GroupActive(hist')
  BY <1>1, <1>2 DEF GroupActive
<1>4. KeepsContent
  BY <1>3, KeepsWhen
<1>5. hist'.cur = hist.cur /\ hist.cur \in Live \cap Live'
  BY <1>2, LiveNow, LiveThen DEF SameStacks
<1>6. content'[hist'.cur] = buffer'
  BY <1>1, <1>4, <1>5 DEF KeepsContent, JournalMeaning
<1>7. Leads(content'[hist'.cur], hist'.pend, buffer')
  BY <1>2, <1>6, NothingLeads
<1>8. \A g \in GroupsOf(hist'.undo) \cup GroupsOf(hist'.redo) :
        Leads(content'[g.before], g.deltas, content'[g.after])
  BY <1>2, <1>4, OldGroupsLead DEF SameStacks
<1> QED
  BY <1>2, <1>3, <1>4, <1>7, <1>8, Observed DEF JournalMeaning, Active

LEMMA NothingEditedMeaning ==
  ASSUME StateOK, StateOK', JournalMeaning, Observe, NothingEdited
  PROVE  JournalMeaning' /\ KeepsContent /\ SameStacks
<1>1. Active /\ hist' = AbortGroup(hist) /\ buffer' = buffer /\ hist.pend = <<>>
  BY DEF NothingEdited
<1>2. SameStacks /\ hist'.pendBefore = NoId
  BY <1>1, StateFacts, GroupFields DEF SameStacks
<1>3. ~GroupActive(hist') /\ hist'.cur = hist.cur
  BY <1>2 DEF GroupActive, SameStacks
<1>4. content[hist.cur] = buffer
  BY <1>1, NothingLeads DEF JournalMeaning
<1>5. KeepsContent
  BY <1>1, <1>3, <1>4, KeepsWhen
<1>6. content'[hist'.cur] = buffer'
  BY <1>3, LiveThen, Observed
<1>7. \A g \in GroupsOf(hist'.undo) \cup GroupsOf(hist'.redo) :
        Leads(content'[g.before], g.deltas, content'[g.after])
  BY <1>2, <1>5, OldGroupsLead DEF SameStacks
<1> QED
  BY <1>2, <1>3, <1>5, <1>6, <1>7, Observed DEF JournalMeaning, Active

LEMMA RecordedMeaning ==
  ASSUME StateOK, StateOK', JournalMeaning, Observe, NEW d \in Delta, Recorded(d)
  PROVE  JournalMeaning' /\ KeepsContent /\ SameStacks
<1>1. /\ Active /\ hist' = Record(hist, d) /\ Step(buffer, AsOperation(d), buffer')
      /\ d.kind = "insert" => d.dir # "backward"
  BY DEF Recorded
<1>2. SameStacks /\ hist'.pend = Append(hist.pend, d) /\ hist'.pendBefore = hist.pendBefore
  BY <1>1, StateFacts, GroupFields DEF SameStacks
<1>3. GroupActive(hist') /\ hist'.cur = hist.cur
  BY <1>1, <1>2 DEF Active, GroupActive, SameStacks
<1>4. KeepsContent
  BY <1>3, KeepsWhen
<1>5. hist.cur \in Live \cap Live'
  BY <1>3, LiveNow, LiveThen
<1>6. content'[hist'.cur] = content[hist.cur]
  BY <1>3, <1>4, <1>5 DEF KeepsContent
<1>7. Leads(content[hist.cur], hist.pend, buffer) /\ hist.pend \in Seq(Delta)
  BY <1>1, StateFacts, HistoryFields DEF JournalMeaning
<1>8. Leads(content[hist.cur], Append(hist.pend, d), buffer')
  BY <1>1, <1>7, OneMoreLeads
<1>9. \A g \in GroupsOf(hist'.undo) \cup GroupsOf(hist'.redo) :
        Leads(content'[g.before], g.deltas, content'[g.after])
  BY <1>2, <1>4, OldGroupsLead DEF SameStacks
<1> QED
  BY <1>2, <1>3, <1>4, <1>6, <1>8, <1>9, Observed DEF JournalMeaning, Active

(* An edit: its group leads from the text of the old identity to that of   *)
(* the new one, and so does the group it coalesces to.                     *)
LEMMA EditedMeaning ==
  ASSUME StateOK, ContentOK, StateOK', JournalMeaning, Observe,
         NEW deltas \in Seq(Delta), Edited(deltas)
  PROVE  /\ JournalMeaning' /\ KeepsContent
         /\ \A i \in Live' : i \in Live \/ hist.next =< i
         /\ content'[hist.next] = buffer'
<1> DEFINE e == EditGroup(deltas)
           p == Pushed(hist.undo, e, sess.saved)
           m == MergedGroup(Last(hist.undo), e)
<1>1. /\ e \in Group /\ e.before = hist.cur /\ e.after = hist.next /\ e.deltas = deltas
      /\ hist'.undo = Trim(p) /\ hist'.redo = <<>> /\ hist'.cur = hist.next
      /\ hist'.pendBefore = NoId
  BY EditedFacts DEF EditGroup
<1>2. hist.next \notin Live /\ hist.next \in Nat
  <2>1. \A i \in Live : i \in Nat /\ i < hist.next
    BY LiveNow
  <2>2. ~(hist.next < hist.next)
    BY StateFacts, SMT
  <2> QED
    BY <2>1, <2>2, StateFacts
<1>3. KeepsContent
  BY <1>1, <1>2, KeepsWhen
<1>4. ~GroupActive(hist')
  BY <1>1 DEF GroupActive
<1>5. content'[hist.next] = buffer'
  BY <1>1, <1>4, LiveThen, Observed
<1>6. Leads(content[hist.cur], deltas, buffer')
  BY DEF Edited, JournalMeaning
<1> HIDE DEF e
<1>7. hist.undo \in Seq(Group) /\ UndoPath(hist.undo, hist.cur, hist.next)
  BY StacksAreGroups
<1>8. p \in Seq(Group) /\ p # <<>>
  <2>1. UndoPath(p, e.after, hist.next) /\ p # <<>>
    BY <1>1, <1>7, StateFacts, PushedPath
  <2> QED
    BY <2>1 DEF UndoPath
<1> HIDE DEF m
<1>9. ASSUME NEW g \in GroupsOf(hist'.undo) \cup GroupsOf(hist'.redo)
      PROVE  /\ \/ g \in GroupsOf(hist.undo)
                \/ g = e
                \/ hist.undo # <<>> /\ Mergeable(Last(hist.undo), e, sess.saved) /\ g = m
  <2>1. GroupsOf(<<>>) = {}
    BY SMT DEF GroupsOf
  <2>2. g \in GroupsOf(p)
    <3> HIDE DEF p
    <3> QED
      BY <1>1, <1>8, <2>1, GroupsOfTrim
  <2> QED
    BY <1>1, <1>7, <2>2, GroupsOfPushed DEF m
<1>10. ASSUME hist.undo # <<>>, Mergeable(Last(hist.undo), e, sess.saved)
       PROVE  /\ Last(hist.undo) \in GroupsOf(hist.undo) /\ Last(hist.undo) \in Group
              /\ Last(hist.undo).after = hist.cur /\ SameRun(Last(hist.undo), e)
              /\ m.before = Last(hist.undo).before /\ m.after = hist.next
  <2>1. Last(hist.undo) \in Group /\ Last(hist.undo) \in GroupsOf(hist.undo)
    BY <1>7, <1>10, FrontAndLast, GroupsOfFront
  <2>2. Last(hist.undo).after = hist.cur
    BY <1>7, <1>10, FrontAndLast DEF UndoPath
  <2>3. SameRun(Last(hist.undo), e)
    BY <1>10 DEF Mergeable
  <2> QED
    BY <1>1, <2>1, <2>2, <2>3, MergedGroupType DEF m
<1> HIDE DEF p
<1>11. ASSUME NEW g \in GroupsOf(hist'.undo) \cup GroupsOf(hist'.redo)
       PROVE  /\ Leads(content'[g.before], g.deltas, content'[g.after])
              /\ g.before \in Live
  <2>1. g.before \in Live' /\ g.after \in Live'
    BY <1>11, LiveThen
  <2>2. CASE g \in GroupsOf(hist.undo)
    BY <1>3, <1>11, <2>2, LiveNow, OldGroupsLead
  <2>3. CASE g = e
    <3>1. hist.cur \in Live
      BY LiveNow
    <3>2. content'[hist.cur] = content[hist.cur]
      BY <1>1, <1>3, <2>1, <2>3, <3>1 DEF KeepsContent
    <3> QED
      BY <1>1, <1>5, <1>6, <2>3, <3>1, <3>2
  <2>4. CASE hist.undo # <<>> /\ Mergeable(Last(hist.undo), e, sess.saved) /\ g = m
    <3> DEFINE prev == Last(hist.undo)
    <3>1. /\ prev \in GroupsOf(hist.undo) /\ prev \in Group /\ prev.after = hist.cur
          /\ SameRun(prev, e) /\ m.before = prev.before /\ m.after = hist.next
      BY <1>10, <2>4
    <3> HIDE DEF prev
    <3>2. Leads(content[prev.before], prev.deltas, content[hist.cur])
      BY <3>1 DEF JournalMeaning
    <3>3. prev.before \in Live
      BY <3>1, LiveNow
    <3>4. content[prev.before] \in Texts
      BY <3>3 DEF ContentOK, JournalMeaning
    <3>5. m = MergedGroup(prev, e)
      BY DEF m, prev
    <3>6. Leads(content[prev.before], m.deltas, buffer')
      BY <1>1, <1>6, <3>1, <3>2, <3>4, <3>5, MergedLeads
    <3>7. content'[prev.before] = content[prev.before]
      BY <1>3, <2>1, <2>4, <3>1, <3>3 DEF KeepsContent
    <3> QED
      BY <1>5, <2>4, <3>1, <3>3, <3>6, <3>7
  <2> QED
    BY <1>9, <1>11, <2>2, <2>3, <2>4
<1>12. \A i \in Live' : i \in Live \/ hist.next =< i
  <2>1. Live' = LiveIs(hist', sess'.saved)
    BY LiveThen
  <2>2. GroupsOf(hist'.redo) = {}
    BY <1>1, SMT DEF GroupsOf
  <2>3. sess'.saved = sess.saved
    BY StateFacts, AdvanceEditorStateType DEF Edited
  <2>4. hist.next =< hist.next /\ sess.saved \in Live
    BY StateFacts, LiveNow, SMT
  <2> QED
    BY <1>1, <1>11, <2>1, <2>2, <2>3, <2>4 DEF LiveIs
<1> QED
  BY <1>1, <1>3, <1>4, <1>5, <1>11, <1>12, Observed DEF JournalMeaning, Active

(* The next undo and the next redo find what they expect.                  *)
LEMMA NextUndo ==
  ASSUME StateOK, ContentOK, JournalMeaning, ~Active, hist.undo # <<>>
  PROVE  LET g == Last(hist.undo)
         IN  /\ g \in Group /\ g \in GroupsOf(hist.undo) /\ g.after = hist.cur
             /\ Makes(buffer, UndoOperations(g), content[g.before])
<1> DEFINE g == Last(hist.undo)
<1>1. hist.undo \in Seq(Group) /\ UndoPath(hist.undo, hist.cur, hist.next)
  BY StacksAreGroups
<1>2. g \in Group /\ g \in GroupsOf(hist.undo)
  BY <1>1, FrontAndLast, GroupsOfFront
<1>3. g.after = hist.cur
  BY <1>1, FrontAndLast DEF UndoPath
<1> HIDE DEF g
<1>4. Leads(content[g.before], g.deltas, buffer)
  BY <1>2, <1>3 DEF JournalMeaning
<1>5. g.before \in Live
  BY <1>2, LiveNow
<1>6. content[g.before] \in Texts
  BY <1>5 DEF ContentOK, JournalMeaning
<1>7. Makes(buffer, UndoOperations(g), content[g.before])
  BY <1>2, <1>4, <1>6, GroupReplays
<1> QED
  BY <1>2, <1>3, <1>7 DEF g

LEMMA NextRedo ==
  ASSUME StateOK, ContentOK, JournalMeaning, ~Active, hist.redo # <<>>
  PROVE  LET g == Last(hist.redo)
         IN  /\ g \in Group /\ g \in GroupsOf(hist.redo) /\ g.before = hist.cur
             /\ Makes(buffer, RedoOperations(g), content[g.after])
<1> DEFINE g == Last(hist.redo)
<1>1. hist.redo \in Seq(Group) /\ RedoPath(hist.redo, hist.cur, hist.next)
  BY StacksAreGroups
<1>2. g \in Group /\ g \in GroupsOf(hist.redo)
  BY <1>1, FrontAndLast, GroupsOfFront
<1>3. g.before = hist.cur
  BY <1>1, FrontAndLast DEF RedoPath
<1> HIDE DEF g
<1>4. Leads(buffer, g.deltas, content[g.after])
  BY <1>2, <1>3 DEF JournalMeaning
<1>5. Makes(buffer, RedoOperations(g), content[g.after])
  BY <1>2, <1>4, StateFacts, GroupReplays
<1> QED
  BY <1>2, <1>3, <1>5 DEF g

(* A replay that fails part way is taken back by the buffer.               *)
LEMMA FailedReplayRestores ==
  ASSUME StateOK, ReplayListenersReturn, NEW ops \in Seq(ReplayOperation), NEW u,
         Makes(buffer, ops, u), NEW text \in AfterFailedReplay(ops)
  PROVE  text = buffer
<1>1. ~Raises("replay listener")
  BY DEF ReplayListenersReturn, Raises
<1>2. PICK k \in 0 .. Len(ops) - 1 : InterruptedAfter(ops, k) /\ text = RolledBack(buffer, ops, k)
  BY <1>1 DEF AfterFailedReplay
<1>3. k \in 0 .. Len(ops) /\ FirstApply(buffer, ops, k)
  BY <1>2, SMT DEF InterruptedAfter
<1>4. Fits(buffer, ops)
  BY DEF Makes, Fits
<1> QED
  BY <1>2, <1>3, <1>4, StateFacts, FittingIsTakenBack

LEMMA ReplayFailedRefuses ==
  ASSUME StateOK, ContentOK, JournalMeaning, ReplayListenersReturn, ReplayFailed
  PROVE  Refused
<1>1. CASE hist.undo # <<>> /\ buffer' \in AfterFailedReplay(UndoOperations(Last(hist.undo)))
  <2> DEFINE g == Last(hist.undo)
  <2>1. g \in Group /\ Makes(buffer, UndoOperations(g), content[g.before])
    BY <1>1, NextUndo DEF ReplayFailed
  <2> HIDE DEF g
  <2>2. UndoOperations(g) \in Seq(ReplayOperation)
    BY <2>1, ReplayOperationsType
  <2>3. buffer' \in AfterFailedReplay(UndoOperations(g))
    BY <1>1 DEF g
  <2>4. buffer' = buffer
    BY <2>1, <2>2, <2>3, FailedReplayRestores
  <2> QED
    BY <2>4 DEF ReplayFailed, Refused
<1>2. CASE hist.redo # <<>> /\ buffer' \in AfterFailedReplay(RedoOperations(Last(hist.redo)))
  <2> DEFINE g == Last(hist.redo)
  <2>1. g \in Group /\ Makes(buffer, RedoOperations(g), content[g.after])
    BY <1>2, NextRedo DEF ReplayFailed
  <2> HIDE DEF g
  <2>2. RedoOperations(g) \in Seq(ReplayOperation)
    BY <2>1, ReplayOperationsType
  <2>3. buffer' \in AfterFailedReplay(RedoOperations(g))
    BY <1>2 DEF g
  <2>4. buffer' = buffer
    BY <2>1, <2>2, <2>3, FailedReplayRestores
  <2> QED
    BY <2>4 DEF ReplayFailed, Refused
<1> QED
  BY <1>1, <1>2 DEF ReplayFailed

(* Undo and redo: the same groups, one of them in the other stack.         *)
LEMMA ShiftedMeaning ==
  ASSUME StateOK, StateOK', JournalMeaning, Observe,
         sess'.saved = sess.saved, ~GroupActive(hist'),
         GroupsOf(hist'.undo) \cup GroupsOf(hist'.redo)
           = GroupsOf(hist.undo) \cup GroupsOf(hist.redo),
         hist'.cur \in Live, buffer' = content[hist'.cur]
  PROVE  /\ JournalMeaning' /\ KeepsContent /\ content'[hist'.cur] = buffer'
         /\ \A i \in Live' : i \in Live \/ hist.next =< i
<1>1. KeepsContent
  BY KeepsWhen
<1>2. content'[hist'.cur] = buffer'
  BY LiveThen, Observed
<1>3. \A g \in GroupsOf(hist'.undo) \cup GroupsOf(hist'.redo) :
        Leads(content'[g.before], g.deltas, content'[g.after])
  BY <1>1, OldGroupsLead
<1>4. Live' \subseteq Live
  <2>1. Live' = LiveIs(hist', sess.saved)
    BY LiveThen
  <2> QED
    BY <2>1, LiveNow DEF LiveIs
<1> QED
  BY <1>1, <1>2, <1>3, <1>4, Observed DEF JournalMeaning, Active

LEMMA UndoneMeaning ==
  ASSUME StateOK, ContentOK, StateOK', JournalMeaning, Observe, Undone
  PROVE  /\ JournalMeaning' /\ KeepsContent /\ content'[hist'.cur] = buffer'
         /\ \A i \in Live' : i \in Live \/ hist.next =< i
         /\ buffer' = content[hist'.cur]
<1> DEFINE g == Last(hist.undo)
<1>1. /\ ~Active /\ hist.undo # <<>> /\ hist' = UndoStep(hist)
      /\ buffer' = ApplyOperations(buffer, UndoOperations(g))
      /\ sess' = AdvanceEditorState(sess, g.before)
  BY DEF Undone
<1>2. /\ hist'.undo = Front(hist.undo) /\ hist'.redo = Append(hist.redo, g)
      /\ hist'.cur = g.before /\ hist'.pendBefore = hist.pendBefore
  BY <1>1, StateFacts, MovedFields
<1>3. g \in Group /\ g \in GroupsOf(hist.undo) /\ Makes(buffer, UndoOperations(g), content[g.before])
  BY <1>1, NextUndo
<1>4. GroupsOf(hist.undo) = GroupsOf(Front(hist.undo)) \cup {g}
  BY <1>1, StacksAreGroups, GroupsOfFront
<1> HIDE DEF g
<1>5. GroupsOf(Append(hist.redo, g)) = GroupsOf(hist.redo) \cup {g}
  BY <1>3, StacksAreGroups, GroupsOfAppend
<1>6. GroupsOf(hist'.undo) \cup GroupsOf(hist'.redo) = GroupsOf(hist.undo) \cup GroupsOf(hist.redo)
  BY <1>2, <1>4, <1>5
<1>7. hist'.cur \in Live /\ buffer' = content[hist'.cur] /\ ~GroupActive(hist')
  BY <1>1, <1>2, <1>3, LiveNow DEF Makes, Active, GroupActive
<1>8. sess'.saved = sess.saved
  <2>1. g.before \in Nat
    BY <1>3 DEF Group
  <2> QED
    BY <1>1, <2>1, StateFacts, AdvanceEditorStateType
<1> QED
  BY <1>6, <1>7, <1>8, ShiftedMeaning

LEMMA RedoneMeaning ==
  ASSUME StateOK, ContentOK, StateOK', JournalOK, JournalMeaning, Observe, Redone
  PROVE  /\ JournalMeaning' /\ KeepsContent /\ content'[hist'.cur] = buffer'
         /\ \A i \in Live' : i \in Live \/ hist.next =< i
         /\ buffer' = content[hist'.cur]
<1> DEFINE g == Last(hist.redo)
<1>1. /\ ~Active /\ hist.redo # <<>> /\ hist' = RedoStep(hist)
      /\ buffer' = ApplyOperations(buffer, RedoOperations(g))
      /\ sess' = AdvanceEditorState(sess, g.after)
  BY DEF Redone
<1>2. /\ hist'.undo = Append(hist.undo, g) /\ hist'.redo = Front(hist.redo)
      /\ hist'.cur = g.after /\ hist'.pendBefore = hist.pendBefore
  BY <1>1, StateFacts, MovedFields, RedoneJournal
<1>3. g \in Group /\ g \in GroupsOf(hist.redo) /\ Makes(buffer, RedoOperations(g), content[g.after])
  BY <1>1, NextRedo
<1>4. GroupsOf(hist.redo) = GroupsOf(Front(hist.redo)) \cup {g}
  BY <1>1, StacksAreGroups, GroupsOfFront
<1> HIDE DEF g
<1>5. GroupsOf(Append(hist.undo, g)) = GroupsOf(hist.undo) \cup {g}
  BY <1>3, StacksAreGroups, GroupsOfAppend
<1>6. GroupsOf(hist'.undo) \cup GroupsOf(hist'.redo) = GroupsOf(hist.undo) \cup GroupsOf(hist.redo)
  BY <1>2, <1>4, <1>5
<1>7. hist'.cur \in Live /\ buffer' = content[hist'.cur] /\ ~GroupActive(hist')
  BY <1>1, <1>2, <1>3, LiveNow DEF Makes, Active, GroupActive
<1>8. sess'.saved = sess.saved
  <2>1. g.after \in Nat
    BY <1>3 DEF Group
  <2> QED
    BY <1>1, <2>1, StateFacts, AdvanceEditorStateType
<1> QED
  BY <1>6, <1>7, <1>8, ShiftedMeaning

(* A replaced document: nothing of the old one can be met again.           *)
LEMMA ReplacedMeaning ==
  ASSUME StateOK, StateOK', JournalMeaning, Observe, Replaced
  PROVE  Meaning' /\ KeepsContent
<1>1. /\ hist'.undo = <<>> /\ hist'.redo = <<>> /\ ~GroupActive(hist') /\ hist.next =< hist'.cur
      /\ sess'.text = buffer' /\ sess'.textId = hist'.cur
      /\ sess'.saved = NoId \/ hist.next =< sess'.saved
      /\ sess'.saved = hist'.cur => accepted'.text = buffer'
      /\ sess'.saved # NoId => ProfileKnown(sess', accepted')
  BY DEF Replaced
<1>2. ASSUME NEW i \in Nat, hist.next =< i
      PROVE  i \notin Live
  <2>1. \A j \in Live : j \in Nat /\ j < hist.next
    BY LiveNow
  <2>2. ~(i < hist.next)
    BY <1>2, StateFacts, SMT
  <2> QED
    BY <2>1, <2>2
<1>3. hist'.cur \in Nat /\ sess'.saved \in Nat
  BY HistoryFields, SessionFields DEF StateOK, GoodHistory
<1>4. hist'.cur \notin Live
  BY <1>1, <1>2, <1>3
<1>5. KeepsContent
  BY <1>4, KeepsWhen
<1>6. content'[hist'.cur] = buffer'
  BY <1>1, LiveThen, Observed
<1>7. GroupsOf(hist'.undo) = {} /\ GroupsOf(hist'.redo) = {}
  BY <1>1, SMT DEF GroupsOf
<1>8. JournalMeaning'
  BY <1>1, <1>6, <1>7, Observed DEF JournalMeaning, Active
<1>9. ASSUME sess'.saved # NoId
      PROVE  content'[sess'.saved] = accepted'.text
  <2>1. sess'.saved \notin Live /\ sess'.saved \in Live'
    BY <1>1, <1>2, <1>3, <1>9, LiveThen
  <2> QED
    BY <1>1, <1>6, <2>1, Observed
<1>10. SessionMeaning'
  BY <1>1, <1>6, <1>9 DEF SessionMeaning
<1> QED
  BY <1>5, <1>8, <1>10 DEF Meaning

(* A step that moves nothing and leaves the text and the saved state of    *)
(* the session alone.                                                      *)
LEMMA StayedSession ==
  ASSUME StateOK, StateOK', SessionMeaning, KeepsContent, SameStacks,
         sess'.textId = sess.textId, sess'.text = sess.text,
         sess'.saved = sess.saved, sess'.savedProf = sess.savedProf, accepted' = accepted
  PROVE  SessionMeaning'
<1>1. Live' \subseteq Live
  BY LiveStays
<1> QED
  BY <1>1, SessionKept

LEMMA AdvancedSession ==
  ASSUME StateOK, NEW id \in Nat, sess' = AdvanceEditorState(sess, id)
  PROVE  /\ sess'.textId = sess.textId /\ sess'.text = sess.text
         /\ sess'.saved = sess.saved /\ sess'.savedProf = sess.savedProf
  BY StateFacts, Zenon DEF AdvanceEditorState, Session

LEMMA RefusedMeaning ==
  ASSUME StateOK, StateOK', Meaning, Observe, Refused
  PROVE  Meaning' /\ KeepsContent
<1>1. /\ SameStacks /\ hist'.pend = hist.pend /\ hist'.pendBefore = hist.pendBefore
      /\ buffer' = buffer /\ sess' = sess /\ accepted' = accepted
  BY RestoredFields DEF Refused
<1>2. JournalMeaning' /\ KeepsContent
  BY <1>1, StayedMeaning DEF Meaning
<1>3. SessionMeaning'
  BY <1>1, <1>2, StayedSession DEF Meaning
<1> QED
  BY <1>2, <1>3 DEF Meaning

LEMMA ChosenMeaning ==
  ASSUME StateOK, StateOK', Meaning, Observe, Chosen
  PROVE  Meaning' /\ KeepsContent
<1>1. /\ SameStacks /\ hist'.pend = hist.pend /\ hist'.pendBefore = hist.pendBefore
      /\ buffer' = buffer /\ accepted' = accepted
  BY DEF Chosen, SameStacks
<1>2. /\ sess'.textId = sess.textId /\ sess'.text = sess.text
      /\ sess'.saved = sess.saved /\ sess'.savedProf = sess.savedProf
  BY StateFacts, Zenon DEF Chosen, Session
<1>3. JournalMeaning' /\ KeepsContent
  BY <1>1, StayedMeaning DEF Meaning
<1>4. SessionMeaning'
  BY <1>1, <1>2, <1>3, StayedSession DEF Meaning
<1> QED
  BY <1>3, <1>4 DEF Meaning

(* A Save copies the text of the buffer; a committed one makes it the text *)
(* of the accepted file, and the session knows the profile it was written  *)
(* under, whether or not a fresh baseline could be read.                   *)
LEMMA SaveNotCommittedMeaning ==
  ASSUME StateOK, StateOK', Meaning, Observe, SaveNotCommitted
  PROVE  Meaning' /\ KeepsContent
<1>1. /\ SameStacks /\ hist'.pend = hist.pend /\ hist'.pendBefore = hist.pendBefore
      /\ buffer' = buffer /\ accepted' = accepted /\ ~Active
      /\ sess' = SynchronizeCurrentText(sess, buffer)
  BY DEF SaveNotCommitted, PrepareForSave, SameStacks
<1>2. /\ sess'.textId = hist.cur /\ sess'.text = buffer
      /\ sess'.saved = sess.saved /\ sess'.savedProf = sess.savedProf
  BY <1>1, StateFacts, Zenon DEF SynchronizeCurrentText, Session
<1>3. JournalMeaning' /\ KeepsContent
  BY <1>1, StayedMeaning DEF Meaning
<1>4. content'[hist.cur] = buffer
  BY <1>1, <1>3 DEF JournalMeaning, SameStacks, Active, GroupActive
<1>5. sess.saved \in Live \cap Live'
  BY <1>2, LiveNow, LiveThen
<1>6. sess'.saved # NoId => content'[sess'.saved] = accepted'.text /\ ProfileKnown(sess', accepted')
  BY <1>1, <1>2, <1>3, <1>5 DEF Meaning, SessionMeaning, KeepsContent, ProfileKnown
<1>7. SessionMeaning'
  BY <1>2, <1>4, <1>6 DEF SessionMeaning
<1> QED
  BY <1>3, <1>7 DEF Meaning

LEMMA SaveCommittedMeaning ==
  ASSUME StateOK, StateOK', Meaning, Observe, NEW available \in BOOLEAN, SaveCommitted(available)
  PROVE  /\ Meaning' /\ KeepsContent
         /\ accepted'.text = buffer /\ sess'.saved = hist.cur /\ content'[hist.cur] = buffer
<1> DEFINE synced == SynchronizeCurrentText(sess, buffer)
           onDisk == ProfileAfterWrite(synced.text, synced.prof)
           prof == IF available THEN onDisk ELSE synced.prof
<1>1. /\ SameStacks /\ hist'.pend = hist.pend /\ hist'.pendBefore = hist.pendBefore
      /\ buffer' = buffer /\ ~Active
      /\ sess' = AcceptCommittedSave(synced, synced.cur, synced.prof, prof)
      /\ accepted' = [text |-> synced.text, prof |-> onDisk]
  BY DEF SaveCommitted, PrepareForSave, SameStacks
<1>2. /\ synced \in Session /\ synced.cur = hist.cur /\ synced.textId = hist.cur
      /\ synced.text = buffer
  BY StateFacts, SynchronizeType, Zenon DEF SynchronizeCurrentText, Session
<1> HIDE DEF synced
<1>3. /\ onDisk.enc = synced.prof.enc /\ onDisk.mixed = FALSE
      /\ HasNewline(buffer) => onDisk.eol = synced.prof.eol
  BY <1>2 DEF ProfileAfterWrite
<1>4. prof.enc = onDisk.enc /\ (HasNewline(buffer) => prof.eol = onDisk.eol)
  BY <1>3
<1> HIDE DEF prof, onDisk
<1>5. /\ sess'.textId = hist.cur /\ sess'.text = buffer
      /\ sess'.saved = hist.cur /\ sess'.savedProf = prof
  BY <1>1, <1>2, Zenon DEF AcceptCommittedSave, Session
<1>6. JournalMeaning' /\ KeepsContent
  BY <1>1, StayedMeaning DEF Meaning
<1>7. content'[hist.cur] = buffer
  BY <1>1, <1>6 DEF JournalMeaning, SameStacks, Active, GroupActive
<1>8. accepted'.text = buffer /\ accepted'.prof = onDisk
  BY <1>1, <1>2
<1>9. ProfileKnown(sess', accepted')
  BY <1>3, <1>4, <1>5, <1>8 DEF ProfileKnown
<1>10. SessionMeaning'
  BY <1>5, <1>7, <1>8, <1>9 DEF SessionMeaning
<1> QED
  BY <1>5, <1>6, <1>7, <1>8, <1>10 DEF Meaning

(* Every step keeps the meaning of the identities that stay, and gives a   *)
(* new identity its text.                                                  *)
LEMMA MovedMeaning ==
  ASSUME IInv, JournalOK, Meaning, ReplayListenersReturn, StateOK', Moved, Observe
  PROVE  Meaning' /\ KeepsContent
<1>1. StateOK /\ ContentOK /\ JournalMeaning /\ SessionMeaning
  BY DEF IInv, Meaning
<1>2. ASSUME KeepsContent, JournalMeaning', SameStacks, NEW id \in Nat,
             sess' = AdvanceEditorState(sess, id), accepted' = accepted
      PROVE  Meaning'
  BY <1>1, <1>2, AdvancedSession, StayedSession DEF Meaning
<1>3. ASSUME KeepsContent, JournalMeaning', \A i \in Live' : i \in Live \/ hist.next =< i,
             NEW id \in Nat, sess' = AdvanceEditorState(sess, id), accepted' = accepted
      PROVE  Meaning'
  BY <1>1, <1>3, AdvancedSession, SessionKept DEF Meaning
<1>4. CASE Refused
  BY <1>1, <1>4, RefusedMeaning
<1>5. CASE ReplayFailed
  BY <1>1, <1>5, ReplayFailedRefuses, RefusedMeaning
<1>6. CASE Replaced
  BY <1>1, <1>6, ReplacedMeaning
<1>7. CASE BeginUserAction
  <2>1. JournalMeaning' /\ KeepsContent /\ SameStacks /\ sess' = sess /\ accepted' = accepted
    BY <1>1, <1>7, BegunMeaning DEF BeginUserAction
  <2> QED
    BY <1>1, <2>1, StayedSession DEF Meaning
<1>8. ASSUME NEW d \in Delta, Recorded(d)
      PROVE  Meaning' /\ KeepsContent
  <2>1. JournalMeaning' /\ KeepsContent /\ SameStacks /\ sess' = sess /\ accepted' = accepted
    BY <1>1, <1>8, RecordedMeaning DEF Recorded
  <2> QED
    BY <1>1, <2>1, StayedSession DEF Meaning
<1>9. ASSUME NEW deltas \in Seq(Delta), Edited(deltas)
      PROVE  Meaning' /\ KeepsContent
  <2>1. /\ JournalMeaning' /\ KeepsContent
        /\ \A i \in Live' : i \in Live \/ hist.next =< i
    BY <1>1, <1>9, EditedMeaning
  <2>2. sess' = AdvanceEditorState(sess, hist.next) /\ accepted' = accepted /\ hist.next \in Nat
    BY <1>1, <1>9, StateFacts DEF Edited
  <2> QED
    BY <1>3, <2>1, <2>2
<1>10. CASE NothingEdited
  <2>1. JournalMeaning' /\ KeepsContent /\ SameStacks
    BY <1>1, <1>10, NothingEditedMeaning
  <2>2. sess' = AdvanceEditorState(sess, hist.cur) /\ accepted' = accepted /\ hist.cur \in Nat
    BY <1>1, <1>10, StateFacts DEF NothingEdited
  <2> QED
    BY <1>2, <2>1, <2>2
<1>11. CASE Undone
  <2>1. /\ JournalMeaning' /\ KeepsContent
        /\ \A i \in Live' : i \in Live \/ hist.next =< i
    BY <1>1, <1>11, UndoneMeaning
  <2>2. /\ ~Active /\ hist.undo # <<>> /\ accepted' = accepted
        /\ sess' = AdvanceEditorState(sess, Last(hist.undo).before)
    BY <1>11 DEF Undone
  <2>3. Last(hist.undo).before \in Nat
    BY <1>1, <2>2, NextUndo DEF Group
  <2> QED
    BY <1>3, <2>1, <2>2, <2>3
<1>12. CASE Redone
  <2>1. /\ JournalMeaning' /\ KeepsContent
        /\ \A i \in Live' : i \in Live \/ hist.next =< i
    BY <1>1, <1>12, RedoneMeaning
  <2>2. /\ ~Active /\ hist.redo # <<>> /\ accepted' = accepted
        /\ sess' = AdvanceEditorState(sess, Last(hist.redo).after)
    BY <1>12 DEF Redone
  <2>3. Last(hist.redo).after \in Nat
    BY <1>1, <2>2, NextRedo DEF Group
  <2> QED
    BY <1>3, <2>1, <2>2, <2>3
<1>13. CASE Chosen
  BY <1>1, <1>13, ChosenMeaning
<1>14. CASE SaveNotCommitted
  BY <1>1, <1>14, SaveNotCommittedMeaning
<1>15. ASSUME NEW available \in BOOLEAN, SaveCommitted(available)
       PROVE  Meaning' /\ KeepsContent
  BY <1>1, <1>15, SaveCommittedMeaning
<1> QED
  BY <1>4, <1>5, <1>6, <1>7, <1>8, <1>9, <1>10, <1>11, <1>12, <1>13, <1>14, <1>15, Zenon DEF Moved

LEMMA MeaningNext ==
  ASSUME IInv, JournalOK, Meaning, ReplayListenersReturn, [Next]_vars
  PROVE  Meaning'
<1>1. CASE Next
  <2>1. StateOK'
    BY NextOK DEF IInv
  <2> QED
    BY <1>1, <2>1, StepKinds, MovedMeaning DEF IInv
<1>2. CASE UNCHANGED vars
  <2>1. Live' = Live /\ (Active' <=> Active)
    BY <1>2 DEF vars, Live, Reach, UndoReach, Active, GroupActive
  <2> QED
    BY <1>2, <2>1 DEF vars, Meaning, JournalMeaning, SessionMeaning, ProfileKnown
<1> QED
  BY <1>1, <1>2

LEMMA MeaningStarts ==
  ASSUME Init
  PROVE  Meaning
<1>1. hist.undo = <<>> /\ hist.redo = <<>> /\ hist.cur = NoId /\ hist.pendBefore = NoId
  BY DEF Init, EmptyHistory
<1>2. sess.saved = NoId /\ sess.textId = NoId /\ sess.text = <<>> /\ buffer = <<>>
  BY Zenon DEF Init, Established
<1>3. GroupsOf(hist.undo) = {} /\ GroupsOf(hist.redo) = {}
  BY <1>1, SMT DEF GroupsOf
<1>4. Live = {NoId}
  <2>1. StateOK
    BY InitOK DEF IInv
  <2> QED
    BY <1>1, <1>2, <1>3, <2>1, LiveNow DEF LiveIs
<1>5. content[NoId] = <<>> /\ DOMAIN content = {NoId}
  BY DEF Init
<1>6. JournalMeaning
  BY <1>1, <1>2, <1>3, <1>4, <1>5 DEF JournalMeaning, Active, GroupActive
<1>7. SessionMeaning
  BY <1>2, <1>5 DEF SessionMeaning
<1> QED
  BY <1>6, <1>7 DEF Meaning

LEMMA MeaningHolds ==
  ASSUME ReplayListenersReturn
  PROVE  Spec => []Meaning
<1>1. Init => Meaning
  BY MeaningStarts
<1>2. IInv /\ JournalOK /\ Meaning /\ [Next]_vars => Meaning'
  BY MeaningNext
<1> QED
  BY <1>1, <1>2, InvariantHolds, JournalHolds, PTL DEF Spec

(* The next undo and the next redo find the text they expect and make the  *)
(* text of their target, after any history of edits, coalescing, trimming, *)
(* saves and failures.                                                     *)
THEOREM ReplayIsReady == ASSUME ReplayListenersReturn PROVE Spec => []ReplayReady
<1>1. ASSUME IInv, Meaning PROVE ReplayReady
  <2>1. StateOK /\ ContentOK /\ JournalMeaning
    BY <1>1 DEF IInv, Meaning
  <2>2. ASSUME ~Active, hist.undo # <<>>
        PROVE  LET g == Last(hist.undo)
               IN  /\ AllApply(buffer, UndoOperations(g))
                   /\ ApplyOperations(buffer, UndoOperations(g)) = content[g.before]
    BY <2>1, <2>2, NextUndo DEF Makes
  <2>3. ASSUME ~Active, hist.redo # <<>>
        PROVE  LET g == Last(hist.redo)
               IN  /\ AllApply(buffer, RedoOperations(g))
                   /\ ApplyOperations(buffer, RedoOperations(g)) = content[g.after]
    BY <2>1, <2>3, NextRedo DEF Makes
  <2> QED
    BY <2>2, <2>3 DEF ReplayReady
<1> QED
  BY <1>1, InvariantHolds, MeaningHolds, PTL

(* What Save is handed is what is on screen whenever the session claims    *)
(* its copy is current: undo and redo may return to the identity the copy  *)
(* was made under, and then its text is back too.                          *)
THEOREM SynchronizedTextHolds ==
  ASSUME ReplayListenersReturn PROVE Spec => []SynchronizedTextIsExact
<1>1. ASSUME IInv, Meaning PROVE SynchronizedTextIsExact
  <2>1. StateOK /\ JournalMeaning /\ SessionMeaning /\ sess.cur = hist.cur /\ hist.cur \in Live
    BY <1>1, StateFacts, LiveNow DEF IInv, Meaning
  <2> QED
    BY <2>1 DEF JournalMeaning, SessionMeaning, SynchronizedTextIsExact
<1> QED
  BY <1>1, InvariantHolds, MeaningHolds, PTL

(* Saved means what it says: text, encoding, line endings and their        *)
(* mixture are those of the accepted file.                                 *)
THEOREM SavedMeansAcceptedHolds ==
  ASSUME ReplayListenersReturn PROVE Spec => []SavedMeansAccepted
<1>1. ASSUME IInv, Meaning, ~Modified(sess), ~Active
      PROVE  /\ buffer = accepted.text
             /\ sess.prof.enc = accepted.prof.enc
             /\ HasNewline(buffer) => sess.prof.eol = accepted.prof.eol
             /\ accepted.prof.mixed => sess.prof.mixed
  <2>1. sess.saved # NoId /\ sess.cur = sess.saved /\ sess.prof = sess.savedProf /\ sess.cur = hist.cur
    BY <1>1, StateFacts DEF Modified, IInv
  <2>2. content[hist.cur] = buffer /\ content[sess.saved] = accepted.text /\ ProfileKnown(sess, accepted)
    BY <1>1, <2>1 DEF Meaning, JournalMeaning, SessionMeaning
  <2> QED
    BY <2>1, <2>2 DEF ProfileKnown
<1>2. IInv /\ Meaning => SavedMeansAccepted
  BY <1>1 DEF SavedMeansAccepted
<1> QED
  BY <1>2, InvariantHolds, MeaningHolds, PTL

(* No step gives an identity that stays another text: what lets the        *)
(* session compare identities where it means texts.                        *)
THEOREM IdentitiesAreContents == ASSUME ReplayListenersReturn PROVE Spec => IdentityIsContent
<1>1. ASSUME IInv, JournalOK, Meaning, [Next]_vars
      PROVE  [\A i \in Live \cap Live' : content'[i] = content[i]]_vars
  <2>1. StateOK'
    BY <1>1, NextOK DEF IInv
  <2>2. Next => KeepsContent
    BY <1>1, <2>1, StepKinds, MovedMeaning DEF IInv
  <2> QED
    BY <1>1, <2>2 DEF KeepsContent
<1> QED
  BY <1>1, InvariantHolds, JournalHolds, MeaningHolds, PTL DEF Spec, IdentityIsContent

(* An operation that raises has changed neither buffer, nor journal, nor   *)
(* session, whichever of its calls raised.                                 *)
THEOREM FailuresRestore == ASSUME ReplayListenersReturn PROVE Spec => FailedOperationRestores
<1> DEFINE Restores ==
             raised' =>
               /\ buffer' = buffer
               /\ [hist' EXCEPT !.next = hist.next] = hist /\ hist'.next >= hist.next
               /\ [sess' EXCEPT !.text = sess.text, !.textId = sess.textId] = sess
<1>1. ASSUME IInv, Meaning, Next
      PROVE  Restores
  <2>1. StateOK /\ ContentOK /\ JournalMeaning /\ Moved
    BY <1>1, StepKinds DEF IInv, Meaning
  <2>2. /\ hist.next \in Nat /\ hist.next >= hist.next /\ [hist EXCEPT !.next = hist.next] = hist
    BY <2>1, StateFacts, SMT DEF History
  <2>3. [sess EXCEPT !.text = sess.text, !.textId = sess.textId] = sess
    BY <2>1, StateFacts, Zenon DEF Session
  <2>4. ASSUME Refused
        PROVE  Restores
    <3>1. PICK n \in Nat : hist.next =< n /\ hist' = [hist EXCEPT !.next = n]
      BY <2>4 DEF Refused, Restored
    <3>2. [hist' EXCEPT !.next = hist.next] = hist /\ hist'.next = n
      BY <2>1, <3>1, StateFacts, Zenon DEF History
    <3>3. hist'.next >= hist.next
      BY <2>2, <3>1, <3>2, SMT
    <3> QED
      BY <2>3, <2>4, <3>2, <3>3 DEF Refused
  <2>5. ASSUME SaveNotCommitted
        PROVE  Restores
    <3>1. sess' = SynchronizeCurrentText(sess, buffer) /\ buffer' = buffer /\ hist' = hist
      BY <2>5 DEF SaveNotCommitted
    <3>2. [sess' EXCEPT !.text = sess.text, !.textId = sess.textId] = sess
      BY <2>1, <3>1, StateFacts, Zenon DEF SynchronizeCurrentText, Session
    <3> QED
      BY <2>2, <3>1, <3>2
  <2>6. raised' => Refused \/ ReplayFailed \/ SaveNotCommitted
    BY <2>1 DEF Moved, Replaced, BeginUserAction, Recorded, Edited, NothingEdited, Undone, Redone,
       Chosen, SaveCommitted
  <2> QED
    BY <2>1, <2>4, <2>5, <2>6, ReplayFailedRefuses
<1>2. ASSUME IInv, Meaning, [Next]_vars
      PROVE  [Restores]_vars
  BY <1>1, <1>2
<1> QED
  BY <1>2, InvariantHolds, MeaningHolds, PTL DEF Spec, FailedOperationRestores

-----------------------------------------------------------------------------
(* The journal as a list of texts: those that the groups of a stack lead   *)
(* from, and those that they lead to.                                      *)
Befores(stack, texts) == [i \in DOMAIN stack |-> texts[stack[i].before]]

Afters(stack, texts) == [i \in DOMAIN stack |-> texts[stack[i].after]]

LEMMA MemberIsGroup ==
  ASSUME NEW s \in Seq(Group)
  PROVE  /\ Len(s) \in Nat /\ DOMAIN s = 1 .. Len(s)
         /\ \A i \in 1 .. Len(s) : s[i] \in Group /\ s[i] \in GroupsOf(s)
<1>1. Len(s) \in Nat /\ DOMAIN s = 1 .. Len(s) /\ \A i \in 1 .. Len(s) : s[i] \in Group
  BY SMT
<1> QED
  BY <1>1 DEF GroupsOf

LEMMA TextsOfStack ==
  ASSUME NEW s \in Seq(Group), NEW texts
  PROVE  /\ (\A g \in GroupsOf(s) : texts[g.before] \in Texts) =>
               /\ Befores(s, texts) \in Seq(Texts) /\ Len(Befores(s, texts)) = Len(s)
               /\ \A i \in 1 .. Len(s) : Befores(s, texts)[i] = texts[s[i].before]
         /\ (\A g \in GroupsOf(s) : texts[g.after] \in Texts) =>
               /\ Afters(s, texts) \in Seq(Texts) /\ Len(Afters(s, texts)) = Len(s)
               /\ \A i \in 1 .. Len(s) : Afters(s, texts)[i] = texts[s[i].after]
<1>1. ASSUME NEW F, DOMAIN F = DOMAIN s, F = [i \in DOMAIN s |-> F[i]],
             \A i \in 1 .. Len(s) : F[i] \in Texts
      PROVE  F \in Seq(Texts) /\ Len(F) = Len(s)
  <2>1. F \in [1 .. Len(s) -> Texts] /\ Len(s) \in Nat
    BY <1>1, MemberIsGroup
  <2> QED
    BY <2>1, SMT
<1>2. ASSUME \A g \in GroupsOf(s) : texts[g.before] \in Texts
      PROVE  /\ Befores(s, texts) \in Seq(Texts) /\ Len(Befores(s, texts)) = Len(s)
             /\ \A i \in 1 .. Len(s) : Befores(s, texts)[i] = texts[s[i].before]
  <2>1. \A i \in 1 .. Len(s) : Befores(s, texts)[i] = texts[s[i].before]
    BY MemberIsGroup DEF Befores
  <2>2. \A i \in 1 .. Len(s) : Befores(s, texts)[i] \in Texts
    BY <1>2, <2>1, MemberIsGroup
  <2>3. /\ DOMAIN Befores(s, texts) = DOMAIN s
        /\ Befores(s, texts) = [i \in DOMAIN s |-> Befores(s, texts)[i]]
    BY Zenon DEF Befores
  <2> QED
    BY <1>1, <2>1, <2>2, <2>3
<1>3. ASSUME \A g \in GroupsOf(s) : texts[g.after] \in Texts
      PROVE  /\ Afters(s, texts) \in Seq(Texts) /\ Len(Afters(s, texts)) = Len(s)
             /\ \A i \in 1 .. Len(s) : Afters(s, texts)[i] = texts[s[i].after]
  <2>1. \A i \in 1 .. Len(s) : Afters(s, texts)[i] = texts[s[i].after]
    BY MemberIsGroup DEF Afters
  <2>2. \A i \in 1 .. Len(s) : Afters(s, texts)[i] \in Texts
    BY <1>3, <2>1, MemberIsGroup
  <2>3. /\ DOMAIN Afters(s, texts) = DOMAIN s
        /\ Afters(s, texts) = [i \in DOMAIN s |-> Afters(s, texts)[i]]
    BY Zenon DEF Afters
  <2> QED
    BY <1>1, <2>1, <2>2, <2>3
<1> QED
  BY <1>2, <1>3

LEMMA TextsOfAppend ==
  ASSUME NEW s \in Seq(Group), NEW g \in Group, NEW texts
  PROVE  /\ (\A e \in GroupsOf(s) \cup {g} : texts[e.before] \in Texts) =>
               Befores(Append(s, g), texts) = Append(Befores(s, texts), texts[g.before])
         /\ (\A e \in GroupsOf(s) \cup {g} : texts[e.after] \in Texts) =>
               Afters(Append(s, g), texts) = Append(Afters(s, texts), texts[g.after])
<1> DEFINE a == Append(s, g)
<1>1. /\ a \in Seq(Group) /\ Len(a) = Len(s) + 1 /\ Len(s) \in Nat /\ a[Len(s) + 1] = g
      /\ \A i \in 1 .. Len(s) : a[i] = s[i]
  BY Appended
<1>2. GroupsOf(a) = GroupsOf(s) \cup {g}
  BY GroupsOfAppend
<1> HIDE DEF a
<1>3. \A i \in 1 .. Len(s) + 1 : i \in 1 .. Len(s) \/ i = Len(s) + 1
  BY <1>1, SMT
<1>4. ASSUME \A e \in GroupsOf(s) \cup {g} : texts[e.before] \in Texts
      PROVE  Befores(a, texts) = Append(Befores(s, texts), texts[g.before])
  <2> DEFINE t == Befores(s, texts)
             u == Append(t, texts[g.before])
             v == Befores(a, texts)
  <2>1. t \in Seq(Texts) /\ Len(t) = Len(s) /\ \A i \in 1 .. Len(s) : t[i] = texts[s[i].before]
    BY <1>4, TextsOfStack
  <2>2. v \in Seq(Texts) /\ Len(v) = Len(a) /\ \A i \in 1 .. Len(a) : v[i] = texts[a[i].before]
    BY <1>1, <1>2, <1>4, TextsOfStack
  <2> HIDE DEF t, v
  <2>3. /\ u \in Seq(Texts) /\ Len(u) = Len(t) + 1 /\ u[Len(t) + 1] = texts[g.before]
        /\ \A i \in 1 .. Len(t) : u[i] = t[i]
    BY <1>4, <2>1, Appended
  <2> HIDE DEF u
  <2>4. \A i \in 1 .. Len(s) + 1 : v[i] = u[i]
    BY <1>1, <1>3, <2>1, <2>2, <2>3
  <2>5. v = u
    BY <1>1, <2>1, <2>2, <2>3, <2>4, SeqEqual
  <2> QED
    BY <2>5 DEF t, u, v
<1>5. ASSUME \A e \in GroupsOf(s) \cup {g} : texts[e.after] \in Texts
      PROVE  Afters(a, texts) = Append(Afters(s, texts), texts[g.after])
  <2> DEFINE t == Afters(s, texts)
             u == Append(t, texts[g.after])
             v == Afters(a, texts)
  <2>1. t \in Seq(Texts) /\ Len(t) = Len(s) /\ \A i \in 1 .. Len(s) : t[i] = texts[s[i].after]
    BY <1>5, TextsOfStack
  <2>2. v \in Seq(Texts) /\ Len(v) = Len(a) /\ \A i \in 1 .. Len(a) : v[i] = texts[a[i].after]
    BY <1>1, <1>2, <1>5, TextsOfStack
  <2> HIDE DEF t, v
  <2>3. /\ u \in Seq(Texts) /\ Len(u) = Len(t) + 1 /\ u[Len(t) + 1] = texts[g.after]
        /\ \A i \in 1 .. Len(t) : u[i] = t[i]
    BY <1>5, <2>1, Appended
  <2> HIDE DEF u
  <2>4. \A i \in 1 .. Len(s) + 1 : v[i] = u[i]
    BY <1>1, <1>3, <2>1, <2>2, <2>3
  <2>5. v = u
    BY <1>1, <2>1, <2>2, <2>3, <2>4, SeqEqual
  <2> QED
    BY <2>5 DEF t, u, v
<1> QED
  BY <1>4, <1>5 DEF a

(* Only the texts of the identities in the stack count.                    *)
LEMMA SameTexts ==
  ASSUME NEW s \in Seq(Group), NEW a, NEW b
  PROVE  /\ (\A g \in GroupsOf(s) : a[g.before] = b[g.before]) => Befores(s, a) = Befores(s, b)
         /\ (\A g \in GroupsOf(s) : a[g.after] = b[g.after]) => Afters(s, a) = Afters(s, b)
<1>1. \A i \in DOMAIN s : s[i] \in GroupsOf(s)
  BY MemberIsGroup
<1> QED
  BY <1>1, Zenon DEF Befores, Afters

LEMMA NoTexts ==
  ASSUME NEW texts
  PROVE  Befores(<<>>, texts) = <<>> /\ Afters(<<>>, texts) = <<>>
<1>1. DOMAIN <<>> = {}
  BY SMT
<1>2. \A F : [i \in {} |-> F] = <<>>
  BY SMT
<1> QED
  BY <1>1, <1>2, SMT DEF Befores, Afters

LEMMA LastAdded ==
  ASSUME NEW S, NEW s \in Seq(S), NEW e \in S
  PROVE  Append(s, e) # <<>> /\ Last(Append(s, e)) = e /\ Front(Append(s, e)) = s
<1> DEFINE a == Append(s, e)
<1>1. /\ a \in Seq(S) /\ Len(a) = Len(s) + 1 /\ Len(s) \in Nat /\ a[Len(s) + 1] = e
      /\ \A i \in 1 .. Len(s) : a[i] = s[i]
  BY Appended
<1> HIDE DEF a
<1>2. a # <<>>
  BY <1>1, SMT
<1>3. /\ Last(a) = a[Len(a)] /\ Front(a) \in Seq(S) /\ Len(Front(a)) = Len(a) - 1
      /\ \A i \in 1 .. Len(a) - 1 : Front(a)[i] = a[i]
  BY <1>1, <1>2, FrontAndLast
<1>4. Len(a) - 1 = Len(s)
  BY <1>1, SMT
<1>5. Front(a) = s
  BY <1>1, <1>3, <1>4, SeqEqual
<1> QED
  BY <1>1, <1>2, <1>3, <1>5 DEF a

(* Trimming forgets the oldest texts; coalescing adds none.                *)
LEMMA TextsOfTrim ==
  ASSUME NEW p \in Seq(Group), p # <<>>, NEW texts,
         \A g \in GroupsOf(p) : texts[g.before] \in Texts
  PROVE  \E k \in 1 .. Len(Befores(p, texts)) :
           Befores(Trim(p), texts) = SubSeq(Befores(p, texts), k, Len(Befores(p, texts)))
<1> DEFINE t == Befores(p, texts)
           u == Befores(Trim(p), texts)
<1>1. PICK n \in 0 .. Len(p) - 1 :
        /\ Trim(p) \in Seq(Group)
        /\ Len(Trim(p)) = Len(p) - n
        /\ \A i \in 1 .. Len(p) - n : Trim(p)[i] = p[n + i]
  BY TrimKeepsNewest
<1>2. t \in Seq(Texts) /\ Len(t) = Len(p) /\ \A i \in 1 .. Len(p) : t[i] = texts[p[i].before]
  BY TextsOfStack
<1>3. /\ u \in Seq(Texts) /\ Len(u) = Len(Trim(p))
      /\ \A i \in 1 .. Len(Trim(p)) : u[i] = texts[Trim(p)[i].before]
  <2>1. \A g \in GroupsOf(Trim(p)) : texts[g.before] \in Texts
    BY GroupsOfTrim
  <2> QED
    BY <1>1, <2>1, TextsOfStack
<1> HIDE DEF t, u
<1>4. Len(p) \in Nat
  BY SMT
<1>5. \A i \in 1 .. Len(p) - n : n + i \in 1 .. Len(p)
  BY <1>4, SMT
<1>6. \A i \in 1 .. Len(p) - n : u[i] = t[n + i]
  BY <1>1, <1>2, <1>3, <1>5
<1>7. u = SubSeq(t, n + 1, Len(t))
  <2> DEFINE k == n + 1
             v == SubSeq(t, k, Len(t))
  <2>1. k \in Int /\ Len(t) \in Int /\ Len(t) - k + 1 = Len(p) - n /\ k =< Len(t)
    BY <1>2, <1>4, SMT
  <2>2. \A i \in k .. Len(t) : t[i] \in Texts
    BY <1>2, <1>4, SMT
  <2>3. \A i \in 1 .. Len(p) - n : k + i - 1 = n + i
    BY <1>4, SMT
  <2> HIDE DEF k
  <2>4. /\ v \in Seq(Texts) /\ Len(v) = Len(t) - k + 1
        /\ \A i \in 1 .. Len(t) - k + 1 : v[i] = t[k + i - 1]
    BY <2>1, <2>2, SubSeqProperties
  <2> HIDE DEF v
  <2>5. \A i \in 1 .. Len(p) - n : v[i] = t[n + i]
    BY <2>1, <2>3, <2>4
  <2>6. u = v
    <3>1. Len(u) = Len(p) - n /\ Len(v) = Len(p) - n
      BY <1>1, <1>3, <2>1, <2>4
    <3>2. \A i \in 1 .. Len(u) : u[i] = v[i]
      BY <1>6, <2>5, <3>1
    <3>3. u \in Seq(Texts) /\ v \in Seq(Texts) /\ Len(u) = Len(v)
      BY <1>3, <2>4, <3>1, Zenon
    <3> QED
      BY <3>2, <3>3, SeqEqual, Zenon
  <2> QED
    BY <2>6 DEF v, k
<1>8. n + 1 \in 1 .. Len(t)
  BY <1>2, <1>4, SMT
<1> QED
  BY <1>7, <1>8 DEF t, u

LEMMA TextsOfPushed ==
  ASSUME NEW s \in Seq(Group), NEW g \in Group, NEW saved, NEW texts,
         \A e \in GroupsOf(s) \cup {g} : texts[e.before] \in Texts
  PROVE  \/ Befores(Pushed(s, g, saved), texts) = Append(Befores(s, texts), texts[g.before])
         \/ /\ s # <<>> /\ Last(s).after # saved
            /\ Befores(Pushed(s, g, saved), texts) = Befores(s, texts)
<1>1. CASE Pushed(s, g, saved) = Append(s, g)
  BY <1>1, TextsOfAppend
<1>2. CASE /\ s # <<>> /\ Last(s).after # saved
           /\ Pushed(s, g, saved) \in Seq(Group) /\ Len(Pushed(s, g, saved)) = Len(s)
           /\ \A i \in 1 .. Len(s) : Pushed(s, g, saved)[i].before = s[i].before
  <2> DEFINE p == Pushed(s, g, saved)
  <2>1. DOMAIN p = DOMAIN s /\ \A i \in DOMAIN s : p[i].before = s[i].before
    BY <1>2, MemberIsGroup
  <2> HIDE DEF p
  <2>2. Befores(p, texts) = Befores(s, texts)
    BY <2>1, Zenon DEF Befores
  <2> QED
    BY <1>2, <2>2 DEF p
<1> QED
  BY <1>1, <1>2, PushedPlaces

LEMMA StackTexts ==
  ASSUME StateOK, ContentOK, JournalMeaning
  PROVE  /\ \A g \in GroupsOf(hist.undo) \cup GroupsOf(hist.redo) :
              g \in Group /\ content[g.before] \in Texts /\ content[g.after] \in Texts
         /\ content[hist.cur] \in Texts
<1>1. \A i \in Live : content[i] \in Texts
  BY DEF ContentOK, JournalMeaning
<1> QED
  BY <1>1, LiveNow

(* An edit, as the snapshot editor sees it.                                *)
LEMMA EditedTexts ==
  ASSUME StateOK, ContentOK, StateOK', JournalMeaning, KeepsContent,
         NEW deltas \in Seq(Delta), Edited(deltas)
  PROVE  LET past == Befores(hist.undo, content)
         IN  \E kept \in {Append(past, content[hist.cur])}
                           \cup (IF past # <<>> /\ Modified(sess) THEN {past} ELSE {}) :
               \E k \in 1 .. Len(kept) :
                 Befores(hist'.undo, content') = SubSeq(kept, k, Len(kept))
<1> DEFINE e == EditGroup(deltas)
           p == Pushed(hist.undo, e, sess.saved)
           past == Befores(hist.undo, content)
<1>1. e \in Group /\ e.before = hist.cur /\ e.after = hist.next /\ hist'.undo = Trim(p)
  BY EditedFacts
<1> HIDE DEF e
<1>2. hist.undo \in Seq(Group) /\ UndoPath(hist.undo, hist.cur, hist.next)
  BY StacksAreGroups
<1>3. p \in Seq(Group) /\ p # <<>>
  <2>1. UndoPath(p, e.after, hist.next) /\ p # <<>>
    BY <1>1, <1>2, StateFacts, PushedPath
  <2> QED
    BY <2>1 DEF UndoPath
<1>4. \A g \in GroupsOf(hist.undo) \cup {e} : content[g.before] \in Texts
  BY <1>1, StackTexts
<1>5. \A g \in GroupsOf(p) : g.before \in Live
  <2> SUFFICES ASSUME NEW g \in GroupsOf(p)
               PROVE  g.before \in Live
    OBVIOUS
  <2>1. CASE g \in GroupsOf(hist.undo) \cup {e}
    BY <1>1, <2>1, LiveNow
  <2>2. CASE /\ hist.undo # <<>> /\ Mergeable(Last(hist.undo), e, sess.saved)
             /\ g = MergedGroup(Last(hist.undo), e)
    <3>1. Last(hist.undo) \in Group /\ Last(hist.undo) \in GroupsOf(hist.undo)
      BY <1>2, <2>2, FrontAndLast, GroupsOfFront
    <3>2. g.before = Last(hist.undo).before
      BY <1>1, <2>2, <3>1, MergedGroupType DEF Mergeable
    <3> QED
      BY <3>1, <3>2, LiveNow
  <2> QED
    BY <1>1, <1>2, <2>1, <2>2, GroupsOfPushed
<1>6. \A g \in GroupsOf(p) : content[g.before] \in Texts
  BY <1>5 DEF ContentOK, JournalMeaning
<1>7. \/ Befores(p, content) = Append(past, content[hist.cur])
      \/ hist.undo # <<>> /\ Last(hist.undo).after # sess.saved /\ Befores(p, content) = past
  BY <1>1, <1>2, <1>4, TextsOfPushed
<1> HIDE DEF p
<1>8. Befores(hist'.undo, content') = Befores(Trim(p), content)
  <2>1. \A g \in GroupsOf(Trim(p)) : content'[g.before] = content[g.before]
    <3>1. GroupsOf(Trim(p)) \subseteq GroupsOf(p)
      BY <1>3, GroupsOfTrim
    <3>2. \A g \in GroupsOf(Trim(p)) : g.before \in Live'
      BY <1>1, LiveThen
    <3> QED
      BY <1>5, <3>1, <3>2 DEF KeepsContent
  <2>2. Trim(p) \in Seq(Group)
    BY <1>3, TrimKeepsNewest
  <2> QED
    BY <1>1, <2>1, <2>2, SameTexts
<1>9. ASSUME hist.undo # <<>>, Last(hist.undo).after # sess.saved
      PROVE  past # <<>> /\ Modified(sess)
  <2>1. Last(hist.undo).after = hist.cur
    BY <1>2, <1>9, FrontAndLast DEF UndoPath
  <2>2. Modified(sess)
    BY <1>9, <2>1, StateFacts DEF Modified
  <2>3. Len(past) = Len(hist.undo) /\ Len(hist.undo) # 0
    BY <1>2, <1>4, <1>9, TextsOfStack, SMT
  <2>4. past # <<>>
    BY <2>3, SMT
  <2> QED
    BY <2>2, <2>4
<1>10. Befores(p, content) \in {Append(past, content[hist.cur])}
                               \cup (IF past # <<>> /\ Modified(sess) THEN {past} ELSE {})
  BY <1>7, <1>9
<1>11. \E k \in 1 .. Len(Befores(p, content)) :
         Befores(Trim(p), content) = SubSeq(Befores(p, content), k, Len(Befores(p, content)))
  BY <1>3, <1>6, TextsOfTrim
<1> HIDE DEF past
<1>12. \E kept \in {Append(past, content[hist.cur])}
                     \cup (IF past # <<>> /\ Modified(sess) THEN {past} ELSE {}) :
         \E k \in 1 .. Len(kept) : Befores(hist'.undo, content') = SubSeq(kept, k, Len(kept))
  BY <1>8, <1>10, <1>11, Zenon
<1> QED
  BY <1>12, Zenon DEF past

LEMMA CleanIsAccepted ==
  ASSUME StateOK', Meaning', ~Modified(sess')
  PROVE  content'[hist'.cur] = accepted'.text
<1>1. sess'.saved # NoId /\ sess'.cur = sess'.saved /\ sess'.cur = hist'.cur
  BY DEF Modified, StateOK
<1> QED
  BY <1>1 DEF Meaning, SessionMeaning

LEMMA SameEnds ==
  ASSUME NEW s
  PROVE  Snapshots!Last(s) = Last(s) /\ Snapshots!Front(s) = Front(s)
BY DEF Last, Front, Snapshots!Last, Snapshots!Front

(* What the steps are to the snapshot editor.                              *)
LEMMA EditedImplements ==
  ASSUME StateOK, ContentOK, StateOK', JournalMeaning, Observe,
         NEW deltas \in Seq(Delta), Edited(deltas)
  PROVE  Snapshots!Edit
<1>1. KeepsContent /\ content'[hist.next] = buffer'
  BY EditedMeaning
<1>2. hist'.redo = <<>> /\ hist'.cur = hist.next /\ accepted' = accepted
  BY EditedFacts DEF Edited
<1>3. content'[hist'.cur] \in Texts
  BY <1>1, <1>2 DEF StateOK
<1>4. Afters(hist'.redo, content') = <<>>
  BY <1>2, NoTexts
<1>5. Modified(sess')
  <2>1. sess'.cur = hist.next /\ sess'.saved = sess.saved
    BY StateFacts, AdvanceEditorStateType DEF Edited
  <2>2. hist.next # sess.saved
    BY StateFacts, SMT
  <2> QED
    BY <2>1, <2>2 DEF Modified
<1>6. LET past == Befores(hist.undo, content)
      IN  \E kept \in {Append(past, content[hist.cur])}
                        \cup (IF past # <<>> /\ Modified(sess) THEN {past} ELSE {}) :
            \E k \in 1 .. Len(kept) :
              Befores(hist'.undo, content') = SubSeq(kept, k, Len(kept))
  BY <1>1, EditedTexts
<1>7. (~Modified(sess')) = FALSE
  BY <1>5
<1> QED
  BY <1>2, <1>3, <1>4, <1>6, <1>7, Zenon DEF Snapshots!Edit, Befores, Afters

LEMMA UndoneImplements ==
  ASSUME StateOK, ContentOK, StateOK', Meaning, Meaning', Observe, Undone
  PROVE  Snapshots!Undo
<1> DEFINE g == Last(hist.undo)
           past == Befores(hist.undo, content)
           future == Afters(hist.redo, content)
<1>1. JournalMeaning /\ KeepsContent /\ hist.undo # <<>> /\ ~Active /\ accepted' = accepted
  BY UndoneMeaning DEF Meaning, Undone
<1>2. /\ hist'.undo = Front(hist.undo) /\ hist'.redo = Append(hist.redo, g)
      /\ hist'.cur = g.before
  BY StateFacts, MovedFields DEF Undone
<1>3. hist.undo \in Seq(Group) /\ hist.redo \in Seq(Group)
  BY StacksAreGroups
<1>4. /\ Front(hist.undo) \in Seq(Group) /\ Append(Front(hist.undo), g) = hist.undo
      /\ GroupsOf(hist.undo) = GroupsOf(Front(hist.undo)) \cup {g}
  BY <1>1, <1>3, FrontAndLast, FrontThenLast, GroupsOfFront
<1>5. g \in Group /\ g \in GroupsOf(hist.undo) /\ g.after = hist.cur
  BY <1>1, NextUndo
<1> HIDE DEF g
<1>6. \A h \in GroupsOf(hist.undo) \cup GroupsOf(hist.redo) :
        content[h.before] \in Texts /\ content[h.after] \in Texts
  BY <1>1, StackTexts
<1>7. past = Append(Befores(Front(hist.undo), content), content[g.before])
  BY <1>4, <1>5, <1>6, TextsOfAppend
<1>8. Befores(Front(hist.undo), content) \in Seq(Texts)
  BY <1>4, <1>6, TextsOfStack
<1>9. /\ past # <<>> /\ Last(past) = content[g.before]
      /\ Front(past) = Befores(Front(hist.undo), content)
  BY <1>5, <1>6, <1>7, <1>8, LastAdded
<1>10. Afters(Append(hist.redo, g), content) = Append(future, content[hist.cur])
  BY <1>3, <1>5, <1>6, TextsOfAppend
<1>11. Append(hist.redo, g) \in Seq(Group)
  BY <1>3, <1>5, Appended
<1>12. Befores(hist'.undo, content') = Front(past)
  <2>1. \A h \in GroupsOf(Front(hist.undo)) : content'[h.before] = content[h.before]
    BY <1>1, <1>2, <1>4, LiveNow, LiveThen DEF KeepsContent
  <2> QED
    BY <1>2, <1>4, <1>9, <2>1, SameTexts
<1>13. Afters(hist'.redo, content') = Append(future, content[hist.cur])
  <2> DEFINE r == Append(hist.redo, g)
  <2>1. \A h \in GroupsOf(r) : content'[h.after] = content[h.after]
    <3>1. GroupsOf(r) = GroupsOf(hist.redo) \cup {g}
      BY <1>3, <1>5, GroupsOfAppend
    <3> QED
      BY <1>1, <1>2, <1>5, <3>1, LiveNow, LiveThen DEF KeepsContent
  <2>2. r \in Seq(Group) /\ hist'.redo = r
    BY <1>2, <1>11
  <2> HIDE DEF r
  <2>3. Afters(r, content') = Afters(r, content)
    BY <2>1, <2>2, SameTexts
  <2> QED
    BY <1>10, <2>2, <2>3, Zenon DEF r
<1>14. content'[hist'.cur] = Last(past)
  <2>1. content'[hist'.cur] = buffer' /\ buffer' = content[hist'.cur]
    BY <1>1, UndoneMeaning
  <2> QED
    BY <1>2, <1>9, <2>1
<1>15. ~Modified(sess') => content'[hist'.cur] = accepted'.text
  BY CleanIsAccepted
<1> HIDE DEF past, future
<1>16. (~Modified(sess')) \in BOOLEAN
  BY DEF Modified
<1> QED
  BY <1>1, <1>9, <1>12, <1>13, <1>14, <1>15, <1>16, SameEnds, Zenon
  DEF Snapshots!Undo, Snapshots!MayBeClean, Befores, Afters, past, future

LEMMA RedoneImplements ==
  ASSUME StateOK, ContentOK, StateOK', JournalOK, Meaning, Meaning', Observe, Redone
  PROVE  Snapshots!Redo
<1> DEFINE g == Last(hist.redo)
           past == Befores(hist.undo, content)
           future == Afters(hist.redo, content)
<1>1. JournalMeaning /\ KeepsContent /\ hist.redo # <<>> /\ ~Active /\ accepted' = accepted
  BY RedoneMeaning DEF Meaning, Redone
<1>2. /\ hist'.undo = Append(hist.undo, g) /\ hist'.redo = Front(hist.redo)
      /\ hist'.cur = g.after
  BY StateFacts, MovedFields, RedoneJournal DEF Redone
<1>3. hist.undo \in Seq(Group) /\ hist.redo \in Seq(Group)
  BY StacksAreGroups
<1>4. /\ Front(hist.redo) \in Seq(Group) /\ Append(Front(hist.redo), g) = hist.redo
      /\ GroupsOf(hist.redo) = GroupsOf(Front(hist.redo)) \cup {g}
  BY <1>1, <1>3, FrontAndLast, FrontThenLast, GroupsOfFront
<1>5. g \in Group /\ g \in GroupsOf(hist.redo) /\ g.before = hist.cur
  BY <1>1, NextRedo
<1> HIDE DEF g
<1>6. \A h \in GroupsOf(hist.undo) \cup GroupsOf(hist.redo) :
        content[h.before] \in Texts /\ content[h.after] \in Texts
  BY <1>1, StackTexts
<1>7. future = Append(Afters(Front(hist.redo), content), content[g.after])
  BY <1>4, <1>5, <1>6, TextsOfAppend
<1>8. Afters(Front(hist.redo), content) \in Seq(Texts)
  BY <1>4, <1>6, TextsOfStack
<1>9. /\ future # <<>> /\ Last(future) = content[g.after]
      /\ Front(future) = Afters(Front(hist.redo), content)
  BY <1>5, <1>6, <1>7, <1>8, LastAdded
<1>10. Befores(Append(hist.undo, g), content) = Append(past, content[hist.cur])
  BY <1>3, <1>5, <1>6, TextsOfAppend
<1>11. Append(hist.undo, g) \in Seq(Group)
  BY <1>3, <1>5, Appended
<1>12. Afters(hist'.redo, content') = Front(future)
  <2>1. \A h \in GroupsOf(Front(hist.redo)) : content'[h.after] = content[h.after]
    BY <1>1, <1>2, <1>4, LiveNow, LiveThen DEF KeepsContent
  <2> QED
    BY <1>2, <1>4, <1>9, <2>1, SameTexts
<1>13. Befores(hist'.undo, content') = Append(past, content[hist.cur])
  <2> DEFINE r == Append(hist.undo, g)
  <2>1. \A h \in GroupsOf(r) : content'[h.before] = content[h.before]
    <3>1. GroupsOf(r) = GroupsOf(hist.undo) \cup {g}
      BY <1>3, <1>5, GroupsOfAppend
    <3> QED
      BY <1>1, <1>2, <1>5, <3>1, LiveNow, LiveThen DEF KeepsContent
  <2>2. r \in Seq(Group) /\ hist'.undo = r
    BY <1>2, <1>11
  <2> HIDE DEF r
  <2>3. Befores(r, content') = Befores(r, content)
    BY <2>1, <2>2, SameTexts
  <2> QED
    BY <1>10, <2>2, <2>3, Zenon DEF r
<1>14. content'[hist'.cur] = Last(future)
  <2>1. content'[hist'.cur] = buffer' /\ buffer' = content[hist'.cur]
    BY <1>1, RedoneMeaning
  <2> QED
    BY <1>2, <1>9, <2>1
<1>15. ~Modified(sess') => content'[hist'.cur] = accepted'.text
  BY CleanIsAccepted
<1> HIDE DEF past, future
<1>16. (~Modified(sess')) \in BOOLEAN
  BY DEF Modified
<1> QED
  BY <1>1, <1>9, <1>12, <1>13, <1>14, <1>15, <1>16, SameEnds, Zenon
  DEF Snapshots!Redo, Snapshots!MayBeClean, Befores, Afters, past, future

LEMMA StayedImplements ==
  ASSUME StateOK, ContentOK, StateOK', Meaning, Meaning', KeepsContent, Observe, SameStacks,
         accepted' = accepted \/ \E available \in BOOLEAN : SaveCommitted(available)
  PROVE  Snapshots!Keep
<1>1. hist.undo \in Seq(Group) /\ hist.redo \in Seq(Group)
  BY StacksAreGroups
<1>2. content'[hist'.cur] = content[hist.cur]
  BY LiveNow, LiveThen DEF SameStacks, KeepsContent
<1>3. \A g \in GroupsOf(hist.undo) \cup GroupsOf(hist.redo) :
        content'[g.before] = content[g.before] /\ content'[g.after] = content[g.after]
  BY LiveNow, LiveThen DEF SameStacks, KeepsContent
<1>4. /\ Befores(hist'.undo, content') = Befores(hist.undo, content)
      /\ Afters(hist'.redo, content') = Afters(hist.redo, content)
  BY <1>1, <1>3, SameTexts DEF SameStacks
<1>5. accepted'.text \in {accepted.text, content[hist.cur]}
  <2>1. ASSUME NEW available \in BOOLEAN, SaveCommitted(available)
        PROVE  accepted'.text = content[hist.cur]
    BY <1>2, <2>1, SaveCommittedMeaning DEF SameStacks
  <2> QED
    BY <2>1
<1>6. ~Modified(sess') => content'[hist'.cur] = accepted'.text
  BY CleanIsAccepted
<1>7. (~Modified(sess')) \in BOOLEAN
  BY DEF Modified
<1> QED
  BY <1>2, <1>4, <1>5, <1>6, <1>7, Zenon
  DEF Snapshots!Keep, Snapshots!MayBeClean, Befores, Afters

LEMMA ReplacedImplements ==
  ASSUME StateOK', ContentOK', Meaning', hist'.undo = <<>>, hist'.redo = <<>>
  PROVE  Snapshots!Replace
<1>1. content'[hist'.cur] \in Texts /\ accepted'.text \in Texts
  BY LiveThen DEF ContentOK, Meaning, JournalMeaning, StateOK
<1>2. Befores(hist'.undo, content') = <<>> /\ Afters(hist'.redo, content') = <<>>
  BY NoTexts
<1>3. ~Modified(sess') => content'[hist'.cur] = accepted'.text
  BY CleanIsAccepted
<1>4. (~Modified(sess')) \in BOOLEAN
  BY DEF Modified
<1> QED
  BY <1>1, <1>2, <1>3, <1>4, Zenon
  DEF Snapshots!Replace, Snapshots!MayBeClean, Befores, Afters

(* The refinement: with deltas, coalescing, trimming, identities and       *)
(* rollbacks the editor does what one that keeps every version does, and   *)
(* says Saved only over the accepted text.                                 *)
THEOREM SnapshotsAreImplemented ==
  ASSUME ReplayListenersReturn PROVE Spec => ImplementsSnapshots
<1>1. ASSUME Init
      PROVE  Snapshots!Init
  <2>1. hist.undo = <<>> /\ hist.redo = <<>> /\ hist.cur = NoId /\ content[NoId] = <<>>
        /\ accepted.text = <<>>
    BY <1>1 DEF Init, EmptyHistory
  <2>2. Befores(hist.undo, content) = <<>> /\ Afters(hist.redo, content) = <<>>
    BY <2>1, NoTexts
  <2>3. (~Modified(sess)) \in BOOLEAN
    BY DEF Modified
  <2> QED
    BY <2>1, <2>2, <2>3, Zenon DEF Snapshots!Init, Befores, Afters
<1>2. ASSUME IInv, JournalOK, Meaning, Next
      PROVE  Snapshots!Next
  <2>1. StateOK /\ ContentOK /\ StateOK' /\ ContentOK' /\ Moved /\ Observe
    BY <1>2, NextOK, StepKinds DEF IInv
  <2>2. Meaning' /\ KeepsContent
    BY <1>2, <2>1, MovedMeaning
  <2>3. JournalMeaning
    BY <1>2 DEF Meaning
  <2>4. SameStacks /\ (accepted' = accepted \/ \E available \in BOOLEAN : SaveCommitted(available))
          => Snapshots!Keep
    BY <1>2, <2>1, <2>2, StayedImplements
  <2>5. hist'.undo = <<>> /\ hist'.redo = <<>> => Snapshots!Replace
    BY <2>1, <2>2, ReplacedImplements
  <2>6. (\E deltas \in Seq(Delta) : Edited(deltas)) => Snapshots!Edit
    BY <2>1, <2>3, EditedImplements
  <2>7. Undone => Snapshots!Undo
    BY <1>2, <2>1, <2>2, UndoneImplements
  <2>8. Redone => Snapshots!Redo
    BY <1>2, <2>1, <2>2, RedoneImplements
  <2> QED
    BY <2>1, <2>4, <2>5, <2>6, <2>7, <2>8, JournalMoves, Zenon DEF Snapshots!Next
<1>3. ASSUME UNCHANGED vars
      PROVE  UNCHANGED Snapshots!vars
  BY <1>3, Zenon DEF vars, Snapshots!vars, Modified
<1>4. IInv /\ JournalOK /\ Meaning /\ [Next]_vars => [Snapshots!Next]_Snapshots!vars
  BY <1>2, <1>3
<1> QED
  BY <1>1, <1>4, InvariantHolds, JournalHolds, MeaningHolds, PTL
  DEF Spec, ImplementsSnapshots, Snapshots!Spec
=============================================================================
