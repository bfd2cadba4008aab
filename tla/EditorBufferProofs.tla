------------------------- MODULE EditorBufferProofs -------------------------
(***************************************************************************)
(* Facts about replay on a text, for every text and every list of          *)
(* operations.  The induction they need is over the numbers as a set       *)
(* (NaturalsHaveLeast), because the provers do not instantiate the         *)
(* library's induction theorems.                                           *)
(***************************************************************************)
EXTENDS EditorBuffer, FiniteSetTheorems, SequenceTheorems, WellFoundedInduction, TLAPS

(* Every nonempty set of naturals has a least element: the intervals that  *)
(* start at 0 and end in the set are well-founded by strict inclusion.     *)
LEMMA NaturalsHaveLeast ==
  ASSUME NEW S \in SUBSET Nat, S # {}
  PROVE  \E m \in S : \A n \in S : m =< n
<1>1. PICK b \in S : TRUE
  OBVIOUS
<1> DEFINE B == 0 .. b
           UpTo(k) == 0 .. k
           T == {UpTo(k) : k \in {j \in S : j =< b}}
<1>2. IsFiniteSet(B)
  BY <1>1, FS_Interval, SMT
<1>3. IsWellFoundedOn(StrictSubsetOrdering(B), SUBSET B)
  <2> HIDE DEF B
  <2>1. FiniteSubsetsOf(B) = SUBSET B
    BY <1>2, FS_FiniteSubsetsOfFinite
  <2> QED
    BY <2>1, FS_StrictSubsetOrderingWellFounded
<1>4. T \subseteq SUBSET B /\ T # {}
  BY <1>1, SMT
<1>5. PICK x \in T : \A y \in T : ~(<<y, x>> \in StrictSubsetOrdering(B))
  <2> HIDE DEF B, T
  <2> QED
    BY <1>3, <1>4, WFMin
<1>6. PICK m \in S : m =< b /\ x = UpTo(m)
  BY <1>5
<1>7. ASSUME NEW n \in S, n < m
      PROVE  FALSE
  <2>1. UpTo(n) \in T
    BY <1>1, <1>6, <1>7, SMT
  <2>2. UpTo(n) \subseteq x /\ UpTo(n) # x
    BY <1>6, <1>7, SMT
  <2>3. <<UpTo(n), x>> \in StrictSubsetOrdering(B)
    BY <1>4, <1>5, <2>1, <2>2, Zenon DEF StrictSubsetOrdering
  <2> QED
    BY <1>5, <2>1, <2>3
<1> QED
  BY <1>6, <1>7, SMT

(* Induction up to n, with the property given as the set of the numbers    *)
(* that have it.                                                           *)
LEMMA InductionUpTo ==
  ASSUME NEW n \in Nat, NEW S, 0 \in S,
         \A k \in 0 .. n - 1 : k \in S => k + 1 \in S
  PROVE  0 .. n \subseteq S
<1> SUFFICES ASSUME (0 .. n) \ S # {}
             PROVE  FALSE
  OBVIOUS
<1>1. PICK m \in (0 .. n) \ S : \A k \in (0 .. n) \ S : m =< k
  <2>1. (0 .. n) \ S \in SUBSET Nat
    BY SMT
  <2> QED
    BY <2>1, NaturalsHaveLeast
<1>2. m # 0 /\ m - 1 \in 0 .. n - 1
  BY <1>1, SMT
<1>3. m - 1 \in S
  BY <1>1, <1>2, SMT
<1> QED
  BY <1>1, <1>2, <1>3, SMT

-----------------------------------------------------------------------------
(* The recursive definition of AfterEach is met: k operations applied are  *)
(* the first k - 1 applied, and then the k-th.                             *)
LEMMA AfterEachStep ==
  ASSUME NEW t, NEW ops, Len(ops) \in Nat
  PROVE  AfterEach(t, ops) =
           [k \in 0 .. Len(ops) |->
              IF k = 0 THEN t ELSE ApplyOperation(AfterEach(t, ops)[k - 1], ops[k])]
<1> DEFINE n == Len(ops)
           Meets(f, m) ==
             f = [k \in 0 .. m |-> IF k = 0 THEN t ELSE ApplyOperation(f[k - 1], ops[k])]
           S == {m \in Nat : \E f : Meets(f, m)}
<1>1. 0 \in S
  <2>1. Meets([k \in 0 .. 0 |-> t], 0)
    BY SMT
  <2> QED
    BY <2>1
<1>2. ASSUME NEW m \in 0 .. n - 1, m \in S
      PROVE  m + 1 \in S
  <2>1. PICK f : Meets(f, m)
    BY <1>2
  <2> DEFINE g == [k \in 0 .. m + 1 |->
                     IF k =< m THEN f[k] ELSE ApplyOperation(f[m], ops[m + 1])]
  <2>2. \A k \in 0 .. m : f[k] = IF k = 0 THEN t ELSE ApplyOperation(f[k - 1], ops[k])
    BY <2>1
  <2>3. \A k \in 0 .. m + 1 :
          g[k] = IF k = 0 THEN t ELSE ApplyOperation(g[k - 1], ops[k])
    <3> TAKE k \in 0 .. m + 1
    <3>1. CASE k = 0
      BY <1>2, <2>2, <3>1, SMT
    <3>2. CASE k \in 1 .. m
      <4>1. k - 1 \in 0 .. m /\ k \in 0 .. m /\ k # 0
        BY <1>2, <3>2, SMT
      <4>2. g[k] = f[k] /\ g[k - 1] = f[k - 1]
        BY <1>2, <4>1, SMT
      <4> QED
        BY <2>2, <4>1, <4>2
    <3>3. CASE k = m + 1
      <4>1. g[k] = ApplyOperation(f[m], ops[m + 1]) /\ g[m] = f[m]
        BY <1>2, <3>3, SMT
      <4>2. k # 0 /\ k - 1 = m
        BY <1>2, <3>3, SMT
      <4> HIDE DEF g
      <4> QED
        BY <3>3, <4>1, <4>2
    <3> QED
      BY <1>2, <3>1, <3>2, <3>3, SMT
  <2>4. Meets(g, m + 1)
    BY <2>3
  <2>5. m + 1 \in Nat
    BY <1>2, SMT
  <2> HIDE DEF Meets
  <2> QED
    BY <2>4, <2>5
<1>3. n \in S
  <2> HIDE DEF S
  <2>1. n \in Nat /\ n \in 0 .. n
    BY SMT
  <2> HIDE DEF n
  <2>2. 0 .. n \subseteq S
    BY <1>1, <1>2, <2>1, InductionUpTo
  <2> QED
    BY <2>1, <2>2
<1>4. \E f : Meets(f, n)
  BY <1>3
<1>5. AfterEach(t, ops) = CHOOSE f : Meets(f, n)
  BY DEF AfterEach
<1> QED
  BY <1>4, <1>5

(* The same, one step at a time.                                           *)
Stepwise(t, ops) ==
  \A k \in 0 .. Len(ops) - 1 :
    AfterFirst(t, ops, k + 1) = ApplyOperation(AfterFirst(t, ops, k), ops[k + 1])

LEMMA AfterFirstStep ==
  ASSUME NEW t, NEW ops, Len(ops) \in Nat
  PROVE  AfterFirst(t, ops, 0) = t /\ Stepwise(t, ops)
<1> DEFINE f == AfterEach(t, ops)
<1>1. f = [k \in 0 .. Len(ops) |-> IF k = 0 THEN t ELSE ApplyOperation(f[k - 1], ops[k])]
  BY AfterEachStep
<1> HIDE DEF f
<1>2. f[0] = t
  BY <1>1, SMT
<1>3. \A k \in 0 .. Len(ops) - 1 : f[k + 1] = ApplyOperation(f[k], ops[k + 1])
  <2> TAKE k \in 0 .. Len(ops) - 1
  <2>1. k + 1 \in 0 .. Len(ops) /\ k + 1 # 0 /\ (k + 1) - 1 = k
    BY SMT
  <2> QED
    BY <1>1, <2>1, SMT
<1> QED
  BY <1>2, <1>3 DEF f, AfterFirst, Stepwise

-----------------------------------------------------------------------------
(* Types.                                                                  *)

(* A range of a text is a text, as long as the range where it fits.        *)
LEMMA TextInRangeType ==
  ASSUME NEW t \in Texts, NEW o \in Nat, NEW p \in Nat, o =< p
  PROVE  /\ TextInRange(t, o, p) \in Texts
         /\ p =< Len(t) => Len(TextInRange(t, o, p)) = p - o
         /\ p =< Len(t) => \A i \in 1 .. p - o : TextInRange(t, o, p)[i] = t[o + i]
  BY SMT DEF TextInRange, Clamped, Texts

(* An operation makes a text of a text.                                    *)
LEMMA ApplyOperationType ==
  ASSUME NEW t \in Texts, NEW op \in ReplayOperation
  PROVE  ApplyOperation(t, op) \in Texts
<1>1. op.at \in Nat /\ op.text \in Texts /\ Len(op.text) \in Nat
  BY SMT DEF ReplayOperation, Texts
<1>2. Len(t) \in Nat
  BY SMT DEF Texts
<1>3. 0 \in Nat /\ 0 =< op.at
  BY <1>1, SMT
<1>4. TextInRange(t, 0, op.at) \in Texts
  BY <1>1, <1>3, TextInRangeType
<1>5. \A o \in Nat : TextInRange(t, o, Len(t)) \in Texts
  BY <1>2, SMT DEF TextInRange, Clamped, Texts
<1>6. TextInRange(t, op.at, Len(t)) \in Texts
      /\ TextInRange(t, op.at + Len(op.text), Len(t)) \in Texts
  BY <1>1, <1>5, SMT
<1>7. \A a, b \in Texts : a \o b \in Texts
  BY SMT DEF Texts
<1> QED
  BY <1>1, <1>4, <1>6, <1>7 DEF ApplyOperation

(* A list of operations makes a text of a text, however far it gets.       *)
LEMMA AfterFirstType ==
  ASSUME NEW t \in Texts, NEW ops \in Seq(ReplayOperation), NEW n \in 0 .. Len(ops)
  PROVE  AfterFirst(t, ops, n) \in Texts
<1> DEFINE S == {k \in Nat : AfterFirst(t, ops, k) \in Texts}
<1>1. Len(ops) \in Nat /\ n \in Nat
  BY SMT
<1>2. 0 \in S
  BY <1>1, AfterFirstStep
<1>3. ASSUME NEW k \in 0 .. n - 1, k \in S
      PROVE  k + 1 \in S
  <2>1. k \in 0 .. Len(ops) - 1 /\ k + 1 \in 1 .. Len(ops) /\ k + 1 \in Nat
    BY <1>1, SMT
  <2>2. ops[k + 1] \in ReplayOperation
    BY <2>1, SMT
  <2>3. AfterFirst(t, ops, k + 1) = ApplyOperation(AfterFirst(t, ops, k), ops[k + 1])
    <3>1. Stepwise(t, ops)
      BY <1>1, <2>1, AfterFirstStep
    <3> QED
      BY <1>1, <2>1, <3>1 DEF Stepwise
  <2> QED
    BY <1>3, <2>1, <2>2, <2>3, ApplyOperationType
<1> HIDE DEF S
<1>4. 0 .. n \subseteq S
  BY <1>1, <1>2, <1>3, InductionUpTo
<1>5. n \in 0 .. n
  BY <1>1, SMT
<1> QED
  BY <1>4, <1>5 DEF S

LEMMA ApplyOperationsType ==
  ASSUME NEW t \in Texts, NEW ops \in Seq(ReplayOperation)
  PROVE  ApplyOperations(t, ops) \in Texts
<1>1. Len(ops) \in 0 .. Len(ops)
  BY SMT
<1> QED
  BY <1>1, AfterFirstType DEF ApplyOperations

(* Inverses are operations again.                                          *)
LEMMA InversesType ==
  ASSUME NEW ops \in Seq(ReplayOperation)
  PROVE  /\ Inverses(ops) \in Seq(ReplayOperation)
         /\ Len(Inverses(ops)) = Len(ops)
         /\ \A i \in 1 .. Len(ops) : Inverses(ops)[i] = InverseOf(ops[Len(ops) - i + 1])
<1> DEFINE each == [i \in DOMAIN ops |-> InverseOf(ops[i])]
<1>1. \A op \in ReplayOperation : InverseOf(op) \in ReplayOperation
  BY SMT DEF InverseOf, Insertion, Deletion, ReplayOperation
<1>2. each \in Seq(ReplayOperation) /\ Len(each) = Len(ops)
  BY <1>1, SMT
<1>3. \A i \in 1 .. Len(ops) : each[i] = InverseOf(ops[i])
  BY SMT
<1> HIDE DEF each
<1>4. Reverse(each) \in Seq(ReplayOperation) /\ Len(Reverse(each)) = Len(ops)
  BY <1>2, SMT DEF Reverse
<1>5. \A i \in 1 .. Len(ops) : Reverse(each)[i] = each[Len(ops) - i + 1]
  BY <1>2, SMT DEF Reverse
<1> QED
  BY <1>3, <1>4, <1>5, SMT DEF each, Inverses

-----------------------------------------------------------------------------
(* Rollback.                                                               *)

(* A range that fits is a range of indices.                                *)
LEMMA RangeThatFits ==
  ASSUME NEW t \in Texts, NEW o \in Nat, NEW p \in Nat, o =< p, p =< Len(t)
  PROVE  TextInRange(t, o, p) = SubSeq(t, o + 1, p)
<1>1. Clamped(t, o) = o /\ Clamped(t, p) = p
  BY SMT DEF Clamped, Texts
<1> QED
  BY <1>1 DEF TextInRange

LEMMA PrefixThatFits ==
  ASSUME NEW t \in Texts, NEW p \in Nat, p =< Len(t)
  PROVE  TextInRange(t, 0, p) = SubSeq(t, 1, p)
<1>1. Clamped(t, 0) + 1 = 1 /\ Clamped(t, p) = p
  BY SMT DEF Clamped, Texts
<1> QED
  BY <1>1 DEF TextInRange

(* Cutting a text at two offsets, or one.                                  *)
LEMMA Cut ==
  ASSUME NEW t \in Texts, NEW o \in Nat, NEW p \in Nat, o =< p, p =< Len(t)
  PROVE  /\ (SubSeq(t, 1, o) \o SubSeq(t, o + 1, p)) \o SubSeq(t, p + 1, Len(t)) = t
         /\ SubSeq(t, 1, o) \o SubSeq(t, o + 1, Len(t)) = t
<1>1. t \in Seq(Chars) /\ Len(t) \in Nat
  BY SMT DEF Texts
<1>2. /\ 1 \in 1 .. Len(t) + 1 /\ o \in 1 - 1 .. Len(t) /\ p \in 1 - 1 .. Len(t)
      /\ p \in o .. Len(t) /\ Len(t) \in p .. Len(t) /\ Len(t) \in o .. Len(t)
  BY <1>1, SMT
<1>3. SubSeq(t, 1, o) \o SubSeq(t, o + 1, p) = SubSeq(t, 1, p)
  BY <1>1, <1>2, ConcatAdjacentSubSeq
<1>4. SubSeq(t, 1, p) \o SubSeq(t, p + 1, Len(t)) = SubSeq(t, 1, Len(t))
  BY <1>1, <1>2, ConcatAdjacentSubSeq
<1>5. SubSeq(t, 1, o) \o SubSeq(t, o + 1, Len(t)) = SubSeq(t, 1, Len(t))
  BY <1>1, <1>2, ConcatAdjacentSubSeq
<1>6. SubSeq(t, 1, Len(t)) = t
  BY <1>1, SubSeqFull
<1> QED
  BY <1>3, <1>4, <1>5, <1>6

(* Gluing two texts and cutting them apart.                                *)
LEMMA Glue ==
  ASSUME NEW a \in Texts, NEW b \in Texts
  PROVE  /\ a \o b \in Texts
         /\ Len(a) \in Nat /\ Len(b) \in Nat /\ Len(a \o b) = Len(a) + Len(b)
         /\ SubSeq(a \o b, 1, Len(a)) = a
         /\ SubSeq(a \o b, Len(a) + 1, Len(a \o b)) = b
  BY SMT DEF Texts

(* What an insertion and a deletion do where they fit.                     *)
LEMMA InsertedText ==
  ASSUME NEW t \in Texts, NEW op \in ReplayOperation, op.kind = "insert", op.at =< Len(t)
  PROVE  ApplyOperation(t, op) =
           (SubSeq(t, 1, op.at) \o op.text) \o SubSeq(t, op.at + 1, Len(t))
<1>1. op.at \in Nat /\ Len(t) \in Nat /\ 0 \in Nat /\ 0 =< op.at /\ Len(t) =< Len(t)
  BY SMT DEF ReplayOperation, Texts
<1>2. TextInRange(t, 0, op.at) = SubSeq(t, 1, op.at)
  BY <1>1, PrefixThatFits
<1>3. TextInRange(t, op.at, Len(t)) = SubSeq(t, op.at + 1, Len(t))
  BY <1>1, RangeThatFits
<1> QED
  BY <1>2, <1>3 DEF ApplyOperation

LEMMA DeletedText ==
  ASSUME NEW t \in Texts, NEW op \in ReplayOperation, op.kind = "delete",
         op.at + Len(op.text) =< Len(t)
  PROVE  /\ ApplyOperation(t, op) =
              SubSeq(t, 1, op.at) \o SubSeq(t, op.at + Len(op.text) + 1, Len(t))
         /\ Applies(t, op) <=> SubSeq(t, op.at + 1, op.at + Len(op.text)) = op.text
<1>1. /\ op.at \in Nat /\ Len(t) \in Nat /\ Len(op.text) \in Nat /\ 0 \in Nat
      /\ 0 =< op.at /\ Len(t) =< Len(t) /\ op.at =< Len(t)
      /\ op.at + Len(op.text) \in Nat /\ op.at =< op.at + Len(op.text)
  BY SMT DEF ReplayOperation, Texts
<1>2. TextInRange(t, 0, op.at) = SubSeq(t, 1, op.at)
  BY <1>1, PrefixThatFits
<1>3. TextInRange(t, op.at + Len(op.text), Len(t)) = SubSeq(t, op.at + Len(op.text) + 1, Len(t))
  BY <1>1, RangeThatFits
<1>4. TextInRange(t, op.at, op.at + Len(op.text)) = SubSeq(t, op.at + 1, op.at + Len(op.text))
  BY <1>1, RangeThatFits
<1>5. op.kind # "insert"
  OBVIOUS
<1> QED
  BY <1>2, <1>3, <1>4, <1>5 DEF ApplyOperation, Applies

(* What a deletion expects to find lies in the text.                       *)
LEMMA FoundLiesWithin ==
  ASSUME NEW t \in Texts, NEW x \in Texts, NEW o \in Nat, o =< Len(t),
         TextInRange(t, o, o + Len(x)) = x
  PROVE  o + Len(x) =< Len(t)
<1> DEFINE n == Len(t)
           l == Len(x)
           s == SubSeq(t, o + 1, n)
<1>1. n \in Nat /\ l \in Nat
  BY SMT DEF Texts
<1>2. Len(s) = n - o
  BY SMT DEF Texts
<1>3. ~(o > n)
  BY <1>1, SMT
<1>4. Clamped(t, o) = o
  BY <1>3 DEF Clamped
<1>5. o + l > n => Clamped(t, o + l) = n
  BY DEF Clamped
<1>6. o + l > n => s = x
  BY <1>4, <1>5 DEF TextInRange
<1> HIDE DEF s, n, l
<1>7. o + l > n => n - o = l
  BY <1>2, <1>6 DEF l
<1>8. o + l =< n
  BY <1>1, <1>7, SMT
<1> QED
  BY <1>8 DEF l, n

(* The inverse of an operation takes it back, wherever the operation found *)
(* its place.                                                              *)
LEMMA InverseTakesBack ==
  ASSUME NEW t \in Texts, NEW op \in ReplayOperation,
         op.at =< Len(t), Applies(t, op)
  PROVE  ApplyOperation(ApplyOperation(t, op), InverseOf(op)) = t
<1> DEFINE o == op.at
           x == op.text
           a == SubSeq(t, 1, o)
<1>1. /\ o \in Nat /\ x \in Texts /\ Len(x) \in Nat /\ Len(t) \in Nat /\ o =< Len(t)
      /\ op.kind \in {"insert", "delete"}
      /\ o \in 0 .. Len(t)
  BY SMT DEF ReplayOperation, Texts
<1>2. InverseOf(op) \in ReplayOperation
  BY <1>1 DEF InverseOf, Insertion, Deletion, ReplayOperation
<1>3. a \in Texts /\ Len(a) = o
  BY <1>1, SMT DEF Texts
<1>4. CASE op.kind = "insert"
  <2> DEFINE b == SubSeq(t, o + 1, Len(t))
             u == (a \o x) \o b
  <2>1. ApplyOperation(t, op) = u
    BY <1>1, <1>4, InsertedText
  <2>2. b \in Texts
    BY <1>1, SMT DEF Texts
  <2>3. a \o b = t
    <3>1. o =< o
      BY <1>1, SMT
    <3> QED
      BY <1>1, <3>1, Cut
  <2>4. /\ InverseOf(op) = Deletion(o, x)
        /\ Deletion(o, x).at = o /\ Deletion(o, x).text = x
        /\ Deletion(o, x).kind = "delete"
    BY <1>4 DEF InverseOf, Deletion
  <2> HIDE DEF a, b, o, x
  <2>5. /\ u \in Texts /\ a \o x \in Texts
        /\ Len(u) = o + Len(x) + Len(b) /\ Len(b) \in Nat /\ Len(a \o x) = o + Len(x)
    <3>1. /\ a \o x \in Texts /\ Len(a \o x) = o + Len(x)
      BY <1>1, <1>3, Glue
    <3> QED
      BY <2>2, <3>1, Glue
  <2>6. SubSeq(u, 1, o) = a
    <3>1. Len(u) = Len((a \o x) \o b) /\ SubSeq((a \o x) \o b, 1, Len(a)) = a
      BY <1>1, <1>3, <2>2, SMT DEF Texts
    <3> QED
      BY <1>3, <3>1
  <2>7. SubSeq(u, Len(a \o x) + 1, Len(u)) = b
    BY <2>2, <2>5, Glue
  <2> HIDE DEF u
  <2>8. o + Len(x) =< Len(u)
    BY <1>1, <2>5, SMT
  <2>9. ApplyOperation(u, InverseOf(op)) = SubSeq(u, 1, o) \o SubSeq(u, o + Len(x) + 1, Len(u))
    BY <1>2, <2>4, <2>5, <2>8, DeletedText
  <2> QED
    BY <2>1, <2>3, <2>5, <2>6, <2>7, <2>9
<1>5. CASE op.kind = "delete"
  <2> DEFINE b == SubSeq(t, o + Len(x) + 1, Len(t))
             u == a \o b
  <2>1. o + Len(x) =< Len(t) /\ o + Len(x) \in Nat /\ o =< o + Len(x)
    <3>1. TextInRange(t, o, o + Len(x)) = x
      BY <1>5 DEF Applies
    <3>2. o + Len(x) =< Len(t)
      BY <1>1, <3>1, FoundLiesWithin
    <3> HIDE DEF o, x
    <3> QED
      BY <1>1, <3>2, SMT
  <2>2. ApplyOperation(t, op) = u /\ SubSeq(t, o + 1, o + Len(x)) = x
    BY <1>5, <2>1, DeletedText
  <2>3. b \in Texts
    BY <1>1, <2>1, SMT DEF Texts
  <2>4. (a \o SubSeq(t, o + 1, o + Len(x))) \o b = t
    BY <1>1, <2>1, Cut
  <2>5. /\ InverseOf(op) = Insertion(o, x)
        /\ Insertion(o, x).at = o /\ Insertion(o, x).text = x
        /\ Insertion(o, x).kind = "insert"
    BY <1>5 DEF InverseOf, Insertion
  <2> HIDE DEF a, b, o, x
  <2>6. u \in Texts /\ Len(u) = o + Len(b) /\ Len(b) \in Nat
    BY <1>3, <2>3, Glue
  <2>7. SubSeq(u, 1, Len(a)) = a /\ SubSeq(u, Len(a) + 1, Len(u)) = b
    BY <1>3, <2>3, Glue
  <2> HIDE DEF u
  <2>8. o =< Len(u)
    BY <1>1, <2>6, SMT
  <2>9. ApplyOperation(u, InverseOf(op)) = (SubSeq(u, 1, o) \o x) \o SubSeq(u, o + 1, Len(u))
    BY <1>2, <2>5, <2>6, <2>8, InsertedText
  <2> QED
    BY <1>3, <2>2, <2>4, <2>7, <2>9
<1> QED
  BY <1>1, <1>4, <1>5

(* The inverses of the first k operations retrace the texts these went     *)
(* through, when they found their places.                                  *)
LEMMA InversesRetrace ==
  ASSUME NEW t \in Texts, NEW ops \in Seq(ReplayOperation), NEW k \in 0 .. Len(ops),
         FirstApply(t, ops, k),
         \A j \in 0 .. k - 1 : ops[j + 1].at =< Len(AfterFirst(t, ops, j))
  PROVE  \A i \in 0 .. k :
           AfterFirst(AfterFirst(t, ops, k), Inverses(SubSeq(ops, 1, k)), i)
             = AfterFirst(t, ops, k - i)
<1> DEFINE done == SubSeq(ops, 1, k)
           inv == Inverses(done)
           u == AfterFirst(t, ops, k)
           S == {i \in Nat : AfterFirst(u, inv, i) = AfterFirst(t, ops, k - i)}
<1>1. Len(ops) \in Nat /\ k \in Nat /\ k - 0 = k
  BY SMT
<1>2. done \in Seq(ReplayOperation) /\ Len(done) = k /\ \A i \in 1 .. k : done[i] = ops[i]
  BY SMT
<1> HIDE DEF done
<1>3. Len(inv) = k /\ \A i \in 1 .. k : inv[i] = InverseOf(done[k - i + 1])
  BY <1>2, InversesType
<1> HIDE DEF inv
<1>4. AfterFirst(u, inv, 0) = u
  BY <1>1, <1>3, AfterFirstStep
<1>5. 0 \in S
  BY <1>1, <1>4
<1>6. ASSUME NEW i \in 0 .. k - 1, i \in S
      PROVE  i + 1 \in S
  <2> DEFINE j == k - (i + 1)
  <2>1. /\ i \in Nat /\ i + 1 \in Nat /\ i \in 0 .. Len(inv) - 1 /\ i + 1 \in 1 .. k
        /\ j \in 0 .. k - 1 /\ j \in 0 .. Len(ops) - 1 /\ j \in 0 .. Len(ops)
        /\ j + 1 \in 1 .. Len(ops) /\ j + 1 \in 1 .. k
        /\ k - i = j + 1 /\ k - (i + 1) + 1 = j + 1 /\ (j + 1) - 1 = j
    BY <1>1, <1>3, SMT
  <2>2. AfterFirst(u, inv, i + 1) = ApplyOperation(AfterFirst(u, inv, i), inv[i + 1])
    <3> HIDE DEF u, j
    <3>1. Len(inv) \in Nat
      BY <1>1, <1>3
    <3>2. \A m \in 0 .. Len(inv) - 1 :
            AfterFirst(u, inv, m + 1) = ApplyOperation(AfterFirst(u, inv, m), inv[m + 1])
      <4>1. Stepwise(u, inv)
        BY <3>1, AfterFirstStep
      <4> QED
        BY <3>1, <4>1 DEF Stepwise
    <3> QED
      BY <2>1, <3>2
  <2>3. inv[i + 1] = InverseOf(ops[j + 1])
    <3>1. inv[i + 1] = InverseOf(done[k - (i + 1) + 1])
      BY <1>3, <2>1
    <3>2. done[j + 1] = ops[j + 1]
      BY <1>2, <2>1
    <3> QED
      BY <2>1, <3>1, <3>2
  <2>4. AfterFirst(u, inv, i) = AfterFirst(t, ops, j + 1)
    <3>1. AfterFirst(u, inv, i) = AfterFirst(t, ops, k - i)
      BY <1>6
    <3> QED
      BY <2>1, <3>1
  <2> HIDE DEF u, S
  <2>5. AfterFirst(t, ops, j + 1) = ApplyOperation(AfterFirst(t, ops, j), ops[j + 1])
    <3> HIDE DEF j
    <3> QED
      <4>1. Stepwise(t, ops)
        BY <1>1, <2>1, AfterFirstStep
      <4> QED
        BY <1>1, <2>1, <4>1 DEF Stepwise
  <2>6. AfterFirst(t, ops, j) \in Texts /\ ops[j + 1] \in ReplayOperation
    <3> HIDE DEF j
    <3>1. AfterFirst(t, ops, j) \in Texts
      BY <2>1, AfterFirstType
    <3>2. ops[j + 1] \in ReplayOperation
      BY <2>1, SMT
    <3> QED
      BY <3>1, <3>2
  <2>7. Applies(AfterFirst(t, ops, j), ops[j + 1])
    <3> HIDE DEF j
    <3>1. Applies(AfterFirst(t, ops, (j + 1) - 1), ops[j + 1])
      BY <2>1 DEF FirstApply
    <3> QED
      BY <2>1, <3>1
  <2>8. ops[j + 1].at =< Len(AfterFirst(t, ops, j))
    <3> HIDE DEF j
    <3> QED
      BY <2>1
  <2> HIDE DEF j
  <2>9. ApplyOperation(AfterFirst(t, ops, j + 1), InverseOf(ops[j + 1])) = AfterFirst(t, ops, j)
    BY <2>5, <2>6, <2>7, <2>8, InverseTakesBack
  <2>10. AfterFirst(u, inv, i + 1) = AfterFirst(t, ops, j)
    BY <2>2, <2>3, <2>4, <2>9
  <2> QED
    BY <2>1, <2>10 DEF j, S
<1> HIDE DEF S
<1>7. 0 .. k \subseteq S
  BY <1>1, <1>5, <1>6, InductionUpTo
<1> QED
  BY <1>7 DEF S, u, inv, done

(* An operation list interrupted after k operations leaves the text it     *)
(* found, when those k operations found their places: the handler of       *)
(* apply_operations really restores the buffer.                            *)
THEOREM RollbackRestores ==
  ASSUME NEW t \in Texts, NEW ops \in Seq(ReplayOperation), NEW k \in 0 .. Len(ops),
         FirstApply(t, ops, k),
         \A j \in 0 .. k - 1 : ops[j + 1].at =< Len(AfterFirst(t, ops, j))
  PROVE  RolledBack(t, ops, k) = t
<1> DEFINE inv == Inverses(SubSeq(ops, 1, k))
           u == AfterFirst(t, ops, k)
<1>1. Len(ops) \in Nat /\ k \in 0 .. k /\ k - k = 0
  BY SMT
<1>2. Len(inv) = k
  <2>1. SubSeq(ops, 1, k) \in Seq(ReplayOperation) /\ Len(SubSeq(ops, 1, k)) = k
    BY SMT
  <2> QED
    BY <2>1, InversesType
<1>3. AfterFirst(u, inv, k) = AfterFirst(t, ops, k - k)
  BY <1>1, InversesRetrace
<1>4. AfterFirst(t, ops, 0) = t
  BY <1>1, AfterFirstStep
<1> QED
  BY <1>1, <1>2, <1>3, <1>4 DEF RolledBack, ApplyOperations

-----------------------------------------------------------------------------
(* The operations find their places in t, and make u of it.                *)
Makes(t, ops, u) ==
  /\ AllApply(t, ops)
  /\ \A j \in 0 .. Len(ops) - 1 : ops[j + 1].at =< Len(AfterFirst(t, ops, j))
  /\ ApplyOperations(t, ops) = u

LEMMA InverseApplies ==
  ASSUME NEW t \in Texts, NEW op \in ReplayOperation,
         op.at =< Len(t), Applies(t, op)
  PROVE  /\ Applies(ApplyOperation(t, op), InverseOf(op))
         /\ InverseOf(op).at =< Len(ApplyOperation(t, op))
<1> DEFINE o == op.at
           x == op.text
           a == SubSeq(t, 1, o)
           u == ApplyOperation(t, op)
<1>1. /\ o \in Nat /\ x \in Texts /\ Len(x) \in Nat /\ Len(t) \in Nat /\ o =< Len(t)
      /\ op.kind \in {"insert", "delete"} /\ u \in Texts /\ Len(u) \in Nat
  BY ApplyOperationType, SMT DEF ReplayOperation, Texts
<1>2. InverseOf(op) \in ReplayOperation
  BY <1>1 DEF InverseOf, Insertion, Deletion, ReplayOperation
<1>3. a \in Texts /\ Len(a) = o
  BY <1>1, SMT DEF Texts
<1>4. CASE op.kind = "insert"
  <2> DEFINE b == SubSeq(t, o + 1, Len(t))
  <2>1. u = (a \o x) \o b
    BY <1>1, <1>4, InsertedText
  <2>2. b \in Texts
    BY <1>1, SMT DEF Texts
  <2>3. /\ InverseOf(op).at = o /\ InverseOf(op).text = x /\ InverseOf(op).kind = "delete"
    BY <1>4 DEF InverseOf, Deletion
  <2> HIDE DEF a, b, o, x, u
  <2>4. a \o x \in Texts /\ Len(a \o x) = o + Len(x) /\ SubSeq(a \o x, o + 1, o + Len(x)) = x
    <3>1. /\ a \o x \in Texts /\ Len(a \o x) = o + Len(x)
          /\ SubSeq(a \o x, Len(a) + 1, Len(a \o x)) = x
      BY <1>1, <1>3, Glue
    <3> QED
      BY <1>3, <3>1
  <2>5. o + Len(x) =< Len(u) /\ SubSeq(u, 1, o + Len(x)) = a \o x
    <3>1. /\ Len(u) = Len(a \o x) + Len(b) /\ Len(b) \in Nat
          /\ SubSeq(u, 1, Len(a \o x)) = a \o x
      BY <2>1, <2>2, <2>4, Glue
    <3>2. SubSeq(u, 1, o + Len(x)) = a \o x /\ Len(u) = (o + Len(x)) + Len(b)
      BY <2>4, <3>1, Zenon
    <3> DEFINE m == o + Len(x)
               k == Len(u)
    <3>3. m \in Nat
      BY <1>1, SMT
    <3> HIDE DEF m, k
    <3>4. m =< k
      BY <3>1, <3>2, <3>3, SMT DEF m, k
    <3> QED
      BY <3>2, <3>4 DEF m, k
  <2>6. SubSeq(u, o + 1, o + Len(x)) = x
    <3>1. SubSeq(u, o + 1, o + Len(x)) = SubSeq(SubSeq(u, 1, o + Len(x)), o + 1, o + Len(x))
      BY <1>1, <2>5, SMT DEF Texts
    <3> QED
      BY <2>4, <2>5, <3>1
  <2>7. Applies(u, InverseOf(op))
    BY <1>1, <1>2, <2>3, <2>5, <2>6, DeletedText
  <2> QED
    BY <1>1, <2>3, <2>5, <2>7, SMT DEF u
<1>5. CASE op.kind = "delete"
  <2>1. o + Len(x) =< Len(t)
    <3>1. TextInRange(t, o, o + Len(x)) = x
      BY <1>5 DEF Applies
    <3> QED
      BY <1>1, <3>1, FoundLiesWithin
  <2>2. u = a \o SubSeq(t, o + Len(x) + 1, Len(t))
    BY <1>5, <2>1, DeletedText
  <2>3. SubSeq(t, o + Len(x) + 1, Len(t)) \in Texts
    BY <1>1, <2>1, SMT DEF Texts
  <2>4. InverseOf(op).at = o /\ InverseOf(op).kind = "insert"
    BY <1>5 DEF InverseOf, Insertion
  <2> HIDE DEF u
  <2>5. o =< Len(u)
    <3> HIDE DEF a
    <3> DEFINE b == SubSeq(t, o + Len(x) + 1, Len(t))
    <3> HIDE DEF b
    <3>1. b \in Texts /\ u = a \o b
      BY <2>2, <2>3 DEF b
    <3>2. Len(u) = Len(a) + Len(b) /\ Len(b) \in Nat
      BY <1>3, <3>1, Glue
    <3> QED
      BY <1>1, <1>3, <3>2, SMT
  <2> QED
    BY <2>4, <2>5 DEF Applies, u
<1> QED
  BY <1>1, <1>4, <1>5

(* A list of operations that finds its places is taken back by its         *)
(* inverses, which find theirs: undo after an edit, and redo after undo.   *)
THEOREM InversesTakeBack ==
  ASSUME NEW t \in Texts, NEW ops \in Seq(ReplayOperation), NEW u, Makes(t, ops, u)
  PROVE  Makes(u, Inverses(ops), t)
<1> DEFINE n == Len(ops)
           inv == Inverses(ops)
<1>1. n \in Nat /\ n \in 0 .. n /\ SubSeq(ops, 1, n) = ops /\ n - n = 0
  BY SMT
<1>2. /\ FirstApply(t, ops, n)
      /\ \A j \in 0 .. n - 1 : ops[j + 1].at =< Len(AfterFirst(t, ops, j))
      /\ u = AfterFirst(t, ops, n)
  BY DEF Makes, AllApply, ApplyOperations
<1>3. /\ inv \in Seq(ReplayOperation) /\ Len(inv) = n
      /\ \A i \in 1 .. n : inv[i] = InverseOf(ops[n - i + 1])
  BY InversesType
<1> HIDE DEF n, inv
<1>4. \A i \in 0 .. n : AfterFirst(u, inv, i) = AfterFirst(t, ops, n - i)
  <2>1. \A i \in 0 .. n :
          AfterFirst(AfterFirst(t, ops, n), Inverses(SubSeq(ops, 1, n)), i) = AfterFirst(t, ops, n - i)
    BY <1>1, <1>2, InversesRetrace DEF n
  <2> QED
    BY <1>1, <1>2, <2>1 DEF inv
<1>5. ASSUME NEW i \in 0 .. n - 1
      PROVE  /\ Applies(AfterFirst(u, inv, i), inv[i + 1])
             /\ inv[i + 1].at =< Len(AfterFirst(u, inv, i))
  <2> DEFINE j == n - i - 1
             v == AfterFirst(t, ops, j)
             op == ops[j + 1]
  <2>1. /\ i \in 0 .. n /\ i + 1 \in 1 .. n /\ j \in 0 .. n - 1 /\ j \in 0 .. n
        /\ j + 1 \in 1 .. n /\ n - (i + 1) + 1 = j + 1 /\ n - i = j + 1 /\ (j + 1) - 1 = j
    BY <1>1, SMT
  <2>2. v \in Texts /\ op \in ReplayOperation
    <3> HIDE DEF j
    <3>1. v \in Texts
      BY <2>1, AfterFirstType DEF n
    <3>2. op \in ReplayOperation
      BY <1>1, <2>1, SMT DEF n
    <3> QED
      BY <3>1, <3>2
  <2>3. Applies(v, op) /\ op.at =< Len(v)
    <3> HIDE DEF j
    <3>1. Applies(AfterFirst(t, ops, (j + 1) - 1), ops[j + 1])
      BY <1>2, <2>1 DEF FirstApply
    <3>2. op.at =< Len(v)
      BY <1>2, <2>1
    <3> QED
      BY <2>1, <3>1, <3>2
  <2>4. AfterFirst(t, ops, j + 1) = ApplyOperation(v, op)
    <3>1. \A m \in 0 .. Len(ops) - 1 :
            AfterFirst(t, ops, m + 1) = ApplyOperation(AfterFirst(t, ops, m), ops[m + 1])
      <4>1. Len(ops) \in Nat
        BY SMT
      <4> QED
        <5>1. Stepwise(t, ops)
          BY <4>1, AfterFirstStep
        <5> QED
          BY <4>1, <5>1 DEF Stepwise
    <3>2. j \in 0 .. Len(ops) - 1
      BY <2>1 DEF n
    <3> HIDE DEF j
    <3> QED
      BY <3>1, <3>2
  <2>5. AfterFirst(u, inv, i) = ApplyOperation(v, op)
    <3>1. AfterFirst(u, inv, i) = AfterFirst(t, ops, n - i)
      BY <1>4, <2>1
    <3> HIDE DEF j, v
    <3> QED
      BY <2>1, <2>4, <3>1
  <2>6. inv[i + 1] = InverseOf(op)
    <3>1. inv[i + 1] = InverseOf(ops[n - (i + 1) + 1])
      BY <1>3, <2>1
    <3> HIDE DEF j
    <3> QED
      BY <2>1, <3>1
  <2> HIDE DEF j, v, op
  <2> QED
    BY <2>2, <2>3, <2>5, <2>6, InverseApplies
<1>6. AllApply(u, inv)
  <2> SUFFICES ASSUME NEW j \in 1 .. n
               PROVE  Applies(AfterFirst(u, inv, j - 1), inv[j])
    BY <1>3 DEF AllApply, FirstApply
  <2>1. j - 1 \in 0 .. n - 1 /\ (j - 1) + 1 = j
    BY <1>1, SMT
  <2>2. Applies(AfterFirst(u, inv, j - 1), inv[(j - 1) + 1])
    BY <1>5, <2>1
  <2> QED
    BY <2>1, <2>2
<1>7. ApplyOperations(u, inv) = t
  <2>1. AfterFirst(u, inv, n) = AfterFirst(t, ops, n - n)
    BY <1>1, <1>4
  <2>2. AfterFirst(t, ops, 0) = t
    BY <1>1, AfterFirstStep DEF n
  <2> QED
    BY <1>1, <1>3, <2>1, <2>2 DEF ApplyOperations
<1> QED
  BY <1>3, <1>5, <1>6, <1>7 DEF Makes, inv

LEMMA MadeTextType ==
  ASSUME NEW t \in Texts, NEW ops \in Seq(ReplayOperation), NEW u, Makes(t, ops, u)
  PROVE  u \in Texts
  BY ApplyOperationsType DEF Makes

LEMMA NothingMakes ==
  ASSUME NEW t
  PROVE  Makes(t, <<>>, t)
<1>1. Len(<<>>) = 0 /\ Len(<<>>) \in Nat /\ (0 .. Len(<<>>) - 1) = {} /\ (1 .. Len(<<>>)) = {}
  BY SMT
<1>2. AfterFirst(t, <<>>, 0) = t
  BY <1>1, AfterFirstStep
<1> QED
  BY <1>1, <1>2 DEF Makes, AllApply, FirstApply, ApplyOperations

LEMMA AfterFirstNext ==
  ASSUME NEW t, NEW ops \in Seq(ReplayOperation)
  PROVE  /\ AfterFirst(t, ops, 0) = t
         /\ \A m \in 0 .. Len(ops) - 1 :
              AfterFirst(t, ops, m + 1) = ApplyOperation(AfterFirst(t, ops, m), ops[m + 1])
<1>1. Len(ops) \in Nat
  BY SMT
<1> QED
  <2>1. Stepwise(t, ops)
    BY <1>1, AfterFirstStep
  <2> QED
    BY <1>1, AfterFirstStep, <2>1 DEF Stepwise

(* Lists that agree on their first n operations go through the same texts. *)
LEMMA SameBeginning ==
  ASSUME NEW t, NEW ops \in Seq(ReplayOperation), NEW more \in Seq(ReplayOperation),
         NEW n \in Nat, n =< Len(ops), n =< Len(more), \A i \in 1 .. n : more[i] = ops[i]
  PROVE  \A k \in 0 .. n : AfterFirst(t, more, k) = AfterFirst(t, ops, k)
<1> DEFINE S == {k \in Nat : AfterFirst(t, more, k) = AfterFirst(t, ops, k)}
<1>1. \A m \in 0 .. Len(ops) - 1 :
        AfterFirst(t, ops, m + 1) = ApplyOperation(AfterFirst(t, ops, m), ops[m + 1])
  BY AfterFirstNext
<1>2. \A m \in 0 .. Len(more) - 1 :
        AfterFirst(t, more, m + 1) = ApplyOperation(AfterFirst(t, more, m), more[m + 1])
  BY AfterFirstNext
<1>3. 0 \in S
  BY AfterFirstNext
<1>4. ASSUME NEW k \in 0 .. n - 1, k \in S
      PROVE  k + 1 \in S
  <2>1. /\ k \in 0 .. Len(ops) - 1 /\ k \in 0 .. Len(more) - 1
        /\ k + 1 \in 1 .. n /\ k + 1 \in Nat
    BY SMT
  <2>2. AfterFirst(t, more, k) = AfterFirst(t, ops, k)
    BY <1>4
  <2> HIDE DEF S
  <2>3. /\ AfterFirst(t, ops, k + 1) = ApplyOperation(AfterFirst(t, ops, k), ops[k + 1])
        /\ AfterFirst(t, more, k + 1) = ApplyOperation(AfterFirst(t, more, k), more[k + 1])
    BY <1>1, <1>2, <2>1
  <2> QED
    BY <2>1, <2>2, <2>3 DEF S
<1> HIDE DEF S
<1>5. 0 .. n \subseteq S
  BY <1>3, <1>4, InductionUpTo
<1> QED
  BY <1>5 DEF S

LEMMA OneMoreMakes ==
  ASSUME NEW t, NEW ops \in Seq(ReplayOperation), NEW u, Makes(t, ops, u),
         NEW op \in ReplayOperation, Applies(u, op), op.at =< Len(u)
  PROVE  Makes(t, Append(ops, op), ApplyOperation(u, op))
<1> DEFINE n == Len(ops)
           more == Append(ops, op)
<1>1. /\ n \in Nat /\ Len(more) = n + 1 /\ more[n + 1] = op /\ \A i \in 1 .. n : more[i] = ops[i]
  BY SMT
<1>2. /\ FirstApply(t, ops, n)
      /\ \A j \in 0 .. n - 1 : ops[j + 1].at =< Len(AfterFirst(t, ops, j))
      /\ u = AfterFirst(t, ops, n)
  BY DEF Makes, AllApply, ApplyOperations
<1> HIDE DEF n, more
<1>3. \A k \in 0 .. n : AfterFirst(t, more, k) = AfterFirst(t, ops, k)
  <2>1. /\ more \in Seq(ReplayOperation) /\ n =< Len(ops) /\ n =< Len(more)
        /\ \A i \in 1 .. n : more[i] = ops[i]
    BY <1>1, SMT DEF n, more
  <2> QED
    BY <1>1, <2>1, SameBeginning
<1>4. AfterFirst(t, more, n) = u
  BY <1>1, <1>2, <1>3, SMT
<1>5. ASSUME NEW j \in 1 .. n + 1
      PROVE  /\ Applies(AfterFirst(t, more, j - 1), more[j])
             /\ more[j].at =< Len(AfterFirst(t, more, j - 1))
  <2>1. CASE j \in 1 .. n
    <3>1. j - 1 \in 0 .. n - 1 /\ j - 1 \in 0 .. n /\ (j - 1) + 1 = j
      BY <1>1, <2>1, SMT
    <3>2. ops[(j - 1) + 1].at =< Len(AfterFirst(t, ops, j - 1))
      BY <1>2, <3>1
    <3>3. Applies(AfterFirst(t, ops, j - 1), ops[j])
      BY <1>2, <2>1 DEF FirstApply
    <3> QED
      BY <1>1, <1>3, <2>1, <3>1, <3>2, <3>3
  <2>2. CASE j = n + 1
    <3>1. j - 1 = n
      BY <1>1, <2>2, SMT
    <3> QED
      BY <1>1, <1>4, <2>2, <3>1
  <2> QED
    BY <1>1, <2>1, <2>2, SMT
<1>6. AllApply(t, more)
  BY <1>1, <1>5 DEF AllApply, FirstApply
<1>7. ASSUME NEW j \in 0 .. Len(more) - 1
      PROVE  more[j + 1].at =< Len(AfterFirst(t, more, j))
  <2>1. j + 1 \in 1 .. n + 1 /\ (j + 1) - 1 = j
    BY <1>1, SMT
  <2>2. more[j + 1].at =< Len(AfterFirst(t, more, (j + 1) - 1))
    BY <1>5, <2>1
  <2> QED
    BY <2>1, <2>2
<1>8. ApplyOperations(t, more) = ApplyOperation(u, op)
  <2>1. n \in 0 .. Len(more) - 1 /\ Len(more) \in Nat
    BY <1>1, SMT
  <2>2. AfterFirst(t, more, n + 1) = ApplyOperation(AfterFirst(t, more, n), more[n + 1])
    <3>1. Stepwise(t, more)
      BY <2>1, AfterFirstStep
    <3> QED
      BY <2>1, <3>1 DEF Stepwise
  <2> QED
    BY <1>1, <1>4, <2>2 DEF ApplyOperations
<1> QED
  BY <1>6, <1>7, <1>8 DEF Makes, more

-----------------------------------------------------------------------------
(* Two adjacent operations of a kind are one of a longer text.             *)
Step(t, op, u) == Applies(t, op) /\ op.at =< Len(t) /\ u = ApplyOperation(t, op)

(* What a single operation makes.                                          *)
LEMMA SingleMakes ==
  ASSUME NEW t, NEW op, NEW u
  PROVE  Makes(t, <<op>>, u) <=> Step(t, op, u)
<1>1. /\ Len(<<op>>) = 1 /\ Len(<<op>>) \in Nat /\ <<op>>[1] = op
      /\ 0 \in 0 .. Len(<<op>>) - 1 /\ 1 .. Len(<<op>>) = {1} /\ 0 .. Len(<<op>>) - 1 = {0}
      /\ 1 - 1 = 0 /\ 0 + 1 = 1
  BY SMT
<1>2. AfterFirst(t, <<op>>, 0) = t
  BY <1>1, AfterFirstStep
<1>3. AfterFirst(t, <<op>>, 1) = ApplyOperation(t, op)
  <2> DEFINE ops == <<op>>
  <2>1. \A m \in 0 .. Len(ops) - 1 :
          AfterFirst(t, ops, m + 1) = ApplyOperation(AfterFirst(t, ops, m), ops[m + 1])
    <3>1. Len(ops) \in Nat
      BY <1>1
    <3> HIDE DEF ops
    <3> QED
      <4>1. Stepwise(t, ops)
        BY <3>1, AfterFirstStep
      <4> QED
        BY <3>1, <4>1 DEF Stepwise
  <2> QED
    BY <1>1, <1>2, <2>1
<1>4. AllApply(t, <<op>>) <=> Applies(t, op)
  BY <1>1, <1>2 DEF AllApply, FirstApply
<1>5. ApplyOperations(t, <<op>>) = ApplyOperation(t, op)
  BY <1>1, <1>3 DEF ApplyOperations
<1> QED
  BY <1>1, <1>2, <1>4, <1>5 DEF Makes, Step

LEMMA StepBack ==
  ASSUME NEW t \in Texts, NEW op \in ReplayOperation, NEW u, Step(t, op, u)
  PROVE  u \in Texts /\ Step(u, InverseOf(op), t)
  BY ApplyOperationType, InverseApplies, InverseTakesBack DEF Step

LEMMA Associates ==
  ASSUME NEW a \in Texts, NEW b \in Texts, NEW c \in Texts
  PROVE  (a \o b) \o c = a \o (b \o c)
  BY SMT DEF Texts

LEMMA InsertedWithin ==
  ASSUME NEW a \in Texts, NEW b \in Texts, NEW z \in Texts
  PROVE  Step(a \o b, Insertion(Len(a), z), (a \o z) \o b)
<1> DEFINE t == a \o b
           op == Insertion(Len(a), z)
<1>1. /\ t \in Texts /\ Len(a) \in Nat /\ Len(b) \in Nat /\ Len(t) = Len(a) + Len(b)
      /\ SubSeq(t, 1, Len(a)) = a /\ SubSeq(t, Len(a) + 1, Len(t)) = b
  BY Glue
<1>2. op \in ReplayOperation /\ op.at = Len(a) /\ op.text = z /\ op.kind = "insert"
  BY <1>1 DEF Insertion, ReplayOperation
<1> HIDE DEF op, t
<1>3. op.at =< Len(t)
  BY <1>1, <1>2, SMT
<1>4. ApplyOperation(t, op) = (SubSeq(t, 1, op.at) \o op.text) \o SubSeq(t, op.at + 1, Len(t))
  BY <1>1, <1>2, <1>3, InsertedText
<1>5. ApplyOperation(t, op) = (a \o z) \o b
  BY <1>1, <1>2, <1>4
<1> QED
  BY <1>2, <1>3, <1>5 DEF Step, Applies, t, op

(* Two insertions into the same text, the second after or before the first.*)
LEMMA InsertedTwice ==
  ASSUME NEW p \in Texts, NEW s \in Texts, NEW x \in Texts, NEW y \in Texts
  PROVE  /\ Step((p \o x) \o s, Insertion(Len(p) + Len(x), y), (p \o (x \o y)) \o s)
         /\ Step((p \o x) \o s, Insertion(Len(p), y), (p \o (y \o x)) \o s)
<1>1. /\ p \o x \in Texts /\ x \o s \in Texts /\ p \o y \in Texts
      /\ Len(p \o x) = Len(p) + Len(x)
  BY Glue
<1>2. Step((p \o x) \o s, Insertion(Len(p \o x), y), ((p \o x) \o y) \o s)
  BY <1>1, InsertedWithin
<1>3. Step(p \o (x \o s), Insertion(Len(p), y), (p \o y) \o (x \o s))
  BY <1>1, InsertedWithin
<1>4. (p \o x) \o y = p \o (x \o y) /\ (p \o x) \o s = p \o (x \o s)
  <2>1. (p \o x) \o y = p \o (x \o y)
    BY Associates, Zenon
  <2>2. (p \o x) \o s = p \o (x \o s)
    BY Associates, Zenon
  <2> QED
    BY <2>1, <2>2
<1>5. \A q \in Texts : q \o (x \o s) = (q \o x) \o s
  <2> TAKE q \in Texts
  <2>1. (q \o x) \o s = q \o (x \o s)
    BY Associates, Zenon
  <2> QED
    BY <2>1, Zenon
<1>6. (p \o y) \o x = p \o (y \o x)
  BY Associates
<1> QED
  BY <1>1, <1>2, <1>3, <1>4, <1>5, <1>6

LEMMA Halves ==
  ASSUME NEW t \in Texts, NEW o \in Nat, o =< Len(t)
  PROVE  \E a, b \in Texts : t = a \o b /\ Len(a) = o
<1>1. SubSeq(t, 1, o) \in Texts /\ SubSeq(t, o + 1, Len(t)) \in Texts /\ Len(SubSeq(t, 1, o)) = o
  BY SMT DEF Texts
<1>2. SubSeq(t, 1, o) \o SubSeq(t, o + 1, Len(t)) = t
  <2>1. Len(t) \in Nat /\ o =< o
    BY SMT DEF Texts
  <2> QED
    BY <2>1, Cut
<1> QED
  BY <1>1, <1>2

LEMMA OperationKinds ==
  ASSUME NEW op \in ReplayOperation
  PROVE  /\ op.at \in Nat /\ op.text \in Texts
         /\ op.kind = "insert" => op = Insertion(op.at, op.text)
         /\ op.kind = "delete" => op = Deletion(op.at, op.text)
  BY DEF ReplayOperation, Insertion, Deletion

LEMMA InsertionsJoin ==
  ASSUME NEW t \in Texts, NEW o \in Nat, NEW x \in Texts, NEW y \in Texts,
         NEW u, Step(t, Insertion(o, x), u), NEW v
  PROVE  /\ Step(u, Insertion(o + Len(x), y), v) => Step(t, Insertion(o, x \o y), v)
         /\ Step(u, Insertion(o, y), v) => Step(t, Insertion(o, y \o x), v)
<1>1. o =< Len(t)
  BY DEF Step, Insertion
<1>2. PICK p \in Texts, s \in Texts : t = p \o s /\ Len(p) = o
  BY <1>1, Halves
<1>3. u = (p \o x) \o s
  <2>1. Step(t, Insertion(o, x), (p \o x) \o s)
    BY <1>2, InsertedWithin
  <2> QED
    BY <2>1 DEF Step
<1>4. x \o y \in Texts /\ y \o x \in Texts
  BY Glue
<1>5. /\ Step(t, Insertion(o, x \o y), (p \o (x \o y)) \o s)
      /\ Step(t, Insertion(o, y \o x), (p \o (y \o x)) \o s)
  BY <1>2, <1>4, InsertedWithin
<1>6. /\ Step(u, Insertion(o + Len(x), y), (p \o (x \o y)) \o s)
      /\ Step(u, Insertion(o, y), (p \o (y \o x)) \o s)
  BY <1>2, <1>3, InsertedTwice
<1> QED
  BY <1>5, <1>6 DEF Step

LEMMA DeletionsJoin ==
  ASSUME NEW t \in Texts, NEW o \in Nat, NEW x \in Texts, NEW u, Step(t, Deletion(o, x), u),
         NEW r \in Nat, NEW y \in Texts, NEW v, Step(u, Deletion(r, y), v)
  PROVE  /\ r + Len(y) = o => Step(t, Deletion(r, y \o x), v)
         /\ r = o => Step(t, Deletion(o, x \o y), v)
<1>1. ASSUME NEW i \in Nat, NEW z \in Texts
      PROVE  /\ Insertion(i, z) \in ReplayOperation /\ Deletion(i, z) \in ReplayOperation
             /\ InverseOf(Insertion(i, z)) = Deletion(i, z)
             /\ InverseOf(Deletion(i, z)) = Insertion(i, z)
  BY DEF Insertion, Deletion, InverseOf, ReplayOperation
<1>2. u \in Texts /\ Step(u, Insertion(o, x), t)
  BY <1>1, StepBack
<1>3. v \in Texts /\ Step(v, Insertion(r, y), u)
  BY <1>1, <1>2, StepBack
<1>4. y \o x \in Texts /\ x \o y \in Texts
  BY Glue
<1>5. ASSUME NEW z \in Texts, Step(v, Insertion(r, z), t)
      PROVE  Step(t, Deletion(r, z), v)
  BY <1>1, <1>3, <1>5, StepBack
<1>6. ASSUME r + Len(y) = o
      PROVE  Step(t, Deletion(r, y \o x), v)
  BY <1>2, <1>3, <1>4, <1>5, <1>6, InsertionsJoin
<1>7. ASSUME r = o
      PROVE  Step(t, Deletion(o, x \o y), v)
  BY <1>2, <1>3, <1>4, <1>5, <1>7, InsertionsJoin
<1> QED
  BY <1>6, <1>7
=============================================================================
