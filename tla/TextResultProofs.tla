-------------------------- MODULE TextResultProofs --------------------------
(***************************************************************************)
(* Proofs that compare a text with what comes of it: saved and opened      *)
(* again, trimmed, duplicated, and with lines moved there and back.        *)
(***************************************************************************)
EXTENDS TextProofs

-----------------------------------------------------------------------------
(* Serialization.                                                          *)

LEMMA FromAppends ==
  ASSUME NEW S, NEW s \in Seq(S), NEW P, <<>> \in P,
         \A x \in P : \A c \in S : Append(x, c) \in P
  PROVE  s \in P
<1>1. \A k \in 0 .. Len(s) - 1 : s[k + 1] \in S
  BY SMT
<1> QED
  BY <1>1, FromBeginnings

LEMMA MappedAppend ==
  ASSUME NEW f, \A c \in Chars : f[c] \in Texts, NEW s \in Texts, NEW c \in Chars
  PROVE  /\ Append(s, c) \in Texts /\ <<c>> \in Texts /\ Append(s, c) = s \o <<c>>
         /\ Mapped(Append(s, c), f) = Mapped(s, f) \o f[c]
<1>1. Append(s, c) \in Texts /\ Append(s, c) = s \o <<c>>
  BY SMT DEF Texts
<1>2. <<c>> \in Texts
  BY OneCharacter
<1>3. Mapped(<<c>>, f) = f[c]
  BY MappedCharacter
<1>4. Mapped(s \o <<c>>, f) = Mapped(s, f) \o Mapped(<<c>>, f)
  BY <1>2, MappedJoin
<1> QED
  BY <1>1, <1>2, <1>3, <1>4

(* A mapping that puts only certain characters makes texts of them.        *)
LEMMA MappedInto ==
  ASSUME NEW f, \A c \in Chars : f[c] \in Texts, NEW C \in SUBSET Chars, NEW t \in Seq(C),
         NEW D, \A c \in C : f[c] \in Seq(D)
  PROVE  Mapped(t, f) \in Seq(D)
<1> DEFINE P == {x \in Texts : Mapped(x, f) \in Seq(D)}
<1>1. <<>> \in P
  <2>1. <<>> \in Seq(Chars) /\ <<>> \in Seq(D)
    BY SMT
  <2> QED
    BY <2>1, MappedNothing DEF Texts
<1>2. ASSUME NEW x \in P, NEW c \in C
      PROVE  Append(x, c) \in P
  <2>1. Append(x, c) \in Texts /\ Mapped(Append(x, c), f) = Mapped(x, f) \o f[c]
    BY MappedAppend
  <2> DEFINE a == Mapped(x, f)
             b == f[c]
  <2>2. a \in Seq(D) /\ b \in Seq(D)
    OBVIOUS
  <2> HIDE DEF a, b
  <2>3. a \o b \in Seq(D)
    BY <2>2, SMT
  <2> QED
    BY <2>1, <2>3 DEF a, b
<1> HIDE DEF P
<1>3. t \in P
  BY <1>1, <1>2, FromAppends
<1> QED
  BY <1>3 DEF P

(* A mapping that takes back what another one made of each character takes *)
(* back what it made of a text.                                            *)
LEMMA MappedBack ==
  ASSUME NEW f, \A c \in Chars : f[c] \in Texts, NEW g, \A c \in Chars : g[c] \in Texts,
         NEW C \in SUBSET Chars, NEW t \in Seq(C),
         \A c \in C : Mapped(f[c], g) = <<c>>
  PROVE  Mapped(Mapped(t, f), g) = t
<1> DEFINE P == {x \in Texts : Mapped(Mapped(x, f), g) = x}
<1>1. <<>> \in P
  <2>1. <<>> \in Seq(Chars)
    BY SMT
  <2> QED
    BY <2>1, MappedNothing DEF Texts
<1>2. ASSUME NEW x \in P, NEW c \in C
      PROVE  Append(x, c) \in P
  <2>1. /\ Append(x, c) \in Texts /\ Append(x, c) = x \o <<c>>
        /\ Mapped(Append(x, c), f) = Mapped(x, f) \o f[c]
    BY MappedAppend
  <2>2. Mapped(x, f) \in Texts /\ f[c] \in Texts
    BY MappedText
  <2>3. Mapped(Mapped(x, f) \o f[c], g) = Mapped(Mapped(x, f), g) \o Mapped(f[c], g)
    BY <2>2, MappedJoin
  <2> QED
    BY <2>1, <2>3
<1> HIDE DEF P
<1>3. t \in P
  BY <1>1, <1>2, FromAppends
<1> QED
  BY <1>3 DEF P

Writing(eol) == [c \in Chars |-> IF c = Newline THEN Separator(eol) ELSE <<c>>]

Written(t, eol) == Mapped(t, Writing(eol))

(* How line endings are read, where none is a pair and where all are.      *)
Reading == [c \in Chars |-> IF c = CarriageReturn THEN <<Newline>> ELSE <<c>>]

Stripping == [c \in Chars |-> IF c = CarriageReturn THEN <<>> ELSE <<c>>]

LEMMA SeparatorsAreTexts ==
  ASSUME NEW eol \in LineEndings
  PROVE  Separator(eol) \in Texts
<1>1. /\ Separator("lf") = <<Newline>> /\ Separator("cr") = <<CarriageReturn>>
      /\ Separator("crlf") = <<CarriageReturn, Newline>>
  BY DEF Separator
<1>2. /\ <<Newline>> \in Seq(Chars) /\ <<CarriageReturn>> \in Seq(Chars)
      /\ <<CarriageReturn, Newline>> \in Seq(Chars)
  BY LinesAreSet, CharactersAreSpecial, SMT
<1> QED
  BY <1>1, <1>2 DEF LineEndings, Texts

LEMMA MappingsAreTexts ==
  /\ \A eol \in LineEndings : \A c \in Chars : Writing(eol)[c] \in Texts
  /\ \A c \in Chars : Reading[c] \in Texts
  /\ \A c \in Chars : Stripping[c] \in Texts
<1>1. \A c \in Chars : <<c>> \in Texts
  BY OneCharacter
<1>2. <<>> \in Texts
  BY SMT DEF Texts
<1>3. <<Newline>> \in Texts
  BY <1>1, LinesAreSet
<1> QED
  BY <1>1, <1>2, <1>3, SeparatorsAreTexts, Zenon DEF Writing, Reading, Stripping

LEMMA SerializedIs ==
  ASSUME NEW t \in Texts, NEW profile
  PROVE  Serialized(t, profile) =
           [in |-> profile.enc,
            chars |-> (IF profile.bom THEN <<Mark>> ELSE <<>>) \o Written(t, profile.eol)]
<1>1. Len(t) \in Nat /\ DOMAIN t = 1 .. Len(t) /\ \A i \in 1 .. Len(t) : t[i] \in Chars
  BY SMT DEF Texts
<1>2. [i \in DOMAIN t |-> IF t[i] = Newline THEN Separator(profile.eol) ELSE <<t[i]>>]
        = [i \in DOMAIN t |-> Writing(profile.eol)[t[i]]]
  BY <1>1, Zenon DEF Writing
<1> QED
  BY <1>2, Zenon DEF Serialized, Written, Mapped

LEMMA ReadSingly ==
  ASSUME NEW t \in Texts, EndingsOf(t, "crlf") = {}
  PROVE  Normalized(t) = Mapped(t, Reading)
<1>1. Len(t) \in Nat /\ DOMAIN t = 1 .. Len(t) /\ \A i \in 1 .. Len(t) : t[i] \in Chars
  BY SMT DEF Texts
<1>2. EndingsOf(t, "crlf") = {i \in DOMAIN t : t[i] = CarriageReturn /\ Follows(t, i, Newline)}
  BY DEF EndingsOf
<1>3. ASSUME NEW i \in DOMAIN t
      PROVE  (IF t[i] # CarriageReturn THEN <<t[i]>>
              ELSE IF Follows(t, i, Newline) THEN <<>> ELSE <<Newline>>) = Reading[t[i]]
  BY <1>1, <1>2, <1>3, Zenon DEF Reading
<1>4. [i \in DOMAIN t |-> IF t[i] # CarriageReturn THEN <<t[i]>>
                          ELSE IF Follows(t, i, Newline) THEN <<>> ELSE <<Newline>>]
        = [i \in DOMAIN t |-> Reading[t[i]]]
  BY <1>3, Zenon
<1> QED
  BY <1>4, Zenon DEF Normalized, Mapped

LEMMA ReadInPairs ==
  ASSUME NEW t \in Texts, EndingsOf(t, "cr") = {}
  PROVE  Normalized(t) = Mapped(t, Stripping)
<1>1. Len(t) \in Nat /\ DOMAIN t = 1 .. Len(t) /\ \A i \in 1 .. Len(t) : t[i] \in Chars
  BY SMT DEF Texts
<1>2. EndingsOf(t, "cr") = {i \in DOMAIN t : t[i] = CarriageReturn /\ ~Follows(t, i, Newline)}
  BY DEF EndingsOf
<1>3. ASSUME NEW i \in DOMAIN t
      PROVE  (IF t[i] # CarriageReturn THEN <<t[i]>>
              ELSE IF Follows(t, i, Newline) THEN <<>> ELSE <<Newline>>) = Stripping[t[i]]
  BY <1>1, <1>2, <1>3, Zenon DEF Stripping
<1>4. [i \in DOMAIN t |-> IF t[i] # CarriageReturn THEN <<t[i]>>
                          ELSE IF Follows(t, i, Newline) THEN <<>> ELSE <<Newline>>]
        = [i \in DOMAIN t |-> Stripping[t[i]]]
  BY <1>3, Zenon
<1> QED
  BY <1>4, Zenon DEF Normalized, Mapped

(* Without either character there is no line ending, and the other way     *)
(* round.                                                                  *)
Ends == {CarriageReturn, Newline}

LEMMA EndingsAre ==
  \A t :
    /\ EndingsOf(t, "crlf") = {i \in DOMAIN t : t[i] = CarriageReturn /\ Follows(t, i, Newline)}
    /\ EndingsOf(t, "cr") = {i \in DOMAIN t : t[i] = CarriageReturn /\ ~Follows(t, i, Newline)}
    /\ EndingsOf(t, "lf") = {i \in DOMAIN t : t[i] = Newline /\ ~(i > 1 /\ t[i - 1] = CarriageReturn)}
  BY DEF EndingsOf

LEMMA KindsAre ==
  \A t :
    /\ KindsIn(t) \subseteq LineEndings
    /\ \A kind \in LineEndings : kind \in KindsIn(t) <=> EndingsOf(t, kind) # {}
    /\ "lf" \in LineEndings /\ "crlf" \in LineEndings /\ "cr" \in LineEndings
  BY DEF KindsIn, LineEndings

LEMMA SequenceWithin ==
  ASSUME NEW t \in Texts, NEW D \in SUBSET Chars
  PROVE  t \in Seq(D) <=> \A i \in DOMAIN t : t[i] \in D
<1>1. t \in Seq(Chars) /\ DOMAIN t = 1 .. Len(t) /\ Len(t) \in Nat
  BY SMT DEF Texts
<1>2. ASSUME \A i \in DOMAIN t : t[i] \in D
      PROVE  t \in Seq(D)
  <2>1. t = [i \in 1 .. Len(t) |-> t[i]]
    BY <1>1, SMT
  <2> DEFINE n == Len(t)
  <2>2. n \in Nat /\ \A i \in 1 .. n : t[i] \in D
    BY <1>1, <1>2
  <2> HIDE DEF n
  <2>3. [i \in 1 .. n |-> t[i]] \in Seq(D)
    BY <2>2, SMT
  <2> QED
    BY <2>1, <2>3 DEF n
<1>3. ASSUME t \in Seq(D), NEW i \in DOMAIN t
      PROVE  t[i] \in D
  BY <1>3, SMT
<1> QED
  BY <1>2, <1>3

LEMMA NoEndings ==
  ASSUME NEW t \in Texts
  PROVE  KindsIn(t) = {} <=> t \in Seq(Chars \ Ends)
<1>1. Len(t) \in Nat /\ DOMAIN t = 1 .. Len(t) /\ \A i \in 1 .. Len(t) : t[i] \in Chars
  BY SMT DEF Texts
<1>2. t \in Seq(Chars \ Ends) <=> \A i \in DOMAIN t : t[i] \notin Ends
  <2>1. Chars \ Ends \in SUBSET Chars
    OBVIOUS
  <2>2. t \in Seq(Chars \ Ends) <=> \A i \in DOMAIN t : t[i] \in Chars \ Ends
    BY <2>1, SequenceWithin
  <2> QED
    BY <1>1, <2>2
<1>3. ASSUME \A i \in DOMAIN t : t[i] \notin Ends
      PROVE  KindsIn(t) = {}
  <2>1. \A i \in DOMAIN t : t[i] # CarriageReturn /\ t[i] # Newline
    BY <1>3 DEF Ends
  <2>2. EndingsOf(t, "crlf") = {} /\ EndingsOf(t, "cr") = {} /\ EndingsOf(t, "lf") = {}
    <3>1. EndingsOf(t, "crlf") = {}
      BY <2>1, EndingsAre
    <3>2. EndingsOf(t, "cr") = {}
      BY <2>1, EndingsAre
    <3>3. EndingsOf(t, "lf") = {}
      BY <2>1, EndingsAre
    <3> QED
      BY <3>1, <3>2, <3>3
  <2> QED
    BY <2>2, KindsAre DEF LineEndings
<1>4. ASSUME KindsIn(t) = {}, NEW i \in DOMAIN t
      PROVE  t[i] \notin Ends
  <2>1. EndingsOf(t, "crlf") = {} /\ EndingsOf(t, "cr") = {} /\ EndingsOf(t, "lf") = {}
    <3>1. \A kind \in LineEndings : kind \notin KindsIn(t)
      BY <1>4
    <3>2. \A kind \in LineEndings : EndingsOf(t, kind) = {}
      BY <3>1, KindsAre, Zenon
    <3> QED
      BY <3>2, KindsAre, Zenon
  <2>2. \A j \in DOMAIN t : t[j] # CarriageReturn
    BY <2>1, EndingsAre, Zenon
  <2>3. t[i] # Newline
    <3> SUFFICES ASSUME t[i] = Newline
                 PROVE  FALSE
      OBVIOUS
    <3>1. i > 1 /\ t[i - 1] = CarriageReturn
      BY <2>1, EndingsAre, Zenon
    <3>2. i - 1 \in DOMAIN t
      BY <1>1, <3>1, SMT
    <3> QED
      BY <2>2, <3>1, <3>2
  <2> QED
    BY <2>2, <2>3 DEF Ends
<1> QED
  BY <1>2, <1>3, <1>4

(* Line endings that are all pairs.                                        *)
Paired(t) ==
  \A i \in 1 .. Len(t) :
    /\ t[i] = CarriageReturn => i < Len(t) /\ t[i + 1] = Newline
    /\ t[i] = Newline => i > 1 /\ t[i - 1] = CarriageReturn

LEMMA PairedEndings ==
  ASSUME NEW t \in Texts
  PROVE  Paired(t) <=> EndingsOf(t, "cr") = {} /\ EndingsOf(t, "lf") = {}
<1>1. DOMAIN t = 1 .. Len(t)
  BY SMT DEF Texts
<1>2. ASSUME Paired(t)
      PROVE  EndingsOf(t, "cr") = {} /\ EndingsOf(t, "lf") = {}
  <2>1. \A i \in DOMAIN t : ~(t[i] = CarriageReturn /\ ~Follows(t, i, Newline))
    BY <1>1, <1>2 DEF Paired, Follows
  <2>2. \A i \in DOMAIN t : ~(t[i] = Newline /\ ~(i > 1 /\ t[i - 1] = CarriageReturn))
    BY <1>1, <1>2 DEF Paired
  <2> QED
    BY <2>1, <2>2, EndingsAre, Zenon
<1>3. ASSUME EndingsOf(t, "cr") = {}, EndingsOf(t, "lf") = {}, NEW i \in 1 .. Len(t)
      PROVE  /\ t[i] = CarriageReturn => i < Len(t) /\ t[i + 1] = Newline
             /\ t[i] = Newline => i > 1 /\ t[i - 1] = CarriageReturn
  <2>1. ~(t[i] = CarriageReturn /\ ~Follows(t, i, Newline))
    BY <1>1, <1>3, EndingsAre, Zenon
  <2>2. ~(t[i] = Newline /\ ~(i > 1 /\ t[i - 1] = CarriageReturn))
    BY <1>1, <1>3, EndingsAre, Zenon
  <2> QED
    BY <2>1, <2>2, Zenon DEF Follows
<1> QED
  BY <1>2, <1>3 DEF Paired

LEMMA PairedJoin ==
  ASSUME NEW a \in Texts, Paired(a), NEW b \in Texts, Paired(b)
  PROVE  Paired(a \o b)
<1> DEFINE m == Len(a)
           n == Len(b)
           c == a \o b
<1>1. /\ m \in Nat /\ n \in Nat /\ Len(c) = m + n
      /\ \A i \in 1 .. m : c[i] = a[i]
      /\ \A i \in 1 .. n : c[m + i] = b[i]
  BY JoinedElements
<1>2. /\ \A i \in 1 .. m : /\ a[i] = CarriageReturn => i < m /\ a[i + 1] = Newline
                           /\ a[i] = Newline => i > 1 /\ a[i - 1] = CarriageReturn
      /\ \A i \in 1 .. n : /\ b[i] = CarriageReturn => i < n /\ b[i + 1] = Newline
                           /\ b[i] = Newline => i > 1 /\ b[i - 1] = CarriageReturn
  BY DEF Paired
<1> HIDE DEF m, n, c
<1> SUFFICES ASSUME NEW i \in 1 .. m + n
             PROVE  /\ c[i] = CarriageReturn => i < m + n /\ c[i + 1] = Newline
                    /\ c[i] = Newline => i > 1 /\ c[i - 1] = CarriageReturn
  BY <1>1 DEF Paired, c
<1>3. CASE i =< m
  <2>1. i \in 1 .. m /\ (i < m => i + 1 \in 1 .. m) /\ (i > 1 => i - 1 \in 1 .. m) /\ i =< m + n
    BY <1>1, <1>3, SMT
  <2>2. i < m => i < m + n
    BY <1>1, SMT
  <2> QED
    BY <1>1, <1>2, <2>1, <2>2, Zenon
<1>4. CASE ~(i =< m)
  <2> DEFINE k == i - m
  <2>1. /\ k \in 1 .. n /\ m + k = i
        /\ k < n => i < m + n /\ k + 1 \in 1 .. n /\ m + (k + 1) = i + 1
        /\ k > 1 => i > 1 /\ k - 1 \in 1 .. n /\ m + (k - 1) = i - 1
    <3>1. m \in Nat /\ n \in Nat /\ i \in 1 .. m + n
      BY <1>1
    <3>2. k \in 1 .. n /\ m + k = i
      BY <1>4, <3>1, SMT
    <3>3. k < n => i < m + n /\ k + 1 \in 1 .. n /\ m + (k + 1) = i + 1
      BY <1>4, <3>1, SMT
    <3>4. k > 1 => i > 1 /\ k - 1 \in 1 .. n /\ m + (k - 1) = i - 1
      BY <1>4, <3>1, SMT
    <3> QED
      BY <3>2, <3>3, <3>4
  <2> HIDE DEF k
  <2>2. c[i] = b[k]
    BY <1>1, <2>1, Zenon
  <2>3. k < n => c[i + 1] = b[k + 1]
    BY <1>1, <2>1, Zenon
  <2>4. k > 1 => c[i - 1] = b[k - 1]
    BY <1>1, <2>1, Zenon
  <2> QED
    BY <1>2, <2>1, <2>2, <2>3, <2>4, Zenon
<1> QED
  BY <1>3, <1>4

LEMMA SinglesPaired ==
  /\ Paired(<<>>)
  /\ Paired(<<CarriageReturn, Newline>>)
  /\ \A c \in Chars : c \notin Ends => Paired(<<c>>)
<1>1. Len(<<>>) = 0 /\ 1 .. 0 = {}
  BY SMT
<1>2. Paired(<<CarriageReturn, Newline>>)
  <2>1. Len(<<CarriageReturn, Newline>>) = 2
    BY SMT
  <2> QED
    BY <2>1, CharactersAreSpecial, SMT DEF Paired
<1>3. ASSUME NEW c \in Chars, c \notin Ends
      PROVE  Paired(<<c>>)
  <2>1. Len(<<c>>) = 1 /\ \A i \in 1 .. 1 : <<c>>[i] = c
    BY SMT
  <2>2. c # CarriageReturn /\ c # Newline
    BY <1>3 DEF Ends
  <2> QED
    BY <2>1, <2>2 DEF Paired
<1> QED
  BY <1>1, <1>2, <1>3 DEF Paired

Plain == Chars \ {CarriageReturn}

LEMMA WritesPairs ==
  ASSUME NEW t \in Seq(Plain)
  PROVE  Paired(Written(t, "crlf"))
<1> DEFINE f == Writing("crlf")
           P == {x \in Texts : Paired(Mapped(x, f))}
<1>1. \A c \in Chars : f[c] \in Texts
  BY MappingsAreTexts DEF LineEndings
<1>2. \A c \in Plain : Paired(f[c])
  <2> TAKE c \in Plain
  <2>1. c = Newline \/ c \notin Ends
    BY DEF Ends, Plain
  <2>2. f[c] = IF c = Newline THEN <<CarriageReturn, Newline>> ELSE <<c>>
    BY DEF Writing, Separator, Plain
  <2> QED
    BY <2>1, <2>2, SinglesPaired DEF Plain
<1> HIDE DEF f
<1>3. <<>> \in P
  <2>1. <<>> \in Texts
    BY SMT DEF Texts
  <2> QED
    BY <2>1, MappedNothing, SinglesPaired
<1>4. ASSUME NEW x \in P, NEW c \in Plain
      PROVE  Append(x, c) \in P
  <2>1. c \in Chars
    BY DEF Plain
  <2>2. Append(x, c) \in Texts /\ Mapped(Append(x, c), f) = Mapped(x, f) \o f[c]
    BY <1>1, <2>1, MappedAppend
  <2>3. Mapped(x, f) \in Texts /\ f[c] \in Texts
    BY <1>1, <2>1, MappedText
  <2>4. Paired(Mapped(x, f) \o f[c])
    BY <1>2, <2>3, PairedJoin
  <2> QED
    BY <2>2, <2>4
<1> HIDE DEF P
<1>5. t \in P
  BY <1>3, <1>4, FromAppends
<1> QED
  BY <1>5 DEF P, f, Written

LEMMA NothingBreaks ==
  ASSUME NEW t \in Seq(Plain)
  PROVE  t \in Texts /\ (Breaks(t) = {} <=> t \in Seq(Chars \ Ends))
<1>1. t \in Texts /\ DOMAIN t = 1 .. Len(t) /\ \A i \in 1 .. Len(t) : t[i] \in Plain
  <2>1. Plain \subseteq Chars
    BY DEF Plain
  <2> HIDE DEF Plain
  <2> QED
    BY <2>1, SMT DEF Texts
<1>2. t \in Seq(Chars \ Ends) <=> \A i \in DOMAIN t : t[i] \in Chars \ Ends
  BY <1>1, SequenceWithin
<1>3. Breaks(t) = {} <=> \A i \in 1 .. Len(t) : t[i] # Newline
  BY <1>1, BreaksOfElements
<1> QED
  BY <1>1, <1>2, <1>3, Zenon DEF Plain, Ends

Unfed == Chars \ {Newline}

LEMMA WithoutReturns ==
  ASSUME NEW t \in Texts
  PROVE  t \in Seq(Plain) <=> EndingsOf(t, "crlf") = {} /\ EndingsOf(t, "cr") = {}
<1>1. DOMAIN t = 1 .. Len(t) /\ Len(t) \in Nat /\ \A i \in 1 .. Len(t) : t[i] \in Chars
  BY SMT DEF Texts
<1>2. t \in Seq(Plain) <=> \A i \in DOMAIN t : t[i] # CarriageReturn
  <2>1. t \in Seq(Plain) <=> \A i \in DOMAIN t : t[i] \in Plain
    <3>1. Plain \in SUBSET Chars
      BY DEF Plain
    <3> QED
      BY <3>1, SequenceWithin
  <2> QED
    BY <1>1, <2>1, Zenon DEF Plain
<1>3. ASSUME \A i \in DOMAIN t : t[i] # CarriageReturn
      PROVE  EndingsOf(t, "crlf") = {} /\ EndingsOf(t, "cr") = {}
  <2>1. EndingsOf(t, "crlf") = {}
    BY <1>3, EndingsAre
  <2>2. EndingsOf(t, "cr") = {}
    BY <1>3, EndingsAre
  <2> QED
    BY <2>1, <2>2
<1>4. ASSUME EndingsOf(t, "crlf") = {}, EndingsOf(t, "cr") = {}, NEW i \in DOMAIN t
      PROVE  t[i] # CarriageReturn
  BY <1>4, EndingsAre, Zenon
<1> QED
  BY <1>2, <1>3, <1>4

LEMMA WithoutFeeds ==
  ASSUME NEW t \in Texts
  PROVE  t \in Seq(Unfed) <=> EndingsOf(t, "crlf") = {} /\ EndingsOf(t, "lf") = {}
<1>1. DOMAIN t = 1 .. Len(t) /\ Len(t) \in Nat /\ \A i \in 1 .. Len(t) : t[i] \in Chars
  BY SMT DEF Texts
<1>2. t \in Seq(Unfed) <=> \A i \in DOMAIN t : t[i] # Newline
  <2>1. t \in Seq(Unfed) <=> \A i \in DOMAIN t : t[i] \in Unfed
    <3>1. Unfed \in SUBSET Chars
      BY DEF Unfed
    <3> QED
      BY <3>1, SequenceWithin
  <2> QED
    BY <1>1, <2>1, Zenon DEF Unfed
<1>3. ASSUME \A i \in DOMAIN t : t[i] # Newline
      PROVE  EndingsOf(t, "crlf") = {} /\ EndingsOf(t, "lf") = {}
  <2>1. ASSUME NEW i \in DOMAIN t
        PROVE  ~Follows(t, i, Newline)
    <3> SUFFICES ASSUME i < Len(t) /\ t[i + 1] = Newline
                 PROVE  FALSE
      BY DEF Follows
    <3>1. i + 1 \in DOMAIN t
      BY <1>1, SMT
    <3> QED
      BY <1>3, <3>1
  <2>2. EndingsOf(t, "crlf") = {}
    BY <2>1, EndingsAre
  <2>3. EndingsOf(t, "lf") = {}
    BY <1>3, EndingsAre
  <2> QED
    BY <2>2, <2>3
<1>4. ASSUME EndingsOf(t, "crlf") = {}, EndingsOf(t, "lf") = {}, NEW i \in DOMAIN t
      PROVE  t[i] # Newline
  <2> SUFFICES ASSUME t[i] = Newline
               PROVE  FALSE
    OBVIOUS
  <2>1. i > 1 /\ t[i - 1] = CarriageReturn
    BY <1>4, EndingsAre, Zenon
  <2> DEFINE k == i - 1
  <2>2. k \in DOMAIN t /\ k + 1 = i /\ k < Len(t)
    BY <1>1, <2>1, SMT
  <2>3. t[k] = CarriageReturn
    BY <2>1
  <2> HIDE DEF k
  <2>4. Follows(t, k, Newline)
    BY <2>2 DEF Follows
  <2> QED
    BY <1>4, <2>2, <2>3, <2>4, EndingsAre, Zenon
<1> QED
  BY <1>2, <1>3, <1>4

LEMMA OneKind ==
  ASSUME NEW t \in Texts
  PROVE  /\ KindsIn(t) \subseteq {"lf"} <=> EndingsOf(t, "crlf") = {} /\ EndingsOf(t, "cr") = {}
         /\ KindsIn(t) \subseteq {"cr"} <=> EndingsOf(t, "crlf") = {} /\ EndingsOf(t, "lf") = {}
         /\ KindsIn(t) \subseteq {"crlf"} <=> EndingsOf(t, "cr") = {} /\ EndingsOf(t, "lf") = {}
<1>1. /\ "lf" \in KindsIn(t) <=> EndingsOf(t, "lf") # {}
      /\ "cr" \in KindsIn(t) <=> EndingsOf(t, "cr") # {}
      /\ "crlf" \in KindsIn(t) <=> EndingsOf(t, "crlf") # {}
  BY KindsAre, Zenon
<1>2. KindsIn(t) \subseteq {"lf", "cr", "crlf"}
  BY KindsAre DEF LineEndings
<1> DEFINE K == KindsIn(t)
<1>3. /\ K \subseteq {"lf"} <=> "crlf" \notin K /\ "cr" \notin K
      /\ K \subseteq {"cr"} <=> "crlf" \notin K /\ "lf" \notin K
      /\ K \subseteq {"crlf"} <=> "cr" \notin K /\ "lf" \notin K
  <2>1. K \subseteq {"lf", "cr", "crlf"}
    BY <1>2
  <2> HIDE DEF K
  <2> QED
    BY <2>1, SMT
<1> QED
  BY <1>1, <1>3, Zenon

(* What was written with one kind of line ending has no other, and is read *)
(* as it was.                                                              *)
LEMMA WrittenReadsBack ==
  ASSUME NEW t \in Seq(Plain), NEW eol \in LineEndings
  PROVE  /\ Written(t, eol) \in Texts
         /\ Normalized(Written(t, eol)) = t
         /\ KindsIn(Written(t, eol)) \subseteq {eol}
         /\ KindsIn(Written(t, eol)) = {} <=> Breaks(t) = {}
<1> DEFINE f == Writing(eol)
           b == Written(t, eol)
<1>1. /\ \A c \in Chars : f[c] \in Texts
      /\ \A c \in Chars : f[c] = IF c = Newline THEN Separator(eol) ELSE <<c>>
  BY MappingsAreTexts DEF Writing
<1>2. /\ \A c \in Chars : Reading[c] = IF c = CarriageReturn THEN <<Newline>> ELSE <<c>>
      /\ \A c \in Chars : Stripping[c] = IF c = CarriageReturn THEN <<>> ELSE <<c>>
      /\ \A c \in Chars : Reading[c] \in Texts /\ Stripping[c] \in Texts
  BY MappingsAreTexts DEF Reading, Stripping
<1>3. /\ Plain \in SUBSET Chars /\ Unfed \in SUBSET Chars /\ t \in Texts
      /\ \A D : \A c \in D : <<c>> \in Seq(D)
  <2>1. Plain \in SUBSET Chars /\ Unfed \in SUBSET Chars
    BY DEF Plain, Unfed
  <2>2. \A D : \A c \in D : <<c>> \in Seq(D)
    BY SMT
  <2> QED
    BY <2>1, <2>2, NothingBreaks
<1>4. b = Mapped(t, f) /\ b \in Texts
  BY <1>1, <1>3, MappedText DEF Written
<1>5. CarriageReturn \in Unfed /\ Newline \in Plain /\ Newline \in Chars
  BY LinesAreSet, CharactersAreSpecial DEF Unfed, Plain
<1>6. Normalized(b) = t /\ KindsIn(b) \subseteq {eol}
  <2>1. CASE eol = "lf"
    <3>1. \A c \in Plain : f[c] = <<c>>
      BY <1>1, <1>3, <2>1 DEF Separator
    <3> HIDE DEF f
    <3>2. b \in Seq(Plain)
      BY <1>1, <1>3, <1>4, <3>1, MappedInto
    <3>3. EndingsOf(b, "crlf") = {} /\ EndingsOf(b, "cr") = {}
      BY <1>4, <3>2, WithoutReturns
    <3>4. \A c \in Plain : Mapped(f[c], Reading) = <<c>>
      BY <1>2, <1>3, <3>1, MappedCharacter DEF Plain
    <3>5. Mapped(Mapped(t, f), Reading) = t
      BY <1>1, <1>2, <1>3, <3>4, MappedBack
    <3> HIDE DEF b
    <3> QED
      BY <1>4, <2>1, <3>3, <3>5, ReadSingly, OneKind
  <2>2. CASE eol = "cr"
    <3>1. \A c \in Plain : f[c] = IF c = Newline THEN <<CarriageReturn>> ELSE <<c>>
      BY <1>1, <1>3, <2>2 DEF Separator
    <3> HIDE DEF f
    <3>2. b \in Seq(Unfed)
      <4>1. \A c \in Plain : f[c] \in Seq(Unfed)
        BY <1>3, <1>5, <3>1 DEF Plain, Unfed
      <4> QED
        BY <1>1, <1>3, <1>4, <4>1, MappedInto
    <3>3. EndingsOf(b, "crlf") = {} /\ EndingsOf(b, "lf") = {}
      BY <1>4, <3>2, WithoutFeeds
    <3>4. \A c \in Plain : Mapped(f[c], Reading) = <<c>>
      <4> TAKE c \in Plain
      <4>1. CASE c = Newline
        <5>1. Mapped(<<CarriageReturn>>, Reading) = Reading[CarriageReturn]
          BY <1>2, CharactersAreSpecial, MappedCharacter
        <5> QED
          BY <1>2, <3>1, <4>1, <5>1, CharactersAreSpecial
      <4>2. CASE c # Newline
        BY <1>2, <1>3, <3>1, <4>2, MappedCharacter DEF Plain
      <4> QED
        BY <4>1, <4>2
    <3>5. Mapped(Mapped(t, f), Reading) = t
      BY <1>1, <1>2, <1>3, <3>4, MappedBack
    <3> HIDE DEF b
    <3> QED
      BY <1>4, <2>2, <3>3, <3>5, ReadSingly, OneKind
  <2>3. CASE eol = "crlf"
    <3>1. \A c \in Plain : f[c] = IF c = Newline THEN <<CarriageReturn, Newline>> ELSE <<c>>
      BY <1>1, <1>3, <2>3 DEF Separator
    <3> HIDE DEF f
    <3>2. EndingsOf(b, "cr") = {} /\ EndingsOf(b, "lf") = {}
      <4>1. Paired(b)
        BY <2>3, WritesPairs
      <4> HIDE DEF b
      <4> QED
        BY <1>4, <4>1, PairedEndings
    <3>3. \A c \in Plain : Mapped(f[c], Stripping) = <<c>>
      <4> TAKE c \in Plain
      <4>1. CASE c = Newline
        <5> DEFINE r == <<CarriageReturn>>
        <5>1. /\ r \in Texts /\ <<CarriageReturn, Newline>> = Append(r, Newline)
          BY CharactersAreSpecial, OneCharacter, SMT DEF Texts
        <5>2. Mapped(r, Stripping) = Stripping[CarriageReturn]
          BY <1>2, CharactersAreSpecial, MappedCharacter
        <5>3. Stripping[CarriageReturn] = <<>> /\ Stripping[Newline] = <<Newline>>
          BY <1>2, <1>5, CharactersAreSpecial
        <5> HIDE DEF r
        <5>4. Mapped(Append(r, Newline), Stripping) = Mapped(r, Stripping) \o Stripping[Newline]
          BY <1>2, <1>5, <5>1, MappedAppend
        <5>5. <<>> \o <<Newline>> = <<Newline>>
          BY SMT
        <5> QED
          BY <3>1, <4>1, <5>1, <5>2, <5>3, <5>4, <5>5
      <4>2. CASE c # Newline
        BY <1>2, <1>3, <3>1, <4>2, MappedCharacter DEF Plain
      <4> QED
        BY <4>1, <4>2
    <3>4. Mapped(Mapped(t, f), Stripping) = t
      BY <1>1, <1>2, <1>3, <3>3, MappedBack
    <3> HIDE DEF b
    <3> QED
      BY <1>4, <2>3, <3>2, <3>4, ReadInPairs, OneKind
  <2> QED
    BY <2>1, <2>2, <2>3 DEF LineEndings
<1>7. KindsIn(b) = {} <=> Breaks(t) = {}
  <2> DEFINE D == Chars \ Ends
  <2>1. \A c \in D : f[c] = <<c>> /\ Reading[c] = <<c>>
    BY <1>1, <1>2 DEF Ends
  <2>2. D \in SUBSET Chars /\ \A c \in D : <<c>> \in Seq(D)
    BY <1>3
  <2>3. (KindsIn(b) = {} <=> b \in Seq(D)) /\ (Breaks(t) = {} <=> t \in Seq(D))
    BY <1>4, NoEndings, NothingBreaks
  <2> HIDE DEF f, b, D
  <2>4. t \in Seq(D) => b \in Seq(D)
    BY <1>1, <1>4, <2>1, <2>2, MappedInto
  <2>5. ASSUME KindsIn(b) = {}
        PROVE  t \in Seq(D)
    <3>1. EndingsOf(b, "crlf") = {}
      BY <1>4, <2>5, OneKind
    <3>2. t = Mapped(b, Reading)
      BY <1>4, <1>6, <3>1, ReadSingly
    <3> QED
      BY <1>2, <2>1, <2>2, <2>3, <2>5, <3>2, MappedInto
  <2> QED
    BY <2>3, <2>4, <2>5
<1> QED
  BY <1>4, <1>6, <1>7

LEMMA AppendedTwice ==
  ASSUME NEW S, NEW x \in Seq(S), NEW a, NEW b
  PROVE  Append(Append(x, a), b) = x \o <<a, b>>
  BY SMT

(* Pairs read and written again, beginning by beginning: a carriage return *)
(* at the end of one waits for its line feed.                              *)
LEMMA PairsWrittenBack ==
  ASSUME NEW t \in Texts, Paired(t)
  PROVE  Written(Mapped(t, Stripping), "crlf") = t
<1> DEFINE f == Writing("crlf")
           n == Len(t)
           Whole(k) == IF k > 0 /\ t[k] = CarriageReturn THEN k - 1 ELSE k
           Back(k) == Mapped(Mapped(SubSeq(t, 1, k), Stripping), f)
           T == {k \in 0 .. n : Back(k) = SubSeq(t, 1, Whole(k))}
<1>1. n \in Nat /\ SubSeq(t, 1, 0) = <<>> /\ SubSeq(t, 1, n) = t /\ \A i \in 1 .. n : t[i] \in Chars
  BY SMT DEF Texts
<1>2. /\ \A c \in Chars : f[c] \in Texts /\ Stripping[c] \in Texts
      /\ \A c \in Chars : f[c] = IF c = Newline THEN <<CarriageReturn, Newline>> ELSE <<c>>
      /\ \A c \in Chars : Stripping[c] = IF c = CarriageReturn THEN <<>> ELSE <<c>>
  BY MappingsAreTexts DEF Writing, Stripping, Separator, LineEndings
<1>3. \A i \in 1 .. n :
        /\ t[i] = CarriageReturn => i < n /\ t[i + 1] = Newline
        /\ t[i] = Newline => i > 1 /\ t[i - 1] = CarriageReturn
  BY DEF Paired
<1>4. <<>> \in Texts
  BY SMT DEF Texts
<1> HIDE DEF f, n
<1>5. 0 \in T
  <2>1. Back(0) = <<>>
    BY <1>1, MappedNothing
  <2>2. Whole(0) = 0 /\ 0 \in 0 .. n
    BY <1>1, SMT
  <2> QED
    BY <1>1, <2>1, <2>2
<1>6. ASSUME NEW k \in 0 .. n - 1, k \in T
      PROVE  k + 1 \in T
  <2> DEFINE c == t[k + 1]
             s == SubSeq(t, 1, k)
             m == Mapped(s, Stripping)
  <2>1. k \in Nat /\ k + 1 \in 0 .. n /\ k + 1 \in 1 .. n /\ k < n
    BY <1>1, SMT
  <2>2. s \in Texts /\ SubSeq(t, 1, k + 1) = Append(s, c)
    BY <1>1, <2>1, SMT DEF Texts, n
  <2>3. c \in Chars
    BY <1>1, <2>1
  <2>4. Mapped(s, f) \in Texts /\ m \in Texts
    BY <1>2, <2>2, MappedText
  <2>5. Mapped(SubSeq(t, 1, k + 1), Stripping) = m \o Stripping[c]
    <3> HIDE DEF c, s
    <3>1. Mapped(Append(s, c), Stripping) = Mapped(s, Stripping) \o Stripping[c]
      BY <1>2, <2>2, <2>3, MappedAppend
    <3> QED
      BY <2>2, <3>1
  <2>6. Back(k + 1) = Mapped(m, f) \o Mapped(Stripping[c], f)
    <3>1. Stripping[c] \in Texts
      BY <1>2, <2>3
    <3> HIDE DEF c, s, m
    <3>2. Mapped(m \o Stripping[c], f) = Mapped(m, f) \o Mapped(Stripping[c], f)
      BY <1>2, <2>4, <3>1, MappedJoin
    <3> QED
      BY <2>5, <3>2
  <2>7. Mapped(m, f) = SubSeq(t, 1, Whole(k))
    BY <1>6
  <2> HIDE DEF m
  <2>8. CASE c = CarriageReturn
    <3>1. Mapped(Stripping[c], f) = <<>>
      BY <1>2, <2>3, <2>8, MappedNothing
    <3>2. ~(k > 0 /\ t[k] = CarriageReturn)
      <4> SUFFICES ASSUME k > 0, t[k] = CarriageReturn
                   PROVE  FALSE
        OBVIOUS
      <4>1. k \in 1 .. n
        BY <1>1, <2>1, SMT
      <4>2. c = Newline
        BY <1>3, <4>1
      <4> QED
        BY <2>8, <4>2, CharactersAreSpecial
    <3>3. Mapped(m, f) = SubSeq(t, 1, k)
      BY <2>7, <3>2
    <3>4. SubSeq(t, 1, k) \o <<>> = SubSeq(t, 1, k)
      BY <2>2, SMT DEF Texts
    <3>5. Whole(k + 1) = k
      <4>1. k + 1 > 0 /\ (k + 1) - 1 = k
        BY <2>1, SMT
      <4> QED
        BY <2>8, <4>1
    <3> QED
      BY <2>1, <2>6, <3>1, <3>3, <3>4, <3>5
  <2>9. CASE c = Newline
    <3>1. Mapped(Stripping[c], f) = <<CarriageReturn, Newline>>
      <4>1. Stripping[c] = <<c>>
        BY <1>2, <2>3, <2>9, CharactersAreSpecial
      <4>2. Mapped(<<c>>, f) = f[c]
        BY <1>2, <2>3, MappedCharacter
      <4> QED
        BY <1>2, <2>3, <2>9, <4>1, <4>2
    <3>2. k > 0 /\ t[k] = CarriageReturn
      <4>1. k + 1 > 1 /\ t[(k + 1) - 1] = CarriageReturn
        BY <1>3, <2>1, <2>9
      <4>2. (k + 1) - 1 = k /\ (k + 1 > 1 => k > 0)
        BY <2>1, SMT
      <4> QED
        BY <4>1, <4>2
    <3>3. Mapped(m, f) = SubSeq(t, 1, k - 1)
      BY <2>7, <3>2
    <3>4. SubSeq(t, 1, k - 1) \o <<CarriageReturn, Newline>> = SubSeq(t, 1, k + 1)
      <4> DEFINE j == k - 1
                 x == SubSeq(t, 1, j)
      <4>1. j \in Nat /\ j + 1 = k /\ k \in Nat /\ k + 1 =< n /\ (j + 1) + 1 = k + 1
        BY <2>1, <3>2, SMT
      <4> HIDE DEF j
      <4>2. SubSeq(t, 1, j + 1) = Append(x, t[j + 1]) /\ x \in Texts
        BY <1>1, <4>1, SMT DEF Texts, n
      <4> HIDE DEF x
      <4>3. Append(Append(x, CarriageReturn), Newline) = x \o <<CarriageReturn, Newline>>
        BY <4>2, AppendedTwice DEF Texts
      <4>4. SubSeq(t, 1, k) = Append(x, CarriageReturn)
        BY <3>2, <4>1, <4>2
      <4>5. SubSeq(t, 1, k + 1) = Append(SubSeq(t, 1, k), Newline)
        BY <2>2, <2>9
      <4> QED
        BY <4>3, <4>4, <4>5 DEF x, j
    <3>5. Whole(k + 1) = k + 1
      BY <2>9, CharactersAreSpecial
    <3> QED
      BY <2>1, <2>6, <3>1, <3>3, <3>4, <3>5
  <2>10. CASE c # CarriageReturn /\ c # Newline
    <3>1. Mapped(Stripping[c], f) = <<c>>
      <4>1. Stripping[c] = <<c>>
        BY <1>2, <2>3, <2>10
      <4>2. Mapped(<<c>>, f) = f[c]
        BY <1>2, <2>3, MappedCharacter
      <4> QED
        BY <1>2, <2>3, <2>10, <4>1, <4>2
    <3>2. ~(k > 0 /\ t[k] = CarriageReturn)
      <4> SUFFICES ASSUME k > 0, t[k] = CarriageReturn
                   PROVE  FALSE
        OBVIOUS
      <4>1. k \in 1 .. n
        BY <1>1, <2>1, SMT
      <4>2. c = Newline
        BY <1>3, <4>1
      <4> QED
        BY <2>10, <4>2
    <3>3. Mapped(m, f) = SubSeq(t, 1, k)
      BY <2>7, <3>2
    <3>4. SubSeq(t, 1, k) \o <<c>> = SubSeq(t, 1, k + 1)
      <4> HIDE DEF c, s
      <4>1. Append(s, c) = s \o <<c>>
        BY <1>2, <2>2, <2>3, MappedAppend
      <4> QED
        BY <2>2, <4>1 DEF s
    <3>5. Whole(k + 1) = k + 1
      BY <2>10
    <3> QED
      BY <2>1, <2>6, <3>1, <3>3, <3>4, <3>5
  <2> QED
    BY <2>8, <2>9, <2>10
<1>7. n \in T
  <2>1. n \in 0 .. n
    BY <1>1, SMT
  <2> HIDE DEF T
  <2>2. 0 .. n \subseteq T
    BY <1>1, <1>5, <1>6, InductionUpTo
  <2> QED
    BY <2>1, <2>2
<1>8. Whole(n) = n
  <2> SUFFICES ASSUME n > 0, t[n] = CarriageReturn
               PROVE  FALSE
    OBVIOUS
  <2>1. n \in 1 .. n /\ ~(n < n)
    BY <1>1, SMT
  <2> QED
    BY <1>3, <2>1
<1> QED
  BY <1>1, <1>7, <1>8 DEF Written, f

LEMMA ReadWritesBack ==
  ASSUME NEW t \in Texts, NEW eol \in LineEndings, KindsIn(t) \subseteq {eol}
  PROVE  Normalized(t) \in Texts /\ Written(Normalized(t), eol) = t
<1> DEFINE f == Writing(eol)
<1>1. /\ \A c \in Chars : f[c] \in Texts
      /\ \A c \in Chars : f[c] = IF c = Newline THEN Separator(eol) ELSE <<c>>
  BY MappingsAreTexts DEF Writing
<1>2. /\ \A c \in Chars : Reading[c] = IF c = CarriageReturn THEN <<Newline>> ELSE <<c>>
      /\ \A c \in Chars : Reading[c] \in Texts /\ Stripping[c] \in Texts
  BY MappingsAreTexts DEF Reading
<1>3. Plain \in SUBSET Chars /\ Unfed \in SUBSET Chars
  BY DEF Plain, Unfed
<1>4. Newline \in Chars /\ CarriageReturn \in Chars /\ CarriageReturn # Newline
  BY LinesAreSet, CharactersAreSpecial
<1>5. \A x : Written(x, eol) = Mapped(x, f)
  BY DEF Written
<1>6. CASE eol = "lf"
  <2>1. EndingsOf(t, "crlf") = {} /\ EndingsOf(t, "cr") = {}
    BY <1>6, OneKind
  <2>2. t \in Seq(Plain) /\ Normalized(t) = Mapped(t, Reading)
    BY <2>1, WithoutReturns, ReadSingly
  <2>3. \A c \in Plain : f[c] = <<c>> /\ Reading[c] = <<c>>
    BY <1>1, <1>2, <1>6 DEF Plain, Separator
  <2> HIDE DEF f
  <2>4. \A c \in Plain : Mapped(Reading[c], f) = <<c>>
    BY <1>1, <1>3, <2>3, MappedCharacter
  <2>5. Mapped(Mapped(t, Reading), f) = t
    BY <1>1, <1>2, <1>3, <2>2, <2>4, MappedBack
  <2>6. Mapped(t, Reading) \in Texts
    BY <1>2, MappedText
  <2> QED
    BY <1>5, <2>2, <2>5, <2>6
<1>7. CASE eol = "cr"
  <2>1. EndingsOf(t, "crlf") = {} /\ EndingsOf(t, "lf") = {}
    BY <1>7, OneKind
  <2>2. t \in Seq(Unfed) /\ Normalized(t) = Mapped(t, Reading)
    BY <2>1, WithoutFeeds, ReadSingly
  <2>3. \A c \in Unfed : /\ Reading[c] = IF c = CarriageReturn THEN <<Newline>> ELSE <<c>>
                         /\ f[c] = <<c>> /\ f[Newline] = <<CarriageReturn>>
    BY <1>1, <1>2, <1>4, <1>7 DEF Unfed, Separator
  <2> HIDE DEF f
  <2>4. \A c \in Unfed : Mapped(Reading[c], f) = <<c>>
    <3> TAKE c \in Unfed
    <3>1. Mapped(<<c>>, f) = f[c] /\ Mapped(<<Newline>>, f) = f[Newline]
      BY <1>1, <1>3, <1>4, MappedCharacter
    <3> QED
      BY <2>3, <3>1
  <2>5. Mapped(Mapped(t, Reading), f) = t
    BY <1>1, <1>2, <1>3, <2>2, <2>4, MappedBack
  <2>6. Mapped(t, Reading) \in Texts
    BY <1>2, MappedText
  <2> QED
    BY <1>5, <2>2, <2>5, <2>6
<1>8. CASE eol = "crlf"
  <2>1. EndingsOf(t, "cr") = {} /\ EndingsOf(t, "lf") = {}
    BY <1>8, OneKind
  <2>2. Paired(t) /\ Normalized(t) = Mapped(t, Stripping)
    BY <2>1, PairedEndings, ReadInPairs
  <2>3. Mapped(t, Stripping) \in Texts
    BY <1>2, MappedText
  <2> QED
    BY <1>8, <2>2, <2>3, PairsWrittenBack
<1> QED
  BY <1>6, <1>7, <1>8 DEF LineEndings

LEMMA NoKindIsLf ==
  ASSUME NEW t, KindsIn(t) = {}
  PROVE  Dominant(t) = "lf" /\ ~(Cardinality(KindsIn(t)) > 1)
<1>1. Dominant(t) = "lf"
  BY DEF Dominant
<1>2. ~(Cardinality({}) > 1)
  BY FS_EmptySet, SMT
<1> QED
  BY <1>1, <1>2

LEMMA SingleKindDominates ==
  ASSUME NEW t \in Texts, NEW eol \in LineEndings, KindsIn(t) = {eol}
  PROVE  Dominant(t) = eol /\ ~(Cardinality(KindsIn(t)) > 1)
<1> DEFINE S == EndingsOf(t, eol)
           Count(kind) == Cardinality(EndingsOf(t, kind))
           most == {kind \in KindsIn(t) : \A other \in KindsIn(t) : Count(kind) >= Count(other)}
           Earliest(kind) == \A other \in most : Min(EndingsOf(t, kind)) =< Min(EndingsOf(t, other))
<1>1. S \in SUBSET (1 .. Len(t)) /\ Len(t) \in Nat
  <2>1. DOMAIN t = 1 .. Len(t) /\ Len(t) \in Nat
    BY SMT DEF Texts
  <2>2. EndingsOf(t, "lf") \subseteq DOMAIN t
    BY EndingsAre
  <2>3. EndingsOf(t, "cr") \subseteq DOMAIN t
    BY EndingsAre
  <2>4. EndingsOf(t, "crlf") \subseteq DOMAIN t
    BY EndingsAre
  <2> QED
    BY <2>1, <2>2, <2>3, <2>4 DEF LineEndings
<1>2. S # {}
  BY KindsAre
<1>3. S \in SUBSET Nat
  BY <1>1, SMT
<1>4. Min(S) \in Nat
  BY <1>2, <1>3, LeastOf
<1>5. Count(eol) \in Nat
  <2>1. IsFiniteSet(1 .. Len(t))
    BY <1>1, FS_Interval
  <2>2. IsFiniteSet(S)
    BY <1>1, <2>1, FS_Subset
  <2> QED
    BY <2>2, FS_CardinalityType
<1>6. most = {eol}
  <2>1. Count(eol) >= Count(eol)
    <3> DEFINE c == Count(eol)
    <3>1. c \in Nat
      BY <1>5
    <3> HIDE DEF c
    <3>2. c >= c
      BY <3>1, SMT
    <3> QED
      BY <3>2 DEF c
  <2> QED
    BY <2>1
<1>7. Earliest(eol)
  <2> DEFINE c == Min(EndingsOf(t, eol))
  <2>1. c \in Nat
    BY <1>4
  <2> HIDE DEF c
  <2>2. c =< c
    BY <2>1, SMT
  <2> HIDE DEF most
  <2> QED
    BY <1>6, <2>2 DEF c
<1>8. Dominant(t) = CHOOSE kind \in most : Earliest(kind)
  BY Zenon DEF Dominant
<1> HIDE DEF most, Earliest
<1>9. Dominant(t) = eol
  <2>1. eol \in most
    BY <1>6
  <2>2. \E kind \in most : Earliest(kind)
    BY <1>7, <2>1, Zenon
  <2>3. (CHOOSE kind \in most : Earliest(kind)) \in most
    BY <2>2, Zenon
  <2> QED
    BY <1>6, <1>8, <2>3
<1>10. ~(Cardinality({eol}) > 1)
  BY FS_Singleton, SMT
<1> QED
  BY <1>9, <1>10

LEMMA NotMixedIsOneKind ==
  ASSUME NEW t \in Texts, ~(Cardinality(KindsIn(t)) > 1)
  PROVE  Dominant(t) \in LineEndings /\ KindsIn(t) \subseteq {Dominant(t)}
<1> DEFINE K == KindsIn(t)
<1>1. K \subseteq LineEndings /\ "lf" \in LineEndings
  BY KindsAre
<1>2. IsFiniteSet(LineEndings)
  <2>1. /\ IsFiniteSet({}) /\ {} \cup {"lf"} = {"lf"} /\ {"lf"} \cup {"crlf"} = {"lf", "crlf"}
        /\ {"lf", "crlf"} \cup {"cr"} = LineEndings
    BY FS_EmptySet DEF LineEndings
  <2>2. IsFiniteSet({"lf"})
    BY <2>1, FS_AddElement
  <2>3. IsFiniteSet({"lf", "crlf"})
    BY <2>1, <2>2, FS_AddElement
  <2> QED
    BY <2>1, <2>3, FS_AddElement
<1>3. IsFiniteSet(K) /\ Cardinality(K) \in Nat
  BY <1>1, <1>2, FS_Subset, FS_CardinalityType
<1>4. ASSUME NEW a \in K, NEW b \in K
      PROVE  a = b
  <2> SUFFICES ASSUME a # b
               PROVE  FALSE
    OBVIOUS
  <2>1. IsFiniteSet({a}) /\ Cardinality({a}) = 1
    BY FS_Singleton
  <2>2. Cardinality({a} \cup {b}) = Cardinality({a}) + 1
    BY <2>1, FS_AddElement
  <2>3. {a} \cup {b} \subseteq K
    OBVIOUS
  <2>4. Cardinality({a} \cup {b}) =< Cardinality(K)
    BY <1>3, <2>3, FS_Subset
  <2>5. Cardinality(K) > 1
    BY <1>3, <2>1, <2>2, <2>4, SMT
  <2> QED
    BY <2>5
<1>5. CASE K = {}
  BY <1>1, <1>5, NoKindIsLf
<1>6. CASE K # {}
  <2>1. PICK a : a \in K
    BY <1>6
  <2>2. K = {a} /\ a \in LineEndings
    BY <1>1, <1>4, <2>1
  <2>3. Dominant(t) = a
    BY <2>2, SingleKindDominates
  <2> QED
    BY <2>2, <2>3
<1> QED
  BY <1>5, <1>6

LEMMA WrittenBeginning ==
  ASSUME NEW t \in Texts, t # <<>>, Head(t) # Mark, NEW eol \in LineEndings
  PROVE  Head(Written(t, eol)) # Mark
<1> DEFINE f == Writing(eol)
           h == Head(t)
           r == Tail(t)
<1>1. h \in Chars /\ r \in Texts /\ t = <<h>> \o r
  BY SMT DEF Texts
<1>2. <<h>> \in Texts
  BY <1>1, OneCharacter
<1>3. \A c \in Chars : f[c] \in Texts
  BY MappingsAreTexts
<1>4. f[h] = IF h = Newline THEN Separator(eol) ELSE <<h>>
  BY <1>1 DEF Writing
<1>5. h # Mark /\ Mark # Newline /\ Mark # CarriageReturn
  BY CharactersAreSpecial
<1>6. /\ Len(Separator(eol)) >= 1 /\ Separator(eol)[1] \in Ends
  <2>1. CASE eol = "lf"
    <3>1. Separator(eol) = <<Newline>>
      BY <2>1 DEF Separator
    <3>2. Len(<<Newline>>) = 1 /\ <<Newline>>[1] = Newline
      BY SMT
    <3> QED
      BY <3>1, <3>2, SMT DEF Ends
  <2>2. CASE eol = "cr"
    <3>1. Separator(eol) = <<CarriageReturn>>
      BY <2>2 DEF Separator
    <3>2. Len(<<CarriageReturn>>) = 1 /\ <<CarriageReturn>>[1] = CarriageReturn
      BY SMT
    <3> QED
      BY <3>1, <3>2, SMT DEF Ends
  <2>3. CASE eol = "crlf"
    <3>1. Separator(eol) = <<CarriageReturn, Newline>>
      BY <2>3 DEF Separator
    <3>2. /\ Len(<<CarriageReturn, Newline>>) = 2
          /\ <<CarriageReturn, Newline>>[1] = CarriageReturn
      BY SMT
    <3> QED
      BY <3>1, <3>2, SMT DEF Ends
  <2> QED
    BY <2>1, <2>2, <2>3 DEF LineEndings
<1> DEFINE p == f[h]
<1>7. Len(p) >= 1 /\ p[1] # Mark /\ p \in Texts
  <2>1. Len(<<h>>) >= 1 /\ <<h>>[1] = h
    BY SMT
  <2> HIDE DEF f, h, r
  <2> QED
    BY <1>1, <1>3, <1>4, <1>5, <1>6, <2>1 DEF Ends
<1>8. Written(t, eol) = p \o Mapped(r, f) /\ Mapped(r, f) \in Texts
  <2> HIDE DEF f, h, r
  <2>1. Mapped(<<h>> \o r, f) = Mapped(<<h>>, f) \o Mapped(r, f)
    BY <1>1, <1>2, <1>3, MappedJoin
  <2>2. Mapped(<<h>>, f) = f[h]
    BY <1>1, <1>3, MappedCharacter
  <2>3. Mapped(r, f) \in Texts
    BY <1>1, <1>3, MappedText
  <2> QED
    BY <1>1, <2>1, <2>2, <2>3 DEF Written, f
<1> DEFINE q == Mapped(r, f)
<1> HIDE DEF p, q
<1>9. Head(p \o q) = p[1]
  BY <1>7, <1>8, SMT DEF Texts, q
<1> QED
  BY <1>7, <1>8, <1>9 DEF q

LEMMA MarksComeBack ==
  ASSUME NEW b \in Texts
  PROVE  /\ <<Mark>> \o b # <<>> /\ Head(<<Mark>> \o b) = Mark /\ Tail(<<Mark>> \o b) = b
         /\ <<>> \o b = b
         /\ b # <<>> /\ Head(b) = Mark => b = <<Mark>> \o Tail(b) /\ Tail(b) \in Texts
  BY CharactersAreSpecial, SMT DEF Texts

LEMMA NativeIsPlain ==
  ASSUME NEW t \in Texts, NativeLines(t)
  PROVE  t \in Seq(Plain)
<1>1. \A i \in DOMAIN t : t[i] \in Plain
  <2>1. DOMAIN t = 1 .. Len(t) /\ \A i \in 1 .. Len(t) : t[i] \in Chars
    BY SMT DEF Texts
  <2> QED
    BY <2>1 DEF NativeLines, Plain
<1>2. Plain \in SUBSET Chars
  BY DEF Plain
<1> QED
  BY <1>1, <1>2, SequenceWithin

Unmixed(profile, eol) == [profile EXCEPT !.eol = eol, !.mixed = FALSE]
Ending(profile, eol, mixed) == [profile EXCEPT !.eol = eol, !.mixed = mixed]

LEMMA TwoFieldsReplaced ==
  ASSUME NEW A, NEW B, NEW C, NEW D, NEW p \in [enc : A, bom : B, eol : C, mixed : D],
         NEW e \in C, NEW n \in D
  PROVE  Ending(p, e, n) = [enc |-> p.enc, bom |-> p.bom, eol |-> e, mixed |-> n]
<1>1. Ending(p, e, n) \in [enc : {p.enc}, bom : {p.bom}, eol : {e}, mixed : {n}]
  BY DEF Ending
<1> QED
  BY <1>1

LEMMA ProfileChanged ==
  ASSUME NEW profile \in FileProfiles, NEW eol \in LineEndings
  PROVE  Unmixed(profile, eol)
           = [enc |-> profile.enc, bom |-> profile.bom, eol |-> eol, mixed |-> FALSE]
<1>1. profile \in [enc : Encodings, bom : BOOLEAN, eol : LineEndings, mixed : BOOLEAN]
  BY DEF FileProfiles
<1>2. \A n \in BOOLEAN : Ending(profile, eol, n)
                           = [enc |-> profile.enc, bom |-> profile.bom, eol |-> eol, mixed |-> n]
  BY <1>1, TwoFieldsReplaced
<1>3. FALSE \in BOOLEAN
  OBVIOUS
<1>4. Ending(profile, eol, FALSE)
        = [enc |-> profile.enc, bom |-> profile.bom, eol |-> eol, mixed |-> FALSE]
  BY <1>2, <1>3, Zenon
<1> QED
  BY <1>4, Zenon DEF Unmixed, Ending

LEMMA SavedComesBack ==
  ASSUME NEW t \in Texts, NativeLines(t), NEW profile \in FileProfiles,
         profile.bom \/ t = <<>> \/ Head(t) # Mark
  PROVE  LET file == Serialized(t, profile)
             eol == IF Breaks(t) = {} THEN "lf" ELSE profile.eol
         IN  /\ Readable(file)
             /\ LoadedText(file) = t
             /\ LoadedProfile(file) = [profile EXCEPT !.eol = eol, !.mixed = FALSE]
<1> DEFINE file == Serialized(t, profile)
           eol == IF Breaks(t) = {} THEN "lf" ELSE profile.eol
           b == Written(t, profile.eol)
<1>1. /\ profile.eol \in LineEndings /\ profile.bom \in BOOLEAN
      /\ profile = [enc |-> profile.enc, bom |-> profile.bom, eol |-> profile.eol,
                    mixed |-> profile.mixed]
      /\ profile.enc # Unmarked => profile.bom
  BY DEF FileProfiles
<1>2. t \in Seq(Plain)
  BY NativeIsPlain
<1>3. /\ b \in Texts /\ Normalized(b) = t /\ KindsIn(b) \subseteq {profile.eol}
      /\ KindsIn(b) = {} <=> Breaks(t) = {}
  BY <1>1, <1>2, WrittenReadsBack
<1>4. /\ file.in = profile.enc
      /\ file.chars = (IF profile.bom THEN <<Mark>> ELSE <<>>) \o b
  <2>1. file = [in |-> profile.enc,
                chars |-> (IF profile.bom THEN <<Mark>> ELSE <<>>) \o b]
    BY SerializedIs, Zenon
  <2> HIDE DEF file, b
  <2> QED
    BY <2>1, Zenon
<1>5. b # <<>> /\ ~profile.bom => Head(b) # Mark
  <2> SUFFICES ASSUME b # <<>>, ~profile.bom
               PROVE  Head(b) # Mark
    OBVIOUS
  <2>1. t # <<>>
    <3>1. t = <<>> => b = <<>>
      BY MappedNothing DEF Written
    <3> QED
      BY <3>1
  <2>2. Head(t) # Mark
    BY <2>1
  <2> HIDE DEF b
  <2> QED
    BY <1>1, <2>1, <2>2, WrittenBeginning DEF b
<1> HIDE DEF file, b
<1>6. IsMarked(file) = profile.bom /\ Decoded(file) = b
  <2>1. CASE profile.bom
    <3>1. file.chars = <<Mark>> \o b
      BY <1>4, <2>1
    <3>2. IsMarked(file)
      BY <1>3, <3>1, MarksComeBack DEF IsMarked
    <3>3. Decoded(file) = b
      BY <1>3, <3>1, <3>2, MarksComeBack, Zenon DEF Decoded
    <3> QED
      BY <2>1, <3>2, <3>3, <1>1
  <2>2. CASE ~profile.bom
    <3>1. file.chars = b
      BY <1>3, <1>4, <2>2, MarksComeBack
    <3>2. ~IsMarked(file)
      BY <1>5, <2>2, <3>1 DEF IsMarked
    <3>3. Decoded(file) = b
      BY <3>1, <3>2, Zenon DEF Decoded
    <3>4. IsMarked(file) \in BOOLEAN
      BY DEF IsMarked
    <3> QED
      BY <1>1, <2>2, <3>2, <3>3, <3>4
  <2> QED
    BY <2>1, <2>2
<1>7. Readable(file)
  BY <1>1, <1>4, <1>6 DEF Readable
<1>8. Dominant(b) = eol /\ ~(Cardinality(KindsIn(b)) > 1)
  <2>1. CASE KindsIn(b) = {}
    BY <1>3, <2>1, NoKindIsLf
  <2>2. CASE KindsIn(b) # {}
    <3>1. KindsIn(b) = {profile.eol}
      BY <1>3, <2>2
    <3> QED
      BY <1>1, <1>3, <2>2, <3>1, SingleKindDominates
  <2> QED
    BY <2>1, <2>2
<1>12. eol \in LineEndings
  BY <1>1, Zenon DEF LineEndings
<1> HIDE DEF eol
<1>9. LoadedProfile(file) = [enc |-> profile.enc, bom |-> profile.bom, eol |-> eol, mixed |-> FALSE]
  <2>1. (Cardinality(KindsIn(b)) > 1) = FALSE
    BY <1>8
  <2> QED
    BY <1>4, <1>6, <1>8, <2>1, Zenon DEF LoadedProfile
<1>10. [profile EXCEPT !.eol = eol, !.mixed = FALSE]
         = [enc |-> profile.enc, bom |-> profile.bom, eol |-> eol, mixed |-> FALSE]
  BY <1>12, ProfileChanged DEF Unmixed
<1>11. LoadedText(file) = t
  BY <1>3, <1>6, Zenon DEF LoadedText
<1> QED
  BY <1>7, <1>9, <1>10, <1>11 DEF file, eol

LEMMA OpenedStays ==
  ASSUME NEW t \in Texts, NEW encoding,
         MaySerialize(LoadedProfile([in |-> encoding, chars |-> t]), FALSE)
  PROVE  LET file == [in |-> encoding, chars |-> t]
         IN  Serialized(LoadedText(file), LoadedProfile(file)) = file
<1> DEFINE file == [in |-> encoding, chars |-> t]
           profile == LoadedProfile(file)
           d == Decoded(file)
<1>1. file.in = encoding /\ file.chars = t
  OBVIOUS
<1>2. /\ profile.enc = encoding /\ profile.bom = IsMarked(file) /\ profile.eol = Dominant(d)
      /\ profile.mixed = (Cardinality(KindsIn(d)) > 1)
  BY DEF LoadedProfile
<1>3. LoadedText(file) = Normalized(d)
  BY DEF LoadedText
<1>4. ~profile.mixed
  BY DEF MaySerialize
<1> HIDE DEF file
<1>5. d \in Texts /\ t = (IF IsMarked(file) THEN <<Mark>> ELSE <<>>) \o d
  <2>1. CASE IsMarked(file)
    <3>1. t # <<>> /\ Head(t) = Mark
      BY <1>1, <2>1 DEF IsMarked
    <3>2. d = Tail(t)
      BY <1>1, <2>1 DEF Decoded
    <3> QED
      BY <2>1, <3>1, <3>2, MarksComeBack
  <2>2. CASE ~IsMarked(file)
    <3>1. d = t
      BY <1>1, <2>2 DEF Decoded
    <3> QED
      BY <2>2, <3>1, MarksComeBack
  <2> QED
    BY <2>1, <2>2
<1> HIDE DEF profile, d
<1>6. Dominant(d) \in LineEndings /\ KindsIn(d) \subseteq {Dominant(d)}
  BY <1>2, <1>4, <1>5, NotMixedIsOneKind
<1>7. Normalized(d) \in Texts /\ Written(Normalized(d), Dominant(d)) = d
  BY <1>5, <1>6, ReadWritesBack
<1>8. Serialized(Normalized(d), profile) =
        [in |-> profile.enc,
         chars |-> (IF profile.bom THEN <<Mark>> ELSE <<>>) \o Written(Normalized(d), profile.eol)]
  BY <1>7, SerializedIs
<1>9. Serialized(LoadedText(file), profile) = [in |-> encoding, chars |-> t]
  BY <1>2, <1>3, <1>5, <1>7, <1>8, Zenon
<1> QED
  BY <1>9 DEF file, profile

(* A text saved and opened again is the same text under the same profile,  *)
(* and a file opened and saved keeps its bytes unless its line endings are *)
(* mixed (DocumentLoader, serialize_document): for every text, mark,       *)
(* encoding and line ending.                                               *)
THEOREM RoundTripsHold == Spec => []RoundTripsAreExact
<1>1. TypeOK => SavedTextComesBack
  <2> SUFFICES ASSUME text \in Texts, NEW profile \in FileProfiles, NativeLines(text),
                      profile.bom \/ text = <<>> \/ Head(text) # Mark
               PROVE  LET file == Serialized(text, profile)
                          eol == IF Breaks(text) = {} THEN "lf" ELSE profile.eol
                      IN  /\ Readable(file)
                          /\ LoadedText(file) = text
                          /\ LoadedProfile(file) = [profile EXCEPT !.eol = eol, !.mixed = FALSE]
    BY Zenon DEF TypeOK, SavedTextComesBack
  <2> QED
    BY SavedComesBack
<1>2. TypeOK => OpenedBytesStay
  <2> SUFFICES ASSUME text \in Texts, NEW encoding \in Encodings,
                      MaySerialize(LoadedProfile([in |-> encoding, chars |-> text]), FALSE)
               PROVE  Serialized(LoadedText([in |-> encoding, chars |-> text]),
                                 LoadedProfile([in |-> encoding, chars |-> text]))
                        = [in |-> encoding, chars |-> text]
    BY Zenon DEF TypeOK, OpenedBytesStay
  <2> QED
    BY OpenedStays
<1>3. TypeOK => RoundTripsAreExact
  BY <1>1, <1>2 DEF RoundTripsAreExact
<1> QED
  BY <1>3, TypeCorrect, PTL

-----------------------------------------------------------------------------
(* A plan that changes the text is the one that was computed.              *)

LEMMA ReplacePlanChanges ==
  ASSUME NEW t, NEW v, NEW start, NEW stop, NEW x, NEW target,
         ReplacePlan(t, v, start, stop, x, target).final # t
  PROVE  LET plan == ReplacePlan(t, v, start, stop, x, target)
             ops == DeletingAt(start, TextInRange(t, start, stop)) \o InsertingAt(start, x)
         IN  /\ plan.final = Spliced(t, start, stop, x) /\ plan.view = target
             /\ TextInRange(t, start, stop) # x /\ Payload(ops) =< MaxPayload
<1> DEFINE original == TextInRange(t, start, stop)
           ops == DeletingAt(start, original) \o InsertingAt(start, x)
           u == Spliced(t, start, stop, x)
           plan == [final |-> u, ops |-> ops, view |-> target]
<1>1. NoChange(t, v).final = t
  BY DEF NoChange
<1>2. original # x
  <2>1. original = x => ReplacePlan(t, v, start, stop, x, target) = NoChange(t, v)
    BY Zenon DEF ReplacePlan
  <2> QED
    BY <1>1, <2>1, Zenon
<1>3. ReplacePlan(t, v, start, stop, x, target) = Accepted(t, v, plan)
  BY <1>2, Zenon DEF ReplacePlan
<1>4. plan.final = u /\ plan.ops = ops /\ plan.view = target
  OBVIOUS
<1> HIDE DEF plan, ops, u, original
<1>5. Payload(plan.ops) =< MaxPayload /\ Renderable(plan.final)
  <2>1. ~(Payload(plan.ops) =< MaxPayload /\ Renderable(plan.final))
          => Accepted(t, v, plan) = NoChange(t, v)
    BY Zenon DEF Accepted
  <2> QED
    BY <1>1, <1>3, <2>1, Zenon
<1>6. Accepted(t, v, plan) = plan
  BY <1>5, Zenon DEF Accepted
<1>7. ReplacePlan(t, v, start, stop, x, target) = plan
  BY <1>3, <1>6, Zenon
<1> QED
  BY <1>2, <1>4, <1>5, <1>7, Zenon DEF ops, u, original

LEMMA InsertPlanChanges ==
  ASSUME NEW t, NEW v, NEW at, NEW x, NEW target, InsertPlan(t, v, at, x, target).final # t
  PROVE  /\ InsertPlan(t, v, at, x, target).final = Spliced(t, at, at, x)
         /\ InsertPlan(t, v, at, x, target).view = target
<1> DEFINE plan == ReplacePlan(t, v, at, at, x, target)
<1>1. InsertPlan(t, v, at, x, target) = plan
  BY DEF InsertPlan
<1>2. plan.final # t => plan.final = Spliced(t, at, at, x) /\ plan.view = target
  BY ReplacePlanChanges
<1> HIDE DEF plan
<1> QED
  BY <1>1, <1>2, Zenon

(* Where the caret is not behind the final line break, its real line is    *)
(* its line.                                                               *)
LEMMA RealLineOfCaret ==
  ASSUME NEW t \in Texts, NEW o \in Nat, o =< Len(t), ~BehindFinalBreak(t, o)
  PROVE  LineOfChar(t, o) = LineStart(t, o)
<1> DEFINE s == LineStart(t, o)
           r == LineOfChar(t, o)
<1>1. s \in LineStarts(t) /\ s \in 0 .. o /\ \A k \in LineStarts(t) : k =< o => k =< s
  BY LineStartsBefore
<1>2. /\ r \in RealLines(t) /\ r \in Nat /\ r =< o
      /\ \A k \in RealLines(t) : k =< o => k =< r
  BY LineOfCharacter
<1> HIDE DEF s, r
<1>3. Len(t) \in Nat /\ s \in Nat /\ s =< o
  BY <1>1, BreaksAndStarts, SMT
<1>4. s \in RealLines(t)
  <2>1. CASE s < Len(t)
    BY <1>1, <2>1, RealLinesAreLines
  <2>2. CASE s = 0
    BY <2>2, RealLinesAreLines
  <2>3. CASE ~(s < Len(t)) /\ s # 0
    <3>1. s = Len(t) /\ o = Len(t)
      BY <1>3, <2>3, SMT
    <3>2. s - 1 \in Breaks(t)
      BY <1>1, <2>3, BreaksAndStarts
    <3>3. t[(s - 1) + 1] = Newline
      BY <3>2 DEF Breaks
    <3>4. (s - 1) + 1 = Len(t) /\ Len(t) # 0
      BY <1>3, <2>3, <3>1, SMT
    <3>5. t # <<>> /\ Last(t) = t[Len(t)]
      BY <3>4, SMT DEF Last
    <3>6. BehindFinalBreak(t, o)
      BY <3>1, <3>3, <3>4, <3>5 DEF BehindFinalBreak
    <3> QED
      BY <3>6
  <2> QED
    BY <2>1, <2>2, <2>3
<1>5. r \in LineStarts(t)
  BY <1>2, RealLinesAreLines
<1>6. s =< r /\ r =< s
  BY <1>1, <1>2, <1>3, <1>4, <1>5
<1> QED
  BY <1>2, <1>3, <1>6, SMT DEF s, r

(* Behind the final line break there is an empty line.                     *)
LEMMA EmptyLineAtEnd ==
  ASSUME NEW t \in Texts, NEW o \in Nat, BehindFinalBreak(t, o)
  PROVE  /\ o = Len(t) /\ LineStart(t, o) = o /\ LineEnd(t, o) = o
         /\ Line(t, LineStart(t, o)) = <<>>
<1> DEFINE n == Len(t)
<1>1. o = n /\ t # <<>> /\ t[n] = Newline /\ n \in Nat /\ n # 0
  BY SMT DEF BehindFinalBreak, Last, Texts
<1>2. n - 1 \in 0 .. n - 1 /\ (n - 1) + 1 = n
  BY <1>1, SMT
<1>3. n - 1 \in Breaks(t)
  BY <1>1, <1>2 DEF Breaks
<1>4. o \in LineStarts(t)
  BY <1>1, <1>2, <1>3 DEF LineStarts
<1>5. LineStart(t, o) \in 0 .. o /\ o =< LineStart(t, o)
  BY <1>1, <1>4, LineStartsBefore
<1> HIDE DEF n
<1>6. LineStart(t, o) = o
  BY <1>5, SMT
<1>7. LineEnd(t, o) \in 0 .. n /\ o =< LineEnd(t, o)
  BY <1>1, LineEnds DEF n
<1>8. LineEnd(t, o) = o
  BY <1>1, <1>7, SMT
<1>9. Line(t, o) \in Texts /\ Len(Line(t, o)) = LineEnd(t, o) - o
  BY <1>4, LineText
<1>10. Len(Line(t, o)) = 0
  BY <1>8, <1>9, SMT
<1>11. Line(t, o) = <<>>
  BY <1>9, <1>10, SMT DEF Texts
<1> QED
  BY <1>1, <1>6, <1>8, <1>11 DEF n

(* A line with its break behind that break is a break and the line before  *)
(* it.                                                                     *)
BreakTurned(a, n, x, b) == ((a \o n) \o (x \o n)) \o b = (a \o (n \o x)) \o (n \o b)

LEMMA BreaksTurn ==
  ASSUME NEW a \in Texts, NEW n \in Texts, NEW x \in Texts, NEW b \in Texts
  PROVE  BreakTurned(a, n, x, b)
<1> DEFINE an == a \o n
           xn == x \o n
           nb == n \o b
           nx == n \o x
<1>1. an \in Texts /\ xn \in Texts /\ nb \in Texts /\ nx \in Texts
  BY ConcatProperties DEF Texts
<1>2. Regroup(x, n, b) /\ Regroup(a, n, x)
  BY RegroupTexts
<1>3. xn \o b = x \o nb /\ an \o x = a \o nx
  BY <1>2, Zenon DEF Regroup
<1> HIDE DEF an, xn, nb, nx
<1>4. Regroup(an, xn, b) /\ Regroup(an, x, nb)
  BY <1>1, RegroupTexts
<1>5. (an \o xn) \o b = an \o (xn \o b) /\ (an \o x) \o nb = an \o (x \o nb)
  BY <1>4, Zenon DEF Regroup
<1>6. (an \o xn) \o b = (a \o nx) \o nb
  BY <1>3, <1>5, Zenon
<1> QED
  BY <1>6, Zenon DEF an, xn, nb, nx, BreakTurned

SplicedReads(t, lo, hi, x) ==
  Spliced(t, lo, hi, x) = (SubSeq(t, 1, lo) \o x) \o SubSeq(t, hi + 1, Len(t))

LEMMA SplicedIsRead ==
  ASSUME NEW t \in Texts, NEW lo \in Nat, NEW hi \in Nat, lo =< hi, hi =< Len(t),
         NEW x \in Texts
  PROVE  SplicedReads(t, lo, hi, x)
BY SplicedText DEF SplicedReads

LEMMA LineBelowItself ==
  ASSUME NEW t \in Texts, NEW e \in Nat, e < Len(t), t[e + 1] = Newline, NEW x \in Texts
  PROVE  Spliced(t, e + 1, e + 1, x \o <<Newline>>) = Spliced(t, e, e, <<Newline>> \o x)
<1> DEFINE n == <<Newline>>
           a == SubSeq(t, 1, e)
           b == SubSeq(t, e + 2, Len(t))
<1>1. n \in Texts
  BY OneCharacter, LinesAreSet
<1>2. x \o n \in Texts /\ n \o x \in Texts
  BY <1>1, ConcatProperties DEF Texts
<1>3. Len(t) \in Nat /\ e + 1 \in Nat /\ e + 1 =< Len(t) /\ e =< Len(t) /\ e =< e
      /\ (e + 1) + 1 = e + 2 /\ e + 1 =< e + 1
  BY SMT DEF Texts
<1>4. a \in Texts /\ b \in Texts
  BY <1>3, SMT DEF Texts
<1>5. SubSeq(t, 1, e + 1) = a \o n
  <2>1. SubSeq(t, 1, e + 1) = Append(a, t[e + 1])
    BY <1>3, SMT DEF Texts
  <2>2. Append(a, Newline) = a \o <<Newline>>
    BY <1>4, LinesAreSet, SMT DEF Texts
  <2> QED
    BY <2>1, <2>2
<1>6. SubSeq(t, e + 1, Len(t)) = n \o b
  <2>1. SubSeq(t, e + 1, Len(t)) = <<t[e + 1]>> \o b
    BY <1>3, SMT DEF Texts
  <2> QED
    BY <2>1
<1> HIDE DEF n, a, b
<1>7. SplicedReads(t, e + 1, e + 1, x \o n) /\ SplicedReads(t, e, e, n \o x)
  BY <1>2, <1>3, SplicedIsRead
<1>8. BreakTurned(a, n, x, b)
  BY <1>1, <1>4, BreaksTurn
<1>9. Spliced(t, e + 1, e + 1, x \o n) = ((a \o n) \o (x \o n)) \o b
  <2>1. SubSeq(t, (e + 1) + 1, Len(t)) = b
    BY <1>3, Zenon DEF b
  <2> QED
    BY <1>5, <1>7, <2>1, Zenon DEF SplicedReads
<1>10. Spliced(t, e, e, n \o x) = (a \o (n \o x)) \o (n \o b)
  BY <1>6, <1>7, Zenon DEF a, SplicedReads
<1> QED
  BY <1>8, <1>9, <1>10, Zenon DEF n, BreakTurned

-----------------------------------------------------------------------------
(* There is one way to list numbers from the least to the greatest.        *)
Climbs(q, S) ==
  /\ q \in Seq(Nat)
  /\ \A i \in 1 .. Len(q) : q[i] \in S
  /\ \A i, j \in 1 .. Len(q) : i < j => q[i] < q[j]
  /\ \A s \in S : \E i \in 1 .. Len(q) : q[i] = s

LEMMA AscendingClimbs ==
  ASSUME NEW m \in Nat, NEW S \in SUBSET (0 .. m)
  PROVE  Climbs(Ascending(S), S)
<1> DEFINE q == Ascending(S)
<1>1. /\ q \in Seq(Nat)
      /\ \A i \in DOMAIN q : q[i] \in S
      /\ \A i, j \in DOMAIN q : i < j => q[i] < q[j]
      /\ \A s \in S : \E i \in DOMAIN q : q[i] = s
  BY AscendingLists
<1> HIDE DEF q
<1>2. DOMAIN q = 1 .. Len(q)
  BY <1>1, SMT
<1> QED
  BY <1>1, <1>2, Zenon DEF Climbs, q

LEMMA ClimbersAgree ==
  ASSUME NEW S, NEW p, NEW w, Climbs(p, S), Climbs(w, S)
  PROVE  Len(p) =< Len(w) /\ \A i \in 1 .. Len(p) : p[i] = w[i]
<1> DEFINE m == Len(p)
           n == Len(w)
           T == {k \in Nat : k =< m => k =< n /\ \A i \in 1 .. k : p[i] = w[i]}
<1>1. /\ p \in Seq(Nat) /\ w \in Seq(Nat)
      /\ \A i, j \in 1 .. m : i < j => p[i] < p[j]
      /\ \A i, j \in 1 .. n : i < j => w[i] < w[j]
      /\ \A i \in 1 .. m : \E j \in 1 .. n : w[j] = p[i]
      /\ \A i \in 1 .. n : \E j \in 1 .. m : p[j] = w[i]
  BY Zenon DEF Climbs
<1>2. m \in Nat /\ n \in Nat
  BY <1>1, SMT
<1>3. (\A i \in 1 .. m : p[i] \in Nat) /\ (\A i \in 1 .. n : w[i] \in Nat)
  <2>1. \A f \in Seq(Nat) : \A i \in 1 .. Len(f) : f[i] \in Nat
    BY SMT
  <2> QED
    BY <1>1, <2>1, Zenon
<1> HIDE DEF m, n
<1>4. 0 \in T
  BY <1>2, SMT
<1>5. ASSUME NEW k \in 0 .. m - 1, k \in T
      PROVE  k + 1 \in T
  <2>1. k \in Nat /\ k + 1 \in Nat /\ k + 1 \in 1 .. m /\ k =< m /\ k =< n
    BY <1>2, <1>5, SMT
  <2>2. \A i \in 1 .. k : p[i] = w[i]
    BY <1>5, <2>1
  <2>3. PICK j \in 1 .. n : w[j] = p[k + 1]
    BY <1>1, <2>1
  <2>4. k + 1 =< j /\ k + 1 \in 1 .. n
    <3>1. ~(j \in 1 .. k)
      <4> SUFFICES ASSUME j \in 1 .. k
                   PROVE  FALSE
        OBVIOUS
      <4>1. j \in 1 .. m /\ j < k + 1
        BY <1>2, <2>1, SMT
      <4>2. p[j] < p[k + 1] /\ p[j] \in Nat
        BY <1>1, <1>3, <2>1, <4>1
      <4>3. p[j] = p[k + 1]
        BY <2>2, <2>3
      <4> QED
        BY <4>2, <4>3, SMT
    <3> QED
      BY <1>2, <2>1, <3>1, SMT
  <2>5. PICK l \in 1 .. m : p[l] = w[k + 1]
    BY <1>1, <2>4
  <2>6. k + 1 =< l
    <3>1. ~(l \in 1 .. k)
      <4> SUFFICES ASSUME l \in 1 .. k
                   PROVE  FALSE
        OBVIOUS
      <4>1. l \in 1 .. n /\ l < k + 1
        BY <1>2, <2>1, SMT
      <4>2. w[l] < w[k + 1] /\ w[l] \in Nat
        BY <1>1, <1>3, <2>4, <4>1
      <4>3. w[l] = w[k + 1]
        BY <2>2, <2>5
      <4> QED
        BY <4>2, <4>3, SMT
    <3> QED
      BY <1>2, <2>1, <3>1, SMT
  <2>7. p[k + 1] = w[k + 1]
    <3> DEFINE a == p[k + 1]
               b == w[k + 1]
    <3>1. k + 1 = l => b = a
      BY <2>5
    <3>2. k + 1 = j => b = a
      BY <2>3
    <3>3. k + 1 < l => a < b
      BY <1>1, <2>1, <2>5
    <3>4. k + 1 < j => b < a
      BY <1>1, <2>3, <2>4
    <3>5. a \in Nat /\ b \in Nat
      BY <1>3, <2>1, <2>4
    <3> HIDE DEF a, b
    <3>6. a = b
      BY <2>1, <2>4, <2>6, <3>1, <3>2, <3>3, <3>4, <3>5, SMT
    <3> QED
      BY <3>6 DEF a, b
  <2>8. \A i \in 1 .. k + 1 : p[i] = w[i]
    <3> TAKE i \in 1 .. k + 1
    <3>1. i \in 1 .. k \/ i = k + 1
      BY <2>1, SMT
    <3> QED
      BY <2>2, <2>7, <3>1
  <2> QED
    BY <2>1, <2>4, <2>8
<1> HIDE DEF T
<1>6. 0 .. m \subseteq T
  BY <1>2, <1>4, <1>5, InductionUpTo
<1>7. m \in T /\ m =< m
  BY <1>2, <1>6, SMT
<1> QED
  BY <1>7 DEF T, m, n

LEMMA OneAscent ==
  ASSUME NEW S, NEW p, NEW w, Climbs(p, S), Climbs(w, S)
  PROVE  p = w
<1>1. /\ Len(p) =< Len(w) /\ \A i \in 1 .. Len(p) : p[i] = w[i]
      /\ Len(w) =< Len(p)
  BY ClimbersAgree
<1>2. p \in Seq(Nat) /\ w \in Seq(Nat)
  BY DEF Climbs
<1>3. Len(p) \in Nat /\ Len(w) \in Nat
  BY <1>2, SMT
<1>4. Len(p) = Len(w)
  BY <1>1, <1>3, SMT
<1> QED
  BY <1>1, <1>2, <1>4, SeqEqual

LEMMA GreaterLast ==
  ASSUME NEW m \in Nat, NEW S \in SUBSET (0 .. m), NEW b \in Nat, m < b
  PROVE  Ascending(S \cup {b}) = Append(Ascending(S), b)
<1> DEFINE q == Ascending(S)
           n == Len(q)
           p == Append(q, b)
           U == S \cup {b}
<1>1. /\ q \in Seq(Nat) /\ (\A i \in 1 .. n : q[i] \in S)
      /\ (\A i, j \in 1 .. n : i < j => q[i] < q[j])
      /\ \A s \in S : \E i \in 1 .. n : q[i] = s
  BY AscendingClimbs DEF Climbs
<1>2. Climbs(Ascending(U), U)
  <2>1. U \in SUBSET (0 .. b)
    BY SMT
  <2> HIDE DEF U
  <2> QED
    BY <2>1, AscendingClimbs
<1> HIDE DEF q
<1>3. /\ n \in Nat /\ p \in Seq(Nat) /\ Len(p) = n + 1 /\ p[n + 1] = b
      /\ \A i \in 1 .. n : p[i] = q[i]
  BY <1>1, SMT
<1> HIDE DEF n, p
<1>4. \A i \in 1 .. n + 1 : i \in 1 .. n \/ i = n + 1
  BY <1>3, SMT
<1>5. \A i \in 1 .. n + 1 : p[i] \in U
  BY <1>1, <1>3, <1>4
<1>6. \A i, j \in 1 .. n + 1 : i < j => p[i] < p[j]
  <2> SUFFICES ASSUME NEW i \in 1 .. n + 1, NEW j \in 1 .. n + 1, i < j
               PROVE  p[i] < p[j]
    OBVIOUS
  <2>1. i \in 1 .. n
    BY <1>3, SMT
  <2>2. CASE j \in 1 .. n
    BY <1>1, <1>3, <2>1, <2>2
  <2>3. CASE j = n + 1
    <3>1. p[i] \in 0 .. m
      BY <1>1, <1>3, <2>1
    <3>2. p[j] = b
      BY <1>3, <2>3
    <3> QED
      BY <3>1, <3>2, SMT
  <2> QED
    BY <1>4, <2>2, <2>3
<1>7. \A s \in U : \E i \in 1 .. n + 1 : p[i] = s
  <2> TAKE s \in U
  <2>1. CASE s = b
    <3>1. n + 1 \in 1 .. n + 1
      BY <1>3, SMT
    <3> QED
      BY <1>3, <2>1, <3>1
  <2>2. CASE s \in S
    <3>1. PICK i \in 1 .. n : q[i] = s
      BY <1>1, <2>2
    <3>2. i \in 1 .. n + 1
      BY <1>3, SMT
    <3> QED
      BY <1>3, <3>1, <3>2
  <2> QED
    BY <2>1, <2>2
<1>8. Climbs(p, U)
  BY <1>3, <1>5, <1>6, <1>7 DEF Climbs
<1> HIDE DEF U
<1>9. Ascending(U) = p
  BY <1>2, <1>8, OneAscent
<1> QED
  BY <1>9 DEF U, p, q

(* An offset's line ends where the line ends that starts before it.        *)
LEMMA SameLineEnd ==
  ASSUME NEW t \in Texts, NEW o \in Nat, o =< Len(t)
  PROVE  LineEnd(t, LineStart(t, o)) = LineEnd(t, o)
<1> DEFINE s == LineStart(t, o)
           a == LineEnd(t, s)
           b == LineEnd(t, o)
<1>1. s \in LineStarts(t) /\ s \in Nat /\ s =< o
  BY LineStartsBefore, SMT
<1>2. /\ b \in 0 .. Len(t)
      /\ b < Len(t) => b \in Breaks(t)
      /\ o =< b /\ \A i \in Breaks(t) : o =< i => b =< i
  BY LineEnds
<1>3. /\ a \in 0 .. Len(t)
      /\ a < Len(t) => a \in Breaks(t)
      /\ s =< a /\ \A i \in Breaks(t) : s =< i => a =< i
  <2>1. s =< Len(t)
    BY <1>1, SMT DEF Texts
  <2> QED
    BY <1>1, <2>1, LineEnds
<1>4. a < Len(t) => o =< a
  BY <1>3, NoBreakWithinLine
<1> HIDE DEF s, a, b
<1>5. Len(t) \in Nat
  BY SMT DEF Texts
<1>6. a < Len(t) => b =< a
  BY <1>2, <1>3, <1>4
<1>7. b < Len(t) => a =< b
  <2>1. b < Len(t) => s =< b
    BY <1>1, <1>2, SMT
  <2> QED
    BY <1>2, <1>3, <2>1
<1>8. a = b
  BY <1>2, <1>3, <1>5, <1>6, <1>7, SMT
<1> QED
  BY <1>8 DEF a, b, s

LEMMA LineWithBreak ==
  ASSUME NEW t \in Texts, NEW s \in Nat, NEW e \in Nat, s =< e, e < Len(t), t[e + 1] = Newline
  PROVE  TextInRange(t, s, e + 1) = SubSeq(t, s + 1, e) \o <<Newline>>
<1> DEFINE a == SubSeq(t, s + 1, e)
<1>1. /\ s + 1 \in Nat /\ e + 1 \in Nat /\ e + 1 =< Len(t) /\ s =< Len(t) /\ Len(t) \in Nat
      /\ s + 1 =< e + 1
  BY SMT DEF Texts
<1>2. Clamped(t, s) = s /\ Clamped(t, e + 1) = e + 1
  BY <1>1, SMT DEF Clamped
<1>3. TextInRange(t, s, e + 1) = SubSeq(t, s + 1, e + 1)
  BY <1>2, Zenon DEF TextInRange
<1>4. SubSeq(t, s + 1, e + 1) = Append(a, t[e + 1]) /\ a \in Texts
  BY <1>1, SMT DEF Texts
<1> HIDE DEF a
<1>5. Append(a, Newline) = a \o <<Newline>>
  BY <1>4, LinesAreSet, SMT DEF Texts
<1> QED
  BY <1>3, <1>4, <1>5 DEF a

DuplicatedRight(t, v) ==
  LET plan == Duplicate(t, v)
      end == LineEnd(t, v.ins)
      line == Line(t, LineStart(t, v.ins))
  IN  plan.final # t =>
        IF HasSelection(v)
        THEN /\ plan.final = Spliced(t, High(v), High(v), Selected(t, v))
             /\ plan.view = [ins |-> v.ins + High(v) - Low(v),
                             bound |-> v.bound + High(v) - Low(v)]
        ELSE /\ plan.final = Spliced(t, end, end, <<Newline>> \o line)
             /\ plan.view = Caret(v.ins + Len(line) + 1)

LEMMA DuplicateIsRight ==
  ASSUME NEW t \in Texts, NEW v \in ViewsOf(t)
  PROVE  DuplicatedRight(t, v)
<1> DEFINE line == LineOfChar(t, v.ins)
           stop == FullEnd(t, line)
           terminated == LineEnd(t, line) < Len(t)
           copy == IF terminated THEN TextInRange(t, line, stop) ELSE <<Newline>> \o Line(t, line)
           copyStart == IF terminated THEN stop ELSE stop + 1
           x == Selected(t, v)
           S == {copyStart + v.ins - line, Len(t) + Len(copy)}
           plan == Duplicate(t, v)
           end == LineEnd(t, v.ins)
           l == Line(t, LineStart(t, v.ins))
<1> SUFFICES ASSUME plan.final # t
             PROVE  IF HasSelection(v)
                    THEN /\ plan.final = Spliced(t, High(v), High(v), x)
                         /\ plan.view = [ins |-> v.ins + High(v) - Low(v),
                                         bound |-> v.bound + High(v) - Low(v)]
                    ELSE /\ plan.final = Spliced(t, end, end, <<Newline>> \o l)
                         /\ plan.view = Caret(v.ins + Len(l) + 1)
  BY Zenon DEF DuplicatedRight
<1>1. /\ Len(t) \in Nat /\ v.ins \in Nat /\ v.ins =< Len(t) /\ v.bound \in Nat
      /\ Low(v) \in Nat /\ High(v) \in Nat
      /\ \/ Low(v) = v.ins /\ High(v) = v.bound
         \/ Low(v) = v.bound /\ High(v) = v.ins
      /\ HasSelection(v) => Low(v) < High(v)
  <2>1. Len(t) \in Nat
    BY SMT DEF Texts
  <2> QED
    BY <2>1, SelectionEnds
<1>2. plan = IF HasSelection(v)
             THEN InsertPlan(t, v, High(v), x, DirectedView(v, High(v), High(v) + Len(x)))
             ELSE IF BehindFinalBreak(t, v.ins)
             THEN InsertPlan(t, v, Len(t), <<Newline>>, Caret(Len(t) + 1))
             ELSE InsertPlan(t, v, stop, copy, Caret(Min(S)))
  BY DEF Duplicate
<1> HIDE DEF plan
<1>3. CASE HasSelection(v)
  <2> DEFINE target == DirectedView(v, High(v), High(v) + Len(x))
  <2>1. plan = InsertPlan(t, v, High(v), x, target)
    BY <1>2, <1>3, Zenon
  <2>2. plan.final = Spliced(t, High(v), High(v), x) /\ plan.view = target
    <3>1. InsertPlan(t, v, High(v), x, target).final # t
            => /\ InsertPlan(t, v, High(v), x, target).final = Spliced(t, High(v), High(v), x)
               /\ InsertPlan(t, v, High(v), x, target).view = target
      BY InsertPlanChanges
    <3> QED
      BY <2>1, <3>1, Zenon
  <2>3. Len(x) = High(v) - Low(v)
    BY SelectedText
  <2> HIDE DEF x
  <2>4. target = [ins |-> v.ins + High(v) - Low(v), bound |-> v.bound + High(v) - Low(v)]
    <3> DEFINE h == High(v)
               o == Low(v)
               i == v.ins
               b == v.bound
    <3>1. /\ h \in Nat /\ o \in Nat /\ i \in Nat /\ b \in Nat /\ o < h
          /\ (o = i /\ h = b) \/ (o = b /\ h = i)
      BY <1>1, <1>3
    <3>2. target = IF i > b THEN [ins |-> h + Len(x), bound |-> h]
                            ELSE [ins |-> h, bound |-> h + Len(x)]
      BY Zenon DEF DirectedView
    <3> HIDE DEF h, o, i, b, target
    <3>3. CASE i > b
      <4>1. h + (h - o) = i + h - o /\ h = b + h - o
        BY <3>1, <3>3, SMT
      <4> QED
        BY <2>3, <3>2, <3>3, <4>1, Zenon DEF h, o, i, b
    <3>4. CASE ~(i > b)
      <4>1. h + (h - o) = b + h - o /\ h = i + h - o
        BY <3>1, <3>4, SMT
      <4> QED
        BY <2>3, <3>2, <3>4, <4>1, Zenon DEF h, o, i, b
    <3> QED
      BY <3>3, <3>4
  <2> QED
    BY <1>3, <2>2, <2>4, Zenon
<1>4. CASE ~HasSelection(v) /\ BehindFinalBreak(t, v.ins)
  <2>1. plan = InsertPlan(t, v, Len(t), <<Newline>>, Caret(Len(t) + 1))
    BY <1>2, <1>4, Zenon
  <2>2. plan.final = Spliced(t, Len(t), Len(t), <<Newline>>) /\ plan.view = Caret(Len(t) + 1)
    <3>1. InsertPlan(t, v, Len(t), <<Newline>>, Caret(Len(t) + 1)).final # t
            => /\ InsertPlan(t, v, Len(t), <<Newline>>, Caret(Len(t) + 1)).final = Spliced(t, Len(t), Len(t), <<Newline>>)
               /\ InsertPlan(t, v, Len(t), <<Newline>>, Caret(Len(t) + 1)).view = Caret(Len(t) + 1)
      BY InsertPlanChanges
    <3> QED
      BY <2>1, <3>1, Zenon
  <2>3. v.ins = Len(t) /\ end = v.ins /\ l = <<>>
    BY <1>1, <1>4, EmptyLineAtEnd
  <2> HIDE DEF l, end
  <2>4. Len(l) = 0 /\ <<Newline>> \o l = <<Newline>>
    <3>1. Len(<<>>) = 0 /\ <<Newline>> \o <<>> = <<Newline>>
      BY SMT
    <3> QED
      BY <2>3, <3>1
  <2>5. Len(t) + 1 = v.ins + Len(l) + 1
    BY <1>1, <2>3, <2>4, SMT
  <2> QED
    BY <1>4, <2>2, <2>3, <2>4, <2>5, Zenon
<1>5. CASE ~HasSelection(v) /\ ~BehindFinalBreak(t, v.ins)
  <2>1. plan = InsertPlan(t, v, stop, copy, Caret(Min(S)))
    BY <1>2, <1>5, Zenon
  <2> HIDE DEF stop, copy, S
  <2>2. plan.final = Spliced(t, stop, stop, copy) /\ plan.view = Caret(Min(S))
    <3>1. InsertPlan(t, v, stop, copy, Caret(Min(S))).final # t
            => /\ InsertPlan(t, v, stop, copy, Caret(Min(S))).final = Spliced(t, stop, stop, copy)
               /\ InsertPlan(t, v, stop, copy, Caret(Min(S))).view = Caret(Min(S))
      BY InsertPlanChanges
    <3> QED
      BY <2>1, <3>1, Zenon
  <2>3. line = LineStart(t, v.ins)
    BY <1>1, <1>5, RealLineOfCaret
  <2>4. /\ line \in LineStarts(t) /\ line \in Nat /\ line =< v.ins
    BY <1>1, LineOfCharacter, RealLinesAreLines
  <2> HIDE DEF line
  <2>5. /\ l = Line(t, line) /\ l \in Texts /\ l = SubSeq(t, line + 1, LineEnd(t, line))
        /\ Len(l) = LineEnd(t, line) - line
    BY <2>3, <2>4, LineText
  <2>6. /\ LineEnd(t, line) \in Nat /\ line =< LineEnd(t, line) /\ LineEnd(t, line) =< Len(t)
        /\ terminated => t[LineEnd(t, line) + 1] = Newline
        /\ stop = IF terminated THEN LineEnd(t, line) + 1 ELSE LineEnd(t, line)
    BY <2>4, LinesInOrder DEF stop
  <2>7. LineEnd(t, line) = end
    BY <1>1, <2>3, <2>4, SameLineEnd DEF line
  <2> HIDE DEF end, terminated
  <2>8. /\ copy = IF terminated THEN l \o <<Newline>> ELSE <<Newline>> \o l
        /\ copyStart = end + 1 /\ Len(copy) = Len(l) + 1
        /\ Spliced(t, stop, stop, copy) = Spliced(t, end, end, <<Newline>> \o l)
    <3>1. CASE terminated
      <4>1. stop = end + 1 /\ end < Len(t) /\ end \in Nat /\ t[end + 1] = Newline
        BY <2>6, <2>7, <3>1 DEF terminated
      <4>2. copy = l \o <<Newline>>
        <5>1. copy = TextInRange(t, line, stop)
          BY <3>1, Zenon DEF copy
        <5> QED
          BY <2>4, <2>5, <2>6, <2>7, <4>1, <5>1, LineWithBreak
      <4>3. Spliced(t, end + 1, end + 1, l \o <<Newline>>) = Spliced(t, end, end, <<Newline>> \o l)
        <5> HIDE DEF l
        <5> QED
          BY <2>5, <4>1, LineBelowItself
      <4>4. Len(l \o <<Newline>>) = Len(l) + 1
        <5> HIDE DEF l
        <5> QED
          BY <2>5, OneCharacter, LinesAreSet, Glue
      <4>5. copyStart = end + 1
        BY <3>1, <4>1, Zenon
      <4> QED
        BY <3>1, <4>1, <4>2, <4>3, <4>4, <4>5, Zenon
    <3>2. CASE ~terminated
      <4>1. stop = end
        BY <2>6, <2>7, <3>2
      <4>2. copy = <<Newline>> \o l
        BY <2>5, <3>2, Zenon DEF copy
      <4>3. Len(<<Newline>> \o l) = Len(l) + 1
        <5> HIDE DEF l
        <5>1. <<Newline>> \in Texts /\ Len(<<Newline>>) = 1
          BY OneCharacter, LinesAreSet
        <5>2. Len(<<Newline>> \o l) = Len(<<Newline>>) + Len(l) /\ Len(l) \in Nat
          BY <2>5, <5>1, Glue
        <5> QED
          BY <5>1, <5>2, SMT
      <4>4. copyStart = end + 1
        BY <3>2, <4>1, Zenon
      <4> QED
        BY <3>2, <4>1, <4>2, <4>3, <4>4, Zenon
    <3> QED
      BY <3>1, <3>2
  <2> HIDE DEF copyStart, l
  <2>9. Min(S) = v.ins + Len(l) + 1
    <3> DEFINE o == v.ins + Len(l) + 1
               k == Len(t) + Len(copy)
               n == Len(l)
    <3>1. n \in Nat /\ n = end - line /\ end \in Nat /\ end =< Len(t) /\ line =< end
      BY <2>4, <2>5, <2>6, <2>7, SMT
    <3>2. Len(copy) = n + 1 /\ copyStart = end + 1
      BY <2>8
    <3> HIDE DEF n
    <3>3. copyStart + v.ins - line = o /\ o \in Nat /\ k \in Nat /\ o =< k
      <4> DEFINE i == v.ins
                 c == Len(copy)
                 z == Len(t)
      <4>1. i \in Nat /\ z \in Nat /\ i =< end /\ line \in Nat
        <5>1. v.ins =< LineEnd(t, v.ins)
          BY <1>1, LineEnds
        <5> QED
          BY <1>1, <2>4, <5>1 DEF end
      <4>2. Len(l) = n
        BY DEF n
      <4> HIDE DEF i, c, z
      <4>3. (copyStart + i - line) = i + n + 1 /\ i + n + 1 \in Nat /\ i + n + 1 =< z + c /\ z + c \in Nat
        BY <3>1, <3>2, <4>1, SMT DEF z, c
      <4> QED
        BY <4>2, <4>3, Zenon DEF i, z, c
    <3>4. S = {o, k}
      BY <3>3 DEF S
    <3> HIDE DEF o, k
    <3>5. S \in SUBSET Nat /\ S # {}
      BY <3>3, <3>4
    <3>6. Min(S) \in {o, k} /\ Min(S) =< o /\ Min(S) \in Nat
      BY <3>4, <3>5, LeastOf
    <3> QED
      BY <3>3, <3>6, SMT DEF o
  <2> QED
    BY <1>5, <2>2, <2>8, <2>9, Zenon
<1> QED
  BY <1>3, <1>4, <1>5

-----------------------------------------------------------------------------
(* The characters before an offset that Trim keeps.                        *)

KeptText(t, n) == [i \in DOMAIN Kept(t, n) |-> t[Kept(t, n)[i]]]

LEMMA KeptCharacters ==
  ASSUME NEW t \in Texts, NEW n \in Nat, n =< Len(t)
  PROVE  /\ Kept(t, n) \in Seq(Nat) /\ \A i \in DOMAIN Kept(t, n) : Kept(t, n)[i] \in 1 .. n
         /\ KeptText(t, n) \in Texts /\ Len(KeptText(t, n)) = Len(Kept(t, n))
         /\ Len(Kept(t, n)) \in Nat
<1> DEFINE S == {i \in 1 .. n : i \in Visible(t)}
           q == Kept(t, n)
           x == KeptText(t, n)
<1>1. S \in SUBSET (0 .. n) /\ S \subseteq 1 .. n
  BY SMT
<1>2. q = Ascending(S)
  BY DEF Kept
<1> HIDE DEF S
<1>3. q \in Seq(Nat) /\ \A i \in DOMAIN q : q[i] \in S
  BY <1>1, <1>2, AscendingLists
<1>4. x = [i \in DOMAIN q |-> t[q[i]]]
  BY DEF KeptText
<1> HIDE DEF q, x
<1>5. Len(q) \in Nat /\ DOMAIN q = 1 .. Len(q)
  BY <1>3, SMT
<1>6. \A i \in 1 .. Len(q) : t[q[i]] \in Chars
  <2> TAKE i \in 1 .. Len(q)
  <2>1. q[i] \in 1 .. n
    BY <1>1, <1>3, <1>5
  <2>2. q[i] \in 1 .. Len(t)
    BY <2>1, SMT DEF Texts
  <2> QED
    BY <2>2, SMT DEF Texts
<1>7. x \in Seq(Chars) /\ Len(x) = Len(q)
  <2> DEFINE f == [i \in 1 .. Len(q) |-> t[q[i]]]
             m == Len(q)
  <2>1. f \in [1 .. m -> Chars]
    BY <1>6
  <2>2. x = f
    BY <1>4, <1>5
  <2>3. m \in Nat
    BY <1>5
  <2> HIDE DEF f, m
  <2>4. f \in Seq(Chars) /\ Len(f) = m
    BY <2>1, <2>3, SMT
  <2> QED
    BY <2>2, <2>4 DEF m
<1> QED
  BY <1>1, <1>3, <1>5, <1>7 DEF q, x, Texts

KeepsNext(t, n) ==
  /\ n + 1 \in Visible(t) => /\ KeptText(t, n + 1) = Append(KeptText(t, n), t[n + 1])
                             /\ Len(Kept(t, n + 1)) = Len(Kept(t, n)) + 1
  /\ n + 1 \notin Visible(t) => Kept(t, n + 1) = Kept(t, n)

LEMMA NextKept ==
  ASSUME NEW t \in Texts, NEW n \in Nat, n + 1 =< Len(t)
  PROVE  KeepsNext(t, n)
<1> DEFINE S == {i \in 1 .. n : i \in Visible(t)}
           U == {i \in 1 .. n + 1 : i \in Visible(t)}
           q == Kept(t, n)
           w == Kept(t, n + 1)
           x == KeptText(t, n)
           y == KeptText(t, n + 1)
<1>1. q = Ascending(S) /\ w = Ascending(U)
  BY DEF Kept
<1>2. \A i : i \in 1 .. n + 1 <=> i \in 1 .. n \/ i = n + 1
  BY SMT
<1>3. CASE n + 1 \notin Visible(t)
  <2>1. U = S
    BY <1>2, <1>3
  <2> HIDE DEF U, S
  <2> QED
    BY <1>1, <1>3, <2>1, Zenon DEF KeepsNext
<1>4. CASE n + 1 \in Visible(t)
  <2>1. U = S \cup {n + 1}
    BY <1>2, <1>4
  <2>2. S \in SUBSET (0 .. n) /\ n + 1 \in Nat /\ n < n + 1 /\ n =< Len(t)
    BY SMT DEF Texts
  <2> HIDE DEF U, S
  <2>3. Ascending(S \cup {n + 1}) = Append(Ascending(S), n + 1)
    BY <2>2, GreaterLast
  <2>4. w = Append(q, n + 1)
    BY <1>1, <2>1, <2>3, Zenon
  <2>5. /\ q \in Seq(Nat) /\ (\A i \in DOMAIN q : q[i] \in 1 .. n)
        /\ x \in Texts /\ Len(x) = Len(q) /\ Len(q) \in Nat
    BY <2>2, KeptCharacters
  <2>6. /\ x = [i \in DOMAIN q |-> t[q[i]]]
        /\ y = [i \in DOMAIN w |-> t[w[i]]]
    BY DEF KeptText
  <2>7. y \in Texts /\ Len(y) = Len(w)
    BY <2>2, KeptCharacters
  <2> HIDE DEF q, w, x, y
  <2>8. Len(w) = Len(q) + 1 /\ DOMAIN q = 1 .. Len(q) /\ DOMAIN w = 1 .. Len(q) + 1
        /\ w[Len(q) + 1] = n + 1 /\ \A i \in 1 .. Len(q) : w[i] = q[i]
    BY <2>2, <2>4, <2>5, SMT
  <2>9. y = Append(x, t[n + 1])
    <3> DEFINE m == Len(q)
               c == t[n + 1]
               z == Append(x, c)
    <3>1. c \in Chars
      <4>1. n + 1 \in 1 .. Len(t)
        BY <2>2, SMT DEF Texts
      <4> QED
        BY <4>1, SMT DEF Texts
    <3> HIDE DEF c
    <3>2. z \in Seq(Chars) /\ Len(z) = m + 1 /\ z[m + 1] = c /\ \A i \in 1 .. m : z[i] = x[i]
      BY <2>5, <3>1, SMT DEF Texts
    <3> HIDE DEF z
    <3>3. \A i \in 1 .. m : y[i] = t[q[i]] /\ x[i] = t[q[i]]
      <4> TAKE i \in 1 .. m
      <4>1. i \in DOMAIN q /\ i \in DOMAIN w
        <5>1. i \in 1 .. m + 1
          BY <2>5, SMT
        <5> QED
          BY <2>8, <5>1
      <4> QED
        BY <2>6, <2>8, <4>1
    <3>4. y[m + 1] = c
      <4>1. m + 1 \in DOMAIN w
        <5>1. m + 1 \in 1 .. m + 1
          BY <2>5, SMT
        <5> QED
          BY <2>8, <5>1
      <4> QED
        BY <2>6, <2>8, <4>1 DEF c
    <3>5. Len(y) = m + 1 /\ y \in Seq(Chars)
      BY <2>7, <2>8 DEF Texts
    <3>6. \A i \in 1 .. Len(y) : y[i] = z[i]
      <4> TAKE i \in 1 .. Len(y)
      <4>1. i \in 1 .. m \/ i = m + 1
        BY <2>5, <3>5, SMT
      <4> QED
        BY <3>2, <3>3, <3>4, <4>1
    <3> HIDE DEF m
    <3>7. y = z
      BY <3>2, <3>5, <3>6, SeqEqual
    <3> QED
      BY <3>7 DEF z, c
  <2> QED
    BY <1>4, <2>8, <2>9, Zenon DEF KeepsNext, q, w, x, y
<1> QED
  BY <1>3, <1>4

(* Over a stretch that is kept, and over one that is not.                  *)
AllKept(t, n, m) == \A i \in n + 1 .. m : i \in Visible(t)

NoneKept(t, n, m) == \A i \in n + 1 .. m : i \notin Visible(t)

StretchedBy(t, n, m) ==
  /\ KeptText(t, m) = KeptText(t, n) \o SubSeq(t, n + 1, m)
  /\ Len(Kept(t, m)) = Len(Kept(t, n)) + (m - n)

KeepsStretch(t, n, m) ==
  /\ AllKept(t, n, m) => StretchedBy(t, n, m)
  /\ NoneKept(t, n, m) => Kept(t, m) = Kept(t, n)

LEMMA AppendedLater ==
  ASSUME NEW a \in Texts, NEW t \in Texts, NEW n \in Nat, NEW m \in Nat, n =< m, m + 1 =< Len(t)
  PROVE  Append(a \o SubSeq(t, n + 1, m), t[m + 1]) = a \o SubSeq(t, n + 1, m + 1)
<1> DEFINE b == SubSeq(t, n + 1, m)
           c == t[m + 1]
<1>1. b \in Texts /\ c \in Chars /\ SubSeq(t, n + 1, m + 1) = Append(b, c)
  <2>1. m + 1 \in 1 .. Len(t) /\ n + 1 \in Nat
    BY SMT DEF Texts
  <2>2. c \in Chars /\ b \in Texts
    BY <2>1, SMT DEF Texts
  <2>3. SubSeq(t, n + 1, m + 1) = Append(b, c)
    BY <2>1, SMT DEF Texts
  <2> QED
    BY <2>2, <2>3
<1> HIDE DEF b, c
<1>2. Append(a \o b, c) = a \o Append(b, c)
  <2> DEFINE x == <<c>>
             z == a \o b
  <2>1. x \in Texts
    BY <1>1, OneCharacter
  <2>2. z \in Texts
    BY <1>1, Glue
  <2>3. \A y \in Texts : Append(y, c) = y \o <<c>>
    BY <1>1, SMT DEF Texts
  <2>4. Append(b, c) = b \o x /\ Append(z, c) = z \o x
    BY <1>1, <2>2, <2>3
  <2> HIDE DEF x
  <2>5. Regroup(a, b, x)
    BY <1>1, <2>1, RegroupTexts
  <2> QED
    BY <2>4, <2>5, Zenon DEF Regroup
<1> QED
  BY <1>1, <1>2 DEF b, c

LEMMA StretchKept ==
  ASSUME NEW t \in Texts, NEW n \in Nat, NEW m \in Nat, n =< m, m =< Len(t)
  PROVE  KeepsStretch(t, n, m)
<1> DEFINE d == m - n
           T == {k \in Nat : k =< d => KeepsStretch(t, n, n + k)}
<1>1. d \in Nat /\ n + d = m /\ Len(t) \in Nat
  BY SMT DEF Texts
<1>2. 0 \in T
  <2> DEFINE x == KeptText(t, n)
             l == Len(Kept(t, n))
  <2>1. x \in Texts /\ l \in Nat
    <3>1. n =< Len(t)
      BY <1>1, SMT
    <3> QED
      BY <3>1, KeptCharacters
  <2>2. n + 0 = n /\ n - n = 0 /\ SubSeq(t, n + 1, n) = <<>>
    BY SMT DEF Texts
  <2> HIDE DEF x, l
  <2>3. x \o <<>> = x /\ l + 0 = l
    BY <2>1, SMT DEF Texts
  <2>4. x = x \o SubSeq(t, n + 1, n) /\ l = l + (n - n)
    BY <2>2, <2>3
  <2>5. KeepsStretch(t, n, n)
    BY <2>4, Zenon DEF KeepsStretch, StretchedBy, x, l
  <2>6. KeepsStretch(t, n, n + 0)
    BY <2>2, <2>5, Zenon
  <2> QED
    BY <2>6
<1>3. ASSUME NEW k \in 0 .. d - 1, k \in T
      PROVE  k + 1 \in T
  <2> DEFINE o == n + k
  <2>1. k =< d /\ o \in Nat /\ o + 1 =< Len(t) /\ n + (k + 1) = o + 1 /\ n =< o /\ k + 1 \in Nat
        /\ o =< Len(t)
    BY <1>1, SMT
  <2>2. KeepsStretch(t, n, o)
    BY <1>3, <2>1
  <2> HIDE DEF o
  <2>3. KeepsNext(t, o)
    BY <2>1, NextKept
  <2>4. o + 1 \in n + 1 .. o + 1 /\ \A i \in n + 1 .. o : i \in n + 1 .. o + 1
    BY <2>1, SMT
  <2>5. NoneKept(t, n, o + 1) => Kept(t, o + 1) = Kept(t, n)
    BY <2>2, <2>3, <2>4, Zenon DEF KeepsStretch, KeepsNext, NoneKept
  <2>6. ASSUME AllKept(t, n, o + 1)
        PROVE  StretchedBy(t, n, o + 1)
    <3>1. /\ KeptText(t, o) = KeptText(t, n) \o SubSeq(t, n + 1, o)
          /\ Len(Kept(t, o)) = Len(Kept(t, n)) + (o - n)
      BY <2>2, <2>4, <2>6, Zenon DEF KeepsStretch, AllKept, StretchedBy
    <3>2. /\ KeptText(t, o + 1) = Append(KeptText(t, o), t[o + 1])
          /\ Len(Kept(t, o + 1)) = Len(Kept(t, o)) + 1
      BY <2>3, <2>4, <2>6, Zenon DEF KeepsNext, AllKept
    <3> DEFINE x == KeptText(t, n)
               l == Len(Kept(t, n))
               j == Len(Kept(t, o))
    <3>3. x \in Texts /\ l \in Nat /\ j \in Nat
      <4>1. n =< Len(t)
        BY <1>1, <2>1, SMT
      <4> QED
        BY <2>1, <4>1, KeptCharacters
    <3> HIDE DEF x, l, j
    <3>4. Append(x \o SubSeq(t, n + 1, o), t[o + 1]) = x \o SubSeq(t, n + 1, o + 1)
      BY <2>1, <3>3, AppendedLater, SMTT(30)
    <3>5. j = l + (o - n) => j + 1 = l + ((o + 1) - n)
      BY <2>1, <3>3, SMT
    <3> QED
      BY <3>1, <3>2, <3>4, <3>5, Zenon DEF x, l, j, StretchedBy
  <2>7. KeepsStretch(t, n, o + 1)
    BY <2>5, <2>6, Zenon DEF KeepsStretch
  <2> QED
    BY <2>1, <2>7, Zenon
<1> HIDE DEF T, d
<1>4. 0 .. d \subseteq T
  BY <1>1, <1>2, <1>3, InductionUpTo
<1>5. d \in T /\ d =< d
  BY <1>1, <1>4, SMT
<1>6. KeepsStretch(t, n, n + d)
  BY <1>5 DEF T
<1> QED
  BY <1>1, <1>6, Zenon

(* Ranges that cover what is not kept, and nothing else.                   *)
CoverBare(t, ranges) ==
  \A i \in 1 .. Len(t) :
    i \notin Visible(t) <=> \E k \in DOMAIN ranges : ranges[k][1] < i /\ i =< ranges[k][2]

(* Between two of them everything is kept, in each of them nothing.        *)
LEMMA CoveredOrKept ==
  ASSUME NEW t \in Texts, NEW ranges, InOrder(ranges, 0, Len(t)), CoverBare(t, ranges)
  PROVE  /\ \A k \in 0 .. Len(ranges) - 1 :
              \A o \in Cursor(ranges, k) .. ranges[k + 1][1] : AllKept(t, Cursor(ranges, k), o)
         /\ \A o \in Cursor(ranges, Len(ranges)) .. Len(t) :
              AllKept(t, Cursor(ranges, Len(ranges)), o)
         /\ \A k \in DOMAIN ranges :
              \A o \in ranges[k][1] .. ranges[k][2] : NoneKept(t, ranges[k][1], o)
<1> DEFINE n == Len(ranges)
           C(k) == Cursor(ranges, k)
           Stop(k) == IF k < n THEN ranges[k + 1][1] ELSE Len(t)
<1>1. Len(t) \in Nat
  BY SMT DEF Texts
<1>2. /\ n \in Nat /\ DOMAIN ranges = 1 .. n
      /\ \A k \in 0 .. n : C(k) \in 0 .. Len(t)
      /\ \A k \in 0 .. n - 1 :
           /\ ranges[k + 1][1] \in Nat /\ ranges[k + 1][2] \in Nat
           /\ ranges[k + 1][1] =< ranges[k + 1][2]
           /\ ranges[k + 1][2] =< Len(t)
  BY <1>1, Cursors
<1>3. /\ \A i, j \in DOMAIN ranges : i < j => ranges[i][2] =< ranges[j][1]
  BY DEF InOrder
<1>4. \A k \in 1 .. n : /\ ranges[k][1] \in Nat /\ ranges[k][2] \in Nat
                        /\ ranges[k][1] =< ranges[k][2] /\ ranges[k][2] =< Len(t)
  <2> TAKE k \in 1 .. n
  <2>1. k - 1 \in 0 .. n - 1 /\ (k - 1) + 1 = k
    BY <1>2, SMT
  <2> QED
    BY <1>2, <2>1
<1>5. \A k \in 1 .. n : C(k) = ranges[k][2]
  <2> TAKE k \in 1 .. n
  <2>1. k # 0
    BY <1>2, SMT
  <2> QED
    BY <2>1 DEF Cursor
<1> HIDE DEF C, n
<1>6. ASSUME NEW k \in 0 .. n, NEW o \in C(k) .. Stop(k)
      PROVE  AllKept(t, C(k), o)
  <2>1. C(k) \in Nat /\ C(k) =< Len(t) /\ k \in Nat /\ k =< n
    <3>1. C(k) \in 0 .. Len(t)
      BY <1>2
    <3> QED
      BY <1>1, <1>2, <3>1, SMT
  <2>2. Stop(k) \in Nat /\ Stop(k) =< Len(t)
    <3>1. CASE k < n
      <4>1. k + 1 \in 1 .. n
        BY <1>2, <2>1, <3>1, SMT
      <4>2. ranges[k + 1][1] \in Nat /\ ranges[k + 1][2] \in Nat
            /\ ranges[k + 1][1] =< ranges[k + 1][2] /\ ranges[k + 1][2] =< Len(t)
        BY <1>4, <4>1
      <4>3. Stop(k) = ranges[k + 1][1]
        BY <3>1
      <4> QED
        BY <1>1, <4>2, <4>3, SMT
    <3>2. CASE ~(k < n)
      BY <1>1, <3>2, SMT
    <3> QED
      BY <3>1, <3>2
  <2> SUFFICES ASSUME NEW i \in C(k) + 1 .. o, i \notin Visible(t)
               PROVE  FALSE
    BY DEF AllKept
  <2>3. i \in 1 .. Len(t) /\ C(k) < i /\ i =< Stop(k) /\ i \in Nat
    <3> HIDE DEF Stop
    <3> QED
      BY <1>1, <2>1, <2>2, SMT
  <2>4. PICK j \in DOMAIN ranges : ranges[j][1] < i /\ i =< ranges[j][2]
    BY <2>3 DEF CoverBare
  <2>5. j \in 1 .. n /\ ranges[j][1] \in Nat /\ ranges[j][2] \in Nat
    BY <1>2, <1>4
  <2>6. CASE j =< k
    <3>1. k \in 1 .. n /\ C(k) = ranges[k][2]
      <4>1. k \in 1 .. n
        BY <1>2, <2>1, <2>5, <2>6, SMT
      <4> QED
        BY <1>5, <4>1
    <3>2. ranges[k][1] \in Nat /\ ranges[k][2] \in Nat /\ ranges[k][1] =< ranges[k][2]
      BY <1>4, <3>1
    <3>3. j < k => ranges[j][2] =< ranges[k][1]
      BY <1>2, <1>3, <2>5, <3>1
    <3>4. j = k \/ j < k
      BY <1>2, <2>1, <2>5, <2>6, SMT
    <3> DEFINE a == ranges[j][2]
               b == ranges[k][1]
               c == ranges[k][2]
    <3>5. a \in Nat /\ b \in Nat /\ c \in Nat /\ b =< c /\ c < i /\ i =< a /\ i \in Nat
      BY <2>3, <2>4, <2>5, <3>1, <3>2
    <3>6. j = k => a = c
      OBVIOUS
    <3>7. j < k => a =< b
      BY <3>3
    <3> HIDE DEF a, b, c
    <3> QED
      BY <3>4, <3>5, <3>6, <3>7, SMT
  <2>7. CASE ~(j =< k)
    <3>1. k < n /\ k + 1 \in 1 .. n /\ (k + 1 = j \/ k + 1 < j)
      <4>1. n \in Nat /\ j \in 1 .. n /\ k \in Nat
        BY <1>2, <2>1, <2>5
      <4> QED
        BY <2>7, <4>1, SMT
    <3>2. Stop(k) = ranges[k + 1][1]
      BY <3>1
    <3>3. ranges[k + 1][1] \in Nat /\ ranges[k + 1][2] \in Nat
          /\ ranges[k + 1][1] =< ranges[k + 1][2]
      BY <1>4, <3>1
    <3>4. k + 1 < j => ranges[k + 1][2] =< ranges[j][1]
      BY <1>2, <1>3, <2>5, <3>1
    <3> DEFINE a == ranges[j][1]
               b == ranges[k + 1][1]
               c == ranges[k + 1][2]
    <3>5. a \in Nat /\ b \in Nat /\ c \in Nat /\ b =< c /\ a < i /\ i =< b /\ i \in Nat
      BY <2>3, <2>4, <2>5, <3>2, <3>3
    <3>6. k + 1 = j => a = b
      BY Zenon
    <3>7. k + 1 < j => c =< a
      BY <3>4
    <3> HIDE DEF a, b, c
    <3> QED
      BY <3>1, <3>5, <3>6, <3>7, SMT
  <2> QED
    BY <2>6, <2>7
<1>7. ASSUME NEW k \in DOMAIN ranges, NEW o \in ranges[k][1] .. ranges[k][2]
      PROVE  NoneKept(t, ranges[k][1], o)
  <2> SUFFICES ASSUME NEW i \in ranges[k][1] + 1 .. o
               PROVE  i \notin Visible(t)
    BY DEF NoneKept
  <2> DEFINE a == ranges[k][1]
             b == ranges[k][2]
  <2>1. a \in Nat /\ b \in Nat /\ b =< Len(t) /\ i \in a + 1 .. o /\ o \in a .. b
    BY <1>2, <1>4
  <2> HIDE DEF a, b
  <2>2. i \in 1 .. Len(t) /\ a < i /\ i =< b
    BY <1>1, <2>1, SMT
  <2> QED
    BY <2>2 DEF CoverBare, a, b
<1>8. \A k \in 0 .. n - 1 : \A o \in C(k) .. ranges[k + 1][1] : AllKept(t, C(k), o)
  <2> TAKE k \in 0 .. n - 1
  <2>1. k \in 0 .. n /\ k < n
    BY <1>2, SMT
  <2>2. Stop(k) = ranges[k + 1][1]
    BY <2>1
  <2> QED
    BY <1>6, <2>1, <2>2
<1>9. \A o \in C(n) .. Len(t) : AllKept(t, C(n), o)
  <2>1. n \in 0 .. n /\ Stop(n) = Len(t)
    BY <1>2, SMT
  <2> QED
    BY <1>6, <2>1
<1> QED
  BY <1>7, <1>8, <1>9 DEF C, n

LEMMA EndOfLine ==
  ASSUME NEW t \in Texts, NEW s \in LineStarts(t), NEW o \in s .. LineEnd(t, s)
  PROVE  LineEnd(t, o) = LineEnd(t, s)
<1> DEFINE e == LineEnd(t, s)
           b == LineEnd(t, o)
<1>1. s \in Nat /\ e \in Nat /\ e =< Len(t) /\ Len(t) \in Nat
  BY LinesInOrder, BreaksAndStarts
<1>2. /\ \A i \in Breaks(t) : s =< i => e =< i
      /\ e < Len(t) => e \in Breaks(t)
  BY <1>1, LineEnds
<1> HIDE DEF e
<1>3. o \in Nat /\ s =< o /\ o =< e /\ o =< Len(t)
  <2>1. o \in s .. e
    BY DEF e
  <2> QED
    BY <1>1, <2>1, SMT
<1>4. /\ b \in 0 .. Len(t) /\ o =< b /\ \A i \in Breaks(t) : o =< i => b =< i
      /\ b < Len(t) => b \in Breaks(t)
  BY <1>3, LineEnds
<1> HIDE DEF b
<1>5. e < Len(t) => b =< e
  BY <1>2, <1>3, <1>4
<1>6. b < Len(t) => e =< b
  <2>1. s =< b
    BY <1>1, <1>3, <1>4, SMT
  <2> QED
    BY <1>2, <1>4, <2>1
<1>7. b = e
  BY <1>1, <1>4, <1>5, <1>6, SMT
<1> QED
  BY <1>7 DEF b, e

(* A character is not kept when its line has nothing but blanks from it on.*)
LEMMA RunIsBare ==
  ASSUME NEW t \in Texts, NEW s \in LineStarts(t),
         NEW i \in TrailingRun(t, s)[1] + 1 .. TrailingRun(t, s)[2]
  PROVE  i \in 1 .. Len(t) /\ i \notin Visible(t)
<1> DEFINE r == TrailingRun(t, s)
           a == r[1]
           e == LineEnd(t, s)
<1>1. r = <<r[1], e>> /\ a \in Nat /\ s =< a /\ a =< e /\ \A j \in a + 1 .. e : t[j] \in Blanks
  BY TrailingRuns
<1>2. s \in Nat /\ e \in Nat /\ e =< Len(t) /\ Len(t) \in Nat
  BY LinesInOrder, BreaksAndStarts
<1>3. r[2] = e
  BY <1>1
<1>4. i \in a + 1 .. e
  BY <1>3
<1> HIDE DEF r, a, e
<1>5. i \in 1 .. Len(t) /\ i - 1 \in s .. e /\ \A j \in i .. e : j \in a + 1 .. e
  BY <1>1, <1>2, <1>4, SMT
<1>6. LineEnd(t, i - 1) = e
  BY <1>5, EndOfLine DEF e
<1>7. \A j \in i .. e : t[j] \in Blanks
  BY <1>1, <1>5
<1>8. t[i] # Newline
  <2>1. t[i] \in Blanks
    BY <1>1, <1>4
  <2> QED
    BY <2>1, BlanksAreChars
<1> QED
  BY <1>5, <1>6, <1>7, <1>8 DEF Visible

LEMMA BareIsInRun ==
  ASSUME NEW t \in Texts, NEW i \in 1 .. Len(t), i \notin Visible(t)
  PROVE  LET s == LineStart(t, i - 1)
         IN  s \in RealLines(t) /\ TrailingRun(t, s)[1] < i /\ i =< TrailingRun(t, s)[2]
<1> DEFINE o == i - 1
           s == LineStart(t, o)
           r == TrailingRun(t, s)
           a == r[1]
           e == LineEnd(t, s)
<1>1. Len(t) \in Nat /\ o \in Nat /\ o < Len(t) /\ i = o + 1 /\ i \in Nat /\ o =< Len(t)
  BY SMT DEF Texts
<1>2. s \in LineStarts(t) /\ s \in Nat /\ s =< o
  <2>1. s \in LineStarts(t) /\ s \in 0 .. o
    BY <1>1, LineStartsBefore
  <2> HIDE DEF s
  <2> QED
    BY <1>1, <2>1, SMT
<1>3. e = LineEnd(t, o)
  BY <1>1, SameLineEnd
<1>4. /\ t[i] # Newline /\ i \in DOMAIN t
      /\ \A j \in i .. LineEnd(t, o) : t[j] \in Blanks
  <2>1. i \in DOMAIN t
    BY SMT DEF Texts
  <2> QED
    BY <2>1 DEF Visible
<1>5. /\ r = <<r[1], e>> /\ a \in Nat /\ a =< e
      /\ \A k \in s .. e : (\A j \in k + 1 .. e : t[j] \in Blanks) => a =< k
  BY <1>2, TrailingRuns
<1>6. r[2] = e
  BY <1>5
<1>7. s \in RealLines(t)
  <2>1. s < Len(t)
    <3> HIDE DEF s, o
    <3> QED
      BY <1>1, <1>2, SMT
  <2> QED
    BY <1>2, <2>1, RealLinesAreLines
<1>8. /\ e \in Nat /\ o =< e
  <2>1. LineEnd(t, o) \in 0 .. Len(t) /\ o =< LineEnd(t, o)
    BY <1>1, LineEnds
  <2>2. e \in 0 .. Len(t) /\ o =< e
    BY <1>3, <2>1, Zenon
  <2> HIDE DEF e
  <2> QED
    BY <1>1, <2>2, SMT
<1>9. e # o
  <2> SUFFICES ASSUME e = o
               PROVE  FALSE
    OBVIOUS
  <2>1. o \in Breaks(t)
    <3>1. LineEnd(t, o) < Len(t) => LineEnd(t, o) \in Breaks(t)
      BY <1>1, LineEnds
    <3> QED
      BY <1>1, <1>3, <3>1
  <2>2. t[o + 1] = Newline
    BY <2>1 DEF Breaks
  <2> QED
    BY <1>1, <1>4, <2>2
<1>10. i =< e /\ o \in s .. e
  <2> HIDE DEF o, s, e
  <2> QED
    BY <1>1, <1>2, <1>8, <1>9, SMT
<1>11. \A j \in o + 1 .. e : t[j] \in Blanks
  BY <1>1, <1>3, <1>4, Zenon
<1>12. a =< o
  BY <1>5, <1>10, <1>11
<1>13. a < i
  <2> HIDE DEF a, o
  <2> QED
    BY <1>1, <1>5, <1>12, SMT
<1> HIDE DEF e, a, s
<1>14. s \in RealLines(t) /\ r[1] < i /\ i =< r[2]
  BY <1>6, <1>7, <1>10, <1>13 DEF a
<1> QED
  BY <1>14 DEF s

LEMMA RunsCoverBare ==
  ASSUME NEW t \in Texts, NEW v, ~HasSelection(v)
  PROVE  CoverBare(t, Runs(t, v))
<1> DEFINE S == {s \in TrimmedLines(t, v) : TrailingRun(t, s)[1] < TrailingRun(t, s)[2]}
           lines == Ascending(S)
           runs == [i \in DOMAIN lines |-> TrailingRun(t, lines[i])]
<1>1. Runs(t, v) = runs
  BY DEF Runs
<1>2. S = {s \in RealLines(t) : TrailingRun(t, s)[1] < TrailingRun(t, s)[2]}
  BY DEF TrimmedLines
<1>3. Len(t) \in Nat /\ S \in SUBSET (0 .. Len(t)) /\ S \subseteq LineStarts(t)
  <2>1. Len(t) \in Nat
    BY SMT DEF Texts
  <2>2. /\ RealLines(t) \in SUBSET (0 .. Len(t))
        /\ \A s \in RealLines(t) : s \in LineStarts(t)
    BY RealLinesAreLines
  <2> QED
    BY <1>2, <2>1, <2>2
<1> HIDE DEF S
<1>4. /\ \A i \in DOMAIN lines : lines[i] \in S
      /\ \A s \in S : \E i \in DOMAIN lines : lines[i] = s
  BY <1>3, AscendingLists
<1> HIDE DEF lines
<1>5. DOMAIN runs = DOMAIN lines /\ \A i \in DOMAIN lines : runs[i] = TrailingRun(t, lines[i])
  OBVIOUS
<1> HIDE DEF runs
<1>6. ASSUME NEW i \in 1 .. Len(t), NEW k \in DOMAIN runs, runs[k][1] < i, i =< runs[k][2]
      PROVE  i \notin Visible(t)
  <2> DEFINE s == lines[k]
             r == TrailingRun(t, s)
  <2>1. s \in LineStarts(t) /\ runs[k] = r
    BY <1>3, <1>4, <1>5
  <2> HIDE DEF s
  <2>2. r = <<r[1], LineEnd(t, s)>> /\ r[1] \in Nat
    BY <2>1, TrailingRuns
  <2>3. LineEnd(t, s) \in Nat
    BY <2>1, LinesInOrder
  <2> DEFINE a == r[1]
             b == r[2]
  <2>4. a \in Nat /\ b \in Nat /\ a < i /\ i =< b
    <3>1. r[2] = LineEnd(t, s)
      BY <2>2
    <3> QED
      BY <1>6, <2>1, <2>2, <2>3, <3>1
  <2> HIDE DEF a, b
  <2>5. i \in a + 1 .. b
    BY <1>3, <2>4, SMT
  <2> QED
    BY <2>1, <2>5, RunIsBare DEF a, b
<1>7. ASSUME NEW i \in 1 .. Len(t), i \notin Visible(t)
      PROVE  \E k \in DOMAIN runs : runs[k][1] < i /\ i =< runs[k][2]
  <2> DEFINE s == LineStart(t, i - 1)
             a == TrailingRun(t, s)[1]
             b == TrailingRun(t, s)[2]
  <2>1. s \in RealLines(t) /\ a < i /\ i =< b
    BY <1>7, BareIsInRun
  <2>2. s \in LineStarts(t)
    BY <2>1, RealLinesAreLines
  <2> HIDE DEF s
  <2>3. a \in Nat /\ b \in Nat
    <3>1. TrailingRun(t, s) = <<a, LineEnd(t, s)>> /\ a \in Nat
      BY <2>2, TrailingRuns
    <3>2. b = LineEnd(t, s)
      BY <3>1
    <3>3. LineEnd(t, s) \in Nat
      BY <2>2, LinesInOrder
    <3> QED
      BY <3>1, <3>2, <3>3
  <2>4. a < b
    <3> HIDE DEF a, b
    <3> QED
      BY <1>3, <2>1, <2>3, SMT
  <2>5. s \in S
    BY <1>2, <2>1, <2>4
  <2>6. PICK k \in DOMAIN lines : lines[k] = s
    BY <1>4, <2>5
  <2>7. runs[k] = TrailingRun(t, s)
    BY <1>5, <2>6
  <2> QED
    BY <1>5, <2>1, <2>7
<1>8. CoverBare(t, runs)
  BY <1>6, <1>7 DEF CoverBare
<1> QED
  BY <1>1, <1>8

(* What is spliced together is what is kept, and an offset moves behind    *)
(* what is kept before it.                                                 *)
LEMMA SplicedIsKept ==
  ASSUME NEW t \in Texts, NEW ranges, InOrder(ranges, 0, Len(t)), CoverBare(t, ranges)
  PROVE  /\ SplicedAll(t, ranges, <<>>) = KeptText(t, Len(t))
         /\ \A k \in 0 .. Len(ranges) :
              Cursor(ranges, k) + Growth(ranges, <<>>)[k] = Len(Kept(t, Cursor(ranges, k)))
         /\ \A k \in 0 .. Len(ranges) : Growth(ranges, <<>>)[k] \in Int
<1> DEFINE n == Len(ranges)
           pieces == Pieces(t, ranges, <<>>)
           D == Growth(ranges, <<>>)
           C(k) == Cursor(ranges, k)
           rest == TextInRange(t, Cursor(ranges, n), Len(t))
           F(k) == FlattenSeq(SubSeq(pieces, 1, k))
           L(k) == Len(Kept(t, C(k)))
<1>1. Len(t) \in Nat /\ <<>> \in Texts /\ Len(<<>>) = 0
  BY SMT DEF Texts
<1>2. /\ n \in Nat /\ DOMAIN ranges = 1 .. n
      /\ \A k \in 0 .. n : C(k) \in 0 .. Len(t)
      /\ \A k \in 0 .. n - 1 :
           /\ ranges[k + 1][1] \in Nat /\ ranges[k + 1][2] \in Nat
           /\ C(k) =< ranges[k + 1][1]
           /\ ranges[k + 1][1] =< ranges[k + 1][2]
           /\ ranges[k + 1][2] = C(k + 1)
           /\ ranges[k + 1][2] =< Len(t)
  BY <1>1, Cursors
<1>3. /\ D[0] = 0
      /\ \A k \in 0 .. n - 1 :
           D[k + 1] = D[k] + Len(<<>>) - (ranges[k + 1][2] - ranges[k + 1][1])
  BY <1>2, GrowthSteps
<1>4. /\ pieces \in Seq(Texts) /\ Len(pieces) = n
      /\ \A k \in 0 .. n - 1 : pieces[k + 1] = SubSeq(t, C(k) + 1, ranges[k + 1][1]) \o <<>>
  <2>1. ArePieces(Pieces(t, ranges, <<>>), t, ranges, <<>>)
    BY <1>1, PiecesAreTexts
  <2> QED
    BY <2>1 DEF ArePieces
<1>5. C(0) = 0
  BY DEF Cursor
<1>6. /\ \A k \in 0 .. n - 1 : \A o \in C(k) .. ranges[k + 1][1] : AllKept(t, C(k), o)
      /\ \A o \in C(n) .. Len(t) : AllKept(t, C(n), o)
      /\ \A k \in DOMAIN ranges :
           \A o \in ranges[k][1] .. ranges[k][2] : NoneKept(t, ranges[k][1], o)
  BY CoveredOrKept
<1> HIDE DEF D, C, pieces, n
<1> DEFINE T == {k \in Nat : k =< n =>
                   D[k] \in Int /\ F(k) = KeptText(t, C(k)) /\ C(k) + D[k] = L(k)}
<1>7. 0 \in T
  <2>1. F(0) = <<>>
    <3>1. SubSeq(pieces, 1, 0) = <<>>
      BY SMT
    <3> QED
      BY <3>1, FlattenEmpty
  <2>2. D[0] \in Int /\ C(0) + D[0] = 0
    BY <1>3, <1>5, SMT
  <2>3. KeptText(t, 0) = <<>> /\ Len(Kept(t, 0)) = 0
    <3>1. /\ Kept(t, 0) \in Seq(Nat) /\ \A i \in DOMAIN Kept(t, 0) : Kept(t, 0)[i] \in 1 .. 0
          /\ KeptText(t, 0) \in Texts /\ Len(KeptText(t, 0)) = Len(Kept(t, 0))
      BY <1>1, KeptCharacters
    <3> DEFINE q == Kept(t, 0)
               x == KeptText(t, 0)
    <3>2. q \in Seq(Nat) /\ (\A i \in DOMAIN q : q[i] \in 1 .. 0) /\ x \in Texts /\ Len(x) = Len(q)
      BY <3>1
    <3> HIDE DEF q, x
    <3>3. Len(q) = 0
      <4>1. Len(q) \in Nat /\ DOMAIN q = 1 .. Len(q)
        BY <3>2, SMT
      <4>2. Len(q) # 0 => 1 \in DOMAIN q
        BY <4>1, SMT
      <4>3. ~(q[1] \in 1 .. 0)
        BY SMT
      <4> QED
        BY <3>2, <4>2, <4>3
    <3>4. x = <<>>
      BY <3>2, <3>3, SMT DEF Texts
    <3> QED
      BY <3>3, <3>4 DEF q, x
  <2> QED
    BY <1>5, <2>1, <2>2, <2>3
<1>8. ASSUME NEW k \in 0 .. n - 1, k \in T
      PROVE  k + 1 \in T
  <2> DEFINE front == SubSeq(pieces, 1, k)
             p == pieces[k + 1]
             r == ranges[k + 1][1]
             e == ranges[k + 1][2]
             c == C(k)
             d == D[k]
  <2>1. k =< n /\ k + 1 \in Nat /\ k \in 0 .. n /\ k + 1 \in 1 .. n
    BY <1>2, SMT
  <2>2. d \in Int /\ FlattenSeq(front) = KeptText(t, c) /\ c + d = L(k)
    BY <1>8, <2>1
  <2>3. /\ r \in Nat /\ e \in Nat /\ c =< r /\ r =< e /\ e = C(k + 1) /\ e =< Len(t)
        /\ c \in 0 .. Len(t)
    BY <1>2, <2>1
  <2>4. D[k + 1] = d + Len(<<>>) - (e - r)
    BY <1>3
  <2>5. SubSeq(pieces, 1, k + 1) = Append(front, p) /\ front \in Seq(Texts) /\ p \in Texts
    <3> DEFINE E == Texts
    <3>1. pieces \in Seq(E)
      BY <1>4
    <3> HIDE DEF E
    <3>2. SubSeq(pieces, 1, k + 1) = Append(front, p) /\ front \in Seq(E) /\ p \in E
      BY <1>2, <1>4, <3>1, SMTT(30)
    <3> QED
      BY <3>2 DEF E
  <2>6. p = SubSeq(t, c + 1, r)
    <3>1. p = SubSeq(t, c + 1, r) \o <<>>
      BY <1>4
    <3>2. SubSeq(t, c + 1, r) \o <<>> = SubSeq(t, c + 1, r)
      <4> DEFINE s == SubSeq(t, c + 1, r)
      <4>1. s \in Seq(Chars)
        <5> HIDE DEF c, r
        <5>1. c + 1 \in Nat /\ r =< Len(t)
          BY <1>1, <2>3, SMT
        <5> QED
          BY <2>3, <5>1, SMT DEF Texts
      <4> HIDE DEF s
      <4>2. s \o <<>> = s
        BY <4>1, SMT
      <4> QED
        BY <4>2 DEF s
    <3> QED
      BY <3>1, <3>2
  <2>7. AllKept(t, c, r) /\ NoneKept(t, r, e)
    <3>1. r \in c .. r /\ e \in r .. e
      <4> HIDE DEF r, c, e
      <4> QED
        BY <1>1, <2>3, SMT
    <3> QED
      BY <1>2, <1>6, <2>1, <3>1
  <2>8. L(k + 1) = Len(Kept(t, e))
    BY <2>3
  <2> HIDE DEF front, p, r, e, c, d
  <2>9. FlattenSeq(Append(front, p)) = FlattenSeq(front) \o p
    BY <2>5, FlattenAppend DEF Texts
  <2>10. c \in Nat /\ r =< Len(t)
    BY <1>1, <2>3, SMT
  <2>11. KeepsStretch(t, c, r) /\ KeepsStretch(t, r, e)
    BY <2>3, <2>10, StretchKept
  <2>12. StretchedBy(t, c, r) /\ Kept(t, e) = Kept(t, r)
    BY <2>7, <2>11, Zenon DEF KeepsStretch
  <2>13. KeptText(t, e) = KeptText(t, r)
    BY <2>12, Zenon DEF KeptText
  <2>14. F(k + 1) = KeptText(t, e)
    BY <2>2, <2>5, <2>6, <2>9, <2>12, <2>13, Zenon DEF StretchedBy
  <2>15. Len(Kept(t, e)) = L(k) + (r - c)
    BY <2>12, Zenon DEF StretchedBy, c
  <2>16. D[k + 1] \in Int /\ e + D[k + 1] = L(k) + (r - c)
    <3> DEFINE next == D[k + 1]
               l == L(k)
               z == Len(<<>>)
    <3>1. next = d + z - (e - r) /\ c + d = l /\ z = 0
      BY <1>1, <2>2, <2>4
    <3> HIDE DEF next, l, z
    <3> QED
      BY <2>2, <2>3, <2>10, <3>1, SMTT(30) DEF next, l
  <2>17. F(k + 1) = KeptText(t, C(k + 1)) /\ C(k + 1) + D[k + 1] = L(k + 1)
    BY <2>3, <2>8, <2>14, <2>15, <2>16, Zenon
  <2> QED
    BY <2>1, <2>16, <2>17
<1> HIDE DEF T
<1>9. \A k \in 0 .. n : D[k] \in Int /\ F(k) = KeptText(t, C(k)) /\ C(k) + D[k] = L(k)
  <2>1. 0 .. n \subseteq T
    BY <1>2, <1>7, <1>8, InductionUpTo
  <2>2. \A k \in 0 .. n : k =< n
    BY SMT
  <2> QED
    BY <2>1, <2>2 DEF T
<1>10. n \in 0 .. n /\ C(n) \in Nat /\ C(n) =< Len(t)
  <2>1. n \in 0 .. n
    BY <1>2, SMT
  <2>2. C(n) \in 0 .. Len(t)
    BY <1>2, <2>1
  <2> QED
    BY <1>1, <2>1, <2>2, SMT
<1>11. SplicedAll(t, ranges, <<>>) = KeptText(t, Len(t))
  <2>1. SubSeq(pieces, 1, n) = pieces
    <3> DEFINE E == Texts
    <3>1. pieces \in Seq(E)
      BY <1>4
    <3> HIDE DEF E
    <3> QED
      BY <1>2, <1>4, <3>1, SMT
  <2>2. FlattenSeq(pieces) = KeptText(t, C(n))
    <3>1. F(n) = KeptText(t, C(n))
      BY <1>9, <1>10
    <3> QED
      BY <2>1, <3>1, Zenon
  <2>3. rest = SubSeq(t, C(n) + 1, Len(t))
    <3>1. Len(t) =< Len(t)
      BY <1>1, SMT
    <3> QED
      BY <1>1, <1>10, <3>1, RangeThatFits DEF C
  <2>4. SplicedAll(t, ranges, <<>>) = FlattenSeq(pieces) \o rest
    BY DEF SplicedAll, pieces, n
  <2> HIDE DEF rest
  <2>5. AllKept(t, C(n), Len(t))
    <3>1. Len(t) \in C(n) .. Len(t)
      BY <1>1, <1>10, SMT
    <3> QED
      BY <1>6, <3>1
  <2>6. KeepsStretch(t, C(n), Len(t))
    <3>1. Len(t) =< Len(t)
      BY <1>1, SMT
    <3> QED
      BY <1>1, <1>10, <3>1, StretchKept
  <2> QED
    BY <2>2, <2>3, <2>4, <2>5, <2>6, Zenon DEF KeepsStretch, StretchedBy
<1> QED
  BY <1>9, <1>11 DEF D, C, n

LEMMA MappedIsKept ==
  ASSUME NEW t \in Texts, NEW ranges, InOrder(ranges, 0, Len(t)), CoverBare(t, ranges),
         NEW offset \in 0 .. Len(t)
  PROVE  MappedOffset(offset, ranges, <<>>) = Len(Kept(t, offset))
<1> DEFINE n == Len(ranges)
           D == Growth(ranges, <<>>)
           C(k) == Cursor(ranges, k)
           K == {0} \cup {i \in DOMAIN ranges : ranges[i][2] < offset}
           k == Max(K)
<1>1. Len(t) \in Nat /\ Len(<<>>) = 0 /\ offset \in Nat /\ offset =< Len(t)
  BY SMT DEF Texts
<1>2. /\ n \in Nat /\ DOMAIN ranges = 1 .. n
      /\ \A j \in 0 .. n : C(j) \in 0 .. Len(t)
      /\ \A j \in 0 .. n - 1 :
           /\ ranges[j + 1][1] \in Nat /\ ranges[j + 1][2] \in Nat
           /\ C(j) =< ranges[j + 1][1]
           /\ ranges[j + 1][1] =< ranges[j + 1][2]
           /\ ranges[j + 1][2] =< Len(t)
  BY <1>1, Cursors
<1>3. C(0) = 0
  BY DEF Cursor
<1>4. \A j \in 0 .. n : C(j) + D[j] = Len(Kept(t, C(j))) /\ D[j] \in Int
  BY SplicedIsKept
<1>5. /\ \A j \in 0 .. n - 1 : \A o \in C(j) .. ranges[j + 1][1] : AllKept(t, C(j), o)
      /\ \A o \in C(n) .. Len(t) : AllKept(t, C(n), o)
      /\ \A j \in DOMAIN ranges :
           \A o \in ranges[j][1] .. ranges[j][2] : NoneKept(t, ranges[j][1], o)
  BY CoveredOrKept
<1>6. MappedOffset(offset, ranges, <<>>) =
        IF k < n /\ ranges[k + 1][1] < offset
        THEN ranges[k + 1][1] + D[k] + Len(<<>>)
        ELSE offset + D[k]
  BY DEF MappedOffset
<1> HIDE DEF C, D, n
<1>7. k \in 0 .. n /\ C(k) =< offset /\ (\A i \in 1 .. n : ranges[i][2] < offset => i =< k)
  <2>1. K \in SUBSET (0 .. n) /\ K # {}
    BY <1>2, SMT
  <2>2. k \in K /\ k \in 0 .. n /\ \A i \in K : i =< k
    <3> HIDE DEF K
    <3> QED
      BY <1>2, <2>1, GreatestOf
  <2> HIDE DEF k
  <2>3. k = 0 \/ (k # 0 /\ ranges[k][2] < offset)
    BY <1>2, <2>2, SMT
  <2>4. CASE k = 0
    BY <1>1, <1>2, <1>3, <2>2, <2>4, SMT
  <2>5. CASE k # 0 /\ ranges[k][2] < offset
    <3>1. C(k) = ranges[k][2]
      BY <2>5 DEF Cursor, C
    <3>2. C(k) \in 0 .. Len(t)
      BY <1>2, <2>2
    <3>3. C(k) =< offset
      BY <1>1, <2>5, <3>1, <3>2, SMT
    <3>4. \A i \in 1 .. n : ranges[i][2] < offset => i =< k
      BY <1>2, <2>2
    <3> QED
      BY <2>2, <3>3, <3>4
  <2> QED
    BY <2>3, <2>4, <2>5
<1> HIDE DEF k, K
<1> DEFINE c == C(k)
           d == D[k]
           l == Len(Kept(t, C(k)))
           r == ranges[k + 1][1]
           e == ranges[k + 1][2]
<1>8. c \in Nat /\ c =< offset /\ c + d = l /\ d \in Int /\ n \in Nat /\ k \in Nat /\ k =< n
  <2>1. C(k) \in 0 .. Len(t) /\ C(k) + D[k] = l /\ D[k] \in Int /\ k \in 0 .. n
    BY <1>2, <1>4, <1>7
  <2>2. c \in 0 .. Len(t)
    BY <2>1
  <2> HIDE DEF c
  <2>3. c \in Nat
    BY <1>1, <2>2, SMT
  <2>4. k \in Nat /\ k =< n
    BY <1>2, <2>1, SMT
  <2> QED
    BY <1>2, <1>7, <2>1, <2>3, <2>4 DEF c
<1>9. CASE k < n /\ r < offset
  <2>1. k \in 0 .. n - 1 /\ k + 1 \in 1 .. n
    BY <1>8, <1>9, SMT
  <2>2. /\ r \in Nat /\ e \in Nat /\ c =< r /\ r =< e /\ e =< Len(t)
    BY <1>2, <2>1
  <2>3. ~(e < offset)
    <3>1. e < offset => k + 1 =< k
      BY <1>7, <2>1
    <3> QED
      BY <1>8, <3>1, SMT
  <2>4. AllKept(t, c, r) /\ NoneKept(t, r, offset)
    <3>1. r \in c .. r /\ offset \in r .. e
      <4> HIDE DEF r, c, e
      <4> QED
        BY <1>1, <1>8, <1>9, <2>2, <2>3, SMT
    <3> QED
      BY <1>2, <1>5, <2>1, <3>1
  <2>5. MappedOffset(offset, ranges, <<>>) = r + d + Len(<<>>)
    BY <1>6, <1>9
  <2> HIDE DEF r, c, e, d
  <2>6. KeepsStretch(t, c, r) /\ KeepsStretch(t, r, offset)
    <3>1. r =< Len(t) /\ r =< offset
      BY <1>1, <1>9, <2>2, SMT
    <3> QED
      BY <1>1, <1>8, <2>2, <3>1, StretchKept
  <2>7. Len(Kept(t, offset)) = Len(Kept(t, c)) + (r - c)
    BY <2>4, <2>6, Zenon DEF KeepsStretch, StretchedBy
  <2>8. Len(Kept(t, c)) = l
    BY DEF c
  <2> DEFINE z == Len(<<>>)
             m == MappedOffset(offset, ranges, <<>>)
             g == Len(Kept(t, offset))
  <2>9. m = r + d + z /\ z = 0 /\ g = l + (r - c)
    BY <1>1, <2>5, <2>7, <2>8
  <2> HIDE DEF z, m, g, l
  <2>10. m = g
    BY <1>8, <2>2, <2>9, SMT
  <2> QED
    BY <2>10 DEF m, g
<1>10. CASE ~(k < n /\ r < offset)
  <2>1. AllKept(t, c, offset)
    <3>1. CASE k < n
      <4>1. k \in 0 .. n - 1
        BY <1>8, <3>1, SMT
      <4>2. r \in Nat
        BY <1>2, <4>1
      <4>3. offset \in c .. r
        <5> HIDE DEF r, c
        <5> QED
          BY <1>1, <1>8, <1>10, <3>1, <4>2, SMT
      <4> QED
        BY <1>5, <4>1, <4>3
    <3>2. CASE k = n
      <4>1. offset \in c .. Len(t)
        <5> HIDE DEF c
        <5> QED
          BY <1>1, <1>8, SMT
      <4> QED
        BY <1>5, <3>2, <4>1
    <3> QED
      BY <1>8, <3>1, <3>2, SMT
  <2>2. MappedOffset(offset, ranges, <<>>) = offset + d
    BY <1>6, <1>10
  <2> HIDE DEF c, d, r, e
  <2>3. KeepsStretch(t, c, offset)
    BY <1>1, <1>8, StretchKept
  <2>4. Len(Kept(t, offset)) = Len(Kept(t, c)) + (offset - c)
    BY <2>1, <2>3, Zenon DEF KeepsStretch, StretchedBy
  <2>5. Len(Kept(t, c)) = l
    BY DEF c
  <2> DEFINE m == MappedOffset(offset, ranges, <<>>)
             g == Len(Kept(t, offset))
  <2>6. m = offset + d /\ g = l + (offset - c)
    BY <2>2, <2>4, <2>5
  <2> HIDE DEF m, g, l
  <2>7. m = g
    BY <1>1, <1>8, <2>6, SMT
  <2> QED
    BY <2>7 DEF m, g
<1> QED
  BY <1>9, <1>10

TrimmedRight(t, v) ==
  LET plan == Trim(t, v)
  IN  ~HasSelection(v) /\ plan.final # t =>
        /\ plan.final = KeptText(t, Len(t))
        /\ plan.view = Caret(Len(Kept(t, v.ins)))

LEMMA TrimIsRight ==
  ASSUME NEW t \in Texts, NEW v \in ViewsOf(t)
  PROVE  TrimmedRight(t, v)
<1> DEFINE runs == Runs(t, v)
           plan == Trim(t, v)
           trimmed == [final |-> SplicedAll(t, runs, <<>>),
                       ops |-> OperationsDescending(t, runs, <<>>),
                       view |-> MappedView(v, runs, <<>>)]
<1> SUFFICES ASSUME ~HasSelection(v), plan.final # t
             PROVE  /\ plan.final = KeptText(t, Len(t))
                    /\ plan.view = Caret(Len(Kept(t, v.ins)))
  BY Zenon DEF TrimmedRight
<1>1. InOrder(runs, 0, Len(t)) /\ CoverBare(t, runs)
  BY RunsInOrder, RunsCoverBare
<1>2. plan = IF runs = <<>> \/ Len(runs) > MaxSpans THEN NoChange(t, v)
             ELSE Accepted(t, v, trimmed)
  BY DEF Trim
<1> HIDE DEF plan, runs
<1>3. NoChange(t, v).final = t
  BY DEF NoChange
<1>4. plan = Accepted(t, v, trimmed)
  BY <1>2, <1>3, Zenon
<1>5. trimmed.final = SplicedAll(t, runs, <<>>) /\ trimmed.view = MappedView(v, runs, <<>>)
  OBVIOUS
<1> HIDE DEF trimmed
<1>6. Accepted(t, v, trimmed) = trimmed \/ Accepted(t, v, trimmed) = NoChange(t, v)
  BY Zenon DEF Accepted
<1>7. plan = trimmed
  BY <1>3, <1>4, <1>6, Zenon
<1>8. plan.final = KeptText(t, Len(t))
  BY <1>1, <1>5, <1>7, SplicedIsKept
<1>9. v.ins \in 0 .. Len(t) /\ v.bound = v.ins
  BY DEF ViewsOf, HasSelection
<1>10. MappedOffset(v.ins, runs, <<>>) = Len(Kept(t, v.ins))
  BY <1>1, <1>9, MappedIsKept
<1>11. MappedView(v, runs, <<>>) = Caret(Len(Kept(t, v.ins)))
  BY <1>9, <1>10, Zenon DEF MappedView, Caret
<1> QED
  BY <1>5, <1>7, <1>8, <1>11, Zenon

(* Trim and Duplicate leave what was asked for, with the caret or the      *)
(* selection on the text it was on or on its copy, whatever the text and   *)
(* the view: plan_trim_trailing_spaces and plan_duplicate of               *)
(* application/text_transform.py.                                          *)
THEOREM LineCommandsAreInPlace == Spec => []LineCommandsKeepThePlace
<1>1. TypeOK => LineCommandsKeepThePlace
  <2> SUFFICES ASSUME TypeOK
               PROVE  LineCommandsKeepThePlace
    OBVIOUS
  <2>1. text \in Texts /\ view \in ViewsOf(text)
    BY DEF TypeOK
  <2>2. TrimmedRight(text, view) /\ DuplicatedRight(text, view)
    BY <2>1, TrimIsRight, DuplicateIsRight
  <2>3. TrimmedInPlace
    BY <2>2, Zenon DEF TrimmedRight, TrimmedInPlace, KeptText
  <2>4. DuplicatedInPlace
    BY <2>2, Zenon DEF DuplicatedRight, DuplicatedInPlace
  <2> QED
    BY <2>3, <2>4 DEF LineCommandsKeepThePlace
<1> QED
  BY <1>1, TypeCorrect, PTL

-----------------------------------------------------------------------------
(* Two texts that differ in the order of two stretches with a line break   *)
(* between them: k characters and n characters behind offset p.            *)

Swap(t, u, p, k, n) ==
  /\ t \in Texts /\ u \in Texts /\ Len(u) = Len(t)
  /\ p \in Nat /\ k \in Nat /\ n \in Nat /\ p + k + n + 1 =< Len(t)
  /\ \A i \in 1 .. p : u[i] = t[i]
  /\ \A i \in 1 .. n : u[p + i] = t[p + k + 1 + i]
  /\ u[p + n + 1] = Newline /\ t[p + k + 1] = Newline
  /\ \A i \in 1 .. k : u[p + n + 1 + i] = t[p + i]
  /\ \A i \in p + k + n + 2 .. Len(t) : u[i] = t[i]

LEMMA SwapTurns ==
  ASSUME NEW t, NEW u, NEW p, NEW k, NEW n, Swap(t, u, p, k, n)
  PROVE  Swap(u, t, p, n, k)
<1>1. /\ t \in Texts /\ u \in Texts /\ Len(u) = Len(t)
      /\ p \in Nat /\ k \in Nat /\ n \in Nat /\ p + k + n + 1 =< Len(t)
      /\ \A i \in 1 .. p : u[i] = t[i]
      /\ \A i \in 1 .. n : u[p + i] = t[p + k + 1 + i]
      /\ u[p + n + 1] = Newline /\ t[p + k + 1] = Newline
      /\ \A i \in 1 .. k : u[p + n + 1 + i] = t[p + i]
      /\ \A i \in p + k + n + 2 .. Len(t) : u[i] = t[i]
  BY DEF Swap
<1>2. p + n + k + 1 = p + k + n + 1 /\ p + n + k + 2 = p + k + n + 2
  BY <1>1, SMT
<1>3. \A i \in p + n + k + 2 .. Len(u) : t[i] = u[i]
  BY <1>1, <1>2, Zenon
<1>4. p + n + k + 1 =< Len(u)
  BY <1>1, <1>2, Zenon
<1>5. /\ \A i \in 1 .. p : t[i] = u[i]
      /\ \A i \in 1 .. k : t[p + i] = u[p + n + 1 + i]
      /\ \A i \in 1 .. n : t[p + k + 1 + i] = u[p + i]
  BY <1>1, Zenon
<1> QED
  BY <1>1, <1>3, <1>4, <1>5, Zenon DEF Swap

(* A position is before, in one of the stretches, between or behind.       *)
LEMMA SwapPlaces ==
  ASSUME NEW p \in Nat, NEW k \in Nat, NEW n \in Nat, NEW l \in Nat, NEW i \in 1 .. l
  PROVE  \/ i \in 1 .. p
         \/ \E j \in 1 .. n : i = p + j
         \/ i = p + n + 1
         \/ \E j \in 1 .. k : i = p + n + 1 + j
         \/ i \in p + k + n + 2 .. l
<1>1. CASE i > p /\ i =< p + n
  <2>1. i - p \in 1 .. n /\ i = p + (i - p)
    BY <1>1, SMT
  <2> QED
    BY <2>1
<1>2. CASE i > p + n + 1 /\ i =< p + k + n + 1
  <2>1. i - (p + n + 1) \in 1 .. k /\ i = p + n + 1 + (i - (p + n + 1))
    BY <1>2, SMT
  <2> QED
    BY <2>1
<1>3. CASE i =< p \/ i = p + n + 1 \/ i > p + k + n + 1
  <2>1. i \in 1 .. p \/ i = p + n + 1 \/ i \in p + k + n + 2 .. l
    BY <1>3, SMT
  <2> QED
    BY <2>1
<1>4. \/ i > p /\ i =< p + n
      \/ i > p + n + 1 /\ i =< p + k + n + 1
      \/ i =< p \/ i = p + n + 1 \/ i > p + k + n + 1
  BY SMT
<1> QED
  BY <1>1, <1>2, <1>3, <1>4

LEMMA SwapOnce ==
  ASSUME NEW t, NEW u, NEW w, NEW p, NEW k, NEW n, Swap(t, u, p, k, n), Swap(t, w, p, k, n)
  PROVE  u = w
<1> DEFINE l == Len(t)
<1>1. /\ u \in Seq(Chars) /\ w \in Seq(Chars) /\ Len(u) = l /\ Len(w) = l
      /\ p \in Nat /\ k \in Nat /\ n \in Nat
  BY DEF Swap, Texts
<1>2. l \in Nat
  BY <1>1, SMT
<1>3. /\ \A i \in 1 .. p : u[i] = w[i]
      /\ \A i \in 1 .. n : u[p + i] = w[p + i]
      /\ u[p + n + 1] = w[p + n + 1]
      /\ \A i \in 1 .. k : u[p + n + 1 + i] = w[p + n + 1 + i]
      /\ \A i \in p + k + n + 2 .. l : u[i] = w[i]
  BY Zenon DEF Swap
<1> HIDE DEF l
<1>4. \A i \in 1 .. l : u[i] = w[i]
  <2> TAKE i \in 1 .. l
  <2>1. \/ i \in 1 .. p
        \/ \E j \in 1 .. n : i = p + j
        \/ i = p + n + 1
        \/ \E j \in 1 .. k : i = p + n + 1 + j
        \/ i \in p + k + n + 2 .. l
    BY <1>1, <1>2, SwapPlaces
  <2> QED
    BY <1>3, <2>1, Zenon
<1> QED
  BY <1>1, <1>4, SeqEqual

(* Two stretches of whole lines of a text.                                 *)
After(t, e) == IF e < Len(t) THEN e + 1 ELSE e

Stretches(t, p, k, n) ==
  /\ t \in Texts /\ p \in LineStarts(t) /\ p \in Nat /\ k \in Nat /\ n \in Nat
  /\ p + k + n + 1 =< Len(t) /\ t[p + k + 1] = Newline
  /\ p + k + n + 1 < Len(t) => t[p + k + n + 1 + 1] = Newline
  /\ p + k + n + 1 = Len(t) => t[Len(t)] # Newline

Swapped(t, p, k, n) ==
  Joined(t, <<p, After(t, p + k + n + 1)>>,
         SubSeq(t, p + k + 1 + 1, p + k + n + 1), SubSeq(t, p + 1, p + k))

ReadsJoined(x, b, a) ==
  /\ x \in Texts
  /\ \A i \in 1 .. Len(b) : x[i] = b[i]
  /\ x[Len(b) + 1] = Newline
  /\ \A i \in 1 .. Len(a) : x[Len(b) + 1 + i] = a[i]

JoinedShort(x, b, a) == ReadsJoined(x, b, a) /\ Len(x) = Len(b) + 1 + Len(a)

JoinedLong(x, b, a) ==
  /\ ReadsJoined(x, b, a) /\ Len(x) = Len(b) + 1 + Len(a) + 1
  /\ x[Len(b) + 1 + Len(a) + 1] = Newline

JoinPlaces(a, b, m, n) ==
  /\ a \o b \in Texts /\ Len(a \o b) = m + n /\ m \in Nat /\ n \in Nat
  /\ \A i \in 1 .. m : (a \o b)[i] = a[i]
  /\ \A i \in 1 .. n : (a \o b)[m + i] = b[i]

LEMMA JoinHasPlaces ==
  ASSUME NEW a \in Texts, NEW b \in Texts, NEW m, Len(a) = m, NEW n, Len(b) = n
  PROVE  JoinPlaces(a, b, m, n)
  BY JoinedElements DEF JoinPlaces

LEMMA JoinedPlaces ==
  ASSUME NEW t \in Texts, NEW region, NEW b \in Texts, NEW a \in Texts
  PROVE  IF t[region[2]] = Newline THEN JoinedLong(Joined(t, region, b, a), b, a)
                                   ELSE JoinedShort(Joined(t, region, b, a), b, a)
<1> DEFINE n == Len(b)
           k == Len(a)
           feed == <<Newline>>
           c == b \o feed
           d == c \o a
<1>1. feed \in Texts /\ Len(feed) = 1 /\ feed[1] = Newline
  BY OneCharacter, LinesAreSet
<1> HIDE DEF feed
<1>2. /\ c \in Texts /\ Len(c) = n + 1 /\ n \in Nat
      /\ \A i \in 1 .. n : c[i] = b[i]
      /\ \A i \in 1 .. 1 : c[n + i] = feed[i]
  <2> HIDE DEF n
  <2>1. Len(b) = n
    BY DEF n
  <2> QED
    <3>1. JoinPlaces(b, feed, n, 1)
      BY <1>1, <2>1, JoinHasPlaces
    <3> QED
      BY <3>1, Zenon DEF JoinPlaces
<1>3. c[n + 1] = Newline
  <2>1. 1 \in 1 .. 1
    BY SMT
  <2> QED
    BY <1>1, <1>2, <2>1
<1> HIDE DEF c
<1>4. /\ d \in Texts /\ Len(d) = n + 1 + k /\ k \in Nat
      /\ \A i \in 1 .. n + 1 : d[i] = c[i]
      /\ \A i \in 1 .. k : d[n + 1 + i] = a[i]
  <2> HIDE DEF n, k
  <2>1. Len(a) = k
    BY DEF k
  <2> QED
    BY <1>2, <2>1, JoinedElements, SMTT(30)
<1> HIDE DEF d
<1>5. n + 1 \in 1 .. n + 1 /\ \A i \in 1 .. n : i \in 1 .. n + 1
  BY <1>2, SMT
<1>6. JoinedShort(d, b, a)
  <2>1. (\A i \in 1 .. n : d[i] = b[i]) /\ d[n + 1] = Newline
    BY <1>2, <1>3, <1>4, <1>5
  <2> QED
    BY <1>4, <2>1 DEF JoinedShort, ReadsJoined, n, k
<1>7. CASE t[region[2]] # Newline
  <2>1. Joined(t, region, b, a) = d \o <<>>
    BY <1>7, Zenon DEF Joined, d, c, feed
  <2>2. d \o <<>> = d
    BY <1>4, SMT DEF Texts
  <2> QED
    BY <1>6, <1>7, <2>1, <2>2, Zenon
<1>8. CASE t[region[2]] = Newline
  <2> DEFINE x == d \o feed
             z == n + 1 + k
  <2>1. Joined(t, region, b, a) = x
    BY <1>8, Zenon DEF Joined, d, c, feed
  <2>2. z \in Nat
    BY <1>2, <1>4, SMT
  <2>3. Len(d) = z
    BY <1>4
  <2> HIDE DEF z
  <2>4. /\ x \in Texts /\ Len(x) = z + 1
        /\ \A i \in 1 .. z : x[i] = d[i]
        /\ \A i \in 1 .. 1 : x[z + i] = feed[i]
    <3>1. JoinPlaces(d, feed, z, 1)
      BY <1>1, <1>4, <2>3, JoinHasPlaces
    <3> QED
      BY <3>1, Zenon DEF JoinPlaces, x
  <2> HIDE DEF x
  <2>5. x[z + 1] = Newline
    <3>1. 1 \in 1 .. 1
      BY SMT
    <3> QED
      BY <1>1, <2>4, <3>1
  <2>6. /\ \A i \in 1 .. n : i \in 1 .. z
        /\ n + 1 \in 1 .. z
        /\ \A i \in 1 .. k : n + 1 + i \in 1 .. z
    BY <1>2, <1>4, SMT DEF z
  <2>7. /\ \A i \in 1 .. n : d[i] = b[i]
        /\ d[n + 1] = Newline
        /\ \A i \in 1 .. k : d[n + 1 + i] = a[i]
    BY <1>6 DEF JoinedShort, ReadsJoined
  <2>8. ReadsJoined(x, b, a)
    BY <2>4, <2>6, <2>7 DEF ReadsJoined
  <2>9. JoinedLong(x, b, a)
    BY <2>4, <2>5, <2>8 DEF JoinedLong, z
  <2> QED
    BY <1>8, <2>1, <2>9, Zenon
<1> QED
  BY <1>7, <1>8

StretchesRead(t, p, k, n, a, b, e, s) ==
  /\ Len(t) \in Nat /\ e \in Nat
  /\ a \in Texts /\ Len(a) = k /\ \A i \in 1 .. k : a[i] = t[p + i]
  /\ b \in Texts /\ Len(b) = n /\ \A i \in 1 .. n : b[i] = t[p + k + 1 + i]
  /\ p =< s /\ s =< Len(t) /\ s \in Nat
  /\ IF t[s] = Newline
     THEN s = p + k + n + 2 /\ p + k + n + 2 =< Len(t) /\ t[p + k + n + 2] = Newline
     ELSE s = p + k + n + 1 /\ p + k + n + 1 = Len(t)

LEMMA StretchTexts ==
  ASSUME NEW t, NEW p, NEW k, NEW n, Stretches(t, p, k, n)
  PROVE  StretchesRead(t, p, k, n, SubSeq(t, p + 1, p + k),
                       SubSeq(t, p + k + 1 + 1, p + k + n + 1), p + k + n + 1,
                       After(t, p + k + n + 1))
<1> DEFINE l == Len(t)
           e == p + k + n + 1
           s == After(t, e)
           x == SubSeq(t, p + 1, p + k)
           b == SubSeq(t, p + k + 1 + 1, p + k + n + 1)
<1>1. /\ t \in Seq(Chars) /\ p \in Nat /\ k \in Nat /\ n \in Nat /\ e =< l
      /\ e < l => t[e + 1] = Newline
      /\ e = l => t[l] # Newline
  BY DEF Stretches, Texts
<1>2. l \in Nat /\ e \in Nat
  BY <1>1, SMT
<1>3. x \in Texts /\ Len(x) = k /\ \A i \in 1 .. k : x[i] = t[p + i]
  <2> DEFINE z == p + k
  <2>1. z \in Nat /\ p =< z /\ z =< l /\ z - p = k
    BY <1>1, <1>2, SMT
  <2> HIDE DEF z
  <2>2. SubSeq(t, p + 1, z) \in Texts /\ Len(SubSeq(t, p + 1, z)) = z - p
    BY <1>1, <2>1, SMT DEF Texts
  <2>3. \A i \in 1 .. z - p : SubSeq(t, p + 1, z)[i] = t[p + i]
    BY <1>1, <2>1, SMT
  <2> QED
    BY <2>1, <2>2, <2>3 DEF z
<1>4. b \in Texts /\ Len(b) = n /\ \A i \in 1 .. n : b[i] = t[p + k + 1 + i]
  <2> DEFINE a == p + k + 1
             z == p + k + n + 1
  <2>1. a \in Nat /\ z \in Nat /\ a =< z /\ z =< l /\ z - a = n
    BY <1>1, <1>2, SMT
  <2> HIDE DEF a, z
  <2>2. SubSeq(t, a + 1, z) \in Texts /\ Len(SubSeq(t, a + 1, z)) = z - a
    BY <1>1, <2>1, SMT DEF Texts
  <2>3. \A i \in 1 .. z - a : SubSeq(t, a + 1, z)[i] = t[a + i]
    BY <1>1, <2>1, SMTT(30)
  <2> QED
    BY <2>1, <2>2, <2>3 DEF a, z
<1>5. s = IF e < l THEN e + 1 ELSE e
  BY DEF After
<1>6. e + 1 = p + k + n + 2
  BY <1>1, SMT
<1> HIDE DEF x, b
<1>7. CASE e < l
  <2>1. s = e + 1 /\ p =< s /\ s =< l /\ s \in Nat
    <3> HIDE DEF s
    <3> QED
      BY <1>1, <1>2, <1>5, <1>7, SMT
  <2>2. t[s] = Newline
    BY <1>1, <1>7, <2>1
  <2> QED
    <3> HIDE DEF s
    <3>1. s = p + k + n + 2 /\ p + k + n + 2 =< l /\ t[p + k + n + 2] = Newline
      BY <1>6, <2>1, <2>2, Zenon
    <3> QED
      BY <1>2, <1>3, <1>4, <2>1, <2>2, <3>1, Zenon DEF StretchesRead, s, x, b
<1>8. CASE e = l
  <2>1. s = e /\ p =< s /\ s =< l /\ s \in Nat
    <3> HIDE DEF s
    <3> QED
      BY <1>1, <1>2, <1>5, <1>8, SMT
  <2>2. t[s] # Newline
    BY <1>1, <1>8, <2>1
  <2> QED
    <3> HIDE DEF s
    <3>1. s = p + k + n + 1 /\ p + k + n + 1 = l
      BY <1>8, <2>1
    <3> QED
      BY <1>2, <1>3, <1>4, <2>1, <2>2, <3>1, Zenon DEF StretchesRead, s, x, b
<1>9. e < l \/ e = l
  <2> HIDE DEF e, l
  <2> QED
    BY <1>1, <1>2, SMT
<1> QED
  BY <1>7, <1>8, <1>9

(* What Move Lines puts in the place of two stretches swaps them.          *)
LEMMA SwappedSwaps ==
  ASSUME NEW t, NEW p, NEW k, NEW n, Stretches(t, p, k, n)
  PROVE  /\ Swap(t, Spliced(t, p, After(t, p + k + n + 1), Swapped(t, p, k, n)), p, k, n)
         /\ Swapped(t, p, k, n) \in Texts
         /\ Len(Swapped(t, p, k, n)) = After(t, p + k + n + 1) - p
<1> DEFINE l == Len(t)
           e == p + k + n + 1
           s == After(t, e)
           a == SubSeq(t, p + 1, p + k)
           b == SubSeq(t, p + k + 1 + 1, p + k + n + 1)
           x == Swapped(t, p, k, n)
           u == Spliced(t, p, s, x)
<1>1. /\ t \in Texts /\ p \in Nat /\ k \in Nat /\ n \in Nat /\ e =< l /\ t[p + k + 1] = Newline
  BY DEF Stretches
<1>2. /\ l \in Nat /\ e \in Nat
      /\ a \in Texts /\ Len(a) = k /\ \A i \in 1 .. k : a[i] = t[p + i]
      /\ b \in Texts /\ Len(b) = n /\ \A i \in 1 .. n : b[i] = t[p + k + 1 + i]
      /\ p =< s /\ s =< l /\ s \in Nat
      /\ IF t[s] = Newline
         THEN s = p + k + n + 2 /\ p + k + n + 2 =< l /\ t[p + k + n + 2] = Newline
         ELSE s = p + k + n + 1 /\ p + k + n + 1 = l
  <2>1. StretchesRead(t, p, k, n, a, b, e, s)
    BY StretchTexts
  <2> HIDE DEF a, b, e, s
  <2> QED
    BY <2>1 DEF StretchesRead
<1>3. x = Joined(t, <<p, s>>, b, a)
  BY DEF Swapped
<1>4. IF t[s] = Newline THEN JoinedLong(x, b, a) ELSE JoinedShort(x, b, a)
  <2> DEFINE region == <<p, s>>
  <2>1. region[2] = s
    OBVIOUS
  <2> HIDE DEF region, a, b, s, x
  <2>2. IF t[region[2]] = Newline THEN JoinedLong(Joined(t, region, b, a), b, a)
                                  ELSE JoinedShort(Joined(t, region, b, a), b, a)
    BY <1>1, <1>2, JoinedPlaces
  <2> QED
    BY <1>3, <2>1, <2>2, Zenon DEF region
<1> HIDE DEF a, b, x, s, l
<1>5. /\ x \in Texts
      /\ \A i \in 1 .. n : x[i] = t[p + k + 1 + i]
      /\ x[n + 1] = Newline
      /\ \A i \in 1 .. k : x[n + 1 + i] = t[p + i]
  <2>1. ReadsJoined(x, b, a)
    BY <1>4 DEF JoinedLong, JoinedShort
  <2> QED
    BY <1>2, <2>1 DEF ReadsJoined
<1>6. Len(x) = s - p
  <2> DEFINE z == Len(x)
  <2>1. CASE t[s] = Newline
    <3>1. z = n + 1 + k + 1 /\ s = p + k + n + 2
      BY <1>2, <1>4, <2>1 DEF JoinedLong
    <3> HIDE DEF z
    <3>2. z = s - p
      BY <1>1, <3>1, SMT
    <3> QED
      BY <3>2 DEF z
  <2>2. CASE t[s] # Newline
    <3>1. z = n + 1 + k /\ s = p + k + n + 1
      BY <1>2, <1>4, <2>2 DEF JoinedShort
    <3> HIDE DEF z
    <3>2. z = s - p
      BY <1>1, <3>1, SMT
    <3> QED
      BY <3>2 DEF z
  <2> QED
    BY <2>1, <2>2
<1>7. ReadsReplaced(t, p, s, x, u)
  BY <1>1, <1>2, <1>5, SplicedText DEF l
<1> HIDE DEF u
<1> DEFINE z == Len(x)
<1>8. /\ u \in Texts /\ Len(u) = p + z + (l - s)
      /\ \A i \in 1 .. p : u[i] = t[i]
      /\ \A i \in 1 .. z : u[p + i] = x[i]
      /\ \A i \in 1 .. l - s : u[p + z + i] = t[s + i]
      /\ z = s - p
  BY <1>6, <1>7 DEF ReadsReplaced, l
<1> HIDE DEF z
<1>9. Len(u) = l /\ p + z = s
  BY <1>1, <1>2, <1>8, SMT
<1>10. s >= e /\ z >= n + 1 + k
  BY <1>1, <1>2, <1>8, SMT
<1>11. /\ \A i \in 1 .. n : i \in 1 .. z
       /\ n + 1 \in 1 .. z
       /\ \A i \in 1 .. k : n + 1 + i \in 1 .. z /\ p + n + 1 + i = p + (n + 1 + i)
       /\ p + n + 1 = p + (n + 1)
  BY <1>1, <1>2, <1>8, <1>10, SMT
<1>12. /\ \A i \in 1 .. n : u[p + i] = t[p + k + 1 + i]
       /\ u[p + n + 1] = Newline
       /\ \A i \in 1 .. k : u[p + n + 1 + i] = t[p + i]
  <2>1. \A i \in 1 .. n : u[p + i] = t[p + k + 1 + i]
    <3> TAKE i \in 1 .. n
    <3>1. u[p + i] = x[i] /\ x[i] = t[p + k + 1 + i]
      BY <1>5, <1>8, <1>11
    <3> QED
      BY <3>1, Zenon
  <2>2. u[p + n + 1] = Newline
    <3>1. u[p + (n + 1)] = x[n + 1]
      BY <1>8, <1>11
    <3> QED
      BY <1>5, <1>11, <3>1, Zenon
  <2>3. ASSUME NEW i \in 1 .. k
        PROVE  u[p + n + 1 + i] = t[p + i]
    <3>1. n + 1 + i \in 1 .. z /\ p + n + 1 + i = p + (n + 1 + i)
      BY <1>11
    <3>2. u[p + (n + 1 + i)] = x[n + 1 + i]
      BY <1>8, <3>1
    <3>3. x[n + 1 + i] = t[p + i]
      BY <1>5
    <3> QED
      BY <3>1, <3>2, <3>3, Zenon
  <2> QED
    BY <2>1, <2>2, <2>3
<1>13. ASSUME NEW i \in p + k + n + 2 .. l
       PROVE  u[i] = t[i]
  <2>1. CASE i > s
    <3> DEFINE j == i - s
    <3>1. j \in 1 .. l - s /\ s + j = i
      BY <1>1, <1>2, <2>1, SMT
    <3> HIDE DEF j
    <3>2. u[p + z + j] = t[s + j]
      BY <1>8, <3>1
    <3> QED
      BY <1>9, <3>1, <3>2, Zenon
  <2>2. CASE ~(i > s)
    <3>1. t[s] = Newline
      <4>1. t[s] # Newline => s = l /\ s = p + k + n + 1
        BY <1>2
      <4> QED
        BY <1>1, <1>2, <2>2, <4>1, SMT
    <3>2. s = p + k + n + 2
      BY <1>2, <3>1
    <3>3. i = s
      BY <1>1, <1>2, <2>2, <3>2, SMT
    <3>4. Len(x) = n + 1 + k + 1 /\ x[n + 1 + k + 1] = Newline
      BY <1>2, <1>4, <3>1 DEF JoinedLong
    <3>5. z \in 1 .. z /\ x[z] = Newline
      <4>1. z = n + 1 + k + 1
        BY <3>4 DEF z
      <4>2. z \in 1 .. z
        BY <1>1, <4>1, SMT
      <4> QED
        BY <3>4, <4>1, <4>2
    <3>6. u[p + z] = Newline
      BY <1>8, <3>5
    <3> QED
      BY <1>9, <3>1, <3>3, <3>6
  <2> QED
    BY <2>1, <2>2
<1>14. Swap(t, u, p, k, n)
  BY <1>1, <1>8, <1>9, <1>12, <1>13 DEF Swap, l
<1> QED
  BY <1>5, <1>6, <1>14 DEF u, s, x

(* The plan of Move Lines: the same both ways, so that what was taken once *)
(* is taken again.                                                         *)
RegionPlan(t, v, p, k, n, target) ==
  ReplacePlan(t, v, p, After(t, p + k + n + 1), Swapped(t, p, k, n), target)

LEMMA PairJoined ==
  ASSUME NEW S, NEW a \in S, NEW b \in S
  PROVE  <<a>> \o <<b>> = <<a, b>>
<1>1. <<a>> \in Seq(S) /\ <<b>> \in Seq(S) /\ <<a, b>> \in Seq(S)
  OBVIOUS
<1>2. Len(<<a>>) = 1 /\ Len(<<b>>) = 1 /\ Len(<<a, b>>) = 2
  OBVIOUS
<1>3. <<a>>[1] = a /\ <<b>>[1] = b /\ <<a, b>>[1] = a /\ <<a, b>>[2] = b
  OBVIOUS
<1> DEFINE x == <<a>>
           y == <<b>>
           z == <<a, b>>
           w == x \o y
<1>4. x \in Seq(S) /\ y \in Seq(S) /\ z \in Seq(S) /\ Len(x) = 1 /\ Len(y) = 1 /\ Len(z) = 2
      /\ x[1] = z[1] /\ y[1] = z[2]
  BY <1>1, <1>2, <1>3
<1> HIDE DEF x, y, z
<1>5. w \in Seq(S) /\ Len(w) = 2 /\ w[1] = x[1] /\ w[2] = y[1]
  <2>1. /\ w \in Seq(S) /\ Len(w) = Len(x) + Len(y)
        /\ \A i \in 1 .. Len(x) + Len(y) : w[i] = IF i =< Len(x) THEN x[i] ELSE y[i - Len(x)]
    BY <1>4, ConcatProperties, Zenon
  <2> HIDE DEF w
  <2>2. 1 \in 1 .. 1 + 1 /\ 2 \in 1 .. 1 + 1 /\ 1 =< 1 /\ ~(2 =< 1) /\ 2 - 1 = 1 /\ 1 + 1 = 2
    BY SMT
  <2>3. w[1] = (IF 1 =< 1 THEN x[1] ELSE y[1 - 1]) /\ w[2] = (IF 2 =< 1 THEN x[2] ELSE y[2 - 1])
    BY <1>4, <2>1, <2>2, Zenon
  <2>4. w[1] = x[1] /\ w[2] = y[1]
    BY <2>2, <2>3, Zenon
  <2> QED
    BY <1>4, <2>1, <2>2, <2>4, Zenon
<1> HIDE DEF w
<1>6. \A i \in 1 .. Len(w) : w[i] = z[i]
  <2> TAKE i \in 1 .. Len(w)
  <2>1. i = 1 \/ i = 2
    BY <1>5, SMT
  <2> QED
    BY <1>4, <1>5, <2>1
<1>7. w = z
  BY <1>4, <1>5, <1>6, SeqEqual
<1> QED
  BY <1>7 DEF w, x, y, z

LEMMA PayloadOfTwo ==
  ASSUME NEW x \in Texts \ {<<>>}, NEW y \in Texts \ {<<>>}, NEW o
  PROVE  Payload(DeletingAt(o, x) \o InsertingAt(o, y)) = Len(x) + Len(y)
<1> DEFINE ops == DeletingAt(o, x) \o InsertingAt(o, y)
           d == Deletion(o, x)
           i == Insertion(o, y)
           texts == [j \in DOMAIN ops |-> ops[j].text]
<1>1. DeletingAt(o, x) = <<d>> /\ InsertingAt(o, y) = <<i>>
  BY DEF DeletingAt, InsertingAt
<1>2. d.text = x /\ i.text = y
  BY DEF Deletion, Insertion
<1> HIDE DEF d, i
<1>3. ops = <<d, i>>
  <2>1. <<d>> \o <<i>> = <<d, i>>
    <3>1. d \in {d, i} /\ i \in {d, i}
      OBVIOUS
    <3> QED
      BY <3>1, PairJoined
  <2> QED
    BY <1>1, <2>1, Zenon
<1>4. texts = <<x, y>>
  <2> HIDE DEF ops
  <2>1. DOMAIN ops = 1 .. 2 /\ ops[1] = d /\ ops[2] = i
    BY <1>3
  <2>2. texts = [j \in 1 .. 2 |-> ops[j].text]
    BY <2>1
  <2>3. texts = [j \in 1 .. 2 |-> IF j = 1 THEN x ELSE y]
    BY <1>2, <2>1, <2>2
  <2>4. <<x, y>> = [j \in 1 .. 2 |-> IF j = 1 THEN x ELSE y]
    OBVIOUS
  <2> QED
    BY <2>3, <2>4, Zenon
<1>5. FlattenSeq(<<x, y>>) = x \o y
  <2>1. <<x, y>> = Append(<<x>>, y) /\ <<x>> \in Seq(Texts)
    OBVIOUS
  <2>2. FlattenSeq(<<x>>) = x
    BY FlattenOne DEF Texts
  <2>3. FlattenSeq(Append(<<x>>, y)) = FlattenSeq(<<x>>) \o y
    BY <2>1, FlattenAppend DEF Texts
  <2> QED
    BY <2>1, <2>2, <2>3, Zenon
<1>6. Len(x \o y) = Len(x) + Len(y)
  BY Glue
<1>7. Payload(ops) = Len(FlattenSeq(texts))
  BY DEF Payload
<1> HIDE DEF texts, ops
<1>8. Payload(ops) = Len(x) + Len(y)
  BY <1>4, <1>5, <1>6, <1>7, Zenon
<1> QED
  BY <1>8 DEF ops

LEMMA SplicedItself ==
  ASSUME NEW t \in Texts, NEW p \in Nat, NEW s \in Nat, p =< s, s =< Len(t)
  PROVE  /\ TextInRange(t, p, s) \in Texts /\ Len(TextInRange(t, p, s)) = s - p
         /\ Spliced(t, p, s, TextInRange(t, p, s)) = t
<1> DEFINE x == TextInRange(t, p, s)
           a == SubSeq(t, 1, p)
           b == SubSeq(t, s + 1, Len(t))
<1>1. Len(t) \in Nat /\ p =< Len(t)
  BY SMT DEF Texts
<1>2. x = SubSeq(t, p + 1, s) /\ x \in Texts
  BY RangeThatFits, TextInRangeType
<1>3. Len(SubSeq(t, p + 1, s)) = s - p
  BY <1>1, SMT DEF Texts
<1>4. SplicedReads(t, p, s, x)
  BY <1>2, SplicedIsRead
<1>5. (a \o SubSeq(t, p + 1, s)) \o b = t
  BY Cut
<1> HIDE DEF x
<1>6. Spliced(t, p, s, x) = t
  BY <1>2, <1>4, <1>5, Zenon DEF SplicedReads
<1> QED
  BY <1>2, <1>3, <1>6 DEF x

LEMMA RegionPlanSwaps ==
  ASSUME NEW t, NEW v, NEW p, NEW k, NEW n, Stretches(t, p, k, n), NEW target,
         RegionPlan(t, v, p, k, n, target).final # t
  PROVE  LET plan == RegionPlan(t, v, p, k, n, target)
             long == After(t, p + k + n + 1) - p
         IN  /\ Swap(t, plan.final, p, k, n)
             /\ plan.view = target
             /\ long + long =< MaxPayload
<1> DEFINE e == p + k + n + 1
           s == After(t, e)
           x == Swapped(t, p, k, n)
           y == TextInRange(t, p, s)
           plan == RegionPlan(t, v, p, k, n, target)
           ops == DeletingAt(p, y) \o InsertingAt(p, x)
<1>1. plan = ReplacePlan(t, v, p, s, x, target)
  BY DEF RegionPlan
<1>2. /\ Swap(t, Spliced(t, p, s, x), p, k, n) /\ x \in Texts /\ Len(x) = s - p
  BY SwappedSwaps
<1>3. t \in Texts /\ p \in Nat /\ k \in Nat /\ n \in Nat /\ s \in Nat /\ p =< s /\ s =< Len(t)
      /\ s \in {e, e + 1}
  <2>1. StretchesRead(t, p, k, n, SubSeq(t, p + 1, p + k),
                      SubSeq(t, p + k + 1 + 1, p + k + n + 1), e, s)
    BY StretchTexts
  <2>2. s \in Nat /\ p =< s /\ s =< Len(t)
    BY <2>1 DEF StretchesRead
  <2>3. s \in {e, e + 1}
    BY DEF After
  <2> QED
    BY <2>2, <2>3 DEF Stretches
<1>4. y \in Texts /\ Len(y) = s - p
  BY <1>3, SplicedItself
<1> HIDE DEF plan, x, y, s
<1>5. plan.final = Spliced(t, p, s, x) /\ plan.view = target /\ Payload(ops) =< MaxPayload
  <2>1. ReplacePlan(t, v, p, s, x, target).final # t
    BY <1>1 DEF plan
  <2> DEFINE r == ReplacePlan(t, v, p, s, x, target)
  <2>2. r.final = Spliced(t, p, s, x) /\ r.view = target /\ Payload(ops) =< MaxPayload
    BY <2>1, ReplacePlanChanges DEF y
  <2> HIDE DEF r, ops
  <2>3. plan = r
    BY <1>1 DEF r
  <2> QED
    BY <2>2, <2>3, Zenon
<1>6. s - p > 0 /\ s - p \in Nat
  BY <1>3, SMT
<1>7. x # <<>> /\ y # <<>>
  <2>1. Len(<<>>) = 0
    BY SMT
  <2> QED
    BY <1>2, <1>4, <1>6, <2>1, SMT
<1>8. Payload(ops) = Len(x) + Len(y)
  BY <1>2, <1>4, <1>7, PayloadOfTwo
<1>9. (s - p) + (s - p) =< MaxPayload
  BY <1>2, <1>4, <1>5, <1>8, Zenon
<1> QED
  BY <1>2, <1>5, <1>9, Zenon DEF plan, s

LEMMA RegionPlanBack ==
  ASSUME NEW t, NEW u, NEW v, NEW p, NEW k, NEW n, Stretches(u, p, n, k), NEW target,
         Swap(t, u, p, k, n), t # u, Renderable(t),
         (After(t, p + k + n + 1) - p) + (After(t, p + k + n + 1) - p) =< MaxPayload
  PROVE  /\ RegionPlan(u, v, p, n, k, target).final = t
         /\ RegionPlan(u, v, p, n, k, target).view = target
<1> DEFINE e == p + n + k + 1
           s == After(u, e)
           x == Swapped(u, p, n, k)
           y == TextInRange(u, p, s)
           plan == RegionPlan(u, v, p, n, k, target)
           ops == DeletingAt(p, y) \o InsertingAt(p, x)
           made == [final |-> Spliced(u, p, s, x), ops |-> ops, view |-> target]
<1>1. plan = IF y = x THEN NoChange(u, v) ELSE Accepted(u, v, made)
  BY DEF RegionPlan, ReplacePlan
<1>2. /\ Swap(u, Spliced(u, p, s, x), p, n, k) /\ x \in Texts /\ Len(x) = s - p
  BY SwappedSwaps
<1>3. u \in Texts /\ p \in Nat /\ k \in Nat /\ n \in Nat /\ s \in Nat /\ p =< s /\ s =< Len(u)
      /\ s \in {e, e + 1}
  <2>1. StretchesRead(u, p, n, k, SubSeq(u, p + 1, p + n),
                      SubSeq(u, p + n + 1 + 1, p + n + k + 1), e, s)
    BY StretchTexts
  <2>2. s \in Nat /\ p =< s /\ s =< Len(u)
    BY <2>1 DEF StretchesRead
  <2>3. s \in {e, e + 1}
    BY DEF After
  <2> QED
    BY <2>2, <2>3 DEF Stretches
<1>4. y \in Texts /\ Len(y) = s - p /\ Spliced(u, p, s, y) = u
  BY <1>3, SplicedItself
<1>5. s = After(t, p + k + n + 1)
  <2>1. Len(u) = Len(t)
    BY DEF Swap
  <2>2. e = p + k + n + 1
    BY <1>3, SMT
  <2> QED
    BY <2>1, <2>2, Zenon DEF After
<1> HIDE DEF plan, x, y, s
<1>6. Spliced(u, p, s, x) = t
  <2>1. Swap(u, t, p, n, k)
    BY SwapTurns
  <2> QED
    BY <1>2, <2>1, SwapOnce
<1>7. y # x
  BY <1>4, <1>6, Zenon
<1>8. s - p > 0 /\ s - p \in Nat
  BY <1>3, SMT
<1>9. x # <<>> /\ y # <<>>
  <2>1. Len(<<>>) = 0
    BY SMT
  <2> QED
    BY <1>2, <1>4, <1>8, <2>1, SMT
<1>10. Payload(ops) = Len(x) + Len(y)
  BY <1>2, <1>4, <1>9, PayloadOfTwo
<1>11. Payload(ops) =< MaxPayload
  BY <1>2, <1>4, <1>5, <1>10, Zenon
<1>12. made.final = t /\ made.ops = ops /\ made.view = target
  BY <1>6
<1> HIDE DEF made, ops
<1>13. Accepted(u, v, made) = made
  BY <1>11, <1>12, Zenon DEF Accepted
<1>14. plan = made
  BY <1>1, <1>7, <1>13, Zenon
<1> QED
  BY <1>12, <1>14, Zenon DEF plan

-----------------------------------------------------------------------------
(* A block of whole lines at two places, in two texts as long.             *)

StandsAlone(t, a, n) ==
  /\ a \in LineStarts(t) /\ a + n =< Len(t)
  /\ a + n < Len(t) => t[a + n + 1] = Newline
  /\ a + n = Len(t) => Len(t) # 0 /\ t[Len(t)] # Newline

Moves(t, u, a, b, n) ==
  /\ t \in Texts /\ u \in Texts /\ Len(u) = Len(t)
  /\ a \in Nat /\ b \in Nat /\ n \in Nat
  /\ StandsAlone(t, a, n) /\ StandsAlone(u, b, n)
  /\ \A i \in 1 .. n : u[b + i] = t[a + i]

LEMMA MovesTurn ==
  ASSUME NEW t, NEW u, NEW a, NEW b, NEW n, Moves(t, u, a, b, n)
  PROVE  Moves(u, t, b, a, n)
  BY Zenon DEF Moves

LEMMA LineStartIs ==
  ASSUME NEW t \in Texts, NEW s \in 1 .. Len(t)
  PROVE  s \in LineStarts(t) <=> t[s] = Newline
<1>1. s - 1 \in 0 .. Len(t) - 1 /\ (s - 1) + 1 = s /\ s # 0 /\ s \in Nat
  BY SMT DEF Texts
<1>2. s \in LineStarts(t) => s - 1 \in Breaks(t)
  BY <1>1, BreaksAndStarts
<1>3. s - 1 \in Breaks(t) <=> t[(s - 1) + 1] = Newline
  BY <1>1 DEF Breaks
<1>4. s - 1 \in Breaks(t) => s \in LineStarts(t)
  BY <1>1 DEF LineStarts
<1> QED
  BY <1>1, <1>2, <1>3, <1>4

(* Its lines start at the same places in it, and all are real.             *)
LEMMA LinesStand ==
  ASSUME NEW t \in Texts, NEW a \in Nat, NEW n \in Nat, StandsAlone(t, a, n), NEW i \in 0 .. n
  PROVE  a + i \in RealLines(t) <=> a + i \in LineStarts(t)
<1>1. a \in LineStarts(t) /\ a + n =< Len(t) /\ (a + n = Len(t) => Len(t) # 0 /\ t[Len(t)] # Newline)
  BY DEF StandsAlone
<1>2. Len(t) \in Nat
  BY SMT DEF Texts
<1>3. CASE a + i < Len(t)
  BY <1>3, RealLinesAreLines
<1>4. CASE ~(a + i < Len(t))
  <2>1. a + i = Len(t) /\ a + n = Len(t) /\ Len(t) \in 1 .. Len(t)
    BY <1>1, <1>2, <1>4, SMT
  <2>2. a + i \notin LineStarts(t)
    BY <1>1, <2>1, LineStartIs
  <2> QED
    BY <2>2, RealLinesAreLines
<1> QED
  BY <1>3, <1>4

LEMMA LinesMove ==
  ASSUME NEW t, NEW u, NEW a, NEW b, NEW n, Moves(t, u, a, b, n), NEW i \in 0 .. n,
         a + i \in RealLines(t)
  PROVE  b + i \in RealLines(u)
<1>1. /\ t \in Texts /\ u \in Texts /\ Len(u) = Len(t)
      /\ a \in Nat /\ b \in Nat /\ n \in Nat
      /\ StandsAlone(t, a, n) /\ StandsAlone(u, b, n)
      /\ \A j \in 1 .. n : u[b + j] = t[a + j]
  BY DEF Moves
<1>2. a + n =< Len(t) /\ b + n =< Len(u) /\ b \in LineStarts(u) /\ Len(t) \in Nat
  BY <1>1, BreaksAndStarts DEF StandsAlone
<1>3. b + i \in LineStarts(u)
  <2>1. CASE i = 0
    <3>1. b + i = b
      BY <1>1, <2>1, SMT
    <3> QED
      BY <1>2, <3>1
  <2>2. CASE i # 0
    <3>1. i \in 1 .. n /\ a + i \in 1 .. Len(t) /\ b + i \in 1 .. Len(u)
      BY <1>1, <1>2, <2>2, SMT
    <3>2. a + i \in LineStarts(t)
      BY <1>1, RealLinesAreLines
    <3>3. t[a + i] = Newline
      BY <1>1, <3>1, <3>2, LineStartIs
    <3> QED
      BY <1>1, <3>1, <3>3, LineStartIs
  <2> QED
    BY <2>1, <2>2
<1> QED
  BY <1>1, <1>3, LinesStand

LEMMA LineOfCharMoves ==
  ASSUME NEW t, NEW u, NEW a, NEW b, NEW n, Moves(t, u, a, b, n), NEW i \in 0 .. n
  PROVE  \E j \in 0 .. i : LineOfChar(t, a + i) = a + j /\ LineOfChar(u, b + i) = b + j
<1> DEFINE s == LineOfChar(t, a + i)
           r == LineOfChar(u, b + i)
<1>1. /\ t \in Texts /\ u \in Texts /\ a \in Nat /\ b \in Nat /\ n \in Nat
      /\ StandsAlone(t, a, n) /\ StandsAlone(u, b, n)
  BY DEF Moves
<1>2. a + i \in Nat /\ b + i \in Nat /\ i \in Nat /\ 0 \in 0 .. n /\ a + 0 = a /\ b + 0 = b
      /\ a =< a + i /\ b =< b + i
  BY <1>1, SMT
<1>3. a \in LineStarts(t) /\ b \in LineStarts(u)
  BY <1>1 DEF StandsAlone
<1>4. a \in RealLines(t) /\ b \in RealLines(u)
  <2>1. a + 0 \in RealLines(t) /\ b + 0 \in RealLines(u)
    BY <1>1, <1>2, <1>3, LinesStand
  <2> QED
    BY <1>2, <2>1
<1>5. s \in RealLines(t) /\ s \in Nat /\ s =< a + i /\ \A x \in RealLines(t) : x =< a + i => x =< s
  BY <1>1, <1>2, LineOfCharacter
<1>6. r \in RealLines(u) /\ r \in Nat /\ r =< b + i /\ \A x \in RealLines(u) : x =< b + i => x =< r
  BY <1>1, <1>2, LineOfCharacter
<1> HIDE DEF s, r
<1>7. a =< s /\ b =< r
  BY <1>2, <1>4, <1>5, <1>6
<1> DEFINE j == s - a
           k == r - b
<1>8. /\ j \in 0 .. i /\ k \in 0 .. i /\ a + j = s /\ b + k = r
      /\ j \in 0 .. n /\ k \in 0 .. n
  BY <1>1, <1>2, <1>5, <1>6, <1>7, SMT
<1> HIDE DEF j, k
<1>9. b + j \in RealLines(u)
  BY <1>5, <1>8, LinesMove
<1>10. a + k \in RealLines(t)
  <2>1. Moves(u, t, b, a, n)
    BY MovesTurn
  <2>2. b + k \in RealLines(u)
    BY <1>6, <1>8
  <2> QED
    BY <1>8, <2>1, <2>2, LinesMove
<1>11. b + j =< r
  <2>1. b + j =< b + i
    BY <1>1, <1>2, <1>8, SMT
  <2> QED
    BY <1>6, <1>9, <2>1
<1>12. a + k =< s
  <2>1. a + k =< a + i
    BY <1>1, <1>2, <1>8, SMT
  <2> QED
    BY <1>5, <1>10, <2>1
<1>13. j = k
  BY <1>1, <1>2, <1>8, <1>11, <1>12, SMT
<1> QED
  BY <1>8, <1>13 DEF s, r

LEMMA LineEndIs ==
  ASSUME NEW t \in Texts, NEW s \in Nat, NEW z \in Nat, s =< z, z =< Len(t),
         \A i \in s + 1 .. z : t[i] # Newline, z < Len(t) => t[z + 1] = Newline
  PROVE  LineEnd(t, s) = z
<1> DEFINE e == LineEnd(t, s)
<1>1. /\ e \in 0 .. Len(t) /\ s =< e
      /\ \A i \in Breaks(t) : s =< i => e =< i
      /\ e < Len(t) => e \in Breaks(t)
      /\ Len(t) \in Nat
  <2>1. Len(t) \in Nat /\ s =< Len(t)
    BY SMT DEF Texts
  <2> QED
    BY <2>1, LineEnds
<1> HIDE DEF e
<1>2. e =< z
  <2>1. CASE z < Len(t)
    <3>1. z \in 0 .. Len(t) - 1 /\ t[z + 1] = Newline
      BY <1>1, <2>1, SMT
    <3>2. z \in Breaks(t)
      BY <3>1 DEF Breaks
    <3> QED
      BY <1>1, <3>2
  <2>2. CASE ~(z < Len(t))
    BY <1>1, <2>2, SMT
  <2> QED
    BY <2>1, <2>2
<1>3. ~(e < z)
  <2> SUFFICES ASSUME e < z
               PROVE  FALSE
    OBVIOUS
  <2>1. e < Len(t) /\ e + 1 \in s + 1 .. z
    BY <1>1, SMT
  <2>2. e \in Breaks(t)
    BY <1>1, <2>1
  <2>3. t[e + 1] = Newline
    BY <2>2 DEF Breaks
  <2> QED
    BY <2>1, <2>3
<1>4. e = z
  BY <1>1, <1>2, <1>3, SMT
<1> QED
  BY <1>4 DEF e

(* The last line of the block ends with it.                                *)
LEMMA LineEndMoves ==
  ASSUME NEW t, NEW u, NEW a, NEW b, NEW n, Moves(t, u, a, b, n), NEW j \in 0 .. n,
         LineEnd(t, a + j) = a + n
  PROVE  LineEnd(u, b + j) = b + n
<1>1. /\ t \in Texts /\ u \in Texts /\ Len(u) = Len(t) /\ Len(t) \in Nat
      /\ a \in Nat /\ b \in Nat /\ n \in Nat
      /\ StandsAlone(t, a, n) /\ StandsAlone(u, b, n)
      /\ \A i \in 1 .. n : u[b + i] = t[a + i]
  <2>1. \A x \in Texts : Len(x) \in Nat
    BY SMT DEF Texts
  <2> QED
    BY <2>1 DEF Moves
<1>2. /\ b + j \in Nat /\ b + n \in Nat /\ b + j =< b + n /\ a + j \in Nat
  BY <1>1, SMT
<1>3. b + n =< Len(u) /\ a + n =< Len(t) /\ (b + n < Len(u) => u[b + n + 1] = Newline)
  BY <1>1 DEF StandsAlone
<1>4. ASSUME NEW i \in b + j + 1 .. b + n, u[i] = Newline
      PROVE  FALSE
  <2> DEFINE x == i - b
             o == a + x - 1
  <2>1. x \in 1 .. n /\ b + x = i /\ a + x \in Nat /\ x \in Nat
    BY <1>1, SMT
  <2> HIDE DEF x
  <2>2. t[a + x] = Newline
    BY <1>1, <1>4, <2>1
  <2>3. (a + x) - 1 \in 0 .. Len(t) - 1 /\ ((a + x) - 1) + 1 = a + x /\ a + j =< (a + x) - 1
        /\ ~(a + n =< (a + x) - 1)
    BY <1>1, <1>3, <1>4, <2>1, SMT DEF x
  <2>4. (a + x) - 1 \in Breaks(t)
    BY <2>2, <2>3 DEF Breaks
  <2>5. LineEnd(t, a + j) =< (a + x) - 1
    BY <1>1, <1>2, <2>3, <2>4, LineEnds
  <2> QED
    BY <2>3, <2>5
<1>5. \A i \in (b + j) + 1 .. b + n : u[i] # Newline
  BY <1>4
<1>6. (b + n < Len(u) => u[(b + n) + 1] = Newline)
  BY <1>3
<1> QED
  BY <1>1, <1>2, <1>3, <1>5, <1>6, LineEndIs

-----------------------------------------------------------------------------
(* Two stretches that change places are two blocks that move.              *)

LEMMA StretchesStand ==
  ASSUME NEW t, NEW p, NEW k, NEW n, Stretches(t, p, k, n)
  PROVE  StandsAlone(t, p, k) /\ StandsAlone(t, p + k + 1, n)
<1>1. /\ t \in Texts /\ p \in LineStarts(t) /\ p \in Nat /\ k \in Nat /\ n \in Nat
      /\ p + k + n + 1 =< Len(t) /\ t[p + k + 1] = Newline
      /\ (p + k + n + 1 < Len(t) => t[p + k + n + 1 + 1] = Newline)
      /\ (p + k + n + 1 = Len(t) => t[Len(t)] # Newline)
  BY DEF Stretches
<1>2. Len(t) \in Nat
  BY <1>1, BreaksAndStarts
<1>3. /\ p + k < Len(t) /\ p + k =< Len(t) /\ p + k # Len(t)
      /\ p + k + 1 \in 1 .. Len(t) /\ (p + k + 1) + n = p + k + n + 1
      /\ Len(t) # 0
  BY <1>1, <1>2, SMT
<1>4. StandsAlone(t, p, k)
  BY <1>1, <1>3 DEF StandsAlone
<1>5. p + k + 1 \in LineStarts(t)
  BY <1>1, <1>3, LineStartIs
<1>6. StandsAlone(t, p + k + 1, n)
  BY <1>1, <1>3, <1>5 DEF StandsAlone
<1> QED
  BY <1>4, <1>6

LEMMA SwapStretches ==
  ASSUME NEW t, NEW u, NEW p, NEW k, NEW n, Stretches(t, p, k, n), Swap(t, u, p, k, n),
         p + k + n + 1 = Len(t) => u[Len(u)] # Newline
  PROVE  Stretches(u, p, n, k)
<1>1. /\ t \in Texts /\ p \in LineStarts(t) /\ p \in Nat /\ k \in Nat /\ n \in Nat
      /\ p + k + n + 1 =< Len(t)
      /\ (p + k + n + 1 < Len(t) => t[p + k + n + 1 + 1] = Newline)
  BY DEF Stretches
<1>2. /\ u \in Texts /\ Len(u) = Len(t) /\ u[p + n + 1] = Newline
      /\ \A i \in 1 .. p : u[i] = t[i]
      /\ \A i \in p + k + n + 2 .. Len(t) : u[i] = t[i]
  BY DEF Swap
<1>3. Len(t) \in Nat
  BY <1>1, BreaksAndStarts
<1>4. p \in LineStarts(u)
  <2>1. CASE p = 0
    BY <1>2, <2>1, BreaksAndStarts
  <2>2. CASE p # 0
    <3>1. p \in 1 .. Len(t) /\ p \in 1 .. p /\ p \in 1 .. Len(u)
      BY <1>1, <1>2, <1>3, <2>2, SMT
    <3>2. t[p] = Newline
      BY <1>1, <3>1, LineStartIs
    <3> QED
      BY <1>2, <3>1, <3>2, LineStartIs
  <2> QED
    BY <2>1, <2>2
<1>5. p + n + k + 1 = p + k + n + 1 /\ p + n + k + 1 =< Len(u)
  BY <1>1, <1>2, SMT
<1>6. p + k + n + 1 < Len(t) => u[p + k + n + 1 + 1] = Newline
  <2> SUFFICES ASSUME p + k + n + 1 < Len(t)
               PROVE  u[p + k + n + 1 + 1] = Newline
    OBVIOUS
  <2>1. p + k + n + 1 + 1 \in p + k + n + 2 .. Len(t)
    BY <1>1, <1>3, SMT
  <2> QED
    BY <1>1, <1>2, <2>1
<1> QED
  BY <1>1, <1>2, <1>4, <1>5, <1>6, Zenon DEF Stretches

LEMMA SwapMoves ==
  ASSUME NEW t, NEW u, NEW p, NEW k, NEW n, Stretches(t, p, k, n), Swap(t, u, p, k, n),
         Stretches(u, p, n, k)
  PROVE  Moves(t, u, p, p + n + 1, k) /\ Moves(t, u, p + k + 1, p, n)
<1>1. /\ t \in Texts /\ u \in Texts /\ Len(u) = Len(t)
      /\ p \in Nat /\ k \in Nat /\ n \in Nat
      /\ \A i \in 1 .. n : u[p + i] = t[p + k + 1 + i]
      /\ \A i \in 1 .. k : u[p + n + 1 + i] = t[p + i]
  BY DEF Swap
<1>2. p + n + 1 \in Nat /\ p + k + 1 \in Nat
  BY <1>1, SMT
<1>3. /\ StandsAlone(t, p, k) /\ StandsAlone(t, p + k + 1, n)
      /\ StandsAlone(u, p, n) /\ StandsAlone(u, p + n + 1, k)
  BY StretchesStand
<1>4. Moves(t, u, p, p + n + 1, k)
  BY <1>1, <1>2, <1>3, Zenon DEF Moves
<1>5. Moves(t, u, p + k + 1, p, n)
  BY <1>1, <1>2, <1>3, Zenon DEF Moves
<1> QED
  BY <1>4, <1>5

-----------------------------------------------------------------------------
(* The lines of the view move with it.                                     *)

LEMMA LineSpan ==
  ASSUME NEW t \in Texts, NEW s \in RealLines(t), NEW o \in Nat, s =< o, o =< LineEnd(t, s)
  PROVE  LineOfChar(t, o) = s
<1> DEFINE r == LineOfChar(t, o)
<1>1. s \in LineStarts(t) /\ s \in Nat
  BY RealLinesAreLines
<1>2. \A x \in LineStarts(t) : s < x => LineEnd(t, s) + 1 =< x
  BY <1>1, LinesInOrder
<1>3. LineEnd(t, s) \in Nat
  BY <1>1, LinesInOrder
<1>4. r \in RealLines(t) /\ r \in Nat /\ r =< o /\ s =< r
  BY LineOfCharacter
<1>5. r \in LineStarts(t)
  BY <1>4, RealLinesAreLines
<1> HIDE DEF r
<1>6. ~(s < r)
  <2> SUFFICES ASSUME s < r
               PROVE  FALSE
    OBVIOUS
  <2>1. LineEnd(t, s) + 1 =< r
    BY <1>2, <1>5
  <2> QED
    BY <1>3, <1>4, <2>1, SMT
<1>7. r = s
  BY <1>1, <1>4, <1>6, SMT
<1> QED
  BY <1>7 DEF r

LEMMA WithinItsLine ==
  ASSUME NEW t \in Texts, NEW o \in Nat, o =< Len(t), ~BehindFinalBreak(t, o)
  PROVE  LineOfChar(t, o) =< o /\ o =< LineEnd(t, LineOfChar(t, o))
<1>1. LineOfChar(t, o) = LineStart(t, o)
  BY RealLineOfCaret
<1>2. LineEnd(t, LineStart(t, o)) = LineEnd(t, o)
  BY SameLineEnd
<1>3. o =< LineEnd(t, o)
  BY LineEnds
<1>4. LineOfChar(t, o) =< o
  BY LineOfCharacter
<1> QED
  BY <1>1, <1>2, <1>3, <1>4, Zenon

LEMMA EndsOf ==
  ASSUME NEW w, NEW x \in Nat, NEW y \in Nat, x =< y,
         (w.ins = x /\ w.bound = y) \/ (w.ins = y /\ w.bound = x)
  PROVE  Low(w) = x /\ High(w) = y /\ (HasSelection(w) <=> x < y)
<1> DEFINE S == {w.ins, w.bound}
<1>1. S = {x, y}
  OBVIOUS
<1>2. HasSelection(w) <=> x < y
  BY SMT DEF HasSelection
<1> HIDE DEF S
<1>3. S \in SUBSET Nat /\ S # {} /\ S \in SUBSET (0 .. y) /\ x \in S /\ y \in S
  BY <1>1, SMT
<1>4. Min(S) \in S /\ Min(S) \in Nat /\ \A z \in S : Min(S) =< z
  BY <1>3, LeastOf
<1>5. Max(S) \in S /\ \A z \in S : z =< Max(S)
  BY <1>3, GreatestOf
<1>6. Min(S) = x
  BY <1>1, <1>3, <1>4, SMT
<1>7. Max(S) = y
  BY <1>1, <1>3, <1>5, SMT
<1> QED
  BY <1>2, <1>6, <1>7 DEF Low, High, S

(* What the lines of a view are, as soon as its ends are known.            *)
ScopedBy(t, w, x, y) ==
  /\ w \in ViewsOf(t)
  /\ x < y => Scope(t, w) = <<LineOfChar(t, x), LineOfChar(t, y - 1)>>
  /\ x = y /\ ~BehindFinalBreak(t, x) => Scope(t, w) = <<LineOfChar(t, x), LineOfChar(t, x)>>
  /\ x = y => w = Caret(x)

LEMMA ScopeOfEnds ==
  ASSUME NEW t \in Texts, NEW w, NEW x \in Nat, NEW y \in Nat, x =< y, y =< Len(t),
         w = [ins |-> w.ins, bound |-> w.bound],
         (w.ins = x /\ w.bound = y) \/ (w.ins = y /\ w.bound = x)
  PROVE  ScopedBy(t, w, x, y)
<1>1. Low(w) = x /\ High(w) = y /\ (HasSelection(w) <=> x < y)
  BY EndsOf
<1>2. w \in ViewsOf(t)
  <2>1. w.ins \in 0 .. Len(t) /\ w.bound \in 0 .. Len(t)
    <3>1. Len(t) \in Nat
      BY BreaksAndStarts
    <3> QED
      BY <3>1, SMT
  <2> QED
    BY <2>1, Zenon DEF ViewsOf
<1>3. ASSUME x < y
      PROVE  Scope(t, w) = <<LineOfChar(t, x), LineOfChar(t, y - 1)>>
  BY <1>1, <1>3, Zenon DEF Scope
<1>4. ASSUME x = y
      PROVE  ~HasSelection(w) /\ w.ins = x /\ w.bound = x
  BY <1>1, <1>4
<1>5. ASSUME x = y, ~BehindFinalBreak(t, x)
      PROVE  Scope(t, w) = <<LineOfChar(t, x), LineOfChar(t, x)>>
  BY <1>4, <1>5, Zenon DEF Scope
<1>6. ASSUME x = y
      PROVE  w = Caret(x)
  BY <1>4, <1>6, Zenon DEF Caret
<1> QED
  BY <1>2, <1>3, <1>5, <1>6 DEF ScopedBy

GoesAlong(t, u, a, b, v, w) ==
  /\ w \in ViewsOf(u)
  /\ Scope(u, w) = <<b, b + (Scope(t, v)[2] - a)>>
  /\ ~HasSelection(v) => w = Caret(v.ins + (b - a))

LEMMA LineMovesAlong ==
  ASSUME NEW t, NEW u, NEW a, NEW b, NEW n, Moves(t, u, a, b, n), NEW i \in 0 .. n,
         NEW c, LineOfChar(t, a + i) = c
  PROVE  LineOfChar(u, b + i) = b + (c - a)
<1>1. PICK j \in 0 .. i : LineOfChar(t, a + i) = a + j /\ LineOfChar(u, b + i) = b + j
  BY LineOfCharMoves
<1>2. a \in Nat /\ b \in Nat /\ n \in Nat
  BY DEF Moves
<1>3. c = a + j /\ j \in Nat
  BY <1>1, <1>2, SMT
<1>4. c - a = j
  BY <1>2, <1>3, SMT
<1> QED
  BY <1>1, <1>4

LEMMA NotBehindMoved ==
  ASSUME NEW t, NEW u, NEW a, NEW b, NEW n, Moves(t, u, a, b, n), NEW i \in 0 .. n
  PROVE  ~BehindFinalBreak(u, b + i)
<1>1. /\ u \in Texts /\ b \in Nat /\ n \in Nat /\ StandsAlone(u, b, n)
  BY DEF Moves
<1>2. /\ b + n =< Len(u) /\ (b + n = Len(u) => Len(u) # 0 /\ u[Len(u)] # Newline)
  BY <1>1 DEF StandsAlone
<1>3. Last(u) = u[Len(u)] /\ Len(u) \in Nat
  <2>1. Last(u) = u[Len(u)]
    BY DEF Last
  <2> QED
    BY <1>1, <2>1, BreaksAndStarts
<1>4. b + i = Len(u) => b + n = Len(u)
  BY <1>1, <1>2, <1>3, SMT
<1> QED
  BY <1>2, <1>3, <1>4, Zenon DEF BehindFinalBreak

LEMMA CaretMoves ==
  ASSUME NEW t, NEW u, NEW a, NEW b, NEW n, Moves(t, u, a, b, n), NEW v \in ViewsOf(t),
         Scope(t, v) # NoScope, Scope(t, v)[1] = a, LineEnd(t, Scope(t, v)[2]) = a + n,
         NEW shift \in Int, a + shift = b, ~HasSelection(v), NEW end
  PROVE  GoesAlong(t, u, a, b, v, MovedView(t, v, Scope(t, v), shift, end))
<1> DEFINE block == Scope(t, v)
           w == MovedView(t, v, block, shift, end)
           o == v.ins
           i == v.ins - a
<1>1. /\ t \in Texts /\ u \in Texts /\ Len(u) = Len(t) /\ a \in Nat /\ b \in Nat /\ n \in Nat
      /\ b + n =< Len(u) /\ Len(u) \in Nat
  <2>1. \A x \in Texts : Len(x) \in Nat
    BY BreaksAndStarts
  <2> QED
    BY <2>1 DEF Moves, StandsAlone
<1>2. ~BehindFinalBreak(t, o) /\ block = <<LineOfChar(t, o), LineOfChar(t, o)>>
  BY DEF Scope
<1>3. LineOfChar(t, o) = a /\ block[1] = a /\ block[2] = a
  BY <1>2
<1>4. o \in Nat /\ o =< Len(t) /\ v.bound = o
  BY <1>1, SelectionEnds DEF HasSelection
<1>5. a =< o /\ o =< a + n
  BY <1>1, <1>2, <1>3, <1>4, WithinItsLine
<1>6. i \in 0 .. n /\ a + i = o /\ b + i \in Nat /\ b + i =< Len(u) /\ o + shift = b + i
      /\ o + (b - a) = b + i /\ b + (a - a) = b
  <2> HIDE DEF o
  <2>1. i = o - a
    BY DEF o
  <2> HIDE DEF i
  <2>2. i \in 0 .. n /\ a + i = o
    BY <1>1, <1>4, <1>5, <2>1, SMT
  <2>3. b + i \in Nat /\ b + i =< Len(u)
    BY <1>1, <2>2, SMT
  <2>4. o + shift = b + i /\ o + (b - a) = b + i /\ b + (a - a) = b
    BY <1>1, <1>4, <2>2, SMT
  <2> QED
    BY <2>2, <2>3, <2>4
<1>7. MovedTo(t, o, v, block, shift, end) = o + shift
  <2>1. block[1] =< o /\ o =< LineEnd(t, block[2])
    BY <1>3, <1>5
  <2> QED
    BY <2>1, Zenon DEF MovedTo
<1>8. w = [ins |-> b + i, bound |-> b + i]
  BY <1>4, <1>6, <1>7, Zenon DEF MovedView
<1> HIDE DEF w, i
<1>9. w = [ins |-> w.ins, bound |-> w.bound] /\ w.ins = b + i /\ w.bound = b + i
  BY <1>8
<1>10. b + i =< b + i
  BY <1>6
<1>11. ~BehindFinalBreak(u, b + i)
  BY <1>6, NotBehindMoved
<1>12. /\ w \in ViewsOf(u)
       /\ Scope(u, w) = <<LineOfChar(u, b + i), LineOfChar(u, b + i)>>
       /\ w = Caret(b + i)
  <2>2. b + i \in Nat /\ b + i =< Len(u)
    BY <1>6
  <2> DEFINE z == b + i
  <2> HIDE DEF z
  <2>3. z \in Nat /\ z =< Len(u) /\ z =< z /\ w.ins = z /\ w.bound = z /\ z = z
    BY <1>9, <1>10, <2>2 DEF z
  <2>4. ScopedBy(u, w, z, z)
    BY <1>1, <1>9, <2>3, ScopeOfEnds
  <2> QED
    BY <1>11, <2>4, Zenon DEF z, ScopedBy
<1>13. LineOfChar(u, b + i) = b + (a - a)
  BY <1>3, <1>6, LineMovesAlong
<1>14. GoesAlong(t, u, a, b, v, w)
  <2>1. block[2] - a = a - a
    BY <1>3
  <2>2. LineOfChar(u, b + i) = b
    BY <1>6, <1>13
  <2>3. b + (block[2] - a) = b
    BY <1>6, <2>1
  <2>4. Scope(u, w) = <<b, b>>
    BY <1>12, <2>2
  <2> QED
    BY <1>6, <1>12, <2>3, <2>4, Zenon DEF GoesAlong
<1> QED
  BY <1>14 DEF w

(* The ends of a selection of moved lines: the upper one is in them, the   *)
(* lower one in them or behind their last line break.                      *)
LEMMA SelectionInLines ==
  ASSUME NEW t \in Texts, NEW v \in ViewsOf(t), HasSelection(v), NEW a, NEW c, NEW z \in Nat,
         Scope(t, v) = <<a, c>>, LineEnd(t, c) = z, z =< Len(t)
  PROVE  /\ LineOfChar(t, Low(v)) = a /\ LineOfChar(t, High(v) - 1) = c
         /\ a =< Low(v) /\ Low(v) < High(v) /\ c =< High(v) - 1 /\ c =< z
         /\ c \in RealLines(t)
         /\ High(v) - 1 =< z /\ FullEnd(t, c) = After(t, z)
         /\ High(v) =< FullEnd(t, c)
<1>1. /\ Low(v) \in Nat /\ High(v) \in Nat /\ Low(v) < High(v) /\ High(v) =< Len(t)
  BY SelectionEnds
<1>2. LineOfChar(t, Low(v)) = a /\ LineOfChar(t, High(v) - 1) = c
  <2>1. Scope(t, v) = <<LineOfChar(t, Low(v)), LineOfChar(t, High(v) - 1)>>
    BY DEF Scope
  <2> QED
    BY <2>1
<1>3. Len(t) \in Nat /\ High(v) - 1 \in Nat /\ High(v) - 1 =< Len(t) /\ High(v) - 1 # Len(t)
  <2>1. Len(t) \in Nat
    BY BreaksAndStarts
  <2> QED
    BY <1>1, <2>1, SMT
<1>4. ~BehindFinalBreak(t, High(v) - 1)
  BY <1>3 DEF BehindFinalBreak
<1>5. c =< High(v) - 1 /\ High(v) - 1 =< z
  BY <1>2, <1>3, <1>4, WithinItsLine
<1>6. a =< Low(v)
  BY <1>1, <1>2, LineOfCharacter
<1>7. c \in RealLines(t) /\ c \in Nat
  BY <1>2, <1>3, LineOfCharacter
<1>8. c =< z /\ FullEnd(t, c) = After(t, z)
  <2>1. FullEnd(t, c) = IF z < Len(t) THEN z + 1 ELSE z
    BY <1>7, LinesInOrder, RealLinesAreLines
  <2>2. c =< z
    BY <1>3, <1>5, <1>7, SMT
  <2> QED
    BY <2>1, <2>2 DEF After
<1>9. High(v) =< FullEnd(t, c)
  <2>1. FullEnd(t, c) = IF z < Len(t) THEN z + 1 ELSE z
    BY <1>8 DEF After
  <2>2. z < Len(t) \/ z = Len(t)
    BY <1>3, SMT
  <2> QED
    BY <1>1, <1>3, <1>5, <2>1, <2>2, SMT
<1> QED
  BY <1>1, <1>2, <1>5, <1>6, <1>7, <1>8, <1>9

(* Where the last line of the lines reaches.                               *)
LEMMA LastLineReaches ==
  ASSUME NEW t, NEW u, NEW a, NEW b, NEW n, Moves(t, u, a, b, n), NEW c \in RealLines(t),
         a =< c, LineEnd(t, c) = a + n, NEW i \in 0 .. n, c =< a + i
  PROVE  LineOfChar(u, b + i) = b + (c - a)
<1>1. t \in Texts /\ a \in Nat /\ n \in Nat
  BY DEF Moves
<1>2. a + i \in Nat /\ a + i =< a + n
  BY <1>1, SMT
<1>3. LineOfChar(t, a + i) = c
  BY <1>1, <1>2, LineSpan
<1> QED
  BY <1>3, LineMovesAlong

LEMMA SelectionMoves ==
  ASSUME NEW t, NEW u, NEW a, NEW b, NEW n, Moves(t, u, a, b, n), NEW v \in ViewsOf(t),
         Scope(t, v) # NoScope, Scope(t, v)[1] = a, LineEnd(t, Scope(t, v)[2]) = a + n,
         NEW shift \in Int, a + shift = b, HasSelection(v)
  PROVE  GoesAlong(t, u, a, b, v, MovedView(t, v, Scope(t, v), shift, After(u, b + n)))
<1> DEFINE block == Scope(t, v)
           c == Scope(t, v)[2]
           w == MovedView(t, v, block, shift, After(u, b + n))
           M(o) == MovedTo(t, o, v, block, shift, After(u, b + n))
           x == Low(v)
           y == High(v)
           i == x - a
           j == y - 1 - a
<1>1. /\ t \in Texts /\ u \in Texts /\ Len(u) = Len(t) /\ a \in Nat /\ b \in Nat /\ n \in Nat
      /\ a + n =< Len(t) /\ b + n =< Len(u) /\ Len(t) \in Nat /\ Len(u) \in Nat /\ a + n \in Nat
  <2>1. \A z \in Texts : Len(z) \in Nat
    BY BreaksAndStarts
  <2>2. t \in Texts /\ u \in Texts /\ Len(u) = Len(t) /\ a \in Nat /\ b \in Nat /\ n \in Nat
        /\ a + n =< Len(t) /\ b + n =< Len(u)
    BY DEF Moves, StandsAlone
  <2> QED
    BY <2>1, <2>2, SMT
<1>2. block = <<a, c>> /\ c \in Nat /\ a =< c
  BY <1>1, ScopeIsLines
<1>3. LineEnd(t, c) = a + n
  OBVIOUS
<1>4. /\ LineOfChar(t, x) = a /\ LineOfChar(t, y - 1) = c
      /\ a =< x /\ x < y /\ c =< y - 1 /\ c =< a + n
      /\ c \in RealLines(t)
      /\ y - 1 =< a + n /\ FullEnd(t, c) = After(t, a + n)
      /\ y =< FullEnd(t, c)
  BY <1>1, <1>2, <1>3, SelectionInLines
<1>5. /\ x \in Nat /\ y \in Nat /\ y =< Len(t)
      /\ (x = v.ins /\ y = v.bound) \/ (x = v.bound /\ y = v.ins)
  BY <1>1, SelectionEnds
<1>6. block[1] = a /\ block[2] = c
  BY <1>2
<1>7. M(x) = x + shift
  <2>1. x # FullEnd(t, block[2])
    <3>1. FullEnd(t, c) = After(t, a + n) /\ After(t, a + n) \in Nat
      BY <1>1, <1>4 DEF After
    <3> HIDE DEF x, y, c
    <3> QED
      BY <1>4, <1>5, <1>6, <3>1, SMT
  <2>2. x =< a + n
    <3> HIDE DEF x, y
    <3> QED
      BY <1>1, <1>4, <1>5, SMT
  <2>3. block[1] =< x /\ x =< LineEnd(t, block[2])
    BY <1>3, <1>4, <1>6, <2>2
  <2> QED
    BY <2>1, <2>3, Zenon DEF MovedTo
<1>8. y = FullEnd(t, c) => M(y) = After(u, b + n)
  BY <1>6, Zenon DEF MovedTo
<1>9. y # FullEnd(t, c) => M(y) = y + shift /\ y =< a + n
  <2> SUFFICES ASSUME y # FullEnd(t, c)
               PROVE  M(y) = y + shift /\ y =< a + n
    OBVIOUS
  <2>1. y =< a + n
    <3>1. FullEnd(t, c) = IF a + n < Len(t) THEN a + n + 1 ELSE a + n
      BY <1>4 DEF After
    <3> HIDE DEF x, y, c
    <3> QED
      BY <1>1, <1>4, <1>5, <3>1, SMT
  <2>2. a =< y
    <3> HIDE DEF x, y
    <3> QED
      BY <1>1, <1>4, <1>5, SMT
  <2>3. block[1] =< y /\ y =< LineEnd(t, block[2])
    BY <1>3, <1>6, <2>1, <2>2
  <2>4. M(y) = y + shift
    BY <1>6, <2>3, Zenon DEF MovedTo
  <2> QED
    BY <2>1, <2>4
<1>10. /\ i \in 0 .. n /\ j \in 0 .. n /\ i =< j /\ a + i = x /\ a + j = y - 1 /\ y = a + j + 1
       /\ x + shift = b + i /\ y + shift = b + j + 1
  <2> HIDE DEF x, y
  <2> QED
    BY <1>1, <1>4, <1>5, SMT
<1>11. w = [ins |-> M(v.ins), bound |-> M(v.bound)]
  BY Zenon DEF MovedView
<1>12. (w.ins = M(x) /\ w.bound = M(y)) \/ (w.ins = M(y) /\ w.bound = M(x))
  <2>1. w.ins = M(v.ins) /\ w.bound = M(v.bound)
    BY <1>11
  <2>2. CASE x = v.ins /\ y = v.bound
    BY <2>1, <2>2, Zenon
  <2>3. CASE x = v.bound /\ y = v.ins
    BY <2>1, <2>3, Zenon
  <2> QED
    BY <1>5, <2>2, <2>3
<1>13. w = [ins |-> w.ins, bound |-> w.bound]
  BY <1>11
<1> DEFINE p == M(x)
           q == M(y)
<1>14. p = b + i /\ (y = FullEnd(t, c) => q = After(u, b + n)) /\ (y # FullEnd(t, c) => q = b + j + 1 /\ j + 1 =< n)
  <2>1. y # FullEnd(t, c) => j + 1 =< n
    <3> HIDE DEF x, y, j, c, M
    <3> QED
      BY <1>1, <1>9, <1>10, SMT
  <2> QED
    BY <1>7, <1>8, <1>9, <1>10, <2>1, Zenon
<1>15. LineOfChar(t, a + i) = a /\ LineOfChar(t, a + j) = c
  BY <1>4, <1>10
<1>16. LineOfChar(u, b + i) = b
  <2>1. LineOfChar(u, b + i) = b + (a - a)
    BY <1>10, <1>15, LineMovesAlong
  <2> QED
    BY <1>1, <2>1, SMT
<1>17. ASSUME NEW k \in 0 .. n, c =< a + k
       PROVE  LineOfChar(u, b + k) = b + (c - a)
  BY <1>2, <1>3, <1>4, <1>17, LastLineReaches
<1>18. HasSelection(v)
  OBVIOUS
<1>19. ASSUME NEW k \in 0 .. n, c =< a + k, i =< k, q = b + k + 1, b + k + 1 =< Len(u)
       PROVE  w \in ViewsOf(u) /\ Scope(u, w) = <<b, b + (c - a)>>
  <2> HIDE DEF w, i, j, x, y, M, c
  <2>1. p \in Nat /\ q \in Nat /\ p =< q /\ q =< Len(u) /\ p < q /\ q - 1 = b + k
    BY <1>1, <1>10, <1>14, <1>19, SMT
  <2>2. (w.ins = p /\ w.bound = q) \/ (w.ins = q /\ w.bound = p)
    BY <1>12
  <2> HIDE DEF p, q
  <2>3. w \in ViewsOf(u) /\ Scope(u, w) = <<LineOfChar(u, p), LineOfChar(u, q - 1)>>
    <3>1. u \in Texts /\ p \in Nat /\ q \in Nat /\ p =< q /\ q =< Len(u) /\ p < q
      BY <1>1, <2>1
    <3>2. ScopedBy(u, w, p, q)
      BY <1>13, <2>2, <3>1, ScopeOfEnds
    <3> QED
      BY <3>1, <3>2, Zenon DEF ScopedBy
  <2>4. LineOfChar(u, q - 1) = b + (c - a)
    BY <1>17, <1>19, <2>1
  <2>5. LineOfChar(u, p) = b
    BY <1>14, <1>16
  <2> QED
    BY <2>3, <2>4, <2>5
<1>20. ASSUME p = b + n, q = b + n
       PROVE  w \in ViewsOf(u) /\ Scope(u, w) = <<b, b + (c - a)>>
  <2> HIDE DEF w, i, j, x, y, M, c
  <2>1. i = n /\ n \in 0 .. n
    BY <1>1, <1>10, <1>14, <1>20, SMT
  <2>2. p \in Nat /\ p =< Len(u) /\ p = q /\ p =< p /\ p = b + n
    BY <1>1, <1>20, SMT
  <2>3. w.ins = p /\ w.bound = p
    BY <1>12, <2>2
  <2>4. ~BehindFinalBreak(u, p)
    BY <2>1, <2>2, NotBehindMoved
  <2>5. LineOfChar(u, p) = b
    BY <1>16, <2>1, <2>2
  <2>6. LineOfChar(u, p) = b + (c - a)
    BY <1>4, <1>17, <2>1, <2>2
  <2> HIDE DEF p, q
  <2>7. w \in ViewsOf(u) /\ Scope(u, w) = <<LineOfChar(u, p), LineOfChar(u, p)>>
    <3>1. u \in Texts /\ p \in Nat /\ p =< p /\ p =< Len(u)
      BY <1>1, <2>2
    <3>2. ScopedBy(u, w, p, p)
      BY <1>13, <2>3, <3>1, ScopeOfEnds
    <3> QED
      BY <2>4, <3>2, Zenon DEF ScopedBy
  <2> QED
    BY <2>5, <2>6, <2>7
<1>21. w \in ViewsOf(u) /\ Scope(u, w) = <<b, b + (c - a)>>
  <2>1. CASE y # FullEnd(t, c)
    <3> HIDE DEF w, i, j, x, y, M, c, p, q
    <3>1. q = b + j + 1 /\ j + 1 =< n
      BY <1>14, <2>1
    <3>2. b + j + 1 =< Len(u)
      BY <1>1, <1>10, <3>1, SMT
    <3>3. c =< a + j
      BY <1>4, <1>10
    <3> QED
      BY <1>10, <1>19, <3>1, <3>2, <3>3
  <2>2. CASE y = FullEnd(t, c) /\ b + n < Len(u)
    <3> HIDE DEF w, i, j, x, y, M, c, p, q
    <3>1. q = b + n + 1
      BY <1>14, <2>2 DEF After
    <3>2. b + n + 1 =< Len(u) /\ n \in 0 .. n /\ i =< n
      BY <1>1, <1>10, <2>2, SMT
    <3> QED
      BY <1>4, <1>19, <3>1, <3>2
  <2>3. CASE y = FullEnd(t, c) /\ ~(b + n < Len(u)) /\ i = n
    <3> HIDE DEF w, i, j, x, y, M, c, p, q
    <3>1. q = b + n /\ p = b + n
      BY <1>14, <2>3 DEF After
    <3> QED
      BY <1>20, <3>1
  <2>4. CASE y = FullEnd(t, c) /\ ~(b + n < Len(u)) /\ i # n
    <3> HIDE DEF w, i, j, x, y, M, c, p, q
    <3>1. q = b + n
      BY <1>14, <2>4 DEF After
    <3>2. n - 1 \in 0 .. n /\ i =< n - 1 /\ b + (n - 1) + 1 = b + n /\ b + n = Len(u) /\ n \in 0 .. n
          /\ b + n # 0
      BY <1>1, <1>10, <2>4, SMT
    <3>3. c # a + n
      <4> SUFFICES ASSUME c = a + n
                   PROVE  FALSE
        OBVIOUS
      <4>1. b + n \in RealLines(u)
        BY <1>4, <3>2, LinesMove
      <4>2. b + n = 0 \/ b + n < Len(u)
        BY <1>1, <4>1, RealLinesAreLines
      <4> QED
        BY <2>4, <3>2, <4>2
    <3>4. c =< a + (n - 1)
      BY <1>1, <1>2, <1>4, <3>3, SMT
    <3> QED
      BY <1>1, <1>19, <3>1, <3>2, <3>4
  <2> QED
    BY <2>1, <2>2, <2>3, <2>4
<1>22. GoesAlong(t, u, a, b, v, w)
  BY <1>18, <1>21, Zenon DEF GoesAlong
<1> QED
  BY <1>22 DEF w

(* Where the moved lines are, there the opposite command finds them.       *)
LEMMA ScopeMoves ==
  ASSUME NEW t, NEW u, NEW a, NEW b, NEW n, Moves(t, u, a, b, n), NEW v \in ViewsOf(t),
         Scope(t, v) # NoScope, Scope(t, v)[1] = a, LineEnd(t, Scope(t, v)[2]) = a + n,
         NEW shift \in Int, a + shift = b
  PROVE  GoesAlong(t, u, a, b, v, MovedView(t, v, Scope(t, v), shift, After(u, b + n)))
  BY CaretMoves, SelectionMoves

-----------------------------------------------------------------------------
(* Move Lines is a swap of two stretches: of the lines and the line above, *)
(* or of the lines and the line below.                                     *)

IsUp(t, v, p, k, n) ==
  /\ Stretches(t, p, k, n) /\ Scope(t, v) # NoScope
  /\ LineEnd(t, p) = p + k
  /\ Scope(t, v)[1] = p + k + 1 /\ LineEnd(t, Scope(t, v)[2]) = p + k + 1 + n

IsDown(t, v, p, k, n) ==
  /\ Stretches(t, p, k, n) /\ Scope(t, v) # NoScope
  /\ LineEnd(t, p + k + 1) = p + k + 1 + n
  /\ Scope(t, v)[1] = p /\ LineEnd(t, Scope(t, v)[2]) = p + k

Moved(t, v, shift, blockEnd) == MovedView(t, v, Scope(t, v), shift, blockEnd)

LEMMA UpIsRegionPlan ==
  ASSUME NEW t, NEW v \in ViewsOf(t), NEW p, NEW k, NEW n, IsUp(t, v, p, k, n)
  PROVE  MoveUp(t, v) = RegionPlan(t, v, p, k, n, Moved(t, v, p - (p + k + 1), p + n + 1))
<1> DEFINE block == Scope(t, v)
           S == {s \in RealLines(t) : s < block[1]}
           target == Moved(t, v, p - (p + k + 1), p + n + 1)
<1>1. /\ t \in Texts /\ p \in LineStarts(t) /\ p \in Nat /\ k \in Nat /\ n \in Nat
      /\ p + k + n + 1 =< Len(t)
      /\ Scope(t, v) # NoScope /\ LineEnd(t, p) = p + k
      /\ block[1] = p + k + 1 /\ LineEnd(t, block[2]) = p + k + 1 + n
  BY DEF IsUp, Stretches
<1>2. Len(t) \in Nat
  BY <1>1, BreaksAndStarts
<1>3. /\ p < p + k + 1 /\ p < Len(t) /\ p + k + 1 + n = p + k + n + 1 /\ p + k + 1 \in Nat
      /\ (p + k + 1 + n) - (p + k + 1) = n
  BY <1>1, <1>2, SMT
<1>4. p \in S
  BY <1>1, <1>3, RealLinesAreLines
<1>5. Max(S) = p
  <2>1. S \in SUBSET (0 .. Len(t)) /\ S # {}
    BY <1>1, <1>4, RealLinesAreLines
  <2>2. Max(S) \in S /\ p =< Max(S)
    BY <1>2, <1>4, <2>1, GreatestOf
  <2> DEFINE m == Max(S)
  <2>3. m \in LineStarts(t) /\ m \in Nat /\ m < p + k + 1
    BY <1>1, <2>2, RealLinesAreLines
  <2> HIDE DEF m
  <2>4. p < m => LineEnd(t, p) + 1 =< m
    BY <1>1, <2>3, LinesInOrder
  <2>5. ~(p < m)
    BY <1>1, <2>3, <2>4, SMT
  <2>6. p =< m
    BY <2>2 DEF m
  <2>7. m = p
    BY <1>1, <2>3, <2>5, <2>6, SMT
  <2> QED
    BY <2>7 DEF m
<1>6. Line(t, p) = SubSeq(t, p + 1, p + k) /\ Len(SubSeq(t, p + 1, p + k)) = k
  <2>1. Line(t, p) = SubSeq(t, p + 1, LineEnd(t, p)) /\ Len(Line(t, p)) = LineEnd(t, p) - p
    BY <1>1, LineText
  <2>2. Line(t, p) = SubSeq(t, p + 1, p + k) /\ Len(Line(t, p)) = (p + k) - p
    BY <1>1, <2>1, Zenon
  <2>3. (p + k) - p = k
    BY <1>1, SMT
  <2> QED
    BY <2>2, <2>3, Zenon
<1>7. BlockText(t, block) = SubSeq(t, p + k + 1 + 1, p + k + n + 1) /\ Len(BlockText(t, block)) = n
  <2>1. /\ p + k + 1 =< p + k + n + 1 /\ p + k + n + 1 \in Nat
        /\ (p + k + n + 1) - (p + k + 1) = n
    BY <1>1, SMT
  <2>2. BlockText(t, block) = TextInRange(t, p + k + 1, p + k + n + 1)
    BY <1>1, <1>3, Zenon DEF BlockText
  <2> DEFINE a == p + k + 1
             z == p + k + n + 1
  <2> HIDE DEF a, z
  <2>3. a \in Nat /\ z \in Nat /\ a =< z /\ z =< Len(t) /\ z - a = n
    BY <1>1, <1>3, <2>1 DEF a, z
  <2>4. TextInRange(t, a, z) = SubSeq(t, a + 1, z) /\ Len(SubSeq(t, a + 1, z)) = z - a
    BY <1>1, <2>3, RangeThatFits, RangeElements
  <2> QED
    BY <2>2, <2>3, <2>4 DEF a, z
<1>8. FullEnd(t, block[2]) = After(t, p + k + n + 1)
  <2>1. block[2] \in RealLines(t) /\ block[2] \in LineStarts(t)
    BY <1>1, ScopeIsLines, RealLinesAreLines
  <2>2. FullEnd(t, block[2]) = IF LineEnd(t, block[2]) < Len(t) THEN LineEnd(t, block[2]) + 1 ELSE LineEnd(t, block[2])
    BY <1>1, <2>1, LinesInOrder
  <2> QED
    BY <1>1, <1>3, <2>2, Zenon DEF After
<1>9. p + Len(BlockText(t, block)) + 1 = p + n + 1 /\ p - block[1] = p - (p + k + 1)
  BY <1>1, <1>7
<1>10. MoveUp(t, v) = UpPast(t, v, block, p)
  <2>1. block # NoScope /\ S # {}
    BY <1>1, <1>4
  <2> QED
    BY <1>5, <2>1, Zenon DEF MoveUp
<1>11. Swapped(t, p, k, n) = Joined(t, <<p, FullEnd(t, block[2])>>, BlockText(t, block), Line(t, p))
  BY <1>6, <1>7, <1>8, Zenon DEF Swapped
<1>12. UpPast(t, v, block, p) = ReplacePlan(t, v, p, FullEnd(t, block[2]), Swapped(t, p, k, n), target)
  BY <1>9, <1>11, Zenon DEF UpPast, Moved
<1> QED
  BY <1>8, <1>10, <1>12, Zenon DEF RegionPlan

LEMMA DownIsRegionPlan ==
  ASSUME NEW t, NEW v \in ViewsOf(t), NEW p, NEW k, NEW n, IsDown(t, v, p, k, n)
  PROVE  MoveDown(t, v) = RegionPlan(t, v, p, k, n, Moved(t, v, n + 1, After(t, p + k + n + 1)))
<1> DEFINE block == Scope(t, v)
           S == {s \in RealLines(t) : s > block[2]}
           q == p + k + 1
           target == Moved(t, v, n + 1, After(t, p + k + n + 1))
<1>1. /\ t \in Texts /\ p \in LineStarts(t) /\ p \in Nat /\ k \in Nat /\ n \in Nat
      /\ p + k + n + 1 =< Len(t) /\ t[q] = Newline
      /\ (p + k + n + 1 = Len(t) => t[Len(t)] # Newline)
      /\ Scope(t, v) # NoScope /\ LineEnd(t, q) = p + k + 1 + n
      /\ block[1] = p /\ LineEnd(t, block[2]) = p + k
  BY DEF IsDown, Stretches
<1>2. Len(t) \in Nat
  BY <1>1, BreaksAndStarts
<1>3. /\ q \in 1 .. Len(t) /\ q \in Nat /\ p + k + 1 + n = p + k + n + 1 /\ (p + k) + 1 = q
      /\ p + k \in Nat /\ p + k =< Len(t) /\ p =< p + k
      /\ (q = Len(t) => p + k + n + 1 = Len(t))
  BY <1>1, <1>2, SMT
<1>4. q \in LineStarts(t)
  BY <1>1, <1>3, LineStartIs
<1>5. q < Len(t)
  BY <1>1, <1>2, <1>3, SMT
<1>6. block[2] \in RealLines(t) /\ block[2] \in LineStarts(t) /\ block[2] \in Nat
  BY <1>1, ScopeIsLines, RealLinesAreLines
<1>7. block[2] =< p + k
  BY <1>1, <1>6, LinesInOrder
<1>8. q \in S
  <2>1. q \in RealLines(t)
    BY <1>1, <1>4, <1>5, RealLinesAreLines
  <2>2. q > block[2]
    BY <1>3, <1>6, <1>7, SMT
  <2> QED
    BY <2>1, <2>2
<1>9. Min(S) = q
  <2> DEFINE m == Min(S)
  <2>1. S \in SUBSET Nat /\ S # {}
    BY <1>1, <1>8, RealLinesAreLines
  <2>2. m \in S /\ m =< q
    BY <1>8, <2>1, LeastOf
  <2>3. m \in LineStarts(t) /\ m \in Nat /\ m > block[2]
    BY <1>1, <2>2, RealLinesAreLines
  <2> HIDE DEF m
  <2>4. block[2] < m
    BY <1>6, <2>3, SMT
  <2>5. LineEnd(t, block[2]) + 1 =< m
    BY <1>1, <1>6, <2>3, <2>4, LinesInOrder
  <2>6. q =< m
    BY <1>1, <1>3, <2>5
  <2> HIDE DEF q
  <2>7. m = q
    BY <1>3, <2>2, <2>3, <2>6, SMT
  <2> QED
    BY <2>7 DEF m
<1>10. Line(t, q) = SubSeq(t, p + k + 1 + 1, p + k + n + 1) /\ Len(Line(t, q)) = n
  <2>1. Line(t, q) = SubSeq(t, q + 1, LineEnd(t, q)) /\ Len(Line(t, q)) = LineEnd(t, q) - q
    BY <1>1, <1>4, LineText
  <2>2. (p + k + 1 + n) - (p + k + 1) = n
    BY <1>1, SMT
  <2>3. LineEnd(t, q) - q = n
    BY <1>1, <2>2, Zenon
  <2> QED
    BY <1>1, <1>3, <2>1, <2>3, Zenon
<1>11. BlockText(t, block) = SubSeq(t, p + 1, p + k)
  <2>1. BlockText(t, block) = TextInRange(t, p, p + k)
    BY <1>1, Zenon DEF BlockText
  <2>2. TextInRange(t, p, p + k) = SubSeq(t, p + 1, p + k)
    BY <1>1, <1>3, RangeThatFits
  <2> QED
    BY <2>1, <2>2
<1>12. FullEnd(t, q) = After(t, p + k + n + 1)
  <2>1. FullEnd(t, q) = IF LineEnd(t, q) < Len(t) THEN LineEnd(t, q) + 1 ELSE LineEnd(t, q)
    BY <1>1, <1>4, LinesInOrder
  <2> QED
    BY <1>1, <1>3, <2>1, Zenon DEF After
<1>13. MoveDown(t, v) = DownPast(t, v, block, q)
  <2>1. block # NoScope /\ S # {}
    BY <1>1, <1>8
  <2> QED
    BY <1>9, <2>1, Zenon DEF MoveDown
<1>14. Swapped(t, p, k, n) = Joined(t, <<block[1], FullEnd(t, q)>>, Line(t, q), BlockText(t, block))
  BY <1>1, <1>10, <1>11, <1>12, Zenon DEF Swapped
<1>15. <<block[1], FullEnd(t, q)>>[2] = After(t, p + k + n + 1) /\ <<block[1], FullEnd(t, q)>>[1] = p
  BY <1>1, <1>12
<1>16. DownPast(t, v, block, q) = ReplacePlan(t, v, p, After(t, p + k + n + 1), Swapped(t, p, k, n), target)
  BY <1>10, <1>14, <1>15, Zenon DEF DownPast, Moved
<1> QED
  BY <1>13, <1>16, Zenon DEF RegionPlan

(* Every Move Lines that does anything is one.                             *)
LEMMA UpIsFound ==
  ASSUME NEW t \in Texts, NEW v \in ViewsOf(t), MoveUp(t, v).final # t
  PROVE  \E p, k, n \in Nat : IsUp(t, v, p, k, n)
<1> DEFINE block == Scope(t, v)
           a == block[1]
           c == block[2]
           S == {s \in RealLines(t) : s < a}
           p == Max(S)
           e == LineEnd(t, p)
           z == LineEnd(t, c)
           k == e - p
           n == z - a
<1>1. block # NoScope /\ S # {}
  <2> SUFFICES ASSUME block = NoScope \/ S = {}
               PROVE  FALSE
    OBVIOUS
  <2>1. MoveUp(t, v) = NoChange(t, v)
    BY Zenon DEF MoveUp
  <2> QED
    BY <2>1 DEF NoChange
<1>2. /\ a \in RealLines(t) /\ c \in RealLines(t) /\ a \in Nat /\ c \in Nat /\ a =< c
  BY <1>1, ScopeIsLines
<1>3. p \in RealLines(t) /\ e + 1 = a /\ e < Len(t)
  <2> HIDE DEF a
  <2> QED
    BY <1>1, <1>2, LineAbove
<1> HIDE DEF a, c, p, e
<1>4. /\ p \in LineStarts(t) /\ p \in Nat /\ e \in Nat /\ p =< e
  BY <1>3, RealLinesAreLines, LinesInOrder DEF e
<1>5. /\ c \in LineStarts(t) /\ z \in Nat /\ c =< z /\ z =< Len(t)
      /\ (z < Len(t) => t[z + 1] = Newline)
  BY <1>2, RealLinesAreLines, LinesInOrder
<1>6. t[e + 1] = Newline
  BY <1>3, <1>4, LinesInOrder DEF e
<1> HIDE DEF z
<1>7. Len(t) \in Nat
  BY BreaksAndStarts
<1>8. z = Len(t) => t[Len(t)] # Newline
  <2> SUFFICES ASSUME z = Len(t), t[Len(t)] = Newline
               PROVE  FALSE
    OBVIOUS
  <2>1. Len(t) \in 1 .. Len(t) /\ Len(t) # 0
    BY <1>2, <1>3, <1>4, <1>7, SMT
  <2>2. Len(t) \in LineStarts(t)
    BY <2>1, LineStartIs
  <2>3. c < Len(t)
    BY <1>2, <1>3, <1>4, <1>7, <2>1, RealLinesAreLines
  <2>4. z + 1 =< Len(t)
    BY <1>5, <2>2, <2>3, LinesInOrder DEF z
  <2> QED
    BY <1>7, <2>4, SMT
<1> HIDE DEF k, n
<1>9. k \in Nat /\ n \in Nat /\ e = p + k /\ a = p + k + 1 /\ z = p + k + 1 + n
      /\ z = p + k + n + 1
  BY <1>2, <1>3, <1>4, <1>5, SMT DEF k, n
<1>10. Stretches(t, p, k, n)
  <2>1. e + 1 = p + k + 1
    BY <1>3, <1>9
  <2>2. t[p + k + 1] = Newline
    BY <1>6, <2>1
  <2>3. (p + k + n + 1 < Len(t) => t[p + k + n + 1 + 1] = Newline)
    BY <1>5, <1>9
  <2>4. p + k + n + 1 =< Len(t) /\ (p + k + n + 1 = Len(t) => t[Len(t)] # Newline)
    BY <1>5, <1>8, <1>9
  <2> QED
    BY <1>4, <1>9, <2>2, <2>3, <2>4 DEF Stretches
<1>11. LineEnd(t, p) = p + k /\ block[1] = p + k + 1 /\ LineEnd(t, block[2]) = p + k + 1 + n
  BY <1>9 DEF a, c, e, z
<1>12. IsUp(t, v, p, k, n)
  BY <1>1, <1>10, <1>11 DEF IsUp
<1> QED
  BY <1>4, <1>9, <1>12

LEMMA DownIsFound ==
  ASSUME NEW t \in Texts, NEW v \in ViewsOf(t), MoveDown(t, v).final # t
  PROVE  \E p, k, n \in Nat : IsDown(t, v, p, k, n)
<1> DEFINE block == Scope(t, v)
           p == block[1]
           c == block[2]
           S == {s \in RealLines(t) : s > c}
           q == Min(S)
           e == LineEnd(t, c)
           z == LineEnd(t, q)
           k == e - p
           n == z - q
<1>1. block # NoScope /\ S # {}
  <2> SUFFICES ASSUME block = NoScope \/ S = {}
               PROVE  FALSE
    OBVIOUS
  <2>1. MoveDown(t, v) = NoChange(t, v)
    BY Zenon DEF MoveDown
  <2> QED
    BY <2>1 DEF NoChange
<1>2. /\ p \in RealLines(t) /\ c \in RealLines(t) /\ p \in Nat /\ c \in Nat /\ p =< c
  BY <1>1, ScopeIsLines
<1>3. q \in RealLines(t) /\ e + 1 = q /\ e < Len(t)
  <2> HIDE DEF c
  <2> QED
    BY <1>1, <1>2, LineBelow
<1> HIDE DEF p, c, q, e
<1>4. /\ c \in LineStarts(t) /\ p \in LineStarts(t) /\ e \in Nat /\ c =< e
  BY <1>2, RealLinesAreLines, LinesInOrder DEF e
<1>5. /\ q \in LineStarts(t) /\ q \in Nat /\ z \in Nat /\ q =< z /\ z =< Len(t)
      /\ (z < Len(t) => t[z + 1] = Newline)
  BY <1>3, RealLinesAreLines, LinesInOrder
<1>6. t[e + 1] = Newline
  BY <1>3, <1>4, LinesInOrder DEF e
<1> HIDE DEF z
<1>7. Len(t) \in Nat
  BY BreaksAndStarts
<1>8. z = Len(t) => t[Len(t)] # Newline
  <2> SUFFICES ASSUME z = Len(t), t[Len(t)] = Newline
               PROVE  FALSE
    OBVIOUS
  <2>1. Len(t) \in 1 .. Len(t) /\ q # 0
    BY <1>3, <1>4, <1>7, SMT
  <2>2. Len(t) \in LineStarts(t)
    BY <2>1, LineStartIs
  <2>3. q < Len(t)
    BY <1>3, <2>1, RealLinesAreLines
  <2>4. z + 1 =< Len(t)
    BY <1>5, <2>2, <2>3, LinesInOrder DEF z
  <2> QED
    BY <1>7, <2>4, SMT
<1> HIDE DEF k, n
<1>9. k \in Nat /\ n \in Nat /\ e = p + k /\ q = p + k + 1 /\ z = p + k + 1 + n
      /\ z = p + k + n + 1
  BY <1>2, <1>3, <1>4, <1>5, SMT DEF k, n
<1>10. Stretches(t, p, k, n)
  <2>1. e + 1 = p + k + 1
    BY <1>3, <1>9
  <2>2. t[p + k + 1] = Newline
    BY <1>6, <2>1
  <2>3. (p + k + n + 1 < Len(t) => t[p + k + n + 1 + 1] = Newline)
    BY <1>5, <1>9
  <2>4. p + k + n + 1 =< Len(t) /\ (p + k + n + 1 = Len(t) => t[Len(t)] # Newline)
    BY <1>5, <1>8, <1>9
  <2> QED
    BY <1>2, <1>4, <1>9, <2>2, <2>3, <2>4 DEF Stretches
<1>11. LineEnd(t, p + k + 1) = p + k + 1 + n /\ block[1] = p /\ LineEnd(t, block[2]) = p + k
  BY <1>9 DEF p, c, e, z
<1>12. IsDown(t, v, p, k, n)
  BY <1>1, <1>10, <1>11 DEF IsDown
<1> QED
  BY <1>2, <1>9, <1>12

LEMMA ThereAndBack ==
  ASSUME NEW t \in Texts, NEW u, NEW a \in Nat, NEW b \in Nat, NEW v \in ViewsOf(t), NEW w, NEW x,
         Scope(t, v) # NoScope, Scope(t, v)[1] = a,
         GoesAlong(t, u, a, b, v, w), GoesAlong(u, t, b, a, w, x)
  PROVE  Scope(t, x) = Scope(t, v) /\ (~HasSelection(v) => x = v)
<1> DEFINE c == Scope(t, v)[2]
<1>1. /\ Scope(u, w) = <<b, b + (c - a)>> /\ (~HasSelection(v) => w = Caret(v.ins + (b - a)))
      /\ Scope(t, x) = <<a, a + (Scope(u, w)[2] - b)>>
      /\ (~HasSelection(w) => x = Caret(w.ins + (a - b)))
  BY DEF GoesAlong
<1>2. Scope(t, v) = <<a, c>> /\ c \in Nat
  BY ScopeIsLines
<1> HIDE DEF c
<1>3. a + ((b + (c - a)) - b) = c
  BY <1>2, SMT
<1>4. Scope(u, w)[2] = b + (c - a)
  BY <1>1
<1>5. Scope(t, x) = <<a, c>>
  BY <1>1, <1>3, <1>4, Zenon
<1>6. ASSUME ~HasSelection(v)
      PROVE  x = v
  <2> DEFINE o == v.ins
  <2>1. v.bound = o /\ v = [ins |-> o, bound |-> o]
    BY <1>6 DEF ViewsOf, HasSelection
  <2>2. o \in Nat
    BY SelectionEnds
  <2>3. w = Caret(o + (b - a))
    BY <1>1, <1>6
  <2>4. w.ins = o + (b - a) /\ ~HasSelection(w)
    BY <2>3, CaretAt DEF HasSelection
  <2>5. x = Caret(w.ins + (a - b))
    BY <1>1, <2>4
  <2> HIDE DEF o
  <2>6. (o + (b - a)) + (a - b) = o
    BY <2>2, SMT
  <2>7. x = Caret(o)
    BY <2>4, <2>5, <2>6, Zenon
  <2> QED
    BY <2>1, <2>7, Zenon DEF Caret
<1> QED
  BY <1>2, <1>5, <1>6

(* A text that ends as before has no line break behind the last line.      *)
LEMMA NoFinalBreak ==
  ASSUME NEW t \in Texts, NEW u \in Texts, Len(u) = Len(t), EndsAlike(u, t), Len(t) # 0,
         t[Len(t)] # Newline
  PROVE  u[Len(u)] # Newline
<1>1. Last(t) = t[Len(t)] /\ Last(u) = u[Len(u)]
  BY DEF Last
<1>2. u # <<>>
  <2>1. Len(<<>>) = 0
    BY SMT
  <2> QED
    BY <2>1, Zenon
<1>3. ~BehindFinalBreak(t, Len(t))
  BY <1>1 DEF BehindFinalBreak
<1>4. ~BehindFinalBreak(u, Len(u))
  BY <1>3 DEF EndsAlike
<1> QED
  BY <1>1, <1>2, <1>4 DEF BehindFinalBreak

LEMMA SwapOfPlan ==
  ASSUME NEW t, NEW v, NEW p, NEW k, NEW n, Stretches(t, p, k, n), NEW target,
         NEW plan, plan = RegionPlan(t, v, p, k, n, target), plan.final # t,
         EndsAlike(plan.final, t)
  PROVE  /\ Swap(t, plan.final, p, k, n) /\ plan.view = target
         /\ (After(t, p + k + n + 1) - p) + (After(t, p + k + n + 1) - p) =< MaxPayload
         /\ Stretches(plan.final, p, n, k)
         /\ Moves(t, plan.final, p, p + n + 1, k) /\ Moves(t, plan.final, p + k + 1, p, n)
<1> DEFINE u == plan.final
           long == After(t, p + k + n + 1) - p
<1>1. RegionPlan(t, v, p, k, n, target).final # t
  OBVIOUS
<1>2. LET made == RegionPlan(t, v, p, k, n, target)
          l == After(t, p + k + n + 1) - p
      IN  Swap(t, made.final, p, k, n) /\ made.view = target /\ l + l =< MaxPayload
  BY <1>1, RegionPlanSwaps
<1>3. Swap(t, u, p, k, n) /\ plan.view = target /\ long + long =< MaxPayload
  BY <1>2, Zenon
<1>4. p + k + n + 1 = Len(t) => u[Len(u)] # Newline
  <2> SUFFICES ASSUME p + k + n + 1 = Len(t)
               PROVE  u[Len(u)] # Newline
    OBVIOUS
  <2>1. t \in Texts /\ t[Len(t)] # Newline /\ p \in Nat /\ k \in Nat /\ n \in Nat
    BY DEF Stretches
  <2>2. u \in Texts /\ Len(u) = Len(t)
    BY <1>3 DEF Swap
  <2>3. p + k + n + 1 # 0
    BY <2>1, SMT
  <2> QED
    BY <2>1, <2>2, <2>3, NoFinalBreak
<1> HIDE DEF u
<1>5. Stretches(u, p, n, k)
  BY <1>3, <1>4, SwapStretches
<1>6. Moves(t, u, p, p + n + 1, k) /\ Moves(t, u, p + k + 1, p, n)
  BY <1>3, <1>5, SwapMoves
<1> QED
  BY <1>3, <1>5, <1>6 DEF u

LEMMA LinesGoAlong ==
  ASSUME NEW t, NEW u, NEW a, NEW b, NEW n, Moves(t, u, a, b, n), NEW v \in ViewsOf(t), NEW w,
         Scope(t, v) # NoScope, Scope(t, v)[1] = a, LineEnd(t, Scope(t, v)[2]) = a + n,
         GoesAlong(t, u, a, b, v, w)
  PROVE  /\ w \in ViewsOf(u) /\ Scope(u, w) # NoScope /\ Scope(u, w)[1] = b
         /\ LineEnd(u, Scope(u, w)[2]) = b + n
<1> DEFINE c == Scope(t, v)[2]
           j == c - a
<1>1. w \in ViewsOf(u) /\ Scope(u, w) = <<b, b + j>>
  BY DEF GoesAlong
<1>2. t \in Texts /\ a \in Nat /\ b \in Nat /\ n \in Nat
  BY DEF Moves
<1>3. c \in Nat /\ a =< c /\ c \in LineStarts(t) /\ c =< LineEnd(t, c)
  BY <1>2, ScopeIsLines, RealLinesAreLines, LinesInOrder
<1>4. LineEnd(t, c) = a + n
  OBVIOUS
<1> HIDE DEF c
<1>5. j \in 0 .. n /\ a + j = c
  BY <1>2, <1>3, <1>4, SMT
<1> HIDE DEF j
<1>6. LineEnd(u, b + j) = b + n
  BY <1>4, <1>5, LineEndMoves
<1>7. <<b, b + j>> # NoScope /\ <<b, b + j>>[1] = b /\ <<b, b + j>>[2] = b + j
  BY DEF NoScope
<1> QED
  BY <1>1, <1>6, <1>7, Zenon

LEMMA UpGoesBack ==
  ASSUME NEW t \in Texts, Renderable(t), NEW v \in ViewsOf(t), MoveUp(t, v).final # t,
         EndsAlike(MoveUp(t, v).final, t)
  PROVE  LET back == MoveDown(MoveUp(t, v).final, MoveUp(t, v).view)
         IN  /\ back.final = t
             /\ Scope(t, back.view) = Scope(t, v)
             /\ ~HasSelection(v) => back.view = v
<1>1. PICK p, k, n \in Nat : IsUp(t, v, p, k, n)
  BY UpIsFound
<1> DEFINE plan == MoveUp(t, v)
           u == plan.final
           w == plan.view
           back == MoveDown(u, w)
           a == p + k + 1
           shift == p - a
           long == After(t, p + k + n + 1) - p
<1>2. /\ Stretches(t, p, k, n) /\ Scope(t, v) # NoScope /\ LineEnd(t, p) = p + k
      /\ Scope(t, v)[1] = a /\ LineEnd(t, Scope(t, v)[2]) = a + n
  BY <1>1 DEF IsUp
<1>3. plan = RegionPlan(t, v, p, k, n, Moved(t, v, shift, p + n + 1))
  BY <1>1, UpIsRegionPlan
<1>4. plan.final # t /\ EndsAlike(plan.final, t)
  OBVIOUS
<1> HIDE DEF plan
<1>5. /\ Swap(t, u, p, k, n) /\ w = Moved(t, v, shift, p + n + 1)
      /\ long + long =< MaxPayload
      /\ Stretches(u, p, n, k)
      /\ Moves(t, u, p, p + n + 1, k) /\ Moves(t, u, a, p, n)
  BY <1>2, <1>3, <1>4, SwapOfPlan
<1>6. u \in Texts /\ Len(u) = Len(t) /\ Len(t) \in Nat /\ p + k + n + 1 =< Len(t)
  <2>1. Len(t) \in Nat
    BY BreaksAndStarts
  <2> QED
    BY <1>5, <2>1 DEF Swap
<1>7. /\ shift \in Int /\ a + shift = p /\ p + n < Len(u) /\ a \in Nat
      /\ p + (k + 1) = a /\ k + 1 \in Int /\ p + n + k + 1 = a + n
      /\ p + n + 1 + k = (p + n + 1) + k /\ 0 \in 0 .. k /\ p + 0 = p /\ (p + n + 1) + 0 = p + n + 1
  BY <1>6, SMT
<1>8. After(u, p + n) = p + n + 1 /\ After(t, a + n) = After(u, p + n + k + 1)
  BY <1>6, <1>7, Zenon DEF After
<1> HIDE DEF a, shift, u, w
<1>9. GoesAlong(t, u, a, p, v, MovedView(t, v, Scope(t, v), shift, After(u, p + n)))
  BY <1>2, <1>5, <1>7, ScopeMoves
<1>10. GoesAlong(t, u, a, p, v, w)
  BY <1>5, <1>8, <1>9, Zenon DEF Moved
<1>11. /\ w \in ViewsOf(u) /\ Scope(u, w) # NoScope /\ Scope(u, w)[1] = p
       /\ LineEnd(u, Scope(u, w)[2]) = p + n
  BY <1>2, <1>5, <1>10, LinesGoAlong
<1>12. LineEnd(u, p + n + 1) = p + n + 1 + k
  <2>1. LineEnd(t, p + 0) = p + k
    BY <1>2, <1>7
  <2> DEFINE b == p + n + 1
  <2>2. LineEnd(u, b + 0) = b + k
    <3>1. Moves(t, u, p, b, k)
      BY <1>5
    <3> HIDE DEF b
    <3> QED
      BY <1>7, <2>1, <3>1, LineEndMoves
  <2> QED
    BY <1>7, <2>2
<1>13. IsDown(u, w, p, n, k)
  BY <1>5, <1>11, <1>12, Zenon DEF IsDown
<1>14. back = RegionPlan(u, w, p, n, k, Moved(u, w, k + 1, After(u, p + n + k + 1)))
  BY <1>11, <1>13, DownIsRegionPlan
<1>15. t # u
  BY <1>4 DEF u
<1>16. /\ back.final = t
       /\ back.view = Moved(u, w, k + 1, After(u, p + n + k + 1))
  <2> DEFINE target == Moved(u, w, k + 1, After(u, p + n + k + 1))
  <2> HIDE DEF target
  <2>1. /\ RegionPlan(u, w, p, n, k, target).final = t
        /\ RegionPlan(u, w, p, n, k, target).view = target
    BY <1>5, <1>15, RegionPlanBack
  <2> QED
    BY <1>14, <2>1, Zenon DEF target
<1> HIDE DEF back
<1>17. GoesAlong(u, t, p, a, w, MovedView(u, w, Scope(u, w), k + 1, After(t, a + n)))
  <2>1. Moves(u, t, p, a, n)
    BY <1>5, MovesTurn
  <2> QED
    BY <1>7, <1>11, <2>1, ScopeMoves
<1>18. GoesAlong(u, t, p, a, w, back.view)
  BY <1>8, <1>16, <1>17, Zenon DEF Moved
<1>19. Scope(t, back.view) = Scope(t, v) /\ (~HasSelection(v) => back.view = v)
  BY <1>2, <1>7, <1>10, <1>18, ThereAndBack
<1> QED
  BY <1>16, <1>19, Zenon DEF back, u, w, plan

LEMMA DownGoesBack ==
  ASSUME NEW t \in Texts, Renderable(t), NEW v \in ViewsOf(t), MoveDown(t, v).final # t,
         EndsAlike(MoveDown(t, v).final, t)
  PROVE  LET back == MoveUp(MoveDown(t, v).final, MoveDown(t, v).view)
         IN  /\ back.final = t
             /\ Scope(t, back.view) = Scope(t, v)
             /\ ~HasSelection(v) => back.view = v
<1>1. PICK p, k, n \in Nat : IsDown(t, v, p, k, n)
  BY DownIsFound
<1> DEFINE plan == MoveDown(t, v)
           u == plan.final
           w == plan.view
           back == MoveUp(u, w)
           b == p + n + 1
           shift == p - (p + n + 1)
           long == After(t, p + k + n + 1) - p
<1>2. /\ Stretches(t, p, k, n) /\ Scope(t, v) # NoScope
      /\ LineEnd(t, p + k + 1) = p + k + 1 + n
      /\ Scope(t, v)[1] = p /\ LineEnd(t, Scope(t, v)[2]) = p + k
  BY <1>1 DEF IsDown
<1>3. plan = RegionPlan(t, v, p, k, n, Moved(t, v, n + 1, After(t, p + k + n + 1)))
  BY <1>1, DownIsRegionPlan
<1>4. plan.final # t /\ EndsAlike(plan.final, t)
  OBVIOUS
<1> HIDE DEF plan
<1>5. /\ Swap(t, u, p, k, n) /\ w = Moved(t, v, n + 1, After(t, p + k + n + 1))
      /\ long + long =< MaxPayload
      /\ Stretches(u, p, n, k)
      /\ Moves(t, u, p, b, k) /\ Moves(t, u, p + k + 1, p, n)
  BY <1>2, <1>3, <1>4, SwapOfPlan
<1>6. u \in Texts /\ Len(u) = Len(t) /\ Len(t) \in Nat /\ p + k + n + 1 =< Len(t)
  <2>1. Len(t) \in Nat
    BY BreaksAndStarts
  <2> QED
    BY <1>5, <2>1 DEF Swap
<1>7. /\ shift \in Int /\ b + shift = p /\ p + k < Len(t) /\ b \in Nat
      /\ p + (n + 1) = b /\ n + 1 \in Int /\ p + k + n + 1 = b + k
      /\ p + n + 1 + k = b + k /\ 0 \in 0 .. n /\ p + 0 = p /\ (p + k + 1) + 0 = p + k + 1
      /\ p + k + 1 + n = (p + k + 1) + n
  BY <1>6, SMT
<1>8. After(t, p + k) = p + k + 1 /\ After(t, p + k + n + 1) = After(u, b + k)
  BY <1>6, <1>7, Zenon DEF After
<1>9. LineEnd(u, p) = p + n
  <2> DEFINE a == p + k + 1
  <2>1. Moves(t, u, a, p, n) /\ LineEnd(t, a + 0) = a + n
    BY <1>2, <1>5, <1>7
  <2> HIDE DEF a
  <2>2. LineEnd(u, p + 0) = p + n
    BY <1>7, <2>1, LineEndMoves
  <2> QED
    BY <1>7, <2>2
<1>10. shift = p - b /\ p + n + 1 = b
  OBVIOUS
<1> HIDE DEF b, shift, u, w
<1>11. GoesAlong(t, u, p, b, v, MovedView(t, v, Scope(t, v), n + 1, After(u, b + k)))
  BY <1>2, <1>5, <1>7, ScopeMoves
<1>12. GoesAlong(t, u, p, b, v, w)
  BY <1>5, <1>8, <1>11, Zenon DEF Moved
<1>13. /\ w \in ViewsOf(u) /\ Scope(u, w) # NoScope /\ Scope(u, w)[1] = b
       /\ LineEnd(u, Scope(u, w)[2]) = b + k
  BY <1>2, <1>5, <1>12, LinesGoAlong
<1>14. IsUp(u, w, p, n, k)
  BY <1>5, <1>9, <1>10, <1>13, Zenon DEF IsUp
<1>15. back = RegionPlan(u, w, p, n, k, Moved(u, w, shift, p + k + 1))
  BY <1>13, <1>14, UpIsRegionPlan DEF shift
<1>16. t # u
  BY <1>4 DEF u
<1>17. back.final = t /\ back.view = Moved(u, w, shift, p + k + 1)
  <2> DEFINE target == Moved(u, w, shift, p + k + 1)
  <2> HIDE DEF target
  <2>1. /\ RegionPlan(u, w, p, n, k, target).final = t
        /\ RegionPlan(u, w, p, n, k, target).view = target
    BY <1>5, <1>16, RegionPlanBack
  <2> QED
    BY <1>15, <2>1, Zenon DEF target
<1> HIDE DEF back
<1>18. GoesAlong(u, t, b, p, w, MovedView(u, w, Scope(u, w), shift, After(t, p + k)))
  <2>1. Moves(u, t, b, p, k)
    BY <1>5, MovesTurn
  <2> QED
    BY <1>7, <1>13, <2>1, ScopeMoves
<1>19. GoesAlong(u, t, b, p, w, back.view)
  BY <1>8, <1>17, <1>18, Zenon DEF Moved
<1>20. Scope(t, back.view) = Scope(t, v) /\ (~HasSelection(v) => back.view = v)
  BY <1>2, <1>7, <1>12, <1>19, ThereAndBack
<1> QED
  BY <1>17, <1>20, Zenon DEF back, u, w, plan

LEMMA EveryMoveGoesBack == TypeOK /\ LinesFit => MovesAreUndone
<1> SUFFICES ASSUME TypeOK, LinesFit
             PROVE  MovesAreUndone
  OBVIOUS
<1>1. text \in Texts /\ view \in ViewsOf(text) /\ Renderable(text)
  BY DEF TypeOK, LinesFit
<1>2. MovesBack(MoveUp(text, view), MoveDown)
  <2>1. MoveUp(text, view).final # text /\ EndsAlike(MoveUp(text, view).final, text) =>
          LET back == MoveDown(MoveUp(text, view).final, MoveUp(text, view).view)
          IN  /\ back.final = text
              /\ Scope(text, back.view) = Scope(text, view)
              /\ ~HasSelection(view) => back.view = view
    BY <1>1, UpGoesBack
  <2> QED
    BY <2>1 DEF MovesBack
<1>3. MovesBack(MoveDown(text, view), MoveUp)
  <2>1. MoveDown(text, view).final # text /\ EndsAlike(MoveDown(text, view).final, text) =>
          LET back == MoveUp(MoveDown(text, view).final, MoveDown(text, view).view)
          IN  /\ back.final = text
              /\ Scope(text, back.view) = Scope(text, view)
              /\ ~HasSelection(view) => back.view = view
    BY <1>1, DownGoesBack
  <2> QED
    BY <2>1 DEF MovesBack
<1> QED
  BY <1>2, <1>3 DEF MovesAreUndone

(* For every text, view and limit: where the opposite move is to undo Move *)
(* Lines (application/text_transform.py), it restores the text and the     *)
(* lines of the selection, and a caret to where it was.                    *)
THEOREM MovesGoBack == Spec => []MovesAreUndone
<1>1. TypeOK /\ LinesFit => MovesAreUndone
  BY EveryMoveGoesBack
<1> QED
  BY <1>1, EverythingFits, PTL
=============================================================================
