---------------------------- MODULE Serialization ----------------------------
(***************************************************************************)
(* Between a file's bytes and a text (infrastructure/document_loader.py    *)
(* and domain/document_serialization.py).  A file is an encoding and the   *)
(* characters its bytes stand for in it; its byte order mark is the        *)
(* encoded U+FEFF the file begins with.  Without one it is read as UTF-8.  *)
(***************************************************************************)
EXTENDS TextLines

CONSTANTS
  CarriageReturn,
  Mark,           \* U+FEFF
  Encodings,      \* those with a byte order mark
  Unmarked        \* "utf-8"

ASSUME CharactersAreSpecial ==
  CarriageReturn \in Chars \ {Newline} /\ Mark \in Chars \ {Newline, CarriageReturn}

ASSUME UnmarkedIsEncoding == Unmarked \in Encodings

LineEndings == {"lf", "crlf", "cr"}

Files == [in : Encodings, chars : Texts]

(* Only UTF-8 is written, or taken for granted, without a mark.            *)
FileProfiles ==
  {p \in [enc : Encodings, bom : BOOLEAN, eol : LineEndings, mixed : BOOLEAN] :
     p.enc # Unmarked => p.bom}

-----------------------------------------------------------------------------
(* Loading.                                                                *)

IsMarked(file) == file.chars # <<>> /\ Head(file.chars) = Mark

Readable(file) == IsMarked(file) \/ file.in = Unmarked

Decoded(file) == IF IsMarked(file) THEN Tail(file.chars) ELSE file.chars

(* Where the line endings of a kind are.                                   *)
Follows(t, i, c) == i < Len(t) /\ t[i + 1] = c

EndingsOf(t, kind) ==
  CASE kind = "crlf" -> {i \in DOMAIN t : t[i] = CarriageReturn /\ Follows(t, i, Newline)}
    [] kind = "cr" -> {i \in DOMAIN t : t[i] = CarriageReturn /\ ~Follows(t, i, Newline)}
    [] kind = "lf" -> {i \in DOMAIN t : t[i] = Newline /\ ~(i > 1 /\ t[i - 1] = CarriageReturn)}

KindsIn(t) == {kind \in LineEndings : EndingsOf(t, kind) # {}}

(* The kind a text has most of, the earlier one of two, LF without any.    *)
Dominant(t) ==
  LET Count(kind) == Cardinality(EndingsOf(t, kind))
      most == {kind \in KindsIn(t) : \A other \in KindsIn(t) : Count(kind) >= Count(other)}
  IN  IF KindsIn(t) = {} THEN "lf"
      ELSE CHOOSE kind \in most :
             \A other \in most : Min(EndingsOf(t, kind)) =< Min(EndingsOf(t, other))

LoadedProfile(file) ==
  [enc |-> file.in, bom |-> IsMarked(file), eol |-> Dominant(Decoded(file)),
   mixed |-> Cardinality(KindsIn(Decoded(file))) > 1]

NormalizedInTwo(t) ==                   \* mutant: both halves of CRLF become a line break
  [i \in DOMAIN t |-> IF t[i] = CarriageReturn THEN Newline ELSE t[i]]

Normalized(t) ==
  FlattenSeq([i \in DOMAIN t |->
    IF t[i] # CarriageReturn THEN <<t[i]>>
    ELSE IF Follows(t, i, Newline) THEN <<>> ELSE <<Newline>>])

LoadedText(file) == Normalized(Decoded(file))

-----------------------------------------------------------------------------
(* Saving.  A mixed profile needs the user's consent.                      *)

Separator(eol) ==
  CASE eol = "lf" -> <<Newline>>
    [] eol = "crlf" -> <<CarriageReturn, Newline>>
    [] eol = "cr" -> <<CarriageReturn>>

MaySerialize(profile, consent) == profile.mixed => consent

Serialized(t, profile) ==
  [in |-> profile.enc,
   chars |-> (IF profile.bom THEN <<Mark>> ELSE <<>>)
               \o FlattenSeq([i \in DOMAIN t |->
                    IF t[i] = Newline THEN Separator(profile.eol) ELSE <<t[i]>>])]
=============================================================================
