--------------------------- MODULE MCSpellCheck ----------------------------
EXTENDS SpellCheck
CONSTANTS w1, w2, d1, d2
KnownWords == [d \in Dictionaries |-> IF d = d1 THEN {w1} ELSE {w2}]
UpToTwoWords == UNION {[1 .. n -> Words] : n \in 0 .. 2}
=============================================================================
