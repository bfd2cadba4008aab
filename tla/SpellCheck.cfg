CONSTANTS
  w1 = w1
  w2 = w2
  d1 = d1
  d2 = d2
  Words = {w1, w2}
  Dictionaries = {d1, d2}
  Known <- KnownWords
  Texts <- UpToTwoWords
  MaxWords = 3
  MaxSessions = 3
SPECIFICATION Spec
INVARIANTS VerdictsAreTrue NothingSkipped OneChild
PROPERTIES WaitsEnd
CHECK_DEADLOCK FALSE
