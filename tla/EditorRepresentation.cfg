CONSTANTS
  Chars <- MCChars
  CharClass <- MCCharClass
  Newline = "n"
  DefaultEncoding = "utf-8"
  DefaultEol = "lf"
  MaxTextLen = 2
  MaxDeltas = 1
  MaxGroups = 1
  MaxPayload = 3
  Encodings = {"utf-8", "utf-16"}
  Eols = {"lf", "crlf"}
  Mixes = {TRUE, FALSE}
  Documents <- RepresentationDocuments
  Typing <- RepresentationTyping
  Faults = {"install"}
  MaxId = 4
SPECIFICATION Spec
INVARIANTS TypeOK SavedMeansAccepted SynchronizedTextIsExact
CHECK_DEADLOCK FALSE
