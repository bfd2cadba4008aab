CONSTANTS
  Chars <- MCChars
  CharClass <- MCCharClass
  Newline = "n"
  DefaultEncoding = "utf-8"
  DefaultEol = "lf"
  MaxTextLen = 2
  MaxDeltas = 2
  MaxGroups = 2
  MaxPayload = 3
  Encodings = {"utf-8"}
  Eols = {"lf"}
  Mixes = {FALSE}
  Documents <- JournalDocuments
  Typing <- JournalTyping
  Faults = {}
  MaxId = 4
SPECIFICATION Spec
INVARIANTS PendingTextIsModified
CHECK_DEADLOCK FALSE
