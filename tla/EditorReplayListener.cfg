CONSTANTS
  Chars <- MCChars
  CharClass <- MCCharClass
  Newline = "n"
  DefaultEncoding = "utf-8"
  DefaultEol = "lf"
  MaxTextLen = 2
  MaxDeltas = 2
  MaxGroups = 2
  MaxPayload = 3
  Encodings = {"utf-8"}
  Eols = {"lf"}
  Mixes = {FALSE}
  Documents <- JournalDocuments
  Typing <- JournalTyping
  Faults = {"replay listener"}
  MaxId = 4
SPECIFICATION Spec
PROPERTIES FailedOperationRestores
CHECK_DEADLOCK FALSE
