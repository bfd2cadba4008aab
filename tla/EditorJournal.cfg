CONSTANTS
  Chars <- MCChars
  CharClass <- MCCharClass
  Newline = "n"
  DefaultEncoding = "utf-8"
  DefaultEol = "lf"
  MaxTextLen = 2
  MaxDeltas = 3
  MaxGroups = 2
  MaxPayload = 3
  Encodings = {"utf-8"}
  Eols = {"lf"}
  Mixes = {FALSE}
  Documents <- JournalDocuments
  Typing <- JournalTyping
  Faults = {"buffer", "install", "listener"}
  MaxId = 5
SPECIFICATION Spec
INVARIANTS HistoryChain ReplayReady HistoryBounded
PROPERTIES IdentityIsContent SaveIsMergeBarrier FailedOperationRestores ImplementsSnapshots
CHECK_DEADLOCK FALSE
