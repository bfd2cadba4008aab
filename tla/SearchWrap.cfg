SPECIFICATION Spec
CONSTANTS
  Chars <- MCChars
  Newline = "n"
  CarriageReturn = "r"
  Mark = "B"
  Fold <- MCFold
  Upper <- MCUpper
  Lower <- MCLower
  Blanks = {"_"}
  MaxLine = 3
  MaxPayload = 6
  MaxSpans = 2
  Encodings = {"utf-8", "utf-16", "utf-32"}
  Unmarked = "utf-8"
  Documents <- MCDocuments
  Queries <- MCQueries
  Replacements <- MCReplacements
  Pasted <- MCPasted
INVARIANT FindReachesEveryMatch
