\* As MCWebSearch, with prose of one piece.
CONSTANTS
  Refs = {A, B}
  Chunks = {word, blank}
  Blank = blank
  MaxChunks = 1
  MaxPick = 2
  None = None
SPECIFICATION Spec
INVARIANT LiveLookupHarmless
CHECK_DEADLOCK FALSE
