\* Two references, prose of two pieces, picks of two references.
CONSTANTS
  Refs = {A, B}
  Chunks = {word, blank}
  Blank = blank
  MaxChunks = 2
  MaxPick = 2
  None = None
SPECIFICATION Spec
INVARIANTS
  SearchContained
PROPERTIES
  KeepsContract
  StreamEnds
CHECK_DEADLOCK FALSE
