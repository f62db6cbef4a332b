\* Two executions that overlap on one adapter.
CONSTANTS
  c1 = c1
  c2 = c2
  x = x
  y = y
  Crawls = {c1, c2}
  NAdapters = 1
  NReferences = 2
  Ids = {x, y}
  Batches <- OneListing
SPECIFICATION Spec
PROPERTIES
  ImplementsLog
  ReadersMoveForward
CHECK_DEADLOCK FALSE
