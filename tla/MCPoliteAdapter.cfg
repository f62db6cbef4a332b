\* Two stores, two references, two pages: a store may fail for one and recover for the
\* other. One retry; waits shorter and longer than the interval, for Retry-After may be zero.
CONSTANTS
  p = p
  q = q
  broken = broken
  NStores = 2
  NReferences = 2
  Products = {p, q, broken}
  Matching <- Overlapping
  Malformed <- Raising
  MaxPages = 2
  MinInterval = 2
  MaxRetries = 1
  Backoffs = {0, 3}
  MaxTime = 1
  Never = Never
SPECIFICATION FairCrawlSpec
INVARIANTS
  AnswersAreCatalogues
  FailureForgotten
  StoresIndependent
  RobotsHonoured
PROPERTIES
  PagesSpaced
  Terminates
CHECK_DEADLOCK FALSE
