\* Two runs that overlap, finish in any order and fail while a search reads; the first has
\* every list of prices.  One reference is tracked.
CONSTANTS
  r1 = r1
  r2 = r2
  References = {r1, r2}
  Tracked = {r1}
  Sources = {shopify, ebay}
  MaxRuns = 2
  Batches <- RunsRecord
  Limit = 2
  NoAnswer = NoAnswer
SYMMETRY Symmetry
SPECIFICATION Spec
INVARIANTS
  QueriesAgree
  JunkNotQuoted
  PricedIsAnswered
  ListShowsTheWorking
CHECK_DEADLOCK FALSE
