\* Every query of nine words and numbers, price of seven tokens, pair of texts of six
\* characters and page of two figures with two offers.
CONSTANTS
  Catalogue <- FiveReferences
  Limit = 2
  MaxTokens = 7
  Alnum = {a, b}
  Other = other
  MaxText = 6
  MaxFigures = 2
  MaxOffers = 2
SPECIFICATION Spec
INVARIANTS
  RankingHolds
  PricesRead
  FiledRight
  OffersGrounded
CHECK_DEADLOCK FALSE
