\* Three searches that follow one another or overlap, end or fail, and two panels.
CONSTANTS
  NSearches = 3
  MaxWords = 1
  MaxActs = 4
  NoSearch = NoSearch
SPECIFICATION PageSpec
INVARIANTS
  CardIsOwn
  PanelRowsOfHead
PROPERTY ButtonComesBack
CHECK_DEADLOCK FALSE
