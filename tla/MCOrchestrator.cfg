\* Three turns of up to two calls, of two tools and a name that is none.
CONSTANTS
  Tools = {fair, live}
  Unknown = Unknown
  MaxToolTurns = 3
  MaxCalls = 2
SPECIFICATION AskSpec
INVARIANTS
  CallsAccounted
PROPERTY RunShortens
