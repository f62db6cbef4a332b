\* Two threads, three keys in a cache of two, an entry that expires while a thread sleeps.
CONSTANTS
  Threads = {t1, t2}
  Keys = {k1, k2, k3}
  MaxSize = 2
  TTL = 2
  MinInterval = 2
  MaxTime = 6
  Start = 1
  None = None
SPECIFICATION Spec
INVARIANTS
  CacheCorrect
  QuotaBounded
CHECK_DEADLOCK FALSE
