------------------------------ MODULE Fetcher ------------------------------
(***************************************************************************)
(* The live search of the MCP server: one service per process, whose cache *)
(* (LRU with a time-to-live, under its lock) and rate limiter (a lock held *)
(* while it sleeps) the server's worker threads share.  A key is a source  *)
(* and a query the service accepts; the others return at once.             *)
(***************************************************************************)
EXTENDS Integers, Sequences, FiniteSets, SequencesExt, Subsequences

CONSTANTS Threads,
          Keys,
          MaxSize,      \* maxsize of the cache
          TTL,          \* ttl_seconds
          MinInterval,  \* min_interval_seconds of the limiter
          Start,        \* time.monotonic() when the process starts
          MaxTime,      \* bound: no tick and no new search after it
          None

ASSUME SizesAssumption == MaxSize \in Nat \ {0} /\ TTL \in Nat /\ MinInterval \in Nat
                          /\ Start \in Nat
ASSUME ThreadsAssumption == IsFiniteSet(Threads)
ASSUME NoneAssumption == None \notin Threads

VARIABLES now,           \* time.monotonic()
          data,          \* the OrderedDict: entries with their key and stored_at, oldest use first
          last, limiter, \* _last of the limiter and the holder of its lock
          pc, key, wake, \* per thread: the search, and when its sleep in acquire is over
          calls,         \* history: paid calls
          permitAt,      \* history: when acquire last returned
          putAt, recent, \* history: when a key was put, the keys by their last use
          served         \* history: the age of the listings the last hit returned

Entries == [key : Keys, at : Nat]
history == <<calls, permitAt, putAt, recent, served>>
vars == <<now, data, last, limiter, pc, key, wake, history>>

KeysOf(entries) == [i \in DOMAIN entries |-> entries[i].key]
Cached == {e.key : e \in ToSet(data)}

TypeOK == /\ now \in Nat
          /\ data \in Seq(Entries) /\ Len(data) <= MaxSize
          /\ last \in Nat
          /\ limiter \in Threads \cup {None}
          /\ pc \in [Threads -> {"idle", "acquire", "sleep", "send", "response"}]
          /\ key \in [Threads -> Keys]
          /\ wake \in [Threads -> Nat]
          /\ calls \in Nat /\ permitAt \in Nat /\ served \in Nat
          /\ putAt \in [Keys -> Nat]
          /\ recent \in Seq(Keys)

Init == /\ now = Start
        /\ data = <<>>
        /\ last = 0
        /\ limiter = None
        /\ pc = [t \in Threads |-> "idle"]
        /\ key \in [Threads -> Keys]
        /\ wake = [t \in Threads |-> 0]
        /\ calls = 0 /\ permitAt = 0 /\ served = 0
        /\ putAt = [k \in Keys |-> 0]
        /\ recent = <<>>

-----------------------------------------------------------------------------
\* The cache.

Without(entries, k) == Within(entries, [key : Keys \ {k}, at : Nat])

Entry(k) == CHOOSE e \in ToSet(data) : e.key = k

\* Mutant: a hit leaves the entry where it is.
TouchNot(k) == data

\* move_to_end
Touch(k) == Append(Without(data, k), Entry(k))

Fresh(k) == k \in Cached /\ now - Entry(k).at <= TTL

\* popitem(last=False): a put adds at most one entry, so at most one has to go.
Evict(entries) == IF Len(entries) > MaxSize THEN Tail(entries) ELSE entries

Put(k) == /\ data' = Evict(Append(Without(data, k), [key |-> k, at |-> now]))
          /\ putAt' = [putAt EXCEPT ![k] = now]

Use(k) == recent' = Append(Within(recent, Keys \ {k}), k)

-----------------------------------------------------------------------------
Goto(t, where) == pc' = [pc EXCEPT ![t] = where]

\* search finds the key in the cache.
Hit(t, k) == /\ pc[t] = "idle"
             /\ Fresh(k)
             /\ data' = Touch(k)
             /\ Use(k)
             /\ served' = now - putAt[k]
             /\ UNCHANGED <<now, last, limiter, pc, key, wake, calls, permitAt, putAt>>

\* search does not find it; an expired entry is dropped.
Miss(t, k) == /\ pc[t] = "idle"
              /\ ~Fresh(k)
              /\ data' = Without(data, k)
              /\ key' = [key EXCEPT ![t] = k]
              /\ Goto(t, "acquire")
              /\ UNCHANGED <<now, last, limiter, wake, history>>

Wait == IF last + MinInterval > now THEN last + MinInterval ELSE now

\* Mutant: the limiter's lock is left out.
AcquireUnlocked(t) == /\ pc[t] = "acquire"
                      /\ wake' = [wake EXCEPT ![t] = Wait]
                      /\ Goto(t, "sleep")
                      /\ UNCHANGED <<now, data, last, limiter, key, history>>

\* acquire takes the lock and works out how long to sleep.
Acquire(t) == /\ pc[t] = "acquire"
              /\ limiter = None
              /\ limiter' = t
              /\ wake' = [wake EXCEPT ![t] = Wait]
              /\ Goto(t, "sleep")
              /\ UNCHANGED <<now, data, last, key, history>>

\* The sleep is over, or was not needed: note the time, release the lock.
Release(t) == /\ pc[t] = "sleep"
              /\ wake[t] <= now
              /\ last' = now
              /\ permitAt' = now
              /\ limiter' = None
              /\ Goto(t, "send")
              /\ UNCHANGED <<now, data, key, wake, calls, putAt, recent, served>>

\* The paid call leaves.
Send(t) == /\ pc[t] = "send"
           /\ calls' = calls + 1
           /\ Goto(t, "response")
           /\ UNCHANGED <<now, data, last, limiter, key, wake, permitAt, putAt, recent, served>>

\* Listings, possibly none of them: cached and returned.
Listings(t) == /\ pc[t] = "response"
               /\ Put(key[t])
               /\ Use(key[t])
               /\ Goto(t, "idle")
               /\ UNCHANGED <<now, last, limiter, key, wake, calls, permitAt, served>>

\* A timeout, an error status, a body that is no JSON or that holds an error returns the
\* empty list, a row WatchListing refuses raises: nothing is cached.
Fails(t) == /\ pc[t] = "response"
            /\ Goto(t, "idle")
            /\ UNCHANGED <<now, data, last, limiter, key, wake, history>>

\* Time passes, at least as far as the bound and the sleep of the limiter.
Tick == /\ now < MaxTime \/ \E t \in Threads : pc[t] = "sleep" /\ now < wake[t]
        /\ now' = now + 1
        /\ UNCHANGED <<data, last, limiter, pc, key, wake, history>>

Next == \/ Tick
        \/ \E t \in Threads :
             \/ \E k \in Keys : now < MaxTime /\ (Hit(t, k) \/ Miss(t, k))
             \/ Acquire(t) \/ Release(t) \/ Send(t)
             \/ Listings(t) \/ Fails(t)

Spec == Init /\ [][Next]_vars

-----------------------------------------------------------------------------
\* A burst of searches on every thread cannot spend the quota: n paid calls take n - 1
\* intervals, however the threads interleave.
QuotaBounded == calls > 0 => (calls - 1) * MinInterval <= now - Start

\* Two threads never leave the limiter closer than its interval.
PermitStep == (\E t \in Threads : pc[t] = "sleep" /\ pc'[t] = "send") /\ permitAt # 0
                => permitAt' >= permitAt + MinInterval
PermitsSpaced == [][PermitStep]_vars

\* Listings served from the cache are no older than the time-to-live, however popular
\* their key is and however threads that missed it put it again.
ServedFresh == served <= TTL

\* The cache keeps its entries in the order of their last use, one per key, so that what
\* it drops is what was used longest ago.
OrderIsRecency == KeysOf(data) = Within(recent, Cached)

\* What is cached was put by a search that got listings: a failure is never cached.
CachedWasPut == \A e \in ToSet(data) : e.at = putAt[e.key] /\ e.key \in ToSet(recent)

\* The cache is correct: what it holds was put by a success, is never served past its
\* time-to-live, and leaves in the order of its last use.
CacheCorrect == TypeOK /\ CachedWasPut /\ ServedFresh /\ OrderIsRecency
=============================================================================
