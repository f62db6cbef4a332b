--------------------------- MODULE FetcherProofs ---------------------------
(***************************************************************************)
(* The rate limiter and the cache of the live search, for any number of    *)
(* threads and keys, any interval, size and time-to-live, and any          *)
(* interleaving.                                                           *)
(***************************************************************************)
EXTENDS Fetcher, FiniteSetTheorems, SequenceLemmas

LimiterTypes == /\ now \in Nat /\ last \in Nat /\ permitAt \in Nat /\ calls \in Nat
                /\ limiter \in Threads \cup {None}
                /\ pc \in [Threads -> {"idle", "acquire", "sleep", "send", "response"}]
                /\ wake \in [Threads -> Nat]

\* The lock is held by the thread that sleeps.
LockHeld == \A t \in Threads : pc[t] = "sleep" => limiter = t

\* A sleeping thread wakes an interval after the last permit at the earliest.
Sleepers == \A t \in Threads : pc[t] = "sleep" => wake[t] >= last + MinInterval

\* Permits are the calls made and the threads about to make one.
Ready == {t \in Threads : pc[t] = "send"}
Permits == calls + Cardinality(Ready)
PermitsPaid == /\ Start <= now /\ last <= now /\ permitAt = last
               /\ Permits > 0 => Start + (Permits - 1) * MinInterval <= last

IInv == LimiterTypes /\ LockHeld /\ Sleepers /\ PermitsPaid

LEMMA ReadyFinite == IsFiniteSet(Ready) /\ Cardinality(Ready) \in Nat
BY ThreadsAssumption, FS_Subset, FS_CardinalityType DEF Ready

LEMMA InitIInv == Init => IInv
<1> SUFFICES ASSUME Init PROVE IInv
  OBVIOUS
<1>1. LimiterTypes /\ LockHeld /\ Sleepers
  BY SizesAssumption DEF Init, LimiterTypes, LockHeld, Sleepers
<1>2. Ready = {}
  BY DEF Init, Ready
<1>3. Permits = 0
  BY <1>2, FS_EmptySet DEF Init, Permits
<1> QED
  BY <1>1, <1>3, SizesAssumption DEF Init, IInv, PermitsPaid

\* The steps that touch neither the limiter, a permit nor a call.
LEMMA QuietStep == ASSUME IInv, NEW t \in Threads, NEW to \in {"idle", "acquire"}, pc[t] \in {"idle", "response"},
                          pc' = [pc EXCEPT ![t] = to] \/ pc' = pc,
                          UNCHANGED <<now, last, permitAt, calls, limiter, wake>>
                   PROVE  IInv'
<1>1. \A u \in Threads : pc'[u] = pc[u] \/ (pc'[u] \in {"idle", "acquire"} /\ pc[u] \in {"idle", "response"})
  BY DEF IInv, LimiterTypes
<1>2. Ready' = Ready
  BY <1>1 DEF Ready
<1>3. LimiterTypes'
  <2>1. CASE pc' = pc
    BY <2>1 DEF IInv, LimiterTypes
  <2>2. CASE pc' = [pc EXCEPT ![t] = to]
    <3>1. pc' \in [Threads -> {"idle", "acquire", "sleep", "send", "response"}]
      BY <2>2 DEF IInv, LimiterTypes
    <3> QED
      BY <3>1 DEF IInv, LimiterTypes
  <2> QED
    BY <2>1, <2>2
<1>4. LockHeld' /\ Sleepers'
  BY <1>1 DEF IInv, LockHeld, Sleepers
<1>5. Permits' = Permits
  BY <1>2 DEF Permits
<1> QED
  BY <1>3, <1>4, <1>5 DEF IInv, PermitsPaid

LEMMA StepIInv == IInv /\ [Next]_vars => IInv'
<1> SUFFICES ASSUME IInv, [Next]_vars PROVE IInv'
  OBVIOUS
<1> USE SizesAssumption, NoneAssumption
<1>1. CASE Tick
  <2>1. now' = now + 1 /\ UNCHANGED <<last, permitAt, calls, limiter, pc, wake>>
    BY <1>1 DEF Tick, history
  <2>2. Permits' = Permits
    BY <2>1 DEF Permits, Ready
  <2> QED
    BY <2>1, <2>2 DEF IInv, LimiterTypes, LockHeld, Sleepers, PermitsPaid
<1>2. ASSUME NEW t \in Threads, NEW k \in Keys, Hit(t, k) \/ Miss(t, k) PROVE IInv'
  BY <1>2, QuietStep DEF Hit, Miss, Goto, history
<1>3. ASSUME NEW t \in Threads, Listings(t) \/ Fails(t) PROVE IInv'
  <2>1. /\ pc[t] = "response" /\ pc' = [pc EXCEPT ![t] = "idle"]
        /\ UNCHANGED <<now, last, permitAt, calls, limiter, wake>>
    BY <1>3 DEF Listings, Fails, Goto, history
  <2> QED
    BY <2>1, QuietStep
<1>4. ASSUME NEW t \in Threads, Acquire(t) PROVE IInv'
  <2>1. /\ pc[t] = "acquire" /\ limiter = None /\ limiter' = t
        /\ wake' = [wake EXCEPT ![t] = Wait] /\ pc' = [pc EXCEPT ![t] = "sleep"]
        /\ UNCHANGED <<now, last, permitAt, calls>>
    BY <1>4 DEF Acquire, Goto, history
  <2>2. Wait \in Nat /\ Wait >= last + MinInterval
    BY DEF Wait, IInv, LimiterTypes
  <2>3. LimiterTypes'
    BY <2>1, <2>2 DEF IInv, LimiterTypes
  <2>4. \A u \in Threads : pc[u] # "sleep"
    BY <2>1 DEF IInv, LockHeld
  <2>5. LockHeld' /\ Sleepers'
    BY <2>1, <2>2, <2>4 DEF IInv, LimiterTypes, LockHeld, Sleepers
  <2>6. Ready' = Ready
    BY <2>1 DEF Ready, IInv, LimiterTypes
  <2>7. Permits' = Permits
    BY <2>1, <2>6 DEF Permits
  <2> QED
    BY <2>1, <2>3, <2>5, <2>7 DEF IInv, PermitsPaid
<1>5. ASSUME NEW t \in Threads, Release(t) PROVE IInv'
  <2>1. /\ pc[t] = "sleep" /\ wake[t] <= now /\ last' = now /\ permitAt' = now /\ limiter' = None
        /\ pc' = [pc EXCEPT ![t] = "send"] /\ UNCHANGED <<now, wake, calls>>
    BY <1>5 DEF Release, Goto
  <2>2. LimiterTypes'
    BY <2>1 DEF IInv, LimiterTypes
  <2>3. \A u \in Threads : pc'[u] # "sleep"
    BY <2>1 DEF IInv, LimiterTypes, LockHeld
  <2>4. LockHeld' /\ Sleepers'
    BY <2>3 DEF LockHeld, Sleepers
  <2>5. Ready' = Ready \cup {t} /\ t \notin Ready
    BY <2>1 DEF Ready, IInv, LimiterTypes
  <2>6. Permits' = Permits + 1 /\ Permits \in Nat
    <3>1. Cardinality(Ready') = Cardinality(Ready) + 1
      BY <2>5, ReadyFinite, FS_AddElement
    <3> QED
      BY <2>1, <3>1, ReadyFinite DEF Permits, IInv, LimiterTypes
  <2>7. last' >= last + MinInterval
    BY <2>1 DEF IInv, LimiterTypes, Sleepers
  <2>8. Start + (Permits' - 1) * MinInterval <= last'
    <3>1. CASE Permits = 0
      BY <2>1, <2>6, <3>1 DEF IInv, LimiterTypes, PermitsPaid
    <3>2. CASE Permits > 0
      <4>1. Start + (Permits - 1) * MinInterval <= last
        BY <3>2 DEF IInv, PermitsPaid
      <4>2. Permits * MinInterval = (Permits - 1) * MinInterval + MinInterval
        BY <2>6, SMT
      <4> QED
        BY <2>2, <2>6, <2>7, <4>1, <4>2 DEF IInv, LimiterTypes
    <3> QED
      BY <2>6, <3>1, <3>2
  <2> QED
    BY <2>1, <2>2, <2>4, <2>8 DEF IInv, LimiterTypes, PermitsPaid
<1>6. ASSUME NEW t \in Threads, Send(t) PROVE IInv'
  <2>1. /\ pc[t] = "send" /\ calls' = calls + 1 /\ pc' = [pc EXCEPT ![t] = "response"]
        /\ UNCHANGED <<now, last, permitAt, limiter, wake>>
    BY <1>6 DEF Send, Goto
  <2>2. LimiterTypes' /\ LockHeld' /\ Sleepers'
    BY <2>1 DEF IInv, LimiterTypes, LockHeld, Sleepers
  <2>3. Ready' = Ready \ {t} /\ t \in Ready
    BY <2>1 DEF Ready, IInv, LimiterTypes
  <2>4. Permits' = Permits
    <3>1. Cardinality(Ready') = Cardinality(Ready) - 1
      BY <2>3, ReadyFinite, FS_RemoveElement
    <3> QED
      BY <2>1, <3>1, ReadyFinite DEF Permits, IInv, LimiterTypes
  <2> QED
    BY <2>1, <2>2, <2>4 DEF IInv, PermitsPaid
<1>7. CASE UNCHANGED vars
  <2>1. UNCHANGED <<now, last, permitAt, calls, limiter, pc, wake>>
    BY <1>7 DEF vars, history
  <2>2. Permits' = Permits
    BY <2>1 DEF Permits, Ready
  <2> QED
    BY <2>1, <2>2 DEF IInv, LimiterTypes, LockHeld, Sleepers, PermitsPaid
<1> QED
  BY <1>1, <1>2, <1>3, <1>4, <1>5, <1>6, <1>7 DEF Next

\* The invariant the two theorems below rest on.
THEOREM LimiterInvariant == Spec => []IInv
BY InitIInv, StepIInv, PTL DEF Spec

\* n paid calls take at least n - 1 intervals since the process started, whatever the
\* threads do (fetcher.py:126-145, 250-260).
THEOREM FetcherQuotaBounded == Spec => []QuotaBounded
<1>1. IInv => QuotaBounded
  <2> SUFFICES ASSUME IInv, calls > 0 PROVE (calls - 1) * MinInterval <= now - Start
    BY DEF QuotaBounded
  <2>1. calls \in Nat /\ Cardinality(Ready) \in Nat /\ now \in Nat /\ last \in Nat
    BY ReadyFinite DEF IInv, LimiterTypes
  <2>2. Permits \in Nat /\ Permits > 0 /\ calls - 1 <= Permits - 1
    BY <2>1 DEF Permits
  <2>3. (calls - 1) * MinInterval <= (Permits - 1) * MinInterval
    BY <2>1, <2>2, ProductMonotone, SizesAssumption
  <2>4. Start + (Permits - 1) * MinInterval <= now
    BY <2>1, <2>2, SizesAssumption DEF IInv, PermitsPaid
  <2> QED
    BY <2>1, <2>2, <2>3, <2>4, SizesAssumption
<1> QED
  BY <1>1, LimiterInvariant, PTL

\* Two threads leave the limiter at least its interval apart (fetcher.py:140-145).
THEOREM FetcherPermitsSpaced == Spec => PermitsSpaced
<1>1. IInv /\ [Next]_vars => [PermitStep]_vars
  <2> SUFFICES ASSUME IInv, Next, NEW u \in Threads, pc[u] = "sleep", pc'[u] = "send"
               PROVE  permitAt' >= permitAt + MinInterval
    BY DEF vars, PermitStep
  <2>1. ASSUME NEW t \in Threads, Release(t) PROVE permitAt' >= permitAt + MinInterval
    BY <2>1, SizesAssumption DEF Release, IInv, LimiterTypes, Sleepers, PermitsPaid
  <2>2. ASSUME NEW t \in Threads, NEW k \in Keys, Tick \/ Hit(t, k) PROVE FALSE
    BY <2>2 DEF Tick, Hit
  <2>3. ASSUME NEW t \in Threads, NEW k \in Keys, Miss(t, k) PROVE FALSE
    BY <2>3 DEF Miss, Goto, IInv, LimiterTypes
  <2>4. ASSUME NEW t \in Threads, Acquire(t) \/ Send(t) \/ Listings(t) \/ Fails(t) PROVE FALSE
    BY <2>4 DEF Acquire, Send, Listings, Fails, Goto, IInv, LimiterTypes
  <2>5. ~Tick
    BY DEF Tick
  <2> QED
    BY <2>1, <2>2, <2>3, <2>4, <2>5 DEF Next
<1> QED
  BY <1>1, LimiterInvariant, PTL DEF Spec, PermitsSpaced

-----------------------------------------------------------------------------
\* The cache.
CacheTypes == /\ data \in Seq(Entries) /\ Len(data) <= MaxSize
              /\ key \in [Threads -> Keys]
              /\ served \in Nat
              /\ putAt \in [Keys -> Nat]
              /\ recent \in Seq(Keys)

\* Nothing was put in the future.
PutPast == \A k \in Keys : putAt[k] <= now

CacheInv == /\ CacheTypes /\ PutPast /\ CachedWasPut /\ ServedFresh
            /\ OneEach(recent) /\ OrderIsRecency

Others(k) == [key : Keys \ {k}, at : Nat]

LEMMA KeysType ==
  ASSUME NEW s \in Seq(Entries)
  PROVE  KeysOf(s) \in Seq(Keys) /\ Len(KeysOf(s)) = Len(s)
         /\ \A i \in 1..Len(s) : KeysOf(s)[i] = s[i].key
<1>1. \A x \in Entries : x.key \in Keys
  BY DEF Entries
<1> QED
  BY <1>1 DEF KeysOf

LEMMA KeysAppend ==
  ASSUME NEW s \in Seq(Entries), NEW e \in Entries
  PROVE  /\ KeysOf(s) \in Seq(Keys) /\ Len(KeysOf(s)) = Len(s)
         /\ KeysOf(Append(s, e)) = Append(KeysOf(s), e.key)
<1> DEFINE t == Append(s, e)
<1>1. \A x \in Entries : x.key \in Keys
  BY DEF Entries
<1>2. KeysOf(s) \in Seq(Keys) /\ Len(KeysOf(s)) = Len(s)
  BY KeysType
<1>3. t \in Seq(Entries) /\ Len(t) = Len(s) + 1 /\ t[Len(s) + 1] = e
      /\ \A n \in 1..Len(s) : t[n] = s[n]
  OBVIOUS
<1> HIDE DEF t
<1>4. KeysOf(t) \in Seq(Keys) /\ Len(KeysOf(t)) = Len(t)
      /\ \A n \in 1..Len(t) : KeysOf(t)[n] = t[n].key
  BY <1>3, KeysType
<1>5. \A n \in 1..Len(s) : KeysOf(s)[n] = s[n].key
  BY KeysType
<1> DEFINE u == Append(KeysOf(s), e.key)
<1>6. u \in Seq(Keys) /\ Len(u) = Len(s) + 1 /\ u[Len(s) + 1] = e.key
      /\ \A n \in 1..Len(s) : u[n] = KeysOf(s)[n]
  BY <1>1, <1>2
<1> HIDE DEF u
<1>7. KeysOf(t) = u
  BY <1>3, <1>4, <1>5, <1>6
<1> QED
  BY <1>2, <1>7 DEF t, u

\* The keys of the entries that stay are the keys that stay.
LEMMA KeysWithout ==
  ASSUME NEW k \in Keys
  PROVE  \A s \in Seq(Entries) : KeysOf(Without(s, k)) = Within(KeysOf(s), Keys \ {k})
<1> DEFINE P == {s \in Seq(Entries) : KeysOf(Without(s, k)) = Within(KeysOf(s), Keys \ {k})}
<1>1. <<>> \in P
  <2>1. <<>> \in Seq(Entries) /\ KeysOf(<<>>) = <<>>
    BY DEF KeysOf
  <2>2. Within(<<>>, Others(k)) = <<>> /\ Within(<<>>, Keys \ {k}) = <<>>
    BY WithinEmpty
  <2> QED
    BY <2>1, <2>2 DEF Without, Others
<1>2. ASSUME NEW s \in P, NEW e \in Entries PROVE Append(s, e) \in P
  <2>1. s \in Seq(Entries) /\ Append(s, e) \in Seq(Entries)
        /\ KeysOf(Without(s, k)) = Within(KeysOf(s), Keys \ {k})
    OBVIOUS
  <2> HIDE DEF P
  <2>2. Without(Append(s, e), k) = IF e \in Others(k) THEN Append(Without(s, k), e)
                                  ELSE Without(s, k)
    <3>1. Within(Append(s, e), Others(k)) = IF e \in Others(k) THEN Append(Within(s, Others(k)), e)
                                           ELSE Within(s, Others(k))
      BY <2>1, WithinAppend
    <3> QED
      BY <3>1 DEF Without, Others
  <2>3. e \in Others(k) <=> e.key \in Keys \ {k}
    BY DEF Entries, Others
  <2>4. Without(s, k) \in Seq(Entries)
    <3>1. Without(s, k) \in Seq(Others(k))
      BY <2>1, WithinType DEF Without, Others
    <3>2. Others(k) \subseteq Entries
      BY DEF Others, Entries
    <3> QED
      BY <3>1, <3>2
  <2>5. KeysOf(Append(Without(s, k), e)) = Append(KeysOf(Without(s, k)), e.key)
    BY <2>4, KeysAppend
  <2>6. KeysOf(Append(s, e)) = Append(KeysOf(s), e.key) /\ KeysOf(s) \in Seq(Keys)
    BY <2>1, KeysAppend
  <2>7. e.key \in Keys
    BY DEF Entries
  <2>8. Within(Append(KeysOf(s), e.key), Keys \ {k})
          = IF e.key \in Keys \ {k} THEN Append(Within(KeysOf(s), Keys \ {k}), e.key)
            ELSE Within(KeysOf(s), Keys \ {k})
    <3> DEFINE ks == KeysOf(s)
               x == e.key
               S == Keys \ {k}
    <3>1. ks \in Seq(Keys) /\ x \in Keys
      BY <2>6, <2>7
    <3> HIDE DEF ks, x, S
    <3>2. Within(Append(ks, x), S) = IF x \in S THEN Append(Within(ks, S), x) ELSE Within(ks, S)
      BY <3>1, WithinAppend
    <3> QED
      BY <3>2 DEF ks, x, S
  <2>9. KeysOf(Without(Append(s, e), k)) = Within(KeysOf(Append(s, e)), Keys \ {k})
    <3>1. CASE e \in Others(k)
      BY <2>1, <2>2, <2>3, <2>5, <2>6, <2>8, <3>1
    <3>2. CASE e \notin Others(k)
      BY <2>1, <2>2, <2>3, <2>6, <2>8, <3>2
    <3> QED
      BY <3>1, <3>2
  <2> QED
    BY <2>1, <2>9 DEF P
<1> HIDE DEF P
<1>3. P \in SUBSET Seq(Entries)
  BY DEF P
<1>4. P = Seq(Entries)
  BY <1>1, <1>2, <1>3, SequenceInduction
<1> QED
  BY <1>4 DEF P

\* What stays of the entries without one key.
LEMMA WithoutProperties ==
  ASSUME NEW k \in Keys, NEW s \in Seq(Entries)
  PROVE  /\ Without(s, k) \in Seq(Entries)
         /\ ToSet(Without(s, k)) = {e \in ToSet(s) : e.key # k}
         /\ Len(Without(s, k)) <= Len(s)
         /\ (\E e \in ToSet(s) : e.key = k) => Len(Without(s, k)) < Len(s)
<1>1. Without(s, k) \in Seq(Others(k)) /\ Others(k) \subseteq Entries
  BY WithinType DEF Without, Others, Entries
<1>2. ToSet(s) \subseteq Entries
  BY DEF ToSet
<1>3. ToSet(Without(s, k)) = ToSet(s) \cap Others(k)
  BY WithinMembers DEF Without, Others
<1>4. /\ Len(Without(s, k)) <= Len(s)
      /\ ~(ToSet(s) \subseteq Others(k)) => Len(Without(s, k)) < Len(s)
  BY WithinLength DEF Without, Others
<1>5. \A e \in Entries : e \in Others(k) <=> e.key # k
  BY DEF Entries, Others
<1> QED
  BY <1>1, <1>2, <1>3, <1>4, <1>5

LEMMA CachedKeys ==
  ASSUME NEW s \in Seq(Entries)
  PROVE  ToSet(s) \subseteq Entries /\ ToSet(KeysOf(s)) = {e.key : e \in ToSet(s)}
<1>1. ToSet(s) = {s[i] : i \in 1..Len(s)} /\ ToSet(s) \subseteq Entries
  BY DEF ToSet
<1>2. DOMAIN KeysOf(s) = 1..Len(s) /\ \A i \in 1..Len(s) : KeysOf(s)[i] = s[i].key
  BY DEF KeysOf
<1>3. ToSet(KeysOf(s)) = {s[i].key : i \in 1..Len(s)}
  BY <1>2 DEF ToSet
<1> QED
  BY <1>1, <1>3

\* An entry put at the end with its key, used last: the order is still that of the uses.
Placed(k, e) == Append(Without(data, k), e)
Used(k) == Append(Within(recent, Keys \ {k}), k)

LEMMA UsedOnce ==
  ASSUME NEW k \in Keys, recent \in Seq(Keys), OneEach(recent)
  PROVE  /\ Used(k) \in Seq(Keys) /\ OneEach(Used(k)) /\ ToSet(Used(k)) = ToSet(recent) \cup {k}
         /\ Within(Used(k), Cached \cup {k})
              = Append(Within(recent, (Keys \ {k}) \cap (Cached \cup {k})), k)
<1>1. PICK q : q = Within(recent, Keys \ {k})
  OBVIOUS
<1>2. q \in Seq(Keys \ {k})
  BY <1>1, WithinType
<1>3. q \in Seq(Keys)
  BY <1>2
<1>4. OneEach(q)
  BY <1>1, WithinOneEach
<1>5. ToSet(q) = ToSet(recent) \cap (Keys \ {k})
  BY <1>1, WithinMembers
<1>6. ToSet(recent) \subseteq Keys
  BY DEF ToSet
<1>7. Within(q, Cached \cup {k}) = Within(recent, (Keys \ {k}) \cap (Cached \cup {k}))
  BY <1>1, WithinTwice
<1>8. Append(q, k) \in Seq(Keys)
  BY <1>3
<1>9. OneEach(Append(q, k))
  BY <1>3, <1>4, <1>5, OneEachAppend
<1>10. ToSet(Append(q, k)) = ToSet(q) \cup {k}
  BY <1>3, MembersAppend
<1>11. Within(Append(q, k), Cached \cup {k}) = Append(Within(q, Cached \cup {k}), k)
  <2>1. PICK S : S = Cached \cup {k}
    OBVIOUS
  <2>2. Within(Append(q, k), S) = Append(Within(q, S), k)
    BY <1>3, <2>1, WithinAppend, SMTT(30)
  <2> QED
    BY <2>1, <2>2
<1> QED
  BY <1>1, <1>5, <1>6, <1>7, <1>8, <1>9, <1>10, <1>11 DEF Used

LEMMA UseOrder ==
  ASSUME CacheInv, NEW k \in Keys, NEW e \in Entries, e.key = k
  PROVE  /\ Placed(k, e) \in Seq(Entries) /\ Len(Placed(k, e)) <= Len(data) + 1
         /\ k \in Cached => Len(Placed(k, e)) <= Len(data)
         /\ ToSet(Placed(k, e)) = {x \in ToSet(data) : x.key # k} \cup {e}
         /\ KeysOf(Placed(k, e)) = Within(Used(k), Cached \cup {k})
<1>1. data \in Seq(Entries) /\ recent \in Seq(Keys) /\ OneEach(recent)
      /\ KeysOf(data) = Within(recent, Cached)
  BY DEF CacheInv, CacheTypes, OrderIsRecency
<1>2. PICK d : d = Without(data, k)
  OBVIOUS
<1>3. /\ d \in Seq(Entries) /\ ToSet(d) = {x \in ToSet(data) : x.key # k}
      /\ Len(d) <= Len(data)
      /\ k \in Cached => Len(d) < Len(data)
  BY <1>1, <1>2, WithoutProperties DEF Cached
<1>4. KeysOf(d) = Within(KeysOf(data), Keys \ {k})
  BY <1>1, <1>2, KeysWithout
<1>5. KeysOf(d) = Within(recent, Cached \cap (Keys \ {k}))
  BY <1>1, <1>4, WithinTwice
<1>6. Append(d, e) \in Seq(Entries) /\ Len(Append(d, e)) = Len(d) + 1 /\ Len(d) \in Nat
      /\ Len(data) \in Nat
  BY <1>1, <1>3
<1>7. ToSet(Append(d, e)) = {x \in ToSet(data) : x.key # k} \cup {e}
  BY <1>3, MembersAppend
<1>8. KeysOf(Append(d, e)) = Append(KeysOf(d), k)
  BY <1>3, KeysAppend
<1>9. Cached \cap (Keys \ {k}) = (Keys \ {k}) \cap (Cached \cup {k})
  OBVIOUS
<1>10. KeysOf(Append(d, e)) = Within(Used(k), Cached \cup {k})
  BY <1>1, <1>5, <1>8, <1>9, UsedOnce
<1> QED
  BY <1>2, <1>3, <1>6, <1>7, <1>10 DEF Placed

\* The entry that goes is the one used longest ago.
LEMMA EvictOrder ==
  ASSUME NEW s \in Seq(Entries), s # <<>>, NEW r \in Seq(Keys), OneEach(r),
         KeysOf(s) = Within(r, ToSet(KeysOf(s)))
  PROVE  /\ Tail(s) \in Seq(Entries) /\ Len(Tail(s)) = Len(s) - 1
         /\ ToSet(Tail(s)) \subseteq ToSet(s)
         /\ KeysOf(Tail(s)) = Within(r, ToSet(KeysOf(Tail(s))))
<1> DEFINE t == Tail(s)
           ks == KeysOf(s)
<1>1. t \in Seq(Entries) /\ Len(t) = Len(s) - 1 /\ \A i \in 1..Len(t) : t[i] = s[i + 1]
  OBVIOUS
<1>2. ks \in Seq(Keys) /\ Len(ks) = Len(s) /\ \A i \in 1..Len(s) : ks[i] = s[i].key
  BY KeysType
<1> HIDE DEF t
<1>3. ToSet(t) \subseteq ToSet(s)
  <2> SUFFICES ASSUME NEW i \in 1..Len(t) PROVE t[i] \in ToSet(s)
    BY <1>1 DEF ToSet
  <2>1. i + 1 \in DOMAIN s /\ t[i] = s[i + 1]
    BY <1>1
  <2> QED
    BY <2>1 DEF ToSet
<1>4. KeysOf(t) = Tail(ks)
  <2>1. KeysOf(t) \in Seq(Keys) /\ Len(KeysOf(t)) = Len(t)
        /\ \A i \in 1..Len(t) : KeysOf(t)[i] = t[i].key
    BY <1>1, KeysType
  <2>2. ks # <<>>
    BY <1>2
  <2> HIDE DEF ks
  <2>3. Tail(ks) \in Seq(Keys) /\ Len(Tail(ks)) = Len(t)
        /\ \A i \in 1..Len(t) : Tail(ks)[i] = ks[i + 1]
    BY <1>1, <1>2, <2>2
  <2>4. ASSUME NEW i \in 1..Len(t) PROVE KeysOf(t)[i] = Tail(ks)[i]
    <3>1. i + 1 \in 1..Len(s)
      BY <1>1
    <3> QED
      BY <1>1, <1>2, <2>1, <2>3, <3>1
  <2> QED
    BY <2>1, <2>3, <2>4
<1>5. OneEach(ks)
  BY WithinOneEach
<1> HIDE DEF ks
<1>6. ks # <<>> /\ ks[1] \in Keys /\ DOMAIN ks = 1..Len(ks)
  BY <1>2
<1>7. Within(ks, Keys \ {ks[1]}) = Tail(ks)
  BY <1>2, <1>5, <1>6, WithinTail
<1>8. ToSet(KeysOf(t)) = ToSet(ks) \cap (Keys \ {ks[1]})
  BY <1>2, <1>4, <1>7, WithinMembers
<1>9. Within(Within(r, ToSet(ks)), Keys \ {ks[1]}) = Within(r, ToSet(ks) \cap (Keys \ {ks[1]}))
  BY WithinTwice
<1>10. ks = Within(r, ToSet(ks))
  BY DEF ks
<1> QED
  BY <1>1, <1>3, <1>4, <1>7, <1>8, <1>9, <1>10 DEF t

-----------------------------------------------------------------------------
\* The entry of a key that is cached.
LEMMA EntryOfKey ==
  ASSUME NEW k \in Cached, CacheInv
  PROVE  Entry(k) \in ToSet(data) /\ Entry(k) \in Entries /\ Entry(k).key = k
         /\ Entry(k).at = putAt[k]
<1>1. \E e \in ToSet(data) : e.key = k
  BY DEF Cached
<1>2. Entry(k) \in ToSet(data) /\ Entry(k).key = k
  BY <1>1 DEF Entry
<1>3. ToSet(data) \subseteq Entries
  BY CachedKeys DEF CacheInv, CacheTypes
<1> QED
  BY <1>2, <1>3 DEF CacheInv, CachedWasPut

LEMMA HitKeepsCache ==
  ASSUME CacheInv, IInv, NEW t \in Threads, NEW k \in Keys, Hit(t, k)
  PROVE  CacheInv'
<1>1. /\ k \in Cached /\ now - Entry(k).at <= TTL
      /\ data' = Placed(k, Entry(k)) /\ recent' = Used(k)
      /\ served' = now - putAt[k] /\ UNCHANGED <<now, key, putAt>>
  BY DEF Hit, Fresh, Touch, Use, Placed, Used
<1>2. Entry(k) \in ToSet(data) /\ Entry(k) \in Entries /\ Entry(k).key = k
      /\ Entry(k).at = putAt[k]
  BY <1>1, EntryOfKey
<1>3. /\ data' \in Seq(Entries) /\ Len(data') <= Len(data)
      /\ ToSet(data') = {x \in ToSet(data) : x.key # k} \cup {Entry(k)}
      /\ KeysOf(data') = Within(recent', Cached \cup {k})
      /\ recent' \in Seq(Keys) /\ OneEach(recent') /\ ToSet(recent') = ToSet(recent) \cup {k}
  BY <1>1, <1>2, UseOrder, UsedOnce DEF CacheInv, CacheTypes
<1>4. Cached' = Cached \cup {k}
  BY <1>2, <1>3 DEF Cached
<1>5. served' \in Nat /\ served' <= TTL
  BY <1>1, <1>2 DEF CacheInv, CacheTypes, PutPast, IInv, LimiterTypes
<1>6. CachedWasPut'
  BY <1>1, <1>2, <1>3 DEF CacheInv, CachedWasPut
<1>7. Len(data') <= MaxSize
  BY <1>3, SizesAssumption DEF CacheInv, CacheTypes
<1>8. CacheTypes' /\ PutPast'
  BY <1>1, <1>3, <1>5, <1>7 DEF CacheInv, CacheTypes, PutPast
<1> QED
  BY <1>3, <1>4, <1>5, <1>6, <1>8 DEF CacheInv, ServedFresh, OrderIsRecency

LEMMA MissKeepsCache ==
  ASSUME CacheInv, NEW t \in Threads, NEW k \in Keys, Miss(t, k)
  PROVE  CacheInv'
<1>1. data' = Without(data, k) /\ key' = [key EXCEPT ![t] = k]
      /\ UNCHANGED <<now, served, putAt, recent>>
  BY DEF Miss, history
<1>2. data \in Seq(Entries) /\ recent \in Seq(Keys) /\ KeysOf(data) = Within(recent, Cached)
  BY DEF CacheInv, CacheTypes, OrderIsRecency
<1>3. data' \in Seq(Entries) /\ Len(data') <= Len(data)
      /\ ToSet(data') = {x \in ToSet(data) : x.key # k}
  BY <1>1, <1>2, WithoutProperties
<1>4. Cached' = Cached \cap (Keys \ {k})
  <2>1. ToSet(data) \subseteq Entries
    BY <1>2, CachedKeys
  <2> QED
    BY <1>3, <2>1 DEF Cached, Entries
<1>5. KeysOf(data') = Within(recent', Cached')
  <2>1. KeysOf(data') = Within(Within(recent, Cached), Keys \ {k})
    BY <1>1, <1>2, KeysWithout
  <2>2. Within(Within(recent, Cached), Keys \ {k}) = Within(recent, Cached \cap (Keys \ {k}))
    BY <1>2, WithinTwice
  <2> QED
    BY <1>1, <1>4, <2>1, <2>2
<1>6. CachedWasPut'
  BY <1>1, <1>3 DEF CacheInv, CachedWasPut
<1>7. Len(data') <= MaxSize
  BY <1>3, SizesAssumption DEF CacheInv, CacheTypes
<1>8. CacheTypes' /\ PutPast'
  BY <1>1, <1>3, <1>7 DEF CacheInv, CacheTypes, PutPast
<1> QED
  BY <1>1, <1>5, <1>6, <1>8 DEF CacheInv, ServedFresh, OrderIsRecency, OneEach

LEMMA ListingsKeepCache ==
  ASSUME CacheInv, IInv, NEW t \in Threads, Listings(t)
  PROVE  CacheInv'
<1> DEFINE k == key[t]
           e == [key |-> k, at |-> now]
           s == Placed(k, e)
<1>1. /\ data' = Evict(s) /\ putAt' = [putAt EXCEPT ![k] = now]
      /\ recent' = Used(k) /\ UNCHANGED <<now, key, served>>
  BY DEF Listings, Put, Use, Placed, Used
<1>2. k \in Keys /\ now \in Nat /\ e \in Entries /\ e.key = k /\ e.at = now
  BY DEF CacheInv, CacheTypes, IInv, LimiterTypes, Entries
<1> HIDE DEF k, e
<1>3. /\ s \in Seq(Entries) /\ Len(s) <= Len(data) + 1
      /\ ToSet(s) = {x \in ToSet(data) : x.key # k} \cup {e}
      /\ KeysOf(s) = Within(recent', Cached \cup {k})
      /\ recent' \in Seq(Keys) /\ OneEach(recent') /\ ToSet(recent') = ToSet(recent) \cup {k}
  BY <1>1, <1>2, UseOrder, UsedOnce DEF CacheInv, CacheTypes
<1> HIDE DEF s
<1>4. ToSet(KeysOf(s)) = Cached \cup {k}
  <2>1. ToSet(KeysOf(s)) = {x.key : x \in ToSet(s)}
    BY <1>3, CachedKeys
  <2> QED
    BY <1>2, <1>3, <2>1 DEF Cached
<1>5. /\ data' \in Seq(Entries) /\ Len(data') <= MaxSize /\ ToSet(data') \subseteq ToSet(s)
      /\ KeysOf(data') = Within(recent', ToSet(KeysOf(data')))
  <2>1. CASE Len(s) > MaxSize
    <3>1. s # <<>>
      BY <2>1, SizesAssumption
    <3>2. data' = Tail(s)
      BY <1>1, <2>1 DEF Evict
    <3>3. Len(data) <= MaxSize
      BY DEF CacheInv, CacheTypes
    <3>4. data \in Seq(Entries)
      BY DEF CacheInv, CacheTypes
    <3>5. /\ Tail(s) \in Seq(Entries) /\ Len(Tail(s)) = Len(s) - 1
          /\ ToSet(Tail(s)) \subseteq ToSet(s)
          /\ KeysOf(Tail(s)) = Within(recent', ToSet(KeysOf(Tail(s))))
      BY <1>3, <1>4, <3>1, EvictOrder
    <3> QED
      BY <1>3, <3>2, <3>3, <3>4, <3>5, SizesAssumption
  <2>2. CASE ~(Len(s) > MaxSize)
    <3>1. data' = s
      BY <1>1, <2>2 DEF Evict
    <3>2. Len(s) <= MaxSize
      BY <1>3, <2>2, SizesAssumption
    <3> QED
      BY <1>3, <1>4, <3>1, <3>2
  <2> QED
    BY <2>1, <2>2
<1>6. OrderIsRecency'
  <2>1. ToSet(KeysOf(data')) = Cached'
    BY <1>5, CachedKeys DEF Cached
  <2> QED
    BY <1>5, <2>1 DEF OrderIsRecency
<1>7. putAt' \in [Keys -> Nat] /\ \A x \in Keys : putAt'[x] = IF x = k THEN now ELSE putAt[x]
  BY <1>1, <1>2 DEF CacheInv, CacheTypes
<1>8. CachedWasPut'
  <2> SUFFICES ASSUME NEW x \in ToSet(s) PROVE x.at = putAt'[x.key] /\ x.key \in ToSet(recent')
    BY <1>5 DEF CachedWasPut
  <2>1. CASE x = e
    BY <1>2, <1>3, <1>7, <2>1
  <2>2. CASE x \in ToSet(data) /\ x.key # k
    <3>1. x \in Entries
      BY <2>2, CachedKeys DEF CacheInv, CacheTypes
    <3>2. x.key \in Keys
      BY <3>1 DEF Entries
    <3> QED
      BY <1>3, <1>7, <2>2, <3>2 DEF CacheInv, CachedWasPut
  <2> QED
    BY <1>3, <2>1, <2>2
<1>9. CacheTypes' /\ PutPast'
  BY <1>1, <1>2, <1>3, <1>5, <1>7 DEF CacheInv, CacheTypes, PutPast
<1> QED
  BY <1>1, <1>3, <1>6, <1>8, <1>9 DEF CacheInv, ServedFresh

LEMMA CacheStep == IInv /\ CacheInv /\ [Next]_vars => CacheInv'
<1> SUFFICES ASSUME IInv, CacheInv, [Next]_vars PROVE CacheInv'
  OBVIOUS
<1>1. ASSUME now' = now \/ now' = now + 1, UNCHANGED <<data, key, served, putAt, recent>>
      PROVE  CacheInv'
  <2>1. now \in Nat /\ now <= now'
    BY <1>1 DEF IInv, LimiterTypes
  <2>2. PutPast'
    BY <1>1, <2>1 DEF CacheInv, CacheTypes, PutPast
  <2> QED
    BY <1>1, <2>2 DEF CacheInv, CacheTypes, CachedWasPut, ServedFresh, OneEach, OrderIsRecency, Cached
<1>2. CASE Tick \/ UNCHANGED vars
  BY <1>1, <1>2 DEF Tick, vars, history
<1>3. ASSUME NEW t \in Threads, NEW k \in Keys, Hit(t, k) \/ Miss(t, k) PROVE CacheInv'
  BY <1>3, HitKeepsCache, MissKeepsCache
<1>4. ASSUME NEW t \in Threads, Acquire(t) \/ Release(t) \/ Send(t) \/ Fails(t) PROVE CacheInv'
  BY <1>1, <1>4 DEF Acquire, Release, Send, Fails, history
<1>5. ASSUME NEW t \in Threads, Listings(t) PROVE CacheInv'
  BY <1>5, ListingsKeepCache
<1> QED
  BY <1>2, <1>3, <1>4, <1>5 DEF Next

LEMMA CacheInit == Init => CacheInv
<1> SUFFICES ASSUME Init PROVE CacheInv
  OBVIOUS
<1>1. data = <<>> /\ recent = <<>> /\ ToSet(data) = {} /\ Cached = {} /\ KeysOf(data) = <<>>
  BY DEF Init, ToSet, Cached, KeysOf
<1>2. Within(recent, Cached) = <<>>
  BY <1>1, WithinEmpty
<1>3. CacheTypes /\ PutPast
  BY SizesAssumption DEF Init, CacheTypes, PutPast
<1> QED
  BY <1>1, <1>2, <1>3, SizesAssumption
     DEF Init, CacheInv, CachedWasPut, ServedFresh, OneEach, OrderIsRecency

\* However threads interleave, what the cache holds was put by a success, is never served past
\* its time-to-live, and leaves in the order of its last use (fetcher.py:96-119).
THEOREM FetcherCacheCorrect == Spec => []CacheCorrect
<1>1. Init => IInv /\ CacheInv
  BY InitIInv, CacheInit
<1>2. IInv /\ CacheInv /\ [Next]_vars => (IInv /\ CacheInv)'
  BY StepIInv, CacheStep
<1>3. IInv /\ CacheInv => CacheCorrect
  BY DEF IInv, LimiterTypes, CacheInv, CacheTypes, CacheCorrect, TypeOK
<1> QED
  BY <1>1, <1>2, <1>3, PTL DEF Spec
=============================================================================
