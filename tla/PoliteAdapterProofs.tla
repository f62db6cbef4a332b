------------------------ MODULE PoliteAdapterProofs ------------------------
(***************************************************************************)
(* What holds of the Shopify adapter and of its polite client, each by     *)
(* itself and together, for any number of stores, references, pages and    *)
(* products, every interval, retry limit and choice of backoffs.           *)
(***************************************************************************)
EXTENDS PoliteAdapter, TLAPS

-----------------------------------------------------------------------------
\* The client by itself.

\* The client's notes agree with what it did: the time noted is the time of the
\* request, a cached verdict is the one answered, the loop counts its requests.
Notes == /\ last = sentAt
         /\ \A h \in Stores : /\ robots[h] = "unknown" <=> answer[h] = "none"
                              /\ robots[h] = "allow" <=> answer[h] \in {"rules_allow", "not_found"}
                              /\ sentAt[h] # Never => robots[h] = "allow"
         /\ clientPc = "robots" => robots[host] = "unknown" /\ tries = 0 /\ attempt = 0
         /\ clientPc = "limit" => robots[host] = "allow" /\ tries = attempt
         /\ clientPc = "response" => robots[host] = "allow" /\ tries = attempt + 1
         /\ tries <= MaxRetries + 1

ClientInv == Client!TypeOK /\ Notes

\* The verdict of every answer the request for robots.txt may get (http.py:64-83).
LEMMA Verdicts == \A a \in DOMAIN Client!Verdict :
                    /\ a # "none"
                    /\ Client!Verdict[a] \in {"allow", "disallow"}
                    /\ Client!Verdict[a] = "allow" <=> a \in {"rules_allow", "not_found"}
BY DEF Client!Verdict

\* A request leaves at a time on the clock, at least the interval after the last one.
LEMMA ReadyTime == ASSUME ClientInv, NEW h \in Stores
                   PROVE  /\ Client!Ready(h) \in Nat
                          /\ last[h] # Never => Client!Ready(h) >= last[h] + MinInterval
BY PolicyAssumption, NeverAssumption DEF ClientInv, Client!TypeOK, Client!Times, Client!Ready

LEMMA ClientInit == Client!Init => ClientInv
BY PolicyAssumption DEF Client!Init, ClientInv, Client!TypeOK, Client!Times, Notes

\* Every step of the client keeps its notes right.
LEMMA ClientStep == ClientInv /\ [Client!Next]_(Client!vars) => ClientInv'
<1> SUFFICES ASSUME ClientInv, [Client!Next]_(Client!vars) PROVE ClientInv'
  OBVIOUS
<1> USE PolicyAssumption, BackoffsAssumption
<1>1. ASSUME NEW h \in Stores, Client!Call(h) PROVE ClientInv'
  BY <1>1 DEF ClientInv, Client!TypeOK, Notes, Client!Call
<1>2. CASE Client!ReadRobots
  <2> PICK a \in DOMAIN Client!Verdict :
         /\ answer' = [answer EXCEPT ![host] = a]
         /\ robots' = [robots EXCEPT ![host] = Client!Verdict[a]]
         /\ clientPc' = IF Client!Verdict[a] = "allow" THEN "limit" ELSE "idle"
    BY <1>2 DEF Client!ReadRobots
  <2>1. Client!TypeOK'
    BY <1>2, Verdicts DEF ClientInv, Client!TypeOK, Client!Times, Client!ReadRobots
  <2>2. Notes'
    BY <1>2, Verdicts DEF ClientInv, Client!TypeOK, Notes, Client!ReadRobots
  <2> QED
    BY <2>1, <2>2 DEF ClientInv
<1>3. CASE Client!Send
  <2>1. now' = Client!Ready(host) /\ now' \in Nat
    BY <1>3, ReadyTime DEF ClientInv, Client!TypeOK, Client!Send
  <2>2. Client!TypeOK'
    BY <1>3, <2>1 DEF ClientInv, Client!TypeOK, Client!Times, Client!Send
  <2>3. Notes'
    BY <1>3, <2>1 DEF ClientInv, Client!TypeOK, Notes, Client!Send
  <2> QED
    BY <2>2, <2>3 DEF ClientInv
<1>4. CASE Client!Return
  BY <1>4 DEF ClientInv, Client!TypeOK, Notes, Client!Return, Client!history
<1>5. CASE Client!Retry
  BY <1>5 DEF ClientInv, Client!TypeOK, Notes, Client!Retry, Client!RetryAllowed, Client!history
<1>6. CASE Client!Tick
  BY <1>6 DEF ClientInv, Client!TypeOK, Notes, Client!Tick, Client!history
<1>7. CASE UNCHANGED Client!vars
  BY <1>7 DEF ClientInv, Client!TypeOK, Notes, Client!vars, Client!history
<1> QED
  BY <1>1, <1>2, <1>3, <1>4, <1>5, <1>6, <1>7 DEF Client!Next

-----------------------------------------------------------------------------
\* The adapter by itself.

InFetch == pc \in {"store", "page", "match"}

\* Whether the answer for r owes the product p of the store s.
Owed(r, s, p) == <<r, s>> \notin failed /\ s \in loaded /\ p \in catalog[s] \cap Matching[r]

\* Where the loops are.
Position == /\ InFetch => ref <= NReferences
            /\ pc = "page" => store <= NStores /\ store \notin loaded
            /\ pc = "match" => store <= NStores /\ store \in loaded
            /\ raised \subseteq {r \in References : r < ref}

\* Failures were noted for stores already visited.
PastFailures == \A r \in References, s \in Stores :
                  <<r, s>> \in failed => r < ref \/ (r = ref /\ InFetch /\ s < store)

\* A store passed for a reference and still not loaded failed for it.
PassedStores == \A r \in References, s \in Stores \ loaded : Passed(r, s) => <<r, s>> \in failed

\* The listings gathered are the ones owed by the stores visited.
PartialAnswer == InFetch =>
                   \A s \in Stores, p \in Products :
                     <<s, p>> \in listings <=> s < store /\ Owed(ref, s, p)

\* A store was loaded after every reference it failed for.
LoadedAfterFailure == \A s \in loaded :
                        /\ \/ loadedBy[s] < ref
                           \/ /\ loadedBy[s] = ref /\ InFetch
                              /\ s < store \/ (s = store /\ pc = "match")
                        /\ \A r \in References : <<r, s>> \in failed => r < loadedBy[s]

\* The load under way began at the first page and holds what its own pages held.
FreshLoad == /\ pc = "page" => <<ref, store, 1>> \in begun /\ products = got
             /\ pc = "match" /\ loadedBy[store] = ref
                  => <<ref, store, 1>> \in begun /\ catalog[store] = got
             /\ \A s \in Stores \ loaded : loadedBy[s] = 0

\* A store passed for a reference was in the cache, or was loaded for it with one outcome.
Retried == \A r \in References, s \in Stores :
             Passed(r, s) => IF s \in loaded /\ loadedBy[s] < r
                               THEN <<r, s>> \notin failed
                               ELSE /\ <<r, s, 1>> \in begun
                                    /\ loadedBy[s] = r <=> <<r, s>> \notin failed

AdapterInv == /\ TypeOK /\ Position /\ PastFailures /\ PassedStores /\ PartialAnswer
        /\ AnswersAreCatalogues /\ LoadedAfterFailure /\ StoresIndependent /\ FreshLoad /\ Retried

LEMMA AdapterInit == Init => AdapterInv
<1> SUFFICES ASSUME Init PROVE AdapterInv
  OBVIOUS
<1> USE SizesAssumption DEF Stores, References, InFetch, Passed, Answered
<1>1. TypeOK
  BY DEF Init, TypeOK
<1>2. Position /\ PastFailures /\ PartialAnswer
  BY DEF Init, Position, PastFailures, PartialAnswer
<1>3. PassedStores /\ AnswersAreCatalogues
  BY DEF Init, PassedStores, AnswersAreCatalogues, Answered
<1>4. LoadedAfterFailure /\ StoresIndependent
  BY DEF Init, LoadedAfterFailure, StoresIndependent
<1>5. FreshLoad /\ Retried
  BY DEF Init, FreshLoad, Retried
<1> QED
  BY <1>1, <1>2, <1>3, <1>4, <1>5 DEF AdapterInv

\* Every step keeps the invariant.
LEMMA AdapterStep == AdapterInv /\ [Next]_vars => AdapterInv'
<1> SUFFICES ASSUME AdapterInv, [Next]_vars PROVE AdapterInv'
  OBVIOUS
<1> USE SizesAssumption, MatchingAssumption
<1> USE DEF AdapterInv, Stores, References, history, load, InFetch, Passed, Answered
<1>1. CASE Fetch
  <2>1. TypeOK' /\ Position'
    BY <1>1 DEF Fetch, TypeOK, Position
  <2>2. PastFailures' /\ PassedStores'
    BY <1>1 DEF Fetch, TypeOK, PastFailures, PassedStores
  <2>3. PartialAnswer'
    BY <1>1 DEF Fetch, TypeOK, PartialAnswer, Owed
  <2>4. AnswersAreCatalogues' /\ LoadedAfterFailure' /\ StoresIndependent'
    BY <1>1 DEF Fetch, TypeOK, AnswersAreCatalogues, Answered, LoadedAfterFailure, StoresIndependent
  <2>5. FreshLoad' /\ Retried'
    BY <1>1 DEF Fetch, TypeOK, Position, LoadedAfterFailure, FreshLoad, Retried
  <2> QED
    BY <2>1, <2>2, <2>3, <2>4, <2>5
<1>2. CASE LoadCatalog
  <2> USE DEF Cached
  <2>0. /\ pc = "store" /\ store \in Stores /\ ref \in References /\ 1 \in 1..MaxPages
        /\ UNCHANGED <<loaded, catalog, ref, store, listings, answers, raised, loadedBy, failed>>
    BY <1>2 DEF LoadCatalog, TypeOK, Position
  <2>1. TypeOK' /\ Position'
    <3>1. CASE store \in loaded
      BY <1>2, <2>0, <3>1 DEF LoadCatalog, TypeOK, Position
    <3>2. CASE store \notin loaded
      <4>1. pc' = "page" /\ page' = 1 /\ products' = {} /\ got' = {}
            /\ begun' = begun \cup {<<ref, store, 1>>}
        BY <1>2, <3>2 DEF LoadCatalog
      <4>2. begun' \subseteq References \X Stores \X (1..MaxPages)
        BY <2>0, <4>1 DEF TypeOK
      <4> QED
        <5>1. TypeOK'
          BY <2>0, <4>1, <4>2 DEF TypeOK
        <5> QED
          BY <2>0, <3>2, <4>1, <5>1 DEF Position
    <3> QED
      BY <3>1, <3>2
  <2>2. PastFailures' /\ PassedStores'
    BY <1>2 DEF LoadCatalog, TypeOK, PastFailures, PassedStores
  <2>3. PartialAnswer'
    BY <1>2 DEF LoadCatalog, TypeOK, PartialAnswer, Owed
  <2>4. AnswersAreCatalogues' /\ LoadedAfterFailure' /\ StoresIndependent'
    BY <1>2 DEF LoadCatalog, TypeOK, AnswersAreCatalogues, Answered, LoadedAfterFailure, StoresIndependent
  <2>5. FreshLoad' /\ Retried'
    <3>1. CASE store \in loaded
      <4>1. pc' = "match" /\ UNCHANGED <<load, begun, got>>
        BY <1>2, <3>1 DEF LoadCatalog
      <4>2. loadedBy[store] # ref
        BY <2>0, <3>1 DEF TypeOK, LoadedAfterFailure
      <4> QED
        BY <2>0, <4>1, <4>2 DEF FreshLoad, Retried
    <3>2. CASE store \notin loaded
      <4>1. pc' = "page" /\ products' = {} /\ got' = {} /\ begun' = begun \cup {<<ref, store, 1>>}
        BY <1>2, <3>2 DEF LoadCatalog
      <4> QED
        BY <2>0, <4>1 DEF FreshLoad, Retried
    <3> QED
      BY <3>1, <3>2
  <2> QED
    BY <2>1, <2>2, <2>3, <2>4, <2>5
<1>3. ASSUME NEW gathered \in SUBSET Products, pc = "page", Cache(gathered), TypeOK',
             UNCHANGED <<ref, store, listings, answers, raised, failed, begun>>, gathered = got'
      PROVE  AdapterInv'
  <2>1. Position'
    BY <1>3 DEF Cache, TypeOK, Position
  <2>2. PastFailures' /\ PassedStores'
    BY <1>3 DEF Cache, TypeOK, PastFailures, PassedStores
  <2>3. PartialAnswer'
    <3>1. \A s \in Stores, p \in Products : s < store => (Owed(ref, s, p) <=> Owed(ref, s, p)')
      BY <1>3 DEF Cache, TypeOK, Position, Owed
    <3>2. store \in Nat /\ store' = store /\ ref' = ref /\ listings' = listings
      BY <1>3 DEF TypeOK
    <3> QED
      BY <1>3, <3>1, <3>2 DEF PartialAnswer, Owed
  <2>4. AnswersAreCatalogues'
    BY <1>3 DEF Cache, TypeOK, Position, PassedStores, AnswersAreCatalogues, Answered
  <2>5. LoadedAfterFailure'
    BY <1>3 DEF Cache, TypeOK, Position, PastFailures, LoadedAfterFailure
  <2>6. StoresIndependent'
    BY <1>3 DEF Cache, TypeOK, Position, StoresIndependent
  <2>7. FreshLoad'
    BY <1>3 DEF Cache, TypeOK, Position, FreshLoad
  <2>8. Retried'
    BY <1>3, SMTT(30) DEF Cache, TypeOK, Position, PassedStores, Retried
  <2> QED
    BY <1>3, <2>1, <2>2, <2>3, <2>4, <2>5, <2>6, <2>7, <2>8
<1>4. CASE PageOk
  <2> PICK batch \in SUBSET Products, full \in BOOLEAN :
         /\ products' = products \cup batch
         /\ got' = got \cup batch
         /\ IF LastPage(full) THEN Cache(products') /\ page' = page
                              ELSE page' = page + 1 /\ UNCHANGED <<loaded, catalog, loadedBy, pc>>
    BY <1>4 DEF PageOk
  <2>1. pc = "page" /\ UNCHANGED <<ref, store, listings, answers, raised, failed, begun>>
    BY <1>4 DEF PageOk
  <2>2. products' \in SUBSET Products /\ got' = products'
    BY <2>1 DEF TypeOK, FreshLoad
  <2>3. CASE LastPage(full)
    <3>1. TypeOK'
      <4>1. Cache(products') /\ page' = page /\ store \in Stores /\ ref \in References
        BY <2>1, <2>3 DEF TypeOK, Position
      <4>2. /\ loaded' \subseteq Stores /\ catalog' \in [Stores -> SUBSET Products]
            /\ loadedBy' \in [Stores -> 0..NReferences] /\ pc' = "match"
        BY <2>2, <4>1 DEF Cache, TypeOK
      <4> QED
        BY <2>1, <2>2, <4>1, <4>2 DEF TypeOK
    <3> QED
      BY <1>3, <2>1, <2>2, <2>3, <3>1
  <2>4. CASE ~LastPage(full)
    <3>1. TypeOK'
      <4>1. page # MaxPages /\ page' = page + 1 /\ UNCHANGED <<loaded, catalog, loadedBy, pc>>
        BY <2>4 DEF LastPage
      <4>2. page' \in 1..MaxPages
        BY <4>1 DEF TypeOK
      <4> QED
        BY <2>1, <2>2, <4>1, <4>2 DEF TypeOK
    <3> QED
      BY <2>1, <2>2, <2>4, <3>1 DEF Position, PastFailures, PassedStores, PartialAnswer, Owed,
         AnswersAreCatalogues, LoadedAfterFailure, StoresIndependent, FreshLoad, Retried
  <2> QED
    BY <2>3, <2>4
<1>5. CASE PageRefused
  <2>1. TypeOK'
    <3>1. store \in Stores /\ ref \in References
      BY <1>5 DEF PageRefused, TypeOK, Position
    <3>2. /\ loaded' \subseteq Stores /\ catalog' \in [Stores -> SUBSET Products]
          /\ loadedBy' \in [Stores -> 0..NReferences] /\ pc' = "match"
      BY <1>5, <3>1 DEF PageRefused, Cache, TypeOK
    <3> QED
      BY <1>5, <3>1, <3>2 DEF PageRefused, TypeOK
  <2> QED
    BY <1>3, <1>5, <2>1 DEF PageRefused, TypeOK, FreshLoad
<1>6. CASE PageRaises
  <2>1. TypeOK' /\ Position'
    <3>1. store \in Stores /\ store' = store + 1 /\ pc' = "store" /\ ref' = ref
      BY <1>6 DEF PageRaises, TypeOK, Position
    <3>2. store' \in 1..NStores + 1
      BY <3>1, SizesAssumption DEF Stores
    <3>3. failed' \in SUBSET (References \X Stores)
      BY <1>6, <3>1 DEF PageRaises, TypeOK, Position
    <3>4. TypeOK'
      BY <1>6, <3>1, <3>2, <3>3 DEF PageRaises, TypeOK
    <3>5. Position'
      BY <1>6, <3>1 DEF PageRaises, TypeOK, Position
    <3> QED
      BY <3>4, <3>5
  <2>2. PastFailures' /\ PassedStores'
    BY <1>6 DEF PageRaises, TypeOK, PastFailures, PassedStores
  <2>3. PartialAnswer'
    <3>1. \A s \in Stores, p \in Products : Owed(ref, s, p)' <=> s # store /\ Owed(ref, s, p)
      BY <1>6 DEF PageRaises, TypeOK, Position, Owed
    <3> QED
      <4>1. store \in Stores /\ store' = store + 1 /\ ref' = ref /\ listings' = listings /\ pc = "page"
        BY <1>6 DEF PageRaises, TypeOK, Position
      <4> SUFFICES ASSUME NEW s \in Stores, NEW p \in Products
                   PROVE  <<s, p>> \in listings <=> s < store + 1 /\ Owed(ref, s, p)'
        BY <4>1 DEF PartialAnswer, Owed
      <4>2. <<s, p>> \in listings <=> s < store /\ Owed(ref, s, p)
        BY <4>1 DEF PartialAnswer
      <4>3. Owed(ref, s, p)' <=> s # store /\ Owed(ref, s, p)
        BY <3>1, <4>1 DEF Owed
      <4> QED
        BY <4>1, <4>2, <4>3
  <2>4. AnswersAreCatalogues'
    BY <1>6 DEF PageRaises, TypeOK, Position, AnswersAreCatalogues, Answered
  <2>5. LoadedAfterFailure' /\ StoresIndependent'
    BY <1>6 DEF PageRaises, TypeOK, Position, LoadedAfterFailure, StoresIndependent
  <2>6. FreshLoad' /\ Retried'
    <3>1. FreshLoad'
      BY <1>6 DEF PageRaises, FreshLoad
    <3>2. Retried'
      <4>1. /\ pc = "page" /\ store \in Stores /\ store \notin loaded /\ ref \in References
            /\ <<ref, store, 1>> \in begun /\ failed' = failed \cup {<<ref, store>>}
            /\ store' = store + 1 /\ pc' = "store"
            /\ UNCHANGED <<loaded, ref, raised, loadedBy, begun>>
        BY <1>6 DEF PageRaises, TypeOK, Position, FreshLoad
      <4> SUFFICES ASSUME NEW r \in References, NEW s \in Stores, Passed(r, s)'
                   PROVE  IF s \in loaded /\ loadedBy[s] < r
                            THEN <<r, s>> \notin failed'
                            ELSE /\ <<r, s, 1>> \in begun
                                 /\ loadedBy[s] = r <=> <<r, s>> \notin failed'
        BY <4>1 DEF Retried
      <4>2. CASE r = ref /\ s = store
        BY <4>1, <4>2 DEF TypeOK, FreshLoad
      <4>3. CASE ~(r = ref /\ s = store)
        <5>1. Passed(r, s)
          BY <4>1, <4>3 DEF TypeOK
        <5> QED
          BY <4>1, <4>3, <5>1 DEF Retried
      <4> QED
        BY <4>2, <4>3
    <3> QED
      BY <3>1, <3>2
  <2> QED
    BY <2>1, <2>2, <2>3, <2>4, <2>5, <2>6
<1>7. CASE MatchStore
  <2> DEFINE Found == {store} \X (catalog[store] \cap Matching[ref])
  <2>1. pc = "match" /\ UNCHANGED <<loaded, catalog, answers, failed, loadedBy, begun, got>>
    BY <1>7 DEF MatchStore
  <2>2. store \in Stores /\ store \in loaded /\ ref \in References
    BY <2>1 DEF TypeOK, Position
  <2>3. CASE catalog[store] \cap Malformed[ref] = {}
    <3>1. listings' = listings \cup Found /\ store' = store + 1 /\ pc' = "store"
          /\ UNCHANGED <<ref, raised, page, products>>
      BY <1>7, <2>3 DEF MatchStore, Gathered
    <3>2. Found \subseteq Stores \X Products
      BY <2>2 DEF TypeOK
    <3>3. TypeOK' /\ Position'
      <4>1. TypeOK'
        BY <2>1, <2>2, <3>1, <3>2 DEF TypeOK
      <4> QED
        BY <2>1, <2>2, <3>1, <4>1 DEF TypeOK, Position
    <3>4. PastFailures' /\ PassedStores'
      BY <2>1, <2>2, <3>1, SMTT(30) DEF TypeOK, PastFailures, PassedStores
    <3>5. PartialAnswer'
      <4> SUFFICES ASSUME NEW s \in Stores, NEW p \in Products
                   PROVE  <<s, p>> \in listings' <=> s < store + 1 /\ Owed(ref, s, p)
        BY <2>1, <3>1 DEF PartialAnswer, Owed
      <4>1. <<s, p>> \in Found <=> s = store /\ p \in catalog[store] \cap Matching[ref]
        OBVIOUS
      <4>2. <<ref, store>> \notin failed
        BY <2>1, <2>2 DEF PastFailures, TypeOK
      <4>3. <<s, p>> \in listings <=> s < store /\ Owed(ref, s, p)
        BY <2>1 DEF PartialAnswer
      <4> QED
        <5>1. CASE s = store
          BY <2>2, <3>1, <4>1, <4>2, <4>3, <5>1 DEF Owed
        <5>2. CASE s # store
          BY <2>2, <3>1, <4>1, <4>3, <5>2
        <5> QED
          BY <5>1, <5>2
    <3>6. AnswersAreCatalogues' /\ LoadedAfterFailure' /\ StoresIndependent'
      <4>1. AnswersAreCatalogues' /\ StoresIndependent'
        BY <2>1, <3>1 DEF AnswersAreCatalogues, StoresIndependent
      <4>2. LoadedAfterFailure'
        BY <2>1, <2>2, <3>1 DEF TypeOK, LoadedAfterFailure
      <4> QED
        BY <4>1, <4>2
    <3>7. FreshLoad' /\ Retried'
      <4>1. FreshLoad'
        BY <2>1, <3>1 DEF FreshLoad
      <4>2. <<ref, store>> \notin failed
        BY <2>1, <2>2 DEF PastFailures, TypeOK
      <4>3. loadedBy[store] < ref \/ loadedBy[store] = ref
        BY <2>1, <2>2 DEF LoadedAfterFailure
      <4>4. Retried'
        <5> SUFFICES ASSUME NEW r \in References, NEW s \in Stores, Passed(r, s)'
                     PROVE  IF s \in loaded /\ loadedBy[s] < r
                              THEN <<r, s>> \notin failed
                              ELSE /\ <<r, s, 1>> \in begun
                                   /\ loadedBy[s] = r <=> <<r, s>> \notin failed
          BY <2>1 DEF Retried
        <5>1. CASE r = ref /\ s = store
          BY <2>1, <2>2, <4>2, <4>3, <5>1 DEF TypeOK, FreshLoad
        <5>2. CASE ~(r = ref /\ s = store)
          <6>1. Passed(r, s)
            BY <2>1, <2>2, <3>1, <5>2 DEF TypeOK
          <6> QED
            BY <6>1 DEF Retried
        <5> QED
          BY <5>1, <5>2
      <4> QED
        BY <4>1, <4>4
    <3> QED
      BY <3>3, <3>4, <3>5, <3>6, <3>7
  <2>4. CASE catalog[store] \cap Malformed[ref] # {}
    <3>1. raised' = raised \cup {ref} /\ ref' = ref + 1 /\ pc' = "reference"
          /\ UNCHANGED <<store, listings, page, products>>
      BY <1>7, <2>4 DEF MatchStore
    <3>2. TypeOK' /\ Position'
      <4>1. TypeOK'
        BY <2>1, <2>2, <3>1 DEF TypeOK
      <4>2. Position'
        BY <2>1, <2>2, <3>1 DEF TypeOK, Position
      <4> QED
        BY <4>1, <4>2
    <3>3. PastFailures' /\ PassedStores' /\ PartialAnswer'
      <4>1. PastFailures'
        BY <2>1, <2>2, <3>1 DEF TypeOK, PastFailures
      <4>2. PassedStores'
        BY <2>1, <2>2, <3>1 DEF TypeOK, PassedStores
      <4>3. PartialAnswer'
        BY <3>1 DEF PartialAnswer
      <4> QED
        BY <4>1, <4>2, <4>3
    <3>4. Answered' = Answered
      BY <2>1, <2>2, <3>1 DEF TypeOK, Answered
    <3>5. AnswersAreCatalogues'
      BY <2>1, <3>1, <3>4 DEF AnswersAreCatalogues
    <3>6. LoadedAfterFailure' /\ StoresIndependent'
      BY <2>1, <2>2, <2>4, <3>1, SMTT(30) DEF TypeOK, LoadedAfterFailure, StoresIndependent
    <3>7. FreshLoad' /\ Retried'
      BY <2>1, <2>2, <3>1 DEF TypeOK, FreshLoad, Retried
    <3> QED
      BY <3>2, <3>3, <3>5, <3>6, <3>7
  <2> QED
    BY <2>3, <2>4
<1>8. CASE Return
  <2>1. ref \in References /\ pc = "store" /\ store = NStores + 1
    BY <1>8 DEF Return, TypeOK, Position
  <2>2. TypeOK' /\ Position'
    BY <1>8, <2>1, SMTT(30) DEF Return, TypeOK, Position
  <2>3. PastFailures' /\ PassedStores' /\ PartialAnswer'
    <3>1. PastFailures'
      BY <1>8, <2>1 DEF Return, TypeOK, PastFailures
    <3>2. PassedStores'
      BY <1>8, <2>1 DEF Return, TypeOK, PassedStores
    <3>3. PartialAnswer'
      BY <1>8 DEF Return, PartialAnswer
    <3> QED
      BY <3>1, <3>2, <3>3
  <2>4. AnswersAreCatalogues'
    <3> SUFFICES ASSUME NEW r \in References, r \in Answered', NEW s \in Stores, NEW p \in Products
                 PROVE  <<s, p>> \in answers'[r] <=> Owed(r, s, p)
      BY <1>8 DEF Return, AnswersAreCatalogues, Answered, Owed
    <3>1. CASE r = ref
      BY <1>8, <2>1, <3>1 DEF Return, TypeOK, PartialAnswer
    <3>2. CASE r # ref
      BY <1>8, <2>1, <3>2 DEF Return, TypeOK, AnswersAreCatalogues, Answered, Owed
    <3> QED
      BY <3>1, <3>2
  <2>5. LoadedAfterFailure' /\ StoresIndependent'
    BY <1>8, <2>1, SMTT(30) DEF Return, TypeOK, LoadedAfterFailure, StoresIndependent
  <2>6. FreshLoad' /\ Retried'
    BY <1>8, <2>1 DEF Return, TypeOK, FreshLoad, Retried
  <2> QED
    BY <2>2, <2>3, <2>4, <2>5, <2>6
<1>9. CASE Finish
  <2>1. pc' = "end" /\ pc = "reference"
        /\ UNCHANGED <<loaded, catalog, ref, store, load, listings, answers, raised, history>>
    BY <1>9 DEF Finish
  <2> QED
    BY <2>1 DEF TypeOK, Position, PastFailures, PassedStores, PartialAnswer, Owed,
       AnswersAreCatalogues, LoadedAfterFailure, StoresIndependent, FreshLoad, Retried
<1>10. CASE UNCHANGED vars
  <2>1. TypeOK' /\ Position' /\ PastFailures' /\ PassedStores' /\ PartialAnswer'
    BY <1>10 DEF vars, TypeOK, Position, PastFailures, PassedStores, PartialAnswer, Owed
  <2>2. AnswersAreCatalogues' /\ LoadedAfterFailure' /\ StoresIndependent'
    BY <1>10 DEF vars, AnswersAreCatalogues, LoadedAfterFailure, StoresIndependent
  <2>3. FreshLoad' /\ Retried'
    BY <1>10 DEF vars, FreshLoad, Retried
  <2> QED
    BY <2>1, <2>2, <2>3
<1> QED
  BY <1>1, <1>2, <1>4, <1>5, <1>6, <1>7, <1>8, <1>9, <1>10 DEF Next

-----------------------------------------------------------------------------
\* The two together.

\* A call of get is for the page the adapter waits for, and what is loaded was allowed.
Together == /\ clientPc # "idle" => pc = "page" /\ host = store
            /\ \A s \in loaded : answer[s] \in {"rules_allow", "not_found"}

LEMMA ClientUnchanged == UNCHANGED client <=> UNCHANGED Client!vars
BY DEF client, Client!vars, Client!history

\* Every step of the crawl is a step of the adapter, or none, and one of the client, or none.
LEMMA CrawlSteps ==
  ASSUME AdapterInv, [CrawlNext]_<<vars, client>>
  PROVE  [Next]_vars /\ [Client!Next]_(Client!vars)
<1>1. CASE Get
  <2>1. store \in Stores
    BY <1>1, SizesAssumption DEF Get, AdapterInv, TypeOK, Position, Stores
  <2>2. Client!Next
    BY <1>1, <2>1 DEF Get, Client!Next
  <2> QED
    BY <1>1, <2>2 DEF Get, Disallowed, Next
<1>2. CASE RobotsTxt
  BY <1>2 DEF RobotsTxt, Disallowed, Next, Client!Next
<1>3. CASE Request
  BY <1>3 DEF Request, Client!Next
<1>4. CASE Response
  BY <1>4 DEF Response, Next, Client!Next
<1>5. CASE Inside
  BY <1>5, ClientUnchanged DEF Inside, Next
<1>6. CASE Time
  BY <1>6 DEF Time, Client!Next
<1>7. CASE UNCHANGED <<vars, client>>
  BY <1>7, ClientUnchanged
<1> QED
  BY <1>1, <1>2, <1>3, <1>4, <1>5, <1>6, <1>7 DEF CrawlNext

CrawlInv == AdapterInv /\ ClientInv /\ Together

LEMMA TogetherInit == CrawlInit => Together
BY DEF CrawlInit, Init, Client!Init, Together

LEMMA TogetherStep == ASSUME CrawlInv, [CrawlNext]_<<vars, client>> PROVE Together'
<1> USE DEF CrawlInv, Together, history, load
<1>1. CASE Get
  BY <1>1 DEF Get, Client!Call, Disallowed, PageRaises, vars
<1>2. CASE RobotsTxt
  <2>1. PICK a \in DOMAIN Client!Verdict :
          /\ answer' = [answer EXCEPT ![host] = a]
          /\ clientPc' = IF Client!Verdict[a] = "allow" THEN "limit" ELSE "idle"
    BY <1>2 DEF RobotsTxt, Client!ReadRobots
  <2>2. clientPc = "robots" /\ pc = "page" /\ host = store /\ host' = host
    BY <1>2 DEF RobotsTxt, Client!ReadRobots
  <2>3. loaded' = loaded /\ (clientPc' # "idle" => pc' = pc /\ store' = store)
    BY <1>2 DEF RobotsTxt, Disallowed, PageRaises, vars
  <2>4. store \notin loaded
    BY <2>2 DEF AdapterInv, Position
  <2>5. \A s \in loaded : answer'[s] = answer[s]
    BY <2>1, <2>2, <2>4 DEF ClientInv, Client!TypeOK, AdapterInv, TypeOK
  <2> QED
    BY <2>2, <2>3, <2>5
<1>3. CASE Request
  BY <1>3 DEF Request, Client!Send, Client!Retry, Client!history, vars
<1>4. CASE Response
  <2>1. clientPc = "response" /\ pc = "page" /\ host = store /\ clientPc' = "idle" /\ answer' = answer
    BY <1>4 DEF Response, Client!Return, Client!history
  <2>2. store \in Stores
    BY <2>1, SizesAssumption DEF AdapterInv, TypeOK, Position, Stores
  <2>3. answer[store] \in {"rules_allow", "not_found"}
    BY <2>1, <2>2 DEF ClientInv, Notes
  <2>4. loaded' \subseteq loaded \cup {store}
    BY <1>4 DEF Response, PageOk, PageRefused, PageRaises, Cache
  <2> QED
    BY <2>1, <2>3, <2>4
<1>5. CASE Inside
  <2>1. loaded' = loaded /\ UNCHANGED client
    BY <1>5 DEF Inside, Fetch, LoadCatalog, MatchStore, Return, Finish
  <2>2. pc # "page"
    BY <1>5 DEF Inside, Fetch, LoadCatalog, MatchStore, Return, Finish
  <2> QED
    BY <2>1, <2>2 DEF client
<1>6. CASE Time
  BY <1>6 DEF Time, Client!Tick, Client!history, vars
<1>7. CASE UNCHANGED <<vars, client>>
  BY <1>7 DEF vars, client
<1> QED
  BY <1>1, <1>2, <1>3, <1>4, <1>5, <1>6, <1>7 DEF CrawlNext

\* The invariant the theorems rest on: of the adapter, of the client and of both.
THEOREM CrawlInvariant == CrawlSpec => []CrawlInv
<1>1. CrawlInit => CrawlInv
  BY AdapterInit, ClientInit, TogetherInit DEF CrawlInit, CrawlInv
<1>2. CrawlInv /\ [CrawlNext]_<<vars, client>> => CrawlInv'
  BY CrawlSteps, AdapterStep, ClientStep, TogetherStep DEF CrawlInv
<1> QED
  BY <1>1, <1>2, PTL DEF CrawlSpec

\* Every behaviour of the two together is one of the adapter and one of the client, so that
\* what holds of either by itself holds of it (shopify.py:103-204, http.py:106-133).
THEOREM CrawlRunsBoth == CrawlSpec => Spec /\ Client!Spec
<1>1. CrawlInit => Init /\ Client!Init
  BY DEF CrawlInit
<1>2. CrawlInv /\ [CrawlNext]_<<vars, client>> => [Next]_vars /\ [Client!Next]_(Client!vars)
  BY CrawlSteps DEF CrawlInv
<1> QED
  BY <1>1, <1>2, CrawlInvariant, PTL DEF CrawlSpec, Spec, Client!Spec

\* The invariants of the adapter and of the client by themselves.
LEMMA AdapterInvariant == Spec => []AdapterInv
BY AdapterInit, AdapterStep, PTL DEF Spec

LEMMA ClientInvariant == Client!Spec => []ClientInv
BY ClientInit, ClientStep, PTL DEF Client!Spec

-----------------------------------------------------------------------------
\* Every variable of the adapter and of the client keeps its type.
THEOREM TypeCorrect == CrawlSpec => [](TypeOK /\ Client!TypeOK)
<1>1. CrawlInv => TypeOK /\ Client!TypeOK
  BY DEF CrawlInv, AdapterInv, ClientInv
<1> QED
  BY <1>1, CrawlInvariant, PTL

\* A store whose robots.txt forbids it, could not be read or failed is never sent a page
\* request and never taken for an empty one (http.py:58-86, 112-113; shopify.py:191-200).
THEOREM CrawlHonoursRobots == CrawlSpec => []RobotsHonoured
<1>1. CrawlInv => RobotsHonoured
  BY DEF CrawlInv, ClientInv, Notes, Together, RobotsHonoured, Client!RobotsHonoured
<1> QED
  BY <1>1, CrawlInvariant, PTL

\* One call of get sends at most max_retries + 1 page requests (http.py:117-131).
THEOREM ClientCallsBounded == Client!Spec => []Client!CallBounded
<1>1. ClientInv => Client!CallBounded
  BY DEF ClientInv, Notes, Client!CallBounded
<1> QED
  BY <1>1, ClientInvariant, PTL

\* The verdict on a host is read once in the life of a client (http.py:60-62, 82).
THEOREM ClientReadsRobotsOnce == Client!Spec => Client!RobotsReadOnce
<1>1. ClientInv /\ [Client!Next]_(Client!vars) => [Client!RobotsStepStable]_(Client!vars)
  <2> SUFFICES ASSUME ClientInv, Client!Next PROVE Client!RobotsStepStable
    BY DEF Client!vars
  <2>1. CASE Client!ReadRobots
    BY <2>1 DEF ClientInv, Client!TypeOK, Notes, Client!ReadRobots, Client!RobotsStepStable
  <2>2. CASE UNCHANGED answer
    BY <2>2 DEF Client!RobotsStepStable
  <2> QED
    BY <2>1, <2>2 DEF Client!Next, Client!Call, Client!Send, Client!Return, Client!Retry, Client!Tick,
       Client!history
<1> QED
  BY <1>1, ClientInvariant, PTL DEF Client!Spec, Client!RobotsReadOnce

\* Two page requests of a crawl to one store are at least the minimum interval apart,
\* whatever backoffs, Retry-After headers and pages of other stores lie between
\* (http.py:89-95).
THEOREM CrawlSpacesPages == CrawlSpec => PagesSpaced
<1>1. ClientInv /\ [Client!Next]_(Client!vars) => [Client!SpacedStep]_(Client!vars)
  <2> SUFFICES ASSUME ClientInv, Client!Next PROVE Client!SpacedStep
    BY DEF Client!vars
  <2>1. CASE Client!Send
    <3>1. host \in Stores /\ sentAt'[host] = Client!Ready(host)
      BY <2>1 DEF ClientInv, Client!TypeOK, Client!Send
    <3> QED
      BY <3>1, ReadyTime DEF ClientInv, Notes, Client!SpacedStep
  <2>2. CASE tries' = tries \/ tries' = 0
    BY <2>2 DEF ClientInv, Client!TypeOK, Client!SpacedStep
  <2> QED
    BY <2>1, <2>2 DEF Client!Next, Client!Call, Client!ReadRobots, Client!Return, Client!Retry,
       Client!Tick, Client!history
<1>2. [Client!SpacedStep]_(Client!vars) => [Client!SpacedStep]_client
  BY ClientUnchanged
<1> QED
  BY <1>1, <1>2, ClientInvariant, CrawlRunsBoth, PTL DEF Client!Spec, PagesSpaced

\* Every answer is the matches of the catalogues the run keeps, without the stores that
\* failed for it (shopify.py:187-204).
THEOREM CrawlAnswersAreCatalogues == CrawlSpec => []AnswersAreCatalogues
BY CrawlRunsBoth, AdapterInvariant, PTL DEF AdapterInv

\* Only a malformed product in a catalogue the reference was matched against costs it the
\* answers of every store (shopify.py:190-200).
THEOREM CrawlStoresIndependent == CrawlSpec => []StoresIndependent
BY CrawlRunsBoth, AdapterInvariant, PTL DEF AdapterInv

\* Every reference that finds a store missing from the cache loads it again from the first
\* page, whatever failed before, and what is cached is what this load's own pages held
\* (shopify.py:103-130, 193-200).
THEOREM CrawlForgetsFailures == CrawlSpec => []FailureForgotten
<1>1. AdapterInv => FailureForgotten
  BY DEF AdapterInv, FreshLoad, Retried, FailureForgotten
<1> QED
  BY <1>1, CrawlRunsBoth, AdapterInvariant, PTL

\* A catalogue loaded once is the one every later reference of the run is matched against
\* (shopify.py:103-106).
THEOREM CrawlFreezesCatalogues == CrawlSpec => CataloguesFrozen
<1>1. AdapterInv /\ [Next]_vars => [CatalogueStep]_vars
  <2> SUFFICES ASSUME AdapterInv, Next PROVE CatalogueStep
    BY DEF vars
  <2>1. ASSUME NEW gathered, pc = "page", Cache(gathered) PROVE CatalogueStep
    BY <2>1 DEF AdapterInv, TypeOK, Position, Cache, CatalogueStep
  <2>2. CASE UNCHANGED <<loaded, catalog>>
    BY <2>2 DEF CatalogueStep
  <2>3. CASE PageOk
    BY <2>1, <2>2, <2>3 DEF PageOk
  <2>4. CASE PageRefused
    BY <2>1, <2>4 DEF PageRefused
  <2> QED
    BY <2>2, <2>3, <2>4 DEF Next, Fetch, LoadCatalog, PageRaises, MatchStore, Return, Finish
<1> QED
  BY <1>1, CrawlRunsBoth, AdapterInvariant, PTL DEF Spec, CataloguesFrozen
=============================================================================
