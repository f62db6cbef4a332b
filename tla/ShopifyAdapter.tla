--------------------------- MODULE ShopifyAdapter ---------------------------
(***************************************************************************)
(* The Shopify adapter in one crawl run: for every reference, in turn, the *)
(* stores' catalogues (paged, loaded once, cached for the run) are matched *)
(* against the reference.  A page is the set of its products and whether   *)
(* it was full; order and repetition do not outlive storage.  A reference  *)
(* is what fetch is called with by _iterate of the runner, which counts an *)
(* exception as a failed reference.  Recording the rows is module Crawl,   *)
(* the client that requests a page is module PoliteAdapter.                *)
(***************************************************************************)
EXTENDS Naturals, FiniteSets

CONSTANTS NStores, NReferences,
          Products,
          Matching,   \* the products a reference matches, _matches
          Malformed,  \* products that raise when matched against a reference: for each one
                      \* when not a dict, for those it matches when variants is a dict
          MaxPages    \* max_pages

ASSUME SizesAssumption == NStores \in Nat /\ NReferences \in Nat /\ MaxPages \in Nat \ {0}
ASSUME MatchingAssumption == Matching \in [1..NReferences -> SUBSET Products]
ASSUME MalformedAssumption == Malformed \in [1..NReferences -> SUBSET Products]

Stores == 1..NStores
References == 1..NReferences

VARIABLES loaded, catalog,        \* _catalog: its keys and its values
          pc, ref, store,         \* the loops of _iterate and fetch
          page, products,         \* the locals of _load_catalog
          listings,               \* the local of fetch: pairs of a store and a product
          answers,                \* what fetch returned for each reference so far
          raised,                 \* references fetch raised for
          loadedBy, failed,       \* history: the reference a store was loaded for, the
                                  \* references and stores of the loads that raised
          begun, got              \* history: reference, store and first page of every load,
                                  \* what the pages of the last one held

load == <<page, products>>
history == <<loadedBy, failed, begun, got>>
vars == <<loaded, catalog, pc, ref, store, load, listings, answers, raised, history>>

TypeOK == /\ loaded \subseteq Stores
          /\ catalog \in [Stores -> SUBSET Products]
          /\ pc \in {"reference", "store", "page", "match", "end"}
          /\ ref \in 1..NReferences + 1
          /\ store \in 1..NStores + 1
          /\ page \in 1..MaxPages
          /\ products \subseteq Products
          /\ listings \subseteq Stores \X Products
          /\ answers \in [References -> SUBSET (Stores \X Products)]
          /\ raised \subseteq References
          /\ loadedBy \in [Stores -> 0..NReferences]
          /\ failed \subseteq References \X Stores
          /\ begun \subseteq References \X Stores \X (1..MaxPages)
          /\ got \subseteq Products

Init == /\ loaded = {}
        /\ catalog = [s \in Stores |-> {}]
        /\ pc = "reference" /\ ref = 1 /\ store = 1
        /\ page = 1 /\ products = {}
        /\ listings = {}
        /\ answers = [r \in References |-> {}]
        /\ raised = {}
        /\ loadedBy = [s \in Stores |-> 0]
        /\ failed = {} /\ begun = {} /\ got = {}

\* The runner calls fetch for the next reference.
Fetch == /\ pc = "reference" /\ ref <= NReferences
         /\ listings' = {}
         /\ store' = 1
         /\ pc' = "store"
         /\ UNCHANGED <<loaded, catalog, ref, load, answers, raised, history>>

\* Mutant: a store that failed is kept in the cache, as one that sells nothing.
CachedFailure == store \in loaded \/ \E r \in References : <<r, store>> \in failed

\* _load_catalog finds the store in its cache.
Cached == store \in loaded

LoadCatalog == /\ pc = "store" /\ store <= NStores
               /\ IF Cached
                    THEN pc' = "match" /\ UNCHANGED <<load, begun, got>>
                    ELSE /\ page' = 1 /\ products' = {}
                         /\ begun' = begun \cup {<<ref, store, page'>>} /\ got' = {}
                         /\ pc' = "page"
               /\ UNCHANGED <<loaded, catalog, ref, store, listings, answers, raised, loadedBy, failed>>

\* The loop of _load_catalog is over: cache what it gathered.
Cache(gathered) == /\ loaded' = loaded \cup {store}
                   /\ catalog' = [catalog EXCEPT ![store] = gathered]
                   /\ loadedBy' = [loadedBy EXCEPT ![store] = ref]
                   /\ pc' = "match"

LastPage(full) == ~full \/ page = MaxPages

\* A page of products; an empty page is one that is not full.
PageOk == /\ pc = "page"
          /\ \E batch \in SUBSET Products, full \in BOOLEAN :
               /\ full => batch # {}
               /\ products' = products \cup batch
               /\ got' = got \cup batch
               /\ IF LastPage(full)
                    THEN Cache(products') /\ page' = page
                    ELSE page' = page + 1 /\ UNCHANGED <<loaded, catalog, loadedBy, pc>>
          /\ UNCHANGED <<ref, store, listings, answers, raised, failed, begun>>

\* A page whose status is not 200 ends the loop like an empty one.
PageRefused == /\ pc = "page"
               /\ Cache(products)
               /\ UNCHANGED <<ref, store, load, listings, answers, raised, failed, begun, got>>

\* Mutant: a store that failed is tried again at once.
PageRaisesAgain == /\ pc = "page"
                   /\ failed' = failed \cup {<<ref, store>>}
                   /\ pc' = "store"
                   /\ UNCHANGED <<loaded, catalog, ref, store, load, listings, answers, raised,
                                  loadedBy, begun, got>>

\* Mutant: the exception of one store leaves fetch.
PageRaisesOut == /\ pc = "page"
                 /\ failed' = failed \cup {<<ref, store>>}
                 /\ raised' = raised \cup {ref}
                 /\ ref' = ref + 1
                 /\ pc' = "reference"
                 /\ UNCHANGED <<loaded, catalog, store, load, listings, answers, loadedBy, begun, got>>

\* Robots, the network or a body that is no JSON: fetch goes on with the next store.
PageRaises == /\ pc = "page"
              /\ failed' = failed \cup {<<ref, store>>}
              /\ store' = store + 1
              /\ pc' = "store"
              /\ UNCHANGED <<loaded, catalog, ref, load, listings, answers, raised, loadedBy,
                             begun, got>>

\* Mutant: a store's listings replace the ones of the stores before it.
Gather(found) == found

Gathered(found) == listings \cup found

\* The products of the store that match; a malformed product raises out of fetch.
MatchStore == /\ pc = "match"
              /\ IF catalog[store] \cap Malformed[ref] = {}
                   THEN /\ listings' = Gathered({store} \X (catalog[store] \cap Matching[ref]))
                        /\ store' = store + 1
                        /\ pc' = "store"
                        /\ UNCHANGED <<ref, raised>>
                   ELSE /\ raised' = raised \cup {ref}
                        /\ ref' = ref + 1
                        /\ pc' = "reference"
                        /\ UNCHANGED <<store, listings>>
              /\ UNCHANGED <<loaded, catalog, load, answers, history>>

Return == /\ pc = "store" /\ store > NStores
          /\ answers' = [answers EXCEPT ![ref] = listings]
          /\ ref' = ref + 1
          /\ pc' = "reference"
          /\ UNCHANGED <<loaded, catalog, store, load, listings, raised, history>>

\* _iterate is over; what it makes of the references that raised is module Crawl.
Finish == /\ pc = "reference" /\ ref > NReferences
          /\ pc' = "end"
          /\ UNCHANGED <<loaded, catalog, ref, store, load, listings, answers, raised, history>>

Next == \/ Fetch \/ LoadCatalog \/ PageOk \/ PageRefused \/ PageRaises
        \/ MatchStore \/ Return \/ Finish

Spec == Init /\ [][Next]_vars

-----------------------------------------------------------------------------
Answered == {r \in References : r < ref /\ r \notin raised}

\* Whatever the order in which stores fail, recover and answer, the answer for a reference
\* is every match of the catalogue the run keeps for each store that did not fail for it,
\* the stores loaded for an earlier or a later reference included.
AnswersAreCatalogues ==
  \A r \in Answered, s \in Stores, p \in Products :
    <<s, p>> \in answers[r] <=> /\ <<r, s>> \notin failed
                                /\ s \in loaded
                                /\ p \in catalog[s] \cap Matching[r]

\* A store is loaded for one reference and every later one of the run sees the same
\* catalogue: two rows of one run never come from two states of a store.
CatalogueStep == \A s \in loaded : s \in loaded' /\ catalog'[s] = catalog[s]
CataloguesFrozen == [][CatalogueStep]_vars

\* fetch has come past the store s for the reference r.
Passed(r, s) == r \in Answered \/ (r = ref /\ pc \in {"store", "page", "match"} /\ s < store)

\* No failure is kept: every reference that finds a store missing from the cache, whatever
\* failed before it, loads it again from the first page, with one outcome; and what is
\* cached then is what the pages of this load held, without those of a load that raised.
\* (The client does keep a robots.txt it failed to read: a store that failed for that is
\* asked again by every reference and fails for each, see RobotsHonoured.)
FailureForgotten ==
  /\ \A r \in References, s \in Stores :
       Passed(r, s) => IF s \in loaded /\ loadedBy[s] < r
                         THEN <<r, s>> \notin failed
                         ELSE /\ <<r, s, 1>> \in begun
                              /\ loadedBy[s] = r <=> <<r, s>> \notin failed
  /\ pc = "match" /\ loadedBy[store] = ref => catalog[store] = got

\* Robots, timeouts and broken bodies of some stores never cost a reference the answers of
\* the other stores: only a malformed product of a store loaded for it or before it does.
StoresIndependent == \A r \in raised : \E s \in loaded : /\ loadedBy[s] <= r
                                                        /\ catalog[s] \cap Malformed[r] # {}

\* Stores that fail, refuse or page for ever do not keep the run from ending.
Terminates == <>(pc = "end")
=============================================================================
