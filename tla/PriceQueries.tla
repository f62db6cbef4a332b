---------------------------- MODULE PriceQueries ----------------------------
(***************************************************************************)
(* The pricing queries of the MCP server over the tables the crawl writes: *)
(* what is current, priced and plausible for a reference, the cheapest     *)
(* listing, the fair price, the list behind them and the summary of the    *)
(* catalogue, each read on a connection of its own while runs go on.       *)
(***************************************************************************)
EXTENDS Integers, Sequences, FiniteSets

CONSTANTS Sources, References,
          Tracked,   \* the references of _catalog()
          MaxRuns,   \* bound: how many runs are started
          Batches,   \* what each of them may record
          Limit,     \* limit of list_listings
          NoAnswer

ASSUME LimitAssumption == Limit \in Nat
ASSUME TrackedAssumption == Tracked \subseteq References

\* A row with the properties the queries tell apart: it prices a watch in USD, or it is in
\* another currency or none, or has no price, or its title names something else.
Kinds == {"watch", "other_currency", "no_price", "not_a_watch"}
Rows == [id : Nat, ref : References, price : Nat, kind : Kinds]

ASSUME BatchesAssumption ==
  /\ MaxRuns \in Nat /\ DOMAIN Batches = 1..MaxRuns
  /\ \A i \in 1..MaxRuns : \A batch \in Batches[i] : batch \subseteq Rows /\ IsFiniteSet(batch)

\* What get_fair_price answers where there are prices.
FairPrices == [twice_median : Nat, min : Nat, max : Nat, n : Nat, other : Nat, implausible : Nat]

ASSUME NoAnswerAssumption == NoAnswer \notin Nat \cup FairPrices

VARIABLES runs,      \* crawl_runs in the order of started_at, each with its snapshots
          pc, asked, \* a search that reads the tables several times
          cheapest, fair, listed, \* what it read
          published  \* history: a run was published since the search's first read

reader == <<pc, asked, cheapest, fair, listed>>
vars == <<runs, reader, published>>

Runs == [source : Sources, status : {"running", "success", "partial", "failed"},
         rows : SUBSET Rows]

TypeOK == /\ runs \in Seq(Runs) /\ Len(runs) <= MaxRuns
          /\ pc \in {"idle", "fair", "list", "shown"}
          /\ asked \in References
          /\ cheapest \in Nat \cup {NoAnswer} /\ fair \in FairPrices \cup {NoAnswer}
          /\ listed \in Seq(Nat)
          /\ published \in BOOLEAN

Init == /\ runs = <<>>
        /\ pc = "idle"
        /\ asked \in References
        /\ cheapest = NoAnswer /\ fair = NoAnswer /\ listed = <<>>
        /\ published = FALSE

-----------------------------------------------------------------------------
\* _CURRENT, and what the queries make of it.

\* Mutant: a failed run hides the run before it.
PublishedAny(run) == run.status # "running"

\* Mutant: the rows of a run that goes on count.
PublishedEarly(run) == run.status # "failed"

Published(run) == run.status \in {"success", "partial"}

LatestRuns == {i \in DOMAIN runs :
                 /\ Published(runs[i])
                 /\ \A j \in DOMAIN runs :
                      Published(runs[j]) /\ runs[j].source = runs[i].source => j <= i}

\* Snapshots are told apart by their run.
Snapshots == UNION {{i} \X runs[i].rows : i \in LatestRuns}
Price(e) == e[2].price

Current(r) == {e \in Snapshots : e[2].ref = r}
Priced(r) == {e \in Current(r) : e[2].kind = "watch"}

\* The k-th lowest price of a set of rows, and twice its median: percentile_cont(0.5) is
\* the mean of the two middle ones.
NthPrice(S, k) == CHOOSE p \in {Price(e) : e \in S} :
                    /\ Cardinality({e \in S : Price(e) < p}) < k
                    /\ Cardinality({e \in S : Price(e) <= p}) >= k
Lowest(S) == NthPrice(S, 1)
Highest(S) == NthPrice(S, Cardinality(S))

TwiceMedian(S) == NthPrice(S, (Cardinality(S) + 1) \div 2) + NthPrice(S, Cardinality(S) \div 2 + 1)

\* Mutant: the guard is left out.
AllOf(S) == S

\* The rows at _PLAUSIBLE_FLOOR of the median of them all or above it.
AboveFloor(S) == LET twice == TwiceMedian(S) IN {e \in S : 200 * Price(e) >= 35 * twice}

Plausible(r) == AboveFloor(Priced(r))

GetCheapest(r) == IF Plausible(r) = {} THEN NoAnswer ELSE Lowest(Plausible(r))

GetFairPrice(r) ==
  IF Plausible(r) = {} THEN NoAnswer
  ELSE [twice_median |-> TwiceMedian(Plausible(r)), min |-> Lowest(Plausible(r)),
        max |-> Highest(Plausible(r)), n |-> Cardinality(Plausible(r)),
        other |-> Cardinality({e \in Current(r) : e[2].kind = "other_currency"}),
        implausible |-> Cardinality(Priced(r)) - Cardinality(Plausible(r))]

\* The prices, cheapest first, up to the limit.
ListListings(r) ==
  LET S == Plausible(r)
  IN  [k \in 1..(IF Cardinality(S) < Limit THEN Cardinality(S) ELSE Limit) |-> NthPrice(S, k)]

\* price_summary writes the filters out a second time: the priced rows of every reference,
\* their medians, and what is left of each reference above the floor.
SummaryPriced == {e \in Snapshots : e[2].kind = "watch"}
SummaryOf(r) == {e \in SummaryPriced : e[2].ref = r}

\* Mutant: one median for every reference.
SummaryRowsGlobal(r) == SummaryOf(r) \cap AboveFloor(SummaryPriced)

SummaryRows(r) == AboveFloor(SummaryOf(r))

PriceSummary == [r \in {s \in References : SummaryRows(s) # {}} |->
                   [n |-> Cardinality(SummaryRows(r)), min |-> Lowest(SummaryRows(r)),
                    twice_median |-> TwiceMedian(SummaryRows(r))]]

\* get_catalogue_overview_tool: every tracked reference, whether it has prices or not, and
\* none that has left the catalogue but still has rows.
CatalogueOverview ==
  [r \in Tracked |-> IF r \in DOMAIN PriceSummary THEN PriceSummary[r]
                     ELSE [n |-> 0, min |-> NoAnswer, twice_median |-> NoAnswer]]

-----------------------------------------------------------------------------
\* The crawl (modules Crawl and SnapshotLog): a run is opened, its rows come in while it is
\* running, it gets its terminal status.

Open(s) == /\ Len(runs) < MaxRuns
           /\ runs' = Append(runs, [source |-> s, status |-> "running", rows |-> {}])
           /\ UNCHANGED <<reader, published>>

Record(i) == /\ runs[i].status = "running" /\ runs[i].rows = {}
             /\ \E batch \in Batches[i] : runs' = [runs EXCEPT ![i].rows = batch]
             /\ UNCHANGED <<reader, published>>

Finish(i) == /\ runs[i].status = "running"
             /\ \E status \in {"success", "partial", "failed"} :
                  /\ runs' = [runs EXCEPT ![i].status = status]
                  /\ published' = (published \/ status # "failed")
             /\ UNCHANGED reader

\* A search, and the page it leads to: get_cheapest_listing, get_fair_price,
\* list_listings, a call of the server each.
ReadCheapest(r) == /\ pc = "idle"
                   /\ asked' = r
                   /\ cheapest' = GetCheapest(r)
                   /\ pc' = "fair"
                   /\ published' = FALSE
                   /\ UNCHANGED <<runs, fair, listed>>

ReadFair == /\ pc = "fair"
            /\ fair' = GetFairPrice(asked)
            /\ pc' = IF cheapest = NoAnswer \/ fair' = NoAnswer THEN "shown" ELSE "list"
            /\ UNCHANGED <<runs, asked, cheapest, listed, published>>

ReadListings == /\ pc = "list"
                /\ listed' = ListListings(asked)
                /\ pc' = "shown"
                /\ UNCHANGED <<runs, asked, cheapest, fair, published>>

Next == \/ \E s \in Sources : Open(s)
        \/ \E i \in DOMAIN runs : Record(i) \/ Finish(i)
        \/ \E r \in References : ReadCheapest(r)
        \/ ReadFair \/ ReadListings

Spec == Init /\ [][Next]_vars

-----------------------------------------------------------------------------
\* Whatever runs overlapped, failed or recorded other currencies and junk, the cheapest
\* listing, the fair price and the list behind them tell one story of the tables.
OneStory ==
  \A r \in References :
    LET price == GetCheapest(r)
        range == GetFairPrice(r)
    IN  /\ price = NoAnswer <=> range = NoAnswer
        /\ price # NoAnswer => /\ price = range.min
                               /\ 2 * price <= range.twice_median
                               /\ range.twice_median <= 2 * range.max
                               /\ range.n + range.implausible = Cardinality(Priced(r))
                               /\ Limit > 0 => ListListings(r)[1] = price

\* The catalogue page, whose query repeats the filters, shows for every tracked reference
\* the numbers the reference's own page shows, and none where that has no answer.
SummaryAgrees ==
  /\ \A r \in References : r \in DOMAIN PriceSummary <=> GetFairPrice(r) # NoAnswer
  /\ \A r \in Tracked :
       LET range == GetFairPrice(r)
           row == CatalogueOverview[r]
       IN  IF range = NoAnswer THEN row.n = 0 /\ row.min = NoAnswer
           ELSE row = [n |-> range.n, min |-> range.min, twice_median |-> range.twice_median]

\* If most listings of a reference ask at least p, the cheapest one quoted asks at least
\* the floor of p: deposits and straps are never quoted while they are a minority.
JunkNotQuoted ==
  \A r \in References : \A p \in {Price(e) : e \in Priced(r)} :
    2 * Cardinality({e \in Priced(r) : Price(e) >= p}) > Cardinality(Priced(r))
      => GetCheapest(r) # NoAnswer /\ 100 * GetCheapest(r) >= 35 * p

\* The guard never drops everything: a reference with a price has an answer, and a failed
\* or unfinished run does not take the answer of the run before it away.
PricedIsAnswered ==
  \A r \in References :
    (\E i \in DOMAIN runs :
       /\ runs[i].status \in {"success", "partial"}
       /\ \A j \in DOMAIN runs : (j > i /\ runs[j].source = runs[i].source)
                                   => runs[j].status \in {"running", "failed"}
       /\ \E row \in runs[i].rows : row.ref = r /\ row.kind = "watch")
      => GetCheapest(r) # NoAnswer

\* The list behind an answer shows what the answer was computed from, although each of the
\* three numbers is read on a connection of its own: runs that start, record or fail between
\* the reads do not show.  A run published between them does.
ListShowsTheWorking ==
  pc = "shown" /\ ~published =>
    /\ cheapest = NoAnswer <=> fair = NoAnswer
    /\ cheapest # NoAnswer => /\ cheapest = fair.min
                              /\ Len(listed) = IF fair.n < Limit THEN fair.n ELSE Limit
                              /\ Limit > 0 => listed[1] = cheapest

\* The queries agree with each other in every state of the tables.
QueriesAgree == TypeOK /\ OneStory /\ SummaryAgrees
=============================================================================
