------------------------- MODULE PriceQueriesProofs -------------------------
(***************************************************************************)
(* What the pricing queries answer whatever is in the tables: any sources, *)
(* runs, rows and prices.                                                  *)
(***************************************************************************)
EXTENDS PriceQueries, FiniteSetTheorems, SequenceLemmas

-----------------------------------------------------------------------------
\* Medians and extremes of finite sets of rows with a price.

PricedRows(S) == IsFiniteSet(S) /\ \A e \in S : Price(e) \in Nat

Below(S, p) == {e \in S : Price(e) < p}
UpTo(S, p) == {e \in S : Price(e) <= p}

LEMMA PartSmaller ==
  ASSUME NEW S, IsFiniteSet(S), NEW T \in SUBSET S
  PROVE  /\ IsFiniteSet(T) /\ Cardinality(T) \in Nat /\ Cardinality(S) \in Nat
         /\ Cardinality(T) <= Cardinality(S)
         /\ T # S => Cardinality(T) < Cardinality(S)
<1>1. IsFiniteSet(T) /\ Cardinality(T) <= Cardinality(S) /\ (Cardinality(T) = Cardinality(S) => T = S)
  BY FS_Subset
<1>2. Cardinality(T) \in Nat /\ Cardinality(S) \in Nat
  BY <1>1, FS_CardinalityType
<1> QED
  BY <1>1, <1>2

\* Some row of a table asks the highest price.
LEMMA Dearest ==
  ASSUME NEW S, PricedRows(S), S # {}
  PROVE  \E d \in S : \A e \in S : Price(e) <= Price(d)
<1> DEFINE Above(d) == {e \in S : Price(e) > Price(d)}
           Counts == {Cardinality(Above(d)) : d \in S}
<1>1. \A d \in S : IsFiniteSet(Above(d)) /\ Cardinality(Above(d)) \in Nat
  BY PartSmaller DEF PricedRows
<1>2. PICK n \in Counts : \A m \in Counts : n <= m
  <2>1. Counts \in SUBSET Nat /\ Counts # {}
    BY <1>1
  <2> HIDE DEF Counts
  <2> QED
    BY <2>1, Least
<1>3. PICK d \in S : n = Cardinality(Above(d))
  BY <1>2
<1>4. ASSUME NEW e \in S, Price(e) > Price(d) PROVE FALSE
  <2>1. Above(e) \in SUBSET Above(d) /\ e \in Above(d) /\ e \notin Above(e)
    BY <1>4 DEF PricedRows
  <2>2. Above(e) # Above(d)
    BY <2>1
  <2>3. Cardinality(Above(e)) < Cardinality(Above(d))
    BY <1>1, <2>1, <2>2, PartSmaller
  <2>4. Cardinality(Above(d)) <= Cardinality(Above(e))
    BY <1>2, <1>3
  <2> QED
    BY <1>1, <2>3, <2>4
<1> QED
  BY <1>4 DEF PricedRows

\* The k-th lowest price is one of the prices: fewer than k rows ask less, k or more ask
\* no more.
LEMMA NthIsPrice ==
  ASSUME NEW S, PricedRows(S), NEW k \in 1..Cardinality(S)
  PROVE  /\ NthPrice(S, k) \in {Price(e) : e \in S} /\ NthPrice(S, k) \in Nat
         /\ Cardinality(Below(S, NthPrice(S, k))) < k
         /\ Cardinality(UpTo(S, NthPrice(S, k))) >= k
<1> DEFINE T == {p \in {Price(e) : e \in S} : Cardinality(UpTo(S, p)) >= k}
<1>0. Cardinality(S) \in Nat /\ k \in Nat /\ S # {}
  BY FS_CardinalityType, FS_EmptySet DEF PricedRows
<1>1. T \in SUBSET Nat /\ T # {}
  <2>1. PICK d \in S : \A e \in S : Price(e) <= Price(d)
    BY <1>0, Dearest
  <2>2. UpTo(S, Price(d)) = S
    BY <2>1 DEF UpTo
  <2>3. Price(d) \in T
    BY <1>0, <2>2
  <2> QED
    BY <2>3 DEF PricedRows
<1>2. PICK x \in T : \A y \in T : x <= y
  <2> HIDE DEF T
  <2> QED
    BY <1>1, Least
<1>3. Cardinality(Below(S, x)) < k
  <2>1. Below(S, x) \in SUBSET S /\ IsFiniteSet(Below(S, x)) /\ Cardinality(Below(S, x)) \in Nat
    BY PartSmaller DEF Below, PricedRows
  <2>2. CASE Below(S, x) = {}
    BY <1>0, <2>2, FS_EmptySet
  <2>3. CASE Below(S, x) # {}
    <3>1. PricedRows(Below(S, x))
      BY <2>1 DEF PricedRows
    <3>2. PICK d \in Below(S, x) : \A e \in Below(S, x) : Price(e) <= Price(d)
      BY <2>3, <3>1, Dearest
    <3>3. d \in S /\ Price(d) < x /\ Price(d) \in Nat /\ x \in Nat
      BY <1>1, <3>2 DEF Below, PricedRows
    <3>4. UpTo(S, Price(d)) = Below(S, x)
      BY <3>2, <3>3 DEF UpTo, Below, PricedRows
    <3>5. Price(d) \notin T
      BY <1>2, <3>3
    <3>6. ~(Cardinality(UpTo(S, Price(d))) >= k)
      BY <3>3, <3>5
    <3> QED
      BY <1>0, <2>1, <3>4, <3>6
  <2> QED
    BY <2>2, <2>3
<1>4. \E p \in {Price(e) : e \in S} : Cardinality(Below(S, p)) < k /\ Cardinality(UpTo(S, p)) >= k
  BY <1>2, <1>3
<1>5. NthPrice(S, k) = CHOOSE p \in {Price(e) : e \in S} :
                          Cardinality(Below(S, p)) < k /\ Cardinality(UpTo(S, p)) >= k
  BY DEF NthPrice, Below, UpTo
<1> HIDE DEF T
<1> QED
  BY <1>4, <1>5 DEF PricedRows

\* If fewer than k rows ask less than p, the k-th lowest price is no less than p.
LEMMA NthAtLeast ==
  ASSUME NEW S, PricedRows(S), NEW k \in 1..Cardinality(S), NEW p \in Nat,
         Cardinality(Below(S, p)) < k
  PROVE  p <= NthPrice(S, k)
<1> DEFINE q == NthPrice(S, k)
<1>1. q \in Nat /\ Cardinality(UpTo(S, q)) >= k
  BY NthIsPrice
<1>2. ASSUME q < p PROVE FALSE
  <2>1. UpTo(S, q) \in SUBSET Below(S, p)
    BY <1>1, <1>2 DEF UpTo, Below, PricedRows
  <2>2. IsFiniteSet(Below(S, p))
    BY PartSmaller DEF Below, PricedRows
  <2>3. /\ Cardinality(UpTo(S, q)) <= Cardinality(Below(S, p))
        /\ Cardinality(UpTo(S, q)) \in Nat /\ Cardinality(Below(S, p)) \in Nat
    BY <2>1, <2>2, PartSmaller
  <2>4. Cardinality(S) \in Nat
    BY FS_CardinalityType DEF PricedRows
  <2> QED
    BY <1>1, <2>3, <2>4
<1> QED
  BY <1>1, <1>2

LEMMA NthMonotone ==
  ASSUME NEW S, PricedRows(S), NEW k \in 1..Cardinality(S), NEW j \in 1..k
  PROVE  NthPrice(S, j) <= NthPrice(S, k)
<1>0. Cardinality(S) \in Nat
  BY FS_CardinalityType DEF PricedRows
<1>1. j \in 1..Cardinality(S)
  BY <1>0
<1>2. NthPrice(S, j) \in Nat /\ Cardinality(Below(S, NthPrice(S, j))) < j
  BY <1>1, NthIsPrice
<1>3. Cardinality(Below(S, NthPrice(S, j))) \in Nat
  BY PartSmaller DEF Below, PricedRows
<1> QED
  BY <1>0, <1>2, <1>3, NthAtLeast

\* The median lies between the extremes, and where more than half of the rows ask at least
\* p it is no lower than p.
LEMMA MedianBounds ==
  ASSUME NEW S, PricedRows(S), S # {}
  PROVE  /\ Lowest(S) \in Nat /\ Highest(S) \in Nat /\ TwiceMedian(S) \in Nat
         /\ \E e \in S : Price(e) = Lowest(S)
         /\ 2 * Lowest(S) <= TwiceMedian(S) /\ TwiceMedian(S) <= 2 * Highest(S)
         /\ \A p \in Nat : 2 * Cardinality({e \in S : Price(e) >= p}) > Cardinality(S)
                             => 2 * p <= TwiceMedian(S)
<1> DEFINE n == Cardinality(S)
           lower == (n + 1) \div 2
           upper == n \div 2 + 1
<1>1. n \in Nat /\ n >= 1
  BY FS_CardinalityType, FS_EmptySet DEF PricedRows
<1>2. /\ lower \in 1..n /\ upper \in 1..n /\ 1 \in 1..n /\ n \in 1..n
      /\ 2 * lower >= n /\ 2 * upper > n
  BY <1>1
<1>3. /\ NthPrice(S, 1) \in Nat /\ NthPrice(S, n) \in Nat
      /\ NthPrice(S, lower) \in Nat /\ NthPrice(S, upper) \in Nat
      /\ NthPrice(S, 1) \in {Price(e) : e \in S}
  BY <1>2, NthIsPrice
<1>4. /\ NthPrice(S, 1) <= NthPrice(S, lower) /\ NthPrice(S, 1) <= NthPrice(S, upper)
      /\ NthPrice(S, lower) <= NthPrice(S, n) /\ NthPrice(S, upper) <= NthPrice(S, n)
  <2>1. 1 \in 1..lower /\ 1 \in 1..upper /\ lower \in 1..n /\ upper \in 1..n
    BY <1>2
  <2> HIDE DEF lower, upper
  <2> QED
    BY <1>2, <2>1, NthMonotone
<1>5. ASSUME NEW p \in Nat, 2 * Cardinality({e \in S : Price(e) >= p}) > n
      PROVE  p <= NthPrice(S, lower) /\ p <= NthPrice(S, upper)
  <2> DEFINE Rest == {e \in S : Price(e) >= p}
  <2>1. IsFiniteSet(S) /\ Below(S, p) = S \ Rest /\ Rest \in SUBSET S
    BY DEF Below, PricedRows
  <2>2. Cardinality(Below(S, p)) = n - Cardinality(S \cap Rest)
    BY <2>1, FS_Difference
  <2>3. S \cap Rest = Rest /\ Cardinality(Rest) \in Nat
    BY <2>1, PartSmaller
  <2>4. Cardinality(Below(S, p)) < lower /\ Cardinality(Below(S, p)) < upper
    <3>1. lower \in Nat /\ upper \in Nat
      BY <1>1
    <3>2. 2 * Cardinality(Rest) > n
      BY <1>5
    <3>3. Cardinality(Below(S, p)) = n - Cardinality(Rest)
      BY <2>2, <2>3
    <3> HIDE DEF lower, upper, n, Rest
    <3> QED
      BY <1>1, <1>2, <2>3, <3>1, <3>2, <3>3
  <2> HIDE DEF lower, upper
  <2> QED
    BY <1>2, <2>4, NthAtLeast
<1>6. TwiceMedian(S) = NthPrice(S, lower) + NthPrice(S, upper)
  BY DEF TwiceMedian
<1>7. Lowest(S) = NthPrice(S, 1) /\ Highest(S) = NthPrice(S, n)
  BY DEF Lowest, Highest
<1> HIDE DEF lower, upper, n
<1>8. \A p \in Nat : 2 * Cardinality({e \in S : Price(e) >= p}) > n => 2 * p <= TwiceMedian(S)
  BY <1>3, <1>5, <1>6
<1> QED
  BY <1>3, <1>4, <1>6, <1>7, <1>8 DEF n

\* The guard keeps the dearest row, and so it never drops everything.
LEMMA GuardKeepsSome ==
  ASSUME NEW S, PricedRows(S)
  PROVE  /\ AboveFloor(S) \in SUBSET S /\ PricedRows(AboveFloor(S))
         /\ Cardinality(AboveFloor(S)) \in Nat /\ Cardinality(S) \in Nat
         /\ AboveFloor(S) = {} <=> S = {}
         /\ \A e \in AboveFloor(S) : 200 * Price(e) >= 35 * TwiceMedian(S)
<1>1. AboveFloor(S) \in SUBSET S /\ \A e \in AboveFloor(S) : 200 * Price(e) >= 35 * TwiceMedian(S)
  BY DEF AboveFloor
<1>2. PricedRows(AboveFloor(S)) /\ Cardinality(AboveFloor(S)) \in Nat /\ Cardinality(S) \in Nat
  BY <1>1, PartSmaller DEF PricedRows
<1>3. ASSUME S # {} PROVE AboveFloor(S) # {}
  <2>1. PICK d \in S : \A e \in S : Price(e) <= Price(d)
    BY <1>3, Dearest
  <2>2. Highest(S) <= Price(d)
    <3>1. Cardinality(S) \in 1..Cardinality(S)
      BY <1>2, <1>3, FS_EmptySet DEF PricedRows
    <3> QED
      BY <2>1, <3>1, NthIsPrice DEF Highest
  <2>3. TwiceMedian(S) \in Nat /\ Highest(S) \in Nat /\ TwiceMedian(S) <= 2 * Highest(S)
    BY <1>3, MedianBounds
  <2>4. Price(d) \in Nat
    BY DEF PricedRows
  <2>5. 200 * Price(d) >= 35 * TwiceMedian(S)
    BY <2>2, <2>3, <2>4
  <2> QED
    BY <2>5 DEF AboveFloor
<1> QED
  BY <1>1, <1>2, <1>3

-----------------------------------------------------------------------------
\* What the queries answer, in any state of the tables.

Tables == TypeOK /\ \A i \in DOMAIN runs : IsFiniteSet(runs[i].rows)

LEMMA SnapshotRows == Tables => IsFiniteSet(Snapshots) /\ \A e \in Snapshots : e[2] \in Rows
<1> SUFFICES ASSUME Tables PROVE IsFiniteSet(Snapshots) /\ \A e \in Snapshots : e[2] \in Rows
  OBVIOUS
<1> DEFINE Parts == {{i} \X runs[i].rows : i \in LatestRuns}
           part == [i \in LatestRuns |-> {i} \X runs[i].rows]
<1>1. LatestRuns \in SUBSET (1..Len(runs)) /\ Len(runs) \in Nat
  BY DEF Tables, TypeOK, LatestRuns
<1>0. \A i \in LatestRuns : i \in DOMAIN runs /\ runs[i] \in Runs
  BY DEF Tables, TypeOK, LatestRuns
<1>2. IsFiniteSet(LatestRuns)
  <2>1. IsFiniteSet(1..Len(runs))
    BY <1>1, FS_Interval
  <2> QED
    BY <1>1, <2>1, FS_Subset
<1>3. IsFiniteSet(Parts)
  <2>1. part \in Surjection(LatestRuns, Parts)
    BY DEF Surjection
  <2> HIDE DEF Parts, part
  <2> QED
    BY <1>2, <2>1, FS_Surjection
<1>4. ASSUME NEW P \in Parts PROVE IsFiniteSet(P)
  <2>1. PICK i \in LatestRuns : P = {i} \X runs[i].rows
    OBVIOUS
  <2>2. IsFiniteSet(runs[i].rows) /\ IsFiniteSet({i})
    BY <1>0, FS_Singleton DEF Tables
  <2> QED
    BY <2>1, <2>2, FS_Product
<1>5. Snapshots = UNION Parts
  BY DEF Snapshots
<1>6. IsFiniteSet(Snapshots)
  <2> HIDE DEF Parts
  <2> QED
    BY <1>3, <1>4, <1>5, FS_UNION
<1>7. ASSUME NEW e \in Snapshots PROVE e[2] \in Rows
  <2>1. PICK i \in LatestRuns : e \in {i} \X runs[i].rows
    BY DEF Snapshots
  <2>2. runs[i] \in Runs /\ runs[i].rows \in SUBSET Rows
    BY <1>0, <2>1 DEF Runs
  <2> QED
    BY <2>1, <2>2
<1> QED
  BY <1>6, <1>7

LEMMA ReferenceRows ==
  ASSUME Tables, NEW r \in References
  PROVE  /\ PricedRows(Priced(r)) /\ PricedRows(Plausible(r))
         /\ Plausible(r) \in SUBSET Priced(r) /\ (Plausible(r) = {} <=> Priced(r) = {})
         /\ Cardinality(Plausible(r)) \in Nat /\ Cardinality(Priced(r)) \in Nat
         /\ Cardinality(Plausible(r)) <= Cardinality(Priced(r))
         /\ Cardinality({e \in Current(r) : e[2].kind = "other_currency"}) \in Nat
         /\ SummaryRows(r) = Plausible(r)
<1>1. IsFiniteSet(Snapshots) /\ \A e \in Snapshots : e[2] \in Rows
  BY SnapshotRows
<1>2. Current(r) \in SUBSET Snapshots /\ Priced(r) \in SUBSET Snapshots
      /\ {e \in Current(r) : e[2].kind = "other_currency"} \in SUBSET Snapshots
  BY DEF Current, Priced
<1>3. PricedRows(Priced(r)) /\ Cardinality(Priced(r)) \in Nat
  BY <1>1, <1>2, PartSmaller DEF PricedRows, Price, Rows
<1>4. SummaryOf(r) = Priced(r)
  BY DEF SummaryOf, SummaryPriced, Priced, Current
<1>5. Cardinality({e \in Current(r) : e[2].kind = "other_currency"}) \in Nat
  BY <1>1, <1>2, PartSmaller
<1>6. /\ Plausible(r) \in SUBSET Priced(r) /\ PricedRows(Plausible(r))
      /\ (Plausible(r) = {} <=> Priced(r) = {}) /\ Cardinality(Plausible(r)) \in Nat
  BY <1>3, GuardKeepsSome DEF Plausible
<1>7. Cardinality(Plausible(r)) <= Cardinality(Priced(r))
  BY <1>3, <1>6, PartSmaller DEF PricedRows
<1> QED
  BY <1>3, <1>4, <1>5, <1>6, <1>7 DEF SummaryRows, Plausible

\* Where there are rows both have an answer, the one the extremes and the median of the
\* rows say.
LEMMA Answers ==
  ASSUME Tables, NEW r \in References, Priced(r) # {}
  PROVE  /\ GetCheapest(r) = Lowest(Plausible(r)) /\ GetCheapest(r) \in Nat
         /\ GetCheapest(r) # NoAnswer
         /\ GetFairPrice(r) \in FairPrices /\ GetFairPrice(r) # NoAnswer
         /\ GetFairPrice(r).min = Lowest(Plausible(r))
         /\ GetFairPrice(r).twice_median = TwiceMedian(Plausible(r))
         /\ GetFairPrice(r).n = Cardinality(Plausible(r)) /\ GetFairPrice(r).n >= 1
         /\ GetFairPrice(r).n + GetFairPrice(r).implausible = Cardinality(Priced(r))
         /\ 2 * GetCheapest(r) <= GetFairPrice(r).twice_median
         /\ GetFairPrice(r).twice_median <= 2 * GetFairPrice(r).max
<1> DEFINE P == Plausible(r)
           n == Cardinality(P)
           all == Cardinality(Priced(r))
           other == Cardinality({e \in Current(r) : e[2].kind = "other_currency"})
<1>1. P # {} /\ PricedRows(P)
  BY ReferenceRows
<1>2. n \in Nat /\ all \in Nat /\ n <= all /\ other \in Nat
  BY ReferenceRows
<1>3. n >= 1
  BY <1>1, <1>2, FS_EmptySet DEF PricedRows
<1>4. GetCheapest(r) = Lowest(P)
  BY <1>1 DEF GetCheapest
<1>5. GetFairPrice(r) = [twice_median |-> TwiceMedian(P), min |-> Lowest(P), max |-> Highest(P),
                         n |-> n, other |-> other, implausible |-> all - n]
  BY <1>1 DEF GetFairPrice
<1>6. /\ Lowest(P) \in Nat /\ Highest(P) \in Nat /\ TwiceMedian(P) \in Nat
      /\ 2 * Lowest(P) <= TwiceMedian(P) /\ TwiceMedian(P) <= 2 * Highest(P)
  BY <1>1, MedianBounds
<1> HIDE DEF P, n, all, other
<1>7. all - n \in Nat /\ n + (all - n) = all
  BY <1>2
<1>8. GetFairPrice(r) \in FairPrices
  BY <1>2, <1>5, <1>6, <1>7 DEF FairPrices
<1>9. GetCheapest(r) # NoAnswer /\ GetFairPrice(r) # NoAnswer
  BY <1>4, <1>6, <1>8, NoAnswerAssumption
<1> QED
  BY <1>3, <1>4, <1>5, <1>6, <1>7, <1>8, <1>9 DEF P, n, all

LEMMA Unanswered ==
  ASSUME Tables, NEW r \in References, Priced(r) = {}
  PROVE  GetCheapest(r) = NoAnswer /\ GetFairPrice(r) = NoAnswer /\ Plausible(r) = {}
BY ReferenceRows DEF GetCheapest, GetFairPrice

\* The list is a sequence of prices, as long as it may be, that begins with the cheapest.
LEMMA Listed ==
  ASSUME Tables, NEW r \in References
  PROVE  /\ ListListings(r) \in Seq(Nat)
         /\ Priced(r) # {} =>
              /\ Len(ListListings(r)) = IF GetFairPrice(r).n < Limit THEN GetFairPrice(r).n ELSE Limit
              /\ Limit > 0 => ListListings(r)[1] = GetCheapest(r)
<1> DEFINE S == Plausible(r)
           m == IF Cardinality(S) < Limit THEN Cardinality(S) ELSE Limit
<1>1. m \in Nat /\ Cardinality(S) \in Nat /\ m <= Cardinality(S) /\ PricedRows(S)
  <2>1. Cardinality(S) \in Nat /\ PricedRows(S)
    BY ReferenceRows
  <2> HIDE DEF S
  <2> QED
    BY <2>1, LimitAssumption
<1>2. ListListings(r) = [k \in 1..m |-> NthPrice(S, k)]
  BY DEF ListListings
<1>3. \A k \in 1..m : NthPrice(S, k) \in Nat
  <2>1. \A k \in 1..m : k \in 1..Cardinality(S)
    BY <1>1
  <2> QED
    BY <1>1, <2>1, NthIsPrice
<1>4. ListListings(r) \in Seq(Nat) /\ Len(ListListings(r)) = m
  <2> HIDE DEF m, S
  <2> QED
    BY <1>1, <1>2, <1>3
<1>5. ASSUME Priced(r) # {}
      PROVE  /\ m = IF GetFairPrice(r).n < Limit THEN GetFairPrice(r).n ELSE Limit
             /\ Limit > 0 => ListListings(r)[1] = GetCheapest(r)
  <2>1. GetFairPrice(r).n = Cardinality(S) /\ GetFairPrice(r).n >= 1 /\ GetCheapest(r) = Lowest(S)
    BY <1>5, Answers
  <2>2. Limit > 0 => 1 \in 1..m
    BY <1>1, <2>1, LimitAssumption
  <2> HIDE DEF S
  <2> QED
    BY <1>2, <2>1, <2>2 DEF Lowest
<1> QED
  BY <1>4, <1>5

LEMMA TablesOneStory == Tables => OneStory
<1> SUFFICES ASSUME Tables, NEW r \in References
             PROVE  LET price == GetCheapest(r)
                        range == GetFairPrice(r)
                    IN  /\ price = NoAnswer <=> range = NoAnswer
                        /\ price # NoAnswer => /\ price = range.min
                                               /\ 2 * price <= range.twice_median
                                               /\ range.twice_median <= 2 * range.max
                                               /\ range.n + range.implausible = Cardinality(Priced(r))
                                               /\ Limit > 0 => ListListings(r)[1] = price
  BY DEF OneStory
<1>1. CASE Priced(r) = {}
  BY <1>1, Unanswered
<1>2. CASE Priced(r) # {}
  BY <1>2, Answers, Listed
<1> QED
  BY <1>1, <1>2

LEMMA TablesSummaryAgrees == Tables => SummaryAgrees
<1> SUFFICES ASSUME Tables PROVE SummaryAgrees
  OBVIOUS
<1>1. ASSUME NEW r \in References
      PROVE  r \in DOMAIN PriceSummary <=> GetFairPrice(r) # NoAnswer
  BY Answers, Unanswered, ReferenceRows DEF PriceSummary
<1>2. ASSUME NEW r \in Tracked
      PROVE  LET range == GetFairPrice(r)
                 row == CatalogueOverview[r]
             IN  IF range = NoAnswer THEN row.n = 0 /\ row.min = NoAnswer
                 ELSE row = [n |-> range.n, min |-> range.min, twice_median |-> range.twice_median]
  <2>1. r \in References
    BY TrackedAssumption
  <2>2. CASE Priced(r) = {}
    BY <1>1, <2>1, <2>2, Unanswered DEF CatalogueOverview
  <2>3. CASE Priced(r) # {}
    <3>1. r \in DOMAIN PriceSummary /\ SummaryRows(r) = Plausible(r)
      BY <1>1, <2>1, <2>3, Answers, ReferenceRows
    <3>2. CatalogueOverview[r] =
            [n |-> Cardinality(Plausible(r)), min |-> Lowest(Plausible(r)),
             twice_median |-> TwiceMedian(Plausible(r))]
      BY <3>1 DEF CatalogueOverview, PriceSummary
    <3> QED
      BY <2>1, <2>3, <3>2, Answers
  <2> QED
    BY <2>2, <2>3
<1> QED
  BY <1>1, <1>2 DEF SummaryAgrees

LEMMA TablesJunkNotQuoted == Tables => JunkNotQuoted
<1> SUFFICES ASSUME Tables, NEW r \in References, NEW p \in {Price(e) : e \in Priced(r)},
                    2 * Cardinality({e \in Priced(r) : Price(e) >= p}) > Cardinality(Priced(r))
             PROVE  GetCheapest(r) # NoAnswer /\ 100 * GetCheapest(r) >= 35 * p
  BY DEF JunkNotQuoted
<1>1. Priced(r) # {} /\ PricedRows(Priced(r)) /\ p \in Nat
  BY ReferenceRows DEF PricedRows
<1>2. 2 * p <= TwiceMedian(Priced(r)) /\ TwiceMedian(Priced(r)) \in Nat
  BY <1>1, MedianBounds
<1>3. Plausible(r) # {} /\ PricedRows(Plausible(r))
  BY <1>1, ReferenceRows
<1>4. PICK e \in Plausible(r) : Price(e) = Lowest(Plausible(r))
  BY <1>3, MedianBounds
<1>5. 200 * Price(e) >= 35 * TwiceMedian(Priced(r))
  BY <1>1, GuardKeepsSome DEF Plausible
<1>6. GetCheapest(r) = Price(e) /\ GetCheapest(r) # NoAnswer /\ Price(e) \in Nat
  BY <1>1, <1>4, Answers
<1> QED
  BY <1>1, <1>2, <1>5, <1>6

LEMMA TablesPricedIsAnswered == Tables => PricedIsAnswered
<1> SUFFICES ASSUME Tables, NEW r \in References, NEW i \in DOMAIN runs,
                    runs[i].status \in {"success", "partial"},
                    \A j \in DOMAIN runs : (j > i /\ runs[j].source = runs[i].source)
                                             => runs[j].status \in {"running", "failed"},
                    NEW row \in runs[i].rows, row.ref = r, row.kind = "watch"
             PROVE  GetCheapest(r) # NoAnswer
  BY DEF PricedIsAnswered
<1>1. \A j \in DOMAIN runs : j \in Nat
  BY DEF Tables, TypeOK
<1>2. i \in LatestRuns
  BY <1>1 DEF LatestRuns, Published
<1>3. <<i, row>> \in Snapshots
  BY <1>2 DEF Snapshots
<1>4. <<i, row>> \in Priced(r)
  BY <1>3 DEF Priced, Current
<1> QED
  BY <1>4, Answers

-----------------------------------------------------------------------------
\* The tables and the reads of a search over them.

\* As long as no run is published, the tables say what they said at the first read.
ReaderInv ==
  ~published =>
    /\ pc \in {"fair", "list", "shown"} => cheapest = GetCheapest(asked)
    /\ pc \in {"list", "shown"} => fair = GetFairPrice(asked)
    /\ pc = "list" => cheapest # NoAnswer
    /\ pc = "shown" /\ cheapest # NoAnswer => listed = ListListings(asked)

QueriesInv == Tables /\ ReaderInv

LEMMA QueriesInit == Init => QueriesInv
<1> SUFFICES ASSUME Init PROVE QueriesInv
  OBVIOUS
<1>1. runs \in Seq(Runs) /\ Len(runs) = 0 /\ DOMAIN runs = {} /\ 0 <= MaxRuns
  BY BatchesAssumption DEF Init
<1>2. listed \in Seq(Nat)
  BY DEF Init
<1>3. TypeOK
  BY <1>1, <1>2 DEF Init, TypeOK
<1> QED
  BY <1>1, <1>3 DEF Init, QueriesInv, Tables, ReaderInv

\* A step that writes to the tables keeps them well-formed.
LEMMA TablesStep == ASSUME QueriesInv, [Next]_vars PROVE Tables'
<1> USE DEF QueriesInv, Tables, TypeOK, reader
<1>1. ASSUME NEW s \in Sources, Open(s) PROVE Tables'
  <2> DEFINE run == [source |-> s, status |-> "running", rows |-> {}]
  <2>1. run \in Runs /\ IsFiniteSet(run.rows)
    BY FS_EmptySet DEF Runs
  <2>2. runs' = Append(runs, run) /\ Len(runs) < MaxRuns
    BY <1>1 DEF Open
  <2> HIDE DEF run
  <2>3. runs' \in Seq(Runs) /\ Len(runs') <= MaxRuns
    BY <2>1, <2>2, BatchesAssumption
  <2>4. \A i \in DOMAIN runs' : IsFiniteSet(runs'[i].rows)
    BY <2>1, <2>2
  <2> QED
    BY <1>1, <2>3, <2>4 DEF Open
<1>2. ASSUME NEW i \in DOMAIN runs, NEW run \in Runs, IsFiniteSet(run.rows),
             runs' = [runs EXCEPT ![i] = run], UNCHANGED reader, published' \in BOOLEAN
      PROVE  Tables'
  <2>1. runs' \in Seq(Runs) /\ Len(runs') = Len(runs)
    BY <1>2
  <2>2. \A j \in DOMAIN runs' : IsFiniteSet(runs'[j].rows)
    BY <1>2
  <2> QED
    BY <1>2, <2>1, <2>2
<1>3. ASSUME NEW i \in DOMAIN runs, Record(i) PROVE Tables'
  <2>1. PICK batch \in Batches[i] : runs' = [runs EXCEPT ![i].rows = batch]
    BY <1>3 DEF Record
  <2>2. i \in 1..MaxRuns
    BY BatchesAssumption
  <2>3. batch \in SUBSET Rows /\ IsFiniteSet(batch)
    BY <2>1, <2>2, BatchesAssumption
  <2>4. runs[i] \in Runs
    OBVIOUS
  <2>5. [runs[i] EXCEPT !.rows = batch] \in Runs /\ [runs[i] EXCEPT !.rows = batch].rows = batch
    BY <2>3, <2>4 DEF Runs
  <2>6. runs' = [runs EXCEPT ![i] = [runs[i] EXCEPT !.rows = batch]]
    BY <2>1
  <2> QED
    BY <1>2, <1>3, <2>3, <2>5, <2>6 DEF Record
<1>4. ASSUME NEW i \in DOMAIN runs, Finish(i) PROVE Tables'
  <2>1. PICK status \in {"success", "partial", "failed"} :
          /\ runs' = [runs EXCEPT ![i].status = status]
          /\ published' = (published \/ status # "failed")
    BY <1>4 DEF Finish
  <2>2. runs[i] \in Runs
    OBVIOUS
  <2>3. [runs[i] EXCEPT !.status = status] \in Runs
        /\ [runs[i] EXCEPT !.status = status].rows = runs[i].rows
    BY <2>1, <2>2 DEF Runs
  <2>4. runs' = [runs EXCEPT ![i] = [runs[i] EXCEPT !.status = status]]
    BY <2>1
  <2>5. published' \in BOOLEAN
    BY <2>1
  <2> QED
    BY <1>2, <1>4, <2>3, <2>4, <2>5 DEF Finish
<1>5. ASSUME NEW r \in References, ReadCheapest(r) PROVE Tables'
  <2>1. GetCheapest(r) \in Nat \cup {NoAnswer}
    BY Answers, Unanswered
  <2> QED
    BY <1>5, <2>1 DEF ReadCheapest
<1>6. CASE ReadFair
  <2>1. GetFairPrice(asked) \in FairPrices \cup {NoAnswer}
    BY Answers, Unanswered
  <2> QED
    BY <1>6, <2>1 DEF ReadFair
<1>7. CASE ReadListings
  <2>1. ListListings(asked) \in Seq(Nat)
    BY Listed
  <2> QED
    BY <1>7, <2>1 DEF ReadListings
<1>8. CASE UNCHANGED vars
  BY <1>8 DEF vars
<1> QED
  BY <1>1, <1>3, <1>4, <1>5, <1>6, <1>7, <1>8 DEF Next

\* A run that starts, records or fails is not seen by any query.
LEMMA QuietStep ==
  ASSUME Tables, Tables', NEW i \in DOMAIN runs' ,
         ~Published(runs'[i]), i \in DOMAIN runs => ~Published(runs[i]),
         DOMAIN runs' = DOMAIN runs \cup {i},
         \A j \in DOMAIN runs \ {i} : runs'[j] = runs[j]
  PROVE  Snapshots' = Snapshots
<1>1. LatestRuns' = LatestRuns
  BY DEF LatestRuns, Published
<1>2. \A j \in LatestRuns : j \in DOMAIN runs /\ j # i
  BY DEF LatestRuns
<1> QED
  BY <1>1, <1>2 DEF Snapshots

\* The queries depend on the snapshots alone.
LEMMA SameSnapshots ==
  ASSUME Snapshots' = Snapshots, NEW r
  PROVE  /\ GetCheapest(r)' = GetCheapest(r) /\ GetFairPrice(r)' = GetFairPrice(r)
         /\ ListListings(r)' = ListListings(r)
<1>1. Current(r)' = Current(r) /\ Priced(r)' = Priced(r)
  BY DEF Current, Priced
<1>2. Plausible(r)' = Plausible(r)
  BY <1>1 DEF Plausible
<1> QED
  BY <1>1, <1>2 DEF GetCheapest, GetFairPrice, ListListings

LEMMA ReaderStep == ASSUME QueriesInv, [Next]_vars PROVE ReaderInv'
<1>1. Tables /\ ReaderInv /\ Tables'
  BY TablesStep DEF QueriesInv
<1>2. ASSUME Snapshots' = Snapshots, UNCHANGED reader, published' = published
      PROVE  ReaderInv'
  <2>1. asked' = asked /\ asked' \in References
    BY <1>1, <1>2 DEF reader, Tables, TypeOK
  <2>2. /\ GetCheapest(asked)' = GetCheapest(asked) /\ GetFairPrice(asked)' = GetFairPrice(asked)
        /\ ListListings(asked)' = ListListings(asked)
    BY <1>2, <2>1, SameSnapshots
  <2> QED
    BY <1>1, <1>2, <2>2 DEF ReaderInv, reader
<1>3. ASSUME NEW s \in Sources, Open(s) PROVE ReaderInv'
  <2>1. Snapshots' = Snapshots
    <3> DEFINE i == Len(runs) + 1
    <3>1. /\ DOMAIN runs' = DOMAIN runs \cup {i} /\ i \in DOMAIN runs' /\ i \notin DOMAIN runs
          /\ runs'[i].status = "running" /\ \A j \in DOMAIN runs \ {i} : runs'[j] = runs[j]
      BY <1>1, <1>3 DEF Open, Tables, TypeOK
    <3> HIDE DEF i
    <3> QED
      BY <1>1, <3>1, QuietStep DEF Published
  <2> QED
    BY <1>2, <1>3, <2>1 DEF Open
<1>4. ASSUME NEW i \in DOMAIN runs, Record(i) \/ Finish(i), runs'[i].status \in {"running", "failed"},
             published' = published
      PROVE  ReaderInv'
  <2>1. Snapshots' = Snapshots
    <3>1. /\ DOMAIN runs' = DOMAIN runs \cup {i} /\ i \in DOMAIN runs' /\ runs[i].status = "running"
          /\ \A j \in DOMAIN runs \ {i} : runs'[j] = runs[j]
      BY <1>1, <1>4 DEF Record, Finish, Tables, TypeOK
    <3> QED
      BY <1>1, <1>4, <3>1, QuietStep DEF Published
  <2> QED
    BY <1>2, <1>4, <2>1 DEF Record, Finish
<1>5. ASSUME NEW i \in DOMAIN runs, Record(i) PROVE ReaderInv'
  <2>1. PICK batch \in Batches[i] : runs' = [runs EXCEPT ![i].rows = batch]
    BY <1>5 DEF Record
  <2>2. runs[i] \in Runs /\ runs[i].status = "running"
    BY <1>1, <1>5 DEF Record, Tables, TypeOK
  <2>3. runs'[i].status = "running" /\ published' = published
    BY <1>5, <2>1, <2>2 DEF Record, Runs
  <2> QED
    BY <1>4, <1>5, <2>3
<1>6. ASSUME NEW i \in DOMAIN runs, Finish(i) PROVE ReaderInv'
  <2>1. PICK status \in {"success", "partial", "failed"} :
          /\ runs' = [runs EXCEPT ![i].status = status]
          /\ published' = (published \/ status # "failed")
    BY <1>6 DEF Finish
  <2>2. runs'[i].status = status
    BY <1>1, <2>1 DEF Tables, TypeOK, Runs
  <2>3. CASE status = "failed"
    <3>1. published' = published
      BY <1>1, <2>1, <2>3 DEF Tables, TypeOK
    <3> QED
      BY <1>4, <1>6, <2>2, <2>3, <3>1
  <2>4. CASE status # "failed"
    BY <2>1, <2>4 DEF ReaderInv
  <2> QED
    BY <2>3, <2>4
<1>7. ASSUME UNCHANGED runs
      PROVE  /\ Snapshots' = Snapshots
             /\ \A r \in References : /\ GetCheapest(r)' = GetCheapest(r)
                                     /\ GetFairPrice(r)' = GetFairPrice(r)
                                     /\ ListListings(r)' = ListListings(r)
  <2>1. Snapshots' = Snapshots
    BY <1>7 DEF Snapshots, LatestRuns
  <2> QED
    BY <2>1, SameSnapshots
<1>8. ASSUME NEW r \in References, ReadCheapest(r) PROVE ReaderInv'
  BY <1>7, <1>8 DEF ReadCheapest, ReaderInv
<1>9. CASE ReadFair
  <2>1. asked \in References /\ asked' = asked
    BY <1>1, <1>9 DEF ReadFair, Tables, TypeOK
  <2>2. ASSUME ~published PROVE cheapest = GetCheapest(asked) /\ pc' \in {"list", "shown"}
    BY <1>1, <1>9, <2>2 DEF ReadFair, ReaderInv
  <2>3. ASSUME ~published, pc' = "shown" PROVE cheapest = NoAnswer
    BY <1>9, <2>1, <2>2, <2>3, <1>1, Answers, Unanswered DEF ReadFair
  <2>4. pc' = "list" => cheapest # NoAnswer
    BY <1>9 DEF ReadFair
  <2> QED
    BY <1>7, <1>9, <2>1, <2>2, <2>3, <2>4 DEF ReadFair, ReaderInv
<1>10. CASE ReadListings
  <2>1. asked \in References /\ asked' = asked
    BY <1>1, <1>10 DEF ReadListings, Tables, TypeOK
  <2> QED
    BY <1>1, <1>7, <1>10, <2>1 DEF ReadListings, ReaderInv
<1>11. CASE UNCHANGED vars
  BY <1>2, <1>7, <1>11 DEF vars
<1> QED
  BY <1>3, <1>5, <1>6, <1>8, <1>9, <1>10, <1>11 DEF Next

THEOREM QueriesInvariant == Spec => []QueriesInv
<1>1. Init => QueriesInv
  BY QueriesInit
<1>2. QueriesInv /\ [Next]_vars => QueriesInv'
  BY TablesStep, ReaderStep DEF QueriesInv
<1> QED
  BY <1>1, <1>2, PTL DEF Spec

-----------------------------------------------------------------------------
\* Whatever is in the tables, the cheapest listing, the fair price, the list behind them and
\* the summary of the catalogue say the same (the filters of mcp/queries.py, written twice).
THEOREM CrawlQueriesAgree == Spec => []QueriesAgree
<1>1. QueriesInv => QueriesAgree
  BY TablesOneStory, TablesSummaryAgrees DEF QueriesInv, Tables, QueriesAgree
<1> QED
  BY <1>1, QueriesInvariant, PTL

\* As long as most listings of a reference ask at least p, nothing below the floor of p is
\* quoted for it: deposits and straps need a majority.
THEOREM JunkIsNeverQuoted == Spec => []JunkNotQuoted
<1>1. QueriesInv => JunkNotQuoted
  BY TablesJunkNotQuoted DEF QueriesInv
<1> QED
  BY <1>1, QueriesInvariant, PTL

\* The guard against junk never leaves a priced reference without an answer, nor does a run
\* that fails or goes on.
THEOREM PricedIsAlwaysAnswered == Spec => []PricedIsAnswered
<1>1. QueriesInv => PricedIsAnswered
  BY TablesPricedIsAnswered DEF QueriesInv
<1> QED
  BY <1>1, QueriesInvariant, PTL

\* The three reads of a search agree although each has a connection of its own, unless a run
\* is published between them.
THEOREM SearchShowsTheWorking == Spec => []ListShowsTheWorking
<1>1. QueriesInv => ListShowsTheWorking
  <2> SUFFICES ASSUME Tables, ReaderInv, pc = "shown", ~published
               PROVE  /\ cheapest = NoAnswer <=> fair = NoAnswer
                      /\ cheapest # NoAnswer =>
                           /\ cheapest = fair.min
                           /\ Len(listed) = IF fair.n < Limit THEN fair.n ELSE Limit
                           /\ Limit > 0 => listed[1] = cheapest
    BY DEF ListShowsTheWorking, QueriesInv
  <2>1. /\ cheapest = GetCheapest(asked) /\ fair = GetFairPrice(asked) /\ asked \in References
        /\ cheapest # NoAnswer => listed = ListListings(asked)
    BY DEF ReaderInv, Tables, TypeOK
  <2>2. CASE Priced(asked) = {}
    BY <2>1, <2>2, Unanswered
  <2>3. CASE Priced(asked) # {}
    BY <2>1, <2>3, Answers, Listed
  <2> QED
    BY <2>2, <2>3
<1> QED
  BY <1>1, QueriesInvariant, PTL
=============================================================================
