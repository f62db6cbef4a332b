--------------------------- MODULE MCPriceQueries ---------------------------
(* Instances of PriceQueries: what runs record.                            *)
EXTENDS PriceQueries, TLC

CONSTANTS r1, r2

Row(id, ref, price, kind) == [id |-> id, ref |-> ref, price |-> price, kind |-> kind]

Symmetry == Permutations(Sources)

\* One to three watches of a reference with prices that tie, lie at and below the floor, are
\* zero, one of the other reference, and a row of each other kind.
PriceLists == {f \in UNION {[1..n -> {0, 7, 20, 100}] : n \in 1..3} :
                 \A i \in 1..Len(f) - 1 : f[i] <= f[i + 1]}
Others == {Row(6, r1, 3, "other_currency"), Row(7, r1, 1, "no_price"), Row(8, r1, 0, "not_a_watch"),
           Row(9, r2, 40, "watch")}
ManyPrices == {{Row(i, r1, f[i], "watch") : i \in DOMAIN f} \cup Others : f \in PriceLists}

\* Few prices, for runs that overlap.
FewPrices == {{Row(1, r1, 20, "watch"), Row(2, r1, 40, "watch"), Row(3, r1, 3, "watch")},
              {Row(1, r1, 7, "other_currency"), Row(2, r2, 100, "watch")}}

RunsRecord == <<ManyPrices, FewPrices>>
=============================================================================
