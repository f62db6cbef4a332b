-------------------------- MODULE ReferenceCatalog --------------------------
(***************************************************************************)
(* find_reference of the MCP server: which tracked references a free text  *)
(* names, best first, and when a search takes its answer without asking    *)
(* the model.  A query is the words it holds and the references whose      *)
(* number or alias it quotes; a score is a number of halves of a           *)
(* reference's model words.                                                *)
(***************************************************************************)
EXTENDS Naturals, FiniteSets, SequencesExt, Subsequences

CONSTANTS Catalogue,  \* config/references.yaml: a sequence of
                      \* [ref, model, brand, enabled], model and brand sets of words
          Limit       \* limit of find_reference

ASSUME CatalogueAssumption ==
  /\ Catalogue \in Seq(ToSet(Catalogue))
  /\ \A reference \in ToSet(Catalogue) : IsFiniteSet(reference.model)
ASSUME LimitAssumption == Limit \in Nat /\ Limit >= 2

\* load_catalog
Tracked == Within(Catalogue, {reference \in ToSet(Catalogue) : reference.enabled})
Entries == DOMAIN Tracked

Quoted(query) == {i \in Entries : Tracked[i].ref \in query.quotes}
Overlap(i, query) == Cardinality(Tracked[i].model \cap query.words)
BrandNamed(i, query) == Tracked[i].brand \cap query.words # {}

\* The words of a brand alone match nothing.
Matched(query) == Quoted(query) \cup {i \in Entries : Overlap(i, query) > 0}

Confidence(i, query) ==
  IF i \in Quoted(query) THEN "exact"
  ELSE IF 2 * Overlap(i, query) >= Cardinality(Tracked[i].model) THEN "likely" ELSE "possible"

\* The score times twice the number of model words.
Halves(i, query) ==
  2 * Overlap(i, query) + (IF BrandNamed(i, query) THEN Cardinality(Tracked[i].model) ELSE 0)

\* A quoted reference scores 100, more than words can.
Above(i, j, query) ==
  /\ j \notin Quoted(query)
  /\ \/ i \in Quoted(query)
     \/   Halves(i, query) * Cardinality(Tracked[j].model)
        > Halves(j, query) * Cardinality(Tracked[i].model)

\* The sort is stable: equal scores keep the order of the catalogue.
Before(i, j, query) == Above(i, j, query) \/ (~Above(j, i, query) /\ i < j)

\* The place of a match in the sorted list is after all that come before it.
Sorted(matches, query) ==
  [n \in 1..Cardinality(matches) |->
     CHOOSE i \in matches : Cardinality({j \in matches : Before(j, i, query)}) = n - 1]

Cut(order) == IF Len(order) > Limit THEN SubSeq(order, 1, Limit) ELSE order

\* Mutant: the cut comes before the sort.
FindReferenceUnsorted(query) ==
  Sorted(ToSet(Cut(Within([i \in Entries |-> i], Matched(query)))), query)

FindReference(query) == Cut(Sorted(Matched(query), query))

\* _resolve: one exact match, or one match at all, is the reference.
Unasked(query) ==
  LET matches == FindReference(query)
      exact == Within(matches, {i \in Entries : Confidence(i, query) = "exact"})
  IN  IF Len(exact) = 1 THEN {exact[1]}
      ELSE IF Len(matches) = 1 THEN {matches[1]} ELSE {}

-----------------------------------------------------------------------------
\* The place of a reference on the list, 0 if it is not on it.
Rank(i, query) ==
  LET matches == FindReference(query)
  IN  IF i \in ToSet(matches) THEN CHOOSE n \in DOMAIN matches : matches[n] = i ELSE 0

\* The reference a query quotes is found: none it does not quote comes before it or takes
\* its place on the cut list, and alone it is taken without asking the model, whatever else
\* the words match.
QuotedFirst(query) ==
  /\ \A i \in Quoted(query), j \in Entries \ Quoted(query) :
        Rank(j, query) # 0 => Rank(i, query) \in 1..Rank(j, query)
  /\ Unasked(query) # {} /\ Quoted(query) # {} => Unasked(query) = Quoted(query)
  /\ Cardinality(Quoted(query)) = 1 => Unasked(query) = Quoted(query)

\* With its brand named or not, a reference the text likely names is not behind one it
\* possibly names whose brand is no better named.
LikelyFirst(query) ==
  \A i, j \in Matched(query) :
     /\ Confidence(i, query) = "likely" /\ Confidence(j, query) = "possible"
     /\ BrandNamed(j, query) => BrandNamed(i, query)
     /\ Rank(j, query) # 0
     => Rank(i, query) \in 1..Rank(j, query)

\* One more word of a reference's model never puts it behind a reference without that word,
\* which can at most lose its place on the cut list with it.
WordsHelp(query) ==
  \A i, j \in Entries : \A word \in Tracked[i].model \ (Tracked[j].model \cup Tracked[j].brand) :
     LET longer == [query EXCEPT !.words = @ \cup {word}]
     IN  Rank(i, query) \in 1..Rank(j, query) /\ Rank(j, longer) # 0
           => Rank(i, longer) \in 1..Rank(j, longer) - 1

\* A query is ranked as it names the references.
Ranked(query) == QuotedFirst(query) /\ LikelyFirst(query) /\ WordsHelp(query)
=============================================================================
