----------------------------- MODULE MCReading -----------------------------
(***************************************************************************)
(* The four readers of free text, each on every input up to its bound.  An *)
(* input grows by one word, token or figure at a time; a behaviour types   *)
(* into one reader only.                                                   *)
(***************************************************************************)
EXTENDS Naturals, Sequences, SequencesExt,
        ReferenceCatalog, PriceText, TokenMatching, GroundedOffers

CONSTANTS MaxTokens,   \* bound: digit groups and marks of a price
          MaxText,     \* bound: characters of the two texts of a product
          MaxFigures,  \* bound: figures of a grounded text
          MaxOffers,   \* bound: offers and guidance rows of an extraction
          Other        \* a character no token has

VARIABLES query, price, product, reply, extraction

vars == <<query, price, product, reply, extraction>>

\* Two models of one brand with a word in common, a word two brands share, and a reference
\* that is not enabled.
FiveReferences ==
  << [ref |-> "124060", model |-> {"submariner"}, brand |-> {"rolex"}, enabled |-> TRUE],
     [ref |-> "126610", model |-> {"submariner", "date"}, brand |-> {"rolex"}, enabled |-> TRUE],
     [ref |-> "26331", model |-> {"royal", "oak", "chronograph"}, brand |-> {"piguet"},
      enabled |-> TRUE],
     [ref |-> "15500", model |-> {"oak"}, brand |-> {"piguet"}, enabled |-> FALSE],
     [ref |-> "3861", model |-> {"chronograph"}, brand |-> {"omega"}, enabled |-> TRUE] >>

Words == UNION {Catalogue[i].model \cup Catalogue[i].brand : i \in DOMAIN Catalogue}
References == {Catalogue[i].ref : i \in DOMAIN Catalogue}
Terms == UNION {[1..n -> Alnum] : n \in 0..3}
Numbers == {<<1>>, <<2>>, <<1, 2>>, <<2, 1>>}
Pages == {"cited", "invented"}

NoQuery == [words |-> {}, quotes |-> {}]
NoProduct == <<<<>>, <<>>>>
NoReply == [raised |-> FALSE, blank |-> FALSE, figures |-> <<>>, cited |-> {}]
NoExtraction == [parsed |-> TRUE, offers |-> <<>>, guidance |-> <<>>]

Init == /\ query = NoQuery /\ price = <<>> /\ product = NoProduct
        /\ reply = NoReply /\ extraction = NoExtraction

Typed == [query |-> query # NoQuery, price |-> price # <<>>, product |-> product # NoProduct,
          reply |-> reply # NoReply \/ extraction # NoExtraction]
Only(reader) == \A other \in DOMAIN Typed \ {reader} : ~Typed[other]

-----------------------------------------------------------------------------
TypeWord == /\ Only("query")
            /\ \/ \E word \in Words : query' = [query EXCEPT !.words = @ \cup {word}]
               \/ \E ref \in References : query' = [query EXCEPT !.quotes = @ \cup {ref}]
            /\ UNCHANGED <<price, product, reply, extraction>>

TypePrice == /\ Only("price") /\ Len(price) < MaxTokens
             /\ \E token \in Tokens : /\ price = <<>> => token \notin Marks
                                      /\ price' = Append(price, token)
             /\ UNCHANGED <<query, product, reply, extraction>>

TypeText == /\ Only("product") /\ Len(product[1]) + Len(product[2]) < MaxText
            /\ \E f \in 1..2, char \in Alnum \cup {Other} :
                  product' = [product EXCEPT ![f] = Append(@, char)]
            /\ UNCHANGED <<query, price, reply, extraction>>

\* The first call answers ...
Ground == /\ Only("reply") /\ extraction = NoExtraction
          /\ \/ Len(reply.figures) < MaxFigures
                /\ \E number \in Numbers :
                      reply' = [reply EXCEPT !.figures = Append(@, number)]
             \/ reply' = [reply EXCEPT !.cited = {"cited"}]
             \/ reply.figures = <<>> /\ reply' = [reply EXCEPT !.blank = TRUE]
             \/ reply.figures = <<>> /\ reply.cited = {} /\ reply' = [reply EXCEPT !.raised = TRUE]
          /\ UNCHANGED <<query, price, product, extraction>>

\* ... then the second.
Extract == /\ Only("reply")
           /\ \/ extraction = NoExtraction /\ extraction' = [extraction EXCEPT !.parsed = FALSE]
              \/ /\ extraction.parsed /\ Len(extraction.offers) < MaxOffers
                 /\ \E number \in Numbers \cup {<<>>, <<1, 2, 1>>}, page \in Pages :
                       extraction' = [extraction EXCEPT
                         !.offers = Append(@, [price |-> number, url |-> page]),
                         !.guidance = Append(@, [price |-> number])]
           /\ UNCHANGED <<query, price, product, reply>>

Next == TypeWord \/ TypePrice \/ TypeText \/ Ground \/ Extract

Spec == Init /\ [][Next]_vars

-----------------------------------------------------------------------------
\* The catalogue names, best first, the references the query names (catalog.py:75-124).
RankingHolds == Ranked(query)

\* A price text of the live search is read as it was written or left blank, a lone point
\* before three digits aside (fetcher.py:151-183).
PricesRead == price # <<>> => ReadAsWritten(price)

\* A product is filed under a reference exactly where one of its texts spells it between
\* word boundaries (shopify.py:52-69, 132-163).
FiledRight == \A term \in Terms : FiledWhereSpelled(product, term)

\* The prices shown beside a grounded text are in it (gemini.py:252-457).
OffersGrounded == OffersAreGrounded(reply, extraction)
=============================================================================
