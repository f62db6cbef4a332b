--------------------------- MODULE GroundedOffers ---------------------------
(***************************************************************************)
(* What search_web_market keeps of the model's two answers: the grounded   *)
(* text with its sources, and the offers and guidance a second, untrusted  *)
(* call extracts from it.  A text is the sequence of its figures, a figure *)
(* or a price the sequence of its digits; what else they say is left out.  *)
(***************************************************************************)
EXTENDS Naturals, SequencesExt, Subsequences

\* What the calls answer: raised, the text (blank or not), its figures, the pages cited;
\* and whether the extraction raised or could not be parsed, or its offers and guidance.
NoSnapshot == [sources |-> {}, offers |-> <<>>, guidance |-> <<>>]

\* _price_is_supported: some digits, and they occur in the digits of the text.
PriceIsSupported(price, figures) ==
  price # <<>> /\ price \in SubSeqs(FlattenSeq(figures))

\* Mutant: a price is checked, the page it cites is not.
KeptUncited(offers, figures, sources) ==
  Within(offers, {offer \in ToSet(offers) : PriceIsSupported(offer.price, figures)})

Kept(offers, figures, sources) ==
  Within(offers, {offer \in ToSet(offers) : /\ offer.url \in sources
                                            /\ PriceIsSupported(offer.price, figures)})

Guide(rows, figures) ==
  Within(rows, {row \in ToSet(rows) : PriceIsSupported(row.price, figures)})

\* _extract_offers: an extraction that fails or cannot be parsed yields nothing.
ExtractOffers(extraction, figures, sources) ==
  IF extraction.parsed
  THEN [offers |-> Kept(extraction.offers, figures, sources),
        guidance |-> Guide(extraction.guidance, figures)]
  ELSE [offers |-> <<>>, guidance |-> <<>>]

\* search_web_market: no text or no page cited is no answer.
SearchWebMarket(reply, extraction) ==
  IF reply.raised \/ reply.blank \/ reply.cited = {} THEN NoSnapshot
  ELSE LET extracted == ExtractOffers(extraction, reply.figures, reply.cited)
       IN  [sources |-> reply.cited, offers |-> extracted.offers, guidance |-> extracted.guidance]

-----------------------------------------------------------------------------
\* The digits of the price can be read off the text, one after the other.
ReadOff(price, figures) ==
  LET digits == FlattenSeq(figures)
  IN  \E i \in 0..Len(digits) : i + Len(price) <= Len(digits)
        /\ \A n \in DOMAIN price : digits[i + n] = price[n]

\* The untrusted extraction introduces nothing: prices are shown only beside a text with
\* sources, each cites one of them and reads off the text's digits.  Nor does it take
\* anything away: where it fails the text stays, and an offer whose price is a figure of the
\* text and whose page was cited is kept (gemini.py:381-386).
OffersAreGrounded(reply, extraction) ==
  LET shown == SearchWebMarket(reply, extraction)
      grounded == ~reply.raised /\ ~reply.blank /\ reply.cited # {}
  IN  /\ shown.sources = IF grounded THEN reply.cited ELSE {}
      /\ \A offer \in ToSet(shown.offers) :
            grounded /\ offer.url \in reply.cited /\ ReadOff(offer.price, reply.figures)
      /\ \A row \in ToSet(shown.guidance) : grounded /\ ReadOff(row.price, reply.figures)
      /\ grounded /\ extraction.parsed =>
            \A offer \in ToSet(extraction.offers) :
               offer.url \in reply.cited /\ offer.price \in ToSet(reply.figures) \ {<<>>}
               => offer \in ToSet(shown.offers)
=============================================================================
