---------------------------- MODULE TokenMatching ----------------------------
(***************************************************************************)
(* When the Shopify adapter files a product under a reference: _tokens,    *)
(* _spans_whole_tokens and _matches.  A text is a sequence of lower-case   *)
(* letters and digits (Alnum) and of anything else; a product is the       *)
(* sequence of its searchable texts, a term is alphanumeric (_compact).    *)
(***************************************************************************)
EXTENDS Naturals, SequencesExt, Subsequences

CONSTANT Alnum  \* the characters of tokens

\* _tokens: the alphanumeric runs of a text, from left to right.
TokensOf(text) ==
  LET found[n \in 0..Len(text)] ==
        IF n = 0 THEN <<>>
        ELSE IF text[n] \notin Alnum THEN found[n - 1]
        ELSE IF n > 1 /\ text[n - 1] \in Alnum
             THEN [found[n - 1] EXCEPT ![Len(found[n - 1])] = Append(@, text[n])]
             ELSE Append(found[n - 1], <<text[n]>>)
  IN  found[Len(text)]

\* The loops of _spans_whole_tokens: from every token on the buffer grows while it
\* is a prefix of the term.
SpansWholeTokens(tokens, term) ==
  \E start \in DOMAIN tokens : \E end \in start..Len(tokens) :
     LET buffer(e) == FlattenSeq(SubSeq(tokens, start, e))
     IN  buffer(end) = term /\ \A e \in start..end - 1 : IsPrefix(buffer(e), term)

\* Mutant: the texts of a product are one stream of tokens.
MatchMerged(product, term) ==
  term # <<>> /\ SpansWholeTokens(FlattenSeq([f \in DOMAIN product |-> TokensOf(product[f])]), term)

\* _matches for one term: a text at a time.
Match(product, term) ==
  term # <<>> /\ \E f \in DOMAIN product : SpansWholeTokens(TokensOf(product[f]), term)

-----------------------------------------------------------------------------
\* Reference: the term stands in the text, punctuation aside, and neither begins nor ends
\* next to another letter or digit.
StandsIn(text, term) ==
  \E i, j \in DOMAIN text :
     /\ i <= j /\ text[i] \in Alnum /\ text[j] \in Alnum
     /\ Within(SubSeq(text, i, j), Alnum) = term
     /\ i > 1 => text[i - 1] \notin Alnum
     /\ j < Len(text) => text[j + 1] \notin Alnum

\* A product is filed under a reference exactly if one of its texts spells one of the
\* reference's terms from word boundary to word boundary, however it is punctuated: never
\* from the middle of a number, and never from two texts together (shopify.py:55-59, 136-139).
FiledWhereSpelled(product, term) ==
  Match(product, term) <=> term # <<>> /\ \E f \in DOMAIN product : StandsIn(product[f], term)
=============================================================================
