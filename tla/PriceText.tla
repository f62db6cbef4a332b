------------------------------ MODULE PriceText ------------------------------
(***************************************************************************)
(* _parse_price of the live search: the number a listing is shown with     *)
(* where the API gives only a text.  A text is the run the pattern finds,  *)
(* from its first digit on: groups of one to three digits and the marks    *)
(* between them.  Which digits they are is left out: parsing never         *)
(* reorders them, so a number is how many of them stand before its point   *)
(* and how many after it.                                                  *)
(***************************************************************************)
EXTENDS Naturals, SequencesExt, Subsequences

Digits == [d |-> 1, dd |-> 2, ddd |-> 3]
Marks == {",", ".", " ", "nbsp"}
Tokens == DOMAIN Digits \cup Marks

Blank == [whole |-> 0, decimals |-> 0]

\* The digits of a piece of text.
Count(text) ==
  LET sum[n \in 0..Len(text)] ==
        IF n = 0 THEN 0
        ELSE IF text[n] \in DOMAIN Digits THEN sum[n - 1] + Digits[text[n]] ELSE sum[n - 1]
  IN  sum[Len(text)]

-----------------------------------------------------------------------------
Has(text, mark) == \E i \in DOMAIN text : text[i] = mark
LastOf(text, S) ==
  IF \E i \in DOMAIN text : text[i] \in S
  THEN CHOOSE i \in DOMAIN text : text[i] \in S /\ \A j \in DOMAIN text : text[j] \in S => j <= i
  ELSE 0
LastAt(text, mark) == LastOf(text, {mark})
After(text, i) == SubSeq(text, i + 1, Len(text))
Without(text, mark) == Within(text, Tokens \ {mark})
CommaToPoint(text) == [i \in DOMAIN text |-> IF text[i] = "," THEN "." ELSE text[i]]

\* strip() takes every white space off the end, replace() only the blanks inside.
Stripped(text) ==
  Without(SubSeq(text, 1, LastOf(text, Tokens \ {" ", "nbsp"})), " ")

\* len() of what follows the last comma.
WidthAfterComma(text) ==
  LET rest == After(text, LastAt(text, ","))
  IN  Count(rest) + Len(Within(rest, Marks))

\* Mutant: a lone comma is always the decimal mark.
NormalisedComma(text) ==
  IF Has(text, ",") /\ Has(text, ".")
  THEN IF LastAt(text, ",") > LastAt(text, ".")
       THEN CommaToPoint(Without(text, ".")) ELSE Without(text, ",")
  ELSE CommaToPoint(text)

\* With both marks the last is the decimal one; a lone comma is, where exactly
\* two digits follow it.
Normalised(text) ==
  IF Has(text, ",") /\ Has(text, ".")
  THEN IF LastAt(text, ",") > LastAt(text, ".")
       THEN CommaToPoint(Without(text, ".")) ELSE Without(text, ",")
  ELSE IF Has(text, ",") /\ WidthAfterComma(text) = 2
       THEN CommaToPoint(text) ELSE Without(text, ",")

\* float(): digits with one point at most; anything else raises.
Float(text) ==
  LET point == LastAt(text, ".")
  IN  IF Has(text, "nbsp") \/ Len(Within(text, {"."})) > 1
      THEN Blank
      ELSE IF point = 0 THEN [whole |-> Count(text), decimals |-> 0]
           ELSE [whole |-> Count(SubSeq(text, 1, point)), decimals |-> Count(After(text, point))]

ParsePrice(text) == Float(Normalised(Stripped(text)))

-----------------------------------------------------------------------------
\* Reference: a number as people write it, in groups of three digits with a mark
\* between them or without, and two decimals after another mark or none.
Grouped(text, mark) ==
  /\ text # <<>>
  /\ \A i \in DOMAIN text : IF i % 2 = 1 THEN text[i] \in DOMAIN Digits ELSE text[i] = mark
  /\ Len(text) % 2 = 1
  /\ \A i \in DOMAIN text : i % 2 = 1 /\ i > 1 => text[i] = "ddd"
Plain(text) == text # <<>> /\ \A i \in DOMAIN text : text[i] \in DOMAIN Digits
Amount(text, mark) == Grouped(text, mark) \/ Plain(text)

Written(text) ==
  LET n == Len(text)
  IN  {[whole |-> Count(text), decimals |-> 0] : mark \in {m \in Marks : Amount(text, m)}}
      \cup {[whole |-> Count(text) - 2, decimals |-> 2] :
              marks \in {m \in Marks \X {",", "."} :
                           /\ m[1] # m[2] /\ n > 2
                           /\ text[n] = "dd" /\ text[n - 1] = m[2]
                           /\ Amount(SubSeq(text, 1, n - 2), m[1])}}

\* White space may follow it, before a currency.
Trimmed(text) == SubSeq(text, 1, LastOf(text, Tokens \ {" ", "nbsp"}))

\* "12.500": one point with three digits after it, which is read as a decimal mark.
LonePoint(text) == Len(text) = 3 /\ Grouped(text, ".")

\* However a number is written, with commas, points or spaces between its thousands and
\* the other mark before its cents, it is read as it was written or left out: "a wrong
\* number is worse than a blank" (fetcher.py:152).  A lone point is the exception.
ReadAsWritten(text) ==
  LET written == Written(Trimmed(text))
  IN  written # {} /\ ~LonePoint(Trimmed(text)) => ParsePrice(text) \in written \cup {Blank}
=============================================================================
