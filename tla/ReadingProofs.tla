---------------------------- MODULE ReadingProofs ----------------------------
(***************************************************************************)
(* What the readers of free text promise of every text, however long: the  *)
(* prices shown beside a grounded text are in it, a product is filed under *)
(* a reference exactly where one of its texts spells it, a query names the *)
(* references of the catalogue best first, and a price is read as it was   *)
(* written.                                                                *)
(***************************************************************************)
EXTENDS MCReading, SequenceTheorems, FiniteSetTheorems, SequenceLemmas

-----------------------------------------------------------------------------
\* What the two calls can answer, of any length.
Offers == [price : Seq(Nat), url : Pages]
Rows == [price : Seq(Nat)]
Replies == [raised : BOOLEAN, blank : BOOLEAN, figures : Seq(Seq(Nat)), cited : SUBSET Pages]
Extractions == [parsed : BOOLEAN, offers : Seq(Offers), guidance : Seq(Rows)]

LEMMA FlattenType ==
  ASSUME NEW V, NEW ss \in Seq(Seq(V))
  PROVE  FlattenSeq(ss) \in Seq(V)
<1>1. <<>> \in Seq(V)
  OBVIOUS
<1> QED
  BY <1>1, FlattenAppend

LEMMA SupportedReadsOff ==
  ASSUME NEW figures \in Seq(Seq(Nat)), NEW asked \in Seq(Nat), PriceIsSupported(asked, figures)
  PROVE  ReadOff(asked, figures)
<1> DEFINE digits == FlattenSeq(figures)
<1>1. digits \in Seq(Nat)
  BY FlattenType
<1>2. PICK i \in 0..Len(digits), j \in 0..Len(digits) : asked = SubSeq(digits, i + 1, j)
  BY DEF PriceIsSupported, SubSeqs
<1>3. asked # <<>>
  BY DEF PriceIsSupported
<1> HIDE DEF digits
<1>4. i < j /\ Len(asked) = j - i /\ \A n \in 1..Len(asked) : asked[n] = digits[i + n]
  BY <1>1, <1>2, <1>3
<1>5. i + Len(asked) <= Len(digits) /\ DOMAIN asked = 1..Len(asked)
  BY <1>1, <1>4
<1> QED
  BY <1>4, <1>5 DEF ReadOff, digits

\* Each figure of a text stands in its digits.
FigureAt(p, digits) == \E i, j \in 0..Len(digits) : p = SubSeq(digits, i + 1, j)

LEMMA FiguresStand ==
  \A figures \in Seq(Seq(Nat)) : \A p \in ToSet(figures) : FigureAt(p, FlattenSeq(figures))
<1> DEFINE P == {fs \in Seq(Seq(Nat)) : \A p \in ToSet(fs) : FigureAt(p, FlattenSeq(fs))}
<1>1. <<>> \in P
  <2>1. <<>> \in Seq(Seq(Nat)) /\ ToSet(<<>>) = {}
    BY DEF ToSet
  <2> QED
    BY <2>1
<1>2. ASSUME NEW fs \in P, NEW t \in Seq(Nat) PROVE Append(fs, t) \in P
  <2> DEFINE d == FlattenSeq(fs)
             u == FlattenSeq(Append(fs, t))
  <2>1. fs \in Seq(Seq(Nat)) /\ Append(fs, t) \in Seq(Seq(Nat))
    OBVIOUS
  <2>2. d \in Seq(Nat) /\ u = d \o t
    BY <2>1, FlattenAppend
  <2>3. ToSet(Append(fs, t)) = ToSet(fs) \cup {t}
    BY <2>1, MembersAppend
  <2>4. \A p \in ToSet(fs) : FigureAt(p, d)
    OBVIOUS
  <2> HIDE DEF d, u, P
  <2>5. Len(u) = Len(d) + Len(t) /\ Len(d) \in Nat /\ Len(t) \in Nat
    BY <2>2
  <2>6. ASSUME NEW p \in ToSet(fs) PROVE FigureAt(p, u)
    <3>1. PICK i \in 0..Len(d), j \in 0..Len(d) : p = SubSeq(d, i + 1, j)
      BY <2>4 DEF FigureAt
    <3>2. SubSeq(d, i + 1, j) = SubSeq(u, i + 1, j)
      BY <2>2, <2>5
    <3>3. i \in 0..Len(u) /\ j \in 0..Len(u)
      BY <2>5
    <3> QED
      BY <3>1, <3>2, <3>3 DEF FigureAt
  <2>7. FigureAt(t, u)
    <3>1. t = SubSeq(u, Len(d) + 1, Len(u))
      BY <2>2, <2>5
    <3>2. Len(d) \in 0..Len(u) /\ Len(u) \in 0..Len(u)
      BY <2>5
    <3> QED
      BY <3>1, <3>2 DEF FigureAt
  <2> QED
    BY <2>1, <2>3, <2>6, <2>7 DEF P, u
<1> HIDE DEF P
<1>3. P \in SUBSET Seq(Seq(Nat))
  BY DEF P
<1>4. P = Seq(Seq(Nat))
  BY <1>1, <1>2, <1>3, SequenceInduction
<1> QED
  BY <1>4 DEF P

LEMMA FigureIsSupported ==
  ASSUME NEW figures \in Seq(Seq(Nat)), NEW asked \in ToSet(figures) \ {<<>>}
  PROVE  PriceIsSupported(asked, figures)
<1>1. FigureAt(asked, FlattenSeq(figures))
  BY FiguresStand
<1> DEFINE digits == FlattenSeq(figures)
<1>2. PICK i \in 0..Len(digits), j \in 0..Len(digits) : asked = SubSeq(digits, i + 1, j)
  BY <1>1 DEF FigureAt
<1> HIDE DEF digits
<1>3. asked \in SubSeqs(digits)
  BY <1>2 DEF SubSeqs
<1> QED
  BY <1>3 DEF PriceIsSupported, digits

\* Whatever the two calls answer, and however long: nothing is shown that the text does not
\* hold, nothing is lost that it does.
LEMMA GroundedWhatever ==
  ASSUME NEW r \in Replies, NEW x \in Extractions
  PROVE  OffersAreGrounded(r, x)
<1> DEFINE grounded == ~r.raised /\ ~r.blank /\ r.cited # {}
           kept == Kept(x.offers, r.figures, r.cited)
           rows == Guide(x.guidance, r.figures)
           shown == SearchWebMarket(r, x)
<1>1. r.figures \in Seq(Seq(Nat)) /\ x.offers \in Seq(Offers) /\ x.guidance \in Seq(Rows)
      /\ r.cited \subseteq Pages
  BY DEF Replies, Extractions
<1>2. ToSet(x.offers) \subseteq Offers /\ ToSet(x.guidance) \subseteq Rows
  BY <1>1 DEF ToSet
<1>3. ToSet(kept) = {offer \in ToSet(x.offers) : offer.url \in r.cited
                                                /\ PriceIsSupported(offer.price, r.figures)}
  <2> DEFINE S == {offer \in ToSet(x.offers) : offer.url \in r.cited
                                               /\ PriceIsSupported(offer.price, r.figures)}
  <2>1. ToSet(Within(x.offers, S)) = ToSet(x.offers) \cap S
    <3> HIDE DEF S
    <3> QED
      BY <1>1, WithinMembers
  <2> QED
    BY <2>1 DEF Kept
<1>4. ToSet(rows) = {row \in ToSet(x.guidance) : PriceIsSupported(row.price, r.figures)}
  <2> DEFINE S == {row \in ToSet(x.guidance) : PriceIsSupported(row.price, r.figures)}
  <2>1. ToSet(Within(x.guidance, S)) = ToSet(x.guidance) \cap S
    <3> HIDE DEF S
    <3> QED
      BY <1>1, WithinMembers
  <2> QED
    BY <2>1 DEF Guide
<1>5. \A offer \in ToSet(kept) : offer.url \in r.cited /\ ReadOff(offer.price, r.figures)
  <2> SUFFICES ASSUME NEW offer \in ToSet(kept)
               PROVE  offer.url \in r.cited /\ ReadOff(offer.price, r.figures)
    OBVIOUS
  <2>1. offer \in Offers /\ offer.url \in r.cited /\ PriceIsSupported(offer.price, r.figures)
    BY <1>2, <1>3
  <2>2. offer.price \in Seq(Nat)
    BY <2>1 DEF Offers
  <2> QED
    BY <1>1, <2>1, <2>2, SupportedReadsOff
<1>6. \A row \in ToSet(rows) : ReadOff(row.price, r.figures)
  <2> SUFFICES ASSUME NEW row \in ToSet(rows) PROVE ReadOff(row.price, r.figures)
    OBVIOUS
  <2>1. row \in Rows /\ PriceIsSupported(row.price, r.figures)
    BY <1>2, <1>4
  <2>2. row.price \in Seq(Nat)
    BY <2>1 DEF Rows
  <2> QED
    BY <1>1, <2>1, <2>2, SupportedReadsOff
<1>7. \A offer \in ToSet(x.offers) :
         offer.url \in r.cited /\ offer.price \in ToSet(r.figures) \ {<<>>} => offer \in ToSet(kept)
  BY <1>1, <1>3, FigureIsSupported
<1> HIDE DEF kept, rows
<1>8. ToSet(<<>>) = {}
  BY DEF ToSet
<1>9. shown = IF grounded
              THEN [sources |-> r.cited, offers |-> IF x.parsed THEN kept ELSE <<>>,
                    guidance |-> IF x.parsed THEN rows ELSE <<>>]
              ELSE [sources |-> {}, offers |-> <<>>, guidance |-> <<>>]
  BY DEF SearchWebMarket, NoSnapshot, ExtractOffers, kept, rows
<1>10. shown.sources = IF grounded THEN r.cited ELSE {}
  BY <1>9
<1>11. shown.offers = IF grounded /\ x.parsed THEN kept ELSE <<>>
  BY <1>9
<1>12. shown.guidance = IF grounded /\ x.parsed THEN rows ELSE <<>>
  BY <1>9
<1> HIDE DEF shown, grounded
<1>13. \A offer \in ToSet(shown.offers) :
          grounded /\ offer.url \in r.cited /\ ReadOff(offer.price, r.figures)
  BY <1>5, <1>8, <1>11
<1>14. \A row \in ToSet(shown.guidance) : grounded /\ ReadOff(row.price, r.figures)
  BY <1>6, <1>8, <1>12
<1>15. grounded /\ x.parsed =>
          \A offer \in ToSet(x.offers) :
             offer.url \in r.cited /\ offer.price \in ToSet(r.figures) \ {<<>>}
             => offer \in ToSet(shown.offers)
  BY <1>7, <1>11
<1> QED
  BY <1>10, <1>13, <1>14, <1>15 DEF OffersAreGrounded, shown, grounded
-----------------------------------------------------------------------------
\* The function TokensOf scans with: the tokens of the first n characters.
Scanned(token, text, n) ==
  IF text[n] \notin Alnum THEN token
  ELSE IF n > 1 /\ text[n - 1] \in Alnum
       THEN [token EXCEPT ![Len(token)] = Append(@, text[n])]
       ELSE Append(token, <<text[n]>>)

ScansWith(found, text) ==
  /\ found \in [0..Len(text) -> Seq(Seq(Alnum))]
  /\ found[0] = <<>>
  /\ \A n \in 1..Len(text) : found[n] = Scanned(found[n - 1], text, n)

LEMMA ScannedType ==
  ASSUME NEW V, NEW text \in Seq(V), NEW n \in 1..Len(text), NEW token \in Seq(Seq(Alnum))
  PROVE  Scanned(token, text, n) \in Seq(Seq(Alnum))
<1>1. CASE text[n] \notin Alnum
  BY <1>1 DEF Scanned
<1>2. CASE text[n] \in Alnum /\ ~(n > 1 /\ text[n - 1] \in Alnum)
  <2>1. <<text[n]>> \in Seq(Alnum)
    BY <1>2
  <2>2. Scanned(token, text, n) = Append(token, <<text[n]>>)
    BY <1>2 DEF Scanned
  <2> QED
    BY <2>1, <2>2
<1>3. CASE text[n] \in Alnum /\ n > 1 /\ text[n - 1] \in Alnum
  <2>1. Scanned(token, text, n) = [token EXCEPT ![Len(token)] = Append(token[Len(token)], text[n])]
    BY <1>3 DEF Scanned
  <2>2. CASE token = <<>>
    <3>1. Scanned(token, text, n) = <<>>
      BY <2>1, <2>2
    <3> QED
      BY <3>1
  <2>3. CASE token # <<>>
    <3>1. Len(token) \in 1..Len(token) /\ Append(token[Len(token)], text[n]) \in Seq(Alnum)
      BY <1>3, <2>3
    <3> QED
      BY <2>1, <3>1, ExceptSeq
  <2> QED
    BY <2>2, <2>3
<1> QED
  BY <1>1, <1>2, <1>3

LEMMA TokensScan ==
  ASSUME NEW V, NEW text \in Seq(V)
  PROVE  \E found : ScansWith(found, text) /\ TokensOf(text) = found[Len(text)]
<1> DEFINE step == [n \in Nat |-> [token \in Seq(Seq(Alnum)) |->
                      IF n < Len(text) THEN Scanned(token, text, n + 1) ELSE token]]
           Is(f) == f = [n \in 0..Len(text) |->
                           IF n = 0 THEN <<>>
                           ELSE IF text[n] \notin Alnum THEN f[n - 1]
                           ELSE IF n > 1 /\ text[n - 1] \in Alnum
                                THEN [f[n - 1] EXCEPT ![Len(f[n - 1])] = Append(@, text[n])]
                                ELSE Append(f[n - 1], <<text[n]>>)]
<1>1. step \in Steps(Seq(Seq(Alnum)))
  <2>1. ASSUME NEW n \in Nat, NEW token \in Seq(Seq(Alnum)), n < Len(text)
        PROVE  Scanned(token, text, n + 1) \in Seq(Seq(Alnum))
    <3>1. n + 1 \in 1..Len(text)
      BY <2>1
    <3> QED
      BY <3>1, ScannedType
  <2> QED
    BY <2>1 DEF Steps
<1>2. <<>> \in Seq(Seq(Alnum))
  OBVIOUS
<1>3. PICK f : Iterates(f, Seq(Seq(Alnum)), <<>>, step)
  <2> HIDE DEF step
  <2> QED
    BY <1>1, <1>2, Recursion
<1>4. f \in [Nat -> Seq(Seq(Alnum))] /\ f[0] = <<>>
  BY <1>3 DEF Iterates
<1>5. \A n \in 1..Len(text) : f[n] = Scanned(f[n - 1], text, n)
  <2> SUFFICES ASSUME NEW n \in 1..Len(text) PROVE f[n] = Scanned(f[n - 1], text, n)
    OBVIOUS
  <2>1. n - 1 \in Nat /\ n - 1 + 1 = n /\ n - 1 < Len(text)
    OBVIOUS
  <2>2. f[n - 1] \in Seq(Seq(Alnum)) /\ f[n - 1 + 1] = step[n - 1][f[n - 1]]
    BY <1>3, <1>4, <2>1 DEF Iterates
  <2> QED
    BY <2>1, <2>2
<1> HIDE DEF step
<1> DEFINE g == [n \in 0..Len(text) |-> f[n]]
<1>6. Is(g)
  <2>1. \A n \in 0..Len(text) : g[n] = IF n = 0 THEN <<>> ELSE Scanned(g[n - 1], text, n)
    <3> SUFFICES ASSUME NEW n \in 0..Len(text), n # 0 PROVE g[n] = Scanned(g[n - 1], text, n)
      BY <1>4
    <3>1. n \in 1..Len(text) /\ n - 1 \in 0..Len(text)
      OBVIOUS
    <3> QED
      BY <1>5, <3>1
  <2>2. g = [n \in 0..Len(text) |-> g[n]]
    OBVIOUS
  <2> HIDE DEF g
  <2>3. g = [n \in 0..Len(text) |-> IF n = 0 THEN <<>> ELSE Scanned(g[n - 1], text, n)]
    BY <2>1, <2>2
  <2> QED
    BY <2>3, Zenon DEF Scanned
<1> DEFINE found == CHOOSE h : Is(h)
<1>7. Is(found)
  BY <1>6
<1>8. TokensOf(text) = found[Len(text)]
  BY DEF TokensOf
<1> HIDE DEF found
<1>9. found = [n \in 0..Len(text) |-> IF n = 0 THEN <<>> ELSE Scanned(found[n - 1], text, n)]
  BY <1>7, Zenon DEF Scanned
<1>10. found[0] = <<>> /\ \A n \in 1..Len(text) : found[n] = Scanned(found[n - 1], text, n)
  <2>1. 0 \in 0..Len(text) /\ \A n \in 1..Len(text) : n \in 0..Len(text) /\ n # 0
    OBVIOUS
  <2> QED
    BY <1>9, <2>1
<1>11. \A n \in 0..Len(text) : found[n] \in Seq(Seq(Alnum))
  <2> DEFINE T == {n \in 0..Len(text) : found[n] \in Seq(Seq(Alnum))}
  <2>1. 0 \in T
    <3>1. 0 \in 0..Len(text)
      OBVIOUS
    <3> QED
      BY <1>2, <1>10, <3>1, Zenon
  <2>2. ASSUME NEW n \in T, n < Len(text) PROVE n + 1 \in T
    <3>1. n + 1 \in 1..Len(text) /\ n + 1 - 1 = n /\ n + 1 \in 0..Len(text)
      BY <2>2
    <3>2. found[n] \in Seq(Seq(Alnum))
      BY Zenon
    <3>3. Scanned(found[n], text, n + 1) \in Seq(Seq(Alnum))
      BY <3>1, <3>2, ScannedType
    <3>4. found[n + 1] = Scanned(found[n], text, n + 1)
      BY <1>10, <3>1
    <3> QED
      BY <3>1, <3>3, <3>4, Zenon
  <2> HIDE DEF T
  <2>3. T \in SUBSET (0..Len(text)) /\ Len(text) \in Nat
    BY DEF T
  <2>4. T = 0..Len(text)
    BY <2>1, <2>2, <2>3, InductionTo
  <2> QED
    BY <2>4 DEF T
<1>12. found \in [0..Len(text) -> Seq(Seq(Alnum))]
  BY <1>9, <1>11
<1> QED
  BY <1>8, <1>10, <1>12 DEF ScansWith

LEMMA TokensEmpty == TokensOf(<<>>) = <<>>
<1>1. <<>> \in Seq(Alnum) /\ Len(<<>>) = 0
  OBVIOUS
<1>2. PICK found : ScansWith(found, <<>>) /\ TokensOf(<<>>) = found[Len(<<>>)]
  BY <1>1, TokensScan
<1> QED
  BY <1>1, <1>2 DEF ScansWith

\* One more character: a mark ends a token, a letter or digit carries the last one on or
\* begins one.
LEMMA TokensAppend ==
  ASSUME NEW V, NEW text \in Seq(V), NEW char \in V
  PROVE  /\ TokensOf(text) \in Seq(Seq(Alnum))
         /\ TokensOf(Append(text, char)) = Scanned(TokensOf(text), Append(text, char), Len(text) + 1)
<1> DEFINE t == Append(text, char)
<1>1. t \in Seq(V) /\ Len(t) = Len(text) + 1 /\ \A n \in 1..Len(text) : t[n] = text[n]
  OBVIOUS
<1>2. PICK g : ScansWith(g, text) /\ TokensOf(text) = g[Len(text)]
  BY TokensScan
<1>3. PICK h : ScansWith(h, t) /\ TokensOf(t) = h[Len(t)]
  BY <1>1, TokensScan
<1> HIDE DEF t
<1>4. g[Len(text)] = h[Len(text)]
  <2> DEFINE T == {n \in 0..Len(text) : g[n] = h[n]}
  <2>1. 0 \in T
    BY <1>2, <1>3 DEF ScansWith
  <2>2. ASSUME NEW n \in T, n < Len(text) PROVE n + 1 \in T
    <3>1. n + 1 \in 1..Len(text) /\ n + 1 \in 1..Len(t) /\ n + 1 - 1 = n /\ g[n] = h[n]
      BY <1>1, <2>2
    <3>2. g[n + 1] = Scanned(g[n], text, n + 1)
      BY <1>2, <3>1 DEF ScansWith
    <3>3. h[n + 1] = Scanned(g[n], t, n + 1)
      BY <1>3, <3>1 DEF ScansWith
    <3>4. t[n + 1] = text[n + 1] /\ (n + 1 > 1 => t[n + 1 - 1] = text[n + 1 - 1])
      BY <1>1, <3>1
    <3>5. Scanned(g[n], t, n + 1) = Scanned(g[n], text, n + 1)
      BY <3>4 DEF Scanned
    <3> QED
      BY <3>1, <3>2, <3>3, <3>5
  <2> HIDE DEF T
  <2>3. T \in SUBSET (0..Len(text)) /\ Len(text) \in Nat
    BY DEF T
  <2>4. T = 0..Len(text)
    BY <2>1, <2>2, <2>3, InductionTo
  <2> QED
    BY <2>3, <2>4 DEF T
<1>5. h[Len(t)] = Scanned(h[Len(text)], t, Len(text) + 1)
  <2>1. Len(t) \in 1..Len(t) /\ Len(t) - 1 = Len(text)
    BY <1>1
  <2> QED
    BY <1>1, <1>3, <2>1 DEF ScansWith
<1>6. g[Len(text)] \in Seq(Seq(Alnum))
  BY <1>2 DEF ScansWith
<1> QED
  BY <1>2, <1>3, <1>4, <1>5, <1>6 DEF t

-----------------------------------------------------------------------------
\* A longest run of letters and digits, and the tokens of a text: its runs, in their order.
Run(text, i, j) ==
  /\ 1 <= i /\ i <= j /\ j <= Len(text)
  /\ \A n \in i..j : text[n] \in Alnum
  /\ i > 1 => text[i - 1] \notin Alnum
  /\ j < Len(text) => text[j + 1] \notin Alnum

Cuts(text, token, b, e) ==
  /\ b \in [1..Len(token) -> Nat] /\ e \in [1..Len(token) -> Nat]
  /\ \A k \in 1..Len(token) : Run(text, b[k], e[k]) /\ token[k] = SubSeq(text, b[k], e[k])
  /\ \A j, k \in 1..Len(token) : j < k => e[j] < b[k]
  /\ \A i \in 1..Len(text) : text[i] \in Alnum => \E k \in 1..Len(token) : b[k] <= i /\ i <= e[k]

LEMMA RunStays ==
  ASSUME NEW V, NEW text \in Seq(V), NEW char \in V, NEW i \in Nat, NEW j \in Nat,
         Run(text, i, j), j < Len(text) \/ char \notin Alnum
  PROVE  Run(Append(text, char), i, j)
         /\ SubSeq(Append(text, char), i, j) = SubSeq(text, i, j)
<1> DEFINE t == Append(text, char)
<1>1. t \in Seq(V) /\ Len(t) = Len(text) + 1 /\ t[Len(text) + 1] = char
      /\ \A n \in 1..Len(text) : t[n] = text[n]
  OBVIOUS
<1>2. 1 <= i /\ i <= j /\ j <= Len(text) /\ Len(text) \in Nat
  BY DEF Run
<1> HIDE DEF t
<1>3. \A n \in i..j : n \in 1..Len(text) /\ t[n] = text[n]
  BY <1>1, <1>2
<1>4. Run(t, i, j)
  <2>1. 1 <= i /\ i <= j /\ j <= Len(t)
    BY <1>1, <1>2
  <2>2. \A n \in i..j : t[n] \in Alnum
    BY <1>3 DEF Run
  <2>3. i > 1 => t[i - 1] \notin Alnum
    <3>1. i > 1 => i - 1 \in 1..Len(text)
      BY <1>2
    <3> QED
      BY <1>1, <3>1 DEF Run
  <2>4. t[j + 1] \notin Alnum
    <3>1. CASE j < Len(text)
      <4>1. j + 1 \in 1..Len(text)
        BY <1>2, <3>1
      <4> QED
        BY <1>1, <3>1, <4>1 DEF Run
    <3>2. CASE ~(j < Len(text))
      <4>1. j = Len(text)
        BY <1>2, <3>2
      <4> QED
        BY <1>1, <3>2, <4>1
    <3> QED
      BY <3>1, <3>2
  <2> QED
    BY <2>1, <2>2, <2>3, <2>4 DEF Run
<1>5. SubSeq(t, i, j) = SubSeq(text, i, j)
  BY <1>1, <1>2, <1>3
<1> QED
  BY <1>4, <1>5 DEF t

\* The cuts of a text that is one character longer.
LEMMA CutsGrow ==
  ASSUME NEW V, NEW text \in Seq(V), NEW char \in V, NEW token \in Seq(Seq(Alnum)),
         NEW b, NEW e, Cuts(text, token, b, e)
  PROVE  \E c, d : Cuts(Append(text, char),
                        Scanned(token, Append(text, char), Len(text) + 1), c, d)
<1> DEFINE t == Append(text, char)
           next == Scanned(token, t, Len(text) + 1)
           m == Len(token)
<1>1. t \in Seq(V) /\ Len(t) = Len(text) + 1 /\ t[Len(text) + 1] = char
      /\ \A n \in 1..Len(text) : t[n] = text[n]
  OBVIOUS
<1>8. SubSeq(t, Len(t), Len(t)) = <<char>>
  <2> HIDE DEF t
  <2>1. Len(t) \in 1..Len(t)
    BY <1>1
  <2>2. SubSeq(t, Len(t), Len(t)) = SubSeq(t, Len(t), Len(t) - 1) \o <<t[Len(t)]>>
    BY <1>1, <2>1, SubSeqRecursiveSecond
  <2>3. SubSeq(t, Len(t), Len(t) - 1) = <<>>
    BY <1>1, SubSeqEmpty
  <2>4. <<char>> \in Seq(V) /\ <<>> \o <<char>> = <<char>>
    OBVIOUS
  <2> QED
    BY <1>1, <2>2, <2>3, <2>4
<1>9. \A i \in 1..Len(text) : SubSeq(t, i, Len(t)) = Append(SubSeq(text, i, Len(text)), char)
  <2> HIDE DEF t
  <2> SUFFICES ASSUME NEW i \in 1..Len(text)
               PROVE  SubSeq(t, i, Len(t)) = Append(SubSeq(text, i, Len(text)), char)
    OBVIOUS
  <2>1. i \in 1..Len(t) /\ Len(t) \in i..Len(t) /\ Len(t) - 1 = Len(text)
    BY <1>1
  <2>2. SubSeq(t, i, Len(t)) = SubSeq(t, i, Len(text)) \o <<t[Len(t)]>>
    BY <1>1, <2>1, SubSeqRecursiveSecond
  <2>3. SubSeq(t, i, Len(text)) = SubSeq(text, i, Len(text))
    BY <1>1
  <2>4. SubSeq(text, i, Len(text)) \in Seq(V)
    OBVIOUS
  <2> QED
    BY <1>1, <2>2, <2>3, <2>4, AppendIsConcat
<1>2. /\ b \in [1..m -> Nat] /\ e \in [1..m -> Nat] /\ m \in Nat /\ Len(text) \in Nat
      /\ \A k \in 1..m : Run(text, b[k], e[k]) /\ token[k] = SubSeq(text, b[k], e[k])
      /\ \A j, k \in 1..m : j < k => e[j] < b[k]
      /\ \A i \in 1..Len(text) : text[i] \in Alnum => \E k \in 1..m : b[k] <= i /\ i <= e[k]
  BY DEF Cuts
<1>3. \A k \in 1..m : b[k] \in Nat /\ e[k] \in Nat /\ 1 <= b[k] /\ b[k] <= e[k] /\ e[k] <= Len(text)
  BY <1>2 DEF Run
<1>4. ASSUME NEW k \in 1..m, e[k] < Len(text) \/ char \notin Alnum
      PROVE  Run(t, b[k], e[k]) /\ token[k] = SubSeq(t, b[k], e[k])
  BY <1>2, <1>3, <1>4, RunStays
<1> HIDE DEF t, m
<1>5. CASE char \notin Alnum
  <2>1. next = token
    BY <1>1, <1>5 DEF Scanned
  <2>2. \A i \in 1..Len(t) : t[i] \in Alnum => \E k \in 1..m : b[k] <= i /\ i <= e[k]
    <3> SUFFICES ASSUME NEW i \in 1..Len(t), t[i] \in Alnum
                 PROVE  \E k \in 1..m : b[k] <= i /\ i <= e[k]
      OBVIOUS
    <3>1. i \in 1..Len(text) /\ text[i] \in Alnum
      BY <1>1, <1>2, <1>5
    <3> QED
      BY <1>2, <3>1
  <2>3. Cuts(t, token, b, e)
    BY <1>2, <1>4, <1>5, <2>2 DEF Cuts, m
  <2> QED
    BY <2>1, <2>3 DEF t
<1>6. CASE char \in Alnum /\ ~(Len(text) > 0 /\ text[Len(text)] \in Alnum)
  <2> DEFINE c == [k \in 1..m + 1 |-> IF k = m + 1 THEN Len(t) ELSE b[k]]
             d == [k \in 1..m + 1 |-> IF k = m + 1 THEN Len(t) ELSE e[k]]
  <2>1. next = Append(token, <<char>>)
    <3>1. Len(text) + 1 > 1 => Len(text) > 0 /\ Len(text) + 1 - 1 = Len(text) /\ Len(text) \in 1..Len(text)
      BY <1>2
    <3>2. ~(Len(text) + 1 > 1 /\ t[Len(text) + 1 - 1] \in Alnum)
      BY <1>1, <1>6, <3>1
    <3> QED
      BY <1>1, <1>6, <3>2 DEF Scanned
  <2>2. Len(next) = m + 1 /\ next[m + 1] = <<char>> /\ \A k \in 1..m : next[k] = token[k]
    <3>1. <<char>> \in Seq(Alnum)
      BY <1>6
    <3> QED
      BY <2>1, <3>1 DEF m
  <2> HIDE DEF next
  <2>3. Len(t) \in Nat /\ Len(t) > 0
    BY <1>1, <1>2
  <2>4. c \in [1..m + 1 -> Nat] /\ d \in [1..m + 1 -> Nat]
    BY <1>2, <1>3, <2>3
  <2>5. /\ c[m + 1] = Len(t) /\ d[m + 1] = Len(t)
        /\ \A k \in 1..m : c[k] = b[k] /\ d[k] = e[k]
    BY <1>2
  <2>6. \A k \in 1..m + 1 : k = m + 1 \/ k \in 1..m
    BY <1>2
  <2> HIDE DEF c, d
  <2>7. ASSUME NEW k \in 1..m PROVE e[k] < Len(text)
    <3>1. e[k] # Len(text)
      <4> SUFFICES ASSUME e[k] = Len(text) PROVE FALSE
        OBVIOUS
      <4>1. Len(text) \in b[k]..e[k] /\ Len(text) > 0
        BY <1>3
      <4>2. text[Len(text)] \in Alnum
        BY <1>2, <4>1 DEF Run
      <4> QED
        BY <1>6, <4>1, <4>2
    <3> QED
      BY <1>2, <1>3, <3>1
  <2>8. Run(t, Len(t), Len(t)) /\ SubSeq(t, Len(t), Len(t)) = <<char>>
    <3>1. \A n \in Len(t)..Len(t) : t[n] = char
      BY <1>1, <2>3
    <3>2. Len(t) > 1 => t[Len(t) - 1] \notin Alnum
      <4>1. Len(t) > 1 => Len(text) > 0 /\ Len(t) - 1 = Len(text) /\ Len(text) \in 1..Len(text)
        BY <1>1, <1>2
      <4> QED
        BY <1>1, <1>6, <4>1
    <3> QED
      BY <1>6, <1>8, <2>3, <3>1, <3>2 DEF Run
  <2>9. ASSUME NEW k \in 1..m + 1
        PROVE  Run(t, c[k], d[k]) /\ next[k] = SubSeq(t, c[k], d[k])
    <3>1. CASE k = m + 1
      BY <2>2, <2>5, <2>8, <3>1
    <3>2. CASE k \in 1..m
      BY <1>4, <2>2, <2>5, <2>7, <3>2
    <3> QED
      BY <2>6, <3>1, <3>2
  <2>10. ASSUME NEW j \in 1..m + 1, NEW k \in 1..m + 1, j < k PROVE d[j] < c[k]
    <3>1. j \in 1..m
      BY <1>2, <2>10
    <3>2. CASE k = m + 1
      <4>1. d[j] = e[j] /\ c[k] = Len(t)
        BY <2>5, <3>1, <3>2
      <4>2. e[j] \in Nat /\ e[j] <= Len(text)
        BY <1>3, <3>1
      <4> QED
        BY <1>1, <1>2, <4>1, <4>2
    <3>3. CASE k \in 1..m
      BY <1>2, <2>5, <2>10, <3>1, <3>3
    <3> QED
      BY <2>6, <3>2, <3>3
  <2>11. ASSUME NEW i \in 1..Len(t), t[i] \in Alnum
         PROVE  \E k \in 1..m + 1 : c[k] <= i /\ i <= d[k]
    <3>1. CASE i = Len(t)
      <4>1. m + 1 \in 1..m + 1
        BY <1>2
      <4> QED
        BY <2>3, <2>5, <3>1, <4>1
    <3>2. CASE i # Len(t)
      <4>1. i \in 1..Len(text) /\ text[i] \in Alnum
        BY <1>1, <1>2, <2>11, <3>2
      <4>2. PICK k \in 1..m : b[k] <= i /\ i <= e[k]
        BY <1>2, <4>1
      <4>3. k \in 1..m + 1
        BY <1>2
      <4> QED
        BY <2>5, <4>2, <4>3
    <3> QED
      BY <3>1, <3>2
  <2>12. Cuts(t, next, c, d)
    BY <2>2, <2>4, <2>9, <2>10, <2>11 DEF Cuts
  <2> QED
    BY <2>12 DEF t, next
<1>7. CASE char \in Alnum /\ Len(text) > 0 /\ text[Len(text)] \in Alnum
  <2>1. Len(text) \in 1..Len(text) /\ Len(text) + 1 - 1 = Len(text) /\ Len(text) + 1 > 1
    BY <1>2, <1>7
  <2>2. PICK k \in 1..m : b[k] <= Len(text) /\ Len(text) <= e[k]
    BY <1>2, <1>7, <2>1
  <2>3. e[k] = Len(text)
    BY <1>2, <1>3, <2>2
  <2>4. k = m
    <3> SUFFICES ASSUME k # m PROVE FALSE
      OBVIOUS
    <3>1. m \in 1..m /\ k < m
      BY <1>2
    <3>2. e[k] < b[m] /\ b[m] <= e[m] /\ e[m] <= Len(text)
      BY <1>2, <1>3, <3>1
    <3> QED
      BY <1>2, <1>3, <2>3, <3>1, <3>2
  <2>5. m \in 1..m /\ e[m] = Len(text) /\ Run(text, b[m], Len(text))
        /\ token[m] = SubSeq(text, b[m], Len(text)) /\ b[m] \in Nat /\ 1 <= b[m] /\ b[m] <= Len(text)
    BY <1>2, <1>3, <2>3, <2>4
  <2>6. token[m] \in Seq(Alnum) /\ Append(token[m], char) \in Seq(Alnum)
    <3>1. m \in 1..Len(token)
      BY <2>5 DEF m
    <3>2. token[m] \in Seq(Alnum)
      BY <3>1, ElementOfSeq
    <3> QED
      BY <1>7, <3>2
  <2>7. next = [token EXCEPT ![m] = Append(token[m], char)]
    BY <1>1, <1>7, <2>1 DEF Scanned, m
  <2>8. Len(next) = m /\ \A n \in 1..m : next[n] = IF n = m THEN Append(token[m], char) ELSE token[n]
    <3>1. Len(token) = m /\ m \in 1..Len(token)
      BY <2>5 DEF m
    <3>2. PICK x \in Seq(Alnum) : x = Append(token[m], char)
      BY <2>6
    <3>3. /\ Len([token EXCEPT ![m] = x]) = Len(token)
          /\ \A n \in 1..Len(token) : [token EXCEPT ![m] = x][n] = IF n = m THEN x ELSE token[n]
      BY <3>1, ExceptSeq
    <3> QED
      BY <2>7, <3>1, <3>2, <3>3
  <2> HIDE DEF next
  <2> DEFINE d == [n \in 1..m |-> IF n = m THEN Len(t) ELSE e[n]]
  <2>9. d \in [1..m -> Nat] /\ d[m] = Len(t) /\ \A n \in 1..m : n # m => d[n] = e[n]
    BY <1>1, <1>2, <1>3, <2>5
  <2> HIDE DEF d
  <2>10. ASSUME NEW n \in 1..m, n # m PROVE n < m /\ e[n] < b[m] /\ e[n] < Len(text)
    <3>1. n < m
      BY <1>2, <2>10
    <3>2. e[n] < b[m] /\ e[n] \in Nat
      BY <1>2, <1>3, <2>5, <3>1
    <3> QED
      BY <1>2, <2>5, <3>1, <3>2
  <2>11. Run(t, b[m], Len(t)) /\ SubSeq(t, b[m], Len(t)) = Append(token[m], char)
    <3>1. \A n \in b[m]..Len(t) : t[n] \in Alnum
      <4> SUFFICES ASSUME NEW n \in b[m]..Len(t) PROVE t[n] \in Alnum
        OBVIOUS
      <4>1. CASE n = Len(t)
        BY <1>1, <1>7, <4>1
      <4>2. CASE n # Len(t)
        <5>1. n \in b[m]..Len(text) /\ n \in 1..Len(text)
          BY <1>1, <1>2, <2>5, <4>2
        <5> QED
          BY <1>1, <2>5, <5>1 DEF Run
      <4> QED
        BY <4>1, <4>2
    <3>2. b[m] > 1 => t[b[m] - 1] \notin Alnum
      <4>1. b[m] > 1 => b[m] - 1 \in 1..Len(text)
        BY <1>2, <2>5
      <4> QED
        BY <1>1, <2>5, <4>1 DEF Run
    <3>3. SubSeq(t, b[m], Len(t)) = Append(token[m], char)
      <4>1. b[m] \in 1..Len(text)
        BY <1>2, <2>5
      <4>2. SubSeq(t, b[m], Len(t)) = Append(SubSeq(text, b[m], Len(text)), char)
        BY <1>9, <4>1
      <4> QED
        BY <2>5, <4>2
    <3>4. b[m] <= Len(t) /\ ~(Len(t) < Len(t))
      BY <1>1, <1>2, <2>5
    <3> QED
      BY <2>5, <3>1, <3>2, <3>3, <3>4 DEF Run
  <2>12. ASSUME NEW n \in 1..m PROVE Run(t, b[n], d[n]) /\ next[n] = SubSeq(t, b[n], d[n])
    <3>1. CASE n = m
      BY <2>8, <2>9, <2>11, <3>1
    <3>2. CASE n # m
      BY <1>4, <2>8, <2>9, <2>10, <3>2
    <3> QED
      BY <3>1, <3>2
  <2>13. ASSUME NEW j \in 1..m, NEW n \in 1..m, j < n PROVE d[j] < b[n]
    <3>1. j # m
      BY <1>2, <2>13
    <3> QED
      BY <1>2, <2>9, <2>13, <3>1
  <2>14. ASSUME NEW i \in 1..Len(t), t[i] \in Alnum PROVE \E n \in 1..m : b[n] <= i /\ i <= d[n]
    <3>1. CASE i = Len(t)
      <4>1. b[m] <= i /\ i <= d[m]
        BY <1>1, <1>2, <2>5, <2>9, <3>1
      <4> QED
        BY <2>5, <4>1
    <3>2. CASE i # Len(t)
      <4>1. i \in 1..Len(text) /\ text[i] \in Alnum
        BY <1>1, <1>2, <2>14, <3>2
      <4>2. PICK n \in 1..m : b[n] <= i /\ i <= e[n]
        BY <1>2, <4>1
      <4>3. e[n] <= d[n]
        <5>1. CASE n = m
          BY <1>1, <1>2, <2>5, <2>9, <5>1
        <5>2. CASE n # m
          BY <1>3, <2>9, <5>2
        <5> QED
          BY <5>1, <5>2
      <4>4. i <= d[n]
        <5>1. d[n] \in Nat /\ e[n] \in Nat /\ i \in Nat
          BY <1>3, <2>9
        <5> QED
          BY <4>2, <4>3, <5>1
      <4> QED
        BY <4>2, <4>4
    <3> QED
      BY <3>1, <3>2
  <2>15. Cuts(t, next, b, d)
    BY <1>2, <2>8, <2>9, <2>12, <2>13, <2>14 DEF Cuts
  <2> QED
    BY <2>15 DEF t, next
<1> QED
  BY <1>5, <1>6, <1>7

LEMMA TokensType ==
  ASSUME NEW V, NEW text \in Seq(V)
  PROVE  TokensOf(text) \in Seq(Seq(Alnum))
<1>1. PICK found : ScansWith(found, text) /\ TokensOf(text) = found[Len(text)]
  BY TokensScan
<1> QED
  BY <1>1 DEF ScansWith

\* findall splits every text into its runs.
LEMMA TokensAreRuns ==
  ASSUME NEW V
  PROVE  \A text \in Seq(V) : \E b, e : Cuts(text, TokensOf(text), b, e)
<1> DEFINE P == {text \in Seq(V) : \E b, e : Cuts(text, TokensOf(text), b, e)}
<1>1. <<>> \in P
  <2> DEFINE none == [k \in 1..0 |-> 0]
  <2>1. none \in [1..0 -> Nat] /\ Len(<<>>) = 0 /\ <<>> \in Seq(V) /\ 1..0 = {}
    OBVIOUS
  <2> HIDE DEF none
  <2>2. Cuts(<<>>, <<>>, none, none)
    BY <2>1 DEF Cuts
  <2> QED
    BY <2>1, <2>2, TokensEmpty
<1>2. ASSUME NEW text \in P, NEW char \in V PROVE Append(text, char) \in P
  <2>1. text \in Seq(V) /\ Append(text, char) \in Seq(V)
    OBVIOUS
  <2>2. PICK b, e : Cuts(text, TokensOf(text), b, e)
    OBVIOUS
  <2>3. /\ TokensOf(text) \in Seq(Seq(Alnum))
        /\ TokensOf(Append(text, char)) = Scanned(TokensOf(text), Append(text, char), Len(text) + 1)
    BY <2>1, TokensAppend
  <2> HIDE DEF P
  <2>4. \E c, d : Cuts(Append(text, char),
                       Scanned(TokensOf(text), Append(text, char), Len(text) + 1), c, d)
    BY <2>1, <2>2, <2>3, CutsGrow
  <2> QED
    BY <2>1, <2>3, <2>4 DEF P
<1> HIDE DEF P
<1>3. P \in SUBSET Seq(V)
  BY DEF P
<1>4. P = Seq(V)
  BY <1>1, <1>2, <1>3, SequenceInduction
<1> QED
  BY <1>4 DEF P

-----------------------------------------------------------------------------
LEMMA PieceType ==
  ASSUME NEW V, NEW s \in Seq(V), NEW i \in Nat, NEW j \in Nat, 1 <= i, j <= Len(s)
  PROVE  /\ SubSeq(s, i, j) \in Seq(V)
         /\ Len(SubSeq(s, i, j)) = IF i <= j THEN j - i + 1 ELSE 0
         /\ \A n \in 1..(j - i + 1) : SubSeq(s, i, j)[n] = s[i + n - 1]
<1>1. \A n \in i..j : s[n] \in V
  OBVIOUS
<1> QED
  BY <1>1, SubSeqProperties

LEMMA PieceOfOne ==
  ASSUME NEW V, NEW s \in Seq(V), NEW i \in 1..Len(s)
  PROVE  SubSeq(s, i, i) = <<s[i]>>
<1>1. i \in i..Len(s) /\ i - 1 < i /\ i \in Int /\ i - 1 \in Int
  OBVIOUS
<1>2. SubSeq(s, i, i) = SubSeq(s, i, i - 1) \o <<s[i]>>
  BY <1>1, SubSeqRecursiveSecond
<1>3. SubSeq(s, i, i - 1) = <<>>
  BY <1>1, SubSeqEmpty
<1>4. s[i] \in V
  OBVIOUS
<1>5. <<>> \o <<s[i]>> = <<s[i]>>
  BY <1>4
<1> QED
  BY <1>2, <1>3, <1>5

LEMMA PieceInTwo ==
  ASSUME NEW V, NEW s \in Seq(V), NEW i \in Nat, NEW k \in Nat, NEW j \in Nat,
         1 <= i, i <= k + 1, k <= j, j <= Len(s)
  PROVE  SubSeq(s, i, j) = SubSeq(s, i, k) \o SubSeq(s, k + 1, j)
<1>1. i \in 1..Len(s) + 1 /\ k \in (i - 1)..Len(s) /\ j \in k..Len(s)
  OBVIOUS
<1> QED
  BY <1>1, ConcatAdjacentSubSeq

\* What lies between two pieces and holds no letter or digit goes unnoticed.
NoneBetween(text, q, r) == \A i \in 1..Len(text) : q < i /\ i < r => text[i] \notin Alnum

LEMMA GapSkipped ==
  ASSUME NEW V, NEW text \in Seq(V), NEW p \in Nat, NEW q \in Nat, NEW r \in Nat, NEW z \in Nat,
         1 <= p, p <= q, q < r, r <= z, z <= Len(text), NoneBetween(text, q, r)
  PROVE  Within(SubSeq(text, p, z), Alnum)
           = Within(SubSeq(text, p, q), Alnum) \o Within(SubSeq(text, r, z), Alnum)
<1>1. PICK k \in Nat : r = k + 1 /\ q <= k
  <2>1. r - 1 \in Nat /\ r = (r - 1) + 1 /\ q <= r - 1
    OBVIOUS
  <2> QED
    BY <2>1
<1> DEFINE front == SubSeq(text, p, q)
           gap == SubSeq(text, q + 1, k)
           last == SubSeq(text, r, z)
<1>2. SubSeq(text, p, z) = SubSeq(text, p, k) \o last
  <2>1. p <= k + 1 /\ k <= z
    BY <1>1
  <2>2. SubSeq(text, p, z) = SubSeq(text, p, k) \o SubSeq(text, k + 1, z)
    BY <2>1, PieceInTwo
  <2> QED
    BY <1>1, <2>2
<1>3. SubSeq(text, p, k) = front \o gap
  <2>1. p <= q + 1 /\ q <= k /\ k <= Len(text)
    BY <1>1
  <2> QED
    BY <2>1, PieceInTwo
<1>4. front \in Seq(V)
  BY PieceType
<1>5. gap \in Seq(V) /\ \A n \in 1..Len(gap) : gap[n] \notin Alnum
  <2>1. q + 1 \in Nat /\ 1 <= q + 1 /\ k <= Len(text)
    BY <1>1
  <2>2. /\ gap \in Seq(V)
        /\ Len(gap) = IF q + 1 <= k THEN k - (q + 1) + 1 ELSE 0
        /\ \A n \in 1..(k - (q + 1) + 1) : gap[n] = text[q + 1 + n - 1]
    BY <2>1, PieceType
  <2> HIDE DEF gap
  <2>3. ASSUME NEW n \in 1..Len(gap) PROVE gap[n] \notin Alnum
    <3>1. n \in 1..(k - (q + 1) + 1) /\ q + 1 + n - 1 = q + n
      BY <2>2
    <3>2. q + n \in 1..Len(text) /\ q < q + n /\ q + n < r
      BY <1>1, <3>1
    <3> QED
      BY <2>2, <3>1, <3>2 DEF NoneBetween
  <2> QED
    BY <2>2, <2>3
<1>6. last \in Seq(V)
  BY PieceType
<1> HIDE DEF front, gap, last
<1>7. Within(front \o gap, Alnum) = Within(front, Alnum)
  <2>1. Within(front \o gap, Alnum) = Within(front, Alnum) \o Within(gap, Alnum)
    BY <1>4, <1>5, WithinConcat
  <2>2. Within(gap, Alnum) = <<>>
    BY <1>5, WithinNone
  <2>3. Within(front, Alnum) \o <<>> = Within(front, Alnum)
    <3>1. Within(front, Alnum) \in Seq(Alnum)
      BY <1>4, WithinType
    <3> QED
      BY <3>1
  <2> QED
    BY <2>1, <2>2, <2>3
<1>8. Within((front \o gap) \o last, Alnum) = Within(front \o gap, Alnum) \o Within(last, Alnum)
  <2>1. PICK u \in Seq(V) : u = front \o gap
    BY <1>4, <1>5, ConcatProperties
  <2>2. Within(u \o last, Alnum) = Within(u, Alnum) \o Within(last, Alnum)
    BY <1>6, WithinConcat
  <2> QED
    BY <2>1, <2>2
<1> QED
  BY <1>2, <1>3, <1>7, <1>8 DEF front, last

\* Runs come one after the other.
LEMMA CutsInOrder ==
  ASSUME NEW V, NEW text \in Seq(V), NEW token \in Seq(Seq(Alnum)), NEW b, NEW e,
         Cuts(text, token, b, e), NEW j \in 1..Len(token), NEW k \in 1..Len(token)
  PROVE  /\ b[k] \in Nat /\ e[k] \in Nat /\ 1 <= b[k] /\ b[k] <= e[k] /\ e[k] <= Len(text)
         /\ j <= k => b[j] <= b[k] /\ e[j] <= e[k]
         /\ j < k => e[j] < b[k]
<1>1. \A n \in 1..Len(token) :
         b[n] \in Nat /\ e[n] \in Nat /\ 1 <= b[n] /\ b[n] <= e[n] /\ e[n] <= Len(text)
  BY DEF Cuts, Run
<1>2. j < k => e[j] < b[k]
  BY DEF Cuts
<1>3. CASE j = k
  BY <1>1, <1>3
<1>4. CASE j < k
  BY <1>1, <1>2, <1>4
<1>5. CASE j > k
  BY <1>1, <1>5
<1> QED
  BY <1>3, <1>4, <1>5

\* No letter or digit lies between two tokens.
LEMMA GapIsEmpty ==
  ASSUME NEW V, NEW text \in Seq(V), NEW token \in Seq(Seq(Alnum)), NEW b, NEW e,
         Cuts(text, token, b, e), NEW c \in 1..Len(token), c + 1 \in 1..Len(token)
  PROVE  NoneBetween(text, e[c], b[c + 1])
<1> SUFFICES ASSUME NEW i \in 1..Len(text), e[c] < i, i < b[c + 1], text[i] \in Alnum
             PROVE  FALSE
  BY DEF NoneBetween
<1>1. PICK k \in 1..Len(token) : b[k] <= i /\ i <= e[k]
  BY DEF Cuts
<1>2. b[k] \in Nat /\ e[k] \in Nat /\ b[c + 1] \in Nat /\ e[c] \in Nat
  BY CutsInOrder
<1>3. k <= c => e[k] <= e[c]
  BY CutsInOrder
<1>4. c + 1 <= k => b[c + 1] <= b[k]
  BY CutsInOrder
<1>5. CASE k <= c
  <2>1. e[k] <= e[c]
    BY <1>3, <1>5
  <2> QED
    BY <1>1, <1>2, <2>1
<1>6. CASE c + 1 <= k
  <2>1. b[c + 1] <= b[k]
    BY <1>4, <1>6
  <2> QED
    BY <1>1, <1>2, <2>1
<1> QED
  BY <1>5, <1>6

\* The tokens from one to another, put together, are the letters and digits of the text
\* from where the first begins to where the last ends.
LEMMA TokensSpell ==
  ASSUME NEW V, NEW text \in Seq(V), NEW token \in Seq(Seq(Alnum)), NEW b, NEW e,
         Cuts(text, token, b, e), NEW a \in 1..Len(token)
  PROVE  \A c \in a..Len(token) :
            FlattenSeq(SubSeq(token, a, c)) = Within(SubSeq(text, b[a], e[c]), Alnum)
<1> DEFINE m == Len(token)
           T == {n \in 0..(m - a) :
                   FlattenSeq(SubSeq(token, a, a + n)) = Within(SubSeq(text, b[a], e[a + n]), Alnum)}
<1>1. m \in Nat /\ Len(text) \in Nat /\ a \in 1..m /\ m - a \in Nat
  OBVIOUS
<1>2. \A k \in 1..m : token[k] = SubSeq(text, b[k], e[k])
  BY DEF Cuts
<1>3. \A k \in 1..m : token[k] \in Seq(Alnum) /\ Within(token[k], Alnum) = token[k]
  <2> SUFFICES ASSUME NEW k \in 1..m
               PROVE  token[k] \in Seq(Alnum) /\ Within(token[k], Alnum) = token[k]
    OBVIOUS
  <2>1. PICK x \in Seq(Alnum) : x = token[k]
    BY ElementOfSeq
  <2>2. ToSet(x) \subseteq Alnum
    BY DEF ToSet
  <2>3. Within(x, Alnum) = x
    BY <2>2, WithinLength
  <2> QED
    BY <2>1, <2>3
<1>4. 0 \in T
  <2>1. SubSeq(token, a, a) = <<token[a]>>
    BY PieceOfOne
  <2>2. FlattenSeq(<<token[a]>>) = token[a]
    <3>1. PICK x \in Seq(Alnum) : x = token[a]
      BY <1>1, <1>3
    <3>2. <<>> \in Seq(Seq(Alnum)) /\ Append(<<>>, x) = <<x>> /\ <<>> \o x = x
      OBVIOUS
    <3>3. FlattenSeq(Append(<<>>, x)) = FlattenSeq(<<>>) \o x
      BY <3>2, FlattenAppend
    <3> QED
      BY <3>1, <3>2, <3>3, FlattenEmpty
  <2>3. token[a] = SubSeq(text, b[a], e[a]) /\ Within(token[a], Alnum) = token[a]
    BY <1>1, <1>2, <1>3
  <2>4. a + 0 = a /\ 0 \in 0..(m - a)
    BY <1>1
  <2> QED
    BY <2>1, <2>2, <2>3, <2>4
<1>5. ASSUME NEW n \in T, n < m - a PROVE n + 1 \in T
  <2>1. PICK c : c = a + n
    OBVIOUS
  <2>2. /\ c \in 1..m /\ c + 1 \in 1..m /\ a <= c /\ a + (n + 1) = c + 1 /\ n + 1 \in 0..(m - a)
        /\ FlattenSeq(SubSeq(token, a, c)) = Within(SubSeq(text, b[a], e[c]), Alnum)
    BY <1>1, <1>5, <2>1
  <2> HIDE DEF T
  <2>3. PICK x \in Seq(Alnum) : x = token[c + 1]
    BY <1>3, <2>2
  <2>4. FlattenSeq(SubSeq(token, a, c + 1)) = FlattenSeq(SubSeq(token, a, c)) \o x
    <3>1. PICK u \in Seq(Seq(Alnum)) : u = SubSeq(token, a, c)
      <4>1. a \in Nat /\ c \in Nat /\ 1 <= a /\ c <= Len(token)
        BY <1>1, <2>2
      <4>2. SubSeq(token, a, c) \in Seq(Seq(Alnum))
        BY <4>1, PieceType
      <4> QED
        BY <4>2
    <3>2. SubSeq(token, a, c + 1) = u \o <<token[c + 1]>>
      <4>1. SubSeq(token, a, c + 1) = SubSeq(token, a, c) \o SubSeq(token, c + 1, c + 1)
        BY <1>1, <2>2, PieceInTwo
      <4>2. SubSeq(token, c + 1, c + 1) = <<token[c + 1]>>
        BY <2>2, PieceOfOne
      <4> QED
        BY <3>1, <4>1, <4>2
    <3>3. Append(u, x) = u \o <<x>>
      BY AppendIsConcat
    <3>4. FlattenSeq(Append(u, x)) = FlattenSeq(u) \o x
      BY FlattenAppend
    <3> QED
      BY <2>3, <3>1, <3>2, <3>3, <3>4
  <2>5. Within(SubSeq(text, b[a], e[c + 1]), Alnum)
          = Within(SubSeq(text, b[a], e[c]), Alnum)
              \o Within(SubSeq(text, b[c + 1], e[c + 1]), Alnum)
    <3>1. PICK p \in Nat, q \in Nat, r \in Nat, z \in Nat :
             p = b[a] /\ q = e[c] /\ r = b[c + 1] /\ z = e[c + 1]
      BY <1>1, <2>2, CutsInOrder
    <3>2. 1 <= p /\ p <= b[c] /\ b[c] <= q /\ b[c] \in Nat
      BY <1>1, <2>2, <3>1, CutsInOrder
    <3>3. c < c + 1
      BY <2>2
    <3>4. q < r /\ r <= z /\ z <= Len(text)
      BY <2>2, <3>1, <3>3, CutsInOrder
    <3>5. p <= q
      BY <3>2
    <3>6. NoneBetween(text, q, r)
      BY <2>2, <3>1, GapIsEmpty
    <3>7. Within(SubSeq(text, p, z), Alnum)
            = Within(SubSeq(text, p, q), Alnum) \o Within(SubSeq(text, r, z), Alnum)
      <4>1. 1 <= p
        BY <3>2
      <4>2. q < r
        BY <3>4
      <4>3. r <= z
        BY <3>4
      <4>4. z <= Len(text)
        BY <3>4
      <4> QED
        BY <3>5, <3>6, <4>1, <4>2, <4>3, <4>4, GapSkipped, SMTT(30)
    <3> QED
      BY <3>1, <3>7
  <2>6. Within(SubSeq(text, b[c + 1], e[c + 1]), Alnum) = x
    BY <1>2, <1>3, <2>2, <2>3
  <2>7. FlattenSeq(SubSeq(token, a, c + 1)) = Within(SubSeq(text, b[a], e[c + 1]), Alnum)
    BY <2>2, <2>4, <2>5, <2>6
  <2> QED
    BY <2>2, <2>7 DEF T
<1> HIDE DEF T
<1>6. T \in SUBSET (0..(m - a))
  BY DEF T
<1>7. T = 0..(m - a)
  BY <1>1, <1>4, <1>5, <1>6, InductionTo
<1>8. ASSUME NEW c \in a..m
      PROVE  FlattenSeq(SubSeq(token, a, c)) = Within(SubSeq(text, b[a], e[c]), Alnum)
  <2>1. c - a \in T /\ a + (c - a) = c
    BY <1>1, <1>7
  <2> QED
    BY <2>1 DEF T
<1> QED
  BY <1>8

-----------------------------------------------------------------------------
\* Where the buffer ever spells the term, the term stands in the text.
LEMMA SpansStands ==
  ASSUME NEW V, NEW text \in Seq(V), NEW term, SpansWholeTokens(TokensOf(text), term)
  PROVE  StandsIn(text, term)
<1> DEFINE token == TokensOf(text)
<1>1. token \in Seq(Seq(Alnum))
  BY TokensType
<1>2. PICK b, e : Cuts(text, token, b, e)
  BY TokensAreRuns
<1> HIDE DEF token
<1>3. PICK a \in DOMAIN token : \E c \in a..Len(token) : FlattenSeq(SubSeq(token, a, c)) = term
  BY DEF SpansWholeTokens, token
<1>4. PICK c \in a..Len(token) : FlattenSeq(SubSeq(token, a, c)) = term
  BY <1>3
<1>5. a \in 1..Len(token) /\ c \in 1..Len(token) /\ a <= c
  BY <1>1
<1>6. Within(SubSeq(text, b[a], e[c]), Alnum) = term
  BY <1>1, <1>2, <1>4, <1>5, TokensSpell
<1>7. /\ b[a] \in Nat /\ 1 <= b[a] /\ e[c] \in Nat /\ e[c] <= Len(text) /\ Len(text) \in Nat
      /\ b[c] \in Nat /\ b[a] <= b[c] /\ b[c] <= e[c]
  BY <1>1, <1>2, <1>5, CutsInOrder
<1>8. b[a] \in 1..Len(text) /\ e[c] \in 1..Len(text) /\ b[a] <= e[c] /\ DOMAIN text = 1..Len(text)
  BY <1>7
<1>9. Run(text, b[a], e[a]) /\ Run(text, b[c], e[c])
  BY <1>2, <1>5 DEF Cuts
<1>10. b[a] \in b[a]..e[a] /\ e[c] \in b[c]..e[c]
  <2>1. e[a] \in Nat /\ b[a] <= e[a]
    BY <1>1, <1>2, <1>5, CutsInOrder
  <2> QED
    BY <1>7, <2>1
<1>11. text[b[a]] \in Alnum /\ text[e[c]] \in Alnum
  BY <1>9, <1>10 DEF Run
<1>12. (b[a] > 1 => text[b[a] - 1] \notin Alnum) /\ (e[c] < Len(text) => text[e[c] + 1] \notin Alnum)
  BY <1>9 DEF Run
<1> QED
  BY <1>6, <1>8, <1>11, <1>12 DEF StandsIn

\* Where the term stands in the text, the buffer spells it, and is a prefix of it till then.
LEMMA StandsSpans ==
  ASSUME NEW V, NEW text \in Seq(V), NEW term, StandsIn(text, term)
  PROVE  SpansWholeTokens(TokensOf(text), term)
<1> DEFINE token == TokensOf(text)
<1>1. token \in Seq(Seq(Alnum))
  BY TokensType
<1>2. PICK b, e : Cuts(text, token, b, e)
  BY TokensAreRuns
<1> HIDE DEF token
<1>3. DOMAIN text = 1..Len(text) /\ DOMAIN token = 1..Len(token) /\ Len(text) \in Nat
      /\ Len(token) \in Nat
  BY <1>1
<1>4. PICK i \in 1..Len(text), j \in 1..Len(text) :
         /\ i <= j /\ text[i] \in Alnum /\ text[j] \in Alnum
         /\ Within(SubSeq(text, i, j), Alnum) = term
         /\ i > 1 => text[i - 1] \notin Alnum
         /\ j < Len(text) => text[j + 1] \notin Alnum
  BY <1>3 DEF StandsIn
<1>5. PICK a \in 1..Len(token) : b[a] <= i /\ i <= e[a]
  BY <1>2, <1>4 DEF Cuts
<1>6. PICK c \in 1..Len(token) : b[c] <= j /\ j <= e[c]
  BY <1>2, <1>4 DEF Cuts
<1>7. /\ b[a] \in Nat /\ 1 <= b[a] /\ e[a] \in Nat /\ e[a] <= Len(text)
      /\ b[c] \in Nat /\ 1 <= b[c] /\ e[c] \in Nat /\ e[c] <= Len(text)
  BY <1>1, <1>2, CutsInOrder
<1>8. Run(text, b[a], e[a]) /\ Run(text, b[c], e[c])
  BY <1>2 DEF Cuts
<1>9. b[a] = i
  <2> SUFFICES ASSUME b[a] # i PROVE FALSE
    OBVIOUS
  <2>1. i - 1 \in b[a]..e[a] /\ i > 1
    BY <1>5, <1>7
  <2>2. text[i - 1] \in Alnum
    BY <1>8, <2>1 DEF Run
  <2> QED
    BY <1>4, <2>1, <2>2
<1>10. e[c] = j
  <2> SUFFICES ASSUME e[c] # j PROVE FALSE
    OBVIOUS
  <2>1. j + 1 \in b[c]..e[c] /\ j < Len(text)
    BY <1>3, <1>6, <1>7
  <2>2. text[j + 1] \in Alnum
    BY <1>8, <2>1 DEF Run
  <2> QED
    BY <1>4, <2>1, <2>2
<1>11. a <= c
  <2> SUFFICES ASSUME c < a PROVE FALSE
    OBVIOUS
  <2>1. e[c] < b[a]
    BY <1>1, <1>2, CutsInOrder
  <2> QED
    BY <1>4, <1>9, <1>10, <2>1
<1>12. c \in a..Len(token)
  BY <1>11
<1>13. FlattenSeq(SubSeq(token, a, c)) = term
  BY <1>1, <1>2, <1>4, <1>9, <1>10, <1>12, TokensSpell
<1>14. ASSUME NEW k \in a..c - 1 PROVE IsPrefix(FlattenSeq(SubSeq(token, a, k)), term)
  <2>1. k \in a..Len(token) /\ k \in 1..Len(token) /\ k + 1 \in 1..Len(token) /\ k < k + 1
        /\ k + 1 <= c /\ a <= k
    BY <1>12
  <2>2. FlattenSeq(SubSeq(token, a, k)) = Within(SubSeq(text, b[a], e[k]), Alnum)
    BY <1>1, <1>2, <2>1, TokensSpell
  <2>3. PICK q \in Nat : q = e[k]
    BY <1>1, <1>2, <2>1, CutsInOrder
  <2>4. q < j /\ i <= q
    <3>1. e[k] < b[k + 1] /\ b[k + 1] <= e[k + 1] /\ e[k + 1] <= e[c]
          /\ b[k + 1] \in Nat /\ e[k + 1] \in Nat
      BY <1>1, <1>2, <2>1, CutsInOrder
    <3>2. b[a] <= b[k] /\ b[k] <= e[k] /\ b[k] \in Nat
      BY <1>1, <1>2, <2>1, CutsInOrder
    <3>3. e[k] < j
      BY <1>10, <2>3, <3>1
    <3>4. i <= e[k]
      BY <1>9, <2>3, <3>2
    <3> QED
      BY <2>3, <3>3, <3>4
  <2> DEFINE front == SubSeq(text, i, q)
             rest == SubSeq(text, q + 1, j)
  <2>5. SubSeq(text, i, j) = front \o rest
    <3>1. i \in Nat /\ j \in Nat /\ 1 <= i /\ i <= q + 1 /\ q <= j /\ j <= Len(text)
      BY <1>4, <2>4
    <3> QED
      BY <3>1, PieceInTwo
  <2>6. front \in Seq(V)
    <3>1. i \in Nat /\ 1 <= i /\ q <= Len(text)
      BY <1>3, <2>4
    <3> QED
      BY <3>1, PieceType
  <2>7. rest \in Seq(V)
    <3>1. q + 1 \in Nat /\ 1 <= q + 1 /\ j \in Nat /\ j <= Len(text)
      BY <1>3
    <3> QED
      BY <3>1, PieceType
  <2> HIDE DEF front, rest
  <2>8. term = Within(front, Alnum) \o Within(rest, Alnum)
    BY <1>4, <2>5, <2>6, <2>7, WithinConcat
  <2>9. PICK x \in Seq(Alnum), y \in Seq(Alnum) :
           x = Within(front, Alnum) /\ y = Within(rest, Alnum)
    BY <2>6, <2>7, WithinType
  <2>10. IsPrefix(x, x \o y)
    <3>1. Len(x \o y) = Len(x) + Len(y) /\ \A n \in 1..Len(x) : (x \o y)[n] = x[n]
      BY ConcatProperties
    <3>2. Len(x) <= Len(x \o y)
      BY <3>1
    <3>3. SubSeq(x, 1, Len(x)) = x
      OBVIOUS
    <3>4. SubSeq(x \o y, 1, Len(x)) = x
      BY <3>1
    <3> QED
      BY <3>2, <3>3, <3>4 DEF IsPrefix
  <2>11. FlattenSeq(SubSeq(token, a, k)) = x
    BY <1>9, <2>2, <2>3, <2>9 DEF front
  <2> QED
    BY <2>8, <2>9, <2>10, <2>11
<1>15. a \in DOMAIN token
  BY <1>3
<1> QED
  BY <1>12, <1>13, <1>14, <1>15 DEF SpansWholeTokens, token

\* Whatever the texts of a product, and whatever the term.
LEMMA FiledWhatever ==
  ASSUME NEW V, NEW texts, \A f \in DOMAIN texts : texts[f] \in Seq(V), NEW term
  PROVE  FiledWhereSpelled(texts, term)
<1>1. \A f \in DOMAIN texts : SpansWholeTokens(TokensOf(texts[f]), term) <=> StandsIn(texts[f], term)
  BY SpansStands, StandsSpans
<1> QED
  BY <1>1 DEF FiledWhereSpelled, Match

-----------------------------------------------------------------------------
\* The references of a catalogue, whatever it holds, and a query of any words.
LEMMA EntriesType ==
  /\ IsFiniteSet(Entries) /\ Entries \subseteq Nat
  /\ \A i \in Entries : IsFiniteSet(Tracked[i].model)
<1> DEFINE V == ToSet(Catalogue)
           S == {reference \in V : reference.enabled}
<1>1. Catalogue \in Seq(V)
  BY CatalogueAssumption DEF CatalogueAssumption
<1>2. Tracked = Within(Catalogue, S)
  BY DEF Tracked
<1> HIDE DEF V, S
<1>3. Tracked \in Seq(S) /\ ToSet(Tracked) = V \cap S
  <2>1. Tracked \in Seq(S)
    BY <1>1, <1>2, WithinType
  <2>2. ToSet(Tracked) = ToSet(Catalogue) \cap S
    BY <1>1, <1>2, WithinMembers
  <2> QED
    BY <2>1, <2>2 DEF V
<1>4. Entries = 1..Len(Tracked) /\ Len(Tracked) \in Nat
  BY <1>3 DEF Entries
<1>5. IsFiniteSet(Entries) /\ Entries \subseteq Nat
  <2>1. IsFiniteSet(1..Len(Tracked))
    BY <1>4, FS_Interval
  <2> QED
    BY <1>4, <2>1
<1>6. ASSUME NEW i \in Entries PROVE IsFiniteSet(Tracked[i].model)
  <2>1. Tracked[i] \in V
    BY <1>3 DEF ToSet, Entries
  <2> QED
    BY <2>1, CatalogueAssumption DEF CatalogueAssumption, V
<1> QED
  BY <1>5, <1>6

Size(i) == Cardinality(Tracked[i].model)

LEMMA ScoreType ==
  ASSUME NEW q, NEW i \in Entries
  PROVE  /\ Size(i) \in Nat /\ Overlap(i, q) \in Nat /\ Halves(i, q) \in Nat
         /\ Overlap(i, q) <= Size(i)
         /\ IsFiniteSet(Tracked[i].model \cap q.words)
<1> DEFINE M == Tracked[i].model
<1>1. IsFiniteSet(M)
  BY EntriesType
<1>2. M \cap q.words \in SUBSET M
  OBVIOUS
<1> HIDE DEF M
<1>3. Cardinality(M) \in Nat /\ IsFiniteSet(M \cap q.words)
      /\ Cardinality(M \cap q.words) \in Nat /\ Cardinality(M \cap q.words) <= Cardinality(M)
  BY <1>1, <1>2, FS_Subset, FS_CardinalityType
<1> QED
  BY <1>3 DEF M, Size, Overlap, Halves

LEMMA MatchedType ==
  ASSUME NEW q
  PROVE  /\ Quoted(q) \subseteq Matched(q) /\ Matched(q) \subseteq Entries
         /\ IsFiniteSet(Matched(q)) /\ Cardinality(Matched(q)) \in Nat
         /\ \A i \in Matched(q) \ Quoted(q) : Overlap(i, q) > 0 /\ Size(i) > 0
<1>1. Quoted(q) \subseteq Matched(q) /\ Matched(q) \subseteq Entries
  BY DEF Quoted, Matched
<1>2. IsFiniteSet(Matched(q)) /\ Cardinality(Matched(q)) \in Nat
  BY <1>1, EntriesType, FS_Subset, FS_CardinalityType
<1>3. ASSUME NEW i \in Matched(q) \ Quoted(q) PROVE Overlap(i, q) > 0 /\ Size(i) > 0
  <2>1. i \in Entries /\ Overlap(i, q) > 0
    BY DEF Matched
  <2>2. Size(i) \in Nat /\ Overlap(i, q) \in Nat /\ Overlap(i, q) <= Size(i)
    BY <2>1, ScoreType, Zenon
  <2> QED
    BY <2>1, <2>2
<1> QED
  BY <1>1, <1>2, <1>3

\* A fraction no less than one no less than a third is no less than the third.
LEMMA FractionsTransitive ==
  ASSUME NEW a \in Nat, NEW b \in Nat, NEW c \in Nat, NEW x \in Nat, NEW y \in Nat, NEW z \in Nat,
         y > 0, a * y >= b * x, b * z >= c * y
  PROVE  a * z >= c * x
<1> SUFFICES ASSUME c * x >= a * z + 1 PROVE FALSE
  <2>1. c * x \in Nat /\ a * z \in Nat
    OBVIOUS
  <2> QED
    BY <2>1
<1>1. (b * x) * z <= (a * y) * z
  <2>1. b * x \in Int /\ a * y \in Int
    OBVIOUS
  <2> QED
    BY <2>1, ProductMonotone
<1>2. (c * y) * x <= (b * z) * x
  <2>1. c * y \in Int /\ b * z \in Int
    OBVIOUS
  <2> QED
    BY <2>1, ProductMonotone
<1>3. (a * z + 1) * y <= (c * x) * y
  <2>1. c * x \in Int /\ a * z + 1 \in Int
    OBVIOUS
  <2> QED
    BY <2>1, ProductMonotone
<1> QED
  BY <1>1, <1>2, <1>3, SMT

\* What a stable sort by score leaves before what.
NoWorse(i, j, q) == ~Above(j, i, q)

LEMMA NoWorseTotal ==
  ASSUME NEW q, NEW i \in Matched(q), NEW j \in Matched(q)
  PROVE  NoWorse(i, j, q) \/ NoWorse(j, i, q)
<1>1. i \in Entries /\ j \in Entries
  BY MatchedType
<1>2. Halves(i, q) * Size(j) \in Nat /\ Halves(j, q) * Size(i) \in Nat
  <2>1. Halves(i, q) \in Nat /\ Halves(j, q) \in Nat /\ Size(i) \in Nat /\ Size(j) \in Nat
    BY <1>1, ScoreType, Zenon
  <2> QED
    BY <2>1
<1> QED
  BY <1>2 DEF NoWorse, Above, Size

LEMMA NoWorseTransitive ==
  ASSUME NEW q, NEW i \in Matched(q), NEW j \in Matched(q), NEW k \in Matched(q),
         NoWorse(i, j, q), NoWorse(j, k, q)
  PROVE  NoWorse(i, k, q)
<1>1. i \in Entries /\ j \in Entries /\ k \in Entries
  BY MatchedType
<1>2. CASE i \in Quoted(q)
  BY <1>2 DEF NoWorse, Above
<1>3. CASE i \notin Quoted(q)
  <2>1. j \notin Quoted(q) /\ k \notin Quoted(q)
    BY <1>3 DEF NoWorse, Above
  <2>2. PICK a \in Nat, b \in Nat, c \in Nat, x \in Nat, y \in Nat, z \in Nat :
           /\ a = Halves(i, q) /\ b = Halves(j, q) /\ c = Halves(k, q)
           /\ x = Size(i) /\ y = Size(j) /\ z = Size(k)
    BY <1>1, ScoreType
  <2>3. y > 0
    BY <2>1, <2>2, MatchedType
  <2>4. ~(b * x > a * y) /\ ~(c * y > b * z)
    BY <1>3, <2>1, <2>2 DEF NoWorse, Above, Size
  <2>5. a * y \in Nat /\ b * x \in Nat /\ b * z \in Nat /\ c * y \in Nat
        /\ a * z \in Nat /\ c * x \in Nat
    OBVIOUS
  <2>6. a * y >= b * x /\ b * z >= c * y
    BY <2>4, <2>5
  <2>7. a * z >= c * x
    BY <2>3, <2>6, FractionsTransitive
  <2>8. ~(c * x > a * z)
    BY <2>5, <2>7
  <2> QED
    BY <1>3, <2>1, <2>2, <2>8 DEF NoWorse, Above, Size
<1> QED
  BY <1>2, <1>3

LEMMA BeforeIs ==
  ASSUME NEW q, NEW i \in Matched(q), NEW j \in Matched(q)
  PROVE  Before(i, j, q) <=> NoWorse(i, j, q) /\ (NoWorse(j, i, q) => i < j)
BY NoWorseTotal DEF Before, NoWorse

LEMMA BeforeOrders ==
  ASSUME NEW q, NEW i \in Matched(q), NEW j \in Matched(q)
  PROVE  /\ ~Before(i, i, q)
         /\ i # j => Before(i, j, q) \/ Before(j, i, q)
         /\ \A k \in Matched(q) : Before(i, j, q) /\ Before(j, k, q) => Before(i, k, q)
<1>1. \A m \in Matched(q) : m \in Nat
  BY MatchedType, EntriesType
<1>2. ~Before(i, i, q)
  BY <1>1, NoWorseTotal, BeforeIs
<1>3. i # j => Before(i, j, q) \/ Before(j, i, q)
  <2>1. i \in Nat /\ j \in Nat
    BY <1>1
  <2> QED
    BY <2>1, NoWorseTotal, BeforeIs
<1>4. ASSUME NEW k \in Matched(q), Before(i, j, q), Before(j, k, q) PROVE Before(i, k, q)
  <2>1. i \in Nat /\ j \in Nat /\ k \in Nat
    BY <1>1
  <2>2. NoWorse(i, j, q) /\ (NoWorse(j, i, q) => i < j)
    BY <1>4, BeforeIs
  <2>3. NoWorse(j, k, q) /\ (NoWorse(k, j, q) => j < k)
    BY <1>4, BeforeIs
  <2>4. NoWorse(i, k, q)
    BY <2>2, <2>3, NoWorseTransitive
  <2>5. NoWorse(k, i, q) => NoWorse(j, i, q) /\ NoWorse(k, j, q)
    BY <2>2, <2>3, NoWorseTransitive
  <2>6. NoWorse(k, i, q) => i < k
    BY <2>1, <2>2, <2>3, <2>5
  <2> QED
    BY <2>4, <2>6, BeforeIs
<1> QED
  BY <1>2, <1>3, <1>4

-----------------------------------------------------------------------------
\* How many matches come before a match: one less than its place.
Ahead(i, q) == {j \in Matched(q) : Before(j, i, q)}
HowManyAhead(i, q) == Cardinality(Ahead(i, q))

LEMMA AheadType ==
  ASSUME NEW q, NEW i \in Matched(q)
  PROVE  IsFiniteSet(Ahead(i, q)) /\ HowManyAhead(i, q) \in 0..Cardinality(Matched(q)) - 1
<1>1. Ahead(i, q) \in SUBSET Matched(q) /\ i \notin Ahead(i, q)
  BY BeforeOrders DEF Ahead
<1>2. IsFiniteSet(Ahead(i, q)) /\ HowManyAhead(i, q) <= Cardinality(Matched(q))
      /\ HowManyAhead(i, q) # Cardinality(Matched(q))
  BY <1>1, MatchedType, FS_Subset DEF HowManyAhead
<1>3. HowManyAhead(i, q) \in Nat /\ Cardinality(Matched(q)) \in Nat
  BY <1>2, MatchedType, FS_CardinalityType DEF HowManyAhead
<1> QED
  BY <1>2, <1>3

LEMMA AheadOrders ==
  ASSUME NEW q, NEW i \in Matched(q), NEW j \in Matched(q)
  PROVE  /\ Before(i, j, q) <=> HowManyAhead(i, q) < HowManyAhead(j, q)
         /\ HowManyAhead(i, q) = HowManyAhead(j, q) => i = j
<1>1. ASSUME NEW m \in Matched(q), NEW n \in Matched(q), Before(m, n, q)
      PROVE  HowManyAhead(m, q) < HowManyAhead(n, q)
  <2>1. Ahead(m, q) \in SUBSET Ahead(n, q)
    BY <1>1, BeforeOrders DEF Ahead
  <2>2. m \in Ahead(n, q) /\ m \notin Ahead(m, q)
    BY <1>1, BeforeOrders DEF Ahead
  <2>3. IsFiniteSet(Ahead(n, q)) /\ HowManyAhead(m, q) \in Nat /\ HowManyAhead(n, q) \in Nat
    BY AheadType, MatchedType
  <2>4. /\ HowManyAhead(m, q) <= HowManyAhead(n, q)
        /\ HowManyAhead(n, q) = HowManyAhead(m, q) => Ahead(n, q) = Ahead(m, q)
    BY <2>1, <2>3, FS_Subset DEF HowManyAhead
  <2> QED
    BY <2>2, <2>3, <2>4
<1>2. HowManyAhead(i, q) \in Nat /\ HowManyAhead(j, q) \in Nat
  BY AheadType, MatchedType
<1>3. Before(i, j, q) => HowManyAhead(i, q) < HowManyAhead(j, q)
  BY <1>1
<1>4. Before(j, i, q) => HowManyAhead(j, q) < HowManyAhead(i, q)
  BY <1>1
<1>5. i = j \/ Before(i, j, q) \/ Before(j, i, q)
  BY BeforeOrders
<1> QED
  BY <1>2, <1>3, <1>4, <1>5

\* There are as many places as matches.
LEMMA Places ==
  ASSUME NEW n \in Nat
  PROVE  IsFiniteSet(0..n - 1) /\ Cardinality(0..n - 1) = n
<1>1. 0 \in Int /\ n - 1 \in Int
  OBVIOUS
<1>2. IsFiniteSet(0..n - 1) /\ Cardinality(0..n - 1) = IF 0 > n - 1 THEN 0 ELSE n - 1 - 0 + 1
  BY <1>1, FS_Interval, Zenon
<1>3. n = IF 0 > n - 1 THEN 0 ELSE n - 1 - 0 + 1
  OBVIOUS
<1> QED
  BY <1>2, <1>3

\* Each place is some match's.
LEMMA AheadReaches ==
  ASSUME NEW q, NEW n \in 0..Cardinality(Matched(q)) - 1
  PROVE  \E i \in Matched(q) : HowManyAhead(i, q) = n
<1> DEFINE S == Matched(q)
           T == 0..Cardinality(S) - 1
           f == [i \in S |-> HowManyAhead(i, q)]
<1>1. f \in Injection(S, T)
  <2>1. f \in [S -> T]
    BY AheadType
  <2>2. \A i, j \in S : f[i] = f[j] => i = j
    BY AheadOrders
  <2> HIDE DEF f, S, T
  <2> QED
    BY <2>1, <2>2 DEF Injection, IsInjective
<1>2. IsFiniteSet(T) /\ Cardinality(T) = Cardinality(S)
  <2>1. Cardinality(S) \in Nat
    BY MatchedType
  <2> HIDE DEF S
  <2> QED
    BY <2>1, Places
<1>3. f \in Surjection(S, T)
  <2> HIDE DEF f, S, T
  <2> QED
    BY <1>1, <1>2, FS_Injection
<1> HIDE DEF f
<1>4. \E i \in S : f[i] = n
  <2>1. n \in T
    OBVIOUS
  <2> HIDE DEF S, T
  <2> QED
    BY <1>3, <2>1 DEF Surjection
<1> QED
  BY <1>4 DEF f

\* The list: the place of a match is one more than the matches before it, as far as the
\* cut leaves places.
LEMMA ListIs ==
  ASSUME NEW q
  PROVE  LET list == FindReference(q)
             m == IF Cardinality(Matched(q)) > Limit THEN Limit ELSE Cardinality(Matched(q))
         IN  /\ list \in Seq(Matched(q)) /\ Len(list) = m /\ m \in Nat
             /\ \A n \in 1..m : HowManyAhead(list[n], q) = n - 1
             /\ \A i \in Matched(q) : HowManyAhead(i, q) < m => list[HowManyAhead(i, q) + 1] = i
<1> DEFINE S == Matched(q)
           c == Cardinality(S)
           sorted == Sorted(S, q)
           list == FindReference(q)
           m == IF c > Limit THEN Limit ELSE c
<1>1. c \in Nat /\ Limit \in Nat /\ m \in Nat /\ m <= c
  BY MatchedType, LimitAssumption DEF LimitAssumption
<1>2. ASSUME NEW n \in 1..c PROVE sorted[n] \in S /\ HowManyAhead(sorted[n], q) = n - 1
  <2>1. n - 1 \in 0..c - 1
    BY <1>1
  <2>2. \E i \in S : HowManyAhead(i, q) = n - 1
    BY <2>1, AheadReaches
  <2>3. sorted[n] = CHOOSE i \in S : HowManyAhead(i, q) = n - 1
    BY DEF Sorted, HowManyAhead, Ahead
  <2> HIDE DEF sorted, S
  <2> QED
    BY <2>2, <2>3
<1>3. sorted \in Seq(S) /\ Len(sorted) = c
  <2> DEFINE h(n) == CHOOSE i \in S : Cardinality({j \in S : Before(j, i, q)}) = n - 1
  <2>1. sorted = [n \in 1..c |-> h(n)]
    BY DEF Sorted
  <2> HIDE DEF sorted, c, S, h
  <2>2. sorted \in [1..c -> S]
    BY <1>2, <2>1
  <2> QED
    BY <1>1, <2>2
<1>4. list = IF c > Limit THEN SubSeq(sorted, 1, Limit) ELSE sorted
  BY <1>3 DEF FindReference, Cut
<1> HIDE DEF sorted, list, c, S
<1>5. list \in Seq(S) /\ Len(list) = m /\ \A n \in 1..m : list[n] = sorted[n]
  BY <1>1, <1>3, <1>4
<1> HIDE DEF m
<1>6. \A n \in 1..m : list[n] \in S /\ HowManyAhead(list[n], q) = n - 1
  BY <1>1, <1>2, <1>5
<1>7. ASSUME NEW i \in S, HowManyAhead(i, q) < m PROVE list[HowManyAhead(i, q) + 1] = i
  <2>1. HowManyAhead(i, q) \in Nat
    BY AheadType, MatchedType DEF S
  <2>2. PICK n \in 1..m : n = HowManyAhead(i, q) + 1
    BY <1>1, <1>7, <2>1
  <2>3. HowManyAhead(list[n], q) = HowManyAhead(i, q) /\ list[n] \in S
    BY <1>6, <2>1, <2>2
  <2> QED
    BY <2>2, <2>3, AheadOrders DEF S
<1> QED
  BY <1>1, <1>5, <1>6, <1>7 DEF list, m, c, S

LEMMA RankIs ==
  ASSUME NEW q, NEW i
  PROVE  /\ Rank(i, q) # 0 => i \in Matched(q) /\ Rank(i, q) = HowManyAhead(i, q) + 1
         /\ i \in Matched(q) => (Rank(i, q) # 0 <=> HowManyAhead(i, q) < Limit)
<1> DEFINE list == FindReference(q)
           m == IF Cardinality(Matched(q)) > Limit THEN Limit ELSE Cardinality(Matched(q))
<1>1. /\ list \in Seq(Matched(q)) /\ Len(list) = m /\ m \in Nat
      /\ \A n \in 1..m : HowManyAhead(list[n], q) = n - 1
      /\ \A j \in Matched(q) : HowManyAhead(j, q) < m => list[HowManyAhead(j, q) + 1] = j
  BY ListIs
<1>2. DOMAIN list = 1..m /\ Limit \in Nat /\ Cardinality(Matched(q)) \in Nat
  BY <1>1, LimitAssumption, MatchedType DEF LimitAssumption
<1>3. Rank(i, q) = IF i \in ToSet(list) THEN CHOOSE n \in DOMAIN list : list[n] = i ELSE 0
  BY DEF Rank
<1>4. i \in Matched(q) => /\ HowManyAhead(i, q) \in Nat
                          /\ HowManyAhead(i, q) < m <=> HowManyAhead(i, q) < Limit
  BY <1>2, AheadType
<1> HIDE DEF list, m
<1>5. ASSUME i \in ToSet(list)
      PROVE  i \in Matched(q) /\ Rank(i, q) = HowManyAhead(i, q) + 1 /\ HowManyAhead(i, q) < m
  <2>1. \E n \in DOMAIN list : list[n] = i
    BY <1>5 DEF ToSet
  <2>2. Rank(i, q) \in DOMAIN list /\ list[Rank(i, q)] = i
    BY <1>3, <1>5, <2>1
  <2>3. PICK n \in 1..m : n = Rank(i, q)
    BY <1>2, <2>2
  <2>4. list[n] = i /\ i \in Matched(q) /\ HowManyAhead(i, q) = n - 1
    BY <1>1, <2>2, <2>3
  <2> QED
    BY <1>1, <2>3, <2>4
<1>6. ASSUME i \in Matched(q), HowManyAhead(i, q) < m PROVE i \in ToSet(list)
  <2>1. HowManyAhead(i, q) + 1 \in DOMAIN list /\ list[HowManyAhead(i, q) + 1] = i
    BY <1>1, <1>2, <1>4, <1>6
  <2> QED
    BY <2>1 DEF ToSet
<1>7. i \notin ToSet(list) => Rank(i, q) = 0
  BY <1>3
<1> QED
  BY <1>4, <1>5, <1>6, <1>7

\* A match before another that has a place has a place before it.
LEMMA RankOrders ==
  ASSUME NEW q, NEW i \in Matched(q), NEW j, Rank(j, q) # 0
  PROVE  /\ Before(i, j, q) => Rank(i, q) \in 1..Rank(j, q) - 1
         /\ Rank(i, q) \in 1..Rank(j, q) => i = j \/ Before(i, j, q)
<1>1. j \in Matched(q) /\ Rank(j, q) = HowManyAhead(j, q) + 1 /\ HowManyAhead(j, q) < Limit
  BY RankIs
<1>2. HowManyAhead(i, q) \in Nat /\ HowManyAhead(j, q) \in Nat /\ Limit \in Nat
  BY <1>1, AheadType, MatchedType, LimitAssumption DEF LimitAssumption
<1>3. Before(i, j, q) => Rank(i, q) \in 1..Rank(j, q) - 1
  <2> SUFFICES ASSUME Before(i, j, q) PROVE Rank(i, q) \in 1..Rank(j, q) - 1
    OBVIOUS
  <2>1. HowManyAhead(i, q) < HowManyAhead(j, q)
    BY <1>1, AheadOrders
  <2>2. Rank(i, q) # 0
    BY <1>1, <1>2, <2>1, RankIs
  <2>3. Rank(i, q) = HowManyAhead(i, q) + 1
    BY <2>2, RankIs
  <2> QED
    BY <1>1, <1>2, <2>1, <2>3
<1>4. ASSUME Rank(i, q) \in 1..Rank(j, q) PROVE i = j \/ Before(i, j, q)
  <2>1. Rank(i, q) # 0 /\ Rank(i, q) <= Rank(j, q)
    BY <1>4
  <2>2. Rank(i, q) = HowManyAhead(i, q) + 1
    BY <2>1, RankIs
  <2>3. HowManyAhead(i, q) < HowManyAhead(j, q) \/ HowManyAhead(i, q) = HowManyAhead(j, q)
    BY <1>1, <1>2, <2>1, <2>2
  <2> QED
    BY <1>1, <2>3, AheadOrders
<1> QED
  BY <1>3, <1>4

-----------------------------------------------------------------------------
\* The references a query quotes come before all it does not.
LEMMA QuotedAhead ==
  ASSUME NEW q, NEW i \in Quoted(q), NEW j \in Matched(q) \ Quoted(q)
  PROVE  Before(i, j, q)
BY DEF Before, Above

\* What the list holds of the quoted references, in its order.
LEMMA ExactIs ==
  ASSUME NEW q
  PROVE  LET list == FindReference(q)
             exact == Within(list, {i \in Entries : Confidence(i, q) = "exact"})
         IN  /\ exact \in Seq(Quoted(q)) /\ OneEach(exact)
             /\ ToSet(exact) = ToSet(list) \cap Quoted(q)
<1> DEFINE list == FindReference(q)
           E == {i \in Entries : Confidence(i, q) = "exact"}
<1>1. E = Quoted(q)
  <2>1. \A i \in Entries : Confidence(i, q) = "exact" <=> i \in Quoted(q)
    BY DEF Confidence
  <2>2. Quoted(q) \subseteq Entries
    BY DEF Quoted
  <2> QED
    BY <2>1, <2>2
<1>2. list \in Seq(Matched(q)) /\ \A n \in DOMAIN list : HowManyAhead(list[n], q) = n - 1
  <2>1. PICK m \in Nat : /\ list \in Seq(Matched(q)) /\ Len(list) = m
                         /\ \A n \in 1..m : HowManyAhead(list[n], q) = n - 1
    BY ListIs
  <2> HIDE DEF list
  <2> QED
    BY <2>1
<1> HIDE DEF list, E
<1>3. OneEach(list)
  <2>1. \A m, n \in DOMAIN list : list[m] = list[n] => m = n
    <3>1. DOMAIN list = 1..Len(list) /\ Len(list) \in Nat
      BY <1>2
    <3> QED
      BY <1>2, <3>1
  <2> QED
    BY <2>1 DEF OneEach
<1> DEFINE V == Matched(q)
<1> HIDE DEF V
<1>4. list \in Seq(V)
  BY <1>2 DEF V
<1>5. Within(list, E) \in Seq(E) /\ ToSet(Within(list, E)) = ToSet(list) \cap E
      /\ OneEach(Within(list, E))
  BY <1>3, <1>4, WithinType, WithinMembers, WithinOneEach
<1> QED
  BY <1>1, <1>5 DEF list, E

LEMMA QuotedRanksFirst == ASSUME NEW q PROVE QuotedFirst(q)
<1> DEFINE list == FindReference(q)
           exact == Within(list, {i \in Entries : Confidence(i, q) = "exact"})
<1>1. ASSUME NEW i \in Quoted(q), NEW j \in Entries \ Quoted(q), Rank(j, q) # 0
      PROVE  Rank(i, q) \in 1..Rank(j, q)
  <2>1. i \in Matched(q) /\ j \in Matched(q) \ Quoted(q)
    BY <1>1, RankIs, MatchedType
  <2>2. Rank(i, q) \in 1..Rank(j, q) - 1
    BY <1>1, <2>1, QuotedAhead, RankOrders
  <2>3. Rank(j, q) \in Nat
    <3>1. HowManyAhead(j, q) \in Nat /\ Rank(j, q) = HowManyAhead(j, q) + 1
      BY <1>1, <2>1, RankIs, AheadType, MatchedType
    <3> QED
      BY <3>1
  <2> QED
    BY <2>2, <2>3
<1>2. /\ exact \in Seq(Quoted(q)) /\ OneEach(exact)
      /\ ToSet(exact) = ToSet(list) \cap Quoted(q)
  BY ExactIs
<1>3. Unasked(q) = IF Len(exact) = 1 THEN {exact[1]}
                   ELSE IF Len(list) = 1 THEN {list[1]} ELSE {}
  BY DEF Unasked
<1>4. PICK m \in Nat : /\ m = IF Cardinality(Matched(q)) > Limit THEN Limit
                              ELSE Cardinality(Matched(q))
                       /\ list \in Seq(Matched(q)) /\ Len(list) = m
                       /\ \A n \in 1..m : HowManyAhead(list[n], q) = n - 1
  BY ListIs
<1> HIDE DEF list, exact
<1>5. /\ Cardinality(Matched(q)) \in Nat /\ IsFiniteSet(Matched(q)) /\ IsFiniteSet(Quoted(q))
      /\ Quoted(q) \subseteq Matched(q) /\ Cardinality(Quoted(q)) \in Nat
      /\ Cardinality(Quoted(q)) <= Cardinality(Matched(q))
  BY MatchedType, FS_Subset, FS_CardinalityType
<1>6. /\ DOMAIN list = 1..m /\ DOMAIN exact = 1..Len(exact) /\ Len(exact) \in Nat
      /\ Limit \in Nat /\ Limit >= 2
  BY <1>2, <1>4, LimitAssumption DEF LimitAssumption
\* The first places are the quoted references'.
<1>7. ASSUME NEW n \in 1..m, n <= Cardinality(Quoted(q)) PROVE list[n] \in Quoted(q)
  <2> SUFFICES ASSUME list[n] \notin Quoted(q) PROVE FALSE
    OBVIOUS
  <2> DEFINE j == list[n]
  <2>1. j \in Matched(q) \ Quoted(q) /\ HowManyAhead(j, q) = n - 1
    BY <1>4
  <2> HIDE DEF j
  <2>2. Quoted(q) \in SUBSET Ahead(j, q)
    BY <1>5, <2>1, QuotedAhead DEF Ahead
  <2>3. Cardinality(Quoted(q)) <= HowManyAhead(j, q)
    BY <2>1, <2>2, AheadType, FS_Subset DEF HowManyAhead
  <2> QED
    BY <1>5, <1>7, <2>1, <2>3
<1>8. ASSUME Quoted(q) # {} PROVE Cardinality(Quoted(q)) >= 1 /\ m >= 1 /\ list[1] \in Quoted(q)
  <2>1. Cardinality(Quoted(q)) # 0
    BY <1>5, <1>8, FS_EmptySet
  <2>2. Cardinality(Quoted(q)) >= 1 /\ m >= 1
    BY <1>4, <1>5, <1>6, <2>1
  <2> QED
    BY <1>7, <2>2
\* One quoted reference is the one exact match.
<1>9. ASSUME Cardinality(Quoted(q)) = 1 PROVE Unasked(q) = Quoted(q)
  <2>1. PICK i : Quoted(q) = {i}
    BY <1>5, <1>9, FS_Singleton
  <2>2. list[1] = i /\ 1 \in DOMAIN list
    BY <1>6, <1>8, <2>1
  <2>3. ToSet(exact) = {i}
    BY <1>2, <2>1, <2>2 DEF ToSet
  <2>4. \A n \in DOMAIN exact : exact[n] = i
    BY <2>3 DEF ToSet
  <2>5. \E n \in DOMAIN exact : exact[n] = i
    BY <2>3 DEF ToSet
  <2>6. Len(exact) = 1
    <3>1. Len(exact) >= 1
      BY <1>6, <2>5
    <3>2. SUFFICES ASSUME Len(exact) >= 2 PROVE FALSE
      BY <1>6, <3>1
    <3>3. 1 \in DOMAIN exact /\ 2 \in DOMAIN exact
      BY <1>6, <3>2
    <3> QED
      BY <1>2, <2>4, <3>3 DEF OneEach
  <2>7. exact[1] = i
    BY <1>6, <2>4, <2>6
  <2> QED
    BY <1>3, <2>1, <2>6, <2>7
\* Of two, both places at the top are exact matches, and nothing is taken.
<1>10. ASSUME Cardinality(Quoted(q)) >= 2 PROVE Unasked(q) = {}
  <2>1. m >= 2
    BY <1>4, <1>5, <1>6, <1>10
  <2>2. list[1] \in Quoted(q) /\ list[2] \in Quoted(q) /\ 1 \in 1..m /\ 2 \in 1..m
    <3>1. 1 \in 1..m /\ 2 \in 1..m
      BY <2>1
    <3>2. 1 <= Cardinality(Quoted(q)) /\ 2 <= Cardinality(Quoted(q))
      BY <1>5, <1>10
    <3> QED
      BY <1>7, <3>1, <3>2
  <2>3. list[1] # list[2]
    <3>1. HowManyAhead(list[1], q) = 0 /\ HowManyAhead(list[2], q) = 1
      BY <1>4, <2>2
    <3> QED
      BY <3>1
  <2>4. list[1] \in ToSet(exact) /\ list[2] \in ToSet(exact)
    BY <1>2, <1>6, <2>2 DEF ToSet
  <2>5. Len(exact) # 1
    <3> SUFFICES ASSUME Len(exact) = 1 PROVE FALSE
      OBVIOUS
    <3>1. \A n \in DOMAIN exact : n = 1
      BY <1>6
    <3> QED
      BY <2>3, <2>4, <3>1 DEF ToSet
  <2> QED
    BY <1>3, <1>4, <2>1, <2>5
<1>11. Unasked(q) # {} /\ Quoted(q) # {} => Unasked(q) = Quoted(q)
  <2> SUFFICES ASSUME Unasked(q) # {}, Quoted(q) # {} PROVE Cardinality(Quoted(q)) = 1
    BY <1>9
  <2> QED
    BY <1>5, <1>8, <1>10
<1> QED
  BY <1>1, <1>9, <1>11 DEF QuotedFirst

\* Half of a model's words or more outweigh less than half of another's.
LEMMA LikelyRanksFirst == ASSUME NEW q PROVE LikelyFirst(q)
<1> SUFFICES ASSUME NEW i \in Matched(q), NEW j \in Matched(q),
                    Confidence(i, q) = "likely", Confidence(j, q) = "possible",
                    BrandNamed(j, q) => BrandNamed(i, q), Rank(j, q) # 0
             PROVE  Rank(i, q) \in 1..Rank(j, q)
  BY DEF LikelyFirst
<1>1. i \notin Quoted(q) /\ j \notin Quoted(q) /\ i \in Entries /\ j \in Entries
  BY MatchedType DEF Confidence
<1>2. PICK a \in Nat, b \in Nat, x \in Nat, y \in Nat :
         a = Overlap(i, q) /\ b = Overlap(j, q) /\ x = Size(i) /\ y = Size(j)
  BY <1>1, ScoreType
<1>3. 2 * a >= x /\ ~(2 * b >= y) /\ x > 0 /\ y > 0
  BY <1>1, <1>2, MatchedType DEF Confidence, Size
<1>4. x * y <= 2 * a * y
  <2>1. x \in Int /\ 2 * a \in Int /\ x <= 2 * a
    BY <1>3
  <2> QED
    BY <2>1, ProductMonotone
<1>5. 2 * b * x < x * y
  <2>1. 2 * b + 1 \in Int /\ y \in Int /\ 2 * b + 1 <= y
    BY <1>3
  <2>2. (2 * b + 1) * x <= y * x
    BY <2>1, ProductMonotone
  <2> QED
    BY <1>3, <2>2, SMT
<1>6. x * y \in Nat /\ 2 * a * y \in Nat /\ 2 * b * x \in Nat
  OBVIOUS
<1> DEFINE h == Halves(i, q)
           k == Halves(j, q)
<1>7. h * y > k * x
  <2>1. CASE BrandNamed(i, q)
    <3>1. h = 2 * a + x /\ (k = 2 * b + y \/ k = 2 * b)
      BY <1>2, <2>1 DEF Halves, Size
    <3>2. h * y = 2 * a * y + x * y /\ (k * x = 2 * b * x + x * y \/ k * x = 2 * b * x)
      BY <3>1, SMT
    <3> QED
      BY <1>4, <1>5, <1>6, <3>2
  <2>2. CASE ~BrandNamed(i, q)
    <3>1. h = 2 * a /\ k = 2 * b
      BY <1>2, <2>2 DEF Halves
    <3>2. h * y = 2 * a * y /\ k * x = 2 * b * x
      BY <3>1
    <3> QED
      BY <1>4, <1>5, <1>6, <3>2
  <2> QED
    BY <2>1, <2>2
<1>8. Before(i, j, q)
  BY <1>1, <1>2, <1>7 DEF Before, Above, Size
<1>9. Rank(j, q) = HowManyAhead(j, q) + 1 /\ HowManyAhead(j, q) \in Nat
  BY RankIs, AheadType, MatchedType
<1>10. Rank(i, q) \in 1..Rank(j, q) - 1
  BY <1>8, RankOrders
<1> QED
  BY <1>9, <1>10

\* One more word of a reference's model raises its score and no other's without the word.
LEMMA WordRaises ==
  ASSUME NEW q \in [words : SUBSET Words, quotes : SUBSET References],
         NEW i \in Entries, NEW j \in Entries,
         NEW word \in Tracked[i].model \ (Tracked[j].model \cup Tracked[j].brand)
  PROVE  LET longer == [q EXCEPT !.words = @ \cup {word}]
         IN  /\ Quoted(longer) = Quoted(q)
             /\ Matched(q) \subseteq Matched(longer)
             /\ Halves(i, longer) >= Halves(i, q) /\ Halves(j, longer) = Halves(j, q)
<1> DEFINE longer == [q EXCEPT !.words = @ \cup {word}]
<1>1. longer.words = q.words \cup {word} /\ longer.quotes = q.quotes
  OBVIOUS
<1> HIDE DEF longer
<1>2. Quoted(longer) = Quoted(q)
  BY <1>1 DEF Quoted
<1>3. ASSUME NEW k \in Entries PROVE Overlap(k, longer) >= Overlap(k, q)
  <2> DEFINE M == Tracked[k].model
  <2>1. IsFiniteSet(M \cap longer.words) /\ M \cap q.words \in SUBSET (M \cap longer.words)
    BY <1>1, ScoreType
  <2> HIDE DEF M
  <2>2. Cardinality(M \cap q.words) <= Cardinality(M \cap longer.words)
    BY <2>1, FS_Subset
  <2>3. Overlap(k, q) <= Overlap(k, longer)
    BY <2>2 DEF Overlap, M
  <2>4. Overlap(k, q) \in Nat /\ Overlap(k, longer) \in Nat
    BY ScoreType
  <2> QED
    BY <2>3, <2>4
<1>4. Matched(q) \subseteq Matched(longer)
  <2> SUFFICES ASSUME NEW k \in Entries, Overlap(k, q) > 0 PROVE Overlap(k, longer) > 0
    BY <1>2 DEF Matched
  <2>1. Overlap(k, q) \in Nat /\ Overlap(k, longer) \in Nat
    BY ScoreType
  <2> QED
    BY <1>3, <2>1
<1>5. Halves(i, longer) >= Halves(i, q)
  <2>1. BrandNamed(i, q) => BrandNamed(i, longer)
    BY <1>1 DEF BrandNamed
  <2>2. Overlap(i, q) \in Nat /\ Overlap(i, longer) \in Nat /\ Size(i) \in Nat
    BY ScoreType
  <2> QED
    BY <1>3, <2>1, <2>2 DEF Halves, Size
<1>6. Halves(j, longer) = Halves(j, q)
  <2>1. Tracked[j].model \cap longer.words = Tracked[j].model \cap q.words
    BY <1>1
  <2>2. Tracked[j].brand \cap longer.words = Tracked[j].brand \cap q.words
    BY <1>1
  <2> QED
    BY <2>1, <2>2 DEF Halves, Overlap, BrandNamed
<1> QED
  BY <1>2, <1>4, <1>5, <1>6 DEF longer

LEMMA WordsRankHigher ==
  ASSUME NEW q \in [words : SUBSET Words, quotes : SUBSET References]
  PROVE  WordsHelp(q)
<1> SUFFICES ASSUME NEW i \in Entries, NEW j \in Entries,
                    NEW word \in Tracked[i].model \ (Tracked[j].model \cup Tracked[j].brand)
             PROVE  LET longer == [q EXCEPT !.words = @ \cup {word}]
                    IN  Rank(i, q) \in 1..Rank(j, q) /\ Rank(j, longer) # 0
                          => Rank(i, longer) \in 1..Rank(j, longer) - 1
  BY DEF WordsHelp
<1> DEFINE longer == [q EXCEPT !.words = @ \cup {word}]
<1>1. /\ Quoted(longer) = Quoted(q)
      /\ Matched(q) \subseteq Matched(longer)
      /\ Halves(i, longer) >= Halves(i, q) /\ Halves(j, longer) = Halves(j, q)
  BY WordRaises
<1> HIDE DEF longer
<1> SUFFICES ASSUME Rank(i, q) \in 1..Rank(j, q), Rank(j, longer) # 0
             PROVE  Rank(i, longer) \in 1..Rank(j, longer) - 1
  BY DEF longer
<1>2. i # j
  OBVIOUS
<1>3. Rank(i, q) # 0 /\ Rank(j, q) # 0
  <2>1. Rank(j, q) = 0 \/ Rank(j, q) # 0
    OBVIOUS
  <2> QED
    BY <2>1
<1>4. i \in Matched(q) /\ j \in Matched(q)
  BY <1>3, RankIs
<1>5. Before(i, j, q)
  BY <1>2, <1>3, <1>4, RankOrders
<1>6. Halves(i, q) * Size(j) <= Halves(i, longer) * Size(j)
  <2>1. Halves(i, q) \in Int /\ Halves(i, longer) \in Int /\ Size(j) \in Nat
        /\ Halves(i, q) <= Halves(i, longer)
    <3>1. Halves(i, q) \in Nat /\ Halves(i, longer) \in Nat /\ Size(j) \in Nat
      BY ScoreType, Zenon
    <3> QED
      BY <1>1, <3>1
  <2> QED
    BY <2>1, ProductMonotone
<1>7. Before(i, j, longer)
  <2>1. PICK a \in Nat, b \in Nat, c \in Nat :
           /\ a = Halves(i, q) * Size(j) /\ b = Halves(i, longer) * Size(j)
           /\ c = Halves(j, q) * Size(i) /\ a <= b
    <3>1. /\ Halves(i, q) \in Nat /\ Halves(i, longer) \in Nat /\ Halves(j, q) \in Nat
          /\ Size(i) \in Nat /\ Size(j) \in Nat
      BY ScoreType, Zenon
    <3>2. /\ Halves(i, q) * Size(j) \in Nat /\ Halves(i, longer) * Size(j) \in Nat
          /\ Halves(j, q) * Size(i) \in Nat
      BY <3>1
    <3> QED
      BY <1>6, <3>2
  <2>2. c = Halves(j, longer) * Size(i)
    BY <1>1, <2>1
  <2>3. Above(i, j, q) <=> j \notin Quoted(q) /\ (i \in Quoted(q) \/ a > c)
    BY <2>1 DEF Above, Size
  <2>4. Above(j, i, q) <=> i \notin Quoted(q) /\ (j \in Quoted(q) \/ c > a)
    BY <2>1 DEF Above, Size
  <2>5. Above(i, j, longer) <=> j \notin Quoted(q) /\ (i \in Quoted(q) \/ b > c)
    BY <1>1, <2>1, <2>2 DEF Above, Size
  <2>6. Above(j, i, longer) <=> i \notin Quoted(q) /\ (j \in Quoted(q) \/ c > b)
    BY <1>1, <2>1, <2>2 DEF Above, Size
  <2>7. a > c => b > c
    BY <2>1
  <2>8. c > b => c > a
    BY <2>1
  <2> QED
    BY <1>5, <2>3, <2>4, <2>5, <2>6, <2>7, <2>8 DEF Before
<1> QED
  BY <1>1, <1>4, <1>7, RankOrders

\* Whatever the catalogue, and whatever the query.
LEMMA RankedWhatever ==
  ASSUME NEW q \in [words : SUBSET Words, quotes : SUBSET References]
  PROVE  Ranked(q)
BY QuotedRanksFirst, LikelyRanksFirst, WordsRankHigher DEF Ranked

-----------------------------------------------------------------------------
\* The tokens of a price text, and how many digits each is.
Figures == DOMAIN Digits
Value(t) == IF t \in Figures THEN Digits[t] ELSE 0

LEMMA TokenKinds ==
  /\ Figures = {"d", "dd", "ddd"} /\ Marks = {",", ".", " ", "nbsp"}
  /\ Tokens = Figures \cup Marks /\ Figures \cap Marks = {}
  /\ Value("d") = 1 /\ Value("dd") = 2 /\ Value("ddd") = 3
  /\ \A t : Value(t) \in Nat /\ (t \in Marks => Value(t) = 0)
<1>1. Figures = {"d", "dd", "ddd"}
  BY DEF Figures, Digits
<1>2. Marks = {",", ".", " ", "nbsp"} /\ Tokens = Figures \cup Marks
  BY DEF Marks, Tokens, Figures
<1>3. Figures \cap Marks = {}
  BY <1>1, <1>2
<1>4. Value("d") = 1 /\ Value("dd") = 2 /\ Value("ddd") = 3
  <2>1. Digits["d"] = 1 /\ Digits["dd"] = 2 /\ Digits["ddd"] = 3
    BY DEF Digits
  <2> QED
    BY <1>1, <2>1 DEF Value
<1>5. ASSUME NEW t PROVE Value(t) \in Nat /\ (t \in Marks => Value(t) = 0)
  <2>1. CASE t \in Figures
    BY <1>1, <1>3, <1>4, <2>1
  <2>2. CASE t \notin Figures
    BY <2>2 DEF Value
  <2> QED
    BY <2>1, <2>2
<1> QED
  BY <1>1, <1>2, <1>3, <1>4, <1>5

\* The function Count adds up with: the digits of the first n tokens.
SumsOf(sum, text) ==
  /\ sum \in [0..Len(text) -> Nat]
  /\ sum[0] = 0
  /\ \A n \in 1..Len(text) : sum[n] = sum[n - 1] + Value(text[n])

LEMMA CountSums ==
  ASSUME NEW V, NEW text \in Seq(V)
  PROVE  \E sum : SumsOf(sum, text) /\ Count(text) = sum[Len(text)]
<1> DEFINE step == [n \in Nat |-> [x \in Nat |-> x + Value(text[n + 1])]]
           Is(f) == f = [n \in 0..Len(text) |->
                           IF n = 0 THEN 0
                           ELSE IF text[n] \in DOMAIN Digits THEN f[n - 1] + Digits[text[n]]
                                ELSE f[n - 1]]
<1>1. step \in Steps(Nat)
  <2>1. \A t : Value(t) \in Nat
    BY TokenKinds
  <2> QED
    BY <2>1 DEF Steps
<1>2. 0 \in Nat
  OBVIOUS
<1>3. PICK f : Iterates(f, Nat, 0, step)
  <2> HIDE DEF step
  <2> QED
    BY <1>1, <1>2, Recursion
<1>4. f \in [Nat -> Nat] /\ f[0] = 0
  BY <1>3 DEF Iterates
<1>5. \A n \in 1..Len(text) : f[n] = f[n - 1] + Value(text[n])
  <2> SUFFICES ASSUME NEW n \in 1..Len(text) PROVE f[n] = f[n - 1] + Value(text[n])
    OBVIOUS
  <2>1. n - 1 \in Nat /\ n - 1 + 1 = n
    OBVIOUS
  <2>2. f[n - 1] \in Nat /\ f[n - 1 + 1] = step[n - 1][f[n - 1]]
    BY <1>3, <1>4, <2>1 DEF Iterates
  <2> QED
    BY <2>1, <2>2
<1> HIDE DEF step
<1> DEFINE g == [n \in 0..Len(text) |-> f[n]]
<1>6. Is(g)
  <2>1. \A n \in 0..Len(text) : g[n] = IF n = 0 THEN 0
                                       ELSE IF text[n] \in DOMAIN Digits
                                            THEN g[n - 1] + Digits[text[n]] ELSE g[n - 1]
    <3> SUFFICES ASSUME NEW n \in 0..Len(text), n # 0
                 PROVE  g[n] = IF text[n] \in DOMAIN Digits
                               THEN g[n - 1] + Digits[text[n]] ELSE g[n - 1]
      BY <1>4
    <3>1. n \in 1..Len(text) /\ n - 1 \in 0..Len(text) /\ n - 1 \in Nat
      OBVIOUS
    <3>2. g[n] = f[n - 1] + Value(text[n]) /\ g[n - 1] = f[n - 1] /\ f[n - 1] \in Nat
      BY <1>4, <1>5, <3>1
    <3> HIDE DEF g
    <3> QED
      BY <3>2 DEF Value, Figures
  <2>2. g = [n \in 0..Len(text) |-> g[n]]
    OBVIOUS
  <2> HIDE DEF g
  <2> QED
    BY <2>1, <2>2
<1> DEFINE sum == CHOOSE h : Is(h)
<1>7. Is(sum)
  BY <1>6
<1>8. Count(text) = sum[Len(text)]
  BY DEF Count
<1> HIDE DEF sum
<1>9. sum[0] = 0 /\ \A n \in 1..Len(text) :
         sum[n] = IF text[n] \in DOMAIN Digits THEN sum[n - 1] + Digits[text[n]] ELSE sum[n - 1]
  <2>1. 0 \in 0..Len(text) /\ \A n \in 1..Len(text) : n \in 0..Len(text) /\ n # 0
    OBVIOUS
  <2> QED
    BY <1>7, <2>1
<1>10. \A n \in 0..Len(text) : sum[n] = f[n]
  <2> DEFINE T == {n \in 0..Len(text) : sum[n] = f[n]}
  <2>1. 0 \in T
    BY <1>4, <1>9
  <2>2. ASSUME NEW n \in T, n < Len(text) PROVE n + 1 \in T
    <3>1. n + 1 \in 1..Len(text) /\ n + 1 - 1 = n /\ n \in Nat /\ n + 1 \in 0..Len(text)
      BY <2>2
    <3>2. sum[n] = f[n] /\ f[n] \in Nat
      BY <1>4, <3>1
    <3>3. f[n + 1] = f[n] + Value(text[n + 1])
      BY <1>5, <3>1
    <3>4. sum[n + 1] = IF text[n + 1] \in DOMAIN Digits THEN f[n] + Digits[text[n + 1]] ELSE f[n]
      BY <1>9, <3>1, <3>2
    <3>5. sum[n + 1] = f[n + 1]
      BY <3>2, <3>3, <3>4 DEF Value, Figures
    <3> QED
      BY <3>1, <3>5
  <2> HIDE DEF T
  <2>3. T \in SUBSET (0..Len(text)) /\ Len(text) \in Nat
    BY DEF T
  <2>4. T = 0..Len(text)
    BY <2>1, <2>2, <2>3, InductionTo
  <2> QED
    BY <2>4 DEF T
<1>11. SumsOf(g, text)
  BY <1>4, <1>5 DEF SumsOf
<1>12. g[Len(text)] = sum[Len(text)]
  BY <1>10
<1> QED
  BY <1>8, <1>11, <1>12

LEMMA CountEmpty == Count(<<>>) = 0
<1>1. <<>> \in Seq(Nat) /\ Len(<<>>) = 0
  OBVIOUS
<1>2. PICK sum : SumsOf(sum, <<>>) /\ Count(<<>>) = sum[Len(<<>>)]
  BY <1>1, CountSums
<1> QED
  BY <1>1, <1>2 DEF SumsOf

LEMMA CountAppend ==
  ASSUME NEW V, NEW text \in Seq(V), NEW t \in V
  PROVE  Count(text) \in Nat /\ Count(Append(text, t)) = Count(text) + Value(t)
<1> DEFINE u == Append(text, t)
<1>1. u \in Seq(V) /\ Len(u) = Len(text) + 1 /\ u[Len(text) + 1] = t
      /\ \A n \in 1..Len(text) : u[n] = text[n]
  OBVIOUS
<1>2. PICK g : SumsOf(g, text) /\ Count(text) = g[Len(text)]
  BY CountSums
<1>3. PICK h : SumsOf(h, u) /\ Count(u) = h[Len(u)]
  BY <1>1, CountSums
<1> HIDE DEF u
<1>4. g[Len(text)] = h[Len(text)]
  <2> DEFINE T == {n \in 0..Len(text) : g[n] = h[n]}
  <2>1. 0 \in T
    BY <1>2, <1>3 DEF SumsOf
  <2>2. ASSUME NEW n \in T, n < Len(text) PROVE n + 1 \in T
    <3>1. n + 1 \in 1..Len(text) /\ n + 1 \in 1..Len(u) /\ n + 1 - 1 = n /\ g[n] = h[n]
      BY <1>1, <2>2
    <3>2. g[n + 1] = g[n] + Value(text[n + 1])
      BY <1>2, <3>1 DEF SumsOf
    <3>3. h[n + 1] = h[n] + Value(u[n + 1])
      BY <1>3, <3>1 DEF SumsOf
    <3> QED
      BY <1>1, <3>1, <3>2, <3>3
  <2> HIDE DEF T
  <2>3. T \in SUBSET (0..Len(text)) /\ Len(text) \in Nat
    BY DEF T
  <2>4. T = 0..Len(text)
    BY <2>1, <2>2, <2>3, InductionTo
  <2> QED
    BY <2>3, <2>4 DEF T
<1>5. h[Len(u)] = h[Len(text)] + Value(t)
  <2>1. Len(u) \in 1..Len(u) /\ Len(u) - 1 = Len(text) /\ u[Len(u)] = t
    BY <1>1
  <2> QED
    BY <1>3, <2>1 DEF SumsOf
<1>6. g[Len(text)] \in Nat
  BY <1>2 DEF SumsOf
<1> QED
  BY <1>2, <1>3, <1>4, <1>5, <1>6 DEF u

\* Marks that are dropped take no digits with them.
LEMMA CountWithin ==
  ASSUME NEW S, Figures \subseteq S
  PROVE  \A text \in Seq(Tokens) : Count(Within(text, S)) = Count(text)
<1> DEFINE P == {text \in Seq(Tokens) : Count(Within(text, S)) = Count(text)}
<1>1. <<>> \in P
  BY WithinEmpty
<1>2. ASSUME NEW text \in P, NEW t \in Tokens PROVE Append(text, t) \in P
  <2>1. text \in Seq(Tokens) /\ Append(text, t) \in Seq(Tokens)
        /\ Count(Within(text, S)) = Count(text)
    OBVIOUS
  <2> HIDE DEF P
  <2>2. Count(Append(text, t)) = Count(text) + Value(t) /\ Count(text) \in Nat
    BY <2>1, CountAppend
  <2>3. CASE t \in S
    <3>1. Within(Append(text, t), S) = Append(Within(text, S), t)
      BY <2>1, <2>3, WithinAppend
    <3>2. Within(text, S) \in Seq(S)
      BY <2>1, WithinType
    <3>3. Count(Append(Within(text, S), t)) = Count(Within(text, S)) + Value(t)
      BY <2>3, <3>2, CountAppend
    <3> QED
      BY <2>1, <2>2, <3>1, <3>3 DEF P
  <2>4. CASE t \notin S
    <3>1. Within(Append(text, t), S) = Within(text, S)
      BY <2>1, <2>4, WithinAppend
    <3>2. Value(t) = 0
      BY <2>4 DEF Value
    <3> QED
      BY <2>1, <2>2, <3>1, <3>2 DEF P
  <2> QED
    BY <2>3, <2>4
<1> HIDE DEF P
<1>3. P \in SUBSET Seq(Tokens)
  BY DEF P
<1>4. P = Seq(Tokens)
  BY <1>1, <1>2, <1>3, SequenceInduction
<1> QED
  BY <1>4 DEF P

\* Two elements of a kind are two that are kept.
LEMMA WithinTwo ==
  ASSUME NEW V, NEW S
  PROVE  \A s \in Seq(V) : \A i, j \in 1..Len(s) :
            s[i] \in S /\ s[j] \in S /\ i # j => Len(Within(s, S)) > 1
<1> DEFINE Q(s) == \A i, j \in 1..Len(s) : s[i] \in S /\ s[j] \in S /\ i # j
                                           => Len(Within(s, S)) > 1
           P == {s \in Seq(V) : Q(s)}
<1>1. <<>> \in P
  OBVIOUS
<1> HIDE DEF Q
<1>2. ASSUME NEW s \in P, NEW e \in V PROVE Append(s, e) \in P
  <2> DEFINE u == Append(s, e)
  <2>1. s \in Seq(V) /\ u \in Seq(V) /\ Q(s)
    OBVIOUS
  <2>2. Len(u) = Len(s) + 1 /\ Len(s) \in Nat /\ u[Len(s) + 1] = e
        /\ \A n \in 1..Len(s) : u[n] = s[n]
    BY <2>1
  <2>3. Within(u, S) = IF e \in S THEN Append(Within(s, S), e) ELSE Within(s, S)
    BY <2>1, WithinAppend
  <2>4. PICK w \in Seq(S) : w = Within(s, S)
    BY <2>1, WithinType
  <2>5. ToSet(w) = ToSet(s) \cap S
    BY <2>1, <2>4, WithinMembers
  <2> HIDE DEF u, P
  <2>6. ASSUME NEW i \in 1..Len(u), NEW j \in 1..Len(u), u[i] \in S, u[j] \in S, i < j
        PROVE  Len(Within(u, S)) > 1
    <3>1. i \in 1..Len(s) /\ s[i] \in S
      BY <2>2, <2>6
    <3>2. CASE j \in 1..Len(s)
      <4>1. Len(w) > 1
        BY <2>1, <2>2, <2>4, <2>6, <3>1, <3>2 DEF Q
      <4>2. Within(u, S) = w \/ (e \in S /\ Within(u, S) = Append(w, e))
        BY <2>3, <2>4
      <4>3. e \in S => Len(Append(w, e)) = Len(w) + 1
        OBVIOUS
      <4> QED
        BY <4>1, <4>2, <4>3
    <3>3. CASE j = Len(s) + 1
      <4>1. e \in S /\ Within(u, S) = Append(w, e)
        BY <2>2, <2>3, <2>4, <2>6, <3>3
      <4>2. s[i] \in ToSet(w)
        BY <2>1, <2>5, <3>1 DEF ToSet
      <4>3. Len(w) >= 1
        BY <4>2 DEF ToSet
      <4> QED
        BY <4>1, <4>3
    <3> QED
      BY <2>2, <3>2, <3>3
  <2>7. Q(u)
    <3>1. \A i, j \in 1..Len(u) : i # j => i < j \/ j < i
      BY <2>2
    <3> QED
      BY <2>6, <3>1 DEF Q
  <2> QED
    BY <2>1, <2>7 DEF P, u
<1> HIDE DEF P
<1>3. P \in SUBSET Seq(V)
  BY DEF P
<1>4. P = Seq(V)
  BY <1>1, <1>2, <1>3, SequenceInduction
<1> QED
  BY <1>4 DEF P, Q

-----------------------------------------------------------------------------
\* The last place of a kind, or 0.
LEMMA LastIs ==
  ASSUME NEW V, NEW text \in Seq(V), NEW S
  PROVE  /\ LastOf(text, S) \in 0..Len(text)
         /\ \A i \in 1..Len(text) : text[i] \in S => /\ i <= LastOf(text, S)
                                                     /\ text[LastOf(text, S)] \in S
         /\ (\A i \in 1..Len(text) : text[i] \notin S) => LastOf(text, S) = 0
<1> DEFINE T == {i \in 1..Len(text) : text[i] \in S}
<1>1. DOMAIN text = 1..Len(text) /\ Len(text) \in Nat
  OBVIOUS
<1>2. CASE T = {}
  <2>1. LastOf(text, S) = 0
    BY <1>1, <1>2 DEF LastOf
  <2> QED
    BY <1>1, <1>2, <2>1
<1>3. CASE T # {}
  <2>1. T \in SUBSET (0..Len(text))
    BY <1>1
  <2>2. \E x \in T : \A y \in T : y <= x
    <3> HIDE DEF T
    <3> QED
      BY <1>1, <1>3, <2>1, Greatest
  <2>3. \E i \in DOMAIN text : text[i] \in S /\ \A j \in DOMAIN text : text[j] \in S => j <= i
    BY <1>1, <2>2
  <2>4. LastOf(text, S) = CHOOSE i \in DOMAIN text :
           text[i] \in S /\ \A j \in DOMAIN text : text[j] \in S => j <= i
    BY <2>3 DEF LastOf
  <2>5. /\ LastOf(text, S) \in DOMAIN text /\ text[LastOf(text, S)] \in S
        /\ \A j \in DOMAIN text : text[j] \in S => j <= LastOf(text, S)
    BY <2>3, <2>4
  <2> QED
    BY <1>1, <1>3, <2>5
<1> QED
  BY <1>2, <1>3

-----------------------------------------------------------------------------
\* A text that is read as a number: digits, and digits with a point and two more.
LEMMA Separate ==
  /\ "," \in Tokens /\ "." \in Tokens /\ "nbsp" \in Tokens /\ " " \in Tokens
  /\ "dd" \in Tokens /\ "dd" \in Figures /\ Figures \subseteq Tokens
  /\ \A m \in Marks : m \notin Figures /\ m \in Tokens
BY TokenKinds

LEMMA HasIs == ASSUME NEW V, NEW text \in Seq(V), NEW mark
               PROVE  Has(text, mark) <=> mark \in ToSet(text)
BY DEF Has, ToSet

LEMMA WithoutIs ==
  ASSUME NEW text \in Seq(Tokens), NEW mark \in Marks
  PROVE  /\ Without(text, mark) \in Seq(Tokens)
         /\ ToSet(Without(text, mark)) = ToSet(text) \ {mark}
         /\ Count(Without(text, mark)) = Count(text)
         /\ mark \notin ToSet(text) => Without(text, mark) = text
         /\ \A t \in Tokens \ {mark} :
               Without(Append(text, t), mark) = Append(Without(text, mark), t)
<1> DEFINE S == Tokens \ {mark}
<1>1. ToSet(text) \subseteq Tokens
  BY DEF ToSet
<1>2. Figures \subseteq S
  BY Separate
<1>3. Within(text, S) \in Seq(S) /\ ToSet(Within(text, S)) = ToSet(text) \cap S
      /\ Count(Within(text, S)) = Count(text)
  <2> HIDE DEF S
  <2> QED
    BY <1>2, WithinType, WithinMembers, CountWithin
<1>4. ToSet(text) \subseteq S => Within(text, S) = text
  <2> HIDE DEF S
  <2> QED
    BY WithinLength
<1>5. ASSUME NEW t \in S PROVE Within(Append(text, t), S) = Append(Within(text, S), t)
  <2>1. t \in Tokens
    OBVIOUS
  <2> HIDE DEF S
  <2> QED
    BY <2>1, WithinAppend
<1>6. Within(text, S) \in Seq(Tokens)
  <2>1. S \subseteq Tokens
    OBVIOUS
  <2> HIDE DEF S
  <2> QED
    BY <1>3, <2>1
<1> QED
  BY <1>1, <1>3, <1>4, <1>5, <1>6 DEF Without

Turned(t) == IF t = "," THEN "." ELSE t

LEMMA TurnedType == \A t \in Tokens : Turned(t) \in Tokens
BY Separate DEF Turned

LEMMA ListOf ==
  ASSUME NEW V, NEW n \in Nat, NEW f \in [1..n -> V]
  PROVE  f \in Seq(V) /\ Len(f) = n
OBVIOUS

LEMMA CommaToPointAt ==
  ASSUME NEW text \in Seq(Tokens)
  PROVE  /\ CommaToPoint(text) \in Seq(Tokens) /\ Len(CommaToPoint(text)) = Len(text)
         /\ \A i \in 1..Len(text) : CommaToPoint(text)[i] = Turned(text[i])
<1>1. DOMAIN text = 1..Len(text) /\ Len(text) \in Nat
  OBVIOUS
<1>2. CommaToPoint(text) = [i \in 1..Len(text) |-> Turned(text[i])]
  BY <1>1 DEF CommaToPoint, Turned
<1>3. \A i \in 1..Len(text) : text[i] \in Tokens
  OBVIOUS
<1>4. \A i \in 1..Len(text) : Turned(text[i]) \in Tokens
  BY <1>3, TurnedType
<1>5. CommaToPoint(text) \in [1..Len(text) -> Tokens]
  BY <1>2, <1>4
<1> QED
  BY <1>1, <1>2, <1>5, ListOf

LEMMA CommaToPointIs ==
  ASSUME NEW text \in Seq(Tokens)
  PROVE  /\ CommaToPoint(text) \in Seq(Tokens)
         /\ "nbsp" \in ToSet(text) => "nbsp" \in ToSet(CommaToPoint(text))
         /\ "," \notin ToSet(text) => CommaToPoint(text) = text
         /\ \A t \in Tokens : CommaToPoint(Append(text, t)) = Append(CommaToPoint(text), Turned(t))
<1>1. PICK c \in Seq(Tokens) : /\ c = CommaToPoint(text) /\ Len(c) = Len(text)
                               /\ \A i \in 1..Len(text) : c[i] = Turned(text[i])
  BY CommaToPointAt
<1>2. DOMAIN c = 1..Len(text) /\ DOMAIN text = 1..Len(text) /\ Len(text) \in Nat
  BY <1>1
<1>3. ASSUME "nbsp" \in ToSet(text) PROVE "nbsp" \in ToSet(c)
  <2>1. PICK i \in 1..Len(text) : text[i] = "nbsp"
    BY <1>2, <1>3 DEF ToSet
  <2>2. c[i] = "nbsp"
    BY <1>1, <2>1 DEF Turned
  <2> QED
    BY <1>2, <2>2 DEF ToSet
<1>4. ASSUME "," \notin ToSet(text) PROVE c = text
  <2>1. \A i \in 1..Len(text) : text[i] # ","
    BY <1>2, <1>4 DEF ToSet
  <2>2. \A i \in 1..Len(text) : c[i] = text[i]
    BY <1>1, <2>1 DEF Turned
  <2> QED
    BY <1>1, <2>2, SeqEqual
<1>5. ASSUME NEW t \in Tokens PROVE CommaToPoint(Append(text, t)) = Append(c, Turned(t))
  <2>1. PICK e \in Tokens : e = Turned(t)
    BY TurnedType
  <2>2. PICK u \in Seq(Tokens) : /\ u = Append(text, t) /\ Len(u) = Len(text) + 1
                                 /\ u[Len(text) + 1] = t
                                 /\ \A i \in 1..Len(text) : u[i] = text[i]
    <3>1. Append(text, t) \in Seq(Tokens) /\ Len(Append(text, t)) = Len(text) + 1
          /\ Append(text, t)[Len(text) + 1] = t
          /\ \A i \in 1..Len(text) : Append(text, t)[i] = text[i]
      OBVIOUS
    <3> QED
      BY <3>1
  <2>3. PICK v \in Seq(Tokens) : /\ v = Append(c, e) /\ Len(v) = Len(text) + 1
                                 /\ v[Len(text) + 1] = e
                                 /\ \A i \in 1..Len(text) : v[i] = c[i]
    <3>1. Append(c, e) \in Seq(Tokens) /\ Len(Append(c, e)) = Len(c) + 1
          /\ Append(c, e)[Len(c) + 1] = e
          /\ \A i \in 1..Len(c) : Append(c, e)[i] = c[i]
      OBVIOUS
    <3> QED
      BY <1>1, <3>1
  <2>4. PICK w \in Seq(Tokens) : /\ w = CommaToPoint(u) /\ Len(w) = Len(u)
                                 /\ \A i \in 1..Len(u) : w[i] = Turned(u[i])
    BY CommaToPointAt
  <2>5. ASSUME NEW i \in 1..Len(w) PROVE w[i] = v[i]
    <3>1. CASE i \in 1..Len(text)
      <4>1. w[i] = Turned(u[i]) /\ u[i] = text[i]
        <5>1. i \in 1..Len(u)
          BY <2>4
        <5> QED
          BY <2>2, <2>4, <3>1, <5>1
      <4> QED
        BY <1>1, <2>3, <3>1, <4>1
    <3>2. CASE i = Len(text) + 1
      <4>1. w[i] = Turned(u[i]) /\ u[i] = t
        BY <2>2, <2>4, <2>5, <3>2
      <4> QED
        BY <2>1, <2>3, <3>2, <4>1
    <3> QED
      BY <1>2, <2>2, <2>4, <3>1, <3>2
  <2>6. w = v
    BY <2>2, <2>3, <2>4, <2>5, SeqEqual
  <2> QED
    BY <2>1, <2>2, <2>3, <2>4, <2>6
<1> QED
  BY <1>1, <1>3, <1>4, <1>5

LEMMA FloatDigits ==
  ASSUME NEW text \in Seq(Tokens), ToSet(text) \subseteq Figures
  PROVE  Normalised(text) = text /\ Float(text) = [whole |-> Count(text), decimals |-> 0]
<1>1. ~Has(text, ",") /\ ~Has(text, ".") /\ ~Has(text, "nbsp")
  BY TokenKinds, HasIs
<1>2. Normalised(text) = text
  <2>1. Without(text, ",") = text
    BY <1>1, TokenKinds, HasIs, WithoutIs
  <2> QED
    BY <1>1, <2>1 DEF Normalised
<1>3. \A i \in 1..Len(text) : text[i] \notin {"."}
  <2>1. \A i \in DOMAIN text : text[i] # "."
    BY <1>1 DEF Has
  <2>2. DOMAIN text = 1..Len(text)
    OBVIOUS
  <2> QED
    BY <2>1, <2>2
<1>4. Within(text, {"."}) = <<>> /\ LastAt(text, ".") = 0
  BY <1>3, WithinNone, LastIs DEF LastAt
<1>5. ~(Len(Within(text, {"."})) > 1)
  BY <1>4
<1> QED
  BY <1>1, <1>2, <1>4, <1>5 DEF Float

LEMMA FloatNbsp ==
  ASSUME NEW text \in Seq(Tokens), "nbsp" \in ToSet(text)
  PROVE  Float(Normalised(text)) = Blank
<1>1. \A m \in {",", "."} : /\ Without(text, m) \in Seq(Tokens)
                            /\ "nbsp" \in ToSet(Without(text, m))
  <2> SUFFICES ASSUME NEW m \in {",", "."}
               PROVE  Without(text, m) \in Seq(Tokens) /\ "nbsp" \in ToSet(Without(text, m))
    OBVIOUS
  <2>1. m \in Marks /\ m # "nbsp"
    BY TokenKinds
  <2>2. Without(text, m) \in Seq(Tokens) /\ ToSet(Without(text, m)) = ToSet(text) \ {m}
    BY <2>1, WithoutIs
  <2> QED
    BY <2>1, <2>2
<1>2. \A u \in Seq(Tokens) : "nbsp" \in ToSet(u) =>
         CommaToPoint(u) \in Seq(Tokens) /\ "nbsp" \in ToSet(CommaToPoint(u))
  BY CommaToPointIs
<1>3. \/ Normalised(text) = CommaToPoint(Without(text, "."))
      \/ Normalised(text) = Without(text, ",")
      \/ Normalised(text) = CommaToPoint(text)
  BY DEF Normalised
<1>4. Normalised(text) \in Seq(Tokens) /\ "nbsp" \in ToSet(Normalised(text))
  BY <1>1, <1>2, <1>3
<1>5. Has(Normalised(text), "nbsp")
  BY <1>4, HasIs
<1> QED
  BY <1>5 DEF Float

\* Two elements appended.
LEMMA TwoMore ==
  ASSUME NEW V, NEW a \in Seq(V), NEW m \in V, NEW e \in V
  PROVE  LET u == Append(Append(a, m), e)
         IN  /\ u \in Seq(V) /\ Len(u) = Len(a) + 2 /\ Len(a) \in Nat
             /\ u[Len(a) + 1] = m /\ u[Len(a) + 2] = e /\ \A i \in 1..Len(a) : u[i] = a[i]
             /\ SubSeq(u, 1, Len(a) + 1) = Append(a, m)
             /\ SubSeq(u, Len(a) + 2, Len(u)) = Append(<<>>, e)
             /\ ToSet(u) = ToSet(a) \cup {m, e}
<1> DEFINE b == Append(a, m)
           u == Append(b, e)
<1>1. b \in Seq(V) /\ Len(b) = Len(a) + 1 /\ b[Len(a) + 1] = m
      /\ \A i \in 1..Len(a) : b[i] = a[i]
  OBVIOUS
<1>2. ToSet(b) = ToSet(a) \cup {m}
  BY MembersAppend
<1> HIDE DEF b
<1>3. u \in Seq(V) /\ Len(u) = Len(a) + 2 /\ Len(a) \in Nat /\ u[Len(a) + 2] = e
      /\ \A i \in 1..Len(a) + 1 : u[i] = b[i]
  BY <1>1
<1>4. ToSet(u) = ToSet(b) \cup {e}
  BY <1>1, MembersAppend
<1> HIDE DEF u
<1>5. SubSeq(u, 1, Len(a) + 1) = b
  BY <1>1, <1>3
<1>6. SubSeq(u, Len(a) + 2, Len(u)) = Append(<<>>, e)
  <2>1. Append(<<>>, e) = <<e>>
    OBVIOUS
  <2>2. Len(u) \in DOMAIN u
    BY <1>3
  <2>3. SubSeq(u, Len(a) + 2, Len(a) + 2) = <<u[Len(a) + 2]>>
    <3>1. Len(a) + 2 \in 1..Len(u)
      BY <1>3
    <3> QED
      BY <1>3, <3>1, PieceOfOne
  <2> QED
    BY <1>3, <2>1, <2>3
<1> QED
  BY <1>1, <1>2, <1>3, <1>4, <1>5, <1>6 DEF u, b

(* What a text keeps of a mark its figures are free of, when the mark and one   *)
(* other token end it: the mark alone.                                          *)
LEMMA OneMark ==
  ASSUME NEW V, NEW a \in Seq(V), NEW m \in V, NEW e \in V, m # e,
         \A i \in 1..Len(a) : a[i] # m
  PROVE  Within(Append(Append(a, m), e), {m}) = Append(<<>>, m)
<1> DEFINE b == Append(a, m)
           S == {m}
<1>1. m \in S /\ e \notin S /\ (\A i \in 1..Len(a) : a[i] \notin S) /\ b \in Seq(V)
  OBVIOUS
<1> HIDE DEF S
<1>2. Within(a, S) = <<>>
  BY <1>1, WithinNone
<1>3. Within(b, S) = Append(<<>>, m)
  BY <1>1, <1>2, WithinAppend
<1> HIDE DEF b
<1>4. Within(Append(b, e), S) = Within(b, S)
  BY <1>1, WithinAppend
<1> QED
  BY <1>3, <1>4 DEF b, S

LEMMA FloatCents ==
  ASSUME NEW a \in Seq(Tokens), ToSet(a) \subseteq Figures
  PROVE  Float(Append(Append(a, "."), "dd")) = [whole |-> Count(a), decimals |-> 2]
<1> DEFINE u == Append(Append(a, "."), "dd")
           n == Len(a)
<1>1. /\ u \in Seq(Tokens) /\ Len(u) = n + 2 /\ n \in Nat
      /\ u[n + 1] = "." /\ u[n + 2] = "dd" /\ \A i \in 1..n : u[i] = a[i]
      /\ SubSeq(u, 1, n + 1) = Append(a, ".")
      /\ SubSeq(u, n + 2, Len(u)) = Append(<<>>, "dd")
      /\ ToSet(u) = ToSet(a) \cup {".", "dd"}
  <2>1. "." \in Tokens /\ "dd" \in Tokens
    BY Separate
  <2> QED
    BY <2>1, TwoMore
<1>2. \A i \in 1..n : u[i] # "."
  <2>1. \A i \in 1..n : a[i] \in ToSet(a)
    BY DEF ToSet
  <2> QED
    BY <1>1, <2>1, TokenKinds
<1>3. Within(u, {"."}) = Append(<<>>, ".")
  <2>1. "." \in Tokens /\ "dd" \in Tokens /\ "." # "dd"
    BY Separate
  <2>2. \A i \in 1..Len(a) : a[i] # "."
    BY <1>1, <1>2
  <2> QED
    BY <2>1, <2>2, OneMark
<1> HIDE DEF u
<1>4. LastAt(u, ".") = n + 1
  <2> DEFINE l == LastOf(u, {"."})
  <2>1. l \in 0..n + 2 /\ n + 1 <= l /\ u[l] \in {"."}
    BY <1>1, LastIs
  <2>2. l = n + 1
    BY <1>1, <2>1
  <2> QED
    BY <2>2 DEF LastAt
<1>5. ~Has(u, "nbsp")
  BY <1>1, TokenKinds, HasIs
<1>6. Count(Append(a, ".")) = Count(a) /\ Count(Append(<<>>, "dd")) = 2
  <2>1. Count(a) \in Nat /\ Count(Append(a, ".")) = Count(a) + Value(".") /\ Value(".") = 0
    <3>1. "." \in Tokens /\ Value(".") = 0
      BY TokenKinds
    <3> QED
      BY <3>1, CountAppend
  <2>2. <<>> \in Seq(Tokens)
    OBVIOUS
  <2>3. Count(Append(<<>>, "dd")) = Count(<<>>) + Value("dd") /\ Value("dd") = 2
    <3>1. "dd" \in Tokens /\ Value("dd") = 2
      BY TokenKinds
    <3> QED
      BY <2>2, <3>1, CountAppend
  <2> QED
    BY <2>1, <2>3, CountEmpty
<1>7. After(u, n + 1) = Append(<<>>, "dd")
  BY <1>1 DEF After
<1>8. ~(Len(Within(u, {"."})) > 1) /\ n + 1 # 0
  <2>1. <<>> \in Seq({"."}) /\ Len(<<>>) = 0
    OBVIOUS
  <2>2. Len(Append(<<>>, ".")) = 1
    BY <2>1
  <2>3. n + 1 # 0
    BY <1>1
  <2>4. Len(Within(u, {"."})) = 1
    BY <1>3, <2>2
  <2>5. ~(1 > 1)
    OBVIOUS
  <2> QED
    BY <2>3, <2>4, <2>5, Zenon
<1>9. Float(u) = [whole |-> Count(SubSeq(u, 1, n + 1)), decimals |-> Count(After(u, n + 1))]
  BY <1>4, <1>5, <1>8 DEF Float
<1> QED
  BY <1>1, <1>6, <1>7, <1>9 DEF u

\* The marks by name.
Comma == ","
Point == "."
Space == " "
Hard == "nbsp"
Cents == "dd"
Decimal == {Comma, Point}

LEMMA Names ==
  /\ Comma \in Marks /\ Point \in Marks /\ Space \in Marks /\ Hard \in Marks
  /\ Comma \in Tokens /\ Point \in Tokens /\ Cents \in Tokens
  /\ Comma # Point /\ Comma # Space /\ Point # Space /\ Comma # Hard /\ Point # Hard
  /\ Cents \notin Marks /\ Value(Cents) = 2
  /\ Comma \notin Figures /\ Point \notin Figures /\ Hard \notin Figures
  /\ \A m \in Marks : m = Comma \/ m = Point \/ m = Space \/ m = Hard
BY TokenKinds DEF Comma, Point, Space, Hard, Cents

LEMMA WithoutTwo ==
  ASSUME NEW a \in Seq(Tokens), NEW mark \in Marks,
         NEW m \in Tokens, m # mark, NEW e \in Tokens, e # mark
  PROVE  Without(Append(Append(a, m), e), mark) = Append(Append(Without(a, mark), m), e)
<1>1. Append(a, m) \in Seq(Tokens)
  OBVIOUS
<1>2. Without(Append(a, m), mark) = Append(Without(a, mark), m)
  BY WithoutIs
<1>3. Without(Append(Append(a, m), e), mark) = Append(Without(Append(a, m), mark), e)
  BY <1>1, WithoutIs
<1> QED
  BY <1>2, <1>3

LEMMA PointForComma ==
  ASSUME NEW a \in Seq(Tokens), ToSet(a) \subseteq Figures
  PROVE  CommaToPoint(Append(Append(a, Comma), Cents)) = Append(Append(a, Point), Cents)
<1>1. "," \notin ToSet(a)
  BY TokenKinds
<1>2. CommaToPoint(a) = a
  BY <1>1, CommaToPointIs
<1>3. Turned(Comma) = Point /\ Turned(Cents) = Cents
  BY DEF Turned, Comma, Point, Cents
<1>4. Comma \in Tokens /\ Cents \in Tokens
  BY Names
<1>5. Append(a, Comma) \in Seq(Tokens)
  BY <1>4
<1>6. CommaToPoint(Append(a, Comma)) = Append(a, Point)
  BY <1>2, <1>3, <1>4, CommaToPointIs
<1>7. CommaToPoint(Append(Append(a, Comma), Cents)) = Append(Append(a, Point), Cents)
  BY <1>3, <1>4, <1>5, <1>6, CommaToPointIs
<1> QED
  BY <1>7

\* Where a mark stands before two last digits and nowhere else, it is the last one.
LEMMA LastMark ==
  ASSUME NEW b \in Seq(Tokens), NEW m \in Marks, NEW u, u = Append(Append(b, m), Cents)
  PROVE  /\ u \in Seq(Tokens) /\ ToSet(u) = ToSet(b) \cup {m, Cents}
         /\ LastAt(u, m) = Len(b) + 1 /\ Len(b) \in Nat
         /\ After(u, Len(b) + 1) = Append(<<>>, Cents)
         /\ \A n \in Marks : n # m => LastAt(u, n) \in Nat /\ LastAt(u, n) <= Len(b)
<1>1. m \in Tokens /\ Cents \in Tokens /\ Cents \notin Marks
  BY Names DEF Tokens
<1>2. /\ u \in Seq(Tokens) /\ Len(u) = Len(b) + 2 /\ Len(b) \in Nat
      /\ u[Len(b) + 1] = m /\ u[Len(b) + 2] = Cents /\ \A i \in 1..Len(b) : u[i] = b[i]
      /\ SubSeq(u, Len(b) + 2, Len(u)) = Append(<<>>, Cents)
      /\ ToSet(u) = ToSet(b) \cup {m, Cents}
  BY <1>1, TwoMore
<1>3. m # Cents
  BY <1>1
<1>4. LastAt(u, m) = Len(b) + 1
  <2> DEFINE l == LastOf(u, {m})
  <2>1. Len(b) + 1 \in 1..Len(u) /\ u[Len(b) + 1] \in {m}
    BY <1>2
  <2>2. l \in 0..Len(u) /\ Len(b) + 1 <= l /\ u[l] \in {m}
    BY <1>2, <2>1, LastIs
  <2> HIDE DEF l
  <2>3. l = Len(b) + 1
    BY <1>2, <1>3, <2>2
  <2> QED
    BY <2>3 DEF LastAt, l
<1>5. After(u, Len(b) + 1) = Append(<<>>, Cents)
  <2>1. Len(b) + 1 + 1 = Len(b) + 2
    BY <1>2
  <2> QED
    BY <1>2, <2>1 DEF After
<1>6. ASSUME NEW n \in Marks, n # m PROVE LastAt(u, n) \in Nat /\ LastAt(u, n) <= Len(b)
  <2> DEFINE l == LastOf(u, {n})
  <2>1. /\ l \in 0..Len(u)
        /\ \A i \in 1..Len(u) : u[i] \in {n} => i <= l /\ u[l] \in {n}
        /\ (\A i \in 1..Len(u) : u[i] \notin {n}) => l = 0
    BY <1>2, LastIs
  <2> HIDE DEF l
  <2>2. n # Cents
    BY <1>1
  <2>3. l = 0 \/ u[l] = n
    BY <2>1
  <2>4. l \in Nat /\ l <= Len(b)
    BY <1>2, <1>6, <2>1, <2>2, <2>3
  <2> QED
    BY <2>4 DEF LastAt, l
<1> QED
  BY <1>2, <1>4, <1>5, <1>6

\* The width of the cents.
LEMMA CentsAreTwo ==
  /\ Count(Append(<<>>, Cents)) = 2
  /\ Within(Append(<<>>, Cents), Marks) = <<>>
<1>1. <<>> \in Seq(Tokens)
  OBVIOUS
<1>2. Cents \in Tokens /\ Cents \notin Marks /\ Value(Cents) = 2
  BY Names
<1>3. Count(Append(<<>>, Cents)) = Count(<<>>) + Value(Cents)
  BY <1>1, <1>2, CountAppend
<1>4. Within(Append(<<>>, Cents), Marks) = Within(<<>>, Marks)
  BY <1>1, <1>2, WithinAppend
<1> QED
  BY <1>2, <1>3, <1>4, CountEmpty, WithinEmpty

\* White space between the digits is dropped, but for the kind that float() refuses.
LEMMA CentsRead ==
  ASSUME NEW a \in Seq(Tokens), NEW m \in Decimal, NEW n \in Marks, n # m,
         ToSet(a) \subseteq Figures \cup {n}
  PROVE  Float(Normalised(Without(Append(Append(a, m), Cents), Space)))
           \in {[whole |-> Count(a), decimals |-> 2], Blank}
<1> DEFINE b == Without(a, Space)
           u == Append(Append(b, m), Cents)
<1>1. m \in Marks /\ m # Space /\ m # Hard /\ m \in Tokens
  BY Names DEF Decimal
<1>2. b \in Seq(Tokens) /\ ToSet(b) = ToSet(a) \ {Space} /\ Count(b) = Count(a)
  BY Names, WithoutIs
<1>3. Without(Append(Append(a, m), Cents), Space) = u
  BY <1>1, Names, WithoutTwo
<1> HIDE DEF b
<1>4. u \in Seq(Tokens) /\ ToSet(u) = ToSet(b) \cup {m, Cents}
      /\ LastAt(u, m) = Len(b) + 1 /\ Len(b) \in Nat
      /\ After(u, Len(b) + 1) = Append(<<>>, Cents)
      /\ \A x \in Marks : x # m => LastAt(u, x) \in Nat /\ LastAt(u, x) <= Len(b)
  BY <1>1, <1>2, LastMark
<1>5. ASSUME NEW x \in Marks, x # m PROVE Without(u, x) = Append(Append(Without(b, x), m), Cents)
  <2>1. Cents \in Tokens /\ Cents # x
    BY Names
  <2> QED
    BY <1>1, <1>2, <1>5, <2>1, WithoutTwo
<1>6. \A x \in Marks : Has(u, x) <=> x \in ToSet(b) \/ x = m
  <2>1. \A x : Has(u, x) <=> x \in ToSet(u)
    <3> HIDE DEF u
    <3> QED
      BY <1>4, HasIs
  <2> HIDE DEF u
  <2> QED
    BY <1>4, <2>1, Names
\* Dropping the other mark, or one that is not there, leaves the digits.
<1>7. ASSUME NEW x \in Marks, ToSet(b) \subseteq Figures \cup {x}
      PROVE  /\ Without(b, x) \in Seq(Tokens) /\ ToSet(Without(b, x)) \subseteq Figures
             /\ Float(Append(Append(Without(b, x), Point), Cents))
                  = [whole |-> Count(a), decimals |-> 2]
  <2>1. /\ Without(b, x) \in Seq(Tokens) /\ ToSet(Without(b, x)) = ToSet(b) \ {x}
        /\ Count(Without(b, x)) = Count(a)
    BY <1>2, WithoutIs
  <2>2. ToSet(Without(b, x)) \subseteq Figures
    BY <1>7, <2>1
  <2> QED
    BY <2>1, <2>2, FloatCents DEF Point, Cents
<1>8. CASE Hard \in ToSet(b)
  <2>1. "nbsp" \in ToSet(u)
    BY <1>4, <1>8 DEF Hard
  <2>2. Float(Normalised(u)) = Blank
    <3> HIDE DEF u
    <3> QED
      BY <1>4, <2>1, FloatNbsp
  <2> QED
    BY <1>3, <2>2
<1>9. Normalised(u) =
        IF Has(u, Comma) /\ Has(u, Point)
        THEN IF LastAt(u, Comma) > LastAt(u, Point)
             THEN CommaToPoint(Without(u, Point)) ELSE Without(u, Comma)
        ELSE IF Has(u, Comma) /\ WidthAfterComma(u) = 2
             THEN CommaToPoint(u) ELSE Without(u, Comma)
  <2> HIDE DEF u
  <2> QED
    BY DEF Normalised, Comma, Point
<1>10. m = Comma => WidthAfterComma(u) = 2
  <2> SUFFICES ASSUME m = Comma PROVE WidthAfterComma(u) = 2
    OBVIOUS
  <2> HIDE DEF u
  <2>1. WidthAfterComma(u) = Count(Append(<<>>, Cents)) + Len(Within(Append(<<>>, Cents), Marks))
    BY <1>4 DEF WidthAfterComma, Comma
  <2>2. Len(<<>>) = 0
    OBVIOUS
  <2> QED
    BY <2>1, <2>2, CentsAreTwo
\* No other mark.
<1>11. CASE ToSet(b) \subseteq Figures
  <2>1. Comma \notin ToSet(b) /\ Point \notin ToSet(b)
    BY <1>11, Names
  <2>2. Without(b, Comma) = b
    BY <1>2, <2>1, Names, WithoutIs
  <2>3. Float(Append(Append(b, Point), Cents)) = [whole |-> Count(a), decimals |-> 2]
    BY <1>7, <1>11, <2>2, Names
  <2>4. CASE m = Point
    <3>1. ~Has(u, Comma)
      BY <1>6, <2>1, <2>4, Names
    <3>2. Normalised(u) = Without(u, Comma)
      BY <1>9, <3>1, Zenon
    <3>3. Without(u, Comma) = u
      BY <1>5, <2>2, <2>4, Names
    <3> QED
      BY <1>3, <2>3, <2>4, <3>2, <3>3
  <2>5. CASE m = Comma
    <3>1. Has(u, Comma) /\ ~Has(u, Point)
      BY <1>6, <2>1, <2>5, Names
    <3>2. Normalised(u) = CommaToPoint(u)
      BY <1>9, <1>10, <2>5, <3>1, Zenon
    <3>3. CommaToPoint(u) = Append(Append(b, Point), Cents)
      BY <1>2, <1>11, <2>5, PointForComma
    <3> QED
      BY <1>3, <2>3, <3>2, <3>3
  <2> QED
    BY <2>4, <2>5 DEF Decimal
\* The other mark is a comma or a point, and comes before.
<1>12. CASE Hard \notin ToSet(b) /\ ~(ToSet(b) \subseteq Figures)
  <2>1. n \in ToSet(b) /\ ToSet(b) \subseteq Figures \cup {n}
    BY <1>2, <1>12
  <2>2. n # Space /\ n # Hard
    BY <1>2, <1>12, <2>1
  <2>3. Has(u, n) /\ Has(u, m) /\ LastAt(u, n) < LastAt(u, m) /\ ~(LastAt(u, n) > LastAt(u, m))
    <3>1. Has(u, n) /\ Has(u, m)
      BY <1>1, <1>6, <2>1
    <3> HIDE DEF u
    <3>2. LastAt(u, n) \in Nat /\ LastAt(u, n) <= Len(b) /\ LastAt(u, m) = Len(b) + 1
      BY <1>4
    <3> QED
      BY <1>4, <3>1, <3>2
  <2>4. /\ Without(b, n) \in Seq(Tokens) /\ ToSet(Without(b, n)) \subseteq Figures
        /\ Float(Append(Append(Without(b, n), Point), Cents))
             = [whole |-> Count(a), decimals |-> 2]
    BY <1>7, <2>1
  <2>5. Without(u, n) = Append(Append(Without(b, n), m), Cents)
    BY <1>5
  <2>6. CASE m = Comma
    <3>1. n = Point
      BY <2>2, <2>6, Names
    <3>2. LastAt(u, Comma) > LastAt(u, Point)
      <4> HIDE DEF u
      <4>1. LastAt(u, n) \in Nat /\ LastAt(u, m) \in Nat
        BY <1>4
      <4> QED
        BY <2>3, <2>6, <3>1, <4>1
    <3>3. Normalised(u) = CommaToPoint(Without(u, n))
      BY <1>9, <2>3, <2>6, <3>1, <3>2, Zenon
    <3>4. CommaToPoint(Without(u, n)) = Append(Append(Without(b, n), Point), Cents)
      BY <2>4, <2>5, <2>6, PointForComma
    <3> QED
      BY <1>3, <2>4, <3>3, <3>4
  <2>7. CASE m = Point
    <3>1. n = Comma
      BY <2>2, <2>7, Names
    <3>2. Normalised(u) = Without(u, n)
      BY <1>9, <2>3, <2>7, <3>1, Zenon
    <3> QED
      BY <1>3, <2>4, <2>5, <2>7, <3>2
  <2> QED
    BY <2>6, <2>7 DEF Decimal
<1> QED
  BY <1>8, <1>11, <1>12

-----------------------------------------------------------------------------
\* An amount, with a mark between its groups of three digits or without.
LEMMA AmountMembers ==
  ASSUME NEW t \in Seq(Tokens), NEW mark, Amount(t, mark)
  PROVE  ToSet(t) \subseteq Figures \cup {mark}
BY DEF Amount, Grouped, Plain, ToSet, Figures

\* A mark that stands in an amount has groups of three digits behind it.
LEMMA GroupedEnds ==
  ASSUME NEW t \in Seq(Tokens), NEW mark \in Marks, Amount(t, mark), mark \in ToSet(t)
  PROVE  /\ Grouped(t, mark) /\ Len(t) \in Nat /\ Len(t) >= 3 /\ Len(t) % 2 = 1
         /\ t[Len(t)] = "ddd" /\ t[Len(t) - 1] = mark
         /\ t[2] = mark /\ (Len(t) # 3 => Len(t) >= 5 /\ t[4] = mark)
<1>1. DOMAIN t = 1..Len(t) /\ Len(t) \in Nat
  OBVIOUS
<1>2. PICK i \in 1..Len(t) : t[i] = mark
  BY <1>1 DEF ToSet
<1>3. mark \notin DOMAIN Digits
  BY TokenKinds DEF Figures
<1>4. Grouped(t, mark)
  BY <1>1, <1>2, <1>3 DEF Amount, Plain
<1>5. /\ \A k \in 1..Len(t) : k % 2 # 1 => t[k] = mark
      /\ \A k \in 1..Len(t) : k % 2 = 1 => t[k] \in DOMAIN Digits
      /\ \A k \in 1..Len(t) : k % 2 = 1 /\ k > 1 => t[k] = "ddd"
      /\ Len(t) % 2 = 1
  BY <1>1, <1>4 DEF Grouped
<1>6. i % 2 # 1
  BY <1>2, <1>3, <1>5
<1>7. Len(t) >= 3
  BY <1>1, <1>2, <1>5, <1>6
<1>8. t[Len(t)] = "ddd"
  <2>1. Len(t) \in 1..Len(t) /\ Len(t) > 1
    BY <1>1, <1>7
  <2> QED
    BY <1>5, <2>1
<1>9. t[Len(t) - 1] = mark /\ t[2] = mark
  <2>1. Len(t) - 1 \in 1..Len(t) /\ 2 \in 1..Len(t) /\ (Len(t) - 1) % 2 # 1 /\ 2 % 2 # 1
    BY <1>1, <1>5, <1>7
  <2> QED
    BY <1>5, <2>1
<1>10. ASSUME Len(t) # 3 PROVE Len(t) >= 5 /\ t[4] = mark
  <2>1. Len(t) >= 5
    BY <1>1, <1>5, <1>7, <1>10
  <2>2. 4 \in 1..Len(t) /\ 4 % 2 # 1
    BY <1>1, <2>1
  <2> QED
    BY <1>5, <2>1, <2>2
<1> QED
  BY <1>1, <1>4, <1>5, <1>7, <1>8, <1>9, <1>10

LEMMA AmountRead ==
  ASSUME NEW t \in Seq(Tokens), NEW mark \in Marks, Amount(t, mark), ~LonePoint(t)
  PROVE  Float(Normalised(Without(t, Space))) \in {[whole |-> Count(t), decimals |-> 0], Blank}
<1> DEFINE s == Without(t, Space)
<1>1. /\ s \in Seq(Tokens) /\ ToSet(s) = ToSet(t) \ {Space} /\ Count(s) = Count(t)
      /\ Space \notin ToSet(t) => s = t
  BY Names, WithoutIs
<1>2. ToSet(t) \subseteq Figures \cup {mark}
  BY AmountMembers
<1> HIDE DEF s
<1>3. CASE ToSet(s) \subseteq Figures
  <2>1. Float(Normalised(s)) = [whole |-> Count(t), decimals |-> 0]
    BY <1>1, <1>3, FloatDigits
  <2> QED
    BY <2>1 DEF s
<1>4. CASE ~(ToSet(s) \subseteq Figures)
  <2>1. mark \in ToSet(t) /\ mark # Space
    BY <1>1, <1>2, <1>4
  <2>2. s = t
    <3>1. Space \notin ToSet(t)
      BY <1>2, <2>1, TokenKinds DEF Space
    <3> QED
      BY <1>1, <3>1
  <2>3. /\ Grouped(t, mark) /\ Len(t) \in Nat /\ Len(t) >= 3
        /\ t[Len(t)] = "ddd" /\ t[Len(t) - 1] = mark
        /\ t[2] = mark /\ (Len(t) # 3 => Len(t) >= 5 /\ t[4] = mark)
    BY <2>1, GroupedEnds
  <2>4. CASE mark = Hard
    <3>1. Float(Normalised(t)) = Blank
      BY <2>1, <2>4, FloatNbsp DEF Hard
    <3> QED
      BY <2>2, <3>1 DEF s
  <2>5. CASE mark = Comma
    <3>1. Has(t, ",") /\ ~Has(t, ".")
      <4>1. "," \in ToSet(t) /\ "." \notin ToSet(t)
        BY <1>2, <2>1, <2>5, TokenKinds DEF Comma
      <4> QED
        BY <4>1, HasIs
    <3>2. LastAt(t, ",") = Len(t) - 1
      <4> DEFINE l == LastOf(t, {","})
      <4>1. Len(t) - 1 \in 1..Len(t) /\ t[Len(t) - 1] \in {","}
        <5>1. Len(t) - 1 \in 1..Len(t)
          BY <2>3
        <5>2. t[Len(t) - 1] = ","
          BY <2>3, <2>5 DEF Comma
        <5> QED
          BY <5>1, <5>2
      <4>2. l \in 0..Len(t) /\ Len(t) - 1 <= l /\ t[l] \in {","}
        BY <4>1, LastIs
      <4> HIDE DEF l
      <4>3. l # Len(t)
        BY <2>3, <4>2
      <4>4. l = Len(t) - 1
        <5>1. l \in 0..Len(t) /\ Len(t) - 1 <= l
          BY <4>2, Zenon
        <5> QED
          BY <2>3, <4>3, <5>1
      <4> QED
        BY <4>4 DEF LastAt, l
    <3>3. After(t, LastAt(t, ",")) = Append(<<>>, "ddd")
      <4>1. Len(t) - 1 + 1 = Len(t) /\ Len(t) \in 1..Len(t)
        BY <2>3
      <4>2. SubSeq(t, Len(t), Len(t)) = <<t[Len(t)]>>
        BY <4>1, PieceOfOne
      <4>3. Append(<<>>, "ddd") = <<"ddd">>
        OBVIOUS
      <4> QED
        BY <2>3, <3>2, <4>1, <4>2, <4>3 DEF After
    <3>4. WidthAfterComma(t) = 3
      <4>1. <<>> \in Seq(Tokens) /\ Len(<<>>) = 0
        OBVIOUS
      <4>2. "ddd" \in Tokens /\ "ddd" \notin Marks /\ Value("ddd") = 3
        BY TokenKinds
      <4>3. Count(Append(<<>>, "ddd")) = Count(<<>>) + Value("ddd")
        BY <4>1, <4>2, CountAppend
      <4>4. Within(Append(<<>>, "ddd"), Marks) = Within(<<>>, Marks)
        BY <4>1, <4>2, WithinAppend
      <4>5. Count(Append(<<>>, "ddd")) = 3 /\ Within(Append(<<>>, "ddd"), Marks) = <<>>
        BY <4>2, <4>3, <4>4, CountEmpty, WithinEmpty
      <4>6. WidthAfterComma(t) = 3 + Len(<<>>)
        BY <3>3, <4>5 DEF WidthAfterComma
      <4> QED
        BY <4>1, <4>6
    <3>5. Normalised(t) = Without(t, ",")
      <4>1. WidthAfterComma(t) # 2
        BY <3>4
      <4> QED
        BY <3>1, <4>1 DEF Normalised
    <3>6. /\ Without(t, ",") \in Seq(Tokens) /\ ToSet(Without(t, ",")) = ToSet(t) \ {","}
          /\ Count(Without(t, ",")) = Count(t)
      <4>1. "," \in Marks
        BY TokenKinds
      <4> QED
        BY <4>1, WithoutIs
    <3>7. ToSet(Without(t, ",")) \subseteq Figures
      BY <1>2, <2>5, <3>6 DEF Comma
    <3>8. Float(Without(t, ",")) = [whole |-> Count(t), decimals |-> 0]
      BY <3>6, <3>7, FloatDigits
    <3> QED
      BY <2>2, <3>5, <3>8 DEF s
  <2>6. CASE mark = Point
    <3>1. ~Has(t, ",")
      <4>1. "," \notin ToSet(t)
        BY <1>2, <2>6, TokenKinds DEF Point
      <4> QED
        BY <4>1, HasIs
    <3>2. Normalised(t) = t
      <4>1. Without(t, ",") = t
        BY <3>1, TokenKinds, HasIs, WithoutIs
      <4> QED
        BY <3>1, <4>1 DEF Normalised
    <3>3. Len(t) # 3
      BY <2>3, <2>6 DEF LonePoint, Point
    <3>4. Len(Within(t, {"."})) > 1
      <4>1. 2 \in 1..Len(t) /\ 4 \in 1..Len(t) /\ t[2] \in {"."} /\ t[4] \in {"."}
        BY <2>3, <2>6, <3>3 DEF Point
      <4> QED
        BY <4>1, WithinTwo
    <3>5. Float(t) = Blank
      BY <3>4 DEF Float
    <3> QED
      BY <2>2, <3>2, <3>5 DEF s
  <2> QED
    BY <2>1, <2>4, <2>5, <2>6, Names
<1> QED
  BY <1>3, <1>4

\* Whatever the price text, and however long.
LEMMA PriceReadAsWritten == ASSUME NEW text \in Seq(Tokens) PROVE ReadAsWritten(text)
<1> DEFINE t == Trimmed(text)
           number == Float(Normalised(Without(t, Space)))
<1>1. t \in Seq(Tokens)
  <2>1. LastOf(text, Tokens \ {" ", "nbsp"}) \in 0..Len(text)
    BY LastIs
  <2>2. \A l \in 0..Len(text) : SubSeq(text, 1, l) \in Seq(Tokens)
    OBVIOUS
  <2> QED
    BY <2>1, <2>2 DEF Trimmed
<1>2. ParsePrice(text) = number
  BY DEF ParsePrice, Stripped, Trimmed, Space
<1> HIDE DEF t
<1>3. SUFFICES ASSUME Written(t) # {}, ~LonePoint(t)
               PROVE  number \in Written(t) \cup {Blank}
  BY <1>2 DEF ReadAsWritten, t
<1> DEFINE n == Len(t)
           Whole == {[whole |-> Count(t), decimals |-> 0] : mark \in {m \in Marks : Amount(t, m)}}
           Pairs == {m \in Marks \X {",", "."} :
                       /\ m[1] # m[2] /\ n > 2
                       /\ t[n] = "dd" /\ t[n - 1] = m[2]
                       /\ Amount(SubSeq(t, 1, n - 2), m[1])}
           Parts == {[whole |-> Count(t) - 2, decimals |-> 2] : marks \in Pairs}
<1>4. Written(t) = Whole \cup Parts
  BY DEF Written
<1>5. CASE Whole # {}
  <2>1. PICK mark \in Marks : Amount(t, mark)
    BY <1>5
  <2>2. [whole |-> Count(t), decimals |-> 0] \in Whole
    BY <2>1
  <2> HIDE DEF Whole, Parts
  <2>3. number \in {[whole |-> Count(t), decimals |-> 0], Blank}
    BY <1>1, <1>3, <2>1, AmountRead
  <2> QED
    BY <1>4, <2>2, <2>3
<1>6. CASE Parts # {}
  <2>1. PICK p \in Pairs : TRUE
    BY <1>6
  <2> DEFINE a == SubSeq(t, 1, n - 2)
  <2>2. /\ p[1] \in Marks /\ p[2] \in Decimal /\ p[1] # p[2] /\ n > 2
        /\ t[n] = Cents /\ t[n - 1] = p[2] /\ Amount(a, p[1])
    BY <2>1 DEF Decimal, Comma, Point, Cents
  <2>3. [whole |-> Count(t) - 2, decimals |-> 2] \in Parts
    BY <2>1
  <2> HIDE DEF Whole, Parts, Pairs
  <2>4. PICK x \in Tokens, y \in Tokens : x = p[2] /\ y = Cents
    <3>1. p[2] \in Tokens /\ Cents \in Tokens
      BY <2>2, Names DEF Decimal
    <3> QED
      BY <3>1
  <2>5. a \in Seq(Tokens) /\ t = Append(Append(a, x), y)
    <3>1. n \in Nat
      BY <1>1
    <3>2. a \in Seq(Tokens) /\ Len(a) = n - 2 /\ \A i \in 1..n - 2 : a[i] = t[i]
      BY <1>1, <2>2, <3>1
    <3> HIDE DEF a
    <3>3. PICK u \in Seq(Tokens) : /\ u = Append(Append(a, x), y) /\ Len(u) = Len(a) + 2
                                   /\ u[Len(a) + 1] = x /\ u[Len(a) + 2] = y
                                   /\ \A i \in 1..Len(a) : u[i] = a[i]
      <4>1. LET v == Append(Append(a, x), y)
            IN  /\ v \in Seq(Tokens) /\ Len(v) = Len(a) + 2
                /\ v[Len(a) + 1] = x /\ v[Len(a) + 2] = y
                /\ \A i \in 1..Len(a) : v[i] = a[i]
        BY <3>2, TwoMore
      <4> QED
        BY <4>1
    <3>4. Len(t) = Len(u) /\ \A i \in 1..Len(t) : t[i] = u[i]
      <4>1. Len(a) + 1 = n - 1 /\ Len(a) + 2 = n
        BY <3>1, <3>2
      <4>2. \A i \in 1..n : i \in 1..n - 2 \/ i = n - 1 \/ i = n
        BY <3>1
      <4> QED
        BY <2>2, <2>4, <3>2, <3>3, <4>1, <4>2
    <3> QED
      BY <1>1, <3>2, <3>3, <3>4, SeqEqual
  <2> HIDE DEF a
  <2>6. ToSet(a) \subseteq Figures \cup {p[1]}
    BY <2>2, <2>5, AmountMembers
  <2>7. number \in {[whole |-> Count(a), decimals |-> 2], Blank}
    BY <2>2, <2>4, <2>5, <2>6, CentsRead
  <2>8. Count(t) - 2 = Count(a)
    <3>1. Append(a, x) \in Seq(Tokens) /\ Count(Append(a, x)) = Count(a) + Value(x)
          /\ Count(a) \in Nat
      BY <2>5, CountAppend
    <3>2. Count(t) = Count(Append(a, x)) + Value(y)
      BY <2>5, <3>1, CountAppend
    <3>3. x \in Marks
      BY <2>2, <2>4, Names DEF Decimal
    <3>4. Value(x) = 0
      BY <3>3, TokenKinds
    <3>5. Value(y) = 2
      BY <2>4, Names
    <3> QED
      BY <3>1, <3>2, <3>4, <3>5
  <2> QED
    BY <1>4, <2>3, <2>7, <2>8
<1> HIDE DEF Whole, Parts
<1> QED
  BY <1>3, <1>4, <1>5, <1>6

-----------------------------------------------------------------------------
\* What a behaviour of the readers holds.
ReadingType ==
  /\ query \in [words : SUBSET Words, quotes : SUBSET References]
  /\ price \in Seq(Tokens)
  /\ product \in [1..2 -> Seq(Alnum \cup {Other})]
  /\ reply \in Replies
  /\ extraction \in Extractions

LEMMA ReadingTypeInit == Init => ReadingType
<1> SUFFICES ASSUME Init PROVE ReadingType
  OBVIOUS
<1>0. query \in [words : SUBSET Words, quotes : SUBSET References]
  BY DEF Init, NoQuery
<1>4. price \in Seq(Tokens)
  <2>1. <<>> \in Seq(Tokens)
    OBVIOUS
  <2> QED
    BY <2>1 DEF Init
<1>1. product \in [1..2 -> Seq(Alnum \cup {Other})]
  <2>1. <<>> \in Seq(Alnum \cup {Other})
    OBVIOUS
  <2> DEFINE V == Seq(Alnum \cup {Other})
  <2> HIDE DEF V
  <2>2. <<>> \in V
    BY <2>1 DEF V
  <2>3. <<<<>>, <<>>>> \in [1..2 -> V]
    BY <2>2
  <2> QED
    BY <2>3 DEF Init, NoProduct, V
<1>2. reply \in Replies
  <2>1. <<>> \in Seq(Seq(Nat))
    OBVIOUS
  <2> QED
    BY <2>1 DEF Init, NoReply, Replies
<1>3. extraction \in Extractions
  <2>1. <<>> \in Seq(Offers) /\ <<>> \in Seq(Rows)
    OBVIOUS
  <2> QED
    BY <2>1 DEF Init, NoExtraction, Extractions
<1> QED
  BY <1>0, <1>1, <1>2, <1>3, <1>4 DEF ReadingType

LEMMA ReadingTypeNext == ReadingType /\ [Next]_vars => ReadingType'
<1> SUFFICES ASSUME ReadingType, [Next]_vars PROVE ReadingType'
  OBVIOUS
<1>1. Numbers \subseteq Seq(Nat) /\ <<>> \in Seq(Nat) /\ <<1, 2, 1>> \in Seq(Nat)
  <2>1. <<1>> \in Seq(Nat) /\ <<2>> \in Seq(Nat) /\ <<1, 2>> \in Seq(Nat) /\ <<2, 1>> \in Seq(Nat)
    OBVIOUS
  <2> QED
    BY <2>1 DEF Numbers
<1>2. CASE TypeText
  <2>1. PICK f \in 1..2, char \in Alnum \cup {Other} :
           product' = [product EXCEPT ![f] = Append(@, char)]
    BY <1>2 DEF TypeText
  <2>2. Append(product[f], char) \in Seq(Alnum \cup {Other})
    BY DEF ReadingType
  <2>3. product' \in [1..2 -> Seq(Alnum \cup {Other})]
    BY <2>1, <2>2 DEF ReadingType
  <2> QED
    BY <1>2, <2>3 DEF TypeText, ReadingType
<1>3. CASE Ground
  <2>1. reply.figures \in Seq(Seq(Nat))
    BY DEF ReadingType, Replies
  <2>2. \A number \in Numbers : Append(reply.figures, number) \in Seq(Seq(Nat))
    BY <1>1, <2>1
  <2>3. {"cited"} \subseteq Pages
    BY DEF Pages
  <2>4. \/ \E number \in Numbers : reply' = [reply EXCEPT !.figures = Append(@, number)]
        \/ reply' = [reply EXCEPT !.cited = {"cited"}]
        \/ reply' = [reply EXCEPT !.blank = TRUE]
        \/ reply' = [reply EXCEPT !.raised = TRUE]
    BY <1>3 DEF Ground
  <2>5. reply' \in Replies
    <3>1. reply \in Replies
      BY DEF ReadingType
    <3> QED
      BY <2>2, <2>3, <2>4, <3>1 DEF Replies
  <2> QED
    BY <1>3, <2>5 DEF Ground, ReadingType
<1>4. CASE Extract
  <2>1. extraction.offers \in Seq(Offers) /\ extraction.guidance \in Seq(Rows)
    BY DEF ReadingType, Extractions
  <2>2. \A number \in Numbers \cup {<<>>, <<1, 2, 1>>}, page \in Pages :
           /\ Append(extraction.offers, [price |-> number, url |-> page]) \in Seq(Offers)
           /\ Append(extraction.guidance, [price |-> number]) \in Seq(Rows)
    <3> SUFFICES ASSUME NEW number \in Numbers \cup {<<>>, <<1, 2, 1>>}, NEW page \in Pages
                 PROVE  /\ Append(extraction.offers, [price |-> number, url |-> page]) \in Seq(Offers)
                        /\ Append(extraction.guidance, [price |-> number]) \in Seq(Rows)
      OBVIOUS
    <3>1. number \in Seq(Nat)
      BY <1>1
    <3>2. [price |-> number, url |-> page] \in Offers /\ [price |-> number] \in Rows
      BY <3>1 DEF Offers, Rows
    <3> QED
      BY <2>1, <3>2
  <2>3. \/ extraction' = [extraction EXCEPT !.parsed = FALSE]
        \/ \E number \in Numbers \cup {<<>>, <<1, 2, 1>>}, page \in Pages :
              extraction' = [extraction EXCEPT
                !.offers = Append(@, [price |-> number, url |-> page]),
                !.guidance = Append(@, [price |-> number])]
    BY <1>4 DEF Extract
  <2>4. extraction' \in Extractions
    <3>1. extraction \in Extractions
      BY DEF ReadingType
    <3> QED
      BY <2>2, <2>3, <3>1 DEF Extractions
  <2> QED
    BY <1>4, <2>4 DEF Extract, ReadingType
<1>5. CASE TypeWord
  <2>1. \/ \E word \in Words : query' = [query EXCEPT !.words = @ \cup {word}]
        \/ \E ref \in References : query' = [query EXCEPT !.quotes = @ \cup {ref}]
    BY <1>5 DEF TypeWord
  <2>2. query' \in [words : SUBSET Words, quotes : SUBSET References]
    BY <2>1 DEF ReadingType
  <2> QED
    BY <1>5, <2>2 DEF TypeWord, ReadingType
<1>6. CASE TypePrice
  <2>1. PICK token \in Tokens : price' = Append(price, token)
    BY <1>6 DEF TypePrice
  <2>2. price' \in Seq(Tokens)
    BY <2>1 DEF ReadingType
  <2> QED
    BY <1>6, <2>2 DEF TypePrice, ReadingType
<1>7. CASE UNCHANGED vars
  BY <1>7 DEF vars, ReadingType
<1> QED
  BY <1>2, <1>3, <1>4, <1>5, <1>6, <1>7 DEF Next

\* A text names the tracked references best first, whatever the catalogue and however many
\* words: the stable sort, the cut and what _resolve takes of the list without the model
\* (catalog.py:75-124, search.py:88-97).
THEOREM ReadingRankingHolds == Spec => []RankingHolds
<1>1. ReadingType => RankingHolds
  BY RankedWhatever DEF ReadingType, RankingHolds
<1> QED
  BY <1>1, ReadingTypeInit, ReadingTypeNext, PTL DEF Spec

\* A price text is read as it was written or left blank, however long it is and whatever
\* marks it has, a lone point before three digits aside (fetcher.py:151-183).
THEOREM ReadingPricesRead == Spec => []PricesRead
<1>1. ReadingType => PricesRead
  BY PriceReadAsWritten DEF ReadingType, PricesRead
<1> QED
  BY <1>1, ReadingTypeInit, ReadingTypeNext, PTL DEF Spec

\* Whatever a product's texts say, it is filed under a term exactly where one of them spells
\* it between word boundaries: the loops that put tokens together neither miss a spelling
\* nor begin or end inside a word (shopify.py:52-69, 132-163).
THEOREM ReadingFiledRight == Spec => []FiledRight
<1>1. ReadingType => FiledRight
  <2> SUFFICES ASSUME ReadingType, NEW term \in Terms PROVE FiledWhereSpelled(product, term)
    BY DEF FiledRight
  <2>1. \A f \in DOMAIN product : product[f] \in Seq(Alnum \cup {Other})
    BY DEF ReadingType
  <2> QED
    BY <2>1, FiledWhatever
<1> QED
  BY <1>1, ReadingTypeInit, ReadingTypeNext, PTL DEF Spec

\* The prices shown beside a grounded text are in it, whatever the two calls answered
\* (gemini.py:252-457).
THEOREM ReadingOffersGrounded == Spec => []OffersGrounded
<1>1. ReadingType => OffersGrounded
  BY GroundedWhatever DEF ReadingType, OffersGrounded
<1> QED
  BY <1>1, ReadingTypeInit, ReadingTypeNext, PTL DEF Spec
=============================================================================
