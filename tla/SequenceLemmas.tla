--------------------------- MODULE SequenceLemmas ---------------------------
(***************************************************************************)
(* Induction over the naturals, and what it gives for sequences of any     *)
(* length: the elements a filter keeps, the concatenation of a sequence of *)
(* sequences.                                                              *)
(***************************************************************************)
EXTENDS Subsequences, Integers, SequencesExt, WellFoundedInduction, TLAPS

-----------------------------------------------------------------------------
Less == {p \in Nat \X Nat : p[1] < p[2]}

LEMMA LessWellFounded == IsWellFoundedOn(Less, Nat)
<1>1. Less = OpToRel(<, Nat)
  BY DEF Less, OpToRel
<1> QED
  BY <1>1, NatLessThanWellFounded

\* A set of naturals that holds 0 and the successor of each of its members is all of them:
\* from the least natural it would not hold.
LEMMA Induction ==
  ASSUME NEW T \in SUBSET Nat, 0 \in T, \A n \in T : n + 1 \in T
  PROVE  T = Nat
<1> SUFFICES ASSUME Nat \ T # {} PROVE FALSE
  OBVIOUS
<1> DEFINE Rest == Nat \ T
<1>1. PICK x \in Rest : \A y \in Rest : <<y, x>> \notin Less
  BY LessWellFounded, WFMin
<1>2. x # 0 /\ x - 1 \in Nat
  OBVIOUS
<1>3. <<x - 1, x>> \in Less
  BY <1>2 DEF Less
<1>4. x - 1 \in T
  BY <1>1, <1>2, <1>3
<1> QED
  BY <1>2, <1>4

\* The same up to a bound.
LEMMA InductionTo ==
  ASSUME NEW m \in Nat, NEW T \in SUBSET (0..m), 0 \in T,
         \A n \in T : n < m => n + 1 \in T
  PROVE  T = 0..m
<1> DEFINE U == {n \in Nat : n <= m => n \in T}
<1>1. 0 \in U
  OBVIOUS
<1>2. \A n \in U : n + 1 \in U
  OBVIOUS
<1>3. U = Nat
  <2> HIDE DEF U
  <2>1. U \in SUBSET Nat
    BY DEF U
  <2> QED
    BY <1>1, <1>2, <2>1, Induction
<1>4. ASSUME NEW n \in 0..m PROVE n \in T
  <2>1. n \in U
    BY <1>3
  <2> QED
    BY <2>1
<1> QED
  BY <1>4

\* A first value and a step from each value to the next make a function on the naturals.
Steps(V) == [Nat -> [V -> V]]
Iterates(f, V, v, step) ==
  f \in [Nat -> V] /\ f[0] = v /\ \A n \in Nat : f[n + 1] = step[n][f[n]]

LEMMA Recursion ==
  ASSUME NEW V, NEW v \in V, NEW step \in Steps(V)
  PROVE  \E f : Iterates(f, V, v, step)
<1> USE DEF Steps
<1> DEFINE IsTo(f, m) == /\ f \in [Nat -> V] /\ f[0] = v
                         /\ \A n \in Nat : n < m => f[n + 1] = step[n][f[n]]
           T == {m \in Nat : \E f : IsTo(f, m)}
<1>1. T = Nat
  <2>1. 0 \in T
    <3>1. IsTo([n \in Nat |-> v], 0)
      OBVIOUS
    <3> QED
      BY <3>1
  <2>2. ASSUME NEW m \in T PROVE m + 1 \in T
    <3>1. PICK f : IsTo(f, m)
      OBVIOUS
    <3> DEFINE g == [n \in Nat |-> IF n = m + 1 THEN step[m][f[m]] ELSE f[n]]
    <3>2. g \in [Nat -> V]
      BY <3>1
    <3>3. \A n \in Nat : n < m + 1 => g[n + 1] = step[n][g[n]]
      <4> SUFFICES ASSUME NEW n \in Nat, n < m + 1 PROVE g[n + 1] = step[n][g[n]]
        OBVIOUS
      <4>1. g[n] = f[n]
        OBVIOUS
      <4>2. n + 1 \in Nat /\ g[n + 1] = IF n = m THEN step[m][f[m]] ELSE f[n + 1]
        OBVIOUS
      <4> QED
        BY <3>1, <4>1, <4>2
    <3>4. IsTo(g, m + 1)
      BY <3>1, <3>2, <3>3
    <3>5. m + 1 \in Nat
      OBVIOUS
    <3> HIDE DEF g, IsTo
    <3> QED
      BY <3>4, <3>5
  <2> HIDE DEF T
  <2>3. T \in SUBSET Nat
    BY DEF T
  <2> QED
    BY <2>1, <2>2, <2>3, Induction
<1> DEFINE F(m) == CHOOSE f : IsTo(f, m)
<1>2. \A m \in Nat : IsTo(F(m), m)
  BY <1>1
<1> HIDE DEF F
<1>3. ASSUME NEW m \in Nat, NEW k \in Nat, m <= k PROVE F(m)[m] = F(k)[m]
  <2> DEFINE U == {n \in Nat : n <= m => F(m)[n] = F(k)[n]}
  <2>1. 0 \in U
    BY <1>2
  <2>2. ASSUME NEW n \in U PROVE n + 1 \in U
    <3> SUFFICES ASSUME n + 1 <= m PROVE F(m)[n + 1] = F(k)[n + 1]
      OBVIOUS
    <3>1. n \in Nat /\ n < m /\ n < k
      BY <1>3
    <3>2. F(m)[n + 1] = step[n][F(m)[n]] /\ F(k)[n + 1] = step[n][F(k)[n]]
      BY <1>2, <3>1
    <3> QED
      BY <3>1, <3>2
  <2> HIDE DEF U
  <2>3. U \in SUBSET Nat
    BY DEF U
  <2>4. U = Nat
    BY <2>1, <2>2, <2>3, Induction
  <2> QED
    BY <2>4 DEF U
<1> DEFINE G == [n \in Nat |-> F(n)[n]]
<1>4. G \in [Nat -> V] /\ G[0] = v
  BY <1>2
<1>5. ASSUME NEW n \in Nat PROVE G[n + 1] = step[n][G[n]]
  <2>1. F(n + 1)[n + 1] = step[n][F(n + 1)[n]]
    BY <1>2
  <2>2. F(n)[n] = F(n + 1)[n]
    BY <1>3
  <2> QED
    BY <2>1, <2>2
<1> QED
  BY <1>4, <1>5 DEF Iterates

\* A longer factor makes a longer product.
LEMMA ProductMonotone == ASSUME NEW a \in Int, NEW b \in Int, NEW m \in Nat, a <= b
                         PROVE  a * m <= b * m
<1>1. PICK d \in Nat : b = a + d
  <2>1. b - a \in Nat /\ b = a + (b - a)
    OBVIOUS
  <2> QED
    BY <2>1
<1>2. b * m = a * m + d * m /\ d * m >= 0
  BY <1>1, SMT
<1> QED
  BY <1>2

-----------------------------------------------------------------------------
\* The function Within counts with: what is kept of the first n elements.
KeepsOf(kept, s, S) ==
  /\ kept \in [0..Len(s) -> Seq(S)]
  /\ kept[0] = <<>>
  /\ \A n \in 1..Len(s) :
        kept[n] = IF s[n] \in S THEN Append(kept[n - 1], s[n]) ELSE kept[n - 1]

LEMMA WithinKeeps ==
  ASSUME NEW V, NEW s \in Seq(V), NEW S
  PROVE  \E kept : KeepsOf(kept, s, S) /\ Within(s, S) = kept[Len(s)]
<1> DEFINE step == [n \in Nat |-> [t \in Seq(S) |-> IF s[n + 1] \in S THEN Append(t, s[n + 1])
                                                    ELSE t]]
           Is(k) == k = [n \in 0..Len(s) |->
                           IF n = 0 THEN <<>>
                           ELSE IF s[n] \in S THEN Append(k[n - 1], s[n]) ELSE k[n - 1]]
<1>1. step \in Steps(Seq(S))
  BY DEF Steps
<1>2. <<>> \in Seq(S)
  OBVIOUS
<1>3. PICK f : Iterates(f, Seq(S), <<>>, step)
  <2> HIDE DEF step
  <2> QED
    BY <1>1, <1>2, Recursion
<1> USE <1>3 DEF Iterates
<1> DEFINE g == [n \in 0..Len(s) |-> f[n]]
<1>4. \A n \in 1..Len(s) : f[n] = IF s[n] \in S THEN Append(f[n - 1], s[n]) ELSE f[n - 1]
  <2> SUFFICES ASSUME NEW n \in 1..Len(s)
               PROVE  f[n] = IF s[n] \in S THEN Append(f[n - 1], s[n]) ELSE f[n - 1]
    OBVIOUS
  <2>1. n - 1 \in Nat /\ n - 1 + 1 = n
    OBVIOUS
  <2>2. f[n - 1] \in Seq(S)
    BY <1>3, <2>1
  <2>3. f[n] = step[n - 1][f[n - 1]]
    BY <1>3, <2>1
  <2> QED
    BY <2>1, <2>2, <2>3
<1>5. Is(g)
  <2>1. \A n \in 0..Len(s) : g[n] = IF n = 0 THEN <<>>
                                    ELSE IF s[n] \in S THEN Append(g[n - 1], s[n]) ELSE g[n - 1]
    <3> SUFFICES ASSUME NEW n \in 0..Len(s), n # 0
                 PROVE  g[n] = IF s[n] \in S THEN Append(g[n - 1], s[n]) ELSE g[n - 1]
      BY <1>3
    <3>1. n \in 1..Len(s) /\ n - 1 \in 0..Len(s)
      OBVIOUS
    <3> QED
      BY <1>4, <3>1
  <2> QED
    BY <2>1
<1> DEFINE kept == CHOOSE h : Is(h)
<1>6. Is(kept)
  BY <1>5
<1>7. Within(s, S) = kept[Len(s)]
  BY DEF Within
<1> HIDE DEF kept
<1>8. kept[0] = <<>> /\ \A n \in 1..Len(s) :
        kept[n] = IF s[n] \in S THEN Append(kept[n - 1], s[n]) ELSE kept[n - 1]
  <2>1. 0 \in 0..Len(s) /\ \A n \in 1..Len(s) : n \in 0..Len(s) /\ n # 0
    OBVIOUS
  <2> QED
    BY <1>6, <2>1
<1>9. \A n \in 0..Len(s) : kept[n] \in Seq(S)
  <2> DEFINE T == {n \in 0..Len(s) : kept[n] \in Seq(S)}
  <2>1. 0 \in T
    <3>1. 0 \in 0..Len(s)
      OBVIOUS
    <3> QED
      BY <1>2, <1>8, <3>1, Zenon
  <2>2. ASSUME NEW n \in T, n < Len(s) PROVE n + 1 \in T
    <3>1. n + 1 \in 1..Len(s) /\ n + 1 - 1 = n
      BY <2>2
    <3>2. kept[n + 1] = IF s[n + 1] \in S THEN Append(kept[n], s[n + 1]) ELSE kept[n]
      BY <1>8, <3>1
    <3>3. kept[n] \in Seq(S)
      BY Zenon
    <3>4. kept[n + 1] \in Seq(S)
      BY <3>2, <3>3
    <3> QED
      BY <3>1, <3>4
  <2> HIDE DEF T
  <2>3. T \in SUBSET (0..Len(s)) /\ Len(s) \in Nat
    BY DEF T
  <2>4. T = 0..Len(s)
    BY <2>1, <2>2, <2>3, InductionTo
  <2> QED
    BY <2>4 DEF T
<1>10. kept \in [0..Len(s) -> Seq(S)]
  BY <1>6, <1>9
<1> QED
  BY <1>7, <1>8, <1>10 DEF KeepsOf

LEMMA WithinType ==
  ASSUME NEW V, NEW s \in Seq(V), NEW S
  PROVE  Within(s, S) \in Seq(S)
<1> PICK kept : KeepsOf(kept, s, S) /\ Within(s, S) = kept[Len(s)]
  BY WithinKeeps
<1> QED
  BY DEF KeepsOf

LEMMA WithinEmpty == ASSUME NEW S PROVE Within(<<>>, S) = <<>>
<1>1. <<>> \in Seq(S) /\ Len(<<>>) = 0
  OBVIOUS
<1> PICK kept : KeepsOf(kept, <<>>, S) /\ Within(<<>>, S) = kept[0]
  BY <1>1, WithinKeeps
<1> QED
  BY DEF KeepsOf

\* One more element: kept or not, the others as before.
LEMMA WithinAppend ==
  ASSUME NEW V, NEW s \in Seq(V), NEW e \in V, NEW S
  PROVE  Within(Append(s, e), S) = IF e \in S THEN Append(Within(s, S), e) ELSE Within(s, S)
<1> DEFINE t == Append(s, e)
<1>1. t \in Seq(V) /\ Len(t) = Len(s) + 1 /\ t[Len(s) + 1] = e
      /\ \A n \in 1..Len(s) : t[n] = s[n]
  OBVIOUS
<1>2. PICK g : KeepsOf(g, s, S) /\ Within(s, S) = g[Len(s)]
  BY WithinKeeps
<1>3. PICK h : KeepsOf(h, t, S) /\ Within(t, S) = h[Len(t)]
  BY <1>1, WithinKeeps
<1> HIDE DEF t
<1>4. g[Len(s)] = h[Len(s)]
  <2> DEFINE T == {n \in 0..Len(s) : g[n] = h[n]}
  <2>1. 0 \in T
    BY <1>2, <1>3 DEF KeepsOf
  <2>2. ASSUME NEW n \in T, n < Len(s) PROVE n + 1 \in T
    <3>1. n + 1 \in 1..Len(s) /\ n + 1 \in 1..Len(t) /\ n + 1 - 1 = n
      BY <1>1, <2>2
    <3>2. g[n + 1] = IF s[n + 1] \in S THEN Append(g[n], s[n + 1]) ELSE g[n]
      BY <1>2, <3>1 DEF KeepsOf
    <3>3. h[n + 1] = IF t[n + 1] \in S THEN Append(h[n], t[n + 1]) ELSE h[n]
      BY <1>3, <3>1 DEF KeepsOf
    <3> QED
      BY <1>1, <3>1, <3>2, <3>3
  <2> HIDE DEF T
  <2>3. T \in SUBSET (0..Len(s)) /\ Len(s) \in Nat
    BY DEF T
  <2>4. T = 0..Len(s)
    BY <2>1, <2>2, <2>3, InductionTo
  <2> QED
    BY <2>3, <2>4 DEF T
<1>5. h[Len(t)] = IF e \in S THEN Append(h[Len(s)], e) ELSE h[Len(s)]
  <2>1. Len(t) \in 1..Len(t) /\ Len(t) - 1 = Len(s) /\ t[Len(t)] = e
    BY <1>1
  <2> QED
    BY <1>3, <2>1 DEF KeepsOf
<1> QED
  BY <1>2, <1>3, <1>4, <1>5 DEF t

\* Nothing to keep, nothing kept.
LEMMA WithinNone ==
  ASSUME NEW V, NEW s \in Seq(V), NEW S, \A n \in 1..Len(s) : s[n] \notin S
  PROVE  Within(s, S) = <<>>
<1>1. PICK g : KeepsOf(g, s, S) /\ Within(s, S) = g[Len(s)]
  BY WithinKeeps
<1> DEFINE T == {n \in 0..Len(s) : g[n] = <<>>}
<1>2. 0 \in T
  BY <1>1 DEF KeepsOf
<1>3. ASSUME NEW n \in T, n < Len(s) PROVE n + 1 \in T
  <2>1. n + 1 \in 1..Len(s) /\ n + 1 - 1 = n
    BY <1>3
  <2>2. g[n + 1] = g[n]
    BY <1>1, <2>1 DEF KeepsOf
  <2> QED
    BY <2>1, <2>2
<1> HIDE DEF T
<1>4. T \in SUBSET (0..Len(s)) /\ Len(s) \in Nat
  BY DEF T
<1>5. T = 0..Len(s)
  BY <1>2, <1>3, <1>4, InductionTo
<1> QED
  BY <1>1, <1>4, <1>5 DEF T

-----------------------------------------------------------------------------
\* A set of naturals has a least member, one below a bound a greatest.
LEMMA Least == ASSUME NEW T \in SUBSET Nat, T # {} PROVE \E x \in T : \A y \in T : x <= y
<1>1. PICK x \in T : \A y \in T : <<y, x>> \notin Less
  BY LessWellFounded, WFMin
<1>2. ASSUME NEW y \in T PROVE x <= y
  <2>1. x \in Nat /\ y \in Nat /\ (y < x => <<y, x>> \in Less)
    BY DEF Less
  <2> QED
    BY <1>1, <2>1
<1> QED
  BY <1>2

LEMMA Greatest ==
  ASSUME NEW m \in Nat, NEW T \in SUBSET (0..m), T # {}
  PROVE  \E x \in T : \A y \in T : y <= x
<1> DEFINE U == {n \in 0..m : m - n \in T}
<1>1. U \in SUBSET Nat /\ U # {}
  <2> PICK y \in T : TRUE
    OBVIOUS
  <2>1. m - y \in 0..m /\ m - (m - y) = y
    OBVIOUS
  <2>2. m - y \in U
    BY <2>1
  <2>3. \A n \in U : n \in Nat
    OBVIOUS
  <2> QED
    BY <2>2, <2>3
<1>2. PICK x \in U : \A y \in U : x <= y
  <2> HIDE DEF U
  <2> QED
    BY <1>1, Least
<1>3. ASSUME NEW y \in T PROVE y <= m - x
  <2>1. m - y \in 0..m /\ m - (m - y) = y
    OBVIOUS
  <2>2. x <= m - y
    BY <1>2, <2>1
  <2> QED
    BY <2>2
<1> QED
  BY <1>3

-----------------------------------------------------------------------------
LEMMA LastApart ==
  ASSUME NEW V, NEW s \in Seq(V), s # <<>>
  PROVE  \E front \in Seq(V) : \E e \in V : s = Append(front, e)
<1> DEFINE front == [i \in 1..(Len(s) - 1) |-> s[i]]
<1>1. front \in Seq(V) /\ s[Len(s)] \in V
  OBVIOUS
<1>2. s = Append(front, s[Len(s)])
  OBVIOUS
<1> QED
  BY <1>1, <1>2

\* A set of sequences that holds the empty one, and with each of its members every sequence
\* that is one element longer, is all of them.
LEMMA SequenceInduction ==
  ASSUME NEW V, NEW P \in SUBSET Seq(V), <<>> \in P,
         \A s \in P : \A e \in V : Append(s, e) \in P
  PROVE  P = Seq(V)
<1> DEFINE T == {n \in Nat : \A s \in Seq(V) : Len(s) = n => s \in P}
<1>1. 0 \in T
  <2>1. \A s \in Seq(V) : Len(s) = 0 => s = <<>>
    OBVIOUS
  <2> QED
    BY <2>1
<1>2. ASSUME NEW n \in T PROVE n + 1 \in T
  <2> SUFFICES ASSUME NEW s \in Seq(V), Len(s) = n + 1 PROVE s \in P
    OBVIOUS
  <2>1. n \in Nat /\ \A t \in Seq(V) : Len(t) = n => t \in P
    OBVIOUS
  <2> HIDE DEF T
  <2>2. s # <<>>
    BY <2>1
  <2>3. PICK front \in Seq(V) : \E e \in V : s = Append(front, e)
    BY <2>2, LastApart, Zenon
  <2>4. Len(front) = n
    BY <2>1, <2>3
  <2>5. front \in P
    BY <2>1, <2>4
  <2> QED
    BY <2>3, <2>5
<1> HIDE DEF T
<1>3. T \in SUBSET Nat
  BY DEF T
<1>4. T = Nat
  BY <1>1, <1>2, <1>3, Induction
<1>5. \A s \in Seq(V) : Len(s) \in Nat
  OBVIOUS
<1> QED
  BY <1>4, <1>5 DEF T

LEMMA MembersAppend ==
  ASSUME NEW V, NEW s \in Seq(V), NEW e \in V
  PROVE  ToSet(Append(s, e)) = ToSet(s) \cup {e} /\ ToSet(s) \subseteq V
<1> DEFINE t == Append(s, e)
<1>1. DOMAIN t = 1..Len(s) + 1 /\ t[Len(s) + 1] = e /\ \A n \in 1..Len(s) : t[n] = s[n]
  OBVIOUS
<1>2. ToSet(t) = {t[i] : i \in DOMAIN t} /\ ToSet(s) = {s[i] : i \in 1..Len(s)}
  BY DEF ToSet
<1>3. ToSet(s) \subseteq V
  BY <1>2
<1> HIDE DEF t
<1>4. ASSUME NEW x \in ToSet(t) PROVE x \in ToSet(s) \cup {e}
  BY <1>1, <1>2
<1>5. ASSUME NEW x \in ToSet(s) \cup {e} PROVE x \in ToSet(t)
  <2>1. CASE x = e
    <3>1. Len(s) + 1 \in DOMAIN t
      BY <1>1
    <3> QED
      BY <1>1, <1>2, <2>1, <3>1
  <2>2. CASE x \in ToSet(s)
    <3>1. PICK i \in 1..Len(s) : x = s[i]
      BY <1>2, <2>2
    <3>2. i \in DOMAIN t /\ t[i] = x
      BY <1>1, <3>1
    <3> QED
      BY <1>2, <3>2
  <2> QED
    BY <2>1, <2>2
<1> QED
  BY <1>3, <1>4, <1>5 DEF t

\* What is kept is what is in both.
LEMMA WithinMembers ==
  ASSUME NEW V, NEW S
  PROVE  \A s \in Seq(V) : ToSet(Within(s, S)) = ToSet(s) \cap S
<1> DEFINE P == {s \in Seq(V) : ToSet(Within(s, S)) = ToSet(s) \cap S}
<1>1. <<>> \in P
  <2>1. ToSet(<<>>) = {} /\ <<>> \in Seq(V)
    BY DEF ToSet
  <2> QED
    BY <2>1, WithinEmpty
<1>2. ASSUME NEW s \in P, NEW e \in V PROVE Append(s, e) \in P
  <2>1. s \in Seq(V) /\ Append(s, e) \in Seq(V)
    OBVIOUS
  <2>2. ToSet(Append(s, e)) = ToSet(s) \cup {e}
    BY <2>1, MembersAppend
  <2>3. Within(s, S) \in Seq(S)
    BY <2>1, WithinType
  <2>4. e \in S => ToSet(Append(Within(s, S), e)) = ToSet(Within(s, S)) \cup {e}
    BY <2>3, MembersAppend
  <2>5. Within(Append(s, e), S) = IF e \in S THEN Append(Within(s, S), e) ELSE Within(s, S)
    BY <2>1, WithinAppend
  <2>6. ToSet(Within(s, S)) = ToSet(s) \cap S
    OBVIOUS
  <2>7. ToSet(Within(Append(s, e), S)) = ToSet(Append(s, e)) \cap S
    BY <2>2, <2>4, <2>5, <2>6, Zenon
  <2> QED
    BY <2>1, <2>7
<1> HIDE DEF P
<1>3. P \in SUBSET Seq(V)
  BY DEF P
<1>4. P = Seq(V)
  BY <1>1, <1>2, <1>3, SequenceInduction
<1> QED
  BY <1>4 DEF P

\* A concatenation is filtered part by part.
LEMMA WithinConcat ==
  ASSUME NEW V, NEW S, NEW s \in Seq(V)
  PROVE  \A t \in Seq(V) : Within(s \o t, S) = Within(s, S) \o Within(t, S)
<1> DEFINE P == {t \in Seq(V) : Within(s \o t, S) = Within(s, S) \o Within(t, S)}
<1>0. Within(s, S) \in Seq(S)
  BY WithinType
<1>1. <<>> \in P
  <2>1. s \o <<>> = s /\ Within(s, S) \o <<>> = Within(s, S) /\ <<>> \in Seq(V)
    BY <1>0
  <2> QED
    BY <2>1, WithinEmpty
<1>2. ASSUME NEW t \in P, NEW e \in V PROVE Append(t, e) \in P
  <2>1. t \in Seq(V) /\ Append(t, e) \in Seq(V) /\ s \o t \in Seq(V)
        /\ Within(s \o t, S) = Within(s, S) \o Within(t, S)
    OBVIOUS
  <2> HIDE DEF P
  <2>2. s \o Append(t, e) = Append(s \o t, e)
    BY <2>1
  <2>3. Within(Append(s \o t, e), S) = IF e \in S THEN Append(Within(s \o t, S), e)
                                      ELSE Within(s \o t, S)
    <3>1. PICK u \in Seq(V) : u = s \o t
      BY <2>1
    <3>2. Within(Append(u, e), S) = IF e \in S THEN Append(Within(u, S), e) ELSE Within(u, S)
      BY WithinAppend
    <3> QED
      BY <3>1, <3>2
  <2>4. Within(Append(t, e), S) = IF e \in S THEN Append(Within(t, S), e) ELSE Within(t, S)
    BY <2>1, WithinAppend
  <2>5. Within(t, S) \in Seq(S)
    BY <2>1, WithinType
  <2>6. e \in S => Append(Within(s, S) \o Within(t, S), e) = Within(s, S) \o Append(Within(t, S), e)
    BY <1>0, <2>5, SMTT(30)
  <2> QED
    BY <2>1, <2>2, <2>3, <2>4, <2>6 DEF P
<1> HIDE DEF P
<1>3. P \in SUBSET Seq(V)
  BY DEF P
<1>4. P = Seq(V)
  BY <1>1, <1>2, <1>3, SequenceInduction
<1> QED
  BY <1>4 DEF P

\* Keeping twice is keeping what both keep.
LEMMA WithinTwice ==
  ASSUME NEW V, NEW S, NEW T
  PROVE  \A s \in Seq(V) : Within(Within(s, S), T) = Within(s, S \cap T)
<1> DEFINE P == {s \in Seq(V) : Within(Within(s, S), T) = Within(s, S \cap T)}
<1>1. <<>> \in P
  <2>1. <<>> \in Seq(V)
    OBVIOUS
  <2>2. Within(<<>>, S) = <<>> /\ Within(<<>>, T) = <<>> /\ Within(<<>>, S \cap T) = <<>>
    BY WithinEmpty
  <2> QED
    BY <2>1, <2>2
<1>2. ASSUME NEW s \in P, NEW e \in V PROVE Append(s, e) \in P
  <2>1. s \in Seq(V) /\ Append(s, e) \in Seq(V)
    OBVIOUS
  <2>2. Within(s, S) \in Seq(S)
    BY <2>1, WithinType
  <2>3. ASSUME e \in S
        PROVE  Within(Append(Within(s, S), e), T)
                 = IF e \in T THEN Append(Within(Within(s, S), T), e) ELSE Within(Within(s, S), T)
    <3>1. PICK kept : kept = Within(s, S)
      OBVIOUS
    <3>2. kept \in Seq(S)
      BY <2>2, <3>1
    <3>3. Within(Append(kept, e), T) = IF e \in T THEN Append(Within(kept, T), e) ELSE Within(kept, T)
      BY <2>3, <3>2, WithinAppend
    <3> QED
      BY <3>1, <3>3
  <2>4. Within(Append(s, e), S) = IF e \in S THEN Append(Within(s, S), e) ELSE Within(s, S)
    BY <2>1, WithinAppend
  <2>5. Within(Append(s, e), S \cap T) = IF e \in S \cap T THEN Append(Within(s, S \cap T), e)
                                         ELSE Within(s, S \cap T)
    BY <2>1, WithinAppend
  <2>6. Within(Within(s, S), T) = Within(s, S \cap T)
    OBVIOUS
  <2>7. Within(Within(Append(s, e), S), T) = Within(Append(s, e), S \cap T)
    <3>1. CASE e \in S /\ e \in T
      BY <2>3, <2>4, <2>5, <2>6, <3>1
    <3>2. CASE e \in S /\ e \notin T
      BY <2>3, <2>4, <2>5, <2>6, <3>2
    <3>3. CASE e \notin S
      BY <2>4, <2>5, <2>6, <3>3
    <3> QED
      BY <3>1, <3>2, <3>3
  <2> QED
    BY <2>1, <2>7
<1> HIDE DEF P
<1>3. P \in SUBSET Seq(V)
  BY DEF P
<1>4. P = Seq(V)
  BY <1>1, <1>2, <1>3, SequenceInduction
<1> QED
  BY <1>4 DEF P

\* No element is there twice.
OneEach(s) == \A i, j \in DOMAIN s : s[i] = s[j] => i = j

LEMMA OneEachAppend ==
  ASSUME NEW V, NEW s \in Seq(V), NEW e \in V, OneEach(s), e \notin ToSet(s)
  PROVE  OneEach(Append(s, e))
<1> DEFINE t == Append(s, e)
<1>1. DOMAIN t = 1..Len(s) + 1 /\ t[Len(s) + 1] = e /\ \A n \in 1..Len(s) : t[n] = s[n]
  OBVIOUS
<1>2. \A n \in 1..Len(s) : s[n] # e
  BY DEF ToSet
<1> HIDE DEF t
<1> SUFFICES ASSUME NEW i \in DOMAIN t, NEW j \in DOMAIN t, t[i] = t[j] PROVE i = j
  BY DEF OneEach, t
<1>3. CASE i \in 1..Len(s) /\ j \in 1..Len(s)
  BY <1>1, <1>3 DEF OneEach
<1>4. CASE i = Len(s) + 1 \/ j = Len(s) + 1
  BY <1>1, <1>2, <1>4
<1> QED
  BY <1>1, <1>3, <1>4

LEMMA WithinOneEach ==
  ASSUME NEW V, NEW S
  PROVE  \A s \in Seq(V) : OneEach(s) => OneEach(Within(s, S))
<1> DEFINE P == {s \in Seq(V) : OneEach(s) => OneEach(Within(s, S))}
<1>1. <<>> \in P
  BY WithinEmpty DEF OneEach
<1>2. ASSUME NEW s \in P, NEW e \in V PROVE Append(s, e) \in P
  <2>1. s \in Seq(V) /\ Append(s, e) \in Seq(V)
    OBVIOUS
  <2> SUFFICES ASSUME OneEach(Append(s, e)) PROVE OneEach(Within(Append(s, e), S))
    BY <2>1
  <2>2. DOMAIN Append(s, e) = 1..Len(s) + 1 /\ Append(s, e)[Len(s) + 1] = e
        /\ \A n \in 1..Len(s) : Append(s, e)[n] = s[n]
    BY <2>1
  <2>3. OneEach(s) /\ e \notin ToSet(s)
    <3>1. ASSUME NEW i \in 1..Len(s), NEW j \in 1..Len(s), s[i] = s[j] PROVE i = j
      <4>1. i \in DOMAIN Append(s, e) /\ j \in DOMAIN Append(s, e)
        BY <2>2
      <4> QED
        BY <2>2, <3>1, <4>1 DEF OneEach
    <3>2. ASSUME NEW i \in 1..Len(s), s[i] = e PROVE FALSE
      <4>1. i \in DOMAIN Append(s, e) /\ Len(s) + 1 \in DOMAIN Append(s, e) /\ i # Len(s) + 1
        BY <2>2
      <4> QED
        BY <2>2, <3>2, <4>1 DEF OneEach
    <3>3. DOMAIN s = 1..Len(s)
      BY <2>1
    <3> QED
      BY <3>1, <3>2, <3>3 DEF OneEach, ToSet
  <2>4. OneEach(Within(s, S)) /\ Within(s, S) \in Seq(S)
    BY <2>1, <2>3, WithinType
  <2>5. e \notin ToSet(Within(s, S))
    BY <2>1, <2>3, WithinMembers
  <2>6. e \in S => OneEach(Append(Within(s, S), e))
    BY <2>4, <2>5, OneEachAppend
  <2> QED
    BY <2>1, <2>4, <2>6, WithinAppend
<1> HIDE DEF P
<1>3. P \in SUBSET Seq(V)
  BY DEF P
<1>4. P = Seq(V)
  BY <1>1, <1>2, <1>3, SequenceInduction
<1> QED
  BY <1>4 DEF P

\* What is kept is no longer, and as long only if all of it is kept: then nothing changes.
LEMMA WithinLength ==
  ASSUME NEW V, NEW S
  PROVE  \A s \in Seq(V) : /\ Len(Within(s, S)) <= Len(s)
                           /\ ToSet(s) \subseteq S => Within(s, S) = s
                           /\ ~(ToSet(s) \subseteq S) => Len(Within(s, S)) < Len(s)
<1> DEFINE Q(s) == /\ Len(Within(s, S)) <= Len(s)
                   /\ ToSet(s) \subseteq S => Within(s, S) = s
                   /\ ~(ToSet(s) \subseteq S) => Len(Within(s, S)) < Len(s)
           P == {s \in Seq(V) : Q(s)}
<1>1. <<>> \in P
  <2>1. <<>> \in Seq(V) /\ ToSet(<<>>) = {} /\ Len(<<>>) = 0
    BY DEF ToSet
  <2> QED
    BY <2>1, WithinEmpty
<1>2. ASSUME NEW s \in P, NEW e \in V PROVE Append(s, e) \in P
  <2>1. s \in Seq(V) /\ Append(s, e) \in Seq(V) /\ Len(Append(s, e)) = Len(s) + 1 /\ Len(s) \in Nat
    OBVIOUS
  <2>2. Within(s, S) \in Seq(S)
    BY <2>1, WithinType
  <2>3. Len(Within(s, S)) \in Nat /\ Len(Append(Within(s, S), e)) = Len(Within(s, S)) + 1
    BY <2>2
  <2>4. ToSet(Append(s, e)) = ToSet(s) \cup {e}
    BY <2>1, MembersAppend
  <2>5. Within(Append(s, e), S) = IF e \in S THEN Append(Within(s, S), e) ELSE Within(s, S)
    BY <2>1, WithinAppend
  <2>6. Q(s)
    OBVIOUS
  <2>7. Q(Append(s, e))
    <3>1. CASE e \in S
      BY <2>1, <2>3, <2>4, <2>5, <2>6, <3>1
    <3>2. CASE e \notin S
      BY <2>1, <2>3, <2>4, <2>5, <2>6, <3>2
    <3> QED
      BY <3>1, <3>2
  <2> HIDE DEF Q
  <2> QED
    BY <2>1, <2>7
<1> HIDE DEF P
<1>3. P \in SUBSET Seq(V)
  BY DEF P
<1>4. P = Seq(V)
  BY <1>1, <1>2, <1>3, SequenceInduction
<1> QED
  BY <1>4 DEF P

\* Where no element is there twice, all but the first is all but its head.
LEMMA WithinTail ==
  ASSUME NEW V
  PROVE  \A s \in Seq(V) : s # <<>> /\ OneEach(s) => Within(s, V \ {s[1]}) = Tail(s)
<1> DEFINE Q(s) == s # <<>> /\ OneEach(s) => Within(s, V \ {s[1]}) = Tail(s)
           P == {s \in Seq(V) : Q(s)}
<1>1. <<>> \in P
  OBVIOUS
<1> HIDE DEF Q
<1>2. ASSUME NEW s \in P, NEW e \in V PROVE Append(s, e) \in P
  <2>1. s \in Seq(V) /\ Append(s, e) \in Seq(V) /\ Q(s)
    OBVIOUS
  <2> HIDE DEF P
  <2> SUFFICES ASSUME OneEach(Append(s, e))
               PROVE  Within(Append(s, e), V \ {Append(s, e)[1]}) = Tail(Append(s, e))
    BY <2>1 DEF P, Q
  <2>2. CASE s = <<>>
    <3>1. Append(s, e)[1] = e /\ Tail(Append(s, e)) = <<>>
      BY <2>2
    <3>2. Within(Append(<<>>, e), V \ {e}) = Within(<<>>, V \ {e})
      <4>1. <<>> \in Seq(V) /\ e \notin V \ {e}
        OBVIOUS
      <4> QED
        BY <4>1, WithinAppend
    <3>3. Within(<<>>, V \ {e}) = <<>>
      BY WithinEmpty
    <3> QED
      BY <2>2, <3>1, <3>2, <3>3
  <2>3. CASE s # <<>>
    <3>1. /\ DOMAIN Append(s, e) = 1..Len(s) + 1 /\ Append(s, e)[Len(s) + 1] = e
          /\ \A n \in 1..Len(s) : Append(s, e)[n] = s[n]
          /\ 1 \in 1..Len(s) /\ s[1] \in V
      BY <2>1, <2>3
    <3>2. OneEach(s)
      <4>1. ASSUME NEW i \in 1..Len(s), NEW j \in 1..Len(s), s[i] = s[j] PROVE i = j
        <5>1. i \in DOMAIN Append(s, e) /\ j \in DOMAIN Append(s, e)
          BY <3>1
        <5> QED
          BY <3>1, <4>1, <5>1 DEF OneEach
      <4> QED
        BY <2>1, <4>1 DEF OneEach
    <3>3. e # s[1]
      <4>1. Len(s) + 1 \in DOMAIN Append(s, e) /\ 1 \in DOMAIN Append(s, e) /\ Len(s) + 1 # 1
        BY <2>1, <2>3, <3>1
      <4> QED
        BY <3>1, <4>1 DEF OneEach
    <3>4. Within(s, V \ {s[1]}) = Tail(s)
      BY <2>1, <2>3, <3>2 DEF Q
    <3>5. Within(Append(s, e), V \ {s[1]}) = Append(Within(s, V \ {s[1]}), e)
      <4> DEFINE S == V \ {s[1]}
      <4>1. e \in S
        BY <3>3
      <4> HIDE DEF S
      <4>2. Within(Append(s, e), S) = Append(Within(s, S), e)
        BY <2>1, <4>1, WithinAppend
      <4> QED
        BY <4>2 DEF S
    <3>6. Tail(Append(s, e)) = Append(Tail(s), e)
      BY <2>1, <2>3
    <3> QED
      BY <3>1, <3>4, <3>5, <3>6
  <2> QED
    BY <2>2, <2>3
<1> HIDE DEF P
<1>3. P \in SUBSET Seq(V)
  BY DEF P
<1>4. P = Seq(V)
  BY <1>1, <1>2, <1>3, SequenceInduction
<1> QED
  BY <1>4 DEF P, Q

-----------------------------------------------------------------------------
\* The function FlattenSeq concatenates with: the first n sequences as one.
FlattensWith(f, ss, V) ==
  /\ f \in [1..Len(ss) -> Seq(V)]
  /\ f[1] = ss[1]
  /\ \A n \in 1..(Len(ss) - 1) : f[n + 1] = f[n] \o ss[n + 1]

LEMMA FlattenConcatenates ==
  ASSUME NEW V, NEW ss \in Seq(Seq(V)), ss # <<>>
  PROVE  \E f : FlattensWith(f, ss, V) /\ FlattenSeq(ss) = f[Len(ss)]
<1> DEFINE m == Len(ss) - 1
           step == [n \in Nat |-> [t \in Seq(V) |-> IF n < m THEN t \o ss[n + 2] ELSE t]]
           Is(f) == f = [i \in 1..Len(ss) |-> IF i = 1 THEN ss[i] ELSE f[i - 1] \o ss[i]]
<1>1. Len(ss) \in Nat /\ Len(ss) = m + 1 /\ m \in Nat /\ \A i \in 1..Len(ss) : ss[i] \in Seq(V)
  OBVIOUS
<1>2. step \in Steps(Seq(V))
  <2>1. \A n \in Nat : n < m => ss[n + 2] \in Seq(V)
    BY <1>1
  <2> HIDE DEF m
  <2> QED
    BY <2>1 DEF Steps
<1>3. PICK f : Iterates(f, Seq(V), ss[1], step)
  <2> HIDE DEF step, m
  <2>1. ss[1] \in Seq(V)
    BY <1>1
  <2> QED
    BY <1>2, <2>1, Recursion
<1>4. f \in [Nat -> Seq(V)] /\ f[0] = ss[1]
  BY <1>3 DEF Iterates
<1>5. \A n \in Nat : n < m => f[n + 1] = f[n] \o ss[n + 2]
  <2> SUFFICES ASSUME NEW n \in Nat, n < m PROVE f[n + 1] = f[n] \o ss[n + 2]
    OBVIOUS
  <2>1. f[n + 1] = step[n][f[n]] /\ f[n] \in Seq(V)
    BY <1>3, <1>4 DEF Iterates
  <2> HIDE DEF m
  <2> QED
    BY <2>1
<1> HIDE DEF m, step
<1> DEFINE g == [i \in 1..Len(ss) |-> f[i - 1]]
<1>6. Is(g)
  <2>1. \A i \in 1..Len(ss) : g[i] = IF i = 1 THEN ss[i] ELSE g[i - 1] \o ss[i]
    <3> SUFFICES ASSUME NEW i \in 1..Len(ss)
                 PROVE  g[i] = IF i = 1 THEN ss[i] ELSE g[i - 1] \o ss[i]
      OBVIOUS
    <3>1. CASE i = 1
      BY <1>4, <3>1
    <3>2. CASE i # 1
      <4>1. i - 2 \in Nat /\ i - 2 < m /\ i - 1 \in 1..Len(ss) /\ i - 2 + 1 = i - 1
            /\ i - 2 + 2 = i
        BY <1>1, <3>2
      <4>2. f[i - 2 + 1] = f[i - 2] \o ss[i - 2 + 2]
        BY <1>5, <4>1
      <4>3. g[i] = f[i - 1] /\ g[i - 1] = f[i - 1 - 1] /\ i - 1 - 1 = i - 2
        BY <4>1
      <4> QED
        BY <3>2, <4>1, <4>2, <4>3
    <3> QED
      BY <3>1, <3>2
  <2> QED
    BY <2>1
<1> DEFINE flatten == CHOOSE h : Is(h)
<1>7. Is(flatten)
  BY <1>6
<1>8. FlattenSeq(ss) = flatten[Len(ss)]
  BY <1>1 DEF FlattenSeq
<1> HIDE DEF flatten
<1>9. flatten[1] = ss[1]
      /\ \A n \in 1..(Len(ss) - 1) : flatten[n + 1] = flatten[n] \o ss[n + 1]
  <2>1. 1 \in 1..Len(ss) /\ \A n \in 1..(Len(ss) - 1) : n + 1 \in 1..Len(ss) /\ n + 1 # 1
                                                      /\ n + 1 - 1 = n
    BY <1>1
  <2>2. \A i \in 1..Len(ss) : flatten[i] = IF i = 1 THEN ss[i] ELSE flatten[i - 1] \o ss[i]
    BY <1>7, Zenon
  <2>3. flatten[1] = ss[1]
    BY <2>1, <2>2
  <2>4. ASSUME NEW n \in 1..(Len(ss) - 1) PROVE flatten[n + 1] = flatten[n] \o ss[n + 1]
    <3>1. PICK k : k = n + 1
      OBVIOUS
    <3>2. k \in 1..Len(ss) /\ k # 1 /\ k - 1 = n
      BY <2>1, <3>1
    <3>3. flatten[k] = flatten[k - 1] \o ss[k]
      BY <2>2, <3>2
    <3> QED
      BY <3>1, <3>2, <3>3
  <2> QED
    BY <2>3, <2>4
<1>10. \A i \in 1..Len(ss) : flatten[i] \in Seq(V)
  <2> DEFINE T == {n \in 0..m : flatten[n + 1] \in Seq(V)}
  <2>1. 0 \in T
    BY <1>1, <1>9
  <2>2. ASSUME NEW n \in T, n < m PROVE n + 1 \in T
    <3>1. PICK k : k = n + 1
      OBVIOUS
    <3>2. k \in 1..(Len(ss) - 1) /\ k \in 0..m /\ k + 1 \in 1..Len(ss) /\ flatten[k] \in Seq(V)
      BY <1>1, <2>2, <3>1
    <3>3. flatten[k + 1] = flatten[k] \o ss[k + 1] /\ ss[k + 1] \in Seq(V)
      BY <1>1, <1>9, <3>2
    <3>4. flatten[k + 1] \in Seq(V)
      BY <3>2, <3>3
    <3>5. k \in T
      BY <3>2, <3>4
    <3> QED
      BY <3>1, <3>5
  <2> HIDE DEF T
  <2>3. T \in SUBSET (0..m) /\ m \in Nat
    BY <1>1 DEF T
  <2>4. T = 0..m
    BY <2>1, <2>2, <2>3, InductionTo
  <2>5. ASSUME NEW i \in 1..Len(ss) PROVE flatten[i] \in Seq(V)
    <3>1. i - 1 \in 0..m /\ i - 1 + 1 = i
      BY <1>1
    <3>2. flatten[i - 1 + 1] \in Seq(V)
      BY <2>4, <3>1 DEF T
    <3> QED
      BY <3>1, <3>2
  <2> QED
    BY <2>5
<1>11. flatten \in [1..Len(ss) -> Seq(V)]
  BY <1>7, <1>10
<1> QED
  BY <1>8, <1>9, <1>11 DEF FlattensWith

LEMMA FlattenEmpty == FlattenSeq(<<>>) = <<>>
  BY DEF FlattenSeq

\* One more sequence comes behind what there was.
LEMMA FlattenAppend ==
  ASSUME NEW V, NEW ss \in Seq(Seq(V)), NEW t \in Seq(V)
  PROVE  FlattenSeq(ss) \in Seq(V) /\ FlattenSeq(Append(ss, t)) = FlattenSeq(ss) \o t
<1> DEFINE u == Append(ss, t)
<1>0. u \in Seq(Seq(V)) /\ Len(u) = Len(ss) + 1 /\ u[Len(ss) + 1] = t
      /\ \A n \in 1..Len(ss) : u[n] = ss[n]
  OBVIOUS
<1> HIDE DEF u
<1>1. u \in Seq(Seq(V)) /\ u # <<>> /\ Len(u) = Len(ss) + 1 /\ u[Len(ss) + 1] = t
      /\ \A n \in 1..Len(ss) : u[n] = ss[n]
  BY <1>0
<1>2. PICK h : FlattensWith(h, u, V) /\ FlattenSeq(u) = h[Len(u)]
  BY <1>1, FlattenConcatenates
<1>3. CASE ss = <<>>
  <2>1. Len(u) = 1 /\ u[1] = t /\ <<>> \in Seq(V)
    BY <1>1, <1>3
  <2>2. FlattenSeq(u) = t
    BY <1>2, <2>1 DEF FlattensWith
  <2>3. FlattenSeq(ss) = <<>> /\ <<>> \o t = t
    BY <1>3, FlattenEmpty
  <2> QED
    BY <2>1, <2>2, <2>3 DEF u
<1>4. CASE ss # <<>>
  <2>1. PICK g : FlattensWith(g, ss, V) /\ FlattenSeq(ss) = g[Len(ss)]
    BY <1>4, FlattenConcatenates
  <2> DEFINE m == Len(ss) - 1
             T == {n \in 0..m : g[n + 1] = h[n + 1]}
  <2>2. m \in Nat /\ Len(ss) = m + 1 /\ Len(u) = m + 2
    BY <1>1, <1>4
  <2>3. 0 \in T
    <3>1. g[1] = ss[1] /\ h[1] = u[1] /\ u[1] = ss[1]
      BY <1>1, <1>2, <2>1, <2>2 DEF FlattensWith
    <3> QED
      BY <2>2, <3>1
  <2>4. ASSUME NEW n \in T, n < m PROVE n + 1 \in T
    <3>1. n \in Nat /\ n + 1 \in 1..(Len(ss) - 1) /\ n + 1 \in 1..(Len(u) - 1) /\ n + 1 \in 0..m
          /\ n + 1 + 1 \in 1..Len(ss) /\ g[n + 1] = h[n + 1]
      BY <2>2, <2>4
    <3>2. g[n + 1 + 1] = g[n + 1] \o ss[n + 1 + 1]
      BY <2>1, <3>1 DEF FlattensWith
    <3>3. h[n + 1 + 1] = h[n + 1] \o u[n + 1 + 1]
      BY <1>2, <3>1 DEF FlattensWith
    <3>4. g[n + 1 + 1] = h[n + 1 + 1]
      BY <1>1, <3>1, <3>2, <3>3
    <3> QED
      BY <3>1, <3>4
  <2> HIDE DEF T
  <2>5. T \in SUBSET (0..m)
    BY DEF T
  <2> HIDE DEF m
  <2>6. T = 0..m
    BY <2>2, <2>3, <2>4, <2>5, InductionTo
  <2>7. m \in T
    BY <2>2, <2>6
  <2>8. g[Len(ss)] = h[Len(ss)]
    BY <2>2, <2>7 DEF T
  <2>9. h[Len(ss) + 1] = h[Len(ss)] \o u[Len(ss) + 1]
    <3>1. Len(ss) \in 1..(Len(u) - 1)
      BY <2>2
    <3> QED
      BY <1>2, <3>1 DEF FlattensWith
  <2>10. g[Len(ss)] \in Seq(V)
    <3>1. Len(ss) \in 1..Len(ss)
      BY <2>2
    <3> QED
      BY <2>1, <3>1 DEF FlattensWith
  <2> QED
    BY <1>1, <1>2, <2>1, <2>8, <2>9, <2>10 DEF u
<1> QED
  BY <1>3, <1>4
=============================================================================
