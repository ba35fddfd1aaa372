--------------------------- MODULE Uint128_proofs ---------------------------
(***************************************************************************)
(* uint128_t computes with integers modulo 2^128, its strings are read as  *)
(* the values they were made of, and its bitwise operators agree with its  *)
(* sum, for words of every size.  The operators are total on Values, so    *)
(* the type invariant is inductive by itself; the work is in the           *)
(* arithmetic of two words, and in what powers, digits and bits are, which *)
(* are defined by recursion: that such functions exist, and what they      *)
(* compute, is shown from the least number for which it would fail.        *)
(***************************************************************************)
EXTENDS Uint128Text, SequenceTheorems, WellFoundedInduction, TLAPS

\* Multiplication with a word is monotonic: the one nonlinear fact that
\* the comparison and the bounds of uint128_t rest on.
LEMMA ProductMonotonic ==
  ASSUME NEW a \in Nat, NEW b \in Nat, NEW w \in Nat, a <= b
  PROVE  a * w <= b * w
<1>1. PICK d \in Nat : b = a + d
  <2>1. b - a \in Nat /\ b = a + (b - a)
    OBVIOUS
  <2> QED BY <2>1
<1>2. (a + d) * w = a * w + d * w
  OBVIOUS
<1>3. d * w >= 0 /\ d * w \in Nat /\ a * w \in Nat
  OBVIOUS
<1> QED BY <1>1, <1>2, <1>3

\* Moving the high word of a uint128_t by one moves its value by Word.
LEMMA ProductStep ==
  ASSUME NEW a \in Int, NEW w \in Nat
  PROVE  /\ (a + 1) * w = a * w + w
         /\ (a - 1) * w = a * w - w
         /\ a * w \in Int
OBVIOUS

\* The values of uint128_t are the integers below Word * Word: a high word
\* below another leaves room for any low word.
LEMMA ValueBounds ==
  ASSUME NEW v \in Values
  PROVE  /\ v.high * Word \in Nat
         /\ v.high * Word + Word <= Word * Word
         /\ Value(v) \in 0 .. Word * Word - 1
<1> DEFINE h == v.high
<1>1. h \in Nat /\ h + 1 <= Word /\ h + 1 \in Nat /\ Word \in Nat
         /\ v.low \in Nat /\ v.low < Word
  BY WordAssumption DEF Values, Words
<1> HIDE DEF h
<1>2. (h + 1) * Word <= Word * Word
  BY <1>1, ProductMonotonic
<1>3. (h + 1) * Word = h * Word + Word /\ h * Word \in Int
  BY <1>1, ProductStep
<1>4. 0 * Word <= h * Word /\ 0 * Word = 0
  <2>1. 0 \in Nat /\ 0 <= h
    BY <1>1
  <2>2. 0 * Word <= h * Word
    BY <1>1, <2>1, ProductMonotonic
  <2> QED BY <1>1, <2>2
<1>5. Word * Word \in Nat
  BY <1>1
<1>6. /\ h * Word \in Nat
      /\ h * Word + Word <= Word * Word
      /\ h * Word + v.low \in 0 .. Word * Word - 1
  BY <1>1, <1>2, <1>3, <1>4, <1>5
<1> QED BY <1>6 DEF h, Value

\* A uint128_t with the smaller high word is smaller, whatever the low
\* words are.
LEMMA HighDecides ==
  ASSUME NEW v \in Values, NEW u \in Values, v.high < u.high
  PROVE  Value(v) < Value(u)
<1> DEFINE h == v.high
           g == u.high
<1>1. /\ h \in Nat /\ g \in Nat /\ h + 1 \in Nat /\ h + 1 <= g /\ Word \in Nat
      /\ v.low \in Nat /\ v.low < Word /\ u.low \in Nat
  BY WordAssumption DEF Values, Words
<1> HIDE DEF h, g
<1>2. (h + 1) * Word <= g * Word
  BY <1>1, ProductMonotonic
<1>3. (h + 1) * Word = h * Word + Word /\ h * Word \in Int /\ g * Word \in Int
  BY <1>1, ProductStep
<1>4. h * Word + v.low < g * Word + u.low
  BY <1>1, <1>2, <1>3
<1> QED BY <1>4 DEF Value, h, g
-----------------------------------------------------------------------------
\* The comparison operators of uint128_t, for any two values, are those of
\* the integers they stand for.
LEMMA Comparison ==
  ASSUME NEW a \in Values, NEW b \in Values
  PROVE  /\ Equal(a, b) <=> Value(a) = Value(b)
         /\ Less(a, b) <=> Value(a) < Value(b)
         /\ Greater(a, b) <=> Value(a) > Value(b)
         /\ LessEqual(a, b) <=> Value(a) <= Value(b)
         /\ GreaterEqual(a, b) <=> Value(a) >= Value(b)
<1> USE DEF Equal, Less, Greater, LessEqual, GreaterEqual
<1>1. /\ a.high \in Int /\ b.high \in Int /\ a.low \in Int /\ b.low \in Int
      /\ Value(a) \in Int /\ Value(b) \in Int
  BY ValueBounds, WordAssumption DEF Values, Words
<1>2. CASE a.high < b.high
  BY <1>1, <1>2, HighDecides
<1>3. CASE a.high > b.high
  <2>1. Value(b) < Value(a)
    BY <1>1, <1>3, HighDecides
  <2> QED BY <1>1, <1>3, <2>1
<1>4. CASE a.high = b.high
  <2>1. a.high * Word \in Int
    BY ValueBounds
  <2>2. /\ Value(a) = a.high * Word + a.low
        /\ Value(b) = a.high * Word + b.low
    BY <1>4 DEF Value
  <2> QED BY <1>1, <1>4, <2>1, <2>2
<1> QED BY <1>1, <1>2, <1>3, <1>4

\* Assigning a 64 bit word to a uint128_t keeps its value.
LEMMA WordValue ==
  ASSUME NEW w \in Words
  PROVE  FromWord(w) \in Values /\ Value(FromWord(w)) = w
<1>1. Word \in Nat /\ Word >= 2 /\ w \in Int /\ 0 * Word = 0
  BY WordAssumption DEF Words
<1> QED BY <1>1 DEF FromWord, Values, Words, Value

\* A uint128_t put together from a high word that may have wrapped once has
\* the value of the parts modulo 2^128.  All operators end in this form.
LEMMA Assemble ==
  ASSUME NEW s \in Int, NEW l \in Words, -1 <= s, s < 2 * Word,
         NEW v, v = [high |-> Wrap(s), low |-> l]
  PROVE  v \in Values /\ Value(v) = Integer!Wrapped(s * Word + l)
<1> DEFINE M == Word * Word
<1>1. /\ Word \in Nat /\ Word >= 2 /\ l \in Nat /\ l < Word
      /\ M \in Int /\ s * Word \in Int
  BY WordAssumption DEF Words
<1>2. v \in Values
  BY <1>1 DEF Values, Words, Wrap
<1>3. Value(v) = Wrap(s) * Word + l /\ Value(v) \in 0 .. M - 1
  BY <1>2, ValueBounds DEF Value
<1>4. Integer!Wrapped(s * Word + l)
        = IF s * Word + l < 0 THEN s * Word + l + M
          ELSE IF s * Word + l >= M THEN s * Word + l - M ELSE s * Word + l
  BY <1>1 DEF Integer!Wrapped, Integer!Modulus
<1>5. CASE s < 0
  <2>1. s = -1 /\ Wrap(s) = Word - 1
    BY <1>1, <1>5 DEF Wrap
  <2>2. (Word - 1) * Word = M - Word /\ s * Word = -Word
    BY <1>1, <2>1
  <2> QED BY <1>1, <1>2, <1>3, <1>4, <2>1, <2>2
<1>6. CASE 0 <= s /\ s < Word
  <2>1. Wrap(s) = s
    BY <1>1, <1>6 DEF Wrap
  <2> QED BY <1>1, <1>2, <1>3, <1>4, <2>1
<1>7. CASE s >= Word
  <2>1. Wrap(s) = s - Word
    BY <1>1, <1>7 DEF Wrap
  <2>2. (s - Word) * Word = s * Word - M
    BY <1>1
  <2> QED BY <1>1, <1>2, <1>3, <1>4, <2>1, <2>2
<1> QED BY <1>1, <1>5, <1>6, <1>7

\* operator+ of a uint128_t and a word adds modulo 2^128.
LEMMA SumWordValue ==
  ASSUME NEW a \in Values, NEW w \in Words
  PROVE  /\ SumWord(a, w) \in Values
         /\ Value(SumWord(a, w)) = Integer!Wrapped(Value(a) + w)
<1> DEFINE h == a.high
           l == a.low
<1>1. /\ Word \in Nat /\ Word >= 2 /\ h \in Nat /\ l \in Nat /\ w \in Nat
      /\ h < Word /\ l < Word /\ w < Word
  BY WordAssumption DEF Values, Words
<1>2. Value(a) = h * Word + l /\ h * Word \in Int
  BY <1>1 DEF Value
<1>3. (h + 1) * Word = h * Word + Word
  BY <1>1
<1>4. CASE l + w < Word
  <2>1. SumWord(a, w) = [high |-> Wrap(h), low |-> l + w]
    BY <1>1, <1>4 DEF SumWord, Wrap
  <2>2. l + w \in Words /\ h * Word + (l + w) = Value(a) + w
    BY <1>1, <1>2, <1>4 DEF Words
  <2> QED BY <1>1, <2>1, <2>2, Assemble
<1>5. CASE l + w >= Word
  <2>1. SumWord(a, w) = [high |-> Wrap(h + 1), low |-> l + w - Word]
    BY <1>1, <1>5 DEF SumWord, Wrap
  <2>2. /\ l + w - Word \in Words /\ h + 1 \in Int /\ h + 1 < 2 * Word
        /\ (h + 1) * Word + (l + w - Word) = Value(a) + w
    BY <1>1, <1>2, <1>3, <1>5 DEF Words
  <2> QED BY <1>1, <2>1, <2>2, Assemble
<1> QED BY <1>1, <1>4, <1>5

\* operator- of a uint128_t and a word subtracts modulo 2^128.
LEMMA DifferenceWordValue ==
  ASSUME NEW a \in Values, NEW w \in Words
  PROVE  /\ DifferenceWord(a, w) \in Values
         /\ Value(DifferenceWord(a, w)) = Integer!Wrapped(Value(a) - w)
<1> DEFINE h == a.high
           l == a.low
<1>1. /\ Word \in Nat /\ Word >= 2 /\ h \in Nat /\ l \in Nat /\ w \in Nat
      /\ h < Word /\ l < Word /\ w < Word
  BY WordAssumption DEF Values, Words
<1>2. Value(a) = h * Word + l /\ h * Word \in Int
  BY <1>1 DEF Value
<1>3. (h - 1) * Word = h * Word - Word
  BY <1>1
<1>4. CASE l - w >= 0
  <2>1. DifferenceWord(a, w) = [high |-> Wrap(h), low |-> l - w]
    BY <1>1, <1>4 DEF DifferenceWord, Wrap
  <2>2. l - w \in Words /\ h * Word + (l - w) = Value(a) - w
    BY <1>1, <1>2, <1>4 DEF Words
  <2> QED BY <1>1, <2>1, <2>2, Assemble
<1>5. CASE l - w < 0
  <2>1. DifferenceWord(a, w) = [high |-> Wrap(h - 1), low |-> l - w + Word]
    BY <1>1, <1>5 DEF DifferenceWord, Wrap
  <2>2. l - w + Word \in Words /\ h - 1 \in Int /\ -1 <= h - 1
    BY <1>1, <1>5 DEF Words
  <2>3. (h - 1) * Word + (l - w + Word) = Value(a) - w
    BY <1>1, <1>2, <1>3
  <2> QED BY <1>1, <2>1, <2>2, <2>3, Assemble
<1> QED BY <1>1, <1>4, <1>5

\* operator++ finds its carry in another way than operator+, with the same
\* result.
LEMMA IncrementedIsSum ==
  ASSUME NEW a \in Values
  PROVE  Incremented(a) = SumWord(a, 1) /\ 1 \in Words
BY WordAssumption DEF Values, Words, Incremented, SumWord, Wrap

\* operator-- looks at the low word before, operator- after the subtraction,
\* with the same result.
LEMMA DecrementedIsDifference ==
  ASSUME NEW a \in Values
  PROVE  Decremented(a) = DifferenceWord(a, 1) /\ 1 \in Words
BY WordAssumption DEF Values, Words, Decremented, DifferenceWord, Wrap

\* operator+= of two uint128_t adds modulo 2^128, also when adding the carry
\* to the right high word wraps first.
LEMMA Sum128Value ==
  ASSUME NEW a \in Values, NEW b \in Values
  PROVE  /\ Sum128(a, b) \in Values
         /\ Value(Sum128(a, b)) = Integer!Wrapped(Value(a) + Value(b))
<1> DEFINE h == a.high
           l == a.low
           g == b.high
           r == b.low
<1>1. /\ Word \in Nat /\ Word >= 2 /\ h \in Nat /\ l \in Nat /\ g \in Nat
      /\ r \in Nat /\ h < Word /\ l < Word /\ g < Word /\ r < Word
  BY WordAssumption DEF Values, Words
<1>2. /\ Value(a) = h * Word + l /\ h * Word \in Int
      /\ Value(b) = g * Word + r /\ g * Word \in Int
  BY <1>1 DEF Value
<1>3. /\ (h + g) * Word = h * Word + g * Word
      /\ (h + g + 1) * Word = h * Word + g * Word + Word
  BY <1>1
<1>4. CASE l + r < Word
  <2>1. Sum128(a, b) = [high |-> Wrap(h + g), low |-> l + r]
    BY <1>1, <1>4 DEF Sum128, Wrap
  <2>2. /\ l + r \in Words /\ h + g \in Int /\ h + g < 2 * Word /\ -1 <= h + g
        /\ (h + g) * Word + (l + r) = Value(a) + Value(b)
    BY <1>1, <1>2, <1>3, <1>4 DEF Words
  <2> QED BY <2>1, <2>2, Assemble
<1>5. CASE l + r >= Word
  <2>1. Wrap(h + Wrap(g + 1)) = Wrap(h + g + 1)
    BY <1>1 DEF Wrap
  <2>2. Sum128(a, b) = [high |-> Wrap(h + g + 1), low |-> l + r - Word]
    BY <1>1, <1>5, <2>1 DEF Sum128, Wrap
  <2>3. /\ l + r - Word \in Words /\ h + g + 1 \in Int
        /\ h + g + 1 < 2 * Word /\ -1 <= h + g + 1
        /\ (h + g + 1) * Word + (l + r - Word) = Value(a) + Value(b)
    BY <1>1, <1>2, <1>3, <1>5 DEF Words
  <2> QED BY <2>2, <2>3, Assemble
<1> QED BY <1>1, <1>4, <1>5

\* The identifiers of make_UUID() do not fit into a word.
LEMMA UUIDValue ==
  ASSUME NEW v \in Values, IsUUID(v)
  PROVE  Value(v) \in Word .. Integer!Modulus - 1
<1>1. /\ v.high \in Nat /\ 1 <= v.high /\ Word \in Nat /\ v.low \in Nat
      /\ 1 * Word = Word
  BY WordAssumption DEF Values, Words, IsUUID
<1>2. 1 * Word <= v.high * Word
  BY <1>1, ProductMonotonic
<1>3. v.high * Word \in Nat /\ Value(v) \in 0 .. Word * Word - 1
  BY ValueBounds
<1> QED BY <1>1, <1>2, <1>3 DEF Value, Integer!Modulus
-----------------------------------------------------------------------------
(* Recursion.                                                              *)

(* The least-number principle.                                             *)
LEMMA LeastNumber ==
  ASSUME NEW S \in SUBSET Nat, S # {}
  PROVE  \E m \in S : \A n \in S : m <= n
<1> DEFINE R == {p \in Nat \X Nat : p[1] < p[2]}
<1>1. IsWellFoundedOn(R, Nat)
  BY NatLessThanWellFounded DEF OpToRel
<1> HIDE DEF R
<1>2. PICK m \in S : \A n \in S : ~(<<n, m>> \in R)
  BY <1>1, WFMin, Zenon
<1>3. ASSUME NEW n \in S PROVE m <= n
  <2>1. ~(<<n, m>> \in R) /\ m \in Nat /\ n \in Nat
    BY <1>2
  <2> QED
    BY <2>1 DEF R
<1> QED
  BY <1>3

(* Functions defined by recursion exist.                                   *)

(* A rule for a function to S: its values below B, and how to get the one  *)
(* of n from the one of a smaller number.                                  *)
IsRule(S, B, base, Pred, F) ==
  /\ B \in Nat \ {0}
  /\ base \in [Nat -> S]
  /\ Pred \in [Nat -> Nat]
  /\ \A n \in Nat : n >= B => Pred[n] < n
  /\ F \in [Nat \X S -> S]

(* A function on the numbers up to m that its rule defines.                *)
Follows(g, m, S, B, base, Pred, F) ==
  /\ g \in [0 .. m -> S]
  /\ \A n \in 0 .. m : g[n] = IF n < B THEN base[n] ELSE F[<<n, g[Pred[n]]>>]

Solves(f, S, B, base, Pred, F) ==
  /\ f \in [Nat -> S]
  /\ \A n \in Nat : f[n] = IF n < B THEN base[n] ELSE F[<<n, f[Pred[n]]>>]

(* Two functions that the rule defines agree where both are defined.       *)
LEMMA RecursionIsUnique ==
  ASSUME NEW S, NEW B, NEW base, NEW Pred, NEW F, IsRule(S, B, base, Pred, F),
         NEW m \in Nat, NEW g, Follows(g, m, S, B, base, Pred, F),
         NEW k \in Nat, NEW h, Follows(h, k, S, B, base, Pred, F), m <= k
  PROVE  \A n \in 0 .. m : g[n] = h[n]
<1>0. /\ B \in Nat \ {0} /\ base \in [Nat -> S] /\ Pred \in [Nat -> Nat]
      /\ F \in [Nat \X S -> S] /\ \A n \in Nat : n >= B => Pred[n] < n
  BY DEF IsRule
<1> USE <1>0
<1> DEFINE Bad == {n \in 0 .. m : g[n] # h[n]}
<1> SUFFICES ASSUME Bad # {} PROVE FALSE
  OBVIOUS
<1>1. Bad \in SUBSET Nat
  OBVIOUS
<1>2. PICK n \in Bad : \A i \in Bad : n <= i
  BY <1>1, LeastNumber
<1>3. n \in 0 .. m /\ n \in 0 .. k /\ g[n] # h[n] /\ n \in Nat
  BY <1>2
<1>4. /\ g[n] = IF n < B THEN base[n] ELSE F[<<n, g[Pred[n]]>>]
      /\ h[n] = IF n < B THEN base[n] ELSE F[<<n, h[Pred[n]]>>]
  BY <1>3 DEF Follows
<1>5. ~(n < B)
  BY <1>3, <1>4
<1>6. Pred[n] \in Nat /\ Pred[n] < n /\ Pred[n] \in 0 .. m
  BY <1>3, <1>5
<1>7. Pred[n] \notin Bad
  BY <1>2, <1>3, <1>6
<1>8. g[Pred[n]] = h[Pred[n]]
  BY <1>6, <1>7
<1> QED
  BY <1>3, <1>4, <1>8

(* There is one up to every number.                                        *)
LEMMA RecursionUpTo ==
  ASSUME NEW S, NEW B, NEW base, NEW Pred, NEW F, IsRule(S, B, base, Pred, F)
  PROVE  \A m \in Nat : \E g : Follows(g, m, S, B, base, Pred, F)
<1>0. /\ B \in Nat \ {0} /\ base \in [Nat -> S] /\ Pred \in [Nat -> Nat]
      /\ F \in [Nat \X S -> S] /\ \A n \in Nat : n >= B => Pred[n] < n
  BY DEF IsRule
<1> USE <1>0
<1> DEFINE Bad == {m \in Nat : ~ \E g : Follows(g, m, S, B, base, Pred, F)}
<1> SUFFICES ASSUME Bad # {} PROVE FALSE
  OBVIOUS
<1>1. Bad \in SUBSET Nat
  OBVIOUS
<1>2. PICK m \in Bad : \A i \in Bad : m <= i
  BY <1>1, LeastNumber
<1>3. m \in Nat /\ ~ \E g : Follows(g, m, S, B, base, Pred, F)
  BY <1>2
<1>4. CASE m = 0
  <2> DEFINE g == [n \in 0 .. m |-> base[n]]
  <2>1. \A n \in 0 .. m : n = 0 /\ g[n] = base[n] /\ n < B /\ n \in Nat /\ base[n] \in S
    BY <1>4
  <2>2. g \in [0 .. m -> S]
    BY <2>1
  <2> HIDE DEF g
  <2>3. Follows(g, m, S, B, base, Pred, F)
    BY <2>1, <2>2 DEF Follows
  <2> QED
    BY <1>3, <2>3
<1>5. CASE m # 0
  <2>1. m - 1 \in Nat /\ m - 1 \notin Bad
    BY <1>2, <1>3, <1>5
  <2>2. PICK h : Follows(h, m - 1, S, B, base, Pred, F)
    BY <2>1
  <2>3. /\ h \in [0 .. m - 1 -> S]
        /\ \A n \in 0 .. m - 1 : h[n] = IF n < B THEN base[n] ELSE F[<<n, h[Pred[n]]>>]
    BY <2>2 DEF Follows
  <2> DEFINE last == IF m < B THEN base[m] ELSE F[<<m, h[Pred[m]]>>]
             g    == [n \in 0 .. m |-> IF n = m THEN last ELSE h[n]]
  <2>4. last \in S
    <3>1. CASE m < B
      BY <1>3, <3>1
    <3>2. CASE ~(m < B)
      <4>1. Pred[m] \in 0 .. m - 1
        BY <1>3, <3>2
      <4>2. <<m, h[Pred[m]]>> \in Nat \X S
        BY <1>3, <2>3, <4>1
      <4> QED
        BY <3>2, <4>2
    <3> QED
      BY <3>1, <3>2
  <2>5. \A n \in 0 .. m - 1 : n \in 0 .. m /\ n # m /\ g[n] = h[n] /\ h[n] \in S
    <3>1. \A n \in 0 .. m - 1 : n \in 0 .. m /\ n # m
      BY <1>3
    <3> HIDE DEF last
    <3> QED
      BY <2>3, <3>1
  <2>6. m \in 0 .. m /\ g[m] = last /\ \A n \in 0 .. m : n = m \/ n \in 0 .. m - 1
    BY <1>3
  <2>7. g \in [0 .. m -> S]
    <3>1. \A n \in 0 .. m : (IF n = m THEN last ELSE h[n]) \in S
      BY <2>4, <2>5, <2>6
    <3> HIDE DEF last
    <3> QED
      BY <3>1
  <2> HIDE DEF g
  <2>8. \A n \in 0 .. m : ~(n < B) => Pred[n] \in 0 .. m - 1
    BY <1>3
  <2>9. ASSUME NEW n \in 0 .. m
        PROVE  g[n] = IF n < B THEN base[n] ELSE F[<<n, g[Pred[n]]>>]
    <3>1. CASE n = m
      BY <2>5, <2>6, <2>8, <3>1
    <3>2. CASE n \in 0 .. m - 1
      BY <2>3, <2>5, <2>8, <3>2
    <3> QED
      BY <2>6, <3>1, <3>2
  <2>10. Follows(g, m, S, B, base, Pred, F)
    BY <2>7, <2>9 DEF Follows
  <2> QED
    BY <1>3, <2>10
<1> QED
  BY <1>4, <1>5

(* And so there is one on all numbers.                                     *)
LEMMA Recursion ==
  ASSUME NEW S, NEW B, NEW base, NEW Pred, NEW F, IsRule(S, B, base, Pred, F)
  PROVE  \E f : Solves(f, S, B, base, Pred, F)
<1>0. /\ B \in Nat \ {0} /\ base \in [Nat -> S] /\ Pred \in [Nat -> Nat]
      /\ F \in [Nat \X S -> S] /\ \A n \in Nat : n >= B => Pred[n] < n
  BY DEF IsRule
<1> USE <1>0
<1> DEFINE Up(g, m) == Follows(g, m, S, B, base, Pred, F)
           G(m) == CHOOSE g : Up(g, m)
           f == [n \in Nat |-> G(n)[n]]
<1>1. \A m \in Nat : Up(G(m), m)
  BY RecursionUpTo
<1>2. ASSUME NEW m \in Nat, NEW k \in Nat, m <= k PROVE G(k)[m] = f[m]
  <2> HIDE DEF G
  <2>1. Follows(G(m), m, S, B, base, Pred, F) /\ Follows(G(k), k, S, B, base, Pred, F)
    BY <1>1
  <2> HIDE DEF f, Up
  <2>2. \A n \in 0 .. m : G(m)[n] = G(k)[n]
    BY <1>2, <2>1, RecursionIsUnique
  <2>3. m \in 0 .. m
    OBVIOUS
  <2> QED
    BY <2>2, <2>3 DEF f
<1> HIDE DEF G
<1>3. f \in [Nat -> S]
  <2>1. ASSUME NEW n \in Nat PROVE G(n)[n] \in S
    <3>1. G(n) \in [0 .. n -> S] /\ n \in 0 .. n
      BY <1>1 DEF Follows
    <3> QED
      BY <3>1
  <2> QED
    BY <2>1
<1> HIDE DEF f
<1>4. ASSUME NEW n \in Nat
      PROVE  f[n] = IF n < B THEN base[n] ELSE F[<<n, f[Pred[n]]>>]
  <2>1. n \in 0 .. n /\ Up(G(n), n)
    BY <1>1
  <2>2. G(n)[n] = IF n < B THEN base[n] ELSE F[<<n, G(n)[Pred[n]]>>]
    BY <2>1 DEF Follows
  <2>3. G(n)[n] = f[n]
    BY <1>2
  <2>4. ~(n < B) => G(n)[Pred[n]] = f[Pred[n]]
    <3> SUFFICES ASSUME ~(n < B) PROVE G(n)[Pred[n]] = f[Pred[n]]
      OBVIOUS
    <3>1. Pred[n] \in Nat /\ Pred[n] <= n
      OBVIOUS
    <3> QED
      BY <1>2, <3>1
  <2> QED
    BY <2>2, <2>3, <2>4
<1> QED
  BY <1>3, <1>4 DEF Solves

-----------------------------------------------------------------------------
(* Powers, digits and bits are what their recursive definitions say.       *)

(* Dividing a word by the base of its digits.                              *)
LEMMA Division ==
  ASSUME NEW n \in Nat, NEW d \in Nat, d >= 2
  PROVE  /\ n \div d \in Nat /\ n % d \in Nat /\ n % d < d
         /\ n = d * (n \div d) + (n % d)
         /\ n >= 1 => n \div d < n
<1>1. n \div d \in Int /\ n % d \in Nat /\ n % d < d /\ n = d * (n \div d) + (n % d)
  OBVIOUS
<1>2. n \div d >= 0
  OBVIOUS
<1> DEFINE q == n \div d
           r == n % d
<1>3. q \in Nat /\ r \in Nat /\ n = d * q + r
  BY <1>1, <1>2
<1> HIDE DEF q, r
<1>4. n >= 1 => q < n
  <2> SUFFICES ASSUME n >= 1, q >= n PROVE FALSE
    BY <1>3
  <2>1. 2 * q <= d * q
    BY <1>3, ProductMonotonic
  <2>2. d * q \in Nat
    BY <1>3
  <2> QED
    BY <1>3, <2>1, <2>2
<1> QED
  BY <1>1, <1>3, <1>4 DEF q

(* The powers of a number.                                                 *)
LEMMA PowerDef ==
  ASSUME NEW b \in Nat
  PROVE  /\ Power(b)[0] = 1
         /\ \A n \in Nat : Power(b)[n] \in Nat
         /\ \A n \in Nat : n >= 1 => Power(b)[n] = b * Power(b)[n - 1]
<1> DEFINE base == [n \in Nat |-> 1]
           Pred == [n \in Nat |-> IF n = 0 THEN 0 ELSE n - 1]
           F    == [p \in Nat \X Nat |-> b * p[2]]
           Rule(f) == f = [n \in Nat |-> IF n = 0 THEN 1 ELSE b * f[n - 1]]
<1>1. /\ base \in [Nat -> Nat] /\ Pred \in [Nat -> Nat]
      /\ \A n \in Nat : n >= 1 => Pred[n] < n
      /\ \A n \in Nat : base[n] = 1
      /\ \A n \in Nat : n # 0 => Pred[n] = n - 1
  OBVIOUS
<1>2. \A n \in Nat : b * n \in Nat
  OBVIOUS
<1>3. F \in [Nat \X Nat -> Nat] /\ \A n \in Nat : \A k \in Nat : F[<<n, k>>] = b * k
  <2>1. \A p \in Nat \X Nat : p[2] \in Nat /\ b * p[2] \in Nat
    BY <1>2
  <2> QED
    BY <2>1
<1> HIDE DEF base, Pred, F
<1>4. IsRule(Nat, 1, base, Pred, F)
  <2>1. 1 \in Nat \ {0}
    OBVIOUS
  <2> QED
    BY <1>1, <1>3, <2>1, Zenon DEF IsRule
<1>5. PICK h : Solves(h, Nat, 1, base, Pred, F)
  BY <1>4, Recursion
<1>6. /\ h \in [Nat -> Nat]
      /\ \A n \in Nat : h[n] = IF n < 1 THEN base[n] ELSE F[<<n, h[Pred[n]]>>]
  BY <1>5 DEF Solves
<1>7. ASSUME NEW n \in Nat PROVE h[n] = IF n = 0 THEN 1 ELSE b * h[n - 1]
  <2>1. CASE n = 0
    <3>1. base[n] = 1
      BY <1>1
    <3>2. n < 1
      BY <2>1
    <3>3. h[n] = base[n]
      BY <1>6, <3>2
    <3> QED
      BY <2>1, <3>1, <3>3
  <2>2. CASE n # 0
    <3>1. Pred[n] = n - 1 /\ n - 1 \in Nat /\ ~(n < 1)
      BY <1>1, <2>2
    <3>2. h[n - 1] \in Nat /\ h[n] = F[<<n, h[n - 1]>>]
      BY <1>6, <3>1
    <3> QED
      BY <1>3, <2>2, <3>2
  <2> QED
    BY <2>1, <2>2
<1>8. Rule(h)
  BY <1>6, <1>7
<1>9. Power(b) = CHOOSE g : Rule(g)
  BY DEF Power
<1> DEFINE r == Power(b)
<1>10. Rule(r)
  <2> HIDE DEF Rule
  <2> QED
    BY <1>8, <1>9
<1> HIDE DEF r
<1>11. r[0] = 1 /\ \A n \in Nat : n >= 1 => r[n] = b * r[n - 1]
  BY <1>10
<1>12. \A n \in Nat : r[n] \in Nat
  <2> DEFINE Bad == {n \in Nat : r[n] \notin Nat}
  <2> SUFFICES ASSUME Bad # {} PROVE FALSE
    OBVIOUS
  <2>1. Bad \in SUBSET Nat
    OBVIOUS
  <2>2. PICK n \in Bad : \A i \in Bad : n <= i
    BY <2>1, LeastNumber
  <2>3. n \in Nat /\ r[n] \notin Nat /\ n >= 1
    BY <1>11, <2>2
  <2>4. n - 1 \in Nat /\ n - 1 \notin Bad
    BY <2>2, <2>3
  <2>5. r[n - 1] \in Nat
    BY <2>4
  <2>6. r[n] = b * r[n - 1]
    BY <1>11, <2>3
  <2> QED
    BY <1>2, <2>3, <2>5, <2>6
<1> QED
  BY <1>11, <1>12 DEF r

(* The digits that snprintf and operator<< write of a word.                *)
LEMMA DigitsDef ==
  /\ \A n \in Nat : Digits[n] \in Seq(Nat)
  /\ \A n \in Nat : n < Base => Digits[n] = <<n>>
  /\ \A n \in Nat : n >= Base => Digits[n] = Append(Digits[n \div Base], n % Base)
<1> DEFINE S    == Seq(Nat)
           base == [n \in Nat |-> <<n>>]
           Pred == [n \in Nat |-> n \div Base]
           F    == [p \in Nat \X S |-> Append(p[2], p[1] % Base)]
           Rule(f) == f = [w \in Nat |-> IF w < Base THEN <<w>>
                                         ELSE Append(f[w \div Base], w % Base)]
<1>0. Base \in Nat /\ Base >= 2 /\ Base \in Nat \ {0}
  BY DigitsAssumption
<1>1. \A n \in Nat : n % Base \in Nat /\ n \div Base \in Nat /\ (n >= Base => n \div Base < n)
  <2> TAKE n \in Nat
  <2>1. n \div Base \in Nat /\ n % Base \in Nat /\ (n >= 1 => n \div Base < n)
    BY <1>0, Division
  <2>2. n >= Base => n >= 1
    BY <1>0
  <2> QED
    BY <2>1, <2>2
<1>2. \A n \in Nat : <<n>> \in S
  OBVIOUS
<1>3. base \in [Nat -> S] /\ \A n \in Nat : base[n] = <<n>>
  BY <1>2
<1>4. Pred \in [Nat -> Nat] /\ \A n \in Nat : Pred[n] = n \div Base
  BY <1>1
<1>5. \A n \in Nat : n >= Base => Pred[n] < n
  BY <1>1, <1>4
<1>6. /\ F \in [Nat \X S -> S]
      /\ \A n \in Nat : \A t \in S : F[<<n, t>>] = Append(t, n % Base)
  <2>1. \A p \in Nat \X S : Append(p[2], p[1] % Base) \in S
    <3> TAKE p \in Nat \X S
    <3>1. p[1] \in Nat /\ p[2] \in S
      OBVIOUS
    <3> QED
      BY <1>1, <3>1, AppendProperties
  <2> QED
    BY <2>1
<1>7. \A n \in Nat : \A t \in S : Append(t, n % Base) \in S
  BY <1>1, AppendProperties
<1> HIDE DEF S, base, Pred, F
<1>8. IsRule(S, Base, base, Pred, F)
  BY <1>0, <1>3, <1>4, <1>5, <1>6, Zenon DEF IsRule
<1>9. PICK h : Solves(h, S, Base, base, Pred, F)
  BY <1>8, Recursion
<1>10. /\ h \in [Nat -> S]
       /\ \A n \in Nat : h[n] = IF n < Base THEN base[n] ELSE F[<<n, h[Pred[n]]>>]
  BY <1>9 DEF Solves
<1>11. ASSUME NEW n \in Nat
       PROVE  h[n] = IF n < Base THEN <<n>> ELSE Append(h[n \div Base], n % Base)
  <2>1. h[n \div Base] \in S
    BY <1>1, <1>10
  <2> QED
    BY <1>3, <1>4, <1>6, <1>10, <2>1
<1>12. Rule(h)
  BY <1>10, <1>11
<1>13. Digits = CHOOSE g : Rule(g)
  BY DEF Digits
<1>14. Rule(Digits)
  <2> HIDE DEF Rule
  <2> QED
    BY <1>12, <1>13
<1>15. \A n \in Nat :
         Digits[n] = IF n < Base THEN <<n>> ELSE Append(Digits[n \div Base], n % Base)
  BY <1>14
<1> HIDE DEF Rule
<1>16. \A n \in Nat : Digits[n] \in S
  <2> DEFINE Bad == {n \in Nat : Digits[n] \notin S}
  <2> SUFFICES ASSUME Bad # {} PROVE FALSE
    OBVIOUS
  <2>1. Bad \in SUBSET Nat
    OBVIOUS
  <2>2. PICK n \in Bad : \A i \in Bad : n <= i
    BY <2>1, LeastNumber
  <2>3. n \in Nat /\ Digits[n] \notin S
    BY <2>2
  <2>4. CASE n < Base
    <3>1. Digits[n] = <<n>>
      BY <1>15, <2>3, <2>4
    <3> QED
      BY <1>2, <2>3, <3>1
  <2>5. CASE ~(n < Base)
    <3>1. n \div Base \in Nat /\ n \div Base < n
      BY <1>0, <1>1, <2>3, <2>5
    <3>2. n \div Base \notin Bad
      BY <2>2, <2>3, <3>1
    <3>3. Digits[n] = Append(Digits[n \div Base], n % Base)
      BY <1>15, <2>3, <2>5
    <3>4. Digits[n \div Base] \in S
      BY <3>1, <3>2
    <3> QED
      BY <1>7, <2>3, <3>3, <3>4
  <2> QED
    BY <2>4, <2>5
<1>17. \A n \in Nat : n >= Base => ~(n < Base)
  BY <1>0
<1> QED
  BY <1>15, <1>16, <1>17 DEF S

(* & of two words, bit by bit.                                          *)
LEMMA AndDef ==
  /\ \A a \in Nat : \A b \in Nat : And[a][b] \in Nat
  /\ \A b \in Nat : And[0][b] = 0
  /\ \A a \in Nat : \A b \in Nat :
       a >= 1 => And[a][b] = 2 * And[a \div 2][b \div 2] + (a % 2) * (b % 2)
<1> DEFINE S    == [Nat -> Nat]
           Last(a, b) == (a % 2) * (b % 2)
           base == [n \in Nat |-> [b \in Nat |-> 0]]
           Pred == [n \in Nat |-> n \div 2]
           Up(a, g) == [b \in Nat |-> 2 * g[b \div 2] + Last(a, b)]
           F    == [p \in Nat \X S |-> Up(p[1], p[2])]
           Rule(f) == f = [a \in Nat |-> [b \in Nat |->
                             IF a = 0 THEN 0
                             ELSE 2 * f[a \div 2][b \div 2] + Last(a, b)]]
<1>1. \A n \in Nat : n \div 2 \in Nat /\ n % 2 \in 0 .. 1 /\ (n >= 1 => n \div 2 < n)
  OBVIOUS
<1>2. \A a \in Nat : \A b \in Nat : Last(a, b) \in Nat
  <2> TAKE a \in Nat
  <2> TAKE b \in Nat
  <2>1. a % 2 \in 0 .. 1 /\ b % 2 \in 0 .. 1
    BY <1>1
  <2>2. \A i \in 0 .. 1 : \A j \in 0 .. 1 : i * j \in Nat
    OBVIOUS
  <2> QED
    BY <2>1, <2>2
<1> HIDE DEF Last
<1>3. ASSUME NEW a \in Nat, NEW g \in S PROVE Up(a, g) \in S
  <2>1. \A b \in Nat : 2 * g[b \div 2] + Last(a, b) \in Nat
    BY <1>1, <1>2
  <2> QED
    BY <2>1
<1>4. /\ F \in [Nat \X S -> S]
      /\ \A a \in Nat : \A g \in S : F[<<a, g>>] = Up(a, g)
  <2> HIDE DEF Up, S
  <2>1. \A p \in Nat \X S : p[1] \in Nat /\ p[2] \in S /\ Up(p[1], p[2]) \in S
    BY <1>3
  <2> QED
    BY <2>1
<1>5. base \in [Nat -> S] /\ \A n \in Nat : base[n] = [b \in Nat |-> 0]
  OBVIOUS
<1>6. /\ Pred \in [Nat -> Nat]
      /\ \A n \in Nat : Pred[n] = n \div 2 /\ (n >= 1 => Pred[n] < n)
  BY <1>1
<1> HIDE DEF base, Pred, F, S, Up
<1>7. IsRule(S, 1, base, Pred, F)
  <2>1. 1 \in Nat \ {0}
    OBVIOUS
  <2> QED
    BY <1>4, <1>5, <1>6, <2>1, Zenon DEF IsRule
<1>8. PICK h : Solves(h, S, 1, base, Pred, F)
  BY <1>7, Recursion
<1>9. /\ h \in [Nat -> S]
      /\ \A n \in Nat : h[n] = IF n < 1 THEN base[n] ELSE F[<<n, h[Pred[n]]>>]
  BY <1>8 DEF Solves
<1>10. ASSUME NEW a \in Nat
       PROVE  h[a] = [b \in Nat |-> IF a = 0 THEN 0
                                    ELSE 2 * h[a \div 2][b \div 2] + Last(a, b)]
  <2>1. CASE a = 0
    <3>1. a < 1
      BY <2>1
    <3>2. h[a] = base[a]
      BY <1>9, <3>1
    <3>3. h[a] = [b \in Nat |-> 0]
      BY <1>5, <3>2
    <3> QED
      BY <2>1, <3>3
  <2>2. CASE a # 0
    <3>1. ~(a < 1) /\ Pred[a] = a \div 2 /\ a \div 2 \in Nat
      BY <1>1, <1>6, <2>2
    <3>2. h[a \div 2] \in S /\ h[a] = F[<<a, h[a \div 2]>>]
      BY <1>9, <3>1
    <3>3. h[a] = Up(a, h[a \div 2])
      BY <1>4, <3>2
    <3> QED
      BY <2>2, <3>3 DEF Up
  <2> QED
    BY <2>1, <2>2
<1>11. Rule(h)
  <2>1. h = [a \in Nat |-> h[a]]
    BY <1>9
  <2> QED
    BY <1>10, <2>1
<1>12. And = CHOOSE g : Rule(g)
  BY DEF And, Last
<1>13. Rule(And)
  <2> HIDE DEF Rule
  <2> QED
    BY <1>11, <1>12
<1>14. \A a \in Nat : And[a] = [b \in Nat |-> IF a = 0 THEN 0
                                  ELSE 2 * And[a \div 2][b \div 2] + Last(a, b)]
  <2> DEFINE r == And
  <2> HIDE DEF r
  <2>1. r = [a \in Nat |-> [b \in Nat |-> IF a = 0 THEN 0
                             ELSE 2 * r[a \div 2][b \div 2] + Last(a, b)]]
    BY <1>13 DEF r
  <2>2. \A a \in Nat : r[a] = [b \in Nat |-> IF a = 0 THEN 0
                                ELSE 2 * r[a \div 2][b \div 2] + Last(a, b)]
    BY <2>1
  <2> QED
    BY <2>2 DEF r
<1> HIDE DEF Rule
<1>15. \A a \in Nat : \A b \in Nat :
         And[a][b] = IF a = 0 THEN 0
                     ELSE 2 * And[a \div 2][b \div 2] + Last(a, b)
  BY <1>14
<1>16. \A a \in Nat : \A b \in Nat : And[a][b] \in Nat
  <2> DEFINE Bad == {a \in Nat : \E b \in Nat : And[a][b] \notin Nat}
  <2> SUFFICES ASSUME Bad # {} PROVE FALSE
    OBVIOUS
  <2>1. Bad \in SUBSET Nat
    OBVIOUS
  <2>2. PICK a \in Bad : \A i \in Bad : a <= i
    BY <2>1, LeastNumber
  <2>3. a \in Nat
    BY <2>2
  <2>4. PICK b \in Nat : And[a][b] \notin Nat
    BY <2>2
  <2>5. And[a][b] = IF a = 0 THEN 0
                    ELSE 2 * And[a \div 2][b \div 2] + Last(a, b)
    BY <1>15, <2>3
  <2>6. a # 0
    BY <2>4, <2>5
  <2>7. a \div 2 \in Nat /\ a \div 2 < a /\ b \div 2 \in Nat
    BY <1>1, <2>3, <2>6
  <2>8. a \div 2 \notin Bad
    BY <2>2, <2>3, <2>7
  <2>9. And[a \div 2][b \div 2] \in Nat
    BY <2>7, <2>8
  <2>10. Last(a, b) \in Nat
    BY <1>2, <2>3
  <2> QED
    BY <2>4, <2>5, <2>6, <2>9, <2>10
<1>17. 0 \in Nat /\ \A a \in Nat : a >= 1 => a # 0
  OBVIOUS
<1> QED
  BY <1>15, <1>16, <1>17 DEF Last

(* | of two words, bit by bit.                                          *)
LEMMA OrDef ==
  /\ \A a \in Nat : \A b \in Nat : Or[a][b] \in Nat
  /\ \A b \in Nat : Or[0][b] = b
  /\ \A a \in Nat : \A b \in Nat :
       a >= 1 => Or[a][b] = 2 * Or[a \div 2][b \div 2] + (IF a % 2 = 0 THEN b % 2 ELSE 1)
<1> DEFINE S    == [Nat -> Nat]
           Last(a, b) == (IF a % 2 = 0 THEN b % 2 ELSE 1)
           base == [n \in Nat |-> [b \in Nat |-> b]]
           Pred == [n \in Nat |-> n \div 2]
           Up(a, g) == [b \in Nat |-> 2 * g[b \div 2] + Last(a, b)]
           F    == [p \in Nat \X S |-> Up(p[1], p[2])]
           Rule(f) == f = [a \in Nat |-> [b \in Nat |->
                             IF a = 0 THEN b
                             ELSE 2 * f[a \div 2][b \div 2] + Last(a, b)]]
<1>1. \A n \in Nat : n \div 2 \in Nat /\ n % 2 \in 0 .. 1 /\ (n >= 1 => n \div 2 < n)
  OBVIOUS
<1>2. \A a \in Nat : \A b \in Nat : Last(a, b) \in Nat
  <2> TAKE a \in Nat
  <2> TAKE b \in Nat
  <2>1. a % 2 \in 0 .. 1 /\ b % 2 \in 0 .. 1
    BY <1>1
  <2>2. \A i \in 0 .. 1 : \A j \in 0 .. 1 : i * j \in Nat
    OBVIOUS
  <2> QED
    BY <2>1, <2>2
<1> HIDE DEF Last
<1>3. ASSUME NEW a \in Nat, NEW g \in S PROVE Up(a, g) \in S
  <2>1. \A b \in Nat : 2 * g[b \div 2] + Last(a, b) \in Nat
    BY <1>1, <1>2
  <2> QED
    BY <2>1
<1>4. /\ F \in [Nat \X S -> S]
      /\ \A a \in Nat : \A g \in S : F[<<a, g>>] = Up(a, g)
  <2> HIDE DEF Up, S
  <2>1. \A p \in Nat \X S : p[1] \in Nat /\ p[2] \in S /\ Up(p[1], p[2]) \in S
    BY <1>3
  <2> QED
    BY <2>1
<1>5. base \in [Nat -> S] /\ \A n \in Nat : base[n] = [b \in Nat |-> b]
  OBVIOUS
<1>6. /\ Pred \in [Nat -> Nat]
      /\ \A n \in Nat : Pred[n] = n \div 2 /\ (n >= 1 => Pred[n] < n)
  BY <1>1
<1> HIDE DEF base, Pred, F, S, Up
<1>7. IsRule(S, 1, base, Pred, F)
  <2>1. 1 \in Nat \ {0}
    OBVIOUS
  <2> QED
    BY <1>4, <1>5, <1>6, <2>1, Zenon DEF IsRule
<1>8. PICK h : Solves(h, S, 1, base, Pred, F)
  BY <1>7, Recursion
<1>9. /\ h \in [Nat -> S]
      /\ \A n \in Nat : h[n] = IF n < 1 THEN base[n] ELSE F[<<n, h[Pred[n]]>>]
  BY <1>8 DEF Solves
<1>10. ASSUME NEW a \in Nat
       PROVE  h[a] = [b \in Nat |-> IF a = 0 THEN b
                                    ELSE 2 * h[a \div 2][b \div 2] + Last(a, b)]
  <2>1. CASE a = 0
    <3>1. a < 1
      BY <2>1
    <3>2. h[a] = base[a]
      BY <1>9, <3>1
    <3>3. h[a] = [b \in Nat |-> b]
      BY <1>5, <3>2
    <3> QED
      BY <2>1, <3>3
  <2>2. CASE a # 0
    <3>1. ~(a < 1) /\ Pred[a] = a \div 2 /\ a \div 2 \in Nat
      BY <1>1, <1>6, <2>2
    <3>2. h[a \div 2] \in S /\ h[a] = F[<<a, h[a \div 2]>>]
      BY <1>9, <3>1
    <3>3. h[a] = Up(a, h[a \div 2])
      BY <1>4, <3>2
    <3> QED
      BY <2>2, <3>3 DEF Up
  <2> QED
    BY <2>1, <2>2
<1>11. Rule(h)
  <2>1. h = [a \in Nat |-> h[a]]
    BY <1>9
  <2> QED
    BY <1>10, <2>1
<1>12. Or = CHOOSE g : Rule(g)
  BY DEF Or, Last
<1>13. Rule(Or)
  <2> HIDE DEF Rule
  <2> QED
    BY <1>11, <1>12
<1>14. \A a \in Nat : Or[a] = [b \in Nat |-> IF a = 0 THEN b
                                  ELSE 2 * Or[a \div 2][b \div 2] + Last(a, b)]
  <2> DEFINE r == Or
  <2> HIDE DEF r
  <2>1. r = [a \in Nat |-> [b \in Nat |-> IF a = 0 THEN b
                             ELSE 2 * r[a \div 2][b \div 2] + Last(a, b)]]
    BY <1>13 DEF r
  <2>2. \A a \in Nat : r[a] = [b \in Nat |-> IF a = 0 THEN b
                                ELSE 2 * r[a \div 2][b \div 2] + Last(a, b)]
    BY <2>1
  <2> QED
    BY <2>2 DEF r
<1> HIDE DEF Rule
<1>15. \A a \in Nat : \A b \in Nat :
         Or[a][b] = IF a = 0 THEN b
                     ELSE 2 * Or[a \div 2][b \div 2] + Last(a, b)
  BY <1>14
<1>16. \A a \in Nat : \A b \in Nat : Or[a][b] \in Nat
  <2> DEFINE Bad == {a \in Nat : \E b \in Nat : Or[a][b] \notin Nat}
  <2> SUFFICES ASSUME Bad # {} PROVE FALSE
    OBVIOUS
  <2>1. Bad \in SUBSET Nat
    OBVIOUS
  <2>2. PICK a \in Bad : \A i \in Bad : a <= i
    BY <2>1, LeastNumber
  <2>3. a \in Nat
    BY <2>2
  <2>4. PICK b \in Nat : Or[a][b] \notin Nat
    BY <2>2
  <2>5. Or[a][b] = IF a = 0 THEN b
                    ELSE 2 * Or[a \div 2][b \div 2] + Last(a, b)
    BY <1>15, <2>3
  <2>6. a # 0
    BY <2>4, <2>5
  <2>7. a \div 2 \in Nat /\ a \div 2 < a /\ b \div 2 \in Nat
    BY <1>1, <2>3, <2>6
  <2>8. a \div 2 \notin Bad
    BY <2>2, <2>3, <2>7
  <2>9. Or[a \div 2][b \div 2] \in Nat
    BY <2>7, <2>8
  <2>10. Last(a, b) \in Nat
    BY <1>2, <2>3
  <2> QED
    BY <2>4, <2>5, <2>6, <2>9, <2>10
<1>17. 0 \in Nat /\ \A a \in Nat : a >= 1 => a # 0
  OBVIOUS
<1> QED
  BY <1>15, <1>16, <1>17 DEF Last

(* Words that fit into some bits: so do their & and |.  Together they are  *)
(* the two words.                                                          *)
LEMMA BitsOfWords ==
  \A n \in Nat : \A a \in Nat : \A b \in Nat :
    a < Power(2)[n] /\ b < Power(2)[n] =>
      /\ And[a][b] < Power(2)[n] /\ Or[a][b] < Power(2)[n]
      /\ And[a][b] + Or[a][b] = a + b
<1> DEFINE Good(n, a, b) ==
             a < Power(2)[n] /\ b < Power(2)[n] =>
               /\ And[a][b] < Power(2)[n] /\ Or[a][b] < Power(2)[n]
               /\ And[a][b] + Or[a][b] = a + b
           Bad == {n \in Nat : \E a \in Nat : \E b \in Nat : ~Good(n, a, b)}
<1> SUFFICES ASSUME Bad # {} PROVE FALSE
  OBVIOUS
<1>1. Bad \in SUBSET Nat
  OBVIOUS
<1>2. PICK n \in Bad : \A i \in Bad : n <= i
  BY <1>1, LeastNumber
<1>3. n \in Nat
  BY <1>2
<1>4. PICK a \in Nat : \E b \in Nat : ~Good(n, a, b)
  BY <1>2
<1>5. PICK b \in Nat : ~Good(n, a, b)
  BY <1>4
<1> DEFINE P == Power(2)[n]
           r == And[a][b]
           s == Or[a][b]
<1>6. a < P /\ b < P /\ ~(r < P /\ s < P /\ r + s = a + b)
  BY <1>5
<1>7. /\ P \in Nat /\ Power(2)[0] = 1 /\ (n >= 1 => P = 2 * Power(2)[n - 1])
      /\ (n >= 1 => Power(2)[n - 1] \in Nat)
  <2>1. 2 \in Nat
    OBVIOUS
  <2>2. n >= 1 => n - 1 \in Nat
    BY <1>3
  <2> QED
    BY <1>3, <2>1, <2>2, PowerDef
<1>8. a # 0
  <2> SUFFICES ASSUME a = 0 PROVE FALSE
    OBVIOUS
  <2>1. r = 0 /\ s = b
    BY AndDef, OrDef
  <2> QED
    BY <1>6, <1>7, <2>1
<1>9. n >= 1
  <2> SUFFICES ASSUME n = 0 PROVE FALSE
    BY <1>3
  <2> QED
    BY <1>6, <1>7, <1>8
<1> DEFINE Q == Power(2)[n - 1]
           c == a \div 2
           d == b \div 2
           t == And[c][d]
           u == Or[c][d]
           i == a % 2
           j == b % 2
<1>10. /\ c \in Nat /\ d \in Nat /\ i \in 0 .. 1 /\ j \in 0 .. 1
       /\ a = 2 * c + i /\ b = 2 * d + j
  OBVIOUS
<1>11. /\ t \in Nat /\ u \in Nat
       /\ r = 2 * t + i * j
       /\ s = 2 * u + (IF i = 0 THEN j ELSE 1)
  <2>1. a >= 1
    BY <1>8
  <2> QED
    BY <1>10, <2>1, AndDef, OrDef
<1>12. n - 1 \in Nat /\ n - 1 \notin Bad
  BY <1>2, <1>3, <1>9
<1>13. Good(n - 1, c, d)
  <2> HIDE DEF Good
  <2> QED
    BY <1>10, <1>12
<1>14. c < Q /\ d < Q => t < Q /\ u < Q /\ t + u = c + d
  BY <1>13
<1>15. P = 2 * Q /\ Q \in Nat
  BY <1>7, <1>9
<1> HIDE DEF P, r, s, Q, c, d, t, u, i, j, Good, Bad
<1>16. c < Q /\ d < Q
  BY <1>6, <1>10, <1>15
<1>17. t < Q /\ u < Q /\ t + u = c + d
  BY <1>14, <1>16
<1>18. /\ i * j \in 0 .. 1 /\ (IF i = 0 THEN j ELSE 1) \in 0 .. 1
       /\ i * j + (IF i = 0 THEN j ELSE 1) = i + j
  <2>1. i = 0 \/ i = 1
    BY <1>10
  <2>2. j = 0 \/ j = 1
    BY <1>10
  <2> QED
    BY <2>1, <2>2
<1> DEFINE k == i * j
           l == IF i = 0 THEN j ELSE 1
<1>19. k \in 0 .. 1 /\ l \in 0 .. 1 /\ k + l = i + j /\ r = 2 * t + k /\ s = 2 * u + l
  BY <1>11, <1>18
<1> HIDE DEF k, l
<1>20. r < P /\ s < P /\ r + s = a + b
  BY <1>10, <1>11, <1>15, <1>17, <1>19
<1> QED
  BY <1>6, <1>20

(* operator+= of & and | of two uint128_t: the same low words are added,   *)
(* and the same carry is seen.                                             *)
LEMMA BitwiseSum ==
  ASSUME NEW a \in Values, NEW b \in Values
  PROVE  Sum128(a, b) = Sum128(BitAnd(a, b), BitOr(a, b))
<1>1. PICK bits \in 1 .. Word : Word = Power(2)[bits]
  BY BitsAssumption
<1>2. bits \in Nat /\ Word \in Nat /\ Word >= 2
  BY WordAssumption
<1>3. ASSUME NEW c \in Words, NEW d \in Words
      PROVE  And[c][d] \in Words /\ Or[c][d] \in Words /\ And[c][d] + Or[c][d] = c + d
  <2>1. c \in Nat /\ d \in Nat /\ c < Power(2)[bits] /\ d < Power(2)[bits]
    BY <1>1, <1>2 DEF Words
  <2>2. /\ And[c][d] < Word /\ Or[c][d] < Word /\ And[c][d] + Or[c][d] = c + d
    BY <1>1, <1>2, <2>1, BitsOfWords
  <2>3. And[c][d] \in Nat /\ Or[c][d] \in Nat
    BY <2>1, AndDef, OrDef
  <2> QED
    BY <1>2, <2>2, <2>3 DEF Words
<1> DEFINE h == a.high
           l == a.low
           g == b.high
           r == b.low
           p == BitAnd(a, b)
           q == BitOr(a, b)
<1>4. h \in Words /\ l \in Words /\ g \in Words /\ r \in Words
  BY DEF Values
<1>5. p.high = And[h][g] /\ p.low = And[l][r] /\ q.high = Or[h][g] /\ q.low = Or[l][r]
  BY DEF BitAnd, BitOr
<1>6. /\ p.high \in Words /\ q.high \in Words /\ p.high + q.high = h + g
      /\ p.low \in Words /\ q.low \in Words /\ p.low + q.low = l + r
  BY <1>3, <1>4, <1>5
<1> HIDE DEF p, q
<1>7. ASSUME NEW c \in Words, NEW d \in Words
      PROVE  /\ Wrap(c + Wrap(d + 1)) = Wrap(c + d + 1)
             /\ Wrap(c + d) < c <=> c + d >= Word
  BY <1>2 DEF Words, Wrap
<1>8. Wrap(l + r) < l <=> Wrap(p.low + q.low) < p.low
  BY <1>4, <1>6, <1>7
<1>9. Wrap(h + Wrap(g + 1)) = Wrap(p.high + Wrap(q.high + 1))
  <2>1. p.high + q.high + 1 = h + g + 1
    BY <1>6
  <2> QED
    BY <1>4, <1>6, <1>7, <2>1
<1>10. Sum128(a, b) = [high |-> IF Wrap(l + r) < l THEN Wrap(h + Wrap(g + 1)) ELSE Wrap(h + g),
                       low |-> Wrap(l + r)]
  BY DEF Sum128
<1>11. Sum128(p, q) = [high |-> IF Wrap(p.low + q.low) < p.low
                                THEN Wrap(p.high + Wrap(q.high + 1))
                                ELSE Wrap(p.high + q.high),
                       low |-> Wrap(p.low + q.low)]
  BY DEF Sum128
<1>12. Sum128(a, b) = Sum128(p, q)
  <2>1. Wrap(l + r) = Wrap(p.low + q.low) /\ Wrap(h + g) = Wrap(p.high + q.high)
    BY <1>6
  <2>2. (IF Wrap(l + r) < l THEN Wrap(h + Wrap(g + 1)) ELSE Wrap(h + g))
          = (IF Wrap(p.low + q.low) < p.low THEN Wrap(p.high + Wrap(q.high + 1))
             ELSE Wrap(p.high + q.high))
    BY <1>8, <1>9, <2>1
  <2> QED
    BY <1>10, <1>11, <2>1, <2>2
<1> QED
  BY <1>12 DEF p, q

-----------------------------------------------------------------------------
(* Strings.                                                                *)

(* What snprintf and operator<< write of a word is at least one digit.     *)
LEMMA DigitsShape ==
  \A n \in Nat : /\ Len(Digits[n]) \in Nat \ {0}
                 /\ \A i \in 1 .. Len(Digits[n]) : IsDigit(Digits[n][i])
<1> DEFINE Good(n) == /\ Len(Digits[n]) \in Nat \ {0}
                      /\ \A i \in 1 .. Len(Digits[n]) : IsDigit(Digits[n][i])
           Bad == {n \in Nat : ~Good(n)}
<1> SUFFICES ASSUME Bad # {} PROVE FALSE
  OBVIOUS
<1> HIDE DEF Good
<1>1. Bad \in SUBSET Nat
  OBVIOUS
<1>2. PICK n \in Bad : \A i \in Bad : n <= i
  BY <1>1, LeastNumber
<1>3. n \in Nat /\ ~Good(n) /\ Base \in Nat /\ Base >= 2
  BY <1>2, DigitsAssumption
<1>4. CASE n < Base
  <2> DEFINE s == Digits[n]
  <2>1. s = <<n>>
    BY <1>3, <1>4, DigitsDef
  <2>2. Len(s) = 1 /\ s[1] = n /\ IsDigit(n)
    BY <1>3, <1>4, <2>1 DEF IsDigit
  <2> HIDE DEF s
  <2>3. \A i \in 1 .. Len(s) : IsDigit(s[i])
    <3>1. \A i \in 1 .. Len(s) : i = 1
      BY <2>2
    <3> QED
      BY <2>2, <3>1
  <2> QED
    BY <1>3, <2>2, <2>3 DEF Good, s
<1>5. CASE ~(n < Base)
  <2> DEFINE m == n \div Base
             c == n % Base
             s == Digits[n]
             t == Digits[m]
  <2>1. m \in Nat /\ m < n /\ c \in Nat /\ c < Base
    BY <1>3, <1>5, Division
  <2>2. m \notin Bad
    BY <1>2, <1>3, <2>1
  <2>3. Good(m)
    BY <2>1, <2>2
  <2>4. s = Append(t, c) /\ t \in Seq(Nat)
    BY <1>3, <1>5, <2>1, DigitsDef
  <2>5. Len(t) \in Nat \ {0} /\ \A i \in 1 .. Len(t) : IsDigit(t[i])
    BY <2>3 DEF Good
  <2>6. IsDigit(c)
    BY <1>3, <2>1 DEF IsDigit
  <2> HIDE DEF s, m, c, t
  <2>7. Len(s) = Len(t) + 1 /\ s[Len(s)] = c /\ \A i \in 1 .. Len(t) : s[i] = t[i]
    BY <2>1, <2>4, AppendProperties
  <2>8. \A i \in 1 .. Len(s) : IsDigit(s[i])
    <3>1. \A i \in 1 .. Len(s) : i \in 1 .. Len(t) \/ i = Len(s)
      BY <2>5, <2>7
    <3> QED
      BY <2>5, <2>6, <2>7, <3>1
  <2>9. Len(s) \in Nat \ {0}
    BY <2>5, <2>7
  <2> QED
    BY <1>3, <2>8, <2>9 DEF Good, s
<1> QED
  BY <1>4, <1>5

(* A word below a power of the base has no more digits than the power: the *)
(* buffer of getString() is large enough.                                  *)
LEMMA DigitsFit ==
  \A n \in Nat : \A w \in Nat : n >= 1 /\ w < Power(Base)[n] => Len(Digits[w]) <= n
<1> DEFINE Bad == {n \in Nat : n >= 1 /\ \E w \in Nat : /\ w < Power(Base)[n]
                                                         /\ ~(Len(Digits[w]) <= n)}
<1> SUFFICES ASSUME Bad # {} PROVE FALSE
  OBVIOUS
<1>1. Bad \in SUBSET Nat
  OBVIOUS
<1>2. PICK n \in Bad : \A i \in Bad : n <= i
  BY <1>1, LeastNumber
<1>3. n \in Nat /\ n >= 1 /\ Base \in Nat /\ Base >= 2
  BY <1>2, DigitsAssumption
<1>4. PICK w \in Nat : w < Power(Base)[n] /\ ~(Len(Digits[w]) <= n)
  BY <1>2
<1>5. ~(w < Base)
  <2> SUFFICES ASSUME w < Base PROVE FALSE
    OBVIOUS
  <2>1. Digits[w] = <<w>>
    BY DigitsDef
  <2>2. Len(Digits[w]) = 1
    BY <2>1
  <2> QED
    BY <1>3, <1>4, <2>2
<1> DEFINE m == w \div Base
           c == w % Base
           s == Digits[w]
           t == Digits[m]
           P == Power(Base)[n]
           Q == Power(Base)[n - 1]
<1>6. m \in Nat /\ c \in Nat /\ w = Base * m + c
  BY <1>3, Division
<1>7. P = Base * Q /\ Q \in Nat /\ n - 1 \in Nat
  <2>1. n - 1 \in Nat
    BY <1>3
  <2> QED
    BY <1>3, <2>1, PowerDef
<1>8. s = Append(t, c) /\ t \in Seq(Nat)
  <2>1. w >= Base
    BY <1>3, <1>5
  <2> HIDE DEF Bad
  <2>2. Digits[w] = Append(Digits[w \div Base], w % Base)
    BY <2>1, DigitsDef
  <2>3. Digits[w \div Base] \in Seq(Nat)
    BY <1>6, DigitsDef
  <2> QED
    BY <2>2, <2>3
<1>9. w < P /\ ~(Len(s) <= n)
  BY <1>4
<1>10. Len(s) = Len(t) + 1 /\ Len(t) \in Nat
  <2> HIDE DEF s, t, c, m
  <2> QED
    BY <1>6, <1>8, AppendProperties, LenProperties
<1> HIDE DEF P
<1>11. m < Q
  <2> HIDE DEF m, c, Q
  <2> SUFFICES ASSUME Q <= m PROVE FALSE
    BY <1>6, <1>7
  <2>1. Q * Base <= m * Base
    BY <1>3, <1>6, <1>7, ProductMonotonic
  <2>2. Q * Base = Base * Q /\ m * Base = Base * m /\ Base * m \in Nat /\ Base * Q \in Nat
    BY <1>3, <1>6, <1>7
  <2> QED
    BY <1>6, <1>7, <1>9, <2>1, <2>2
<1>12. n - 1 >= 1
  <2> SUFFICES ASSUME n - 1 = 0 PROVE FALSE
    BY <1>3
  <2>1. Q = 1
    BY <1>3, PowerDef
  <2>2. m = 0
    BY <1>6, <1>11, <2>1
  <2>3. w = c /\ c < Base
    <3>1. Base * m = 0
      BY <1>3, <2>2
    <3>2. c < Base
      BY <1>3, Division
    <3> HIDE DEF m, c
    <3> QED
      BY <1>6, <3>1, <3>2
  <2> QED
    BY <1>5, <2>3
<1>13. n - 1 \notin Bad
  BY <1>2, <1>3, <1>7
<1>14. Len(t) <= n - 1
  BY <1>6, <1>7, <1>11, <1>12, <1>13
<1> HIDE DEF s, t
<1> QED
  BY <1>3, <1>9, <1>10, <1>14


\* What strtoull reads, digit by digit.
ReadOf(s) ==
  CHOOSE f : f = [i \in 0 .. Len(s) |->
                    IF i = 0 THEN 0
                    ELSE IF f[i - 1] * Base + s[i] < Word THEN f[i - 1] * Base + s[i]
                    ELSE Word - 1]

(* The loop of strtoull() over a string: the function it stands for        *)
(* exists.                                                                 *)
LEMMA ReadOfDef ==
  ASSUME NEW s \in Seq(Nat)
  PROVE  /\ ReadOf(s)[0] = 0
         /\ \A i \in 1 .. Len(s) :
              ReadOf(s)[i] = IF ReadOf(s)[i - 1] * Base + s[i] < Word
                             THEN ReadOf(s)[i - 1] * Base + s[i] ELSE Word - 1
<1>1. /\ Len(s) \in Nat /\ Base \in Nat /\ Word \in Nat /\ Word - 1 \in Nat
      /\ \A i \in 1 .. Len(s) : s[i] \in Nat
  BY LenProperties, DigitsAssumption, WordAssumption
<1> DEFINE base == [n \in Nat |-> 0]
           Pred == [n \in Nat |-> IF n = 0 THEN 0 ELSE n - 1]
           More(n, k) == IF n \notin 1 .. Len(s) THEN 0
                         ELSE IF k * Base + s[n] < Word THEN k * Base + s[n] ELSE Word - 1
           F    == [p \in Nat \X Nat |-> More(p[1], p[2])]
           Rule(f) == f = [i \in 0 .. Len(s) |->
                             IF i = 0 THEN 0
                             ELSE IF f[i - 1] * Base + s[i] < Word
                                  THEN f[i - 1] * Base + s[i]
                             ELSE Word - 1]
<1>2. \A n \in Nat : \A k \in Nat : More(n, k) \in Nat
  BY <1>1
<1>3. /\ F \in [Nat \X Nat -> Nat]
      /\ \A n \in Nat : \A k \in Nat : F[<<n, k>>] = More(n, k)
  <2> HIDE DEF More
  <2>1. \A p \in Nat \X Nat : p[1] \in Nat /\ p[2] \in Nat
    OBVIOUS
  <2> QED
    BY <1>2, <2>1
<1>4. /\ base \in [Nat -> Nat] /\ Pred \in [Nat -> Nat]
      /\ \A n \in Nat : n >= 1 => Pred[n] < n
      /\ \A n \in Nat : base[n] = 0
      /\ \A n \in Nat : n # 0 => Pred[n] = n - 1
  OBVIOUS
<1> HIDE DEF base, Pred, F
<1>5. IsRule(Nat, 1, base, Pred, F)
  <2>1. 1 \in Nat \ {0}
    OBVIOUS
  <2> QED
    BY <1>3, <1>4, <2>1, Zenon DEF IsRule
<1>6. PICK h : Solves(h, Nat, 1, base, Pred, F)
  BY <1>5, Recursion
<1>7. /\ h \in [Nat -> Nat]
      /\ \A n \in Nat : h[n] = IF n < 1 THEN base[n] ELSE F[<<n, h[Pred[n]]>>]
  BY <1>6 DEF Solves
<1>8. h[0] = 0
  <2>1. 0 \in Nat /\ 0 < 1
    OBVIOUS
  <2>2. h[0] = base[0] /\ base[0] = 0
    BY <1>4, <1>7, <2>1
  <2> QED
    BY <2>2
<1>9. ASSUME NEW i \in 1 .. Len(s)
      PROVE  h[i] = IF h[i - 1] * Base + s[i] < Word THEN h[i - 1] * Base + s[i]
                    ELSE Word - 1
  <2>1. i \in Nat /\ ~(i < 1) /\ Pred[i] = i - 1 /\ i - 1 \in Nat
    BY <1>1, <1>4
  <2>2. h[i - 1] \in Nat
    BY <1>7, <2>1
  <2>3. h[i] = F[<<i, h[i - 1]>>]
    BY <1>7, <2>1
  <2>4. h[i] = More(i, h[i - 1])
    BY <1>3, <2>1, <2>2, <2>3
  <2> QED
    BY <2>4
<1> DEFINE f == [i \in 0 .. Len(s) |-> h[i]]
<1>10. Rule(f)
  <2>1. \A i \in 0 .. Len(s) : i # 0 => i \in 1 .. Len(s) /\ i - 1 \in 0 .. Len(s)
    BY <1>1
  <2>2. \A i \in 0 .. Len(s) : f[i] = h[i]
    OBVIOUS
  <2>3. ASSUME NEW i \in 0 .. Len(s)
        PROVE  h[i] = IF i = 0 THEN 0
                      ELSE IF f[i - 1] * Base + s[i] < Word THEN f[i - 1] * Base + s[i]
                      ELSE Word - 1
    <3> HIDE DEF f
    <3>1. CASE i = 0
      BY <1>8, <3>1
    <3>2. CASE i # 0
      <4>1. i \in 1 .. Len(s) /\ f[i - 1] = h[i - 1]
        BY <2>1, <2>2, <3>2
      <4> QED
        BY <1>9, <3>2, <4>1
    <3> QED
      BY <3>1, <3>2
  <2> QED
    BY <2>3
<1>11. ReadOf(s) = CHOOSE g : Rule(g)
  BY DEF ReadOf
<1> DEFINE r == ReadOf(s)
<1>12. Rule(r)
  <2> HIDE DEF Rule, f
  <2> QED
    BY <1>10, <1>11
<1> HIDE DEF r, f
<1>13. 0 \in 0 .. Len(s) /\ \A i \in 1 .. Len(s) : i \in 0 .. Len(s) /\ i # 0
  BY <1>1
<1>14. \A i \in 0 .. Len(s) :
         r[i] = IF i = 0 THEN 0
                ELSE IF r[i - 1] * Base + s[i] < Word THEN r[i - 1] * Base + s[i]
                ELSE Word - 1
  BY <1>12
<1> HIDE DEF Rule
<1>15. r[0] = 0
  BY <1>13, <1>14
<1>16. \A i \in 1 .. Len(s) :
         r[i] = IF r[i - 1] * Base + s[i] < Word THEN r[i - 1] * Base + s[i] ELSE Word - 1
  BY <1>13, <1>14
<1> QED
  BY <1>15, <1>16 DEF r

\* s begins with the digits of w.
Begins(s, w) ==
  Len(s) >= Len(Digits[w]) /\ \A i \in 1 .. Len(Digits[w]) : s[i] = Digits[w][i]

(* Reading the digits of a word makes the word again: nothing saturates.   *)
LEMMA DigitsRead ==
  ASSUME NEW s \in Seq(Nat)
  PROVE  \A w \in Words : Begins(s, w) => ReadOf(s)[Len(Digits[w])] = w
<1> DEFINE Bad == {w \in Words : Begins(s, w) /\ ReadOf(s)[Len(Digits[w])] # w}
<1> SUFFICES ASSUME Bad # {} PROVE FALSE
  OBVIOUS
<1>0. Base \in Nat /\ Base >= 2 /\ Word \in Nat /\ Len(s) \in Nat
  BY DigitsAssumption, WordAssumption, LenProperties
<1>1. Bad \in SUBSET Nat
  BY <1>0 DEF Words
<1>2. PICK w \in Bad : \A i \in Bad : w <= i
  BY <1>1, LeastNumber
<1>3. /\ w \in Nat /\ w < Word /\ Begins(s, w) /\ ReadOf(s)[Len(Digits[w])] # w
  BY <1>0, <1>2 DEF Words
<1> DEFINE D == Digits[w]
           r == ReadOf(s)
<1>4. /\ Len(D) \in Nat \ {0} /\ Len(s) >= Len(D) /\ \A i \in 1 .. Len(D) : s[i] = D[i]
  BY <1>3, DigitsShape DEF Begins
<1>5. /\ r[0] = 0
      /\ \A i \in 1 .. Len(s) : r[i] = IF r[i - 1] * Base + s[i] < Word
                                       THEN r[i - 1] * Base + s[i] ELSE Word - 1
  BY ReadOfDef
<1>6. CASE w < Base
  <2>1. D = <<w>>
    BY <1>3, <1>6, DigitsDef
  <2>2. Len(D) = 1 /\ D[1] = w
    BY <2>1
  <2> HIDE DEF D, r
  <2>3. s[1] = w /\ 1 \in 1 .. Len(s)
    BY <1>0, <1>4, <2>2
  <2>4. r[1] = IF r[0] * Base + s[1] < Word THEN r[0] * Base + s[1] ELSE Word - 1
    <3>1. 1 - 1 = 0
      OBVIOUS
    <3> QED
      BY <1>5, <2>3, <3>1
  <2>5. r[0] * Base + s[1] = w
    BY <1>0, <1>3, <1>5, <2>3
  <2>6. r[1] = w
    BY <1>3, <2>4, <2>5
  <2> QED
    BY <1>3, <2>2, <2>6 DEF D, r
<1>7. CASE ~(w < Base)
  <2> DEFINE m == w \div Base
             c == w % Base
             t == Digits[m]
  <2>1. m \in Nat /\ m < w /\ c \in Nat /\ w = Base * m + c
    BY <1>0, <1>3, <1>7, Division
  <2>2. D = Append(t, c) /\ t \in Seq(Nat)
    <3>1. w >= Base
      BY <1>0, <1>3, <1>7
    <3> HIDE DEF Bad
    <3> QED
      BY <1>3, <2>1, <3>1, DigitsDef
  <2>3. m \in Words
    BY <1>0, <1>3, <2>1 DEF Words
  <2>4. m \notin Bad
    BY <1>2, <1>3, <2>1
  <2>5. Begins(s, m) => r[Len(t)] = m
    BY <2>3, <2>4
  <2>6. Begins(s, m) <=> Len(s) >= Len(t) /\ \A i \in 1 .. Len(t) : s[i] = t[i]
    BY DEF Begins
  <2> HIDE DEF D, r, m, c, t, Bad
  <2>7. Len(D) = Len(t) + 1 /\ D[Len(D)] = c /\ \A i \in 1 .. Len(t) : D[i] = t[i]
    BY <2>1, <2>2, AppendProperties
  <2>8. Len(t) \in Nat /\ \A i \in 1 .. Len(t) : i \in 1 .. Len(D)
    BY <2>2, <2>7, LenProperties
  <2>9. Len(s) >= Len(t) /\ \A i \in 1 .. Len(t) : s[i] = t[i]
    BY <1>0, <1>4, <2>7, <2>8
  <2>10. r[Len(t)] = m
    BY <2>5, <2>6, <2>9
  <2>11. Len(D) \in 1 .. Len(s) /\ Len(D) \in 1 .. Len(D) /\ Len(D) - 1 = Len(t)
    BY <1>0, <1>4, <2>7, <2>8
  <2>12. s[Len(D)] = c
    BY <1>4, <2>7, <2>11
  <2>13. r[Len(D)] = IF m * Base + c < Word THEN m * Base + c ELSE Word - 1
    BY <1>5, <2>10, <2>11, <2>12
  <2>14. m * Base + c = w
    BY <1>0, <2>1
  <2>15. r[Len(D)] = w
    BY <1>3, <2>13, <2>14
  <2> QED
    BY <1>3, <2>15 DEF D, r
<1> QED
  BY <1>6, <1>7

(* strtoull() reads the word that a string begins with, if no more digits  *)
(* follow, and stops behind it.                                            *)
LEMMA StrtoullReads ==
  ASSUME NEW s \in Seq(Nat), NEW w \in Words, Begins(s, w),
         Len(Digits[w]) < Len(s) => ~IsDigit(s[Len(Digits[w]) + 1])
  PROVE  /\ Strtoull(s).value = w
         /\ Strtoull(s).next = SubSeq(s, Len(Digits[w]) + 1, Len(s))
<1> DEFINE d == Len(Digits[w])
           Is(e) == /\ \A i \in 1 .. e : IsDigit(s[i])
                    /\ e < Len(s) => ~IsDigit(s[e + 1])
           end == CHOOSE e \in 0 .. Len(s) : Is(e)
<1>1. w \in Nat /\ Len(s) \in Nat
  BY WordAssumption, LenProperties DEF Words
<1>2. /\ d \in Nat \ {0} /\ d <= Len(s)
      /\ \A i \in 1 .. d : s[i] = Digits[w][i] /\ IsDigit(Digits[w][i])
  BY <1>1, DigitsShape DEF Begins
<1>3. Strtoull(s) = [value |-> ReadOf(s)[end], next |-> SubSeq(s, end + 1, Len(s))]
  BY DEF Strtoull, ReadOf
<1>4. d \in 0 .. Len(s) /\ Is(d)
  <2>1. d < Len(s) => ~IsDigit(s[d + 1])
    OBVIOUS
  <2>2. \A i \in 1 .. d : IsDigit(s[i])
    <3> HIDE DEF d
    <3> QED
      BY <1>2
  <2>3. d \in 0 .. Len(s)
    <3> HIDE DEF d
    <3> QED
      BY <1>1, <1>2
  <2> QED
    BY <2>1, <2>2, <2>3
<1>5. end \in 0 .. Len(s) /\ Is(end)
  <2> HIDE DEF d, Is
  <2> QED
    BY <1>4
<1> HIDE DEF d, end
<1>6. end = d
  <2>1. ~(end < d)
    <3> SUFFICES ASSUME end < d PROVE FALSE
      OBVIOUS
    <3>1. end < Len(s) /\ end + 1 \in 1 .. d
      BY <1>1, <1>2, <1>5
    <3> QED
      BY <1>4, <1>5, <3>1
  <2>2. ~(d < end)
    <3> SUFFICES ASSUME d < end PROVE FALSE
      OBVIOUS
    <3>1. d < Len(s) /\ d + 1 \in 1 .. end
      BY <1>1, <1>2, <1>5
    <3> QED
      BY <1>4, <1>5, <3>1
  <2> QED
    BY <1>1, <1>2, <1>5, <2>1, <2>2
<1>7. ReadOf(s)[d] = w
  BY DigitsRead DEF d
<1> QED
  BY <1>3, <1>6, <1>7 DEF d


\* s is the digits of h, a separator and the digits of l.
Spells(s, h, sep, l) ==
  /\ s \in Seq(Nat)
  /\ Len(s) = Len(Digits[h]) + Len(sep) + Len(Digits[l])
  /\ \A i \in 1 .. Len(Digits[h]) : s[i] = Digits[h][i]
  /\ \A i \in 1 .. Len(sep) : s[Len(Digits[h]) + i] = sep[i]
  /\ \A i \in 1 .. Len(Digits[l]) : s[Len(Digits[h]) + Len(sep) + i] = Digits[l][i]

Separators == {<<Colon>>, EscapedColon}

(* Neither the colon nor its escape begins with a digit.                   *)
LEMMA SeparatorFacts ==
  ASSUME NEW sep \in Separators
  PROVE  /\ sep \in Seq(Nat) /\ Len(sep) \in Nat \ {0} /\ ~IsDigit(sep[1])
         /\ Len(sep) = IF sep = EscapedColon THEN 4 ELSE 1
         /\ sep # EscapedColon => sep = <<Colon>> /\ sep[1] # EscapedColon[1]
         /\ Len(EscapedColon) = 4
<1>1. Base \in Nat /\ Base - 1 \in Nat /\ Base + 1 \in Nat /\ Base # Base + 1
  BY DigitsAssumption
<1>2. /\ <<Colon>> \in Seq(Nat) /\ Len(<<Colon>>) = 1 /\ <<Colon>>[1] = Base
  BY <1>1 DEF Colon
<1>3. /\ EscapedColon \in Seq(Nat) /\ Len(EscapedColon) = 4 /\ EscapedColon[1] = Base + 1
  BY <1>1 DEF EscapedColon, Backslash
<1>4. ~IsDigit(Base) /\ ~IsDigit(Base + 1)
  BY <1>1 DEF IsDigit
<1>5. CASE sep = EscapedColon
  BY <1>3, <1>4, <1>5
<1>6. CASE sep # EscapedColon
  <2>1. sep = <<Colon>>
    BY <1>6 DEF Separators
  <2> QED
    BY <1>1, <1>2, <1>3, <1>4, <1>6, <2>1
<1> QED
  BY <1>5, <1>6

(* What is left of a string behind its first m characters.                 *)
LEMMA Behind ==
  ASSUME NEW s \in Seq(Nat), NEW m \in 0 .. Len(s)
  PROVE  /\ SubSeq(s, m + 1, Len(s)) \in Seq(Nat)
         /\ Len(SubSeq(s, m + 1, Len(s))) = Len(s) - m
         /\ \A i \in 1 .. Len(s) - m : SubSeq(s, m + 1, Len(s))[i] = s[m + i]
<1> DEFINE n == Len(s)
<1>1. n \in Nat /\ \A i \in m + 1 .. n : s[i] \in Nat
  BY LenProperties
<1>2. m \in 0 .. n
  OBVIOUS
<1> HIDE DEF n
<1> DEFINE t == SubSeq(s, m + 1, n)
<1>3. m \in Int /\ m + 1 \in Int /\ n \in Int
  BY <1>1, <1>2
<1>4. /\ t \in Seq(Nat) /\ Len(t) = IF m + 1 <= n THEN n - (m + 1) + 1 ELSE 0
      /\ \A i \in 1 .. n - (m + 1) + 1 : t[i] = s[m + 1 + i - 1]
  BY <1>1, <1>3, SubSeqProperties
<1> HIDE DEF t
<1>5. Len(t) = n - m
  BY <1>1, <1>2, <1>4
<1>6. ASSUME NEW i \in 1 .. n - m PROVE t[i] = s[m + i]
  <2>1. i \in 1 .. n - (m + 1) + 1 /\ m + 1 + i - 1 = m + i
    BY <1>1, <1>2
  <2> QED
    BY <1>4, <2>1
<1> QED
  BY <1>4, <1>5, <1>6 DEF t, n

(* operator=(std::string) reads the two words of such a string.            *)
LEMMA FromStringReads ==
  ASSUME NEW h \in Words, NEW l \in Words, NEW sep \in Separators,
         NEW s, Spells(s, h, sep, l)
  PROVE  FromString(s) = [high |-> h, low |-> l]
<1> DEFINE a == Len(Digits[h])
           k == Len(sep)
           b == Len(Digits[l])
           n == SubSeq(s, a + 1, Len(s))
           t == SubSeq(n, k + 1, Len(n))
<1>1. h \in Nat /\ l \in Nat
  BY WordAssumption DEF Words
<1>2. a \in Nat \ {0} /\ b \in Nat \ {0} /\ \A i \in 1 .. b : IsDigit(Digits[l][i])
  BY <1>1, DigitsShape
<1>3. /\ sep \in Seq(Nat) /\ k \in Nat \ {0} /\ ~IsDigit(sep[1])
      /\ k = IF sep = EscapedColon THEN 4 ELSE 1
      /\ sep # EscapedColon => sep[1] # EscapedColon[1]
      /\ Len(EscapedColon) = 4
  BY SeparatorFacts
<1>4. /\ s \in Seq(Nat) /\ Len(s) = a + k + b
      /\ \A i \in 1 .. a : s[i] = Digits[h][i]
      /\ \A i \in 1 .. k : s[a + i] = sep[i]
      /\ \A i \in 1 .. b : s[a + k + i] = Digits[l][i]
  BY DEF Spells
<1>5. Begins(s, h) <=> Len(s) >= a /\ \A i \in 1 .. a : s[i] = Digits[h][i]
  BY DEF Begins
<1>6. Begins(t, l) <=> Len(t) >= b /\ \A i \in 1 .. b : t[i] = Digits[l][i]
  BY DEF Begins
<1>7. Begins(s, h) /\ (a < Len(s) => ~IsDigit(s[a + 1])) =>
        Strtoull(s).value = h /\ Strtoull(s).next = n
  BY <1>4, StrtoullReads
<1>8. t \in Seq(Nat) /\ Begins(t, l) /\ (b < Len(t) => ~IsDigit(t[b + 1])) =>
        Strtoull(t).value = l
  BY StrtoullReads
<1> HIDE DEF a, k, b
<1>9. Begins(s, h) /\ ~IsDigit(s[a + 1])
  <2>1. 1 \in 1 .. k /\ Len(s) >= a
    BY <1>2, <1>3, <1>4
  <2>2. s[a + 1] = sep[1]
    BY <1>4, <2>1
  <2> QED
    BY <1>3, <1>4, <1>5, <2>1, <2>2
<1>10. Strtoull(s).value = h /\ Strtoull(s).next = n
  BY <1>7, <1>9
<1>11. a \in 0 .. Len(s)
  BY <1>2, <1>3, <1>4
<1>12. n \in Seq(Nat) /\ Len(n) = k + b /\ \A i \in 1 .. k + b : n[i] = s[a + i]
  <2>1. Len(s) - a = k + b
    BY <1>2, <1>3, <1>4
  <2> QED
    BY <1>4, <1>11, <2>1, Behind
<1> HIDE DEF n
<1>13. k \in 0 .. Len(n) /\ Len(n) - k = b /\ Len(n) # 0
  BY <1>2, <1>3, <1>12
<1>14. t \in Seq(Nat) /\ Len(t) = b /\ \A i \in 1 .. b : t[i] = n[k + i]
  BY <1>12, <1>13, Behind
<1> HIDE DEF t
<1>15. \A i \in 1 .. b : t[i] = Digits[l][i]
  <2> TAKE i \in 1 .. b
  <2>1. k + i \in 1 .. k + b /\ a + (k + i) = a + k + i
    BY <1>2, <1>3
  <2>2. t[i] = n[k + i] /\ n[k + i] = s[a + (k + i)]
    BY <1>12, <1>14, <2>1
  <2> QED
    BY <1>4, <2>1, <2>2
<1>16. Strtoull(t).value = l
  <2>1. Len(t) >= b /\ ~(b < Len(t))
    BY <1>2, <1>14
  <2> QED
    BY <1>6, <1>8, <1>14, <1>15, <2>1
<1>17. StartsWith(n, EscapedColon) <=> sep = EscapedColon
  <2>1. \A i \in 1 .. k : n[i] = sep[i]
    <3> TAKE i \in 1 .. k
    <3>1. i \in 1 .. k + b
      BY <1>2, <1>3
    <3> QED
      BY <1>4, <1>12, <3>1
  <2>2. CASE sep = EscapedColon
    <3>1. k = 4 /\ Len(n) >= 4
      BY <1>2, <1>3, <1>12, <2>2
    <3> QED
      BY <1>3, <2>1, <2>2, <3>1 DEF StartsWith
  <2>3. CASE sep # EscapedColon
    <3>1. 1 \in 1 .. k /\ 1 \in 1 .. 4
      BY <1>3
    <3>2. n[1] # EscapedColon[1]
      BY <1>3, <2>1, <2>3, <3>1
    <3> QED
      BY <1>3, <2>3, <3>1, <3>2 DEF StartsWith
  <2> QED
    BY <2>2, <2>3
<1>18. (IF StartsWith(n, EscapedColon) THEN 4 ELSE 1) = k
  BY <1>3, <1>17
<1>19. s # <<>> /\ n # <<>>
  <2>1. Len(s) # 0
    BY <1>2, <1>3, <1>4
  <2>2. Len(<<>>) = 0
    BY EmptySeq
  <2> QED
    BY <1>13, <2>1, <2>2
<1> DEFINE first == Strtoull(s)
           skip  == IF StartsWith(first.next, EscapedColon) THEN 4 ELSE 1
<1>20. first.value = h /\ first.next = n /\ skip = k
  BY <1>10, <1>18
<1>21. FromString(s) =
         CASE s = <<>> -> FromWord(0)
           [] s # <<>> /\ first.next = <<>> -> FromWord(first.value)
           [] OTHER -> [high |-> first.value,
                        low  |-> Strtoull(SubSeq(first.next, skip + 1,
                                                 Len(first.next))).value]
  BY DEF FromString
<1> HIDE DEF first, skip
<1>22. FromString(s) = [high |-> first.value,
                        low  |-> Strtoull(SubSeq(first.next, skip + 1,
                                                 Len(first.next))).value]
  BY <1>19, <1>20, <1>21
<1>23. SubSeq(first.next, skip + 1, Len(first.next)) = t
  BY <1>20 DEF t
<1> QED
  BY <1>16, <1>20, <1>22, <1>23

(* A string without separator is the low word.                             *)
LEMMA FromDigitsReads ==
  ASSUME NEW l \in Words
  PROVE  FromString(Digits[l]) = FromWord(l)
<1> DEFINE s == Digits[l]
<1>1. l \in Nat
  BY WordAssumption DEF Words
<1>2. s \in Seq(Nat) /\ Len(s) \in Nat \ {0}
  BY <1>1, DigitsDef, DigitsShape
<1>3. Begins(s, l)
  BY <1>2 DEF Begins
<1>4. Strtoull(s).value = l /\ Strtoull(s).next = SubSeq(s, Len(s) + 1, Len(s))
  <2>1. ~(Len(Digits[l]) < Len(s))
    BY <1>2
  <2> QED
    BY <1>2, <1>3, <2>1, StrtoullReads
<1> HIDE DEF s
<1>5. SubSeq(s, Len(s) + 1, Len(s)) = <<>>
  BY <1>2, SubSeqEmpty
<1>6. s # <<>>
  BY <1>2, EmptySeq
<1>7. FromString(s) = FromWord(Strtoull(s).value)
  BY <1>4, <1>5, <1>6 DEF FromString
<1> QED
  BY <1>4, <1>7 DEF s


(* Putting digits, separator and digits together spells the two words.     *)
LEMMA Spelled ==
  ASSUME NEW h \in Words, NEW l \in Words, NEW sep \in Separators
  PROVE  Spells(Digits[h] \o sep \o Digits[l], h, sep, l)
<1> DEFINE u == Digits[h]
           w == Digits[l]
<1>1. h \in Nat /\ l \in Nat
  BY WordAssumption DEF Words
<1>2. /\ u \in Seq(Nat) /\ w \in Seq(Nat) /\ sep \in Seq(Nat)
      /\ Len(u) \in Nat /\ Len(w) \in Nat /\ Len(sep) \in Nat
  BY <1>1, DigitsDef, DigitsShape, SeparatorFacts
<1> HIDE DEF u, w
<1> DEFINE p == u \o sep
<1>3. /\ p \in Seq(Nat) /\ Len(p) = Len(u) + Len(sep)
      /\ \A i \in 1 .. Len(u) + Len(sep) :
           p[i] = IF i <= Len(u) THEN u[i] ELSE sep[i - Len(u)]
  BY <1>2, ConcatProperties
<1> HIDE DEF p
<1> DEFINE s == p \o w
<1>4. /\ s \in Seq(Nat) /\ Len(s) = Len(p) + Len(w)
      /\ \A i \in 1 .. Len(p) + Len(w) : s[i] = IF i <= Len(p) THEN p[i] ELSE w[i - Len(p)]
  <2>1. p \in Seq(Nat) /\ w \in Seq(Nat)
    BY <1>2, <1>3
  <2> QED
    BY <2>1, ConcatProperties
<1> HIDE DEF s
<1>5. ASSUME NEW i \in 1 .. Len(u) PROVE s[i] = u[i]
  <2>1. i \in 1 .. Len(p) + Len(w) /\ i <= Len(p) /\ i \in 1 .. Len(u) + Len(sep) /\ i <= Len(u)
    BY <1>2, <1>3
  <2> QED
    BY <1>3, <1>4, <2>1
<1>6. ASSUME NEW i \in 1 .. Len(sep) PROVE s[Len(u) + i] = sep[i]
  <2> DEFINE j == Len(u) + i
  <2>1. /\ j \in 1 .. Len(p) + Len(w) /\ j <= Len(p) /\ j \in 1 .. Len(u) + Len(sep)
        /\ ~(j <= Len(u)) /\ j - Len(u) = i
    BY <1>2, <1>3
  <2> HIDE DEF j
  <2>2. s[j] = p[j] /\ p[j] = sep[j - Len(u)]
    BY <1>3, <1>4, <2>1
  <2> QED
    BY <2>1, <2>2 DEF j
<1>7. ASSUME NEW i \in 1 .. Len(w) PROVE s[Len(u) + Len(sep) + i] = w[i]
  <2> DEFINE j == Len(u) + Len(sep) + i
  <2>1. j \in 1 .. Len(p) + Len(w) /\ ~(j <= Len(p)) /\ j - Len(p) = i
    BY <1>2, <1>3
  <2> HIDE DEF j
  <2>2. s[j] = w[j - Len(p)]
    BY <1>4, <2>1
  <2> QED
    BY <2>1, <2>2 DEF j
<1>8. Len(s) = Len(u) + Len(sep) + Len(w)
  BY <1>3, <1>4
<1>9. Spells(s, h, sep, l)
  BY <1>4, <1>5, <1>6, <1>7, <1>8 DEF Spells, u, w
<1> QED
  BY <1>9 DEF s, p, u, w

(* The buffer of getString() has room for every value: nothing is cut off. *)
LEMMA NothingCutOff ==
  ASSUME NEW v \in Values
  PROVE  GetString(v) = Digits[v.high] \o <<Colon>> \o Digits[v.low]
<1> DEFINE h == v.high
           l == v.low
           s == Digits[h] \o <<Colon>> \o Digits[l]
           a == Len(Digits[h])
           b == Len(Digits[l])
<1>1. h \in Words /\ l \in Words /\ h \in Nat /\ l \in Nat /\ h < Word /\ l < Word
  BY WordAssumption DEF Values, Words
<1>2. Width \in Nat /\ Width >= 1 /\ Word = Power(Base)[Width]
  BY DigitsAssumption
<1>3. a <= Width /\ b <= Width /\ a \in Nat /\ b \in Nat
  BY <1>1, <1>2, DigitsFit, DigitsShape
<1>4. s \in Seq(Nat) /\ Len(s) = a + 1 + b
  <2>1. <<Colon>> \in Separators /\ Len(<<Colon>>) = 1
    BY DEF Separators
  <2>2. Spells(s, h, <<Colon>>, l)
    BY <1>1, <2>1, Spelled
  <2> HIDE DEF s
  <2> QED
    BY <2>1, <2>2 DEF Spells
<1>5. GetString(v) = Snprintf(s, BufferSize)
  BY DEF GetString
<1> HIDE DEF s, a, b
<1>6. Len(s) < BufferSize
  BY <1>2, <1>3, <1>4 DEF BufferSize
<1>7. GetString(v) = SubSeq(s, 1, Len(s))
  BY <1>5, <1>6 DEF Snprintf
<1>8. SubSeq(s, 1, Len(s)) = s
  BY <1>4
<1> QED
  BY <1>7, <1>8 DEF s

(* The DNS name of a value is its string with the colon escaped.           *)
LEMMA ColonEscaped ==
  ASSUME NEW v \in Values
  PROVE  DnsName(v) = Digits[v.high] \o EscapedColon \o Digits[v.low]
<1> DEFINE h == v.high
           l == v.low
           u == Digits[h]
           w == Digits[l]
           s == GetString(v)
           at == CHOOSE i \in 1 .. Len(s) : s[i] = Colon
<1>1. h \in Words /\ l \in Words /\ h \in Nat /\ l \in Nat
  BY WordAssumption DEF Values, Words
<1>2. /\ u \in Seq(Nat) /\ w \in Seq(Nat) /\ Len(u) \in Nat /\ Len(w) \in Nat
      /\ \A i \in 1 .. Len(u) : IsDigit(u[i])
      /\ \A i \in 1 .. Len(w) : IsDigit(w[i])
  BY <1>1, DigitsDef, DigitsShape
<1>3. ~IsDigit(Colon)
  BY DigitsAssumption DEF IsDigit, Colon
<1>4. /\ s \in Seq(Nat) /\ Len(s) = Len(u) + 1 + Len(w)
      /\ \A i \in 1 .. Len(u) : s[i] = u[i]
      /\ s[Len(u) + 1] = Colon
      /\ \A i \in 1 .. Len(w) : s[Len(u) + 1 + i] = w[i]
  <2>1. <<Colon>> \in Separators /\ Len(<<Colon>>) = 1 /\ <<Colon>>[1] = Colon /\ 1 \in 1 .. 1
    BY DEF Separators
  <2>2. Spells(s, h, <<Colon>>, l)
    BY <1>1, <2>1, Spelled, NothingCutOff
  <2> HIDE DEF s
  <2> DEFINE c == <<Colon>>
  <2>3. /\ s \in Seq(Nat) /\ Len(s) = Len(u) + Len(c) + Len(w)
        /\ \A i \in 1 .. Len(u) : s[i] = u[i]
        /\ \A i \in 1 .. Len(c) : s[Len(u) + i] = c[i]
        /\ \A i \in 1 .. Len(w) : s[Len(u) + Len(c) + i] = w[i]
    BY <2>2 DEF Spells
  <2>4. Len(c) = 1 /\ c[1] = Colon
    BY <2>1
  <2> HIDE DEF c, u, w
  <2> QED
    BY <2>1, <2>3, <2>4
<1>5. DnsName(v) = SubSeq(s, 1, at - 1) \o EscapedColon \o SubSeq(s, at + 1, Len(s))
  BY DEF DnsName
<1> HIDE DEF s, u, w
<1>6. Len(u) + 1 \in 1 .. Len(s)
  BY <1>2, <1>4
<1>7. at \in 1 .. Len(s) /\ s[at] = Colon
  BY <1>4, <1>6
<1> HIDE DEF at
<1>8. at = Len(u) + 1
  <2>1. ~(at <= Len(u))
    <3> SUFFICES ASSUME at <= Len(u) PROVE FALSE
      OBVIOUS
    <3>1. at \in 1 .. Len(u)
      BY <1>2, <1>7
    <3> QED
      BY <1>2, <1>3, <1>4, <1>7, <3>1
  <2>2. ~(at > Len(u) + 1)
    <3> SUFFICES ASSUME at > Len(u) + 1 PROVE FALSE
      OBVIOUS
    <3>1. /\ at - (Len(u) + 1) \in 1 .. Len(w)
          /\ Len(u) + 1 + (at - (Len(u) + 1)) = at
      BY <1>2, <1>4, <1>7
    <3>2. s[at] = w[at - (Len(u) + 1)]
      BY <1>4, <3>1
    <3> QED
      BY <1>2, <1>3, <1>7, <3>1, <3>2
  <2>3. at \in Nat
    BY <1>2, <1>4, <1>7
  <2> QED
    BY <1>2, <2>1, <2>2, <2>3
<1>9. SubSeq(s, 1, at - 1) = u
  <2> DEFINE t == SubSeq(s, 1, Len(u))
  <2>1. \A i \in 1 .. Len(u) : s[i] \in Nat
    BY <1>2, <1>4
  <2>2. /\ t \in Seq(Nat) /\ Len(t) = IF 1 <= Len(u) THEN Len(u) - 1 + 1 ELSE 0
        /\ \A i \in 1 .. Len(u) - 1 + 1 : t[i] = s[1 + i - 1]
    BY <1>2, <2>1, SubSeqProperties
  <2> HIDE DEF t
  <2>3. Len(t) = Len(u)
    BY <1>2, <2>2
  <2>4. \A i \in 1 .. Len(t) : t[i] = u[i]
    <3> TAKE i \in 1 .. Len(t)
    <3>1. i \in 1 .. Len(u) - 1 + 1 /\ 1 + i - 1 = i /\ i \in 1 .. Len(u)
      BY <1>2, <2>3
    <3> QED
      BY <1>4, <2>2, <3>1
  <2>5. t = u
    BY <1>2, <2>2, <2>3, <2>4, SeqEqual
  <2>6. at - 1 = Len(u)
    BY <1>2, <1>8
  <2> QED
    BY <2>5, <2>6 DEF t
<1>10. SubSeq(s, at + 1, Len(s)) = w
  <2> DEFINE t == SubSeq(s, at + 1, Len(s))
  <2>1. at \in 0 .. Len(s) /\ Len(s) - at = Len(w)
    BY <1>2, <1>4, <1>7, <1>8
  <2>2. t \in Seq(Nat) /\ Len(t) = Len(w) /\ \A i \in 1 .. Len(w) : t[i] = s[at + i]
    BY <1>4, <2>1, Behind
  <2> HIDE DEF t
  <2>3. \A i \in 1 .. Len(t) : t[i] = w[i]
    BY <1>4, <1>8, <2>2
  <2>4. t = w
    BY <1>2, <2>2, <2>3, SeqEqual
  <2> QED
    BY <2>4 DEF t
<1> QED
  BY <1>5, <1>9, <1>10 DEF u, w

(* All strings of a value are read as the value.                           *)
LEMMA StringsRead ==
  ASSUME NEW v \in Values
  PROVE  /\ FromString(GetString(v)) = v
         /\ FromString(Streamed(v)) = v
         /\ FromString(DnsName(v)) = v
<1>1. v.high \in Words /\ v.low \in Words /\ v = [high |-> v.high, low |-> v.low]
  BY DEF Values
<1>2. <<Colon>> \in Separators /\ EscapedColon \in Separators
  BY DEF Separators
<1> DEFINE s == Digits[v.high] \o <<Colon>> \o Digits[v.low]
           t == Digits[v.high] \o EscapedColon \o Digits[v.low]
<1>3. Spells(s, v.high, <<Colon>>, v.low) /\ Spells(t, v.high, EscapedColon, v.low)
  BY <1>1, <1>2, Spelled
<1>4. GetString(v) = s /\ DnsName(v) = t
  BY NothingCutOff, ColonEscaped
<1>5. Streamed(v) = IF v.high = 0 THEN Digits[v.low] ELSE s
  BY DEF Streamed
<1> HIDE DEF s, t
<1>6. FromString(s) = v /\ FromString(t) = v
  BY <1>1, <1>2, <1>3, FromStringReads
<1>7. FromString(Streamed(v)) = v
  <2>1. CASE v.high = 0
    <3>1. FromString(Streamed(v)) = FromWord(v.low)
      BY <1>1, <1>5, <2>1, FromDigitsReads
    <3> QED
      BY <1>1, <2>1, <3>1 DEF FromWord
  <2>2. CASE v.high # 0
    BY <1>5, <1>6, <2>2
  <2> QED
    BY <2>1, <2>2
<1> QED
  BY <1>4, <1>6, <1>7

(* The empty string is read as zero.                                       *)
LEMMA NothingRead == FromString(<<>>) = FromWord(0)
BY DEF FromString

-----------------------------------------------------------------------------
\* The words of every uint128_t a program computes are words: each wrap
\* brings the result of one addition or subtraction back into range.
THEOREM Types == TextSpec => []TypeOK
<1>1. Init => TypeOK
  <2>1. 0 \in Words
    BY WordAssumption DEF Words
  <2> QED BY <2>1, WordValue DEF Init, TypeOK
<1>2. TypeOK /\ [TextNext]_vars => TypeOK'
  <2> SUFFICES ASSUME TypeOK, [TextNext]_vars PROVE TypeOK'
    OBVIOUS
  <2> USE DEF TypeOK
  <2>1. CASE Increment
    BY <2>1, IncrementedIsSum, SumWordValue DEF Increment
  <2>2. CASE Decrement
    BY <2>2, DecrementedIsDifference, DifferenceWordValue DEF Decrement
  <2>3. CASE AddAssign
    BY <2>3, Sum128Value DEF AddAssign
  <2>4. CASE AddWord
    BY <2>4, SumWordValue DEF AddWord
  <2>5. CASE SubtractWord
    BY <2>5, DifferenceWordValue DEF SubtractWord
  <2>6. CASE Assign \/ Swap
    BY <2>6 DEF Assign, Swap
  <2>7. CASE AssignWord
    BY <2>7, WordValue DEF AssignWord
  <2>8. CASE MakeUUID \/ Operand
    BY <2>8 DEF MakeUUID, Operand
  <2>9. CASE UNCHANGED vars
    BY <2>9 DEF vars
  <2>10. CASE ReadString \/ ReadStream \/ ReadDnsName
    BY <2>10, StringsRead DEF ReadString, ReadStream, ReadDnsName
  <2>11. CASE ReadNothing
    <3>1. 0 \in Words
      BY WordAssumption DEF Words
    <3> QED
      BY <2>11, <3>1, NothingRead, WordValue DEF ReadNothing
  <2> QED BY <2>1, <2>2, <2>3, <2>4, <2>5, <2>6, <2>7, <2>8, <2>9, <2>10, <2>11
          DEF Next, TextNext
<1> QED BY <1>1, <1>2, PTL DEF TextSpec

\* The comparison operators of uint128_t are the order of the integers, for
\* words of every size.
THEOREM Order == TextSpec => []OrderAgrees
<1>1. TypeOK => OrderAgrees
  <2> SUFFICES ASSUME TypeOK PROVE OrderAgrees
    OBVIOUS
  <2>1. FromWord(word) \in Values /\ Value(FromWord(word)) = word
    BY WordValue DEF TypeOK
  <2>2. Equal(x, FromWord(word)) <=> Value(x) = word
    BY <2>1, Comparison DEF TypeOK
  <2> QED BY <2>2, Comparison DEF TypeOK, OrderAgrees
<1> QED BY <1>1, Types, PTL

\* All operators of uint128_t compute with integers modulo Word * Word, for
\* words of every size: Uint128 implements Unsigned.
THEOREM Refinement == TextSpec => RefinesUnsigned
<1>1. Init => Integer!Init
  <2>1. 0 \in Words
    BY WordAssumption DEF Words
  <2> QED BY <2>1, WordValue DEF Init, Integer!Init
<1>2. TypeOK /\ [TextNext]_vars => [Integer!Next]_(Integer!vars)
  <2> SUFFICES ASSUME TypeOK, [TextNext]_vars
               PROVE  Integer!Next \/ UNCHANGED Integer!vars
    OBVIOUS
  <2> USE DEF TypeOK
  <2>1. CASE Increment
    BY <2>1, IncrementedIsSum, SumWordValue
       DEF Increment, Integer!Increment, Integer!Next
  <2>2. CASE Decrement
    BY <2>2, DecrementedIsDifference, DifferenceWordValue
       DEF Decrement, Integer!Decrement, Integer!Next
  <2>3. CASE AddAssign
    BY <2>3, Sum128Value DEF AddAssign, Integer!Add, Integer!Next
  <2>4. CASE AddWord
    BY <2>4, SumWordValue DEF AddWord, Integer!AddWord, Integer!Next
  <2>5. CASE SubtractWord
    BY <2>5, DifferenceWordValue
       DEF SubtractWord, Integer!SubtractWord, Integer!Next
  <2>6. CASE Assign
    BY <2>6 DEF Assign, Integer!Assign, Integer!Next
  <2>7. CASE AssignWord
    BY <2>7, WordValue DEF AssignWord, Integer!AssignWord, Integer!Next
  <2>8. CASE MakeUUID
    BY <2>8, UUIDValue DEF MakeUUID, Integer!MakeUUID, Integer!Next
  <2>9. CASE Swap
    BY <2>9 DEF Swap, Integer!Swap, Integer!Next
  <2>10. CASE Operand
    BY <2>10 DEF Operand, Words, Integer!Operand, Integer!Next
  <2>11. CASE UNCHANGED vars
    BY <2>11 DEF vars, Integer!vars
  <2>12. CASE ReadString \/ ReadStream \/ ReadDnsName
    BY <2>12, StringsRead
       DEF ReadString, ReadStream, ReadDnsName, Integer!Assign, Integer!Next
  <2>13. CASE ReadNothing
    <3>1. 0 \in Words
      BY WordAssumption DEF Words
    <3> QED
      BY <2>13, <3>1, NothingRead, WordValue
         DEF ReadNothing, Integer!Clear, Integer!Next
  <2> QED BY <2>1, <2>2, <2>3, <2>4, <2>5, <2>6, <2>7, <2>8, <2>9, <2>10,
             <2>11, <2>12, <2>13 DEF Next, TextNext
<1> QED BY <1>1, <1>2, Types, PTL DEF TextSpec, RefinesUnsigned, Integer!Spec

\* operator& and operator| of two uint128_t agree with their sum, for words
\* of any number of bits.
THEOREM BitwiseSums == TextSpec => []BitwiseAgrees
<1>1. TypeOK => BitwiseAgrees
  BY BitwiseSum DEF TypeOK, BitwiseAgrees
<1> QED BY <1>1, Types, PTL

\* Every value is read back from its strings, for digits of every base and
\* words of every width: getString() fits into its buffer, the short form of
\* operator<< and the escaped colon of DNS are understood, and strtoull()
\* never saturates.
THEOREM StringsRoundTrip == TextSpec => RoundTrip
<1>1. TypeOK /\ [TextNext]_vars =>
        [ReadString \/ ReadStream \/ ReadDnsName => x' = y]_vars
  <2> SUFFICES ASSUME TypeOK, ReadString \/ ReadStream \/ ReadDnsName
               PROVE  x' = y
    OBVIOUS
  <2> QED BY StringsRead DEF TypeOK, ReadString, ReadStream, ReadDnsName
<1> QED BY <1>1, Types, PTL DEF TextSpec, RoundTrip
=============================================================================
