------------------------------ MODULE Uint128 ------------------------------
(***************************************************************************)
(* servus::uint128_t: an unsigned integer kept in two machine words        *)
(* (src/servus/uint128_t.h).  The width is a parameter: Word is 2^64 in    *)
(* the code.  x and y are two values of a program, word an operand of type *)
(* uint64_t.  A word wraps silently, and each operator finds out about its *)
(* carry or borrow in its own way; this module shows that all of them      *)
(* compute what Unsigned says.                                             *)
(***************************************************************************)
EXTENDS Integers

CONSTANT Word

ASSUME WordAssumption == Word \in Nat /\ Word >= 2

VARIABLES x, y, word

vars == <<x, y, word>>

Words == 0 .. Word - 1

Values == [high : Words, low : Words]

TypeOK == x \in Values /\ y \in Values /\ word \in Words

\* Unsigned arithmetic of one machine word, for results of one addition
\* or subtraction.
Wrap(i) == IF i < 0 THEN i + Word ELSE IF i >= Word THEN i - Word ELSE i

-----------------------------------------------------------------------------
(* The operators.                                                          *)

FromWord(w) == [high |-> 0, low |-> w]

IsUUID(v) == v.high # 0

Equal(a, b) == a.high = b.high /\ a.low = b.low

Less(a, b) == a.high < b.high \/ (a.high = b.high /\ a.low < b.low)

Greater(a, b) == a.high > b.high \/ (a.high = b.high /\ a.low > b.low)

\* operator<= that compares word by word (mutant).
LessEqualWordwise(a, b) == a.high <= b.high /\ a.low <= b.low

LessEqual(a, b) == a.high < b.high \/ (a.high = b.high /\ a.low <= b.low)

GreaterEqual(a, b) == a.high > b.high \/ (a.high = b.high /\ a.low >= b.low)

\* The carry is seen from the low word after it was incremented, ...
Incremented(a) ==
  LET low == Wrap(a.low + 1)
  IN  [high |-> IF low = 0 THEN Wrap(a.high + 1) ELSE a.high, low |-> low]

\* ... the borrow from the low word before it is decremented.
Decremented(a) ==
  [high |-> IF a.low = 0 THEN Wrap(a.high - 1) ELSE a.high,
   low  |-> Wrap(a.low - 1)]

\* operator+= that takes an unchanged low word for a wrap (mutant).
Sum128CarryOnEqual(a, b) ==
  LET low == Wrap(a.low + b.low)
  IN  [high |-> IF low <= a.low THEN Wrap(a.high + Wrap(b.high + 1))
                                ELSE Wrap(a.high + b.high),
       low  |-> low]

\* A sum that wrapped is below the old value.
Sum128(a, b) ==
  LET low == Wrap(a.low + b.low)
  IN  [high |-> IF low < a.low THEN Wrap(a.high + Wrap(b.high + 1))
                               ELSE Wrap(a.high + b.high),
       low  |-> low]

SumWord(a, w) ==
  LET low == Wrap(a.low + w)
  IN  [high |-> IF low < a.low THEN Wrap(a.high + 1) ELSE a.high,
       low  |-> low]

DifferenceWord(a, w) ==
  LET low == Wrap(a.low - w)
  IN  [high |-> IF low > a.low THEN Wrap(a.high - 1) ELSE a.high,
       low  |-> low]
-----------------------------------------------------------------------------
(* A program that computes with x, y and word.                             *)

Init == x = FromWord(0) /\ y = FromWord(0) /\ word = 0

Increment == x' = Incremented(x) /\ UNCHANGED <<y, word>>

Decrement == x' = Decremented(x) /\ UNCHANGED <<y, word>>

AddAssign == x' = Sum128(x, y) /\ UNCHANGED <<y, word>>

AddWord == x' = SumWord(x, word) /\ UNCHANGED <<y, word>>

SubtractWord == x' = DifferenceWord(x, word) /\ UNCHANGED <<y, word>>

Assign == x' = y /\ UNCHANGED <<y, word>>

AssignWord == x' = FromWord(word) /\ UNCHANGED <<y, word>>

\* make_UUID() draws both words until the high one is not zero.  Its
\* generator is static and drawn from under a mutex.
MakeUUID == x' \in {v \in Values : IsUUID(v)} /\ UNCHANGED <<y, word>>

\* std::swap, to have all operators on both values.
Swap == x' = y /\ y' = x /\ UNCHANGED word

\* Another operand.  An int is converted to uint64_t, whatever its sign.
Operand == word' \in Words /\ UNCHANGED <<x, y>>

Next == Increment \/ Decrement \/ AddAssign \/ AddWord \/ SubtractWord
          \/ Assign \/ AssignWord \/ MakeUUID \/ Swap \/ Operand

Spec == Init /\ [][Next]_vars
-----------------------------------------------------------------------------
(* Properties.                                                             *)

Value(v) == v.high * Word + v.low

Integer == INSTANCE Unsigned WITH n <- Value(x), m <- Value(y), k <- word

\* The operators of uint128_t compute with integers modulo 2^128: carry and
\* borrow pass from the low word to the high word exactly when they should,
\* at all boundaries, and the identifiers of make_UUID() are never plain
\* 64 bit numbers.
RefinesUnsigned == Integer!Spec

\* The six comparison operators of uint128_t are the order of the integers
\* the values stand for: sorted containers of uint128_t keep numeric order
\* and find every key again.
OrderAgrees ==
  /\ Equal(x, y) <=> Value(x) = Value(y)
  /\ Less(x, y) <=> Value(x) < Value(y)
  /\ Greater(x, y) <=> Value(x) > Value(y)
  /\ LessEqual(x, y) <=> Value(x) <= Value(y)
  /\ GreaterEqual(x, y) <=> Value(x) >= Value(y)
  /\ Equal(x, FromWord(word)) <=> Value(x) = word
=============================================================================
