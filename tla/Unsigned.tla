------------------------------ MODULE Unsigned ------------------------------
(***************************************************************************)
(* What the arithmetic of servus::uint128_t promises: an unsigned integer  *)
(* of two words, modulo Word * Word, without any mention of the words it   *)
(* is kept in.  m is a second value, k an operand of one word.             *)
(***************************************************************************)
EXTENDS Integers

CONSTANT Word \* 2^64 in the code

VARIABLES n, m, k

vars == <<n, m, k>>

Modulus == Word * Word

\* The value modulo Modulus of an integer that is out of range by less
\* than one Modulus.
Wrapped(i) == IF i < 0 THEN i + Modulus
              ELSE IF i >= Modulus THEN i - Modulus ELSE i

Init == n = 0 /\ m = 0 /\ k = 0

Increment == n' = Wrapped(n + 1) /\ UNCHANGED <<m, k>>

Decrement == n' = Wrapped(n - 1) /\ UNCHANGED <<m, k>>

Add == n' = Wrapped(n + m) /\ UNCHANGED <<m, k>>

AddWord == n' = Wrapped(n + k) /\ UNCHANGED <<m, k>>

SubtractWord == n' = Wrapped(n - k) /\ UNCHANGED <<m, k>>

Assign == n' = m /\ UNCHANGED <<m, k>>

AssignWord == n' = k /\ UNCHANGED <<m, k>>

Clear == n' = 0 /\ UNCHANGED <<m, k>>

\* A new unique identifier is never mistaken for a plain number.
MakeUUID == n' \in Word .. Modulus - 1 /\ UNCHANGED <<m, k>>

Swap == n' = m /\ m' = n /\ UNCHANGED k

Operand == k' \in 0 .. Word - 1 /\ UNCHANGED <<n, m>>

Next == Increment \/ Decrement \/ Add \/ AddWord \/ SubtractWord \/ Assign
          \/ AssignWord \/ Clear \/ MakeUUID \/ Swap \/ Operand

Spec == Init /\ [][Next]_vars
=============================================================================
