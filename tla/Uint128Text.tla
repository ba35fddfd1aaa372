---------------------------- MODULE Uint128Text ----------------------------
(***************************************************************************)
(* The strings of servus::uint128_t (src/servus/uint128_t.{h,cpp}) and its *)
(* bitwise operators, on top of Uint128.  A string is a sequence of        *)
(* characters: the digits 0 .. Base - 1, the colon and the backslash.      *)
(* Base is 16 and Width, the digits of the largest word, is 16.            *)
(***************************************************************************)
EXTENDS Uint128, Sequences

CONSTANTS Base, Width

Power(b) == LET P[n \in Nat] == IF n = 0 THEN 1 ELSE b * P[n - 1] IN P

ASSUME DigitsAssumption ==
  /\ Base \in Nat /\ Base >= 2 /\ Width \in Nat /\ Width >= 1
  /\ Word = Power(Base)[Width]

\* A word is made of bits.
ASSUME BitsAssumption == \E bits \in 1 .. Word : Word = Power(2)[bits]

IsDigit(c) == c \in 0 .. Base - 1

Colon == Base

Backslash == Base + 1

\* The escape that stands for a colon in DNS names.  Its last three
\* characters are digits themselves ("\058").
EscapedColon == <<Backslash, 0, Base - 1, Base - 1>>

\* A char buffer[34] of the code: two words, the colon and the final zero.
BufferSize == 2 * Width + 2
-----------------------------------------------------------------------------
(* From values to strings.                                                 *)

\* %llx of printf and std::hex of a stream: no leading zeros.
Digits[w \in Nat] ==
  IF w < Base THEN <<w>> ELSE Append(Digits[w \div Base], w % Base)

\* snprintf keeps one character less than the size it is given.
Snprintf(s, size) == SubSeq(s, 1, IF Len(s) < size THEN Len(s) ELSE size - 1)

GetString(v) ==
  Snprintf(Digits[v.high] \o <<Colon>> \o Digits[v.low], BufferSize)

\* operator<<: a plain number has no colon.
Streamed(v) ==
  IF v.high = 0 THEN Digits[v.low]
                ELSE Digits[v.high] \o <<Colon>> \o Digits[v.low]

\* What a DNS library makes of a name that holds a value.
DnsName(v) ==
  LET s  == GetString(v)
      at == CHOOSE i \in 1 .. Len(s) : s[i] = Colon
  IN  SubSeq(s, 1, at - 1) \o EscapedColon \o SubSeq(s, at + 1, Len(s))
-----------------------------------------------------------------------------
(* From strings to values.                                                 *)

\* strtoull: the digits s starts with, saturated, and what follows them.
\* Read[i] is what the first i digits make.
Strtoull(s) ==
  LET Read[i \in 0 .. Len(s)] ==
        IF i = 0 THEN 0
        ELSE IF Read[i - 1] * Base + s[i] < Word THEN Read[i - 1] * Base + s[i]
        ELSE Word - 1
      end == CHOOSE e \in 0 .. Len(s) : /\ \A i \in 1 .. e : IsDigit(s[i])
                                        /\ e < Len(s) => ~IsDigit(s[e + 1])
  IN  [value |-> Read[end], next |-> SubSeq(s, end + 1, Len(s))]

\* strncmp: s begins with these characters.
StartsWith(s, chars) ==
  Len(s) >= Len(chars) /\ \A i \in 1 .. Len(chars) : s[i] = chars[i]

\* Assignment that skips one character of the escape, too (mutant).
FromStringSkipOne(s) ==
  LET first == Strtoull(s)
  IN  IF s = <<>> \/ first.next = <<>>
      THEN FromWord(first.value)
      ELSE [high |-> first.value, low |-> Strtoull(Tail(first.next)).value]

\* operator=(std::string), for strings that pass its assertions.
FromString(s) ==
  LET first == Strtoull(s)
      skip  == IF StartsWith(first.next, EscapedColon) THEN 4 ELSE 1
  IN  CASE s = <<>> -> FromWord(0)
        [] s # <<>> /\ first.next = <<>> -> FromWord(first.value)
        [] OTHER -> [high |-> first.value,
                     low  |-> Strtoull(SubSeq(first.next, skip + 1,
                                              Len(first.next))).value]

ReadString == x' = FromString(GetString(y)) /\ UNCHANGED <<y, word>>

ReadStream == x' = FromString(Streamed(y)) /\ UNCHANGED <<y, word>>

ReadDnsName == x' = FromString(DnsName(y)) /\ UNCHANGED <<y, word>>

\* operator>> at the end of a stream assigns the empty string.
ReadNothing == x' = FromString(<<>>) /\ UNCHANGED <<y, word>>

TextNext == Next \/ ReadString \/ ReadStream \/ ReadDnsName \/ ReadNothing

TextSpec == Init /\ [][TextNext]_vars
-----------------------------------------------------------------------------
(* Bitwise operators.                                                      *)

\* & and | of words: their last bits, and the same of the bits before.
And[a \in Nat] ==
  [b \in Nat |-> IF a = 0 THEN 0
                 ELSE 2 * And[a \div 2][b \div 2] + (a % 2) * (b % 2)]

Or[a \in Nat] ==
  [b \in Nat |-> IF a = 0 THEN b
                 ELSE 2 * Or[a \div 2][b \div 2]
                        + (IF a % 2 = 0 THEN b % 2 ELSE 1)]

BitAnd(a, b) == [high |-> And[a.high][b.high], low |-> And[a.low][b.low]]

\* operator| that leaves the high word alone (mutant).
BitOrLow(a, b) == [high |-> a.high, low |-> Or[a.low][b.low]]

BitOr(a, b) == [high |-> Or[a.high][b.high], low |-> Or[a.low][b.low]]
-----------------------------------------------------------------------------
(* Properties.                                                             *)

\* A value printed by getString(), by operator<< (which drops the high word
\* when it is zero) or escaped for DNS is read back as the same value.
RoundTrip == [][ReadString \/ ReadStream \/ ReadDnsName => x' = y]_vars

\* operator& and operator| agree with addition, as they do for integers:
\* a + b = (a & b) + (a | b), also when the sum wraps.
BitwiseAgrees == Sum128(x, y) = Sum128(BitAnd(x, y), BitOr(x, y))
=============================================================================
