------------------------------ MODULE UriText ------------------------------
(***************************************************************************)
(* The text functions of servus::URI (src/servus/uri.{h,cpp}): cutting a   *)
(* URI into its parts, reading the query into key-value pairs, printing.   *)
(* A string is a sequence of characters.  "a" and "A" stand for the lower  *)
(* and upper case letters with no meaning of their own, "_" for the        *)
(* characters that a scheme may not have, "space" for white space.         *)
(***************************************************************************)
EXTENDS Integers, SequencesExt, StringMap

\* The width of a port, which is uint16_t in the code, and the largest long.
CONSTANTS PortBits, LongMax

ASSUME PortAssumption == PortBits \in Nat \ {0} /\ 2^PortBits \in Nat \ {0}
ASSUME LongAssumption == LongMax \in Nat /\ 2^PortBits - 1 <= LongMax

\* std::string::find_first_of from a position on; 0 is npos.
FindFirstOf(s, chars, from) ==
  SelectInSubSeq(s, from, Len(s), LAMBDA c : c \in chars)

\* input.find("://").
FindSchemeSeparator(s) ==
  SelectInSubSeq([i \in DOMAIN s |-> i], 1, Len(s) - 2,
                 LAMBDA i : SubSeq(s, i, i + 2) = <<":", "/", "/">>)

From(s, pos) == SubSeq(s, pos, Len(s))

DecDigits == <<"0", "1", "2", "3", "4", "5", "6", "7", "8", "9">>

ToLower(s) == [i \in DOMAIN s |-> IF s[i] = "A" THEN "a" ELSE s[i]]

Alphas == {"a", "A", "f", "i", "l", "e", "k", "v"}

SchemeChars == (Alphas \ {"A"}) \cup ToSet(DecDigits) \cup {"+", "-", "."}

NoData == [scheme |-> <<>>, userinfo |-> <<>>, host |-> <<>>, port |-> 0,
           path |-> <<>>, query |-> <<>>, fragment |-> <<>>,
           queryMap |-> <<>>]
-----------------------------------------------------------------------------
(* _parseURIPart.                                                          *)

Separators == [AUTHORITY |-> {"/", "?", "#"}, PATH |-> {"?", "#"},
               QUERY |-> {"#"}, FRAGMENT |-> {}]

RequireFirst == [QUERY |-> "?", FRAGMENT |-> "#"]

Skip(part) == IF part \in {"QUERY", "FRAGMENT"} THEN 1 ELSE 0

\* The character that ends a path is taken off, too (mutant).
PostSkipPath(part) ==
  CASE part = "SCHEME" -> 3 [] part = "PATH" -> 1 [] OTHER -> 0

PostSkip(part) == IF part = "SCHEME" THEN 3 ELSE 0

SeparatorPos(input, part) ==
  IF part = "SCHEME" THEN FindSchemeSeparator(input)
                     ELSE FindFirstOf(input, Separators[part], 1)

\* The early returns: the part is empty and the input is left as it is.
PartIsEmpty(input, part) ==
  LET pos == SeparatorPos(input, part)
  IN  \/ pos = 1
      \/ part = "SCHEME" /\ \/ pos = 0
                            \/ FindFirstOf(input, {"/", "?", "#"}, 1) < pos

\* What the two assert()s of _parseURIPart demand.
PartAsserts(input, part) ==
  ~PartIsEmpty(input, part) =>
     /\ part \in DOMAIN RequireFirst => Head(input) = RequireFirst[part]
     /\ Len(input) >= Skip(part)

\* _parseURIPart: the part at the front of the input, and the rest.
ParseURIPart(input, part) ==
  LET pos == SeparatorPos(input, part)
  IN  IF PartIsEmpty(input, part) THEN [output |-> <<>>, input |-> input]
      ELSE IF pos = 0 THEN [output |-> From(input, 1 + Skip(part)),
                            input  |-> <<>>]
      ELSE [output |-> SubSeq(input, 1 + Skip(part), pos - 1),
            input  |-> From(input, pos + PostSkip(part))]
-----------------------------------------------------------------------------
(* _parseAuthority.                                                        *)

\* What strtol() takes before the digits: white space, and then a sign.
Signs == {"space", "+", "-"}

\* The text that strtol() reads to its end: digits from position d on, and
\* only white space before the character in front of them.
IsNumber(s) ==
  \E d \in DOMAIN s :
    /\ \A i \in 1 .. d - 2 : s[i] = "space"
    /\ d > 1 => s[d - 1] \in Signs
    /\ \A i \in d .. Len(s) : s[i] \in ToSet(DecDigits)

\* The value of a digit; a sign has none.
DigitValue(c) == CHOOSE n \in 0 .. 9 : DecDigits[n + 1] = c

\* A long has no more than this: strtol() returns the nearest.
Clamp(n) == IF n > LongMax THEN LongMax
            ELSE IF n < -LongMax - 1 THEN -LongMax - 1 ELSE n

\* strtol() of such a text: Read[i] is what its first i characters make.
Strtol(s) ==
  LET Read[i \in 0 .. Len(s)] ==
        IF i = 0 THEN 0
        ELSE IF s[i] \in Signs THEN Read[i - 1]
        ELSE 10 * Read[i - 1] + DigitValue(s[i])
  IN  Clamp(IF "-" \in ToSet(s) THEN -Read[Len(s)] ELSE Read[Len(s)])

\* The conversion of the long to uint16_t.
ToPort(s) == Strtol(s) % 2^PortBits

\* Where the host begins and where the colon of the port is.
HostPos(auth) == FindFirstOf(auth, {"@"}, 1) + 1

\* The colon is looked for in the user information, too (mutant).
ColonPosAny(auth) == FindFirstOf(auth, {":"}, 1)

ColonPos(auth) == FindFirstOf(auth, {":"}, HostPos(auth))

HostOf(auth) ==
  SubSeq(auth, HostPos(auth),
         IF ColonPos(auth) = 0 THEN Len(auth) ELSE ColonPos(auth) - 1)

BadPort(auth) == ColonPos(auth) # 0 /\ ~IsNumber(From(auth, ColonPos(auth) + 1))

\* The exception _parseAuthority leaves with, if any.
AuthorityError(auth) ==
  CASE BadPort(auth)                             -> "runtime_error"
    [] ~BadPort(auth) /\ HostOf(auth) = <<>>     -> "invalid_argument"
    [] ~BadPort(auth) /\ HostOf(auth) # <<>>     -> "none"

\* _parseAuthority for an authority without error.
ParseAuthority(data, auth) ==
  [data EXCEPT !.userinfo = SubSeq(auth, 1, HostPos(auth) - 2),
               !.host     = HostOf(auth),
               !.port     = IF ColonPos(auth) = 0 THEN @
                            ELSE ToPort(From(auth, ColonPos(auth) + 1))]
-----------------------------------------------------------------------------
(* _parseQueryMap.                                                         *)

\* The pair is cut at its last = (mutant).
PairMapLast(pair) ==
  LET eq == SelectLastInSeq(pair, LAMBDA c : c = "=")
  IN  IF eq = 1 THEN <<>>
      ELSE IF eq = 0 THEN Put(<<>>, pair, <<>>)
      ELSE Put(<<>>, SubSeq(pair, 1, eq - 1), From(pair, eq + 1))

\* One pair of the query as a map: no entry for an empty key.
PairMap(pair) ==
  LET eq == FindFirstOf(pair, {"="}, 1)
  IN  IF eq = 1 THEN <<>>
      ELSE IF eq = 0 THEN Put(<<>>, pair, <<>>)
      ELSE Put(<<>>, SubSeq(pair, 1, eq - 1), From(pair, eq + 1))

\* The loop of _parseQueryMap: Map[i] is what it makes of the query from
\* position i on; a later pair overwrites an earlier one with the same key.
ParseQueryMap(query) ==
  LET Map[i \in 1 .. Len(query) + 2] ==
        LET amp  == FindFirstOf(query, {"&"}, i)
            next == IF amp = 0 THEN Len(query) + 1 ELSE amp
        IN  IF i > Len(query) THEN <<>>
            ELSE IF amp = i THEN Map[i + 1]
            ELSE Over(Map[next + 1], PairMap(SubSeq(query, i, next - 1)))
  IN  Map[1]
-----------------------------------------------------------------------------
(* _parseURI: one operator per case of its switch.  The parser's state is  *)
(* the input that is left, the part to look for, the data found so far and *)
(* the exception thrown.                                                   *)

Start(text) == [input |-> text, part |-> "SCHEME", data |-> NoData,
                error |-> "none"]

BadScheme(scheme) ==
  /\ scheme # <<>>
  /\ \/ scheme[1] \notin Alphas
     \/ \E i \in 2 .. Len(scheme) : scheme[i] \notin SchemeChars

ParseScheme(p) ==
  LET cut    == ParseURIPart(p.input, "SCHEME")
      scheme == ToLower(cut.output)
  IN  [p EXCEPT !.input       = cut.input,
                !.data.scheme = scheme,
                !.error       = IF BadScheme(scheme) THEN "invalid_argument"
                                                     ELSE @,
                !.part        = IF scheme \in {<<>>, <<"f", "i", "l", "e">>}
                                THEN "PATH" ELSE "AUTHORITY"]

ParseAuthorityPart(p) ==
  LET cut   == ParseURIPart(p.input, "AUTHORITY")
      error == IF cut.output = <<>> THEN "none" ELSE AuthorityError(cut.output)
  IN  [p EXCEPT !.input = cut.input,
                !.error = error,
                !.data  = IF cut.output = <<>> \/ error # "none" THEN @
                          ELSE ParseAuthority(@, cut.output),
                !.part  = "PATH"]

ParsePath(p) ==
  LET cut == ParseURIPart(p.input, "PATH")
  IN  [p EXCEPT !.input = cut.input, !.data.path = cut.output,
                !.part = "QUERY"]

ParseQuery(p) ==
  LET cut == ParseURIPart(p.input, "QUERY")
  IN  [p EXCEPT !.input         = cut.input,
                !.data.query    = cut.output,
                !.data.queryMap = ParseQueryMap(cut.output),
                !.part          = "FRAGMENT"]

\* The last part is not taken off the input (mutant).
ParseFragmentKeepInput(p) ==
  [p EXCEPT !.data.fragment = ParseURIPart(p.input, "FRAGMENT").output]

ParseFragment(p) ==
  LET cut == ParseURIPart(p.input, "FRAGMENT")
  IN  [p EXCEPT !.input = cut.input, !.data.fragment = cut.output]

\* One turn of the loop.
Turn(p) ==
  CASE p.part = "SCHEME"    -> ParseScheme(p)
    [] p.part = "AUTHORITY" -> ParseAuthorityPart(p)
    [] p.part = "PATH"      -> ParsePath(p)
    [] p.part = "QUERY"     -> ParseQuery(p)
    [] p.part = "FRAGMENT"  -> ParseFragment(p)

\* The test of the while loop.
Looping(p) == p.input # <<>> /\ p.error = "none"

\* The whole loop: there is one turn per part at most.
ParseURI(text) ==
  LET Loop(p) == IF Looping(p) THEN Turn(p) ELSE p
  IN  Loop(Loop(Loop(Loop(Loop(Start(text))))))
-----------------------------------------------------------------------------
(* operator<<.                                                             *)

ToDecimal[n \in Nat] ==
  IF n < 10 THEN <<DecDigits[n + 1]>>
            ELSE Append(ToDecimal[n \div 10], DecDigits[(n % 10) + 1])

\* The user information is not printed (mutant).
AuthorityNoUser(d) ==
  d.host \o (IF d.port = 0 THEN <<>> ELSE <<":">> \o ToDecimal[d.port])

\* The compound authority, as getAuthority() and operator<< write it.
Authority(d) ==
     (IF d.userinfo = <<>> THEN <<>> ELSE d.userinfo \o <<"@">>)
  \o d.host
  \o (IF d.port = 0 THEN <<>> ELSE <<":">> \o ToDecimal[d.port])

Printed(d) ==
     (IF d.scheme = <<>> THEN <<>> ELSE d.scheme \o <<":", "/", "/">>)
  \o (IF d.host = <<>> THEN <<>> ELSE Authority(d))
  \o d.path
  \o (IF d.query = <<>> THEN <<>> ELSE <<"?">> \o d.query)
  \o (IF d.fragment = <<>> THEN <<>> ELSE <<"#">> \o d.fragment)
=============================================================================
