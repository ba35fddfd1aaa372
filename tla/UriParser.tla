----------------------------- MODULE UriParser -----------------------------
(***************************************************************************)
(* The constructor of servus::URI (src/servus/uri.cpp, class detail::URI): *)
(* the loop of _parseURI, one action per turn.  What it read is printed    *)
(* with operator<< and parsed once more.                                   *)
(***************************************************************************)
EXTENDS UriText

\* Texts to parse: a prefix and up to MaxTail characters of Chars, and those
\* that a client keeps the URI of.
CONSTANTS Chars, MaxTail, KeptTexts

\* What texts are made of: Chars and what has a meaning in some part.
Character == Chars \cup Alphas \cup ToSet(DecDigits)
               \cup {"@", ":", "/", "?", "#", "&", "=", "+", "-", ".", "space"}

ASSUME TailAssumption == MaxTail \in Nat
ASSUME KeptAssumption == KeptTexts \subseteq Seq(Character)

\* parser: the parser's state; text: what the constructor was given; first:
\* the data of the first parse once its print is being parsed; outcome: the
\* exception that leaves the constructor, or that the client keeps the URI.
VARIABLES parser, text, first, outcome

parserVars == <<parser, text, first, outcome>>

Heads == {<<>>, <<"a", ":", "/", "/">>,
          <<"f", "i", "l", "e", ":", "/", "/">>}

Texts == {head \o tail : head \in Heads, tail \in BoundedSeq(Chars, MaxTail)}
           \cup KeptTexts

\* The test of the while loop fails: the constructor returns.
Done == parser.input = <<>> /\ parser.error = "none"

ParserInit ==
  /\ text \in Texts
  /\ parser = Start(text)
  /\ first = {}
  /\ outcome = "none"

Step(part) ==
  /\ Looping(parser)
  /\ parser.part = part
  /\ parser' = Turn(parser)
  /\ UNCHANGED <<text, first, outcome>>

Scheme == Step("SCHEME")

AuthorityPart == Step("AUTHORITY")

Path == Step("PATH")

Query == Step("QUERY")

Fragment == Step("FRAGMENT")

\* catch (...) of the constructor.
Throw ==
  /\ parser.error # "none"
  /\ outcome = "none"
  /\ outcome' = "uri_parse"
  /\ UNCHANGED <<parser, text, first>>

\* A client prints what it has and makes a URI of the text.
Reparse ==
  /\ Done /\ first = {} /\ outcome = "none"
  /\ first' = {parser.data}
  /\ parser' = Start(Printed(parser.data))
  /\ UNCHANGED <<text, outcome>>

\* The client keeps the URI; the constructor's locals are gone.
Keep ==
  /\ Done /\ first = {} /\ outcome = "none" /\ text \in KeptTexts
  /\ outcome' = "kept"
  /\ text' = <<>>
  /\ parser' = Start(<<>>)
  /\ UNCHANGED first

\* What goes on by itself.
ParserStep ==
  Scheme \/ AuthorityPart \/ Path \/ Query \/ Fragment \/ Throw \/ Reparse

ParserNext == ParserStep \/ Keep

ParserSpec == ParserInit /\ [][ParserNext]_parserVars
-----------------------------------------------------------------------------
\* The assert()s of _parseURIPart hold at every call, whatever the text: a
\* query that is looked for starts with ?, a fragment with #.
AssertsHold ==
  Looping(parser) => PartAsserts(parser.input, parser.part)

\* A reference that cuts from the end of the text: what follows the first #,
\* then the first ? of the rest, then the scheme of what is left if its ://
\* comes before any slash, then the authority up to the first slash.
Reference(s) ==
  LET hash   == FindFirstOf(s \o <<"#">>, {"#"}, 1)
      body   == SubSeq(s, 1, hash - 1)
      mark   == FindFirstOf(body \o <<"?">>, {"?"}, 1)
      front  == SubSeq(body, 1, mark - 1)
      colons == {i \in 2 .. Len(front) - 2 :
                   /\ SubSeq(front, i, i + 2) = <<":", "/", "/">>
                   /\ "/" \notin ToSet(SubSeq(front, 1, i - 1))}
      scheme == IF colons = {} THEN <<>>
                ELSE ToLower(SubSeq(front, 1, Min(colons) - 1))
      rest   == IF colons = {} THEN front ELSE From(front, Min(colons) + 3)
      slash  == IF scheme \in {<<>>, <<"f", "i", "l", "e">>} THEN 1
                ELSE FindFirstOf(rest \o <<"/">>, {"/"}, 1)
  IN  [scheme   |-> scheme,
       auth     |-> SubSeq(rest, 1, slash - 1),
       path     |-> From(rest, slash),
       query    |-> From(body, mark + 1),
       fragment |-> From(s, hash + 1)]

\* The readings of an authority: the user information ends at the first @,
\* the host at the first colon after it, and a number follows the colon.
Readings(auth) ==
  LET IsCut(at, end) ==
        /\ "@" \notin ToSet(SubSeq(auth, 1, at - 1))
        /\ IF at = 0 THEN "@" \notin ToSet(auth) ELSE auth[at] = "@"
        /\ at + 1 < end
        /\ ":" \notin ToSet(SubSeq(auth, at + 1, end - 1))
        /\ end <= Len(auth) => auth[end] = ":" /\ IsNumber(From(auth, end + 1))
      Reading(at, end) ==
        [userinfo |-> SubSeq(auth, 1, at - 1),
         host     |-> SubSeq(auth, at + 1, end - 1),
         port     |-> IF end > Len(auth) THEN 0
                      ELSE Strtol(From(auth, end + 1)) % 2^PortBits]
  IN  {Reading(cut[1], cut[2]) :
         cut \in {c \in (0 .. Len(auth)) \X (2 .. Len(auth) + 1) : IsCut(c[1], c[2])}}

\* The parts the loop finds from the front are those the reference finds from
\* the end, and it throws exactly for a bad scheme or authority.
AgreesWithReference ==
  LET ref      == Reference(text)
      d        == parser.data
      readings == IF ref.auth # <<>> THEN Readings(ref.auth)
                  ELSE {[userinfo |-> <<>>, host |-> <<>>, port |-> 0]}
      bad      == BadScheme(ref.scheme) \/ readings = {}
  IN  first = {} =>
        /\ parser.error # "none" => bad
        /\ Done =>
             /\ ~bad
             /\ readings = {[userinfo |-> d.userinfo, host |-> d.host,
                             port |-> d.port]}
             /\ <<d.scheme, d.path, d.query, d.fragment>> =
                  <<ref.scheme, ref.path, ref.query, ref.fragment>>

\* Printing what was parsed and parsing it again gives the same URI.  The one
\* exception is an empty user information before a host with an @: the first
\* @ is not printed, and the next parse takes the other one for it.
RoundTrip ==
  \A d \in first :
    ~(d.userinfo = <<>> /\ "@" \in ToSet(d.host)) =>
       /\ parser.error = "none"
       /\ Done => parser.data = d

\* The constructor returns or throws: no text keeps its loop going.
Terminates == <>[](Done \/ outcome = "uri_parse")
=============================================================================
