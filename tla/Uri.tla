-------------------------------- MODULE Uri --------------------------------
(***************************************************************************)
(* servus::URI objects (src/servus/uri.{h,cpp}): construction, copies,     *)
(* setters and the query, which each object keeps as a text and as a map.  *)
(* A client makes one URI of a text, keeps it in an object and goes on     *)
(* with that.                                                              *)
(***************************************************************************)
EXTENDS UriParser

\* The objects, and the arguments a client calls the methods with.
CONSTANTS Objects, Settable, PartTexts, Ports, QueryTexts, QueryKeys,
          QueryValues

\* The parts with a setter that only stores its argument.
StringParts == {"scheme", "userinfo", "host", "path", "fragment"}

ASSUME SettableAssumption == Settable \subseteq StringParts
ASSUME PortsAssumption == Ports \subseteq 0 .. 2^PortBits - 1
ASSUME ArgumentAssumption ==
  PartTexts \cup QueryTexts \cup QueryKeys \cup QueryValues \subseteq Seq(Character)

\* uri[o]: the URIData of object o.
VARIABLE uri

uriVars == <<parserVars, uri>>

\* The loop of addQuery that writes the map as a text.  Nothing depends on
\* the order in which std::map lists the keys.
RebuildQuery(map) ==
  LET keys == SetToSeq(DOMAIN map)
      Text[i \in 0 .. Len(keys)] ==
        IF i = 0 THEN <<>>
        ELSE (IF Text[i - 1] = <<>> THEN <<>> ELSE Text[i - 1] \o <<"&">>)
               \o (keys[i] \o <<"=">> \o map[keys[i]])
  IN  Text[Len(keys)]

\* The default constructor.
UriInit == ParserInit /\ uri = [o \in Objects |-> NoData]

\* URI(const std::string&) has returned: the parser's data is the object's.
Construct(o) ==
  /\ Keep
  /\ uri' = [uri EXCEPT ![o] = parser.data]

\* The client works with its objects.
Client == outcome = "kept" /\ UNCHANGED parserVars

\* The copy constructor and operator=: each object has data of its own.
Assign(o, rhs) == Client /\ uri' = [uri EXCEPT ![o] = uri[rhs]]

\* setScheme, setUserInfo, setHost, setPath and setFragment.
SetPart(o, part, s) == Client /\ uri' = [uri EXCEPT ![o][part] = s]

SetPort(o, port) == Client /\ uri' = [uri EXCEPT ![o].port = port]

SetQuery(o, query) ==
  /\ Client
  /\ uri' = [uri EXCEPT ![o].query = query, ![o].queryMap = ParseQueryMap(query)]

\* addQuery appends to the text instead of writing it anew (mutant).
AddQueryAppend(o, key, value) ==
  /\ Client
  /\ uri' = [uri EXCEPT ![o].queryMap = Put(@, key, value),
                        ![o].fragment = <<>>,
                        ![o].query    = @ \o <<"&">> \o key \o <<"=">> \o value]

AddQuery(o, key, value) ==
  LET map == Put(uri[o].queryMap, key, value)
  IN  /\ Client
      /\ uri' = [uri EXCEPT ![o].queryMap = map,
                            ![o].fragment = <<>>,
                            ![o].query    = RebuildQuery(map)]

Parse == ParserStep /\ UNCHANGED uri

UriNext ==
  \/ Parse
  \/ \E o \in Objects :
       \/ Construct(o)
       \/ \E rhs \in Objects : Assign(o, rhs)
       \/ \E part \in Settable, s \in PartTexts : SetPart(o, part, s)
       \/ \E port \in Ports : SetPort(o, port)
       \/ \E query \in QueryTexts : SetQuery(o, query)
       \/ \E key \in QueryKeys, value \in QueryValues : AddQuery(o, key, value)

\* The constructor runs in a thread that nothing holds up.
UriSpec == UriInit /\ [][UriNext]_uriVars /\ WF_uriVars(Parse)
-----------------------------------------------------------------------------
Free(s, chars) == ToSet(s) \cap chars = {}

\* The fields between the & of a query, as pairs of positions.
Fields(query) ==
  LET IsField(i, j) ==
        /\ i <= j
        /\ Free(SubSeq(query, i, j), {"&"})
        /\ i = 1 \/ query[i - 1] = "&"
        /\ j = Len(query) \/ query[j + 1] = "&"
  IN  {f \in (1 .. Len(query)) \X (1 .. Len(query)) : IsField(f[1], f[2])}

\* The key of a field is what comes before the first =, or all of it.
FieldKey(field) ==
  SubSeq(field, 1, Min({Len(field) + 1} \cup {i \in DOMAIN field : field[i] = "="}) - 1)

FieldValue(field) == From(field, Len(FieldKey(field)) + 2)

\* What a query means: the keys that its fields have, each with the value of
\* the last of its fields.
Meaning(query) ==
  LET Text(f) == SubSeq(query, f[1], f[2])
      Of(k)   == {f \in Fields(query) : FieldKey(Text(f)) = k}
      last(k) == CHOOSE f \in Of(k) : \A g \in Of(k) : g[1] <= f[1]
  IN  [k \in {FieldKey(Text(f)) : f \in Fields(query)} \ {<<>>} |->
         FieldValue(Text(last(k)))]

\* Pairs that a query text can hold.
PlainMap(map) ==
  \A k \in DOMAIN map : k # <<>> /\ Free(k, {"&", "="}) /\ Free(map[k], {"&"})

\* The two copies of the query agree: the map is what the text means, or it
\* has a pair that no text can hold and the text is the map written out.
InStep(d) ==
  \/ d.queryMap = Meaning(d.query)
  \/ ~PlainMap(d.queryMap) /\ d.query = RebuildQuery(d.queryMap)

\* After any sequence of constructors, copies and setters, the query text of an
\* object means what its map says.  The one exception is a map to which
\* addQuery() added an empty key, a key with & or = in it, or a value with &:
\* the text is then still written from the whole map.
QueryInStep == \A o \in Objects : InStep(uri[o])

\* Objects whose parts have only the characters of their place.
WellFormed(d) ==
  /\ ~BadScheme(d.scheme) /\ d.scheme = ToLower(d.scheme)
  /\ Free(d.userinfo, {"@", "/", "?", "#"})
  /\ Free(d.host, {"@", ":", "/", "?", "#"})
  /\ d.host = <<>> => d.userinfo = <<>> /\ d.port = 0
  /\ d.scheme \in {<<>>, <<"f", "i", "l", "e">>} => d.host = <<>>
  /\ d.scheme = <<>> => Free(d.path, {":"})
  /\ Free(d.path, {"?", "#"})
  /\ d.path # <<>> => d.path[1] = "/" \/ d.scheme \in {<<>>, <<"f", "i", "l", "e">>}
  /\ Free(d.query, {"#"}) /\ PlainMap(d.queryMap)

\* A well formed object prints to a text that parses to the same object,
\* however it came to its parts.
PrintsItself ==
  \A o \in Objects :
    LET parse == ParseURI(Printed(uri[o]))
    IN  WellFormed(uri[o]) => parse.error = "none" /\ parse.data = uri[o]
=============================================================================
