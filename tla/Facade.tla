------------------------------- MODULE Facade -------------------------------
(***************************************************************************)
(* Two objects of the class Servus (src/servus/servus.{h,cpp}) with one    *)
(* service name: the first sets pairs and announces them, the second       *)
(* discovers and looks them up.  Each has the backend that its process was *)
(* built with, the none backend (src/servus/none/servus.h) if that cannot  *)
(* start, or the test driver if the name asks for it.  The backends do     *)
(* here what their own modules promise.                                    *)
(***************************************************************************)
EXTENDS TxtRecord

CONSTANTS Keys, Values     \* what set() is called with: sequences of bytes

ASSUME TextAssumption == Keys \subseteq Seq(Bytes) /\ Values \subseteq Seq(Bytes)

VARIABLES
  writer, reader,  \* the classes of _impl of the two objects
  announced,       \* isAnnounced() of the first
  data,            \* _data of the first
  browsing,        \* isBrowsing() of the second
  values,          \* _instanceMap[name] of the second, empty without the entry
  fresh            \* the pairs have not changed since they were found

vars == <<writer, reader, announced, data, browsing, values, fresh>>

Zeroconf == {"avahi", "dnssd"}

Builds == Zeroconf \cup {"none"}

\* The constructor of avahi::Servus throws if it cannot reach the daemon; that
\* of dnssd::Servus does not try.
ChooseImplementation(name, build) ==
  IF name = "TEST_DRIVER" THEN {"test"}
  ELSE IF build = "avahi" THEN {"avahi", "none"} ELSE {build}

\* The constructors of both objects.
Init ==
  /\ \E name \in {"TEST_DRIVER", "service"}, build, other \in Builds :
       /\ writer \in ChooseImplementation(name, build)
       /\ reader \in ChooseImplementation(name, other)
  /\ announced = FALSE /\ browsing = FALSE
  /\ data = <<>> /\ values = <<>>
  /\ fresh = FALSE
-----------------------------------------------------------------------------
(* Lookups of the second object.                                           *)

GetInstances == IF values = <<>> THEN {} ELSE {"instance"}

GetKeys == DOMAIN values

ContainsKey(key) == key \in DOMAIN values

Get(key) == IF key \in DOMAIN values THEN values[key] ELSE <<>>

GetHost == Get(HostKey)
-----------------------------------------------------------------------------
(* The first object.                                                       *)

\* set(): the map, and with _updateRecord() the record.
Set(key, value) ==
  /\ data' = Put(data, key, value)
  /\ fresh' = FALSE
  /\ UNCHANGED <<writer, reader, announced, browsing, values>>

\* announce() that succeeds; without a backend it cannot.
Announce ==
  /\ writer # "none"
  /\ announced' = TRUE
  /\ UNCHANGED <<writer, reader, data, browsing, values, fresh>>

Withdraw ==
  /\ announced' = FALSE
  /\ UNCHANGED <<writer, reader, data, browsing, values, fresh>>
-----------------------------------------------------------------------------
(* The second object.                                                      *)

\* What beginBrowsing() returns; creating a browser may fail.  FAILURE stands
\* for AVAHI_ERR_FAILURE, which has the value of PENDING.
BeginResults ==
  CASE reader = "none"                 -> {"NOT_SUPPORTED"}
    [] reader # "none" /\ browsing     -> {"PENDING"}
    [] reader = "test" /\ ~browsing    -> {"SUCCESS"}
    [] reader = "dnssd" /\ ~browsing   -> {"SUCCESS", "ERROR"}
    [] reader = "avahi" /\ ~browsing   -> {"SUCCESS", "ERROR", "FAILURE"}

\* The map after beginBrowsing(): the test driver waits for browse().
BeginMap(r) == IF reader \in Zeroconf /\ r # "PENDING" THEN <<>> ELSE values

BeginBrowsing ==
  \E r \in BeginResults :
    /\ browsing' = (browsing \/ r = "SUCCESS")
    /\ values' = BeginMap(r)
    /\ fresh' = (fresh /\ values' # <<>>)
    /\ UNCHANGED <<writer, reader, announced, data>>

\* A record reaches the second object only from a zeroconf backend.
Reaches == announced /\ writer \in Zeroconf

\* What browse() may make of the map: the service is reported gone, or found,
\* or neither in time.  Without a browser, dnssd::Servus has no socket to read
\* from, while resolvers of avahi::Servus still answer.
BrowseMaps(map, session) ==
  CASE reader = "none"      -> {map}
    [] reader = "test"      -> {IF announced THEN CopyData(data) ELSE <<>>}
    [] reader \in Zeroconf  ->
         LET heard == Reaches /\ (session \/ reader = "avahi")
             seen  == {map} \cup {m \in {<<>>} : session}
         IN  seen \cup {ReadRecord(reader, Record(writer, data), m) :
                         m \in {n \in seen : heard}}

\* The map is as the announced pairs say.
Found(map) == announced /\ map # <<>> /\
  map = IF reader = "test" THEN CopyData(data)
        ELSE ReadRecord(reader, Record(writer, data), map)

Browse ==
  /\ values' \in BrowseMaps(values, browsing)
  /\ fresh' = Found(values')
  /\ UNCHANGED <<writer, reader, announced, data, browsing>>

EndBrowsing ==
  /\ browsing' = FALSE
  /\ UNCHANGED <<writer, reader, announced, data, values, fresh>>

DiscoverMaps(r) ==
  IF r \in {"SUCCESS", "PENDING", "FAILURE"}
  THEN BrowseMaps(BeginMap(r), r # "FAILURE") ELSE {BeginMap(r)}

\* discover() ends all browsing (mutant).
DiscoverEnds ==
  \E r \in BeginResults :
    /\ values' \in DiscoverMaps(r)
    /\ browsing' = FALSE
    /\ fresh' = Found(values')
    /\ UNCHANGED <<writer, reader, announced, data>>

\* beginBrowsing(), browse() and endBrowsing(), of which the last is for the
\* call that began.  It returns GetInstances.
Discover ==
  \E r \in BeginResults :
    /\ values' \in DiscoverMaps(r)
    /\ browsing' = IF r = "SUCCESS" THEN FALSE ELSE browsing
    /\ fresh' = Found(values')
    /\ UNCHANGED <<writer, reader, announced, data>>

Next ==
  \/ \E key \in Keys, value \in Values : Set(key, value)
  \/ Announce \/ Withdraw
  \/ BeginBrowsing \/ Browse \/ EndBrowsing \/ Discover

Spec == Init /\ [][Next]_vars
-----------------------------------------------------------------------------
PlainKey(k) == k # <<>> /\ Equals(k) = 0 /\ k # HostKey

\* If no key has a = in it, every pair that fits into an entry is looked up as
\* it was set last, with every backend from every backend, however often it
\* was changed and found again; a pair of the test driver need not fit.
ReadsBack ==
  fresh /\ (\A k \in DOMAIN data : PlainKey(k)) =>
    /\ GetInstances # {} /\ GetHost = Host
    /\ \A k \in DOMAIN data :
         reader = "test" \/ Len(Pair(k, data[k])) <= MaxEntry
           => ContainsKey(k) /\ Get(k) = data[k]

\* No backend makes up keys out of plain ones that leave room for a value.
OnlyWhatWasSet ==
  (\A k \in DOMAIN data : PlainKey(k) /\ Len(k) < MaxEntry)
    => GetKeys \subseteq DOMAIN data \cup {HostKey}

\* discover() leaves isBrowsing() as it was, whatever fails in it.
DiscoverKeepsBrowsing == [][Discover => browsing' = browsing]_vars
=============================================================================
