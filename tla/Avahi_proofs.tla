---------------------------- MODULE Avahi_proofs ----------------------------
(***************************************************************************)
(* Proofs about the Avahi backend, for any requests, data, names, paths,   *)
(* error codes and bounds.                                                 *)
(***************************************************************************)
EXTENDS Avahi, SequenceTheorems, TLAPS

(* The types the argument needs; the bus is typed in NotConnected, as long *)
(* as it matters what is on it.                                            *)
Types ==
  /\ announcable \in BOOLEAN
  /\ request \in Requests \cup {Nothing}
  /\ data \in Data
  /\ browser \in BOOLEAN
  /\ quit \in BOOLEAN
  /\ expired \in BOOLEAN
  /\ scope \in {"IF_ALL", "IF_LOCAL"}
  /\ pc \in {"idle", "announce", "browse", "thrown"}

(* What is in the group.  Between announce()'s assignment of the request   *)
(* and the rebuilding of the group the two differ, under the lock.         *)
GroupInv ==
  /\ PublishedIsCurrent
  /\ entry # Nothing => announcable /\ group # "none" /\ request # Nothing

(* announce() in progress: nothing has been stored in _result yet.         *)
CallInv == pc = "announce" => result = PENDING /\ request # Nothing

(* A client that never ran is still connecting, so it has no browser and   *)
(* no browser event is on its way; otherwise the poll is dead.             *)
NotConnected ==
  /\ ~announcable /\ ~quit /\ pc # "thrown" => client = "connecting"
  /\ client = "connecting" =>
       /\ ~announcable /\ ~browser
       /\ bus \in Seq(Events)
       /\ \A i \in 1..Len(bus) : bus[i].kind \notin BrowserEvents

Inv == Types /\ GroupInv /\ CallInv /\ NotConnected /\ LocalOnly

USE NothingAssumption, ErrorsAssumption, DataAssumption

(* _createServices() leaves nothing in the group but the current request,  *)
(* and stores SUCCESS only for a service that is with the daemon.          *)
LEMMA CreateFacts ==
  ASSUME Inv, request # Nothing, NEW d \in Data, NEW before, NEW r,
         CreateServices(d, before, r)
  PROVE  /\ quit' \in BOOLEAN
         /\ entry' # Nothing => group' # "none" /\ entry' = <<request, d>>
         /\ r = SUCCESS /\ before # SUCCESS =>
              OnNetwork' /\ IsAnnounced' /\ entry' = <<request, d>>
<1> USE DEF Inv, Types, GroupInv, publish, SUCCESS
<1>0. <<request, d>> # Nothing
  OBVIOUS
<1>1. CASE group = "none" /\ r = before /\ UNCHANGED <<publish, quit>>
  BY <1>1
<1>2. CASE /\ group' = "uncommitted" /\ entry' \in {Nothing, <<request, d>>}
           /\ r \in Errors /\ quit' = TRUE
  BY <1>2
<1>3. CASE /\ group' = "registering" /\ entry' = <<request, d>>
           /\ r = SUCCESS /\ UNCHANGED quit
  BY <1>0, <1>3 DEF OnNetwork, IsAnnounced
<1> QED
  BY <1>1, <1>2, <1>3 DEF CreateServices

(* What a callback can do, whichever it is: it never takes the client back *)
(* to connecting, publishes only the current request, files only local     *)
(* names in a local session, and, unless a browser called, stores SUCCESS  *)
(* only for a service it has published.                                    *)
LEMMA CallbackFacts ==
  ASSUME Inv, NEW e, NEW r, Callback(e, r)
  PROVE  /\ announcable' \in BOOLEAN /\ quit' \in BOOLEAN
         /\ announcable => announcable'
         /\ client' = "connecting" => client = "connecting" /\ announcable' = announcable
         /\ ~announcable' /\ ~quit' => client' = client
         /\ entry' # Nothing =>
              /\ group' # "none" /\ announcable' /\ request # Nothing
              /\ entry' = entry \/ entry' = <<request, data>>
         /\ scope = "IF_LOCAL" => found' \subseteq LocalNames
         /\ r = SUCCESS /\ e.kind \notin BrowserEvents /\ result # SUCCESS =>
              OnNetwork' /\ IsAnnounced' /\ entry' = <<request, data>> /\ request # Nothing
<1> USE DEF Inv, Types, GroupInv, LocalOnly, publish, lookup, SUCCESS, EEXIST
<1>1. CASE ClientRunning(r)
  <2>1. CASE request = Nothing
    BY <1>1, <2>1 DEF ClientRunning
  <2>2. CASE request # Nothing
    <3>1. CreateServices(data, result, r)
      BY <1>1, <2>2 DEF ClientRunning
    <3> QED
      BY <1>1, <2>2, <3>1, CreateFacts DEF ClientRunning
  <2> QED
    BY <2>1, <2>2
<1>2. CASE e.kind \in {"failure", "collision"} /\ ClientUnusable(e.kind, r)
  BY <1>2 DEF ClientUnusable
<1>3. CASE e.kind = "new" /\ BrowserNew(e.about, r)
  BY <1>3 DEF BrowserNew, BrowserEvents
<1>4. CASE e.kind = "remove" /\ BrowserRemove(e.about, r)
  BY <1>4 DEF BrowserRemove, BrowserEvents
<1>5. CASE e.kind = "all_for_now" /\ BrowserAllForNow(r)
  BY <1>5 DEF BrowserAllForNow, BrowserEvents
<1>6. CASE e.kind = "browser_failure" /\ BrowserFailure(r)
  BY <1>6 DEF BrowserFailure, BrowserEvents
<1>6a. CASE NoCallback(r)
  BY <1>6a DEF NoCallback
<1>7. CASE ResolverIgnored(e.about, r)
  BY <1>7 DEF ResolverIgnored
<1>8. CASE ResolverFound(e.about, r)
  BY <1>8 DEF ResolverFound, Ignored
<1>9. CASE ResolverFailure(e.about, r)
  BY <1>9 DEF ResolverFailure
<1>10. CASE GroupOk(r)
  BY <1>10 DEF GroupOk
<1>11. CASE GroupFailure(r)
  BY <1>11 DEF GroupFailure
<1> QED
  BY <1>1, <1>2, <1>3, <1>4, <1>5, <1>6, <1>6a, <1>7, <1>8, <1>9, <1>10, <1>11 DEF Callback

(* Sending a client, group or resolver event keeps browser events off the  *)
(* bus of a client that is connecting.                                     *)
LEMMA SendFacts ==
  ASSUME Inv, client = "connecting", NEW e \in Events, Send(e),
         e.kind \notin BrowserEvents
  PROVE  /\ bus' \in Seq(Events)
         /\ \A i \in 1..Len(bus') : bus'[i].kind \notin BrowserEvents
<1> bus \in Seq(Events) /\ \A i \in 1..Len(bus) : bus[i].kind \notin BrowserEvents
  BY DEF Inv, NotConnected
<1>1. CASE UNCHANGED bus
  BY <1>1
<1>2. CASE bus' = Append(bus, e)
  BY <1>2
<1> QED
  BY <1>1, <1>2 DEF Send

(* The invariant is inductive. *)
LEMMA Step == Inv /\ [Next]_vars => Inv'
<1> SUFFICES ASSUME Inv, [Next]_vars PROVE Inv'
  OBVIOUS
<1> USE DEF Inv, Types, GroupInv, PublishedIsCurrent, CallInv, NotConnected, LocalOnly,
            lookup, publish, code, call, Return
<1>1. ASSUME NEW d \in Data, Set(d) PROVE Inv'
  <2>1. CASE request = Nothing \/ ~announcable
    BY <1>1, <2>1 DEF Set
  <2>2. CASE request # Nothing /\ announcable
    <3>1. CreateServices(d, result, result')
      BY <1>1, <2>2 DEF Set
    <3> QED
      BY <1>1, <2>2, <3>1, CreateFacts DEF Set
  <2> QED
    BY <2>1, <2>2
<1>2. ASSUME NEW req \in Requests, Announce(req) PROVE Inv'
  BY <1>2 DEF Announce
<1>3. ASSUME Withdraw PROVE Inv'
  BY <1>3 DEF Withdraw
<1>4. ASSUME NEW addr \in {"IF_ALL", "IF_LOCAL"}, BeginBrowsing(addr) PROVE Inv'
  BY <1>4 DEF BeginBrowsing, Connected
<1>5. ASSUME EndBrowsing PROVE Inv'
  BY <1>5 DEF EndBrowsing
<1>6. ASSUME NEW t \in {-1, 0, 1}, Browse(t) PROVE Inv'
  BY <1>6 DEF Browse
<1>7. ASSUME Destroy PROVE Inv'
  <2>1. bus' \in Seq(Events) /\ \A i \in 1..Len(bus') : FALSE
    <3>1. bus' = <<>>
      BY <1>7 DEF Destroy
    <3> QED
      BY <3>1
  <2>2. /\ client' \in {"connecting", "running", "collision"}
        /\ announcable' = (client' = "running") /\ quit' = (client' = "collision")
        /\ browser' = FALSE
    BY <1>7 DEF Destroy
  <2>3. NotConnected'
    <3>1. CASE client' = "connecting"
      BY <2>1, <2>2, <3>1
    <3>2. CASE client' # "connecting"
      BY <2>2, <3>2
    <3> QED
      BY <3>1, <3>2
  <2>4. Types' /\ GroupInv' /\ CallInv' /\ LocalOnly'
    BY <1>7, <2>2 DEF Destroy
  <2> QED
    BY <2>3, <2>4
<1>8. ASSUME NEW s \in Services, NetworkChange(s) PROVE Inv'
  BY <1>8 DEF NetworkChange
<1>9. ASSUME NEW state \in DaemonEvents, DaemonState(state) PROVE Inv'
  <2>1. Of(state) \in Events /\ Of(state).kind \notin BrowserEvents
    BY DaemonAssumption DEF Of, Events, Kinds, ClientEvents, BrowserEvents
  <2>2. client = "connecting" =>
          /\ bus' \in Seq(Events)
          /\ \A i \in 1..Len(bus') : bus'[i].kind \notin BrowserEvents
    BY <1>9, <2>1, SendFacts DEF DaemonState
  <2> QED
    BY <1>9, <2>2 DEF DaemonState
<1>10. ASSUME NEW kind \in {"all_for_now", "browser_failure"}, ReportBrowser(kind) PROVE Inv'
  BY <1>10 DEF ReportBrowser
<1>11. ASSUME NEW state \in {"established", "failed"}, ReportGroup(state) PROVE Inv'
  <2>1. Of("group_ok") \in Events /\ Of("group_failure") \in Events
    BY DEF Of, Events, Kinds, GroupEvents
  <2>2. Of("group_ok").kind \notin BrowserEvents /\ Of("group_failure").kind \notin BrowserEvents
    BY DEF Of, BrowserEvents
  <2>3. client = "connecting" =>
          /\ bus' \in Seq(Events)
          /\ \A i \in 1..Len(bus') : bus'[i].kind \notin BrowserEvents
    BY <1>11, <2>1, <2>2, SendFacts DEF ReportGroup
  <2> QED
    BY <1>11, <2>3 DEF ReportGroup, OnNetwork
<1>12. ASSUME AnnounceNow PROVE Inv'
  <2>1. CreateServices(data, result, result') /\ request # Nothing
    BY <1>12 DEF AnnounceNow
  <2> QED
    BY <1>12, <2>1, CreateFacts DEF AnnounceNow
<1>13. ASSUME AnnounceIterate PROVE Inv'
  <2>1. CASE Dispatch(result')
    <3>1. Callback(Head(bus), result') /\ bus # <<>> /\ bus' = Tail(bus) /\ ~quit
      BY <2>1 DEF Dispatch
    <3>2. client = "connecting" =>
            /\ bus' \in Seq(Events)
            /\ \A i \in 1..Len(bus') : bus'[i].kind \notin BrowserEvents
      BY <3>1
    <3>3. /\ UNCHANGED <<request, data, browser, scope>>
          /\ pc = "announce" /\ ~announcable /\ expired' \in BOOLEAN
          /\ \/ pc' = "announce" /\ ~announcable' /\ result' = PENDING
             \/ pc' = "idle"
      BY <1>13 DEF AnnounceIterate
    <3>4. Types' /\ CallInv' /\ LocalOnly'
      BY <3>1, <3>3, CallbackFacts
    <3>5. GroupInv'
      BY <3>1, <3>3, CallbackFacts
    <3>6. NotConnected'
      BY <3>1, <3>2, <3>3, CallbackFacts
    <3> QED
      BY <3>4, <3>5, <3>6
  <2>2. CASE UNCHANGED <<client, announcable, publish, quit, lookup, bus, result>>
    BY <1>13, <2>2 DEF AnnounceIterate
  <2> QED
    BY <1>13, <2>1, <2>2 DEF AnnounceIterate
<1>14. ASSUME BrowseIterate PROVE Inv'
  <2>0. pc' \in {"browse", "idle"} /\ expired' \in BOOLEAN
        /\ UNCHANGED <<request, data, browser, scope>> /\ pc = "browse"
    BY <1>14 DEF BrowseIterate, BrowseUntil
  <2>1. ASSUME NEW r \in Results, Dispatch(r) PROVE Inv'
    <3>1. Callback(Head(bus), r) /\ bus # <<>> /\ bus' = Tail(bus) /\ ~quit
      BY <2>1 DEF Dispatch
    <3>2. client = "connecting" =>
            /\ bus' \in Seq(Events)
            /\ \A i \in 1..Len(bus') : bus'[i].kind \notin BrowserEvents
      BY <3>1
    <3>3. Types' /\ CallInv' /\ LocalOnly'
      BY <2>0, <3>1, CallbackFacts
    <3>4. GroupInv'
      BY <2>0, <3>1, CallbackFacts
    <3>5. ~announcable' /\ ~quit' => client' = "connecting"
      BY <2>0, <3>1, CallbackFacts
    <3>6. client' = "connecting" => client = "connecting" /\ ~announcable' /\ ~browser'
      BY <2>0, <3>1, CallbackFacts
    <3>7. NotConnected'
      BY <3>2, <3>5, <3>6
    <3> QED
      BY <3>3, <3>4, <3>7
  <2>2. CASE UNCHANGED <<client, announcable, publish, quit, lookup, bus>>
    BY <2>0, <2>2
  <2> QED
    BY <1>14, <2>1, <2>2 DEF BrowseIterate
<1>15. ASSUME BrowseError PROVE Inv'
  BY <1>15 DEF BrowseError, BrowseUntil
<1>16. ASSUME Throw PROVE Inv'
  BY <1>16 DEF Throw
<1>17. ASSUME Tick PROVE Inv'
  BY <1>17 DEF Tick
<1>18. ASSUME NEW s \in Services, ReportNew(s) \/ ReportRemove(s) PROVE Inv'
  BY <1>18 DEF ReportNew, ReportRemove
<1>19. ASSUME NEW v \in Resolvers, NEW k \in ResolveEvents, Answer(v, k) PROVE Inv'
  <2>1. [kind |-> k, about |-> v] \in Events /\ k \notin BrowserEvents
    BY DEF Events, Kinds, ResolveEvents, BrowserEvents
  <2>2. client = "connecting" =>
          /\ bus' \in Seq(Events)
          /\ \A i \in 1..Len(bus') : bus'[i].kind \notin BrowserEvents
    BY <1>19, <2>1, SendFacts DEF Answer, ResolveEvents
  <2> QED
    BY <1>19, <2>2 DEF Answer
<1>20. ASSUME UNCHANGED vars PROVE Inv'
  BY <1>20 DEF vars
<1> QED
  BY <1>1, <1>2, <1>3, <1>4, <1>5, <1>6, <1>7, <1>8, <1>9, <1>10, <1>11, <1>12, <1>13,
     <1>14, <1>15, <1>16, <1>17, <1>18, <1>19, <1>20
     DEF Next, Application, Environment, Progress, Continue

(* The constructor establishes the invariant.                              *)
LEMMA Initially == Init => Inv
<1> SUFFICES ASSUME Init PROVE Inv
  OBVIOUS
<1>1. bus \in Seq(Events) /\ \A i \in 1..Len(bus) : FALSE
  BY DEF Init
<1>2. NotConnected
  BY <1>1 DEF Init, NotConnected
<1> QED
  BY <1>2 DEF Init, Inv, Types, GroupInv, PublishedIsCurrent, CallInv, LocalOnly

(* The invariant holds of every reachable state of the Avahi backend.      *)
THEOREM Invariance == Spec => []Inv
BY Initially, Step, PTL DEF Spec

(* What is published is the current request with the current data: no late *)
(* client event brings a withdrawn service back, no set() or announce()    *)
(* leaves an older record.                                                 *)
THEOREM Publishing == Spec => []PublishedIsCurrent
<1>1. Inv => PublishedIsCurrent
  BY DEF Inv, GroupInv
<1> QED
  BY <1>1, Invariance, PTL

(* A local session shows only local instances, whatever resolvers of an    *)
(* earlier session answer late.                                            *)
THEOREM Locality == Spec => []LocalOnly
<1>1. Inv => LocalOnly
  BY DEF Inv
<1> QED
  BY <1>1, Invariance, PTL

(* announce() returns SUCCESS only for a service that is with the daemon,  *)
(* although _result is shared with the callbacks of browsing.              *)
THEOREM Truthfulness == Spec => AnnounceTruthful
<1> DEFINE Truthful == pc = "announce" /\ pc' = "idle" /\ result' = SUCCESS
                         => IsAnnounced' /\ OnNetwork' /\ entry' = <<request, data>>
<1>1. Inv /\ [Next]_vars => [Truthful]_vars
  <2> SUFFICES ASSUME Inv, [Next]_vars, pc = "announce", pc' = "idle", result' = SUCCESS
               PROVE  IsAnnounced' /\ OnNetwork' /\ entry' = <<request, data>>
    OBVIOUS
  <2>0. result = PENDING /\ request # Nothing /\ PENDING # SUCCESS /\ data \in Data
    BY DEF Inv, CallInv, Types, PENDING, SUCCESS
  <2>1. AnnounceNow \/ AnnounceIterate
    BY DEF Next, Application, Environment, Progress, Continue, Set, Announce, Withdraw,
       BeginBrowsing, EndBrowsing, Browse, Destroy, NetworkChange, DaemonState,
       ReportBrowser, ReportGroup, ReportNew, ReportRemove, Answer, Tick, BrowseIterate,
       BrowseError, Throw, call, vars
  <2>2. CASE AnnounceNow
    BY <2>0, <2>2, CreateFacts DEF AnnounceNow
  <2>3. CASE AnnounceIterate
    <3>1. Dispatch(result')
      BY <2>0, <2>3 DEF AnnounceIterate
    <3>2. client = "connecting" /\ bus # <<>> /\ Callback(Head(bus), result')
      BY <2>3, <3>1 DEF Dispatch, AnnounceIterate, Inv, NotConnected
    <3>3. Head(bus).kind \notin BrowserEvents
      BY <3>2 DEF Inv, NotConnected
    <3> QED
      BY <2>0, <3>2, <3>3, CallbackFacts
  <2> QED
    BY <2>1, <2>2, <2>3
<1> QED
  BY <1>1, Invariance, PTL DEF Spec, AnnounceTruthful
-----------------------------------------------------------------------------
(* Discovery.  What the daemon has reported is found, or will be.          *)

Arrival(s) == [kind |-> "new", about |-> s]
Removal(s) == [kind |-> "remove", about |-> s]

\* Browser events are about services; a resolver event is about a resolver that
\* is not freed, and the only one about it.
BusInv ==
  \A i \in 1 .. Len(bus) :
    /\ bus[i].kind \in {"new", "remove"} => bus[i].about \in Services
    /\ bus[i].kind \in ResolveEvents =>
         /\ bus[i].about \in live
         /\ \A j \in 1 .. Len(bus) :
              bus[j].kind \in ResolveEvents /\ bus[j].about = bus[i].about => j = i

\* The arrival is on the bus, and no departure behind it.
Arriving(s) ==
  \E i \in 1 .. Len(bus) : /\ bus[i] = Arrival(s)
                           /\ \A j \in i + 1 .. Len(bus) : bus[j] # Removal(s)

\* A resolver is at work.
Answering(s) == \E v \in live : v[2] = s

Lost == failed \cup erased

Arrived(s) ==
  /\ \A i \in 1 .. Len(bus) : bus[i] # Removal(s)
  /\ s[2] \in found \/ Answering(s) \/ s \in Lost

ReportedComes ==
  ~quit /\ scope = "IF_ALL"
    => \A s \in told \cap net : Arriving(s) \/ Arrived(s)

DiscoveryInv == Inv /\ TypeOK /\ BusInv /\ ReportedComes

(* An event is sent.                                                       *)
LEMMA Sent ==
  ASSUME TypeOK, NEW e \in Events, Send(e)
  PROVE  /\ bus' \in Seq(Events)
         /\ \/ quit /\ bus' = bus
            \/ /\ Len(bus') = Len(bus) + 1 /\ Len(bus) \in Nat
               /\ \A i \in 1 .. Len(bus) : bus'[i] = bus[i]
               /\ bus'[Len(bus) + 1] = e
<1>1. bus \in Seq(Events) /\ Len(bus) \in Nat
  BY LenProperties DEF TypeOK
<1>2. CASE quit
  BY <1>1, <1>2 DEF Send
<1>3. CASE ~quit
  <2>1. bus' = Append(bus, e)
    BY <1>3 DEF Send
  <2> QED
    BY <1>1, <2>1, AppendProperties
<1> QED
  BY <1>2, <1>3

(* An event is taken off the bus.                                          *)
LEMMA Taken ==
  ASSUME TypeOK, bus # <<>>, bus' = Tail(bus)
  PROVE  /\ bus' \in Seq(Events) /\ Len(bus') = Len(bus) - 1 /\ Len(bus) \in Nat \ {0}
         /\ \A i \in 1 .. Len(bus') : bus'[i] = bus[i + 1]
         /\ Head(bus) = bus[1] /\ bus[1] \in Events
<1>1. bus \in Seq(Events) /\ Len(bus) \in Nat
  BY LenProperties DEF TypeOK
<1>2. /\ Head(bus) \in Events /\ Tail(bus) \in Seq(Events)
      /\ Len(Tail(bus)) = Len(bus) - 1
      /\ \A i \in 1 .. Len(Tail(bus)) : Tail(bus)[i] = bus[i + 1]
  BY <1>1, HeadTailProperties
<1>3. Len(bus) # 0
  BY <1>1, EmptySeq
<1> QED
  BY <1>1, <1>2, <1>3

(* What a callback does to the map and the resolvers.                      *)
LEMMA CallbackLookup ==
  ASSUME NEW e, NEW r, Callback(e, r)
  PROVE  /\ quit => quit'
         /\ e.kind = "new" =>
              /\ found' = found /\ failed' = failed \ {e.about} /\ erased' = erased \ {e.about}
              /\ quit' \/ \E i \in Unused : live' = live \cup {<<i, e.about>>}
         /\ e.kind = "remove" =>
              /\ found' = found \ {e.about[2]} /\ live' = live /\ failed' = failed
              /\ erased' = erased \cup (Called(e.about[2]) \ {e.about})
         /\ e.kind \in ResolveEvents =>
              \/ UNCHANGED <<found, live, failed, erased>> /\ scope = "IF_LOCAL"
              \/ /\ found' = found \cup {e.about[2][2]} /\ live' = live \ {e.about}
                 /\ failed' = failed \ Called(e.about[2][2])
                 /\ erased' = erased \ Called(e.about[2][2])
              \/ /\ UNCHANGED <<found, erased>> /\ live' = live \ {e.about}
                 /\ failed' = failed \cup {e.about[2]}
         /\ e.kind \notin ResolveEvents \cup {"new", "remove"} =>
              UNCHANGED <<found, live, failed, erased>>
<1>1. CASE e.kind = "running" /\ ClientRunning(r)
  BY <1>1 DEF ClientRunning, CreateServices, lookup, publish, ResolveEvents
<1>2. CASE e.kind \in {"failure", "collision"} /\ ClientUnusable(e.kind, r)
  BY <1>2 DEF ClientUnusable, lookup, ResolveEvents
<1>3. CASE e.kind = "new" /\ BrowserNew(e.about, r)
  BY <1>3 DEF BrowserNew, ResolveEvents
<1>4. CASE e.kind = "remove" /\ BrowserRemove(e.about, r)
  BY <1>4 DEF BrowserRemove, ResolveEvents
<1>5. CASE e.kind = "all_for_now" /\ BrowserAllForNow(r)
  BY <1>5 DEF BrowserAllForNow, lookup, ResolveEvents
<1>6. CASE e.kind = "browser_failure" /\ BrowserFailure(r)
  BY <1>6 DEF BrowserFailure, lookup, ResolveEvents
<1>7. CASE e.kind = Stale /\ NoCallback(r)
  BY <1>7 DEF NoCallback, Stale, lookup, ResolveEvents
<1>8. CASE e.kind \in ResolveEvents /\ ResolverIgnored(e.about, r)
  BY <1>8 DEF ResolverIgnored, Ignored, lookup, ResolveEvents
<1>9. CASE e.kind = "found" /\ ResolverFound(e.about, r)
  BY <1>9 DEF ResolverFound, ResolveEvents
<1>10. CASE e.kind = "unresolved" /\ ResolverFailure(e.about, r)
  BY <1>10 DEF ResolverFailure, ResolveEvents
<1>11. CASE e.kind = "group_ok" /\ GroupOk(r)
  BY <1>11 DEF GroupOk, lookup, ResolveEvents
<1>12. CASE e.kind = "group_failure" /\ GroupFailure(r)
  BY <1>12 DEF GroupFailure, lookup, ResolveEvents
<1> QED
  BY <1>1, <1>2, <1>3, <1>4, <1>5, <1>6, <1>7, <1>8, <1>9, <1>10, <1>11, <1>12 DEF Callback

(* The new resolver is not one of those that exist.                        *)
LEMMA NewResolver ==
  ASSUME TypeOK, NEW s \in Services, NEW i \in Unused
  PROVE  <<i, s>> \in Resolvers /\ <<i, s>> \notin live
BY DEF TypeOK, Unused, Resolvers

(* _createServices() for a request leaves things in their types.           *)
LEMMA CreateTypes ==
  ASSUME TypeOK, request # Nothing, NEW d \in Data, NEW before \in Results, NEW r,
         CreateServices(d, before, r)
  PROVE  /\ r \in Results /\ quit' \in BOOLEAN
         /\ group' \in {"none", "uncommitted", "registering", "established", "failed"}
         /\ entry' \in (Requests \X Data) \cup {Nothing}
<1>1. <<request, d>> \in Requests \X Data
  BY DEF TypeOK
<1>2. CASE group = "none" /\ r = before /\ UNCHANGED <<publish, quit>>
  BY <1>2 DEF TypeOK, publish
<1>3. CASE /\ group' = "uncommitted" /\ entry' \in {Nothing, <<request, d>>}
           /\ r \in Errors /\ quit' = TRUE
  BY <1>1, <1>3 DEF Results
<1>4. CASE /\ group' = "registering" /\ entry' = <<request, d>>
           /\ r = SUCCESS /\ UNCHANGED quit
  BY <1>1, <1>4 DEF TypeOK, Results
<1> QED
  BY <1>2, <1>3, <1>4 DEF CreateServices

(* So does every callback.                                                 *)
LEMMA CallbackTypes ==
  ASSUME Inv, TypeOK, NEW e \in Events, NEW r, Callback(e, r),
         e.kind \in {"new", "remove"} => e.about \in Services,
         e.kind \in ResolveEvents => e.about \in live
  PROVE  /\ r \in Results /\ quit' \in BOOLEAN /\ announcable' \in BOOLEAN
         /\ client' \in {"connecting"} \cup ClientEvents
         /\ group' \in {"none", "uncommitted", "registering", "established", "failed"}
         /\ entry' \in (Requests \X Data) \cup {Nothing}
         /\ found' \subseteq Names /\ rows' \subseteq Names /\ live' \subseteq Resolvers
         /\ failed' \subseteq Services /\ erased' \subseteq Services
<1> USE DEF TypeOK, lookup, publish, Results
<1>0. /\ \A s \in Services : s[2] \in Names
      /\ \A v \in live : v[2] \in Services /\ v[2][2] \in Names
  BY DEF Services, Resolvers
<1>1. CASE ClientRunning(r)
  <2>0. client' = "running" /\ announcable' = TRUE /\ UNCHANGED lookup
    BY <1>1 DEF ClientRunning
  <2>1. CASE request = Nothing
    BY <1>1, <2>0, <2>1 DEF ClientRunning, ClientEvents
  <2>2. CASE request # Nothing
    <3>1. CreateServices(data, result, r)
      BY <1>1, <2>2 DEF ClientRunning
    <3> QED
      BY <2>0, <2>2, <3>1, CreateTypes DEF ClientEvents
  <2> QED
    BY <2>1, <2>2
<1>2. CASE e.kind \in {"failure", "collision"} /\ ClientUnusable(e.kind, r)
  BY <1>2 DEF ClientUnusable, ClientEvents
<1>3. CASE e.kind = "new" /\ BrowserNew(e.about, r)
  <2>1. e.about \in Services
    BY <1>3
  <2>2. \A i \in Unused : <<i, e.about>> \in Resolvers
    BY <2>1, NewResolver
  <2> QED
    BY <1>3, <2>2 DEF BrowserNew
<1>4. CASE e.kind = "remove" /\ BrowserRemove(e.about, r)
  BY <1>4 DEF BrowserRemove, Called
<1>5. CASE BrowserAllForNow(r) \/ BrowserFailure(r) \/ NoCallback(r) \/ GroupOk(r) \/ GroupFailure(r)
  BY <1>5 DEF BrowserAllForNow, BrowserFailure, NoCallback, GroupOk, GroupFailure
<1>6. CASE e.kind \in ResolveEvents /\ ResolverIgnored(e.about, r)
  BY <1>6 DEF ResolverIgnored
<1>7. CASE e.kind = "found" /\ ResolverFound(e.about, r)
  <2>1. e.about[2][2] \in Names
    BY <1>0, <1>7 DEF ResolveEvents
  <2> QED
    BY <1>7, <2>1 DEF ResolverFound
<1>8. CASE e.kind = "unresolved" /\ ResolverFailure(e.about, r)
  <2>1. e.about[2] \in Services
    BY <1>0, <1>8 DEF ResolveEvents
  <2> QED
    BY <1>8, <2>1 DEF ResolverFailure
<1> QED
  BY <1>1, <1>2, <1>3, <1>4, <1>5, <1>6, <1>7, <1>8 DEF Callback

(* One event is dispatched.  Its callback keeps the events that are left   *)
(* about living resolvers, and brings a reported service one step further. *)
LEMMA DispatchBus ==
  ASSUME Inv, TypeOK, BusInv, NEW r, Dispatch(r)
  PROVE  BusInv'
<1> DEFINE e == bus[1]
<1>0. bus # <<>> /\ bus' = Tail(bus) /\ ~quit /\ Callback(Head(bus), r)
  BY DEF Dispatch
<1>1. /\ Len(bus') = Len(bus) - 1 /\ Len(bus) \in Nat \ {0}
      /\ \A i \in 1 .. Len(bus') : bus'[i] = bus[i + 1]
      /\ Callback(e, r)
  BY <1>0, Taken
<1> SUFFICES ASSUME NEW i \in 1 .. Len(bus')
             PROVE  /\ bus'[i].kind \in {"new", "remove"} => bus'[i].about \in Services
                    /\ bus'[i].kind \in ResolveEvents =>
                         /\ bus'[i].about \in live'
                         /\ \A j \in 1 .. Len(bus') :
                              bus'[j].kind \in ResolveEvents /\ bus'[j].about = bus'[i].about
                                => j = i
  BY DEF BusInv, Services
<1>2. i + 1 \in 1 .. Len(bus) /\ 1 \in 1 .. Len(bus) /\ i + 1 # 1 /\ bus'[i] = bus[i + 1]
  BY <1>1
<1>3. bus'[i].kind \in {"new", "remove"} => bus'[i].about \in Services
  BY <1>2 DEF BusInv
<1>4. ASSUME bus'[i].kind \in ResolveEvents
      PROVE  \A j \in 1 .. Len(bus') :
               bus'[j].kind \in ResolveEvents /\ bus'[j].about = bus'[i].about => j = i
  <2> TAKE j \in 1 .. Len(bus')
  <2>1. j + 1 \in 1 .. Len(bus) /\ bus'[j] = bus[j + 1]
    BY <1>1
  <2>2. bus[j + 1].kind \in ResolveEvents /\ bus[j + 1].about = bus[i + 1].about
          => j + 1 = i + 1
    BY <1>2, <1>4, <2>1 DEF BusInv
  <2> QED
    BY <1>2, <2>1, <2>2
<1>5. ASSUME bus'[i].kind \in ResolveEvents PROVE bus'[i].about \in live'
  <2>1. bus'[i].about \in live
    BY <1>2, <1>5 DEF BusInv
  <2>2. CASE e.kind \in ResolveEvents
    <3>1. e.about # bus'[i].about
      BY <1>2, <1>5, <2>2 DEF BusInv
    <3>2. live' = live \/ live' = live \ {e.about}
      BY <1>1, <2>2, CallbackLookup
    <3> QED
      BY <2>1, <3>1, <3>2
  <2>3. CASE e.kind \notin ResolveEvents
    <3>1. live \subseteq live'
      <4>1. CASE e.kind = "new"
        BY <1>1, <4>1 DEF Callback, BrowserNew, ResolveEvents, ClientEvents, Stale
      <4>2. CASE e.kind = "remove"
        BY <1>1, <4>2, CallbackLookup
      <4>3. CASE e.kind \notin ResolveEvents \cup {"new", "remove"}
        BY <1>1, <4>3, CallbackLookup
      <4> QED
        BY <2>3, <4>1, <4>2, <4>3
    <3> QED
      BY <2>1, <3>1
  <2> QED
    BY <2>2, <2>3
<1> QED
  BY <1>3, <1>4, <1>5

LEMMA DispatchComes ==
  ASSUME Inv, TypeOK, BusInv, ReportedComes, NEW r, Dispatch(r),
         UNCHANGED <<scope, told, net>>
  PROVE  ReportedComes'
<1> DEFINE e == bus[1]
<1>0. bus # <<>> /\ bus' = Tail(bus) /\ ~quit /\ Callback(Head(bus), r)
  BY DEF Dispatch
<1>1. /\ Len(bus') = Len(bus) - 1 /\ Len(bus) \in Nat \ {0}
      /\ \A i \in 1 .. Len(bus') : bus'[i] = bus[i + 1]
      /\ Callback(e, r) /\ e \in Events
  BY <1>0, Taken
<1> SUFFICES ASSUME ~quit', scope = "IF_ALL", NEW s \in told \cap net
             PROVE  Arriving(s)' \/ Arrived(s)'
  BY DEF ReportedComes
<1>2. s \in Services /\ (Arriving(s) \/ Arrived(s))
  BY <1>0 DEF ReportedComes, TypeOK
<1>3. ASSUME \A i \in 2 .. Len(bus) : bus[i] # Removal(s)
      PROVE  \A i \in 1 .. Len(bus') : bus'[i] # Removal(s)
  BY <1>1, <1>3
<1>4. ASSUME Arriving(s), e # Arrival(s) PROVE Arriving(s)'
  <2>1. PICK i \in 1 .. Len(bus) : (bus[i] = Arrival(s)
                                     /\ \A j \in i + 1 .. Len(bus) : bus[j] # Removal(s))
    BY <1>4 DEF Arriving
  <2>2. i # 1 /\ i - 1 \in 1 .. Len(bus') /\ bus'[i - 1] = bus[i]
    BY <1>1, <1>4, <2>1
  <2>3. \A j \in (i - 1) + 1 .. Len(bus') : bus'[j] # Removal(s)
    BY <1>1, <2>1, <2>2
  <2> QED
    BY <2>1, <2>2, <2>3 DEF Arriving, Arrival, Removal
<1>5. ASSUME Arriving(s), e = Arrival(s) PROVE Arriving(s)' \/ Arrived(s)'
  <2>1. PICK i \in 1 .. Len(bus) : (bus[i] = Arrival(s)
                                     /\ \A j \in i + 1 .. Len(bus) : bus[j] # Removal(s))
    BY <1>5 DEF Arriving
  <2>2. CASE i # 1
    <3>1. i - 1 \in 1 .. Len(bus') /\ bus'[i - 1] = bus[i]
      BY <1>1, <2>2
    <3>2. \A j \in (i - 1) + 1 .. Len(bus') : bus'[j] # Removal(s)
      BY <1>1, <2>1, <3>1
    <3> QED
      BY <2>1, <3>1, <3>2 DEF Arriving, Arrival, Removal
  <2>3. CASE i = 1
    <3>1. \A j \in 1 .. Len(bus') : bus'[j] # Removal(s)
      BY <1>1, <1>3, <2>1, <2>3
    <3>2. e.kind = "new" /\ e.about = s
      BY <1>5 DEF Arrival
    <3>3. PICK k \in Unused : live' = live \cup {<<k, s>>}
      BY <1>1, <3>2, CallbackLookup
    <3>4. Answering(s)'
      <4>1. <<k, s>> \in live' /\ <<k, s>>[2] = s
        BY <3>3
      <4> QED
        BY <4>1 DEF Answering
    <3> QED
      BY <3>1, <3>4 DEF Arrived, Removal
  <2> QED
    BY <2>2, <2>3
<1>6. ASSUME Arrived(s) PROVE Arrived(s)'
  <2>0. 1 \in 1 .. Len(bus) /\ \A i \in 1 .. Len(bus) : bus[i] # Removal(s)
    BY <1>1, <1>6 DEF Arrived
  <2>1. \A i \in 1 .. Len(bus') : bus'[i] # Removal(s)
    BY <1>1, <1>3, <2>0
  <2>2. CASE s[2] \in found
    <3>1. CASE e.kind = "remove"
      <4>1. e.about \in Services /\ found' = found \ {e.about[2]}
        BY <1>1, <2>0, <3>1, CallbackLookup DEF BusInv
      <4>2. e = Removal(e.about)
        BY <1>1, <3>1 DEF Removal, Events
      <4>3. e.about # s
        BY <2>0, <4>2
      <4>4. CASE e.about[2] # s[2]
        BY <2>1, <2>2, <4>1, <4>4 DEF Arrived, Removal
      <4>5. CASE e.about[2] = s[2]
        <5>1. s \in erased'
          BY <1>1, <1>2, <3>1, <4>3, <4>5, CallbackLookup DEF Called
        <5> QED
          BY <2>1, <5>1 DEF Arrived, Lost, Removal
      <4> QED
        BY <4>4, <4>5
    <3>2. CASE e.kind # "remove"
      <4>1. found \subseteq found'
        BY <1>1, <3>2, CallbackLookup
      <4> QED
        BY <2>1, <2>2, <4>1 DEF Arrived, Removal
    <3> QED
      BY <3>1, <3>2
  <2>3. CASE Answering(s)
    <3>1. PICK v \in live : v[2] = s
      BY <2>3 DEF Answering
    <3>2. CASE v \in live'
      BY <2>1, <3>1, <3>2 DEF Arrived, Answering, Removal
    <3>3. CASE v \notin live'
      <4>1. e.kind \in ResolveEvents /\ e.about = v
        BY <1>1, <3>3, CallbackLookup
      <4>2. s[2] \in found' \/ s \in failed'
        BY <1>1, <3>1, <3>3, <4>1, CallbackLookup
      <4> QED
        BY <2>1, <4>2 DEF Arrived, Lost, Removal
    <3> QED
      BY <3>2, <3>3
  <2>4. CASE s \in Lost
    <3>1. CASE e.kind = "new" /\ e.about = s
      <4>1. PICK k \in Unused : live' = live \cup {<<k, s>>}
        BY <1>1, <3>1, CallbackLookup
      <4>2. <<k, s>> \in live' /\ <<k, s>>[2] = s
        BY <4>1
      <4> QED
        BY <2>1, <4>2 DEF Arrived, Answering, Removal
    <3>2. CASE e.kind = "new" /\ e.about # s
      <4>1. s \in Lost'
        BY <1>1, <2>4, <3>2, CallbackLookup DEF Lost
      <4> QED
        BY <2>1, <4>1 DEF Arrived, Removal
    <3>3. CASE e.kind \in ResolveEvents
      <4>1. s[2] \in found' \/ s \in Lost'
        BY <1>1, <2>4, <3>3, CallbackLookup DEF Lost, Called
      <4> QED
        BY <2>1, <4>1 DEF Arrived, Removal
    <3>4. CASE e.kind \notin ResolveEvents \cup {"new"}
      <4>1. s \in Lost'
        BY <1>1, <2>4, <3>4, CallbackLookup DEF Lost
      <4> QED
        BY <2>1, <4>1 DEF Arrived, Removal
    <3> QED
      BY <3>1, <3>2, <3>3, <3>4
  <2> QED
    BY <1>6, <2>2, <2>3, <2>4 DEF Arrived
<1> QED
  BY <1>2, <1>4, <1>5, <1>6

(* An event joins the bus.                                                 *)
LEMMA SendBus ==
  ASSUME TypeOK, BusInv, NEW e \in Events, Send(e), UNCHANGED live,
         e.kind \in {"new", "remove"} => e.about \in Services,
         e.kind \in ResolveEvents =>
           e.about \in live /\ \A i \in 1 .. Len(bus) : bus[i].about # e.about
  PROVE  BusInv'
<1>1. CASE bus' = bus
  BY <1>1 DEF BusInv, Services
<1>2. CASE bus' # bus
  <2>1. /\ Len(bus') = Len(bus) + 1 /\ Len(bus) \in Nat
        /\ \A i \in 1 .. Len(bus) : bus'[i] = bus[i]
        /\ bus'[Len(bus) + 1] = e
    BY <1>2, Sent
  <2> SUFFICES ASSUME NEW i \in 1 .. Len(bus')
               PROVE  /\ bus'[i].kind \in {"new", "remove"} => bus'[i].about \in Services
                      /\ bus'[i].kind \in ResolveEvents =>
                           /\ bus'[i].about \in live
                           /\ \A j \in 1 .. Len(bus') :
                                bus'[j].kind \in ResolveEvents /\ bus'[j].about = bus'[i].about
                                  => j = i
    BY DEF BusInv, Services
  <2>2. CASE i \in 1 .. Len(bus)
    <3>1. ASSUME bus[i].kind \in ResolveEvents, NEW j \in 1 .. Len(bus'),
                 bus'[j].kind \in ResolveEvents, bus'[j].about = bus'[i].about
          PROVE  j = i
      BY <2>1, <2>2, <3>1 DEF BusInv
    <3>2. bus'[i] = bus[i]
      BY <2>1, <2>2
    <3> QED
      BY <2>2, <3>1, <3>2 DEF BusInv
  <2>3. CASE i = Len(bus) + 1
    <3>1. bus'[i] = e
      BY <2>1, <2>3
    <3>2. ASSUME e.kind \in ResolveEvents, NEW j \in 1 .. Len(bus'), bus'[j].about = e.about
          PROVE  j = i
      BY <2>1, <2>3, <3>2
    <3> QED
      BY <3>1, <3>2
  <2> QED
    BY <2>1, <2>2, <2>3
<1> QED
  BY <1>1, <1>2

(* A service that comes goes on coming, unless the event is its departure. *)
LEMMA SendComes ==
  ASSUME TypeOK, NEW e \in Events, Send(e), UNCHANGED <<live, found, failed, erased>>,
         NEW s, Arriving(s) \/ Arrived(s), e # Removal(s)
  PROVE  Arriving(s)' \/ Arrived(s)'
<1>1. CASE bus' = bus
  BY <1>1 DEF Arriving, Arrived, Answering, Lost, Arrival, Removal
<1>2. CASE bus' # bus
  <2>1. /\ Len(bus') = Len(bus) + 1 /\ Len(bus) \in Nat
        /\ \A i \in 1 .. Len(bus) : bus'[i] = bus[i]
        /\ bus'[Len(bus) + 1] = e
    BY <1>2, Sent
  <2>2. CASE Arriving(s)
    <3>1. PICK i \in 1 .. Len(bus) : (bus[i] = Arrival(s)
                                     /\ \A j \in i + 1 .. Len(bus) : bus[j] # Removal(s))
      BY <2>2 DEF Arriving
    <3>2. i \in 1 .. Len(bus') /\ bus'[i] = Arrival(s)
      BY <2>1, <3>1
    <3>3. \A j \in i + 1 .. Len(bus') : bus'[j] # Removal(s)
      BY <2>1, <3>1
    <3> QED
      BY <3>2, <3>3 DEF Arriving, Arrival, Removal
  <2>3. CASE Arrived(s)
    <3>1. \A i \in 1 .. Len(bus') : bus'[i] # Removal(s)
      BY <2>1, <2>3 DEF Arrived
    <3> QED
      BY <2>3, <3>1 DEF Arrived, Answering, Lost, Removal
  <2> QED
    BY <2>2, <2>3
<1> QED
  BY <1>1, <1>2

(* Steps that have nothing to do with browsing.                            *)
LEMMA QuietStep ==
  ASSUME BusInv, ReportedComes, UNCHANGED <<bus, live, found, failed, erased, scope, told, net>>,
         quit => quit'
  PROVE  BusInv' /\ ReportedComes'
<1>1. BusInv'
  BY DEF BusInv, Services
<1>2. ASSUME NEW s, Arriving(s) \/ Arrived(s) PROVE Arriving(s)' \/ Arrived(s)'
  BY <1>2 DEF Arriving, Arrived, Answering, Lost, Arrival, Removal
<1>3. ReportedComes'
  BY <1>2 DEF ReportedComes
<1> QED
  BY <1>1, <1>3

(* Events about the client, the group or the whole browser.                *)
LEMMA OtherEvent ==
  ASSUME TypeOK, BusInv, ReportedComes, NEW k \in Kinds \ (ResolveEvents \cup {"new", "remove"}),
         Send(Of(k)), UNCHANGED <<live, found, failed, erased, scope, told, net, quit>>
  PROVE  bus' \in Seq(Events) /\ BusInv' /\ ReportedComes'
<1>1. Of(k) \in Events /\ Of(k).kind = k
  BY DEF Of, Events
<1>2. bus' \in Seq(Events)
  BY <1>1, Sent
<1>3. BusInv'
  BY <1>1, SendBus
<1>4. \A s : Of(k) # Removal(s)
  BY <1>1 DEF Removal
<1>5. \A s : Arriving(s) \/ Arrived(s) => Arriving(s)' \/ Arrived(s)'
  BY <1>1, <1>4, SendComes
<1>6. ReportedComes'
  BY <1>5 DEF ReportedComes
<1> QED
  BY <1>2, <1>3, <1>6

(* The daemon reports a service.                                           *)
LEMMA NewInv ==
  ASSUME TypeOK, BusInv, ReportedComes, NEW s \in Services, ReportNew(s)
  PROVE  bus' \in Seq(Events) /\ BusInv' /\ ReportedComes'
<1>0. /\ Send(Arrival(s)) /\ told' = told \cup {s}
      /\ UNCHANGED <<live, found, failed, erased, scope, net, quit>>
  BY DEF ReportNew, code, lookup, Arrival
<1>1. Arrival(s) \in Events /\ Arrival(s).kind = "new" /\ Arrival(s).about = s
  BY DEF Arrival, Events, Kinds, BrowserEvents
<1>2. bus' \in Seq(Events)
  BY <1>0, <1>1, Sent
<1>3. BusInv'
  BY <1>0, <1>1, SendBus DEF ResolveEvents
<1>4. \A t : Arrival(s) # Removal(t)
  BY DEF Arrival, Removal
<1>5. \A t : Arriving(t) \/ Arrived(t) => Arriving(t)' \/ Arrived(t)'
  BY <1>0, <1>1, <1>4, SendComes
<1>6. ~quit => Arriving(s)'
  <2> SUFFICES ASSUME ~quit PROVE Arriving(s)'
    OBVIOUS
  <2>1. /\ Len(bus') = Len(bus) + 1 /\ Len(bus) \in Nat
        /\ bus'[Len(bus) + 1] = Arrival(s)
    BY <1>0, <1>1, Sent
  <2>2. Len(bus') \in 1 .. Len(bus') /\ bus'[Len(bus')] = Arrival(s)
        /\ Len(bus') + 1 .. Len(bus') = {}
    BY <2>1
  <2> QED
    BY <2>2 DEF Arriving, Arrival, Removal
<1>7. ReportedComes'
  BY <1>0, <1>5, <1>6 DEF ReportedComes
<1> QED
  BY <1>2, <1>3, <1>7

(* The daemon reports that a service left.                                 *)
LEMMA RemoveInv ==
  ASSUME TypeOK, BusInv, ReportedComes, NEW s \in Services, ReportRemove(s)
  PROVE  bus' \in Seq(Events) /\ BusInv' /\ ReportedComes'
<1>0. /\ Send(Removal(s)) /\ told' = told \ {s}
      /\ UNCHANGED <<live, found, failed, erased, scope, net, quit>>
  BY DEF ReportRemove, code, lookup, Removal
<1>1. Removal(s) \in Events /\ Removal(s).kind = "remove" /\ Removal(s).about = s
  BY DEF Removal, Events, Kinds, BrowserEvents
<1>2. bus' \in Seq(Events)
  BY <1>0, <1>1, Sent
<1>3. BusInv'
  BY <1>0, <1>1, SendBus DEF ResolveEvents
<1>4. \A t : t # s => Removal(s) # Removal(t)
  BY DEF Removal
<1>5. \A t : t # s /\ (Arriving(t) \/ Arrived(t)) => Arriving(t)' \/ Arrived(t)'
  BY <1>0, <1>1, <1>4, SendComes
<1>6. ReportedComes'
  BY <1>0, <1>5 DEF ReportedComes
<1> QED
  BY <1>2, <1>3, <1>6

(* A resolver answers, whatever it says.                                   *)
LEMMA AnswerInv ==
  ASSUME TypeOK, BusInv, ReportedComes, NEW v \in Resolvers,
         NEW k \in ResolveEvents, Answer(v, k)
  PROVE  bus' \in Seq(Events) /\ BusInv' /\ ReportedComes'
<1> DEFINE e == [kind |-> k, about |-> v]
<1>0. /\ Send(e) /\ v \in live /\ \A i \in 1 .. Len(bus) : bus[i].about # v
      /\ UNCHANGED <<live, found, failed, erased, scope, told, net, quit>>
  BY DEF Answer, code, lookup
<1>1. e \in Events /\ e.kind \in ResolveEvents /\ e.about = v
  BY DEF Events, Kinds, ResolveEvents
<1>2. \A t : e # Removal(t)
  BY DEF Removal, ResolveEvents
<1> HIDE DEF e
<1>4. bus' \in Seq(Events)
  BY <1>0, <1>1, Sent
<1>5. BusInv'
  BY <1>0, <1>1, SendBus DEF ResolveEvents
<1>6. \A t : Arriving(t) \/ Arrived(t) => Arriving(t)' \/ Arrived(t)'
  BY <1>0, <1>1, <1>2, SendComes
<1>7. ReportedComes'
  BY <1>0, <1>6 DEF ReportedComes
<1> QED
  BY <1>4, <1>5, <1>7

(* The browser is freed: its events are about nothing from then on.        *)
LEMMA EndInv ==
  ASSUME TypeOK, BusInv, EndBrowsing
  PROVE  bus' \in Seq(Events) /\ BusInv' /\ ReportedComes'
<1>0. bus \in Seq(Events) /\ Len(bus) \in Nat /\ DOMAIN bus = 1 .. Len(bus)
  BY LenProperties DEF TypeOK
<1>1. /\ bus' = [i \in 1 .. Len(bus) |->
                   IF bus[i].kind \in BrowserEvents THEN Of(Stale) ELSE bus[i]]
      /\ told' = {} /\ live' = live
  BY <1>0 DEF EndBrowsing, lookup
<1>2. Of(Stale) \in Events /\ Of(Stale).kind = "stale"
  BY DEF Of, Stale, Events, Kinds
<1>3. \A i \in 1 .. Len(bus) : bus[i] \in Events
  BY <1>0, ElementOfSeq
<1>4. bus' \in Seq(Events) /\ Len(bus') = Len(bus)
  BY <1>0, <1>1, <1>2, <1>3
<1>5. \A i \in 1 .. Len(bus) : bus'[i].kind = "stale" \/ bus'[i] = bus[i]
  BY <1>1, <1>2
<1>6. BusInv'
  BY <1>1, <1>4, <1>5 DEF BusInv, Services, ResolveEvents
<1>7. ReportedComes'
  BY <1>1 DEF ReportedComes
<1> QED
  BY <1>4, <1>6, <1>7

(* An event that is about no service and no resolver is taken off.         *)
LEMMA QuietTail ==
  ASSUME TypeOK, BusInv, ReportedComes, bus # <<>>, bus' = Tail(bus),
         bus[1].kind \notin ResolveEvents \cup {"new", "remove"},
         UNCHANGED <<live, found, failed, erased, scope, told, net, quit>>
  PROVE  bus' \in Seq(Events) /\ BusInv' /\ ReportedComes'
<1>1. /\ bus' \in Seq(Events) /\ Len(bus') = Len(bus) - 1 /\ Len(bus) \in Nat \ {0}
      /\ \A i \in 1 .. Len(bus') : bus'[i] = bus[i + 1]
  BY Taken
<1>2. BusInv'
  <2> SUFFICES ASSUME NEW i \in 1 .. Len(bus')
               PROVE  /\ bus'[i].kind \in {"new", "remove"} => bus'[i].about \in Services
                      /\ bus'[i].kind \in ResolveEvents =>
                           /\ bus'[i].about \in live
                           /\ \A j \in 1 .. Len(bus') :
                                bus'[j].kind \in ResolveEvents /\ bus'[j].about = bus'[i].about
                                  => j = i
    BY DEF BusInv, Services
  <2>1. i + 1 \in 1 .. Len(bus) /\ bus'[i] = bus[i + 1]
    BY <1>1
  <2>2. ASSUME NEW j \in 1 .. Len(bus'), bus'[i].kind \in ResolveEvents,
               bus'[j].kind \in ResolveEvents, bus'[j].about = bus'[i].about
        PROVE  j = i
    <3>1. j + 1 \in 1 .. Len(bus) /\ bus'[j] = bus[j + 1]
      BY <1>1
    <3>2. j + 1 = i + 1
      BY <2>1, <2>2, <3>1 DEF BusInv
    <3> QED
      BY <1>1, <3>2
  <2> QED
    BY <2>1, <2>2 DEF BusInv
<1>3. ASSUME NEW s, Arriving(s) PROVE Arriving(s)'
  <2>1. PICK i \in 1 .. Len(bus) : (bus[i] = Arrival(s)
                                     /\ \A j \in i + 1 .. Len(bus) : bus[j] # Removal(s))
    BY <1>3 DEF Arriving
  <2>2. i # 1 /\ i - 1 \in 1 .. Len(bus') /\ bus'[i - 1] = bus[i]
    BY <1>1, <2>1 DEF Arrival
  <2>3. \A j \in (i - 1) + 1 .. Len(bus') : bus'[j] # Removal(s)
    BY <1>1, <2>1, <2>2
  <2> QED
    BY <2>1, <2>2, <2>3 DEF Arriving, Arrival, Removal
<1>4. ASSUME NEW s, Arrived(s) PROVE Arrived(s)'
  <2>1. \A i \in 1 .. Len(bus') : bus'[i] # Removal(s)
    BY <1>1, <1>4 DEF Arrived
  <2> QED
    BY <1>4, <2>1 DEF Arrived, Answering, Lost, Removal
<1>5. ReportedComes'
  BY <1>3, <1>4 DEF ReportedComes
<1> QED
  BY <1>1, <1>2, <1>5

(* A call that returns leaves its local variables in their types.          *)
LEMMA Returned ==
  ASSUME Return
  PROVE  /\ pc' = "idle" /\ timeout' \in {-1, 0, 1} /\ expired' \in BOOLEAN
         /\ nErrors' \in 0 .. MaxErrors
<1>1. pc' = "idle" /\ timeout' = 0 /\ nErrors' = 0
  BY DEF Return
<1>2. expired' \in BOOLEAN
  BY Zenon DEF Return
<1> QED
  BY <1>1, <1>2, BoundsAssumption

(* Every step keeps the types, the bus in order and what was reported on   *)
(* its way into the map.                                                   *)
LEMMA DiscoveryStep == DiscoveryInv /\ [Next]_vars => DiscoveryInv'
<1> SUFFICES ASSUME DiscoveryInv, [Next]_vars PROVE DiscoveryInv'
  OBVIOUS
<1>0. Inv /\ TypeOK /\ BusInv /\ ReportedComes /\ Inv'
  BY Step DEF DiscoveryInv
<1> SUFFICES TypeOK' /\ BusInv' /\ ReportedComes'
  BY <1>0 DEF DiscoveryInv
<1> USE DEF lookup, publish, code, call
<1>1. ASSUME NEW d \in Data, Set(d) PROVE TypeOK' /\ BusInv' /\ ReportedComes'
  <2>1. TypeOK' /\ (quit => quit')
    <3>1. CASE request = Nothing \/ ~announcable
      BY <1>0, <1>1, <3>1 DEF Set, TypeOK
    <3>2. CASE request # Nothing /\ announcable
      <4>1. CreateServices(d, result, result') /\ result \in Results
        BY <1>0, <1>1, <3>2 DEF Set, TypeOK
      <4>2. quit => quit'
        BY <4>1 DEF CreateServices
      <4> QED
        BY <1>0, <1>1, <3>2, <4>1, <4>2, CreateTypes DEF Set, TypeOK
    <3> QED
      BY <3>1, <3>2
  <2> QED
    BY <1>0, <1>1, <2>1, QuietStep DEF Set
<1>2. ASSUME NEW req \in Requests, Announce(req)
      PROVE  TypeOK' /\ BusInv' /\ ReportedComes'
  <2>1. expired' \in BOOLEAN
    BY <1>2, Zenon DEF Announce
  <2>2. TypeOK'
    BY <1>0, <1>2, <2>1 DEF Announce, TypeOK, Results
  <2> QED
    BY <1>0, <1>2, <2>2, QuietStep DEF Announce
<1>3. ASSUME Withdraw PROVE TypeOK' /\ BusInv' /\ ReportedComes'
  BY <1>0, <1>3, QuietStep DEF Withdraw, TypeOK
<1>4. ASSUME NEW addr \in {"IF_ALL", "IF_LOCAL"}, BeginBrowsing(addr)
      PROVE  TypeOK' /\ BusInv' /\ ReportedComes'
  <2>0. browser' \in BOOLEAN
    BY <1>4, Zenon DEF BeginBrowsing
  <2>1. TypeOK'
    BY <1>0, <1>4, <2>0 DEF BeginBrowsing, TypeOK, Results
  <2>2. BusInv'
    BY <1>0, <1>4 DEF BeginBrowsing, BusInv, Services
  <2>3. ReportedComes'
    BY <1>4 DEF BeginBrowsing, ReportedComes
  <2> QED
    BY <2>1, <2>2, <2>3
<1>5. ASSUME EndBrowsing PROVE TypeOK' /\ BusInv' /\ ReportedComes'
  <2>1. bus' \in Seq(Events) /\ BusInv' /\ ReportedComes'
    BY <1>0, <1>5, EndInv
  <2>2. browser' \in BOOLEAN
    BY <1>5, Zenon DEF EndBrowsing
  <2>3. TypeOK'
    BY <1>0, <1>5, <2>1, <2>2 DEF EndBrowsing, TypeOK
  <2> QED
    BY <2>1, <2>3
<1>6. ASSUME NEW t \in {-1, 0, 1}, Browse(t) PROVE TypeOK' /\ BusInv' /\ ReportedComes'
  <2>1. expired' \in BOOLEAN
    BY <1>6, Zenon DEF Browse
  <2>2. TypeOK'
    BY <1>0, <1>6, <2>1, BoundsAssumption DEF Browse, TypeOK, Results
  <2> QED
    BY <1>0, <1>6, <2>2, QuietStep DEF Browse
<1>7. ASSUME Destroy PROVE TypeOK' /\ BusInv' /\ ReportedComes'
  <2>1. bus' = <<>> /\ told' = {} /\ live' = {}
    BY <1>7 DEF Destroy
  <2>2. bus' \in Seq(Events) /\ Len(bus') = 0
    BY <2>1
  <2>3. BusInv' /\ ReportedComes'
    BY <2>1, <2>2 DEF BusInv, ReportedComes
  <2>4. /\ client' \in {"connecting"} \cup ClientEvents
        /\ daemon' \in {"connecting", "running", "registering", "collision", "gone"}
        /\ announcable' \in BOOLEAN /\ quit' \in BOOLEAN /\ result' \in Results
    BY <1>7 DEF Destroy, ClientEvents, Results
  <2>5. browser' \in BOOLEAN /\ expired' \in BOOLEAN
    BY <1>7, Zenon DEF Destroy
  <2>6. TypeOK'
    BY <1>0, <1>7, <2>2, <2>4, <2>5, BoundsAssumption DEF Destroy, TypeOK
  <2> QED
    BY <2>3, <2>6
<1>8. ASSUME NEW s \in Services, NetworkChange(s)
      PROVE  TypeOK' /\ BusInv' /\ ReportedComes'
  <2>1. TypeOK'
    BY <1>0, <1>8 DEF NetworkChange, TypeOK
  <2>2. BusInv'
    BY <1>0, <1>8 DEF NetworkChange, BusInv, Services
  <2>3. told' \cap net' \subseteq told \cap net
    BY <1>8 DEF NetworkChange
  <2>4. \A t : Arriving(t) \/ Arrived(t) => Arriving(t)' \/ Arrived(t)'
    BY <1>8 DEF NetworkChange, Arriving, Arrived, Answering, Lost, Arrival, Removal
  <2>5. ReportedComes'
    BY <1>0, <1>8, <2>3, <2>4 DEF NetworkChange, ReportedComes
  <2> QED
    BY <2>1, <2>2, <2>5
<1>9. ASSUME NEW state \in DaemonEvents, DaemonState(state)
      PROVE  TypeOK' /\ BusInv' /\ ReportedComes'
  <2>1. state \in Kinds \ (ResolveEvents \cup {"new", "remove"}) /\ state \in ClientEvents
    BY DaemonAssumption DEF Kinds, ClientEvents, ResolveEvents
  <2>2. bus' \in Seq(Events) /\ BusInv' /\ ReportedComes'
    BY <1>0, <1>9, <2>1, OtherEvent DEF DaemonState
  <2>3. TypeOK'
    BY <1>0, <1>9, <2>1, <2>2 DEF DaemonState, TypeOK, ClientEvents
  <2> QED
    BY <2>2, <2>3
<1>10. ASSUME NEW kind \in {"all_for_now", "browser_failure"}, ReportBrowser(kind)
       PROVE  TypeOK' /\ BusInv' /\ ReportedComes'
  <2>1. kind \in Kinds \ (ResolveEvents \cup {"new", "remove"})
    BY DEF Kinds, BrowserEvents, ResolveEvents
  <2>2. bus' \in Seq(Events) /\ BusInv' /\ ReportedComes'
    BY <1>0, <1>10, <2>1, OtherEvent DEF ReportBrowser
  <2>3. TypeOK'
    BY <1>0, <1>10, <2>2 DEF ReportBrowser, TypeOK
  <2> QED
    BY <2>2, <2>3
<1>11. ASSUME NEW state \in {"established", "failed"}, ReportGroup(state)
       PROVE  TypeOK' /\ BusInv' /\ ReportedComes'
  <2> DEFINE kind == IF state = "failed" THEN "group_failure" ELSE "group_ok"
  <2>1. kind \in Kinds \ (ResolveEvents \cup {"new", "remove"})
    BY DEF Kinds, GroupEvents, ResolveEvents
  <2>2. Send(Of(kind)) /\ UNCHANGED <<live, found, failed, erased, scope, told, net, quit>>
    BY <1>11 DEF ReportGroup
  <2> HIDE DEF kind
  <2>3. bus' \in Seq(Events) /\ BusInv' /\ ReportedComes'
    BY <1>0, <2>1, <2>2, OtherEvent
  <2>4. TypeOK'
    BY <1>0, <1>11, <2>3 DEF ReportGroup, TypeOK
  <2> QED
    BY <2>3, <2>4
<1>12. ASSUME AnnounceNow PROVE TypeOK' /\ BusInv' /\ ReportedComes'
  <2>1. /\ CreateServices(data, result, result') /\ request # Nothing
        /\ result \in Results /\ data \in Data
    BY <1>0, <1>12 DEF AnnounceNow, Inv, CallInv, TypeOK
  <2>2. quit => quit'
    BY <2>1 DEF CreateServices
  <2>3. TypeOK'
    BY <1>0, <1>12, <2>1, CreateTypes, Returned DEF AnnounceNow, TypeOK
  <2> QED
    BY <1>0, <1>12, <2>2, <2>3, QuietStep DEF AnnounceNow
<1>13. ASSUME NEW r, Dispatch(r), UNCHANGED <<request, data, browser, scope, daemon, net, told>>
       PROVE  /\ BusInv' /\ ReportedComes' /\ bus' \in Seq(Events)
              /\ r \in Results /\ quit' \in BOOLEAN /\ announcable' \in BOOLEAN
              /\ client' \in {"connecting"} \cup ClientEvents
              /\ group' \in {"none", "uncommitted", "registering", "established", "failed"}
              /\ entry' \in (Requests \X Data) \cup {Nothing}
              /\ found' \subseteq Names /\ rows' \subseteq Names /\ live' \subseteq Resolvers
              /\ failed' \subseteq Services /\ erased' \subseteq Services
  <2>1. BusInv' /\ ReportedComes'
    BY <1>0, <1>13, DispatchBus, DispatchComes
  <2>2. bus # <<>> /\ bus' = Tail(bus) /\ Callback(Head(bus), r)
    BY <1>13 DEF Dispatch
  <2>3. /\ bus' \in Seq(Events) /\ Len(bus) \in Nat \ {0}
        /\ Head(bus) = bus[1] /\ bus[1] \in Events
    BY <1>0, <2>2, Taken
  <2>4. /\ bus[1].kind \in {"new", "remove"} => bus[1].about \in Services
        /\ bus[1].kind \in ResolveEvents => bus[1].about \in live
    BY <1>0, <2>3 DEF BusInv
  <2>5. Callback(bus[1], r)
    BY <2>2, <2>3
  <2> QED
    BY <1>0, <2>1, <2>3, <2>4, <2>5, CallbackTypes
<1>14. ASSUME AnnounceIterate PROVE TypeOK' /\ BusInv' /\ ReportedComes'
  <2>0. /\ pc' \in {"announce", "idle"} /\ timeout' \in {-1, 0, 1} /\ expired' \in BOOLEAN
        /\ nErrors' \in 0 .. MaxErrors
        /\ UNCHANGED <<request, data, browser, scope, daemon, net, told>>
    BY <1>0, <1>14, Returned DEF AnnounceIterate, TypeOK
  <2>1. CASE Dispatch(result')
    BY <1>0, <1>13, <2>0, <2>1 DEF TypeOK
  <2>2. CASE UNCHANGED <<client, announcable, publish, quit, lookup, bus, result>>
    BY <1>0, <2>0, <2>2, QuietStep DEF TypeOK
  <2> QED
    BY <1>14, <2>1, <2>2 DEF AnnounceIterate
<1>15. ASSUME BrowseIterate PROVE TypeOK' /\ BusInv' /\ ReportedComes'
  <2>0. UNCHANGED <<request, data, browser, scope, daemon, net, told>> /\ pc = "browse"
    BY <1>15 DEF BrowseIterate
  <2>1. ASSUME NEW r \in Results, BrowseUntil(r, nErrors)
        PROVE  /\ pc' \in {"browse", "idle"} /\ timeout' \in {-1, 0, 1}
               /\ expired' \in BOOLEAN /\ nErrors' \in 0 .. MaxErrors /\ result' \in Results
    BY <1>0, <2>0, <2>1, Returned DEF BrowseUntil, TypeOK, Results
  <2>2. ASSUME NEW r \in Results, Dispatch(r), BrowseUntil(r, nErrors)
        PROVE  TypeOK' /\ BusInv' /\ ReportedComes'
    BY <1>0, <1>13, <2>0, <2>1, <2>2 DEF TypeOK
  <2>3. CASE /\ BrowseUntil(result, nErrors)
             /\ UNCHANGED <<client, announcable, publish, quit, lookup, bus>>
    BY <1>0, <2>0, <2>1, <2>3, QuietStep DEF TypeOK
  <2> QED
    BY <1>15, <2>2, <2>3 DEF BrowseIterate
<1>16. ASSUME BrowseError PROVE TypeOK' /\ BusInv' /\ ReportedComes'
  <2>1. /\ pc' \in {"browse", "idle"} /\ timeout' \in {-1, 0, 1}
        /\ expired' \in BOOLEAN /\ nErrors' \in 0 .. MaxErrors /\ result' \in Results
    BY <1>0, <1>16, Returned, BoundsAssumption DEF BrowseError, BrowseUntil, TypeOK, Results
  <2> QED
    BY <1>0, <1>16, <2>1, QuietStep DEF BrowseError, TypeOK
<1>17. ASSUME Throw PROVE TypeOK' /\ BusInv' /\ ReportedComes'
  <2>1. /\ bus # <<>> /\ bus' = Tail(bus) /\ Head(bus).kind = "registering"
        /\ UNCHANGED <<live, found, failed, erased, scope, told, net, quit>>
    BY <1>17 DEF Throw
  <2>2. bus[1].kind \notin ResolveEvents \cup {"new", "remove"}
    BY <1>0, <2>1, Taken DEF ResolveEvents
  <2>3. bus' \in Seq(Events) /\ BusInv' /\ ReportedComes'
    BY <1>0, <2>1, <2>2, QuietTail
  <2>4. expired' \in BOOLEAN
    BY <1>17, Zenon DEF Throw
  <2>5. TypeOK'
    BY <1>0, <1>17, <2>3, <2>4, BoundsAssumption DEF Throw, TypeOK, ClientEvents
  <2> QED
    BY <2>3, <2>5
<1>18. ASSUME Tick PROVE TypeOK' /\ BusInv' /\ ReportedComes'
  BY <1>0, <1>18, QuietStep DEF Tick, TypeOK
<1>19. ASSUME NEW s \in Services, ReportNew(s)
       PROVE  TypeOK' /\ BusInv' /\ ReportedComes'
  <2>1. bus' \in Seq(Events) /\ BusInv' /\ ReportedComes'
    BY <1>0, <1>19, NewInv
  <2>2. TypeOK'
    BY <1>0, <1>19, <2>1 DEF ReportNew, TypeOK
  <2> QED
    BY <2>1, <2>2
<1>20. ASSUME NEW s \in Services, ReportRemove(s)
       PROVE  TypeOK' /\ BusInv' /\ ReportedComes'
  <2>1. bus' \in Seq(Events) /\ BusInv' /\ ReportedComes'
    BY <1>0, <1>20, RemoveInv
  <2>2. TypeOK'
    BY <1>0, <1>20, <2>1 DEF ReportRemove, TypeOK
  <2> QED
    BY <2>1, <2>2
<1>21. ASSUME NEW v \in Resolvers, NEW k \in ResolveEvents, Answer(v, k)
       PROVE  TypeOK' /\ BusInv' /\ ReportedComes'
  <2>1. bus' \in Seq(Events) /\ BusInv' /\ ReportedComes'
    BY <1>0, <1>21, AnswerInv
  <2>2. TypeOK'
    BY <1>0, <1>21, <2>1 DEF Answer, TypeOK
  <2> QED
    BY <2>1, <2>2
<1>22. CASE UNCHANGED vars
  BY <1>0, <1>22, QuietStep DEF vars, TypeOK
<1>23. CASE Application
  BY <1>1, <1>2, <1>3, <1>4, <1>5, <1>6, <1>7, <1>23 DEF Application
<1>24. CASE Environment
  BY <1>8, <1>9, <1>10, <1>11, <1>24 DEF Environment
<1>25. CASE Progress
  BY <1>6, <1>12, <1>14, <1>15, <1>16, <1>17, <1>18, <1>19, <1>20, <1>21, <1>25
     DEF Progress, Continue
<1> QED
  BY <1>22, <1>23, <1>24, <1>25 DEF Next

(* The object, the library and the daemon keep their types, and whatever   *)
(* the daemon reported to the browser of a working poll is found or has    *)
(* its way into the map before it (_browseCB(), _resolveCB()).             *)
THEOREM Discovering == Spec => []DiscoveryInv
<1>1. Init => DiscoveryInv
  <2> SUFFICES ASSUME Init PROVE DiscoveryInv
    OBVIOUS
  <2>1. Inv
    BY Initially
  <2>2. bus = <<>> /\ told = {} /\ live = {}
    BY DEF Init
  <2>3. bus \in Seq(Events) /\ Len(bus) = 0
    BY <2>2
  <2>4. BusInv /\ ReportedComes
    BY <2>2, <2>3 DEF BusInv, ReportedComes
  <2>5. /\ client \in {"connecting"} \cup ClientEvents
        /\ daemon \in {"connecting", "running", "registering", "collision", "gone"}
        /\ announcable \in BOOLEAN /\ quit \in BOOLEAN /\ result \in Results
    BY DEF Init, ClientEvents, Results
  <2>6. browser \in BOOLEAN /\ expired \in BOOLEAN
    BY Zenon DEF Init
  <2>7. TypeOK
    BY <2>3, <2>5, <2>6, BoundsAssumption DEF Init, TypeOK
  <2> QED
    BY <2>1, <2>4, <2>7 DEF DiscoveryInv
<1> QED
  BY <1>1, DiscoveryStep, PTL DEF Spec

(* Every member of the object, everything the client library holds and     *)
(* everything on the bus to the object has its type.                       *)
THEOREM TypeCorrectness == Spec => []TypeOK
<1>1. DiscoveryInv => TypeOK
  BY DEF DiscoveryInv
<1> QED
  BY <1>1, Discovering, PTL

(* A browse that has dispatched everything the daemon had to say has found *)
(* all that is on the network, on however many interfaces and whatever     *)
(* sessions, departures and late answers came before, with two exceptions: *)
(* a service whose resolver failed, and one whose name was removed on      *)
(* another interface or protocol, with no answer for that name since.      *)
(* _browseCB() and _resolveCB() lose nothing else.                         *)
THEOREM Completeness == Spec => []DiscoversAll
<1>1. DiscoveryInv => DiscoversAll
  <2> SUFFICES ASSUME DiscoveryInv, Settled, scope = "IF_ALL", NEW s \in net \ Lost
               PROVE  s[2] \in found
    BY DEF DiscoversAll, NamesOf, Lost
  <2>1. s \in told \cap net /\ ~quit /\ bus = <<>> /\ live = {}
    BY DEF Settled
  <2>2. Len(bus) = 0
    BY <2>1
  <2>3. Arriving(s) \/ Arrived(s)
    BY <2>1 DEF DiscoveryInv, ReportedComes
  <2>4. ~Arriving(s) /\ ~Answering(s)
    BY <2>1, <2>2 DEF Arriving, Answering
  <2> QED
    BY <2>3, <2>4 DEF Arrived
<1> QED
  BY <1>1, Discovering, PTL
=============================================================================
