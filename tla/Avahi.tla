------------------------------- MODULE Avahi -------------------------------
(***************************************************************************)
(* The Avahi backend avahi::Servus (servus/avahi/servus.h): one object,    *)
(* used by one thread, with the Avahi client library, its poll loop and    *)
(* the daemon around it.                                                   *)
(*                                                                         *)
(* Callbacks run only inside avahi_simple_poll_iterate(), that is inside   *)
(* announce() (while it waits for the client) and browse().  The daemon    *)
(* sends its events over one connection, so they are dispatched in the     *)
(* order sent, one per iterate; `bus' holds those sent and not dispatched. *)
(* Between two iterates the daemon, the network and the clock move.        *)
(*                                                                         *)
(* The library is external and modelled from its use: a quit poll makes    *)
(* every iterate fail; a freed browser or resolver calls back no more; a   *)
(* browser or a service can be created only over a connected client.       *)
(* One listener is registered for the life of the object.                  *)
(***************************************************************************)
EXTENDS Integers, Sequences, FiniteSets

CONSTANTS
  Requests,     \* what can be announced: instance name (never empty) and port
  Data,         \* values of the _data map
  NoData,       \* the empty map of a new object
  Names,        \* instance names other hosts and this host announce
  LocalNames,   \* those whose lookup result has AVAHI_LOOKUP_RESULT_LOCAL
  Paths,        \* interface and protocol pairs a service is seen on
  Errors,       \* values of avahi_client_errno() and of failing calls
  DaemonEvents, \* client states the daemon may report after construction
  MaxErrors,    \* failing iterates that make browse() give up (10)
  MaxBus,       \* bound: events sent and not dispatched
  MaxResolvers, \* bound: resolvers alive at a time
  Nothing       \* no request, no entry, no service

ASSUME LocalAssumption == LocalNames \subseteq Names
ASSUME BoundsAssumption == MaxErrors \in Nat \ {0} /\ MaxBus \in Nat
                           /\ MaxResolvers \in Nat
ASSUME DataAssumption == NoData \in Data
ASSUME ErrorsAssumption == Errors \subseteq Int /\ 0 \notin Errors
ASSUME NothingAssumption == /\ Nothing \notin Requests
                            /\ Nothing \notin Requests \X Data

\* servus::Servus::Result, and the errno value two callbacks store
SUCCESS == 0
PENDING == -1
POLL_ERROR == -3
EEXIST == 17
Results == Errors \cup {SUCCESS, PENDING, POLL_ERROR, EEXIST}

Services  == Paths \X Names
Resolvers == (1..MaxResolvers) \X Services   \* identity and service

ClientEvents  == {"running", "registering", "collision", "failure"}
BrowserEvents == {"new", "remove", "all_for_now", "browser_failure"}
ResolveEvents == {"found", "unresolved"}
GroupEvents   == {"group_ok", "group_failure"}
Stale         == "stale"   \* a browser event whose browser is freed
Kinds  == ClientEvents \cup BrowserEvents \cup ResolveEvents \cup GroupEvents \cup {Stale}
Events == [kind : Kinds, about : Services \cup Resolvers \cup {Nothing}]

ASSUME DaemonAssumption == DaemonEvents \subseteq ClientEvents

VARIABLES
  \* members of avahi::Servus and of its base
  announcable,  \* _announcable
  request,      \* _announce with _port, Nothing when _announce is empty
  data,         \* _data
  browser,      \* _browser is not null
  scope,        \* _scope
  found,        \* keys of _instanceMap
  result,       \* _result
  rows,         \* what the listener was told and not told to forget
  \* the Avahi client library
  client,       \* the client state last passed to _clientCB
  quit,         \* avahi_simple_poll_quit() was called
  live,         \* resolvers that are not freed
  bus,          \* events sent by the daemon and not dispatched
  \* the daemon and the network
  daemon,       \* what the daemon is: a client state, or "gone"
  group,        \* _group: "none" when null, else the state in the daemon
  entry,        \* the service added to the group, Nothing when empty
  net,          \* services on the network
  told,         \* services the daemon reported to the current browser
  \* what became of reported services, which the code does not keep
  failed,       \* no answer found their name since a resolver of theirs failed
  erased,       \* nor since their name was removed on another path
  \* the call in progress
  pc,           \* "idle", "announce", "browse", or "thrown" after an exception
  timeout,      \* the timeout of browse(): -1, 0 or 1 for a positive one
  expired,      \* the timeout has elapsed
  nErrors       \* failed iterates in this browse()

lookup  == <<found, rows, live, failed, erased>>
publish == <<group, entry>>
vars == <<announcable, request, data, browser, scope, lookup, result, client, quit, bus,
          daemon, publish, net, told, pc, timeout, expired, nErrors>>

TypeOK ==
  /\ announcable \in BOOLEAN
  /\ request \in Requests \cup {Nothing}
  /\ data \in Data
  /\ browser \in BOOLEAN
  /\ scope \in {"IF_ALL", "IF_LOCAL"}
  /\ found \in SUBSET Names
  /\ result \in Results
  /\ rows \in SUBSET Names
  /\ client \in {"connecting"} \cup ClientEvents
  /\ quit \in BOOLEAN
  /\ live \in SUBSET Resolvers
  /\ bus \in Seq(Events)
  /\ daemon \in {"connecting", "running", "registering", "collision", "gone"}
  /\ group \in {"none", "uncommitted", "registering", "established", "failed"}
  /\ entry \in (Requests \X Data) \cup {Nothing}
  /\ net \in SUBSET Services
  /\ told \in SUBSET Services
  /\ failed \in SUBSET Services
  /\ erased \in SUBSET Services
  /\ pc \in {"idle", "announce", "browse", "thrown"}
  /\ timeout \in {-1, 0, 1}
  /\ expired \in BOOLEAN
  /\ nErrors \in 0..MaxErrors

\* isAnnounced()
IsAnnounced == group # "none" /\ entry # Nothing

\* The daemon answers for the service on the network.
OnNetwork == group \in {"registering", "established"}

\* Calls to the daemon can succeed.
Connected == client \in {"running", "registering", "collision"} /\ daemon # "gone"

NamesOf(S) == {s[2] : s \in S}

\* Services of one name, one per path.
Called(n) == {s \in Services : s[2] = n}

Of(kind) == [kind |-> kind, about |-> Nothing]

\* What the constructor leaves: avahi_client_new() has called _clientCB with
\* the daemon's state, and a collision has made the poll quit.  (When the
\* constructor throws, the facade uses the none backend instead.)
Init ==
  /\ net = {}
  /\ client \in {"connecting", "running", "collision"}
  /\ daemon = client
  /\ announcable = (client = "running")
  /\ quit = (client = "collision")
  /\ result = IF client = "collision" THEN EEXIST ELSE PENDING
  /\ request = Nothing /\ data = NoData /\ browser = FALSE /\ scope = "IF_ALL"
  /\ group = "none" /\ entry = Nothing
  /\ found = {} /\ rows = {} /\ told = {} /\ failed = {} /\ erased = {}
  /\ live = {} /\ bus = <<>>
  /\ pc = "idle" /\ timeout = 0 /\ expired = FALSE /\ nErrors = 0

\* A call returns; its local variables are gone.
Return == pc' = "idle" /\ timeout' = 0 /\ expired' = FALSE /\ nErrors' = 0

-----------------------------------------------------------------------------
(* Publishing. *)

\* _createServices() that keeps the old entry in the group (mutant).
CreateServicesNoReset(d, before, r) ==
  \/ /\ group = "none" /\ r = before
     /\ UNCHANGED <<publish, quit>>
  \/ /\ group' = "uncommitted" /\ entry' \in {entry, <<request, d>>}
     /\ r \in Errors
     /\ quit' = TRUE
  \/ /\ Connected
     /\ group' = "registering"
     /\ entry' = IF entry = Nothing THEN <<request, d>> ELSE entry
     /\ r = SUCCESS
     /\ UNCHANGED quit

\* _createServices() that takes a failed commit for a success (mutant).
CreateServicesUnchecked(d, before, r) ==
  \/ /\ group = "none" /\ r = before
     /\ UNCHANGED <<publish, quit>>
  \/ /\ group' \in {"uncommitted", "registering"}
     /\ entry' = <<request, d>>
     /\ r = SUCCESS
     /\ UNCHANGED quit

\* _createServices() with data d; _result is `before' and becomes r.
CreateServices(d, before, r) ==
  \/ /\ group = "none" /\ r = before            \* avahi_entry_group_new fails
     /\ UNCHANGED <<publish, quit>>
  \/ /\ group' = "uncommitted"                  \* adding or committing fails
     /\ entry' \in {Nothing, <<request, d>>}
     /\ r \in Errors
     /\ quit' = TRUE
  \/ /\ Connected
     /\ group' = "registering"
     /\ entry' = <<request, d>>
     /\ r = SUCCESS
     /\ UNCHANGED quit

\* set() with _updateRecord(), which resets the group before it is rebuilt.
Set(d) ==
  /\ pc = "idle"
  /\ data' = d
  /\ IF request = Nothing \/ ~announcable
     THEN UNCHANGED <<publish, quit, result>>
     ELSE CreateServices(d, result, result')
  /\ UNCHANGED <<announcable, request, browser, scope, lookup, client, bus, daemon, net,
                 told, pc, timeout, expired, nErrors>>

\* announce(): the request is stored; what follows depends on _announcable.
Announce(req) ==
  /\ pc = "idle"
  /\ result' = PENDING
  /\ request' = req
  /\ pc' = "announce"
  /\ expired' = FALSE
  /\ UNCHANGED <<announcable, data, browser, scope, lookup, client, quit, bus, daemon,
                 publish, net, told, timeout, nErrors>>

\* The client is running: publish and return.
AnnounceNow ==
  /\ pc = "announce" /\ announcable
  /\ CreateServices(data, result, result')
  /\ Return
  /\ UNCHANGED <<announcable, request, data, browser, scope, lookup, client, bus, daemon,
                 net, told>>

Withdraw ==
  /\ pc = "idle"
  /\ request' = Nothing
  /\ group' = IF group = "none" THEN "none" ELSE "uncommitted"
  /\ entry' = Nothing
  /\ UNCHANGED <<announcable, data, browser, scope, lookup, result, client, quit, bus,
                 daemon, net, told, pc, timeout, expired, nErrors>>

-----------------------------------------------------------------------------
(* Browsing. *)

\* beginBrowsing() when not browsing; otherwise it only returns PENDING.
BeginBrowsing(addr) ==
  /\ pc = "idle" /\ ~browser
  /\ scope' = addr
  /\ found' = {}
  /\ \/ Connected /\ browser' = TRUE /\ result' = SUCCESS
     \/ browser' = FALSE /\ result' \in Errors
  /\ told' = {} /\ failed' = {} /\ erased' = {}
  /\ UNCHANGED <<announcable, request, data, rows, live, client, quit, bus, daemon,
                 publish, net, pc, timeout, expired, nErrors>>

\* endBrowsing() of a browsing object.  The freed browser calls back no more:
\* what was sent to it is dispatched to nobody.  Its resolvers live on.
EndBrowsing ==
  /\ pc = "idle" /\ browser
  /\ browser' = FALSE
  /\ bus' = [i \in DOMAIN bus |->
               IF bus[i].kind \in BrowserEvents THEN Of(Stale) ELSE bus[i]]
  /\ told' = {}
  /\ UNCHANGED <<announcable, request, data, scope, lookup, result, client, quit,
                 daemon, publish, net, pc, timeout, expired, nErrors>>

Browse(t) ==
  /\ pc = "idle"
  /\ result' = PENDING
  /\ pc' = "browse" /\ timeout' = t /\ expired' = FALSE /\ nErrors' = 0
  /\ UNCHANGED <<announcable, request, data, browser, scope, lookup, client, quit, bus,
                 daemon, publish, net, told>>

\* ~Servus(), then another object is constructed.
Destroy ==
  /\ pc \in {"idle", "thrown"}
  /\ \E state \in {"connecting", "running", "collision"} :
       /\ client' = state /\ daemon' = state
       /\ announcable' = (state = "running")
       /\ quit' = (state = "collision")
       /\ result' = IF state = "collision" THEN EEXIST ELSE PENDING
  /\ request' = Nothing /\ data' = NoData /\ browser' = FALSE /\ scope' = "IF_ALL"
  /\ group' = "none" /\ entry' = Nothing
  /\ found' = {} /\ rows' = {} /\ told' = {} /\ failed' = {} /\ erased' = {}
  /\ live' = {} /\ bus' = <<>>
  /\ pc' = "idle" /\ timeout' = 0 /\ expired' = FALSE /\ nErrors' = 0
  /\ UNCHANGED net

-----------------------------------------------------------------------------
(* The callbacks.  Each leaves _result = r. *)

\* AVAHI_CLIENT_S_RUNNING
ClientRunning(r) ==
  /\ client' = "running"
  /\ announcable' = TRUE
  /\ IF request = Nothing
     THEN r = result /\ UNCHANGED <<publish, quit>>
     ELSE CreateServices(data, result, r)
  /\ UNCHANGED lookup

\* AVAHI_CLIENT_FAILURE and AVAHI_CLIENT_S_COLLISION
ClientUnusable(kind, r) ==
  /\ client' = kind
  /\ IF kind = "failure" THEN r \in Errors ELSE r = EEXIST
  /\ quit' = TRUE
  /\ UNCHANGED <<announcable, publish, lookup>>

\* Identities for a new resolver.
Unused == {i \in 1..MaxResolvers : \A v \in live : v[1] # i}

BrowserNew(s, r) ==
  /\ \/ /\ Connected
        /\ \E i \in Unused : live' = live \cup {<<i, s>>}
        /\ r = result
        /\ UNCHANGED quit
     \/ /\ r \in Errors                        \* the resolver is not created
        /\ quit' = TRUE
        /\ UNCHANGED live
  /\ failed' = failed \ {s} /\ erased' = erased \ {s}
  /\ UNCHANGED <<client, announcable, publish, found, rows>>

BrowserRemove(s, r) ==
  /\ found' = found \ {s[2]}
  /\ rows' = rows \ {s[2]}
  /\ erased' = erased \cup (Called(s[2]) \ {s})
  /\ r = result
  /\ UNCHANGED <<client, announcable, publish, live, failed, quit>>

\* AVAHI_BROWSER_ALL_FOR_NOW and AVAHI_BROWSER_CACHE_EXHAUSTED
BrowserAllForNow(r) ==
  /\ r = SUCCESS
  /\ UNCHANGED <<client, announcable, publish, lookup, quit>>

BrowserFailure(r) ==
  /\ r \in Errors
  /\ quit' = TRUE
  /\ UNCHANGED <<client, announcable, publish, lookup>>

\* The library finds nobody to call.
NoCallback(r) ==
  /\ r = result
  /\ UNCHANGED <<client, announcable, publish, lookup, quit>>

\* A local scope that is not looked at (mutant).
IgnoredNever(n) == n \notin Names

\* Looking for local instances only, and this one is not local.
Ignored(n) == scope = "IF_LOCAL" /\ n \notin LocalNames

\* The early return for an ignored result does not free the resolver.
ResolverIgnored(v, r) ==
  /\ Ignored(v[2][2])
  /\ r = result
  /\ UNCHANGED <<client, announcable, publish, lookup, quit>>

\* _resolveCB() that stores only what listeners were not told (mutant).
ResolverFoundOnce(v, r) ==
  /\ ~Ignored(v[2][2])
  /\ found' = IF v[2][2] \in rows THEN found ELSE found \cup {v[2][2]}
  /\ rows' = rows \cup {v[2][2]}
  /\ live' = live \ {v}
  /\ failed' = failed \ Called(v[2][2]) /\ erased' = erased \ Called(v[2][2])
  /\ r = result
  /\ UNCHANGED <<client, announcable, publish, quit>>

ResolverFound(v, r) ==
  /\ ~Ignored(v[2][2])
  /\ found' = found \cup {v[2][2]}
  /\ rows' = rows \cup {v[2][2]}
  /\ live' = live \ {v}
  /\ failed' = failed \ Called(v[2][2]) /\ erased' = erased \ Called(v[2][2])
  /\ r = result
  /\ UNCHANGED <<client, announcable, publish, quit>>

ResolverFailure(v, r) ==
  /\ ~Ignored(v[2][2])
  /\ r \in Errors
  /\ live' = live \ {v}
  /\ failed' = failed \cup {v[2]}
  /\ UNCHANGED <<client, announcable, publish, found, rows, erased, quit>>

GroupOk(r) ==
  /\ r = result
  /\ UNCHANGED <<client, announcable, publish, lookup, quit>>

\* AVAHI_ENTRY_GROUP_COLLISION and AVAHI_ENTRY_GROUP_FAILURE
GroupFailure(r) ==
  /\ r = EEXIST
  /\ quit' = TRUE
  /\ UNCHANGED <<client, announcable, publish, lookup>>

Callback(e, r) ==
  \/ e.kind = "running" /\ ClientRunning(r)
  \/ e.kind \in {"failure", "collision"} /\ ClientUnusable(e.kind, r)
  \/ e.kind = "new" /\ BrowserNew(e.about, r)
  \/ e.kind = "remove" /\ BrowserRemove(e.about, r)
  \/ e.kind = "all_for_now" /\ BrowserAllForNow(r)
  \/ e.kind = "browser_failure" /\ BrowserFailure(r)
  \/ e.kind = Stale /\ NoCallback(r)
  \/ e.kind \in ResolveEvents /\ ResolverIgnored(e.about, r)
  \/ e.kind = "found" /\ ResolverFound(e.about, r)
  \/ e.kind = "unresolved" /\ ResolverFailure(e.about, r)
  \/ e.kind = "group_ok" /\ GroupOk(r)
  \/ e.kind = "group_failure" /\ GroupFailure(r)

-----------------------------------------------------------------------------
(* The two loops around avahi_simple_poll_iterate(). *)

\* iterate() dispatches one event, whose callback leaves _result = r.
Dispatch(r) ==
  /\ ~quit /\ bus # <<>>
  /\ Callback(Head(bus), r)
  /\ bus' = Tail(bus)

\* The callback for AVAHI_CLIENT_S_REGISTERING throws, through the frames of
\* the C library: the object can only be destroyed after that.
Throw ==
  /\ pc = "browse" \/ (pc = "announce" /\ ~announcable)
  /\ ~quit /\ bus # <<>> /\ Head(bus).kind = "registering"
  /\ client' = "registering"
  /\ bus' = Tail(bus)
  /\ pc' = "thrown" /\ timeout' = 0 /\ expired' = FALSE /\ nErrors' = 0
  /\ UNCHANGED <<announcable, request, data, browser, scope, lookup, result, quit, daemon,
                 publish, net, told>>

\* Nothing to dispatch: the wait ends with the timeout (at once when it is 0,
\* never when it is negative).
TimedOut(t) == ~quit /\ bus = <<>> /\ (t = 0 \/ (t > 0 /\ expired))

\* announce() iterates, with a positive timeout, until the client runs, an
\* error is stored or the time is over.
AnnounceIterate ==
  /\ pc = "announce" /\ ~announcable
  /\ \/ Dispatch(result')
     \/ /\ quit \/ TimedOut(1)
        /\ UNCHANGED <<client, announcable, publish, quit, lookup, bus, result>>
  /\ IF ~announcable' /\ result' = PENDING /\ ~expired
     THEN UNCHANGED <<pc, timeout, expired, nErrors>>
     ELSE Return
  /\ UNCHANGED <<request, data, browser, scope, daemon, net, told>>

\* The loop of browse() that forgets the clock (mutant).
BrowseUntilError(r, n) ==
  IF timeout > 0
  THEN result' = r /\ nErrors' = n /\ UNCHANGED <<pc, timeout, expired>>
  ELSE result' = (IF r = POLL_ERROR THEN r ELSE SUCCESS) /\ Return

\* while (elapsed < timeout), then the result of browse(); n iterates failed.
BrowseUntil(r, n) ==
  IF timeout > 0 /\ ~expired
  THEN result' = r /\ nErrors' = n /\ UNCHANGED <<pc, timeout, expired>>
  ELSE result' = (IF r = POLL_ERROR THEN r ELSE SUCCESS) /\ Return

BrowseIterate ==
  /\ pc = "browse"
  /\ \/ \E r \in Results : Dispatch(r) /\ BrowseUntil(r, nErrors)
     \/ /\ TimedOut(timeout)
        /\ BrowseUntil(result, nErrors)
        /\ UNCHANGED <<client, announcable, publish, quit, lookup, bus>>
  /\ UNCHANGED <<request, data, browser, scope, daemon, net, told>>

\* iterate() fails when the poll has quit: `continue' goes on to the loop
\* condition, the MaxErrors-th failure ends the loop.
BrowseError ==
  /\ pc = "browse" /\ quit
  /\ IF nErrors + 1 < MaxErrors
     THEN BrowseUntil(result, nErrors + 1)
     ELSE result' = POLL_ERROR /\ Return
  /\ UNCHANGED <<announcable, request, data, browser, scope, lookup, client, quit, bus,
                 daemon, publish, net, told>>

-----------------------------------------------------------------------------
(* The clock, the network and the daemon. *)

code == <<announcable, request, data, browser, scope, lookup, result, client, quit>>
call == <<pc, timeout, nErrors>>

Tick ==
  /\ pc \in {"announce", "browse"} /\ ~expired
  /\ expired' = TRUE
  /\ UNCHANGED <<code, bus, daemon, publish, net, told, call>>

\* Nothing more is dispatched from a poll that has quit.
Send(e) == IF quit THEN UNCHANGED bus ELSE Len(bus) < MaxBus /\ bus' = Append(bus, e)

\* A service that vanished comes back only after the browser was told: what
\* the daemon does not notice is no change.
NetworkChange(s) ==
  /\ s \in net \/ s \notin told
  /\ net' = IF s \in net THEN net \ {s} ELSE net \cup {s}
  /\ UNCHANGED <<code, bus, daemon, publish, told, call, expired>>

\* The daemon's own state; a daemon that goes takes the group with it.
DaemonState(state) ==
  /\ daemon # "gone" /\ state # daemon
  /\ Send(Of(state))
  /\ daemon' = IF state = "failure" THEN "gone" ELSE state
  /\ IF state = "failure"
     THEN group' = (IF group = "none" THEN "none" ELSE "uncommitted") /\ entry' = Nothing
     ELSE UNCHANGED publish
  /\ UNCHANGED <<code, net, told, call, expired>>

\* The bound on resolvers holds back the daemon, not the code.
RoomForResolver ==
  Cardinality(live) + Len(SelectSeq(bus, LAMBDA e : e.kind = "new")) < MaxResolvers

ReportNew(s) ==
  /\ browser /\ daemon # "gone" /\ s \in net \ told
  /\ RoomForResolver
  /\ told' = told \cup {s}
  /\ Send([kind |-> "new", about |-> s])
  /\ UNCHANGED <<code, daemon, publish, net, call, expired>>

ReportRemove(s) ==
  /\ browser /\ daemon # "gone" /\ s \in told \ net
  /\ told' = told \ {s}
  /\ Send([kind |-> "remove", about |-> s])
  /\ UNCHANGED <<code, daemon, publish, net, call, expired>>

ReportBrowser(kind) ==
  /\ browser /\ daemon # "gone"
  /\ kind = "all_for_now" => told = net
  /\ Send(Of(kind))
  /\ UNCHANGED <<code, daemon, publish, net, told, call, expired>>

\* A resolver answers with what is on the network, or that it found nothing:
\* the service has left, or its host did not answer in time.  It may answer
\* again until it is freed.
Answer(v, kind) ==
  /\ v \in live /\ daemon # "gone"
  /\ \A i \in 1..Len(bus) : bus[i].about # v
  /\ kind = "found" => v[2] \in net
  /\ Send([kind |-> kind, about |-> v])
  /\ UNCHANGED <<code, daemon, publish, net, told, call, expired>>

\* The daemon registers the group, or finds that it collides.
ReportGroup(state) ==
  /\ OnNetwork /\ daemon # "gone" /\ group # state
  /\ group' = state
  /\ Send(Of(IF state = "failed" THEN "group_failure" ELSE "group_ok"))
  /\ UNCHANGED <<code, daemon, entry, net, told, call, expired>>

-----------------------------------------------------------------------------
Application ==
  \/ \E d \in Data : Set(d)
  \/ \E req \in Requests : Announce(req)
  \/ Withdraw
  \/ \E addr \in {"IF_ALL", "IF_LOCAL"} : BeginBrowsing(addr)
  \/ EndBrowsing
  \/ \E t \in {-1, 1} : Browse(t)
  \/ Destroy

Environment ==
  \/ \E s \in Services : NetworkChange(s)
  \/ \E state \in DaemonEvents : DaemonState(state)
  \/ \E kind \in {"all_for_now", "browser_failure"} : ReportBrowser(kind)
  \/ \E state \in {"established", "failed"} : ReportGroup(state)

\* A call under way goes on.
Continue == AnnounceNow \/ AnnounceIterate \/ BrowseIterate \/ BrowseError \/ Throw

\* What goes on by itself: calls under way, time, the daemon's reports, and a
\* client that polls with browse(0), as qt::ItemModel's timer does.
Progress ==
  \/ Continue
  \/ Tick
  \/ Browse(0)
  \/ \E s \in Services : ReportNew(s) \/ ReportRemove(s)
  \/ \E v \in Resolvers, kind \in ResolveEvents : Answer(v, kind)

Next == Application \/ Environment \/ Progress

Spec == Init /\ [][Next]_vars

Fairness ==
  /\ WF_vars(Continue) /\ WF_vars(Tick) /\ WF_vars(Browse(0))
  /\ \A s \in Services : WF_vars(ReportNew(s)) /\ WF_vars(ReportRemove(s))
  /\ \A v \in Resolvers : WF_vars(\E kind \in ResolveEvents : Answer(v, kind))

FairSpec == Spec /\ Fairness

-----------------------------------------------------------------------------
(* Safety. *)

(* What is published is what was last asked for, with the data last set: a *)
(* withdrawn service never comes back when a late client event arrives,    *)
(* and no set() or announce() leaves an older record in the group.         *)
PublishedIsCurrent ==
  pc # "announce" /\ entry # Nothing => entry = <<request, data>>

(* When announce() returns SUCCESS the service is with the daemon: events  *)
(* of a browser, dispatched while it waits, never make it return early.    *)
AnnounceTruthful ==
  [][pc = "announce" /\ pc' = "idle" /\ result' = SUCCESS
       => IsAnnounced' /\ OnNetwork' /\ entry' = <<request, data>>]_vars

(* A session that looks for local instances has only local ones, also when *)
(* a resolver of an earlier session answers late.                          *)
LocalOnly == scope = "IF_LOCAL" => found \subseteq LocalNames

(* Everything the daemon has to say has been dispatched. *)
Settled == browser /\ ~quit /\ bus = <<>> /\ told = net /\ live = {}

(* Once the daemon has said everything, a service on the network is not in *)
(* the map in two cases only: its resolver failed, which the callback does *)
(* not repeat, or the same name was removed on another path, which erases  *)
(* it; and no answer for the name has come since.  No session, departure,  *)
(* return or late answer loses any other.                                  *)
DiscoversAll ==
  Settled /\ scope = "IF_ALL" => NamesOf(net \ (failed \cup erased)) \subseteq found

(* Liveness. *)

(* announce() and browse() with a timeout return, also on a dead poll.     *)
CallsReturn == /\ (pc = "announce") ~> (pc # "announce")
               /\ (pc = "browse" /\ timeout >= 0) ~> (pc # "browse")

(* When the network stands still, a client that keeps polling finds all,   *)
(* but for what DiscoversAll leaves out.                                   *)
EventuallyDiscovers ==
  <>[][Progress]_vars =>
    <>[](browser /\ ~quit /\ daemon # "gone" /\ pc # "thrown" /\ scope = "IF_ALL"
           => NamesOf(net \ (failed \cup erased)) \subseteq found)

(* A statement of the documentation that the code does not keep. *)

(* "In the callback function we free it": a resolver does not outlive its  *)
(* callback.                                                               *)
ResolversFreed ==
  [][pc # "idle" /\ bus # <<>> /\ bus' = Tail(bus) /\ Head(bus).kind \in ResolveEvents
       => Head(bus).about \notin live']_vars
=============================================================================
