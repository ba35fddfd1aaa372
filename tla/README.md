# Servus: a TLA+ model of its discovery, its views, its URIs and identifiers

Servus is a small C++ library that announces and discovers services with zeroconf. An
application creates a `Servus` object for a service name, gives it key/value pairs with
`set()`, publishes them with `announce()`, and finds those of others with
`beginBrowsing()`, `browse()` and `endBrowsing()` (or all of these in `discover()`).
Found instances are kept in a map that the application reads, and listeners are called
when an instance arrives or leaves. The work is done by one of four backends, which sit
behind the same interface `Servus::Impl`.

Around this core the library has a Qt model of the instances found, a URI class, a base
class of serializable objects and a 128 bit identifier.

This directory holds the models of all of these, the configurations with which TLC
checks them and the proofs TLAPS checks. `PROJECT.json` is the index: which definition
models which lines of the source, what each run checks, the mutants that show that a
property can fail, the hazards, the findings and the theorems.

## Inventory

| Component | Source | State | Operations | Hard behaviour |
|---|---|---|---|---|
| Facade `Servus`, base `Servus::Impl` | `servus.{h,cpp}` | `_data`, `_instanceMap`, `_listeners` | `set`, `discover`, lookups, listeners; all others forwarded | the backend is chosen once, with a fallback; `set()` takes no lock; `discover()` ends only the browsing it began |
| Test driver | `test/servus.h` | per object `_instance`, `_announced`, `_browsing`, `_instances`; the global `_directory` and its mutex | the whole API | threads meet in the directory; pointers outlive their objects; callbacks under the mutex |
| Avahi backend | `avahi/servus.h` | `_announcable`, `_announce`, `_port`, `_browser`, `_group`, `_scope`, `_result`, and the library's poll, client, group and resolvers | the whole API and four callbacks (client, browser, resolver, group) | callbacks run in the poll of whatever call is waiting; events outlive the call or session that asked for them; a dead poll; one `_result` for all; one mutex for all objects of a process, held through every wait |
| Bonjour backend | `dnssd/servus.h` | `_out`, `_in`, `_result`, `_browsedName` | the whole API and three callbacks (register, browse, resolve) | an event loop inside a callback of another event loop, sharing `_result`; timeouts |
| None backend | `none/servus.h` | none | all return `NOT_SUPPORTED` | - |
| `Listener` | `listener.h` | - | `instanceAdded`, `instanceRemoved` | called inside `browse()` |
| `qt::ItemModel` | `qt/itemModel.cpp` | rows of instances, a 100 ms timer | the two callbacks, `browse(0)` from the timer | rows across browsing sessions; data that changes later; items found by text; models that share a service |
| `uint128_t`, `make_UUID` | `uint128_t.{h,cpp}` | two 64 bit words; a static generator | arithmetic, order, strings | carry and borrow; threads around the generator |
| `URI` | `uri.cpp` | the parts; the query as string and as map | parser, setters | a loop over parts that leave each other the input; two copies of the query; 16 bit port |
| `Serializable` | `serializable.cpp` | two callbacks | registration, copy, move, conversions | a moved-from object |
| TXT records | both backends | - | keys and values to entries of at most 255 bytes and back | truncation, the separator |
| `Result`, MD5, `servusBrowser` | | | texts, third-party code, a window | - |

Interaction: the application calls the facade, which calls the backend. The test
driver's objects share the directory. The other two backends talk to a daemon through a
C library whose callbacks come back into the same object, always from within
`announce()` or `browse()` of the thread that made the call. Listeners, `ItemModel`
among them, are called from within these callbacks.

## Modules

`Directory` is the abstract specification. It knows who is announced under which name
and what each browser sees, and it says that a browse shows the names announced at one
moment of the call.

`TestDriver` models `test/servus.h` with what it inherits from `Servus::Impl`, for any
set of objects, each in a thread of its own. Operations that hold the directory's mutex
from start to end are one action each. `browse()` holds it too, but `set()` does not
take it, so `browse()` is split where the two can meet: `Acquire` (the difference, and
the map is cleared), `CopyInstance`, `CopyDone`, `NotifyAdded`, `NotifyRemoved`,
`Release`. A copy made while `set()` writes may be torn; the name read from a destroyed
object may be anything. `Abstract` is the refinement mapping: a browse takes effect when
it acquires the mutex. What the listeners of a browser were told is recorded beside the
code's state: `heard` has the name each object was reported under, `again` the objects
announced anew after that. `TestDriver_proofs` has the proofs.

`Avahi` models `avahi/servus.h` for one object used by one thread, with the library, the
daemon and the network as environment. The daemon's events are sent over one connection
and dispatched in the order sent, one per iterate; `bus` holds those that were sent and
not dispatched. `AnnounceIterate` and `BrowseIterate` are one turn of the loops in
`announce()` and `browse()`; the callbacks (`ClientRunning`, `BrowserNew`,
`ResolverFound`, ...) are called from `Dispatch`. The library's behaviour, taken from how
the code uses it: an iterate fails when, and only when, the poll has quit; nothing is
dispatched from such a poll; a browser or a service can be created only over a connected
client; a freed browser or resolver calls back no more, and an event that was sent to it is
dispatched to nobody (`Stale`, `NoCallback`); a resolver can answer again until it is freed,
and it can fail for any service, also for one that is there (`Answer`); a service that has
left is not seen again before its removal was reported. `failed` and `erased` record, beside
the code's state, the services whose resolver failed and those whose name was removed on
another path, until the name is found.
After the exception for `REGISTERING` the object can only be destroyed. `MCAvahi` holds
the negative error codes a configuration file cannot spell. `Avahi_proofs` has the
proofs.

`Dnssd` models `dnssd/servus.h` for one object used by one thread. All waiting is in
`_handleEvents()`; `pc` says which wait is in progress, and `"resolve"` is the one that
runs inside `browseCB_` while the browse waits outside. What each socket holds (`reply`,
`queue`, `answer`) is written by the daemon and read by one action per callback.
`Timeout` is `select()` returning 0, `Fail` its error or that of
`DNSServiceProcessResult()`. Two things are left out. `EINTR` starts the same `select()`
again with the whole timeout, so what is said of the end of a wait is said of processes in
which signals do not interrupt every `select()`. The return of `_handleEvents()` for a
service without a socket (line 174), the one error path that does not withdraw, is asserted
away by the code and taken as impossible here. Of the TXT record only whether it is current
is kept. `Dnssd_proofs` has the proofs.

`Unsigned` is the abstract specification of the arithmetic of `uint128_t`: integers modulo
the square of a word. `Uint128` keeps the two words of the code and has each operator find
its carry or borrow as the code does; a program is any sequence of operators on two values
and a one-word operand. `Uint128Text` adds the strings (`getString()`, the stream
operators, the assignment from a string with its escaped colon, the 34 byte buffer) and
the bitwise operators; powers, digits and the bits of words are recursive functions.
`Uint128_proofs` has the proofs.

`AvahiThreads` leaves out what `Avahi` has and keeps what threads share: the one mutex of
the process, held from the start to the end of each locked section (`Acquire`, `Leave`),
the waits of `announce()` and `browse()` under it, and `_browser`, which `beginBrowsing()`
looks at before it locks. A call is the list of sections it still has to run (`todo`), so
that `discover()` is three of them with other threads in between. Any thread may call any
object. `browsers` counts the browsers the library has for each object; `raced` records the
objects on which a `beginBrowsing()` looked while another was between its look and its end.
A listener that calls back into the library from a callback, and so would take the
mutex twice, is not modelled. `AvahiThreads_proofs` has the proofs.

`StringMap` has the two ways in which the code fills a `std::map` of strings: one pair
(`Put`), and a loop over pairs, where the later one wins (`Over`). TXT records and the
query of a URI use it.

`TxtRecord` has operators for the way of a pair into the record of one backend and into the
map of the other or the same backend, with entries of `MaxEntry` bytes (255). Keys, values
and entries are sequences of `Bytes`, of which only `=` has a meaning. What the DNS
libraries do to entries that are too long, or to keys with a `=`, is external; that
`TXTRecordSetValue()` takes only keys of printable ASCII and compares them without case is
left out.

`Facade` composes two objects of the class `Servus` over it: one sets pairs and announces,
one discovers and looks them up. It has the choice of the backend with its fallback, the
whole none backend, and the lookups of `Servus::Impl`; the other backends do what their own
modules allow, as a set of outcomes (`BeginResults`, `BrowseMaps`): a record is found, or
not in time, or the service is reported gone. `MCFacade` has keys and values that fit,
just fit and do not fit. `Text_proofs` has the proofs.

`ItemModel` models `qt::ItemModel`, any number of them on one service in one thread. `rows` are
the children of `rootItem`; `view` is what a view shows that starts with the model's rows
and from then on believes `beginInsertRows()` and `beginRemoveRows()`. The service is what
the model sees of it: map, browsing state, callbacks; `beginBrowsing()` may fail, which the
constructor does not look at. A pair stands for its text.
`findChild()` looks at all descendants, as Qt's does. `ItemModel_proofs` has the proofs.

`Notifier` is the abstract specification of the callbacks of `Serializable`: each object
holds them as a value. `Serializable` has the pointers: a heap of `Impl`s, and objects that
point to one, to nothing after a move, or do not exist. `RefinesNotifier` says the pointers
are invisible. `Serializable_proofs` has the proofs.

`UriText` has the text functions of `URI` as operators over sequences of characters:
`ParseURIPart`, `ParseAuthority`, `ParseQueryMap`, one operator per case of the parser's
switch, and printing. A few characters stand for those without meaning of their own.
`UriParser` runs the loop turn by turn on every text of a bounded set, prints what it found
and parses that again; `Reference` and `Readings` are the other definition it is compared
with. Its specification is `ParserSpec`. `Uri` lets a client keep the URI of some of the
texts in an object (`Keep`) and go on with copies and setters; `UriSpec` implements
`ParserSpec`. `Meaning` says what a query text means without the parser's loop: by its
fields, of which the last one with a key counts. `MCUri` has these texts and the arguments.
The port has `PortBits` bits (16), and `strtol()` skips white space, takes a sign and stops
at `LongMax` (2^63 - 1). The reference uses the same `strtol()`: it is about where the port is
cut out, not about its value. `Text_proofs` has the proofs, together with those about
`Facade`, with which they share the lemmas about searching a text.

Left out of all: ports and wording; calls that return at once and change nothing (a
second `beginBrowsing()`, an `endBrowsing()` without browsing, an `announce()` that fails
before it has registered anything).

## Runs

| Run | Shows | Bounds |
|---|---|---|
| `testdriver` | The directory never holds a dead, unnamed or unannounced object (`DirectorySound`). `browse()` copies exactly the announced instances (`BrowsePicture`), before any callback (`CallbackSeesInstance`). At its end the listeners have heard of each announced object under its name and of nothing else, but for objects that announced anew (`ListenersUpToDate`). The driver implements `Directory` (`RefinesDirectory`). When the applications rest, a polling browser ends with exactly what is announced (`EventuallyAccurate`). | two objects, one browsing, two names, two data maps, a listener |
| `testdriver_removed` (violation) | `instanceRemoved("")` is called after a withdrawal (`RemovedHasName`). | one browser, one listener |
| `avahi_announce` | Whatever client, group and browser events come when, what is published is the last request with the last data (`PublishedIsCurrent`), and `announce()` returns `SUCCESS` only for a service that is with the daemon (`AnnounceTruthful`); `announce()` and `browse()` with a timeout return (`CallsReturn`). | two requests, two data maps, all client events, two events on the bus, errors -1 and -26, three errors (ten in the code) |
| `avahi_browse` | Over sessions, scopes and a changing network, with resolvers that fail, a local session never holds another host's instance (`LocalOnly`). Once the daemon has said everything, nothing is missing but what a failed resolver was for or a removal on another path erased (`DiscoversAll`), and a polling client finds all the rest when the network stands still (`EventuallyDiscovers`). | one name of another host on two paths, two resolvers, one event on the bus |
| `avahi_leak` (violation) | The resolver of an ignored result is not freed (`ResolversFreed`). | one remote name |
| `dnssd` | No wait begins or leaves with an old result (`ResultReset`); resolved data is filed under the right name (`FiledRight`); the map has no ghosts (`NoGhosts`); `announce()` leaves the object announced exactly when it returns `SUCCESS` (`AnnounceConsistent`); `announce()` and resolves end (`CallsReturn`). | two names, two unread replies |
| `avahi_threads` | Threads with objects of their own or with one in common: `_browser` is never one that the library has no more (`BrowserBacked`), the library has no browser that `endBrowsing()` does not reach, unless two threads were in `beginBrowsing()` of the object at once (`BrowsingStops`), and every call returns (`CallsReturn`). | two threads, two objects, three calls each, timeouts of zero and more |
| `facade` | What fits into an entry is looked up as it was set last, by any backend from any (`ReadsBack`), and no other keys appear (`OnlyWhatWasSet`); `discover()` leaves the browsing state as it was (`DiscoverKeepsBrowsing`). | three builds for each object, entries of four bytes, three keys, three values |
| `itemmodel` | In each of two models on one service views stay in step (`ViewInStep`), every known instance has one row (`RowForEveryInstance`), and `index()` and `parent()` are inverse (`IndexParent`). While the service browses, announced instances get a row (`Discovers`), and those found in this session lose it when they go (`ForgetsFound`). | two models, two names that are no texts of pairs, one pair each |
| `serializable` | One owner for every `Impl` (`OwnedOnce`), values on the outside (`RefinesNotifier`). | three objects, two callbacks |
| `uri` | The parser's loop ends (`Terminates`), its assertions hold (`AssertsHold`), the parts are those of the reference (`AgreesWithReference`), what is printed is read back (`RoundTrip`). After any sequence of calls the query's text means what the map says, or the map has a pair that no text can hold and the text is all of the map (`QueryInStep`), and well formed objects print to themselves (`PrintsItself`). | up to three of ten characters after nothing, `a://` and `file://`, and longer texts with every part; ports of three bits, longs of seven; one object, all queries of three characters, keys and values with separators |
| `uint128` | All operators, through all carries and borrows, compute as `Unsigned` says (`RefinesUnsigned`); the order is that of the integers (`OrderAgrees`); `&` and `\|` agree with `+` (`BitwiseAgrees`); what is printed is read back (`RoundTrip`). | words of two binary digits, all 1024 states |

The bounds are small because the interesting cases need little: two objects to
interleave, two names so that one can be mistaken for another, two requests and two data
maps so that an old one differs from the current one, and two events under way so that
one can be overtaken by a call. The count of poll errors is a constant; any value above
one has the same three cases (first, middle, last). Error -1 is `AVAHI_ERR_FAILURE`,
which has the value of `PENDING`. A word of two digits has zero, the largest value, values between them and
strings of both lengths; each carry and borrow depends on nothing else, and the proofs
cover every size. The bounds on queues hold back the daemon, never the
code. Threads make a bounded number of calls, so that a thread which waits for the mutex
need not compete for ever: `std::mutex` promises no order. An entry of four bytes has room
for a key, the separator and none, one or two bytes of value. Three characters after a
prefix are enough for each separator to come before and after each other one, twice for
those that matter (`@`, `:`); a port of three bits overflows with one digit, and the kept
texts have ports behind white space and beyond the largest long. In `avahi_browse`
the daemon sends one event at a time, which keeps the run small, and the one service has two
paths, so that all ways of losing a service exist; that a local service is shown in a local
session and a remote one beside it is not is left to the proof of `LocalOnly`. In
`avahi_announce` a second event can be sent before a call and dispatched in it. With two
browsers `EventuallyAccurate` does not hold, since `std::mutex` may let one of them wait for
ever; the safety of any number of browsers is proved.

Each passing property has a mutant in `PROJECT.json`: a definition changed as a plausible
bug would change it, with which TLC finds the property violated.

Deadlock is checked in all runs but `uri`, where a constructor throws, or has read its own
print, and nothing is left to do; none has one. `AvahiThreads` stutters only when all calls have returned.

## Fairness

Weak fairness only, and only of what runs by itself: a call under way goes on (its thread
is scheduled and its timers expire), the clock ticks, a browser that polls does so again
(`ItemModel`'s timer calls `browse(0)` every 100 ms), and in `Avahi` the daemon reports
what it knows and answers resolvers. In `AvahiThreads`
the holder of the mutex goes on and a free mutex is taken; in `ItemModel` the timer's
`browse(0)` handles each event that is there while the service browses; the parser's loop
runs. No call of the application is fair, nothing need
fail, and in `Dnssd` the daemon need not answer. Convergence is stated for behaviours in
which the applications and the network come to rest (`<>[][Progress]_vars`).

## Proofs

The theorems hold for all values of the constants that satisfy the named assumptions.

`TestDriver_proofs`. The invariant `Inv` joins the types, `DirectorySound`, `MutexHeld`,
`BrowsePicture` and `ReportsExactly`. `MutexHeld` is needed because the picture of a
browse is right only if nobody announces or withdraws during it; `ReportsExactly` because
the callbacks go by the difference. On top of it `KnownWasHeard` says that an object which
is not in the difference was heard of under its present name, or has announced again since;
with an empty difference that is `ListenersUpToDate`. Refinement: `Acquire` maps to the abstract browse,
the copying steps to stuttering because the mapping shows the finished picture while the
map is being built.

`Avahi_proofs`. `GroupInv` adds to `PublishedIsCurrent` that a filled group has a request
behind it, so that a late RUNNING event cannot revive a withdrawn one. `CallInv` says that
a waiting `announce()` has nothing in `_result` yet. `NotConnected` is the heart of
`AnnounceTruthful`: `announce()` waits only with a client that never ran, such a client
has no browser, and so no `ALL_FOR_NOW` is under way that would store `SUCCESS`.

`DiscoversAll` needs a second invariant on top of this one, `DiscoveryInv`. `ReportedComes`
follows a service from the daemon's report into the map: while it is on the network, its
report is still on the bus with no removal behind it, or no removal is on the bus and it is
in the map, or has a resolver that has not given up, or is in `failed` or `erased`. A failed
resolver and a removal on another path put it there, and only an answer for the name takes it
out again, which puts it into the map; an answer can be stale only if a removal follows. `BusInv` says that an answer
is about a resolver that is not freed, and the only one about it; without it the second
answer of a resolver could undo what the first one promised. The types of everything come
with these. When the daemon has said all, bus and resolvers are empty, and of these ways
the map and the two recorded losses are left. All theorems hold for any number of paths.

`AvahiThreads_proofs`. For any objects, shared or not, `isBrowsing()` is true only if the
library has a browser (`BrowserBacked`). `EveryBrowsingStops` is the
converse, for objects that are not in `raced`: the library has exactly the browser that
`_browser` is. It needs `BeginsFresh`: on such an object at most one thread is between its look
at `_browser` and the lock, and it still finds none when it has the lock.

`Dnssd_proofs`. `WaitInv` ties `_result` to the wait in progress. `QueueInv` is about the
order of the replies: an unread "add" belongs to an instance that is there, or its
"remove" follows. With it `MapInv` survives a resolve that ends after the instance left.

`Uint128_proofs`. The type invariant is inductive by itself. `ProductMonotonic` is the one
nonlinear fact; from it come the bounds of a value and that the high word decides an order.
`Assemble` says what value a pair has whose high word may have wrapped once, and all
operators are brought into that form. `++` and `--` are shown equal to adding and
subtracting one.

The strings. `DigitsFit` says that a word has at most `Width` digits, so that the buffer of
`getString()` cuts nothing off (`NothingCutOff`); `DigitsRead` that reading digits makes the
word again and never saturates; `StrtoullReads` that `strtoull()` stops at the first character
that is no digit, wherever the digits of the escape are. `FromStringReads` puts this together
for both separators and `FromDigitsReads` for the short form, which gives `RoundTrip`. The bits.
`BitsOfWords` shows that `&` and `|` of two words fit into their bits and add up to the words;
`BitwiseAgrees` follows because the same carry is seen. `DigitsAssumption` says that a word is
`Width` digits of base `Base`, `BitsAssumption` that it is a number of bits; 2^64 is both.
All theorems are about `TextSpec`, the operators and the strings together.

`Serializable_proofs`. The types and `OwnedOnce` are inductive together. The lemmas
`NewHolds`, `WriteHolds` and `MoveHolds` say what an allocation, a write through a pointer
and a change of pointers does to what the objects hold (`Holds`, the refinement mapping);
that a write is seen at one object only is where `OwnedOnce` is used. `HeldAssumption` sets
the null pointer and the absent object apart from callbacks.

`Text_proofs`, the pairs of a service. `ReadsBack` rests on the way of one pair through a record: the first `=`
of an entry is the one the writer put there if the key has none (`Equals`, with the least
number principle), so key and value are cut apart where they were joined; the entries of
two keys differ; and an entry that is too long keeps its key or, if the key alone is too
long, is full and so not that of a pair that fits. `FreshIsFound`
says that the map is what reading the record again would give, and `SameName` that either
both objects use the test driver or none does. `NothingWithoutBackend` says
that an object without a backend sees no instances. `EntryAssumption` leaves room in an entry for the key of the host;
`BytesAssumption` and `TextAssumption` say that texts are sequences of bytes.

`Text_proofs`, the URI. The theorems are about texts of every length over every set of
characters, ports of every width, and any objects and arguments.

- The parser. `RestPos`, `PathPos`, `MarkPos` and `HashPos` are the positions in a text where
  the scheme is over and where path, query and fragment start, each found by a search from
  the one before. `Parses` lists the states the loop can be in for a text: before it, behind
  each part, and with an error in the scheme or authority. `TurnParses` shows it inductive,
  part by part; `AssertsHold` follows, since what is left when the query is looked for starts
  at a `?` or `#`. Without the positions nothing would be known about the input that one part
  leaves to the next.
- The reference. `ReferenceIs` shows that cutting from the end gives the same positions,
  `ReadingsAre` that an authority has exactly one reading if `_parseAuthority()` throws
  nothing, and none otherwise.
- Printing. `PutTogether` says that parts with only the characters of their place (`Fit`) are
  found again where they were put; `AuthorityTogether` the same of user information, host and
  port, and `DecimalReads` that the digits of a port read as the port. The parts of a parsed
  text fit, with the one exception that `RoundTrip` names.
- The query. `MapMeans` goes through the fields from the end, as the recursion does, and shows
  that the map says what the fields from there on say; `QueryMeaning` is that at the start.
  `OneMoreField` says that `&` and a field add that field and no other, from which
  `RebuildMeans` follows: what `addQuery()` writes means what it had in the map.
- The objects. `Sound`, the inductive invariant of `Uri`, has the types, that the query map is
  finite, and `InStep`: it is the meaning of the text, or it has a pair that no text can hold and
  the text is all of the map written out. `QueryInStep` is one part of it,
  `PrintsItself` follows with `PutTogether`, and the theorems about the parser hold for a
  client because `UriSpec` implements `ParserSpec`.

Here and in `Uint128_proofs`, induction is done with the least number for which a fact fails
(`LeastNumber`). The recursive functions of the model (digits, powers and bits of `uint128_t`,
`ToDecimal`, what `Strtol` has read, the query map, the query text)
exist by `Recursion`, which builds such a function up to each number. `PortAssumption` says
that a port has a bit and that its power of two is a number, which the provers do not know; `LongAssumption`
that the largest long is a number that no port exceeds; `TailAssumption` and `KeptAssumption` say that texts are texts, `SettableAssumption`,
`PortsAssumption` and `ArgumentAssumption` that the arguments have the types of the
parameters.

`ItemModel_proofs`. `UniqueRows` and `ViewsShow` hold of all models, also of those that do
not exist yet; `parent()` finds the right row because no two have the same name. That every
known instance has a row is proved for `NamesApart`, names that are not the text of a pair;
otherwise it is false (see the findings). The constructor's loop over the map makes a
sequence of rows from a set, for which the finiteness of the map is part of the invariant.

What some properties do not see: `BitwiseAgrees` would hold with `&` and `|` exchanged;
`AgreesWithReference` has `strtol()` and the width of a port on both sides; `RefinesNotifier` is
about clients that do not call a moved-from object, which has no `Impl` (`Usable`); the
`CallsReturn` of `AvahiThreads` is about listeners that do not call back into the library.

Only model-checked: liveness under fairness (`EventuallyAccurate`, `CallsReturn`,
`EventuallyDiscovers`, `Discovers`, `ForgetsFound`, `Terminates`), which is out of the prover's
reach.

## Findings

Two statements of the source that the code does not keep, each with a run in which TLC shows
it:

1. `test/servus.h:123` - the name passed to `instanceRemoved()` was cleared by
   `withdraw()`; the listener is told that `""` left (`testdriver_removed`).
2. `avahi/servus.h:330` - the resolver of a result that is not local is never freed,
   though a comment says the callback frees it (`avahi_leak`).

The models contain more behaviour that the documentation does not lead one to expect. It
has no run of its own; where a constant brings it about, the constant is named:

- `avahi/servus.h:190` - `browse(0)` on a poll that has quit returns `SUCCESS`, not
  `POLL_ERROR` (`BrowseUntil`).
- `test/servus.h:95` - an object that announces again under another name, or withdraws and
  announces between two browses, is found under the new name, and no listener hears of it
  (the exception `again` in `ListenersUpToDate`).
- `avahi/servus.h:300` - a service on two interfaces is erased with the first removal (the
  exception `erased` in `DiscoversAll`).
- `avahi/servus.h:336` - a resolver that failed is not started again: one timeout, and a service
  that is there is not found until it leaves and returns (the exception `failed`).
- `avahi/servus.h:152` - two threads that begin browsing on one object create two browsers;
  one can never be stopped (the exception `raced` in `BrowsingStops`).
- `avahi/servus.h:174` - `browse()` with its default timeout keeps the process-wide mutex,
  and every other object waits with it (`CallsReturn` with the timeout `"never"`).
- `dnssd/servus.h:192` - a registration the daemon has not answered in time is reported
  as a success (`Timeout`).
- `dnssd/servus.h:157` - a value is cut without counting its key; the entry is refused and
  the pair is missing (`Accepted`).
- `servus.cpp:209` - an object made while the Avahi daemon is away says `NOT_SUPPORTED` for
  good, though the library was compiled with support (`ChooseImplementation`).
- `itemModel.cpp:43` - rows made from the last session's map stay when their instances
  are gone; `ForgetsFound` is about instances of this session.
- `itemModel.cpp:64` - pairs set after the instance was found are never shown, and an
  instance with the text of a pair for its name gets no row (`RowForEveryInstance` with such
  a name in `Names`).
- `itemModel.cpp:58` - the destructor of one model ends the browsing of the others, whose
  timers go on (`Discovers` is about the time while the service browses).
- `itemModel.cpp:47` - the result of `beginBrowsing()` is ignored; a model whose service could not
  begin stays empty, and nobody is told (likewise).
- `uri.cpp:194` - a port that is not a number is reported as `uri_parse`, not as
  `std::invalid_argument` (`Throw`).
- `uri.cpp:43` - `operator==` ignores the scheme (not in the model, which only builds
  objects).
- `uri.cpp:404` - `addQuery()` removes the fragment (`AddQuery`), and it escapes nothing: a value
  with `&`, an empty key or a key with `&` or `=` is in the map and is read as something else
  from the text (the exception in `InStep`).
- A URI with an empty user information before a host with an `@` (`a://@u@h`) is printed
  without the first `@` and read back as another one (the exception in `RoundTrip`).
- A key that contains a `=` or is `servus_host` shadows other pairs of its record
  (`PlainKey`); an entry without `=` has itself for a value in the Avahi backend and nothing
  in the Bonjour one; `set()` calls the Avahi library without the mutex.

## Not modelled, and the plan

All components with behaviour of their own are modelled. Not modelled: the texts of
results and the printing of `Servus` objects (wording), MD5 (third-party), the
`servusBrowser` window (no state of its own), `Serializable::Data::clone()` (a copy of
bytes), and of `uint128_t` the hash, the boost archive and `getShortString()`, whose three
characters depend on the base being 16.

Every safety property that a passing run checks is proved. What is left is liveness, which
stays with TLC, and a model of the unlocked `set()` of the test driver down to single words, the one hazard without a
property.
