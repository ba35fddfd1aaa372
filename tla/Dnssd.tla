------------------------------- MODULE Dnssd -------------------------------
(***************************************************************************)
(* The Bonjour backend dnssd::Servus (servus/dnssd/servus.h): one object,  *)
(* used by one thread.  Each operation has a socket to the daemon: _out of *)
(* announce(), _in of browse(), and one per resolve.  All wait in the same *)
(* _handleEvents(), which polls one socket until the member _result is no  *)
(* longer PENDING.  A browse that sees a new instance resolves it by       *)
(* calling _handleEvents() again, inside its callback, with the same       *)
(* _result: pc is then "resolve" and the browse waits outside.             *)
(*                                                                         *)
(* The library is external and modelled from its use.  select() reports a  *)
(* timeout only when nothing can be read.  A service reference has a       *)
(* socket, as _handleEvents() asserts; its return without withdraw() for   *)
(* one that has none is left out.  EINTR starts the same select() again    *)
(* with the whole timeout and is left out, too: that a wait ends is shown  *)
(* for a process in which signals do not interrupt every select().  So are *)
(* calls that return at once and change nothing.  One listener is          *)
(* registered for the life of the object.                                  *)
(***************************************************************************)
EXTENDS Integers, Sequences

CONSTANTS
  Names,     \* instance names on the network
  Errors,    \* kDNSServiceErr_ and errno values
  MaxQueue,  \* bound: unread replies on the socket of _in
  Nothing    \* no name

\* Result::SUCCESS (kDNSServiceErr_NoError) and Result::PENDING
SUCCESS == 0
PENDING == -1

ASSUME ErrorsAssumption == Errors \subseteq Int \ {SUCCESS, PENDING}
ASSUME NamesAssumption == Nothing \notin Names
ASSUME QueueAssumption == MaxQueue \in Nat

VARIABLES
  out,          \* _out is not null
  reply,        \* what the socket of _out holds: "none", "ok" or "error"
  confirmed,    \* registerCB_ was called without an error for this _out
  current,      \* the TXT record the daemon has for _out is that of _data
  in,           \* _in is not null
  queue,        \* unread browse replies on the socket of _in
  found,        \* found[n]: whose data _instanceMap[n] holds, Nothing if no entry
  rows,         \* what the listener was told and not told to forget
  browsedName,  \* _browsedName
  result,       \* _result
  resolver,     \* the instance being resolved, Nothing when there is none
  answer,       \* what the socket of the resolver holds: "none", "ok", "error"
  pc,           \* "idle", or the _handleEvents() in progress
  timeout,      \* of browse(): -1 or 0 for any other
  net,          \* instances on the network
  told          \* instances reported to the browse in progress

publish == <<out, reply, confirmed, current>>
browser == <<in, queue, told>>
lookup  == <<found, rows, browsedName>>
resolve == <<resolver, answer>>
vars == <<publish, browser, lookup, resolve, result, pc, timeout, net>>

Replies == [kind : {"add", "remove", "error"}, name : Names]

TypeOK ==
  /\ out \in BOOLEAN /\ in \in BOOLEAN /\ confirmed \in BOOLEAN
  /\ reply \in {"none", "ok", "error"} /\ answer \in {"none", "ok", "error"}
  /\ current \in BOOLEAN
  /\ queue \in Seq(Replies)
  /\ found \in [Names -> Names \cup {Nothing}]
  /\ rows \in SUBSET Names
  /\ browsedName \in Names \cup {Nothing}
  /\ resolver \in Names \cup {Nothing}
  /\ result \in Errors \cup {SUCCESS, PENDING}
  /\ pc \in {"idle", "announce", "browse", "resolve"}
  /\ timeout \in {-1, 0}
  /\ net \in SUBSET Names /\ told \in SUBSET Names

Init ==
  /\ out = FALSE /\ reply = "none" /\ confirmed = FALSE /\ current = FALSE
  /\ in = FALSE /\ queue = <<>> /\ told = {}
  /\ found = [n \in Names |-> Nothing] /\ rows = {} /\ browsedName = Nothing
  /\ resolver = Nothing /\ answer = "none"
  /\ result = PENDING /\ pc = "idle" /\ timeout = 0 /\ net = {}

-----------------------------------------------------------------------------
(* The calls, up to where they wait. *)

\* What withdraw() does with _out, and with all that belongs to it.
Deallocate == out' = FALSE /\ reply' = "none" /\ confirmed' = FALSE /\ current' = FALSE

\* set() with _updateRecord(); a failing update is only logged.
Set ==
  /\ pc = "idle"
  /\ current' \in IF out THEN BOOLEAN ELSE {FALSE}
  /\ UNCHANGED <<out, reply, confirmed, browser, lookup, resolve, result, pc, timeout, net>>

\* DNSServiceRegister() succeeded; an announced object returns PENDING, and a
\* failure its error, at once.
Announce ==
  /\ pc = "idle" /\ ~out
  /\ out' = TRUE /\ reply' = "none" /\ confirmed' = FALSE /\ current' = TRUE
  /\ pc' = "announce"
  /\ UNCHANGED <<browser, lookup, resolve, result, timeout, net>>

Withdraw ==
  /\ pc = "idle" /\ out
  /\ Deallocate
  /\ UNCHANGED <<browser, lookup, resolve, result, pc, timeout, net>>

\* beginBrowsing() that keeps the map of the last session (mutant).
BeginBrowsingKeep ==
  /\ pc = "idle" /\ ~in
  /\ in' \in BOOLEAN
  /\ UNCHANGED <<publish, queue, told, lookup, resolve, result, pc, timeout, net>>

\* beginBrowsing() of an object that is not browsing, with _browse().
BeginBrowsing ==
  /\ pc = "idle" /\ ~in
  /\ found' = [n \in Names |-> Nothing]
  /\ in' \in BOOLEAN                           \* DNSServiceBrowse() may fail
  /\ UNCHANGED <<publish, queue, told, rows, browsedName, resolve, result, pc,
                 timeout, net>>

EndBrowsing ==
  /\ pc = "idle" /\ in
  /\ in' = FALSE /\ queue' = <<>> /\ told' = {}
  /\ UNCHANGED <<publish, lookup, resolve, result, pc, timeout, net>>

\* browse(), whose precondition (an assertion) is that _in is there.
Browse(t) ==
  /\ pc = "idle" /\ in
  /\ pc' = "browse" /\ timeout' = t
  /\ UNCHANGED <<publish, browser, lookup, resolve, result, net>>

\* ~Servus(), then another object is constructed.
Destroy ==
  /\ pc = "idle"
  /\ Deallocate
  /\ in' = FALSE /\ queue' = <<>> /\ told' = {}
  /\ found' = [n \in Names |-> Nothing] /\ rows' = {} /\ browsedName' = Nothing
  /\ result' = PENDING
  /\ UNCHANGED <<resolve, pc, timeout, net>>

-----------------------------------------------------------------------------
(* _handleEvents(). *)

Waiting(where) == pc = where /\ result = PENDING

\* registerCB_ that does not withdraw a rejected registration (mutant).
ReadRegisterKeep ==
  /\ Waiting("announce") /\ reply # "none"
  /\ IF reply = "ok" THEN result' = SUCCESS ELSE result' \in Errors
  /\ confirmed' = (reply = "ok") /\ reply' = "none"
  /\ UNCHANGED <<out, current, browser, lookup, resolve, pc, timeout, net>>

\* DNSServiceProcessResult(_out) calls registerCB_.
ReadRegister ==
  /\ Waiting("announce") /\ reply # "none"
  /\ IF reply = "ok"
     THEN result' = SUCCESS /\ confirmed' = TRUE /\ reply' = "none" /\ UNCHANGED <<out, current>>
     ELSE result' \in Errors /\ Deallocate
  /\ UNCHANGED <<browser, lookup, resolve, pc, timeout, net>>

\* browseCB_ that keeps the name of the first instance (mutant).
ReadAddFirst ==
  /\ Waiting("browse") /\ queue # <<>> /\ Head(queue).kind = "add"
  /\ queue' = Tail(queue)
  /\ browsedName' = IF browsedName = Nothing THEN Head(queue).name ELSE browsedName
  /\ \/ resolver' = Head(queue).name /\ pc' = "resolve"
     \/ UNCHANGED <<resolver, pc>>
  /\ UNCHANGED <<publish, in, told, found, rows, answer, result, timeout, net>>

\* browseCB_ with kDNSServiceFlagsAdd: start a resolve and wait for it, unless
\* DNSServiceResolve() fails.
ReadAdd ==
  /\ Waiting("browse") /\ queue # <<>> /\ Head(queue).kind = "add"
  /\ queue' = Tail(queue)
  /\ browsedName' = Head(queue).name
  /\ \/ resolver' = Head(queue).name /\ pc' = "resolve"
     \/ UNCHANGED <<resolver, pc>>
  /\ UNCHANGED <<publish, in, told, found, rows, answer, result, timeout, net>>

ReadRemove ==
  /\ Waiting("browse") /\ queue # <<>> /\ Head(queue).kind = "remove"
  /\ queue' = Tail(queue)
  /\ found' = [found EXCEPT ![Head(queue).name] = Nothing]
  /\ rows' = rows \ {Head(queue).name}
  /\ UNCHANGED <<publish, in, told, browsedName, resolve, result, pc, timeout, net>>

\* browseCB_ returns at once when it is called with an error.
ReadBrowseError ==
  /\ Waiting("browse") /\ queue # <<>> /\ Head(queue).kind = "error"
  /\ queue' = Tail(queue)
  /\ UNCHANGED <<publish, in, told, lookup, resolve, result, pc, timeout, net>>

\* resolveCBS_ and resolveCB_ file the data under _browsedName.
ReadResolve ==
  /\ Waiting("resolve") /\ answer # "none"
  /\ IF answer = "ok"
     THEN /\ found' = [found EXCEPT ![browsedName] = resolver]
          /\ rows' = rows \cup {browsedName}
          /\ result' = SUCCESS
     ELSE result' \in Errors /\ UNCHANGED <<found, rows>>
  /\ answer' = "none"
  /\ UNCHANGED <<publish, browser, browsedName, resolver, pc, timeout, net>>

\* The resolve that waits with the default timeout, -1 (mutant).
TimeoutNoResolve ==
  /\ result = PENDING
  /\ \/ pc = "announce" /\ reply = "none"
     \/ pc = "browse" /\ queue = <<>> /\ timeout >= 0
  /\ result' = SUCCESS
  /\ UNCHANGED <<publish, browser, lookup, resolve, pc, timeout, net>>

\* select() returns 0: ANNOUNCE_TIMEOUT, the timeout of browse(), or 500 ms.
Timeout ==
  /\ result = PENDING
  /\ \/ pc = "announce" /\ reply = "none"
     \/ pc = "browse" /\ queue = <<>> /\ timeout >= 0
     \/ pc = "resolve" /\ answer = "none"
  /\ result' = SUCCESS
  /\ UNCHANGED <<publish, browser, lookup, resolve, pc, timeout, net>>

\* select() or DNSServiceProcessResult() fails: withdraw(), whatever the
\* socket was for.
Fail ==
  /\ pc # "idle" /\ result = PENDING
  /\ Deallocate
  /\ result' \in Errors
  /\ UNCHANGED <<browser, lookup, resolve, pc, timeout, net>>

\* The resolve without the reset of _result (mutant).
ResolveReturnNoReset ==
  /\ pc = "resolve" /\ result # PENDING
  /\ pc' = "browse"
  /\ resolver' = Nothing /\ answer' = "none"
  /\ UNCHANGED <<publish, browser, lookup, result, timeout, net>>

\* The inner _handleEvents() returns into browseCB_, which frees the resolver.
ResolveReturn ==
  /\ pc = "resolve" /\ result # PENDING
  /\ result' = PENDING
  /\ pc' = "browse"
  /\ resolver' = Nothing /\ answer' = "none"
  /\ UNCHANGED <<publish, browser, lookup, timeout, net>>

\* announce() or browse() returns _result, "reset for next operation".
Return ==
  /\ pc \in {"announce", "browse"} /\ result # PENDING
  /\ result' = PENDING
  /\ pc' = "idle" /\ timeout' = 0
  /\ UNCHANGED <<publish, browser, lookup, resolve, net>>

-----------------------------------------------------------------------------
(* The daemon and the network. *)

others == <<lookup, result, pc, timeout>>

NetworkChange(n) ==
  /\ net' = IF n \in net THEN net \ {n} ELSE net \cup {n}
  /\ UNCHANGED <<publish, browser, resolve, others>>

\* The answer to a registration comes once.
ReplyRegister(kind) ==
  /\ out /\ reply = "none" /\ ~confirmed
  /\ reply' = kind
  /\ UNCHANGED <<out, confirmed, current, browser, resolve, others, net>>

Enqueue(kind, n) ==
  /\ in /\ Len(queue) < MaxQueue
  /\ queue' = Append(queue, [kind |-> kind, name |-> n])
  /\ UNCHANGED <<publish, in, resolve, others, net>>

ReplyAdd(n) == n \in net \ told /\ told' = told \cup {n} /\ Enqueue("add", n)

ReplyRemove(n) == n \in told \ net /\ told' = told \ {n} /\ Enqueue("remove", n)

ReplyError(n) == UNCHANGED told /\ Enqueue("error", n)

ReplyResolve(kind) ==
  /\ resolver # Nothing /\ answer = "none"
  /\ kind = "ok" => resolver \in net
  /\ answer' = kind
  /\ UNCHANGED <<publish, browser, resolver, others, net>>

-----------------------------------------------------------------------------
Application ==
  \/ Set
  \/ Announce
  \/ Withdraw
  \/ BeginBrowsing
  \/ EndBrowsing
  \/ \E t \in {-1, 0} : Browse(t)
  \/ Destroy

\* A call under way goes on, without an error.
Continue ==
  \/ ReadRegister
  \/ ReadAdd
  \/ ReadRemove
  \/ ReadBrowseError
  \/ ReadResolve
  \/ Timeout
  \/ ResolveReturn
  \/ Return

Environment ==
  \/ \E n \in Names : NetworkChange(n) \/ ReplyAdd(n) \/ ReplyRemove(n) \/ ReplyError(n)
  \/ \E kind \in {"ok", "error"} : ReplyRegister(kind) \/ ReplyResolve(kind)

Next == Application \/ Continue \/ Fail \/ Environment

Spec == Init /\ [][Next]_vars

\* The thread that calls runs, and its timers expire; nothing need fail or answer.
FairSpec == Spec /\ WF_vars(Continue)

-----------------------------------------------------------------------------
(* _handleEvents() leaves _result PENDING behind (line 224), also the one  *)
(* that runs inside the callback of another: every wait begins with PENDING *)
(* and so polls its socket, and no call returns the result of another.     *)
ResultReset == [][pc' # pc => result' = PENDING]_vars

(* announce() leaves the object announced exactly when it returns SUCCESS: *)
(* all error paths of _handleEvents() and registerCB_ withdraw, but the    *)
(* one for a service without a socket, which the code asserts away, and no *)
(* other path does.                                                        *)
AnnounceConsistent ==
  [][pc = "announce" /\ pc' = "idle" => (out' <=> result = SUCCESS)]_vars

(* The data of an instance is filed under that instance's name, though the *)
(* name is passed through the member _browsedName and not the callback.    *)
FiledRight == \A n \in Names : found[n] \in {Nothing, n}

RemoveQueued(n) == \E i \in 1..Len(queue) : queue[i] = [kind |-> "remove", name |-> n]

(* While browsing, the map holds no instance of an earlier session and none *)
(* whose removal browseCB_ has seen: what is there was reported to this    *)
(* browse, and if it has left, its removal is still to be read.  A resolve *)
(* that ends after the instance left does not bring it back for good.      *)
NoGhosts ==
  in => \A n \in Names : found[n] # Nothing => n \in told \/ RemoveQueued(n)

(* announce(), and the resolve inside a browse, come to an end, if signals *)
(* do not interrupt every select(), which begins its timeout anew.         *)
(* browse(-1) need not end, and browse(t) waits t again after each event.  *)
CallsReturn ==
  /\ (pc = "announce") ~> (pc # "announce")
  /\ (pc = "resolve") ~> (pc # "resolve")
=============================================================================
