---------------------------- MODULE AvahiThreads ----------------------------
(***************************************************************************)
(* Threads that use objects of the Avahi backend                           *)
(* (src/servus/avahi/servus.h).  All objects of a process share one mutex, *)
(* which is held while the library is called, and so while announce() and  *)
(* browse() wait for events; beginBrowsing() looks at _browser before it   *)
(* takes the mutex.  What the calls do besides is in Avahi.                *)
(***************************************************************************)
EXTENDS Naturals, Sequences

CONSTANTS Threads, Objects,
          Timeouts,    \* what browse() is called with: "never" is -1
          Nobody,      \* the mutex is free
          MaxCalls     \* how many calls each thread makes

ASSUME TimeoutsAssumption == Timeouts \subseteq {"zero", "some", "never"}
ASSUME NobodyAssumption == Nobody \notin Threads
ASSUME CallsAssumption == MaxCalls \in Nat

VARIABLES
  mutex,        \* the thread that holds _mutex, or Nobody
  object,       \* object[t]: the object that t calls, which others may call too
  todo,         \* todo[t]: the locked sections its call still has to run
  timeout,      \* timeout[t]: how long its browse() may wait
  calls,        \* calls[t]: the number of calls of t
  browser,      \* browser[o]: _browser is not null
  browsers,     \* browsers[o]: how many browsers the library has for o
  announcable,  \* announcable[o]: _announcable
  event,        \* event[o]: the poll of o has something to dispatch
  raced         \* objects that two threads began to browse at the same time

vars == <<mutex, object, todo, timeout, calls, browser, browsers, announcable,
          event, raced>>

Idle(t) == todo[t] = <<>>

Inside(t, section) == mutex = t /\ Head(todo[t]) = section

\* The thread has seen in beginBrowsing() that there is no browser, and has not
\* made one.
Begins(plan) == plan # <<>> /\ Head(plan) = "begin"

Beginning(t, o) == object[t] = o /\ Begins(todo[t])

Init ==
  /\ mutex = Nobody
  /\ object \in [Threads -> Objects]
  /\ todo = [t \in Threads |-> <<>>]
  /\ timeout \in [Threads -> Timeouts]
  /\ calls = [t \in Threads |-> 0]
  /\ browser = [o \in Objects |-> FALSE]
  /\ browsers = [o \in Objects |-> 0]
  /\ announcable = [o \in Objects |-> FALSE]
  /\ event = [o \in Objects |-> FALSE]
  /\ raced = {}
-----------------------------------------------------------------------------
(* The application calls.                                                  *)

Call(t, sections) ==
  /\ Idle(t) /\ calls[t] < MaxCalls
  /\ calls' = [calls EXCEPT ![t] = @ + 1]
  /\ todo' = [todo EXCEPT ![t] = sections]
  /\ raced' = IF Begins(sections) /\ \E u \in Threads : Beginning(u, object[t])
              THEN raced \cup {object[t]} ELSE raced
  /\ UNCHANGED <<mutex, object, timeout, browser, browsers, announcable, event>>

Announce(t) == Call(t, <<"announce">>)

Withdraw(t) == Call(t, <<"withdraw">>)

Browse(t) == Call(t, <<"browse">>)

EndBrowsing(t) == Call(t, <<"end">>)

\* beginBrowsing() without its test (mutant).
BeginBrowsingAgain(t) == Call(t, <<"begin">>)

\* PENDING is returned without the mutex if there is a browser.
BeginBrowsing(t) == Call(t, IF browser[object[t]] THEN <<>> ELSE <<"begin">>)

\* After PENDING the browsing is not this call's to end.
Discover(t) ==
  Call(t, IF browser[object[t]] THEN <<"browse">>
                                ELSE <<"begin", "browse", "end">>)
-----------------------------------------------------------------------------
(* The sections.                                                           *)

Acquire(t) ==
  /\ ~Idle(t) /\ mutex = Nobody
  /\ mutex' = t
  /\ UNCHANGED <<object, todo, timeout, calls, browser, browsers, announcable,
                 event, raced>>

\* The end of a section; the ScopedLock gives the mutex back.
Leave(t, rest) ==
  /\ mutex' = Nobody
  /\ todo' = [todo EXCEPT ![t] = rest]
  /\ UNCHANGED <<object, timeout, calls, raced>>

Return(t) == Leave(t, Tail(todo[t]))

Withdrawn(t) ==
  /\ Inside(t, "withdraw")
  /\ Return(t)
  /\ UNCHANGED <<browser, browsers, announcable, event>>

Begun(t) ==
  /\ Inside(t, "begin")
  /\ browser' = [browser EXCEPT ![object[t]] = TRUE]
  /\ browsers' = [browsers EXCEPT ![object[t]] = @ + 1]
  /\ Return(t)
  /\ UNCHANGED <<announcable, event>>

\* avahi_service_browser_new() fails; discover() goes no further.
BeginFailed(t) ==
  /\ Inside(t, "begin")
  /\ browser' = [browser EXCEPT ![object[t]] = FALSE]
  /\ Leave(t, <<>>)
  /\ UNCHANGED <<browsers, announcable, event>>

\* _browser is freed and not set to null (mutant).
EndedKeep(t) ==
  /\ Inside(t, "end")
  /\ browsers' = [browsers EXCEPT ![object[t]] = IF browser[object[t]] THEN @ - 1 ELSE @]
  /\ Return(t)
  /\ UNCHANGED <<browser, announcable, event>>

Ended(t) ==
  /\ Inside(t, "end")
  /\ browsers' = [browsers EXCEPT ![object[t]] = IF browser[object[t]] THEN @ - 1 ELSE @]
  /\ browser' = [browser EXCEPT ![object[t]] = FALSE]
  /\ Return(t)
  /\ UNCHANGED <<announcable, event>>

\* announce() of an object whose client runs need not wait.
AnnounceNow(t) ==
  /\ Inside(t, "announce") /\ announcable[object[t]]
  /\ Return(t)
  /\ UNCHANGED <<browser, browsers, announcable, event>>

Consume(t) == event[object[t]] /\ event' = [event EXCEPT ![object[t]] = FALSE]

\* An iteration of announce() dispatches an event: the client runs, or fails,
\* or it is about something else and the loop goes on.
AnnounceIterate(t) ==
  /\ Inside(t, "announce") /\ ~announcable[object[t]]
  /\ Consume(t)
  /\ \/ /\ announcable' = [announcable EXCEPT ![object[t]] = TRUE]
        /\ Return(t)
     \/ Return(t) /\ UNCHANGED announcable
     \/ UNCHANGED <<mutex, object, todo, timeout, calls, raced, announcable>>
  /\ UNCHANGED <<browser, browsers>>

\* An iteration of browse() dispatches an event; only with a positive timeout
\* may there be another one.
BrowseIterate(t) ==
  /\ Inside(t, "browse")
  /\ Consume(t)
  /\ \/ Return(t)
     \/ /\ timeout[t] = "some"
        /\ UNCHANGED <<mutex, object, todo, timeout, calls, raced>>
  /\ UNCHANGED <<browser, browsers>>
  /\ \/ UNCHANGED announcable
     \/ announcable' = [announcable EXCEPT ![object[t]] = TRUE]

\* announce() has no limit of its own (mutant).
MayTimeOutBrowse(t) == Inside(t, "browse") /\ timeout[t] # "never"

\* ANNOUNCE_TIMEOUT, or the timeout of browse().
MayTimeOut(t) == \/ Inside(t, "announce") /\ ~announcable[object[t]]
                 \/ Inside(t, "browse") /\ timeout[t] # "never"

TimedOut(t) ==
  /\ MayTimeOut(t)
  /\ Return(t)
  /\ UNCHANGED <<browser, browsers, announcable, event>>

\* The daemon has something to say to an object.
Arrives(o) ==
  /\ ~event[o]
  /\ event' = [event EXCEPT ![o] = TRUE]
  /\ UNCHANGED <<mutex, object, todo, timeout, calls, browser, browsers,
                 announcable, raced>>

Finished ==
  /\ \A t \in Threads : Idle(t) /\ calls[t] = MaxCalls
  /\ UNCHANGED vars

Section(t) == \/ Withdrawn(t) \/ Begun(t) \/ BeginFailed(t) \/ Ended(t)
              \/ AnnounceNow(t) \/ AnnounceIterate(t) \/ BrowseIterate(t)

Next ==
  \/ \E t \in Threads :
       \/ Announce(t) \/ Withdraw(t) \/ Browse(t) \/ Discover(t)
       \/ BeginBrowsing(t) \/ EndBrowsing(t)
       \/ Acquire(t) \/ Section(t) \/ TimedOut(t)
  \/ \E o \in Objects : Arrives(o)
  \/ Finished

Fairness ==
  \A t \in Threads : WF_vars(Acquire(t)) /\ WF_vars(Section(t)) /\ WF_vars(TimedOut(t))

Spec == Init /\ [][Next]_vars

FairSpec == Spec /\ Fairness
-----------------------------------------------------------------------------
\* _browser points to a browser that the library still has, also when threads
\* that looked at it before they had the mutex all go on: endBrowsing() frees no
\* browser twice, and isBrowsing() does not speak of one that is gone.
BrowserBacked == \A o \in Objects : browser[o] => browsers[o] > 0

\* Whatever beginBrowsing() starts, endBrowsing() can stop: the library has a
\* browser for an object exactly while isBrowsing() says so, and then one,
\* although beginBrowsing() looks before it locks.  The one exception is an
\* object on which two threads were between look and lock at the same time.
BrowsingStops ==
  \A o \in Objects \ raced : browsers[o] = (IF browser[o] THEN 1 ELSE 0)

\* Everything that waits for the mutex or under it comes to an end, if the
\* other threads rest at last: all calls return.
CallsReturn == \A t \in Threads : ~Idle(t) ~> Idle(t)
=============================================================================
