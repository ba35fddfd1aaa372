------------------------ MODULE AvahiThreads_proofs ------------------------
(***************************************************************************)
(* Proofs about the threads that use objects of the Avahi backend, for any *)
(* number of threads, objects and calls.                                   *)
(***************************************************************************)
EXTENDS AvahiThreads, TLAPS

\* What a call may still have to do: the sections of one of the calls, or what
\* is left of those of discover().
Plans == {<<>>, <<"announce">>, <<"withdraw">>, <<"browse">>, <<"end">>,
          <<"begin">>, <<"begin", "browse", "end">>, <<"browse", "end">>}

\* The types of the variables.
TypeOK ==
  /\ mutex \in Threads \cup {Nobody}
  /\ object \in [Threads -> Objects]
  /\ todo \in [Threads -> Plans]
  /\ timeout \in [Threads -> Timeouts]
  /\ calls \in [Threads -> Nat]
  /\ browser \in [Objects -> BOOLEAN]
  /\ browsers \in [Objects -> Nat]
  /\ announcable \in [Objects -> BOOLEAN]
  /\ event \in [Objects -> BOOLEAN]
  /\ raced \in SUBSET Objects

\* Only a thread in the middle of a call holds the mutex.
HolderIsBusy == mutex # Nobody => todo[mutex] # <<>>

\* A thread between the look and the lock of beginBrowsing() is alone there,
\* and what it saw is still true, unless its object is raced.
BeginsFresh ==
  \A t \in Threads :
    Begins(todo[t]) /\ object[t] \notin raced =>
      /\ ~browser[object[t]]
      /\ \A u \in Threads : Beginning(u, object[t]) => u = t

Inv == TypeOK /\ HolderIsBusy /\ BrowserBacked /\ BrowsingStops /\ BeginsFresh
-----------------------------------------------------------------------------
(* The sections that are left when one is done.                            *)
LEMMA TailOfPlan ==
  ASSUME NEW p \in Plans, p # <<>>
  PROVE  Tail(p) \in Plans
<1>1. /\ Tail(<<"begin", "browse", "end">>) = <<"browse", "end">>
      /\ Tail(<<"browse", "end">>) = <<"end">>
  OBVIOUS
<1>2. \A s : Tail(<<s>>) = <<>> /\ Head(<<s>>) = s
  OBVIOUS
<1>3. Head(<<"browse", "end">>) = "browse"
  OBVIOUS
<1>4. CASE p = <<"begin", "browse", "end">>
  BY <1>1, <1>4 DEF Plans
<1>5. CASE p = <<"browse", "end">>
  BY <1>1, <1>3, <1>5 DEF Plans
<1>6. CASE \E s \in {"announce", "withdraw", "browse", "end", "begin"} : p = <<s>>
  BY <1>2, <1>6 DEF Plans
<1> QED
  BY <1>4, <1>5, <1>6 DEF Plans

(* What a call or the end of a section does to the plans of the threads.   *)
LEMMA TodoUpdate ==
  ASSUME TypeOK, NEW t \in Threads, NEW p \in Plans, todo' = [todo EXCEPT ![t] = p]
  PROVE  /\ todo' \in [Threads -> Plans]
         /\ todo'[t] = p
         /\ \A u \in Threads : u # t => todo'[u] = todo[u]
BY DEF TypeOK

LEMMA InitInv == Init => Inv
BY NobodyAssumption DEF Init, Inv, TypeOK, HolderIsBusy, BrowserBacked, BrowsingStops,
   BeginsFresh, Begins, Plans
-----------------------------------------------------------------------------
(* One step, in which threads may share objects.                           *)

(* The application calls, with the sections the call is made of; only an   *)
(* object without a browser is begun to be browsed.                        *)
LEMMA CallInv ==
  ASSUME Inv, NEW t \in Threads, NEW p \in Plans, Call(t, p),
         Begins(p) => ~browser[object[t]]
  PROVE  Inv'
<1>1. TypeOK'
  BY TodoUpdate DEF Inv, Call, TypeOK
<1>2. HolderIsBusy'
  BY TodoUpdate DEF Inv, Call, TypeOK, HolderIsBusy, Idle
<1>3. BrowserBacked'
  BY DEF Inv, Call, BrowserBacked
<1>4. BrowsingStops'
  BY DEF Inv, Call, BrowsingStops
<1>5. /\ todo'[t] = p /\ \A u \in Threads : u # t => todo'[u] = todo[u]
      /\ object' = object /\ browser' = browser
      /\ raced' = IF Begins(p) /\ \E u \in Threads : Beginning(u, object[t])
                  THEN raced \cup {object[t]} ELSE raced
  BY TodoUpdate DEF Inv, Call
<1>6. todo[t] = <<>> /\ BeginsFresh
  BY DEF Inv, Call, Idle
<1>7. BeginsFresh'
  BY <1>5, <1>6 DEF BeginsFresh, Beginning, Begins
<1> QED
  BY <1>1, <1>2, <1>3, <1>4, <1>7 DEF Inv

(* The mutex is given back at the end of a section.                        *)
LEMMA LeaveInv ==
  ASSUME Inv, NEW t \in Threads, NEW p \in Plans, Leave(t, p),
         /\ browser' \in [Objects -> BOOLEAN] /\ browsers' \in [Objects -> Nat]
         /\ announcable' \in [Objects -> BOOLEAN] /\ event' \in [Objects -> BOOLEAN],
         BrowserBacked', BrowsingStops', ~Begins(p),
         \A u \in Threads : u # t /\ Begins(todo[u]) /\ object[u] \notin raced
                             => ~browser'[object[u]]
  PROVE  Inv'
<1>1. TypeOK'
  BY TodoUpdate DEF Inv, Leave, TypeOK
<1>2. HolderIsBusy'
  BY DEF Leave, HolderIsBusy
<1>3. /\ todo'[t] = p /\ \A u \in Threads : u # t => todo'[u] = todo[u]
      /\ object' = object /\ raced' = raced
  BY TodoUpdate DEF Inv, Leave
<1>4. BeginsFresh'
  <2>1. BeginsFresh
    BY DEF Inv
  <2> QED
    BY <1>3, <2>1 DEF BeginsFresh, Beginning
<1> QED
  BY <1>1, <1>2, <1>4 DEF Inv

(* Browsers stay as they are.                                              *)
LEMMA SameBrowsers ==
  ASSUME Inv, UNCHANGED <<browser, browsers, object, raced>>
  PROVE  /\ BrowserBacked' /\ BrowsingStops'
         /\ \A u \in Threads : Begins(todo[u]) /\ object[u] \notin raced
                             => ~browser'[object[u]]
BY DEF Inv, BrowserBacked, BrowsingStops, BeginsFresh

(* The sections that are left do not begin browsing.                       *)
LEMMA BeginComesFirst ==
  ASSUME NEW p \in Plans, p # <<>>
  PROVE  ~Begins(Tail(p))
<1>1. /\ Tail(<<"begin", "browse", "end">>) = <<"browse", "end">>
      /\ Tail(<<"browse", "end">>) = <<"end">>
  OBVIOUS
<1>2. \A s : Tail(<<s>>) = <<>> /\ Head(<<s>>) = s
  OBVIOUS
<1>3. Head(<<"browse", "end">>) = "browse"
  OBVIOUS
<1>4. CASE p = <<"begin", "browse", "end">>
  BY <1>1, <1>3, <1>4 DEF Begins
<1>5. CASE p = <<"browse", "end">>
  BY <1>1, <1>2, <1>5 DEF Begins
<1>6. CASE \E s \in {"announce", "withdraw", "browse", "end", "begin"} : p = <<s>>
  BY <1>2, <1>6 DEF Begins
<1> QED
  BY <1>4, <1>5, <1>6 DEF Plans

(* The thread inside a section has a plan that starts with it.             *)
LEMMA InsideFacts ==
  ASSUME Inv, NEW t \in Threads, NEW s, Inside(t, s)
  PROVE  /\ mutex = t /\ todo[t] \in Plans /\ todo[t] # <<>> /\ Head(todo[t]) = s
         /\ Tail(todo[t]) \in Plans /\ ~Begins(Tail(todo[t]))
         /\ object[t] \in Objects
BY TailOfPlan, BeginComesFirst, NobodyAssumption DEF Inside, Inv, HolderIsBusy, TypeOK

LEMMA NextInv == Inv /\ [Next]_vars => Inv'
<1> SUFFICES ASSUME Inv, [Next]_vars PROVE Inv'
  OBVIOUS
<1>0. TypeOK /\ HolderIsBusy /\ BrowserBacked /\ BrowsingStops /\ BeginsFresh
  BY DEF Inv
<1>1. ASSUME NEW t \in Threads, Announce(t) \/ Withdraw(t) \/ Browse(t) \/ EndBrowsing(t)
                               \/ BeginBrowsing(t) \/ Discover(t)
      PROVE  Inv'
  <2>1. \A s : Head(<<s>>) = s
    OBVIOUS
  <2>2. PICK p \in Plans : Call(t, p) /\ (Begins(p) => ~browser[object[t]])
    <3>1. CASE Announce(t) \/ Withdraw(t) \/ Browse(t) \/ EndBrowsing(t)
      BY <2>1, <3>1 DEF Announce, Withdraw, Browse, EndBrowsing, Plans, Begins
    <3>2. CASE BeginBrowsing(t) \/ Discover(t)
      BY <2>1, <3>2 DEF BeginBrowsing, Discover, Plans, Begins
    <3> QED
      BY <1>1, <3>1, <3>2
  <2> QED
    BY <2>2, CallInv
<1>2. ASSUME NEW t \in Threads, Acquire(t) PROVE Inv'
  BY <1>2 DEF Acquire, Idle, Inv, TypeOK, HolderIsBusy, BrowserBacked, BrowsingStops,
     BeginsFresh, Beginning
<1>3. ASSUME NEW t \in Threads, Withdrawn(t) \/ AnnounceNow(t) \/ TimedOut(t) PROVE Inv'
  <2>1. \E s : Inside(t, s)
    BY <1>3 DEF Withdrawn, AnnounceNow, TimedOut, MayTimeOut
  <2>2. /\ Leave(t, Tail(todo[t]))
        /\ UNCHANGED <<browser, browsers, announcable, event, object, raced>>
    BY <1>3 DEF Withdrawn, AnnounceNow, TimedOut, Return, Leave
  <2>3. Tail(todo[t]) \in Plans /\ ~Begins(Tail(todo[t]))
    BY <2>1, InsideFacts
  <2>4. /\ BrowserBacked' /\ BrowsingStops'
        /\ \A u \in Threads : Begins(todo[u]) /\ object[u] \notin raced
                            => ~browser'[object[u]]
    BY <2>2, SameBrowsers
  <2> QED
    BY <1>0, <2>2, <2>3, <2>4, LeaveInv DEF TypeOK
<1>4. ASSUME NEW t \in Threads, Begun(t) PROVE Inv'
  <2>1. /\ Tail(todo[t]) \in Plans /\ ~Begins(Tail(todo[t])) /\ object[t] \in Objects
        /\ Begins(todo[t])
    BY <1>4, InsideFacts DEF Begun, Begins
  <2>2. /\ browser' \in [Objects -> BOOLEAN] /\ browsers' \in [Objects -> Nat]
        /\ announcable' \in [Objects -> BOOLEAN] /\ event' \in [Objects -> BOOLEAN]
    BY <1>0, <1>4, <2>1 DEF Begun, TypeOK
  <2>3. BrowserBacked'
    BY <1>0, <1>4, <2>1 DEF Begun, TypeOK, BrowserBacked
  <2>4. object[t] \notin raced => ~browser[object[t]] /\ browsers[object[t]] = 0
    BY <1>0, <2>1 DEF BeginsFresh, BrowsingStops
  <2>5. BrowsingStops'
    <3>1. raced' = raced
      BY <1>4 DEF Begun, Return, Leave
    <3> QED
      BY <1>0, <1>4, <2>1, <2>4, <3>1 DEF Begun, TypeOK, BrowsingStops
  <2>6. ASSUME NEW u \in Threads, u # t, Begins(todo[u]), object[u] \notin raced
        PROVE  ~browser'[object[u]]
    <3>1. object[u] # object[t] /\ ~browser[object[u]] /\ object[u] \in Objects
      BY <1>0, <2>1, <2>6 DEF BeginsFresh, Beginning, TypeOK
    <3> QED
      BY <1>0, <1>4, <2>1, <3>1 DEF Begun, TypeOK
  <2> QED
    BY <1>4, <2>1, <2>2, <2>3, <2>5, <2>6, LeaveInv DEF Begun, Return
<1>5. ASSUME NEW t \in Threads, BeginFailed(t) PROVE Inv'
  <2>1. object[t] \in Objects /\ <<>> \in Plans /\ ~Begins(<<>>) /\ Begins(todo[t])
    BY <1>5, InsideFacts DEF BeginFailed, Plans, Begins
  <2>2. /\ browser' \in [Objects -> BOOLEAN] /\ browsers' \in [Objects -> Nat]
        /\ announcable' \in [Objects -> BOOLEAN] /\ event' \in [Objects -> BOOLEAN]
    BY <1>0, <1>5, <2>1 DEF BeginFailed, TypeOK
  <2>3. BrowserBacked'
    BY <1>0, <1>5, <2>1 DEF BeginFailed, TypeOK, BrowserBacked
  <2>4. object[t] \notin raced => ~browser[object[t]] /\ browsers[object[t]] = 0
    BY <1>0, <2>1 DEF BeginsFresh, BrowsingStops
  <2>5. BrowsingStops'
    <3>1. raced' = raced
      BY <1>5 DEF BeginFailed, Leave
    <3> QED
      BY <1>0, <1>5, <2>1, <2>4, <3>1 DEF BeginFailed, TypeOK, BrowsingStops
  <2>6. ASSUME NEW u \in Threads, u # t, Begins(todo[u]), object[u] \notin raced
        PROVE  ~browser'[object[u]]
    BY <1>0, <1>5, <2>1, <2>6 DEF BeginFailed, BeginsFresh, TypeOK
  <2> QED
    BY <1>5, <2>1, <2>2, <2>3, <2>5, <2>6, LeaveInv DEF BeginFailed
<1>6. ASSUME NEW t \in Threads, Ended(t) PROVE Inv'
  <2>1. /\ Tail(todo[t]) \in Plans /\ ~Begins(Tail(todo[t])) /\ object[t] \in Objects
    BY <1>6, InsideFacts DEF Ended
  <2>2. /\ browser' \in [Objects -> BOOLEAN] /\ browsers' \in [Objects -> Nat]
        /\ announcable' \in [Objects -> BOOLEAN] /\ event' \in [Objects -> BOOLEAN]
    BY <1>0, <1>6, <2>1 DEF Ended, TypeOK, BrowserBacked
  <2>3. BrowserBacked'
    BY <1>0, <1>6, <2>1 DEF Ended, TypeOK, BrowserBacked
  <2>4. BrowsingStops'
    <3>1. raced' = raced
      BY <1>6 DEF Ended, Return, Leave
    <3> QED
      BY <1>0, <1>6, <2>1, <3>1 DEF Ended, TypeOK, BrowsingStops
  <2>5. ASSUME NEW u \in Threads, u # t, Begins(todo[u]), object[u] \notin raced
        PROVE  ~browser'[object[u]]
    BY <1>0, <1>6, <2>1, <2>5 DEF Ended, BeginsFresh, TypeOK
  <2> QED
    BY <1>6, <2>1, <2>2, <2>3, <2>4, <2>5, LeaveInv DEF Ended, Return
<1>7. ASSUME NEW t \in Threads, AnnounceIterate(t) \/ BrowseIterate(t) PROVE Inv'
  <2>1. /\ Tail(todo[t]) \in Plans /\ ~Begins(Tail(todo[t])) /\ object[t] \in Objects
    <3>1. \E s : Inside(t, s)
      BY <1>7 DEF AnnounceIterate, BrowseIterate
    <3> QED
      BY <3>1, InsideFacts
  <2>2. /\ browser' \in [Objects -> BOOLEAN] /\ browsers' \in [Objects -> Nat]
        /\ announcable' \in [Objects -> BOOLEAN] /\ event' \in [Objects -> BOOLEAN]
    BY <1>0, <1>7, <2>1 DEF AnnounceIterate, BrowseIterate, Consume, TypeOK
  <2>3. UNCHANGED <<browser, browsers, object, raced>>
    BY <1>7 DEF AnnounceIterate, BrowseIterate, Return, Leave
  <2>4. /\ BrowserBacked' /\ BrowsingStops'
        /\ \A u \in Threads : Begins(todo[u]) /\ object[u] \notin raced
                            => ~browser'[object[u]]
    BY <2>3, SameBrowsers
  <2>5. CASE Return(t)
    BY <2>1, <2>2, <2>4, <2>5, LeaveInv DEF Return
  <2>6. CASE UNCHANGED <<mutex, object, todo, timeout, calls, raced>>
    BY <1>0, <2>2, <2>3, <2>4, <2>6 DEF Inv, TypeOK, HolderIsBusy, BeginsFresh, Beginning
  <2> QED
    BY <1>7, <2>5, <2>6 DEF AnnounceIterate, BrowseIterate
<1>8. ASSUME NEW o \in Objects, Arrives(o) PROVE Inv'
  BY <1>8 DEF Arrives, Inv, TypeOK, HolderIsBusy, BrowserBacked, BrowsingStops,
     BeginsFresh, Beginning
<1>9. CASE UNCHANGED vars
  BY <1>9 DEF vars, Inv, TypeOK, HolderIsBusy, BrowserBacked, BrowsingStops, BeginsFresh,
     Beginning
<1> QED
  BY <1>1, <1>2, <1>3, <1>4, <1>5, <1>6, <1>7, <1>8, <1>9 DEF Next, Section, Finished

(* The types, and that _browser of the Avahi backend is not null only while *)
(* the library has a browser: threads that share an object and all pass    *)
(* the test before the mutex cannot make endBrowsing() free what is not    *)
(* there.                                                                  *)
THEOREM BrowserBackedAlways == Spec => [](TypeOK /\ BrowserBacked)
<1>1. Inv => TypeOK /\ BrowserBacked
  BY DEF Inv
<1> QED
  BY <1>1, InitInv, NextInv, PTL DEF Spec

(* Threads that share objects leave no browser behind that endBrowsing()   *)
(* cannot free, unless two of them were between the look and the lock of   *)
(* beginBrowsing() of one object at the same time: the test before the     *)
(* mutex is otherwise as good as one under it.                             *)
THEOREM EveryBrowsingStops == Spec => []BrowsingStops
<1>1. Inv => BrowsingStops
  BY DEF Inv
<1> QED
  BY <1>1, InitInv, NextInv, PTL DEF Spec
=============================================================================
