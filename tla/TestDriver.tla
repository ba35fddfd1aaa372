----------------------------- MODULE TestDriver -----------------------------
(***************************************************************************)
(* The in-process backend servus::test::Servus (servus/test/servus.h) with *)
(* the parts of Servus::Impl it inherits (servus/servus.cpp).  All objects *)
(* of the process meet in one global _directory, a set of object pointers  *)
(* guarded by a mutex.                                                     *)
(*                                                                         *)
(* Every object belongs to one thread, which makes its calls one after the *)
(* other; threads interleave.  announce(), withdraw() and ~Servus() hold   *)
(* the mutex from start to end and are one step.  browse() holds it too,   *)
(* but set() does not take it, so browse() is split where set() can meet   *)
(* it: acquire, one copy per announced object, one step per notification,  *)
(* release.  Listener callbacks run inside browse(), under the mutex.      *)
(*                                                                         *)
(* An object is named by its address: std::set<Servus*> is ordered by      *)
(* address, and a new object can get the address of a destroyed one.       *)
(* The port is stored and never read, so it is left out.                   *)
(***************************************************************************)
EXTENDS Naturals

CONSTANTS Objects,    \* addresses of test::Servus objects
          Browsers,   \* the objects whose threads browse
          Listeners,
          Names,      \* instance names
          Hostname,   \* what getHostname() returns
          Empty,      \* the empty string
          Data,       \* values of the whole _data map
          NoData,     \* the empty map of a new object
          Torn,       \* what a copy that races with set() may read
          NoEntry,    \* the name is not a key of _instanceMap
          Free        \* nobody holds the mutex

ASSUME ObjectsAssumption == Objects \subseteq Nat /\ Browsers \subseteq Objects
ASSUME NamesAssumption == Hostname \in Names /\ Empty \notin Names
ASSUME DataAssumption == NoData \in Data /\ Torn \notin Data
                         /\ NoEntry \notin Data \cup {Torn}
ASSUME FreeAssumption == Free \notin Objects

VARIABLES
  alive,      \* alive[o]: an object lives at address o
  name,       \* _instance
  announced,  \* _announced
  browsing,   \* _browsing
  data,       \* _data
  known,      \* _instances: the addresses already reported to listeners
  imap,       \* _instanceMap, NoEntry for a name that is not a key
  listeners,  \* _listeners
  instances,  \* _directory.instances
  mutex,      \* owner of _directory.mutex, or Free
  pc,         \* where the thread of the object is
  todo,       \* objects browse() has still to copy
  diff,       \* objects browse() has still to report
  ending,     \* the browse() in progress is discover()'s, which ends browsing
  \* what the callbacks said, which the code does not keep
  heard,      \* heard[b][o]: the name o's arrival was last reported under, Empty
              \* before that, after its departure was reported and when _instances
              \* is cleared
  again       \* again[b]: reported objects that called announce() since

api    == <<alive, name, announced, instances>>
local  == <<browsing, known, imap, todo, diff, ending>>
story  == <<heard, again>>
vars   == <<api, local, listeners, story, data, mutex, pc>>

Entries   == Data \cup {Torn}
Locations == {"idle", "set", "lock", "copy", "notify"}

TypeOK ==
  /\ alive \in [Objects -> BOOLEAN]
  /\ name \in [Objects -> Names \cup {Empty}]
  /\ announced \in [Objects -> BOOLEAN]
  /\ browsing \in [Objects -> BOOLEAN]
  /\ data \in [Objects -> Data]
  /\ known \in [Objects -> SUBSET Objects]
  /\ imap \in [Objects -> [Names -> Entries \cup {NoEntry}]]
  /\ listeners \in [Objects -> SUBSET Listeners]
  /\ instances \in SUBSET Objects
  /\ mutex \in Objects \cup {Free}
  /\ pc \in [Objects -> Locations]
  /\ todo \in [Objects -> SUBSET Objects]
  /\ diff \in [Objects -> SUBSET Objects]
  /\ ending \in [Objects -> BOOLEAN]
  /\ heard \in [Objects -> [Objects -> Names \cup {Empty}]]
  /\ again \in [Objects -> SUBSET Objects]

NoInstances == [n \in Names |-> NoEntry]

Silence == [o \in Objects |-> Empty]

\* _instances of b is cleared: every announced object will be reported anew.
Forget(b) == /\ heard' = [heard EXCEPT ![b] = Silence]
             /\ again' = [again EXCEPT ![b] = {}]

\* getInstances(): the keys of _instanceMap.
Instances(b) == {n \in Names : imap[b][n] # NoEntry}

AnnouncedNames == {name[i] : i \in instances}

\* The iteration order of std::set<Servus*>.
IsFirst(i, S) == i \in S /\ \A j \in S : i <= j

SymmetricDifference(S, T) == (S \ T) \cup (T \ S)

\* The memory of a destroyed object may hold anything when it is read.
ReadName(i) == IF alive[i] THEN {name[i]} ELSE Names \cup {Empty}

\* set() modifies the map without the mutex: a copy made meanwhile is torn.
ReadData(i) == IF pc[i] = "set" THEN Entries ELSE {data[i]}

Init ==
  /\ alive = [o \in Objects |-> FALSE]
  /\ name = [o \in Objects |-> Empty]
  /\ announced = [o \in Objects |-> FALSE]
  /\ browsing = [o \in Objects |-> FALSE]
  /\ data = [o \in Objects |-> NoData]
  /\ known = [o \in Objects |-> {}]
  /\ imap = [o \in Objects |-> NoInstances]
  /\ listeners = [o \in Objects |-> {}]
  /\ instances = {}
  /\ mutex = Free
  /\ pc = [o \in Objects |-> "idle"]
  /\ todo = [o \in Objects |-> {}]
  /\ diff = [o \in Objects |-> {}]
  /\ ending = [o \in Objects |-> FALSE]
  /\ heard = [o \in Objects |-> Silence]
  /\ again = [o \in Objects |-> {}]

-----------------------------------------------------------------------------
(* The calls that are one step. *)

Ready(o) == alive[o] /\ pc[o] = "idle"

\* Servus(): every member has its default value.
Create(o) ==
  /\ ~alive[o]
  /\ alive' = [alive EXCEPT ![o] = TRUE]
  /\ UNCHANGED <<name, announced, instances, local, listeners, story, data, mutex, pc>>

Announce(o, instance) ==
  /\ Ready(o) /\ mutex = Free
  /\ name' = [name EXCEPT ![o] = IF instance = Empty THEN Hostname ELSE instance]
  /\ instances' = instances \cup {o}
  /\ announced' = [announced EXCEPT ![o] = TRUE]
  /\ again' = [b \in Objects |-> IF heard[b][o] = Empty THEN again[b]
                                 ELSE again[b] \cup {o}]
  /\ UNCHANGED <<alive, local, listeners, heard, data, mutex, pc>>

Withdraw(o) ==
  /\ Ready(o) /\ mutex = Free
  /\ announced' = [announced EXCEPT ![o] = FALSE]
  /\ instances' = instances \ {o}
  /\ name' = [name EXCEPT ![o] = Empty]
  /\ UNCHANGED <<alive, local, listeners, story, data, mutex, pc>>

\* A destructor that forgets withdraw() (mutant).
DestroyNoWithdraw(o) ==
  /\ Ready(o) /\ mutex = Free
  /\ alive' = [alive EXCEPT ![o] = FALSE]
  /\ name' = [name EXCEPT ![o] = Empty]
  /\ announced' = [announced EXCEPT ![o] = FALSE]
  /\ browsing' = [browsing EXCEPT ![o] = FALSE]
  /\ known' = [known EXCEPT ![o] = {}]
  /\ imap' = [imap EXCEPT ![o] = NoInstances]
  /\ data' = [data EXCEPT ![o] = NoData]
  /\ listeners' = [listeners EXCEPT ![o] = {}]
  /\ Forget(o)
  /\ UNCHANGED <<instances, mutex, pc, todo, diff, ending>>

\* ~Servus(): withdraw(), endBrowsing(), then the members are gone.
Destroy(o) ==
  /\ Ready(o) /\ mutex = Free
  /\ alive' = [alive EXCEPT ![o] = FALSE]
  /\ name' = [name EXCEPT ![o] = Empty]
  /\ announced' = [announced EXCEPT ![o] = FALSE]
  /\ instances' = instances \ {o}
  /\ browsing' = [browsing EXCEPT ![o] = FALSE]
  /\ known' = [known EXCEPT ![o] = {}]
  /\ imap' = [imap EXCEPT ![o] = NoInstances]
  /\ data' = [data EXCEPT ![o] = NoData]
  /\ listeners' = [listeners EXCEPT ![o] = {}]
  /\ Forget(o)
  /\ UNCHANGED <<mutex, pc, todo, diff, ending>>

\* beginBrowsing() when not browsing yet; otherwise it returns PENDING and
\* changes nothing.
BeginBrowsing(b) ==
  /\ Ready(b) /\ ~browsing[b]
  /\ known' = [known EXCEPT ![b] = {}]
  /\ browsing' = [browsing EXCEPT ![b] = TRUE]
  /\ Forget(b)
  /\ UNCHANGED <<api, imap, todo, diff, ending, listeners, data, mutex, pc>>

EndBrowsing(b) ==
  /\ Ready(b)
  /\ browsing' = [browsing EXCEPT ![b] = FALSE]
  /\ known' = [known EXCEPT ![b] = {}]
  /\ Forget(b)
  /\ UNCHANGED <<api, imap, todo, diff, ending, listeners, data, mutex, pc>>

AddListener(b, l) ==
  /\ Ready(b)
  /\ listeners' = [listeners EXCEPT ![b] = @ \cup {l}]
  /\ UNCHANGED <<api, local, story, data, mutex, pc>>

RemoveListener(b, l) ==
  /\ Ready(b)
  /\ listeners' = [listeners EXCEPT ![b] = @ \ {l}]
  /\ UNCHANGED <<api, local, story, data, mutex, pc>>

-----------------------------------------------------------------------------
(* set(): the map is being written, without the mutex, until SetReturn. *)

Set(o, d) ==
  /\ Ready(o)
  /\ data' = [data EXCEPT ![o] = d]
  /\ pc' = [pc EXCEPT ![o] = "set"]
  /\ UNCHANGED <<api, local, listeners, story, mutex>>

SetReturn(o) ==
  /\ pc[o] = "set"
  /\ pc' = [pc EXCEPT ![o] = "idle"]
  /\ UNCHANGED <<api, local, listeners, story, data, mutex>>

-----------------------------------------------------------------------------
(* browse(), called on its own or by discover(). *)

Browse(b) ==
  /\ Ready(b)
  /\ pc' = [pc EXCEPT ![b] = "lock"]
  /\ ending' = [ending EXCEPT ![b] = FALSE]
  /\ UNCHANGED <<api, browsing, known, imap, todo, diff, listeners, story, data, mutex>>

\* discover() begins browsing if the object is not browsing (SUCCESS), and
\* then also ends it; beginBrowsing() of a browsing object returns PENDING.
Discover(b) ==
  /\ Ready(b)
  /\ pc' = [pc EXCEPT ![b] = "lock"]
  /\ ending' = [ending EXCEPT ![b] = ~browsing[b]]
  /\ known' = [known EXCEPT ![b] = IF browsing[b] THEN @ ELSE {}]
  /\ browsing' = [browsing EXCEPT ![b] = TRUE]
  /\ IF browsing[b] THEN UNCHANGED story ELSE Forget(b)
  /\ UNCHANGED <<api, imap, todo, diff, listeners, data, mutex>>

\* Acquire without the _instanceMap.clear() (mutant).
AcquireKeepMap(b) ==
  /\ pc[b] = "lock" /\ mutex = Free
  /\ mutex' = b
  /\ diff' = [diff EXCEPT ![b] = SymmetricDifference(instances, known[b])]
  /\ todo' = [todo EXCEPT ![b] = instances]
  /\ pc' = [pc EXCEPT ![b] = "copy"]
  /\ UNCHANGED <<api, browsing, known, imap, ending, listeners, story, data>>

\* Acquire that copies only what listeners were not told of yet (mutant).
AcquireNewOnly(b) ==
  /\ pc[b] = "lock" /\ mutex = Free
  /\ mutex' = b
  /\ diff' = [diff EXCEPT ![b] = SymmetricDifference(instances, known[b])]
  /\ imap' = [imap EXCEPT ![b] = NoInstances]
  /\ todo' = [todo EXCEPT ![b] = instances \ known[b]]
  /\ pc' = [pc EXCEPT ![b] = "copy"]
  /\ UNCHANGED <<api, browsing, known, ending, listeners, story, data>>

\* Acquire that reports before it copies (mutant).
AcquireNotifyFirst(b) ==
  /\ pc[b] = "lock" /\ mutex = Free
  /\ mutex' = b
  /\ diff' = [diff EXCEPT ![b] = SymmetricDifference(instances, known[b])]
  /\ imap' = [imap EXCEPT ![b] = NoInstances]
  /\ todo' = [todo EXCEPT ![b] = instances]
  /\ pc' = [pc EXCEPT ![b] = "notify"]
  /\ UNCHANGED <<api, browsing, known, ending, listeners, story, data>>

\* Take the mutex, compute the difference, clear _instanceMap.
Acquire(b) ==
  /\ pc[b] = "lock" /\ mutex = Free
  /\ mutex' = b
  /\ diff' = [diff EXCEPT ![b] = SymmetricDifference(instances, known[b])]
  /\ imap' = [imap EXCEPT ![b] = NoInstances]
  /\ todo' = [todo EXCEPT ![b] = instances]
  /\ pc' = [pc EXCEPT ![b] = "copy"]
  /\ UNCHANGED <<api, browsing, known, ending, listeners, story, data>>

\* One round of the loop over _directory.instances.
CopyInstance(b) ==
  /\ pc[b] = "copy"
  /\ \E i \in todo[b] :
       /\ IsFirst(i, todo[b])
       /\ \E d \in ReadData(i) : imap' = [imap EXCEPT ![b][name[i]] = d]
       /\ todo' = [todo EXCEPT ![b] = @ \ {i}]
  /\ UNCHANGED <<api, browsing, known, diff, ending, listeners, story, data, mutex,
                 pc>>

CopyDone(b) ==
  /\ pc[b] = "copy" /\ todo[b] = {}
  /\ pc' = [pc EXCEPT ![b] = "notify"]
  /\ UNCHANGED <<api, local, listeners, story, data, mutex>>

\* The listeners that b has had since it began to report were told of object i.
Told(b, i, n) == /\ heard' = [heard EXCEPT ![b][i] = n]
                 /\ again' = [again EXCEPT ![b] = @ \ {i}]

NotifyAdded(b) ==
  /\ pc[b] = "notify"
  /\ \E i \in diff[b] \ known[b] :
       /\ IsFirst(i, diff[b])
       /\ known' = [known EXCEPT ![b] = @ \cup {i}]
       /\ Told(b, i, name[i])
       /\ diff' = [diff EXCEPT ![b] = @ \ {i}]
  /\ UNCHANGED <<api, browsing, imap, todo, ending, listeners, data, mutex, pc>>

\* A removal that is reported but not remembered (mutant).
NotifyRemovedKeep(b, n) ==
  /\ pc[b] = "notify"
  /\ \E i \in diff[b] \cap known[b] :
       /\ IsFirst(i, diff[b])
       /\ n \in ReadName(i)
       /\ Told(b, i, Empty)
       /\ diff' = [diff EXCEPT ![b] = @ \ {i}]
  /\ UNCHANGED <<api, browsing, known, imap, todo, ending, listeners, data, mutex, pc>>

\* instanceRemoved(n) is called while the object is still in _instances.
NotifyRemoved(b, n) ==
  /\ pc[b] = "notify"
  /\ \E i \in diff[b] \cap known[b] :
       /\ IsFirst(i, diff[b])
       /\ n \in ReadName(i)
       /\ Told(b, i, Empty)
       /\ known' = [known EXCEPT ![b] = @ \ {i}]
       /\ diff' = [diff EXCEPT ![b] = @ \ {i}]
  /\ UNCHANGED <<api, browsing, imap, todo, ending, listeners, data, mutex, pc>>

\* browse() returns and unlocks; discover() then ends browsing if it began it.
Release(b) ==
  /\ pc[b] = "notify" /\ diff[b] = {}
  /\ mutex' = Free
  /\ pc' = [pc EXCEPT ![b] = "idle"]
  /\ ending' = [ending EXCEPT ![b] = FALSE]
  /\ known' = [known EXCEPT ![b] = IF ending[b] THEN {} ELSE @]
  /\ browsing' = [browsing EXCEPT ![b] = @ /\ ~ending[b]]
  /\ IF ending[b] THEN Forget(b) ELSE UNCHANGED story
  /\ UNCHANGED <<api, imap, todo, diff, listeners, data>>

-----------------------------------------------------------------------------
Call(o) ==
  \/ Create(o)
  \/ \E instance \in Names \cup {Empty} : Announce(o, instance)
  \/ Withdraw(o)
  \/ Destroy(o)
  \/ \E d \in Data : Set(o, d)

BrowserCall(b) ==
  \/ BeginBrowsing(b)
  \/ EndBrowsing(b)
  \/ \E l \in Listeners : AddListener(b, l) \/ RemoveListener(b, l)
  \/ Discover(b)

\* The rest of a browse() that has been called.
BrowseStep(b) ==
  \/ Acquire(b)
  \/ CopyInstance(b)
  \/ CopyDone(b)
  \/ NotifyAdded(b)
  \/ \E n \in Names \cup {Empty} : NotifyRemoved(b, n)
  \/ Release(b)

\* Steps that no application decision can hold back: a call under way goes
\* on, and a polling browser (as qt::ItemModel's timer) calls browse() again.
Progress == \/ \E b \in Browsers : Browse(b) \/ BrowseStep(b)
            \/ \E o \in Objects : SetReturn(o)

Next == \/ \E o \in Objects : Call(o)
        \/ \E b \in Browsers : BrowserCall(b)
        \/ Progress

Spec == Init /\ [][Next]_vars

Fairness == /\ \A o \in Objects : WF_vars(SetReturn(o))
            /\ \A b \in Browsers : WF_vars(BrowseStep(b)) /\ WF_vars(Browse(b))

FairSpec == Spec /\ Fairness

-----------------------------------------------------------------------------
(* Safety. *)

(* browse() dereferences every pointer of _directory: each one must be a   *)
(* living, named object, and isAnnounced() tells exactly who is there.     *)
DirectorySound ==
  /\ instances = {o \in Objects : announced[o]}
  /\ \A o \in instances : alive[o] /\ name[o] # Empty

(* The mutex is held by the thread inside browse()'s critical section.     *)
MutexHeld == \A b \in Objects : pc[b] \in {"copy", "notify"} <=> mutex = b

(* What browse() has copied so far is exactly the announced objects it has *)
(* passed; when it starts reporting, it has them all and nothing else.     *)
BrowsePicture ==
  \A b \in Browsers :
    /\ pc[b] = "copy" =>
         /\ todo[b] \subseteq instances
         /\ Instances(b) = {name[i] : i \in instances \ todo[b]}
    /\ pc[b] = "notify" => Instances(b) = AnnouncedNames

(* A listener that is told of an instance inside browse() can already read *)
(* the instance from the browser: the map is filled before any callback.   *)
CallbackSeesInstance ==
  \A b \in Browsers :
    pc[b] = "notify" =>
      \A i \in diff[b] \ known[b] : name[i] \in Instances(b)

Published == [o \in Objects |-> IF o \in instances THEN name[o] ELSE Empty]

(* When browse() comes to its end, the listeners it has had since browsing *)
(* began have heard of every announced object, under the name it is        *)
(* announced with, and no more of any other: no arrival and no departure   *)
(* was missed or taken back.  The one exception is an object that called   *)
(* announce() again after it was reported, or whose address another        *)
(* announced object has got: the diff goes by address and has nothing to   *)
(* say of a new name.                                                      *)
ListenersUpToDate ==
  \A b \in Browsers :
    pc[b] = "notify" /\ diff[b] = {} =>
      \A o \in Objects :
        heard[b][o] = Published[o] \/ (o \in again[b] /\ o \in instances)

-----------------------------------------------------------------------------
(* Refinement: the abstract directory.  A browse takes effect at Acquire;  *)
(* while it copies, its own thread cannot read the map.                    *)
View == [o \in Objects |-> IF pc[o] = "copy" THEN AnnouncedNames ELSE Instances(o)]

Abstract == INSTANCE Directory WITH NoName <- Empty, published <- Published,
                                    view <- View

(* Each browse() gives the names announced at one moment of the call.      *)
RefinesDirectory == Abstract!Spec

Accurate(b) ==
  /\ Instances(b) = AnnouncedNames
  /\ \A n \in AnnouncedNames :
       imap[b][n] \in {data[i] : i \in {j \in instances : name[j] = n}}

(* Liveness.  When the applications stop announcing, setting and browsing  *)
(* anew, a browser that keeps polling ends with exactly what is announced, each    *)
(* name with the data of an object announced under it.                     *)
EventuallyAccurate ==
  <>[][Progress]_vars =>
     \A b \in Browsers : <>[](alive[b] /\ pc[b] # "copy" => Accurate(b))

(* A statement of the documentation that the code does not keep. *)

(* Listener::instanceRemoved is given "the name of the instance that was   *)
(* removed", never the empty string, which no announced instance has.      *)
RemovedHasName ==
  [][\A b \in Browsers : NotifyRemoved(b, Empty) => listeners[b] = {}]_vars
=============================================================================
