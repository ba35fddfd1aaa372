---------------------------- MODULE Serializable ----------------------------
(***************************************************************************)
(* servus::Serializable (src/servus/serializable.{h,cpp}): an object that  *)
(* points to a Serializable::Impl with its two callbacks.  The subclass    *)
(* decides whether a conversion succeeds, fails or throws; the data is     *)
(* left out.  An object that was moved from has no Impl: only destroying   *)
(* it and moving are defined for it, and clients do nothing else with it.  *)
(***************************************************************************)
CONSTANTS Objects, Callbacks, None,
          Impls,      \* addresses in the heap
          Null,       \* the null pointer
          Absent      \* there is no object

ASSUME CallbacksAssumption == None \notin Callbacks
ASSUME PointersAssumption == {Null, Absent} \cap Impls = {} /\ Null # Absent
ASSUME HeldAssumption ==
  {Null, Absent} \cap [{"deserialized", "serialize"} -> Callbacks \cup {None}] = {}

VARIABLES
  impl,      \* impl[o]: _impl of the object at o, Null, or Absent
  heap,      \* the Impls that are allocated: address to callbacks
  called     \* the callback that the last operation called, or None

vars == <<impl, heap, called>>

Events == {"deserialized", "serialize"}

NoCallbacks == [e \in Events |-> None]

Set(a, callbacks) ==
  [b \in DOMAIN heap \cup {a} |-> IF b = a THEN callbacks ELSE heap[b]]

Usable(o) == impl[o] \in Impls

\* new Serializable::Impl: an address that is free.
New(o, callbacks) ==
  \E a \in Impls \ DOMAIN heap :
    /\ heap' = Set(a, callbacks)
    /\ impl' = [impl EXCEPT ![o] = a]

Init ==
  /\ impl = [o \in Objects |-> Absent]
  /\ heap = [a \in {} |-> NoCallbacks]
  /\ called = None

Construct(o) ==
  /\ impl[o] = Absent
  /\ New(o, NoCallbacks)
  /\ called' = None

\* ~Serializable: delete of a null pointer does nothing.
Destroy(o) ==
  /\ impl[o] # Absent
  /\ heap' = [a \in DOMAIN heap \ {impl[o]} |-> heap[a]]
  /\ impl' = [impl EXCEPT ![o] = Absent]
  /\ called' = None

\* The copy takes the pointer (mutant).
CopyConstructShallow(o, rhs) ==
  /\ impl[o] = Absent
  /\ Usable(rhs)
  /\ impl' = [impl EXCEPT ![o] = impl[rhs]]
  /\ UNCHANGED heap
  /\ called' = None

CopyConstruct(o, rhs) ==
  /\ impl[o] = Absent
  /\ Usable(rhs)
  /\ New(o, heap[impl[rhs]])
  /\ called' = None

\* operator=(const Serializable&); assigning an object to itself does nothing.
Assign(o, rhs) ==
  /\ Usable(o) /\ Usable(rhs)
  /\ heap' = Set(impl[o], heap[impl[rhs]])
  /\ UNCHANGED impl
  /\ called' = None

MoveConstruct(o, rhs) ==
  /\ impl[o] = Absent
  /\ impl[rhs] # Absent
  /\ impl' = [impl EXCEPT ![o] = impl[rhs], ![rhs] = Null]
  /\ UNCHANGED heap
  /\ called' = None

\* operator=(Serializable&&) swaps, also when rhs is the object itself.
MoveAssign(o, rhs) ==
  /\ Absent \notin {impl[o], impl[rhs]}
  /\ impl' = [impl EXCEPT ![o] = impl[rhs], ![rhs] = impl[o]]
  /\ UNCHANGED heap
  /\ called' = None

\* A second callback takes the place of the first (mutant).
RegisterReplace(o, event, callback) ==
  /\ Usable(o)
  /\ heap' = Set(impl[o], [heap[impl[o]] EXCEPT ![event] = callback])
  /\ UNCHANGED impl
  /\ called' = None

\* registerDeserializedCallback, registerSerializeCallback; the exception for
\* a second callback leaves everything as it is.
Register(o, event, callback) ==
  /\ Usable(o)
  /\ heap' = IF heap[impl[o]][event] # None /\ callback # None THEN heap
             ELSE Set(impl[o], [heap[impl[o]] EXCEPT ![event] = callback])
  /\ UNCHANGED impl
  /\ called' = None

\* fromBinary and fromJSON: the subclass is asked first, and the callback is
\* called only if it succeeds.
Deserialize(o, success) ==
  /\ Usable(o)
  /\ called' = IF success THEN heap[impl[o]]["deserialized"] ELSE None
  /\ UNCHANGED <<impl, heap>>

\* toBinary and toJSON: the callback is called first; the subclass may throw.
Serialize(o) ==
  /\ Usable(o)
  /\ called' = heap[impl[o]]["serialize"]
  /\ UNCHANGED <<impl, heap>>

Next ==
  \E o \in Objects :
    \/ Construct(o) \/ Destroy(o) \/ Serialize(o)
    \/ \E success \in BOOLEAN : Deserialize(o, success)
    \/ \E event \in Events, callback \in Callbacks \cup {None} :
         Register(o, event, callback)
    \/ \E rhs \in Objects : \/ CopyConstruct(o, rhs) \/ Assign(o, rhs)
                            \/ MoveConstruct(o, rhs) \/ MoveAssign(o, rhs)

Spec == Init /\ [][Next]_vars
-----------------------------------------------------------------------------
\* Type invariant.
TypeOK ==
  /\ impl \in [Objects -> Impls \cup {Null, Absent}]
  /\ DOMAIN heap \subseteq Impls
  /\ heap \in [DOMAIN heap -> [Events -> Callbacks \cup {None}]]
  /\ called \in Callbacks \cup {None}

\* Every Impl in the heap belongs to exactly one object, and the Impl an
\* object points to is in the heap: copies, moves and swaps neither leak one
\* nor lead to a second delete.
OwnedOnce ==
  /\ \A a \in DOMAIN heap : \E o \in Objects : impl[o] = a
  /\ \A o \in Objects : Usable(o) =>
       /\ impl[o] \in DOMAIN heap
       /\ \A p \in Objects : impl[p] = impl[o] => p = o

\* The callbacks an object holds by way of its pointer.
Holds == [o \in Objects |-> IF Usable(o) THEN heap[impl[o]] ELSE impl[o]]

Values == INSTANCE Notifier WITH Moved <- Null, holds <- Holds

\* The pointers are invisible: whatever is copied, moved and registered, an
\* object behaves as if it held its callbacks itself.
RefinesNotifier == Values!Spec
=============================================================================
