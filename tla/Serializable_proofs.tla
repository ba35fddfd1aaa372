------------------------ MODULE Serializable_proofs ------------------------
(***************************************************************************)
(* Serializable, for any number of objects and callbacks and any heap:     *)
(* every Impl has one owner, and objects behave as the values of Notifier. *)
(***************************************************************************)
EXTENDS Serializable, TLAPS

Inv == TypeOK /\ OwnedOnce

\* What Set() makes of a heap.
LEMMA SetType ==
  ASSUME TypeOK, NEW a \in Impls, NEW c \in [Events -> Callbacks \cup {None}]
  PROVE  /\ DOMAIN Set(a, c) = DOMAIN heap \cup {a}
         /\ DOMAIN Set(a, c) \subseteq Impls
         /\ Set(a, c) \in [DOMAIN Set(a, c) -> [Events -> Callbacks \cup {None}]]
         /\ Set(a, c)[a] = c
         /\ \A b \in DOMAIN heap \ {a} : Set(a, c)[b] = heap[b]
BY DEF Set, TypeOK

\* An object without callbacks is one of those that hold callbacks.
LEMMA NoCallbacksType == NoCallbacks \in [Events -> Callbacks \cup {None}]
BY DEF NoCallbacks

\* The Impl of a usable object holds callbacks.
LEMMA HeldType ==
  ASSUME Inv, NEW o \in Objects, Usable(o)
  PROVE  /\ impl[o] \in DOMAIN heap
         /\ impl[o] \in Impls
         /\ heap[impl[o]] \in [Events -> Callbacks \cup {None}]
BY DEF Inv, TypeOK, OwnedOnce, Usable

\* A new Impl goes to a place where there was no object.
LEMMA NewStep ==
  ASSUME Inv, NEW o \in Objects, NEW c \in [Events -> Callbacks \cup {None}],
         impl[o] = Absent, New(o, c), called' = None
  PROVE  Inv'
<1>1. PICK a \in Impls \ DOMAIN heap :
        heap' = Set(a, c) /\ impl' = [impl EXCEPT ![o] = a]
  BY DEF New
<1>2. TypeOK'
  BY <1>1, SetType DEF Inv, TypeOK
<1>3. /\ DOMAIN heap' = DOMAIN heap \cup {a}
      /\ impl'[o] = a
      /\ \A p \in Objects \ {o} : impl'[p] = impl[p]
  BY <1>1, SetType DEF Inv, TypeOK
<1>4. OwnedOnce'
  BY <1>1, <1>3, PointersAssumption DEF Inv, TypeOK, OwnedOnce, Usable
<1> QED BY <1>2, <1>4 DEF Inv

\* A step that writes into the Impl of a usable object.
LEMMA WriteStep ==
  ASSUME Inv, NEW o \in Objects, Usable(o),
         NEW c \in [Events -> Callbacks \cup {None}],
         heap' = Set(impl[o], c), UNCHANGED impl, called' = None
  PROVE  Inv'
<1>0. impl[o] \in DOMAIN heap /\ impl[o] \in Impls
  BY HeldType
<1>1. DOMAIN heap' = DOMAIN heap \cup {impl[o]}
  BY <1>0, SetType DEF Inv
<1>2. TypeOK'
  BY <1>0, SetType DEF Inv, TypeOK
<1> QED BY <1>0, <1>1, <1>2 DEF Inv, OwnedOnce, Usable

\* A step that changes no pointer and no Impl.
LEMMA QuietStep ==
  ASSUME Inv, UNCHANGED <<impl, heap>>, called' \in Callbacks \cup {None}
  PROVE  Inv'
BY DEF Inv, TypeOK, OwnedOnce, Usable

\* Register() writes callbacks.
LEMMA RegisterType ==
  ASSUME Inv, NEW o \in Objects, Usable(o), NEW e \in Events,
         NEW c \in Callbacks \cup {None}
  PROVE  [heap[impl[o]] EXCEPT ![e] = c] \in [Events -> Callbacks \cup {None}]
BY HeldType

\* No step makes an Impl shared, lost or freed while it is in use.
LEMMA Step == Inv /\ [Next]_vars => Inv'
<1> SUFFICES ASSUME Inv, [Next]_vars PROVE Inv'
  OBVIOUS
<1>1. ASSUME NEW o \in Objects, Construct(o) PROVE Inv'
  BY <1>1, NewStep, NoCallbacksType DEF Construct
<1>2. ASSUME NEW o \in Objects, Destroy(o) PROVE Inv'
  <2>1. /\ DOMAIN heap' = DOMAIN heap \ {impl[o]}
        /\ \A a \in DOMAIN heap' : heap'[a] = heap[a]
        /\ heap' = [a \in DOMAIN heap' |-> heap'[a]]
    BY <1>2 DEF Destroy
  <2>2. TypeOK'
    BY <1>2, <2>1 DEF Destroy, Inv, TypeOK
  <2>3. OwnedOnce'
    BY <1>2, <2>1, PointersAssumption DEF Destroy, Inv, TypeOK, OwnedOnce, Usable
  <2> QED BY <2>2, <2>3 DEF Inv
<1>3. ASSUME NEW o \in Objects, NEW rhs \in Objects, CopyConstruct(o, rhs)
      PROVE  Inv'
  BY <1>3, NewStep, HeldType DEF CopyConstruct
<1>4. ASSUME NEW o \in Objects, NEW rhs \in Objects, Assign(o, rhs)
      PROVE  Inv'
  BY <1>4, WriteStep, HeldType DEF Assign
<1>5. ASSUME NEW o \in Objects, NEW rhs \in Objects, MoveConstruct(o, rhs)
      PROVE  Inv'
  BY <1>5, PointersAssumption DEF MoveConstruct, Inv, TypeOK, OwnedOnce, Usable
<1>6. ASSUME NEW o \in Objects, NEW rhs \in Objects, MoveAssign(o, rhs)
      PROVE  Inv'
  BY <1>6 DEF MoveAssign, Inv, TypeOK, OwnedOnce, Usable
<1>7. ASSUME NEW o \in Objects, NEW e \in Events, NEW c \in Callbacks \cup {None},
             Register(o, e, c)
      PROVE  Inv'
  <2>1. CASE heap' = heap
    BY <1>7, <2>1, QuietStep DEF Register
  <2>2. CASE heap' = Set(impl[o], [heap[impl[o]] EXCEPT ![e] = c])
    BY <1>7, <2>2, WriteStep, RegisterType DEF Register
  <2> QED BY <1>7, <2>1, <2>2 DEF Register
<1>8. ASSUME NEW o \in Objects, NEW success \in BOOLEAN, Deserialize(o, success)
      PROVE  Inv'
  BY <1>8, QuietStep, HeldType DEF Deserialize, Events
<1>9. ASSUME NEW o \in Objects, Serialize(o) PROVE Inv'
  BY <1>9, QuietStep, HeldType DEF Serialize, Events
<1>10. CASE UNCHANGED vars
  BY <1>10, QuietStep DEF vars, Inv, TypeOK
<1> QED
  BY <1>1, <1>2, <1>3, <1>4, <1>5, <1>6, <1>7, <1>8, <1>9, <1>10 DEF Next

\* Every Impl of serializable.cpp has exactly one owner, however objects are
\* copied, moved, swapped and destroyed: none leaks, none is freed twice.
THEOREM Ownership == Spec => []OwnedOnce
<1>1. Init => Inv
  BY PointersAssumption DEF Init, Inv, TypeOK, OwnedOnce, Usable
<1>2. Inv => OwnedOnce
  BY DEF Inv
<1> QED BY <1>1, <1>2, Step, PTL DEF Spec

\* What one object holds.
LEMMA HoldsType ==
  ASSUME Inv
  PROVE  /\ DOMAIN Holds = Objects
         /\ \A o \in Objects :
              /\ Usable(o) => /\ Holds[o] = heap[impl[o]]
                              /\ Holds[o] \in Values!Held
                              /\ Holds[o] \notin {Null, Absent}
              /\ ~Usable(o) => Holds[o] = impl[o] /\ impl[o] \in {Null, Absent}
              /\ Holds[o] = Absent <=> impl[o] = Absent
              /\ Holds[o] \in Values!Held => Usable(o)
BY HeldType, HeldAssumption, PointersAssumption
   DEF Holds, Values!Held, Values!Events, Events, Inv, TypeOK, Usable

\* A new Impl is seen at its object only.
LEMMA NewHolds ==
  ASSUME Inv, NEW o \in Objects, NEW c \in [Events -> Callbacks \cup {None}],
         impl[o] = Absent, New(o, c)
  PROVE  Holds' = [Holds EXCEPT ![o] = c]
<1>1. PICK a \in Impls \ DOMAIN heap :
        heap' = Set(a, c) /\ impl' = [impl EXCEPT ![o] = a]
  BY DEF New
<1>2. /\ heap'[a] = c
      /\ \A b \in DOMAIN heap : heap'[b] = heap[b]
      /\ impl'[o] = a
      /\ \A p \in Objects \ {o} : impl'[p] = impl[p]
  <2>1. heap'[a] = c /\ \A b \in DOMAIN heap \ {a} : heap'[b] = heap[b]
    BY <1>1 DEF Set
  <2>2. impl'[o] = a /\ \A p \in Objects \ {o} : impl'[p] = impl[p]
    BY <1>1 DEF Inv, TypeOK
  <2> QED BY <2>1, <2>2
<1>3. \A p \in Objects \ {o} : Usable(p) => impl[p] \in DOMAIN heap
  BY HeldType
<1>4. Holds'[o] = c
  BY <1>1, <1>2 DEF Holds, Usable
<1>5. \A p \in Objects \ {o} : Holds'[p] = Holds[p]
  BY <1>2, <1>3 DEF Holds, Usable
<1> QED BY <1>4, <1>5 DEF Holds

\* What is written into an Impl is seen at its owner only.
LEMMA WriteHolds ==
  ASSUME Inv, NEW o \in Objects, Usable(o),
         NEW c \in [Events -> Callbacks \cup {None}],
         heap' = Set(impl[o], c), UNCHANGED impl
  PROVE  Holds' = [Holds EXCEPT ![o] = c]
<1>1. /\ heap'[impl[o]] = c
      /\ \A b \in DOMAIN heap \ {impl[o]} : heap'[b] = heap[b]
  BY DEF Set
<1>2. \A p \in Objects \ {o} :
        Usable(p) => impl[p] \in DOMAIN heap /\ impl[p] # impl[o]
  BY DEF Inv, OwnedOnce
<1>3. Holds'[o] = c
  BY <1>1 DEF Holds, Usable
<1>4. \A p \in Objects \ {o} : Holds'[p] = Holds[p]
  BY <1>1, <1>2 DEF Holds, Usable
<1> QED BY <1>3, <1>4 DEF Holds

\* A step that changes no pointer and no Impl changes nothing that is held.
LEMMA QuietHolds ==
  ASSUME UNCHANGED <<impl, heap>>
  PROVE  Holds' = Holds
BY DEF Holds, Usable

\* What is held after a step that only moves pointers.
LEMMA MoveHolds ==
  ASSUME UNCHANGED heap, NEW o \in Objects
  PROVE  /\ Holds'[o] = IF impl'[o] \in Impls THEN heap[impl'[o]] ELSE impl'[o]
         /\ \A p \in Objects : impl'[o] = impl[p] => Holds'[o] = Holds[p]
BY DEF Holds, Usable

\* Every step is one that Notifier allows, or changes nothing it sees.
LEMMA StepRefines == Inv /\ [Next]_vars => [Values!Next]_(Values!vars)
<1> SUFFICES ASSUME Inv, [Next]_vars PROVE [Values!Next]_(Values!vars)
  OBVIOUS
<1> USE DEF Values!Quiet
<1>0. UNCHANGED Holds /\ called' = None => Values!Next
  BY DEF Values!Next, Values!Fail
<1>1. ASSUME NEW o \in Objects, Construct(o) PROVE Values!Create(o)
  <2>1. Holds' = [Holds EXCEPT ![o] = NoCallbacks]
    BY <1>1, NewHolds, NoCallbacksType DEF Construct
  <2> QED BY <1>1, <2>1, HoldsType DEF Construct, Values!Create, NoCallbacks,
             Values!Events, Events
<1>2. ASSUME NEW o \in Objects, Destroy(o) PROVE Values!Destroy(o)
  <2>1. \A p \in Objects \ {o} :
          /\ impl'[p] = impl[p]
          /\ Usable(p) => impl[p] \in DOMAIN heap \ {impl[o]}
    BY <1>2 DEF Destroy, Inv, TypeOK, OwnedOnce, Usable
  <2>2. \A p \in Objects \ {o} : Holds'[p] = Holds[p]
    BY <1>2, <2>1 DEF Destroy, Holds, Usable
  <2>3. Holds'[o] = Absent
    BY <1>2, PointersAssumption DEF Destroy, Holds, Usable, Inv, TypeOK
  <2>4. Holds' = [Holds EXCEPT ![o] = Absent]
    BY <2>2, <2>3 DEF Holds
  <2> QED BY <1>2, <2>4, HoldsType DEF Destroy, Values!Destroy
<1>3. ASSUME NEW o \in Objects, NEW rhs \in Objects, CopyConstruct(o, rhs)
      PROVE  Values!Copy(o, rhs)
  <2>1. Usable(rhs) /\ impl[o] = Absent /\ o # rhs
    BY <1>3, PointersAssumption DEF CopyConstruct, Usable
  <2>2. Holds' = [Holds EXCEPT ![o] = heap[impl[rhs]]]
    BY <1>3, <2>1, NewHolds, HeldType DEF CopyConstruct
  <2> QED BY <1>3, <2>1, <2>2, HoldsType, PointersAssumption
          DEF CopyConstruct, Values!Copy
<1>4. ASSUME NEW o \in Objects, NEW rhs \in Objects, Assign(o, rhs)
      PROVE  Values!Next
  <2>1. Usable(o) /\ Usable(rhs)
    BY <1>4 DEF Assign
  <2>2. Holds' = [Holds EXCEPT ![o] = heap[impl[rhs]]]
    BY <1>4, <2>1, WriteHolds, HeldType DEF Assign
  <2>3. CASE o = rhs
    <3>1. Holds' = Holds
      BY <2>1, <2>2, <2>3, HoldsType DEF Holds
    <3> QED BY <1>0, <1>4, <3>1 DEF Assign
  <2>4. CASE o # rhs
    <3>1. Values!Copy(o, rhs)
      BY <1>4, <2>1, <2>2, <2>4, HoldsType DEF Assign, Values!Copy
    <3> QED BY <3>1 DEF Values!Next
  <2> QED BY <2>3, <2>4
<1>5. ASSUME NEW o \in Objects, NEW rhs \in Objects, MoveConstruct(o, rhs)
      PROVE  Values!MoveConstruct(o, rhs)
  <2>1. o # rhs
    BY <1>5 DEF MoveConstruct
  <2>2. /\ impl'[o] = impl[rhs] /\ impl'[rhs] = Null
        /\ \A p \in Objects \ {o, rhs} : impl'[p] = impl[p]
    BY <1>5, <2>1 DEF MoveConstruct, Inv, TypeOK
  <2>3. /\ Holds'[o] = Holds[rhs] /\ Holds'[rhs] = Null
        /\ \A p \in Objects \ {o, rhs} : Holds'[p] = Holds[p]
    BY <1>5, <2>2, MoveHolds, PointersAssumption DEF MoveConstruct
  <2>4. Holds' = [Holds EXCEPT ![o] = Holds[rhs], ![rhs] = Null]
    BY <2>1, <2>3 DEF Holds
  <2> QED BY <1>5, <2>4, HoldsType DEF MoveConstruct, Values!MoveConstruct
<1>6. ASSUME NEW o \in Objects, NEW rhs \in Objects, MoveAssign(o, rhs)
      PROVE  Values!MoveAssign(o, rhs)
  <2>1. /\ impl'[o] = impl[rhs] /\ impl'[rhs] = impl[o]
        /\ \A p \in Objects \ {o, rhs} : impl'[p] = impl[p]
    BY <1>6 DEF MoveAssign, Inv, TypeOK
  <2>2. /\ Holds'[o] = Holds[rhs] /\ Holds'[rhs] = Holds[o]
        /\ \A p \in Objects \ {o, rhs} : Holds'[p] = Holds[p]
    BY <1>6, <2>1, MoveHolds DEF MoveAssign
  <2>3. Holds' = [Holds EXCEPT ![o] = Holds[rhs], ![rhs] = Holds[o]]
    BY <2>2 DEF Holds
  <2> QED BY <1>6, <2>3, HoldsType DEF MoveAssign, Values!MoveAssign
<1>7. ASSUME NEW o \in Objects, NEW e \in Events, NEW c \in Callbacks \cup {None},
             Register(o, e, c)
      PROVE  Values!Next
  <2>1. CASE heap' = heap
    BY <1>0, <1>7, <2>1, QuietHolds DEF Register
  <2>2. CASE /\ heap' = Set(impl[o], [heap[impl[o]] EXCEPT ![e] = c])
             /\ heap[impl[o]][e] = None \/ c = None
    <3>1. Holds' = [Holds EXCEPT ![o] = [heap[impl[o]] EXCEPT ![e] = c]]
      BY <1>7, <2>2, WriteHolds, RegisterType DEF Register
    <3>2. Values!Register(o, e, c)
      BY <1>7, <2>2, <3>1, HoldsType DEF Register, Values!Register
    <3> QED BY <3>2 DEF Values!Next, Values!Events, Events
  <2> QED BY <1>7, <2>1, <2>2 DEF Register
<1>8. ASSUME NEW o \in Objects, NEW success \in BOOLEAN, Deserialize(o, success)
      PROVE  Values!Next
  <2>1. Holds' = Holds
    BY <1>8, QuietHolds DEF Deserialize
  <2>2. CASE ~success
    BY <1>0, <1>8, <2>1, <2>2 DEF Deserialize
  <2>3. CASE success
    <3>1. Values!Notify(o, "deserialized")
      BY <1>8, <2>1, <2>3, HoldsType DEF Deserialize, Values!Notify
    <3> QED BY <3>1 DEF Values!Next, Values!Events
  <2> QED BY <2>2, <2>3
<1>9. ASSUME NEW o \in Objects, Serialize(o) PROVE Values!Next
  <2>1. Values!Notify(o, "serialize")
    BY <1>9, QuietHolds, HoldsType DEF Serialize, Values!Notify
  <2> QED BY <2>1 DEF Values!Next, Values!Events
<1>10. CASE UNCHANGED vars
  BY <1>10, QuietHolds DEF vars, Values!vars
<1> QED
  BY <1>1, <1>2, <1>3, <1>4, <1>5, <1>6, <1>7, <1>8, <1>9, <1>10
     DEF Next, Values!Next

\* Objects of serializable.cpp, which point to shared memory, behave as the
\* values with callbacks of their own that serializable.h describes.
THEOREM Refinement == Spec => RefinesNotifier
<1>1. Init => Inv
  BY PointersAssumption DEF Init, Inv, TypeOK, OwnedOnce, Usable
<1>2. Init => Values!Init
  BY PointersAssumption DEF Init, Values!Init, Holds, Usable
<1> QED
  BY <1>1, <1>2, Step, StepRefines, PTL DEF Spec, RefinesNotifier, Values!Spec
=============================================================================
