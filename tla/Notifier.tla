------------------------------ MODULE Notifier ------------------------------
(***************************************************************************)
(* What the callbacks of servus::Serializable promise to their users       *)
(* (src/servus/serializable.h): each object holds at most one callback per *)
(* event, as a value of its own.                                           *)
(***************************************************************************)
CONSTANTS Objects,    \* places that hold a Serializable
          Callbacks,
          None,       \* no callback: an empty std::function
          Absent,     \* there is no object
          Moved       \* an object that gave its callbacks away

VARIABLES holds,      \* holds[o]: the callbacks of o, by event
          called      \* the callback that the last operation called

Events == {"deserialized", "serialize"}

Held == [Events -> Callbacks \cup {None}]

vars == <<holds, called>>

Init == holds = [o \in Objects |-> Absent] /\ called = None

Quiet == called' = None

Create(o) ==
  /\ holds[o] = Absent
  /\ holds' = [holds EXCEPT ![o] = [e \in Events |-> None]]
  /\ Quiet

Destroy(o) ==
  /\ holds[o] # Absent
  /\ holds' = [holds EXCEPT ![o] = Absent]
  /\ Quiet

\* Copy construction and assignment.
Copy(o, rhs) ==
  /\ o # rhs
  /\ holds[o] # Moved
  /\ holds[rhs] \in Held
  /\ holds' = [holds EXCEPT ![o] = holds[rhs]]
  /\ Quiet

MoveConstruct(o, rhs) ==
  /\ holds[o] = Absent
  /\ holds[rhs] # Absent
  /\ holds' = [holds EXCEPT ![o] = holds[rhs], ![rhs] = Moved]
  /\ Quiet

\* The two objects exchange what they hold.
MoveAssign(o, rhs) ==
  /\ Absent \notin {holds[o], holds[rhs]}
  /\ holds' = [holds EXCEPT ![o] = holds[rhs], ![rhs] = holds[o]]
  /\ Quiet

\* A second callback for an event is refused.
Register(o, event, callback) ==
  /\ holds[o] \in Held
  /\ holds[o][event] = None \/ callback = None
  /\ holds' = [holds EXCEPT ![o][event] = callback]
  /\ Quiet

Notify(o, event) ==
  /\ holds[o] \in Held
  /\ called' = holds[o][event]
  /\ UNCHANGED holds

\* An operation that calls nothing: one that throws or fails.
Fail == UNCHANGED holds /\ Quiet

Next ==
  \/ \E o \in Objects :
       \/ Create(o) \/ Destroy(o)
       \/ \E rhs \in Objects :
            Copy(o, rhs) \/ MoveConstruct(o, rhs) \/ MoveAssign(o, rhs)
       \/ \E event \in Events : Notify(o, event)
       \/ \E event \in Events, callback \in Callbacks \cup {None} :
            Register(o, event, callback)
  \/ Fail

Spec == Init /\ [][Next]_vars
=============================================================================
