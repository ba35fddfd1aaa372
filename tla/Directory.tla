----------------------------- MODULE Directory -----------------------------
(***************************************************************************)
(* What the Servus API promises about announcing and browsing, without the *)
(* machinery of a backend (servus/servus.h): every Servus object can       *)
(* announce itself under one instance name at a time, and browse() gives a *)
(* browser the names announced at ONE moment of the call: never a mixture  *)
(* of two moments, never a name that was not announced.                    *)
(***************************************************************************)
CONSTANTS Objects,  \* Servus objects of the process
          Names,    \* instance names
          NoName    \* "not announced"

VARIABLES published,  \* published[o]: the name o is announced under, or NoName
          view        \* view[o]: what getInstances() of o returns

vars == <<published, view>>

Announced == {published[o] : o \in Objects} \ {NoName}

Init == /\ published = [o \in Objects |-> NoName]
        /\ view = [o \in Objects |-> {}]

Announce(o, n) == /\ published' = [published EXCEPT ![o] = n]
                  /\ UNCHANGED view

Withdraw(o) == /\ published' = [published EXCEPT ![o] = NoName]
               /\ UNCHANGED view

Browse(o) == /\ view' = [view EXCEPT ![o] = Announced]
             /\ UNCHANGED published

\* The destructor withdraws; a new object at the same address knows nothing.
Destroy(o) == /\ published' = [published EXCEPT ![o] = NoName]
              /\ view' = [view EXCEPT ![o] = {}]

Next == \E o \in Objects : \/ \E n \in Names : Announce(o, n)
                           \/ Withdraw(o)
                           \/ Browse(o)
                           \/ Destroy(o)

Spec == Init /\ [][Next]_vars
=============================================================================
