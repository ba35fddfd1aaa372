---------------------------- MODULE Dnssd_proofs ----------------------------
(***************************************************************************)
(* Proofs about the Bonjour backend, for any set of names and errors and   *)
(* any bound on the queue.                                                 *)
(*                                                                         *)
(* The properties are not inductive.  That a call returns its own result   *)
(* needs that no result outlives its call; that the map holds no ghosts    *)
(* needs the order of the replies in the queue: an unread "add" belongs to *)
(* an instance that is still there, or a "remove" follows it.              *)
(***************************************************************************)
EXTENDS Dnssd, TLAPS

\* A removal of n is in queue q, behind position i.
RemoveAfter(q, i, n) ==
  \E j \in 1..Len(q) : j > i /\ q[j] = [kind |-> "remove", name |-> n]

\* An instance that was reported is known, or its removal is still to be read.
Backed(n) == n \in told \/ RemoveAfter(queue, 0, n)

WaitInv ==
  /\ pc = "idle" => result = PENDING
  /\ pc = "announce" => (out <=> result \in {PENDING, SUCCESS})
  /\ pc \in {"browse", "resolve"} => in
  /\ pc = "resolve" => resolver = browsedName /\ browsedName \in Names

QueueInv ==
  \A i \in 1..Len(queue) :
    queue[i].kind = "add" => queue[i].name \in told \/ RemoveAfter(queue, i, queue[i].name)

MapInv ==
  /\ pc = "resolve" => Backed(browsedName)
  /\ in => \A n \in Names : found[n] # Nothing => Backed(n)

IInv == TypeOK /\ WaitInv /\ FiledRight /\ QueueInv /\ MapInv

-----------------------------------------------------------------------------
(* What reading the first reply leaves of a queue. *)
LEMMA TailFacts ==
  ASSUME NEW q \in Seq(Replies), q # <<>>
  PROVE  /\ Tail(q) \in Seq(Replies)
         /\ Head(q) = q[1] /\ Head(q) \in Replies
         /\ Len(q) \in Nat /\ Len(q) >= 1 /\ Len(Tail(q)) = Len(q) - 1
         /\ \A i \in 1..(Len(q) - 1) : Tail(q)[i] = q[i + 1]
  OBVIOUS

(* What a new reply adds to a queue. *)
LEMMA AppendFacts ==
  ASSUME NEW q \in Seq(Replies), NEW r \in Replies
  PROVE  /\ Append(q, r) \in Seq(Replies)
         /\ Len(q) \in Nat /\ Len(Append(q, r)) = Len(q) + 1
         /\ Append(q, r)[Len(q) + 1] = r
         /\ \A i \in 1..Len(q) : Append(q, r)[i] = q[i]
  OBVIOUS

(* A reply in a queue names an instance. *)
LEMMA ReplyFacts ==
  ASSUME NEW q \in Seq(Replies), NEW i \in 1..Len(q)
  PROVE  q[i] \in Replies /\ q[i].name \in Names
<1>1. q[i] \in Replies OBVIOUS
<1> QED BY <1>1 DEF Replies

(* A removal behind another reply stays behind it when the first is read. *)
LEMMA RemoveMovesUp ==
  ASSUME NEW q \in Seq(Replies), q # <<>>, NEW i \in Nat, NEW n \in Names,
         RemoveAfter(q, i + 1, n)
  PROVE  RemoveAfter(Tail(q), i, n)
<1>1. PICK j \in 1..Len(q) : j > i + 1 /\ q[j] = [kind |-> "remove", name |-> n]
  BY DEF RemoveAfter
<1>2. j - 1 \in 1..Len(Tail(q)) /\ Tail(q)[j - 1] = q[j] /\ j - 1 > i
  BY <1>1, TailFacts
<1> QED BY <1>1, <1>2 DEF RemoveAfter

(* A removal that is not the reply that is read stays in the queue. *)
LEMMA RemoveSurvivesTail ==
  ASSUME NEW q \in Seq(Replies), q # <<>>, NEW n \in Names,
         RemoveAfter(q, 0, n), Head(q) # [kind |-> "remove", name |-> n]
  PROVE  RemoveAfter(Tail(q), 0, n)
<1>1. PICK j \in 1..Len(q) : q[j] = [kind |-> "remove", name |-> n]
  BY DEF RemoveAfter
<1>2. j - 1 \in 1..Len(Tail(q)) /\ Tail(q)[j - 1] = q[j] /\ j - 1 > 0
  BY <1>1, TailFacts
<1> QED BY <1>1, <1>2 DEF RemoveAfter

(* A removal in the queue stays there when a reply is appended. *)
LEMMA RemoveSurvivesAppend ==
  ASSUME NEW q \in Seq(Replies), NEW r \in Replies, NEW i \in Nat, NEW n \in Names,
         RemoveAfter(q, i, n)
  PROVE  RemoveAfter(Append(q, r), i, n)
  BY AppendFacts DEF RemoveAfter

-----------------------------------------------------------------------------
(* The inductive invariant holds in the state the constructor leaves. *)
LEMMA InitIInv == Init => IInv
<1> SUFFICES ASSUME Init PROVE IInv OBVIOUS
<1>1. queue = <<>> /\ queue \in Seq(Replies) /\ Len(queue) = 0
  BY DEF Init
<1>2. TypeOK BY <1>1 DEF Init, TypeOK
<1>3. WaitInv /\ FiledRight BY DEF Init, WaitInv, FiledRight
<1>4. QueueInv BY <1>1 DEF QueueInv
<1>5. MapInv BY DEF Init, MapInv
<1> QED BY <1>2, <1>3, <1>4, <1>5 DEF IInv

(* Reading a reply that is not a removal of something keeps the queue and  *)
(* what it backs in order.                                                 *)
LEMMA ReadKeepsQueue ==
  ASSUME IInv, queue # <<>>, queue' = Tail(queue), told' = told
  PROVE  /\ queue' \in Seq(Replies) /\ QueueInv'
         /\ \A n \in Names :
              Backed(n) /\ (Head(queue).kind # "remove" \/ Head(queue).name # n) => Backed(n)'
         /\ \A n \in Names : Head(queue).kind = "add" /\ Head(queue).name = n => Backed(n)'
<1>1. queue \in Seq(Replies) BY DEF IInv, TypeOK
<1>2. QueueInv'
  <2> SUFFICES ASSUME NEW i \in 1..Len(queue'), queue'[i].kind = "add"
               PROVE  queue'[i].name \in told' \/ RemoveAfter(queue', i, queue'[i].name)
    BY DEF QueueInv
  <2>1. i + 1 \in 1..Len(queue) /\ queue'[i] = queue[i + 1] /\ i + 1 \in Nat /\ i + 1 >= 1
    <3>1. Len(queue) \in Nat /\ Len(queue') = Len(queue) - 1
      BY <1>1, TailFacts
    <3>2. i \in 1..(Len(queue) - 1) BY <3>1
    <3> QED BY <1>1, <3>1, <3>2, TailFacts
  <2>2. queue[i + 1].name \in told \/ RemoveAfter(queue, i + 1, queue[i + 1].name)
    BY <2>1 DEF IInv, QueueInv
  <2>3. queue[i + 1].name \in Names
    BY <1>1, <2>1, ReplyFacts
  <2>4. RemoveAfter(queue, i + 1, queue[i + 1].name)
          => RemoveAfter(Tail(queue), i, queue[i + 1].name)
    BY <1>1, <2>3, RemoveMovesUp
  <2> QED BY <2>1, <2>2, <2>4
<1>3. ASSUME NEW n \in Names, Backed(n),
             Head(queue).kind # "remove" \/ Head(queue).name # n
      PROVE  Backed(n)'
  <2>0. Head(queue) # [kind |-> "remove", name |-> n]
    BY <1>3
  <2>1. CASE n \in told BY <2>1 DEF Backed
  <2>2. CASE RemoveAfter(queue, 0, n)
    BY <1>1, <2>0, <2>2, RemoveSurvivesTail DEF Backed
  <2> QED BY <1>3, <2>1, <2>2 DEF Backed
<1>4. ASSUME NEW n \in Names, Head(queue).kind = "add", Head(queue).name = n
      PROVE  Backed(n)'
  <2>1. Head(queue) = queue[1] /\ 1 \in 1..Len(queue)
    BY <1>1, TailFacts
  <2>2. n \in told \/ RemoveAfter(queue, 0 + 1, n)
    BY <1>4, <2>1 DEF IInv, QueueInv
  <2>3. RemoveAfter(queue, 0 + 1, n) => RemoveAfter(Tail(queue), 0, n)
    BY <1>1, RemoveMovesUp
  <2> QED BY <2>2, <2>3 DEF Backed
<1>5. queue' \in Seq(Replies)
  BY <1>1, TailFacts
<1> QED BY <1>2, <1>3, <1>4, <1>5

(* A reply of the daemon keeps the queue and what it backs in order.       *)
LEMMA EnqueueKeepsQueue ==
  ASSUME IInv, NEW n \in Names, ReplyAdd(n) \/ ReplyRemove(n) \/ ReplyError(n)
  PROVE  /\ queue' \in Seq(Replies) /\ QueueInv'
         /\ \A m \in Names : Backed(m) => Backed(m)'
<1>1. queue \in Seq(Replies) BY DEF IInv, TypeOK
<1>2. PICK r \in Replies :
        /\ queue' = Append(queue, r)
        /\ r.kind = "add" => r.name \in told'
        /\ \A m \in Names : m \in told /\ m \notin told' => r = [kind |-> "remove", name |-> m]
  <2>1. CASE ReplyAdd(n) BY <2>1, Zenon DEF ReplyAdd, Enqueue, Replies
  <2>2. CASE ReplyRemove(n)
    BY <2>2 DEF ReplyRemove, Enqueue, Replies
  <2>3. CASE ReplyError(n)
    BY <2>3 DEF ReplyError, Enqueue, Replies
  <2> QED BY <2>1, <2>2, <2>3
<1>3. /\ queue' \in Seq(Replies)
      /\ Len(queue) \in Nat /\ Len(queue') = Len(queue) + 1
      /\ queue'[Len(queue) + 1] = r
      /\ \A i \in 1..Len(queue) : queue'[i] = queue[i]
  BY <1>1, <1>2, AppendFacts
<1>4. \A m \in Names : \A i \in 0..Len(queue) :
        m \in told \/ RemoveAfter(queue, i, m) => m \in told' \/ RemoveAfter(queue', i, m)
  <2> SUFFICES ASSUME NEW m \in Names, NEW i \in 0..Len(queue),
                      m \in told \/ RemoveAfter(queue, i, m)
               PROVE  m \in told' \/ RemoveAfter(queue', i, m)
    OBVIOUS
  <2>1. CASE RemoveAfter(queue, i, m)
    BY <1>1, <1>2, <1>3, <2>1, RemoveSurvivesAppend
  <2>2. CASE m \in told /\ m \notin told'
    <3>1. queue'[Len(queue) + 1] = [kind |-> "remove", name |-> m]
      BY <1>2, <1>3, <2>2
    <3>2. Len(queue) + 1 \in 1..Len(queue') /\ Len(queue) + 1 > i
      BY <1>3
    <3> QED BY <3>1, <3>2 DEF RemoveAfter
  <2> QED BY <2>1, <2>2
<1>5. QueueInv'
  <2> SUFFICES ASSUME NEW i \in 1..Len(queue'), queue'[i].kind = "add"
               PROVE  queue'[i].name \in told' \/ RemoveAfter(queue', i, queue'[i].name)
    BY DEF QueueInv
  <2>1. CASE i = Len(queue) + 1 BY <1>2, <1>3, <2>1
  <2>2. CASE i \in 1..Len(queue)
    <3>1. queue'[i] = queue[i] /\ queue[i].name \in Names
      BY <1>1, <1>3, <2>2, ReplyFacts
    <3> QED BY <1>4, <2>2, <3>1 DEF IInv, QueueInv
  <2> QED BY <1>3, <2>1, <2>2
<1> QED BY <1>3, <1>4, <1>5 DEF Backed

-----------------------------------------------------------------------------
(* Steps that leave the browse and its replies alone. *)
LEMMA QueueUnchanged ==
  ASSUME IInv, UNCHANGED <<queue, told, found, browsedName>>,
         in' => in, pc' = "resolve" => pc = "resolve"
  PROVE  FiledRight' /\ QueueInv' /\ MapInv'
  BY DEF IInv, FiledRight, QueueInv, MapInv, Backed, RemoveAfter

(* Every step of the object and of the daemon keeps the invariant. *)
LEMMA NextIInv ==
  ASSUME IInv, [Next]_vars
  PROVE  IInv'
<1> USE NamesAssumption, ErrorsAssumption DEF SUCCESS, PENDING
<1> DEFINE Unchanged == UNCHANGED <<queue, told, found, browsedName>>
                        /\ (in' => in) /\ (pc' = "resolve" => pc = "resolve")
<1>0. CASE UNCHANGED vars
  <2>1. Unchanged BY <1>0 DEF vars, browser, lookup
  <2>2. TypeOK' /\ WaitInv'
    BY <1>0 DEF IInv, TypeOK, WaitInv, vars, publish, browser, lookup, resolve
  <2> QED BY <2>1, <2>2, QueueUnchanged DEF IInv
<1>1. CASE Set \/ Announce \/ Withdraw \/ (\E t \in {-1, 0} : Browse(t))
  <2>1. Unchanged
    <3>1. UNCHANGED <<browser, lookup>> /\ pc' # "resolve"
      BY <1>1 DEF Set, Announce, Withdraw, Browse
    <3> QED BY <3>1 DEF browser, lookup
  <2>2. TypeOK' /\ WaitInv'
    <3>1. CASE Set
      BY <3>1 DEF IInv, TypeOK, WaitInv, Set, browser, lookup, resolve
    <3>2. CASE Announce
      BY <3>2 DEF IInv, TypeOK, WaitInv, Announce, browser, lookup, resolve
    <3>3. CASE Withdraw
      BY <3>3 DEF IInv, TypeOK, WaitInv, Withdraw, Deallocate, browser, lookup, resolve
    <3>4. CASE \E t \in {-1, 0} : Browse(t)
      BY <3>4 DEF IInv, TypeOK, WaitInv, Browse, publish, browser, lookup, resolve
    <3> QED BY <1>1, <3>1, <3>2, <3>3, <3>4
  <2> QED BY <2>1, <2>2, QueueUnchanged DEF IInv
<1>2. CASE BeginBrowsing
  <2>1. TypeOK' /\ WaitInv' /\ FiledRight' /\ MapInv'
    BY <1>2 DEF IInv, TypeOK, WaitInv, FiledRight, MapInv, BeginBrowsing, publish, resolve
  <2>2. QueueInv' BY <1>2 DEF IInv, QueueInv, RemoveAfter, BeginBrowsing
  <2> QED BY <2>1, <2>2 DEF IInv
<1>3. CASE EndBrowsing \/ Destroy
  <2>0. queue' = <<>> /\ in' = FALSE /\ told' = {} /\ pc' = "idle"
    BY <1>3 DEF EndBrowsing, Destroy
  <2>1. queue' = <<>> /\ queue' \in Seq(Replies) /\ Len(queue') = 0 /\ in' = FALSE /\ pc' = "idle"
    BY <2>0
  <2>2. TypeOK' /\ WaitInv' /\ FiledRight'
    BY <1>3, <2>1 DEF IInv, TypeOK, WaitInv, FiledRight, EndBrowsing, Destroy, Deallocate,
                      publish, lookup, resolve
  <2>3. QueueInv' BY <2>1 DEF QueueInv
  <2>4. MapInv' BY <2>1 DEF MapInv
  <2> QED BY <2>2, <2>3, <2>4 DEF IInv
<1>4. CASE ReadRegister \/ Timeout \/ Fail
  <2>1. Unchanged
    BY <1>4 DEF ReadRegister, Timeout, Fail, browser, lookup
  <2>2. TypeOK' /\ WaitInv'
    <3>1. CASE ReadRegister
      BY <3>1 DEF IInv, TypeOK, WaitInv, ReadRegister, Waiting, Deallocate, browser, lookup, resolve
    <3>2. CASE Timeout
      BY <3>2 DEF IInv, TypeOK, WaitInv, Timeout, publish, browser, lookup, resolve
    <3>3. CASE Fail
      BY <3>3 DEF IInv, TypeOK, WaitInv, Fail, Deallocate, browser, lookup, resolve
    <3> QED BY <1>4, <3>1, <3>2, <3>3
  <2> QED BY <2>1, <2>2, QueueUnchanged DEF IInv
<1>5. CASE ReadAdd
  <2>1. /\ queue # <<>> /\ queue' = Tail(queue) /\ told' = told /\ queue \in Seq(Replies)
        /\ Head(queue).kind = "add" /\ pc = "browse"
    BY <1>5 DEF ReadAdd, Waiting, IInv, TypeOK
  <2>2. Head(queue) = queue[1] /\ 1 \in 1..Len(queue) BY <2>1, TailFacts
  <2>3. Head(queue).name \in Names
    BY <2>1, <2>2, ReplyFacts
  <2>4. queue' \in Seq(Replies) /\ QueueInv' BY <2>1, ReadKeepsQueue
  <2>5. TypeOK' /\ WaitInv' /\ FiledRight'
    BY <1>5, <2>3, <2>4 DEF IInv, TypeOK, WaitInv, FiledRight, ReadAdd, Waiting, publish
  <2>6. browsedName' \in Names => Backed(browsedName)'
    BY <1>5, <2>1, <2>3, ReadKeepsQueue DEF ReadAdd, Backed
  <2>7. \A n \in Names : Backed(n) => Backed(n)'
    BY <2>1, ReadKeepsQueue
  <2>8. MapInv'
    BY <1>5, <2>3, <2>6, <2>7 DEF IInv, MapInv, ReadAdd
  <2> QED BY <2>4, <2>5, <2>8 DEF IInv
<1>6. CASE ReadRemove
  <2>1. /\ queue # <<>> /\ queue' = Tail(queue) /\ told' = told /\ queue \in Seq(Replies)
        /\ pc = "browse" /\ pc' = "browse"
    BY <1>6 DEF ReadRemove, Waiting, IInv, TypeOK
  <2>2. queue' \in Seq(Replies) /\ QueueInv' BY <2>1, ReadKeepsQueue
  <2>3. TypeOK' /\ WaitInv'
    <3>1. found' \in [Names -> Names \cup {Nothing}] /\ rows' \in SUBSET Names
      BY <1>6 DEF IInv, TypeOK, ReadRemove
    <3>2. UNCHANGED <<publish, in, told, browsedName, resolve, result, pc, timeout, net>>
      BY <1>6 DEF ReadRemove
    <3> QED BY <2>2, <3>1, <3>2 DEF IInv, TypeOK, WaitInv, publish, resolve
  <2>7. FiledRight'
    BY <1>6 DEF IInv, TypeOK, FiledRight, ReadRemove
  <2>4. \A n \in Names : n # Head(queue).name /\ Backed(n) => Backed(n)'
    BY <2>1, ReadKeepsQueue
  <2>5. \A n \in Names : found'[n] # Nothing => found[n] # Nothing /\ n # Head(queue).name
    BY <1>6 DEF IInv, TypeOK, ReadRemove
  <2>6. MapInv' BY <1>6, <2>1, <2>4, <2>5 DEF IInv, MapInv, ReadRemove
  <2> QED BY <2>2, <2>3, <2>6, <2>7 DEF IInv
<1>7. CASE ReadBrowseError
  <2>1. /\ queue # <<>> /\ queue' = Tail(queue) /\ told' = told /\ queue \in Seq(Replies)
        /\ Head(queue).kind = "error" /\ UNCHANGED <<found, browsedName, in, pc>>
    BY <1>7 DEF ReadBrowseError, IInv, TypeOK, lookup
  <2>2. queue' \in Seq(Replies) /\ QueueInv' BY <2>1, ReadKeepsQueue
  <2>3. TypeOK' /\ WaitInv' /\ FiledRight'
    BY <1>7, <2>2 DEF IInv, TypeOK, WaitInv, FiledRight, ReadBrowseError, publish, lookup, resolve
  <2>4. \A n \in Names : Backed(n) => Backed(n)' BY <2>1, ReadKeepsQueue
  <2>5. MapInv'
    BY <1>7, <2>1, <2>4 DEF IInv, MapInv, Waiting, ReadBrowseError
  <2> QED BY <2>2, <2>3, <2>5 DEF IInv
<1>8. CASE ReadResolve
  <2>1. /\ UNCHANGED <<queue, told, in, pc, browsedName>> /\ pc = "resolve"
        /\ browsedName \in Names /\ resolver = browsedName
    BY <1>8 DEF ReadResolve, Waiting, browser, IInv, WaitInv
  <2>2. TypeOK' /\ WaitInv' /\ FiledRight'
    BY <1>8, <2>1 DEF IInv, TypeOK, WaitInv, FiledRight, ReadResolve, publish, browser
  <2>3. QueueInv' BY <2>1 DEF IInv, QueueInv, RemoveAfter
  <2>4. \A n \in Names : Backed(n) => Backed(n)' BY <2>1 DEF Backed, RemoveAfter
  <2>5. Backed(browsedName) /\ Backed(browsedName)'
    BY <2>1 DEF IInv, MapInv, Backed, RemoveAfter
  <2>6. \A n \in Names : found'[n] # Nothing => found[n] # Nothing \/ n = browsedName
    BY <1>8 DEF ReadResolve, IInv, TypeOK
  <2>7. \A n \in Names : in /\ found'[n] # Nothing => Backed(n)
    BY <2>5, <2>6 DEF IInv, MapInv
  <2>8. MapInv' BY <2>1, <2>4, <2>5, <2>7 DEF MapInv
  <2> QED BY <2>2, <2>3, <2>8 DEF IInv
<1>9. CASE ResolveReturn \/ Return
  <2>1. Unchanged
    BY <1>9 DEF ResolveReturn, Return, browser, lookup
  <2>2. TypeOK' /\ WaitInv'
    BY <1>9 DEF IInv, TypeOK, WaitInv, ResolveReturn, Return, publish, browser, lookup, resolve
  <2> QED BY <2>1, <2>2, QueueUnchanged DEF IInv
<1>10. CASE \E n \in Names : NetworkChange(n)
  <2>1. Unchanged BY <1>10 DEF NetworkChange, browser, others, lookup
  <2>2. TypeOK' /\ WaitInv'
    BY <1>10 DEF IInv, TypeOK, WaitInv, NetworkChange, publish, browser, resolve, others, lookup
  <2> QED BY <2>1, <2>2, QueueUnchanged DEF IInv
<1>11. CASE \E n \in Names : ReplyAdd(n) \/ ReplyRemove(n) \/ ReplyError(n)
  <2>1. PICK n \in Names : ReplyAdd(n) \/ ReplyRemove(n) \/ ReplyError(n)
    BY <1>11
  <2>2. UNCHANGED <<publish, in, resolve, others, net>>
    BY <2>1 DEF ReplyAdd, ReplyRemove, ReplyError, Enqueue
  <2>3. told' \in SUBSET Names
    BY <2>1 DEF IInv, TypeOK, ReplyAdd, ReplyRemove, ReplyError
  <2>4. queue' \in Seq(Replies) /\ QueueInv' /\ \A m \in Names : Backed(m) => Backed(m)'
    BY <2>1, EnqueueKeepsQueue
  <2>5. TypeOK' /\ WaitInv' /\ FiledRight'
    BY <2>2, <2>3, <2>4 DEF IInv, TypeOK, WaitInv, FiledRight, publish, resolve, others, lookup
  <2>6. MapInv'
    <3>1. UNCHANGED <<in, found, browsedName, pc>> BY <2>2 DEF others, lookup
    <3>2. pc' = "resolve" => Backed(browsedName)'
      <4>1. pc = "resolve" => browsedName \in Names /\ Backed(browsedName)
        BY DEF IInv, WaitInv, MapInv
      <4>2. ASSUME NEW m \in Names, Backed(m), browsedName = m PROVE Backed(browsedName)'
        BY <2>4, <3>1, <4>2 DEF Backed
      <4> QED BY <3>1, <4>1, <4>2
    <3> QED BY <2>4, <3>1, <3>2 DEF IInv, MapInv
  <2> QED BY <2>4, <2>5, <2>6 DEF IInv
<1>12. CASE \E kind \in {"ok", "error"} : ReplyRegister(kind) \/ ReplyResolve(kind)
  <2>1. Unchanged BY <1>12 DEF ReplyRegister, ReplyResolve, browser, others, lookup
  <2>2. TypeOK' /\ WaitInv'
    BY <1>12 DEF IInv, TypeOK, WaitInv, ReplyRegister, ReplyResolve,
                 publish, browser, resolve, others, lookup
  <2> QED BY <2>1, <2>2, QueueUnchanged DEF IInv
<1> QED
  BY <1>0, <1>1, <1>2, <1>3, <1>4, <1>5, <1>6, <1>7, <1>8, <1>9, <1>10, <1>11, <1>12
  DEF Next, Application, Continue, Environment

(* The invariant holds in every reachable state of the backend. *)
THEOREM Invariance == Spec => []IInv
<1>1. Init => IInv BY InitIInv
<1>2. IInv /\ [Next]_vars => IInv' BY NextIInv
<1> QED BY <1>1, <1>2, PTL DEF Spec

(* The data of an instance is never filed under the name of another. *)
THEOREM Filing == Spec => []FiledRight
<1>1. IInv => FiledRight BY DEF IInv
<1> QED BY <1>1, Invariance, PTL

(* The instance map of a browse holds no instance of an earlier session,   *)
(* and none whose removal has been read, whatever resolves came late.      *)
THEOREM GhostFreedom == Spec => []NoGhosts
<1>1. IInv => NoGhosts
  BY DEF IInv, TypeOK, MapInv, NoGhosts, Backed, RemoveAfter, RemoveQueued
<1> QED BY <1>1, Invariance, PTL

(* Every wait, the one inside the callback of a browse included, begins    *)
(* and leaves with _result = PENDING.                                      *)
THEOREM ResetEveryWait == Spec => ResultReset
<1>1. IInv /\ [Next]_vars => [pc' # pc => result' = PENDING]_vars
  <2> SUFFICES ASSUME IInv, Next, pc' # pc PROVE result' = PENDING
    OBVIOUS
  <2>1. CASE Application
    BY <2>1 DEF Application, Set, Announce, Withdraw, BeginBrowsing, EndBrowsing, Browse,
                Destroy, IInv, WaitInv
  <2>2. CASE Continue \/ Fail
    BY <2>2 DEF Continue, ReadRegister, ReadAdd, ReadRemove, ReadBrowseError, ReadResolve,
                Timeout, Fail, ResolveReturn, Return, Waiting
  <2>3. CASE Environment
    BY <2>3 DEF Environment, NetworkChange, ReplyAdd, ReplyRemove, ReplyError, Enqueue,
                ReplyRegister, ReplyResolve, others
  <2> QED BY <2>1, <2>2, <2>3 DEF Next
<1> QED BY <1>1, Invariance, PTL DEF Spec, ResultReset

(* announce() returns SUCCESS exactly when it leaves the object announced. *)
THEOREM Consistency == Spec => AnnounceConsistent
<1>1. IInv /\ [Next]_vars
        => [pc = "announce" /\ pc' = "idle" => (out' <=> result = SUCCESS)]_vars
  <2> SUFFICES ASSUME IInv, Next, pc = "announce", pc' = "idle"
               PROVE  out' <=> result = SUCCESS
    OBVIOUS
  <2>1. Return
    BY DEF Next, Application, Set, Announce, Withdraw, BeginBrowsing, EndBrowsing, Browse,
           Destroy, Continue, ReadRegister, ReadAdd, ReadRemove, ReadBrowseError,
           ReadResolve, Timeout, Fail, ResolveReturn, Waiting, Environment, NetworkChange,
           ReplyAdd, ReplyRemove, ReplyError, Enqueue, ReplyRegister, ReplyResolve, others
  <2>2. out' = out /\ result # PENDING
    BY <2>1 DEF Return, publish
  <2> QED BY <2>2 DEF IInv, WaitInv
<1> QED BY <1>1, Invariance, PTL DEF Spec, AnnounceConsistent
=============================================================================
