----------------------------- MODULE ItemModel -----------------------------
(***************************************************************************)
(* qt::ItemModel (src/servus/qt/itemModel.cpp): a tree of rows for the     *)
(* instances of a service and their key-value pairs, kept from the         *)
(* callbacks of the service while a timer browses it, and read by a Qt     *)
(* view.  Models, service and view live in one thread.                     *)
(*                                                                         *)
(* The service is what the model sees of a backend: the instance map, the  *)
(* browsing state and the callbacks.  The text "key = value" of a pair     *)
(* stands for the pair.                                                    *)
(***************************************************************************)
EXTENDS Naturals, SequencesExt

CONSTANTS Models,    \* the ItemModels made for one service
          Names,     \* instance names
          Entries    \* for each key, the texts of the pairs it can be in

VARIABLES
  announced,  \* what is announced in the network: instance to pairs
  map,        \* _instanceMap of the service
  browsing,   \* the service is in browsing state
  alive,      \* the models that exist: they are the service's listeners
  rows,       \* rows[m]: the children of rootItem, each with its own children
  view        \* view[m]: the texts that a view of the model shows

service == <<map, browsing>>
vars    == <<announced, map, browsing, alive, rows, view>>

\* Sets of pairs, one pair per key at most.
Datas == {D \in SUBSET UNION Entries : \A E \in Entries : Cardinality(D \cap E) <= 1}

NoInstances == [n \in {} |-> {}]

Maps == UNION {[S -> Datas] : S \in SUBSET Names}

\* map[n] = x for a std::map.
Put(f, n, x) == [k \in DOMAIN f \cup {n} |-> IF k = n THEN x ELSE f[k]]

Without(f, n) == Restrict(f, DOMAIN f \ {n})

RowNames(rs) == {rs[r].name : r \in DOMAIN rs}
-----------------------------------------------------------------------------
(* The rows.                                                               *)

\* children.indexOf() of the item that findChild() finds among the direct
\* children, 0 if it is none of them.
RowOf(rs, n) == SelectInSeq(rs, LAMBDA row : row.name = n)

\* rootItem->findChild() looks at all descendants, those of the pairs too.
FindChild(rs, n) == RowOf(rs, n) # 0 \/ \E r \in DOMAIN rs : n \in rs[r].pairs

\* getKeys() and get() of an unknown instance are empty.
InstanceItem(n, m) == [name |-> n, pairs |-> IF n \in DOMAIN m THEN m[n] ELSE {}]

\* _addInstanceItem
AddInstanceItem(rs, n, m) == Append(rs, InstanceItem(n, m))

\* _removeInstanceItem deletes the item findChild() finds: a row, or else the
\* pair of another instance with this text.
RemoveInstanceItem(rs, n) ==
  IF RowOf(rs, n) # 0 THEN RemoveAt(rs, RowOf(rs, n))
  ELSE LET r == SelectInSeq(rs, LAMBDA row : n \in row.pairs)
       IN  [rs EXCEPT ![r].pairs = @ \ {n}]
-----------------------------------------------------------------------------
(* What a view reads: indexes are a row and the item it leads to, which is *)
(* named by the instance, or by the instance and the pair.                 *)

NoIndex == [row |-> 0, item |-> <<>>]

RowCount(rs, parent) ==
  CASE parent = NoIndex       -> Len(rs)
    [] Len(parent.item) = 1   -> Cardinality(rs[parent.row].pairs)
    [] Len(parent.item) = 2   -> 0

Index(rs, row, parent) ==
  IF parent = NoIndex
  THEN [row |-> row, item |-> <<rs[row].name>>]
  ELSE [row  |-> row,
        item |-> Append(parent.item, SetToSeq(rs[parent.row].pairs)[row])]

\* Every pair has its parent in the first row (mutant).
ParentFirst(rs, index) ==
  IF Len(index.item) < 2 THEN NoIndex
  ELSE [row |-> 1, item |-> <<index.item[1]>>]

\* The root has no index; the row of an instance is where it is now.
Parent(rs, index) ==
  IF Len(index.item) < 2 THEN NoIndex
  ELSE [row |-> RowOf(rs, index.item[1]), item |-> <<index.item[1]>>]

\* data() for Qt::DisplayRole.
DisplayData(index) == Last(index.item)

\* The texts of the first level.
Shown(rs) ==
  [r \in 1 .. RowCount(rs, NoIndex) |-> DisplayData(Index(rs, r, NoIndex))]
-----------------------------------------------------------------------------
(* Callbacks, for every model there is.  The view inserts and removes the  *)
(* rows that beginInsertRows() and beginRemoveRows() announce, and reads   *)
(* an inserted row when it is there.                                       *)

\* rootItem->children().size(), before the item is added.
InsertedRow(rs) == Len(rs) + 1

InstanceAdded(n) ==
  LET new == {m \in alive : ~FindChild(rows[m], n)}
  IN  /\ rows' = [m \in Models |-> IF m \in new
                    THEN AddInstanceItem(rows[m], n, map') ELSE rows[m]]
      /\ view' = [m \in Models |-> IF m \in new
                    THEN LET r == InsertedRow(rows[m])
                         IN  InsertAt(view[m], r, Shown(rows'[m])[r])
                    ELSE view[m]]

\* The row of the item is asked for after the item was deleted (mutant).
InstanceRemovedLate(n) ==
  LET gone == {m \in alive : FindChild(rows[m], n)}
  IN  /\ rows' = [m \in Models |-> IF m \in gone
                    THEN RemoveInstanceItem(rows[m], n) ELSE rows[m]]
      /\ view' = [m \in Models |-> IF m \in gone /\ RowOf(rows'[m], n) # 0
                    THEN RemoveAt(view[m], RowOf(rows'[m], n)) ELSE view[m]]

\* beginRemoveRows() gets the row -1 for an item that is a pair: no view can
\* remove that.
InstanceRemoved(n) ==
  LET gone == {m \in alive : FindChild(rows[m], n)}
  IN  /\ rows' = [m \in Models |-> IF m \in gone
                    THEN RemoveInstanceItem(rows[m], n) ELSE rows[m]]
      /\ view' = [m \in Models |-> IF m \in gone /\ RowOf(rows[m], n) # 0
                    THEN RemoveAt(view[m], RowOf(rows[m], n)) ELSE view[m]]
-----------------------------------------------------------------------------
(* The network and the service.  Instances are found and lost while the    *)
(* timer of a model, or the client, calls browse().                        *)

\* values[key] = value for each of the new pairs; the others stay.
Merge(old, new) == new \cup (old \ UNION {E \in Entries : E \cap new # {}})

\* The departure of an instance is reported before it arrives again.
Announce(n, pairs) ==
  /\ n \notin DOMAIN announced
  /\ ~(browsing /\ n \in DOMAIN map)
  /\ announced' = Put(announced, n, pairs)
  /\ UNCHANGED <<service, alive, rows, view>>

\* set() of an instance that is announced.
SetPair(n, pair) ==
  /\ n \in DOMAIN announced
  /\ announced' = [announced EXCEPT ![n] = Merge(@, {pair})]
  /\ UNCHANGED <<service, alive, rows, view>>

Withdraw(n) ==
  /\ n \in DOMAIN announced
  /\ announced' = Without(announced, n)
  /\ UNCHANGED <<service, alive, rows, view>>

Known(n) == IF n \in DOMAIN map THEN map[n] ELSE {}

\* An instance is resolved: for the first time, or again, with other pairs.
Found(n) ==
  /\ browsing
  /\ n \in DOMAIN announced
  /\ n \in DOMAIN map => map[n] # announced[n]
  /\ map' = Put(map, n, Merge(Known(n), announced[n]))
  /\ InstanceAdded(n)
  /\ UNCHANGED <<announced, browsing, alive>>

\* The listeners are not told (mutant).
LostSilently(n) ==
  /\ browsing
  /\ n \in DOMAIN map \ DOMAIN announced
  /\ map' = Without(map, n)
  /\ UNCHANGED <<announced, browsing, alive, rows, view>>

Lost(n) ==
  /\ browsing
  /\ n \in DOMAIN map \ DOMAIN announced
  /\ map' = Without(map, n)
  /\ InstanceRemoved(n)
  /\ UNCHANGED <<announced, browsing, alive>>

\* beginBrowsing(): a service that browses already keeps its map.  Otherwise
\* the browser may not be created, which the caller is told and ignores.
BeginBrowsing ==
  \/ browsing /\ UNCHANGED service
  \/ ~browsing /\ map' = NoInstances /\ browsing' \in BOOLEAN

\* endBrowsing() keeps the map.
EndBrowsing ==
  /\ browsing' = FALSE
  /\ map' = map

\* The client browses the service itself, before or after it makes a model.
ClientBegins ==
  /\ alive = {}
  /\ BeginBrowsing
  /\ UNCHANGED <<announced, alive, rows, view>>

ClientEnds ==
  /\ alive = {}
  /\ EndBrowsing
  /\ UNCHANGED <<announced, alive, rows, view>>
-----------------------------------------------------------------------------
(* The models.                                                             *)

\* The constructor makes no rows for what is known already (mutant).
ConstructEmpty(m) ==
  /\ m \notin alive
  /\ rows' = [rows EXCEPT ![m] = <<>>]
  /\ view' = [view EXCEPT ![m] = Shown(rows'[m])]
  /\ alive' = alive \cup {m}
  /\ BeginBrowsing
  /\ UNCHANGED announced

\* The rows of a new model, one for each of getInstances().
KnownRows == LET names == SetToSeq(DOMAIN map)
             IN  [i \in DOMAIN names |-> InstanceItem(names[i], map)]

\* The constructor, and a view that is set on the model.
Construct(m) ==
  /\ m \notin alive
  /\ rows' = [rows EXCEPT ![m] = KnownRows]
  /\ view' = [view EXCEPT ![m] = Shown(rows'[m])]
  /\ alive' = alive \cup {m}
  /\ BeginBrowsing
  /\ UNCHANGED announced

Destroy(m) ==
  /\ m \in alive
  /\ alive' = alive \ {m}
  /\ rows' = [rows EXCEPT ![m] = <<>>]
  /\ view' = [view EXCEPT ![m] = <<>>]
  /\ EndBrowsing
  /\ UNCHANGED announced
-----------------------------------------------------------------------------
Init ==
  /\ announced \in Maps
  /\ map = NoInstances
  /\ browsing = FALSE
  /\ alive = {}
  /\ rows = [m \in Models |-> <<>>]
  /\ view = [m \in Models |-> <<>>]

Next ==
  \/ \E n \in Names : \/ \E pairs \in Datas : Announce(n, pairs)
                      \/ \E pair \in UNION Entries : SetPair(n, pair)
                      \/ Withdraw(n) \/ Found(n) \/ Lost(n)
  \/ ClientBegins \/ ClientEnds
  \/ \E m \in Models : Construct(m) \/ Destroy(m)

\* The timer of a model calls browse() every 100 ms, which handles the events
\* of every instance.
Spec == Init /\ [][Next]_vars /\ \A n \in Names : WF_vars(Found(n))
                                                /\ WF_vars(Lost(n))
-----------------------------------------------------------------------------
\* A view shows the rows of its model, in their order, whatever was inserted
\* and removed.
ViewInStep == \A m \in alive : view[m] = Shown(rows[m])

\* Every instance the service knows has one row in every model of the service,
\* across browsing sessions and with several models.
RowForEveryInstance ==
  \A m \in alive :
    /\ DOMAIN map \subseteq RowNames(rows[m])
    /\ Cardinality(RowNames(rows[m])) = Len(rows[m])

\* index() and parent() are inverse to each other on both levels: a view that
\* goes down the tree comes back to where it was.
IndexParent ==
  \A m \in alive : \A r \in 1 .. RowCount(rows[m], NoIndex) :
    LET instance == Index(rows[m], r, NoIndex)
    IN  /\ Parent(rows[m], instance) = NoIndex
        /\ \A k \in 1 .. RowCount(rows[m], instance) :
             LET pair == Index(rows[m], k, instance)
             IN  /\ Parent(rows[m], pair) = instance
                 /\ RowCount(rows[m], pair) = 0

\* While the service browses, an announced instance gets its row in every
\* model, also in one that is made after the instance was found.
Discovers ==
  \A m \in Models, n \in Names :
    (m \in alive /\ browsing /\ n \in DOMAIN announced)
      ~> (m \notin alive \/ ~browsing \/ n \notin DOMAIN announced
            \/ n \in RowNames(rows[m]))

\* While the service browses, an instance that was found in this session loses
\* its row in every model when it is withdrawn.
ForgetsFound ==
  \A m \in Models, n \in Names :
    (m \in alive /\ browsing /\ n \in DOMAIN map \ DOMAIN announced)
      ~> (m \notin alive \/ ~browsing \/ n \in DOMAIN announced
            \/ n \notin RowNames(rows[m]))
=============================================================================
