-------------------------- MODULE ItemModel_proofs --------------------------
(***************************************************************************)
(* Proofs about qt::ItemModel, for any number of models, instances and     *)
(* pairs.                                                                  *)
(***************************************************************************)
EXTENDS ItemModel, SequenceTheorems, FunctionTheorems, FiniteSetTheorems, TLAPS

Texts == UNION Entries

Row == [name : Names, pairs : SUBSET Texts]

\* The types of the variables.
TypeOK ==
  /\ \A n \in DOMAIN announced : announced[n] \subseteq Texts
  /\ IsFiniteSet(DOMAIN map) /\ DOMAIN map \subseteq Names
  /\ \A n \in DOMAIN map : map[n] \subseteq Texts
  /\ alive \subseteq Models
  /\ rows \in [Models -> Seq(Row)]
  /\ view \in [Models -> Seq(Names)]

\* No two rows have the same name.
Unique(rs) == \A i, j \in 1 .. Len(rs) : rs[i].name = rs[j].name => i = j

UniqueRows == \A m \in Models : Unique(rows[m])

\* A view shows the rows, also of a model that does not exist yet.
ViewsShow == \A m \in Models : view[m] = Shown(rows[m])

\* No instance is called like the text of a pair: findChild() can confuse them.
NamesApart == Names \cap Texts = {}

Rowed == NamesApart => \A m \in alive : DOMAIN map \subseteq RowNames(rows[m])

Inv == TypeOK /\ UniqueRows /\ ViewsShow /\ Rowed
-----------------------------------------------------------------------------
(* The operators of sequences.                                             *)

(* The texts of the first level are the names of the rows.                 *)
LEMMA ShownRows ==
  ASSUME NEW rs \in Seq(Row)
  PROVE  /\ Shown(rs) = [r \in 1 .. Len(rs) |-> rs[r].name]
         /\ Shown(rs) \in Seq(Names) /\ Len(Shown(rs)) = Len(rs)
<1>1. RowCount(rs, NoIndex) = Len(rs) /\ Len(rs) \in Nat
  BY LenProperties DEF RowCount, NoIndex
<1>2. \A r : DisplayData(Index(rs, r, NoIndex)) = rs[r].name
  BY DEF DisplayData, Index, Last
<1>3. Shown(rs) = [r \in 1 .. Len(rs) |-> rs[r].name]
  BY <1>1, <1>2 DEF Shown
<1>4. \A r \in 1 .. Len(rs) : rs[r].name \in Names
  <2> TAKE r \in 1 .. Len(rs)
  <2>1. rs[r] \in Row
    BY ElementOfSeq
  <2> QED
    BY <2>1 DEF Row
<1> QED
  BY <1>1, <1>3, <1>4

(* What is inserted after the last element is appended.                    *)
LEMMA InsertAtEnd ==
  ASSUME NEW S, NEW s \in Seq(S), NEW e \in S
  PROVE  InsertAt(s, Len(s) + 1, e) = Append(s, e)
<1>1. Len(s) \in Nat /\ SubSeq(s, 1, Len(s)) = s
  BY LenProperties, SubSeqFull
<1>2. SubSeq(s, Len(s) + 1, Len(s)) = <<>>
  BY <1>1, SubSeqEmpty
<1>3. s \o <<e>> = Append(s, e) /\ s \o <<e>> \in Seq(S)
  BY AppendIsConcat, ConcatProperties
<1>4. (s \o <<e>>) \o <<>> = s \o <<e>>
  BY <1>3, ConcatEmptySeq
<1>5. (Len(s) + 1) - 1 = Len(s)
  BY <1>1
<1>6. InsertAt(s, Len(s) + 1, e)
        = SubSeq(s, 1, (Len(s) + 1) - 1) \o <<e>> \o SubSeq(s, Len(s) + 1, Len(s))
  BY DEF InsertAt
<1> QED
  BY <1>1, <1>2, <1>3, <1>4, <1>5, <1>6, Zenon

(* What is left of a sequence after one element was removed.               *)
LEMMA Removed ==
  ASSUME NEW S, NEW s \in Seq(S), NEW i \in 1 .. Len(s)
  PROVE  /\ RemoveAt(s, i) \in Seq(S)
         /\ Len(RemoveAt(s, i)) = Len(s) - 1
         /\ \A j \in 1 .. Len(s) - 1 :
              RemoveAt(s, i)[j] = IF j < i THEN s[j] ELSE s[j + 1]
<1> DEFINE a == SubSeq(s, 1, i - 1)
           b == SubSeq(s, i + 1, Len(s))
<1>0. Len(s) \in Nat /\ \A j \in 1 .. Len(s) : s[j] \in S
  BY LenProperties, ElementOfSeq
<1>1. /\ a \in Seq(S) /\ Len(a) = i - 1
      /\ \A j \in 1 .. i - 1 : a[j] = s[j]
  BY <1>0, SubSeqProperties
<1>2. /\ b \in Seq(S) /\ Len(b) = Len(s) - i
      /\ \A j \in 1 .. Len(s) - i : b[j] = s[i + j]
  <2>1. \A j \in i + 1 .. Len(s) : s[j] \in S
    BY <1>0
  <2>2. /\ b \in Seq(S)
        /\ Len(b) = IF i + 1 <= Len(s) THEN Len(s) - (i + 1) + 1 ELSE 0
        /\ \A j \in 1 .. Len(s) - (i + 1) + 1 : b[j] = s[(i + 1) + j - 1]
    BY <1>0, <2>1, SubSeqProperties
  <2> QED
    BY <1>0, <2>2
<1>3. RemoveAt(s, i) = a \o b
  BY DEF RemoveAt
<1> HIDE DEF a, b
<1>4. /\ a \o b \in Seq(S)
      /\ Len(a \o b) = Len(a) + Len(b)
      /\ \A j \in 1 .. Len(a) + Len(b) : (a \o b)[j] =
           IF j <= Len(a) THEN a[j] ELSE b[j - Len(a)]
  BY <1>1, <1>2, ConcatProperties
<1>5. Len(RemoveAt(s, i)) = Len(s) - 1 /\ RemoveAt(s, i) \in Seq(S)
  BY <1>0, <1>1, <1>2, <1>3, <1>4
<1>6. ASSUME NEW j \in 1 .. Len(s) - 1
      PROVE  RemoveAt(s, i)[j] = IF j < i THEN s[j] ELSE s[j + 1]
  <2>1. RemoveAt(s, i)[j] = IF j <= Len(a) THEN a[j] ELSE b[j - Len(a)]
    BY <1>0, <1>1, <1>2, <1>3, <1>4
  <2>2. CASE j < i
    BY <1>0, <1>1, <2>1, <2>2
  <2>3. CASE j >= i
    <3>1. ~(j <= Len(a)) /\ j - Len(a) = j - i + 1 /\ j - i + 1 \in 1 .. Len(s) - i
      BY <1>0, <1>1, <2>3
    <3>2. b[j - i + 1] = s[i + (j - i + 1)] /\ i + (j - i + 1) = j + 1
      BY <1>0, <1>2, <3>1
    <3> QED
      BY <1>0, <2>1, <2>3, <3>1, <3>2
  <2> QED
    BY <1>0, <2>2, <2>3
<1> QED
  BY <1>5, <1>6

(* SetToSeq lists every element of a finite set once.                      *)
LEMMA Listed ==
  ASSUME NEW S, IsFiniteSet(S)
  PROVE  /\ SetToSeq(S) \in [1 .. Cardinality(S) -> S]
         /\ IsInjective(SetToSeq(S))
         /\ \A x \in S : \E i \in 1 .. Cardinality(S) : SetToSeq(S)[i] = x
<1> DEFINE c == Cardinality(S)
           f == SetToSeq(S)
<1>0. c \in Nat /\ ExistsBijection(1 .. c, S)
  BY FS_CardinalityType
<1>1. \E g \in [1 .. c -> S] : IsInjective(g)
  BY <1>0 DEF ExistsBijection, Bijection, Injection
<1>2. f \in [1 .. c -> S] /\ IsInjective(f)
  BY <1>1 DEF SetToSeq
<1> HIDE DEF c, f
<1>3. f \in Bijection(1 .. c, Range(f))
  BY <1>2, Fun_InjMeansBijImage DEF Injection
<1>4. IsFiniteSet(1 .. c) /\ Cardinality(1 .. c) = c
  BY <1>0, FS_Interval
<1>5. Cardinality(Range(f)) = c
  BY <1>3, <1>4, FS_Bijection DEF ExistsBijection
<1>6. Range(f) \in SUBSET S
  BY <1>2 DEF Range
<1>7. Range(f) = S
  BY <1>5, <1>6, FS_Subset DEF c
<1> QED
  BY <1>2, <1>7 DEF Range, c, f
-----------------------------------------------------------------------------
(* The rows of a model.                                                    *)

(* Where the row of an instance is, if the names are unique.               *)
LEMMA RowFound ==
  ASSUME NEW rs \in Seq(Row), Unique(rs), NEW i \in 1 .. Len(rs)
  PROVE  RowOf(rs, rs[i].name) = i
<1> DEFINE I == {j \in 1 .. Len(rs) : rs[j].name = rs[i].name}
<1>1. RowOf(rs, rs[i].name) = IF I # {} THEN Min(I) ELSE 0
  BY DEF RowOf, SelectInSeq
<1>2. I = {i} /\ i \in Int
  BY LenProperties DEF Unique
<1> HIDE DEF I
<1>3. Min({i}) = i
  BY <1>2 DEF Min
<1> QED
  BY <1>1, <1>2, <1>3

LEMMA RowMissing ==
  ASSUME NEW rs \in Seq(Row), Unique(rs), NEW n
  PROVE  /\ RowOf(rs, n) # 0 <=> n \in RowNames(rs)
         /\ RowOf(rs, n) # 0 => RowOf(rs, n) \in 1 .. Len(rs) /\ rs[RowOf(rs, n)].name = n
<1>0. DOMAIN rs = 1 .. Len(rs) /\ Len(rs) \in Nat
  BY LenProperties
<1>1. CASE n \in RowNames(rs)
  <2>1. PICK i \in 1 .. Len(rs) : n = rs[i].name
    BY <1>0, <1>1 DEF RowNames
  <2>2. RowOf(rs, n) = i
    BY <2>1, RowFound
  <2> QED
    BY <1>0, <1>1, <2>1, <2>2
<1>2. CASE n \notin RowNames(rs)
  <2> DEFINE I == {j \in 1 .. Len(rs) : rs[j].name = n}
  <2>1. RowOf(rs, n) = IF I # {} THEN Min(I) ELSE 0
    BY DEF RowOf, SelectInSeq
  <2>2. I = {}
    BY <1>0, <1>2 DEF RowNames
  <2> QED
    BY <1>2, <2>1, <2>2
<1> QED
  BY <1>1, <1>2

(* _addInstanceItem, and the view after the insertion.                     *)
LEMMA RowAdded ==
  ASSUME NEW rs \in Seq(Row), Unique(rs), NEW n \in Names, n \notin RowNames(rs),
         NEW im, \A k \in DOMAIN im : im[k] \subseteq Texts
  PROVE  LET new == AddInstanceItem(rs, n, im)
             pos == InsertedRow(rs)
         IN  /\ new \in Seq(Row) /\ Unique(new)
             /\ RowNames(new) = RowNames(rs) \cup {n}
             /\ InsertAt(Shown(rs), pos, Shown(new)[pos]) = Shown(new)
<1> DEFINE new == AddInstanceItem(rs, n, im)
           pos == Len(rs) + 1
           row == InstanceItem(n, im)
<1>0. Len(rs) \in Nat /\ DOMAIN rs = 1 .. Len(rs)
  BY LenProperties
<1>1. row \in Row /\ row.name = n
  BY DEF InstanceItem, Row
<1>2. new = Append(rs, row)
  BY DEF AddInstanceItem
<1> HIDE DEF row, new
<1>3. /\ new \in Seq(Row) /\ Len(new) = pos
      /\ \A i \in 1 .. Len(rs) : new[i] = rs[i]
      /\ new[pos] = row
  BY <1>1, <1>2, AppendProperties
<1>4. DOMAIN new = 1 .. pos
  BY <1>3, LenProperties
<1>5. \A i \in 1 .. Len(rs) : rs[i].name # n
  BY <1>0 DEF RowNames
<1>6. Unique(new)
  BY <1>0, <1>1, <1>3, <1>5 DEF Unique
<1>7. RowNames(new) = RowNames(rs) \cup {n}
  <2>1. \A x : x \in RowNames(new) <=> \E i \in 1 .. pos : x = new[i].name
    BY <1>4 DEF RowNames
  <2>2. \A x : x \in RowNames(rs) <=> \E i \in 1 .. Len(rs) : x = rs[i].name
    BY <1>0 DEF RowNames
  <2>3. \A x : x \in RowNames(new) <=> x \in RowNames(rs) \/ x = n
    BY <1>0, <1>1, <1>3, <2>1, <2>2
  <2> QED
    BY <2>3
<1>8. Shown(new) = Append(Shown(rs), n)
  <2>1. /\ Shown(new) \in Seq(Names) /\ Len(Shown(new)) = pos
        /\ Shown(new) = [r \in 1 .. pos |-> new[r].name]
    BY <1>3, ShownRows
  <2>2. /\ Shown(rs) \in Seq(Names) /\ Len(Shown(rs)) = Len(rs)
        /\ Shown(rs) = [r \in 1 .. Len(rs) |-> rs[r].name]
    BY ShownRows
  <2>3. /\ Append(Shown(rs), n) \in Seq(Names)
        /\ Len(Append(Shown(rs), n)) = pos
        /\ \A i \in 1 .. Len(rs) : Append(Shown(rs), n)[i] = Shown(rs)[i]
        /\ Append(Shown(rs), n)[pos] = n
    BY <2>2, AppendProperties
  <2>4. \A i \in 1 .. pos : Shown(new)[i] = Append(Shown(rs), n)[i]
    <3>1. \A i \in 1 .. Len(rs) : Shown(new)[i] = Shown(rs)[i]
      BY <1>0, <1>3, <2>1, <2>2
    <3>2. Shown(new)[pos] = n
      BY <1>0, <1>1, <1>3, <2>1
    <3> QED
      BY <1>0, <2>3, <3>1, <3>2
  <2> QED
    BY <2>1, <2>3, <2>4, SeqEqual
<1>9. InsertAt(Shown(rs), pos, n) = Append(Shown(rs), n)
  BY ShownRows, InsertAtEnd
<1>10. Shown(new)[pos] = n
  BY <1>0, <1>1, <1>3, ShownRows
<1> QED
  BY <1>3, <1>6, <1>7, <1>8, <1>9, <1>10 DEF InsertedRow, new

(* _removeInstanceItem of a row, and the view after the removal.           *)
LEMMA RowRemoved ==
  ASSUME NEW rs \in Seq(Row), Unique(rs), NEW n, RowOf(rs, n) # 0
  PROVE  LET new == RemoveInstanceItem(rs, n)
         IN  /\ new \in Seq(Row) /\ Unique(new)
             /\ RowNames(new) = RowNames(rs) \ {n}
             /\ RemoveAt(Shown(rs), RowOf(rs, n)) = Shown(new)
<1> DEFINE new == RemoveInstanceItem(rs, n)
           pos == RowOf(rs, n)
           len == Len(rs)
           At(j) == IF j < pos THEN j ELSE j + 1
<1>0. len \in Nat /\ DOMAIN rs = 1 .. len /\ pos \in 1 .. len /\ rs[pos].name = n
  BY LenProperties, RowMissing
<1>1. new = RemoveAt(rs, pos)
  BY DEF RemoveInstanceItem
<1> HIDE DEF new, pos
<1>2. /\ new \in Seq(Row) /\ Len(new) = len - 1 /\ DOMAIN new = 1 .. len - 1
      /\ \A j \in 1 .. len - 1 : new[j] = rs[At(j)]
  BY <1>0, <1>1, Removed, LenProperties
<1>3. \A j \in 1 .. len - 1 : At(j) \in 1 .. len /\ At(j) # pos
  BY <1>0
<1>4. \A i, j \in 1 .. len - 1 : At(i) = At(j) => i = j
  BY <1>0
<1>5. \A i \in 1 .. len : i # pos => \E j \in 1 .. len - 1 : At(j) = i
  <2> SUFFICES ASSUME NEW i \in 1 .. len, i # pos
               PROVE  \E j \in 1 .. len - 1 : At(j) = i
    OBVIOUS
  <2>1. CASE i < pos
    BY <1>0, <2>1
  <2>2. CASE i > pos
    <3>1. i - 1 \in 1 .. len - 1 /\ At(i - 1) = i
      BY <1>0, <2>2
    <3> QED
      BY <3>1
  <2> QED
    BY <1>0, <2>1, <2>2
<1> HIDE DEF At, len
<1>6. Unique(new)
  BY <1>2, <1>3, <1>4 DEF Unique, len
<1>7. RowNames(new) = RowNames(rs) \ {n}
  <2>1. \A x : x \in RowNames(new) <=> \E j \in 1 .. len - 1 : x = rs[At(j)].name
    BY <1>2 DEF RowNames
  <2>2. \A x : x \in RowNames(rs) <=> \E i \in 1 .. len : x = rs[i].name
    BY <1>0 DEF RowNames
  <2>3. \A i \in 1 .. len : rs[i].name = n <=> i = pos
    BY <1>0 DEF Unique, len
  <2>4. \A x : x \in RowNames(new) <=> x \in RowNames(rs) /\ x # n
    BY <1>3, <1>5, <2>1, <2>2, <2>3
  <2> QED
    BY <2>4
<1>8. RemoveAt(Shown(rs), pos) = Shown(new)
  <2>1. /\ Shown(rs) \in Seq(Names) /\ Len(Shown(rs)) = len
        /\ Shown(rs) = [r \in 1 .. len |-> rs[r].name]
    BY ShownRows DEF len
  <2>2. /\ Shown(new) \in Seq(Names) /\ Len(Shown(new)) = len - 1
        /\ Shown(new) = [r \in 1 .. len - 1 |-> new[r].name]
    BY <1>2, ShownRows
  <2>3. /\ RemoveAt(Shown(rs), pos) \in Seq(Names)
        /\ Len(RemoveAt(Shown(rs), pos)) = len - 1
        /\ \A j \in 1 .. len - 1 : RemoveAt(Shown(rs), pos)[j] = Shown(rs)[At(j)]
    BY <1>0, <2>1, Removed DEF At
  <2>4. \A j \in 1 .. len - 1 : RemoveAt(Shown(rs), pos)[j] = Shown(new)[j]
    <3> TAKE j \in 1 .. len - 1
    <3>1. At(j) \in 1 .. len /\ new[j] = rs[At(j)]
      BY <1>2, <1>3
    <3>2. Shown(rs)[At(j)] = rs[At(j)].name
      BY <2>1, <3>1
    <3>3. Shown(new)[j] = new[j].name
      BY <2>2
    <3> QED
      BY <2>3, <3>1, <3>2, <3>3
  <2> QED
    BY <2>2, <2>3, <2>4, SeqEqual
<1> QED
  BY <1>2, <1>6, <1>7, <1>8 DEF new, pos

(* _removeInstanceItem of a pair that looks like the instance: the rows    *)
(* keep their names.                                                       *)
LEMMA PairRemoved ==
  ASSUME NEW rs \in Seq(Row), Unique(rs), NEW n, RowOf(rs, n) = 0
  PROVE  LET new == RemoveInstanceItem(rs, n)
         IN  /\ new \in Seq(Row) /\ Unique(new)
             /\ RowNames(new) = RowNames(rs)
             /\ Shown(new) = Shown(rs)
<1> DEFINE new == RemoveInstanceItem(rs, n)
           r == SelectInSeq(rs, LAMBDA row : n \in row.pairs)
<1>0. Len(rs) \in Nat /\ DOMAIN rs = 1 .. Len(rs)
  BY LenProperties
<1>1. new = [rs EXCEPT ![r].pairs = @ \ {n}]
  BY DEF RemoveInstanceItem
<1> HIDE DEF r, new
<1>2. ASSUME NEW i \in 1 .. Len(rs)
      PROVE  new[i] \in Row /\ new[i].name = rs[i].name
  <2>1. rs[i] \in Row
    BY ElementOfSeq
  <2>2. new[i] = IF i = r THEN [rs[i] EXCEPT !.pairs = @ \ {n}] ELSE rs[i]
    BY <1>0, <1>1
  <2> QED
    BY <2>1, <2>2 DEF Row
<1>3. /\ new = [i \in 1 .. Len(rs) |-> new[i]]
      /\ DOMAIN new = 1 .. Len(rs)
  BY <1>0, <1>1
<1>4. new \in Seq(Row) /\ Len(new) = Len(rs)
  BY <1>0, <1>2, <1>3
<1>5. Unique(new)
  BY <1>2, <1>4 DEF Unique
<1>6. RowNames(new) = RowNames(rs)
  <2>1. \A x : x \in RowNames(new) <=> \E i \in 1 .. Len(rs) : x = new[i].name
    BY <1>3 DEF RowNames
  <2>2. \A x : x \in RowNames(rs) <=> \E i \in 1 .. Len(rs) : x = rs[i].name
    BY <1>0 DEF RowNames
  <2>3. \A x : x \in RowNames(new) <=> x \in RowNames(rs)
    BY <1>2, <2>1, <2>2
  <2> QED
    BY <2>3
<1>7. Shown(new) = Shown(rs)
  BY <1>2, <1>4, ShownRows
<1> QED
  BY <1>4, <1>5, <1>6, <1>7 DEF new

(* The rows that the constructor makes.                                    *)
LEMMA RowsKnown ==
  ASSUME TypeOK
  PROVE  /\ KnownRows \in Seq(Row) /\ Unique(KnownRows)
         /\ RowNames(KnownRows) = DOMAIN map
<1> DEFINE names == SetToSeq(DOMAIN map)
           c == Cardinality(DOMAIN map)
<1>0. IsFiniteSet(DOMAIN map) /\ c \in Nat
  BY FS_CardinalityType DEF TypeOK
<1>1. /\ names \in [1 .. c -> DOMAIN map] /\ IsInjective(names)
      /\ \A n \in DOMAIN map : \E i \in 1 .. c : names[i] = n
  BY <1>0, Listed
<1>2. KnownRows = [i \in 1 .. c |-> InstanceItem(names[i], map)]
  BY <1>1 DEF KnownRows
<1> HIDE DEF names, c
<1>3. ASSUME NEW n \in DOMAIN map
      PROVE  InstanceItem(n, map) \in Row /\ InstanceItem(n, map).name = n
  BY DEF TypeOK, InstanceItem, Row
<1>4. KnownRows \in Seq(Row) /\ Len(KnownRows) = c /\ DOMAIN KnownRows = 1 .. c
  BY <1>0, <1>1, <1>2, <1>3
<1>5. \A i \in 1 .. c : KnownRows[i].name = names[i] /\ names[i] \in DOMAIN map
  BY <1>1, <1>2, <1>3
<1>6. Unique(KnownRows)
  BY <1>1, <1>4, <1>5 DEF Unique, IsInjective
<1>7. \A x : x \in RowNames(KnownRows) <=> \E i \in 1 .. c : x = KnownRows[i].name
  BY <1>4 DEF RowNames
<1>8. RowNames(KnownRows) = DOMAIN map
  <2>1. \A x : x \in RowNames(KnownRows) <=> x \in DOMAIN map
    BY <1>1, <1>5, <1>7
  <2> QED
    BY <2>1
<1> QED
  BY <1>4, <1>6, <1>8
-----------------------------------------------------------------------------
(* The steps.                                                              *)

AnnouncedTyped == \A n \in DOMAIN announced : announced[n] \subseteq Texts

MapTyped ==
  /\ IsFiniteSet(DOMAIN map) /\ DOMAIN map \subseteq Names
  /\ \A n \in DOMAIN map : map[n] \subseteq Texts

\* Every model has a row for every instance the service knows.
AllRowed == \A m \in alive : DOMAIN map \subseteq RowNames(rows[m])

(* Rows and views that are right one by one.                               *)
LEMMA RowsStep ==
  ASSUME AnnouncedTyped', MapTyped', alive' \subseteq Models,
         rows' = [m \in Models |-> rows'[m]], view' = [m \in Models |-> view'[m]],
         \A m \in Models : /\ rows'[m] \in Seq(Row) /\ Unique(rows'[m])
                           /\ view'[m] = Shown(rows'[m]),
         NamesApart => AllRowed'
  PROVE  Inv'
<1>1. \A m \in Models : view'[m] \in Seq(Names)
  BY ShownRows
<1>2. rows' \in [Models -> Seq(Row)]
  OBVIOUS
<1>3. view' \in [Models -> Seq(Names)]
  BY <1>1
<1>4. TypeOK'
  BY <1>2, <1>3 DEF TypeOK, AnnouncedTyped, MapTyped
<1>5. UniqueRows' /\ ViewsShow'
  BY DEF UniqueRows, ViewsShow
<1>6. Rowed'
  BY DEF Rowed, AllRowed, NamesApart, Texts
<1> QED
  BY <1>4, <1>5, <1>6 DEF Inv

(* The invariant, as the steps use it.                                     *)
LEMMA InvFacts ==
  ASSUME Inv
  PROVE  /\ AnnouncedTyped /\ MapTyped /\ alive \subseteq Models
         /\ rows = [m \in Models |-> rows[m]] /\ view = [m \in Models |-> view[m]]
         /\ \A m \in Models : /\ rows[m] \in Seq(Row) /\ Unique(rows[m])
                              /\ view[m] = Shown(rows[m])
         /\ NamesApart => AllRowed
BY DEF Inv, TypeOK, UniqueRows, ViewsShow, Rowed, AnnouncedTyped, MapTyped, AllRowed

(* What was found of an instance is made of texts of pairs.                *)
LEMMA MapPut ==
  ASSUME MapTyped, NEW n \in Names, NEW ps \in SUBSET Texts, map' = Put(map, n, ps)
  PROVE  MapTyped' /\ DOMAIN map' = DOMAIN map \cup {n}
<1>1. DOMAIN map' = DOMAIN map \cup {n}
  BY DEF Put
<1>2. IsFiniteSet(DOMAIN map \cup {n})
  BY FS_AddElement DEF MapTyped
<1>3. \A k \in DOMAIN map' : map'[k] \subseteq Texts
  BY DEF Put, MapTyped
<1> QED
  BY <1>1, <1>2, <1>3 DEF MapTyped, Texts

LEMMA MapWithout ==
  ASSUME MapTyped, NEW n, map' = Without(map, n)
  PROVE  MapTyped' /\ DOMAIN map' = DOMAIN map \ {n}
<1>1. DOMAIN map' = DOMAIN map \ {n}
  BY DEF Without, Restrict
<1>2. IsFiniteSet(DOMAIN map \ {n})
  BY FS_RemoveElement DEF MapTyped
<1>3. \A k \in DOMAIN map' : map'[k] \subseteq Texts
  BY DEF Without, Restrict, MapTyped
<1> QED
  BY <1>1, <1>2, <1>3 DEF MapTyped, Texts

(* beginBrowsing() leaves the map or empties it.                           *)
LEMMA MapBegin ==
  ASSUME MapTyped, BeginBrowsing \/ EndBrowsing
  PROVE  MapTyped' /\ DOMAIN map' \subseteq DOMAIN map
<1>1. CASE map' = map
  BY <1>1 DEF MapTyped, Texts
<1>2. CASE map' = NoInstances
  <2>1. DOMAIN map' = {}
    BY <1>2 DEF NoInstances
  <2>2. IsFiniteSet({})
    BY FS_EmptySet
  <2> QED
    BY <2>1, <2>2 DEF MapTyped
<1> QED
  BY <1>1, <1>2 DEF BeginBrowsing, EndBrowsing, service

LEMMA InitInv == Init => Inv
<1> SUFFICES ASSUME Init PROVE Inv
  OBVIOUS
<1>0. <<>> \in Seq(Row) /\ <<>> \in Seq(Names) /\ Len(<<>>) = 0
  BY EmptySeq
<1>1. AnnouncedTyped
  <2>1. PICK S \in SUBSET Names : announced \in [S -> Datas]
    BY DEF Init, Maps
  <2> QED
    BY <2>1 DEF AnnouncedTyped, Datas, Texts
<1>2. IsFiniteSet(DOMAIN map) /\ DOMAIN map = {}
  BY FS_EmptySet DEF Init, NoInstances
<1>3. TypeOK
  BY <1>0, <1>1, <1>2 DEF TypeOK, Init, AnnouncedTyped
<1>4. UniqueRows
  BY <1>0 DEF UniqueRows, Unique, Init
<1>5. ViewsShow
  <2>1. Shown(<<>>) \in Seq(Names) /\ Len(Shown(<<>>)) = 0
    BY <1>0, ShownRows
  <2>2. Shown(<<>>) = <<>>
    BY <2>1, EmptySeq
  <2> QED
    BY <2>2 DEF ViewsShow, Init
<1>6. Rowed
  BY DEF Rowed, Init
<1> QED
  BY <1>3, <1>4, <1>5, <1>6 DEF Inv

(* Steps of the network.                                                   *)
LEMMA NetworkInv ==
  ASSUME Inv, UNCHANGED <<service, alive, rows, view>>, AnnouncedTyped'
  PROVE  Inv'
<1>1. MapTyped' /\ (NamesApart => AllRowed')
  BY InvFacts DEF service, MapTyped, AllRowed, Texts, RowNames
<1> QED
  BY <1>1, InvFacts, RowsStep

LEMMA FoundInv ==
  ASSUME Inv, NEW n \in Names, Found(n)
  PROVE  Inv'
<1> DEFINE new == {m \in alive : ~FindChild(rows[m], n)}
<1>0. AnnouncedTyped' /\ alive' = alive /\ alive \subseteq Models
  BY InvFacts DEF Found, AnnouncedTyped, Texts
<1>1. Merge(Known(n), announced[n]) \in SUBSET Texts
  BY InvFacts DEF Found, Merge, Known, AnnouncedTyped, MapTyped
<1>2. MapTyped' /\ DOMAIN map' = DOMAIN map \cup {n}
  BY <1>1, InvFacts, MapPut DEF Found
<1>3. /\ rows' = [m \in Models |-> IF m \in new
                    THEN AddInstanceItem(rows[m], n, map') ELSE rows[m]]
      /\ view' = [m \in Models |-> IF m \in new
                    THEN LET r == InsertedRow(rows[m])
                         IN  InsertAt(view[m], r, Shown(rows'[m])[r])
                    ELSE view[m]]
  BY DEF Found, InstanceAdded
<1>4. ASSUME NEW m \in Models
      PROVE  /\ rows'[m] \in Seq(Row) /\ Unique(rows'[m])
             /\ view'[m] = Shown(rows'[m])
             /\ RowNames(rows[m]) \subseteq RowNames(rows'[m])
             /\ m \in new => n \in RowNames(rows'[m])
  <2>0. /\ rows[m] \in Seq(Row) /\ Unique(rows[m]) /\ view[m] = Shown(rows[m])
        /\ \A k \in DOMAIN map' : map'[k] \subseteq Texts
    BY <1>2, InvFacts DEF MapTyped, Texts
  <2>1. CASE m \in new
    <3>1. n \notin RowNames(rows[m])
      BY <2>0, <2>1, RowMissing DEF FindChild
    <3>2. LET add == AddInstanceItem(rows[m], n, map')
              pos == InsertedRow(rows[m])
          IN  /\ add \in Seq(Row) /\ Unique(add)
              /\ RowNames(add) = RowNames(rows[m]) \cup {n}
              /\ InsertAt(Shown(rows[m]), pos, Shown(add)[pos]) = Shown(add)
      BY <2>0, <3>1, RowAdded
    <3>3. rows'[m] = AddInstanceItem(rows[m], n, map')
      BY <1>3, <2>1
    <3>4. view'[m] = InsertAt(view[m], InsertedRow(rows[m]),
                              Shown(rows'[m])[InsertedRow(rows[m])])
      BY <1>3, <2>1
    <3> QED
      BY <2>0, <3>2, <3>3, <3>4
  <2>2. CASE m \notin new
    BY <1>3, <2>0, <2>2
  <2> QED
    BY <2>1, <2>2
<1>5. NamesApart => AllRowed'
  <2> SUFFICES ASSUME NamesApart, NEW m \in alive
               PROVE  DOMAIN map' \subseteq RowNames(rows'[m])
    BY <1>0 DEF AllRowed, RowNames
  <2>1. m \in Models /\ DOMAIN map \subseteq RowNames(rows[m]) /\ rows[m] \in Seq(Row) /\ Unique(rows[m])
    BY InvFacts DEF AllRowed
  <2>2. CASE m \in new
    BY <1>2, <1>4, <2>1, <2>2
  <2>3. CASE m \notin new
    <3>1. RowOf(rows[m], n) # 0 \/ \E r \in DOMAIN rows[m] : n \in rows[m][r].pairs
      BY <2>3 DEF FindChild
    <3>2. \A r \in DOMAIN rows[m] : rows[m][r].pairs \subseteq Texts
      <4> TAKE r \in DOMAIN rows[m]
      <4>1. rows[m][r] \in Row
        BY <2>1, ElementOfSeq, LenProperties
      <4> QED
        BY <4>1 DEF Row
    <3>3. n \in RowNames(rows[m])
      BY <2>1, <3>1, <3>2, RowMissing DEF NamesApart
    <3> QED
      BY <1>2, <1>4, <2>1, <3>3
  <2> QED
    BY <2>2, <2>3
<1>6. rows' = [m \in Models |-> rows'[m]] /\ view' = [m \in Models |-> view'[m]]
  BY <1>3
<1> QED
  BY <1>0, <1>2, <1>4, <1>5, <1>6, RowsStep

LEMMA LostInv ==
  ASSUME Inv, NEW n \in Names, Lost(n)
  PROVE  Inv'
<1> DEFINE gone == {m \in alive : FindChild(rows[m], n)}
<1>0. AnnouncedTyped' /\ alive' = alive /\ alive \subseteq Models
  BY InvFacts DEF Lost, AnnouncedTyped, Texts
<1>1. MapTyped' /\ DOMAIN map' = DOMAIN map \ {n}
  BY InvFacts, MapWithout DEF Lost
<1>2. /\ rows' = [m \in Models |-> IF m \in gone
                    THEN RemoveInstanceItem(rows[m], n) ELSE rows[m]]
      /\ view' = [m \in Models |-> IF m \in gone /\ RowOf(rows[m], n) # 0
                    THEN RemoveAt(view[m], RowOf(rows[m], n)) ELSE view[m]]
  BY DEF Lost, InstanceRemoved
<1>3. ASSUME NEW m \in Models
      PROVE  /\ rows'[m] \in Seq(Row) /\ Unique(rows'[m])
             /\ view'[m] = Shown(rows'[m])
             /\ RowNames(rows[m]) \ {n} \subseteq RowNames(rows'[m])
  <2>0. rows[m] \in Seq(Row) /\ Unique(rows[m]) /\ view[m] = Shown(rows[m])
    BY InvFacts
  <2>1. CASE m \in gone /\ RowOf(rows[m], n) # 0
    <3>1. LET left == RemoveInstanceItem(rows[m], n)
          IN  /\ left \in Seq(Row) /\ Unique(left)
              /\ RowNames(left) = RowNames(rows[m]) \ {n}
              /\ RemoveAt(Shown(rows[m]), RowOf(rows[m], n)) = Shown(left)
      BY <2>0, <2>1, RowRemoved
    <3>2. /\ rows'[m] = RemoveInstanceItem(rows[m], n)
          /\ view'[m] = RemoveAt(view[m], RowOf(rows[m], n))
      BY <1>2, <2>1
    <3> QED
      BY <2>0, <3>1, <3>2
  <2>2. CASE m \in gone /\ RowOf(rows[m], n) = 0
    <3>1. LET left == RemoveInstanceItem(rows[m], n)
          IN  /\ left \in Seq(Row) /\ Unique(left)
              /\ RowNames(left) = RowNames(rows[m])
              /\ Shown(left) = Shown(rows[m])
      BY <2>0, <2>2, PairRemoved
    <3>2. rows'[m] = RemoveInstanceItem(rows[m], n) /\ view'[m] = view[m]
      BY <1>2, <2>2
    <3> QED
      BY <2>0, <3>1, <3>2
  <2>3. CASE m \notin gone
    BY <1>2, <2>0, <2>3
  <2> QED
    BY <2>1, <2>2, <2>3
<1>4. NamesApart => AllRowed'
  <2> SUFFICES ASSUME NamesApart, NEW m \in alive
               PROVE  DOMAIN map' \subseteq RowNames(rows'[m])
    BY <1>0 DEF AllRowed, RowNames
  <2>1. m \in Models /\ DOMAIN map \subseteq RowNames(rows[m])
    BY InvFacts DEF AllRowed
  <2> QED
    BY <1>1, <1>3, <2>1
<1>5. rows' = [m \in Models |-> rows'[m]] /\ view' = [m \in Models |-> view'[m]]
  BY <1>2
<1> QED
  BY <1>0, <1>1, <1>3, <1>4, <1>5, RowsStep

(* The client begins and ends browsing while there is no model.            *)
LEMMA ClientInv ==
  ASSUME Inv, ClientBegins \/ ClientEnds
  PROVE  Inv'
<1>1. BeginBrowsing \/ EndBrowsing
  BY DEF ClientBegins, ClientEnds
<1>2. UNCHANGED <<announced, alive, rows, view>> /\ alive = {}
  BY DEF ClientBegins, ClientEnds
<1>3. MapTyped'
  BY <1>1, InvFacts, MapBegin
<1>4. AnnouncedTyped' /\ AllRowed'
  BY <1>2, InvFacts DEF AnnouncedTyped, AllRowed, Texts
<1> QED
  BY <1>2, <1>3, <1>4, InvFacts, RowsStep

(* One model gets other rows, the others keep theirs.                      *)
LEMMA ModelInv ==
  ASSUME Inv, NEW m \in Models, NEW rs \in Seq(Row), Unique(rs),
         rows' = [rows EXCEPT ![m] = rs], view' = [view EXCEPT ![m] = Shown(rs)],
         alive' \subseteq alive \cup {m}, BeginBrowsing \/ EndBrowsing,
         m \in alive' => DOMAIN map \subseteq RowNames(rs),
         UNCHANGED announced
  PROVE  Inv'
<1>1. MapTyped' /\ DOMAIN map' \subseteq DOMAIN map
  BY InvFacts, MapBegin
<1>2. AnnouncedTyped'
  BY InvFacts DEF AnnouncedTyped, Texts
<1>3. /\ rows' = [k \in Models |-> IF k = m THEN rs ELSE rows[k]]
      /\ view' = [k \in Models |-> IF k = m THEN Shown(rs) ELSE view[k]]
  BY InvFacts
<1>4. \A k \in Models : /\ rows'[k] \in Seq(Row) /\ Unique(rows'[k])
                         /\ view'[k] = Shown(rows'[k])
  BY <1>3, InvFacts
<1>5. NamesApart => AllRowed'
  <2> SUFFICES ASSUME NamesApart, NEW k \in alive'
               PROVE  DOMAIN map' \subseteq RowNames(rows'[k])
    BY DEF AllRowed, RowNames
  <2>1. CASE k = m
    BY <1>1, <1>3, <2>1
  <2>2. CASE k # m
    <3>1. k \in alive /\ k \in Models /\ DOMAIN map \subseteq RowNames(rows[k])
      BY <2>2, InvFacts DEF AllRowed
    <3>2. rows'[k] = rows[k]
      BY <1>3, <2>2, <3>1
    <3> QED
      BY <1>1, <3>1, <3>2
  <2> QED
    BY <2>1, <2>2
<1>6. rows' = [k \in Models |-> rows'[k]] /\ view' = [k \in Models |-> view'[k]]
  BY <1>3
<1>7. alive' \subseteq Models
  BY InvFacts
<1> QED
  BY <1>1, <1>2, <1>4, <1>5, <1>6, <1>7, RowsStep

LEMMA ConstructInv ==
  ASSUME Inv, NEW m \in Models, Construct(m)
  PROVE  Inv'
<1>1. /\ KnownRows \in Seq(Row) /\ Unique(KnownRows)
      /\ RowNames(KnownRows) = DOMAIN map
  BY RowsKnown DEF Inv
<1>2. rows' = [rows EXCEPT ![m] = KnownRows] /\ rows \in [Models -> Seq(Row)]
  BY DEF Construct, Inv, TypeOK
<1>3. view' = [view EXCEPT ![m] = Shown(KnownRows)]
  <2>1. rows'[m] = KnownRows
    BY <1>2
  <2> QED
    BY <2>1 DEF Construct
<1> QED
  BY <1>1, <1>2, <1>3, ModelInv DEF Construct

LEMMA DestroyInv ==
  ASSUME Inv, NEW m \in Models, Destroy(m)
  PROVE  Inv'
<1>1. <<>> \in Seq(Row) /\ Len(<<>>) = 0 /\ Unique(<<>>)
  BY EmptySeq DEF Unique
<1>2. Shown(<<>>) = <<>>
  <2>1. Shown(<<>>) \in Seq(Names) /\ Len(Shown(<<>>)) = 0
    BY <1>1, ShownRows
  <2> QED
    BY <2>1, EmptySeq
<1>3. m \notin alive' /\ alive' \subseteq alive \cup {m}
  BY DEF Destroy
<1> QED
  BY <1>1, <1>2, <1>3, ModelInv DEF Destroy

LEMMA NextInv == Inv /\ [Next]_vars => Inv'
<1> SUFFICES ASSUME Inv, [Next]_vars PROVE Inv'
  OBVIOUS
<1>1. ASSUME NEW n \in Names, NEW pairs \in Datas, Announce(n, pairs) PROVE Inv'
  <2>1. announced' = Put(announced, n, pairs) /\ pairs \subseteq Texts
    BY <1>1 DEF Announce, Datas, Texts
  <2>2. AnnouncedTyped'
    BY <2>1, InvFacts DEF AnnouncedTyped, Put, Texts
  <2> QED
    BY <1>1, <2>2, NetworkInv DEF Announce
<1>2. ASSUME NEW n \in Names, NEW pair \in UNION Entries, SetPair(n, pair) PROVE Inv'
  <2>1. announced' = [announced EXCEPT ![n] = Merge(announced[n], {pair})]
    BY <1>2 DEF SetPair
  <2>2. n \in DOMAIN announced => Merge(announced[n], {pair}) \subseteq Texts
    BY InvFacts DEF Merge, AnnouncedTyped, Texts
  <2>3. AnnouncedTyped'
    BY <2>1, <2>2, InvFacts DEF AnnouncedTyped, Texts
  <2> QED
    BY <1>2, <2>3, NetworkInv DEF SetPair
<1>3. ASSUME NEW n \in Names, Withdraw(n) PROVE Inv'
  <2>1. AnnouncedTyped'
    BY <1>3, InvFacts DEF Withdraw, Without, Restrict, AnnouncedTyped, Texts
  <2> QED
    BY <1>3, <2>1, NetworkInv DEF Withdraw
<1>4. ASSUME NEW n \in Names, Found(n) \/ Lost(n) PROVE Inv'
  BY <1>4, FoundInv, LostInv
<1>5. CASE ClientBegins \/ ClientEnds
  BY <1>5, ClientInv
<1>6. ASSUME NEW m \in Models, Construct(m) \/ Destroy(m) PROVE Inv'
  BY <1>6, ConstructInv, DestroyInv
<1>7. CASE UNCHANGED vars
  <2>1. AnnouncedTyped'
    BY <1>7, InvFacts DEF vars, AnnouncedTyped, Texts
  <2> QED
    BY <1>7, <2>1, NetworkInv DEF vars, service
<1> QED
  BY <1>1, <1>2, <1>3, <1>4, <1>5, <1>6, <1>7 DEF Next

LEMMA Invariance == Spec => []Inv
BY InitInv, NextInv, PTL DEF Spec
-----------------------------------------------------------------------------
(* Whatever instances come, go and change, and whenever models are made    *)
(* and destroyed: a view of the model shows its rows, in their order, so   *)
(* beginInsertRows() and beginRemoveRows() of itemModel.cpp announce       *)
(* exactly the rows that change.                                           *)
THEOREM ViewsInStep == Spec => []ViewInStep
<1>1. Inv => ViewInStep
  BY DEF Inv, TypeOK, ViewsShow, ViewInStep
<1> QED
  BY <1>1, Invariance, PTL

(* Unless an instance is called like the text of a pair, every instance    *)
(* the service knows has exactly one row in every model.                   *)
THEOREM EveryInstanceHasRow ==
  ASSUME NamesApart
  PROVE  Spec => []RowForEveryInstance
<1>1. Inv => RowForEveryInstance
  <2> SUFFICES ASSUME Inv, NEW m \in alive
               PROVE  /\ DOMAIN map \subseteq RowNames(rows[m])
                      /\ Cardinality(RowNames(rows[m])) = Len(rows[m])
    BY DEF RowForEveryInstance
  <2> DEFINE rs == rows[m]
             f  == [i \in 1 .. Len(rs) |-> rs[i].name]
  <2>1. rs \in Seq(Row) /\ Unique(rs) /\ DOMAIN map \subseteq RowNames(rs)
    BY InvFacts DEF AllRowed
  <2> HIDE DEF rs
  <2>2. Len(rs) \in Nat /\ DOMAIN rs = 1 .. Len(rs)
    BY <2>1, LenProperties
  <2>3. f \in Bijection(1 .. Len(rs), RowNames(rs))
    <3>1. f \in [1 .. Len(rs) -> RowNames(rs)]
      BY <2>2 DEF RowNames
    <3>2. \A i, j \in 1 .. Len(rs) : f[i] = f[j] => i = j
      BY <2>1 DEF Unique
    <3>3. \A x \in RowNames(rs) : \E i \in 1 .. Len(rs) : f[i] = x
      BY <2>2 DEF RowNames
    <3> HIDE DEF f
    <3> QED
      BY <3>1, <3>2, <3>3, Fun_IsBij
  <2>4. IsFiniteSet(1 .. Len(rs)) /\ Cardinality(1 .. Len(rs)) = Len(rs)
    <3>1. Cardinality(1 .. Len(rs)) = IF 1 > Len(rs) THEN 0 ELSE Len(rs) - 1 + 1
      BY <2>2, FS_Interval
    <3>2. IsFiniteSet(1 .. Len(rs))
      BY <2>2, FS_Interval
    <3> QED
      BY <2>2, <3>1, <3>2
  <2>5. Cardinality(RowNames(rs)) = Len(rs)
    BY <2>3, <2>4, FS_Bijection DEF ExistsBijection
  <2> QED
    BY <2>1, <2>5 DEF rs
<1> QED
  BY <1>1, Invariance, PTL

(* parent() of itemModel.cpp leads from every index that index() makes,    *)
(* of an instance or of one of its pairs, back to the index it was made    *)
(* for: no two rows have the same name.                                    *)
THEOREM ParentOfIndex == Spec => []IndexParent
<1>1. Inv => IndexParent
  <2> SUFFICES ASSUME Inv, NEW m \in alive, NEW r \in 1 .. RowCount(rows[m], NoIndex)
               PROVE  LET instance == Index(rows[m], r, NoIndex)
                      IN  /\ Parent(rows[m], instance) = NoIndex
                          /\ \A k \in 1 .. RowCount(rows[m], instance) :
                               LET pair == Index(rows[m], k, instance)
                               IN  /\ Parent(rows[m], pair) = instance
                                   /\ RowCount(rows[m], pair) = 0
    BY DEF IndexParent
  <2> DEFINE rs == rows[m]
             name == rs[r].name
             instance == Index(rs, r, NoIndex)
  <2>1. rs \in Seq(Row) /\ Unique(rs) /\ RowCount(rs, NoIndex) = Len(rs)
    BY InvFacts DEF RowCount, NoIndex
  <2>2. RowOf(rs, name) = r
    BY <2>1, RowFound
  <2> HIDE DEF rs, name
  <2>3. instance = [row |-> r, item |-> <<name>>]
    BY DEF Index, name
  <2> HIDE DEF instance
  <2>4. Parent(rs, instance) = NoIndex
    BY <2>3 DEF Parent
  <2>5. ASSUME NEW k \in 1 .. RowCount(rs, instance)
        PROVE  Parent(rs, Index(rs, k, instance)) = instance
               /\ RowCount(rs, Index(rs, k, instance)) = 0
    <3>1. instance # NoIndex
      BY <2>3 DEF NoIndex
    <3> DEFINE text == SetToSeq(rs[instance.row].pairs)[k]
               item == Append(<<name>>, text)
    <3>2. Index(rs, k, instance) = [row |-> k, item |-> item]
      BY <2>3, <3>1 DEF Index
    <3> HIDE DEF text
    <3>3. <<name>> \in Seq({name, text}) /\ Len(<<name>>) = 1 /\ <<name>>[1] = name
      OBVIOUS
    <3>4. Len(item) = 2 /\ item # <<>> /\ item[1] = name
      BY <3>3, AppendProperties
    <3> HIDE DEF item
    <3> DEFINE pair == Index(rs, k, instance)
    <3>5. pair.item = item /\ pair # NoIndex
      BY <3>2, <3>4 DEF NoIndex
    <3> HIDE DEF pair
    <3>6. Parent(rs, pair) = [row |-> r, item |-> <<name>>]
      <4>1. ~(Len(pair.item) < 2)
        BY <3>4, <3>5
      <4>2. Parent(rs, pair)
              = [row |-> RowOf(rs, pair.item[1]), item |-> <<pair.item[1]>>]
        BY <4>1, Zenon DEF Parent
      <4> QED
        BY <2>2, <3>4, <3>5, <4>2, Zenon
    <3>7. RowCount(rs, pair) = 0
      BY <3>4, <3>5 DEF RowCount
    <3> QED
      BY <2>3, <3>6, <3>7 DEF pair
  <2> QED
    BY <2>4, <2>5 DEF rs, instance
<1> QED
  BY <1>1, Invariance, PTL
=============================================================================
