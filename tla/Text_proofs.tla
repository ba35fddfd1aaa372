---------------------------- MODULE Text_proofs ----------------------------
(***************************************************************************)
(* Proofs about the texts of the library: what one object of the class     *)
(* Servus finds of the pairs that another one announces, for any keys,     *)
(* values and size of an entry, and what servus::URI makes of a text, for  *)
(* all texts of all lengths.                                               *)
(***************************************************************************)
EXTENDS Facade, Uri, SequenceTheorems, FunctionTheorems, FiniteSetTheorems,
        WellFoundedInduction, TLAPS

Backends == Zeroconf \cup {"none", "test"}

\* The types of the variables.
TypeOK ==
  /\ writer \in Backends /\ reader \in Backends
  /\ announced \in BOOLEAN /\ browsing \in BOOLEAN /\ fresh \in BOOLEAN
  /\ DOMAIN data \subseteq Keys
  /\ data \in [DOMAIN data -> Values]

\* The name of the service decides for both objects.
SameName == writer = "test" <=> reader = "test"

\* Without a backend nothing is announced, and the map stays empty.
NothingWithoutBackend ==
  /\ reader = "none" => ~browsing /\ values = <<>>
  /\ writer = "none" => ~announced /\ values = <<>>

\* As long as the pairs do not change, reading them again changes nothing.
FreshIsFound ==
  fresh => /\ values # <<>>
           /\ values = IF reader = "test" THEN CopyData(data)
                       ELSE ReadRecord(reader, Record(writer, data), values)

Inv == TypeOK /\ SameName /\ NothingWithoutBackend /\ FreshIsFound /\ OnlyWhatWasSet
-----------------------------------------------------------------------------
(* The operators of sequences and maps.                                    *)

(* The least-number principle.                                             *)
LEMMA LeastNumber ==
  ASSUME NEW S \in SUBSET Nat, S # {}
  PROVE  \E m \in S : \A n \in S : m <= n
<1> DEFINE R == {p \in Nat \X Nat : p[1] < p[2]}
<1>1. IsWellFoundedOn(R, Nat)
  BY NatLessThanWellFounded DEF OpToRel
<1> HIDE DEF R
<1>2. PICK m \in S : \A n \in S : ~(<<n, m>> \in R)
  BY <1>1, WFMin, Zenon
<1>3. ASSUME NEW n \in S PROVE m <= n
  <2>1. ~(<<n, m>> \in R) /\ m \in Nat /\ n \in Nat
    BY <1>2
  <2> QED
    BY <2>1 DEF R
<1> QED
  BY <1>3

(* Min of FiniteSetsExt returns the least element.                         *)
LEMMA MinIsLeast ==
  ASSUME NEW S \in SUBSET Nat, S # {}
  PROVE  Min(S) \in S /\ \A n \in S : Min(S) <= n
BY LeastNumber DEF Min

(* Where the first = of a text is.                                         *)
LEMMA EqualsNone ==
  ASSUME NEW s \in Seq(Bytes)
  PROVE  Equals(s) = 0 <=> \A i \in 1 .. Len(s) : s[i] # "="
<1> DEFINE I == {i \in 1 .. Len(s) : s[i] = "="}
<1>1. Equals(s) = IF I # {} THEN Min(I) ELSE 0
  BY DEF Equals, SelectInSeq
<1>2. I \in SUBSET Nat /\ 0 \notin I
  OBVIOUS
<1> HIDE DEF I
<1>3. Equals(s) = 0 <=> I = {}
  BY <1>1, <1>2, MinIsLeast
<1> QED
  BY <1>3 DEF I

LEMMA EqualsFirst ==
  ASSUME NEW s \in Seq(Bytes), NEW i \in 1 .. Len(s), s[i] = "=",
         \A j \in 1 .. i - 1 : s[j] # "="
  PROVE  Equals(s) = i
<1> DEFINE I == {j \in 1 .. Len(s) : s[j] = "="}
<1>1. Equals(s) = IF I # {} THEN Min(I) ELSE 0
  BY DEF Equals, SelectInSeq
<1>2. I \in SUBSET Nat /\ i \in I /\ \A j \in I : i <= j
  OBVIOUS
<1> HIDE DEF I
<1>3. Min(I) \in I /\ Min(I) <= i
  BY <1>2, MinIsLeast
<1>4. i <= Min(I) /\ Min(I) \in Nat
  BY <1>2, <1>3
<1> QED
  BY <1>1, <1>2, <1>3, <1>4

(* A prefix of a text.                                                     *)
LEMMA CutText ==
  ASSUME NEW s \in Seq(Bytes), NEW n \in Nat
  PROVE  /\ Cut(s, n) \in Seq(Bytes)
         /\ Len(Cut(s, n)) = IF Len(s) < n THEN Len(s) ELSE n
         /\ \A i \in 1 .. Len(Cut(s, n)) : Cut(s, n)[i] = s[i]
         /\ Len(s) <= n => Cut(s, n) = s
<1> DEFINE m == IF Len(s) < n THEN Len(s) ELSE n
<1>1. m \in Nat /\ m <= Len(s) /\ \A i \in 1 .. m : s[i] \in Bytes
  BY LenProperties, ElementOfSeq
<1>2. Cut(s, n) = SubSeq(s, 1, m)
  BY DEF Cut
<1> HIDE DEF m
<1>3. /\ SubSeq(s, 1, m) \in Seq(Bytes)
      /\ Len(SubSeq(s, 1, m)) = m
      /\ \A i \in 1 .. m : SubSeq(s, 1, m)[i] = s[i]
  BY <1>1, SubSeqProperties
<1>4. Len(s) <= n => Cut(s, n) = s
  BY <1>1, <1>2, SubSeqFull DEF m
<1> QED
  BY <1>2, <1>3, <1>4 DEF m

(* The text of a pair, character by character.                             *)
LEMMA PairText ==
  ASSUME NEW k \in Seq(Bytes), NEW v \in Seq(Bytes)
  PROVE  /\ Pair(k, v) \in Seq(Bytes)
         /\ Len(Pair(k, v)) = Len(k) + 1 + Len(v)
         /\ \A i \in 1 .. Len(k) : Pair(k, v)[i] = k[i]
         /\ Pair(k, v)[Len(k) + 1] = "="
         /\ \A i \in 1 .. Len(v) : Pair(k, v)[Len(k) + 1 + i] = v[i]
<1> DEFINE front == k \o <<"=">>
<1>1. <<"=">> \in Seq(Bytes) /\ Len(<<"=">>) = 1 /\ <<"=">>[1] = "="
  BY BytesAssumption
<1>2. /\ front \in Seq(Bytes) /\ Len(front) = Len(k) + 1
      /\ \A i \in 1 .. Len(k) : front[i] = k[i]
      /\ front[Len(k) + 1] = "="
  BY <1>1, ConcatProperties, LenProperties
<1>3. Pair(k, v) = front \o v
  BY DEF Pair
<1> HIDE DEF front
<1>4. /\ Pair(k, v) \in Seq(Bytes)
      /\ Len(Pair(k, v)) = Len(front) + Len(v)
      /\ \A i \in 1 .. Len(front) + Len(v) : Pair(k, v)[i] =
           IF i <= Len(front) THEN front[i] ELSE v[i - Len(front)]
  <2>1. front \in Seq(Bytes)
    BY <1>2
  <2>2. /\ front \o v \in Seq(Bytes)
        /\ Len(front \o v) = Len(front) + Len(v)
        /\ \A i \in 1 .. Len(front) + Len(v) : (front \o v)[i] =
             IF i <= Len(front) THEN front[i] ELSE v[i - Len(front)]
    BY <2>1, ConcatProperties, Zenon
  <2> QED
    BY <1>3, <2>2
<1>5. Len(k) \in Nat /\ Len(v) \in Nat
  BY LenProperties
<1>6. \A i \in 1 .. Len(v) : Pair(k, v)[Len(k) + 1 + i] = v[i]
  <2> TAKE i \in 1 .. Len(v)
  <2>1. /\ Len(k) + 1 + i \in 1 .. Len(front) + Len(v)
        /\ ~(Len(k) + 1 + i <= Len(front)) /\ Len(k) + 1 + i - Len(front) = i
    BY <1>2, <1>5
  <2> QED
    BY <1>4, <2>1
<1>7. \A i \in 1 .. Len(k) + 1 : Pair(k, v)[i] = front[i]
  BY <1>2, <1>4, <1>5
<1> QED
  BY <1>2, <1>4, <1>5, <1>6, <1>7
-----------------------------------------------------------------------------
(* Entries of a record, cut to the size of an entry, as they are read.     *)

(* The key of a pair that leaves room for a value comes back, and so does  *)
(* the value if the pair fits.                                             *)
LEMMA ReadsPair ==
  ASSUME NEW k \in Seq(Bytes), NEW v \in Seq(Bytes), NEW r,
         Equals(k) = 0, Len(k) < MaxEntry
  PROVE  LET e == Cut(Pair(k, v), MaxEntry)
         IN  /\ ReadEntry(r, e).key = k
             /\ Len(Pair(k, v)) <= MaxEntry => ReadEntry(r, e).value = v
<1> DEFINE e == Cut(Pair(k, v), MaxEntry)
           p == Len(k) + 1
<1>0. Len(k) \in Nat /\ Len(v) \in Nat /\ MaxEntry \in Nat
  BY LenProperties, EntryAssumption
<1>1. /\ Pair(k, v) \in Seq(Bytes)
      /\ Len(Pair(k, v)) = Len(k) + 1 + Len(v)
      /\ \A i \in 1 .. Len(k) : Pair(k, v)[i] = k[i]
      /\ Pair(k, v)[p] = "="
      /\ \A i \in 1 .. Len(v) : Pair(k, v)[p + i] = v[i]
  BY PairText
<1>2. /\ e \in Seq(Bytes)
      /\ Len(e) = IF Len(Pair(k, v)) < MaxEntry THEN Len(Pair(k, v)) ELSE MaxEntry
      /\ \A i \in 1 .. Len(e) : e[i] = Pair(k, v)[i]
      /\ Len(Pair(k, v)) <= MaxEntry => e = Pair(k, v)
  BY <1>0, <1>1, CutText
<1> HIDE DEF e
<1>3. p \in 1 .. Len(e)
  BY <1>0, <1>1, <1>2
<1>4. e[p] = "=" /\ \A i \in 1 .. p - 1 : e[i] = k[i]
  BY <1>0, <1>1, <1>2, <1>3
<1>5. \A i \in 1 .. p - 1 : e[i] # "="
  BY <1>0, <1>4, EqualsNone
<1>6. Equals(e) = p
  BY <1>2, <1>3, <1>4, <1>5, EqualsFirst
<1>7. /\ ReadEntry(r, e).key = SubSeq(e, 1, p - 1)
      /\ ReadEntry(r, e).value = SubSeq(e, p + 1, Len(e))
  BY <1>0, <1>6 DEF ReadEntry, AvahiEntry, DnssdEntry
<1>8. SubSeq(e, 1, p - 1) = k
  <2>1. \A i \in 1 .. p - 1 : e[i] \in Bytes
    BY <1>4, ElementOfSeq
  <2>2. /\ SubSeq(e, 1, p - 1) \in Seq(Bytes)
        /\ Len(SubSeq(e, 1, p - 1)) = Len(k)
        /\ \A i \in 1 .. Len(k) : SubSeq(e, 1, p - 1)[i] = e[i]
    BY <1>0, <2>1, SubSeqProperties
  <2> QED
    BY <1>4, <2>2, SeqEqual
<1>9. ASSUME Len(Pair(k, v)) <= MaxEntry PROVE SubSeq(e, p + 1, Len(e)) = v
  <2>0. Len(e) = Len(k) + 1 + Len(v) /\ Len(e) \in Int
    BY <1>0, <1>1, <1>2, <1>9
  <2>1. \A i \in p + 1 .. Len(e) : e[i] \in Bytes
    BY <1>0, <1>2, ElementOfSeq
  <2>2. /\ SubSeq(e, p + 1, Len(e)) \in Seq(Bytes)
        /\ Len(SubSeq(e, p + 1, Len(e))) = Len(v)
        /\ \A i \in 1 .. Len(v) : SubSeq(e, p + 1, Len(e))[i] = e[p + i]
    <3>1. /\ SubSeq(e, p + 1, Len(e)) \in Seq(Bytes)
          /\ Len(SubSeq(e, p + 1, Len(e)))
               = IF p + 1 <= Len(e) THEN Len(e) - (p + 1) + 1 ELSE 0
          /\ \A i \in 1 .. Len(e) - (p + 1) + 1 :
               SubSeq(e, p + 1, Len(e))[i] = e[(p + 1) + i - 1]
      BY <1>0, <2>0, <2>1, SubSeqProperties
    <3> QED
      BY <1>0, <2>0, <3>1
  <2>3. \A i \in 1 .. Len(v) : SubSeq(e, p + 1, Len(e))[i] = v[i]
    BY <1>0, <1>1, <1>2, <1>9, <2>2
  <2> QED
    BY <2>2, <2>3, SeqEqual
<1> QED
  BY <1>7, <1>8, <1>9 DEF e

(* Of a longer key only the beginning is left, and it fills the entry.     *)
LEMMA ReadsLongKey ==
  ASSUME NEW k \in Seq(Bytes), NEW v \in Seq(Bytes), NEW r,
         Equals(k) = 0, Len(k) >= MaxEntry
  PROVE  LET e == Cut(Pair(k, v), MaxEntry)
         IN  ReadEntry(r, e).key = e /\ Len(e) = MaxEntry
<1> DEFINE e == Cut(Pair(k, v), MaxEntry)
<1>0. Len(k) \in Nat /\ Len(v) \in Nat /\ MaxEntry \in Nat
  BY LenProperties, EntryAssumption
<1>1. /\ Pair(k, v) \in Seq(Bytes)
      /\ Len(Pair(k, v)) = Len(k) + 1 + Len(v)
      /\ \A i \in 1 .. Len(k) : Pair(k, v)[i] = k[i]
  BY PairText
<1>2. /\ e \in Seq(Bytes)
      /\ Len(e) = MaxEntry
      /\ \A i \in 1 .. Len(e) : e[i] = Pair(k, v)[i]
  BY <1>0, <1>1, CutText
<1> HIDE DEF e
<1>3. \A i \in 1 .. Len(e) : e[i] # "="
  <2>1. \A i \in 1 .. Len(k) : k[i] # "="
    BY EqualsNone
  <2>2. \A i \in 1 .. Len(e) : i \in 1 .. Len(k)
    BY <1>0, <1>2
  <2> QED
    BY <1>1, <1>2, <2>1, <2>2
<1>4. Equals(e) = 0
  BY <1>2, <1>3, EqualsNone
<1> QED
  BY <1>2, <1>4 DEF e, ReadEntry, AvahiEntry, DnssdEntry
-----------------------------------------------------------------------------
(* Records of pairs, written with any backend and read with any.           *)

TextMap(d) == DOMAIN d \subseteq Seq(Bytes) /\ \A k \in DOMAIN d : d[k] \in Seq(Bytes)

Fits(d, k) == Len(Pair(k, d[k])) <= MaxEntry

(* Whoever writes the record, its entries are the pairs, cut.              *)
LEMMA RecordEntries ==
  ASSUME NEW d, TextMap(d), NEW w, NEW e \in Record(w, d)
  PROVE  \E k \in DOMAIN d : \E v \in Seq(Bytes) :
           /\ e = Cut(Pair(k, v), MaxEntry)
           /\ Fits(d, k) => v = d[k]
<1>0. MaxEntry \in Nat
  BY EntryAssumption
<1>1. CASE w = "avahi"
  <2>1. PICK k \in DOMAIN d : e = Cut(Pair(k, d[k]), MaxEntry)
    BY <1>1 DEF Record, AvahiRecord
  <2> QED
    BY <2>1 DEF TextMap
<1>2. CASE w # "avahi"
  <2>1. PICK k \in DOMAIN d : /\ e = Pair(k, Cut(d[k], MaxEntry))
                             /\ Accepted(k, Cut(d[k], MaxEntry))
    BY <1>2 DEF Record, DnssdRecord
  <2>2. k \in Seq(Bytes) /\ d[k] \in Seq(Bytes)
    BY DEF TextMap
  <2> DEFINE v == Cut(d[k], MaxEntry)
  <2>3. v \in Seq(Bytes) /\ (Len(d[k]) <= MaxEntry => v = d[k])
    BY <1>0, <2>2, CutText
  <2> HIDE DEF v
  <2>4. Pair(k, v) \in Seq(Bytes) /\ Len(Pair(k, v)) <= MaxEntry
    BY <2>1, <2>2, <2>3, PairText DEF Accepted, v
  <2>5. e = Cut(Pair(k, v), MaxEntry)
    BY <1>0, <2>1, <2>4, CutText DEF v
  <2>6. Fits(d, k) => v = d[k]
    <3>1. /\ Len(Pair(k, d[k])) = Len(k) + 1 + Len(d[k])
          /\ Len(k) \in Nat /\ Len(d[k]) \in Nat
      BY <2>2, PairText, LenProperties
    <3> QED
      BY <1>0, <2>3, <3>1 DEF Fits
  <2> QED
    BY <2>3, <2>5, <2>6
<1> QED
  BY <1>1, <1>2

(* A pair that fits is in the record as it is.                             *)
LEMMA RecordHolds ==
  ASSUME NEW d, TextMap(d), NEW w, NEW k \in DOMAIN d, PlainKey(k), Fits(d, k)
  PROVE  Pair(k, d[k]) \in Record(w, d)
<1>0. MaxEntry \in Nat /\ k \in Seq(Bytes) /\ d[k] \in Seq(Bytes)
  BY EntryAssumption DEF TextMap
<1>1. /\ Pair(k, d[k]) \in Seq(Bytes) /\ Len(Pair(k, d[k])) = Len(k) + 1 + Len(d[k])
      /\ Len(k) \in Nat /\ Len(d[k]) \in Nat
  BY <1>0, PairText, LenProperties
<1>2. Cut(Pair(k, d[k]), MaxEntry) = Pair(k, d[k])
  BY <1>0, <1>1, CutText DEF Fits
<1>3. Cut(d[k], MaxEntry) = d[k]
  BY <1>0, <1>1, CutText DEF Fits
<1>4. CASE w = "avahi"
  BY <1>2, <1>4 DEF Record, AvahiRecord
<1>5. CASE w # "avahi"
  <2>1. Accepted(k, Cut(d[k], MaxEntry))
    BY <1>3 DEF Accepted, PlainKey, Fits
  <2> QED
    BY <1>3, <1>5, <2>1 DEF Record, DnssdRecord
<1> QED
  BY <1>4, <1>5

(* A key that is read is one that was written, or fills its entry.         *)
LEMMA KeysRead ==
  ASSUME NEW d, TextMap(d), \A k \in DOMAIN d : PlainKey(k),
         NEW w, NEW r, NEW p \in ReadPairs(r, Record(w, d))
  PROVE  \E k \in DOMAIN d :
           \/ Len(k) < MaxEntry /\ p.key = k /\ (Fits(d, k) => p.value = d[k])
           \/ Len(k) >= MaxEntry /\ Len(p.key) = MaxEntry
<1>1. PICK e \in Record(w, d) : p = ReadEntry(r, e)
  BY DEF ReadPairs
<1>2. PICK k \in DOMAIN d :
        \E v \in Seq(Bytes) : e = Cut(Pair(k, v), MaxEntry) /\ (Fits(d, k) => v = d[k])
  BY RecordEntries
<1>2a. PICK v \in Seq(Bytes) : e = Cut(Pair(k, v), MaxEntry) /\ (Fits(d, k) => v = d[k])
  BY <1>2
<1>3. k \in Seq(Bytes) /\ Equals(k) = 0 /\ Len(k) \in Nat /\ MaxEntry \in Nat
  BY EntryAssumption, LenProperties DEF TextMap, PlainKey
<1>4. CASE Len(k) < MaxEntry
  <2>1. /\ ReadEntry(r, Cut(Pair(k, v), MaxEntry)).key = k
        /\ Len(Pair(k, v)) <= MaxEntry => ReadEntry(r, Cut(Pair(k, v), MaxEntry)).value = v
    BY <1>3, <1>4, ReadsPair
  <2>2. p = ReadEntry(r, Cut(Pair(k, v), MaxEntry))
    BY <1>1, <1>2a
  <2>3. p.key = k /\ (Fits(d, k) => p.value = d[k])
    BY <1>2a, <2>1, <2>2 DEF Fits
  <2> QED
    BY <1>4, <2>3
<1>5. CASE Len(k) >= MaxEntry
  <2>1. /\ ReadEntry(r, Cut(Pair(k, v), MaxEntry)).key = Cut(Pair(k, v), MaxEntry)
        /\ Len(Cut(Pair(k, v), MaxEntry)) = MaxEntry
    BY <1>3, <1>5, ReadsLongKey
  <2>2. p = ReadEntry(r, Cut(Pair(k, v), MaxEntry))
    BY <1>1, <1>2a
  <2> QED
    BY <1>5, <2>1, <2>2
<1> QED
  BY <1>3, <1>4, <1>5

(* The map after a record was read into it.                                *)
LEMMA MapRead ==
  ASSUME NEW d, TextMap(d), \A k \in DOMAIN d : PlainKey(k), NEW w, NEW r, NEW old
  PROVE  LET m == ReadRecord(r, Record(w, d), old)
         IN  /\ (\A k \in DOMAIN d : Len(k) < MaxEntry)
                  => DOMAIN m \subseteq DOMAIN d \cup {HostKey} \cup DOMAIN old
             /\ HostKey \in DOMAIN m /\ m[HostKey] = Host
             /\ \A k \in DOMAIN d : Fits(d, k) => k \in DOMAIN m /\ m[k] = d[k]
<1> DEFINE pairs == ReadPairs(r, Record(w, d))
           keys  == {p.key : p \in pairs}
           m     == ReadRecord(r, Record(w, d), old)
<1>0. /\ MaxEntry \in Nat /\ Len(HostKey) < MaxEntry
      /\ \A k \in DOMAIN d : k \in Seq(Bytes) /\ d[k] \in Seq(Bytes) /\ Len(k) \in Nat
  BY EntryAssumption, LenProperties DEF TextMap
<1>1. ASSUME NEW p \in pairs
      PROVE  \E k \in DOMAIN d :
               \/ Len(k) < MaxEntry /\ p.key = k /\ (Fits(d, k) => p.value = d[k])
               \/ Len(k) >= MaxEntry /\ Len(p.key) = MaxEntry
  BY KeysRead
<1>2. ASSUME NEW k \in DOMAIN d, Fits(d, k)
      PROVE  Len(k) < MaxEntry /\ \E p \in pairs : p.key = k
  <2>1. Len(Pair(k, d[k])) = Len(k) + 1 + Len(d[k]) /\ Len(d[k]) \in Nat
    BY <1>0, PairText, LenProperties
  <2>2. Len(k) < MaxEntry
    BY <1>0, <1>2, <2>1 DEF Fits
  <2>3. Pair(k, d[k]) \in Record(w, d)
    BY <1>2, RecordHolds
  <2>4. Cut(Pair(k, d[k]), MaxEntry) = Pair(k, d[k])
    BY <1>0, <1>2, PairText, CutText DEF Fits
  <2>5. ReadEntry(r, Cut(Pair(k, d[k]), MaxEntry)).key = k
    BY <1>0, <2>2, ReadsPair DEF PlainKey
  <2>6. ReadEntry(r, Pair(k, d[k])) \in pairs
    BY <2>3 DEF ReadPairs
  <2> QED
    BY <2>2, <2>4, <2>5, <2>6
<1>3. m = Over(PairsMap(pairs), Put(old, HostKey, Host))
  BY DEF ReadRecord
<1>4. PairsMap(pairs) = [k \in keys |-> (CHOOSE p \in pairs : p.key = k).value]
  BY DEF PairsMap
<1> HIDE DEF m, pairs
<1>5. /\ DOMAIN m = keys \cup {HostKey} \cup DOMAIN old
      /\ \A k \in keys : m[k] = (CHOOSE p \in pairs : p.key = k).value
      /\ HostKey \notin keys => m[HostKey] = Host
  BY <1>3, <1>4 DEF Over, Put
<1>6. HostKey \notin keys
  <2> SUFFICES ASSUME NEW p \in pairs, p.key = HostKey PROVE FALSE
    OBVIOUS
  <2>1. PICK k \in DOMAIN d : p.key = k \/ Len(p.key) = MaxEntry
    BY <1>1
  <2> QED
    BY <1>0, <2>1 DEF PlainKey
<1>7. ASSUME NEW k \in DOMAIN d, Fits(d, k) PROVE k \in keys /\ m[k] = d[k]
  <2> DEFINE q == CHOOSE p \in pairs : p.key = k
  <2>1. q \in pairs /\ q.key = k
    BY <1>2, <1>7
  <2>2. PICK j \in DOMAIN d :
               \/ Len(j) < MaxEntry /\ q.key = j /\ (Fits(d, j) => q.value = d[j])
               \/ Len(j) >= MaxEntry /\ Len(q.key) = MaxEntry
    BY <1>1, <2>1
  <2>3. q.value = d[k]
    BY <1>0, <1>2, <1>7, <2>1, <2>2
  <2> QED
    BY <1>5, <2>1, <2>3
<1>8. ASSUME \A k \in DOMAIN d : Len(k) < MaxEntry
      PROVE  keys \subseteq DOMAIN d
  <2> SUFFICES ASSUME NEW p \in pairs PROVE p.key \in DOMAIN d
    OBVIOUS
  <2>1. PICK k \in DOMAIN d : \/ p.key = k
                             \/ Len(k) >= MaxEntry
    BY <1>1
  <2> QED
    BY <1>0, <1>8, <2>1
<1> QED
  BY <1>5, <1>6, <1>7, <1>8 DEF m
-----------------------------------------------------------------------------
(* The two objects.                                                        *)

LEMMA DataTexts == TypeOK => TextMap(data)
BY TextAssumption DEF TypeOK, TextMap

(* What browse() can make of the map.                                      *)
LEMMA BrowseFacts ==
  ASSUME TypeOK, NEW map, NEW session \in BOOLEAN, NEW m \in BrowseMaps(map, session)
  PROVE  \/ m = map
         \/ m = <<>>
         \/ reader = "test" /\ announced /\ m = CopyData(data)
         \/ /\ reader \in Zeroconf /\ announced /\ writer \in Zeroconf
            /\ \E old \in {map, <<>>} : m = ReadRecord(reader, Record(writer, data), old)
<1>1. CASE reader = "none"
  BY <1>1 DEF BrowseMaps, Zeroconf
<1>2. CASE reader = "test"
  BY <1>2 DEF BrowseMaps, Zeroconf
<1>3. CASE reader \in Zeroconf
  <2> DEFINE heard == Reaches /\ (session \/ reader = "avahi")
             seen  == {map} \cup {n \in {<<>>} : session}
  <2>1. BrowseMaps(map, session) =
          seen \cup {ReadRecord(reader, Record(writer, data), n) : n \in {o \in seen : heard}}
    BY <1>3 DEF BrowseMaps, Zeroconf
  <2>2. seen \subseteq {map, <<>>} /\ (heard => announced /\ writer \in Zeroconf)
    BY DEF Reaches
  <2> HIDE DEF heard, seen
  <2> QED
    BY <1>3, <2>1, <2>2
<1> QED
  BY <1>1, <1>2, <1>3 DEF TypeOK, Backends

(* What beginBrowsing() returns and makes of the map.                      *)
LEMMA BeginFacts ==
  ASSUME TypeOK, NEW r \in BeginResults
  PROVE  /\ r = "SUCCESS" => ~browsing /\ reader # "none"
         /\ BeginMap(r) \in {values, <<>>}
BY DEF BeginResults, BeginMap, TypeOK, Backends, Zeroconf

(* A map that browse() makes of one without made-up keys has none, and     *)
(* there is none without a backend.                                        *)
LEMMA MapFacts ==
  ASSUME Inv, NEW map \in {values, <<>>}, NEW session \in BOOLEAN,
         NEW m \in BrowseMaps(map, session)
  PROVE  /\ reader = "none" \/ writer = "none" => m = <<>>
         /\ (\A k \in DOMAIN data : PlainKey(k) /\ Len(k) < MaxEntry)
              => DOMAIN m \subseteq DOMAIN data \cup {HostKey}
<1>0. TypeOK /\ TextMap(data)
  BY DataTexts DEF Inv
<1>1. \/ m \in {values, <<>>}
      \/ reader = "test" /\ announced /\ m = CopyData(data)
      \/ /\ reader \in Zeroconf /\ announced /\ writer \in Zeroconf
         /\ \E old \in {values, <<>>} : m = ReadRecord(reader, Record(writer, data), old)
  BY <1>0, BrowseFacts
<1>2. reader = "none" \/ writer = "none" => m = <<>>
  BY <1>1 DEF Inv, NothingWithoutBackend, Zeroconf
<1>3. ASSUME \A k \in DOMAIN data : PlainKey(k) /\ Len(k) < MaxEntry
      PROVE  DOMAIN m \subseteq DOMAIN data \cup {HostKey}
  <2>1. \A old \in {values, <<>>} : DOMAIN old \subseteq DOMAIN data \cup {HostKey}
    BY <1>3 DEF Inv, OnlyWhatWasSet, GetKeys
  <2>2. CASE m = CopyData(data)
    BY <2>2 DEF CopyData, Over, Put
  <2>3. ASSUME NEW old \in {values, <<>>}, m = ReadRecord(reader, Record(writer, data), old)
        PROVE  DOMAIN m \subseteq DOMAIN data \cup {HostKey}
    <3>1. DOMAIN m \subseteq DOMAIN data \cup {HostKey} \cup DOMAIN old
      BY <1>0, <1>3, <2>3, MapRead
    <3> QED
      BY <2>1, <3>1
  <2> QED
    BY <1>1, <2>1, <2>2, <2>3
<1> QED
  BY <1>2, <1>3

LEMMA InitInv == Init => Inv
<1> SUFFICES ASSUME Init PROVE Inv
  OBVIOUS
<1>1. TypeOK
  <2>1. writer \in Backends /\ reader \in Backends
    BY DEF Init, ChooseImplementation, Builds, Backends, Zeroconf
  <2>2. announced \in BOOLEAN /\ browsing \in BOOLEAN /\ fresh \in BOOLEAN
    BY DEF Init
  <2>3. DOMAIN data = {} /\ data = [k \in DOMAIN data |-> data[k]]
    BY DEF Init
  <2>4. data \in [DOMAIN data -> Values]
    BY <2>3
  <2> QED
    BY <2>1, <2>2, <2>3, <2>4 DEF TypeOK
<1>2. SameName
  BY DEF Init, SameName, ChooseImplementation, Builds, Zeroconf
<1>3. NothingWithoutBackend
  BY DEF Init, NothingWithoutBackend
<1>4. FreshIsFound
  BY DEF Init, FreshIsFound
<1>5. OnlyWhatWasSet
  BY DEF Init, OnlyWhatWasSet, GetKeys
<1> QED
  BY <1>1, <1>2, <1>3, <1>4, <1>5 DEF Inv

(* Pairs that are set: they are no longer as they were found.              *)
LEMMA SetInv ==
  ASSUME Inv, NEW key \in Keys, NEW value \in Values, Set(key, value)
  PROVE  Inv'
<1>1. TypeOK'
  <2>1. DOMAIN data' = DOMAIN data \cup {key}
    BY DEF Set, Put
  <2>2. \A k \in DOMAIN data' : data'[k] \in Values
    BY DEF Set, Put, Inv, TypeOK
  <2>3. data' = [k \in DOMAIN data' |-> data'[k]]
    BY DEF Set, Put
  <2> QED
    BY <2>1, <2>2, <2>3 DEF Set, Inv, TypeOK
<1>2. OnlyWhatWasSet'
  <2>1. DOMAIN data \subseteq DOMAIN data'
    BY DEF Set, Put
  <2> QED
    BY <2>1 DEF Set, Inv, OnlyWhatWasSet, GetKeys, PlainKey
<1> QED
  BY <1>1, <1>2 DEF Set, Inv, SameName, NothingWithoutBackend, FreshIsFound

(* Whatever leaves the pairs alone.                                        *)
LEMMA MapInv ==
  ASSUME Inv, UNCHANGED <<writer, reader, data>>,
         announced' \in BOOLEAN, browsing' \in BOOLEAN, fresh' \in BOOLEAN,
         reader = "none" => ~browsing', writer = "none" => ~announced',
         reader = "none" \/ writer = "none" => values' = <<>>,
         (\A k \in DOMAIN data : PlainKey(k) /\ Len(k) < MaxEntry)
           => DOMAIN values' \subseteq DOMAIN data \cup {HostKey},
         FreshIsFound'
  PROVE  Inv'
<1>1. TypeOK'
  BY DEF Inv, TypeOK
<1>2. SameName' /\ NothingWithoutBackend'
  BY DEF Inv, SameName, NothingWithoutBackend
<1>3. OnlyWhatWasSet'
  BY DEF OnlyWhatWasSet, GetKeys, PlainKey
<1> QED
  BY <1>1, <1>2, <1>3 DEF Inv

(* What the invariant says of the map as it is, and of no map.             *)
LEMMA SameMap ==
  ASSUME Inv, NEW m \in {values, <<>>}
  PROVE  /\ reader = "none" \/ writer = "none" => m = <<>>
         /\ (\A k \in DOMAIN data : PlainKey(k) /\ Len(k) < MaxEntry)
              => DOMAIN m \subseteq DOMAIN data \cup {HostKey}
BY DEF Inv, NothingWithoutBackend, OnlyWhatWasSet, GetKeys

LEMMA FoundIsFresh ==
  ASSUME fresh' = Found(values'), UNCHANGED <<writer, reader, announced, data>>,
         announced \in BOOLEAN
  PROVE  fresh' \in BOOLEAN /\ FreshIsFound'
BY DEF Found, FreshIsFound

LEMMA NextInv == Inv /\ [Next]_vars => Inv'
<1> SUFFICES ASSUME Inv, [Next]_vars PROVE Inv'
  OBVIOUS
<1>0. TypeOK /\ NothingWithoutBackend /\ FreshIsFound
  BY DEF Inv
<1>1. ASSUME NEW key \in Keys, NEW value \in Values, Set(key, value) PROVE Inv'
  BY <1>1, SetInv
<1>2. CASE Announce \/ Withdraw \/ EndBrowsing \/ UNCHANGED vars
  <2>1. /\ UNCHANGED <<writer, reader, data, values, fresh>>
        /\ announced' \in BOOLEAN /\ browsing' \in BOOLEAN
        /\ reader = "none" => ~browsing'
        /\ writer = "none" => ~announced'
    <3>1. CASE Announce
      BY <1>0, <3>1 DEF Announce, TypeOK, NothingWithoutBackend
    <3>2. CASE Withdraw
      BY <1>0, <3>2 DEF Withdraw, TypeOK, NothingWithoutBackend
    <3>3. CASE EndBrowsing
      BY <1>0, <3>3 DEF EndBrowsing, TypeOK, NothingWithoutBackend
    <3>4. CASE UNCHANGED vars
      BY <1>0, <3>4 DEF vars, TypeOK, NothingWithoutBackend
    <3> QED
      BY <1>2, <3>1, <3>2, <3>3, <3>4
  <2>2. FreshIsFound'
    BY <1>0, <2>1 DEF FreshIsFound
  <2>3. values' \in {values, <<>>} /\ fresh' \in BOOLEAN
    BY <1>0, <2>1 DEF TypeOK
  <2> QED
    BY <2>1, <2>2, <2>3, MapInv, SameMap
<1>3. CASE BeginBrowsing
  <2>1. PICK r \in BeginResults :
          /\ browsing' = (browsing \/ r = "SUCCESS")
          /\ values' = BeginMap(r)
          /\ fresh' = (fresh /\ values' # <<>>)
          /\ UNCHANGED <<writer, reader, announced, data>>
    BY <1>3 DEF BeginBrowsing
  <2>2. /\ r = "SUCCESS" => reader # "none"
        /\ values' \in {values, <<>>}
    BY <1>0, <2>1, BeginFacts
  <2>3. /\ announced' \in BOOLEAN /\ browsing' \in BOOLEAN /\ fresh' \in BOOLEAN
        /\ reader = "none" => ~browsing'
        /\ writer = "none" => ~announced'
    BY <1>0, <2>1, <2>2 DEF TypeOK, NothingWithoutBackend
  <2>4. FreshIsFound'
    BY <1>0, <2>1, <2>2 DEF FreshIsFound
  <2> QED
    BY <2>1, <2>2, <2>3, <2>4, MapInv, SameMap
<1>4. CASE Browse
  <2>1. /\ reader = "none" \/ writer = "none" => values' = <<>>
        /\ (\A k \in DOMAIN data : PlainKey(k) /\ Len(k) < MaxEntry)
             => DOMAIN values' \subseteq DOMAIN data \cup {HostKey}
    BY <1>0, <1>4, MapFacts DEF Browse, TypeOK
  <2>2. fresh' \in BOOLEAN /\ FreshIsFound'
    BY <1>0, <1>4, FoundIsFresh DEF Browse, TypeOK
  <2> QED
    BY <1>0, <1>4, <2>1, <2>2, MapInv DEF Browse, TypeOK, NothingWithoutBackend
<1>5. CASE Discover
  <2>1. PICK r \in BeginResults :
          /\ values' \in DiscoverMaps(r)
          /\ browsing' = IF r = "SUCCESS" THEN FALSE ELSE browsing
          /\ fresh' = Found(values')
          /\ UNCHANGED <<writer, reader, announced, data>>
    BY <1>5 DEF Discover
  <2>2. BeginMap(r) \in {values, <<>>}
    BY <1>0, BeginFacts
  <2>3. /\ reader = "none" \/ writer = "none" => values' = <<>>
        /\ (\A k \in DOMAIN data : PlainKey(k) /\ Len(k) < MaxEntry)
             => DOMAIN values' \subseteq DOMAIN data \cup {HostKey}
    <3>1. CASE values' \in BrowseMaps(BeginMap(r), r # "FAILURE")
      <4>1. (r # "FAILURE") \in BOOLEAN
        OBVIOUS
      <4> QED
        BY <2>2, <3>1, <4>1, MapFacts
    <3>2. CASE values' = BeginMap(r)
      BY <2>2, <3>2, SameMap
    <3> QED
      BY <2>1, <3>1, <3>2 DEF DiscoverMaps
  <2>4. fresh' \in BOOLEAN /\ FreshIsFound'
    BY <1>0, <2>1, FoundIsFresh DEF TypeOK
  <2> QED
    BY <1>0, <2>1, <2>3, <2>4, MapInv DEF TypeOK, NothingWithoutBackend
<1> QED
  BY <1>1, <1>2, <1>3, <1>4, <1>5 DEF Next
-----------------------------------------------------------------------------
LEMMA Invariance == Spec => []Inv
<1>1. Inv /\ UNCHANGED vars => Inv'
  BY NextInv
<1> QED
  BY InitInv, NextInv, PTL DEF Spec

(* A map that is as the announced pairs say holds the host and every pair  *)
(* that fits.                                                              *)
LEMMA FreshHolds ==
  ASSUME Inv, fresh, \A k \in DOMAIN data : PlainKey(k)
  PROVE  /\ values # <<>> /\ HostKey \in DOMAIN values /\ values[HostKey] = Host
         /\ \A k \in DOMAIN data : reader = "test" \/ Fits(data, k)
              => k \in DOMAIN values /\ values[k] = data[k]
<1>1. TextMap(data)
  BY DataTexts DEF Inv
<1>2. CASE reader = "test"
  <2>1. values # <<>> /\ values = Over(data, Put(<<>>, HostKey, Host))
    BY <1>2 DEF Inv, FreshIsFound, CopyData
  <2>2. HostKey \notin DOMAIN data
    BY DEF PlainKey
  <2> QED
    BY <2>1, <2>2 DEF Over, Put
<1>3. CASE reader # "test"
  <2>1. values # <<>> /\ values = ReadRecord(reader, Record(writer, data), values)
    BY <1>3 DEF Inv, FreshIsFound
  <2>2. LET m == ReadRecord(reader, Record(writer, data), values)
        IN  /\ HostKey \in DOMAIN m /\ m[HostKey] = Host
            /\ \A k \in DOMAIN data : Fits(data, k) => k \in DOMAIN m /\ m[k] = data[k]
    BY <1>1, MapRead
  <2> QED
    BY <1>3, <2>1, <2>2
<1> QED
  BY <1>2, <1>3

(* For any keys, values, bytes and size of an entry: after a discovery     *)
(* that found the service, get() and containsKey() (servus.cpp) return     *)
(* every pair that fits into an entry as set() was called with it, and     *)
(* getHost() the host, whichever backends the two objects have, as long as *)
(* no key is empty, has a = in it or is that of the host.                  *)
THEOREM PairsReadBack == Spec => []ReadsBack
<1>1. Inv => ReadsBack
  <2> SUFFICES ASSUME Inv, fresh, \A k \in DOMAIN data : PlainKey(k)
               PROVE  /\ GetInstances # {} /\ GetHost = Host
                      /\ \A k \in DOMAIN data :
                           reader = "test" \/ Len(Pair(k, data[k])) <= MaxEntry
                             => ContainsKey(k) /\ Get(k) = data[k]
    BY DEF ReadsBack
  <2> QED
    BY FreshHolds DEF GetInstances, GetHost, Get, ContainsKey, Fits
<1> QED
  BY <1>1, Invariance, PTL

(* For any keys that are plain and leave room for a value: getKeys()       *)
(* (servus.cpp) never has a key that set() was not called with, after any  *)
(* sequence of calls on either object.                                     *)
THEOREM NoKeyMadeUp == Spec => []OnlyWhatWasSet
<1>1. Inv => OnlyWhatWasSet
  BY DEF Inv
<1> QED
  BY <1>1, Invariance, PTL

(* discover() of servus.cpp ends only the browsing it began itself,        *)
(* whatever beginBrowsing() returned to it.                                *)
THEOREM DiscoverLeavesBrowsing == Spec => DiscoverKeepsBrowsing
<1>1. Inv /\ [Next]_vars => [Discover => browsing' = browsing]_vars
  <2> SUFFICES ASSUME Inv, Discover PROVE browsing' = browsing
    OBVIOUS
  <2>1. PICK r \in BeginResults : browsing' = IF r = "SUCCESS" THEN FALSE ELSE browsing
    BY DEF Discover
  <2>2. TypeOK /\ (r = "SUCCESS" => ~browsing)
    BY BeginFacts DEF Inv
  <2> QED
    BY <2>1, <2>2 DEF TypeOK
<1> QED
  BY <1>1, Invariance, PTL DEF Spec, DiscoverKeepsBrowsing
-----------------------------------------------------------------------------
(* Searching a text.                                                       *)

\* Where the first of the characters is from k on, or the end of the text.
Stop(s, chars, k) ==
  IF FindFirstOf(s, chars, k) = 0 THEN Len(s) + 1 ELSE FindFirstOf(s, chars, k)

(* FindFirstOf returns the first position, or 0 if there is none.          *)
LEMMA FirstOf ==
  ASSUME NEW s \in Seq(Character), NEW chars, NEW k \in Nat \ {0}
  PROVE  \/ /\ FindFirstOf(s, chars, k) = 0
            /\ \A i \in k .. Len(s) : s[i] \notin chars
         \/ /\ FindFirstOf(s, chars, k) \in k .. Len(s)
            /\ s[FindFirstOf(s, chars, k)] \in chars
            /\ \A i \in k .. FindFirstOf(s, chars, k) - 1 : s[i] \notin chars
<1> DEFINE I == {i \in k .. Len(s) : s[i] \in chars}
<1>1. FindFirstOf(s, chars, k) = IF I # {} THEN Min(I) ELSE 0
  BY DEF FindFirstOf, SelectInSubSeq
<1>2. I \in SUBSET Nat /\ Len(s) \in Nat
  BY LenProperties
<1>3. CASE I = {}
  BY <1>1, <1>3
<1>4. CASE I # {}
  <2> HIDE DEF I
  <2>1. Min(I) \in I /\ \A n \in I : Min(I) <= n
    BY <1>2, <1>4, MinIsLeast
  <2>2. FindFirstOf(s, chars, k) = Min(I)
    BY <1>1, <1>4
  <2>3. Min(I) \in k .. Len(s) /\ s[Min(I)] \in chars
    BY <2>1 DEF I
  <2>4. \A i \in k .. Min(I) - 1 : s[i] \notin chars
    <3> SUFFICES ASSUME NEW i \in k .. Min(I) - 1, s[i] \in chars PROVE FALSE
      OBVIOUS
    <3>1. i \in I /\ i < Min(I) /\ i \in Nat /\ Min(I) \in Nat
      BY <1>2, <2>3 DEF I
    <3>2. Min(I) <= i
      BY <2>1, <3>1
    <3> QED
      BY <3>1, <3>2
  <2> QED
    BY <2>2, <2>3, <2>4
<1> QED
  BY <1>3, <1>4

(* The same for Stop, and that it is the only such position.               *)
LEMMA StopFacts ==
  ASSUME NEW s \in Seq(Character), NEW chars, NEW k \in 1 .. Len(s) + 1
  PROVE  /\ Stop(s, chars, k) \in k .. Len(s) + 1
         /\ Stop(s, chars, k) <= Len(s) => s[Stop(s, chars, k)] \in chars
         /\ \A i \in k .. Stop(s, chars, k) - 1 : s[i] \notin chars
         /\ FindFirstOf(s, chars, k) =
              IF Stop(s, chars, k) <= Len(s) THEN Stop(s, chars, k) ELSE 0
<1>1. Len(s) \in Nat /\ k \in Nat \ {0}
  BY LenProperties
<1> QED
  BY <1>1, FirstOf DEF Stop

(* The position where a search stops is the only one with these facts.     *)
LEMMA StopIs ==
  ASSUME NEW s \in Seq(Character), NEW chars, NEW k \in 1 .. Len(s) + 1,
         NEW p \in k .. Len(s) + 1, p <= Len(s) => s[p] \in chars,
         \A i \in k .. p - 1 : s[i] \notin chars
  PROVE  Stop(s, chars, k) = p
<1>1. Len(s) \in Nat /\ k \in Nat \ {0} /\ p \in Nat
  BY LenProperties
<1> DEFINE q == Stop(s, chars, k)
<1>2. /\ q \in k .. Len(s) + 1 /\ (q <= Len(s) => s[q] \in chars)
      /\ \A i \in k .. q - 1 : s[i] \notin chars
  BY StopFacts
<1> HIDE DEF q
<1>3. ~(q < p) /\ ~(p < q)
  BY <1>1, <1>2
<1> QED
  BY <1>1, <1>2, <1>3 DEF q

(* A piece of a text, character by character.                              *)
LEMMA Piece ==
  ASSUME NEW s \in Seq(Character), NEW a \in Nat \ {0}, NEW b \in Nat, b <= Len(s)
  PROVE  /\ SubSeq(s, a, b) \in Seq(Character)
         /\ Len(SubSeq(s, a, b)) = IF a <= b THEN b - a + 1 ELSE 0
         /\ \A i \in 1 .. b - a + 1 : SubSeq(s, a, b)[i] = s[a + i - 1]
         /\ b < a => SubSeq(s, a, b) = <<>>
<1>1. Len(s) \in Nat /\ \A i \in a .. b : s[i] \in Character
  BY LenProperties, ElementOfSeq
<1>2. a \in Int /\ b \in Int
  OBVIOUS
<1> QED
  BY <1>1, <1>2, SubSeqProperties, SubSeqEmpty

(* The rest of a text, character by character.                             *)
LEMMA Rest ==
  ASSUME NEW s \in Seq(Character), NEW k \in 1 .. Len(s) + 1
  PROVE  /\ From(s, k) \in Seq(Character)
         /\ Len(From(s, k)) = Len(s) + 1 - k
         /\ \A i \in 1 .. Len(s) + 1 - k : From(s, k)[i] = s[k + i - 1]
         /\ From(s, k) = <<>> <=> k = Len(s) + 1
<1>1. Len(s) \in Nat /\ k \in Nat \ {0}
  BY LenProperties
<1>2. /\ From(s, k) \in Seq(Character)
      /\ Len(From(s, k)) = IF k <= Len(s) THEN Len(s) - k + 1 ELSE 0
      /\ \A i \in 1 .. Len(s) - k + 1 : From(s, k)[i] = s[k + i - 1]
  BY <1>1, Piece DEF From
<1>3. From(s, k) = <<>> <=> Len(From(s, k)) = 0
  BY <1>2, EmptySeq
<1> QED
  BY <1>1, <1>2, <1>3

(* Pieces of a rest are pieces of the text.                                *)
LEMMA PieceOfRest ==
  ASSUME NEW s \in Seq(Character), NEW k \in 1 .. Len(s) + 1,
         NEW a \in Nat \ {0}, NEW b \in Nat, b <= Len(s) + 1 - k
  PROVE  SubSeq(From(s, k), a, b) = SubSeq(s, k + a - 1, k + b - 1)
<1>1. Len(s) \in Nat /\ k \in Nat \ {0} /\ k + a - 1 \in Nat \ {0} /\ k + b - 1 \in Nat
      /\ k + b - 1 <= Len(s)
  BY LenProperties
<1> DEFINE t == From(s, k)
           x == SubSeq(t, a, b)
           y == SubSeq(s, k + a - 1, k + b - 1)
<1>2. /\ t \in Seq(Character) /\ Len(t) = Len(s) + 1 - k
      /\ \A i \in 1 .. Len(s) + 1 - k : t[i] = s[k + i - 1]
  BY Rest
<1> HIDE DEF t
<1>3. /\ x \in Seq(Character) /\ Len(x) = IF a <= b THEN b - a + 1 ELSE 0
      /\ \A i \in 1 .. b - a + 1 : x[i] = t[a + i - 1]
  BY <1>2, Piece
<1>4. /\ y \in Seq(Character) /\ Len(y) = IF a <= b THEN b - a + 1 ELSE 0
      /\ \A i \in 1 .. b - a + 1 : y[i] = s[(k + a - 1) + i - 1]
  BY <1>1, Piece
<1> HIDE DEF x, y
<1>5. \A i \in 1 .. Len(x) : x[i] = y[i]
  <2> TAKE i \in 1 .. Len(x)
  <2>1. i \in 1 .. b - a + 1 /\ a + i - 1 \in 1 .. Len(s) + 1 - k
    BY <1>1, <1>3
  <2>2. x[i] = s[k + (a + i - 1) - 1] /\ y[i] = s[(k + a - 1) + i - 1]
    BY <1>2, <1>3, <1>4, <2>1
  <2>3. k + (a + i - 1) - 1 = (k + a - 1) + i - 1
    BY <1>1, <2>1
  <2> QED
    BY <2>2, <2>3
<1>6. x = y
  BY <1>3, <1>4, <1>5, SeqEqual
<1> QED
  BY <1>6 DEF t, x, y

(* The rest of a rest is a rest of the text.                               *)
LEMMA RestOfRest ==
  ASSUME NEW s \in Seq(Character), NEW k \in 1 .. Len(s) + 1,
         NEW j \in 1 .. Len(s) + 2 - k
  PROVE  From(From(s, k), j) = From(s, k + j - 1)
<1>1. Len(s) \in Nat /\ Len(From(s, k)) = Len(s) + 1 - k
  BY LenProperties, Rest
<1> DEFINE b == Len(s) + 1 - k
<1>2. j \in Nat \ {0} /\ b \in Nat /\ b <= Len(s) + 1 - k /\ k + b - 1 = Len(s)
  BY <1>1
<1> HIDE DEF b
<1>3. SubSeq(From(s, k), j, b) = SubSeq(s, k + j - 1, k + b - 1)
  BY <1>2, PieceOfRest
<1> QED
  BY <1>1, <1>2, <1>3 DEF From, b

(* A search in a rest stops where the search of the text from there stops. *)
LEMMA StopInRest ==
  ASSUME NEW s \in Seq(Character), NEW chars, NEW k \in 1 .. Len(s) + 1
  PROVE  Stop(From(s, k), chars, 1) = Stop(s, chars, k) + 1 - k
<1> DEFINE p == Stop(s, chars, k)
           t == From(s, k)
<1>1. Len(s) \in Nat /\ k \in Nat \ {0}
  BY LenProperties
<1>2. /\ p \in k .. Len(s) + 1 /\ (p <= Len(s) => s[p] \in chars)
      /\ \A i \in k .. p - 1 : s[i] \notin chars
  BY StopFacts
<1>3. /\ t \in Seq(Character) /\ Len(t) = Len(s) + 1 - k
      /\ \A i \in 1 .. Len(s) + 1 - k : t[i] = s[k + i - 1]
  BY Rest
<1> HIDE DEF p, t
<1>4. p + 1 - k \in 1 .. Len(t) + 1 /\ 1 \in 1 .. Len(t) + 1
  BY <1>1, <1>2, <1>3
<1>5. p + 1 - k <= Len(t) => t[p + 1 - k] \in chars
  <2> SUFFICES ASSUME p + 1 - k <= Len(t) PROVE t[p + 1 - k] \in chars
    OBVIOUS
  <2>1. t[p + 1 - k] = s[k + (p + 1 - k) - 1] /\ k + (p + 1 - k) - 1 = p /\ p <= Len(s)
    BY <1>1, <1>2, <1>3, <1>4
  <2> QED
    BY <1>2, <2>1
<1>6. \A i \in 1 .. (p + 1 - k) - 1 : t[i] \notin chars
  <2> TAKE i \in 1 .. (p + 1 - k) - 1
  <2>1. t[i] = s[k + i - 1] /\ k + i - 1 \in k .. p - 1
    BY <1>1, <1>2, <1>3
  <2> QED
    BY <1>2, <2>1
<1>7. Stop(t, chars, 1) = p + 1 - k
  BY <1>3, <1>4, <1>5, <1>6, StopIs
<1> QED
  BY <1>7 DEF p, t
-----------------------------------------------------------------------------
(* _parseURIPart() on what is left of a text.                              *)

(* A part of a text from k on ends where the first of its separators is.   *)
LEMMA CutPart ==
  ASSUME NEW s \in Seq(Character), NEW k \in 1 .. Len(s),
         NEW part \in {"AUTHORITY", "PATH", "QUERY", "FRAGMENT"},
         NEW p, p = Stop(s, Separators[part], k)
  PROVE  ParseURIPart(From(s, k), part) =
           [output |-> SubSeq(s, k + Skip(part), p - 1), input |-> From(s, p)]
<1> DEFINE t   == From(s, k)
           pos == SeparatorPos(t, part)
           q   == Stop(t, Separators[part], 1)
<1>1. Len(s) \in Nat /\ k \in Nat \ {0} /\ k \in 1 .. Len(s) + 1
  BY LenProperties
<1>2. /\ t \in Seq(Character) /\ Len(t) = Len(s) + 1 - k
      /\ \A i \in 1 .. Len(s) + 1 - k : t[i] = s[k + i - 1]
  BY <1>1, Rest
<1>3. p \in k .. Len(s) + 1 /\ q = p + 1 - k
  BY <1>1, StopFacts, StopInRest
<1>4. pos = FindFirstOf(t, Separators[part], 1)
  BY DEF SeparatorPos
<1>5. 1 \in 1 .. Len(t) + 1
  BY <1>1, <1>2
<1>6. pos = IF q <= Len(t) THEN q ELSE 0
  BY <1>2, <1>4, <1>5, StopFacts
<1>7. PartIsEmpty(t, part) <=> pos = 1
  BY DEF PartIsEmpty
<1>8. Skip(part) \in 0 .. 1 /\ PostSkip(part) = 0
  BY DEF Skip, PostSkip
<1>9. ParseURIPart(t, part) =
        IF pos = 1 THEN [output |-> <<>>, input |-> t]
        ELSE IF pos = 0 THEN [output |-> From(t, 1 + Skip(part)), input |-> <<>>]
        ELSE [output |-> SubSeq(t, 1 + Skip(part), pos - 1), input |-> From(t, pos + PostSkip(part))]
  BY <1>7 DEF ParseURIPart
<1> HIDE DEF t, pos, q
<1>10. CASE pos = 1
  <2>1. p = k /\ k - 1 \in Nat /\ k - 1 <= Len(s) /\ k + Skip(part) \in Nat \ {0}
        /\ k - 1 < k + Skip(part)
    BY <1>1, <1>2, <1>3, <1>6, <1>8, <1>10
  <2>2. SubSeq(s, k + Skip(part), k - 1) = <<>>
    BY <2>1, Piece
  <2> QED
    BY <1>9, <1>10, <2>1, <2>2 DEF t
<1>11. CASE pos = 0
  <2>0. q > Len(t) /\ Len(t) = Len(s) + 1 - k /\ Len(t) \in Nat
    BY <1>1, <1>2, <1>3, <1>6, <1>11
  <2>1. p = Len(s) + 1 /\ 1 + Skip(part) \in 1 .. Len(s) + 2 - k
        /\ k + (1 + Skip(part)) - 1 = k + Skip(part) /\ p - 1 = Len(s)
        /\ Len(s) + 1 \in 1 .. Len(s) + 1
    BY <1>1, <1>3, <1>8, <2>0
  <2>2. From(t, 1 + Skip(part)) = From(s, k + Skip(part))
    BY <1>1, <2>1, RestOfRest DEF t
  <2>3. From(s, Len(s) + 1) = <<>>
    BY <2>1, Rest
  <2>4. From(s, k + Skip(part)) = SubSeq(s, k + Skip(part), p - 1)
    BY <2>1 DEF From
  <2>5. ParseURIPart(t, part) = [output |-> From(t, 1 + Skip(part)), input |-> <<>>]
    BY <1>9, <1>11
  <2>6. From(t, 1 + Skip(part)) = SubSeq(s, k + Skip(part), p - 1) /\ <<>> = From(s, p)
    BY <2>1, <2>2, <2>3, <2>4
  <2> QED
    BY <2>5, <2>6, Zenon DEF t
<1>12. CASE pos # 0 /\ pos # 1
  <2>1. /\ pos = p + 1 - k /\ pos \in 2 .. Len(t) /\ pos \in 1 .. Len(s) + 2 - k
        /\ k + pos - 1 = p /\ pos + PostSkip(part) = pos
        /\ 1 + Skip(part) \in Nat \ {0} /\ pos - 1 \in Nat /\ pos - 1 <= Len(s) + 1 - k
        /\ k + (1 + Skip(part)) - 1 = k + Skip(part) /\ k + (pos - 1) - 1 = p - 1
    <3>1. pos = q /\ q <= Len(t) /\ q = p + 1 - k /\ p \in Nat /\ pos \in Nat
      BY <1>1, <1>2, <1>3, <1>6, <1>12
    <3>2. pos \in 2 .. Len(t) /\ pos \in 1 .. Len(s) + 2 - k
      BY <1>1, <1>2, <1>3, <1>12, <3>1
    <3>3. 1 + Skip(part) \in Nat \ {0} /\ k + (1 + Skip(part)) - 1 = k + Skip(part)
      BY <1>1, <1>8
    <3>4. pos + PostSkip(part) = pos
      BY <1>8, <3>1
    <3>5. k + pos - 1 = p /\ k + (pos - 1) - 1 = p - 1
      BY <1>1, <3>1
    <3>6. pos - 1 \in Nat /\ pos - 1 <= Len(s) + 1 - k
      BY <1>1, <3>2
    <3> QED
      BY <3>1, <3>2, <3>3, <3>4, <3>5, <3>6
  <2>2. From(t, pos) = From(s, k + pos - 1)
    BY <1>1, <2>1, RestOfRest DEF t
  <2>3. SubSeq(t, 1 + Skip(part), pos - 1) =
          SubSeq(s, k + (1 + Skip(part)) - 1, k + (pos - 1) - 1)
    BY <1>1, <2>1, PieceOfRest DEF t
  <2>4. ParseURIPart(t, part) =
          [output |-> SubSeq(t, 1 + Skip(part), pos - 1), input |-> From(t, pos + PostSkip(part))]
    BY <1>9, <1>12
  <2>5. /\ SubSeq(t, 1 + Skip(part), pos - 1) = SubSeq(s, k + Skip(part), p - 1)
        /\ From(t, pos + PostSkip(part)) = From(s, p)
    BY <2>1, <2>2, <2>3
  <2> QED
    BY <2>4, <2>5, Zenon DEF t
<1> QED
  BY <1>10, <1>11, <1>12

(* A scheme ends at i: no earlier character can end it.                    *)
SchemeEnds(s, i) ==
  /\ i \in 2 .. Len(s) - 2
  /\ s[i] = ":" /\ s[i + 1] = "/" /\ s[i + 2] = "/"
  /\ \A j \in 1 .. i - 1 : s[j] \notin {"/", "?", "#"}

\* Where the scheme ends, 0 if there is none.
SchemeEnd(s) ==
  IF PartIsEmpty(s, "SCHEME") THEN 0 ELSE FindSchemeSeparator(s)

(* The three characters that end a scheme.                                 *)
LEMMA SeparatorChars ==
  ASSUME NEW s \in Seq(Character), NEW i \in 1 .. Len(s) - 2
  PROVE  SubSeq(s, i, i + 2) = <<":", "/", "/">>
           <=> s[i] = ":" /\ s[i + 1] = "/" /\ s[i + 2] = "/"
<1>1. Len(s) \in Nat /\ i \in Nat \ {0} /\ i + 2 \in Nat /\ i + 2 <= Len(s) /\ i <= i + 2
  BY LenProperties
<1> DEFINE x == SubSeq(s, i, i + 2)
           y == <<":", "/", "/">>
<1>2. /\ x \in Seq(Character) /\ Len(x) = (i + 2) - i + 1
      /\ \A j \in 1 .. (i + 2) - i + 1 : x[j] = s[i + j - 1]
  BY <1>1, Piece
<1> HIDE DEF x
<1>3. Len(x) = 3 /\ x[1] = s[i] /\ x[2] = s[i + 1] /\ x[3] = s[i + 2]
  <2>1. (i + 2) - i + 1 = 3 /\ i + 1 - 1 = i /\ i + 2 - 1 = i + 1 /\ i + 3 - 1 = i + 2
    BY <1>1
  <2> QED
    BY <1>2, <2>1
<1>4. y \in Seq(Character) /\ Len(y) = 3 /\ y[1] = ":" /\ y[2] = "/" /\ y[3] = "/"
  BY DEF Character
<1> HIDE DEF y
<1>5. s[i] = ":" /\ s[i + 1] = "/" /\ s[i + 2] = "/" => x = y
  <2> SUFFICES ASSUME s[i] = ":", s[i + 1] = "/", s[i + 2] = "/" PROVE x = y
    OBVIOUS
  <2>1. \A j \in 1 .. Len(x) : x[j] = y[j]
    BY <1>3, <1>4
  <2> QED
    BY <1>2, <1>3, <1>4, <2>1, SeqEqual
<1>6. x = y => s[i] = ":" /\ s[i + 1] = "/" /\ s[i + 2] = "/"
  BY <1>3, <1>4
<1> QED
  BY <1>5, <1>6 DEF x, y

(* FindSchemeSeparator returns the first ://, or 0.                        *)
LEMMA FirstSeparator ==
  ASSUME NEW s \in Seq(Character), NEW p, p = FindSchemeSeparator(s)
  PROVE  \/ /\ p = 0
            /\ \A i \in 1 .. Len(s) - 2 : ~(s[i] = ":" /\ s[i + 1] = "/" /\ s[i + 2] = "/")
         \/ /\ p \in 1 .. Len(s) - 2 /\ s[p] = ":" /\ s[p + 1] = "/" /\ s[p + 2] = "/"
            /\ \A i \in 1 .. p - 1 : ~(s[i] = ":" /\ s[i + 1] = "/" /\ s[i + 2] = "/")
<1> DEFINE id == [i \in DOMAIN s |-> i]
           I  == {i \in 1 .. Len(s) - 2 : SubSeq(s, id[i], id[i] + 2) = <<":", "/", "/">>}
           J  == {i \in 1 .. Len(s) - 2 : s[i] = ":" /\ s[i + 1] = "/" /\ s[i + 2] = "/"}
<1>1. p = IF I # {} THEN Min(I) ELSE 0
  BY DEF FindSchemeSeparator, SelectInSubSeq
<1>2. Len(s) \in Nat /\ DOMAIN s = 1 .. Len(s)
  BY LenProperties
<1>3. \A i \in 1 .. Len(s) - 2 : id[i] = i
  BY <1>2
<1>4. I = J
  <2>1. \A i \in 1 .. Len(s) - 2 : i \in I <=> i \in J
    BY <1>3, SeparatorChars
  <2> QED
    BY <2>1
<1>5. p = IF J # {} THEN Min(J) ELSE 0
  BY <1>1, <1>4
<1> HIDE DEF I
<1>6. J \in SUBSET Nat
  BY <1>2
<1>7. CASE J = {}
  BY <1>5, <1>7
<1>8. CASE J # {}
  <2> HIDE DEF J
  <2>1. Min(J) \in J /\ p = Min(J) /\ \A n \in J : p <= n
    BY <1>5, <1>6, <1>8, MinIsLeast
  <2>2. p \in 1 .. Len(s) - 2 /\ s[p] = ":" /\ s[p + 1] = "/" /\ s[p + 2] = "/"
    BY <2>1 DEF J
  <2>3. \A i \in 1 .. p - 1 : i \notin J
    BY <1>2, <2>1, <2>2
  <2>4. \A i \in 1 .. p - 1 : i \in 1 .. Len(s) - 2
    BY <1>2, <2>2
  <2> QED
    BY <2>2, <2>3, <2>4 DEF J
<1> QED
  BY <1>7, <1>8

(* SchemeEnd is where the scheme ends, and the only such position.         *)
LEMMA SchemeEndFacts ==
  ASSUME NEW s \in Seq(Character)
  PROVE  /\ SchemeEnd(s) = 0 \/ SchemeEnds(s, SchemeEnd(s))
         /\ \A i : SchemeEnds(s, i) => SchemeEnd(s) = i
<1> DEFINE p == FindSchemeSeparator(s)
           f == FindFirstOf(s, {"/", "?", "#"}, 1)
           Here(i) == s[i] = ":" /\ s[i + 1] = "/" /\ s[i + 2] = "/"
<1>1. Len(s) \in Nat
  BY LenProperties
<1>2. PartIsEmpty(s, "SCHEME") <=> p = 1 \/ p = 0 \/ f < p
  BY DEF PartIsEmpty, SeparatorPos
<1>3. \/ p = 0 /\ \A i \in 1 .. Len(s) - 2 : ~Here(i)
      \/ p \in 1 .. Len(s) - 2 /\ Here(p) /\ \A i \in 1 .. p - 1 : ~Here(i)
  BY FirstSeparator
<1>4. \/ f = 0 /\ \A i \in 1 .. Len(s) : s[i] \notin {"/", "?", "#"}
      \/ /\ f \in 1 .. Len(s) /\ s[f] \in {"/", "?", "#"}
         /\ \A i \in 1 .. f - 1 : s[i] \notin {"/", "?", "#"}
  BY FirstOf
<1>5. SchemeEnd(s) = IF p = 1 \/ p = 0 \/ f < p THEN 0 ELSE p
  BY <1>2 DEF SchemeEnd
<1> HIDE DEF p, f
<1>6. SchemeEnd(s) # 0 => SchemeEnds(s, p)
  <2> SUFFICES ASSUME SchemeEnd(s) # 0 PROVE SchemeEnds(s, p)
    OBVIOUS
  <2>1. p \in 1 .. Len(s) - 2 /\ Here(p) /\ p # 1 /\ ~(f < p)
    BY <1>3, <1>5
  <2>2. p + 1 \in 1 .. Len(s) /\ s[p + 1] \in {"/", "?", "#"}
    BY <1>1, <2>1
  <2>3. f \in 1 .. Len(s) /\ \A i \in 1 .. f - 1 : s[i] \notin {"/", "?", "#"}
    BY <1>4, <2>2
  <2>4. \A i \in 1 .. p - 1 : i \in 1 .. f - 1
    BY <1>1, <2>1, <2>3
  <2> QED
    BY <1>1, <2>1, <2>3, <2>4 DEF SchemeEnds
<1>7. ASSUME NEW i, SchemeEnds(s, i) PROVE SchemeEnd(s) = i
  <2>1. /\ i \in 2 .. Len(s) - 2 /\ Here(i)
        /\ \A j \in 1 .. i - 1 : s[j] \notin {"/", "?", "#"}
    BY <1>7 DEF SchemeEnds
  <2>2. p \in 1 .. Len(s) - 2 /\ Here(p) /\ ~(i < p)
    BY <1>1, <1>3, <2>1
  <2>3. ~(p < i)
    <3> SUFFICES ASSUME p < i PROVE FALSE
      OBVIOUS
    <3>1. p + 1 \in 1 .. i - 1 \/ p + 1 = i
      BY <1>1, <2>1, <2>2
    <3> QED
      BY <2>1, <2>2, <3>1
  <2>4. p = i
    BY <1>1, <2>1, <2>2, <2>3
  <2>5. ~(f < p)
    <3> SUFFICES ASSUME f < p PROVE FALSE
      OBVIOUS
    <3>1. i + 1 \in 1 .. Len(s) /\ s[i + 1] \in {"/", "?", "#"}
      BY <1>1, <2>1
    <3>2. f \in 1 .. Len(s) /\ s[f] \in {"/", "?", "#"}
      BY <1>4, <3>1
    <3>3. f \in 1 .. i - 1
      BY <1>1, <2>1, <2>4, <3>2
    <3> QED
      BY <2>1, <3>2, <3>3
  <2>6. ~(p = 1 \/ p = 0 \/ f < p)
    BY <2>1, <2>4, <2>5
  <2> QED
    BY <1>5, <2>4, <2>6
<1> QED
  BY <1>5, <1>6, <1>7

\* Where the text behind the scheme starts.
RestPos(s) == IF SchemeEnd(s) = 0 THEN 1 ELSE SchemeEnd(s) + 3

(* What follows the scheme starts inside the text or at its end, and there *)
(* is no ? and no # before it.                                             *)
LEMMA RestPosFacts ==
  ASSUME NEW s \in Seq(Character)
  PROVE  /\ RestPos(s) \in 1 .. Len(s) + 1
         /\ \A i \in 1 .. RestPos(s) - 1 : s[i] \notin {"?", "#"}
<1>1. Len(s) \in Nat
  BY LenProperties
<1>2. CASE SchemeEnd(s) = 0
  BY <1>1, <1>2 DEF RestPos
<1>3. CASE SchemeEnd(s) # 0
  <2> DEFINE e == SchemeEnd(s)
  <2>1. /\ e \in 2 .. Len(s) - 2 /\ s[e] = ":" /\ s[e + 1] = "/" /\ s[e + 2] = "/"
        /\ \A j \in 1 .. e - 1 : s[j] \notin {"/", "?", "#"}
        /\ RestPos(s) = e + 3
    BY <1>3, SchemeEndFacts DEF SchemeEnds, RestPos
  <2> HIDE DEF e
  <2>2. \A i \in 1 .. e + 2 : i \in 1 .. e - 1 \/ i = e \/ i = e + 1 \/ i = e + 2
    BY <1>1, <2>1
  <2> QED
    BY <1>1, <2>1, <2>2
<1> QED
  BY <1>2, <1>3

(* The scheme is what stands before ://, and both are taken off.           *)
LEMMA CutScheme ==
  ASSUME NEW s \in Seq(Character)
  PROVE  ParseURIPart(s, "SCHEME") =
           [output |-> SubSeq(s, 1, SchemeEnd(s) - 1), input |-> From(s, RestPos(s))]
<1>1. CASE PartIsEmpty(s, "SCHEME")
  <2>1. SchemeEnd(s) = 0 /\ RestPos(s) = 1
    BY <1>1 DEF SchemeEnd, RestPos
  <2>2. SubSeq(s, 1, 0 - 1) = <<>>
    BY SubSeqEmpty
  <2>3. From(s, 1) = s
    BY SubSeqFull DEF From
  <2> QED
    BY <1>1, <2>1, <2>2, <2>3 DEF ParseURIPart
<1>2. CASE ~PartIsEmpty(s, "SCHEME")
  <2>1. SchemeEnd(s) = FindSchemeSeparator(s) /\ FindSchemeSeparator(s) # 0
        /\ SeparatorPos(s, "SCHEME") = FindSchemeSeparator(s)
    BY <1>2 DEF SchemeEnd, PartIsEmpty, SeparatorPos
  <2>2. 1 + Skip("SCHEME") = 1 /\ PostSkip("SCHEME") = 3
    BY DEF Skip, PostSkip
  <2> QED
    BY <1>2, <2>1, <2>2 DEF ParseURIPart, RestPos
<1> QED
  BY <1>1, <1>2
-----------------------------------------------------------------------------
(* Functions defined by recursion exist.                                   *)

(* A rule for a function to S: its values below B, and how to get the one  *)
(* of n from the one of a smaller number.                                  *)
IsRule(S, B, base, Pred, F) ==
  /\ B \in Nat \ {0}
  /\ base \in [Nat -> S]
  /\ Pred \in [Nat -> Nat]
  /\ \A n \in Nat : n >= B => Pred[n] < n
  /\ F \in [Nat \X S -> S]

(* A function on the numbers up to m that its rule defines.                *)
Follows(g, m, S, B, base, Pred, F) ==
  /\ g \in [0 .. m -> S]
  /\ \A n \in 0 .. m : g[n] = IF n < B THEN base[n] ELSE F[<<n, g[Pred[n]]>>]

Solves(f, S, B, base, Pred, F) ==
  /\ f \in [Nat -> S]
  /\ \A n \in Nat : f[n] = IF n < B THEN base[n] ELSE F[<<n, f[Pred[n]]>>]

(* Two functions that the rule defines agree where both are defined.       *)
LEMMA RecursionIsUnique ==
  ASSUME NEW S, NEW B, NEW base, NEW Pred, NEW F, IsRule(S, B, base, Pred, F),
         NEW m \in Nat, NEW g, Follows(g, m, S, B, base, Pred, F),
         NEW k \in Nat, NEW h, Follows(h, k, S, B, base, Pred, F), m <= k
  PROVE  \A n \in 0 .. m : g[n] = h[n]
<1>0. /\ B \in Nat \ {0} /\ base \in [Nat -> S] /\ Pred \in [Nat -> Nat]
      /\ F \in [Nat \X S -> S] /\ \A n \in Nat : n >= B => Pred[n] < n
  BY DEF IsRule
<1> USE <1>0
<1> DEFINE Bad == {n \in 0 .. m : g[n] # h[n]}
<1> SUFFICES ASSUME Bad # {} PROVE FALSE
  OBVIOUS
<1>1. Bad \in SUBSET Nat
  OBVIOUS
<1>2. PICK n \in Bad : \A i \in Bad : n <= i
  BY <1>1, LeastNumber
<1>3. n \in 0 .. m /\ n \in 0 .. k /\ g[n] # h[n] /\ n \in Nat
  BY <1>2
<1>4. /\ g[n] = IF n < B THEN base[n] ELSE F[<<n, g[Pred[n]]>>]
      /\ h[n] = IF n < B THEN base[n] ELSE F[<<n, h[Pred[n]]>>]
  BY <1>3 DEF Follows
<1>5. ~(n < B)
  BY <1>3, <1>4
<1>6. Pred[n] \in Nat /\ Pred[n] < n /\ Pred[n] \in 0 .. m
  BY <1>3, <1>5
<1>7. Pred[n] \notin Bad
  BY <1>2, <1>3, <1>6
<1>8. g[Pred[n]] = h[Pred[n]]
  BY <1>6, <1>7
<1> QED
  BY <1>3, <1>4, <1>8

(* There is one up to every number.                                        *)
LEMMA RecursionUpTo ==
  ASSUME NEW S, NEW B, NEW base, NEW Pred, NEW F, IsRule(S, B, base, Pred, F)
  PROVE  \A m \in Nat : \E g : Follows(g, m, S, B, base, Pred, F)
<1>0. /\ B \in Nat \ {0} /\ base \in [Nat -> S] /\ Pred \in [Nat -> Nat]
      /\ F \in [Nat \X S -> S] /\ \A n \in Nat : n >= B => Pred[n] < n
  BY DEF IsRule
<1> USE <1>0
<1> DEFINE Bad == {m \in Nat : ~ \E g : Follows(g, m, S, B, base, Pred, F)}
<1> SUFFICES ASSUME Bad # {} PROVE FALSE
  OBVIOUS
<1>1. Bad \in SUBSET Nat
  OBVIOUS
<1>2. PICK m \in Bad : \A i \in Bad : m <= i
  BY <1>1, LeastNumber
<1>3. m \in Nat /\ ~ \E g : Follows(g, m, S, B, base, Pred, F)
  BY <1>2
<1>4. CASE m = 0
  <2> DEFINE g == [n \in 0 .. m |-> base[n]]
  <2>1. \A n \in 0 .. m : n = 0 /\ g[n] = base[n] /\ n < B /\ n \in Nat /\ base[n] \in S
    BY <1>4
  <2>2. g \in [0 .. m -> S]
    BY <2>1
  <2> HIDE DEF g
  <2>3. Follows(g, m, S, B, base, Pred, F)
    BY <2>1, <2>2 DEF Follows
  <2> QED
    BY <1>3, <2>3
<1>5. CASE m # 0
  <2>1. m - 1 \in Nat /\ m - 1 \notin Bad
    BY <1>2, <1>3, <1>5
  <2>2. PICK h : Follows(h, m - 1, S, B, base, Pred, F)
    BY <2>1
  <2>3. /\ h \in [0 .. m - 1 -> S]
        /\ \A n \in 0 .. m - 1 : h[n] = IF n < B THEN base[n] ELSE F[<<n, h[Pred[n]]>>]
    BY <2>2 DEF Follows
  <2> DEFINE last == IF m < B THEN base[m] ELSE F[<<m, h[Pred[m]]>>]
             g    == [n \in 0 .. m |-> IF n = m THEN last ELSE h[n]]
  <2>4. last \in S
    <3>1. CASE m < B
      BY <1>3, <3>1
    <3>2. CASE ~(m < B)
      <4>1. Pred[m] \in 0 .. m - 1
        BY <1>3, <3>2
      <4>2. <<m, h[Pred[m]]>> \in Nat \X S
        BY <1>3, <2>3, <4>1
      <4> QED
        BY <3>2, <4>2
    <3> QED
      BY <3>1, <3>2
  <2>5. \A n \in 0 .. m - 1 : n \in 0 .. m /\ n # m /\ g[n] = h[n] /\ h[n] \in S
    <3>1. \A n \in 0 .. m - 1 : n \in 0 .. m /\ n # m
      BY <1>3
    <3> HIDE DEF last
    <3> QED
      BY <2>3, <3>1
  <2>6. m \in 0 .. m /\ g[m] = last /\ \A n \in 0 .. m : n = m \/ n \in 0 .. m - 1
    BY <1>3
  <2>7. g \in [0 .. m -> S]
    <3>1. \A n \in 0 .. m : (IF n = m THEN last ELSE h[n]) \in S
      BY <2>4, <2>5, <2>6
    <3> HIDE DEF last
    <3> QED
      BY <3>1
  <2> HIDE DEF g
  <2>8. \A n \in 0 .. m : ~(n < B) => Pred[n] \in 0 .. m - 1
    BY <1>3
  <2>9. ASSUME NEW n \in 0 .. m
        PROVE  g[n] = IF n < B THEN base[n] ELSE F[<<n, g[Pred[n]]>>]
    <3>1. CASE n = m
      BY <2>5, <2>6, <2>8, <3>1
    <3>2. CASE n \in 0 .. m - 1
      BY <2>3, <2>5, <2>8, <3>2
    <3> QED
      BY <2>6, <3>1, <3>2
  <2>10. Follows(g, m, S, B, base, Pred, F)
    BY <2>7, <2>9 DEF Follows
  <2> QED
    BY <1>3, <2>10
<1> QED
  BY <1>4, <1>5

(* And so there is one on all numbers.                                     *)
LEMMA Recursion ==
  ASSUME NEW S, NEW B, NEW base, NEW Pred, NEW F, IsRule(S, B, base, Pred, F)
  PROVE  \E f : Solves(f, S, B, base, Pred, F)
<1>0. /\ B \in Nat \ {0} /\ base \in [Nat -> S] /\ Pred \in [Nat -> Nat]
      /\ F \in [Nat \X S -> S] /\ \A n \in Nat : n >= B => Pred[n] < n
  BY DEF IsRule
<1> USE <1>0
<1> DEFINE Up(g, m) == Follows(g, m, S, B, base, Pred, F)
           G(m) == CHOOSE g : Up(g, m)
           f == [n \in Nat |-> G(n)[n]]
<1>1. \A m \in Nat : Up(G(m), m)
  BY RecursionUpTo
<1>2. ASSUME NEW m \in Nat, NEW k \in Nat, m <= k PROVE G(k)[m] = f[m]
  <2> HIDE DEF G
  <2>1. Follows(G(m), m, S, B, base, Pred, F) /\ Follows(G(k), k, S, B, base, Pred, F)
    BY <1>1
  <2> HIDE DEF f, Up
  <2>2. \A n \in 0 .. m : G(m)[n] = G(k)[n]
    BY <1>2, <2>1, RecursionIsUnique
  <2>3. m \in 0 .. m
    OBVIOUS
  <2> QED
    BY <2>2, <2>3 DEF f
<1> HIDE DEF G
<1>3. f \in [Nat -> S]
  <2>1. ASSUME NEW n \in Nat PROVE G(n)[n] \in S
    <3>1. G(n) \in [0 .. n -> S] /\ n \in 0 .. n
      BY <1>1 DEF Follows
    <3> QED
      BY <3>1
  <2> QED
    BY <2>1
<1> HIDE DEF f
<1>4. ASSUME NEW n \in Nat
      PROVE  f[n] = IF n < B THEN base[n] ELSE F[<<n, f[Pred[n]]>>]
  <2>1. n \in 0 .. n /\ Up(G(n), n)
    BY <1>1
  <2>2. G(n)[n] = IF n < B THEN base[n] ELSE F[<<n, G(n)[Pred[n]]>>]
    BY <2>1 DEF Follows
  <2>3. G(n)[n] = f[n]
    BY <1>2
  <2>4. ~(n < B) => G(n)[Pred[n]] = f[Pred[n]]
    <3> SUFFICES ASSUME ~(n < B) PROVE G(n)[Pred[n]] = f[Pred[n]]
      OBVIOUS
    <3>1. Pred[n] \in Nat /\ Pred[n] <= n
      OBVIOUS
    <3> QED
      BY <1>2, <3>1
  <2> QED
    BY <2>2, <2>3, <2>4
<1> QED
  BY <1>3, <1>4 DEF Solves

(* The digits.                                                             *)
LEMMA Digits ==
  /\ \A d \in 0 .. 9 : DecDigits[d + 1] \in ToSet(DecDigits)
  /\ \A d \in 0 .. 9 : DigitValue(DecDigits[d + 1]) = d
  /\ \A c \in ToSet(DecDigits) : DigitValue(c) \in 0 .. 9
  /\ ToSet(DecDigits) \subseteq Character
  /\ ToSet(DecDigits) \cap {"space", "+", "-", "@", ":", "/", "?", "#"} = {}
<1>1. DecDigits \in Seq(ToSet(DecDigits)) /\ Len(DecDigits) = 10 /\ DOMAIN DecDigits = 1 .. 10
  BY DEF DecDigits, ToSet
<1>2. ToSet(DecDigits) = {"0", "1", "2", "3", "4", "5", "6", "7", "8", "9"}
  BY DEF DecDigits, ToSet
<1>3. \A d \in 0 .. 9 : DecDigits[d + 1] \in ToSet(DecDigits)
  BY <1>1 DEF ToSet
<1>4. \A d \in 0 .. 9 : \A e \in 0 .. 9 : DecDigits[d + 1] = DecDigits[e + 1] => d = e
  BY DEF DecDigits
<1>5. \A c \in ToSet(DecDigits) : \E d \in 0 .. 9 : DecDigits[d + 1] = c
  <2> TAKE c \in ToSet(DecDigits)
  <2>1. PICK i \in 1 .. 10 : DecDigits[i] = c
    BY <1>1 DEF ToSet
  <2>2. i - 1 \in 0 .. 9 /\ (i - 1) + 1 = i
    OBVIOUS
  <2> QED
    BY <2>1, <2>2
<1>6. \A c \in ToSet(DecDigits) : DigitValue(c) \in 0 .. 9 /\ DecDigits[DigitValue(c) + 1] = c
  BY <1>5 DEF DigitValue
<1>7. \A d \in 0 .. 9 : DigitValue(DecDigits[d + 1]) = d
  BY <1>3, <1>4, <1>6
<1> QED
  BY <1>2, <1>3, <1>6, <1>7 DEF Character

(* The digits that operator<< writes of a port: ToDecimal is what its      *)
(* recursive definition says.                                              *)
LEMMA ToDecimalDef ==
  /\ ToDecimal \in [Nat -> Seq(Character)]
  /\ \A n \in Nat :
       ToDecimal[n] = IF n < 10 THEN <<DecDigits[n + 1]>>
                      ELSE Append(ToDecimal[n \div 10], DecDigits[(n % 10) + 1])
<1> DEFINE S    == Seq(Character)
           base == [n \in Nat |-> IF n < 10 THEN <<DecDigits[n + 1]>> ELSE <<>>]
           Pred == [n \in Nat |-> n \div 10]
           F    == [x \in Nat \X S |-> Append(x[2], DecDigits[(x[1] % 10) + 1])]
           Rule(f) == f = [n \in Nat |-> IF n < 10 THEN <<DecDigits[n + 1]>>
                             ELSE Append(f[n \div 10], DecDigits[(n % 10) + 1])]
<1>1. \A n \in Nat : n % 10 \in 0 .. 9 /\ n \div 10 \in Nat /\ (n >= 10 => n \div 10 < n)
  OBVIOUS
<1>2. \A d \in 0 .. 9 : DecDigits[d + 1] \in Character
  BY Digits
<1>3. base \in [Nat -> S]
  <2>1. \A n \in Nat : (IF n < 10 THEN <<DecDigits[n + 1]>> ELSE <<>>) \in S
    <3> TAKE n \in Nat
    <3>1. n < 10 => n \in 0 .. 9
      OBVIOUS
    <3> QED
      BY <1>2, <3>1
  <2> QED
    BY <2>1
<1>4. Pred \in [Nat -> Nat] /\ \A n \in Nat : n >= 10 => Pred[n] < n
  BY <1>1
<1>5. F \in [Nat \X S -> S]
  <2>1. \A x \in Nat \X S : Append(x[2], DecDigits[(x[1] % 10) + 1]) \in S
    <3> TAKE x \in Nat \X S
    <3>1. x[1] \in Nat /\ x[2] \in S
      OBVIOUS
    <3>2. DecDigits[(x[1] % 10) + 1] \in Character
      BY <1>1, <1>2, <3>1
    <3> QED
      BY <3>1, <3>2, AppendProperties
  <2> QED
    BY <2>1
<1>6. 10 \in Nat \ {0}
  OBVIOUS
<1>7. /\ \A n \in Nat : n < 10 => base[n] = <<DecDigits[n + 1]>>
      /\ \A n \in Nat : Pred[n] = n \div 10
      /\ \A n \in Nat : \A y \in S : F[<<n, y>>] = Append(y, DecDigits[(n % 10) + 1])
  OBVIOUS
<1> HIDE DEF S, base, Pred, F
<1>8. IsRule(S, 10, base, Pred, F)
  BY <1>3, <1>4, <1>5, <1>6 DEF IsRule
<1>9. PICK f : Solves(f, S, 10, base, Pred, F)
  BY <1>8, Recursion
<1>10. f \in [Nat -> S] /\ \A n \in Nat : f[n] = IF n < 10 THEN base[n] ELSE F[<<n, f[Pred[n]]>>]
  BY <1>9 DEF Solves
<1>11. ASSUME NEW n \in Nat
      PROVE  f[n] = IF n < 10 THEN <<DecDigits[n + 1]>>
                    ELSE Append(f[n \div 10], DecDigits[(n % 10) + 1])
  <2>1. f[n \div 10] \in S
    BY <1>1, <1>10
  <2> QED
    BY <1>7, <1>10, <2>1
<1>12. Rule(f)
  BY <1>10, <1>11
<1>13. ToDecimal = CHOOSE g : Rule(g)
  BY DEF ToDecimal
<1>14. Rule(ToDecimal)
  <2> HIDE DEF Rule
  <2> QED
    BY <1>12, <1>13
<1>15. \A n \in Nat :
         ToDecimal[n] = IF n < 10 THEN <<DecDigits[n + 1]>>
                        ELSE Append(ToDecimal[n \div 10], DecDigits[(n % 10) + 1])
  BY <1>14
<1>16. \A n \in Nat : ToDecimal[n] \in Seq(Character)
  <2> DEFINE Bad == {n \in Nat : ToDecimal[n] \notin Seq(Character)}
  <2> SUFFICES ASSUME Bad # {} PROVE FALSE
    OBVIOUS
  <2>1. PICK n \in Bad : \A i \in Bad : n <= i
    <3>1. Bad \in SUBSET Nat
      OBVIOUS
    <3> QED
      BY <3>1, LeastNumber
  <2>2. n \in Nat /\ ToDecimal[n] \notin Seq(Character)
    BY <2>1
  <2>3. CASE n < 10
    <3> HIDE DEF Rule, Bad
    <3>1. ToDecimal[n] = <<DecDigits[n + 1]>>
      BY <1>15, <2>2, <2>3
    <3>2. n \in 0 .. 9
      BY <2>2, <2>3
    <3> QED
      BY <1>2, <2>2, <3>1, <3>2
  <2>4. CASE ~(n < 10)
    <3>1. n \div 10 \in Nat /\ n \div 10 \notin Bad
      BY <1>1, <2>1, <2>2, <2>4
    <3>2. ToDecimal[n \div 10] \in Seq(Character) /\ DecDigits[(n % 10) + 1] \in Character
      BY <1>1, <1>2, <2>2, <3>1
    <3>3. ToDecimal[n] = Append(ToDecimal[n \div 10], DecDigits[(n % 10) + 1])
      BY <1>15, <2>2, <2>4
    <3> QED
      BY <2>2, <3>2, <3>3, AppendProperties
  <2> QED
    BY <2>3, <2>4
<1> QED
  <2>1. ToDecimal = [n \in Nat |-> ToDecimal[n]]
    BY <1>14
  <2> QED
    BY <1>15, <1>16, <2>1
-----------------------------------------------------------------------------
(* Numbers and their digits.                                               *)

\* What Strtol reads, prefix by prefix.
ReadOf(s) ==
  CHOOSE f : f = [i \in 0 .. Len(s) |->
                    IF i = 0 THEN 0
                    ELSE IF s[i] \in Signs THEN f[i - 1]
                    ELSE 10 * f[i - 1] + DigitValue(s[i])]

(* A number has at least one character, and only digits and what strtol()  *)
(* takes before them.                                                      *)
LEMMA NumberChars ==
  ASSUME NEW s \in Seq(Character), IsNumber(s)
  PROVE  Len(s) \in Nat \ {0} /\ \A i \in 1 .. Len(s) : s[i] \in ToSet(DecDigits) \cup Signs
<1>1. Len(s) \in Nat /\ DOMAIN s = 1 .. Len(s)
  BY LenProperties
<1>2. PICK d \in 1 .. Len(s) : /\ \A i \in 1 .. d - 2 : s[i] = "space"
                               /\ d > 1 => s[d - 1] \in Signs
                               /\ \A i \in d .. Len(s) : s[i] \in ToSet(DecDigits)
  BY <1>1 DEF IsNumber
<1>3. "space" \in Signs
  BY DEF Signs
<1>4. ASSUME NEW i \in 1 .. Len(s) PROVE s[i] \in ToSet(DecDigits) \cup Signs
  <2>1. i \in 1 .. d - 2 \/ (i = d - 1 /\ d > 1) \/ i \in d .. Len(s)
    BY <1>1
  <2> QED
    BY <1>2, <1>3, <2>1
<1> QED
  BY <1>1, <1>2, <1>4

(* The loop of strtol() over a number: the function it stands for exists.  *)
LEMMA ReadOfDef ==
  ASSUME NEW s \in Seq(Character),
         \A i \in 1 .. Len(s) : s[i] \in ToSet(DecDigits) \cup Signs
  PROVE  /\ ReadOf(s) \in [0 .. Len(s) -> Int]
         /\ ReadOf(s)[0] = 0
         /\ \A i \in 1 .. Len(s) :
              ReadOf(s)[i] = IF s[i] \in Signs THEN ReadOf(s)[i - 1]
                             ELSE 10 * ReadOf(s)[i - 1] + DigitValue(s[i])
<1>1. Len(s) \in Nat
  BY LenProperties
<1>2. \A i \in 1 .. Len(s) : s[i] \notin Signs => DigitValue(s[i]) \in 0 .. 9
  BY Digits
<1> DEFINE base == [n \in Nat |-> 0]
           Pred == [n \in Nat |-> IF n = 0 THEN 0 ELSE n - 1]
           Next1(n, y) == IF n \notin 1 .. Len(s) THEN 0
                          ELSE IF s[n] \in Signs THEN y ELSE 10 * y + DigitValue(s[n])
           F    == [x \in Nat \X Int |-> Next1(x[1], x[2])]
           Rule(f) == f = [i \in 0 .. Len(s) |->
                             IF i = 0 THEN 0
                             ELSE IF s[i] \in Signs THEN f[i - 1]
                             ELSE 10 * f[i - 1] + DigitValue(s[i])]
<1>3. \A n \in Nat : \A y \in Int : Next1(n, y) \in Int
  BY <1>2
<1>4. \A n \in Nat : \A y \in Int : F[<<n, y>>] = Next1(n, y)
  <2> HIDE DEF Next1
  <2> QED
    OBVIOUS
<1>5. F \in [Nat \X Int -> Int]
  <2> HIDE DEF Next1
  <2>1. \A x \in Nat \X Int : x[1] \in Nat /\ x[2] \in Int
    OBVIOUS
  <2> QED
    BY <1>3, <2>1
<1>6. base \in [Nat -> Int] /\ Pred \in [Nat -> Nat] /\ \A n \in Nat : n >= 1 => Pred[n] < n
  OBVIOUS
<1>7. /\ \A n \in Nat : base[n] = 0
      /\ \A n \in Nat : n # 0 => Pred[n] = n - 1
  OBVIOUS
<1> HIDE DEF base, Pred, F
<1>8. IsRule(Int, 1, base, Pred, F)
  <2>1. 1 \in Nat \ {0}
    OBVIOUS
  <2> QED
    BY <1>5, <1>6, <2>1, Zenon DEF IsRule
<1>9. PICK h : Solves(h, Int, 1, base, Pred, F)
  BY <1>8, Recursion
<1>10. h \in [Nat -> Int] /\ \A n \in Nat : h[n] = IF n < 1 THEN base[n] ELSE F[<<n, h[Pred[n]]>>]
  BY <1>9 DEF Solves
<1>11. h[0] = 0
  <2>1. 0 \in Nat /\ 0 < 1
    OBVIOUS
  <2>2. h[0] = base[0] /\ base[0] = 0
    BY <1>7, <1>10, <2>1
  <2> QED
    BY <2>2
<1>12. ASSUME NEW i \in 1 .. Len(s)
       PROVE  h[i] = IF s[i] \in Signs THEN h[i - 1] ELSE 10 * h[i - 1] + DigitValue(s[i])
  <2>1. i \in Nat /\ ~(i < 1) /\ Pred[i] = i - 1 /\ i - 1 \in Nat
    BY <1>1, <1>7
  <2>2. h[i - 1] \in Int
    BY <1>10, <2>1
  <2>3. h[i] = F[<<i, h[i - 1]>>]
    BY <1>10, <2>1
  <2>4. h[i] = Next1(i, h[i - 1])
    BY <1>4, <2>1, <2>2, <2>3
  <2> QED
    BY <2>4
<1> DEFINE f == [i \in 0 .. Len(s) |-> h[i]]
<1>13. Rule(f)
  <2>1. \A i \in 0 .. Len(s) : i # 0 => i \in 1 .. Len(s) /\ i - 1 \in 0 .. Len(s)
    BY <1>1
  <2>2. \A i \in 0 .. Len(s) : f[i] = h[i]
    OBVIOUS
  <2>3. ASSUME NEW i \in 0 .. Len(s)
        PROVE  h[i] = IF i = 0 THEN 0 ELSE IF s[i] \in Signs THEN f[i - 1]
                      ELSE 10 * f[i - 1] + DigitValue(s[i])
    <3> HIDE DEF f
    <3> QED
      BY <1>11, <1>12, <2>1, <2>2 DEF Signs
  <2> QED
    BY <2>3
<1>14. ReadOf(s) = CHOOSE g : Rule(g)
  BY DEF ReadOf
<1>15. Rule(ReadOf(s))
  <2> HIDE DEF Rule, f
  <2> QED
    BY <1>13, <1>14
<1> DEFINE r == ReadOf(s)
<1>16. /\ r = [i \in 0 .. Len(s) |-> r[i]]
       /\ r[0] = 0
       /\ \A i \in 1 .. Len(s) :
            r[i] = IF s[i] \in Signs THEN r[i - 1] ELSE 10 * r[i - 1] + DigitValue(s[i])
  <2> HIDE DEF r
  <2>1. Rule(r)
    BY <1>15 DEF r
  <2>2. 0 \in 0 .. Len(s) /\ \A i \in 1 .. Len(s) : i \in 0 .. Len(s) /\ i # 0
    BY <1>1
  <2>3. \A i \in 0 .. Len(s) :
          r[i] = IF i = 0 THEN 0 ELSE IF s[i] \in Signs THEN r[i - 1]
                 ELSE 10 * r[i - 1] + DigitValue(s[i])
    BY <2>1
  <2>4. r = [i \in 0 .. Len(s) |-> r[i]]
    BY <2>1
  <2> QED
    BY <2>2, <2>3, <2>4 DEF Signs
<1> HIDE DEF r
<1>17. \A i \in 0 .. Len(s) : r[i] = h[i]
  <2> DEFINE Bad == {i \in 0 .. Len(s) : r[i] # h[i]}
  <2> SUFFICES ASSUME Bad # {} PROVE FALSE
    OBVIOUS
  <2>1. Bad \in SUBSET Nat
    BY <1>1
  <2>2. PICK i \in Bad : \A j \in Bad : i <= j
    BY <2>1, LeastNumber
  <2>3. i \in 0 .. Len(s) /\ r[i] # h[i] /\ i # 0
    BY <1>11, <1>16, <2>2
  <2>4. i \in 1 .. Len(s) /\ i - 1 \in 0 .. Len(s) /\ i - 1 \in Nat /\ i - 1 < i
    BY <1>1, <2>3
  <2>5. i - 1 \notin Bad
    BY <2>2, <2>4
  <2>6. r[i - 1] = h[i - 1]
    BY <2>4, <2>5
  <2> QED
    BY <1>12, <1>16, <2>3, <2>4, <2>6
<1>18. \A i \in 0 .. Len(s) : r[i] \in Int
  BY <1>1, <1>10, <1>17
<1> QED
  BY <1>16, <1>18 DEF r

(* strtol() returns what was read at the end of the text, with its sign,   *)
(* or the nearest long.                                                    *)
LEMMA StrtolReads ==
  ASSUME NEW s \in Seq(Character)
  PROVE  Strtol(s) = Clamp(IF "-" \in ToSet(s) THEN -ReadOf(s)[Len(s)] ELSE ReadOf(s)[Len(s)])
BY DEF Strtol, ReadOf

(* The nearest long is an integer, and a long is its own.                  *)
LEMMA ClampIs ==
  ASSUME NEW n \in Int
  PROVE  Clamp(n) \in Int /\ (n \in Nat /\ n <= LongMax => Clamp(n) = n)
BY LongAssumption DEF Clamp

(* A port is a number of PortBits bits.                                    *)
LEMMA PortRange ==
  ASSUME NEW s \in Seq(Character), IsNumber(s)
  PROVE  Strtol(s) \in Int /\ ToPort(s) \in Nat /\ ToPort(s) < 2^PortBits
<1>1. Len(s) \in 0 .. Len(s) /\ ReadOf(s) \in [0 .. Len(s) -> Int]
  BY NumberChars, ReadOfDef
<1> DEFINE v == ReadOf(s)[Len(s)]
           x == IF "-" \in ToSet(s) THEN -v ELSE v
<1>2. v \in Int
  BY <1>1
<1> HIDE DEF v
<1>3. x \in Int
  BY <1>2
<1>4. Strtol(s) = Clamp(x)
  BY StrtolReads DEF v
<1> HIDE DEF x
<1>5. Strtol(s) \in Int
  BY <1>3, <1>4, ClampIs
<1> DEFINE m == 2^PortBits
<1>6. m \in Nat \ {0}
  BY PortAssumption
<1> HIDE DEF m
<1>7. Strtol(s) % m \in Nat /\ Strtol(s) % m < m
  BY <1>5, <1>6
<1> QED
  BY <1>5, <1>7 DEF ToPort, m

(* What is printed for a port is a number without sign that reads as it.   *)
LEMMA DecimalReads ==
  \A n \in Nat : /\ Len(ToDecimal[n]) \in Nat \ {0}
                 /\ \A i \in 1 .. Len(ToDecimal[n]) : ToDecimal[n][i] \in ToSet(DecDigits)
                 /\ ReadOf(ToDecimal[n])[Len(ToDecimal[n])] = n
<1> DEFINE Good(n) == /\ Len(ToDecimal[n]) \in Nat \ {0}
                      /\ \A i \in 1 .. Len(ToDecimal[n]) : ToDecimal[n][i] \in ToSet(DecDigits)
                      /\ ReadOf(ToDecimal[n])[Len(ToDecimal[n])] = n
           Bad == {n \in Nat : ~Good(n)}
<1> SUFFICES ASSUME Bad # {} PROVE FALSE
  OBVIOUS
<1> HIDE DEF Good
<1>1. Bad \in SUBSET Nat
  OBVIOUS
<1>2. PICK n \in Bad : \A i \in Bad : n <= i
  BY <1>1, LeastNumber
<1>3. n \in Nat /\ ~Good(n)
  BY <1>2
<1> DEFINE s == ToDecimal[n]
<1>4. s \in Seq(Character)
  BY <1>3, ToDecimalDef
<1>5. CASE n < 10
  <2>1. s = <<DecDigits[n + 1]>> /\ n \in 0 .. 9
    <3>1. s = IF n < 10 THEN <<DecDigits[n + 1]>>
              ELSE Append(ToDecimal[n \div 10], DecDigits[(n % 10) + 1])
      BY <1>3, ToDecimalDef
    <3>2. n \in 0 .. 9
      BY <1>3, <1>5
    <3> QED
      BY <1>5, <3>1, <3>2
  <2>2. Len(s) = 1 /\ s[1] = DecDigits[n + 1] /\ s[1] \in ToSet(DecDigits) /\ DigitValue(s[1]) = n
    BY <2>1, Digits
  <2> HIDE DEF s
  <2>3. \A i \in 1 .. Len(s) : s[i] \in ToSet(DecDigits)
    BY <2>2
  <2>4. s[1] \notin Signs
    BY <2>2, Digits DEF Signs
  <2>5. ReadOf(s)[0] = 0 /\ ReadOf(s)[1] = 10 * ReadOf(s)[1 - 1] + DigitValue(s[1])
    <3>1. \A i \in 1 .. Len(s) : s[i] \in ToSet(DecDigits) \cup Signs
      BY <2>3
    <3>2. /\ ReadOf(s)[0] = 0
          /\ \A i \in 1 .. Len(s) : ReadOf(s)[i] = IF s[i] \in Signs THEN ReadOf(s)[i - 1]
                                     ELSE 10 * ReadOf(s)[i - 1] + DigitValue(s[i])
      BY <1>4, <3>1, ReadOfDef
    <3>3. 1 \in 1 .. Len(s)
      BY <2>2
    <3> QED
      BY <2>4, <3>2, <3>3
  <2>6. ReadOf(s)[1] = n
    BY <2>2, <2>5, <2>1
  <2> QED
    BY <1>3, <2>2, <2>3, <2>6 DEF Good, s
<1>6. CASE ~(n < 10)
  <2> DEFINE m == n \div 10
             c == DecDigits[(n % 10) + 1]
             t == ToDecimal[m]
  <2>1. m \in Nat /\ m < n /\ n % 10 \in 0 .. 9 /\ n = 10 * m + (n % 10)
    BY <1>3, <1>6
  <2>2. m \notin Bad
    BY <1>2, <1>3, <2>1
  <2>3. Good(m)
    BY <2>1, <2>2
  <2>4. s = Append(t, c)
    BY <1>3, <1>6, ToDecimalDef
  <2>5. c \in ToSet(DecDigits) /\ DigitValue(c) = n % 10 /\ c \in Character /\ c \notin Signs
    BY <2>1, Digits DEF Signs
  <2>6. t \in Seq(Character)
    BY <2>1, ToDecimalDef
  <2>7. /\ Len(t) \in Nat \ {0} /\ \A i \in 1 .. Len(t) : t[i] \in ToSet(DecDigits)
        /\ ReadOf(t)[Len(t)] = m
    BY <2>3 DEF Good
  <2> HIDE DEF s, m, c, t
  <2>8. /\ Len(s) = Len(t) + 1 /\ s[Len(s)] = c
        /\ \A i \in 1 .. Len(t) : s[i] = t[i]
    BY <2>4, <2>5, <2>6, AppendProperties
  <2>9. \A i \in 1 .. Len(s) : s[i] \in ToSet(DecDigits)
    <3>1. \A i \in 1 .. Len(s) : i \in 1 .. Len(t) \/ i = Len(s)
      BY <2>7, <2>8
    <3> QED
      BY <2>5, <2>7, <2>8, <3>1
  <2>10. /\ ReadOf(s)[0] = 0
         /\ \A i \in 1 .. Len(s) : ReadOf(s)[i] = IF s[i] \in Signs THEN ReadOf(s)[i - 1]
                                    ELSE 10 * ReadOf(s)[i - 1] + DigitValue(s[i])
    BY <1>4, <2>9, ReadOfDef
  <2>11. /\ ReadOf(t)[0] = 0
         /\ \A i \in 1 .. Len(t) : ReadOf(t)[i] = IF t[i] \in Signs THEN ReadOf(t)[i - 1]
                                    ELSE 10 * ReadOf(t)[i - 1] + DigitValue(t[i])
    BY <2>6, <2>7, ReadOfDef
  <2>12. \A i \in 0 .. Len(t) : ReadOf(s)[i] = ReadOf(t)[i]
    <3> DEFINE Diff == {i \in 0 .. Len(t) : ReadOf(s)[i] # ReadOf(t)[i]}
    <3> SUFFICES ASSUME Diff # {} PROVE FALSE
      OBVIOUS
    <3>1. Diff \in SUBSET Nat
      BY <2>7
    <3>2. PICK i \in Diff : \A j \in Diff : i <= j
      BY <3>1, LeastNumber
    <3>3. i \in 0 .. Len(t) /\ ReadOf(s)[i] # ReadOf(t)[i] /\ i # 0
      BY <2>10, <2>11, <3>2
    <3>4. i \in 1 .. Len(t) /\ i \in 1 .. Len(s) /\ i - 1 \in 0 .. Len(t) /\ i - 1 < i /\ i - 1 \in Nat
      BY <2>7, <2>8, <3>3
    <3>5. i - 1 \notin Diff
      BY <3>2, <3>4
    <3>6. ReadOf(s)[i - 1] = ReadOf(t)[i - 1]
      BY <3>4, <3>5
    <3>7. s[i] = t[i]
      BY <2>8, <3>4
    <3> QED
      BY <2>10, <2>11, <3>3, <3>4, <3>6, <3>7
  <2>13. Len(s) \in 1 .. Len(s) /\ Len(s) - 1 = Len(t) /\ Len(t) \in 0 .. Len(t)
    BY <2>7, <2>8
  <2>14. ReadOf(s)[Len(s)] = 10 * m + (n % 10)
    <3>1. ReadOf(s)[Len(s)] = 10 * ReadOf(s)[Len(s) - 1] + DigitValue(s[Len(s)])
      BY <2>5, <2>8, <2>10, <2>13
    <3>2. ReadOf(s)[Len(s) - 1] = m
      BY <2>7, <2>12, <2>13
    <3> QED
      BY <2>5, <2>8, <3>1, <3>2
  <2> QED
    BY <1>3, <2>1, <2>7, <2>8, <2>9, <2>14 DEF Good, s
<1> QED
  BY <1>5, <1>6

(* A printed port is a number for _parseAuthority() and reads as the port. *)
LEMMA PrintedPort ==
  ASSUME NEW n \in Nat
  PROVE  /\ ToDecimal[n] \in Seq(Character)
         /\ \A i \in 1 .. Len(ToDecimal[n]) : ToDecimal[n][i] \in ToSet(DecDigits)
         /\ Len(ToDecimal[n]) \in Nat \ {0}
         /\ IsNumber(ToDecimal[n])
         /\ n <= LongMax => Strtol(ToDecimal[n]) = n
<1> DEFINE s == ToDecimal[n]
<1>1. s \in Seq(Character)
  BY ToDecimalDef
<1>2. /\ Len(s) \in Nat \ {0} /\ (\A i \in 1 .. Len(s) : s[i] \in ToSet(DecDigits))
      /\ ReadOf(s)[Len(s)] = n
  BY DecimalReads
<1> HIDE DEF s
<1>3. DOMAIN s = 1 .. Len(s) /\ 1 \in DOMAIN s
  BY <1>1, <1>2, LenProperties
<1>4. IsNumber(s)
  <2>1. \A i \in 1 .. 1 - 2 : s[i] = "space"
    OBVIOUS
  <2> QED
    BY <1>2, <1>3, <2>1 DEF IsNumber
<1>5. "-" \notin ToSet(s)
  <2>1. "-" \notin ToSet(DecDigits)
    BY Digits
  <2>2. ToSet(s) \subseteq ToSet(DecDigits)
    BY <1>2, <1>3 DEF ToSet
  <2> QED
    BY <2>1, <2>2
<1>6. Strtol(s) = Clamp(n)
  BY <1>1, <1>2, <1>5, StrtolReads
<1>7. n <= LongMax => Strtol(s) = n
  BY <1>6, ClampIs
<1> QED
  BY <1>1, <1>2, <1>4, <1>7 DEF s
-----------------------------------------------------------------------------
(* The parts of a text by their positions.                                 *)

NoAuthority == {<<>>, <<"f", "i", "l", "e">>}

SchemeOf(u) == ToLower(SubSeq(u, 1, SchemeEnd(u) - 1))

PathPos(u) == IF SchemeOf(u) \in NoAuthority THEN RestPos(u)
              ELSE Stop(u, {"/", "?", "#"}, RestPos(u))

MarkPos(u) == Stop(u, {"?", "#"}, PathPos(u))

HashPos(u) == Stop(u, {"#"}, MarkPos(u))

AuthOf(u) == SubSeq(u, RestPos(u), PathPos(u) - 1)

PathOf(u) == SubSeq(u, PathPos(u), MarkPos(u) - 1)

QueryOf(u) == SubSeq(u, MarkPos(u) + 1, HashPos(u) - 1)

FragmentOf(u) == SubSeq(u, HashPos(u) + 1, Len(u))

UserIn(a) == IF a = <<>> THEN <<>> ELSE SubSeq(a, 1, HostPos(a) - 2)

HostIn(a) == IF a = <<>> THEN <<>> ELSE HostOf(a)

PortIn(a) == IF a = <<>> \/ ColonPos(a) = 0 THEN 0
             ELSE ToPort(From(a, ColonPos(a) + 1))

ErrorIn(a) == IF a = <<>> THEN "none" ELSE AuthorityError(a)

Data(scheme, user, host, port, path, query, fragment) ==
  [scheme |-> scheme, userinfo |-> user, host |-> host, port |-> port,
   path |-> path, query |-> query, fragment |-> fragment,
   queryMap |-> ParseQueryMap(query)]

(* What the constructor makes of a text, and when it returns.              *)
ReadAs(u) == Data(SchemeOf(u), UserIn(AuthOf(u)), HostIn(AuthOf(u)), PortIn(AuthOf(u)),
                 PathOf(u), QueryOf(u), FragmentOf(u))

Parsable(u) == ~BadScheme(SchemeOf(u)) /\ ErrorIn(AuthOf(u)) = "none"

(* The parts follow each other.                                            *)
LEMMA Positions ==
  ASSUME NEW u \in Seq(Character)
  PROVE  /\ Len(u) \in Nat
         /\ RestPos(u) \in 1 .. Len(u) + 1
         /\ PathPos(u) \in RestPos(u) .. Len(u) + 1
         /\ MarkPos(u) \in PathPos(u) .. Len(u) + 1
         /\ HashPos(u) \in MarkPos(u) .. Len(u) + 1
         /\ PathPos(u) \in 1 .. Len(u) + 1
         /\ MarkPos(u) \in 1 .. Len(u) + 1
         /\ HashPos(u) \in 1 .. Len(u) + 1
<1>1. Len(u) \in Nat
  BY LenProperties
<1>2. RestPos(u) \in 1 .. Len(u) + 1
  BY RestPosFacts
<1>3. PathPos(u) \in RestPos(u) .. Len(u) + 1
  <2>1. Stop(u, {"/", "?", "#"}, RestPos(u)) \in RestPos(u) .. Len(u) + 1
    BY <1>2, StopFacts
  <2> QED
    BY <1>1, <1>2, <2>1 DEF PathPos
<1>4. PathPos(u) \in 1 .. Len(u) + 1
  BY <1>1, <1>2, <1>3
<1>5. MarkPos(u) \in PathPos(u) .. Len(u) + 1
  BY <1>4, StopFacts DEF MarkPos
<1>6. MarkPos(u) \in 1 .. Len(u) + 1
  BY <1>1, <1>4, <1>5
<1>7. HashPos(u) \in MarkPos(u) .. Len(u) + 1
  BY <1>6, StopFacts DEF HashPos
<1> QED
  BY <1>1, <1>2, <1>3, <1>4, <1>5, <1>6, <1>7

(* Behind the last position nothing is left.                               *)
LEMMA NothingLeft ==
  ASSUME NEW u \in Seq(Character)
  PROVE  /\ RestPos(u) = Len(u) + 1 => PathPos(u) = Len(u) + 1
         /\ PathPos(u) = Len(u) + 1 => PathOf(u) = <<>> /\ MarkPos(u) = Len(u) + 1
         /\ MarkPos(u) = Len(u) + 1 => QueryOf(u) = <<>> /\ HashPos(u) = Len(u) + 1
         /\ HashPos(u) = Len(u) + 1 => FragmentOf(u) = <<>>
         /\ PathPos(u) = RestPos(u) => AuthOf(u) = <<>>
<1> DEFINE n == Len(u)
           a == RestPos(u)
           b == PathPos(u)
           c == MarkPos(u)
           d == HashPos(u)
<1>1. /\ n \in Nat /\ a \in 1 .. n + 1 /\ b \in a .. n + 1 /\ c \in b .. n + 1 /\ d \in c .. n + 1
  BY Positions
<1>2. /\ AuthOf(u) = SubSeq(u, a, b - 1) /\ PathOf(u) = SubSeq(u, b, c - 1)
      /\ QueryOf(u) = SubSeq(u, c + 1, d - 1) /\ FragmentOf(u) = SubSeq(u, d + 1, n)
  BY DEF AuthOf, PathOf, QueryOf, FragmentOf
<1> HIDE DEF n, a, b, c, d
<1>3. /\ a = n + 1 => b = n + 1
      /\ b = n + 1 => c = n + 1
      /\ c = n + 1 => d = n + 1
  BY <1>1
<1>4. /\ b = n + 1 => b \in Int /\ c - 1 \in Int /\ c - 1 < b
      /\ c = n + 1 => c + 1 \in Int /\ d - 1 \in Int /\ d - 1 < c + 1
      /\ d = n + 1 => d + 1 \in Int /\ n \in Int /\ n < d + 1
      /\ b = a => a \in Int /\ b - 1 \in Int /\ b - 1 < a
  BY <1>1, <1>3
<1>5. \A i \in Int : \A j \in Int : j < i => SubSeq(u, i, j) = <<>>
  BY SubSeqEmpty
<1> QED
  BY <1>2, <1>3, <1>4, <1>5 DEF n, a, b, c, d

(* An empty query has no pairs.                                            *)
LEMMA EmptyQueryMap == ParseQueryMap(<<>>) = <<>>
<1> DEFINE Next1(f, i) ==
             LET amp  == FindFirstOf(<<>>, {"&"}, i)
                 next == IF amp = 0 THEN Len(<<>>) + 1 ELSE amp
             IN  IF amp = i THEN f[i + 1]
                 ELSE Over(f[next + 1], PairMap(SubSeq(<<>>, i, next - 1)))
           Rule(f) == f = [i \in 1 .. Len(<<>>) + 2 |->
                             IF i > Len(<<>>) THEN <<>> ELSE Next1(f, i)]
           m == CHOOSE f : Rule(f)
           e == [i \in 1 .. Len(<<>>) + 2 |-> <<>>]
<1>1. ParseQueryMap(<<>>) = m[1]
  BY DEF ParseQueryMap
<1>2. Len(<<>>) = 0
  OBVIOUS
<1> HIDE DEF Next1
<1>3. Rule(e)
  BY <1>2
<1>4. Rule(m)
  <2> HIDE DEF Rule
  <2> QED
    BY <1>3
<1> HIDE DEF m
<1>5. m[1] = <<>>
  BY <1>2, <1>4
<1> QED
  BY <1>1, <1>5

(* The data of the default constructor are those of an empty text.         *)
LEMMA NoDataIs == NoData = Data(<<>>, <<>>, <<>>, 0, <<>>, <<>>, <<>>)
BY EmptyQueryMap DEF NoData, Data
-----------------------------------------------------------------------------
(* The states of the loop: what is left of the text behind each part.      *)

AtRest(u) == [input |-> From(u, RestPos(u)),
              part  |-> IF SchemeOf(u) \in NoAuthority THEN "PATH" ELSE "AUTHORITY",
              data  |-> Data(SchemeOf(u), <<>>, <<>>, 0, <<>>, <<>>, <<>>),
              error |-> IF BadScheme(SchemeOf(u)) THEN "invalid_argument" ELSE "none"]

AtPath(u) == [input |-> From(u, PathPos(u)),
              part  |-> "PATH",
              data  |-> IF ErrorIn(AuthOf(u)) = "none"
                        THEN Data(SchemeOf(u), UserIn(AuthOf(u)), HostIn(AuthOf(u)),
                                  PortIn(AuthOf(u)), <<>>, <<>>, <<>>)
                        ELSE Data(SchemeOf(u), <<>>, <<>>, 0, <<>>, <<>>, <<>>),
              error |-> ErrorIn(AuthOf(u))]

AtMark(u) == [input |-> From(u, MarkPos(u)),
              part  |-> "QUERY",
              data  |-> Data(SchemeOf(u), UserIn(AuthOf(u)), HostIn(AuthOf(u)),
                             PortIn(AuthOf(u)), PathOf(u), <<>>, <<>>),
              error |-> "none"]

AtHash(u) == [input |-> From(u, HashPos(u)),
              part  |-> "FRAGMENT",
              data  |-> Data(SchemeOf(u), UserIn(AuthOf(u)), HostIn(AuthOf(u)),
                             PortIn(AuthOf(u)), PathOf(u), QueryOf(u), <<>>),
              error |-> "none"]

AtEnd(u) == [input |-> <<>>, part |-> "FRAGMENT", data |-> ReadAs(u), error |-> "none"]

(* Records by their fields.                                                *)
StateFields == {"input", "part", "data", "error"}

DataFields == {"scheme", "userinfo", "host", "port", "path", "query", "fragment", "queryMap"}

(* A state of the loop is the record of its four fields.                   *)
LEMMA StateIs ==
  ASSUME NEW r, r = [f \in StateFields |-> r[f]]
  PROVE  r = [input |-> r.input, part |-> r.part, data |-> r.data, error |-> r.error]
BY DEF StateFields

(* The data of a URI are the record of their fields.                       *)
LEMMA DataIs ==
  ASSUME NEW r, r = [f \in DataFields |-> r[f]], r.queryMap = ParseQueryMap(r.query)
  PROVE  r = Data(r.scheme, r.userinfo, r.host, r.port, r.path, r.query, r.fragment)
BY DEF DataFields, Data

(* The first turn of the loop takes the scheme.                            *)
LEMMA TurnScheme ==
  ASSUME NEW u \in Seq(Character)
  PROVE  Turn(Start(u)) = AtRest(u)
<1> DEFINE cut == ParseURIPart(u, "SCHEME")
           sch == ToLower(cut.output)
<1>1. cut.output = SubSeq(u, 1, SchemeEnd(u) - 1) /\ cut.input = From(u, RestPos(u))
  BY CutScheme
<1> HIDE DEF cut
<1>2. sch = SchemeOf(u)
  BY <1>1 DEF SchemeOf
<1>3. Turn(Start(u)) = ParseScheme(Start(u))
  <2>1. Start(u).part = "SCHEME"
    BY DEF Start
  <2> QED
    BY <2>1 DEF Turn
<1>4. ParseScheme(Start(u)) =
        [input |-> cut.input,
         part  |-> IF sch \in NoAuthority THEN "PATH" ELSE "AUTHORITY",
         data  |-> [NoData EXCEPT !.scheme = sch],
         error |-> IF BadScheme(sch) THEN "invalid_argument" ELSE "none"]
  <2> DEFINE r == ParseScheme(Start(u))
  <2>1. r = [f \in StateFields |-> r[f]]
    BY DEF ParseScheme, Start, StateFields
  <2>2. r.input = cut.input /\ r.data = [NoData EXCEPT !.scheme = sch]
    BY DEF ParseScheme, Start, cut
  <2>3. r.part = IF sch \in NoAuthority THEN "PATH" ELSE "AUTHORITY"
    BY DEF ParseScheme, Start, NoAuthority, cut
  <2>4. r.error = IF BadScheme(sch) THEN "invalid_argument" ELSE "none"
    BY DEF ParseScheme, Start, cut
  <2> HIDE DEF r, sch
  <2>5. r = [input |-> r.input, part |-> r.part, data |-> r.data, error |-> r.error]
    BY <2>1, StateIs
  <2> QED
    BY <2>2, <2>3, <2>4, <2>5 DEF r
<1> HIDE DEF sch
<1>5. [NoData EXCEPT !.scheme = sch] = Data(sch, <<>>, <<>>, 0, <<>>, <<>>, <<>>)
  BY NoDataIs DEF Data
<1> QED
  BY <1>1, <1>2, <1>3, <1>4, <1>5 DEF AtRest

(* The second takes the authority, if the scheme is followed by one.       *)
LEMMA TurnAuthority ==
  ASSUME NEW u \in Seq(Character), SchemeOf(u) \notin NoAuthority,
         ~BadScheme(SchemeOf(u)), From(u, RestPos(u)) # <<>>
  PROVE  Turn(AtRest(u)) = AtPath(u)
<1> DEFINE k == RestPos(u)
           cut == ParseURIPart(From(u, k), "AUTHORITY")
           before == Data(SchemeOf(u), <<>>, <<>>, 0, <<>>, <<>>, <<>>)
           auth == AuthOf(u)
<1>1. k \in 1 .. Len(u) /\ k \in Nat
  <2>1. k \in 1 .. Len(u) + 1 /\ Len(u) \in Nat
    BY Positions
  <2>2. k # Len(u) + 1
    BY <2>1, Rest
  <2> QED
    BY <2>1, <2>2
<1>2. PathPos(u) = Stop(u, Separators["AUTHORITY"], k) /\ Skip("AUTHORITY") = 0
  BY DEF PathPos, Separators, Skip
<1>3. cut.output = SubSeq(u, k + 0, PathPos(u) - 1) /\ cut.input = From(u, PathPos(u))
  <2>1. cut = [output |-> SubSeq(u, k + Skip("AUTHORITY"), PathPos(u) - 1),
               input |-> From(u, PathPos(u))]
    BY <1>1, <1>2, CutPart
  <2> QED
    BY <1>2, <2>1
<1>4. k + 0 = k
  BY <1>1
<1>5. cut.output = auth
  BY <1>3, <1>4 DEF AuthOf
<1>6. AtRest(u) = [input |-> From(u, k), part |-> "AUTHORITY", data |-> before, error |-> "none"]
  BY DEF AtRest
<1> HIDE DEF k, cut, before, auth
<1>7. Turn(AtRest(u)) = ParseAuthorityPart(AtRest(u))
  <2>1. AtRest(u).part = "AUTHORITY"
    BY <1>6
  <2> QED
    BY <2>1 DEF Turn
<1>8. ParseAuthorityPart(AtRest(u)) =
        [input |-> cut.input, part |-> "PATH",
         data |-> IF auth = <<>> \/ ErrorIn(auth) # "none" THEN before
                  ELSE ParseAuthority(before, auth),
         error |-> ErrorIn(auth)]
  <2> DEFINE q == AtRest(u)
             r == ParseAuthorityPart(q)
  <2>1. q = [input |-> From(u, k), part |-> "AUTHORITY", data |-> before, error |-> "none"]
    BY <1>6
  <2> HIDE DEF q
  <2>2. r = [f \in StateFields |-> r[f]]
    BY <2>1 DEF ParseAuthorityPart, StateFields
  <2>3. r.input = cut.input /\ r.part = "PATH"
    BY <2>1 DEF ParseAuthorityPart, cut
  <2>4. r.error = ErrorIn(auth)
    BY <1>5, <2>1 DEF ParseAuthorityPart, cut, ErrorIn
  <2>5. r.data = IF auth = <<>> \/ ErrorIn(auth) # "none" THEN before
                 ELSE ParseAuthority(before, auth)
    BY <1>5, <2>1 DEF ParseAuthorityPart, cut, ErrorIn
  <2> HIDE DEF r
  <2>6. r = [input |-> r.input, part |-> r.part, data |-> r.data, error |-> r.error]
    BY <2>2, StateIs
  <2> QED
    BY <2>3, <2>4, <2>5, <2>6 DEF r, q
<1>9. CASE auth = <<>>
  <2>1. ErrorIn(auth) = "none" /\ UserIn(auth) = <<>> /\ HostIn(auth) = <<>> /\ PortIn(auth) = 0
    BY <1>9 DEF ErrorIn, UserIn, HostIn, PortIn
  <2> QED
    BY <1>3, <1>7, <1>8, <1>9, <2>1 DEF AtPath, auth, before
<1>10. CASE auth # <<>> /\ ErrorIn(auth) # "none"
  BY <1>3, <1>7, <1>8, <1>10 DEF AtPath, auth, before
<1>11. CASE auth # <<>> /\ ErrorIn(auth) = "none"
  <2>1. ParseAuthority(before, auth) =
          Data(SchemeOf(u), UserIn(auth), HostIn(auth), PortIn(auth), <<>>, <<>>, <<>>)
    <3> DEFINE r == ParseAuthority(before, auth)
    <3>1. r = [f \in DataFields |-> r[f]]
      BY DEF ParseAuthority, before, Data, DataFields
    <3>2. r.scheme = SchemeOf(u) /\ r.path = <<>> /\ r.query = <<>> /\ r.fragment = <<>>
          /\ r.queryMap = ParseQueryMap(r.query)
      BY DEF ParseAuthority, before, Data
    <3>3. r.userinfo = UserIn(auth) /\ r.host = HostIn(auth)
      BY <1>11 DEF ParseAuthority, before, Data, UserIn, HostIn
    <3>4. r.port = PortIn(auth)
      BY <1>11 DEF ParseAuthority, before, Data, PortIn
    <3> HIDE DEF r
    <3>5. r = Data(r.scheme, r.userinfo, r.host, r.port, r.path, r.query, r.fragment)
      BY <3>1, <3>2, DataIs
    <3> QED
      BY <3>2, <3>3, <3>4, <3>5 DEF r
  <2> QED
    BY <1>3, <1>7, <1>8, <1>11, <2>1 DEF AtPath, auth
<1> QED
  BY <1>9, <1>10, <1>11

(* The parts that follow.                                                  *)
LEMMA TurnPath ==
  ASSUME NEW u \in Seq(Character), Parsable(u), From(u, PathPos(u)) # <<>>
  PROVE  Turn(AtPath(u)) = AtMark(u)
<1> DEFINE k == PathPos(u)
           cut == ParseURIPart(From(u, k), "PATH")
<1>1. k \in 1 .. Len(u) /\ k \in Nat
  <2>1. k \in 1 .. Len(u) + 1 /\ Len(u) \in Nat
    BY Positions
  <2>2. k # Len(u) + 1
    BY <2>1, Rest
  <2> QED
    BY <2>1, <2>2
<1>2. MarkPos(u) = Stop(u, Separators["PATH"], k) /\ Skip("PATH") = 0
  BY DEF MarkPos, Separators, Skip
<1>3. cut.output = PathOf(u) /\ cut.input = From(u, MarkPos(u))
  <2>1. cut = [output |-> SubSeq(u, k + Skip("PATH"), MarkPos(u) - 1),
               input |-> From(u, MarkPos(u))]
    BY <1>1, <1>2, CutPart
  <2>2. k + Skip("PATH") = k
    BY <1>1, <1>2
  <2> QED
    BY <2>1, <2>2 DEF PathOf
<1>4. AtPath(u) = [input |-> From(u, k), part |-> "PATH",
                   data |-> Data(SchemeOf(u), UserIn(AuthOf(u)), HostIn(AuthOf(u)),
                                 PortIn(AuthOf(u)), <<>>, <<>>, <<>>),
                   error |-> "none"]
  BY DEF AtPath, Parsable
<1> HIDE DEF k, cut
<1>5. Turn(AtPath(u)) = ParsePath(AtPath(u))
  <2>1. AtPath(u).part = "PATH"
    BY <1>4
  <2> QED
    BY <2>1 DEF Turn
<1> QED
  <2> DEFINE d == Data(SchemeOf(u), UserIn(AuthOf(u)), HostIn(AuthOf(u)),
                       PortIn(AuthOf(u)), <<>>, <<>>, <<>>)
             q == AtPath(u)
             r == ParsePath(q)
  <2>1. q = [input |-> From(u, k), part |-> "PATH", data |-> d, error |-> "none"]
    BY <1>4
  <2>2. [d EXCEPT !.path = PathOf(u)] =
          Data(SchemeOf(u), UserIn(AuthOf(u)), HostIn(AuthOf(u)),
               PortIn(AuthOf(u)), PathOf(u), <<>>, <<>>)
    BY DEF Data
  <2> HIDE DEF q, d
  <2>3. r = [f \in StateFields |-> r[f]]
    BY <2>1 DEF ParsePath, StateFields
  <2>4. r.input = From(u, MarkPos(u)) /\ r.part = "QUERY" /\ r.error = "none"
    BY <1>3, <2>1 DEF ParsePath, cut
  <2>5. r.data = [d EXCEPT !.path = PathOf(u)]
    BY <1>3, <2>1 DEF ParsePath, cut
  <2> HIDE DEF r
  <2>6. r = [input |-> r.input, part |-> r.part, data |-> r.data, error |-> r.error]
    BY <2>3, StateIs
  <2> QED
    BY <1>5, <2>2, <2>4, <2>5, <2>6 DEF r, q, AtMark

(* The turn for the query fills the map, too.                              *)
LEMMA TurnQuery ==
  ASSUME NEW u \in Seq(Character), From(u, MarkPos(u)) # <<>>
  PROVE  Turn(AtMark(u)) = AtHash(u)
<1> DEFINE k == MarkPos(u)
           cut == ParseURIPart(From(u, k), "QUERY")
<1>1. k \in 1 .. Len(u) /\ k \in Nat
  <2>1. k \in 1 .. Len(u) + 1 /\ Len(u) \in Nat
    BY Positions
  <2>2. k # Len(u) + 1
    BY <2>1, Rest
  <2> QED
    BY <2>1, <2>2
<1>2. HashPos(u) = Stop(u, Separators["QUERY"], k) /\ Skip("QUERY") = 1
  BY DEF HashPos, Separators, Skip
<1>3. cut.output = QueryOf(u) /\ cut.input = From(u, HashPos(u))
  <2>1. cut = [output |-> SubSeq(u, k + Skip("QUERY"), HashPos(u) - 1),
               input |-> From(u, HashPos(u))]
    BY <1>1, <1>2, CutPart
  <2> QED
    BY <1>2, <2>1 DEF QueryOf
<1>4. AtMark(u).input = From(u, k)
  BY DEF AtMark
<1> HIDE DEF k, cut
<1>5. Turn(AtMark(u)) = ParseQuery(AtMark(u))
  <2>1. AtMark(u).part = "QUERY"
    BY DEF AtMark
  <2> QED
    BY <2>1 DEF Turn
<1> QED
  <2> DEFINE d == Data(SchemeOf(u), UserIn(AuthOf(u)), HostIn(AuthOf(u)),
                       PortIn(AuthOf(u)), PathOf(u), <<>>, <<>>)
             q == AtMark(u)
             r == ParseQuery(q)
             e == r.data
  <2>1. q = [input |-> From(u, k), part |-> "QUERY", data |-> d, error |-> "none"]
    BY DEF AtMark, k
  <2>2. d = [f \in DataFields |-> d[f]] /\ d.scheme = SchemeOf(u)
        /\ d.userinfo = UserIn(AuthOf(u)) /\ d.host = HostIn(AuthOf(u))
        /\ d.port = PortIn(AuthOf(u)) /\ d.path = PathOf(u) /\ d.fragment = <<>>
    BY DEF Data, DataFields
  <2> HIDE DEF q, d
  <2>3. r = [f \in StateFields |-> r[f]]
    BY <2>1 DEF ParseQuery, StateFields
  <2>4. r.input = From(u, HashPos(u)) /\ r.part = "FRAGMENT" /\ r.error = "none"
    BY <1>3, <2>1 DEF ParseQuery, cut
  <2>5. r.data = [d EXCEPT !.query = QueryOf(u), !.queryMap = ParseQueryMap(QueryOf(u))]
    BY <1>3, <2>1 DEF ParseQuery, cut
  <2> HIDE DEF r
  <2>6. e = [f \in DataFields |-> e[f]]
    BY <2>2, <2>5 DEF DataFields
  <2>7. e.scheme = SchemeOf(u) /\ e.userinfo = UserIn(AuthOf(u)) /\ e.host = HostIn(AuthOf(u))
        /\ e.port = PortIn(AuthOf(u)) /\ e.path = PathOf(u) /\ e.fragment = <<>>
        /\ e.query = QueryOf(u) /\ e.queryMap = ParseQueryMap(QueryOf(u))
    BY <2>2, <2>5 DEF DataFields
  <2> HIDE DEF e
  <2>8. e = Data(e.scheme, e.userinfo, e.host, e.port, e.path, e.query, e.fragment)
    BY <2>6, <2>7, DataIs
  <2>9. r = [input |-> r.input, part |-> r.part, data |-> r.data, error |-> r.error]
    BY <2>3, StateIs
  <2> QED
    BY <1>5, <2>4, <2>7, <2>8, <2>9 DEF r, q, e, AtHash

(* The last turn takes the fragment and leaves nothing.                    *)
LEMMA TurnFragment ==
  ASSUME NEW u \in Seq(Character), From(u, HashPos(u)) # <<>>
  PROVE  Turn(AtHash(u)) = AtEnd(u)
<1> DEFINE k == HashPos(u)
           cut == ParseURIPart(From(u, k), "FRAGMENT")
<1>1. k \in 1 .. Len(u) /\ k \in Nat /\ Len(u) \in Nat /\ k \in 1 .. Len(u) + 1
      /\ Len(u) + 1 \in 1 .. Len(u) + 1 /\ Len(u) + 1 \in k .. Len(u) + 1
  <2>1. k \in 1 .. Len(u) + 1 /\ Len(u) \in Nat
    BY Positions
  <2>2. k # Len(u) + 1
    BY <2>1, Rest
  <2> QED
    BY <2>1, <2>2
<1>2. Separators["FRAGMENT"] = {} /\ Skip("FRAGMENT") = 1
  BY DEF Separators, Skip
<1>3. Len(u) + 1 = Stop(u, Separators["FRAGMENT"], k)
  <2> DEFINE p == Stop(u, {}, k)
  <2>1. p \in k .. Len(u) + 1 /\ (p <= Len(u) => u[p] \in {})
    BY <1>1, StopFacts
  <2> HIDE DEF p
  <2>2. p = Len(u) + 1
    BY <1>1, <2>1
  <2> QED
    BY <1>2, <2>2 DEF p
<1>4. cut.output = FragmentOf(u) /\ cut.input = <<>>
  <2>1. cut = [output |-> SubSeq(u, k + Skip("FRAGMENT"), Len(u) + 1 - 1),
               input |-> From(u, Len(u) + 1)]
    BY <1>1, <1>3, CutPart
  <2>2. Len(u) + 1 - 1 = Len(u)
    BY <1>1
  <2>3. From(u, Len(u) + 1) = <<>>
    BY <1>1, Rest
  <2> QED
    BY <1>2, <2>1, <2>2, <2>3 DEF FragmentOf
<1>5. AtHash(u).input = From(u, k)
  BY DEF AtHash
<1> HIDE DEF k, cut
<1>6. Turn(AtHash(u)) = ParseFragment(AtHash(u))
  <2>1. AtHash(u).part = "FRAGMENT"
    BY DEF AtHash
  <2> QED
    BY <2>1 DEF Turn
<1> QED
  <2> DEFINE d == Data(SchemeOf(u), UserIn(AuthOf(u)), HostIn(AuthOf(u)),
                       PortIn(AuthOf(u)), PathOf(u), QueryOf(u), <<>>)
             q == AtHash(u)
             r == ParseFragment(q)
  <2>1. q = [input |-> From(u, k), part |-> "FRAGMENT", data |-> d, error |-> "none"]
    BY DEF AtHash, k
  <2>2. [d EXCEPT !.fragment = FragmentOf(u)] = ReadAs(u)
    BY DEF Data, ReadAs
  <2> HIDE DEF q, d
  <2>3. r = [f \in StateFields |-> r[f]]
    BY <2>1 DEF ParseFragment, StateFields
  <2>4. r.input = <<>> /\ r.part = "FRAGMENT" /\ r.error = "none"
    BY <1>4, <2>1 DEF ParseFragment, cut
  <2>5. r.data = [d EXCEPT !.fragment = FragmentOf(u)]
    BY <1>4, <2>1 DEF ParseFragment, cut
  <2> HIDE DEF r
  <2>6. r = [input |-> r.input, part |-> r.part, data |-> r.data, error |-> r.error]
    BY <2>3, StateIs
  <2> QED
    BY <1>6, <2>2, <2>4, <2>5, <2>6 DEF r, q, AtEnd
-----------------------------------------------------------------------------
(* The loop as a whole.                                                    *)

(* The states the loop has for a text.                                     *)
Parses(p, u) ==
  \/ p = Start(u)
  \/ p = AtRest(u)
  \/ p = AtPath(u) /\ SchemeOf(u) \notin NoAuthority /\ ~BadScheme(SchemeOf(u))
  \/ Parsable(u) /\ p \in {AtMark(u), AtHash(u), AtEnd(u)}

(* Without an authority the path comes first.                              *)
LEMMA RestIsPath ==
  ASSUME NEW u \in Seq(Character), SchemeOf(u) \in NoAuthority
  PROVE  /\ RestPos(u) = PathPos(u) /\ AuthOf(u) = <<>> /\ ErrorIn(AuthOf(u)) = "none"
         /\ ~BadScheme(SchemeOf(u)) => AtRest(u) = AtPath(u) /\ Parsable(u)
<1>1. RestPos(u) = PathPos(u)
  BY DEF PathPos
<1>2. AuthOf(u) = <<>>
  BY <1>1, NothingLeft
<1>3. /\ ErrorIn(AuthOf(u)) = "none" /\ UserIn(AuthOf(u)) = <<>>
      /\ HostIn(AuthOf(u)) = <<>> /\ PortIn(AuthOf(u)) = 0
  BY <1>2 DEF ErrorIn, UserIn, HostIn, PortIn
<1> QED
  BY <1>1, <1>2, <1>3 DEF AtRest, AtPath, Parsable

(* What is left and what is wrong in each state of the loop.               *)
LEMMA ErrorOfRest ==
  ASSUME NEW u
  PROVE  /\ AtRest(u).error = "none" <=> ~BadScheme(SchemeOf(u))
         /\ AtRest(u).input = From(u, RestPos(u))
         /\ AtPath(u).error = "none" <=> ErrorIn(AuthOf(u)) = "none"
         /\ AtPath(u).input = From(u, PathPos(u))
         /\ AtMark(u).input = From(u, MarkPos(u)) /\ AtMark(u).error = "none"
         /\ AtHash(u).input = From(u, HashPos(u)) /\ AtHash(u).error = "none"
         /\ AtEnd(u).input = <<>> /\ AtEnd(u).error = "none"
         /\ Start(u).input = u /\ Start(u).error = "none"
BY DEF AtRest, AtPath, AtMark, AtHash, AtEnd, Start

(* A turn of the loop leads from one of its states to another.             *)
LEMMA TurnParses ==
  ASSUME NEW u \in Seq(Character), NEW p, Parses(p, u), Looping(p)
  PROVE  Parses(Turn(p), u)
<1>1. p.input # <<>> /\ p.error = "none"
  BY DEF Looping
<1>2. CASE p = Start(u)
  BY <1>2, TurnScheme DEF Parses
<1>3. CASE p = AtRest(u) /\ SchemeOf(u) \notin NoAuthority
  <2>1. ~BadScheme(SchemeOf(u)) /\ From(u, RestPos(u)) # <<>>
    BY <1>1, <1>3, ErrorOfRest
  <2>2. Turn(p) = AtPath(u)
    BY <1>3, <2>1, TurnAuthority
  <2> QED
    BY <1>3, <2>1, <2>2 DEF Parses
<1>4. CASE p = AtPath(u) /\ ~BadScheme(SchemeOf(u))
  <2>1. ErrorIn(AuthOf(u)) = "none" /\ From(u, PathPos(u)) # <<>>
    BY <1>1, <1>4, ErrorOfRest
  <2>2. Parsable(u)
    BY <1>4, <2>1 DEF Parsable
  <2>3. Turn(p) = AtMark(u)
    BY <1>4, <2>1, <2>2, TurnPath
  <2> QED
    BY <2>2, <2>3 DEF Parses
<1>5. CASE p = AtRest(u) /\ SchemeOf(u) \in NoAuthority
  <2>1. ~BadScheme(SchemeOf(u))
    BY <1>1, <1>5, ErrorOfRest
  <2>2. p = AtPath(u)
    BY <1>5, <2>1, RestIsPath
  <2> QED
    BY <1>4, <2>1, <2>2
<1>6. CASE p = AtMark(u) /\ Parsable(u)
  <2>1. Turn(p) = AtHash(u)
    BY <1>1, <1>6, ErrorOfRest, TurnQuery
  <2> QED
    BY <1>6, <2>1 DEF Parses
<1>7. CASE p = AtHash(u) /\ Parsable(u)
  <2>1. Turn(p) = AtEnd(u)
    BY <1>1, <1>7, ErrorOfRest, TurnFragment
  <2> QED
    BY <1>7, <2>1 DEF Parses
<1>8. p # AtEnd(u)
  BY <1>1, ErrorOfRest
<1> QED
  BY <1>2, <1>3, <1>4, <1>5, <1>6, <1>7, <1>8 DEF Parses

(* When the loop is over the data are those of the text.                   *)
LEMMA DoneParses ==
  ASSUME NEW u \in Seq(Character), NEW p, Parses(p, u), p.input = <<>>, p.error = "none"
  PROVE  p.data = ReadAs(u) /\ Parsable(u)
<1> DEFINE n == Len(u)
<1>0. /\ RestPos(u) \in 1 .. n + 1 /\ PathPos(u) \in 1 .. n + 1
      /\ MarkPos(u) \in 1 .. n + 1 /\ HashPos(u) \in 1 .. n + 1
  BY Positions
<1>1. /\ AuthOf(u) = <<>> => /\ ErrorIn(AuthOf(u)) = "none" /\ UserIn(AuthOf(u)) = <<>>
                             /\ HostIn(AuthOf(u)) = <<>> /\ PortIn(AuthOf(u)) = 0
  BY DEF ErrorIn, UserIn, HostIn, PortIn
<1>2. CASE p = AtEnd(u) /\ Parsable(u)
  BY <1>2 DEF AtEnd
<1>3. CASE p = AtHash(u) /\ Parsable(u)
  <2>1. From(u, HashPos(u)) = <<>>
    BY <1>3, ErrorOfRest
  <2>2. HashPos(u) = n + 1
    BY <1>0, <2>1, Rest
  <2>3. FragmentOf(u) = <<>>
    BY <2>2, NothingLeft
  <2> QED
    BY <1>3, <2>3 DEF AtHash, ReadAs
<1>4. CASE p = AtMark(u) /\ Parsable(u)
  <2>1. From(u, MarkPos(u)) = <<>>
    BY <1>4, ErrorOfRest
  <2>2. MarkPos(u) = n + 1
    BY <1>0, <2>1, Rest
  <2>3. FragmentOf(u) = <<>> /\ QueryOf(u) = <<>>
    BY <2>2, NothingLeft
  <2> QED
    BY <1>4, <2>3 DEF AtMark, ReadAs
<1>5. CASE p = AtPath(u) /\ ~BadScheme(SchemeOf(u))
  <2>1. From(u, PathPos(u)) = <<>> /\ ErrorIn(AuthOf(u)) = "none"
    BY <1>5, ErrorOfRest
  <2>2. PathPos(u) = n + 1
    BY <1>0, <2>1, Rest
  <2>3. FragmentOf(u) = <<>> /\ QueryOf(u) = <<>> /\ PathOf(u) = <<>>
    BY <2>2, NothingLeft
  <2> QED
    BY <1>5, <2>1, <2>3 DEF AtPath, ReadAs, Parsable
<1>6. CASE p = AtRest(u)
  <2>1. From(u, RestPos(u)) = <<>> /\ ~BadScheme(SchemeOf(u))
    BY <1>6, ErrorOfRest
  <2>2. RestPos(u) = n + 1
    BY <1>0, <2>1, Rest
  <2>3. FragmentOf(u) = <<>> /\ QueryOf(u) = <<>> /\ PathOf(u) = <<>> /\ AuthOf(u) = <<>>
    BY <2>2, NothingLeft
  <2> QED
    BY <1>1, <1>6, <2>1, <2>3 DEF AtRest, ReadAs, Parsable
<1>7. CASE p = Start(u)
  <2>1. u = <<>>
    BY <1>7, ErrorOfRest
  <2>2. n = 0
    BY <2>1
  <2>3. RestPos(u) = n + 1
    BY <1>0, <2>2
  <2>4. FragmentOf(u) = <<>> /\ QueryOf(u) = <<>> /\ PathOf(u) = <<>> /\ AuthOf(u) = <<>>
    BY <2>3, NothingLeft
  <2>5. SchemeOf(u) = <<>>
    <3>1. SchemeEnd(u) = 0
      <4>1. SchemeEnd(u) = 0 \/ SchemeEnds(u, SchemeEnd(u))
        BY SchemeEndFacts
      <4>2. SchemeEnds(u, SchemeEnd(u)) => SchemeEnd(u) \in 2 .. Len(u) - 2
        BY DEF SchemeEnds
      <4> QED
        BY <2>2, <4>1, <4>2
    <3>2. SubSeq(u, 1, 0 - 1) = <<>>
      BY SubSeqEmpty
    <3> QED
      BY <3>1, <3>2 DEF SchemeOf, ToLower
  <2>6. ~BadScheme(SchemeOf(u))
    BY <2>5 DEF BadScheme
  <2> QED
    BY <1>1, <1>7, <2>4, <2>5, <2>6, NoDataIs DEF Start, ReadAs, Parsable
<1> QED
  BY <1>2, <1>3, <1>4, <1>5, <1>6, <1>7 DEF Parses

(* The loop has an exception only for a text with a bad scheme or          *)
(* authority.                                                              *)
LEMMA ErrorParses ==
  ASSUME NEW u \in Seq(Character), NEW p, Parses(p, u), p.error # "none"
  PROVE  ~Parsable(u)
BY ErrorOfRest DEF Parses, Parsable

(* The asserts of _parseURIPart hold in every state of the loop.           *)
LEMMA AssertsOfPart ==
  ASSUME NEW u \in Seq(Character), NEW p, Parses(p, u), Looping(p)
  PROVE  PartAsserts(p.input, p.part)
<1>0. p.input # <<>> /\ p.error = "none"
  BY DEF Looping
<1>1. CASE p.part \in {"SCHEME", "AUTHORITY", "PATH"} /\ p.input \in Seq(Character)
  <2>1. Skip(p.part) = 0 /\ p.part \notin DOMAIN RequireFirst /\ Len(p.input) \in Nat
    BY <1>1, LenProperties DEF Skip, RequireFirst
  <2> QED
    BY <2>1 DEF PartAsserts
<1>2. ASSUME NEW part \in {"QUERY", "FRAGMENT"}, NEW k \in 1 .. Len(u),
             u[k] \in {"?", "#"}, part = "FRAGMENT" => u[k] = "#",
             p.part = part, p.input = From(u, k)
      PROVE  PartAsserts(p.input, p.part)
  <2>1. k \in 1 .. Len(u) + 1 /\ Len(u) \in Nat /\ k \in Nat
    BY LenProperties
  <2> DEFINE t == From(u, k)
  <2>2. /\ t \in Seq(Character) /\ Len(t) = Len(u) + 1 - k
        /\ \A i \in 1 .. Len(u) + 1 - k : t[i] = u[k + i - 1]
    BY <2>1, Rest
  <2> HIDE DEF t
  <2>3. 1 \in 1 .. Len(u) + 1 - k /\ k + 1 - 1 = k
    BY <2>1
  <2>4. t[1] = u[k] /\ Head(t) = u[k] /\ Len(t) >= 1
    BY <2>1, <2>2, <2>3
  <2>5. CASE part = "QUERY" /\ u[k] = "#"
    <3>1. SeparatorPos(t, part) = FindFirstOf(t, {"#"}, 1)
      BY <2>5 DEF SeparatorPos, Separators
    <3>2. FindFirstOf(t, {"#"}, 1) = 1
      <4>1. Stop(t, {"#"}, 1) = 1
        BY <2>2, <2>4, <2>5, StopIs
      <4> QED
        BY <2>2, <2>4, <4>1, StopFacts
    <3>3. PartIsEmpty(t, part)
      BY <3>1, <3>2 DEF PartIsEmpty
    <3> QED
      BY <1>2, <3>3 DEF PartAsserts, t
  <2>6. CASE u[k] = RequireFirst[part]
    <3>1. Skip(part) = 1
      BY DEF Skip
    <3> QED
      BY <1>2, <2>4, <2>6, <3>1 DEF PartAsserts, t
  <2>7. (part = "QUERY" /\ u[k] = "#") \/ u[k] = RequireFirst[part]
    BY <1>2 DEF RequireFirst
  <2> QED
    BY <2>5, <2>6, <2>7
<1>3. CASE p = Start(u)
  BY <1>1, <1>3 DEF Start
<1>4. CASE p = AtRest(u)
  <2>1. From(u, RestPos(u)) \in Seq(Character)
    BY Positions, Rest
  <2>2. p.input \in Seq(Character) /\ p.part \in {"SCHEME", "AUTHORITY", "PATH"}
    BY <1>4, <2>1 DEF AtRest
  <2> QED
    BY <1>1, <2>2
<1>5. CASE p = AtPath(u)
  <2>1. From(u, PathPos(u)) \in Seq(Character)
    BY Positions, Rest
  <2>2. p.input \in Seq(Character) /\ p.part \in {"SCHEME", "AUTHORITY", "PATH"}
    BY <1>5, <2>1 DEF AtPath
  <2> QED
    BY <1>1, <2>2
<1>6. CASE p = AtMark(u)
  <2>1. p.part = "QUERY" /\ p.input = From(u, MarkPos(u))
    BY <1>6 DEF AtMark
  <2>2. MarkPos(u) \in 1 .. Len(u) + 1 /\ Len(u) \in Nat /\ PathPos(u) \in 1 .. Len(u) + 1
    BY Positions
  <2>3. MarkPos(u) # Len(u) + 1
    BY <1>0, <2>1, <2>2, Rest
  <2>4. MarkPos(u) \in 1 .. Len(u)
    BY <2>2, <2>3
  <2>5. u[MarkPos(u)] \in {"?", "#"}
    BY <2>2, <2>4, StopFacts DEF MarkPos
  <2> QED
    BY <1>2, <2>1, <2>4, <2>5
<1>7. CASE p = AtHash(u)
  <2>1. p.part = "FRAGMENT" /\ p.input = From(u, HashPos(u))
    BY <1>7 DEF AtHash
  <2>2. HashPos(u) \in 1 .. Len(u) + 1 /\ Len(u) \in Nat /\ MarkPos(u) \in 1 .. Len(u) + 1
    BY Positions
  <2>3. HashPos(u) # Len(u) + 1
    BY <1>0, <2>1, <2>2, Rest
  <2>4. HashPos(u) \in 1 .. Len(u)
    BY <2>2, <2>3
  <2>5. u[HashPos(u)] \in {"#"}
    BY <2>2, <2>4, StopFacts DEF HashPos
  <2> QED
    BY <1>2, <2>1, <2>4, <2>5
<1>8. p # AtEnd(u)
  BY <1>0, ErrorOfRest
<1> QED
  BY <1>3, <1>4, <1>5, <1>6, <1>7, <1>8 DEF Parses
-----------------------------------------------------------------------------
(* The authority.                                                          *)

\* Where the host ends: at the colon, or at the end of the authority.
HostEnd(a) == Stop(a, {":"}, HostPos(a))

(* Where _parseAuthority() cuts: the host starts behind the first @ and    *)
(* ends at the first colon behind that.                                    *)
LEMMA AuthorityPositions ==
  ASSUME NEW a \in Seq(Character)
  PROVE  /\ Len(a) \in Nat
         /\ HostPos(a) \in 1 .. Len(a) + 1
         /\ HostEnd(a) \in HostPos(a) .. Len(a) + 1
         /\ HostEnd(a) \in 1 .. Len(a) + 1
         /\ ColonPos(a) = IF HostEnd(a) <= Len(a) THEN HostEnd(a) ELSE 0
         /\ HostOf(a) = SubSeq(a, HostPos(a), HostEnd(a) - 1)
         /\ HostEnd(a) <= Len(a) => a[HostEnd(a)] = ":"
         /\ \A i \in HostPos(a) .. HostEnd(a) - 1 : a[i] # ":"
         /\ HostPos(a) > 1 => a[HostPos(a) - 1] = "@"
         /\ \A i \in 1 .. HostPos(a) - 2 : a[i] # "@"
         /\ HostPos(a) = 1 => \A i \in 1 .. Len(a) : a[i] # "@"
<1>1. Len(a) \in Nat
  BY LenProperties
<1> DEFINE f == FindFirstOf(a, {"@"}, 1)
           h == HostPos(a)
<1>2. \/ f = 0 /\ \A i \in 1 .. Len(a) : a[i] \notin {"@"}
      \/ f \in 1 .. Len(a) /\ a[f] \in {"@"} /\ \A i \in 1 .. f - 1 : a[i] \notin {"@"}
  BY FirstOf
<1>3. h = f + 1
  BY DEF HostPos
<1> HIDE DEF f, h
<1>4. /\ h \in 1 .. Len(a) + 1
      /\ h > 1 => a[h - 1] = "@"
      /\ h = 1 => \A i \in 1 .. Len(a) : a[i] # "@"
  BY <1>1, <1>2, <1>3
<1>5. \A i \in 1 .. h - 2 : a[i] # "@"
  <2>1. CASE f = 0
    BY <1>3, <2>1
  <2>2. CASE f # 0
    <3>1. h - 2 = f - 1 /\ \A i \in 1 .. f - 1 : a[i] \notin {"@"}
      BY <1>1, <1>2, <1>3, <2>2
    <3> QED
      BY <3>1
  <2> QED
    BY <2>1, <2>2
<1> DEFINE e == HostEnd(a)
<1>6. /\ e \in h .. Len(a) + 1 /\ (e <= Len(a) => a[e] \in {":"})
      /\ (\A i \in h .. e - 1 : a[i] \notin {":"})
      /\ ColonPos(a) = IF e <= Len(a) THEN e ELSE 0
  BY <1>4, StopFacts DEF HostEnd, ColonPos, h
<1>7. HostOf(a) = SubSeq(a, h, IF ColonPos(a) = 0 THEN Len(a) ELSE ColonPos(a) - 1)
  BY DEF HostOf, h
<1> HIDE DEF e
<1>8. e \in 1 .. Len(a) + 1
  BY <1>1, <1>4, <1>6
<1>9. (IF ColonPos(a) = 0 THEN Len(a) ELSE ColonPos(a) - 1) = e - 1
  BY <1>1, <1>6, <1>8
<1>10. HostOf(a) = SubSeq(a, h, e - 1)
  BY <1>7, <1>9
<1> QED
  BY <1>1, <1>4, <1>5, <1>6, <1>8, <1>10 DEF h, e

(* The parts of an authority without error.                                *)
LEMMA AuthorityParts ==
  ASSUME NEW a \in Seq(Character), ErrorIn(a) = "none"
  PROVE  /\ UserIn(a) \in Seq(Character) /\ HostIn(a) \in Seq(Character)
         /\ PortIn(a) \in Nat /\ PortIn(a) < 2^PortBits
         /\ a # <<>> => /\ HostIn(a) # <<>> /\ HostIn(a) = SubSeq(a, HostPos(a), HostEnd(a) - 1)
                        /\ UserIn(a) = SubSeq(a, 1, HostPos(a) - 2)
                        /\ HostEnd(a) <= Len(a) => /\ IsNumber(From(a, HostEnd(a) + 1))
                                                   /\ PortIn(a) = ToPort(From(a, HostEnd(a) + 1))
                        /\ HostEnd(a) = Len(a) + 1 => PortIn(a) = 0
<1>0. 2^PortBits \in Nat \ {0} /\ <<>> \in Seq(Character)
  BY PortAssumption
<1>1. CASE a = <<>>
  <2>1. UserIn(a) = <<>> /\ HostIn(a) = <<>> /\ PortIn(a) = 0
    BY <1>1 DEF UserIn, HostIn, PortIn
  <2> DEFINE m == 2^PortBits
  <2>2. m \in Nat \ {0}
    BY <1>0
  <2> HIDE DEF m
  <2>3. 0 < m /\ 0 \in Nat
    BY <2>2
  <2>4. PortIn(a) < 2^PortBits /\ PortIn(a) \in Nat
    BY <2>1, <2>3, Zenon DEF m
  <2> QED
    BY <1>0, <1>1, <2>1, <2>4, Zenon
<1>2. CASE a # <<>>
  <2> DEFINE h == HostPos(a)
             e == HostEnd(a)
  <2>1. /\ Len(a) \in Nat /\ h \in 1 .. Len(a) + 1 /\ e \in h .. Len(a) + 1
        /\ ColonPos(a) = (IF e <= Len(a) THEN e ELSE 0) /\ HostOf(a) = SubSeq(a, h, e - 1)
    BY AuthorityPositions
  <2>2. ErrorIn(a) = AuthorityError(a)
    BY <1>2 DEF ErrorIn
  <2>3. ~BadPort(a) /\ HostOf(a) # <<>>
    BY <2>2 DEF AuthorityError
  <2>4. UserIn(a) = SubSeq(a, 1, h - 2) /\ HostIn(a) = HostOf(a)
        /\ PortIn(a) = IF ColonPos(a) = 0 THEN 0 ELSE ToPort(From(a, ColonPos(a) + 1))
    BY <1>2 DEF UserIn, HostIn, PortIn
  <2>5. ColonPos(a) # 0 => IsNumber(From(a, ColonPos(a) + 1))
    BY <2>3 DEF BadPort
  <2> HIDE DEF h, e
  <2>6. SubSeq(a, 1, h - 2) \in Seq(Character) /\ SubSeq(a, h, e - 1) \in Seq(Character)
    <3>1. h \in Nat \ {0} /\ e - 1 \in Nat /\ e - 1 <= Len(a) /\ 1 \in Nat \ {0}
      BY <2>1
    <3>2. SubSeq(a, h, e - 1) \in Seq(Character)
      BY <3>1, Piece
    <3>3. CASE h = 1
      <4>1. SubSeq(a, 1, 1 - 2) = <<>>
        BY SubSeqEmpty
      <4> QED
        BY <1>0, <3>2, <3>3, <4>1
    <3>4. CASE h # 1
      <4>1. h - 2 \in Nat /\ h - 2 <= Len(a)
        BY <2>1, <3>4
      <4> QED
        BY <3>1, <3>2, <4>1, Piece
    <3> QED
      BY <3>3, <3>4
  <2>7. CASE e <= Len(a)
    <3>1. e + 1 \in 1 .. Len(a) + 1 /\ e # 0 /\ e # Len(a) + 1
      BY <2>1, <2>7
    <3>2. From(a, e + 1) \in Seq(Character)
      BY <3>1, Rest
    <3>3. IsNumber(From(a, e + 1)) /\ PortIn(a) = ToPort(From(a, e + 1))
      BY <2>1, <2>4, <2>5, <2>7, <3>1
    <3>4. ToPort(From(a, e + 1)) \in Nat /\ ToPort(From(a, e + 1)) < 2^PortBits
      BY <3>2, <3>3, PortRange
    <3> QED
      BY <2>1, <2>3, <2>4, <2>6, <2>7, <3>1, <3>3, <3>4 DEF h, e
  <2>8. CASE ~(e <= Len(a))
    <3>1. ColonPos(a) = 0
      BY <2>1, <2>8
    <3>2. PortIn(a) = 0
      BY <2>4, <3>1
    <3> DEFINE m == 2^PortBits
    <3>3. m \in Nat \ {0}
      BY <1>0
    <3> HIDE DEF m
    <3>4. 0 < m
      BY <3>3
    <3> QED
      BY <2>1, <2>3, <2>4, <2>6, <2>8, <3>2, <3>4 DEF h, e, m
  <2> QED
    BY <2>7, <2>8
<1> QED
  BY <1>1, <1>2

(* std::transform with tolower() changes no character but the upper case   *)
(* letters.                                                                *)
LEMMA LowerIs ==
  ASSUME NEW s \in Seq(Character)
  PROVE  /\ ToLower(s) \in Seq(Character) /\ Len(ToLower(s)) = Len(s)
         /\ \A i \in 1 .. Len(s) : ToLower(s)[i] = IF s[i] = "A" THEN "a" ELSE s[i]
<1>1. Len(s) \in Nat /\ DOMAIN s = 1 .. Len(s) /\ \A i \in 1 .. Len(s) : s[i] \in Character
  BY LenProperties, ElementOfSeq
<1>2. "a" \in Character
  BY DEF Character, Alphas
<1>3. \A i \in 1 .. Len(s) : (IF s[i] = "A" THEN "a" ELSE s[i]) \in Character
  BY <1>1, <1>2
<1>4. ToLower(s) = [i \in 1 .. Len(s) |-> IF s[i] = "A" THEN "a" ELSE s[i]]
  BY <1>1 DEF ToLower
<1> QED
  BY <1>1, <1>3, <1>4

(* The parts of a text are texts.                                          *)
LEMMA FoundTypes ==
  ASSUME NEW u \in Seq(Character)
  PROVE  /\ SchemeOf(u) \in Seq(Character) /\ AuthOf(u) \in Seq(Character)
         /\ PathOf(u) \in Seq(Character) /\ QueryOf(u) \in Seq(Character)
         /\ FragmentOf(u) \in Seq(Character)
<1> DEFINE n == Len(u)
           k == RestPos(u)
           a == PathPos(u)
           b == MarkPos(u)
           c == HashPos(u)
<1>1. /\ n \in Nat /\ k \in 1 .. n + 1 /\ a \in 1 .. n + 1 /\ b \in 1 .. n + 1 /\ c \in 1 .. n + 1
  BY Positions
<1>2. SchemeOf(u) \in Seq(Character)
  <2>1. SubSeq(u, 1, SchemeEnd(u) - 1) \in Seq(Character)
    <3>1. CASE SchemeEnd(u) = 0
      <4>1. SubSeq(u, 1, 0 - 1) = <<>>
        BY SubSeqEmpty
      <4> QED
        BY <3>1, <4>1
    <3>2. CASE SchemeEnd(u) # 0
      <4>1. SchemeEnd(u) \in 2 .. n - 2
        BY <3>2, SchemeEndFacts DEF SchemeEnds
      <4>2. SchemeEnd(u) - 1 \in Nat /\ SchemeEnd(u) - 1 <= n /\ 1 \in Nat \ {0}
        BY <1>1, <4>1
      <4> QED
        BY <4>2, Piece
    <3> QED
      BY <3>1, <3>2
  <2> QED
    BY <2>1, LowerIs DEF SchemeOf
<1>3. /\ AuthOf(u) = SubSeq(u, k, a - 1) /\ PathOf(u) = SubSeq(u, a, b - 1)
      /\ QueryOf(u) = SubSeq(u, b + 1, c - 1) /\ FragmentOf(u) = SubSeq(u, c + 1, n)
  BY DEF AuthOf, PathOf, QueryOf, FragmentOf
<1> HIDE DEF k, a, b, c
<1>4. /\ k \in Nat \ {0} /\ a - 1 \in Nat /\ a - 1 <= n /\ a \in Nat \ {0}
      /\ b - 1 \in Nat /\ b - 1 <= n /\ b + 1 \in Nat \ {0} /\ c - 1 \in Nat /\ c - 1 <= n
      /\ c + 1 \in Nat \ {0} /\ n <= n
  BY <1>1
<1>5. /\ SubSeq(u, k, a - 1) \in Seq(Character) /\ SubSeq(u, a, b - 1) \in Seq(Character)
      /\ SubSeq(u, b + 1, c - 1) \in Seq(Character) /\ SubSeq(u, c + 1, n) \in Seq(Character)
  BY <1>1, <1>4, Piece
<1> QED
  BY <1>2, <1>3, <1>5

(* The parts as fields of the data.                                        *)
LEMMA DataParts ==
  ASSUME NEW u
  PROVE  /\ ReadAs(u).scheme = SchemeOf(u) /\ ReadAs(u).userinfo = UserIn(AuthOf(u))
         /\ ReadAs(u).host = HostIn(AuthOf(u)) /\ ReadAs(u).port = PortIn(AuthOf(u))
         /\ ReadAs(u).path = PathOf(u) /\ ReadAs(u).query = QueryOf(u)
         /\ ReadAs(u).fragment = FragmentOf(u)
BY DEF ReadAs, Data

(* Two texts in a row are a text.                                          *)
LEMMA Cat ==
  ASSUME NEW s \in Seq(Character), NEW t \in Seq(Character)
  PROVE  s \o t \in Seq(Character)
BY ConcatProperties

(* What operator<< prints is a text.                                       *)
LEMMA PrintedIsText ==
  ASSUME NEW u \in Seq(Character), Parsable(u)
  PROVE  Printed(ReadAs(u)) \in Seq(Character)
<1> DEFINE d == ReadAs(u)
<1>1. /\ d.scheme \in Seq(Character) /\ d.userinfo \in Seq(Character)
      /\ d.host \in Seq(Character) /\ d.path \in Seq(Character)
      /\ d.query \in Seq(Character) /\ d.fragment \in Seq(Character) /\ d.port \in Nat
  <2>1. ErrorIn(AuthOf(u)) = "none"
    BY DEF Parsable
  <2> QED
    BY <2>1, FoundTypes, AuthorityParts, DataParts
<1> HIDE DEF d
<1>2. ToDecimal[d.port] \in Seq(Character)
  BY <1>1, ToDecimalDef
<1>3. /\ <<":", "/", "/">> \in Seq(Character) /\ <<"@">> \in Seq(Character)
      /\ <<":">> \in Seq(Character) /\ <<"?">> \in Seq(Character)
      /\ <<"#">> \in Seq(Character) /\ <<>> \in Seq(Character)
  BY DEF Character
<1> DEFINE S == IF d.scheme = <<>> THEN <<>> ELSE d.scheme \o <<":", "/", "/">>
           U == IF d.userinfo = <<>> THEN <<>> ELSE d.userinfo \o <<"@">>
           P == IF d.port = 0 THEN <<>> ELSE <<":">> \o ToDecimal[d.port]
           A == IF d.host = <<>> THEN <<>> ELSE Authority(d)
           Q == IF d.query = <<>> THEN <<>> ELSE <<"?">> \o d.query
           F == IF d.fragment = <<>> THEN <<>> ELSE <<"#">> \o d.fragment
<1>4. S \in Seq(Character) /\ U \in Seq(Character) /\ P \in Seq(Character)
      /\ Q \in Seq(Character) /\ F \in Seq(Character)
  BY <1>1, <1>2, <1>3, Cat
<1>5. Authority(d) = U \o d.host \o P
  BY DEF Authority
<1>6. Printed(d) = S \o A \o d.path \o Q \o F
  BY DEF Printed
<1> HIDE DEF S, U, P, Q, F
<1>7. A \in Seq(Character)
  BY <1>1, <1>3, <1>4, <1>5, Cat
<1> HIDE DEF A
<1>8. S \o A \o d.path \o Q \o F \in Seq(Character)
  BY <1>1, <1>4, <1>7, Cat
<1> QED
  BY <1>6, <1>8 DEF d

(* The texts the constructor is given.                                     *)
LEMMA TextsAre == Texts \subseteq Seq(Character)
<1>1. ASSUME NEW head \in Heads PROVE head \in Seq(Character)
  <2>1. {"a", "f", "i", "l", "e", ":", "/"} \subseteq Character
    BY DEF Character, Alphas
  <2>2. <<"a", ":", "/", "/">> \in Seq(Character) /\ <<"f", "i", "l", "e", ":", "/", "/">> \in Seq(Character)
    BY <2>1
  <2>3. <<>> \in Seq(Character)
    OBVIOUS
  <2> QED
    BY <2>2, <2>3, Zenon DEF Heads
<1>2. ASSUME NEW tail \in BoundedSeq(Chars, MaxTail) PROVE tail \in Seq(Character)
  <2>1. PICK n \in Nat : tail \in [1 .. n -> Chars]
    BY TailAssumption DEF BoundedSeq, SeqOf
  <2>2. tail \in [1 .. n -> Character]
    BY <2>1 DEF Character
  <2> QED
    BY <2>2
<1>3. \A t \in Texts : t \in KeptTexts \/ \E head \in Heads : \E tail \in BoundedSeq(Chars, MaxTail) : t = head \o tail
  BY DEF Texts
<1>4. ASSUME NEW t \in Texts PROVE t \in Seq(Character)
  <2>1. CASE t \in KeptTexts
    BY <2>1, KeptAssumption
  <2>2. CASE t \notin KeptTexts
    BY <1>1, <1>2, <1>3, <2>2, Cat
  <2> QED
    BY <2>1, <2>2
<1> QED
  BY <1>4

(* The loop parses the text, and then the print of what it made of it.     *)
ParserInv ==
  /\ text \in Seq(Character)
  /\ first = {} => Parses(parser, text)
  /\ first # {} => /\ first = {ReadAs(text)}
                   /\ Parsable(text)
                   /\ Parses(parser, Printed(ReadAs(text)))

(* In every state of the constructor the loop is in one of its states for  *)
(* the text it works on.                                                   *)
LEMMA ParserInvariant == ParserSpec => []ParserInv
<1>1. ParserInit => ParserInv
  BY TextsAre DEF ParserInit, ParserInv, Parses
<1>2. ASSUME ParserInv, [ParserNext]_parserVars PROVE ParserInv'
  <2>1. CASE \E part \in {"SCHEME", "AUTHORITY", "PATH", "QUERY", "FRAGMENT"} : Step(part)
    <3>1. Looping(parser) /\ parser' = Turn(parser) /\ text' = text /\ first' = first
      BY <2>1 DEF Step
    <3>2. CASE first = {}
      <4>1. Parses(Turn(parser), text)
        BY <1>2, <3>1, <3>2, TurnParses DEF ParserInv
      <4> QED
        BY <1>2, <3>1, <3>2, <4>1 DEF ParserInv
    <3>3. CASE first # {}
      <4>1. Printed(ReadAs(text)) \in Seq(Character)
        BY <1>2, <3>3, PrintedIsText DEF ParserInv
      <4>2. Parses(Turn(parser), Printed(ReadAs(text)))
        BY <1>2, <3>1, <3>3, <4>1, TurnParses DEF ParserInv
      <4> QED
        BY <1>2, <3>1, <3>3, <4>2 DEF ParserInv
    <3> QED
      BY <3>2, <3>3
  <2>2. CASE Throw
    BY <1>2, <2>2 DEF Throw, ParserInv
  <2>3. CASE Reparse
    <3>1. Done /\ first = {} /\ first' = {parser.data} /\ text' = text
          /\ parser' = Start(Printed(parser.data))
      BY <2>3 DEF Reparse
    <3>2. parser.data = ReadAs(text) /\ Parsable(text)
      BY <1>2, <3>1, DoneParses DEF ParserInv, Done
    <3> QED
      BY <1>2, <3>1, <3>2 DEF ParserInv, Parses
  <2>4. CASE Keep
    <3>1. text' = <<>> /\ parser' = Start(<<>>) /\ first' = {} /\ <<>> \in Seq(Character)
      BY <2>4 DEF Keep
    <3> QED
      BY <3>1 DEF ParserInv, Parses
  <2>5. CASE UNCHANGED parserVars
    BY <1>2, <2>5 DEF parserVars, ParserInv
  <2> QED
    BY <1>2, <2>1, <2>2, <2>3, <2>4, <2>5
       DEF ParserNext, ParserStep, Scheme, AuthorityPart, Path, Query, Fragment
<1> QED
  BY <1>1, <1>2, PTL DEF ParserSpec

(* The assert()s of _parseURIPart() hold at every call: the query that is  *)
(* looked for starts with ?, the fragment with #.                          *)
THEOREM ParserAsserts == ParserSpec => []AssertsHold
<1>1. ParserInv => AssertsHold
  <2> SUFFICES ASSUME ParserInv, Looping(parser) PROVE PartAsserts(parser.input, parser.part)
    BY DEF AssertsHold
  <2>1. CASE first = {}
    BY <2>1, AssertsOfPart DEF ParserInv
  <2>2. CASE first # {}
    <3>1. Printed(ReadAs(text)) \in Seq(Character)
      BY <2>2, PrintedIsText DEF ParserInv
    <3> QED
      BY <2>2, <3>1, AssertsOfPart DEF ParserInv
  <2> QED
    BY <2>1, <2>2
<1> QED
  BY <1>1, ParserInvariant, PTL
-----------------------------------------------------------------------------
(* The reference finds the same parts.                                     *)

(* What is not in the parts before the query and before the fragment, and  *)
(* what ends each of them.                                                 *)
LEMMA NoMarkBefore ==
  ASSUME NEW u \in Seq(Character)
  PROVE  /\ \A i \in 1 .. MarkPos(u) - 1 : u[i] \notin {"?", "#"}
         /\ \A i \in 1 .. HashPos(u) - 1 : u[i] # "#"
         /\ MarkPos(u) <= Len(u) => u[MarkPos(u)] \in {"?", "#"}
         /\ HashPos(u) <= Len(u) => u[HashPos(u)] = "#"
         /\ SchemeOf(u) \notin NoAuthority =>
              /\ \A i \in RestPos(u) .. PathPos(u) - 1 : u[i] \notin {"/", "?", "#"}
              /\ PathPos(u) <= Len(u) => u[PathPos(u)] \in {"/", "?", "#"}
<1> DEFINE n == Len(u)
           a == RestPos(u)
           b == PathPos(u)
           c == MarkPos(u)
           d == HashPos(u)
<1>1. /\ n \in Nat /\ a \in 1 .. n + 1 /\ b \in a .. n + 1 /\ c \in b .. n + 1 /\ d \in c .. n + 1
      /\ b \in 1 .. n + 1 /\ c \in 1 .. n + 1
  BY Positions
<1>2. \A i \in 1 .. a - 1 : u[i] \notin {"?", "#"}
  BY RestPosFacts
<1>3. SchemeOf(u) \notin NoAuthority =>
        /\ \A i \in a .. b - 1 : u[i] \notin {"/", "?", "#"}
        /\ b <= n => u[b] \in {"/", "?", "#"}
  BY <1>1, StopFacts DEF PathPos
<1>4. SchemeOf(u) \in NoAuthority => b = a
  BY DEF PathPos
<1>5. (\A i \in b .. c - 1 : u[i] \notin {"?", "#"}) /\ (c <= n => u[c] \in {"?", "#"})
  BY <1>1, StopFacts DEF MarkPos
<1>6. (\A i \in c .. d - 1 : u[i] \notin {"#"}) /\ (d <= n => u[d] \in {"#"})
  BY <1>1, StopFacts DEF HashPos
<1> HIDE DEF n, a, b, c, d
<1>7. \A i \in a .. b - 1 : u[i] \notin {"?", "#"}
  BY <1>1, <1>3, <1>4
<1>8. \A i \in 1 .. c - 1 : i \in 1 .. a - 1 \/ i \in a .. b - 1 \/ i \in b .. c - 1
  BY <1>1
<1>9. \A i \in 1 .. c - 1 : u[i] \notin {"?", "#"}
  BY <1>2, <1>5, <1>7, <1>8
<1>10. \A i \in 1 .. d - 1 : i \in 1 .. c - 1 \/ i \in c .. d - 1
  BY <1>1
<1>11. \A i \in 1 .. d - 1 : u[i] # "#"
  BY <1>6, <1>9, <1>10
<1> QED
  BY <1>3, <1>5, <1>6, <1>9, <1>11 DEF n, a, b, c, d

(* Looking for a character with a sentinel behind the text.                *)
LEMMA Sentinel ==
  ASSUME NEW s \in Seq(Character), NEW ch \in Character, NEW p \in 1 .. Len(s) + 1,
         p <= Len(s) => s[p] = ch, \A i \in 1 .. p - 1 : s[i] # ch
  PROVE  FindFirstOf(s \o <<ch>>, {ch}, 1) = p
<1> DEFINE w == s \o <<ch>>
<1>1. Len(s) \in Nat /\ <<ch>> \in Seq(Character) /\ Len(<<ch>>) = 1 /\ <<ch>>[1] = ch
  BY LenProperties
<1>2. /\ w \in Seq(Character) /\ Len(w) = Len(s) + 1
      /\ \A i \in 1 .. Len(s) : w[i] = s[i]
  BY <1>1, ConcatProperties
<1>3. w[Len(s) + 1] = ch
  <2>1. Len(s) + 1 \in 1 .. Len(s) + Len(<<ch>>) /\ ~(Len(s) + 1 <= Len(s))
        /\ Len(s) + 1 - Len(s) = 1
    BY <1>1
  <2>2. w[Len(s) + 1] = <<ch>>[Len(s) + 1 - Len(s)]
    BY <1>1, <2>1, ConcatProperties
  <2> QED
    BY <1>1, <2>1, <2>2
<1> HIDE DEF w
<1>4. p \in 1 .. Len(w) + 1 /\ 1 \in 1 .. Len(w) + 1 /\ p <= Len(w)
  BY <1>1, <1>2
<1>5. w[p] \in {ch}
  <2>1. p = Len(s) + 1 \/ (p \in 1 .. Len(s) /\ p <= Len(s))
    BY <1>1
  <2> QED
    BY <1>2, <1>3, <2>1
<1>6. \A i \in 1 .. p - 1 : w[i] \notin {ch}
  <2>1. \A i \in 1 .. p - 1 : i \in 1 .. Len(s)
    BY <1>1
  <2> QED
    BY <1>2, <2>1
<1>7. Stop(w, {ch}, 1) = p
  BY <1>2, <1>4, <1>5, <1>6, StopIs
<1> QED
  BY <1>2, <1>4, <1>7, StopFacts DEF w

(* A piece of a piece is a piece of the text.                              *)
LEMMA PieceOfPiece ==
  ASSUME NEW s \in Seq(Character), NEW a \in Nat \ {0}, NEW b \in Nat, b <= Len(s), a <= b + 1,
         NEW c \in Nat \ {0}, NEW d \in Nat, d <= b - a + 1
  PROVE  SubSeq(SubSeq(s, a, b), c, d) = SubSeq(s, a + c - 1, a + d - 1)
<1> DEFINE t == SubSeq(s, a, b)
           x == SubSeq(t, c, d)
           y == SubSeq(s, a + c - 1, a + d - 1)
<1>0. Len(s) \in Nat
  BY LenProperties
<1>1. /\ t \in Seq(Character) /\ Len(t) = (IF a <= b THEN b - a + 1 ELSE 0)
      /\ \A i \in 1 .. b - a + 1 : t[i] = s[a + i - 1]
  BY Piece
<1>2. Len(t) = b - a + 1
  BY <1>1
<1>3. a + c - 1 \in Nat \ {0} /\ a + d - 1 \in Nat /\ a + d - 1 <= Len(s) /\ d <= Len(t)
  BY <1>0, <1>2
<1> HIDE DEF t
<1>4. /\ x \in Seq(Character) /\ Len(x) = (IF c <= d THEN d - c + 1 ELSE 0)
      /\ \A i \in 1 .. d - c + 1 : x[i] = t[c + i - 1]
  <2>1. t \in Seq(Character) /\ d <= Len(t)
    BY <1>1, <1>3
  <2> QED
    BY <2>1, Piece
<1>5. /\ y \in Seq(Character)
      /\ Len(y) = (IF a + c - 1 <= a + d - 1 THEN (a + d - 1) - (a + c - 1) + 1 ELSE 0)
      /\ \A i \in 1 .. (a + d - 1) - (a + c - 1) + 1 : y[i] = s[(a + c - 1) + i - 1]
  BY <1>3, Piece
<1> HIDE DEF x, y
<1>6. Len(x) = Len(y) /\ (a + d - 1) - (a + c - 1) + 1 = d - c + 1
  BY <1>4, <1>5
<1>7. \A i \in 1 .. Len(x) : x[i] = y[i]
  <2> TAKE i \in 1 .. Len(x)
  <2>1. i \in 1 .. d - c + 1 /\ c + i - 1 \in 1 .. b - a + 1 /\ a + (c + i - 1) - 1 = (a + c - 1) + i - 1
    BY <1>4
  <2>2. x[i] = t[c + i - 1] /\ t[c + i - 1] = s[a + (c + i - 1) - 1]
    BY <1>1, <1>4, <2>1
  <2>3. y[i] = s[(a + c - 1) + i - 1]
    BY <1>5, <1>6, <2>1
  <2> QED
    BY <2>1, <2>2, <2>3
<1>8. x = y
  BY <1>4, <1>5, <1>6, <1>7, SeqEqual
<1> QED
  BY <1>8 DEF t, x, y

(* The characters of a piece.                                              *)
LEMMA InPiece ==
  ASSUME NEW s \in Seq(Character), NEW a \in Nat \ {0}, NEW b \in Int, b <= Len(s), NEW ch
  PROVE  ch \in ToSet(SubSeq(s, a, b)) <=> \E i \in a .. b : s[i] = ch
<1> DEFINE t == SubSeq(s, a, b)
<1>1. CASE b < a
  <2>1. t = <<>>
    BY <1>1, SubSeqEmpty
  <2>2. ToSet(t) = {}
    BY <2>1 DEF ToSet
  <2>3. a .. b = {}
    BY <1>1
  <2> QED
    BY <2>2, <2>3
<1>2. CASE a <= b
  <2>1. b \in Nat
    BY <1>2
  <2>2. /\ t \in Seq(Character) /\ Len(t) = b - a + 1
        /\ \A i \in 1 .. b - a + 1 : t[i] = s[a + i - 1]
    BY <1>2, <2>1, Piece
  <2>3. DOMAIN t = 1 .. b - a + 1
    BY <2>2, LenProperties
  <2> HIDE DEF t
  <2>4. ToSet(t) = {t[i] : i \in 1 .. b - a + 1}
    BY <2>3 DEF ToSet
  <2>5. ASSUME ch \in ToSet(t) PROVE \E i \in a .. b : s[i] = ch
    <3>1. PICK i \in 1 .. b - a + 1 : t[i] = ch
      BY <2>4, <2>5
    <3>2. a + i - 1 \in a .. b /\ s[a + i - 1] = ch
      BY <2>1, <2>2, <3>1
    <3> QED
      BY <3>2
  <2>6. ASSUME NEW i \in a .. b, s[i] = ch PROVE ch \in ToSet(t)
    <3>1. i - a + 1 \in 1 .. b - a + 1 /\ a + (i - a + 1) - 1 = i
      BY <2>1
    <3>2. t[i - a + 1] = ch
      BY <2>2, <2>6, <3>1
    <3> QED
      BY <2>4, <3>1, <3>2
  <2> QED
    BY <2>5, <2>6 DEF t
<1> QED
  BY <1>1, <1>2

(* The reference, which cuts from the end, finds the parts that the loop   *)
(* finds from the front.                                                   *)
LEMMA ReferenceIs ==
  ASSUME NEW u \in Seq(Character)
  PROVE  Reference(u) = [scheme |-> SchemeOf(u), auth |-> AuthOf(u), path |-> PathOf(u),
                         query |-> QueryOf(u), fragment |-> FragmentOf(u)]
<1> DEFINE n == Len(u)
           k == RestPos(u)
           p == PathPos(u)
           m == MarkPos(u)
           h == HashPos(u)
           e == SchemeEnd(u)
           hash   == FindFirstOf(u \o <<"#">>, {"#"}, 1)
           body   == SubSeq(u, 1, hash - 1)
           mark   == FindFirstOf(body \o <<"?">>, {"?"}, 1)
           front  == SubSeq(body, 1, mark - 1)
           colons == {i \in 2 .. Len(front) - 2 :
                        /\ SubSeq(front, i, i + 2) = <<":", "/", "/">>
                        /\ "/" \notin ToSet(SubSeq(front, 1, i - 1))}
           scheme == IF colons = {} THEN <<>>
                     ELSE ToLower(SubSeq(front, 1, Min(colons) - 1))
           rest   == IF colons = {} THEN front ELSE From(front, Min(colons) + 3)
           slash  == IF scheme \in {<<>>, <<"f", "i", "l", "e">>} THEN 1
                     ELSE FindFirstOf(rest \o <<"/">>, {"/"}, 1)
<1>0. Reference(u) = [scheme   |-> scheme,
                      auth     |-> SubSeq(rest, 1, slash - 1),
                      path     |-> From(rest, slash),
                      query    |-> From(body, mark + 1),
                      fragment |-> From(u, hash + 1)]
  BY DEF Reference
<1>1. /\ n \in Nat /\ k \in 1 .. n + 1 /\ p \in k .. n + 1 /\ m \in p .. n + 1 /\ h \in m .. n + 1
      /\ m \in 1 .. n + 1 /\ h \in 1 .. n + 1 /\ p \in 1 .. n + 1
  BY Positions
<1>2. /\ \A i \in 1 .. m - 1 : u[i] \notin {"?", "#"}
      /\ \A i \in 1 .. h - 1 : u[i] # "#"
      /\ m <= n => u[m] \in {"?", "#"}
      /\ h <= n => u[h] = "#"
      /\ SchemeOf(u) \notin NoAuthority => /\ \A i \in k .. p - 1 : u[i] \notin {"/", "?", "#"}
                                           /\ p <= n => u[p] \in {"/", "?", "#"}
  BY NoMarkBefore
<1>3. /\ e = 0 \/ SchemeEnds(u, e)
      /\ \A i : SchemeEnds(u, i) => e = i
      /\ k = IF e = 0 THEN 1 ELSE e + 3
  BY SchemeEndFacts DEF RestPos
<1>4. /\ SchemeOf(u) = ToLower(SubSeq(u, 1, e - 1)) /\ AuthOf(u) = SubSeq(u, k, p - 1)
      /\ PathOf(u) = SubSeq(u, p, m - 1) /\ QueryOf(u) = SubSeq(u, m + 1, h - 1)
      /\ FragmentOf(u) = SubSeq(u, h + 1, n)
  BY DEF SchemeOf, AuthOf, PathOf, QueryOf, FragmentOf
<1>5. SchemeOf(u) \in NoAuthority => p = k
  BY DEF PathPos
<1>6. {"#", "?", "/"} \subseteq Character
  BY DEF Character
<1> HIDE DEF k, p, m, h, e
<1>7. hash = h
  BY <1>1, <1>2, <1>6, Sentinel
<1> HIDE DEF hash
<1>8. /\ body = SubSeq(u, 1, h - 1) /\ body \in Seq(Character) /\ Len(body) = h - 1
      /\ \A i \in 1 .. h - 1 : body[i] = u[i]
  <2>1. 1 \in Nat \ {0} /\ h - 1 \in Nat /\ h - 1 <= n /\ (h - 1) - 1 + 1 = h - 1
        /\ \A i \in 1 .. h - 1 : 1 + i - 1 = i
    BY <1>1
  <2>2. body = SubSeq(u, 1, h - 1)
    BY <1>7
  <2> HIDE DEF body
  <2>3. /\ body \in Seq(Character) /\ Len(body) = IF 1 <= h - 1 THEN (h - 1) - 1 + 1 ELSE 0
        /\ \A i \in 1 .. (h - 1) - 1 + 1 : body[i] = u[1 + i - 1]
    BY <2>1, <2>2, Piece
  <2> QED
    BY <1>1, <2>1, <2>2, <2>3
<1> HIDE DEF body
<1>9. mark = m
  <2>1. m \in 1 .. Len(body) + 1
    BY <1>1, <1>8
  <2>2. m <= Len(body) => body[m] = "?"
    BY <1>1, <1>2, <1>8
  <2>3. \A i \in 1 .. m - 1 : i \in 1 .. h - 1
    BY <1>1
  <2>4. \A i \in 1 .. m - 1 : body[i] # "?"
    BY <1>2, <1>8, <2>3
  <2> QED
    BY <1>6, <1>8, <2>1, <2>2, <2>4, Sentinel
<1> HIDE DEF mark
<1>10. front = SubSeq(u, 1, m - 1)
  <2>1. 1 \in Nat \ {0} /\ h - 1 \in Nat /\ h - 1 <= n /\ 1 <= (h - 1) + 1 /\ m - 1 \in Nat
        /\ m - 1 <= (h - 1) - 1 + 1 /\ 1 + 1 - 1 = 1 /\ 1 + (m - 1) - 1 = m - 1
    BY <1>1
  <2> DEFINE b == h - 1
             d == m - 1
  <2>2. SubSeq(SubSeq(u, 1, b), 1, d) = SubSeq(u, 1 + 1 - 1, 1 + d - 1)
    <3> HIDE DEF b, d
    <3> QED
      BY <2>1, PieceOfPiece DEF b, d
  <2> QED
    BY <1>8, <1>9, <2>1, <2>2
<1> HIDE DEF front
<1>11. /\ front \in Seq(Character) /\ Len(front) = m - 1
       /\ \A i \in 1 .. m - 1 : front[i] = u[i]
  <2>1. 1 \in Nat \ {0} /\ m - 1 \in Nat /\ m - 1 <= n /\ (m - 1) - 1 + 1 = m - 1
        /\ \A i \in 1 .. m - 1 : 1 + i - 1 = i
    BY <1>1
  <2>2. /\ front \in Seq(Character) /\ Len(front) = IF 1 <= m - 1 THEN (m - 1) - 1 + 1 ELSE 0
        /\ \A i \in 1 .. (m - 1) - 1 + 1 : front[i] = u[1 + i - 1]
    BY <1>10, <2>1, Piece
  <2> QED
    BY <1>1, <2>1, <2>2
<1>12. ASSUME NEW i \in 2 .. Len(front) - 2
       PROVE  i \in colons <=> SchemeEnds(u, i)
  <2>1. i \in 1 .. Len(front) - 2 /\ i \in 2 .. n - 2 /\ i \in 1 .. m - 1 /\ i + 1 \in 1 .. m - 1
        /\ i + 2 \in 1 .. m - 1 /\ i - 1 \in Int /\ i - 1 <= Len(front) /\ 1 \in Nat \ {0}
    BY <1>1, <1>11
  <2>2. SubSeq(front, i, i + 2) = <<":", "/", "/">>
          <=> front[i] = ":" /\ front[i + 1] = "/" /\ front[i + 2] = "/"
    BY <1>11, <2>1, SeparatorChars
  <2>3. "/" \in ToSet(SubSeq(front, 1, i - 1)) <=> \E j \in 1 .. i - 1 : front[j] = "/"
    BY <1>11, <2>1, InPiece
  <2>4. \A j \in 1 .. i - 1 : j \in 1 .. m - 1
    BY <1>1, <2>1
  <2>5. \A j \in 1 .. i - 1 : front[j] = u[j] /\ u[j] \notin {"?", "#"}
    BY <1>2, <1>11, <2>4
  <2>6. front[i] = u[i] /\ front[i + 1] = u[i + 1] /\ front[i + 2] = u[i + 2]
    BY <1>11, <2>1
  <2>7. SchemeEnds(u, i) <=> /\ u[i] = ":" /\ u[i + 1] = "/" /\ u[i + 2] = "/"
                             /\ \A j \in 1 .. i - 1 : u[j] \notin {"/", "?", "#"}
    BY <2>1 DEF SchemeEnds
  <2> QED
    BY <2>2, <2>3, <2>5, <2>6, <2>7
<1>13. e # 0 => e \in 2 .. Len(front) - 2
  BY <1>1, <1>3, <1>11 DEF SchemeEnds
<1>14. colons = IF e = 0 THEN {} ELSE {e}
  <2>1. \A i \in colons : i \in 2 .. Len(front) - 2
    OBVIOUS
  <2> HIDE DEF colons
  <2>2. \A i \in colons : e = i
    BY <1>3, <1>12, <2>1
  <2>3. \A i \in colons : i # 0
    BY <1>11, <2>1
  <2>4. e # 0 => e \in colons
    BY <1>3, <1>12, <1>13
  <2> QED
    BY <2>2, <2>3, <2>4
<1> HIDE DEF colons
<1>15. e # 0 => Min(colons) = e /\ e \in Nat
  <2> SUFFICES ASSUME e # 0 PROVE Min(colons) = e /\ e \in Nat
    OBVIOUS
  <2>1. e \in Nat
    BY <1>1, <1>11, <1>13
  <2>2. {e} \in SUBSET Nat /\ {e} # {}
    BY <2>1
  <2>3. Min({e}) \in {e}
    BY <2>2, MinIsLeast
  <2> QED
    BY <1>14, <2>1, <2>3
<1>16. scheme = SchemeOf(u)
  <2>1. CASE e = 0
    <3>1. SubSeq(u, 1, 0 - 1) = <<>>
      BY SubSeqEmpty
    <3>2. ToLower(<<>>) = <<>>
      BY DEF ToLower
    <3> QED
      BY <1>4, <1>14, <2>1, <3>1, <3>2
  <2>2. CASE e # 0
    <3> DEFINE b == m - 1
               d == e - 1
    <3>1. 1 \in Nat \ {0} /\ b \in Nat /\ b <= n /\ 1 <= b + 1 /\ d \in Nat
          /\ d <= b - 1 + 1 /\ 1 + 1 - 1 = 1 /\ 1 + d - 1 = d
      BY <1>1, <1>11, <1>13, <2>2
    <3>2. SubSeq(SubSeq(u, 1, b), 1, d) = SubSeq(u, 1 + 1 - 1, 1 + d - 1)
      <4> HIDE DEF b, d
      <4> QED
        BY <3>1, PieceOfPiece
    <3>3. SubSeq(front, 1, e - 1) = SubSeq(u, 1, e - 1)
      BY <1>10, <3>1, <3>2
    <3>4. scheme = ToLower(SubSeq(front, 1, e - 1))
      BY <1>14, <1>15, <2>2
    <3> QED
      BY <1>4, <3>3, <3>4
  <2> QED
    BY <2>1, <2>2
<1> HIDE DEF scheme
<1>17. rest = SubSeq(u, k, m - 1)
  <2>1. CASE e = 0
    <3>1. rest = front /\ k = 1
      BY <1>3, <1>14, <2>1
    <3> QED
      BY <1>10, <3>1
  <2>2. CASE e # 0
    <3>1. rest = From(front, e + 3) /\ k = e + 3
      BY <1>3, <1>14, <1>15, <2>2
    <3> DEFINE b == m - 1
    <3>2. 1 \in Nat \ {0} /\ b \in Nat /\ b <= n /\ 1 <= b + 1 /\ k \in Nat \ {0}
          /\ b <= b - 1 + 1 /\ 1 + k - 1 = k /\ 1 + b - 1 = b
      BY <1>1
    <3>3. SubSeq(SubSeq(u, 1, b), k, b) = SubSeq(u, 1 + k - 1, 1 + b - 1)
      <4> HIDE DEF b
      <4> QED
        BY <3>2, PieceOfPiece
    <3> QED
      BY <1>10, <1>11, <3>1, <3>2, <3>3 DEF From
  <2> QED
    BY <2>1, <2>2
<1> HIDE DEF rest
<1>18. /\ rest \in Seq(Character) /\ Len(rest) = m - k
       /\ \A i \in 1 .. m - k : rest[i] = u[k + i - 1]
  <2>1. k \in Nat \ {0} /\ m - 1 \in Nat /\ m - 1 <= n /\ (m - 1) - k + 1 = m - k
    BY <1>1
  <2>2. /\ rest \in Seq(Character) /\ Len(rest) = IF k <= m - 1 THEN (m - 1) - k + 1 ELSE 0
        /\ \A i \in 1 .. (m - 1) - k + 1 : rest[i] = u[k + i - 1]
    BY <1>17, <2>1, Piece
  <2> QED
    BY <1>1, <2>1, <2>2
<1>19. slash = p - k + 1
  <2>1. CASE SchemeOf(u) \in NoAuthority
    BY <1>1, <1>5, <1>16, <2>1 DEF NoAuthority
  <2>2. CASE SchemeOf(u) \notin NoAuthority
    <3>1. slash = FindFirstOf(rest \o <<"/">>, {"/"}, 1)
      BY <1>16, <2>2 DEF NoAuthority
    <3> DEFINE q == p - k + 1
    <3>2. q \in 1 .. Len(rest) + 1 /\ k + q - 1 = p
      BY <1>1, <1>18
    <3>3. q <= Len(rest) => rest[q] = "/"
      <4> SUFFICES ASSUME q <= Len(rest) PROVE rest[q] = "/"
        OBVIOUS
      <4>1. q \in 1 .. m - k /\ p \in 1 .. m - 1 /\ p <= n
        BY <1>1, <1>18, <3>2
      <4>2. rest[q] = u[p]
        BY <1>18, <3>2, <4>1
      <4> QED
        BY <1>2, <2>2, <4>1, <4>2
    <3>4. \A i \in 1 .. q - 1 : rest[i] # "/"
      <4> TAKE i \in 1 .. q - 1
      <4>1. i \in 1 .. m - k /\ k + i - 1 \in k .. p - 1
        BY <1>1
      <4> QED
        BY <1>2, <1>18, <2>2, <4>1
    <3> HIDE DEF q
    <3>5. FindFirstOf(rest \o <<"/">>, {"/"}, 1) = q
      BY <1>6, <1>18, <3>2, <3>3, <3>4, Sentinel
    <3> QED
      BY <3>1, <3>5 DEF q
  <2> QED
    BY <2>1, <2>2
<1> HIDE DEF slash
<1>20. SubSeq(rest, 1, slash - 1) = AuthOf(u) /\ From(rest, slash) = PathOf(u)
  <2> DEFINE b == m - 1
             d == slash - 1
             g == m - k
  <2>1. /\ k \in Nat \ {0} /\ b \in Nat /\ b <= n /\ k <= b + 1 /\ 1 \in Nat \ {0} /\ d \in Nat
        /\ d <= b - k + 1 /\ k + 1 - 1 = k /\ k + d - 1 = p - 1
        /\ slash \in Nat \ {0} /\ g \in Nat /\ g <= b - k + 1 /\ k + slash - 1 = p /\ k + g - 1 = m - 1
    BY <1>1, <1>19
  <2>2. /\ SubSeq(SubSeq(u, k, b), 1, d) = SubSeq(u, k + 1 - 1, k + d - 1)
        /\ SubSeq(SubSeq(u, k, b), slash, g) = SubSeq(u, k + slash - 1, k + g - 1)
    <3> HIDE DEF b, d, g
    <3> QED
      BY <2>1, PieceOfPiece
  <2>3. From(rest, slash) = SubSeq(rest, slash, g)
    BY <1>18 DEF From
  <2> QED
    BY <1>4, <1>17, <2>1, <2>2, <2>3
<1>21. From(body, mark + 1) = QueryOf(u)
  <2> DEFINE b == h - 1
             c == m + 1
  <2>1. 1 \in Nat \ {0} /\ b \in Nat /\ b <= n /\ 1 <= b + 1 /\ c \in Nat \ {0}
        /\ b <= b - 1 + 1 /\ 1 + c - 1 = c /\ 1 + b - 1 = b
    BY <1>1
  <2>2. SubSeq(SubSeq(u, 1, b), c, b) = SubSeq(u, 1 + c - 1, 1 + b - 1)
    <3> HIDE DEF b, c
    <3> QED
      BY <2>1, PieceOfPiece
  <2> QED
    BY <1>4, <1>8, <1>9, <2>1, <2>2 DEF From
<1>22. From(u, hash + 1) = FragmentOf(u)
  BY <1>4, <1>7 DEF From
<1> QED
  BY <1>0, <1>16, <1>20, <1>21, <1>22
-----------------------------------------------------------------------------
(* The reference has one reading of an authority, or none.                 *)

\* at and end cut the authority as Readings demands.
IsCut(a, at, end) ==
  /\ "@" \notin ToSet(SubSeq(a, 1, at - 1))
  /\ IF at = 0 THEN "@" \notin ToSet(a) ELSE a[at] = "@"
  /\ at + 1 < end
  /\ ":" \notin ToSet(SubSeq(a, at + 1, end - 1))
  /\ end <= Len(a) => a[end] = ":" /\ IsNumber(From(a, end + 1))

\* What it reads then.
Reading(a, at, end) ==
  [userinfo |-> SubSeq(a, 1, at - 1),
   host     |-> SubSeq(a, at + 1, end - 1),
   port     |-> IF end > Len(a) THEN 0 ELSE Strtol(From(a, end + 1)) % 2^PortBits]

(* An authority is cut as the reference demands exactly where              *)
(* _parseAuthority() cuts it, if that throws no exception.                 *)
LEMMA CutIs ==
  ASSUME NEW a \in Seq(Character), a # <<>>,
         NEW at \in 0 .. Len(a), NEW end \in 2 .. Len(a) + 1
  PROVE  IsCut(a, at, end) <=>
           at = HostPos(a) - 1 /\ end = HostEnd(a) /\ ErrorIn(a) = "none"
<1> DEFINE h == HostPos(a)
           e == HostEnd(a)
           n == Len(a)
<1>1. /\ n \in Nat /\ h \in 1 .. n + 1 /\ e \in h .. n + 1 /\ e \in 1 .. n + 1
      /\ ColonPos(a) = (IF e <= n THEN e ELSE 0)
      /\ HostOf(a) = SubSeq(a, h, e - 1)
      /\ e <= n => a[e] = ":"
      /\ \A i \in h .. e - 1 : a[i] # ":"
      /\ h > 1 => a[h - 1] = "@"
      /\ \A i \in 1 .. h - 2 : a[i] # "@"
      /\ h = 1 => \A i \in 1 .. n : a[i] # "@"
  BY AuthorityPositions
<1>2. DOMAIN a = 1 .. n
  BY LenProperties
<1>3. "@" \in ToSet(a) <=> \E i \in 1 .. n : a[i] = "@"
  BY <1>2 DEF ToSet
<1>4. "@" \in ToSet(SubSeq(a, 1, at - 1)) <=> \E i \in 1 .. at - 1 : a[i] = "@"
  <2>1. 1 \in Nat \ {0} /\ at - 1 \in Int /\ at - 1 <= n
    BY <1>1
  <2> DEFINE b == at - 1
  <2> HIDE DEF b
  <2>2. "@" \in ToSet(SubSeq(a, 1, b)) <=> \E i \in 1 .. b : a[i] = "@"
    BY <2>1, InPiece DEF b
  <2> QED
    BY <2>2 DEF b
<1>5. ":" \in ToSet(SubSeq(a, at + 1, end - 1)) <=> \E i \in at + 1 .. end - 1 : a[i] = ":"
  <2> DEFINE b == at + 1
             c == end - 1
  <2>1. b \in Nat \ {0} /\ c \in Int /\ c <= n
    BY <1>1
  <2> HIDE DEF b, c
  <2>2. ":" \in ToSet(SubSeq(a, b, c)) <=> \E i \in b .. c : a[i] = ":"
    BY <2>1, InPiece
  <2> QED
    BY <2>2 DEF b, c
<1>6. HostOf(a) = <<>> <=> h = e
  <2>1. h \in Nat \ {0} /\ e - 1 \in Nat /\ e - 1 <= n
    BY <1>1
  <2> DEFINE b == e - 1
  <2> HIDE DEF b
  <2>2. SubSeq(a, h, b) \in Seq(Character) /\ Len(SubSeq(a, h, b)) = IF h <= b THEN b - h + 1 ELSE 0
    BY <2>1, Piece DEF b
  <2>3. SubSeq(a, h, b) = <<>> <=> Len(SubSeq(a, h, b)) = 0
    BY <2>2, EmptySeq
  <2>4. Len(SubSeq(a, h, b)) = 0 <=> h = e
    <3> HIDE DEF h, e
    <3> QED
      BY <1>1, <2>1, <2>2 DEF b
  <2> QED
    BY <1>1, <2>3, <2>4 DEF b
<1>7. ErrorIn(a) = "none" <=> ~BadPort(a) /\ HostOf(a) # <<>>
  BY DEF ErrorIn, AuthorityError
<1>8. BadPort(a) <=> e <= n /\ ~IsNumber(From(a, e + 1))
  <2> HIDE DEF h, e, n
  <2> QED
    BY <1>1 DEF BadPort
<1>9. IsCut(a, at, end) <=>
        /\ ~ \E i \in 1 .. at - 1 : a[i] = "@"
        /\ IF at = 0 THEN ~ \E i \in 1 .. n : a[i] = "@" ELSE a[at] = "@"
        /\ at + 1 < end
        /\ ~ \E i \in at + 1 .. end - 1 : a[i] = ":"
        /\ end <= n => a[end] = ":" /\ IsNumber(From(a, end + 1))
  BY <1>3, <1>4, <1>5 DEF IsCut
<1>10. HostPos(a) = FindFirstOf(a, {"@"}, 1) + 1
  BY DEF HostPos
<1>11. e = Stop(a, {":"}, h)
  BY DEF HostEnd
<1> HIDE DEF h, e, n
<1>12. ASSUME IsCut(a, at, end) PROVE at = h - 1 /\ end = e /\ ErrorIn(a) = "none"
  <2>1. at = h - 1
    <3>1. CASE at = 0
      <4>1. ~ \E i \in 1 .. n : a[i] = "@"
        BY <1>9, <1>12, <3>1
      <4>2. ~(h > 1)
        BY <1>1, <4>1
      <4> QED
        BY <1>1, <3>1, <4>2
    <3>2. CASE at # 0
      <4>1. a[at] = "@" /\ ~ \E i \in 1 .. at - 1 : a[i] = "@"
        BY <1>9, <1>12, <3>2
      <4>2. at \in 1 .. n
        BY <1>1, <3>2 DEF n
      <4>3. h # 1
        BY <1>1, <4>1, <4>2
      <4>4. h - 1 \in 1 .. n /\ a[h - 1] = "@"
        BY <1>1, <4>3
      <4>5. ~(h - 1 < at)
        BY <1>1, <4>1, <4>2, <4>4
      <4>6. ~(at < h - 1)
        <5> SUFFICES ASSUME at < h - 1 PROVE FALSE
          OBVIOUS
        <5>1. at \in 1 .. h - 2
          BY <1>1, <4>2
        <5> QED
          BY <1>1, <4>1, <5>1
      <4> QED
        BY <1>1, <4>2, <4>4, <4>5, <4>6
    <3> QED
      BY <3>1, <3>2
  <2>2. at + 1 = h /\ h < end
    BY <1>1, <1>9, <1>12, <2>1
  <2>3. end = e
    <3>1. h \in 1 .. Len(a) + 1 /\ end \in h .. Len(a) + 1
      BY <1>1, <2>2 DEF n
    <3>2. end <= Len(a) => a[end] \in {":"}
      BY <1>9, <1>12 DEF n
    <3>3. \A i \in h .. end - 1 : a[i] \notin {":"}
      BY <1>9, <1>12, <2>2
    <3>4. Stop(a, {":"}, h) = end
      BY <3>1, <3>2, <3>3, StopIs
    <3> QED
      BY <1>11, <3>4
  <2>4. h # e
    BY <1>1, <2>2, <2>3
  <2>5. ~BadPort(a)
    BY <1>8, <1>9, <1>12, <2>3
  <2> QED
    BY <1>6, <1>7, <2>1, <2>3, <2>4, <2>5
<1>13. ASSUME at = h - 1, end = e, ErrorIn(a) = "none" PROVE IsCut(a, at, end)
  <2>1. h # e /\ ~BadPort(a)
    BY <1>6, <1>7, <1>13
  <2>2. at + 1 = h /\ at - 1 = h - 2 /\ h < e
    BY <1>1, <1>13, <2>1
  <2>3. ~ \E i \in 1 .. at - 1 : a[i] = "@"
    BY <1>1, <2>2
  <2>4. IF at = 0 THEN ~ \E i \in 1 .. n : a[i] = "@" ELSE a[at] = "@"
    <3>1. CASE at = 0
      <4>1. h = 1
        BY <1>1, <1>13, <3>1
      <4> QED
        BY <1>1, <3>1, <4>1
    <3>2. CASE at # 0
      <4>1. h > 1
        BY <1>1, <1>13, <3>2
      <4> QED
        BY <1>1, <1>13, <3>2, <4>1
    <3> QED
      BY <3>1, <3>2
  <2>5. ~ \E i \in at + 1 .. end - 1 : a[i] = ":"
    BY <1>1, <1>13, <2>2
  <2>6. end <= n => a[end] = ":" /\ IsNumber(From(a, end + 1))
    BY <1>1, <1>8, <1>13, <2>1
  <2> QED
    BY <1>9, <1>13, <2>2, <2>3, <2>4, <2>5, <2>6
<1> QED
  BY <1>12, <1>13 DEF h, e

(* So there is one reading of an authority without error, and none of      *)
(* another.                                                                *)
LEMMA ReadingsAre ==
  ASSUME NEW a \in Seq(Character), a # <<>>
  PROVE  Readings(a) = IF ErrorIn(a) # "none" THEN {}
                       ELSE {[userinfo |-> UserIn(a), host |-> HostIn(a), port |-> PortIn(a)]}
<1> DEFINE n == Len(a)
           D == {c \in (0 .. n) \X (2 .. n + 1) : IsCut(a, c[1], c[2])}
           h == HostPos(a)
           e == HostEnd(a)
<1>1. Readings(a) = {Reading(a, c[1], c[2]) : c \in D}
  BY DEF Readings, IsCut, Reading
<1>2. \A c \in D : c \in (0 .. n) \X (2 .. n + 1) /\ c = <<h - 1, e>> /\ ErrorIn(a) = "none"
  <2> TAKE c \in D
  <2>1. c[1] \in 0 .. n /\ c[2] \in 2 .. n + 1 /\ c = <<c[1], c[2]>> /\ IsCut(a, c[1], c[2])
    OBVIOUS
  <2>2. c[1] = h - 1 /\ c[2] = e /\ ErrorIn(a) = "none"
    BY <2>1, CutIs
  <2> QED
    BY <2>1, <2>2
<1>3. CASE ErrorIn(a) # "none"
  <2>1. D = {}
    BY <1>2, <1>3
  <2> HIDE DEF D
  <2> QED
    BY <1>1, <1>3, <2>1
<1>4. CASE ErrorIn(a) = "none"
  <2>1. /\ n \in Nat /\ h \in 1 .. n + 1 /\ e \in h .. n + 1
    BY AuthorityPositions
  <2>2. /\ HostIn(a) # <<>> /\ HostIn(a) = SubSeq(a, h, e - 1)
        /\ UserIn(a) = SubSeq(a, 1, h - 2)
        /\ e <= n => PortIn(a) = ToPort(From(a, e + 1))
        /\ e = n + 1 => PortIn(a) = 0
    BY <1>4, AuthorityParts
  <2>3. h # e
    <3>1. h = e => SubSeq(a, h, e - 1) = <<>>
      <4>1. h \in Int /\ e - 1 \in Int /\ (h = e => e - 1 < h)
        BY <2>1
      <4> QED
        BY <4>1, SubSeqEmpty
    <3> QED
      BY <2>2, <3>1
  <2> DEFINE r == [userinfo |-> UserIn(a), host |-> HostIn(a), port |-> PortIn(a)]
             c == <<h - 1, e>>
  <2>4. h - 1 \in 0 .. n /\ e \in 2 .. n + 1 /\ (h - 1) - 1 = h - 2 /\ (h - 1) + 1 = h
        /\ (e > n <=> e = n + 1) /\ (e <= n \/ e > n)
    <3> HIDE DEF h, e, n
    <3> QED
      BY <2>1, <2>3
  <2>5. IsCut(a, h - 1, e)
    BY <1>4, <2>4, CutIs
  <2>6. D = {<<h - 1, e>>}
    <3>1. <<h - 1, e>> \in D
      BY <2>4, <2>5
    <3> HIDE DEF D
    <3> QED
      BY <1>2, <3>1
  <2>7. Reading(a, h - 1, e) = r
    <3>1. SubSeq(a, 1, (h - 1) - 1) = UserIn(a) /\ SubSeq(a, (h - 1) + 1, e - 1) = HostIn(a)
      BY <2>2, <2>4
    <3>2. (IF e > n THEN 0 ELSE Strtol(From(a, e + 1)) % 2^PortBits) = PortIn(a)
      <4>1. ToPort(From(a, e + 1)) = Strtol(From(a, e + 1)) % 2^PortBits
        BY DEF ToPort
      <4> DEFINE x == Strtol(From(a, e + 1)) % 2^PortBits
      <4> HIDE DEF x
      <4>2. (IF e > n THEN 0 ELSE x) = PortIn(a)
        <5> HIDE DEF h, e, n
        <5> QED
          BY <2>1, <2>2, <2>4, <4>1 DEF x
      <4> QED
        BY <4>2 DEF x
    <3> QED
      BY <3>1, <3>2, Zenon DEF Reading
  <2> HIDE DEF D, r
  <2>8. Readings(a) = {Reading(a, h - 1, e)}
    <3>1. c[1] = h - 1 /\ c[2] = e
      OBVIOUS
    <3>2. Readings(a) = {Reading(a, c[1], c[2])}
      <4> HIDE DEF c
      <4>1. D = {c}
        BY <2>6 DEF c
      <4> QED
        BY <1>1, <4>1
    <3> QED
      BY <3>1, <3>2
  <2> QED
    BY <1>4, <2>7, <2>8 DEF r
<1> QED
  BY <1>3, <1>4

(* The constructor of a URI returns with the parts that the reference      *)
(* finds, and throws exactly for a bad scheme or authority.                *)
THEOREM ParserReference == ParserSpec => []AgreesWithReference
<1>1. ParserInv => AgreesWithReference
  <2> DEFINE ref      == Reference(text)
             d        == parser.data
             readings == IF ref.auth # <<>> THEN Readings(ref.auth)
                         ELSE {[userinfo |-> <<>>, host |-> <<>>, port |-> 0]}
             bad      == BadScheme(ref.scheme) \/ readings = {}
  <2> SUFFICES ASSUME ParserInv, first = {}
               PROVE  /\ parser.error # "none" => bad
                      /\ Done =>
                           /\ ~bad
                           /\ readings = {[userinfo |-> d.userinfo, host |-> d.host,
                                           port |-> d.port]}
                           /\ <<d.scheme, d.path, d.query, d.fragment>> =
                                <<ref.scheme, ref.path, ref.query, ref.fragment>>
    BY DEF AgreesWithReference
  <2>1. text \in Seq(Character) /\ Parses(parser, text)
    BY DEF ParserInv
  <2>2. /\ ref.scheme = SchemeOf(text) /\ ref.auth = AuthOf(text) /\ ref.path = PathOf(text)
        /\ ref.query = QueryOf(text) /\ ref.fragment = FragmentOf(text)
    BY <2>1, ReferenceIs
  <2> HIDE DEF ref
  <2> DEFINE a == AuthOf(text)
             R == [userinfo |-> UserIn(a), host |-> HostIn(a), port |-> PortIn(a)]
  <2>3. a \in Seq(Character)
    BY <2>1, FoundTypes
  <2>4. readings = IF ErrorIn(a) # "none" THEN {} ELSE {R}
    <3>1. CASE a = <<>>
      <4>1. ErrorIn(a) = "none" /\ UserIn(a) = <<>> /\ HostIn(a) = <<>> /\ PortIn(a) = 0
        BY <3>1 DEF ErrorIn, UserIn, HostIn, PortIn
      <4>2. readings = {[userinfo |-> <<>>, host |-> <<>>, port |-> 0]}
        BY <2>2, <3>1
      <4> QED
        BY <4>1, <4>2
    <3>2. CASE a # <<>>
      BY <2>2, <2>3, <3>2, ReadingsAre
    <3> QED
      BY <3>1, <3>2
  <2> HIDE DEF readings
  <2>5. bad <=> ~Parsable(text)
    BY <2>2, <2>4 DEF Parsable
  <2> HIDE DEF bad
  <2>6. parser.error # "none" => bad
    BY <2>1, <2>5, ErrorParses
  <2>7. ASSUME Done
        PROVE  /\ ~bad
               /\ readings = {[userinfo |-> d.userinfo, host |-> d.host, port |-> d.port]}
               /\ <<d.scheme, d.path, d.query, d.fragment>> =
                    <<ref.scheme, ref.path, ref.query, ref.fragment>>
    <3>1. d = ReadAs(text) /\ Parsable(text)
      BY <2>1, <2>7, DoneParses DEF Done
    <3>2. /\ d.scheme = SchemeOf(text) /\ d.userinfo = UserIn(a)
          /\ d.host = HostIn(a) /\ d.port = PortIn(a)
          /\ d.path = PathOf(text) /\ d.query = QueryOf(text)
          /\ d.fragment = FragmentOf(text)
      BY <3>1, DataParts
    <3>3. readings = {R}
      BY <2>4, <3>1 DEF Parsable
    <3> QED
      BY <2>2, <2>5, <3>1, <3>2, <3>3
  <2> QED
    BY <2>6, <2>7
<1> QED
  BY <1>1, ParserInvariant, PTL
-----------------------------------------------------------------------------
(* Texts put together.                                                     *)

(* Two texts in a row, character by character.                             *)
LEMMA CatIs ==
  ASSUME NEW s \in Seq(Character), NEW t \in Seq(Character)
  PROVE  /\ s \o t \in Seq(Character)
         /\ Len(s) \in Nat /\ Len(t) \in Nat /\ Len(s \o t) = Len(s) + Len(t)
         /\ \A i \in 1 .. Len(s) : (s \o t)[i] = s[i]
         /\ \A i \in 1 .. Len(t) : (s \o t)[Len(s) + i] = t[i]
<1> DEFINE w == s \o t
<1>1. Len(s) \in Nat /\ Len(t) \in Nat
  BY LenProperties
<1>2. /\ w \in Seq(Character) /\ Len(w) = Len(s) + Len(t)
      /\ \A i \in 1 .. Len(s) + Len(t) : w[i] = IF i <= Len(s) THEN s[i] ELSE t[i - Len(s)]
  BY ConcatProperties
<1> HIDE DEF w
<1>3. \A i \in 1 .. Len(s) : w[i] = s[i]
  BY <1>1, <1>2
<1>4. ASSUME NEW i \in 1 .. Len(t) PROVE w[Len(s) + i] = t[i]
  <2>1. Len(s) + i \in 1 .. Len(s) + Len(t) /\ ~(Len(s) + i <= Len(s)) /\ Len(s) + i - Len(s) = i
    BY <1>1
  <2> QED
    BY <1>2, <2>1
<1> QED
  BY <1>1, <1>2, <1>3, <1>4 DEF w

(* A piece that is known character by character.                           *)
LEMMA PieceIs ==
  ASSUME NEW w \in Seq(Character), NEW x \in Seq(Character), NEW k \in Nat,
         k + Len(x) <= Len(w), \A i \in 1 .. Len(x) : w[k + i] = x[i]
  PROVE  SubSeq(w, k + 1, k + Len(x)) = x
<1>0. Len(x) \in Nat
  BY LenProperties
<1> DEFINE a == k + 1
           b == k + Len(x)
           y == SubSeq(w, a, b)
<1>1. a \in Nat \ {0} /\ b \in Nat /\ b <= Len(w) /\ b - a + 1 = Len(x)
      /\ (a <= b \/ Len(x) = 0)
  BY <1>0
<1>2. \A i \in 1 .. Len(x) : a + i - 1 = k + i
  BY <1>0
<1> HIDE DEF a, b
<1>3. /\ y \in Seq(Character) /\ Len(y) = (IF a <= b THEN b - a + 1 ELSE 0)
      /\ \A i \in 1 .. b - a + 1 : y[i] = w[a + i - 1]
  BY <1>1, Piece
<1> HIDE DEF y
<1>4. Len(y) = Len(x)
  BY <1>0, <1>1, <1>3
<1>5. \A i \in 1 .. Len(y) : y[i] = x[i]
  BY <1>1, <1>2, <1>3, <1>4
<1>6. y = x
  BY <1>3, <1>4, <1>5, SeqEqual
<1> QED
  BY <1>6 DEF a, b, y

(* A part behind the character that announces it.                          *)
Marked(ch, x) == IF x = <<>> THEN <<>> ELSE <<ch>> \o x

(* The same for a part and its mark.                                       *)
LEMMA MarkedIs ==
  ASSUME NEW ch \in Character, NEW x \in Seq(Character)
  PROVE  /\ Marked(ch, x) \in Seq(Character) /\ Len(x) \in Nat
         /\ x = <<>> <=> Len(x) = 0
         /\ Len(Marked(ch, x)) = IF x = <<>> THEN 0 ELSE Len(x) + 1
         /\ x # <<>> => /\ Marked(ch, x)[1] = ch
                        /\ \A i \in 1 .. Len(x) : Marked(ch, x)[1 + i] = x[i]
<1>0. Len(x) \in Nat /\ (x = <<>> <=> Len(x) = 0)
  BY LenProperties, EmptySeq
<1>1. CASE x = <<>>
  BY <1>0, <1>1 DEF Marked
<1>2. CASE x # <<>>
  <2> DEFINE s == <<ch>>
             y == s \o x
  <2>1. s \in Seq(Character) /\ Len(s) = 1 /\ s[1] = ch
    OBVIOUS
  <2> HIDE DEF s
  <2>2. /\ y \in Seq(Character) /\ Len(y) = Len(s) + Len(x)
        /\ \A i \in 1 .. Len(s) : y[i] = s[i]
        /\ \A i \in 1 .. Len(x) : y[Len(s) + i] = x[i]
    BY <2>1, CatIs
  <2>3. Marked(ch, x) = y
    BY <1>2 DEF Marked, s
  <2> HIDE DEF y
  <2>4. Len(y) = Len(x) + 1 /\ y[1] = ch /\ \A i \in 1 .. Len(x) : y[1 + i] = x[i]
    BY <1>0, <2>1, <2>2
  <2> QED
    BY <1>0, <1>2, <2>2, <2>3, <2>4
<1> QED
  BY <1>1, <1>2

\* The scheme with its ://.
SchemeText(s) == IF s = <<>> THEN <<>> ELSE s \o <<":", "/", "/">>

(* The same for a scheme and the three characters behind it.               *)
LEMMA SchemeTextIs ==
  ASSUME NEW s \in Seq(Character)
  PROVE  /\ SchemeText(s) \in Seq(Character) /\ Len(s) \in Nat
         /\ s = <<>> <=> Len(s) = 0
         /\ Len(SchemeText(s)) = IF s = <<>> THEN 0 ELSE Len(s) + 3
         /\ s # <<>> => /\ \A i \in 1 .. Len(s) : SchemeText(s)[i] = s[i]
                        /\ SchemeText(s)[Len(s) + 1] = ":"
                        /\ SchemeText(s)[Len(s) + 2] = "/"
                        /\ SchemeText(s)[Len(s) + 3] = "/"
<1>0. Len(s) \in Nat /\ (s = <<>> <=> Len(s) = 0)
  BY LenProperties, EmptySeq
<1>1. CASE s = <<>>
  BY <1>0, <1>1 DEF SchemeText
<1>2. CASE s # <<>>
  <2> DEFINE t == <<":", "/", "/">>
             y == s \o t
  <2>1. t \in Seq(Character) /\ Len(t) = 3 /\ t[1] = ":" /\ t[2] = "/" /\ t[3] = "/"
    BY DEF Character
  <2>2. SchemeText(s) = y
    BY <1>2 DEF SchemeText
  <2> HIDE DEF t
  <2>3. /\ y \in Seq(Character) /\ Len(y) = Len(s) + Len(t)
        /\ \A i \in 1 .. Len(s) : y[i] = s[i]
        /\ \A i \in 1 .. Len(t) : y[Len(s) + i] = t[i]
    BY <2>1, CatIs
  <2> HIDE DEF y
  <2>4. y[Len(s) + 1] = ":" /\ y[Len(s) + 2] = "/" /\ y[Len(s) + 3] = "/"
    BY <2>1, <2>3
  <2> QED
    BY <1>0, <1>2, <2>1, <2>2, <2>3, <2>4
<1> QED
  BY <1>1, <1>2

(* Five texts in a row, and where each of them ends.                       *)
Joined(x1, x2, x3, x4, x5) == x1 \o x2 \o x3 \o x4 \o x5

IsRow(w, x1, x2, x3, x4, x5, n1, n2, n3, n4, n5) ==
  /\ w \in Seq(Character) /\ Len(w) = n5
  /\ n1 \in Nat /\ n2 \in Nat /\ n3 \in Nat /\ n4 \in Nat /\ n5 \in Nat
  /\ n1 = Len(x1) /\ n2 = n1 + Len(x2) /\ n3 = n2 + Len(x3)
  /\ n4 = n3 + Len(x4) /\ n5 = n4 + Len(x5)
  /\ n1 <= n2 /\ n2 <= n3 /\ n3 <= n4 /\ n4 <= n5
  /\ \A i \in 1 .. Len(x1) : w[i] = x1[i]
  /\ \A i \in 1 .. Len(x2) : w[n1 + i] = x2[i]
  /\ \A i \in 1 .. Len(x3) : w[n2 + i] = x3[i]
  /\ \A i \in 1 .. Len(x4) : w[n3 + i] = x4[i]
  /\ \A i \in 1 .. Len(x5) : w[n4 + i] = x5[i]

(* Where each of the five is.                                              *)
LEMMA FivePieces ==
  ASSUME NEW x1 \in Seq(Character), NEW x2 \in Seq(Character), NEW x3 \in Seq(Character),
         NEW x4 \in Seq(Character), NEW x5 \in Seq(Character)
  PROVE  \E n1, n2, n3, n4, n5 :
           IsRow(Joined(x1, x2, x3, x4, x5), x1, x2, x3, x4, x5, n1, n2, n3, n4, n5)
<1> DEFINE w2 == x1 \o x2
           w3 == w2 \o x3
           w4 == w3 \o x4
           w  == w4 \o x5
           n1 == Len(x1)
           n2 == n1 + Len(x2)
           n3 == n2 + Len(x3)
           n4 == n3 + Len(x4)
           n5 == n4 + Len(x5)
<1>1. Len(x1) \in Nat /\ Len(x2) \in Nat /\ Len(x3) \in Nat /\ Len(x4) \in Nat /\ Len(x5) \in Nat
  BY LenProperties
<1>2. Joined(x1, x2, x3, x4, x5) = w
  BY DEF Joined
<1>3. /\ w2 \in Seq(Character) /\ Len(w2) = Len(x1) + Len(x2)
      /\ \A i \in 1 .. Len(x1) : w2[i] = x1[i]
      /\ \A i \in 1 .. Len(x2) : w2[Len(x1) + i] = x2[i]
  BY CatIs
<1> HIDE DEF w2
<1>4. /\ w3 \in Seq(Character) /\ Len(w3) = Len(w2) + Len(x3)
      /\ \A i \in 1 .. Len(w2) : w3[i] = w2[i]
      /\ \A i \in 1 .. Len(x3) : w3[Len(w2) + i] = x3[i]
  BY <1>3, CatIs
<1> HIDE DEF w3
<1>5. /\ w4 \in Seq(Character) /\ Len(w4) = Len(w3) + Len(x4)
      /\ \A i \in 1 .. Len(w3) : w4[i] = w3[i]
      /\ \A i \in 1 .. Len(x4) : w4[Len(w3) + i] = x4[i]
  BY <1>4, CatIs
<1> HIDE DEF w4
<1>6. /\ w \in Seq(Character) /\ Len(w) = Len(w4) + Len(x5)
      /\ \A i \in 1 .. Len(w4) : w[i] = w4[i]
      /\ \A i \in 1 .. Len(x5) : w[Len(w4) + i] = x5[i]
  BY <1>5, CatIs
<1> HIDE DEF w
<1>7. n1 = Len(x1) /\ n2 = n1 + Len(x2) /\ n3 = n2 + Len(x3)
      /\ n4 = n3 + Len(x4) /\ n5 = n4 + Len(x5)
  OBVIOUS
<1>8. Len(w2) = n2 /\ Len(w3) = n3 /\ Len(w4) = n4 /\ Len(w) = n5
  BY <1>3, <1>4, <1>5, <1>6
<1> HIDE DEF n1, n2, n3, n4, n5
<1>9. n1 \in Nat /\ n2 \in Nat /\ n3 \in Nat /\ n4 \in Nat /\ n5 \in Nat
      /\ n1 <= n2 /\ n2 <= n3 /\ n3 <= n4 /\ n4 <= n5
  BY <1>1, <1>7
<1>10. \A i \in 1 .. n3 : i \in 1 .. n4 /\ w[i] = w3[i]
  <2>1. \A i \in 1 .. n3 : i \in 1 .. n4
    BY <1>9
  <2> QED
    BY <1>5, <1>6, <1>8, <2>1
<1>11. \A i \in 1 .. n2 : i \in 1 .. n3 /\ w[i] = w2[i]
  <2>1. \A i \in 1 .. n2 : i \in 1 .. n3
    BY <1>9
  <2> QED
    BY <1>4, <1>8, <1>10, <2>1
<1>12. \A i \in 1 .. Len(x1) : w[i] = x1[i]
  <2>1. \A i \in 1 .. Len(x1) : i \in 1 .. n2
    BY <1>1, <1>9, <1>7
  <2> QED
    BY <1>3, <1>11, <2>1
<1>13. \A i \in 1 .. Len(x2) : w[n1 + i] = x2[i]
  <2>1. \A i \in 1 .. Len(x2) : n1 + i \in 1 .. n2
    BY <1>1, <1>9, <1>7
  <2> QED
    BY <1>3, <1>11, <1>7, <2>1
<1>14. \A i \in 1 .. Len(x3) : w[n2 + i] = x3[i]
  <2>1. \A i \in 1 .. Len(x3) : n2 + i \in 1 .. n3
    BY <1>1, <1>9, <1>7
  <2> QED
    BY <1>4, <1>8, <1>10, <2>1
<1>15. \A i \in 1 .. Len(x4) : w[n3 + i] = x4[i]
  <2>1. \A i \in 1 .. Len(x4) : n3 + i \in 1 .. n4
    BY <1>1, <1>9, <1>7
  <2> QED
    BY <1>5, <1>6, <1>8, <2>1
<1>16. \A i \in 1 .. Len(x5) : w[n4 + i] = x5[i]
  BY <1>6, <1>8
<1>17. IsRow(w, x1, x2, x3, x4, x5, n1, n2, n3, n4, n5)
  BY <1>6, <1>8, <1>12, <1>13, <1>14, <1>15, <1>16, <1>9, <1>7 DEF IsRow
<1> QED
  BY <1>17, <1>2

(* Parts that a text can be put together from.                             *)
Fit(S, A, P, Q, F) ==
  /\ S \in Seq(Character) /\ A \in Seq(Character) /\ P \in Seq(Character)
  /\ Q \in Seq(Character) /\ F \in Seq(Character)
  /\ \A i \in 1 .. Len(S) : S[i] \notin {"/", "?", "#"}
  /\ ToLower(S) = S
  /\ \A i \in 1 .. Len(A) : A[i] \notin {"/", "?", "#"}
  /\ S \in NoAuthority => A = <<>>
  /\ S \notin NoAuthority => P = <<>> \/ P[1] = "/"
  /\ S = <<>> => \A i : ~SchemeEnds(P, i)
  /\ \A i \in 1 .. Len(P) : P[i] \notin {"?", "#"}
  /\ \A i \in 1 .. Len(Q) : Q[i] # "#"

(* They are found again.                                                   *)
LEMMA PutTogether ==
  ASSUME NEW S, NEW A, NEW P, NEW Q, NEW F, Fit(S, A, P, Q, F),
         NEW w, w = Joined(SchemeText(S), A, P, Marked("?", Q), Marked("#", F))
  PROVE  /\ w \in Seq(Character)
         /\ SchemeOf(w) = S /\ AuthOf(w) = A /\ PathOf(w) = P
         /\ QueryOf(w) = Q /\ FragmentOf(w) = F
<1> DEFINE X  == SchemeText(S)
           Y  == Marked("?", Q)
           Z  == Marked("#", F)
<1>1. /\ S \in Seq(Character) /\ A \in Seq(Character) /\ P \in Seq(Character)
      /\ Q \in Seq(Character) /\ F \in Seq(Character) /\ "?" \in Character /\ "#" \in Character
  BY DEF Fit, Character
<1>2. /\ \A i \in 1 .. Len(S) : S[i] \notin {"/", "?", "#"}
      /\ ToLower(S) = S
      /\ \A i \in 1 .. Len(A) : A[i] \notin {"/", "?", "#"}
      /\ S \in NoAuthority => A = <<>>
      /\ S \notin NoAuthority => P = <<>> \/ P[1] = "/"
      /\ S = <<>> => \A i : ~SchemeEnds(P, i)
      /\ \A i \in 1 .. Len(P) : P[i] \notin {"?", "#"}
      /\ \A i \in 1 .. Len(Q) : Q[i] # "#"
  BY DEF Fit
<1>3. /\ X \in Seq(Character) /\ Len(S) \in Nat /\ (S = <<>> <=> Len(S) = 0)
      /\ Len(X) = (IF S = <<>> THEN 0 ELSE Len(S) + 3)
      /\ S # <<>> => /\ \A i \in 1 .. Len(S) : X[i] = S[i]
                     /\ X[Len(S) + 1] = ":" /\ X[Len(S) + 2] = "/" /\ X[Len(S) + 3] = "/"
  BY <1>1, SchemeTextIs
<1>4. /\ Y \in Seq(Character) /\ Len(Q) \in Nat /\ (Q = <<>> <=> Len(Q) = 0)
      /\ Len(Y) = (IF Q = <<>> THEN 0 ELSE Len(Q) + 1)
      /\ Q # <<>> => Y[1] = "?" /\ \A i \in 1 .. Len(Q) : Y[1 + i] = Q[i]
  BY <1>1, MarkedIs
<1>5. /\ Z \in Seq(Character) /\ Len(F) \in Nat /\ (F = <<>> <=> Len(F) = 0)
      /\ Len(Z) = (IF F = <<>> THEN 0 ELSE Len(F) + 1)
      /\ F # <<>> => Z[1] = "#" /\ \A i \in 1 .. Len(F) : Z[1 + i] = F[i]
  BY <1>1, MarkedIs
<1>6. /\ Len(A) \in Nat /\ (A = <<>> <=> Len(A) = 0)
      /\ Len(P) \in Nat /\ (P = <<>> <=> Len(P) = 0)
  BY <1>1, LenProperties, EmptySeq
<1> HIDE DEF X, Y, Z
<1>7. PICK n1, n2, n3, n4, n5 : IsRow(w, X, A, P, Y, Z, n1, n2, n3, n4, n5)
  <2>1. w = Joined(X, A, P, Y, Z)
    BY DEF X, Y, Z
  <2> QED
    BY <1>1, <1>3, <1>4, <1>5, <2>1, FivePieces
<1>8. /\ w \in Seq(Character) /\ Len(w) = n5
      /\ n1 \in Nat /\ n2 \in Nat /\ n3 \in Nat /\ n4 \in Nat /\ n5 \in Nat
      /\ \A i \in 1 .. Len(X) : w[i] = X[i]
      /\ \A i \in 1 .. Len(A) : w[n1 + i] = A[i]
      /\ \A i \in 1 .. Len(P) : w[n2 + i] = P[i]
      /\ \A i \in 1 .. Len(Y) : w[n3 + i] = Y[i]
      /\ \A i \in 1 .. Len(Z) : w[n4 + i] = Z[i]
  BY <1>7 DEF IsRow
<1>9. n1 <= n2 /\ n2 <= n3 /\ n3 <= n4 /\ n4 <= n5
      /\ n2 = n1 + Len(A) /\ n3 = n2 + Len(P) /\ n4 = n3 + Len(Y) /\ n5 = n4 + Len(Z)
  BY <1>7 DEF IsRow
<1>10. Len(X) = n1
  BY <1>7 DEF IsRow
(* What stands behind the query and the path, if anything does.            *)
<1>11. n4 + 1 <= n5 => w[n4 + 1] = "#"
  <2> SUFFICES ASSUME n4 + 1 <= n5 PROVE w[n4 + 1] = "#"
    OBVIOUS
  <2>1. F # <<>> /\ 1 \in 1 .. Len(Z)
    BY <1>5, <1>8, <1>9
  <2> QED
    BY <1>5, <1>8, <2>1
<1>12. n3 + 1 <= n5 => w[n3 + 1] \in {"?", "#"}
  <2> SUFFICES ASSUME n3 + 1 <= n5 PROVE w[n3 + 1] \in {"?", "#"}
    OBVIOUS
  <2>1. CASE Q = <<>>
    <3>1. n4 = n3
      BY <1>4, <1>8, <1>9, <2>1
    <3> QED
      BY <1>11, <3>1
  <2>2. CASE Q # <<>>
    <3>1. 1 \in 1 .. Len(Y)
      BY <1>4, <2>2
    <3> QED
      BY <1>4, <1>8, <2>2, <3>1
  <2> QED
    BY <2>1, <2>2
(* The scheme.                                                             *)
<1>13. SchemeEnd(w) = IF S = <<>> THEN 0 ELSE Len(S) + 1
  <2>1. CASE S # <<>>
    <3> DEFINE e == Len(S) + 1
    <3>1. e \in 2 .. n5 - 2 /\ e \in 1 .. n1 /\ e + 1 \in 1 .. n1 /\ e + 2 \in 1 .. n1
          /\ e + 1 = Len(S) + 2 /\ e + 2 = Len(S) + 3
      BY <1>3, <1>8, <1>9, <1>10, <2>1
    <3>2. w[e] = ":" /\ w[e + 1] = "/" /\ w[e + 2] = "/"
      BY <1>3, <1>8, <1>10, <2>1, <3>1
    <3>3. \A j \in 1 .. e - 1 : j \in 1 .. Len(S) /\ j \in 1 .. n1
      BY <1>3, <1>10, <2>1
    <3>4. \A j \in 1 .. e - 1 : w[j] \notin {"/", "?", "#"}
      BY <1>2, <1>3, <1>8, <1>10, <2>1, <3>3
    <3> HIDE DEF e
    <3>5. SchemeEnds(w, e)
      BY <1>8, <3>1, <3>2, <3>4 DEF SchemeEnds
    <3>6. SchemeEnd(w) = e
      BY <1>8, <3>5, SchemeEndFacts
    <3> QED
      BY <2>1, <3>6 DEF e
  <2>2. CASE S = <<>>
    <3>1. n1 = 0 /\ n2 = 0 /\ n3 = Len(P)
      <4>1. n1 = 0 /\ A = <<>>
        BY <1>2, <1>3, <1>10, <2>2 DEF NoAuthority
      <4> QED
        BY <1>6, <1>9, <4>1
    <3>2. \A j \in 1 .. Len(P) : w[j] = P[j]
      <4>1. \A j \in 1 .. Len(P) : n2 + j = j
        BY <1>6, <3>1
      <4> QED
        BY <1>8, <4>1
    <3>3. ASSUME NEW i, SchemeEnds(w, i) PROVE FALSE
      <4>1. /\ i \in 2 .. n5 - 2 /\ w[i] = ":" /\ w[i + 1] = "/" /\ w[i + 2] = "/"
            /\ \A j \in 1 .. i - 1 : w[j] \notin {"/", "?", "#"}
        BY <1>8, <3>3 DEF SchemeEnds
      <4>2. CASE i + 2 <= Len(P)
        <5>1. i \in 2 .. Len(P) - 2 /\ i \in 1 .. Len(P) /\ i + 1 \in 1 .. Len(P)
              /\ i + 2 \in 1 .. Len(P) /\ \A j \in 1 .. i - 1 : j \in 1 .. Len(P)
          BY <1>6, <1>8, <4>1, <4>2
        <5>2. SchemeEnds(P, i)
          BY <3>2, <4>1, <5>1 DEF SchemeEnds
        <5> QED
          BY <1>2, <2>2, <5>2
      <4>3. CASE ~(i + 2 <= Len(P))
        <5> DEFINE q == n3 + 1
        <5>1. q <= n5 /\ (q \in 1 .. i - 1 \/ q = i \/ q = i + 1 \/ q = i + 2)
          BY <1>6, <1>8, <3>1, <4>1, <4>3
        <5>2. w[q] \in {"?", "#"}
          BY <1>12, <5>1
        <5> HIDE DEF q
        <5> QED
          BY <4>1, <5>1, <5>2
      <4> QED
        BY <1>6, <1>8, <4>1, <4>2, <4>3
    <3>4. SchemeEnd(w) = 0
      BY <1>8, <3>3, SchemeEndFacts
    <3> QED
      BY <2>2, <3>4
  <2> QED
    BY <2>1, <2>2
<1>14. RestPos(w) = n1 + 1
  BY <1>3, <1>10, <1>13 DEF RestPos
<1>15. SchemeOf(w) = S
  <2>1. CASE S = <<>>
    <3>1. SubSeq(w, 1, 0 - 1) = <<>>
      BY SubSeqEmpty
    <3> QED
      BY <1>2, <1>13, <2>1, <3>1 DEF SchemeOf
  <2>2. CASE S # <<>>
    <3>1. 0 \in Nat /\ 0 + Len(S) <= Len(w) /\ 0 + 1 = 1 /\ 0 + Len(S) = (Len(S) + 1) - 1
          /\ \A i \in 1 .. Len(S) : 0 + i = i /\ i \in 1 .. n1
      BY <1>3, <1>8, <1>9, <1>10, <2>2
    <3>2. \A i \in 1 .. Len(S) : w[0 + i] = S[i]
      BY <1>3, <1>8, <1>10, <2>2, <3>1
    <3>3. SubSeq(w, 0 + 1, 0 + Len(S)) = S
      <4> DEFINE z == 0
      <4>1. z \in Nat /\ z + Len(S) <= Len(w) /\ \A i \in 1 .. Len(S) : w[z + i] = S[i]
        BY <3>1, <3>2
      <4> HIDE DEF z
      <4>2. SubSeq(w, z + 1, z + Len(S)) = S
        BY <1>1, <1>8, <4>1, PieceIs
      <4> QED
        BY <4>2 DEF z
    <3>4. SchemeOf(w) = ToLower(SubSeq(w, 1, (Len(S) + 1) - 1))
      BY <1>13, <2>2 DEF SchemeOf
    <3> QED
      BY <1>2, <3>1, <3>3, <3>4
  <2> QED
    BY <2>1, <2>2
(* The positions of the other parts.                                       *)
<1>16. PathPos(w) = n2 + 1
  <2>1. CASE S \in NoAuthority
    <3>1. n2 = n1
      BY <1>2, <1>6, <1>8, <1>9, <2>1
    <3> QED
      BY <1>14, <1>15, <2>1, <3>1 DEF PathPos
  <2>2. CASE S \notin NoAuthority
    <3> DEFINE k == n1 + 1
               p == n2 + 1
               chars == {"/", "?", "#"}
    <3>1. PathPos(w) = Stop(w, chars, k)
      BY <1>14, <1>15, <2>2 DEF PathPos
    <3>2. k \in 1 .. Len(w) + 1 /\ p \in k .. Len(w) + 1
      <4>1. /\ Len(w) = n5
            /\ n1 \in Nat /\ n2 \in Nat /\ n3 \in Nat /\ n4 \in Nat /\ n5 \in Nat
        BY <1>8, Zenon
      <4>2. n1 <= n2 /\ n2 <= n3 /\ n3 <= n4 /\ n4 <= n5
        BY <1>9, Zenon
      <4> QED
        BY <4>1, <4>2
    <3>3. p <= Len(w) => w[p] \in chars
      <4> SUFFICES ASSUME p <= Len(w) PROVE w[p] \in chars
        OBVIOUS
      <4>1. CASE P = <<>>
        <5>1. n3 = n2
          BY <1>6, <1>8, <1>9, <4>1
        <5> QED
          BY <1>8, <1>12, <5>1
      <4>2. CASE P # <<>>
        <5>1. 1 \in 1 .. Len(P)
          BY <1>6, <4>2
        <5> QED
          BY <1>2, <1>8, <2>2, <4>2, <5>1
      <4> QED
        BY <4>1, <4>2
    <3>4. \A i \in k .. p - 1 : w[i] \notin chars
      <4> TAKE i \in k .. p - 1
      <4>1. i - n1 \in 1 .. Len(A) /\ n1 + (i - n1) = i
        BY <1>8, <1>9
      <4>2. w[i] = A[i - n1]
        BY <1>8, <4>1
      <4> QED
        BY <1>2, <4>1, <4>2
    <3> HIDE DEF k, p, chars
    <3>5. Stop(w, chars, k) = p
      BY <1>8, <3>2, <3>3, <3>4, StopIs
    <3> QED
      BY <3>1, <3>5 DEF p
  <2> QED
    BY <2>1, <2>2
<1>17. MarkPos(w) = n3 + 1
  <2> DEFINE k == n2 + 1
             p == n3 + 1
             chars == {"?", "#"}
  <2>1. MarkPos(w) = Stop(w, chars, k)
    BY <1>16 DEF MarkPos
  <2>2. k \in 1 .. Len(w) + 1 /\ p \in k .. Len(w) + 1
    BY <1>8, <1>9
  <2>3. p <= Len(w) => w[p] \in chars
    BY <1>8, <1>12
  <2>4. \A i \in k .. p - 1 : w[i] \notin chars
    <3> TAKE i \in k .. p - 1
    <3>1. i - n2 \in 1 .. Len(P) /\ n2 + (i - n2) = i
      BY <1>8, <1>9
    <3>2. w[i] = P[i - n2]
      BY <1>8, <3>1
    <3> QED
      BY <1>2, <3>1, <3>2
  <2> HIDE DEF k, p, chars
  <2>5. Stop(w, chars, k) = p
    BY <1>8, <2>2, <2>3, <2>4, StopIs
  <2> QED
    BY <2>1, <2>5 DEF p
<1>18. HashPos(w) = n4 + 1
  <2> DEFINE k == n3 + 1
             p == n4 + 1
             chars == {"#"}
  <2>1. HashPos(w) = Stop(w, chars, k)
    BY <1>17 DEF HashPos
  <2>2. k \in 1 .. Len(w) + 1 /\ p \in k .. Len(w) + 1
    BY <1>8, <1>9
  <2>3. p <= Len(w) => w[p] \in chars
    BY <1>8, <1>11
  <2>4. \A i \in k .. p - 1 : w[i] \notin chars
    <3> TAKE i \in k .. p - 1
    <3>1. i - n3 \in 1 .. Len(Y) /\ n3 + (i - n3) = i
      BY <1>8, <1>9
    <3>2. w[i] = Y[i - n3]
      BY <1>8, <3>1
    <3>3. Q # <<>> /\ Len(Y) = Len(Q) + 1
      BY <1>4, <3>1
    <3>4. CASE i - n3 = 1
      BY <1>4, <3>2, <3>3, <3>4
    <3>5. CASE i - n3 # 1
      <4>1. i - n3 - 1 \in 1 .. Len(Q) /\ 1 + (i - n3 - 1) = i - n3
        BY <1>4, <1>8, <3>1, <3>3, <3>5
      <4>2. Y[i - n3] = Q[i - n3 - 1]
        BY <1>4, <3>3, <4>1
      <4> QED
        BY <1>2, <3>2, <4>1, <4>2
    <3> QED
      BY <3>4, <3>5
  <2> HIDE DEF k, p, chars
  <2>5. Stop(w, chars, k) = p
    BY <1>8, <2>2, <2>3, <2>4, StopIs
  <2> QED
    BY <2>1, <2>5 DEF p
(* The parts between them.                                                 *)
<1>19. AuthOf(w) = A
  <2>1. n1 + Len(A) <= Len(w) /\ (n2 + 1) - 1 = n1 + Len(A)
    BY <1>6, <1>8, <1>9
  <2>2. SubSeq(w, n1 + 1, n1 + Len(A)) = A
    BY <1>1, <1>8, <2>1, PieceIs
  <2> QED
    BY <1>14, <1>16, <2>1, <2>2 DEF AuthOf
<1>20. PathOf(w) = P
  <2>1. n2 + Len(P) <= Len(w) /\ (n3 + 1) - 1 = n2 + Len(P)
    BY <1>6, <1>8, <1>9
  <2>2. SubSeq(w, n2 + 1, n2 + Len(P)) = P
    BY <1>1, <1>8, <2>1, PieceIs
  <2> QED
    BY <1>16, <1>17, <2>1, <2>2 DEF PathOf
<1>21. QueryOf(w) = Q
  <2>1. QueryOf(w) = SubSeq(w, (n3 + 1) + 1, (n4 + 1) - 1)
    BY <1>17, <1>18 DEF QueryOf
  <2>2. CASE Q = <<>>
    <3>1. (n3 + 1) + 1 \in Int /\ (n4 + 1) - 1 \in Int /\ (n4 + 1) - 1 < (n3 + 1) + 1
      BY <1>4, <1>8, <1>9, <2>2
    <3> QED
      BY <2>1, <2>2, <3>1, SubSeqEmpty
  <2>3. CASE Q # <<>>
    <3> DEFINE k == n3 + 1
    <3>1. k \in Nat /\ k + Len(Q) <= Len(w) /\ (n4 + 1) - 1 = k + Len(Q)
          /\ \A i \in 1 .. Len(Q) : k + i = n3 + (1 + i) /\ 1 + i \in 1 .. Len(Y)
      BY <1>4, <1>8, <1>9, <2>3
    <3>2. \A i \in 1 .. Len(Q) : w[k + i] = Q[i]
      <4> TAKE i \in 1 .. Len(Q)
      <4>1. k + i = n3 + (1 + i) /\ 1 + i \in 1 .. Len(Y)
        BY <3>1
      <4>2. w[n3 + (1 + i)] = Y[1 + i]
        BY <1>8, <4>1
      <4>3. Y[1 + i] = Q[i]
        BY <1>4, <2>3
      <4> QED
        BY <4>1, <4>2, <4>3
    <3> HIDE DEF k
    <3>3. SubSeq(w, k + 1, k + Len(Q)) = Q
      BY <1>1, <1>8, <3>1, <3>2, PieceIs
    <3> QED
      BY <2>1, <3>1, <3>3 DEF k
  <2> QED
    BY <2>2, <2>3
<1>22. FragmentOf(w) = F
  <2>1. FragmentOf(w) = SubSeq(w, (n4 + 1) + 1, n5)
    BY <1>8, <1>18 DEF FragmentOf
  <2>2. CASE F = <<>>
    <3>1. (n4 + 1) + 1 \in Int /\ n5 \in Int /\ n5 < (n4 + 1) + 1
      BY <1>5, <1>8, <1>9, <2>2
    <3> QED
      BY <2>1, <2>2, <3>1, SubSeqEmpty
  <2>3. CASE F # <<>>
    <3> DEFINE k == n4 + 1
    <3>1. k \in Nat /\ k + Len(F) <= Len(w) /\ n5 = k + Len(F)
          /\ \A i \in 1 .. Len(F) : k + i = n4 + (1 + i) /\ 1 + i \in 1 .. Len(Z)
      BY <1>5, <1>8, <1>9, <2>3
    <3>2. \A i \in 1 .. Len(F) : w[k + i] = F[i]
      <4> TAKE i \in 1 .. Len(F)
      <4>1. k + i = n4 + (1 + i) /\ 1 + i \in 1 .. Len(Z)
        BY <3>1
      <4>2. w[n4 + (1 + i)] = Z[1 + i]
        BY <1>8, <4>1
      <4>3. Z[1 + i] = F[i]
        BY <1>5, <2>3
      <4> QED
        BY <4>1, <4>2, <4>3
    <3> HIDE DEF k
    <3>3. SubSeq(w, k + 1, k + Len(F)) = F
      BY <1>1, <1>8, <3>1, <3>2, PieceIs
    <3> QED
      BY <2>1, <3>1, <3>3 DEF k
  <2> QED
    BY <2>2, <2>3
<1> QED
  BY <1>8, <1>15, <1>19, <1>20, <1>21, <1>22
-----------------------------------------------------------------------------
(* What is printed is parsed to the same URI.                              *)

UserText(u) == IF u = <<>> THEN <<>> ELSE u \o <<"@">>

PortText(port) == IF port = 0 THEN <<>> ELSE <<":">> \o ToDecimal[port]

AuthText(u, h, port) == UserText(u) \o h \o PortText(port)

(* The conversion to uint16_t changes no number of its range.              *)
LEMMA ModSmall ==
  ASSUME NEW k \in Nat, NEW m \in Nat \ {0}, k < m
  PROVE  k % m = k
<1> DEFINE q == k \div m
           r == k % m
<1>1. q \in Int /\ r \in 0 .. m - 1 /\ k = m * q + r
  OBVIOUS
<1> HIDE DEF q, r
<1>2. q = 0
  <2>1. q >= 1 => m * q >= m
    BY <1>1
  <2>2. q <= -1 => m * q <= -m
    BY <1>1
  <2> DEFINE x == m * q
  <2>3. x \in Int /\ k = x + r
    BY <1>1
  <2> HIDE DEF x
  <2>4. ~(q >= 1)
    BY <1>1, <2>1, <2>3 DEF x
  <2>5. ~(q <= -1)
    BY <1>1, <2>2, <2>3 DEF x
  <2> QED
    BY <1>1, <2>4, <2>5
<1>3. k = r
  BY <1>1, <1>2
<1> QED
  BY <1>3 DEF r

(* The user information as it is printed, character by character.          *)
LEMMA UserTextIs ==
  ASSUME NEW u \in Seq(Character)
  PROVE  /\ UserText(u) \in Seq(Character) /\ Len(u) \in Nat /\ (u = <<>> <=> Len(u) = 0)
         /\ Len(UserText(u)) = IF u = <<>> THEN 0 ELSE Len(u) + 1
         /\ u # <<>> => /\ \A i \in 1 .. Len(u) : UserText(u)[i] = u[i]
                        /\ UserText(u)[Len(u) + 1] = "@"
<1>0. Len(u) \in Nat /\ (u = <<>> <=> Len(u) = 0)
  BY LenProperties, EmptySeq
<1>1. CASE u = <<>>
  BY <1>0, <1>1 DEF UserText
<1>2. CASE u # <<>>
  <2> DEFINE s == <<"@">>
             y == u \o s
  <2>1. s \in Seq(Character) /\ Len(s) = 1 /\ s[1] = "@"
    BY DEF Character
  <2>2. UserText(u) = y
    BY <1>2 DEF UserText
  <2> HIDE DEF s
  <2>3. /\ y \in Seq(Character) /\ Len(y) = Len(u) + Len(s)
        /\ \A i \in 1 .. Len(u) : y[i] = u[i]
        /\ \A i \in 1 .. Len(s) : y[Len(u) + i] = s[i]
    BY <2>1, CatIs
  <2> HIDE DEF y
  <2>4. y[Len(u) + 1] = "@"
    BY <2>1, <2>3
  <2> QED
    BY <1>0, <1>2, <2>1, <2>2, <2>3, <2>4
<1> QED
  BY <1>1, <1>2

(* The port as it is printed: a number behind a colon, and none of the     *)
(* characters that end another part.                                       *)
LEMMA PortTextIs ==
  ASSUME NEW port \in Nat
  PROVE  /\ PortText(port) \in Seq(Character)
         /\ ToDecimal[port] \in Seq(Character) /\ Len(ToDecimal[port]) \in Nat \ {0}
         /\ IsNumber(ToDecimal[port])
         /\ port <= LongMax => Strtol(ToDecimal[port]) = port
         /\ Len(PortText(port)) = IF port = 0 THEN 0 ELSE Len(ToDecimal[port]) + 1
         /\ \A i \in 1 .. Len(PortText(port)) : PortText(port)[i] \notin {"@", "/", "?", "#"}
         /\ port # 0 => /\ PortText(port)[1] = ":"
                        /\ \A i \in 1 .. Len(ToDecimal[port]) :
                             PortText(port)[1 + i] = ToDecimal[port][i]
<1> DEFINE x == ToDecimal[port]
           y == PortText(port)
<1>1. /\ x \in Seq(Character) /\ (\A i \in 1 .. Len(x) : x[i] \in ToSet(DecDigits))
      /\ Len(x) \in Nat \ {0} /\ IsNumber(x) /\ (port <= LongMax => Strtol(x) = port)
  BY PrintedPort
<1>2. y = IF port = 0 THEN <<>> ELSE <<":">> \o x
  BY DEF PortText
<1> HIDE DEF x, y
<1>3. x # <<>>
  BY <1>1
<1>4. CASE port = 0
  <2>1. y = <<>> /\ Len(y) = 0 /\ y \in Seq(Character)
    BY <1>2, <1>4
  <2>2. \A i \in 1 .. Len(y) : y[i] \notin {"@", "/", "?", "#"}
    BY <2>1
  <2>3. Len(y) = IF port = 0 THEN 0 ELSE Len(x) + 1
    BY <1>4, <2>1
  <2> QED
    BY <1>1, <1>4, <2>1, <2>2, <2>3 DEF x, y
<1>5. CASE port # 0
  <2>1. y = Marked(":", x)
    BY <1>2, <1>3, <1>5 DEF Marked
  <2>2. ":" \in Character
    BY DEF Character
  <2>3. /\ y \in Seq(Character) /\ Len(y) = Len(x) + 1
        /\ y[1] = ":" /\ \A i \in 1 .. Len(x) : y[1 + i] = x[i]
    <3>1. x \in Seq(Character)
      BY <1>1
    <3> DEFINE z == Marked(":", x)
    <3>2. /\ z \in Seq(Character) /\ Len(z) = (IF x = <<>> THEN 0 ELSE Len(x) + 1)
          /\ x # <<>> => z[1] = ":" /\ \A i \in 1 .. Len(x) : z[1 + i] = x[i]
      BY <2>2, <3>1, MarkedIs
    <3>3. y = z
      BY <2>1
    <3> HIDE DEF z
    <3> QED
      BY <1>3, <3>2, <3>3
  <2>4. ASSUME NEW i \in 1 .. Len(y) PROVE y[i] \notin {"@", "/", "?", "#"}
    <3>1. CASE i = 1
      BY <2>3, <3>1
    <3>2. CASE i # 1
      <4>1. i - 1 \in 1 .. Len(x) /\ 1 + (i - 1) = i
        BY <1>1, <2>3, <3>2
      <4>2. y[i] \in ToSet(DecDigits)
        BY <1>1, <2>3, <4>1
      <4> QED
        BY <4>2, Digits
    <3> QED
      BY <3>1, <3>2
  <2> QED
    BY <1>1, <1>5, <2>3, <2>4 DEF x, y
<1> QED
  BY <1>4, <1>5

(* Three texts in a row.                                                   *)
Row3(w, x1, x2, x3, n1, n2, n3) ==
  /\ w \in Seq(Character) /\ Len(w) = n3
  /\ n1 \in Nat /\ n2 \in Nat /\ n3 \in Nat
  /\ n1 = Len(x1) /\ n2 = n1 + Len(x2) /\ n3 = n2 + Len(x3)
  /\ n1 <= n2 /\ n2 <= n3
  /\ \A i \in 1 .. Len(x1) : w[i] = x1[i]
  /\ \A i \in 1 .. Len(x2) : w[n1 + i] = x2[i]
  /\ \A i \in 1 .. Len(x3) : w[n2 + i] = x3[i]

(* Where each of the three is.                                             *)
LEMMA ThreePieces ==
  ASSUME NEW x1 \in Seq(Character), NEW x2 \in Seq(Character), NEW x3 \in Seq(Character)
  PROVE  \E n1, n2, n3 : Row3(x1 \o x2 \o x3, x1, x2, x3, n1, n2, n3)
<1> DEFINE w2 == x1 \o x2
           w  == w2 \o x3
           n1 == Len(x1)
           n2 == n1 + Len(x2)
           n3 == n2 + Len(x3)
<1>0. Len(x1) \in Nat /\ Len(x2) \in Nat /\ Len(x3) \in Nat
  BY LenProperties
<1>1. /\ w2 \in Seq(Character) /\ Len(w2) = Len(x1) + Len(x2)
      /\ \A i \in 1 .. Len(x1) : w2[i] = x1[i]
      /\ \A i \in 1 .. Len(x2) : w2[Len(x1) + i] = x2[i]
  BY CatIs
<1>2. w = x1 \o x2 \o x3
  OBVIOUS
<1> HIDE DEF w2
<1>3. /\ w \in Seq(Character) /\ Len(w) = Len(w2) + Len(x3)
      /\ \A i \in 1 .. Len(w2) : w[i] = w2[i]
      /\ \A i \in 1 .. Len(x3) : w[Len(w2) + i] = x3[i]
  BY <1>1, CatIs
<1> HIDE DEF w
<1>4. n1 = Len(x1) /\ n2 = n1 + Len(x2) /\ n3 = n2 + Len(x3)
  OBVIOUS
<1>5. Len(w2) = n2 /\ Len(w) = n3
  BY <1>1, <1>3
<1> HIDE DEF n1, n2, n3
<1>6. n1 \in Nat /\ n2 \in Nat /\ n3 \in Nat /\ n1 <= n2 /\ n2 <= n3
  BY <1>0, <1>4
<1>7. \A i \in 1 .. Len(x1) : w[i] = x1[i]
  <2>1. \A i \in 1 .. Len(x1) : i \in 1 .. n2
    BY <1>0, <1>4, <1>6
  <2> QED
    BY <1>1, <1>3, <1>5, <2>1
<1>8. \A i \in 1 .. Len(x2) : w[n1 + i] = x2[i]
  <2>1. \A i \in 1 .. Len(x2) : n1 + i \in 1 .. n2
    BY <1>0, <1>4, <1>6
  <2> QED
    BY <1>1, <1>3, <1>4, <1>5, <2>1
<1>9. \A i \in 1 .. Len(x3) : w[n2 + i] = x3[i]
  BY <1>3, <1>5
<1>10. Row3(w, x1, x2, x3, n1, n2, n3)
  BY <1>3, <1>4, <1>5, <1>6, <1>7, <1>8, <1>9 DEF Row3
<1> QED
  BY <1>2, <1>10

(* The parts of an authority are found again.                              *)
LEMMA AuthorityTogether ==
  ASSUME NEW U \in Seq(Character), NEW H \in Seq(Character), NEW port \in Nat,
         port < 2^PortBits, H # <<>>,
         \A i \in 1 .. Len(U) : U[i] # "@",
         \A i \in 1 .. Len(H) : H[i] # ":",
         U = <<>> => \A i \in 1 .. Len(H) : H[i] # "@",
         NEW A, A = AuthText(U, H, port)
  PROVE  /\ A \in Seq(Character) /\ A # <<>>
         /\ ErrorIn(A) = "none" /\ UserIn(A) = U /\ HostIn(A) = H /\ PortIn(A) = port
         /\ (/\ \A i \in 1 .. Len(U) : U[i] \notin {"/", "?", "#"}
             /\ \A i \in 1 .. Len(H) : H[i] \notin {"/", "?", "#"})
            => \A i \in 1 .. Len(A) : A[i] \notin {"/", "?", "#"}
<1> DEFINE X == UserText(U)
           Y == PortText(port)
           D == ToDecimal[port]
<1>1. /\ X \in Seq(Character) /\ Len(U) \in Nat /\ (U = <<>> <=> Len(U) = 0)
      /\ Len(X) = (IF U = <<>> THEN 0 ELSE Len(U) + 1)
      /\ U # <<>> => (\A i \in 1 .. Len(U) : X[i] = U[i]) /\ X[Len(U) + 1] = "@"
  BY UserTextIs
<1>2. /\ Y \in Seq(Character) /\ D \in Seq(Character) /\ Len(D) \in Nat \ {0}
      /\ IsNumber(D) /\ (port <= LongMax => Strtol(D) = port)
      /\ Len(Y) = (IF port = 0 THEN 0 ELSE Len(D) + 1)
      /\ \A i \in 1 .. Len(Y) : Y[i] \notin {"@", "/", "?", "#"}
      /\ port # 0 => Y[1] = ":" /\ \A i \in 1 .. Len(D) : Y[1 + i] = D[i]
  BY PortTextIs
<1>3. Len(H) \in Nat \ {0}
  BY LenProperties, EmptySeq
<1> HIDE DEF X, Y, D
<1>4. PICK n1, n2, n3 : Row3(A, X, H, Y, n1, n2, n3)
  <2>1. A = X \o H \o Y
    BY DEF AuthText, X, Y
  <2>2. \E n1, n2, n3 : Row3(X \o H \o Y, X, H, Y, n1, n2, n3)
    BY <1>1, <1>2, ThreePieces
  <2> QED
    BY <2>1, <2>2
<1>5. /\ A \in Seq(Character) /\ Len(A) = n3
      /\ n1 \in Nat /\ n2 \in Nat /\ n3 \in Nat
      /\ n1 = Len(X) /\ n2 = n1 + Len(H) /\ n3 = n2 + Len(Y)
      /\ n1 <= n2 /\ n2 <= n3
  BY <1>4 DEF Row3
<1>6. /\ \A i \in 1 .. Len(X) : A[i] = X[i]
      /\ \A i \in 1 .. Len(H) : A[n1 + i] = H[i]
      /\ \A i \in 1 .. Len(Y) : A[n2 + i] = Y[i]
  BY <1>4 DEF Row3
<1>7. A # <<>>
  <2>1. n3 # 0
    BY <1>3, <1>5
  <2> QED
    BY <1>5, <2>1, EmptySeq
<1>8. \A i \in 1 .. n3 : \/ i \in 1 .. Len(X)
                         \/ i - n1 \in 1 .. Len(H) /\ n1 + (i - n1) = i
                         \/ i - n2 \in 1 .. Len(Y) /\ n2 + (i - n2) = i
  BY <1>3, <1>5
<1>9. \A i \in 1 .. n3 : \/ i \in 1 .. Len(X) /\ A[i] = X[i]
                         \/ i - n1 \in 1 .. Len(H) /\ A[i] = H[i - n1]
                         \/ i - n2 \in 1 .. Len(Y) /\ A[i] = Y[i - n2]
  <2> TAKE i \in 1 .. n3
  <2> QED
    BY <1>6, <1>8
<1>10. HostPos(A) = n1 + 1
  <2> DEFINE f == FindFirstOf(A, {"@"}, 1)
  <2>1. HostPos(A) = f + 1
    BY DEF HostPos
  <2>2. f = n1
    <3>1. CASE U = <<>>
      <4>1. n1 = 0 /\ Len(X) = 0
        BY <1>1, <1>5, <3>1
      <4>2. ASSUME NEW i \in 1 .. n3 PROVE A[i] # "@"
        <5>1. i \notin 1 .. Len(X)
          BY <4>1
        <5>2. \/ i - n1 \in 1 .. Len(H) /\ A[i] = H[i - n1]
              \/ i - n2 \in 1 .. Len(Y) /\ A[i] = Y[i - n2]
          BY <1>9, <5>1
        <5> QED
          BY <1>2, <3>1, <5>2
      <4>3. f = 0 \/ (f \in 1 .. Len(A) /\ A[f] \in {"@"})
        <5>1. A \in Seq(Character) /\ 1 \in Nat \ {0}
          BY <1>5
        <5> QED
          BY <5>1, FirstOf
      <4> HIDE DEF f
      <4> QED
        BY <1>5, <4>1, <4>2, <4>3
    <3>2. CASE U # <<>>
      <4>1. n1 = Len(U) + 1 /\ n1 \in 1 .. Len(A) + 1 /\ n1 <= Len(A) /\ 1 \in 1 .. Len(A) + 1
            /\ n1 \in 1 .. Len(X)
        BY <1>1, <1>5, <3>2
      <4>2. A[n1] \in {"@"}
        BY <1>1, <1>6, <3>2, <4>1
      <4>3. \A i \in 1 .. n1 - 1 : A[i] \notin {"@"}
        <5> TAKE i \in 1 .. n1 - 1
        <5>1. i \in 1 .. Len(U) /\ i \in 1 .. Len(X)
          BY <1>1, <1>5, <4>1
        <5>2. A[i] = U[i]
          BY <1>1, <1>6, <3>2, <5>1
        <5> QED
          BY <5>1, <5>2
      <4>4. Stop(A, {"@"}, 1) = n1
        BY <1>5, <4>1, <4>2, <4>3, StopIs
      <4>5. A \in Seq(Character) /\ 1 \in 1 .. Len(A) + 1
        BY <1>5, <4>1
      <4>6. f = (IF Stop(A, {"@"}, 1) <= Len(A) THEN Stop(A, {"@"}, 1) ELSE 0)
        BY <4>5, StopFacts
      <4> HIDE DEF f
      <4> QED
        BY <4>1, <4>4, <4>6
    <3> QED
      BY <3>1, <3>2
  <2> QED
    BY <2>1, <2>2
<1>11. HostEnd(A) = n2 + 1
  <2> DEFINE k == n1 + 1
             p == n2 + 1
  <2>1. HostEnd(A) = Stop(A, {":"}, k)
    BY <1>10 DEF HostEnd
  <2>2. k \in 1 .. Len(A) + 1 /\ p \in k .. Len(A) + 1
    BY <1>5
  <2>3. p <= Len(A) => A[p] \in {":"}
    <3> SUFFICES ASSUME p <= Len(A) PROVE A[p] \in {":"}
      OBVIOUS
    <3>1. Len(Y) # 0 /\ Len(Y) \in Nat
      BY <1>2, <1>5, LenProperties
    <3>2. port # 0 /\ 1 \in 1 .. Len(Y)
      BY <1>2, <3>1
    <3> QED
      BY <1>2, <1>6, <3>2
  <2>4. \A i \in k .. p - 1 : A[i] \notin {":"}
    <3> TAKE i \in k .. p - 1
    <3>1. i - n1 \in 1 .. Len(H) /\ n1 + (i - n1) = i
      BY <1>3, <1>5
    <3>2. A[i] = H[i - n1]
      BY <1>6, <3>1
    <3> QED
      BY <3>1, <3>2
  <2> HIDE DEF k, p
  <2>5. Stop(A, {":"}, k) = p
    BY <1>5, <2>2, <2>3, <2>4, StopIs
  <2> QED
    BY <2>1, <2>5 DEF p
<1>12. HostOf(A) = H
  <2>1. n1 + Len(H) <= Len(A) /\ (n2 + 1) - 1 = n1 + Len(H)
    BY <1>3, <1>5
  <2>2. SubSeq(A, n1 + 1, n1 + Len(H)) = H
    BY <1>5, <1>6, <2>1, PieceIs
  <2>3. HostOf(A) = SubSeq(A, HostPos(A), HostEnd(A) - 1)
    BY <1>5, AuthorityPositions
  <2> QED
    BY <1>10, <1>11, <2>1, <2>2, <2>3
<1>13. UserIn(A) = U
  <2>1. UserIn(A) = SubSeq(A, 1, (n1 + 1) - 2)
    BY <1>7, <1>10 DEF UserIn
  <2>2. CASE U = <<>>
    <3>1. (n1 + 1) - 2 \in Int /\ (n1 + 1) - 2 < 1
      BY <1>1, <1>5, <2>2
    <3> QED
      BY <2>1, <2>2, <3>1, SubSeqEmpty
  <2>3. CASE U # <<>>
    <3> DEFINE z == 0
    <3>1. z \in Nat /\ z + Len(U) <= Len(A) /\ z + 1 = 1 /\ (n1 + 1) - 2 = z + Len(U)
          /\ \A i \in 1 .. Len(U) : z + i = i /\ i \in 1 .. Len(X)
      BY <1>1, <1>3, <1>5, <2>3
    <3> HIDE DEF z
    <3>2. \A i \in 1 .. Len(U) : A[z + i] = U[i]
      BY <1>1, <1>6, <2>3, <3>1
    <3>3. SubSeq(A, z + 1, z + Len(U)) = U
      BY <1>5, <3>1, <3>2, PieceIs
    <3> QED
      BY <2>1, <3>1, <3>3
  <2> QED
    BY <2>2, <2>3
<1>14. ColonPos(A) = IF n2 + 1 <= n3 THEN n2 + 1 ELSE 0
  BY <1>5, <1>11, AuthorityPositions
<1>15. ~BadPort(A) /\ PortIn(A) = port
  <2>1. CASE port = 0
    <3>1. ColonPos(A) = 0
      BY <1>2, <1>5, <1>14, <2>1
    <3> QED
      BY <2>1, <3>1 DEF BadPort, PortIn
  <2>2. CASE port # 0
    <3> DEFINE k == n2 + 1
    <3>1. ColonPos(A) = k /\ k # 0 /\ k \in Nat /\ k + Len(D) <= Len(A) /\ Len(A) = k + Len(D)
          /\ \A i \in 1 .. Len(D) : k + i = n2 + (1 + i) /\ 1 + i \in 1 .. Len(Y)
      BY <1>2, <1>5, <1>14, <2>2
    <3>2. \A i \in 1 .. Len(D) : A[k + i] = D[i]
      <4> TAKE i \in 1 .. Len(D)
      <4>1. k + i = n2 + (1 + i) /\ 1 + i \in 1 .. Len(Y)
        BY <3>1
      <4>2. A[n2 + (1 + i)] = Y[1 + i]
        BY <1>6, <4>1
      <4>3. Y[1 + i] = D[i]
        BY <1>2, <2>2
      <4> QED
        BY <4>1, <4>2, <4>3
    <3> HIDE DEF k
    <3>3. SubSeq(A, k + 1, k + Len(D)) = D
      BY <1>2, <1>5, <3>1, <3>2, PieceIs
    <3>4. From(A, k + 1) = D
      BY <3>1, <3>3 DEF From
    <3>5. ~BadPort(A)
      BY <1>2, <3>1, <3>4 DEF BadPort
    <3>6. PortIn(A) = ToPort(D)
      BY <1>7, <3>1, <3>4 DEF PortIn
    <3> DEFINE m == 2^PortBits
    <3>7. m \in Nat \ {0} /\ port < m /\ m - 1 <= LongMax /\ LongMax \in Nat
      BY PortAssumption, LongAssumption
    <3>8. ToPort(D) = port % m
      <4>1. port <= LongMax
        <5> HIDE DEF m
        <5> QED
          BY <3>7
      <4> QED
        BY <1>2, <4>1 DEF ToPort
    <3> HIDE DEF m
    <3>9. port % m = port
      BY <3>7, ModSmall
    <3> QED
      BY <3>5, <3>6, <3>8, <3>9 DEF m
  <2> QED
    BY <2>1, <2>2
<1>16. ErrorIn(A) = "none" /\ HostIn(A) = H
  BY <1>7, <1>12, <1>15 DEF ErrorIn, AuthorityError, HostIn
<1>17. ASSUME \A i \in 1 .. Len(U) : U[i] \notin {"/", "?", "#"},
              \A i \in 1 .. Len(H) : H[i] \notin {"/", "?", "#"},
              NEW i \in 1 .. Len(A)
       PROVE  A[i] \notin {"/", "?", "#"}
  <2>1. CASE i \in 1 .. Len(X) /\ A[i] = X[i]
    <3>1. U # <<>> /\ (i \in 1 .. Len(U) \/ i = Len(U) + 1)
      BY <1>1, <2>1
    <3> QED
      BY <1>1, <1>17, <2>1, <3>1
  <2>2. CASE i - n1 \in 1 .. Len(H) /\ A[i] = H[i - n1]
    BY <1>17, <2>2
  <2>3. CASE i - n2 \in 1 .. Len(Y) /\ A[i] = Y[i - n2]
    BY <1>2, <2>3
  <2> QED
    BY <1>5, <1>9, <2>1, <2>2, <2>3
<1> QED
  BY <1>5, <1>7, <1>13, <1>15, <1>16, <1>17

(* What the parts of a text are like.                                      *)
LEMMA SchemeLike ==
  ASSUME NEW t \in Seq(Character)
  PROVE  /\ \A i \in 1 .. Len(SchemeOf(t)) : SchemeOf(t)[i] \notin {"/", "?", "#"}
         /\ ToLower(SchemeOf(t)) = SchemeOf(t)
         /\ SchemeOf(t) = <<>> => SchemeEnd(t) = 0
<1> DEFINE e == SchemeEnd(t)
           x == SubSeq(t, 1, e - 1)
           S == SchemeOf(t)
<1>0. S = ToLower(x) /\ S \in Seq(Character)
  BY FoundTypes DEF SchemeOf
<1>1. CASE e = 0
  <2>1. x = <<>>
    <3>1. SubSeq(t, 1, 0 - 1) = <<>>
      BY SubSeqEmpty
    <3> QED
      BY <1>1, <3>1
  <2>2. ToLower(<<>>) = <<>>
    BY DEF ToLower
  <2> HIDE DEF x, S
  <2>3. S = <<>> /\ Len(S) = 0
    <3>1. S = <<>>
      BY <1>0, <2>1, <2>2
    <3> QED
      BY <3>1
  <2>4. \A i \in 1 .. Len(S) : S[i] \notin {"/", "?", "#"}
    BY <2>3
  <2> QED
    BY <1>1, <2>2, <2>3, <2>4 DEF S
<1>2. CASE e # 0
  <2>1. SchemeEnds(t, e) /\ Len(t) \in Nat
    BY <1>2, SchemeEndFacts, LenProperties
  <2>2. e \in 2 .. Len(t) - 2 /\ \A j \in 1 .. e - 1 : t[j] \notin {"/", "?", "#"}
    BY <2>1 DEF SchemeEnds
  <2> HIDE DEF e
  <2> DEFINE b == e - 1
  <2>3. 1 \in Nat \ {0} /\ b \in Nat /\ b <= Len(t) /\ b - 1 + 1 = b /\ 1 <= b
        /\ \A i \in 1 .. b : 1 + i - 1 = i
    BY <2>1, <2>2
  <2>4. /\ x \in Seq(Character) /\ Len(x) = b /\ \A i \in 1 .. b : x[i] = t[i]
    <3> HIDE DEF b
    <3> DEFINE z == SubSeq(t, 1, b)
    <3>1. /\ z \in Seq(Character) /\ Len(z) = (IF 1 <= b THEN b - 1 + 1 ELSE 0)
          /\ \A i \in 1 .. b - 1 + 1 : z[i] = t[1 + i - 1]
      BY <2>3, Piece
    <3>2. z = x
      BY DEF b
    <3> HIDE DEF z, x
    <3> QED
      BY <2>3, <3>1, <3>2
  <2> HIDE DEF x
  <2>5. /\ Len(S) = b
        /\ \A i \in 1 .. b : S[i] = IF x[i] = "A" THEN "a" ELSE x[i]
    BY <1>0, <2>4, LowerIs
  <2> HIDE DEF S
  <2>6. \A i \in 1 .. Len(S) : S[i] \notin {"/", "?", "#"}
    BY <2>2, <2>4, <2>5
  <2>7. \A i \in 1 .. Len(S) : S[i] # "A"
    BY <2>5
  <2>8. ToLower(S) = S
    <3> DEFINE L == ToLower(S)
    <3>1. /\ L \in Seq(Character) /\ Len(L) = Len(S)
          /\ \A i \in 1 .. Len(S) : L[i] = IF S[i] = "A" THEN "a" ELSE S[i]
      BY <1>0, LowerIs
    <3> HIDE DEF L
    <3>2. \A i \in 1 .. Len(L) : L[i] = S[i]
      BY <2>7, <3>1
    <3>3. L = S
      BY <1>0, <3>1, <3>2, SeqEqual
    <3> QED
      BY <3>3 DEF L
  <2>9. S # <<>>
    <3>1. Len(S) # 0
      BY <2>3, <2>5
    <3> QED
      BY <3>1
  <2> QED
    BY <2>6, <2>8, <2>9 DEF S
<1> QED
  BY <1>1, <1>2

(* The path of a text has no character that ends it, and no scheme in it   *)
(* if there was none before it.                                            *)
LEMMA PathLike ==
  ASSUME NEW t \in Seq(Character)
  PROVE  /\ \A i \in 1 .. Len(PathOf(t)) : PathOf(t)[i] \notin {"?", "#"}
         /\ SchemeOf(t) \notin NoAuthority => PathOf(t) = <<>> \/ PathOf(t)[1] = "/"
         /\ SchemeOf(t) = <<>> => \A i : ~SchemeEnds(PathOf(t), i)
<1> DEFINE n == Len(t)
           p == PathPos(t)
           m == MarkPos(t)
           P == PathOf(t)
           b == m - 1
<1>1. n \in Nat /\ p \in 1 .. n + 1 /\ m \in p .. n + 1
  BY Positions
<1>2. /\ \A i \in 1 .. m - 1 : t[i] \notin {"?", "#"}
      /\ SchemeOf(t) \notin NoAuthority /\ p <= n => t[p] \in {"/", "?", "#"}
  BY NoMarkBefore
<1>3. P = SubSeq(t, p, b)
  BY DEF PathOf
<1>4. SchemeOf(t) = <<>> => p = 1
  BY SchemeLike DEF PathPos, RestPos, NoAuthority
<1>5. SchemeOf(t) = <<>> => \A i : ~SchemeEnds(t, i)
  <2>1. SchemeOf(t) = <<>> => SchemeEnd(t) = 0
    BY SchemeLike
  <2>2. ASSUME NEW i, SchemeEnds(t, i) PROVE SchemeEnd(t) = i /\ i # 0
    <3>1. i \in 2 .. Len(t) - 2
      BY <2>2 DEF SchemeEnds
    <3>2. SchemeEnd(t) = i
      BY <2>2, SchemeEndFacts
    <3>3. i # 0
      BY <1>1, <3>1
    <3> QED
      BY <3>2, <3>3
  <2> QED
    BY <2>1, <2>2
<1> HIDE DEF p, m, P
<1>6. p \in Nat \ {0} /\ b \in Nat /\ b <= n /\ b - p + 1 = m - p
  BY <1>1
<1>7. /\ P \in Seq(Character) /\ Len(P) = m - p
      /\ \A i \in 1 .. m - p : P[i] = t[p + i - 1]
  <2> HIDE DEF b
  <2>1. /\ P \in Seq(Character) /\ Len(P) = (IF p <= b THEN b - p + 1 ELSE 0)
        /\ \A i \in 1 .. b - p + 1 : P[i] = t[p + i - 1]
    BY <1>3, <1>6, Piece
  <2> QED
    BY <1>1, <1>6, <2>1 DEF b
<1>8. \A i \in 1 .. Len(P) : P[i] \notin {"?", "#"}
  <2> TAKE i \in 1 .. Len(P)
  <2>1. i \in 1 .. m - p /\ p + i - 1 \in 1 .. m - 1
    BY <1>1, <1>7
  <2> QED
    BY <1>2, <1>7, <2>1
<1>9. ASSUME SchemeOf(t) \notin NoAuthority PROVE P = <<>> \/ P[1] = "/"
  <2>1. CASE p = m
    <3>1. Len(P) = 0
      BY <1>1, <1>7, <2>1
    <3> QED
      BY <1>7, <3>1, EmptySeq
  <2>2. CASE p # m
    <3>1. 1 \in 1 .. m - p /\ p + 1 - 1 = p /\ p <= n /\ p \in 1 .. m - 1
      BY <1>1, <2>2
    <3>2. P[1] = t[p]
      BY <1>7, <3>1
    <3> QED
      BY <1>2, <1>9, <3>1, <3>2
  <2> QED
    BY <2>1, <2>2
<1>10. ASSUME SchemeOf(t) = <<>>, NEW i, SchemeEnds(P, i) PROVE FALSE
  <2>1. p = 1
    BY <1>4, <1>10
  <2>2. \A j \in 1 .. Len(P) : P[j] = t[j]
    <3> TAKE j \in 1 .. Len(P)
    <3>1. j \in 1 .. m - p /\ p + j - 1 = j
      BY <1>1, <1>7, <2>1
    <3> QED
      BY <1>7, <3>1
  <2>3. /\ i \in 2 .. Len(P) - 2 /\ P[i] = ":" /\ P[i + 1] = "/" /\ P[i + 2] = "/"
        /\ \A j \in 1 .. i - 1 : P[j] \notin {"/", "?", "#"}
    BY <1>10 DEF SchemeEnds
  <2>4. i \in 2 .. n - 2 /\ i \in 1 .. Len(P) /\ i + 1 \in 1 .. Len(P) /\ i + 2 \in 1 .. Len(P)
        /\ \A j \in 1 .. i - 1 : j \in 1 .. Len(P)
    BY <1>1, <1>7, <2>1, <2>3
  <2>5. SchemeEnds(t, i)
    BY <2>2, <2>3, <2>4 DEF SchemeEnds
  <2> QED
    BY <1>5, <1>10, <2>5
<1> QED
  BY <1>8, <1>9, <1>10 DEF P

(* The query of a text has no #.                                           *)
LEMMA QueryLike ==
  ASSUME NEW t \in Seq(Character)
  PROVE  \A i \in 1 .. Len(QueryOf(t)) : QueryOf(t)[i] # "#"
<1> DEFINE n == Len(t)
           m == MarkPos(t)
           h == HashPos(t)
           Q == QueryOf(t)
           a == m + 1
           b == h - 1
<1>1. n \in Nat /\ m \in 1 .. n + 1 /\ h \in m .. n + 1
  BY Positions
<1>2. \A i \in 1 .. h - 1 : t[i] # "#"
  BY NoMarkBefore
<1>3. Q = SubSeq(t, a, b)
  BY DEF QueryOf
<1> HIDE DEF m, h, Q
<1>4. a \in Nat \ {0} /\ b \in Nat /\ b <= n
  BY <1>1
<1>5. /\ Q \in Seq(Character) /\ Len(Q) = (IF a <= b THEN b - a + 1 ELSE 0)
      /\ \A i \in 1 .. b - a + 1 : Q[i] = t[a + i - 1]
  <2> HIDE DEF a, b
  <2> QED
    BY <1>3, <1>4, Piece
<1>6. \A i \in 1 .. Len(Q) : Q[i] # "#"
  <2> TAKE i \in 1 .. Len(Q)
  <2>1. i \in 1 .. b - a + 1 /\ a + i - 1 \in 1 .. h - 1
    BY <1>1, <1>5
  <2> QED
    BY <1>2, <1>5, <2>1
<1> QED
  BY <1>6 DEF Q

(* The user information of a text has no @, its host no colon, and neither *)
(* a character that ends an authority.                                     *)
LEMMA AuthorityLike ==
  ASSUME NEW t \in Seq(Character), Parsable(t), AuthOf(t) # <<>>
  PROVE  LET U == UserIn(AuthOf(t))
             H == HostIn(AuthOf(t))
         IN  /\ \A i \in 1 .. Len(U) : U[i] # "@" /\ U[i] \notin {"/", "?", "#"}
             /\ \A i \in 1 .. Len(H) : H[i] # ":" /\ H[i] \notin {"/", "?", "#"}
<1> DEFINE a == AuthOf(t)
           U == UserIn(a)
           H == HostIn(a)
           h == HostPos(a)
           e == HostEnd(a)
<1>0. a \in Seq(Character) /\ ErrorIn(a) = "none"
  BY FoundTypes DEF Parsable
<1>1. SchemeOf(t) \notin NoAuthority
  BY RestIsPath
<1>2. \A i \in 1 .. Len(a) : a[i] \notin {"/", "?", "#"}
  <2> DEFINE k == RestPos(t)
             p == PathPos(t)
             b == p - 1
  <2>1. Len(t) \in Nat /\ k \in 1 .. Len(t) + 1 /\ p \in k .. Len(t) + 1
    BY Positions
  <2>2. \A i \in k .. p - 1 : t[i] \notin {"/", "?", "#"}
    BY <1>1, NoMarkBefore
  <2>3. a = SubSeq(t, k, b)
    BY DEF AuthOf
  <2> HIDE DEF k, p, a
  <2>4. k \in Nat \ {0} /\ b \in Nat /\ b <= Len(t)
    BY <2>1
  <2>5. /\ Len(a) = (IF k <= b THEN b - k + 1 ELSE 0)
        /\ \A i \in 1 .. b - k + 1 : a[i] = t[k + i - 1]
    <3> HIDE DEF b
    <3> QED
      BY <2>3, <2>4, Piece
  <2> TAKE i \in 1 .. Len(a)
  <2>6. i \in 1 .. b - k + 1 /\ k + i - 1 \in k .. p - 1
    BY <2>1, <2>5
  <2> QED
    BY <2>2, <2>5, <2>6
<1>3. /\ Len(a) \in Nat /\ h \in 1 .. Len(a) + 1 /\ e \in h .. Len(a) + 1
      /\ \A i \in h .. e - 1 : a[i] # ":"
      /\ \A i \in 1 .. h - 2 : a[i] # "@"
  BY <1>0, AuthorityPositions
<1>4. H = SubSeq(a, h, e - 1) /\ U = SubSeq(a, 1, h - 2)
  BY <1>0, AuthorityParts
<1> HIDE DEF a, h, e, H, U
<1>5. \A i \in 1 .. Len(H) : H[i] # ":" /\ H[i] \notin {"/", "?", "#"}
  <2> DEFINE b == e - 1
  <2>1. h \in Nat \ {0} /\ b \in Nat /\ b <= Len(a)
    BY <1>3
  <2>2. /\ Len(H) = (IF h <= b THEN b - h + 1 ELSE 0)
        /\ \A i \in 1 .. b - h + 1 : H[i] = a[h + i - 1]
    <3>1. H = SubSeq(a, h, b)
      BY <1>4
    <3> HIDE DEF b
    <3> QED
      BY <1>0, <2>1, <3>1, Piece
  <2> TAKE i \in 1 .. Len(H)
  <2>3. i \in 1 .. b - h + 1 /\ h + i - 1 \in h .. e - 1 /\ h + i - 1 \in 1 .. Len(a)
    BY <1>3, <2>2
  <2> QED
    BY <1>2, <1>3, <2>2, <2>3
<1>6. \A i \in 1 .. Len(U) : U[i] # "@" /\ U[i] \notin {"/", "?", "#"}
  <2>1. CASE h = 1
    <3>1. SubSeq(a, 1, 1 - 2) = <<>>
      BY SubSeqEmpty
    <3>2. U = <<>> /\ Len(U) = 0
      BY <1>4, <2>1, <3>1
    <3> QED
      BY <3>2
  <2>2. CASE h # 1
    <3> DEFINE b == h - 2
    <3>1. 1 \in Nat \ {0} /\ b \in Nat /\ b <= Len(a)
      BY <1>3, <2>2
    <3>2. /\ Len(U) = (IF 1 <= b THEN b - 1 + 1 ELSE 0)
          /\ \A i \in 1 .. b - 1 + 1 : U[i] = a[1 + i - 1]
      <4>1. U = SubSeq(a, 1, b)
        BY <1>4
      <4> HIDE DEF b
      <4> QED
        BY <1>0, <3>1, <4>1, Piece
    <3> TAKE i \in 1 .. Len(U)
    <3>3. i \in 1 .. b - 1 + 1 /\ 1 + i - 1 = i /\ i \in 1 .. h - 2 /\ i \in 1 .. Len(a)
      BY <1>3, <3>2
    <3> QED
      BY <1>2, <1>3, <3>2, <3>3
  <2> QED
    BY <2>1, <2>2
<1> QED
  BY <1>5, <1>6 DEF H, U, a

(* What operator<< prints of the parts of a text has the same parts, but   *)
(* for a host with an @ behind an empty user information.                  *)
LEMMA PrintedParses ==
  ASSUME NEW t \in Seq(Character), Parsable(t),
         ~(ReadAs(t).userinfo = <<>> /\ "@" \in ToSet(ReadAs(t).host))
  PROVE  LET w == Printed(ReadAs(t)) IN w \in Seq(Character) /\ Parsable(w) /\ ReadAs(w) = ReadAs(t)
<1> DEFINE d == ReadAs(t)
           w == Printed(d)
           S == SchemeOf(t)
           a == AuthOf(t)
           U == UserIn(a)
           H == HostIn(a)
           port == PortIn(a)
           P == PathOf(t)
           Q == QueryOf(t)
           F == FragmentOf(t)
           A == IF H = <<>> THEN <<>> ELSE Authority(d)
<1>1. /\ d.scheme = S /\ d.userinfo = U /\ d.host = H /\ d.port = port
      /\ d.path = P /\ d.query = Q /\ d.fragment = F
  BY DataParts
<1>2. /\ S \in Seq(Character) /\ a \in Seq(Character) /\ P \in Seq(Character)
      /\ Q \in Seq(Character) /\ F \in Seq(Character)
  BY FoundTypes
<1>3. ErrorIn(a) = "none" /\ ~BadScheme(S)
  BY DEF Parsable
<1>4. /\ U \in Seq(Character) /\ H \in Seq(Character) /\ port \in Nat /\ port < 2^PortBits
      /\ a # <<>> => H # <<>>
  BY <1>2, <1>3, AuthorityParts
<1>5. a = <<>> => U = <<>> /\ H = <<>> /\ port = 0
  BY DEF UserIn, HostIn, PortIn
<1>6. Authority(d) = AuthText(U, H, port)
  <2> HIDE DEF d, U, H, port
  <2> QED
    BY <1>1 DEF Authority, AuthText, UserText, PortText
<1>7. w = Joined(SchemeText(S), A, P, Marked("?", Q), Marked("#", F))
  <2> HIDE DEF d, S, H, P, Q, F
  <2> QED
    BY <1>1 DEF Printed, Joined, SchemeText, Marked
<1>8. d = Data(S, U, H, port, P, Q, F)
  BY DEF ReadAs
<1>9. /\ A \in Seq(Character)
      /\ ErrorIn(A) = "none" /\ UserIn(A) = U /\ HostIn(A) = H /\ PortIn(A) = port
      /\ \A i \in 1 .. Len(A) : A[i] \notin {"/", "?", "#"}
  <2>1. CASE a = <<>>
    <3>1. A = <<>> /\ U = <<>> /\ H = <<>> /\ port = 0
      BY <1>5, <2>1
    <3> HIDE DEF A, U, H, port
    <3> QED
      BY <3>1 DEF ErrorIn, UserIn, HostIn, PortIn
  <2>2. CASE a # <<>>
    <3>1. /\ \A i \in 1 .. Len(U) : U[i] # "@" /\ U[i] \notin {"/", "?", "#"}
          /\ \A i \in 1 .. Len(H) : H[i] # ":" /\ H[i] \notin {"/", "?", "#"}
      BY <2>2, AuthorityLike
    <3>2. H # <<>> /\ A = AuthText(U, H, port)
      BY <1>4, <1>6, <2>2
    <3>3. U = <<>> => \A i \in 1 .. Len(H) : H[i] # "@"
      <4>1. U = <<>> => "@" \notin ToSet(H)
        BY <1>1
      <4>2. \A i \in 1 .. Len(H) : H[i] \in ToSet(H)
        <5>1. DOMAIN H = 1 .. Len(H)
          BY <1>4, LenProperties
        <5> QED
          BY <5>1 DEF ToSet
      <4> QED
        BY <4>1, <4>2
    <3> HIDE DEF A, U, H, port, a, d, S, P, Q, F, w
    <3>4. /\ \A i \in 1 .. Len(U) : U[i] # "@"
          /\ \A i \in 1 .. Len(H) : H[i] # ":"
      BY <3>1
    <3>5. /\ \A i \in 1 .. Len(U) : U[i] \notin {"/", "?", "#"}
          /\ \A i \in 1 .. Len(H) : H[i] \notin {"/", "?", "#"}
      BY <3>1
    <3>6. /\ U \in Seq(Character) /\ H \in Seq(Character) /\ port \in Nat
          /\ port < 2^PortBits /\ H # <<>>
      BY <1>4, <3>2
    <3> QED
      BY <3>2, <3>3, <3>4, <3>5, <3>6, AuthorityTogether
  <2> QED
    BY <2>1, <2>2
<1>10. S \in NoAuthority => A = <<>>
  BY <1>5, RestIsPath
<1>11. Fit(S, A, P, Q, F)
  <2>1. /\ \A i \in 1 .. Len(S) : S[i] \notin {"/", "?", "#"}
        /\ ToLower(S) = S
    BY SchemeLike
  <2>2. /\ \A i \in 1 .. Len(P) : P[i] \notin {"?", "#"}
        /\ S \notin NoAuthority => P = <<>> \/ P[1] = "/"
        /\ S = <<>> => \A i : ~SchemeEnds(P, i)
    BY PathLike
  <2>3. \A i \in 1 .. Len(Q) : Q[i] # "#"
    BY QueryLike
  <2> HIDE DEF A, S, P, Q, F
  <2> QED
    BY <1>2, <1>9, <1>10, <2>1, <2>2, <2>3 DEF Fit
<1> HIDE DEF w, A, S, U, H, port, P, Q, F, a
<1>12. /\ w \in Seq(Character) /\ SchemeOf(w) = S /\ AuthOf(w) = A /\ PathOf(w) = P
       /\ QueryOf(w) = Q /\ FragmentOf(w) = F
  BY <1>7, <1>11, PutTogether
<1>13. Parsable(w)
  BY <1>3, <1>9, <1>12 DEF Parsable
<1>14. ReadAs(w) = d
  BY <1>8, <1>9, <1>12 DEF ReadAs
<1> QED
  BY <1>12, <1>13, <1>14 DEF w

(* Printing a URI with operator<< and constructing one of the text gives   *)
(* the same URI, with the exception that RoundTrip names.                  *)
THEOREM ParserRoundTrip == ParserSpec => []RoundTrip
<1>1. ParserInv => RoundTrip
  <2> SUFFICES ASSUME ParserInv, NEW d \in first,
                      ~(d.userinfo = <<>> /\ "@" \in ToSet(d.host))
               PROVE  parser.error = "none" /\ (Done => parser.data = d)
    BY DEF RoundTrip
  <2> DEFINE w == Printed(ReadAs(text))
  <2>1. /\ text \in Seq(Character) /\ d = ReadAs(text) /\ Parsable(text) /\ Parses(parser, w)
    BY DEF ParserInv
  <2>2. w \in Seq(Character) /\ Parsable(w) /\ ReadAs(w) = d
    BY <2>1, PrintedParses
  <2> HIDE DEF w
  <2>3. parser.error = "none"
    BY <2>1, <2>2, ErrorParses
  <2>4. Done => parser.data = d
    BY <2>1, <2>2, DoneParses DEF Done
  <2> QED
    BY <2>3, <2>4
<1> QED
  BY <1>1, ParserInvariant, PTL
-----------------------------------------------------------------------------
(* The pairs of a query.                                                   *)

\* The maps from texts to texts.
QueryMaps == UNION {[D -> Seq(Character)] : D \in SUBSET Seq(Character)}

(* Such a map by its keys and values.                                      *)
LEMMA QueryMapIs ==
  ASSUME NEW map
  PROVE  map \in QueryMaps <=>
           DOMAIN map \subseteq Seq(Character) /\ map \in [DOMAIN map -> Seq(Character)]
<1>1. ASSUME map \in QueryMaps
      PROVE  DOMAIN map \subseteq Seq(Character) /\ map \in [DOMAIN map -> Seq(Character)]
  <2>1. PICK D \in SUBSET Seq(Character) : map \in [D -> Seq(Character)]
    BY <1>1 DEF QueryMaps
  <2> QED
    BY <2>1
<1>2. ASSUME DOMAIN map \subseteq Seq(Character), map \in [DOMAIN map -> Seq(Character)]
      PROVE  map \in QueryMaps
  BY <1>2 DEF QueryMaps
<1> QED
  BY <1>1, <1>2

(* The empty map is one of them.                                           *)
LEMMA NoPairs ==
  DOMAIN <<>> = {} /\ <<>> \in QueryMaps
<1>1. DOMAIN <<>> = {} /\ <<>> \in [{} -> Seq(Character)]
  OBVIOUS
<1> QED
  BY <1>1, QueryMapIs

(* What a map says that two others are put together in.                    *)
LEMMA OverMaps ==
  ASSUME NEW f \in QueryMaps, NEW g \in QueryMaps
  PROVE  /\ Over(f, g) \in QueryMaps
         /\ DOMAIN Over(f, g) = DOMAIN f \cup DOMAIN g
         /\ \A x \in DOMAIN f : Over(f, g)[x] = f[x]
         /\ \A x \in DOMAIN g : x \notin DOMAIN f => Over(f, g)[x] = g[x]
<1>1. /\ DOMAIN f \subseteq Seq(Character) /\ f \in [DOMAIN f -> Seq(Character)]
      /\ DOMAIN g \subseteq Seq(Character) /\ g \in [DOMAIN g -> Seq(Character)]
  BY QueryMapIs
<1>2. /\ DOMAIN Over(f, g) = DOMAIN f \cup DOMAIN g
      /\ \A x \in DOMAIN f : Over(f, g)[x] = f[x]
      /\ \A x \in DOMAIN g : x \notin DOMAIN f => Over(f, g)[x] = g[x]
  BY DEF Over
<1>3. Over(f, g) \in [DOMAIN f \cup DOMAIN g -> Seq(Character)]
  BY <1>1 DEF Over
<1> QED
  BY <1>1, <1>2, <1>3, QueryMapIs

(* What a map says after map[key] = value.                                 *)
LEMMA PutMap ==
  ASSUME NEW f \in QueryMaps, NEW k \in Seq(Character), NEW v \in Seq(Character)
  PROVE  /\ Put(f, k, v) \in QueryMaps
         /\ DOMAIN Put(f, k, v) = DOMAIN f \cup {k}
         /\ Put(f, k, v)[k] = v
         /\ \A x \in DOMAIN f : x # k => Put(f, k, v)[x] = f[x]
<1>1. DOMAIN f \subseteq Seq(Character) /\ f \in [DOMAIN f -> Seq(Character)]
  BY QueryMapIs
<1>2. /\ DOMAIN Put(f, k, v) = DOMAIN f \cup {k}
      /\ Put(f, k, v)[k] = v
      /\ \A x \in DOMAIN f : x # k => Put(f, k, v)[x] = f[x]
  BY DEF Put
<1>3. Put(f, k, v) \in [DOMAIN f \cup {k} -> Seq(Character)]
  BY <1>1 DEF Put
<1> QED
  BY <1>1, <1>2, <1>3, QueryMapIs

(* The key and the value of a field.                                       *)
LEMMA FieldParts ==
  ASSUME NEW x \in Seq(Character), NEW e, e = Stop(x, {"="}, 1)
  PROVE  /\ e \in 1 .. Len(x) + 1 /\ Len(x) \in Nat
         /\ FieldKey(x) = SubSeq(x, 1, e - 1) /\ FieldKey(x) \in Seq(Character)
         /\ Len(FieldKey(x)) = e - 1
         /\ FieldValue(x) = From(x, e + 1) /\ FieldValue(x) \in Seq(Character)
<1>1. Len(x) \in Nat /\ 1 \in 1 .. Len(x) + 1 /\ DOMAIN x = 1 .. Len(x)
  BY LenProperties
<1>2. /\ e \in 1 .. Len(x) + 1 /\ (e <= Len(x) => x[e] \in {"="})
      /\ \A i \in 1 .. e - 1 : x[i] \notin {"="}
  BY <1>1, StopFacts
<1> DEFINE I == {Len(x) + 1} \cup {i \in DOMAIN x : x[i] = "="}
<1>3. I \in SUBSET Nat /\ I # {} /\ e \in I /\ \A i \in I : e <= i
  <2>1. I \in SUBSET Nat /\ I # {}
    BY <1>1
  <2>2. e \in I
    BY <1>1, <1>2
  <2>3. ASSUME NEW i \in I PROVE e <= i
    <3>1. CASE i = Len(x) + 1
      BY <1>1, <1>2, <3>1
    <3>2. CASE i # Len(x) + 1
      <4>1. i \in 1 .. Len(x) /\ x[i] = "="
        BY <1>1, <3>2
      <4>2. i \notin 1 .. e - 1
        BY <1>2, <4>1
      <4> QED
        BY <1>1, <1>2, <4>1, <4>2
    <3> QED
      BY <3>1, <3>2
  <2> QED
    BY <2>1, <2>2, <2>3
<1>4. FieldKey(x) = SubSeq(x, 1, Min(I) - 1)
  BY DEF FieldKey
<1> HIDE DEF I
<1>5. Min(I) = e
  <2>1. Min(I) \in I /\ \A n \in I : Min(I) <= n
    BY <1>3, MinIsLeast
  <2>2. Min(I) <= e /\ e <= Min(I) /\ e \in Nat /\ Min(I) \in Nat
    BY <1>3, <2>1
  <2> QED
    BY <2>2
<1>6. FieldKey(x) = SubSeq(x, 1, e - 1)
  BY <1>4, <1>5
<1> DEFINE b == e - 1
<1>7. 1 \in Nat \ {0} /\ b \in Nat /\ b <= Len(x) /\ b - 1 + 1 = b
  BY <1>1, <1>2
<1>8. FieldKey(x) \in Seq(Character) /\ Len(FieldKey(x)) = b
  <2> HIDE DEF b
  <2>1. /\ SubSeq(x, 1, b) \in Seq(Character)
        /\ Len(SubSeq(x, 1, b)) = IF 1 <= b THEN b - 1 + 1 ELSE 0
    BY <1>7, Piece
  <2>2. Len(SubSeq(x, 1, b)) = b
    BY <1>7, <2>1
  <2> QED
    BY <1>6, <2>1, <2>2 DEF b
<1>9. FieldValue(x) = From(x, e + 1)
  <2>1. b + 2 = e + 1
    BY <1>1, <1>2
  <2> QED
    BY <1>8, <2>1 DEF FieldValue
<1>10. From(x, e + 1) \in Seq(Character)
  <2> DEFINE a == e + 1
             n == Len(x)
  <2>1. a \in Nat \ {0} /\ n \in Nat /\ n <= Len(x)
    BY <1>1, <1>2
  <2> HIDE DEF a, n
  <2>2. SubSeq(x, a, n) \in Seq(Character)
    BY <2>1, Piece
  <2> QED
    BY <2>2 DEF a, n, From
<1> QED
  BY <1>1, <1>2, <1>6, <1>8, <1>9, <1>10

(* PairMap() holds the field's pair, unless its key is empty.              *)
LEMMA PairMapIs ==
  ASSUME NEW x \in Seq(Character), x # <<>>
  PROVE  /\ PairMap(x) \in QueryMaps
         /\ FieldKey(x) = <<>> => DOMAIN PairMap(x) = {}
         /\ FieldKey(x) # <<>> => /\ DOMAIN PairMap(x) = {FieldKey(x)}
                                  /\ PairMap(x)[FieldKey(x)] = FieldValue(x)
<1> DEFINE e  == Stop(x, {"="}, 1)
           eq == FindFirstOf(x, {"="}, 1)
           K  == FieldKey(x)
           V  == FieldValue(x)
<1>1. Len(x) \in Nat /\ 1 \in 1 .. Len(x) + 1 /\ Len(x) # 0
  BY LenProperties, EmptySeq
<1>2. eq = IF e <= Len(x) THEN e ELSE 0
  BY <1>1, StopFacts
<1>3. /\ e \in 1 .. Len(x) + 1
      /\ K = SubSeq(x, 1, e - 1) /\ K \in Seq(Character) /\ Len(K) = e - 1
      /\ V = From(x, e + 1) /\ V \in Seq(Character)
  BY FieldParts
<1>4. PairMap(x) = IF eq = 1 THEN <<>>
                   ELSE IF eq = 0 THEN Put(<<>>, x, <<>>)
                   ELSE Put(<<>>, SubSeq(x, 1, eq - 1), From(x, eq + 1))
  BY DEF PairMap
<1>5. K = <<>> <=> e = 1
  <2>1. K = <<>> <=> Len(K) = 0
    BY <1>3, EmptySeq
  <2> QED
    BY <1>1, <1>3, <2>1
<1>6. CASE K = <<>>
  <2>1. PairMap(x) = <<>>
    BY <1>1, <1>2, <1>4, <1>5, <1>6
  <2> QED
    BY <1>6, <2>1, NoPairs
<1>7. CASE K # <<>>
  <2>1. PairMap(x) = Put(<<>>, K, V)
    <3>1. CASE e <= Len(x)
      <4>1. eq = e /\ eq # 1 /\ eq # 0
        BY <1>1, <1>2, <1>3, <1>5, <1>7, <3>1
      <4> QED
        BY <1>3, <1>4, <4>1
    <3>2. CASE ~(e <= Len(x))
      <4>1. eq = 0 /\ e = Len(x) + 1 /\ e - 1 = Len(x) /\ e + 1 = Len(x) + 2
        BY <1>1, <1>2, <1>3, <3>2
      <4>2. SubSeq(x, 1, Len(x)) = x
        BY SubSeqFull
      <4>3. SubSeq(x, Len(x) + 2, Len(x)) = <<>>
        <5>1. Len(x) + 2 \in Int /\ Len(x) \in Int /\ Len(x) < Len(x) + 2
          BY <1>1
        <5> QED
          BY <5>1, SubSeqEmpty
      <4>4. K = x /\ V = <<>>
        BY <1>3, <4>1, <4>2, <4>3 DEF From
      <4> QED
        BY <1>4, <4>1, <4>4
    <3> QED
      BY <3>1, <3>2
  <2> HIDE DEF K, V
  <2> DEFINE z == <<>>
  <2>2. z \in QueryMaps /\ DOMAIN z = {} /\ PairMap(x) = Put(z, K, V)
    <3>1. z \in QueryMaps /\ DOMAIN z = {}
      BY NoPairs, Zenon
    <3> QED
      BY <2>1, <3>1, Zenon
  <2> HIDE DEF z
  <2>3. /\ Put(z, K, V) \in QueryMaps /\ DOMAIN Put(z, K, V) = DOMAIN z \cup {K}
        /\ Put(z, K, V)[K] = V
    <3>1. K \in Seq(Character) /\ V \in Seq(Character)
      BY <1>3, Zenon
    <3>2. z \in QueryMaps
      BY <2>2, Zenon
    <3> HIDE DEF e, eq
    <3> QED
      BY <3>1, <3>2, PutMap, Zenon
  <2> QED
    BY <1>7, <2>2, <2>3 DEF K, V
<1> QED
  BY <1>6, <1>7
-----------------------------------------------------------------------------
(* The loop of _parseQueryMap().                                           *)

\* The recursive function of ParseQueryMap.
MapOf(q) ==
  CHOOSE f : f = [i \in 1 .. Len(q) + 2 |->
    LET amp  == FindFirstOf(q, {"&"}, i)
        next == IF amp = 0 THEN Len(q) + 1 ELSE amp
    IN  IF i > Len(q) THEN <<>>
        ELSE IF amp = i THEN f[i + 1]
        ELSE Over(f[next + 1], PairMap(SubSeq(q, i, next - 1)))]

(* ParseQueryMap is that function at the first position.                   *)
LEMMA QueryMapOf ==
  ASSUME NEW q
  PROVE  ParseQueryMap(q) = MapOf(q)[1]
BY DEF ParseQueryMap, MapOf

\* What one turn at position i makes of the map of the later fields.
FieldTurn(q, i, map) ==
  IF Stop(q, {"&"}, i) = i THEN map
  ELSE Over(map, PairMap(SubSeq(q, i, Stop(q, {"&"}, i) - 1)))

(* One turn of the loop makes a map of a map.                              *)
LEMMA FieldTurnIs ==
  ASSUME NEW q \in Seq(Character), NEW i \in 1 .. Len(q), NEW map \in QueryMaps
  PROVE  FieldTurn(q, i, map) \in QueryMaps
<1> DEFINE p == Stop(q, {"&"}, i)
           b == p - 1
           x == SubSeq(q, i, b)
<1>1. Len(q) \in Nat /\ p \in i .. Len(q) + 1
  BY StopFacts, LenProperties
<1>2. CASE p = i
  BY <1>2 DEF FieldTurn
<1>3. CASE p # i
  <2> HIDE DEF p
  <2>1. i \in Nat \ {0} /\ b \in Nat /\ b <= Len(q) /\ i <= b /\ b - i + 1 # 0
    BY <1>1, <1>3
  <2>2. x \in Seq(Character) /\ x # <<>>
    <3> HIDE DEF b
    <3>1. x \in Seq(Character) /\ Len(x) = IF i <= b THEN b - i + 1 ELSE 0
      BY <2>1, Piece
    <3>2. Len(x) # 0
      BY <2>1, <3>1
    <3> QED
      BY <3>1, <3>2, EmptySeq
  <2> HIDE DEF x
  <2>3. PairMap(x) \in QueryMaps
    BY <2>2, PairMapIs
  <2>4. FieldTurn(q, i, map) = Over(map, PairMap(x))
    BY <1>3 DEF FieldTurn, x, b, p
  <2> QED
    BY <2>3, <2>4, OverMaps
<1> QED
  BY <1>2, <1>3

(* The function exists, and does what one turn after the other does.       *)
LEMMA MapOfDef ==
  ASSUME NEW q \in Seq(Character)
  PROVE  /\ MapOf(q) \in [1 .. Len(q) + 2 -> QueryMaps]
         /\ MapOf(q)[Len(q) + 1] = <<>> /\ MapOf(q)[Len(q) + 2] = <<>>
         /\ \A i \in 1 .. Len(q) :
              MapOf(q)[i] = FieldTurn(q, i, MapOf(q)[Stop(q, {"&"}, i) + 1])
<1> DEFINE L == Len(q)
           P(i) == Stop(q, {"&"}, i)
<1>1. L \in Nat
  BY LenProperties
<1>2. \A i \in 1 .. L : P(i) \in i .. L + 1
  <2> TAKE i \in 1 .. L
  <2>1. i \in 1 .. Len(q) + 1
    BY <1>1
  <2> QED
    BY <2>1, StopFacts
<1>3. \A i \in 1 .. L : FindFirstOf(q, {"&"}, i) = IF P(i) <= L THEN P(i) ELSE 0
  <2> TAKE i \in 1 .. L
  <2>1. i \in 1 .. Len(q) + 1
    BY <1>1
  <2> QED
    BY <2>1, StopFacts
<1> HIDE DEF P
<1> DEFINE base == [n \in Nat |-> <<>>]
           Pred == [n \in Nat |-> IF n \in 2 .. L + 1 THEN L + 1 - P(L + 2 - n) ELSE 0]
           Next1(n, y) == IF n \in 2 .. L + 1 THEN FieldTurn(q, L + 2 - n, y) ELSE y
           F    == [x \in Nat \X QueryMaps |-> Next1(x[1], x[2])]
           Turned(f, i) == LET amp  == FindFirstOf(q, {"&"}, i)
                               next == IF amp = 0 THEN Len(q) + 1 ELSE amp
                           IN  IF i > Len(q) THEN <<>>
                               ELSE IF amp = i THEN f[i + 1]
                               ELSE Over(f[next + 1], PairMap(SubSeq(q, i, next - 1)))
           Rule(f) == f = [i \in 1 .. Len(q) + 2 |-> Turned(f, i)]
<1>4. MapOf(q) = CHOOSE f : Rule(f)
  BY DEF MapOf
<1>5. \A n \in 2 .. L + 1 : L + 2 - n \in 1 .. L
  BY <1>1
<1>6. \A n \in Nat : \A y \in QueryMaps : Next1(n, y) \in QueryMaps
  BY <1>5, FieldTurnIs
<1>7. \A n \in Nat : \A y \in QueryMaps : F[<<n, y>>] = Next1(n, y)
  <2> HIDE DEF Next1
  <2> QED
    OBVIOUS
<1>8. F \in [Nat \X QueryMaps -> QueryMaps]
  <2> HIDE DEF Next1
  <2>1. \A x \in Nat \X QueryMaps : x[1] \in Nat /\ x[2] \in QueryMaps
    OBVIOUS
  <2> QED
    BY <1>6, <2>1
<1>9. base \in [Nat -> QueryMaps] /\ \A n \in Nat : base[n] = <<>>
  BY NoPairs
<1>10. Pred \in [Nat -> Nat] /\ \A n \in Nat : n >= 2 => Pred[n] < n
  <2>1. \A n \in 2 .. L + 1 : L + 1 - P(L + 2 - n) \in 0 .. n - 1
    <3> TAKE n \in 2 .. L + 1
    <3>1. L + 2 - n \in 1 .. L /\ P(L + 2 - n) \in L + 2 - n .. L + 1
      BY <1>2, <1>5
    <3> DEFINE p == P(L + 2 - n)
    <3>2. p \in L + 2 - n .. L + 1
      BY <3>1
    <3> HIDE DEF p
    <3>3. L + 1 - p \in 0 .. n - 1
      BY <1>1, <3>2
    <3> QED
      BY <3>3 DEF p
  <2>2. ASSUME NEW n \in Nat PROVE Pred[n] \in Nat /\ (n >= 2 => Pred[n] < n)
    <3>1. Pred[n] = IF n \in 2 .. L + 1 THEN L + 1 - P(L + 2 - n) ELSE 0
      OBVIOUS
    <3> HIDE DEF Pred
    <3>2. CASE n \in 2 .. L + 1
      BY <2>1, <3>1, <3>2
    <3>3. CASE n \notin 2 .. L + 1
      BY <3>1, <3>3
    <3> QED
      BY <3>2, <3>3
  <2>3. Pred = [n \in Nat |-> Pred[n]]
    OBVIOUS
  <2> HIDE DEF Pred
  <2> QED
    BY <2>2, <2>3
<1>11. \A n \in 2 .. L + 1 : Pred[n] = L + 1 - P(L + 2 - n)
  BY <1>1
<1> HIDE DEF base, Pred, F
<1>12. IsRule(QueryMaps, 2, base, Pred, F)
  <2>1. 2 \in Nat \ {0}
    OBVIOUS
  <2> QED
    BY <1>8, <1>9, <1>10, <2>1, Zenon DEF IsRule
<1>13. PICK h : Solves(h, QueryMaps, 2, base, Pred, F)
  BY <1>12, Recursion
<1>14. h \in [Nat -> QueryMaps]
       /\ \A n \in Nat : h[n] = IF n < 2 THEN base[n] ELSE F[<<n, h[Pred[n]]>>]
  BY <1>13 DEF Solves
<1>15. h[0] = <<>> /\ h[1] = <<>>
  <2>1. 0 \in Nat /\ 0 < 2 /\ 1 \in Nat /\ 1 < 2
    OBVIOUS
  <2>2. h[0] = base[0] /\ h[1] = base[1]
    BY <1>14, <2>1
  <2> QED
    BY <1>9, <2>1, <2>2
<1>16. ASSUME NEW i \in 1 .. L
       PROVE  h[L + 2 - i] = FieldTurn(q, i, h[L + 2 - (P(i) + 1)])
  <2> DEFINE n == L + 2 - i
             m == L + 2 - (P(i) + 1)
  <2>1. n \in Nat /\ ~(n < 2) /\ n \in 2 .. L + 1 /\ L + 2 - n = i
    BY <1>1
  <2>2. Pred[n] = m /\ m \in Nat
    <3>1. Pred[n] = L + 1 - P(L + 2 - n)
      BY <1>11, <2>1
    <3>2. L + 2 - (P(i) + 1) = L + 1 - P(i) /\ L + 1 - P(i) \in Nat
      BY <1>1, <1>2
    <3> QED
      BY <2>1, <3>1, <3>2
  <2> HIDE DEF n, m
  <2>3. h[m] \in QueryMaps
    BY <1>14, <2>2
  <2>4. h[n] = F[<<n, h[m]>>]
    BY <1>14, <2>1, <2>2
  <2>5. h[n] = Next1(n, h[m])
    BY <1>7, <2>1, <2>3, <2>4
  <2>6. h[n] = FieldTurn(q, i, h[m])
    BY <2>1, <2>5
  <2> QED
    BY <2>6 DEF n, m
<1> DEFINE f == [i \in 1 .. Len(q) + 2 |-> h[L + 2 - i]]
<1>17. \A i \in 1 .. Len(q) + 2 : f[i] = h[L + 2 - i] /\ f[i] \in QueryMaps
  <2>1. \A i \in 1 .. Len(q) + 2 : L + 2 - i \in Nat
    BY <1>1
  <2> QED
    BY <1>14, <2>1
<1>18. \A i \in 1 .. Len(q) + 2 : i > Len(q) => f[i] = <<>>
  <2> TAKE i \in 1 .. Len(q) + 2
  <2> HAVE i > Len(q)
  <2>1. L + 2 - i = 0 \/ L + 2 - i = 1
    BY <1>1
  <2> QED
    BY <1>15, <1>17, <2>1
<1>19. \A i \in 1 .. L : f[i] = FieldTurn(q, i, f[P(i) + 1])
  <2> TAKE i \in 1 .. L
  <2>1. i \in 1 .. Len(q) + 2 /\ P(i) + 1 \in 1 .. Len(q) + 2
    BY <1>1, <1>2
  <2> QED
    BY <1>16, <1>17, <2>1
<1>20. f = [i \in 1 .. Len(q) + 2 |-> f[i]]
  OBVIOUS
<1> HIDE DEF f
<1>21. Rule(f)
  <2>1. ASSUME NEW i \in 1 .. Len(q) + 2 PROVE f[i] = Turned(f, i)
    <3>1. CASE i > Len(q)
      BY <1>18, <3>1
    <3>2. CASE ~(i > Len(q))
      <4> DEFINE amp == FindFirstOf(q, {"&"}, i)
                 next == IF amp = 0 THEN Len(q) + 1 ELSE amp
      <4>1. i \in 1 .. L
        BY <1>1, <3>2
      <4>2. amp = IF P(i) <= L THEN P(i) ELSE 0
        BY <1>3, <4>1
      <4>3. P(i) \in i .. L + 1
        BY <1>2, <4>1
      <4> HIDE DEF amp
      <4>4. next = P(i) /\ (amp = i <=> P(i) = i)
        BY <1>1, <4>1, <4>2, <4>3
      <4> HIDE DEF next
      <4>5. Turned(f, i) = IF amp = i THEN f[i + 1]
                           ELSE Over(f[next + 1], PairMap(SubSeq(q, i, next - 1)))
        BY <3>2 DEF amp, next
      <4>6. f[i] = FieldTurn(q, i, f[P(i) + 1])
        BY <1>19, <4>1
      <4>7. FieldTurn(q, i, f[P(i) + 1]) =
              IF P(i) = i THEN f[P(i) + 1]
              ELSE Over(f[P(i) + 1], PairMap(SubSeq(q, i, P(i) - 1)))
        BY DEF FieldTurn, P
      <4> HIDE DEF Turned
      <4> QED
        BY <4>4, <4>5, <4>6, <4>7
    <3> QED
      BY <3>1, <3>2
  <2> HIDE DEF Turned
  <2> QED
    BY <1>20, <2>1
<1>22. Rule(MapOf(q))
  <2> HIDE DEF Rule
  <2> QED
    BY <1>4, <1>21
<1> DEFINE g == MapOf(q)
<1>23. \A i \in 1 .. Len(q) + 2 : i > Len(q) => g[i] = <<>>
  <2> TAKE i \in 1 .. Len(q) + 2
  <2> HAVE i > Len(q)
  <2>1. g[i] = Turned(g, i)
    <3> HIDE DEF g, Turned
    <3> QED
      BY <1>22 DEF g
  <2> QED
    BY <2>1
<1>24. \A i \in 1 .. L : g[i] = FieldTurn(q, i, g[P(i) + 1])
  <2> TAKE i \in 1 .. L
  <2> HIDE DEF g
  <2> DEFINE amp == FindFirstOf(q, {"&"}, i)
             next == IF amp = 0 THEN Len(q) + 1 ELSE amp
  <2>1. i \in 1 .. Len(q) + 2 /\ ~(i > Len(q))
    BY <1>1
  <2>2. amp = IF P(i) <= L THEN P(i) ELSE 0
    BY <1>3
  <2>3. P(i) \in i .. L + 1
    BY <1>2
  <2>4. g[i] = Turned(g, i)
    <3> HIDE DEF Turned
    <3> QED
      BY <1>22, <2>1 DEF g
  <2> HIDE DEF amp
  <2>5. next = P(i) /\ (amp = i <=> P(i) = i)
    BY <1>1, <2>2, <2>3
  <2> HIDE DEF next
  <2>6. Turned(g, i) = IF amp = i THEN g[i + 1]
                       ELSE Over(g[next + 1], PairMap(SubSeq(q, i, next - 1)))
    BY <2>1 DEF amp, next
  <2>7. FieldTurn(q, i, g[P(i) + 1]) =
          IF P(i) = i THEN g[P(i) + 1]
          ELSE Over(g[P(i) + 1], PairMap(SubSeq(q, i, P(i) - 1)))
    BY DEF FieldTurn, P
  <2> HIDE DEF Turned
  <2> QED
    BY <2>4, <2>5, <2>6, <2>7
<1> HIDE DEF g
<1>25. \A i \in 1 .. Len(q) + 2 : g[i] = f[i]
  <2> DEFINE B == {n \in 0 .. L + 1 : g[L + 2 - n] # f[L + 2 - n]}
  <2>1. CASE B = {}
    <3> TAKE i \in 1 .. Len(q) + 2
    <3>1. L + 2 - i \in 0 .. L + 1 /\ L + 2 - (L + 2 - i) = i
      BY <1>1
    <3> QED
      BY <2>1, <3>1
  <2>2. CASE B # {}
    <3>1. B \in SUBSET Nat
      BY <1>1
    <3>2. PICK n \in B : \A k \in B : n <= k
      <4> HIDE DEF B
      <4> QED
        BY <2>2, <3>1, LeastNumber
    <3> DEFINE i == L + 2 - n
               m == L + 2 - (P(i) + 1)
    <3>3. n \in 0 .. L + 1 /\ g[i] # f[i]
      BY <3>2
    <3>4. i \in 1 .. Len(q) + 2
      BY <1>1, <3>3
    <3> HIDE DEF i
    <3>5. i \in 1 .. L
      BY <1>1, <1>18, <1>23, <3>3, <3>4
    <3>6. P(i) \in i .. L + 1
      BY <1>2, <3>5
    <3>7. m \in 0 .. L + 1 /\ ~(n <= m) /\ L + 2 - m = P(i) + 1
      BY <1>1, <3>3, <3>5, <3>6 DEF i
    <3> HIDE DEF m
    <3>8. m \notin B
      <4> HIDE DEF B
      <4> QED
        BY <3>2, <3>7
    <3>9. g[P(i) + 1] = f[P(i) + 1]
      BY <3>7, <3>8
    <3> QED
      BY <1>19, <1>24, <3>3, <3>5, <3>9
  <2> QED
    BY <2>1, <2>2
<1>26. g \in [1 .. Len(q) + 2 -> QueryMaps]
  <2>1. g = [i \in 1 .. Len(q) + 2 |-> Turned(g, i)]
    <3> HIDE DEF Turned
    <3> QED
      BY <1>22 DEF g
  <2>2. g = [i \in 1 .. Len(q) + 2 |-> g[i]]
    <3> HIDE DEF Turned
    <3> QED
      BY <2>1
  <2> QED
    BY <1>17, <1>25, <2>2
<1>27. Len(q) + 1 \in 1 .. Len(q) + 2 /\ Len(q) + 2 \in 1 .. Len(q) + 2
       /\ Len(q) + 1 > Len(q) /\ Len(q) + 2 > Len(q)
  BY <1>1
<1>28. g[Len(q) + 1] = <<>> /\ g[Len(q) + 2] = <<>>
  BY <1>23, <1>27
<1> QED
  BY <1>24, <1>26, <1>28 DEF P, g
-----------------------------------------------------------------------------
(* The fields of a query.                                                  *)

\* There is a field from i to j.
FieldAt(q, i, j) ==
  /\ i \in 1 .. Len(q) /\ j \in i .. Len(q)
  /\ \A k \in i .. j : q[k] # "&"
  /\ i = 1 \/ q[i - 1] = "&"
  /\ j = Len(q) \/ q[j + 1] = "&"

KeyAt(q, i, j) == FieldKey(SubSeq(q, i, j))

ValueAt(q, i, j) == FieldValue(SubSeq(q, i, j))

(* A piece without a character.                                            *)
LEMMA FreePiece ==
  ASSUME NEW q \in Seq(Character), NEW i \in 1 .. Len(q), NEW j \in 1 .. Len(q), NEW ch
  PROVE  Free(SubSeq(q, i, j), {ch}) <=> \A k \in i .. j : q[k] # ch
<1>1. Len(q) \in Nat
  BY LenProperties
<1>2. i \in Nat \ {0} /\ j \in Int /\ j <= Len(q)
  BY <1>1
<1>3. ch \in ToSet(SubSeq(q, i, j)) <=> \E k \in i .. j : q[k] = ch
  BY <1>2, InPiece
<1>4. Free(SubSeq(q, i, j), {ch}) <=> ch \notin ToSet(SubSeq(q, i, j))
  BY Zenon DEF Free
<1> QED
  BY <1>3, <1>4

(* The fields are the pairs of positions that FieldAt describes.           *)
LEMMA FieldsAre ==
  ASSUME NEW q \in Seq(Character)
  PROVE  /\ \A i, j : FieldAt(q, i, j) => <<i, j>> \in Fields(q)
         /\ \A f \in Fields(q) : FieldAt(q, f[1], f[2])
<1> DEFINE N == 1 .. Len(q)
           IsField(i, j) ==
             /\ i <= j
             /\ Free(SubSeq(q, i, j), {"&"})
             /\ i = 1 \/ q[i - 1] = "&"
             /\ j = Len(q) \/ q[j + 1] = "&"
<1>1. Fields(q) = {f \in N \X N : IsField(f[1], f[2])}
  BY DEF Fields
<1>2. ASSUME NEW i \in N, NEW j \in N PROVE IsField(i, j) <=> FieldAt(q, i, j)
  <2>1. Free(SubSeq(q, i, j), {"&"}) <=> \A k \in i .. j : q[k] # "&"
    BY FreePiece
  <2>2. i <= j <=> j \in i .. Len(q)
    BY LenProperties
  <2> QED
    BY <2>1, <2>2 DEF FieldAt
<1> HIDE DEF IsField
<1>3. ASSUME NEW i, NEW j, FieldAt(q, i, j) PROVE <<i, j>> \in Fields(q)
  <2>1. i \in N /\ j \in N
    BY <1>3, LenProperties DEF FieldAt
  <2>2. IsField(i, j)
    BY <1>2, <1>3, <2>1
  <2> HIDE DEF N
  <2> QED
    BY <1>1, <2>1, <2>2
<1>4. ASSUME NEW f \in Fields(q) PROVE FieldAt(q, f[1], f[2])
  <2>1. f \in N \X N /\ IsField(f[1], f[2])
    BY <1>1
  <2>2. f[1] \in N /\ f[2] \in N
    <3> HIDE DEF N
    <3> QED
      BY <2>1
  <2> QED
    BY <1>2, <2>1, <2>2
<1> QED
  BY <1>3, <1>4

(* A map that says what the fields from k on say.                          *)
MeansFrom(map, q, k) ==
  /\ map \in QueryMaps
  /\ \A x \in DOMAIN map : x # <<>> /\ \E i, j : FieldAt(q, i, j) /\ i >= k /\ KeyAt(q, i, j) = x
  /\ \A i, j : FieldAt(q, i, j) /\ i >= k /\ KeyAt(q, i, j) # <<>> => KeyAt(q, i, j) \in DOMAIN map
  /\ \A i, j : (/\ FieldAt(q, i, j) /\ i >= k /\ KeyAt(q, i, j) # <<>>
                /\ \A a, b : FieldAt(q, a, b) /\ KeyAt(q, a, b) = KeyAt(q, i, j) => a <= i)
               => map[KeyAt(q, i, j)] = ValueAt(q, i, j)

(* The one that says what all say is the meaning of the query.             *)
LEMMA MeansMeaning ==
  ASSUME NEW q \in Seq(Character), NEW map, MeansFrom(map, q, 1)
  PROVE  map = Meaning(q)
<1> DEFINE Text(f) == SubSeq(q, f[1], f[2])
           Of(k)   == {f \in Fields(q) : FieldKey(Text(f)) = k}
           last(k) == CHOOSE f \in Of(k) : \A g \in Of(k) : g[1] <= f[1]
           D       == {FieldKey(Text(f)) : f \in Fields(q)} \ {<<>>}
<1>1. Meaning(q) = [k \in D |-> FieldValue(Text(last(k)))]
  BY DEF Meaning
<1>2. \A f : FieldKey(Text(f)) = KeyAt(q, f[1], f[2]) /\ FieldValue(Text(f)) = ValueAt(q, f[1], f[2])
  BY DEF KeyAt, ValueAt
<1>3. /\ map \in QueryMaps
      /\ \A x \in DOMAIN map : x # <<>> /\ \E i, j : FieldAt(q, i, j) /\ i >= 1 /\ KeyAt(q, i, j) = x
      /\ \A i, j : FieldAt(q, i, j) /\ i >= 1 /\ KeyAt(q, i, j) # <<>> => KeyAt(q, i, j) \in DOMAIN map
      /\ \A i, j : (/\ FieldAt(q, i, j) /\ i >= 1 /\ KeyAt(q, i, j) # <<>>
                    /\ \A a, b : FieldAt(q, a, b) /\ KeyAt(q, a, b) = KeyAt(q, i, j) => a <= i)
                   => map[KeyAt(q, i, j)] = ValueAt(q, i, j)
  BY DEF MeansFrom
<1>4. /\ \A i, j : FieldAt(q, i, j) => <<i, j>> \in Fields(q)
      /\ \A f \in Fields(q) : FieldAt(q, f[1], f[2])
  BY FieldsAre
<1>5. \A i, j : FieldAt(q, i, j) => i \in Nat /\ i >= 1 /\ i <= Len(q) /\ Len(q) \in Nat
  BY LenProperties DEF FieldAt
<1> HIDE DEF Text
<1>6. ASSUME NEW i, NEW j, FieldAt(q, i, j)
      PROVE  <<i, j>> \in Fields(q) /\ FieldKey(Text(<<i, j>>)) = KeyAt(q, i, j)
  BY <1>2, <1>4, <1>6
<1>7. \A x \in DOMAIN map : x \in D
  <2> TAKE x \in DOMAIN map
  <2>1. PICK i, j : FieldAt(q, i, j) /\ KeyAt(q, i, j) = x
    BY <1>3
  <2>2. x # <<>>
    BY <1>3
  <2>3. <<i, j>> \in Fields(q) /\ FieldKey(Text(<<i, j>>)) = x
    BY <1>6, <2>1
  <2> QED
    BY <2>2, <2>3
<1>8. \A x \in D : x \in DOMAIN map
  <2> TAKE x \in D
  <2>1. PICK f \in Fields(q) : FieldKey(Text(f)) = x
    OBVIOUS
  <2>2. FieldAt(q, f[1], f[2]) /\ KeyAt(q, f[1], f[2]) = x /\ f[1] >= 1 /\ x # <<>>
    BY <1>2, <1>4, <1>5, <2>1
  <2> QED
    BY <1>3, <2>2
<1>9. ASSUME NEW x \in D PROVE map[x] = FieldValue(Text(last(x)))
  <2>1. Of(x) # {} /\ \A f \in Of(x) : f \in Fields(q) /\ FieldKey(Text(f)) = x
    OBVIOUS
  <2>2. \A f \in Of(x) : FieldAt(q, f[1], f[2]) /\ KeyAt(q, f[1], f[2]) = x
                         /\ f[1] \in Nat /\ f[1] >= 1 /\ f[1] <= Len(q) /\ Len(q) \in Nat
    BY <1>2, <1>4, <1>5, <2>1
  <2>3. \E f \in Of(x) : \A g \in Of(x) : g[1] <= f[1]
    <3> HIDE DEF Of
    <3> DEFINE B == {Len(q) - f[1] : f \in Of(x)}
    <3>1. B \in SUBSET Nat /\ B # {}
      BY <2>1, <2>2
    <3>2. PICK m \in B : \A n \in B : m <= n
      <4> HIDE DEF B
      <4> QED
        BY <3>1, LeastNumber
    <3>3. PICK f \in Of(x) : m = Len(q) - f[1]
      OBVIOUS
    <3>4. ASSUME NEW g \in Of(x) PROVE g[1] <= f[1]
      <4>1. Len(q) - f[1] <= Len(q) - g[1]
        BY <3>2, <3>3
      <4> QED
        BY <2>2, <4>1
    <3> QED
      BY <3>4
  <2>4. last(x) \in Of(x) /\ \A g \in Of(x) : g[1] <= last(x)[1]
    <3> HIDE DEF Of
    <3> QED
      BY <2>3
  <2>5. \A i, j : FieldAt(q, i, j) /\ KeyAt(q, i, j) = x => i <= last(x)[1]
    <3> TAKE i, j
    <3> HAVE FieldAt(q, i, j) /\ KeyAt(q, i, j) = x
    <3>1. <<i, j>> \in Of(x)
      BY <1>6
    <3>2. <<i, j>>[1] = i
      OBVIOUS
    <3> HIDE DEF Of, last
    <3> QED
      BY <2>4, <3>1, <3>2
  <2> HIDE DEF Of, last
  <2> DEFINE a == last(x)[1]
             b == last(x)[2]
  <2>6. FieldAt(q, a, b) /\ KeyAt(q, a, b) = x /\ a >= 1 /\ x # <<>>
    BY <2>2, <2>4
  <2>7. FieldValue(Text(last(x))) = ValueAt(q, a, b)
    BY <1>2
  <2> HIDE DEF a, b
  <2>8. \A i, j : FieldAt(q, i, j) /\ KeyAt(q, i, j) = x => i <= a
    BY <2>5 DEF a
  <2>9. map[KeyAt(q, a, b)] = ValueAt(q, a, b)
    BY <1>3, <2>6, <2>8
  <2> QED
    BY <2>6, <2>7, <2>9
<1> HIDE DEF D, last
<1>10. DOMAIN map = D
  BY <1>7, <1>8
<1>11. map = [x \in DOMAIN map |-> map[x]]
  <2>1. map \in [DOMAIN map -> Seq(Character)]
    BY <1>3, QueryMapIs
  <2> QED
    BY <2>1
<1> QED
  BY <1>1, <1>9, <1>10, <1>11
-----------------------------------------------------------------------------
(* _parseQueryMap() finds the meaning of the query.                        *)

(* The fields from a position on: one that ends at the next &, if that is  *)
(* not right there, and those behind it.                                   *)
LEMMA FieldsFrom ==
  ASSUME NEW q \in Seq(Character), NEW i \in 1 .. Len(q), i = 1 \/ q[i - 1] = "&",
         NEW p, p = Stop(q, {"&"}, i)
  PROVE  /\ p \in i .. Len(q) + 1 /\ Len(q) \in Nat
         /\ p <= Len(q) => q[p] = "&"
         /\ p # i => FieldAt(q, i, p - 1)
         /\ \A a, b : FieldAt(q, a, b) /\ a >= i => \/ p # i /\ a = i /\ b = p - 1
                                                    \/ a >= p + 1
<1>1. Len(q) \in Nat
  BY LenProperties
<1>2. i \in 1 .. Len(q) + 1
  BY <1>1
<1>3. /\ p \in i .. Len(q) + 1
      /\ p <= Len(q) => q[p] \in {"&"}
      /\ \A k \in i .. p - 1 : q[k] \notin {"&"}
  BY <1>2, StopFacts
<1>4. /\ p <= Len(q) => q[p] = "&"
      /\ \A k \in i .. p - 1 : q[k] # "&"
  BY <1>3
<1>5. ASSUME p # i PROVE FieldAt(q, i, p - 1)
  <2>1. p - 1 \in i .. Len(q) /\ (p - 1 = Len(q) \/ (p <= Len(q) /\ (p - 1) + 1 = p))
    BY <1>1, <1>3, <1>5
  <2>2. p - 1 = Len(q) \/ q[(p - 1) + 1] = "&"
    BY <1>4, <2>1
  <2> QED
    BY <1>4, <2>1, <2>2 DEF FieldAt
<1>6. ASSUME NEW a, NEW b, FieldAt(q, a, b), a >= i
      PROVE  (p # i /\ a = i /\ b = p - 1) \/ a >= p + 1
  <2>1. /\ a \in 1 .. Len(q) /\ b \in a .. Len(q)
        /\ \A k \in a .. b : q[k] # "&"
        /\ a = 1 \/ q[a - 1] = "&"
        /\ b = Len(q) \/ q[b + 1] = "&"
    BY <1>6 DEF FieldAt
  <2>2. CASE a = i
    <3>1. a \in a .. b
      BY <1>1, <2>1
    <3>2. p # i
      <4> SUFFICES ASSUME p = i PROVE FALSE
        OBVIOUS
      <4>1. q[a] = "&"
        BY <1>1, <1>4, <2>1, <2>2
      <4> QED
        BY <2>1, <3>1, <4>1
    <3>3. ~(b < p - 1)
      <4> SUFFICES ASSUME b < p - 1 PROVE FALSE
        OBVIOUS
      <4>1. b # Len(q) /\ b + 1 \in i .. p - 1
        BY <1>1, <1>3, <2>1, <2>2
      <4> QED
        BY <1>4, <2>1, <4>1
    <3>4. ~(b > p - 1)
      <4> SUFFICES ASSUME b > p - 1 PROVE FALSE
        OBVIOUS
      <4>1. p \in a .. b /\ p <= Len(q)
        BY <1>1, <1>3, <2>1, <2>2
      <4> QED
        BY <1>4, <2>1, <4>1
    <3> QED
      BY <1>1, <1>3, <2>1, <2>2, <3>2, <3>3, <3>4
  <2>3. CASE a # i
    <3>1. ~(a <= p)
      <4> SUFFICES ASSUME a <= p PROVE FALSE
        OBVIOUS
      <4>1. a # 1 /\ a - 1 \in i .. p - 1
        BY <1>1, <1>3, <1>6, <2>1, <2>3
      <4> QED
        BY <1>4, <2>1, <4>1
    <3> QED
      BY <1>1, <1>3, <2>1, <3>1
  <2> QED
    BY <2>2, <2>3
<1> QED
  BY <1>1, <1>3, <1>4, <1>5, <1>6

(* One turn of the loop adds what its field says.                          *)
LEMMA TurnMeans ==
  ASSUME NEW q \in Seq(Character), NEW i \in 1 .. Len(q), i = 1 \/ q[i - 1] = "&",
         NEW map, MeansFrom(map, q, Stop(q, {"&"}, i) + 1)
  PROVE  MeansFrom(FieldTurn(q, i, map), q, i)
<1> DEFINE p == Stop(q, {"&"}, i)
           b0 == p - 1
           x == SubSeq(q, i, b0)
           K == KeyAt(q, i, b0)
           V == ValueAt(q, i, b0)
           new == FieldTurn(q, i, map)
<1>1. /\ p \in i .. Len(q) + 1 /\ Len(q) \in Nat
      /\ p # i => FieldAt(q, i, b0)
      /\ \A a, b : FieldAt(q, a, b) /\ a >= i => \/ p # i /\ a = i /\ b = b0
                                                 \/ a >= p + 1
  BY FieldsFrom
<1>2. /\ map \in QueryMaps
      /\ \A y \in DOMAIN map : y # <<>> /\ \E a, b : FieldAt(q, a, b) /\ a >= p + 1 /\ KeyAt(q, a, b) = y
      /\ \A a, b : FieldAt(q, a, b) /\ a >= p + 1 /\ KeyAt(q, a, b) # <<>> => KeyAt(q, a, b) \in DOMAIN map
      /\ \A a, b : (/\ FieldAt(q, a, b) /\ a >= p + 1 /\ KeyAt(q, a, b) # <<>>
                    /\ \A c, d : FieldAt(q, c, d) /\ KeyAt(q, c, d) = KeyAt(q, a, b) => c <= a)
                   => map[KeyAt(q, a, b)] = ValueAt(q, a, b)
  BY DEF MeansFrom
<1>3. \A a, b : FieldAt(q, a, b) => a \in Nat
  BY <1>1 DEF FieldAt
<1>4. \A a, b : FieldAt(q, a, b) /\ a >= p + 1 => a >= i /\ ~(a <= i)
  BY <1>1, <1>3
<1>5. new \in QueryMaps
  BY <1>2, FieldTurnIs
<1>6. CASE p = i
  <2>1. new = map
    BY <1>6 DEF FieldTurn
  <2>2. \A a, b : FieldAt(q, a, b) /\ a >= i => a >= p + 1
    BY <1>1, <1>6
  <2>3. \A y \in DOMAIN map : y # <<>> /\ \E a, b : FieldAt(q, a, b) /\ a >= i /\ KeyAt(q, a, b) = y
    BY <1>2, <1>4
  <2>4. \A a, b : FieldAt(q, a, b) /\ a >= i /\ KeyAt(q, a, b) # <<>> => KeyAt(q, a, b) \in DOMAIN map
    BY <1>2, <2>2
  <2>5. \A a, b : (/\ FieldAt(q, a, b) /\ a >= i /\ KeyAt(q, a, b) # <<>>
                   /\ \A c, d : FieldAt(q, c, d) /\ KeyAt(q, c, d) = KeyAt(q, a, b) => c <= a)
                  => map[KeyAt(q, a, b)] = ValueAt(q, a, b)
    BY <1>2, <2>2
  <2> HIDE DEF new
  <2> QED
    BY <1>2, <2>1, <2>3, <2>4, <2>5 DEF MeansFrom, new
<1>7. CASE p # i
  <2>0. x \in Seq(Character) /\ x # <<>>
    <3> HIDE DEF p
    <3>1. i \in Nat \ {0} /\ b0 \in Nat /\ b0 <= Len(q) /\ i <= b0 /\ b0 - i + 1 # 0
      BY <1>1, <1>7
    <3> HIDE DEF b0
    <3>2. x \in Seq(Character) /\ Len(x) = IF i <= b0 THEN b0 - i + 1 ELSE 0
      BY <3>1, Piece
    <3>3. Len(x) # 0
      BY <3>1, <3>2
    <3> QED
      BY <3>2, <3>3, EmptySeq
  <2>1. new = Over(map, PairMap(x))
    BY <1>7 DEF FieldTurn
  <2>2. K = FieldKey(x) /\ V = FieldValue(x)
    BY DEF KeyAt, ValueAt
  <2> HIDE DEF p, b0, x, K, V, new
  <2>3. /\ PairMap(x) \in QueryMaps
        /\ K = <<>> => DOMAIN PairMap(x) = {}
        /\ K # <<>> => DOMAIN PairMap(x) = {K} /\ PairMap(x)[K] = V
    BY <2>0, <2>2, PairMapIs
  <2>4. /\ DOMAIN new = DOMAIN map \cup DOMAIN PairMap(x)
        /\ \A y \in DOMAIN map : new[y] = map[y]
        /\ \A y \in DOMAIN PairMap(x) : y \notin DOMAIN map => new[y] = PairMap(x)[y]
    BY <1>2, <2>1, <2>3, OverMaps
  <2>5. FieldAt(q, i, b0) /\ KeyAt(q, i, b0) = K /\ ValueAt(q, i, b0) = V /\ i >= i
    BY <1>1, <1>7 DEF K, V
  <2>6. ASSUME NEW y \in DOMAIN new
        PROVE  y # <<>> /\ \E a, b : FieldAt(q, a, b) /\ a >= i /\ KeyAt(q, a, b) = y
    <3>1. CASE y \in DOMAIN map
      <4>1. PICK a, b : FieldAt(q, a, b) /\ a >= p + 1 /\ KeyAt(q, a, b) = y
        BY <1>2, <3>1
      <4>2. a >= i
        BY <1>4, <4>1
      <4> QED
        BY <1>2, <3>1, <4>1, <4>2
    <3>2. CASE y \notin DOMAIN map
      <4>1. y = K /\ K # <<>>
        BY <2>3, <2>4, <3>2
      <4> QED
        BY <2>5, <4>1
    <3> QED
      BY <3>1, <3>2
  <2>7. ASSUME NEW a, NEW b, FieldAt(q, a, b), a >= i, KeyAt(q, a, b) # <<>>
        PROVE  KeyAt(q, a, b) \in DOMAIN new
    <3>1. CASE a = i /\ b = b0
      BY <2>3, <2>4, <2>5, <2>7, <3>1
    <3>2. CASE a >= p + 1
      BY <1>2, <2>4, <2>7, <3>2
    <3> QED
      BY <1>1, <2>7, <3>1, <3>2
  <2>8. ASSUME NEW a, NEW b, FieldAt(q, a, b), a >= i, KeyAt(q, a, b) # <<>>,
               \A c, d : FieldAt(q, c, d) /\ KeyAt(q, c, d) = KeyAt(q, a, b) => c <= a
        PROVE  new[KeyAt(q, a, b)] = ValueAt(q, a, b)
    <3>1. CASE a = i /\ b = b0
      <4>1. K \notin DOMAIN map
        <5> SUFFICES ASSUME K \in DOMAIN map PROVE FALSE
          OBVIOUS
        <5>1. PICK c, d : FieldAt(q, c, d) /\ c >= p + 1 /\ KeyAt(q, c, d) = K
          BY <1>2
        <5>2. c <= i
          BY <2>5, <2>8, <3>1, <5>1
        <5> QED
          BY <1>4, <5>1, <5>2
      <4>2. K # <<>>
        BY <2>5, <2>8, <3>1
      <4> QED
        BY <2>3, <2>4, <2>5, <3>1, <4>1, <4>2
    <3>2. CASE a >= p + 1
      <4>1. KeyAt(q, a, b) \in DOMAIN map /\ map[KeyAt(q, a, b)] = ValueAt(q, a, b)
        BY <1>2, <2>8, <3>2
      <4> QED
        BY <2>4, <4>1
    <3> QED
      BY <1>1, <2>8, <3>1, <3>2
  <2> QED
    BY <1>5, <2>6, <2>7, <2>8 DEF MeansFrom, new
<1> QED
  BY <1>6, <1>7

(* At every position the loop's map says what the fields from there on     *)
(* say.                                                                    *)
LEMMA MapMeans ==
  ASSUME NEW q \in Seq(Character)
  PROVE  \A i \in 1 .. Len(q) + 2 :
           i = 1 \/ i = Len(q) + 2 \/ q[i - 1] = "&" => MeansFrom(MapOf(q)[i], q, i)
<1> DEFINE L == Len(q)
           M == MapOf(q)
           Good(i) == i = 1 \/ i = L + 2 \/ q[i - 1] = "&"
           B == {n \in 0 .. L + 1 : Good(L + 2 - n) /\ ~MeansFrom(M[L + 2 - n], q, L + 2 - n)}
<1>1. L \in Nat
  BY LenProperties
<1>2. /\ M[L + 1] = <<>> /\ M[L + 2] = <<>>
      /\ \A i \in 1 .. L : M[i] = FieldTurn(q, i, M[Stop(q, {"&"}, i) + 1])
  BY MapOfDef
<1> HIDE DEF M, Good
<1>3. B = {}
  <2> SUFFICES ASSUME B # {} PROVE FALSE
    OBVIOUS
  <2>1. B \in SUBSET Nat
    BY <1>1
  <2>2. PICK n \in B : \A k \in B : n <= k
    <3> HIDE DEF B
    <3> QED
      BY <2>1, LeastNumber
  <2> DEFINE i == L + 2 - n
  <2>3. n \in 0 .. L + 1 /\ Good(i) /\ ~MeansFrom(M[i], q, i)
    BY <2>2
  <2>4. i \in 1 .. L + 2
    BY <1>1, <2>3
  <2> HIDE DEF i
  <2>5. CASE i > L
    <3>1. M[i] = <<>>
      BY <1>1, <1>2, <2>4, <2>5
    <3>2. \A a, b : FieldAt(q, a, b) => ~(a >= i)
      BY <1>1, <2>4, <2>5 DEF FieldAt
    <3> DEFINE z == <<>>
    <3>3. z \in QueryMaps /\ DOMAIN z = {} /\ M[i] = z
      <4>1. z \in QueryMaps /\ DOMAIN z = {}
        BY NoPairs, Zenon
      <4> QED
        BY <3>1, <4>1, Zenon
    <3> HIDE DEF z
    <3>4. MeansFrom(z, q, i)
      BY <3>2, <3>3 DEF MeansFrom
    <3> QED
      BY <2>3, <3>3, <3>4
  <2>6. CASE ~(i > L)
    <3> DEFINE p == Stop(q, {"&"}, i)
               m == L + 2 - (p + 1)
    <3>1. i \in 1 .. L /\ (i = 1 \/ q[i - 1] = "&")
      BY <1>1, <2>3, <2>4, <2>6 DEF Good
    <3>2. p \in i .. L + 1 /\ (p <= L => q[p] = "&")
      BY <3>1, FieldsFrom
    <3> HIDE DEF p
    <3>3. m \in 0 .. L + 1 /\ ~(n <= m) /\ L + 2 - m = p + 1
      BY <1>1, <2>3, <3>1, <3>2 DEF i
    <3>4. Good(p + 1)
      <4>1. p + 1 = L + 2 \/ (p <= L /\ (p + 1) - 1 = p)
        BY <1>1, <3>1, <3>2
      <4> QED
        BY <3>2, <4>1 DEF Good
    <3> HIDE DEF m
    <3>5. m \notin B
      <4> HIDE DEF B
      <4> QED
        BY <2>2, <3>3
    <3>6. MeansFrom(M[p + 1], q, p + 1)
      BY <3>3, <3>4, <3>5
    <3>7. MeansFrom(FieldTurn(q, i, M[p + 1]), q, i)
      BY <3>1, <3>6, TurnMeans DEF p
    <3>8. M[i] = FieldTurn(q, i, M[p + 1])
      BY <1>2, <3>1 DEF p
    <3> QED
      BY <2>3, <3>7, <3>8
  <2> QED
    BY <2>5, <2>6
<1>4. ASSUME NEW i \in 1 .. L + 2, Good(i) PROVE MeansFrom(M[i], q, i)
  <2> DEFINE n == L + 2 - i
  <2>1. n \in 0 .. L + 1 /\ L + 2 - n = i
    BY <1>1
  <2> HIDE DEF n
  <2> QED
    BY <1>3, <1>4, <2>1
<1> QED
  BY <1>4 DEF Good, M

(* The map of a query is its meaning.                                      *)
LEMMA QueryMeaning ==
  ASSUME NEW q \in Seq(Character)
  PROVE  ParseQueryMap(q) = Meaning(q) /\ ParseQueryMap(q) \in QueryMaps
<1>1. 1 \in 1 .. Len(q) + 2
  BY LenProperties
<1>2. MeansFrom(MapOf(q)[1], q, 1)
  BY <1>1, MapMeans
<1>3. MapOf(q)[1] \in QueryMaps
  BY <1>2 DEF MeansFrom
<1> QED
  BY <1>2, <1>3, MeansMeaning, QueryMapOf
(* Pieces with the same characters are the same.                           *)
LEMMA SamePiece ==
  ASSUME NEW s \in Seq(Character), NEW t \in Seq(Character),
         NEW i \in Nat \ {0}, NEW j \in Nat, i <= j, j <= Len(s), j <= Len(t),
         \A k \in i .. j : s[k] = t[k]
  PROVE  SubSeq(s, i, j) = SubSeq(t, i, j)
<1> DEFINE x == SubSeq(t, i, j)
           k == i - 1
<1>1. /\ x \in Seq(Character) /\ Len(x) = j - i + 1
      /\ \A a \in 1 .. j - i + 1 : x[a] = t[i + a - 1]
  BY Piece
<1>2. Len(s) \in Nat /\ k \in Nat /\ k + 1 = i /\ k + (j - i + 1) = j
  BY LenProperties
<1> HIDE DEF x
<1>3. \A a \in 1 .. Len(x) : s[k + a] = x[a]
  <2> TAKE a \in 1 .. Len(x)
  <2>1. a \in 1 .. j - i + 1 /\ i + a - 1 \in i .. j /\ k + a = i + a - 1
    BY <1>1, <1>2
  <2> QED
    BY <1>1, <2>1
<1>4. k + Len(x) <= Len(s) /\ k + Len(x) = j
  BY <1>1, <1>2
<1> HIDE DEF k
<1>5. SubSeq(s, k + 1, k + Len(x)) = x
  BY <1>1, <1>2, <1>3, <1>4, PieceIs
<1>6. SubSeq(s, i, j) = x
  BY <1>2, <1>4, <1>5
<1> QED
  BY <1>6 DEF x

-----------------------------------------------------------------------------
(* The fields of a text that grows by one.                                 *)

\* The texts of the fields of a query.
FieldTexts(q) ==
  {z \in Seq(Character) : \E i, j : FieldAt(q, i, j) /\ SubSeq(q, i, j) = z}

\* What addQuery() puts a further field behind.
Opened(t) == IF t = <<>> THEN <<>> ELSE t \o <<"&">>

(* The text before a further field, character by character.                *)
LEMMA OpenedIs ==
  ASSUME NEW t \in Seq(Character)
  PROVE  /\ Opened(t) \in Seq(Character) /\ Len(t) \in Nat /\ (t = <<>> <=> Len(t) = 0)
         /\ Len(Opened(t)) = IF t = <<>> THEN 0 ELSE Len(t) + 1
         /\ \A i \in 1 .. Len(t) : Opened(t)[i] = t[i]
         /\ t # <<>> => Opened(t)[Len(t) + 1] = "&"
<1>1. Len(t) \in Nat /\ (t = <<>> <=> Len(t) = 0)
  BY LenProperties, EmptySeq
<1>2. CASE t = <<>>
  <2>1. Opened(t) = t /\ Len(t) = 0
    BY <1>1, <1>2 DEF Opened
  <2>2. t # <<>> => Opened(t)[Len(t) + 1] = "&"
    BY <1>2
  <2>3. \A i \in 1 .. Len(t) : Opened(t)[i] = t[i]
    BY <2>1
  <2>4. Len(Opened(t)) = IF t = <<>> THEN 0 ELSE Len(t) + 1
    BY <1>2, <2>1
  <2> QED
    BY <1>1, <2>1, <2>2, <2>3, <2>4, Zenon
<1>3. CASE t # <<>>
  <2> DEFINE y == <<"&">>
  <2>1. y \in Seq(Character) /\ Len(y) = 1 /\ y[1] = "&" /\ 1 \in 1 .. 1
    BY DEF Character
  <2>2. Opened(t) = t \o y
    BY <1>3 DEF Opened
  <2> HIDE DEF y
  <2>3. /\ t \o y \in Seq(Character) /\ Len(t \o y) = Len(t) + Len(y)
        /\ \A i \in 1 .. Len(t) : (t \o y)[i] = t[i]
        /\ \A i \in 1 .. Len(y) : (t \o y)[Len(t) + i] = y[i]
    BY <2>1, CatIs
  <2>4. (t \o y)[Len(t) + 1] = "&"
    BY <2>1, <2>3
  <2> QED
    BY <1>1, <1>3, <2>1, <2>2, <2>3, <2>4
<1> QED
  BY <1>2, <1>3

\* The text with one more field.
Longer(t, x) == Opened(t) \o x

(* Its fields are those of t, and x.                                       *)
LEMMA OneMoreField ==
  ASSUME NEW t \in Seq(Character), NEW x \in Seq(Character), x # <<>>,
         \A i \in 1 .. Len(x) : x[i] # "&",
         NEW u, u = Longer(t, x)
  PROVE  u \in Seq(Character) /\ FieldTexts(u) = FieldTexts(t) \cup {x}
<1> DEFINE o == Opened(t)
           n == Len(t)
           p == Len(o)
           m == Len(x)
<1>1. /\ o \in Seq(Character) /\ n \in Nat /\ (t = <<>> <=> n = 0)
      /\ p = IF t = <<>> THEN 0 ELSE n + 1
      /\ \A i \in 1 .. n : o[i] = t[i]
      /\ t # <<>> => o[n + 1] = "&"
  BY OpenedIs
<1>2. m \in Nat /\ m # 0
  BY LenProperties, EmptySeq
<1> HIDE DEF o
<1>3. /\ u \in Seq(Character) /\ Len(u) = p + m /\ p \in Nat
      /\ \A i \in 1 .. p : u[i] = o[i]
      /\ \A i \in 1 .. m : u[p + i] = x[i]
  <2>1. u = o \o x
    BY DEF o, Longer
  <2>2. /\ o \o x \in Seq(Character)
        /\ Len(o) \in Nat /\ Len(o \o x) = Len(o) + Len(x)
        /\ \A i \in 1 .. Len(o) : (o \o x)[i] = o[i]
        /\ \A i \in 1 .. Len(x) : (o \o x)[Len(o) + i] = x[i]
    BY <1>1, CatIs
  <2> QED
    BY <2>1, <2>2, Zenon
<1> DEFINE l == Len(u)
<1>4. l = p + m /\ l \in Nat /\ n \in Nat /\ p \in Nat /\ m \in Nat /\ m # 0
  BY <1>1, <1>2, <1>3
<1>5. /\ n = 0 => p = 0
      /\ n # 0 => p = n + 1 /\ u[n + 1] = "&"
  <2>1. CASE t = <<>>
    BY <1>1, <2>1
  <2>2. CASE t # <<>>
    <3>1. n # 0 /\ p = n + 1 /\ o[n + 1] = "&" /\ n + 1 \in 1 .. p
      BY <1>1, <1>4, <2>2
    <3> QED
      BY <1>3, <3>1
  <2> QED
    BY <2>1, <2>2
<1>6. \A i \in 1 .. n : u[i] = t[i]
  <2> TAKE i \in 1 .. n
  <2>1. i \in 1 .. p
    BY <1>4, <1>5
  <2> QED
    BY <1>1, <1>3, <2>1
<1>7. \A i \in p + 1 .. l : u[i] # "&"
  <2> TAKE i \in p + 1 .. l
  <2>1. i - p \in 1 .. m /\ p + (i - p) = i
    BY <1>4
  <2>2. u[p + (i - p)] = x[i - p] /\ x[i - p] # "&"
    BY <1>3, <2>1
  <2> QED
    BY <2>1, <2>2
<1>8. u \in Seq(Character)
  BY <1>3
<1> HIDE DEF p, m, n, l
<1>9. \A i, j : FieldAt(u, i, j) <=>
        /\ i \in 1 .. l /\ j \in i .. l
        /\ \A k \in i .. j : u[k] # "&"
        /\ i = 1 \/ u[i - 1] = "&"
        /\ j = l \/ u[j + 1] = "&"
  BY DEF FieldAt, l
<1>10. \A i, j : FieldAt(t, i, j) <=>
        /\ i \in 1 .. n /\ j \in i .. n
        /\ \A k \in i .. j : t[k] # "&"
        /\ i = 1 \/ t[i - 1] = "&"
        /\ j = n \/ t[j + 1] = "&"
  BY DEF FieldAt, n
<1>11. FieldAt(u, p + 1, l)
  <2>1. p + 1 \in 1 .. l /\ l \in p + 1 .. l
    BY <1>4
  <2>2. p = 0 \/ u[p] = "&"
    <3>1. CASE n = 0
      BY <1>5, <3>1
    <3>2. CASE n # 0
      <4>1. p = n + 1 /\ u[n + 1] = "&" 
        BY <1>4, <1>5, <3>2
      <4> QED
        BY <4>1
    <3> QED
      BY <3>1, <3>2
  <2> DEFINE q == p + 1
  <2> HIDE DEF q
  <2>3. q \in 1 .. l /\ l \in q .. l /\ (\A k \in q .. l : u[k] # "&") /\ (q = 1 \/ u[q - 1] = "&")
    <3>1. q \in 1 .. l /\ l \in q .. l
      BY <2>1 DEF q
    <3>2. \A k \in q .. l : u[k] # "&"
      BY <1>7 DEF q
    <3>3. q = 1 \/ u[q - 1] = "&"
      <4>1. q - 1 = p
        BY <1>4 DEF q
      <4>2. CASE p = 0
        BY <4>2 DEF q
      <4>3. CASE u[p] = "&"
        BY <4>1, <4>3
      <4> QED
        BY <2>2, <4>2, <4>3, Zenon
    <3> QED
      BY <3>1, <3>2, <3>3, Zenon
  <2>4. FieldAt(u, q, l)
    BY <1>9, <2>3, Zenon
  <2> QED
    BY <2>4 DEF q
<1>12. SubSeq(u, p + 1, l) = x
  <2>1. SubSeq(u, p + 1, p + Len(x)) = x
    <3>1. p \in Nat /\ p + Len(x) <= Len(u) /\ \A i \in 1 .. Len(x) : u[p + i] = x[i]
      BY <1>3, <1>4 DEF l, m
    <3> QED
      BY <1>8, <3>1, PieceIs
  <2> QED
    BY <1>4, <2>1 DEF m
<1>13. ASSUME NEW i, NEW j, FieldAt(t, i, j)
       PROVE  FieldAt(u, i, j) /\ SubSeq(u, i, j) = SubSeq(t, i, j)
  <2>1. /\ i \in 1 .. n /\ j \in i .. n
        /\ \A k \in i .. j : t[k] # "&"
        /\ i = 1 \/ t[i - 1] = "&"
        /\ j = n \/ t[j + 1] = "&"
    BY <1>10, <1>13
  <2>2. n # 0 /\ p = n + 1 /\ u[n + 1] = "&"
    <3>1. n # 0
      BY <1>4, <2>1
    <3> QED
      BY <1>5, <3>1
  <2>3. i \in 1 .. l /\ j \in i .. l
    BY <1>4, <2>1, <2>2
  <2>4. \A k \in i .. j : u[k] # "&"
    <3> TAKE k \in i .. j
    <3>1. k \in 1 .. n
      BY <1>4, <2>1
    <3> QED
      BY <1>6, <2>1, <3>1
  <2>5. i = 1 \/ u[i - 1] = "&"
    <3> SUFFICES ASSUME i # 1 PROVE u[i - 1] = "&"
      OBVIOUS
    <3>1. i - 1 \in 1 .. n /\ t[i - 1] = "&"
      BY <1>4, <2>1
    <3> QED
      BY <1>6, <3>1
  <2>6. u[j + 1] = "&"
    <3>1. CASE j = n
      BY <2>2, <3>1
    <3>2. CASE j # n
      <4>1. j + 1 \in 1 .. n /\ t[j + 1] = "&"
        BY <1>4, <2>1, <3>2
      <4> QED
        BY <1>6, <4>1
    <3> QED
      BY <3>1, <3>2
  <2>7. FieldAt(u, i, j)
    BY <1>9, <2>3, <2>4, <2>5, <2>6
  <2>8. i \in Nat \ {0} /\ j \in Nat /\ i <= j /\ j <= Len(u) /\ j <= Len(t)
    BY <1>4, <2>1, <2>3 DEF l, n
  <2>9. \A k \in i .. j : u[k] = t[k]
    <3> TAKE k \in i .. j
    <3>1. k \in 1 .. n
      BY <1>4, <2>1
    <3> QED
      BY <1>6, <3>1
  <2>10. SubSeq(u, i, j) = SubSeq(t, i, j)
    BY <1>8, <2>8, <2>9, SamePiece
  <2> QED
    BY <2>7, <2>10
<1>14. ASSUME NEW i, NEW j, FieldAt(u, i, j)
       PROVE  (i = p + 1 /\ j = l) \/ FieldAt(t, i, j)
  <2>1. /\ i \in 1 .. l /\ j \in i .. l
        /\ \A k \in i .. j : u[k] # "&"
        /\ i = 1 \/ u[i - 1] = "&"
        /\ j = l \/ u[j + 1] = "&"
    BY <1>9, <1>14
  <2>2. CASE i > p
    <3>1. i = p + 1
      <4> SUFFICES ASSUME i # p + 1 PROVE FALSE
        OBVIOUS
      <4>1. i - 1 \in p + 1 .. l /\ i # 1
        BY <1>4, <2>1, <2>2
      <4> QED
        BY <1>7, <2>1, <4>1
    <3>2. j = l
      <4> SUFFICES ASSUME j # l PROVE FALSE
        OBVIOUS
      <4>1. j + 1 \in p + 1 .. l
        BY <1>4, <2>1, <2>2
      <4> QED
        BY <1>7, <2>1, <4>1
    <3> QED
      BY <3>1, <3>2
  <2>3. CASE ~(i > p)
    <3>1. n # 0 /\ p = n + 1 /\ u[n + 1] = "&"
      <4>1. CASE n = 0
        <5>1. p = 0 /\ i \in Nat /\ i # 0
          BY <1>4, <1>5, <2>1, <4>1
        <5> QED
          BY <2>3, <5>1
      <4> QED
        BY <1>5, <4>1
    <3>2. n + 1 \notin i .. j
      BY <2>1, <3>1
    <3>3. i \in 1 .. n /\ j \in i .. n
      BY <1>4, <2>1, <2>3, <3>1, <3>2
    <3>4. \A k \in i .. j : t[k] # "&"
      <4> TAKE k \in i .. j
      <4>1. k \in 1 .. n
        BY <1>4, <3>3
      <4> QED
        BY <1>6, <2>1, <4>1
    <3>5. i = 1 \/ t[i - 1] = "&"
      <4> SUFFICES ASSUME i # 1 PROVE t[i - 1] = "&"
        OBVIOUS
      <4>1. i - 1 \in 1 .. n
        BY <1>4, <3>3
      <4> QED
        BY <1>6, <2>1, <4>1
    <3>6. j = n \/ t[j + 1] = "&"
      <4> SUFFICES ASSUME j # n PROVE t[j + 1] = "&"
        OBVIOUS
      <4>1. j + 1 \in 1 .. n /\ j # l
        BY <1>4, <3>1, <3>3
      <4> QED
        BY <1>6, <2>1, <4>1
    <3> QED
      BY <1>10, <3>3, <3>4, <3>5, <3>6
  <2> QED
    BY <2>2, <2>3
<1>15. ASSUME NEW z \in FieldTexts(u) PROVE z \in FieldTexts(t) \cup {x}
  <2>1. z \in Seq(Character) /\ \E i, j : FieldAt(u, i, j) /\ SubSeq(u, i, j) = z
    BY DEF FieldTexts
  <2>2. PICK i, j : FieldAt(u, i, j) /\ SubSeq(u, i, j) = z
    BY <2>1
  <2>3. CASE i = p + 1 /\ j = l
    BY <1>12, <2>2, <2>3
  <2>4. CASE FieldAt(t, i, j)
    <3>1. SubSeq(t, i, j) = z
      BY <1>13, <2>2, <2>4
    <3> QED
      BY <2>1, <2>4, <3>1 DEF FieldTexts
  <2> QED
    BY <1>14, <2>2, <2>3, <2>4
<1>16. ASSUME NEW z \in FieldTexts(t) PROVE z \in FieldTexts(u)
  <2>1. z \in Seq(Character) /\ \E i, j : FieldAt(t, i, j) /\ SubSeq(t, i, j) = z
    BY DEF FieldTexts
  <2>2. PICK i, j : FieldAt(t, i, j) /\ SubSeq(t, i, j) = z
    BY <2>1
  <2>3. FieldAt(u, i, j) /\ SubSeq(u, i, j) = z
    BY <1>13, <2>2
  <2> QED
    BY <2>1, <2>3 DEF FieldTexts
<1>17. x \in FieldTexts(u)
  BY <1>11, <1>12 DEF FieldTexts
<1> QED
  BY <1>8, <1>15, <1>16, <1>17
-----------------------------------------------------------------------------
(* The loop of addQuery().                                                 *)

\* What it writes for a pair.
Written(k, v) == k \o <<"=">> \o v

(* Its key and its value are found again.                                  *)
LEMMA WrittenIs ==
  ASSUME NEW k \in Seq(Character), NEW v \in Seq(Character), NEW x, x = Written(k, v)
  PROVE  /\ x \in Seq(Character) /\ x # <<>>
         /\ (\A i \in 1 .. Len(k) : k[i] # "=") => FieldKey(x) = k /\ FieldValue(x) = v
         /\ (/\ \A i \in 1 .. Len(k) : k[i] # "&"
             /\ \A i \in 1 .. Len(v) : v[i] # "&")
            => \A i \in 1 .. Len(x) : x[i] # "&"
<1> DEFINE y == <<"=">>
<1>1. y \in Seq(Character) /\ Len(y) = 1 /\ y[1] = "=" /\ 1 \in 1 .. Len(y)
  BY DEF Character
<1>2. x = k \o y \o v
  BY DEF Written
<1> HIDE DEF y
<1>3. PICK n1, n2, n3 : Row3(k \o y \o v, k, y, v, n1, n2, n3)
  BY <1>1, ThreePieces
<1>4. Row3(x, k, y, v, n1, n2, n3)
  BY <1>2, <1>3, Zenon
<1>5. /\ x \in Seq(Character) /\ Len(x) = n3
      /\ n1 \in Nat /\ n2 \in Nat /\ n3 \in Nat
      /\ n1 = Len(k) /\ n2 = n1 + Len(y) /\ n3 = n2 + Len(v)
  BY <1>4, Zenon DEF Row3
<1>6. \A i \in 1 .. Len(k) : x[i] = k[i]
  BY <1>4, Zenon DEF Row3
<1>7. \A i \in 1 .. Len(y) : x[n1 + i] = y[i]
  BY <1>4, Zenon DEF Row3
<1>8. \A i \in 1 .. Len(v) : x[n2 + i] = v[i]
  BY <1>4, Zenon DEF Row3
<1>9. x[n1 + 1] = "=" /\ n2 = n1 + 1 /\ Len(v) \in Nat /\ n3 = n1 + 1 + Len(v)
  <2>1. x[n1 + 1] = "="
    BY <1>1, <1>7
  <2>2. Len(v) \in Nat
    BY LenProperties
  <2> QED
    BY <1>1, <1>5, <2>1, <2>2
<1>10. x # <<>>
  <2>1. Len(x) # 0
    BY <1>5, <1>9
  <2> QED
    BY <1>5, <2>1, EmptySeq
<1>11. ASSUME \A i \in 1 .. Len(k) : k[i] # "="
       PROVE  FieldKey(x) = k /\ FieldValue(x) = v
  <2> DEFINE e == n1 + 1
  <2>1. Stop(x, {"="}, 1) = e
    <3>1. 1 \in 1 .. Len(x) + 1 /\ e \in 1 .. Len(x) + 1 /\ x[e] \in {"="}
      BY <1>5, <1>9
    <3>2. \A i \in 1 .. e - 1 : x[i] \notin {"="}
      <4> TAKE i \in 1 .. e - 1
      <4>1. i \in 1 .. Len(k)
        BY <1>5
      <4> QED
        BY <1>6, <1>11, <4>1
    <3> HIDE DEF e
    <3> QED
      BY <1>5, <3>1, <3>2, StopIs
  <2>2. FieldKey(x) = SubSeq(x, 1, e - 1) /\ FieldValue(x) = From(x, e + 1)
    <3> HIDE DEF e
    <3> QED
      BY <1>5, <2>1, FieldParts
  <2>3. SubSeq(x, 1, e - 1) = k
    <3>1. 0 \in Nat /\ 0 + Len(k) <= Len(x) /\ 0 + 1 = 1 /\ 0 + Len(k) = e - 1
      BY <1>5, <1>9
    <3>2. \A i \in 1 .. Len(k) : x[0 + i] = k[i]
      <4> TAKE i \in 1 .. Len(k)
      <4>1. 0 + i = i
        BY <1>5
      <4> QED
        BY <1>6, <4>1
    <3>3. SubSeq(x, 0 + 1, 0 + Len(k)) = k
      BY <1>5, <3>1, <3>2, PieceIs
    <3> QED
      BY <3>1, <3>3
  <2>4. From(x, e + 1) = v
    <3>1. n2 \in Nat /\ n2 + Len(v) <= Len(x) /\ n2 + 1 = e + 1 /\ n2 + Len(v) = Len(x)
      BY <1>5, <1>9
    <3>2. SubSeq(x, n2 + 1, n2 + Len(v)) = v
      BY <1>5, <1>8, <3>1, PieceIs
    <3> QED
      BY <3>1, <3>2 DEF From
  <2> QED
    BY <2>2, <2>3, <2>4
<1>12. ASSUME \A i \in 1 .. Len(k) : k[i] # "&", \A i \in 1 .. Len(v) : v[i] # "&",
              NEW i \in 1 .. Len(x)
       PROVE  x[i] # "&"
  <2>1. CASE i <= n1
    <3>1. i \in 1 .. Len(k)
      BY <1>5, <2>1
    <3> QED
      BY <1>6, <1>12, <3>1
  <2>2. CASE i = n1 + 1
    BY <1>9, <2>2
  <2>3. CASE i > n1 + 1
    <3>1. i - n2 \in 1 .. Len(v) /\ n2 + (i - n2) = i
      BY <1>5, <1>9, <2>3
    <3>2. x[n2 + (i - n2)] = v[i - n2] /\ v[i - n2] # "&"
      BY <1>8, <1>12, <3>1
    <3> QED
      BY <3>1, <3>2
  <2> QED
    BY <1>5, <2>1, <2>2, <2>3
<1> QED
  BY <1>5, <1>10, <1>11, <1>12

\* The recursive function of RebuildQuery.
TextOf(map, keys) ==
  CHOOSE f : f = [i \in 0 .. Len(keys) |->
    IF i = 0 THEN <<>>
    ELSE (IF f[i - 1] = <<>> THEN <<>> ELSE f[i - 1] \o <<"&">>)
           \o (keys[i] \o <<"=">> \o map[keys[i]])]

(* RebuildQuery is that function at the last key.                          *)
LEMMA RebuildOf ==
  ASSUME NEW map, NEW keys, keys = SetToSeq(DOMAIN map)
  PROVE  RebuildQuery(map) = TextOf(map, keys)[Len(keys)]
BY DEF RebuildQuery, TextOf

(* One turn of the loop.                                                   *)
LEMMA LongerIs ==
  ASSUME NEW t, NEW k, NEW v
  PROVE  (IF t = <<>> THEN <<>> ELSE t \o <<"&">>) \o (k \o <<"=">> \o v)
           = Longer(t, Written(k, v))
BY DEF Longer, Opened, Written

(* A text with one more field is a text.                                   *)
LEMMA LongerType ==
  ASSUME NEW t \in Seq(Character), NEW x \in Seq(Character)
  PROVE  Longer(t, x) \in Seq(Character)
BY OpenedIs, CatIs DEF Longer

(* SetToSeq lists all of a finite set.                                     *)
LEMMA ListsAll ==
  ASSUME NEW S, IsFiniteSet(S), NEW keys, keys = SetToSeq(S)
  PROVE  /\ keys \in Seq(S)
         /\ \A x \in S : \E i \in 1 .. Len(keys) : keys[i] = x
<1> DEFINE c == Cardinality(S)
<1>1. c \in Nat /\ \E g : g \in Bijection(1 .. c, S)
  BY FS_CardinalityType DEF ExistsBijection
<1>2. PICK g : g \in Bijection(1 .. c, S)
  BY <1>1
<1>3. g \in [1 .. c -> S] /\ IsInjective(g)
  BY <1>2 DEF Bijection, Injection
<1>4. keys \in [1 .. c -> S] /\ IsInjective(keys)
  BY <1>3 DEF SetToSeq
<1> HIDE DEF c
<1>5. Cardinality(Range(keys)) = c
  <2>1. keys \in Bijection(1 .. c, Range(keys))
    BY <1>4, Fun_InjMeansBijImage DEF Injection
  <2>2. IsFiniteSet(1 .. c) /\ Cardinality(1 .. c) = c
    BY <1>1, FS_Interval
  <2> QED
    BY <2>1, <2>2, FS_Bijection DEF ExistsBijection
<1>6. Range(keys) \in SUBSET S
  BY <1>4 DEF Range
<1>7. Range(keys) = S
  BY <1>5, <1>6, FS_Subset DEF c
<1>8. keys \in Seq(S) /\ Len(keys) = c
  BY <1>1, <1>4
<1>9. DOMAIN keys = 1 .. Len(keys)
  BY <1>4, <1>8
<1> QED
  BY <1>7, <1>8, <1>9 DEF Range

(* The function exists, and adds one pair after the other.                 *)
LEMMA TextOfDef ==
  ASSUME NEW map \in QueryMaps, NEW keys \in Seq(DOMAIN map)
  PROVE  /\ TextOf(map, keys) \in [0 .. Len(keys) -> Seq(Character)]
         /\ TextOf(map, keys)[0] = <<>>
         /\ \A i \in 1 .. Len(keys) :
              TextOf(map, keys)[i] =
                Longer(TextOf(map, keys)[i - 1], Written(keys[i], map[keys[i]]))
<1> DEFINE L == Len(keys)
           Added(i) == Written(keys[i], map[keys[i]])
           T == Seq(Character)
<1>1. L \in Nat /\ \A i \in 1 .. L : keys[i] \in DOMAIN map
  BY LenProperties, ElementOfSeq
<1>2. \A i \in 1 .. L : Added(i) \in T
  <2> TAKE i \in 1 .. L
  <2>1. keys[i] \in Seq(Character) /\ map[keys[i]] \in Seq(Character)
    BY <1>1, QueryMapIs
  <2> QED
    BY <2>1, WrittenIs
<1> HIDE DEF Added
<1> DEFINE base == [n \in Nat |-> <<>>]
           Pred == [n \in Nat |-> IF n = 0 THEN 0 ELSE n - 1]
           Next1(n, y) == IF n \in 1 .. L THEN Longer(y, Added(n)) ELSE y
           F    == [x \in Nat \X T |-> Next1(x[1], x[2])]
           Rule(f) == f = [i \in 0 .. Len(keys) |->
                             IF i = 0 THEN <<>>
                             ELSE (IF f[i - 1] = <<>> THEN <<>> ELSE f[i - 1] \o <<"&">>)
                                    \o (keys[i] \o <<"=">> \o map[keys[i]])]
           Turned(f, i) == IF i = 0 THEN <<>> ELSE Longer(f[i - 1], Added(i))
<1>3. \A f : Rule(f) <=> f = [i \in 0 .. L |-> Turned(f, i)]
  <2> TAKE f
  <2>1. \A i \in 0 .. L :
          Turned(f, i) = IF i = 0 THEN <<>>
                         ELSE (IF f[i - 1] = <<>> THEN <<>> ELSE f[i - 1] \o <<"&">>)
                                \o (keys[i] \o <<"=">> \o map[keys[i]])
    <3> TAKE i \in 0 .. L
    <3>1. (IF f[i - 1] = <<>> THEN <<>> ELSE f[i - 1] \o <<"&">>)
            \o (keys[i] \o <<"=">> \o map[keys[i]])
          = Longer(f[i - 1], Written(keys[i], map[keys[i]]))
      BY LongerIs
    <3> QED
      BY <3>1, Zenon DEF Added
  <2> HIDE DEF Turned
  <2> QED
    BY <2>1, Zenon
<1>4. TextOf(map, keys) = CHOOSE f : Rule(f)
  BY DEF TextOf
<1> HIDE DEF Rule
<1>5. \A n \in Nat : \A y \in T : Next1(n, y) \in T
  BY <1>2, LongerType
<1>6. \A n \in Nat : \A y \in T : F[<<n, y>>] = Next1(n, y)
  <2> HIDE DEF Next1, T
  <2> QED
    OBVIOUS
<1>7. F \in [Nat \X T -> T]
  <2> HIDE DEF Next1, T
  <2>1. \A x \in Nat \X T : x[1] \in Nat /\ x[2] \in T
    OBVIOUS
  <2> QED
    BY <1>5, <2>1
<1>8. base \in [Nat -> T] /\ Pred \in [Nat -> Nat] /\ \A n \in Nat : n >= 1 => Pred[n] < n
  <2>1. <<>> \in T
    BY EmptySeq
  <2> QED
    BY <2>1
<1>9. /\ \A n \in Nat : base[n] = <<>>
      /\ \A n \in Nat : n # 0 => Pred[n] = n - 1
  OBVIOUS
<1> HIDE DEF base, Pred, F, T
<1>10. IsRule(T, 1, base, Pred, F)
  <2>1. 1 \in Nat \ {0}
    OBVIOUS
  <2> QED
    BY <1>7, <1>8, <2>1, Zenon DEF IsRule
<1>11. PICK h : Solves(h, T, 1, base, Pred, F)
  BY <1>10, Recursion
<1>12. h \in [Nat -> T] /\ \A n \in Nat : h[n] = IF n < 1 THEN base[n] ELSE F[<<n, h[Pred[n]]>>]
  BY <1>11 DEF Solves
<1>13. h[0] = <<>>
  <2>1. 0 \in Nat /\ 0 < 1
    OBVIOUS
  <2>2. h[0] = base[0] /\ base[0] = <<>>
    BY <1>9, <1>12, <2>1
  <2> QED
    BY <2>2
<1>14. ASSUME NEW i \in 1 .. L PROVE h[i] = Longer(h[i - 1], Added(i))
  <2>1. i \in Nat /\ ~(i < 1) /\ Pred[i] = i - 1 /\ i - 1 \in Nat
    BY <1>1, <1>9
  <2>2. h[i - 1] \in T
    BY <1>12, <2>1
  <2>3. h[i] = F[<<i, h[i - 1]>>]
    BY <1>12, <2>1
  <2>4. h[i] = Next1(i, h[i - 1])
    BY <1>6, <2>1, <2>2, <2>3
  <2> QED
    BY <2>4
<1> DEFINE f == [i \in 0 .. L |-> h[i]]
<1>15. Rule(f)
  <2>1. \A i \in 0 .. L : i # 0 => i \in 1 .. L /\ i - 1 \in 0 .. L
    BY <1>1
  <2>2. \A i \in 0 .. L : f[i] = h[i]
    OBVIOUS
  <2>3. ASSUME NEW i \in 0 .. L PROVE h[i] = Turned(f, i)
    <3> HIDE DEF f
    <3>1. CASE i = 0
      BY <1>13, <3>1
    <3>2. CASE i # 0
      <4>1. f[i - 1] = h[i - 1] /\ h[i] = Longer(h[i - 1], Added(i))
        BY <1>14, <2>1, <2>2, <3>2
      <4> QED
        BY <3>2, <4>1
    <3> QED
      BY <3>1, <3>2
  <2>4. f = [i \in 0 .. L |-> Turned(f, i)]
    <3> HIDE DEF Turned
    <3> QED
      BY <2>3
  <2> HIDE DEF f, Turned
  <2> QED
    BY <1>3, <2>4
<1>16. Rule(TextOf(map, keys))
  <2> HIDE DEF f
  <2> QED
    BY <1>4, <1>15
<1> DEFINE r == TextOf(map, keys)
<1> HIDE DEF r
<1>17. r = [i \in 0 .. L |-> Turned(r, i)]
  BY <1>3, <1>16 DEF r
<1>18. /\ r = [i \in 0 .. L |-> r[i]]
       /\ r[0] = <<>>
       /\ \A i \in 1 .. L : r[i] = Longer(r[i - 1], Added(i))
  <2>1. 0 \in 0 .. L /\ \A i \in 1 .. L : i \in 0 .. L /\ i # 0
    BY <1>1
  <2>2. \A i \in 0 .. L : r[i] = Turned(r, i)
    <3> HIDE DEF Turned
    <3> QED
      BY <1>17
  <2>3. r = [i \in 0 .. L |-> r[i]]
    <3> HIDE DEF Turned
    <3> QED
      BY <1>17, <2>2
  <2> QED
    BY <2>1, <2>2, <2>3
<1>19. \A i \in 0 .. L : r[i] = h[i]
  <2> DEFINE Bad == {i \in 0 .. L : r[i] # h[i]}
  <2> SUFFICES ASSUME Bad # {} PROVE FALSE
    OBVIOUS
  <2>1. Bad \in SUBSET Nat
    BY <1>1
  <2>2. PICK i \in Bad : \A j \in Bad : i <= j
    BY <2>1, LeastNumber
  <2>3. i \in 0 .. L /\ r[i] # h[i] /\ i # 0
    BY <1>13, <1>18, <2>2
  <2>4. i \in 1 .. L /\ i - 1 \in 0 .. L /\ i - 1 \in Nat /\ i - 1 < i
    BY <1>1, <2>3
  <2>5. i - 1 \notin Bad
    BY <2>2, <2>4
  <2>6. r[i - 1] = h[i - 1]
    BY <2>4, <2>5
  <2> QED
    BY <1>14, <1>18, <2>3, <2>4, <2>6
<1>20. \A i \in 0 .. L : r[i] \in T
  BY <1>1, <1>12, <1>19
<1>21. r \in [0 .. L -> T]
  BY <1>18, <1>20
<1> QED
  BY <1>18, <1>21 DEF r, T, Added

(* An empty text has no fields.                                            *)
LEMMA NoFields == FieldTexts(<<>>) = {}
<1>1. Len(<<>>) = 0 /\ 1 .. 0 = {}
  OBVIOUS
<1> QED
  BY <1>1 DEF FieldTexts, FieldAt

(* The characters of a plain map.                                          *)
LEMMA PlainPair ==
  ASSUME NEW map \in QueryMaps, PlainMap(map), NEW k \in DOMAIN map
  PROVE  /\ k # <<>> /\ k \in Seq(Character) /\ map[k] \in Seq(Character)
         /\ Written(k, map[k]) \in Seq(Character) /\ Written(k, map[k]) # <<>>
         /\ FieldKey(Written(k, map[k])) = k
         /\ FieldValue(Written(k, map[k])) = map[k]
         /\ \A i \in 1 .. Len(Written(k, map[k])) : Written(k, map[k])[i] # "&"
<1>1. k \in Seq(Character) /\ map[k] \in Seq(Character)
  BY QueryMapIs
<1>2. k # <<>> /\ Free(k, {"&", "="}) /\ Free(map[k], {"&"})
  BY DEF PlainMap
<1> DEFINE v == map[k]
<1>3. /\ \A i \in 1 .. Len(k) : k[i] # "=" /\ k[i] # "&"
      /\ \A i \in 1 .. Len(v) : v[i] # "&"
  <2>1. \A s \in Seq(Character) : \A i \in 1 .. Len(s) : s[i] \in ToSet(s)
    BY DEF ToSet
  <2>2. \A i \in 1 .. Len(k) : k[i] \in ToSet(k)
    BY <1>1, <2>1
  <2>3. \A i \in 1 .. Len(v) : v[i] \in ToSet(v)
    BY <1>1, <2>1
  <2>4. "=" \notin ToSet(k) /\ "&" \notin ToSet(k) /\ "&" \notin ToSet(v)
    BY <1>2, Zenon DEF Free
  <2> QED
    BY <2>2, <2>3, <2>4, Zenon
<1> HIDE DEF v
<1>4. v \in Seq(Character)
  BY <1>1 DEF v
<1> DEFINE x == Written(k, v)
<1>5. /\ x \in Seq(Character) /\ x # <<>>
      /\ (\A i \in 1 .. Len(k) : k[i] # "=") => FieldKey(x) = k /\ FieldValue(x) = v
      /\ (/\ \A i \in 1 .. Len(k) : k[i] # "&"
          /\ \A i \in 1 .. Len(v) : v[i] # "&")
         => \A i \in 1 .. Len(x) : x[i] # "&"
  BY <1>1, <1>4, WrittenIs
<1> HIDE DEF x
<1>6. /\ FieldKey(x) = k /\ FieldValue(x) = v
      /\ \A i \in 1 .. Len(x) : x[i] # "&"
  BY <1>3, <1>5, Zenon
<1> QED
  BY <1>1, <1>2, <1>5, <1>6 DEF v, x

(* The text that addQuery() writes means the map that it writes.           *)
LEMMA RebuildMeans ==
  ASSUME NEW map \in QueryMaps, IsFiniteSet(DOMAIN map)
  PROVE  /\ RebuildQuery(map) \in Seq(Character)
         /\ PlainMap(map) => Meaning(RebuildQuery(map)) = map
<1> DEFINE keys == SetToSeq(DOMAIN map)
           L == Len(keys)
           r == TextOf(map, keys)
           q == r[L]
           Added(i) == Written(keys[i], map[keys[i]])
<1>1. /\ keys \in Seq(DOMAIN map)
      /\ \A x \in DOMAIN map : \E i \in 1 .. L : keys[i] = x
  BY ListsAll
<1>2. RebuildQuery(map) = q
  BY RebuildOf
<1> HIDE DEF keys
<1>3. L \in Nat /\ \A i \in 1 .. L : keys[i] \in DOMAIN map
  BY <1>1, LenProperties, ElementOfSeq
<1>4. /\ r \in [0 .. L -> Seq(Character)] /\ r[0] = <<>>
      /\ \A i \in 1 .. L : r[i] = Longer(r[i - 1], Added(i))
  BY <1>1, TextOfDef
<1> HIDE DEF r, L
<1>5. q \in Seq(Character)
  BY <1>3, <1>4
<1>6. ASSUME PlainMap(map) PROVE Meaning(q) = map
  <2>1. \A i \in 1 .. L : /\ Added(i) \in Seq(Character) /\ Added(i) # <<>>
                          /\ FieldKey(Added(i)) = keys[i] /\ FieldValue(Added(i)) = map[keys[i]]
                          /\ \A j \in 1 .. Len(Added(i)) : Added(i)[j] # "&"
    BY <1>3, <1>6, PlainPair
  <2> HIDE DEF Added
  <2> DEFINE Good(i) == FieldTexts(r[i]) = {Added(j) : j \in 1 .. i}
  <2>2. \A i \in 0 .. L : Good(i)
    <3> DEFINE Bad == {i \in 0 .. L : ~Good(i)}
    <3> SUFFICES ASSUME Bad # {} PROVE FALSE
      OBVIOUS
    <3> HIDE DEF Good
    <3>1. Bad \in SUBSET Nat
      BY <1>3
    <3>2. PICK i \in Bad : \A j \in Bad : i <= j
      BY <3>1, LeastNumber
    <3>3. Good(0)
      <4>1. 1 .. 0 = {}
        OBVIOUS
      <4>2. {Added(j) : j \in 1 .. 0} = {}
        BY <4>1
      <4> QED
        BY <1>4, <4>2, NoFields, Zenon DEF Good
    <3>4. i \in 0 .. L /\ ~Good(i) /\ i # 0
      BY <3>2, <3>3
    <3>5. i \in 1 .. L /\ i - 1 \in 0 .. L /\ i - 1 \in Nat /\ i - 1 < i
      BY <1>3, <3>4
    <3>6. i - 1 \notin Bad
      BY <3>2, <3>5
    <3>7. Good(i - 1)
      BY <3>5, <3>6
    <3> HIDE DEF Bad
    <3>8. r[i - 1] \in Seq(Character) /\ r[i] = Longer(r[i - 1], Added(i))
      BY <1>4, <3>5
    <3> DEFINE t == r[i - 1]
               x == Added(i)
               u == r[i]
    <3>9. /\ t \in Seq(Character) /\ x \in Seq(Character) /\ x # <<>>
          /\ \A j \in 1 .. Len(x) : x[j] # "&"
          /\ u = Longer(t, x)
      BY <2>1, <3>5, <3>8
    <3> HIDE DEF t, x, u
    <3>10. FieldTexts(u) = FieldTexts(t) \cup {x}
      BY <3>9, OneMoreField
    <3>11. {Added(j) : j \in 1 .. i} = {Added(j) : j \in 1 .. i - 1} \cup {Added(i)}
      <4>1. 1 .. i = (1 .. i - 1) \cup {i}
        BY <3>5
      <4> QED
        BY <4>1
    <3>12. Good(i)
      BY <3>7, <3>10, <3>11, Zenon DEF Good, t, x, u
    <3> QED
      BY <3>4, <3>12
  <2>3. FieldTexts(q) = {Added(j) : j \in 1 .. L}
    <3>1. L \in 0 .. L
      BY <1>3
    <3> QED
      BY <2>2, <3>1
  <2> HIDE DEF Good, q
  <2>4. ASSUME NEW i, NEW j, FieldAt(q, i, j)
        PROVE  \E n \in 1 .. L : KeyAt(q, i, j) = keys[n] /\ ValueAt(q, i, j) = map[keys[n]]
    <3>1. SubSeq(q, i, j) \in Seq(Character)
      <4>1. i \in 1 .. Len(q) /\ j \in i .. Len(q) /\ Len(q) \in Nat
        BY <1>5, <2>4, LenProperties DEF FieldAt
      <4>2. i \in Nat \ {0} /\ j \in Nat /\ j <= Len(q)
        BY <4>1
      <4> QED
        BY <1>5, <4>2, Piece
    <3>2. SubSeq(q, i, j) \in FieldTexts(q)
      BY <2>4, <3>1 DEF FieldTexts
    <3>3. PICK n \in 1 .. L : SubSeq(q, i, j) = Added(n)
      BY <2>3, <3>2
    <3>4. FieldKey(Added(n)) = keys[n] /\ FieldValue(Added(n)) = map[keys[n]]
      BY <2>1
    <3> QED
      BY <3>3, <3>4 DEF KeyAt, ValueAt
  <2>5. ASSUME NEW x \in DOMAIN map
        PROVE  x # <<>> /\ \E i, j : FieldAt(q, i, j) /\ i >= 1 /\ KeyAt(q, i, j) = x
    <3>1. x # <<>>
      BY <1>6 DEF PlainMap
    <3>2. PICK n \in 1 .. L : keys[n] = x
      BY <1>1
    <3>3. Added(n) \in FieldTexts(q) /\ FieldKey(Added(n)) = x
      BY <2>1, <2>3, <3>2
    <3>4. PICK i, j : FieldAt(q, i, j) /\ SubSeq(q, i, j) = Added(n)
      BY <3>3 DEF FieldTexts
    <3>5. KeyAt(q, i, j) = x
      BY <3>3, <3>4 DEF KeyAt
    <3>6. i >= 1
      BY <1>5, <3>4, LenProperties DEF FieldAt
    <3> QED
      BY <3>1, <3>4, <3>5, <3>6
  <2>6. \A i, j : FieldAt(q, i, j) => /\ KeyAt(q, i, j) \in DOMAIN map
                                      /\ map[KeyAt(q, i, j)] = ValueAt(q, i, j)
    BY <1>3, <2>4
  <2>7. MeansFrom(map, q, 1)
    BY <2>5, <2>6 DEF MeansFrom
  <2> QED
    BY <1>5, <2>7, MeansMeaning
<1> QED
  BY <1>2, <1>5, <1>6
-----------------------------------------------------------------------------
(* The objects.                                                            *)

(* A query has finitely many pairs.                                        *)
LEMMA FiniteQuery ==
  ASSUME NEW q \in Seq(Character)
  PROVE  IsFiniteSet(DOMAIN ParseQueryMap(q))
<1> DEFINE N == 1 .. Len(q)
           K == [f \in Fields(q) |-> FieldKey(SubSeq(q, f[1], f[2]))]
           I == {FieldKey(SubSeq(q, f[1], f[2])) : f \in Fields(q)}
<1>1. IsFiniteSet(N \X N)
  <2>1. 1 \in Int /\ Len(q) \in Int
    BY LenProperties
  <2>2. IsFiniteSet(N)
    BY <2>1, FS_Interval
  <2> QED
    BY <2>2, FS_Product
<1>2. Fields(q) \in SUBSET (N \X N)
  BY DEF Fields
<1>3. IsFiniteSet(Fields(q))
  BY <1>1, <1>2, FS_Subset
<1>4. K \in Surjection(Fields(q), I)
  BY DEF Surjection
<1>5. IsFiniteSet(I)
  <2> HIDE DEF K, I
  <2> QED
    BY <1>3, <1>4, FS_Surjection
<1>6. DOMAIN Meaning(q) \in SUBSET I
  BY DEF Meaning
<1>7. IsFiniteSet(DOMAIN Meaning(q))
  <2> HIDE DEF I
  <2> QED
    BY <1>5, <1>6, FS_Subset
<1> QED
  BY <1>7, QueryMeaning

\* The data an object can have.
UriDatas == [scheme : Seq(Character), userinfo : Seq(Character), host : Seq(Character),
             port : 0 .. 2^PortBits - 1, path : Seq(Character), query : Seq(Character),
             fragment : Seq(Character), queryMap : QueryMaps]

\* Its query is kept twice, and the two are in step.
Sound(d) ==
  /\ d \in UriDatas
  /\ IsFiniteSet(DOMAIN d.queryMap)
  /\ InStep(d)

(* What the constructor makes of a text is sound.                          *)
LEMMA ReadIsSound ==
  ASSUME NEW u \in Seq(Character), Parsable(u)
  PROVE  Sound(ReadAs(u))
<1> DEFINE d == ReadAs(u)
           a == AuthOf(u)
<1>1. /\ SchemeOf(u) \in Seq(Character) /\ a \in Seq(Character)
      /\ PathOf(u) \in Seq(Character) /\ QueryOf(u) \in Seq(Character)
      /\ FragmentOf(u) \in Seq(Character)
  BY FoundTypes
<1>2. ErrorIn(a) = "none"
  BY DEF Parsable
<1>3. /\ UserIn(a) \in Seq(Character) /\ HostIn(a) \in Seq(Character)
      /\ PortIn(a) \in Nat /\ PortIn(a) < 2^PortBits
  BY <1>1, <1>2, AuthorityParts
<1>4. PortIn(a) \in 0 .. 2^PortBits - 1
  BY <1>3, PortAssumption
<1>5. /\ ParseQueryMap(QueryOf(u)) \in QueryMaps
      /\ ParseQueryMap(QueryOf(u)) = Meaning(QueryOf(u))
      /\ IsFiniteSet(DOMAIN ParseQueryMap(QueryOf(u)))
  BY <1>1, QueryMeaning, FiniteQuery
<1>6. d = [scheme |-> SchemeOf(u), userinfo |-> UserIn(a), host |-> HostIn(a),
           port |-> PortIn(a), path |-> PathOf(u), query |-> QueryOf(u),
           fragment |-> FragmentOf(u), queryMap |-> ParseQueryMap(QueryOf(u))]
  BY Zenon DEF ReadAs, Data
<1>7. d \in UriDatas
  BY <1>1, <1>3, <1>4, <1>5, <1>6 DEF UriDatas
<1>8. d.queryMap = ParseQueryMap(QueryOf(u)) /\ d.query = QueryOf(u)
  BY <1>6
<1> HIDE DEF d
<1>9. Sound(d)
  BY <1>5, <1>7, <1>8 DEF Sound, InStep
<1> QED
  BY <1>9 DEF d

(* What the default constructor makes is sound.                            *)
LEMMA NoDataIsSound == Sound(NoData)
<1>1. <<>> \in Seq(Character)
  BY EmptySeq
<1>2. 0 \in 0 .. 2^PortBits - 1
  BY PortAssumption
<1>3. <<>> \in QueryMaps /\ DOMAIN <<>> = {} /\ IsFiniteSet({})
  BY NoPairs, FS_EmptySet
<1>4. ParseQueryMap(<<>>) = <<>> /\ ParseQueryMap(<<>>) = Meaning(<<>>)
  BY <1>1, EmptyQueryMap, QueryMeaning
<1>5. NoData \in UriDatas
  BY <1>1, <1>2, <1>3 DEF NoData, UriDatas
<1>6. NoData.queryMap = <<>> /\ NoData.query = <<>>
  BY DEF NoData
<1> QED
  BY <1>3, <1>4, <1>5, <1>6, Zenon DEF Sound, InStep

(* What the setters make of sound data.                                    *)
LEMMA SetPartSound ==
  ASSUME NEW d, Sound(d), NEW part \in StringParts, NEW s \in Seq(Character)
  PROVE  Sound([d EXCEPT ![part] = s])
<1> DEFINE e == [d EXCEPT ![part] = s]
<1>1. d \in UriDatas
  BY DEF Sound
<1>2. e.queryMap = d.queryMap /\ e.query = d.query
  BY <1>1 DEF UriDatas, StringParts
<1>3. e \in UriDatas
  BY <1>1 DEF UriDatas, StringParts
<1> HIDE DEF e
<1>4. Sound(e)
  BY <1>2, <1>3 DEF Sound, InStep
<1> QED
  BY <1>4 DEF e

(* The same for setPort().                                                 *)
LEMMA SetPortSound ==
  ASSUME NEW d, Sound(d), NEW port \in 0 .. 2^PortBits - 1
  PROVE  Sound([d EXCEPT !.port = port])
<1> DEFINE e == [d EXCEPT !.port = port]
<1>1. d \in UriDatas
  BY DEF Sound
<1>2. e.queryMap = d.queryMap /\ e.query = d.query
  BY <1>1 DEF UriDatas
<1>3. e \in UriDatas
  BY <1>1 DEF UriDatas
<1> HIDE DEF e
<1>4. Sound(e)
  BY <1>2, <1>3 DEF Sound, InStep
<1> QED
  BY <1>4 DEF e

(* The same for setQuery(), which reads the text into the map.             *)
LEMMA SetQuerySound ==
  ASSUME NEW d, Sound(d), NEW q \in Seq(Character)
  PROVE  Sound([d EXCEPT !.query = q, !.queryMap = ParseQueryMap(q)])
<1> DEFINE m == ParseQueryMap(q)
           e == [d EXCEPT !.query = q, !.queryMap = m]
<1>1. d \in UriDatas
  BY DEF Sound
<1>2. m \in QueryMaps /\ m = Meaning(q) /\ IsFiniteSet(DOMAIN m)
  BY QueryMeaning, FiniteQuery
<1> HIDE DEF m
<1>3. e.queryMap = m /\ e.query = q
  BY <1>1 DEF UriDatas
<1>4. e \in UriDatas
  BY <1>1, <1>2 DEF UriDatas
<1> HIDE DEF e
<1>5. Sound(e)
  BY <1>2, <1>3, <1>4 DEF Sound, InStep
<1> QED
  BY <1>5 DEF e, m

(* The same for addQuery(), which writes the map into the text.            *)
LEMMA AddQuerySound ==
  ASSUME NEW d, Sound(d), NEW k \in Seq(Character), NEW v \in Seq(Character),
         NEW m, m = Put(d.queryMap, k, v)
  PROVE  Sound([d EXCEPT !.queryMap = m, !.fragment = <<>>, !.query = RebuildQuery(m)])
<1> DEFINE q == RebuildQuery(m)
           z == <<>>
           e == [d EXCEPT !.queryMap = m, !.fragment = z, !.query = q]
<1>1. d \in UriDatas /\ d.queryMap \in QueryMaps /\ IsFiniteSet(DOMAIN d.queryMap)
  BY DEF Sound, UriDatas
<1>2. m \in QueryMaps /\ DOMAIN m = DOMAIN d.queryMap \cup {k}
  BY <1>1, PutMap
<1>3. IsFiniteSet(DOMAIN m)
  BY <1>1, <1>2, FS_AddElement
<1>4. q \in Seq(Character) /\ (PlainMap(m) => Meaning(q) = m)
  BY <1>2, <1>3, RebuildMeans
<1>5. z \in Seq(Character)
  BY EmptySeq
<1>6. q = RebuildQuery(m)
  OBVIOUS
<1> HIDE DEF q, z
<1>7. e.queryMap = m /\ e.query = q
  BY <1>1 DEF UriDatas
<1>8. e \in UriDatas
  BY <1>1, <1>2, <1>4, <1>5 DEF UriDatas
<1> HIDE DEF e
<1>9. Sound(e)
  BY <1>3, <1>4, <1>6, <1>7, <1>8 DEF Sound, InStep
<1> QED
  BY <1>9 DEF e, q, z
-----------------------------------------------------------------------------
(* The objects of a client.                                                *)

(* What a client does with its objects leaves the constructor alone.       *)
LEMMA ParserStepOf ==
  [UriNext]_uriVars => [ParserNext]_parserVars
<1> SUFFICES ASSUME [UriNext]_uriVars PROVE ParserNext \/ UNCHANGED parserVars
  BY Zenon
<1>1. CASE Parse
  BY <1>1, Zenon DEF Parse, ParserNext
<1>2. ASSUME NEW o \in Objects, Construct(o) PROVE ParserNext
  BY <1>2, Zenon DEF Construct, ParserNext
<1>3. ASSUME NEW o \in Objects,
             \/ \E rhs \in Objects : Assign(o, rhs)
             \/ \E part \in Settable, s \in PartTexts : SetPart(o, part, s)
             \/ \E port \in Ports : SetPort(o, port)
             \/ \E query \in QueryTexts : SetQuery(o, query)
             \/ \E key \in QueryKeys, value \in QueryValues : AddQuery(o, key, value)
      PROVE  Client
  BY <1>3, Zenon DEF Assign, SetPart, SetPort, SetQuery, AddQuery
<1>4. CASE UNCHANGED uriVars
  BY <1>4, Zenon DEF uriVars
<1>5. Client => UNCHANGED parserVars
  BY Zenon DEF Client
<1> QED
  BY <1>1, <1>2, <1>3, <1>4, <1>5, Zenon DEF UriNext

(* A client's constructor is the one whose loop the parser models.         *)
THEOREM UriImplementsParser == UriSpec => ParserSpec
<1>1. UriInit => ParserInit
  BY DEF UriInit
<1> QED
  BY <1>1, ParserStepOf, PTL DEF UriSpec, ParserSpec

(* What the theorems about the loop say holds for every URI of a client.   *)
THEOREM UriConstructor == UriSpec => [](AssertsHold /\ AgreesWithReference /\ RoundTrip)
BY UriImplementsParser, ParserAsserts, ParserReference, ParserRoundTrip, PTL

UriInv ==
  /\ uri = [o \in Objects |-> uri[o]]
  /\ \A o \in Objects : Sound(uri[o])

(* A step that gives one object sound data.                                *)
LEMMA OneObject ==
  ASSUME UriInv, NEW o \in Objects, NEW d, Sound(d), uri' = [uri EXCEPT ![o] = d]
  PROVE  UriInv'
<1>1. uri = [x \in Objects |-> uri[x]] /\ \A x \in Objects : Sound(uri[x])
  BY DEF UriInv
<1>2. \A x \in Objects : uri'[x] = IF x = o THEN d ELSE uri[x]
  BY <1>1
<1>3. uri' = [x \in Objects |-> uri'[x]]
  BY <1>1
<1>4. \A x \in Objects : Sound(uri'[x])
  BY <1>1, <1>2
<1>5. UriInv' <=> /\ uri' = [x \in Objects |-> uri'[x]]
                  /\ \A x \in Objects : Sound(uri'[x])
  BY DEF UriInv, Sound, InStep, UriDatas, QueryMaps, PlainMap, Meaning, RebuildQuery
<1> QED
  BY <1>3, <1>4, <1>5

(* All objects of a client have sound data, whatever the client calls in   *)
(* whatever order.                                                         *)
LEMMA UriInvariant == UriSpec => []UriInv
<1>1. UriInit => UriInv
  BY NoDataIsSound DEF UriInit, UriInv
<1>2. ASSUME UriInv, ParserInv, [UriNext]_uriVars PROVE UriInv'
  <2>1. uri = [x \in Objects |-> uri[x]] /\ \A x \in Objects : Sound(uri[x])
    BY <1>2 DEF UriInv
  <2>2. CASE Parse
    <3>1. uri' = uri
      BY <2>2 DEF Parse
    <3> QED
      BY <2>1, <3>1 DEF UriInv
  <2>3. CASE UNCHANGED uriVars
    <3>1. uri' = uri
      BY <2>3 DEF uriVars
    <3> QED
      BY <2>1, <3>1 DEF UriInv
  <2>4. ASSUME NEW o \in Objects, Construct(o) PROVE UriInv'
    <3>1. Done /\ first = {} /\ uri' = [uri EXCEPT ![o] = parser.data]
      BY <2>4 DEF Construct, Keep
    <3>2. text \in Seq(Character) /\ Parses(parser, text)
      BY <1>2, <3>1 DEF ParserInv
    <3>3. parser.data = ReadAs(text) /\ Parsable(text)
      BY <3>1, <3>2, DoneParses DEF Done
    <3>4. Sound(parser.data)
      BY <3>2, <3>3, ReadIsSound
    <3> QED
      BY <1>2, <3>1, <3>4, OneObject
  <2>5. ASSUME NEW o \in Objects, NEW rhs \in Objects, Assign(o, rhs) PROVE UriInv'
    <3>1. uri' = [uri EXCEPT ![o] = uri[rhs]] /\ Sound(uri[rhs])
      BY <2>1, <2>5 DEF Assign
    <3> QED
      BY <1>2, <3>1, OneObject
  <2>6. ASSUME NEW o \in Objects, NEW part \in Settable, NEW s \in PartTexts, SetPart(o, part, s)
        PROVE  UriInv'
    <3> DEFINE d == [uri[o] EXCEPT ![part] = s]
    <3>1. part \in StringParts /\ s \in Seq(Character) /\ Sound(uri[o])
      BY <2>1, SettableAssumption, ArgumentAssumption
    <3>2. Sound(d)
      BY <3>1, SetPartSound
    <3>3. uri' = [uri EXCEPT ![o] = d]
      BY <2>6 DEF SetPart
    <3> HIDE DEF d
    <3> QED
      BY <1>2, <3>2, <3>3, OneObject
  <2>7. ASSUME NEW o \in Objects, NEW port \in Ports, SetPort(o, port) PROVE UriInv'
    <3> DEFINE d == [uri[o] EXCEPT !.port = port]
    <3>1. port \in 0 .. 2^PortBits - 1 /\ Sound(uri[o])
      BY <2>1, PortsAssumption
    <3>2. Sound(d)
      BY <3>1, SetPortSound
    <3>3. uri' = [uri EXCEPT ![o] = d]
      BY <2>7 DEF SetPort
    <3> HIDE DEF d
    <3> QED
      BY <1>2, <3>2, <3>3, OneObject
  <2>8. ASSUME NEW o \in Objects, NEW query \in QueryTexts, SetQuery(o, query) PROVE UriInv'
    <3> DEFINE d == [uri[o] EXCEPT !.query = query, !.queryMap = ParseQueryMap(query)]
    <3>1. query \in Seq(Character) /\ Sound(uri[o])
      BY <2>1, ArgumentAssumption
    <3>2. Sound(d)
      BY <3>1, SetQuerySound
    <3>3. uri' = [uri EXCEPT ![o] = d]
      BY <2>1, <2>8 DEF SetQuery
    <3> HIDE DEF d
    <3> QED
      BY <1>2, <3>2, <3>3, OneObject
  <2>9. ASSUME NEW o \in Objects, NEW key \in QueryKeys, NEW value \in QueryValues,
               AddQuery(o, key, value)
        PROVE  UriInv'
    <3> DEFINE m == Put(uri[o].queryMap, key, value)
               d == [uri[o] EXCEPT !.queryMap = m, !.fragment = <<>>, !.query = RebuildQuery(m)]
    <3>1. key \in Seq(Character) /\ value \in Seq(Character) /\ Sound(uri[o])
      BY <2>1, ArgumentAssumption
    <3>2. Sound(d)
      BY <3>1, AddQuerySound
    <3>3. uri' = [uri EXCEPT ![o] = d]
      BY <2>1, <2>9 DEF AddQuery
    <3> HIDE DEF d
    <3> QED
      BY <1>2, <3>2, <3>3, OneObject
  <2> QED
    BY <1>2, <2>2, <2>3, <2>4, <2>5, <2>6, <2>7, <2>8, <2>9 DEF UriNext
<1>3. UriSpec => []ParserInv
  BY UriImplementsParser, ParserInvariant, PTL
<1> QED
  BY <1>1, <1>2, <1>3, PTL DEF UriSpec

(* After any sequence of constructors, copies, setQuery() and addQuery()   *)
(* calls with any arguments, the query text of every URI object means what *)
(* its query map says, or the map has a pair with an empty key, with & or  *)
(* = in its key or with & in its value, which no text can hold, and the    *)
(* text is all of the map written out.                                     *)
THEOREM UriQueryInStep == UriSpec => []QueryInStep
<1>1. UriInv => QueryInStep
  BY DEF UriInv, Sound, QueryInStep
<1> QED
  BY <1>1, UriInvariant, PTL
-----------------------------------------------------------------------------
(* Well-formed objects print to texts that parse to them.                  *)

(* The loop of a text that has no error comes to its end.                  *)
LEMMA LoopEnds ==
  ASSUME NEW u \in Seq(Character), Parsable(u)
  PROVE  ParseURI(u).error = "none" /\ ParseURI(u).data = ReadAs(u)
<1> DEFINE Loop(p) == IF Looping(p) THEN Turn(p) ELSE p
           Ended(p) == Parses(p, u) /\ p.input = <<>> /\ p.error = "none"
           p0 == Start(u)
           p1 == Loop(p0)
           p2 == Loop(p1)
           p3 == Loop(p2)
           p4 == Loop(p3)
           p5 == Loop(p4)
<1>1. ParseURI(u) = p5
  BY DEF ParseURI
<1>2. ~BadScheme(SchemeOf(u)) /\ ErrorIn(AuthOf(u)) = "none"
  BY DEF Parsable
<1>3. /\ AtRest(u).error = "none" /\ AtRest(u).input = From(u, RestPos(u))
      /\ AtPath(u).error = "none" /\ AtPath(u).input = From(u, PathPos(u))
      /\ AtMark(u).input = From(u, MarkPos(u)) /\ AtMark(u).error = "none"
      /\ AtHash(u).input = From(u, HashPos(u)) /\ AtHash(u).error = "none"
      /\ AtEnd(u).input = <<>> /\ AtEnd(u).error = "none"
      /\ Start(u).input = u /\ Start(u).error = "none"
  BY <1>2, ErrorOfRest
<1>4. ASSUME NEW p, Ended(p) PROVE Loop(p) = p
  BY <1>4 DEF Looping
<1>5. ASSUME NEW p, p.error = "none", Parses(p, u), NEW q, Looping(p) => Turn(p) = q
      PROVE  Ended(Loop(p)) \/ Loop(p) = q
  BY <1>5 DEF Looping
<1>6. /\ Parses(Start(u), u) /\ Parses(AtRest(u), u)
      /\ Parses(AtMark(u), u) /\ Parses(AtHash(u), u) /\ Parses(AtEnd(u), u)
  BY Zenon DEF Parses
<1>7. /\ SchemeOf(u) \in NoAuthority => AtRest(u) = AtPath(u)
      /\ Parses(AtPath(u), u)
  <2>1. SchemeOf(u) \in NoAuthority => AtRest(u) = AtPath(u)
    BY <1>2, RestIsPath
  <2> QED
    BY <1>2, <1>6, <2>1, Zenon DEF Parses
<1> HIDE DEF Loop, Ended
<1>8. Ended(p1) \/ p1 = AtRest(u)
  <2>1. Turn(Start(u)) = AtRest(u)
    BY TurnScheme
  <2> QED
    BY <1>3, <1>5, <1>6, <2>1, Zenon
<1>9. Ended(Loop(AtPath(u))) \/ Loop(AtPath(u)) = AtMark(u)
  <2>1. Looping(AtPath(u)) => Turn(AtPath(u)) = AtMark(u)
    BY <1>3, TurnPath DEF Looping
  <2> QED
    BY <1>3, <1>5, <1>7, <2>1, Zenon
<1>10. Ended(Loop(AtMark(u))) \/ Loop(AtMark(u)) = AtHash(u)
  <2>1. Looping(AtMark(u)) => Turn(AtMark(u)) = AtHash(u)
    BY <1>3, TurnQuery DEF Looping
  <2> QED
    BY <1>3, <1>5, <1>6, <2>1, Zenon
<1>11. Ended(AtEnd(u))
  BY <1>3, <1>6, Zenon DEF Ended
<1>12. Ended(Loop(AtHash(u)))
  <2>1. Looping(AtHash(u)) => Turn(AtHash(u)) = AtEnd(u)
    BY <1>3, TurnFragment DEF Looping
  <2>2. Ended(Loop(AtHash(u))) \/ Loop(AtHash(u)) = AtEnd(u)
    BY <1>3, <1>5, <1>6, <2>1, Zenon
  <2> QED
    BY <1>11, <2>2, Zenon
<1>13. Ended(p2) \/ p2 = AtPath(u) \/ p2 = AtMark(u)
  <2>1. CASE Ended(p1)
    <3>1. p2 = p1
      BY <1>4, <2>1
    <3> QED
      BY <2>1, <3>1
  <2>2. CASE p1 = AtRest(u) /\ SchemeOf(u) \in NoAuthority
    <3>1. p2 = Loop(AtPath(u))
      BY <1>7, <2>2, Zenon
    <3> QED
      BY <1>9, <3>1, Zenon
  <2>3. CASE p1 = AtRest(u) /\ SchemeOf(u) \notin NoAuthority
    <3>1. Looping(AtRest(u)) => Turn(AtRest(u)) = AtPath(u)
      BY <1>2, <1>3, <2>3, TurnAuthority DEF Looping
    <3>2. Ended(Loop(AtRest(u))) \/ Loop(AtRest(u)) = AtPath(u)
      BY <1>3, <1>5, <1>6, <3>1, Zenon
    <3> QED
      BY <2>3, <3>2, Zenon
  <2> QED
    BY <1>8, <2>1, <2>2, <2>3
<1> HIDE DEF p2
<1>14. Ended(p3) \/ p3 = AtMark(u) \/ p3 = AtHash(u)
  <2>1. CASE Ended(p2)
    <3>1. p3 = p2
      BY <1>4, <2>1
    <3> QED
      BY <2>1, <3>1
  <2>2. CASE p2 = AtPath(u)
    BY <1>9, <2>2, Zenon
  <2>3. CASE p2 = AtMark(u)
    BY <1>10, <2>3, Zenon
  <2> QED
    BY <1>13, <2>1, <2>2, <2>3
<1> HIDE DEF p3
<1>15. Ended(p4) \/ p4 = AtHash(u)
  <2>1. CASE Ended(p3)
    <3>1. p4 = p3
      BY <1>4, <2>1
    <3> QED
      BY <2>1, <3>1
  <2>2. CASE p3 = AtMark(u)
    BY <1>10, <2>2, Zenon
  <2>3. CASE p3 = AtHash(u)
    BY <1>12, <2>3, Zenon
  <2> QED
    BY <1>14, <2>1, <2>2, <2>3
<1> HIDE DEF p4
<1>16. Ended(p5)
  <2>1. CASE Ended(p4)
    <3>1. p5 = p4
      BY <1>4, <2>1
    <3> QED
      BY <2>1, <3>1
  <2>2. CASE p4 = AtHash(u)
    BY <1>12, <2>2, Zenon
  <2> QED
    BY <1>15, <2>1, <2>2
<1> HIDE DEF p5
<1>17. p5.error = "none" /\ p5.data = ReadAs(u)
  <2>1. Parses(p5, u) /\ p5.input = <<>> /\ p5.error = "none"
    BY <1>16 DEF Ended
  <2> QED
    BY <2>1, DoneParses
<1> QED
  BY <1>1, <1>17

(* The characters of a text that is free of some.                          *)
LEMMA FreeChars ==
  ASSUME NEW s \in Seq(Character), NEW chars, Free(s, chars)
  PROVE  \A i \in 1 .. Len(s) : s[i] \notin chars
<1>1. \A i \in 1 .. Len(s) : s[i] \in ToSet(s)
  BY DEF ToSet
<1> QED
  BY <1>1, Zenon DEF Free

(* A scheme that the constructor accepts has none of the characters that   *)
(* end it.                                                                 *)
LEMMA GoodScheme ==
  ASSUME NEW s \in Seq(Character), ~BadScheme(s)
  PROVE  \A i \in 1 .. Len(s) : s[i] \notin {"/", "?", "#"}
<1> TAKE i \in 1 .. Len(s)
<1>1. Len(s) \in Nat /\ s # <<>>
  BY LenProperties, EmptySeq
<1>2. s[1] \in Alphas /\ \A j \in 2 .. Len(s) : s[j] \in SchemeChars
  BY <1>1 DEF BadScheme
<1>3. i = 1 \/ i \in 2 .. Len(s)
  BY <1>1
<1>4. s[i] \in Alphas \cup SchemeChars
  BY <1>2, <1>3
<1>5. \A c \in Alphas \cup SchemeChars : c \notin {"/", "?", "#"}
  BY Digits DEF Alphas, SchemeChars
<1> QED
  BY <1>4, <1>5

(* A well-formed object has the parts of its own text.                     *)
LEMMA WellFormedParses ==
  ASSUME NEW d, Sound(d), WellFormed(d)
  PROVE  LET w == Printed(d) IN w \in Seq(Character) /\ Parsable(w) /\ ReadAs(w) = d
<1> DEFINE w == Printed(d)
           S == d.scheme
           U == d.userinfo
           H == d.host
           port == d.port
           P == d.path
           Q == d.query
           F == d.fragment
           A == IF H = <<>> THEN <<>> ELSE Authority(d)
<1>1. /\ S \in Seq(Character) /\ U \in Seq(Character) /\ H \in Seq(Character)
      /\ P \in Seq(Character) /\ Q \in Seq(Character) /\ F \in Seq(Character)
      /\ port \in 0 .. 2^PortBits - 1
  BY DEF Sound, UriDatas
<1>2. port \in Nat /\ port < 2^PortBits
  BY <1>1, PortAssumption
<1>3. /\ ~BadScheme(S) /\ S = ToLower(S)
      /\ Free(U, {"@", "/", "?", "#"})
      /\ Free(H, {"@", ":", "/", "?", "#"})
      /\ H = <<>> => U = <<>> /\ port = 0
      /\ S \in NoAuthority => H = <<>>
      /\ S = <<>> => Free(P, {":"})
      /\ Free(P, {"?", "#"})
      /\ P # <<>> => P[1] = "/" \/ S \in NoAuthority
      /\ Free(Q, {"#"}) /\ PlainMap(d.queryMap)
  BY Zenon DEF WellFormed, NoAuthority
<1>4. d = Data(S, U, H, port, P, Q, F)
  <2>1. d.queryMap = ParseQueryMap(Q)
    <3>1. d.queryMap = Meaning(Q)
      BY <1>3, Zenon DEF Sound, InStep
    <3>2. ParseQueryMap(Q) = Meaning(Q)
      BY <1>1, QueryMeaning
    <3> QED
      BY <3>1, <3>2, Zenon
  <2>2. d = [f \in DataFields |-> d[f]]
    BY DEF Sound, UriDatas, DataFields
  <2> QED
    BY <2>1, <2>2, DataIs
<1>5. Authority(d) = AuthText(U, H, port)
  BY DEF Authority, AuthText, UserText, PortText
<1>6. w = Joined(SchemeText(S), A, P, Marked("?", Q), Marked("#", F))
  BY DEF Printed, Joined, SchemeText, Marked
<1> HIDE DEF S, U, H, port, P, Q, F, w
<1>7. /\ A \in Seq(Character)
      /\ ErrorIn(A) = "none" /\ UserIn(A) = U /\ HostIn(A) = H /\ PortIn(A) = port
      /\ \A i \in 1 .. Len(A) : A[i] \notin {"/", "?", "#"}
  <2>1. CASE H = <<>>
    <3>1. A = <<>> /\ U = <<>> /\ H = <<>> /\ port = 0
      BY <1>3, <2>1
    <3> HIDE DEF A
    <3> QED
      BY <3>1 DEF ErrorIn, UserIn, HostIn, PortIn
  <2>2. CASE H # <<>>
    <3>1. \A i \in 1 .. Len(U) : U[i] \notin {"@", "/", "?", "#"}
      BY <1>1, <1>3, FreeChars
    <3>2. \A i \in 1 .. Len(H) : H[i] \notin {"@", ":", "/", "?", "#"}
      BY <1>1, <1>3, FreeChars
    <3>3. A = AuthText(U, H, port)
      BY <1>5, <2>2
    <3> HIDE DEF A
    <3>4. /\ \A i \in 1 .. Len(U) : U[i] # "@"
          /\ \A i \in 1 .. Len(H) : H[i] # ":"
          /\ U = <<>> => \A i \in 1 .. Len(H) : H[i] # "@"
      BY <3>1, <3>2
    <3>5. /\ \A i \in 1 .. Len(U) : U[i] \notin {"/", "?", "#"}
          /\ \A i \in 1 .. Len(H) : H[i] \notin {"/", "?", "#"}
      BY <3>1, <3>2
    <3>6. /\ U \in Seq(Character) /\ H \in Seq(Character) /\ port \in Nat /\ port < 2^PortBits
      BY <1>1, <1>2
    <3> QED
      BY <2>2, <3>3, <3>4, <3>5, <3>6, AuthorityTogether
  <2> QED
    BY <2>1, <2>2
<1>8. S \in NoAuthority => A = <<>>
  BY <1>3
<1> HIDE DEF A
<1>9. \A i \in 1 .. Len(S) : S[i] \notin {"/", "?", "#"}
  BY <1>1, <1>3, GoodScheme
<1>10. \A i \in 1 .. Len(P) : P[i] \notin {"?", "#"}
  BY <1>1, <1>3, FreeChars
<1>11. \A i \in 1 .. Len(Q) : Q[i] # "#"
  BY <1>1, <1>3, FreeChars
<1>12. ASSUME S = <<>>, NEW i, SchemeEnds(P, i) PROVE FALSE
  <2>1. \A j \in 1 .. Len(P) : P[j] \notin {":"}
    BY <1>1, <1>3, <1>12, FreeChars
  <2>2. i \in 2 .. Len(P) - 2 /\ P[i] = ":"
    BY <1>12 DEF SchemeEnds
  <2>3. i \in 1 .. Len(P)
    BY <1>1, <2>2, LenProperties
  <2> QED
    BY <2>1, <2>2, <2>3
<1>13. S \notin NoAuthority => P = <<>> \/ P[1] = "/"
  BY <1>3
<1>14. Fit(S, A, P, Q, F)
  BY <1>1, <1>3, <1>7, <1>8, <1>9, <1>10, <1>11, <1>12, <1>13 DEF Fit
<1>15. /\ w \in Seq(Character) /\ SchemeOf(w) = S /\ AuthOf(w) = A /\ PathOf(w) = P
       /\ QueryOf(w) = Q /\ FragmentOf(w) = F
  BY <1>6, <1>14, PutTogether
<1>16. Parsable(w)
  BY <1>3, <1>7, <1>15 DEF Parsable
<1>17. ReadAs(w) = d
  BY <1>4, <1>7, <1>15 DEF ReadAs
<1> QED
  BY <1>15, <1>16, <1>17 DEF w

(* A well-formed URI object, whether parsed, copied or put together with   *)
(* the setters, prints with operator<< to a text whose constructor gives   *)
(* the same object.                                                        *)
THEOREM UriPrintsItself == UriSpec => []PrintsItself
<1>1. UriInv => PrintsItself
  <2> SUFFICES ASSUME UriInv, NEW o \in Objects, WellFormed(uri[o])
               PROVE  /\ ParseURI(Printed(uri[o])).error = "none"
                      /\ ParseURI(Printed(uri[o])).data = uri[o]
    BY DEF PrintsItself
  <2> DEFINE w == Printed(uri[o])
  <2>1. Sound(uri[o])
    BY DEF UriInv
  <2>2. w \in Seq(Character) /\ Parsable(w) /\ ReadAs(w) = uri[o]
    BY <2>1, WellFormedParses
  <2> HIDE DEF w
  <2>3. ParseURI(w).error = "none" /\ ParseURI(w).data = uri[o]
    BY <2>2, LoopEnds
  <2> QED
    BY <2>3 DEF w
<1> QED
  BY <1>1, UriInvariant, PTL
=============================================================================
