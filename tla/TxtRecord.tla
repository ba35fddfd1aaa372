----------------------------- MODULE TxtRecord -----------------------------
(***************************************************************************)
(* How the pairs of an announced instance travel: the DNS TXT record its   *)
(* backend makes (src/servus/avahi/servus.h, src/servus/dnssd/servus.h),   *)
(* and the map the backend of a discovering object reads from it.  A       *)
(* record is a set of entries; an entry has MaxEntry bytes at most, which  *)
(* the DNS libraries see to.  The test driver copies the pairs.            *)
(***************************************************************************)
EXTENDS Integers, SequencesExt, StringMap

CONSTANTS Bytes,     \* what keys and values are made of
          MaxEntry,  \* 255 in DNS and in the code
          Host       \* the host of the announcing object

HostKey == <<"servus_host">>

\* An entry can hold the key of the host.
ASSUME EntryAssumption == MaxEntry \in Nat /\ Len(HostKey) < MaxEntry
ASSUME BytesAssumption == "=" \in Bytes /\ Host \in Seq(Bytes)

Cut(s, n) == SubSeq(s, 1, IF Len(s) < n THEN Len(s) ELSE n)

\* Where the first = of an entry is, 0 if there is none.
Equals(entry) == SelectInSeq(entry, LAMBDA c : c = "=")

Pair(key, value) == key \o <<"=">> \o value
-----------------------------------------------------------------------------
(* Writing.                                                                *)

\* avahi_string_list_add_pair() for all pairs; what does not fit is cut off
\* when the list is put into the record.
AvahiRecord(data) == {Cut(Pair(k, data[k]), MaxEntry) : k \in DOMAIN data}

\* TXTRecordSetValue() refuses a key that is empty or has a = in it, and an
\* entry that is too long; the code does not look at its result.
Accepted(key, value) ==
  key # <<>> /\ Equals(key) = 0 /\ Len(Pair(key, value)) <= MaxEntry

DnssdRecord(data) ==
  {Pair(k, Cut(data[k], MaxEntry)) :
     k \in {j \in DOMAIN data : Accepted(j, Cut(data[j], MaxEntry))}}

Record(writer, data) ==
  IF writer = "avahi" THEN AvahiRecord(data) ELSE DnssdRecord(data)
-----------------------------------------------------------------------------
(* Reading.                                                                *)

\* The entry is cut in two at its last = (mutant).
AvahiEntryLast(entry) ==
  LET pos == SelectLastInSeq(entry, LAMBDA c : c = "=")
  IN  [key   |-> SubSeq(entry, 1, pos - 1),
       value |-> SubSeq(entry, pos + 1, Len(entry))]

\* _resolveCB.  Without a = the position is npos: the key is the whole entry,
\* and npos + 1 is 0, so the value is the whole entry, too.
AvahiEntry(entry) ==
  LET pos == Equals(entry)
  IN  IF pos = 0 THEN [key |-> entry, value |-> entry]
      ELSE [key   |-> SubSeq(entry, 1, pos - 1),
            value |-> SubSeq(entry, pos + 1, Len(entry))]

\* resolveCB_, with the key and value TXTRecordGetItemAtIndex() returns.
DnssdEntry(entry) ==
  LET pos == Equals(entry)
  IN  IF pos = 0 THEN [key |-> entry, value |-> <<>>]
      ELSE [key   |-> SubSeq(entry, 1, pos - 1),
            value |-> SubSeq(entry, pos + 1, Len(entry))]

ReadEntry(reader, entry) == IF reader = "avahi" THEN AvahiEntry(entry)
                                                ELSE DnssdEntry(entry)

ReadPairs(reader, record) == {ReadEntry(reader, entry) : entry \in record}

\* The pairs as a map; one of those with the same key is the last.
PairsMap(pairs) ==
  [key \in {p.key : p \in pairs} |-> (CHOOSE p \in pairs : p.key = key).value]

\* A value that is in the map already is not overwritten (mutant).
ReadRecordKeep(reader, record, old) ==
  Over(Put(old, HostKey, Host), PairsMap(ReadPairs(reader, record)))

\* values[key] = value for every entry, after the host.  The pairs that are in
\* the map already stay.
ReadRecord(reader, record, old) ==
  Over(PairsMap(ReadPairs(reader, record)), Put(old, HostKey, Host))

\* browse() of the test driver makes the map anew, from the pairs themselves.
CopyData(data) == Over(data, Put(<<>>, HostKey, Host))
=============================================================================
