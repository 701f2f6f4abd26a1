---------------------------- MODULE LibnvramFormat ----------------------------
(***************************************************************************)
(* The data of a section (libnvram/libnvram.c, from validate_entry to the  *)
(* iterators): how a list becomes bytes and bytes become a list.  Keys and *)
(* values are sequences of bytes.  The eight bytes of an entry's lengths   *)
(* are one cell that holds both and seven that hold nothing; every other   *)
(* cell is a byte.                                                         *)
(***************************************************************************)
EXTENDS LibnvramList

(* An entry has at least a byte of each: nvram stores keys and values with *)
(* their NUL, and LIST_MIN_SIZE counts on it.                              *)
ASSUME BytesAssumption == Keys \cup Values \subseteq Seq(0 .. 255) \ {<<>>}

HEADER_SIZE == 24

LIST_HEADER_SIZE == 8

LIST_MIN_SIZE == 10

(* Leaves out the lengths. *)
EntrySizeNoHeader(entry) == Len(entry.key) + Len(entry.value)

EntrySize(entry) == LIST_HEADER_SIZE + Len(entry.key) + Len(entry.value)

WriteEntry(entry) ==
  <<[key_len |-> Len(entry.key), value_len |-> Len(entry.value)]>>
  \o [i \in 1 .. LIST_HEADER_SIZE - 1 |-> 0]
  \o entry.key \o entry.value

(* The sum of libnvram_serialize_size after n turns. *)
SizeAfter(l) ==
  LET size[n \in 0 .. Len(l)] ==
        IF n = 0 THEN HEADER_SIZE ELSE size[n - 1] + EntrySize(l[n])
  IN  size

SerializeSize(l) == SizeAfter(l)[Len(l)]

(* What libnvram_serialize has written after n turns, without the header.  *)
DataAfter(l) ==
  LET data[n \in 0 .. Len(l)] ==
        IF n = 0 THEN <<>> ELSE data[n - 1] \o WriteEntry(l[n])
  IN  data

Serialize(l) == DataAfter(l)[Len(l)]

(* Lets an entry start that does not end with the data. *)
ValidEntryLongest(data, at) == Len(data) - at > LIST_MIN_SIZE

(* validate_entry; at is the offset of the entry, from 0. *)
ValidEntry(data, at) ==
  LET len == Len(data) - at
  IN  /\ len >= LIST_MIN_SIZE
      /\ data[at + 1].key_len + data[at + 1].value_len + LIST_HEADER_SIZE <= len

EntryAt(data, at) ==
  LET key   == at + LIST_HEADER_SIZE
      value == key + data[at + 1].key_len
      end   == value + data[at + 1].value_len
  IN  [key |-> SubSeq(data, key + 1, value), value |-> SubSeq(data, value + 1, end)]

(* A turn of the loop of libnvram_deserialize; that of                     *)
(* libnvram_validate_data makes no list.                                   *)
Turn(data, t) ==
  IF t.i < Len(data) /\ ValidEntry(data, t.i)
    THEN LET entry == EntryAt(data, t.i)
         IN  [i |-> t.i + EntrySize(entry), list |-> ListSet(t.list, entry)]
    ELSE t

(* Each turn goes on by LIST_HEADER_SIZE at least, so that there are no    *)
(* more turns than cells.                                                  *)
Turns(data) ==
  LET turns[n \in 0 .. Len(data)] ==
        IF n = 0 THEN [i |-> 0, list |-> <<>>] ELSE Turn(data, turns[n - 1])
  IN  turns

(* libnvram_validate_data, once the crc32 matches. *)
ValidData(data) == Turns(data)[Len(data)].i = Len(data)

(* libnvram_deserialize: no part of a list if there is an illegal entry.   *)
Deserialize(data) ==
  IF ValidData(data)
    THEN [ok |-> TRUE, list |-> Turns(data)[Len(data)].list]
    ELSE [ok |-> FALSE, list |-> <<>>]

(* Adds the header to a size that has it. *)
ItNextHeaderTwice(data, it) == it + LIST_HEADER_SIZE + EntrySize(EntryAt(data, it))

(* libnvram_it_next *)
ItNext(data, it) == it + LIST_HEADER_SIZE + data[it + 1].key_len + data[it + 1].value_len

(* The offset of the iterator after n steps from libnvram_it_begin, none   *)
(* of them from libnvram_it_end or past it.                                *)
ItAfter(data) ==
  LET it[n \in 0 .. Len(data)] ==
        IF n = 0 THEN 0
        ELSE IF it[n - 1] < Len(data) THEN ItNext(data, it[n - 1]) ELSE it[n - 1]
  IN  it

-------------------------------------------------------------------------------

(* What libnvram_serialize makes of a list is legal, and                   *)
(* libnvram_deserialize gives the list back, with its order.               *)
RoundTrip == Deserialize(Serialize(list)) = [ok |-> TRUE, list |-> list]

(* libnvram_serialize uses every byte of the buffer that nvram_commit      *)
(* allocates by libnvram_serialize_size, and no more: it never returns 0,  *)
(* which nvram_commit would take for a success without a write.            *)
SizeExact == SerializeSize(list) = HEADER_SIZE + Len(Serialize(list))

(* Iterating over the data meets the entries of the list, in their order,  *)
(* and ends where the data ends.                                           *)
IteratorAgrees ==
  LET data == Serialize(list)
  IN  /\ \A n \in DOMAIN list :
           /\ ItAfter(data)[n - 1] < Len(data)
           /\ EntryAt(data, ItAfter(data)[n - 1]) = list[n]
      /\ ItAfter(data)[Len(list)] = Len(data)
===============================================================================
