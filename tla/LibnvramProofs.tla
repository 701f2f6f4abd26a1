---------------------------- MODULE LibnvramProofs ----------------------------
(***************************************************************************)
(* Proofs about LibnvramList, LibnvramFormat and Printing, for all keys    *)
(* and values and lists of any length: no key has two nodes, the list is a *)
(* map to its callers, and no call reorders it; what is serialized has the *)
(* size that was counted, and is deserialized and iterated as the list it  *)
(* was; --list and --get print it whole.                                   *)
(***************************************************************************)
EXTENDS Printing, SequenceTheorems, FiniteSetTheorems, TLAPS

(*-------------------------------------------------------------------------*)
(* LibnvramList                                                            *)
(*-------------------------------------------------------------------------*)

Unique(l) == \A i, j \in DOMAIN l : l[i].key = l[j].key => i = j

(* The inductive invariant.  Unique keys are what makes a replacement, or  *)
(* a removal, at the first match be one of the only match.                 *)
ListInv == TypeOK /\ UniqueKeys

-------------------------------------------------------------------------------

(* What a search finds in a list with unique keys: the only node.          *)

LEMMA Found ==
  ASSUME NEW l \in Seq(Entry), Unique(l), NEW i \in DOMAIN l
  PROVE  /\ Matches(l, l[i].key) = {i}
         /\ Position(l, l[i].key) = i
         /\ ListGet(l, l[i].key) = l[i].value
<1>1. DOMAIN l \subseteq Int
  BY LenProperties
<1>2. Matches(l, l[i].key) = {i}
  BY DEF Matches, Unique
<1>3. Position(l, l[i].key) = i
  BY <1>1, <1>2 DEF Position
<1>4. QED
  BY <1>2, <1>3 DEF ListGet

LEMMA NotFound ==
  ASSUME NEW l, NEW key
  PROVE  Matches(l, key) = {} <=> key \notin KeysOf(l)
BY DEF Matches, KeysOf

LEMMA FoundKey ==
  ASSUME NEW l \in Seq(Entry), Unique(l), NEW key \in KeysOf(l)
  PROVE  /\ Position(l, key) \in 1 .. Len(l)
         /\ l[Position(l, key)].key = key
         /\ ListGet(l, key) = l[Position(l, key)].value
         /\ \A i \in DOMAIN l : l[i].key = key => i = Position(l, key)
<1>1. PICK i \in DOMAIN l : l[i].key = key
  BY DEF KeysOf
<1>2. Position(l, key) = i /\ ListGet(l, key) = l[i].value
  BY <1>1, Found
<1>3. QED
  BY <1>1, <1>2, LenProperties DEF Unique

(* A list with unique keys is determined, as a map, by its nodes.          *)
LEMMA MapOf ==
  ASSUME NEW l \in Seq(Entry), Unique(l), NEW f,
         f = [k \in DOMAIN f |-> f[k]],
         DOMAIN f = KeysOf(l),
         \A i \in DOMAIN l : f[l[i].key] = l[i].value
  PROVE  AsMap(l) = f
<1>1. ASSUME NEW k \in KeysOf(l)
      PROVE  ListGet(l, k) = f[k]
  BY <1>1, FoundKey, LenProperties
<1>2. QED
  BY <1>1 DEF AsMap

-------------------------------------------------------------------------------

(* libnvram_list_set: the types, the keys, the map and the order.          *)

LEMMA SetNew ==
  ASSUME NEW l \in Seq(Entry), Unique(l), NEW entry \in Entry,
         entry.key \notin KeysOf(l)
  PROVE  /\ ListSet(l, entry) \in Seq(Entry)
         /\ Len(ListSet(l, entry)) = Len(l) + 1
         /\ \A i \in 1 .. Len(l) : ListSet(l, entry)[i] = l[i]
         /\ ListSet(l, entry)[Len(l) + 1] = entry
<1>1. ListSet(l, entry) = Append(l, entry)
  BY NotFound DEF ListSet
<1>2. QED
  BY <1>1, AppendProperties

LEMMA SetOld ==
  ASSUME NEW l \in Seq(Entry), Unique(l), NEW entry \in Entry,
         entry.key \in KeysOf(l)
  PROVE  /\ ListSet(l, entry) \in Seq(Entry)
         /\ Len(ListSet(l, entry)) = Len(l)
         /\ \A i \in 1 .. Len(l) :
              ListSet(l, entry)[i] = IF i = Position(l, entry.key) THEN entry ELSE l[i]
<1>1. ListSet(l, entry) = [l EXCEPT ![Position(l, entry.key)] = entry]
  BY NotFound DEF ListSet
<1>2. Position(l, entry.key) \in 1 .. Len(l)
  BY FoundKey
<1>3. QED
  BY <1>1, <1>2, ExceptSeq

LEMMA SetUnique ==
  ASSUME NEW l \in Seq(Entry), Unique(l), NEW entry \in Entry
  PROVE  /\ ListSet(l, entry) \in Seq(Entry)
         /\ Unique(ListSet(l, entry))
         /\ KeysOf(ListSet(l, entry)) = KeysOf(l) \cup {entry.key}
<1> DEFINE s == ListSet(l, entry)
<1>1. DOMAIN l = 1 .. Len(l) /\ Len(l) \in Nat
  BY LenProperties
<1>2. CASE entry.key \notin KeysOf(l)
  <2>1. /\ s \in Seq(Entry)
        /\ Len(s) = Len(l) + 1
        /\ \A i \in 1 .. Len(l) : s[i] = l[i]
        /\ s[Len(l) + 1] = entry
    BY <1>2, SetNew
  <2>2. DOMAIN s = 1 .. Len(l) + 1
    BY <2>1, LenProperties
  <2> HIDE DEF s
  <2>3. \A i \in 1 .. Len(l) : l[i].key # entry.key
    BY <1>1, <1>2 DEF KeysOf
  <2>4. Unique(s)
    BY <1>1, <2>1, <2>2, <2>3 DEF Unique
  <2>5. KeysOf(s) = KeysOf(l) \cup {entry.key}
    <3>1. \A i \in DOMAIN s : s[i].key \in KeysOf(l) \cup {entry.key}
      BY <1>1, <2>1, <2>2 DEF KeysOf
    <3>2. \A i \in DOMAIN l : i \in DOMAIN s /\ s[i].key = l[i].key
      BY <1>1, <2>1, <2>2
    <3>3. Len(l) + 1 \in DOMAIN s
      BY <1>1, <2>2
    <3>4. QED
      BY <3>1, <3>2, <3>3, <2>1 DEF KeysOf
  <2>6. QED
    BY <2>1, <2>4, <2>5 DEF s
<1>3. CASE entry.key \in KeysOf(l)
  <2> DEFINE p == Position(l, entry.key)
  <2>1. /\ s \in Seq(Entry)
        /\ Len(s) = Len(l)
        /\ \A i \in 1 .. Len(l) : s[i] = IF i = p THEN entry ELSE l[i]
    BY <1>3, SetOld
  <2>2. p \in 1 .. Len(l) /\ l[p].key = entry.key
    BY <1>3, FoundKey
  <2>3. DOMAIN s = 1 .. Len(l)
    BY <2>1, LenProperties
  <2> HIDE DEF s, p
  <2>4. \A i \in DOMAIN s : s[i].key = l[i].key
    BY <2>1, <2>2, <2>3
  <2>5. QED
    BY <1>1, <1>3, <2>1, <2>3, <2>4 DEF Unique, KeysOf, s
<1>4. QED
  BY <1>2, <1>3

LEMMA SetMap ==
  ASSUME NEW l \in Seq(Entry), Unique(l), NEW entry \in Entry
  PROVE  AsMap(ListSet(l, entry)) =
           [x \in KeysOf(l) \cup {entry.key} |->
              IF x = entry.key THEN entry.value ELSE AsMap(l)[x]]
<1> DEFINE s == ListSet(l, entry)
           f == [x \in KeysOf(l) \cup {entry.key} |->
                   IF x = entry.key THEN entry.value ELSE AsMap(l)[x]]
<1>1. s \in Seq(Entry) /\ Unique(s) /\ DOMAIN f = KeysOf(s)
  BY SetUnique
<1>2. DOMAIN l = 1 .. Len(l) /\ Len(l) \in Nat
  BY LenProperties
<1>3. \A i \in DOMAIN l : l[i].key \in KeysOf(l) /\ AsMap(l)[l[i].key] = l[i].value
  BY Found DEF AsMap, KeysOf
<1>4. ASSUME NEW i \in DOMAIN s
      PROVE  s[i] = entry \/ (i \in DOMAIN l /\ s[i] = l[i] /\ s[i].key # entry.key)
  <2>1. CASE entry.key \notin KeysOf(l)
    <3>1. DOMAIN s = 1 .. Len(l) + 1
      BY <1>1, <2>1, SetNew, LenProperties
    <3>2. \A j \in 1 .. Len(l) : s[j] = l[j]
      BY <2>1, SetNew
    <3>3. s[Len(l) + 1] = entry
      BY <2>1, SetNew
    <3>4. QED
      BY <1>2, <1>3, <1>4, <2>1, <3>1, <3>2, <3>3
  <2>2. CASE entry.key \in KeysOf(l)
    <3>1. DOMAIN s = 1 .. Len(l)
      BY <1>1, <2>2, SetOld, LenProperties
    <3>2. s[i] = IF i = Position(l, entry.key) THEN entry ELSE l[i]
      BY <1>4, <2>2, <3>1, SetOld
    <3>3. i # Position(l, entry.key) => l[i].key # entry.key
      BY <1>2, <1>4, <2>2, <3>1, FoundKey
    <3>4. QED
      BY <1>2, <1>4, <3>1, <3>2, <3>3
  <2>3. QED
    BY <2>1, <2>2
<1> HIDE DEF s
<1>5. \A i \in DOMAIN s : f[s[i].key] = s[i].value
  BY <1>3, <1>4
<1>6. QED
  BY <1>1, <1>5, MapOf DEF s

(* A set keeps every node where it is. *)
LEMMA SetKeepsOrder ==
  ASSUME NEW l \in Seq(Entry), Unique(l), NEW entry \in Entry
  PROVE  \A i \in DOMAIN l : /\ i \in DOMAIN ListSet(l, entry)
                             /\ ListSet(l, entry)[i].key = l[i].key
<1>1. DOMAIN l = 1 .. Len(l) /\ Len(l) \in Nat
  BY LenProperties
<1>2. CASE entry.key \notin KeysOf(l)
  BY <1>1, <1>2, SetNew, LenProperties
<1>3. CASE entry.key \in KeysOf(l)
  <2>1. DOMAIN ListSet(l, entry) = DOMAIN l
    BY <1>1, <1>3, SetOld, LenProperties
  <2>2. l[Position(l, entry.key)].key = entry.key
    BY <1>3, FoundKey
  <2>3. QED
    BY <1>1, <1>3, <2>1, <2>2, SetOld
<1>4. QED
  BY <1>2, <1>3

-------------------------------------------------------------------------------

(* libnvram_list_remove: where each node goes, then the same.              *)

(* The node of the shorter list that node i of the list becomes. *)
Moved(l, key, i) == IF i < Position(l, key) THEN i ELSE i - 1

LEMMA RemoveOld ==
  ASSUME NEW l \in Seq(Entry), Unique(l), NEW key \in KeysOf(l)
  PROVE  /\ ListRemove(l, key) \in Seq(Entry)
         /\ Len(l) \in Nat \ {0}
         /\ DOMAIN ListRemove(l, key) = 1 .. Len(l) - 1
         /\ \A i \in 1 .. Len(l) - 1 :
              ListRemove(l, key)[i] = IF i < Position(l, key) THEN l[i] ELSE l[i + 1]
<1> DEFINE p == Position(l, key)
<1>1. ListRemove(l, key) = [i \in 1 .. Len(l) - 1 |-> IF i < p THEN l[i] ELSE l[i + 1]]
  BY NotFound DEF ListRemove
<1>2. Len(l) \in Nat /\ p \in 1 .. Len(l)
  BY FoundKey, LenProperties
<1>3. Len(l) - 1 \in Nat
  BY <1>2
<1> HIDE DEF p
<1>4. \A i \in 1 .. Len(l) - 1 : (IF i < p THEN l[i] ELSE l[i + 1]) \in Entry
  BY <1>2, ElementOfSeq
<1>5. ListRemove(l, key) \in [1 .. Len(l) - 1 -> Entry]
  BY <1>1, <1>4
<1>6. ListRemove(l, key) \in Seq(Entry)
  BY <1>3, <1>5, SeqDef
<1>7. QED
  BY <1>1, <1>2, <1>3, <1>6 DEF p

(* Every node of the shorter list is one of the list, with another key. *)
LEMMA RemoveNodes ==
  ASSUME NEW l \in Seq(Entry), Unique(l), NEW key \in KeysOf(l)
  PROVE  /\ \A m \in DOMAIN ListRemove(l, key) :
              \E i \in DOMAIN l : /\ l[i].key # key
                                 /\ m = Moved(l, key, i)
                                 /\ ListRemove(l, key)[m] = l[i]
         /\ \A i \in DOMAIN l : l[i].key # key =>
              /\ Moved(l, key, i) \in DOMAIN ListRemove(l, key)
              /\ ListRemove(l, key)[Moved(l, key, i)] = l[i]
         /\ \A i, j \in DOMAIN l :
              /\ l[i].key # key
              /\ l[j].key # key
              /\ i < j
              => Moved(l, key, i) < Moved(l, key, j)
<1> DEFINE p == Position(l, key)
           r == ListRemove(l, key)
<1>1. /\ Len(l) \in Nat
      /\ DOMAIN l = 1 .. Len(l)
      /\ DOMAIN r = 1 .. Len(l) - 1
      /\ \A i \in 1 .. Len(l) - 1 : r[i] = IF i < p THEN l[i] ELSE l[i + 1]
  BY RemoveOld, LenProperties
<1>2. p \in 1 .. Len(l) /\ \A i \in DOMAIN l : l[i].key = key <=> i = p
  BY FoundKey
<1> HIDE DEF p, r
<1>3. ASSUME NEW m \in DOMAIN r
      PROVE  \E i \in DOMAIN l : l[i].key # key /\ m = Moved(l, key, i) /\ r[m] = l[i]
  <2>1. CASE m < p
    <3>1. m \in DOMAIN l /\ l[m].key # key /\ r[m] = l[m]
      BY <1>1, <1>2, <1>3, <2>1
    <3>2. QED
      BY <2>1, <3>1 DEF Moved, p
  <2>2. CASE ~(m < p)
    <3>1. m + 1 \in DOMAIN l /\ l[m + 1].key # key /\ r[m] = l[m + 1]
      BY <1>1, <1>2, <1>3, <2>2
    <3>2. ~(m + 1 < p) /\ m = (m + 1) - 1
      BY <1>1, <1>2, <1>3, <2>2
    <3>3. QED
      BY <3>1, <3>2 DEF Moved, p
  <2>3. QED
    BY <2>1, <2>2
<1>4. ASSUME NEW i \in DOMAIN l, l[i].key # key
      PROVE  Moved(l, key, i) \in DOMAIN r /\ r[Moved(l, key, i)] = l[i]
  <2>1. i # p /\ Moved(l, key, i) = IF i < p THEN i ELSE i - 1
    BY <1>2, <1>4 DEF Moved, p
  <2>2. QED
    BY <1>1, <1>2, <1>4, <2>1
<1>5. ASSUME NEW i \in DOMAIN l, NEW j \in DOMAIN l, l[i].key # key, l[j].key # key, i < j
      PROVE  Moved(l, key, i) < Moved(l, key, j)
  <2>1. i # p /\ j # p
    BY <1>2, <1>5
  <2>2. /\ Moved(l, key, i) = IF i < p THEN i ELSE i - 1
        /\ Moved(l, key, j) = IF j < p THEN j ELSE j - 1
    BY DEF Moved, p
  <2>3. QED
    BY <1>1, <1>2, <1>5, <2>1, <2>2
<1>6. QED
  BY <1>3, <1>4, <1>5 DEF r

LEMMA RemoveNone ==
  ASSUME NEW l \in Seq(Entry), NEW key, key \notin KeysOf(l)
  PROVE  ListRemove(l, key) = l
BY NotFound DEF ListRemove

LEMMA RemoveUnique ==
  ASSUME NEW l \in Seq(Entry), Unique(l), NEW key \in Keys
  PROVE  /\ ListRemove(l, key) \in Seq(Entry)
         /\ Unique(ListRemove(l, key))
         /\ KeysOf(ListRemove(l, key)) = KeysOf(l) \ {key}
<1> DEFINE r == ListRemove(l, key)
<1>1. CASE key \notin KeysOf(l)
  BY <1>1, RemoveNone
<1>2. CASE key \in KeysOf(l)
  <2>1. r \in Seq(Entry)
    BY <1>2, RemoveOld
  <2>2. \A m \in DOMAIN r : \E i \in DOMAIN l :
          l[i].key # key /\ m = Moved(l, key, i) /\ r[m] = l[i]
    BY <1>2, RemoveNodes
  <2>3. \A i \in DOMAIN l : l[i].key # key =>
          Moved(l, key, i) \in DOMAIN r /\ r[Moved(l, key, i)] = l[i]
    BY <1>2, RemoveNodes
  <2> HIDE DEF r
  <2>4. Unique(r)
    BY <2>2 DEF Unique
  <2>5. KeysOf(r) = KeysOf(l) \ {key}
    BY <2>2, <2>3 DEF KeysOf
  <2>6. QED
    BY <2>1, <2>4, <2>5 DEF r
<1>3. QED
  BY <1>1, <1>2

LEMMA RemoveMap ==
  ASSUME NEW l \in Seq(Entry), Unique(l), NEW key \in Keys
  PROVE  AsMap(ListRemove(l, key)) = [x \in KeysOf(l) \ {key} |-> AsMap(l)[x]]
<1> DEFINE r == ListRemove(l, key)
           f == [x \in KeysOf(l) \ {key} |-> AsMap(l)[x]]
<1>1. CASE key \notin KeysOf(l)
  BY <1>1, RemoveNone DEF AsMap
<1>2. CASE key \in KeysOf(l)
  <2>1. r \in Seq(Entry) /\ Unique(r) /\ DOMAIN f = KeysOf(r)
    BY RemoveUnique
  <2>2. \A i \in DOMAIN l : l[i].key \in KeysOf(l) /\ AsMap(l)[l[i].key] = l[i].value
    BY Found DEF AsMap, KeysOf
  <2>3. \A m \in DOMAIN r : \E i \in DOMAIN l : l[i].key # key /\ r[m] = l[i]
    BY <1>2, RemoveNodes
  <2> HIDE DEF r
  <2>4. \A m \in DOMAIN r : f[r[m].key] = r[m].value
    BY <2>2, <2>3
  <2>5. QED
    BY <2>1, <2>4, MapOf DEF r
<1>3. QED
  BY <1>1, <1>2

-------------------------------------------------------------------------------

LEMMA ListInvInit == Init => ListInv
BY EmptySeq DEF Init, ListInv, TypeOK, UniqueKeys

LEMMA ListInvNext == ListInv /\ [Next]_vars => ListInv'
<1> SUFFICES ASSUME ListInv, [Next]_vars
             PROVE  list' \in Seq(Entry) /\ Unique(list')
  BY DEF ListInv, TypeOK, UniqueKeys, Unique
<1> USE DEF ListInv, TypeOK
<1>1. Unique(list)
  BY DEF UniqueKeys, Unique
<1>2. ASSUME NEW entry \in Entry, Set(entry)
      PROVE  list' \in Seq(Entry) /\ Unique(list')
  BY <1>1, <1>2, SetUnique DEF Set
<1>3. ASSUME NEW entry \in Entry, SetNoMemory(entry)
      PROVE  list' \in Seq(Entry) /\ Unique(list')
  BY <1>1, <1>3 DEF SetNoMemory
<1>4. ASSUME NEW key \in Keys, Get(key)
      PROVE  list' \in Seq(Entry) /\ Unique(list')
  BY <1>1, <1>4 DEF Get
<1>5. ASSUME NEW key \in Keys, RemoveKey(key)
      PROVE  list' \in Seq(Entry) /\ Unique(list')
  BY <1>1, <1>5, RemoveUnique DEF RemoveKey
<1>6. CASE Destroy
  BY <1>6, EmptySeq DEF Destroy, Unique
<1>7. CASE UNCHANGED vars
  BY <1>1, <1>7 DEF vars
<1>8. QED
  BY <1>2, <1>3, <1>4, <1>5, <1>6, <1>7 DEF Next

LEMMA ListInvAlways == Spec => []ListInv
BY ListInvInit, ListInvNext, PTL DEF Spec

(* The list stays a sequence of entries, with no node that has lost its    *)
(* entry (libnvram_list_set, libnvram_list_remove).                        *)
THEOREM ListTypeCorrect == Spec => []TypeOK
BY ListInvAlways, PTL DEF ListInv

(* No key has two nodes, whatever is set, replaced and removed, in lists   *)
(* of any length.                                                          *)
THEOREM ListUniqueKeys == Spec => []UniqueKeys
BY ListInvAlways, PTL DEF ListInv

-------------------------------------------------------------------------------

(* The list implements the map. *)

LEMMA MapInit == Init => Abstract!Init
BY DEF Init, Abstract!Init, AsMap, KeysOf

LEMMA MapNext == ListInv /\ [Next]_vars => [Abstract!Next]_(Abstract!vars)
<1> SUFFICES ASSUME ListInv, [Next]_vars
             PROVE  Abstract!Next \/ UNCHANGED <<AsMap(list), reply>>
  BY DEF Abstract!vars
<1>1. list \in Seq(Entry) /\ Unique(list) /\ DOMAIN AsMap(list) = KeysOf(list)
  BY DEF ListInv, TypeOK, UniqueKeys, Unique, AsMap
<1>2. ASSUME NEW entry \in Entry, Set(entry)
      PROVE  Abstract!Set(entry.key, entry.value)
  BY <1>1, <1>2, SetMap DEF Set, Abstract!Set
<1>3. ASSUME NEW entry \in Entry, SetNoMemory(entry)
      PROVE  Abstract!Set(entry.key, entry.value)
  BY <1>3 DEF SetNoMemory, Abstract!Set
<1>4. ASSUME NEW key \in Keys, Get(key)
      PROVE  Abstract!Get(key)
  <2>1. ListGet(list, key) = IF key \in DOMAIN AsMap(list) THEN AsMap(list)[key] ELSE NoValue
    BY <1>1, NotFound DEF ListGet, AsMap
  <2>2. QED
    BY <1>4, <2>1 DEF Get, Abstract!Get
<1>5. ASSUME NEW key \in Keys, RemoveKey(key)
      PROVE  Abstract!Remove(key)
  <2>1. (Matches(list, key) # {}) = (key \in DOMAIN AsMap(list))
    BY <1>1, NotFound
  <2>2. QED
    BY <1>1, <1>5, <2>1, RemoveMap DEF RemoveKey, Abstract!Remove
<1>6. ASSUME Destroy
      PROVE  Abstract!Destroy
  <2>1. KeysOf(<<>>) = {}
    BY DEF KeysOf
  <2>2. AsMap(<<>>) = [k \in {} |-> NoValue]
    BY <2>1 DEF AsMap
  <2>3. QED
    BY <1>6, <2>2 DEF Destroy, Abstract!Destroy
<1>7. CASE UNCHANGED vars
  BY <1>7 DEF vars, AsMap, KeysOf, ListGet, Matches, Position
<1>8. \A entry \in Entry : entry.key \in Keys /\ entry.value \in Values
  BY DEF Entry
<1>9. QED
  BY <1>2, <1>3, <1>4, <1>5, <1>6, <1>7, <1>8 DEF Next, Abstract!Next

(* What libnvram_list_get, _set and _remove return and do to the list is   *)
(* what they would return and do to a map.                                 *)
THEOREM ListRefinesMap == Spec => ListIsMap
<1>1. ListInv /\ [Next]_vars => [Abstract!Next]_(Abstract!vars)
  BY MapNext
<1>2. QED
  BY <1>1, MapInit, ListInvAlways, PTL DEF Spec, ListIsMap, Abstract!Spec

-------------------------------------------------------------------------------

(* What OrderKept says of one step. *)
KeepsOrder(l, k) ==
  \A i, j \in DOMAIN l, m, n \in DOMAIN k :
    /\ i < j
    /\ l[i].key = k[m].key
    /\ l[j].key = k[n].key
    => m < n

LEMMA OrderNext == ListInv /\ [Next]_vars => KeepsOrder(list, list')
<1> SUFFICES ASSUME ListInv, [Next]_vars
             PROVE  KeepsOrder(list, list')
  OBVIOUS
<1>1. list \in Seq(Entry) /\ Unique(list)
  BY DEF ListInv, TypeOK, UniqueKeys, Unique
<1>2. ASSUME list' = list
      PROVE  KeepsOrder(list, list')
  BY <1>1, <1>2 DEF KeepsOrder, Unique
<1>3. ASSUME NEW entry \in Entry, Set(entry)
      PROVE  KeepsOrder(list, list')
  <2>1. list' = ListSet(list, entry)
    BY <1>3 DEF Set
  <2>2. Unique(list')
    BY <1>1, <2>1, SetUnique
  <2>3. \A i \in DOMAIN list : i \in DOMAIN list' /\ list'[i].key = list[i].key
    BY <1>1, <2>1, SetKeepsOrder
  <2>4. QED
    BY <2>2, <2>3 DEF KeepsOrder, Unique
<1>4. ASSUME NEW key \in Keys, RemoveKey(key), key \in KeysOf(list)
      PROVE  KeepsOrder(list, list')
  <2>1. list' = ListRemove(list, key)
    BY <1>4 DEF RemoveKey
  <2>2. \A m \in DOMAIN list' : \E i \in DOMAIN list :
          list[i].key # key /\ m = Moved(list, key, i) /\ list'[m] = list[i]
    BY <1>1, <1>4, <2>1, RemoveNodes
  <2>3. \A i, j \in DOMAIN list :
          list[i].key # key /\ list[j].key # key /\ i < j
          => Moved(list, key, i) < Moved(list, key, j)
    BY <1>1, <1>4, RemoveNodes
  <2>4. QED
    BY <1>1, <2>2, <2>3 DEF KeepsOrder, Unique
<1>5. ASSUME NEW key \in Keys, RemoveKey(key), key \notin KeysOf(list)
      PROVE  KeepsOrder(list, list')
  BY <1>1, <1>2, <1>5, RemoveNone DEF RemoveKey
<1>6. CASE Destroy
  BY <1>6 DEF Destroy, KeepsOrder
<1>7. QED
  BY <1>2, <1>3, <1>4, <1>5, <1>6 DEF Next, SetNoMemory, Get, vars

(* No call moves an entry that it is not about, in lists of any length.    *)
THEOREM ListOrderKept == Spec => OrderKept
<1>1. ListInv /\ [Next]_vars =>
        [\A i, j \in DOMAIN list, m, n \in DOMAIN list' :
           /\ i < j
           /\ list[i].key = list'[m].key
           /\ list[j].key = list'[n].key
           => m < n]_vars
  BY OrderNext DEF KeepsOrder
<1>2. QED
  BY <1>1, ListInvAlways, PTL DEF Spec, OrderKept

(*-------------------------------------------------------------------------*)
(* LibnvramFormat.  Its loops are recursive functions over their turns,    *)
(* and what they compute is proved by induction over an interval, that is, *)
(* over finite sets: the theorems on natural induction take an operator,   *)
(* and cannot be used.                                                     *)
(*-------------------------------------------------------------------------*)

(* A set of positions that is not empty has a first. *)
LEMMA FirstPosition ==
  ASSUME NEW N \in Nat, NEW S \in SUBSET (1 .. N), S # {}
  PROVE  \E first \in S : \A n \in S : first <= n
<1> DEFINE cuts == {1 .. b : b \in S}
           U    == 1 .. N
<1>1. IsWellFoundedOn(StrictSubsetOrdering(U), FiniteSubsetsOf(U))
  BY FS_StrictSubsetOrderingWellFounded
<1>2. cuts \subseteq FiniteSubsetsOf(U) /\ cuts # {}
  <2>1. ASSUME NEW b \in S PROVE 1 .. b \in FiniteSubsetsOf(U)
    <3>1. IsFiniteSet(1 .. b)
      BY FS_Interval
    <3>2. b \in 1 .. N
      OBVIOUS
    <3>3. 1 .. b \subseteq U
      BY <3>2
    <3>4. QED
      BY <3>1, <3>3 DEF FiniteSubsetsOf
  <2>2. QED
    BY <2>1
<1>3. PICK c \in cuts : \A d \in cuts : <<d, c>> \notin StrictSubsetOrdering(U)
  <2> HIDE DEF cuts, U
  <2>1. QED
    BY <1>1, <1>2, WFMin
<1>4. PICK b \in S : c = 1 .. b
  BY <1>3
<1>5. ASSUME NEW n \in S, n < b PROVE FALSE
  <2>1. n \in Nat /\ b \in Nat /\ b \in U
    OBVIOUS
  <2>2. 1 .. n \subseteq c /\ 1 .. n # c /\ c \subseteq U
    BY <1>4, <1>5, <2>1
  <2>3. <<1 .. n, c>> \in StrictSubsetOrdering(U)
    BY <2>2 DEF StrictSubsetOrdering
  <2>4. QED
    BY <1>3, <2>3
<1>6. \A n \in S : b <= n
  <2>1. \A n \in S : n \in Nat
    OBVIOUS
  <2>2. QED
    BY <1>5, <2>1
<1>7. QED
  BY <1>6

(* What holds of 0, and of n + 1 when it holds of n, holds up to N. *)
LEMMA IntervalInduction ==
  ASSUME NEW N \in Nat, NEW T, 0 \in T,
         \A n \in 0 .. N - 1 : n \in T => n + 1 \in T
  PROVE  \A n \in 0 .. N : n \in T
<1> SUFFICES ASSUME NEW b \in 0 .. N, b \notin T PROVE FALSE
  OBVIOUS
<1> DEFINE S == {n \in 1 .. N : n \notin T}
<1>1. b \in S
  OBVIOUS
<1>2. PICK first \in S : \A n \in S : first <= n
  <2> S \in SUBSET (1 .. N) /\ S # {}
    BY <1>1
  <2> HIDE DEF S
  <2>1. QED
    BY FirstPosition
<1>3. first - 1 \in 0 .. N - 1 /\ first - 1 \notin S /\ (first - 1) + 1 = first
  BY <1>2
<1>4. first - 1 \in T
  BY <1>3
<1>5. QED
  BY <1>2, <1>3, <1>4

(* A recursive function whose steps stay in a set is defined. *)

Steps(N, V) == [1 .. N -> [V -> V]]

Recursion(f, N, V, base, step) ==
  /\ f \in [0 .. N -> V]
  /\ f[0] = base
  /\ \A n \in 1 .. N : f[n] = step[n][f[n - 1]]

LEMMA IntervalRecursion ==
  ASSUME NEW N \in Nat, NEW V, NEW base \in V, NEW step \in Steps(N, V)
  PROVE  \E f : Recursion(f, N, V, base, step)
<1> USE DEF Steps
<1> DEFINE Upto(f, n) == Recursion(f, n, V, base, step)
           defined == {n \in 0 .. N : \E f : Upto(f, n)}
<1>1. 0 \in defined
  <2>1. Upto([m \in 0 .. 0 |-> base], 0)
    BY DEF Recursion
  <2>2. QED
    BY <2>1
<1>2. ASSUME NEW n \in 0 .. N - 1, n \in defined
      PROVE  n + 1 \in defined
  <2>1. PICK f : Upto(f, n)
    BY <1>2
  <2>2. n \in Nat /\ n + 1 \in 1 .. N /\ (n + 1) - 1 = n
    BY <1>2
  <2>3. f[n] \in V /\ step[n + 1][f[n]] \in V
    BY <2>1, <2>2 DEF Recursion
  <2>4. PICK g : g = [m \in 0 .. n + 1 |-> IF m = n + 1 THEN step[n + 1][f[n]] ELSE f[m]]
    OBVIOUS
  <2>5. \A m \in 0 .. n : g[m] = f[m] /\ f[m] \in V
    BY <2>1, <2>2, <2>4 DEF Recursion
  <2>6. g[n + 1] = step[n + 1][g[n]]
    BY <2>2, <2>4, <2>5
  <2>7. g \in [0 .. n + 1 -> V]
    <3>1. \A m \in 0 .. n + 1 : m = n + 1 \/ m \in 0 .. n
      BY <2>2
    <3>2. \A m \in 0 .. n + 1 : g[m] \in V
      BY <2>2, <2>3, <2>4, <2>5, <3>1
    <3>3. QED
      BY <2>4, <3>2
  <2>8. ASSUME NEW m \in 1 .. n + 1 PROVE g[m] = step[m][g[m - 1]]
    <3>1. CASE m = n + 1
      BY <2>2, <2>6, <3>1
    <3>2. CASE m \in 1 .. n
      <4>1. m \in 0 .. n /\ m - 1 \in 0 .. n
        BY <3>2
      <4>2. QED
        BY <2>1, <2>5, <3>2, <4>1 DEF Recursion
    <3>3. QED
      BY <2>2, <3>1, <3>2
  <2>9. g[0] = base
    BY <2>1, <2>2, <2>5 DEF Recursion
  <2>10. Upto(g, n + 1)
    BY <2>7, <2>8, <2>9 DEF Recursion
  <2>11. QED
    BY <2>2, <2>10
<1>3. N \in defined
  <2> HIDE DEF defined
  <2>1. \A n \in 0 .. N : n \in defined
    BY <1>1, <1>2, IntervalInduction
  <2>2. QED
    BY <2>1
<1>4. QED
  BY <1>3

(* Two functions with the same recursion are the same. *)
SameSteps(f, g, N) ==
  /\ f[0] = g[0]
  /\ \A n \in 1 .. N : f[n - 1] = g[n - 1] => f[n] = g[n]

LEMMA SameRecursion ==
  ASSUME NEW N \in Nat, NEW f, NEW g, SameSteps(f, g, N)
  PROVE  \A n \in 0 .. N : f[n] = g[n]
<1> USE DEF SameSteps
<1> DEFINE T == {n \in 0 .. N : f[n] = g[n]}
<1>1. 0 \in T
  OBVIOUS
<1>2. ASSUME NEW n \in 0 .. N - 1, n \in T
      PROVE  n + 1 \in T
  <2>1. n + 1 \in 1 .. N /\ (n + 1) - 1 = n
    BY <1>2
  <2>2. f[n + 1] = g[n + 1]
    BY <1>2, <2>1
  <2>3. QED
    BY <2>1, <2>2
<1>3. \A n \in 0 .. N : n \in T
  <2> HIDE DEF T
  <2>1. QED
    BY <1>1, <1>2, IntervalInduction
<1>4. QED
  BY <1>3

-------------------------------------------------------------------------------

(* One entry. *)

LEMMA SeqOfLength ==
  ASSUME NEW S, NEW n \in Nat, NEW s \in [1 .. n -> S]
  PROVE  s \in Seq(S) /\ Len(s) = n
<1>1. s \in Seq(S)
  BY SeqDef
<1>2. PICK m \in Nat : m = Len(s)
  BY <1>1, LenProperties
<1>3. 1 .. m = 1 .. n
  BY <1>1, <1>2, LenProperties
<1>4. m = n
  <2>1. CASE m < n
    <3>1. n \in 1 .. n /\ n \notin 1 .. m
      BY <2>1
    <3>2. QED
      BY <1>3, <3>1
  <2>2. CASE n < m
    <3>1. m \in 1 .. m /\ m \notin 1 .. n
      BY <2>2
    <3>2. QED
      BY <1>3, <3>1
  <2>3. QED
    BY <2>1, <2>2
<1>5. QED
  BY <1>1, <1>2, <1>4

Cells == (0 .. 255) \cup [key_len : Nat, value_len : Nat]

LEMMA EntryBytes ==
  ASSUME NEW entry \in Entry
  PROVE  /\ entry.key \in Seq(0 .. 255)
         /\ entry.value \in Seq(0 .. 255)
         /\ entry.key \in Seq(Cells)
         /\ entry.value \in Seq(Cells)
         /\ Len(entry.key) \in Nat \ {0}
         /\ Len(entry.value) \in Nat \ {0}
<1>1. entry.key \in Seq(0 .. 255) \ {<<>>} /\ entry.value \in Seq(0 .. 255) \ {<<>>}
  BY BytesAssumption DEF Entry
<1>2. 0 .. 255 \subseteq Cells
  BY DEF Cells
<1>3. entry.key \in Seq(Cells) /\ entry.value \in Seq(Cells)
  BY <1>1, <1>2, SeqMonotonic
<1>4. QED
  BY <1>1, <1>3, EmptySeq

LEMMA WriteEntryCells ==
  ASSUME NEW entry \in Entry
  PROVE  /\ WriteEntry(entry) \in Seq(Cells)
         /\ Len(WriteEntry(entry)) = EntrySize(entry)
         /\ EntrySize(entry) \in Nat /\ EntrySize(entry) >= LIST_MIN_SIZE
         /\ WriteEntry(entry)[1] =
              [key_len |-> Len(entry.key), value_len |-> Len(entry.value)]
         /\ \A j \in 1 .. Len(entry.key) :
              WriteEntry(entry)[LIST_HEADER_SIZE + j] = entry.key[j]
         /\ \A j \in 1 .. Len(entry.value) :
              WriteEntry(entry)[LIST_HEADER_SIZE + Len(entry.key) + j] = entry.value[j]
<1> DEFINE header == <<[key_len |-> Len(entry.key), value_len |-> Len(entry.value)]>>
           rest   == [i \in 1 .. LIST_HEADER_SIZE - 1 |-> 0]
           key    == entry.key
           value  == entry.value
<1>1. /\ key \in Seq(Cells) /\ value \in Seq(Cells)
      /\ Len(key) \in Nat \ {0} /\ Len(value) \in Nat \ {0}
  BY EntryBytes
<1>2. header \in Seq(Cells) /\ Len(header) = 1
  <2>1. header[1] \in Cells
    BY <1>1 DEF Cells
  <2>2. QED
    BY <2>1
<1>3. rest \in Seq(Cells) /\ Len(rest) = 7
  <2>1. 0 \in Cells /\ LIST_HEADER_SIZE - 1 = 7
    BY DEF Cells, LIST_HEADER_SIZE
  <2>2. rest \in [1 .. 7 -> Cells]
    BY <2>1
  <2> HIDE DEF rest
  <2>3. QED
    BY <2>2, SeqOfLength
<1>4. WriteEntry(entry) = ((header \o rest) \o key) \o value
  BY DEF WriteEntry
<1> HIDE DEF header, rest, key, value
<1>5. /\ header \o rest \in Seq(Cells) /\ Len(header \o rest) = 8
      /\ (header \o rest)[1] = header[1]
  <2>1. \A i \in 1 .. Len(header) + Len(rest) : (header \o rest)[i] =
          IF i <= Len(header) THEN header[i] ELSE rest[i - Len(header)]
    BY <1>2, <1>3, ConcatProperties
  <2>2. 1 \in 1 .. Len(header) + Len(rest) /\ 1 <= Len(header)
    BY <1>2, <1>3
  <2>3. (header \o rest)[1] = header[1]
    BY <2>1, <2>2
  <2>4. header \o rest \in Seq(Cells) /\ Len(header \o rest) = Len(header) + Len(rest)
    BY <1>2, <1>3, ConcatProperties
  <2>5. QED
    BY <1>2, <1>3, <2>3, <2>4
<1>6. /\ (header \o rest) \o key \in Seq(Cells)
      /\ Len((header \o rest) \o key) = 8 + Len(key)
      /\ ((header \o rest) \o key)[1] = header[1]
      /\ \A j \in 1 .. Len(key) : ((header \o rest) \o key)[8 + j] = key[j]
  <2>1. \A i \in 1 .. 8 + Len(key) : ((header \o rest) \o key)[i] =
          IF i <= 8 THEN (header \o rest)[i] ELSE key[i - 8]
    BY <1>1, <1>5, ConcatProperties
  <2>2. \A j \in 1 .. Len(key) : 8 + j \in 1 .. 8 + Len(key) /\ ~(8 + j <= 8) /\ (8 + j) - 8 = j
    BY <1>1
  <2>3. QED
    BY <1>1, <1>5, <2>1, <2>2, ConcatProperties
<1>7. /\ WriteEntry(entry) \in Seq(Cells)
      /\ Len(WriteEntry(entry)) = 8 + Len(key) + Len(value)
  BY <1>1, <1>4, <1>6, ConcatProperties
<1>8. \A i \in 1 .. 8 + Len(key) + Len(value) : WriteEntry(entry)[i] =
        IF i <= 8 + Len(key) THEN ((header \o rest) \o key)[i] ELSE value[i - (8 + Len(key))]
  BY <1>1, <1>4, <1>6, ConcatProperties
<1>9. WriteEntry(entry)[1] = header[1]
  BY <1>1, <1>6, <1>8
<1>10. \A j \in 1 .. Len(key) : WriteEntry(entry)[8 + j] = key[j]
  <2>1. \A j \in 1 .. Len(key) : 8 + j \in 1 .. 8 + Len(key) + Len(value) /\ 8 + j <= 8 + Len(key)
    BY <1>1
  <2>2. QED
    BY <1>6, <1>8, <2>1
<1>11. \A j \in 1 .. Len(value) : WriteEntry(entry)[8 + Len(key) + j] = value[j]
  <2>1. \A j \in 1 .. Len(value) :
          /\ 8 + Len(key) + j \in 1 .. 8 + Len(key) + Len(value)
          /\ ~(8 + Len(key) + j <= 8 + Len(key))
          /\ (8 + Len(key) + j) - (8 + Len(key)) = j
    BY <1>1
  <2>2. QED
    BY <1>8, <2>1
<1>12. header[1] = [key_len |-> Len(entry.key), value_len |-> Len(entry.value)]
  BY DEF header
<1>13. EntrySize(entry) = 8 + Len(key) + Len(value) /\ LIST_HEADER_SIZE = 8 /\ LIST_MIN_SIZE = 10
  BY DEF EntrySize, LIST_HEADER_SIZE, LIST_MIN_SIZE, key, value
<1>14. EntrySize(entry) \in Nat /\ EntrySize(entry) >= LIST_MIN_SIZE
  BY <1>1, <1>13
<1>15. QED
  BY <1>7, <1>9, <1>10, <1>11, <1>12, <1>13, <1>14 DEF key, value

(* The data of the first n entries. *)
LEMMA DataDef ==
  ASSUME NEW l \in Seq(Entry)
  PROVE  /\ DataAfter(l) \in [0 .. Len(l) -> Seq(Cells)]
         /\ DataAfter(l)[0] = <<>>
         /\ \A n \in 1 .. Len(l) :
              DataAfter(l)[n] = DataAfter(l)[n - 1] \o WriteEntry(l[n])
<1> DEFINE N == Len(l)
           Def(f, n) == IF n = 0 THEN <<>> ELSE f[n - 1] \o WriteEntry(l[n])
           D == DataAfter(l)
<1>1. N \in Nat /\ \A n \in 1 .. N : l[n] \in Entry
  BY LenProperties, ElementOfSeq
<1>2. \A n \in 1 .. N, data \in Seq(Cells) : data \o WriteEntry(l[n]) \in Seq(Cells)
  BY <1>1, WriteEntryCells, ConcatProperties
<1>3. PICK g \in [0 .. N -> Seq(Cells)] :
        g[0] = <<>> /\ \A n \in 1 .. N : g[n] = g[n - 1] \o WriteEntry(l[n])
  <2> DEFINE step == [n \in 1 .. N |-> [data \in Seq(Cells) |-> data \o WriteEntry(l[n])]]
  <2>1. step \in [1 .. N -> [Seq(Cells) -> Seq(Cells)]]
    BY <1>2
  <2>2. <<>> \in Seq(Cells)
    BY EmptySeq
  <2>3. \A n \in 1 .. N, data \in Seq(Cells) : step[n][data] = data \o WriteEntry(l[n])
    OBVIOUS
  <2> DEFINE V == Seq(Cells)
             base == <<>>
  <2> HIDE DEF step, N, V, base
  <2>4. PICK g : Recursion(g, N, V, base, step)
    <3>1. N \in Nat /\ base \in V /\ step \in Steps(N, V)
      BY <1>1, <2>1, <2>2 DEF V, base, Steps
    <3>2. QED
      BY <3>1, IntervalRecursion
  <2>5. \A n \in 1 .. N : g[n] = g[n - 1] \o WriteEntry(l[n])
    <3>1. \A n \in 1 .. N : n - 1 \in 0 .. N
      BY <1>1
    <3>2. QED
      BY <2>3, <2>4, <3>1 DEF V, Recursion
  <2>6. QED
    BY <2>4, <2>5 DEF V, base, Recursion
<1>4. D = [n \in 0 .. N |-> Def(D, n)]
  <2>1. g = [n \in 0 .. N |-> g[n]]
    OBVIOUS
  <2>2. ASSUME NEW n \in 0 .. N PROVE g[n] = Def(g, n)
    <3>1. n = 0 \/ (n # 0 /\ n \in 1 .. N)
      BY <1>1
    <3>2. QED
      BY <1>3, <3>1
  <2>3. g = [n \in 0 .. N |-> Def(g, n)]
    BY <2>1, <2>2
  <2>4. QED
    BY <2>3 DEF DataAfter
<1> HIDE DEF D
<1>5. D[0] = <<>> /\ DOMAIN D = 0 .. N
  BY <1>1, <1>4
<1>6. ASSUME NEW n \in 1 .. N PROVE D[n] = D[n - 1] \o WriteEntry(l[n])
  <2>1. n \in 0 .. N /\ n # 0
    BY <1>1
  <2>2. D[n] = Def(D, n)
    BY <1>4, <2>1
  <2>3. QED
    BY <2>1, <2>2
<1>7. \A n \in 0 .. N : D[n] = g[n]
  <2> HIDE DEF N
  <2>1. D[0] = g[0]
    BY <1>3, <1>5
  <2>2. \A n \in 1 .. N : D[n - 1] = g[n - 1] => D[n] = g[n]
    BY <1>3, <1>6
  <2>3. N \in Nat /\ SameSteps(D, g, N)
    BY <1>1, <2>1, <2>2 DEF SameSteps
  <2>4. QED
    BY <2>3, SameRecursion
<1>8. D \in [0 .. N -> Seq(Cells)]
  <2>1. D = [n \in 0 .. N |-> D[n]]
    BY <1>4
  <2>2. QED
    BY <1>7, <2>1
<1>9. QED
  BY <1>5, <1>6, <1>8 DEF D

LEMMA DataGrows ==
  ASSUME NEW l \in Seq(Entry), NEW n \in 1 .. Len(l)
  PROVE  LET was == DataAfter(l)[n - 1]
             is  == DataAfter(l)[n]
         IN  /\ was \in Seq(Cells) /\ is \in Seq(Cells)
             /\ Len(was) \in Nat
             /\ Len(is) = Len(was) + EntrySize(l[n])
             /\ \A i \in 1 .. Len(was) : is[i] = was[i]
             /\ \A j \in 1 .. EntrySize(l[n]) : is[Len(was) + j] = WriteEntry(l[n])[j]
<1> DEFINE was == DataAfter(l)[n - 1]
           is  == DataAfter(l)[n]
           new == WriteEntry(l[n])
<1>1. l[n] \in Entry /\ Len(l) \in Nat
  BY ElementOfSeq, LenProperties
<1>2. n \in 0 .. Len(l) /\ n - 1 \in 0 .. Len(l)
  BY <1>1
<1>3. was \in Seq(Cells) /\ is \in Seq(Cells) /\ is = was \o new
  BY <1>2, DataDef
<1>4. new \in Seq(Cells) /\ Len(new) = EntrySize(l[n]) /\ EntrySize(l[n]) \in Nat
  BY <1>1, WriteEntryCells
<1> HIDE DEF was, is, new
<1>5. Len(was) \in Nat
  BY <1>3, LenProperties
<1>6. /\ Len(is) = Len(was) + EntrySize(l[n])
      /\ \A i \in 1 .. Len(was) + EntrySize(l[n]) :
           is[i] = IF i <= Len(was) THEN was[i] ELSE new[i - Len(was)]
  BY <1>3, <1>4, ConcatProperties
<1>7. \A i \in 1 .. Len(was) : is[i] = was[i]
  BY <1>4, <1>5, <1>6
<1>8. ASSUME NEW j \in 1 .. EntrySize(l[n])
      PROVE  is[Len(was) + j] = new[j]
  <2>1. /\ Len(was) + j \in 1 .. Len(was) + EntrySize(l[n])
        /\ ~(Len(was) + j <= Len(was))
        /\ (Len(was) + j) - Len(was) = j
    BY <1>4, <1>5
  <2>2. QED
    BY <1>6, <2>1
<1>9. QED
  BY <1>3, <1>5, <1>6, <1>7, <1>8 DEF was, is, new

(* What is written stays. *)
LEMMA DataPrefix ==
  ASSUME NEW l \in Seq(Entry), NEW n \in 0 .. Len(l)
  PROVE  /\ Len(DataAfter(l)[n]) \in Nat
         /\ Len(DataAfter(l)[n]) <= Len(Serialize(l))
         /\ \A i \in 1 .. Len(DataAfter(l)[n]) : Serialize(l)[i] = DataAfter(l)[n][i]
<1> DEFINE D == DataAfter(l)
           N == Len(l)
           Prefix(m) == /\ Len(D[n]) <= Len(D[m])
                        /\ \A i \in 1 .. Len(D[n]) : D[m][i] = D[n][i]
           kept == {k \in 0 .. N - n : Prefix(n + k)}
<1>1. N \in Nat /\ n \in Nat /\ N - n \in Nat
  BY LenProperties
<1>2. \A m \in 0 .. N : Len(D[m]) \in Nat
  BY DataDef, LenProperties
<1>3. 0 \in kept
  <2>1. n + 0 = n
    BY <1>1
  <2>2. QED
    BY <1>1, <1>2, <2>1
<1>4. ASSUME NEW k \in 0 .. (N - n) - 1, k \in kept
      PROVE  k + 1 \in kept
  <2>1. PICK m \in 1 .. N : m = n + (k + 1) /\ m - 1 = n + k /\ m - 1 \in 0 .. N /\ k + 1 \in 0 .. N - n
    BY <1>1
  <2>2. Prefix(m - 1)
    BY <1>4, <2>1
  <2>3. l[m] \in Entry
    BY ElementOfSeq
  <2>4. EntrySize(l[m]) \in Nat
    BY <2>3, WriteEntryCells
  <2>5. /\ Len(D[m]) = Len(D[m - 1]) + EntrySize(l[m])
        /\ \A i \in 1 .. Len(D[m - 1]) : D[m][i] = D[m - 1][i]
    BY DataGrows
  <2>6. Len(D[n]) \in Nat /\ Len(D[m - 1]) \in Nat
    BY <1>2, <2>1
  <2> HIDE DEF D, N
  <2>7. Prefix(m)
    BY <2>2, <2>4, <2>5, <2>6
  <2>8. QED
    BY <2>1, <2>7
<1>5. N - n \in kept
  <2> HIDE DEF kept, N
  <2>1. \A k \in 0 .. N - n : k \in kept
    BY <1>1, <1>3, <1>4, IntervalInduction
  <2>2. QED
    BY <1>1, <2>1
<1>6. Prefix(N)
  <2>1. n + (N - n) = N
    BY <1>1
  <2>2. QED
    BY <1>5, <2>1
<1>7. QED
  BY <1>2, <1>6 DEF Serialize

LEMMA PartOfCells ==
  ASSUME NEW data \in Seq(Cells), NEW at \in Nat, NEW part \in Seq(Cells),
         at + Len(part) <= Len(data),
         \A j \in 1 .. Len(part) : data[at + j] = part[j]
  PROVE  SubSeq(data, at + 1, at + Len(part)) = part
<1> DEFINE from == at + 1
           to   == at + Len(part)
           s    == SubSeq(data, from, to)
<1>1. Len(part) \in Nat /\ Len(data) \in Nat
  BY LenProperties
<1>2. from \in Int /\ to \in Int
  BY <1>1
<1>3. ASSUME NEW i \in from .. to PROVE data[i] \in Cells
  <2>1. i \in 1 .. Len(data)
    BY <1>1, <1>3
  <2>2. QED
    BY <2>1, ElementOfSeq
<1>4. (to - from) + 1 = Len(part) /\ (from <= to <=> Len(part) # 0)
  BY <1>1
<1>5. ASSUME NEW i \in 1 .. Len(part) PROVE data[from + i - 1] = part[i]
  <2>1. from + i - 1 = at + i
    BY <1>1, <1>5
  <2>2. QED
    BY <2>1
<1> HIDE DEF from, to
<1>6. /\ s \in Seq(Cells)
      /\ Len(s) = IF from <= to THEN to - from + 1 ELSE 0
      /\ \A i \in 1 .. to - from + 1 : s[i] = data[from + i - 1]
  BY <1>2, <1>3, SubSeqProperties
<1> HIDE DEF s
<1>7. Len(s) = Len(part) /\ \A i \in 1 .. Len(part) : s[i] = part[i]
  BY <1>1, <1>4, <1>5, <1>6
<1>8. s = part
  BY <1>6, <1>7, SeqEqual
<1>9. QED
  BY <1>8 DEF s, from, to

(* The entry n lies in the data behind the first n - 1. *)
LEMMA DataHolds ==
  ASSUME NEW l \in Seq(Entry), NEW n \in 1 .. Len(l)
  PROVE  LET data == Serialize(l)
             at   == Len(DataAfter(l)[n - 1])
             next == Len(DataAfter(l)[n])
         IN  /\ at \in Nat /\ next \in Nat /\ Len(data) \in Nat
             /\ at < next /\ next <= Len(data)
             /\ at + EntrySize(l[n]) = next
             /\ ValidEntry(data, at)
             /\ EntryAt(data, at) = l[n]
             /\ ItNext(data, at) = next
<1> DEFINE data  == Serialize(l)
           at    == Len(DataAfter(l)[n - 1])
           next  == Len(DataAfter(l)[n])
           entry == l[n]
           key   == entry.key
           value == entry.value
<1>1. Len(l) \in Nat /\ n \in 0 .. Len(l) /\ n - 1 \in 0 .. Len(l) /\ Len(l) \in 0 .. Len(l)
  BY LenProperties
<1>2. entry \in Entry
  BY ElementOfSeq
<1>3. at \in Nat /\ next \in Nat /\ next <= Len(data)
  BY <1>1, DataPrefix
<1>4. data \in Seq(Cells) /\ Len(data) \in Nat
  BY <1>1, DataDef, LenProperties DEF Serialize
<1>5. at + EntrySize(entry) = next
  BY DataGrows
<1>6. \A j \in 1 .. EntrySize(entry) : data[at + j] = WriteEntry(entry)[j]
  <2>1. \A j \in 1 .. EntrySize(entry) : DataAfter(l)[n][at + j] = WriteEntry(entry)[j]
    BY DataGrows
  <2>2. \A i \in 1 .. next : data[i] = DataAfter(l)[n][i]
    BY <1>1, DataPrefix
  <2>3. EntrySize(entry) \in Nat
    BY <1>2, WriteEntryCells
  <2> HIDE DEF data, at, next, entry
  <2>4. \A j \in 1 .. EntrySize(entry) : at + j \in 1 .. next
    BY <1>3, <1>5, <2>3
  <2>5. QED
    BY <2>1, <2>2, <2>4
<1>7. /\ EntrySize(entry) = 8 + Len(key) + Len(value)
      /\ LIST_HEADER_SIZE = 8 /\ LIST_MIN_SIZE = 10
      /\ Len(key) \in Nat \ {0} /\ Len(value) \in Nat \ {0}
      /\ key \in Seq(Cells) /\ value \in Seq(Cells)
  BY <1>2, EntryBytes DEF EntrySize, LIST_HEADER_SIZE, LIST_MIN_SIZE
<1>8. entry = [key |-> key, value |-> value]
  BY <1>2 DEF Entry
<1>9. /\ WriteEntry(entry)[1] = [key_len |-> Len(key), value_len |-> Len(value)]
      /\ \A j \in 1 .. Len(key) : WriteEntry(entry)[8 + j] = key[j]
      /\ \A j \in 1 .. Len(value) : WriteEntry(entry)[8 + Len(key) + j] = value[j]
  BY <1>2, <1>7, WriteEntryCells
<1> HIDE DEF data, at, next, key, value, entry
<1>10. data[at + 1].key_len = Len(key) /\ data[at + 1].value_len = Len(value)
  <2>1. 1 \in 1 .. EntrySize(entry)
    BY <1>7
  <2>2. QED
    BY <1>6, <1>9, <2>1
<1>11. ASSUME NEW j \in 1 .. Len(key)
       PROVE  data[at + 8 + j] = key[j]
  <2>1. 8 + j \in 1 .. EntrySize(entry) /\ at + (8 + j) = at + 8 + j
    BY <1>3, <1>7
  <2>2. QED
    BY <1>6, <1>9, <2>1
<1>12. ASSUME NEW j \in 1 .. Len(value)
       PROVE  data[at + 8 + Len(key) + j] = value[j]
  <2>1. 8 + Len(key) + j \in 1 .. EntrySize(entry) /\ at + (8 + Len(key) + j) = at + 8 + Len(key) + j
    BY <1>3, <1>7
  <2>2. QED
    BY <1>6, <1>9, <2>1
<1>13. at < next /\ ValidEntry(data, at) /\ ItNext(data, at) = next
  BY <1>3, <1>4, <1>5, <1>7, <1>10 DEF ValidEntry, ItNext
<1>14. SubSeq(data, at + 8 + 1, at + 8 + Len(key)) = key
  <2>1. at + 8 \in Nat /\ at + 8 + Len(key) <= Len(data)
    BY <1>3, <1>4, <1>5, <1>7
  <2>2. QED
    BY <1>4, <1>7, <1>11, <2>1, PartOfCells
<1>15. SubSeq(data, at + 8 + Len(key) + 1, at + 8 + Len(key) + Len(value)) = value
  <2>1. at + 8 + Len(key) \in Nat /\ at + 8 + Len(key) + Len(value) <= Len(data)
    BY <1>3, <1>4, <1>5, <1>7
  <2>2. QED
    BY <1>4, <1>7, <1>12, <2>1, PartOfCells
<1>16. EntryAt(data, at) = entry
  BY <1>7, <1>8, <1>10, <1>14, <1>15 DEF EntryAt
<1>17. QED
  BY <1>3, <1>4, <1>5, <1>13, <1>16 DEF data, at, next, entry

-------------------------------------------------------------------------------

(* The size that is counted is the size that is written. *)
LEMMA SizeOfData ==
  ASSUME NEW l \in Seq(Entry)
  PROVE  \A n \in 0 .. Len(l) : SizeAfter(l)[n] = HEADER_SIZE + Len(DataAfter(l)[n])
<1> DEFINE N == Len(l)
           Def(f, n) == IF n = 0 THEN HEADER_SIZE ELSE f[n - 1] + EntrySize(l[n])
           size == SizeAfter(l)
<1>1. PICK g : g = [n \in 0 .. N |-> HEADER_SIZE + Len(DataAfter(l)[n])]
  OBVIOUS
<1>2. N \in Nat
  BY LenProperties
<1>3. ASSUME NEW n \in 1 .. N
      PROVE  g[n] = g[n - 1] + EntrySize(l[n])
  <2>1. n \in 0 .. N /\ n - 1 \in 0 .. N
    BY <1>2
  <2>2. g[n] = HEADER_SIZE + Len(DataAfter(l)[n]) /\ g[n - 1] = HEADER_SIZE + Len(DataAfter(l)[n - 1])
    BY <1>1, <2>1
  <2>3. l[n] \in Entry
    BY ElementOfSeq
  <2>4. Len(DataAfter(l)[n - 1]) \in Nat /\ EntrySize(l[n]) \in Nat
    BY <2>1, <2>3, DataPrefix, WriteEntryCells
  <2>5. Len(DataAfter(l)[n]) = Len(DataAfter(l)[n - 1]) + EntrySize(l[n])
    BY DataGrows
  <2>6. QED
    BY <2>2, <2>4, <2>5 DEF HEADER_SIZE
<1>4. g[0] = HEADER_SIZE
  <2>1. DataAfter(l)[0] = <<>>
    BY DataDef
  <2>2. 0 \in 0 .. N
    BY <1>2
  <2>3. QED
    BY <1>1, <2>1, <2>2, EmptySeq DEF HEADER_SIZE
<1>5. size = [n \in 0 .. N |-> Def(size, n)]
  <2>1. g = [n \in 0 .. N |-> g[n]]
    BY <1>1
  <2>2. ASSUME NEW n \in 0 .. N PROVE g[n] = Def(g, n)
    <3>1. n = 0 \/ (n # 0 /\ n \in 1 .. N)
      BY <1>2
    <3>2. QED
      BY <1>3, <1>4, <3>1
  <2>3. g = [n \in 0 .. N |-> Def(g, n)]
    BY <2>1, <2>2
  <2>4. QED
    BY <2>3 DEF SizeAfter
<1> HIDE DEF size
<1>6. size[0] = HEADER_SIZE
  BY <1>2, <1>5
<1>7. ASSUME NEW n \in 1 .. N PROVE size[n] = size[n - 1] + EntrySize(l[n])
  <2>1. n \in 0 .. N /\ n # 0
    BY <1>2
  <2>2. size[n] = Def(size, n)
    BY <1>5, <2>1
  <2>3. QED
    BY <2>1, <2>2
<1>8. SameSteps(size, g, N)
  BY <1>3, <1>4, <1>6, <1>7 DEF SameSteps
<1>9. \A n \in 0 .. N : size[n] = g[n]
  <2> HIDE DEF N
  <2>1. QED
    BY <1>2, <1>8, SameRecursion
<1>10. QED
  BY <1>1, <1>9 DEF size

(* Where the loops over the data are after n turns: at the end of the      *)
(* first n entries, or of all.                                             *)
Done(l, n) == IF n <= Len(l) THEN n ELSE Len(l)

At(l, n) == Len(DataAfter(l)[Done(l, n)])

LEMMA AtStep ==
  ASSUME NEW l \in Seq(Entry), NEW n \in Nat \ {0}
  PROVE  LET data == Serialize(l)
         IN  /\ n <= Len(l) =>
                  /\ At(l, n - 1) \in Nat /\ At(l, n - 1) < Len(data)
                  /\ ValidEntry(data, At(l, n - 1))
                  /\ EntryAt(data, At(l, n - 1)) = l[n]
                  /\ At(l, n - 1) + EntrySize(l[n]) = At(l, n)
                  /\ ItNext(data, At(l, n - 1)) = At(l, n)
             /\ n > Len(l) => /\ ~(At(l, n - 1) < Len(data))
                              /\ At(l, n) = At(l, n - 1)
<1> DEFINE data == Serialize(l)
<1>1. Len(l) \in Nat
  BY LenProperties
<1>2. CASE n <= Len(l)
  <2>1. n \in 1 .. Len(l) /\ Done(l, n) = n /\ Done(l, n - 1) = n - 1
    BY <1>1, <1>2 DEF Done
  <2>2. At(l, n) = Len(DataAfter(l)[n]) /\ At(l, n - 1) = Len(DataAfter(l)[n - 1])
    BY <2>1 DEF At
  <2>3. /\ At(l, n - 1) \in Nat /\ At(l, n) \in Nat /\ Len(data) \in Nat
        /\ At(l, n - 1) < At(l, n) /\ At(l, n) <= Len(data)
        /\ ValidEntry(data, At(l, n - 1))
        /\ EntryAt(data, At(l, n - 1)) = l[n]
        /\ At(l, n - 1) + EntrySize(l[n]) = At(l, n)
        /\ ItNext(data, At(l, n - 1)) = At(l, n)
    BY <2>1, <2>2, DataHolds
  <2>4. At(l, n - 1) < Len(data)
    BY <2>3
  <2>5. QED
    BY <1>1, <1>2, <2>3, <2>4
<1>3. CASE n > Len(l)
  <2>1. Done(l, n) = Len(l) /\ Done(l, n - 1) = Len(l)
    BY <1>1, <1>3 DEF Done
  <2>2. At(l, n) = Len(data) /\ At(l, n - 1) = Len(data)
    BY <2>1 DEF At, Serialize
  <2>3. Len(l) \in 0 .. Len(l)
    BY <1>1
  <2>4. Len(data) \in Nat
    BY <2>3, DataPrefix DEF Serialize
  <2>5. QED
    BY <1>1, <1>3, <2>2, <2>4
<1>4. QED
  BY <1>1, <1>2, <1>3

LEMMA AtEnds ==
  ASSUME NEW l \in Seq(Entry)
  PROVE  /\ Len(l) \in Nat /\ Len(Serialize(l)) \in Nat
         /\ Len(l) <= Len(Serialize(l))
         /\ At(l, 0) = 0
         /\ At(l, Len(l)) = Len(Serialize(l))
         /\ Done(l, Len(Serialize(l))) = Len(l)
         /\ At(l, Len(Serialize(l))) = Len(Serialize(l))
<1> DEFINE N == Len(l)
           D == DataAfter(l)
           long == {n \in 0 .. N : n <= Len(D[n])}
<1>1. N \in Nat /\ N \in 0 .. N /\ 0 \in 0 .. N
  BY LenProperties
<1>2. D[0] = <<>> /\ Len(D[0]) = 0
  BY DataDef, EmptySeq
<1>3. 0 \in long
  BY <1>1, <1>2
<1>4. ASSUME NEW n \in 0 .. N - 1, n \in long
      PROVE  n + 1 \in long
  <2>1. PICK m \in 1 .. N : m = n + 1 /\ m - 1 = n /\ m \in 0 .. N /\ n \in Nat
    BY <1>1
  <2>2. l[m] \in Entry
    BY ElementOfSeq
  <2>3. EntrySize(l[m]) \in Nat /\ EntrySize(l[m]) >= 10
    BY <2>2, WriteEntryCells DEF LIST_MIN_SIZE
  <2>4. Len(D[m]) = Len(D[n]) + EntrySize(l[m]) /\ Len(D[n]) \in Nat
    BY <2>1, DataGrows
  <2> HIDE DEF D, N
  <2>5. m <= Len(D[m])
    BY <1>4, <2>1, <2>3, <2>4
  <2>6. QED
    BY <2>1, <2>5
<1>5. N \in long
  <2> HIDE DEF long, N
  <2>1. \A n \in 0 .. N : n \in long
    BY <1>1, <1>3, <1>4, IntervalInduction
  <2>2. QED
    BY <1>1, <2>1
<1>6. Len(Serialize(l)) = Len(D[N]) /\ Len(D[N]) \in Nat
  BY <1>1, DataPrefix DEF Serialize
<1>7. N <= Len(Serialize(l))
  BY <1>5, <1>6
<1>8. Done(l, 0) = 0 /\ Done(l, N) = N /\ Done(l, Len(Serialize(l))) = N
  BY <1>1, <1>6, <1>7 DEF Done
<1>9. QED
  BY <1>1, <1>2, <1>6, <1>7, <1>8 DEF At

(* libnvram_list_set builds the list up again, node by node. *)
LEMMA SetRebuilds ==
  ASSUME NEW l \in Seq(Entry), Unique(l), NEW n \in 1 .. Len(l)
  PROVE  ListSet(SubSeq(l, 1, n - 1), l[n]) = SubSeq(l, 1, n)
<1> DEFINE s == SubSeq(l, 1, n - 1)
<1>1. Len(l) \in Nat /\ DOMAIN l = 1 .. Len(l) /\ l[n] \in Entry /\ n \in Nat /\ n - 1 \in Int
  BY LenProperties, ElementOfSeq
<1>2. \A i \in 1 .. n - 1 : i \in 1 .. Len(l) /\ l[i] \in Entry
  <2>1. \A i \in 1 .. n - 1 : i \in 1 .. Len(l)
    BY <1>1
  <2>2. QED
    BY <2>1, ElementOfSeq
<1>3. /\ s \in Seq(Entry)
      /\ Len(s) = IF 1 <= n - 1 THEN n - 1 - 1 + 1 ELSE 0
      /\ \A i \in 1 .. n - 1 - 1 + 1 : s[i] = l[1 + i - 1]
  BY <1>1, <1>2, SubSeqProperties
<1> HIDE DEF s
<1>4. Len(s) = n - 1 /\ DOMAIN s = 1 .. n - 1
  BY <1>1, <1>3, LenProperties
<1>5. ASSUME NEW i \in 1 .. n - 1 PROVE s[i] = l[i]
  <2>1. i \in 1 .. n - 1 - 1 + 1 /\ 1 + i - 1 = i
    BY <1>1, <1>5
  <2>2. QED
    BY <1>3, <2>1
<1>6. Matches(s, l[n].key) = {}
  <2>1. ASSUME NEW i \in DOMAIN s PROVE s[i].key # l[n].key
    <3>1. i \in 1 .. n - 1 /\ i # n /\ s[i] = l[i]
      BY <1>1, <1>4, <1>5
    <3>2. QED
      BY <1>1, <1>2, <3>1 DEF Unique
  <2>2. QED
    BY <2>1 DEF Matches
<1>7. ListSet(s, l[n]) = Append(s, l[n])
  BY <1>6 DEF ListSet
<1>8. Append(s, l[n]) = s \o <<l[n]>>
  BY <1>1, <1>3, AppendIsConcat
<1>9. SubSeq(l, 1, n) = SubSeq(l, 1, n - 1) \o <<l[n]>>
  <2>1. 1 \in 1 .. Len(l) /\ n \in 1 .. Len(l)
    BY <1>1
  <2>2. QED
    BY <2>1, SubSeqRecursiveSecond
<1>10. QED
  BY <1>7, <1>8, <1>9 DEF s

(* The loop of libnvram_deserialize over the data of a list. *)
LEMMA TurnsOfData ==
  ASSUME NEW l \in Seq(Entry), Unique(l)
  PROVE  \A n \in 0 .. Len(Serialize(l)) :
           Turns(Serialize(l))[n] = [i |-> At(l, n), list |-> SubSeq(l, 1, Done(l, n))]
<1> DEFINE data == Serialize(l)
           N == Len(data)
           Reached(n) == [i |-> At(l, n), list |-> SubSeq(l, 1, Done(l, n))]
           Def(f, n) == IF n = 0 THEN [i |-> 0, list |-> <<>>] ELSE Turn(data, f[n - 1])
           turns == Turns(data)
<1>1. N \in Nat /\ Len(l) \in Nat
  BY AtEnds
<1>2. PICK g : g = [n \in 0 .. N |-> Reached(n)]
  OBVIOUS
<1>3. g[0] = [i |-> 0, list |-> <<>>]
  <2>1. At(l, 0) = 0 /\ Done(l, 0) = 0
    BY <1>1, AtEnds DEF Done
  <2>2. SubSeq(l, 1, 0) = <<>>
    BY SubSeqEmpty
  <2>3. g[0] = Reached(0)
    BY <1>1, <1>2
  <2>4. QED
    BY <2>1, <2>2, <2>3
<1>4. ASSUME NEW n \in 1 .. N
      PROVE  g[n] = Turn(data, g[n - 1])
  <2>1. n \in 0 .. N /\ n - 1 \in 0 .. N /\ n \in Nat \ {0}
    BY <1>1
  <2>2. g[n] = Reached(n) /\ g[n - 1] = Reached(n - 1)
    BY <1>2, <2>1
  <2>3. Turn(data, Reached(n - 1)) = Reached(n)
    <3>1. CASE n <= Len(l)
      <4>1. /\ At(l, n - 1) < N
            /\ ValidEntry(data, At(l, n - 1))
            /\ EntryAt(data, At(l, n - 1)) = l[n]
            /\ At(l, n - 1) + EntrySize(l[n]) = At(l, n)
        BY <2>1, <3>1, AtStep
      <4>2. Done(l, n) = n /\ Done(l, n - 1) = n - 1 /\ n \in 1 .. Len(l)
        BY <1>1, <2>1, <3>1 DEF Done
      <4>3. ListSet(SubSeq(l, 1, n - 1), l[n]) = SubSeq(l, 1, n)
        BY <4>2, SetRebuilds
      <4> HIDE DEF data
      <4>4. QED
        BY <4>1, <4>2, <4>3 DEF Turn
    <3>2. CASE n > Len(l)
      <4>1. ~(At(l, n - 1) < N) /\ At(l, n) = At(l, n - 1)
        BY <2>1, <3>2, AtStep
      <4>2. Done(l, n) = Done(l, n - 1)
        BY <1>1, <2>1, <3>2 DEF Done
      <4> HIDE DEF data
      <4>3. QED
        BY <4>1, <4>2 DEF Turn
    <3>3. QED
      BY <1>1, <2>1, <3>1, <3>2
  <2>4. QED
    BY <2>2, <2>3
<1>5. turns = [n \in 0 .. N |-> Def(turns, n)]
  <2>1. g = [n \in 0 .. N |-> g[n]]
    BY <1>2
  <2>2. ASSUME NEW n \in 0 .. N PROVE g[n] = Def(g, n)
    <3>1. n = 0 \/ (n # 0 /\ n \in 1 .. N)
      BY <1>1
    <3>2. QED
      BY <1>3, <1>4, <3>1
  <2>3. g = [n \in 0 .. N |-> Def(g, n)]
    BY <2>1, <2>2
  <2> HIDE DEF data
  <2>4. QED
    BY <2>3 DEF Turns
<1> HIDE DEF turns, data, N
<1>6. turns[0] = [i |-> 0, list |-> <<>>]
  BY <1>1, <1>5
<1>7. ASSUME NEW n \in 1 .. N PROVE turns[n] = Turn(data, turns[n - 1])
  <2>1. n \in 0 .. N /\ n # 0
    BY <1>1
  <2>2. turns[n] = Def(turns, n)
    BY <1>5, <2>1
  <2>3. QED
    BY <2>1, <2>2
<1>8. SameSteps(turns, g, N)
  BY <1>3, <1>4, <1>6, <1>7 DEF SameSteps
<1>9. \A n \in 0 .. N : turns[n] = g[n]
  BY <1>1, <1>8, SameRecursion
<1>10. QED
  BY <1>2, <1>9 DEF turns, data, N

(* The iterator over the data of a list. *)
LEMMA IteratorOfData ==
  ASSUME NEW l \in Seq(Entry)
  PROVE  \A n \in 0 .. Len(Serialize(l)) : ItAfter(Serialize(l))[n] = At(l, n)
<1> DEFINE data == Serialize(l)
           N == Len(data)
           Def(f, n) == IF n = 0 THEN 0
                        ELSE IF f[n - 1] < N THEN ItNext(data, f[n - 1]) ELSE f[n - 1]
           it == ItAfter(data)
<1>1. N \in Nat /\ Len(l) \in Nat
  BY AtEnds
<1>2. PICK g : g = [n \in 0 .. N |-> At(l, n)]
  OBVIOUS
<1>3. g[0] = 0
  BY <1>1, <1>2, AtEnds
<1>4. ASSUME NEW n \in 1 .. N
      PROVE  g[n] = IF g[n - 1] < N THEN ItNext(data, g[n - 1]) ELSE g[n - 1]
  <2>1. n \in 0 .. N /\ n - 1 \in 0 .. N /\ n \in Nat \ {0}
    BY <1>1
  <2>2. g[n] = At(l, n) /\ g[n - 1] = At(l, n - 1)
    BY <1>2, <2>1
  <2>3. n <= Len(l) => At(l, n - 1) < N /\ ItNext(data, At(l, n - 1)) = At(l, n)
    BY <2>1, AtStep
  <2>4. n > Len(l) => ~(At(l, n - 1) < N) /\ At(l, n) = At(l, n - 1)
    BY <2>1, AtStep
  <2>5. n <= Len(l) \/ n > Len(l)
    BY <1>1, <2>1
  <2> HIDE DEF data, N
  <2>6. QED
    BY <2>2, <2>3, <2>4, <2>5
<1>5. it = [n \in 0 .. N |-> Def(it, n)]
  <2>1. g = [n \in 0 .. N |-> g[n]]
    BY <1>2
  <2>2. ASSUME NEW n \in 0 .. N PROVE g[n] = Def(g, n)
    <3>1. n = 0 \/ (n # 0 /\ n \in 1 .. N)
      BY <1>1
    <3>2. QED
      BY <1>3, <1>4, <3>1
  <2>3. g = [n \in 0 .. N |-> Def(g, n)]
    BY <2>1, <2>2
  <2> HIDE DEF data
  <2>4. QED
    BY <2>3 DEF ItAfter
<1> HIDE DEF it, data, N
<1>6. it[0] = 0
  BY <1>1, <1>5
<1>7. ASSUME NEW n \in 1 .. N
      PROVE  it[n] = IF it[n - 1] < N THEN ItNext(data, it[n - 1]) ELSE it[n - 1]
  <2>1. n \in 0 .. N /\ n # 0
    BY <1>1
  <2>2. it[n] = Def(it, n)
    BY <1>5, <2>1
  <2>3. QED
    BY <2>1, <2>2
<1>8. SameSteps(it, g, N)
  BY <1>3, <1>4, <1>6, <1>7 DEF SameSteps
<1>9. \A n \in 0 .. N : it[n] = g[n]
  BY <1>1, <1>8, SameRecursion
<1>10. QED
  BY <1>2, <1>9 DEF it, data, N

-------------------------------------------------------------------------------

LEMMA ListHasData == ListInv => RoundTrip /\ SizeExact /\ IteratorAgrees
<1> SUFFICES ASSUME ListInv PROVE RoundTrip /\ SizeExact /\ IteratorAgrees
  OBVIOUS
<1> DEFINE data == Serialize(list)
<1>1. list \in Seq(Entry) /\ Unique(list)
  BY DEF ListInv, TypeOK, UniqueKeys, Unique
<1>2. /\ Len(list) \in Nat /\ Len(data) \in Nat /\ Len(list) <= Len(data)
      /\ At(list, Len(list)) = Len(data)
      /\ Done(list, Len(data)) = Len(list)
      /\ At(list, Len(data)) = Len(data)
  BY <1>1, AtEnds
<1>3. RoundTrip
  <2>1. Turns(data)[Len(data)] = [i |-> Len(data), list |-> SubSeq(list, 1, Len(list))]
    <3>1. Len(data) \in 0 .. Len(data)
      BY <1>2
    <3>2. QED
      BY <1>1, <1>2, <3>1, TurnsOfData
  <2>2. SubSeq(list, 1, Len(list)) = list
    BY <1>1, SubSeqFull
  <2> HIDE DEF data
  <2>3. Turns(data)[Len(data)].i = Len(data) /\ Turns(data)[Len(data)].list = list
    BY <2>1, <2>2
  <2>4. ValidData(data)
    BY <2>3 DEF ValidData
  <2>5. Deserialize(data) = [ok |-> TRUE, list |-> list]
    BY <2>3, <2>4 DEF Deserialize
  <2>6. QED
    BY <2>5 DEF RoundTrip, data
<1>4. SizeExact
  <2>1. Len(list) \in 0 .. Len(list)
    BY <1>2
  <2>2. SizeAfter(list)[Len(list)] = HEADER_SIZE + Len(DataAfter(list)[Len(list)])
    BY <1>1, <2>1, SizeOfData
  <2>3. QED
    BY <2>2 DEF SizeExact, SerializeSize, Serialize
<1>5. IteratorAgrees
  <2>1. \A n \in 0 .. Len(data) : ItAfter(data)[n] = At(list, n)
    BY <1>1, IteratorOfData
  <2>2. ASSUME NEW n \in DOMAIN list
        PROVE  /\ ItAfter(data)[n - 1] < Len(data)
               /\ EntryAt(data, ItAfter(data)[n - 1]) = list[n]
    <3>1. n \in 1 .. Len(list)
      BY <1>1, LenProperties
    <3>2. n \in Nat \ {0} /\ n - 1 \in 0 .. Len(data) /\ n <= Len(list)
      BY <1>2, <3>1
    <3>3. At(list, n - 1) < Len(data) /\ EntryAt(data, At(list, n - 1)) = list[n]
      BY <1>1, <3>2, AtStep
    <3>4. ItAfter(data)[n - 1] = At(list, n - 1)
      BY <2>1, <3>2
    <3>5. QED
      BY <3>3, <3>4
  <2>3. ItAfter(data)[Len(list)] = Len(data)
    <3>1. Len(list) \in 0 .. Len(data)
      BY <1>2
    <3>2. QED
      BY <1>2, <2>1, <3>1
  <2>4. QED
    BY <2>2, <2>3 DEF IteratorAgrees
<1>6. QED
  BY <1>3, <1>4, <1>5

(* Whatever list the calls make, of any length, libnvram_serialize writes  *)
(* legal data from which libnvram_deserialize gives the list back.         *)
THEOREM FormatRoundTrip == Spec => []RoundTrip
<1>1. ListInv => RoundTrip
  BY ListHasData
<1>2. QED
  BY <1>1, ListInvAlways, PTL

(* libnvram_serialize_size counts exactly what libnvram_serialize writes.  *)
THEOREM FormatSizeExact == Spec => []SizeExact
<1>1. ListInv => SizeExact
  BY ListHasData
<1>2. QED
  BY <1>1, ListInvAlways, PTL

(* The data iterator meets the entries of the list in order, and ends      *)
(* where the data ends.                                                    *)
THEOREM FormatIteratorAgrees == Spec => []IteratorAgrees
<1>1. ListInv => IteratorAgrees
  BY ListHasData
<1>2. QED
  BY <1>1, ListInvAlways, PTL

(*-------------------------------------------------------------------------*)
(* Printing                                                                *)
(*-------------------------------------------------------------------------*)

Bytes == Seq(0 .. 255) \ {<<>>}

(* The NUL at which %s stops. *)
LEMMA FirstNulOf ==
  ASSUME NEW bytes \in Bytes, IsString(bytes)
  PROVE  /\ Len(bytes) \in Nat \ {0}
         /\ FirstNul(bytes) \in 1 .. Len(bytes)
         /\ InnerNul(bytes) <=> FirstNul(bytes) < Len(bytes)
<1>1. bytes \in Seq(0 .. 255) /\ Len(bytes) \in Nat \ {0} /\ DOMAIN bytes = 1 .. Len(bytes)
  BY EmptySeq, LenProperties DEF Bytes
<1>2. Len(bytes) \in Nuls(bytes) /\ Nuls(bytes) \in SUBSET (1 .. Len(bytes))
  BY <1>1 DEF IsString, Nuls
<1>3. \E first \in Nuls(bytes) : \A n \in Nuls(bytes) : first <= n
  <2>1. Nuls(bytes) # {} /\ Len(bytes) \in Nat
    BY <1>1, <1>2
  <2>2. QED
    BY <1>2, <2>1, FirstPosition
<1>4. FirstNul(bytes) \in Nuls(bytes) /\ \A n \in Nuls(bytes) : FirstNul(bytes) <= n
  BY <1>3 DEF FirstNul
<1>5. FirstNul(bytes) \in 1 .. Len(bytes) /\ bytes[FirstNul(bytes)] = NUL
  BY <1>2, <1>4 DEF Nuls
<1>6. ASSUME InnerNul(bytes) PROVE FirstNul(bytes) < Len(bytes)
  <2>1. PICK i \in 1 .. Len(bytes) - 1 : bytes[i] = NUL
    BY <1>6 DEF InnerNul
  <2>2. i \in Nuls(bytes)
    BY <1>1, <2>1 DEF Nuls
  <2>3. FirstNul(bytes) <= i
    BY <1>4, <2>2
  <2>4. QED
    BY <1>1, <1>5, <2>3
<1>7. ASSUME FirstNul(bytes) < Len(bytes) PROVE InnerNul(bytes)
  <2>1. FirstNul(bytes) \in 1 .. Len(bytes) - 1
    BY <1>1, <1>5, <1>7
  <2>2. QED
    BY <1>5, <2>1 DEF InnerNul
<1>8. QED
  BY <1>1, <1>5, <1>6, <1>7

LEMMA FirstPart ==
  ASSUME NEW S, NEW s \in Seq(S), NEW n \in 0 .. Len(s)
  PROVE  /\ SubSeq(s, 1, n) \in Seq(S)
         /\ Len(SubSeq(s, 1, n)) = n
         /\ \A i \in 1 .. n : SubSeq(s, 1, n)[i] = s[i]
<1> DEFINE part == SubSeq(s, 1, n)
<1>1. Len(s) \in Nat /\ n \in Nat
  BY LenProperties
<1>2. \A i \in 1 .. n : s[i] \in S
  <2>1. \A i \in 1 .. n : i \in 1 .. Len(s)
    BY <1>1
  <2>2. QED
    BY <2>1, ElementOfSeq
<1>3. /\ part \in Seq(S)
      /\ Len(part) = IF 1 <= n THEN n - 1 + 1 ELSE 0
      /\ \A i \in 1 .. n - 1 + 1 : part[i] = s[1 + i - 1]
  BY <1>1, <1>2, SubSeqProperties
<1>4. n - 1 + 1 = n /\ \A i \in 1 .. n : 1 + i - 1 = i
  BY <1>1
<1> HIDE DEF part
<1>5. Len(part) = n /\ \A i \in 1 .. n : part[i] = s[i]
  BY <1>1, <1>3, <1>4
<1>6. QED
  BY <1>3, <1>5 DEF part

LEMMA StringText ==
  ASSUME NEW bytes \in Bytes, IsString(bytes)
  PROVE  /\ CString(bytes) \in Seq(Int) /\ Text(bytes) \in Seq(Int)
         /\ Len(CString(bytes)) \in Nat
         /\ Len(Text(bytes)) = Len(bytes) - 1
         /\ ~InnerNul(bytes) => CString(bytes) = Text(bytes)
         /\ InnerNul(bytes) => Len(CString(bytes)) + 1 # Len(bytes)
<1>1. bytes \in Seq(Int)
  <2>1. bytes \in Seq(0 .. 255) /\ 0 .. 255 \subseteq Int
    BY DEF Bytes
  <2>2. QED
    BY <2>1, SeqMonotonic
<1>2. PICK first \in 0 .. Len(bytes) - 1 : first = FirstNul(bytes) - 1
  BY FirstNulOf
<1>3. Len(bytes) \in Nat \ {0} /\ first \in 0 .. Len(bytes) /\ Len(bytes) - 1 \in 0 .. Len(bytes)
  BY <1>2, FirstNulOf
<1>4. CString(bytes) = SubSeq(bytes, 1, first) /\ Text(bytes) = SubSeq(bytes, 1, Len(bytes) - 1)
  BY <1>2 DEF CString, Text
<1>5. /\ CString(bytes) \in Seq(Int) /\ Text(bytes) \in Seq(Int)
      /\ Len(CString(bytes)) = first /\ Len(Text(bytes)) = Len(bytes) - 1
  BY <1>1, <1>3, <1>4, FirstPart
<1>6. InnerNul(bytes) <=> first + 1 < Len(bytes)
  BY <1>2, <1>3, FirstNulOf
<1>7. ~InnerNul(bytes) => CString(bytes) = Text(bytes)
  <2>1. ~InnerNul(bytes) => first = Len(bytes) - 1
    BY <1>2, <1>3, <1>6
  <2>2. QED
    BY <1>4, <2>1
<1>8. InnerNul(bytes) => Len(CString(bytes)) + 1 # Len(bytes)
  BY <1>3, <1>5, <1>6
<1>9. QED
  BY <1>3, <1>5, <1>7, <1>8

LEMMA HexText ==
  ASSUME NEW bytes \in Bytes
  PROVE  Hex(bytes) \in Seq(Int) /\ Len(Hex(bytes)) = 2 + 2 * Len(bytes)
<1> DEFINE N == 2 * Len(bytes)
           Digit(n) == LET byte == bytes[(n + 1) \div 2]
                       IN  HexDigit(IF n % 2 = 1 THEN byte \div 16 ELSE byte % 16)
           digits == [n \in 1 .. N |-> Digit(n)]
           prefix == <<48, 120>>
<1>1. bytes \in Seq(0 .. 255) /\ Len(bytes) \in Nat /\ N \in Nat
  BY LenProperties DEF Bytes
<1>2. ASSUME NEW n \in 1 .. N PROVE Digit(n) \in Int
  <2>1. (n + 1) \div 2 \in 1 .. Len(bytes)
    BY <1>1
  <2>2. PICK byte \in 0 .. 255 : byte = bytes[(n + 1) \div 2]
    BY <1>1, <2>1, ElementOfSeq
  <2>3. byte \div 16 \in Int /\ byte % 16 \in Int
    OBVIOUS
  <2>4. QED
    BY <2>2, <2>3 DEF HexDigit
<1>3. digits \in [1 .. N -> Int]
  BY <1>2
<1>4. prefix \in Seq(Int) /\ Len(prefix) = 2
  OBVIOUS
<1>5. Hex(bytes) = prefix \o digits
  BY DEF Hex
<1> HIDE DEF prefix, digits, N
<1>6. digits \in Seq(Int) /\ Len(digits) = N
  BY <1>1, <1>3, SeqOfLength
<1>7. /\ prefix \o digits \in Seq(Int)
      /\ Len(prefix \o digits) = Len(prefix) + Len(digits)
  BY <1>4, <1>6, ConcatProperties
<1>8. QED
  BY <1>4, <1>5, <1>6, <1>7 DEF N

(* calc_size counts the text. *)
LEMMA TextSize ==
  ASSUME NEW bytes \in Bytes
  PROVE  /\ Text(bytes) \in Seq(Int)
         /\ CalcSize(bytes) \in Nat
         /\ Len(Text(bytes)) = CalcSize(bytes)
<1>1. CASE IsString(bytes)
  BY <1>1, StringText, FirstNulOf DEF CalcSize
<1>2. CASE ~IsString(bytes)
  <2>1. bytes \in Seq(0 .. 255)
    BY DEF Bytes
  <2>2. Len(bytes) \in Nat
    BY <2>1, LenProperties
  <2>3. QED
    BY <1>2, <2>2, HexText DEF CalcSize, Text
<1>3. QED
  BY <1>1, <1>2

(* A buffer with room for a text and its end takes it whole. *)
IsBuffer(buffer) ==
  buffer = [str |-> buffer.str, pos |-> buffer.pos, size |-> buffer.size, failed |-> buffer.failed]

Ready(buffer, bytes) ==
  /\ IsBuffer(buffer)
  /\ buffer.str \in Seq(Int)
  /\ buffer.pos = Len(buffer.str)
  /\ buffer.size \in Int
  /\ buffer.failed = FALSE
  /\ buffer.pos + CalcSize(bytes) + 2 <= buffer.size

LEMMA PutWhole ==
  ASSUME NEW buffer, NEW bytes \in Bytes, NEW end \in Int, Ready(buffer, bytes)
  PROVE  LET put == PutText(buffer, bytes, end)
         IN  /\ IsBuffer(put)
             /\ put.failed <=> InnerNul(bytes)
             /\ ~InnerNul(bytes) =>
                  /\ put.str = buffer.str \o Append(Text(bytes), end)
                  /\ put.pos = buffer.pos + CalcSize(bytes) + 1
                  /\ put.size = buffer.size
                  /\ put.failed = FALSE
<1> DEFINE shown == IF IsString(bytes) THEN CString(bytes) ELSE Hex(bytes)
           text  == Append(shown, end)
           room  == buffer.size - buffer.pos - 1
           put   == PutText(buffer, bytes, end)
<1>1. bytes \in Seq(0 .. 255) /\ Len(bytes) \in Nat /\ buffer.pos \in Nat
  BY LenProperties DEF Bytes, Ready
<1>2. shown \in Seq(Int) /\ Len(shown) \in Nat
  <2>1. shown \in Seq(Int)
    BY StringText, HexText
  <2>2. QED
    BY <2>1, LenProperties
<1>3. ~InnerNul(bytes) => shown = Text(bytes)
  BY StringText DEF Text
<1>4. (IsString(bytes) /\ Len(shown) + 1 # Len(bytes)) <=> InnerNul(bytes)
  <2>1. CASE IsString(bytes)
    <3>1. InnerNul(bytes) => Len(shown) + 1 # Len(bytes)
      BY <2>1, StringText
    <3>2. ~InnerNul(bytes) => Len(shown) = Len(bytes) - 1
      BY <1>3, <2>1, StringText
    <3> HIDE DEF shown
    <3>3. QED
      BY <1>1, <1>2, <2>1, <3>1, <3>2
  <2>2. CASE ~IsString(bytes)
    BY <2>2 DEF InnerNul
  <2>3. QED
    BY <2>1, <2>2
<1> DEFINE failed == buffer.failed \/ (IsString(bytes) /\ Len(text) # Len(bytes))
           pos    == buffer.pos + Len(text)
           str    == IF Len(buffer.str) = buffer.pos
                       THEN buffer.str \o SubSeq(text, 1, IF room < Len(text) THEN room ELSE Len(text))
                       ELSE buffer.str
<1>5. put = [str |-> str, pos |-> pos, size |-> buffer.size, failed |-> failed]
  <2>1. put = [buffer EXCEPT !.failed = failed, !.pos = pos, !.str = str]
    BY DEF PutText
  <2>2. buffer = [str |-> buffer.str, pos |-> buffer.pos, size |-> buffer.size, failed |-> buffer.failed]
    BY DEF Ready, IsBuffer
  <2> HIDE DEF put, failed, pos, str
  <2>3. QED
    BY <2>1, <2>2
<1> HIDE DEF shown, put, failed, pos, str
<1>6. text \in Seq(Int) /\ Len(text) = Len(shown) + 1
  BY <1>2, AppendProperties
<1>7. put.failed <=> InnerNul(bytes)
  <2>1. put.failed = (buffer.failed \/ (IsString(bytes) /\ Len(text) # Len(bytes)))
    BY <1>5 DEF failed
  <2>2. buffer.failed = FALSE
    BY DEF Ready
  <2> HIDE DEF text
  <2>3. QED
    BY <1>4, <1>6, <2>1, <2>2
<1>8. ASSUME ~InnerNul(bytes)
      PROVE  /\ put.str = buffer.str \o Append(Text(bytes), end)
             /\ put.pos = buffer.pos + CalcSize(bytes) + 1
             /\ put.size = buffer.size
             /\ put.failed = FALSE
  <2>1. text = Append(Text(bytes), end) /\ Len(text) = CalcSize(bytes) + 1 /\ CalcSize(bytes) \in Nat
    BY <1>3, <1>6, <1>8, TextSize
  <2> HIDE DEF text
  <2>2. buffer.pos + CalcSize(bytes) + 2 <= buffer.size /\ buffer.size \in Int
    BY DEF Ready
  <2>3. ~(room < Len(text)) /\ buffer.pos + Len(text) = buffer.pos + CalcSize(bytes) + 1
    BY <1>1, <2>1, <2>2
  <2>4. SubSeq(text, 1, Len(text)) = text
    BY <1>6, SubSeqFull
  <2>5. put.failed = FALSE
    BY <1>5, <1>7, <1>8
  <2>6. put.str = str /\ put.pos = pos /\ put.size = buffer.size
    BY <1>5
  <2>7. str = buffer.str \o text
    BY <2>3, <2>4 DEF str, Ready
  <2>8. QED
    BY <2>1, <2>3, <2>5, <2>6, <2>7 DEF pos
<1>9. IsBuffer(put)
  BY <1>5 DEF IsBuffer
<1>10. QED
  BY <1>7, <1>8, <1>9 DEF put

(* A count that was wrong stays wrong. *)
LEMMA PutFailed ==
  ASSUME NEW buffer, NEW bytes, NEW end, IsBuffer(buffer), buffer.failed
  PROVE  PutText(buffer, bytes, end).failed
<1> DEFINE text   == Append(IF IsString(bytes) THEN CString(bytes) ELSE Hex(bytes), end)
           room   == buffer.size - buffer.pos - 1
           wrong  == IsString(bytes) /\ Len(text) # Len(bytes)
           failed == buffer.failed \/ wrong
           pos    == buffer.pos + Len(text)
           str    == IF Len(buffer.str) = buffer.pos
                       THEN buffer.str \o SubSeq(text, 1, IF room < Len(text) THEN room ELSE Len(text))
                       ELSE buffer.str
           put    == PutText(buffer, bytes, end)
<1>1. put = [buffer EXCEPT !.failed = failed, !.pos = pos, !.str = str]
  BY DEF PutText
<1>2. buffer = [str |-> buffer.str, pos |-> buffer.pos, size |-> buffer.size, failed |-> buffer.failed]
  BY DEF IsBuffer
<1> HIDE DEF put, failed, pos, str
<1>3. put.failed = failed
  BY <1>1, <1>2
<1>4. failed
  BY DEF failed
<1>5. QED
  BY <1>3, <1>4 DEF put

IsEntry(entry) == entry.key \in Bytes /\ entry.value \in Bytes

LEMMA FormatLine ==
  ASSUME NEW entry, IsEntry(entry)
  PROVE  LET buffer == Format(entry, TRUE)
         IN  IF InnerNul(entry.key) \/ InnerNul(entry.value)
               THEN buffer.failed
               ELSE ~buffer.failed /\ buffer.str = Line(entry)
<1> DEFINE key   == entry.key
           value == entry.value
           size  == 2 + CalcSize(value) + (1 + CalcSize(key))
           empty == [str |-> <<>>, pos |-> 0, size |-> size, failed |-> FALSE]
           first == PutText(empty, key, EQUALS)
           both  == PutText(first, value, ENDL)
<1>1. Format(entry, TRUE) = both
  BY DEF Format, BufferSize
<1>2. key \in Bytes /\ value \in Bytes
  BY DEF IsEntry
<1>3. Line(entry) = Append(Text(key), EQUALS) \o Append(Text(value), ENDL)
  BY DEF Line
<1> HIDE DEF key, value, both
<1>4. /\ CalcSize(key) \in Nat /\ CalcSize(value) \in Nat
      /\ Len(Text(key)) = CalcSize(key)
      /\ Text(key) \in Seq(Int)
  BY <1>2, TextSize
<1>5. EQUALS \in Int /\ ENDL \in Int
  BY DEF EQUALS, ENDL
<1>6. Ready(empty, key)
  <2>1. <<>> \in Seq(Int) /\ Len(<<>>) = 0
    BY EmptySeq
  <2>2. size \in Int /\ 0 + CalcSize(key) + 2 <= size
    BY <1>4
  <2> HIDE DEF size
  <2>3. QED
    BY <2>1, <2>2 DEF Ready, IsBuffer
<1>7. /\ IsBuffer(first)
      /\ first.failed <=> InnerNul(key)
      /\ ~InnerNul(key) =>
           /\ first.str = <<>> \o Append(Text(key), EQUALS)
           /\ first.pos = 0 + CalcSize(key) + 1
           /\ first.size = size
           /\ first.failed = FALSE
  <2> HIDE DEF size
  <2>1. empty.str = <<>> /\ empty.pos = 0 /\ empty.size = size
    OBVIOUS
  <2> HIDE DEF empty
  <2>2. QED
    BY <1>2, <1>5, <1>6, <2>1, PutWhole
<1> HIDE DEF first
<1>8. CASE InnerNul(key)
  <2>1. first.failed
    BY <1>7, <1>8
  <2>2. both.failed
    BY <1>7, <2>1, PutFailed DEF both
  <2>3. QED
    BY <1>1, <1>8, <2>2 DEF key
<1>9. CASE ~InnerNul(key)
  <2>1. PICK shown \in Seq(Int) : shown = Append(Text(key), EQUALS) /\ Len(shown) = CalcSize(key) + 1
    BY <1>4, <1>5, AppendProperties
  <2>2. <<>> \o shown = shown
    BY <2>1, ConcatEmptySeq
  <2>3. /\ first.str = shown /\ first.pos = CalcSize(key) + 1
        /\ first.size = size /\ first.failed = FALSE
    <3>1. 0 + CalcSize(key) + 1 = CalcSize(key) + 1
      BY <1>4
    <3> HIDE DEF size
    <3>2. QED
      BY <1>7, <1>9, <2>1, <2>2, <3>1
  <2>4. first.size \in Int /\ first.pos + CalcSize(value) + 2 <= first.size
    BY <1>4, <2>3
  <2>5. Ready(first, value)
    BY <1>7, <2>1, <2>3, <2>4 DEF Ready
  <2>6. /\ both.failed <=> InnerNul(value)
        /\ ~InnerNul(value) => both.str = first.str \o Append(Text(value), ENDL)
    <3>1. both = PutText(first, value, ENDL)
      BY DEF both
    <3>2. QED
      BY <1>2, <1>5, <2>5, <3>1, PutWhole
  <2>7. ~InnerNul(value) => both.str = Line(entry)
    BY <1>3, <2>1, <2>3, <2>6
  <2>8. QED
    BY <1>1, <1>9, <2>6, <2>7 DEF key, value
<1>10. QED
  BY <1>8, <1>9

LEMMA FormatValue ==
  ASSUME NEW entry, IsEntry(entry)
  PROVE  LET buffer == Format(entry, FALSE)
         IN  IF InnerNul(entry.value)
               THEN buffer.failed
               ELSE ~buffer.failed /\ buffer.str = Append(Text(entry.value), ENDL)
<1> DEFINE value == entry.value
           size  == 2 + CalcSize(value) + 0
           empty == [str |-> <<>>, pos |-> 0, size |-> size, failed |-> FALSE]
           put   == PutText(empty, value, ENDL)
<1>1. Format(entry, FALSE) = put
  BY DEF Format, BufferSize
<1>2. value \in Bytes
  BY DEF IsEntry
<1> HIDE DEF value, put
<1>3. CalcSize(value) \in Nat /\ Text(value) \in Seq(Int) /\ ENDL \in Int
  BY <1>2, TextSize DEF ENDL
<1>4. Ready(empty, value)
  <2>1. <<>> \in Seq(Int) /\ Len(<<>>) = 0
    BY EmptySeq
  <2>2. size \in Int /\ 0 + CalcSize(value) + 2 <= size
    BY <1>3
  <2> HIDE DEF size
  <2>3. QED
    BY <2>1, <2>2 DEF Ready, IsBuffer
<1>5. empty.str = <<>>
  OBVIOUS
<1> HIDE DEF empty
<1>6. /\ put.failed <=> InnerNul(value)
      /\ ~InnerNul(value) => put.str = <<>> \o Append(Text(value), ENDL)
  <2>1. PICK buffer : buffer = empty
    OBVIOUS
  <2>2. put = PutText(buffer, value, ENDL) /\ buffer.str = <<>> /\ Ready(buffer, value)
    BY <1>4, <1>5, <2>1 DEF put
  <2>3. /\ put.failed <=> InnerNul(value)
        /\ ~InnerNul(value) => put.str = buffer.str \o Append(Text(value), ENDL)
    BY <1>2, <1>3, <2>2, PutWhole
  <2>4. QED
    BY <2>2, <2>3
<1>7. <<>> \o Append(Text(value), ENDL) = Append(Text(value), ENDL)
  <2>1. Append(Text(value), ENDL) \in Seq(Int)
    BY <1>3, AppendProperties
  <2>2. QED
    BY <2>1, ConcatEmptySeq
<1>8. QED
  BY <1>1, <1>6, <1>7 DEF value

Shown(entry, nomem) == entry \notin nomem /\ ~InnerNul(entry.key) /\ ~InnerNul(entry.value)

(* A line of --list. *)
LEMMA PrintLine ==
  ASSUME NEW entry, IsEntry(entry), NEW nomem
  PROVE  /\ Line(entry) \in Seq(Int)
         /\ PrintEntry(entry, TRUE, 0, entry \in nomem).out
              = IF Shown(entry, nomem) THEN Line(entry) ELSE <<>>
<1>1. Line(entry) \in Seq(Int)
  <2>1. Append(Text(entry.key), EQUALS) \in Seq(Int) /\ Append(Text(entry.value), ENDL) \in Seq(Int)
    BY TextSize, AppendProperties DEF IsEntry, EQUALS, ENDL
  <2>2. QED
    BY <2>1, ConcatProperties DEF Line
<1>2. CASE Shown(entry, nomem)
  BY <1>1, <1>2, FormatLine DEF Shown, PrintEntry
<1>3. CASE ~Shown(entry, nomem)
  BY <1>1, <1>3, FormatLine DEF Shown, PrintEntry
<1>4. QED
  BY <1>1, <1>2, <1>3

(* A value of --get. *)
LEMMA PrintValue ==
  ASSUME NEW entry, IsEntry(entry), NEW errno, NEW nomem
  PROVE  PrintEntry(entry, FALSE, errno, nomem) =
           IF nomem THEN [out |-> <<>>, r |-> -ENOMEM]
           ELSE IF InnerNul(entry.value) THEN [out |-> <<>>, r |-> -errno]
           ELSE [out |-> Append(Text(entry.value), ENDL), r |-> 0]
<1>1. CASE nomem
  BY <1>1 DEF PrintEntry
<1>2. CASE ~nomem /\ InnerNul(entry.value)
  BY <1>2, FormatValue DEF PrintEntry
<1>3. CASE ~nomem /\ ~InnerNul(entry.value)
  BY <1>3, FormatValue DEF PrintEntry
<1>4. QED
  BY <1>1, <1>2, <1>3

-------------------------------------------------------------------------------

(* A text that grows by a part a turn. *)
Joins(text, N, part) ==
  /\ text \in [0 .. N -> Seq(Int)]
  /\ text[0] = <<>>
  /\ \A n \in 1 .. N : text[n] = text[n - 1] \o part[n]

LEMMA JoinsExists ==
  ASSUME NEW N \in Nat, NEW part \in [1 .. N -> Seq(Int)]
  PROVE  \E text : Joins(text, N, part)
<1> DEFINE V    == Seq(Int)
           base == <<>>
           step == [n \in 1 .. N |-> [text \in V |-> text \o part[n]]]
<1>1. base \in V
  BY EmptySeq
<1>2. step \in Steps(N, V)
  <2>1. \A n \in 1 .. N, text \in V : text \o part[n] \in V
    BY ConcatProperties
  <2>2. QED
    BY <2>1 DEF Steps
<1>3. \A n \in 1 .. N, text \in V : step[n][text] = text \o part[n]
  OBVIOUS
<1>4. PICK g : Recursion(g, N, V, base, step)
  <2> HIDE DEF V, base, step
  <2>1. QED
    BY <1>1, <1>2, IntervalRecursion
<1> HIDE DEF step
<1>5. \A n \in 1 .. N : g[n] = g[n - 1] \o part[n]
  <2>1. \A n \in 1 .. N : n - 1 \in 0 .. N
    OBVIOUS
  <2>2. QED
    BY <1>3, <1>4, <2>1 DEF Recursion
<1>6. QED
  BY <1>4, <1>5 DEF Recursion, Joins

LEMMA ThreeTexts ==
  ASSUME NEW a \in Seq(Int), NEW b \in Seq(Int), NEW c \in Seq(Int)
  PROVE  (a \o b) \o c = a \o (b \o c)
BY ConcatAssociative

(* The parts of a list make one text of its first n and one of the others. *)
Halves(whole, N, part, first, n, part1, rest, M, part2) ==
  /\ Joins(whole, N, part) /\ Joins(first, n, part1) /\ Joins(rest, M, part2)
  /\ n \in Nat /\ M \in Nat /\ N = n + M
  /\ part \in [1 .. N -> Seq(Int)]
  /\ \A i \in 1 .. n : part1[i] = part[i]
  /\ \A i \in 1 .. M : part2[i] = part[n + i]

InTwo(whole, N, first, n, rest, M) == whole[N] = first[n] \o rest[M]

LEMMA JoinsSplit ==
  ASSUME NEW whole, NEW N, NEW part, NEW first, NEW n, NEW part1, NEW rest, NEW M, NEW part2,
         Halves(whole, N, part, first, n, part1, rest, M, part2)
  PROVE  InTwo(whole, N, first, n, rest, M)
<1> DEFINE Split(k) == whole[n + k] = first[n] \o rest[k]
           T == {k \in 0 .. M : Split(k)}
<1>1. /\ n \in Nat /\ M \in Nat /\ N \in Nat /\ N = n + M
      /\ n \in 0 .. N /\ n \in 0 .. n /\ n + 0 = n
      /\ part \in [1 .. N -> Seq(Int)]
      /\ \A i \in 1 .. n : part1[i] = part[i]
      /\ \A i \in 1 .. M : part2[i] = part[n + i]
  BY DEF Halves
<1>2. whole[n] = first[n]
  <2>1. whole[0] = first[0]
    BY DEF Joins, Halves
  <2>2. ASSUME NEW i \in 1 .. n, whole[i - 1] = first[i - 1] PROVE whole[i] = first[i]
    <3>1. i \in 1 .. N
      BY <1>1
    <3>2. whole[i] = whole[i - 1] \o part[i] /\ first[i] = first[i - 1] \o part[i]
      BY <1>1, <3>1 DEF Joins, Halves
    <3>3. QED
      BY <2>2, <3>2
  <2>3. SameSteps(whole, first, n)
    BY <2>1, <2>2 DEF SameSteps
  <2>4. \A i \in 0 .. n : whole[i] = first[i]
    BY <1>1, <2>3, SameRecursion
  <2>5. QED
    BY <1>1, <2>4
<1>3. first[n] \in Seq(Int)
  BY <1>1 DEF Joins, Halves
<1>4. 0 \in T
  <2>1. first[n] \o <<>> = first[n]
    BY <1>3, ConcatEmptySeq
  <2>2. rest[0] = <<>>
    BY DEF Joins, Halves
  <2>3. Split(0)
    BY <1>1, <1>2, <2>1, <2>2
  <2> HIDE DEF Split
  <2>4. QED
    BY <1>1, <2>3
<1>5. ASSUME NEW k \in 0 .. M - 1, k \in T
      PROVE  k + 1 \in T
  <2>1. PICK m \in 1 .. N : m = n + (k + 1) /\ m - 1 = n + k
    BY <1>1
  <2>2. PICK j \in 1 .. M : j = k + 1 /\ j - 1 = k /\ m = n + j /\ k \in 0 .. M /\ j \in 0 .. M
    BY <1>1, <2>1
  <2>3. whole[m] = whole[m - 1] \o part[m]
    BY DEF Joins, Halves
  <2>4. rest[j] = rest[k] \o part[m]
    BY <1>1, <2>2 DEF Joins, Halves
  <2>5. whole[m - 1] = first[n] \o rest[k]
    BY <1>5, <2>1
  <2>6. rest[k] \in Seq(Int) /\ part[m] \in Seq(Int)
    BY <1>1, <2>2 DEF Joins, Halves
  <2>7. (first[n] \o rest[k]) \o part[m] = first[n] \o (rest[k] \o part[m])
    <3>1. PICK a \in Seq(Int), b \in Seq(Int), c \in Seq(Int) :
            a = first[n] /\ b = rest[k] /\ c = part[m]
      BY <1>3, <2>6
    <3>2. (a \o b) \o c = a \o (b \o c)
      BY ThreeTexts
    <3>3. QED
      BY <3>1, <3>2
  <2>8. Split(k + 1)
    BY <2>1, <2>2, <2>3, <2>4, <2>5, <2>7
  <2> HIDE DEF Split
  <2>9. QED
    BY <2>2, <2>8
<1>6. M \in T
  <2> HIDE DEF T
  <2>1. \A k \in 0 .. M : k \in T
    BY <1>1, <1>4, <1>5, IntervalInduction
  <2>2. QED
    BY <1>1, <2>1
<1>7. QED
  BY <1>1, <1>6 DEF InTwo

Parts(l, nomem) == [i \in 1 .. Len(l) |-> IF Shown(l[i], nomem) THEN Line(l[i]) ELSE <<>>]

Entries(l) == Len(l) \in Nat /\ \A i \in 1 .. Len(l) : IsEntry(l[i])

LEMMA PartsOfEntries ==
  ASSUME NEW l, Entries(l), NEW nomem
  PROVE  Parts(l, nomem) \in [1 .. Len(l) -> Seq(Int)]
<1>1. \A i \in 1 .. Len(l) : Line(l[i]) \in Seq(Int)
  BY PrintLine DEF Entries
<1>2. <<>> \in Seq(Int)
  BY EmptySeq
<1>3. QED
  BY <1>1, <1>2 DEF Parts

LEMMA PrintedJoins ==
  ASSUME NEW l, Entries(l), NEW nomem
  PROVE  Joins(PrintedAfter(l, nomem), Len(l), Parts(l, nomem))
<1> DEFINE N == Len(l)
           Out(n) == PrintEntry(l[n], TRUE, 0, l[n] \in nomem).out
           Def(f, n) == IF n = 0 THEN <<>> ELSE f[n - 1] \o Out(n)
           printed == PrintedAfter(l, nomem)
<1>1. N \in Nat
  BY DEF Entries
<1>2. \A n \in 1 .. N : Out(n) = Parts(l, nomem)[n]
  BY PrintLine DEF Entries, Parts
<1>3. PICK g : Joins(g, N, Parts(l, nomem))
  BY <1>1, PartsOfEntries, JoinsExists
<1> HIDE DEF Out
<1>4. printed = [n \in 0 .. N |-> Def(printed, n)]
  <2>1. g = [n \in 0 .. N |-> g[n]]
    BY <1>3 DEF Joins
  <2>2. ASSUME NEW n \in 0 .. N PROVE g[n] = Def(g, n)
    <3>1. n = 0 \/ (n # 0 /\ n \in 1 .. N)
      BY <1>1
    <3>2. QED
      BY <1>2, <1>3, <3>1 DEF Joins
  <2>3. g = [n \in 0 .. N |-> Def(g, n)]
    BY <2>1, <2>2
  <2>4. QED
    BY <2>3 DEF PrintedAfter, Out
<1> HIDE DEF printed
<1>5. printed[0] = <<>>
  BY <1>1, <1>4
<1>6. ASSUME NEW n \in 1 .. N PROVE printed[n] = printed[n - 1] \o Parts(l, nomem)[n]
  <2>1. n \in 0 .. N /\ n # 0
    BY <1>1
  <2>2. printed[n] = Def(printed, n)
    BY <1>4, <2>1
  <2>3. QED
    BY <1>2, <2>1, <2>2
<1>7. SameSteps(printed, g, N)
  BY <1>3, <1>5, <1>6 DEF SameSteps, Joins
<1>8. \A n \in 0 .. N : printed[n] = g[n]
  <2> HIDE DEF N
  <2>1. QED
    BY <1>1, <1>7, SameRecursion
<1>9. printed \in [0 .. N -> Seq(Int)]
  <2>1. printed = [n \in 0 .. N |-> printed[n]]
    BY <1>4
  <2>2. \A n \in 0 .. N : printed[n] \in Seq(Int)
    BY <1>3, <1>8 DEF Joins
  <2>3. QED
    BY <2>1, <2>2
<1>10. QED
  BY <1>5, <1>6, <1>9 DEF printed, Joins

LEMMA LinesJoin ==
  ASSUME NEW l, Entries(l), NEW nomem
  PROVE  Joins(Lines(l, nomem), Len(l), Parts(l, nomem))
<1> DEFINE N == Len(l)
           Def(f, n) == IF n = 0 THEN <<>>
                        ELSE IF Shown(l[n], nomem) THEN f[n - 1] \o Line(l[n]) ELSE f[n - 1]
           lines == Lines(l, nomem)
<1>1. N \in Nat
  BY DEF Entries
<1>2. \A n \in 1 .. N :
        Parts(l, nomem)[n] = IF Shown(l[n], nomem) THEN Line(l[n]) ELSE <<>>
  BY DEF Parts
<1>3. PICK g : Joins(g, N, Parts(l, nomem))
  BY <1>1, PartsOfEntries, JoinsExists
<1>4. ASSUME NEW n \in 1 .. N
      PROVE  g[n] = IF Shown(l[n], nomem) THEN g[n - 1] \o Line(l[n]) ELSE g[n - 1]
  <2>1. g[n] = g[n - 1] \o Parts(l, nomem)[n]
    BY <1>3 DEF Joins
  <2>2. g[n - 1] \o <<>> = g[n - 1]
    <3>1. n - 1 \in 0 .. N
      BY <1>1
    <3>2. g[n - 1] \in Seq(Int)
      BY <1>3, <3>1 DEF Joins
    <3>3. QED
      BY <3>2, ConcatEmptySeq
  <2>3. QED
    BY <1>2, <2>1, <2>2
<1>5. lines = [n \in 0 .. N |-> Def(lines, n)]
  <2>1. g = [n \in 0 .. N |-> g[n]]
    BY <1>3 DEF Joins
  <2>2. ASSUME NEW n \in 0 .. N PROVE g[n] = Def(g, n)
    <3>1. n = 0 \/ (n # 0 /\ n \in 1 .. N)
      BY <1>1
    <3>2. QED
      BY <1>3, <1>4, <3>1 DEF Joins
  <2>3. g = [n \in 0 .. N |-> Def(g, n)]
    BY <2>1, <2>2
  <2>4. QED
    BY <2>3 DEF Lines, Shown
<1> HIDE DEF lines
<1>6. lines[0] = <<>>
  BY <1>1, <1>5
<1>7. ASSUME NEW n \in 1 .. N
      PROVE  lines[n] = IF Shown(l[n], nomem) THEN lines[n - 1] \o Line(l[n]) ELSE lines[n - 1]
  <2>1. n \in 0 .. N /\ n # 0
    BY <1>1
  <2>2. lines[n] = Def(lines, n)
    BY <1>5, <2>1
  <2>3. QED
    BY <2>1, <2>2
<1>8. SameSteps(lines, g, N)
  <2>1. lines[0] = g[0]
    BY <1>3, <1>6 DEF Joins
  <2>2. QED
    BY <1>4, <1>7, <2>1 DEF SameSteps
<1>9. \A n \in 0 .. N : lines[n] = g[n]
  <2> HIDE DEF N
  <2>1. QED
    BY <1>1, <1>8, SameRecursion
<1>10. lines = g
  <2>1. lines = [n \in 0 .. N |-> lines[n]]
    BY <1>5
  <2>2. g = [n \in 0 .. N |-> g[n]]
    BY <1>3 DEF Joins
  <2>3. QED
    BY <1>9, <2>1, <2>2
<1>11. QED
  BY <1>3, <1>10 DEF lines

(* The lists of the two stores, of n entries and of the others. *)
SystemOf(l, n) == SubSeq(l, 1, n)

UserOf(l, n) == SubSeq(l, n + 1, Len(l))

LEMMA TwoStores ==
  ASSUME NEW l \in Seq(Entry), NEW n \in 0 .. Len(l)
  PROVE  /\ Len(l) \in Nat
         /\ SystemOf(l, n) \in Seq(Entry) /\ UserOf(l, n) \in Seq(Entry)
         /\ Len(SystemOf(l, n)) = n /\ Len(UserOf(l, n)) = Len(l) - n
         /\ \A i \in 1 .. n : SystemOf(l, n)[i] = l[i]
         /\ \A i \in 1 .. Len(l) - n : UserOf(l, n)[i] = l[n + i]
<1> DEFINE user == UserOf(l, n)
<1>1. Len(l) \in Nat /\ n \in Nat
  BY LenProperties
<1>2. PICK from \in Int, to \in Int :
        /\ from = n + 1 /\ to = Len(l)
        /\ to - from + 1 = Len(l) - n
        /\ from <= to <=> n # Len(l)
  BY <1>1
<1>3. user = SubSeq(l, from, to)
  BY <1>2 DEF UserOf
<1>4. \A i \in from .. to : l[i] \in Entry
  <2>1. \A i \in from .. to : i \in 1 .. Len(l)
    BY <1>1, <1>2
  <2>2. QED
    BY <2>1, ElementOfSeq
<1>5. /\ user \in Seq(Entry)
      /\ Len(user) = IF from <= to THEN to - from + 1 ELSE 0
      /\ \A i \in 1 .. to - from + 1 : user[i] = l[from + i - 1]
  BY <1>3, <1>4, SubSeqProperties
<1>6. \A i \in 1 .. Len(l) - n : from + i - 1 = n + i
  BY <1>1, <1>2
<1> HIDE DEF user
<1>7. Len(user) = Len(l) - n
  BY <1>1, <1>2, <1>5
<1>8. \A i \in 1 .. Len(l) - n : user[i] = l[n + i]
  BY <1>2, <1>5, <1>6
<1>9. /\ SystemOf(l, n) \in Seq(Entry)
      /\ Len(SystemOf(l, n)) = n
      /\ \A i \in 1 .. n : SystemOf(l, n)[i] = l[i]
  BY FirstPart DEF SystemOf
<1>10. QED
  BY <1>1, <1>5, <1>7, <1>8, <1>9 DEF user

LEMMA EntriesOfSeq ==
  ASSUME NEW l \in Seq(Entry)
  PROVE  Entries(l)
<1>1. Len(l) \in Nat /\ \A i \in 1 .. Len(l) : l[i] \in Entry
  BY LenProperties, ElementOfSeq
<1>2. \A entry \in Entry : IsEntry(entry)
  BY BytesAssumption DEF Entry, IsEntry, Bytes
<1>3. QED
  BY <1>1, <1>2 DEF Entries

LEMMA ListIsComplete == TypeOK => ListComplete
<1> SUFFICES ASSUME TypeOK PROVE ListComplete
  OBVIOUS
<1> SUFFICES ASSUME NEW n \in 0 .. Len(list), NEW nomem
             PROVE  RunList(SystemOf(list, n), UserOf(list, n), nomem)
                      = Lines(list, nomem)[Len(list)]
  BY DEF ListComplete, SystemOf, UserOf
<1>1. PICK l \in Seq(Entry) : l = list
  BY DEF TypeOK
<1>2. PICK system \in Seq(Entry), user \in Seq(Entry) :
        system = SystemOf(l, n) /\ user = UserOf(l, n)
  BY <1>1, TwoStores
<1>3. /\ Len(l) \in Nat /\ n \in 0 .. Len(l)
      /\ Len(system) = n /\ Len(user) = Len(l) - n
      /\ \A i \in 1 .. n : system[i] = l[i]
      /\ \A i \in 1 .. Len(l) - n : user[i] = l[n + i]
  BY <1>1, <1>2, TwoStores
<1>4. Entries(l) /\ Entries(system) /\ Entries(user)
  BY EntriesOfSeq
<1>5. /\ Joins(PrintedAfter(system, nomem), n, Parts(system, nomem))
      /\ Joins(PrintedAfter(user, nomem), Len(l) - n, Parts(user, nomem))
  BY <1>3, <1>4, PrintedJoins
<1>6. /\ Joins(Lines(l, nomem), Len(l), Parts(l, nomem))
      /\ Parts(l, nomem) \in [1 .. Len(l) -> Seq(Int)]
  BY <1>4, LinesJoin, PartsOfEntries
<1>7. \A i \in 1 .. n : Parts(system, nomem)[i] = Parts(l, nomem)[i]
  <2>1. \A i \in 1 .. n : i \in 1 .. Len(l)
    BY <1>3
  <2>2. QED
    BY <1>3, <2>1 DEF Parts
<1>8. \A i \in 1 .. Len(l) - n : Parts(user, nomem)[i] = Parts(l, nomem)[n + i]
  <2>1. \A i \in 1 .. Len(l) - n : n + i \in 1 .. Len(l)
    BY <1>3
  <2>2. QED
    BY <1>3, <2>1 DEF Parts
<1>9. Lines(l, nomem)[Len(l)] =
        PrintedAfter(system, nomem)[n] \o PrintedAfter(user, nomem)[Len(l) - n]
  <2>1. PICK N, M, part, whole, first, rest, part1, part2 :
          /\ N = Len(l) /\ M = Len(l) - n /\ part = Parts(l, nomem) /\ whole = Lines(l, nomem)
          /\ first = PrintedAfter(system, nomem) /\ part1 = Parts(system, nomem)
          /\ rest = PrintedAfter(user, nomem) /\ part2 = Parts(user, nomem)
    BY <1>3, <1>6
  <2>2. /\ Joins(whole, N, part) /\ Joins(first, n, part1) /\ Joins(rest, M, part2)
    BY <1>3, <1>5, <1>6, <2>1
  <2>3. Halves(whole, N, part, first, n, part1, rest, M, part2)
    <3>1. n \in Nat /\ M \in Nat /\ N = n + M /\ part \in [1 .. N -> Seq(Int)]
      BY <1>3, <1>6, <2>1
    <3>2. QED
      BY <1>7, <1>8, <2>1, <2>2, <3>1 DEF Halves
  <2>4. InTwo(whole, N, first, n, rest, M)
    BY <2>3, JoinsSplit
  <2>5. QED
    BY <2>1, <2>4 DEF InTwo
<1>10. QED
  BY <1>1, <1>2, <1>3, <1>9 DEF RunList, PrintList

-------------------------------------------------------------------------------

(* Which store a get finds the key in. *)
LEMMA GetOfStores ==
  ASSUME NEW l \in Seq(Entry), Unique(l), NEW n \in 0 .. Len(l), NEW key
  PROVE  LET value  == ListGet(l, key)
             system == ListGet(SystemOf(l, n), key)
             user   == ListGet(UserOf(l, n), key)
         IN  \/ value = NoValue /\ system = NoValue /\ user = NoValue
             \/ value \in Values /\ system = value /\ user = NoValue
             \/ value \in Values /\ system = NoValue /\ user = value
<1>1. PICK system \in Seq(Entry), user \in Seq(Entry) :
        system = SystemOf(l, n) /\ user = UserOf(l, n)
  BY TwoStores
<1>2. /\ Len(l) \in Nat
      /\ Len(system) = n /\ Len(user) = Len(l) - n
      /\ \A i \in 1 .. n : system[i] = l[i]
      /\ \A i \in 1 .. Len(l) - n : user[i] = l[n + i]
  BY <1>1, TwoStores
<1>3. DOMAIN l = 1 .. Len(l) /\ DOMAIN system = 1 .. n /\ DOMAIN user = 1 .. Len(l) - n
  BY <1>2, LenProperties
<1>4. /\ \A i \in 1 .. n : i \in 1 .. Len(l)
      /\ \A i \in 1 .. Len(l) - n : n + i \in 1 .. Len(l) /\ ~(n + i <= n)
      /\ \A i \in 1 .. Len(l) : ~(i <= n) => i - n \in 1 .. Len(l) - n /\ n + (i - n) = i
      /\ \A i \in 1 .. Len(l) : i <= n => i \in 1 .. n
  BY <1>2
<1>5. \A i, j \in 1 .. Len(l) : l[i].key = l[j].key => i = j
  BY <1>3 DEF Unique
<1>6. Unique(system)
  BY <1>2, <1>3, <1>4, <1>5 DEF Unique
<1>7. Unique(user)
  <2>1. ASSUME NEW i \in 1 .. Len(l) - n, NEW j \in 1 .. Len(l) - n, user[i].key = user[j].key
        PROVE  i = j
    <3>1. l[n + i].key = l[n + j].key /\ n + i \in 1 .. Len(l) /\ n + j \in 1 .. Len(l)
      BY <1>2, <1>4, <2>1
    <3>2. n + i = n + j
      BY <1>5, <3>1
    <3>3. QED
      BY <1>2, <3>2
  <2>2. QED
    BY <1>3, <2>1 DEF Unique
<1>8. CASE key \notin KeysOf(l)
  <2>1. \A i \in 1 .. Len(l) : l[i].key # key
    BY <1>3, <1>8 DEF KeysOf
  <2>2. key \notin KeysOf(system) /\ key \notin KeysOf(user)
    <3>1. ASSUME NEW i \in 1 .. n PROVE system[i].key # key
      <4>1. system[i] = l[i] /\ i \in 1 .. Len(l)
        BY <1>2, <1>4
      <4>2. QED
        BY <2>1, <4>1
    <3>2. ASSUME NEW i \in 1 .. Len(l) - n PROVE user[i].key # key
      <4>1. user[i] = l[n + i] /\ n + i \in 1 .. Len(l)
        BY <1>2, <1>4
      <4>2. QED
        BY <2>1, <4>1
    <3>3. QED
      BY <1>3, <3>1, <3>2 DEF KeysOf
  <2>3. ListGet(l, key) = NoValue /\ ListGet(system, key) = NoValue /\ ListGet(user, key) = NoValue
    BY <1>8, <2>2, NotFound DEF ListGet
  <2>4. QED
    BY <1>1, <2>3
<1>9. CASE key \in KeysOf(l)
  <2>1. PICK i \in 1 .. Len(l) : l[i].key = key
    BY <1>3, <1>9 DEF KeysOf
  <2>2. ListGet(l, key) = l[i].value /\ l[i].value \in Values
    <3>1. l[i] \in Entry
      BY ElementOfSeq
    <3>2. QED
      BY <1>3, <2>1, <3>1, Found DEF Entry
  <2>3. CASE i <= n
    <3>1. i \in DOMAIN system /\ system[i] = l[i]
      BY <1>2, <1>3, <1>4, <2>3
    <3>2. ListGet(system, key) = l[i].value
      BY <1>6, <2>1, <3>1, Found
    <3>3. ASSUME NEW j \in 1 .. Len(l) - n PROVE user[j].key # key
      <4>1. user[j] = l[n + j] /\ n + j \in 1 .. Len(l) /\ n + j # i
        BY <1>2, <1>4, <2>3
      <4>2. QED
        BY <1>5, <2>1, <4>1
    <3>4. key \notin KeysOf(user)
      BY <1>3, <3>3 DEF KeysOf
    <3>5. ListGet(user, key) = NoValue
      BY <3>4, NotFound DEF ListGet
    <3>6. QED
      BY <1>1, <2>2, <3>2, <3>5
  <2>4. CASE ~(i <= n)
    <3>1. PICK j \in 1 .. Len(l) - n : n + j = i
      BY <1>4, <2>4
    <3>2. j \in DOMAIN user /\ user[j] = l[i]
      BY <1>2, <1>3, <3>1
    <3>3. ListGet(user, key) = l[i].value
      BY <1>7, <2>1, <3>2, Found
    <3>4. ASSUME NEW k \in 1 .. n PROVE system[k].key # key
      <4>1. system[k] = l[k] /\ k \in 1 .. Len(l) /\ k # i
        BY <1>2, <1>4, <2>4
      <4>2. QED
        BY <1>5, <2>1, <4>1
    <3>5. key \notin KeysOf(system)
      BY <1>3, <3>4 DEF KeysOf
    <3>6. ListGet(system, key) = NoValue
      BY <3>5, NotFound DEF ListGet
    <3>7. QED
      BY <1>1, <2>2, <3>3, <3>6
  <2>5. QED
    BY <2>3, <2>4
<1>10. QED
  BY <1>8, <1>9

Printed(value, errno, nomem) ==
  IF nomem THEN [out |-> <<>>, r |-> -ENOMEM]
  ELSE IF InnerNul(value) THEN [out |-> <<>>, r |-> -errno]
  ELSE [out |-> Append(Text(value), ENDL), r |-> 0]

LEMMA PrintFound ==
  ASSUME NEW l, NEW key \in Bytes, NEW errno, NEW nomem, ListGet(l, key) \in Values
  PROVE  PrintListEntry(l, key, errno, nomem) = Printed(ListGet(l, key), errno, nomem)
<1>1. PICK value \in Values : value = ListGet(l, key)
  OBVIOUS
<1>2. IsEntry([key |-> key, value |-> value])
  BY BytesAssumption DEF IsEntry, Bytes
<1>3. PrintEntry([key |-> key, value |-> value], FALSE, errno, nomem) = Printed(value, errno, nomem)
  <2>1. PICK entry : entry = [key |-> key, value |-> value]
    OBVIOUS
  <2>2. entry.value = value /\ IsEntry(entry)
    BY <1>2, <2>1
  <2>3. PrintEntry(entry, FALSE, errno, nomem) = Printed(entry.value, errno, nomem)
    BY <2>2, PrintValue DEF Printed
  <2>4. QED
    BY <2>1, <2>2, <2>3
<1>4. value # NoValue
  BY NoValueAssumption
<1>5. QED
  BY <1>1, <1>3, <1>4 DEF PrintListEntry

(* What --get prints and returns. *)
LEMMA GetResult ==
  ASSUME NEW l \in Seq(Entry), Unique(l), NEW n \in 0 .. Len(l), NEW key \in Bytes,
         NEW errno \in Errno, NEW nomem \in SUBSET {"system", "user"}
  PROVE  LET got   == RunGet(SystemOf(l, n), UserOf(l, n), key, errno, nomem)
             value == ListGet(l, key)
             store == IF ListGet(SystemOf(l, n), key) # NoValue THEN "system" ELSE "user"
         IN  got = IF value = NoValue \/ store \in nomem
                     THEN [out |-> <<>>, r |-> ENOENT]
                   ELSE IF InnerNul(value)
                     THEN [out |-> <<>>, r |-> IF errno = 0 THEN 0 ELSE ENOENT]
                   ELSE [out |-> Append(Text(value), ENDL), r |-> 0]
<1>1. PICK system, user, value, got :
        /\ system = SystemOf(l, n) /\ user = UserOf(l, n) /\ value = ListGet(l, key)
        /\ got = RunGet(system, user, key, errno, nomem)
  OBVIOUS
<1> DEFINE first  == PrintListEntry(system, key, errno, "system" \in nomem)
           left   == IF first.r = -ENOMEM THEN ENOMEM ELSE errno
           second == PrintListEntry(user, key, left, "user" \in nomem)
           none   == [out |-> <<>>, r |-> -ENOENT]
<1>2. got = IF first.r = 0 THEN first
            ELSE [out |-> first.out \o second.out, r |-> IF second.r = 0 THEN 0 ELSE ENOENT]
  BY <1>1 DEF RunGet
<1>3. ListGet(system, key) = NoValue => first = none
  BY DEF PrintListEntry
<1>4. ListGet(user, key) = NoValue => second = none
  BY DEF PrintListEntry
<1>5. ListGet(system, key) \in Values =>
        first = Printed(ListGet(system, key), errno, "system" \in nomem)
  BY PrintFound
<1>6. ListGet(user, key) \in Values =>
        second = Printed(ListGet(user, key), left, "user" \in nomem)
  BY PrintFound
<1> HIDE DEF first, second
<1>7. none.r = -2 /\ none.out = <<>> /\ ENOENT = 2 /\ ENOMEM = 12 /\ errno \in {0, 2, 11}
  BY DEF ENOENT, ENOMEM, EWOULDBLOCK, Errno
<1> HIDE DEF none
<1>8. <<>> \o <<>> = <<>>
  BY EmptySeq, ConcatEmptySeq
<1>9. CASE value = NoValue /\ ListGet(system, key) = NoValue /\ ListGet(user, key) = NoValue
  <2>1. got = [out |-> <<>>, r |-> ENOENT]
    BY <1>2, <1>3, <1>4, <1>7, <1>8, <1>9
  <2>2. QED
    BY <1>1, <1>9, <2>1
<1>10. CASE value \in Values /\ ListGet(system, key) = value /\ ListGet(user, key) = NoValue
  <2>1. value # NoValue /\ first = Printed(value, errno, "system" \in nomem) /\ second = none
    BY <1>4, <1>5, <1>10, NoValueAssumption
  <2>2. CASE "system" \in nomem
    <3>1. first.r = -12 /\ first.out = <<>>
      BY <1>7, <2>1, <2>2 DEF Printed
    <3>2. first.r # 0 /\ second.r # 0 /\ second.out = <<>>
      BY <1>7, <2>1, <3>1
    <3>3. got = [out |-> <<>>, r |-> ENOENT]
      BY <1>2, <1>8, <3>1, <3>2
    <3>4. QED
      BY <1>1, <1>10, <2>1, <2>2, <3>3
  <2>3. CASE "system" \notin nomem /\ InnerNul(value)
    <3>1. first = [out |-> <<>>, r |-> -errno]
      BY <2>1, <2>3 DEF Printed
    <3>2. CASE errno = 0
      <4>1. first.r = 0 <=> errno = 0
        BY <1>7, <3>1
      <4>2. got = first /\ first = [out |-> <<>>, r |-> first.r]
        BY <1>2, <3>1, <3>2, <4>1
      <4>3. got = [out |-> <<>>, r |-> 0]
        BY <3>2, <4>1, <4>2
      <4>4. QED
        BY <1>1, <1>10, <2>1, <2>3, <3>2, <4>3
    <3>3. CASE errno # 0
      <4>1. first.r # 0 /\ first.out = <<>>
        BY <1>7, <3>1, <3>3
      <4>2. first.r # 0 /\ second.r # 0 /\ second.out = <<>>
        BY <1>7, <2>1, <4>1
      <4>3. got = [out |-> <<>>, r |-> ENOENT]
        BY <1>2, <1>8, <4>1, <4>2
      <4>4. QED
        BY <1>1, <1>10, <2>1, <2>3, <3>3, <4>3
    <3>4. QED
      BY <1>7, <3>2, <3>3
  <2>4. CASE "system" \notin nomem /\ ~InnerNul(value)
    <3>1. first = [out |-> Append(Text(value), ENDL), r |-> 0]
      BY <2>1, <2>4 DEF Printed
    <3>2. got = first
      BY <1>2, <3>1
    <3>3. QED
      BY <1>1, <1>10, <2>1, <2>4, <3>1, <3>2
  <2>5. QED
    BY <2>2, <2>3, <2>4
<1>11. CASE value \in Values /\ ListGet(system, key) = NoValue /\ ListGet(user, key) = value
  <2>1. first = none /\ left = errno
    BY <1>3, <1>7, <1>11
  <2>2. value # NoValue /\ second = Printed(value, errno, "user" \in nomem)
    BY <1>6, <1>11, <2>1, NoValueAssumption
  <2>3. got = [out |-> <<>> \o second.out, r |-> IF second.r = 0 THEN 0 ELSE ENOENT]
    <3>1. first.r # 0 /\ first.out = <<>>
      BY <1>7, <2>1
    <3>2. QED
      BY <1>2, <3>1
  <2>4. CASE "user" \in nomem
    <3>1. second.r = -12 /\ second.out = <<>>
      BY <1>7, <2>2, <2>4 DEF Printed
    <3>2. got = [out |-> <<>>, r |-> ENOENT]
      BY <1>8, <2>3, <3>1
    <3>3. QED
      BY <1>1, <1>11, <2>2, <2>4, <3>2
  <2>5. CASE "user" \notin nomem /\ InnerNul(value)
    <3>1. second.out = <<>> /\ second.r = -errno
      BY <2>2, <2>5 DEF Printed
    <3>2. second.r = 0 <=> errno = 0
      BY <1>7, <3>1
    <3>3. got = [out |-> <<>>, r |-> IF errno = 0 THEN 0 ELSE ENOENT]
      BY <1>8, <2>3, <3>1, <3>2
    <3>4. QED
      BY <1>1, <1>11, <2>2, <2>5, <3>3
  <2>6. CASE "user" \notin nomem /\ ~InnerNul(value)
    <3>1. PICK text \in Seq(Int) : text = Append(Text(value), ENDL)
      <4>1. value \in Bytes
        BY <1>11, BytesAssumption DEF Bytes
      <4>2. Text(value) \in Seq(Int) /\ ENDL \in Int
        BY <4>1, TextSize DEF ENDL
      <4>3. QED
        BY <4>2, AppendProperties
    <3>2. second.out = text /\ second.r = 0
      BY <2>2, <2>6, <3>1 DEF Printed
    <3>3. <<>> \o text = text
      BY ConcatEmptySeq
    <3>4. got = [out |-> text, r |-> 0]
      BY <2>3, <3>2, <3>3
    <3>5. QED
      BY <1>1, <1>11, <2>2, <2>6, <3>1, <3>4
  <2>7. QED
    BY <2>4, <2>5, <2>6
<1>12. QED
  BY <1>1, <1>9, <1>10, <1>11, GetOfStores

LEMMA GetAnswered == ListInv => GetAnswers /\ SilentSuccess
<1> SUFFICES ASSUME ListInv PROVE GetAnswers /\ SilentSuccess
  OBVIOUS
<1>1. PICK l \in Seq(Entry) : l = list /\ Unique(l)
  BY DEF ListInv, TypeOK, UniqueKeys, Unique
<1>2. ASSUME NEW n \in 0 .. Len(l), NEW key \in StringKeys, NEW errno \in Errno,
             NEW nomem \in SUBSET {"system", "user"}, NEW got,
             got = RunGet(SystemOf(l, n), UserOf(l, n), key, errno, nomem)
      PROVE  LET value == ListGet(l, key)
                 store == IF ListGet(SystemOf(l, n), key) # NoValue THEN "system" ELSE "user"
             IN  /\ IF value = NoValue \/ store \in nomem
                      THEN got.r # 0 /\ got.out = <<>>
                    ELSE IF InnerNul(value)
                      THEN got.out = <<>>
                    ELSE got = [out |-> Append(Text(value), ENDL), r |-> 0]
                 /\ got.r = 0 /\ got.out = <<>> => InnerNul(value) /\ errno = 0
  <2>1. key \in Bytes
    BY BytesAssumption DEF StringKeys, Bytes
  <2>2. PICK value, store : /\ value = ListGet(l, key)
                            /\ store = IF ListGet(SystemOf(l, n), key) # NoValue THEN "system" ELSE "user"
    OBVIOUS
  <2>3. got = IF value = NoValue \/ store \in nomem
                THEN [out |-> <<>>, r |-> ENOENT]
              ELSE IF InnerNul(value)
                THEN [out |-> <<>>, r |-> IF errno = 0 THEN 0 ELSE ENOENT]
              ELSE [out |-> Append(Text(value), ENDL), r |-> 0]
    BY <1>1, <1>2, <2>1, <2>2, GetResult
  <2>4. ENOENT # 0
    BY DEF ENOENT
  <2>5. CASE value = NoValue \/ store \in nomem
    <3>1. got.r # 0 /\ got.out = <<>>
      BY <2>3, <2>4, <2>5
    <3>2. QED
      BY <2>2, <2>5, <3>1
  <2>6. CASE ~(value = NoValue \/ store \in nomem) /\ InnerNul(value)
    <3>1. got.out = <<>> /\ (got.r = 0 => errno = 0)
      BY <2>3, <2>4, <2>6
    <3>2. QED
      BY <2>2, <2>6, <3>1
  <2>7. CASE ~(value = NoValue \/ store \in nomem) /\ ~InnerNul(value)
    <3>1. got = [out |-> Append(Text(value), ENDL), r |-> 0]
      BY <2>3, <2>7
    <3>2. got.out # <<>>
      <4>1. value \in Values
        BY <1>1, <2>2, <2>7, GetOfStores
      <4>2. value \in Bytes
        BY <4>1, BytesAssumption DEF Bytes
      <4>3. PICK text \in Seq(Int) : text = Text(value)
        BY <4>2, TextSize
      <4>4. Len(Append(text, ENDL)) = Len(text) + 1 /\ Len(text) \in Nat
        BY AppendProperties, LenProperties DEF ENDL
      <4>5. Append(text, ENDL) # <<>>
        BY <4>4, EmptySeq
      <4>6. QED
        BY <3>1, <4>3, <4>5
    <3>3. QED
      BY <2>2, <2>7, <3>1, <3>2
  <2>8. QED
    BY <2>5, <2>6, <2>7
<1>3. GetAnswers
  <2> SUFFICES ASSUME NEW n \in 0 .. Len(l), NEW key \in StringKeys, NEW errno \in Errno,
                      NEW nomem \in SUBSET {"system", "user"}
               PROVE  LET got   == RunGet(SystemOf(l, n), UserOf(l, n), key, errno, nomem)
                          value == ListGet(l, key)
                          store == IF ListGet(SystemOf(l, n), key) # NoValue THEN "system" ELSE "user"
                      IN  IF value = NoValue \/ store \in nomem
                            THEN got.r # 0 /\ got.out = <<>>
                          ELSE IF InnerNul(value)
                            THEN got.out = <<>>
                          ELSE got = [out |-> Append(Text(value), ENDL), r |-> 0]
    BY <1>1 DEF GetAnswers, SystemOf, UserOf
  <2>1. PICK got : got = RunGet(SystemOf(l, n), UserOf(l, n), key, errno, nomem)
    OBVIOUS
  <2>2. QED
    BY <1>2, <2>1
<1>4. SilentSuccess
  BY <1>1, <1>2 DEF SilentSuccess, SystemOf, UserOf
<1>5. QED
  BY <1>3, <1>4

(* Whatever is in the two stores, of any size, --list prints every entry   *)
(* whole and in order, except those with a NUL inside a string or without  *)
(* memory: calc_size is never short of what print_entry puts.              *)
THEOREM PrintListComplete == Spec => []ListComplete
<1>1. ListInv => ListComplete
  BY ListIsComplete DEF ListInv
<1>2. QED
  BY <1>1, ListInvAlways, PTL

(* --get prints the value of a key that a store has and exits with 0, or   *)
(* prints nothing and fails when none has it or there is no memory; of a   *)
(* string with a NUL inside it prints nothing.                             *)
THEOREM PrintGetAnswers == Spec => []GetAnswers
<1>1. ListInv => GetAnswers
  BY GetAnswered
<1>2. QED
  BY <1>1, ListInvAlways, PTL

(* --get is silent and exits with 0 only for a value that is a string with *)
(* a NUL inside, and only when nothing has set errno.                      *)
THEOREM PrintSilentSuccess == Spec => []SilentSuccess
<1>1. ListInv => SilentSuccess
  BY GetAnswered
<1>2. QED
  BY <1>1, ListInvAlways, PTL
===============================================================================
