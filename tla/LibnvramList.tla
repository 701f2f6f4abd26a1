----------------------------- MODULE LibnvramList -----------------------------
(***************************************************************************)
(* The list of variables in memory (libnvram/libnvram.c, up to             *)
(* destroy_libnvram_list): a linked list of entries, here the sequence of  *)
(* its nodes' entries, that is searched from its head.                     *)
(***************************************************************************)
EXTENDS Integers, Sequences

CONSTANTS Keys, Values,
  NoValue  \* the NULL of libnvram_list_get

ASSUME NoValueAssumption == NoValue \notin Values

VARIABLES
  list,   \* *list
  reply   \* the function last called, and what it returned

vars == <<list, reply>>

Entry == [key : Keys, value : Values]

(*-------------------------------------------------------------------------*)
(* The functions, on values.                                               *)
(*-------------------------------------------------------------------------*)

Matches(l, key) == {i \in DOMAIN l : l[i].key = key}

(* The node at which a search from the head stops. *)
Position(l, key) ==
  CHOOSE i \in Matches(l, key) : \A j \in Matches(l, key) : i <= j

ListGet(l, key) ==
  IF Matches(l, key) = {} THEN NoValue ELSE l[Position(l, key)].value

(* Always adds a node. *)
ListSetAppend(l, entry) == Append(l, entry)

(* Replaces an entry by unlinking its node and adding one at the end. *)
ListSetMoves(l, entry) == Append(SelectSeq(l, LAMBDA e : e.key # entry.key), entry)

(* Replaces the entry in its node, or adds a node at the end.  An equal    *)
(* entry replaced is an entry left alone.                                  *)
ListSet(l, entry) ==
  IF Matches(l, entry.key) = {}
    THEN Append(l, entry)
    ELSE [l EXCEPT ![Position(l, entry.key)] = entry]

(* Unlinks the node and everything behind it. *)
ListRemoveTail(l, key) ==
  IF Matches(l, key) = {} THEN l ELSE SubSeq(l, 1, Position(l, key) - 1)

(* Frees the entry and leaves its node. *)
ListRemoveDangling(l, key) ==
  IF Matches(l, key) = {} THEN l ELSE [l EXCEPT ![Position(l, key)] = NoValue]

ListRemove(l, key) ==
  IF Matches(l, key) = {}
    THEN l
    ELSE [i \in 1 .. Len(l) - 1 |-> IF i < Position(l, key) THEN l[i] ELSE l[i + 1]]

(*-------------------------------------------------------------------------*)
(* A list through a sequence of calls.                                     *)
(*-------------------------------------------------------------------------*)

Set(entry) ==
  /\ list' = ListSet(list, entry)
  /\ reply' = <<"set", TRUE>>

(* An equal entry needs no memory, so it never lacks any. *)
SetNoMemory(entry) ==
  /\ ListGet(list, entry.key) # entry.value
  /\ reply' = <<"set", FALSE>>
  /\ UNCHANGED list

Get(key) ==
  /\ reply' = <<"get", ListGet(list, key)>>
  /\ UNCHANGED list

RemoveKey(key) ==
  /\ list' = ListRemove(list, key)
  /\ reply' = <<"remove", Matches(list, key) # {}>>

Destroy ==
  /\ list' = <<>>
  /\ reply' = <<"destroy", NoValue>>

Init ==
  /\ list = <<>>
  /\ reply = <<"none", NoValue>>

Next ==
  \/ \E entry \in Entry : Set(entry) \/ SetNoMemory(entry)
  \/ \E key \in Keys : Get(key) \/ RemoveKey(key)
  \/ Destroy

Spec == Init /\ [][Next]_vars

-------------------------------------------------------------------------------

(* The list is a sequence of entries. *)
TypeOK == list \in Seq(Entry)

(* No key has two nodes, whatever was set, replaced and removed: a remove  *)
(* that stops at the first match removes the variable.                     *)
UniqueKeys ==
  \A i, j \in DOMAIN list : list[i].key = list[j].key => i = j

KeysOf(l) == {l[i].key : i \in DOMAIN l}

AsMap(l) == [k \in KeysOf(l) |-> ListGet(l, k)]

Abstract == INSTANCE VariableMap WITH map <- AsMap(list)

(* The list is a map to its callers: what get, set and remove return and   *)
(* do to it is what they would return and do to a map.                     *)
ListIsMap == Abstract!Spec

(* No call moves an entry that it is not about: those that stay keep their *)
(* order, which is the order they are printed and written in.              *)
OrderKept ==
  [][\A i, j \in DOMAIN list, m, n \in DOMAIN list' :
       /\ i < j
       /\ list[i].key = list'[m].key
       /\ list[j].key = list'[n].key
       => m < n]_vars
===============================================================================
