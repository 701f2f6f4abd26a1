----------------------------- MODULE VariableMap -----------------------------
(***************************************************************************)
(* What the list functions of libnvram.h promise: a map from keys to       *)
(* values.  Set overwrites, remove says whether there was anything to      *)
(* remove, get finds what was last set; a set without memory changes       *)
(* nothing.                                                                *)
(***************************************************************************)
CONSTANTS Keys, Values, NoValue

VARIABLES
  map,    \* the value of each key that has one
  reply   \* the function last called, and what it returned

vars == <<map, reply>>

Init ==
  /\ map = [k \in {} |-> NoValue]
  /\ reply = <<"none", NoValue>>

Set(k, v) ==
  \/ /\ map' = [x \in DOMAIN map \cup {k} |-> IF x = k THEN v ELSE map[x]]
     /\ reply' = <<"set", TRUE>>
  \/ /\ map' = map
     /\ reply' = <<"set", FALSE>>

Remove(k) ==
  /\ map' = [x \in DOMAIN map \ {k} |-> map[x]]
  /\ reply' = <<"remove", k \in DOMAIN map>>

Get(k) ==
  /\ reply' = <<"get", IF k \in DOMAIN map THEN map[k] ELSE NoValue>>
  /\ UNCHANGED map

Destroy ==
  /\ map' = [k \in {} |-> NoValue]
  /\ reply' = <<"destroy", NoValue>>

Next ==
  \/ \E k \in Keys, v \in Values : Set(k, v)
  \/ \E k \in Keys : Remove(k) \/ Get(k)
  \/ Destroy

Spec == Init /\ [][Next]_vars
==============================================================================
