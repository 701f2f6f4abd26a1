------------------------------ MODULE MCNvramCli ------------------------------
(* A small instance of NvramCli for TLC: two invocations, one key of the   *)
(* system and two of the user, and requests of every kind.                 *)
EXTENDS NvramCli, TLC

CONSTANTS p1, p2, i1, i2, sysKey, key1, key2, v1, v2

TwoProcs == {p1, p2}

TwoInodes == {i1, i2}

AllKeys == {sysKey, key1, key2}

TheSystemKeys == {sysKey}

TwoValues == {v1, v2}

SetOp(key, value) == [op |-> "set", key |-> key, value |-> value]

DelOp(key) == [op |-> "del", key |-> key, value |-> NULL]

GetOp(key) == [op |-> "get", key |-> key, value |-> NULL]

ListOp == [op |-> "list", key |-> NULL, value |-> NULL]

User(ops) == [sys |-> FALSE, ops |-> ops, unlock |-> "unset"]

System(ops, unlock) == [sys |-> TRUE, ops |-> ops, unlock |-> unlock]

(* One of each kind: two operations on two keys, or two on one key, that   *)
(* undo one another or not; keys of the other store; the lock.             *)
MixedRequests == {
  User(<<SetOp(key1, v1), SetOp(key2, v2)>>),
  User(<<SetOp(key1, v2), DelOp(key1)>>),
  User(<<DelOp(sysKey), SetOp(key2, v1)>>),
  User(<<SetOp(key1, v1), SetOp(sysKey, v1)>>),
  User(<<SetOp(key1, v1), GetOp(key1)>>),
  User(<<GetOp(sysKey)>>),
  User(<<GetOp(key1)>>),
  System(<<ListOp>>, "unset"),
  System(<<SetOp(sysKey, v2), DelOp(key1)>>, "magic"),
  System(<<DelOp(sysKey)>>, "quoted")}

(* The invocations are interchangeable, and so are the inodes. *)
Symmetry == Permutations(TwoProcs) \cup Permutations(TwoInodes)
===============================================================================
