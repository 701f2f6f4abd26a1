----------------------------- MODULE NvramRequest -----------------------------
(***************************************************************************)
(* What an invocation of nvram is asked to do (main.c): the operations of  *)
(* its arguments, the checks main makes before it touches anything, and    *)
(* what the operations do to a list.  A list is taken as the map that      *)
(* LibnvramList implements, with NULL for a key that is not there.         *)
(***************************************************************************)
EXTENDS Integers, Sequences

CONSTANTS
  Keys,        \* the keys
  SystemKeys,  \* those that start with NVRAM_SYSTEM_PREFIX
  Values,      \* the values
  NULL         \* the null pointer: no key, no value, no such variable

ASSUME SystemKeysAssumption == SystemKeys \subseteq Keys

ASSUME NullAssumption == NULL \notin Keys \cup Values

(* struct operation *)
Operation ==
  [op : {"list", "set", "get", "del"}, key : Keys \cup {NULL}, value : Values \cup {NULL}]

ReadOps == {"list", "get"}

WriteOps == {"set", "del"}

(* The environment variable NVRAM_SYSTEM_UNLOCK: not there, 16440, 16440   *)
(* between double quotes, or another string.                               *)
UnlockEnv == {"unset", "magic", "quoted", "other"}

(* struct opts, and the environment it is checked against; there is an     *)
(* operation always, OP_LIST when the arguments have none.                 *)
Request == [sys : BOOLEAN, ops : Seq(Operation) \ {<<>>}, unlock : UnlockEnv]

(* NVRAM_SYSTEM_UNLOCK_MAGIC is a literal that xstr puts in quotes once    *)
(* more, and strcmp is not 0 for every value that differs from that.       *)
SystemUnlocked(request) == request.unlock \notin {"unset", "quoted"}

(*-------------------------------------------------------------------------*)
(* The checks.                                                             *)
(*-------------------------------------------------------------------------*)

(* Without the prefix rule. *)
OperationErrorNoPrefix(request, operation) ==
  IF operation.op \in WriteOps /\ request.sys /\ ~SystemUnlocked(request)
    THEN "EACCES" ELSE "ok"

OperationError(request, operation) ==
  LET prefixed == operation.key \in SystemKeys
      locked   == request.sys /\ ~SystemUnlocked(request)
  IN  IF operation.op = "set" /\ prefixed # request.sys THEN "EINVAL"
      ELSE IF operation.op \in WriteOps /\ locked THEN "EACCES"
      ELSE "ok"

Kind(request, kind) == {i \in DOMAIN request.ops : request.ops[i].op \in kind}

(* Without the check of mixed operations. *)
RequestErrorMixed(request) ==
  LET wrong == {i \in DOMAIN request.ops : OperationError(request, request.ops[i]) # "ok"}
  IN  IF wrong # {}
        THEN OperationError(request, request.ops[CHOOSE i \in wrong : \A j \in wrong : i <= j])
        ELSE IF \E i, j \in Kind(request, ReadOps) : i # j THEN "EINVAL"
        ELSE "ok"

(* The first operation that is wrong, then what the operations are         *)
(* together.                                                               *)
RequestError(request) ==
  LET wrong  == {i \in DOMAIN request.ops : OperationError(request, request.ops[i]) # "ok"}
      reads  == Kind(request, ReadOps)
      writes == Kind(request, WriteOps)
  IN  IF wrong # {}
        THEN OperationError(request, request.ops[CHOOSE i \in wrong : \A j \in wrong : i <= j])
        ELSE IF reads # {} /\ writes # {} THEN "EINVAL"
        ELSE IF \E i, j \in reads : i # j THEN "EINVAL"
        ELSE "ok"

(*-------------------------------------------------------------------------*)
(* The operations.                                                         *)
(*-------------------------------------------------------------------------*)

Stores == {"system", "user"}

Map == [Keys -> Values \cup {NULL}]

(* The prefix of its keys tells which store a list is of. *)
Belongs(map, store) ==
  \A key \in Keys : map[key] # NULL => (key \in SystemKeys <=> store = "system")

(* add_list_entry, libnvram_list_remove *)
Apply(map, operation) ==
  [map EXCEPT ![operation.key] = IF operation.op = "set" THEN operation.value ELSE NULL]

(* The list after the first n operations. *)
After(map, ops) ==
  LET after[n \in 0 .. Len(ops)] ==
        IF n = 0 THEN map ELSE Apply(after[n - 1], ops[n])
  IN  after

ApplyAll(map, ops) == After(map, ops)[Len(ops)]

(* Looks at the end only. *)
WritePerformedLast(map, ops) ==
  After(map, ops)[Len(ops)] # After(map, ops)[Len(ops) - 1]

(* write_performed: some operation found something to change. *)
WritePerformed(map, ops) ==
  \E n \in DOMAIN ops : After(map, ops)[n] # After(map, ops)[n - 1]

(* The store an invocation writes. *)
Target(request) == IF request.sys THEN "system" ELSE "user"

(* The stores an invocation reads. *)
Visible(request) == IF request.sys THEN {"system"} ELSE Stores

(* What --list and --get can print: --list leaves out an entry that        *)
(* print_entry has no memory for, and --get then tries the next store; it  *)
(* prints one entry or fails.                                              *)
Answers(stores, request) ==
  LET nothing == [s \in Stores |-> [key \in Keys |-> NULL]]
      key     == request.ops[1].key
  IN  IF request.ops[1].op = "get"
        THEN {[nothing EXCEPT ![s][key] = stores[s][key]] :
                s \in {t \in Visible(request) : stores[t][key] # NULL}}
        ELSE {[s \in Stores |-> [k \in Keys |->
                 IF <<s, k>> \in shown THEN stores[s][k] ELSE NULL]] :
                shown \in SUBSET (Visible(request) \X Keys)}
===============================================================================
