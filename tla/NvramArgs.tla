------------------------------ MODULE NvramArgs ------------------------------
(***************************************************************************)
(* How main of main.c turns its arguments into a request: the loop over    *)
(* argv, with options whose own arguments it steps over, and the checks    *)
(* that follow it.  Any string can be a key or a value, "--get" too.       *)
(***************************************************************************)
EXTENDS NvramRequest

CONSTANTS
  MaxOp,   \* MAX_OP, 10 in the code
  MaxArgs  \* bound on the arguments, argc - 1

Options == {"--set", "--get", "--del", "--list", "--sys", "-h", "--help"}

ASSUME StringsAssumption == Options \subseteq Keys /\ Values = Keys

ASSUME BoundsAssumption == MaxOp \in Nat \ {0} /\ MaxArgs \in Nat

VARIABLES
  argv,  \* argv[1] and on
  i,     \* the loop's counter
  opts,  \* what the arguments ask for, and the environment
  exit   \* "none", or how main leaves its checks: "ok" goes on to the lock

vars == <<argv, i, opts, exit>>

argc == Len(argv) + 1

(* argv[argc] is a null pointer. *)
Arg(n) == IF n < argc THEN argv[n] ELSE NULL

Init ==
  /\ argv \in UNION {[1 .. n -> Keys] : n \in 0 .. MaxArgs}
  /\ i = 1
  /\ opts \in [sys : {FALSE}, ops : {<<>>}, unlock : UnlockEnv]
  /\ exit = "none"

Parsing(option) == exit = "none" /\ i < argc /\ argv[i] = option

Return(code) == exit' = code /\ UNCHANGED <<argv, i, opts>>

Full == Len(opts.ops) >= MaxOp

Append1(operation) == opts' = [opts EXCEPT !.ops = Append(@, operation)]

(* Takes the first argument of --set for its last. *)
ParseSetShort ==
  /\ Parsing("--set")
  /\ IF i + 1 >= argc \/ Full
       THEN Return("EINVAL")
       ELSE /\ Append1([op |-> "set", key |-> Arg(i + 1), value |-> Arg(i + 2)])
            /\ i' = i + 3
            /\ UNCHANGED <<argv, exit>>

ParseSet ==
  /\ Parsing("--set")
  /\ IF i + 2 >= argc \/ Full
       THEN Return("EINVAL")
       ELSE /\ Append1([op |-> "set", key |-> Arg(i + 1), value |-> Arg(i + 2)])
            /\ i' = i + 3
            /\ UNCHANGED <<argv, exit>>

(* Leaves the key to be parsed as the next option. *)
ParseKeyStays(option, op) ==
  /\ Parsing(option)
  /\ IF i + 1 >= argc \/ Full
       THEN Return("EINVAL")
       ELSE /\ Append1([op |-> op, key |-> Arg(i + 1), value |-> NULL])
            /\ i' = i + 1
            /\ UNCHANGED <<argv, exit>>

(* --get and --del *)
ParseKey(option, op) ==
  /\ Parsing(option)
  /\ IF i + 1 >= argc \/ Full
       THEN Return("EINVAL")
       ELSE /\ Append1([op |-> op, key |-> Arg(i + 1), value |-> NULL])
            /\ i' = i + 2
            /\ UNCHANGED <<argv, exit>>

ParseList ==
  /\ Parsing("--list")
  /\ IF Full
       THEN Return("EINVAL")
       ELSE /\ Append1([op |-> "list", key |-> NULL, value |-> NULL])
            /\ i' = i + 1
            /\ UNCHANGED <<argv, exit>>

ParseSys ==
  /\ Parsing("--sys")
  /\ opts' = [opts EXCEPT !.sys = TRUE]
  /\ i' = i + 1
  /\ UNCHANGED <<argv, exit>>

(* The usage, and an argument that is no option. *)
ParseOther ==
  /\ \/ Parsing("-h") \/ Parsing("--help")
     \/ exit = "none" /\ i < argc /\ argv[i] \notin Options
  /\ Return("1")

(* After the loop: OP_LIST when nothing is asked for, and the checks. *)
Check ==
  /\ exit = "none"
  /\ i >= argc
  /\ LET list == [op |-> "list", key |-> NULL, value |-> NULL]
     IN  opts' = [opts EXCEPT !.ops = IF @ = <<>> THEN <<list>> ELSE @]
  /\ exit' = RequestError(opts')
  /\ UNCHANGED <<argv, i>>

Next ==
  \/ ParseSet
  \/ ParseKey("--get", "get")
  \/ ParseKey("--del", "del")
  \/ ParseList
  \/ ParseSys
  \/ ParseOther
  \/ Check

Spec == Init /\ [][Next]_vars

-------------------------------------------------------------------------------

(* Every variable keeps its type: the array of operations never overflows, *)
(* and no operation holds the null pointer that ends argv, which main      *)
(* would pass to strlen.                                                   *)
TypeOK ==
  /\ i \in 1 .. argc
  /\ exit \in {"none", "ok", "1", "EINVAL", "EACCES"}
  /\ Len(opts.ops) \in 0 .. MaxOp
  /\ \A n \in DOMAIN opts.ops :
       /\ opts.ops[n] \in Operation
       /\ (opts.ops[n].key = NULL) <=> (opts.ops[n].op = "list")
       /\ (opts.ops[n].value = NULL) <=> (opts.ops[n].op # "set")

(* What an operation looks like on the command line. *)
Spelled(operation) ==
  CASE operation.op = "list" -> <<"--list">>
    [] operation.op = "set"  -> <<"--set", operation.key, operation.value>>
    [] operation.op = "get"  -> <<"--get", operation.key>>
    [] operation.op = "del"  -> <<"--del", operation.key>>

(* The arguments that operation n is read from, its option at at[n]. *)
Place(at, n) == at[n] .. at[n] + Len(Spelled(opts.ops[n])) - 1

(* at says where each operation was read, in their order and apart.        *)
ReadAt(at) ==
  /\ \A n \in DOMAIN opts.ops :
       /\ at[n] + Len(Spelled(opts.ops[n])) <= i
       /\ \A k \in DOMAIN Spelled(opts.ops[n]) :
            argv[at[n] + k - 1] = Spelled(opts.ops[n])[k]
  /\ \A m, n \in DOMAIN opts.ops :
       m < n => at[m] + Len(Spelled(opts.ops[m])) <= at[n]

(* The operations, spelled out in order, are exactly the arguments read so *)
(* far, but for some that are "--sys", and there are such exactly when the *)
(* system section is meant.                                                *)
Accounted ==
  \E at \in [DOMAIN opts.ops -> 1 .. i - 1] :
    LET others == (1 .. i - 1) \ UNION {Place(at, n) : n \in DOMAIN opts.ops}
    IN  /\ ReadAt(at)
        /\ \A p \in others : argv[p] = "--sys"
        /\ opts.sys <=> others # {}

(* At every turn of the loop no argument is dropped, read twice, or taken  *)
(* for an option when it is a key.                                         *)
ArgvAccounted == exit = "none" => Accounted

(* The --list of a command line that asks for no operation. *)
DefaultList ==
  /\ opts.ops = <<[op |-> "list", key |-> NULL, value |-> NULL]>>
  /\ \A p \in DOMAIN argv : argv[p] = "--sys"
  /\ opts.sys <=> argv # <<>>

(* A request that main accepts is the whole command line and nothing else, *)
(* but for the --list it adds to one without operations, and main performs *)
(* all of it: it looks at the first operation to decide whether it lists,  *)
(* gets or writes, and a read is all there is, while every operation of a  *)
(* write is a write.                                                       *)
NothingIgnored ==
  exit = "ok" =>
    /\ i = argc
    /\ Accounted \/ DefaultList
    /\ IF opts.ops[1].op \in ReadOps
         THEN Len(opts.ops) = 1
         ELSE \A n \in DOMAIN opts.ops : opts.ops[n].op \in WriteOps

(* The system store is written only with the magic in the environment.     *)
UnlockNeedsMagic ==
  exit = "ok" /\ opts.sys /\ opts.ops[1].op \in WriteOps => opts.unlock = "magic"
===============================================================================
