--------------------------- MODULE NvramArgsProofs ---------------------------
(***************************************************************************)
(* Proofs about NvramArgs, for any number of arguments, any MAX_OP and any *)
(* set of strings: the array of operations never overflows, every argument *)
(* is accounted for, and nothing of an accepted request is ignored.        *)
(***************************************************************************)
EXTENDS NvramArgs, SequenceTheorems, FiniteSetTheorems, TLAPS

(* Adds to the properties the sets that argv and opts belong to, and what  *)
(* a request that main goes on with has passed and is made of.             *)
ArgsInv ==
  /\ argv \in Seq(Keys)
  /\ opts \in [sys : BOOLEAN, ops : Seq(Operation), unlock : UnlockEnv]
  /\ TypeOK
  /\ ArgvAccounted
  /\ exit = "ok" => /\ opts.ops # <<>> /\ RequestError(opts) = "ok"
                    /\ i = argc
                    /\ Accounted \/ DefaultList

-------------------------------------------------------------------------------

(* The checks.  A set of positions that is not empty has a first one, by   *)
(* the induction over finite sets: the theorems on natural induction take  *)
(* an operator, and cannot be used.                                        *)
LEMMA FirstPosition ==
  ASSUME NEW N \in Nat, NEW S \in SUBSET (1 .. N), S # {}
  PROVE  \E first \in S : \A n \in S : first <= n
<1> DEFINE cuts == {1 .. b : b \in S}
           U    == 1 .. N
<1>1. IsWellFoundedOn(StrictSubsetOrdering(U), FiniteSubsetsOf(U))
  BY FS_StrictSubsetOrderingWellFounded
<1>2. cuts \subseteq FiniteSubsetsOf(U) /\ cuts # {}
  <2>1. ASSUME NEW b \in S PROVE 1 .. b \in FiniteSubsetsOf(U)
    <3>1. IsFiniteSet(1 .. b)
      BY FS_Interval
    <3>2. b \in 1 .. N
      OBVIOUS
    <3>3. 1 .. b \subseteq U
      BY <3>2
    <3>4. QED
      BY <3>1, <3>3 DEF FiniteSubsetsOf
  <2>2. QED
    BY <2>1
<1>3. PICK c \in cuts : \A d \in cuts : <<d, c>> \notin StrictSubsetOrdering(U)
  <2> HIDE DEF cuts, U
  <2>1. QED
    BY <1>1, <1>2, WFMin
<1>4. PICK b \in S : c = 1 .. b
  BY <1>3
<1>5. ASSUME NEW n \in S, n < b PROVE FALSE
  <2>1. n \in Nat /\ b \in Nat /\ b \in U
    OBVIOUS
  <2>2. 1 .. n \subseteq c /\ 1 .. n # c /\ c \subseteq U
    BY <1>4, <1>5, <2>1
  <2>3. <<1 .. n, c>> \in StrictSubsetOrdering(U)
    BY <2>2 DEF StrictSubsetOrdering
  <2>4. QED
    BY <1>3, <2>3
<1>6. \A n \in S : b <= n
  <2>1. \A n \in S : n \in Nat
    OBVIOUS
  <2>2. QED
    BY <1>5, <2>1
<1>7. QED
  BY <1>6

(* What main has checked of a request it goes on with. *)
LEMMA Accepted ==
  ASSUME NEW request, request.ops \in Seq(Operation), RequestError(request) = "ok"
  PROVE  /\ \A m \in DOMAIN request.ops : OperationError(request, request.ops[m]) = "ok"
         /\ \A m, n \in DOMAIN request.ops :
              request.ops[m].op \in ReadOps => m = n \/ request.ops[n].op \notin ReadOps \cup WriteOps
<1> DEFINE wrong == {m \in DOMAIN request.ops :
                       OperationError(request, request.ops[m]) # "ok"}
           first == CHOOSE m \in wrong : \A n \in wrong : m <= n
<1>1. wrong = {}
  <2> SUFFICES ASSUME wrong # {} PROVE FALSE
    OBVIOUS
  <2>1. Len(request.ops) \in Nat /\ wrong \in SUBSET (1 .. Len(request.ops))
    BY LenProperties
  <2>2. \E m \in wrong : \A n \in wrong : m <= n
    <3> HIDE DEF wrong
    <3>1. QED
      BY <2>1, FirstPosition
  <2>3. first \in wrong
    <3> HIDE DEF wrong
    <3>1. QED
      BY <2>2
  <2>4. RequestError(request) = OperationError(request, request.ops[first])
    BY DEF RequestError
  <2>5. QED
    BY <2>3, <2>4
<1>2. Kind(request, ReadOps) = {} \/ Kind(request, WriteOps) = {}
  BY <1>1 DEF RequestError
<1>3. \A m, n \in Kind(request, ReadOps) : m = n
  BY <1>1 DEF RequestError
<1>4. QED
  BY <1>1, <1>2, <1>3 DEF Kind

LEMMA CheckResult ==
  ASSUME NEW request
  PROVE  RequestError(request) \in {"ok", "EINVAL", "EACCES"}
BY DEF RequestError, OperationError

-------------------------------------------------------------------------------

(* The loop. *)

LEMMA SpelledLength ==
  ASSUME NEW operation \in Operation
  PROVE  /\ Len(Spelled(operation)) \in 1 .. 3
         /\ DOMAIN Spelled(operation) = 1 .. Len(Spelled(operation))
<1>1. operation.op \in {"list", "set", "get", "del"}
  BY DEF Operation
<1>2. CASE operation.op = "list"
  BY <1>2 DEF Spelled
<1>3. CASE operation.op = "set"
  BY <1>3 DEF Spelled
<1>4. CASE operation.op = "get"
  BY <1>4 DEF Spelled
<1>5. CASE operation.op = "del"
  BY <1>5 DEF Spelled
<1>6. QED
  BY <1>1, <1>2, <1>3, <1>4, <1>5

(* The types of the arguments of one operation. *)
LEMMA PlacesType ==
  ASSUME ArgsInv, NEW at \in [DOMAIN opts.ops -> 1 .. i - 1], NEW n \in DOMAIN opts.ops
  PROVE  /\ at[n] \in Nat
         /\ Len(Spelled(opts.ops[n])) \in 1 .. 3
         /\ DOMAIN Spelled(opts.ops[n]) = 1 .. Len(Spelled(opts.ops[n]))
         /\ i \in Nat
<1>1. opts.ops[n] \in Operation /\ i \in Nat
  BY ElementOfSeq DEF ArgsInv, TypeOK, argc
<1>2. at[n] \in Nat
  BY <1>1
<1>3. QED
  BY <1>1, <1>2, SpelledLength

(* A turn that appends an operation and steps over its arguments. *)
Reads(operation) ==
  /\ i' = i + Len(Spelled(operation))
  /\ \A k \in DOMAIN Spelled(operation) : argv[i + k - 1] = Spelled(operation)[k]
  /\ Append1(operation)
  /\ UNCHANGED <<argv, exit>>

LEMMA AccountsOperation ==
  ASSUME ArgsInv, exit = "none", NEW operation \in Operation, Reads(operation)
  PROVE  ArgvAccounted'
<1> DEFINE ops == opts.ops
<1>c. PICK len \in Nat : len = Len(ops)
  BY LenProperties DEF ArgsInv
<1>1. /\ i \in Nat \ {0} /\ ops \in Seq(Operation)
      /\ len \in Nat /\ DOMAIN ops = 1 .. len
  BY <1>c, LenProperties DEF ArgsInv, TypeOK, argc
<1>2. Len(Spelled(operation)) \in 1 .. 3
  BY SpelledLength
<1>b. PICK next \in Nat : next = i' /\ next = i + Len(Spelled(operation)) /\ next \in i + 1 .. i + 3
  <2>1. i' = i + Len(Spelled(operation))
    BY DEF Reads
  <2>2. PICK l \in 1 .. 3 : l = Len(Spelled(operation))
    BY <1>2
  <2>3. i + l \in Nat /\ i + l \in i + 1 .. i + 3
    BY <1>1
  <2>4. QED
    BY <2>1, <2>2, <2>3
<1>3. /\ opts'.ops = Append(ops, operation) /\ opts'.sys = opts.sys
  BY DEF ArgsInv, Reads, Append1
<1>4. /\ DOMAIN opts'.ops = 1 .. len + 1
      /\ \A n \in 1 .. len : opts'.ops[n] = ops[n]
      /\ opts'.ops[len + 1] = operation
  BY <1>1, <1>c, <1>3, AppendProperties, LenProperties
<1>5. PICK at \in [DOMAIN ops -> 1 .. i - 1] :
        LET others == (1 .. i - 1) \ UNION {Place(at, n) : n \in DOMAIN ops}
        IN  /\ ReadAt(at)
            /\ \A p \in others : argv[p] = "--sys"
            /\ opts.sys <=> others # {}
  BY DEF ArgsInv, ArgvAccounted, Accounted
<1>a. PICK to : to = [n \in 1 .. len + 1 |-> IF n = len + 1 THEN i ELSE at[n]]
  OBVIOUS
<1> DEFINE others == (1 .. i - 1) \ UNION {Place(at, n) : n \in DOMAIN ops}
           othersTo == (1 .. i' - 1) \ UNION {Place(to, n)' : n \in DOMAIN opts'.ops}
<1>6. \A n \in 1 .. len : to[n] = at[n] /\ at[n] \in 1 .. i - 1
  BY <1>1, <1>a
<1>7. to[len + 1] = i
  BY <1>1, <1>a
<1>8. to \in [DOMAIN opts'.ops -> 1 .. i' - 1]
  <2>1. \A n \in 1 .. len + 1 : to[n] \in 1 .. i' - 1
    <3>1. ASSUME NEW n \in 1 .. len + 1 PROVE to[n] \in 1 .. i' - 1
      <4>1. i \in 1 .. next - 1 /\ \A p \in 1 .. i - 1 : p \in 1 .. next - 1
        BY <1>1, <1>b
      <4>2. n = len + 1 \/ n \in 1 .. len
        BY <1>1
      <4>3. QED
        BY <1>6, <1>7, <1>b, <4>1, <4>2
    <3>2. QED
      BY <3>1
  <2>2. QED
    BY <1>a, <1>4, <2>1
<1>9. \A n \in 1 .. len : /\ Len(Spelled(ops[n])) \in 1 .. 3
                          /\ DOMAIN Spelled(ops[n]) = 1 .. Len(Spelled(ops[n]))
                          /\ at[n] + Len(Spelled(ops[n])) <= i
  BY <1>1, <1>5, PlacesType DEF ReadAt
<1> HIDE DEF ops
<1>10. ReadAt(to)'
  <2>1. ASSUME NEW n \in DOMAIN opts'.ops
        PROVE  /\ to[n] + Len(Spelled(opts'.ops[n])) <= i'
               /\ \A k \in DOMAIN Spelled(opts'.ops[n]) :
                    argv'[to[n] + k - 1] = Spelled(opts'.ops[n])[k]
    <3>1. CASE n = len + 1
      <4>1. to[n] = i /\ opts'.ops[n] = operation
        BY <1>4, <1>7, <3>1
      <4>2. to[n] + Len(Spelled(opts'.ops[n])) <= i'
        BY <1>b, <4>1
      <4>3. QED
        BY <4>1, <4>2 DEF Reads
    <3>2. CASE n \in 1 .. len
      <4>1. /\ at[n] + Len(Spelled(ops[n])) <= i
            /\ \A k \in DOMAIN Spelled(ops[n]) : argv[at[n] + k - 1] = Spelled(ops[n])[k]
        BY <1>1, <1>5, <3>2 DEF ReadAt, ops
      <4>2. to[n] = at[n] /\ opts'.ops[n] = ops[n]
        BY <1>4, <1>6, <3>2
      <4>3. i \in Nat /\ at[n] + Len(Spelled(ops[n])) \in Nat
        BY <1>1, <1>2, <1>6, <1>9, <3>2
      <4>4. to[n] + Len(Spelled(opts'.ops[n])) <= i'
        BY <1>b, <4>1, <4>2, <4>3
      <4>5. QED
        BY <4>1, <4>2, <4>4 DEF Reads
    <3>3. QED
      BY <1>1, <1>4, <3>1, <3>2
  <2>2. ASSUME NEW m \in DOMAIN opts'.ops, NEW n \in DOMAIN opts'.ops, m < n
        PROVE  to[m] + Len(Spelled(opts'.ops[m])) <= to[n]
    <3>1. m \in 1 .. len
      BY <1>1, <1>4, <2>2
    <3>2. CASE n = len + 1
      BY <1>4, <1>6, <1>7, <1>9, <3>1, <3>2
    <3>3. CASE n \in 1 .. len
      <4>1. at[m] + Len(Spelled(ops[m])) <= at[n]
        BY <1>1, <1>5, <2>2, <3>1, <3>3 DEF ReadAt, ops
      <4>2. QED
        BY <1>4, <1>6, <3>1, <3>3, <4>1
    <3>4. QED
      BY <1>1, <1>4, <3>2, <3>3
  <2>3. QED
    BY <2>1, <2>2 DEF ReadAt
<1>11. othersTo = others
  <2>1. \A n \in 1 .. len : Place(to, n)' = Place(at, n)
    BY <1>4, <1>6 DEF Place, ops
  <2>2. ASSUME NEW n, n = len + 1 PROVE Place(to, n)' = i .. i' - 1
    <3>1. opts'.ops[n] = operation /\ to[n] = i
      BY <1>4, <1>7, <2>2
    <3>2. to[n] + Len(Spelled(opts'.ops[n])) - 1 = i' - 1
      BY <1>1, <1>2, <1>b, <3>1
    <3>3. QED
      BY <3>1, <3>2 DEF Place
  <2>3. UNION {Place(to, n)' : n \in DOMAIN opts'.ops} =
          (UNION {Place(at, n) : n \in DOMAIN ops}) \cup (i .. i' - 1)
    <3>1. DOMAIN opts'.ops = 1 .. len + 1 /\ DOMAIN ops = 1 .. len
      BY <1>1, <1>4 DEF ops
    <3>2. {Place(to, n)' : n \in 1 .. len + 1} =
            {Place(at, n) : n \in 1 .. len} \cup {i .. i' - 1}
      <4>1. 1 .. len + 1 = (1 .. len) \cup {len + 1}
        BY <1>1
      <4>2. QED
        BY <2>1, <2>2, <4>1
    <3>3. UNION {Place(to, n)' : n \in 1 .. len + 1} =
            UNION ({Place(at, n) : n \in 1 .. len} \cup {i .. i' - 1})
      BY <3>2
    <3>4. \A U, V : UNION (U \cup {V}) = (UNION U) \cup V
      OBVIOUS
    <3>5. QED
      BY <3>1, <3>3, <3>4
  <2>4. (1 .. i' - 1) \ (i .. i' - 1) = 1 .. i - 1
    BY <1>1, <1>b
  <2>5. QED
    BY <2>3, <2>4
<1>12. \A p \in others : argv[p] = "--sys"
  BY <1>5 DEF ops
<1>13. opts.sys <=> others # {}
  BY <1>5 DEF ops
<1> HIDE DEF others, othersTo
<1>14. (\A p \in othersTo : argv'[p] = "--sys") /\ (opts'.sys <=> othersTo # {})
  BY <1>3, <1>11, <1>12, <1>13 DEF Reads
<1>15. QED
  BY <1>8, <1>10, <1>14 DEF ArgvAccounted, Accounted, othersTo

(* A turn that reads --sys. *)
LEMMA AccountsSys ==
  ASSUME ArgsInv, ParseSys
  PROVE  ArgvAccounted'
<1>1. /\ exit = "none" /\ argv[i] = "--sys" /\ i' = i + 1
      /\ argv' = argv /\ opts'.ops = opts.ops /\ opts'.sys = TRUE
  BY DEF ArgsInv, ParseSys, Parsing
<1>2. i \in Nat \ {0}
  BY DEF ArgsInv, TypeOK, argc
<1>3. PICK at \in [DOMAIN opts.ops -> 1 .. i - 1] :
        LET others == (1 .. i - 1) \ UNION {Place(at, n) : n \in DOMAIN opts.ops}
        IN  /\ ReadAt(at)
            /\ \A p \in others : argv[p] = "--sys"
            /\ opts.sys <=> others # {}
  BY <1>1 DEF ArgsInv, ArgvAccounted, Accounted
<1> DEFINE places == UNION {Place(at, n) : n \in DOMAIN opts.ops}
<1>4. \A n \in DOMAIN opts.ops : i \notin Place(at, n)
  <2>1. ASSUME NEW n \in DOMAIN opts.ops PROVE i \notin Place(at, n)
    <3>1. /\ at[n] \in Nat
          /\ Len(Spelled(opts.ops[n])) \in 1 .. 3
          /\ at[n] + Len(Spelled(opts.ops[n])) <= i
      BY <1>3, PlacesType DEF ReadAt
    <3>2. QED
      BY <1>2, <3>1 DEF Place
  <2>2. QED
    BY <2>1
<1>5. i \notin places
  BY <1>4
<1>6. at \in [DOMAIN opts'.ops -> 1 .. i' - 1]
  <2>1. \A p \in 1 .. i - 1 : p \in 1 .. i' - 1
    BY <1>1, <1>2
  <2>2. QED
    BY <1>1, <2>1
<1>7. ReadAt(at)'
  <2>1. ASSUME NEW n \in DOMAIN opts.ops
        PROVE  at[n] + Len(Spelled(opts.ops[n])) <= i'
    <3>1. /\ at[n] \in Nat
          /\ Len(Spelled(opts.ops[n])) \in 1 .. 3
          /\ at[n] + Len(Spelled(opts.ops[n])) <= i
      BY <1>3, PlacesType DEF ReadAt
    <3>2. QED
      BY <1>1, <1>2, <3>1
  <2>2. ReadAt(at)
    BY <1>3
  <2>3. QED
    BY <1>1, <2>1, <2>2 DEF ReadAt
<1>8. UNION {Place(at, n)' : n \in DOMAIN opts'.ops} = places
  <2>1. \A n \in DOMAIN opts.ops : Place(at, n)' = Place(at, n)
    BY <1>1 DEF Place
  <2>2. QED
    BY <1>1, <2>1
<1>9. (1 .. i' - 1) \ places = ((1 .. i - 1) \ places) \cup {i}
  <2>1. 1 .. i' - 1 = (1 .. i - 1) \cup {i}
    BY <1>1, <1>2
  <2> HIDE DEF places
  <2>2. QED
    BY <1>5, <2>1
<1>10. \A p \in (1 .. i - 1) \ places : argv[p] = "--sys"
  BY <1>3
<1> HIDE DEF places
<1>11. \A p \in (1 .. i' - 1) \ places : argv'[p] = "--sys"
  BY <1>1, <1>9, <1>10
<1>12. opts'.sys <=> (1 .. i' - 1) \ places # {}
  BY <1>1, <1>9
<1>13. QED
  BY <1>6, <1>7, <1>8, <1>11, <1>12 DEF ArgvAccounted, Accounted

-------------------------------------------------------------------------------

(* A step that reads nothing. *)
LEMMA AccountedKept ==
  ASSUME Accounted, UNCHANGED <<argv, i>>, opts'.ops = opts.ops, opts'.sys = opts.sys
  PROVE  Accounted'
<1>1. argv' = argv /\ i' = i
  OBVIOUS
<1>2. \A at, n : Place(at, n)' = Place(at, n)
  BY <1>1 DEF Place
<1>3. \A at : ReadAt(at)' <=> ReadAt(at)
  BY <1>1 DEF ReadAt
<1>4. ASSUME NEW at
      PROVE  UNION {Place(at, n)' : n \in DOMAIN opts'.ops}
               = UNION {Place(at, n) : n \in DOMAIN opts.ops}
  BY <1>1, <1>2
<1>5. PICK at \in [DOMAIN opts.ops -> 1 .. i - 1] :
        LET others == (1 .. i - 1) \ UNION {Place(at, n) : n \in DOMAIN opts.ops}
        IN  /\ ReadAt(at)
            /\ \A p \in others : argv[p] = "--sys"
            /\ opts.sys <=> others # {}
  BY DEF Accounted
<1>6. ReadAt(at)' /\ at \in [DOMAIN opts'.ops -> 1 .. i' - 1]
  BY <1>1, <1>3, <1>5
<1>7. (1 .. i' - 1) \ UNION {Place(at, n)' : n \in DOMAIN opts'.ops}
        = (1 .. i - 1) \ UNION {Place(at, n) : n \in DOMAIN opts.ops}
  BY <1>1, <1>4
<1>8. QED
  BY <1>1, <1>5, <1>6, <1>7 DEF Accounted

(* Of a command line without operations everything is "--sys". *)
LEMMA NoOperations ==
  ASSUME ArgsInv, exit = "none", i = argc, opts.ops = <<>>
  PROVE  /\ \A p \in DOMAIN argv : argv[p] = "--sys"
         /\ opts.sys <=> argv # <<>>
<1>1. PICK at \in [DOMAIN opts.ops -> 1 .. i - 1] :
        LET others == (1 .. i - 1) \ UNION {Place(at, n) : n \in DOMAIN opts.ops}
        IN  /\ \A p \in others : argv[p] = "--sys"
            /\ opts.sys <=> others # {}
  BY DEF ArgsInv, ArgvAccounted, Accounted
<1>2. DOMAIN opts.ops = {}
  OBVIOUS
<1>3. (1 .. i - 1) \ UNION {Place(at, n) : n \in DOMAIN opts.ops} = 1 .. i - 1
  BY <1>2
<1>4. Len(argv) \in Nat /\ DOMAIN argv = 1 .. Len(argv) /\ i - 1 = Len(argv)
  BY LenProperties DEF ArgsInv, argc
<1>5. argv # <<>> <=> 1 .. Len(argv) # {}
  <2>1. argv = <<>> <=> Len(argv) = 0
    BY EmptySeq, LenProperties DEF ArgsInv
  <2>2. Len(argv) = 0 <=> 1 .. Len(argv) = {}
    BY <1>4
  <2>3. QED
    BY <2>1, <2>2
<1>6. QED
  BY <1>1, <1>3, <1>4, <1>5

(* What a step keeps, with the operations and the answer it leaves. *)
Types ==
  /\ argv \in Seq(Keys)
  /\ opts \in [sys : BOOLEAN, ops : Seq(Operation), unlock : UnlockEnv]
  /\ TypeOK

LEMMA ArgumentType ==
  ASSUME Types, i < argc, NEW k \in Nat, i + k < argc
  PROVE  /\ Arg(i + k) = argv[i + k]
         /\ Arg(i + k) \in Keys \ {NULL}
         /\ Arg(i + k) \in Values
<1>1. Len(argv) \in Nat /\ i \in Nat \ {0} /\ i + k \in 1 .. Len(argv)
  BY LenProperties DEF Types, TypeOK, argc
<1>2. argv[i + k] \in Keys
  BY <1>1, ElementOfSeq DEF Types
<1>3. QED
  BY <1>1, <1>2, StringsAssumption, NullAssumption DEF Arg

(* A turn that appends an operation. *)
LEMMA OperationTypes ==
  ASSUME ArgsInv, exit = "none", ~Full, NEW operation \in Operation, Reads(operation),
         i + Len(Spelled(operation)) <= argc,
         (operation.key = NULL) <=> (operation.op = "list"),
         (operation.value = NULL) <=> (operation.op # "set")
  PROVE  ArgsInv'
<1>1. Types /\ exit' = "none" /\ argv' = argv
  BY DEF ArgsInv, Types, Reads
<1>2. /\ opts' = [opts EXCEPT !.ops = Append(opts.ops, operation)]
      /\ opts.ops \in Seq(Operation)
  BY DEF ArgsInv, Reads, Append1
<1>3. opts' \in [sys : BOOLEAN, ops : Seq(Operation), unlock : UnlockEnv]
  BY <1>1, <1>2, AppendProperties DEF Types
<1>4. /\ opts'.ops = Append(opts.ops, operation)
      /\ Len(opts'.ops) = Len(opts.ops) + 1
      /\ Len(opts.ops) \in 0 .. MaxOp
      /\ DOMAIN opts'.ops = 1 .. Len(opts.ops) + 1
      /\ DOMAIN opts.ops = 1 .. Len(opts.ops)
      /\ \A n \in 1 .. Len(opts.ops) : opts'.ops[n] = opts.ops[n]
      /\ opts'.ops[Len(opts.ops) + 1] = operation
  BY <1>1, <1>2, AppendProperties, LenProperties DEF Types, TypeOK
<1>5. Len(opts'.ops) \in 0 .. MaxOp
  BY <1>4, BoundsAssumption DEF Full
<1>6. i' \in 1 .. argc'
  <2>1. i' = i + Len(Spelled(operation)) /\ Len(Spelled(operation)) \in 1 .. 3
    BY SpelledLength DEF Reads
  <2>2. i \in Nat \ {0} /\ Len(argv) \in Nat
    BY <1>1, LenProperties DEF Types, TypeOK, argc
  <2>3. QED
    BY <1>1, <2>1, <2>2 DEF argc
<1>7. ASSUME NEW n \in DOMAIN opts'.ops
      PROVE  /\ opts'.ops[n] \in Operation
             /\ (opts'.ops[n].key = NULL) <=> (opts'.ops[n].op = "list")
             /\ (opts'.ops[n].value = NULL) <=> (opts'.ops[n].op # "set")
  <2>1. CASE n = Len(opts.ops) + 1
    BY <1>4, <2>1
  <2>2. CASE n \in 1 .. Len(opts.ops)
    <3>1. opts'.ops[n] = opts.ops[n] /\ n \in DOMAIN opts.ops
      BY <1>4, <2>2
    <3>2. QED
      BY <1>1, <3>1 DEF Types, TypeOK
  <2>3. QED
    BY <1>4, <2>1, <2>2
<1>8. TypeOK'
  BY <1>1, <1>5, <1>6, <1>7 DEF TypeOK
<1>9. ArgvAccounted'
  BY AccountsOperation
<1>10. QED
  BY <1>1, <1>3, <1>8, <1>9 DEF ArgsInv, Types

(* A turn that leaves with an error. *)
LEMMA ReturnInv ==
  ASSUME ArgsInv, NEW code \in {"1", "EINVAL"}, Return(code)
  PROVE  ArgsInv'
BY DEF ArgsInv, Return, TypeOK, ArgvAccounted, argc

LEMMA CheckInv ==
  ASSUME ArgsInv, Check
  PROVE  ArgsInv'
<1> DEFINE list == [op |-> "list", key |-> NULL, value |-> NULL]
<1>1. /\ argv' = argv /\ i' = i /\ exit' = RequestError(opts')
      /\ opts' = [opts EXCEPT !.ops = IF opts.ops = <<>> THEN <<list>> ELSE opts.ops]
  BY DEF Check
<1>2. exit' \in {"ok", "EINVAL", "EACCES"}
  BY <1>1, CheckResult
<1>3. list \in Operation
  BY DEF Operation
<1>4. <<list>> \in Seq(Operation) /\ Len(<<list>>) = 1 /\ <<list>>[1] = list
  BY <1>3
<1>5. opts' \in [sys : BOOLEAN, ops : Seq(Operation), unlock : UnlockEnv]
  BY <1>1, <1>4 DEF ArgsInv
<1>6. opts'.ops = IF opts.ops = <<>> THEN <<list>> ELSE opts.ops
  BY <1>1 DEF ArgsInv
<1>7. opts'.ops # <<>>
  BY <1>4, <1>6
<1>8. TypeOK'
  <2>1. CASE opts.ops = <<>>
    <3>1. opts'.ops = <<list>>
      BY <1>6, <2>1
    <3>2. DOMAIN <<list>> = {1}
      OBVIOUS
    <3>3. Len(opts'.ops) \in 0 .. MaxOp
      BY <1>4, <3>1, BoundsAssumption
    <3>4. \A n \in DOMAIN opts'.ops : opts'.ops[n] = list
      BY <1>4, <3>1, <3>2
    <3>5. QED
      BY <1>1, <1>2, <1>3, <3>3, <3>4 DEF ArgsInv, TypeOK, argc
  <2>2. CASE opts.ops # <<>>
    <3>1. opts'.ops = opts.ops
      BY <1>6, <2>2
    <3>2. QED
      BY <1>1, <1>2, <3>1 DEF ArgsInv, TypeOK, argc
  <2>3. QED
    BY <2>1, <2>2
<1>9. exit = "none" /\ i = argc /\ i' = argc'
  <2>1. i >= argc /\ i \in 1 .. argc /\ exit = "none"
    BY DEF Check, ArgsInv, TypeOK
  <2>2. argc \in Int
    BY LenProperties DEF ArgsInv, argc
  <2>3. QED
    BY <1>1, <2>1, <2>2 DEF argc
<1>10. Accounted' \/ DefaultList'
  <2>1. opts'.sys = opts.sys
    BY <1>1 DEF ArgsInv
  <2>2. CASE opts.ops = <<>>
    BY <1>1, <1>6, <1>9, <2>1, <2>2, NoOperations DEF DefaultList
  <2>3. CASE opts.ops # <<>>
    BY <1>1, <1>6, <1>9, <2>1, <2>3, AccountedKept DEF ArgsInv, ArgvAccounted
  <2>4. QED
    BY <2>2, <2>3
<1>11. QED
  BY <1>1, <1>2, <1>5, <1>7, <1>8, <1>9, <1>10 DEF ArgsInv, ArgvAccounted

LEMMA ArgsInvInit == Init => ArgsInv
<1> SUFFICES ASSUME Init PROVE ArgsInv
  OBVIOUS
<1>1. PICK len \in 0 .. MaxArgs : argv \in [1 .. len -> Keys]
  BY DEF Init
<1>2. argv \in Seq(Keys) /\ Len(argv) \in Nat
  BY <1>1, BoundsAssumption
<1>3. opts \in [sys : {FALSE}, ops : {<<>>}, unlock : UnlockEnv]
  BY DEF Init
<1>4. opts \in [sys : BOOLEAN, ops : Seq(Operation), unlock : UnlockEnv]
  <2>1. <<>> \in Seq(Operation)
    BY EmptySeq
  <2>2. QED
    BY <1>3, <2>1
<1>5. opts.ops = <<>> /\ ~opts.sys /\ DOMAIN opts.ops = {} /\ Len(opts.ops) = 0
  <2>1. opts.ops = <<>>
    BY <1>3
  <2>2. opts.sys \in {FALSE}
    BY <1>3
  <2>3. Len(<<>>) = 0 /\ DOMAIN <<>> = {}
    OBVIOUS
  <2>4. QED
    BY <2>1, <2>2, <2>3
<1>6. i = 1 /\ exit = "none"
  BY DEF Init
<1>7. TypeOK
  BY <1>2, <1>5, <1>6, BoundsAssumption DEF TypeOK, argc
<1>8. ArgvAccounted
  <2> DEFINE at == [n \in {} |-> 1]
  <2>1. at \in [DOMAIN opts.ops -> 1 .. i - 1]
    BY <1>5
  <2>2. ReadAt(at)
    BY <1>5 DEF ReadAt
  <2>3. (1 .. i - 1) = {}
    BY <1>6
  <2>4. QED
    BY <1>5, <2>1, <2>2, <2>3 DEF ArgvAccounted, Accounted
<1>9. QED
  BY <1>2, <1>4, <1>6, <1>7, <1>8 DEF ArgsInv

LEMMA ParseSetInv ==
  ASSUME ArgsInv, ParseSet
  PROVE  ArgsInv'
<1>1. Types /\ exit = "none" /\ i < argc /\ argv[i] = "--set"
  BY DEF ArgsInv, Types, ParseSet, Parsing
<1>2. CASE i + 2 >= argc \/ Full
  BY <1>2, ReturnInv DEF ParseSet
<1>3. CASE ~(i + 2 >= argc \/ Full)
  <2> DEFINE operation == [op |-> "set", key |-> Arg(i + 1), value |-> Arg(i + 2)]
  <2>1. i \in Nat \ {0} /\ argc \in Nat /\ i + 1 < argc /\ i + 2 < argc
    BY <1>1, <1>3, LenProperties DEF Types, TypeOK, argc
  <2>2. /\ Arg(i + 1) = argv[i + 1] /\ Arg(i + 2) = argv[i + 2]
        /\ Arg(i + 1) \in Keys \ {NULL}
        /\ Arg(i + 2) \in Values \ {NULL}
    BY <1>1, <2>1, ArgumentType
  <2>3. operation \in Operation /\ operation.key # NULL /\ operation.value # NULL
    BY <2>2 DEF Operation
  <2>4. Spelled(operation) = <<"--set", Arg(i + 1), Arg(i + 2)>>
    BY DEF Spelled
  <2>5. \A k \in 1 .. 3 : argv[i + k - 1] = <<"--set", Arg(i + 1), Arg(i + 2)>>[k]
    <3>1. i + 1 - 1 = i /\ i + 2 - 1 = i + 1 /\ i + 3 - 1 = i + 2
      BY <2>1
    <3>2. QED
      BY <1>1, <2>2, <3>1
  <2>6. i' = i + 3 /\ Append1(operation) /\ UNCHANGED <<argv, exit>>
    BY <1>3 DEF ParseSet
  <2>7. operation.op = "set"
    OBVIOUS
  <2> HIDE DEF operation
  <2>8. Reads(operation)
    BY <2>4, <2>5, <2>6 DEF Reads
  <2>9. i + Len(Spelled(operation)) <= argc
    BY <2>1, <2>4
  <2>10. QED
    BY <1>1, <1>3, <2>3, <2>7, <2>8, <2>9, OperationTypes
<1>4. QED
  BY <1>2, <1>3

LEMMA ParseKeyInv ==
  ASSUME ArgsInv,
         NEW option, NEW op,
         <<option, op>> \in {<<"--get", "get">>, <<"--del", "del">>},
         ParseKey(option, op)
  PROVE  ArgsInv'
<1>1. Types /\ exit = "none" /\ i < argc /\ argv[i] = option
  BY DEF ArgsInv, Types, ParseKey, Parsing
<1>2. CASE i + 1 >= argc \/ Full
  BY <1>2, ReturnInv DEF ParseKey
<1>3. CASE ~(i + 1 >= argc \/ Full)
  <2> DEFINE operation == [op |-> op, key |-> Arg(i + 1), value |-> NULL]
  <2>1. i \in Nat \ {0} /\ argc \in Nat /\ i + 1 < argc
    BY <1>1, <1>3, LenProperties DEF Types, TypeOK, argc
  <2>2. Arg(i + 1) = argv[i + 1] /\ Arg(i + 1) \in Keys \ {NULL}
    BY <1>1, <2>1, ArgumentType
  <2>3. operation \in Operation /\ operation.key # NULL /\ operation.value = NULL
    BY <2>2 DEF Operation
  <2>4. Spelled(operation) = <<option, Arg(i + 1)>>
    BY DEF Spelled
  <2>5. \A k \in 1 .. 2 : argv[i + k - 1] = <<option, Arg(i + 1)>>[k]
    <3>1. i + 1 - 1 = i /\ i + 2 - 1 = i + 1
      BY <2>1
    <3>2. QED
      BY <1>1, <2>2, <3>1
  <2>6. i' = i + 2 /\ Append1(operation) /\ UNCHANGED <<argv, exit>>
    BY <1>3 DEF ParseKey
  <2>7. operation.op \in {"get", "del"}
    OBVIOUS
  <2> HIDE DEF operation
  <2>8. Reads(operation)
    BY <2>4, <2>5, <2>6 DEF Reads
  <2>9. i + Len(Spelled(operation)) <= argc
    BY <2>1, <2>4
  <2>10. QED
    BY <1>1, <1>3, <2>3, <2>7, <2>8, <2>9, OperationTypes
<1>4. QED
  BY <1>2, <1>3

LEMMA ParseListInv ==
  ASSUME ArgsInv, ParseList
  PROVE  ArgsInv'
<1>1. Types /\ exit = "none" /\ i < argc /\ argv[i] = "--list"
  BY DEF ArgsInv, Types, ParseList, Parsing
<1>2. CASE Full
  BY <1>2, ReturnInv DEF ParseList
<1>3. CASE ~Full
  <2> DEFINE operation == [op |-> "list", key |-> NULL, value |-> NULL]
  <2>1. i \in Nat \ {0} /\ argc \in Nat
    BY <1>1, LenProperties DEF Types, TypeOK, argc
  <2>2. operation \in Operation /\ operation.key = NULL /\ operation.value = NULL
    BY DEF Operation
  <2>3. Spelled(operation) = <<"--list">>
    BY DEF Spelled
  <2>4. \A k \in 1 .. 1 : argv[i + k - 1] = <<"--list">>[k]
    BY <1>1, <2>1
  <2>5. i' = i + 1 /\ Append1(operation) /\ UNCHANGED <<argv, exit>>
    BY <1>3 DEF ParseList
  <2>6. operation.op = "list"
    OBVIOUS
  <2> HIDE DEF operation
  <2>7. Reads(operation)
    BY <2>3, <2>4, <2>5 DEF Reads
  <2>8. i + Len(Spelled(operation)) <= argc
    BY <1>1, <2>1, <2>3
  <2>9. QED
    BY <1>1, <1>3, <2>2, <2>6, <2>7, <2>8, OperationTypes
<1>4. QED
  BY <1>2, <1>3

LEMMA ParseSysInv ==
  ASSUME ArgsInv, ParseSys
  PROVE  ArgsInv'
<1>1. /\ exit = "none" /\ i < argc /\ i' = i + 1 /\ UNCHANGED <<argv, exit>>
      /\ opts' = [opts EXCEPT !.sys = TRUE]
  BY DEF ParseSys, Parsing
<1>2. opts' \in [sys : BOOLEAN, ops : Seq(Operation), unlock : UnlockEnv] /\ opts'.ops = opts.ops
  BY <1>1 DEF ArgsInv
<1>3. i \in Nat \ {0} /\ Len(argv) \in Nat
  BY LenProperties DEF ArgsInv, TypeOK, argc
<1>4. i' \in 1 .. argc'
  BY <1>1, <1>3 DEF argc
<1>5. TypeOK'
  BY <1>1, <1>2, <1>4 DEF ArgsInv, TypeOK
<1>6. QED
  BY <1>1, <1>2, <1>5, AccountsSys DEF ArgsInv

LEMMA ArgsInvNext == ArgsInv /\ [Next]_vars => ArgsInv'
<1> SUFFICES ASSUME ArgsInv, [Next]_vars PROVE ArgsInv'
  OBVIOUS
<1>1. CASE ParseSet
  BY <1>1, ParseSetInv
<1>2. CASE ParseKey("--get", "get") \/ ParseKey("--del", "del")
  BY <1>2, ParseKeyInv
<1>3. CASE ParseList
  BY <1>3, ParseListInv
<1>4. CASE ParseSys
  BY <1>4, ParseSysInv
<1>5. CASE ParseOther
  BY <1>5, ReturnInv DEF ParseOther
<1>6. CASE Check
  BY <1>6, CheckInv
<1>7. CASE UNCHANGED vars
  <2>1. argv' = argv /\ i' = i /\ opts' = opts /\ exit' = exit
    BY <1>7 DEF vars
  <2>2. TypeOK'
    BY <2>1 DEF ArgsInv, TypeOK, argc
  <2>3. Accounted => Accounted'
    BY <2>1, AccountedKept
  <2>4. DefaultList => DefaultList'
    BY <2>1 DEF DefaultList
  <2>5. QED
    BY <2>1, <2>2, <2>3, <2>4 DEF ArgsInv, ArgvAccounted, argc
<1>8. QED
  BY <1>1, <1>2, <1>3, <1>4, <1>5, <1>6, <1>7 DEF Next

LEMMA ArgsInvAlways == Spec => []ArgsInv
BY ArgsInvInit, ArgsInvNext, PTL DEF Spec

(* The array of operations never overflows and no operation holds the null *)
(* pointer that ends argv, for any number of arguments and any MAX_OP.     *)
THEOREM ArgsTypeCorrect == Spec => []TypeOK
BY ArgsInvAlways, PTL DEF ArgsInv

(* No argument is dropped, read twice, or taken for an option when it is a *)
(* key, however many there are.                                            *)
THEOREM ArgsAccounted == Spec => []ArgvAccounted
BY ArgsInvAlways, PTL DEF ArgsInv

LEMMA AcceptedWhole == ArgsInv => NothingIgnored
<1> SUFFICES ASSUME ArgsInv, exit = "ok"
             PROVE  IF opts.ops[1].op \in ReadOps
                      THEN Len(opts.ops) = 1
                      ELSE \A n \in DOMAIN opts.ops : opts.ops[n].op \in WriteOps
  BY DEF NothingIgnored, ArgsInv
<1>1. /\ opts.ops \in Seq(Operation) /\ opts.ops # <<>>
      /\ RequestError(opts) = "ok"
  BY DEF ArgsInv
<1>2. Len(opts.ops) \in Nat \ {0} /\ DOMAIN opts.ops = 1 .. Len(opts.ops)
  BY <1>1, EmptySeq, LenProperties
<1>3. \A n \in DOMAIN opts.ops : opts.ops[n].op \in ReadOps \cup WriteOps
  <2>1. \A n \in DOMAIN opts.ops : opts.ops[n] \in Operation
    BY <1>1, <1>2, ElementOfSeq
  <2>2. QED
    BY <2>1 DEF Operation, ReadOps, WriteOps
<1>4. \A m, n \in DOMAIN opts.ops : opts.ops[m].op \in ReadOps => m = n
  BY <1>1, <1>3, Accepted
<1>5. 1 \in DOMAIN opts.ops /\ Len(opts.ops) \in DOMAIN opts.ops
  BY <1>2
<1>6. CASE opts.ops[1].op \in ReadOps
  BY <1>4, <1>5, <1>6
<1>7. CASE opts.ops[1].op \notin ReadOps
  BY <1>3, <1>4, <1>5, <1>7
<1>8. QED
  BY <1>6, <1>7

(* A request that main goes on with, of any number of operations, is the   *)
(* whole command line and nothing but it and the default --list, and       *)
(* nothing of it is lost by looking at the first operation only.           *)
THEOREM ArgsNothingIgnored == Spec => []NothingIgnored
BY ArgsInvAlways, AcceptedWhole, PTL
===============================================================================
