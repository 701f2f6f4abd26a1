---------------------------- MODULE NvramCliProofs ----------------------------
(***************************************************************************)
(* Proofs about Lockfile and about NvramCli, which extends it, for every   *)
(* number of invocations and of tries, every set of requests, and          *)
(* operations of any number: the lock excludes unless it was stolen, and   *)
(* then a list that is committed is fresh, the prefix separates the        *)
(* stores, and what the callers see is serial.                             *)
(***************************************************************************)
EXTENDS NvramCli, FiniteSetTheorems, TLAPS

(*-------------------------------------------------------------------------*)
(* Lockfile: mutual exclusion as long as no remove races with an open.     *)
(*-------------------------------------------------------------------------*)

(* Whoever holds an flock has that inode open and is in its critical part, *)
(* and the other way round.                                                *)
HolderIsCritical ==
  /\ \A i \in Inodes, p \in Procs : holder[i] = p => fd[p] = i /\ InCritical(p)
  /\ \A p \in Procs : InCritical(p) => holder[fd[p]] = p

(* While nothing was stolen, whoever has a lock file open has THE file.    *)
OneFile == ~stolen => \A p \in Procs : fd[p] # NoInode => fd[p] = path

(* A try is left whenever flock is called. *)
TryLeft == \A p \in Procs : InAcquire(p) => retries[p] >= 1

(* The inductive invariant: the types, who holds what, which file is open. *)
LockInv == TypeOK /\ HolderIsCritical /\ OneFile /\ TryLeft

-------------------------------------------------------------------------------

LEMMA LockInvInit == Init => LockInv
<1> SUFFICES ASSUME Init PROVE LockInv
  OBVIOUS
<1> USE NoneAssumption, RetriesAssumption DEF Init
<1>1. TypeOK
  <2>1. pc \in [Procs -> PC]
    BY DEF PC
  <2>2. holder \in [Inodes -> Procs \cup {NoProc}] /\ fd \in [Procs -> Inodes \cup {NoInode}]
    OBVIOUS
  <2>3. \A p \in Procs : fd[p] # NoInode <=> pc[p] \in {"flock", "sleep", "work", "close"}
    OBVIOUS
  <2>4. Retries \in 0 .. Retries
    OBVIOUS
  <2>5. retries \in [Procs -> 0 .. Retries]
    BY <2>4
  <2>6. path \in Inodes \cup {NoInode} /\ stolen \in BOOLEAN
    OBVIOUS
  <2>7. QED
    BY <2>1, <2>2, <2>3, <2>5, <2>6 DEF TypeOK
<1>2. HolderIsCritical
  BY DEF HolderIsCritical, InCritical
<1>3. OneFile /\ TryLeft
  BY DEF OneFile, TryLeft, InAcquire
<1>4. QED
  BY <1>1, <1>2, <1>3 DEF LockInv

(* What close or death of p does to the locks, at whatever label it was.   *)
LEMMA CloseFdStep ==
  ASSUME LockInv, NEW p \in Procs, NEW label \in {"remove", "done"},
         CloseFd(p), Goto(p, label), UNCHANGED <<path, retries, stolen>>
  PROVE  LockInv'
<1> USE NoneAssumption DEF LockInv
<1>1. TypeOK'
  BY DEF TypeOK, CloseFd, Goto, PC
<1>2. HolderIsCritical'
  BY DEF HolderIsCritical, TypeOK, CloseFd, Goto, InCritical, PC
<1>3. OneFile'
  BY DEF OneFile, TypeOK, CloseFd
<1>4. TryLeft'
  BY DEF TryLeft, InAcquire, TypeOK, Goto
<1>5. QED
  BY <1>1, <1>2, <1>3, <1>4

LEMMA OpenStep ==
  ASSUME LockInv, NEW p \in Procs, OpenLockfile(p)
  PROVE  LockInv'
<1> USE NoneAssumption DEF LockInv
<1>1. PICK i \in Inodes :
        /\ IF path = NoInode THEN \A q \in Procs : fd[q] # i ELSE i = path
        /\ path' = i
        /\ fd' = [fd EXCEPT ![p] = i]
  BY DEF OpenLockfile
<1>2. pc[p] = "open" /\ fd[p] = NoInode /\ ~InCritical(p)
  BY DEF OpenLockfile, TypeOK, InCritical
<1>3. TypeOK'
  BY <1>1, <1>2 DEF TypeOK, OpenLockfile, Goto, PC
<1>4. HolderIsCritical'
  BY <1>1, <1>2 DEF HolderIsCritical, TypeOK, OpenLockfile, Goto, InCritical, PC
<1>5. OneFile'
  BY <1>1 DEF OneFile, TypeOK, OpenLockfile
<1>6. TryLeft'
  BY <1>1 DEF TryLeft, InAcquire, TypeOK, OpenLockfile, Goto
<1>7. QED
  BY <1>3, <1>4, <1>5, <1>6

LEMMA FlockTakenStep ==
  ASSUME LockInv, NEW p \in Procs, FlockTaken(p)
  PROVE  LockInv'
<1> USE NoneAssumption, RetriesAssumption DEF LockInv
<1>1. pc[p] = "flock" /\ fd[p] \in Inodes /\ holder[fd[p]] = NoProc
  BY DEF FlockTaken, Granted, TypeOK
<1>2. TypeOK'
  BY <1>1 DEF TypeOK, TryLeft, InAcquire, FlockTaken, Goto, PC
<1>3. HolderIsCritical'
  BY <1>1 DEF HolderIsCritical, TypeOK, FlockTaken, Goto, InCritical, PC
<1>4. OneFile' /\ TryLeft'
  BY <1>1 DEF OneFile, TryLeft, InAcquire, TypeOK, FlockTaken, Goto
<1>5. QED
  BY <1>2, <1>3, <1>4

LEMMA RemoveStep ==
  ASSUME LockInv, NEW p \in Procs, RemoveLockfile(p)
  PROVE  LockInv'
<1> USE NoneAssumption DEF LockInv
<1>1. pc[p] = "remove" /\ fd[p] = NoInode
  BY DEF RemoveLockfile, TypeOK
<1>2. TypeOK'
  BY <1>1 DEF TypeOK, RemoveLockfile, Goto, PC
<1>3. HolderIsCritical' /\ TryLeft'
  BY <1>1 DEF HolderIsCritical, TryLeft, InAcquire, TypeOK, RemoveLockfile, Goto, InCritical, PC
<1>4. OneFile'
  BY <1>1 DEF OneFile, TypeOK, RemoveLockfile
<1>5. QED
  BY <1>2, <1>3, <1>4

LEMMA LockInvNext == LockInv /\ [Next]_vars => LockInv'
<1> SUFFICES ASSUME LockInv, [Next]_vars PROVE LockInv'
  OBVIOUS
<1>1. CASE UNCHANGED vars
  BY <1>1 DEF vars, LockInv, TypeOK, HolderIsCritical, OneFile, TryLeft, InAcquire, InCritical
<1>2. CASE Next
  <2> PICK p \in Procs : \/ Acquire(p)
                         \/ Work(p)
                         \/ CloseLockfile(p)
                         \/ RemoveLockfile(p)
                         \/ Crash(p)
    BY <1>2 DEF Next
  <2>1. CASE OpenLockfile(p)
    BY <2>1, OpenStep
  <2>2. CASE OpenFails(p)
    BY <2>2 DEF OpenFails, Goto, LockInv, TypeOK, HolderIsCritical, OneFile,
                TryLeft, InAcquire, InCritical, PC
  <2>3. CASE FlockTaken(p)
    BY <2>3, FlockTakenStep
  <2>4. CASE FlockBusy(p)
    BY <2>4, RetriesAssumption
       DEF FlockBusy, CountTry, Goto, PC, LockInv, TypeOK, HolderIsCritical, OneFile,
           TryLeft, InAcquire, InCritical
  <2>5. CASE FlockFails(p)
    BY <2>5, CloseFdStep DEF FlockFails
  <2>6. CASE Work(p)
    BY <2>6 DEF Work, Goto, LockInv, TypeOK, HolderIsCritical, OneFile, TryLeft, InAcquire,
                InCritical, PC
  <2>7. CASE CloseLockfile(p)
    BY <2>7, CloseFdStep DEF CloseLockfile
  <2>8. CASE RemoveLockfile(p)
    BY <2>8, RemoveStep
  <2>9. CASE Crash(p)
    BY <2>9, CloseFdStep DEF Crash
  <2>10. CASE WakeUp(p)
    BY <2>10 DEF WakeUp, Goto, LockInv, TypeOK, HolderIsCritical, OneFile, TryLeft, InAcquire,
                 InCritical, PC
  <2>11. QED
    BY <2>1, <2>2, <2>3, <2>4, <2>5, <2>6, <2>7, <2>8, <2>9, <2>10 DEF Acquire
<1>3. QED
  BY <1>1, <1>2

-------------------------------------------------------------------------------

(* The types hold in every reachable state, for every set of invocations.  *)
THEOREM LockTypeCorrect == Spec => []TypeOK
<1>1. LockInv => TypeOK
  BY DEF LockInv
<1>2. QED
  BY LockInvInit, LockInvNext, <1>1, PTL DEF Spec

LEMMA LockedAlone == LockInv => ExclusiveUnlessStolen
<1> SUFFICES ASSUME LockInv, ~stolen, NEW p \in Procs, NEW q \in Procs,
                    InCritical(p), InCritical(q)
             PROVE  p = q
  BY DEF ExclusiveUnlessStolen, MutualExclusion
<1>1. fd[p] = path /\ fd[q] = path
  BY DEF LockInv, OneFile, TypeOK, InCritical
<1>2. holder[path] = p /\ holder[path] = q
  BY <1>1 DEF LockInv, HolderIsCritical
<1>3. QED
  BY <1>2

(* However many invocations there are, two of them are inside acquire and  *)
(* release together only after a remove has taken the file from a third.   *)
THEOREM LockExcludes == Spec => []ExclusiveUnlessStolen
BY LockInvInit, LockInvNext, LockedAlone, PTL DEF Spec

(* However many invocations there are, one waits only for another that is  *)
(* inside, never for a file that was left behind.                          *)
THEOREM LockWaits == Spec => WaitsForHolder
<1> DEFINE Waits == \A p \in Procs : pc[p] = "flock" /\ pc'[p] = "sleep" =>
                      \E q \in Procs \ {p} : InCritical(q)
<1>1. LockInv /\ [Next]_vars => [Waits]_vars
  <2> SUFFICES ASSUME LockInv, Next, NEW p \in Procs, pc[p] = "flock", pc'[p] = "sleep"
               PROVE  \E q \in Procs \ {p} : InCritical(q)
    OBVIOUS
  <2>1. pc \in [Procs -> PC]
    BY DEF LockInv, TypeOK
  <2>2. PICK r \in Procs : Acquire(r) \/ Work(r) \/ CloseLockfile(r) \/ RemoveLockfile(r) \/ Crash(r)
    BY DEF Next
  <2>3. FlockBusy(p)
    BY <2>1, <2>2 DEF Acquire, OpenLockfile, OpenFails, FlockTaken, FlockBusy, WakeUp, FlockFails,
                      Work, CloseLockfile, RemoveLockfile, Crash, Goto
  <2>4. fd[p] \in Inodes /\ holder[fd[p]] \in Procs
    BY <2>3 DEF LockInv, TypeOK, FlockBusy, Granted
  <2>5. InCritical(holder[fd[p]]) /\ ~InCritical(p)
    BY <2>3, <2>4 DEF LockInv, HolderIsCritical, FlockBusy, InCritical
  <2>6. QED
    BY <2>4, <2>5
<1>2. QED
  BY <1>1, LockInvInit, LockInvNext, PTL DEF Spec, WaitsForHolder

(* A file is stolen by an invocation that ends with it. *)
StolenByThird == stolen => \E r \in Procs : pc[r] = "done"

LEMMA StolenStep == LockInv /\ StolenByThird /\ [Next]_vars => StolenByThird'
<1> SUFFICES ASSUME LockInv, StolenByThird, [Next]_vars PROVE StolenByThird'
  OBVIOUS
<1>1. CASE UNCHANGED vars
  BY <1>1 DEF vars, StolenByThird
<1>2. ASSUME NEW p \in Procs,
             Acquire(p) \/ Work(p) \/ CloseLockfile(p) \/ RemoveLockfile(p) \/ Crash(p)
      PROVE  StolenByThird'
  <2>1. pc \in [Procs -> PC]
    BY DEF LockInv, TypeOK
  <2>2. pc[p] # "done" /\ \E label \in PC : Goto(p, label)
    BY <1>2 DEF Acquire, OpenLockfile, OpenFails, FlockTaken, FlockBusy, WakeUp, FlockFails,
                Work, CloseLockfile, RemoveLockfile, Crash, PC
  <2>3. \A r \in Procs : pc[r] = "done" => pc'[r] = "done"
    BY <2>1, <2>2 DEF Goto
  <2>4. CASE RemoveLockfile(p)
    BY <2>1, <2>4 DEF RemoveLockfile, Goto, StolenByThird
  <2>5. CASE ~RemoveLockfile(p)
    <3>1. stolen' = stolen
      BY <1>2, <2>5 DEF Acquire, OpenLockfile, OpenFails, FlockTaken, FlockBusy, WakeUp, FlockFails,
                        Work, CloseLockfile, Crash
    <3>2. QED
      BY <2>3, <3>1 DEF StolenByThird
  <2>6. QED
    BY <2>4, <2>5
<1>3. QED
  BY <1>1, <1>2 DEF Next

(* However many invocations there are, no two of them get inside together  *)
(* before a third one has ended.                                           *)
THEOREM LockRaceNeedsThird == Spec => []RaceNeedsThird
<1>1. Init => StolenByThird
  BY DEF Init, StolenByThird
<1>2. LockInv /\ StolenByThird => RaceNeedsThird
  <2> SUFFICES ASSUME LockInv, StolenByThird, NEW p \in Procs, NEW q \in Procs,
                      InCritical(p), InCritical(q), p # q
               PROVE  \E r \in Procs \ {p, q} : pc[r] = "done"
    BY DEF RaceNeedsThird
  <2>1. stolen
    BY LockedAlone DEF ExclusiveUnlessStolen, MutualExclusion
  <2>2. PICK r \in Procs : pc[r] = "done"
    BY <2>1 DEF StolenByThird
  <2>3. r \notin {p, q}
    BY <2>2 DEF InCritical
  <2>4. QED
    BY <2>2, <2>3
<1>3. QED
  BY <1>1, <1>2, LockInvInit, LockInvNext, StolenStep, PTL DEF Spec


(*-------------------------------------------------------------------------*)
(* The operators of NvramRequest, for any number of operations: what a     *)
(* list becomes, by induction on the operations done.  The induction is    *)
(* over the intervals 0 .. n, as finite sets: the theorems on natural      *)
(* induction take an operator, and cannot be used.                         *)
(*-------------------------------------------------------------------------*)

(* What holds of 0, and of n + 1 when it holds of n, holds up to N. *)
LEMMA IntervalInduction ==
  ASSUME NEW N \in Nat, NEW T, 0 \in T,
         \A n \in 0 .. N - 1 : n \in T => n + 1 \in T
  PROVE  \A n \in 0 .. N : n \in T
<1> SUFFICES ASSUME ~(0 .. N \subseteq T) PROVE FALSE
  OBVIOUS
<1> DEFINE S == 0 .. N
           cuts == {0 .. b : b \in S \ T}
<1>1. IsWellFoundedOn(StrictSubsetOrdering(S), FiniteSubsetsOf(S))
  BY FS_StrictSubsetOrderingWellFounded
<1>2. cuts \subseteq FiniteSubsetsOf(S) /\ cuts # {}
  <2>1. ASSUME NEW b \in S PROVE 0 .. b \in FiniteSubsetsOf(S)
    <3>1. IsFiniteSet(0 .. b)
      BY FS_Interval
    <3>2. 0 .. b \subseteq S
      OBVIOUS
    <3>3. QED
      BY <3>1, <3>2 DEF FiniteSubsetsOf
  <2>2. QED
    BY <2>1
<1>3. PICK c \in cuts : \A d \in cuts : <<d, c>> \notin StrictSubsetOrdering(S)
  <2> HIDE DEF cuts, S
  <2>1. QED
    BY <1>1, <1>2, WFMin
<1>4. PICK b \in S \ T : c = 0 .. b
  BY <1>3
<1>5. b - 1 \in S \ T
  BY <1>4
<1>6. 0 .. b - 1 \in cuts /\ 0 .. b - 1 \subseteq c /\ 0 .. b - 1 # c
  BY <1>4, <1>5
<1>7. <<0 .. b - 1, c>> \in StrictSubsetOrdering(S)
  BY <1>6, <1>4 DEF StrictSubsetOrdering
<1>8. QED
  BY <1>3, <1>6, <1>7

(* The recursive function of After is defined. *)
LEMMA AfterDef ==
  ASSUME NEW map, NEW ops, Len(ops) \in Nat
  PROVE  /\ After(map, ops)[0] = map
         /\ \A n \in 1 .. Len(ops) :
              After(map, ops)[n] = Apply(After(map, ops)[n - 1], ops[n])
<1> DEFINE Def(f, n) == IF n = 0 THEN map ELSE Apply(f[n - 1], ops[n])
           defined == {n \in 0 .. Len(ops) : \E f : f = [m \in 0 .. n |-> Def(f, m)]}
<1>1. 0 \in defined
  <2> DEFINE g == [m \in 0 .. 0 |-> map]
  <2>1. g = [m \in 0 .. 0 |-> g[m]] /\ \A m \in 0 .. 0 : g[m] = Def(g, m)
    OBVIOUS
  <2> HIDE DEF g
  <2>2. g = [m \in 0 .. 0 |-> Def(g, m)]
    BY <2>1
  <2>3. QED
    BY <2>2
<1>2. ASSUME NEW n \in 0 .. Len(ops) - 1, n \in defined
      PROVE  n + 1 \in defined
  <2>1. PICK f : f = [m \in 0 .. n |-> Def(f, m)]
    BY <1>2
  <2> DEFINE g == [m \in 0 .. n + 1 |-> IF m = n + 1 THEN Apply(f[n], ops[n + 1]) ELSE f[m]]
  <2>2. ASSUME NEW m \in 0 .. n + 1 PROVE g[m] = Def(g, m)
    <3>1. CASE m = n + 1
      BY <3>1
    <3>2. CASE m \in 0 .. n
      BY <2>1, <3>2
    <3>3. QED
      BY <3>1, <3>2
  <2>3. g = [m \in 0 .. n + 1 |-> g[m]]
    OBVIOUS
  <2> HIDE DEF g
  <2>4. g = [m \in 0 .. n + 1 |-> Def(g, m)]
    BY <2>2, <2>3
  <2>5. QED
    BY <2>4
<1>3. Len(ops) \in defined
  <2> HIDE DEF defined
  <2>1. \A n \in 0 .. Len(ops) : n \in defined
    BY <1>1, <1>2, IntervalInduction
  <2>2. QED
    BY <2>1
<1>4. After(map, ops) = [n \in 0 .. Len(ops) |-> Def(After(map, ops), n)]
  BY <1>3 DEF After
<1>5. After(map, ops)[0] = Def(After(map, ops), 0)
  BY <1>4
<1>6. \A n \in 1 .. Len(ops) : After(map, ops)[n] = Def(After(map, ops), n)
  BY <1>4
<1>7. QED
  BY <1>5, <1>6

(* A set of positions that is not empty has a first. *)
LEMMA FirstPosition ==
  ASSUME NEW N \in Nat, NEW S \in SUBSET (1 .. N), S # {}
  PROVE  \E i \in S : \A j \in S : i <= j
<1> SUFFICES ASSUME \A i \in S : \E j \in S : j < i PROVE FALSE
  OBVIOUS
<1> DEFINE none == {n \in 0 .. N : \A i \in S : n < i}
<1>1. 0 \in none
  OBVIOUS
<1>2. ASSUME NEW n \in 0 .. N - 1, n \in none PROVE n + 1 \in none
  <2>1. ASSUME NEW i \in S PROVE n + 1 < i
    <3>1. PICK j \in S : j < i
      OBVIOUS
    <3>2. n < j /\ n \in Nat /\ i \in Nat /\ j \in Nat
      BY <1>2
    <3>3. QED
      BY <3>1, <3>2
  <2>2. QED
    BY <2>1
<1>3. N \in none
  <2> HIDE DEF none
  <2>1. \A n \in 0 .. N : n \in none
    BY <1>1, <1>2, IntervalInduction
  <2>2. QED
    BY <2>1
<1>4. PICK i \in S : i <= N
  <2>1. PICK i \in S : TRUE
    OBVIOUS
  <2>2. i \in 1 .. N
    OBVIOUS
  <2>3. QED
    BY <2>2
<1>5. N < i
  BY <1>3, <1>4
<1>6. QED
  BY <1>4, <1>5

(* What main has checked of a request it goes on with. *)
LEMMA Accepted ==
  ASSUME NEW req \in Request, RequestError(req) = "ok"
  PROVE  /\ \A i \in DOMAIN req.ops : OperationError(req, req.ops[i]) = "ok"
         /\ \A i, j \in DOMAIN req.ops :
              ~(req.ops[i].op \in ReadOps /\ req.ops[j].op \in WriteOps)
<1> DEFINE wrong == {i \in DOMAIN req.ops :
                       OperationError(req, req.ops[i]) # "ok"}
           first == CHOOSE i \in wrong : \A j \in wrong : i <= j
<1>1. wrong = {}
  <2> SUFFICES ASSUME wrong # {} PROVE FALSE
    OBVIOUS
  <2>1. Len(req.ops) \in Nat /\ wrong \subseteq 1 .. Len(req.ops)
    BY DEF Request
  <2>2. \E i \in wrong : \A j \in wrong : i <= j
    <3> HIDE DEF wrong
    <3>1. QED
      BY <2>1, FirstPosition
  <2>3. first \in wrong
    <3> HIDE DEF wrong
    <3>1. QED
      BY <2>2
  <2>4. RequestError(req) = OperationError(req, req.ops[first])
    BY DEF RequestError
  <2>5. QED
    BY <2>3, <2>4
<1>2. Kind(req, ReadOps) = {} \/ Kind(req, WriteOps) = {}
  BY <1>1 DEF RequestError
<1>3. QED
  BY <1>1, <1>2 DEF Kind

LEMMA ApplyType ==
  ASSUME NEW map \in Map, NEW operation \in Operation
  PROVE  Apply(map, operation) \in Map
BY DEF Apply, Map, Operation

(* The operations turn a list into a list. *)
LEMMA AfterType ==
  ASSUME NEW map \in Map, NEW ops \in Seq(Operation)
  PROVE  \A n \in 0 .. Len(ops) : After(map, ops)[n] \in Map
<1> DEFINE typed == {n \in 0 .. Len(ops) : After(map, ops)[n] \in Map}
<1>1. Len(ops) \in Nat
  OBVIOUS
<1>2. 0 \in typed
  BY <1>1, AfterDef
<1>3. ASSUME NEW n \in 0 .. Len(ops) - 1, n \in typed PROVE n + 1 \in typed
  <2>1. After(map, ops)[n + 1] = Apply(After(map, ops)[n], ops[n + 1])
    BY <1>1, AfterDef
  <2>2. ops[n + 1] \in Operation
    BY <1>1
  <2>3. QED
    BY <2>1, <2>2, <1>3, ApplyType
<1>4. \A n \in 0 .. Len(ops) : n \in typed
  <2> HIDE DEF typed
  <2>1. QED
    BY <1>1, <1>2, <1>3, IntervalInduction
<1>5. QED
  BY <1>4

(* When no operation found something to change, all of them together       *)
(* change nothing: main is right to skip the commit.                       *)
THEOREM NothingPerformed ==
  ASSUME NEW map, NEW ops, Len(ops) \in Nat, DOMAIN ops = 1 .. Len(ops),
         ~WritePerformed(map, ops)
  PROVE  ApplyAll(map, ops) = map
<1> DEFINE same == {n \in 0 .. Len(ops) : After(map, ops)[n] = map}
<1>1. 0 \in same
  BY AfterDef
<1>2. ASSUME NEW n \in 0 .. Len(ops) - 1, n \in same PROVE n + 1 \in same
  <2>1. After(map, ops)[n + 1] = After(map, ops)[n]
    BY DEF WritePerformed
  <2>2. QED
    BY <2>1, <1>2
<1>3. \A n \in 0 .. Len(ops) : n \in same
  <2> HIDE DEF same
  <2>1. QED
    BY <1>1, <1>2, IntervalInduction
<1>4. QED
  BY <1>3 DEF ApplyAll

LEMMA ApplyBelongs ==
  ASSUME NEW req, NEW map \in Map, NEW operation \in Operation,
         req.sys \in BOOLEAN, operation.op \in WriteOps,
         OperationError(req, operation) = "ok",
         Belongs(map, Target(req))
  PROVE  Belongs(Apply(map, operation), Target(req))
<1>1. CASE operation.op = "set"
  BY <1>1 DEF Belongs, Apply, Map, Operation, OperationError, Target
<1>2. CASE operation.op = "del"
  BY <1>2 DEF Belongs, Apply, Map, Operation, Target
<1>3. QED
  BY <1>1, <1>2 DEF WriteOps

LEMMA AfterBelongs ==
  ASSUME NEW req \in Request, RequestError(req) = "ok",
         \A i \in DOMAIN req.ops : req.ops[i].op \in WriteOps,
         NEW map \in Map, Belongs(map, Target(req))
  PROVE  \A n \in 0 .. Len(req.ops) :
           Belongs(After(map, req.ops)[n], Target(req))
<1> DEFINE ops == req.ops
           good == {n \in 0 .. Len(ops) : Belongs(After(map, ops)[n], Target(req))}
<1>1. ops \in Seq(Operation) /\ Len(ops) \in Nat /\ req.sys \in BOOLEAN
  BY DEF Request
<1>2. 0 \in good
  BY <1>1, AfterDef
<1>3. ASSUME NEW n \in 0 .. Len(ops) - 1, n \in good PROVE n + 1 \in good
  <2>1. After(map, ops)[n + 1] = Apply(After(map, ops)[n], ops[n + 1])
    BY <1>1, AfterDef
  <2>2. ops[n + 1] \in Operation /\ n + 1 \in DOMAIN ops
    BY <1>1
  <2>3. After(map, ops)[n] \in Map
    BY <1>1, AfterType
  <2>4. OperationError(req, ops[n + 1]) = "ok" /\ ops[n + 1].op \in WriteOps
    BY <2>2, Accepted
  <2>5. Belongs(Apply(After(map, ops)[n], ops[n + 1]), Target(req))
    BY <2>2, <2>3, <2>4, <1>1, <1>3, ApplyBelongs
  <2>6. QED
    BY <2>1, <2>5
<1>4. \A n \in 0 .. Len(ops) : n \in good
  <2> HIDE DEF good
  <2>1. QED
    BY <1>1, <1>2, <1>3, IntervalInduction
<1>5. QED
  BY <1>4

(* Writes that main accepts keep the keys of a list on its side of the     *)
(* system prefix.                                                          *)
THEOREM WritesBelong ==
  ASSUME NEW req \in Request, RequestError(req) = "ok",
         \A i \in DOMAIN req.ops : req.ops[i].op \in WriteOps,
         NEW map \in Map, Belongs(map, Target(req))
  PROVE  Belongs(ApplyAll(map, req.ops), Target(req))
<1>1. Len(req.ops) \in 0 .. Len(req.ops)
  BY DEF Request
<1>2. QED
  BY <1>1, AfterBelongs DEF ApplyAll

-------------------------------------------------------------------------------


(* What main has made sure of before it works on the stores. *)
Checked ==
  \A p \in Procs :
    /\ stage[p] \notin {"args", "exit"} => RequestError(request[p]) = "ok"
    /\ stage[p] \in {"commit", "installed"} => First(p) \in WriteOps

ListsBelong == \A p \in Procs, s \in Stores : Belongs(lists[p][s], s)

(* What an invocation has read is still what is stored. *)
Fresh ==
  ~stolen =>
    \A p \in Procs :
      /\ At(p, "user") \/ At(p, "run") => lists[p]["system"] = stores["system"]
      /\ At(p, "run") /\ ~request[p].sys => lists[p]["user"] = stores["user"]
      /\ At(p, "commit") =>
           lists[p][Mine(p)] = ApplyAll(stores[Mine(p)], request[p].ops)

CliInv ==
  LockInv /\ CliTypeOK /\ Checked /\ PrefixSeparation /\ ListsBelong /\ Fresh

-------------------------------------------------------------------------------

(* Every step of main is one of the lock's protocol, or leaves it alone. *)
LEMMA LockStep == [CliNext]_cliVars => [Next]_vars
BY DEF CliNext, cliVars, CheckArgs, AcquireLock, ReadStore, RunReads, RunWrites,
       CommitInstalls, CommitReturns, ReleaseLock, Killed, Next, vars

(* A step of p in the lock's protocol. *)
LEMMA LockMoves ==
  ASSUME TypeOK, NEW p \in Procs,
         \/ Acquire(p) \/ Work(p) \/ CloseLockfile(p) \/ RemoveLockfile(p) \/ Crash(p)
  PROVE  /\ \A q \in Procs \ {p} : pc'[q] = pc[q]
         /\ pc'[p] = "work" => Acquire(p)
         /\ stolen => stolen'
BY DEF TypeOK, Acquire, OpenLockfile, OpenFails, FlockTaken, FlockBusy, WakeUp, FlockFails,
       Work, CloseLockfile, RemoveLockfile, Crash, Goto

LEMMA RequestFacts ==
  ASSUME CliTypeOK, NEW p \in Procs
  PROVE  /\ request[p] \in Request
         /\ request[p].ops \in Seq(Operation)
         /\ Len(request[p].ops) \in Nat
         /\ 1 \in DOMAIN request[p].ops
         /\ DOMAIN request[p].ops = 1 .. Len(request[p].ops)
         /\ Mine(p) \in Stores
<1>1. request[p] \in Request
  BY RequestsAssumption DEF CliTypeOK
<1>2. request[p].ops \in Seq(Operation) /\ request[p].ops # <<>>
  BY <1>1 DEF Request
<1>3. Mine(p) \in Stores
  BY DEF Mine, Target, Stores
<1>4. QED
  BY <1>1, <1>2, <1>3

LEMMA EmptyType == Empty \in Map /\ \A s \in Stores : Belongs(Empty, s)
BY DEF Empty, Map, Belongs

LEMMA AnswersType ==
  ASSUME NEW maps \in [Stores -> Map], NEW p \in Procs,
         NEW shown \in Answers(maps, request[p])
  PROVE  shown \in [Stores -> Map]
<1> DEFINE key == request[p].ops[1].key
           nothing == [s \in Stores |-> [k \in Keys |-> NULL]]
<1>1. CASE request[p].ops[1].op = "get"
  <2>1. PICK s \in Visible(request[p]) : shown = [nothing EXCEPT ![s][key] = maps[s][key]]
    BY <1>1 DEF Answers
  <2>2. s \in Stores
    BY DEF Visible, Stores
  <2>3. QED
    BY <2>1, <2>2 DEF Map
<1>2. CASE request[p].ops[1].op # "get"
  <2>1. PICK some \in SUBSET (Visible(request[p]) \X Keys) :
          shown = [s \in Stores |-> [k \in Keys |->
                     IF <<s, k>> \in some THEN maps[s][k] ELSE NULL]]
    BY <1>2 DEF Answers
  <2>2. ASSUME NEW s \in Stores, NEW k \in Keys PROVE maps[s][k] \in Values \cup {NULL}
    BY DEF Map
  <2>3. QED
    BY <2>1, <2>2 DEF Map
<1>3. QED
  BY <1>1, <1>2

LEMMA CliInvInit == CliInit => CliInv
<1> SUFFICES ASSUME CliInit PROVE CliInv
  OBVIOUS
<1>1. LockInv
  BY LockInvInit DEF CliInit
<1>2. CliTypeOK
  <2>1. TypeOK /\ \A p \in Procs : pc[p] = "open"
    BY <1>1 DEF LockInv, CliInit, Init
  <2>2. QED
    BY <2>1, EmptyType DEF CliInit, CliTypeOK, Stage
<1>3. Checked /\ Fresh
  BY DEF CliInit, Checked, Fresh, At
<1>4. PrefixSeparation /\ ListsBelong
  BY EmptyType DEF CliInit, PrefixSeparation, ListsBelong
<1>5. QED
  BY <1>1, <1>2, <1>3, <1>4 DEF CliInv

-------------------------------------------------------------------------------

(* The steps that leave the stores and the lists alone. *)
LEMMA QuietStep ==
  ASSUME CliInv, NEW p \in Procs, LockInv',
         \/ CheckArgs(p) \/ AcquireLock(p) \/ CommitReturns(p) \/ ReleaseLock(p) \/ Killed(p)
  PROVE  CliInv'
<1> USE DEF CliInv
<1>1. UNCHANGED <<stores, request, lists, printed>>
  BY DEF CheckArgs, AcquireLock, CommitReturns, ReleaseLock, Killed, mainVars
<1>2. /\ \A q \in Procs \ {p} : pc'[q] = pc[q] /\ stage'[q] = stage[q] /\ status'[q] = status[q]
      /\ stolen => stolen'
  <2>1. CASE CheckArgs(p) \/ CommitReturns(p)
    BY <2>1 DEF CheckArgs, CommitReturns, Enter, Leave, CliTypeOK, vars
  <2>2. CASE AcquireLock(p)
    BY <2>2, LockMoves DEF AcquireLock, Enter, Leave, CliTypeOK
  <2>3. CASE ReleaseLock(p) \/ Killed(p)
    BY <2>3, LockMoves DEF ReleaseLock, Killed, mainVars, CliTypeOK
  <2>4. QED
    BY <2>1, <2>2, <2>3
<1>3. /\ stage' \in [Procs -> Stage]
      /\ status' \in [Procs -> {"none", "ok", "error"}]
      /\ status'[p] # "none" <=> stage'[p] = "exit"
      /\ pc'[p] = "work" => stage'[p] \notin {"args", "lock"}
  <2>1. CASE CheckArgs(p)
    BY <2>1 DEF CheckArgs, Enter, Leave, CliTypeOK, Stage, vars
  <2>2. CASE CommitReturns(p)
    BY <2>2 DEF CommitReturns, At, Leave, CliTypeOK, Stage, vars
  <2>3. CASE AcquireLock(p)
    BY <2>3 DEF AcquireLock, Enter, Leave, CliTypeOK, Stage
  <2>4. CASE ReleaseLock(p)
    BY <2>4 DEF ReleaseLock, mainVars, CliTypeOK
  <2>5. CASE Killed(p)
    BY <2>5 DEF Killed, Crash, Goto, mainVars, CliTypeOK, TypeOK
  <2>6. QED
    BY <2>1, <2>2, <2>3, <2>4, <2>5
<1>4. CliTypeOK'
  <2>1. TypeOK'
    BY DEF LockInv
  <2>2. QED
    BY <1>1, <1>2, <1>3, <2>1 DEF CliTypeOK
<1>5. Checked'
  <2>1. stage'[p] \notin {"args", "exit"} => RequestError(request[p]) = "ok"
    <3>1. CASE CheckArgs(p)
      BY <3>1 DEF CheckArgs, Enter, Leave, CliTypeOK
    <3>2. CASE CommitReturns(p)
      BY <3>2 DEF CommitReturns, Leave, CliTypeOK
    <3>3. CASE AcquireLock(p)
      BY <3>3 DEF AcquireLock, Checked
    <3>4. CASE ReleaseLock(p) \/ Killed(p)
      BY <3>4 DEF ReleaseLock, Killed, mainVars, Checked
    <3>5. QED
      BY <3>1, <3>2, <3>3, <3>4
  <2>2. stage'[p] \in {"commit", "installed"} => First(p) \in WriteOps
    <3>1. CASE CheckArgs(p) \/ CommitReturns(p)
      BY <3>1 DEF CheckArgs, CommitReturns, Enter, Leave, CliTypeOK
    <3>2. CASE AcquireLock(p)
      BY <3>2 DEF AcquireLock, Enter, Leave, CliTypeOK
    <3>3. CASE ReleaseLock(p) \/ Killed(p)
      BY <3>3 DEF ReleaseLock, Killed, mainVars, Checked
    <3>4. QED
      BY <3>1, <3>2, <3>3
  <2>3. \A q \in Procs : (First(q))' = First(q)
    BY <1>1 DEF First
  <2>4. QED
    BY <1>1, <1>2, <2>1, <2>2, <2>3 DEF Checked
<1>6. (PrefixSeparation /\ ListsBelong)'
  BY <1>1 DEF PrefixSeparation, ListsBelong
<1>7. ASSUME NEW q \in Procs, NEW s \in {"user", "run", "commit"}, At(q, s)' PROVE At(q, s)
  <2>1. CASE q # p
    BY <1>2, <1>7, <2>1 DEF At
  <2>2. CASE q = p /\ (CheckArgs(p) \/ CommitReturns(p))
    BY <1>7, <2>2 DEF At, CheckArgs, CommitReturns, Enter, Leave, CliTypeOK
  <2>3. CASE q = p /\ AcquireLock(p)
    BY <1>7, <2>3 DEF At, AcquireLock, Enter, Leave, CliTypeOK
  <2>4. CASE q = p /\ (ReleaseLock(p) \/ Killed(p))
    BY <1>7, <2>4 DEF At, ReleaseLock, Killed, Crash, Goto, mainVars, CliTypeOK, TypeOK
  <2>5. QED
    BY <2>1, <2>2, <2>3, <2>4
<1>8. Fresh'
  <2>1. \A q \in Procs : (Mine(q))' = Mine(q)
    BY <1>1 DEF Mine
  <2>2. QED
    BY <1>1, <1>2, <1>7, <2>1 DEF Fresh
<1>9. QED
  BY <1>4, <1>5, <1>6, <1>8

LEMMA CheckedStep ==
  ASSUME CliInv, NEW p \in Procs, stage[p] \notin {"args", "exit"}, UNCHANGED request,
         NEW next, stage' = [stage EXCEPT ![p] = next],
         next \in {"commit", "installed"} => First(p) \in WriteOps
  PROVE  Checked'
BY DEF CliInv, CliTypeOK, Checked, First

LEMMA ReadStoreStep ==
  ASSUME CliInv, NEW p \in Procs, NEW s \in Stores, ReadStore(p, s)
  PROVE  CliInv'
<1> USE DEF CliInv
<1>1. LockInv'
  BY LockInvNext DEF ReadStore
<1>2. UNCHANGED <<vars, stores, request, printed>> /\ At(p, s)
  BY DEF ReadStore
<1>3. CASE lists' = [lists EXCEPT ![p][s] = stores[s]] /\ Enter(p, NextStage(p, s))
  <2>1. NextStage(p, s) \in {"user", "run"}
    BY DEF NextStage
  <2>2. CliTypeOK'
    <3>1. TypeOK'
      BY <1>1 DEF LockInv
    <3>2. QED
      BY <1>2, <1>3, <2>1, <3>1 DEF CliTypeOK, Enter, At, Stage, Stores, vars
  <2>3. Checked'
    <3>1. stage[p] \notin {"args", "exit"}
      BY <1>2 DEF At, Stores
    <3>2. QED
      BY <1>2, <1>3, <2>1, <3>1, CheckedStep DEF Enter
  <2>4. (PrefixSeparation /\ ListsBelong)'
    BY <1>2, <1>3 DEF PrefixSeparation, ListsBelong, CliTypeOK
  <2>5. Fresh'
    <3> SUFFICES ASSUME ~stolen', NEW q \in Procs
                 PROVE  /\ (At(q, "user") \/ At(q, "run"))' =>
                             lists'[q]["system"] = stores["system"]
                        /\ At(q, "run")' /\ ~request[q].sys =>
                             lists'[q]["user"] = stores["user"]
                        /\ At(q, "commit")' =>
                             lists'[q][Mine(q)] = ApplyAll(stores[Mine(q)], request[q].ops)
      BY <1>2 DEF Fresh, Mine
    <3>1. CASE q # p
      BY <1>2, <1>3, <3>1 DEF Fresh, At, Enter, CliTypeOK, vars
    <3>2. CASE q = p /\ s = "system"
      BY <1>2, <1>3, <3>2 DEF At, Enter, NextStage, CliTypeOK, vars, Stores
    <3>3. CASE q = p /\ s = "user"
      BY <1>2, <1>3, <3>3 DEF Fresh, At, Enter, NextStage, CliTypeOK, vars, Stores
    <3>4. QED
      BY <3>1, <3>2, <3>3 DEF Stores
  <2>6. QED
    BY <1>1, <2>2, <2>3, <2>4, <2>5
<1>4. CASE Leave(p, "error") /\ UNCHANGED lists
  <2>1. CliTypeOK'
    <3>1. TypeOK'
      BY <1>1 DEF LockInv
    <3>2. QED
      BY <1>2, <1>4, <3>1 DEF CliTypeOK, Leave, At, Stage, vars
  <2>2. Checked'
    <3>1. stage[p] \notin {"args", "exit"}
      BY <1>2 DEF At, Stores
    <3>2. QED
      BY <1>2, <1>4, <3>1, CheckedStep DEF Leave
  <2>3. (PrefixSeparation /\ ListsBelong)'
    BY <1>2, <1>4 DEF PrefixSeparation, ListsBelong
  <2>4. Fresh'
    BY <1>2, <1>4 DEF Fresh, At, Leave, Mine, CliTypeOK, vars
  <2>5. QED
    BY <1>1, <2>1, <2>2, <2>3, <2>4
<1>5. QED
  BY <1>3, <1>4 DEF ReadStore

LEMMA RunReadsStep ==
  ASSUME CliInv, NEW p \in Procs, RunReads(p)
  PROVE  CliInv'
<1> USE DEF CliInv
<1>1. LockInv'
  BY LockInvNext DEF RunReads
<1>2. UNCHANGED <<vars, stores, request, lists>> /\ At(p, "run")
  BY DEF RunReads
<1>3. PICK result \in {"ok", "error"} : Leave(p, result)
  BY DEF RunReads
<1>4. printed' \in [Procs -> [Stores -> Map]]
  <2>1. lists[p] \in [Stores -> Map]
    BY DEF CliTypeOK
  <2>2. QED
    BY <2>1, AnswersType DEF RunReads, CliTypeOK
<1>5. CliTypeOK'
  <2>1. TypeOK'
    BY <1>1 DEF LockInv
  <2>2. QED
    BY <1>2, <1>3, <1>4, <2>1 DEF CliTypeOK, Leave, At, Stage, vars
<1>6. Checked'
  BY <1>2, <1>3, CheckedStep DEF At, Leave
<1>7. (PrefixSeparation /\ ListsBelong)'
  BY <1>2 DEF PrefixSeparation, ListsBelong
<1>8. Fresh'
  BY <1>2, <1>3 DEF Fresh, At, Leave, Mine, CliTypeOK, vars
<1>9. QED
  BY <1>1, <1>5, <1>6, <1>7, <1>8

(* All operations of a call that writes are writes, on the list of its     *)
(* store.                                                                  *)
LEMMA AllWrites ==
  ASSUME CliInv, NEW p \in Procs, At(p, "run"), First(p) \in WriteOps
  PROVE  /\ RequestError(request[p]) = "ok"
         /\ \A i \in DOMAIN request[p].ops : request[p].ops[i].op \in WriteOps
<1>1. RequestError(request[p]) = "ok"
  BY DEF CliInv, Checked, At
<1>2. request[p].ops[1].op \notin ReadOps
  BY DEF First, ReadOps, WriteOps
<1>3. \A i \in DOMAIN request[p].ops : request[p].ops[i].op \notin ReadOps
  BY <1>1, RequestFacts, Accepted DEF CliInv, First
<1>4. QED
  <2>1. ASSUME NEW i \in DOMAIN request[p].ops
        PROVE  request[p].ops[i].op \in {"list", "set", "get", "del"}
    <3>1. request[p].ops[i] \in Operation
      BY RequestFacts DEF CliInv
    <3>2. QED
      BY <3>1 DEF Operation
  <2>2. QED
    BY <1>1, <1>3, <2>1 DEF ReadOps, WriteOps

LEMMA RunWritesStep ==
  ASSUME CliInv, NEW p \in Procs, RunWrites(p)
  PROVE  CliInv'
<1> DEFINE ops == request[p].ops
           old == lists[p][Mine(p)]
<1> USE DEF CliInv
<1>1. LockInv'
  BY LockInvNext DEF RunWrites
<1>2. UNCHANGED <<vars, stores, request, printed>> /\ At(p, "run") /\ First(p) \in WriteOps
  BY DEF RunWrites
<1>3. old \in Map /\ Belongs(old, Mine(p)) /\ Mine(p) \in Stores
  BY RequestFacts DEF CliTypeOK, ListsBelong
<1>4. \A n \in 0 .. Len(ops) : After(old, ops)[n] \in Map /\ Belongs(After(old, ops)[n], Mine(p))
  BY <1>2, <1>3, RequestFacts, AllWrites, AfterType, AfterBelongs DEF Mine
<1> DEFINE Steps(n, next, result) ==
             /\ lists' = [lists EXCEPT ![p][Mine(p)] = After(old, ops)[n]]
             /\ stage' = [stage EXCEPT ![p] = next]
             /\ status' = [status EXCEPT ![p] = result]
             /\ next = "exit" <=> result # "none"
             /\ next = "commit" => n = Len(ops)
<1>5. PICK n \in 0 .. Len(ops), next \in {"commit", "exit"}, result \in {"none", "ok", "error"} :
        Steps(n, next, result)
  <2>1. Len(ops) \in 0 .. Len(ops) /\ DOMAIN ops = 1 .. Len(ops)
    BY RequestFacts
  <2>2. status = [status EXCEPT ![p] = "none"]
    BY <1>2 DEF CliTypeOK, At
  <2>3. CASE /\ lists' = [lists EXCEPT ![p][Mine(p)] = ApplyAll(old, ops)]
             /\ Enter(p, "commit")
    <3>1. Steps(Len(ops), "commit", "none")
      BY <2>2, <2>3 DEF ApplyAll, Enter
    <3>2. QED
      BY <2>1, <3>1
  <2>4. CASE /\ lists' = [lists EXCEPT ![p][Mine(p)] = ApplyAll(old, ops)]
             /\ Leave(p, "ok")
    <3>1. Steps(Len(ops), "exit", "ok")
      BY <2>4 DEF ApplyAll, Leave
    <3>2. QED
      BY <2>1, <3>1
  <2>5. ASSUME NEW n \in DOMAIN ops,
               lists' = [lists EXCEPT ![p][Mine(p)] = After(old, ops)[n - 1]],
               Leave(p, "error")
        PROVE  \E m \in 0 .. Len(ops) : Steps(m, "exit", "error")
    <3>1. Steps(n - 1, "exit", "error")
      BY <2>1, <2>5 DEF Leave
    <3>2. n - 1 \in 0 .. Len(ops)
      BY <2>1
    <3>3. QED
      BY <3>1, <3>2
  <2>6. QED
    BY <2>3, <2>4, <2>5 DEF RunWrites
<1>6. CliTypeOK'
  <2>1. TypeOK'
    BY <1>1 DEF LockInv
  <2>2. lists' \in [Procs -> [Stores -> Map]]
    BY <1>3, <1>4, <1>5 DEF CliTypeOK
  <2>3. QED
    BY <1>2, <1>5, <2>1, <2>2 DEF CliTypeOK, At, Stage, vars
<1>7. Checked'
  BY <1>2, <1>5, CheckedStep DEF At
<1>8. PrefixSeparation' /\ ListsBelong'
  <2>1. ASSUME NEW q \in Procs, NEW s \in Stores PROVE Belongs(lists'[q][s], s)
    <3>1. CASE q = p /\ s = Mine(p)
      <4>1. lists'[q][s] = After(old, ops)[n]
        BY <1>5, <3>1 DEF CliTypeOK
      <4>2. QED
        BY <1>4, <1>5, <3>1, <4>1
    <3>2. CASE ~(q = p /\ s = Mine(p))
      BY <1>3, <1>5, <3>2 DEF CliTypeOK, ListsBelong
    <3>3. QED
      BY <3>1, <3>2
  <2>2. QED
    BY <1>2, <2>1 DEF PrefixSeparation, ListsBelong
<1>9. Fresh'
  <2> SUFFICES ASSUME ~stolen', NEW q \in Procs
               PROVE  /\ (At(q, "user") \/ At(q, "run"))' =>
                           lists'[q]["system"] = stores["system"]
                      /\ At(q, "run")' /\ ~request[q].sys =>
                           lists'[q]["user"] = stores["user"]
                      /\ At(q, "commit")' =>
                           lists'[q][Mine(q)] = ApplyAll(stores[Mine(q)], request[q].ops)
    BY <1>2 DEF Fresh, Mine
  <2>1. CASE q # p
    BY <1>2, <1>5, <2>1 DEF Fresh, At, CliTypeOK, vars
  <2>2. CASE q = p /\ next = "exit"
    BY <1>5, <2>2 DEF At, CliTypeOK
  <2>3. CASE q = p /\ next = "commit"
    <3>1. old = stores[Mine(p)]
      BY <1>2 DEF Fresh, Mine, Target, vars
    <3>2. lists'[p][Mine(p)] = ApplyAll(old, ops)
      BY <1>3, <1>5, <2>3 DEF CliTypeOK, ApplyAll
    <3>3. ~(At(p, "user") \/ At(p, "run"))'
      BY <1>5, <2>3 DEF At, CliTypeOK
    <3>4. QED
      BY <2>3, <3>1, <3>2, <3>3
  <2>4. QED
    BY <2>1, <2>2, <2>3
<1>10. QED
  BY <1>1, <1>6, <1>7, <1>8, <1>9

LEMMA CommitInstallsStep ==
  ASSUME CliInv, NEW p \in Procs, CommitInstalls(p)
  PROVE  CliInv'
<1> USE DEF CliInv
<1>1. LockInv'
  BY LockInvNext DEF CommitInstalls
<1>2. /\ UNCHANGED <<vars, request, lists, printed, status>>
      /\ At(p, "commit")
      /\ stage' = [stage EXCEPT ![p] = "installed"]
      /\ stores' = [stores EXCEPT ![Mine(p)] = lists[p][Mine(p)]]
  BY DEF CommitInstalls, Enter
<1>3. Mine(p) \in Stores
  BY RequestFacts
<1>4. CliTypeOK'
  <2>1. TypeOK'
    BY <1>1 DEF LockInv
  <2>2. QED
    BY <1>2, <1>3, <2>1 DEF CliTypeOK, At, Stage, vars
<1>5. Checked'
  BY <1>2, CheckedStep DEF At, Checked
<1>6. (PrefixSeparation /\ ListsBelong)'
  BY <1>2, <1>3 DEF PrefixSeparation, ListsBelong, CliTypeOK
<1>7. Fresh'
  <2> SUFFICES ASSUME ~stolen, NEW q \in Procs
               PROVE  ~(At(q, "user") \/ At(q, "run") \/ At(q, "commit"))'
    BY <1>2 DEF Fresh, vars
  <2>1. CASE q = p
    BY <1>2, <2>1 DEF At, CliTypeOK
  <2>2. CASE q # p
    BY <1>2, <2>2, LockedAlone DEF At, InCritical, ExclusiveUnlessStolen, MutualExclusion, vars
  <2>3. QED
    BY <2>1, <2>2
<1>8. QED
  BY <1>1, <1>4, <1>5, <1>6, <1>7

LEMMA CliInvNext == CliInv /\ [CliNext]_cliVars => CliInv'
<1> SUFFICES ASSUME CliInv, [CliNext]_cliVars PROVE CliInv'
  OBVIOUS
<1>1. LockInv'
  BY LockStep, LockInvNext DEF CliInv
<1>2. CASE UNCHANGED cliVars
  BY <1>1, <1>2 DEF cliVars, vars, mainVars, CliInv, CliTypeOK, TypeOK, Checked, First,
                    PrefixSeparation, ListsBelong, Fresh, At, Mine
<1>3. CASE CliNext
  <2> PICK p \in Procs :
        \/ CheckArgs(p)
        \/ AcquireLock(p)
        \/ ReadStore(p, "system") \/ ReadStore(p, "user")
        \/ RunReads(p)
        \/ RunWrites(p)
        \/ CommitInstalls(p)
        \/ CommitReturns(p)
        \/ ReleaseLock(p)
        \/ Killed(p)
    BY <1>3 DEF CliNext
  <2>1. CASE CheckArgs(p) \/ AcquireLock(p) \/ CommitReturns(p) \/ ReleaseLock(p) \/ Killed(p)
    BY <2>1, <1>1, QuietStep
  <2>2. CASE ReadStore(p, "system") \/ ReadStore(p, "user")
    BY <2>2, ReadStoreStep DEF Stores
  <2>3. CASE RunReads(p)
    BY <2>3, RunReadsStep
  <2>4. CASE RunWrites(p)
    BY <2>4, RunWritesStep
  <2>5. CASE CommitInstalls(p)
    BY <2>5, CommitInstallsStep
  <2>6. QED
    BY <2>1, <2>2, <2>3, <2>4, <2>5
<1>4. QED
  BY <1>2, <1>3

LEMMA CliInvAlways == CliSpec => []CliInv
BY CliInvInit, CliInvNext, PTL DEF CliSpec

(* The types, for every set of invocations and of requests.                *)
THEOREM CliTypeCorrect == CliSpec => []CliTypeOK
<1>1. CliInv => CliTypeOK
  BY DEF CliInv
<1>2. QED
  BY CliInvAlways, <1>1, PTL

(* A key has one place, whatever the invocations are asked.                *)
THEOREM CliPrefixSeparation == CliSpec => []PrefixSeparation
<1>1. CliInv => PrefixSeparation
  BY DEF CliInv
<1>2. QED
  BY CliInvAlways, <1>1, PTL

(* No update is lost, however many invocations run.                        *)
THEOREM CliCommitIsFresh == CliSpec => []CommitIsFresh
<1>1. CliInv => CommitIsFresh
  BY DEF CliInv, Fresh, CommitIsFresh
<1>2. QED
  BY CliInvAlways, <1>1, PTL

-------------------------------------------------------------------------------

(* The operators on requests are those of the abstract module. *)
LEMMA SerialSame ==
  ASSUME NEW asked, NEW maps, NEW map
  PROVE  /\ Serial!ReadOps = ReadOps
         /\ Serial!WriteOps = WriteOps
         /\ Serial!RequestError(asked) = RequestError(asked)
         /\ Serial!Answers(maps, asked) = Answers(maps, asked)
         /\ Serial!Target(asked) = Target(asked)
         /\ Serial!ApplyAll(map, asked.ops) = ApplyAll(map, asked.ops)
<1>1. Serial!ReadOps = ReadOps /\ Serial!WriteOps = WriteOps
  BY DEF Serial!ReadOps, ReadOps, Serial!WriteOps, WriteOps
<1>2. Serial!RequestError(asked) = RequestError(asked)
  BY DEF Serial!RequestError, RequestError, Serial!OperationError, OperationError,
         Serial!SystemUnlocked, SystemUnlocked, Serial!Kind, Kind,
         Serial!ReadOps, ReadOps, Serial!WriteOps, WriteOps
<1>3. Serial!Answers(maps, asked) = Answers(maps, asked)
  BY DEF Serial!Answers, Answers, Serial!Visible, Visible, Serial!Stores, Stores
<1>4. Serial!Target(asked) = Target(asked)
  BY DEF Serial!Target, Target
<1>5. Serial!ApplyAll(map, asked.ops) = ApplyAll(map, asked.ops)
  BY DEF Serial!ApplyAll, ApplyAll, Serial!After, After, Serial!Apply, Apply
<1>6. QED
  BY <1>1, <1>2, <1>3, <1>4, <1>5

(* What the callers see of a step of p. *)
LEMMA PhaseSteps ==
  ASSUME CliTypeOK, NEW p \in Procs
  PROVE  /\ \A next \in Stage :
              Enter(p, next) /\ next \notin {"installed", "exit"} /\ stage[p] \notin {"installed", "exit"}
                => Phase' = Phase
         /\ Enter(p, "installed") /\ stage[p] \notin {"installed", "exit"}
                => Phase[p] = "begun" /\ Phase' = [Phase EXCEPT ![p] = "applied"]
         /\ \A result \in {"ok", "error"} :
              Leave(p, result) => Phase' = [Phase EXCEPT ![p] = result]
         /\ stage[p] \notin {"installed", "exit"} => Phase[p] = "begun"
         /\ stage[p] = "installed" => Phase[p] = "applied"
BY DEF CliTypeOK, Phase, Enter, Leave, Stage

(* An invocation that fails changes nothing the callers see but that.      *)
LEMMA SerialFail ==
  ASSUME CliTypeOK, NEW p \in Procs, stage[p] # "exit", Leave(p, "error"),
         UNCHANGED <<stores, request, printed>>
  PROVE  Serial!Next
<1>1. Phase[p] \in {"begun", "applied"} /\ Phase' = [Phase EXCEPT ![p] = "error"]
  BY PhaseSteps DEF Stage
<1>2. Serial!Fail(p)
  BY <1>1 DEF Serial!Fail, Serial!Advance
<1>3. QED
  BY <1>2 DEF Serial!Next

(* What is read depends on the stores that are visible. *)
LEMMA AnswersSame ==
  ASSUME NEW a \in [Stores -> Map], NEW b \in [Stores -> Map], NEW asked,
         \A s \in Visible(asked) : a[s] = b[s]
  PROVE  Answers(a, asked) \subseteq Answers(b, asked)
<1> DEFINE key == asked.ops[1].key
           nothing == [s \in Stores |-> [k \in Keys |-> NULL]]
<1> SUFFICES ASSUME NEW shown \in Answers(a, asked) PROVE shown \in Answers(b, asked)
  OBVIOUS
<1>1. CASE asked.ops[1].op = "get"
  <2>1. PICK s \in {t \in Visible(asked) : a[t][key] # NULL} :
          shown = [nothing EXCEPT ![s][key] = a[s][key]]
    BY <1>1 DEF Answers
  <2>2. s \in {t \in Visible(asked) : b[t][key] # NULL}
        /\ shown = [nothing EXCEPT ![s][key] = b[s][key]]
    BY <2>1
  <2>3. Answers(b, asked) =
          {[nothing EXCEPT ![t][key] = b[t][key]] : t \in {u \in Visible(asked) : b[u][key] # NULL}}
    BY <1>1 DEF Answers
  <2>4. QED
    <3> HIDE DEF nothing, key
    <3>1. QED
      BY <2>2, <2>3
<1>2. CASE asked.ops[1].op # "get"
  <2>1. PICK some \in SUBSET (Visible(asked) \X Keys) :
          shown = [s \in Stores |-> [k \in Keys |->
                     IF <<s, k>> \in some THEN a[s][k] ELSE NULL]]
    BY <1>2 DEF Answers
  <2>2. \A s \in Stores, k \in Keys :
          (IF <<s, k>> \in some THEN a[s][k] ELSE NULL)
            = (IF <<s, k>> \in some THEN b[s][k] ELSE NULL)
    BY <2>1
  <2>3. shown = [s \in Stores |-> [k \in Keys |->
                   IF <<s, k>> \in some THEN b[s][k] ELSE NULL]]
    BY <2>1, <2>2
  <2> DEFINE Show(set) == [s \in Stores |-> [k \in Keys |->
                             IF <<s, k>> \in set THEN b[s][k] ELSE NULL]]
  <2>4. Answers(b, asked) = {Show(set) : set \in SUBSET (Visible(asked) \X Keys)}
    BY <1>2 DEF Answers
  <2>5. shown = Show(some)
    BY <2>3
  <2>6. QED
    <3> HIDE DEF Show
    <3>1. QED
      BY <2>1, <2>4, <2>5
<1>3. QED
  BY <1>1, <1>2

LEMMA SerialReads ==
  ASSUME CliInv, NEW p \in Procs, RunReads(p), ~stolen
  PROVE  Serial!Next
<1> USE DEF CliInv
<1>1. At(p, "run") /\ First(p) \in ReadOps /\ UNCHANGED <<stores, request>>
  BY DEF RunReads
<1>2. CASE /\ \E shown \in Answers(lists[p], request[p]) :
                printed' = [printed EXCEPT ![p] = shown]
           /\ Leave(p, "ok")
  <2>1. PICK shown \in Answers(lists[p], request[p]) : printed' = [printed EXCEPT ![p] = shown]
    BY <1>2
  <2>2. \A s \in Visible(request[p]) : lists[p][s] = stores[s]
    <3>1. request[p].sys \in BOOLEAN
      BY RequestFacts DEF Request
    <3>2. QED
      BY <1>1, <3>1 DEF Fresh, Visible, Stores
  <2>3. shown \in Answers(stores, request[p])
    BY <2>1, <2>2, AnswersSame DEF CliTypeOK
  <2>4. Phase[p] = "begun" /\ Phase' = [Phase EXCEPT ![p] = "ok"]
    BY <1>1, <1>2, PhaseSteps DEF At
  <2>5. RequestError(request[p]) = "ok" /\ request[p].ops[1].op \in ReadOps
    BY <1>1 DEF Checked, At, First
  <2>6. Serial!Answer(p)
    BY <1>1, <2>1, <2>3, <2>4, <2>5, SerialSame
       DEF Serial!Answer, Serial!Begun, Serial!Advance
  <2>7. QED
    BY <2>6 DEF Serial!Next
<1>3. CASE Leave(p, "error") /\ UNCHANGED printed
  BY <1>1, <1>3, SerialFail DEF At
<1>4. QED
  BY <1>2, <1>3 DEF RunReads

LEMMA SerialWrites ==
  ASSUME CliInv, NEW p \in Procs, RunWrites(p), ~stolen
  PROVE  [Serial!Next]_(Serial!vars)
<1> DEFINE ops == request[p].ops
           old == lists[p][Mine(p)]
<1> USE DEF CliInv
<1>1. At(p, "run") /\ First(p) \in WriteOps /\ UNCHANGED <<stores, request, printed>>
  BY DEF RunWrites
<1>2. CASE Enter(p, "commit")
  <2>1. Phase' = Phase
    BY <1>1, <1>2, PhaseSteps DEF At, Stage
  <2>2. QED
    BY <1>1, <2>1 DEF Serial!vars
<1>3. CASE Leave(p, "ok") /\ ~WritePerformed(old, ops)
  <2>1. old = stores[Mine(p)]
    BY <1>1 DEF Fresh, Mine, Target
  <2>2. stores[Target(request[p])] = ApplyAll(stores[Target(request[p])], ops)
    BY <1>3, <2>1, RequestFacts, NothingPerformed DEF Mine
  <2>3. Phase[p] = "begun" /\ Phase' = [Phase EXCEPT ![p] = "ok"]
    BY <1>1, <1>3, PhaseSteps DEF At
  <2>4. RequestError(request[p]) = "ok" /\ request[p].ops[1].op \in WriteOps
    BY <1>1 DEF Checked, At, First
  <2>5. Serial!Redundant(p)
    BY <1>1, <2>2, <2>3, <2>4, SerialSame
       DEF Serial!Redundant, Serial!Begun, Serial!Result, Serial!Advance
  <2>6. QED
    BY <2>5 DEF Serial!Next
<1>4. CASE Leave(p, "error")
  BY <1>1, <1>4, SerialFail DEF At
<1>5. QED
  BY <1>2, <1>3, <1>4 DEF RunWrites

LEMMA SerialCommit ==
  ASSUME CliInv, NEW p \in Procs, CommitInstalls(p), ~stolen
  PROVE  Serial!Next
<1> USE DEF CliInv
<1>1. /\ At(p, "commit")
      /\ stores' = [stores EXCEPT ![Mine(p)] = lists[p][Mine(p)]]
      /\ Enter(p, "installed")
      /\ UNCHANGED <<request, printed>>
  BY DEF CommitInstalls
<1>2. lists[p][Mine(p)] = ApplyAll(stores[Mine(p)], request[p].ops)
  BY <1>1 DEF Fresh
<1>3. Phase[p] = "begun" /\ Phase' = [Phase EXCEPT ![p] = "applied"]
  BY <1>1, PhaseSteps DEF At
<1>4. RequestError(request[p]) = "ok" /\ request[p].ops[1].op \in WriteOps
  BY <1>1 DEF Checked, At, First
<1>5. Serial!Write(p)
  BY <1>1, <1>2, <1>3, <1>4, SerialSame
     DEF Serial!Write, Serial!Begun, Serial!Result, Serial!Advance, Mine
<1>6. QED
  BY <1>5 DEF Serial!Next

LEMMA SerialStep ==
  CliInv /\ [CliNext]_cliVars => [Serial!Next \/ stolen]_(Serial!vars)
<1> SUFFICES ASSUME CliInv, [CliNext]_cliVars, ~stolen
             PROVE  [Serial!Next]_(Serial!vars)
  OBVIOUS
<1> USE DEF CliInv
<1>1. CASE UNCHANGED mainVars
  BY <1>1 DEF mainVars, Phase, Serial!vars
<1>2. CASE CliNext
  <2> PICK p \in Procs :
        \/ CheckArgs(p)
        \/ AcquireLock(p)
        \/ ReadStore(p, "system") \/ ReadStore(p, "user")
        \/ RunReads(p)
        \/ RunWrites(p)
        \/ CommitInstalls(p)
        \/ CommitReturns(p)
        \/ ReleaseLock(p)
        \/ Killed(p)
    BY <1>2 DEF CliNext
  <2>1. ASSUME stage[p] \notin {"installed", "exit"}, UNCHANGED <<stores, request, printed>>,
               NEW next \in Stage \ {"installed", "exit"},
               Enter(p, next) \/ UNCHANGED <<stage, status>> \/ Leave(p, "error")
        PROVE  [Serial!Next]_(Serial!vars)
    <3>1. CASE Enter(p, next)
      BY <2>1, <3>1, PhaseSteps DEF Serial!vars
    <3>2. CASE UNCHANGED <<stage, status>>
      BY <2>1, <3>2 DEF Serial!vars, Phase
    <3>3. CASE Leave(p, "error")
      BY <2>1, <3>3, SerialFail
    <3>4. QED
      BY <2>1, <3>1, <3>2, <3>3
  <2>2. CASE CheckArgs(p)
    <3>1. Enter(p, "lock") \/ Leave(p, "error")
      BY <2>2 DEF CheckArgs
    <3>2. stage[p] = "args" /\ UNCHANGED <<stores, request, printed>>
      BY <2>2 DEF CheckArgs
    <3>3. QED
      BY <2>1, <3>1, <3>2 DEF Stage
  <2>3. CASE AcquireLock(p)
    <3>1. Enter(p, "system") \/ Leave(p, "error") \/ UNCHANGED <<stage, status>>
      BY <2>3 DEF AcquireLock
    <3>2. stage[p] = "lock" /\ UNCHANGED <<stores, request, printed>>
      BY <2>3 DEF AcquireLock
    <3>3. QED
      BY <2>1, <3>1, <3>2 DEF Stage
  <2>4. CASE ReadStore(p, "system") \/ ReadStore(p, "user")
    <3>1. PICK next \in {"user", "run"} : Enter(p, next) \/ Leave(p, "error")
      BY <2>4 DEF ReadStore, NextStage
    <3>2. stage[p] \in Stores /\ UNCHANGED <<stores, request, printed>>
      BY <2>4 DEF ReadStore, At, Stores
    <3>3. QED
      BY <2>1, <3>1, <3>2 DEF Stage, Stores
  <2>5. CASE RunReads(p)
    BY <2>5, SerialReads
  <2>6. CASE RunWrites(p)
    BY <2>6, SerialWrites
  <2>7. CASE CommitInstalls(p)
    BY <2>7, SerialCommit
  <2>8. CASE CommitReturns(p)
    <3>1. CASE At(p, "installed") /\ Leave(p, "ok")
      <4>1. Phase[p] = "applied" /\ Phase' = [Phase EXCEPT ![p] = "ok"]
        BY <3>1, PhaseSteps DEF At
      <4>2. Serial!Finish(p)
        BY <2>8, <4>1 DEF CommitReturns, Serial!Finish, Serial!Advance
      <4>3. QED
        BY <4>2 DEF Serial!Next
    <3>2. CASE stage[p] # "exit" /\ Leave(p, "error")
      BY <2>8, <3>2, SerialFail DEF CommitReturns
    <3>3. QED
      BY <2>8, <3>1, <3>2 DEF CommitReturns, At
  <2>9. CASE ReleaseLock(p) \/ Killed(p)
    BY <1>1, <2>9 DEF ReleaseLock, Killed
  <2>10. QED
    BY <2>2, <2>3, <2>4, <2>5, <2>6, <2>7, <2>8, <2>9
<1>3. QED
  BY <1>1, <1>2 DEF cliVars

(* Whatever the invocations are asked and however many there are, their    *)
(* callers see them done one after the other, until a lock is stolen.      *)
THEOREM CliIsSerial == CliSpec => SerialUnlessStolen
BY CliInvAlways, SerialStep, PTL DEF SerialUnlessStolen, CliSpec
===============================================================================
