------------------------------- MODULE NvramCli -------------------------------
(***************************************************************************)
(* main of main.c: invocations that check what they are asked, take the    *)
(* lock of Lockfile, read the stores, print or change the lists they read, *)
(* commit one of them, and release the lock.                               *)
(*                                                                         *)
(* A store is what NvramStore is shown to be with two sections, an         *)
(* AtomicStore: nvram_init returns what is stored or fails, nvram_commit   *)
(* replaces it in one step or not, whatever it returns.  Reading is one    *)
(* step, as it is while nobody writes: once the lock is stolen the module  *)
(* says nothing.                                                           *)
(***************************************************************************)
EXTENDS Lockfile, NvramRequest

CONSTANT Requests   \* what the invocations can be asked

ASSUME RequestsAssumption == Requests \subseteq Request

VARIABLES
  stores,   \* per store, its variables
  request,  \* per invocation, its operations and options
  stage,    \* per invocation, where it is in main
  lists,    \* per invocation, list_system and list_user
  status,   \* per invocation, what main returns
  printed   \* per invocation, its output

mainVars == <<stores, request, stage, lists, status, printed>>

cliVars == <<vars, mainVars>>

Stage == {"args", "lock", "system", "user", "run", "commit", "installed", "exit"}

Empty == [key \in Keys |-> NULL]

(* The stores are as earlier invocations left them. *)
CliInit ==
  /\ Init
  /\ stores \in [Stores -> Map]
  /\ \A s \in Stores : Belongs(stores[s], s)
  /\ request \in [Procs -> Requests]
  /\ stage = [p \in Procs |-> "args"]
  /\ lists = [p \in Procs |-> [s \in Stores |-> Empty]]
  /\ status = [p \in Procs |-> "none"]
  /\ printed = [p \in Procs |-> [s \in Stores |-> Empty]]

Enter(p, next) == stage' = [stage EXCEPT ![p] = next] /\ UNCHANGED status

(* goto exit *)
Leave(p, result) ==
  /\ stage' = [stage EXCEPT ![p] = "exit"]
  /\ status' = [status EXCEPT ![p] = result]

CheckArgs(p) ==
  /\ stage[p] = "args"
  /\ pc[p] = "open"
  /\ IF RequestError(request[p]) = "ok" THEN Enter(p, "lock") ELSE Leave(p, "error")
  /\ UNCHANGED <<vars, stores, request, lists, printed>>

(* acquire_lockfile *)
AcquireLock(p) ==
  /\ stage[p] = "lock"
  /\ Acquire(p)
  /\ CASE pc'[p] = "work" -> Enter(p, "system")
       [] pc'[p] = "done" -> Leave(p, "error")
       [] OTHER           -> UNCHANGED <<stage, status>>
  /\ UNCHANGED <<stores, request, lists, printed>>

At(p, s) == pc[p] = "work" /\ stage[p] = s

NextStage(p, s) == IF s = "system" /\ ~request[p].sys THEN "user" ELSE "run"

(* Without the goto exit. *)
ReadStoreGoesOn(p, s) ==
  /\ At(p, s)
  /\ \/ /\ lists' = [lists EXCEPT ![p][s] = stores[s]]
        /\ Enter(p, NextStage(p, s))
     \/ /\ stage' = [stage EXCEPT ![p] = NextStage(p, s)]
        /\ status' = [status EXCEPT ![p] = "error"]
        /\ UNCHANGED lists
  /\ UNCHANGED <<vars, stores, request, printed>>

(* nvram_init *)
ReadStore(p, s) ==
  /\ At(p, s)
  /\ \/ /\ lists' = [lists EXCEPT ![p][s] = stores[s]]
        /\ Enter(p, NextStage(p, s))
     \/ /\ Leave(p, "error")
        /\ UNCHANGED lists
  /\ UNCHANGED <<vars, stores, request, printed>>

First(p) == request[p].ops[1].op

RunReads(p) ==
  /\ At(p, "run")
  /\ First(p) \in ReadOps
  /\ \/ /\ \E shown \in Answers(lists[p], request[p]) :
             printed' = [printed EXCEPT ![p] = shown]
        /\ Leave(p, "ok")
     \/ /\ First(p) = "get"
        /\ Leave(p, "error")
        /\ UNCHANGED printed
  /\ UNCHANGED <<vars, stores, request, lists>>

Mine(p) == Target(request[p])

(* The loop over the operations; libnvram_list_set can run out of memory   *)
(* at any, and leave the ones before in a list that is then thrown away.   *)
RunWrites(p) ==
  LET ops == request[p].ops
      old == lists[p][Mine(p)]
  IN  /\ At(p, "run")
      /\ First(p) \in WriteOps
      /\ \/ /\ lists' = [lists EXCEPT ![p][Mine(p)] = ApplyAll(old, ops)]
            /\ IF WritePerformed(old, ops) THEN Enter(p, "commit") ELSE Leave(p, "ok")
         \/ \E n \in DOMAIN ops :
              /\ ops[n].op = "set"
              /\ lists' = [lists EXCEPT ![p][Mine(p)] = After(old, ops)[n - 1]]
              /\ Leave(p, "error")
      /\ UNCHANGED <<vars, stores, request, printed>>

(* nvram_commit *)
CommitInstalls(p) ==
  /\ At(p, "commit")
  /\ stores' = [stores EXCEPT ![Mine(p)] = lists[p][Mine(p)]]
  /\ Enter(p, "installed")
  /\ UNCHANGED <<vars, request, lists, printed>>

(* A commit may fail before and after its list is what will be read. *)
CommitReturns(p) ==
  /\ \/ At(p, "installed") /\ Leave(p, "ok")
     \/ (At(p, "commit") \/ At(p, "installed")) /\ Leave(p, "error")
  /\ UNCHANGED <<vars, stores, request, lists, printed>>

ReleaseLock(p) ==
  /\ stage[p] = "exit"
  /\ Work(p) \/ CloseLockfile(p) \/ RemoveLockfile(p)
  /\ UNCHANGED mainVars

Killed(p) ==
  /\ Crash(p)
  /\ UNCHANGED mainVars

CliNext ==
  \E p \in Procs :
    \/ CheckArgs(p)
    \/ AcquireLock(p)
    \/ ReadStore(p, "system") \/ ReadStore(p, "user")
    \/ RunReads(p)
    \/ RunWrites(p)
    \/ CommitInstalls(p)
    \/ CommitReturns(p)
    \/ ReleaseLock(p)
    \/ Killed(p)

CliSpec == CliInit /\ [][CliNext]_cliVars

-------------------------------------------------------------------------------

(* Every variable keeps its type, and an invocation knows what it returns  *)
(* exactly when it has stopped working on the stores.                      *)
CliTypeOK ==
  /\ TypeOK
  /\ stores \in [Stores -> Map]
  /\ request \in [Procs -> Requests]
  /\ stage \in [Procs -> Stage]
  /\ lists \in [Procs -> [Stores -> Map]]
  /\ status \in [Procs -> {"none", "ok", "error"}]
  /\ printed \in [Procs -> [Stores -> Map]]
  /\ \A p \in Procs : status[p] # "none" <=> stage[p] = "exit"
  /\ \A p \in Procs : pc[p] = "work" => stage[p] \notin {"args", "lock"}

(* Unless the lock was stolen, a list that is about to be committed is the *)
(* stored one, as it is now, with the operations of the invocation done:   *)
(* no update that another invocation made since is lost.                   *)
CommitIsFresh ==
  \A p \in Procs :
    ~stolen /\ At(p, "commit") =>
      lists[p][Mine(p)] = ApplyAll(stores[Mine(p)], request[p].ops)

(* No invocation puts a key with the system prefix in the user store, or   *)
(* one without it in the system store, whatever it deletes and whichever   *)
(* operations it combines: a key has one place.                            *)
PrefixSeparation == \A s \in Stores : Belongs(stores[s], s)

Phase ==
  [p \in Procs |-> IF status[p] # "none" THEN status[p]
                   ELSE IF stage[p] = "installed" THEN "applied"
                   ELSE "begun"]

(* What the callers see. *)
Serial == INSTANCE SerialStores WITH phase <- Phase

(* Unless the lock was stolen, every step of main is one that a store      *)
(* shared by invocations that run one after the other would make: several  *)
(* operations of one call are done together or not at all, a call that     *)
(* returns 0 has done them, and a read shows the stores as they are.       *)
SerialUnlessStolen == [][Serial!Next \/ stolen]_Serial!vars
===============================================================================
