----------------------------- MODULE SerialStores -----------------------------
(***************************************************************************)
(* What nvram promises those who call it side by side: an invocation that  *)
(* writes does all of its operations on the store as it is then, in one    *)
(* step and at most once, and one that says so has done them; an           *)
(* invocation that reads shows what the stores hold at one moment; one     *)
(* that returns an error may have written, but never in part.              *)
(***************************************************************************)
EXTENDS NvramRequest

CONSTANT Procs   \* the invocations

VARIABLES
  stores,   \* per store, its variables
  request,  \* per invocation, what it is asked
  phase,    \* per invocation, how far it is
  printed   \* per invocation, what it has shown

vars == <<stores, request, phase, printed>>

Begun(p, kind) ==
  /\ phase[p] = "begun"
  /\ RequestError(request[p]) = "ok"
  /\ request[p].ops[1].op \in kind

Result(p) == ApplyAll(stores[Target(request[p])], request[p].ops)

Advance(p, to) == phase' = [phase EXCEPT ![p] = to]

Write(p) ==
  /\ Begun(p, WriteOps)
  /\ stores' = [stores EXCEPT ![Target(request[p])] = Result(p)]
  /\ Advance(p, "applied")
  /\ UNCHANGED <<request, printed>>

Finish(p) ==
  /\ phase[p] = "applied"
  /\ Advance(p, "ok")
  /\ UNCHANGED <<stores, request, printed>>

(* The store is already as the operations would leave it. *)
Redundant(p) ==
  /\ Begun(p, WriteOps)
  /\ stores[Target(request[p])] = Result(p)
  /\ Advance(p, "ok")
  /\ UNCHANGED <<stores, request, printed>>

Answer(p) ==
  /\ Begun(p, ReadOps)
  /\ \E shown \in Answers(stores, request[p]) :
       printed' = [printed EXCEPT ![p] = shown]
  /\ Advance(p, "ok")
  /\ UNCHANGED <<stores, request>>

Fail(p) ==
  /\ phase[p] \in {"begun", "applied"}
  /\ Advance(p, "error")
  /\ UNCHANGED <<stores, request, printed>>

Next ==
  \E p \in Procs :
    Write(p) \/ Finish(p) \/ Redundant(p) \/ Answer(p) \/ Fail(p)
===============================================================================
