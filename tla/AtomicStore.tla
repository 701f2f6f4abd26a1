----------------------------- MODULE AtomicStore -----------------------------
(***************************************************************************)
(* What a store of variables promises its users (nvram.h): the stored list *)
(* changes in one step, from the old list to the list being committed, at  *)
(* most once per commit and only inside it; a commit that returns 0 has    *)
(* changed it; a commit that returns an error, or dies, has changed it or  *)
(* has not; opening the store returns the stored list.                     *)
(***************************************************************************)
CONSTANTS
  Contents,   \* the lists that can be stored
  EmptyList,  \* what a store that was never written holds
  NoList      \* no list: nothing is open, nothing is being committed

VARIABLES
  stored,     \* the list the next user will read
  view,       \* the list the open handle shows its user, or NoList
  pending     \* the list being committed, or NoList

vars == <<stored, view, pending>>

Init ==
  /\ stored = EmptyList
  /\ view = NoList
  /\ pending = NoList

Open ==
  /\ view = NoList
  /\ pending = NoList
  /\ view' = stored
  /\ UNCHANGED <<stored, pending>>

Begin(l) ==
  /\ view # NoList
  /\ view' = NoList
  /\ pending' = l
  /\ UNCHANGED stored

Install ==
  /\ pending # NoList
  /\ stored' = pending
  /\ UNCHANGED <<view, pending>>

Succeed ==
  /\ pending # NoList
  /\ stored = pending
  /\ view' = pending
  /\ pending' = NoList
  /\ UNCHANGED stored

(* Closing the handle, failing, dying. *)
End ==
  /\ view' = NoList
  /\ pending' = NoList
  /\ UNCHANGED stored

Next ==
  \/ Open
  \/ \E l \in Contents : Begin(l)
  \/ Install
  \/ Succeed
  \/ End

Spec == Init /\ [][Next]_vars
==============================================================================
