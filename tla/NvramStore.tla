------------------------------ MODULE NvramStore ------------------------------
(***************************************************************************)
(* A store of variables on one or two sections: nvram_init, nvram_commit   *)
(* and nvram_close of nvram.c, over the transaction operators of           *)
(* LibnvramTransaction and a storage interface whose writes take time, can *)
(* fail half-way, and can be cut off by the death of the process.          *)
(*                                                                         *)
(* One handle is open at a time (main.c takes its lock first).  A handle   *)
(* may commit many times, which is what nvram.h offers and more than       *)
(* main.c does; after a failed commit it is closed, as main.c does.        *)
(***************************************************************************)
EXTENDS LibnvramTransaction

CONSTANTS
  Devices,    \* the sections that are configured
  EmptyList,  \* the list without entries
  NoList      \* the list pointer of a closed handle

(* With neither section configured nvram_commit has no device to write.    *)
ASSUME DevicesAssumption == Devices \in {{"A"}, {"B"}, {"A", "B"}}

ASSUME ListAssumption == EmptyList \in Contents /\ NoList \notin Contents

VARIABLES
  dev,    \* what the devices hold
  pc,     \* where the program is between and inside the calls of nvram.h
  trans,  \* nvram->trans
  list,   \* the list read by nvram_init, then the one last committed
  op,     \* nvram_commit's op
  hdr     \* nvram_commit's hdr

vars == <<dev, pc, trans, list, op, hdr>>

handle == <<trans, list, op, hdr>>

PC == {"closed", "open", "write1", "write2", "update", "failed"}

(* pnvram after its memset. *)
ZeroTransaction ==
  [section |-> [s \in Section |-> [hdr |-> ZeroHeader, state |-> {}]],
   active  |-> {}]

NoOperation == [write |-> "A", reset |-> FALSE]

(*-------------------------------------------------------------------------*)
(* nvram_init                                                              *)
(*-------------------------------------------------------------------------*)

(* The buffers read_section returns; a section that is not configured is   *)
(* a NULL buffer of length 0.                                              *)
Buffers == [s \in Section |-> IF s \in Devices THEN dev[s] ELSE BlankImage]

(* Deserializes whatever section A holds when no section is active. *)
LoadedListUnchecked(image) == image[Preferred(InitTransaction(image).active)].data

LoadedList(image) ==
  LET active == InitTransaction(image).active
  IN  IF active = {} THEN EmptyList ELSE image[Preferred(active)].data

(* A call that fails returns without a handle, and changes nothing.  *)
NvramInit ==
  /\ pc = "closed"
  /\ pc' = "open"
  /\ trans' = InitTransaction(Buffers)
  /\ list' = LoadedList(Buffers)
  /\ UNCHANGED <<dev, op, hdr>>

(*-------------------------------------------------------------------------*)
(* nvram_commit                                                            *)
(*-------------------------------------------------------------------------*)

(* The call up to its first write.  libnvram_serialize returns 0 only for  *)
(* a buffer below libnvram_serialize_size, and here it has that size.      *)
CommitStart(l) ==
  /\ pc = "open"
  /\ LET next == NextTransaction(trans)
     IN  /\ op' = next.op
         /\ hdr' = [user |-> next.user, crc32 |-> l]
  /\ list' = l
  /\ pc' = "write1"
  /\ UNCHANGED <<dev, trans>>

(* malloc of the write buffer fails. *)
CommitNoMemory ==
  /\ pc = "open"
  /\ pc' = "failed"
  /\ UNCHANGED <<dev, handle>>

Transactional == Devices = Section

Writing == pc \in {"write1", "write2"}

FirstTarget == IF Transactional THEN op.write ELSE CHOOSE s \in Devices : TRUE

Target == IF pc = "write1" THEN FirstTarget ELSE Other(FirstTarget)

(* libnvram_serialize *)
Serialized == [hdr |-> hdr, data |-> list]

(* Once every byte is in place nothing more happens to the section.        *)
WriteProgress ==
  /\ Writing
  /\ dev[Target] # Serialized
  /\ \E image \in PartlyWritten(dev[Target], Serialized) :
       dev' = [dev EXCEPT ![Target] = image]
  /\ UNCHANGED <<pc, handle>>

WriteFails ==
  /\ Writing
  /\ pc' = "failed"
  /\ UNCHANGED <<dev, handle>>

NeedsSecondWrite == Transactional /\ op.reset /\ pc = "write1"

WriteReturns ==
  /\ Writing
  /\ dev' = [dev EXCEPT ![Target] = Serialized]
  /\ pc' = IF NeedsSecondWrite THEN "write2" ELSE "update"
  /\ UNCHANGED handle

CommitReturns ==
  /\ pc = "update"
  /\ trans' = UpdateTransaction(trans, op, hdr)
  /\ op' = NoOperation
  /\ hdr' = ZeroHeader
  /\ pc' = "open"
  /\ UNCHANGED <<dev, list>>

(*-------------------------------------------------------------------------*)
(* nvram_close, and the end of the process at any point.                   *)
(*-------------------------------------------------------------------------*)

Forget ==
  /\ pc' = "closed"
  /\ trans' = ZeroTransaction
  /\ list' = NoList
  /\ op' = NoOperation
  /\ hdr' = ZeroHeader
  /\ UNCHANGED dev

NvramClose == pc \in {"open", "failed"} /\ Forget

Crash == pc \notin {"closed", "open", "failed"} /\ Forget

Init ==
  /\ dev = [s \in Section |-> BlankImage]
  /\ pc = "closed"
  /\ trans = ZeroTransaction
  /\ list = NoList
  /\ op = NoOperation
  /\ hdr = ZeroHeader

Next ==
  \/ NvramInit
  \/ \E l \in Contents : CommitStart(l)
  \/ CommitNoMemory
  \/ WriteProgress
  \/ WriteFails
  \/ WriteReturns
  \/ CommitReturns
  \/ NvramClose
  \/ Crash

Spec == Init /\ [][Next]_vars

-------------------------------------------------------------------------------

(* Every variable keeps its type, and an open handle's list is a list.     *)
TypeOK ==
  /\ dev \in [Section -> Image]
  /\ pc \in PC
  /\ trans \in Transaction
  /\ list \in Contents \cup {NoList}
  /\ pc \in {"open", "write1", "write2", "update"} => list \in Contents
  /\ op \in Operation
  /\ hdr \in Header

Verified(s) == IsVerified(ValidateSection(Buffers[s]))

(* Whenever a write of nvram_commit is under way and the store has ever    *)
(* held a list, the section that is not being written passes both          *)
(* checksums: a write never starts on the last good copy.  This is what    *)
(* the choice of section in libnvram_next_transaction, and the order of    *)
(* the two writes of a counter reset, are for.                             *)
OneGoodSection ==
  Writing /\ trans.active # {} => Verified(Other(Target))

(* A commit numbers its section one past the good one that it leaves       *)
(* alone, or restarts both at 1.                                           *)
InStep(m, n) == m - n \in {-1, 0, 1} \/ {m, n} = {1, UINT32_MAX - 1}

(* find_active compares counters as plain integers, so they must never     *)
(* wrap: no header that passes its checksum ever counts 0 or UINT32_MAX,   *)
(* and two good sections count one apart or the same, unless a reset at    *)
(* the limit has written just one of them, over any number of commits that *)
(* fail, are interrupted and start again.                                  *)
CountersInStep ==
  /\ \A s \in Devices : dev[s].hdr # Garbage => dev[s].hdr.user \in 1 .. UINT32_MAX - 1
  /\ (\A s \in Section : Verified(s)) => InStep(dev["A"].hdr.user, dev["B"].hdr.user)

(* Two good sections with the same counter, both active to find_active,    *)
(* hold the same list, so it does not matter which one nvram_init reads.   *)
TieSameData ==
  (\A s \in Section : Verified(s)) /\ dev["A"].hdr.user = dev["B"].hdr.user
    => dev["A"].data = dev["B"].data

(* The header that the next commit counts from. *)
CurrentHeader(t) ==
  IF t.active = {} THEN ZeroHeader ELSE t.section[Preferred(t.active)].hdr

(* Between commits the transaction that an open handle keeps in memory     *)
(* names the same current header as a fresh nvram_init would read from the *)
(* devices, and the list last read or committed is the stored one: the     *)
(* bookkeeping of libnvram_update_transaction never drifts from the        *)
(* devices, with two sections or with one.                                 *)
HandleCurrent ==
  pc = "open" => /\ CurrentHeader(trans) = CurrentHeader(InitTransaction(Buffers))
                 /\ list = LoadedList(Buffers)

(* With two sections, once one of them is good no step of any commit,      *)
(* failed, interrupted or not, leaves the store without a good one.        *)
NeverBlank ==
  [][(\E s \in Section : Verified(s)) => (\E s \in Section : Verified(s)')]_vars

(* The store as its users see it. *)
Abstract == INSTANCE AtomicStore WITH
  stored  <- LoadedList(Buffers),
  view    <- IF pc = "open" THEN list ELSE NoList,
  pending <- IF pc \in {"write1", "write2", "update"} THEN list ELSE NoList

(* With two sections a commit is atomic: the stored list changes in one    *)
(* step from the old one to the new one, whatever write fails or is cut    *)
(* off, and has changed when nvram_commit returns 0.                       *)
CommitIsAtomic == Abstract!Spec
===============================================================================
