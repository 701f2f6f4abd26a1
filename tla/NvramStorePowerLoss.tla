-------------------------- MODULE NvramStorePowerLoss --------------------------
(***************************************************************************)
(* NvramStore on the file interface when the power can fail: write returns *)
(* when its bytes are in the page cache, nothing calls fsync, and the      *)
(* kernel writes pages back when and in which order it likes.              *)
(***************************************************************************)
EXTENDS NvramStore

VARIABLES
  disk,     \* what the medium holds; dev is what the page cache shows
  early,    \* history: a write began before all earlier ones were written back
  durable,  \* history: what was stored when nothing was left to write back
  latest    \* history: the list of the last write that began

history == <<early, durable, latest>>

allVars == <<vars, disk, history>>

(* What nvram_init would read, NoList when no section is good. *)
Stored(image) ==
  IF InitTransaction(image).active = {} THEN NoList ELSE LoadedList(image)

PowerInit ==
  /\ Init
  /\ disk = dev
  /\ early = FALSE
  /\ durable = NoList
  /\ latest = NoList

Dirty == {s \in Devices : disk[s] # dev[s]}

WriteBegins == pc' # pc /\ pc' \in {"write1", "write2"}

Observe ==
  /\ early' = (Dirty' # {} /\ (early \/ WriteBegins))
  /\ durable' = IF Dirty' = {} THEN Stored(disk') ELSE durable
  /\ latest' = IF WriteBegins THEN list' ELSE latest

(* The program runs on the page cache. *)
Run ==
  /\ Next
  /\ UNCHANGED disk
  /\ Observe

(* Some pages of a file are the old ones, some the new, some are lost. *)
Mixed(old, new) ==
  [hdr : {Garbage, old.hdr, new.hdr}, data : {Garbage, old.data, new.data}]

WriteBack(s) ==
  /\ s \in Dirty
  /\ \E image \in Mixed(disk[s], dev[s]) : disk' = [disk EXCEPT ![s] = image]
  /\ UNCHANGED vars
  /\ Observe

PowerLoss ==
  /\ dev' = disk
  /\ pc' = "closed"
  /\ trans' = ZeroTransaction
  /\ list' = NoList
  /\ op' = NoOperation
  /\ hdr' = ZeroHeader
  /\ UNCHANGED disk
  /\ Observe

PowerNext ==
  \/ Run
  \/ \E s \in Devices : WriteBack(s)
  \/ PowerLoss

PowerSpec == PowerInit /\ [][PowerNext]_allVars

-------------------------------------------------------------------------------

(* As long as every write begins after all earlier ones were written back, *)
(* a loss of power at any moment leaves the list that was stored on the    *)
(* medium then or the one of the last write, never an older one or none:   *)
(* what the missing fsync can lose, it loses to two writes, of two commits *)
(* or of one counter reset, that are in the page cache together.           *)
PowerLossIsAtomic == ~early => Stored(disk) \in {durable, latest}
===============================================================================
