----------------------------- MODULE InterfaceMtd -----------------------------
(***************************************************************************)
(* A section in an mtd partition (nvram_interface_mtd.c): the partition is *)
(* found by its label, is erased before it is written, and a gpio lifts    *)
(* its write protection meanwhile.                                         *)
(*                                                                         *)
(* The kernel is external: MEMERASE erases cell by cell and write fills    *)
(* them, neither while the gpio is high, and either can fail on the way.   *)
(***************************************************************************)
EXTENDS SectionBytes

CONSTANTS
  Highest,   \* the highest number that a partition can have
  PartSize,  \* mtd_dev_info.size, in cells
  NoDevice   \* of a number that is not in use, and when no label matches

ASSUME SizesAssumption == Highest \in Nat /\ PartSize \in Nat

Numbers == 0 .. Highest

VARIABLES
  label,     \* per number, whether the partition is the section's
  flash,     \* per number, the cells of the partition
  gpio,      \* "none" when there is no gpio, "high" is protected
  pc,        \* where the process is in the calls of nvram_interface.h
  dev,       \* the number in mtd.path
  buf,       \* the buffer of the write under way
  pos,       \* how many cells the erase or the write has reached
  answer,    \* the bytes of the last read, NoBytes for an error
  result,    \* r of the last nvram_interface_write
  lapsed     \* history: the last write past its open died, or could not raise the gpio

vars == <<label, flash, gpio, pc, dev, buf, pos, answer, result, lapsed>>

platform == <<label, flash, gpio, lapsed>>

Blank == [n \in 1 .. PartSize |-> Erased]

Init ==
  /\ label \in [Numbers -> {"section", "other", NoDevice}]
  /\ flash = [n \in Numbers |-> Blank]
  /\ gpio \in {"none", "high"}
  /\ pc = "closed"
  /\ dev = NoDevice
  /\ buf = <<>>
  /\ pos = 0
  /\ answer = NoBytes
  /\ result = "none"
  /\ lapsed = FALSE

(* lowest_mtd_num, of the numbers in use *)
Lowest(table) ==
  CHOOSE n \in Numbers : /\ table[n] # NoDevice
                         /\ \A m \in Numbers : table[m] # NoDevice => n <= m

(* The numbers that the search comes to and that have the label: one that  *)
(* is not in use ends it with an error.                                    *)
Found(table) ==
  {n \in Numbers : /\ table[n] = "section"
                   /\ \A m \in Lowest(table) .. n - 1 : table[m] = "other"}

(* Without ENODEV at the highest number: mtd_num keeps its 0. *)
FindMtdDefault(table) ==
  LET found == Found(table)
  IN  IF found = {} THEN 0 ELSE CHOOSE n \in found : TRUE

(* The first partition with the label. *)
FindMtd(table) ==
  LET found == Found(table)
  IN  IF found = {} THEN NoDevice ELSE CHOOSE n \in found : TRUE

NvramInterfaceInit ==
  /\ pc = "closed"
  /\ FindMtd(label) # NoDevice
  /\ dev' = FindMtd(label)
  /\ pc' = "idle"
  /\ UNCHANGED <<platform, buf, pos, answer, result>>

Forget ==
  /\ pc' = "closed"
  /\ dev' = NoDevice
  /\ buf' = <<>>
  /\ pos' = 0
  /\ answer' = NoBytes
  /\ result' = "none"

NvramInterfaceDestroy == pc = "idle" /\ Forget /\ UNCHANGED platform

Crash ==
  /\ pc \notin {"idle", "closed"}
  /\ Forget
  /\ lapsed' = (lapsed \/ gpio = "low")
  /\ UNCHANGED <<label, flash, gpio>>

(* The whole partition, whatever of it is written. *)
NvramInterfaceRead ==
  /\ pc = "idle"
  /\ answer' \in {flash[dev], NoBytes}
  /\ UNCHANGED <<platform, pc, dev, buf, pos, result>>

NvramInterfaceWrite ==
  /\ pc = "idle"
  /\ buf' \in Buffers
  /\ pc' = "open"
  /\ result' = "none"
  /\ UNCHANGED <<platform, dev, pos, answer>>

(* Raises only what it has lowered: not when lowering it failed. *)
ExitNothingLifted(r) ==
  /\ pc' = IF gpio = "none" \/ pc = "unprotect" THEN "idle" ELSE "protect"
  /\ result' = r
  /\ buf' = <<>>
  /\ pos' = 0
  /\ UNCHANGED <<dev, answer>>

(* goto exit *)
Exit(r) ==
  /\ pc' = IF gpio = "none" THEN "idle" ELSE "protect"
  /\ result' = r
  /\ buf' = <<>>
  /\ pos' = 0
  /\ UNCHANGED <<dev, answer>>

OpenPartition ==
  /\ pc = "open"
  /\ \/ /\ pc' = IF gpio = "none" THEN "erase" ELSE "unprotect"
        /\ lapsed' = FALSE
        /\ UNCHANGED <<dev, buf, pos, answer, result>>
     \/ /\ pc' = "idle" /\ result' = "error" /\ buf' = <<>>
        /\ UNCHANGED <<dev, pos, answer, lapsed>>
  /\ UNCHANGED <<label, flash, gpio>>

(* set_gpio(false): a write of no byte is no error, and sets nothing.      *)
Unprotect ==
  /\ pc = "unprotect"
  /\ \/ /\ gpio' \in {"low", gpio}
        /\ pc' = "erase"
        /\ UNCHANGED <<dev, buf, pos, answer, result>>
     \/ Exit("error") /\ UNCHANGED gpio
  /\ UNCHANGED <<label, flash, lapsed>>

(* A cell of the erase or of the write; a protected partition refuses. *)
Store(cell) ==
  /\ gpio # "high"
  /\ pos < PartSize
  /\ pos' = pos + 1
  /\ flash' = [flash EXCEPT ![dev][pos'] = cell]
  /\ UNCHANGED <<label, gpio, pc, dev, buf, answer, result, lapsed>>

EraseBlock == pc = "erase" /\ Store(Erased)

(* erase_mtd *)
EraseReturns ==
  /\ pc = "erase"
  /\ \/ /\ pos = PartSize
        /\ pc' = "write"
        /\ pos' = 0
        /\ UNCHANGED <<dev, buf, answer, result>>
     \/ Exit("error")
  /\ UNCHANGED platform

WriteBytes == pc = "write" /\ pos < Len(buf) /\ Store(buf[pos + 1])

(* Without the test of the count that write returns. *)
WriteReturnsShort ==
  /\ pc = "write"
  /\ \/ pos > 0 /\ Exit("ok")
     \/ Exit("error")
  /\ UNCHANGED platform

(* A list that is too long for the partition comes here with an error.     *)
WriteReturns ==
  /\ pc = "write"
  /\ \/ pos = Len(buf) /\ Exit("ok")
     \/ Exit("error")
  /\ UNCHANGED platform

(* set_gpio(true), whose result is not looked at. *)
Protect ==
  /\ pc = "protect"
  /\ pc' = "idle"
  /\ \/ gpio' = "high" /\ lapsed' = FALSE
     \/ UNCHANGED gpio /\ lapsed' = (lapsed \/ gpio = "low")
  /\ UNCHANGED <<label, flash, dev, buf, pos, answer, result>>

Next ==
  \/ NvramInterfaceInit
  \/ NvramInterfaceDestroy
  \/ NvramInterfaceRead
  \/ NvramInterfaceWrite
  \/ OpenPartition
  \/ Unprotect
  \/ EraseBlock
  \/ EraseReturns
  \/ WriteBytes
  \/ WriteReturns
  \/ Protect
  \/ Crash

Spec == Init /\ [][Next]_vars

-------------------------------------------------------------------------------

(* Outside of a write the partitions are write protected, whichever step   *)
(* of it failed, unless the last write that opened the partition died or   *)
(* could not raise the gpio: whatever earlier ones left behind, a write    *)
(* makes up for it, even one that fails to lower the gpio.                 *)
ProtectedAtRest ==
  pc \in {"closed", "idle", "open"} /\ gpio = "low" => lapsed

(* No partition is touched but the one with the label, and none at all     *)
(* when a search for it fails.                                             *)
OtherPartitionsKept ==
  [][\A n \in Numbers : flash'[n] # flash[n] => label[n] = "section"]_vars

Mine == FindMtd(label)

(* The section as NvramStore sees it. *)
Device == INSTANCE SectionDevice WITH
  image   <- IF Mine = NoDevice THEN BlankImage ELSE Decode(flash[Mine]),
  pending <- IF pc \in {"open", "unprotect", "erase", "write"} THEN Decode(buf) ELSE NoImage,
  answer  <- IF answer = NoBytes THEN NoImage ELSE Decode(answer)

(* Erased and then written, a partition is a section: a write that stops   *)
(* half-way leaves no header that passes, or the new one, and one that     *)
(* returns 0 is complete, which a list that is too long never is.          *)
MtdIsSection == Device!Spec
===============================================================================
