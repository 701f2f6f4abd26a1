-------------------------- MODULE InterfaceMtdProofs --------------------------
(***************************************************************************)
(* Proofs about InterfaceMtd, for any number of partitions of any size and *)
(* lists of any length.                                                    *)
(***************************************************************************)
EXTENDS InterfaceMtd, SectionBytesProofs

PC == {"closed", "idle", "open", "unprotect", "erase", "write", "protect"}

Writing == pc \in {"open", "unprotect", "erase", "write"}

(* The types, the partition that is open, and the write protection.        *)
PlatformInv ==
  /\ label \in [Numbers -> {"section", "other", NoDevice}]
  /\ DOMAIN flash = Numbers
  /\ pc \in PC
  /\ pc # "closed" => dev = FindMtd(label) /\ dev # NoDevice
  /\ gpio \in {"none", "low", "high"}
  /\ pc \in {"closed", "idle", "open"} /\ gpio = "low" => lapsed

(* A search that succeeds has found a partition with the label.            *)
LEMMA FindMtdFinds ==
  ASSUME FindMtd(label) # NoDevice
  PROVE  FindMtd(label) \in Numbers /\ label[FindMtd(label)] = "section"
<1>1. Found(label) # {}
  BY DEF FindMtd
<1>2. FindMtd(label) = CHOOSE n \in Found(label) : TRUE
  BY <1>1 DEF FindMtd
<1>3. FindMtd(label) \in Found(label)
  BY <1>1, <1>2
<1>4. QED
  BY <1>3 DEF Found

LEMMA PlatformInit == Init => PlatformInv
BY DEF Init, PlatformInv, PC

LEMMA ExitProtects ==
  ASSUME PlatformInv, NEW r, Exit(r), UNCHANGED <<label, flash, lapsed, gpio>>,
         pc \notin {"closed", "idle", "open"}
  PROVE  PlatformInv'
BY DEF PlatformInv, Exit, PC

LEMMA PlatformStep == PlatformInv /\ [Next]_vars => PlatformInv'
<1> SUFFICES ASSUME PlatformInv, [Next]_vars PROVE PlatformInv'
  OBVIOUS
<1>1. CASE NvramInterfaceInit
  BY <1>1 DEF PlatformInv, PC, NvramInterfaceInit, platform
<1>2. CASE NvramInterfaceDestroy
  BY <1>2 DEF PlatformInv, PC, NvramInterfaceDestroy, Forget, platform
<1>3. CASE NvramInterfaceRead
  BY <1>3 DEF PlatformInv, PC, NvramInterfaceRead, platform
<1>4. CASE NvramInterfaceWrite
  BY <1>4 DEF PlatformInv, PC, NvramInterfaceWrite, platform
<1>5. CASE OpenPartition
  BY <1>5 DEF PlatformInv, PC, OpenPartition
<1>6. CASE Unprotect
  <2>1. CASE gpio' \in {"low", gpio} /\ pc' = "erase" /\ UNCHANGED <<label, flash, lapsed, dev>>
    BY <2>1, <1>6 DEF PlatformInv, PC, Unprotect
  <2>2. CASE Exit("error") /\ UNCHANGED <<gpio, label, flash, lapsed>>
    BY <2>2, <1>6, ExitProtects DEF Unprotect
  <2>3. QED
    BY <1>6, <2>1, <2>2 DEF Unprotect
<1>7. CASE EraseBlock
  BY <1>7 DEF PlatformInv, PC, EraseBlock, Store
<1>8. CASE EraseReturns
  <2>1. CASE pc' = "write" /\ UNCHANGED <<platform, dev>>
    BY <2>1, <1>8 DEF PlatformInv, PC, EraseReturns, platform
  <2>2. CASE Exit("error") /\ UNCHANGED platform
    BY <2>2, <1>8, ExitProtects DEF EraseReturns, platform
  <2>3. QED
    BY <1>8, <2>1, <2>2 DEF EraseReturns
<1>9. CASE WriteBytes
  BY <1>9 DEF PlatformInv, PC, WriteBytes, Store
<1>10. CASE WriteReturns
  BY <1>10, ExitProtects DEF WriteReturns, platform
<1>11. CASE Protect
  BY <1>11 DEF PlatformInv, PC, Protect
<1>12. CASE Crash
  BY <1>12 DEF PlatformInv, PC, Crash, Forget
<1>13. CASE UNCHANGED vars
  BY <1>13 DEF PlatformInv, PC, vars
<1>14. QED
  BY <1>1, <1>2, <1>3, <1>4, <1>5, <1>6, <1>7, <1>8, <1>9, <1>10, <1>11, <1>12, <1>13 DEF Next

LEMMA PlatformAlways == Spec => []PlatformInv
BY PlatformInit, PlatformStep, PTL DEF Spec

(* The partitions are write protected between two writes, whichever step   *)
(* of nvram_interface_write failed, unless the last one that opened the    *)
(* partition died or could not raise the gpio.                             *)
THEOREM MtdProtectedAtRest == Spec => []ProtectedAtRest
<1>1. PlatformInv => ProtectedAtRest
  BY DEF PlatformInv, ProtectedAtRest
<1>2. QED
  BY <1>1, PlatformAlways, PTL

(* No call changes a partition with another label.                         *)
THEOREM MtdOtherPartitionsKept == Spec => OtherPartitionsKept
<1> DEFINE Kept == \A n \in Numbers : flash'[n] # flash[n] => label[n] = "section"
<1>1. PlatformInv /\ [Next]_vars => [Kept]_vars
  <2> SUFFICES ASSUME PlatformInv, Next PROVE Kept
    OBVIOUS
  <2>1. ASSUME NEW cell, Store(cell), pc # "closed" PROVE Kept
    <3>1. \A n \in Numbers : n # dev => flash'[n] = flash[n]
      BY <2>1 DEF Store, PlatformInv
    <3>2. label[dev] = "section"
      BY <2>1, FindMtdFinds DEF PlatformInv
    <3>3. QED
      BY <3>1, <3>2
  <2>2. CASE EraseBlock
    BY <2>1, <2>2 DEF EraseBlock
  <2>3. CASE WriteBytes
    BY <2>1, <2>3 DEF WriteBytes
  <2>4. CASE UNCHANGED flash
    BY <2>4
  <2>5. QED
    BY <2>2, <2>3, <2>4 DEF Next, NvramInterfaceInit, NvramInterfaceDestroy, NvramInterfaceRead,
      NvramInterfaceWrite, OpenPartition, Unprotect, EraseReturns, WriteReturns, Protect, Crash,
      Forget, platform
<1>2. QED
  BY <1>1, PlatformAlways, PTL DEF Spec, OtherPartitionsKept
-------------------------------------------------------------------------------

(* A number of cells, erased or written: where the erase and the write are. *)
FlashInv ==
  /\ flash \in [Numbers -> [1 .. PartSize -> Cells \cup {Erased}]]
  /\ pos \in 0 .. PartSize
  /\ Writing => buf \in Buffers
  /\ pc \notin {"erase", "write"} => pos = 0
  /\ pc = "erase" => \A n \in 1 .. pos : flash[dev][n] = Erased
  /\ pc = "write" => pos <= Len(buf) /\ \A n \in 1 .. pos : flash[dev][n] = buf[n]

LEMMA PartitionLength ==
  ASSUME FlashInv, NEW n \in Numbers
  PROVE  Len(flash[n]) = PartSize /\ DOMAIN flash[n] = 1 .. PartSize
<1>1. flash[n] \in [1 .. PartSize -> Cells \cup {Erased}]
  BY DEF FlashInv
<1> HIDE DEF Cells
<1>2. QED
  BY <1>1, SizesAssumption

LEMMA FlashInit == Init => FlashInv
<1> SUFFICES ASSUME Init PROVE FlashInv
  OBVIOUS
<1>1. Blank \in [1 .. PartSize -> Cells \cup {Erased}]
  BY DEF Blank
<1>2. QED
  BY <1>1, SizesAssumption DEF Init, FlashInv, Writing

(* A cell is stored behind the ones that were. *)
LEMMA StoreCell ==
  ASSUME PlatformInv, FlashInv, pc # "closed", NEW cell \in Cells \cup {Erased}, Store(cell)
  PROVE  /\ flash' \in [Numbers -> [1 .. PartSize -> Cells \cup {Erased}]]
         /\ pos' = pos + 1 /\ pos' \in 1 .. PartSize
         /\ dev \in Numbers /\ dev' = dev
         /\ flash'[dev][pos'] = cell
         /\ \A n \in 1 .. pos : flash'[dev][n] = flash[dev][n]
<1>1. dev \in Numbers
  BY FindMtdFinds DEF PlatformInv
<1>2. pos' = pos + 1 /\ pos' \in 1 .. PartSize /\ dev' = dev
  BY SizesAssumption DEF Store, FlashInv
<1>3. flash' = [flash EXCEPT ![dev][pos'] = cell]
  BY DEF Store
<1>4. flash[dev] \in [1 .. PartSize -> Cells \cup {Erased}]
  BY <1>1 DEF FlashInv
<1>5. flash'[dev] = [flash[dev] EXCEPT ![pos'] = cell]
  BY <1>1, <1>3 DEF FlashInv
<1>6. flash'[dev] \in [1 .. PartSize -> Cells \cup {Erased}]
  BY <1>2, <1>4, <1>5
<1>7. flash' \in [Numbers -> [1 .. PartSize -> Cells \cup {Erased}]]
  BY <1>1, <1>3, <1>6 DEF FlashInv
<1>8. flash'[dev][pos'] = cell /\ \A n \in 1 .. pos : flash'[dev][n] = flash[dev][n]
  <2> DEFINE f == flash[dev]
             g == flash'[dev]
  <2>1. f \in [1 .. PartSize -> Cells \cup {Erased}] /\ g = [f EXCEPT ![pos'] = cell]
    BY <1>4, <1>5
  <2>2. pos \in Int /\ pos' = pos + 1 /\ pos' \in 1 .. PartSize
    BY <1>2 DEF FlashInv
  <2> HIDE DEF f, g
  <2>3. g[pos'] = cell /\ \A n \in 1 .. pos : g[n] = f[n]
    BY <2>1, <2>2, SizesAssumption
  <2>4. QED
    BY <2>3 DEF f, g
<1>9. QED
  BY <1>1, <1>2, <1>7, <1>8

LEMMA FlashStep == PlatformInv /\ FlashInv /\ [Next]_vars => FlashInv'
<1> SUFFICES ASSUME PlatformInv, FlashInv, [Next]_vars PROVE FlashInv'
  OBVIOUS
<1> USE SizesAssumption
<1>1. CASE NvramInterfaceInit
  BY <1>1 DEF FlashInv, Writing, NvramInterfaceInit, platform
<1>2. CASE NvramInterfaceDestroy
  BY <1>2 DEF FlashInv, Writing, NvramInterfaceDestroy, Forget, platform
<1>3. CASE NvramInterfaceRead
  BY <1>3 DEF FlashInv, Writing, NvramInterfaceRead, platform
<1>4. CASE NvramInterfaceWrite
  BY <1>4 DEF FlashInv, Writing, NvramInterfaceWrite, platform
<1>5. CASE OpenPartition
  BY <1>5 DEF FlashInv, Writing, OpenPartition
<1>e. ASSUME NEW r, Exit(r), UNCHANGED flash PROVE FlashInv'
  BY <1>e DEF FlashInv, Writing, Exit
<1>6. CASE Unprotect
  BY <1>6, <1>e DEF FlashInv, Writing, Unprotect
<1>7. CASE EraseBlock
  <2>1. Store(Erased) /\ pc = "erase" /\ pc' = "erase" /\ buf' = buf
    BY <1>7 DEF EraseBlock, Store
  <2>2. /\ flash' \in [Numbers -> [1 .. PartSize -> Cells \cup {Erased}]]
        /\ pos' = pos + 1 /\ pos' \in 1 .. PartSize /\ dev' = dev
        /\ flash'[dev][pos'] = Erased
        /\ \A n \in 1 .. pos : flash'[dev][n] = flash[dev][n]
    BY <2>1, StoreCell
  <2>3. \A n \in 1 .. pos' : flash'[dev'][n] = Erased
    <3>1. pos \in Nat /\ \A n \in 1 .. pos : flash[dev][n] = Erased
      BY <2>1 DEF FlashInv
    <3>2. \A n \in 1 .. pos' : n = pos' \/ n \in 1 .. pos
      BY <2>2, <3>1
    <3>3. QED
      BY <2>2, <3>1, <3>2
  <2>4. QED
    BY <2>1, <2>2, <2>3 DEF FlashInv, Writing
<1>8. CASE EraseReturns
  <2>1. CASE pc' = "write" /\ pos' = 0 /\ UNCHANGED <<dev, buf, platform>>
    <3>1. buf \in Buffers
      BY <1>8 DEF FlashInv, Writing, EraseReturns
    <3>2. Len(buf) >= 2
      BY <3>1, BufferImage
    <3>3. QED
      BY <2>1, <3>1, <3>2, BufferImage DEF FlashInv, Writing, platform
  <2>2. CASE Exit("error") /\ UNCHANGED platform
    BY <2>2, <1>e DEF platform
  <2>3. QED
    BY <1>8, <2>1, <2>2 DEF EraseReturns
<1>9. CASE WriteBytes
  <2>1. Store(buf[pos + 1]) /\ pc = "write" /\ pc' = "write" /\ buf' = buf /\ pos < Len(buf)
        /\ buf \in Buffers
    BY <1>9 DEF WriteBytes, Store, FlashInv, Writing
  <2>2. Len(buf) \in Nat /\ buf[pos + 1] \in Cells
    <3>1. Len(buf) \in Nat /\ \A n \in 1 .. Len(buf) : buf[n] \in Cells
      BY <2>1, BufferImage
    <3>2. pos + 1 \in 1 .. Len(buf)
      BY <2>1, <3>1 DEF FlashInv
    <3>3. QED
      BY <3>1, <3>2
  <2>3. /\ flash' \in [Numbers -> [1 .. PartSize -> Cells \cup {Erased}]]
        /\ pos' = pos + 1 /\ pos' \in 1 .. PartSize /\ dev' = dev
        /\ flash'[dev][pos'] = buf[pos + 1]
        /\ \A n \in 1 .. pos : flash'[dev][n] = flash[dev][n]
    BY <2>1, <2>2, StoreCell
  <2>4. \A n \in 1 .. pos' : flash'[dev'][n] = buf'[n]
    BY <2>1, <2>3 DEF FlashInv
  <2>5. pos' <= Len(buf')
    BY <2>1, <2>2, <2>3 DEF FlashInv
  <2>6. QED
    BY <2>1, <2>3, <2>4, <2>5 DEF FlashInv, Writing
<1>10. CASE WriteReturns
  BY <1>10, <1>e DEF WriteReturns, platform
<1>11. CASE Protect
  BY <1>11 DEF FlashInv, Writing, Protect
<1>12. CASE Crash
  BY <1>12 DEF FlashInv, Writing, Crash, Forget
<1>13. CASE UNCHANGED vars
  BY <1>13 DEF FlashInv, Writing, vars
<1>14. QED
  BY <1>1, <1>2, <1>3, <1>4, <1>5, <1>6, <1>7, <1>8, <1>9, <1>10, <1>11, <1>12, <1>13 DEF Next
-------------------------------------------------------------------------------

(* The image of the section, as MtdIsSection maps it. *)
Stored == IF Mine = NoDevice THEN BlankImage ELSE Decode(flash[Mine])

Pending == IF Writing THEN Decode(buf) ELSE NoImage

Answer == IF answer = NoBytes THEN NoImage ELSE Decode(answer)

(* The same state functions, as the instance spells them. *)
LEMMA DeviceActions ==
  /\ Device!Init <=> Stored \in Image /\ Pending = NoImage /\ Answer = NoImage /\ result = "none"
  /\ Device!Read <=> /\ Pending = NoImage /\ Answer' \in {Stored, NoImage}
                     /\ Stored' = Stored /\ Pending' = Pending /\ result' = result
  /\ Device!Begin <=> /\ Pending = NoImage
                      /\ \E list \in Contents, user \in 0 .. UINT32_MAX :
                           Pending' = [hdr |-> [user |-> user, crc32 |-> list], data |-> list]
                      /\ result' = "none" /\ Stored' = Stored /\ Answer' = Answer
  /\ Device!Progress <=> /\ Pending # NoImage /\ Stored' \in PartlyWritten(Stored, Pending)
                         /\ Pending' = Pending /\ Answer' = Answer /\ result' = result
  /\ Device!Succeed <=> /\ Pending # NoImage /\ Stored' = Pending /\ Pending' = NoImage
                        /\ result' = "ok" /\ Answer' = Answer
  /\ Device!Fail <=> /\ Pending # NoImage /\ Pending' = NoImage
                     /\ result' = "error" /\ Stored' = Stored /\ Answer' = Answer
  /\ Device!Die <=> /\ Pending' = NoImage /\ Answer' = NoImage
                    /\ result' = "none" /\ Stored' = Stored
  /\ UNCHANGED Device!vars <=> Stored' = Stored /\ Pending' = Pending /\ Answer' = Answer /\ result' = result
  /\ Device!Next <=> \/ Device!Read \/ Device!Begin \/ Device!Progress
                     \/ Device!Succeed \/ Device!Fail \/ Device!Die
BY DEF Stored, Pending, Answer, Writing, Device!Init, Device!Read, Device!Begin, Device!Progress,
  Device!Succeed, Device!Fail, Device!Die, Device!vars, Device!Next, Device!Image, Image,
  Device!Header, Header, Device!PartlyWritten, PartlyWritten

LEMMA StoredKept ==
  ASSUME UNCHANGED <<label, flash>>
  PROVE  Stored' = Stored
BY DEF Stored, Mine, FindMtd

LEMMA StoredInit == Init => Device!Init
<1> SUFFICES ASSUME Init PROVE Stored \in Image
  BY DeviceActions DEF Init, Pending, Writing, Answer
<1>1. BlankImage \in Image
  BY DEF BlankImage, Image
<1>2. Mine # NoDevice => Decode(flash[Mine]) = BlankImage
  <2> SUFFICES ASSUME Mine # NoDevice PROVE Decode(flash[Mine]) = BlankImage
    OBVIOUS
  <2>1. flash[Mine] = Blank
    BY FindMtdFinds DEF Mine, Init
  <2>2. CASE PartSize = 0
    <3>1. Len(Blank) = 0
      BY <2>2 DEF Blank
    <3>2. QED
      BY <2>1, <3>1 DEF Decode, HasHeader
  <2>3. CASE PartSize # 0
    <3>1. Blank[1] = Erased
      BY <2>3, SizesAssumption DEF Blank
    <3>2. QED
      BY <2>1, <3>1, DecodeErased
  <2>4. QED
    BY <2>2, <2>3
<1>3. QED
  BY <1>1, <1>2 DEF Stored

(* Each step of the interface is a step of the section, or none. *)
LEMMA DeviceStep ==
  ASSUME PlatformInv, FlashInv, [Next]_vars
  PROVE  [Device!Next]_(Device!vars)
<1> DEFINE Stutter == Stored' = Stored /\ Pending' = Pending /\ Answer' = Answer /\ result' = result
<1> USE DEF PlatformInv
<1>a. ASSUME Stutter PROVE [Device!Next]_(Device!vars)
  BY <1>a, DeviceActions
<1>b. ASSUME Writing PROVE Pending = Decode(buf) /\ Pending # NoImage /\ buf \in Buffers
  BY <1>b, BufferImage DEF FlashInv, Pending
<1>c. pc # "closed" => Mine = dev /\ dev \in Numbers /\ Stored = Decode(flash[dev])
  BY FindMtdFinds DEF Mine, Stored
<1>1. CASE NvramInterfaceInit
  BY <1>1, <1>a, StoredKept DEF NvramInterfaceInit, platform, Pending, Writing, Answer
<1>d. ASSUME Forget, UNCHANGED <<label, flash>> PROVE Device!Next
  BY <1>d, StoredKept, DeviceActions DEF Forget, Pending, Writing, Answer
<1>2. CASE NvramInterfaceDestroy
  BY <1>2, <1>d DEF NvramInterfaceDestroy, platform
<1>3. CASE NvramInterfaceRead
  <2>1. Pending = NoImage /\ Pending' = Pending /\ result' = result /\ Stored' = Stored
    BY <1>3, StoredKept DEF NvramInterfaceRead, platform, Pending, Writing
  <2>2. Answer' \in {Stored, NoImage}
    BY <1>3, <1>c DEF NvramInterfaceRead, Answer
  <2>3. QED
    BY <2>1, <2>2, DeviceActions
<1>4. CASE NvramInterfaceWrite
  <2>1. Pending = NoImage /\ result' = "none" /\ Stored' = Stored /\ Answer' = Answer
        /\ buf' \in Buffers /\ Pending' = Decode(buf')
    BY <1>4, StoredKept DEF NvramInterfaceWrite, platform, Pending, Writing, Answer
  <2>2. \E list \in Contents, user \in 0 .. UINT32_MAX :
          Pending' = [hdr |-> [user |-> user, crc32 |-> list], data |-> list]
    BY <2>1, BufferImage
  <2>3. QED
    BY <2>1, <2>2, DeviceActions
<1>e. ASSUME Writing, pc' \in {"idle", "protect"}, result' = "error", answer' = answer,
             UNCHANGED <<label, flash>>
      PROVE  Device!Next
  <2>1. Pending' = NoImage /\ Stored' = Stored /\ Answer' = Answer
    BY <1>e, StoredKept DEF Pending, Writing, Answer
  <2>2. QED
    BY <1>e, <1>b, <2>1, DeviceActions
<1>f. ASSUME Writing, Exit("error"), UNCHANGED <<label, flash>> PROVE Device!Next
  BY <1>e, <1>f DEF Exit
<1>g. ASSUME Writing, Writing', UNCHANGED <<label, flash, buf, answer, result>>
      PROVE  [Device!Next]_(Device!vars)
  BY <1>g, <1>a, StoredKept DEF Pending, Answer
<1>5. CASE OpenPartition
  BY <1>5, <1>e, <1>g DEF OpenPartition, platform, Writing
<1>6. CASE Unprotect
  BY <1>6, <1>f, <1>g DEF Unprotect, Writing
<1>h. ASSUME Writing, Writing', UNCHANGED <<label, buf, answer, result>>,
             Stored' \in PartlyWritten(Stored, Pending)
      PROVE  Device!Next
  <2>1. Pending' = Pending /\ Answer' = Answer
    BY <1>h DEF Pending, Answer
  <2>2. QED
    BY <1>h, <1>b, <2>1, DeviceActions
<1>i. ASSUME UNCHANGED label, pc # "closed" PROVE Stored' = Decode(flash'[dev])
  <2>1. Mine' = Mine
    BY <1>i DEF Mine, FindMtd
  <2>2. Mine = dev /\ dev # NoDevice
    BY <1>i, <1>c
  <2>3. QED
    BY <2>1, <2>2 DEF Stored
<1>7. CASE EraseBlock
  <2>1. Writing /\ Writing' /\ UNCHANGED <<label, buf, answer, result>> /\ pc = "erase" /\ Store(Erased)
    BY <1>7 DEF EraseBlock, Store, Writing
  <2>2. flash'[dev][1] = Erased
    <3>1. /\ pos' = pos + 1 /\ pos' \in 1 .. PartSize
          /\ flash'[dev][pos'] = Erased
          /\ \A n \in 1 .. pos : flash'[dev][n] = flash[dev][n]
      BY <2>1, StoreCell
    <3>2. pos \in Nat /\ \A n \in 1 .. pos : flash[dev][n] = Erased
      BY <2>1 DEF FlashInv
    <3>3. pos = 0 \/ 1 \in 1 .. pos
      BY <3>2
    <3>4. QED
      BY <3>1, <3>2, <3>3
  <2>3. Stored' = BlankImage
    BY <2>1, <2>2, <1>i, DecodeErased
  <2>4. BlankImage \in PartlyWritten(Stored, Pending)
    BY DEF BlankImage, PartlyWritten
  <2>5. QED
    BY <2>1, <2>3, <2>4, <1>h
<1>8. CASE EraseReturns
  BY <1>8, <1>f, <1>g DEF EraseReturns, platform, Writing
<1>9. CASE WriteBytes
  <2>1. Writing /\ Writing' /\ UNCHANGED <<label, buf, answer, result>> /\ pc = "write"
        /\ Store(buf[pos + 1]) /\ pos < Len(buf)
    BY <1>9 DEF WriteBytes, Store, Writing
  <2>2. PICK user \in 0 .. UINT32_MAX, list \in Contents :
          /\ buf[1] = <<"hdr", [user |-> user, crc32 |-> list], 1>>
          /\ Decode(buf) = [hdr |-> [user |-> user, crc32 |-> list], data |-> list]
    BY <2>1, <1>b, BufferImage
  <2> DEFINE h == [user |-> user, crc32 |-> list]
  <2>3. flash'[dev][1] = buf[1]
    <3>1. pos \in Nat /\ Len(buf) \in Nat /\ \A n \in 1 .. pos : flash[dev][n] = buf[n]
      <4>1. Len(buf) \in Nat
        BY <2>1, <1>b, BufferImage
      <4>2. QED
        BY <2>1, <4>1 DEF FlashInv
    <3>2. buf[pos + 1] \in Cells
      BY <2>1, <1>b, <3>1, BufferImage
    <3>3. /\ pos' = pos + 1 /\ pos' \in 1 .. PartSize
          /\ flash'[dev][pos'] = buf[pos + 1]
          /\ \A n \in 1 .. pos : flash'[dev][n] = flash[dev][n]
      BY <2>1, <3>2, StoreCell
    <3>4. pos = 0 \/ 1 \in 1 .. pos
      BY <3>1
    <3>5. QED
      BY <3>1, <3>3, <3>4
  <2>4. Stored' \in {BlankImage, [hdr |-> h, data |-> h.crc32], [hdr |-> h, data |-> Garbage]}
    BY <2>1, <2>2, <2>3, <1>i, DecodeTorn
  <2>5. Pending = [hdr |-> h, data |-> h.crc32]
    BY <2>1, <2>2, <1>b
  <2>6. Stored' \in PartlyWritten(Stored, Pending)
    BY <2>4, <2>5 DEF PartlyWritten, BlankImage
  <2>7. QED
    BY <2>1, <2>6, <1>h
<1>10. CASE WriteReturns
  <2>1. CASE pos = Len(buf) /\ Exit("ok") /\ UNCHANGED platform /\ pc = "write"
    <3>1. Writing /\ Pending' = NoImage /\ Stored' = Stored /\ Answer' = Answer /\ result' = "ok"
      BY <2>1, StoredKept DEF Exit, platform, Pending, Writing, Answer
    <3>2. Stored = Decode(flash[dev]) /\ dev \in Numbers
      BY <2>1, <1>c
    <3>3. Len(flash[dev]) = PartSize /\ Len(buf) <= PartSize
          /\ \A n \in 1 .. Len(buf) : flash[dev][n] = buf[n]
      BY <2>1, <3>2, PartitionLength DEF FlashInv
    <3>4. PICK user \in 0 .. UINT32_MAX, list \in Contents :
            LET h == [user |-> user, crc32 |-> list]
            IN  buf = Bytes(h) /\ Decode(buf) = [hdr |-> h, data |-> list]
      BY <3>1, <1>b, BufferImage
    <3> DEFINE h == [user |-> user, crc32 |-> list]
    <3>5. h.crc32 \in Contents /\ buf = Bytes(h) /\ Decode(buf) = [hdr |-> h, data |-> h.crc32]
      BY <3>4
    <3> HIDE DEF h
    <3>6. Decode(flash[dev]) = [hdr |-> h, data |-> h.crc32]
      <4>1. Len(buf) \in Nat
        BY <3>1, <1>b, BufferImage
      <4>2. QED
        BY <3>3, <3>5, <4>1, SizesAssumption, DecodeComplete
    <3>7. Stored = Pending
      BY <3>1, <3>2, <3>5, <3>6, <1>b
    <3>8. QED
      BY <3>1, <3>7, <1>b, DeviceActions
  <2>2. QED
    BY <1>10, <2>1, <1>f DEF WriteReturns, platform, Writing
<1>11. CASE Protect
  BY <1>11, <1>a, StoredKept DEF Protect, Pending, Writing, Answer
<1>12. CASE Crash
  BY <1>12, <1>d DEF Crash
<1>13. CASE UNCHANGED vars
  BY <1>13, <1>a, StoredKept DEF vars, Pending, Writing, Answer
<1>14. QED
  BY <1>1, <1>2, <1>3, <1>4, <1>5, <1>6, <1>7, <1>8, <1>9, <1>10, <1>11, <1>12, <1>13 DEF Next

(* An mtd partition with a label implements the section that NvramStore    *)
(* writes, whatever the size of the partition and of the lists.            *)
THEOREM MtdImplementsSection == Spec => MtdIsSection
<1>1. Init => PlatformInv /\ FlashInv
  BY PlatformInit, FlashInit
<1>2. PlatformInv /\ FlashInv /\ [Next]_vars => (PlatformInv /\ FlashInv)'
  BY PlatformStep, FlashStep
<1>3. PlatformInv /\ FlashInv /\ [Next]_vars => [Device!Next]_(Device!vars)
  BY DeviceStep
<1>4. QED
  BY <1>1, <1>2, <1>3, StoredInit, PTL DEF Spec, MtdIsSection, Device!Spec
===============================================================================
