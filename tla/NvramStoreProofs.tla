--------------------------- MODULE NvramStoreProofs ---------------------------
(***************************************************************************)
(* Proofs about NvramStore, for every UINT32_MAX from 3 on, every set of   *)
(* lists and each configuration of sections: the types, the safety         *)
(* properties, and that a commit on two sections is atomic.                *)
(***************************************************************************)
EXTENDS NvramStorePowerLoss, TLAPS

(*-------------------------------------------------------------------------*)
(* The operators of LibnvramTransaction: what validation, find_active and  *)
(* next_transaction return.                                                *)
(*-------------------------------------------------------------------------*)

(* Section info whose counters find_active may compare. *)
Counted(section) ==
  \A s \in Section : IsVerified(section[s]) => section[s].hdr.user \in 1 .. UINT32_MAX - 1

LEMMA OtherSection ==
  ASSUME NEW s \in Section
  PROVE  Other(s) \in Section /\ Other(s) # s /\ Other(Other(s)) = s /\ Section = {s, Other(s)}
  BY DEF Section, Other

LEMMA ZeroHeaderType == ZeroHeader \in Header
  BY CounterAssumption DEF ZeroHeader, Header

(* A section is verified when its header is intact and its data matches.   *)
LEMMA ValidateFacts ==
  ASSUME NEW image \in Image
  PROVE  /\ ValidateSection(image) \in SectionInfo
         /\ IsVerified(ValidateSection(image))
              <=> image.hdr # Garbage /\ image.data = image.hdr.crc32
         /\ IsVerified(ValidateSection(image)) => ValidateSection(image).hdr = image.hdr
<1>1. CASE image.hdr = Garbage
  <2>1. ValidateSection(image) = [hdr |-> ZeroHeader, state |-> {"HEADER_CORRUPT"}]
    BY <1>1 DEF ValidateSection, ValidHeader
  <2>2. {"HEADER_CORRUPT"} \in State
    BY DEF State, ALL_VERIFIED
  <2>3. ~IsVerified(ValidateSection(image))
    BY <2>1 DEF IsVerified, ALL_VERIFIED
  <2>4. QED
    BY <1>1, <2>1, <2>2, <2>3, ZeroHeaderType DEF SectionInfo
<1>2. CASE image.hdr # Garbage
  <2> DEFINE flag == IF image.data = image.hdr.crc32 THEN "DATA_VERIFIED" ELSE "DATA_CORRUPT"
  <2>1. ValidateSection(image) = [hdr |-> image.hdr, state |-> {"HEADER_VERIFIED", flag}]
    BY <1>2 DEF ValidateSection, ValidHeader, ValidData
  <2>2. {"HEADER_VERIFIED", flag} \in State
    BY DEF State, ALL_VERIFIED
  <2>3. IsVerified(ValidateSection(image)) <=> image.data = image.hdr.crc32
    BY <2>1 DEF IsVerified, ALL_VERIFIED
  <2>4. image.hdr \in Header
    BY <1>2 DEF Image
  <2>5. QED
    BY <1>2, <2>1, <2>2, <2>3, <2>4 DEF SectionInfo
<1>3. QED
  BY <1>1, <1>2

(* find_active: some section is active exactly when one is verified; the   *)
(* preferred one is verified and no verified section is newer.             *)
LEMMA FindActiveFacts ==
  ASSUME NEW section \in [Section -> SectionInfo],
         NEW active, active = FindActive(section)
  PROVE  /\ active \in SUBSET Section
         /\ Preferred(active) \in Section
         /\ active = {} => \A s \in Section : ~IsVerified(section[s])
         /\ active # {} =>
              /\ Preferred(active) \in active
              /\ IsVerified(section[Preferred(active)])
              /\ \A s \in Section : IsVerified(section[s]) =>
                   section[Preferred(active)].hdr.user >= section[s].hdr.user
<1>1. \A s \in Section : section[s].hdr.user \in Int
  BY CounterAssumption DEF SectionInfo, Header
<1>2. \A s \in Section :
        s \in active <=> /\ IsVerified(section[s])
                         /\ IsVerified(section[Other(s)]) =>
                              section[s].hdr.user >= section[Other(s)].hdr.user
  BY DEF FindActive
<1>3. active \in SUBSET Section /\ Preferred(active) \in Section
  BY DEF FindActive, Preferred, Section
<1>4. Other("A") = "B" /\ Other("B") = "A" /\ Section = {"A", "B"}
  BY DEF Other, Section
<1>5. active = {} => \A s \in Section : ~IsVerified(section[s])
  BY <1>1, <1>2, <1>4
<1>6. ASSUME active # {} PROVE Preferred(active) \in active
  BY <1>3, <1>4, <1>6 DEF Preferred
<1>7. ASSUME active # {}
      PROVE  /\ IsVerified(section[Preferred(active)])
             /\ \A s \in Section : IsVerified(section[s]) =>
                  section[Preferred(active)].hdr.user >= section[s].hdr.user
  BY <1>1, <1>2, <1>3, <1>4, <1>6, <1>7
<1>8. QED
  BY <1>3, <1>5, <1>6, <1>7

(* next_transaction: the section that is kept is the preferred active one; *)
(* the new counter outranks the kept one, or restarts it at its limit.     *)
LEMMA NextTransactionFacts ==
  ASSUME NEW old \in Transaction, old.active = FindActive(old.section),
         Counted(old.section),
         NEW next, next = NextTransaction(old),
         NEW kept, kept = Other(next.op.write)
  PROVE  /\ next.op \in Operation
         /\ next.user \in 1 .. UINT32_MAX - 1
         /\ kept \in Section
         /\ old.active # {} => kept = Preferred(old.active)
         /\ next.op.reset => /\ old.active # {}
                             /\ next.user = 1
                             /\ old.section[kept].hdr.user = UINT32_MAX - 1
         /\ ~next.op.reset /\ IsVerified(old.section[kept])
              => next.user = old.section[kept].hdr.user + 1
<1>1. /\ old.section \in [Section -> SectionInfo]
      /\ old.active \in SUBSET Section
  BY DEF Transaction
<1>2. /\ next.op = [write |-> NextWrite(old), reset |-> NeedsReset(old)]
      /\ next.user = IF NeedsReset(old) THEN 1 ELSE NextUser(old)
  BY DEF NextTransaction
<1>3. next.op.write = NextWrite(old) /\ NextWrite(old) \in Section
  BY <1>2 DEF NextWrite, Section
<1>4. kept \in Section
  BY <1>3, OtherSection
<1>5. old.active # {} => kept = Preferred(old.active)
  BY <1>3 DEF NextWrite, Preferred, Other, Section
<1>6. ASSUME old.active # {}
      PROVE  /\ NextUser(old) = old.section[kept].hdr.user + 1
             /\ old.section[kept].hdr.user \in 1 .. UINT32_MAX - 1
  <2>1. old.section[kept].hdr.user \in 1 .. UINT32_MAX - 1
    BY <1>1, <1>4, <1>5, <1>6, FindActiveFacts DEF Counted
  <2>2. QED
    BY <1>5, <1>6, <2>1, CounterAssumption DEF NextUser, Increment
<1>7. old.active = {} => NextUser(old) = 1 /\ ~IsVerified(old.section[kept])
  BY <1>1, <1>4, FindActiveFacts DEF NextUser
<1>8. NextUser(old) \in 1 .. UINT32_MAX
  BY <1>6, <1>7, CounterAssumption
<1>9. NeedsReset(old) <=> NextUser(old) = UINT32_MAX
  BY DEF NeedsReset
<1>10. next.op.reset <=> NeedsReset(old)
  BY <1>2
<1>11. next.op \in Operation
  <2>1. NeedsReset(old) \in BOOLEAN
    BY DEF NeedsReset
  <2>2. QED
    BY <1>2, <1>3, <2>1 DEF Operation
<1>12. next.user \in 1 .. UINT32_MAX - 1
  BY <1>2, <1>8, <1>9, CounterAssumption
<1>13. next.op.reset => /\ old.active # {}
                        /\ next.user = 1
                        /\ old.section[kept].hdr.user = UINT32_MAX - 1
  BY <1>2, <1>6, <1>7, <1>9, <1>10, CounterAssumption
<1>14. ~next.op.reset /\ IsVerified(old.section[kept])
         => next.user = old.section[kept].hdr.user + 1
  BY <1>2, <1>6, <1>7, <1>10
<1>15. QED
  BY <1>4, <1>5, <1>11, <1>12, <1>13, <1>14

(* update_transaction after the writes of a next_transaction: the header   *)
(* just written is the preferred active one.                               *)
LEMMA UpdateTransactionFacts ==
  ASSUME NEW old \in Transaction, old.active = FindActive(old.section),
         Counted(old.section),
         NEW next, next = NextTransaction(old),
         NEW header \in Header, header.user = next.user,
         NEW updated, updated = UpdateTransaction(old, next.op, header)
  PROVE  /\ updated \in Transaction
         /\ updated.active = FindActive(updated.section)
         /\ Counted(updated.section)
         /\ updated.active # {}
         /\ updated.section[Preferred(updated.active)].hdr = header
         /\ \A s \in Section :
              updated.section[s] = IF s \in Written(next.op)
                                     THEN [hdr |-> header, state |-> ALL_VERIFIED]
                                     ELSE old.section[s]
<1> DEFINE t == next.op.write
           kept == Other(t)
           info == [hdr |-> header, state |-> ALL_VERIFIED]
<1>1. /\ next.op \in Operation
      /\ next.user \in 1 .. UINT32_MAX - 1
      /\ ~next.op.reset /\ IsVerified(old.section[kept])
           => next.user = old.section[kept].hdr.user + 1
  BY NextTransactionFacts
<1>2. t \in Section /\ kept \in Section /\ kept # t /\ Section = {t, kept}
  BY <1>1, OtherSection DEF Operation
<1>3. old.section \in [Section -> SectionInfo]
  BY DEF Transaction
<1>4. info \in SectionInfo /\ IsVerified(info)
  BY DEF SectionInfo, State, IsVerified
<1>5. /\ updated.section = [s \in Section |-> IF s \in Written(next.op) THEN info ELSE old.section[s]]
      /\ updated.active = FindActive(updated.section)
  BY DEF UpdateTransaction
<1>6. updated.section \in [Section -> SectionInfo]
  BY <1>3, <1>4, <1>5
<1>7. updated \in Transaction
  <2>1. updated = [section |-> updated.section, active |-> updated.active]
    BY DEF UpdateTransaction
  <2>2. updated.active \in SUBSET Section
    BY <1>5, <1>6, FindActiveFacts
  <2>3. QED
    BY <1>6, <2>1, <2>2 DEF Transaction
<1>8. updated.section[t] = info
  BY <1>2, <1>5 DEF Written
<1>9. updated.section[kept] = IF next.op.reset THEN info ELSE old.section[kept]
  BY <1>2, <1>5 DEF Written
<1>10. Counted(updated.section)
  <2> SUFFICES ASSUME NEW s \in Section, IsVerified(updated.section[s])
               PROVE  updated.section[s].hdr.user \in 1 .. UINT32_MAX - 1
    BY DEF Counted
  <2>1. updated.section[s] = info \/ updated.section[s] = old.section[s]
    BY <1>5
  <2>2. QED
    BY <1>1, <2>1 DEF Counted
<1>11. updated.active # {}
  BY <1>2, <1>4, <1>5, <1>6, <1>8, FindActiveFacts
<1>12. updated.section[Preferred(updated.active)].hdr = header
  <2> DEFINE p == Preferred(updated.active)
  <2>1. /\ p \in Section
        /\ IsVerified(updated.section[p])
        /\ updated.section[p].hdr.user >= header.user
    BY <1>2, <1>4, <1>5, <1>6, <1>8, <1>11, FindActiveFacts
  <2>2. CASE p = t \/ next.op.reset
    BY <1>2, <1>8, <1>9, <2>1, <2>2
  <2>3. CASE p = kept /\ ~next.op.reset
    <3>1. updated.section[p] = old.section[kept]
      BY <1>9, <2>3
    <3>2. header.user = old.section[kept].hdr.user + 1
      BY <1>1, <2>1, <2>3, <3>1
    <3>3. old.section[kept].hdr.user \in Int
      BY <1>2, <1>3, CounterAssumption DEF SectionInfo, Header
    <3>4. QED
      BY <2>1, <3>1, <3>2, <3>3
  <2>4. QED
    BY <1>1, <1>2, <2>1, <2>2, <2>3 DEF Operation
<1>13. \A s \in Section : updated.section[s] = IF s \in Written(next.op) THEN info ELSE old.section[s]
  BY <1>5
<1>14. QED
  BY <1>5, <1>7, <1>10, <1>11, <1>12, <1>13

-------------------------------------------------------------------------------


(* What validation lets through was written by a commit. *)
GoodHeader == [user : 1 .. UINT32_MAX - 1, crc32 : Contents]

HeadersGood ==
  \A s \in Section : dev[s].hdr # Garbage => dev[s].hdr \in GoodHeader

(* The handle's view of section s is what a read of it would give. *)
Exact(s) == trans.section[s] = ValidateSection(Buffers[s])

(* What a write in progress can have made of a section. *)
OldOrNew(s) == Exact(s) \/ ~Verified(s) \/ dev[s] = Serialized

Kept == Other(op.write)

HandleSound ==
  /\ pc \in {"open", "write1", "write2", "update"} =>
       /\ trans.active = FindActive(trans.section)
       /\ Counted(trans.section)
  /\ pc \in {"write1", "write2", "update"} =>
       /\ op = NextTransaction(trans).op
       /\ hdr = [user |-> NextTransaction(trans).user, crc32 |-> list]

(* Two sections: which of them the commit has changed so far. *)
SectionsSound ==
  Transactional =>
    /\ pc = "open" => \A s \in Section : Exact(s)
    /\ pc = "write1" => Exact(Kept) /\ OldOrNew(op.write)
    /\ pc = "write2" => op.reset /\ dev[op.write] = Serialized /\ OldOrNew(Kept)
    /\ pc = "update" => /\ dev[op.write] = Serialized
                        /\ IF op.reset THEN dev[Kept] = Serialized ELSE Exact(Kept)

(* One section: it is written once. *)
SingleSound ==
  ~Transactional =>
    /\ pc # "write2"
    /\ pc = "update" => dev[FirstTarget] = Serialized

(* The inductive invariant. *)
StoreInv ==
  /\ TypeOK
  /\ HeadersGood
  /\ HandleSound
  /\ SectionsSound
  /\ SingleSound
  /\ HandleCurrent

-------------------------------------------------------------------------------
(* What a read of the devices gives.                                       *)
-------------------------------------------------------------------------------

LEMMA BlankImageType == BlankImage \in Image
  BY DEF BlankImage, Image

LEMMA BuffersType ==
  ASSUME dev \in [Section -> Image]
  PROVE  Buffers \in [Section -> Image]
  BY BlankImageType DEF Buffers

LEMMA BuffersTransactional ==
  ASSUME dev \in [Section -> Image], Transactional
  PROVE  Buffers = dev
  BY DEF Buffers, Transactional

(* With one section the other buffer is never good. *)
LEMMA SingleFacts ==
  ASSUME dev \in [Section -> Image], ~Transactional
  PROVE  /\ FirstTarget \in Section
         /\ Devices = {FirstTarget}
         /\ Buffers[FirstTarget] = dev[FirstTarget]
         /\ ~Verified(Other(FirstTarget))
<1>1. Devices = {"A"} \/ Devices = {"B"}
  BY DevicesAssumption DEF Transactional, Section
<1>2. FirstTarget \in Section /\ Devices = {FirstTarget}
  BY <1>1 DEF FirstTarget, Section, Transactional
<1>3. Other(FirstTarget) \in Section \ Devices
  BY <1>2, OtherSection
<1>4. Buffers[Other(FirstTarget)] = BlankImage /\ Buffers[FirstTarget] = dev[FirstTarget]
  BY <1>2, <1>3 DEF Buffers
<1>5. QED
  BY <1>2, <1>4, BlankImageType, ValidateFacts DEF Verified, BlankImage

LEMMA VerifiedFacts ==
  ASSUME TypeOK, HeadersGood, NEW s \in Section, Verified(s)
  PROVE  /\ s \in Devices
         /\ Buffers[s] = dev[s]
         /\ dev[s] = [hdr |-> dev[s].hdr, data |-> dev[s].data]
         /\ dev[s].hdr \in GoodHeader
         /\ dev[s].data = dev[s].hdr.crc32
         /\ ValidateSection(Buffers[s]).hdr = dev[s].hdr
<1>1. Buffers[s] \in Image
  BY BuffersType DEF TypeOK
<1>2. Buffers[s].hdr # Garbage /\ Buffers[s].data = Buffers[s].hdr.crc32
  BY <1>1, ValidateFacts DEF Verified
<1>3. s \in Devices /\ Buffers[s] = dev[s]
  BY <1>2 DEF Buffers, BlankImage
<1>4. dev[s] = [hdr |-> dev[s].hdr, data |-> dev[s].data]
  BY <1>1, <1>3 DEF Image
<1>5. ValidateSection(Buffers[s]).hdr = dev[s].hdr
  BY <1>1, <1>3, ValidateFacts DEF Verified
<1>6. QED
  BY <1>2, <1>3, <1>4, <1>5 DEF HeadersGood

(* A section that is whole and not outranked is the one that is loaded.    *)
LEMMA LoadNewest ==
  ASSUME NEW image \in [Section -> Image], NEW s \in Section, NEW o, o = Other(s),
         IsVerified(ValidateSection(image[s])),
         IsVerified(ValidateSection(image[o])) =>
           \/ image[o].hdr.user < image[s].hdr.user
           \/ image[o] = image[s]
  PROVE  /\ LoadedList(image) = image[s].data
         /\ CurrentHeader(InitTransaction(image)) = image[s].hdr
<1> DEFINE section == [x \in Section |-> ValidateSection(image[x])]
           active == FindActive(section)
           p == Preferred(active)
<1>1. section \in [Section -> SectionInfo]
  BY ValidateFacts
<1>2. IsVerified(section[s])
  OBVIOUS
<1>3. /\ active # {} /\ p \in Section /\ IsVerified(section[p])
      /\ section[p].hdr.user >= section[s].hdr.user
  BY <1>1, <1>2, FindActiveFacts
<1>4. \A x \in Section : IsVerified(section[x]) => section[x].hdr = image[x].hdr
  BY ValidateFacts
<1>5. o \in Section /\ Section = {s, o}
  BY OtherSection
<1>6. image[p] = image[s]
  <2>1. CASE p = s
    BY <2>1
  <2>2. CASE p = o
    <3>1. section[s].hdr.user \in Int /\ section[o].hdr.user \in Int
      BY <1>1, <1>5, CounterAssumption DEF SectionInfo, Header
    <3>2. ~(image[o].hdr.user < image[s].hdr.user)
      BY <1>2, <1>3, <1>4, <1>5, <2>2, <3>1
    <3>3. QED
      BY <1>3, <2>2, <3>2
  <2>3. QED
    BY <1>3, <1>5, <2>1, <2>2
<1>7. InitTransaction(image) = [section |-> section, active |-> active]
  BY DEF InitTransaction
<1>8. LoadedList(image) = image[p].data
  BY <1>3, <1>7 DEF LoadedList
<1>9. CurrentHeader(InitTransaction(image)) = section[p].hdr
  BY <1>3, <1>7 DEF CurrentHeader
<1>10. QED
  BY <1>3, <1>4, <1>6, <1>8, <1>9

LEMMA LoadNone ==
  ASSUME NEW image \in [Section -> Image],
         \A s \in Section : ~IsVerified(ValidateSection(image[s]))
  PROVE  /\ LoadedList(image) = EmptyList
         /\ InitTransaction(image).active = {}
<1> DEFINE section == [x \in Section |-> ValidateSection(image[x])]
<1>1. section \in [Section -> SectionInfo]
  BY ValidateFacts
<1>2. \A s \in Section : ~IsVerified(section[s])
  OBVIOUS
<1>3. FindActive(section) = {}
  BY <1>2 DEF FindActive
<1>4. QED
  BY <1>3 DEF InitTransaction, LoadedList

-------------------------------------------------------------------------------
(* The invariant, step by step.                                            *)
-------------------------------------------------------------------------------

LEMMA LoadedListType ==
  ASSUME TypeOK, HeadersGood
  PROVE  LoadedList(Buffers) \in Contents
<1> DEFINE section == [x \in Section |-> ValidateSection(Buffers[x])]
           active == FindActive(section)
           p == Preferred(active)
<1>1. Buffers \in [Section -> Image]
  BY BuffersType DEF TypeOK
<1>2. section \in [Section -> SectionInfo]
  BY <1>1, ValidateFacts
<1>3. InitTransaction(Buffers).active = active
  BY DEF InitTransaction
<1>4. CASE active = {}
  BY <1>3, <1>4, ListAssumption DEF LoadedList
<1>5. CASE active # {}
  <2>1. p \in Section /\ IsVerified(section[p])
    BY <1>2, <1>5, FindActiveFacts
  <2>2. Verified(p)
    BY <2>1 DEF Verified
  <2>3. Buffers[p].data \in Contents
    BY <2>1, <2>2, VerifiedFacts DEF GoodHeader
  <2>4. LoadedList(Buffers) = Buffers[p].data
    BY <1>3, <1>5 DEF LoadedList
  <2>5. QED
    BY <2>3, <2>4
<1>6. QED
  BY <1>4, <1>5

LEMMA StoreInvInit == Init => StoreInv
<1> SUFFICES ASSUME Init PROVE StoreInv
  OBVIOUS
<1> USE DEF Init
<1>1. dev \in [Section -> Image]
  BY BlankImageType
<1>2. TypeOK
  <2>1. ZeroTransaction \in Transaction
    <3>1. [hdr |-> ZeroHeader, state |-> {}] \in SectionInfo
      BY ZeroHeaderType DEF SectionInfo, State
    <3>2. QED
      BY <3>1 DEF ZeroTransaction, Transaction
  <2>2. NoOperation \in Operation
    BY DEF NoOperation, Operation, Section
  <2>3. QED
    BY <1>1, <2>1, <2>2, ZeroHeaderType DEF TypeOK, PC
<1>3. HeadersGood
  BY DEF HeadersGood, BlankImage
<1>4. HandleSound /\ SectionsSound /\ SingleSound /\ HandleCurrent
  BY DEF HandleSound, SectionsSound, SingleSound, HandleCurrent
<1>5. QED
  BY <1>2, <1>3, <1>4 DEF StoreInv

(* The struct that nvram_init fills, and what it is filled from. *)
LEMMA InitTransactionType ==
  ASSUME TypeOK, HeadersGood, NEW t, t = InitTransaction(Buffers)
  PROVE  /\ t \in Transaction
         /\ t.active = FindActive(t.section)
         /\ Counted(t.section)
         /\ \A s \in Section : t.section[s] = ValidateSection(Buffers[s])
<1> DEFINE section == [x \in Section |-> ValidateSection(Buffers[x])]
<1>1. Buffers \in [Section -> Image]
  BY BuffersType DEF TypeOK
<1>2. section \in [Section -> SectionInfo]
  BY <1>1, ValidateFacts
<1>3. t = [section |-> section, active |-> FindActive(section)]
  BY DEF InitTransaction
<1>4. FindActive(section) \in SUBSET Section
  BY <1>2, FindActiveFacts
<1>5. t \in Transaction
  BY <1>2, <1>3, <1>4 DEF Transaction
<1>6. Counted(section)
  <2> SUFFICES ASSUME NEW s \in Section, IsVerified(section[s])
               PROVE  section[s].hdr.user \in 1 .. UINT32_MAX - 1
    BY DEF Counted
  <2>1. Verified(s)
    BY DEF Verified
  <2>2. QED
    BY <2>1, VerifiedFacts DEF GoodHeader
<1>7. QED
  BY <1>3, <1>5, <1>6

LEMMA NvramInitStep ==
  ASSUME StoreInv, NvramInit
  PROVE  StoreInv'
<1> USE DEF StoreInv
<1>1. Buffers' = Buffers /\ dev' = dev
  BY DEF NvramInit, Buffers
<1>2. /\ trans' \in Transaction
      /\ trans'.active = FindActive(trans'.section)
      /\ Counted(trans'.section)
      /\ \A s \in Section : trans'.section[s] = ValidateSection(Buffers[s])
  BY InitTransactionType DEF NvramInit
<1>3. TypeOK'
  BY <1>2, LoadedListType DEF TypeOK, NvramInit, PC
<1>4. HeadersGood'
  BY <1>1 DEF HeadersGood
<1>5. HandleSound'
  BY <1>2 DEF HandleSound, NvramInit
<1>6. SectionsSound' /\ SingleSound'
  BY <1>1, <1>2 DEF SectionsSound, SingleSound, Exact, NvramInit
<1>7. HandleCurrent'
  BY <1>1 DEF HandleCurrent, NvramInit
<1>8. QED
  BY <1>3, <1>4, <1>5, <1>6, <1>7

LEMMA CommitStartStep ==
  ASSUME StoreInv, NEW l \in Contents, CommitStart(l)
  PROVE  StoreInv'
<1> USE DEF StoreInv
<1> DEFINE next == NextTransaction(trans)
<1>1. Buffers' = Buffers /\ dev' = dev /\ trans' = trans
  BY DEF CommitStart, Buffers
<1>2. /\ pc = "open" /\ pc' = "write1" /\ list' = l
      /\ op' = next.op /\ hdr' = [user |-> next.user, crc32 |-> l]
  BY DEF CommitStart
<1>3. /\ trans \in Transaction
      /\ trans.active = FindActive(trans.section)
      /\ Counted(trans.section)
  BY <1>2 DEF TypeOK, HandleSound
<1>4. next.op \in Operation /\ next.user \in 1 .. UINT32_MAX - 1
  BY <1>3, NextTransactionFacts
<1>5. TypeOK'
  <2>1. hdr' \in Header
    BY <1>2, <1>4, CounterAssumption DEF Header
  <2>2. QED
    BY <1>1, <1>2, <1>4, <2>1 DEF TypeOK, PC
<1>6. HeadersGood'
  BY <1>1 DEF HeadersGood
<1>7. HandleSound'
  BY <1>1, <1>2, <1>3 DEF HandleSound
<1>8. SectionsSound'
  <2> SUFFICES ASSUME Transactional PROVE Exact(Kept)' /\ Exact(op.write)'
    BY <1>2 DEF SectionsSound, OldOrNew
  <2>1. \A s \in Section : Exact(s)'
    BY <1>1, <1>2 DEF SectionsSound, Exact
  <2>2. op'.write \in Section /\ Kept' \in Section
    BY <1>2, <1>4, OtherSection DEF Operation, Kept
  <2>3. QED
    BY <2>1, <2>2 DEF Exact
<1>9. SingleSound' /\ HandleCurrent'
  BY <1>2 DEF SingleSound, HandleCurrent
<1>10. QED
  BY <1>5, <1>6, <1>7, <1>8, <1>9

(* What the handle says of the commit it is in the middle of. *)
LEMMA WritingFacts ==
  ASSUME StoreInv, pc \in {"write1", "write2", "update"}
  PROVE  /\ op \in Operation
         /\ op.write \in Section /\ Kept \in Section
         /\ Kept # op.write /\ Section = {op.write, Kept}
         /\ Other(Kept) = op.write
         /\ hdr = [user |-> hdr.user, crc32 |-> list]
         /\ hdr \in GoodHeader
         /\ Serialized \in Image
         /\ IsVerified(ValidateSection(Serialized))
         /\ trans.active # {} => Kept = Preferred(trans.active)
         /\ op.reset => /\ trans.active # {}
                        /\ hdr.user = 1
                        /\ trans.section[Kept].hdr.user = UINT32_MAX - 1
         /\ ~op.reset /\ IsVerified(trans.section[Kept])
              => hdr.user = trans.section[Kept].hdr.user + 1
<1> DEFINE next == NextTransaction(trans)
<1>1. /\ trans \in Transaction
      /\ trans.active = FindActive(trans.section)
      /\ Counted(trans.section)
      /\ op = next.op
      /\ hdr = [user |-> next.user, crc32 |-> list]
  BY DEF StoreInv, TypeOK, HandleSound
<1>2. list \in Contents /\ op \in Operation /\ hdr \in Header
  BY DEF StoreInv, TypeOK
<1>3. /\ op.write \in Section /\ Kept \in Section
      /\ Kept # op.write /\ Section = {op.write, Kept}
      /\ Other(Kept) = op.write
  BY <1>2, OtherSection DEF Operation, Kept
<1>4. /\ next.user \in 1 .. UINT32_MAX - 1
      /\ trans.active # {} => Kept = Preferred(trans.active)
      /\ op.reset => /\ trans.active # {}
                     /\ next.user = 1
                     /\ trans.section[Kept].hdr.user = UINT32_MAX - 1
      /\ ~op.reset /\ IsVerified(trans.section[Kept])
           => next.user = trans.section[Kept].hdr.user + 1
  BY <1>1, NextTransactionFacts DEF Kept
<1>5. hdr = [user |-> hdr.user, crc32 |-> list] /\ hdr.user = next.user /\ hdr.crc32 = list
  BY <1>1
<1>6. hdr \in GoodHeader
  BY <1>2, <1>4, <1>5 DEF GoodHeader
<1>7. Serialized \in Image
  BY <1>2 DEF Serialized, Image
<1>8. Serialized.hdr # Garbage /\ Serialized.data = Serialized.hdr.crc32
  BY <1>2, <1>5, GarbageAssumption DEF Serialized
<1>9. IsVerified(ValidateSection(Serialized))
  BY <1>7, <1>8, ValidateFacts
<1>10. QED
  BY <1>2, <1>3, <1>4, <1>5, <1>6, <1>7, <1>9

LEMMA TargetFacts ==
  ASSUME StoreInv, Writing
  PROVE  /\ Target \in Section
         /\ Target \in Devices
         /\ pc = "write1" /\ Transactional => Target = op.write
         /\ pc = "write2" => Transactional /\ Target = Kept
<1>1. CASE Transactional
  <2>1. Target = IF pc = "write1" THEN op.write ELSE Kept
    BY <1>1 DEF Target, FirstTarget, Kept
  <2>2. Target \in Section
    BY <2>1, WritingFacts DEF Writing
  <2>3. QED
    BY <1>1, <2>1, <2>2 DEF Transactional, Writing
<1>2. CASE ~Transactional
  <2>1. pc = "write1"
    BY <1>2 DEF StoreInv, SingleSound, Writing
  <2>2. Target = FirstTarget
    BY <2>1 DEF Target
  <2>3. QED
    BY <1>2, <2>1, <2>2, SingleFacts DEF StoreInv, TypeOK
<1>3. QED
  BY <1>1, <1>2

(* A section half-way written is not good, unless it is all written. *)
LEMMA PartlyWrittenFacts ==
  ASSUME StoreInv, Writing, NEW old \in Image, NEW image \in PartlyWritten(old, Serialized)
  PROVE  /\ image \in Image
         /\ image.hdr # Garbage => image.hdr = hdr
         /\ IsVerified(ValidateSection(image)) => image = Serialized
<1>1. Serialized \in Image /\ Serialized.hdr = hdr /\ hdr.crc32 = list
  BY WritingFacts DEF Serialized, Writing
<1>2. /\ image = [hdr |-> image.hdr, data |-> image.data]
      /\ image.hdr \in {Garbage, hdr}
      /\ image.data \in {Garbage, old.data, list}
  BY DEF PartlyWritten, Serialized
<1>3. image \in Image
  BY <1>1, <1>2 DEF Image, Serialized
<1>4. ASSUME IsVerified(ValidateSection(image)) PROVE image = Serialized
  <2>1. image.hdr = hdr /\ image.data = list
    BY <1>1, <1>2, <1>3, <1>4, ValidateFacts
  <2>2. QED
    BY <1>2, <2>1 DEF Serialized
<1>5. QED
  BY <1>2, <1>3, <1>4

(* A change of the target of a write, whole or not, by that write. *)
Rewrite(image) ==
  /\ Writing
  /\ image \in Image
  /\ image.hdr # Garbage => image.hdr = hdr
  /\ IsVerified(ValidateSection(image)) => image = Serialized
  /\ dev' = [dev EXCEPT ![Target] = image]
  /\ UNCHANGED handle

LEMMA RewriteFacts ==
  ASSUME StoreInv, NEW image, Rewrite(image), NEW t, t = Target
  PROVE  /\ dev' \in [Section -> Image]
         /\ HeadersGood'
         /\ TieSameData'
         /\ dev'[t] = image
         /\ Buffers'[t] = image
         /\ Verified(t)' => image = Serialized
         /\ \A s \in Section \ {t} : /\ dev'[s] = dev[s]
                                    /\ Buffers'[s] = Buffers[s]
                                    /\ Verified(s)' = Verified(s)
                                    /\ Exact(s)' = Exact(s)
<1>1. /\ dev \in [Section -> Image]
      /\ dev' = [dev EXCEPT ![t] = image]
      /\ image \in Image
      /\ Writing
      /\ trans' = trans
  BY DEF StoreInv, TypeOK, Rewrite, handle
<1>2. t \in Section /\ t \in Devices
  BY <1>1, TargetFacts
<1>3. dev' \in [Section -> Image] /\ dev'[t] = image
  BY <1>1, <1>2
<1>4. Buffers'[t] = image
  BY <1>2, <1>3 DEF Buffers
<1>5. Verified(t)' => image = Serialized
  BY <1>4 DEF Verified, Rewrite
<1>6. ASSUME NEW s \in Section \ {t}
      PROVE  dev'[s] = dev[s] /\ Buffers'[s] = Buffers[s]
  BY <1>1 DEF Buffers
<1>7. ASSUME NEW s \in Section \ {t}
      PROVE  Verified(s)' = Verified(s) /\ Exact(s)' = Exact(s)
  BY <1>1, <1>6 DEF Verified, Exact
<1>8. HeadersGood'
  <2> SUFFICES ASSUME NEW s \in Section, dev'[s].hdr # Garbage
               PROVE  dev'[s].hdr \in GoodHeader
    BY DEF HeadersGood
  <2>1. CASE s = t
    BY <1>1, <1>3, <2>1, WritingFacts DEF Rewrite, Writing
  <2>2. CASE s # t
    BY <1>6, <2>2 DEF StoreInv, HeadersGood
  <2>3. QED
    BY <2>1, <2>2
<1>9. TieSameData'
  <2> DEFINE o == Other(t)
  <2>1. o \in Section \ {t} /\ Section = {t, o}
    BY <1>2, OtherSection
  <2>2. SUFFICES ASSUME Verified(t)', Verified(o), dev'[t].hdr.user = dev[o].hdr.user
                 PROVE  dev'[t].data = dev[o].data
    BY <1>6, <1>7, <2>1 DEF TieSameData, Section
  <2>3. dev'[t] = Serialized
    BY <1>3, <1>5, <2>2
  <2>4. dev[o].hdr = ValidateSection(Buffers[o]).hdr /\ dev[o].hdr \in GoodHeader
    BY <2>1, <2>2, VerifiedFacts DEF StoreInv
  <2>5. Transactional
    BY <1>1, <2>1, <2>2, SingleFacts, TargetFacts DEF Target, Writing
  <2>6. CASE pc = "write1"
    <3>1. o = Kept /\ Exact(o)
      BY <1>1, <2>5, <2>6, TargetFacts DEF Kept, StoreInv, SectionsSound
    <3>2. trans.section[Kept].hdr.user = dev[o].hdr.user /\ IsVerified(trans.section[Kept])
      BY <2>2, <2>4, <3>1 DEF Exact, Verified
    <3>3. hdr.user = dev[o].hdr.user
      BY <2>2, <2>3 DEF Serialized
    <3>4. dev[o].hdr.user \in Int
      BY <2>4, CounterAssumption DEF GoodHeader
    <3>5. /\ op.reset => hdr.user = 1 /\ dev[o].hdr.user = UINT32_MAX - 1
          /\ ~op.reset => hdr.user = dev[o].hdr.user + 1
      BY <2>6, <3>2, WritingFacts
    <3>6. QED
      BY <3>3, <3>4, <3>5, CounterAssumption
  <2>7. CASE pc = "write2"
    <3>1. o = op.write
      BY <1>1, <2>7, TargetFacts, WritingFacts
    <3>2. dev[o] = Serialized
      BY <2>5, <2>7, <3>1 DEF StoreInv, SectionsSound
    <3>3. QED
      BY <2>3, <3>2
  <2>8. QED
    BY <1>1, <2>6, <2>7 DEF Writing
<1>10. QED
  BY <1>3, <1>4, <1>5, <1>6, <1>7, <1>8, <1>9

LEMMA WriteProgressStep ==
  ASSUME StoreInv, WriteProgress
  PROVE  StoreInv'
<1> DEFINE t == Target
<1>1. Writing /\ t \in Section /\ dev[t] \in Image /\ dev[t] # Serialized
  BY TargetFacts DEF WriteProgress, StoreInv, TypeOK
<1>2. PICK image \in PartlyWritten(dev[t], Serialized) : dev' = [dev EXCEPT ![t] = image]
  BY DEF WriteProgress
<1>3. Rewrite(image)
  BY <1>1, <1>2, PartlyWrittenFacts DEF Rewrite, WriteProgress
<1>4. pc' = pc /\ trans' = trans /\ list' = list /\ op' = op /\ hdr' = hdr
  BY DEF WriteProgress, handle
<1>5. /\ dev' \in [Section -> Image] /\ HeadersGood'
      /\ dev'[t] = image
      /\ IsVerified(ValidateSection(Buffers'[t])) => image = Serialized
      /\ \A s \in Section \ {t} : dev'[s] = dev[s] /\ Exact(s)' = Exact(s)
  <2>1. PICK u : u = Target
    OBVIOUS
  <2>2. QED
    BY <1>3, <2>1, RewriteFacts DEF Verified
<1>6. TypeOK'
  BY <1>4, <1>5 DEF StoreInv, TypeOK
<1>7. HandleSound'
  BY <1>4 DEF StoreInv, HandleSound
<1>8. Serialized' = Serialized /\ Kept' = Kept /\ FirstTarget' = FirstTarget
  BY <1>4 DEF Serialized, Kept, FirstTarget
<1>9. SectionsSound'
  <2> SUFFICES ASSUME Transactional PROVE SectionsSound'
    BY DEF SectionsSound
  <2>1. CASE pc = "write1"
    <3>1. t = op.write /\ Kept \in Section \ {t}
      BY <1>1, <2>1, TargetFacts, WritingFacts
    <3>2. Exact(Kept)'
      BY <1>5, <1>8, <2>1, <3>1 DEF StoreInv, SectionsSound, Exact
    <3>3. OldOrNew(op.write)'
      BY <1>4, <1>5, <1>8, <3>1 DEF OldOrNew, Verified
    <3>4. QED
      BY <1>4, <2>1, <3>2, <3>3 DEF SectionsSound
  <2>2. CASE pc = "write2"
    <3>1. t = Kept /\ op.write \in Section \ {t}
      BY <1>1, <2>2, TargetFacts, WritingFacts
    <3>2. op.reset /\ dev'[op.write] = Serialized
      BY <1>5, <2>2, <3>1 DEF StoreInv, SectionsSound
    <3>3. OldOrNew(Kept)'
      BY <1>5, <1>8, <3>1 DEF OldOrNew, Verified
    <3>4. QED
      BY <1>4, <1>8, <2>2, <3>2, <3>3 DEF SectionsSound
  <2>3. QED
    BY <1>1, <2>1, <2>2 DEF Writing
<1>10. SingleSound' /\ HandleCurrent'
  BY <1>1, <1>4 DEF StoreInv, SingleSound, HandleCurrent, Writing
<1>11. QED
  BY <1>5, <1>6, <1>7, <1>9, <1>10 DEF StoreInv

LEMMA WriteReturnsStep ==
  ASSUME StoreInv, WriteReturns
  PROVE  StoreInv'
<1> DEFINE t == Target
<1>1. Writing /\ t \in Section
  BY TargetFacts DEF WriteReturns
<1>2. Rewrite(Serialized)
  <2>1. Serialized \in Image /\ Serialized.hdr = hdr
    BY <1>1, WritingFacts DEF Writing, Serialized
  <2>2. QED
    BY <1>1, <2>1 DEF Rewrite, WriteReturns
<1>3. /\ pc' = IF Transactional /\ op.reset /\ pc = "write1" THEN "write2" ELSE "update"
      /\ trans' = trans /\ list' = list /\ op' = op /\ hdr' = hdr
  BY DEF WriteReturns, NeedsSecondWrite, handle
<1>4. /\ dev' \in [Section -> Image] /\ HeadersGood'
      /\ dev'[t] = Serialized
      /\ \A s \in Section \ {t} : dev'[s] = dev[s] /\ Exact(s)' = Exact(s)
  <2>1. PICK u : u = Target
    OBVIOUS
  <2>2. QED
    BY <1>2, <2>1, RewriteFacts
<1>5. TypeOK'
  BY <1>1, <1>3, <1>4 DEF StoreInv, TypeOK, PC, Writing
<1>6. HandleSound'
  BY <1>1, <1>3 DEF StoreInv, HandleSound, Writing
<1>7. Serialized' = Serialized /\ Kept' = Kept /\ FirstTarget' = FirstTarget
  BY <1>3 DEF Serialized, Kept, FirstTarget
<1>8. SectionsSound'
  <2> SUFFICES ASSUME Transactional PROVE SectionsSound'
    BY DEF SectionsSound
  <2>1. CASE pc = "write1"
    <3>1. t = op.write /\ Kept \in Section \ {t}
      BY <1>1, <2>1, TargetFacts, WritingFacts
    <3>2. Exact(Kept)' /\ dev'[op.write] = Serialized
      BY <1>4, <1>7, <2>1, <3>1 DEF StoreInv, SectionsSound, Exact
    <3>3. QED
      BY <1>3, <1>7, <2>1, <3>2 DEF SectionsSound, OldOrNew
  <2>2. CASE pc = "write2"
    <3>1. t = Kept /\ op.write \in Section \ {t}
      BY <1>1, <2>2, TargetFacts, WritingFacts
    <3>2. op.reset /\ dev'[op.write] = Serialized /\ dev'[Kept] = Serialized
      BY <1>4, <2>2, <3>1 DEF StoreInv, SectionsSound
    <3>3. QED
      BY <1>3, <1>7, <2>2, <3>2 DEF SectionsSound
  <2>3. QED
    BY <1>1, <2>1, <2>2 DEF Writing
<1>9. SingleSound'
  <2> SUFFICES ASSUME ~Transactional PROVE pc' # "write2" /\ dev'[FirstTarget] = Serialized
    BY <1>7 DEF SingleSound
  <2>1. pc = "write1" /\ t = FirstTarget
    BY <1>1 DEF StoreInv, SingleSound, Writing, Target
  <2>2. QED
    BY <1>3, <1>4, <2>1
<1>10. HandleCurrent'
  BY <1>3 DEF HandleCurrent
<1>11. QED
  BY <1>4, <1>5, <1>6, <1>8, <1>9, <1>10 DEF StoreInv

(* After the writes of a commit the devices hold the list committed, under *)
(* the new header.                                                         *)
LEMMA CommittedIsLoaded ==
  ASSUME StoreInv, pc = "update"
  PROVE  /\ LoadedList(Buffers) = list
         /\ CurrentHeader(InitTransaction(Buffers)) = hdr
<1>1. /\ dev \in [Section -> Image]
      /\ Buffers \in [Section -> Image]
  BY BuffersType DEF StoreInv, TypeOK
<1>2. Serialized.hdr = hdr /\ Serialized.data = list /\ IsVerified(ValidateSection(Serialized))
  BY WritingFacts DEF Serialized
<1>3. CASE Transactional
  <2>1. Buffers = dev
    BY <1>1, <1>3, BuffersTransactional
  <2>2. op.write \in Section /\ Kept = Other(op.write) /\ Kept \in Section
    BY WritingFacts DEF Kept
  <2>3. dev[op.write] = Serialized
    BY <1>3 DEF StoreInv, SectionsSound
  <2>4. ASSUME Verified(Kept)
        PROVE  dev[Kept].hdr.user < hdr.user \/ dev[Kept] = Serialized
    <3>1. CASE op.reset
      BY <1>3, <3>1 DEF StoreInv, SectionsSound
    <3>2. CASE ~op.reset
      <4>1. Exact(Kept)
        BY <1>3, <3>2 DEF StoreInv, SectionsSound
      <4>2. IsVerified(trans.section[Kept]) /\ trans.section[Kept].hdr = dev[Kept].hdr
        BY <2>2, <2>4, <4>1, VerifiedFacts DEF Exact, Verified, StoreInv
      <4>3. hdr.user = dev[Kept].hdr.user + 1
        BY <3>2, <4>2, WritingFacts
      <4>4. dev[Kept].hdr \in GoodHeader
        BY <2>2, <2>4, VerifiedFacts DEF StoreInv
      <4>5. QED
        BY <4>3, <4>4, CounterAssumption DEF GoodHeader
    <3>3. QED
      BY <3>1, <3>2
  <2>5. QED
    BY <1>1, <1>2, <2>1, <2>2, <2>3, <2>4, LoadNewest DEF Verified
<1>4. CASE ~Transactional
  <2>1. dev[FirstTarget] = Serialized
    BY <1>4 DEF StoreInv, SingleSound
  <2>2. /\ FirstTarget \in Section
        /\ Buffers[FirstTarget] = Serialized
        /\ ~IsVerified(ValidateSection(Buffers[Other(FirstTarget)]))
    BY <1>1, <1>4, <2>1, SingleFacts DEF Verified
  <2>3. QED
    BY <1>1, <1>2, <2>2, LoadNewest
<1>5. QED
  BY <1>3, <1>4

LEMMA CommitReturnsStep ==
  ASSUME StoreInv, CommitReturns
  PROVE  StoreInv'
<1> DEFINE next == NextTransaction(trans)
<1>1. /\ pc = "update" /\ pc' = "open"
      /\ trans' = UpdateTransaction(trans, op, hdr)
      /\ dev' = dev /\ list' = list /\ Buffers' = Buffers
      /\ op' = NoOperation /\ hdr' = ZeroHeader
  BY DEF CommitReturns, Buffers
<1>2. /\ trans \in Transaction
      /\ trans.active = FindActive(trans.section)
      /\ Counted(trans.section)
      /\ op = next.op /\ hdr \in Header /\ hdr.user = next.user
  BY <1>1 DEF StoreInv, TypeOK, HandleSound
<1>3. /\ trans' \in Transaction
      /\ trans'.active = FindActive(trans'.section)
      /\ Counted(trans'.section)
      /\ trans'.active # {}
      /\ trans'.section[Preferred(trans'.active)].hdr = hdr
      /\ \A s \in Section :
           trans'.section[s] = IF s \in Written(op)
                                 THEN [hdr |-> hdr, state |-> ALL_VERIFIED]
                                 ELSE trans.section[s]
  <2>1. PICK updated : updated = UpdateTransaction(trans, op, hdr)
    OBVIOUS
  <2>2. QED
    BY <1>1, <1>2, <2>1, UpdateTransactionFacts
<1>4. TypeOK'
  <2>1. NoOperation \in Operation /\ ZeroHeader \in Header
    BY ZeroHeaderType DEF NoOperation, Operation, Section
  <2>2. QED
    BY <1>1, <1>3, <2>1 DEF StoreInv, TypeOK, PC
<1>5. HeadersGood'
  BY <1>1 DEF StoreInv, HeadersGood
<1>6. HandleSound'
  BY <1>1, <1>3 DEF HandleSound
<1>7. SectionsSound'
  <2> SUFFICES ASSUME Transactional, NEW s \in Section PROVE Exact(s)'
    BY <1>1 DEF SectionsSound
  <2>1. Buffers[s] = dev[s]
    BY BuffersTransactional DEF StoreInv, TypeOK
  <2>2. CASE s \in Written(op)
    <3>1. dev[s] = Serialized
      BY <1>1, <2>2, WritingFacts DEF Written, StoreInv, SectionsSound
    <3>2. ValidateSection(Serialized) = [hdr |-> hdr, state |-> ALL_VERIFIED]
      <4>1. hdr # Garbage /\ list = hdr.crc32
        BY <1>1, <1>2, WritingFacts, GarbageAssumption
      <4>2. {"HEADER_VERIFIED", "DATA_VERIFIED"} = ALL_VERIFIED
        BY DEF ALL_VERIFIED
      <4>3. QED
        BY <4>1, <4>2 DEF ValidateSection, ValidHeader, ValidData, Serialized
    <3>3. QED
      BY <1>1, <1>3, <2>1, <2>2, <3>1, <3>2 DEF Exact
  <2>3. CASE s \notin Written(op)
    <3>1. s = Kept /\ ~op.reset
      BY <1>1, <2>3, WritingFacts DEF Written
    <3>2. Exact(Kept)
      BY <1>1, <3>1 DEF StoreInv, SectionsSound
    <3>3. QED
      BY <1>1, <1>3, <2>3, <3>1, <3>2 DEF Exact
  <2>4. QED
    BY <2>2, <2>3
<1>8. SingleSound'
  BY <1>1 DEF SingleSound
<1>9. HandleCurrent'
  <2>1. CurrentHeader(trans') = hdr
    BY <1>3 DEF CurrentHeader
  <2>2. CurrentHeader(InitTransaction(Buffers)) = hdr /\ LoadedList(Buffers) = list
    BY <1>1, CommittedIsLoaded
  <2>3. QED
    BY <1>1, <2>1, <2>2 DEF HandleCurrent, CurrentHeader
<1>10. QED
  BY <1>4, <1>5, <1>6, <1>7, <1>8, <1>9 DEF StoreInv

LEMMA ForgetStep ==
  ASSUME StoreInv, Forget
  PROVE  StoreInv'
<1>1. Buffers' = Buffers /\ dev' = dev /\ pc' = "closed"
  BY DEF Forget, Buffers
<1>2. TypeOK'
  <2>1. ZeroTransaction \in Transaction
    <3>1. [hdr |-> ZeroHeader, state |-> {}] \in SectionInfo
      BY ZeroHeaderType DEF SectionInfo, State
    <3>2. QED
      BY <3>1 DEF ZeroTransaction, Transaction
  <2>2. NoOperation \in Operation
    BY DEF NoOperation, Operation, Section
  <2>3. QED
    BY <1>1, <2>1, <2>2, ZeroHeaderType DEF StoreInv, TypeOK, Forget, PC
<1>3. HeadersGood'
  BY <1>1 DEF StoreInv, HeadersGood
<1>4. HandleSound' /\ SectionsSound' /\ SingleSound' /\ HandleCurrent'
  BY <1>1 DEF HandleSound, SectionsSound, SingleSound, HandleCurrent
<1>5. QED
  BY <1>2, <1>3, <1>4 DEF StoreInv

(* A commit that gives up before or in a write leaves the devices alone.   *)
LEMMA GiveUpStep ==
  ASSUME StoreInv, pc' = "failed", UNCHANGED <<dev, handle>>
  PROVE  StoreInv'
<1>1. /\ Buffers' = Buffers /\ dev' = dev /\ trans' = trans
      /\ list' = list /\ op' = op /\ hdr' = hdr
  BY DEF Buffers, handle
<1>2. TypeOK'
  BY <1>1 DEF StoreInv, TypeOK, PC
<1>3. HeadersGood'
  BY <1>1 DEF StoreInv, HeadersGood
<1>4. HandleSound' /\ SectionsSound' /\ SingleSound' /\ HandleCurrent'
  BY DEF HandleSound, SectionsSound, SingleSound, HandleCurrent
<1>5. QED
  BY <1>2, <1>3, <1>4 DEF StoreInv

LEMMA StoreInvNext == StoreInv /\ [Next]_vars => StoreInv'
<1> SUFFICES ASSUME StoreInv, [Next]_vars PROVE StoreInv'
  OBVIOUS
<1>1. CASE NvramInit
  BY <1>1, NvramInitStep
<1>2. ASSUME NEW l \in Contents, CommitStart(l) PROVE StoreInv'
  BY <1>2, CommitStartStep
<1>3. CASE CommitNoMemory \/ WriteFails
  BY <1>3, GiveUpStep DEF CommitNoMemory, WriteFails
<1>4. CASE WriteProgress
  BY <1>4, WriteProgressStep
<1>5. CASE WriteReturns
  BY <1>5, WriteReturnsStep
<1>6. CASE CommitReturns
  BY <1>6, CommitReturnsStep
<1>7. CASE NvramClose \/ Crash
  BY <1>7, ForgetStep DEF NvramClose, Crash
<1>8. CASE UNCHANGED vars
  <2>1. /\ dev' = dev /\ pc' = pc /\ trans' = trans /\ list' = list
        /\ op' = op /\ hdr' = hdr /\ Buffers' = Buffers
    BY <1>8 DEF vars, Buffers
  <2>2. TypeOK' /\ HandleSound' /\ HandleCurrent'
    BY <2>1 DEF StoreInv, TypeOK, HandleSound, HandleCurrent
  <2>3. HeadersGood'
    BY <2>1 DEF StoreInv, HeadersGood
  <2>4. SectionsSound'
    BY <2>1 DEF StoreInv, SectionsSound, Exact, OldOrNew, Verified, Kept, Serialized
  <2>5. SingleSound'
    BY <2>1 DEF StoreInv, SingleSound, FirstTarget, Serialized
  <2>6. QED
    BY <2>2, <2>3, <2>4, <2>5 DEF StoreInv
<1>9. QED
  BY <1>1, <1>2, <1>3, <1>4, <1>5, <1>6, <1>7, <1>8 DEF Next

LEMMA StoreInvAlways == Spec => []StoreInv
  BY StoreInvInit, StoreInvNext, PTL DEF Spec

-------------------------------------------------------------------------------
(* The safety properties.                                                  *)
-------------------------------------------------------------------------------

(* The types hold in every reachable state, whatever the size of the       *)
(* counter, the lists and the configuration.                               *)
THEOREM StoreTypeCorrect == Spec => []TypeOK
  BY StoreInvAlways, PTL DEF StoreInv

(* Every change of a section is a Rewrite. *)
LEMMA ChangesRewrite ==
  ASSUME StoreInv, [Next]_vars, dev' # dev
  PROVE  \E image : Rewrite(image)
<1>1. CASE WriteProgress
  <2>1. Writing /\ Target \in Section /\ dev[Target] \in Image
    BY <1>1, TargetFacts DEF WriteProgress, StoreInv, TypeOK
  <2>2. PICK image \in PartlyWritten(dev[Target], Serialized) :
          dev' = [dev EXCEPT ![Target] = image]
    BY <1>1 DEF WriteProgress
  <2>3. Rewrite(image)
    BY <1>1, <2>1, <2>2, PartlyWrittenFacts DEF Rewrite, WriteProgress
  <2>4. QED
    BY <2>3
<1>2. CASE WriteReturns
  <2>1. Serialized \in Image /\ Serialized.hdr = hdr
    BY <1>2, WritingFacts DEF WriteReturns, Writing, Serialized
  <2>2. Rewrite(Serialized)
    BY <1>2, <2>1 DEF Rewrite, WriteReturns
  <2>3. QED
    BY <2>2
<1>3. QED
  BY <1>1, <1>2
     DEF Next, vars, NvramInit, CommitStart, CommitNoMemory, WriteFails,
         CommitReturns, NvramClose, Crash, Forget

(* A write leaves no tie with other data; nothing else changes a section.  *)
LEMMA TiesKept ==
  ASSUME StoreInv, TieSameData, [Next]_vars
  PROVE  TieSameData'
<1>1. CASE dev' = dev
  BY <1>1 DEF TieSameData, Verified, Buffers
<1>2. CASE dev' # dev
  <2>1. PICK image : Rewrite(image)
    BY <1>2, ChangesRewrite
  <2>2. PICK t : t = Target
    OBVIOUS
  <2>3. QED
    BY <2>1, <2>2, RewriteFacts
<1>3. QED
  BY <1>1, <1>2

(* Two good sections under one counter hold one list. *)
THEOREM StoreTies == Spec => []TieSameData
<1>1. Init => TieSameData
  BY DEF Init, TieSameData, BlankImage, Section
<1>2. StoreInv /\ TieSameData /\ [Next]_vars => TieSameData'
  BY TiesKept
<1>3. QED
  BY <1>1, <1>2, StoreInvAlways, PTL DEF Spec

(* The counters of two good sections, as CountersInStep relates them. *)
BothInStep ==
  (\A s \in Section : Verified(s)) => InStep(dev["A"].hdr.user, dev["B"].hdr.user)

LEMMA InStepSymmetric ==
  ASSUME NEW m \in Int, NEW n \in Int, InStep(m, n)
  PROVE  InStep(n, m)
  BY DEF InStep

(* A write that completes a section leaves the other one in step with it:  *)
(* the first write counts from the section it leaves alone, the second of  *)
(* a reset repeats the first.                                              *)
LEMMA RewriteInStep ==
  ASSUME StoreInv, NEW image, Rewrite(image), NEW t, t = Target
  PROVE  BothInStep'
<1> DEFINE o == Other(t)
<1>1. Writing /\ t \in Section /\ o \in Section \ {t} /\ Section = {t, o}
  BY TargetFacts, OtherSection DEF Rewrite
<1>2. /\ dev'[t] = image /\ (Verified(t)' => image = Serialized)
      /\ dev'[o] = dev[o] /\ Verified(o)' = Verified(o)
  BY <1>1, RewriteFacts
<1>3. SUFFICES ASSUME Verified(t)', Verified(o)
               PROVE  /\ dev'[t].hdr.user \in Int /\ dev'[o].hdr.user \in Int
                      /\ InStep(dev'[t].hdr.user, dev'[o].hdr.user)
  <2>1. (\A s \in Section : Verified(s)') => Verified(t)' /\ Verified(o)
    BY <1>1, <1>2
  <2>2. \/ t = "A" /\ o = "B"
        \/ t = "B" /\ o = "A"
    BY <1>1 DEF Section, Other
  <2>3. BothInStep' <=> ((\A s \in Section : Verified(s)') =>
                           InStep(dev'["A"].hdr.user, dev'["B"].hdr.user))
    BY DEF BothInStep, InStep
  <2>4. QED
    BY <2>1, <2>2, <2>3, InStepSymmetric
<1>4. dev'[t].hdr.user = hdr.user
  BY <1>2, <1>3 DEF Serialized
<1>5. dev[o].hdr = ValidateSection(Buffers[o]).hdr /\ dev[o].hdr \in GoodHeader
  BY <1>1, <1>3, VerifiedFacts DEF StoreInv
<1>6. hdr \in GoodHeader
  BY <1>1, WritingFacts DEF Writing
<1>7. hdr.user \in Int /\ dev[o].hdr.user \in Int
  BY <1>5, <1>6, CounterAssumption DEF GoodHeader
<1>8. Transactional
  BY <1>1, <1>3, SingleFacts, TargetFacts DEF Target, Writing, StoreInv, TypeOK, SingleSound
<1>9. CASE pc = "write1"
  <2>1. o = Kept /\ Exact(o)
    BY <1>1, <1>8, <1>9, TargetFacts DEF Kept, StoreInv, SectionsSound
  <2>2. trans.section[Kept].hdr.user = dev[o].hdr.user /\ IsVerified(trans.section[Kept])
    BY <1>3, <1>5, <2>1 DEF Exact, Verified
  <2>3. \/ hdr.user = 1 /\ dev[o].hdr.user = UINT32_MAX - 1
        \/ hdr.user = dev[o].hdr.user + 1
    BY <1>9, <2>2, WritingFacts DEF Operation
  <2>4. QED
    BY <1>2, <1>4, <1>7, <2>3 DEF InStep
<1>10. CASE pc = "write2"
  <2>1. o = op.write
    BY <1>1, <1>10, TargetFacts, WritingFacts
  <2>2. dev[o] = Serialized
    BY <1>8, <1>10, <2>1 DEF StoreInv, SectionsSound
  <2>3. dev[o].hdr.user = hdr.user
    BY <2>2 DEF Serialized
  <2>4. QED
    BY <1>2, <1>4, <1>7, <2>3 DEF InStep
<1>11. QED
  BY <1>1, <1>9, <1>10 DEF Writing

(* Counters are only ever compared one apart or at the two ends of their   *)
(* range, which ends before UINT32_MAX.                                    *)
THEOREM StoreCountersInStep == Spec => []CountersInStep
<1>1. Init => BothInStep
  <2> SUFFICES ASSUME Init PROVE BothInStep
    OBVIOUS
  <2>1. dev \in [Section -> Image] /\ dev["A"] = BlankImage /\ "A" \in Section
    BY BlankImageType DEF Init, Section
  <2>2. Buffers["A"] = BlankImage
    BY <2>1 DEF Buffers
  <2>3. ~Verified("A")
    BY <2>2, BlankImageType, ValidateFacts DEF Verified, BlankImage
  <2>4. QED
    BY <2>1, <2>3 DEF BothInStep
<1>2. StoreInv /\ BothInStep /\ [Next]_vars => BothInStep'
  <2> SUFFICES ASSUME StoreInv, BothInStep, [Next]_vars PROVE BothInStep'
    OBVIOUS
  <2>1. CASE dev' = dev
    BY <2>1 DEF BothInStep, Verified, Buffers
  <2>2. CASE dev' # dev
    <3>1. PICK image : Rewrite(image)
      BY <2>2, ChangesRewrite
    <3>2. PICK t : t = Target
      OBVIOUS
    <3>3. QED
      BY <3>1, <3>2, RewriteInStep
  <2>3. QED
    BY <2>1, <2>2
<1>3. StoreInv /\ BothInStep => CountersInStep
  <2> SUFFICES ASSUME StoreInv, BothInStep,
                      NEW s \in Devices, dev[s].hdr # Garbage
               PROVE  dev[s].hdr.user \in 1 .. UINT32_MAX - 1
    BY DEF CountersInStep, BothInStep
  <2>1. s \in Section
    BY DevicesAssumption DEF Section
  <2>2. QED
    BY <2>1 DEF StoreInv, HeadersGood, GoodHeader
<1>4. QED
  BY <1>1, <1>2, <1>3, StoreInvAlways, PTL DEF Spec

(* Between commits the handle agrees with the devices, with two sections   *)
(* and with one.                                                           *)
THEOREM StoreHandleCurrent == Spec => []HandleCurrent
  BY StoreInvAlways, PTL DEF StoreInv

(* nvram_commit never writes over the last good section of a store of two. *)
LEMMA GoodSectionKept ==
  ASSUME StoreInv, Transactional
  PROVE  OneGoodSection
<1> SUFFICES ASSUME Writing, trans.active # {} PROVE Verified(Other(Target))
  BY DEF OneGoodSection
<1>1. CASE pc = "write1"
  <2>1. Other(Target) = Kept /\ Exact(Kept) /\ Kept = Preferred(trans.active)
    BY <1>1, TargetFacts, WritingFacts DEF Kept, StoreInv, SectionsSound
  <2>2. IsVerified(trans.section[Preferred(trans.active)])
    <3>1. trans.section \in [Section -> SectionInfo] /\ trans.active = FindActive(trans.section)
      BY <1>1 DEF StoreInv, TypeOK, Transaction, HandleSound
    <3>2. QED
      BY <3>1, FindActiveFacts
  <2>3. QED
    BY <2>1, <2>2 DEF Exact, Verified
<1>2. CASE pc = "write2"
  <2>1. Other(Target) = op.write
    BY <1>2, TargetFacts, WritingFacts
  <2>2. Buffers[op.write] = Serialized
    BY <1>2, BuffersTransactional DEF StoreInv, TypeOK, SectionsSound
  <2>3. QED
    BY <1>2, <2>1, <2>2, WritingFacts DEF Verified
<1>3. QED
  BY <1>1, <1>2 DEF Writing

(* With two sections a write never starts on, or goes on over, the last    *)
(* good copy.                                                              *)
THEOREM StoreKeepsGoodSection ==
  ASSUME Transactional
  PROVE  Spec => []OneGoodSection
<1>1. StoreInv => OneGoodSection
  BY GoodSectionKept
<1>2. QED
  BY <1>1, StoreInvAlways, PTL

(* One step of a store of two sections leaves a good one if there was one. *)
LEMMA GoodRemains ==
  ASSUME StoreInv, Transactional, [Next]_vars, \E s \in Section : Verified(s)
  PROVE  \E s \in Section : Verified(s)'
<1>1. CASE Buffers' = Buffers
  BY <1>1 DEF Verified
<1>2. CASE WriteReturns
  <2>1. Target \in Section /\ Writing
    BY <1>2, TargetFacts DEF WriteReturns
  <2>2. PICK t \in Section : t = Target
    BY <2>1
  <2>3. t \in Devices
    BY <2>1, <2>2, TargetFacts
  <2>4. Buffers'[t] = Serialized
    BY <1>2, <2>2, <2>3 DEF WriteReturns, Buffers, StoreInv, TypeOK
  <2>5. QED
    BY <2>1, <2>4, WritingFacts DEF Verified, Writing
<1>3. CASE WriteProgress
  <2>1. Writing /\ Target \in Section /\ dev[Target] # Serialized
    BY <1>3, TargetFacts DEF WriteProgress
  <2>2. PICK o \in Section : o = Other(Target) /\ o # Target /\ Section = {Target, o}
    BY <2>1, OtherSection
  <2>3. Buffers'[o] = Buffers[o]
    BY <1>3, <2>1, <2>2 DEF WriteProgress, Buffers, StoreInv, TypeOK
  <2>4. CASE trans.active # {}
    BY <2>1, <2>2, <2>3, <2>4, GoodSectionKept DEF OneGoodSection, Verified
  <2>5. CASE trans.active = {}
    <3>1. pc = "write1" /\ Target = op.write /\ o = Kept
      BY <2>1, <2>2, <2>5, TargetFacts, WritingFacts DEF Writing, Kept, StoreInv, SectionsSound
    <3>2. \A s \in Section : ~IsVerified(trans.section[s])
      <4>1. trans.section \in [Section -> SectionInfo] /\ trans.active = FindActive(trans.section)
        BY <3>1 DEF StoreInv, TypeOK, Transaction, HandleSound
      <4>2. QED
        BY <2>5, <4>1, FindActiveFacts
    <3>3. Exact(o) /\ (Exact(Target) \/ ~Verified(Target))
      BY <2>1, <3>1 DEF StoreInv, SectionsSound, OldOrNew
    <3>4. QED
      BY <2>1, <2>2, <3>2, <3>3 DEF Exact, Verified
  <2>6. QED
    BY <2>4, <2>5
<1>4. QED
  BY <1>1, <1>2, <1>3
     DEF Next, vars, Buffers, NvramInit, CommitStart, CommitNoMemory, WriteFails,
         CommitReturns, NvramClose, Crash, Forget

(* Once a list was stored, no failure and no crash at any point of any     *)
(* commit leaves a store of two sections without one.                      *)
THEOREM StoreNeverBlank ==
  ASSUME Transactional
  PROVE  Spec => NeverBlank
<1>1. StoreInv /\ [Next]_vars
        => [(\E s \in Section : Verified(s)) => (\E s \in Section : Verified(s)')]_vars
  BY GoodRemains
<1>2. QED
  BY <1>1, StoreInvAlways, PTL DEF Spec, NeverBlank

-------------------------------------------------------------------------------
(* A commit on two sections is atomic.                                     *)
-------------------------------------------------------------------------------

(* What a read would find in the middle of the first write, d being the    *)
(* devices: the old list while the section written is not good, then the   *)
(* new one, unless the counter restarts.                                   *)
LEMMA LoadInFirstWrite ==
  ASSUME StoreInv, Transactional, pc = "write1",
         NEW d \in [Section -> Image], d[Kept] = dev[Kept]
  PROVE  /\ ~IsVerified(ValidateSection(d[op.write])) =>
              LoadedList(d) = IF trans.active = {} THEN EmptyList ELSE dev[Kept].data
         /\ d[op.write] = Serialized /\ op.reset =>
              trans.active # {} /\ LoadedList(d) = dev[Kept].data
         /\ d[op.write] = Serialized /\ ~op.reset => LoadedList(d) = list
<1>1. /\ op.write \in Section /\ Kept \in Section /\ Section = {op.write, Kept}
      /\ Other(Kept) = op.write /\ Kept = Other(op.write)
  BY WritingFacts DEF Kept
<1>2. dev \in [Section -> Image] /\ Buffers = dev
  BY BuffersTransactional DEF StoreInv, TypeOK
<1>3. trans.section[Kept] = ValidateSection(dev[Kept])
  BY <1>2 DEF StoreInv, SectionsSound, Exact
<1>4. trans.section \in [Section -> SectionInfo] /\ trans.active = FindActive(trans.section)
  BY DEF StoreInv, TypeOK, Transaction, HandleSound
<1>5. trans.active = {} => ~IsVerified(ValidateSection(d[Kept]))
  <2>1. trans.active = {} => ~IsVerified(trans.section[Kept])
    BY <1>1, <1>4, FindActiveFacts
  <2>2. QED
    BY <1>3, <2>1
<1>6. trans.active # {} => IsVerified(ValidateSection(d[Kept]))
  BY <1>1, <1>3, <1>4, FindActiveFacts, WritingFacts
<1>7. Serialized.hdr = hdr /\ Serialized.data = list /\ IsVerified(ValidateSection(Serialized))
  BY WritingFacts DEF Serialized
<1>8. IsVerified(ValidateSection(d[Kept])) =>
        /\ trans.section[Kept].hdr = dev[Kept].hdr
        /\ dev[Kept].hdr \in GoodHeader
  BY <1>1, <1>2, <1>3, VerifiedFacts DEF Verified, StoreInv
<1>9. ASSUME ~IsVerified(ValidateSection(d[op.write]))
      PROVE  LoadedList(d) = IF trans.active = {} THEN EmptyList ELSE dev[Kept].data
  <2>1. CASE trans.active = {}
    <3>1. \A s \in Section : ~IsVerified(ValidateSection(d[s]))
      BY <1>1, <1>5, <1>9, <2>1
    <3>2. QED
      BY <2>1, <3>1, LoadNone
  <2>2. CASE trans.active # {}
    BY <1>1, <1>6, <1>9, <2>2, LoadNewest
  <2>3. QED
    BY <2>1, <2>2
<1>10. ASSUME d[op.write] = Serialized, op.reset
       PROVE  trans.active # {} /\ LoadedList(d) = dev[Kept].data
  <2>1. /\ trans.active # {} /\ hdr.user = 1
        /\ trans.section[Kept].hdr.user = UINT32_MAX - 1
    BY <1>10, WritingFacts
  <2>2. d[op.write].hdr.user < d[Kept].hdr.user
    BY <1>6, <1>7, <1>8, <1>10, <2>1, CounterAssumption
  <2>3. QED
    BY <1>1, <1>6, <2>1, <2>2, LoadNewest
<1>11. ASSUME d[op.write] = Serialized, ~op.reset
       PROVE  LoadedList(d) = list
  <2>1. ASSUME IsVerified(ValidateSection(d[Kept]))
        PROVE  d[Kept].hdr.user < d[op.write].hdr.user
    <3>1. hdr.user = dev[Kept].hdr.user + 1
      BY <1>3, <1>8, <1>11, <2>1, WritingFacts
    <3>2. dev[Kept].hdr.user \in Int
      BY <1>8, <2>1, CounterAssumption DEF GoodHeader
    <3>3. QED
      BY <1>7, <1>11, <3>1, <3>2
  <2>2. QED
    BY <1>1, <1>7, <1>11, <2>1, LoadNewest
<1>12. QED
  BY <1>9, <1>10, <1>11

(* A write changes the stored list to the one committed, if at all. *)
LEMMA WriteInstalls ==
  ASSUME StoreInv, Transactional, NEW image, Rewrite(image),
         dev[Target] = Serialized => image = Serialized
  PROVE  LoadedList(Buffers') = LoadedList(Buffers) \/ LoadedList(Buffers') = list
<1>1. Writing /\ dev \in [Section -> Image] /\ Buffers = dev
  BY BuffersTransactional DEF StoreInv, TypeOK, Rewrite
<1>2. PICK t \in Section : t = Target
  BY <1>1, TargetFacts
<1>3. /\ dev' \in [Section -> Image]
      /\ dev'[t] = image
      /\ IsVerified(ValidateSection(image)) => image = Serialized
      /\ \A s \in Section \ {t} : dev'[s] = dev[s]
  BY <1>2, RewriteFacts DEF Rewrite
<1>4. Buffers' = dev'
  BY <1>3 DEF Buffers, Transactional
<1>5. /\ op.write \in Section /\ Kept \in Section /\ Kept # op.write
      /\ Section = {op.write, Kept}
      /\ Other(Kept) = op.write /\ Kept = Other(op.write)
      /\ Serialized.data = list /\ IsVerified(ValidateSection(Serialized))
  BY <1>1, WritingFacts DEF Kept, Writing, Serialized
<1>6. CASE pc = "write1"
  <2> DEFINE old == IF trans.active = {} THEN EmptyList ELSE dev[Kept].data
  <2>1. t = op.write /\ dev'[Kept] = dev[Kept]
    BY <1>1, <1>2, <1>3, <1>5, <1>6, TargetFacts
  <2>2. \/ LoadedList(dev') = list
        \/ LoadedList(dev') = old
    BY <1>3, <1>6, <2>1, LoadInFirstWrite
  <2>3. dev[t] # Serialized => LoadedList(dev) = old
    <3>1. CASE Exact(t)
      <4>1. trans.section = [s \in Section |-> ValidateSection(dev[s])]
        <5>1. trans.section \in [Section -> SectionInfo]
          BY DEF StoreInv, TypeOK, Transaction
        <5>2. \A s \in Section : trans.section[s] = ValidateSection(dev[s])
          BY <1>1, <1>5, <1>6, <2>1, <3>1 DEF StoreInv, SectionsSound, Exact
        <5>3. QED
          BY <5>1, <5>2
      <4>2. InitTransaction(dev).active = trans.active
        BY <1>6, <4>1 DEF InitTransaction, StoreInv, HandleSound
      <4>3. trans.active # {} => Kept = Preferred(trans.active)
        BY <1>6, WritingFacts
      <4>4. QED
        BY <4>2, <4>3 DEF LoadedList
    <3>2. CASE ~Verified(t)
      BY <1>1, <1>6, <2>1, <3>2, LoadInFirstWrite DEF Verified
    <3>3. QED
      BY <1>6, <2>1, <3>1, <3>2 DEF StoreInv, SectionsSound, OldOrNew
  <2>4. dev[t] = Serialized => dev' = dev
    BY <1>2, <1>3, <1>1
  <2>5. QED
    BY <1>1, <1>4, <2>2, <2>3, <2>4
<1>7. CASE pc = "write2"
  <2>1. t = Kept /\ dev'[op.write] = Serialized
    BY <1>1, <1>2, <1>3, <1>5, <1>7, TargetFacts DEF StoreInv, SectionsSound
  <2>2. LoadedList(dev') = Serialized.data
    BY <1>3, <1>5, <2>1, LoadNewest
  <2>3. QED
    BY <1>4, <1>5, <2>2
<1>8. QED
  BY <1>1, <1>6, <1>7 DEF Writing

LEMMA AbstractInit == Init => Abstract!Init
<1> SUFFICES ASSUME Init PROVE Abstract!Init
  OBVIOUS
<1>1. \A s \in Section : Buffers[s] = BlankImage
  BY DEF Init, Buffers
<1>2. Buffers \in [Section -> Image]
  BY <1>1, BlankImageType DEF Buffers
<1>3. \A s \in Section : ~IsVerified(ValidateSection(Buffers[s]))
  BY <1>1, <1>2, BlankImageType, ValidateFacts DEF BlankImage
<1>4. LoadedList(Buffers) = EmptyList
  BY <1>2, <1>3, LoadNone
<1>5. QED
  BY <1>4 DEF Init, Abstract!Init

(* Every step of a store of two sections is a step of AtomicStore. *)
LEMMA AbstractNext ==
  ASSUME StoreInv, Transactional, [Next]_vars
  PROVE  [Abstract!Next]_(Abstract!vars)
<1> DEFINE stored  == LoadedList(Buffers)
           view    == IF pc = "open" THEN list ELSE NoList
           pending == IF pc \in {"write1", "write2", "update"} THEN list ELSE NoList
<1>1. pc \in {"open", "write1", "write2", "update"} => list \in Contents /\ list # NoList
  BY ListAssumption DEF StoreInv, TypeOK
<1>2. CASE NvramInit
  <2>1. view = NoList /\ pending = NoList /\ view' = stored /\ stored' = stored /\ pending' = pending
    BY <1>2 DEF NvramInit, Buffers
  <2>2. Abstract!Open
    BY <2>1 DEF Abstract!Open
  <2>3. QED
    BY <2>2 DEF Abstract!Next
<1>3. ASSUME NEW l \in Contents, CommitStart(l) PROVE [Abstract!Next]_(Abstract!vars)
  <2>1. view # NoList /\ view' = NoList /\ pending' = l /\ stored' = stored
    BY <1>1, <1>3 DEF CommitStart, Buffers
  <2>2. Abstract!Begin(l)
    BY <2>1 DEF Abstract!Begin
  <2>3. QED
    BY <2>2 DEF Abstract!Next
<1>4. CASE CommitNoMemory \/ WriteFails \/ NvramClose \/ Crash
  <2>1. view' = NoList /\ pending' = NoList /\ stored' = stored
    BY <1>4 DEF CommitNoMemory, WriteFails, NvramClose, Crash, Forget, Buffers
  <2>2. Abstract!End
    BY <2>1 DEF Abstract!End
  <2>3. QED
    BY <2>2 DEF Abstract!Next
<1>5. CASE WriteProgress \/ WriteReturns
  <2>1. stored' = stored \/ stored' = list
    <3>1. CASE WriteProgress
      <4>1. Writing /\ dev[Target] \in Image /\ dev[Target] # Serialized
        BY <3>1, TargetFacts DEF WriteProgress, StoreInv, TypeOK
      <4>2. PICK image \in PartlyWritten(dev[Target], Serialized) : dev' = [dev EXCEPT ![Target] = image]
        BY <3>1 DEF WriteProgress
      <4>3. Rewrite(image)
        BY <3>1, <4>1, <4>2, PartlyWrittenFacts DEF Rewrite, WriteProgress
      <4>4. QED
        BY <4>1, <4>3, WriteInstalls
    <3>2. CASE WriteReturns
      <4>1. Serialized \in Image /\ Serialized.hdr = hdr
        BY <3>2, WritingFacts DEF Writing, Serialized, WriteReturns
      <4>2. Rewrite(Serialized)
        BY <3>2, <4>1 DEF Rewrite, WriteReturns
      <4>3. QED
        BY <4>2, WriteInstalls
    <3>3. QED
      BY <1>5, <3>1, <3>2
  <2>2. /\ pending = list /\ pending' = list /\ list \in Contents /\ list # NoList
        /\ view = NoList /\ view' = NoList
    BY <1>1, <1>5 DEF WriteProgress, WriteReturns, Writing, handle
  <2>3. CASE stored' = list
    <3>1. Abstract!Install
      BY <2>2, <2>3 DEF Abstract!Install
    <3>2. QED
      BY <3>1 DEF Abstract!Next
  <2>4. CASE stored' = stored
    BY <2>2, <2>4 DEF Abstract!vars
  <2>5. QED
    BY <2>1, <2>3, <2>4
<1>6. CASE CommitReturns
  <2>1. /\ pending = list /\ pending' = NoList /\ list # NoList
        /\ view' = list /\ stored' = stored
    BY <1>1, <1>6 DEF CommitReturns, Buffers
  <2>2. stored = list
    BY <1>6, CommittedIsLoaded DEF CommitReturns
  <2>3. Abstract!Succeed
    BY <2>1, <2>2 DEF Abstract!Succeed
  <2>4. QED
    BY <2>3 DEF Abstract!Next
<1>7. CASE UNCHANGED vars
  BY <1>7 DEF vars, Abstract!vars, Buffers
<1>8. QED
  BY <1>2, <1>3, <1>4, <1>5, <1>6, <1>7 DEF Next

(* For every size of the counter and every set of lists, a store of two    *)
(* sections implements AtomicStore: whatever fails or dies at whatever     *)
(* point, a reader finds the old list or the new one.                      *)
THEOREM StoreCommitIsAtomic ==
  ASSUME Transactional
  PROVE  Spec => CommitIsAtomic
<1>1. StoreInv /\ [Next]_vars => [Abstract!Next]_(Abstract!vars)
  BY AbstractNext
<1>2. QED
  BY <1>1, AbstractInit, StoreInvAlways, PTL DEF Spec, CommitIsAtomic, Abstract!Spec

-------------------------------------------------------------------------------
(* A store of two sections over a page cache, when the power can fail.     *)
-------------------------------------------------------------------------------

(* A read of the medium finds a section that is whole, or nothing. *)
LEMMA StoredFacts ==
  ASSUME NEW image \in [Section -> Image]
  PROVE  \/ \E s \in Section : /\ IsVerified(ValidateSection(image[s]))
                               /\ Stored(image) = image[s].data
         \/ /\ \A s \in Section : ~IsVerified(ValidateSection(image[s]))
            /\ Stored(image) = NoList
<1> DEFINE section == [s \in Section |-> ValidateSection(image[s])]
           active == FindActive(section)
<1>1. section \in [Section -> SectionInfo]
  BY ValidateFacts
<1>2. InitTransaction(image).active = active
  BY DEF InitTransaction
<1>3. CASE active = {}
  <2>1. \A s \in Section : ~IsVerified(section[s])
    BY <1>1, <1>3, FindActiveFacts
  <2>2. QED
    BY <1>2, <1>3, <2>1 DEF Stored
<1>4. CASE active # {}
  <2>1. Preferred(active) \in Section /\ IsVerified(section[Preferred(active)])
    BY <1>1, <1>4, FindActiveFacts
  <2>2. Stored(image) = image[Preferred(active)].data
    BY <1>2, <1>4 DEF Stored, LoadedList
  <2>3. QED
    BY <2>1, <2>2
<1>5. QED
  BY <1>3, <1>4

LEMMA MixedFacts ==
  ASSUME NEW old \in Image, NEW new \in Image
  PROVE  /\ Mixed(old, new) \subseteq Image
         /\ old \in Mixed(old, new) /\ new \in Mixed(old, new)
         /\ PartlyWritten(old, new) \subseteq Mixed(old, new)
         /\ \A a, b \in Mixed(old, new) : Mixed(a, b) \subseteq Mixed(old, new)
         /\ \A a \in Mixed(old, new) : PartlyWritten(a, new) \subseteq Mixed(old, new)
  BY DEF Mixed, PartlyWritten, Image

(* While a write has not changed its target yet, the section beside it     *)
(* holds what is stored, or the list being written.                        *)
LEMMA BesideTarget ==
  ASSUME StoreInv, Transactional, Writing, dev[Target] # Serialized,
         NEW o, o = Other(Target)
  PROVE  /\ Verified(o) => dev[o].data \in {Stored(dev), list}
         /\ ~Verified(o) => Stored(dev) = NoList
<1>1. dev \in [Section -> Image] /\ Buffers = dev
  BY BuffersTransactional DEF StoreInv, TypeOK
<1>2. PICK t \in Section : t = Target
  BY TargetFacts
<1>3. o \in Section /\ Section = {t, o}
  BY <1>2, OtherSection
<1>4. \A s \in Section : Verified(s) <=> IsVerified(ValidateSection(dev[s]))
  BY <1>1 DEF Verified
<1>5. CASE pc = "write1"
  <2>1. t = op.write /\ o = Kept /\ Exact(o) /\ (Exact(t) \/ ~Verified(t))
    BY <1>2, <1>5, TargetFacts DEF StoreInv, SectionsSound, OldOrNew, Kept
  <2>2. CASE ~Verified(t)
    BY <1>1, <1>3, <1>4, <2>2, StoredFacts
  <2>3. CASE Exact(t)
    <3>1. trans.section \in [Section -> SectionInfo] /\ trans.active = FindActive(trans.section)
      BY <1>5 DEF StoreInv, TypeOK, Transaction, HandleSound
    <3>2. \A s \in Section : trans.section[s] = ValidateSection(dev[s])
      BY <1>1, <1>3, <2>1, <2>3 DEF Exact
    <3>3. trans.section = [s \in Section |-> ValidateSection(dev[s])]
      BY <3>1, <3>2
    <3>4. InitTransaction(dev).active = trans.active
      BY <3>1, <3>3 DEF InitTransaction
    <3>5. trans.active = {} => ~Verified(o) /\ Stored(dev) = NoList
      <4>1. trans.active = {} => ~IsVerified(trans.section[o])
        BY <1>3, <3>1, FindActiveFacts
      <4>2. QED
        BY <1>3, <1>4, <3>2, <3>4, <4>1 DEF Stored
    <3>6. trans.active # {} => Verified(o) /\ Stored(dev) = dev[o].data
      <4>1. trans.active # {} => o = Preferred(trans.active)
        BY <1>5, <2>1, WritingFacts
      <4>2. QED
        BY <1>3, <1>4, <3>1, <3>2, <3>4, <4>1, FindActiveFacts DEF Stored, LoadedList
    <3>7. QED
      BY <3>5, <3>6
  <2>4. QED
    BY <2>1, <2>2, <2>3
<1>6. CASE pc = "write2"
  <2>1. o = op.write
    BY <1>2, <1>6, TargetFacts, WritingFacts
  <2>2. dev[o] = Serialized
    BY <1>6, <2>1 DEF StoreInv, SectionsSound
  <2>3. Verified(o) /\ dev[o].data = list
    BY <1>3, <1>4, <1>6, <2>2, WritingFacts DEF Serialized
  <2>4. QED
    BY <2>3
<1>7. QED
  BY <1>5, <1>6 DEF Writing

(* However the pages of one write are mixed with those it replaces, a read *)
(* finds what was stored before it or the list it writes.                  *)
LEMMA OneWriteIsAtomic ==
  ASSUME StoreInv, Transactional, Writing, dev[Target] # Serialized,
         NEW image \in Mixed(dev[Target], Serialized)
  PROVE  Stored([dev EXCEPT ![Target] = image]) \in {Stored(dev), list}
<1> DEFINE o == Other(Target)
           mixed == [dev EXCEPT ![Target] = image]
<1>1. dev \in [Section -> Image] /\ Buffers = dev
  BY BuffersTransactional DEF StoreInv, TypeOK
<1>2. Target \in Section
  BY TargetFacts
<1>3. PICK t \in Section : t = Target
  BY <1>2
<1>4. o \in Section /\ o # t /\ Section = {t, o}
  BY <1>3, OtherSection
<1>5. Serialized = [hdr |-> hdr, data |-> list] /\ hdr.crc32 = list /\ Serialized \in Image
  BY WritingFacts DEF Serialized, Writing
<1>6. image \in Image
  BY <1>1, <1>2, <1>5, MixedFacts
<1>7. mixed \in [Section -> Image] /\ mixed[t] = image /\ mixed[o] = dev[o]
  BY <1>1, <1>3, <1>4, <1>6
<1>8. CASE image = dev[t]
  <2>1. mixed = dev
    BY <1>1, <1>3, <1>8
  <2>2. QED
    BY <2>1
<1>9. CASE image # dev[t]
  <2>1. ASSUME IsVerified(ValidateSection(image)) PROVE image.data = list
    <3>1. image.hdr # Garbage /\ image.data = image.hdr.crc32
      BY <1>6, <2>1, ValidateFacts
    <3>2. /\ image = [hdr |-> image.hdr, data |-> image.data]
          /\ image.hdr = dev[t].hdr \/ image.hdr = hdr
          /\ image.data \in {Garbage, dev[t].data, list}
      BY <1>3, <1>5, <3>1 DEF Mixed
    <3>3. CASE image.hdr = hdr
      BY <1>5, <3>1, <3>3
    <3>4. CASE image.hdr = dev[t].hdr
      <4>1. image.data # Garbage
        BY <3>1, <3>4, GarbageAssumption DEF StoreInv, HeadersGood, GoodHeader
      <4>2. dev[t] = [hdr |-> dev[t].hdr, data |-> dev[t].data]
        BY <1>1 DEF Image
      <4>3. image.data # dev[t].data
        BY <1>9, <3>2, <3>4, <4>2
      <4>4. QED
        BY <3>2, <4>1, <4>3
    <3>5. QED
      BY <3>2, <3>3, <3>4
  <2>2. Verified(o) <=> IsVerified(ValidateSection(mixed[o]))
    BY <1>1, <1>7 DEF Verified
  <2>3. Verified(o) => dev[o].data \in {Stored(dev), list}
    BY BesideTarget
  <2>4. ~Verified(o) => Stored(dev) = NoList
    BY BesideTarget
  <2>5. CASE \E s \in Section : /\ IsVerified(ValidateSection(mixed[s]))
                                /\ Stored(mixed) = mixed[s].data
    BY <1>4, <1>7, <2>1, <2>2, <2>3, <2>5
  <2>6. CASE /\ \A s \in Section : ~IsVerified(ValidateSection(mixed[s]))
             /\ Stored(mixed) = NoList
    BY <1>4, <2>2, <2>4, <2>6
  <2>7. QED
    BY <1>7, <2>5, <2>6, StoredFacts
<1>10. QED
  BY <1>3, <1>8, <1>9

(* While every write began with nothing left to write back, the medium and *)
(* the page cache differ by the pages of one write.                        *)
OneWritePending ==
  \E s \in Section, old \in Image, new \in Image :
    /\ \A o \in Section \ {s} : disk[o] = dev[o]
    /\ disk[s] \in Mixed(old, new) /\ dev[s] \in Mixed(old, new)
    /\ Writing => s = Target /\ new = Serialized
    /\ \A image \in Mixed(old, new) :
         Stored([disk EXCEPT ![s] = image]) \in {durable, latest}

(* The inductive invariant. *)
PowerInv ==
  /\ StoreInv
  /\ disk \in [Section -> Image]
  /\ \A s \in Section : disk[s].hdr # Garbage => disk[s].hdr \in GoodHeader
  /\ Writing => latest = list
  /\ Dirty = {} => durable = Stored(disk)
  /\ ~early /\ Dirty # {} => OneWritePending

LEMMA PowerInvInit ==
  ASSUME Transactional, PowerInit
  PROVE  PowerInv
<1>1. StoreInv
  BY StoreInvInit DEF PowerInit
<1>2. dev \in [Section -> Image] /\ disk = dev
  BY <1>1 DEF StoreInv, TypeOK, PowerInit
<1>3. \A s \in Section : disk[s].hdr # Garbage => disk[s].hdr \in GoodHeader
  BY <1>1, <1>2 DEF StoreInv, HeadersGood
<1>4. Dirty = {} /\ ~Writing
  BY <1>2 DEF Dirty, Writing, PowerInit, Init
<1>5. durable = Stored(disk)
  <2>1. \A s \in Section : ~IsVerified(ValidateSection(disk[s]))
    BY <1>2, BlankImageType, ValidateFacts DEF PowerInit, Init, BlankImage
  <2>2. QED
    BY <1>2, <2>1, StoredFacts DEF PowerInit
<1>6. QED
  BY <1>1, <1>2, <1>3, <1>4, <1>5 DEF PowerInv

(* A step that writes: what it leaves in the page cache, and when. *)
LEMMA WriteChanges ==
  ASSUME StoreInv, Transactional, WriteProgress \/ WriteReturns, NEW t, t = Target
  PROVE  /\ Writing /\ t \in Section
         /\ dev' \in [Section -> Image]
         /\ \A s \in Section \ {t} : dev'[s] = dev[s]
         /\ dev'[t] \in PartlyWritten(dev[t], Serialized)
         /\ list' = list /\ Serialized' = Serialized
         /\ Writing' /\ ~WriteBegins => pc' = pc /\ Target' = Target
         /\ dev[t] = Serialized => dev' = dev
<1>1. Writing /\ t \in Section /\ dev \in [Section -> Image]
  BY TargetFacts DEF WriteProgress, WriteReturns, StoreInv, TypeOK
<1>2. list' = list /\ op' = op /\ Serialized' = Serialized
  BY DEF WriteProgress, WriteReturns, handle, Serialized
<1>3. PICK image \in PartlyWritten(dev[t], Serialized) :
        /\ dev' = [dev EXCEPT ![t] = image]
        /\ dev[t] = Serialized => image = Serialized
  <2>1. CASE WriteProgress
    BY <2>1 DEF WriteProgress
  <2>2. CASE WriteReturns
    <3>1. Serialized \in PartlyWritten(dev[t], Serialized)
      BY DEF PartlyWritten, Serialized
    <3>2. QED
      BY <2>2, <3>1 DEF WriteReturns
  <2>3. QED
    BY <2>1, <2>2
<1>4. Writing' /\ ~WriteBegins => pc' = pc /\ Target' = Target
  BY <1>2 DEF Writing, WriteBegins, Target, FirstTarget
<1>5. image \in Image
  BY <1>1, <1>3, WritingFacts, MixedFacts DEF Writing
<1>6. QED
  BY <1>1, <1>2, <1>3, <1>4, <1>5

(* The steps of the program that write nothing. *)
LEMMA OtherSteps ==
  ASSUME [Next]_vars, ~WriteProgress, ~WriteReturns
  PROVE  /\ dev' = dev
         /\ Writing' /\ ~WriteBegins => UNCHANGED vars
  BY DEF Next, vars, handle, NvramInit, CommitStart, CommitNoMemory, WriteFails,
         CommitReturns, NvramClose, Crash, Forget, Writing, WriteBegins

LEMMA DirtyFacts ==
  ASSUME PowerInv, Transactional
  PROVE  /\ Dirty = {s \in Section : disk[s] # dev[s]}
         /\ Dirty = {} => disk = dev
  BY DEF Dirty, PowerInv, StoreInv, TypeOK, Transactional

(* The program runs on. *)
LEMMA RunStep ==
  ASSUME PowerInv, Transactional, Run
  PROVE  PowerInv'
<1>1. StoreInv /\ StoreInv'
  BY StoreInvNext DEF PowerInv, Run
<1>2. /\ disk' = disk /\ disk \in [Section -> Image]
      /\ dev \in [Section -> Image] /\ dev' \in [Section -> Image]
  BY <1>1 DEF Run, PowerInv, StoreInv, TypeOK
<1>3. \A s \in Section : disk'[s].hdr # Garbage => disk'[s].hdr \in GoodHeader
  BY <1>2 DEF PowerInv
<1>4. WriteProgress \/ WriteReturns => Writing /\ list' = list
  BY DEF WriteProgress, WriteReturns, handle
<1>5. Writing' => latest' = list'
  <2>1. CASE WriteBegins
    BY <2>1 DEF Run, Observe
  <2>2. CASE ~WriteBegins
    <3>1. Writing' => Writing /\ list' = list
      BY <1>4, <2>2, OtherSteps DEF Run, vars, Writing
    <3>2. QED
      BY <2>2, <3>1 DEF Run, Observe, PowerInv
  <2>3. QED
    BY <2>1, <2>2
<1>6. Dirty' = {} => durable' = Stored(disk')
  BY DEF Run, Observe
<1>7. ASSUME ~early', Dirty' # {} PROVE OneWritePending'
  <2>1. /\ ~early /\ ~WriteBegins
        /\ durable' = durable /\ latest' = latest
    BY <1>7 DEF Run, Observe
  <2>2. CASE WriteProgress \/ WriteReturns
    <3>1. PICK t : t = Target
      OBVIOUS
    <3>2. /\ Writing /\ t \in Section
          /\ \A s \in Section \ {t} : dev'[s] = dev[s]
          /\ dev'[t] \in PartlyWritten(dev[t], Serialized)
          /\ Serialized' = Serialized
          /\ Writing' => Target' = t
          /\ dev[t] = Serialized => dev' = dev
      BY <1>1, <2>1, <2>2, <3>1, WriteChanges
    <3>3. Serialized \in Image /\ latest = list
      BY <3>2, <1>1, WritingFacts DEF Writing, PowerInv
    <3>4. CASE Dirty = {}
      <4>1. disk = dev /\ durable = Stored(dev)
        BY <3>4, DirtyFacts DEF PowerInv
      <4>2. dev' # dev
        BY <1>2, <1>7, <4>1 DEF Dirty
      <4>3. \A image \in Mixed(dev[t], Serialized) :
              Stored([dev EXCEPT ![t] = image]) \in {Stored(dev), list}
        BY <1>1, <3>1, <3>2, <4>2, OneWriteIsAtomic
      <4>4. /\ dev[t] \in Mixed(dev[t], Serialized)
            /\ dev'[t] \in Mixed(dev[t], Serialized)
        BY <1>2, <3>2, <3>3, MixedFacts
      <4>5. /\ \A o \in Section \ {t} : disk'[o] = dev'[o]
            /\ disk'[t] \in Mixed(dev[t], Serialized)
            /\ \A image \in Mixed(dev[t], Serialized) :
                 Stored([disk' EXCEPT ![t] = image]) \in {durable', latest'}
        BY <1>2, <2>1, <3>2, <3>3, <4>1, <4>3, <4>4
      <4>6. dev[t] \in Image
        BY <1>2, <3>2
      <4>7. QED
        BY <3>2, <3>3, <4>4, <4>5, <4>6 DEF OneWritePending
    <3>5. CASE Dirty # {}
      <4>1. PICK old \in Image, new \in Image :
              /\ \A o \in Section \ {t} : disk[o] = dev[o]
              /\ disk[t] \in Mixed(old, new) /\ dev[t] \in Mixed(old, new)
              /\ new = Serialized
              /\ \A image \in Mixed(old, new) :
                   Stored([disk EXCEPT ![t] = image]) \in {durable, latest}
        BY <2>1, <3>1, <3>2, <3>5 DEF PowerInv, OneWritePending
      <4>2. dev'[t] \in Mixed(old, new)
        BY <3>2, <4>1, MixedFacts
      <4>3. \A o \in Section \ {t} : disk'[o] = dev'[o]
        BY <1>2, <3>2, <4>1
      <4>4. \A image \in Mixed(old, new) :
              Stored([disk' EXCEPT ![t] = image]) \in {durable', latest'}
        BY <1>2, <2>1, <4>1
      <4>5. QED
        BY <1>2, <3>2, <4>1, <4>2, <4>3, <4>4 DEF OneWritePending
    <3>6. QED
      BY <3>4, <3>5
  <2>3. CASE ~WriteProgress /\ ~WriteReturns
    <3>1. dev' = dev /\ (Writing' => UNCHANGED vars)
      BY <2>1, <2>3, OtherSteps DEF Run
    <3>2. Dirty' = Dirty
      BY <1>2, <3>1 DEF Dirty
    <3>3. Writing' => Writing /\ Target' = Target /\ Serialized' = Serialized
      BY <3>1 DEF vars, Writing, Target, FirstTarget, Serialized
    <3>4. OneWritePending
      BY <1>7, <2>1, <3>2 DEF PowerInv
    <3>5. PICK s \in Section, old \in Image, new \in Image :
            /\ \A o \in Section \ {s} : disk[o] = dev[o]
            /\ disk[s] \in Mixed(old, new) /\ dev[s] \in Mixed(old, new)
            /\ Writing => s = Target /\ new = Serialized
            /\ \A image \in Mixed(old, new) :
                 Stored([disk EXCEPT ![s] = image]) \in {durable, latest}
      BY <3>4 DEF OneWritePending
    <3>6. \A image \in Mixed(old, new) :
            Stored([disk' EXCEPT ![s] = image]) \in {durable', latest'}
      BY <1>2, <2>1, <3>5
    <3>7. QED
      BY <1>2, <3>1, <3>3, <3>5, <3>6 DEF OneWritePending
  <2>4. QED
    BY <2>2, <2>3
<1>8. QED
  BY <1>1, <1>2, <1>3, <1>5, <1>6, <1>7 DEF PowerInv

(* The kernel writes some pages of one section back. *)
LEMMA WriteBackStep ==
  ASSUME PowerInv, Transactional, NEW t \in Devices, WriteBack(t)
  PROVE  PowerInv'
<1>1. /\ UNCHANGED vars /\ t \in Section /\ t \in Dirty
      /\ disk \in [Section -> Image] /\ dev \in [Section -> Image]
  BY DEF WriteBack, PowerInv, StoreInv, TypeOK, Transactional, vars
<1>2. PICK image \in Mixed(disk[t], dev[t]) : disk' = [disk EXCEPT ![t] = image]
  BY DEF WriteBack
<1>3. image \in Image /\ image.hdr \in {Garbage, disk[t].hdr, dev[t].hdr}
  BY <1>1, MixedFacts DEF Mixed
<1>4. StoreInv'
  BY <1>1, StoreInvNext DEF PowerInv
<1>5. disk' \in [Section -> Image]
  BY <1>1, <1>2, <1>3
<1>6. \A s \in Section : disk'[s].hdr # Garbage => disk'[s].hdr \in GoodHeader
  BY <1>1, <1>2, <1>3 DEF PowerInv, StoreInv, HeadersGood
<1>7. ~WriteBegins /\ latest' = latest
  BY <1>1 DEF WriteBegins, vars, WriteBack, Observe
<1>8. Writing' => latest' = list'
  BY <1>1, <1>7 DEF vars, Writing, PowerInv
<1>9. Dirty' = {} => durable' = Stored(disk')
  BY DEF WriteBack, Observe
<1>10. ASSUME ~early', Dirty' # {} PROVE OneWritePending'
  <2>1. ~early /\ durable' = durable
    BY <1>10 DEF WriteBack, Observe
  <2>2. OneWritePending
    BY <1>1, <2>1 DEF PowerInv
  <2>3. PICK s \in Section, old \in Image, new \in Image :
          /\ \A o \in Section \ {s} : disk[o] = dev[o]
          /\ disk[s] \in Mixed(old, new) /\ dev[s] \in Mixed(old, new)
          /\ Writing => s = Target /\ new = Serialized
          /\ \A y \in Mixed(old, new) :
               Stored([disk EXCEPT ![s] = y]) \in {durable, latest}
    BY <2>2 DEF OneWritePending
  <2>4. s = t
    BY <1>1, <2>3 DEF Dirty
  <2>5. disk'[s] \in Mixed(old, new)
    BY <1>1, <1>2, <2>3, <2>4, MixedFacts
  <2>6. \A o \in Section \ {s} : disk'[o] = dev'[o]
    BY <1>1, <1>2, <2>3, <2>4 DEF vars
  <2>7. \A y \in Mixed(old, new) :
          Stored([disk' EXCEPT ![s] = y]) \in {durable', latest'}
    <3>1. \A y \in Mixed(old, new) : [disk' EXCEPT ![s] = y] = [disk EXCEPT ![s] = y]
      BY <1>1, <1>2, <2>4
    <3>2. QED
      BY <1>7, <2>1, <2>3, <3>1
  <2>8. dev'[s] \in Mixed(old, new) /\ (Writing' => s = Target' /\ new = Serialized')
    BY <1>1, <2>3 DEF vars, Writing, Target, FirstTarget, Serialized
  <2>9. QED
    BY <2>5, <2>6, <2>7, <2>8 DEF OneWritePending
<1>11. QED
  BY <1>4, <1>5, <1>6, <1>8, <1>9, <1>10 DEF PowerInv

(* The power fails: the page cache and the process are gone. *)
LEMMA PowerLossStep ==
  ASSUME PowerInv, Transactional, PowerLoss
  PROVE  PowerInv'
<1>1. /\ disk' = disk /\ dev' = disk /\ disk \in [Section -> Image]
      /\ pc' = "closed" /\ trans' = ZeroTransaction /\ list' = NoList
      /\ op' = NoOperation /\ hdr' = ZeroHeader
  BY DEF PowerLoss, PowerInv
<1>2. TypeOK'
  <2>1. ZeroTransaction \in Transaction
    <3>1. [hdr |-> ZeroHeader, state |-> {}] \in SectionInfo
      BY ZeroHeaderType DEF SectionInfo, State
    <3>2. QED
      BY <3>1 DEF ZeroTransaction, Transaction
  <2>2. NoOperation \in Operation
    BY DEF NoOperation, Operation, Section
  <2>3. QED
    BY <1>1, <2>1, <2>2, ZeroHeaderType DEF TypeOK, PC
<1>3. HeadersGood'
  BY <1>1 DEF HeadersGood, PowerInv
<1>4. HandleSound' /\ SectionsSound' /\ SingleSound' /\ HandleCurrent'
  BY <1>1 DEF HandleSound, SectionsSound, SingleSound, HandleCurrent
<1>5. Dirty' = {} /\ ~Writing'
  BY <1>1 DEF Dirty, Writing
<1>6. durable' = Stored(disk')
  BY <1>5 DEF PowerLoss, Observe
<1>7. QED
  BY <1>1, <1>2, <1>3, <1>4, <1>5, <1>6 DEF PowerInv, StoreInv, HeadersGood

LEMMA PowerInvNext ==
  ASSUME Transactional, PowerInv, [PowerNext]_allVars
  PROVE  PowerInv'
<1>1. CASE UNCHANGED allVars
  BY <1>1, StoreInvNext
     DEF allVars, history, vars, PowerInv, Writing, Dirty, OneWritePending, Target,
         FirstTarget, Serialized
<1>2. QED
  BY <1>1, RunStep, WriteBackStep, PowerLossStep DEF PowerNext

(* For every size of the counter and every set of lists: a store of two    *)
(* sections whose writes each begin with nothing left to write back holds, *)
(* after a loss of power at any moment, the list that was on the medium or *)
(* the one of the last write, in whatever order pages reached the medium.  *)
THEOREM StorePowerLossIsAtomic ==
  ASSUME Transactional
  PROVE  PowerSpec => []PowerLossIsAtomic
<1>1. PowerInit => PowerInv
  BY PowerInvInit
<1>2. PowerInv /\ [PowerNext]_allVars => PowerInv'
  BY PowerInvNext
<1>3. PowerInv => PowerLossIsAtomic
  <2> SUFFICES ASSUME PowerInv, ~early PROVE Stored(disk) \in {durable, latest}
    BY DEF PowerLossIsAtomic
  <2>1. CASE Dirty = {}
    BY <2>1 DEF PowerInv
  <2>2. CASE Dirty # {}
    <3>1. PICK s \in Section, old \in Image, new \in Image :
            /\ disk[s] \in Mixed(old, new)
            /\ \A image \in Mixed(old, new) :
                 Stored([disk EXCEPT ![s] = image]) \in {durable, latest}
      BY <2>2 DEF PowerInv, OneWritePending
    <3>2. [disk EXCEPT ![s] = disk[s]] = disk
      BY DEF PowerInv
    <3>3. QED
      BY <3>1, <3>2
  <2>3. QED
    BY <2>1, <2>2
<1>4. QED
  BY <1>1, <1>2, <1>3, PTL DEF PowerSpec

(* And a write never starts on, or goes on over, the last good section of  *)
(* the page cache, which is what a reader sees while the power lasts.      *)
THEOREM PowerKeepsGoodSection ==
  ASSUME Transactional
  PROVE  PowerSpec => []OneGoodSection
<1>1. PowerInit => PowerInv
  BY PowerInvInit
<1>2. PowerInv /\ [PowerNext]_allVars => PowerInv'
  BY PowerInvNext
<1>3. PowerInv => OneGoodSection
  BY GoodSectionKept DEF PowerInv
<1>4. QED
  BY <1>1, <1>2, <1>3, PTL DEF PowerSpec

===============================================================================
