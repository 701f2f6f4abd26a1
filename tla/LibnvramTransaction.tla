------------------------- MODULE LibnvramTransaction -------------------------
(***************************************************************************)
(* The transaction half of libnvram (libnvram/libnvram.c, from             *)
(* validate_section on): how two copies of a store, section A and section  *)
(* B, are judged and which one the next update overwrites.  Only operators *)
(* on values; the module NvramStore gives them their state.                *)
(*                                                                         *)
(* A section's image is a pair: the header bytes and the data bytes.  The  *)
(* two checksums are ideal: header bytes that do not pass hdr_crc32 and    *)
(* the magic are Garbage, and the field crc32 of a good header IS the data *)
(* it was computed from (and so stands for the field len as well).         *)
(***************************************************************************)
EXTENDS Integers

CONSTANTS
  UINT32_MAX,  \* the largest value of libnvram_header.user
  Contents,    \* the variable lists a data section can hold
  Garbage      \* bytes that pass no checksum: torn, erased or absent

ASSUME CounterAssumption == UINT32_MAX \in Nat /\ UINT32_MAX >= 3

Section == {"A", "B"}

Other(s) == IF s = "A" THEN "B" ELSE "A"

(* The in-memory struct; Garbage stands for the zeroed crc32 of a header   *)
(* that was never filled in.                                               *)
Header == [user : 0 .. UINT32_MAX, crc32 : Contents \cup {Garbage}]

ASSUME GarbageAssumption == Garbage \notin Contents /\ Garbage \notin Header

ZeroHeader == [user |-> 0, crc32 |-> Garbage]

(* What a device can hold. *)
Image == [hdr : Header \cup {Garbage}, data : Contents \cup {Garbage}]

BlankImage == [hdr |-> Garbage, data |-> Garbage]

(* What a write of new over old can leave before it is complete.  The      *)
(* header goes first; the mtd interface erases the section before.         *)
PartlyWritten(old, new) ==
  [hdr : {Garbage, new.hdr}, data : {Garbage, old.data, new.data}]

ALL_VERIFIED == {"HEADER_VERIFIED", "DATA_VERIFIED"}

(* enum libnvram_state is a set of flags. *)
State == SUBSET (ALL_VERIFIED \cup {"HEADER_CORRUPT", "DATA_CORRUPT"})

SectionInfo == [hdr : Header, state : State]

(* enum libnvram_active is a set of sections. *)
Transaction == [section : [Section -> SectionInfo], active : SUBSET Section]

(* enum libnvram_operation: the section to write, and COUNTER_RESET. *)
Operation == [write : Section, reset : BOOLEAN]

(*-------------------------------------------------------------------------*)
(* Validation of one section.                                              *)
(*-------------------------------------------------------------------------*)

(* libnvram_validate_header: long enough, hdr_crc32 and magic right. *)
ValidHeader(hdr) == hdr # Garbage

(* libnvram_validate_data: the bytes are those the crc32 was made of, and  *)
(* so the entries that serialize wrote.                                    *)
ValidData(data, hdr) == data = hdr.crc32

ValidateSection(image) ==
  IF ~ValidHeader(image.hdr)
    THEN [hdr |-> ZeroHeader, state |-> {"HEADER_CORRUPT"}]
    ELSE [hdr   |-> image.hdr,
          state |-> {"HEADER_VERIFIED",
                     IF ValidData(image.data, image.hdr)
                       THEN "DATA_VERIFIED" ELSE "DATA_CORRUPT"}]

IsVerified(info) == ALL_VERIFIED \subseteq info.state

(*-------------------------------------------------------------------------*)
(* The active section: verified, and not older than a verified other one.  *)
(*-------------------------------------------------------------------------*)

FindActive(section) ==
  {s \in Section : /\ IsVerified(section[s])
                   /\ IsVerified(section[Other(s)])
                        => section[s].hdr.user >= section[Other(s)].hdr.user}

InitTransaction(image) ==
  LET section == [s \in Section |-> ValidateSection(image[s])]
  IN  [section |-> section, active |-> FindActive(section)]

(* Both next_transaction and nvram_init look at the A flag first. *)
Preferred(active) == IF "A" \in active THEN "A" ELSE "B"

(*-------------------------------------------------------------------------*)
(* libnvram_next_transaction: the operation and the counter to write.      *)
(*-------------------------------------------------------------------------*)

(* ++ on a uint32_t. *)
Increment(user) == IF user = UINT32_MAX THEN 0 ELSE user + 1

(* Takes the counter in use for the next one. *)
NextUserUnchanged(trans) ==
  IF trans.active = {}
    THEN 1
    ELSE trans.section[Preferred(trans.active)].hdr.user

NextUser(trans) ==
  IF trans.active = {}
    THEN 1
    ELSE Increment(trans.section[Preferred(trans.active)].hdr.user)

(* Overwrites the section in use instead of the other one. *)
NextWriteInPlace(trans) == Preferred(trans.active)

(* Always writes section A. *)
NextWriteFixed(trans) == "A"

NextWrite(trans) == IF "A" \in trans.active THEN "B" ELSE "A"

(* Restarts the counter once it has wrapped. *)
NeedsResetLate(trans) == NextUser(trans) = 0

NeedsReset(trans) == NextUser(trans) = UINT32_MAX

(* Restarts the counter without asking for the second write. *)
NextTransactionOneWrite(trans) ==
  [op   |-> [write |-> NextWrite(trans), reset |-> FALSE],
   user |-> IF NeedsReset(trans) THEN 1 ELSE NextUser(trans)]

NextTransaction(trans) ==
  [op   |-> [write |-> NextWrite(trans), reset |-> NeedsReset(trans)],
   user |-> IF NeedsReset(trans) THEN 1 ELSE NextUser(trans)]

(*-------------------------------------------------------------------------*)
(* libnvram_update_transaction: the struct after the writes were made.     *)
(*-------------------------------------------------------------------------*)

(* Forgets that a counter reset wrote the other section too. *)
WrittenFirstOnly(op) == {op.write}

Written(op) == IF op.reset THEN Section ELSE {op.write}

UpdateTransaction(trans, op, hdr) ==
  LET section == [s \in Section |->
                    IF s \in Written(op)
                      THEN [hdr |-> hdr, state |-> ALL_VERIFIED]
                      ELSE trans.section[s]]
  IN  [section |-> section, active |-> FindActive(section)]
==============================================================================
