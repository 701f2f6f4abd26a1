----------------------------- MODULE InterfaceEfi -----------------------------
(***************************************************************************)
(* A section in an EFI variable (nvram_interface_efi.c): a file of efivarfs *)
(* that starts with the attributes of the variable, is stored whole or not *)
(* at all, and has an immutable flag that a write clears and sets again.   *)
(***************************************************************************)
EXTENDS SectionBytes

VARIABLES
  variable,   \* the cells of the file, NoBytes when there is none
  immutable,  \* its EXT2_IMMUTABLE_FL
  pc,         \* where the process is in the calls of nvram_interface.h
  size,       \* what nvram_interface_size returned
  buf,        \* the buffer of the write under way
  answer,     \* the bytes the last read_section returned, NoBytes for an error
  result,     \* r of the last nvram_interface_write
  lapsed      \* history: the last write past its clear died, or could not set the flag

vars == <<variable, immutable, pc, size, buf, answer, result, lapsed>>

platform == <<variable, immutable, lapsed>>

EFI_HEADER == << <<"attr">> >>

AttrSize == Len(EFI_HEADER)

ASSUME NoVariableAssumption == NoBytes \notin {EFI_HEADER \o bytes : bytes \in Buffers}

Init ==
  /\ variable \in {NoBytes, <<>>} \cup {EFI_HEADER \o bytes : bytes \in Buffers}
  /\ immutable \in IF variable = NoBytes THEN {FALSE} ELSE BOOLEAN
  /\ pc = "closed"
  /\ size = 0
  /\ buf = <<>>
  /\ answer = NoBytes
  /\ result = "none"
  /\ lapsed = ~immutable

NvramInterfaceInit ==
  /\ pc = "closed"
  /\ pc' = "idle"
  /\ UNCHANGED <<platform, size, buf, answer, result>>

Forget ==
  /\ pc' = "closed"
  /\ size' = 0
  /\ buf' = <<>>
  /\ answer' = NoBytes
  /\ result' = "none"
  /\ UNCHANGED <<variable, immutable>>

NvramInterfaceDestroy == pc = "idle" /\ Forget /\ UNCHANGED lapsed

Crash ==
  /\ pc \notin {"idle", "closed"}
  /\ Forget
  /\ lapsed' = (lapsed \/ ~immutable)

(*-------------------------------------------------------------------------*)
(* The two calls of read_section; it makes the second for a size above 0.  *)
(*-------------------------------------------------------------------------*)

(* The attributes taken off twice, by size and by read. *)
PayloadSizeTwice(bytes) == Len(bytes) - 2 * AttrSize

PayloadSize(bytes) == Len(bytes) - AttrSize

NvramInterfaceSize ==
  /\ pc = "idle"
  /\ \/ /\ variable = NoBytes
        /\ answer' = <<>>
        /\ UNCHANGED <<pc, size>>
     \/ /\ variable # NoBytes
        /\ Len(variable) >= AttrSize
        /\ size' = PayloadSize(variable)
        /\ IF size' = 0
             THEN answer' = <<>> /\ UNCHANGED pc
             ELSE pc' = "read" /\ UNCHANGED answer
     \/ answer' = NoBytes /\ UNCHANGED <<pc, size>>
  /\ UNCHANGED <<platform, buf, result>>

NvramInterfaceRead ==
  /\ pc = "read"
  /\ \/ /\ Len(variable) >= size + AttrSize
        /\ answer' = SubSeq(variable, AttrSize + 1, AttrSize + size)
     \/ answer' = NoBytes
  /\ pc' = "idle"
  /\ size' = 0
  /\ UNCHANGED <<platform, buf, result>>

(*-------------------------------------------------------------------------*)
(* nvram_interface_write                                                   *)
(*-------------------------------------------------------------------------*)

NvramInterfaceWrite ==
  /\ pc = "idle"
  /\ buf' \in Buffers
  /\ pc' = "clear"
  /\ result' = "none"
  /\ UNCHANGED <<platform, size, answer>>

(* An error return that skips the exit label. *)
ExitAtOnce(r) ==
  /\ pc' = "idle"
  /\ result' = r
  /\ buf' = <<>>
  /\ UNCHANGED <<size, answer>>

(* goto exit *)
Exit(r) ==
  /\ pc' = "restore"
  /\ result' = r
  /\ buf' = <<>>
  /\ UNCHANGED <<size, answer>>

(* set_immutable(false), on the file that the next step may create.        *)
ClearImmutable ==
  /\ pc = "clear"
  /\ variable # NoBytes
  /\ immutable' = FALSE
  /\ pc' = "open"
  /\ lapsed' = FALSE
  /\ UNCHANGED <<variable, size, buf, answer, result>>

(* ENOENT from fgetflags, or another error. *)
ClearImmutableFails ==
  /\ pc = "clear"
  /\ pc' = "idle"
  /\ result' = "error"
  /\ buf' = <<>>
  /\ UNCHANGED <<platform, size, answer>>

OpenVariable ==
  /\ pc = "open"
  /\ variable' = IF variable = NoBytes THEN <<>> ELSE variable
  /\ pc' = "write"
  /\ UNCHANGED <<immutable, size, buf, answer, result, lapsed>>

WriteVariable ==
  /\ pc = "write"
  /\ variable' = EFI_HEADER \o buf
  /\ Exit("ok")
  /\ UNCHANGED <<immutable, lapsed>>

(* open, malloc or write *)
WriteFails ==
  /\ pc \in {"open", "write"}
  /\ Exit("error")
  /\ UNCHANGED platform

(* set_immutable(true), whose result is not looked at. *)
RestoreImmutable ==
  /\ pc = "restore"
  /\ pc' = "idle"
  /\ \/ immutable' = TRUE /\ lapsed' = FALSE
     \/ UNCHANGED immutable /\ lapsed' = (lapsed \/ ~immutable)
  /\ UNCHANGED <<variable, size, buf, answer, result>>

Next ==
  \/ NvramInterfaceInit
  \/ NvramInterfaceDestroy
  \/ NvramInterfaceSize
  \/ NvramInterfaceRead
  \/ NvramInterfaceWrite
  \/ ClearImmutable
  \/ ClearImmutableFails
  \/ OpenVariable
  \/ WriteVariable
  \/ WriteFails
  \/ RestoreImmutable
  \/ Crash

Spec == Init /\ [][Next]_vars

(* The process takes its steps and is not killed for ever, and the kernel  *)
(* does not refuse for ever what it can do.                                *)
Fairness ==
  /\ WF_vars(Next)
  /\ <>[][~Crash]_vars
  /\ SF_vars(ClearImmutable)
  /\ SF_vars(OpenVariable)
  /\ SF_vars(WriteVariable)

FairSpec == Spec /\ Fairness

-------------------------------------------------------------------------------

(* Outside of a write the variable has its immutable flag, whichever step  *)
(* of it failed, unless the last write that cleared it died or could not   *)
(* set it, or none has cleared it yet and it had none: whatever earlier    *)
(* ones left behind, a write makes up for it.                              *)
ImmutableAtRest ==
  pc \in {"closed", "idle", "read", "clear"} /\ ~immutable => lapsed

(* A process that writes again and again has stored a list some day: size  *)
(* answers 0 for a variable that does not exist, and open creates it.      *)
FirstWriteSucceeds == ([]<>(pc = "clear")) => <>(result = "ok")

(* The image of a variable; the attributes are no part of it. *)
Payload(bytes) ==
  IF bytes \in {NoBytes, <<>>} THEN BlankImage
  ELSE Decode(SubSeq(bytes, AttrSize + 1, Len(bytes)))

(* The section as NvramStore sees it. *)
Device == INSTANCE SectionDevice WITH
  image   <- Payload(variable),
  pending <- IF pc \in {"clear", "open", "write"} THEN Decode(buf) ELSE NoImage,
  answer  <- IF answer = NoBytes THEN NoImage ELSE Decode(answer)

(* A variable is a section: what is read is what was written, without its  *)
(* attributes, and a write that returns 0 is complete.                     *)
EfiIsSection == Device!Spec
===============================================================================
