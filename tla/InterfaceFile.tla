---------------------------- MODULE InterfaceFile ----------------------------
(***************************************************************************)
(* A section in a file (nvram_interface_file.c), written in place: open    *)
(* creates the file when it is absent and does not truncate it.            *)
(***************************************************************************)
EXTENDS SectionBytes

VARIABLES
  file,    \* the cells of the file, NoBytes when there is none
  pc,      \* where the process is in the calls of nvram_interface.h
  size,    \* what nvram_interface_size returned
  buf,     \* the buffer of the write under way
  pos,     \* how many of its cells the write has reached
  answer,  \* the bytes the last read_section returned, NoBytes for an error
  result   \* what the last nvram_interface_write returned

vars == <<file, pc, size, buf, pos, answer, result>>

Init ==
  /\ file \in {NoBytes} \cup Buffers
  /\ pc = "closed"
  /\ size = 0
  /\ buf = <<>>
  /\ pos = 0
  /\ answer = NoBytes
  /\ result = "none"

(* EINVAL without a section, ENOMEM: there is no device, and no call of it.  *)
NvramInterfaceInit ==
  /\ pc = "closed"
  /\ pc' = "idle"
  /\ UNCHANGED <<file, size, buf, pos, answer, result>>

(* The end of nvram_interface_destroy, or of the process. *)
Forget ==
  /\ pc' = "closed"
  /\ size' = 0
  /\ buf' = <<>>
  /\ pos' = 0
  /\ answer' = NoBytes
  /\ result' = "none"
  /\ UNCHANGED file

NvramInterfaceDestroy == pc = "idle" /\ Forget

Crash == pc \notin {"idle", "closed"} /\ Forget

(* read_section up to nvram_interface_read, which is for a size above 0.   *)
NvramInterfaceSize ==
  /\ pc = "idle"
  /\ \/ /\ size' = IF file = NoBytes THEN 0 ELSE Len(file)
        /\ IF size' = 0
             THEN answer' = <<>> /\ UNCHANGED pc
             ELSE pc' = "read" /\ UNCHANGED answer
     \/ answer' = NoBytes /\ UNCHANGED <<pc, size>>
  /\ UNCHANGED <<file, buf, pos, result>>

NvramInterfaceRead ==
  /\ pc = "read"
  /\ answer' \in {SubSeq(file, 1, size), NoBytes}
  /\ pc' = "idle"
  /\ size' = 0
  /\ UNCHANGED <<file, buf, pos, result>>

NvramInterfaceWrite ==
  /\ pc = "idle"
  /\ buf' \in Buffers
  /\ pc' = "open"
  /\ result' = "none"
  /\ UNCHANGED <<file, size, pos, answer>>

Return(code) ==
  /\ pc' = "idle"
  /\ result' = code
  /\ buf' = <<>>
  /\ pos' = 0
  /\ UNCHANGED <<size, answer>>

OpenFile ==
  /\ pc = "open"
  /\ \/ /\ file' = IF file = NoBytes THEN <<>> ELSE file
        /\ pc' = "write"
        /\ UNCHANGED <<size, buf, pos, answer, result>>
     \/ Return("error") /\ UNCHANGED file

WriteBytes ==
  /\ pc = "write"
  /\ pos < Len(buf)
  /\ pos' = pos + 1
  /\ file' = Put(file, pos', buf[pos'])
  /\ UNCHANGED <<pc, size, buf, answer, result>>

(* Without the test of the count that write returns. *)
WriteReturnsShort ==
  /\ pc = "write"
  /\ \/ pos > 0 /\ Return("ok")
     \/ Return("error")
  /\ UNCHANGED file

(* A short count is an error, as a failed write is. *)
WriteReturns ==
  /\ pc = "write"
  /\ \/ pos = Len(buf) /\ Return("ok")
     \/ Return("error")
  /\ UNCHANGED file

Next ==
  \/ NvramInterfaceInit
  \/ NvramInterfaceDestroy
  \/ NvramInterfaceSize
  \/ NvramInterfaceRead
  \/ NvramInterfaceWrite
  \/ OpenFile
  \/ WriteBytes
  \/ WriteReturns
  \/ Crash

Spec == Init /\ [][Next]_vars

-------------------------------------------------------------------------------

Decoded(bytes) == IF bytes = NoBytes THEN BlankImage ELSE Decode(bytes)

(* The section as NvramStore sees it. *)
Device == INSTANCE SectionDevice WITH
  image   <- Decoded(file),
  pending <- IF pc \in {"open", "write"} THEN Decode(buf) ELSE NoImage,
  answer  <- IF answer = NoBytes THEN NoImage ELSE Decode(answer)

(* Written in place and read back by the size it happens to have, a file   *)
(* is still a section: an interrupted write leaves a header that fails its *)
(* checksum, or the new one over data that are old, new or torn; a shorter *)
(* list over a longer one is read as the shorter; and a write that returns *)
(* 0 is complete.                                                          *)
FileIsSection == Device!Spec
===============================================================================
