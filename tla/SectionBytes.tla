----------------------------- MODULE SectionBytes -----------------------------
(***************************************************************************)
(* A section as a sequence of cells, for the storage interfaces: a header  *)
(* of two cells, so that it can be torn, and a cell for each entry of the  *)
(* list.  A reader checks the header first and then as many cells as the   *)
(* header tells it to; what lies behind them does not count.               *)
(***************************************************************************)
EXTENDS LibnvramTransaction, Sequences

CONSTANTS
  NoImage,  \* no write under way, no answer
  NoBytes   \* no buffer, no file

(* Lists are sequences of entries. *)
ASSUME ContentsAssumption == \A list \in Contents : list \in Seq(STRING)

(* The pair of an image is never taken for no image. *)
ASSUME NoImageAssumption == NoImage \notin Image

HeaderCells(hdr) == << <<"hdr", hdr, 1>>, <<"hdr", hdr, 2>> >>

DataCells(list) == [n \in DOMAIN list |-> <<"data", list[n]>>]

Erased == <<"erased">>

(* libnvram_serialize *)
Bytes(hdr) == HeaderCells(hdr) \o DataCells(hdr.crc32)

(* What nvram_commit passes to a write. *)
Buffers == {Bytes([user |-> user, crc32 |-> list]) : user \in 1 .. UINT32_MAX - 1, list \in Contents}

(* Every cell that is ever written. *)
Cells == UNION {{buf[n] : n \in DOMAIN buf} : buf \in Buffers}

ASSUME NoBytesAssumption == NoBytes \notin Seq(Cells)

HasHeader(bytes) ==
  /\ Len(bytes) >= 2
  /\ bytes[1][1] = "hdr"
  /\ SubSeq(bytes, 1, 2) = HeaderCells(bytes[1][2])

(* The image that libnvram finds in the bytes of a section. *)
Decode(bytes) ==
  IF ~HasHeader(bytes) THEN BlankImage
  ELSE LET hdr  == bytes[1][2]
           end  == 2 + Len(hdr.crc32)
           good == Len(bytes) >= end /\ SubSeq(bytes, 3, end) = DataCells(hdr.crc32)
       IN  [hdr |-> hdr, data |-> IF good THEN hdr.crc32 ELSE Garbage]

(* bytes with cell at position n, which may be one past the end. *)
Put(bytes, n, cell) ==
  [m \in 1 .. (IF n > Len(bytes) THEN n ELSE Len(bytes)) |-> IF m = n THEN cell ELSE bytes[m]]
===============================================================================
