-------------------------- MODULE SectionBytesProofs --------------------------
(***************************************************************************)
(* What a reader finds in the bytes of a section, complete or torn, for    *)
(* lists of any length.                                                    *)
(***************************************************************************)
EXTENDS SectionBytes, SequenceTheorems, TLAPS

LEMMA SequenceIsFunction ==
  ASSUME NEW S, NEW seq \in Seq(S)
  PROVE  seq = [n \in 1 .. Len(seq) |-> seq[n]]
<1>1. seq \in [1 .. Len(seq) -> S]
  BY LenProperties
<1>2. QED
  BY <1>1

(* The cells of a section, position by position. *)
LEMMA BytesCells ==
  ASSUME NEW h, h.crc32 \in Contents
  PROVE  /\ Len(h.crc32) \in Nat
         /\ DOMAIN h.crc32 = 1 .. Len(h.crc32)
         /\ Len(Bytes(h)) = 2 + Len(h.crc32)
         /\ Bytes(h) = [n \in 1 .. Len(Bytes(h)) |-> Bytes(h)[n]]
         /\ Bytes(h)[1] = <<"hdr", h, 1>>
         /\ Bytes(h)[2] = <<"hdr", h, 2>>
         /\ \A n \in 1 .. Len(h.crc32) : Bytes(h)[2 + n] = <<"data", h.crc32[n]>>
<1> DEFINE list == h.crc32
           cells == {<<"hdr", h, 1>>, <<"hdr", h, 2>>} \cup {<<"data", list[n]>> : n \in DOMAIN list}
<1>1. list \in Seq(STRING)
  BY ContentsAssumption
<1>2. Len(list) \in Nat /\ DOMAIN list = 1 .. Len(list)
  BY <1>1
<1>3. DataCells(list) \in [1 .. Len(list) -> cells]
  BY <1>2 DEF DataCells
<1>4. DataCells(list) \in Seq(cells) /\ Len(DataCells(list)) = Len(list)
  <2> HIDE DEF cells, list
  <2>1. QED
    BY <1>2, <1>3
<1>5. HeaderCells(h) \in Seq(cells) /\ Len(HeaderCells(h)) = 2
      /\ HeaderCells(h)[1] = <<"hdr", h, 1>> /\ HeaderCells(h)[2] = <<"hdr", h, 2>>
  BY DEF HeaderCells
<1>6. Bytes(h) = HeaderCells(h) \o DataCells(list)
  BY DEF Bytes
<1>7. \A n \in 1 .. Len(list) : DataCells(list)[n] = <<"data", list[n]>>
  BY <1>2 DEF DataCells
<1> HIDE DEF list, cells
<1>8. /\ Len(Bytes(h)) = 2 + Len(list)
      /\ Bytes(h) = [n \in 1 .. Len(Bytes(h)) |-> Bytes(h)[n]]
      /\ Bytes(h)[1] = HeaderCells(h)[1]
      /\ Bytes(h)[2] = HeaderCells(h)[2]
      /\ \A n \in 1 .. Len(list) : Bytes(h)[2 + n] = DataCells(list)[n]
  <2> DEFINE a == HeaderCells(h)
             b == DataCells(list)
  <2>1. /\ a \in Seq(cells) /\ b \in Seq(cells) /\ Len(a) = 2
        /\ Len(list) \in Nat /\ Len(b) = Len(list) /\ Bytes(h) = a \o b
    BY <1>2, <1>4, <1>5, <1>6
  <2> HIDE DEF a, b
  <2> HIDE DEF cells
  <2>2. /\ a \o b \in Seq(cells)
        /\ Len(a \o b) = Len(a) + Len(b)
        /\ \A i \in 1 .. Len(a) + Len(b) : (a \o b)[i] = IF i <= Len(a) THEN a[i] ELSE b[i - Len(a)]
    <3>1. a \in Seq(cells) /\ b \in Seq(cells)
      BY <2>1
    <3>2. QED
      BY <3>1, ConcatProperties, Zenon
  <2>3. a \o b \in Seq(cells) /\ Len(a \o b) = 2 + Len(list)
    BY <2>1, <2>2
  <2>4. \A n \in 1 .. Len(a) : (a \o b)[n] = a[n]
    BY <2>1, <2>2
  <2>5. \A n \in 1 .. Len(list) : (a \o b)[2 + n] = b[n]
    <3> TAKE n \in 1 .. Len(list)
    <3>1. 2 + n \in 1 .. Len(a) + Len(b) /\ ~(2 + n <= Len(a)) /\ 2 + n - Len(a) = n
      BY <2>1
    <3>2. QED
      BY <3>1, <2>2
  <2>6. a \o b = [n \in 1 .. Len(a \o b) |-> (a \o b)[n]]
    BY <2>2, SequenceIsFunction
  <2>7. QED
    BY <2>1, <2>3, <2>4, <2>5, <2>6 DEF a, b
<1>9. QED
  BY <1>2, <1>5, <1>7, <1>8 DEF list

(* Bytes that begin with those of a section are read as that section.      *)
LEMMA DecodeComplete ==
  ASSUME NEW h, h.crc32 \in Contents, NEW bytes,
         Len(bytes) \in Nat, Len(bytes) >= Len(Bytes(h)),
         \A n \in 1 .. Len(Bytes(h)) : bytes[n] = Bytes(h)[n]
  PROVE  Decode(bytes) = [hdr |-> h, data |-> h.crc32]
<1> DEFINE end == 2 + Len(h.crc32)
<1>1. /\ Len(h.crc32) \in Nat
      /\ DOMAIN h.crc32 = 1 .. Len(h.crc32)
      /\ Len(bytes) >= end
      /\ bytes[1] = <<"hdr", h, 1>>
      /\ bytes[2] = <<"hdr", h, 2>>
      /\ \A n \in 1 .. Len(h.crc32) : bytes[2 + n] = <<"data", h.crc32[n]>>
  <2>1. /\ Len(h.crc32) \in Nat
        /\ DOMAIN h.crc32 = 1 .. Len(h.crc32)
        /\ Len(Bytes(h)) = 2 + Len(h.crc32)
        /\ Bytes(h)[1] = <<"hdr", h, 1>>
        /\ Bytes(h)[2] = <<"hdr", h, 2>>
        /\ \A n \in 1 .. Len(h.crc32) : Bytes(h)[2 + n] = <<"data", h.crc32[n]>>
    BY BytesCells
  <2>2. \A n \in 1 .. Len(h.crc32) : bytes[2 + n] = Bytes(h)[2 + n]
    BY <2>1
  <2>3. bytes[1] = Bytes(h)[1] /\ bytes[2] = Bytes(h)[2]
    BY <2>1
  <2>4. QED
    BY <2>1, <2>2, <2>3
<1>2. bytes[1][1] = "hdr" /\ bytes[1][2] = h
  BY <1>1
<1>3. SubSeq(bytes, 1, 2) = HeaderCells(h)
  <2>1. SubSeq(bytes, 1, 2) = [n \in 1 .. 2 |-> bytes[n]]
    OBVIOUS
  <2>2. HeaderCells(h) = [n \in 1 .. 2 |-> bytes[n]]
    BY <1>1 DEF HeaderCells
  <2>3. QED
    BY <2>1, <2>2
<1>4. SubSeq(bytes, 3, end) = DataCells(h.crc32)
  <2>1. SubSeq(bytes, 3, end) = [n \in 1 .. Len(h.crc32) |-> bytes[2 + n]]
    BY <1>1
  <2>2. QED
    BY <1>1, <2>1 DEF DataCells
<1>5. HasHeader(bytes)
  BY <1>1, <1>2, <1>3 DEF HasHeader
<1>6. QED
  BY <1>1, <1>2, <1>4, <1>5 DEF Decode

(* Bytes that begin with the first cell of a section are read as that      *)
(* section, as its header over other data, or as no section.               *)
LEMMA DecodeTorn ==
  ASSUME NEW h, NEW bytes, bytes[1] = <<"hdr", h, 1>>
  PROVE  Decode(bytes) \in {BlankImage, [hdr |-> h, data |-> h.crc32], [hdr |-> h, data |-> Garbage]}
<1>1. bytes[1][2] = h
  OBVIOUS
<1>2. QED
  BY <1>1 DEF Decode

LEMMA DecodeErased ==
  ASSUME NEW bytes, bytes[1] = Erased
  PROVE  Decode(bytes) = BlankImage
<1>1. bytes[1][1] # "hdr"
  BY DEF Erased
<1>2. QED
  BY <1>1 DEF Decode, HasHeader

(* What nvram_commit writes, position by position, and its image.          *)
LEMMA BufferImage ==
  ASSUME NEW buf \in Buffers
  PROVE  /\ Len(buf) \in Nat /\ Len(buf) >= 2 /\ buf \in Seq(Cells)
         /\ \A n \in 1 .. Len(buf) : buf[n] \in Cells
         /\ Decode(buf) \in Image
         /\ Decode(buf) # NoImage
         /\ \E user \in 0 .. UINT32_MAX, list \in Contents :
              LET h == [user |-> user, crc32 |-> list]
              IN  /\ buf = Bytes(h)
                  /\ buf[1] = <<"hdr", h, 1>>
                  /\ Decode(buf) = [hdr |-> h, data |-> list]
<1>1. PICK user \in 1 .. UINT32_MAX - 1, list \in Contents :
        buf = Bytes([user |-> user, crc32 |-> list])
  BY DEF Buffers
<1> DEFINE h == [user |-> user, crc32 |-> list]
<1>2. h.crc32 \in Contents /\ h.crc32 = list
  BY <1>1
<1>3. /\ Len(buf) \in Nat /\ Len(buf) >= 2 /\ buf = [n \in 1 .. Len(buf) |-> buf[n]]
      /\ buf[1] = <<"hdr", h, 1>>
      /\ Decode(buf) = [hdr |-> h, data |-> h.crc32]
  <2> HIDE DEF h
  <2>1. Len(h.crc32) \in Nat /\ Len(Bytes(h)) = 2 + Len(h.crc32)
        /\ Bytes(h) = [n \in 1 .. Len(Bytes(h)) |-> Bytes(h)[n]] /\ Bytes(h)[1] = <<"hdr", h, 1>>
    BY <1>2, BytesCells
  <2>2. Decode(Bytes(h)) = [hdr |-> h, data |-> h.crc32]
    BY <1>2, <2>1, DecodeComplete
  <2>3. buf = Bytes(h)
    BY <1>1 DEF h
  <2>4. QED
    BY <2>1, <2>2, <2>3
<1>4. user \in 0 .. UINT32_MAX /\ h \in Header
  BY <1>1, CounterAssumption DEF Header
<1>5. Decode(buf) \in Image /\ Decode(buf) # NoImage
  BY <1>2, <1>3, <1>4, NoImageAssumption DEF Image
<1>6. buf \in Seq(Cells) /\ \A n \in 1 .. Len(buf) : buf[n] \in Cells
  <2>1. \A n \in 1 .. Len(buf) : buf[n] \in Cells
    <3>1. DOMAIN buf = 1 .. Len(buf)
      BY <1>3
    <3>2. QED
      BY <3>1 DEF Cells
  <2>2. buf \in [1 .. Len(buf) -> Cells]
    BY <1>3, <2>1
  <2>3. QED
    BY <1>3, <2>1, <2>2
<1>7. QED
  BY <1>1, <1>2, <1>3, <1>4, <1>5, <1>6
===============================================================================
