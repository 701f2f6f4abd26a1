-------------------------- MODULE InterfaceFileProofs --------------------------
(***************************************************************************)
(* InterfaceFile implements SectionDevice, for lists of any length over    *)
(* files of any length.                                                    *)
(***************************************************************************)
EXTENDS InterfaceFile, SectionBytesProofs

Writing == pc \in {"open", "write"}

(* The cells up to pos are those of the buffer, and a size that was asked  *)
(* for is that of the file.                                                *)
FileInv ==
  /\ pc \in {"closed", "idle", "read", "open", "write"}
  /\ file \in Seq(Cells) \cup {NoBytes}
  /\ Writing => buf \in Buffers
  /\ pos \in Nat
  /\ pc # "write" => pos = 0
  /\ pc = "write" => /\ file \in Seq(Cells)
                     /\ pos <= Len(buf) /\ pos <= Len(file)
                     /\ \A n \in 1 .. pos : file[n] = buf[n]
  /\ pc = "read" => file \in Seq(Cells) /\ size = Len(file)

LEMMA FileInit == Init => FileInv
<1>1. Buffers \subseteq Seq(Cells)
  BY BufferImage
<1>2. QED
  BY <1>1 DEF Init, FileInv, Writing

LEMMA PutCell ==
  ASSUME NEW bytes \in Seq(Cells), NEW n \in 1 .. Len(bytes) + 1, NEW cell \in Cells
  PROVE  /\ Put(bytes, n, cell) \in Seq(Cells)
         /\ Len(Put(bytes, n, cell)) \in Nat
         /\ Len(Put(bytes, n, cell)) >= n /\ Len(Put(bytes, n, cell)) >= Len(bytes)
         /\ Put(bytes, n, cell)[n] = cell
         /\ \A m \in 1 .. n - 1 : Put(bytes, n, cell)[m] = bytes[m]
<1> DEFINE len == IF n > Len(bytes) THEN n ELSE Len(bytes)
           put == [m \in 1 .. len |-> IF m = n THEN cell ELSE bytes[m]]
<1>1. Put(bytes, n, cell) = put
  BY DEF Put
<1>2. len \in Nat /\ len >= n /\ len >= Len(bytes) /\ \A m \in 1 .. len : m = n \/ m \in 1 .. Len(bytes)
  OBVIOUS
<1>3. \A m \in 1 .. Len(bytes) : bytes[m] \in Cells
  OBVIOUS
<1> HIDE DEF len
<1>4. put \in [1 .. len -> Cells]
  BY <1>2, <1>3
<1>5. put \in Seq(Cells) /\ Len(put) = len
  <2> HIDE DEF put
  <2>1. QED
    BY <1>2, <1>4
<1>6. put[n] = cell /\ \A m \in 1 .. n - 1 : put[m] = bytes[m]
  BY <1>2
<1>7. QED
  BY <1>1, <1>2, <1>5, <1>6

LEMMA FileStep == FileInv /\ [Next]_vars => FileInv'
<1> SUFFICES ASSUME FileInv, [Next]_vars PROVE FileInv'
  OBVIOUS
<1>1. CASE NvramInterfaceInit
  BY <1>1 DEF FileInv, Writing, NvramInterfaceInit
<1>2. CASE NvramInterfaceDestroy
  BY <1>2 DEF FileInv, Writing, NvramInterfaceDestroy, Forget
<1>3. CASE NvramInterfaceSize
  BY <1>3 DEF FileInv, Writing, NvramInterfaceSize
<1>4. CASE NvramInterfaceRead
  BY <1>4 DEF FileInv, Writing, NvramInterfaceRead
<1>5. CASE NvramInterfaceWrite
  BY <1>5 DEF FileInv, Writing, NvramInterfaceWrite
<1>6. CASE OpenFile
  <2>1. CASE file' = (IF file = NoBytes THEN <<>> ELSE file) /\ pc' = "write" /\ UNCHANGED <<buf, pos>>
    <3>1. <<>> \in Seq(Cells) /\ buf \in Buffers /\ pos = 0
      BY <1>6 DEF OpenFile, FileInv, Writing
    <3>2. file' \in Seq(Cells)
      BY <2>1, <3>1 DEF FileInv
    <3>3. Len(buf) \in Nat /\ Len(file') \in Nat
      <4>1. Len(buf) \in Nat
        BY <3>1, BufferImage
      <4>2. QED
        BY <3>2, <4>1
    <3>4. QED
      BY <2>1, <3>1, <3>2, <3>3 DEF FileInv, Writing
  <2>2. CASE Return("error") /\ UNCHANGED file
    BY <2>2 DEF FileInv, Writing, Return
  <2>3. QED
    BY <1>6, <2>1, <2>2 DEF OpenFile
<1>7. CASE WriteBytes
  <2>1. /\ pc = "write" /\ pc' = "write" /\ pos' = pos + 1 /\ buf' = buf
        /\ file' = Put(file, pos', buf[pos']) /\ pos < Len(buf)
        /\ file \in Seq(Cells) /\ pos \in Nat /\ pos <= Len(file) /\ buf \in Buffers
        /\ \A n \in 1 .. pos : file[n] = buf[n]
    BY <1>7 DEF WriteBytes, FileInv, Writing
  <2>2. Len(buf) \in Nat /\ \A n \in 1 .. Len(buf) : buf[n] \in Cells
    BY <2>1, BufferImage, Zenon
  <2>3. pos' \in 1 .. Len(buf) /\ pos' \in 1 .. Len(file) + 1
    BY <2>1, <2>2
  <2>4. buf[pos'] \in Cells
    BY <2>2, <2>3
  <2>5. /\ file' \in Seq(Cells) /\ Len(file') >= pos' /\ file'[pos'] = buf[pos']
        /\ \A n \in 1 .. pos' - 1 : file'[n] = file[n]
    BY <2>1, <2>3, <2>4, PutCell
  <2>6. \A n \in 1 .. pos' : file'[n] = buf[n]
    BY <2>1, <2>5
  <2>7. QED
    BY <2>1, <2>3, <2>5, <2>6 DEF FileInv, Writing
<1>8. CASE WriteReturns
  BY <1>8 DEF FileInv, Writing, WriteReturns, Return
<1>9. CASE Crash
  BY <1>9 DEF FileInv, Writing, Crash, Forget
<1>10. CASE UNCHANGED vars
  BY <1>10 DEF FileInv, Writing, vars
<1>11. QED
  BY <1>1, <1>2, <1>3, <1>4, <1>5, <1>6, <1>7, <1>8, <1>9, <1>10 DEF Next

-------------------------------------------------------------------------------

(* The image of the section, as FileIsSection maps it. *)
Stored == Decoded(file)

Pending == IF Writing THEN Decode(buf) ELSE NoImage

Answer == IF answer = NoBytes THEN NoImage ELSE Decode(answer)

(* The same state functions, as the instance spells them. *)
LEMMA DeviceActions ==
  /\ Device!Init <=> Stored \in Image /\ Pending = NoImage /\ Answer = NoImage /\ result = "none"
  /\ Device!Read <=> /\ Pending = NoImage /\ Answer' \in {Stored, NoImage}
                     /\ Stored' = Stored /\ Pending' = Pending /\ result' = result
  /\ Device!Begin <=> /\ Pending = NoImage
                      /\ \E list \in Contents, user \in 0 .. UINT32_MAX :
                           Pending' = [hdr |-> [user |-> user, crc32 |-> list], data |-> list]
                      /\ result' = "none" /\ Stored' = Stored /\ Answer' = Answer
  /\ Device!Progress <=> /\ Pending # NoImage /\ Stored' \in PartlyWritten(Stored, Pending)
                         /\ Pending' = Pending /\ Answer' = Answer /\ result' = result
  /\ Device!Succeed <=> /\ Pending # NoImage /\ Stored' = Pending /\ Pending' = NoImage
                        /\ result' = "ok" /\ Answer' = Answer
  /\ Device!Fail <=> /\ Pending # NoImage /\ Pending' = NoImage
                     /\ result' = "error" /\ Stored' = Stored /\ Answer' = Answer
  /\ Device!Die <=> /\ Pending' = NoImage /\ Answer' = NoImage
                    /\ result' = "none" /\ Stored' = Stored
  /\ UNCHANGED Device!vars <=> Stored' = Stored /\ Pending' = Pending /\ Answer' = Answer /\ result' = result
  /\ Device!Next <=> \/ Device!Read \/ Device!Begin \/ Device!Progress
                     \/ Device!Succeed \/ Device!Fail \/ Device!Die
BY DEF Stored, Pending, Answer, Writing, Device!Init, Device!Read, Device!Begin, Device!Progress,
  Device!Succeed, Device!Fail, Device!Die, Device!vars, Device!Next, Device!Image, Image,
  Device!Header, Header, Device!PartlyWritten, PartlyWritten

LEMMA StoredInit == Init => Device!Init
<1> SUFFICES ASSUME Init PROVE Stored \in Image
  BY DeviceActions DEF Init, Pending, Writing, Answer
<1>1. CASE file = NoBytes
  BY <1>1 DEF Stored, Decoded, BlankImage, Image
<1>2. CASE file \in Buffers
  <2>1. Decode(file) \in Image
    BY <1>2, BufferImage
  <2>2. file # NoBytes
    BY <1>2, BufferImage, NoBytesAssumption
  <2>3. QED
    BY <2>1, <2>2 DEF Stored, Decoded
<1>3. QED
  BY <1>1, <1>2 DEF Init

(* Each step of the interface is a step of the section, or none. *)
LEMMA DeviceStep ==
  ASSUME FileInv, [Next]_vars
  PROVE  [Device!Next]_(Device!vars)
<1> DEFINE Stutter == Stored' = Stored /\ Pending' = Pending /\ Answer' = Answer /\ result' = result
<1>a. ASSUME Stutter PROVE [Device!Next]_(Device!vars)
  BY <1>a, DeviceActions
<1>b. ASSUME Writing PROVE Pending = Decode(buf) /\ Pending # NoImage /\ buf \in Buffers
  BY <1>b, BufferImage DEF FileInv, Pending
<1>c. file' = file => Stored' = Stored
  BY DEF Stored
<1>d. answer' = answer => Answer' = Answer
  BY DEF Answer
<1>e. file \in Seq(Cells) => Stored = Decode(file)
  BY NoBytesAssumption DEF Stored, Decoded
<1>1. CASE NvramInterfaceInit
  BY <1>1, <1>a, <1>c, <1>d DEF NvramInterfaceInit, Pending, Writing
<1>f. ASSUME Forget PROVE Device!Next
  BY <1>f, <1>c, DeviceActions DEF Forget, Pending, Writing, Answer
<1>2. CASE NvramInterfaceDestroy
  BY <1>2, <1>f DEF NvramInterfaceDestroy
<1>g. ASSUME pc \notin {"open", "write"}, pc' \notin {"open", "write"}, file' = file, result' = result,
             Answer' \in {Stored, NoImage}
      PROVE  Device!Next
  BY <1>g, <1>c, DeviceActions DEF Pending, Writing
<1>3. CASE NvramInterfaceSize
  <2>1. pc \notin {"open", "write"} /\ pc' \notin {"open", "write"} /\ file' = file /\ result' = result
    BY <1>3 DEF NvramInterfaceSize
  <2>2. CASE /\ size' = (IF file = NoBytes THEN 0 ELSE Len(file))
             /\ size' = 0
             /\ answer' = <<>>
    <3>1. Stored = BlankImage
      <4>1. CASE file = NoBytes
        BY <4>1 DEF Stored, Decoded
      <4>2. CASE file # NoBytes
        <5>1. file \in Seq(Cells) /\ Len(file) = 0
          BY <2>2, <4>2 DEF FileInv
        <5>2. QED
          BY <5>1, <1>e DEF Decode, HasHeader
      <4>3. QED
        BY <4>1, <4>2
    <3>2. Decode(<<>>) = BlankImage
      BY DEF Decode, HasHeader
    <3>3. Answer' \in {Stored, NoImage}
      BY <2>2, <3>1, <3>2 DEF Answer
    <3>4. QED
      BY <2>1, <3>3, <1>g
  <2>3. CASE UNCHANGED answer
    <3>1. Pending' = Pending
      BY <2>1 DEF Pending, Writing
    <3>2. QED
      BY <2>1, <2>3, <3>1, <1>a, <1>c, <1>d
  <2>4. CASE answer' = NoBytes
    <3>1. Answer' = NoImage
      BY <2>4 DEF Answer
    <3>2. QED
      BY <2>1, <3>1, <1>g
  <2>5. QED
    BY <1>3, <2>2, <2>3, <2>4 DEF NvramInterfaceSize
<1>4. CASE NvramInterfaceRead
  <2>1. /\ pc = "read" /\ pc' = "idle" /\ file' = file /\ result' = result
        /\ file \in Seq(Cells) /\ size = Len(file)
        /\ answer' \in {SubSeq(file, 1, size), NoBytes}
    BY <1>4 DEF NvramInterfaceRead, FileInv
  <2>2. SubSeq(file, 1, size) = file
    BY <2>1, SubSeqFull
  <2>3. Answer' \in {Stored, NoImage}
    BY <2>1, <2>2, <1>e DEF Answer
  <2>4. QED
    BY <2>1, <2>3, <1>g
<1>5. CASE NvramInterfaceWrite
  <2>1. /\ Pending = NoImage /\ result' = "none" /\ Stored' = Stored /\ Answer' = Answer
        /\ buf' \in Buffers /\ Pending' = Decode(buf')
    BY <1>5, <1>c, <1>d DEF NvramInterfaceWrite, Pending, Writing
  <2>2. \E list \in Contents, user \in 0 .. UINT32_MAX :
          Pending' = [hdr |-> [user |-> user, crc32 |-> list], data |-> list]
    BY <2>1, BufferImage
  <2>3. QED
    BY <2>1, <2>2, DeviceActions
<1>h. ASSUME Writing, Return("error"), file' = file PROVE Device!Next
  <2>1. Pending' = NoImage /\ Stored' = Stored /\ Answer' = Answer /\ result' = "error"
    BY <1>h, <1>c, <1>d DEF Return, Pending, Writing
  <2>2. QED
    BY <1>h, <1>b, <2>1, DeviceActions
<1>6. CASE OpenFile
  <2>1. CASE file' = (IF file = NoBytes THEN <<>> ELSE file) /\ pc = "open" /\ pc' = "write"
             /\ UNCHANGED <<size, buf, pos, answer, result>>
    <3>1. Pending' = Pending /\ Answer' = Answer /\ result' = result
      BY <2>1, <1>d DEF Pending, Writing
    <3>2. Stored' = Stored
      <4>1. Decode(<<>>) = BlankImage /\ <<>> \in Seq(Cells)
        BY DEF Decode, HasHeader
      <4>2. QED
        BY <2>1, <4>1, NoBytesAssumption DEF Stored, Decoded
    <3>3. QED
      BY <3>1, <3>2, <1>a
  <2>2. QED
    BY <1>6, <2>1, <1>h DEF OpenFile, Writing
<1>7. CASE WriteBytes
  <2>1. /\ pc = "write" /\ pc' = "write" /\ UNCHANGED <<buf, answer, result>> /\ Writing /\ pos' >= 1
    BY <1>7 DEF WriteBytes, Writing, FileInv
  <2>2. FileInv'
    BY <1>7, FileStep DEF Next
  <2>3. file' \in Seq(Cells) /\ file'[1] = buf[1]
    <3>1. file' \in Seq(Cells) /\ pos' \in Nat /\ \A n \in 1 .. pos' : file'[n] = buf[n]
      BY <2>1, <2>2 DEF FileInv
    <3>2. QED
      BY <2>1, <3>1
  <2>4. PICK user \in 0 .. UINT32_MAX, list \in Contents :
          /\ buf[1] = <<"hdr", [user |-> user, crc32 |-> list], 1>>
          /\ Decode(buf) = [hdr |-> [user |-> user, crc32 |-> list], data |-> list]
    BY <2>1, <1>b, BufferImage
  <2> DEFINE h == [user |-> user, crc32 |-> list]
  <2>5. Stored' = Decode(file')
    BY <2>3, NoBytesAssumption DEF Stored, Decoded
  <2>6. Stored' \in {BlankImage, [hdr |-> h, data |-> h.crc32], [hdr |-> h, data |-> Garbage]}
    BY <2>3, <2>4, <2>5, DecodeTorn
  <2>7. Pending = [hdr |-> h, data |-> h.crc32] /\ Pending' = Pending /\ Answer' = Answer
    BY <2>1, <2>4, <1>b, <1>d DEF Pending, Writing
  <2>8. Stored' \in PartlyWritten(Stored, Pending)
    BY <2>6, <2>7 DEF PartlyWritten, BlankImage
  <2>9. QED
    BY <2>1, <2>7, <2>8, <1>b, DeviceActions
<1>8. CASE WriteReturns
  <2>1. CASE pc = "write" /\ pos = Len(buf) /\ Return("ok") /\ file' = file
    <3>1. Writing /\ Pending' = NoImage /\ Stored' = Stored /\ Answer' = Answer /\ result' = "ok"
      BY <2>1, <1>c, <1>d DEF Return, Pending, Writing
    <3>2. file \in Seq(Cells) /\ Len(buf) <= Len(file) /\ \A n \in 1 .. Len(buf) : file[n] = buf[n]
      BY <2>1 DEF FileInv
    <3>3. PICK user \in 0 .. UINT32_MAX, list \in Contents :
            LET h == [user |-> user, crc32 |-> list]
            IN  buf = Bytes(h) /\ Decode(buf) = [hdr |-> h, data |-> list]
      BY <3>1, <1>b, BufferImage
    <3> DEFINE h == [user |-> user, crc32 |-> list]
    <3>4. h.crc32 \in Contents /\ buf = Bytes(h) /\ Decode(buf) = [hdr |-> h, data |-> h.crc32]
      BY <3>3
    <3> HIDE DEF h
    <3>5. Len(buf) \in Nat /\ Len(file) \in Nat
      <4>1. Len(buf) \in Nat
        BY <3>1, <1>b, BufferImage
      <4>2. QED
        BY <3>2, <4>1
    <3>6. Decode(file) = [hdr |-> h, data |-> h.crc32]
      BY <3>2, <3>4, <3>5, DecodeComplete
    <3>7. Stored = Pending
      BY <3>1, <3>2, <3>4, <3>6, <1>b, <1>e
    <3>8. QED
      BY <3>1, <3>7, <1>b, DeviceActions
  <2>2. QED
    BY <1>8, <2>1, <1>h DEF WriteReturns, Writing
<1>9. CASE Crash
  BY <1>9, <1>f DEF Crash
<1>10. CASE UNCHANGED vars
  BY <1>10, <1>a, <1>c, <1>d DEF vars, Pending, Writing
<1>11. QED
  BY <1>1, <1>2, <1>3, <1>4, <1>5, <1>6, <1>7, <1>8, <1>9, <1>10 DEF Next

(* A file that is written in place and never truncated implements the      *)
(* section that NvramStore writes, whatever the length of the lists.       *)
THEOREM FileImplementsSection == Spec => FileIsSection
<1>1. FileInv /\ [Next]_vars => [Device!Next]_(Device!vars)
  BY DeviceStep
<1>2. QED
  BY <1>1, FileInit, FileStep, StoredInit, PTL DEF Spec, FileIsSection, Device!Spec
===============================================================================
