--------------------------- MODULE InterfaceEfiProofs ---------------------------
(***************************************************************************)
(* InterfaceEfi restores the immutable flag, and implements SectionDevice  *)
(* for lists of any length.                                                *)
(***************************************************************************)
EXTENDS InterfaceEfi, SectionBytesProofs

Writing == pc \in {"clear", "open", "write"}

(* Variables that a write has stored. *)
Variables == {EFI_HEADER \o bytes : bytes \in Buffers}

(* A buffer is there while a write needs it, and a size that was asked for *)
(* is that of the variable without its attributes.                         *)
EfiInv ==
  /\ variable \in {NoBytes, <<>>} \cup Variables
  /\ Writing => buf \in Buffers
  /\ pc = "read" => variable \in Variables /\ size = Len(variable) - AttrSize

(* The attributes of a variable come off as they were put on. *)
LEMMA VariableCells ==
  ASSUME NEW bytes \in Buffers
  PROVE  LET v == EFI_HEADER \o bytes
         IN  /\ Len(v) \in Nat /\ Len(v) = AttrSize + Len(bytes) /\ AttrSize = 1
             /\ Len(v) - AttrSize > 0
             /\ SubSeq(v, AttrSize + 1, Len(v)) = bytes
             /\ v # NoBytes /\ v # <<>>
<1> DEFINE v    == EFI_HEADER \o bytes
           Both == Cells \cup {<<"attr">>}
<1>1. bytes \in Seq(Both) /\ Len(bytes) \in Nat /\ Len(bytes) >= 2
  <2>1. bytes \in Seq(Cells) /\ Len(bytes) \in Nat /\ Len(bytes) >= 2
    BY BufferImage
  <2>2. QED
    BY <2>1
<1>2. EFI_HEADER \in Seq(Both) /\ Len(EFI_HEADER) = 1
  BY DEF EFI_HEADER
<1> HIDE DEF Both
<1>3. v \in Seq(Both) /\ Len(v) = 1 + Len(bytes)
  BY <1>1, <1>2, ConcatProperties
<1>4. \A n \in 1 .. Len(bytes) : v[1 + n] = bytes[n]
  <2>1. \A n \in 1 .. Len(EFI_HEADER) + Len(bytes) :
          v[n] = IF n <= Len(EFI_HEADER) THEN EFI_HEADER[n] ELSE bytes[n - Len(EFI_HEADER)]
    BY <1>1, <1>2, ConcatProperties
  <2> HIDE DEF v
  <2>2. ASSUME NEW n \in 1 .. Len(bytes) PROVE v[1 + n] = bytes[n]
    <3>1. 1 + n \in 1 .. Len(EFI_HEADER) + Len(bytes) /\ ~(1 + n <= Len(EFI_HEADER))
          /\ (1 + n) - Len(EFI_HEADER) = n
      BY <1>1, <1>2
    <3>2. QED
      BY <2>1, <3>1
  <2>3. QED
    BY <2>2
<1>5. SubSeq(v, 2, Len(v)) = [n \in 1 .. Len(bytes) |-> v[1 + n]]
  <2> HIDE DEF v
  <2>1. SubSeq(v, 2, Len(v)) \in Seq(Both) /\ Len(SubSeq(v, 2, Len(v))) = Len(bytes)
        /\ \A n \in 1 .. Len(bytes) : SubSeq(v, 2, Len(v))[n] = v[1 + n]
    BY <1>1, <1>3, SubSeqProperties
  <2>2. SubSeq(v, 2, Len(v)) = [n \in 1 .. Len(bytes) |-> SubSeq(v, 2, Len(v))[n]]
    BY <2>1, SequenceIsFunction
  <2>3. QED
    BY <2>1, <2>2
<1>6. bytes = [n \in 1 .. Len(bytes) |-> bytes[n]]
  BY <1>1, SequenceIsFunction
<1>7. SubSeq(v, 2, Len(v)) = bytes
  BY <1>4, <1>5, <1>6
<1>8. v # NoBytes
  BY NoVariableAssumption
<1> HIDE DEF v
<1>9. v # <<>>
  BY <1>1, <1>3
<1>10. QED
  BY <1>1, <1>2, <1>3, <1>7, <1>8, <1>9 DEF AttrSize, v

LEMMA EfiInit == Init => EfiInv
BY DEF Init, EfiInv, Writing, Variables

LEMMA EfiStep == EfiInv /\ [Next]_vars => EfiInv'
<1> SUFFICES ASSUME EfiInv, [Next]_vars PROVE EfiInv'
  OBVIOUS
<1>1. CASE NvramInterfaceInit
  BY <1>1 DEF EfiInv, Writing, NvramInterfaceInit, platform
<1>2. CASE NvramInterfaceDestroy
  BY <1>2 DEF EfiInv, Writing, NvramInterfaceDestroy, Forget
<1>3. CASE NvramInterfaceSize
  <2>1. CASE UNCHANGED pc
    BY <1>3, <2>1 DEF EfiInv, Writing, NvramInterfaceSize, platform
  <2>2. CASE variable # NoBytes /\ Len(variable) >= AttrSize /\ size' = PayloadSize(variable) /\ pc' = "read"
    <3>1. variable # <<>>
      BY <2>2 DEF AttrSize, EFI_HEADER
    <3>2. variable \in Variables /\ variable' = variable
      BY <1>3, <2>2, <3>1 DEF EfiInv, NvramInterfaceSize, platform
    <3>3. QED
      BY <2>2, <3>2 DEF EfiInv, Writing, PayloadSize
  <2>3. QED
    BY <1>3, <2>1, <2>2 DEF NvramInterfaceSize
<1>4. CASE NvramInterfaceRead
  BY <1>4 DEF EfiInv, Writing, NvramInterfaceRead, platform
<1>5. CASE NvramInterfaceWrite
  BY <1>5 DEF EfiInv, Writing, NvramInterfaceWrite, platform
<1>6. CASE ClearImmutable
  BY <1>6 DEF EfiInv, Writing, ClearImmutable
<1>7. CASE ClearImmutableFails
  BY <1>7 DEF EfiInv, Writing, ClearImmutableFails, platform
<1>8. CASE OpenVariable
  BY <1>8 DEF EfiInv, Writing, OpenVariable
<1>9. CASE WriteVariable
  BY <1>9 DEF EfiInv, Writing, WriteVariable, Exit, Variables
<1>10. CASE WriteFails
  BY <1>10 DEF EfiInv, Writing, WriteFails, Exit, platform
<1>11. CASE RestoreImmutable
  BY <1>11 DEF EfiInv, Writing, RestoreImmutable
<1>12. CASE Crash
  BY <1>12 DEF EfiInv, Writing, Crash, Forget
<1>13. CASE UNCHANGED vars
  BY <1>13 DEF EfiInv, Writing, vars
<1>14. QED
  BY <1>1, <1>2, <1>3, <1>4, <1>5, <1>6, <1>7, <1>8, <1>9, <1>10, <1>11, <1>12, <1>13 DEF Next

(* The immutable flag is set again after every write, failed ones too,     *)
(* unless the last one that cleared it died or could not set it.           *)
THEOREM EfiImmutableAtRest == Spec => []ImmutableAtRest
<1>1. Init => ImmutableAtRest
  BY Zenon DEF Init, ImmutableAtRest
<1>2. ImmutableAtRest /\ [Next]_vars => ImmutableAtRest'
  <2> SUFFICES ASSUME ImmutableAtRest, [Next]_vars PROVE ImmutableAtRest'
    OBVIOUS
  <2>1. CASE NvramInterfaceInit
    BY <2>1 DEF ImmutableAtRest, NvramInterfaceInit, platform
  <2>2. CASE NvramInterfaceDestroy
    BY <2>2 DEF ImmutableAtRest, NvramInterfaceDestroy, Forget
  <2>3. CASE NvramInterfaceSize
    BY <2>3 DEF ImmutableAtRest, NvramInterfaceSize, platform
  <2>4. CASE NvramInterfaceRead
    BY <2>4 DEF ImmutableAtRest, NvramInterfaceRead, platform
  <2>5. CASE NvramInterfaceWrite
    BY <2>5 DEF ImmutableAtRest, NvramInterfaceWrite, platform
  <2>6. CASE ClearImmutable
    BY <2>6 DEF ImmutableAtRest, ClearImmutable
  <2>7. CASE ClearImmutableFails
    BY <2>7 DEF ImmutableAtRest, ClearImmutableFails, platform
  <2>8. CASE OpenVariable
    BY <2>8 DEF ImmutableAtRest, OpenVariable
  <2>9. CASE WriteVariable
    BY <2>9 DEF ImmutableAtRest, WriteVariable, Exit
  <2>10. CASE WriteFails
    BY <2>10 DEF ImmutableAtRest, WriteFails, Exit
  <2>11. CASE RestoreImmutable
    BY <2>11 DEF ImmutableAtRest, RestoreImmutable
  <2>12. CASE Crash
    BY <2>12 DEF ImmutableAtRest, Crash, Forget
  <2>13. CASE UNCHANGED vars
    BY <2>13 DEF ImmutableAtRest, vars
  <2>14. QED
    BY <2>1, <2>2, <2>3, <2>4, <2>5, <2>6, <2>7, <2>8, <2>9, <2>10, <2>11, <2>12, <2>13 DEF Next
<1>3. QED
  BY <1>1, <1>2, PTL DEF Spec
-------------------------------------------------------------------------------

(* The image of the section, as EfiIsSection maps it. *)
Stored == Payload(variable)

Pending == IF Writing THEN Decode(buf) ELSE NoImage

Answer == IF answer = NoBytes THEN NoImage ELSE Decode(answer)

LEMMA EmptyImage == Decode(<<>>) = BlankImage
BY DEF Decode, HasHeader

(* The image of a variable that a write has stored. *)
LEMMA PayloadOfVariable ==
  ASSUME NEW bytes \in Buffers
  PROVE  Payload(EFI_HEADER \o bytes) = Decode(bytes)
BY VariableCells DEF Payload

(* The same state functions, as the instance spells them. *)
LEMMA DeviceActions ==
  /\ Device!Init <=> Stored \in Image /\ Pending = NoImage /\ Answer = NoImage /\ result = "none"
  /\ Device!Read <=> /\ Pending = NoImage /\ Answer' \in {Stored, NoImage}
                     /\ Stored' = Stored /\ Pending' = Pending /\ result' = result
  /\ Device!Begin <=> /\ Pending = NoImage
                      /\ \E list \in Contents, user \in 0 .. UINT32_MAX :
                           Pending' = [hdr |-> [user |-> user, crc32 |-> list], data |-> list]
                      /\ result' = "none" /\ Stored' = Stored /\ Answer' = Answer
  /\ Device!Succeed <=> /\ Pending # NoImage /\ Stored' = Pending /\ Pending' = NoImage
                        /\ result' = "ok" /\ Answer' = Answer
  /\ Device!Fail <=> /\ Pending # NoImage /\ Pending' = NoImage
                     /\ result' = "error" /\ Stored' = Stored /\ Answer' = Answer
  /\ Device!Die <=> /\ Pending' = NoImage /\ Answer' = NoImage
                    /\ result' = "none" /\ Stored' = Stored
  /\ UNCHANGED Device!vars <=> Stored' = Stored /\ Pending' = Pending /\ Answer' = Answer /\ result' = result
  /\ Device!Next <=> \/ Device!Read \/ Device!Begin \/ Device!Progress
                     \/ Device!Succeed \/ Device!Fail \/ Device!Die
BY DEF Stored, Pending, Answer, Writing, Device!Init, Device!Read, Device!Begin,
  Device!Succeed, Device!Fail, Device!Die, Device!vars, Device!Next, Device!Image, Image,
  Device!Header, Header

LEMMA StoredInit == Init => Device!Init
<1> SUFFICES ASSUME Init PROVE Stored \in Image
  BY DeviceActions DEF Init, Pending, Writing, Answer
<1>1. CASE variable \in {NoBytes, <<>>}
  BY <1>1 DEF Stored, Payload, BlankImage, Image
<1>2. ASSUME NEW bytes \in Buffers, variable = EFI_HEADER \o bytes PROVE Stored \in Image
  <2>1. Decode(bytes) \in Image
    BY BufferImage
  <2>2. QED
    BY <1>2, <2>1, PayloadOfVariable DEF Stored
<1>3. QED
  BY <1>1, <1>2 DEF Init

(* Each step of the interface is a step of the section, or none: what is   *)
(* written takes effect in one step.                                       *)
LEMMA DeviceStep ==
  ASSUME EfiInv, [Next]_vars
  PROVE  [Device!Next]_(Device!vars)
<1> DEFINE Stutter == Stored' = Stored /\ Pending' = Pending /\ Answer' = Answer /\ result' = result
<1>a. ASSUME Stutter PROVE [Device!Next]_(Device!vars)
  BY <1>a, DeviceActions
<1>b. ASSUME Writing PROVE Pending = Decode(buf) /\ Pending # NoImage /\ buf \in Buffers
  BY <1>b, BufferImage DEF EfiInv, Pending
<1>c. variable' = variable => Stored' = Stored
  BY DEF Stored
<1>d. answer' = answer => Answer' = Answer
  BY DEF Answer
<1>e. ASSUME Forget PROVE Device!Next
  BY <1>e, <1>c, DeviceActions DEF Forget, Pending, Writing, Answer
<1>f. ASSUME ~Writing, ~Writing', variable' = variable, result' = result, Answer' \in {Stored, NoImage}
      PROVE  Device!Next
  BY <1>f, <1>c, DeviceActions DEF Pending
<1>g. ASSUME Writing, ~Writing', result' = "error", UNCHANGED <<variable, answer>> PROVE Device!Next
  BY <1>g, <1>b, <1>c, <1>d, DeviceActions DEF Pending
<1>1. CASE NvramInterfaceInit
  BY <1>1, <1>a, <1>c, <1>d DEF NvramInterfaceInit, Pending, Writing, platform
<1>2. CASE NvramInterfaceDestroy
  BY <1>2, <1>e DEF NvramInterfaceDestroy
<1>3. CASE NvramInterfaceSize
  <2>1. ~Writing /\ ~Writing' /\ variable' = variable /\ result' = result
    BY <1>3 DEF NvramInterfaceSize, Writing, platform
  <2>2. CASE variable = NoBytes /\ answer' = <<>>
    <3>1. Answer' \in {Stored, NoImage}
      BY <2>2, EmptyImage DEF Answer, Stored, Payload
    <3>2. QED
      BY <2>1, <3>1, <1>f
  <2>3. CASE variable # NoBytes /\ Len(variable) >= AttrSize /\ size' = PayloadSize(variable) /\ answer' = <<>> /\ size' = 0
    <3>1. variable # <<>>
      BY <2>3 DEF AttrSize, EFI_HEADER
    <3>2. PICK bytes \in Buffers : variable = EFI_HEADER \o bytes
      BY <2>3, <3>1 DEF EfiInv, Variables
    <3>3. size' > 0
      BY <2>3, <3>2, VariableCells DEF PayloadSize
    <3>4. QED
      BY <2>3, <3>3
  <2>4. CASE UNCHANGED answer
    <3>1. Pending' = Pending
      BY <2>1 DEF Pending
    <3>2. QED
      BY <2>1, <2>4, <3>1, <1>a, <1>c, <1>d
  <2>5. CASE answer' = NoBytes
    <3>1. Answer' = NoImage
      BY <2>5 DEF Answer
    <3>2. QED
      BY <2>1, <3>1, <1>f
  <2>6. QED
    BY <1>3, <2>2, <2>3, <2>4, <2>5 DEF NvramInterfaceSize
<1>4. CASE NvramInterfaceRead
  <2>1. /\ ~Writing /\ ~Writing' /\ variable' = variable /\ result' = result
        /\ variable \in Variables /\ size = Len(variable) - AttrSize
        /\ answer' \in {SubSeq(variable, AttrSize + 1, AttrSize + size), NoBytes}
    BY <1>4 DEF NvramInterfaceRead, Writing, platform, EfiInv
  <2>2. PICK bytes \in Buffers : variable = EFI_HEADER \o bytes
    BY <2>1 DEF Variables
  <2>3. AttrSize + size = Len(variable)
    BY <2>1, <2>2, VariableCells
  <2>4. SubSeq(variable, AttrSize + 1, AttrSize + size) = bytes
    BY <2>2, <2>3, VariableCells
  <2>5. Stored = Decode(bytes)
    BY <2>2, PayloadOfVariable DEF Stored
  <2>6. Answer' \in {Stored, NoImage}
    BY <2>1, <2>4, <2>5 DEF Answer
  <2>7. QED
    BY <2>1, <2>6, <1>f
<1>5. CASE NvramInterfaceWrite
  <2>1. /\ Pending = NoImage /\ result' = "none" /\ Stored' = Stored /\ Answer' = Answer
        /\ buf' \in Buffers /\ Pending' = Decode(buf')
    BY <1>5, <1>c, <1>d DEF NvramInterfaceWrite, Pending, Writing, platform
  <2>2. \E list \in Contents, user \in 0 .. UINT32_MAX :
          Pending' = [hdr |-> [user |-> user, crc32 |-> list], data |-> list]
    BY <2>1, BufferImage
  <2>3. QED
    BY <2>1, <2>2, DeviceActions
<1>6. CASE ClearImmutable
  BY <1>6, <1>a, <1>c, <1>d DEF ClearImmutable, Pending, Writing
<1>7. CASE ClearImmutableFails
  BY <1>7, <1>g DEF ClearImmutableFails, Writing, platform
<1>8. CASE OpenVariable
  <2>1. Stored' = Stored
    BY <1>8 DEF OpenVariable, Stored, Payload
  <2>2. QED
    BY <1>8, <2>1, <1>a, <1>d DEF OpenVariable, Pending, Writing
<1>9. CASE WriteVariable
  <2>1. /\ Writing /\ ~Writing' /\ variable' = EFI_HEADER \o buf
        /\ result' = "ok" /\ answer' = answer
    BY <1>9 DEF WriteVariable, Exit, Writing
  <2>2. Stored' = Payload(EFI_HEADER \o buf)
    BY <2>1 DEF Stored
  <2>3. Stored' = Pending
    BY <2>1, <2>2, <1>b, PayloadOfVariable
  <2>4. QED
    BY <2>1, <2>3, <1>b, <1>d, DeviceActions DEF Pending
<1>10. CASE WriteFails
  BY <1>10, <1>g DEF WriteFails, Exit, Writing, platform
<1>11. CASE RestoreImmutable
  BY <1>11, <1>a, <1>c, <1>d DEF RestoreImmutable, Pending, Writing
<1>12. CASE Crash
  BY <1>12, <1>e DEF Crash
<1>13. CASE UNCHANGED vars
  BY <1>13, <1>a, <1>c, <1>d DEF vars, Pending, Writing
<1>14. QED
  BY <1>1, <1>2, <1>3, <1>4, <1>5, <1>6, <1>7, <1>8, <1>9, <1>10, <1>11, <1>12, <1>13 DEF Next

(* A variable with its attributes in front implements the section that     *)
(* NvramStore writes, whatever the length of the lists.                    *)
THEOREM EfiImplementsSection == Spec => EfiIsSection
<1>1. EfiInv /\ [Next]_vars => [Device!Next]_(Device!vars)
  BY DeviceStep
<1>2. QED
  BY <1>1, EfiInit, EfiStep, StoredInit, PTL DEF Spec, EfiIsSection, Device!Spec
===============================================================================
