-------------------------------- MODULE Printing --------------------------------
(***************************************************************************)
(* What --list and --get print of the lists of LibnvramList (main.c,       *)
(* calc_size to print_list, and the part of main that calls them).  Keys   *)
(* and values are sequences of bytes, as any user of the format may have   *)
(* written them; the output is a sequence of character codes.              *)
(***************************************************************************)
EXTENDS LibnvramFormat

NUL == 0

ENDL == 10

EQUALS == 61

ENOENT == 2

ENOMEM == 12

EWOULDBLOCK == 11

(* What errno can be when main has read its stores: nothing sets it, or    *)
(* a flock that was busy at first, or the stat of a store that is not      *)
(* there.                                                                  *)
Errno == {0, EWOULDBLOCK, ENOENT}

(*-------------------------------------------------------------------------*)
(* print_entry                                                             *)
(*-------------------------------------------------------------------------*)

IsString(bytes) == bytes[Len(bytes)] = NUL

Nuls(bytes) == {n \in DOMAIN bytes : bytes[n] = NUL}

FirstNul(bytes) == CHOOSE n \in Nuls(bytes) : \A m \in Nuls(bytes) : n <= m

(* What %s makes of the bytes. *)
CString(bytes) == SubSeq(bytes, 1, FirstNul(bytes) - 1)

HexDigit(n) == IF n < 10 THEN 48 + n ELSE 87 + n

(* append_hex *)
Hex(bytes) ==
  <<48, 120>> \o [n \in 1 .. 2 * Len(bytes) |->
    LET byte == bytes[(n + 1) \div 2]
    IN  HexDigit(IF n % 2 = 1 THEN byte \div 16 ELSE byte % 16)]

(* Without the "0x". *)
CalcSizeBare(bytes) == IF IsString(bytes) THEN Len(bytes) - 1 ELSE 2 * Len(bytes)

CalcSize(bytes) == IF IsString(bytes) THEN Len(bytes) - 1 ELSE 2 + 2 * Len(bytes)

BufferSize(entry, withKey) ==
  2 + CalcSize(entry.value) + (IF withKey THEN 1 + CalcSize(entry.key) ELSE 0)

(* One snprintf into what is left of the buffer, or append_hex and one: a  *)
(* text that is too long is cut, and hides what is put behind it.  The     *)
(* count of a string must be that of its bytes, with the NUL replaced.     *)
PutText(buffer, bytes, end) ==
  LET text == Append(IF IsString(bytes) THEN CString(bytes) ELSE Hex(bytes), end)
      room == buffer.size - buffer.pos - 1
  IN  [buffer EXCEPT
         !.failed = @ \/ (IsString(bytes) /\ Len(text) # Len(bytes)),
         !.pos    = @ + Len(text),
         !.str    = IF Len(@) = buffer.pos
                      THEN @ \o SubSeq(text, 1, IF room < Len(text) THEN room ELSE Len(text))
                      ELSE @]

(* The text of print_entry, failed when a count was not the one expected.  *)
Format(entry, withKey) ==
  LET empty == [str |-> <<>>, pos |-> 0, size |-> BufferSize(entry, withKey), failed |-> FALSE]
  IN  IF withKey
        THEN PutText(PutText(empty, entry.key, EQUALS), entry.value, ENDL)
        ELSE PutText(empty, entry.value, ENDL)

(* Leaves with an r that nothing has set. *)
PrintEntryNoMemory(entry, withKey, errno, nomem) ==
  LET buffer == Format(entry, withKey)
  IN  IF nomem THEN [out |-> <<>>, r |-> 0]
      ELSE IF buffer.failed THEN [out |-> <<>>, r |-> -errno]
      ELSE [out |-> buffer.str, r |-> 0]

(* What is printed, and the value returned: an snprintf that succeeds does *)
(* not set the errno that is returned for its count.                       *)
PrintEntry(entry, withKey, errno, nomem) ==
  LET buffer == Format(entry, withKey)
  IN  IF nomem THEN [out |-> <<>>, r |-> -ENOMEM]
      ELSE IF buffer.failed THEN [out |-> <<>>, r |-> -errno]
      ELSE [out |-> buffer.str, r |-> 0]

(*-------------------------------------------------------------------------*)
(* --list and --get.  The lists of the two stores are the first n entries  *)
(* of a list and the others; with --sys there are no others.               *)
(*-------------------------------------------------------------------------*)

(* print_list after n turns: it goes on whatever print_entry returns; nomem *)
(* are the entries that malloc fails for.                                  *)
PrintedAfter(l, nomem) ==
  LET printed[n \in 0 .. Len(l)] ==
        IF n = 0 THEN <<>>
        ELSE printed[n - 1] \o PrintEntry(l[n], TRUE, 0, l[n] \in nomem).out
  IN  printed

PrintList(l, nomem) == PrintedAfter(l, nomem)[Len(l)]

RunList(system, user, nomem) == PrintList(system, nomem) \o PrintList(user, nomem)

PrintListEntry(l, key, errno, nomem) ==
  IF ListGet(l, key) = NoValue
    THEN [out |-> <<>>, r |-> -ENOENT]
    ELSE PrintEntry([key |-> key, value |-> ListGet(l, key)], FALSE, errno, nomem)

(* The system store and, if that returns an error, the user store; nomem   *)
(* are those that malloc fails for, which sets errno.                      *)
RunGet(system, user, key, errno, nomem) ==
  LET first  == PrintListEntry(system, key, errno, "system" \in nomem)
      left   == IF first.r = -ENOMEM THEN ENOMEM ELSE errno
      second == PrintListEntry(user, key, left, "user" \in nomem)
  IN  IF first.r = 0 THEN first
      ELSE [out |-> first.out \o second.out, r |-> IF second.r = 0 THEN 0 ELSE ENOENT]

-------------------------------------------------------------------------------

(* A string with a NUL inside: print_entry takes 1 0 0 0 for one. *)
InnerNul(bytes) == IsString(bytes) /\ \E i \in 1 .. Len(bytes) - 1 : bytes[i] = NUL

Text(bytes) == IF IsString(bytes) THEN SubSeq(bytes, 1, Len(bytes) - 1) ELSE Hex(bytes)

Line(entry) == Append(Text(entry.key), EQUALS) \o Append(Text(entry.value), ENDL)

(* The lines of the first n entries, without those that cannot be shown.   *)
Lines(l, nomem) ==
  LET Shown(entry) == entry \notin nomem /\ ~InnerNul(entry.key) /\ ~InnerNul(entry.value)
      lines[n \in 0 .. Len(l)] ==
        IF n = 0 THEN <<>>
        ELSE IF Shown(l[n]) THEN lines[n - 1] \o Line(l[n]) ELSE lines[n - 1]
  IN  lines

(* --list prints the entries of both stores whole, in the order of their   *)
(* lists, and leaves out only those with a NUL inside a string or without  *)
(* memory for their text: the buffer that calc_size counts is never too    *)
(* short.                                                                  *)
ListComplete ==
  \A n \in 0 .. Len(list), nomem \in SUBSET {list[i] : i \in DOMAIN list} :
    RunList(SubSeq(list, 1, n), SubSeq(list, n + 1, Len(list)), nomem)
      = Lines(list, nomem)[Len(list)]

(* argv gives --get strings only. *)
StringKeys == {key \in Keys : IsString(key)}

(* --get prints the value of the key, which an entry of either store can   *)
(* have, and exits with 0; it prints nothing and fails when neither has    *)
(* the key or there is no memory for the text.  The exception is a value   *)
(* that is a string with a NUL inside: nothing of it is printed, and the   *)
(* exit status is what errno happens to be (see SilentSuccess).            *)
GetAnswers ==
  \A n \in 0 .. Len(list), key \in StringKeys, errno \in Errno, nomem \in SUBSET {"system", "user"} :
    LET system == SubSeq(list, 1, n)
        got    == RunGet(system, SubSeq(list, n + 1, Len(list)), key, errno, nomem)
        value  == ListGet(list, key)
        store  == IF ListGet(system, key) # NoValue THEN "system" ELSE "user"
    IN  IF value = NoValue \/ store \in nomem
          THEN got.r # 0 /\ got.out = <<>>
        ELSE IF InnerNul(value)
          THEN got.out = <<>>
        ELSE got = [out |-> Append(Text(value), ENDL), r |-> 0]

(* --get exits with 0 and prints nothing for one kind of value only, a     *)
(* string with a NUL inside, and only when nothing has set errno.          *)
SilentSuccess ==
  \A n \in 0 .. Len(list), key \in StringKeys, errno \in Errno, nomem \in SUBSET {"system", "user"} :
    LET got == RunGet(SubSeq(list, 1, n), SubSeq(list, n + 1, Len(list)), key, errno, nomem)
    IN  got.r = 0 /\ got.out = <<>> => InnerNul(ListGet(list, key)) /\ errno = 0
===============================================================================
