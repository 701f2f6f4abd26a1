---------------------------- MODULE SectionDevice ----------------------------
(***************************************************************************)
(* What nvram_interface.h asks of a storage interface, and what NvramStore *)
(* relies on: a read returns the image of the section or an error; a write *)
(* changes the image only as PartlyWritten allows, and one that returns 0  *)
(* has written all of it.  The process may die at any point.               *)
(***************************************************************************)
EXTENDS LibnvramTransaction

CONSTANT NoImage  \* no write under way, no answer

VARIABLES
  image,    \* what the section holds
  pending,  \* the image of the write under way, or NoImage
  answer,   \* what the last read returned, NoImage for an error
  result    \* what the last write returned

vars == <<image, pending, answer, result>>

Init ==
  /\ image \in Image
  /\ pending = NoImage
  /\ answer = NoImage
  /\ result = "none"

Read ==
  /\ pending = NoImage
  /\ answer' \in {image, NoImage}
  /\ UNCHANGED <<image, pending, result>>

Begin ==
  /\ pending = NoImage
  /\ \E list \in Contents, user \in 0 .. UINT32_MAX :
       pending' = [hdr |-> [user |-> user, crc32 |-> list], data |-> list]
  /\ result' = "none"
  /\ UNCHANGED <<image, answer>>

Progress ==
  /\ pending # NoImage
  /\ image' \in PartlyWritten(image, pending)
  /\ UNCHANGED <<pending, answer, result>>

Succeed ==
  /\ pending # NoImage
  /\ image' = pending
  /\ pending' = NoImage
  /\ result' = "ok"
  /\ UNCHANGED answer

Fail ==
  /\ pending # NoImage
  /\ pending' = NoImage
  /\ result' = "error"
  /\ UNCHANGED <<image, answer>>

Die ==
  /\ pending' = NoImage
  /\ answer' = NoImage
  /\ result' = "none"
  /\ UNCHANGED image

Next == Read \/ Begin \/ Progress \/ Succeed \/ Fail \/ Die

Spec == Init /\ [][Next]_vars
===============================================================================
