----------------------------- MODULE MCNvramStore -----------------------------
(* A small instance of NvramStore for TLC.  The configuration gives        *)
(* Contents three lists and UINT32_MAX the value 4, so that a counter goes *)
(* 1, 2, 3 and is reset.                                                   *)
EXTENDS NvramStore, TLC

CONSTANTS empty, l1, l2  \* the lists

MCContents == {empty, l1, l2}

TwoSections == {"A", "B"}

(* The lists that are not empty are interchangeable. *)
Symmetry == Permutations({l1, l2})
===============================================================================
