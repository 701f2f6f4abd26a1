------------------------- MODULE MCNvramStorePowerLoss -------------------------
(* A small instance of NvramStorePowerLoss for TLC: two lists, and a       *)
(* counter that is reset after 2.                                          *)
EXTENDS NvramStorePowerLoss

CONSTANTS empty, l1  \* the lists

MCContents == {empty, l1}

TwoSections == {"A", "B"}
===============================================================================
