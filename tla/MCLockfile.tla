------------------------------ MODULE MCLockfile ------------------------------
(* A small instance of Lockfile for TLC: three invocations, as many        *)
(* inodes.                                                                 *)
EXTENDS Lockfile

CONSTANTS p1, p2, p3, i1, i2, i3

ThreeProcs == {p1, p2, p3}

ThreeInodes == {i1, i2, i3}
===============================================================================
