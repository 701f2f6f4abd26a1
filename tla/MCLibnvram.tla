------------------------------- MODULE MCLibnvram -------------------------------
(* An instance of LibnvramList, LibnvramFormat and Printing for TLC: three *)
(* keys, one a prefix of another and no string; values that are strings,   *)
(* bytes that are none, and a number in bytes that ends with a NUL.        *)
EXTENDS Printing

MCKeys == {<<65, 0>>, <<65>>, <<66, 67, 0>>}

MCValues == {<<0>>, <<65, 0>>, <<171>>, <<1, 0, 0, 0>>}
===============================================================================
