--------------------------- MODULE MCInterfaceFile ---------------------------
(* A small instance of InterfaceFile for TLC: lists of up to two entries.  *)
EXTENDS InterfaceFile

Lists == {<<>>, <<"a">>, <<"a", "b">>}
===============================================================================
