---------------------------- MODULE MCInterfaceEfi ----------------------------
(* A small instance of InterfaceEfi for TLC. *)
EXTENDS InterfaceEfi

Lists == {<<>>, <<"a">>, <<"b", "a">>}
===============================================================================
