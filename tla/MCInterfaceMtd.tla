---------------------------- MODULE MCInterfaceMtd ----------------------------
(* A small instance of InterfaceMtd for TLC: two partitions that hold a    *)
(* header and one entry, and a list of two that does not fit.              *)
EXTENDS InterfaceMtd

Lists == {<<>>, <<"a">>, <<"a", "b">>}
===============================================================================
