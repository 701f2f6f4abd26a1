----------------------------- MODULE MCNvramArgs -----------------------------
(* A small instance of NvramArgs for TLC: the options, a plain key and one *)
(* with the system prefix, each of which can also be a value, and any      *)
(* sequence of at most MaxArgs of them.                                    *)
EXTENDS NvramArgs

Plain == "key"

Prefixed == "SYS_key"

Strings == Options \cup {Plain, Prefixed}

PrefixedStrings == {Prefixed}
===============================================================================
