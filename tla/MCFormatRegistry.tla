------------------------- MODULE MCFormatRegistry -------------------------
(* Two formats, a schema of each.                                          *)
EXTENDS FormatRegistry
MCSchemas == {"s1", "s2"}
MCName == [s \in MCSchemas |-> IF s = "s2" THEN "hex" ELSE "semver"]
===========================================================================
