--------------------------- MODULE MCListCompare ----------------------------
(* Lists of up to three nodes of up to two 2-bit chars, three bytes in all; *)
(* byte 2 has the sign bit set.                                            *)
EXTENDS ListCompare
================================================================================
