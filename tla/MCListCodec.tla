---------------------------- MODULE MCListCodec ----------------------------
(* Lists of at most four bytes (a full group and a group of one) in up to  *)
(* two nodes, over bytes whose bits differ in every position the codec     *)
(* shifts and masks; texts of up to five chars over a valid char, the pad, *)
(* the newline and an invalid char.                                        *)
EXTENDS ListCodec
================================================================================
