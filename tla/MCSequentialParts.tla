--------------------------- MODULE MCSequentialParts -------------------------
(***************************************************************************)
(* The single-threaded parts that share no state with each other, checked *)
(* in one model: the list iterator (ListIterator), the list comparisons   *)
(* (ListCompare), the base64 codec over lists (ListCodec) and compact_set  *)
(* (CompactSet).  A behaviour is a run of one of them, chosen in Init, the *)
(* others standing at their initial state, so each part runs exactly as   *)
(* in its own module.                                                     *)
(*                                                                         *)
(* Iterator: lists of up to three nodes of up to two bytes, two byte       *)
(* values so that a read from a wrong offset shows.  Comparison: lists of  *)
(* up to three nodes of up to two 2-bit chars, three bytes in all; byte 2  *)
(* has the sign bit set.  Codec: lists of at most four bytes (a full group *)
(* and a group of one) in up to two nodes, over bytes whose bits differ in *)
(* every position the codec shifts and masks; texts of up to five chars    *)
(* over a valid char, the pad, the newline and an invalid char.  Compact  *)
(* set: two containers, two elements, two addresses for inner sets (one  *)
(* per container, so a freed address is either reused or the other free *)
(* one taken), two iterator variables.                                    *)
(***************************************************************************)
EXTENDS Integers, TLC

CONSTANTS Bytes, CharBits, CharSigned, MaxNodes, MaxNodeLen, MaxTotal,
          End, MaxRelOff, SrcBytes, TextChars, MaxSrc, MaxText,
          Conts, Elems, Bufs, Iters, Null, SetEnd

VARIABLES nodes, it, last, a, b, op, res, x, y, z, pc, encRes, decRes,
          born, mset, heap, iter, seen, fault, part

MCOffs == 0..3
MCSrcs == {<<2>>, <<1, 2>>}

Itr == INSTANCE ListIterator WITH Offs <- MCOffs, Srcs <- MCSrcs
Cmp == INSTANCE ListCompare
Cod == INSTANCE ListCodec
Cs == INSTANCE CompactSet WITH End <- SetEnd

itrVars == <<nodes, it, last>>
cmpVars == <<a, b, op, res>>
codVars == <<x, y, z, pc, encRes, decRes>>
csVars == <<born, mset, heap, iter, seen, fault>>
vars == <<itrVars, cmpVars, codVars, csVars, part>>

ItrIdle == nodes = <<>> /\ it = [node |-> End, r |-> 0, a |-> 0] /\ last = Itr!NoRecord
CmpIdle == a = <<>> /\ b = <<>> /\ op = "none" /\ res = "none"
CodIdle == x = <<>> /\ y = <<>> /\ z = <<>> /\ pc = "done"
           /\ encRes = "none" /\ decRes = "none"

Init == /\ Cs!Init
        /\ \/ part = "iterator" /\ Itr!Init /\ CmpIdle /\ CodIdle
           \/ part = "compare" /\ Cmp!Init /\ ItrIdle /\ CodIdle
           \/ part = "codec" /\ Cod!Init /\ ItrIdle /\ CmpIdle
           \/ part = "compact_set" /\ ItrIdle /\ CmpIdle /\ CodIdle

(* Once both codec calls have returned the caller is done. *)
CodecDone == pc = "done" /\ UNCHANGED vars

Next == \/ part = "iterator" /\ Itr!Next /\ UNCHANGED <<cmpVars, codVars, csVars, part>>
        \/ part = "compare" /\ Cmp!Next /\ UNCHANGED <<itrVars, codVars, csVars, part>>
        \/ part = "codec" /\ (Cod!Next \/ CodecDone)
           /\ UNCHANGED <<itrVars, cmpVars, csVars, part>>
        \/ part = "compact_set" /\ Cs!Next
           /\ UNCHANGED <<itrVars, cmpVars, codVars, part>>

Spec == Init /\ [][Next]_vars

(* The properties of the four parts, each stated and explained in its    *)
(* module.                                                                 *)
IteratorTypeOK == Itr!TypeOK
OffsetTracksPosition == Itr!OffsetTracksPosition
ReadsCorrect == Itr!ReadsCorrect
WritesExact == Itr!WritesExact
ListComparisonsCorrect == Cmp!ListComparisonsCorrect
EncodeIsBase64 == Cod!EncodeIsBase64
DecodeInvertsEncode == Cod!DecodeInvertsEncode
BuffersSuffice == Cod!BuffersSuffice
InnerSetsExact == Cs!InnerSetsExact
RefinesStdSet == Cs!RefinesStdSet

(* The addresses of inner sets are interchangeable. *)
Symm == Permutations(Bufs)
================================================================================
