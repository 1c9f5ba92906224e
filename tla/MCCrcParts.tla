----------------------------- MODULE MCCrcParts -----------------------------
(* The crc run: two parts that start from the empty heap and never mix.   *)
(* In "crc" the byte writes, splices and crc32c walks of CrcNext run; in   *)
(* "appenders" lists are shaped and then appended to through a            *)
(* contiguous_appender or a page_aligned_appender, with crc32c walks in    *)
(* between.  Keeping them apart adds the two state spaces instead of       *)
(* multiplying them: the appenders write only past every node's end, so   *)
(* what they share with copy_in and zero is the crc cache, which both      *)
(* parts exercise.  A third part, "buffers_t", runs the intrusive node   *)
(* list the lists are built on (BuffersT) at the level of its pointers,   *)
(* with two buffers_t objects and three ptr_nodes of its own: enough for  *)
(* a one-node list spliced, swapped or moved onto another, a node erased  *)
(* after the root, the middle or the tail, and a clone that reuses the   *)
(* target's own ids.  A fourth, "utime", runs the utime_t arithmetic the *)
(* tests time their runs with (UTime), on two objects with a second of    *)
(* three nanoseconds and a uint32 of three bits: sums that carry, sums    *)
(* at the largest time, and differences that borrow or go below zero.    *)
EXTENDS MCBufferList, FiniteSets

CONSTANTS Objs, PNodes, UObjs, NS, U32Bits, Sat

VARIABLES part, hnext, htail, hborn, hheld, ut, uns

Bt == INSTANCE BuffersT WITH Conts <- Objs, Nodes <- PNodes, Null <- NoNode,
                             next <- hnext, tail <- htail, born <- hborn, held <- hheld

btVars == <<hnext, htail, hborn, hheld>>

Ut == INSTANCE UTime WITH Objs <- UObjs, t <- ut, ns <- uns

utVars == <<ut, uns>>

(* The crc part keeps to three live ptr_nodes, as the structural runs do, *)
(* and so do the steps of the appenders part taken with no appender live;  *)
(* an appender may use a fourth, which an out-of-band append needs (the    *)
(* pushed copy and the ptr_node that re-takes the tail space).            *)
CrcPartNodes == 3

CrcPartBound == Cardinality({n \in NodeIds : node'[n].live}) <= CrcPartNodes

PartInit == Init /\ Bt!Init /\ Ut!Init /\ part \in {"crc", "appenders", "buffers_t", "utime"}

PartNext == \/ part = "crc" /\ CrcNext /\ CrcPartBound /\ UNCHANGED <<part, btVars, utVars>>
            \/ part = "appenders" /\ AppenderContentNext
               /\ (app = NoApp => CrcPartBound) /\ UNCHANGED <<part, btVars, utVars>>
            \/ part = "buffers_t" /\ Bt!Next /\ UNCHANGED <<vars, part, utVars>>
            \/ part = "utime" /\ Ut!Next /\ UNCHANGED <<vars, part, btVars>>

PartSpec == PartInit /\ [][PartNext]_<<vars, part, btVars, utVars>>

(* The node list's calls change its node sequences as the calls of a     *)
(* singly linked list do; stated and explained in BuffersT.               *)
RefinesSeqLists == Bt!RefinesSeqLists

(* utime_t's +, +=, - and -= give their operands' sum, saturated, or     *)
(* difference, modulo 2^32 seconds; stated and explained in UTime.        *)
ArithmeticExact == Ut!ArithmeticExact

(* utime_t's comparisons agree with to_nsec() on times below a whole     *)
(* second of tv_nsec; stated and explained in UTime.                      *)
OrderExact == Ut!OrderExact
=============================================================================
