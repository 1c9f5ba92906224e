---------------------------- MODULE MCRawRefcount ----------------------------
(* Two threads of two ptrs each, on distinct mempool shards, sharing two  *)
(* raws; int of 2 bits and size_t of 4 bits.                               *)
EXTENDS RawRefcount
CONSTANTS t1, t2
MCThreads == {t1, t2}
MCShardOf == [t \in MCThreads |-> IF t = t1 THEN 0 ELSE 1]
================================================================================
