---------------------------- MODULE MCBufferList ----------------------------
(* Two lists over a heap of three raws and four ptr_nodes.  The sizes are *)
(* scaled so that one refill buffer holds three bytes, a page is two       *)
(* bytes and rebuild_aligned aligns to the page.                           *)
EXTENDS BufferList

CONSTANTS L1, L2, r1, r2, n1, n2, n3, n4

MCLists == {L1, L2}
MCOneList == {L1}
MCRaws == {r1, r2}
MCNodeIds == {n1, n2, n3}
MCNodeIds4 == {n1, n2, n3, n4}
MCData == {<<1>>, <<1, 1>>}
MCSeeds == {0}

Symm == {p @@ q @@ s : p \in Permutations(MCRaws), q \in Permutations(MCNodeIds),
                       s \in Permutations(MCLists)}
(* Of an appender, what a guard, an invariant or a later step of the     *)
(* structural run reads: of the ghost content only its length (the bound   *)
(* on what is appended), not the base and out-of-band count that only     *)
(* feed get_logical_offset; of a page_aligned_appender whose _pos is null  *)
(* only the raw its _buffer still holds (the next append replaces the     *)
(* whole ptr, the destructor only releases it).                            *)
AppShape ==
  IF app = NoApp THEN app
  ELSE IF app.kind = "contig"
  THEN <<app.l, app.tn, app.data, app.pos, app.deep, app.res, Len(app.want)>>
  ELSE <<app.l, app.braw, app.open,
         IF app.open THEN <<app.boff, app.pos>> ELSE <<>>, Len(app.want)>>

(* The structural run tells states apart by everything but the bytes in   *)
(* the raws: no guard of a structural operation reads them, and none of    *)
(* its invariants does, so two states that differ only in bytes have the  *)
(* same futures up to bytes.                                               *)
StructView == <<[r \in DOMAIN raw |-> <<raw[r].live, raw[r].cap, raw[r].base, raw[r].nref, raw[r].crc>>],
                node, bl, fault, hole, AppShape>>
=============================================================================
