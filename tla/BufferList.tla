----------------------------- MODULE BufferList -----------------------------
(***************************************************************************)
(* The zero-copy buffer list of src/common/buffer/buffer_list.cc over the  *)
(* reference-counted raw regions and ptrs of buffer_raw.h/buffer_ptr.cc.   *)
(*                                                                         *)
(* The program is sequential: one operation of one list runs to its end    *)
(* before the next starts, so every list operation is one atomic action.  *)
(* The heap is modelled explicitly, because what can go wrong here is      *)
(* about sharing: several ptr_nodes (of several lists) over one raw, the   *)
(* per-list tail cache (_tail_pnode_cache) that points at a ptr_node, and  *)
(* the per-raw crc cache.                                                  *)
(*                                                                         *)
(*   raw[r]   a buffer::raw: live, capacity m_len, address residue `base`  *)
(*            (its data address modulo PageSize), bytes, nref and the      *)
(*            cached (last_crc_offset, last_crc_val) pair;                 *)
(*   node[n]  a ptr_node: live, the raw it holds, m_off, m_len;            *)
(*   bl[l]    a buffer::list: _buffers as a sequence of node ids, _len,    *)
(*            _num and _tail_pnode_cache (a node id or AlwaysEmpty).       *)
(*                                                                         *)
(* Every operation is an operator from a "world" record to a world, so     *)
(* that the loops of the code become RECURSIVE operators that thread the   *)
(* heap through.  Allocating from an exhausted id pool yields the overflow *)
(* slot NoRaw/NoNode, and a step whose result still uses it is not taken:  *)
(* that is the model's bound on the heap, not a program behaviour.         *)
(* Undefined behaviour of the code (reading the end sentinel as a node,    *)
(* dereferencing a freed ptr_node) sets `fault`; what the program does     *)
(* after it is undefined and the model stops there.                        *)
(***************************************************************************)
EXTENDS Integers, Sequences, FiniteSets, SequencesExt, Bitwise

CONSTANTS
  Lists,        \* the buffer::list objects of the program
  Raws,         \* ids for buffer::raw objects (a bound on live raws)
  NodeIds,      \* ids for ptr_node objects (a bound on live nodes)
  Bytes,        \* byte values a caller writes (0 is the value of fresh memory)
  AlwaysEmpty,  \* buffer_list::always_empty_bptr
  NoRaw, NoNode, NoList, NoCrc,
  Word,         \* sizeof(uint64_t) = sizeof(size_t) = alignof(raw_combined)
  Header,       \* sizeof(raw_combined)
  AllocUnit,    \* SPEC_BUFFER_ALLOC_UNIT
  PageSize,     \* SPEC_PAGE_SIZE
  Align,        \* the alignment passed to rebuild_aligned
  CombinedBases, \* data address residues the allocator gives a raw_combined
  NoHole, NoDigest, NoApp,
  CrcWidth,     \* width of the modelled crc register
  CrcPoly,      \* its polynomial
  Seeds,        \* crc seeds callers pass to crc32c
  Data,         \* byte strings callers append or copy in (a finite set)
  MaxLen        \* bound on the length of every list

ASSUME /\ 0 \notin Bytes /\ Bytes \subseteq 1..3
       /\ PageSize % Align = 0 /\ PageSize % Word = 0
       /\ AllocUnit > Header
       /\ CombinedBases \subseteq {b \in 0..(PageSize - 1) : b % Word = 0}

VARIABLES raw, node, bl, fault,
          hole,    \* the contiguous_filler of the last append_hole not yet filled
          digest,  \* what the step just taken returned, if it was list::crc32c
          app      \* the live contiguous_appender or page_aligned_appender

vars == <<raw, node, bl, fault, hole, digest, app>>

Faults == {"none", "substr_past_end", "splice_past_end",
           "aligned_empty_front", "dangling_tail", "appender_no_raw"}

(* SPEC_BUFFER_APPEND_SIZE (buffer_create.h) *)
AppendSize == AllocUnit - Header

RoundUp(n, d) == IF n % d = 0 THEN n ELSE n + d - (n % d)

(***************************************************************************)
(* Records of the heap.                                                    *)
(***************************************************************************)
DeadRaw == [live |-> FALSE, cap |-> 0, base |-> 0, data |-> <<>>,
            nref |-> 0, crc |-> NoCrc]
DeadNode == [live |-> FALSE, raw |-> NoRaw, off |-> 0, len |-> 0]
EmptyList == [bufs |-> <<>>, len |-> 0, num |-> 0, tail |-> AlwaysEmpty]

(* The state as one record, so that operations can be composed. *)
W == [raw |-> raw, node |-> node, bl |-> bl, fault |-> fault, hole |-> hole,
      app |-> app]

(* The result fits the bound: the overflow slots are unused. *)
InBounds(w) == /\ w.raw[NoRaw] = DeadRaw /\ w.node[NoNode] = DeadNode
               /\ \A l \in Lists : /\ NoNode \notin Range(w.bl[l].bufs)
                                  /\ w.bl[l].tail # NoNode
               /\ \A n \in NodeIds : w.node[n].raw # NoRaw \/ ~w.node[n].live
               /\ \A l \in Lists : w.bl[l].len <= MaxLen
               /\ w.app # NoApp => Len(w.app.want) <= MaxLen

Apply(w) == /\ InBounds(w)
            /\ raw' = w.raw /\ node' = w.node /\ bl' = w.bl /\ fault' = w.fault
            /\ hole' = w.hole /\ app' = w.app

(***************************************************************************)
(* Allocation.  A node id still named by some tail cache is not reused:    *)
(* dereferencing such a dangling cache is the fault "dangling_tail".  The  *)
(* raw under an unfilled hole is not reused either.                        *)
(***************************************************************************)
FreeRawIds(w) == {r \in Raws : ~w.raw[r].live /\ (w.hole = NoHole \/ w.hole.raw # r)}
FreeNodeIds(w) == {n \in NodeIds : ~w.node[n].live /\
                                   \A l \in Lists : w.bl[l].tail # n}
NextRaw(w) == IF FreeRawIds(w) = {} THEN NoRaw
              ELSE CHOOSE r \in FreeRawIds(w) : TRUE
NextNode(w) == IF FreeNodeIds(w) = {} THEN NoNode
               ELSE CHOOSE n \in FreeNodeIds(w) : TRUE

(* Address residues a fresh allocation aligned to `a` can have. *)
BasesFor(a) == {b \in 0..(PageSize - 1) : b % a = 0}

(* len zero bytes, built as a sequence value *)
RECURSIVE Zeros(_)
Zeros(len) == IF len = 0 THEN <<>> ELSE <<0>> \o Zeros(len - 1)

(* A raw of capacity c at residue b, taken by no ptr yet (nref 0):        *)
(* the raw constructors of buffer_raw.h with fresh, indeterminate bytes.   *)
NewRaw(w, r, c, b) ==
  [w EXCEPT !.raw[r] = [live |-> TRUE, cap |-> c, base |-> b,
                      data |-> Zeros(c), nref |-> 0,
                      crc |-> NoCrc]]

(* A ptr_node n over raw r: ptr(const ptr&, off, len) and ptr(raw) both   *)
(* take one reference of r.                                                *)
NodeOver(w, n, r, off, len) ==
  [w EXCEPT !.node[n] = [live |-> TRUE, raw |-> r, off |-> off, len |-> len],
            !.raw[r].nref = @ + 1]

(* ptr::release(): the last reference deletes the raw. *)
DropNode(w, n) ==
  LET r == w.node[n].raw
  IN  [w EXCEPT !.node[n] = DeadNode,
                !.raw[r] = IF @.nref = 1 THEN DeadRaw ELSE [@ EXCEPT !.nref = @ - 1]]

RECURSIVE DropNodes(_, _)
DropNodes(w, s) == IF s = <<>> THEN w ELSE DropNodes(DropNode(w, Head(s)), Tail(s))

(***************************************************************************)
(* Reading the heap.                                                       *)
(***************************************************************************)
NodeBytes(w, n) ==
  LET x == w.node[n] IN SubSeq(w.raw[x.raw].data, x.off + 1, x.off + x.len)

Content(w, l) ==
  FlattenSeq([i \in 1..Len(w.bl[l].bufs) |-> NodeBytes(w, w.bl[l].bufs[i])])

NodeEnd(w, n) == w.node[n].off + w.node[n].len

(* ptr::unused_tail_length() of the tail cache *)
UnusedTail(w, t) ==
  IF t = AlwaysEmpty THEN 0 ELSE w.raw[w.node[t].raw].cap - NodeEnd(w, t)

(* ptr::is_aligned(a): the data address of the node is a multiple of a *)
MemAligned(w, n, a) == (w.raw[w.node[n].raw].base + w.node[n].off) % a = 0

IsBack(w, l, t) == w.bl[l].bufs # <<>> /\ Last(w.bl[l].bufs) = t

WriteBytes(w, r, pos, d) ==
  [w EXCEPT !.raw[r].data =
      LET k == IF Len(d) < Len(@) - pos THEN Len(d) ELSE Len(@) - pos
      IN  SubSeq(@, 1, pos) \o SubSeq(d, 1, k) \o SubSeq(@, pos + k + 1, Len(@))]

(* raw::invalidate_crc() *)
InvalidateCrc(w, r) == [w EXCEPT !.raw[r].crc = NoCrc]

PushBackNode(w, l, n) ==
  [w EXCEPT !.bl[l].bufs = Append(@, n), !.bl[l].num = @ + 1]

SetLen(w, n, len) == [w EXCEPT !.node[n].len = len]

(* Reading _tail_pnode_cache when it names a freed ptr_node. *)
TailDangles(w, l) == w.bl[l].tail # AlwaysEmpty /\ ~w.node[w.bl[l].tail].live

DanglingTail(w) == [w EXCEPT !.fault = "dangling_tail"]

(***************************************************************************)
(* The append paths (buffer_list.cc).                                      *)
(***************************************************************************)

(* _tail_pnode_cache is not the back node: wrap its unused capacity in a  *)
(* new empty ptr_node at its end and make that the tail.                   *)
Resync(w, l) ==
  LET t == w.bl[l].tail
      n == NextNode(w)
  IN  IF IsBack(w, l, t) THEN w
      ELSE [PushBackNode(NodeOver(w, n, w.node[t].raw, NodeEnd(w, t), 0), l, n)
              EXCEPT !.bl[l].tail = n]

(* ptr::append(data, len) on the tail node: copy into its unused tail. *)
AppendToTail(w, l, d) ==
  LET t == w.bl[l].tail
  IN  SetLen(WriteBytes(w, w.node[t].raw, NodeEnd(w, t), d), t, w.node[t].len + Len(d))

(* A fresh raw_combined of capacity c at residue b, wrapped in an empty   *)
(* ptr_node that becomes the back node and the tail.                       *)
NewTail(w, l, c, b) ==
  LET r == NextRaw(w)
      n == NextNode(w)
  IN  [PushBackNode(NodeOver(NewRaw(w, r, c, b), n, r, 0, 0), l, n)
         EXCEPT !.bl[l].tail = n]

(* refill_append_space(len): a page-rounded raw_combined *)
RefillCap(len) == RoundUp(RoundUp(len, Word) + Header, AllocUnit) - Header

(* list::append(const char*, len) *)
AppendData(w, l, d, b) ==
  LET w1 == [w EXCEPT !.bl[l].len = @ + Len(d)]
      first == IF Len(d) < UnusedTail(w, w.bl[l].tail)
               THEN Len(d) ELSE UnusedTail(w, w.bl[l].tail)
      w2 == IF first > 0 THEN AppendToTail(Resync(w1, l), l, SubSeq(d, 1, first))
            ELSE w1
      left == Len(d) - first
  IN  IF TailDangles(w, l) THEN DanglingTail(w)
      ELSE IF left > 0
           THEN AppendToTail(NewTail(w2, l, RefillCap(left), b), l,
                             SubSeq(d, first + 1, Len(d)))
           ELSE w2

(* list::append(char) *)
AppendChar(w, l, c, b) ==
  LET w1 == IF UnusedTail(w, w.bl[l].tail) = 0 THEN NewTail(w, l, AppendSize, b)
            ELSE Resync(w, l)
  IN  IF TailDangles(w, l) THEN DanglingTail(w)
      ELSE [AppendToTail(w1, l, <<c>>) EXCEPT !.bl[l].len = @ + 1]

(* list::append(const ptr&, off, len): extend the back node when the     *)
(* range continues it in the same raw, else add a ptr_node over it.        *)
AppendRange(w, l, r, off, len) ==
  LET bk == Last(w.bl[l].bufs)
      n == NextNode(w)
  IN  IF w.bl[l].bufs # <<>> /\ w.node[bk].raw = r /\ NodeEnd(w, bk) = off
      THEN [SetLen(w, bk, w.node[bk].len + len) EXCEPT !.bl[l].len = @ + len]
      ELSE [PushBackNode(NodeOver(w, n, r, off, len), l, n)
              EXCEPT !.bl[l].len = @ + len]

(* push_back(const ptr&) that also makes the new node the tail cache, *)
(* as push_back(unique_ptr<ptr_node>) does                               *)
PushBackCopyAsTail(w, l, m) ==
  LET n == NextNode(w)
  IN  IF w.node[m].len = 0 THEN w
      ELSE [PushBackNode(NodeOver(w, n, w.node[m].raw, w.node[m].off, w.node[m].len), l, n)
              EXCEPT !.bl[l].len = @ + w.node[m].len, !.bl[l].tail = n]

(* list::push_back(const ptr&): a new ptr_node sharing m's range *)
PushBackCopy(w, l, m) ==
  LET n == NextNode(w)
  IN  IF w.node[m].len = 0 THEN w
      ELSE [PushBackNode(NodeOver(w, n, w.node[m].raw, w.node[m].off, w.node[m].len), l, n)
              EXCEPT !.bl[l].len = @ + w.node[m].len]

(* A ptr over a new raw holding exactly d (buffer::copy, create_static). *)
FreshPtr(w, d, b) ==
  LET r == NextRaw(w)
      n == NextNode(w)
  IN  NodeOver(WriteBytes(NewRaw(w, r, Len(d), b), r, 0, d), n, r, 0, Len(d))

(* list::push_back(ptr&&): the tail cache is reset *)
PushBackMoved(w, l, d, b) ==
  LET n == NextNode(w)
  IN  [PushBackNode(FreshPtr(w, d, b), l, n)
         EXCEPT !.bl[l].len = @ + Len(d), !.bl[l].tail = AlwaysEmpty]

(* list::push_back(unique_ptr<ptr_node>) (static_from_mem): the pushed  *)
(* node becomes the tail cache                                             *)
PushBackUnique(w, l, d, b) ==
  LET n == NextNode(w)
  IN  [PushBackNode(FreshPtr(w, d, b), l, n)
         EXCEPT !.bl[l].len = @ + Len(d), !.bl[l].tail = n]

(***************************************************************************)
(* Whole-list operations (buffer_list.h, buffer_list.cc).                  *)
(***************************************************************************)

(* list::clear(): the tail cache is reset and every ptr_node disposed *)
ClearList(w, l) == [DropNodes(w, w.bl[l].bufs) EXCEPT !.bl[l] = EmptyList]

(* claim_append without other.clear(): both lists keep the nodes *)
ClaimAppendNoClear(w, l, o) ==
  [w EXCEPT !.bl[l].bufs = @ \o w.bl[o].bufs,
            !.bl[l].len = @ + w.bl[o].len, !.bl[l].num = @ + w.bl[o].num]

(* list::claim_append(other): steal other's nodes, then other.clear() *)
ClaimAppend(w, l, o) ==
  [w EXCEPT !.bl[l].bufs = @ \o w.bl[o].bufs,
            !.bl[l].len = @ + w.bl[o].len, !.bl[l].num = @ + w.bl[o].num,
            !.bl[o] = EmptyList]

(* Copies of the nodes of s pushed on l: the loops of append(const list&) *)
(* and buffers_t::clone_from.                                              *)
RECURSIVE PushCopies(_, _, _)
PushCopies(w, l, s) ==
  IF s = <<>> THEN w
  ELSE LET m == Head(s)
           n == NextNode(w)
       IN  PushCopies(PushBackNode(NodeOver(w, n, w.node[m].raw, w.node[m].off,
                                            w.node[m].len), l, n), l, Tail(s))

(* list::append(const list&) *)
AppendList(w, l, o) ==
  [PushCopies(w, l, w.bl[o].bufs)
     EXCEPT !.bl[l].len = @ + w.bl[o].len, !.bl[l].num = w.bl[l].num + w.bl[o].num]

(* list::operator=(const list&): tail reset, clone_from, counters copied *)
CopyAssign(w, l, o) ==
  [PushCopies(ClearList(w, l), l, w.bl[o].bufs)
     EXCEPT !.bl[l].len = w.bl[o].len, !.bl[l].num = w.bl[o].num]

(* list::operator=(list&&): dispose own nodes, take other's nodes, tail   *)
(* cache and counters, then other.clear()                                  *)
MoveAssign(w, l, o) ==
  [DropNodes(w, w.bl[l].bufs) EXCEPT !.bl[l] = w.bl[o], !.bl[o] = EmptyList]

(* list::swap *)
SwapLists(w, l, o) == [w EXCEPT !.bl[l] = w.bl[o], !.bl[o] = w.bl[l]]

(* Skip whole nodes of s (from index i) while off reaches past them, as  *)
(* the first loops of splice and substr_of do: <<index, residual off>>.    *)
RECURSIVE SkipTo(_, _, _, _)
SkipTo(w, s, i, off) ==
  IF off > 0 /\ i <= Len(s) /\ off >= w.node[s[i]].len
  THEN SkipTo(w, s, i + 1, off - w.node[s[i]].len)
  ELSE <<i, off>>


(* The removal loop of list::splice from the node at index i.  Reading   *)
(* past the last node reads the list's root hook as a ptr_node.            *)
RECURSIVE SpliceLoop(_, _, _, _, _, _)
SpliceLoop(w, l, i, off, len, cb) ==
  LET s == w.bl[l].bufs
      c == s[i]
      x == w.node[c]
      wcb(o, n) == IF cb = NoList THEN w ELSE AppendRange(w, cb, x.raw, x.off + o, n)
  IN  IF len = 0 THEN w
      ELSE IF i > Len(s) THEN [w EXCEPT !.fault = "splice_past_end"]
      ELSE IF off + len < x.len
      THEN [wcb(off, len) EXCEPT !.node[c].off = x.off + off + len,
                                 !.node[c].len = x.len - (len + off),
                                 !.bl[l].len = @ - (off + len)]
      ELSE LET w1 == wcb(off, x.len - off)
               w2 == [DropNode(w1, c) EXCEPT !.bl[l].len = @ - x.len,
                                             !.bl[l].num = @ - 1,
                                             !.bl[l].bufs = RemoveAt(@, i)]
           IN  SpliceLoop(w2, l, i, 0, len - (x.len - off), cb)

(* splice whose front bit is inserted without `_len += off` *)
SpliceFrontNoLen(w, l, off, len, cb) ==
  LET s == w.bl[l].bufs
      at == SkipTo(w, s, 1, off)
      c == s[at[1]]
      n == NextNode(w)
      w1 == IF at[2] = 0 THEN w
            ELSE [NodeOver(w, n, w.node[c].raw, w.node[c].off, at[2])
                    EXCEPT !.bl[l].bufs = InsertAt(s, at[1], n), !.bl[l].num = @ + 1]
      i == IF at[2] = 0 THEN at[1] ELSE at[1] + 1
  IN  SpliceLoop([w1 EXCEPT !.bl[l].tail = AlwaysEmpty], l, i, at[2], len, cb)

(* list::splice(off, len, claim_by), for 0 < len and off < length() *)
Splice(w, l, off, len, cb) ==
  LET s == w.bl[l].bufs
      at == SkipTo(w, s, 1, off)
      c == s[at[1]]
      n == NextNode(w)
      w1 == IF at[2] = 0 THEN w
            ELSE [NodeOver(w, n, w.node[c].raw, w.node[c].off, at[2])
                    EXCEPT !.bl[l].bufs = InsertAt(s, at[1], n),
                           !.bl[l].len = @ + at[2], !.bl[l].num = @ + 1]
      i == IF at[2] = 0 THEN at[1] ELSE at[1] + 1
  IN  SpliceLoop([w1 EXCEPT !.bl[l].tail = AlwaysEmpty], l, i, at[2], len, cb)


(* The copy loop of list::substr_of: `while (len >= 0)` on an unsigned    *)
(* len only stops at a partial node, so a range that ends on a node        *)
(* boundary goes on to read the next node, or the root hook past the end.  *)
RECURSIVE SubstrLoop(_, _, _, _, _, _)
SubstrLoop(w, l, s, i, off, len) ==
  LET x == w.node[s[i]]
      n == NextNode(w)
      take(k) == [NodeOver(w, n, x.raw, x.off + off, k)
                    EXCEPT !.bl[l].bufs = Append(@, n),
                           !.bl[l].len = @ + k, !.bl[l].num = @ + 1]
  IN  IF i > Len(s) THEN [w EXCEPT !.fault = "substr_past_end"]
      ELSE IF off + len < x.len THEN take(len)
      ELSE SubstrLoop(take(x.len - off), l, s, i + 1, 0, len - (x.len - off))

(* list::substr_of(other, off, len), for off + len <= other.length() *)
SubstrOf(w, l, o, off, len) ==
  LET s == w.bl[o].bufs
      at == SkipTo(w, s, 1, off)
  IN  IF at[1] > Len(s) THEN [w EXCEPT !.fault = "substr_past_end"]
      ELSE SubstrLoop(ClearList(w, l), l, s, at[1], at[2], len)


(***************************************************************************)
(* Rebuilding into fewer or aligned regions.                               *)
(***************************************************************************)

(* The bytes of the nodes of s, in order. *)
SeqBytes(w, s) == FlattenSeq([i \in 1..Len(s) |-> NodeBytes(w, s[i])])

SeqLen(w, s) == FoldLeft(LAMBDA acc, n : acc + w.node[n].len, 0, s)

(* list::rebuild(nb): copy every node into a new raw of `len` bytes at   *)
(* residue b, dispose the nodes, keep nb if it is not empty and make it   *)
(* the tail.  nb is fresh, so invalidate_crc() leaves nothing to clear.   *)
RebuildInto(w, l, len, b) ==
  LET r == NextRaw(w)
      nb == NextNode(w)
      w1 == NodeOver(WriteBytes(NewRaw(w, r, len, b), r, 0,
                                SeqBytes(w, w.bl[l].bufs)), nb, r, 0, len)
      w2 == DropNodes(w1, w.bl[l].bufs)
  IN  IF len > 0
      THEN [w2 EXCEPT !.bl[l].bufs = <<nb>>, !.bl[l].tail = nb, !.bl[l].num = 1]
      ELSE [DropNode(w2, nb) EXCEPT !.bl[l].bufs = <<>>, !.bl[l].tail = AlwaysEmpty,
                                    !.bl[l].num = 0]

(* list::rebuild(): a page-aligned raw when _len is a multiple of the     *)
(* page, else buffer::create(_len) (a raw_combined at residue b)          *)
Rebuild(w, l, b) ==
  LET len == w.bl[l].len
  IN  IF len = 0
      THEN [DropNodes(w, w.bl[l].bufs)
              EXCEPT !.bl[l].tail = AlwaysEmpty, !.bl[l].bufs = <<>>, !.bl[l].num = 0]
      ELSE RebuildInto(w, l, len, IF len % PageSize = 0 THEN 0 ELSE b)

(* ptr::is_aligned(Align) /\ ptr::is_n_align_sized(Align) *)
AlignedNode(w, n) == MemAligned(w, n, Align) /\ w.node[n].len % Align = 0

(* The do-while loop of rebuild_aligned_size_and_memory: from index j,  *)
(* keep moving nodes into the group while the next node is misaligned or  *)
(* the group length glen is not a multiple of Align.  Returns the index   *)
(* after the group.                                                        *)
RECURSIVE GroupEnd(_, _, _, _)
GroupEnd(w, s, j, glen) ==
  IF j <= Len(s) /\ (~AlignedNode(w, s[j]) \/ glen % Align # 0)
  THEN GroupEnd(w, s, j + 1, glen + w.node[s[j]].len)
  ELSE j

RECURSIVE AlignLoop(_, _, _, _)

(* Mutant: a one-node group is kept without testing that it is aligned  *)
(* in memory, as `if (!unaligned_list.is_contiguous())` would             *)
AlignLoopKeepSingle(w, l, i, b) ==
  LET s == w.bl[l].bufs
      j == GroupEnd(w, s, i + 1, w.node[s[i]].len)
      g == SubSeq(s, i, j - 1)
      glen == SeqLen(w, g)
      w0 == [w EXCEPT !.bl[l].bufs = SubSeq(s, 1, i - 1) \o SubSeq(s, j, Len(s)),
                      !.bl[l].num = @ - Len(g)]
      relink(wx, f, local) ==
        LET n == NextNode(wx)
        IN  DropNodes([NodeOver(wx, n, wx.node[f].raw, wx.node[f].off, wx.node[f].len)
                         EXCEPT !.bl[l].bufs = InsertAt(@, i, n), !.bl[l].num = @ + 1],
                      local)
      r == NextRaw(w0)
      nb == NextNode(w0)
      rebuilt == DropNodes(NodeOver(WriteBytes(NewRaw(w0, r, glen, b), r, 0,
                                               SeqBytes(w, g)), nb, r, 0, glen), g)
  IN  IF i > Len(s) THEN w
      ELSE IF AlignedNode(w, s[i]) THEN AlignLoop(w, l, i + 1, b)
      ELSE IF Len(g) = 1
      THEN AlignLoop(relink(w0, s[i], g), l, i + 1, b)
      ELSE IF glen = 0 THEN [w EXCEPT !.fault = "aligned_empty_front"]
      ELSE AlignLoop(relink(rebuilt, nb, <<nb>>), l, i + 1, b)

(* The outer loop, at index i of _buffers.  A group is relinked into a   *)
(* local list; unless it is one aligned node it is rebuilt into a new raw  *)
(* aligned to Align; a copy of the local list's front node is inserted in  *)
(* its place and the local list is then destroyed with its nodes.  The    *)
(* list's own tail cache is never looked at.  A group of empty nodes       *)
(* rebuilds into an empty local list, whose front() is the root hook.      *)
AlignLoop(w, l, i, b) ==
  LET s == w.bl[l].bufs
      j == GroupEnd(w, s, i + 1, w.node[s[i]].len)
      g == SubSeq(s, i, j - 1)
      glen == SeqLen(w, g)
      w0 == [w EXCEPT !.bl[l].bufs = SubSeq(s, 1, i - 1) \o SubSeq(s, j, Len(s)),
                      !.bl[l].num = @ - Len(g)]
      \* insert a copy of node f at index i, then dispose the local list's nodes
      relink(wx, f, local) ==
        LET n == NextNode(wx)
        IN  DropNodes([NodeOver(wx, n, wx.node[f].raw, wx.node[f].off, wx.node[f].len)
                         EXCEPT !.bl[l].bufs = InsertAt(@, i, n), !.bl[l].num = @ + 1],
                      local)
      r == NextRaw(w0)
      nb == NextNode(w0)
      rebuilt == DropNodes(NodeOver(WriteBytes(NewRaw(w0, r, glen, b), r, 0,
                                               SeqBytes(w, g)), nb, r, 0, glen), g)
  IN  IF i > Len(s) THEN w
      ELSE IF AlignedNode(w, s[i]) THEN AlignLoop(w, l, i + 1, b)
      ELSE IF Len(g) = 1 /\ MemAligned(w, s[i], Align)
      THEN AlignLoop(relink(w0, s[i], g), l, i + 1, b)
      ELSE IF glen = 0 THEN [w EXCEPT !.fault = "aligned_empty_front"]
      ELSE AlignLoop(relink(rebuilt, nb, <<nb>>), l, i + 1, b)

(* list::is_aligned(align): every node's data is aligned in memory *)
ListIsAligned(w, l, a) == \A i \in 1..Len(w.bl[l].bufs) : MemAligned(w, w.bl[l].bufs[i], a)

(* list::rebuild_aligned(Align) = rebuild_aligned_size_and_memory(Align,  *)
(* Align, 0); the new raws come from create_aligned, so b is a multiple   *)
(* of Align                                                                *)
RebuildAligned(w, l, b) == AlignLoop(w, l, 1, b)


(***************************************************************************)
(* Writes through the list.                                                *)
(***************************************************************************)

(* Write d at stream offset off into the nodes of s from index i, whose   *)
(* first byte is at stream offset pos: every node that overlaps the range  *)
(* gets ptr::copy_in / ptr::zero of its part, which invalidates the crc    *)
(* cache of its raw (crc_reset defaults to true).                          *)
(* A write that keeps the cached crc, as copy_in(..., crc_reset = false) *)
PtrCopyInKeepCrc(w, r, pos, d) == WriteBytes(w, r, pos, d)

(* ptr::copy_in / ptr::zero with crc_reset: invalidate, then write *)
PtrCopyIn(w, r, pos, d) == WriteBytes(InvalidateCrc(w, r), r, pos, d)

RECURSIVE WriteAt(_, _, _, _, _, _)
WriteAt(w, s, i, pos, off, d) ==
  IF i > Len(s) THEN w
  ELSE LET x == w.node[s[i]]
           lo == IF off > pos THEN off ELSE pos
           hi == IF off + Len(d) < pos + x.len THEN off + Len(d) ELSE pos + x.len
           w1 == IF lo < hi
                 THEN PtrCopyIn(w, x.raw, x.off + (lo - pos), SubSeq(d, lo - off + 1, hi - off))
                 ELSE w
       IN  WriteAt(w1, s, i + 1, pos + x.len, off, d)

(* list::iterator::copy_in(len, src) from begin(off): the bytes up to the *)
(* end of the list are written, then end_of_buffer is thrown and the       *)
(* partial write stays.  begin(off) itself throws when off > length().     *)
CopyIn(w, l, off, d) == WriteAt(w, w.bl[l].bufs, 1, 0, off, d)

(* list::zero(off, len), for off + len <= length() *)
ZeroRange(w, l, off, len) ==
  WriteAt(w, w.bl[l].bufs, 1, 0, off, Zeros(len))

(* list::zero(): ptr::zero() of every node, which invalidates the crc of *)
(* its raw, an empty node's included, and zeroes the node's bytes         *)
RECURSIVE ZeroNodes(_, _, _)
ZeroNodes(w, s, i) ==
  IF i > Len(s) THEN w
  ELSE LET x == w.node[s[i]]
       IN  ZeroNodes(PtrCopyIn(w, x.raw, x.off, Zeros(x.len)), s, i + 1)

ZeroAll(w, l) == ZeroNodes(w, w.bl[l].bufs, 1)

(* list::invalidate_crc(): raw::invalidate_crc() of every node's raw *)
InvalidateAllCrc(w, l) ==
  LET rs == {w.node[w.bl[l].bufs[i]].raw : i \in 1..Len(w.bl[l].bufs)}
  IN  [w EXCEPT !.raw = [r \in DOMAIN @ |->
                           IF r \in rs THEN [@[r] EXCEPT !.crc = NoCrc] ELSE @[r]]]

(***************************************************************************)
(* The model of crc32c (buffer_list.cc list::crc32c).  The register is     *)
(* CrcWidth bits wide and each byte is 2 bits; the step is the reflected   *)
(* shift-register of a CRC with no final xor, so it has the linearity that *)
(* the cache adjustment relies on.                                         *)
(***************************************************************************)
CrcBit(c, bit) ==
  LET v == (c ^^ bit) IN IF v % 2 = 1 THEN ((v \div 2) ^^ CrcPoly) ELSE v \div 2

CrcByte(c, byte) == CrcBit(CrcBit(c, byte % 2), byte \div 2)

(* spec_crc32c(crc, data, len); data = NULL hashes len zero bytes *)
SpecCrc32c(c, data) == FoldLeft(CrcByte, c, data)

(* An adjustment that forgets the cached seed. *)
CrcAdjustNoSeed(val, cseed, crc, len) == val ^^ SpecCrc32c(crc, Zeros(len))

(* An adjustment that adds where the formula takes an exclusive or. *)
CrcAdjustAdd(val, cseed, crc, len) == val + SpecCrc32c(cseed ^^ crc, Zeros(len))

(* crc32c(buf, crc) from a cached crc32c(buf, cseed) = val:                *)
(* val ^ crc32c(cseed ^ crc, zeros(len))                                   *)
CrcAdjust(val, cseed, crc, len) == val ^^ SpecCrc32c(cseed ^^ crc, Zeros(len))

(* The walk of list::crc32c over the nodes of s: a cached pair for the    *)
(* node's exact (offset, offset + length) range is used directly when its  *)
(* seed matches, adjusted when it does not; otherwise the crc is computed  *)
(* and stored with raw::set_crc.  Returns <<world, crc>>.                  *)
RECURSIVE CrcLoop(_, _, _)
CrcLoop(w, s, crc) ==
  IF s = <<>> THEN <<w, crc>>
  ELSE LET x == w.node[Head(s)]
           cc == w.raw[x.raw].crc
           hit == cc # NoCrc /\ cc.from = x.off /\ cc.to = x.off + x.len
       IN  IF x.len = 0 THEN CrcLoop(w, Tail(s), crc)
           ELSE IF hit /\ cc.seed = crc THEN CrcLoop(w, Tail(s), cc.val)
           ELSE IF hit
           THEN CrcLoop(w, Tail(s), CrcAdjust(cc.val, cc.seed, crc, x.len))
           ELSE LET v == SpecCrc32c(crc, NodeBytes(w, Head(s)))
                IN  CrcLoop([w EXCEPT !.raw[x.raw].crc =
                               [from |-> x.off, to |-> x.off + x.len, seed |-> crc, val |-> v]],
                            Tail(s), v)


(***************************************************************************)
(* Reserved space.                                                         *)
(***************************************************************************)

(* list::append_hole(len): grow the tail node (after a refill or a        *)
(* resync) by len bytes nobody has written and hand out a                  *)
(* contiguous_filler over them.                                            *)
AppendHole(w, l, len, b) ==
  LET w1 == [w EXCEPT !.bl[l].len = @ + len]
      w2 == IF UnusedTail(w, w.bl[l].tail) < len
            THEN NewTail(w1, l, RefillCap(len), b)
            ELSE Resync(w1, l)
      t == w2.bl[l].tail
  IN  IF TailDangles(w, l) THEN DanglingTail(w)
      ELSE [SetLen(w2, t, w2.node[t].len + len)
              EXCEPT !.hole = [raw |-> w2.node[t].raw, at |-> NodeEnd(w2, t), len |-> len]]

(* contiguous_filler::copy_in(len, src): a memcpy through the handed-out  *)
(* pointer; the crc cache of the raw is not invalidated.                   *)
FillHole(w, d) == [WriteBytes(w, w.hole.raw, w.hole.at, d) EXCEPT !.hole = NoHole]

(* list::append_zero(len): append_zeros into the tail, the rest into a    *)
(* refilled node that is zeroed: the same steps as append(data, len) with *)
(* zero bytes.                                                             *)
AppendZero(w, l, len, b) == AppendData(w, l, Zeros(len), b)

(* list::prepend_zero(len): a zeroed buffer::create(len) pushed in front *)
PrependZero(w, l, len, b) ==
  LET n == NextNode(w)
  IN  [FreshPtr(w, Zeros(len), b)
         EXCEPT !.bl[l].bufs = <<n>> \o @, !.bl[l].len = @ + len, !.bl[l].num = @ + 1]

(* list::reserve(size): a page-aligned raw when the tail has less room *)
Reserve(w, l, size) ==
  IF TailDangles(w, l) THEN DanglingTail(w)
  ELSE IF UnusedTail(w, w.bl[l].tail) < size THEN NewTail(w, l, size, 0)
  ELSE w


(***************************************************************************)
(* The appenders (buffer_list.h).  A contiguous_appender keeps raw        *)
(* pointers into the list: the tail ptr_node whose m_len it bumps (tn),    *)
(* the start of its unflushed bytes (data, _space.bptr_data) and its write *)
(* position (pos, _pos), both as offsets in tn's raw; res is what is left  *)
(* of the length the caller reserved, the bound the caller keeps on the    *)
(* bytes it copies in.  A page_aligned_appender owns a ptr _buffer (braw,  *)
(* boff, blen) and a position in it while `open` (_pos != nullptr).  Both  *)
(* carry the ghost `want`: the list's content when the appender was made  *)
(* followed by every byte appended through it.                             *)
(***************************************************************************)

(* Mutant: take a new tail only when the old one is full, as append(char) *)
(* does, not when it has fewer than len bytes free.                        *)
ObtainSpaceWhenFull(w, l, len, b) ==
  LET t == w.bl[l].tail
  IN  IF TailDangles(w, l) THEN DanglingTail(w)
      ELSE IF UnusedTail(w, t) = 0 THEN NewTail(w, l, len, b)
      ELSE IF ~IsBack(w, l, t) /\ t = AlwaysEmpty THEN [w EXCEPT !.fault = "appender_no_raw"]
      ELSE Resync(w, l)

(* list::obtain_contiguous_space(len).  Wrapping always_empty_bptr (a     *)
(* cache with no raw) in a ptr_node fails spec_assert(m_raw) in            *)
(* ptr(const ptr&, off, len).                                              *)
ObtainContiguousSpace(w, l, len, b) ==
  LET t == w.bl[l].tail
  IN  IF TailDangles(w, l) THEN DanglingTail(w)
      ELSE IF UnusedTail(w, t) < len THEN NewTail(w, l, len, b)
      ELSE IF ~IsBack(w, l, t) /\ t = AlwaysEmpty THEN [w EXCEPT !.fault = "appender_no_raw"]
      ELSE Resync(w, l)

(* The reserve_t of the space just obtained, as an appender record *)
SpaceOf(w, l) == LET t == w.bl[l].tail IN [tn |-> t, data |-> NodeEnd(w, t)]

(* list::get_contiguous_appender(len, deep_copy) *)
GetContiguousAppender(w, l, len, deep, b) ==
  LET w1 == ObtainContiguousSpace(w, l, len, b)
      sp == SpaceOf(w1, l)
  IN  IF w1.fault # "none" THEN w1
      ELSE [w1 EXCEPT !.app = [kind |-> "contig", l |-> l, tn |-> sp.tn,
                               data |-> sp.data, pos |-> sp.data, deep |-> deep,
                               oob |-> 0, res |-> len, base |-> w.bl[l].len,
                               want |-> <<>> \o Content(w, l)]]

(* Mutant: the flush bumps the ptr_node's m_len but not the list's _len *)
FlushKeepListLen(w) ==
  LET a == w.app
  IN  [w EXCEPT !.node[a.tn].len = @ + (a.pos - a.data), !.app.data = a.pos]

(* contiguous_appender::flush_and_continue() *)
FlushAndContinue(w) ==
  LET a == w.app
      step == a.pos - a.data
  IN  [w EXCEPT !.node[a.tn].len = @ + step, !.bl[a.l].len = @ + step,
                !.app.data = a.pos]

(* contiguous_appender::append(const char*, len): a memcpy at _pos *)
CaAppendBytes(w, d) ==
  LET a == w.app
  IN  [WriteBytes(w, w.node[a.tn].raw, a.pos, d)
         EXCEPT !.app.pos = @ + Len(d), !.app.res = @ - Len(d),
                !.app.want = @ \o d]

(* The out-of-band branch of append(const ptr&) and append(const list&),  *)
(* after the flush and the list's own append: take the space again with   *)
(* obtain_contiguous_space(0) and count the plen bytes out of band.        *)
CaRetake(w, l, plen, bytes) ==
  LET w1 == ObtainContiguousSpace(w, l, 0, 0)
      sp == SpaceOf(w1, l)
  IN  IF w1.fault # "none" THEN w1
      ELSE [w1 EXCEPT !.app.tn = sp.tn, !.app.data = sp.data,
                      !.app.oob = @ + plen, !.app.want = @ \o bytes]

(* contiguous_appender::append(const ptr& p), p being node m *)
CaAppendPtr(w, m) ==
  LET a == w.app
      plen == w.node[m].len
  IN  IF plen = 0 THEN w
      ELSE IF a.deep THEN CaAppendBytes(w, NodeBytes(w, m))
      ELSE CaRetake(PushBackCopy(FlushAndContinue(w), a.l, m), a.l, plen, NodeBytes(w, m))

(* contiguous_appender::append(const buffer_list& blist), blist being o *)
CaAppendList(w, o) ==
  LET a == w.app
  IN  IF a.deep THEN CaAppendBytes(w, Content(w, o))
      ELSE CaRetake(AppendList(FlushAndContinue(w), a.l, o), a.l, w.bl[o].len, Content(w, o))

(* ~contiguous_appender() *)
CaDestroy(w) == [FlushAndContinue(w) EXCEPT !.app = NoApp]

(* list::get_page_aligned_appender(min_pages) *)
GetPageAlignedAppender(w, l, pages) ==
  [w EXCEPT !.app = [kind |-> "page", l |-> l, minAlloc |-> pages * PageSize,
                     braw |-> NoRaw, boff |-> 0, blen |-> 0, open |-> FALSE,
                     pos |-> 0, end |-> 0, base |-> w.bl[l].len,
                     want |-> <<>> \o Content(w, l)]]

(* ptr::release() of a ptr that is no ptr_node *)
PtrRelease(w, r) ==
  IF r = NoRaw THEN w
  ELSE [w EXCEPT !.raw[r] = IF @.nref = 1 THEN DeadRaw ELSE [@ EXCEPT !.nref = @ - 1]]

(* _buffer = create_page_aligned(alloc): the new raw (page aligned, so at *)
(* residue 0) is made before the old _buffer is released.                  *)
NewPageBuffer(w, alloc) ==
  LET r == NextRaw(w)
      w1 == [NewRaw(w, r, alloc, 0) EXCEPT !.raw[r].nref = 1]
  IN  [PtrRelease(w1, w.app.braw)
         EXCEPT !.app.braw = r, !.app.boff = 0, !.app.blen = alloc,
                !.app.open = TRUE, !.app.pos = 0, !.app.end = alloc]

(* The loop of page_aligned_appender::append(buf, len) *)
RECURSIVE PaAppendLoop(_, _)
PaAppendLoop(w, d) ==
  IF d = <<>> THEN w
  ELSE LET need == RoundUp(Len(d), PageSize)
           w1 == IF w.app.open THEN w
                 ELSE NewPageBuffer(w, IF need < w.app.minAlloc THEN w.app.minAlloc ELSE need)
           a == w1.app
           k == IF Len(d) > a.end - a.pos THEN a.end - a.pos ELSE Len(d)
           w2 == [WriteBytes(w1, a.braw, a.pos, SubSeq(d, 1, k)) EXCEPT !.app.pos = @ + k]
           w3 == IF w2.app.pos = a.end
                 THEN [AppendRange(w2, a.l, a.braw, a.boff, a.blen) EXCEPT !.app.open = FALSE]
                 ELSE w2
       IN  PaAppendLoop(w3, SubSeq(d, k + 1, Len(d)))

PaAppend(w, d) == [PaAppendLoop(w, d) EXCEPT !.app.want = @ \o d]

(* page_aligned_appender::flush(): hand the written part of _buffer to    *)
(* the list and move _buffer's start past it.                              *)
PaFlush(w) ==
  LET a == w.app
      len == a.pos - a.boff
  IN  IF a.open /\ len # 0
      THEN [AppendRange(w, a.l, a.braw, a.boff, len)
              EXCEPT !.app.blen = @ - len, !.app.boff = @ + len]
      ELSE w

(* Mutant: the destructor flushes but leaks _buffer's reference *)
PaDestroyKeepBuffer(w) == [PaFlush(w) EXCEPT !.app = NoApp]

(* ~page_aligned_appender(): flush, then ~ptr of _buffer *)
PaDestroy(w) == LET w1 == PaFlush(w) IN [PtrRelease(w1, w1.app.braw) EXCEPT !.app = NoApp]

(* The appender's bytes not yet in the list. *)
Pending(w) ==
  LET a == w.app
  IN  IF a = NoApp THEN <<>>
      ELSE IF a.kind = "contig" THEN SubSeq(w.raw[w.node[a.tn].raw].data, a.data + 1, a.pos)
      ELSE IF a.open THEN SubSeq(w.raw[a.braw].data, a.boff + 1, a.pos)
      ELSE <<>>


(***************************************************************************)
(* The specification.  Every list starts empty (list::list()); no raw or  *)
(* ptr_node exists yet.                                                    *)
(***************************************************************************)
Init == /\ raw = [r \in Raws \cup {NoRaw} |-> DeadRaw]
        /\ node = [n \in NodeIds \cup {NoNode} |-> DeadNode]
        /\ bl = [l \in Lists |-> EmptyList]
        /\ fault = "none"
        /\ hole = NoHole
        /\ digest = NoDigest
        /\ app = NoApp

LiveNodes == {n \in NodeIds : node[n].live}
Offsets(l) == 0..bl[l].len
Lengths == 1..MaxLen

(* A contiguous_appender holds raw pointers into its list's tail ptr_node *)
(* and _len: the list is not used but through the appender until the      *)
(* appender is destroyed.  A page_aligned_appender holds only its own ptr, *)
(* and its list is used meanwhile (test claim_append_piecewise).           *)
Busy == IF app # NoApp /\ app.kind = "contig" THEN {app.l} ELSE {}

(* Residues of create_aligned(Align) *)
AlignedBases == BasesFor(Align)

Step(w) == /\ fault = "none"
           /\ Apply(w)
           /\ digest' = NoDigest

DoAppendData(l) == \E d \in Data, b \in CombinedBases : Step(AppendData(W, l, d, b))
DoAppendChar(l) == \E c \in Bytes, b \in CombinedBases : Step(AppendChar(W, l, c, b))
DoAppendZero(l) == \E n \in Lengths, b \in CombinedBases : Step(AppendZero(W, l, n, b))

(* list::append(const ptr&, off, len) of a ptr the program holds *)
DoAppendPtr(l) ==
  \E m \in LiveNodes : \E off \in 0..node[m].len : \E n \in 0..(node[m].len - off) :
    Step(AppendRange(W, l, node[m].raw, node[m].off + off, n))

DoPushBackCopy(l) == \E m \in LiveNodes : Step(PushBackCopy(W, l, m))
DoPushBackMoved(l) == \E d \in Data, b \in CombinedBases : Step(PushBackMoved(W, l, d, b))
DoPushBackUnique(l) == \E d \in Data, b \in CombinedBases : Step(PushBackUnique(W, l, d, b))

DoAppendHole(l) ==
  /\ hole = NoHole
  /\ \E n \in Lengths, b \in CombinedBases : Step(AppendHole(W, l, n, b))

DoFillHole ==
  /\ hole # NoHole
  /\ raw[hole.raw].live
  /\ \E d \in Data : Len(d) = hole.len /\ Step(FillHole(W, d))

DoPrependZero(l) == \E n \in Lengths, b \in CombinedBases : Step(PrependZero(W, l, n, b))
DoReserve(l) == \E n \in Lengths : Step(Reserve(W, l, n))
DoClear(l) == Step(ClearList(W, l))

DoAppendList(l, o) == Step(AppendList(W, l, o))
DoClaimAppend(l, o) == Step(ClaimAppend(W, l, o))
DoCopyAssign(l, o) == Step(CopyAssign(W, l, o))
DoMoveAssign(l, o) == Step(MoveAssign(W, l, o))
DoSwap(l, o) == Step(SwapLists(W, l, o))

(* list::splice; off >= length() throws before any change, len = 0 returns *)
DoSplice(l) ==
  \E off \in 0..(bl[l].len - 1), len \in Lengths, cb \in (Lists \ ({l} \cup Busy)) \cup {NoList} :
    Step(Splice(W, l, off, len, cb))

(* list::substr_of; off + len > other.length() throws before any change *)
DoSubstrOf(l, o) ==
  \E off \in Offsets(o) : \E len \in 0..(bl[o].len - off) :
    Step(SubstrOf(W, l, o, off, len))

DoRebuild(l) == \E b \in CombinedBases : Step(Rebuild(W, l, b))
DoRebuildAligned(l) == \E b \in AlignedBases : Step(RebuildAligned(W, l, b))

DoCopyIn(l) == \E off \in Offsets(l), d \in Data : Step(CopyIn(W, l, off, d))

(* list::zero(off, len); spec_assert(off + len <= _len) *)
DoZero(l) ==
  \E off \in Offsets(l) : \E len \in 1..(bl[l].len - off) : Step(ZeroRange(W, l, off, len))

DoZeroAll(l) == Step(ZeroAll(W, l))

DoInvalidateCrc(l) == Step(InvalidateAllCrc(W, l))

(* list::crc32c(seed) *)
DoCrc32c(l) ==
  \E seed \in Seeds :
    LET res == CrcLoop(W, bl[l].bufs, seed)
    IN  /\ fault = "none"
        /\ Apply(res[1])
        /\ digest' = [seed |-> seed, bytes |-> Content(W, l), val |-> res[2]]

AppLens == 0..MaxLen

DoGetContiguousAppender(l) ==
  /\ app = NoApp
  /\ \E len \in AppLens, deep \in BOOLEAN, b \in CombinedBases :
       Step(GetContiguousAppender(W, l, len, deep, b))

(* The caller copies in no more than it reserved.  The ptr it passes is  *)
(* one it holds, not the tail ptr_node the appender is writing behind.    *)
DoCaAppendBytes ==
  /\ app # NoApp /\ app.kind = "contig"
  /\ \E d \in Data : Len(d) <= app.res /\ Step(CaAppendBytes(W, d))

DoCaAppendPtr ==
  /\ app # NoApp /\ app.kind = "contig"
  /\ \E m \in LiveNodes \ {app.tn} :
       (~app.deep \/ node[m].len <= app.res) /\ Step(CaAppendPtr(W, m))

DoCaAppendList ==
  /\ app # NoApp /\ app.kind = "contig"
  /\ \E o \in Lists \ {app.l} :
       (~app.deep \/ bl[o].len <= app.res) /\ Step(CaAppendList(W, o))

DoCaDestroy == app # NoApp /\ app.kind = "contig" /\ Step(CaDestroy(W))

DoGetPageAlignedAppender(l) ==
  /\ app = NoApp
  /\ Step(GetPageAlignedAppender(W, l, 1))

DoPaAppend == app # NoApp /\ app.kind = "page" /\ \E d \in Data : Step(PaAppend(W, d))
DoPaFlush == app # NoApp /\ app.kind = "page" /\ Step(PaFlush(W))
DoPaDestroy == app # NoApp /\ app.kind = "page" /\ Step(PaDestroy(W))

ContiguousAppenderNext ==
  \/ \E l \in Lists : DoGetContiguousAppender(l)
  \/ DoCaAppendBytes \/ DoCaAppendPtr \/ DoCaAppendList \/ DoCaDestroy

PageAlignedAppenderNext ==
  \/ \E l \in Lists : DoGetPageAlignedAppender(l)
  \/ DoPaAppend \/ DoPaFlush \/ DoPaDestroy

(* After undefined behaviour the model stops. *)
Halted == fault # "none" /\ UNCHANGED vars

(* The operations that change the list structure and the ptrs: every   *)
(* operation but the crc walk and the byte writes CopyIn, Zero, FillHole. *)
StructuralNext ==
  \/ \E l \in Lists \ Busy :
       \/ DoAppendData(l) \/ DoAppendChar(l) \/ DoAppendZero(l) \/ DoAppendPtr(l)
       \/ DoPushBackCopy(l) \/ DoPushBackMoved(l) \/ DoPushBackUnique(l)
       \/ DoAppendHole(l) \/ DoPrependZero(l) \/ DoReserve(l) \/ DoClear(l)
       \/ DoSplice(l) \/ DoRebuild(l) \/ DoRebuildAligned(l)
  \/ \E l, o \in Lists : l # o /\ l \notin Busy /\
       \/ DoAppendList(l, o) \/ DoCopyAssign(l, o) \/ DoSubstrOf(l, o)
       \/ o \notin Busy /\ (DoClaimAppend(l, o) \/ DoMoveAssign(l, o) \/ DoSwap(l, o))
  \/ ContiguousAppenderNext
  \/ Halted

(* Every operation but the contiguous_filler write. *)
NextNoFill == StructuralNext \/ \E l \in Lists : DoCrc32c(l) \/ (l \notin Busy /\ (DoCopyIn(l) \/ DoZero(l)))

Next == NextNoFill \/ DoFillHole

(* The operations that read or write bytes, with the ones that create  *)
(* and cut the ranges a crc is cached for.                                *)
CrcNext ==
  \/ \E l \in Lists :
       \/ DoAppendData(l) \/ DoAppendPtr(l) \/ DoPushBackCopy(l) \/ DoAppendHole(l)
       \/ DoSplice(l) \/ DoClear(l) \/ DoCrc32c(l) \/ DoCopyIn(l) \/ DoZero(l)
       \/ DoZeroAll(l) \/ DoInvalidateCrc(l)
  \/ Halted

(* The appenders over lists shaped by the operations that move the tail  *)
(* cache (appends, pushes, splice, clear), and crc32c, which may run at    *)
(* any time.  While an appender lives nothing else changes the list, so    *)
(* its ghost `want` is the content the list must end with.                 *)
AppenderContentNext ==
  \/ \E l \in Lists :
       \/ DoCrc32c(l)
       \/ app = NoApp /\
            \/ DoAppendData(l) \/ DoAppendPtr(l) \/ DoPushBackCopy(l)
            \/ DoSplice(l) \/ DoClear(l)
  \/ ContiguousAppenderNext \/ PageAlignedAppenderNext
  \/ Halted

StructuralSpec == Init /\ [][StructuralNext]_vars
CrcSpec == Init /\ [][CrcNext]_vars
CrcFillSpec == Init /\ [][CrcNext \/ DoFillHole]_vars
Spec == Init /\ [][Next]_vars


(***************************************************************************)
(* Properties.                                                             *)
(***************************************************************************)
CrcVals == 0..(2^CrcWidth - 1)
Hole == [raw : Raws, at : Nat, len : Lengths]
CrcPair == [from : Nat, to : Nat, seed : CrcVals, val : CrcVals]

TypeOK ==
  /\ raw \in [Raws \cup {NoRaw} ->
               [live : BOOLEAN, cap : Nat, base : 0..(PageSize - 1),
                data : Seq({0} \cup Bytes), nref : Nat, crc : CrcPair \cup {NoCrc}]]
  /\ node \in [NodeIds \cup {NoNode} ->
                [live : BOOLEAN, raw : Raws \cup {NoRaw}, off : Nat, len : Nat]]
  /\ bl \in [Lists -> [bufs : Seq(NodeIds), len : 0..MaxLen, num : Nat,
                       tail : NodeIds \cup {AlwaysEmpty}]]
  /\ fault \in Faults
  /\ hole \in Hole \cup {NoHole}
  /\ digest \in [seed : CrcVals, bytes : Seq({0} \cup Bytes), val : CrcVals] \cup {NoDigest}
  /\ app \in {NoApp}
        \cup [kind : {"contig"}, l : Lists, tn : NodeIds \cup {AlwaysEmpty}, data : Nat,
              pos : Nat, deep : BOOLEAN, oob : Nat, res : Nat, base : Nat,
              want : Seq({0} \cup Bytes)]
        \cup [kind : {"page"}, l : Lists, minAlloc : Nat, braw : Raws \cup {NoRaw},
              boff : Nat, blen : Nat, open : BOOLEAN, pos : Nat, end : Nat,
              base : Nat, want : Seq({0} \cup Bytes)]

(* _len and _num are caches of the node list: every operation that adds, *)
(* removes, shortens or splits a ptr_node (splice's front bit and partial  *)
(* tail, claim_append, rebuild_aligned's relinking) keeps them equal to    *)
(* the sum of the node lengths and the node count.                         *)
CountersExact ==
  \A l \in Lists : /\ bl[l].len = SeqLen(W, bl[l].bufs)
                   /\ bl[l].num = Len(bl[l].bufs)

(* The page_aligned_appender's _buffer: a reference to braw. *)
AppenderRefs(r) == IF app # NoApp /\ app.kind = "page" /\ app.braw = r THEN 1 ELSE 0

(* Every ptr_node is owned by exactly one list position, every node in a *)
(* list is live and lies inside its raw, and every raw's nref counts the  *)
(* ptrs over it (the nodes and a page_aligned_appender's _buffer), the    *)
(* raw being deleted exactly when the last one goes.                       *)
OwnershipSound ==
  /\ \A n \in NodeIds : node[n].live <=> \E l \in Lists : n \in Range(bl[l].bufs)
  /\ \A l \in Lists : IsInjective(bl[l].bufs)
  /\ \A l, o \in Lists : l # o => Range(bl[l].bufs) \cap Range(bl[o].bufs) = {}
  /\ \A n \in LiveNodes : raw[node[n].raw].live /\ NodeEnd(W, n) <= raw[node[n].raw].cap
  /\ \A r \in Raws : /\ raw[r].nref = Cardinality({n \in LiveNodes : node[n].raw = r})
                                      + AppenderRefs(r)
                     /\ raw[r].live <=> raw[r].nref > 0

(* The unused capacity after a list's tail cache is that list's alone:    *)
(* no other ptr_node over the raw reaches past the tail's end, and no two  *)
(* lists cache tails over the same raw.  Otherwise an append through the   *)
(* cache would overwrite bytes another ptr already shows.                  *)
AppendSpaceExclusive ==
  \A l \in Lists :
    LET t == bl[l].tail
    IN  t # AlwaysEmpty /\ node[t].live =>
          /\ \A n \in LiveNodes \ {t} : node[n].raw = node[t].raw =>
                NodeEnd(W, n) <= NodeEnd(W, t)
          /\ \A o \in Lists \ {l} : bl[o].tail = AlwaysEmpty \/ bl[o].tail = t \/
                ~node[bl[o].tail].live \/ node[bl[o].tail].raw # node[t].raw

(* The tail cache names always_empty_bptr or a ptr_node of its own list  *)
(* (spec: the tail cache is re-anchored when the tail node is removed).   *)
TailCacheOwned ==
  \A l \in Lists : bl[l].tail = AlwaysEmpty \/ bl[l].tail \in Range(bl[l].bufs)

(* A cached (range, seed, crc) of a raw is the crc of the bytes now in    *)
(* that range (spec: any write within the region invalidates the cache).   *)
CrcCacheSound ==
  \A r \in Raws :
    raw[r].live /\ raw[r].crc # NoCrc =>
      raw[r].crc.val = SpecCrc32c(raw[r].crc.seed,
                                  SubSeq(raw[r].data, raw[r].crc.from + 1, raw[r].crc.to))

(* The result of list::crc32c(seed), with its cache hits and adjusted     *)
(* hits, is the crc of the list's bytes computed from scratch.             *)
DigestCorrect == digest # NoDigest => digest.val = SpecCrc32c(digest.seed, digest.bytes)

(* What an appender promises: at every point of its life the list's      *)
(* content followed by the bytes it has written but not yet handed over    *)
(* (contiguous_appender: between _space.bptr_data and _pos; page_aligned_  *)
(* appender: between _buffer.c_str() and _pos) is the list's content when *)
(* the appender was made followed by every byte appended through it, in   *)
(* order, whatever mix of copied-in bytes, out-of-band ptrs and lists,     *)
(* flushes and page refills; _len counts the handed-over bytes, and       *)
(* contiguous_appender::get_logical_offset() is the number appended.       *)
AppendedExact ==
  app # NoApp =>
    /\ Content(W, app.l) \o Pending(W) = app.want
    /\ bl[app.l].len + Len(Pending(W)) = Len(app.want)
    /\ app.kind = "contig" =>
         app.oob + (app.pos - app.data) = Len(app.want) - app.base

(* rebuild_aligned(Align), from any state a list can be in, leaves every *)
(* node of the list aligned in memory (list::is_aligned(Align)) and       *)
(* changes no list's bytes: a group is kept only when it is one aligned   *)
(* node, and is otherwise copied into a new raw, never into a raw another *)
(* list or node shares.  The one exception is the group of empty nodes,   *)
(* the fault "aligned_empty_front".  (An aligned node that follows a      *)
(* group of odd length is pulled into the group and copied: the do-while *)
(* tests unaligned_list_len % align_size.)                                 *)
RebuildAlignedExact ==
  \A l \in Lists \ Busy, b \in AlignedBases :
    LET w == RebuildAligned(W, l, b)
    IN  fault = "none" /\ w.fault = "none" /\ InBounds(w) =>
          /\ ListIsAligned(w, l, Align)
          /\ \A m \in Lists : Content(w, m) = Content(W, m)

(* The space a contiguous_appender writes into stays its own while the   *)
(* other lists are used: its reserve_t names its list's tail ptr_node,     *)
(* which is the back node and ends where the unflushed bytes start, and    *)
(* the raw behind it has room for all the caller reserved, after every     *)
(* out-of-band append has re-taken the space with                          *)
(* obtain_contiguous_space(0).                                             *)
AppenderSpaceHeld ==
  app # NoApp /\ app.kind = "contig" =>
    LET t == app.tn
    IN  /\ bl[app.l].tail = t /\ IsBack(W, app.l, t)
        /\ app.data = NodeEnd(W, t)
        /\ app.pos + app.res <= raw[node[t].raw].cap

(* substr_of over a range inside the source never reads past its end. *)
SubstrOfDefined == fault # "substr_past_end"

=============================================================================
