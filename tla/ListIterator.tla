---------------------------- MODULE ListIterator ----------------------------
(***************************************************************************)
(* buffer::list::iterator_impl and buffer::list::iterator                  *)
(* (src/common/buffer/buffer_list.cc:55-331).                              *)
(*                                                                         *)
(* The iterator holds m_list_it (a node of the list, or the list's end),  *)
(* m_r_off (the offset inside that node) and m_a_off (the absolute         *)
(* offset).  The list it walks is a sequence of node contents; the list   *)
(* may grow behind the iterator by the appends that leave iterators of an *)
(* intrusive list valid (append into the last node, push_back of a new    *)
(* node, reserve of an empty node), and the iterator writes through        *)
(* copy_in.  Each iterator member function is one atomic action; its      *)
(* loops are RECURSIVE operators.  An action that throws end_of_buffer     *)
(* keeps the state changes the code made before the throw.                 *)
(***************************************************************************)
EXTENDS Integers, Sequences, SequencesExt

CONSTANTS
  Bytes,        \* the byte values a node may hold
  End,          \* m_list->end(): the list's root hook, not a node
  MaxNodes,     \* bound on the number of nodes
  MaxNodeLen,   \* bound on the length of one node
  Offs,         \* offsets and lengths passed to the iterator
  Srcs,         \* source buffers of copy_in
  MaxRelOff     \* bound on m_r_off, which grows at end by every failed +=

ASSUME /\ End \notin Nat
       /\ MaxNodes \in Nat \ {0} /\ MaxNodeLen \in Nat \ {0}
       /\ Offs \subseteq Nat /\ Srcs \subseteq Seq(Bytes)

VARIABLES
  nodes,   \* the list's nodes, each the bytes it views
  it,      \* [node |-> m_list_it, r |-> m_r_off, a |-> m_a_off]
  last     \* what the last iterator call did (see Record below)

vars == <<nodes, it, last>>

Results == {"none", "ok", "eob", "abort"}

MinOf(x, y) == IF x < y THEN x ELSE y

Content == FlattenSeq(nodes)
TotalLen == Len(Content)

(* list_iter_t's ++ over the intrusive list: the last node's next is end *)
Succ(i) == IF i = Len(nodes) THEN End ELSE i + 1

(* m_list->begin() *)
Begin == IF nodes = <<>> THEN End ELSE 1

NodeLen(i) == Len(nodes[i])

(* Bytes of the list before node i *)
Prefix(i) == Len(FlattenSeq(SubSeq(nodes, 1, i - 1)))

(***************************************************************************)
(* operator+=(off): the skip loop, then the end check.  Returns the new   *)
(* iterator and whether end_of_buffer was thrown.                          *)
(***************************************************************************)
RECURSIVE Walk(_, _)
Walk(i, r) ==
  IF i # End /\ r >= NodeLen(i) THEN Walk(Succ(i), r - NodeLen(i))
  ELSE <<i, r>>

(* Mutant: m_a_off advanced before the end check, also when it throws *)
PlusEqAdvanceBeforeThrow(p, off) ==
  LET q == Walk(p.node, p.r + off)
  IN  [it |-> [node |-> q[1], r |-> q[2], a |-> p.a + off],
       eob |-> q[1] = End /\ q[2] # 0]

PlusEq(p, off) ==
  LET q == Walk(p.node, p.r + off)
  IN  IF q[1] = End /\ q[2] # 0
      THEN [it |-> [node |-> End, r |-> q[2], a |-> p.a], eob |-> TRUE]
      ELSE [it |-> [node |-> q[1], r |-> q[2], a |-> p.a + off], eob |-> FALSE]

(* seek(off): back to begin(), then += off *)
Seek(off) == PlusEq([node |-> Begin, r |-> 0, a |-> 0], off)

(* The "if (m_list_it == m_list->end()) seek(m_a_off)" that starts the    *)
(* copy loops: an exhausted iterator picks up bytes appended since.       *)
Reseek(p) == IF p.node = End THEN Seek(p.a).it ELSE p

(* One turn's length in the copy loops: the rest of the node, at most len *)
Chunk(p, len) == MinOf(NodeLen(p.node) - p.r, len)

ChunkBytes(p, n) == SubSeq(nodes[p.node], p.r + 1, p.r + n)

(* copy(len, dest) for char, list and std::string dests: the loop      *)
(* after the reseek.  Returns the iterator, the bytes copied and whether *)
(* end_of_buffer was thrown.                                              *)
RECURSIVE CopyLoop(_, _, _)
CopyLoop(p, len, out) ==
  IF len = 0 THEN [it |-> p, out |-> out, eob |-> FALSE]
  ELSE IF p.node = End THEN [it |-> p, out |-> out, eob |-> TRUE]
  ELSE LET n == Chunk(p, len)
       IN  CopyLoop(PlusEq(p, n).it, len - n, out \o ChunkBytes(p, n))

(* Mutant: the copy loop without the reseek of an exhausted iterator *)
CopyNoReseek(p, len) == CopyLoop(p, len, <<>>)

Copy(p, len) == CopyLoop(Reseek(p), len, <<>>)

(* copy_all(list&): copy every byte left *)
RECURSIVE CopyAllLoop(_, _)
CopyAllLoop(p, out) ==
  IF p.node = End THEN [it |-> p, out |-> out, eob |-> FALSE]
  ELSE LET n == NodeLen(p.node) - p.r
       IN  CopyAllLoop(PlusEq(p, n).it, out \o ChunkBytes(p, n))

CopyAll(p) == CopyAllLoop(Reseek(p), <<>>)

(* copy_shallow(len, ptr&): share the node when it holds len bytes, else *)
(* copy into a fresh buffer; copy_deep(len, ptr&) always copies.  Both    *)
(* throw at end without reseeking.                                        *)
CopyShallow(p, len) ==
  IF len = 0 THEN [it |-> p, out |-> <<>>, eob |-> FALSE]
  ELSE IF p.node = End THEN [it |-> p, out |-> <<>>, eob |-> TRUE]
  ELSE IF NodeLen(p.node) - p.r < len THEN Copy(p, len)
  ELSE [it |-> PlusEq(p, len).it, out |-> ChunkBytes(p, len), eob |-> FALSE]

CopyDeep(p, len) ==
  IF len = 0 THEN [it |-> p, out |-> <<>>, eob |-> FALSE]
  ELSE IF p.node = End THEN [it |-> p, out |-> <<>>, eob |-> TRUE]
  ELSE Copy(p, len)

(* get_ptr_and_advance(max, &p): the contiguous run at the position, up  *)
(* to max bytes, then a step to the next node only when this one is used *)
(* up (no skipping of the nodes after it).                                *)
(* Mutant: m_r_off and the node advance, m_a_off is forgotten *)
GetPtrAndAdvanceNoAOff(p, max) ==
  LET q == Reseek(p)
      rst == Chunk(q, max)
  IN  IF q.node = End THEN [it |-> q, out |-> <<>>, eob |-> FALSE]
      ELSE [it |-> IF q.r + rst = NodeLen(q.node)
                   THEN [node |-> Succ(q.node), r |-> 0, a |-> q.a]
                   ELSE [q EXCEPT !.r = q.r + rst],
            out |-> ChunkBytes(q, rst), eob |-> FALSE]

GetPtrAndAdvance(p, max) ==
  LET q == Reseek(p)
      rst == Chunk(q, max)
  IN  IF q.node = End THEN [it |-> q, out |-> <<>>, eob |-> FALSE]
      ELSE [it |-> IF q.r + rst = NodeLen(q.node)
                   THEN [node |-> Succ(q.node), r |-> 0, a |-> q.a + rst]
                   ELSE [q EXCEPT !.r = q.r + rst, !.a = q.a + rst],
            out |-> ChunkBytes(q, rst), eob |-> FALSE]

(* crc32c(length, crc): the bytes fed to spec_crc32c, in order *)
RECURSIVE CrcLoop(_, _, _)
CrcLoop(p, length, out) ==
  IF length = 0 THEN [it |-> p, out |-> out, eob |-> FALSE]
  ELSE LET g == GetPtrAndAdvance(p, length)
       IN  CrcLoop(g.it, length - Len(g.out), out \o g.out)

IterCrc32c(p, length) == CrcLoop(p, MinOf(length, TotalLen - p.a), <<>>)

(***************************************************************************)
(* iterator::copy_in(len, src): write src through ptr::copy_in, node by    *)
(* node.  Returns the new nodes too.                                       *)
(***************************************************************************)
RECURSIVE CopyInLoop(_, _, _, _)
(* Mutant: each node written from its start, m_r_off ignored *)
CopyInLoopFromNodeStart(ns, p, src, done) ==
  IF done = Len(src) THEN [it |-> p, nodes |-> ns, eob |-> FALSE]
  ELSE IF p.node = End THEN [it |-> p, nodes |-> ns, eob |-> TRUE]
  ELSE LET n == Chunk(p, Len(src) - done)
           w == [ns EXCEPT ![p.node] =
                   [k \in 1..Len(@) |-> IF k <= n THEN src[done + k] ELSE @[k]]]
       IN  CopyInLoop(w, PlusEq(p, n).it, src, done + n)

CopyInLoop(ns, p, src, done) ==
  IF done = Len(src) THEN [it |-> p, nodes |-> ns, eob |-> FALSE]
  ELSE IF p.node = End THEN [it |-> p, nodes |-> ns, eob |-> TRUE]
  ELSE LET n == Chunk(p, Len(src) - done)
           w == [ns EXCEPT ![p.node] =
                   [k \in 1..Len(@) |-> IF k > p.r /\ k <= p.r + n
                                       THEN src[done + k - p.r] ELSE @[k]]]
       IN  CopyInLoop(w, PlusEq(p, n).it, src, done + n)

CopyIn(p, src) == CopyInLoop(nodes, Reseek(p), src, 0)

(* iterator::copy_in(len, const list& other): other's nodes in turn, up   *)
(* to len bytes; a shorter other ends the loop without an error.          *)
CopyInList(p, len, src) == CopyIn(p, SubSeq(src, 1, MinOf(len, Len(src))))

(***************************************************************************)
(* The specification.                                                      *)
(***************************************************************************)
NoRecord == [op |-> "none", from |-> 0, want |-> 0, out |-> <<>>,
             res |-> "none", before |-> <<>>]

(* A read that left the list alone: its position, length, bytes, result *)
Read(op, r, want) ==
  /\ it' = r.it
  /\ last' = [op |-> op, from |-> it.a, want |-> want, out |-> r.out,
              res |-> IF r.eob THEN "eob" ELSE "ok", before |-> <<>>]
  /\ UNCHANGED nodes

Init == /\ nodes = <<>>
        /\ it = [node |-> End, r |-> 0, a |-> 0]
        /\ last = NoRecord

(* Once a spec_assert has failed the process is gone. *)
Running == last.res # "abort"

(* list::begin(off) / seek(off) *)
DoSeek == \E off \in Offs :
  LET r == Seek(off)
  IN  /\ Running
      /\ it' = r.it
      /\ last' = [NoRecord EXCEPT !.op = "seek", !.res = IF r.eob THEN "eob" ELSE "ok"]
      /\ UNCHANGED nodes

DoPlusEq == \E off \in Offs :
  LET r == PlusEq(it, off)
  IN  /\ Running
      /\ r.it.r <= MaxRelOff
      /\ it' = r.it
      /\ last' = [NoRecord EXCEPT !.op = "+=", !.res = IF r.eob THEN "eob" ELSE "ok"]
      /\ UNCHANGED nodes

(* operator++ *)
DoInc ==
  /\ Running
  /\ IF it.node = End
     THEN /\ last' = [NoRecord EXCEPT !.op = "++", !.res = "eob"]
          /\ UNCHANGED it
     ELSE LET r == PlusEq(it, 1)
          IN  /\ it' = r.it
              /\ last' = [NoRecord EXCEPT !.op = "++", !.res = IF r.eob THEN "eob" ELSE "ok"]
  /\ UNCHANGED nodes

(* operator star: the node's operator[](m_r_off), whose spec_assert(pos < m_len) aborts *)
DoDeref ==
  /\ Running
  /\ last' = [NoRecord EXCEPT !.op = "*", !.from = it.a, !.want = 1,
                !.out = IF it.node # End /\ it.r < NodeLen(it.node)
                        THEN <<nodes[it.node][it.r + 1]>> ELSE <<>>,
                !.res = CASE it.node = End -> "eob"
                          [] it.r < NodeLen(it.node) -> "ok"
                          [] OTHER -> "abort"]
  /\ UNCHANGED <<nodes, it>>

(* get_current_ptr(): a ptr over the current node from m_r_off to its end *)
DoGetCurrentPtr ==
  /\ Running
  /\ LET out == IF it.node = End THEN <<>>
                ELSE SubSeq(nodes[it.node], it.r + 1, NodeLen(it.node))
     IN  last' = [NoRecord EXCEPT !.op = "get_current_ptr", !.from = it.a,
                    !.want = Len(out), !.out = out,
                    !.res = IF it.node = End THEN "eob" ELSE "ok"]
  /\ UNCHANGED <<nodes, it>>

DoCopy == \E len \in Offs : Running /\ Read("copy", Copy(it, len), len)
DoCopyShallow == \E len \in Offs : Running /\ Read("copy_shallow", CopyShallow(it, len), len)
DoCopyDeep == \E len \in Offs : Running /\ Read("copy_deep", CopyDeep(it, len), len)
DoCopyAll == Running /\ Read("copy_all", CopyAll(it), TotalLen - it.a)
DoGetPtrAndAdvance == \E max \in Offs :
  LET r == GetPtrAndAdvance(it, max)
  IN  Running /\ Read("get_ptr_and_advance", r, Len(r.out))
DoCrc32c == \E len \in Offs :
  Running /\ Read("crc32c", IterCrc32c(it, len), MinOf(len, TotalLen - it.a))

(* A write through the iterator, with the content it overwrote *)
Write(op, r, src) ==
  /\ it' = r.it
  /\ nodes' = r.nodes
  /\ last' = [op |-> op, from |-> it.a, want |-> Len(src), out |-> src,
              res |-> IF r.eob THEN "eob" ELSE "ok", before |-> Content]

DoCopyIn == \E src \in Srcs : Running /\ Write("copy_in", CopyIn(it, src), src)
DoCopyInList == \E len \in Offs, src \in Srcs :
  LET w == SubSeq(src, 1, MinOf(len, Len(src)))
  IN  Running /\ Write("copy_in_list", CopyInList(it, len, src), w)

(***************************************************************************)
(* The list grows behind the iterator.  Appends into the last node keep  *)
(* node boundaries; whether list::append(char) extends the tail node or   *)
(* pushes a new one depends on the room left in the tail's raw, which is *)
(* not modelled here, so both are possible.                               *)
(***************************************************************************)
DoAppendChar == \E b \in Bytes :
  /\ Running
  /\ \/ /\ nodes # <<>> /\ NodeLen(Len(nodes)) < MaxNodeLen
        /\ nodes' = [nodes EXCEPT ![Len(nodes)] = Append(@, b)]
     \/ /\ Len(nodes) < MaxNodes
        /\ nodes' = Append(nodes, <<b>>)
  /\ last' = NoRecord
  /\ UNCHANGED it

(* push_back(const ptr&): empty ptrs are dropped *)
DoPushBack == \E d \in Srcs :
  /\ Running /\ d # <<>> /\ Len(nodes) < MaxNodes /\ Len(d) <= MaxNodeLen
  /\ nodes' = Append(nodes, d)
  /\ last' = NoRecord
  /\ UNCHANGED it

(* reserve(n) with too little room: an empty node becomes the tail *)
DoReserve ==
  /\ Running /\ Len(nodes) < MaxNodes
  /\ nodes' = Append(nodes, <<>>)
  /\ last' = NoRecord
  /\ UNCHANGED it

Halted == ~Running /\ UNCHANGED vars

Next == \/ DoSeek \/ DoPlusEq \/ DoInc \/ DoDeref \/ DoGetCurrentPtr
        \/ DoCopy \/ DoCopyShallow \/ DoCopyDeep \/ DoCopyAll
        \/ DoGetPtrAndAdvance \/ DoCrc32c \/ DoCopyIn \/ DoCopyInList
        \/ DoAppendChar \/ DoPushBack \/ DoReserve \/ Halted

Spec == Init /\ [][Next]_vars

(***************************************************************************)
(* Properties.                                                             *)
(***************************************************************************)

(* The iterator's fields have their types; m_a_off never runs past the   *)
(* list's length.                                                          *)
TypeOK ==
  /\ nodes \in Seq(Seq(Bytes))
  /\ it.node \in (1..Len(nodes)) \cup {End}
  /\ it.r \in Nat
  /\ it.a \in 0..TotalLen
  /\ last.res \in Results

(* m_a_off and (m_list_it, m_r_off) name the same byte: whenever the     *)
(* iterator rests on a node, the absolute offset is the bytes of the     *)
(* nodes before it plus the offset inside it, and that offset is inside  *)
(* the node or at its end.  Every member function that moves the          *)
(* iterator updates the two in its own way (+= in the skip loop,          *)
(* get_ptr_and_advance by hand, seek by replay), and the copy loops trust *)
(* m_a_off when they reseek.                                               *)
OffsetTracksPosition ==
  it.node # End => /\ it.a = Prefix(it.node) + it.r
                   /\ it.r <= NodeLen(it.node)

(* Every read returns exactly the bytes of the list at the iterator's    *)
(* absolute offset: a successful read of want bytes returns the list's   *)
(* bytes [m_a_off, m_a_off + want), and a read that reseeks an exhausted *)
(* iterator (copy, copy_all, crc32c) throws end_of_buffer only when the  *)
(* list really holds fewer bytes.                                          *)
ReadsCorrect ==
  /\ last.res = "ok" /\ last.op \notin {"copy_in", "copy_in_list"} =>
       /\ last.from + last.want <= TotalLen
       /\ last.out = SubSeq(Content, last.from + 1, last.from + last.want)
  /\ last.res = "eob" /\ last.op \in {"copy", "copy_all", "crc32c"} =>
       last.from + last.want > TotalLen

(* iterator::copy_in replaces exactly the bytes [m_a_off, m_a_off + len) *)
(* of the list's content by the source and leaves every other byte as it *)
(* was, across node boundaries.                                            *)
WritesExact ==
  last.res = "ok" /\ last.op \in {"copy_in", "copy_in_list"} =>
    Content = [k \in 1..Len(last.before) |->
                 IF k > last.from /\ k <= last.from + last.want
                 THEN last.out[k - last.from] ELSE last.before[k]]

(* Dereferencing the iterator never trips an assertion: it either reads  *)
(* a byte or, at the end, throws end_of_buffer (spec 4.4: advancing skips *)
(* zero-length nodes; dereferencing past the end raises EndOfBuffer).     *)
DerefDefined == last.res # "abort"

================================================================================
