------------------------------ MODULE BuffersT ------------------------------
(***************************************************************************)
(* list::buffers_t (buffer_list.h:25-256), the intrusive singly linked    *)
(* list of ptr_nodes that every buffer::list is built on, at the level of *)
(* its pointers.  A hook is the _root of a buffers_t object (named by the  *)
(* object) or a ptr_node; next is ptr_hook::next of every hook and tail is *)
(* each object's _tail.  The list is circular through _root: the last     *)
(* node's next is &_root, and an empty object has _root.next == _tail ==   *)
(* &_root.  Nodes leave through erase_after to their caller (held), or are *)
(* disposed; a disposed or never created node has next = Null.            *)
(*                                                                         *)
(* Each member function is an operator on the record s of next, tail and  *)
(* held; an action applies one whole call.  Calls keep the callers'       *)
(* contract: erase_after is given a hook whose next is a node (the        *)
(* BUFFER_DEBUG spec_assert), splice_back, operator=(&&) and clone_from    *)
(* another object.  Through INSTANCE SeqLists the model is checked to     *)
(* change the node sequences exactly as the calls promise.                 *)
(***************************************************************************)
EXTENDS Naturals, Sequences, FiniteSets

CONSTANTS Conts,   \* buffers_t objects; each names its own _root hook
          Nodes,   \* ptr_node ids
          Null     \* no hook

VARIABLES next,    \* ptr_hook::next of every _root and ptr_node
          tail,    \* buffers_t::_tail of every object
          born,    \* the objects constructed and not yet destroyed
          held     \* nodes created, or unlinked by erase_after, and in no list

vars == <<next, tail, born, held>>

Hooks == Conts \cup Nodes

S == [next |-> next, tail |-> tail, held |-> held]

Apply(s) == next' = s.next /\ tail' = s.tail /\ held' = s.held

(* The hooks met walking from _root.next until _root comes back; a walk   *)
(* that leaves the nodes or exceeds their number stops there.              *)
RECURSIVE WalkFrom(_, _, _, _)
WalkFrom(s, c, h, k) ==
  IF h = c THEN <<>>
  ELSE IF h \notin Nodes \/ k = 0 THEN <<h>>
  ELSE <<h>> \o WalkFrom(s, c, s.next[h], k - 1)

Elems(s, c) == WalkFrom(s, c, s.next[c], Cardinality(Nodes))

InList(s, c) == {e \in Nodes : \E i \in 1..Len(Elems(s, c)) : Elems(s, c)[i] = e}

(* ptr_node ids not in use *)
FreeNodes(s) == {n \in Nodes : s.next[n] = Null /\ n \notin s.held}

(* buffers_t(): _root(&_root), _tail(&_root) *)
Construct(s, c) == [s EXCEPT !.next[c] = c, !.tail[c] = c]

(* ptr_node::disposer on each node *)
DisposeAll(s, ns) == [s EXCEPT !.next = [h \in Hooks |-> IF h \in ns THEN Null ELSE @[h]]]

(* clear_and_dispose() *)
ClearAndDispose(s, c) ==
  [DisposeAll(s, InList(s, c)) EXCEPT !.next[c] = c, !.tail[c] = c]

(* push_back(item) *)
PushBack(s, c, n) ==
  [s EXCEPT !.next[n] = c, !.next[s.tail[c]] = n, !.tail[c] = n,
            !.held = @ \ {n}]

(* push_front(item) *)
PushFront(s, c, n) ==
  [s EXCEPT !.next[n] = s.next[c], !.next[c] = n,
            !.tail[c] = IF @ = c THEN n ELSE @, !.held = @ \ {n}]

(* erase_after(it): the node after it leaves the list; its own next is  *)
(* left as it was.                                                         *)
EraseAfter(s, c, it) ==
  LET x == s.next[it]
  IN  [s EXCEPT !.next[it] = s.next[x],
                !.next[c] = IF @ = x THEN s.next[x] ELSE @,
                !.tail[c] = IF @ = x THEN it ELSE @,
                !.held = @ \cup {x}]

(* erase_after_and_dispose(it) *)
EraseAfterAndDispose(s, c, it) ==
  LET x == s.next[it]
      s1 == EraseAfter(s, c, it)
  IN  [s1 EXCEPT !.next[x] = Null, !.held = @ \ {x}]

(* insert_after(it, item) *)
InsertAfter(s, c, it, n) ==
  [s EXCEPT !.next[n] = s.next[it], !.next[it] = n,
            !.next[c] = IF it = c THEN n ELSE @,
            !.tail[c] = IF @ = it THEN n ELSE @, !.held = @ \ {n}]

(* splice_back(other) *)
SpliceBack(s, c, o) ==
  IF s.next[o] = o THEN s
  ELSE [s EXCEPT !.next[s.tail[o]] = c, !.next[s.tail[c]] = s.next[o],
                 !.tail[c] = s.tail[o], !.next[o] = o, !.tail[o] = o]

(* Mutant: swap without the final fix of each tail's next to its root *)
SwapNoTailLink(s, c, o) ==
  LET rc == IF s.next[o] = o THEN c ELSE s.next[o]
      ro == IF s.next[c] = c THEN o ELSE s.next[c]
      tc == IF s.tail[o] = o THEN c ELSE s.tail[o]
      to == IF s.tail[c] = c THEN o ELSE s.tail[c]
  IN  [s EXCEPT !.next[c] = rc, !.next[o] = ro, !.tail[c] = tc, !.tail[o] = to]

(* swap(other): the roots and tails change places, an empty side's      *)
(* pointing to its own _root; then each tail's next is set to its root.   *)
SwapLists(s, c, o) ==
  LET rc == IF s.next[o] = o THEN c ELSE s.next[o]
      ro == IF s.next[c] = c THEN o ELSE s.next[c]
      tc == IF s.tail[o] = o THEN c ELSE s.tail[o]
      to == IF s.tail[c] = c THEN o ELSE s.tail[c]
  IN  [s EXCEPT !.next[c] = rc, !.next[o] = ro, !.tail[c] = tc, !.tail[o] = to,
                !.next[tc] = c, !.next[to] = o]

(* operator=(buffers_t&&) *)
MoveAssign(s, c, o) ==
  IF o = c THEN s ELSE SwapLists(ClearAndDispose(s, c), c, o)

(* buffers_t(buffers_t&& other) *)
MoveConstruct(s, c, o) ==
  LET r == IF s.next[o] = o THEN c ELSE s.next[o]
      t == IF s.tail[o] = o THEN c ELSE s.tail[o]
  IN  [s EXCEPT !.next[c] = r, !.tail[c] = t, !.next[o] = o, !.tail[o] = o,
                !.next[t] = c]

(* The loop of clone_from: push_back of a new node per node of other.    *)
(* ptr_node::cloner allocates a node; which free id it gets is immaterial *)
(* (the ids are symmetric).                                                *)
RECURSIVE CloneLoop(_, _, _)
CloneLoop(s, c, xs) ==
  IF xs = <<>> THEN s
  ELSE LET n == CHOOSE m \in FreeNodes(s) : TRUE
       IN  CloneLoop(PushBack([s EXCEPT !.held = @ \cup {n}], c, n), c, Tail(xs))

(* clone_from(other) *)
CloneFrom(s, c, o) == CloneLoop(ClearAndDispose(s, c), c, Elems(s, o))

(* The bound: clone_from runs only when there are ids for every copy. *)
CloneFits(s, c, o) == Len(Elems(s, o)) <= Cardinality(FreeNodes(ClearAndDispose(s, c)))

Init == /\ next = [h \in Hooks |-> Null]
        /\ tail = [c \in Conts |-> Null]
        /\ born = {}
        /\ held = {}

(* The hooks erase_after and insert_after may be given: _root or a node *)
(* of the list.                                                           *)
Positions(c) == {c} \cup InList(S, c)

DoConstruct(c) == c \notin born /\ born' = born \cup {c} /\ Apply(Construct(S, c))
(* ~list(): _buffers.clear_and_dispose(); the object is gone *)
DoDestroy(c) ==
  /\ c \in born /\ born' = born \ {c}
  /\ Apply([ClearAndDispose(S, c) EXCEPT !.next[c] = Null, !.tail[c] = Null])
(* list(list&&) and list(const list&): the member buffers_t is built by  *)
(* its move constructor, or by its default one and clone_from.            *)
DoMoveConstruct(c, o) ==
  c \notin born /\ o \in born /\ born' = born \cup {c} /\ Apply(MoveConstruct(S, c, o))
DoCopyConstruct(c, o) ==
  c \notin born /\ o \in born /\ CloneFits(Construct(S, c), c, o)
  /\ born' = born \cup {c} /\ Apply(CloneFrom(Construct(S, c), c, o))
DoClear(c) == c \in born /\ Apply(ClearAndDispose(S, c)) /\ UNCHANGED born
(* ptr_node::create, and the disposer of a node its owner holds *)
DoCreate(n) == n \in FreeNodes(S) /\ held' = held \cup {n} /\ UNCHANGED <<next, tail, born>>
DoDisposeHeld(n) == n \in held /\ Apply(DisposeAll([S EXCEPT !.held = @ \ {n}], {n}))
                    /\ UNCHANGED born
DoPushBack(c, n) == c \in born /\ n \in held /\ Apply(PushBack(S, c, n)) /\ UNCHANGED born
DoPushFront(c, n) == c \in born /\ n \in held /\ Apply(PushFront(S, c, n)) /\ UNCHANGED born
DoInsertAfter(c, it, n) ==
  c \in born /\ it \in Positions(c) /\ n \in held /\ Apply(InsertAfter(S, c, it, n))
  /\ UNCHANGED born
DoEraseAfter(c, it) ==
  c \in born /\ it \in Positions(c) /\ next[it] # c /\ Apply(EraseAfter(S, c, it))
  /\ UNCHANGED born
DoEraseAfterAndDispose(c, it) ==
  c \in born /\ it \in Positions(c) /\ next[it] # c
  /\ Apply(EraseAfterAndDispose(S, c, it)) /\ UNCHANGED born
DoSpliceBack(c, o) ==
  {c, o} \subseteq born /\ c # o /\ Apply(SpliceBack(S, c, o)) /\ UNCHANGED born
DoSwap(c, o) == {c, o} \subseteq born /\ Apply(SwapLists(S, c, o)) /\ UNCHANGED born
DoMoveAssign(c, o) == {c, o} \subseteq born /\ Apply(MoveAssign(S, c, o)) /\ UNCHANGED born
DoCloneFrom(c, o) ==
  {c, o} \subseteq born /\ c # o /\ CloneFits(S, c, o) /\ Apply(CloneFrom(S, c, o))
  /\ UNCHANGED born

Next ==
  \/ \E c \in Conts :
       \/ DoConstruct(c) \/ DoDestroy(c) \/ DoClear(c)
       \/ \E n \in Nodes : DoPushBack(c, n) \/ DoPushFront(c, n)
       \/ \E it \in Hooks : \/ DoEraseAfter(c, it) \/ DoEraseAfterAndDispose(c, it)
                            \/ \E n \in Nodes : DoInsertAfter(c, it, n)
       \/ \E o \in Conts : \/ DoMoveConstruct(c, o) \/ DoCopyConstruct(c, o)
                           \/ DoSpliceBack(c, o) \/ DoSwap(c, o)
                           \/ DoMoveAssign(c, o) \/ DoCloneFrom(c, o)
  \/ \E n \in Nodes : DoCreate(n) \/ DoDisposeHeld(n)

Spec == Init /\ [][Next]_vars

(* The node sequences the pointers stand for *)
Seqs == [c \in Conts |-> IF c \in born THEN Elems(S, c) ELSE <<>>]

SL == INSTANCE SeqLists WITH seqs <- Seqs

(* Every call changes the node sequences, read by walking next from each  *)
(* _root, as the singly linked list operation of the same name does, and  *)
(* keeps every node in one list, held, or free.  A wrong _tail shows at   *)
(* the next push_back or splice; a root or tail left pointing into the    *)
(* other object after swap, a move or a splice shows as a walk that does  *)
(* not come back to its own _root.                                        *)
RefinesSeqLists == SL!Spec
================================================================================
