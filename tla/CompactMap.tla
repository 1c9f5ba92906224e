----------------------------- MODULE CompactMap -----------------------------
(***************************************************************************)
(* compact_map<Key, T> (src/include/compact_map.h): compact_map_base over  *)
(* std::map, a map held through a unique_ptr m_map that is allocated by   *)
(* the first emplace and freed whenever the map becomes empty.            *)
(*                                                                         *)
(* The inner std::map objects live in `heap` at addresses Bufs, each a     *)
(* finite function from keys to values; m_map of each container is one of *)
(* them or Null.  The client holds iterators in slots Iters: the pair     *)
(* (_map, _it) of iterator_base, _it a position (a key or End) in the map *)
(* at address buf, or singular when buf = Null.  The const members       *)
(* (empty, size, count, ==, *it, it == other) change nothing; they are   *)
(* checked only for undefined behaviour.  A call the C++ library leaves   *)
(* undefined sets `fault` to "ub", a failed spec_assert to "abort"; the   *)
(* model then stops.                                                      *)
(***************************************************************************)
EXTENDS Integers, FiniteSets, Functions, TLC

CONSTANTS
  Conts,    \* the compact_map objects of the program
  Keys,     \* keys (integers, ordered by std::less)
  Vals,     \* mapped values
  Bufs,     \* addresses an inner std::map can be allocated at
  Iters,    \* iterator variables of the client
  Null,     \* nullptr
  End,      \* the end position of an inner map
  Gone      \* the tree of an invalidated iterator

ASSUME Keys \subseteq Int /\ End \notin Keys /\ {Null, Gone} \cap (Conts \cup Bufs) = {}

VARIABLES born, mmap, heap, iter, fault

vars == <<born, mmap, heap, iter, fault>>

NoMap == [k \in {} |-> Null]
DeadBuf == [live |-> FALSE, kv |-> NoMap]
NoIter == [map |-> Null, buf |-> Null, pos |-> End]

(* std::map's order over the keys of a map *)
Least(S) == IF S = {} THEN End ELSE CHOOSE e \in S : \A f \in S : e <= f
Next_(S, p) == Least({e \in S : e > p})
Prev(S, p) == LET down == {e \in S : p = End \/ e < p}
              IN  CHOOSE e \in down : \A f \in down : f <= e
Without(m, k) == Restrict(m, DOMAIN m \ {k})

(* _it designates an element of a live map, or any position of it; an   *)
(* iterator whose node was erased or whose map was freed has buf Gone     *)
AtNode(it) == it.buf \in Bufs /\ it.pos \in DOMAIN heap[it.buf].kv
InMap(it) == it.buf \in Bufs /\ (it.pos = End \/ it.pos \in DOMAIN heap[it.buf].kv)

(***************************************************************************)
(* The members, as functions of the world [mmap, heap].                    *)
(***************************************************************************)
World == [mmap |-> mmap, heap |-> heap]
KV(w, c) == IF w.mmap[c] = Null THEN NoMap ELSE w.heap[w.mmap[c]].kv
Put(w, c, m) == [w EXCEPT !.heap[w.mmap[c]].kv = m]

(* alloc_internal: if (!m_map) m_map.reset(new Map), b the address new    *)
(* returns                                                                 *)
AllocInternal(w, c, b) ==
  IF w.mmap[c] # Null THEN w
  ELSE [w EXCEPT !.mmap[c] = b, !.heap[b] = [live |-> TRUE, kv |-> NoMap]]

(* free_internal with m_map.release() for reset(): the pointer is       *)
(* dropped, the map stays allocated                                       *)
FreeInternalRelease(w, c) == [w EXCEPT !.mmap[c] = Null]

(* free_internal: m_map.reset() *)
FreeInternal(w, c) ==
  IF w.mmap[c] = Null THEN w
  ELSE [w EXCEPT !.mmap[c] = Null, !.heap[w.mmap[c]] = DeadBuf]

(* emplace that, like operator[] =, stores v over a present key *)
EmplaceOverwrite(w, c, k, v, b) ==
  LET w1 == AllocInternal(w, c, b)
  IN  Put(w1, c, (k :> v) @@ KV(w1, c))

(* emplace(k, v): alloc_internal, then m_map->emplace, which keeps the   *)
(* value of a present key                                                 *)
Emplace(w, c, k, v, b) ==
  LET w1 == AllocInternal(w, c, b)
  IN  Put(w1, c, KV(w1, c) @@ (k :> v))

(* erase(const Key&): m_map->erase(k), then free the map once empty *)
EraseKey(w, c, k) ==
  IF w.mmap[c] = Null THEN w
  ELSE LET w1 == Put(w, c, Without(KV(w, c), k))
       IN  IF KV(w1, c) = NoMap THEN FreeInternal(w1, c) ELSE w1

(* operator=(const compact_map_base&) *)
Assign(w, c, o, b) ==
  IF w.mmap[o] # Null THEN Put(AllocInternal(w, c, b), c, KV(w, o))
  ELSE FreeInternal(w, c)

(* compact_map_base(const compact_map_base&) *)
CopyConstruct(w, c, o, b) ==
  IF w.mmap[o] # Null THEN Put(AllocInternal(w, c, b), c, KV(w, o)) ELSE w

(* swap: m_map.swap(other.m_map) *)
SwapMaps(w, c, o) == [w EXCEPT !.mmap[c] = w.mmap[o], !.mmap[o] = w.mmap[c]]

(* erase(iterator p): <<outcome, world, returned iterator>>.  spec_assert *)
(* (this == p._map); m_map->erase(p._it) of End, a singular _it or a node *)
(* of another map is undefined.                                           *)
EraseAt(w, c, p) ==
  IF w.mmap[c] = Null THEN <<"none", w, [map |-> c, buf |-> Null, pos |-> End]>>
  ELSE IF c # p.map THEN <<"abort", w, p>>
  ELSE IF p.buf # w.mmap[c] \/ ~AtNode(p) THEN <<"ub", w, p>>
  ELSE LET w1 == Put(w, c, Without(KV(w, c), p.pos))
       IN  IF KV(w1, c) = NoMap
           THEN <<"none", FreeInternal(w1, c), [map |-> c, buf |-> Null, pos |-> End]>>
           ELSE <<"none", w1, [map |-> c, buf |-> w.mmap[c],
                               pos |-> Next_(DOMAIN KV(w, c), p.pos)]>>

(* begin, end, find, lower_bound, upper_bound and their const overloads:  *)
(* iterator(this) without a map, else iterator(this, m_map->f(k))         *)
MakeIter(w, c, pos) ==
  IF w.mmap[c] = Null THEN [map |-> c, buf |-> Null, pos |-> End]
  ELSE [map |-> c, buf |-> w.mmap[c], pos |-> pos]
Begin(w, c) == MakeIter(w, c, Least(DOMAIN KV(w, c)))
EndIt(w, c) == MakeIter(w, c, End)
Find(w, c, k) == MakeIter(w, c, IF k \in DOMAIN KV(w, c) THEN k ELSE End)
LowerBound(w, c, k) == MakeIter(w, c, Least({e \in DOMAIN KV(w, c) : e >= k}))
UpperBound(w, c, k) == MakeIter(w, c, Least({e \in DOMAIN KV(w, c) : e > k}))

(***************************************************************************)
(* The client: any sequence of calls on constructed containers and on the *)
(* iterators it holds.  An iterator a call returns is kept in a slot or   *)
(* dropped (Null).                                                         *)
(***************************************************************************)
Init == /\ born = [c \in Conts |-> FALSE]
        /\ mmap = [c \in Conts |-> Null]
        /\ heap = [b \in Bufs |-> DeadBuf]
        /\ iter = [i \in Iters |-> NoIter]
        /\ fault = "none"

FreeBufs == {b \in Bufs : ~heap[b].live}

(* A call that leaves the world w invalidates, as std::map does, the     *)
(* iterators to the nodes it erased, those to the nodes K it replaced,   *)
(* and all iterators into a map it freed.                                 *)
Valid(w, it, K) == it.buf \in Bufs => /\ w.heap[it.buf].live
                                      /\ it.pos = End \/ it.pos \in DOMAIN w.heap[it.buf].kv \ K
Refresh(w, K) == [i \in Iters |-> IF Valid(w, iter[i], K) THEN iter[i]
                                  ELSE [iter[i] EXCEPT !.buf = Gone]]
ApplyKeep(w, K, i, v) ==
  /\ mmap' = w.mmap /\ heap' = w.heap
  /\ iter' = IF i = Null THEN Refresh(w, K) ELSE [Refresh(w, K) EXCEPT ![i] = v]
Apply(w) == ApplyKeep(w, {}, Null, Null)
Fail(kind) == fault' = kind /\ UNCHANGED <<born, mmap, heap, iter>>
Ready(c) == fault = "none" /\ born[c]

(* a call that may allocate: new Map returns a free address *)
Allocating(c, A(_)) ==
  IF mmap[c] # Null THEN A(mmap[c]) ELSE \E b \in FreeBufs : A(b)

DoConstruct(c) == /\ fault = "none" /\ ~born[c]
                  /\ born' = [born EXCEPT ![c] = TRUE]
                  /\ UNCHANGED <<mmap, heap, iter, fault>>

DoCopyConstruct(c, o) ==
  /\ fault = "none" /\ ~born[c] /\ born[o]
  /\ Allocating(c, LAMBDA b : Apply(CopyConstruct(World, c, o, b)))
  /\ born' = [born EXCEPT ![c] = TRUE]
  /\ UNCHANGED <<fault>>

(* ~compact_map_base(): the unique_ptr member frees the inner map *)
DoDestroy(c) == /\ Ready(c)
                /\ Apply(FreeInternal(World, c))
                /\ born' = [born EXCEPT ![c] = FALSE]
                /\ UNCHANGED <<fault>>

(* std::pair<iterator, bool> emplace(k, v) *)
DoEmplace(c) ==
  /\ Ready(c)
  /\ \E k \in Keys, v \in Vals, i \in Iters \cup {Null} :
       Allocating(c, LAMBDA b :
         LET w == Emplace(World, c, k, v, b)
         IN  ApplyKeep(w, {}, i, [map |-> c, buf |-> w.mmap[c], pos |-> k]))
  /\ UNCHANGED <<born, fault>>

(* size_t erase(const Key&) *)
DoEraseKey(c) == /\ Ready(c)
                 /\ \E k \in Keys : Apply(EraseKey(World, c, k))
                 /\ UNCHANGED <<born, fault>>

(* iterator erase(iterator p) *)
DoEraseAt(c) ==
  /\ Ready(c)
  /\ \E i \in Iters, j \in Iters \cup {Null} :
       LET r == EraseAt(World, c, iter[i])
       IN  IF r[1] # "none" THEN Fail(r[1])
           ELSE /\ ApplyKeep(r[2], {}, j, r[3])
                /\ UNCHANGED <<born, fault>>

DoClear(c) == /\ Ready(c) /\ Apply(FreeInternal(World, c))
              /\ UNCHANGED <<born, fault>>

DoSwap(c, o) == /\ Ready(c) /\ born[o] /\ Apply(SwapMaps(World, c, o))
                /\ UNCHANGED <<born, fault>>

DoAssign(c, o) == /\ Ready(c) /\ born[o]
                  /\ LET K == IF c # o /\ mmap[o] # Null THEN DOMAIN KV(World, c) ELSE {}
                     IN  Allocating(c, LAMBDA b : ApplyKeep(Assign(World, c, o, b), K, Null, Null))
                  /\ UNCHANGED <<born, fault>>

DoGetIter(c) ==
  /\ Ready(c)
  /\ \E i \in Iters, k \in Keys :
       \E v \in {Begin(World, c), EndIt(World, c), Find(World, c, k),
                 LowerBound(World, c, k), UpperBound(World, c, k)} :
         iter' = [iter EXCEPT ![i] = v]
  /\ UNCHANGED <<born, mmap, heap, fault>>

(* iterator(): _map nullptr, _it singular *)
DoDefaultIter == /\ fault = "none"
                 /\ \E i \in Iters : iter' = [iter EXCEPT ![i] = NoIter]
                 /\ UNCHANGED <<born, mmap, heap, fault>>

(* ++it *)
DoInc == /\ fault = "none"
         /\ \E i \in Iters :
              IF ~AtNode(iter[i]) THEN Fail("ub")
              ELSE /\ iter' = [iter EXCEPT ![i].pos = Next_(DOMAIN heap[iter[i].buf].kv, @)]
                   /\ UNCHANGED <<born, mmap, heap, fault>>

(* --it: undefined at the first element *)
DoDec == /\ fault = "none"
         /\ \E i \in Iters :
              IF ~InMap(iter[i]) \/ iter[i].pos = Least(DOMAIN heap[iter[i].buf].kv)
              THEN Fail("ub")
              ELSE /\ iter' = [iter EXCEPT ![i].pos = Prev(DOMAIN heap[iter[i].buf].kv, @)]
                   /\ UNCHANGED <<born, mmap, heap, fault>>

(* *it and it-> read the element's pair: undefined off an element *)
DoDeref == /\ fault = "none" /\ \E i \in Iters : ~AtNode(iter[i]) /\ Fail("ub")

(* iterator_base::operator==: reads _map->m_map, undefined through a null *)
(* or destroyed _map                                                      *)
DoEq == /\ fault = "none"
        /\ \E i, j \in Iters : /\ iter[i].map = iter[j].map
                               /\ ~(iter[i].map \in Conts /\ born[iter[i].map])
                               /\ Fail("ub")

(* After undefined behaviour or an abort the model stops. *)
Halted == fault # "none" /\ UNCHANGED vars

Next == \/ \E c \in Conts :
             \/ DoConstruct(c) \/ DoDestroy(c) \/ DoEmplace(c) \/ DoEraseKey(c)
             \/ DoEraseAt(c) \/ DoClear(c) \/ DoGetIter(c)
        \/ \E c, o \in Conts : DoCopyConstruct(c, o) \/ DoSwap(c, o) \/ DoAssign(c, o)
        \/ DoDefaultIter \/ DoInc \/ DoDec \/ DoDeref \/ DoEq \/ Halted

Spec == Init /\ [][Next]_vars

(***************************************************************************)
(* Properties.                                                             *)
(***************************************************************************)
(* The unique_ptr discipline and the point of the class, across emplace,  *)
(* both erases, clear, swap, assignment, copy construction and            *)
(* destruction: an inner map is allocated exactly while one constructed   *)
(* container points to it and it holds at least one element.              *)
InnerMapsExact ==
  \A b \in Bufs :
    heap[b].live <=> \E c \in Conts : /\ mmap[c] = b /\ born[c] /\ heap[b].kv # NoMap
                                      /\ \A o \in Conts \ {c} : mmap[o] # b

(* Every call changes the containers' contents as the std::map call does: *)
(* emplace keeps the value of a present key, assignment and copy carry    *)
(* the values over, swap exchanges the maps, and the lazy allocation and  *)
(* the frees on the way to empty never lose, add or move an element.      *)
Abstract == INSTANCE StdMap WITH alive <- born, contents <- [c \in Conts |-> KV(World, c)],
                                 None <- Null
RefinesStdMap == Abstract!Spec
====
