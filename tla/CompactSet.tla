----------------------------- MODULE CompactSet -----------------------------
(***************************************************************************)
(* compact_set_base<T, SET> (src/include/compact_set.h): a std::set held   *)
(* through a unique_ptr m_set that is allocated on the first insert and    *)
(* freed whenever the set becomes empty, so an empty container costs one   *)
(* pointer.                                                                *)
(*                                                                         *)
(* The inner std::set objects live in `heap`, at addresses Bufs; m_set of  *)
(* each container is one of them or Null.  The client holds iterators in   *)
(* slots Iters; an iterator is the pair (_set, _it) of iterator_base, _it  *)
(* being a position (an element or End) in the inner set at address buf,  *)
(* or the value-initialised (singular) iterator when buf = Null.  A call   *)
(* whose behaviour the C++ library leaves undefined (a singular or freed   *)
(* iterator used, an iterator of one tree erased from another, a null      *)
(* _set read) sets `fault` to "ub"; a failed spec_assert sets "abort".     *)
(***************************************************************************)
EXTENDS Integers, FiniteSets

CONSTANTS
  Conts,    \* the compact_set objects of the program
  Elems,    \* element values (integers, ordered by std::less)
  Bufs,     \* addresses an inner std::set can be allocated at
  Iters,    \* iterator variables of the client
  Null,     \* nullptr
  End       \* the end position of an inner set

ASSUME Elems \subseteq Int /\ End \notin Elems /\ Null \notin Conts \cup Bufs

VARIABLES
  born,     \* which containers are constructed (a container is an object  *)
            \* the program constructs and destroys)
  mset,     \* m_set of each container
  heap,     \* the inner sets: [live |-> allocated, elems |-> contents]
  iter,     \* the client's iterators: [set |-> _set, buf |-> tree of _it, pos |-> node]
  seen,     \* what the client's last *it or == returned
  fault

vars == <<born, mset, heap, iter, seen, fault>>

NoIter == [set |-> Null, buf |-> Null, pos |-> End]
DeadBuf == [live |-> FALSE, elems |-> {}]

(* The contents of container c as a std::set *)
Contents(c) == IF mset[c] = Null THEN {} ELSE heap[mset[c]].elems

(* std::set's order: the first element above p, or End *)
Succ(S, p) == LET up == {e \in S : e > p}
              IN  IF up = {} THEN End ELSE CHOOSE e \in up : \A f \in up : e <= f
Pred(S, p) == LET down == {e \in S : p = End \/ e < p}
              IN  CHOOSE e \in down : \A f \in down : f <= e
First(S) == IF S = {} THEN End ELSE CHOOSE e \in S : \A f \in S : e <= f

(* _it designates a node of a live tree (not End, not singular) *)
AtNode(it) == it.buf # Null /\ heap[it.buf].live /\ it.pos \in heap[it.buf].elems
(* _it designates a position of a live tree, End included *)
InTree(it) == it.buf # Null /\ heap[it.buf].live
                /\ (it.pos = End \/ it.pos \in heap[it.buf].elems)

Fail(kind) == /\ fault' = kind /\ UNCHANGED <<born, mset, heap, iter, seen>>

(***************************************************************************)
(* The members.  Each takes the world as a record and returns it.          *)
(***************************************************************************)
World == [mset |-> mset, heap |-> heap]

(* alloc_internal without its test: m_set.reset(new SET) every time *)
AllocInternalNoCheck(w, c, b) ==
  [w EXCEPT !.mset[c] = b, !.heap[b] = [live |-> TRUE, elems |-> {}]]

(* alloc_internal: if (!m_set) m_set.reset(new SET); b is the address new *)
(* returns, any one not in use                                             *)
AllocInternal(w, c, b) ==
  IF w.mset[c] # Null THEN w
  ELSE [w EXCEPT !.mset[c] = b, !.heap[b] = [live |-> TRUE, elems |-> {}]]

(* free_internal: m_set.reset() *)
FreeInternal(w, c) ==
  IF w.mset[c] = Null THEN w
  ELSE [w EXCEPT !.mset[c] = Null, !.heap[w.mset[c]] = DeadBuf]

(* insert(t) and emplace(t): alloc_internal, then m_set->insert *)
InsertElem(w, c, t, b) ==
  LET w1 == AllocInternal(w, c, b)
  IN  [w1 EXCEPT !.heap[w1.mset[c]].elems = @ \cup {t}]

(* erase(const T&): the count erased; frees the inner set once empty *)
EraseKey(w, c, t) ==
  IF w.mset[c] = Null THEN w
  ELSE LET w1 == [w EXCEPT !.heap[w.mset[c]].elems = @ \ {t}]
       IN  IF w1.heap[w1.mset[c]].elems = {} THEN FreeInternal(w1, c) ELSE w1

(* operator=(const compact_set_base&): copy other's inner set, or free *)
Assign(w, c, o, b) ==
  IF w.mset[o] # Null
  THEN LET w1 == AllocInternal(w, c, b)
       IN  [w1 EXCEPT !.heap[w1.mset[c]].elems = w.heap[w.mset[o]].elems]
  ELSE FreeInternal(w, c)

(* swap: m_set.swap(other.m_set) *)
SwapSets(w, c, o) == [w EXCEPT !.mset[c] = w.mset[o], !.mset[o] = w.mset[c]]

(* compact_set_base(const compact_set_base&) *)
CopyConstruct(w, c, o, b) ==
  IF w.mset[o] # Null
  THEN LET w1 == AllocInternal(w, c, b)
       IN  [w1 EXCEPT !.heap[w1.mset[c]].elems = w.heap[w.mset[o]].elems]
  ELSE w

(* ~compact_set_base(): the unique_ptr member frees the inner set *)
Destroy(w, c) == FreeInternal(w, c)

(* Iterator factories.  Without an inner set each returns iterator(this)  *)
(* with a singular _it; otherwise iterator(this, m_set->f(t)), at the     *)
(* position pos that f finds in the elements.                             *)
Elements(w, c) == IF w.mset[c] = Null THEN {} ELSE w.heap[w.mset[c]].elems
MakeIter(w, c, pos) ==
  IF w.mset[c] = Null THEN [set |-> c, buf |-> Null, pos |-> End]
  ELSE [set |-> c, buf |-> w.mset[c], pos |-> pos]

Begin(w, c) == MakeIter(w, c, First(Elements(w, c)))
EndIt(w, c) == MakeIter(w, c, End)
Find(w, c, t) == MakeIter(w, c, IF t \in Elements(w, c) THEN t ELSE End)
LowerBound(w, c, t) == MakeIter(w, c, First({e \in Elements(w, c) : e >= t}))
UpperBound(w, c, t) == MakeIter(w, c, First({e \in Elements(w, c) : e > t}))

(* erase(iterator p) that, unlike erase(const T&), never frees the inner  *)
(* set it empties                                                          *)
EraseAtNoFree(w, c, p) ==
  IF w.mset[c] = Null THEN <<"none", w, [set |-> c, buf |-> Null, pos |-> End]>>
  ELSE IF c # p.set THEN <<"abort", w, p>>
  ELSE IF p.buf # w.mset[c] \/ ~AtNode(p) THEN <<"ub", w, p>>
  ELSE LET b == w.mset[c]
       IN  <<"none", [w EXCEPT !.heap[b].elems = @ \ {p.pos}],
             [set |-> c, buf |-> b, pos |-> Succ(w.heap[b].elems, p.pos)]>>

(* erase(iterator p): <<outcome, world, returned iterator>>.  Erasing a   *)
(* node of another tree, End or a singular _it is undefined.               *)
EraseAt(w, c, p) ==
  IF w.mset[c] = Null THEN <<"none", w, [set |-> c, buf |-> Null, pos |-> End]>>
  ELSE IF c # p.set THEN <<"abort", w, p>>
  ELSE IF p.buf # w.mset[c] \/ ~AtNode(p) THEN <<"ub", w, p>>
  ELSE LET b == w.mset[c]
           w1 == [w EXCEPT !.heap[b].elems = @ \ {p.pos}]
       IN  IF w1.heap[b].elems = {}
           THEN <<"none", FreeInternal(w1, c), [set |-> c, buf |-> Null, pos |-> End]>>
           ELSE <<"none", w1, [set |-> c, buf |-> b, pos |-> Succ(w.heap[b].elems, p.pos)]>>

(* iterator_base::operator==: _set compared first, then, unless the set  *)
(* has no inner set, the _it nodes (a singular _it is a null node).  It   *)
(* reads _set->m_set: a null or destroyed _set is undefined.              *)
IterEqUndefined(p, q) == p.set = q.set /\ (p.set = Null \/ ~born[p.set])
IterEq(p, q) == p.set = q.set /\ (mset[p.set] = Null \/ (p.buf = q.buf /\ p.pos = q.pos))

(***************************************************************************)
(* The client: any sequence of calls on constructed containers and on the *)
(* iterators it holds.  An iterator a call returns is kept in a slot or   *)
(* dropped (Null).                                                         *)
(***************************************************************************)
Init == /\ born = [c \in Conts |-> FALSE]
        /\ mset = [c \in Conts |-> Null]
        /\ heap = [b \in Bufs |-> DeadBuf]
        /\ iter = [i \in Iters |-> NoIter]
        /\ seen = Null
        /\ fault = "none"

FreeBufs == {b \in Bufs : ~heap[b].live}
Keep(i, v) == IF i = Null THEN iter ELSE [iter EXCEPT ![i] = v]

Apply(w) == /\ mset' = w.mset /\ heap' = w.heap

(* a call that may allocate: new SET returns a free address *)
Allocating(c, A(_)) ==
  IF mset[c] # Null THEN A(mset[c]) ELSE \E b \in FreeBufs : A(b)

DoConstruct(c) == /\ fault = "none" /\ ~born[c]
                  /\ born' = [born EXCEPT ![c] = TRUE]
                  /\ UNCHANGED <<mset, heap, iter, seen, fault>>

DoCopyConstruct(c, o) ==
  /\ fault = "none" /\ ~born[c] /\ born[o]
  /\ Allocating(c, LAMBDA b : Apply(CopyConstruct(World, c, o, b)))
  /\ born' = [born EXCEPT ![c] = TRUE]
  /\ UNCHANGED <<iter, seen, fault>>

DoDestroy(c) == /\ fault = "none" /\ born[c]
                /\ Apply(Destroy(World, c))
                /\ born' = [born EXCEPT ![c] = FALSE]
                /\ UNCHANGED <<iter, seen, fault>>

DoInsert(c) ==
  /\ fault = "none" /\ born[c]
  /\ \E t \in Elems, i \in Iters \cup {Null} :
       Allocating(c, LAMBDA b : LET w == InsertElem(World, c, t, b)
                                IN  /\ Apply(w)
                                    /\ iter' = Keep(i, [set |-> c, buf |-> w.mset[c], pos |-> t]))
  /\ UNCHANGED <<born, seen, fault>>

DoEraseKey(c) == /\ fault = "none" /\ born[c]
                 /\ \E t \in Elems : Apply(EraseKey(World, c, t))
                 /\ UNCHANGED <<born, iter, seen, fault>>

DoEraseAt(c) ==
  /\ fault = "none" /\ born[c]
  /\ \E i \in Iters, j \in Iters \cup {Null} :
       LET r == EraseAt(World, c, iter[i])
       IN  IF r[1] # "none" THEN Fail(r[1])
           ELSE /\ Apply(r[2]) /\ iter' = Keep(j, r[3])
                /\ UNCHANGED <<born, seen, fault>>

DoClear(c) == /\ fault = "none" /\ born[c]
              /\ Apply(FreeInternal(World, c))
              /\ UNCHANGED <<born, iter, seen, fault>>

DoSwap(c, o) == /\ fault = "none" /\ born[c] /\ born[o]
                /\ Apply(SwapSets(World, c, o))
                /\ UNCHANGED <<born, iter, seen, fault>>

DoAssign(c, o) == /\ fault = "none" /\ born[c] /\ born[o]
                  /\ Allocating(c, LAMBDA b : Apply(Assign(World, c, o, b)))
                  /\ UNCHANGED <<born, iter, seen, fault>>

(* begin, end, find, lower_bound, upper_bound *)
DoGetIter(c) ==
  /\ fault = "none" /\ born[c]
  /\ \E i \in Iters, t \in Elems :
       \E v \in {Begin(World, c), EndIt(World, c), Find(World, c, t),
                 LowerBound(World, c, t), UpperBound(World, c, t)} :
         iter' = [iter EXCEPT ![i] = v]
  /\ UNCHANGED <<born, mset, heap, seen, fault>>

(* iterator(): _set nullptr, _it singular *)
DoDefaultIter == /\ fault = "none"
                 /\ \E i \in Iters : iter' = [iter EXCEPT ![i] = NoIter]
                 /\ UNCHANGED <<born, mset, heap, seen, fault>>

(* ++it *)
DoInc == /\ fault = "none"
         /\ \E i \in Iters :
              IF ~AtNode(iter[i]) THEN Fail("ub")
              ELSE /\ iter' = [iter EXCEPT ![i].pos = Succ(heap[iter[i].buf].elems, @)]
                   /\ UNCHANGED <<born, mset, heap, seen, fault>>

(* --it: undefined at the first node *)
DoDec == /\ fault = "none"
         /\ \E i \in Iters :
              IF ~InTree(iter[i]) \/ iter[i].pos = First(heap[iter[i].buf].elems)
              THEN Fail("ub")
              ELSE /\ iter' = [iter EXCEPT ![i].pos = Pred(heap[iter[i].buf].elems, @)]
                   /\ UNCHANGED <<born, mset, heap, seen, fault>>

(* *it *)
DoDeref == /\ fault = "none"
           /\ \E i \in Iters :
                IF ~AtNode(iter[i]) THEN Fail("ub")
                ELSE /\ seen' = <<"deref", iter[i].pos>>
                     /\ UNCHANGED <<born, mset, heap, iter, fault>>

(* it == other *)
DoEq == /\ fault = "none"
        /\ \E i, j \in Iters :
             IF IterEqUndefined(iter[i], iter[j]) THEN Fail("ub")
             ELSE /\ seen' = <<"eq", IterEq(iter[i], iter[j])>>
                  /\ UNCHANGED <<born, mset, heap, iter, fault>>

(* After undefined behaviour or an abort the model stops. *)
Halted == fault # "none" /\ UNCHANGED vars

Next == \/ \E c \in Conts :
             \/ DoConstruct(c) \/ DoDestroy(c) \/ DoInsert(c) \/ DoEraseKey(c)
             \/ DoEraseAt(c) \/ DoClear(c) \/ DoGetIter(c)
        \/ \E c, o \in Conts :
             \/ c # o /\ (DoCopyConstruct(c, o) \/ DoSwap(c, o))
             \/ DoAssign(c, o)
        \/ DoDefaultIter \/ DoInc \/ DoDec \/ DoDeref \/ DoEq \/ Halted

Spec == Init /\ [][Next]_vars

(***************************************************************************)
(* Properties.                                                             *)
(***************************************************************************)
(* The unique_ptr discipline and the point of the class, across insert,   *)
(* both erases, clear, swap, assignment, copy construction and            *)
(* destruction: an inner set is allocated exactly while one constructed   *)
(* container points to it and holds at least one element; no inner set is *)
(* leaked, shared or kept empty.                                          *)
InnerSetsExact ==
  \A b \in Bufs :
    heap[b].live <=> \E c \in Conts : /\ mset[c] = b /\ born[c] /\ heap[b].elems # {}
                                      /\ \A o \in Conts \ {c} : mset[o] # b

(* Every call changes the containers' contents as the std::set call does: *)
(* the lazy allocation and the frees on the way to empty never lose, add  *)
(* or move an element.                                                    *)
Abstract == INSTANCE StdSet WITH alive <- born, contents <- [c \in Conts |-> Contents(c)]
RefinesStdSet == Abstract!Spec
====
