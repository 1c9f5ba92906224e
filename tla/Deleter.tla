------------------------------- MODULE Deleter -------------------------------
(***************************************************************************)
(* deleter (include/deleter.h): a move-only handle to a chain of          *)
(* reference-counted impls, each carrying an action (a lambda's del(), a  *)
(* free(), an object's destructor) or a wrapped deleter (obj), and the    *)
(* next deleter of the chain.  A deleter may also hold a raw object: a    *)
(* pointer tagged in its low bit, freed directly, that share() and        *)
(* append() first turn into a free_deleter_impl.  Destroying the last     *)
(* reference to an impl runs its action, then destroys obj, then next.    *)
(*                                                                         *)
(* Holders are the program's deleter variables; every make_* takes a      *)
(* fresh action.  The heap of impls is bounded by Impls: a step that      *)
(* would allocate past it is not taken.  The cascade of destructors and   *)
(* the walk of append() are computed by recursive operators over the     *)
(* whole state, as one step: a deleter is not thread-safe beyond its      *)
(* atomic counter, and one thread runs each call.                         *)
(***************************************************************************)
EXTENDS Naturals, FiniteSets

CONSTANTS Holders,   \* the deleter variables of the program
          Acts,      \* the actions, each encapsulated by one make_* call
          Impls,     \* the addresses impls may be allocated at
          Null,      \* _impl == nullptr
          Dead,      \* an address not allocated
          NoAct      \* of an impl that carries no action of its own

VARIABLES heap,   \* heap[i]: the impl at address i, or Dead
          hold,   \* hold[h]: deleter h's _impl
          ran,    \* ran[a]: how many times action a has been carried out
          made,   \* the actions some make_* call has encapsulated
          uaf     \* whether a destructor touched an impl already freed

vars == <<heap, hold, ran, made, uaf>>

(* An _impl with the low bit set: the object form_raw_object tagged *)
RawVals == [raw : Acts]
DVal == {Null} \cup Impls \cup RawVals
Impl == [refs : Nat \ {0}, next : DVal, act : Acts \cup {NoAct}, obj : DVal]

(* The state as a record, for the recursive operators *)
W == [heap |-> heap, hold |-> hold, ran |-> ran, uaf |-> uaf, oom |-> FALSE]
Store(w) == heap' = w.heap /\ hold' = w.hold /\ ran' = w.ran /\ uaf' = w.uaf

Run(w, a) == [w EXCEPT !.ran[a] = @ + 1]

(* new lambda_deleter_impl / object_deleter_impl / free_deleter_impl:    *)
(* impl(next) starts with refs(1); the address is any one not in use.   *)
NewId(w) == IF \A i \in Impls : w.heap[i] # Dead THEN Null
            ELSE CHOOSE i \in Impls : w.heap[i] = Dead
Alloc(w, i, next, act, obj) ==
  IF i = Null THEN [w EXCEPT !.oom = TRUE]
  ELSE [w EXCEPT !.heap[i] = [refs |-> 1, next |-> next, act |-> act, obj |-> obj]]

(* Mutant: refs-- == 0, the count tested before it is decremented *)
RECURSIVE ReleasePostDec(_, _)
ReleasePostDec(w, v) ==
  IF v = Null THEN w
  ELSE IF v \in RawVals THEN Run(w, v.raw)
  ELSE IF w.heap[v] = Dead THEN [w EXCEPT !.uaf = TRUE]
  ELSE IF w.heap[v].refs # 0 THEN [w EXCEPT !.heap[v].refs = @ - 1]
  ELSE LET p  == w.heap[v]
           w1 == [w EXCEPT !.heap[v] = Dead]
           w2 == IF p.act = NoAct THEN w1 ELSE Run(w1, p.act)
       IN  ReleasePostDec(ReleasePostDec(w2, p.obj), p.next)

(* deleter::~deleter(): a raw object is freed; otherwise the last        *)
(* reference deletes the impl: ~lambda_deleter_impl runs del() (or       *)
(* ~free_deleter_impl its free(), or obj's destructor), then the members *)
(* obj and next are destroyed in turn.                                    *)
RECURSIVE Release(_, _)
Release(w, v) ==
  IF v = Null THEN w
  ELSE IF v \in RawVals THEN Run(w, v.raw)
  ELSE IF w.heap[v] = Dead THEN [w EXCEPT !.uaf = TRUE]
  ELSE IF w.heap[v].refs > 1 THEN [w EXCEPT !.heap[v].refs = @ - 1]
  ELSE LET p  == w.heap[v]
           w1 == [w EXCEPT !.heap[v] = Dead]
           w2 == IF p.act = NoAct THEN w1 ELSE Run(w1, p.act)
       IN  Release(Release(w2, p.obj), p.next)

(* operator=(deleter&&): this->~deleter(), then the move; also the end   *)
(* of a deleter's scope when v is Null                                   *)
Assign(w, h, v) == [Release(w, w.hold[h]) EXCEPT !.hold[h] = v]

(* next_d: a deleter variable or the next member of the impl at i *)
SetLoc(w, loc, v) ==
  IF loc \in Holders THEN [w EXCEPT !.hold[loc] = v]
  ELSE [w EXCEPT !.heap[loc].next = v]

(* The free_deleter_impl a raw object in the chain is turned into *)
Unraw(w, loc, cur) ==
  IF cur \in RawVals
  THEN LET f == NewId(w) IN
       IF f = Null THEN [w |-> [w EXCEPT !.oom = TRUE], cur |-> cur]
       ELSE [w |-> SetLoc(Alloc(w, f, Null, cur.raw, Null), loc, f), cur |-> f]
  ELSE [w |-> w, cur |-> cur]

(* Mutant: a shared impl on the chain is not wrapped *)
Unshare0(w, loc, cur) == [w |-> w, cur |-> cur]

(* A shared impl on the chain (refs != 1) is replaced at next_d by an    *)
(* object_deleter_impl that takes its next by std::move and holds the    *)
(* reference next_d had as its obj.                                      *)
Unshare(w, loc, cur) ==
  IF w.heap[cur].refs # 1
  THEN LET g == NewId(w) IN
       IF g = Null THEN [w |-> [w EXCEPT !.oom = TRUE], cur |-> cur]
       ELSE LET w1 == Alloc(w, g, w.heap[cur].next, NoAct, cur)
            IN  [w |-> SetLoc([w1 EXCEPT !.heap[cur].next = Null], loc, g),
                 cur |-> g]
  ELSE [w |-> w, cur |-> cur]

(* The while loop of deleter::append(d): loc is next_d, cur next_impl.   *)
(* Meeting d's impl on the chain returns, and d's destructor then drops   *)
(* the reference d held; the end of the chain takes d's impl.            *)
RECURSIVE AppendLoop(_, _, _, _)
AppendLoop(w, loc, cur, d) ==
  IF cur = Null THEN SetLoc(w, loc, d)
  ELSE IF cur = d THEN Release(w, d)
  ELSE LET r1 == Unraw(w, loc, cur)
           r2 == IF r1.w.oom THEN r1 ELSE Unshare(r1.w, loc, r1.cur)
       IN  IF r2.w.oom THEN r2.w
           ELSE AppendLoop(r2.w, r2.cur, r2.w.heap[r2.cur].next, d)

Arg(n) == IF n \in Holders THEN hold[n] ELSE Null

(* Mutant: the move constructor leaves other._impl in place *)
MoveKeep(w, g) == w

(* deleter(deleter&& other): other._impl = nullptr *)
MovedFrom(w, g) == [w EXCEPT !.hold[g] = Null]

(* std::move(n) into a parameter; n is none for deleter() *)
Taken(w, n) == IF n \in Holders THEN MovedFrom(w, n) ELSE w

Init == /\ heap = [i \in Impls |-> Dead]
        /\ hold = [h \in Holders |-> Null]
        /\ ran = [a \in Acts |-> 0]
        /\ made = {}
        /\ uaf = FALSE

(* Mutant: share() that does not take a reference *)
ShareOfNoRef(w, h) == Unraw(w, h, w.hold[h])

(* deleter::share() on h: a raw object first becomes a free_deleter_impl  *)
(* in h, then ++refs.  Gives the record of the state and the _impl.      *)
ShareOf(w, h) ==
  LET r == Unraw(w, h, w.hold[h])
  IN  IF r.cur = Null \/ r.w.oom THEN r
      ELSE [w |-> [r.w EXCEPT !.heap[r.cur].refs = @ + 1], cur |-> r.cur]

(* g = h.share() *)
DoShare(h, g) ==
  LET r == ShareOf(W, h)
  IN  ~r.w.oom /\ Store(Assign(r.w, g, r.cur)) /\ UNCHANGED made

(* h.append(std::move(g)): an empty d returns at once *)
DoAppend(h, g) ==
  LET w0 == Taken(W, g)
      w1 == IF hold[g] = Null THEN w0 ELSE AppendLoop(w0, h, hold[h], hold[g])
  IN  ~w1.oom /\ Store(w1) /\ UNCHANGED made

(* h = std::move(g) *)
DoMove(h, g) ==
  Store(Assign(MovedFrom(W, g), h, hold[g])) /\ UNCHANGED made

(* h = make_deleter(std::move(n), obj), or make_free_deleter(n, obj),     *)
(* or make_object_deleter(n, obj); n is none for deleter().               *)
DoMakeDeleter(h, n, a) ==
  LET w0 == Taken(W, n)
      w1 == Alloc(w0, NewId(w0), Arg(n), a, Null)
  IN  /\ a \notin made /\ ~w1.oom
      /\ Store(Assign(w1, h, NewId(w0)))
      /\ made' = made \cup {a}

(* h = make_free_deleter(obj): the raw object form, no impl *)
DoMakeFreeDeleter(h, a) ==
  /\ a \notin made
  /\ Store(Assign(W, h, [raw |-> a]))
  /\ made' = made \cup {a}

(* h goes out of scope (or h = deleter()) *)
DoDestroy(h) == hold[h] # Null /\ Store(Assign(W, h, Null)) /\ UNCHANGED made

Next ==
  \E h \in Holders :
    \/ DoDestroy(h)
    \/ \E a \in Acts : \/ DoMakeFreeDeleter(h, a)
                       \/ \E n \in Holders \cup {"none"} : DoMakeDeleter(h, n, a)
    \/ \E g \in Holders \ {h} : DoShare(h, g) \/ DoAppend(h, g) \/ DoMove(h, g)

Spec == Init /\ [][Next]_vars

(***************************************************************************)
(* Properties.                                                             *)
(***************************************************************************)
(* The state has its types; a live impl has a positive refs (the last   *)
(* --refs frees it).                                                      *)
TypeOK ==
  /\ heap \in [Impls -> Impl \cup {Dead}]
  /\ hold \in [Holders -> DVal]
  /\ ran \in [Acts -> Nat] /\ made \subseteq Acts /\ uaf \in BOOLEAN

Live == {i \in Impls : heap[i] # Dead}

(* The impls reachable from a set of _impl values, through next and obj *)
Succ(S) == UNION {{heap[i].next, heap[i].obj} : i \in S \cap Live}
RECURSIVE Closure(_)
Closure(S) == IF Succ(S) \subseteq S THEN S ELSE Closure(S \cup Succ(S))

(* The actions a deleter value encapsulates *)
ActsOf(v) == LET R == Closure({v})
             IN  {x.raw : x \in R \cap RawVals} \cup
                 ({heap[i].act : i \in R \cap Live} \ {NoAct})

(* Every reference to an impl is counted: refs is the number of deleter  *)
(* variables, next members and obj members holding it.  share(), the     *)
(* moves, append's wrapping of a shared impl (which hands the reference  *)
(* of next_d to the wrapper's obj) and its early return all keep it.    *)
RefsExact ==
  \A i \in Live :
    heap[i].refs = Cardinality({h \in Holders : hold[h] = i})
                   + Cardinality({j \in Live : heap[j].next = i})
                   + Cardinality({j \in Live : heap[j].obj = i})

(* An action is carried out at most once, never while a deleter still    *)
(* encapsulates it, and no destructor touches a freed impl.               *)
ActionsRunSafely ==
  /\ ~uaf
  /\ \A a \in Acts :
       /\ ran[a] <= 1
       /\ ran[a] = 1 => \A h \in Holders : a \notin ActsOf(hold[h])

(* Nothing leaks: once every deleter variable is empty, every impl is    *)
(* freed and every action encapsulated has been carried out.  A cycle    *)
(* of impls (append of a chain to itself through a shared impl) breaks   *)
(* this.                                                                  *)
NoLeak ==
  (\A h \in Holders : hold[h] = Null) =>
    Live = {} /\ \A a \in made : ran[a] = 1

(* The refinement: each variable encapsulates the actions its chain      *)
(* reaches, and the actions carried out are those run.                   *)
Abs == INSTANCE DeleterSpec WITH own <- [h \in Holders |-> ActsOf(hold[h])],
                                 done <- {a \in Acts : ran[a] > 0}

(* share() keeps its promise: a shared action is carried out only after  *)
(* every deleter encapsulating it is destroyed, whatever is appended to   *)
(* one of them (deleter::append wraps a shared impl in place).           *)
RefinesDeleterSpec == Abs!Spec
================================================================================
