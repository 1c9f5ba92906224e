------------------------------- MODULE StdMap -------------------------------
(***************************************************************************)
(* What a compact_map promises its users: it behaves as a std::map.  Each  *)
(* container the program constructs holds a finite function from keys to  *)
(* values; a call changes it only as the std::map member of the same name *)
(* does.                                                                   *)
(***************************************************************************)
EXTENDS Functions, TLC

CONSTANTS Conts, Keys, Vals, None

VARIABLES alive, contents

vars == <<alive, contents>>

Empty == [k \in {} |-> None]

Init == /\ alive = [c \in Conts |-> FALSE]
        /\ contents = [c \in Conts |-> Empty]

Set(c, m) == contents' = [contents EXCEPT ![c] = m]
Live(c) == alive[c] /\ UNCHANGED alive
Erased(c, k) == Restrict(contents[c], DOMAIN contents[c] \ {k})

Construct(c) == /\ ~alive[c] /\ alive' = [alive EXCEPT ![c] = TRUE] /\ Set(c, Empty)
CopyConstruct(c, o) == /\ ~alive[c] /\ alive[o] /\ alive' = [alive EXCEPT ![c] = TRUE]
                       /\ Set(c, contents[o])
Destroy(c) == /\ alive[c] /\ alive' = [alive EXCEPT ![c] = FALSE] /\ Set(c, Empty)

(* emplace(k, v) inserts only an absent key *)
Emplace(c, k, v) == Live(c) /\ Set(c, contents[c] @@ (k :> v))
(* erase(k), and erase(it) of the element with key k *)
EraseKey(c, k) == Live(c) /\ Set(c, Erased(c, k))
EraseAt(c, k) == Live(c) /\ k \in DOMAIN contents[c] /\ Set(c, Erased(c, k))
Clear(c) == Live(c) /\ Set(c, Empty)
Assign(c, o) == Live(c) /\ alive[o] /\ Set(c, contents[o])
Swap(c, o) == /\ Live(c) /\ alive[o]
              /\ contents' = [contents EXCEPT ![c] = contents[o], ![o] = contents[c]]

Next == \E c \in Conts :
          \/ Construct(c) \/ Destroy(c) \/ Clear(c)
          \/ \E k \in Keys : \/ EraseKey(c, k) \/ EraseAt(c, k)
                             \/ \E v \in Vals : Emplace(c, k, v)
          \/ \E o \in Conts : CopyConstruct(c, o) \/ Assign(c, o) \/ Swap(c, o)

Spec == Init /\ [][Next]_vars
================================================================================
