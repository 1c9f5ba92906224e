------------------------------- MODULE StdSet -------------------------------
(***************************************************************************)
(* What a compact_set promises its users: it behaves as a std::set.  Each  *)
(* container the program constructs holds a set of elements; a call       *)
(* changes the sets only as the std::set member of the same name does.     *)
(***************************************************************************)
CONSTANTS Conts, Elems

VARIABLES alive, contents

Init == /\ alive = [c \in Conts |-> FALSE]
        /\ contents = [c \in Conts |-> {}]

Set(c, S) == contents' = [contents EXCEPT ![c] = S]

Construct(c) == /\ ~alive[c] /\ alive' = [alive EXCEPT ![c] = TRUE] /\ Set(c, {})
CopyConstruct(c, o) == /\ ~alive[c] /\ alive[o]
                       /\ alive' = [alive EXCEPT ![c] = TRUE] /\ Set(c, contents[o])
Destroy(c) == /\ alive[c] /\ alive' = [alive EXCEPT ![c] = FALSE] /\ Set(c, {})
Insert(c, t) == /\ alive[c] /\ Set(c, contents[c] \cup {t}) /\ UNCHANGED alive
Erase(c, t) == /\ alive[c] /\ Set(c, contents[c] \ {t}) /\ UNCHANGED alive
Clear(c) == /\ alive[c] /\ Set(c, {}) /\ UNCHANGED alive
Assign(c, o) == /\ alive[c] /\ alive[o] /\ Set(c, contents[o]) /\ UNCHANGED alive
Swap(c, o) == /\ alive[c] /\ alive[o] /\ UNCHANGED alive
              /\ contents' = [contents EXCEPT ![c] = contents[o], ![o] = contents[c]]

Next == \E c \in Conts :
          \/ Construct(c) \/ Destroy(c) \/ Clear(c)
          \/ \E t \in Elems : Insert(c, t) \/ Erase(c, t)
          \/ \E o \in Conts : CopyConstruct(c, o) \/ Assign(c, o) \/ Swap(c, o)

Spec == Init /\ [][Next]_<<alive, contents>>
================================================================================
