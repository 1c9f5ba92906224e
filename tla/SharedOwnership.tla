--------------------------- MODULE SharedOwnership ---------------------------
(***************************************************************************)
(* What reference counting promises, with the counter left out: holders   *)
(* (ptr objects, and the raw pointer a thread keeps while it assigns) hold *)
(* objects; a new object is held by the holder that made it; a holder     *)
(* copies, moves or drops what it holds; an object is freed only when no  *)
(* holder holds it, and every object no holder holds is eventually freed. *)
(***************************************************************************)
CONSTANTS
  Holders,    \* ptr objects and other places a reference can live
  Objects,    \* the shared objects (raws)
  Null        \* held by no one

VARIABLES
  hold,       \* hold[h]: the object holder h refers to, or Null
  live        \* the objects allocated and not freed

Init == hold = [h \in Holders |-> Null] /\ live = {}

Unheld(o) == \A h \in Holders : hold[h] # o

New(h, o) == /\ hold[h] = Null /\ o \notin live
             /\ hold' = [hold EXCEPT ![h] = o] /\ live' = live \cup {o}

Copy(h, g) == /\ hold[h] # Null /\ hold[g] = Null
              /\ hold' = [hold EXCEPT ![g] = hold[h]] /\ UNCHANGED live

Move(h, g) == /\ h # g /\ hold[h] # Null /\ hold[g] = Null
              /\ hold' = [hold EXCEPT ![g] = hold[h], ![h] = Null]
              /\ UNCHANGED live

Drop(h) == hold[h] # Null /\ hold' = [hold EXCEPT ![h] = Null] /\ UNCHANGED live

Free(o) == o \in live /\ Unheld(o) /\ live' = live \ {o} /\ UNCHANGED hold

(* A step of Next changes the state; a step that changes nothing is a     *)
(* stuttering step, which Spec allows anyway.                              *)
Next == /\ <<hold, live>>' # <<hold, live>>
        /\ \/ \E h \in Holders, o \in Objects : New(h, o)
           \/ \E h, g \in Holders : Copy(h, g) \/ Move(h, g)
           \/ \E h \in Holders : Drop(h)
           \/ \E o \in Objects : Free(o)

Spec == Init /\ [][Next]_<<hold, live>> /\ \A o \in Objects : WF_<<hold, live>>(Free(o))

================================================================================
