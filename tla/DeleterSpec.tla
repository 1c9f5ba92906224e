----------------------------- MODULE DeleterSpec -----------------------------
(***************************************************************************)
(* What a deleter (include/deleter.h) promises, in terms of the actions   *)
(* each deleter variable encapsulates: make_deleter adds an action to the *)
(* one of its next deleter, share() returns a deleter with "the same      *)
(* encapsulated action", append(d) makes this deleter carry both, and an   *)
(* action "will only be carried out after both the original deleter and   *)
(* the returned deleter are both destroyed": it is carried out exactly     *)
(* when the last deleter encapsulating it lets go of it.                   *)
(***************************************************************************)
EXTENDS FiniteSets

CONSTANTS Holders,   \* the deleter variables of the program
          Acts       \* the actions (a lambda, a free(), an object's destructor)

VARIABLES own,   \* own[h]: the actions deleter h encapsulates
          done   \* the actions carried out

vars == <<own, done>>

Owned(o) == UNION {o[h] : h \in Holders}

Init == own = [h \in Holders |-> {}] /\ done = {}

(* Every step carries out the actions no deleter encapsulates any more. *)
Let(o) == own' = o /\ done' = done \cup (Owned(own) \ Owned(o))

Fresh(a) == a \notin Owned(own) \cup done

(* h = make_deleter(std::move(n), obj), n = h or none (deleter()) *)
Make(h, n, a) ==
  /\ Fresh(a)
  /\ LET s == IF n \in Holders THEN own[n] ELSE {}
     IN  Let([g \in Holders |-> IF g = h THEN s \cup {a}
                                ELSE IF g = n THEN {} ELSE own[g]])

(* g = h.share() *)
Share(h, g) == Let([own EXCEPT ![g] = own[h]])

(* h.append(std::move(g)) *)
Append(h, g) == Let([own EXCEPT ![h] = own[h] \cup own[g], ![g] = {}])

(* h = std::move(g) *)
Move(h, g) == Let([own EXCEPT ![h] = own[g], ![g] = {}])

(* h is destroyed, or assigned deleter() *)
Destroy(h) == Let([own EXCEPT ![h] = {}])

Next ==
  \E h \in Holders :
    \/ Destroy(h)
    \/ \E a \in Acts, n \in Holders \cup {"none"} : Make(h, n, a)
    \/ \E g \in Holders \ {h} : Share(h, g) \/ Append(h, g) \/ Move(h, g)

Spec == Init /\ [][Next]_vars
================================================================================
