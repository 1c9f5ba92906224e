------------------------------ MODULE SeqLists ------------------------------
(***************************************************************************)
(* What list::buffers_t promises list: each constructed object holds a    *)
(* sequence of ptr_nodes, and a node is in at most one sequence, held by  *)
(* its owner outside any list, or free.  Every call changes the sequences *)
(* as a singly linked list of the same name does.                          *)
(***************************************************************************)
EXTENDS Naturals, Sequences, FiniteSets

CONSTANTS Conts, Nodes

VARIABLES seqs, born, held

Elements(s) == {s[i] : i \in 1..Len(s)}
Linked == UNION {Elements(seqs[c]) : c \in born}
Free == Nodes \ (held \cup Linked)

Set(c, s) == seqs' = [seqs EXCEPT ![c] = s]

Init == /\ seqs = [c \in Conts |-> <<>>]
        /\ born = {}
        /\ held = {}

Construct(c) == /\ c \notin born /\ born' = born \cup {c}
                /\ UNCHANGED <<seqs, held>>
MoveConstruct(c, o) ==
  /\ c \notin born /\ o \in born /\ born' = born \cup {c}
  /\ seqs' = [seqs EXCEPT ![c] = seqs[o], ![o] = <<>>]
  /\ UNCHANGED held
Destroy(c) == /\ c \in born /\ born' = born \ {c} /\ Set(c, <<>>)
              /\ UNCHANGED held
Clear(c) == /\ c \in born /\ Set(c, <<>>) /\ UNCHANGED <<born, held>>
Create(n) == /\ n \in Free /\ held' = held \cup {n} /\ UNCHANGED <<seqs, born>>
DisposeHeld(n) == /\ n \in held /\ held' = held \ {n} /\ UNCHANGED <<seqs, born>>
InsertAt(c, i, n) ==
  /\ c \in born /\ n \in held /\ i \in 0..Len(seqs[c])
  /\ Set(c, SubSeq(seqs[c], 1, i) \o <<n>> \o SubSeq(seqs[c], i + 1, Len(seqs[c])))
  /\ held' = held \ {n} /\ UNCHANGED born
RemoveAt(c, i, keep) ==
  /\ c \in born /\ i \in 1..Len(seqs[c])
  /\ Set(c, SubSeq(seqs[c], 1, i - 1) \o SubSeq(seqs[c], i + 1, Len(seqs[c])))
  /\ held' = IF keep THEN held \cup {seqs[c][i]} ELSE held
  /\ UNCHANGED born
Concat(c, o) == /\ {c, o} \subseteq born /\ c # o
                /\ seqs' = [seqs EXCEPT ![c] = seqs[c] \o seqs[o], ![o] = <<>>]
                /\ UNCHANGED <<born, held>>
Swap(c, o) == /\ {c, o} \subseteq born
              /\ seqs' = [seqs EXCEPT ![c] = seqs[o], ![o] = seqs[c]]
              /\ UNCHANGED <<born, held>>
MoveAssign(c, o) == /\ {c, o} \subseteq born /\ c # o
                    /\ seqs' = [seqs EXCEPT ![c] = seqs[o], ![o] = <<>>]
                    /\ UNCHANGED <<born, held>>
(* The copies are new nodes, taken from the free ones and from the ones   *)
(* the target held before.                                                 *)
CopyFrom(c, o) ==
  /\ c \in born /\ o \in born /\ c # o
  /\ \E s \in [1..Len(seqs[o]) -> Free \cup Elements(seqs[c])] :
       /\ Cardinality(Elements(s)) = Len(seqs[o])
       /\ Set(c, s)
  /\ UNCHANGED <<born, held>>
CopyConstruct(c, o) ==
  /\ c \notin born /\ o \in born /\ born' = born \cup {c}
  /\ \E s \in [1..Len(seqs[o]) -> Free] :
       /\ Cardinality(Elements(s)) = Len(seqs[o])
       /\ Set(c, s)
  /\ UNCHANGED held

Next == \/ \E c \in Conts :
             \/ Construct(c) \/ Destroy(c) \/ Clear(c)
             \/ \E o \in Conts : \/ MoveConstruct(c, o) \/ Concat(c, o) \/ Swap(c, o)
                                 \/ MoveAssign(c, o) \/ CopyFrom(c, o)
                                 \/ CopyConstruct(c, o)
             \/ \E n \in Nodes, i \in 0..Cardinality(Nodes) : InsertAt(c, i, n)
             \/ \E i \in 1..Cardinality(Nodes), keep \in BOOLEAN : RemoveAt(c, i, keep)
        \/ \E n \in Nodes : Create(n) \/ DisposeHeld(n)

Spec == Init /\ [][Next]_<<seqs, born, held>>
================================================================================
