----------------------------- MODULE ListCompare -----------------------------
(***************************************************************************)
(* Comparison of buffer lists: list::contents_equal(const list&),         *)
(* list::contents_equal(const void*, len) (buffer_list.cc:406-458), the   *)
(* iterator-based operator==, !=, <, <=, >, >= (buffer_list.h:843-891).   *)
(*                                                                         *)
(* A list is the sequence of its nodes' bytes.  Each function is an       *)
(* operator translated from its loop; an action applies one of them to    *)
(* the two lists a and b chosen in Init and records the result.  A loop   *)
(* whose next state equals its current state runs forever: its result is *)
(* "hang".  Reading the other list's end hook as a node is "ub".          *)
(***************************************************************************)
EXTENDS Integers, Sequences, SequencesExt

CONSTANTS
  Bytes,        \* byte values, 0 .. 2^CharBits - 1
  CharBits,     \* width of a char
  CharSigned,   \* whether the build's char is signed (x86: TRUE)
  MaxNodes,     \* bound on the nodes of a list
  MaxNodeLen,   \* bound on the bytes of a node
  MaxTotal      \* bound on the bytes of a list

ASSUME /\ CharBits \in Nat \ {0} /\ Bytes \subseteq 0..(2^CharBits - 1)
       /\ CharSigned \in BOOLEAN

VARIABLES a, b, op, res

vars == <<a, b, op, res>>

MinOf(x, y) == IF x < y THEN x ELSE y

Node == UNION {[1..k -> Bytes] : k \in 0..MaxNodeLen}
Lists == {s \in UNION {[1..n -> Node] : n \in 0..MaxNodes} :
            Len(FlattenSeq(s)) <= MaxTotal}

Content(l) == FlattenSeq(l)

(* A char as the build's operator< on char sees it (integral promotion) *)
CharVal(c) == IF CharSigned /\ c >= 2^(CharBits - 1) THEN c - 2^CharBits ELSE c

(***************************************************************************)
(* contents_equal(other): two cursors (node, offset) walk both lists,      *)
(* comparing the shorter remaining run.  The other cursor moves to the    *)
(* next node only when its offset exceeds the node's length.              *)
(***************************************************************************)
RECURSIVE CeLoop(_, _, _, _, _, _)
CeLoop(x, y, i, io, j, jo) ==
  IF i > Len(x) THEN "true"
  ELSE IF j > Len(y) THEN "ub"
  ELSE LET len == MinOf(Len(x[i]) - io, Len(y[j]) - jo)
           io2 == io + len
           jo2 == jo + len
           nxt == <<IF io2 = Len(x[i]) THEN i + 1 ELSE i,
                    IF io2 = Len(x[i]) THEN 0 ELSE io2,
                    IF jo2 > Len(y[j]) THEN j + 1 ELSE j,
                    IF jo2 > Len(y[j]) THEN 0 ELSE jo2>>
       IN  IF SubSeq(x[i], io + 1, io2) # SubSeq(y[j], jo + 1, jo2) THEN "false"
           ELSE IF nxt = <<i, io, j, jo>> THEN "hang"
           ELSE CeLoop(x, y, nxt[1], nxt[2], nxt[3], nxt[4])

ContentsEqual(x, y) ==
  IF Len(Content(x)) # Len(Content(y)) THEN "false"
  ELSE CeLoop(x, y, 1, 0, 1, 0)

(* contents_equal(buf, length): each node against the next bytes of buf *)
RECURSIVE CeMemLoop(_, _, _, _)
CeMemLoop(x, m, i, length) ==
  IF i > Len(x) THEN "false"
  ELSE LET round == MinOf(length, Len(x[i]))
           off == Len(m) - length
       IN  IF SubSeq(x[i], 1, round) # SubSeq(m, off + 1, off + round) THEN "false"
           ELSE IF length - round = 0 THEN "true"
           ELSE CeMemLoop(x, m, i + 1, length - round)

ContentsEqualMem(x, m) ==
  IF Len(Content(x)) # Len(m) THEN "false" ELSE CeMemLoop(x, m, 1, Len(m))

(***************************************************************************)
(* The operators of buffer_list.h walk both lists with const_iterators;   *)
(* iterator equality is equality of m_a_off, so "it != end()" is          *)
(* "offset < length", and *it is the byte at the offset.                   *)
(***************************************************************************)
RECURSIVE EqualLoop(_, _, _)
EqualLoop(x, y, k) ==
  IF k = Len(x) THEN TRUE
  ELSE IF x[k + 1] # y[k + 1] THEN FALSE
  ELSE EqualLoop(x, y, k + 1)

(* Mutant: std::equal without the length check in front of it *)
OpEqNoLength(x, y) == EqualLoop(Content(x), Content(y), 0)

(* operator==: lengths, then std::equal(lhs.begin(), lhs.end(), rhs.begin()) *)
OpEq(x, y) ==
  Len(Content(x)) = Len(Content(y)) /\ EqualLoop(Content(x), Content(y), 0)

(* The loop shared by operator< and operator<=; returns <<decided, value, *)
(* k>>, k the offset at which both iterators stopped.                      *)
RECURSIVE OrderLoop(_, _, _)
OrderLoop(x, y, k) ==
  IF k = Len(x) \/ k = Len(y) THEN <<FALSE, FALSE, k>>
  ELSE IF CharVal(x[k + 1]) < CharVal(y[k + 1]) THEN <<TRUE, TRUE, k>>
  ELSE IF CharVal(x[k + 1]) > CharVal(y[k + 1]) THEN <<TRUE, FALSE, k>>
  ELSE OrderLoop(x, y, k + 1)

(* Mutant: operator< ending like operator<= *)
OpLessAsLessEq(x, y) ==
  LET r == OrderLoop(Content(x), Content(y), 0)
  IN  IF r[1] THEN r[2] ELSE r[3] = Len(Content(x))

OpLess(x, y) ==
  LET r == OrderLoop(Content(x), Content(y), 0)
  IN  IF r[1] THEN r[2]
      ELSE r[3] = Len(Content(x)) /\ r[3] # Len(Content(y))

OpLessEq(x, y) ==
  LET r == OrderLoop(Content(x), Content(y), 0)
  IN  IF r[1] THEN r[2] ELSE r[3] = Len(Content(x))

(***************************************************************************)
(* The specification: two lists, then any comparison of them.             *)
(***************************************************************************)
Init == /\ a \in Lists /\ b \in Lists
        /\ op = "none" /\ res = "none"

Call(o, r) == /\ op' = o /\ res' = r /\ UNCHANGED <<a, b>>

DoContentsEqual == Call("contents_equal", ContentsEqual(a, b))
DoContentsEqualMem == Call("contents_equal_mem", ContentsEqualMem(a, Content(b)))
DoEq == Call("==", OpEq(a, b))
DoNe == Call("!=", ~OpEq(a, b))
DoLess == Call("<", OpLess(a, b))
DoLessEq == Call("<=", OpLessEq(a, b))
DoGreater == Call(">", OpLess(b, a))
DoGreaterEq == Call(">=", OpLessEq(b, a))

Next == \/ DoContentsEqual \/ DoContentsEqualMem \/ DoEq \/ DoNe
        \/ DoLess \/ DoLessEq \/ DoGreater \/ DoGreaterEq

Spec == Init /\ [][Next]_vars

(***************************************************************************)
(* Reference definitions and properties.                                   *)
(***************************************************************************)

(* Lexicographic order of byte strings under the build's char order: a   *)
(* proper prefix is smaller, else the first differing byte decides.       *)
LexLess(s, t) ==
  \E k \in 0..MinOf(Len(s), Len(t)) :
     /\ SubSeq(s, 1, k) = SubSeq(t, 1, k)
     /\ \/ k < Len(s) /\ k < Len(t) /\ CharVal(s[k + 1]) < CharVal(t[k + 1])
        \/ k = Len(s) /\ k < Len(t)

(* The six comparisons answer from the lists' bytes alone, however the  *)
(* bytes are split into nodes and whatever empty nodes lie between: == and *)
(* != decide byte equality, <, <=, >, >= are the lexicographic order of   *)
(* the bytes under the build's char, proper prefixes first.               *)
ListComparisonsCorrect ==
  LET ca == Content(a)
      cb == Content(b)
  IN  /\ op = "==" => res = (ca = cb)
      /\ op = "!=" => res = (ca # cb)
      /\ op = "<" => res = LexLess(ca, cb)
      /\ op = "<=" => res = (LexLess(ca, cb) \/ ca = cb)
      /\ op = ">" => res = LexLess(cb, ca)
      /\ op = ">=" => res = (LexLess(cb, ca) \/ ca = cb)

(* Both overloads of contents_equal return whether the two byte strings *)
(* are equal (the unit test "same length same content"): contents_equal  *)
(* (other) for any node split of either list, contents_equal(buf, length) *)
(* for any node split of the list, the empty list and length 0 included. *)
ContentsEqualCorrect ==
  op \in {"contents_equal", "contents_equal_mem"} =>
     res = IF Content(a) = Content(b) THEN "true" ELSE "false"

================================================================================
