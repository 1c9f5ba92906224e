------------------------------ MODULE ListCodec ------------------------------
(***************************************************************************)
(* The base64 codec of buffer lists: spec_armor_line_break, spec_armor and *)
(* spec_unarmor (src/common/encode/armor.c) and the list functions that    *)
(* call them, list::encode_base64 and list::decode_base64                  *)
(* (buffer_list.cc:1018-1040), which read their source through             *)
(* list::c_str() (buffer_list.cc:886-900).                                 *)
(*                                                                         *)
(* A list is the sequence of its nodes' bytes; a char is its code.  The    *)
(* loops of armor.c are RECURSIVE operators over the source and the output *)
(* written so far, whose capacity stands for dst_end.  The shifts and      *)
(* masks of armor.c on unsigned chars are the equal integer arithmetic:    *)
(* a >> k is a \div 2^k, a & (2^k - 1) is a % 2^k, and | of disjoint bits  *)
(* is +.                                                                   *)
(*                                                                         *)
(* The caller encodes list x into the empty list y, x.encode_base64(y),    *)
(* then decodes y into the empty list z, z.decode_base64(y).  Decoding an  *)
(* arbitrary text is the same second call on a y chosen in Init.           *)
(***************************************************************************)
EXTENDS Integers, Sequences, SequencesExt

CONSTANTS
  SrcBytes,     \* byte values of the lists encoded (0 .. 255)
  TextChars,    \* char codes of the texts decoded
  MaxSrc,       \* bound on the bytes of an encoded list
  MaxText       \* bound on the chars of a decoded text

ASSUME SrcBytes \subseteq 0..255 /\ TextChars \subseteq 0..255

VARIABLES
  x, y, z,      \* the three lists, each a sequence of nodes
  pc,           \* "encode", "decode" or "done": the caller's next call
  encRes,       \* how encode_base64 ended
  decRes        \* how decode_base64 ended

vars == <<x, y, z, pc, encRes, decRes>>

EINVAL == 22
ERANGE == 34
NL == 10
Pad == 61     \* '='

MinOf(p, q) == IF p < q THEN p ELSE q

(* Lists of no, one or two nodes holding a string of at most n of S:    *)
(* enough for c_str() to return the node, rebuild two, or meet two empty. *)
ListsOver(S, n) ==
  {<<>>} \cup {<<c>> : c \in BoundedSeq(S, n)}
         \cup UNION {{<<SubSeq(c, 1, i), SubSeq(c, i + 1, Len(c))>> : i \in 0..Len(c)} :
                      c \in BoundedSeq(S, n)}

Content(l) == FlattenSeq(l)

EncodeBitsLowerOff(c) == IF c < 26 THEN 65 + c
                         ELSE IF c < 52 THEN 70 + c
                         ELSE IF c < 62 THEN c - 4
                         ELSE IF c = 62 THEN 43 ELSE 47

(***************************************************************************)
(* armor.c                                                                 *)
(***************************************************************************)
(* encode_bits: pem_key[c] *)
EncodeBits(c) == IF c < 26 THEN 65 + c
                 ELSE IF c < 52 THEN 71 + c
                 ELSE IF c < 62 THEN c - 4
                 ELSE IF c = 62 THEN 43 ELSE 47

DecodeBitsLowerAsUpper(c) == CASE c \in 65..90  -> c - 65
                            [] c \in 97..122 -> c - 65 + 26
                            [] c \in 48..57  -> c + 4
                            [] c \in {43, 45} -> 62
                            [] c \in {47, 95} -> 63
                            [] c = Pad -> 0
                            [] OTHER -> -EINVAL

(* decode_bits; '=' decodes to 0 wherever it stands *)
DecodeBits(c) == CASE c \in 65..90  -> c - 65
                   [] c \in 97..122 -> c - 71
                   [] c \in 48..57  -> c + 4
                   [] c \in {43, 45} -> 62
                   [] c \in {47, 95} -> 63
                   [] c = Pad -> 0
                   [] OTHER -> -EINVAL

(* The four chars one turn of the armor loop writes for the (up to) three *)
(* bytes g it consumes.                                                    *)
ArmorGroup(g) ==
  LET a == g[1]
      b == IF Len(g) > 1 THEN g[2] ELSE 0
      c == IF Len(g) > 2 THEN g[3] ELSE 0
  IN  CASE Len(g) = 1 -> <<EncodeBits(a \div 4), EncodeBits((a % 4) * 16), Pad, Pad>>
        [] Len(g) = 2 -> <<EncodeBits(a \div 4), EncodeBits((a % 4) * 16 + b \div 16),
                           EncodeBits((b % 16) * 4), Pad>>
        [] OTHER      -> <<EncodeBits(a \div 4), EncodeBits((a % 4) * 16 + b \div 16),
                           EncodeBits((b % 16) * 4 + c \div 64), EncodeBits(c % 64)>>

(* SET_DST of each char of w in turn: -ERANGE once dst_end is reached *)
Put(out, cap, w) ==
  IF Len(out) + Len(w) > cap
  THEN [err |-> TRUE, out |-> SubSeq(out \o w, 1, cap)]
  ELSE [err |-> FALSE, out |-> out \o w]

(* the while loop of spec_armor_line_break; out_len counts the chars put *)
RECURSIVE ArmorLoop(_, _, _, _, _)
ArmorLoop(s, out, cap, width, track) ==
  IF s = <<>> THEN [ret |-> Len(out), out |-> out]
  ELSE LET g    == SubSeq(s, 1, MinOf(3, Len(s)))
           brk  == width # 0 /\ track + 4 = width
           w    == IF brk THEN ArmorGroup(g) \o <<NL>> ELSE ArmorGroup(g)
           p    == Put(out, cap, w)
       IN  IF p.err THEN [ret |-> -ERANGE, out |-> p.out]
           ELSE ArmorLoop(SubSeq(s, Len(g) + 1, Len(s)), p.out, cap, width,
                          IF brk THEN 0 ELSE track + 4)

(* spec_armor_line_break(dst, dst + cap, src, ..., width).  Its result is *)
(* a uint64_t: -ERANGE comes back as 2^64 - ERANGE.                        *)
ArmorLineBreak(s, cap, width) == ArmorLoop(s, <<>>, cap, width, 0)

(* spec_armor *)
Armor(s, cap) == ArmorLineBreak(s, cap, 0)

UnarmorGroupPadLast(q) ==
  LET a == DecodeBits(q[1])  b == DecodeBits(q[2])
      c == DecodeBits(q[3])  d == DecodeBits(q[4])
      bytes == <<a * 4 + b \div 16, (b % 16) * 16 + c \div 4, (c % 4) * 64 + d>>
  IN  CASE q[4] = Pad -> SubSeq(bytes, 1, 2)
        [] q[3] = Pad -> SubSeq(bytes, 1, 1)
        [] OTHER      -> bytes

(* The bytes one turn of the unarmor loop writes for the four chars q:    *)
(* it returns after the first byte if q[3] is '=' and after the second if *)
(* q[4] is.                                                                *)
UnarmorGroup(q) ==
  LET a == DecodeBits(q[1])  b == DecodeBits(q[2])
      c == DecodeBits(q[3])  d == DecodeBits(q[4])
      bytes == <<a * 4 + b \div 16, (b % 16) * 16 + c \div 4, (c % 4) * 64 + d>>
  IN  CASE q[3] = Pad -> SubSeq(bytes, 1, 1)
        [] q[4] = Pad -> SubSeq(bytes, 1, 2)
        [] OTHER      -> bytes

(* the while loop of spec_unarmor *)
RECURSIVE UnarmorLoop(_, _, _)
UnarmorLoop(s, out, cap) ==
  IF s = <<>> THEN [ret |-> Len(out), out |-> out]
  ELSE IF s[1] = NL THEN UnarmorLoop(Tail(s), out, cap)
  ELSE IF Len(s) < 4 THEN [ret |-> -EINVAL, out |-> out]
  ELSE LET q == SubSeq(s, 1, 4)
           w == UnarmorGroup(q)
           p == Put(out, cap, w)
       IN  IF \E i \in 1..4 : DecodeBits(q[i]) < 0 THEN [ret |-> -EINVAL, out |-> out]
           ELSE IF p.err THEN [ret |-> -ERANGE, out |-> p.out]
           ELSE IF Len(w) < 3 THEN [ret |-> Len(p.out), out |-> p.out]
           ELSE UnarmorLoop(SubSeq(s, 5, Len(s)), p.out, cap)

(* spec_unarmor(dst, dst + cap, src, src_end) *)
Unarmor(s, cap) == UnarmorLoop(s, <<>>, cap)

(***************************************************************************)
(* buffer_list.cc                                                          *)
(***************************************************************************)
(* list::c_str(): nullptr for no nodes; a list of two or more nodes is     *)
(* rebuilt first, and rebuild() of a list of length 0 disposes every node, *)
(* after which _buffers.front() reads the list's root hook: "ub".          *)
CStr(l) ==
  CASE Len(l) < 2             -> [ub |-> FALSE, list |-> l]
    [] Content(l) = <<>>      -> [ub |-> TRUE, list |-> <<>>]
    [] OTHER                  -> [ub |-> FALSE, list |-> <<Content(l)>>]

(* push_back(ptr&&) skips a ptr of length 0 *)
PushBack(l, n) == IF n = <<>> THEN l ELSE Append(l, n)

EncodeCapFloor(n) == (n * 4) \div 3 + 2

(* the buffers encode_base64 and decode_base64 allocate *)
EncodeCap(n) == (n * 4) \div 3 + 3
DecodeCap(n) == 4 + (n * 3) \div 4

Init ==
  /\ \/ x \in ListsOver(SrcBytes, MaxSrc) /\ y = <<>> /\ pc = "encode"
     \/ x = <<>> /\ y \in ListsOver(TextChars, MaxText) /\ pc = "decode"
  /\ z = <<>>
  /\ encRes = "none" /\ decRes = "none"

(* x.encode_base64(y): ptr of EncodeCap(length()) bytes, spec_armor over  *)
(* c_str(), set_length(len) (spec_assert(raw_length() >= len): a -ERANGE   *)
(* seen as uint64_t fails it), push_back onto y.                           *)
EncodeBase64 ==
  LET cx == CStr(x)
      r  == Armor(Content(x), EncodeCap(Len(Content(x))))
  IN  /\ pc = "encode"
      /\ x' = cx.list
      /\ CASE cx.ub     -> encRes' = "ub" /\ pc' = "done" /\ UNCHANGED y
           [] r.ret < 0 -> encRes' = "abort" /\ pc' = "done" /\ UNCHANGED y
           [] OTHER     -> encRes' = "ok" /\ pc' = "decode" /\ y' = PushBack(y, r.out)
      /\ UNCHANGED <<z, decRes>>

(* z.decode_base64(y): ptr of DecodeCap(y.length()) bytes, spec_unarmor   *)
(* over y.c_str(); a negative result throws malformed_input; otherwise    *)
(* spec_assert(len <= bptr.length()), set_length, push_back onto z.       *)
DecodeBase64 ==
  LET cy  == CStr(y)
      cap == DecodeCap(Len(Content(y)))
      r   == Unarmor(Content(y), cap)
  IN  /\ pc = "decode"
      /\ y' = cy.list
      /\ pc' = "done"
      /\ CASE cy.ub          -> decRes' = "ub" /\ UNCHANGED z
           [] r.ret = -EINVAL -> decRes' = "einval" /\ UNCHANGED z
           [] r.ret = -ERANGE -> decRes' = "erange" /\ UNCHANGED z
           [] r.ret > cap    -> decRes' = "abort" /\ UNCHANGED z
           [] OTHER          -> decRes' = "ok" /\ z' = PushBack(z, r.out)
      /\ UNCHANGED <<x, encRes>>

Next == EncodeBase64 \/ DecodeBase64

Spec == Init /\ [][Next]_vars

(***************************************************************************)
(* Properties.                                                             *)
(***************************************************************************)
(* Base64 (RFC 4648) as a reference: each group of up to three bytes is a *)
(* 24-bit number read as four 6-bit digits of the alphabet A-Z a-z 0-9 + /,*)
(* of which Len(g) + 1 carry data and the rest are '='.                   *)
Alphabet == [i \in 1..26 |-> 64 + i] \o [i \in 1..26 |-> 96 + i]
            \o [i \in 1..10 |-> 47 + i] \o <<43, 47>>

RECURSIVE RefBase64(_)
RefBase64(s) ==
  IF s = <<>> THEN <<>>
  ELSE LET g == SubSeq(s, 1, MinOf(3, Len(s)))
           byte(i) == IF i <= Len(g) THEN g[i] ELSE 0
           n == byte(1) * 2^16 + byte(2) * 2^8 + byte(3)
           digit(i) == (n \div 2^(6 * (4 - i))) % 64
       IN  [i \in 1..4 |-> IF i <= Len(g) + 1 THEN Alphabet[digit(i) + 1] ELSE Pad]
           \o RefBase64(SubSeq(s, Len(g) + 1, Len(s)))

TypeOK ==
  /\ pc \in {"encode", "decode", "done"}
  /\ encRes \in {"none", "ok", "abort", "ub"}
  /\ decRes \in {"none", "ok", "einval", "erange", "abort", "ub"}
  /\ \A l \in {x, y, z} : \A i \in DOMAIN l : \A j \in DOMAIN l[i] : l[i][j] \in 0..255

(* encode_base64 appends exactly the base64 text of the list's bytes,     *)
(* whatever its nodes, once c_str() has rebuilt them.                      *)
EncodeIsBase64 == encRes = "ok" => Content(y) = RefBase64(Content(x))

(* decode_base64 of what encode_base64 wrote gives back the encoded bytes. *)
DecodeInvertsEncode ==
  encRes = "ok" /\ pc = "done" => decRes = "ok" /\ Content(z) = Content(x)

(* The buffers encode_base64 and decode_base64 size from the length are   *)
(* large enough for every input: spec_armor never runs into dst_end (which *)
(* set_length would abort on), and spec_unarmor never reports -ERANGE      *)
(* (which decode_base64 would throw as malformed input) or more bytes than *)
(* the buffer holds.                                                       *)
BuffersSuffice == encRes # "abort" /\ decRes \notin {"erange", "abort"}

(* encode_base64 and decode_base64 read their source through c_str(),     *)
(* which gives the start of the list's bytes for every list.              *)
CStrDefined == encRes # "ub" /\ decRes # "ub"

====
