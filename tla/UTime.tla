------------------------------- MODULE UTime -------------------------------
(***************************************************************************)
(* utime_t (time/utime.h): a time as uint32 tv_sec and tv_nsec, the       *)
(* arithmetic on it and its comparisons.  The tests read the clock with   *)
(* spec_clock_now() (a timespec) and print end - start.                   *)
(*                                                                         *)
(* The widths are scaled: NS stands for the 1000000000 nanoseconds of a    *)
(* second and 2^U32Bits for 2^32, keeping the relations the code relies   *)
(* on: the nanoseconds of two times, NS at most each, fit in a uint32     *)
(* (2 * NS < 2^U32Bits), and a uint64 and a time_t hold every sum and      *)
(* difference of two uint32 (they are TLA+ integers here).  The double    *)
(* members are not modelled.                                               *)
(*                                                                         *)
(* Two objects are held; every call writes its result into one of them.   *)
(* ns is a ghost: the nanoseconds each object's value should stand for,    *)
(* computed from the operands' to_nsec(), or Sat when a sum is past the   *)
(* largest time.                                                           *)
(***************************************************************************)
EXTENDS Naturals, Integers

CONSTANTS Objs,      \* the utime_t objects held
          NS,        \* nanoseconds per second (1000000000ul)
          U32Bits,   \* the width of uint32_t
          Sat        \* the ghost of a saturated sum

VARIABLES t,   \* t[o]: the object's tv, a record [sec, nsec]
          ns   \* ghost: the nanoseconds t[o] stands for, modulo 2^32 seconds

vars == <<t, ns>>

U32 == 2^U32Bits
U32Max == U32 - 1

(* The time_t or uint32 arithmetic result stored into a uint32 member *)
ToU32(x) == x % U32

(* cap_to_u32_max(t) *)
CapToU32Max(x) == IF x < U32Max THEN x ELSE U32Max

(* normalize(): only a tv_nsec over a whole second is carried *)
Normalize(v) ==
  IF v.nsec > NS
  THEN [sec |-> CapToU32Max(v.sec + v.nsec \div NS), nsec |-> v.nsec % NS]
  ELSE v

(* utime_t(time_t s, int n) *)
Make(s, n) == Normalize([sec |-> ToU32(s), nsec |-> ToU32(n)])

(* utime_t(const struct timespec v): no normalize *)
FromTimespec(s, n) == [sec |-> ToU32(s), nsec |-> ToU32(n)]

(* to_nsec() *)
ToNsec(v) == v.nsec + v.sec * NS

(* operator+(lhs, rhs) *)
Plus(a, b) == Make(CapToU32Max(a.sec + b.sec), a.nsec + b.nsec)

(* operator+=(lhs, rhs) *)
PlusAssign(a, b) ==
  Normalize([sec |-> CapToU32Max(a.sec + b.sec), nsec |-> ToU32(a.nsec + b.nsec)])

(* operator-(lhs, rhs) *)
Borrow(a, b) == IF a.nsec < b.nsec THEN 1 ELSE 0
Minus(a, b) ==
  Make(a.sec - b.sec - Borrow(a, b),
       ToU32(ToU32(a.nsec - b.nsec) + Borrow(a, b) * NS))

(* Mutant: -= that borrows the second into tv_nsec without sec_ref()-- *)
MinusAssignNoBorrow(a, b) ==
  LET s == ToU32(a.sec - b.sec)
  IN  IF a.nsec >= b.nsec
      THEN [sec |-> s, nsec |-> ToU32(a.nsec - b.nsec)]
      ELSE [sec |-> s, nsec |-> ToU32(a.nsec + (NS - b.nsec))]

(* operator-=(lhs, rhs) *)
MinusAssign(a, b) ==
  LET s == ToU32(a.sec - b.sec)
  IN  IF a.nsec >= b.nsec
      THEN [sec |-> s, nsec |-> ToU32(a.nsec - b.nsec)]
      ELSE [sec |-> ToU32(s - 1), nsec |-> ToU32(a.nsec + (NS - b.nsec))]

(* operator>, <=, <, >=, ==, != *)
Greater(a, b) == a.sec > b.sec \/ (a.sec = b.sec /\ a.nsec > b.nsec)
LessEq(a, b) == ~Greater(a, b)
(* Mutant: operator< that also holds for equal times *)
LessOrSame(a, b) == a.sec < b.sec \/ (a.sec = b.sec /\ a.nsec <= b.nsec)
Less(a, b) == a.sec < b.sec \/ (a.sec = b.sec /\ a.nsec < b.nsec)
GreaterEq(a, b) == ~Less(a, b)
Equal(a, b) == a.sec = b.sec /\ a.nsec = b.nsec
NotEqual(a, b) == ~Equal(a, b)

(* The reference: the exact sum, Sat past the largest time, and the     *)
(* difference modulo 2^32 seconds.                                        *)
SumNs(x, y) == IF x + y < U32 * NS THEN x + y ELSE Sat
DiffNs(x, y) == (x - y) % (U32 * NS)

Secs == 0..U32Max
ClockNsecs == 0..(NS - 1)
IntNsecs == 0..(2 * NS)

(* utime_t(): zero *)
Init == /\ t = [o \in Objs |-> [sec |-> 0, nsec |-> 0]]
        /\ ns = [o \in Objs |-> 0]

Set(o, v, g) == t' = [t EXCEPT ![o] = v] /\ ns' = [ns EXCEPT ![o] = g]

(* spec_clock_now(): clock_gettime gives a timespec with tv_nsec below a *)
(* second, taken without normalize.                                      *)
DoClockNow(o, s, n) == Set(o, FromTimespec(s, n), s * NS + n)

(* utime_t(s, n) from a caller's seconds and int nanoseconds *)
DoMake(o, s, n) ==
  Set(o, Make(s, n), SumNs(s * NS, n))

DoPlus(o, a, b) ==
  Set(o, Plus(t[a], t[b]), SumNs(ToNsec(t[a]), ToNsec(t[b])))

DoPlusAssign(a, b) ==
  Set(a, PlusAssign(t[a], t[b]), SumNs(ToNsec(t[a]), ToNsec(t[b])))

DoMinus(o, a, b) ==
  Set(o, Minus(t[a], t[b]), DiffNs(ToNsec(t[a]), ToNsec(t[b])))

DoMinusAssign(a, b) ==
  Set(a, MinusAssign(t[a], t[b]), DiffNs(ToNsec(t[a]), ToNsec(t[b])))

Next ==
  \E o \in Objs :
    \/ \E s \in Secs : \/ \E n \in ClockNsecs : DoClockNow(o, s, n)
                       \/ \E n \in IntNsecs : DoMake(o, s, n)
    \/ \E a \in Objs : \/ DoPlusAssign(o, a) \/ DoMinusAssign(o, a)
                       \/ \E b \in Objs : DoPlus(o, a, b) \/ DoMinus(o, a, b)

Spec == Init /\ [][Next]_vars

(* Every +, +=, - and -= computes the nanoseconds of its operands' sum or *)
(* difference: a sum exactly (normalize carrying whole seconds out of     *)
(* tv_nsec), a sum past the largest time as the largest second           *)
(* (cap_to_u32_max, not a wrap), and a difference modulo 2^32 seconds:   *)
(* end - start of a clock that stepped back is a time near 2^32 s, not a *)
(* negative one.  The borrow of - and -= and the carry of normalize are  *)
(* where this breaks.                                                     *)
ArithmeticExact ==
  \A o \in Objs :
    IF ns[o] = Sat THEN t[o].sec = U32Max
    ELSE ToNsec(t[o]) % (U32 * NS) = ns[o]

(* The six comparisons order any two times as their to_nsec() does, for *)
(* times whose tv_nsec is below a second.  normalize() leaves a tv_nsec *)
(* of exactly one second in place (it tests > and not >=), and a sum can *)
(* produce one: (0, NS) compares below, and unequal to, (1, 0).           *)
OrderExact ==
  \A a, b \in Objs :
    t[a].nsec < NS /\ t[b].nsec < NS =>
      LET x == ToNsec(t[a])
          y == ToNsec(t[b])
      IN  /\ Less(t[a], t[b]) = (x < y)    /\ Greater(t[a], t[b]) = (x > y)
          /\ LessEq(t[a], t[b]) = (x <= y) /\ GreaterEq(t[a], t[b]) = (x >= y)
          /\ Equal(t[a], t[b]) = (x = y)   /\ NotEqual(t[a], t[b]) = (x # y)
================================================================================
