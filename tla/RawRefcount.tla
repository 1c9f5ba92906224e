------------------------------ MODULE RawRefcount ------------------------------
(***************************************************************************)
(* A raw shared by threads through their own ptr objects                   *)
(* (src/common/buffer/buffer_ptr.cc:14-108, src/include/buffer/buffer_raw.h, *)
(* src/include/spinlock/spinlock.h, src/include/mempool/mempool.h:117-161). *)
(*                                                                         *)
(* Each thread owns a few ptr slots.  It creates raws, copies and moves    *)
(* ptrs, assigns them, releases them, hands a ptr to the other thread     *)
(* (a synchronised transfer of the ptr object), and reads or writes the   *)
(* raw's crc cache.  The atomic nref is the only state the threads touch  *)
(* without a lock: ptr::release and ptr::operator= are split at every     *)
(* access to it.  The crc cache (an offset pair and a value pair, several *)
(* words) is guarded by crc_spinlock, and every access under the lock is *)
(* a step.  Constructing and destroying a raw adjust the mempool counters *)
(* of the calling thread's shard, through -(int)m_len on the way out.     *)
(* Integers keep their widths: int has IntBits bits, size_t SizeBits.     *)
(***************************************************************************)
EXTENDS Integers, FiniteSets, FiniteSetsExt

CONSTANTS
  Threads,      \* threads
  Slots,        \* each thread's ptr objects
  Tmp,          \* the bpraw pointer operator=(const ptr&) keeps (a holder)
  Raws,         \* raw objects
  Lens,         \* lengths buffer::create may be called with
  Ranges,       \* (from, to) pairs list::crc32c may cache
  Shards,       \* mempool shards
  ShardOf,      \* pick_a_shard: thread -> shard
  IntBits,      \* width of int
  SizeBits,     \* width of size_t / ssize_t
  Null          \* nullptr, and an unset crc offset

ASSUME /\ ShardOf \in [Threads -> Shards]
       /\ IntBits \in Nat \ {0} /\ SizeBits > IntBits

VARIABLES
  slot,     \* slot[t][k]: the m_raw of thread t's ptr k
  pc,       \* pc[t]: where thread t is
  op,       \* op[t]: the call thread t is in and its arguments
  tmp,      \* tmp[t]: bpraw of operator=(const ptr&)
  cached,   \* cached[t]: cached_raw of ptr::release
  lastref,  \* lastref[t]: last_reference of ptr::release
  live,     \* raws allocated and not deleted
  nref,     \* nref[r]
  len,      \* m_len[r]
  coff,     \* last_crc_offset[r]
  cval,     \* last_crc_val[r], as the range whose crc it is
  items,    \* shard[s].allocated_items (size_t)
  bytes,    \* shard[s].allocated_bytes (size_t)
  lock      \* lock[r]: the thread holding r's crc_spinlock, or Null

vars == <<slot, pc, op, tmp, cached, lastref, live, nref, len, coff, cval,
          items, bytes, lock>>

(***************************************************************************)
(* Integer conversions.                                                    *)
(***************************************************************************)
SizeT(x) == x % (2^SizeBits)

SSizeT(x) == LET m == SizeT(x) IN IF m >= 2^(SizeBits - 1) THEN m - 2^SizeBits ELSE m

(* (int) of a uint64_t: the low IntBits bits, as a signed value *)
ToInt(x) == LET m == x % (2^IntBits) IN IF m >= 2^(IntBits - 1) THEN m - 2^IntBits ELSE m

(* Unary minus on int; -INT_MIN wraps to INT_MIN under gcc *)
NegInt(i) == ToInt(-i)

(***************************************************************************)
(* mempool: pool_type::adjust_count on the calling thread's shard.        *)
(***************************************************************************)
(* Mutant: the counters kept as signed integers, without the size_t wrap *)
AdjustCountNoWrap(t, di, db) ==
  /\ items' = [items EXCEPT ![ShardOf[t]] = @ + di]
  /\ bytes' = [bytes EXCEPT ![ShardOf[t]] = @ + db]

AdjustCount(t, di, db) ==
  /\ items' = [items EXCEPT ![ShardOf[t]] = SizeT(@ + di)]
  /\ bytes' = [bytes EXCEPT ![ShardOf[t]] = SizeT(@ + db)]

(* raw::raw: adjust_count(1, m_len) *)
RawCtorAccount(t, n) == AdjustCount(t, 1, n)

(* Mutant: the destructor does not give the bytes back *)
RawDtorNoBytes(t, n) == AdjustCount(t, -1, 0)

(* raw::~raw: adjust_count(-1, -(int)m_len) *)
RawDtorAccount(t, n) == AdjustCount(t, -1, NegInt(ToInt(n)))

(* pool_type::allocated_bytes / allocated_items: the shards summed as     *)
(* ssize_t, a negative sum reported as 0                                  *)
AllocatedBytes == LET s == SSizeT(MapThenSumSet(LAMBDA x : bytes[x], Shards))
                  IN  IF s < 0 THEN 0 ELSE s
AllocatedItems == LET s == SSizeT(MapThenSumSet(LAMBDA x : items[x], Shards))
                  IN  IF s < 0 THEN 0 ELSE s

(* The raw of the ptr the thread's call is on *)
Raw(t) == slot[t][op[t].k]

(***************************************************************************)
(* crc_spinlock: spin_lock loops on test_and_set until it finds the flag  *)
(* clear, so a thread passes the lock only when no thread holds it.       *)
(***************************************************************************)
(* Mutant: a lock that does not wait *)
SpinLockNoTest(t) == lock' = [lock EXCEPT ![Raw(t)] = t]

SpinLock(t) == lock[Raw(t)] = Null /\ lock' = [lock EXCEPT ![Raw(t)] = t]

SpinUnlock(t) == lock' = [lock EXCEPT ![Raw(t)] = Null]

(***************************************************************************)
(* Thread steps.                                                           *)
(***************************************************************************)
SetSlot(t, k, r) == slot' = [slot EXCEPT ![t][k] = r]

Start(t, o, p) == /\ pc[t] = "idle"
                  /\ op' = [op EXCEPT ![t] = o] /\ pc' = [pc EXCEPT ![t] = p]

NoOp == [name |-> "none", j |-> Null, k |-> Null]

(* The thread moves on to p; back at "idle" it forgets the call *)
Goto(t, p) == /\ pc' = [pc EXCEPT ![t] = p]
              /\ op' = IF p = "idle" THEN [op EXCEPT ![t] = NoOp] ELSE op

(* ptr(len), ptr(buf, len), ptr(unique_leakable_ptr<raw>): a new raw     *)
(* (counted in the mempool) with nref 1 in an empty ptr                    *)
Create(t, k, n) ==
  /\ pc[t] = "idle" /\ slot[t][k] = Null
  /\ \E r \in Raws \ live :
       /\ live' = live \cup {r}
       /\ nref' = [nref EXCEPT ![r] = 1]
       /\ len' = [len EXCEPT ![r] = n]
       /\ coff' = [coff EXCEPT ![r] = Null]
       /\ cval' = [cval EXCEPT ![r] = Null]
       /\ RawCtorAccount(t, n)
       /\ SetSlot(t, k, r)
  /\ UNCHANGED <<pc, op, tmp, cached, lastref, lock>>

(* Mutant: the copy constructor takes no reference *)
CopyNoRef(r) == nref

(* ptr(const ptr&) and ptr(const ptr&, off, len): m_raw->nref++ *)
CopyRef(r) == [nref EXCEPT ![r] = @ + 1]

CopyCtor(t, k, j) ==
  /\ pc[t] = "idle" /\ k # j /\ slot[t][k] # Null /\ slot[t][j] = Null
  /\ nref' = CopyRef(slot[t][k])
  /\ SetSlot(t, j, slot[t][k])
  /\ UNCHANGED <<pc, op, tmp, cached, lastref, live, len, coff, cval, items,
                 bytes, lock>>

(* ptr(ptr&&): the raw changes ptr, nref untouched *)
MoveCtor(t, k, j) ==
  /\ pc[t] = "idle" /\ k # j /\ slot[t][k] # Null /\ slot[t][j] = Null
  /\ slot' = [slot EXCEPT ![t][j] = slot[t][k], ![t][k] = Null]
  /\ UNCHANGED <<pc, op, tmp, cached, lastref, live, nref, len, coff, cval,
                 items, bytes, lock>>

(* The thread passes its ptr object to the other thread (through a queue *)
(* or a join: the transfer itself is synchronised).                        *)
Handoff(t, k, u, j) ==
  /\ t # u /\ pc[t] = "idle" /\ pc[u] = "idle"
  /\ slot[t][k] # Null /\ slot[u][j] = Null
  /\ slot' = [slot EXCEPT ![u][j] = slot[t][k], ![t][k] = Null]
  /\ UNCHANGED <<pc, op, tmp, cached, lastref, live, nref, len, coff, cval,
                 items, bytes, lock>>

(* operator=(const ptr&): bptr.m_raw->nref++, bpraw = bptr.m_raw, then   *)
(* release()                                                               *)
CopyAssign(t, j, k) ==
  /\ Start(t, [name |-> "copy_assign", j |-> j, k |-> k], "rel_xchg")
  /\ IF slot[t][k] # Null THEN nref' = [nref EXCEPT ![slot[t][k]] = @ + 1]
                          ELSE UNCHANGED nref
  /\ tmp' = [tmp EXCEPT ![t] = slot[t][k]]
  /\ UNCHANGED <<slot, cached, lastref, live, len, coff, cval, items, bytes, lock>>

(* operator=(ptr&&): release(), then take bptr's raw *)
MoveAssign(t, j, k) ==
  /\ Start(t, [name |-> "move_assign", j |-> j, k |-> k], "rel_xchg")
  /\ UNCHANGED <<slot, tmp, cached, lastref, live, nref, len, coff, cval, items,
                 bytes, lock>>

(* ptr::release() called directly or by ~ptr *)
Release(t, j) ==
  /\ slot[t][j] # Null
  /\ Start(t, [name |-> "release", j |-> j, k |-> j], "rel_xchg")
  /\ UNCHANGED <<slot, tmp, cached, lastref, live, nref, len, coff, cval, items,
                 bytes, lock>>

(* get_crc, set_crc, invalidate_crc on the raw of ptr k *)
CrcCall(t, k, name, g) ==
  /\ slot[t][k] # Null
  /\ Start(t, [name |-> name, j |-> k, k |-> k, rg |-> g], "lock")
  /\ UNCHANGED <<slot, tmp, cached, lastref, live, nref, len, coff, cval, items,
                 bytes, lock>>

(* Where a release continues *)
Cont(t) == CASE op[t].name = "copy_assign"      -> "ca_assign"
             [] op[t].name = "move_assign"      -> "ma_move"
             [] OTHER                           -> "idle"

(* release: cached_raw = std::exchange(m_raw, nullptr) *)
RelXchg(t) ==
  /\ pc[t] = "rel_xchg"
  /\ cached' = [cached EXCEPT ![t] = slot[t][op[t].j]]
  /\ SetSlot(t, op[t].j, Null)
  /\ Goto(t, IF slot[t][op[t].j] = Null THEN Cont(t) ELSE "rel_load")
  /\ UNCHANGED <<tmp, lastref, live, nref, len, coff, cval, items, bytes, lock>>

(* release: last_reference = 1 == nref.load(acquire) *)
RelLoad(t) ==
  /\ pc[t] = "rel_load"
  /\ lastref' = [lastref EXCEPT ![t] = nref[cached[t]] = 1]
  /\ Goto(t, "rel_dec")
  /\ UNCHANGED <<slot, tmp, cached, live, nref, len, coff, cval, items,
                 bytes, lock>>

(* Mutant: only the last_reference fast path deletes *)
DeletesFastOnly(last, n) == last

(* if (likely(last_reference) || --cached_raw->nref == 0) *)
Deletes(last, n) == last \/ n = 0

(* release: if (last_reference || --nref == 0) delete cached_raw *)
RelDec(t) ==
  /\ pc[t] = "rel_dec"
  /\ LET c   == cached[t]
         n2  == IF lastref[t] THEN nref[c] ELSE nref[c] - 1
     IN  /\ nref' = [nref EXCEPT ![c] = n2]
         /\ IF Deletes(lastref[t], n2)
            THEN live' = live \ {c} /\ RawDtorAccount(t, len[c])
            ELSE UNCHANGED <<live, items, bytes>>
  /\ cached' = [cached EXCEPT ![t] = Null]
  /\ lastref' = [lastref EXCEPT ![t] = FALSE]
  /\ Goto(t, Cont(t))
  /\ UNCHANGED <<slot, tmp, len, coff, cval, lock>>

(* operator=(const ptr&) after release: m_raw = bpraw *)
CaAssign(t) ==
  /\ pc[t] = "ca_assign"
  /\ SetSlot(t, op[t].j, tmp[t])
  /\ tmp' = [tmp EXCEPT ![t] = Null]
  /\ Goto(t, "idle")
  /\ UNCHANGED <<cached, lastref, live, nref, len, coff, cval, items, bytes,
                 lock>>

(* operator=(ptr&&) after release: take bptr's raw if it has one *)
MaMove(t) ==
  /\ pc[t] = "ma_move"
  /\ IF slot[t][op[t].k] # Null
     THEN slot' = [slot EXCEPT ![t][op[t].j] = slot[t][op[t].k], ![t][op[t].k] = Null]
     ELSE UNCHANGED slot
  /\ Goto(t, "idle")
  /\ UNCHANGED <<tmp, cached, lastref, live, nref, len, coff, cval, items,
                 bytes, lock>>

(* std::lock_guard lg(crc_spinlock) *)
CrcLock(t) ==
  /\ pc[t] = "lock"
  /\ SpinLock(t)
  /\ Goto(t, CASE op[t].name = "get_crc" -> "get_off"
               [] op[t].name = "set_crc" -> "set_off"
               [] OTHER                  -> "inv_off")
  /\ UNCHANGED <<slot, tmp, cached, lastref, live, nref, len, coff, cval,
                 items, bytes>>

(* get_crc: if (last_crc_offset == fromto); a miss returns false *)
GetOff(t) ==
  /\ pc[t] = "get_off"
  /\ IF coff[Raw(t)] = op[t].rg
     THEN Goto(t, "get_val") /\ UNCHANGED lock
     ELSE Goto(t, "idle") /\ SpinUnlock(t)
  /\ UNCHANGED <<slot, tmp, cached, lastref, live, nref, len, coff, cval,
                 items, bytes>>

(* get_crc: *crc = last_crc_val; return true *)
GetVal(t) ==
  /\ pc[t] = "get_val"
  /\ Goto(t, "idle") /\ SpinUnlock(t)
  /\ UNCHANGED <<slot, tmp, cached, lastref, live, nref, len, coff, cval,
                 items, bytes>>

(* set_crc: last_crc_offset = fromto *)
SetOff(t) ==
  /\ pc[t] = "set_off"
  /\ coff' = [coff EXCEPT ![Raw(t)] = op[t].rg]
  /\ Goto(t, "set_val")
  /\ UNCHANGED <<slot, tmp, cached, lastref, live, nref, len, cval, items,
                 bytes, lock>>

(* set_crc: last_crc_val = crc (the crc of the range's bytes) *)
SetVal(t) ==
  /\ pc[t] = "set_val"
  /\ cval' = [cval EXCEPT ![Raw(t)] = op[t].rg]
  /\ Goto(t, "idle") /\ SpinUnlock(t)
  /\ UNCHANGED <<slot, tmp, cached, lastref, live, nref, len, coff, items,
                 bytes>>

(* invalidate_crc: last_crc_offset = (max, max) *)
InvOff(t) ==
  /\ pc[t] = "inv_off"
  /\ coff' = [coff EXCEPT ![Raw(t)] = Null]
  /\ Goto(t, "idle") /\ SpinUnlock(t)
  /\ UNCHANGED <<slot, tmp, cached, lastref, live, nref, len, cval, items,
                 bytes>>

(***************************************************************************)
(* The specification.                                                      *)
(***************************************************************************)
Init ==
  /\ slot = [t \in Threads |-> [k \in Slots |-> Null]]
  /\ pc = [t \in Threads |-> "idle"]
  /\ op = [t \in Threads |-> NoOp]
  /\ tmp = [t \in Threads |-> Null] /\ cached = [t \in Threads |-> Null]
  /\ lastref = [t \in Threads |-> FALSE]
  /\ live = {} /\ nref = [r \in Raws |-> 0] /\ len = [r \in Raws |-> 0]
  /\ coff = [r \in Raws |-> Null] /\ cval = [r \in Raws |-> Null]
  /\ items = [s \in Shards |-> 0] /\ bytes = [s \in Shards |-> 0]
  /\ lock = [r \in Raws |-> Null]

(* A call a thread may start *)
Begin(t) ==
  \/ \E k \in Slots, n \in Lens : Create(t, k, n)
  \/ \E k, j \in Slots : CopyCtor(t, k, j) \/ MoveCtor(t, k, j)
  \/ \E k, j \in Slots : CopyAssign(t, j, k) \/ MoveAssign(t, j, k)
  \/ \E j \in Slots : Release(t, j)
  \/ \E k \in Slots, g \in Ranges, name \in {"get_crc", "set_crc", "invalidate_crc"} :
       CrcCall(t, k, name, g)
  \/ \E k, j \in Slots, u \in Threads : Handoff(t, k, u, j)

(* A step of the call the thread is in *)
Continue(t) ==
  \/ RelXchg(t) \/ RelLoad(t) \/ RelDec(t) \/ CaAssign(t)
  \/ MaMove(t) \/ CrcLock(t) \/ GetOff(t) \/ GetVal(t) \/ SetOff(t)
  \/ SetVal(t) \/ InvOff(t)

Next == \E t \in Threads : Begin(t) \/ Continue(t)

(* A thread that is in a call keeps running it; whether it starts another *)
(* call is up to the program.                                              *)
Spec == Init /\ [][Next]_vars /\ \A t \in Threads : WF_vars(Continue(t))

(***************************************************************************)
(* Properties.                                                             *)
(***************************************************************************)
Holders == Threads \X (Slots \cup {Tmp})

(* Holders as SharedOwnership sees them: every ptr slot and every bpraw *)
HoldOf == [h \in Holders |-> IF h[2] = Tmp THEN tmp[h[1]] ELSE slot[h[1]][h[2]]]

Own == INSTANCE SharedOwnership WITH Objects <- Raws, hold <- HoldOf

TypeOK ==
  /\ slot \in [Threads -> [Slots -> Raws \cup {Null}]]
  /\ live \subseteq Raws /\ nref \in [Raws -> Nat]
  /\ items \in [Shards -> 0..(2^SizeBits - 1)]
  /\ bytes \in [Shards -> 0..(2^SizeBits - 1)]
  /\ lock \in [Raws -> Threads \cup {Null}]

(* The ptrs sharing a raw behave as shared ownership: a raw is deleted   *)
(* only when no ptr (and no bpraw of an assignment in progress) refers   *)
(* to it, and a raw nobody refers to is eventually deleted, whatever the *)
(* interleaving of copies, assignments and releases on several threads. *)
RefinesOwnership == Own!Spec

(* nref counts the ptrs over the raw, plus the bpraw references of       *)
(* assignments in progress and the releases that have not decremented.   *)
NrefExact ==
  \A r \in live :
     nref[r] = Cardinality({h \in Holders : HoldOf[h] = r})
               + Cardinality({t \in Threads : cached[t] = r /\ pc[t] \in {"rel_load", "rel_dec"}})

(* The mempool counters of the raw pool, summed over shards, equal the   *)
(* number and total length of the live raws, though a raw created on one *)
(* thread's shard may be destroyed on another's.                          *)
Balanced ==
  /\ AllocatedItems = Cardinality(live)
  /\ AllocatedBytes = MapThenSumSet(LAMBDA r : len[r], live)

(* A get_crc hit returns the crc of the range it was asked for: no       *)
(* thread ever reads a value pair that belongs to another offset pair.   *)
CrcHitCorrect ==
  [][\A t \in Threads :
       pc[t] = "get_val" /\ pc'[t] # "get_val" => cval[Raw(t)] = op[t].rg]_vars

================================================================================
