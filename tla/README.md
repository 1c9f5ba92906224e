# TLA+ models of the ReplicaWBCache buffer layer

The repository implements a Ceph-style zero-copy buffer layer: `raw`
(reference-counted storage with a cached crc pair), `ptr` / `ptr_node`
(a view `[off, off+len)` of one raw), and `list` (an intrusive singly linked
list of `ptr_node`s with cached `_len`/`_num`, and an append tail cache
`_tail_pnode_cache`), plus crc32c, mempool accounting, a base64 codec
(`armor.c`) that the list uses for `encode_base64`/`decode_base64`, and
`compact_set`/`compact_map`, std containers allocated on first use.

## How the parts interact

* A `list` owns its `ptr_node`s; several nodes, in one list or several, may
  view the same `raw`, whose `nref` counts them. `ptr::release`
  (`buffer_ptr.cc:14-29`) frees the raw when the last view goes.
* `list::append(char|data|zero)` writes into the unused tail of the raw
  behind `_tail_pnode_cache`. When the cache is not the back node (after a
  `push_back`, `claim_append` or a move) it first pushes an empty node over
  the cached raw's end (`buffer_list.cc:724-730`); when there is no room it
  allocates a fresh `raw_combined` (`refill_append_space`).
* A shared ptr appended with `push_back(const ptr&)` never becomes the tail,
  so two lists never append into the same raw space.
* `list::crc32c` caches, per raw, the crc of a `(from, to)` range under a
  seed, and reuses it for another seed through the linear adjustment
  `crc(v') = crc(v) ^ crc32c(0^len, v ^ v')` (`buffer_list.cc:1398-1410`).
  Every write into a raw must invalidate its cache.
* A raw may be shared across threads: each thread copies, assigns and
  releases its own `ptr`s, and `nref` is atomic. `release`
  (`buffer_ptr.cc:19-26`) deletes without decrementing when it loads
  `nref == 1`. The crc pair is guarded by `crc_spinlock`. Construction and
  destruction of a raw adjust the mempool counters of the shard picked by
  the calling thread (`mempool.h:125-161`).
* `write_file` opens a file and calls `write_fd(fd)`, which gathers up to
  `IOV_MAX` nodes per `writev` and resumes after short writes.
  `write_fd(fd, offset)` batches the nodes for `do_writev`, which loops
  on `pwritev`.
* `read_file` and `pread_file(off, len)` open a file, `fstat` it to size
  the read (`pread_file` checks the offset, clamps the length and
  `lseek64`s), and call `read_fd`, which `safe_read`s into one fresh
  buffer and `push_back`s it onto the list.
* `encode_base64`/`decode_base64` size an output `ptr` from the input
  length, call `spec_armor`/`spec_unarmor` on `c_str()` of the input list
  (which rebuilds a list of several nodes into one) and push the result.
* `claim_buffer(len, buf, del)` wraps memory the caller owns in a
  `raw_claim_buffer` that holds a `deleter`; destroying the raw destroys
  the deleter, which carries out its chain of actions. A deleter is a
  reference-counted chain of impls: `share()` adds a reference,
  `append(d)` links `d` at the end of the chain (wrapping an impl another
  deleter shares), and the last reference to go runs the impl's action.

## Modules

| Module | Models | State |
|---|---|---|
| `BufferList` | `list`, `ptr`, `raw`, buffer creation, crc32c | `raw` (per raw id: live, capacity, base residue, bytes, nref, cached crc), `node` (per ptr_node id: live, raw, off, len), `bl` (per list: node sequence, len, num, tail cache), `fault` (undefined behaviour reached), `hole` (an outstanding `contiguous_filler`), `digest` (return value of the last `crc32c`), `app` (the live `contiguous_appender` or `page_aligned_appender`, or `NoApp`) |
| `BuffersT` | `list::buffers_t`, the intrusive singly linked list of `ptr_node`s under every list (`buffer_list.h:25-256`), with the list constructors and destructor | `next` (`ptr_hook::next` of every `_root` and node), `tail` (`_tail` per object), `born` (constructed objects), `held` (nodes created or unlinked by `erase_after` and in no list) |
| `SeqLists` | what `buffers_t` promises (abstract): a node sequence per object | `seqs`, `born`, `held` |
| `ListIterator` | `list::iterator_impl` / `iterator` (`buffer_list.cc:55-331`) | `nodes` (the list as node contents), `it` (`m_list_it`, `m_r_off`, `m_a_off`), `last` (what the last call returned) |
| `ListCompare` | `contents_equal` (both overloads), `operator==, !=, <, <=, >, >=` | two lists `a`, `b`, the operation `op` and its result `res` (`"hang"` for a loop that cannot progress, `"ub"` for reading the end hook) |
| `WriteFd` | `write_file`, `write_fd(fd)`, `write_fd(fd, offset)`, `do_writev`, `read_file`, `pread_file`, `read_fd` (`buffer_list.cc:1135-1380`) | the list, the program counter of the one calling thread, the iovec batch and its start, the byte counters, the file (position to byte), fd open/closed, for reads the file's bytes, kind (regular or pipe), current size, the offset and length asked, the read buffer and its fill count, whether the device has failed for good, the return value |
| `RawRefcount` | `ptr` constructors, `operator=`, `release` (`buffer_ptr.cc:14-108`); `raw` ctor/dtor and crc cache (`buffer_raw.h`); `spinlock`; mempool shard counters (`mempool.h:117-161`) | per thread: ptr slots, pc, current call, `bpraw`, `cached_raw`, `last_reference`; per raw: live, `nref`, `m_len`, crc offset and value pairs, spinlock owner; per shard: `allocated_items`, `allocated_bytes` |
| `SharedOwnership` | what reference counting promises (abstract) | `hold` (holder -> object), `live` |
| `ListCodec` | `spec_armor_line_break`, `spec_armor`, `spec_unarmor` and their helpers (`armor.c`); `list::c_str`, `encode_base64`, `decode_base64` (`buffer_list.cc:888-1041`) | the lists `x` (encoded), `y` (its text, or a text to decode) and `z` (decoded bytes), the caller's next call `pc`, and how each call ended (`encRes`, `decRes`: ok, ERANGE, EINVAL, the `spec_assert` abort, or `"ub"` for `c_str()` reading the root hook) |
| `CompactSet` | `compact_set_base` (`compact_set.h`) | `born` (constructed containers), `mset` (each `m_set`: an address or `Null`), `heap` (per address: allocated, elements), `iter` (the client's iterators: `_set`, the tree of `_it` and its node, `Null` for a singular `_it`), `seen` (what the last `*it` or `==` returned), `fault` |
| `StdSet` | what `compact_set` promises (abstract): `std::set` per container | `alive`, `contents` |
| `CompactMap` | `compact_map<Key, T>`, i.e. `compact_map_base` over `std::map` (`compact_map.h`) | `born`, `mmap` (each `m_map`), `heap` (per address: allocated, the map as a function from keys to values), `iter` (`_map`, the tree of `_it` or `Gone` once `std::map` invalidated it, and its position), `fault` |
| `StdMap` | what `compact_map` promises (abstract): `std::map` per container | `alive`, `contents` (a function from keys to values) |
| `UTime` | `utime_t`'s integer members (`time/utime.h`) and `spec_clock_now` (`clock/spec_clock.h`), with scaled widths | `t` (each object's `tv_sec`, `tv_nsec`), `ns` (ghost: the nanoseconds each value should stand for, or `Sat`) |
| `Deleter` | `deleter` (`include/deleter.h`): the constructors, move, `operator=(&&)`, `reset`, the destructor with the cascade through `obj` and `next`, `share`, `append`, `make_deleter`, `make_free_deleter`, `make_object_deleter` | `heap` (per impl address: `refs`, `next`, its action or `NoAct`, `obj`; or `Dead`), `hold` (each deleter variable's `_impl`: `Null`, an address, or a tagged raw object), `ran` (times each action was carried out), `made`, `uaf` (a destructor touched a freed impl) |
| `DeleterSpec` | what a deleter promises (abstract): the actions each deleter encapsulates | `own`, `done` |
| `MCStructuralParts` | `BufferList`'s structural operations, `WriteFd`, `Deleter` and `CompactMap` as four parts; `Init` picks the part | the four modules' variables (the instances' renamed with `fd_`, `dl_`, `cm_`) and `part` |
| `MCCrcParts` | `BufferList`'s crc steps, its appenders, `BuffersT` and `UTime` as four parts of one model; `Init` picks the part | the four modules' variables and `part` |
| `MCSequentialParts` | `ListIterator`, `ListCompare`, `ListCodec` and `CompactSet` in one model, each instantiated; `Init` picks the part | the four modules' variables and `part` |
| `MC*` | model values and definitions for TLC | |

`BufferList` is written in a "world" style: `W` is the record of all state,
each list operation is an operator `W -> W` translated from the C++
function (loops are `RECURSIVE` operators), and an action `DoX` applies one
whole operation atomically with inputs drawn from small sets. Allocation
chooses a free id; when the pools run out the operation writes into an
overflow slot and `Apply` refuses the step, so bounds never produce fake
states. Undefined behaviour the code can reach (reading the list's root hook
as a node, writing through a freed tail node) sets `fault`; after that only
the stutter `Halted` is enabled.

Data is abstracted: bytes are `{1}` in structural runs, the alloc unit,
header, page size and alignment are scaled down (`AllocUnit = 3`,
`Header = 1`, `PageSize = Align = 2`), and crc32c is a reflected linear CRC
of width 2 or 3 over 2-bit bytes. It keeps what the code relies on: linearity
in the seed, and `spec_crc32c(c, NULL, len)` meaning zeros.

The appenders (`buffer_list.h:403-573`) are part of `BufferList`. A
`contiguous_appender` is a record holding what the C++ object holds: the
list, the tail `ptr_node` whose `m_len` it bumps, `_space.bptr_data` and
`_pos` as offsets in that node's raw, `_deep_copy`, `_out_of_band_offset`
and the length the caller reserved. Its actions are the constructor
(`obtain_contiguous_space(len)`), `append` of bytes (a memcpy at `_pos`),
`append` of a ptr and of a list (deep: a memcpy; otherwise
`flush_and_continue`, the list's own append, `obtain_contiguous_space(0)`
again and the out-of-band count), and the destructor's flush. While it
lives, its list is changed only through it, as the C++ object's raw
pointers require. A `page_aligned_appender` owns a ptr `_buffer` (a raw
reference the ownership invariant counts) and `_pos`/`_end`; its `append`
loop opens a page buffer of at least `min_pages` pages, copies, and hands
a full buffer to the list; `flush` appends the written part and moves
`_buffer` past it; the destructor flushes and releases `_buffer`. Both
carry a ghost `want`, the list's content at construction followed by every
byte appended through the appender.

`BuffersT` keeps the pointers: every hook's `next` and every object's
`_tail`, with a `_root` named by its object. Each member function is an
operator over the record of them, written from its assignments in order,
so that `swap`'s and the move constructor's redirection of an empty side
to its own `_root` is modelled as written. The node sequence of an object
is the walk from `_root.next` back to `_root`. Through
`INSTANCE SeqLists WITH seqs <- Seqs`, the property `RefinesSeqLists`
checks that every call changes these sequences as the abstract call does.
A wrong `_tail` shows at the next `push_back`; a root or tail left pointing
into the other object shows as a walk that never comes back to its own
`_root`.

`UTime` scales the widths: a second is `NS` nanoseconds and a uint32 has
`U32Bits` bits, with `2 * NS < 2^U32Bits` as in the code, where two
`tv_nsec` values of at most a second each fit in a uint32. `time_t` and
`uint64_t` hold every intermediate value and are plain integers; every
store into a uint32 member is `% 2^U32Bits`. Each operator is written from
its function: `normalize` carries only a `tv_nsec` over `NS`, `+` and `+=`
saturate through `cap_to_u32_max`, and `-` and `-=` borrow a second and
wrap. Each call writes its result into one of two objects, and the ghost
`ns` records the reference answer computed from the operands' `to_nsec()`.

`ListIterator` and `ListCompare` are in the usual state-machine style.
Each iterator member function is one atomic action and its loops are
`RECURSIVE` operators. The list may grow behind the iterator through the
appends that keep intrusive-list iterators valid. The comparisons are pure
operators over two lists of up to three nodes, split in every way,
empty nodes included.

`ListCodec` writes the armor loops as `RECURSIVE` operators over byte
sequences; shifts and masks are integer division and remainder by powers
of two. `Put` is `set_str_val` with `SET_DST`'s early return of `-ERANGE`.
`EncodeBase64`/`DecodeBase64` are whole calls: the output capacity from the
input length, `c_str()` of the input (one node kept, several rebuilt into
one, none of length 0 left after a rebuild of empty nodes: undefined), the
codec, then `push_back` of the result, which skips an empty ptr.
`RefBase64` is an independent reference: base64 from each 24-bit group
number and an alphabet built from character ranges.

`CompactSet` keeps the inner `std::set` objects at addresses, so the
model can tell a freed and reallocated set from the one an iterator was
taken from. `alloc_internal` may return any address not in use, the old
one included. Each member is an operator over the record of `mset` and
`heap`, and each client call (a member, or an iterator operation on a
held iterator) is one action. `std::set`'s own behaviour (ordered
elements, `End`, undefined uses of singular, freed or foreign iterators)
is taken from the standard library; a use it leaves undefined, or a
failed `spec_assert`, sets `fault` and the model stops. Through
`INSTANCE StdSet WITH contents <- [c \in Conts |-> Contents(c)]` the
property `RefinesStdSet` checks that every call changes the contents as
the `std::set` call does.

`CompactMap` is built the same way over `std::map`, with two differences.
A map is a function from keys to values, so `emplace` keeps the value of
a present key (`KV @@ (k :> v)`). And the model invalidates iterators as
`std::map` does: a call that erases a node, replaces the nodes
(`operator=`) or frees the map sets the `buf` of every iterator into them
to `Gone`, so an iterator into a freed map stays invalid even when the
same address is allocated again. The const members (`empty`, `size`,
`count`, `==`, `*it`, `it == other`) change nothing and are checked only
for the undefined uses that set `fault`. `RefinesStdMap` checks, through
`INSTANCE StdMap`, that every call changes the contents as the `std::map`
call does.

`WriteFd` models one calling thread, step by step at each system call.
Every answer the kernel may give is a nondeterministic choice:

* `writev`/`pwritev` accepts any prefix of the batch;
* a call fails with `EINTR`;
* the device fails for good (`Break`), after which every call fails with
  an error other than `EINTR`;
* `open` and `close` succeed or fail;
* `fstat` fails once the device has failed; `lseek64` fails on a pipe;
* `safe_read` returns any number of bytes up to what is left of the
  count and of the file, 0 at end of file, or an error;
* another process truncates the file between `fstat` and the end of
  the read (`Truncate`), so the read can end early.

`safe_read`'s own source is not in the repository. It is modelled from the
contract in `safe_io.h`: it retries on `EINTR` and returns `-errno` on other
errors.

`RawRefcount` is the one concurrent model. Threads hold ptr slots and run
the `ptr` operations, split at every access to the atomic `nref`:

* `release` is three steps: the exchange, the `load`, then the
  decrement and delete;
* `operator=(const ptr&)` takes its reference, releases, then assigns.

The crc cache is several words under `crc_spinlock`, and each access
under the lock is one step. `Handoff` passes a ptr object from one thread
to the other, as a queue or a join would. That step is synchronised, and
it is what lets two threads share a raw. Creating and deleting a raw
adjust the counters of the calling thread's shard, in `size_t`
arithmetic, with the destructor's `-(int)m_len`. Integers keep their
widths: `IntBits` for int and `SizeBits` for size_t. `HoldOf` maps every
ptr slot and every `bpraw` to the raw it holds. Through
`INSTANCE SharedOwnership WITH hold <- HoldOf`, the property
`RefinesOwnership` checks that the threads implement the abstract
specification.

## Runs

| Run | cfg | Result | Shows |
|---|---|---|---|
| structural_parts | `MCStructuralParts.cfg` | pass (≈207k states, 2.3 min with coverage) | Structural part: `CountersExact`: `_len`/`_num` match the nodes; `OwnershipSound`: every live node is in exactly one list once, nref counts the live nodes over a raw and a raw is live iff referenced; `AppendSpaceExclusive`: no two lists' tail caches (or a tail and another node) can write into the same raw bytes; `AppenderSpaceHeld`: a live `contiguous_appender`'s node is its list's tail and back node, its `bptr_data` is that node's end, and the space it reserved fits in the raw; `RebuildAlignedExact`: from every reached state, `rebuild_aligned(Align)` would leave every node of the list aligned in memory (`list::is_aligned`) and every list's bytes as they were (the postcondition the spec states for it). fd part: `PlacedAtOffset`: every byte written lands at its place, short writes resumed mid-iovec included; `SuccessWritesAll`: 0 is returned only with the whole list in the file; `ReadGetsFile`: `read_file` and `pread_file` push a prefix of the file from the offset on, all of it (clamped to the length asked) unless the file shrank meanwhile; `FdReleased`: `write_file` and `read_file` close the fd on every path after a successful open; `CallsReturn`: `write_file`, `read_file` and `pread_file` eventually return, device failure included. Deleter part: `RefsExact`: every impl's `refs` is the number of variables, `next` and `obj` members holding it; `ActionsRunSafely`: an action runs at most once, never while a deleter still reaches it, and no destructor touches a freed impl; `NoLeak`: once every variable is empty, no impl is live and every action made has run. Compact map part: `InnerMapsExact`: an inner map is allocated exactly while one constructed container points to it and it is non-empty; `RefinesStdMap`: every call changes the contents as `std::map` does |
| crc | `BLCrc.cfg` (`MCCrcParts`) | pass (≈311k states, about 2.5 min with coverage) | `CrcCacheSound`: each cached crc pair is the crc of the raw's current bytes; `DigestCorrect`: `crc32c(seed)` returns the crc of the list content, cache hits and seed adjustment included; `AppendedExact`: while an appender lives, the list followed by its unflushed bytes is exactly what was appended, and the list length and `_out_of_band_offset` agree; `OwnershipSound` (as in structural, with the page appender's `_buffer` counted); `RefinesSeqLists`: the `buffers_t` calls implement `SeqLists`; `ArithmeticExact`: `utime_t`'s `+`, `+=`, `-`, `-=` give the exact sum, `UINT32_MAX` seconds past the largest time, or the difference modulo 2^32 seconds; `OrderExact`: the comparisons agree with `to_nsec()` for `tv_nsec` below a second |
| tail_cache | `BLTailCache.cfg` | violation | `rebuild_aligned` disposes the tail node but keeps `_tail_pnode_cache` |
| substr | `BLSubstr.cfg` | violation | `substr_of`'s `while (len >= 0)` runs past the last node |
| crc_fill | `BLCrcFill.cfg` | violation | `contiguous_filler::copy_in` writes without `invalidate_crc` |
| sequential_parts | `MCSequentialParts.cfg` | pass (≈400k states, 3.3 min with coverage) | Iterator: `OffsetTracksPosition`: `m_a_off` agrees with `(m_list_it, m_r_off)` through failed advances and list growth; `ReadsCorrect`: every read returns the list's bytes at `m_a_off` and throws only when the list is too short; `WritesExact`: `copy_in` overwrites exactly its range. Comparison: `ListComparisonsCorrect`: `==`/`!=` decide byte equality and `<`, `<=`, `>`, `>=` are the lexicographic order of the bytes (under the build's char), for every node split. Codec: `EncodeIsBase64`: a successful `encode_base64` pushes the reference base64 of the list; `DecodeInvertsEncode`: decoding that text gives back the list's bytes; `BuffersSuffice`: neither call runs out of its output buffer or fails its `spec_assert`. Compact set: `InnerSetsExact`: an inner set is allocated exactly while one constructed container points to it and it is non-empty; `RefinesStdSet`: every call changes the contents as `std::set` does |
| contents_equal | `LCContentsEqual.cfg` | violation | `contents_equal(other)` never advances `other` past its first node (`>` for `>=`, `buffer_list.cc:431`) and reads the end hook of an empty `other`; `contents_equal(buf, 0)` on an empty list returns false |
| cstr_empty_nodes | `LCCStr.cfg` | violation | `CStrDefined`: `encode_base64` of a list of two empty nodes reaches `c_str()`, whose `rebuild()` leaves no node, and `front()` reads the root hook |
| pread_fd_leak | `WFPreadLeak.cfg` | violation | `pread_file` returns `-errno` after a failed `lseek64` (a pipe as the file name) without closing its fd |
| do_writev_retry | `WFDoWritevRetry.cfg` | violation | `do_writev`'s `if (errno = EINTR)` retries every error, so after a permanent failure `write_fd(fd, offset)` never returns (`WriteFdOffsetReturns`) |
| deleter_share_append | `DeleterShareAppend.cfg` (`MCDeleter`) | violation | `RefinesDeleterSpec`: after `s = d.share()` on a deleter with a `next`, `d.append(e)` wraps the shared impl but moves its `next` out, so `s` no longer encapsulates that action and destroying `d` runs it while `s` lives |
| raw_refcount | `MCRawRefcount.cfg` | pass (≈801k states, 1.5 min) | `NrefExact`: `nref` equals the ptrs and `bpraw`s holding the raw plus the releases that loaded but have not decremented; `Balanced`: items and bytes summed over shards equal the live raws, though a raw may die on another thread's shard; `CrcHitCorrect`: a `get_crc` hit returns the value stored for the range it asked for; `RefinesOwnership`: the ptrs implement `SharedOwnership` (no raw deleted while held, every unheld raw deleted) |

`MCStructuralParts` runs four parts from their own initial states. The
idle fd part sits in a state the fd part reaches itself (a `write_file`
whose `open` failed), so the fd properties and `CallsReturn` hold of it
and the four state spaces add rather than multiply. The instances'
variables carry the prefixes `fd_`, `dl_` and `cm_` because `BufferList` uses
`nodes`, `b`, `heap` and others as bound names.

The structural part tells states apart by everything but the bytes in the
raws (`VIEW PartsView`, built on `StructView`): no structural operation's guard and none of
its invariants read the bytes, so states that differ only in bytes have
the same futures up to bytes.

The structural run includes the `contiguous_appender`, live on one list
at a time while the other list keeps changing. The `page_aligned_appender`
is checked in the crc run, because with it the structural state space
exceeded the time bound.

`MCCrcParts` runs four parts, the first two from `BufferList`'s initial state. The crc part
is the writes, zeroing (of a range, and `list::zero()`), `invalidate_crc()`, appends and splices of the earlier crc run. The
appenders part creates, uses and destroys both appenders, with `append`,
`push_back`, `splice`, `clear` and `crc32c` allowed between appenders. It
has four ptr_node ids, because a non-deep `append(ptr)` needs a fourth node
for the out-of-band copy. The bound `CrcPartNodes = 3` keeps every other
step to three live nodes. The third part runs `BuffersT` with two
objects and three nodes of its own. That is enough for a one-node list
spliced, swapped or moved onto another, an erase after the root, the
middle or the tail, and a clone that reuses the target's ids. The fourth
part runs `UTime` on two objects with `NS = 3` and `U32Bits = 3`. Clock
readings and constructed values cover every second (`0..7`), so sums
reach the cap and differences go below zero. The nanosecond arguments of
`utime_t(s, n)` run over `0..2*NS`, so they include exactly one second
and more than one.

`MCSequentialParts` puts four independent single-threaded parts in one
model: `Init` picks a part and its initial states, the other parts stay at
theirs, and only the chosen part's actions are enabled. Each part therefore
runs as it would in a model of its own.

Each property of a passing run has a mutant in `PROJECT.json`: a plausible
bug in one mapped operator, which TLC then finds. Examples: splice
forgetting to subtract the front part, push_back of a copy becoming the
tail, the crc adjustment dropping the seed, `+=` advancing before it
throws, write_fd dropping its final flush, a copy constructor without
`nref++`, a spinlock that does not test the flag, and `release` deleting
only on its fast path, `encode_bits` off by one in the lower case,
`spec_unarmor` testing the fourth char for `=` before the third, the encode
buffer one char short, `erase(iterator)` without the free of an emptied
set, and `alloc_internal` without its `if (!m_set)`, `obtain_contiguous_space`
taking a new node only when the tail is full, `flush_and_continue`
forgetting the list's `_len`, `~page_aligned_appender` leaking
`_buffer`, and `buffers_t::swap` without resetting each tail's `next`, `-=` without the
borrowed second, `operator<` true for equal times, and `rebuild_aligned`
keeping a one-node group without testing its alignment.

## Bounds

Two lists, two raws, three ptr_node ids, lists of at most two nodes,
payloads of one or two bytes. This is enough for every interesting shape:
one raw viewed by nodes of two lists, a tail cache that is not the back
node, a raw whose unused tail is reachable from two places, a node split
by splice/substr, an aligned and an unaligned node side by side. The crc runs
use one list, so that cache hits and seed adjustment happen within the
bounds. Raws and ptr_node ids are symmetric: allocation takes any free id,
no guard or property names a particular id, so permuting ids maps reachable
states to reachable states. The two lists are symmetric for the same reason.
Appenders reserve up to `MaxLen = 2` bytes and use one-page minimum allocations
(`PageSize = 2`), so a page buffer fills and closes after two bytes and a
flush can leave it partly handed over.

The later models have bounds of their own.

* `ListIterator` and `ListCompare` use lists of up to three nodes of up
  to two bytes, with empty nodes allowed. Every split and end case occurs
  at this size: an empty node, a node boundary, the last node, and a
  prefix.
* `WriteFd` uses up to three nodes with `IOV_MAX = 2`, which gives two
  batches, a last batch of exactly `IOV_MAX`, and short writes inside an
  iovec. It uses offsets 0 and 1. Reads use files of up to three bytes
  (regular, or a pipe whose `st_size` is 0), offsets 0, 1 and 3 (inside,
  at and past the end of short files) and lengths 1 and 3 (clamped and not
  clamped). The list starts empty or with one node, so the pushed node
  follows existing content.
* `ListCodec` encodes lists of up to four bytes (a full group and a group
  of one, so both paddings occur) split into up to two nodes, empty nodes
  included. The byte values 0, 105, 150 and 255 differ in every bit
  position that a shift or mask separates. It decodes texts of up to five
  chars over a letter, `=`, `*` (invalid) and newline. The output
  capacity follows the code's formula, so a buffer one char short shows.
* `CompactSet` uses two containers and two elements, which is enough for
  swap, assignment from an empty and a non-empty set, and an erase that
  empties. It uses two addresses, so a freed address is either reused or
  the other free one is taken, and two iterator variables, so an iterator
  can be compared with another and used after the set changed.
* `CompactMap` (in `MCStructuralParts`) uses two containers, two keys,
  two values, two addresses and one iterator variable. Two values are
  needed to tell an `emplace` that keeps a value from one that overwrites
  it; two keys give `lower_bound`, `upper_bound`, `++`, `--` and an erase
  that does not empty. One iterator is enough for the uses after `swap`,
  erase and free; a second multiplied the part's states by twenty and the
  run's time past its bound.
* `Deleter` uses three variables, three actions and four impl addresses:
  a chain of two impls (a raw object turned into a `free_deleter_impl`,
  and a lambda), a second variable sharing it, a third appended to it, and
  the wrapper `append` allocates. A step that would allocate a fifth impl
  is not taken.
* `RawRefcount` uses two threads on two shards, with two ptr slots each
  plus a `bpraw`, one raw that is reused after it is freed, one range, and
  lengths of 1. `IntBits = 2` and `SizeBits = 4` keep the casts real:
  a raw created on one shard and freed on the other wraps that shard's
  `size_t` counter.

## Fairness

`BufferList`, `ListIterator`, `ListCompare`, `ListCodec`, `CompactSet` and `CompactMap`
check safety only: each operation runs to completion in the calling
thread. In `MCSequentialParts` the codec's caller stutters once both calls
have returned (`CodecDone`), so deadlock is checked there. The `c_str()`
violation run (`MCListCodec`) sets `CHECK_DEADLOCK FALSE`, because a call
sequence ends.

`WriteFd` assumes weak fairness of `Call`, the steps of the one calling
thread. The device failing (`Break`) and another process truncating the file (`Truncate`) are not fair: they may never happen.
`CHECK_DEADLOCK FALSE` is set in `MCStructuralParts` because the call ends when it returns; the fairness is `WF` of the fd part's `Call`. `Deleter` checks safety only: each call runs to completion in one thread.

`RawRefcount` assumes weak fairness of each thread's `Continue(t)`. A
thread inside a `ptr` or crc call keeps executing that call. Whether it
starts another call is up to the program, so `Begin` is not fair. A thread
spinning on `crc_spinlock` waits only while the lock is held, and the
holder finishes its call under its own fairness.
`SharedOwnership` makes `Free` weakly fair, for every object. This is the
promise that an unreferenced raw is deleted, which `release` keeps within
the call that drops the last reference.

## Not modelled

* The appenders' `get_pos`/`get_pos_add` (the caller writes through a raw
  pointer) and `contiguous_appender::append(p)` where `p` is the appender's
  own tail node. In that case `plen` is read before the flush grows the
  node, which is listed as a hazard.
* The `page_aligned_appender` interleaved with every list mutation. The crc
  run lets only `crc32c` run beside it; see the hazard list.
* `get_contiguous_appender(0)` on a list whose tail cache is
  `always_empty_bptr` wraps that ptr and fails `spec_assert(m_raw)`
  (`buffer_list.cc:858`). The model records this as the fault
  `appender_no_raw`, which the structural run reaches. No run has it as a
  property, because every run slot is taken; it is listed as a hazard.
* `safe_read`'s loop itself (not in the repository), `hexdump` and
  `write_stream`. `spec_armor_line_break` is modelled with its line width,
  but `list` calls it only with width 0.
* `DerefDefined` of `ListIterator` is not a run: `get_ptr_and_advance`
  can rest on an empty node left by `reserve`, after which `operator*`
  fails `spec_assert`. It is listed as a hazard.
* `raw::set_len` and `reassign_to_mempool`: no code of the buffer layer
  calls them.
* Mempool `pool_allocator`.
* `compact_set`'s reverse iterators (the same code over
  `reverse_iterator`) and its `operator<<`. `operator<<` could not be
  instantiated: it calls `cbegin`, which the class does not have, and its
  loop never increments.
* In `compact_map`: the reverse iterators; `operator[]`, which refers to a
  member `this->map` that does not exist; `insert`, which passes the pair
  `std::map::insert` returns to `iterator`'s constructor and so does not
  compile for `std::map`; and `operator<<`, which calls `cbegin`. Each
  compiles only while never called. `compact_multimap`: `std::multimap`
  keeps equal keys in insertion order, which needs node identities the
  map model does not have. The const queries are left out because they
  change nothing. No code of the repository instantiates either
  container.
* The iterators' agreement with `std::set` is not a run. After `swap`,
  `erase` of an iterator fails `spec_assert(this == p._set)`. An `end()`
  taken before the first insert, or before the set was freed and
  reallocated, compares unequal to the new `end()`. This is listed as a
  hazard.
* utime: its `double` operations (`operator double`, `set_from_double`,
  `+=`/`-=` of a double) cannot be represented faithfully in TLC. The
  `timeval` conversions are not modelled either, because a scaled second is
  not a whole number of microseconds. `operator<<` only formats. Only the
  tests use `utime_t`.
* `normalize()` tests `tv_nsec > 1000000000`, so a value of exactly one
  second stays in `tv_nsec`. `UTime` reproduces this, which is why
  `OrderExact` is stated only below a whole second. It is listed as a
  hazard and is not a run: the tests only subtract clock readings, whose
  `tv_nsec` is always below a second.
* `deleter`'s thread safety: `refs` is atomic, but the model runs each call
  atomically, as the only user, `claim_buffer`, hands its deleter to one
  `raw_claim_buffer`.
* Arch probing and diagnostics: I/O.

`PROJECT.json` lists every component and why it is or is not modelled.

* The spec says `rebuild_aligned_size_and_memory` "leaves
  already-aligned/sized nodes untouched". The code's do-while loop pulls an
  aligned node into a group whose length so far is not a multiple of
  `align_size`, and copies it. TLC showed this while `RebuildAlignedExact`
  was being written. The property states the postcondition the spec gives
  for `rebuild_aligned` (aligned nodes, same bytes), and the "untouched"
  wording is left out of it.

## Findings

Each violation run above is a disagreement between the code and what the
spec or the code's own comments say. Each is described in
`PROJECT.json` ("findings").

The mempool cast is not a run. With a `Lens` value of `2^(IntBits-1)` or
more, `Balanced` fails, because `~raw` gives back `-(int)m_len`. In the
code this means a buffer of 2 GiB or more leaves `allocated_bytes` off.
It is listed as a hazard.

## Next steps

* A run for the iterators' agreement with `std::set` and `std::map` after `swap`.
* A violation run for `get_contiguous_appender(0)`.
* A run for `DerefDefined`.
* `ptr` offset and length arithmetic under concurrent `append`.
* Wider crc ranges in `RawRefcount`.

