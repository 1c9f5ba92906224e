------------------------------- MODULE WriteFd -------------------------------
(***************************************************************************)
(* A list and a file: list::write_file(fn, mode) with list::write_fd(fd),  *)
(* list::write_fd(fd, offset) with do_writev, and list::read_file and     *)
(* list::pread_file with list::read_fd and safe_read                       *)
(* (src/common/buffer/buffer_list.cc:1129-1381, src/include/safe_io.h).   *)
(*                                                                         *)
(* write_fd(fd) gathers the non-empty nodes into an iovec array of at     *)
(* most IOV_MAX entries and hands each batch to writev at the fd's file   *)
(* position; write_file opens the file (no O_TRUNC, so at position 0)     *)
(* before and closes it after.  write_fd(fd, offset) takes the nodes in   *)
(* batches of min(left, IOV_MAX), empty nodes included, and do_writev     *)
(* calls pwritev at the batch's offset.  Both recover from a short write  *)
(* by dropping the entries written and trimming the first one left.       *)
(*                                                                         *)
(* read_file opens the file, stats it and reads st_size bytes with        *)
(* read_fd, which pushes one node of what safe_read returned.  pread_file *)
(* also clamps its length to the file, and seeks to its offset first.    *)
(*                                                                         *)
(* One thread runs one of the four calls (fn).  The kernel's answers are  *)
(* the nondeterministic choices: any non-empty prefix written or read, or *)
(* EINTR; the fd may fail for good (a device error) at any moment, after  *)
(* which every writev, pwritev, read, fstat and close fails with EIO; the *)
(* file read may be a pipe, which fstat reports empty and lseek refuses;  *)
(* and another process may truncate the file while it is being read.     *)
(***************************************************************************)
EXTENDS Integers, Sequences, SequencesExt

CONSTANTS
  Bytes,        \* byte values, none of them 0 (0 marks a byte not written)
  IovMax,       \* IOV_MAX
  MaxNodes,     \* bound on the nodes of the list
  MaxNodeLen,   \* bound on the bytes of a node
  MaxTotal,     \* bound on the bytes of the list
  WriteOffsets, \* the offsets write_fd(fd, offset) may be called with
  ROffsets,     \* the offsets pread_file may be called with
  RLens         \* the lengths pread_file may be called with

ASSUME /\ IovMax \in Nat \ {0} /\ 0 \notin Bytes /\ WriteOffsets \subseteq Nat
       /\ ROffsets \subseteq Nat /\ RLens \subseteq Nat

VARIABLES
  nodes,    \* the list written or read into, each node its bytes
  fn,       \* the call: "write_file", "write_fd_offset", "read_file" or
            \* "pread_file"
  off0,     \* where the list goes: 0 for write_file, the offset argument
            \* (also pread_file's off)
  pc,       \* where the call is
  b,        \* bptr: index of the next node to gather
  left,     \* left_pbrs
  iov,      \* the gathered entries, each the bytes it points at
  st,       \* start (vec): index of the first entry not yet written
  bytes,    \* write_fd's bytes
  dbytes,   \* do_writev's bytes
  offset,   \* write_fd(fd, offset)'s offset: where the batch starts
  pos,      \* where the next write lands: the fd's position, do_writev's offset
  file,     \* the file: position -> byte written there, 0 if none
  fdopen,   \* whether the call holds the fd it opened
  broken,   \* whether the fd has failed for good
  ret,      \* the call's return value
  disk,     \* the file read: its bytes
  kind,     \* "regular" or "pipe"
  fsize,    \* the file's length now (another process may truncate it)
  len0,     \* pread_file's len argument
  rlen,     \* its len after clamping; read_fd's len
  rpos,     \* the read position of the fd
  buf,      \* read_fd's new buffer, rlen bytes, 0 where nothing was read
  cnt       \* safe_read's cnt

vars == <<nodes, fn, off0, pc, b, left, iov, st, bytes, dbytes, offset, pos,
          file, fdopen, broken, ret, disk, kind, fsize, len0, rlen, rpos, buf,
          cnt>>

rvars == <<disk, kind, fsize, len0, rlen, rpos, buf, cnt>>

Node == UNION {[1..k -> Bytes] : k \in 0..MaxNodeLen}
Lists == {s \in UNION {[1..n -> Node] : n \in 0..MaxNodes} :
            Len(FlattenSeq(s)) <= MaxTotal}

MinOf(x, y) == IF x < y THEN x ELSE y

Pos == 0..(Max(WriteOffsets \cup {0}) + MaxTotal - 1)

(* The files a read may find, and the lists it may read into *)
Files == UNION {[1..n -> Bytes] : n \in 0..MaxTotal}
ReadLists == {<<>>} \cup {<<<<x>>>> : x \in Bytes}

Content == FlattenSeq(nodes)

(* The bytes of entries s .. Len(v) of an iovec array *)
Pending(v, s) == FlattenSeq(SubSeq(v, s, Len(v)))

(* writev / pwritev writing the first w pending bytes at position at *)
WriteAt(f, v, s, at, w) ==
  [p \in Pos |-> IF at <= p /\ p < at + w THEN Pending(v, s)[p - at + 1] ELSE f[p]]

(* The errors the kernel may answer *)
Errors == IF broken THEN {"eintr", "eio"} ELSE {"eintr"}

(* Mutant: every error retried *)
RetryAll(e) == TRUE

(* write_fd: "if (err == EINTR) goto retry;" *)
Retryable(e) == e = "eintr"

(* do_writev: "if (errno = EINTR) continue;", an assignment, always true *)
DoWritevRetries(e) == TRUE

(***************************************************************************)
(* write_fd's short-write recovery: drop the entries written in full,     *)
(* then move the first one left past the bytes written of it.  Returns     *)
(* <<iov, start, bytes>>.                                                  *)
(***************************************************************************)
RECURSIVE Drain(_, _, _, _)
(* Mutant: bytes not reduced by the entries dropped in full *)
DrainKeepBytes(v, s, w, n) ==
  IF w >= Len(v[s]) THEN Drain(v, s + 1, w - Len(v[s]), n)
  ELSE IF w > 0 THEN <<[v EXCEPT ![s] = SubSeq(@, w + 1, Len(@))], s, n - w>>
  ELSE <<v, s, n>>

Drain(v, s, w, n) ==
  IF w >= Len(v[s]) THEN Drain(v, s + 1, w - Len(v[s]), n - Len(v[s]))
  ELSE IF w > 0 THEN <<[v EXCEPT ![s] = SubSeq(@, w + 1, Len(@))], s, n - w>>
  ELSE <<v, s, n>>

(* Mutant: bytes and the entry count move on, iov_base does not *)
RecoverNoBaseAdvance(v, s, w, n) ==
  LET d == Drain(v, s, w, n) IN <<v, d[2], d[3]>>

Recover(v, s, w, n) == Drain(v, s, w, n)

(* do_writev's drain loop after a short write of r bytes: <<vec, start>> *)
RECURSIVE DrainVec(_, _, _)
DrainVec(v, s, r) ==
  IF r = 0 THEN <<v, s>>
  ELSE IF Len(v[s]) <= r THEN DrainVec(v, s + 1, r - Len(v[s]))
  ELSE <<[v EXCEPT ![s] = SubSeq(@, r + 1, Len(@))], s>>

(* Mutant: the error returned without closing the fd *)
AfterWriteFdErrorNoClose(e) == pc' = "done" /\ ret' = e

(* write_fd failed: write_file closes the fd and returns the error *)
AfterWriteFdError(e) == pc' = "close_void" /\ ret' = e

(***************************************************************************)
(* write_file and write_fd(fd).                                            *)
(***************************************************************************)
Init == /\ \/ /\ nodes \in Lists
              /\ \/ fn = "write_file" /\ off0 = 0 /\ pc = "open"
                 \/ fn = "write_fd_offset" /\ off0 \in WriteOffsets /\ pc = "batch"
              /\ disk = <<>> /\ kind = "regular" /\ len0 = 0
           \/ /\ nodes \in ReadLists /\ pc = "open"
              /\ \/ fn = "read_file" /\ off0 = 0 /\ len0 = 0
                 \/ fn = "pread_file" /\ off0 \in ROffsets /\ len0 \in RLens
              /\ \/ kind = "regular" /\ disk \in Files
                 \/ kind = "pipe" /\ disk = <<>>
        /\ b = 1 /\ left = Len(nodes) /\ iov = <<>> /\ st = 1
        /\ bytes = 0 /\ dbytes = 0 /\ offset = off0 /\ pos = off0
        /\ file = [p \in Pos |-> 0] /\ fdopen = FALSE /\ broken = FALSE
        /\ ret = "ok"
        /\ fsize = Len(disk) /\ rlen = len0 /\ rpos = 0 /\ buf = <<>> /\ cnt = 0

(* TEMP_FAILURE_RETRY(::open(...)) of write_file, read_file and           *)
(* pread_file: success, or a failure returned as is                       *)
Open ==
  /\ pc = "open"
  /\ \/ /\ fdopen' = TRUE /\ UNCHANGED ret
        /\ pc' = IF fn = "write_file" THEN "fill" ELSE "fstat"
     \/ ret' = "enoent" /\ pc' = "done" /\ UNCHANGED fdopen
  /\ UNCHANGED <<nodes, fn, off0, b, left, iov, st, bytes, dbytes, offset, pos,
                 file, broken>>
  /\ UNCHANGED rvars

(* Mutant: a batch is written only when the array is full *)
FillNoFinalFlush ==
  /\ pc = "fill"
  /\ IF b > Len(nodes)
     THEN pc' = "close" /\ UNCHANGED <<b, iov, st, bytes>>
     ELSE LET v == IF Len(nodes[b]) > 0 THEN Append(iov, nodes[b]) ELSE iov
          IN  /\ iov' = v /\ bytes' = bytes + Len(nodes[b])
              /\ b' = b + 1 /\ st' = 1
              /\ pc' = IF Len(v) = IovMax THEN "write" ELSE "fill"
  /\ UNCHANGED <<nodes, fn, off0, left, dbytes, offset, pos, file, fdopen,
                 broken, ret>>
  /\ UNCHANGED rvars

(* One turn of write_fd's outer loop: gather node b if it is non-empty;  *)
(* a full array or the last node starts the writev.                       *)
Fill ==
  /\ pc = "fill"
  /\ IF b > Len(nodes)
     THEN pc' = "close" /\ UNCHANGED <<b, iov, st, bytes>>
     ELSE LET v == IF Len(nodes[b]) > 0 THEN Append(iov, nodes[b]) ELSE iov
          IN  /\ iov' = v /\ bytes' = bytes + Len(nodes[b])
              /\ b' = b + 1 /\ st' = 1
              /\ pc' = IF Len(v) = IovMax \/ b + 1 > Len(nodes)
                       THEN "write" ELSE "fill"
  /\ UNCHANGED <<nodes, fn, off0, left, dbytes, offset, pos, file, fdopen,
                 broken, ret>>
  /\ UNCHANGED rvars

(* retry: wrote = ::writev(fd, start, num) and what follows it *)
Write ==
  /\ pc = "write"
  /\ \/ /\ \E e \in Errors :
             IF Retryable(e) THEN UNCHANGED <<pc, ret>> ELSE AfterWriteFdError(e)
        /\ UNCHANGED <<iov, st, bytes, pos, file>>
     \/ /\ ~broken
        /\ \E w \in IF bytes = 0 THEN {0} ELSE 1..bytes :
             /\ file' = WriteAt(file, iov, st, pos, w)
             /\ pos' = pos + w
             /\ IF w < bytes
                THEN LET r == Recover(iov, st, w, bytes)
                     IN  iov' = r[1] /\ st' = r[2] /\ bytes' = r[3] /\ UNCHANGED pc
                ELSE iov' = <<>> /\ st' = 1 /\ bytes' = 0 /\ pc' = "fill"
        /\ UNCHANGED ret
  /\ UNCHANGED <<nodes, fn, off0, b, left, dbytes, offset, fdopen, broken>>
  /\ UNCHANGED rvars

(* TEMP_FAILURE_RETRY(::close(fd)) after write_fd returned 0: the fd is  *)
(* released even when close reports an error.                             *)
Close ==
  /\ pc = "close"
  /\ fdopen' = FALSE /\ pc' = "done"
  /\ ret' = IF broken THEN "eio" ELSE "ok"
  /\ UNCHANGED <<nodes, fn, off0, b, left, iov, st, bytes, dbytes, offset, pos,
                 file, broken>>
  /\ UNCHANGED rvars

(* VOID_TEMP_FAILURE_RETRY(::close(fd)): on write_file's error path, and *)
(* on every path of read_file and pread_file after the fd was opened     *)
(* (their return value already decided)                                   *)
CloseVoid ==
  /\ pc = "close_void"
  /\ fdopen' = FALSE /\ pc' = "done"
  /\ UNCHANGED <<nodes, fn, off0, b, left, iov, st, bytes, dbytes, offset, pos,
                 file, broken, ret>>
  /\ UNCHANGED rvars

(***************************************************************************)
(* write_fd(fd, offset) and do_writev.                                     *)
(***************************************************************************)

(* One turn of the outer loop: gather the next min(left_pbrs, IOV_MAX)    *)
(* nodes and call do_writev(fd, iov, offset, iovlen, bytes).             *)
Batch ==
  /\ pc = "batch"
  /\ IF left = 0
     THEN pc' = "done" /\ UNCHANGED <<b, left, iov, st, bytes, dbytes, pos>>
     ELSE LET size == MinOf(left, IovMax)
              v == SubSeq(nodes, b, b + size - 1)
          IN  /\ iov' = v /\ st' = 1
              /\ bytes' = Len(FlattenSeq(v)) /\ dbytes' = bytes'
              /\ b' = b + size /\ left' = left - size
              /\ pos' = offset /\ pc' = "pwrite"
  /\ UNCHANGED <<nodes, fn, off0, offset, file, fdopen, broken, ret>>
  /\ UNCHANGED rvars

(* One turn of do_writev's loop: r = pwritev(fd, vec, veclen, offset)    *)
(* and what follows it.                                                   *)
PWritev ==
  /\ pc = "pwrite" /\ dbytes > 0
  /\ \/ /\ \E e \in Errors :
             IF DoWritevRetries(e) THEN UNCHANGED <<pc, ret>>
             ELSE pc' = "done" /\ ret' = e
        /\ UNCHANGED <<iov, st, dbytes, pos, file>>
     \/ /\ ~broken
        /\ \E r \in 1..dbytes :
             /\ file' = WriteAt(file, iov, st, pos, r)
             /\ dbytes' = dbytes - r /\ pos' = pos + r
             /\ IF dbytes - r = 0 THEN UNCHANGED <<iov, st>>
                ELSE LET d == DrainVec(iov, st, r) IN iov' = d[1] /\ st' = d[2]
        /\ UNCHANGED <<pc, ret>>
  /\ UNCHANGED <<nodes, fn, off0, b, left, bytes, offset, fdopen, broken>>
  /\ UNCHANGED rvars

(* do_writev returns 0 once its bytes are written; write_fd moves its    *)
(* offset past the batch.                                                 *)
Return ==
  /\ pc = "pwrite" /\ dbytes = 0
  /\ offset' = offset + bytes /\ pc' = "batch"
  /\ UNCHANGED <<nodes, fn, off0, b, left, iov, st, bytes, dbytes, pos, file,
                 fdopen, broken, ret>>
  /\ UNCHANGED rvars

(***************************************************************************)
(* read_file, pread_file, read_fd and safe_read.                           *)
(***************************************************************************)
(* st.st_size: fstat reports no size for a pipe *)
StSize == IF kind = "regular" THEN fsize ELSE 0

(* pread_file: if (len > st.st_size - off) len = st.st_size - off *)
Clamp(l, sz, o) == IF l > sz - o THEN sz - o ELSE l

(* read_fd: buffer::create(len), whose bytes nothing has written yet *)
NewBuf(l) == [i \in 1..l |-> 0]

(* ::fstat(fd, &st).  A failure closes the fd and returns -errno.  Then   *)
(* read_file calls read_fd(fd, st.st_size); pread_file closes the fd and  *)
(* returns 0 (with "size < offset" in *error) when off is past the end,    *)
(* and otherwise clamps len and seeks.                                     *)
Fstat ==
  /\ pc = "fstat"
  /\ \/ broken /\ ret' = "eio" /\ pc' = "close_void" /\ UNCHANGED <<rlen, buf>>
     \/ /\ fn = "read_file"
        /\ rlen' = StSize /\ buf' = NewBuf(StSize) /\ pc' = "sread"
        /\ UNCHANGED ret
     \/ /\ fn = "pread_file" /\ off0 > StSize
        /\ pc' = "close_void" /\ UNCHANGED <<ret, rlen, buf>>
     \/ /\ fn = "pread_file" /\ off0 <= StSize
        /\ rlen' = Clamp(rlen, StSize, off0) /\ pc' = "seek"
        /\ UNCHANGED <<ret, buf>>
  /\ UNCHANGED <<nodes, fn, off0, b, left, iov, st, bytes, dbytes, offset, pos,
                 file, fdopen, broken, disk, kind, fsize, len0, rpos, cnt>>

(* lseek64(fd, off, SEEK_SET), then read_fd(fd, len).  A pipe refuses the *)
(* seek (ESPIPE) and pread_file returns -errno, the fd still open.         *)
Seek ==
  /\ pc = "seek"
  /\ \/ /\ kind = "regular"
        /\ rpos' = off0 /\ buf' = NewBuf(rlen) /\ pc' = "sread"
        /\ UNCHANGED ret
     \/ kind = "pipe" /\ ret' = "espipe" /\ pc' = "done" /\ UNCHANGED <<rpos, buf>>
  /\ UNCHANGED <<nodes, fn, off0, b, left, iov, st, bytes, dbytes, offset, pos,
                 file, fdopen, broken, disk, kind, fsize, len0, rlen, cnt>>

(* Mutant: the destination pointer never moves on *)
StoreAtStart(bf, c, d) == [i \in 1..Len(bf) |-> IF i <= Len(d) THEN d[i] ELSE bf[i]]

(* read(fd, buf, count - cnt) lands at buf + cnt *)
StoreAt(bf, c, d) == [i \in 1..Len(bf) |-> IF c < i /\ i <= c + Len(d) THEN d[i - c] ELSE bf[i]]

(* The bytes of the file after the read position *)
Avail == IF rpos < fsize THEN fsize - rpos ELSE 0

(* One turn of safe_read's loop (the contract of src/include/safe_io.h:   *)
(* retry on EINTR, return -errno on error).  read returns an error, 0 at  *)
(* the end of the file (safe_read returns cnt), or some of the bytes      *)
(* asked for.  Having cnt == count, safe_read returns cnt.                 *)
SafeRead ==
  /\ pc = "sread"
  /\ \/ cnt = rlen /\ pc' = "push" /\ UNCHANGED <<ret, rpos, buf, cnt>>
     \/ /\ cnt < rlen
        /\ \E e \in Errors :
             IF e = "eintr" THEN UNCHANGED <<pc, ret>>
             ELSE ret' = e /\ pc' = "close_void"
        /\ UNCHANGED <<rpos, buf, cnt>>
     \/ /\ cnt < rlen /\ ~broken /\ Avail = 0
        /\ pc' = "push" /\ UNCHANGED <<ret, rpos, buf, cnt>>
     \/ /\ cnt < rlen /\ ~broken
        /\ \E r \in 1..MinOf(rlen - cnt, Avail) :
             /\ buf' = StoreAt(buf, cnt, SubSeq(disk, rpos + 1, rpos + r))
             /\ rpos' = rpos + r /\ cnt' = cnt + r
        /\ UNCHANGED <<pc, ret>>
  /\ UNCHANGED <<nodes, fn, off0, b, left, iov, st, bytes, dbytes, offset, pos,
                 file, fdopen, broken, disk, kind, fsize, len0, rlen>>

(* read_fd: bptr->set_length(ret); push_back(bptr).  read_file and        *)
(* pread_file then close the fd and return 0, a short read (premature     *)
(* EOF) only noted in *error.                                              *)
ReadFdPush ==
  /\ pc = "push"
  /\ nodes' = Append(nodes, SubSeq(buf, 1, cnt)) /\ pc' = "close_void"
  /\ UNCHANGED <<fn, off0, b, left, iov, st, bytes, dbytes, offset, pos, file,
                 fdopen, broken, ret, rvars>>

(* Another process truncates the file while the call reads it *)
Truncate ==
  /\ fn \in {"read_file", "pread_file"} /\ kind = "regular"
  /\ pc \in {"fstat", "seek", "sread"}
  /\ \E k \in 0..(fsize - 1) : fsize' = k
  /\ UNCHANGED <<nodes, fn, off0, pc, b, left, iov, st, bytes, dbytes, offset,
                 pos, file, fdopen, broken, ret, disk, kind, len0, rlen, rpos,
                 buf, cnt>>

(* The device fails for good *)
Break == ~broken /\ broken' = TRUE
         /\ UNCHANGED <<nodes, fn, off0, pc, b, left, iov, st, bytes, dbytes,
                        offset, pos, file, fdopen, ret, rvars>>

Call == \/ Open \/ Fill \/ Write \/ Close \/ CloseVoid \/ Batch \/ PWritev \/ Return
        \/ Fstat \/ Seek \/ SafeRead \/ ReadFdPush

Next == Call \/ Break \/ Truncate

(* The calling thread keeps running until the call returns. *)
Spec == Init /\ [][Next]_vars /\ WF_vars(Call)

(***************************************************************************)
(* Properties.                                                             *)
(***************************************************************************)
TypeOK ==
  /\ pc \in {"open", "fill", "write", "close", "close_void", "batch", "pwrite",
             "fstat", "seek", "sread", "push", "done"}
  /\ b \in 1..(Len(nodes) + 1) /\ st \in 1..(Len(iov) + 1)
  /\ pc = "write" => bytes = Len(Pending(iov, st))
  /\ pc = "pwrite" /\ dbytes > 0 => dbytes = Len(Pending(iov, st))
  /\ file \in [Pos -> Bytes \cup {0}]
  /\ ret \in {"ok", "enoent", "eio", "espipe"}
  /\ pc \in {"sread", "push"} => cnt \in 0..rlen /\ Len(buf) = rlen

(* Every byte either call puts in the file is the list's byte for that   *)
(* position (where the list starts plus its index in the list): short    *)
(* writes, the recovery across iovec entries, empty entries and the      *)
(* batches never shift or repeat bytes, and nothing lands outside the    *)
(* list's range.                                                          *)
PlacedAtOffset ==
  \A p \in Pos : file[p] # 0 =>
     /\ off0 <= p /\ p < off0 + Len(Content)
     /\ file[p] = Content[p - off0 + 1]

(* When a write call returns 0, the file holds the whole list. *)
SuccessWritesAll ==
  fn \in {"write_file", "write_fd_offset"} /\ pc = "done" /\ ret = "ok" =>
     \A k \in 1..Len(Content) : file[off0 + k - 1] = Content[k]

(* The call f never returns with the fd it opened still held. *)
FdReleasedBy(f) == fn = f /\ pc = "done" => ~fdopen

(* ... for write_file and read_file, on every path *)
FdReleased == FdReleasedBy("write_file") /\ FdReleasedBy("read_file")

(* ... for pread_file *)
PreadFileFdReleased == FdReleasedBy("pread_file")

(* What read_fd pushes is the file's bytes from the offset on (the whole *)
(* file for read_file): a prefix of them whatever safe_read's reads      *)
(* returned, and, unless the file was truncated under the call, exactly  *)
(* as many as pread_file's len (clamped to the file) asked for.          *)
ReadGetsFile ==
  pc = "push" =>
     LET got  == SubSeq(buf, 1, cnt)
         from == SubSeq(disk, off0 + 1, Len(disk))
         want == IF fn = "read_file" THEN Len(disk) ELSE MinOf(len0, Len(disk) - off0)
     IN  /\ IsPrefix(got, from)
         /\ fsize = Len(disk) => Len(got) = want

(* The call f returns: whatever the kernel answers, EINTRs and a device *)
(* failing for good included, it does not retry forever.                  *)
Returns(f) == fn = f => <>(pc = "done")

(* ... for write_file, read_file and pread_file *)
CallsReturn == Returns("write_file") /\ Returns("read_file") /\ Returns("pread_file")

(* ... for write_fd(fd, offset) and do_writev *)
WriteFdOffsetReturns == Returns("write_fd_offset")

================================================================================
