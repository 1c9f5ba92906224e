-------------------------- MODULE MCStructuralParts --------------------------
(* The structural run with two more parts beside it, each starting from   *)
(* its own initial states while the others stay idle: "struct", the      *)
(* structural operations of MCBufferList; "fd", a write_file, write_fd,   *)
(* read_file or pread_file call of WriteFd (lists of up to three nodes of *)
(* up to two bytes, IOV_MAX = 2 so that a list takes two batches,         *)
(* write_fd(fd, offset) at offsets 0 and 1, pread_file at offsets 0, 1    *)
(* and 3 with lengths 1 and 3); "deleter", three deleter variables over   *)
(* three actions and four impl addresses; and "compact_map", two          *)
(* compact_maps over two keys and two values, two addresses for inner      *)
(* maps and two iterator variables.                                        *)
(*                                                                         *)
(* An idle fd part is a write_file whose open() failed: a call that has   *)
(* returned, as every call of the fd part eventually does.                *)
EXTENDS MCBufferList

CONSTANTS Holders, Acts, Impls, Null, Dead, NoAct,
          MapConts, MapKeys, MapVals, MapBufs, MapIters, MapEnd, MapGone

VARIABLES part,
          fd_nodes, fd_fn, fd_off0, fd_pc, fd_b, fd_left, fd_iov, fd_st,
          fd_bytes, fd_dbytes, fd_offset, fd_pos, fd_file, fd_fdopen, fd_broken,
          fd_ret, fd_disk, fd_kind, fd_fsize, fd_len0, fd_rlen, fd_rpos, fd_buf,
          fd_cnt,
          dl_heap, dl_hold, dl_ran, dl_made, dl_uaf,
          cm_born, cm_mmap, cm_heap, cm_iter, cm_fault

FdBytes == {1, 2}
FdOffsets == {0, 1}
FdROffsets == {0, 1, 3}
FdRLens == {1, 3}

Fd == INSTANCE WriteFd
        WITH Bytes <- FdBytes, IovMax <- 2, MaxNodes <- 3, MaxNodeLen <- 2,
             MaxTotal <- 3, WriteOffsets <- FdOffsets, ROffsets <- FdROffsets,
             RLens <- FdRLens,
             nodes <- fd_nodes, fn <- fd_fn, off0 <- fd_off0, pc <- fd_pc,
             b <- fd_b, left <- fd_left, iov <- fd_iov, st <- fd_st,
             bytes <- fd_bytes, dbytes <- fd_dbytes, offset <- fd_offset,
             pos <- fd_pos, file <- fd_file, fdopen <- fd_fdopen,
             broken <- fd_broken, ret <- fd_ret, disk <- fd_disk,
             kind <- fd_kind, fsize <- fd_fsize, len0 <- fd_len0,
             rlen <- fd_rlen, rpos <- fd_rpos, buf <- fd_buf, cnt <- fd_cnt
Dl == INSTANCE Deleter
        WITH heap <- dl_heap, hold <- dl_hold, ran <- dl_ran, made <- dl_made,
             uaf <- dl_uaf
Cm == INSTANCE CompactMap
        WITH Conts <- MapConts, Keys <- MapKeys, Vals <- MapVals, Bufs <- MapBufs,
             Iters <- MapIters, End <- MapEnd, Gone <- MapGone,
             born <- cm_born, mmap <- cm_mmap, heap <- cm_heap, iter <- cm_iter,
             fault <- cm_fault

fdVars == <<fd_nodes, fd_fn, fd_off0, fd_pc, fd_b, fd_left, fd_iov, fd_st,
            fd_bytes, fd_dbytes, fd_offset, fd_pos, fd_file, fd_fdopen,
            fd_broken, fd_ret, fd_disk, fd_kind, fd_fsize, fd_len0, fd_rlen,
            fd_rpos, fd_buf, fd_cnt>>
dlVars == <<dl_heap, dl_hold, dl_ran, dl_made, dl_uaf>>
cmVars == <<cm_born, cm_mmap, cm_heap, cm_iter, cm_fault>>
allVars == <<vars, part, fdVars, dlVars, cmVars>>

FdIdle ==
  /\ fd_nodes = <<>> /\ fd_fn = "write_file" /\ fd_off0 = 0 /\ fd_pc = "done"
  /\ fd_b = 1 /\ fd_left = 0 /\ fd_iov = <<>> /\ fd_st = 1
  /\ fd_bytes = 0 /\ fd_dbytes = 0 /\ fd_offset = 0 /\ fd_pos = 0
  /\ fd_file = [p \in Fd!Pos |-> 0] /\ fd_fdopen = FALSE /\ fd_broken = FALSE
  /\ fd_ret = "enoent" /\ fd_disk = <<>> /\ fd_kind = "regular"
  /\ fd_fsize = 0 /\ fd_len0 = 0 /\ fd_rlen = 0 /\ fd_rpos = 0
  /\ fd_buf = <<>> /\ fd_cnt = 0

PartInit ==
  /\ Init /\ Dl!Init /\ Cm!Init
  /\ \/ part \in {"struct", "deleter", "compact_map"} /\ FdIdle
     \/ part = "fd" /\ Fd!Init

PartNext ==
  \/ part = "struct" /\ StructuralNext /\ UNCHANGED <<part, fdVars, dlVars, cmVars>>
  \/ part = "fd" /\ Fd!Next /\ UNCHANGED <<vars, part, dlVars, cmVars>>
  \/ part = "deleter" /\ Dl!Next /\ UNCHANGED <<vars, part, fdVars, cmVars>>
  \/ part = "compact_map" /\ Cm!Next /\ UNCHANGED <<vars, part, fdVars, dlVars>>

(* The thread running the fd part's call keeps running until it returns. *)
PartSpec == PartInit /\ [][PartNext]_allVars
            /\ WF_allVars(part = "fd" /\ Fd!Call /\ UNCHANGED <<vars, part, dlVars, cmVars>>)

(* StructView, and the whole state of the other parts *)
PartsView == <<StructView, part, fdVars, dlVars, cmVars>>

(* The properties of the fd, deleter and compact_map parts hold of each part's state  *)
(* alone, the other parts' state being fixed in its behaviours.           *)

(* The fd part's state has its types, and bptr and start stay in range.  *)
FdTypeOK == Fd!TypeOK

(* Every byte write_file or write_fd(fd, offset) puts in the file is the *)
(* list's byte for that position, across short writes and batches.       *)
PlacedAtOffset == Fd!PlacedAtOffset

(* A write call that returns 0 has put the whole list in the file. *)
SuccessWritesAll == Fd!SuccessWritesAll

(* What read_fd pushes is a prefix of the file's bytes from the offset, *)
(* and as long as pread_file asked for unless the file was truncated.   *)
ReadGetsFile == Fd!ReadGetsFile

(* write_file and read_file close the fd they opened on every path. *)
FdReleased == Fd!FdReleased

(* Every write_file, read_file and pread_file call returns, the fd     *)
(* failing for good included.                                          *)
CallsReturn == Fd!CallsReturn

(* A live deleter impl has a positive refs. *)
DeleterTypeOK == Dl!TypeOK

(* refs counts every deleter, next and obj that holds the impl. *)
RefsExact == Dl!RefsExact

(* An action runs at most once and only when no deleter encapsulates it. *)
ActionsRunSafely == Dl!ActionsRunSafely

(* Once every deleter variable is empty, no impl and no action is left. *)
NoLeak == Dl!NoLeak
(* An inner map is allocated exactly while one constructed compact_map  *)
(* points to it and holds an element.                                      *)
InnerMapsExact == Cm!InnerMapsExact
(* Every compact_map call changes the contents as the std::map call does. *)
RefinesStdMap == Cm!RefinesStdMap
================================================================================
