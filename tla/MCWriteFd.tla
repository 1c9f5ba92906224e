----------------------------- MODULE MCWriteFd -----------------------------
(* Lists of up to three nodes (empty ones included) of up to two bytes,   *)
(* three bytes in all, with IOV_MAX = 2 so that a list takes two batches; *)
(* write_fd(fd, offset) at offsets 0 and 1.  Files of up to three bytes;  *)
(* pread_file at offsets 0 and 1 (past the end of the shorter files) and  *)
(* 3, with a length of 1 (short of the end) or 3 (past it).               *)
EXTENDS WriteFd
MCOffsets == {0, 1}
MCROffsets == {0, 1, 3}
MCRLens == {1, 3}
================================================================================
