----------------------------- MODULE MCSqlLock -----------------------------
(* Three threads, calls nested four deep, two writes.                 *)
EXTENDS SqlLock, TLC

Symmetric == Permutations(Threads)
=============================================================================
