----------------------------- MODULE MCFsFiles -----------------------------
(* Two handles, which need not be of the same open file.                   *)
EXTENDS FsFiles, TLC

Symmetric == Permutations(Handles)
=============================================================================
