----------------------------- MODULE MCFsTasks -----------------------------
(* Two names, so paths of one and two names; batches of two rows.          *)
EXTENDS FsTasks, TLC

Symmetric == Permutations(Names)
=============================================================================
