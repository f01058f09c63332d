--------------------------- MODULE MCProcessGuard ---------------------------
(***************************************************************************)
(* Processes for TLC that all may own the path, leave it and race to       *)
(* succeed one that did: they are interchangeable.                         *)
(***************************************************************************)
EXTENDS ProcessGuard, TLC

ProcSymmetry == Permutations(Procs)
=============================================================================
