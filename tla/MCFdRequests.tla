----------------------------- MODULE MCFdRequests -----------------------------
(***************************************************************************)
(* Small instances of FdRequests for TLC.                                  *)
(***************************************************************************)
EXTENDS FdRequests, TLC

\* Tasks are interchangeable: the initial queue holds them in any order.
Symmetry == Permutations(Tasks)
=============================================================================
