------------------------------- MODULE MCFdLife -------------------------------
(***************************************************************************)
(* A small instance of FdLife for TLC.                                     *)
(***************************************************************************)
EXTENDS FdLife, TLC

\* Instances are interchangeable, and so are paths and numbers.
Symmetry ==
  Permutations(Fds) \cup Permutations(Names) \cup Permutations(Numbers)
=============================================================================
