------------------------------ MODULE MCRunQueue ------------------------------
(***************************************************************************)
(* A small instance of RunQueue for TLC.                                   *)
(***************************************************************************)
EXTENDS RunQueue
=============================================================================
