------------------------------ MODULE MCRoutines ------------------------------
(***************************************************************************)
(* A small instance of Routines for TLC.                                   *)
(***************************************************************************)
EXTENDS Routines
=============================================================================
