----------------------------- MODULE MCWorkerPool -----------------------------
(***************************************************************************)
(* Small instances of WorkerPool for TLC.                                  *)
(***************************************************************************)
EXTENDS WorkerPool

\* A number that is no size, none, one, as many as there are workers to make,
\* and one more than a queue holds.
SomeNumbers == {-1, 0, 1, 2, Cap + 1}
=============================================================================
