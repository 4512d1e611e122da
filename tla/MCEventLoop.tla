----------------------------- MODULE MCEventLoop -----------------------------
(***************************************************************************)
(* Small instances of EventLoop for TLC.                                   *)
(***************************************************************************)
EXTENDS EventLoop, TLC

CONSTANTS t1, t2, h1, h2, w1, w2, none

OwnFile == t1 :> h1 @@ t2 :> h2
OneFile == t1 :> h1

Read == {"read"}
ReadYield == {"read", "yield"}
SharedFile == t1 :> h1 @@ t2 :> h1

SleepRead == {"sleep", "read"}
AnyOp == {"sleep", "read", "yield"}

\* Workers are interchangeable.
Symmetry == Permutations(Workers)
=============================================================================
