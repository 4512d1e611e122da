------------------------------ MODULE LfContract ------------------------------
(***************************************************************************)
(* What an lfqueue promises the threads that use it: a value is delivered  *)
(* at most once, only after it was enqueued, and a consumer receives the   *)
(* values of one producer in the order of its calls.  Refusing a value and *)
(* answering "empty" are always allowed and change nothing.                *)
(*                                                                         *)
(* A value is a pair <<producer, number of the call>>.                     *)
(***************************************************************************)
EXTENDS Integers, Sequences

CONSTANTS
  Producers,
  Consumers,
  Calls       \* the numbers of the calls of enqueue, a set of naturals

VARIABLES
  items,  \* values that can be delivered
  made,   \* the number of the last value each producer enqueued
  got     \* what each consumer received

Put(p) ==
  \E k \in Calls :
    /\ k > made[p]
    /\ made' = [made EXCEPT ![p] = k]
    /\ items' = items \cup {<<p, k>>}
    /\ UNCHANGED got

Take(c) ==
  \E v \in items :
    /\ \A i \in DOMAIN got[c] : got[c][i][1] = v[1] => got[c][i][2] < v[2]
    /\ got' = [got EXCEPT ![c] = Append(@, v)]
    /\ items' = items \ {v}
    /\ UNCHANGED made

Init ==
  /\ items = {}
  /\ made = [p \in Producers |-> 0]
  /\ got = [c \in Consumers |-> << >>]

Next == (\E p \in Producers : Put(p)) \/ (\E c \in Consumers : Take(c))

Spec == Init /\ [][Next]_<<items, made, got>>
=============================================================================
