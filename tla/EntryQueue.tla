------------------------------ MODULE EntryQueue ------------------------------
(***************************************************************************)
(* What the scheduler expects of buffio::Queue with its memory pool: a     *)
(* sequence of entries, and entries that are neither in the sequence nor   *)
(* free because a timer, a header or a caller holds them.                  *)
(***************************************************************************)
EXTENDS Integers, Sequences

CONSTANT Entries

VARIABLES
  line,   \* the entries in the queue, the next to be served first
  held    \* entries taken from the pool that are not in the queue

RangeOf(s) == {s[i] : i \in DOMAIN s}
Without(s, i) == SubSeq(s, 1, i - 1) \o SubSeq(s, i + 1, Len(s))

Init == line = << >> /\ held = {}

\* A free entry is handed out.
GetEntry ==
  \E e \in Entries \ (held \cup RangeOf(line)) :
    held' = held \cup {e} /\ UNCHANGED line

Enter ==
  \E e \in held :
    /\ held' = held \ {e}
    /\ line' \in {Append(line, e), <<e>> \o line}

\* The first entry leaves the queue and stays in use.
Erase ==
  /\ line # << >>
  /\ held' = held \cup {Head(line)}
  /\ line' = Tail(line)

\* An entry leaves the queue and is free again.
Drop ==
  \E i \in DOMAIN line : line' = Without(line, i) /\ UNCHANGED held

Rotate ==
  /\ line # << >>
  /\ line' = Append(Tail(line), Head(line))
  /\ UNCHANGED held

Next == GetEntry \/ Enter \/ Erase \/ Drop \/ Rotate

Spec == Init /\ [][Next]_<<line, held>>
=============================================================================
