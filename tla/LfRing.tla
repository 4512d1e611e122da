-------------------------------- MODULE LfRing --------------------------------
(***************************************************************************)
(* The lock-free queue of buffio (lfqueue, lfCore), access by access.      *)
(*                                                                         *)
(* An lfqueue is an array of values and two rings of indices into it:      *)
(* acq holds the indices of the values in the queue, free the unused ones. *)
(* Producers (enqueue) take an index out of free and put it into acq,      *)
(* consumers (dequeue) the other way round.  Every atomic access is a step *)
(* of its own, and the accesses are sequentially consistent.  What only    *)
(* the holder of an index touches, data[idx], is accessed in the step that *)
(* gets the index.                                                         *)
(*                                                                         *)
(* A slot of a ring is a record: the cycle it was last written in, the     *)
(* "safe" bit, and an index or NoIdx (all bits of the index set).          *)
(***************************************************************************)
EXTENDS Integers, Sequences, FiniteSets

CONSTANTS
  Producers,   \* the threads that call enqueue
  Consumers,   \* the threads that call dequeue
  Half,        \* entries of the queue: 2^order
  Remap,       \* cache_remap2: where a position of a ring lies in memory
  IndexRemap,  \* cache_remap in initfull: the index a free slot starts with
  MaxCalls,    \* the calls each thread makes at most
  NoValue      \* what an entry of data holds before the first enqueue

Size == 2 * Half
Indices == 0 .. Half - 1
NoIdx == Size - 1
Threshold == Half + Size - 1

ASSUME RingAssumption ==
  /\ IsFiniteSet(Producers) /\ IsFiniteSet(Consumers)
  /\ Producers \cap Consumers = {}
  /\ Half \in Nat \ {0}
  /\ Remap \in [0 .. Size - 1 -> 0 .. Size - 1]
  /\ \A i, j \in 0 .. Size - 1 : Remap[i] = Remap[j] => i = j
  /\ IndexRemap \in [Indices -> Indices]
  /\ \A i, j \in Indices : IndexRemap[i] = IndexRemap[j] => i = j
  /\ MaxCalls \in [Producers \cup Consumers -> Nat]

Threads == Producers \cup Consumers
Rings == {"acq", "free"}

VARIABLES
  ring,   \* the two rings: head, tail, threshold and slots
  data,   \* the values
  pc,     \* the next access of each thread
  loc,    \* local variables of lfenqueue and lfdequeue
  calls,  \* calls each thread has made
  made,   \* the number of the last value each producer put into acq
  got     \* the values each consumer received

vars == <<ring, data, pc, loc, calls, made, got>>

-----------------------------------------------------------------------------
Slot(pos) == Remap[pos % Size]
Cycle(pos) == pos \div Size

Entry(c, s, i) == [cyc |-> c, safe |-> s, idx |-> i]
InitEmpty ==
  [head |-> 0, tail |-> 0, threshold |-> -1,
   slots |-> [s \in 0 .. Size - 1 |-> Entry(-1, TRUE, NoIdx)]]

InitFull ==
  [head |-> 0, tail |-> Half, threshold |-> Threshold,
   slots |-> [s \in 0 .. Size - 1 |->
                IF \E i \in Indices : s = Slot(i)
                THEN Entry(0, TRUE,
                           IndexRemap[CHOOSE i \in Indices : s = Slot(i)])
                ELSE Entry(-1, TRUE, NoIdx)]]

Fresh ==
  [pos |-> 0, ent |-> Entry(-1, TRUE, NoIdx), new |-> Entry(-1, TRUE, NoIdx),
   cyc |-> -1, idx |-> NoIdx, from |-> 0, to |-> 0]

Init ==
  /\ ring = [r \in Rings |-> IF r = "acq" THEN InitEmpty ELSE InitFull]
  /\ data = [i \in Indices |-> NoValue]
  /\ pc = [t \in Threads |-> "idle"]
  /\ loc = [t \in Threads |-> Fresh]
  /\ calls = [t \in Threads |-> 0]
  /\ made = [p \in Producers |-> 0]
  /\ got = [c \in Consumers |-> << >>]

\* The ring a thread takes an index out of, and the one it puts it into.
Source(t) == IF t \in Producers THEN "free" ELSE "acq"
Target(t) == IF t \in Producers THEN "acq" ELSE "free"

At(t, p) == pc[t] = p
GoTo(t, p) == pc' = [pc EXCEPT ![t] = p]

\* The slot of ring r at the position thread t has drawn.
Here(t, r) == ring[r].slots[Slot(loc[t].pos)]
WriteSlot(t, r, e) == ring' = [ring EXCEPT ![r].slots[Slot(loc[t].pos)] = e]

KeepValues == UNCHANGED <<data, made, got>>

-----------------------------------------------------------------------------
(***************************************************************************)
(* lfdequeue, on Source(t)                                                 *)
(***************************************************************************)

\* A call begins with the load of the threshold; negative means empty.
ReadThreshold(t) ==
  /\ At(t, "idle")
  /\ calls[t] < MaxCalls[t]
  /\ calls' = [calls EXCEPT ![t] = @ + 1]
  /\ GoTo(t, IF ring[Source(t)].threshold < 0 THEN "idle" ELSE "head")
  /\ UNCHANGED <<ring, loc>> /\ KeepValues

AddHead(t) ==
  /\ At(t, "head")
  /\ loc' = [loc EXCEPT ![t] = [Fresh EXCEPT !.pos = ring[Source(t)].head]]
  /\ ring' = [ring EXCEPT ![Source(t)].head = @ + 1]
  /\ GoTo(t, "load")
  /\ UNCHANGED calls /\ KeepValues

\* Mutant: any index that is found is taken.
AnyIndex(e, pos) == e.idx # NoIdx

\* The slot holds the entry written for this position.
Matches(e, pos) == e.cyc = Cycle(pos)

LoadEntry(t) ==
  LET e == Here(t, Source(t)) IN
  /\ At(t, "load")
  /\ Matches(e, loc[t].pos)
  /\ loc' = [loc EXCEPT ![t].ent = e]
  /\ GoTo(t, "consume")
  /\ UNCHANGED <<ring, calls>> /\ KeepValues

\* Mutant: an entry of an older cycle is left safe.
LeaveSafe(e) == e

Unsafe(e) == [e EXCEPT !.safe = FALSE]

\* An index of another cycle is marked unsafe; once it is, or when the slot
\* is ahead of this position, the position is given up.
LoadOccupied(t) ==
  LET e == Here(t, Source(t)) IN
  /\ At(t, "load")
  /\ ~Matches(e, loc[t].pos)
  /\ e.idx # NoIdx
  /\ IF e.safe /\ e.cyc < Cycle(loc[t].pos)
     THEN /\ loc' = [loc EXCEPT ![t].ent = e, ![t].new = Unsafe(e)]
          /\ GoTo(t, "swap")
     ELSE /\ GoTo(t, "tail")
          /\ UNCHANGED loc
  /\ UNCHANGED <<ring, calls>> /\ KeepValues

\* An empty slot is loaded again for up to 5000 times, which changes nothing,
\* and then moved on to this cycle.
LoadVacant(t) ==
  LET e == Here(t, Source(t)) IN
  /\ At(t, "load")
  /\ ~Matches(e, loc[t].pos)
  /\ e.idx = NoIdx
  /\ IF e.cyc < Cycle(loc[t].pos)
     THEN /\ loc' = [loc EXCEPT ![t].ent = e,
                                ![t].new = [e EXCEPT !.cyc = Cycle(loc[t].pos)]]
          /\ GoTo(t, "swap")
     ELSE /\ GoTo(t, "tail")
          /\ UNCHANGED loc
  /\ UNCHANGED <<ring, calls>> /\ KeepValues

\* compare_exchange; when it fails the entry it met is examined.
SwapEntry(t) ==
  LET same == Here(t, Source(t)) = loc[t].ent IN
  /\ At(t, "swap")
  /\ IF same THEN WriteSlot(t, Source(t), loc[t].new) ELSE UNCHANGED ring
  /\ GoTo(t, IF same THEN "tail" ELSE "load")
  /\ UNCHANGED <<loc, calls>> /\ KeepValues

\* fetch_or empties the slot and the thread holds the index: a producer
\* writes its value, a consumer reads the one that is there.
Consume(t) ==
  LET i == loc[t].ent.idx IN
  /\ At(t, "consume")
  /\ WriteSlot(t, Source(t), [Here(t, Source(t)) EXCEPT !.idx = NoIdx])
  /\ loc' = [loc EXCEPT ![t] = [Fresh EXCEPT !.idx = i]]
  /\ IF t \in Producers
     THEN /\ data' = [data EXCEPT ![i] = <<t, calls[t]>>]
          /\ UNCHANGED got
     ELSE /\ got' = [got EXCEPT ![t] = Append(@, data[i])]
          /\ UNCHANGED data
  /\ GoTo(t, "draw")
  /\ UNCHANGED <<calls, made>>

\* Position given up: is the ring empty?
ReadTail(t) ==
  LET tail == ring[Source(t)].tail IN
  /\ At(t, "tail")
  /\ loc' = [loc EXCEPT ![t].from = tail, ![t].to = loc[t].pos + 1]
  /\ GoTo(t, IF tail <= loc[t].pos + 1 THEN "catchup" ELSE "spend")
  /\ UNCHANGED <<ring, calls>> /\ KeepValues

\* catchup: the tail follows the head.
CatchUp(t) ==
  LET r == Source(t)
      same == ring[r].tail = loc[t].from
  IN  /\ At(t, "catchup")
      /\ IF same THEN ring' = [ring EXCEPT ![r].tail = loc[t].to]
                 ELSE UNCHANGED ring
      /\ GoTo(t, IF same THEN "chill" ELSE "rehead")
      /\ UNCHANGED <<loc, calls>> /\ KeepValues

RereadHead(t) ==
  /\ At(t, "rehead")
  /\ loc' = [loc EXCEPT ![t].to = ring[Source(t)].head]
  /\ GoTo(t, "retail")
  /\ UNCHANGED <<ring, calls>> /\ KeepValues

RereadTail(t) ==
  LET tail == ring[Source(t)].tail IN
  /\ At(t, "retail")
  /\ loc' = [loc EXCEPT ![t].from = tail]
  /\ GoTo(t, IF tail >= loc[t].to THEN "chill" ELSE "catchup")
  /\ UNCHANGED <<ring, calls>> /\ KeepValues

\* The ring was empty: the threshold is stored, whatever it is by now.
Chill(t) ==
  /\ At(t, "chill")
  /\ ring' = [ring EXCEPT ![Source(t)].threshold = -1]
  /\ loc' = [loc EXCEPT ![t] = Fresh]
  /\ GoTo(t, "idle")
  /\ UNCHANGED calls /\ KeepValues

Spend(t) ==
  /\ At(t, "spend")
  /\ ring' = [ring EXCEPT ![Source(t)].threshold = @ - 1]
  /\ loc' = [loc EXCEPT ![t] = Fresh]
  /\ GoTo(t, IF ring[Source(t)].threshold <= 0 THEN "idle" ELSE "head")
  /\ UNCHANGED calls /\ KeepValues

-----------------------------------------------------------------------------
(***************************************************************************)
(* lfenqueue, on Target(t)                                                 *)
(***************************************************************************)
AddTail(t) ==
  /\ At(t, "draw")
  /\ loc' = [loc EXCEPT ![t] = [Fresh EXCEPT !.pos = ring[Target(t)].tail,
                                             !.idx = loc[t].idx]]
  /\ ring' = [ring EXCEPT ![Target(t)].tail = @ + 1]
  /\ GoTo(t, "fill")
  /\ UNCHANGED calls /\ KeepValues

\* A vacant slot of cycle c: usable at once when it is safe and its cycle has
\* passed; when it is unsafe, only while no dequeuer has passed it.
Usable(e, c, pos) ==
  c < Cycle(pos) /\ e = Entry(c, TRUE, NoIdx)

NeedsHead(e, c) == e = Entry(c, FALSE, NoIdx)

Examine(t, e, c) ==
  /\ loc' = [loc EXCEPT ![t].ent = e, ![t].cyc = c]
  /\ GoTo(t, IF Usable(e, c, loc[t].pos) THEN "put"
             ELSE IF NeedsHead(e, c) THEN "check" ELSE "draw")
  /\ UNCHANGED <<ring, calls>> /\ KeepValues

LoadSlot(t) ==
  LET e == Here(t, Target(t)) IN At(t, "fill") /\ Examine(t, e, e.cyc)

\* After a failed compare_exchange the cycle read first is still used.
RetrySlot(t) ==
  At(t, "refill") /\ Examine(t, Here(t, Target(t)), loc[t].cyc)

CheckHead(t) ==
  /\ At(t, "check")
  /\ GoTo(t, IF ring[Target(t)].head <= loc[t].pos THEN "put" ELSE "draw")
  /\ UNCHANGED <<ring, loc, calls>> /\ KeepValues

\* compare_exchange: the index is in the ring, and a value in the queue.
PutEntry(t) ==
  LET same == Here(t, Target(t)) = loc[t].ent
      e == Entry(Cycle(loc[t].pos), TRUE, loc[t].idx)
  IN  /\ At(t, "put")
      /\ IF same
         THEN /\ WriteSlot(t, Target(t), e)
              /\ loc' = [loc EXCEPT ![t] = Fresh]
              /\ made' = IF t \in Producers
                         THEN [made EXCEPT ![t] = calls[t]] ELSE made
         ELSE UNCHANGED <<ring, loc, made>>
      /\ GoTo(t, IF same THEN "threshold" ELSE "refill")
      /\ UNCHANGED <<calls, data, got>>

LoadThreshold(t) ==
  /\ At(t, "threshold")
  /\ GoTo(t, IF ring[Target(t)].threshold = Threshold THEN "idle" ELSE "warm")
  /\ UNCHANGED <<ring, loc, calls>> /\ KeepValues

Warm(t) ==
  /\ At(t, "warm")
  /\ ring' = [ring EXCEPT ![Target(t)].threshold = Threshold]
  /\ GoTo(t, "idle")
  /\ UNCHANGED <<loc, calls>> /\ KeepValues

-----------------------------------------------------------------------------
Dequeue(t) ==
  \/ ReadThreshold(t) \/ AddHead(t) \/ LoadEntry(t) \/ LoadOccupied(t)
  \/ LoadVacant(t) \/ SwapEntry(t) \/ Consume(t) \/ ReadTail(t)
  \/ CatchUp(t) \/ RereadHead(t) \/ RereadTail(t) \/ Chill(t) \/ Spend(t)

Enqueue(t) ==
  \/ AddTail(t) \/ LoadSlot(t) \/ RetrySlot(t) \/ CheckHead(t)
  \/ PutEntry(t) \/ LoadThreshold(t) \/ Warm(t)

Thread(t) == Dequeue(t) \/ Enqueue(t)

Next == \E t \in Threads : Thread(t)

Spec == Init /\ [][Next]_vars

-----------------------------------------------------------------------------
(***************************************************************************)
(* Properties                                                              *)
(***************************************************************************)
InRing(r, i) == {s \in 0 .. Size - 1 : ring[r].slots[s].idx = i}
Positions(r) == 0 .. ring[r].tail - 1
Holders(i) == {t \in Threads : loc[t].idx = i}

\* An index is in exactly one place: one slot of one ring, or one thread's
\* hands.  None is lost and none is handed out twice, however dequeuers that
\* give a slot up and enqueuers with an old tail meet in it.
IndexOnce ==
  \A i \in Indices :
    Cardinality(InRing("acq", i)) + Cardinality(InRing("free", i))
      + Cardinality(Holders(i)) = 1

\* No value and no index is left behind: when a slot is filled its position is
\* still to be drawn, or the dequeuer that drew it has not given it up.
NoneLeftBehind ==
  \A r \in Rings, s \in 0 .. Size - 1 :
    LET e == ring[r].slots[s] IN
    e.idx # NoIdx =>
      \E pos \in Positions(r) :
        /\ Slot(pos) = s /\ Cycle(pos) = e.cyc
        /\ \/ pos >= ring[r].head
           \/ \E t \in Threads : /\ Source(t) = r
                                 /\ loc[t].pos = pos
                                 /\ pc[t] \in {"load", "swap", "consume"}

\* The queue as its users see it: the values whose index is in acq.
Contract ==
  INSTANCE LfContract WITH
    items <- {data[i] : i \in {j \in Indices : InRing("acq", j) # {}}},
    Calls <- UNION {1 .. MaxCalls[p] : p \in Producers}

\* Every value is delivered at most once, and only after it was enqueued; a
\* consumer receives the values of one producer in order.
DeliversOnceInOrder == Contract!Spec
=============================================================================
