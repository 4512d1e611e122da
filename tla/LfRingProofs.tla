----------------------------- MODULE LfRingProofs -----------------------------
(***************************************************************************)
(* Theorems about LfRing for any number of threads, any size of the queue, *)
(* any permutation cache_remap and any number of calls: no index is lost   *)
(* or doubled, no entry is left behind, and the queue does what LfContract *)
(* promises.                                                               *)
(***************************************************************************)
EXTENDS LfRing, FiniteSetTheorems, TLAPS

-----------------------------------------------------------------------------
(***************************************************************************)
(* The inductive invariant                                                 *)
(***************************************************************************)
Slots == 0 .. Size - 1
Cycles == Nat \cup {-1}
Places == Indices \cup {NoIdx}
Entries == [cyc : Cycles, safe : BOOLEAN, idx : Places]
RingStates == [head : Nat, tail : Nat, threshold : Int, slots : [Slots -> Entries]]
Locals == [pos : Nat, ent : Entries, new : Entries, cyc : Cycles,
           idx : Places, from : Nat, to : Nat]

\* Where a thread is in lfdequeue with a position it has not given up, in
\* lfdequeue after that, and in lfenqueue with a position it may fill.
Drawn == {"load", "swap", "consume"}
GivenUp == {"tail", "catchup", "rehead", "retail", "chill", "spend"}
Filling == {"fill", "refill", "check", "put"}
Carrying == Filling \cup {"draw"}
Steps == {"idle", "head", "draw", "threshold", "warm"}
           \cup Drawn \cup GivenUp \cup Filling

Values == (Producers \X Nat) \cup {NoValue}

TypeInv ==
  /\ ring \in [Rings -> RingStates]
  /\ data \in [Indices -> Values]
  /\ pc \in [Threads -> Steps]
  /\ loc \in [Threads -> Locals]
  /\ calls \in [Threads -> Nat]
  /\ made \in [Producers -> Nat]
  /\ got \in [Consumers -> Seq(Values)]

\* The dequeuer of the position has not been there yet.
Open(r, pos) ==
  \/ pos >= ring[r].head
  \/ \E t \in Threads : Source(t) = r /\ pc[t] \in Drawn /\ loc[t].pos = pos

\* An occupied slot was filled at a position that is drawn by an enqueuer and
\* still open; a vacant one was left by the dequeuer of its cycle.
SlotInv ==
  \A r \in Rings, s \in Slots :
    LET e == ring[r].slots[s] IN
    /\ e.idx # NoIdx =>
         \E pos \in Nat : /\ Slot(pos) = s /\ Cycle(pos) = e.cyc
                          /\ pos < ring[r].tail /\ Open(r, pos)
    /\ e.idx = NoIdx =>
         \A pos \in Nat : Slot(pos) = s /\ Cycle(pos) = e.cyc => ~Open(r, pos)

\* A dequeuer that is through with a slot left it unsafe or in its own cycle.
PassInv ==
  \A r \in Rings, pos \in Nat :
    ~Open(r, pos) => \/ ring[r].slots[Slot(pos)].cyc >= Cycle(pos)
                     \/ ~ring[r].slots[Slot(pos)].safe

\* A position is drawn once, and the head is beyond it.
DrawInv ==
  /\ \A t \in Threads : pc[t] \in Drawn => loc[t].pos < ring[Source(t)].head
  /\ \A t, u \in Threads :
       /\ t # u /\ Source(t) = Source(u)
       /\ pc[t] \in Drawn /\ pc[u] \in Drawn
       => loc[t].pos # loc[u].pos
\* What a dequeuer knows of the slot it examined.
Taker(t) ==
  LET e == loc[t].ent
      h == Here(t, Source(t))
  IN  /\ pc[t] = "consume" =>
           e.idx # NoIdx /\ h.idx = e.idx /\ h.cyc = Cycle(loc[t].pos)
      /\ pc[t] = "swap" =>
           /\ e.cyc < Cycle(loc[t].pos)
           /\ loc[t].new = IF e.idx # NoIdx THEN Unsafe(e)
                           ELSE [e EXCEPT !.cyc = Cycle(loc[t].pos)]

\* What an enqueuer knows: the slot it examined was vacant, and is as it was
\* or in a later cycle.  When it may fill the slot, and finds it unchanged,
\* every dequeuer that is through with the slot came before its position.
Giver(t) ==
  LET e == loc[t].ent
      h == Here(t, Target(t))
  IN  /\ pc[t] \in {"check", "put"} =>
           e.idx = NoIdx /\ (h = e \/ e.cyc < h.cyc)
      /\ pc[t] = "put" /\ h = e =>
           /\ e.cyc < Cycle(loc[t].pos)
           /\ \A pos \in Nat :
                Slot(pos) = Slot(loc[t].pos) /\ ~Open(Target(t), pos)
                  => Cycle(pos) < Cycle(loc[t].pos)

\* The tail is beyond what is drawn to be filled, and never goes back.
Marks(t) ==
  /\ pc[t] \in Filling => loc[t].pos < ring[Target(t)].tail
  /\ pc[t] = "catchup" => loc[t].from <= loc[t].to

LocalInv == \A t \in Threads : Taker(t) /\ Giver(t) /\ Marks(t)

\* IndexOnce, place by place.
OnceInv ==
  /\ \A i \in Indices :
       \/ \E r \in Rings, s \in Slots : ring[r].slots[s].idx = i
       \/ \E t \in Threads : loc[t].idx = i
  /\ \A q, r \in Rings, s, u \in Slots :
       ring[q].slots[s].idx = ring[r].slots[u].idx /\ ring[q].slots[s].idx # NoIdx
         => q = r /\ s = u
  /\ \A t, u \in Threads :
       loc[t].idx = loc[u].idx /\ loc[t].idx # NoIdx => t = u
  /\ \A t \in Threads, r \in Rings, s \in Slots :
       loc[t].idx # NoIdx => ring[r].slots[s].idx # loc[t].idx
  /\ \A t \in Threads : loc[t].idx # NoIdx <=> pc[t] \in Carrying

RingInv ==
  TypeInv /\ SlotInv /\ PassInv /\ DrawInv /\ LocalInv /\ OnceInv

\* The position of an index in acq.
LiesAt(i, pos) ==
  /\ ring["acq"].slots[Slot(pos)].idx = i
  /\ ring["acq"].slots[Slot(pos)].cyc = Cycle(pos)

\* From here on a consumer takes values.
Reach(c) == IF pc[c] \in Drawn THEN loc[c].pos ELSE ring["acq"].head

\* Every value is the number of a call of its producer, of the one in progress
\* when the producer holds the index.
CallInv ==
  /\ \A p \in Producers :
       /\ made[p] <= calls[p] /\ calls[p] <= MaxCalls[p]
       /\ pc[p] \notin {"idle", "threshold", "warm"} => made[p] < calls[p]
       /\ loc[p].idx # NoIdx => data[loc[p].idx] = <<p, calls[p]>>
  /\ \A i \in Indices, pos \in Nat :
       LiesAt(i, pos) => /\ data[i] \in Producers \X Nat
                         /\ data[i][2] <= made[data[i][1]]
  /\ \A c \in Consumers : \A n \in DOMAIN got[c] :
       got[c][n] \in Producers \X Nat /\ got[c][n][2] <= made[got[c][n][1]]

\* The values of a producer lie in the order of its calls, behind what it is
\* about to fill, and in front of a consumer only later ones than it has got.
OrderInv ==
  /\ \A i, j \in Indices, p, q \in Nat :
       LiesAt(i, p) /\ LiesAt(j, q) /\ p < q /\ data[i][1] = data[j][1]
         => data[i][2] < data[j][2]
  /\ \A t \in Producers, i \in Indices, p \in Nat :
       pc[t] \in Filling /\ LiesAt(i, p) /\ data[i][1] = t => p < loc[t].pos
  /\ \A c \in Consumers, i \in Indices, p \in Nat :
       LiesAt(i, p) /\ p >= Reach(c)
         => \A n \in DOMAIN got[c] :
              got[c][n][1] = data[i][1] => got[c][n][2] < data[i][2]

-----------------------------------------------------------------------------
(***************************************************************************)
(* Positions, slots and cycles                                             *)
(***************************************************************************)
LEMMA Sizes ==
  /\ Half \in Nat /\ Half > 0 /\ Size \in Nat /\ Size > 1
  /\ NoIdx \in Nat /\ NoIdx \notin Indices /\ 0 \in Slots
BY RingAssumption DEF Size, NoIdx, Indices, Slots

\* A position is determined by its cycle and its place in the ring.
LEMMA Division ==
  ASSUME NEW n \in Nat, n > 0, NEW p \in Nat
  PROVE  /\ p \div n \in Nat /\ p % n \in 0 .. n - 1
         /\ p = n * (p \div n) + (p % n)
BY SMTT(30)

\* Multiples of n are n apart.
LEMMA Multiples ==
  ASSUME NEW n \in Nat, n > 0, NEW a \in Nat, NEW b \in Nat, a < b
  PROVE  n * a + n <= n * b
<1>1. PICK d \in Nat : b = a + 1 + d
  <2>1. b - a - 1 \in Nat /\ b = a + 1 + (b - a - 1)
    OBVIOUS
  <2> QED BY <2>1
<1>2. n * b = n * a + n + n * d
  BY <1>1, SMTT(30)
<1>3. n * d \in Nat
  BY SMTT(30)
<1>4. n * a \in Nat
  BY SMTT(30)
<1> QED BY <1>2, <1>3, <1>4

\* Division undoes n * c + m.
LEMMA Rebuild ==
  ASSUME NEW n \in Nat, n > 0, NEW c \in Nat, NEW m \in 0 .. n - 1
  PROVE  n * c + m \in Nat /\ (n * c + m) % n = m /\ (n * c + m) \div n = c
<1> DEFINE p == n * c + m
<1>1. p \in Nat
  BY SMTT(30)
<1>2. /\ p \div n \in Nat /\ p % n \in 0 .. n - 1
      /\ p = n * (p \div n) + (p % n)
  BY <1>1, Division
<1> DEFINE x == p \div n
<1>3. x = c
  <2>1. CASE x < c
    BY <1>2, <2>1, Multiples, SMTT(30)
  <2>2. CASE c < x
    BY <1>2, <2>2, Multiples, SMTT(30)
  <2> QED BY <1>2, <2>1, <2>2
<1>4. p = n * c + (p % n)
  BY <1>2, <1>3
<1>5. n * c \in Nat
  BY SMTT(30)
<1>6. p % n = m
  BY <1>2, <1>4, <1>5
<1> QED BY <1>1, <1>3, <1>6

\* The slot and the cycle of a position.
LEMMA SlotCycle ==
  ASSUME NEW p \in Nat
  PROVE  Slot(p) \in Slots /\ Cycle(p) \in Nat
<1>1. p % Size \in 0 .. Size - 1 /\ p \div Size \in Nat
  BY Sizes, Division
<1> QED BY <1>1, RingAssumption DEF Slot, Cycle, Slots

\* In one slot, positions and cycles are ordered alike.
LEMMA InSlot ==
  ASSUME NEW p \in Nat, NEW q \in Nat, Slot(p) = Slot(q)
  PROVE  (p < q <=> Cycle(p) < Cycle(q)) /\ (p = q <=> Cycle(p) = Cycle(q))
<1> DEFINE a == p \div Size  b == q \div Size
           m == p % Size     k == q % Size
<1>1. /\ a \in Nat /\ m \in 0 .. Size - 1 /\ p = Size * a + m
      /\ b \in Nat /\ k \in 0 .. Size - 1 /\ q = Size * b + k
  BY Sizes, Division
<1>2. m = k
  BY <1>1, RingAssumption DEF Slot
<1>3. Size * a \in Nat /\ Size * b \in Nat
  BY <1>1, Sizes, SMTT(30)
<1> HIDE DEF a, b, m, k
<1>4. a < b => p < q
  BY <1>1, <1>2, <1>3, Multiples, Sizes
<1>5. b < a => q < p
  BY <1>1, <1>2, <1>3, Multiples, Sizes
<1>6. a = b => p = q
  BY <1>1, <1>2
<1>7. (p < q <=> a < b) /\ (p = q <=> a = b)
  BY <1>1, <1>4, <1>5, <1>6
<1> QED BY <1>7 DEF Cycle, a, b

\* A slot has a position in every cycle.
LEMMA InCycle ==
  ASSUME NEW p \in Nat, NEW c \in Nat
  PROVE  \E q \in Nat : Slot(q) = Slot(p) /\ Cycle(q) = c
<1> DEFINE q == Size * c + (p % Size)
<1>1. p % Size \in 0 .. Size - 1
  BY Sizes, Division
<1>2. q \in Nat /\ q % Size = p % Size /\ q \div Size = c
  BY <1>1, Sizes, Rebuild
<1> QED BY <1>2 DEF Slot, Cycle

-----------------------------------------------------------------------------
(***************************************************************************)
(* Type correctness                                                        *)
(***************************************************************************)
LEMMA FreshType == Fresh \in Locals /\ Entry(-1, TRUE, NoIdx) \in Entries
BY Sizes DEF Fresh, Locals, Entries, Entry, Cycles, Places

\* A thread takes from one ring and gives to the other.
LEMMA Sides ==
  ASSUME NEW t \in Threads
  PROVE  Source(t) \in Rings /\ Target(t) \in Rings /\ Source(t) # Target(t)
BY DEF Source, Target, Rings

\* What a write to the slot of thread t does to the rings.
LEMMA WriteFacts ==
  ASSUME ring \in [Rings -> RingStates], NEW t \in Threads, NEW r \in Rings,
         NEW e \in Entries, loc[t].pos \in Nat, WriteSlot(t, r, e)
  PROVE  LET s == Slot(loc[t].pos) IN
         /\ s \in Slots
         /\ ring' \in [Rings -> RingStates]
         /\ ring'[r].slots[s] = e
         /\ \A q \in Rings, u \in Slots :
              q # r \/ u # s => ring'[q].slots[u] = ring[q].slots[u]
         /\ \A q \in Rings : /\ ring'[q].head = ring[q].head
                             /\ ring'[q].tail = ring[q].tail
                             /\ ring'[q].threshold = ring[q].threshold
<1> DEFINE s == Slot(loc[t].pos)
           x == [ring[r] EXCEPT !.slots[s] = e]
<1>1. s \in Slots
  BY SlotCycle
<1>2. ring[r] \in RingStates /\ ring[r].slots \in [Slots -> Entries]
  BY DEF RingStates
<1> HIDE DEF s
<1>3. /\ x \in RingStates /\ x.slots[s] = e
      /\ \A u \in Slots : u # s => x.slots[u] = ring[r].slots[u]
      /\ x.head = ring[r].head /\ x.tail = ring[r].tail
      /\ x.threshold = ring[r].threshold
  BY <1>1, <1>2 DEF RingStates
<1>4. ring' = [ring EXCEPT ![r] = x]
  BY DEF WriteSlot, s
<1> HIDE DEF x
<1> QED BY <1>1, <1>3, <1>4 DEF s

\* A head, a tail or a threshold moves: the slots stay.
LEMMA HeadFacts ==
  ASSUME ring \in [Rings -> RingStates], NEW r \in Rings, NEW n \in Nat,
         ring' = [ring EXCEPT ![r].head = n]
  PROVE  /\ ring' \in [Rings -> RingStates]
         /\ ring'[r].head = n
         /\ \A q \in Rings : /\ ring'[q].slots = ring[q].slots
                             /\ ring'[q].tail = ring[q].tail
                             /\ ring'[q].threshold = ring[q].threshold
         /\ \A q \in Rings : q # r => ring'[q] = ring[q]
<1> DEFINE x == [ring[r] EXCEPT !.head = n]
<1>1. ring[r] \in RingStates
  OBVIOUS
<1>2. /\ x \in RingStates /\ x.slots = ring[r].slots /\ x.head = n
      /\ x.tail = ring[r].tail /\ x.threshold = ring[r].threshold
  BY <1>1 DEF RingStates
<1>3. ring' = [ring EXCEPT ![r] = x]
  OBVIOUS
<1> HIDE DEF x
<1> QED BY <1>2, <1>3

\* What a new tail leaves alone.
LEMMA TailFacts ==
  ASSUME ring \in [Rings -> RingStates], NEW r \in Rings, NEW n \in Nat,
         ring' = [ring EXCEPT ![r].tail = n]
  PROVE  /\ ring' \in [Rings -> RingStates]
         /\ ring'[r].tail = n
         /\ \A q \in Rings : /\ ring'[q].slots = ring[q].slots
                             /\ ring'[q].head = ring[q].head
                             /\ ring'[q].threshold = ring[q].threshold
         /\ \A q \in Rings : q # r => ring'[q] = ring[q]
<1> DEFINE x == [ring[r] EXCEPT !.tail = n]
<1>1. ring[r] \in RingStates
  OBVIOUS
<1>2. /\ x \in RingStates /\ x.slots = ring[r].slots /\ x.tail = n
      /\ x.head = ring[r].head /\ x.threshold = ring[r].threshold
  BY <1>1 DEF RingStates
<1>3. ring' = [ring EXCEPT ![r] = x]
  OBVIOUS
<1> HIDE DEF x
<1> QED BY <1>2, <1>3

\* What a new threshold leaves alone.
LEMMA ThresholdFacts ==
  ASSUME ring \in [Rings -> RingStates], NEW r \in Rings, NEW n \in Int,
         ring' = [ring EXCEPT ![r].threshold = n]
  PROVE  /\ ring' \in [Rings -> RingStates]
         /\ ring'[r].threshold = n
         /\ \A q \in Rings : /\ ring'[q].slots = ring[q].slots
                             /\ ring'[q].head = ring[q].head
                             /\ ring'[q].tail = ring[q].tail
         /\ \A q \in Rings : q # r => ring'[q] = ring[q]
<1> DEFINE x == [ring[r] EXCEPT !.threshold = n]
<1>1. ring[r] \in RingStates
  OBVIOUS
<1>2. /\ x \in RingStates /\ x.slots = ring[r].slots /\ x.threshold = n
      /\ x.head = ring[r].head /\ x.tail = ring[r].tail
  BY <1>1 DEF RingStates
<1>3. ring' = [ring EXCEPT ![r] = x]
  OBVIOUS
<1> HIDE DEF x
<1> QED BY <1>2, <1>3

\* The initial states are typed.
LEMMA TypeInit == Init => TypeInv
<1> SUFFICES ASSUME Init PROVE TypeInv
  OBVIOUS
<1>1. InitEmpty \in RingStates
  BY Sizes DEF InitEmpty, RingStates, Slots, Entries, Entry, Cycles, Places
<1>2. InitFull \in RingStates
  <2>1. \A s \in Slots :
          (\E i \in Indices : s = Slot(i))
            => IndexRemap[CHOOSE i \in Indices : s = Slot(i)] \in Indices
    BY RingAssumption
  <2>2. InitFull.slots \in [Slots -> Entries]
    BY <2>1, Sizes DEF InitFull, Slots, Entries, Entry, Cycles, Places
  <2>3. InitFull = [head |-> 0, tail |-> Half, threshold |-> Threshold,
                    slots |-> InitFull.slots]
    BY DEF InitFull
  <2>4. Half \in Nat /\ Threshold \in Int
    BY Sizes DEF Threshold
  <2> QED BY <2>2, <2>3, <2>4 DEF RingStates
<1>3. ring \in [Rings -> RingStates]
  BY <1>1, <1>2 DEF Init
<1>4. /\ data \in [Indices -> Values] /\ pc \in [Threads -> Steps]
      /\ loc \in [Threads -> Locals] /\ calls \in [Threads -> Nat]
      /\ made \in [Producers -> Nat]
  BY FreshType DEF Init, Values, Steps
<1>5. got \in [Consumers -> Seq(Values)]
  BY DEF Init
<1> QED BY <1>3, <1>4, <1>5 DEF TypeInv

\* Every step keeps the types.
LEMMA TypeStep == TypeInv /\ LocalInv /\ [Next]_vars => TypeInv'
<1> SUFFICES ASSUME TypeInv, LocalInv, [Next]_vars PROVE TypeInv'
  OBVIOUS
<1> USE DEF TypeInv
<1>1. CASE UNCHANGED vars
  BY <1>1 DEF vars
<1>2. ASSUME NEW t \in Threads, Thread(t)
      PROVE  TypeInv'
  <2> DEFINE s == Source(t)  g == Target(t)
  <2>1. s \in Rings /\ g \in Rings
    BY Sides
  <2>2. /\ ring[s] \in RingStates /\ ring[g] \in RingStates
        /\ loc[t] \in Locals /\ Here(t, s) \in Entries /\ Here(t, g) \in Entries
        /\ loc[t].pos \in Nat
    BY <2>1, SlotCycle DEF RingStates, Locals, Here
  <2>3. /\ ring[s].head \in Nat /\ ring[s].tail \in Nat
        /\ ring[s].threshold \in Int
        /\ ring[g].head \in Nat /\ ring[g].tail \in Nat
        /\ ring[g].threshold \in Int
        /\ loc[t].from \in Nat /\ loc[t].to \in Nat /\ loc[t].idx \in Places
        /\ loc[t].ent \in Entries /\ loc[t].new \in Entries
        /\ loc[t].cyc \in Cycles /\ Cycle(loc[t].pos) \in Nat
    BY <2>2, SlotCycle DEF RingStates, Locals
  <2>4. CASE ReadThreshold(t)
    BY <2>4 DEF ReadThreshold, GoTo, KeepValues, Steps
  <2>5. CASE AddHead(t)
    <3>0. /\ ring' = [ring EXCEPT ![s].head = ring[s].head + 1]
          /\ ring[s].head + 1 \in Nat
      BY <2>3, <2>5 DEF AddHead
    <3>1. ring' \in [Rings -> RingStates]
      BY <2>1, <3>0, HeadFacts
    <3>2. loc' \in [Threads -> Locals]
      BY <2>3, <2>5, FreshType DEF AddHead, Locals
    <3> QED BY <2>5, <3>1, <3>2 DEF AddHead, GoTo, KeepValues, Steps, Drawn
  <2>6. CASE LoadEntry(t)
    <3>1. loc' \in [Threads -> Locals]
      BY <2>2, <2>6 DEF LoadEntry, Locals
    <3> QED BY <2>6, <3>1 DEF LoadEntry, GoTo, KeepValues, Steps, Drawn
  <2>7. CASE LoadOccupied(t)
    <3>1. Unsafe(Here(t, s)) \in Entries
      BY <2>2 DEF Unsafe, Entries
    <3> DEFINE x == [loc[t] EXCEPT !.ent = Here(t, s), !.new = Unsafe(Here(t, s))]
    <3>2. x \in Locals
      BY <2>2, <3>1 DEF Locals
    <3>3. loc' = loc \/ loc' = [loc EXCEPT ![t] = x]
      BY <2>7 DEF LoadOccupied
    <3> HIDE DEF x
    <3>4. loc' \in [Threads -> Locals]
      BY <3>2, <3>3
    <3> QED
      BY <2>7, <3>4 DEF LoadOccupied, GoTo, KeepValues, Steps, Drawn, GivenUp
  <2>8. CASE LoadVacant(t)
    <3>1. [Here(t, s) EXCEPT !.cyc = Cycle(loc[t].pos)] \in Entries
      BY <2>2, <2>3 DEF Entries, Cycles
    <3> DEFINE x == [loc[t] EXCEPT !.ent = Here(t, s),
                       !.new = [Here(t, s) EXCEPT !.cyc = Cycle(loc[t].pos)]]
    <3>2. x \in Locals
      BY <2>2, <3>1 DEF Locals
    <3>3. loc' = loc \/ loc' = [loc EXCEPT ![t] = x]
      BY <2>8 DEF LoadVacant
    <3> HIDE DEF x
    <3>4. loc' \in [Threads -> Locals]
      BY <3>2, <3>3
    <3> QED
      BY <2>8, <3>4 DEF LoadVacant, GoTo, KeepValues, Steps, Drawn, GivenUp
  <2>9. CASE SwapEntry(t)
    <3>1. ring' \in [Rings -> RingStates]
      <4>1. ring' = ring \/ WriteSlot(t, s, loc[t].new)
        BY <2>9 DEF SwapEntry
      <4> QED BY <2>1, <2>2, <2>3, <4>1, WriteFacts
    <3> QED BY <2>9, <3>1 DEF SwapEntry, GoTo, KeepValues, Steps, Drawn, GivenUp
  <2>10. CASE Consume(t)
    <3> DEFINE i == loc[t].ent.idx
    <3>1. [Here(t, s) EXCEPT !.idx = NoIdx] \in Entries /\ i \in Places
      BY <2>2, <2>3 DEF Entries, Places
    <3>2. ring' \in [Rings -> RingStates]
      <4>1. WriteSlot(t, s, [Here(t, s) EXCEPT !.idx = NoIdx])
        BY <2>10 DEF Consume
      <4> QED BY <2>1, <2>2, <3>1, <4>1, WriteFacts
    <3>3. loc' \in [Threads -> Locals]
      BY <2>10, <3>1, FreshType DEF Consume, Locals
    <3>4. data' \in [Indices -> Values]
      <4>1. CASE t \in Producers
        <5>1. <<t, calls[t]>> \in Values
          BY <4>1 DEF Values
        <5>2. data' = [data EXCEPT ![i] = <<t, calls[t]>>]
          BY <2>10, <4>1 DEF Consume
        <5> QED BY <5>1, <5>2
      <4> QED BY <2>10, <4>1 DEF Consume
    <3>5. got' \in [Consumers -> Seq(Values)]
      <4>1. CASE t \in Producers
        BY <2>10, <4>1 DEF Consume
      <4>2. CASE t \notin Producers
        <5>1. t \in Consumers /\ got[t] \in Seq(Values)
          BY <4>2 DEF Threads
        <5>2. data[i] \in Values
          BY <2>10, <3>1 DEF Consume, At, LocalInv, Taker, Places
        <5>3. got' = [got EXCEPT ![t] = Append(got[t], data[i])]
          BY <2>10, <4>2 DEF Consume
        <5> QED BY <5>1, <5>2, <5>3
      <4> QED BY <4>1, <4>2
    <3> QED BY <2>10, <3>2, <3>3, <3>4, <3>5 DEF Consume, GoTo, Steps
  <2>11. CASE ReadTail(t)
    <3>1. loc' \in [Threads -> Locals]
      <4>0. PICK n \in Nat, k \in Nat : n = ring[s].tail /\ k = loc[t].pos + 1
        BY <2>2, <2>3
      <4> DEFINE x == [loc[t] EXCEPT !.from = n, !.to = k]
      <4>1. x \in Locals
        BY <2>2 DEF Locals
      <4>2. loc' = [loc EXCEPT ![t] = x]
        BY <2>11, <4>0 DEF ReadTail
      <4> HIDE DEF x
      <4> QED BY <4>1, <4>2
    <3> QED BY <2>11, <3>1 DEF ReadTail, GoTo, KeepValues, Steps, GivenUp
  <2>12. CASE CatchUp(t)
    <3>0. ring' = ring \/ ring' = [ring EXCEPT ![s].tail = loc[t].to]
      BY <2>12 DEF CatchUp
    <3>1. ring' \in [Rings -> RingStates]
      BY <2>1, <2>3, <3>0, TailFacts
    <3> QED BY <2>12, <3>1 DEF CatchUp, GoTo, KeepValues, Steps, GivenUp
  <2>13. CASE RereadHead(t)
    <3>1. loc' \in [Threads -> Locals]
      BY <2>3, <2>13 DEF RereadHead, Locals
    <3> QED BY <2>13, <3>1 DEF RereadHead, GoTo, KeepValues, Steps, GivenUp
  <2>14. CASE RereadTail(t)
    <3>1. loc' \in [Threads -> Locals]
      BY <2>3, <2>14 DEF RereadTail, Locals
    <3> QED BY <2>14, <3>1 DEF RereadTail, GoTo, KeepValues, Steps, GivenUp
  <2>15. CASE Chill(t)
    <3>0. /\ ring' = [ring EXCEPT ![s].threshold = -1]
          /\ -1 \in Int
      BY <2>3, <2>15 DEF Chill
    <3>1. ring' \in [Rings -> RingStates]
      BY <2>1, <3>0, ThresholdFacts
    <3> QED BY <2>15, <3>1, FreshType DEF Chill, GoTo, KeepValues, Steps
  <2>16. CASE Spend(t)
    <3>0. /\ ring' = [ring EXCEPT ![s].threshold = ring[s].threshold - 1]
          /\ ring[s].threshold - 1 \in Int
      BY <2>3, <2>16 DEF Spend
    <3>1. ring' \in [Rings -> RingStates]
      BY <2>1, <3>0, ThresholdFacts
    <3> QED BY <2>16, <3>1, FreshType DEF Spend, GoTo, KeepValues, Steps
  <2>17. CASE AddTail(t)
    <3>0. /\ ring' = [ring EXCEPT ![g].tail = ring[g].tail + 1]
          /\ ring[g].tail + 1 \in Nat
      BY <2>3, <2>17 DEF AddTail
    <3>1. ring' \in [Rings -> RingStates]
      BY <2>1, <3>0, TailFacts
    <3>2. loc' \in [Threads -> Locals]
      BY <2>3, <2>17, FreshType DEF AddTail, Locals
    <3> QED BY <2>17, <3>1, <3>2 DEF AddTail, GoTo, KeepValues, Steps, Filling
  <2>18. CASE LoadSlot(t) \/ RetrySlot(t)
    <3>1. PICK c \in Cycles : Examine(t, Here(t, g), c)
      BY <2>2, <2>3, <2>18 DEF LoadSlot, RetrySlot, Entries
    <3>2. loc' \in [Threads -> Locals]
      BY <2>2, <3>1 DEF Examine, Locals
    <3> QED BY <3>1, <3>2 DEF Examine, GoTo, KeepValues, Steps, Filling
  <2>19. CASE CheckHead(t)
    BY <2>19 DEF CheckHead, GoTo, KeepValues, Steps, Filling
  <2>20. CASE PutEntry(t)
    <3> DEFINE e == Entry(Cycle(loc[t].pos), TRUE, loc[t].idx)
    <3>1. e \in Entries
      BY <2>3 DEF Entry, Entries, Cycles
    <3>2. ring' \in [Rings -> RingStates]
      <4>1. ring' = ring \/ WriteSlot(t, g, e)
        BY <2>20 DEF PutEntry
      <4> QED BY <2>1, <2>2, <3>1, <4>1, WriteFacts
    <3>3. loc' \in [Threads -> Locals] /\ made' \in [Producers -> Nat]
      BY <2>20, FreshType DEF PutEntry
    <3> QED BY <2>20, <3>2, <3>3 DEF PutEntry, GoTo, Steps, Filling
  <2>21. CASE LoadThreshold(t)
    BY <2>21 DEF LoadThreshold, GoTo, KeepValues, Steps
  <2>22. CASE Warm(t)
    <3>0. /\ ring' = [ring EXCEPT ![g].threshold = Threshold]
          /\ Threshold \in Int
      BY <2>3, <2>22, Sizes DEF Warm, Threshold
    <3>1. ring' \in [Rings -> RingStates]
      BY <2>1, <3>0, ThresholdFacts
    <3> QED BY <2>22, <3>1 DEF Warm, GoTo, KeepValues, Steps
  <2> QED
    BY <1>2, <2>4, <2>5, <2>6, <2>7, <2>8, <2>9, <2>10, <2>11, <2>12, <2>13,
       <2>14, <2>15, <2>16, <2>17, <2>18, <2>19, <2>20, <2>21, <2>22
       DEF Thread, Dequeue, Enqueue
<1> QED BY <1>1, <1>2 DEF Next

-----------------------------------------------------------------------------
(***************************************************************************)
(* The initial rings                                                       *)
(***************************************************************************)
LEMMA FirstCycle ==
  ASSUME NEW i \in Slots
  PROVE  i \in Nat /\ Cycle(i) = 0 /\ Slot(i) = Remap[i]
<1>1. (Size * 0 + i) % Size = i /\ (Size * 0 + i) \div Size = 0
  BY Sizes, Rebuild DEF Slots
<1>2. i \in Nat /\ Size * 0 + i = i
  BY Sizes DEF Slots
<1> QED BY <1>1, <1>2 DEF Cycle, Slot

\* The remapping reaches every index.
LEMMA AllIndices == \A i \in Indices : \E j \in Indices : IndexRemap[j] = i
<1>1. IsFiniteSet(Indices)
  BY Sizes, FS_Interval DEF Indices
<1>2. IndexRemap \in Injection(Indices, Indices)
  BY RingAssumption DEF Injection, IsInjective
<1>3. IndexRemap \in Surjection(Indices, Indices)
  BY <1>1, <1>2, FS_Injection
<1> QED BY <1>3 DEF Surjection

\* The slots of the full ring.
LEMMA FullSlots ==
  /\ \A i \in Indices : /\ Slot(i) \in Slots
                        /\ InitFull.slots[Slot(i)] = Entry(0, TRUE, IndexRemap[i])
  /\ \A s \in Slots : \/ \E i \in Indices : s = Slot(i)
                      \/ InitFull.slots[s] = Entry(-1, TRUE, NoIdx)
<1>1. ASSUME NEW i \in Indices
      PROVE  /\ Slot(i) \in Slots
             /\ InitFull.slots[Slot(i)] = Entry(0, TRUE, IndexRemap[i])
  <2>1. i \in Slots /\ Slot(i) \in Slots
    BY Sizes, SlotCycle DEF Indices, Slots, Size
  <2>2. \A j \in Indices : Slot(i) = Slot(j) => i = j
    <3> TAKE j \in Indices
    <3>1. j \in Slots
      BY Sizes DEF Indices, Slots, Size
    <3> QED BY <2>1, <3>1, FirstCycle, RingAssumption DEF Slots
  <2>3. (CHOOSE j \in Indices : Slot(i) = Slot(j)) = i
    BY <2>2
  <2> QED BY <2>1, <2>3 DEF InitFull, Slots
<1>2. ASSUME NEW s \in Slots, ~\E i \in Indices : s = Slot(i)
      PROVE  InitFull.slots[s] = Entry(-1, TRUE, NoIdx)
  BY <1>2 DEF InitFull, Slots
<1> QED BY <1>1, <1>2

\* The initial rings and threads.
LEMMA RingInit == Init => RingInv
<1> SUFFICES ASSUME Init PROVE RingInv
  OBVIOUS
<1>1. TypeInv
  BY TypeInit
<1>2. ring["acq"] = InitEmpty /\ ring["free"] = InitFull
  BY DEF Init, Rings
<1>3. \A r \in Rings : ring[r].head = 0
  BY <1>2 DEF Rings, InitEmpty, InitFull
<1>4. \A r \in Rings, pos \in Nat : Open(r, pos)
  BY <1>3 DEF Open
<1>5. \A t \in Threads : pc[t] = "idle" /\ loc[t].idx = NoIdx
  BY DEF Init, Fresh
<1>6. SlotInv
  <2> SUFFICES ASSUME NEW r \in Rings, NEW s \in Slots
               PROVE  /\ ring[r].slots[s].idx # NoIdx =>
                           \E pos \in Nat :
                             /\ Slot(pos) = s /\ Cycle(pos) = ring[r].slots[s].cyc
                             /\ pos < ring[r].tail /\ Open(r, pos)
                      /\ ring[r].slots[s].idx = NoIdx =>
                           \A pos \in Nat :
                             Slot(pos) = s /\ Cycle(pos) = ring[r].slots[s].cyc
                               => ~Open(r, pos)
    BY DEF SlotInv
  <2>1. CASE ring[r].slots[s] = Entry(-1, TRUE, NoIdx)
    <3>1. ring[r].slots[s].idx = NoIdx /\ ring[r].slots[s].cyc = -1
      BY <2>1 DEF Entry
    <3>2. \A pos \in Nat : Cycle(pos) # -1
      BY SlotCycle
    <3> QED BY <3>1, <3>2
  <2>2. CASE ring[r].slots[s] # Entry(-1, TRUE, NoIdx)
    <3>1. r = "free"
      <4>1. InitEmpty.slots[s] = Entry(-1, TRUE, NoIdx)
        BY DEF InitEmpty, Slots
      <4> QED BY <1>2, <2>2, <4>1 DEF Rings
    <3>2. PICK i \in Indices : s = Slot(i)
      BY <1>2, <2>2, <3>1, FullSlots
    <3>3. ring[r].slots[s] = Entry(0, TRUE, IndexRemap[i])
      BY <1>2, <3>1, <3>2, FullSlots
    <3>4. i \in Nat /\ Cycle(i) = 0
      BY FirstCycle, Sizes DEF Indices, Slots, Size
    <3>5. i < ring[r].tail /\ Open(r, i)
      BY <1>2, <1>4, <3>1, <3>4, Sizes DEF InitFull, Indices
    <3>6. ring[r].slots[s].idx # NoIdx /\ ring[r].slots[s].cyc = 0
      BY <3>3, RingAssumption, Sizes DEF Entry
    <3> QED BY <3>2, <3>4, <3>5, <3>6
  <2> QED BY <2>1, <2>2
<1>7. PassInv
  BY <1>4 DEF PassInv
<1>8. DrawInv /\ LocalInv
  BY <1>5 DEF DrawInv, LocalInv, Taker, Giver, Marks, Drawn, Filling
<1>9. OnceInv
  <2>1. \A s \in Slots : ring["acq"].slots[s].idx = NoIdx
    BY <1>2 DEF InitEmpty, Entry, Slots
  <2>2. \A s \in Slots :
          ring["free"].slots[s].idx # NoIdx =>
            \E i \in Indices : s = Slot(i) /\ ring["free"].slots[s].idx = IndexRemap[i]
    <3> SUFFICES ASSUME NEW s \in Slots, ring["free"].slots[s].idx # NoIdx
                 PROVE  \E i \in Indices :
                          s = Slot(i) /\ ring["free"].slots[s].idx = IndexRemap[i]
      OBVIOUS
    <3>1. InitFull.slots[s] # Entry(-1, TRUE, NoIdx)
      BY <1>2 DEF Entry
    <3>2. PICK i \in Indices : s = Slot(i)
      BY <3>1, FullSlots
    <3>3. InitFull.slots[s] = Entry(0, TRUE, IndexRemap[i])
      BY <3>2, FullSlots
    <3> QED BY <1>2, <3>2, <3>3 DEF Entry
  <2>3. \A i \in Indices : \E s \in Slots : ring["free"].slots[s].idx = i
    <3> TAKE i \in Indices
    <3>1. PICK j \in Indices : IndexRemap[j] = i
      BY AllIndices
    <3>2. Slot(j) \in Slots /\ InitFull.slots[Slot(j)] = Entry(0, TRUE, i)
      BY <3>1, FullSlots
    <3> QED BY <1>2, <3>2 DEF Entry
  <2>4. \A s, u \in Slots :
          /\ ring["free"].slots[s].idx = ring["free"].slots[u].idx
          /\ ring["free"].slots[s].idx # NoIdx
          => s = u
    BY <2>2, RingAssumption
  <2>5. "free" \in Rings /\ Rings = {"acq", "free"}
    BY DEF Rings
  <2> QED BY <1>5, <2>1, <2>3, <2>4, <2>5 DEF OnceInv, Carrying, Filling
<1> QED BY <1>1, <1>6, <1>7, <1>8, <1>9 DEF RingInv

-----------------------------------------------------------------------------
(***************************************************************************)
(* What a step may do to the slots and to the open positions, and what     *)
(* then holds of the slots and of the other threads                        *)
(***************************************************************************)
Others(t) == \A u \in Threads : u # t => pc'[u] = pc[u] /\ loc'[u] = loc[u]

\* A slot stays, becomes unsafe, is emptied by the dequeuer of its cycle, is
\* moved on to the cycle of a dequeuer that gives up, or is filled.
Advances(r, s) ==
  LET a == ring[r].slots[s]
      b == ring'[r].slots[s]
      Gone(c) == \A pos \in Nat : Slot(pos) = s /\ Cycle(pos) = c => ~Open(r, pos)'
  IN  \/ b = a
      \/ a.idx # NoIdx /\ b = Unsafe(a)
      \/ a.idx # NoIdx /\ b = [a EXCEPT !.idx = NoIdx] /\ Gone(a.cyc)
      \/ /\ a.idx = NoIdx /\ b.idx = NoIdx
         /\ b.cyc > a.cyc /\ b.safe = a.safe /\ Gone(b.cyc)
      \/ /\ a.idx = NoIdx /\ b.idx # NoIdx /\ b.cyc > a.cyc
         /\ \E pos \in Nat : /\ Slot(pos) = s /\ Cycle(pos) = b.cyc
                             /\ pos < ring'[r].tail /\ Open(r, pos)'
         /\ \A pos \in Nat : Slot(pos) = s /\ ~Open(r, pos)' => Cycle(pos) < b.cyc

\* A dequeuer gives its position up only when nothing can be waiting there,
\* and leaves the slot so that nothing of its cycle can be put there.
Closes(r, pos) ==
  LET e == ring'[r].slots[Slot(pos)] IN
  Open(r, pos) /\ ~Open(r, pos)' =>
    IF e.idx = NoIdx THEN e.cyc >= Cycle(pos)
    ELSE e.cyc # Cycle(pos) /\ (e.cyc > Cycle(pos) \/ ~e.safe)

Proper(t) ==
  /\ Others(t)
  /\ \A r \in Rings, s \in Slots : Advances(r, s)
  /\ \A r \in Rings, pos \in Nat : (Open(r, pos)' => Open(r, pos)) /\ Closes(r, pos)
  /\ \A r \in Rings : ring'[r].tail >= ring[r].tail

\* A slot that is not written advances.
LEMMA Stays ==
  ASSUME NEW r, NEW s, ring'[r].slots[s] = ring[r].slots[s]
  PROVE  Advances(r, s)
BY DEF Advances

\* The fields of an entry.
LEMMA EntryType ==
  ASSUME TypeInv, NEW r \in Rings, NEW s \in Slots
  PROVE  /\ ring[r].slots[s] \in Entries
         /\ ring[r].slots[s].cyc \in Int /\ ring[r].slots[s].idx \in Places
         /\ ring[r].slots[s].safe \in BOOLEAN
         /\ ring[r].tail \in Nat /\ ring[r].head \in Nat
BY DEF TypeInv, RingStates, Entries, Cycles

\* A proper step leaves the slots and the passed positions consistent.
LEMMA SlotsKeep ==
  ASSUME RingInv, TypeInv', NEW t \in Threads, Proper(t)
  PROVE  SlotInv' /\ PassInv'
<1>1. ASSUME NEW r \in Rings, NEW s \in Slots, ring'[r].slots[s].idx # NoIdx
      PROVE  \E pos \in Nat : /\ Slot(pos) = s /\ Cycle(pos) = ring'[r].slots[s].cyc
                              /\ pos < ring'[r].tail /\ Open(r, pos)'
  <2> DEFINE a == ring[r].slots[s]  b == ring'[r].slots[s]
  <2>1. a \in Entries /\ ring[r].tail \in Nat /\ ring'[r].tail \in Nat
    BY EntryType, TypeInv' DEF RingInv, TypeInv, RingStates
  <2>2. CASE a.idx # NoIdx /\ (b = a \/ b = Unsafe(a))
    <3>1. b.cyc = a.cyc
      BY <2>1, <2>2 DEF Unsafe, Entries
    <3>2. PICK pos \in Nat : /\ Slot(pos) = s /\ Cycle(pos) = a.cyc
                             /\ pos < ring[r].tail /\ Open(r, pos)
      BY <2>2 DEF RingInv, SlotInv
    <3>3. Open(r, pos)'
      BY <1>1, <3>1, <3>2 DEF Proper, Closes
    <3>4. pos < ring'[r].tail
      BY <2>1, <3>2 DEF Proper
    <3> QED BY <3>1, <3>2, <3>3, <3>4
  <2>3. CASE ~(a.idx # NoIdx /\ (b = a \/ b = Unsafe(a)))
    <3>1. Advances(r, s)
      BY DEF Proper
    <3>2. [a EXCEPT !.idx = NoIdx].idx = NoIdx
      BY <2>1 DEF Entries
    <3> QED BY <1>1, <2>3, <3>1, <3>2 DEF Advances
  <2> QED BY <2>2, <2>3
<1>2. ASSUME NEW r \in Rings, NEW s \in Slots, ring'[r].slots[s].idx = NoIdx,
             NEW pos \in Nat, Slot(pos) = s, Cycle(pos) = ring'[r].slots[s].cyc
      PROVE  ~Open(r, pos)'
  <2> DEFINE a == ring[r].slots[s]  b == ring'[r].slots[s]
  <2>1. a \in Entries
    BY EntryType DEF RingInv
  <2>2. Advances(r, s) /\ (Open(r, pos)' => Open(r, pos))
    BY DEF Proper
  <2>3. CASE b = a
    BY <1>2, <2>2, <2>3 DEF RingInv, SlotInv
  <2>4. CASE a.idx # NoIdx /\ b = Unsafe(a)
    BY <1>2, <2>1, <2>4 DEF Unsafe, Entries
  <2>5. CASE a.idx # NoIdx /\ b # a /\ b # Unsafe(a)
    <3>1. b = [a EXCEPT !.idx = NoIdx]
      BY <2>2, <2>5 DEF Advances
    <3>2. b.cyc = a.cyc
      BY <2>1, <3>1 DEF Entries
    <3> QED BY <1>2, <2>2, <2>5, <3>2 DEF Advances
  <2>6. CASE a.idx = NoIdx /\ b # a
    BY <1>2, <2>2, <2>6 DEF Advances
  <2> QED BY <2>3, <2>4, <2>5, <2>6
<1>3. ASSUME NEW r \in Rings, NEW pos \in Nat, ~Open(r, pos)'
      PROVE  \/ ring'[r].slots[Slot(pos)].cyc >= Cycle(pos)
             \/ ~ring'[r].slots[Slot(pos)].safe
  <2> DEFINE s == Slot(pos)  a == ring[r].slots[s]  b == ring'[r].slots[s]
  <2>1. s \in Slots /\ Cycle(pos) \in Nat
    BY SlotCycle
  <2>2. a \in Entries /\ a.cyc \in Int /\ b \in Entries /\ b.cyc \in Int
    BY <2>1, EntryType, TypeInv', SMTT(30) DEF RingInv, TypeInv, RingStates, Entries, Cycles
  <2>3. Advances(r, s) /\ Closes(r, pos)
    BY <2>1 DEF Proper
  <2>4. CASE Open(r, pos)
    BY <1>3, <2>1, <2>2, <2>3, <2>4 DEF Closes
  <2>5. CASE ~Open(r, pos)
    <3>1. a.cyc >= Cycle(pos) \/ ~a.safe
      BY <2>5 DEF RingInv, PassInv
    <3>2. CASE b = a
      BY <3>1, <3>2
    <3>3. CASE b = Unsafe(a)
      BY <2>2, <3>3 DEF Unsafe, Entries
    <3>4. CASE b = [a EXCEPT !.idx = NoIdx]
      BY <2>2, <3>1, <3>4 DEF Entries
    <3>5. CASE b.cyc > a.cyc /\ b.safe = a.safe
      BY <2>1, <2>2, <3>1, <3>5
    <3>6. CASE \A p \in Nat : Slot(p) = s /\ ~Open(r, p)' => Cycle(p) < b.cyc
      BY <1>3, <2>1, <2>2, <3>6
    <3> QED BY <2>3, <3>2, <3>3, <3>4, <3>5, <3>6 DEF Advances
  <2> QED BY <2>4, <2>5
<1> QED BY <1>1, <1>2, <1>3 DEF SlotInv, PassInv

\* A proper step does not disturb what another thread relies on.
LEMMA OthersKeep ==
  ASSUME RingInv, TypeInv', NEW t \in Threads, Proper(t),
         NEW u \in Threads, u # t
  PROVE  Taker(u)' /\ Giver(u)' /\ Marks(u)'
<1> DEFINE s == Slot(loc[u].pos)
<1>1. /\ pc'[u] = pc[u] /\ loc'[u] = loc[u]
      /\ Taker(u) /\ Giver(u) /\ Marks(u)
  BY DEF Proper, Others, RingInv, LocalInv
<1>2. /\ loc[u] \in Locals /\ loc[u].pos \in Nat /\ loc[u].ent \in Entries
      /\ loc[u].ent.cyc \in Int
      /\ s \in Slots /\ Cycle(loc[u].pos) \in Nat
      /\ Source(u) \in Rings /\ Target(u) \in Rings
  <2>1. loc[u] \in Locals
    BY DEF RingInv, TypeInv
  <2>2. loc[u].pos \in Nat /\ loc[u].ent \in Entries
    BY <2>1 DEF Locals
  <2>3. loc[u].ent.cyc \in Int
    BY <2>2 DEF Entries, Cycles
  <2> QED BY <2>1, <2>2, <2>3, SlotCycle, Sides
<1>3. ASSUME NEW r \in Rings
      PROVE  /\ Here(u, r) = ring[r].slots[s] /\ Here(u, r)' = ring'[r].slots[s]
             /\ Here(u, r) \in Entries /\ Here(u, r)' \in Entries
             /\ Here(u, r).cyc \in Int /\ Here(u, r)'.cyc \in Int
             /\ ring[r].tail \in Nat /\ ring'[r].tail \in Nat
             /\ ring'[r].tail >= ring[r].tail
             /\ Advances(r, s)
  <2>1. Here(u, r) = ring[r].slots[s] /\ Here(u, r)' = ring'[r].slots[s]
    BY <1>1 DEF Here
  <2>2. /\ ring[r].slots[s] \in Entries /\ ring'[r].slots[s] \in Entries
        /\ ring[r].tail \in Nat /\ ring'[r].tail \in Nat
    BY <1>2 DEF RingInv, TypeInv, RingStates
  <2> QED BY <1>2, <2>1, <2>2 DEF Proper, Entries, Cycles
<1>4. Taker(u)'
  <2> DEFINE r == Source(u)  a == ring[r].slots[s]  b == ring'[r].slots[s]
             e == loc[u].ent
  <2>1. pc[u] = "consume" => b.idx = e.idx /\ b.cyc = Cycle(loc[u].pos)
    <3> SUFFICES ASSUME pc[u] = "consume"
                 PROVE  b.idx = e.idx /\ b.cyc = Cycle(loc[u].pos)
      OBVIOUS
    <3>1. e.idx # NoIdx /\ a.idx = e.idx /\ a.cyc = Cycle(loc[u].pos)
      BY <1>1, <1>2, <1>3 DEF Taker
    <3>2. PICK pos \in Nat : pos = loc[u].pos /\ Open(r, pos)'
      <4>1. \A pos \in Nat : pos = loc[u].pos => Open(r, pos)'
        BY <1>1 DEF Open, Drawn
      <4> QED BY <1>2, <4>1
    <3>3. b = a \/ b = Unsafe(a)
      <4>1. Advances(r, s)
        BY <1>2, <1>3
      <4> QED BY <1>2, <3>1, <3>2, <4>1 DEF Advances
    <3> QED BY <1>2, <1>3, <3>1, <3>3 DEF Unsafe, Entries
  <2> QED BY <1>1, <1>2, <1>3, <2>1 DEF Taker
<1>5. Giver(u)'
  <2> DEFINE r == Target(u)  a == ring[r].slots[s]  b == ring'[r].slots[s]
             e == loc[u].ent
  <2>1. /\ a \in Entries /\ b \in Entries /\ a.cyc \in Int /\ b.cyc \in Int
        /\ Advances(r, s) /\ Here(u, r) = a /\ Here(u, r)' = b
    BY <1>2, <1>3
  <2>2. \/ b = a
        \/ b.cyc > a.cyc
        \/ b.cyc = a.cyc /\ a.idx # NoIdx
    BY <2>1 DEF Advances, Unsafe, Entries
  <2>3. pc[u] \in {"check", "put"} => e.idx = NoIdx /\ (b = e \/ e.cyc < b.cyc)
    BY <1>1, <1>2, <2>1, <2>2 DEF Giver
  <2>4. ASSUME pc[u] = "put", b = e
        PROVE  /\ e.cyc < Cycle(loc[u].pos)
               /\ \A pos \in Nat :
                    Slot(pos) = Slot(loc[u].pos) /\ ~Open(r, pos)'
                      => Cycle(pos) < Cycle(loc[u].pos)
    <3>1. e.idx = NoIdx /\ (a = e \/ e.cyc < a.cyc)
      BY <1>1, <2>1, <2>4 DEF Giver
    <3>2. a = e
      BY <1>2, <2>1, <2>2, <2>4, <3>1
    <3>3. /\ e.cyc < Cycle(loc[u].pos)
          /\ \A pos \in Nat :
               Slot(pos) = Slot(loc[u].pos) /\ ~Open(r, pos)
                 => Cycle(pos) < Cycle(loc[u].pos)
      BY <1>1, <2>1, <2>4, <3>2 DEF Giver
    <3>4. ASSUME NEW pos \in Nat, Slot(pos) = Slot(loc[u].pos), ~Open(r, pos)'
          PROVE  Cycle(pos) < Cycle(loc[u].pos)
      <4>1. CASE ~Open(r, pos)
        BY <3>3, <3>4, <4>1
      <4>2. CASE Open(r, pos)
        <5>1. e.cyc >= Cycle(pos)
          BY <1>2, <2>4, <3>1, <3>4, <4>2 DEF Proper, Closes
        <5>2. Cycle(pos) \in Nat
          BY SlotCycle
        <5> QED BY <1>2, <3>3, <5>1, <5>2
      <4> QED BY <4>1, <4>2
    <3> QED BY <3>3, <3>4
  <2> QED BY <1>1, <2>1, <2>3, <2>4 DEF Giver
<1>6. Marks(u)'
  BY <1>1, <1>2, <1>3 DEF Marks
<1> QED BY <1>4, <1>5, <1>6

\* A step that changes neither slots nor heads, and whose thread keeps the
\* position and the index it has.
Quiet(t) ==
  /\ Others(t)
  /\ \A r \in Rings : /\ ring'[r].slots = ring[r].slots
                      /\ ring'[r].head = ring[r].head
                      /\ ring'[r].tail >= ring[r].tail
  /\ pc'[t] \in Drawn <=> pc[t] \in Drawn
  /\ pc'[t] \in Carrying <=> pc[t] \in Carrying
  /\ pc[t] \in Drawn => loc'[t].pos = loc[t].pos
  /\ loc'[t].idx = loc[t].idx

\* The open positions when nobody draws or gives up one.
LEMMA OpenSame ==
  ASSUME NEW t \in Threads, Others(t),
         \A r \in Rings : ring'[r].head = ring[r].head,
         pc'[t] \in Drawn <=> pc[t] \in Drawn,
         pc[t] \in Drawn => loc'[t].pos = loc[t].pos
  PROVE  \A r \in Rings, pos \in Nat : Open(r, pos)' <=> Open(r, pos)
<1> TAKE r \in Rings, pos \in Nat
<1>1. ASSUME NEW u \in Threads
      PROVE  /\ pc'[u] \in Drawn <=> pc[u] \in Drawn
             /\ pc[u] \in Drawn => loc'[u].pos = loc[u].pos
  BY DEF Others
<1> QED BY <1>1 DEF Open

\* The open positions when t gives its own up.
LEMMA OpenGivenUp ==
  ASSUME RingInv, NEW t \in Threads, Others(t),
         \A r \in Rings : ring'[r].head = ring[r].head,
         pc[t] \in Drawn, pc'[t] \notin Drawn
  PROVE  \A r \in Rings, pos \in Nat :
           Open(r, pos)' <=> Open(r, pos) /\ ~(r = Source(t) /\ pos = loc[t].pos)
<1> TAKE r \in Rings, pos \in Nat
<1>1. \A u \in Threads : u # t => pc'[u] = pc[u] /\ loc'[u] = loc[u]
  BY DEF Others
<1>2. /\ loc[t].pos < ring[Source(t)].head
      /\ \A u \in Threads : /\ u # t /\ Source(u) = Source(t) /\ pc[u] \in Drawn
                            => loc[u].pos # loc[t].pos
  BY DEF RingInv, DrawInv
<1>3. loc[t].pos \in Nat /\ ring[r].head \in Nat
  BY DEF RingInv, TypeInv, Locals, RingStates
<1> QED BY <1>1, <1>2, <1>3 DEF Open

\* Indices stay unique while no index moves.
LEMMA OnceSame ==
  ASSUME RingInv, TypeInv', NEW t \in Threads, Others(t),
         \A r \in Rings, s \in Slots :
           ring'[r].slots[s].idx = ring[r].slots[s].idx,
         pc'[t] \in Carrying <=> pc[t] \in Carrying,
         loc'[t].idx = loc[t].idx
  PROVE  OnceInv'
<1>1. \A u \in Threads : /\ loc'[u].idx = loc[u].idx
                         /\ pc'[u] \in Carrying <=> pc[u] \in Carrying
  BY DEF Others
<1> QED BY <1>1 DEF RingInv, OnceInv

\* Drawn positions stay unique while no head moves.
LEMMA DrawSame ==
  ASSUME RingInv, NEW t \in Threads, Others(t),
         \A r \in Rings : ring'[r].head = ring[r].head,
         pc'[t] \in Drawn => pc[t] \in Drawn,
         pc'[t] \in Drawn => loc'[t].pos = loc[t].pos
  PROVE  DrawInv'
<1>1. \A u \in Threads : pc'[u] \in Drawn =>
                           pc[u] \in Drawn /\ loc'[u].pos = loc[u].pos
  BY DEF Others
<1>2. \A u \in Threads : ring'[Source(u)].head = ring[Source(u)].head
  BY Sides
<1> QED BY <1>1, <1>2 DEF RingInv, DrawInv

\* A proper step keeps the invariant when its own thread and the two
\* uniqueness conditions are in order.
LEMMA Settled ==
  ASSUME RingInv, TypeInv', NEW t \in Threads, Proper(t),
         DrawInv', OnceInv', Taker(t)', Giver(t)', Marks(t)'
  PROVE  RingInv'
<1>1. SlotInv' /\ PassInv'
  BY SlotsKeep
<1>2. \A u \in Threads : u # t => Taker(u)' /\ Giver(u)' /\ Marks(u)'
  BY OthersKeep
<1> QED BY <1>1, <1>2 DEF RingInv, LocalInv

\* The same for a step that moves no index and draws no position.
LEMMA QuietKeeps ==
  ASSUME RingInv, TypeInv', NEW t \in Threads, Quiet(t),
         Taker(t)', Giver(t)', Marks(t)'
  PROVE  RingInv'
<1>1. \A r \in Rings, pos \in Nat : Open(r, pos)' <=> Open(r, pos)
  BY OpenSame DEF Quiet
<1>2. Proper(t)
  BY <1>1 DEF Proper, Quiet, Advances, Closes
<1>3. DrawInv'
  BY DrawSame DEF Quiet
<1>4. OnceInv'
  BY OnceSame DEF Quiet
<1> QED BY <1>2, <1>3, <1>4, Settled

\* The steps that examine a slot for a dequeuer or give its position up.
LEMMA Examines ==
  ASSUME RingInv, TypeInv', NEW t \in Threads,
         LoadEntry(t) \/ LoadOccupied(t) \/ LoadVacant(t)
  PROVE  RingInv'
<1> DEFINE s == Source(t)  p == loc[t].pos  e == Here(t, s)
<1>1. /\ s \in Rings /\ p \in Nat /\ Cycle(p) \in Nat /\ Slot(p) \in Slots
      /\ e = ring[s].slots[Slot(p)] /\ e \in Entries /\ e.cyc \in Int
  <2>1. s \in Rings /\ p \in Nat
    BY Sides DEF RingInv, TypeInv, Locals
  <2> QED BY <2>1, SlotCycle, EntryType DEF RingInv, Here
<1>2. /\ pc[t] = "load" /\ Others(t) /\ ring' = ring
      /\ loc'[t].pos = p /\ loc'[t].idx = loc[t].idx
  BY SMTT(30) DEF LoadEntry, LoadOccupied, LoadVacant, At, GoTo, Others, RingInv,
         TypeInv, Locals
<1>3. \A q \in Rings : /\ ring'[q].slots = ring[q].slots
                       /\ ring'[q].head = ring[q].head
                       /\ ring'[q].tail >= ring[q].tail
  BY <1>2 DEF RingInv, TypeInv, RingStates
<1>4. CASE pc'[t] \in {"consume", "swap"}
  <2>1. Quiet(t)
    BY <1>2, <1>3, <1>4 DEF Quiet, Drawn, Carrying, Filling
  <2>2. Here(t, s)' = e
    BY <1>2 DEF Here
  <2>3. Taker(t)'
    <3>1. CASE LoadEntry(t)
      <4>1. /\ e.cyc = Cycle(p) /\ loc'[t].ent = e /\ pc'[t] = "consume"
        BY <3>1 DEF LoadEntry, Matches, GoTo, RingInv, TypeInv, Locals
      <4>2. e.idx # NoIdx
        <5>1. Open(s, p)
          BY <1>2 DEF Open, Drawn
        <5> QED BY <1>1, <4>1, <5>1 DEF RingInv, SlotInv
      <4> QED BY <1>2, <2>2, <4>1, <4>2 DEF Taker
    <3>2. CASE LoadOccupied(t)
      <4>1. /\ e.cyc < Cycle(p) /\ e.idx # NoIdx /\ pc'[t] = "swap"
            /\ loc'[t].ent = e /\ loc'[t].new = Unsafe(e)
        BY <1>4, <3>2 DEF LoadOccupied, GoTo, RingInv, TypeInv, Locals
      <4> QED BY <1>2, <4>1 DEF Taker
    <3>3. CASE LoadVacant(t)
      <4> DEFINE n == [e EXCEPT !.cyc = Cycle(p)]
      <4>1. /\ e.cyc < Cycle(p) /\ e.idx = NoIdx
            /\ pc' = [pc EXCEPT ![t] = "swap"]
            /\ loc' = [loc EXCEPT ![t].ent = e, ![t].new = n]
        BY <1>4, <3>3 DEF LoadVacant, GoTo, RingInv, TypeInv
      <4>2. Cycle(loc[t].pos)' = Cycle(p)
        BY <1>2
      <4> HIDE DEF e
      <4>3. n = [e EXCEPT !.cyc = Cycle(loc[t].pos)']
        BY <4>2
      <4> HIDE DEF n
      <4>4. pc'[t] = "swap" /\ loc'[t].ent = e /\ loc'[t].new = n
        BY <4>1 DEF RingInv, TypeInv, Locals
      <4> QED BY <4>1, <4>2, <4>3, <4>4 DEF Taker
    <3> QED BY <3>1, <3>2, <3>3
  <2>4. Giver(t)' /\ Marks(t)'
    BY <1>4 DEF Giver, Marks, Filling
  <2> QED BY <2>1, <2>3, <2>4, QuietKeeps
<1>5. CASE pc'[t] \notin {"consume", "swap"}
  <2>1. /\ pc'[t] = "tail"
        /\ IF e.idx = NoIdx THEN e.cyc >= Cycle(p)
           ELSE e.cyc # Cycle(p) /\ (e.cyc > Cycle(p) \/ ~e.safe)
    <3>1. pc \in [Threads -> Steps]
      BY DEF RingInv, TypeInv
    <3>2. CASE LoadEntry(t)
      BY <1>5, <3>1, <3>2 DEF LoadEntry, GoTo
    <3>3. CASE LoadOccupied(t)
      <4>1. /\ e.cyc # Cycle(p) /\ e.idx # NoIdx
            /\ IF e.safe /\ e.cyc < Cycle(p) THEN GoTo(t, "swap") ELSE GoTo(t, "tail")
        BY <3>3 DEF LoadOccupied, Matches
      <4> HIDE DEF e
      <4>2. e.cyc > Cycle(p) \/ ~e.safe
        BY <1>1, <1>5, <3>1, <4>1 DEF GoTo
      <4> QED BY <1>5, <3>1, <4>1, <4>2 DEF GoTo
    <3>4. CASE LoadVacant(t)
      <4>1. /\ e.cyc # Cycle(p) /\ e.idx = NoIdx
            /\ IF e.cyc < Cycle(p) THEN GoTo(t, "swap") ELSE GoTo(t, "tail")
        BY <3>4 DEF LoadVacant, Matches
      <4> HIDE DEF e
      <4> QED BY <1>1, <1>5, <3>1, <4>1 DEF GoTo
    <3> QED BY <3>2, <3>3, <3>4
  <2>2. \A r \in Rings, pos \in Nat :
          Open(r, pos)' <=> Open(r, pos) /\ ~(r = s /\ pos = p)
    BY <1>2, <1>3, <2>1, OpenGivenUp DEF Drawn
  <2>3. \A r \in Rings, pos \in Nat : Closes(r, pos)
    BY <1>1, <1>3, <2>1, <2>2 DEF Closes
  <2>4. Proper(t)
    BY <1>2, <1>3, <2>2, <2>3 DEF Proper, Advances
  <2>5. DrawInv'
    BY <1>2, <1>3, <2>1, DrawSame DEF Drawn
  <2>6. OnceInv'
    BY <1>2, <1>3, <2>1, OnceSame DEF Carrying, Filling
  <2>7. Taker(t)' /\ Giver(t)' /\ Marks(t)'
    BY <2>1 DEF Taker, Giver, Marks, Filling
  <2> QED BY <2>4, <2>5, <2>6, <2>7, Settled
<1> QED BY <1>4, <1>5

\* The compare_exchange of a dequeuer.
LEMMA Swaps ==
  ASSUME RingInv, TypeInv', NEW t \in Threads, SwapEntry(t)
  PROVE  RingInv'
<1> DEFINE r == Source(t)  p == loc[t].pos  u == Slot(p)  e == loc[t].ent
           n == loc[t].new
<1>1. /\ r \in Rings /\ p \in Nat /\ Cycle(p) \in Nat /\ u \in Slots
      /\ e \in Entries /\ n \in Entries /\ e.cyc \in Int
      /\ ring \in [Rings -> RingStates]
  <2>1. loc[t] \in Locals /\ ring \in [Rings -> RingStates] /\ r \in Rings
    BY Sides DEF RingInv, TypeInv
  <2>2. p \in Nat /\ e \in Entries /\ n \in Entries
    BY <2>1 DEF Locals
  <2> QED BY <2>1, <2>2, SlotCycle DEF Entries, Cycles
<1>2. pc[t] = "swap" /\ Others(t) /\ loc' = loc
  BY DEF SwapEntry, At, GoTo, Others, RingInv, TypeInv
<1>3. /\ e.cyc < Cycle(p)
      /\ n = IF e.idx # NoIdx THEN Unsafe(e) ELSE [e EXCEPT !.cyc = Cycle(p)]
  BY <1>2 DEF RingInv, LocalInv, Taker
<1>4. CASE Here(t, r) # e
  <2>1. ring' = ring /\ pc'[t] = "load"
    BY <1>4 DEF SwapEntry, GoTo, RingInv, TypeInv
  <2>2. Quiet(t)
    BY <1>2, <2>1 DEF Quiet, Drawn, Carrying, Filling, RingInv, TypeInv, RingStates
  <2>3. Taker(t)' /\ Giver(t)' /\ Marks(t)'
    BY <2>1 DEF Taker, Giver, Marks, Filling
  <2> QED BY <2>2, <2>3, QuietKeeps
<1>5. CASE Here(t, r) = e
  <2>1. WriteSlot(t, r, n) /\ pc'[t] = "tail" /\ ring[r].slots[u] = e
    BY <1>5 DEF SwapEntry, GoTo, RingInv, TypeInv, Here
  <2>2. /\ ring'[r].slots[u] = n
        /\ \A q \in Rings, v \in Slots :
             q # r \/ v # u => ring'[q].slots[v] = ring[q].slots[v]
        /\ \A q \in Rings : /\ ring'[q].head = ring[q].head
                            /\ ring'[q].tail = ring[q].tail
    BY <1>1, <2>1, WriteFacts
  <2>3. \A q \in Rings, pos \in Nat :
          Open(q, pos)' <=> Open(q, pos) /\ ~(q = r /\ pos = p)
    BY <1>2, <2>1, <2>2, OpenGivenUp DEF Drawn
  <2>4. /\ n.idx = e.idx
        /\ e.idx # NoIdx => n = Unsafe(e) /\ n.cyc = e.cyc /\ ~n.safe
        /\ e.idx = NoIdx => n.cyc = Cycle(p) /\ n.safe = e.safe
    BY <1>1, <1>3 DEF Unsafe, Entries
  <2>5. \A pos \in Nat : Slot(pos) = u /\ Cycle(pos) = Cycle(p) => pos = p
    BY <1>1, InSlot
  <2>6. Advances(r, u)
    <3>1. CASE e.idx # NoIdx
      BY <2>1, <2>2, <2>4, <3>1 DEF Advances
    <3>2. CASE e.idx = NoIdx
      <4>1. \A pos \in Nat : Slot(pos) = u /\ Cycle(pos) = n.cyc => ~Open(r, pos)'
        BY <1>1, <2>3, <2>4, <2>5, <3>2
      <4>2. n.cyc > e.cyc
        BY <1>1, <1>3, <2>4, <3>2
      <4> QED BY <2>1, <2>2, <2>4, <3>2, <4>1, <4>2 DEF Advances
    <3> QED BY <3>1, <3>2
  <2>7. \A q \in Rings, v \in Slots : Advances(q, v)
    BY <2>2, <2>6, Stays
  <2>8. Closes(r, p)
    BY <1>1, <1>3, <2>2, <2>4 DEF Closes
  <2>9. \A q \in Rings, pos \in Nat : Closes(q, pos)
    <3> TAKE q \in Rings, pos \in Nat
    <3>1. CASE q = r /\ pos = p
      BY <2>8, <3>1
    <3>2. CASE ~(q = r /\ pos = p)
      <4>1. Open(q, pos)' <=> Open(q, pos)
        BY <2>3, <3>2
      <4> QED BY <4>1 DEF Closes
    <3> QED BY <3>1, <3>2
  <2>10. Proper(t)
    <3>1. \A q \in Rings : ring'[q].tail >= ring[q].tail
      <4> TAKE q \in Rings
      <4>1. ring[q].tail \in Nat /\ ring'[q].tail = ring[q].tail
        BY <1>1, <2>2 DEF RingStates
      <4> QED BY <4>1
    <3> QED BY <1>2, <2>3, <2>7, <2>9, <3>1 DEF Proper
  <2>11. DrawInv'
    BY <1>2, <2>1, <2>2, DrawSame DEF Drawn
  <2>12. OnceInv'
    <3>1. \A q \in Rings, v \in Slots :
            ring'[q].slots[v].idx = ring[q].slots[v].idx
      BY <2>1, <2>2, <2>4
    <3> QED BY <1>2, <2>1, <3>1, OnceSame DEF Carrying, Filling
  <2>13. Taker(t)' /\ Giver(t)' /\ Marks(t)'
    BY <2>1 DEF Taker, Giver, Marks, Filling
  <2> QED BY <2>10, <2>11, <2>12, <2>13, Settled
<1> QED BY <1>4, <1>5

\* Steps that end, or only move counters and local variables.
LEMMA Moves ==
  ASSUME RingInv, TypeInv', NEW t \in Threads,
         \/ ReadThreshold(t) \/ ReadTail(t) \/ CatchUp(t) \/ RereadHead(t)
         \/ RereadTail(t) \/ Chill(t) \/ Spend(t) \/ AddTail(t)
         \/ LoadThreshold(t) \/ Warm(t)
  PROVE  RingInv'
<1> DEFINE s == Source(t)  g == Target(t)
<1>1. /\ s \in Rings /\ g \in Rings /\ loc[t] \in Locals
      /\ ring \in [Rings -> RingStates] /\ loc[t].pos \in Nat
      /\ loc[t].from \in Nat /\ loc[t].to \in Nat
      /\ ring[s].head \in Nat /\ ring[s].tail \in Nat /\ ring[g].tail \in Nat
      /\ ring[s].threshold \in Int
  <2>1. s \in Rings /\ g \in Rings /\ loc[t] \in Locals
        /\ ring \in [Rings -> RingStates]
    BY Sides DEF RingInv, TypeInv
  <2> QED BY <2>1 DEF Locals, RingStates
<1>2. loc[t].idx # NoIdx <=> pc[t] \in Carrying
  BY DEF RingInv, OnceInv
<1>3. pc[t] = "catchup" => loc[t].from <= loc[t].to
  BY DEF RingInv, LocalInv, Marks
<1>4. Fresh.idx = NoIdx
  BY DEF Fresh
<1>5. Others(t)
  BY DEF ReadThreshold, ReadTail, CatchUp, RereadHead, RereadTail, Chill, Spend,
         AddTail, LoadThreshold, Warm, GoTo, Others, RingInv, TypeInv
<1>6. /\ pc'[t] \in {"idle", "head", "catchup", "spend", "chill", "rehead",
                    "retail", "fill", "warm"}
      /\ pc'[t] = "fill" <=> pc[t] = "draw"
      /\ pc[t] \in {"idle", "tail", "catchup", "rehead", "retail", "chill",
                    "spend", "draw", "threshold", "warm"}
      /\ loc'[t].idx = loc[t].idx
  <2>1. pc \in [Threads -> Steps] /\ loc \in [Threads -> Locals]
    BY DEF RingInv, TypeInv
  <2>2. CASE ReadThreshold(t) \/ LoadThreshold(t) \/ Warm(t) \/ CatchUp(t)
    BY <2>1, <2>2 DEF ReadThreshold, LoadThreshold, Warm, CatchUp, GoTo, At
  <2>3. CASE ReadTail(t) \/ RereadHead(t) \/ RereadTail(t)
    BY <2>1, <2>3 DEF ReadTail, RereadHead, RereadTail, GoTo, At, Locals
  <2>4. CASE Chill(t) \/ Spend(t)
    BY <1>2, <1>4, <2>1, <2>4 DEF Chill, Spend, GoTo, At, Carrying, Filling
  <2>5. CASE AddTail(t)
    BY <2>1, <2>5 DEF AddTail, GoTo, At, Fresh
  <2> QED BY <2>2, <2>3, <2>4, <2>5
<1>7. \A q \in Rings : /\ ring'[q].slots = ring[q].slots
                       /\ ring'[q].head = ring[q].head
                       /\ ring'[q].tail >= ring[q].tail
  <2>0. \A q \in Rings : ring[q].tail \in Nat
    BY <1>1 DEF RingStates
  <2>1. CASE ring' = ring
    BY <2>0, <2>1
  <2>2. CASE CatchUp(t) /\ ring' # ring
    <3>1. /\ ring' = [ring EXCEPT ![s].tail = loc[t].to]
          /\ ring[s].tail = loc[t].from /\ loc[t].from <= loc[t].to
      BY <1>3, <2>2 DEF CatchUp, At
    <3> QED BY <1>1, <2>0, <3>1, TailFacts
  <2>3. CASE Chill(t)
    <3>1. ring' = [ring EXCEPT ![s].threshold = -1]
      BY <2>3 DEF Chill
    <3> QED BY <1>1, <2>0, <3>1, ThresholdFacts
  <2>4. CASE Spend(t)
    <3>1. /\ ring' = [ring EXCEPT ![s].threshold = ring[s].threshold - 1]
          /\ ring[s].threshold - 1 \in Int
      BY <1>1, <2>4 DEF Spend
    <3> QED BY <1>1, <2>0, <3>1, ThresholdFacts
  <2>5. CASE AddTail(t)
    <3>1. /\ ring' = [ring EXCEPT ![g].tail = ring[g].tail + 1]
          /\ ring[g].tail + 1 \in Nat
      BY <1>1, <2>5 DEF AddTail
    <3> QED BY <1>1, <2>0, <3>1, TailFacts
  <2>6. CASE Warm(t)
    <3>1. ring' = [ring EXCEPT ![g].threshold = Threshold] /\ Threshold \in Int
      BY <2>6, Sizes DEF Warm, Threshold
    <3> QED BY <1>1, <2>0, <3>1, ThresholdFacts
  <2> QED BY <2>1, <2>2, <2>3, <2>4, <2>5, <2>6
          DEF ReadThreshold, ReadTail, RereadHead, RereadTail, LoadThreshold
<1>8. Quiet(t)
  BY <1>5, <1>6, <1>7 DEF Quiet, Drawn, Carrying, Filling
<1>9. Taker(t)' /\ Giver(t)'
  BY <1>6 DEF Taker, Giver
<1>10. Marks(t)'
  <2>1. pc'[t] = "fill" => loc'[t].pos < ring'[g].tail
    <3> SUFFICES ASSUME pc'[t] = "fill" PROVE loc'[t].pos < ring'[g].tail
      OBVIOUS
    <3>1. AddTail(t)
      BY <1>6 DEF ReadThreshold, ReadTail, CatchUp, RereadHead, RereadTail,
                  Chill, Spend, LoadThreshold, Warm, At
    <3>2. /\ ring' = [ring EXCEPT ![g].tail = ring[g].tail + 1]
          /\ ring[g].tail + 1 \in Nat
      BY <1>1, <3>1 DEF AddTail
    <3>3. loc'[t].pos = ring[g].tail
      BY <3>1 DEF AddTail, Fresh, RingInv, TypeInv
    <3>4. ring'[g].tail = ring[g].tail + 1
      BY <1>1, <3>2, TailFacts
    <3> QED BY <1>1, <3>3, <3>4
  <2>2. pc'[t] = "catchup" => loc'[t].from <= loc'[t].to
    <3> SUFFICES ASSUME pc'[t] = "catchup" PROVE loc'[t].from <= loc'[t].to
      OBVIOUS
    <3>1. ReadTail(t) \/ RereadTail(t)
      BY DEF ReadThreshold, CatchUp, RereadHead, Chill, Spend, AddTail,
             LoadThreshold, Warm, GoTo, RingInv, TypeInv
    <3>2. CASE ReadTail(t)
      BY <1>1, <3>2 DEF ReadTail, GoTo, RingInv, TypeInv, Locals
    <3>3. CASE RereadTail(t)
      BY <1>1, <3>3 DEF RereadTail, GoTo, RingInv, TypeInv, Locals
    <3> QED BY <3>1, <3>2, <3>3
  <2> QED BY <1>6, <2>1, <2>2 DEF Marks, Filling
<1> QED BY <1>8, <1>9, <1>10, QuietKeeps

\* The fetch_add of a dequeuer: the position it draws was open and stays so.
LEMMA Draws ==
  ASSUME RingInv, TypeInv', NEW t \in Threads, AddHead(t)
  PROVE  RingInv'
<1> DEFINE s == Source(t)  h == ring[s].head
<1>1. s \in Rings /\ ring \in [Rings -> RingStates] /\ h \in Nat
  BY Sides DEF RingInv, TypeInv, RingStates
<1>2. /\ pc[t] = "head" /\ pc'[t] = "load" /\ Others(t)
      /\ loc'[t].pos = h /\ loc'[t].idx = NoIdx
      /\ ring' = [ring EXCEPT ![s].head = h + 1] /\ h + 1 \in Nat
  BY <1>1 DEF AddHead, At, GoTo, Others, Fresh, RingInv, TypeInv
<1>3. /\ ring'[s].head = h + 1
      /\ \A q \in Rings : /\ ring'[q].slots = ring[q].slots
                          /\ ring'[q].tail = ring[q].tail
      /\ \A q \in Rings : q # s => ring'[q] = ring[q]
  BY <1>1, <1>2, HeadFacts
<1>4. loc[t].idx = NoIdx
  BY <1>2 DEF RingInv, OnceInv, Carrying, Filling
<1>5. ASSUME NEW r \in Rings, NEW pos \in Nat
      PROVE  Open(r, pos)' <=> Open(r, pos)
  <2>1. \A u \in Threads : u # t => pc'[u] = pc[u] /\ loc'[u] = loc[u]
    BY <1>2 DEF Others
  <2>2. CASE r # s
    BY <1>2, <1>3, <2>1, <2>2 DEF Open, Drawn
  <2>3. CASE r = s /\ pos = h
    BY <1>2, <2>3 DEF Open, Drawn
  <2>4. CASE r = s /\ pos # h
    <3>1. pos >= h <=> pos >= h + 1
      BY <1>1, <2>4
    <3> QED BY <1>2, <1>3, <2>1, <2>4, <3>1 DEF Open, Drawn
  <2> QED BY <2>2, <2>3, <2>4
<1>6. Proper(t)
  <2>1. \A r \in Rings : ring'[r].tail >= ring[r].tail
    <3> TAKE r \in Rings
    <3>1. ring'[r].tail = ring[r].tail /\ ring[r].tail \in Nat
      BY <1>1, <1>3 DEF RingStates
    <3> QED BY <3>1
  <2> QED BY <1>2, <1>3, <1>5, <2>1 DEF Proper, Advances, Closes
<1>7. DrawInv'
  <2>1. \A u \in Threads : u # t => pc'[u] = pc[u] /\ loc'[u] = loc[u]
    BY <1>2 DEF Others
  <2>2. ASSUME NEW u \in Threads, pc'[u] \in Drawn, u # t
        PROVE  /\ loc[u].pos < ring[Source(u)].head
               /\ loc[u].pos < ring'[Source(u)].head
               /\ Source(u) = s => loc[u].pos # h
    <3>1. pc[u] \in Drawn /\ Source(u) \in Rings
      BY <2>1, <2>2, Sides
    <3>2. loc[u].pos < ring[Source(u)].head
      BY <3>1 DEF RingInv, DrawInv
    <3>3. loc[u].pos \in Nat
      BY DEF RingInv, TypeInv, Locals
    <3> QED BY <1>1, <1>3, <3>1, <3>2, <3>3
  <2>3. h < ring'[s].head
    BY <1>1, <1>3
  <2>4. ASSUME NEW u \in Threads, pc'[u] \in Drawn
        PROVE  loc'[u].pos < ring'[Source(u)].head
    BY <1>2, <2>1, <2>2, <2>3, <2>4
  <2>5. ASSUME NEW u \in Threads, NEW v \in Threads, u # v, Source(u) = Source(v),
               pc'[u] \in Drawn, pc'[v] \in Drawn
        PROVE  loc'[u].pos # loc'[v].pos
    <3>1. CASE u = t
      BY <1>2, <2>1, <2>2, <2>5, <3>1
    <3>2. CASE v = t
      BY <1>2, <2>1, <2>2, <2>5, <3>2
    <3>3. CASE u # t /\ v # t
      BY <2>1, <2>5, <3>3 DEF RingInv, DrawInv
    <3> QED BY <3>1, <3>2, <3>3
  <2> QED BY <2>4, <2>5 DEF DrawInv
<1>8. OnceInv'
  BY <1>2, <1>3, <1>4, OnceSame DEF Carrying, Filling
<1>9. Taker(t)' /\ Giver(t)' /\ Marks(t)'
  BY <1>2 DEF Taker, Giver, Marks, Filling
<1> QED BY <1>6, <1>7, <1>8, <1>9, Settled

\* The steps of an enqueuer that examine the slot and the head.
LEMMA Probes ==
  ASSUME RingInv, TypeInv', NEW t \in Threads,
         LoadSlot(t) \/ RetrySlot(t) \/ CheckHead(t)
  PROVE  RingInv'
<1> DEFINE g == Target(t)  p == loc[t].pos  e == Here(t, g)
<1>1. /\ g \in Rings /\ p \in Nat /\ Cycle(p) \in Nat /\ Slot(p) \in Slots
      /\ e = ring[g].slots[Slot(p)] /\ e \in Entries /\ e.cyc \in Int
      /\ ring[g].head \in Nat /\ ring[g].tail \in Nat
  <2>1. g \in Rings /\ p \in Nat
    BY Sides DEF RingInv, TypeInv, Locals
  <2> QED BY <2>1, SlotCycle, EntryType DEF RingInv, Here
<1>2. /\ pc[t] \in {"fill", "refill", "check"} /\ Others(t) /\ ring' = ring
      /\ loc'[t].pos = p /\ loc'[t].idx = loc[t].idx
      /\ pc'[t] \in {"put", "check", "draw"}
  <2>1. loc \in [Threads -> Locals] /\ pc \in [Threads -> Steps]
    BY DEF RingInv, TypeInv
  <2>2. CASE CheckHead(t)
    BY <2>1, <2>2 DEF CheckHead, At, GoTo, Others
  <2>3. CASE LoadSlot(t) \/ RetrySlot(t)
    <3>1. PICK f, c : Examine(t, f, c) /\ pc[t] \in {"fill", "refill"}
      BY <2>3 DEF LoadSlot, RetrySlot, At
    <3>2. /\ loc' = [loc EXCEPT ![t].ent = f, ![t].cyc = c] /\ ring' = ring
          /\ \E q \in {"put", "check", "draw"} : pc' = [pc EXCEPT ![t] = q]
      BY <3>1 DEF Examine, GoTo
    <3>3. loc'[t].pos = p /\ loc'[t].idx = loc[t].idx
      BY <2>1, <3>2 DEF Locals
    <3>4. Others(t) /\ pc'[t] \in {"put", "check", "draw"}
      BY <2>1, <3>2 DEF Others
    <3> QED BY <3>1, <3>2, <3>3, <3>4
  <2> QED BY <2>2, <2>3
<1>3. \A q \in Rings : /\ ring'[q].slots = ring[q].slots
                       /\ ring'[q].head = ring[q].head
                       /\ ring'[q].tail >= ring[q].tail
  BY <1>2 DEF RingInv, TypeInv, RingStates
<1>4. Quiet(t)
  BY <1>2, <1>3 DEF Quiet, Drawn, Carrying, Filling
<1>5. \A q \in Rings, pos \in Nat : Open(q, pos)' <=> Open(q, pos)
  BY <1>4, OpenSame DEF Quiet
<1>6. Here(t, g)' = e
  BY <1>2 DEF Here
<1>7. p < ring[g].tail
  BY <1>2 DEF RingInv, LocalInv, Marks, Filling
<1>8. Taker(t)' /\ Marks(t)'
  BY <1>2, <1>7 DEF Taker, Marks, Filling
<1>9. Giver(t)'
  <2>1. CASE LoadSlot(t) \/ RetrySlot(t)
    <3>1. PICK c \in Cycles : Examine(t, e, c)
      <4>1. loc[t].cyc \in Cycles /\ e.cyc \in Cycles
        BY <1>1 DEF RingInv, TypeInv, Locals, Entries
      <4> QED BY <2>1, <4>1 DEF LoadSlot, RetrySlot
    <3>2. /\ loc'[t].ent = e
          /\ pc'[t] = "put" => Usable(e, c, p)
          /\ pc'[t] = "check" => NeedsHead(e, c)
      BY <3>1 DEF Examine, GoTo, RingInv, TypeInv, Locals
    <3>3. pc'[t] \in {"check", "put"} => e.idx = NoIdx
      BY <3>2 DEF Usable, NeedsHead, Entry
    <3>4. ASSUME pc'[t] = "put"
          PROVE  /\ e.cyc < Cycle(p)
                 /\ \A pos \in Nat : Slot(pos) = Slot(p) /\ ~Open(g, pos)
                                       => Cycle(pos) < Cycle(p)
      <4>1. e.cyc < Cycle(p) /\ e.safe
        BY <3>2, <3>4 DEF Usable, Entry
      <4>2. ASSUME NEW pos \in Nat, Slot(pos) = Slot(p), ~Open(g, pos)
            PROVE  Cycle(pos) < Cycle(p)
        <5>1. e.cyc >= Cycle(pos)
          BY <1>1, <4>1, <4>2 DEF RingInv, PassInv
        <5>2. Cycle(pos) \in Nat
          BY SlotCycle
        <5> QED BY <1>1, <4>1, <5>1, <5>2
      <4> QED BY <4>1, <4>2
    <3> HIDE DEF e
    <3> QED BY <1>1, <1>2, <1>5, <1>6, <3>2, <3>3, <3>4 DEF Giver
  <2>2. CASE CheckHead(t)
    <3> DEFINE n == loc[t].ent
    <3>1. /\ pc[t] = "check" /\ loc'[t].ent = n
          /\ pc'[t] = "put" => ring[g].head <= p
          /\ pc'[t] # "check"
      BY <2>2 DEF CheckHead, At, GoTo, RingInv, TypeInv
    <3>2. n.idx = NoIdx /\ (e = n \/ n.cyc < e.cyc)
      BY <3>1 DEF RingInv, LocalInv, Giver
    <3>3. ASSUME pc'[t] = "put", e = n
          PROVE  /\ n.cyc < Cycle(p)
                 /\ \A pos \in Nat : Slot(pos) = Slot(p) /\ ~Open(g, pos)
                                       => Cycle(pos) < Cycle(p)
      <4>1. ASSUME NEW pos \in Nat, Slot(pos) = Slot(p), ~Open(g, pos)
            PROVE  Cycle(pos) < Cycle(p)
        <5>1. pos < ring[g].head
          BY <1>1, <4>1 DEF Open
        <5>2. pos < p
          BY <1>1, <3>1, <3>3, <5>1
        <5> QED BY <1>1, <4>1, <5>2, InSlot
      <4>2. n.cyc < Cycle(p)
        <5>1. SUFFICES ASSUME n.cyc >= Cycle(p) PROVE FALSE
          BY <1>1, <3>3
        <5>2. n.cyc \in Nat
          BY <1>1, <3>3, <5>1
        <5>3. PICK q \in Nat : Slot(q) = Slot(p) /\ Cycle(q) = n.cyc
          BY <1>1, <5>2, InCycle
        <5>4. ~Open(g, q)
          <6>1. ring[g].slots[Slot(p)].idx = NoIdx
                /\ Cycle(q) = ring[g].slots[Slot(p)].cyc
            BY <1>1, <3>2, <3>3, <5>3
          <6> QED BY <1>1, <5>3, <6>1 DEF RingInv, SlotInv
        <5>5. Cycle(q) < Cycle(p)
          BY <4>1, <5>3, <5>4
        <5> QED BY <1>1, <5>1, <5>2, <5>3, <5>5
      <4> QED BY <4>1, <4>2
    <3> HIDE DEF e
    <3> QED BY <1>1, <1>2, <1>5, <1>6, <3>1, <3>2, <3>3 DEF Giver
  <2> QED BY <2>1, <2>2
<1> QED BY <1>4, <1>8, <1>9, QuietKeeps

\* The fetch_or of a dequeuer: the index moves from the slot to its hands.
LEMMA Takes ==
  ASSUME RingInv, TypeInv', NEW t \in Threads, Consume(t)
  PROVE  /\ RingInv'
         /\ loc[t].ent.idx \in Indices
         /\ ring[Source(t)].slots[Slot(loc[t].pos)].idx = loc[t].ent.idx
         /\ ring[Source(t)].slots[Slot(loc[t].pos)].cyc = Cycle(loc[t].pos)
         /\ ring'[Source(t)].slots[Slot(loc[t].pos)].idx = NoIdx
         /\ \A q \in Rings, v \in Slots :
              q # Source(t) \/ v # Slot(loc[t].pos)
                => ring'[q].slots[v] = ring[q].slots[v]
         /\ \A q \in Rings : /\ ring'[q].head = ring[q].head
                             /\ ring'[q].tail = ring[q].tail
<1> DEFINE r == Source(t)  p == loc[t].pos  u == Slot(p)  i == loc[t].ent.idx
           a == ring[r].slots[u]  b == [a EXCEPT !.idx = NoIdx]
<1>1. /\ r \in Rings /\ p \in Nat /\ Cycle(p) \in Nat /\ u \in Slots
      /\ i \in Places /\ a \in Entries /\ ring \in [Rings -> RingStates]
  <2>1. loc[t] \in Locals /\ ring \in [Rings -> RingStates] /\ r \in Rings
    BY Sides DEF RingInv, TypeInv
  <2>2. p \in Nat /\ loc[t].ent \in Entries
    BY <2>1 DEF Locals
  <2> QED BY <2>1, <2>2, SlotCycle, EntryType DEF RingInv, Entries
<1>2. /\ pc[t] = "consume" /\ pc'[t] = "draw" /\ Others(t)
      /\ loc'[t].idx = i /\ WriteSlot(t, r, b)
  <2>1. pc[t] = "consume" /\ pc'[t] = "draw" /\ Others(t)
    BY DEF Consume, At, GoTo, Others, RingInv, TypeInv
  <2>2. loc'[t].idx = i
    BY DEF Consume, Fresh, RingInv, TypeInv
  <2>3. WriteSlot(t, r, b)
    BY DEF Consume, Here
  <2> QED BY <2>1, <2>2, <2>3
<1>3. i # NoIdx /\ a.idx = i /\ a.cyc = Cycle(p)
  BY <1>2 DEF RingInv, LocalInv, Taker, Here
<1>4. b \in Entries /\ b.idx = NoIdx /\ b.cyc = a.cyc
  BY <1>1 DEF Entries, Places
<1>5. /\ ring'[r].slots[u] = b
      /\ \A q \in Rings, v \in Slots :
           q # r \/ v # u => ring'[q].slots[v] = ring[q].slots[v]
      /\ \A q \in Rings : /\ ring'[q].head = ring[q].head
                          /\ ring'[q].tail = ring[q].tail
  BY <1>1, <1>2, <1>4, WriteFacts
<1>6. \A q \in Rings, pos \in Nat :
        Open(q, pos)' <=> Open(q, pos) /\ ~(q = r /\ pos = p)
  BY <1>2, <1>5, OpenGivenUp DEF Drawn
<1> HIDE DEF b
<1>7. Proper(t)
  <2>1. Advances(r, u)
    <3>1. \A pos \in Nat : Slot(pos) = u /\ Cycle(pos) = a.cyc => pos = p
      BY <1>1, <1>3, InSlot
    <3>2. \A pos \in Nat : Slot(pos) = u /\ Cycle(pos) = a.cyc => ~Open(r, pos)'
      BY <1>1, <1>6, <3>1
    <3> QED BY <1>3, <1>5, <3>2 DEF Advances, b
  <2>2. \A q \in Rings, v \in Slots : Advances(q, v)
    BY <1>5, <2>1, Stays
  <2>3. Closes(r, p)
    BY <1>1, <1>3, <1>4, <1>5 DEF Closes
  <2>4. \A q \in Rings, pos \in Nat : Closes(q, pos)
    <3> TAKE q \in Rings, pos \in Nat
    <3>1. CASE q = r /\ pos = p
      BY <2>3, <3>1
    <3>2. CASE ~(q = r /\ pos = p)
      <4>1. Open(q, pos)' <=> Open(q, pos)
        BY <1>6, <3>2
      <4> QED BY <4>1 DEF Closes
    <3> QED BY <3>1, <3>2
  <2>5. \A q \in Rings : ring'[q].tail >= ring[q].tail
    <3> TAKE q \in Rings
    <3>1. ring[q].tail \in Nat /\ ring'[q].tail = ring[q].tail
      BY <1>1, <1>5 DEF RingStates
    <3> QED BY <3>1
  <2> QED BY <1>2, <1>6, <2>2, <2>4, <2>5 DEF Proper
<1>8. DrawInv'
  BY <1>2, <1>5, DrawSame DEF Drawn
<1>9. Taker(t)' /\ Giver(t)' /\ Marks(t)'
  BY <1>2 DEF Taker, Giver, Marks, Filling
<1>10. OnceInv'
  <2>1. i \in Indices
    BY <1>1, <1>3 DEF Places
  <2>2. \A q \in Rings, v \in Slots :
          /\ ring'[q].slots[v].idx # NoIdx =>
               /\ ring'[q].slots[v].idx = ring[q].slots[v].idx
               /\ ring'[q].slots[v].idx # i
          /\ ring[q].slots[v].idx # i =>
               ring'[q].slots[v].idx = ring[q].slots[v].idx
    BY <1>1, <1>3, <1>4, <1>5 DEF RingInv, OnceInv
  <2>3. \A w \in Threads : w # t => /\ loc'[w].idx = loc[w].idx
                                    /\ loc[w].idx # i
                                    /\ pc'[w] = pc[w]
    BY <1>1, <1>2, <1>3 DEF Others, RingInv, OnceInv
  <2>4. loc[t].idx = NoIdx
    BY <1>2 DEF RingInv, OnceInv, Carrying, Filling
  <2>5. \A j \in Indices : \/ \E q \in Rings, v \in Slots : ring'[q].slots[v].idx = j
                           \/ \E w \in Threads : loc'[w].idx = j
    <3> TAKE j \in Indices
    <3>1. CASE j = i
      BY <1>2, <3>1
    <3>2. CASE \E q \in Rings, v \in Slots : ring[q].slots[v].idx = j /\ j # i
      BY <2>2, <3>2
    <3>3. CASE \E w \in Threads : loc[w].idx = j /\ j # i
      <4>1. j # NoIdx
        BY Sizes
      <4> QED BY <2>3, <2>4, <3>3, <4>1
    <3> QED BY <3>1, <3>2, <3>3 DEF RingInv, OnceInv
  <2>6. \A q, o \in Rings, v, w \in Slots :
          /\ ring'[q].slots[v].idx = ring'[o].slots[w].idx
          /\ ring'[q].slots[v].idx # NoIdx
          => q = o /\ v = w
    BY <2>2 DEF RingInv, OnceInv
  <2>7. \A v, w \in Threads :
          loc'[v].idx = loc'[w].idx /\ loc'[v].idx # NoIdx => v = w
    BY <1>2, <2>3 DEF RingInv, OnceInv
  <2>8. \A v \in Threads, q \in Rings, w \in Slots :
          loc'[v].idx # NoIdx => ring'[q].slots[w].idx # loc'[v].idx
    BY <1>2, <2>2, <2>3 DEF RingInv, OnceInv
  <2>9. \A v \in Threads : loc'[v].idx # NoIdx <=> pc'[v] \in Carrying
    BY <1>2, <1>3, <2>3 DEF RingInv, OnceInv, Carrying
  <2> QED BY <2>5, <2>6, <2>7, <2>8, <2>9 DEF OnceInv
<1>11. RingInv'
  BY <1>7, <1>8, <1>9, <1>10, Settled
<1>12. i \in Indices
  BY <1>1, <1>3 DEF Places
<1> QED BY <1>3, <1>4, <1>5, <1>11, <1>12

\* The compare_exchange of an enqueuer: the index moves from its hands to the
\* slot.
LEMMA Puts ==
  ASSUME RingInv, TypeInv', NEW t \in Threads, PutEntry(t)
  PROVE  /\ RingInv'
         /\ \/ UNCHANGED <<ring, loc, made>>
            \/ /\ pc[t] = "put" /\ loc[t].idx \in Indices
               /\ pc'[t] = "threshold"
               /\ loc' = [loc EXCEPT ![t] = Fresh]
               /\ made' = IF t \in Producers
                          THEN [made EXCEPT ![t] = calls[t]] ELSE made
               /\ ring[Target(t)].slots[Slot(loc[t].pos)].idx = NoIdx
               /\ ring'[Target(t)].slots[Slot(loc[t].pos)].idx = loc[t].idx
               /\ ring'[Target(t)].slots[Slot(loc[t].pos)].cyc = Cycle(loc[t].pos)
               /\ \A q \in Rings, v \in Slots :
                    q # Target(t) \/ v # Slot(loc[t].pos)
                      => ring'[q].slots[v] = ring[q].slots[v]
               /\ \A q \in Rings : /\ ring'[q].head = ring[q].head
                                   /\ ring'[q].tail = ring[q].tail
<1> DEFINE g == Target(t)  p == loc[t].pos  u == Slot(p)  i == loc[t].idx
           a == ring[g].slots[u]  b == Entry(Cycle(p), TRUE, i)
<1>1. /\ g \in Rings /\ p \in Nat /\ Cycle(p) \in Nat /\ u \in Slots
      /\ i \in Places /\ a \in Entries /\ a.cyc \in Int
      /\ ring \in [Rings -> RingStates]
  <2>1. loc[t] \in Locals /\ ring \in [Rings -> RingStates] /\ g \in Rings
    BY Sides DEF RingInv, TypeInv
  <2>2. p \in Nat /\ i \in Places
    BY <2>1 DEF Locals
  <2> QED BY <2>1, <2>2, SlotCycle, EntryType DEF RingInv
<1>2. pc[t] = "put" /\ Here(t, g) = a
  BY DEF PutEntry, At, Here
<1>3. CASE a # loc[t].ent
  <2>1. UNCHANGED <<ring, loc, made>> /\ pc'[t] = "refill" /\ Others(t)
    BY <1>2, <1>3 DEF PutEntry, GoTo, Others, RingInv, TypeInv
  <2>2. Quiet(t)
    <3>1. \A q \in Rings : ring[q].tail \in Nat
      BY <1>1 DEF RingStates
    <3> QED BY <1>2, <2>1, <3>1 DEF Quiet, Drawn, Carrying, Filling
  <2>3. Taker(t)' /\ Giver(t)'
    BY <2>1 DEF Taker, Giver
  <2>4. Marks(t)'
    BY <1>2, <2>1 DEF RingInv, LocalInv, Marks, Filling
  <2> QED BY <2>1, <2>2, <2>3, <2>4, QuietKeeps
<1>4. CASE a = loc[t].ent
  <2>1. /\ pc'[t] = "threshold" /\ Others(t) /\ WriteSlot(t, g, b)
        /\ loc' = [loc EXCEPT ![t] = Fresh] /\ loc'[t].idx = NoIdx
        /\ made' = IF t \in Producers THEN [made EXCEPT ![t] = calls[t]] ELSE made
    <3>1. /\ pc' = [pc EXCEPT ![t] = "threshold"]
          /\ WriteSlot(t, g, b) /\ loc' = [loc EXCEPT ![t] = Fresh]
          /\ made' = IF t \in Producers THEN [made EXCEPT ![t] = calls[t]] ELSE made
      BY <1>2, <1>4 DEF PutEntry, GoTo
    <3>2. Fresh.idx = NoIdx
      BY DEF Fresh
    <3> QED BY <3>1, <3>2 DEF Others, RingInv, TypeInv
  <2>2. i # NoIdx /\ i \in Indices
    BY <1>1, <1>2 DEF RingInv, OnceInv, Carrying, Filling, Places
  <2>3. b \in Entries /\ b.idx = i /\ b.cyc = Cycle(p)
    BY <1>1 DEF Entry, Entries, Cycles
  <2>4. /\ ring'[g].slots[u] = b
        /\ \A q \in Rings, v \in Slots :
             q # g \/ v # u => ring'[q].slots[v] = ring[q].slots[v]
        /\ \A q \in Rings : /\ ring'[q].head = ring[q].head
                            /\ ring'[q].tail = ring[q].tail
    BY <1>1, <2>1, <2>3, WriteFacts
  <2>5. \A q \in Rings, pos \in Nat : Open(q, pos)' <=> Open(q, pos)
    BY <1>2, <2>1, <2>4, OpenSame DEF Drawn
  <2>6. /\ a.idx = NoIdx /\ a.cyc < Cycle(p)
        /\ \A pos \in Nat : Slot(pos) = u /\ ~Open(g, pos) => Cycle(pos) < Cycle(p)
    BY <1>2, <1>4 DEF RingInv, LocalInv, Giver
  <2>7. p < ring[g].tail
    BY <1>2 DEF RingInv, LocalInv, Marks, Filling
  <2> HIDE DEF b
  <2>8. Proper(t)
    <3>1. Open(g, p)
      BY <1>1, <2>6
    <3>2. PICK pos \in Nat : pos = p /\ Open(g, pos)'
      BY <1>1, <2>5, <3>1
    <3>3. Advances(g, u)
      <4>1. a.idx = NoIdx /\ b.idx # NoIdx /\ b.cyc > a.cyc
        BY <1>1, <2>2, <2>3, <2>6
      <4>2. \E q \in Nat : /\ Slot(q) = u /\ Cycle(q) = b.cyc
                           /\ q < ring'[g].tail /\ Open(g, q)'
        BY <1>1, <2>3, <2>4, <2>7, <3>2
      <4>3. \A q \in Nat : Slot(q) = u /\ ~Open(g, q)' => Cycle(q) < b.cyc
        BY <1>1, <2>3, <2>5, <2>6
      <4> QED BY <2>4, <4>1, <4>2, <4>3 DEF Advances
    <3>4. \A q \in Rings, v \in Slots : Advances(q, v)
      BY <2>4, <3>3, Stays
    <3>5. \A q \in Rings : ring'[q].tail >= ring[q].tail
      <4> TAKE q \in Rings
      <4>1. ring[q].tail \in Nat /\ ring'[q].tail = ring[q].tail
        BY <1>1, <2>4 DEF RingStates
      <4> QED BY <4>1
    <3> QED BY <2>1, <2>5, <3>4, <3>5 DEF Proper, Closes
  <2>9. DrawInv'
    BY <1>2, <2>1, <2>4, DrawSame DEF Drawn
  <2>10. Taker(t)' /\ Giver(t)' /\ Marks(t)'
    BY <2>1 DEF Taker, Giver, Marks, Filling
  <2>11. OnceInv'
    <3>1. \A q \in Rings, v \in Slots :
            /\ ~(q = g /\ v = u) => /\ ring'[q].slots[v].idx = ring[q].slots[v].idx
                                    /\ ring[q].slots[v].idx # i
            /\ ring[q].slots[v].idx # NoIdx =>
                 ring'[q].slots[v].idx = ring[q].slots[v].idx
      BY <2>2, <2>4, <2>6 DEF RingInv, OnceInv
    <3>2. ring'[g].slots[u].idx = i
      BY <2>3, <2>4
    <3>3. \A w \in Threads : w # t => /\ loc'[w].idx = loc[w].idx
                                      /\ loc[w].idx # i
                                      /\ pc'[w] = pc[w]
      BY <2>1, <2>2 DEF Others, RingInv, OnceInv
    <3>4. \A j \in Indices : \/ \E q \in Rings, v \in Slots : ring'[q].slots[v].idx = j
                             \/ \E w \in Threads : loc'[w].idx = j
      <4> TAKE j \in Indices
      <4>1. j # NoIdx
        BY Sizes
      <4>2. CASE j = i
        BY <1>1, <3>2, <4>2
      <4>3. CASE \E q \in Rings, v \in Slots : ring[q].slots[v].idx = j
        BY <3>1, <4>1, <4>3
      <4>4. CASE \E w \in Threads : loc[w].idx = j /\ j # i
        BY <3>3, <4>4
      <4> QED BY <4>2, <4>3, <4>4 DEF RingInv, OnceInv
    <3>5. \A q, o \in Rings, v, w \in Slots :
            /\ ring'[q].slots[v].idx = ring'[o].slots[w].idx
            /\ ring'[q].slots[v].idx # NoIdx
            => q = o /\ v = w
      BY <3>1, <3>2 DEF RingInv, OnceInv
    <3>6. \A v, w \in Threads :
            loc'[v].idx = loc'[w].idx /\ loc'[v].idx # NoIdx => v = w
      BY <2>1, <3>3 DEF RingInv, OnceInv
    <3>7. \A v \in Threads, q \in Rings, w \in Slots :
            loc'[v].idx # NoIdx => ring'[q].slots[w].idx # loc'[v].idx
      BY <2>1, <3>1, <3>2, <3>3 DEF RingInv, OnceInv
    <3>8. \A v \in Threads : loc'[v].idx # NoIdx <=> pc'[v] \in Carrying
      BY <2>1, <3>3 DEF RingInv, OnceInv, Carrying, Filling
    <3> QED BY <3>4, <3>5, <3>6, <3>7, <3>8 DEF OnceInv
  <2>12. RingInv'
    BY <2>8, <2>9, <2>10, <2>11, Settled
  <2> QED BY <1>2, <2>1, <2>2, <2>3, <2>4, <2>6, <2>12
<1> QED BY <1>3, <1>4

-----------------------------------------------------------------------------
(***************************************************************************)
(* The theorems about the rings                                            *)
(***************************************************************************)
LEMMA RingStep == RingInv /\ [Next]_vars => RingInv'
<1> SUFFICES ASSUME RingInv, [Next]_vars PROVE RingInv'
  OBVIOUS
<1>1. TypeInv'
  BY TypeStep DEF RingInv
<1>2. CASE UNCHANGED vars
  <2>1. ring' = ring /\ pc' = pc /\ loc' = loc
    BY <1>2 DEF vars
  <2>2. \A r \in Rings, pos \in Nat : Open(r, pos)' <=> Open(r, pos)
    BY <2>1 DEF Open
  <2>3. SlotInv' /\ PassInv'
    BY <2>1, <2>2 DEF RingInv, SlotInv, PassInv
  <2>4. DrawInv' /\ OnceInv'
    BY <2>1 DEF RingInv, DrawInv, OnceInv
  <2>5. \A t \in Threads : Target(t) \in Rings
    BY Sides
  <2>6. LocalInv'
    <3> SUFFICES ASSUME NEW t \in Threads PROVE Taker(t)' /\ Giver(t)' /\ Marks(t)'
      BY DEF LocalInv
    <3>1. Taker(t) /\ Giver(t) /\ Marks(t)
      BY DEF RingInv, LocalInv
    <3>2. Taker(t)' /\ Marks(t)'
      BY <2>1, <3>1 DEF Taker, Marks, Here
    <3>3. Giver(t)'
      BY <2>1, <2>2, <2>5, <3>1 DEF Giver, Here
    <3> QED BY <3>2, <3>3
  <2> QED BY <1>1, <2>3, <2>4, <2>6 DEF RingInv
<1>3. ASSUME NEW t \in Threads, Thread(t)
      PROVE  RingInv'
  BY <1>1, <1>3, Examines, Swaps, Moves, Draws, Probes, Takes, Puts
     DEF Thread, Dequeue, Enqueue
<1> QED BY <1>2, <1>3 DEF Next

\* The inductive invariant holds in every reachable state.
THEOREM RingsSound == Spec => []RingInv
BY RingInit, RingStep, PTL DEF Spec

\* An index is in one slot of one ring or with one thread.
LEMMA OncePlaces ==
  ASSUME RingInv, NEW i \in Indices
  PROVE  LET A == InRing("acq", i)
             B == InRing("free", i)
             C == Holders(i)
         IN  \/ (\E s \in Slots : A = {s}) /\ B = {} /\ C = {}
             \/ A = {} /\ (\E s \in Slots : B = {s}) /\ C = {}
             \/ A = {} /\ B = {} /\ (\E t \in Threads : C = {t})
<1>1. i # NoIdx
  BY Sizes
<1>2. "acq" \in Rings /\ "free" \in Rings
  BY DEF Rings
<1>3. CASE \E r \in Rings, s \in Slots : ring[r].slots[s].idx = i
  <2>1. PICK r \in Rings, s \in Slots : ring[r].slots[s].idx = i
    BY <1>3
  <2>2. \A q \in Rings, u \in Slots : ring[q].slots[u].idx = i => q = r /\ u = s
    BY <1>1, <2>1 DEF RingInv, OnceInv
  <2>3. InRing(r, i) = {s}
    BY <2>1, <2>2 DEF InRing, Slots
  <2>4. \A q \in Rings : q # r => InRing(q, i) = {}
    BY <2>2 DEF InRing, Slots
  <2>5. Holders(i) = {}
    BY <1>1, <2>1 DEF Holders, RingInv, OnceInv
  <2> QED BY <1>2, <2>3, <2>4, <2>5 DEF Rings
<1>4. CASE ~\E r \in Rings, s \in Slots : ring[r].slots[s].idx = i
  <2>1. PICK t \in Threads : loc[t].idx = i
    BY <1>4 DEF RingInv, OnceInv
  <2>2. Holders(i) = {t}
    BY <1>1, <2>1 DEF Holders, RingInv, OnceInv
  <2>3. InRing("acq", i) = {} /\ InRing("free", i) = {}
    BY <1>2, <1>4 DEF InRing, Slots
  <2> QED BY <2>2, <2>3
<1> QED BY <1>3, <1>4

\* IndexOnce: an index is in exactly one slot of one ring or in one thread's
\* hands, in every reachable state of lfenqueue and lfdequeue.
THEOREM IndicesKept == Spec => []IndexOnce
<1>1. RingInv => IndexOnce
  <2> SUFFICES ASSUME RingInv, NEW i \in Indices
               PROVE  Cardinality(InRing("acq", i)) + Cardinality(InRing("free", i))
                        + Cardinality(Holders(i)) = 1
    BY DEF IndexOnce
  <2>1. Cardinality({}) = 0
    BY FS_EmptySet
  <2>2. \A x : Cardinality({x}) = 1
    BY FS_Singleton
  <2> DEFINE A == InRing("acq", i)
             B == InRing("free", i)
             C == Holders(i)
  <2>3. \/ (\E s \in Slots : A = {s}) /\ B = {} /\ C = {}
        \/ A = {} /\ (\E s \in Slots : B = {s}) /\ C = {}
        \/ A = {} /\ B = {} /\ (\E t \in Threads : C = {t})
    BY OncePlaces
  <2> HIDE DEF A, B, C
  <2>4. Cardinality(A) + Cardinality(B) + Cardinality(C) = 1
    <3>1. CASE (\E s \in Slots : A = {s}) /\ B = {} /\ C = {}
      <4>1. Cardinality(A) = 1 /\ Cardinality(B) = 0 /\ Cardinality(C) = 0
        BY <2>1, <2>2, <3>1, Zenon
      <4> QED BY <4>1
    <3>2. CASE A = {} /\ (\E s \in Slots : B = {s}) /\ C = {}
      <4>1. Cardinality(A) = 0 /\ Cardinality(B) = 1 /\ Cardinality(C) = 0
        BY <2>1, <2>2, <3>2, Zenon
      <4> QED BY <4>1
    <3>3. CASE A = {} /\ B = {} /\ (\E t \in Threads : C = {t})
      <4>1. Cardinality(A) = 0 /\ Cardinality(B) = 0 /\ Cardinality(C) = 1
        BY <2>1, <2>2, <3>3, Zenon
      <4> QED BY <4>1
    <3> QED BY <2>3, <3>1, <3>2, <3>3
  <2> QED BY <2>4 DEF A, B, C
<1> QED BY <1>1, RingsSound, PTL

\* NoneLeftBehind: whatever slot is filled, the dequeuer that will look there
\* is still to come.
THEOREM EntriesReachable == Spec => []NoneLeftBehind
<1>1. RingInv => NoneLeftBehind
  <2> SUFFICES ASSUME RingInv, NEW r \in Rings, NEW s \in Slots,
                      ring[r].slots[s].idx # NoIdx
               PROVE  \E pos \in Positions(r) :
                        /\ Slot(pos) = s /\ Cycle(pos) = ring[r].slots[s].cyc
                        /\ \/ pos >= ring[r].head
                           \/ \E t \in Threads :
                                /\ Source(t) = r
                                /\ loc[t].pos = pos
                                /\ pc[t] \in {"load", "swap", "consume"}
    BY DEF NoneLeftBehind, Slots
  <2>1. PICK pos \in Nat : /\ Slot(pos) = s /\ Cycle(pos) = ring[r].slots[s].cyc
                           /\ pos < ring[r].tail /\ Open(r, pos)
    BY DEF RingInv, SlotInv
  <2>2. ring[r].tail \in Nat
    BY EntryType DEF RingInv
  <2>3. pos \in Positions(r)
    BY <2>1, <2>2 DEF Positions
  <2> QED BY <2>1, <2>3 DEF Open, Drawn
<1> QED BY <1>1, RingsSound, PTL

-----------------------------------------------------------------------------
(***************************************************************************)
(* The order of the values                                                 *)
(***************************************************************************)
QueueInv == RingInv /\ CallInv /\ OrderInv

Outside == {"idle", "threshold", "warm"}

\* A step that moves no value into or out of acq.
Inward(t) ==
  /\ UNCHANGED <<data, made, got>>
  /\ \A s \in Slots :
       LET e == ring["acq"].slots[s]
           f == ring'["acq"].slots[s]
       IN  f.idx = e.idx /\ (e.idx # NoIdx => f.cyc = e.cyc)
  /\ ring'["acq"].head >= ring["acq"].head
  /\ \A u \in Threads : u # t => /\ pc'[u] = pc[u] /\ loc'[u] = loc[u]
                                 /\ calls'[u] = calls[u]
  /\ t \in Consumers /\ pc'[t] \in Drawn => loc'[t].pos = Reach(t)
  /\ loc'[t].idx \in {loc[t].idx, NoIdx}
  /\ \/ calls'[t] = calls[t] /\ (pc[t] \in Outside => pc'[t] \in Outside)
     \/ /\ pc[t] = "idle" /\ calls[t] < MaxCalls[t]
        /\ calls'[t] = calls[t] + 1 /\ loc'[t].idx = NoIdx
  /\ t \in Producers /\ pc'[t] \in Filling =>
       \/ pc[t] \in Filling /\ loc'[t].pos = loc[t].pos
       \/ loc'[t].pos = ring["acq"].tail

\* A queue position of an index, and its slot.
LEMMA Lying ==
  ASSUME RingInv, NEW i \in Indices
  PROVE  /\ InRing("acq", i) # {} <=> \E pos \in Nat : LiesAt(i, pos)
         /\ \A p, q \in Nat : LiesAt(i, p) /\ LiesAt(i, q) => p = q
         /\ \A p \in Nat : LiesAt(i, p) => p < ring["acq"].tail
         /\ \A p \in Nat : LiesAt(i, p) =>
              /\ ring["acq"].slots[Slot(p)].idx # NoIdx
              /\ ring["free"].slots[Slot(p)].idx # i
<1>1. "acq" \in Rings /\ "free" \in Rings /\ i # NoIdx
  BY Sizes DEF Rings
<1>2. ASSUME NEW s \in Slots, ring["acq"].slots[s].idx = i
      PROVE  \E pos \in Nat : LiesAt(i, pos) /\ pos < ring["acq"].tail
  BY <1>1, <1>2 DEF RingInv, SlotInv, LiesAt
<1>3. ASSUME NEW p \in Nat, NEW q \in Nat, LiesAt(i, p), LiesAt(i, q)
      PROVE  p = q
  <2>1. Slot(p) \in Slots /\ Slot(q) \in Slots
    BY SlotCycle
  <2>2. Slot(p) = Slot(q)
    BY <1>1, <1>3, <2>1 DEF RingInv, OnceInv, LiesAt
  <2> QED BY <1>3, <2>2, InSlot DEF LiesAt
<1>4. ASSUME NEW p \in Nat, LiesAt(i, p)
      PROVE  /\ p < ring["acq"].tail /\ InRing("acq", i) # {}
             /\ ring["acq"].slots[Slot(p)].idx # NoIdx
             /\ ring["free"].slots[Slot(p)].idx # i
  <2>1. Slot(p) \in Slots /\ ring["acq"].slots[Slot(p)].idx = i
    BY <1>4, SlotCycle DEF LiesAt
  <2>2. PICK q \in Nat : LiesAt(i, q) /\ q < ring["acq"].tail
    BY <1>2, <2>1
  <2>3. p = q
    BY <1>3, <1>4, <2>2
  <2>4. InRing("acq", i) # {}
    BY <2>1 DEF InRing, Slots
  <2>5. ring["free"].slots[Slot(p)].idx # i
    BY <1>1, <2>1 DEF RingInv, OnceInv
  <2> QED BY <1>1, <2>1, <2>2, <2>3, <2>4, <2>5
<1>5. InRing("acq", i) # {} => \E pos \in Nat : LiesAt(i, pos)
  BY <1>2 DEF InRing, Slots
<1> QED BY <1>3, <1>4, <1>5

\* Steps that touch no queued index leave the queued ones in place.
LEMMA LiesSame ==
  ASSUME TypeInv, NEW t \in Threads, Inward(t), NEW i \in Indices
  PROVE  /\ InRing("acq", i)' = InRing("acq", i)
         /\ \A pos \in Nat : LiesAt(i, pos)' <=> LiesAt(i, pos)
<1>1. i # NoIdx
  BY Sizes
<1>2. InRing("acq", i)' = InRing("acq", i)
  BY DEF InRing, Inward, Slots
<1>3. ASSUME NEW pos \in Nat PROVE LiesAt(i, pos)' <=> LiesAt(i, pos)
  BY <1>1, SlotCycle DEF LiesAt, Inward
<1> QED BY <1>2, <1>3

\* What a consumer will look at only moves on.
LEMMA ReachGrows ==
  ASSUME RingInv, TypeInv', NEW c \in Consumers,
         ring'["acq"].head >= ring["acq"].head,
         pc'[c] \in Drawn => loc'[c].pos = Reach(c)
  PROVE  Reach(c) \in Nat /\ Reach(c)' \in Nat /\ Reach(c)' >= Reach(c)
<1>1. /\ c \in Threads /\ "acq" \in Rings
      /\ Source(c) = "acq"
  BY RingAssumption DEF Threads, Rings, Source
<1>2. /\ ring["acq"].head \in Nat /\ ring'["acq"].head \in Nat
      /\ loc[c].pos \in Nat /\ loc'[c].pos \in Nat
  BY <1>1, TypeInv' DEF RingInv, TypeInv, RingStates, Locals
<1>3. pc[c] \in Drawn => loc[c].pos < ring["acq"].head
  BY <1>1 DEF RingInv, DrawInv
<1> QED BY <1>2, <1>3 DEF Reach

\* The types of the calls and the values.
LEMMA Numbers ==
  ASSUME TypeInv
  PROVE  /\ \A p \in Producers : made[p] \in Nat /\ calls[p] \in Nat
         /\ \A p \in Producers : p \in Threads /\ Target(p) = "acq"
                                   /\ Source(p) = "free" /\ MaxCalls[p] \in Nat
         /\ \A c \in Consumers : c \in Threads /\ c \notin Producers
                                   /\ Source(c) = "acq" /\ Target(c) = "free"
         /\ \A i \in Indices : data[i] \in Producers \X Nat =>
              data[i][1] \in Producers /\ data[i][2] \in Nat
         /\ \A c \in Consumers : \A n \in DOMAIN got[c] :
              got[c][n] \in Producers \X Nat =>
                got[c][n][1] \in Producers /\ got[c][n][2] \in Nat
BY RingAssumption DEF TypeInv, Threads, Source, Target

\* Steps inside a call that queue and take nothing.
LEMMA InwardKeeps ==
  ASSUME QueueInv, TypeInv', NEW t \in Threads, Inward(t)
  PROVE  CallInv' /\ OrderInv'
<1>1. \A i \in Indices, pos \in Nat : LiesAt(i, pos)' <=> LiesAt(i, pos)
  BY LiesSame DEF QueueInv, RingInv
<1>2. UNCHANGED <<data, made, got>>
  BY DEF Inward
<1>3. ASSUME NEW p \in Producers
      PROVE  /\ made'[p] <= calls'[p] /\ calls'[p] <= MaxCalls[p]
             /\ pc'[p] \notin {"idle", "threshold", "warm"} => made'[p] < calls'[p]
             /\ loc'[p].idx # NoIdx => data'[loc'[p].idx] = <<p, calls'[p]>>
  <2>1. /\ made[p] <= calls[p] /\ calls[p] <= MaxCalls[p]
        /\ pc[p] \notin {"idle", "threshold", "warm"} => made[p] < calls[p]
        /\ loc[p].idx # NoIdx => data[loc[p].idx] = <<p, calls[p]>>
    BY DEF QueueInv, CallInv
  <2>2. made[p] \in Nat /\ calls[p] \in Nat /\ MaxCalls[p] \in Nat /\ p \in Threads
    BY Numbers DEF QueueInv, RingInv
  <2>3. CASE p # t
    BY <1>2, <2>1, <2>2, <2>3 DEF Inward
  <2>4. CASE p = t /\ calls'[t] = calls[t] /\ (pc[t] \in Outside => pc'[t] \in Outside)
    BY <1>2, <2>1, <2>2, <2>4 DEF Inward, Outside
  <2>5. CASE p = t /\ calls[t] < MaxCalls[t] /\ calls'[t] = calls[t] + 1
             /\ loc'[t].idx = NoIdx
    BY <1>2, <2>1, <2>2, <2>5
  <2> QED BY <2>3, <2>4, <2>5 DEF Inward
<1>4. CallInv'
  BY <1>1, <1>2, <1>3 DEF QueueInv, CallInv
<1>5. ASSUME NEW u \in Producers, NEW i \in Indices, NEW p \in Nat,
             pc'[u] \in Filling, LiesAt(i, p), data[i][1] = u
      PROVE  p < loc'[u].pos
  <2>1. u \in Threads
    BY Numbers DEF QueueInv, RingInv
  <2>2. (pc[u] \in Filling /\ loc'[u].pos = loc[u].pos) \/ loc'[u].pos = ring["acq"].tail
    BY <1>5, <2>1 DEF Inward
  <2>3. p < ring["acq"].tail
    BY <1>5, Lying DEF QueueInv
  <2> QED BY <1>5, <2>2, <2>3 DEF QueueInv, OrderInv
<1>6. ASSUME NEW c \in Consumers, NEW i \in Indices, NEW p \in Nat,
             LiesAt(i, p), p >= Reach(c)'
      PROVE  \A n \in DOMAIN got[c] :
               got[c][n][1] = data[i][1] => got[c][n][2] < data[i][2]
  <2>1. c \in Threads
    BY Numbers DEF QueueInv, RingInv
  <2>2. ring'["acq"].head >= ring["acq"].head
    BY DEF Inward
  <2>3. pc'[c] \in Drawn => loc'[c].pos = Reach(c)
    <3>1. CASE c = t
      BY <3>1 DEF Inward
    <3>2. CASE c # t
      BY <2>1, <3>2 DEF Inward, Reach
    <3> QED BY <3>1, <3>2
  <2>4. Reach(c) \in Nat /\ Reach(c)' \in Nat /\ Reach(c)' >= Reach(c)
    BY <2>2, <2>3, ReachGrows DEF QueueInv
  <2>5. p >= Reach(c)
    BY <1>6, <2>4
  <2> QED BY <1>6, <2>5 DEF QueueInv, OrderInv
<1>7. OrderInv'
  BY <1>1, <1>2, <1>5, <1>6 DEF QueueInv, OrderInv
<1> QED BY <1>4, <1>7

\* Every step is of that kind, except the two that move an index.
LEMMA InwardSteps ==
  ASSUME RingInv, TypeInv', NEW t \in Threads, Thread(t),
         ~Consume(t), ~(PutEntry(t) /\ ring' # ring)
  PROVE  Inward(t)
<1> DEFINE s == Source(t)  g == Target(t)
<1>1. /\ s \in Rings /\ g \in Rings /\ ring \in [Rings -> RingStates]
      /\ loc[t] \in Locals /\ loc[t].pos \in Nat /\ "acq" \in Rings
      /\ loc \in [Threads -> Locals] /\ pc \in [Threads -> Steps]
      /\ calls \in [Threads -> Nat]
  <2>1. s \in Rings /\ g \in Rings /\ ring \in [Rings -> RingStates]
        /\ loc[t] \in Locals /\ "acq" \in Rings
        /\ loc \in [Threads -> Locals] /\ pc \in [Threads -> Steps]
        /\ calls \in [Threads -> Nat]
    BY Sides DEF RingInv, TypeInv, Rings
  <2> QED BY <2>1 DEF Locals
<1>2. \A q \in Rings : ring[q].head \in Nat /\ ring[q].tail \in Nat
                      /\ ring[q].threshold \in Int
  BY <1>1 DEF RingStates
<1>3. Fresh.idx = NoIdx
  BY DEF Fresh
<1>4. UNCHANGED <<data, made, got>>
  <2>1. CASE PutEntry(t)
    <3>1. ring' = ring
      BY <2>1
    <3>2. UNCHANGED <<data, got>>
      BY <2>1 DEF PutEntry
    <3>3. CASE UNCHANGED <<ring, loc, made>>
      BY <3>2, <3>3
    <3>4. CASE /\ ring[g].slots[Slot(loc[t].pos)].idx = NoIdx
               /\ ring'[g].slots[Slot(loc[t].pos)].idx = loc[t].idx
               /\ loc[t].idx \in Indices
      BY <3>1, <3>4, Sizes
    <3> QED BY <2>1, <3>3, <3>4, Puts
  <2>2. CASE KeepValues
    BY <2>2 DEF KeepValues
  <2>3. CASE ~PutEntry(t)
    BY <2>3, <2>2 DEF Thread, Dequeue, Enqueue, ReadThreshold, AddHead, LoadEntry,
       LoadOccupied, LoadVacant, SwapEntry, ReadTail, CatchUp, RereadHead,
       RereadTail, Chill, Spend, AddTail, LoadSlot, RetrySlot, CheckHead,
       LoadThreshold, Warm, Examine
  <2> QED BY <2>1, <2>3
<1>5. /\ \A v \in Slots :
           LET e == ring["acq"].slots[v]
               f == ring'["acq"].slots[v]
           IN  f.idx = e.idx /\ (e.idx # NoIdx => f.cyc = e.cyc)
      /\ ring'["acq"].head >= ring["acq"].head
  <2>1. CASE /\ \A q \in Rings : ring'[q].slots = ring[q].slots
             /\ ring'["acq"].head = ring["acq"].head
    BY <1>1, <1>2, <2>1
  <2>2. CASE SwapEntry(t) /\ ring' # ring
    <3> DEFINE u == Slot(loc[t].pos)  e == ring[s].slots[u]
    <3>1. /\ e = loc[t].ent /\ WriteSlot(t, s, loc[t].new) /\ pc[t] = "swap"
      BY <2>2 DEF SwapEntry, Here, At
    <3>2. loc[t].new = IF e.idx # NoIdx THEN Unsafe(e)
                       ELSE [e EXCEPT !.cyc = Cycle(loc[t].pos)]
      BY <3>1 DEF RingInv, LocalInv, Taker
    <3>3. loc[t].new \in Entries /\ e \in Entries
      <4>1. u \in Slots
        BY <1>1, SlotCycle
      <4> QED BY <1>1, <4>1, EntryType DEF Locals, RingInv
    <3>4. loc[t].new.idx = e.idx /\ (e.idx # NoIdx => loc[t].new.cyc = e.cyc)
      BY <3>2, <3>3 DEF Unsafe, Entries
    <3>5. /\ ring'[s].slots[u] = loc[t].new
          /\ \A q \in Rings, v \in Slots :
               q # s \/ v # u => ring'[q].slots[v] = ring[q].slots[v]
          /\ ring'["acq"].head = ring["acq"].head
      BY <1>1, <3>1, <3>3, WriteFacts
    <3> HIDE DEF u
    <3> QED BY <1>1, <1>2, <3>4, <3>5
  <2>3. CASE ring' = ring
    BY <2>1, <2>3
  <2>4. CASE AddHead(t)
    <3>1. /\ ring' = [ring EXCEPT ![s].head = ring[s].head + 1]
          /\ ring[s].head + 1 \in Nat
      BY <1>1, <1>2, <2>4 DEF AddHead
    <3>2. /\ ring'[s].head = ring[s].head + 1
          /\ \A q \in Rings : ring'[q].slots = ring[q].slots
          /\ s # "acq" => ring'["acq"] = ring["acq"]
      BY <1>1, <3>1, HeadFacts
    <3>3. CASE s = "acq"
      BY <1>1, <1>2, <3>2, <3>3
    <3> QED BY <1>1, <1>2, <2>1, <3>2, <3>3
  <2>5. CASE CatchUp(t)
    <3>1. ring' = ring \/ ring' = [ring EXCEPT ![s].tail = loc[t].to]
      BY <2>5 DEF CatchUp
    <3>2. loc[t].to \in Nat
      BY <1>1 DEF Locals
    <3> QED BY <1>1, <2>1, <2>3, <3>1, <3>2, TailFacts
  <2>6. CASE AddTail(t)
    <3>1. /\ ring' = [ring EXCEPT ![g].tail = ring[g].tail + 1]
          /\ ring[g].tail + 1 \in Nat
      BY <1>1, <1>2, <2>6 DEF AddTail
    <3> QED BY <1>1, <2>1, <3>1, TailFacts
  <2>7. CASE Chill(t) \/ Spend(t)
    <3>1. PICK n \in Int : ring' = [ring EXCEPT ![s].threshold = n]
      <4>1. ring[s].threshold - 1 \in Int
        BY <1>1, <1>2
      <4> QED BY <2>7, <4>1 DEF Chill, Spend
    <3> QED BY <1>1, <2>1, <3>1, ThresholdFacts
  <2>8. CASE Warm(t)
    <3>1. ring' = [ring EXCEPT ![g].threshold = Threshold] /\ Threshold \in Int
      BY <2>8, Sizes DEF Warm, Threshold
    <3> QED BY <1>1, <2>1, <3>1, ThresholdFacts
  <2> QED BY <2>2, <2>3, <2>4, <2>5, <2>6, <2>7, <2>8 DEF Thread, Dequeue, Enqueue,
       ReadThreshold, LoadEntry, LoadOccupied, LoadVacant, ReadTail, RereadHead,
       RereadTail, LoadSlot, RetrySlot, CheckHead, LoadThreshold, Examine
<1>6. \A u \in Threads : u # t => /\ pc'[u] = pc[u] /\ loc'[u] = loc[u]
                                 /\ calls'[u] = calls[u]
  <2>1. CASE PutEntry(t)
    BY <1>1, <2>1 DEF PutEntry, GoTo
  <2> QED BY <1>1, <2>1 DEF Thread, Dequeue, Enqueue, GoTo, ReadThreshold, AddHead,
       LoadEntry, LoadOccupied, LoadVacant, SwapEntry, ReadTail, CatchUp, RereadHead,
       RereadTail, Chill, Spend, AddTail, LoadSlot, RetrySlot, CheckHead,
       LoadThreshold, Warm, Examine
<1>7. /\ t \in Consumers /\ pc'[t] \in Drawn => loc'[t].pos = Reach(t)
      /\ loc'[t].idx \in {loc[t].idx, NoIdx}
      /\ \/ calls'[t] = calls[t] /\ (pc[t] \in Outside => pc'[t] \in Outside)
         \/ /\ pc[t] = "idle" /\ calls[t] < MaxCalls[t]
            /\ calls'[t] = calls[t] + 1 /\ loc'[t].idx = NoIdx
      /\ t \in Producers /\ pc'[t] \in Filling =>
           \/ pc[t] \in Filling /\ loc'[t].pos = loc[t].pos
           \/ loc'[t].pos = ring["acq"].tail
  <2>1. CASE ReadThreshold(t)
    <3>1. pc[t] = "idle" /\ pc'[t] \in {"idle", "head"} /\ loc' = loc
          /\ calls[t] < MaxCalls[t] /\ calls'[t] = calls[t] + 1
      BY <1>1, <2>1 DEF ReadThreshold, At, GoTo
    <3>2. loc[t].idx = NoIdx
      BY <3>1 DEF RingInv, OnceInv, Carrying, Filling
    <3> QED BY <3>1, <3>2 DEF Drawn, Filling
  <2>2. CASE AddHead(t)
    <3>1. pc[t] = "head" /\ pc'[t] = "load" /\ calls' = calls
          /\ loc'[t].pos = ring[s].head /\ loc'[t].idx = NoIdx
      BY <1>1, <2>2 DEF AddHead, At, GoTo, Fresh
    <3>2. t \in Consumers => loc'[t].pos = Reach(t)
      BY <3>1, Numbers DEF Reach, Drawn, RingInv
    <3> QED BY <3>1, <3>2 DEF Filling, Outside
  <2>3. CASE LoadEntry(t) \/ LoadOccupied(t) \/ LoadVacant(t) \/ SwapEntry(t)
    <3>1. pc[t] \in {"load", "swap"} /\ pc'[t] \in {"load", "consume", "swap", "tail"}
          /\ calls' = calls
      BY <1>1, <2>3 DEF LoadEntry, LoadOccupied, LoadVacant, SwapEntry, At, GoTo
    <3>2. loc'[t].pos = loc[t].pos /\ loc'[t].idx = loc[t].idx
      BY <1>1, <2>3 DEF LoadEntry, LoadOccupied, LoadVacant, SwapEntry, Locals
    <3> QED BY <3>1, <3>2 DEF Reach, Drawn, Filling, Outside
  <2>4. CASE \/ ReadTail(t) \/ CatchUp(t) \/ RereadHead(t) \/ RereadTail(t)
             \/ Chill(t) \/ Spend(t)
    <3>1. pc[t] \in GivenUp /\ pc'[t] \notin Drawn \cup Filling /\ calls' = calls
      BY <1>1, <2>4 DEF ReadTail, CatchUp, RereadHead, RereadTail, Chill, Spend,
                        At, GoTo, GivenUp, Drawn, Filling
    <3>2. CASE ReadTail(t) \/ CatchUp(t) \/ RereadHead(t) \/ RereadTail(t)
      <4>1. loc'[t].idx = loc[t].idx
        BY <1>1, <3>2 DEF ReadTail, CatchUp, RereadHead, RereadTail, Locals
      <4> QED BY <3>1, <4>1 DEF GivenUp, Outside
    <3>3. CASE Chill(t) \/ Spend(t)
      <4>1. loc'[t].idx = NoIdx
        BY <1>1, <1>3, <3>3 DEF Chill, Spend
      <4> QED BY <3>1, <4>1 DEF GivenUp, Outside
    <3> QED BY <2>4, <3>2, <3>3
  <2>5. CASE AddTail(t)
    <3>1. pc[t] = "draw" /\ pc'[t] = "fill" /\ calls' = calls
          /\ loc'[t].pos = ring[g].tail /\ loc'[t].idx = loc[t].idx
      BY <1>1, <2>5 DEF AddTail, At, GoTo, Fresh
    <3> QED BY <3>1, Numbers DEF Drawn, Outside, RingInv
  <2>6. CASE LoadSlot(t) \/ RetrySlot(t) \/ CheckHead(t)
    <3>1. pc[t] \in Filling /\ pc'[t] \in {"put", "check", "draw"} /\ calls' = calls
      BY <1>1, <2>6 DEF LoadSlot, RetrySlot, CheckHead, Examine, At, GoTo, Filling
    <3>2. CASE LoadSlot(t) \/ RetrySlot(t)
      <4>1. PICK e, c : loc' = [loc EXCEPT ![t].ent = e, ![t].cyc = c]
        BY <3>2 DEF LoadSlot, RetrySlot, Examine
      <4>2. loc'[t].pos = loc[t].pos /\ loc'[t].idx = loc[t].idx
        BY <1>1, <4>1 DEF Locals
      <4> QED BY <3>1, <4>2 DEF Drawn, Filling, Outside
    <3>3. CASE CheckHead(t)
      <4>1. loc' = loc
        BY <3>3 DEF CheckHead
      <4> QED BY <3>1, <4>1 DEF Drawn, Filling, Outside
    <3> QED BY <2>6, <3>2, <3>3
  <2>7. CASE PutEntry(t)
    <3>1. ring' = ring
      BY <2>7
    <3>2. UNCHANGED loc /\ pc[t] = "put" /\ pc'[t] = "refill" /\ calls' = calls
      <4>1. UNCHANGED loc
        <5>1. CASE /\ ring[g].slots[Slot(loc[t].pos)].idx = NoIdx
                   /\ ring'[g].slots[Slot(loc[t].pos)].idx = loc[t].idx
                   /\ loc[t].idx \in Indices
          BY <3>1, <5>1, Sizes
        <5> QED BY <2>7, <5>1, Puts
      <4>2. loc[t].idx # NoIdx
        BY <2>7 DEF PutEntry, At, RingInv, OnceInv, Carrying, Filling
      <4>3. loc' # [loc EXCEPT ![t] = Fresh]
        BY <1>1, <1>3, <4>1, <4>2
      <4>4. pc' = [pc EXCEPT ![t] = "refill"]
        BY <2>7, <4>3, Zenon DEF PutEntry, GoTo
      <4> QED BY <1>1, <2>7, <4>1, <4>4 DEF PutEntry, At
    <3> QED BY <3>2 DEF Drawn, Filling, Outside
  <2>8. CASE LoadThreshold(t) \/ Warm(t)
    <3>1. pc[t] \in Outside /\ pc'[t] \in {"idle", "warm"} /\ calls' = calls
          /\ loc' = loc
      BY <1>1, <2>8 DEF LoadThreshold, Warm, At, GoTo, Outside
    <3> QED BY <3>1 DEF Drawn, Filling, Outside
  <2> QED BY <2>1, <2>2, <2>3, <2>4, <2>5, <2>6, <2>7, <2>8
          DEF Thread, Dequeue, Enqueue
<1> QED BY <1>4, <1>5, <1>6, <1>7 DEF Inward

-----------------------------------------------------------------------------
(***************************************************************************)
(* The steps that move a value, and what they are in LfContract            *)
(***************************************************************************)
Queued == {data[i] : i \in {j \in Indices : InRing("acq", j) # {}}}

\* A producer takes a free index and writes its value there.
LEMMA ProducerTakes ==
  ASSUME QueueInv, TypeInv', RingInv', NEW t \in Producers, Consume(t)
  PROVE  CallInv' /\ OrderInv' /\ Queued' = Queued /\ UNCHANGED <<made, got>>
<1> DEFINE k == loc[t].ent.idx
<1>1. /\ t \in Threads /\ Source(t) = "free" /\ "acq" \in Rings /\ "free" \in Rings
      /\ loc[t].pos \in Nat /\ Slot(loc[t].pos) \in Slots /\ k # NoIdx
  <2>1. t \in Threads /\ Source(t) = "free"
    BY Numbers DEF QueueInv, RingInv
  <2>2. loc[t].pos \in Nat
    BY <2>1 DEF QueueInv, RingInv, TypeInv, Locals
  <2>3. k # NoIdx
    BY <2>1, Takes, Sizes DEF QueueInv
  <2> QED BY <2>1, <2>2, <2>3, SlotCycle DEF Rings
<1>2. /\ k \in Indices /\ ring["free"].slots[Slot(loc[t].pos)].idx = k
      /\ \A v \in Slots : ring'["acq"].slots[v] = ring["acq"].slots[v]
      /\ ring'["acq"].head = ring["acq"].head
      /\ ring'["acq"].tail = ring["acq"].tail
  BY <1>1, Takes DEF QueueInv
<1>3. /\ UNCHANGED <<calls, made, got>> /\ data' = [data EXCEPT ![k] = <<t, calls[t]>>]
      /\ pc[t] = "consume" /\ pc' = [pc EXCEPT ![t] = "draw"]
      /\ loc' = [loc EXCEPT ![t] = [Fresh EXCEPT !.idx = k]]
  BY DEF Consume, At, GoTo
<1>4. /\ loc'[t].idx = k /\ pc'[t] = "draw"
      /\ \A u \in Threads : u # t => pc'[u] = pc[u] /\ loc'[u] = loc[u]
  BY <1>1, <1>3 DEF Fresh, QueueInv, RingInv, TypeInv
<1>5. /\ data'[k] = <<t, calls[t]>>
      /\ \A i \in Indices : i # k => data'[i] = data[i]
  BY <1>2, <1>3 DEF QueueInv, RingInv, TypeInv
<1>6. \A v \in Slots : ring["acq"].slots[v].idx # k
  BY <1>1, <1>2 DEF QueueInv, RingInv, OnceInv
<1>7. ASSUME NEW i \in Indices, NEW p \in Nat
      PROVE  /\ LiesAt(i, p)' <=> LiesAt(i, p)
             /\ LiesAt(i, p) => data'[i] = data[i]
  BY <1>2, <1>5, <1>6, SlotCycle DEF LiesAt
<1>8. Queued' = Queued
  <2>1. \A i \in Indices : InRing("acq", i)' = InRing("acq", i)
    BY <1>2 DEF InRing, Slots
  <2>2. InRing("acq", k) = {}
    BY <1>6 DEF InRing, Slots
  <2> QED BY <1>5, <2>1, <2>2 DEF Queued
<1>9. ASSUME NEW p \in Producers
      PROVE  /\ made'[p] <= calls'[p] /\ calls'[p] <= MaxCalls[p]
             /\ pc'[p] \notin {"idle", "threshold", "warm"} => made'[p] < calls'[p]
             /\ loc'[p].idx # NoIdx => data'[loc'[p].idx] = <<p, calls'[p]>>
  <2>1. /\ made[p] <= calls[p] /\ calls[p] <= MaxCalls[p]
        /\ pc[p] \notin {"idle", "threshold", "warm"} => made[p] < calls[p]
        /\ loc[p].idx # NoIdx => data[loc[p].idx] = <<p, calls[p]>>
    BY DEF QueueInv, CallInv
  <2>2. CASE p = t
    BY <1>3, <1>4, <1>5, <2>1, <2>2
  <2>3. CASE p # t
    <3>1. p \in Threads
      BY Numbers DEF QueueInv, RingInv
    <3>2. loc[p].idx # k /\ loc[p].idx \in Places
      BY <1>1, <1>2, <3>1, SMTT(30) DEF QueueInv, RingInv, OnceInv, TypeInv, Locals
    <3>3. loc[p].idx # NoIdx => data'[loc[p].idx] = data[loc[p].idx]
      BY <1>5, <3>2 DEF Places
    <3> QED BY <1>3, <1>4, <2>1, <2>3, <3>1, <3>3
  <2> QED BY <2>2, <2>3
<1>10. CallInv'
  BY <1>3, <1>7, <1>9 DEF QueueInv, CallInv
<1>11. OrderInv'
  <2>1. \A u \in Producers : pc'[u] \in Filling =>
          pc[u] \in Filling /\ loc'[u].pos = loc[u].pos
    <3> TAKE u \in Producers
    <3>1. u \in Threads
      BY Numbers DEF QueueInv, RingInv
    <3> QED BY <1>4, <3>1 DEF Filling
  <2>2. \A c \in Consumers : Reach(c)' = Reach(c)
    <3> TAKE c \in Consumers
    <3>1. c \in Threads /\ c # t
      BY Numbers DEF QueueInv, RingInv
    <3> QED BY <1>2, <1>4, <3>1 DEF Reach
  <2> QED BY <1>3, <1>7, <2>1, <2>2 DEF QueueInv, OrderInv
<1> QED BY <1>3, <1>8, <1>10, <1>11

\* A consumer takes the value at its position.
LEMMA ConsumerTakes ==
  ASSUME QueueInv, TypeInv', RingInv', NEW t \in Consumers, Consume(t)
  PROVE  /\ CallInv' /\ OrderInv' /\ UNCHANGED made
         /\ \E v \in Queued :
              /\ \A n \in DOMAIN got[t] : got[t][n][1] = v[1] => got[t][n][2] < v[2]
              /\ got' = [got EXCEPT ![t] = Append(@, v)]
              /\ Queued' = Queued \ {v}
<1> DEFINE k == loc[t].ent.idx  pos == loc[t].pos  v == data[k]
<1>1. /\ t \in Threads /\ Source(t) = "acq" /\ "acq" \in Rings
      /\ pos \in Nat /\ Slot(pos) \in Slots /\ t \notin Producers
  <2>1. t \in Threads /\ Source(t) = "acq" /\ t \notin Producers
    BY Numbers DEF QueueInv, RingInv
  <2>2. loc[t].pos \in Nat
    BY <2>1 DEF QueueInv, RingInv, TypeInv, Locals
  <2> QED BY <2>1, <2>2, SlotCycle DEF Rings
<1>2. /\ k \in Indices /\ LiesAt(k, pos)
      /\ ring'["acq"].slots[Slot(pos)].idx = NoIdx
      /\ \A u \in Slots : u # Slot(pos) => ring'["acq"].slots[u] = ring["acq"].slots[u]
      /\ ring'["acq"].head = ring["acq"].head
      /\ ring'["acq"].tail = ring["acq"].tail
  BY <1>1, Takes DEF QueueInv, LiesAt
<1>3. /\ UNCHANGED <<calls, made, data>> /\ got' = [got EXCEPT ![t] = Append(@, v)]
      /\ pc[t] = "consume" /\ pc' = [pc EXCEPT ![t] = "draw"]
      /\ loc' = [loc EXCEPT ![t] = [Fresh EXCEPT !.idx = k]]
  BY <1>1 DEF Consume, At, GoTo
<1>4. /\ loc'[t].idx = k /\ pc'[t] = "draw"
      /\ \A u \in Threads : u # t => pc'[u] = pc[u] /\ loc'[u] = loc[u]
  BY <1>1, <1>3 DEF Fresh, QueueInv, RingInv, TypeInv
<1>5. k # NoIdx /\ \A u \in Slots : ring["acq"].slots[u].idx = k => u = Slot(pos)
  BY <1>1, <1>2, Sizes DEF QueueInv, RingInv, OnceInv, LiesAt
<1>6. ASSUME NEW i \in Indices, NEW p \in Nat
      PROVE  LiesAt(i, p)' <=> LiesAt(i, p) /\ i # k
  <2>1. Slot(p) \in Slots /\ i # NoIdx
    BY SlotCycle, Sizes
  <2> QED BY <1>2, <1>5, <2>1 DEF LiesAt
<1>7. ASSUME NEW i \in Indices
      PROVE  /\ i # k => InRing("acq", i)' = InRing("acq", i)
             /\ i = k => InRing("acq", i)' = {} /\ InRing("acq", i) # {}
  <2>1. i # NoIdx
    BY Sizes
  <2>2. \A u \in Slots : u # Slot(pos) => ring'["acq"].slots[u].idx = ring["acq"].slots[u].idx
    BY <1>2
  <2>3. ring["acq"].slots[Slot(pos)].idx = k
    BY <1>2 DEF LiesAt
  <2>4. i # k => InRing("acq", i)' = InRing("acq", i)
    BY <1>1, <1>2, <2>1, <2>2, <2>3 DEF InRing, Slots
  <2>5. i = k => InRing("acq", i)' = {}
    BY <1>2, <1>5, <2>2 DEF InRing, Slots
  <2>6. i = k => InRing("acq", i) # {}
    BY <1>1, <2>3 DEF InRing, Slots
  <2> QED BY <2>4, <2>5, <2>6
<1>8. v \in Producers \X Nat /\ v[1] \in Producers /\ v[2] \in Nat
      /\ v[2] <= made[v[1]]
  <2>1. v \in Producers \X Nat /\ v[2] <= made[v[1]]
    BY <1>1, <1>2 DEF QueueInv, CallInv
  <2> QED BY <2>1
<1>9. \A n \in DOMAIN got[t] : got[t][n][1] = v[1] => got[t][n][2] < v[2]
  <2>1. Reach(t) = pos
    BY <1>3 DEF Reach, Drawn
  <2> QED BY <1>1, <1>2, <2>1 DEF QueueInv, OrderInv
<1>10. ASSUME NEW i \in Indices, i # k, InRing("acq", i) # {}
       PROVE  data[i] # v
  <2>1. PICK p \in Nat : LiesAt(i, p)
    BY <1>10, Lying DEF QueueInv
  <2>2. p # pos
    BY <1>2, <1>10, <2>1 DEF LiesAt
  <2>3. data[i] \in Producers \X Nat /\ data[i][2] \in Nat
    BY <2>1 DEF QueueInv, CallInv
  <2>4. data[i][1] = v[1] => data[i][2] < v[2] \/ v[2] < data[i][2]
    <3>1. p < pos \/ pos < p
      BY <1>1, <2>2
    <3> QED BY <1>1, <1>2, <2>1, <3>1 DEF QueueInv, OrderInv
  <2> QED BY <1>8, <2>3, <2>4
<1>11. v \in Queued /\ Queued' = Queued \ {v}
  <2>1. v \in Queued
    BY <1>2, <1>7 DEF Queued
  <2>2. Queued' = {data[i] : i \in {j \in Indices : InRing("acq", j)' # {}}}
    BY <1>3 DEF Queued
  <2>3. \A i \in Indices : InRing("acq", i)' # {} <=> InRing("acq", i) # {} /\ i # k
    BY <1>7
  <2>4. ASSUME NEW x PROVE x \in Queued' <=> x \in Queued /\ x # v
    <3>1. x \in Queued' <=> \E i \in Indices : InRing("acq", i)' # {} /\ x = data[i]
      BY <2>2
    <3>2. x \in Queued <=> \E i \in Indices : InRing("acq", i) # {} /\ x = data[i]
      BY DEF Queued
    <3> QED BY <1>10, <2>3, <3>1, <3>2
  <2> QED BY <2>1, <2>4
<1>12. /\ \A c \in Consumers : c # t => got'[c] = got[c]
       /\ got'[t] = Append(got[t], v)
       /\ got[t] \in Seq(Values)
  BY <1>3 DEF QueueInv, RingInv, TypeInv
<1>13. \A n \in DOMAIN got'[t] : \/ n \in DOMAIN got[t] /\ got'[t][n] = got[t][n]
                                \/ got'[t][n] = v
  <2> HIDE DEF v
  <2> QED BY <1>12
<1> HIDE DEF v
<1>14. CallInv'
  <2>1. ASSUME NEW c \in Consumers, NEW n \in DOMAIN got'[c]
        PROVE  got'[c][n] \in Producers \X Nat /\ got'[c][n][2] <= made[got'[c][n][1]]
    BY <1>8, <1>12, <1>13, ZenonT(60) DEF QueueInv, CallInv
  <2>2. \A p \in Producers : pc'[p] = pc[p] /\ loc'[p] = loc[p]
    BY <1>1, <1>4, Numbers DEF QueueInv, RingInv
  <2> QED BY <1>3, <1>6, <2>1, <2>2 DEF QueueInv, CallInv
<1>15. OrderInv'
  <2>1. \A u \in Producers : pc'[u] = pc[u] /\ loc'[u] = loc[u]
    BY <1>1, <1>4, Numbers DEF QueueInv, RingInv
  <2>2. ASSUME NEW c \in Consumers, NEW i \in Indices, NEW p \in Nat,
               LiesAt(i, p), i # k, p >= Reach(c)', NEW n \in DOMAIN got'[c],
               got'[c][n][1] = data[i][1]
        PROVE  got'[c][n][2] < data[i][2]
    <3>1. c \in Threads
      BY Numbers DEF QueueInv, RingInv
    <3>2. CASE c # t
      <4>1. Reach(c)' = Reach(c)
        BY <1>2, <1>4, <3>1, <3>2 DEF Reach
      <4> QED BY <1>12, <2>2, <3>2, <4>1 DEF QueueInv, OrderInv
    <3>3. CASE c = t
      <4>1. Reach(t)' = ring["acq"].head /\ Reach(t) = pos
        BY <1>2, <1>3, <1>4 DEF Reach, Drawn
      <4>2. pos < ring["acq"].head /\ ring["acq"].head \in Nat
        <5>1. ring["acq"].head \in Nat
          BY <1>1 DEF QueueInv, RingInv, TypeInv, RingStates
        <5>2. loc[t].pos < ring[Source(t)].head
          BY <1>1, <1>3 DEF QueueInv, RingInv, DrawInv, Drawn
        <5> QED BY <1>1, <5>1, <5>2
      <4>3. p > pos /\ p >= Reach(t)
        BY <1>1, <2>2, <3>3, <4>1, <4>2
      <4>4. CASE n \in DOMAIN got[t] /\ got'[t][n] = got[t][n]
        BY <2>2, <3>3, <4>3, <4>4 DEF QueueInv, OrderInv
      <4>5. CASE got'[t][n] = v
        BY <1>1, <1>2, <2>2, <3>3, <4>3, <4>5 DEF QueueInv, OrderInv, v
      <4> QED BY <1>13, <2>2, <3>3, <4>4, <4>5
    <3> QED BY <3>2, <3>3
  <2>3. \A i, j \in Indices, p, q \in Nat :
          LiesAt(i, p)' /\ LiesAt(j, q)' /\ p < q /\ data'[i][1] = data'[j][1]
            => data'[i][2] < data'[j][2]
    BY <1>3, <1>6 DEF QueueInv, OrderInv
  <2>4. \A u \in Producers, i \in Indices, p \in Nat :
          pc'[u] \in Filling /\ LiesAt(i, p)' /\ data'[i][1] = u => p < loc'[u].pos
    BY <1>3, <1>6, <2>1 DEF QueueInv, OrderInv
  <2>5. \A c \in Consumers, i \in Indices, p \in Nat :
          LiesAt(i, p)' /\ p >= Reach(c)'
            => \A n \in DOMAIN got'[c] :
                 got'[c][n][1] = data'[i][1] => got'[c][n][2] < data'[i][2]
    BY <1>3, <1>6, <2>2
  <2> QED BY <2>3, <2>4, <2>5 DEF OrderInv
<1>16. got' = [got EXCEPT ![t] = Append(got[t], v)]
  BY <1>3 DEF v
<1>17. \A n \in DOMAIN got[t] : got[t][n][1] = v[1] => got[t][n][2] < v[2]
  BY <1>9 DEF v
<1>18. v \in Queued /\ Queued' = Queued \ {v}
  BY <1>11 DEF v
<1> QED BY <1>3, <1>14, <1>15, <1>16, <1>17, <1>18

\* A consumer puts the index back into free.
LEMMA ConsumerPuts ==
  ASSUME QueueInv, TypeInv', NEW t \in Consumers, PutEntry(t), ring' # ring
  PROVE  Inward(t)
<1>1. /\ t \in Threads /\ Target(t) = "free" /\ t \notin Producers
      /\ "acq" \in Rings /\ ring["acq"].head \in Nat
  <2>1. t \in Threads /\ Target(t) = "free" /\ t \notin Producers
    BY Numbers DEF QueueInv, RingInv
  <2> QED BY <2>1 DEF Rings, QueueInv, RingInv, TypeInv, RingStates
<1>2. /\ loc' = [loc EXCEPT ![t] = Fresh] /\ pc'[t] = "threshold" /\ made' = made
      /\ \A v \in Slots : ring'["acq"].slots[v] = ring["acq"].slots[v]
      /\ ring'["acq"].head = ring["acq"].head
      /\ pc[t] = "put"
  BY <1>1, Puts DEF QueueInv
<1>3. UNCHANGED <<data, got, calls>>
  BY DEF PutEntry
<1>4. \A u \in Threads : u # t => pc'[u] = pc[u] /\ loc'[u] = loc[u]
  BY <1>1, <1>2 DEF PutEntry, GoTo, QueueInv, RingInv, TypeInv
<1>5. loc'[t].idx = NoIdx
  BY <1>1, <1>2 DEF Fresh, QueueInv, RingInv, TypeInv
<1> QED BY <1>1, <1>2, <1>3, <1>4, <1>5 DEF Inward, Drawn, Outside

\* A producer puts its index into acq, behind every value of its own.
LEMMA ProducerPuts ==
  ASSUME QueueInv, TypeInv', RingInv', NEW t \in Producers, PutEntry(t), ring' # ring
  PROVE  /\ CallInv' /\ OrderInv' /\ UNCHANGED got
         /\ calls[t] \in 1 .. MaxCalls[t] /\ calls[t] > made[t]
         /\ made' = [made EXCEPT ![t] = calls[t]]
         /\ Queued' = Queued \cup {<<t, calls[t]>>}
<1>1. /\ t \in Threads /\ Target(t) = "acq" /\ "acq" \in Rings
      /\ made[t] \in Nat /\ calls[t] \in Nat /\ MaxCalls[t] \in Nat
  BY Numbers DEF QueueInv, RingInv, Rings
<1>2. PICK k \in Indices : k = loc[t].idx
  <2>1. loc[t].idx \in Indices
    BY <1>1, Puts DEF QueueInv
  <2> QED BY <2>1
<1>3. PICK pos \in Nat : pos = loc[t].pos
  BY <1>1 DEF QueueInv, RingInv, TypeInv, Locals
<1>4. /\ pc[t] = "put" /\ pc'[t] = "threshold"
      /\ loc' = [loc EXCEPT ![t] = Fresh]
      /\ made' = [made EXCEPT ![t] = calls[t]]
      /\ ring["acq"].slots[Slot(pos)].idx = NoIdx
      /\ ring'["acq"].slots[Slot(pos)].idx = k
      /\ ring'["acq"].slots[Slot(pos)].cyc = Cycle(pos)
      /\ \A v \in Slots : v # Slot(pos) => ring'["acq"].slots[v] = ring["acq"].slots[v]
      /\ ring'["acq"].head = ring["acq"].head
      /\ ring'["acq"].tail = ring["acq"].tail
  BY <1>1, <1>2, <1>3, Puts DEF QueueInv
<1>5. UNCHANGED <<data, got, calls>>
  BY DEF PutEntry
<1>6. /\ \A u \in Threads : u # t => pc'[u] = pc[u] /\ loc'[u] = loc[u]
      /\ loc'[t].idx = NoIdx
  <2>1. Fresh.idx = NoIdx
    BY DEF Fresh
  <2> QED BY <1>1, <1>4, <2>1 DEF PutEntry, GoTo, QueueInv, RingInv, TypeInv
<1>7. /\ made'[t] = calls[t]
      /\ \A p \in Producers : p # t => made'[p] = made[p]
  BY <1>4 DEF QueueInv, RingInv, TypeInv
<1>8. /\ made[t] < calls[t] /\ calls[t] <= MaxCalls[t] /\ data[k] = <<t, calls[t]>>
  <2>1. k # NoIdx
    BY Sizes
  <2> QED BY <1>2, <1>4, <2>1 DEF QueueInv, CallInv
<1>9. \A v \in Slots : ring["acq"].slots[v].idx # k
  BY <1>1, <1>2, Sizes DEF QueueInv, RingInv, OnceInv
<1>10. ASSUME NEW i \in Indices, NEW p \in Nat
       PROVE  LiesAt(i, p)' <=> LiesAt(i, p) \/ (i = k /\ p = pos)
  <2>1. Slot(p) \in Slots /\ Slot(pos) \in Slots /\ i # NoIdx
    BY SlotCycle, Sizes
  <2>2. CASE Slot(p) = Slot(pos)
    <3>1. p = pos <=> Cycle(p) = Cycle(pos)
      BY <2>2, InSlot
    <3> QED BY <1>4, <2>1, <2>2, <3>1 DEF LiesAt
  <2>3. CASE Slot(p) # Slot(pos)
    BY <1>4, <2>1, <2>3 DEF LiesAt
  <2> QED BY <2>2, <2>3
<1>11. \A p \in Nat : ~LiesAt(k, p)
  BY <1>9, SlotCycle DEF LiesAt
<1>12. ASSUME NEW i \in Indices
       PROVE  InRing("acq", i)' # {} <=> InRing("acq", i) # {} \/ i = k
  <2>1. i # NoIdx /\ Slot(pos) \in Slots
    BY Sizes, SlotCycle
  <2>2. InRing("acq", i)' # {} <=> \E v \in Slots : ring'["acq"].slots[v].idx = i
    BY DEF InRing, Slots
  <2>3. InRing("acq", i) # {} <=> \E v \in Slots : ring["acq"].slots[v].idx = i
    BY DEF InRing, Slots
  <2> QED BY <1>4, <2>1, <2>2, <2>3
<1>13. Queued' = Queued \cup {<<t, calls[t]>>}
  <2>1. Queued' = {data[i] : i \in {j \in Indices : InRing("acq", j)' # {}}}
    BY <1>5 DEF Queued
  <2>2. ASSUME NEW x PROVE x \in Queued' <=> x \in Queued \/ x = data[k]
    <3>1. x \in Queued' <=> \E i \in Indices : InRing("acq", i)' # {} /\ x = data[i]
      BY <2>1
    <3>2. x \in Queued <=> \E i \in Indices : InRing("acq", i) # {} /\ x = data[i]
      BY DEF Queued
    <3> QED BY <1>12, <3>1, <3>2
  <2> QED BY <1>8, <2>2
<1>14. ASSUME NEW p \in Producers, NEW n \in Nat, n <= made[p]
       PROVE  n <= made'[p] /\ (p = t => n < calls[t])
  BY <1>1, <1>7, <1>8, <1>14
<1>15. CallInv'
  <2>1. ASSUME NEW p \in Producers
        PROVE  /\ made'[p] <= calls'[p] /\ calls'[p] <= MaxCalls[p]
               /\ pc'[p] \notin {"idle", "threshold", "warm"} => made'[p] < calls'[p]
               /\ loc'[p].idx # NoIdx => data'[loc'[p].idx] = <<p, calls'[p]>>
    <3>1. p \in Threads
      BY Numbers DEF QueueInv, RingInv
    <3>2. CASE p = t
      BY <1>1, <1>4, <1>5, <1>6, <1>7, <1>8, <3>2
    <3>3. CASE p # t
      BY <1>5, <1>6, <1>7, <3>1, <3>3 DEF QueueInv, CallInv
    <3> QED BY <3>2, <3>3
  <2>2. ASSUME NEW i \in Indices, NEW p \in Nat, LiesAt(i, p)'
        PROVE  data[i] \in Producers \X Nat /\ data[i][2] <= made'[data[i][1]]
    <3>1. CASE i = k
      BY <1>1, <1>7, <1>8, <3>1
    <3>2. CASE LiesAt(i, p)
      <4>1. data[i] \in Producers \X Nat /\ data[i][2] <= made[data[i][1]]
        BY <3>2 DEF QueueInv, CallInv
      <4> QED BY <1>14, <4>1
    <3> QED BY <1>10, <2>2, <3>1, <3>2
  <2>3. ASSUME NEW c \in Consumers, NEW n \in DOMAIN got[c]
        PROVE  got[c][n] \in Producers \X Nat /\ got[c][n][2] <= made'[got[c][n][1]]
    <3>1. got[c][n] \in Producers \X Nat /\ got[c][n][2] <= made[got[c][n][1]]
      BY DEF QueueInv, CallInv
    <3> QED BY <1>14, <3>1
  <2> QED BY <1>5, <2>1, <2>2, <2>3 DEF CallInv
<1>16. OrderInv'
  <2>1. ASSUME NEW i \in Indices, NEW p \in Nat, LiesAt(i, p), data[i][1] = t
        PROVE  p < pos /\ data[i][2] < data[k][2]
    <3>1. p < pos
      BY <1>3, <1>4, <2>1 DEF QueueInv, OrderInv, Filling
    <3>2. data[i] \in Producers \X Nat /\ data[i][2] <= made[t]
      BY <2>1 DEF QueueInv, CallInv
    <3> QED BY <1>1, <1>8, <3>1, <3>2
  <2>2. data[k][1] = t /\ data[k][2] = calls[t]
    BY <1>8
  <2>3. ASSUME NEW i \in Indices, NEW j \in Indices, NEW p \in Nat, NEW q \in Nat,
               LiesAt(i, p)', LiesAt(j, q)', p < q, data[i][1] = data[j][1]
        PROVE  data[i][2] < data[j][2]
    <3>1. CASE LiesAt(i, p) /\ LiesAt(j, q)
      BY <2>3, <3>1 DEF QueueInv, OrderInv
    <3>2. CASE LiesAt(i, p) /\ j = k /\ q = pos
      BY <2>1, <2>2, <2>3, <3>2
    <3>3. CASE i = k /\ p = pos /\ LiesAt(j, q)
      BY <2>1, <2>2, <2>3, <3>3
    <3>4. CASE p = pos /\ q = pos
      BY <2>3, <3>4
    <3> QED BY <1>10, <2>3, <3>1, <3>2, <3>3, <3>4
  <2>4. ASSUME NEW u \in Producers, NEW i \in Indices, NEW p \in Nat,
               pc'[u] \in Filling, LiesAt(i, p)', data[i][1] = u
        PROVE  p < loc'[u].pos
    <3>1. u \in Threads /\ u # t
      BY <1>4, <2>4, Numbers DEF QueueInv, RingInv, Filling
    <3>2. i # k
      BY <2>2, <2>4, <3>1
    <3>3. pc[u] \in Filling /\ loc'[u].pos = loc[u].pos /\ LiesAt(i, p)
      BY <1>6, <1>10, <2>4, <3>1, <3>2
    <3> QED BY <2>4, <3>3 DEF QueueInv, OrderInv
  <2>5. ASSUME NEW c \in Consumers, NEW i \in Indices, NEW p \in Nat,
               LiesAt(i, p)', p >= Reach(c)', NEW n \in DOMAIN got[c],
               got[c][n][1] = data[i][1]
        PROVE  got[c][n][2] < data[i][2]
    <3>1. c \in Threads /\ c # t
      BY Numbers DEF QueueInv, RingInv
    <3>2. Reach(c)' = Reach(c)
      BY <1>4, <1>6, <3>1 DEF Reach
    <3>3. CASE i = k
      <4>1. got[c][n] \in Producers \X Nat /\ got[c][n][2] <= made[got[c][n][1]]
        BY DEF QueueInv, CallInv
      <4> QED BY <1>1, <1>8, <2>2, <2>5, <3>3, <4>1
    <3>4. CASE LiesAt(i, p)
      BY <2>5, <3>2, <3>4 DEF QueueInv, OrderInv
    <3> QED BY <1>10, <2>5, <3>3, <3>4
  <2> QED BY <1>5, <2>3, <2>4, <2>5 DEF OrderInv
<1> QED BY <1>1, <1>4, <1>5, <1>8, <1>13, <1>15, <1>16

-----------------------------------------------------------------------------
(***************************************************************************)
(* LfRing implements LfContract                                            *)
(***************************************************************************)
LEMMA QueueInit == Init => QueueInv /\ Contract!Init
<1> SUFFICES ASSUME Init PROVE QueueInv /\ Contract!Init
  OBVIOUS
<1>1. RingInv
  BY RingInit
<1>2. \A s \in Slots : ring["acq"].slots[s].idx = NoIdx
  BY DEF Init, InitEmpty, Entry, Rings, Slots
<1>3. \A i \in Indices : InRing("acq", i) = {} /\ \A p \in Nat : ~LiesAt(i, p)
  BY <1>2, Sizes, SlotCycle DEF InRing, LiesAt, Slots
<1>4. /\ \A p \in Producers : /\ made[p] = 0 /\ calls[p] = 0 /\ MaxCalls[p] \in Nat
                              /\ pc[p] = "idle" /\ loc[p].idx = NoIdx
      /\ \A c \in Consumers : DOMAIN got[c] = {}
  BY RingAssumption DEF Init, Fresh, Threads
<1>5. CallInv
  BY <1>3, <1>4 DEF CallInv
<1>6. OrderInv
  BY <1>3, <1>4 DEF OrderInv, Filling
<1>7. Contract!Init
  BY <1>3 DEF Init, Contract!Init
<1> QED BY <1>1, <1>5, <1>6, <1>7 DEF QueueInv

\* Every step is one of LfContract, or none.
LEMMA QueueStep ==
  ASSUME QueueInv, [Next]_vars
  PROVE  QueueInv' /\ [Contract!Next]_<<Queued, made, got>>
<1>1. TypeInv' /\ RingInv'
  BY RingStep DEF QueueInv, RingInv
<1>2. CASE UNCHANGED vars
  <2>1. UNCHANGED <<ring, data, pc, loc, calls, made, got>>
    BY <1>2 DEF vars
  <2>2. CallInv' /\ OrderInv'
    BY <2>1 DEF QueueInv, CallInv, OrderInv, LiesAt, Reach
  <2>3. Queued' = Queued
    BY <2>1 DEF Queued, InRing
  <2> QED BY <1>1, <2>1, <2>2, <2>3 DEF QueueInv
<1>3. ASSUME NEW t \in Threads, Inward(t)
      PROVE  QueueInv' /\ [Contract!Next]_<<Queued, made, got>>
  <2>1. CallInv' /\ OrderInv'
    BY <1>1, <1>3, InwardKeeps
  <2>2. \A i \in Indices : InRing("acq", i)' = InRing("acq", i)
    BY <1>3, LiesSame DEF QueueInv, RingInv
  <2>3. UNCHANGED <<data, made, got>>
    BY <1>3 DEF Inward
  <2>4. Queued' = Queued
    BY <2>2, <2>3 DEF Queued
  <2> QED BY <1>1, <2>1, <2>3, <2>4 DEF QueueInv
<1>4. ASSUME NEW t \in Threads, Thread(t)
      PROVE  QueueInv' /\ [Contract!Next]_<<Queued, made, got>>
  <2>1. CASE Consume(t) /\ t \in Producers
    BY <1>1, <2>1, ProducerTakes DEF QueueInv
  <2>2. CASE Consume(t) /\ t \in Consumers
    <3>1. /\ CallInv' /\ OrderInv' /\ UNCHANGED made
          /\ \E v \in Queued :
               /\ \A n \in DOMAIN got[t] : got[t][n][1] = v[1] => got[t][n][2] < v[2]
               /\ got' = [got EXCEPT ![t] = Append(@, v)]
               /\ Queued' = Queued \ {v}
      BY <1>1, <2>2, ConsumerTakes
    <3>2. Contract!Take(t)
      BY <3>1 DEF Contract!Take, Queued
    <3> QED BY <1>1, <2>2, <3>1, <3>2 DEF QueueInv, Contract!Next
  <2>3. CASE PutEntry(t) /\ ring' # ring /\ t \in Producers
    <3>1. /\ CallInv' /\ OrderInv' /\ UNCHANGED got
          /\ calls[t] \in 1 .. MaxCalls[t] /\ calls[t] > made[t]
          /\ made' = [made EXCEPT ![t] = calls[t]]
          /\ Queued' = Queued \cup {<<t, calls[t]>>}
      BY <1>1, <2>3, ProducerPuts
    <3>2. calls[t] \in UNION {1 .. MaxCalls[p] : p \in Producers}
      BY <2>3, <3>1
    <3>3. Contract!Put(t)
      BY <3>1, <3>2 DEF Contract!Put, Queued
    <3> QED BY <1>1, <2>3, <3>1, <3>3 DEF QueueInv, Contract!Next
  <2>4. CASE PutEntry(t) /\ ring' # ring /\ t \in Consumers
    BY <1>1, <1>3, <2>4, ConsumerPuts
  <2>5. CASE ~Consume(t) /\ ~(PutEntry(t) /\ ring' # ring)
    BY <1>1, <1>3, <1>4, <2>5, InwardSteps DEF QueueInv
  <2> QED BY <2>1, <2>2, <2>3, <2>4, <2>5 DEF Threads
<1> QED BY <1>2, <1>4 DEF Next

\* DeliversOnceInOrder: whatever the threads interleave, dequeue hands out
\* every value of enqueue at most once and a producer's values in order.
THEOREM QueueDelivers == Spec => DeliversOnceInOrder
<1>1. Init => QueueInv /\ Contract!Init
  BY QueueInit
<1>2. QueueInv /\ [Next]_vars =>
        QueueInv' /\ [Contract!Next]_<<Queued, made, got>>
  BY QueueStep
<1> QED BY <1>1, <1>2, PTL DEF Spec, DeliversOnceInOrder, Contract!Spec, Queued
=============================================================================
