---------------------------- MODULE EventLoopSafety ----------------------------
(***************************************************************************)
(* The counters of namespace buffio::fiber agree with the queues they      *)
(* speak of: what the loop concludes from queuedCompleted and pendingReq   *)
(* is true, for any number of workers, tasks and files and any queue size. *)
(* And no task is doubled or lost on its way through them.                 *)
(***************************************************************************)
EXTENDS EventLoopProofs, SequenceTheorems

-----------------------------------------------------------------------------
(***************************************************************************)
(* queuedCompleted.  A worker publishes a completion before it counts it,  *)
(* and the loop subtracts what it took after it took it, so the counter    *)
(* and the queue differ by the workers in between and by what the loop has *)
(* popped already.  The loop's local value never exceeds the counter.      *)
(***************************************************************************)
Popped == IF lpc = "pop" THEN loc.value - loc.left ELSE 0

CountInv ==
  /\ lpc # "crashed"
  /\ consume.items # << >> => consume.hot = TRUE
  /\ fiber.queuedCompleted \in Nat
  /\ fiber.queuedCompleted + Count(wpc, {"count"}) = Len(consume.items) + Popped
  /\ lpc = "drain" => 0 < loc.value /\ loc.value <= fiber.queuedCompleted
  /\ lpc = "pop" => /\ 0 <= loc.left /\ loc.left <= loc.value
                    /\ loc.value <= fiber.queuedCompleted

\* CountInv holds before run() starts.
LEMMA InitCountInv == Init => CountInv
<1> SUFFICES ASSUME Init PROVE CountInv
  OBVIOUS
<1>1. Inside(wpc, {"count"}) = {}
  BY DEF Inside, Init, BrokerInit
<1>2. Count(wpc, {"count"}) = 0
  BY <1>1, CountNat
<1> QED
  BY <1>2 DEF Init, BrokerInit, CountInv, Popped, LfStart, FiberStart

\* The types CountInv speaks of, from the type invariant.
LEMMA CountTypes ==
  ASSUME TypeInv
  PROVE  /\ BrokerTypeOK /\ fiber \in Fiber /\ consume \in LfQueue
         /\ fiber.queuedCompleted \in Int
         /\ Len(consume.items) \in Nat
         /\ Popped \in Int
<1>1. BrokerTypeOK /\ fiber \in Fiber /\ consume \in LfQueue /\ loc \in Locals
  BY DEF TypeInv, TypeOK, BrokerTypeOK
<1>2. fiber.queuedCompleted \in Int
  BY <1>1 DEF Fiber
<1>3. consume.items \in Seq(Headers)
  BY <1>1 DEF LfQueue
<1>4. loc.value \in Int /\ loc.left \in Int
  BY <1>1 DEF Locals
<1> QED
  BY <1>1, <1>2, <1>3, <1>4 DEF Popped

\* A step of a worker keeps queuedCompleted in agreement with the queue.
LEMMA WorkerCountInv ==
  ASSUME TypeInv, CountInv, NEW w \in Workers, Worker(w), UNCHANGED loopVars
  PROVE  CountInv'
<1> DEFINE C == Count(wpc, {"count"})
<1>1. /\ BrokerTypeOK /\ fiber.queuedCompleted \in Int /\ C \in Nat
      /\ Len(consume.items) \in Nat /\ Popped \in Int
      /\ fiber \in Fiber /\ consume \in LfQueue
  BY CountNat, CountTypes
<1>2. lpc' = lpc /\ loc' = loc /\ Popped' = Popped
  BY DEF loopVars, Popped
<1>3. ASSUME NEW to, GoTo(w, to), to # "count", ~At(w, "count"),
             consume'.items = consume.items, consume'.hot = consume.hot,
             fiber'.queuedCompleted = fiber.queuedCompleted
      PROVE  CountInv'
  <2>1. C' = C
    BY <1>1, <1>3, CountStep DEF At, Bit
  <2> QED BY <1>2, <1>3, <2>1 DEF CountInv
<1>4. CASE Enter(w) \/ Doze(w) \/ Woken(w) \/ Settle(w) \/ Leave(w)
  <2>1. fiber'.queuedCompleted = fiber.queuedCompleted
    BY <1>1, <1>4 DEF Enter, Doze, Woken, Settle, Leave, FetchAdd, Fiber
  <2>2. consume' = consume /\ ~At(w, "count")
    BY <1>4 DEF Enter, Doze, Woken, Settle, Leave, FetchAdd, At
  <2>3. \E to \in {"loop", "wait", "recheck", "gone"} : GoTo(w, to)
    BY <1>4 DEF Enter, Doze, Woken, Settle, Leave, FetchAdd
  <2> QED BY <1>3, <2>1, <2>2, <2>3
<1>5. CASE CheckAbort(w) \/ CheckWork(w) \/ RecheckAbort(w) \/ CheckSignal(w)
  <2>1. fiber' = fiber /\ consume' = consume /\ ~At(w, "count")
    BY <1>5 DEF CheckAbort, CheckWork, RecheckAbort, CheckSignal, Load, At
  <2>2. \E to \in WorkerPc \ {"count"} : GoTo(w, to)
    BY <1>5 DEF CheckAbort, CheckWork, RecheckAbort, CheckSignal, Load, WorkerPc
  <2> QED BY <1>3, <2>1, <2>2
<1>6. CASE SemWait(w) \/ DequeueWork(w) \/ DequeueNothing(w) \/ ChillWorks(w)
           \/ RunAction(w) \/ PublishFull(w) \/ SendEv(w)
  <2>1. fiber' = fiber /\ consume' = consume /\ ~At(w, "count")
    BY <1>6 DEF SemWait, DequeueWork, DequeueNothing, ChillWorks, RunAction,
                PublishFull, SendEv, At
  <2>2. \E to \in WorkerPc \ {"count"} : GoTo(w, to)
    BY <1>6 DEF SemWait, DequeueWork, DequeueNothing, ChillWorks, RunAction,
                PublishFull, SendEv, WorkerPc
  <2> QED BY <1>3, <2>1, <2>2
<1>7. CASE ChokeConsume(w)
  <2>1. consume'.items = consume.items /\ consume'.hot = consume.hot
    BY <1>1, <1>7 DEF ChokeConsume, Choke, LfQueue
  <2>2. fiber' = fiber /\ ~At(w, "count") /\ GoTo(w, "publish")
    BY <1>7 DEF ChokeConsume, At
  <2> QED BY <1>3, <2>1, <2>2
<1>8. CASE Publish(w)
  <2>1. /\ At(w, "publish") /\ GoTo(w, "count") /\ CanPut(consume)
        /\ consume' = Put(consume, whdr[w]) /\ fiber' = fiber
    BY <1>8 DEF Publish
  <2>2. whdr[w] \in Headers
    BY <2>1 DEF TypeInv, Carried, Holding, Waited, At
  <2>3. Len(consume'.items) = Len(consume.items) + 1 /\ consume'.hot = TRUE
    BY <1>1, <2>1, <2>2, PutType
  <2>4. C' = C + 1
    BY <1>1, <2>1, CountStep DEF At, Bit
  <2>5. /\ fiber.queuedCompleted \in Nat
        /\ fiber.queuedCompleted + C = Len(consume.items) + Popped
    BY DEF CountInv
  <2>6. Popped' = Popped
    BY <1>2
  <2>7. fiber'.queuedCompleted = fiber.queuedCompleted
    BY <2>1
  <2>8. /\ C \in Nat /\ Len(consume.items) \in Nat /\ Popped \in Int
    BY <1>1
  <2> HIDE DEF C
  <2>9. fiber'.queuedCompleted + C' = Len(consume'.items) + Popped'
    BY ONLY <2>3, <2>4, <2>5, <2>6, <2>7, <2>8
  <2> QED BY <1>2, <2>1, <2>3, <2>9 DEF CountInv, C
<1>9. CASE CountCompleted(w)
  <2>1. At(w, "count") /\ GoTo(w, "signal") /\ consume' = consume
    BY <1>9 DEF CountCompleted, FetchAdd
  <2>2. fiber'.queuedCompleted = fiber.queuedCompleted + 1
    BY <1>1, <1>9 DEF CountCompleted, FetchAdd, Fiber
  <2>3. C' = C - 1
    BY <1>1, <2>1, CountStep DEF At, Bit
  <2>4. loc.value \in Int /\ loc.left \in Int
    BY DEF TypeInv, TypeOK, Locals
  <2>5. fiber.queuedCompleted \in Nat
        /\ fiber.queuedCompleted + C = Len(consume.items) + Popped
    BY DEF CountInv
  <2>6. fiber'.queuedCompleted + (C - 1) = Len(consume.items) + Popped
    <3> HIDE DEF C
    <3> QED BY <1>1, <2>2, <2>5
  <2>7. fiber'.queuedCompleted + C' = Len(consume'.items) + Popped'
    BY <1>2, <2>1, <2>3, <2>6
  <2>8. /\ lpc' # "crashed"
        /\ consume'.items # << >> => consume'.hot = TRUE
        /\ fiber'.queuedCompleted \in Nat
    BY <1>2, <2>1, <2>2, <2>5 DEF CountInv
  <2>9. lpc' = "drain" => 0 < loc'.value /\ loc'.value <= fiber'.queuedCompleted
    BY <1>2, <2>2, <2>4, <2>5 DEF CountInv
  <2>11. lpc' = "pop" => /\ 0 <= loc'.left /\ loc'.left <= loc'.value
                         /\ loc'.value <= fiber'.queuedCompleted
    BY <1>2, <2>2, <2>4, <2>5 DEF CountInv
  <2> QED BY <2>7, <2>8, <2>9, <2>11 DEF CountInv
<1> QED
  BY <1>4, <1>5, <1>6, <1>7, <1>8, <1>9 DEF Worker

\* A pop finds a completion as long as the loop has not taken all it announced.
LEMMA PopReady ==
  ASSUME TypeInv, CountInv, lpc = "pop", loc.left > 0
  PROVE  CanTake(consume)
<1> DEFINE C == Count(wpc, {"count"})
<1>1. C \in Nat /\ Len(consume.items) \in Nat /\ consume.items \in Seq(Headers)
  BY CountNat DEF TypeInv, TypeOK, BrokerTypeOK, LfQueue
<1>2. loc.left \in Int /\ loc.value \in Int /\ fiber.queuedCompleted \in Nat
  BY DEF TypeInv, TypeOK, Locals, CountInv
<1>3. fiber.queuedCompleted + C = Len(consume.items) + (loc.value - loc.left)
  BY DEF CountInv, Popped
<1>4. loc.value <= fiber.queuedCompleted
  BY DEF CountInv
<1>5. Len(consume.items) # 0
  <2> HIDE DEF C
  <2> QED BY <1>1, <1>2, <1>3, <1>4
<1>6. consume.items # << >>
  BY <1>1, <1>5
<1> QED
  BY <1>6 DEF CanTake, CountInv

\* A step of the loop keeps queuedCompleted in agreement with the queue.
LEMMA LoopCountInv ==
  ASSUME TypeInv, CountInv, Loop \/ PollInterrupted \/ Tick
  PROVE  CountInv'
<1> DEFINE C == Count(wpc, {"count"})
<1>1. /\ C \in Nat /\ Len(consume.items) \in Nat /\ DequeueMax \in Nat \ {0}
      /\ consume.items \in Seq(Headers)
      /\ consume \in LfQueue /\ fiber \in Fiber /\ loc \in Locals
      /\ loc.left \in Int /\ loc.value \in Int /\ fiber.queuedCompleted \in Nat
  BY CountNat, LoopAssumption
     DEF TypeInv, TypeOK, BrokerTypeOK, LfQueue, Locals, CountInv
<1>2. ASSUME lpc \notin {"drain", "pop"}, lpc' \notin {"drain", "pop", "crashed"},
             consume' = consume, wpc' = wpc,
             fiber'.queuedCompleted = fiber.queuedCompleted
      PROVE  CountInv'
  BY <1>2 DEF CountInv, Popped
<1> USE DEF Step, KeepBroker, brokerVars
<1>3. CASE RunStart \/ ReadCompleted \/ PollEvent \/ PollTimeout
           \/ PollInterrupted \/ YieldDone \/ ReadClock \/ PushExpired
           \/ ExpireDone \/ CleanQueue \/ LoadWorkers \/ PingWorkers
           \/ AwaitWorkers \/ PushRequest \/ PushRefused \/ ChokeWorks \/ Ping
  <2>1. consume' = consume /\ wpc' = wpc /\ fiber' = fiber
    BY <1>3 DEF RunStart, ReadCompleted, PollEvent, PollTimeout,
         PollInterrupted, YieldDone, ReadClock, PushExpired, ExpireDone,
         CleanQueue, LoadWorkers, PingWorkers, AwaitWorkers, PushRequest,
         PushRefused, ChokeWorks, Ping
  <2>2. lpc \notin {"drain", "pop"} /\ lpc' \notin {"drain", "pop", "crashed"}
    BY <1>3 DEF RunStart, ReadCompleted, PollEvent, PollTimeout,
         PollInterrupted, YieldDone, ReadClock, PushExpired, ExpireDone,
         CleanQueue, LoadWorkers, PingWorkers, AwaitWorkers, PushRequest,
         PushRefused, ChokeWorks, Ping
  <2> QED BY <1>2, <2>1, <2>2
<1>4. CASE ReadPending \/ ClearWakedUp \/ MarkWakedUp \/ AddPending \/ StoreAbort
  <2>1. fiber'.queuedCompleted = fiber.queuedCompleted
    BY <1>1, <1>4 DEF ReadPending, ClearWakedUp, MarkWakedUp, AddPending,
         StoreAbort, Fiber
  <2>2. consume' = consume /\ wpc' = wpc
    BY <1>4 DEF ReadPending, ClearWakedUp, MarkWakedUp, AddPending, StoreAbort
  <2>3. lpc \notin {"drain", "pop"} /\ lpc' \notin {"drain", "pop", "crashed"}
    BY <1>4 DEF ReadPending, ClearWakedUp, MarkWakedUp, AddPending, StoreAbort
  <2> QED BY <1>2, <2>1, <2>2, <2>3
<1>5. CASE RunTask
  <2>1. PICK t \in Tasks : Finish(t) \/ Yield(t) \/ Sleep(t) \/ ReadFile(t)
    BY <1>5 DEF RunTask
  <2>2. /\ lpc' = lpc /\ lpc = "yield"
        /\ consume' = consume /\ wpc' = wpc /\ fiber' = fiber
    BY <2>1 DEF Finish, Yield, Sleep, ReadFile, Running
  <2> QED BY <1>2, <2>2
<1>6. CASE ReadQueued
  <2>1. consume' = consume /\ wpc' = wpc /\ fiber' = fiber /\ lpc = "deq"
    BY <1>6 DEF ReadQueued
  <2>2. loc'.value = fiber.queuedCompleted
    BY <1>1, <1>6 DEF ReadQueued, Locals
  <2>3. lpc' = IF fiber.queuedCompleted = 0 THEN "yield" ELSE "drain"
    BY <1>6 DEF ReadQueued
  <2> QED BY <1>1, <2>1, <2>2, <2>3 DEF CountInv, Popped
<1>7. CASE DrainEvfd
  <2>1. /\ consume' = consume /\ wpc' = wpc /\ fiber' = fiber
        /\ lpc = "drain" /\ lpc' = "pop"
    BY <1>7 DEF DrainEvfd
  <2>2. PICK n \in {DequeueMax, loc.value} :
          /\ n <= loc.value /\ 0 < n
          /\ loc' = [loc EXCEPT !.value = n, !.left = n]
    <3>1. 0 < loc.value /\ 0 < DequeueMax
      BY <1>1, <2>1 DEF CountInv
    <3> DEFINE m == IF loc.value > DequeueMax THEN DequeueMax ELSE loc.value
    <3>2. loc' = [loc EXCEPT !.value = m, !.left = m]
      BY <1>7 DEF DrainEvfd
    <3>3. m \in {DequeueMax, loc.value} /\ m <= loc.value /\ 0 < m
      BY <1>1, <3>1
    <3> HIDE DEF m
    <3> QED BY <3>2, <3>3
  <2>3. loc'.value = n /\ loc'.left = n /\ n \in Int
    BY <1>1, <2>2 DEF Locals
  <2>4. Popped' = 0 /\ Popped = 0
    BY <2>1, <2>3 DEF Popped
  <2>5. n <= fiber.queuedCompleted
    BY <1>1, <2>1, <2>2, <2>3 DEF CountInv
  <2> QED BY <1>1, <2>1, <2>2, <2>3, <2>4, <2>5 DEF CountInv
<1>8. CASE PopCompleted
  <2>1. lpc = "pop" /\ loc.left > 0 /\ wpc' = wpc /\ fiber' = fiber
    BY <1>8 DEF PopCompleted
  <2>2. CanTake(consume)
    BY <2>1, PopReady
  <2>3. lpc' = "pop" /\ consume' = Take(consume)
    BY <1>8, <2>2 DEF PopCompleted
  <2>4. loc'.left = loc.left - 1 /\ loc'.value = loc.value
    BY <1>1, <1>8 DEF PopCompleted, Locals
  <2>5. /\ consume'.hot = consume.hot
        /\ Len(consume'.items) = Len(consume.items) - 1
    BY <1>1, <2>2, <2>3, TakeType
  <2>6. consume'.hot = TRUE
    BY <2>2, <2>5 DEF CanTake
  <2>7. Popped' = Popped + 1
    BY <1>1, <2>1, <2>3, <2>4 DEF Popped
  <2>8. C' = C
    BY <2>1
  <2>9. fiber.queuedCompleted + C = Len(consume.items) + Popped
    BY DEF CountInv
  <2>10. Popped \in Int
    BY <1>1 DEF Popped
  <2>11. fiber'.queuedCompleted + C' = Len(consume'.items) + Popped'
    <3>1. fiber.queuedCompleted + C
            = (Len(consume.items) - 1) + (Popped + 1)
      <4>1. \A l, p \in Int : l + p = (l - 1) + (p + 1)
        OBVIOUS
      <4>2. Len(consume.items) \in Int
        BY <1>1
      <4>3. Len(consume.items) + Popped
              = (Len(consume.items) - 1) + (Popped + 1)
        BY <2>10, <4>1, <4>2
      <4> QED BY <2>9, <4>3
    <3> QED BY <2>1, <2>5, <2>7, <2>8, <3>1
  <2>12. /\ 0 <= loc'.left /\ loc'.left <= loc'.value
         /\ loc'.value <= fiber'.queuedCompleted
    BY <1>1, <2>1, <2>4 DEF CountInv
  <2> QED BY <1>1, <2>1, <2>3, <2>6, <2>11, <2>12 DEF CountInv
<1>9. CASE SubtractQueued
  <2>1. /\ lpc = "pop" /\ lpc' = "yield" /\ loc.left = 0
        /\ consume' = consume /\ wpc' = wpc
    BY <1>9 DEF SubtractQueued
  <2>2. fiber'.queuedCompleted = fiber.queuedCompleted - loc.value
    BY <1>1, <1>9 DEF SubtractQueued, Fiber
  <2>3. Popped' = 0 /\ C' = C
    BY <1>1, <2>1 DEF Popped
  <2>4. /\ fiber.queuedCompleted + C = Len(consume.items) + loc.value
        /\ 0 <= loc.value /\ loc.value <= fiber.queuedCompleted
    <3>1. Popped = loc.value
      BY <1>1, <2>1 DEF Popped
    <3> QED BY <2>1, <3>1 DEF CountInv
  <2>5. /\ fiber'.queuedCompleted + C' = Len(consume'.items) + Popped'
        /\ fiber'.queuedCompleted \in Nat
    <3>1. fiber.queuedCompleted - loc.value \in Nat
      BY <1>1, <2>4
    <3>2. consume'.items = consume.items
      BY <2>1
    <3>3. (fiber.queuedCompleted - loc.value) + C = Len(consume.items) + 0
      <4>1. /\ fiber.queuedCompleted \in Int /\ loc.value \in Int
            /\ C \in Int /\ Len(consume.items) \in Int
        BY <1>1, <1>2
      <4> HIDE DEF C
      <4> QED BY ONLY <2>4, <4>1
    <3> QED BY <2>2, <2>3, <3>1, <3>2, <3>3
  <2> QED BY <2>1, <2>5 DEF CountInv
<1>10. CASE Tick
  BY <1>10 DEF Tick, CountInv, Popped
<1> QED
  BY <1>3, <1>4, <1>5, <1>6, <1>7, <1>8, <1>9, <1>10 DEF Loop

\* Every step keeps queuedCompleted in agreement with the queue.
LEMMA NextCountInv == TypeInv /\ CountInv /\ [Next]_vars => CountInv'
<1> SUFFICES ASSUME TypeInv, CountInv, [Next]_vars PROVE CountInv'
  OBVIOUS
<1>1. CASE UNCHANGED vars
  BY <1>1 DEF vars, brokerVars, loopVars, CountInv, Popped
<1> QED
  BY <1>1, WorkerCountInv, LoopCountInv DEF Next, WorkerStep

\* dequeueThreadQueue never dereferences the null a pop of an empty queue
\* returns (scheduler.cpp:233-236).
THEOREM PopSafe == Spec => []PopFindsCompletion
<1>1. CountInv => PopFindsCompletion
  BY DEF CountInv, PopFindsCompletion
<1> QED
  BY <1>1, InitTypeInv, NextTypeInv, InitCountInv, NextCountInv, PTL DEF Spec

-----------------------------------------------------------------------------
(***************************************************************************)
(* pendingReq.  processThreadRequest queues a batch and only then adds its *)
(* length; a worker subtracts one when it is done with a request.  So the  *)
(* counter is exact except while a batch is being queued, and getWakeTime, *)
(* which runs before, finds it exact.  The exit flag is set only at zero,  *)
(* and afterwards nobody is left who could queue or complete a request.    *)
(***************************************************************************)
BusyPc == {"act", "publish", "full", "count", "signal", "sendev", "settle"}

Handed == IF lpc \in {"push", "choke"} THEN loc.pushed ELSE 0

\* The part of run() between the decision to exit and the tasks' last turn.
LastRound == {"poll", "polled", "deq", "drain", "pop"}

Quiet == works.items = << >> /\ Inside(wpc, BusyPc) = {}

PendInv ==
  /\ fiber.pendingReq + Handed
       = Len(works.items) + Count(wpc, BusyPc) + dropped
  /\ lpc \notin {"push", "choke", "ping"} => loc.pushed = 0
  /\ lpc \in {"run", "wake", "pending", "unwake"} => loc.exit = FALSE
  /\ loc.exit = TRUE /\ lpc \in LastRound => Quiet

\* PendInv holds before run() starts.
LEMMA InitPendInv == Init => PendInv
<1> SUFFICES ASSUME Init PROVE PendInv
  OBVIOUS
<1>1. Inside(wpc, BusyPc) = {}
  BY DEF Inside, BusyPc, Init, BrokerInit
<1>2. Count(wpc, BusyPc) = 0
  BY <1>1, CountNat
<1> QED
  BY <1>2 DEF Init, BrokerInit, PendInv, Handed, LastRound, LfStart,
              FiberStart, EmptyLocals

\* The types PendInv speaks of, from the type invariant.
LEMMA PendTypes ==
  ASSUME TypeInv
  PROVE  /\ fiber.pendingReq \in Int /\ loc.pushed \in Nat /\ dropped \in Nat
         /\ Len(works.items) \in Nat /\ works.items \in Seq(Headers)
         /\ Count(wpc, BusyPc) \in Nat /\ Handed \in Nat
         /\ fiber \in Fiber /\ loc \in Locals /\ works \in LfQueue
         /\ wpc \in [Workers -> WorkerPc] /\ BrokerTypeOK
<1>1. Count(wpc, BusyPc) \in Nat
  BY CountNat
<1>2. /\ dropped \in Nat /\ fiber \in Fiber /\ loc \in Locals
      /\ works \in LfQueue /\ wpc \in [Workers -> WorkerPc] /\ BrokerTypeOK
  BY DEF TypeInv, TypeOK, BrokerTypeOK
<1>3. fiber.pendingReq \in Int /\ loc.pushed \in Nat
  BY <1>2 DEF Fiber, Locals
<1>4. works.items \in Seq(Headers)
  BY <1>2 DEF LfQueue
<1>5. Handed \in Nat
  BY <1>3 DEF Handed
<1> QED
  BY <1>1, <1>2, <1>3, <1>4, <1>5

\* A step of a worker keeps pendingReq in agreement with the requests.
LEMMA WorkerPendInv ==
  ASSUME TypeInv, PendInv, NEW w \in Workers, Worker(w), UNCHANGED loopVars
  PROVE  PendInv'
<1> DEFINE B == Count(wpc, BusyPc)
<1>1. B \in Nat /\ fiber.pendingReq \in Int /\ Len(works.items) \in Nat
      /\ dropped \in Nat /\ Handed \in Nat /\ works.items \in Seq(Headers)
  BY PendTypes
<1>2. lpc' = lpc /\ loc' = loc /\ Handed' = Handed /\ dropped' = dropped
  BY DEF loopVars, taskVars, Handed
<1>3. /\ wpc \in [Workers -> WorkerPc] /\ BrokerTypeOK
      /\ fiber \in Fiber /\ works \in LfQueue
  BY PendTypes
<1>4. /\ lpc' \notin {"push", "choke", "ping"} => loc'.pushed = 0
      /\ lpc' \in {"run", "wake", "pending", "unwake"} => loc'.exit = FALSE
  BY <1>2 DEF PendInv
<1>5. ASSUME NEW to, GoTo(w, to), to \in BusyPc <=> wpc[w] \in BusyPc,
             works'.items = works.items, fiber'.pendingReq = fiber.pendingReq
      PROVE  PendInv'
  <2>1. B' = B
    BY <1>1, <1>3, <1>5, CountStep DEF Bit
  <2>2. Quiet => Quiet'
    BY <1>3, <1>5 DEF Quiet, Inside, GoTo
  <2> QED BY <1>2, <1>4, <1>5, <2>1, <2>2 DEF PendInv
<1>6. CASE Enter(w) \/ Doze(w) \/ Woken(w) \/ Leave(w) \/ CountCompleted(w)
  <2>1. fiber'.pendingReq = fiber.pendingReq /\ works' = works
    BY <1>3, <1>6 DEF Enter, Doze, Woken, Leave, CountCompleted, FetchAdd, Fiber
  <2>2. \E to \in WorkerPc :
          GoTo(w, to) /\ (to \in BusyPc <=> wpc[w] \in BusyPc)
    BY <1>6 DEF Enter, Doze, Woken, Leave, CountCompleted, FetchAdd, At,
                BusyPc, WorkerPc
  <2> QED BY <1>5, <2>1, <2>2
<1>7. CASE CheckAbort(w) \/ CheckWork(w) \/ RecheckAbort(w) \/ CheckSignal(w)
  <2>1. fiber' = fiber /\ works' = works
    BY <1>7 DEF CheckAbort, CheckWork, RecheckAbort, CheckSignal, Load
  <2>2. \E to \in WorkerPc :
          GoTo(w, to) /\ (to \in BusyPc <=> wpc[w] \in BusyPc)
    BY <1>7 DEF CheckAbort, CheckWork, RecheckAbort, CheckSignal, Load, At,
                BusyPc, WorkerPc
  <2> QED BY <1>5, <2>1, <2>2
<1>8. CASE SemWait(w) \/ DequeueNothing(w) \/ RunAction(w) \/ Publish(w)
           \/ PublishFull(w) \/ ChokeConsume(w) \/ SendEv(w)
  <2>1. fiber' = fiber /\ works' = works
    BY <1>8 DEF SemWait, DequeueNothing, RunAction, Publish, PublishFull,
                ChokeConsume, SendEv
  <2>2. \E to \in WorkerPc :
          GoTo(w, to) /\ (to \in BusyPc <=> wpc[w] \in BusyPc)
    BY <1>8 DEF SemWait, DequeueNothing, RunAction, Publish, PublishFull,
                ChokeConsume, SendEv, At, BusyPc, WorkerPc
  <2> QED BY <1>5, <2>1, <2>2
<1>9. CASE ChillWorks(w)
  <2>1. works'.items = works.items /\ fiber' = fiber
    BY <1>3, <1>9 DEF ChillWorks, Chill, LfQueue
  <2>2. At(w, "drained") /\ GoTo(w, "loop")
    BY <1>9 DEF ChillWorks
  <2> QED BY <1>5, <2>1, <2>2 DEF At, BusyPc
<1>10. CASE DequeueWork(w)
  <2>1. /\ At(w, "dequeue") /\ GoTo(w, "act") /\ fiber' = fiber
        /\ CanTake(works) /\ works' = Take(works)
    BY <1>10 DEF DequeueWork
  <2>2. Len(works'.items) = Len(works.items) - 1
    BY <1>3, <2>1, TakeType
  <2>3. B' = B + 1
    BY <1>1, <1>3, <2>1, CountStep DEF At, Bit, BusyPc
  <2>4. ~(loc.exit = TRUE /\ lpc \in LastRound)
    BY <2>1 DEF PendInv, Quiet, CanTake
  <2>5. fiber.pendingReq + Handed = Len(works.items) + B + dropped
    BY DEF PendInv
  <2>6. fiber.pendingReq + Handed
          = (Len(works.items) - 1) + (B + 1) + dropped
    <3>1. \A l, b, d \in Int : l + b + d = (l - 1) + (b + 1) + d
      OBVIOUS
    <3>2. Len(works.items) \in Int /\ B \in Int /\ dropped \in Int
      BY <1>1
    <3>3. Len(works.items) + B + dropped
            = (Len(works.items) - 1) + (B + 1) + dropped
      BY <3>1, <3>2
    <3> QED BY <2>5, <3>3
  <2>7. fiber'.pendingReq + Handed' = Len(works'.items) + B' + dropped'
    BY <1>2, <2>1, <2>2, <2>3, <2>6
  <2> QED BY <1>2, <1>4, <2>4, <2>7 DEF PendInv
<1>11. CASE Settle(w)
  <2>1. At(w, "settle") /\ GoTo(w, "loop") /\ works' = works
    BY <1>11 DEF Settle, FetchAdd
  <2>2. fiber'.pendingReq = fiber.pendingReq - 1
    BY <1>1, <1>3, <1>11 DEF Settle, FetchAdd, Fiber
  <2>3. B' = B - 1
    BY <1>1, <1>3, <2>1, CountStep DEF At, Bit, BusyPc
  <2>4. ~(loc.exit = TRUE /\ lpc \in LastRound)
    BY <2>1 DEF PendInv, Quiet, Inside, At, BusyPc
  <2>5. fiber.pendingReq + Handed = Len(works.items) + B + dropped
    BY DEF PendInv
  <2>6. (fiber.pendingReq - 1) + Handed
          = Len(works.items) + (B - 1) + dropped
    <3> HIDE DEF B
    <3> QED BY <1>1, <2>5
  <2>7. fiber'.pendingReq + Handed' = Len(works'.items) + B' + dropped'
    BY <1>2, <2>1, <2>2, <2>3, <2>6
  <2> QED BY <1>2, <1>4, <2>4, <2>7 DEF PendInv
<1> QED
  BY <1>6, <1>7, <1>8, <1>9, <1>10, <1>11 DEF Worker

\* A step of the loop keeps pendingReq in agreement with the requests.
LEMMA LoopPendInv ==
  ASSUME TypeInv, PendInv, Loop \/ PollInterrupted \/ Tick
  PROVE  PendInv'
<1> DEFINE B == Count(wpc, BusyPc)
<1>1. /\ B \in Nat /\ fiber.pendingReq \in Int /\ Len(works.items) \in Nat
      /\ dropped \in Nat /\ Handed \in Nat /\ loc.pushed \in Nat
      /\ works.items \in Seq(Headers) /\ works \in LfQueue
      /\ fiber \in Fiber /\ loc \in Locals
  BY PendTypes
<1>2. fiber.pendingReq + Handed = Len(works.items) + B + dropped
  BY DEF PendInv
<1> USE DEF Step, KeepBroker, brokerVars, KeepTasks, taskVars
\* Steps that leave the counters and the queue of requests alone.
<1>3. ASSUME lpc \notin {"push", "choke", "ping"},
             lpc' \in {"push", "choke", "ping"} => lpc' = "push",
             works'.items = works.items, wpc' = wpc, dropped' = dropped,
             fiber'.pendingReq = fiber.pendingReq,
             loc'.pushed = loc.pushed
      PROVE  /\ fiber'.pendingReq + Handed' = Len(works'.items) + B' + dropped'
             /\ loc'.pushed = 0
  <2>1. Handed' = 0 /\ Handed = 0 /\ loc'.pushed = 0
    BY <1>3 DEF PendInv, Handed
  <2>2. B' = B
    BY <1>3
  <2> QED BY <1>2, <1>3, <2>1, <2>2
<1>4. ASSUME works'.items = works.items, wpc' = wpc, Quiet PROVE Quiet'
  BY <1>4 DEF Quiet
<1>5. CASE RunStart \/ YieldDone \/ ExpireDone \/ ReadClock \/ CleanQueue
           \/ LoadWorkers \/ PingWorkers \/ AwaitWorkers \/ PushExpired
  <2>1. /\ works' = works /\ wpc' = wpc /\ fiber' = fiber /\ dropped' = dropped
        /\ lpc \notin {"push", "choke", "ping"}
        /\ lpc' \in {"push", "choke", "ping"} => lpc' = "push"
        /\ lpc' \notin LastRound
    BY <1>5 DEF RunStart, YieldDone, ExpireDone, ReadClock, CleanQueue,
         LoadWorkers, PingWorkers, AwaitWorkers, PushExpired, LastRound
  <2>2. loc'.pushed = loc.pushed /\ loc'.exit = loc.exit
    BY <1>1, <1>5 DEF RunStart, YieldDone, ExpireDone, ReadClock, CleanQueue,
         LoadWorkers, PingWorkers, AwaitWorkers, PushExpired, Locals
  <2>3. lpc' \in {"run", "wake", "pending", "unwake"} => loc'.exit = FALSE
    <3>1. loc.exit \in BOOLEAN
      BY <1>1 DEF Locals
    <3> QED BY <1>5, <2>2, <3>1 DEF RunStart, YieldDone, ExpireDone, ReadClock,
         CleanQueue, LoadWorkers, PingWorkers, AwaitWorkers, PushExpired, PendInv
  <2> QED BY <1>3, <2>1, <2>2, <2>3 DEF PendInv
<1>6. CASE ReadCompleted
  <2>1. /\ works' = works /\ wpc' = wpc /\ fiber' = fiber /\ dropped' = dropped
        /\ lpc = "wake" /\ lpc' \in {"poll", "pending"}
    BY <1>6 DEF ReadCompleted
  <2>2. loc'.pushed = loc.pushed /\ loc'.exit = loc.exit
    <3>1. PICK n \in GetNext, m \in {0, loc.timeout} :
            loc' = [loc EXCEPT !.looptime = n, !.timeout = m]
      BY <1>6 DEF ReadCompleted
    <3> QED BY <1>1, <3>1 DEF Locals
  <2>3. loc'.exit = FALSE
    BY <2>1, <2>2 DEF PendInv
  <2> QED BY <1>3, <2>1, <2>2, <2>3 DEF PendInv
<1>7. CASE ReadPending
  <2>1. /\ works' = works /\ wpc' = wpc /\ dropped' = dropped
        /\ lpc = "pending" /\ lpc' \in {"poll", "unwake"}
        /\ lpc' = "unwake" => fiber.pendingReq > 0
    BY <1>7 DEF ReadPending
  <2>2. fiber'.pendingReq = fiber.pendingReq
    BY <1>1, <1>7 DEF ReadPending, Fiber
  <2>3. /\ loc'.pushed = loc.pushed
        /\ fiber.pendingReq > 0 => loc'.exit = loc.exit
    <3>1. PICK m, a, b : loc' = [loc EXCEPT !.timeout = m, !.wakeAt = a, !.exit = b]
                         /\ (fiber.pendingReq > 0 => b = loc.exit)
      BY <1>7 DEF ReadPending
    <3> QED BY <1>1, <3>1 DEF Locals
  <2>4. Handed = 0 /\ loc.exit = FALSE
    BY <2>1 DEF Handed, PendInv
  <2>5. CASE fiber.pendingReq > 0
    BY <1>3, <2>1, <2>2, <2>3, <2>4, <2>5 DEF PendInv
  <2>6. CASE ~(fiber.pendingReq > 0)
    <3>1. Len(works.items) = 0 /\ B = 0
      <4> HIDE DEF B
      <4> QED BY <1>1, <1>2, <2>4, <2>6
    <3>2. works.items = << >>
      BY <1>1, <3>1
    <3>3. Inside(wpc, BusyPc) = {}
      BY <3>1, CountNat
    <3>4. Quiet'
      BY <2>1, <3>2, <3>3 DEF Quiet
    <3> QED BY <1>3, <2>1, <2>2, <2>3, <2>6, <3>4 DEF PendInv
  <2> QED BY <2>5, <2>6
<1>8. CASE ClearWakedUp \/ MarkWakedUp \/ StoreAbort
  <2>1. /\ works' = works /\ wpc' = wpc /\ dropped' = dropped /\ loc' = loc
        /\ lpc \in {"unwake", "polled", "abort"}
        /\ lpc' \in {"poll", "deq", "returned", "pings"}
        /\ lpc = "polled" => lpc' \in {"deq", "returned"}
        /\ lpc = "abort" => lpc' = "pings"
    BY <1>8 DEF ClearWakedUp, MarkWakedUp, StoreAbort
  <2>2. fiber'.pendingReq = fiber.pendingReq
    BY <1>1, <1>8 DEF ClearWakedUp, MarkWakedUp, StoreAbort, Fiber
  <2>3. loc'.exit = TRUE /\ lpc' \in LastRound => Quiet'
    BY <1>4, <2>1 DEF PendInv, LastRound
  <2> QED BY <1>3, <2>1, <2>2, <2>3 DEF PendInv
<1>9. CASE PollEvent \/ PollTimeout \/ PollInterrupted \/ ReadQueued
           \/ DrainEvfd \/ PopCompleted
  <2>1. /\ works' = works /\ wpc' = wpc /\ fiber' = fiber /\ dropped' = dropped
        /\ lpc \in LastRound /\ lpc' \in LastRound \cup {"yield", "crashed"}
    BY <1>9 DEF PollEvent, PollTimeout, PollInterrupted, ReadQueued, DrainEvfd,
         PopCompleted, LastRound
  <2>2. loc'.pushed = loc.pushed /\ loc'.exit = loc.exit
    BY <1>1, <1>9 DEF PollEvent, PollTimeout, PollInterrupted, ReadQueued,
         DrainEvfd, PopCompleted, Locals
  <2>3. loc'.exit = TRUE /\ lpc' \in LastRound => Quiet'
    BY <1>4, <2>1, <2>2 DEF PendInv
  <2>4. /\ lpc \notin {"push", "choke", "ping"}
        /\ lpc' \notin {"push", "choke", "ping", "run", "wake", "pending", "unwake"}
    BY <2>1 DEF LastRound
  <2> QED BY <1>3, <2>1, <2>2, <2>3, <2>4 DEF PendInv
<1>10. CASE SubtractQueued
  <2>1. /\ works' = works /\ wpc' = wpc /\ dropped' = dropped
        /\ lpc = "pop" /\ lpc' = "yield"
    BY <1>10 DEF SubtractQueued
  <2>2. fiber'.pendingReq = fiber.pendingReq /\ loc'.pushed = loc.pushed
    BY <1>1, <1>10 DEF SubtractQueued, Fiber, Locals
  <2> QED BY <1>3, <2>1, <2>2 DEF PendInv, LastRound
<1>11. CASE RunTask
  <2>1. PICK t \in Tasks : Finish(t) \/ Yield(t) \/ Sleep(t) \/ ReadFile(t)
    BY <1>11 DEF RunTask
  <2>2. /\ works' = works /\ wpc' = wpc /\ dropped' = dropped /\ loc' = loc
        /\ fiber' = fiber /\ lpc' = lpc /\ lpc = "yield"
    BY <2>1 DEF Finish, Yield, Sleep, ReadFile, Running
  <2> QED BY <1>3, <2>2 DEF PendInv, LastRound
<1>12. CASE PushRequest
  <2>1. /\ lpc = "push" /\ lpc' = "push" /\ wpc' = wpc /\ fiber' = fiber
        /\ dropped' = dropped /\ CanPut(works) /\ batch # << >>
        /\ works' = Put(works, Head(batch))
    BY <1>12 DEF PushRequest
  <2>2. loc'.pushed = loc.pushed + 1
    BY <1>1, <1>12 DEF PushRequest, Locals
  <2>3. Head(batch) \in Headers
    BY <2>1 DEF TypeInv, TypeOK
  <2>4. Len(works'.items) = Len(works.items) + 1
    BY <1>1, <2>1, <2>3, PutType
  <2>5. Handed = loc.pushed /\ Handed' = loc.pushed + 1
    BY <2>1, <2>2 DEF Handed
  <2>6. fiber.pendingReq + (loc.pushed + 1)
          = (Len(works.items) + 1) + B + dropped
    <3>1. fiber.pendingReq + loc.pushed = Len(works.items) + B + dropped
      BY <1>2, <2>5
    <3> HIDE DEF B
    <3> QED BY <1>1, <3>1
  <2>7. fiber'.pendingReq + Handed' = Len(works'.items) + B' + dropped'
    BY <2>1, <2>4, <2>5, <2>6
  <2> QED BY <2>1, <2>7 DEF PendInv, LastRound
<1>13. CASE PushRefused
  <2>1. /\ lpc = "push" /\ lpc' \in {"push", "choke"} /\ wpc' = wpc
        /\ fiber' = fiber /\ dropped' = dropped + 1 /\ works' = works
    BY <1>13 DEF PushRefused
  <2>2. loc'.pushed = loc.pushed + 1
    BY <1>1, <1>13 DEF PushRefused, Locals
  <2>3. Handed = loc.pushed /\ Handed' = loc.pushed + 1
    BY <2>1, <2>2 DEF Handed
  <2>4. fiber.pendingReq + (loc.pushed + 1)
          = Len(works.items) + B + (dropped + 1)
    <3> DEFINE L == Len(works.items)
    <3>1. fiber.pendingReq + loc.pushed = L + B + dropped
      BY <1>2, <2>3
    <3>2. /\ fiber.pendingReq \in Int /\ loc.pushed \in Int
          /\ L \in Int /\ B \in Int /\ dropped \in Int
      BY <1>1
    <3> HIDE DEF B, L
    <3>3. fiber.pendingReq + (loc.pushed + 1) = L + B + (dropped + 1)
      BY ONLY <3>1, <3>2
    <3> QED BY <3>3 DEF L
  <2>5. fiber'.pendingReq + Handed' = Len(works'.items) + B' + dropped'
    BY <2>1, <2>3, <2>4
  <2> QED BY <2>1, <2>5 DEF PendInv, LastRound
<1>14. CASE ChokeWorks
  <2>1. /\ lpc = "choke" /\ lpc' = "push" /\ wpc' = wpc /\ fiber' = fiber
        /\ dropped' = dropped /\ loc' = loc /\ works'.items = works.items
    BY <1>1, <1>14 DEF ChokeWorks, Choke, LfQueue
  <2>2. Handed' = Handed
    BY <2>1 DEF Handed
  <2> QED BY <1>2, <2>1, <2>2 DEF PendInv, LastRound
<1>15. CASE AddPending
  <2>1. /\ lpc = "push" /\ lpc' = "ping" /\ wpc' = wpc /\ loc' = loc
        /\ dropped' = dropped /\ works' = works
    BY <1>15 DEF AddPending
  <2>2. fiber'.pendingReq = fiber.pendingReq + loc.pushed
    BY <1>1, <1>15 DEF AddPending, Fiber
  <2>3. Handed = loc.pushed /\ Handed' = 0
    BY <2>1 DEF Handed
  <2>4. fiber'.pendingReq + Handed' = Len(works'.items) + B' + dropped'
    <3>1. fiber.pendingReq + loc.pushed = Len(works.items) + B + dropped
      BY <1>2, <2>3
    <3>2. fiber.pendingReq + loc.pushed \in Int
      BY <1>1
    <3> QED BY <2>1, <2>2, <2>3, <3>1, <3>2
  <2> QED BY <2>1, <2>4 DEF PendInv, LastRound
<1>16. CASE Ping
  <2>1. /\ lpc = "ping" /\ lpc' = "expire" /\ wpc' = wpc /\ fiber' = fiber
        /\ dropped' = dropped /\ works' = works
    BY <1>16 DEF Ping
  <2>2. loc'.pushed = 0
    BY <1>1, <1>16 DEF Ping, Locals
  <2>3. Handed' = Handed
    BY <2>1 DEF Handed
  <2> QED BY <1>2, <2>1, <2>2, <2>3 DEF PendInv, LastRound
<1>17. CASE Tick
  BY <1>17 DEF Tick, PendInv, Handed, Quiet
<1> QED
  BY <1>5, <1>6, <1>7, <1>8, <1>9, <1>10, <1>11, <1>12, <1>13, <1>14, <1>15,
     <1>16, <1>17 DEF Loop

\* Every step keeps pendingReq in agreement with the requests.
LEMMA NextPendInv == TypeInv /\ PendInv /\ [Next]_vars => PendInv'
<1> SUFFICES ASSUME TypeInv, PendInv, [Next]_vars PROVE PendInv'
  OBVIOUS
<1>1. CASE UNCHANGED vars
  BY <1>1 DEF vars, brokerVars, loopVars, taskVars, PendInv, Handed, Quiet
<1> QED
  BY <1>1, WorkerPendInv, LoopPendInv DEF Next, WorkerStep

\* getWakeTime (scheduler.cpp:170-182) reads in pendingReq exactly the requests
\* the workers still owe an answer for, plus those a full queue refused.
THEOREM PendingExact == Spec => []PendingAccurate
<1>1. TypeInv /\ PendInv => PendingAccurate
  <2>1. Cardinality(Busy) = Count(wpc, BusyPc)
    BY DEF Busy, InPc, Count, Inside, BusyPc
  <2>2. ASSUME TypeInv, PendInv, lpc \in {"wake", "pending"}
        PROVE  fiber.pendingReq = Len(works.items) + Cardinality(Busy) + dropped
    BY <2>1, <2>2, PendTypes DEF PendInv, Handed
  <2> QED BY <2>2 DEF PendingAccurate
<1> QED
  BY <1>1, InitTypeInv, NextTypeInv, InitPendInv, NextPendInv, PTL DEF Spec

\* Once getWakeTime has set the exit flag no worker holds or will find a
\* request, so the last call of dequeueThreadQueue sees every completion.
THEOREM ExitComplete == Spec => []ExitSeesAllCompletions
<1>1. PendInv => ExitSeesAllCompletions
  BY DEF PendInv, ExitSeesAllCompletions, LastRound, Quiet, Busy, InPc, Inside,
         BusyPc
<1> QED
  BY <1>1, InitTypeInv, NextTypeInv, InitPendInv, NextPendInv, PTL DEF Spec

-----------------------------------------------------------------------------
(***************************************************************************)
(* The clock.  pushExpired compares with the time it read when it began,   *)
(* which is never ahead of the clock (SeenInv).                            *)
(***************************************************************************)
SeenInv == loc.seen <= now

\* Every step keeps the time pushExpired read at or before the present.
LEMMA NextSeenInv == TypeInv /\ SeenInv /\ [Next]_vars => SeenInv'
<1> SUFFICES ASSUME TypeInv, SeenInv, [Next]_vars PROVE SeenInv'
  OBVIOUS
<1>1. loc \in Locals /\ loc.seen \in Nat /\ now \in Nat
  BY DEF TypeInv, TypeOK, Locals
<1>2. ASSUME loc'.seen = loc.seen, now' = now PROVE SeenInv'
  BY <1>2 DEF SeenInv
<1>3. ASSUME loc' = loc, now' = now PROVE SeenInv'
  BY <1>2, <1>3
<1>4. CASE UNCHANGED vars \/ WorkerStep
  BY <1>3, <1>4 DEF vars, loopVars, WorkerStep
<1>5. CASE RunStart \/ ClearWakedUp \/ MarkWakedUp \/ YieldDone \/ ChokeWorks
           \/ AddPending \/ PushExpired \/ ExpireDone \/ CleanQueue
           \/ StoreAbort \/ PingWorkers
  BY <1>3, <1>5 DEF RunStart, ClearWakedUp, MarkWakedUp, YieldDone, ChokeWorks,
       AddPending, PushExpired, ExpireDone, CleanQueue, StoreAbort, PingWorkers
<1>6. CASE RunTask
  <2>1. PICK t \in Tasks : Finish(t) \/ Yield(t) \/ Sleep(t) \/ ReadFile(t)
    BY <1>6 DEF RunTask
  <2> QED BY <1>3, <2>1 DEF Finish, Yield, Sleep, ReadFile
<1>7. CASE PollEvent \/ PollTimeout \/ PollInterrupted \/ ReadQueued \/ DrainEvfd
           \/ PopCompleted \/ SubtractQueued \/ PushRequest \/ PushRefused
           \/ Ping \/ LoadWorkers \/ AwaitWorkers
  <2>1. loc'.seen = loc.seen
    BY <1>1, <1>7 DEF PollEvent, PollTimeout, PollInterrupted, ReadQueued,
         DrainEvfd, PopCompleted, SubtractQueued, PushRequest, PushRefused,
         Ping, LoadWorkers, AwaitWorkers, Locals
  <2>2. now' = now
    BY <1>7 DEF PollEvent, PollTimeout, PollInterrupted, ReadQueued,
         DrainEvfd, PopCompleted, SubtractQueued, PushRequest, PushRefused,
         Ping, LoadWorkers, AwaitWorkers
  <2> QED BY <1>2, <2>1, <2>2
<1>8. CASE ReadCompleted
  <2>1. PICK n \in GetNext, m \in {0, loc.timeout} :
          loc' = [loc EXCEPT !.looptime = n, !.timeout = m]
    BY <1>8 DEF ReadCompleted
  <2>2. loc'.seen = loc.seen
    BY <1>1, <2>1 DEF Locals
  <2> QED BY <1>2, <1>8, <2>2 DEF ReadCompleted
<1>9. CASE ReadPending
  <2>1. PICK m, a, b : loc' = [loc EXCEPT !.timeout = m, !.wakeAt = a, !.exit = b]
    BY <1>9 DEF ReadPending
  <2>2. loc'.seen = loc.seen
    BY <1>1, <2>1 DEF Locals
  <2> QED BY <1>2, <1>9, <2>2 DEF ReadPending
<1>10. CASE ReadClock
  <2>1. loc'.seen = now /\ now' = now
    BY <1>1, <1>10 DEF ReadClock, Locals
  <2> QED BY <1>1, <2>1 DEF SeenInv
<1>11. CASE Tick
  BY <1>1, <1>11 DEF Tick, SeenInv
<1> QED
  BY <1>4, <1>5, <1>6, <1>7, <1>8, <1>9, <1>10, <1>11 DEF Next, Loop

\* Only pushExpired takes a timer away.
LEMMA TimersKept ==
  ASSUME [Next]_vars, ~PushExpired
  PROVE  timers \subseteq timers'
<1>1. CASE UNCHANGED vars \/ WorkerStep \/ Tick
  BY <1>1 DEF vars, loopVars, taskVars, WorkerStep, Tick
<1>2. CASE RunTask
  <2>1. PICK t \in Tasks : Finish(t) \/ Yield(t) \/ Sleep(t) \/ ReadFile(t)
    BY <1>2 DEF RunTask
  <2> QED BY <2>1 DEF Finish, Yield, Sleep, ReadFile
<1>3. CASE PollInterrupted \/ (Loop /\ ~RunTask)
  BY <1>3 DEF Loop, RunStart, ReadCompleted, ReadPending, ClearWakedUp,
       PollEvent, PollTimeout, PollInterrupted, MarkWakedUp, ReadQueued,
       DrainEvfd, PopCompleted, SubtractQueued, YieldDone, PushRequest,
       PushRefused, ChokeWorks, AddPending, Ping, ReadClock, ExpireDone,
       CleanQueue, LoadWorkers, StoreAbort, PingWorkers, AwaitWorkers,
       KeepTasks, taskVars
<1> QED
  BY <1>1, <1>2, <1>3 DEF Next

\* A sleeping task is never woken a millisecond or more before its time, nor
\* before a task that was due earlier (clock.cpp:26-45).
THEOREM TimersOrdered == Spec => TimersInOrder
<1> DEFINE InOrder == \A r \in timers \ timers' :
                        /\ now > r.expires - TicksPerMs
                        /\ \A q \in timers' : r.expires <= q.expires
<1>1. ASSUME TypeInv, SeenInv, [Next]_vars PROVE InOrder
  <2>1. CASE ~PushExpired
    BY <1>1, <2>1, TimersKept
  <2>2. CASE PushExpired
    <3>1. PICK r \in timers : Earliest(r) /\ Due(r, loc.seen)
                              /\ timers' = timers \ {r}
      BY <2>2 DEF PushExpired
    <3>2. /\ r.expires \in Nat /\ TicksPerMs \in Nat
          /\ loc.seen \in Nat /\ now \in Nat
      BY <1>1, LoopAssumption DEF TypeInv, TypeOK, Locals
    <3>3. now > r.expires - TicksPerMs
      BY <1>1, <3>1, <3>2 DEF Due, SeenInv
    <3> QED BY <3>1, <3>3 DEF Earliest
  <2> QED BY <2>1, <2>2
<1>2. Init => SeenInv
  BY DEF Init, EmptyLocals, SeenInv
<1>3. TypeInv /\ SeenInv /\ [Next]_vars => [InOrder]_vars
  BY <1>1
<1> QED
  BY <1>2, <1>3, InitTypeInv, NextTypeInv, NextSeenInv, PTL
     DEF Spec, TimersInOrder

-----------------------------------------------------------------------------
(***************************************************************************)
(* Where the tasks are.  Homes(t) is a sum of counts, and a step takes one *)
(* from a count and adds one to another: what is pushed, popped or handed  *)
(* over is neither doubled nor lost.                                       *)
(***************************************************************************)
Same(a, b) == IF a = b THEN 1 ELSE 0

\* How Times follows a sequence that grows at the end or loses its head.
LEMMA TimesSteps ==
  ASSUME NEW S, NEW s \in Seq(S), NEW x
  PROVE  /\ Times(x, s) \in Nat
         /\ (\A i \in DOMAIN s : s[i] # x) => Times(x, s) = 0
         /\ \A y \in S : Times(x, Append(s, y)) = Times(x, s) + Same(y, x)
         /\ s # << >> => Times(x, s) = Times(x, Tail(s)) + Same(Head(s), x)
<1> DEFINE n == Len(s)  I == {i \in 1 .. n : s[i] = x}
<1>1. n \in Nat /\ DOMAIN s = 1 .. n
  BY LenProperties
<1>2. Times(x, s) = Cardinality(I)
  BY <1>1 DEF Times
<1>3. IsFiniteSet(I) /\ Cardinality(I) \in Nat
  <2>1. IsFiniteSet(1 .. n)
    BY <1>1, FS_Interval
  <2>2. I \subseteq 1 .. n
    OBVIOUS
  <2> QED BY <2>1, <2>2, FS_Subset, FS_CardinalityType
<1>4. ASSUME \A i \in DOMAIN s : s[i] # x PROVE Times(x, s) = 0
  <2>1. I = {}
    BY <1>1, <1>4
  <2> QED BY <1>2, <2>1, FS_EmptySet
<1>5. ASSUME NEW y \in S PROVE Times(x, Append(s, y)) = Times(x, s) + Same(y, x)
  <2> DEFINE u == Append(s, y)  J == {i \in 1 .. n + 1 : u[i] = x}
  <2>1. /\ DOMAIN u = 1 .. n + 1 /\ u[n + 1] = y
        /\ \A i \in 1 .. n : u[i] = s[i]
    <3>1. u \in Seq(S) /\ Len(u) = n + 1 /\ u[n + 1] = y
          /\ \A i \in 1 .. n : u[i] = s[i]
      BY AppendProperties
    <3> QED BY <3>1, LenProperties
  <2>2. Times(x, u) = Cardinality(J)
    BY <2>1 DEF Times
  <2>3. n + 1 \notin I
    BY <1>1
  <2>4. CASE y = x
    <3>1. J = I \cup {n + 1}
      BY <1>1, <2>1, <2>4
    <3>2. Cardinality(J) = Cardinality(I) + 1
      BY <1>3, <2>3, <3>1, FS_AddElement
    <3> QED BY <1>2, <2>2, <2>4, <3>2 DEF Same
  <2>5. CASE y # x
    <3>1. J = I
      BY <1>1, <2>1, <2>5
    <3>2. Times(x, u) = Times(x, s) /\ Times(x, s) \in Nat
      BY <1>2, <1>3, <2>2, <3>1
    <3>3. Same(y, x) = 0
      BY <2>5 DEF Same
    <3> QED BY <3>2, <3>3
  <2> QED BY <2>4, <2>5
<1>6. ASSUME s # << >> PROVE Times(x, s) = Times(x, Tail(s)) + Same(Head(s), x)
  <2> DEFINE u == Tail(s)  J == {i \in 1 .. n - 1 : u[i] = x}  K == I \ {1}
  <2>1. /\ n > 0 /\ DOMAIN u = 1 .. n - 1 /\ Head(s) = s[1]
        /\ \A i \in 1 .. n - 1 : u[i] = s[i + 1]
    <3>1. u \in Seq(S) /\ Len(u) = n - 1 /\ \A i \in 1 .. Len(u) : u[i] = s[i + 1]
      BY <1>6, HeadTailProperties
    <3>2. n > 0
      BY <1>1, <1>6, EmptySeq
    <3> QED BY <3>1, <3>2, LenProperties
  <2> HIDE DEF u
  <2>2. Times(x, u) = Cardinality(J)
    BY <2>1 DEF Times
  <2>3. IsFiniteSet(J)
    <3>1. IsFiniteSet(1 .. n - 1)
      BY <1>1, FS_Interval
    <3>2. J \subseteq 1 .. n - 1
      OBVIOUS
    <3> QED BY <3>1, <3>2, FS_Subset
  <2>4. ExistsBijection(J, K)
    <3> DEFINE f == [i \in J |-> i + 1]
    <3>1. f \in [J -> K]
      BY <1>1, <2>1
    <3>2. \A a, b \in J : f[a] = f[b] => a = b
      BY <1>1
    <3>3. ASSUME NEW k \in K PROVE \E a \in J : f[a] = k
      <4>1. k \in 1 .. n /\ k # 1 /\ s[k] = x
        OBVIOUS
      <4>2. k - 1 \in 1 .. n - 1 /\ (k - 1) + 1 = k
        BY <1>1, <4>1
      <4>3. k - 1 \in J
        BY <2>1, <4>1, <4>2
      <4> QED BY <4>2, <4>3
    <3> HIDE DEF J, K
    <3>4. f \in Injection(J, K) /\ f \in Surjection(J, K)
      <4>1. DOMAIN f = J
        OBVIOUS
      <4> HIDE DEF f
      <4> QED BY <3>1, <3>2, <3>3, <4>1 DEF Injection, Surjection, IsInjective
    <3>5. f \in Bijection(J, K)
      BY <3>4 DEF Bijection
    <3> QED BY <3>5 DEF ExistsBijection
  <2>5. Cardinality(K) = Cardinality(J)
    BY <2>3, <2>4, FS_Bijection
  <2>6. Cardinality(K) = IF 1 \in I THEN Cardinality(I) - 1 ELSE Cardinality(I)
    BY <1>3, FS_RemoveElement
  <2>7. 1 \in I <=> Head(s) = x
    BY <1>1, <2>1
  <2> HIDE DEF I, J, K
  <2> QED BY <1>2, <1>3, <2>2, <2>5, <2>6, <2>7 DEF Same, u
<1> QED BY <1>2, <1>3, <1>4, <1>5, <1>6

\* A header handed to a worker, or back, is counted.
Hands(f, h) == Cardinality({w \in Workers : f[w] = h})

\* How the number of workers holding h changes with one of them.
LEMMA HandsMove ==
  ASSUME NEW f \in [Workers -> Headers \cup {NoHeader}], NEW w \in Workers,
         NEW to, NEW h
  PROVE  /\ Hands(f, h) \in Nat
         /\ Hands([f EXCEPT ![w] = to], h) = Hands(f, h) + Same(to, h) - Same(f[w], h)
<1> DEFINE g == [f EXCEPT ![w] = to]
           A == {v \in Workers : f[v] = h} \ {w}
           F == {v \in Workers : f[v] = h}  G == {v \in Workers : g[v] = h}
<1>1. IsFiniteSet(A) /\ IsFiniteSet(F) /\ w \notin A
  <2>1. A \subseteq Workers /\ F \subseteq Workers
    OBVIOUS
  <2> QED BY <2>1, FS_Subset, BrokerAssumption
<1>2. F = IF f[w] = h THEN A \cup {w} ELSE A
  OBVIOUS
<1>3. G = IF to = h THEN A \cup {w} ELSE A
  OBVIOUS
<1>4. /\ Cardinality(A \cup {w}) = Cardinality(A) + 1
      /\ Cardinality(A) \in Nat /\ Cardinality(F) \in Nat
  BY <1>1, FS_AddElement, FS_CardinalityType
<1>5. Cardinality(F) = Cardinality(A) + Same(f[w], h)
  BY <1>2, <1>4 DEF Same
<1>6. Cardinality(G) = Cardinality(A) + Same(to, h)
  BY <1>3, <1>4 DEF Same
<1>7. Same(f[w], h) \in Int /\ Same(to, h) \in Int
  BY DEF Same
<1> HIDE DEF A, F, G, g
<1>8. Cardinality(G) = Cardinality(F) + Same(to, h) - Same(f[w], h)
  BY <1>4, <1>5, <1>6, <1>7
<1> QED BY <1>4, <1>8 DEF Hands, F, G, g

Sleeping(t) == Cardinality({r \in timers : r.task = t})
Ended(t) == Cardinality(done \cap {t})

\* After clean() has emptied the run queue tasks are gone.
Cleaning == {"shut", "abort", "pings", "await", "freed"}
Lost == {t \in Tasks : Homes(t) = 0}

\* Each task reads a file of its own.
OwnFiles == \A t, u \in Tasks : HeaderOf[t] = HeaderOf[u] => t = u

\* A header in a worker's hands is in no other place because the worker lets
\* go of it when it publishes it.
HomeInv ==
  /\ IsFiniteSet(timers)
  /\ \A h \in Headers : entry[h] \in Tasks => HeaderOf[entry[h]] = h
  /\ \A w \in Workers : wpc[w] \notin Holding => whdr[w] = NoHeader
  /\ OneHome

Homed == /\ \A t \in Tasks : Homes(t) <= 1
         /\ lpc \notin Cleaning => Cardinality(Lost) = dropped

\* OneHome says that the sum over the places is one.
LEMMA HomeParts == (OneHome <=> Homed) /\ (OneHome' <=> Homed')
<1> DEFINE homes == [t \in Tasks |-> Homes(t)]
<1>1. {t \in Tasks : homes[t] = 0} = Lost /\ {t \in Tasks : homes'[t] = 0} = Lost'
  BY DEF Lost
<1>2. \A t \in Tasks : homes[t] = Homes(t) /\ homes'[t] = Homes(t)'
  OBVIOUS
<1> HIDE DEF homes
<1>3. /\ \A t \in Tasks : homes[t] <= 1
      /\ lpc \notin Cleaning => Cardinality({t \in Tasks : homes[t] = 0}) = dropped
      <=> Homed
  BY <1>1, <1>2 DEF Homed
<1>4. /\ \A t \in Tasks : homes'[t] <= 1
      /\ lpc' \notin Cleaning => Cardinality({t \in Tasks : homes'[t] = 0}) = dropped'
      <=> Homed'
  BY <1>1, <1>2 DEF Homed
<1> QED BY <1>3, <1>4 DEF OneHome, homes, Cleaning

\* The places of a task as a sum of natural numbers.
LEMMA HomeSum ==
  ASSUME TypeInv, IsFiniteSet(timers), NEW t \in Tasks
  PROVE  /\ Homes(t) = Times(t, runQueue) + Sleeping(t) + Ended(t)
                       + (Times(HeaderOf[t], batch) + Times(HeaderOf[t], works.items)
                          + Times(HeaderOf[t], consume.items) + Hands(whdr, HeaderOf[t]))
         /\ Times(t, runQueue) \in Nat /\ Sleeping(t) \in Nat /\ Ended(t) \in Nat
         /\ \A h : /\ Times(h, batch) \in Nat /\ Times(h, works.items) \in Nat
                   /\ Times(h, consume.items) \in Nat /\ Hands(whdr, h) \in Nat
         /\ Homes(t) \in Nat
         /\ Homes(t)' = Times(t, runQueue)' + Sleeping(t)' + Ended(t)'
                        + (Times(HeaderOf[t], batch)' + Times(HeaderOf[t], works.items)'
                           + Times(HeaderOf[t], consume.items)' + Hands(whdr, HeaderOf[t])')
<1>1. /\ runQueue \in Seq(Tasks) /\ batch \in Seq(Headers)
      /\ works.items \in Seq(Headers) /\ consume.items \in Seq(Headers)
      /\ whdr \in [Workers -> Headers \cup {NoHeader}]
  BY DEF TypeInv, TypeOK, BrokerTypeOK, LfQueue
<1>2. Times(t, runQueue) \in Nat
  BY <1>1, TimesSteps
<1>3. ASSUME NEW h
      PROVE  /\ Times(h, batch) \in Nat /\ Times(h, works.items) \in Nat
             /\ Times(h, consume.items) \in Nat /\ Hands(whdr, h) \in Nat
  <2>1. /\ Times(h, batch) \in Nat /\ Times(h, works.items) \in Nat
        /\ Times(h, consume.items) \in Nat
    BY <1>1, TimesSteps
  <2>2. {w \in Workers : whdr[w] = h} \subseteq Workers
    OBVIOUS
  <2>3. Hands(whdr, h) \in Nat
    BY <2>2, FS_Subset, FS_CardinalityType, BrokerAssumption DEF Hands
  <2> QED BY <2>1, <2>3
<1>4. Sleeping(t) \in Nat
  <2>1. {r \in timers : r.task = t} \subseteq timers
    OBVIOUS
  <2> QED BY <2>1, FS_Subset, FS_CardinalityType DEF Sleeping
<1>5. Ended(t) \in Nat
  <2>1. IsFiniteSet({t}) /\ done \cap {t} \subseteq {t}
    BY FS_Singleton
  <2> QED BY <2>1, FS_Subset, FS_CardinalityType DEF Ended
<1>6. Homes(t) = Times(t, runQueue) + Sleeping(t) + Ended(t)
                       + (Times(HeaderOf[t], batch) + Times(HeaderOf[t], works.items)
                          + Times(HeaderOf[t], consume.items) + Hands(whdr, HeaderOf[t]))
  BY DEF Homes, Outstanding, Sleeping, Ended, Hands
<1>7. Homes(t)' = Times(t, runQueue)' + Sleeping(t)' + Ended(t)'
                       + (Times(HeaderOf[t], batch)' + Times(HeaderOf[t], works.items)'
                          + Times(HeaderOf[t], consume.items)' + Hands(whdr, HeaderOf[t])')
  BY DEF Homes, Outstanding, Sleeping, Ended, Hands
<1> QED BY <1>2, <1>3, <1>4, <1>5, <1>6, <1>7

\* A step that only moves tasks from one place to another.
LEMMA Moved ==
  ASSUME OneHome, \A t \in Tasks : Homes(t)' = Homes(t), dropped' = dropped,
         lpc' \notin Cleaning => lpc \notin Cleaning
  PROVE  OneHome'
<1>1. Lost' = Lost
  BY DEF Lost
<1>2. \A t \in Tasks : Homes(t)' <= 1
  BY HomeParts DEF Homed
<1>3. lpc' \notin Cleaning => Cardinality(Lost') = dropped'
  BY <1>1, HomeParts DEF Homed
<1> QED BY <1>2, <1>3, HomeParts DEF Homed

\* A step of which the places know nothing.
LEMMA Unmoved ==
  ASSUME OneHome, UNCHANGED <<runQueue, timers, done, batch, whdr, dropped>>,
         works'.items = works.items, consume'.items = consume.items,
         lpc' \notin Cleaning => lpc \notin Cleaning
  PROVE  OneHome'
<1>1. \A t \in Tasks : Homes(t)' = Homes(t)
  BY DEF Homes, Outstanding
<1> QED BY <1>1, Moved

-----------------------------------------------------------------------------
\* Initially every task is in the run queue, once.
LEMMA InitHomeInv == Init => HomeInv
<1> SUFFICES ASSUME Init PROVE HomeInv
  OBVIOUS
<1> DEFINE n == Cardinality(Tasks)
<1>0. TypeInv
  BY InitTypeInv
<1>1. n \in Nat /\ IsFiniteSet(1 .. n) /\ Cardinality(1 .. n) = n
  BY LoopAssumption, FS_CardinalityType, FS_Interval
<1>2. /\ runQueue \in [1 .. n -> Tasks]
      /\ \A t \in Tasks : \E i \in DOMAIN runQueue : runQueue[i] = t
  BY DEF Init
<1> HIDE DEF n
<1>3. runQueue \in Surjection(1 .. n, Tasks)
  BY <1>2 DEF Surjection
<1>4. runQueue \in Injection(1 .. n, Tasks)
  BY <1>1, <1>3, FS_Surjection DEF n
<1>5. ASSUME NEW t \in Tasks PROVE Times(t, runQueue) = 1
  <2>1. PICK i \in 1 .. n : runQueue[i] = t
    BY <1>2
  <2>2. {j \in DOMAIN runQueue : runQueue[j] = t} = {i}
    BY <1>2, <1>4, <2>1 DEF Injection, IsInjective
  <2> QED BY <2>2, FS_Singleton DEF Times
<1>6. /\ timers = {} /\ IsFiniteSet(timers) /\ done = {} /\ dropped = 0 /\ lpc = "run"
      /\ batch = << >> /\ works.items = << >> /\ consume.items = << >>
      /\ \A w \in Workers : whdr[w] = NoHeader
  BY FS_EmptySet DEF Init, BrokerInit, LfStart
<1>7. \A h \in Headers : entry[h] = NoTask
  BY DEF Init
<1>8. ASSUME NEW t \in Tasks PROVE Homes(t) = 1
  <2> DEFINE h == HeaderOf[t]
  <2>1. h \in Headers
    BY LoopAssumption
  <2>2. Times(h, << >>) = 0
    <3>1. {i \in DOMAIN << >> : << >>[i] = h} = {}
      OBVIOUS
    <3> QED BY <3>1, FS_EmptySet DEF Times
  <2>3. Sleeping(t) = 0
    <3>1. {r \in timers : r.task = t} = {}
      BY <1>6
    <3> QED BY <3>1, FS_EmptySet DEF Sleeping
  <2>4. Ended(t) = 0
    <3>1. done \cap {t} = {}
      BY <1>6
    <3> QED BY <3>1, FS_EmptySet DEF Ended
  <2>5. Hands(whdr, h) = 0
    <3>1. {w \in Workers : whdr[w] = h} = {}
      BY <1>6, <2>1, BrokerAssumption
    <3> QED BY <3>1, FS_EmptySet DEF Hands
  <2> QED BY <1>0, <1>5, <1>6, <2>2, <2>3, <2>4, <2>5, HomeSum
<1>9. Lost = {}
  BY <1>8 DEF Lost
<1>10. Homed
  <2>1. Cardinality(Lost) = dropped
    BY <1>6, <1>9, FS_EmptySet
  <2>2. \A t \in Tasks : Homes(t) <= 1
    BY <1>8
  <2> QED BY <2>1, <2>2 DEF Homed
<1>11. \A h \in Headers : entry[h] \in Tasks => HeaderOf[entry[h]] = h
  BY <1>7, LoopAssumption
<1> QED BY <1>6, <1>10, <1>11, HomeParts DEF HomeInv

\* Worker steps move a header along.
LEMMA WorkerHomeInv ==
  ASSUME TypeInv, HomeInv, NEW w \in Workers, Worker(w), UNCHANGED loopVars
  PROVE  HomeInv'
<1>1. /\ UNCHANGED <<lpc, runQueue, timers, batch, entry, dropped, done>>
      /\ BrokerTypeOK /\ wpc \in [Workers -> WorkerPc]
      /\ whdr \in [Workers -> Headers \cup {NoHeader}]
      /\ works \in LfQueue /\ consume \in LfQueue
      /\ works.items \in Seq(Headers) /\ consume.items \in Seq(Headers)
      /\ OneHome /\ IsFiniteSet(timers)
  BY DEF loopVars, taskVars, TypeInv, TypeOK, BrokerTypeOK, LfQueue, HomeInv
<1>2. TypeInv'
  BY WorkerTypeInv
<1>3. ASSUME OneHome',
             \A v \in Workers : wpc'[v] \notin Holding => whdr'[v] = NoHeader
      PROVE  HomeInv'
  BY <1>1, <1>3 DEF HomeInv
<1>4. ASSUME works'.items = works.items, consume'.items = consume.items, whdr' = whdr,
             NEW to, GoTo(w, to), to \in Holding \/ wpc[w] \notin Holding
      PROVE  HomeInv'
  <2>1. \A v \in Workers : wpc'[v] = IF v = w THEN to ELSE wpc[v]
    BY <1>1, <1>4 DEF GoTo
  <2>2. \A v \in Workers : wpc'[v] \notin Holding => whdr'[v] = NoHeader
    BY <1>4, <2>1 DEF HomeInv
  <2>3. OneHome'
    BY <1>1, <1>4, Unmoved
  <2> QED BY <1>3, <2>2, <2>3
<1>5. CASE Enter(w) \/ Doze(w) \/ Woken(w) \/ Settle(w) \/ Leave(w) \/ CountCompleted(w)
           \/ CheckAbort(w) \/ CheckWork(w) \/ RecheckAbort(w) \/ CheckSignal(w)
           \/ SemWait(w) \/ DequeueNothing(w) \/ SendEv(w)
  <2>1. works' = works /\ consume' = consume /\ whdr' = whdr /\ wpc[w] \notin Holding
    BY <1>5 DEF Enter, Doze, Woken, Settle, Leave, CountCompleted, CheckAbort,
         CheckWork, RecheckAbort, CheckSignal, SemWait, DequeueNothing, SendEv,
         FetchAdd, Load, At, Holding
  <2>2. \E to : GoTo(w, to)
    BY <1>5 DEF Enter, Doze, Woken, Settle, Leave, CountCompleted, CheckAbort,
         CheckWork, RecheckAbort, CheckSignal, SemWait, DequeueNothing, SendEv,
         FetchAdd, Load
  <2> QED BY <1>4, <2>1, <2>2
<1>6. CASE RunAction(w) \/ PublishFull(w)
  <2>1. works' = works /\ consume' = consume /\ whdr' = whdr
        /\ \E to \in Holding : GoTo(w, to)
    BY <1>6 DEF RunAction, PublishFull, Holding
  <2> QED BY <1>4, <2>1
<1>7. CASE ChillWorks(w) \/ ChokeConsume(w)
  <2>1. /\ works'.items = works.items /\ consume'.items = consume.items /\ whdr' = whdr
    BY <1>1, <1>7 DEF ChillWorks, ChokeConsume, Chill, Choke, LfQueue
  <2>2. \E to : GoTo(w, to) /\ (to \in Holding \/ wpc[w] \notin Holding)
    BY <1>7 DEF ChillWorks, ChokeConsume, At, Holding
  <2> QED BY <1>4, <2>1, <2>2
<1>10. ASSUME NEW to, NEW g
       PROVE  Hands([whdr EXCEPT ![w] = to], g)
                = Hands(whdr, g) + Same(to, g) - Same(whdr[w], g)
  <2>1. whdr \in [Workers -> Headers \cup {NoHeader}]
    BY <1>1
  <2> QED BY ONLY <2>1, HandsMove, Zenon
<1>8. CASE DequeueWork(w)
  <2> DEFINE h == Head(works.items)
  <2>1. /\ wpc[w] = "dequeue" /\ CanTake(works) /\ works' = Take(works)
        /\ whdr' = [whdr EXCEPT ![w] = h] /\ GoTo(w, "act") /\ consume' = consume
    BY <1>8 DEF DequeueWork, At
  <2>2. /\ works'.items = Tail(works.items) /\ h \in Headers
        /\ works.items # << >>
    BY <1>1, <2>1, TakeType DEF CanTake
  <2>3. whdr[w] = NoHeader
    BY <2>1 DEF HomeInv, Holding
  <2>4. ASSUME NEW v \in Workers, wpc'[v] \notin Holding PROVE whdr'[v] = NoHeader
    <3>1. v # w
      BY <1>1, <2>1, <2>4 DEF GoTo, Holding
    <3> QED BY <1>1, <2>1, <2>4, <3>1 DEF GoTo, HomeInv
  <2>5. ASSUME NEW t \in Tasks PROVE Homes(t)' = Homes(t)
    <3> DEFINE g == HeaderOf[t]
    <3>1. g \in Headers
      BY LoopAssumption
    <3>2. /\ Times(g, works.items) = Times(g, works'.items) + Same(h, g)
          /\ Times(g, works'.items) \in Nat
      <4>1. Tail(works.items) \in Seq(Headers)
        BY <1>1, <2>2
      <4>2. Times(g, Tail(works.items)) \in Nat
        BY <4>1, TimesSteps
      <4>3. Times(g, works.items) = Times(g, Tail(works.items)) + Same(h, g)
        BY <1>1, <2>2, TimesSteps
      <4> QED BY <2>2, <4>2, <4>3
    <3>3. Hands(whdr', g) = Hands(whdr, g) + Same(h, g) - Same(NoHeader, g)
      <4>1. Hands([whdr EXCEPT ![w] = h], g)
              = Hands(whdr, g) + Same(h, g) - Same(whdr[w], g)
        BY <1>10
      <4> QED BY <2>1, <2>3, <4>1
    <3>4. Same(NoHeader, g) = 0 /\ Same(h, g) \in Int
      BY <3>1, BrokerAssumption DEF Same
    <3>5. /\ Times(t, runQueue)' = Times(t, runQueue) /\ Sleeping(t)' = Sleeping(t)
          /\ Ended(t)' = Ended(t) /\ Times(g, batch)' = Times(g, batch)
          /\ Times(g, consume.items)' = Times(g, consume.items)
      BY <1>1, <2>1 DEF Sleeping, Ended
    <3> HIDE DEF h
    <3>6. /\ Homes(t) = Times(t, runQueue) + Sleeping(t) + Ended(t)
                       + (Times(g, batch) + Times(g, works.items)
                          + Times(g, consume.items) + Hands(whdr, g))
          /\ Times(t, runQueue) \in Nat /\ Sleeping(t) \in Nat /\ Ended(t) \in Nat
          /\ Times(g, batch) \in Nat /\ Times(g, works.items) \in Nat
          /\ Times(g, consume.items) \in Nat /\ Hands(whdr, g) \in Nat
      BY <1>1, HomeSum
    <3>7. Homes(t)' = Times(t, runQueue)' + Sleeping(t)' + Ended(t)'
                       + (Times(g, batch)' + Times(g, works.items)'
                          + Times(g, consume.items)' + Hands(whdr, g)')
      BY <1>1, HomeSum
    <3> QED BY <3>2, <3>3, <3>4, <3>5, <3>6, <3>7
  <2> QED BY <1>1, <1>3, <2>4, <2>5, Moved
<1>9. CASE Publish(w)
  <2> DEFINE h == whdr[w]
  <2>1. /\ wpc[w] = "publish" /\ CanPut(consume) /\ consume' = Put(consume, h)
        /\ whdr' = [whdr EXCEPT ![w] = NoHeader] /\ GoTo(w, "count") /\ works' = works
    BY <1>9 DEF Publish, At
  <2>2. h \in Headers
    BY <2>1 DEF TypeInv, Carried, Holding, Waited
  <2>3. consume'.items = Append(consume.items, h)
    BY <1>1, <2>1, <2>2, PutType
  <2>4. ASSUME NEW v \in Workers, wpc'[v] \notin Holding PROVE whdr'[v] = NoHeader
    <3>1. CASE v = w
      BY <1>1, <2>1, <3>1
    <3>2. CASE v # w
      BY <1>1, <2>1, <2>4, <3>2 DEF GoTo, HomeInv
    <3> QED BY <3>1, <3>2
  <2>5. ASSUME NEW t \in Tasks PROVE Homes(t)' = Homes(t)
    <3> DEFINE g == HeaderOf[t]
    <3>1. g \in Headers
      BY LoopAssumption
    <3>2. Times(g, consume'.items) = Times(g, consume.items) + Same(h, g)
      BY <1>1, <2>2, <2>3, TimesSteps
    <3>3. Hands(whdr', g) = Hands(whdr, g) + Same(NoHeader, g) - Same(h, g)
      <4>1. Hands([whdr EXCEPT ![w] = NoHeader], g)
              = Hands(whdr, g) + Same(NoHeader, g) - Same(whdr[w], g)
        BY <1>10
      <4> QED BY <2>1, <4>1
    <3>4. Same(NoHeader, g) = 0 /\ Same(h, g) \in Int
      BY <3>1, BrokerAssumption DEF Same
    <3>5. /\ Times(t, runQueue)' = Times(t, runQueue) /\ Sleeping(t)' = Sleeping(t)
          /\ Ended(t)' = Ended(t) /\ Times(g, batch)' = Times(g, batch)
          /\ Times(g, works.items)' = Times(g, works.items)
      BY <1>1, <2>1 DEF Sleeping, Ended
    <3> HIDE DEF h
    <3>6. /\ Homes(t) = Times(t, runQueue) + Sleeping(t) + Ended(t)
                       + (Times(g, batch) + Times(g, works.items)
                          + Times(g, consume.items) + Hands(whdr, g))
          /\ Times(t, runQueue) \in Nat /\ Sleeping(t) \in Nat /\ Ended(t) \in Nat
          /\ Times(g, batch) \in Nat /\ Times(g, works.items) \in Nat
          /\ Times(g, consume.items) \in Nat /\ Hands(whdr, g) \in Nat
      BY <1>1, HomeSum
    <3>7. Homes(t)' = Times(t, runQueue)' + Sleeping(t)' + Ended(t)'
                       + (Times(g, batch)' + Times(g, works.items)'
                          + Times(g, consume.items)' + Hands(whdr, g)')
      BY <1>1, HomeSum
    <3> QED BY <3>2, <3>3, <3>4, <3>5, <3>6, <3>7
  <2> QED BY <1>1, <1>3, <2>4, <2>5, Moved
<1> QED BY <1>5, <1>6, <1>7, <1>8, <1>9 DEF Worker

\* The loop pushes, pops and erases without losing a task, except where a full
\* queue refuses a request and where clean() empties the run queue.
LEMMA LoopHomeInv ==
  ASSUME OwnFiles, TypeInv, HomeInv, Loop \/ PollInterrupted \/ Tick
  PROVE  HomeInv'
<1>1. /\ runQueue \in Seq(Tasks) /\ batch \in Seq(Headers)
      /\ works \in LfQueue /\ consume \in LfQueue
      /\ works.items \in Seq(Headers) /\ consume.items \in Seq(Headers)
      /\ timers \subseteq [task : Tasks, expires : Nat] /\ done \subseteq Tasks
      /\ entry \in [Headers -> Tasks \cup {NoTask}] /\ dropped \in Nat
      /\ OneHome /\ Homed /\ IsFiniteSet(timers)
      /\ \A t \in Tasks : HeaderOf[t] \in Headers
  BY HomeParts, LoopAssumption DEF TypeInv, TypeOK, BrokerTypeOK, LfQueue, HomeInv
<1>2. ASSUME OneHome', entry' = entry, timers' = timers, whdr' = whdr, wpc' = wpc
      PROVE  HomeInv'
  BY <1>2 DEF HomeInv
<1>3. ASSUME NEW t \in Tasks
      PROVE  LET g == HeaderOf[t] IN
         /\ Homes(t) = Times(t, runQueue) + Sleeping(t) + Ended(t)
                       + (Times(g, batch) + Times(g, works.items)
                          + Times(g, consume.items) + Hands(whdr, g))
         /\ Homes(t)' = Times(t, runQueue)' + Sleeping(t)' + Ended(t)'
                        + (Times(g, batch)' + Times(g, works.items)'
                           + Times(g, consume.items)' + Hands(whdr, g)')
         /\ Times(t, runQueue) \in Nat /\ Sleeping(t) \in Nat /\ Ended(t) \in Nat
         /\ Times(g, batch) \in Nat /\ Times(g, works.items) \in Nat
         /\ Times(g, consume.items) \in Nat /\ Hands(whdr, g) \in Nat
  BY <1>1, HomeSum
<1>4. CASE RunStart \/ ReadCompleted \/ ReadPending \/ ClearWakedUp \/ PollEvent
           \/ PollTimeout \/ PollInterrupted \/ MarkWakedUp \/ ReadQueued \/ DrainEvfd
           \/ SubtractQueued \/ YieldDone \/ ChokeWorks \/ AddPending \/ Ping
  <2>1. /\ UNCHANGED <<runQueue, timers, done, batch, entry, whdr, wpc, dropped>>
        /\ consume' = consume /\ lpc \notin Cleaning
    BY <1>4 DEF RunStart, ReadCompleted, ReadPending, ClearWakedUp, PollEvent,
         PollTimeout, PollInterrupted, MarkWakedUp, ReadQueued, DrainEvfd,
         SubtractQueued, YieldDone, ChokeWorks, AddPending, Ping, Step, Cleaning,
         KeepBroker, KeepTasks, brokerVars, taskVars
  <2>2. works'.items = works.items
    BY <1>1, <1>4 DEF RunStart, ReadCompleted, ReadPending, ClearWakedUp, PollEvent,
         PollTimeout, PollInterrupted, MarkWakedUp, ReadQueued, DrainEvfd,
         SubtractQueued, YieldDone, ChokeWorks, AddPending, Ping, Choke, LfQueue,
         KeepBroker, brokerVars
  <2> QED BY <1>1, <1>2, <2>1, <2>2, Unmoved
<1>5. CASE ReadClock \/ ExpireDone \/ LoadWorkers \/ StoreAbort \/ PingWorkers
           \/ AwaitWorkers \/ Tick \/ \E t \in Tasks : Yield(t)
  <2>1. /\ UNCHANGED <<runQueue, timers, done, batch, entry, whdr, wpc, dropped>>
        /\ consume' = consume /\ works' = works
        /\ lpc' \notin Cleaning => lpc \notin Cleaning
    BY <1>5 DEF ReadClock, ExpireDone, LoadWorkers, StoreAbort, PingWorkers,
         AwaitWorkers, Tick, Yield, Running, Step, Cleaning,
         KeepBroker, KeepTasks, brokerVars, taskVars
  <2> QED BY <1>1, <1>2, <2>1, Unmoved
<1>6. CASE PopCompleted
  <2>1. CASE ~CanTake(consume)
    <3>1. /\ UNCHANGED <<runQueue, timers, done, batch, entry, whdr, wpc, dropped>>
          /\ consume' = consume /\ works' = works /\ lpc \notin Cleaning
      BY <1>6, <2>1 DEF PopCompleted, Step, Cleaning
    <3> QED BY <1>1, <1>2, <3>1, Unmoved
  <2>2. CASE CanTake(consume)
    <3> DEFINE h == Head(consume.items)  u == entry[h]
    <3>1. /\ UNCHANGED <<timers, done, batch, entry, whdr, wpc, dropped, works>>
          /\ consume' = Take(consume) /\ runQueue' = Append(runQueue, u)
          /\ lpc \notin Cleaning
      BY <1>6, <2>2 DEF PopCompleted, Step, Cleaning
    <3>2. consume'.items = Tail(consume.items) /\ consume.items # << >> /\ h \in Headers
      BY <1>1, <2>2, <3>1, TakeType DEF CanTake
    <3>3. u \in Tasks /\ HeaderOf[u] = h
      <4>1. consume.items \in Seq(Waited)
        BY DEF TypeInv, Carried
      <4>2. h \in Waited
        BY <3>2, <4>1
      <4> QED BY <4>2 DEF Waited, HomeInv
    <3> HIDE DEF h, u
    <3>4. ASSUME NEW t \in Tasks PROVE Homes(t)' = Homes(t)
      <4> DEFINE g == HeaderOf[t]
      <4>1. Times(t, runQueue') = Times(t, runQueue) + Same(u, t)
        BY <1>1, <3>1, <3>3, TimesSteps
      <4>2. /\ Times(g, consume.items) = Times(g, consume'.items) + Same(h, g)
            /\ Times(g, consume'.items) \in Nat
        <5>1. Tail(consume.items) \in Seq(Headers)
          BY <1>1, <3>2
        <5>2. Times(g, Tail(consume.items)) \in Nat
          BY <5>1, TimesSteps
        <5>3. Times(g, consume.items) = Times(g, Tail(consume.items)) + Same(h, g)
          BY <1>1, <3>2, TimesSteps DEF h
        <5> QED BY <3>2, <5>2, <5>3
      <4>3. Same(h, g) = Same(u, t) /\ Same(u, t) \in Int
        BY <3>3 DEF Same, OwnFiles
      <4>4. /\ Sleeping(t)' = Sleeping(t) /\ Ended(t)' = Ended(t)
            /\ Times(g, batch)' = Times(g, batch)
            /\ Times(g, works.items)' = Times(g, works.items)
            /\ Hands(whdr, g)' = Hands(whdr, g)
        BY <3>1 DEF Sleeping, Ended
      <4> QED BY <1>3, <4>1, <4>2, <4>3, <4>4
    <3> QED BY <1>1, <1>2, <3>1, <3>4, Moved
  <2> QED BY <2>1, <2>2
<1>7. CASE PushRequest
  <2> DEFINE h == Head(batch)
  <2>1. /\ UNCHANGED <<runQueue, timers, done, entry, whdr, wpc, dropped, consume>>
        /\ works' = Put(works, h) /\ batch' = Tail(batch) /\ batch # << >>
        /\ CanPut(works) /\ lpc \notin Cleaning
    BY <1>7 DEF PushRequest, Step, Cleaning
  <2>2. h \in Headers /\ Tail(batch) \in Seq(Headers)
    BY <1>1, <2>1
  <2>3. works'.items = Append(works.items, h)
    BY <1>1, <2>1, <2>2, PutType
  <2>4. ASSUME NEW t \in Tasks PROVE Homes(t)' = Homes(t)
    <3> DEFINE g == HeaderOf[t]
    <3>1. Times(g, works'.items) = Times(g, works.items) + Same(h, g)
      BY <1>1, <2>2, <2>3, TimesSteps
    <3>2. Times(g, batch) = Times(g, Tail(batch)) + Same(h, g)
      BY <1>1, <2>1, TimesSteps
    <3>3. Times(g, Tail(batch)) \in Nat
      BY <2>2, TimesSteps
    <3>4. Same(h, g) \in Int
      BY DEF Same
    <3>5. /\ Sleeping(t)' = Sleeping(t) /\ Ended(t)' = Ended(t)
          /\ Times(t, runQueue)' = Times(t, runQueue)
          /\ Times(g, consume.items)' = Times(g, consume.items)
          /\ Hands(whdr, g)' = Hands(whdr, g)
          /\ Times(g, batch)' = Times(g, Tail(batch))
      BY <2>1 DEF Sleeping, Ended
    <3> HIDE DEF h
    <3> QED BY <1>3, <3>1, <3>2, <3>3, <3>4, <3>5
  <2> QED BY <1>1, <1>2, <2>1, <2>4, Moved
<1>8. CASE PushRefused
  <2> DEFINE h == Head(batch)  u == entry[h]
  <2>1. /\ UNCHANGED <<runQueue, timers, done, entry, whdr, wpc, works, consume>>
        /\ batch' = Tail(batch) /\ batch # << >> /\ dropped' = dropped + 1
        /\ lpc \notin Cleaning
    BY <1>8 DEF PushRefused, KeepBroker, brokerVars, Step, Cleaning
  <2>2. h \in Headers /\ Tail(batch) \in Seq(Headers)
    BY <1>1, <2>1
  <2>3. u \in Tasks /\ HeaderOf[u] = h
    <3>1. batch \in Seq(Waited)
      BY DEF TypeInv, Carried
    <3>2. h \in Waited
      BY <2>1, <3>1
    <3> QED BY <3>2 DEF Waited, HomeInv
  <2> HIDE DEF h, u
  <2>4. ASSUME NEW t \in Tasks
        PROVE  /\ Homes(t)' = Homes(t) - Same(u, t) /\ Homes(t) \in Nat
               /\ t = u => Homes(t) >= 1 /\ Same(u, t) = 1
               /\ t # u => Same(u, t) = 0
    <3> DEFINE g == HeaderOf[t]
    <3>2. Times(g, batch) = Times(g, Tail(batch)) + Same(h, g)
      BY <1>1, <2>1, TimesSteps DEF h
    <3>3. Times(g, Tail(batch)) \in Nat
      BY <2>2, TimesSteps
    <3>4. Same(h, g) = Same(u, t) /\ Same(u, t) \in Int
      BY <2>3 DEF Same, OwnFiles
    <3>5. /\ Sleeping(t)' = Sleeping(t) /\ Ended(t)' = Ended(t)
          /\ Times(t, runQueue)' = Times(t, runQueue)
          /\ Times(g, consume.items)' = Times(g, consume.items)
          /\ Times(g, works.items)' = Times(g, works.items)
          /\ Hands(whdr, g)' = Hands(whdr, g)
          /\ Times(g, batch)' = Times(g, Tail(batch))
      BY <2>1 DEF Sleeping, Ended
    <3>6. /\ t = u => Same(u, t) = 1
          /\ t # u => Same(u, t) = 0
      BY DEF Same
    <3>7. Homes(t)' = Homes(t) - Same(u, t) /\ Homes(t) \in Nat
      BY <1>3, <3>2, <3>3, <3>4, <3>5
    <3>8. t = u => Homes(t) >= 1
      BY <1>3, <3>2, <3>3, <3>4, <3>6
    <3> QED BY <3>6, <3>7, <3>8
  <2>5. ASSUME NEW t \in Tasks
        PROVE  /\ Homes(t)' <= 1
               /\ t = u => Homes(t) = 1 /\ Homes(t)' = 0
               /\ t # u => Homes(t)' = Homes(t)
    BY <1>1, <2>4 DEF Homed
  <2>6. Lost' = Lost \cup {u} /\ u \notin Lost
    BY <2>3, <2>5 DEF Lost
  <2>7. IsFiniteSet(Lost)
    <3>1. Lost \subseteq Tasks
      BY DEF Lost
    <3> QED BY <3>1, LoopAssumption, FS_Subset
  <2>8. Cardinality(Lost') = Cardinality(Lost) + 1
    BY <2>6, <2>7, FS_AddElement
  <2>9. Cardinality(Lost') = dropped'
    BY <1>1, <2>1, <2>8 DEF Homed
  <2>10. Homed'
    BY <2>5, <2>9 DEF Homed
  <2> QED BY <1>2, <2>1, <2>10, HomeParts
<1>9. CASE CleanQueue
  <2>1. /\ UNCHANGED <<timers, done, batch, entry, whdr, wpc, dropped, works, consume>>
        /\ runQueue' = << >> /\ lpc' \in Cleaning
    BY <1>9 DEF CleanQueue, KeepBroker, brokerVars, Step, Cleaning
  <2>2. ASSUME NEW t \in Tasks PROVE Homes(t)' <= 1
    <3> DEFINE g == HeaderOf[t]
    <3>1. Times(t, runQueue') = 0
      <4>1. {i \in DOMAIN runQueue' : runQueue'[i] = t} = {}
        BY <2>1
      <4> QED BY <4>1, FS_EmptySet DEF Times
    <3>2. /\ Sleeping(t)' = Sleeping(t) /\ Ended(t)' = Ended(t)
          /\ Times(g, consume.items)' = Times(g, consume.items)
          /\ Times(g, works.items)' = Times(g, works.items)
          /\ Hands(whdr, g)' = Hands(whdr, g)
          /\ Times(g, batch)' = Times(g, batch)
      BY <2>1 DEF Sleeping, Ended
    <3>3. Homes(t)' <= Homes(t) /\ Homes(t) <= 1
      BY <1>1, <1>3, <3>1, <3>2 DEF Homed
    <3>4. Homes(t)' \in Nat /\ Homes(t) \in Nat
      BY <1>3, <3>1, <3>2
    <3> QED BY <3>3, <3>4
  <2>3. Homed'
    BY <2>1, <2>2 DEF Homed
  <2> QED BY <1>2, <2>1, <2>3, HomeParts
<1>10. CASE PushExpired
  <2>1. PICK r \in timers :
          /\ runQueue' = Append(runQueue, r.task) /\ timers' = timers \ {r}
          /\ UNCHANGED <<done, batch, entry, whdr, wpc, dropped, works, consume>>
          /\ lpc \notin Cleaning
    BY <1>10 DEF PushExpired, KeepBroker, brokerVars, Step, Cleaning
  <2>2. r.task \in Tasks
    BY <1>1
  <2>3. ASSUME NEW t \in Tasks PROVE Homes(t)' = Homes(t)
    <3> DEFINE g == HeaderOf[t]  R == {q \in timers : q.task = t}
    <3>1. Times(t, runQueue') = Times(t, runQueue) + Same(r.task, t)
      BY <1>1, <2>1, <2>2, TimesSteps
    <3>2. {q \in timers' : q.task = t} = R \ {r}
      BY <2>1
    <3>3. IsFiniteSet(R)
      BY <1>1, FS_Subset
    <3>4. r \in R <=> r.task = t
      OBVIOUS
    <3>5. Cardinality(R \ {r}) = Cardinality(R) - Same(r.task, t)
      <4>1. Cardinality(R) \in Nat
        BY <3>3, FS_CardinalityType
      <4>2. Cardinality(R \ {r})
              = IF r \in R THEN Cardinality(R) - 1 ELSE Cardinality(R)
        BY <3>3, FS_RemoveElement
      <4> HIDE DEF R
      <4> QED BY <3>4, <4>1, <4>2 DEF Same
    <3>6. Sleeping(t)' = Sleeping(t) - Same(r.task, t) /\ Same(r.task, t) \in Int
      BY <3>2, <3>5 DEF Sleeping, Same
    <3>7. /\ Ended(t)' = Ended(t) /\ Times(g, batch)' = Times(g, batch)
          /\ Times(g, works.items)' = Times(g, works.items)
          /\ Times(g, consume.items)' = Times(g, consume.items)
          /\ Hands(whdr, g)' = Hands(whdr, g)
      BY <2>1 DEF Ended
    <3> HIDE DEF R
    <3> QED BY <1>3, <3>1, <3>6, <3>7
  <2>4. OneHome'
    BY <1>1, <2>1, <2>3, Moved
  <2>5. IsFiniteSet(timers')
    BY <1>1, <2>1, FS_Subset
  <2> QED BY <2>1, <2>4, <2>5 DEF HomeInv
<1> DEFINE Leaves(t) == /\ lpc = "yield" /\ lpc' = lpc /\ runQueue # << >>
                        /\ t = Head(runQueue) /\ runQueue' = Tail(runQueue)
\* The task at the head is nowhere else.
<1>11. ASSUME NEW t \in Tasks, Leaves(t), NEW u \in Tasks
       PROVE  /\ Times(u, runQueue') = Times(u, runQueue) - Same(t, u)
              /\ Same(t, u) \in Int
              /\ u = t => /\ Same(t, u) = 1 /\ Sleeping(t) = 0 /\ Ended(t) = 0
                          /\ Homes(t) = 1 /\ Times(HeaderOf[t], batch) = 0
              /\ u # t => Same(t, u) = 0
  <2>1. /\ Times(u, runQueue) = Times(u, Tail(runQueue)) + Same(t, u)
        /\ Times(u, Tail(runQueue)) \in Nat
    <3>1. Tail(runQueue) \in Seq(Tasks)
      BY <1>1, <1>11
    <3>2. Times(u, Tail(runQueue)) \in Nat
      BY <3>1, TimesSteps
    <3>3. Times(u, runQueue) = Times(u, Tail(runQueue)) + Same(t, u)
      BY <1>1, <1>11, TimesSteps
    <3> QED BY <3>2, <3>3
  <2>2. (u = t => Same(t, u) = 1) /\ (u # t => Same(t, u) = 0) /\ Same(t, u) \in Int
    BY DEF Same
  <2>3. Homes(u) <= 1
    BY <1>1 DEF Homed
  <2>4. ASSUME u = t
        PROVE  /\ Sleeping(t) = 0 /\ Ended(t) = 0
               /\ Homes(t) = 1 /\ Times(HeaderOf[t], batch) = 0
    <3> DEFINE g == HeaderOf[u]
    <3>1. Times(u, runQueue) >= 1
      BY <2>1, <2>2, <2>4
    <3>2. /\ Homes(u) = Times(u, runQueue) + Sleeping(u) + Ended(u)
                       + (Times(g, batch) + Times(g, works.items)
                          + Times(g, consume.items) + Hands(whdr, g))
          /\ Times(u, runQueue) \in Nat /\ Sleeping(u) \in Nat /\ Ended(u) \in Nat
          /\ Times(g, batch) \in Nat /\ Times(g, works.items) \in Nat
          /\ Times(g, consume.items) \in Nat /\ Hands(whdr, g) \in Nat
      BY <1>3
    <3>3. /\ Sleeping(u) = 0 /\ Ended(u) = 0 /\ Homes(u) = 1 /\ Times(g, batch) = 0
      BY <2>3, <3>1, <3>2
    <3> QED BY <2>4, <3>3
  <2>5. Times(u, runQueue') = Times(u, runQueue) - Same(t, u)
    BY <1>11, <2>1, <2>2
  <2> QED BY <2>2, <2>4, <2>5
<1>12. ASSUME NEW t \in Tasks, Finish(t) PROVE HomeInv'
  <2>1. /\ Leaves(t) /\ done' = done \cup {t}
        /\ UNCHANGED <<timers, batch, entry, whdr, wpc, dropped, works, consume>>
    BY <1>12 DEF Finish, Running, KeepBroker, brokerVars
  <2>2. ASSUME NEW u \in Tasks PROVE Homes(u)' = Homes(u)
    <3> DEFINE g == HeaderOf[u]
    <3>1. Ended(u)' = Ended(u) + Same(t, u)
      <4>1. CASE u = t
        <5>1. done' \cap {t} = {t}
          BY <2>1
        <5>2. Ended(t)' = 1
          BY <5>1, FS_Singleton DEF Ended
        <5> QED BY <1>11, <2>1, <4>1, <5>2
      <4>2. CASE u # t
        <5>1. done' \cap {u} = done \cap {u}
          BY <2>1, <4>2
        <5>2. Ended(u)' = Ended(u) /\ Ended(u) \in Nat
          BY <1>3, <5>1 DEF Ended
        <5>3. Same(t, u) = 0
          BY <4>2 DEF Same
        <5> QED BY <5>2, <5>3
      <4> QED BY <4>1, <4>2
    <3>2. /\ Times(u, runQueue') = Times(u, runQueue) - Same(t, u)
          /\ Same(t, u) \in Int
      BY <1>11, <2>1
    <3>3. /\ Sleeping(u)' = Sleeping(u) /\ Times(g, batch)' = Times(g, batch)
          /\ Times(g, works.items)' = Times(g, works.items)
          /\ Times(g, consume.items)' = Times(g, consume.items)
          /\ Hands(whdr, g)' = Hands(whdr, g)
      BY <2>1 DEF Sleeping
    <3> QED BY <1>3, <3>1, <3>2, <3>3
  <2>3. lpc \notin Cleaning
    BY <2>1 DEF Cleaning
  <2>4. OneHome'
    BY <1>1, <2>1, <2>2, <2>3, Moved
  <2> QED BY <1>2, <2>1, <2>4
<1>13. ASSUME NEW t \in Tasks, Sleep(t) PROVE HomeInv'
  <2>1. PICK d \in Delays :
          timers' = timers \cup {[task |-> t, expires |-> now + d * TicksPerMs]}
    BY <1>13 DEF Sleep
  <2> DEFINE r == [task |-> t, expires |-> now + d * TicksPerMs]
  <2>2. /\ Leaves(t)
        /\ UNCHANGED <<done, batch, entry, whdr, wpc, dropped, works, consume>>
    BY <1>13 DEF Sleep, Running, KeepBroker, brokerVars
  <2>3. ASSUME NEW u \in Tasks PROVE Homes(u)' = Homes(u)
    <3> DEFINE g == HeaderOf[u]  R == {q \in timers : q.task = u}
    <3>1. Sleeping(u)' = Sleeping(u) + Same(t, u)
      <4>0. IsFiniteSet(R)
        BY <1>1, FS_Subset
      <4>1. CASE u = t
        <5>1. Cardinality(R) = 0
          BY <1>11, <2>2, <4>1 DEF Sleeping
        <5>2. R = {}
          BY <4>0, <5>1, FS_EmptySet
        <5>3. {q \in timers' : q.task = u} = {r}
          BY <2>1, <4>1, <5>2
        <5>4. Sleeping(u)' = 1
          BY <5>3, FS_Singleton DEF Sleeping
        <5> QED BY <1>11, <2>2, <4>1, <5>4
      <4>2. CASE u # t
        <5>1. {q \in timers' : q.task = u} = R
          BY <2>1, <4>2
        <5>2. Sleeping(u)' = Sleeping(u) /\ Sleeping(u) \in Nat
          BY <1>3, <5>1 DEF Sleeping
        <5>3. Same(t, u) = 0
          BY <4>2 DEF Same
        <5> QED BY <5>2, <5>3
      <4> QED BY <4>1, <4>2
    <3>2. /\ Times(u, runQueue') = Times(u, runQueue) - Same(t, u)
          /\ Same(t, u) \in Int
      BY <1>11, <2>2
    <3>3. /\ Ended(u)' = Ended(u) /\ Times(g, batch)' = Times(g, batch)
          /\ Times(g, works.items)' = Times(g, works.items)
          /\ Times(g, consume.items)' = Times(g, consume.items)
          /\ Hands(whdr, g)' = Hands(whdr, g)
      BY <2>2 DEF Ended
    <3> QED BY <1>3, <3>1, <3>2, <3>3
  <2>4. lpc \notin Cleaning
    BY <2>2 DEF Cleaning
  <2>5. OneHome'
    BY <1>1, <2>2, <2>3, <2>4, Moved
  <2>6. IsFiniteSet(timers')
    BY <1>1, <2>1, FS_AddElement
  <2> QED BY <2>2, <2>5, <2>6 DEF HomeInv
<1>14. ASSUME NEW t \in Tasks, ReadFile(t) PROVE HomeInv'
  <2> DEFINE h == HeaderOf[t]
  <2>0. h \in Headers
    BY <1>1
  <2>1. CASE h \in fresh
    <3>1. /\ UNCHANGED <<runQueue, timers, done, batch, entry, whdr, wpc, dropped,
                         works, consume>>
          /\ lpc \notin Cleaning
      BY <1>14, <2>1 DEF ReadFile, Running, Cleaning
    <3> QED BY <1>1, <1>2, <3>1, Unmoved
  <2>2. CASE h \notin fresh
    <3>1. /\ Leaves(t) /\ batch' = Append(batch, h)
          /\ entry' = [entry EXCEPT ![h] = t]
          /\ UNCHANGED <<timers, done, whdr, wpc, dropped, works, consume>>
      BY <1>14, <2>2 DEF ReadFile, Running
    <3>2. ASSUME NEW u \in Tasks PROVE Homes(u)' = Homes(u)
      <4> DEFINE g == HeaderOf[u]
      <4>1. Times(g, batch') = Times(g, batch) + Same(h, g)
        BY <1>1, <2>0, <3>1, TimesSteps
      <4>2. Same(h, g) = Same(t, u)
        BY DEF Same, OwnFiles
      <4>3. /\ Times(u, runQueue') = Times(u, runQueue) - Same(t, u)
            /\ Same(t, u) \in Int
        BY <1>11, <3>1
      <4>4. /\ Ended(u)' = Ended(u) /\ Sleeping(u)' = Sleeping(u)
            /\ Times(g, works.items)' = Times(g, works.items)
            /\ Times(g, consume.items)' = Times(g, consume.items)
            /\ Hands(whdr, g)' = Hands(whdr, g)
        BY <3>1 DEF Ended, Sleeping
      <4> HIDE DEF h
      <4> QED BY <1>3, <4>1, <4>2, <4>3, <4>4
    <3>3. lpc \notin Cleaning
      BY <3>1 DEF Cleaning
    <3>4. OneHome'
      BY <1>1, <3>1, <3>2, <3>3, Moved
    <3>5. \A g \in Headers : entry'[g] \in Tasks => HeaderOf[entry'[g]] = g
      BY <1>1, <2>0, <3>1 DEF HomeInv
    <3> QED BY <3>1, <3>4, <3>5 DEF HomeInv
  <2> QED BY <2>1, <2>2
<1> QED BY <1>4, <1>5, <1>6, <1>7, <1>8, <1>9, <1>10, <1>12, <1>13, <1>14
        DEF Loop, RunTask

\* Every step conserves the sum.
LEMMA NextHomeInv == OwnFiles /\ TypeInv /\ HomeInv /\ [Next]_vars => HomeInv'
<1> SUFFICES ASSUME OwnFiles, TypeInv, HomeInv, [Next]_vars PROVE HomeInv'
  OBVIOUS
<1>1. CASE UNCHANGED vars
  <2>1. /\ UNCHANGED <<lpc, runQueue, timers, done, batch, entry, whdr, wpc, dropped,
                       works, consume>>
    BY <1>1 DEF vars, brokerVars, loopVars, taskVars
  <2> QED BY <2>1, Unmoved DEF HomeInv
<1>2. CASE WorkerStep
  BY <1>2, WorkerHomeInv DEF WorkerStep
<1>3. CASE Loop \/ PollInterrupted \/ Tick
  BY <1>3, LoopHomeInv
<1> QED BY <1>1, <1>2, <1>3 DEF Next

\* A task is ready, asleep, waiting for its request or finished, and only one of
\* these, and the tasks that are nowhere are those whose request a full queue
\* refused: no completion is lost or delivered twice between the loop's thread
\* and the workers.
THEOREM TasksKept ==
  ASSUME OwnFiles
  PROVE  Spec => []OneHome
<1>1. HomeInv => OneHome
  BY DEF HomeInv
<1>2. TypeInv /\ HomeInv /\ [Next]_vars => HomeInv'
  BY NextHomeInv
<1> QED
  BY <1>1, <1>2, InitTypeInv, InitHomeInv, NextTypeInv, PTL DEF Spec
===============================================================================
