---------------------------- MODULE EventLoopProofs ----------------------------
(***************************************************************************)
(* Theorems about EventLoop for any number of workers, tasks and headers,  *)
(* any queue size and any program of the tasks.                            *)
(***************************************************************************)
EXTENDS EventLoop, FiniteSetTheorems, TLAPS

-----------------------------------------------------------------------------
(***************************************************************************)
(* Counting workers.  The counters of fiber are compared with the number   *)
(* of workers whose next step lies in a given part of their program.       *)
(***************************************************************************)
Inside(f, P) == {w \in Workers : f[w] \in P}
Count(f, P) == Cardinality(Inside(f, P))
Bit(b) == IF b THEN 1 ELSE 0

\* The number of workers in a part of the program is a natural number, and it
\* is zero only when there is none.
LEMMA CountNat ==
  ASSUME NEW f, NEW P
  PROVE  /\ Count(f, P) \in Nat
         /\ Count(f, P) = 0 <=> Inside(f, P) = {}
<1>1. Inside(f, P) \subseteq Workers
  BY DEF Inside
<1>2. IsFiniteSet(Inside(f, P))
  BY <1>1, FS_Subset, BrokerAssumption
<1> QED
  BY <1>2, FS_CardinalityType, FS_EmptySet DEF Count

\* One worker's step from one pc to another changes the count of a part by
\* what it enters less what it leaves.
LEMMA CountMove ==
  ASSUME NEW f \in [Workers -> WorkerPc], NEW w \in Workers, NEW to, NEW P
  PROVE  Count([f EXCEPT ![w] = to], P)
           = Count(f, P) + Bit(to \in P) - Bit(f[w] \in P)
<1> DEFINE g == [f EXCEPT ![w] = to]
           A == Inside(f, P) \ {w}
<1>1. IsFiniteSet(A)
  <2>1. A \subseteq Workers
    BY DEF Inside
  <2> QED BY <2>1, FS_Subset, BrokerAssumption
<1>2. w \notin A
  OBVIOUS
<1>3. Inside(f, P) = IF f[w] \in P THEN A \cup {w} ELSE A
  BY DEF Inside
<1>4. Inside(g, P) = IF to \in P THEN A \cup {w} ELSE A
  BY DEF Inside
<1>5. Cardinality(A \cup {w}) = Cardinality(A) + 1
  BY <1>1, <1>2, FS_AddElement
<1>6. Cardinality(A) \in Nat
  BY <1>1, FS_CardinalityType
<1>7. Count(f, P) = Cardinality(A) + Bit(f[w] \in P)
  BY <1>3, <1>5, <1>6 DEF Count, Bit
<1>8. Count(g, P) = Cardinality(A) + Bit(to \in P)
  BY <1>4, <1>5, <1>6 DEF Count, Bit
<1> HIDE DEF g, A
<1>9. Bit(to \in P) \in Int /\ Bit(f[w] \in P) \in Int
  BY DEF Bit
<1>10. Count(g, P) = Count(f, P) + Bit(to \in P) - Bit(f[w] \in P)
  BY <1>6, <1>7, <1>8, <1>9
<1> QED
  BY <1>10 DEF g

-----------------------------------------------------------------------------
(***************************************************************************)
(* Type correctness.  TypeOK alone is not inductive: the loop resumes the  *)
(* task a header names, so headers on their way must name one (Carried),   *)
(* and it posts the semaphore as often as the counters say, so these must  *)
(* not be negative (the last two conjuncts).                               *)
(***************************************************************************)
Present == WorkerPc \ {"start", "gone"}
Asleep == {"wait", "woken"}
Holding == {"act", "publish", "full"}

Waited == {h \in Headers : entry[h] \in Tasks}

Carried ==
  /\ works.items \in Seq(Waited)
  /\ consume.items \in Seq(Waited)
  /\ batch \in Seq(Waited)
  /\ \A w \in Workers : wpc[w] \in Holding => whdr[w] \in Waited

TypeInv ==
  /\ TypeOK
  /\ Carried
  /\ fiber.workerCount = Count(wpc, Present)
  /\ fiber.sleepingThread = Count(wpc, Asleep)

\* A function on an initial segment of the positive integers is a sequence.
LEMMA SeqOfFunction ==
  ASSUME NEW S, NEW n \in Nat, NEW f \in [1 .. n -> S]
  PROVE  f \in Seq(S)
OBVIOUS

\* The initial states satisfy the type invariant.
LEMMA InitTypeInv == Init => TypeInv
<1> SUFFICES ASSUME Init PROVE TypeInv
  OBVIOUS
<1> USE BrokerAssumption, LoopAssumption DEF Init, BrokerInit
<1>1. BrokerTypeOK
  BY DEF BrokerTypeOK, LfStart, LfQueue, FiberStart, Fiber, WorkerPc
<1>2. runQueue \in Seq(Tasks)
  <2>1. Cardinality(Tasks) \in Nat
    BY FS_CardinalityType
  <2>2. runQueue \in [1 .. Cardinality(Tasks) -> Tasks]
    OBVIOUS
  <2> HIDE DEF Init, BrokerInit
  <2> QED BY ONLY <2>1, <2>2, SeqOfFunction
<1>3. TypeOK
  BY <1>1, <1>2 DEF TypeOK, LoopPc, Locals, EmptyLocals
<1>4. Carried
  BY DEF Carried, LfStart, Holding
<1>5. Count(wpc, Present) = 0 /\ Count(wpc, Asleep) = 0
  <2>1. Inside(wpc, Present) = {} /\ Inside(wpc, Asleep) = {}
    BY DEF Inside, Present, Asleep
  <2>2. Count(wpc, Present) = 0
    BY <2>1, CountNat
  <2>3. Count(wpc, Asleep) = 0
    BY <2>1, CountNat
  <2> QED BY <2>2, <2>3
<1> QED
  BY <1>3, <1>4, <1>5 DEF TypeInv, FiberStart

\* The counts after worker w went from one pc to another.
LEMMA CountStep ==
  ASSUME BrokerTypeOK, NEW w \in Workers, NEW to, GoTo(w, to), NEW P
  PROVE  Count(wpc', P) = Count(wpc, P) + Bit(to \in P) - Bit(wpc[w] \in P)
<1>1. /\ wpc \in [Workers -> WorkerPc]
      /\ wpc' = [wpc EXCEPT ![w] = to]
  BY DEF BrokerTypeOK, GoTo
<1>2. Count([wpc EXCEPT ![w] = to], P)
        = Count(wpc, P) + Bit(to \in P) - Bit(wpc[w] \in P)
  BY ONLY <1>1, CountMove, Zenon
<1> QED
  BY ONLY <1>1, <1>2, Zenon

\* A dequeue and an enqueue keep the type and the bound of a queue.
LEMMA TakeType ==
  ASSUME NEW q \in LfQueue, CanTake(q)
  PROVE  /\ Take(q) \in LfQueue
         /\ Take(q).items = Tail(q.items) /\ Take(q).hot = q.hot
         /\ Len(Take(q).items) = Len(q.items) - 1
         /\ Head(q.items) \in Headers
<1> DEFINE s == q.items
<1>1. s \in Seq(Headers) /\ s # << >>
  BY DEF LfQueue, CanTake
<1>2. Tail(s) \in Seq(Headers) /\ Len(Tail(s)) = Len(s) - 1 /\ Head(s) \in Headers
  BY <1>1
<1> QED
  BY <1>1, <1>2 DEF LfQueue, Take

\* Put on a queue with room yields a queue within its capacity.
LEMMA PutType ==
  ASSUME NEW q \in LfQueue, NEW h \in Headers, CanPut(q)
  PROVE  /\ Put(q, h) \in LfQueue
         /\ Put(q, h).items = Append(q.items, h) /\ Put(q, h).hot = TRUE
         /\ Len(Put(q, h).items) = Len(q.items) + 1
         /\ Len(Put(q, h).items) <= Cap
<1> DEFINE s == q.items
<1>1. s \in Seq(Headers) /\ Len(s) < Cap
  BY DEF LfQueue, CanPut
<1>2. Append(s, h) \in Seq(Headers) /\ Len(Append(s, h)) = Len(s) + 1
  BY <1>1
<1>3. Len(s) \in Nat /\ Cap \in Nat
  BY <1>1, BrokerAssumption
<1>4. Put(q, h) \in LfQueue
  BY <1>2 DEF LfQueue, Put
<1>5. Put(q, h).items = Append(s, h) /\ Put(q, h).hot = TRUE
  BY DEF LfQueue, Put
<1> HIDE DEF s
<1>6. Len(Append(s, h)) <= Cap
  BY <1>1, <1>2, <1>3
<1> QED
  BY <1>2, <1>4, <1>5, <1>6 DEF s

\* A step of a worker keeps the type invariant.
LEMMA WorkerTypeInv ==
  ASSUME TypeInv, NEW w \in Workers, Worker(w), UNCHANGED loopVars
  PROVE  TypeInv'
<1> USE BrokerAssumption DEF At, WorkerPc, Holding
<1>1. BrokerTypeOK' => TypeOK'
  BY DEF TypeInv, TypeOK, loopVars, taskVars, LoopPc, Locals
<1>2. Waited' = Waited /\ batch' = batch
  BY DEF Waited, loopVars, taskVars
<1>3. BrokerTypeOK /\ Carried
  BY DEF TypeInv, TypeOK
<1>4. /\ fiber.workerCount = Count(wpc, Present)
      /\ fiber.sleepingThread = Count(wpc, Asleep)
      /\ Count(wpc, Present) \in Nat /\ Count(wpc, Asleep) \in Nat
  BY CountNat DEF TypeInv
<1>24. ASSUME BrokerTypeOK', Carried',
              fiber'.workerCount = Count(wpc', Present),
              fiber'.sleepingThread = Count(wpc', Asleep)
       PROVE  TypeInv'
  BY <1>1, <1>24 DEF TypeInv
<1>25. ASSUME NEW from, NEW c \in {"workerCount", "pendingReq",
                                  "sleepingThread", "queuedCompleted"},
              NEW n \in Int, NEW to \in WorkerPc \ Holding,
              FetchAdd(w, from, c, n, to)
       PROVE  BrokerTypeOK' /\ Carried'
  <2>1. fiber' \in Fiber
    <3>1. fiber \in Fiber /\ fiber' = [fiber EXCEPT ![c] = @ + n]
      BY <1>3, <1>25 DEF FetchAdd, BrokerTypeOK
    <3> QED BY ONLY <3>1, <1>25 DEF Fiber
  <2>2. /\ wpc' = [wpc EXCEPT ![w] = to]
        /\ UNCHANGED <<works, consume, sem, evfd, fresh, whdr>>
    BY <1>25 DEF FetchAdd, GoTo
  <2>3. wpc \in [Workers -> WorkerPc]
    BY <1>3 DEF BrokerTypeOK
  <2>4. wpc' \in [Workers -> WorkerPc]
    BY <2>2, <2>3
  <2>5. BrokerTypeOK'
    BY ONLY <1>3, <2>1, <2>2, <2>4 DEF BrokerTypeOK
  <2>6. \A v \in Workers : wpc'[v] \in Holding => wpc[v] \in Holding
    BY <2>2, <2>3
  <2>7. Waited' = Waited /\ batch' = batch
    BY DEF loopVars, taskVars, Waited
  <2>8. Carried
    BY <1>3
  <2>9. Carried'
    <3>1. /\ works' = works /\ consume' = consume /\ whdr' = whdr
          /\ batch' = batch /\ Waited' = Waited
      BY <2>2, <2>7
    <3>2. \A v \in Workers : wpc'[v] \in Holding => whdr'[v] \in Waited'
      BY <2>6, <2>8, <3>1 DEF Carried
    <3>3. /\ works'.items \in Seq(Waited') /\ consume'.items \in Seq(Waited')
          /\ batch' \in Seq(Waited')
      BY <2>8, <3>1 DEF Carried
    <3> QED BY <3>2, <3>3 DEF Carried
  <2> QED BY <2>5, <2>9
<1>5. CASE Enter(w)
  <2>1. wpc[w] = "start" /\ \E to \in {"loop"} : GoTo(w, to)
    BY <1>5 DEF Enter, FetchAdd
  <2>2. /\ Count(wpc', Present) = Count(wpc, Present) + 1
        /\ Count(wpc', Asleep) = Count(wpc, Asleep)
    BY <2>1, <1>3, <1>4, CountStep DEF Present, Asleep, Bit
  <2>3. "loop" \in WorkerPc \ Holding
    BY DEF WorkerPc, Holding
  <2>4. BrokerTypeOK' /\ Carried'
    BY <1>5, <1>25, <2>3 DEF Enter
  <2>5. /\ fiber'.workerCount = fiber.workerCount + 1
        /\ fiber'.sleepingThread = fiber.sleepingThread
    BY <1>5, <1>3, <1>4 DEF Enter, FetchAdd, BrokerTypeOK, Fiber
  <2> QED BY <1>4, <1>24, <2>2, <2>3, <2>4, <2>5
<1>6. CASE CheckAbort(w)
  <2>1. wpc[w] = "loop" /\ \E to \in {"leave", "check"} : GoTo(w, to)
    BY <1>6 DEF CheckAbort, Load
  <2>2. /\ Count(wpc', Present) = Count(wpc, Present)
        /\ Count(wpc', Asleep) = Count(wpc, Asleep)
    BY <2>1, <1>3, <1>4, CountStep DEF Present, Asleep, Bit
  <2>3. BrokerTypeOK'
    BY <1>6, <1>3 DEF CheckAbort, Load, GoTo, BrokerTypeOK, LfQueue, Fiber
  <2>4. Carried'
    BY <1>6, <1>2, <1>3 DEF CheckAbort, Load, GoTo, Carried, BrokerTypeOK, LfQueue, Waited
  <2>5. /\ fiber'.workerCount = fiber.workerCount
        /\ fiber'.sleepingThread = fiber.sleepingThread
    BY <1>6, <1>3, <1>4 DEF CheckAbort, Load, BrokerTypeOK, Fiber
  <2> QED BY <1>4, <1>24, <2>2, <2>3, <2>4, <2>5
<1>7. CASE CheckWork(w)
  <2>1. wpc[w] = "check" /\ \E to \in {"dequeue", "doze"} : GoTo(w, to)
    BY <1>7 DEF CheckWork, Load
  <2>2. /\ Count(wpc', Present) = Count(wpc, Present)
        /\ Count(wpc', Asleep) = Count(wpc, Asleep)
    BY <2>1, <1>3, <1>4, CountStep DEF Present, Asleep, Bit
  <2>3. BrokerTypeOK'
    BY <1>7, <1>3 DEF CheckWork, Load, GoTo, BrokerTypeOK, LfQueue, Fiber
  <2>4. Carried'
    BY <1>7, <1>2, <1>3 DEF CheckWork, Load, GoTo, Carried, BrokerTypeOK, LfQueue, Waited
  <2>5. /\ fiber'.workerCount = fiber.workerCount
        /\ fiber'.sleepingThread = fiber.sleepingThread
    BY <1>7, <1>3, <1>4 DEF CheckWork, Load, BrokerTypeOK, Fiber
  <2> QED BY <1>4, <1>24, <2>2, <2>3, <2>4, <2>5
<1>8. CASE Doze(w)
  <2>1. wpc[w] = "doze" /\ \E to \in {"wait"} : GoTo(w, to)
    BY <1>8 DEF Doze, FetchAdd
  <2>2. /\ Count(wpc', Present) = Count(wpc, Present)
        /\ Count(wpc', Asleep) = Count(wpc, Asleep) + 1
    BY <2>1, <1>3, <1>4, CountStep DEF Present, Asleep, Bit
  <2>3. "wait" \in WorkerPc \ Holding
    BY DEF WorkerPc, Holding
  <2>4. BrokerTypeOK' /\ Carried'
    BY <1>8, <1>25, <2>3 DEF Doze
  <2>5. /\ fiber'.workerCount = fiber.workerCount
        /\ fiber'.sleepingThread = fiber.sleepingThread + 1
    BY <1>8, <1>3, <1>4 DEF Doze, FetchAdd, BrokerTypeOK, Fiber
  <2> QED BY <1>4, <1>24, <2>2, <2>3, <2>4, <2>5
<1>9. CASE SemWait(w)
  <2>1. wpc[w] = "wait" /\ \E to \in {"woken"} : GoTo(w, to)
    BY <1>9 DEF SemWait
  <2>2. /\ Count(wpc', Present) = Count(wpc, Present)
        /\ Count(wpc', Asleep) = Count(wpc, Asleep)
    BY <2>1, <1>3, <1>4, CountStep DEF Present, Asleep, Bit
  <2>3. BrokerTypeOK'
    BY <1>9, <1>3 DEF SemWait, GoTo, BrokerTypeOK, LfQueue, Fiber
  <2>4. Carried'
    BY <1>9, <1>2, <1>3 DEF SemWait, GoTo, Carried, BrokerTypeOK, LfQueue, Waited
  <2>5. /\ fiber'.workerCount = fiber.workerCount
        /\ fiber'.sleepingThread = fiber.sleepingThread
    BY <1>9, <1>3, <1>4 DEF SemWait, BrokerTypeOK, Fiber
  <2> QED BY <1>4, <1>24, <2>2, <2>3, <2>4, <2>5
<1>10. CASE Woken(w)
  <2>1. wpc[w] = "woken" /\ \E to \in {"recheck"} : GoTo(w, to)
    BY <1>10 DEF Woken, FetchAdd
  <2>2. /\ Count(wpc', Present) = Count(wpc, Present)
        /\ Count(wpc', Asleep) = Count(wpc, Asleep) - 1
    BY <2>1, <1>3, <1>4, CountStep DEF Present, Asleep, Bit
  <2>3. "recheck" \in WorkerPc \ Holding
    BY DEF WorkerPc, Holding
  <2>4. BrokerTypeOK' /\ Carried'
    BY <1>10, <1>25, <2>3 DEF Woken
  <2>5. /\ fiber'.workerCount = fiber.workerCount
        /\ fiber'.sleepingThread = fiber.sleepingThread - 1
    BY <1>10, <1>3, <1>4 DEF Woken, FetchAdd, BrokerTypeOK, Fiber
  <2> QED BY <1>4, <1>24, <2>2, <2>3, <2>4, <2>5
<1>11. CASE RecheckAbort(w)
  <2>1. wpc[w] = "recheck" /\ \E to \in {"leave", "dequeue"} : GoTo(w, to)
    BY <1>11 DEF RecheckAbort, Load
  <2>2. /\ Count(wpc', Present) = Count(wpc, Present)
        /\ Count(wpc', Asleep) = Count(wpc, Asleep)
    BY <2>1, <1>3, <1>4, CountStep DEF Present, Asleep, Bit
  <2>3. BrokerTypeOK'
    BY <1>11, <1>3 DEF RecheckAbort, Load, GoTo, BrokerTypeOK, LfQueue, Fiber
  <2>4. Carried'
    BY <1>11, <1>2, <1>3 DEF RecheckAbort, Load, GoTo, Carried, BrokerTypeOK, LfQueue, Waited
  <2>5. /\ fiber'.workerCount = fiber.workerCount
        /\ fiber'.sleepingThread = fiber.sleepingThread
    BY <1>11, <1>3, <1>4 DEF RecheckAbort, Load, BrokerTypeOK, Fiber
  <2> QED BY <1>4, <1>24, <2>2, <2>3, <2>4, <2>5
<1>12. CASE DequeueWork(w)
  <2>1. wpc[w] = "dequeue" /\ \E to \in {"act"} : GoTo(w, to)
    BY <1>12 DEF DequeueWork
  <2>2. /\ Count(wpc', Present) = Count(wpc, Present)
        /\ Count(wpc', Asleep) = Count(wpc, Asleep)
    BY <2>1, <1>3, <1>4, CountStep DEF Present, Asleep, Bit
  <2>3. BrokerTypeOK'
    BY <1>12, <1>3, TakeType DEF DequeueWork, GoTo, BrokerTypeOK
  <2>4. Carried'
    BY <1>12, <1>2, <1>3 DEF DequeueWork, Take, CanTake, GoTo, Carried, BrokerTypeOK, LfQueue, Waited
  <2>5. /\ fiber'.workerCount = fiber.workerCount
        /\ fiber'.sleepingThread = fiber.sleepingThread
    BY <1>12, <1>3, <1>4 DEF DequeueWork, BrokerTypeOK, Fiber
  <2> QED BY <1>4, <1>24, <2>2, <2>3, <2>4, <2>5
<1>13. CASE DequeueNothing(w)
  <2>1. wpc[w] = "dequeue" /\ \E to \in {"drained", "loop"} : GoTo(w, to)
    BY <1>13 DEF DequeueNothing
  <2>2. /\ Count(wpc', Present) = Count(wpc, Present)
        /\ Count(wpc', Asleep) = Count(wpc, Asleep)
    BY <2>1, <1>3, <1>4, CountStep DEF Present, Asleep, Bit
  <2>3. BrokerTypeOK'
    BY <1>13, <1>3 DEF DequeueNothing, GoTo, BrokerTypeOK, LfQueue, Fiber
  <2>4. Carried'
    BY <1>13, <1>2, <1>3 DEF DequeueNothing, GoTo, Carried, BrokerTypeOK, LfQueue, Waited
  <2>5. /\ fiber'.workerCount = fiber.workerCount
        /\ fiber'.sleepingThread = fiber.sleepingThread
    BY <1>13, <1>3, <1>4 DEF DequeueNothing, BrokerTypeOK, Fiber
  <2> QED BY <1>4, <1>24, <2>2, <2>3, <2>4, <2>5
<1>14. CASE ChillWorks(w)
  <2>1. wpc[w] = "drained" /\ \E to \in {"loop"} : GoTo(w, to)
    BY <1>14 DEF ChillWorks
  <2>2. /\ Count(wpc', Present) = Count(wpc, Present)
        /\ Count(wpc', Asleep) = Count(wpc, Asleep)
    BY <2>1, <1>3, <1>4, CountStep DEF Present, Asleep, Bit
  <2>3. BrokerTypeOK'
    BY <1>14, <1>3 DEF ChillWorks, Chill, GoTo, BrokerTypeOK, LfQueue, Fiber
  <2>4. Carried'
    BY <1>14, <1>2, <1>3 DEF ChillWorks, Chill, GoTo, Carried, BrokerTypeOK, LfQueue, Waited
  <2>5. /\ fiber'.workerCount = fiber.workerCount
        /\ fiber'.sleepingThread = fiber.sleepingThread
    BY <1>14, <1>3, <1>4 DEF ChillWorks, BrokerTypeOK, Fiber
  <2> QED BY <1>4, <1>24, <2>2, <2>3, <2>4, <2>5
<1>15. CASE RunAction(w)
  <2>1. wpc[w] = "act" /\ \E to \in {"publish"} : GoTo(w, to)
    BY <1>15 DEF RunAction
  <2>2. /\ Count(wpc', Present) = Count(wpc, Present)
        /\ Count(wpc', Asleep) = Count(wpc, Asleep)
    BY <2>1, <1>3, <1>4, CountStep DEF Present, Asleep, Bit
  <2>3. BrokerTypeOK'
    BY <1>15, <1>3 DEF RunAction, GoTo, BrokerTypeOK, LfQueue, Fiber
  <2>4. Carried'
    BY <1>15, <1>2, <1>3 DEF RunAction, GoTo, Carried, BrokerTypeOK, LfQueue, Waited
  <2>5. /\ fiber'.workerCount = fiber.workerCount
        /\ fiber'.sleepingThread = fiber.sleepingThread
    BY <1>15, <1>3, <1>4 DEF RunAction, BrokerTypeOK, Fiber
  <2> QED BY <1>4, <1>24, <2>2, <2>3, <2>4, <2>5
<1>16. CASE Publish(w)
  <2>1. wpc[w] = "publish" /\ \E to \in {"count"} : GoTo(w, to)
    BY <1>16 DEF Publish
  <2>2. /\ Count(wpc', Present) = Count(wpc, Present)
        /\ Count(wpc', Asleep) = Count(wpc, Asleep)
    BY <2>1, <1>3, <1>4, CountStep DEF Present, Asleep, Bit
  <2>3. BrokerTypeOK'
    BY <1>16, <1>3, PutType DEF Publish, GoTo, BrokerTypeOK, Carried, Waited
  <2>4. Carried'
    BY <1>16, <1>2, <1>3 DEF Publish, Put, CanPut, GoTo, Carried, BrokerTypeOK, LfQueue, Waited
  <2>5. /\ fiber'.workerCount = fiber.workerCount
        /\ fiber'.sleepingThread = fiber.sleepingThread
    BY <1>16, <1>3, <1>4 DEF Publish, BrokerTypeOK, Fiber
  <2> QED BY <1>4, <1>24, <2>2, <2>3, <2>4, <2>5
<1>17. CASE PublishFull(w)
  <2>1. wpc[w] = "publish" /\ \E to \in {"full"} : GoTo(w, to)
    BY <1>17 DEF PublishFull
  <2>2. /\ Count(wpc', Present) = Count(wpc, Present)
        /\ Count(wpc', Asleep) = Count(wpc, Asleep)
    BY <2>1, <1>3, <1>4, CountStep DEF Present, Asleep, Bit
  <2>3. BrokerTypeOK'
    BY <1>17, <1>3 DEF PublishFull, GoTo, BrokerTypeOK, LfQueue, Fiber
  <2>4. Carried'
    BY <1>17, <1>2, <1>3 DEF PublishFull, GoTo, Carried, BrokerTypeOK, LfQueue, Waited
  <2>5. /\ fiber'.workerCount = fiber.workerCount
        /\ fiber'.sleepingThread = fiber.sleepingThread
    BY <1>17, <1>3, <1>4 DEF PublishFull, BrokerTypeOK, Fiber
  <2> QED BY <1>4, <1>24, <2>2, <2>3, <2>4, <2>5
<1>18. CASE ChokeConsume(w)
  <2>1. wpc[w] = "full" /\ \E to \in {"publish"} : GoTo(w, to)
    BY <1>18 DEF ChokeConsume
  <2>2. /\ Count(wpc', Present) = Count(wpc, Present)
        /\ Count(wpc', Asleep) = Count(wpc, Asleep)
    BY <2>1, <1>3, <1>4, CountStep DEF Present, Asleep, Bit
  <2>3. BrokerTypeOK'
    BY <1>18, <1>3 DEF ChokeConsume, Choke, GoTo, BrokerTypeOK, LfQueue, Fiber
  <2>4. Carried'
    BY <1>18, <1>2, <1>3 DEF ChokeConsume, Choke, GoTo, Carried, BrokerTypeOK, LfQueue, Waited
  <2>5. /\ fiber'.workerCount = fiber.workerCount
        /\ fiber'.sleepingThread = fiber.sleepingThread
    BY <1>18, <1>3, <1>4 DEF ChokeConsume, BrokerTypeOK, Fiber
  <2> QED BY <1>4, <1>24, <2>2, <2>3, <2>4, <2>5
<1>19. CASE CountCompleted(w)
  <2>1. wpc[w] = "count" /\ \E to \in {"signal"} : GoTo(w, to)
    BY <1>19 DEF CountCompleted, FetchAdd
  <2>2. /\ Count(wpc', Present) = Count(wpc, Present)
        /\ Count(wpc', Asleep) = Count(wpc, Asleep)
    BY <2>1, <1>3, <1>4, CountStep DEF Present, Asleep, Bit
  <2>3. "signal" \in WorkerPc \ Holding
    BY DEF WorkerPc, Holding
  <2>4. BrokerTypeOK' /\ Carried'
    BY <1>19, <1>25, <2>3 DEF CountCompleted
  <2>5. /\ fiber'.workerCount = fiber.workerCount
        /\ fiber'.sleepingThread = fiber.sleepingThread
    BY <1>19, <1>3, <1>4 DEF CountCompleted, FetchAdd, BrokerTypeOK, Fiber
  <2> QED BY <1>4, <1>24, <2>2, <2>3, <2>4, <2>5
<1>20. CASE CheckSignal(w)
  <2>1. wpc[w] = "signal" /\ \E to \in {"settle", "sendev"} : GoTo(w, to)
    BY <1>20 DEF CheckSignal, Load
  <2>2. /\ Count(wpc', Present) = Count(wpc, Present)
        /\ Count(wpc', Asleep) = Count(wpc, Asleep)
    BY <2>1, <1>3, <1>4, CountStep DEF Present, Asleep, Bit
  <2>3. BrokerTypeOK'
    BY <1>20, <1>3 DEF CheckSignal, Load, GoTo, BrokerTypeOK, LfQueue, Fiber
  <2>4. Carried'
    BY <1>20, <1>2, <1>3 DEF CheckSignal, Load, GoTo, Carried, BrokerTypeOK, LfQueue, Waited
  <2>5. /\ fiber'.workerCount = fiber.workerCount
        /\ fiber'.sleepingThread = fiber.sleepingThread
    BY <1>20, <1>3, <1>4 DEF CheckSignal, Load, BrokerTypeOK, Fiber
  <2> QED BY <1>4, <1>24, <2>2, <2>3, <2>4, <2>5
<1>21. CASE SendEv(w)
  <2>1. wpc[w] = "sendev" /\ \E to \in {"settle"} : GoTo(w, to)
    BY <1>21 DEF SendEv
  <2>2. /\ Count(wpc', Present) = Count(wpc, Present)
        /\ Count(wpc', Asleep) = Count(wpc, Asleep)
    BY <2>1, <1>3, <1>4, CountStep DEF Present, Asleep, Bit
  <2>3. BrokerTypeOK'
    BY <1>21, <1>3 DEF SendEv, GoTo, BrokerTypeOK, LfQueue, Fiber
  <2>4. Carried'
    BY <1>21, <1>2, <1>3 DEF SendEv, GoTo, Carried, BrokerTypeOK, LfQueue, Waited
  <2>5. /\ fiber'.workerCount = fiber.workerCount
        /\ fiber'.sleepingThread = fiber.sleepingThread
    BY <1>21, <1>3, <1>4 DEF SendEv, BrokerTypeOK, Fiber
  <2> QED BY <1>4, <1>24, <2>2, <2>3, <2>4, <2>5
<1>22. CASE Settle(w)
  <2>1. wpc[w] = "settle" /\ \E to \in {"loop"} : GoTo(w, to)
    BY <1>22 DEF Settle, FetchAdd
  <2>2. /\ Count(wpc', Present) = Count(wpc, Present)
        /\ Count(wpc', Asleep) = Count(wpc, Asleep)
    BY <2>1, <1>3, <1>4, CountStep DEF Present, Asleep, Bit
  <2>3. "loop" \in WorkerPc \ Holding
    BY DEF WorkerPc, Holding
  <2>4. BrokerTypeOK' /\ Carried'
    BY <1>22, <1>25, <2>3 DEF Settle
  <2>5. /\ fiber'.workerCount = fiber.workerCount
        /\ fiber'.sleepingThread = fiber.sleepingThread
    BY <1>22, <1>3, <1>4 DEF Settle, FetchAdd, BrokerTypeOK, Fiber
  <2> QED BY <1>4, <1>24, <2>2, <2>3, <2>4, <2>5
<1>23. CASE Leave(w)
  <2>1. wpc[w] = "leave" /\ \E to \in {"gone"} : GoTo(w, to)
    BY <1>23 DEF Leave, FetchAdd
  <2>2. /\ Count(wpc', Present) = Count(wpc, Present) - 1
        /\ Count(wpc', Asleep) = Count(wpc, Asleep)
    BY <2>1, <1>3, <1>4, CountStep DEF Present, Asleep, Bit
  <2>3. "gone" \in WorkerPc \ Holding
    BY DEF WorkerPc, Holding
  <2>4. BrokerTypeOK' /\ Carried'
    BY <1>23, <1>25, <2>3 DEF Leave
  <2>5. /\ fiber'.workerCount = fiber.workerCount - 1
        /\ fiber'.sleepingThread = fiber.sleepingThread
    BY <1>23, <1>3, <1>4 DEF Leave, FetchAdd, BrokerTypeOK, Fiber
  <2> QED BY <1>4, <1>24, <2>2, <2>3, <2>4, <2>5
<1> QED
  BY <1>5, <1>6, <1>7, <1>8, <1>9, <1>10, <1>11, <1>12, <1>13, <1>14, <1>15, <1>16, <1>17, <1>18, <1>19, <1>20, <1>21, <1>22, <1>23 DEF Worker
\* The time getWakeTime obtains from the clock is a number.
LEMMA GetNextInt ==
  ASSUME TypeOK, NEW n \in GetNext
  PROVE  n \in Int
<1>1. CASE timers = {}
  BY <1>1 DEF GetNext
<1>2. CASE timers # {}
  <2>1. PICK r \in timers : n = MillisLeft(r)
    BY <1>2 DEF GetNext
  <2>2. r.expires - now \in Int /\ TicksPerMs \in Nat \ {0}
    BY LoopAssumption DEF TypeOK
  <2>3. (r.expires - now) \div TicksPerMs \in Int
    BY <2>2
  <2> QED BY <2>1, <2>3 DEF MillisLeft
<1> QED
  BY <1>1, <1>2

\* A sequence over a set is one over each of its supersets.
LEMMA SeqSubset ==
  ASSUME NEW S, NEW T, S \subseteq T, NEW s \in Seq(S)
  PROVE  s \in Seq(T)
<1>1. /\ Len(s) \in Nat /\ DOMAIN s = 1 .. Len(s)
      /\ s = [i \in 1 .. Len(s) |-> s[i]]
      /\ \A i \in 1 .. Len(s) : s[i] \in S
  OBVIOUS
<1> QED
  BY <1>1

\* Every step of the loop, and every tick of the clock, preserves TypeInv.
LEMMA LoopTypeInv ==
  ASSUME TypeInv, Loop \/ PollInterrupted \/ Tick
  PROVE  TypeInv'
<1> USE BrokerAssumption, LoopAssumption
     DEF Step, KeepBroker, KeepTasks, brokerVars, taskVars
<1>1. TypeOK /\ BrokerTypeOK /\ Carried
  BY DEF TypeInv, TypeOK
<1>2. /\ fiber.workerCount = Count(wpc, Present)
      /\ fiber.sleepingThread = Count(wpc, Asleep)
      /\ Count(wpc, Present) \in Nat /\ Count(wpc, Asleep) \in Nat
  BY CountNat DEF TypeInv
<1>3. ASSUME BrokerTypeOK', TypeOK', Carried', wpc' = wpc,
             fiber'.workerCount = fiber.workerCount,
             fiber'.sleepingThread = fiber.sleepingThread
      PROVE  TypeInv'
  BY <1>2, <1>3 DEF TypeInv
<1>35. ASSUME UNCHANGED brokerVars PROVE BrokerTypeOK'
  BY <1>1, <1>35 DEF BrokerTypeOK
<1>4. CASE RunStart
  <2>1. BrokerTypeOK'
    BY <1>4, <1>35 DEF RunStart
  <2>2. TypeOK'
    BY <1>4, <1>1, <2>1 DEF RunStart, TypeOK, LoopPc, Locals
  <2>3. Carried'
    BY <1>4, <1>1 DEF RunStart, Carried, Waited
  <2>4. /\ wpc' = wpc
        /\ fiber'.workerCount = fiber.workerCount
        /\ fiber'.sleepingThread = fiber.sleepingThread
    BY <1>4 DEF RunStart
  <2> QED BY <1>3, <2>1, <2>2, <2>3, <2>4
<1>5. CASE ReadCompleted
  <2>1. BrokerTypeOK'
    BY <1>5, <1>35 DEF ReadCompleted, GetNext, MillisLeft
  <2>2. TypeOK'
    <3>1. PICK n \in GetNext, m \in {0, loc.timeout} :
            loc' = [loc EXCEPT !.looptime = n, !.timeout = m]
      BY <1>5 DEF ReadCompleted
    <3>2. n \in Int /\ m \in Int /\ loc \in Locals
      <4>1. loc \in Locals /\ loc.timeout \in Int
        BY <1>1 DEF TypeOK, Locals
      <4> QED BY <3>1, <4>1, <1>1, GetNextInt
    <3>3. loc' \in Locals
      BY <3>1, <3>2 DEF Locals
    <3> QED BY <1>5, <1>1, <2>1, <3>3 DEF ReadCompleted, TypeOK, LoopPc
  <2>3. Carried'
    BY <1>5, <1>1 DEF ReadCompleted, GetNext, MillisLeft, Carried, Waited
  <2>4. /\ wpc' = wpc
        /\ fiber'.workerCount = fiber.workerCount
        /\ fiber'.sleepingThread = fiber.sleepingThread
    BY <1>5 DEF ReadCompleted, GetNext, MillisLeft
  <2> QED BY <1>3, <2>1, <2>2, <2>3, <2>4
<1>6. CASE ReadPending
  <2>1. BrokerTypeOK'
    BY <1>6, <1>1 DEF ReadPending, BrokerTypeOK, LfQueue, Fiber
  <2>2. TypeOK'
    <3>1. /\ loc \in Locals /\ loc.looptime \in Int /\ loc.wakeAt \in Int
          /\ loc.exit \in BOOLEAN
      BY <1>1 DEF TypeOK, Locals
    <3>2. now + TicksPerMs * loc.looptime \in Int
      BY <3>1, <1>1 DEF TypeOK
    <3>3. PICK m \in {loc.looptime, 0},
               a \in {now + TicksPerMs * loc.looptime, loc.wakeAt},
               b \in BOOLEAN :
            loc' = [loc EXCEPT !.timeout = m, !.wakeAt = a, !.exit = b]
      BY <1>6, <3>1 DEF ReadPending
    <3>4. m \in Int /\ a \in Int
      BY <3>1, <3>2, <3>3
    <3>5. loc' \in Locals
      BY <3>1, <3>3, <3>4 DEF Locals
    <3> QED BY <1>6, <1>1, <2>1, <3>5 DEF ReadPending, TypeOK, LoopPc
  <2>3. Carried'
    BY <1>6, <1>1 DEF ReadPending, Carried, Waited
  <2>4. /\ wpc' = wpc
        /\ fiber'.workerCount = fiber.workerCount
        /\ fiber'.sleepingThread = fiber.sleepingThread
    BY <1>6, <1>1 DEF ReadPending, BrokerTypeOK, Fiber
  <2> QED BY <1>3, <2>1, <2>2, <2>3, <2>4
<1>7. CASE ClearWakedUp
  <2>1. BrokerTypeOK'
    BY <1>7, <1>1 DEF ClearWakedUp, BrokerTypeOK, LfQueue, Fiber
  <2>2. TypeOK'
    BY <1>7, <1>1, <2>1 DEF ClearWakedUp, TypeOK, LoopPc, Locals
  <2>3. Carried'
    BY <1>7, <1>1 DEF ClearWakedUp, Carried, Waited
  <2>4. /\ wpc' = wpc
        /\ fiber'.workerCount = fiber.workerCount
        /\ fiber'.sleepingThread = fiber.sleepingThread
    BY <1>7, <1>1 DEF ClearWakedUp, BrokerTypeOK, Fiber
  <2> QED BY <1>3, <2>1, <2>2, <2>3, <2>4
<1>8. CASE PollEvent
  <2>1. BrokerTypeOK'
    BY <1>8, <1>1 DEF PollEvent, BrokerTypeOK, LfQueue, Fiber
  <2>2. TypeOK'
    BY <1>8, <1>1, <2>1 DEF PollEvent, TypeOK, LoopPc, Locals
  <2>3. Carried'
    BY <1>8, <1>1 DEF PollEvent, Carried, Waited
  <2>4. /\ wpc' = wpc
        /\ fiber'.workerCount = fiber.workerCount
        /\ fiber'.sleepingThread = fiber.sleepingThread
    BY <1>8, <1>1 DEF PollEvent, BrokerTypeOK, Fiber
  <2> QED BY <1>3, <2>1, <2>2, <2>3, <2>4
<1>9. CASE PollTimeout
  <2>1. BrokerTypeOK'
    BY <1>9, <1>35 DEF PollTimeout
  <2>2. TypeOK'
    BY <1>9, <1>1, <2>1 DEF PollTimeout, TypeOK, LoopPc, Locals
  <2>3. Carried'
    BY <1>9, <1>1 DEF PollTimeout, Carried, Waited
  <2>4. /\ wpc' = wpc
        /\ fiber'.workerCount = fiber.workerCount
        /\ fiber'.sleepingThread = fiber.sleepingThread
    BY <1>9 DEF PollTimeout
  <2> QED BY <1>3, <2>1, <2>2, <2>3, <2>4
<1>10. CASE PollInterrupted
  <2>1. BrokerTypeOK'
    BY <1>10, <1>35 DEF PollInterrupted
  <2>2. TypeOK'
    BY <1>10, <1>1, <2>1 DEF PollInterrupted, TypeOK, LoopPc, Locals
  <2>3. Carried'
    BY <1>10, <1>1 DEF PollInterrupted, Carried, Waited
  <2>4. /\ wpc' = wpc
        /\ fiber'.workerCount = fiber.workerCount
        /\ fiber'.sleepingThread = fiber.sleepingThread
    BY <1>10 DEF PollInterrupted
  <2> QED BY <1>3, <2>1, <2>2, <2>3, <2>4
<1>11. CASE MarkWakedUp
  <2>1. BrokerTypeOK'
    BY <1>11, <1>1 DEF MarkWakedUp, BrokerTypeOK, LfQueue, Fiber
  <2>2. TypeOK'
    BY <1>11, <1>1, <2>1 DEF MarkWakedUp, TypeOK, LoopPc, Locals
  <2>3. Carried'
    BY <1>11, <1>1 DEF MarkWakedUp, Carried, Waited
  <2>4. /\ wpc' = wpc
        /\ fiber'.workerCount = fiber.workerCount
        /\ fiber'.sleepingThread = fiber.sleepingThread
    BY <1>11, <1>1 DEF MarkWakedUp, BrokerTypeOK, Fiber
  <2> QED BY <1>3, <2>1, <2>2, <2>3, <2>4
<1>12. CASE ReadQueued
  <2>1. BrokerTypeOK'
    BY <1>12, <1>35 DEF ReadQueued
  <2>2. TypeOK'
    <3>1. fiber.queuedCompleted \in Int /\ loc \in Locals
      BY <1>1 DEF TypeOK, BrokerTypeOK, Fiber
    <3>2. loc' \in Locals
      BY <1>12, <3>1 DEF ReadQueued, Locals
    <3> QED BY <1>12, <1>1, <2>1, <3>2 DEF ReadQueued, TypeOK, LoopPc
  <2>3. Carried'
    BY <1>12, <1>1 DEF ReadQueued, Carried, Waited
  <2>4. /\ wpc' = wpc
        /\ fiber'.workerCount = fiber.workerCount
        /\ fiber'.sleepingThread = fiber.sleepingThread
    BY <1>12 DEF ReadQueued
  <2> QED BY <1>3, <2>1, <2>2, <2>3, <2>4
<1>13. CASE DrainEvfd
  <2>1. BrokerTypeOK'
    BY <1>13, <1>1 DEF DrainEvfd, BrokerTypeOK, LfQueue, Fiber
  <2>2. TypeOK'
    <3>1. loc.value \in Int /\ DequeueMax \in Int /\ loc \in Locals
      BY <1>1 DEF TypeOK, Locals
    <3>2. loc' \in Locals
      BY <1>13, <3>1 DEF DrainEvfd, Locals
    <3> QED BY <1>13, <1>1, <2>1, <3>2 DEF DrainEvfd, TypeOK, LoopPc
  <2>3. Carried'
    BY <1>13, <1>1 DEF DrainEvfd, Carried, Waited
  <2>4. /\ wpc' = wpc
        /\ fiber'.workerCount = fiber.workerCount
        /\ fiber'.sleepingThread = fiber.sleepingThread
    BY <1>13, <1>1 DEF DrainEvfd, BrokerTypeOK, Fiber
  <2> QED BY <1>3, <2>1, <2>2, <2>3, <2>4
<1>14. CASE PopCompleted
  <2>1. loc \in Locals /\ loc.left - 1 \in Int
    BY <1>1 DEF TypeOK, Locals
  <2>2. loc' \in Locals
    BY <1>14, <2>1 DEF PopCompleted, Locals
  <2>3. Waited' = Waited /\ wpc' = wpc /\ fiber' = fiber
    BY <1>14 DEF PopCompleted, Waited
  <2>4. CASE CanTake(consume)
    <3>1. /\ consume' \in LfQueue /\ consume'.items = Tail(consume.items)
          /\ Len(consume'.items) = Len(consume.items) - 1
          /\ Len(consume.items) \in Nat /\ consume.items # << >>
      <4>1. consume \in LfQueue /\ consume' = Take(consume)
        BY <1>14, <2>4, <1>1 DEF PopCompleted, BrokerTypeOK
      <4>2. Len(consume.items) \in Nat /\ consume.items # << >>
        BY <2>4, <4>1 DEF CanTake, LfQueue
      <4> QED BY <2>4, <4>1, <4>2, TakeType
    <3>2. Head(consume.items) \in Waited
      BY <3>1, <1>1 DEF Carried
    <3>3. runQueue' = Append(runQueue, entry[Head(consume.items)])
      BY <1>14, <2>4 DEF PopCompleted
    <3>4. runQueue' \in Seq(Tasks)
      BY <3>2, <3>3, <1>1 DEF TypeOK, Waited
    <3>5. Len(consume'.items) <= Cap
      BY <3>1, <1>1 DEF BrokerTypeOK
    <3>6. BrokerTypeOK'
      BY <1>14, <1>1, <3>1, <3>5 DEF PopCompleted, BrokerTypeOK
    <3>7. TypeOK'
      BY <1>14, <1>1, <2>2, <3>4, <3>6 DEF PopCompleted, TypeOK, LoopPc
    <3>8. consume'.items \in Seq(Waited)
      BY <3>1, <1>1 DEF Carried
    <3>9. Carried'
      BY <1>14, <1>1, <2>3, <3>8 DEF PopCompleted, Carried
    <3> QED BY <1>3, <2>3, <3>6, <3>7, <3>9
  <2>5. CASE ~CanTake(consume)
    <3>1. BrokerTypeOK'
      BY <1>14, <2>5, <1>1 DEF PopCompleted, BrokerTypeOK
    <3>2. TypeOK'
      BY <1>14, <2>5, <1>1, <2>2, <3>1 DEF PopCompleted, TypeOK, LoopPc
    <3>3. Carried'
      BY <1>14, <2>5, <1>1, <2>3 DEF PopCompleted, Carried
    <3> QED BY <1>3, <2>3, <3>1, <3>2, <3>3
  <2> QED BY <2>4, <2>5
<1>15. CASE SubtractQueued
  <2>1. BrokerTypeOK'
    <3>1. fiber.queuedCompleted - loc.value \in Int
      BY <1>1 DEF TypeOK, BrokerTypeOK, Fiber, Locals
    <3>2. fiber' \in Fiber
      BY <1>15, <1>1, <3>1 DEF SubtractQueued, BrokerTypeOK, Fiber
    <3> QED BY <1>15, <1>1, <3>2 DEF SubtractQueued, BrokerTypeOK
  <2>2. TypeOK'
    BY <1>15, <1>1, <2>1 DEF SubtractQueued, TypeOK, LoopPc, Locals
  <2>3. Carried'
    BY <1>15, <1>1 DEF SubtractQueued, Carried, Waited
  <2>4. /\ wpc' = wpc
        /\ fiber'.workerCount = fiber.workerCount
        /\ fiber'.sleepingThread = fiber.sleepingThread
    <3>1. /\ wpc' = wpc
          /\ fiber' = [fiber EXCEPT !.queuedCompleted = @ - loc.value]
      BY <1>15 DEF SubtractQueued
    <3>2. fiber \in Fiber
      BY <1>1 DEF BrokerTypeOK
    <3> QED BY ONLY <3>1, <3>2 DEF Fiber
  <2> QED BY <1>3, <2>1, <2>2, <2>3, <2>4
<1>16. ASSUME NEW t \in Tasks, Finish(t) PROVE TypeInv'
  <2>1. BrokerTypeOK'
    BY <1>16, <1>35 DEF Finish, Running
  <2>2. TypeOK'
    <3>1. /\ runQueue # << >> /\ runQueue' = Tail(runQueue)
          /\ done' = done \cup {t}
          /\ UNCHANGED <<lpc, now, loc, timers, batch, entry, dropped, fuel>>
      BY <1>16 DEF Finish, Running
    <3>2. TypeOK
      BY <1>1
    <3>3. runQueue' \in Seq(Tasks) /\ done' \subseteq Tasks
      BY <3>1, <3>2, <1>16 DEF TypeOK
    <3> QED BY ONLY <2>1, <3>1, <3>2, <3>3 DEF TypeOK
  <2>3. Carried'
    BY <1>16, <1>1 DEF Finish, Running, Carried, Waited
  <2>4. /\ wpc' = wpc
        /\ fiber'.workerCount = fiber.workerCount
        /\ fiber'.sleepingThread = fiber.sleepingThread
    BY <1>16 DEF Finish, Running
  <2> QED BY <1>3, <2>1, <2>2, <2>3, <2>4
<1>17. ASSUME NEW t \in Tasks, Yield(t) PROVE TypeInv'
  <2>1. BrokerTypeOK'
    BY <1>17, <1>35 DEF Yield, Running, Burn
  <2>2. TypeOK'
    <3>1. fuel' \in [Tasks -> 0 .. MaxOps]
      <4>1. fuel[t] \in 0 .. MaxOps /\ fuel[t] > 0 /\ MaxOps \in Nat
        BY <1>17, <1>1 DEF Yield, Burn, TypeOK
      <4>2. fuel[t] - 1 \in 0 .. MaxOps
        BY <4>1
      <4> QED BY <1>17, <1>1, <4>2 DEF Yield, Burn, TypeOK
    <3> QED BY <1>17, <1>1, <2>1, <3>1 DEF Yield, Running, TypeOK, LoopPc
  <2>3. Carried'
    BY <1>17, <1>1 DEF Yield, Running, Burn, Carried, Waited
  <2>4. /\ wpc' = wpc
        /\ fiber'.workerCount = fiber.workerCount
        /\ fiber'.sleepingThread = fiber.sleepingThread
    BY <1>17 DEF Yield, Running, Burn
  <2> QED BY <1>3, <2>1, <2>2, <2>3, <2>4
<1>18. ASSUME NEW t \in Tasks, Sleep(t) PROVE TypeInv'
  <2>1. BrokerTypeOK'
    BY <1>18, <1>35 DEF Sleep, Running, Burn
  <2>2. TypeOK'
    <3>1. fuel' \in [Tasks -> 0 .. MaxOps]
      <4>1. fuel[t] \in 0 .. MaxOps /\ fuel[t] > 0 /\ MaxOps \in Nat
        BY <1>18, <1>1 DEF Sleep, Burn, TypeOK
      <4>2. fuel[t] - 1 \in 0 .. MaxOps
        BY <4>1
      <4> QED BY <1>18, <1>1, <4>2 DEF Sleep, Burn, TypeOK
    <3>2. PICK d \in Delays :
            timers' = timers \cup {[task |-> t, expires |-> now + d * TicksPerMs]}
      BY <1>18 DEF Sleep
    <3>3. now + d * TicksPerMs \in Nat
      <4>1. d \in Nat /\ TicksPerMs \in Nat /\ now \in Nat
        BY <1>1 DEF TypeOK
      <4>2. d * TicksPerMs \in Nat
        BY <4>1
      <4> QED BY <4>1, <4>2
    <3>4. timers' \subseteq [task : Tasks, expires : Nat]
      BY <3>2, <3>3, <1>1 DEF TypeOK
    <3>5. runQueue' \in Seq(Tasks)
      BY <1>18, <1>1 DEF Sleep, Running, TypeOK
    <3> QED BY <1>18, <1>1, <2>1, <3>1, <3>4, <3>5 DEF Sleep, TypeOK, LoopPc
  <2>3. Carried'
    BY <1>18, <1>1 DEF Sleep, Running, Burn, Carried, Waited
  <2>4. /\ wpc' = wpc
        /\ fiber'.workerCount = fiber.workerCount
        /\ fiber'.sleepingThread = fiber.sleepingThread
    BY <1>18 DEF Sleep, Running, Burn
  <2> QED BY <1>3, <2>1, <2>2, <2>3, <2>4
<1>19. ASSUME NEW t \in Tasks, ReadFile(t) PROVE TypeInv'
  <2>1. BrokerTypeOK'
    BY <1>19, <1>1 DEF ReadFile, Running, Burn, BrokerTypeOK, LfQueue, Fiber
  <2>2. fuel' \in [Tasks -> 0 .. MaxOps]
    <3>1. fuel[t] \in 0 .. MaxOps /\ fuel[t] > 0 /\ MaxOps \in Nat
      BY <1>19, <1>1 DEF ReadFile, Burn, TypeOK
    <3>2. fuel[t] - 1 \in 0 .. MaxOps
      BY <3>1
    <3> QED BY <1>19, <1>1, <3>2 DEF ReadFile, Burn, TypeOK
  <2>3. wpc' = wpc /\ whdr' = whdr /\ fiber' = fiber /\ works' = works /\ consume' = consume
    BY <1>19 DEF ReadFile
  <2>4. HeaderOf[t] \in Headers
    OBVIOUS
  <2>5. CASE HeaderOf[t] \in fresh
    <3>1. UNCHANGED <<entry, batch, runQueue>>
      BY <1>19, <2>5 DEF ReadFile
    <3>2. TypeOK'
      BY <1>19, <1>1, <2>1, <2>2, <3>1 DEF ReadFile, TypeOK
    <3>3. Carried'
      BY <1>1, <2>3, <3>1 DEF Carried, Waited
    <3> QED BY <1>3, <2>1, <2>3, <3>2, <3>3
  <2>6. CASE HeaderOf[t] \notin fresh
    <3>1. /\ entry' = [entry EXCEPT ![HeaderOf[t]] = t]
          /\ batch' = Append(batch, HeaderOf[t])
          /\ runQueue' = Tail(runQueue)
          /\ runQueue # << >>
      BY <1>19, <2>6 DEF ReadFile, Running
    <3>2. /\ entry' \in [Headers -> Tasks \cup {NoTask}]
          /\ batch' \in Seq(Headers)
          /\ runQueue' \in Seq(Tasks)
      BY <1>1, <2>4, <3>1 DEF TypeOK
    <3>3. TypeOK'
      BY <1>19, <1>1, <2>1, <2>2, <3>2 DEF ReadFile, TypeOK
    <3>4. Waited \subseteq Waited' /\ HeaderOf[t] \in Waited'
      BY <1>1, <2>4, <3>1 DEF TypeOK, Waited
    <3>5. /\ works.items \in Seq(Waited') /\ consume.items \in Seq(Waited')
          /\ batch \in Seq(Waited')
      BY <3>4, <1>1, SeqSubset DEF Carried
    <3>6. batch' \in Seq(Waited')
      BY <3>1, <3>4, <3>5
    <3>7. Carried'
      BY <1>1, <2>3, <3>4, <3>5, <3>6 DEF Carried
    <3> QED BY <1>3, <2>1, <2>3, <3>3, <3>7
  <2> QED BY <2>5, <2>6
<1>20. CASE YieldDone
  <2>1. BrokerTypeOK'
    BY <1>20, <1>35 DEF YieldDone
  <2>2. TypeOK'
    BY <1>20, <1>1, <2>1 DEF YieldDone, TypeOK, LoopPc, Locals
  <2>3. Carried'
    BY <1>20, <1>1 DEF YieldDone, Carried, Waited
  <2>4. /\ wpc' = wpc
        /\ fiber'.workerCount = fiber.workerCount
        /\ fiber'.sleepingThread = fiber.sleepingThread
    BY <1>20 DEF YieldDone
  <2> QED BY <1>3, <2>1, <2>2, <2>3, <2>4
<1>21. CASE PushRequest
  <2>1. /\ batch # << >> /\ CanPut(works) /\ batch \in Seq(Waited)
        /\ works' = Put(works, Head(batch)) /\ batch' = Tail(batch)
        /\ Waited' = Waited /\ wpc' = wpc /\ fiber' = fiber
    BY <1>21, <1>1 DEF PushRequest, Carried, Waited
  <2>2. Head(batch) \in Waited /\ Tail(batch) \in Seq(Waited)
    BY <2>1
  <2>3. Head(batch) \in Headers /\ works \in LfQueue
    BY <2>2, <1>1 DEF Waited, BrokerTypeOK
  <2>4. /\ works' \in LfQueue /\ works'.items = Append(works.items, Head(batch))
        /\ Len(works'.items) <= Cap
    BY <2>1, <2>3, PutType
  <2>5. BrokerTypeOK'
    BY <1>21, <1>1, <2>4 DEF PushRequest, BrokerTypeOK
  <2>6. loc \in Locals /\ loc.pushed + 1 \in Nat
    BY <1>1 DEF TypeOK, Locals
  <2>7. loc' \in Locals
    BY <1>21, <2>6 DEF PushRequest, Locals
  <2>8. batch' \in Seq(Headers)
    BY <2>1, <1>1 DEF TypeOK
  <2>9. TypeOK'
    BY <1>21, <1>1, <2>5, <2>7, <2>8 DEF PushRequest, TypeOK, LoopPc
  <2>10. works'.items \in Seq(Waited)
    BY <2>2, <2>4, <1>1 DEF Carried
  <2>11. Carried'
    BY <1>21, <1>1, <2>1, <2>2, <2>10 DEF PushRequest, Carried
  <2> QED BY <1>3, <2>1, <2>5, <2>9, <2>11
<1>22. CASE PushRefused
  <2>1. BrokerTypeOK'
    BY <1>22, <1>35 DEF PushRefused
  <2>2. TypeOK'
    <3>1. loc \in Locals /\ loc.pushed + 1 \in Nat /\ dropped + 1 \in Nat
      BY <1>1 DEF TypeOK, Locals
    <3>2. loc' \in Locals
      BY <1>22, <3>1 DEF PushRefused, Locals
    <3>3. batch' \in Seq(Headers)
      BY <1>22, <1>1 DEF PushRefused, TypeOK
    <3> QED BY <1>22, <1>1, <2>1, <3>1, <3>2, <3>3 DEF PushRefused, TypeOK, LoopPc
  <2>3. Carried'
    BY <1>22, <1>1 DEF PushRefused, Carried, Waited
  <2>4. /\ wpc' = wpc
        /\ fiber'.workerCount = fiber.workerCount
        /\ fiber'.sleepingThread = fiber.sleepingThread
    BY <1>22 DEF PushRefused
  <2> QED BY <1>3, <2>1, <2>2, <2>3, <2>4
<1>23. CASE ChokeWorks
  <2>1. BrokerTypeOK'
    BY <1>23, <1>1 DEF ChokeWorks, Choke, BrokerTypeOK, LfQueue, Fiber
  <2>2. TypeOK'
    BY <1>23, <1>1, <2>1 DEF ChokeWorks, Choke, TypeOK, LoopPc, Locals
  <2>3. Carried'
    BY <1>23, <1>1 DEF ChokeWorks, Choke, Carried, Waited
  <2>4. /\ wpc' = wpc
        /\ fiber'.workerCount = fiber.workerCount
        /\ fiber'.sleepingThread = fiber.sleepingThread
    BY <1>23, <1>1 DEF ChokeWorks, Choke, BrokerTypeOK, Fiber
  <2> QED BY <1>3, <2>1, <2>2, <2>3, <2>4
<1>24. CASE AddPending
  <2>1. BrokerTypeOK'
    <3>1. fiber.pendingReq + loc.pushed \in Int
      BY <1>1 DEF TypeOK, BrokerTypeOK, Fiber, Locals
    <3>2. fiber' \in Fiber
      BY <1>24, <1>1, <3>1 DEF AddPending, BrokerTypeOK, Fiber
    <3> QED BY <1>24, <1>1, <3>2 DEF AddPending, BrokerTypeOK
  <2>2. TypeOK'
    BY <1>24, <1>1, <2>1 DEF AddPending, TypeOK, LoopPc, Locals
  <2>3. Carried'
    BY <1>24, <1>1 DEF AddPending, Carried, Waited
  <2>4. /\ wpc' = wpc
        /\ fiber'.workerCount = fiber.workerCount
        /\ fiber'.sleepingThread = fiber.sleepingThread
    BY <1>24, <1>1 DEF AddPending, BrokerTypeOK, Fiber
  <2> QED BY <1>3, <2>1, <2>2, <2>3, <2>4
<1>25. CASE Ping
  <2>1. BrokerTypeOK'
    <3>1. loc.pushed \in Nat /\ fiber.sleepingThread \in Nat /\ sem \in Nat
      BY <1>1, <1>2 DEF TypeOK, BrokerTypeOK, Locals
    <3>2. sem + PingCount(loc.pushed, fiber.sleepingThread) \in Nat
      BY <3>1 DEF PingCount
    <3> QED BY <1>25, <1>1, <3>2 DEF Ping, BrokerTypeOK
  <2>2. TypeOK'
    BY <1>25, <1>1, <2>1 DEF Ping, PingCount, TypeOK, LoopPc, Locals
  <2>3. Carried'
    BY <1>25, <1>1 DEF Ping, PingCount, Carried, Waited
  <2>4. /\ wpc' = wpc
        /\ fiber'.workerCount = fiber.workerCount
        /\ fiber'.sleepingThread = fiber.sleepingThread
    BY <1>25, <1>1 DEF Ping, PingCount, BrokerTypeOK, Fiber
  <2> QED BY <1>3, <2>1, <2>2, <2>3, <2>4
<1>26. CASE ReadClock
  <2>1. BrokerTypeOK'
    BY <1>26, <1>35 DEF ReadClock
  <2>2. TypeOK'
    BY <1>26, <1>1, <2>1 DEF ReadClock, TypeOK, LoopPc, Locals
  <2>3. Carried'
    BY <1>26, <1>1 DEF ReadClock, Carried, Waited
  <2>4. /\ wpc' = wpc
        /\ fiber'.workerCount = fiber.workerCount
        /\ fiber'.sleepingThread = fiber.sleepingThread
    BY <1>26 DEF ReadClock
  <2> QED BY <1>3, <2>1, <2>2, <2>3, <2>4
<1>27. CASE PushExpired
  <2>1. BrokerTypeOK'
    BY <1>27, <1>35 DEF PushExpired
  <2>2. TypeOK'
    <3>1. /\ lpc' = lpc
          /\ UNCHANGED <<now, loc, batch, entry, dropped, done, fuel>>
      BY <1>27 DEF PushExpired
    <3>2. TypeOK
      BY <1>1
    <3>3. PICK r \in timers : /\ runQueue' = Append(runQueue, r.task)
                              /\ timers' = timers \ {r}
      BY <1>27 DEF PushExpired
    <3>4. r.task \in Tasks
      BY <3>2, <3>3 DEF TypeOK
    <3>5. runQueue' \in Seq(Tasks)
      BY <3>2, <3>3, <3>4 DEF TypeOK
    <3>6. timers' \subseteq [task : Tasks, expires : Nat]
      BY <3>2, <3>3 DEF TypeOK
    <3> QED BY ONLY <2>1, <3>1, <3>2, <3>5, <3>6 DEF TypeOK
  <2>3. Carried'
    BY <1>27, <1>1 DEF PushExpired, Carried, Waited
  <2>4. /\ wpc' = wpc
        /\ fiber'.workerCount = fiber.workerCount
        /\ fiber'.sleepingThread = fiber.sleepingThread
    BY <1>27 DEF PushExpired
  <2> QED BY <1>3, <2>1, <2>2, <2>3, <2>4
<1>28. CASE ExpireDone
  <2>1. BrokerTypeOK'
    BY <1>28, <1>35 DEF ExpireDone
  <2>2. TypeOK'
    BY <1>28, <1>1, <2>1 DEF ExpireDone, TypeOK, LoopPc, Locals
  <2>3. Carried'
    BY <1>28, <1>1 DEF ExpireDone, Carried, Waited
  <2>4. /\ wpc' = wpc
        /\ fiber'.workerCount = fiber.workerCount
        /\ fiber'.sleepingThread = fiber.sleepingThread
    BY <1>28 DEF ExpireDone
  <2> QED BY <1>3, <2>1, <2>2, <2>3, <2>4
<1>29. CASE CleanQueue
  <2>1. BrokerTypeOK'
    BY <1>29, <1>35 DEF CleanQueue
  <2>2. TypeOK'
    BY <1>29, <1>1, <2>1 DEF CleanQueue, TypeOK, LoopPc, Locals
  <2>3. Carried'
    BY <1>29, <1>1 DEF CleanQueue, Carried, Waited
  <2>4. /\ wpc' = wpc
        /\ fiber'.workerCount = fiber.workerCount
        /\ fiber'.sleepingThread = fiber.sleepingThread
    BY <1>29 DEF CleanQueue
  <2> QED BY <1>3, <2>1, <2>2, <2>3, <2>4
<1>30. CASE LoadWorkers
  <2>1. BrokerTypeOK'
    BY <1>30, <1>35 DEF LoadWorkers
  <2>2. TypeOK'
    <3>1. fiber.workerCount \in Nat /\ loc \in Locals
      BY <1>1, <1>2 DEF TypeOK
    <3>2. loc' \in Locals
      BY <1>30, <3>1 DEF LoadWorkers, Locals
    <3> QED BY <1>30, <1>1, <2>1, <3>2 DEF LoadWorkers, TypeOK, LoopPc
  <2>3. Carried'
    BY <1>30, <1>1 DEF LoadWorkers, Carried, Waited
  <2>4. /\ wpc' = wpc
        /\ fiber'.workerCount = fiber.workerCount
        /\ fiber'.sleepingThread = fiber.sleepingThread
    BY <1>30 DEF LoadWorkers
  <2> QED BY <1>3, <2>1, <2>2, <2>3, <2>4
<1>31. CASE StoreAbort
  <2>1. BrokerTypeOK'
    BY <1>31, <1>1 DEF StoreAbort, BrokerTypeOK, LfQueue, Fiber
  <2>2. TypeOK'
    BY <1>31, <1>1, <2>1 DEF StoreAbort, TypeOK, LoopPc, Locals
  <2>3. Carried'
    BY <1>31, <1>1 DEF StoreAbort, Carried, Waited
  <2>4. /\ wpc' = wpc
        /\ fiber'.workerCount = fiber.workerCount
        /\ fiber'.sleepingThread = fiber.sleepingThread
    BY <1>31, <1>1 DEF StoreAbort, BrokerTypeOK, Fiber
  <2> QED BY <1>3, <2>1, <2>2, <2>3, <2>4
<1>32. CASE PingWorkers
  <2>1. BrokerTypeOK'
    <3>1. sem + loc.pings \in Nat
      <4>1. sem \in Nat
        BY <1>1 DEF BrokerTypeOK
      <4>2. loc \in Locals
        BY <1>1 DEF TypeOK
      <4>3. loc.pings \in Nat
        BY ONLY <4>2 DEF Locals
      <4> QED BY ONLY <4>1, <4>3
    <3> QED BY <1>32, <1>1, <3>1 DEF PingWorkers, BrokerTypeOK
  <2>2. TypeOK'
    <3>1. /\ lpc' = "await" /\ runQueue' = runQueue /\ timers' = timers
          /\ batch' = batch /\ entry' = entry /\ dropped' = dropped
          /\ done' = done /\ fuel' = fuel /\ now' = now /\ loc' = loc
      BY <1>32 DEF PingWorkers, taskVars
    <3>2. lpc' \in LoopPc
      BY <3>1 DEF LoopPc
    <3>3. TypeOK
      BY <1>1
    <3> QED BY ONLY <2>1, <3>1, <3>2, <3>3 DEF TypeOK
  <2>3. Carried'
    BY <1>32, <1>1 DEF PingWorkers, Carried, Waited
  <2>4. /\ wpc' = wpc
        /\ fiber'.workerCount = fiber.workerCount
        /\ fiber'.sleepingThread = fiber.sleepingThread
    BY <1>32, <1>1 DEF PingWorkers, BrokerTypeOK, Fiber
  <2> QED BY <1>3, <2>1, <2>2, <2>3, <2>4
<1>33. CASE AwaitWorkers
  <2>1. BrokerTypeOK'
    BY <1>33, <1>35 DEF AwaitWorkers
  <2>2. TypeOK'
    <3>1. loc \in Locals /\ loc.tries - 1 \in Int /\ loc.tries \in Int
      BY <1>1 DEF TypeOK, Locals
    <3>2. loc' \in Locals
      BY <1>33, <3>1 DEF AwaitWorkers, Locals
    <3> QED BY <1>33, <1>1, <2>1, <3>2 DEF AwaitWorkers, TypeOK, LoopPc
  <2>3. Carried'
    BY <1>33, <1>1 DEF AwaitWorkers, Carried, Waited
  <2>4. /\ wpc' = wpc
        /\ fiber'.workerCount = fiber.workerCount
        /\ fiber'.sleepingThread = fiber.sleepingThread
    BY <1>33 DEF AwaitWorkers
  <2> QED BY <1>3, <2>1, <2>2, <2>3, <2>4
<1>34. CASE Tick
  <2>1. BrokerTypeOK'
    BY <1>34, <1>35 DEF Tick
  <2>2. TypeOK'
    <3>1. now' \in Nat /\ UNCHANGED <<lpc, taskVars, loc>>
      BY <1>34, <1>1 DEF Tick, TypeOK
    <3> HIDE DEF Step, KeepBroker, KeepTasks
    <3> QED BY ONLY <1>1, <2>1, <3>1 DEF TypeOK, taskVars
  <2>3. Carried'
    BY <1>34, <1>1 DEF Tick, Carried, Waited
  <2>4. /\ wpc' = wpc
        /\ fiber'.workerCount = fiber.workerCount
        /\ fiber'.sleepingThread = fiber.sleepingThread
    BY <1>34 DEF Tick
  <2> QED BY <1>3, <2>1, <2>2, <2>3, <2>4
<1> QED
  BY <1>4, <1>5, <1>6, <1>7, <1>8, <1>9, <1>10, <1>11, <1>12, <1>13, <1>14, <1>15, <1>16, <1>17, <1>18, <1>19, <1>20, <1>21, <1>22, <1>23, <1>24, <1>25, <1>26, <1>27, <1>28, <1>29, <1>30, <1>31, <1>32, <1>33, <1>34 DEF Loop, RunTask

\* Every step, and every stutter, keeps the type invariant.
LEMMA NextTypeInv == TypeInv /\ [Next]_vars => TypeInv'
<1> SUFFICES ASSUME TypeInv, [Next]_vars PROVE TypeInv'
  OBVIOUS
<1>1. CASE Loop \/ PollInterrupted \/ Tick
  BY <1>1, LoopTypeInv
<1>2. CASE WorkerStep
  BY <1>2, WorkerTypeInv DEF WorkerStep
<1>3. CASE UNCHANGED vars
  <2>1. TypeOK'
    BY <1>3 DEF vars, brokerVars, loopVars, taskVars, TypeInv, TypeOK,
                BrokerTypeOK
  <2>2. Waited' = Waited
    BY <1>3 DEF vars, brokerVars, loopVars, taskVars, Waited
  <2>3. Carried'
    BY <1>3, <2>2 DEF vars, brokerVars, loopVars, taskVars, TypeInv, Carried
  <2> QED
    BY <1>3, <2>1, <2>3 DEF vars, brokerVars, TypeInv
<1> QED
  BY <1>1, <1>2, <1>3 DEF Next

\* Every variable keeps its type, whatever the workers, the tasks and the clock
\* do: no completion without a task reaches the run queue (scheduler.cpp:235
\* pushes header->entry unseen) and no ring exceeds its capacity.
THEOREM TypeCorrect == Spec => []TypeOK
<1>1. TypeInv => TypeOK
  BY DEF TypeInv
<1> QED
  BY <1>1, InitTypeInv, NextTypeInv, PTL DEF Spec
=============================================================================
