--------------------------- MODULE WorkerPoolProofs ---------------------------
(***************************************************************************)
(* Theorems about WorkerPool for any number of workers, any workerNum and  *)
(* any number of tries.                                                    *)
(***************************************************************************)
EXTENDS WorkerPool, FiniteSetTheorems, TLAPS

-----------------------------------------------------------------------------
(***************************************************************************)
(* The inductive invariant.  workerCount says how many threads are inside  *)
(* worker() (CountInv); what start() and thread::run have made depends on  *)
(* the stage they are in (StageInv); the workers clean() counted had a     *)
(* stack and have been inside (CleanInv).                                  *)
(***************************************************************************)
PoolType ==
  /\ fiber \in Fiber
  /\ wpc \in [Workers -> WorkerPc]
  /\ tpc \in [Workers -> {"none", "created", "worker", "ended"}]
  /\ kept \subseteq Instance \cup {"evfd", "event"}
  /\ tries \in Int

CountInv ==
  /\ fiber.workerCount = Cardinality(InWorker)
  /\ \A w \in Workers : tpc[w] \in {"none", "created"} => wpc[w] = "start"

StageInv ==
  /\ spc \in {"none", "start"} =>
       kept = {} /\ held = {} /\ threads = {} /\ Made = {} /\ ~active
  /\ spc \in {"spawn", "link"} => Instance \subseteq kept /\ ~active
  /\ "event" \in kept => active
  /\ active /\ spc \in {"eventfd", "pollmod"} =>
       Instance \subseteq kept /\ Cardinality(Made) = want
  /\ spc = "pollmod" => "evfd" \in kept
  /\ PartsAccounted
  /\ InitMeansRunning

CleanInv ==
  /\ counted \subseteq Made
  /\ \A w \in counted : wpc[w] # "start"
  /\ CountedLeaveFirst

Inv == PoolType /\ CountInv /\ StageInv /\ CleanInv

-----------------------------------------------------------------------------
(***************************************************************************)
(* What a step of a worker does to the count.                              *)
(***************************************************************************)

Present == WorkerPc \ {"start", "gone"}

\* Worker w goes to a step of its own and counts itself as it should.
Moves(w, to) ==
  /\ wpc' = [wpc EXCEPT ![w] = to]
  /\ wpc[w] # "gone"
  /\ fiber' \in Fiber
  /\ fiber'.workerCount =
       fiber.workerCount + (IF wpc[w] = "start" THEN 1 ELSE 0)
                         - (IF to = "gone" THEN 1 ELSE 0)

\* A worker goes to a step other than its first, is not gone before, and adds
\* itself to workerCount as it enters worker() and takes itself off as it
\* leaves.
LEMMA WorkerMoves ==
  ASSUME PoolType, NEW w \in Workers, Worker(w)
  PROVE  \E to \in WorkerPc \ {"start"} : Moves(w, to)
<1> USE DEF PoolType, At, GoTo
<1>1. fiber \in Fiber /\ fiber.workerCount \in Int
  BY DEF Fiber
<1>2. ASSUME NEW to, wpc' = [wpc EXCEPT ![w] = to], to \in Present,
             wpc[w] \in Present, fiber' \in Fiber,
             fiber'.workerCount = fiber.workerCount
      PROVE  \E t \in WorkerPc \ {"start"} : Moves(w, t)
  <2>1. to \in WorkerPc \ {"start"} /\ to # "gone"
    BY <1>2 DEF Present
  <2>2. Moves(w, to)
    BY <1>1, <1>2, <2>1 DEF Moves, Present
  <2> QED BY <2>1, <2>2
<1>3. CASE Enter(w)
  <2>1. wpc' = [wpc EXCEPT ![w] = "loop"] /\ wpc[w] = "start"
    BY <1>3 DEF Enter, FetchAdd
  <2>2. fiber' = [fiber EXCEPT !.workerCount = @ + 1]
    BY <1>3 DEF Enter, FetchAdd
  <2>3. fiber' \in Fiber /\ fiber'.workerCount = fiber.workerCount + 1
    BY <1>1, <2>2 DEF Fiber
  <2>4. "loop" \in WorkerPc \ {"start"}
    BY DEF WorkerPc
  <2>5. Moves(w, "loop")
    BY <1>1, <2>1, <2>3 DEF Moves
  <2> QED BY <2>4, <2>5
<1>4. CASE Leave(w)
  <2>1. wpc' = [wpc EXCEPT ![w] = "gone"] /\ wpc[w] = "leave"
    BY <1>4 DEF Leave, FetchAdd
  <2>2. fiber' = [fiber EXCEPT !.workerCount = @ + (-1)]
    BY <1>4 DEF Leave, FetchAdd
  <2>3. fiber' \in Fiber /\ fiber'.workerCount = fiber.workerCount - 1
    BY <1>1, <2>2 DEF Fiber
  <2>4. "gone" \in WorkerPc \ {"start"}
    BY DEF WorkerPc
  <2>5. Moves(w, "gone")
    BY <1>1, <2>1, <2>3 DEF Moves
  <2> QED BY <2>4, <2>5
<1>5. CASE Doze(w) \/ Woken(w) \/ CountCompleted(w) \/ Settle(w)
  <2>1. wpc[w] \in Present
    BY <1>5 DEF Doze, Woken, CountCompleted, Settle, FetchAdd, Present, WorkerPc
  <2>2. \E to \in Present : wpc' = [wpc EXCEPT ![w] = to]
    BY <1>5 DEF Doze, Woken, CountCompleted, Settle, FetchAdd, Present, WorkerPc
  <2>3. fiber' \in Fiber /\ fiber'.workerCount = fiber.workerCount
    BY <1>1, <1>5 DEF Doze, Woken, CountCompleted, Settle, FetchAdd, Fiber
  <2> QED BY <1>2, <2>1, <2>2, <2>3
<1>6. CASE CheckAbort(w) \/ CheckWork(w) \/ RecheckAbort(w) \/ CheckSignal(w)
  <2>1. wpc[w] \in Present /\ fiber' = fiber
    BY <1>6 DEF CheckAbort, CheckWork, RecheckAbort, CheckSignal, Load, Present,
                WorkerPc
  <2>2. \E to \in Present : wpc' = [wpc EXCEPT ![w] = to]
    BY <1>6 DEF CheckAbort, CheckWork, RecheckAbort, CheckSignal, Load, Present,
                WorkerPc
  <2> QED BY <1>1, <1>2, <2>1, <2>2
<1>7. CASE SemWait(w) \/ DequeueWork(w) \/ DequeueNothing(w) \/ ChillWorks(w)
           \/ RunAction(w) \/ Publish(w) \/ PublishFull(w) \/ ChokeConsume(w)
           \/ SendEv(w)
  <2>1. wpc[w] \in Present /\ fiber' = fiber
    BY <1>7 DEF SemWait, DequeueWork, DequeueNothing, ChillWorks, RunAction,
                Publish, PublishFull, ChokeConsume, SendEv, Present, WorkerPc
  <2>2. \E to \in Present : wpc' = [wpc EXCEPT ![w] = to]
    BY <1>7 DEF SemWait, DequeueWork, DequeueNothing, ChillWorks, RunAction,
                Publish, PublishFull, ChokeConsume, SendEv, Present, WorkerPc
  <2> QED BY <1>1, <1>2, <2>1, <2>2
<1> QED BY <1>3, <1>4, <1>5, <1>6, <1>7 DEF Worker

\* The count of the workers inside follows.
LEMMA CountFollows ==
  ASSUME PoolType, NEW w \in Workers, NEW to \in WorkerPc \ {"start"},
         Moves(w, to), fiber.workerCount = Cardinality(InWorker)
  PROVE  fiber'.workerCount = Cardinality(InWorker')
<1> USE DEF Moves
<1> DEFINE A == InWorker \ {w}
<1>1. IsFiniteSet(A) /\ w \notin A
  <2>1. A \subseteq Workers
    BY DEF InWorker
  <2> QED BY <2>1, FS_Subset, BrokerAssumption
<1>2. InWorker = IF wpc[w] = "start" THEN A ELSE A \cup {w}
  BY DEF InWorker
<1>3. InWorker' = IF to = "gone" THEN A ELSE A \cup {w}
  BY DEF InWorker, PoolType
<1>4. Cardinality(A \cup {w}) = Cardinality(A) + 1 /\ Cardinality(A) \in Nat
  BY <1>1, FS_AddElement, FS_CardinalityType
<1> HIDE DEF A
<1> QED BY <1>2, <1>3, <1>4

-----------------------------------------------------------------------------
(***************************************************************************)
(* Each step keeps the invariant.                                          *)
(***************************************************************************)
LEMMA InitInv == Init => Inv
<1> SUFFICES ASSUME Init PROVE Inv
  OBVIOUS
<1> USE DEF Init, BrokerInit
<1>1. PoolType
  BY PoolAssumption DEF PoolType, FiberStart, Fiber, WorkerPc
<1>2. CountInv
  <2>1. InWorker = {}
    BY DEF InWorker
  <2>2. Cardinality(InWorker) = 0
    BY <2>1, FS_EmptySet
  <2> QED BY <2>2 DEF CountInv, FiberStart
<1>3. Made = {}
  BY DEF Made
<1>4. StageInv
  BY <1>3 DEF StageInv, PartsAccounted, InitMeansRunning
<1>5. CleanInv
  BY <1>3 DEF CleanInv, CountedLeaveFirst
<1> QED BY <1>1, <1>2, <1>4, <1>5 DEF Inv

\* A step that leaves workers and threads and what clean() noted alone, and ends
\* in a stage in which every thread has all its parts, keeps the two invariants
\* that speak of the workers.
LEMMA Quiet ==
  ASSUME Inv, UNCHANGED <<wpc, tpc, counted>>,
         fiber'.workerCount = fiber.workerCount, held' = Made \X Parts
  PROVE  CountInv' /\ CleanInv'
<1> USE DEF Inv
<1>1. InWorker' = InWorker /\ Made' = Made
  BY DEF InWorker, Made
<1>2. CountInv'
  BY <1>1 DEF CountInv
<1>3. \A w \in counted : <<w, "stack">> \in held'
  BY DEF CleanInv, Parts
<1>4. CleanInv'
  BY <1>1, <1>3 DEF CleanInv, CountedLeaveFirst
<1> QED BY <1>2, <1>4

\* In every stage but the last each thread has all its parts.
LEMMA AllParts ==
  ASSUME Inv, spc # "freed"
  PROVE  held = Made \X Parts /\ (spc # "link" => threads = Made)
<1>1. CASE spc \in {"none", "start"}
  <2>1. held = {} /\ threads = {} /\ Made = {}
    BY <1>1 DEF Inv, StageInv
  <2> QED BY <2>1
<1>2. CASE spc \notin {"none", "start"}
  BY <1>2 DEF Inv, StageInv, PartsAccounted
<1> QED BY <1>1, <1>2

\* The steps of start() and init() but the creation of a thread.
LEMMA StartupKeeps ==
  ASSUME Inv,
         \/ \E n \in WorkerNums : Start(n)
         \/ StartRefused \/ StartGivesUp \/ StartQueues
         \/ \E w \in Workers, s \in Stages : RunFails(w, s)
         \/ Link \/ Started
         \/ EventFdFails \/ EventFd \/ PollModFails \/ PollMod
  PROVE  Inv'
<1> USE DEF Goes, pool, cleaning
<1>1. /\ UNCHANGED <<brokerVars, tpc, counted, tries>>
      /\ spc # "freed" /\ spc' # "freed"
  BY DEF Start, StartRefused, StartGivesUp, StartQueues, RunFails, Link, Started,
         EventFdFails, EventFd, PollModFails, PollMod
<1>2. wpc' = wpc /\ fiber' = fiber /\ Made' = Made
  BY <1>1 DEF brokerVars, Made
<1>3. held' = held
  <2>1. ASSUME NEW w \in Workers, NEW s \in Stages, RunFails(w, s)
        PROVE  held' = held
    <3>1. MadeBefore(s) \ ReleasedAfter(s) = {}
      BY DEF MadeBefore, ReleasedAfter, Stages, Parts
    <3>2. held' = held \cup ({w} \X {})
      BY <2>1, <3>1 DEF RunFails
    <3> QED BY <3>2
  <2> QED
    BY <2>1 DEF Start, StartRefused, StartGivesUp, StartQueues, Link, Started,
                EventFdFails, EventFd, PollModFails, PollMod
<1>4. held' = Made \X Parts
  BY <1>1, <1>3, AllParts
<1>5. CountInv' /\ CleanInv'
  BY <1>1, <1>2, <1>4, Quiet
<1>6. kept' \subseteq Instance \cup {"evfd", "event"}
  BY DEF Inv, PoolType, Instance, Queues, Start, StartRefused, StartGivesUp,
         StartQueues, RunFails, Link, Started, EventFdFails, EventFd,
         PollModFails, PollMod
<1>7. PoolType'
  BY <1>1, <1>2, <1>6 DEF Inv, PoolType
<1>8. StageInv'
  <2> USE <1>2, <1>3, <1>4, AllParts
      DEF Inv, StageInv, PartsAccounted, InitMeansRunning
  <2>1. CASE \E n \in WorkerNums : Start(n)
    BY <2>1 DEF Start
  <2>2. CASE StartRefused
    BY <2>2 DEF StartRefused
  <2>3. CASE StartGivesUp
    <3>1. kept' = {} /\ spc = "start" /\ spc' = "eventfd"
      BY <2>3 DEF StartGivesUp, Queues
    <3>2. held' = held /\ threads' = threads /\ active' = active
      BY <2>3 DEF StartGivesUp
    <3> QED BY <3>1, <3>2
  <2>4. CASE StartQueues
    BY <2>4 DEF StartQueues, Instance, Queues
  <2>5. CASE \E w \in Workers, s \in Stages : RunFails(w, s)
    <3>1. /\ spc = "spawn" /\ spc' = "failed"
          /\ UNCHANGED <<want, active, kept, threads>>
      BY <2>5 DEF RunFails
    <3>2. kept \cap Instance \in {{}, Instance}
      BY <3>1
    <3> QED BY <3>1, <3>2
  <2>6. CASE Link
    BY <2>6 DEF Link
  <2>7. CASE Started
    BY <2>7 DEF Started
  <2>8. CASE EventFdFails
    BY <2>8 DEF EventFdFails
  <2>9. CASE EventFd
    <3>1. /\ spc = "eventfd" /\ spc' = "pollmod" /\ "evfd" \in kept'
          /\ UNCHANGED <<want, active, threads>>
      BY <2>9 DEF EventFd
    <3>2. kept' \cap Instance = kept \cap Instance
      BY <2>9 DEF EventFd, Instance, Queues
    <3>3. "event" \in kept' => active
      BY <2>9 DEF EventFd
    <3>4. Instance \subseteq kept => Instance \subseteq kept'
      BY <2>9 DEF EventFd
    <3> QED BY <3>1, <3>2, <3>3, <3>4
  <2>10. CASE PollModFails
    <3>1. /\ spc = "pollmod" /\ spc' = "failed" /\ "event" \notin kept'
          /\ UNCHANGED <<want, active, threads>>
      BY <2>10 DEF PollModFails
    <3>2. kept' \cap Instance = kept \cap Instance
      BY <2>10 DEF PollModFails, Instance, Queues
    <3> QED BY <3>1, <3>2
  <2>11. CASE PollMod
    <3>1. /\ spc = "pollmod" /\ spc' = "ready"
          /\ {"epoll", "event"} \subseteq kept
          /\ UNCHANGED <<want, active, kept, threads>>
      BY <2>11 DEF PollMod
    <3>2. active /\ Instance \subseteq kept /\ Cardinality(Made) = want
          /\ threads = Made
      BY <3>1
    <3>3. kept = Instance \cup {"evfd", "event"}
      BY <3>1, <3>2 DEF PoolType
    <3> QED BY <3>1, <3>2, <3>3
  <2> QED
    BY <2>1, <2>2, <2>3, <2>4, <2>5, <2>6, <2>7, <2>8, <2>9, <2>10, <2>11
<1> QED BY <1>5, <1>7, <1>8 DEF Inv

\* A thread is created.
LEMMA CreateKeeps ==
  ASSUME Inv, NEW w \in Workers, RunCreates(w)
  PROVE  Inv'
<1> USE DEF RunCreates, Goes, Inv
<1>1. /\ spc = "spawn" /\ spc' = "link" /\ tpc[w] = "none"
      /\ tpc' = [tpc EXCEPT ![w] = "created"]
      /\ held' = held \cup ({w} \X Parts)
      /\ wpc' = wpc /\ fiber' = fiber
      /\ UNCHANGED <<want, active, kept, threads, counted, tries>>
  BY DEF brokerVars, cleaning
<1>2. PoolType'
  BY <1>1 DEF PoolType
<1>3. Made' = Made \cup {w}
  BY <1>1 DEF Made, PoolType
<1>4. CountInv'
  <2>1. InWorker' = InWorker
    BY <1>1 DEF InWorker
  <2> QED BY <1>1, <2>1 DEF CountInv, PoolType
<1>5. held' = Made' \X Parts
  <2>1. held = Made \X Parts
    BY <1>1, AllParts
  <2> QED BY <1>1, <1>3, <2>1
<1>6. StageInv'
  BY <1>1, <1>5 DEF StageInv, PartsAccounted, InitMeansRunning
<1>7. CleanInv'
  <2>1. counted' \subseteq Made' /\ \A v \in counted' : wpc'[v] # "start"
    BY <1>1, <1>3 DEF CleanInv
  <2>2. \A v \in counted' : <<v, "stack">> \in held'
    BY <1>5, <2>1 DEF Parts
  <2> QED BY <2>1, <2>2 DEF CleanInv, CountedLeaveFirst
<1> QED BY <1>2, <1>4, <1>6, <1>7

\* A request for the workers, and a completion taken.
LEMMA RequestKeeps ==
  ASSUME Inv, Collect \/ \E h \in Headers : Submit(h)
  PROVE  Inv'
<1> USE DEF Submit, Collect, Inv, pool, cleaning
<1>1. /\ spc = "ready" /\ spc' = spc
      /\ UNCHANGED <<wpc, tpc, want, active, kept, held, threads, counted, tries>>
  OBVIOUS
<1>2. fiber' \in Fiber /\ fiber'.workerCount = fiber.workerCount
  BY DEF PoolType, Fiber
<1>3. Made' = Made
  BY <1>1 DEF Made
<1>4. held' = Made \X Parts
  BY <1>1, AllParts
<1>5. CountInv' /\ CleanInv'
  BY <1>1, <1>2, <1>4, Quiet
<1>6. StageInv'
  BY <1>1, <1>3 DEF StageInv, PartsAccounted, InitMeansRunning
<1> QED BY <1>1, <1>2, <1>5, <1>6 DEF PoolType

-----------------------------------------------------------------------------
\* clean() counts the workers: none of them is at its start.
LEMMA CleanKeeps ==
  ASSUME Inv, Clean
  PROVE  Inv'
<1> USE DEF Clean, Goes, Inv, pool
<1>1. /\ spc \in {"ready", "failed"} /\ spc' = "abort"
      /\ counted' = InWorker
      /\ wpc' = wpc /\ fiber' = fiber
      /\ UNCHANGED <<tpc, want, active, kept, held, threads, tries>>
  BY DEF brokerVars
<1>2. Made' = Made /\ InWorker' = InWorker
  BY <1>1 DEF Made, InWorker
<1>3. held' = Made' \X Parts
  BY <1>1, <1>2, AllParts
<1>4. PoolType' /\ CountInv'
  BY <1>1, <1>2 DEF PoolType, CountInv
<1>5. StageInv'
  BY <1>1, <1>2 DEF StageInv, PartsAccounted, InitMeansRunning
<1>6. counted' \subseteq Made' /\ \A v \in counted' : wpc'[v] # "start"
  BY <1>1, <1>2 DEF InWorker, Made, CountInv
<1>7. \A v \in counted' : <<v, "stack">> \in held'
  BY <1>3, <1>6 DEF Parts
<1>8. CleanInv'
  BY <1>6, <1>7 DEF CleanInv, CountedLeaveFirst
<1> QED BY <1>4, <1>5, <1>8

\* The abort flag, the posts and the wait.
LEMMA ShutKeeps ==
  ASSUME Inv, StoreAbort \/ PingWorkers \/ AwaitWorkers
  PROVE  Inv'
<1> USE DEF StoreAbort, PingWorkers, AwaitWorkers, Goes, Inv, pool, cleaning,
            brokerVars
<1>1. /\ spc \in {"abort", "pings", "await"} /\ spc' \in {"pings", "await"}
      /\ UNCHANGED <<wpc, tpc, want, active, kept, held, threads, counted>>
  OBVIOUS
<1>2. fiber' \in Fiber /\ fiber'.workerCount = fiber.workerCount
  BY DEF PoolType, Fiber
<1>3. tries' \in Int
  BY DEF PoolType
<1>4. Made' = Made
  BY <1>1 DEF Made
<1>5. held' = Made \X Parts
  BY <1>1, AllParts
<1>6. CountInv' /\ CleanInv'
  BY <1>1, <1>2, <1>5, Quiet
<1>7. StageInv'
  BY <1>1, <1>4 DEF StageInv, PartsAccounted, InitMeansRunning
<1> QED BY <1>1, <1>2, <1>3, <1>6, <1>7 DEF PoolType

\* The stacks are freed: workerCount is zero, so each worker clean() counted,
\* which has been inside, is gone; or the tries ran out.
LEMMA FreeKeeps ==
  ASSUME Inv, Free
  PROVE  Inv'
<1> USE DEF Free, Goes, Inv, cleaning
<1>1. /\ spc = "await" /\ spc' = "freed"
      /\ fiber.workerCount = 0 \/ tries < 0
      /\ wpc' = wpc /\ fiber' = fiber
      /\ UNCHANGED <<tpc, want, active, kept, counted, tries>>
  BY DEF brokerVars
<1>2. Made' = Made /\ InWorker' = InWorker
  BY <1>1 DEF Made, InWorker
<1>3. PoolType' /\ CountInv'
  BY <1>1, <1>2 DEF PoolType, CountInv
<1>4. StageInv'
  BY <1>1, <1>2 DEF StageInv, PartsAccounted, InitMeansRunning
<1>5. tries >= 0 => \A w \in counted : wpc[w] = "gone"
  <2> SUFFICES ASSUME tries >= 0, NEW w \in counted PROVE wpc[w] = "gone"
    OBVIOUS
  <2>1. Cardinality(InWorker) = 0
    BY <1>1 DEF CountInv, PoolType
  <2>2. IsFiniteSet(InWorker)
    <3>1. InWorker \subseteq Workers
      BY DEF InWorker
    <3> QED BY <3>1, FS_Subset, BrokerAssumption
  <2>3. InWorker = {}
    BY <2>1, <2>2, FS_EmptySet
  <2>4. w \in Workers /\ wpc[w] # "start"
    BY DEF CleanInv, Made
  <2> QED BY <2>3, <2>4 DEF InWorker
<1>6. CleanInv'
  BY <1>1, <1>2, <1>5 DEF CleanInv, CountedLeaveFirst, At
<1> QED BY <1>3, <1>4, <1>6

-----------------------------------------------------------------------------
\* A thread starts, works or ends; a worker that is gone stays so.
LEMMA ThreadKeeps ==
  ASSUME Inv, NEW w \in Workers, Thread(w)
  PROVE  Inv'
<1> USE DEF Inv
<1>1. /\ UNCHANGED <<spc, want, active, kept, held, threads, counted, tries>>
      /\ tpc[w] # "none"
  BY DEF Thread, ThreadStart, ThreadStep, ThreadEnd, pool, cleaning
<1>2. /\ tpc' \in [Workers -> {"none", "created", "worker", "ended"}]
      /\ \A v \in Workers : tpc'[v] = "none" <=> tpc[v] = "none"
      /\ \A v \in Workers : tpc'[v] = "created" => tpc[v] = "created"
  BY DEF Thread, ThreadStart, ThreadStep, ThreadEnd, pool, PoolType
<1>3. Made' = Made
  BY <1>2 DEF Made
<1>4. /\ PoolType' /\ CountInv'
      /\ \A v \in Workers : wpc[v] # "start" => wpc'[v] # "start"
      /\ \A v \in Workers : wpc[v] = "gone" => wpc'[v] = "gone"
  <2>1. CASE ThreadStep(w)
    <3>1. Worker(w) /\ tpc[w] = "worker" /\ tpc' = tpc
      BY <2>1 DEF ThreadStep, pool
    <3>2. PICK to \in WorkerPc \ {"start"} : Moves(w, to)
      BY <3>1, WorkerMoves
    <3>3. fiber'.workerCount = Cardinality(InWorker')
      BY <3>2, CountFollows DEF CountInv
    <3>4. wpc' = [wpc EXCEPT ![w] = to] /\ wpc[w] # "gone" /\ fiber' \in Fiber
      BY <3>2 DEF Moves
    <3>5. PoolType'
      BY <1>1, <1>2, <3>4 DEF PoolType
    <3> QED BY <3>1, <3>3, <3>4, <3>5 DEF CountInv, PoolType
  <2>2. CASE ThreadStart(w) \/ ThreadEnd(w)
    <3>1. wpc' = wpc /\ fiber' = fiber
      BY <2>2 DEF ThreadStart, ThreadEnd, brokerVars
    <3>2. InWorker' = InWorker
      BY <3>1 DEF InWorker
    <3>3. \A v \in Workers :
            tpc'[v] \in {"none", "created"} => tpc[v] \in {"none", "created"}
      BY <1>2
    <3> QED BY <1>1, <1>2, <3>1, <3>2, <3>3 DEF PoolType, CountInv
  <2> QED BY <2>1, <2>2 DEF Thread
<1>5. StageInv'
  BY <1>1, <1>3 DEF StageInv, PartsAccounted, InitMeansRunning
<1>6. CleanInv'
  <2>1. counted' \subseteq Workers
    BY <1>1 DEF CleanInv, Made
  <2> QED BY <1>1, <1>3, <1>4, <2>1 DEF CleanInv, CountedLeaveFirst, At
<1> QED BY <1>4, <1>5, <1>6

\* The invariant is inductive.
LEMMA NextInv == Inv /\ [Next]_vars => Inv'
<1> SUFFICES ASSUME Inv, [Next]_vars PROVE Inv'
  OBVIOUS
<1>1. CASE Startup
  BY <1>1, StartupKeeps, CreateKeeps DEF Startup
<1>2. CASE Collect \/ \E h \in Headers : Submit(h)
  BY <1>2, RequestKeeps
<1>3. CASE Clean
  BY <1>3, CleanKeeps
<1>4. CASE Shutdown
  BY <1>4, ShutKeeps, FreeKeeps DEF Shutdown
<1>5. CASE \E w \in Workers : Thread(w)
  BY <1>5, ThreadKeeps
<1>6. CASE UNCHANGED vars
  <2>1. UNCHANGED <<wpc, fiber, spc, want, active, kept, held, threads, tpc,
                    counted, tries>>
    BY <1>6 DEF vars, brokerVars, pool, cleaning
  <2>2. Made' = Made /\ InWorker' = InWorker
    BY <2>1 DEF Made, InWorker
  <2> QED
    BY <2>1, <2>2 DEF Inv, PoolType, CountInv, StageInv, CleanInv,
       PartsAccounted, InitMeansRunning, CountedLeaveFirst, At
<1> QED BY <1>1, <1>2, <1>3, <1>4, <1>5, <1>6 DEF Next

\* The inductive invariant of init and clean.
THEOREM Invariance == Spec => []Inv
BY InitInv, NextInv, PTL DEF Spec

-----------------------------------------------------------------------------
\* init() returns 0 only for an active broker with every worker it was asked
\* for, whichever of its calls failed before.
THEOREM InitSound == Spec => []InitMeansRunning
<1>1. Inv => InitMeansRunning
  BY DEF Inv, StageInv
<1> QED BY <1>1, Invariance, PTL

\* Whatever stage fails, the parts of every thread, the list clean() walks and
\* what the workers run on are accounted for.
THEOREM AllAccounted == Spec => []PartsAccounted
<1>1. Inv => PartsAccounted
  BY DEF Inv, StageInv
<1> QED BY <1>1, Invariance, PTL

\* The stack of a worker clean() counted outlives its time in worker(), unless
\* the tries ran out.
THEOREM StacksOutlive == Spec => []CountedLeaveFirst
<1>1. Inv => CountedLeaveFirst
  BY DEF Inv, CleanInv
<1> QED BY <1>1, Invariance, PTL
-----------------------------------------------------------------------------
(***************************************************************************)
(* Type correctness.  TypeOK alone is not inductive: the semaphore is      *)
(* posted as often as sleepingThread says, which must not be negative      *)
(* (SleepInv), and a worker queues the header it holds, which must be one  *)
(* (HoldInv).  That pings is not negative follows from CountInv.           *)
(***************************************************************************)
Asleep == {"wait", "woken"}
Holding == {"act", "publish", "full"}

SleepInv == fiber.sleepingThread = Cardinality(InPc(Asleep))
HoldInv == \A w \in Workers : wpc[w] \in Holding => whdr[w] \in Headers
TypeInv == TypeOK /\ SleepInv /\ HoldInv

\* A worker that neither goes to sleep nor leaves it is counted as before, one
\* that dozes off is counted, one that was woken is no longer.
LEMMA AsleepFollows ==
  ASSUME wpc \in [Workers -> WorkerPc], NEW w \in Workers,
         NEW to \in WorkerPc, wpc' = [wpc EXCEPT ![w] = to]
  PROVE  /\ (to \in Asleep <=> wpc[w] \in Asleep) =>
              Cardinality(InPc(Asleep)') = Cardinality(InPc(Asleep))
         /\ to \in Asleep /\ wpc[w] \notin Asleep =>
              Cardinality(InPc(Asleep)') = Cardinality(InPc(Asleep)) + 1
         /\ to \notin Asleep /\ wpc[w] \in Asleep =>
              Cardinality(InPc(Asleep)') = Cardinality(InPc(Asleep)) - 1
<1> DEFINE A == InPc(Asleep) \ {w}
<1>1. IsFiniteSet(A) /\ w \notin A
  <2>1. A \subseteq Workers
    BY DEF InPc
  <2> QED BY <2>1, FS_Subset, BrokerAssumption
<1>2. InPc(Asleep) = IF wpc[w] \in Asleep THEN A \cup {w} ELSE A
  BY DEF InPc
<1>3. InPc(Asleep)' = IF to \in Asleep THEN A \cup {w} ELSE A
  BY DEF InPc, Asleep
<1>4. Cardinality(A \cup {w}) = Cardinality(A) + 1 /\ Cardinality(A) \in Nat
  BY <1>1, FS_AddElement, FS_CardinalityType
<1> HIDE DEF A
<1> QED BY <1>2, <1>3, <1>4

\* The number of workers asleep is a natural number.
LEMMA AsleepNat == Cardinality(InPc(Asleep)) \in Nat
<1>1. InPc(Asleep) \subseteq Workers
  BY DEF InPc
<1> QED BY <1>1, FS_Subset, FS_CardinalityType, BrokerAssumption

\* A dequeue keeps the type and the bound of a queue and yields a header.
LEMMA TakeType ==
  ASSUME NEW q \in LfQueue, CanTake(q), Len(q.items) <= Cap
  PROVE  /\ Take(q) \in LfQueue /\ Len(Take(q).items) <= Cap
         /\ Head(q.items) \in Headers
<1> DEFINE s == q.items
<1>1. s \in Seq(Headers) /\ s # << >>
  BY DEF LfQueue, CanTake
<1>2. Tail(s) \in Seq(Headers) /\ Len(Tail(s)) = Len(s) - 1 /\ Head(s) \in Headers
  BY <1>1
<1>3. Len(s) \in Nat /\ Cap \in Nat /\ Len(s) <= Cap
  BY <1>1, BrokerAssumption
<1>4. Take(q) \in LfQueue /\ Take(q).items = Tail(s)
  BY <1>2 DEF LfQueue, Take
<1> HIDE DEF s
<1>5. Len(Tail(s)) <= Cap
  BY <1>2, <1>3
<1> QED BY <1>2, <1>4, <1>5 DEF s

\* An enqueue on a queue with room keeps its type and its bound.
LEMMA PutType ==
  ASSUME NEW q \in LfQueue, NEW h \in Headers, CanPut(q)
  PROVE  Put(q, h) \in LfQueue /\ Len(Put(q, h).items) <= Cap
<1> DEFINE s == q.items
<1>1. s \in Seq(Headers) /\ Len(s) < Cap
  BY DEF LfQueue, CanPut
<1>2. Append(s, h) \in Seq(Headers) /\ Len(Append(s, h)) = Len(s) + 1
  BY <1>1
<1>3. Len(s) \in Nat /\ Cap \in Nat
  BY <1>1, BrokerAssumption
<1>4. Put(q, h) \in LfQueue /\ Put(q, h).items = Append(s, h)
  BY <1>2 DEF LfQueue, Put
<1> HIDE DEF s
<1>5. Len(Append(s, h)) <= Cap
  BY <1>1, <1>2, <1>3
<1> QED BY <1>4, <1>5

\* A step of a worker keeps the types: it comes to hold a header only by a
\* dequeue and keeps it until it is published.
LEMMA WorkerTypes ==
  ASSUME TypeInv, NEW w \in Workers, Worker(w)
  PROVE  BrokerTypeOK' /\ SleepInv' /\ HoldInv'
<1> USE DEF At, GoTo, WorkerPc
<1>1. BrokerTypeOK /\ SleepInv /\ HoldInv /\ fiber \in Fiber
      /\ wpc \in [Workers -> WorkerPc]
  BY DEF TypeInv, TypeOK, BrokerTypeOK
<1>2. Cardinality(InPc(Asleep)) \in Nat
  BY AsleepNat
<1>3. ASSUME NEW from \in WorkerPc, NEW c \in {"workerCount", "pendingReq",
                 "sleepingThread", "queuedCompleted"},
             NEW n \in Int, NEW to \in WorkerPc \ Holding,
             FetchAdd(w, from, c, n, to)
      PROVE  /\ BrokerTypeOK' /\ HoldInv'
             /\ wpc' = [wpc EXCEPT ![w] = to] /\ wpc[w] = from
             /\ fiber' = [fiber EXCEPT ![c] = @ + n]
  <2>1. /\ wpc' = [wpc EXCEPT ![w] = to] /\ wpc[w] = from
        /\ fiber' = [fiber EXCEPT ![c] = @ + n]
        /\ UNCHANGED <<works, consume, sem, evfd, fresh, whdr>>
    BY <1>3 DEF FetchAdd
  <2>2. fiber' \in Fiber
    BY ONLY <1>1, <1>3, <2>1 DEF Fiber
  <2>3. BrokerTypeOK'
    BY <1>1, <2>1, <2>2 DEF BrokerTypeOK
  <2>4. HoldInv'
    BY <1>1, <2>1 DEF HoldInv, Holding
  <2> QED BY <2>1, <2>3, <2>4
<1>4. CASE Enter(w) \/ CountCompleted(w) \/ Settle(w) \/ Leave(w)
  <2>1. PICK from \in WorkerPc \ Asleep,
             c \in {"workerCount", "pendingReq", "queuedCompleted"},
             n \in {1, -1}, to \in WorkerPc \ (Holding \cup Asleep) :
               FetchAdd(w, from, c, n, to)
    BY <1>4 DEF Enter, CountCompleted, Settle, Leave, Asleep, Holding
  <2>2. /\ BrokerTypeOK' /\ HoldInv'
        /\ wpc' = [wpc EXCEPT ![w] = to] /\ wpc[w] = from
        /\ fiber' = [fiber EXCEPT ![c] = @ + n]
    <3>1. n \in Int /\ to \in WorkerPc \ Holding
      OBVIOUS
    <3> QED BY <1>3, <2>1, <3>1
  <2>3. fiber'.sleepingThread = fiber.sleepingThread
    BY <1>1, <2>2 DEF Fiber
  <2>4. Cardinality(InPc(Asleep)') = Cardinality(InPc(Asleep))
    BY <1>1, <2>2, AsleepFollows
  <2> QED BY <1>1, <2>2, <2>3, <2>4 DEF SleepInv
<1>5. CASE Doze(w)
  <2>1. /\ BrokerTypeOK' /\ HoldInv'
        /\ wpc' = [wpc EXCEPT ![w] = "wait"] /\ wpc[w] = "doze"
        /\ fiber' = [fiber EXCEPT !.sleepingThread = @ + 1]
    <3>1. "wait" \in WorkerPc \ Holding /\ "doze" \in WorkerPc
      BY DEF Holding
    <3> QED BY <1>3, <1>5, <3>1 DEF Doze
  <2>2. Cardinality(InPc(Asleep)') = Cardinality(InPc(Asleep)) + 1
    BY <1>1, <2>1, AsleepFollows DEF Asleep
  <2>3. fiber'.sleepingThread = fiber.sleepingThread + 1
    BY <1>1, <2>1 DEF Fiber
  <2> QED BY <1>1, <2>1, <2>2, <2>3 DEF SleepInv
<1>6. CASE Woken(w)
  <2>1. /\ BrokerTypeOK' /\ HoldInv'
        /\ wpc' = [wpc EXCEPT ![w] = "recheck"] /\ wpc[w] = "woken"
        /\ fiber' = [fiber EXCEPT !.sleepingThread = @ + (-1)]
    <3>1. "recheck" \in WorkerPc \ Holding /\ "woken" \in WorkerPc /\ -1 \in Int
      BY DEF Holding
    <3> QED BY <1>3, <1>6, <3>1 DEF Woken
  <2>2. Cardinality(InPc(Asleep)') = Cardinality(InPc(Asleep)) - 1
    BY <1>1, <2>1, AsleepFollows DEF Asleep
  <2>3. fiber'.sleepingThread = fiber.sleepingThread - 1
    BY <1>1, <2>1 DEF Fiber
  <2> QED BY <1>1, <2>1, <2>2, <2>3 DEF SleepInv
\* The steps that leave the counters alone.
<1>7. ASSUME NEW to \in WorkerPc, wpc' = [wpc EXCEPT ![w] = to],
             fiber' = fiber, to \in Asleep <=> wpc[w] \in Asleep
      PROVE  SleepInv' /\ wpc' \in [Workers -> WorkerPc]
  <2>1. Cardinality(InPc(Asleep)') = Cardinality(InPc(Asleep))
    BY <1>1, <1>7, AsleepFollows
  <2> QED BY <1>1, <1>7, <2>1 DEF SleepInv
<1>8. CASE \/ CheckAbort(w) \/ CheckWork(w) \/ RecheckAbort(w) \/ CheckSignal(w)
           \/ DequeueNothing(w)
  <2>1. /\ UNCHANGED <<works, consume, sem, fiber, evfd, fresh, whdr>>
        /\ wpc[w] \notin Asleep
    BY <1>8 DEF CheckAbort, CheckWork, RecheckAbort, CheckSignal, Load,
                DequeueNothing, Asleep
  <2>2. PICK to \in WorkerPc \ (Holding \cup Asleep) :
               wpc' = [wpc EXCEPT ![w] = to]
    BY <1>8 DEF CheckAbort, CheckWork, RecheckAbort, CheckSignal, Load,
                DequeueNothing, Asleep, Holding
  <2>3. SleepInv' /\ wpc' \in [Workers -> WorkerPc]
    BY <1>7, <2>1, <2>2
  <2>4. HoldInv'
    BY <1>1, <2>1, <2>2 DEF HoldInv
  <2> QED BY <1>1, <2>1, <2>3, <2>4 DEF BrokerTypeOK
<1>9. CASE SemWait(w)
  <2>1. /\ UNCHANGED <<works, consume, fiber, evfd, fresh, whdr>>
        /\ wpc' = [wpc EXCEPT ![w] = "woken"] /\ wpc[w] = "wait"
        /\ sem > 0 /\ sem' = sem - 1
    BY <1>9 DEF SemWait
  <2>2. SleepInv' /\ wpc' \in [Workers -> WorkerPc]
    <3>1. "woken" \in WorkerPc /\ "woken" \in Asleep /\ wpc[w] \in Asleep
      BY <2>1 DEF Asleep
    <3> QED BY <1>7, <2>1, <3>1
  <2>3. HoldInv'
    BY <1>1, <2>1 DEF HoldInv, Holding
  <2>4. sem' \in Nat
    BY <1>1, <2>1 DEF BrokerTypeOK
  <2> QED BY <1>1, <2>1, <2>2, <2>3, <2>4 DEF BrokerTypeOK
<1>10. CASE DequeueWork(w)
  <2>1. /\ UNCHANGED <<consume, sem, fiber, evfd, fresh>>
        /\ wpc' = [wpc EXCEPT ![w] = "act"] /\ wpc[w] = "dequeue"
        /\ CanTake(works) /\ works' = Take(works)
        /\ whdr' = [whdr EXCEPT ![w] = Head(works.items)]
    BY <1>10 DEF DequeueWork
  <2>2. works' \in LfQueue /\ Len(works'.items) <= Cap /\ Head(works.items) \in Headers
    BY <1>1, <2>1, TakeType DEF BrokerTypeOK
  <2>3. SleepInv' /\ wpc' \in [Workers -> WorkerPc]
    <3>1. "act" \in WorkerPc /\ "act" \notin Asleep /\ wpc[w] \notin Asleep
      BY <2>1 DEF Asleep
    <3> QED BY <1>7, <2>1, <3>1
  <2>4. whdr' \in [Workers -> Headers \cup {NoHeader}]
    BY <1>1, <2>1, <2>2 DEF BrokerTypeOK
  <2>5. HoldInv'
    BY <1>1, <2>1, <2>2 DEF HoldInv, BrokerTypeOK
  <2> QED BY <1>1, <2>1, <2>2, <2>3, <2>4, <2>5 DEF BrokerTypeOK
<1>11. CASE ChillWorks(w)
  <2>1. /\ UNCHANGED <<consume, sem, fiber, evfd, fresh, whdr>>
        /\ wpc' = [wpc EXCEPT ![w] = "loop"] /\ wpc[w] = "drained"
        /\ works' = [works EXCEPT !.hot = FALSE]
    BY <1>11 DEF ChillWorks, Chill
  <2>2. works' \in LfQueue /\ works'.items = works.items
    BY <1>1, <2>1 DEF BrokerTypeOK, LfQueue
  <2>3. SleepInv' /\ wpc' \in [Workers -> WorkerPc]
    <3>1. "loop" \in WorkerPc /\ "loop" \notin Asleep /\ wpc[w] \notin Asleep
      BY <2>1 DEF Asleep
    <3> QED BY <1>7, <2>1, <3>1
  <2>4. HoldInv'
    BY <1>1, <2>1 DEF HoldInv, Holding
  <2> QED BY <1>1, <2>1, <2>2, <2>3, <2>4 DEF BrokerTypeOK
<1>12. CASE RunAction(w)
  <2>1. /\ UNCHANGED <<works, consume, sem, fiber, evfd, whdr>>
        /\ wpc' = [wpc EXCEPT ![w] = "publish"] /\ wpc[w] = "act"
        /\ fresh' = fresh \ {whdr[w]}
    BY <1>12 DEF RunAction
  <2>2. SleepInv' /\ wpc' \in [Workers -> WorkerPc]
    <3>1. "publish" \in WorkerPc /\ "publish" \notin Asleep /\ wpc[w] \notin Asleep
      BY <2>1 DEF Asleep
    <3> QED BY <1>7, <2>1, <3>1
  <2>3. HoldInv'
    BY <1>1, <2>1 DEF HoldInv, Holding
  <2>4. fresh' \subseteq Headers
    BY <1>1, <2>1 DEF BrokerTypeOK
  <2> QED BY <1>1, <2>1, <2>2, <2>3, <2>4 DEF BrokerTypeOK
<1>13. CASE Publish(w)
  <2>1. /\ UNCHANGED <<works, sem, fiber, evfd, fresh>>
        /\ wpc' = [wpc EXCEPT ![w] = "count"] /\ wpc[w] = "publish"
        /\ CanPut(consume) /\ consume' = Put(consume, whdr[w])
        /\ whdr' = [whdr EXCEPT ![w] = NoHeader]
    BY <1>13 DEF Publish
  <2>2. whdr[w] \in Headers
    BY <1>1, <2>1 DEF HoldInv, Holding
  <2>3. consume' \in LfQueue /\ Len(consume'.items) <= Cap
    BY <1>1, <2>1, <2>2, PutType DEF BrokerTypeOK
  <2>4. SleepInv' /\ wpc' \in [Workers -> WorkerPc]
    <3>1. "count" \in WorkerPc /\ "count" \notin Asleep /\ wpc[w] \notin Asleep
      BY <2>1 DEF Asleep
    <3> QED BY <1>7, <2>1, <3>1
  <2>5. whdr' \in [Workers -> Headers \cup {NoHeader}]
    BY <1>1, <2>1 DEF BrokerTypeOK
  <2>6. HoldInv'
    BY <1>1, <2>1 DEF HoldInv, Holding, BrokerTypeOK
  <2> QED BY <1>1, <2>1, <2>3, <2>4, <2>5, <2>6 DEF BrokerTypeOK
<1>14. CASE PublishFull(w) \/ ChokeConsume(w)
  <2>1. /\ UNCHANGED <<works, sem, fiber, evfd, fresh, whdr>>
        /\ wpc[w] \in Holding \ Asleep
        /\ consume' \in {consume, [consume EXCEPT !.room = FALSE]}
    BY <1>14 DEF PublishFull, ChokeConsume, Choke, Holding, Asleep
  <2>2. PICK to \in Holding : wpc' = [wpc EXCEPT ![w] = to]
    BY <1>14 DEF PublishFull, ChokeConsume, Holding
  <2>3. consume' \in LfQueue /\ consume'.items = consume.items
    <3>1. [consume EXCEPT !.room = FALSE] \in LfQueue
          /\ [consume EXCEPT !.room = FALSE].items = consume.items
      BY <1>1 DEF BrokerTypeOK, LfQueue
    <3> QED BY <1>1, <2>1, <3>1 DEF BrokerTypeOK
  <2>4. SleepInv' /\ wpc' \in [Workers -> WorkerPc]
    <3>1. to \in WorkerPc /\ to \notin Asleep
      BY <2>2 DEF Asleep, Holding
    <3> QED BY <1>7, <2>1, <2>2, <3>1
  <2>5. HoldInv'
    BY <1>1, <2>1, <2>2 DEF HoldInv
  <2> QED BY <1>1, <2>1, <2>3, <2>4, <2>5 DEF BrokerTypeOK
<1>15. CASE SendEv(w)
  <2>1. /\ UNCHANGED <<works, consume, sem, fiber, fresh, whdr>>
        /\ wpc' = [wpc EXCEPT ![w] = "settle"] /\ wpc[w] = "sendev"
        /\ evfd' = "armed"
    BY <1>15 DEF SendEv
  <2>2. SleepInv' /\ wpc' \in [Workers -> WorkerPc]
    <3>1. "settle" \in WorkerPc /\ "settle" \notin Asleep /\ wpc[w] \notin Asleep
      BY <2>1 DEF Asleep
    <3> QED BY <1>7, <2>1, <3>1
  <2>3. HoldInv'
    BY <1>1, <2>1 DEF HoldInv, Holding
  <2> QED BY <1>1, <2>1, <2>2, <2>3 DEF BrokerTypeOK
<1> QED
  BY <1>4, <1>5, <1>6, <1>8, <1>9, <1>10, <1>11, <1>12, <1>13, <1>14, <1>15
     DEF Worker

\* The initial states have the types.
LEMMA InitTypeInv == Init => TypeInv
<1> SUFFICES ASSUME Init PROVE TypeInv
  OBVIOUS
<1> USE DEF Init, BrokerInit
<1>1. BrokerTypeOK
  BY BrokerAssumption
     DEF BrokerTypeOK, LfStart, LfQueue, FiberStart, Fiber, WorkerPc
<1>2. TypeOK
  <2>1. tries \in Int
    BY PoolAssumption
  <2> QED BY ONLY <1>1, <2>1, Init DEF TypeOK
<1>3. SleepInv
  <2>1. InPc(Asleep) = {}
    BY DEF InPc, Asleep
  <2> QED BY <2>1, FS_EmptySet DEF SleepInv, FiberStart
<1>4. HoldInv
  BY DEF HoldInv, Holding
<1> QED BY <1>2, <1>3, <1>4 DEF TypeInv

\* Every step keeps the types.
LEMMA NextTypeInv == Inv /\ TypeInv /\ [Next]_vars => TypeInv'
<1> SUFFICES ASSUME Inv, TypeInv, [Next]_vars PROVE TypeInv'
  OBVIOUS
<1> USE DEF Goes
<1>1. TypeOK /\ BrokerTypeOK /\ SleepInv /\ HoldInv
  BY DEF TypeInv, TypeOK
\* The scheduler's steps that leave the broker alone.
<1>2. ASSUME UNCHANGED brokerVars
      PROVE  BrokerTypeOK' /\ SleepInv' /\ HoldInv'
  <2>1. BrokerTypeOK'
    BY <1>1, <1>2 DEF BrokerTypeOK, brokerVars
  <2>2. InPc(Asleep)' = InPc(Asleep)
    BY <1>2 DEF InPc, brokerVars
  <2> QED BY <1>1, <1>2, <2>1, <2>2 DEF SleepInv, HoldInv, brokerVars
<1>3. CASE \E n \in WorkerNums : Start(n)
  <2>1. UNCHANGED brokerVars /\ want' \in WorkerNums
    BY <1>3 DEF Start
  <2> QED BY <1>1, <1>2, <1>3, <2>1 DEF Start, TypeInv, TypeOK, cleaning
<1>4. CASE StartRefused \/ StartGivesUp \/ StartQueues
  <2>1. UNCHANGED brokerVars
    BY <1>4 DEF StartRefused, StartGivesUp, StartQueues
  <2>2. kept' \subseteq Instance \cup {"evfd", "event"}
    BY <1>1, <1>4 DEF StartRefused, StartGivesUp, StartQueues, TypeOK, pool,
                      Instance, Queues
  <2> QED BY <1>1, <1>2, <1>4, <2>1, <2>2
             DEF StartRefused, StartGivesUp, StartQueues, TypeInv, TypeOK, pool,
                 cleaning
<1>5. CASE \E w \in Workers : RunCreates(w) \/ \E s \in Stages : RunFails(w, s)
  <2>1. PICK w \in Workers : RunCreates(w) \/ \E s \in Stages : RunFails(w, s)
    BY <1>5
  <2>2. UNCHANGED brokerVars
    BY <2>1 DEF RunCreates, RunFails
  <2>3. held' \subseteq Workers \X Parts
    BY <1>1, <2>1 DEF RunCreates, RunFails, TypeOK, MadeBefore, Parts
  <2>4. tpc' \in [Workers -> {"none", "created", "worker", "ended"}]
    BY <1>1, <2>1 DEF RunCreates, RunFails, TypeOK
  <2>5. /\ UNCHANGED <<want, active, kept, mutex, threads, pings, counted, tries>>
        /\ spc' \in {"failed", "link"}
    BY <2>1 DEF RunCreates, RunFails, cleaning
  <2> QED BY <1>1, <1>2, <2>2, <2>3, <2>4, <2>5 DEF TypeInv, TypeOK
<1>6. CASE Link \/ Started
  <2>1. UNCHANGED brokerVars
    BY <1>6 DEF Link, Started
  <2> QED BY <1>1, <1>2, <1>6, <2>1
             DEF Link, Started, TypeInv, TypeOK, Made, cleaning
<1>7. CASE EventFdFails \/ EventFd \/ PollModFails \/ PollMod
  <2>1. UNCHANGED brokerVars
    BY <1>7 DEF EventFdFails, EventFd, PollModFails, PollMod
  <2>2. kept' \subseteq Instance \cup {"evfd", "event"}
    BY <1>1, <1>7 DEF EventFdFails, EventFd, PollModFails, PollMod, TypeOK, pool
  <2> QED BY <1>1, <1>2, <1>7, <2>1, <2>2
             DEF EventFdFails, EventFd, PollModFails, PollMod, TypeInv, TypeOK,
                 pool, cleaning
<1>8. CASE \E h \in Headers : Submit(h)
  <2>1. PICK h \in Headers : Submit(h)
    BY <1>8
  <2>2. /\ CanPut(works) /\ works' = Put(works, h) /\ fresh' = fresh \cup {h}
        /\ fiber' = [fiber EXCEPT !.pendingReq = @ + 1]
        /\ sem' = sem + fiber.sleepingThread
        /\ UNCHANGED <<consume, evfd, wpc, whdr, spc, pool, cleaning>>
    BY <2>1 DEF Submit
  <2>3. works' \in LfQueue /\ Len(works'.items) <= Cap
    BY <1>1, <2>2, PutType DEF BrokerTypeOK
  <2>4. fiber' \in Fiber /\ fiber'.sleepingThread = fiber.sleepingThread
    BY <1>1, <2>2 DEF BrokerTypeOK, Fiber
  <2>5. sem' \in Nat
    <3>1. sem \in Nat /\ fiber.sleepingThread \in Nat
      BY <1>1, AsleepNat DEF SleepInv, BrokerTypeOK
    <3> QED BY <2>2, <3>1
  <2>6. BrokerTypeOK'
    BY <1>1, <2>2, <2>3, <2>4, <2>5 DEF BrokerTypeOK
  <2>7. InPc(Asleep)' = InPc(Asleep)
    BY <2>2 DEF InPc
  <2>8. SleepInv' /\ HoldInv'
    BY <1>1, <2>2, <2>4, <2>7 DEF SleepInv, HoldInv
  <2> QED BY <1>1, <2>2, <2>6, <2>8 DEF TypeInv, TypeOK, pool, cleaning
<1>16. CASE Collect
  <2>1. /\ CanTake(consume) /\ consume' = Take(consume) /\ evfd' = "idle"
        /\ fiber' = [fiber EXCEPT !.queuedCompleted = @ - 1]
        /\ UNCHANGED <<works, sem, fresh, wpc, whdr, spc, pool, cleaning>>
    BY <1>16 DEF Collect
  <2>2. consume' \in LfQueue /\ Len(consume'.items) <= Cap
    BY <1>1, <2>1, TakeType DEF BrokerTypeOK
  <2>3. fiber' \in Fiber /\ fiber'.sleepingThread = fiber.sleepingThread
    BY <1>1, <2>1 DEF BrokerTypeOK, Fiber
  <2>4. BrokerTypeOK'
    BY <1>1, <2>1, <2>2, <2>3 DEF BrokerTypeOK
  <2>5. InPc(Asleep)' = InPc(Asleep)
    BY <2>1 DEF InPc
  <2>6. SleepInv' /\ HoldInv'
    BY <1>1, <2>1, <2>3, <2>5 DEF SleepInv, HoldInv
  <2> QED BY <1>1, <2>1, <2>4, <2>6 DEF TypeInv, TypeOK, pool, cleaning
<1>9. CASE Clean
  <2>1. UNCHANGED brokerVars /\ pings' = fiber.workerCount /\ counted' = InWorker
    BY <1>9 DEF Clean
  <2>2. pings' \in Nat
    <3>1. InWorker \subseteq Workers
      BY DEF InWorker
    <3>2. Cardinality(InWorker) \in Nat
      BY <3>1, FS_Subset, FS_CardinalityType, BrokerAssumption
    <3> QED BY <2>1, <3>2 DEF Inv, CountInv
  <2>3. counted' \subseteq Workers
    BY <2>1 DEF InWorker
  <2> QED BY <1>1, <1>2, <1>9, <2>1, <2>2, <2>3 DEF Clean, TypeInv, TypeOK, pool
<1>10. CASE StoreAbort
  <2>1. fiber' \in Fiber /\ fiber'.sleepingThread = fiber.sleepingThread
    BY <1>1, <1>10 DEF StoreAbort, BrokerTypeOK, Fiber
  <2>2. BrokerTypeOK'
    BY <1>1, <1>10, <2>1 DEF StoreAbort, BrokerTypeOK
  <2>3. InPc(Asleep)' = InPc(Asleep)
    BY <1>10 DEF StoreAbort, InPc
  <2>4. SleepInv' /\ HoldInv'
    BY <1>1, <1>10, <2>1, <2>3 DEF StoreAbort, SleepInv, HoldInv
  <2> QED BY <1>1, <1>10, <2>2, <2>4 DEF StoreAbort, TypeInv, TypeOK, pool, cleaning
<1>11. CASE PingWorkers
  <2>1. sem' \in Nat
    <3>1. sem \in Nat /\ pings \in Nat
      BY <1>1 DEF TypeOK, BrokerTypeOK
    <3> QED BY <1>11, <3>1 DEF PingWorkers
  <2>2. BrokerTypeOK'
    BY <1>1, <1>11, <2>1 DEF PingWorkers, BrokerTypeOK
  <2>3. InPc(Asleep)' = InPc(Asleep)
    BY <1>11 DEF PingWorkers, InPc
  <2>4. SleepInv' /\ HoldInv'
    BY <1>1, <1>11, <2>3 DEF PingWorkers, SleepInv, HoldInv
  <2> QED BY <1>1, <1>11, <2>2, <2>4 DEF PingWorkers, TypeInv, TypeOK, pool, cleaning
<1>12. CASE AwaitWorkers \/ Free
  <2>1. UNCHANGED brokerVars
    BY <1>12 DEF AwaitWorkers, Free
  <2>2. tries' \in Int
    BY <1>1, <1>12 DEF AwaitWorkers, Free, TypeOK, cleaning
  <2> QED BY <1>1, <1>2, <1>12, <2>1, <2>2
             DEF AwaitWorkers, Free, TypeInv, TypeOK, pool, cleaning
<1>13. CASE \E w \in Workers : ThreadStart(w) \/ ThreadEnd(w)
  <2>1. UNCHANGED brokerVars
    BY <1>13 DEF ThreadStart, ThreadEnd
  <2>2. tpc' \in [Workers -> {"none", "created", "worker", "ended"}]
    BY <1>1, <1>13 DEF ThreadStart, ThreadEnd, TypeOK
  <2> QED BY <1>1, <1>2, <1>13, <2>1, <2>2
             DEF ThreadStart, ThreadEnd, TypeInv, TypeOK, cleaning
<1>14. CASE \E w \in Workers : ThreadStep(w)
  <2>1. PICK w \in Workers : ThreadStep(w)
    BY <1>14
  <2>2. Worker(w) /\ UNCHANGED <<spc, pool, cleaning>>
    BY <2>1 DEF ThreadStep
  <2>3. BrokerTypeOK' /\ SleepInv' /\ HoldInv'
    BY <2>2, WorkerTypes
  <2> QED BY <1>1, <2>2, <2>3 DEF TypeInv, TypeOK, pool, cleaning
<1>15. CASE UNCHANGED vars
  BY <1>1, <1>2, <1>15 DEF vars, TypeInv, TypeOK, pool, cleaning
<1> QED
  BY <1>3, <1>4, <1>5, <1>6, <1>7, <1>8, <1>9, <1>10, <1>11, <1>12, <1>13,
     <1>14, <1>15, <1>16 DEF Next, Startup, Shutdown, Thread

\* Every variable of the pool and of the broker keeps its type: no post makes
\* the semaphore negative, no queue holds more than its capacity or anything
\* but headers.
THEOREM PoolTypes == Spec => []TypeOK
<1>1. Inv /\ TypeInv /\ [Next]_vars => Inv' /\ TypeInv'
  BY NextInv, NextTypeInv
<1>2. TypeInv => TypeOK
  BY DEF TypeInv
<1> QED BY <1>1, <1>2, InitInv, InitTypeInv, PTL DEF Spec
=============================================================================
