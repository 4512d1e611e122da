------------------------------ MODULE WorkerPool ------------------------------
(***************************************************************************)
(* The life of the worker threads: scheduler::init, which has sockBroker   *)
(* make the queues, the epoll instance and the threads, each of which may  *)
(* fail; the frame thread::buffioFunc puts around sockBroker::worker; and  *)
(* clean(), which tells the workers to leave and frees their stacks.       *)
(*                                                                         *)
(* The workers are those of SockBroker and take the same steps.  Of the    *)
(* loop's thread only what concerns them is modelled: Submit and Collect   *)
(* stand for a round of processThreadRequest and of dequeueThreadQueue,    *)
(* which EventLoop takes apart.                                            *)
(* thread::numThreads and the status of a thread are left out: nothing     *)
(* reads them.                                                             *)
(***************************************************************************)
EXTENDS SockBroker

CONSTANTS
  WorkerNums, \* what a program passes to init() for workerNum
  Tries,      \* the tries it passes to clean()
  MaxPosts    \* bound: a request is made while the semaphore is below it

ASSUME PoolAssumption ==
  /\ WorkerNums \subseteq Int
  /\ Tries \in Nat /\ MaxPosts \in Nat

VARIABLES
  spc,     \* the scheduler's next step
  want,    \* workerNum
  active,  \* whether sockBrokerState is active
  kept,    \* what start() and init() have made and not released
  mutex,   \* thread::mutexEnabled
  held,    \* <<w, part>>: what thread::run has made for w and not released
  threads, \* the list of threads free() walks
  tpc,     \* where a thread is: none, created, in worker(), leaving or ended
  pings,   \* workerCount when clean() first read it
  counted, \* the workers it counted
  tries    \* what is left of Tries

pool == <<want, active, kept, mutex, held, threads, tpc>>
cleaning == <<pings, counted, tries>>
vars == <<brokerVars, spc, pool, cleaning>>

Queues == {"consume", "works"}
Instance == Queues \cup {"epoll"}
Parts == {"node", "attr", "stack"}

Init ==
  /\ BrokerInit
  /\ spc = "none"
  /\ want = 0
  /\ active = FALSE
  /\ kept = {}
  /\ mutex \in BOOLEAN
  /\ held = {} /\ threads = {}
  /\ tpc = [w \in Workers |-> "none"]
  /\ pings = 0 /\ counted = {} /\ tries = Tries

Goes(from, to) == spc = from /\ spc' = to
Made == {w \in Workers : tpc[w] # "none"}

-----------------------------------------------------------------------------
(***************************************************************************)
(* sockBroker::start                                                       *)
(***************************************************************************)
Start(n) ==
  /\ Goes("none", "start")
  /\ want' = n
  /\ UNCHANGED <<brokerVars, active, kept, mutex, held, threads, tpc, cleaning>>

\* workerNum is compared as an unsigned number; sem_init may fail as well.
StartRefused ==
  /\ Goes("start", "failed")
  /\ UNCHANGED <<brokerVars, pool, cleaning>>

\* A queue or the epoll instance cannot be made: the queues are destroyed and
\* start() returns none, so init() goes on.
StartGivesUp ==
  /\ Goes("start", "eventfd")
  /\ want \in 0 .. Cap
  /\ \E made \in {{}, {"consume"}, Queues} : kept' = made \ Queues
  /\ UNCHANGED <<brokerVars, want, active, mutex, held, threads, tpc, cleaning>>

StartQueues ==
  /\ Goes("start", "spawn")
  /\ want \in 0 .. Cap
  /\ kept' = Instance
  /\ UNCHANGED <<brokerVars, want, active, mutex, held, threads, tpc, cleaning>>

-----------------------------------------------------------------------------
(***************************************************************************)
(* thread::run, once per worker.  A stage that fails releases what the     *)
(* stages before it made.                                                  *)
(***************************************************************************)
Stages == {"check", "new", "attr_init", "memalign", "setstack", "create"}

MadeBefore(stage) ==
  CASE stage \in {"check", "new"} -> {}
    [] stage = "attr_init" -> {"node"}
    [] stage = "memalign" -> {"node", "attr"}
    [] OTHER -> Parts

\* Mutant: a thread that cannot be created leaves its stack behind.
ReleasedButStack(stage) ==
  MadeBefore(stage) \ (IF stage = "create" THEN {"stack"} ELSE {})

ReleasedAfter(stage) ==
  CASE stage = "attr_init" -> {"node"}
    [] stage = "memalign" -> {"attr", "node"}
    [] stage = "setstack" -> {"attr", "stack", "node"}
    [] stage = "create" -> {"stack", "attr", "node"}
    [] OTHER -> {}

\* start() returns with the workers it has made running and the broker not
\* active.
RunFails(w, stage) ==
  /\ Goes("spawn", "failed")
  /\ Cardinality(Made) < want
  /\ tpc[w] = "none"
  /\ ~mutex => stage = "check"
  /\ mutex => stage # "check"
  /\ held' = held \cup ({w} \X (MadeBefore(stage) \ ReleasedAfter(stage)))
  /\ UNCHANGED <<brokerVars, want, active, kept, mutex, threads, tpc, cleaning>>

\* The thread runs from here on; the list gets its node after that.
RunCreates(w) ==
  /\ Goes("spawn", "link")
  /\ Cardinality(Made) < want
  /\ tpc[w] = "none"
  /\ mutex
  /\ held' = held \cup ({w} \X Parts)
  /\ tpc' = [tpc EXCEPT ![w] = "created"]
  /\ UNCHANGED <<brokerVars, want, active, kept, mutex, threads, cleaning>>

Link ==
  /\ Goes("link", "spawn")
  /\ threads' = Made
  /\ UNCHANGED <<brokerVars, want, active, kept, mutex, held, tpc, cleaning>>

Started ==
  /\ Goes("spawn", "eventfd")
  /\ Cardinality(Made) = want
  /\ active' = TRUE
  /\ UNCHANGED <<brokerVars, want, kept, mutex, held, threads, tpc, cleaning>>

-----------------------------------------------------------------------------
(***************************************************************************)
(* The rest of init: the eventfd, registered by mountEventFd, whose result *)
(* is ignored, and by pollMod.                                             *)
(***************************************************************************)
EventFdFails ==
  /\ Goes("eventfd", "failed")
  /\ UNCHANGED <<brokerVars, pool, cleaning>>

\* pollOp refuses when the broker is not active, and epoll_ctl may fail.
EventFd ==
  /\ Goes("eventfd", "pollmod")
  /\ \E added \in SUBSET {"event"} :
       /\ ~active => added = {}
       /\ kept' = kept \cup {"evfd"} \cup added
  /\ UNCHANGED <<brokerVars, want, active, mutex, held, threads, tpc, cleaning>>

\* epoll_ctl fails without an epoll instance and for an unknown descriptor.
PollModFails ==
  /\ Goes("pollmod", "failed")
  /\ kept' = kept \ {"evfd", "event"}
  /\ UNCHANGED <<brokerVars, want, active, mutex, held, threads, tpc, cleaning>>

\* Mutant: the result of pollMod is ignored.
PollModIgnored ==
  /\ Goes("pollmod", "ready")
  /\ UNCHANGED <<brokerVars, pool, cleaning>>

PollMod ==
  /\ Goes("pollmod", "ready")
  /\ {"epoll", "event"} \subseteq kept
  /\ UNCHANGED <<brokerVars, pool, cleaning>>

\* run(): a request for a worker is queued, counted, and as many posts made as
\* workers sleep (which is what processThreadRequest makes of a single request).
\* A program waits for the last one it made with the header.
Submit(h) ==
  /\ spc = "ready" /\ sem < MaxPosts /\ h \notin fresh
  /\ \A i \in DOMAIN consume.items : consume.items[i] # h
  /\ \A w \in Workers : whdr[w] # h
  /\ CanPut(works)
  /\ works' = Put(works, h)
  /\ fresh' = fresh \cup {h}
  /\ fiber' = [fiber EXCEPT !.pendingReq = @ + 1]
  /\ sem' = sem + fiber.sleepingThread
  /\ UNCHANGED <<consume, evfd, wpc, whdr, spc, pool, cleaning>>

\* run(): dequeueThreadQueue takes a completion.  After run() nobody does.
Collect ==
  /\ spc = "ready" /\ fiber.queuedCompleted > 0
  /\ CanTake(consume)
  /\ consume' = Take(consume)
  /\ evfd' = "idle"
  /\ fiber' = [fiber EXCEPT !.queuedCompleted = @ - 1]
  /\ UNCHANGED <<works, sem, fresh, wpc, whdr, spc, pool, cleaning>>

-----------------------------------------------------------------------------
(***************************************************************************)
(* clean: shutWorker, then threadPool.free.  A program calls it whether or *)
(* not init() succeeded.                                                   *)
(***************************************************************************)
InWorker == {w \in Workers : wpc[w] \notin {"start", "gone"}}

Clean ==
  /\ \E from \in {"ready", "failed"} : Goes(from, "abort")
  /\ pings' = fiber.workerCount
  /\ counted' = InWorker
  /\ UNCHANGED <<brokerVars, pool, tries>>

StoreAbort ==
  /\ Goes("abort", "pings")
  /\ fiber' = [fiber EXCEPT !.abort = TRUE]
  /\ UNCHANGED <<works, consume, sem, evfd, fresh, wpc, whdr, pool, cleaning>>

\* Mutant: only the workers that sleep already are posted.
PingSleepers ==
  /\ Goes("pings", "await")
  /\ sem' = IF active THEN sem + fiber.sleepingThread ELSE sem
  /\ UNCHANGED <<works, consume, fiber, evfd, fresh, wpc, whdr, pool, cleaning>>

\* ping() does nothing unless the broker is active.
PingWorkers ==
  /\ Goes("pings", "await")
  /\ sem' = IF active THEN sem + pings ELSE sem
  /\ UNCHANGED <<works, consume, fiber, evfd, fresh, wpc, whdr, pool, cleaning>>

AwaitWorkers ==
  /\ Goes("await", "await")
  /\ fiber.workerCount > 0 /\ tries >= 0
  /\ tries' = tries - 1
  /\ UNCHANGED <<brokerVars, pool, pings, counted>>

\* Mutant: the stacks are freed as soon as the posts are made.
FreeAtOnce ==
  /\ Goes("await", "freed")
  /\ held' = held \ (threads \X {"node", "stack"})
  /\ threads' = {}
  /\ UNCHANGED <<brokerVars, want, active, kept, mutex, tpc, cleaning>>

\* No worker is counted or the tries are used up: the nodes and the stacks of
\* the list are freed.  The list is empty when the mutex could not be made.
Free ==
  /\ Goes("await", "freed")
  /\ fiber.workerCount = 0 \/ tries < 0
  /\ held' = held \ (threads \X {"node", "stack"})
  /\ threads' = {}
  /\ UNCHANGED <<brokerVars, want, active, kept, mutex, tpc, cleaning>>

-----------------------------------------------------------------------------
(***************************************************************************)
(* buffioFunc: the thread enters worker(), and once that returns marks its *)
(* node and ends.                                                          *)
(***************************************************************************)
ThreadStart(w) ==
  /\ tpc[w] = "created"
  /\ tpc' = [tpc EXCEPT ![w] = "worker"]
  /\ UNCHANGED <<brokerVars, spc, want, active, kept, mutex, held, threads,
                 cleaning>>

ThreadStep(w) ==
  /\ tpc[w] = "worker"
  /\ Worker(w)
  /\ UNCHANGED <<spc, pool, cleaning>>

ThreadEnd(w) ==
  /\ tpc[w] = "worker" /\ At(w, "gone")
  /\ tpc' = [tpc EXCEPT ![w] = "ended"]
  /\ UNCHANGED <<brokerVars, spc, want, active, kept, mutex, held, threads,
                 cleaning>>

Thread(w) == ThreadStart(w) \/ ThreadStep(w) \/ ThreadEnd(w)

-----------------------------------------------------------------------------
Startup ==
  \/ \E n \in WorkerNums : Start(n)
  \/ StartRefused \/ StartGivesUp \/ StartQueues
  \/ \E w \in Workers : RunCreates(w) \/ \E s \in Stages : RunFails(w, s)
  \/ Link \/ Started
  \/ EventFdFails \/ EventFd \/ PollModFails \/ PollMod

Shutdown == StoreAbort \/ PingWorkers \/ AwaitWorkers \/ Free

Next ==
  \/ Startup
  \/ Collect \/ \E h \in Headers : Submit(h)
  \/ Clean \/ Shutdown
  \/ \E w \in Workers : Thread(w)

Spec == Init /\ [][Next]_vars

\* The operating system runs every thread; nothing has to fail or to be called.
FairSpec ==
  /\ Spec
  /\ WF_vars(Shutdown)
  /\ \A w \in Workers : WF_vars(Thread(w))

-----------------------------------------------------------------------------
(***************************************************************************)
(* Properties                                                              *)
(***************************************************************************)
TypeOK ==
  /\ BrokerTypeOK
  /\ spc \in {"none", "start", "spawn", "link", "eventfd", "pollmod", "ready",
              "failed", "abort", "pings", "await", "freed"}
  /\ want \in WorkerNums \cup {0}
  /\ active \in BOOLEAN /\ mutex \in BOOLEAN
  /\ kept \subseteq Instance \cup {"evfd", "event"}
  /\ held \subseteq Workers \X Parts
  /\ threads \subseteq Workers
  /\ tpc \in [Workers -> {"none", "created", "worker", "ended"}]
  /\ pings \in Nat /\ counted \subseteq Workers /\ tries \in Int

\* init() returns 0 only for a broker that is active and has every worker it
\* was asked for, though start() reports no error when it could not make the
\* queues: the registration of the eventfd then fails.
InitMeansRunning ==
  spc = "ready" =>
    /\ active /\ kept = Instance \cup {"evfd", "event"}
    /\ Cardinality(threads) = want

\* A stage of thread::run that fails keeps nothing of its own: the threads that
\* were created have all their parts, and clean() finds them in the list; no
\* other thread has any.  The queues and the epoll instance are kept or given up
\* together, and given up only while no thread runs on them.  A failed start()
\* is not undone: the workers created before it failed go on.
PartsAccounted ==
  spc \notin {"none", "start", "freed"} =>
    /\ held = Made \X Parts
    /\ spc # "link" => threads = Made
    /\ kept \cap Instance \in {{}, Instance}
    /\ Made # {} => Instance \subseteq kept

\* The stack of a worker clean() counted is freed only after the worker has
\* taken itself off workerCount, unless the tries ran out.  A worker that comes
\* to count itself later, and one between that point and its end, are not
\* waited for.
CountedLeaveFirst ==
  \A w \in counted :
    <<w, "stack">> \notin held /\ tries >= 0 => At(w, "gone")

\* The worker has a completion and the ring for it is full.
Retries(w) ==
  wpc[w] \in {"publish", "full"} /\ ~CanPut(consume)

\* With an active broker every worker clean() counted leaves, asleep or busy,
\* if none enters after the count: that one may take the post of another.  The
\* exception is a worker whose completion does not fit into the ring.
WorkersLeave ==
  (spc = "await" /\ active /\ counted = Made)
    ~> (\A w \in counted : tpc[w] = "ended" \/ Retries(w))
=============================================================================
