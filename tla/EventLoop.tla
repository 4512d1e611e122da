------------------------------- MODULE EventLoop -------------------------------
(***************************************************************************)
(* buffio::scheduler (run, getWakeTime, dequeueThreadQueue, yieldQueue,    *)
(* processThreadRequest, clean) with the Clock and the coroutine tasks it  *)
(* drives, composed with the workers of module SockBroker.                 *)
(*                                                                         *)
(* The loop is one thread.  lpc names the step it takes next; each access  *)
(* to something a worker also touches is a step of its own, and what only  *)
(* the loop touches is done in the step that precedes or follows.  The     *)
(* scheduler has been initialised, so the broker is active.                *)
(*                                                                         *)
(* A task is a coroutine that performs at most MaxOps operations of        *)
(* TaskOps in any order and then returns.  Files are the only descriptors  *)
(* here: requestBatch, which serves sockets and pipes, stays empty.        *)
(***************************************************************************)
EXTENDS SockBroker

CONSTANTS
  Tasks,       \* the coroutines pushed before run()
  NoTask,      \* the value of header->entry before the first request
  HeaderOf,    \* the readHeader of the file each task reads
  TaskOps,     \* subset of {"yield", "sleep", "read"}
  MaxOps,      \* operations a task performs at most
  Delays,      \* the delays, in milliseconds, a task sleeps for
  TicksPerMs,  \* steady_clock ticks in a millisecond
  DequeueMax,  \* the 100 run() passes to dequeueThreadQueue
  Interrupts,  \* whether a signal may interrupt epoll_wait
  Tries        \* the tries clean() passes to shutWorker

ASSUME LoopAssumption ==
  /\ IsFiniteSet(Tasks)
  /\ NoTask \notin Tasks
  /\ HeaderOf \in [Tasks -> Headers]
  /\ MaxOps \in Nat
  /\ Delays \subseteq Nat
  /\ TicksPerMs \in Nat \ {0}
  /\ DequeueMax \in Nat \ {0}
  /\ Interrupts \in BOOLEAN
  /\ Tries \in Nat

VARIABLES
  lpc,       \* the loop's next step
  runQueue,  \* queue: the tasks ready to be resumed
  timers,    \* timerClock: [task, expires] records
  batch,     \* threadRequestBatch
  entry,     \* header->entry: the task waiting for each header
  dropped,   \* requests poller.push refused (its result is ignored)
  done,      \* tasks that returned
  fuel,      \* operations each task may still perform
  now,       \* steady_clock, in ticks
  loc        \* local variables of run() and of what it calls

taskVars == <<runQueue, timers, batch, entry, dropped, done, fuel>>
loopVars == <<lpc, taskVars, now, loc>>
vars == <<brokerVars, loopVars>>

-----------------------------------------------------------------------------
EmptyLocals ==
  [exit |-> FALSE, looptime |-> 0, timeout |-> 0, wakeAt |-> 0, nfd |-> 0,
   value |-> 0, left |-> 0, pushed |-> 0, seen |-> 0, pings |-> 0,
   tries |-> Tries]

\* scheduler::push appends every task before run() starts; in any order.
Init ==
  /\ BrokerInit
  /\ lpc = "run"
  /\ runQueue \in {s \in [1 .. Cardinality(Tasks) -> Tasks] :
                     \A t \in Tasks : \E i \in DOMAIN s : s[i] = t}
  /\ timers = {}
  /\ batch = << >>
  /\ entry = [h \in Headers |-> NoTask]
  /\ dropped = 0
  /\ done = {}
  /\ fuel = [t \in Tasks |-> MaxOps]
  /\ now = 0
  /\ loc = EmptyLocals

Step(from, to) == lpc = from /\ lpc' = to
KeepBroker == UNCHANGED brokerVars
KeepTasks == UNCHANGED taskVars

-----------------------------------------------------------------------------
(***************************************************************************)
(* Clock: milliseconds are truncated, as duration_cast does.               *)
(***************************************************************************)
Earliest(r) == \A q \in timers : r.expires <= q.expires

\* Clock::getNext: -1 without timers, else the whole milliseconds left until
\* the timer at the top of the heap (one of the earliest ones).
MillisLeft(r) ==
  IF r.expires <= now THEN 0 ELSE (r.expires - now) \div TicksPerMs

GetNext ==
  IF timers = {} THEN {-1}
  ELSE {MillisLeft(r) : r \in {q \in timers : Earliest(q)}}

\* Mutant: a whole millisecond left counts as expired.
DueEarly(r, seen) == r.expires - seen <= TicksPerMs

\* Mutant: part of a millisecond left does not count as expired.
DueLate(r, seen) == r.expires <= seen

\* Clock::pushExpired: less than one millisecond left counts as expired.
Due(r, seen) == r.expires - seen < TicksPerMs

-----------------------------------------------------------------------------
(***************************************************************************)
(* run and getWakeTime                                                     *)
(***************************************************************************)

\* run returns at once when no task was pushed; no timer is armed yet.
RunStart ==
  /\ Step("run", IF runQueue = << >> THEN "returned" ELSE "wake")
  /\ UNCHANGED <<now, loc>> /\ KeepBroker /\ KeepTasks

\* getWakeTime up to its load of queuedCompleted: work at hand means no wait.
ReadCompleted ==
  LET ready == runQueue # << >> \/ batch # << >> \/ fiber.queuedCompleted > 0
  IN  /\ Step("wake", IF ready THEN "poll" ELSE "pending")
      /\ \E n \in GetNext :
           loc' = [loc EXCEPT !.looptime = n,
                              !.timeout = IF ready THEN 0 ELSE @]
      /\ UNCHANGED now /\ KeepBroker /\ KeepTasks

\* Mutant: the exit flag ignores the timers.
ReadPendingOnly ==
  LET pending == fiber.pendingReq > 0
      forever == pending /\ loc.looptime < 0
  IN  /\ Step("pending", IF forever THEN "unwake" ELSE "poll")
      /\ loc' = [loc EXCEPT
                   !.timeout = IF pending THEN loc.looptime ELSE 0,
                   !.exit = IF pending THEN @ ELSE runQueue = << >>]
      /\ fiber' = [fiber EXCEPT !.loopWakedUp = pending /\ @]
      /\ UNCHANGED <<works, consume, sem, evfd, fresh, wpc, whdr, now>>
      /\ KeepTasks

\* The load of pendingReq, and the exit flag when nothing is pending.
ReadPending ==
  LET pending == fiber.pendingReq > 0
      forever == pending /\ loc.looptime < 0
  IN  /\ Step("pending", IF forever THEN "unwake" ELSE "poll")
      /\ loc' = [loc EXCEPT
                   !.timeout = IF pending THEN loc.looptime ELSE 0,
                   !.wakeAt = IF pending THEN now + TicksPerMs * loc.looptime
                              ELSE @,
                   !.exit = IF pending THEN @
                            ELSE runQueue = << >> /\ timers = {}]
      /\ fiber' = [fiber EXCEPT !.loopWakedUp = pending /\ @]
      /\ UNCHANGED <<works, consume, sem, evfd, fresh, wpc, whdr, now>>
      /\ KeepTasks

\* Before it waits without limit the loop asks the workers for a signal.
ClearWakedUp ==
  /\ Step("unwake", "poll")
  /\ fiber' = [fiber EXCEPT !.loopWakedUp = FALSE]
  /\ UNCHANGED <<works, consume, sem, evfd, fresh, wpc, whdr, now, loc>>
  /\ KeepTasks

PollEvent ==
  /\ Step("poll", "polled")
  /\ evfd = "armed"
  /\ evfd' = "seen"
  /\ loc' = [loc EXCEPT !.nfd = 1]
  /\ UNCHANGED <<works, consume, sem, fiber, fresh, wpc, whdr, now>>
  /\ KeepTasks

PollTimeout ==
  /\ Step("poll", "polled")
  /\ evfd # "armed"
  /\ loc.timeout = 0 \/ (loc.timeout > 0 /\ now >= loc.wakeAt)
  /\ loc' = [loc EXCEPT !.nfd = 0]
  /\ UNCHANGED now /\ KeepBroker /\ KeepTasks

PollInterrupted ==
  /\ Step("poll", "polled")
  /\ Interrupts
  /\ evfd # "armed"
  /\ loc.timeout # 0
  /\ loc' = [loc EXCEPT !.nfd = -1]
  /\ UNCHANGED now /\ KeepBroker /\ KeepTasks

\* After an unlimited wait loopWakedUp is set; a failed wait ends run().  The
\* event is the eventfd's, and takeEventReadAction finds no request on it.
MarkWakedUp ==
  /\ Step("polled", IF loc.nfd < 0 THEN "returned" ELSE "deq")
  /\ fiber' = [fiber EXCEPT !.loopWakedUp = @ \/ loc.timeout < 0]
  /\ UNCHANGED <<works, consume, sem, evfd, fresh, wpc, whdr, now, loc>>
  /\ KeepTasks

-----------------------------------------------------------------------------
(***************************************************************************)
(* dequeueThreadQueue                                                      *)
(***************************************************************************)
ReadQueued ==
  /\ Step("deq", IF fiber.queuedCompleted = 0 THEN "yield" ELSE "drain")
  /\ loc' = [loc EXCEPT !.value = fiber.queuedCompleted]
  /\ UNCHANGED now /\ KeepBroker /\ KeepTasks

\* eventfd_read, then at most DequeueMax entries are taken.
DrainEvfd ==
  LET n == IF loc.value > DequeueMax THEN DequeueMax ELSE loc.value
  IN  /\ Step("drain", "pop")
      /\ evfd' = "idle"
      /\ loc' = [loc EXCEPT !.value = n, !.left = n]
      /\ UNCHANGED <<works, consume, sem, fiber, fresh, wpc, whdr, now>>
      /\ KeepTasks

\* header->entry is read without a test for null: an empty queue is a crash.
PopCompleted ==
  /\ Step("pop", IF CanTake(consume) THEN "pop" ELSE "crashed")
  /\ loc.left > 0
  /\ loc' = [loc EXCEPT !.left = @ - 1]
  /\ IF CanTake(consume)
     THEN /\ consume' = Take(consume)
          /\ runQueue' = Append(runQueue, entry[Head(consume.items)])
     ELSE UNCHANGED <<consume, runQueue>>
  /\ UNCHANGED <<works, sem, fiber, evfd, fresh, wpc, whdr, now,
                 timers, batch, entry, dropped, done, fuel>>

\* Mutant: what is left of the batch is subtracted, not what was taken.
SubtractLeft ==
  /\ Step("pop", "yield")
  /\ loc.left = 0
  /\ fiber' = [fiber EXCEPT !.queuedCompleted = @ - loc.left]
  /\ loc' = [loc EXCEPT !.value = 0]
  /\ UNCHANGED <<works, consume, sem, evfd, fresh, wpc, whdr, now>>
  /\ KeepTasks

SubtractQueued ==
  /\ Step("pop", "yield")
  /\ loc.left = 0
  /\ fiber' = [fiber EXCEPT !.queuedCompleted = @ - loc.value]
  /\ loc' = [loc EXCEPT !.value = 0]
  /\ UNCHANGED <<works, consume, sem, evfd, fresh, wpc, whdr, now>>
  /\ KeepTasks

-----------------------------------------------------------------------------
(***************************************************************************)
(* yieldQueue: the head of the queue is resumed until the queue is empty   *)
(* (the chunk count is never decremented), and runs up to its next         *)
(* suspension.                                                             *)
(***************************************************************************)
Running(t) ==
  /\ lpc = "yield"
  /\ runQueue # << >>
  /\ t = Head(runQueue)

Burn(t) == fuel[t] > 0 /\ fuel' = [fuel EXCEPT ![t] = @ - 1]

\* co_return: promise::run destroys the frame and pops the entry.
Finish(t) ==
  /\ Running(t)
  /\ done' = done \cup {t}
  /\ runQueue' = Tail(runQueue)
  /\ UNCHANGED <<lpc, now, loc, timers, batch, entry, dropped, fuel>>
  /\ KeepBroker

\* co_yield: the task stays at the head.
Yield(t) ==
  /\ "yield" \in TaskOps
  /\ Running(t)
  /\ Burn(t)
  /\ UNCHANGED <<lpc, now, loc, runQueue, timers, batch, entry, dropped, done>>
  /\ KeepBroker

\* co_await clockSpec::wait
Sleep(t) ==
  /\ "sleep" \in TaskOps
  /\ Running(t)
  /\ Burn(t)
  /\ \E d \in Delays :
       timers' = timers \cup {[task |-> t, expires |-> now + d * TicksPerMs]}
  /\ runQueue' = Tail(runQueue)
  /\ UNCHANGED <<lpc, now, loc, batch, entry, dropped, done>>
  /\ KeepBroker

\* co_await fd.waitRead on a file.  waitRead returns nullptr while the header
\* is in use, and awaiting nullptr does not suspend.
ReadFile(t) ==
  LET h == HeaderOf[t] IN
  /\ "read" \in TaskOps
  /\ Running(t)
  /\ Burn(t)
  /\ IF h \in fresh
     THEN UNCHANGED <<fresh, entry, batch, runQueue>>
     ELSE /\ fresh' = fresh \cup {h}
          /\ entry' = [entry EXCEPT ![h] = t]
          /\ batch' = Append(batch, h)
          /\ runQueue' = Tail(runQueue)
  /\ UNCHANGED <<works, consume, sem, fiber, evfd, wpc, whdr,
                 lpc, now, loc, timers, dropped, done>>

RunTask == \E t \in Tasks : Finish(t) \/ Yield(t) \/ Sleep(t) \/ ReadFile(t)

YieldDone ==
  /\ Step("yield", IF batch = << >> THEN "expire" ELSE "push")
  /\ runQueue = << >>
  /\ UNCHANGED <<now, loc>> /\ KeepBroker /\ KeepTasks

-----------------------------------------------------------------------------
(***************************************************************************)
(* processThreadRequest                                                    *)
(***************************************************************************)
PushRequest ==
  /\ Step("push", "push")
  /\ batch # << >>
  /\ CanPut(works)
  /\ works' = Put(works, Head(batch))
  /\ batch' = Tail(batch)
  /\ loc' = [loc EXCEPT !.pushed = @ + 1]
  /\ UNCHANGED <<consume, sem, fiber, evfd, fresh, wpc, whdr, now,
                 runQueue, timers, entry, dropped, done, fuel>>

\* A refused request is counted as if it had been queued.
PushRefused ==
  /\ Step("push", IF works.room THEN "choke" ELSE "push")
  /\ batch # << >>
  /\ ~CanPut(works)
  /\ batch' = Tail(batch)
  /\ dropped' = dropped + 1
  /\ loc' = [loc EXCEPT !.pushed = @ + 1]
  /\ UNCHANGED <<now, runQueue, timers, entry, done, fuel>>
  /\ KeepBroker

ChokeWorks ==
  /\ Step("choke", "push")
  /\ works' = Choke(works)
  /\ UNCHANGED <<consume, sem, fiber, evfd, fresh, wpc, whdr, now, loc>>
  /\ KeepTasks

\* Mutant: a whole batch counts as one request.
AddOnePending ==
  /\ Step("push", "ping")
  /\ batch = << >>
  /\ fiber' = [fiber EXCEPT !.pendingReq = @ + 1]
  /\ UNCHANGED <<works, consume, sem, evfd, fresh, wpc, whdr, now, loc>>
  /\ KeepTasks

AddPending ==
  /\ Step("push", "ping")
  /\ batch = << >>
  /\ fiber' = [fiber EXCEPT !.pendingReq = @ + loc.pushed]
  /\ UNCHANGED <<works, consume, sem, evfd, fresh, wpc, whdr, now, loc>>
  /\ KeepTasks

\* i - sleeping is unsigned, so it is positive unless the two are equal.
PingCount(i, sleeping) == IF i # sleeping THEN sleeping ELSE i

Ping ==
  /\ Step("ping", "expire")
  /\ sem' = sem + PingCount(loc.pushed, fiber.sleepingThread)
  /\ loc' = [loc EXCEPT !.pushed = 0]
  /\ UNCHANGED <<works, consume, fiber, evfd, fresh, wpc, whdr, now>>
  /\ KeepTasks

-----------------------------------------------------------------------------
(***************************************************************************)
(* pushExpired, and the test at the end of the body of run()               *)
(***************************************************************************)
ReadClock ==
  /\ Step("expire", "expiring")
  /\ loc' = [loc EXCEPT !.seen = now]
  /\ UNCHANGED now /\ KeepBroker /\ KeepTasks

PushExpired ==
  /\ Step("expiring", "expiring")
  /\ \E r \in timers :
       /\ Earliest(r)
       /\ Due(r, loc.seen)
       /\ runQueue' = Append(runQueue, r.task)
       /\ timers' = timers \ {r}
  /\ UNCHANGED <<now, loc, batch, entry, dropped, done, fuel>>
  /\ KeepBroker

ExpireDone ==
  /\ Step("expiring", IF loc.exit THEN "returned" ELSE "wake")
  /\ \A r \in timers : ~Due(r, loc.seen)
  /\ UNCHANGED <<now, loc>> /\ KeepBroker /\ KeepTasks

-----------------------------------------------------------------------------
(***************************************************************************)
(* clean: cleanQueue, shutWorker, threadPool.free                          *)
(***************************************************************************)
CleanQueue ==
  /\ Step("returned", "shut")
  /\ runQueue' = << >>
  /\ UNCHANGED <<now, loc, timers, batch, entry, dropped, done, fuel>>
  /\ KeepBroker

LoadWorkers ==
  /\ Step("shut", "abort")
  /\ loc' = [loc EXCEPT !.pings = fiber.workerCount]
  /\ UNCHANGED now /\ KeepBroker /\ KeepTasks

StoreAbort ==
  /\ Step("abort", "pings")
  /\ fiber' = [fiber EXCEPT !.abort = TRUE]
  /\ UNCHANGED <<works, consume, sem, evfd, fresh, wpc, whdr, now, loc>>
  /\ KeepTasks

PingWorkers ==
  /\ Step("pings", "await")
  /\ sem' = sem + loc.pings
  /\ UNCHANGED <<works, consume, fiber, evfd, fresh, wpc, whdr, now, loc>>
  /\ KeepTasks

\* workerCount is read again after each sleep, until the tries are used up.
AwaitWorkers ==
  LET stop == fiber.workerCount = 0 \/ loc.tries < 0
  IN  /\ Step("await", IF stop THEN "freed" ELSE "await")
      /\ loc' = [loc EXCEPT !.tries = IF stop THEN @ ELSE @ - 1]
      /\ UNCHANGED now /\ KeepBroker /\ KeepTasks

-----------------------------------------------------------------------------
Loop ==
  \/ RunStart \/ ReadCompleted \/ ReadPending \/ ClearWakedUp
  \/ PollEvent \/ PollTimeout \/ MarkWakedUp
  \/ ReadQueued \/ DrainEvfd \/ PopCompleted \/ SubtractQueued
  \/ RunTask \/ YieldDone
  \/ PushRequest \/ PushRefused \/ ChokeWorks \/ AddPending \/ Ping
  \/ ReadClock \/ PushExpired \/ ExpireDone
  \/ CleanQueue \/ LoadWorkers \/ StoreAbort \/ PingWorkers \/ AwaitWorkers

WorkerStep == \E w \in Workers : Worker(w) /\ UNCHANGED loopVars

\* The clock advances while a timer or the limit of a poll lies in the future.
Tick ==
  /\ (lpc = "poll" /\ loc.timeout > 0 /\ loc.wakeAt > now)
       \/ (\E r \in timers : r.expires > now)
  /\ now' = now + 1
  /\ UNCHANGED <<lpc, taskVars, loc>>
  /\ KeepBroker

Next == Loop \/ PollInterrupted \/ WorkerStep \/ Tick

Spec == Init /\ [][Next]_vars

\* The operating system runs every thread and the clock advances; no signal
\* has to arrive.
FairSpec ==
  /\ Spec
  /\ WF_vars(Loop)
  /\ \A w \in Workers : WF_vars(Worker(w) /\ UNCHANGED loopVars)
  /\ WF_vars(Tick)

-----------------------------------------------------------------------------
(***************************************************************************)
(* Properties                                                              *)
(***************************************************************************)
LoopPc == {"run", "wake", "pending", "unwake", "poll", "polled", "deq",
           "drain", "pop", "crashed", "yield", "push", "choke", "ping",
           "expire", "expiring", "returned", "shut", "abort", "pings",
           "await", "freed"}

Locals == [exit : BOOLEAN, looptime : Int, timeout : Int, wakeAt : Int,
           nfd : {-1, 0, 1}, value : Int, left : Int, pushed : Nat,
           seen : Nat, pings : Nat, tries : Int]

\* Every variable keeps the type of the field it models.  A task is resumed
\* only when it was pushed: no header leaves the workers without its entry,
\* and no queue of the broker exceeds the ring.
TypeOK ==
  /\ BrokerTypeOK
  /\ lpc \in LoopPc
  /\ runQueue \in Seq(Tasks)
  /\ timers \subseteq [task : Tasks, expires : Nat]
  /\ batch \in Seq(Headers)
  /\ entry \in [Headers -> Tasks \cup {NoTask}]
  /\ dropped \in Nat
  /\ done \subseteq Tasks
  /\ fuel \in [Tasks -> 0 .. MaxOps]
  /\ now \in Nat
  /\ loc \in Locals

Times(x, s) == Cardinality({i \in DOMAIN s : s[i] = x})

\* How often header h is on its way: to a worker, with one, or back.
Outstanding(h) ==
  Times(h, batch) + Times(h, works.items) + Times(h, consume.items)
    + Cardinality({w \in Workers : whdr[w] = h})

Homes(t) ==
  Times(t, runQueue) + Cardinality({r \in timers : r.task = t})
    + Cardinality(done \cap {t}) + Outstanding(HeaderOf[t])

\* A task is at any time in exactly one place: ready, asleep, waiting for its
\* file request, or finished.  It is never resumed twice for one request, no
\* two workers serve the same request, and only a request the full work queue
\* refused, or clean(), makes a task disappear.  (Each task reads a file of
\* its own; see EntryStable for tasks that share one.)
OneHome ==
  LET homes == [t \in Tasks |-> Homes(t)]
      lost  == {t \in Tasks : homes[t] = 0}
  IN  /\ \A t \in Tasks : homes[t] <= 1
      /\ lpc \notin {"shut", "abort", "pings", "await", "freed"}
           => Cardinality(lost) = dropped

\* dequeueThreadQueue dereferences what poller.pop() returns without a test.
\* It pops only as many completions as queuedCompleted announced, so the pop
\* never finds the queue empty, whatever the workers do meanwhile.
PopFindsCompletion == lpc # "crashed"

\* Where the loop reads pendingReq and decides whether to wait or to exit, the
\* counter is the number of requests that are queued for a worker or in a
\* worker's hands (a refused request stays counted for ever).
PendingAccurate ==
  lpc \in {"wake", "pending"} =>
    fiber.pendingReq = Len(works.items) + Cardinality(Busy) + dropped

\* When getWakeTime sets the exit flag no request is with the workers any
\* more, so the completions run() still takes out of the queue in its last
\* round are all there are.
ExitSeesAllCompletions ==
  loc.exit /\ lpc \in {"poll", "polled", "deq", "drain", "pop"}
    => works.items = << >> /\ Busy = {}

\* A sleeping task is put back into the queue less than a millisecond before
\* its time at the earliest, and never before a task that was due earlier.
TimersInOrder ==
  [][\A r \in timers \ timers' :
       /\ now > r.expires - TicksPerMs
       /\ \A q \in timers' : r.expires <= q.expires]_vars

\* getNext rounds the wait down to whole milliseconds, and pushExpired rounds
\* what is left down as well: when a wait with a limit has run out, the round
\* that follows finds a timer to fire, and does not go round with nothing to do.
TimeoutFindsDue ==
  lpc = "expire" /\ loc.timeout > 0 /\ loc.nfd = 0
    => \E r \in timers : Due(r, now)

\* A program whose tasks only sleep and yield runs to its end: run() returns,
\* and not before every task has returned, however the workers' first steps and
\* the clock interleave with the loop.
SleepersFinish ==
  <>(\/ lpc = "returned" /\ done = Tasks
     \/ \E h \in Headers : entry[h] # NoTask)

-----------------------------------------------------------------------------
(***************************************************************************)
(* What the comments of the code promise and the code does not keep.       *)
(***************************************************************************)

\* Nobody will take another step: the loop waits without limit for an event
\* and every worker waits on the semaphore.
Stalled ==
  /\ lpc = "poll" /\ loc.timeout < 0 /\ evfd # "armed"
  /\ sem = 0 /\ \A w \in Workers : At(w, "wait")

\* A header pushed to the worker threads is served: the system never comes to
\* rest with a request in epollWorks.
RequestsAreServed == works.items # << >> => ~Stalled

\* The routine of a completed operation runs: the system never comes to rest
\* with a completion in epollConsume.
CompletionsAreResumed == consume.items # << >> => ~Stalled

\* run() returns 0 only when no work remains: every task has returned.
ExitsWithoutWork == lpc = "returned" => done = Tasks

\* While a request is on its way, the routine its header names stays the one
\* that made the request.
EntryStable ==
  [][\A h \in Headers :
       entry'[h] # entry[h] => Outstanding(h) = 0]_vars
=============================================================================
