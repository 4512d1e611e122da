# A formal model of buffio

buffio is a C++20 coroutine runtime for Linux: one event-loop thread drives
coroutines, an epoll instance watches sockets, and a pool of worker threads
performs file reads and writes. This directory holds TLA+ modules that model the
program's control, TLC configurations that check them on small instances, and
TLAPS proofs of the invariants, of `TimersInOrder` and of the refinements among these
checks (all but one, see [Proofs](#proofs)), for every number of tasks, workers, routines,
threads, sockets, descriptors and fragments. Four more runs show where the code does not do
what its comments say; each is a [finding](#what-the-runs-found).

Paths below are relative to the repository (`src/...`, `include/buffio/...`).

- [The system](#the-system): components, their state, how they interact, what is hard
- [The modules](#the-modules): which models what, and how it corresponds to the code
- [Runs](#runs): what each run checks, its bounds and why they are enough
- [Fairness](#fairness)
- [Proofs](#proofs)
- [What the runs found](#what-the-runs-found)
- [Abstractions and what is not modelled](#abstractions-and-what-is-not-modelled)
- [Plan](#plan)

## The system

### Components

| Component | State it keeps | Operations |
|---|---|---|
| scheduler (`src/scheduler.cpp`) | run queue, `requestBatch`, `threadRequestBatch`, clock, eventfd; locals of `run` | `push`, `run` (= `getWakeTime`, `poll`, `processEvents`, `dequeueThreadQueue`, `yieldQueue`, `processThreadRequest`, `consumeBatch`, `pushExpired`), `clean` |
| sockBroker (`src/sockbroker.cpp`) | `epollWorks`, `epollConsume`, the semaphore, the epoll fd | `start`, `worker`, `push`, `pop`, `poll`, `ping`, `pollOp`, `pollMod` |
| fiber (`src/fiber.cpp`) | the atomics `workerCount`, `sleepingThread`, `queuedCompleted`, `pendingReq`, `abort`, `loopWakedUp` | loads, stores and fetch_adds by the loop and the workers |
| lock-free queue (`src/lfcore.cpp`, `include/buffio/lfqueue.hpp`) | two rings of indices (head, tail, threshold, slots) and an array of values | `lfstart`, `enqueue`, `dequeue`, `empty` |
| Clock (`src/clock.cpp`) | a heap of (entry, expiry) | `push`, `getNext`, `pushExpired`, `empty` |
| promise (`src/promise.cpp`) | a coroutine's status | `run`, the `await_transform`s, `co_yield`, `co_return` |
| container (`src/container.cpp`) | what a queue entry runs and how it is destroyed | `routine`, `function` |
| thread pool (`src/thread.cpp`) | the list of threads, their nodes and stacks | `run`, `free`, `buffioFunc` |
| Fd (`src/fd.cpp`, `include/buffio/fd.hpp`) | the descriptor, its family and address, read, write and reserve header, `rwmask`, pending read and write request | `mountSocket` ..., `release`, the destructor; `waitRead` ... `asyncAccept`, `takeEventReadAction`, `takeEventWriteAction` |
| MakeFd (`src/fd.cpp`) | none; it fills an Fd | `socket`, `pipe`, `mkfifo`, `openFile`, `eventFd`, `mkFdSock` |
| actions (`src/actions.cpp`) | none; they change the header they are given | `propBack`, `read`, `write`, `readFile`, `writeFile`, `waitConnect`, `waitAccept` and the async forms |
| Queue (`include/buffio/Queue.hpp`) | head, count, links inside the entries | `push`, `pushHead`, `get`, `erase`, `pop`, `pop(frag)`, `mvNext`, `getEntry` |
| Memory (`include/buffio/memory.hpp`) | pages, free list, a check sum per fragment | `init`, `pop`, `push`, `makePage` |
| signal handler, logging | none | not modelled |

### How they interact

A coroutine runs on the loop's thread, in `yieldQueue`. An operation either lets it
go on (nullptr, `co_yield`) or erases it from the run queue and leaves its entry with
a timer or a header. A header on a file goes through `threadRequestBatch` and
`epollWorks` to a worker, which runs the action, puts the header into
`epollConsume`, counts it in `queuedCompleted` and, if the loop is asleep, writes the
eventfd. A header on a socket goes into `requestBatch` at once, or stays pending in
its Fd until `processEvents` moves it there; `consumeBatch` runs the action on the
loop's thread. In all cases the header's entry is pushed to the run queue again.
The loop decides by `queuedCompleted` and `pendingReq` whether to poll, to wait or
to exit; a worker decides by `epollWorks` and `abort`, the loop by `sleepingThread` how often to post.

`init` starts the broker, which makes the queues, the epoll instance and, by
`thread::run`, the workers; `clean` tells them to leave, waits a bounded number of tries
for `workerCount` to reach zero and frees their stacks. epoll keeps a raw pointer to the
Fd it was given; the kernel hands a closed number out again.

### What is hard, and what makes each part correct

- **Loop and workers.** Every decision is taken from two or three atomics read one
  after the other while the other side changes them. Correct means: a task is in
  one place only; no request and no completion is forgotten; the counters are
  exact where the loop decides by them; `run` does not return early and does not
  wait for nothing; after `clean` the workers leave. Not all of this is so: see the findings
  and the known deviations.
- **Lock-free queue.** Threads that drew positions of different cycles meet in a
  slot. Correct means: no index lost or handed out twice, no entry left behind the
  head, each value delivered once and in its producer's order.
- **Clock.** Expiries are truncated to milliseconds in two places that must agree.
  Correct means: in order, at most a millisecond early, always in the end, and a wait that
  ran out finds a timer to fire.
- **Requests on sockets.** A header is in use from the request to the action; events
  arrive for requests nobody made. Correct means: a header is registered once, its
  task waits exactly for it, `pendingReq` counts only what is waited for, a transfer stays
  in its buffer and answers with what it moved.
- **Coroutines.** Frame, queue entry and waiter have different lives: entries are used
  again, with the waiter of their earlier life, and frames are destroyed by `promise::run`
  or by `cleanQueue`. Correct means: no frame is lost, resumed or destroyed after it is gone,
  and what is queued gets its turn.
- **Worker threads.** Each call of `start` and `thread::run` may fail after others have
  succeeded, and `clean` frees stacks while threads run. A failed `start` does not undo
  what it has done: the workers created before the failure run on, with the queues and the
  epoll instance. Correct means: a stage that fails keeps nothing of its own, so that what
  was made is accounted for and `clean` finds it; `init` answers 0 only for a broker that
  works; workers leave; and no stack is freed under a worker that was counted.
- **Descriptors.** An instance of Fd is opened, mounted over, released, opened again and
  destroyed while events for it may be on their way. Correct means: every open number has
  one owner, an event finds it, its readiness is its own, and a path goes with its maker.
  Mounting over a live instance loses what it carried; the properties that hold say that
  nothing else does.
- **Queue and Memory.** Entries leave the list while a timer or header still refers
  to them. Correct means: the list stays circular, nothing is leaked, and nothing in
  use is handed out again.

`PROJECT.json` lists these dangers at the lines where they bite, with the properties
that cover them or the reason why none does.

## The modules

| Module | Models | Built on |
|---|---|---|
| `SockBroker` | the workers and the two queues between them and the loop | |
| `EventLoop` | `run`, the Clock, tasks with file requests, `clean`; composed with the workers | `SockBroker` |
| `EventLoopProofs`, `EventLoopSafety` | theorems about `EventLoop` | `EventLoop`, TLAPS |
| `LfContract` | what an lfqueue promises its users | |
| `LfRing` | `lfqueue` and `lfCore`, access by access | instance of `LfContract` |
| `FdRequests` | requests on sockets, epoll events, `consumeBatch`, the socket actions | |
| `EntryQueue` | the run queue as the scheduler uses it: a sequence of entries | |
| `RunQueue` | `Queue` with its `Memory` pool, link by link | instance of `EntryQueue` |
| `Routines` | what promise, container and run queue make of a coroutine, until `clean` | |
| `WorkerPool` | `init`, `sockBroker::start`, `thread::run`, `clean` and `thread::free`; composed with the workers | `SockBroker` |
| `FdLife` | MakeFd, mounting, mounting over, readiness, `release` and the destructor of Fd | |
| `LfRingProofs`, `FdRequestsProofs`, `RunQueueProofs`, `RoutinesProofs`, `WorkerPoolProofs`, `FdLifeProofs` | theorems about the module of that name | that module, TLAPS |
| `MCEventLoop`, `MCLfRing`, `MCFdRequests`, `MCRunQueue`, `MCRoutines`, `MCWorkerPool`, `MCFdLife` | small instances | |

### SockBroker and EventLoop

`SockBroker` has one program counter per worker (`wpc`) and one action per atomic
access of `sockBroker::worker`: `Enter`, `CheckAbort`, `CheckWork`, `Doze`, `SemWait`,
`Woken`, `RecheckAbort`, `DequeueWork`, `RunAction`, `Publish`, `CountCompleted`,
`CheckSignal`, `SendEv`, `Settle`, `Leave`. `fiber` is the record of shared atomics,
`sem` the value of the semaphore, `evfd` the state of the edge-triggered eventfd. A
queue is its contents plus two flags that stand for the thresholds of its two rings:
an unsuccessful dequeue and its final `threshold.store(-1)` are two steps (`ChillWorks`,
`ChokeConsume`, `ChokeWorks`), so an entry enqueued between them is hidden, as in the
code, until the next enqueue. That an operation is atomic when it succeeds is what
`LfRing` is for.

`EventLoop` adds the loop's thread, whose steps `lpc` names: `RunStart`,
`ReadCompleted`, `ReadPending` and `ClearWakedUp` (getWakeTime), `PollEvent`,
`PollTimeout`, `PollInterrupted` and `MarkWakedUp` (poll), `ReadQueued` ... `SubtractQueued`
(dequeueThreadQueue), `Finish`, `Yield`, `Sleep`, `ReadFile` (a coroutine in yieldQueue),
`PushRequest` ... `Ping` (processThreadRequest), `ReadClock` ... `ExpireDone` (pushExpired),
`CleanQueue` ... `AwaitWorkers` (clean). A task is a coroutine that performs at most
`MaxOps` operations out of `TaskOps`, in any order, and returns.

### LfRing and LfContract

The rings hold indices; `enqueue` is a dequeue on the free ring followed by an enqueue on
the other, `dequeue` the reverse. Every load, CAS, fetch_add and fetch_or is an action;
a thread's locals (position, entry read, cycle, index) are in `loc`. `LfContract` is what a
user sees: producers put numbered values, a consumer takes any value that is not older
than one it already has of the same producer. The values whose index is in the `acq` ring
refine its `items`. An answer "empty" or "full" is always allowed by the contract: the
code gives it also when the queue is neither.

### FdRequests

Header, `rwmask`, pending request, `requestBatch` and `pendingReq` of every socket, changed
by one action per operation a coroutine can call, one per event (`ProcessEvent`) and one
per action of `consumeBatch`. `Wake` lets epoll report any set of events on any sockets.
`StreamStart`, `MoveSome`, `MoveAll`, `MoveNone` are the loop of `action::read` and
`action::write` with the kernel's answers chosen freely. The length of a transfer is a union:
it is stored through the 4-byte `socklen` (`Word` values, 2^32 in the code) and read through
the 8-byte `len`, so a header has a lower half `low`, an upper half `high` and the fact whether
anybody ever wrote the upper one; one that was not may hold any of `Uppers`. `size`, what the
caller said of the buffer, is kept for the properties only. `consumeBatch` never decrements
its count (see the known deviations), so no execution gets past its first call: the model ends
there, as the program does, and also where a reserve header that is still in the batch
is pushed again (`Linkable`), because the list is linked through the headers.

### RunQueue and EntryQueue

The list with `next` and `prev`, the pool with its free list and check sums. The batches
are the same list without the pool. `EntryQueue` is the run queue the other modules use: a
sequence, plus the entries held by timers and headers.

### Routines

The run queue as in `EntryQueue` and, per entry of its pool, what its container holds
(`task`) and its `waiter`; `life` is the status of a routine or that its frame is gone.
A round of `run()` is `Wake` (the exit flag is computed, as in getWakeTime, from the state
before the round), completions, `StartYield` ... `EndYield`, completions of the batch, expired
timers, and `EndRound`, which leaves by that flag with whatever the round has queued, put to
sleep or let wait since; `Interrupt` leaves from a wait. With requests outstanding the flag is a
free choice, since `pendingReq` does not count all of them.
`PushRoutine` and `PushFunction` are the two forms of `push`, `Return`, `Throw`, `Yield`, `Await`,
`Sleep` and `AwaitRequest` what a coroutine does when `promise::run` resumes it, `Call` a pushed
function, `CleanEntry` a round of `cleanQueue`. Fields nobody has written have the value
`Unset`; a program that reads one ends in `fault`, since what happens then is not
defined. Timers and requests are reduced to the set of entries they hold, and nothing forces
a timer to expire or a request to complete.

### WorkerPool

`spc` is the scheduler's next call: `StartRefused`, `StartGivesUp` and `StartQueues`
(`sockBroker::start`), `RunCreates`, `RunFails` at any of its stages and `Link`
(`thread::run`), `EventFd` and `PollMod` (the rest of `init`), `Clean`, `StoreAbort`, `PingWorkers`,
`AwaitWorkers` and `Free`. `kept` and `held` name what was made and not released. A thread runs
from its creation on, before the list has its node, and takes the steps of `SockBroker`.
`Submit` and `Collect` stand for the loop until `clean` is called: requests for the workers,
more of them than a queue holds, and completions taken. After `Clean` nobody collects.

### FdLife

`obj` is the state of each instance of Fd, `open` the numbers the process has open, `watch`
what epoll reports each number for and to which instance, `names` the paths in the file system,
`accepted` connections an action has accepted and nobody has mounted yet. Each operation of
MakeFd is an action with its failures as actions of their own (`BindFails`, `MkFifoFails`,
`LocalAborts`). It needs a constructed instance and nothing else (`Mountable`): `socket`, `pipe` and
`mkfifo` assert that the instance carries nothing, so with assertions they abort (`AssertFails`)
and without them they overwrite it, as `openFile`, `eventFd` and `mkFdSock` always do. `lost` and `left`
are history: the numbers and the paths such a mount has overwritten. An event whose pointer
leads to a destroyed instance ends the model (`EventWild`). The number of a new descriptor is any
that is not open; the kernel's choice of the lowest one is a special case.

## Runs

| Run | Shows |
|---|---|
| `loop_workers` | two tasks with a file each, two workers, rings of one entry, a signal at any wait, then `clean`: types, `OneHome`, `PopFindsCompletion`, `PendingAccurate`, `ExitSeesAllCompletions` |
| `loop_timers` | two tasks that sleep 0 to 2 ms, yield or read a file of their own, three ticks to the millisecond, one worker: `TimersInOrder`, `TimeoutFindsDue`; under fairness `SleepersFinish`, if nobody reads |
| `lf_ring` | two producers (two calls and one) and a consumer (two calls), two entries: `IndexOnce`, `NoneLeftBehind`, refinement of `LfContract` |
| `fd_requests` | two tasks with two requests each on a connected and a listening socket, buffers up to three bytes, lengths whose lower half counts to two: `RequestHomed`, `TaskHomed`, `NoPhantomPending`, `StreamInBuffer` |
| `run_queue` | two pages of two fragments, any sequence of operations: `Circular`, `NoneLeaked`, refinement of `EntryQueue` |
| `routines` | four routines and a function on a pool of three entries, signals and exceptions: `FramesHomed`, `ResumesFrames`, `DestroysOnce`; one of them may yield for ever: under fairness `ReadyAreResumed` |
| `worker_pool` | up to two workers, five values of workerNum, every call may fail, three requests on rings of two, `clean` with two tries: `InitMeansRunning`, `PartsAccounted`, `CountedLeaveFirst`; under fairness `WorkersLeave` |
| `fd_life` | two instances of Fd, three numbers, two paths, with and without assertions: `NumbersOwned`, `EventsFindOwner`, `PathsMatch` |
| `lost_request`, `lost_completion`, `early_exit`, `shared_file` | a counterexample each, see [below](#what-the-runs-found) |

Deadlock is not checked: the program ends (`freed`, `returned`, `over`, `aborted`, `wild`), and the
stalls of the findings `lost_request` and `lost_completion` are stated as properties of their own.

**Why the bounds are enough.** Two tasks and two workers are the fewest that compete for
the semaphore, for `loopWakedUp` and for a ring slot. With rings of one entry the second
request is refused and the second completion waits, which never happens with the real
capacities (powers of two, at least 8) in a small run; `DequeueMax` 1 instead of 100 makes
the loop leave completions behind. Two operations per task let a task wait again in the
round in which it was resumed, where the exit flag is stale. Three ticks to the millisecond
make the truncation visible, with whole ones it is the identity, and tell rounding down in both
places from rounding in one only; a task that reads beside one that sleeps is what makes the
loop wait with a limit. Two entries and five calls
take the lock-free ring (four slots) to a position whose slot is reused in a later cycle,
and make an enqueuer meet a dequeuer with another cycle in one slot; `Order` and
`BUFFIO_RING_MIN` are scaled down together so that `cache_remap` still permutes. Two pages
of two fragments add a page while entries are in use and exhaust the pool. Three bytes
allow a transfer in three parts, the fewest for which the cursor is wrong twice, and are one
more than the lower half of a length holds. Four
routines on three entries make a routine wait for one that waits for a third while a
recycled entry still names a waiter, and exhaust the pool; two turns let a routine sleep
and then ask. Two
workers are the fewest of which one is asleep while another is busy or has not yet entered
`worker()` when `clean` counts; three requests fill a completion ring of two and leave one worker
with a completion that does not fit; a workerNum below zero and one above the queue's size are
refused. Two instances and three numbers let a pipe (two numbers) and a socket exist at once and
a number come back to the other instance; two paths let one be left behind by a mount over its
maker while the instance makes the other.
`MaxOps`, `MaxCalls`, `MaxPages`, `MaxLen`, `MaxTurns`, `MaxPosts`, `PoolSize` and `Numbers` are the only
bounds set by hand; the clock stops when nothing lies in the future.

Workers are interchangeable in `loop_workers`, tasks in `fd_requests`, instances, numbers and
paths in `fd_life`; symmetry is used only in runs without temporal properties.

## Fairness

`EventLoop!FairSpec` assumes weak fairness of the loop's thread, of each worker thread and
of the clock: the operating system runs every thread that can run, and time passes. A
signal need not arrive, and a coroutine need not choose any particular operation: weak
fairness is stated for the loop as a whole and not for single actions. Coroutines are
finite (`MaxOps`); a coroutine that yields for ever starves the loop in the code as well,
since `yieldQueue` serves the queue until it is empty.

`Routines!FairSpec` assumes weak fairness of the loop's own steps whenever it does not wait in
`epoll_wait` (`Round`), and of each routine that it resumes: the routine does one of the things it can do. No
timer has to expire and no request has to complete: what the loop owes to those is `EventLoop`'s
matter, and the findings show that the code does not guarantee it. All routines together make at
most `MaxTurns` yields, sleeps and requests, but for those in `Spinners`, whose co_yields nothing
bounds. `ReadyAreResumed` says that an entry queued when a round begins leaves the queue, unless one
of these has reached the head and stays there.

`WorkerPool!FairSpec` assumes weak fairness of the steps of `clean` and of each thread; no
call has to fail, and nobody has to submit, to collect or to call `clean`.

## Proofs

The proof modules are checked by TLAPS for every value of the constants that satisfies the
named assumptions of the model: any number of tasks, files, workers, routines, instances
and operations, any ring capacity, any delays.

| Module | Theorem | States | By |
|---|---|---|---|
| `EventLoopProofs` | `TypeCorrect` | `Spec => []TypeOK` | `TypeInv` |
| `EventLoopSafety` | `PopSafe` | `Spec => []PopFindsCompletion` | `TypeInv`, `CountInv` |
| | `PendingExact` | `Spec => []PendingAccurate` | `TypeInv`, `PendInv` |
| | `ExitComplete` | `Spec => []ExitSeesAllCompletions` | `TypeInv`, `PendInv` |
| | `TimersOrdered` | `Spec => TimersInOrder` | `TypeInv`, `SeenInv` |
| | `TasksKept` | `OwnFiles` implies `Spec => []OneHome` | `TypeInv`, `HomeInv` |
| `LfRingProofs` | `RingsSound` | `Spec => []RingInv` | `RingInv` |
| | `IndicesKept` | `Spec => []IndexOnce` | `RingInv` |
| | `EntriesReachable` | `Spec => []NoneLeftBehind` | `RingInv` |
| | `QueueDelivers` | `Spec => DeliversOnceInOrder` | `QueueInv` |
| `FdRequestsProofs` | `RequestsSound` | `Spec => []RequestInv` | `RequestInv` |
| | `RequestsHomed` | `Spec => []RequestHomed` | `BatchInv`, `UseInv` |
| | `TasksHomed` | `Spec => []TaskHomed` | `WaitInv` |
| | `PendingIsReal` | `Spec => []NoPhantomPending` | `RequestInv` |
| | `BufferKept` | `Spec => []StreamInBuffer` | `StreamInv`, `LengthInv` |
| `RunQueueProofs` | `QueueTypes` | `Spec => []TypeOK` | `QueueInv` |
| | `ListCircular` | `Spec => []Circular` | `QueueInv` |
| | `NothingLeaks` | `Spec => []NoneLeaked` | `QueueInv` |
| | `QueueIsEntries` | `Spec => IsEntryQueue` | `QueueInv` |
| `WorkerPoolProofs` | `InitSound` | `Spec => []InitMeansRunning` | `StageInv` |
| | `AllAccounted` | `Spec => []PartsAccounted` | `StageInv` |
| | `StacksOutlive` | `Spec => []CountedLeaveFirst` | `CountInv`, `StageInv`, `CleanInv` |
| | `PoolTypes` | `Spec => []TypeOK` | `SleepInv`, `HoldInv`, `CountInv` |
| `RoutinesProofs` | `TypeCorrect` | `Spec => []TypeOK` | `PlacesInv` |
| | `FramesExist` | `Spec => []ResumesFrames` | `PlacesInv`, `AliveInv` |
| | `NoDoubleDestroy` | `Spec => []DestroysOnce` | `ApartInv`, `WaiterInv` |
| | `FramesKept` | `Spec => []FramesHomed` | `HomeInv` |
| `FdLifeProofs` | `TypeCorrect` | `Spec => []TypeOK` | `TypeOK` |
| | `OneOwner` | `Spec => []NumbersOwned` | `OwnInv` |
| | `OwnerFound` | `Spec => []EventsFindOwner` | `OwnInv`, `WatchInv` |
| | `PathsKept` | `Spec => []PathsMatch` | `PathInv` |

The argument, in each case: the initial states satisfy the invariant, every action of
`Next` preserves it, it implies the property.

**EventLoop.**

- `TypeInv` is `TypeOK` plus what the types depend on: a header that is in a queue, the batch
  or a worker's hands has a task as its entry, and a worker has a header exactly where
  its program counter says so.
- `CountInv`: `queuedCompleted` plus the workers between publishing and counting equals
  the completions in the queue plus those the loop has popped and not yet subtracted. A
  worker publishes before it counts and the loop pops before it subtracts, so what the
  loop has read never exceeds what is in the queue. `PopFindsCompletion` alone is not
  inductive, because it says nothing of how many completions there are.
- `PendInv`: `pendingReq` plus the requests pushed but not yet added equals the requests in
  `epollWorks`, those with a worker that has not settled, and the refused ones; with the
  exit flag set the first two are empty until the last round is over. Since the loop
  adds after it pushes, the counter can be momentarily too small, even negative; it is
  exact at the two places where getWakeTime reads it, and that is what is proved.
- `SeenInv`: the time `pushExpired` read is not in the future.
- `HomeInv` is `OneHome` with what makes a place a place: a worker outside `Holding` has let go
  of its header, a header's entry is the task whose file it is, and there are finitely many
  timers. The places of a task are a sum (`HomeSum`); `TimesSteps` and `HandsMove` say how a
  step changes each summand, and every action but `PushRefused` and those of `clean` conserves
  the sum. `OwnFiles` (no two tasks read the same file) is a hypothesis of the theorem because
  `OneHome` is false without it: that is the finding `shared_file`.

**LfRing.** A position is *open* while its dequeuer has not given it up: it is not drawn yet, or
drawn by a thread that is still at its slot. `RingInv` rests on this word.

- `SlotInv`: an occupied slot was filled at an open position below the tail; the position of a
  vacant slot's cycle is closed. This is `NoneLeftBehind` made inductive.
- `PassInv`: at a closed position the slot is in that cycle or a later one, or unsafe. It is what
  the `fetch_or` and the cycle written into a vacant slot are for.
- `DrawInv`: no two dequeuers of a ring have one position, and the head is beyond it.
- `Taker`: a thread about to take an index still finds it in the slot, with its own cycle, however
  many others have been there since it looked. `Giver`: if the slot an enqueuer examined is
  unchanged when the compare-and-swap comes, every dequeuer that is through with it had an
  earlier cycle; so what is written there will be found.
- `OnceInv` is `IndexOnce` place by place, without cardinalities.

`Proper` and `Quiet` describe the steps a thread may take; that such a step preserves what another
thread knows is proved once (`OthersKeep`), and an action then has to be shown proper and to
establish its own thread's part. For the refinement, `CallInv` ties `data`, `made` and `calls`
together, and `OrderInv` says that the values of one producer lie in the acq ring in the order
of their calls, before the position it is about to fill and behind all that a consumer
with a position at or below them has taken. The steps that move no value are `Inward` and map
to a stutter.

**FdRequests.** `UseInv` ties the flag of a header to its place: a coroutine asks for a header by its
flag, `takeEventReadAction` finds it by its place, and a wrong answer would link the batch
twice through one header. `WaitInv` is `TaskHomed` place by place, and adds that a reserve
header's entry is no task's. `LengthInv`:
the lower half of a registered length is at most the size of the buffer, because cutting off
only shortens it. `StreamInv`: if the upper half was zero, cursor plus reserved length stays below
that size at each step of a transfer. With another upper half it need not: see the known deviations.
`Request` and `Answered` give what
an event moves; the lemmas on `In` and `Distinct` say what appending, taking off and joining do
to the elements of a sequence.

**RunQueue.** `Line` and the free list are recursive functions, and the links say nothing directly
of either. `QueueInv` says that there is a sequence `s` of different fragments along which `next` and
`prev` lead (`IsLine`), and a sequence of the others along which the check sum words lead to null
(`IsFree`). `ChainIs`: what satisfies the equation of a chain is that chain; it is proved by the
least place in which two solutions would differ, because induction cannot be instantiated
here. So `Line` is `s` (`LineIs`), and each operation is a fact about sequences: `LinkedAlone`
and `LinkedLast` for `push` and `pushHead`, `Unlinked` for `erase` and `pop` at any place, `TurnLine` for
`mvNext`, `PageMade`, `MarkedFree` and `PushedFree` for the pool. Each gives the step of
`EntryQueue` at once.

How many workers are at a place is a cardinality; `CountNat` and `CountMove` say how it
changes with one worker's step, and the other lemmas only use these.

**WorkerPool.** `CountInv`: `workerCount` is the number of threads inside `worker()`.
`StageInv` says what exists at each stage, in particular that `mountEventFd` leaves an
epoll registration only with an active broker; that is why `pollMod` fails after
`start()` has answered none for queues it could not make. `PartsAccounted` is part of it: stage by
stage, `held` is what the threads that were created have, whichever call failed. `CleanInv`: a worker that
`clean` counted has been inside, so when `workerCount` is zero it is gone. For the types,
`SleepInv` counts the sleepers (`sleepingThread` is the number of workers between counting
themselves in and out, so `sem` and it stay natural numbers) and `HoldInv` says that a worker at
its action has a header.

**Routines.** An entry is in one of the queue, the free list, the clock and the headers, and
in a sequence once (`PlacesInv`, for which `AppendOnce`, `TailOnce` and `PushOnce` say what the
queue operations do to a sequence without repetitions). An entry that is a waiter is in
none of them and is the waiter of one entry (`WaiterInv`): it was erased from the queue when
it became one and nothing pushes it again, which is the leak listed below and at the
same time what makes `cleanQueue` safe. Entries in use hold different routines (`ApartInv`),
which have a frame (`AliveInv`). Before `clean()`, `HomeInv` says of every frame that one entry in use
holds it (`HasOne`, `OnlyOne`), that the entry is active exactly when the routine awaits no other
(`InUseAlive`), and that the entry of a routine somebody awaits leads back to that one
(`LeadsBack`); a routine that was never pushed knows nobody (`NewKnowsNobody`), so an old link
cannot come alive with it.

**FdLife.** `OwnInv` says, number by number, that the open ones are those an instance carries,
an accepted connection waits with or a mount has lost, and that no two of these have the same;
`WatchInv` that a number is watched for nothing when nobody is watched; `PathInv` the same as
`OwnInv` for the paths, with those a mount has left. No theorem assumes that a program mounts on
empty instances only: mounting over is one of the steps.

Every invariant the runs check is also proved but `TimeoutFindsDue`, and so are the action property
`TimersInOrder` and both refinements. Only model-checked are `TimeoutFindsDue`, whose division by
`TicksPerMs` is arithmetic beyond the prover when the divisor is a constant, and the liveness
properties `SleepersFinish`, `ReadyAreResumed` and `WorkersLeave`: the prover handles neither fairness
nor ENABLED.

The proofs assume what the modules assume of their constants (`RingAssumption`,
`RequestAssumption`, `QueueAssumption` and so on: sets of threads and tasks are finite, sizes are
positive, distinct values are distinct) and nothing else, except `OwnFiles` in `TasksKept`. They are
about the models, with the abstractions listed below; in particular those of `LfRing` hold
for sequentially consistent memory.

## What the runs found

- **`lost_request`** - `src/sockbroker.cpp:24`. A worker tests the work queue, the loop pushes a
  request and reads `sleepingThread` as 0, the worker counts itself and waits: nobody posts.
  Request, worker and loop wait for ever.
- **`lost_completion`** - `src/sockbroker.cpp:48`. A worker reads `loopWakedUp` before the loop
  resets it and after the loop looked at `queuedCompleted`: no event is written and the
  loop waits without limit on a queued completion.
- **`early_exit`** - `src/scheduler.cpp:179`, against `include/buffio/scheduler.hpp:46`. The exit flag
  is computed before the last round; the coroutine resumed in that round may sleep or
  read again and `run` returns without it.
- **`shared_file`** - `src/actions.cpp:81`. The worker marks the header free before the completion
  is delivered; a second request on the file replaces the first one's entry.

The properties of the passing runs hold. Some of them are stated around deviations of the list
below: what a full work queue refuses (`OneHome`, `PendingAccurate`), a completion that does not fit
(`WorkersLeave`), an awaited routine that returns (`FramesHomed`), a routine that yields for ever
(`ReadyAreResumed`), a length with an upper half (`StreamInBuffer`) and what a mount has overwritten
(`NumbersOwned`, `EventsFindOwner`, `PathsMatch`) are named in them as the only ways to go wrong. That the
code does go wrong there is said here and not claimed to be caught.

### Known deviations

What a short sequence of calls shows needs no run of its own. The models follow the code in
each of these, but where it is said that they leave it out.

Loop and workers:

- `src/scheduler.cpp:202`: the loop ignores that `poller.push` refuses a request when `epollWorks` is
  full and counts it in `pendingReq`: its routine never runs and the loop waits for it (`dropped`).
- `src/sockbroker.cpp:39`: the retry of a completion that does not fit looks at nothing else. After
  `run` nobody takes completions, so the worker never leaves and `clean` frees its stack, against
  `include/buffio/scheduler.hpp:64` (`Retries`).
- `src/sockbroker.cpp:83`: a `start` that cannot create a thread leaves the earlier workers asleep and
  the broker inactive; `ping` is then a no-op, and `clean` frees their stacks when its tries are up.
- `include/buffio/scheduler.hpp:157-159` describes `yieldQueue` as cyclic, in chunks; the count at
  `src/scheduler.cpp:188` never changes and a routine that yields keeps the head (`Spinners`).
- `src/promise.cpp:40`: nothing reads `waiter` when a routine that was awaited returns, so the one
  that awaits it is never resumed.

Descriptors and requests:

- `src/fd.cpp:323`, against `include/buffio/common.hpp:106`: the length is stored through a 4-byte
  member of the union and read through the 8-byte one (`src/actions.cpp:23,53`): 2^32 or more is cut
  off, and the upper half is whatever the memory held (`Uppers`).
- `src/actions.cpp:30-37`, against `include/buffio/common.hpp:106-107`: the length reported after a
  transfer is the distance of a cursor that the last chunk never moves and every other one sets back.
- `src/fd.cpp:229`, against `include/buffio/fd.hpp:156`: `openFile`, `eventFd` and `mkFdSock` overwrite what
  the instance carries. The old number stays open and watched (`lost`); once the instance is
  destroyed its next event calls a method of what is gone (`EventWild`).
- `src/fd.cpp:430`, against `include/buffio/fd.hpp:576-577`: neither `release` nor a mount clears the
  readiness bits, so a new socket on a used instance counts as ready.
- `include/buffio/fd.hpp:166`: the class has a destructor and the compiler's copy constructor: each of
  two copies closes the number. Programs that copy an instance are left out.
- `src/scheduler.cpp:137`, against the assertion `include/buffio/Queue.hpp:184`: `consumeBatch` calls
  `get` on the empty batch after its last request. `FdRequests` ends there.
- `src/scheduler.cpp:127`: the reserve header of an accepting socket stays fresh, so any event on the
  socket pushes it, even while it is linked. `FdRequests` ends there (`Linkable`).
- `src/fd.cpp:246`: `waitReadReady` leaves a request pending that it has not counted, and the event
  takes it off the count; `NoPhantomPending` bounds `pendingReq` from above only.
- `src/fd.cpp:309`: `waitConnect` marks the header in use before the connect fails, and it stays so
  (`failed`).
- `include/buffio/promise.hpp:69`: after an exception the routine stays at the head and is resumed
  at its final suspend point.
- `src/container.cpp:20`, `src/scheduler.cpp:149`: a function's container has no `destroy`, and
  `waiter` of an entry from a new page was never written; `cleanQueue` uses both.
- `src/scheduler.cpp:35`: a thread that has not entered `worker()` when `clean` counts, or has
  taken itself off `workerCount` and not ended, may lose its stack; so may any when the
  tries run out. `CountedLeaveFirst` is about the others.
- `src/sockbroker.cpp:96`: `start` answers none when it could not make the queues; `init` fails
  later, at `pollMod` (`InitMeansRunning`).
- `src/fd.cpp:448`: `release` unlinks the path of a local socket whether the instance bound it or not
  (`robbed` in `PathsMatch`).
- `src/fd.cpp:88`: the length of a local address is asserted the wrong way round; with
  assertions on, an address that fits aborts (`LocalAborts`).
- `src/actions.cpp:175`: a failed accept hands -1 to the routine, and `waitAccept` leaves the
  header in use.

## Abstractions and what is not modelled

*Loop and workers.* The CAS on `loopWakedUp` after a poll is one step with the poll's result,
and compare_exchange_weak does not fail spuriously; the load and the posts of `Ping` are
one step; `sem_wait` is not interrupted. `EventLoop` starts after `init` has succeeded; its
failures are in `WorkerPool`. `sockBroker.count` is never read and left out. The
heap order of timers that expire at the same tick is a free choice, and delays are below
2^31 ms. What `clean` frees is in `WorkerPool` and `Routines`.

*Lock-free queue.* Memory is sequentially consistent (the code mostly uses acquire/release
and relaxed loads). The 5000 attempts of an enqueuer may end at any time. The value is
accessed in the step that gets its index, which only its holder can observe. Positions do
not wrap (2^64). Allocation failures are left out. An `empty` answer that is wrong because
`threshold` was stored late is allowed here and modelled with its consequences in
`SockBroker`.

*Sockets.* Edge- and level-triggered events are not told apart: epoll reports any set of
events, more than the kernel would. Requests on pipes and eventfds, `poll` masks and the
coroutine an async routine becomes are left out; `asyncConnect` runs a routine that was
never stored, where the model ends. `FdRequests` has no `release`: what becomes of requests
that are pending then is not modelled.

*Descriptors.* Parsing of addresses, `setNonBlocking` and the counter `FdCount`, which nothing
reads, are left out. A path is in the file system once, whoever made it. `close` does
not fail. Programs that mount the -1 of a failed accept or copy an instance are left out.

*Worker threads.* `numThreads` and the status of a thread are left out, nothing reads them. A
second `init` after a failed one is not modelled.

*Not modelled.* `asyncReadFile` and `asyncWriteFile` on a worker, `clampThread`: see the plan. The
signal handler (a wrapper of sigwait that nothing uses) and logging (output) have no
protocol state.

## Plan

Done, in this order: `SockBroker` and `EventLoop` with their invariants and proofs, `LfRing`
against `LfContract`, `RunQueue` against `EntryQueue`, `FdRequests`, `Routines`, `WorkerPool` and
`FdLife` with their proofs.

Next, the models:

1. asynchronous file requests in `SockBroker`/`EventLoop`: `asyncReadFile` clears `isFresh` in
   `readFile` and uses the callback and the buffer afterwards;
2. `consumeBatch` composed with the workers: what `pendingReq` means when sockets and files
   share it, and `run` exits or waits by the sum;
3. the cast to int in `Clock::getNext` for delays of 2^31 ms and more;
4. `release` with requests pending: `FdLife` composed with `FdRequests`.

Next, the proofs: the invariants and refinements of the runs have their theorems. What is left is to
compose them. `LfRing` implements `LfContract`, and `SockBroker` uses a queue with two threshold
flags; that these flags are the rings' thresholds is argued here and not proved. New
properties of the models above come with their proofs.
