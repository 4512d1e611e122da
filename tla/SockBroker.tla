------------------------------ MODULE SockBroker ------------------------------
(***************************************************************************)
(* The worker side of buffio: the threads of sockBroker::worker, the two   *)
(* lock-free queues between them and the event loop, the semaphore the     *)
(* workers sleep on, the eventfd that wakes the loop, and the atomic       *)
(* counters of namespace buffio::fiber.                                    *)
(*                                                                         *)
(* Every atomic access of a worker is a step of its own; wpc[w] names the  *)
(* access worker w makes next.  The event loop of module EventLoop uses    *)
(* the queue operators defined here.                                       *)
(***************************************************************************)
EXTENDS Integers, Sequences, FiniteSets

CONSTANTS
  Workers,   \* the threads sockBroker::start creates
  Headers,   \* the request headers (one readHeader per open file)
  Cap,       \* entries of a queue: 2^queueOrder in the code
  NoHeader   \* the null header pointer

ASSUME BrokerAssumption ==
  /\ IsFiniteSet(Workers)
  /\ Cap \in Nat \ {0}
  /\ NoHeader \notin Headers

VARIABLES
  works,     \* epollWorks: requests on their way to the workers
  consume,   \* epollConsume: completed requests on their way to the loop
  sem,       \* buffioWorkerSignal
  fiber,     \* the atomics of namespace buffio::fiber
  evfd,      \* the loop's eventfd as edge-triggered epoll sees it
  fresh,     \* the headers whose isFresh flag is set
  wpc,       \* the next step of each worker
  whdr       \* tmpWork: the header a worker holds

brokerVars == <<works, consume, sem, fiber, evfd, fresh, wpc, whdr>>

-----------------------------------------------------------------------------
(***************************************************************************)
(* An lfqueue is a pair of rings: acqueue carries the entries, freequeue   *)
(* the unused indices.  A ring whose threshold is negative answers "empty" *)
(* without looking.  hot is acqueue.threshold >= 0, room is                *)
(* freequeue.threshold >= 0.  An enqueue or a dequeue that succeeds is one *)
(* step; one that fails looks at the ring first and stores the threshold   *)
(* in a later step (Chill, Choke), so that another thread can come between.*)
(***************************************************************************)
LfStart == [items |-> << >>, hot |-> FALSE, room |-> TRUE]

CanTake(q) == q.hot /\ q.items # << >>

\* Mutant: the dequeued entry stays in the ring.
TakeAndLeave(q) == [q EXCEPT !.room = TRUE]

\* dequeue: the index goes back to freequeue, whose threshold is then reset.
Take(q) == [q EXCEPT !.items = Tail(@), !.room = TRUE]

\* Mutant: the free indices are not consulted.
CanPutAnyway(q) == q.room

CanPut(q) == q.room /\ Len(q.items) < Cap

\* enqueue: the threshold of acqueue is reset after the entry is in place.
Put(q, h) == [q EXCEPT !.items = Append(@, h), !.hot = TRUE]

\* The threshold store at the end of a dequeue that found acqueue empty.
Chill(q) == [q EXCEPT !.hot = FALSE]

\* The threshold store at the end of an enqueue that found freequeue empty.
Choke(q) == [q EXCEPT !.room = FALSE]

-----------------------------------------------------------------------------
WorkerPc == {"start", "loop", "check", "doze", "wait", "woken", "recheck",
             "dequeue", "drained", "act", "publish", "full", "count",
             "signal", "sendev", "settle", "leave", "gone"}

FiberStart ==
  [workerCount |-> 0, abort |-> FALSE, pendingReq |-> 0,
   sleepingThread |-> 0, queuedCompleted |-> 0, loopWakedUp |-> FALSE]

BrokerInit ==
  /\ works = LfStart
  /\ consume = LfStart
  /\ sem = 0
  /\ fiber = FiberStart
  /\ evfd = "idle"
  /\ fresh = {}
  /\ wpc = [w \in Workers |-> "start"]
  /\ whdr = [w \in Workers |-> NoHeader]

At(w, pc) == wpc[w] = pc
GoTo(w, pc) == wpc' = [wpc EXCEPT ![w] = pc]

\* One atomic fetch_add of a worker on the counter named c.
FetchAdd(w, from, c, n, to) ==
  /\ At(w, from)
  /\ fiber' = [fiber EXCEPT ![c] = @ + n]
  /\ GoTo(w, to)
  /\ UNCHANGED <<works, consume, sem, evfd, fresh, whdr>>

\* One atomic load of a worker that only decides where it goes next.
Load(w, from, cond, yes, no) ==
  /\ At(w, from)
  /\ GoTo(w, IF cond THEN yes ELSE no)
  /\ UNCHANGED <<works, consume, sem, fiber, evfd, fresh, whdr>>

Enter(w) == FetchAdd(w, "start", "workerCount", 1, "loop")

CheckAbort(w) == Load(w, "loop", fiber.abort, "leave", "check")

CheckWork(w) == Load(w, "check", works.hot, "dequeue", "doze")

Doze(w) == FetchAdd(w, "doze", "sleepingThread", 1, "wait")

\* Mutant: a worker does not wait for a post.
SemTake(w) ==
  /\ At(w, "wait")
  /\ sem' = sem - 1
  /\ GoTo(w, "woken")
  /\ UNCHANGED <<works, consume, fiber, evfd, fresh, whdr>>

SemWait(w) ==
  /\ At(w, "wait")
  /\ sem > 0
  /\ sem' = sem - 1
  /\ GoTo(w, "woken")
  /\ UNCHANGED <<works, consume, fiber, evfd, fresh, whdr>>

Woken(w) == FetchAdd(w, "woken", "sleepingThread", -1, "recheck")

RecheckAbort(w) == Load(w, "recheck", fiber.abort, "leave", "dequeue")

\* A dequeue that finds a request hands it to the worker.
DequeueWork(w) ==
  /\ At(w, "dequeue")
  /\ CanTake(works)
  /\ whdr' = [whdr EXCEPT ![w] = Head(works.items)]
  /\ works' = Take(works)
  /\ GoTo(w, "act")
  /\ UNCHANGED <<consume, sem, fiber, evfd, fresh>>

\* A dequeue that finds none: at once when the threshold is negative, after
\* a walk of the ring otherwise.
DequeueNothing(w) ==
  /\ At(w, "dequeue")
  /\ ~CanTake(works)
  /\ GoTo(w, IF works.hot THEN "drained" ELSE "loop")
  /\ UNCHANGED <<works, consume, sem, fiber, evfd, fresh, whdr>>

ChillWorks(w) ==
  /\ At(w, "drained")
  /\ works' = Chill(works)
  /\ GoTo(w, "loop")
  /\ UNCHANGED <<consume, sem, fiber, evfd, fresh, whdr>>

\* header->action: readFile and writeFile clear isFresh before they return.
RunAction(w) ==
  /\ At(w, "act")
  /\ fresh' = fresh \ {whdr[w]}
  /\ GoTo(w, "publish")
  /\ UNCHANGED <<works, consume, sem, fiber, evfd, whdr>>

Publish(w) ==
  /\ At(w, "publish")
  /\ CanPut(consume)
  /\ consume' = Put(consume, whdr[w])
  /\ whdr' = [whdr EXCEPT ![w] = NoHeader]
  /\ GoTo(w, "count")
  /\ UNCHANGED <<works, sem, fiber, evfd, fresh>>

\* The queue is full: the worker stores the threshold, sleeps and retries.
\* While the threshold stays negative a retry changes nothing.
PublishFull(w) ==
  /\ At(w, "publish")
  /\ consume.room
  /\ ~CanPut(consume)
  /\ GoTo(w, "full")
  /\ UNCHANGED <<works, consume, sem, fiber, evfd, fresh, whdr>>

ChokeConsume(w) ==
  /\ At(w, "full")
  /\ consume' = Choke(consume)
  /\ GoTo(w, "publish")
  /\ UNCHANGED <<works, sem, fiber, evfd, fresh, whdr>>

CountCompleted(w) == FetchAdd(w, "count", "queuedCompleted", 1, "signal")

CheckSignal(w) == Load(w, "signal", fiber.loopWakedUp, "settle", "sendev")

\* Mutant: a worker that signals the loop forgets to settle pendingReq.
SendEvUnsettled(w) ==
  /\ At(w, "sendev")
  /\ evfd' = "armed"
  /\ GoTo(w, "loop")
  /\ UNCHANGED <<works, consume, sem, fiber, fresh, whdr>>

SendEv(w) ==
  /\ At(w, "sendev")
  /\ evfd' = "armed"
  /\ GoTo(w, "settle")
  /\ UNCHANGED <<works, consume, sem, fiber, fresh, whdr>>

Settle(w) == FetchAdd(w, "settle", "pendingReq", -1, "loop")

Leave(w) == FetchAdd(w, "leave", "workerCount", -1, "gone")

Worker(w) ==
  \/ Enter(w) \/ CheckAbort(w) \/ CheckWork(w) \/ Doze(w) \/ SemWait(w)
  \/ Woken(w) \/ RecheckAbort(w) \/ DequeueWork(w) \/ DequeueNothing(w)
  \/ ChillWorks(w) \/ RunAction(w) \/ Publish(w) \/ PublishFull(w)
  \/ ChokeConsume(w) \/ CountCompleted(w) \/ CheckSignal(w) \/ SendEv(w)
  \/ Settle(w) \/ Leave(w)

-----------------------------------------------------------------------------
(***************************************************************************)
(* Sets of workers the properties speak of.                                *)
(***************************************************************************)
InPc(pcs) == {w \in Workers : wpc[w] \in pcs}

\* Workers between the dequeue of a request and its pendingReq.fetch_add(-1).
Busy == InPc({"act", "publish", "full", "count", "signal", "sendev", "settle"})

\* Workers whose completion is in the queue and not yet counted.
Uncounted == InPc({"count"})

LfQueue == [items : Seq(Headers), hot : BOOLEAN, room : BOOLEAN]

Fiber == [workerCount : Int, abort : BOOLEAN, pendingReq : Int,
          sleepingThread : Int, queuedCompleted : Int, loopWakedUp : BOOLEAN]

BrokerTypeOK ==
  /\ works \in LfQueue /\ Len(works.items) <= Cap
  /\ consume \in LfQueue /\ Len(consume.items) <= Cap
  /\ sem \in Nat
  /\ fiber \in Fiber
  /\ evfd \in {"idle", "armed", "seen"}
  /\ fresh \subseteq Headers
  /\ wpc \in [Workers -> WorkerPc]
  /\ whdr \in [Workers -> Headers \cup {NoHeader}]
=============================================================================
