------------------------------- MODULE Routines -------------------------------
(***************************************************************************)
(* The coroutine protocol of the scheduler: what promise, container and    *)
(* the run queue make of a routine from the push that hands it over to the *)
(* destruction of its frame, by promise::run when it returns or by clean() *)
(* when the loop was left with entries in the queue.                       *)
(*                                                                         *)
(* An entry comes from the queue's pool as its last user left it: task is  *)
(* written by makeContainer, waiter only when a routine awaits another,    *)
(* so a recycled entry keeps the waiter of its earlier life and an entry   *)
(* of a new page has none that was ever set.                               *)
(*                                                                         *)
(* The queue and its pool are used as EntryQueue describes them, which     *)
(* RunQueue is shown to implement.  Timers and requests are reduced to the *)
(* entries they hold; EventLoop and FdRequests model them.                 *)
(***************************************************************************)
EXTENDS Integers, Sequences, FiniteSets

CONSTANTS
  Routines,   \* coroutines the program may create
  Callbacks,  \* plain functions it may push
  PoolSize,   \* bound: the fragments of the queue's pool
  Unset,      \* the value of a field nobody has written
  MaxTurns,   \* bound: the yields, sleeps and requests of all routines
  Spinners,   \* routines whose co_yields nothing bounds
  Interrupts, \* whether epoll_wait may fail and end run()
  Throws      \* whether a routine may let an exception escape

Entries == 1 .. PoolSize

ASSUME RoutineAssumption ==
  /\ Routines \cap Callbacks = {}
  /\ PoolSize \in Nat
  /\ Unset \notin Routines \cup Callbacks \cup Entries
  /\ MaxTurns \in Nat /\ Spinners \subseteq Routines
  /\ Interrupts \in BOOLEAN /\ Throws \in BOOLEAN

VARIABLES
  phase,   \* what the loop's thread is doing
  line,    \* the run queue
  free,    \* the free list of the pool, its top first
  task,    \* what the container of an entry holds
  waiter,  \* blockQueue::waiter
  timers,  \* entries held by the clock
  requests,\* entries held by request headers
  life,    \* of each routine: no frame yet, its status, or its frame is gone
  awaits,  \* the routine a routine has awaited
  turns,   \* how many of them are left
  exit,    \* the flag of run()
  beat,    \* flips with every co_yield that is not bounded
  fault    \* the undefined behaviour the program has run into

places == <<line, free, timers, requests>>
bounds == <<turns, beat>>
vars == <<phase, places, task, waiter, life, awaits, bounds, exit, fault>>

-----------------------------------------------------------------------------
Init ==
  /\ phase = "setup"
  /\ line = << >> /\ free = [i \in Entries |-> i]
  /\ task = [e \in Entries |-> Unset]
  /\ waiter = [e \in Entries |-> Unset]
  /\ timers = {} /\ requests = {}
  /\ life = [r \in Routines |-> "none"]
  /\ awaits = [r \in Routines |-> Unset]
  /\ turns = MaxTurns /\ beat = FALSE
  /\ exit = FALSE /\ fault = "none"

\* The program pushes before run() or from whatever the loop is running.
InProgram == phase = "setup" \/ (phase = "yield" /\ line # << >>)

\* getEntry, a container made in the entry, and the entry linked in last.
Enter(what, rest) ==
  /\ free # << >> /\ free' = Tail(free)
  /\ task' = [task EXCEPT ![Head(free)] = what]
  /\ line' = Append(rest, Head(free))

PushRoutine(r) ==
  /\ InProgram
  /\ life[r] = "none"
  /\ life' = [life EXCEPT ![r] = "executing"]
  /\ Enter(r, line)
  /\ UNCHANGED <<phase, waiter, timers, requests, awaits, bounds, exit, fault>>

\* makeContainer::function sets run and leaves destroy as it was.
PushFunction(c) ==
  /\ InProgram
  /\ \A e \in Entries : task[e] # c
  /\ Enter(c, line)
  /\ UNCHANGED <<phase, waiter, timers, requests, life, awaits, bounds, exit,
                 fault>>

-----------------------------------------------------------------------------
(***************************************************************************)
(* run(): what is due is pushed, then yieldQueue resumes the head until    *)
(* the queue is empty.                                                     *)
(***************************************************************************)
Run ==
  /\ phase = "setup"
  /\ phase' = IF line = << >> THEN "left" ELSE "wake"
  /\ UNCHANGED <<places, task, waiter, life, awaits, bounds, exit, fault>>

\* getWakeTime computes the exit flag before the round that it ends.  With
\* requests outstanding the flag depends on pendingReq, which does not count all
\* of them (see FdRequests).
Wake ==
  /\ phase = "wake"
  /\ LET idle == line = << >> /\ timers = {} IN
     exit' \in {b \in BOOLEAN : (b => idle) /\ (idle /\ requests = {} => b)}
  /\ phase' = "poll"
  /\ UNCHANGED <<places, task, waiter, life, awaits, bounds, fault>>

\* Only a request is waited for: epoll_wait returns at once otherwise.
Waits == line = << >> /\ requests # {} /\ ~exit

\* epoll_wait fails: run() breaks out of its loop.
Interrupt ==
  /\ Interrupts /\ phase = "poll" /\ Waits
  /\ phase' = "cut"
  /\ UNCHANGED <<places, task, waiter, life, awaits, bounds, exit, fault>>

\* A request is done: dequeueThreadQueue, before the queue is resumed, or
\* consumeBatch, after it, pushes its entry.
Complete(e) ==
  /\ phase \in {"poll", "batch"} /\ e \in requests
  /\ requests' = requests \ {e}
  /\ line' = Append(line, e)
  /\ UNCHANGED <<phase, free, timers, task, waiter, life, awaits, bounds, exit,
                 fault>>

StartYield ==
  /\ phase = "poll"
  /\ phase' = "yield"
  /\ UNCHANGED <<places, task, waiter, life, awaits, bounds, exit, fault>>

\* Mutant: yieldQueue returns after its chunk.
EndYieldEarly ==
  /\ phase = "yield"
  /\ phase' = "batch"
  /\ UNCHANGED <<places, task, waiter, life, awaits, bounds, exit, fault>>

\* yieldQueue does not count down: it returns when the queue is empty.
EndYield ==
  /\ phase = "yield" /\ line = << >>
  /\ phase' = "batch"
  /\ UNCHANGED <<places, task, waiter, life, awaits, bounds, exit, fault>>

EndBatch ==
  /\ phase = "batch"
  /\ phase' = "clock"
  /\ UNCHANGED <<places, task, waiter, life, awaits, bounds, exit, fault>>

\* pushExpired ends the round.
Expire(e) ==
  /\ phase = "clock" /\ e \in timers
  /\ timers' = timers \ {e}
  /\ line' = Append(line, e)
  /\ UNCHANGED <<phase, free, requests, task, waiter, life, awaits, bounds, exit,
                 fault>>

\* The flag is that of the start of the round: what the round has queued, put
\* to sleep or let wait since is left behind.
EndRound ==
  /\ phase = "clock"
  /\ phase' = IF exit THEN "left" ELSE "wake"
  /\ UNCHANGED <<places, task, waiter, life, awaits, bounds, exit, fault>>

-----------------------------------------------------------------------------
(***************************************************************************)
(* promise::run on the head of the queue.                                  *)
(***************************************************************************)
Running(r) ==
  /\ phase = "yield"
  /\ line # << >> /\ task[Head(line)] = r
  /\ life[r] = "executing"

Burn == turns > 0 /\ turns' = turns - 1 /\ UNCHANGED beat

\* The entry of the running routine leaves the queue and stays in use.
Erase == line' = Tail(line) /\ UNCHANGED free

\* The entry is given back to the pool.
Pop == line' = Tail(line) /\ free' = <<Head(line)>> \o free

\* Mutant: the routine that waited is pushed, and the popped entry keeps it.
ReturnToWaiter(r) ==
  LET w == waiter[Head(line)] IN
  /\ Running(r)
  /\ life' = [life EXCEPT ![r] = "destroyed"]
  /\ line' = IF w = Unset THEN Tail(line) ELSE Append(Tail(line), w)
  /\ free' = <<Head(line)>> \o free
  /\ UNCHANGED <<phase, timers, requests, task, waiter, awaits, bounds, exit,
                 fault>>

\* co_return: the frame is destroyed and the entry popped.  Whoever awaited
\* the routine is the entry's waiter, which is not looked at.
Return(r) ==
  /\ Running(r)
  /\ life' = [life EXCEPT ![r] = "destroyed"]
  /\ Pop
  /\ UNCHANGED <<phase, timers, requests, task, waiter, awaits, bounds, exit,
                 fault>>

\* unhandled_exception: the routine is at its final suspend point, promise::run
\* does not find it done and leaves it at the head.
Throw(r) ==
  /\ Throws
  /\ Running(r)
  /\ life' = [life EXCEPT ![r] = "unhandledException"]
  /\ UNCHANGED <<phase, places, task, waiter, awaits, bounds, exit, fault>>

\* The head is resumed at its final suspend point.
ResumeFinal ==
  /\ phase = "yield" /\ line # << >>
  /\ task[Head(line)] \in Routines
  /\ life[task[Head(line)]] = "unhandledException"
  /\ fault' = "final" /\ phase' = "over"
  /\ UNCHANGED <<places, task, waiter, life, awaits, bounds, exit>>

\* co_yield: the routine stays at the head.
Yield(r) ==
  /\ Running(r)
  /\ IF r \in Spinners THEN beat' = ~beat /\ UNCHANGED turns ELSE Burn
  /\ UNCHANGED <<phase, places, task, waiter, life, awaits, exit, fault>>

\* Mutant: the entry of the awaiting routine is popped instead of erased.
AwaitPopped(r, c) ==
  /\ Running(r)
  /\ life[c] = "none" /\ free # << >>
  /\ life' = [life EXCEPT ![c] = "executing"]
  /\ awaits' = [awaits EXCEPT ![r] = c]
  /\ waiter' = [waiter EXCEPT ![Head(free)] = Head(line)]
  /\ task' = [task EXCEPT ![Head(free)] = c]
  /\ line' = Append(Tail(line), Head(free))
  /\ free' = <<Head(line)>> \o Tail(free)
  /\ UNCHANGED <<phase, timers, requests, bounds, exit, fault>>

\* Mutant: the waiter is the routine, not its entry.
AwaitFrame(r, c) ==
  /\ Running(r)
  /\ life[c] = "none"
  /\ life' = [life EXCEPT ![c] = "executing"]
  /\ awaits' = [awaits EXCEPT ![r] = c]
  /\ Enter(c, Tail(line))
  /\ waiter' = [waiter EXCEPT ![Head(free)] = r]
  /\ UNCHANGED <<phase, timers, requests, bounds, exit, fault>>

\* co_await of another routine: it gets an entry of its own, last in the queue,
\* whose waiter is the entry of the routine that awaits it.
Await(r, c) ==
  /\ Running(r)
  /\ life[c] = "none"
  /\ life' = [life EXCEPT ![c] = "executing"]
  /\ awaits' = [awaits EXCEPT ![r] = c]
  /\ Enter(c, Tail(line))
  /\ waiter' = [waiter EXCEPT ![Head(free)] = Head(line)]
  /\ UNCHANGED <<phase, timers, requests, bounds, exit, fault>>

\* co_await of a delay.
Sleep(r) ==
  /\ Running(r) /\ Burn
  /\ timers' = timers \cup {Head(line)}
  /\ Erase
  /\ UNCHANGED <<phase, requests, task, waiter, life, awaits, exit, fault>>

\* Mutant: the entry is erased and the header does not refer to it.
AwaitNobody(r) ==
  /\ Running(r) /\ Burn
  /\ Erase
  /\ UNCHANGED <<phase, timers, requests, task, waiter, life, awaits, exit,
                 fault>>

\* co_await of a request: its header refers to the entry.
AwaitRequest(r) ==
  /\ Running(r) /\ Burn
  /\ requests' = requests \cup {Head(line)}
  /\ Erase
  /\ UNCHANGED <<phase, timers, task, waiter, life, awaits, exit, fault>>

\* A pushed function runs to its end and its entry is popped.
Call ==
  /\ phase = "yield" /\ line # << >>
  /\ task[Head(line)] \in Callbacks
  /\ Pop
  /\ UNCHANGED <<phase, timers, requests, task, waiter, life, awaits, bounds,
                 exit, fault>>

-----------------------------------------------------------------------------
(***************************************************************************)
(* clean(): cleanQueue destroys what each entry waits for and holds.       *)
(***************************************************************************)
Clean ==
  /\ phase \in {"setup", "left", "cut"}
  /\ phase' = "clean"
  /\ UNCHANGED <<places, task, waiter, life, awaits, bounds, exit, fault>>

\* The routines whose frames one round of cleanQueue destroys.  The test of a
\* waiter nobody set may find a null pointer.
Doomed(e) == {task[f] : f \in {e, waiter[e]} \ {Unset}}

CleanEntry ==
  LET e == Head(line) IN
  /\ phase = "clean" /\ line # << >>
  /\ Doomed(e) \subseteq Routines
  /\ life' = [r \in Routines |-> IF r \in Doomed(e) THEN "destroyed" ELSE life[r]]
  /\ Pop
  /\ UNCHANGED <<phase, timers, requests, task, waiter, awaits, bounds, exit,
                 fault>>

\* The waiter is a pointer nobody set, or the entry holds a function, whose
\* container has no destroy of its own.
CleanUnset ==
  LET e == Head(line) IN
  /\ phase = "clean" /\ line # << >>
  /\ waiter[e] = Unset \/ task[e] \in Callbacks
  /\ fault' = "unset" /\ phase' = "over"
  /\ UNCHANGED <<places, task, waiter, life, awaits, bounds, exit>>

CleanDone ==
  /\ phase = "clean" /\ line = << >>
  /\ phase' = "over"
  /\ UNCHANGED <<places, task, waiter, life, awaits, bounds, exit, fault>>

Resume(r) ==
  \/ Return(r) \/ Throw(r) \/ Yield(r) \/ Sleep(r) \/ AwaitRequest(r)
  \/ \E c \in Routines : Await(r, c)

Round ==
  \/ Wake \/ (~Waits /\ StartYield)
  \/ EndYield \/ EndBatch \/ EndRound \/ ResumeFinal \/ Call

Loop ==
  \/ Round \/ StartYield
  \/ \E e \in Entries : Expire(e) \/ Complete(e)
  \/ \E r \in Routines : Resume(r)

Push ==
  \/ \E r \in Routines : PushRoutine(r)
  \/ \E c \in Callbacks : PushFunction(c)

Next ==
  \/ Push \/ Run \/ Loop \/ Interrupt
  \/ Clean \/ CleanEntry \/ CleanUnset \/ CleanDone

Spec == Init /\ [][Next]_vars

(***************************************************************************)
(* The loop's thread goes on whenever it does not wait in epoll_wait.      *)
(* Nothing makes a timer expire or a request complete: what the loop owes  *)
(* to those is the matter of EventLoop.                                    *)
(***************************************************************************)
Fairness ==
  /\ WF_vars(Run) /\ WF_vars(Round)
  /\ \A r \in Routines : WF_vars(Resume(r))

FairSpec == Spec /\ Fairness

-----------------------------------------------------------------------------
(***************************************************************************)
(* Properties                                                              *)
(***************************************************************************)
RangeOf(s) == {s[i] : i \in DOMAIN s}
Queued == RangeOf(line)
Alive == {r \in Routines : life[r] \in {"executing", "unhandledException"}}

TypeOK ==
  /\ phase \in {"setup", "wake", "poll", "yield", "batch", "clock", "left",
               "cut", "clean", "over"}
  /\ line \in Seq(Entries) /\ free \in Seq(Entries)
  /\ task \in [Entries -> Routines \cup Callbacks \cup {Unset}]
  /\ waiter \in [Entries -> Entries \cup {Unset}]
  /\ timers \subseteq Entries /\ requests \subseteq Entries
  /\ life \in [Routines -> {"none", "executing", "unhandledException", "destroyed"}]
  /\ awaits \in [Routines -> Routines \cup {Unset}]
  /\ turns \in 0 .. MaxTurns /\ beat \in BOOLEAN /\ exit \in BOOLEAN
  /\ fault \in {"none", "final", "unset"}

\* Until clean() a routine that has a frame has one entry that is not free and
\* holds it.  That entry is in one of the queue, the clock and a header, and
\* there once, unless the routine awaits another; then, as long as the other
\* has a frame, its entry leads back to this one.  So the one way to lose a
\* routine is that the routine it awaits returns.
FramesHomed ==
  phase \notin {"clean", "over"} =>
    \A r \in Alive :
      LET own(q) == {e \in Entries \ RangeOf(free) : task[e] = q}
          queue  == {i \in DOMAIN line : task[line[i]] = r}
          sleeps == {e \in timers : task[e] = r}
          asks   == {e \in requests : task[e] = r}
      IN  /\ Cardinality(own(r)) = 1
          /\ Cardinality(queue) + Cardinality(sleeps) + Cardinality(asks)
               = IF awaits[r] = Unset THEN 1 ELSE 0
          /\ awaits[r] \in Alive =>
               \A e \in own(awaits[r]) : waiter[e] \in own(r)

\* What the loop resumes has a frame, and no entry in use can be handed out.
ResumesFrames ==
  \A e \in Queued \cup timers \cup requests :
    e \notin RangeOf(free) /\ (task[e] \in Routines => task[e] \in Alive)

\* cleanQueue destroys only frames that exist, though recycled entries keep
\* the waiters of their earlier lives.
DestroysOnce ==
  phase = "clean" /\ line # << >> => Doomed(Head(line)) \cap Routines \subseteq Alive

\* What is queued when a round begins is resumed until it leaves the queue, also
\* in the round that the exit flag ends: no entry is left behind by the rounds
\* that ask whether to go on while others are queued.  yieldQueue takes no turns,
\* so the one that yields for ever keeps the head, and only that one does.
Hogged == line # << >> /\ task[Head(line)] \in Spinners

ReadyAreResumed ==
  \A e \in Entries :
    e \in Queued /\ phase \in {"wake", "poll", "yield"}
      ~> e \notin Queued \/ fault # "none" \/ []Hogged
=============================================================================
