------------------------------ MODULE FdRequests ------------------------------
(***************************************************************************)
(* Requests on sockets: Fd's wait... and async... operations, the epoll    *)
(* events that answer them (processEvents, takeEvent...Action), and        *)
(* consumeBatch, which runs the actions of actions.cpp.                    *)
(*                                                                         *)
(* Everything happens on the loop's thread; the kernel decides which       *)
(* sockets are reported ready and what a system call returns.  A task is a *)
(* coroutine that makes at most MaxOps requests.                           *)
(* File requests and timers are the matter of EventLoop.                   *)
(***************************************************************************)
EXTENDS Integers, Sequences, FiniteSets

CONSTANTS
  Tasks,      \* the coroutines pushed before run()
  Streams,    \* connected or connecting sockets
  Listeners,  \* listening sockets
  Async,      \* an entry that getEntry reserves for an async routine
  MaxOps,     \* requests a task makes at most
  MaxLen,     \* the largest buffer, in bytes
  Word,       \* the number of values of a socklen_t: 2^32 in the code
  Uppers      \* what the upper half of a len nobody has written may hold

ASSUME RequestAssumption ==
  /\ IsFiniteSet(Tasks) /\ Async \notin Tasks
  /\ Streams \cap Listeners = {}
  /\ MaxOps \in Nat /\ MaxLen \in Nat \ {0}
  /\ Word \in Nat \ {0} /\ Uppers \subseteq Int

Socks == Streams \cup Listeners
Headers == Socks \X {"read", "write", "reserve"}

VARIABLES
  pc,          \* the loop's next step
  queue,       \* the run queue
  header,      \* the three headers of each Fd
  mask,        \* rwmask: which of "read", "write", "accept" is set
  pending,     \* the headers pendingReadReq and pendingWriteReq point to
  batch,       \* requestBatch
  pendingReq,  \* fiber::pendingReq
  events,      \* what epoll_wait reported of each socket and is not processed
  exit,        \* the flag of run()
  io,          \* local variables of action::read and action::write
  accepts,     \* asyncAccept calls without their asyncAccpetDone
  done, fuel   \* tasks that returned, requests each may still make

progress == <<done, fuel>>
requests == <<header, mask, pending, batch, pendingReq, accepts>>
vars == <<pc, queue, requests, events, exit, io, progress>>

NoIo == [cursor |-> 0, reserved |-> 0, total |-> 0, upper |-> 0]

\* The union len in two halves: socklen is the lower one, len is both, and
\* written tells whether the upper half ever was.  size is what the caller
\* says of the buffer and is kept nowhere in the code.
Idle == [fresh |-> FALSE, action |-> "none", entry |-> Async, failed |-> FALSE,
         low |-> 0, high |-> 0, written |-> FALSE, size |-> 0]
Quiet == [s \in Socks |-> {}]

\* The sockets are mounted: not fresh, and added to epoll.
Init ==
  /\ pc = "wake"
  /\ queue \in {q \in [1 .. Cardinality(Tasks) -> Tasks] :
                  \A t \in Tasks : \E i \in DOMAIN q : q[i] = t}
  /\ header = [h \in Headers |-> Idle]
  /\ mask = Quiet /\ events = Quiet
  /\ pending = {} /\ batch = << >> /\ pendingReq = 0
  /\ exit = FALSE /\ io = NoIo /\ accepts = 0
  /\ done = {} /\ fuel = [t \in Tasks |-> MaxOps]

-----------------------------------------------------------------------------
(***************************************************************************)
(* A round of run() up to yieldQueue                                       *)
(***************************************************************************)
\* getWakeTime and epoll_wait, which reports whatever the kernel has seen: with
\* a request pending and nothing to do the loop waits for an event, with neither
\* this round is the last.
Busy == queue # << >> \/ batch # << >>
Waits == ~Busy /\ pendingReq > 0

Wake ==
  /\ pc = "wake"
  /\ \E reported \in [Socks -> SUBSET {"in", "out"}] :
       /\ Waits => reported # Quiet
       /\ events' = reported
  /\ exit' = (exit \/ (~Busy /\ ~Waits))
  /\ pc' = "events"
  /\ UNCHANGED <<queue, requests, io, progress>>

\* A signal ends the wait and the loop.
Interrupted ==
  /\ pc = "wake" /\ Waits
  /\ pc' = "returned"
  /\ UNCHANGED <<queue, requests, events, exit, io, progress>>

Bit(e) == IF e = "in" THEN "read" ELSE "write"

Request(s, kind) ==
  IF <<s, kind>> \in pending /\ \E e \in events[s] : Bit(e) = kind
  THEN << <<s, kind>> >> ELSE << >>

\* The pending requests the events of s answer, the read before the write.
Answered(s) == Request(s, "read") \o Request(s, "write")

Reserve(s) ==
  IF header[<<s, "reserve">>].fresh THEN << <<s, "reserve">> >> ELSE << >>

\* Mutant: the answered requests stay counted.
KeepCounted(n) == UNCHANGED pendingReq

Uncount(n) == pendingReq' = pendingReq - n

\* One event of processEvents.
ProcessEvent(s) ==
  /\ pc = "events"
  /\ events[s] # {}
  /\ mask' = [mask EXCEPT ![s] = @ \cup {Bit(e) : e \in events[s]}]
  /\ pending' = pending \ {Answered(s)[i] : i \in DOMAIN Answered(s)}
  /\ batch' = batch \o Answered(s) \o Reserve(s)
  /\ Uncount(Len(Answered(s)))
  /\ events' = [events EXCEPT ![s] = {}]
  /\ UNCHANGED <<pc, queue, header, accepts, exit, io, progress>>

EventsDone ==
  /\ pc = "events" /\ events = Quiet
  /\ pc' = "yield"
  /\ UNCHANGED <<queue, requests, events, exit, io, progress>>

-----------------------------------------------------------------------------
(***************************************************************************)
(* What a task does when it is resumed.  A request on a header in use      *)
(* returns nullptr, and a task that awaits nullptr goes on.                *)
(***************************************************************************)
Running(t) ==
  /\ pc = "yield"
  /\ queue # << >> /\ t = Head(queue)
  /\ UNCHANGED <<pc, events, exit, io>>

Asks(t) ==
  /\ Running(t)
  /\ fuel[t] > 0
  /\ fuel' = [fuel EXCEPT ![t] = @ - 1]
  /\ UNCHANGED done

Finish(t) ==
  /\ Running(t)
  /\ queue' = Tail(queue)
  /\ done' = done \cup {t}
  /\ UNCHANGED <<requests, fuel>>

\* Mutant: the flag of the header is not looked at.
NeverInUse(h) == FALSE

InUse(h) == header[h].fresh

\* Mutant: the task that waits stays in the run queue.
StayReady(t) == UNCHANGED queue

\* await_transform erases the task that waits.
Suspend(t) == queue' = Tail(queue)

\* nullptr is returned: nothing changes.
Refused == UNCHANGED <<queue, requests>>

Fill(h, action, entry) ==
  header' = [header EXCEPT ![h] = [@ EXCEPT !.fresh = TRUE, !.action = action,
                                            !.entry = entry, !.failed = FALSE]]

\* make_read_write_header stores the length in socklen: what does not fit is
\* cut off, and the upper half of len stays as it was.
FillBuffer(h, action, entry, n) ==
  header' = [header EXCEPT ![h] = [@ EXCEPT !.fresh = TRUE, !.action = action,
                                            !.entry = entry, !.failed = FALSE,
                                            !.low = n % Word, !.size = n]]

ToBatch(h) == batch' = Append(batch, h) /\ UNCHANGED <<pending, pendingReq>>
ToHead(h) == batch' = <<h>> \o batch /\ UNCHANGED <<pending, pendingReq>>
ToPending(h, counted) ==
  /\ pending' = pending \cup {h}
  /\ pendingReq' = pendingReq + counted
  /\ UNCHANGED batch

\* waitRead and asyncRead; only the first suspends the task.
Read(t, s, async) ==
  LET h == <<s, "read">> IN
  /\ Asks(t)
  /\ \/ InUse(h) /\ Refused
     \/ /\ ~InUse(h)
        /\ \E n \in 1 .. MaxLen :
             FillBuffer(h, "read", IF async THEN Async ELSE t, n)
        /\ IF "read" \in mask[s] THEN ToBatch(h) ELSE ToPending(h, 1)
        /\ IF async THEN UNCHANGED queue ELSE Suspend(t)
        /\ UNCHANGED <<mask, accepts>>

\* waitWrite and asyncWrite do not wait for the socket to be writable.
Write(t, s, async) ==
  LET h == <<s, "write">> IN
  /\ Asks(t)
  /\ \/ InUse(h) /\ Refused
     \/ /\ ~InUse(h)
        /\ \E n \in 1 .. MaxLen :
             FillBuffer(h, "write", IF async THEN Async ELSE t, n)
        /\ ToBatch(h)
        /\ IF async THEN UNCHANGED queue ELSE Suspend(t)
        /\ UNCHANGED <<mask, accepts>>

\* waitReadReady and waitWriteReady do not count the pending request.
WaitReady(t, s, kind) ==
  LET h == <<s, kind>> IN
  /\ Asks(t)
  /\ \/ (InUse(h) \/ kind \in mask[s]) /\ Refused
     \/ /\ ~InUse(h) /\ kind \notin mask[s]
        /\ Fill(h, "propBack", t)
        /\ ToPending(h, 0)
        /\ Suspend(t)
        /\ UNCHANGED <<mask, accepts>>

\* The socket is polled for input first if it is not yet; a listener that is
\* ready already is served before everything else in the batch.
WaitAccept(t, s) ==
  LET h == <<s, "read">> IN
  /\ Asks(t)
  /\ \/ InUse(h) /\ Refused
     \/ /\ ~InUse(h)
        /\ mask' = [mask EXCEPT ![s] = @ \cup {"accept"}]
        /\ Fill(h, "waitAccept", t)
        /\ IF "read" \in mask[s] THEN ToHead(h) ELSE ToPending(h, 1)
        /\ Suspend(t)
        /\ UNCHANGED accepts

\* connect() succeeds, is in progress, or fails; the header stays in use in the
\* last case.
WaitConnect(t, s) ==
  LET h == <<s, "write">> IN
  /\ Asks(t)
  /\ \/ Refused
     \/ /\ ~InUse(h)
        /\ Fill(h, "waitConnect", t)
        /\ ToBatch(h)
        /\ Suspend(t)
        /\ UNCHANGED <<mask, accepts>>
     \/ /\ ~InUse(h)
        /\ header' = [header EXCEPT ![h] =
                        [@ EXCEPT !.fresh = TRUE, !.failed = TRUE,
                                  !.action = "waitConnect"]]
        /\ UNCHANGED <<queue, mask, pending, batch, pendingReq, accepts>>

\* asyncConnect does not store the routine to run afterwards.
AsyncConnect(t, s) ==
  LET h == <<s, "read">> IN
  /\ Asks(t)
  /\ \/ InUse(h) /\ Refused
     \/ /\ ~InUse(h)
        /\ Fill(h, "asyncConnect", Async)
        /\ ToBatch(h)
        /\ UNCHANGED <<queue, mask, accepts>>

\* The reserve header stays fresh, and pendingReq counts the listener, until
\* asyncAccpetDone.
AsyncAccept(t, s) ==
  LET h == <<s, "reserve">> IN
  /\ Asks(t)
  /\ mask' = [mask EXCEPT ![s] = @ \cup {"accept"}]
  /\ Fill(h, "asyncAccept", header[h].entry)
  /\ pendingReq' = pendingReq + 1
  /\ accepts' = accepts + 1
  /\ batch' = IF "read" \in mask[s] THEN <<h>> \o batch ELSE batch
  /\ UNCHANGED <<queue, pending>>

AcceptDone(t) ==
  /\ Asks(t)
  /\ accepts > 0
  /\ accepts' = accepts - 1
  /\ pendingReq' = pendingReq - 1
  /\ UNCHANGED <<queue, header, mask, pending, batch>>

RunTask ==
  \E t \in Tasks :
    \/ Finish(t)
    \/ AcceptDone(t)
    \/ \E s \in Streams :
         \/ \E async \in BOOLEAN : Read(t, s, async) \/ Write(t, s, async)
         \/ \E kind \in {"read", "write"} : WaitReady(t, s, kind)
         \/ WaitConnect(t, s) \/ AsyncConnect(t, s)
    \/ \E s \in Listeners : WaitAccept(t, s) \/ AsyncAccept(t, s)

YieldDone ==
  /\ pc = "yield" /\ queue = << >>
  /\ pc' = IF batch # << >> THEN "consume"
           ELSE IF exit THEN "returned" ELSE "wake"
  /\ UNCHANGED <<queue, requests, events, exit, io, progress>>

-----------------------------------------------------------------------------
(***************************************************************************)
(* consumeBatch: get, action, push of the entry, pop; count is not         *)
(* decremented, so get is called again on the empty batch.                 *)
(***************************************************************************)
Current == Head(batch)
Serving(actions) ==
  /\ pc = "consume"
  /\ batch # << >> /\ header[Current].action \in actions

Deliver(h) ==
  /\ queue' = Append(queue, h.entry)
  /\ header' = [header EXCEPT ![Current] = h]
  /\ batch' = Tail(batch)
  /\ pc' = "consume"

GetNothing ==
  /\ pc = "consume" /\ batch = << >>
  /\ pc' = "crashed"
  /\ UNCHANGED <<queue, requests, events, exit, io, progress>>

\* propBack clears the bit it waited for.
PropBack ==
  /\ Serving({"propBack"})
  /\ Deliver([header[Current] EXCEPT !.fresh = FALSE])
  /\ mask' = [mask EXCEPT ![Current[1]] = @ \ {Current[2]}]
  /\ UNCHANGED <<pending, pendingReq, accepts, events, exit, io, progress>>

\* waitConnect clears the flag whatever getsockopt reports.
ServeConnect ==
  /\ Serving({"waitConnect"})
  /\ Deliver([header[Current] EXCEPT !.fresh = FALSE])
  /\ UNCHANGED <<mask, pending, pendingReq, accepts, events, exit, io, progress>>

\* waitAccept and the asyncAccept actions leave the flag as it is.
ServeAccept ==
  /\ Serving({"waitAccept", "asyncAccept"})
  /\ Deliver(IF Current[2] = "reserve"
             THEN [header[Current] EXCEPT !.entry = Async] ELSE header[Current])
  /\ UNCHANGED <<mask, pending, pendingReq, accepts, events, exit, io, progress>>

\* action::asyncConnect calls the routine that was never stored.
CallUnset ==
  /\ Serving({"asyncConnect"})
  /\ pc' = "wild"
  /\ UNCHANGED <<queue, requests, events, exit, io, progress>>

\* len is read whole.  Its upper half is that of the count the last transfer
\* left there, and before the first one whatever the memory held.
StreamStart ==
  /\ Serving({"read", "write"})
  /\ \E up \in IF header[Current].written THEN {header[Current].high} ELSE Uppers :
       io' = [NoIo EXCEPT !.upper = up,
                          !.reserved = up * Word + header[Current].low]
  /\ pc' = "stream"
  /\ UNCHANGED <<queue, requests, events, exit, progress>>

\* Mutant: the room that is left is not reduced.
AdvanceCursor(n) == [io EXCEPT !.cursor = n, !.total = @ + n]

\* The system call moves n bytes and the buffer is not full (empty) yet: the
\* cursor is set to n bytes behind the start of the buffer.
Advance(n) ==
  [io EXCEPT !.cursor = n, !.reserved = @ - n, !.total = @ + n]

MoveSome(n) ==
  /\ pc = "stream"
  /\ n < io.reserved
  /\ io' = Advance(n)
  /\ UNCHANGED <<pc, queue, requests, events, exit, progress>>

\* len becomes the cursor, which the last chunk has not moved.
StreamEnd(total, again) ==
  /\ pc = "stream"
  /\ Deliver([header[Current] EXCEPT !.fresh = FALSE, !.written = TRUE,
                                      !.low = io.cursor % Word,
                                      !.high = io.cursor \div Word])
  /\ io' = [io EXCEPT !.total = total]
  /\ mask' = IF again THEN [mask EXCEPT ![Current[1]] = @ \ {Current[2]}]
                      ELSE mask
  /\ UNCHANGED <<pending, pendingReq, accepts, events, exit, progress>>

\* All bytes are moved.
MoveAll == io.reserved > 0 /\ StreamEnd(io.total + io.reserved, FALSE)

\* End of file or an error; EAGAIN clears the bit in rwmask.
MoveNone == \E again \in BOOLEAN : StreamEnd(io.total, again)

Stream == MoveAll \/ MoveNone \/ \E n \in 1 .. io.reserved : MoveSome(n)

Consume ==
  \/ GetNothing \/ PropBack \/ ServeConnect \/ ServeAccept \/ CallUnset
  \/ StreamStart

-----------------------------------------------------------------------------
Times(x, s) == Cardinality({i \in DOMAIN s : s[i] = x})

\* The batch is linked through its headers.  A reserve header stays fresh, so
\* it can be pushed while it is in the batch; the list is corrupt then and the
\* model stops.
Linkable == \A s \in Socks : Times(<<s, "reserve">>, batch) <= 1

Step ==
  \/ Wake \/ Interrupted \/ (\E s \in Socks : ProcessEvent(s)) \/ EventsDone
  \/ RunTask \/ YieldDone \/ Consume \/ Stream

Next == Linkable /\ Step

Spec == Init /\ [][Next]_vars

-----------------------------------------------------------------------------
(***************************************************************************)
(* Properties                                                              *)
(***************************************************************************)
Homes(h) == Times(h, batch) + Cardinality(pending \cap {h})

\* A read or write header is registered at most once, as pending or in the
\* batch, so that the circular list of the batch is never linked twice through
\* one header; before the batch is consumed it is registered exactly when it is
\* in use (or its connect failed).
RequestHomed ==
  \A h \in Headers :
    h[2] # "reserve" =>
      /\ Homes(h) <= 1
      /\ pc \in {"wake", "events", "yield"} =>
           (Homes(h) = 1 <=> header[h].fresh /\ ~header[h].failed)

\* A task is ready, finished, or waits for exactly one registered request.
TaskHomed ==
  \A t \in Tasks :
    Times(t, queue) + Cardinality(done \cap {t})
      + Cardinality({h \in Headers : Homes(h) > 0 /\ header[h].entry = t}) = 1

\* The loop never waits for a socket nobody waits for: pendingReq does not
\* exceed the requests that are pending and the listeners not given up.
NoPhantomPending == pendingReq <= Cardinality(pending) + accepts

\* A read or write that takes a zero for the upper half of its length stays in
\* the caller's buffer, although the cursor is set back to the last chunk after
\* a partial transfer.
StreamInBuffer ==
  pc = "stream" /\ io.upper = 0 =>
    io.cursor + io.reserved <= header[Current].size
=============================================================================
