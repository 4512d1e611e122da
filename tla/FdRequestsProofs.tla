--------------------------- MODULE FdRequestsProofs ---------------------------
(***************************************************************************)
(* Theorems about FdRequests for any number of sockets, tasks and requests *)
(* and any size of the buffers: no request is registered twice or lost, a  *)
(* task waits for one of them at most, the loop waits for no phantom, and  *)
(* transfers stay in their buffers.                                        *)
(***************************************************************************)
EXTENDS FdRequests, FiniteSetTheorems, SequenceTheorems, TLAPS

-----------------------------------------------------------------------------
(***************************************************************************)
(* The inductive invariant                                                 *)
(***************************************************************************)
Requests == Socks \X {"read", "write"}
Entries == Tasks \cup {Async}
Actions == {"none", "read", "write", "propBack", "waitConnect", "waitAccept",
            "asyncConnect", "asyncAccept"}
HeaderStates == [fresh : BOOLEAN, action : Actions, entry : Entries,
                 failed : BOOLEAN, low : Nat, high : Int, written : BOOLEAN,
                 size : Nat]
Transfers == [cursor : Nat, reserved : Int, total : Nat, upper : Int]
Masks == {"read", "write", "accept"}
Phases == {"wake", "events", "yield"}

TypeInv ==
  /\ pc \in Phases \cup {"consume", "stream", "crashed", "wild", "returned"}
  /\ queue \in Seq(Entries)
  /\ header \in [Headers -> HeaderStates]
  /\ mask \in [Socks -> SUBSET Masks]
  /\ events \in [Socks -> SUBSET {"in", "out"}]
  /\ pending \in SUBSET Requests /\ IsFiniteSet(pending)
  /\ batch \in Seq(Headers)
  /\ pendingReq \in Int /\ exit \in BOOLEAN /\ accepts \in Nat
  /\ io \in Transfers
  /\ done \in SUBSET Tasks /\ fuel \in [Tasks -> Nat]

In(x, s) == \E i \in DOMAIN s : s[i] = x
Distinct(s, P) == \A i, j \in DOMAIN s : s[i] = s[j] /\ s[i] \in P => i = j

Registered(h) == h \in pending \/ In(h, batch)

\* A read or write header has one place in one of the two.
BatchInv ==
  /\ Distinct(batch, Requests)
  /\ \A h \in pending : ~In(h, batch)

\* Until the batch is consumed the flag of a header says that it has one.
UseInv ==
  pc \in Phases =>
    \A h \in Requests : Registered(h) <=> header[h].fresh /\ ~header[h].failed

\* TaskHomed, place by place.  What keeps a reserve header out of it is that
\* its entry belongs to no task.
WaitInv ==
  /\ Distinct(queue, Tasks)
  /\ \A t \in Tasks : In(t, queue) => t \notin done
  /\ \A g, h \in Headers :
       /\ Registered(g) /\ Registered(h)
       /\ header[g].entry = header[h].entry /\ header[g].entry \in Tasks
       => g = h
  /\ \A h \in Headers : Registered(h) /\ header[h].entry \in Tasks =>
       ~In(header[h].entry, queue) /\ header[h].entry \notin done
  /\ \A t \in Tasks :
       \/ In(t, queue) \/ t \in done
       \/ \E h \in Headers : Registered(h) /\ header[h].entry = t
  /\ \A s \in Socks : header[<<s, "reserve">>].entry = Async

StreamInv ==
  pc = "stream" => /\ batch # << >>
                   /\ io.upper = 0 =>
                        io.cursor + io.reserved <= header[Current].size

\* The length in the header of a transfer to come is cut off, never lengthened.
Fits(x) == x.action \in {"read", "write"} => x.low <= x.size

LengthInv ==
  /\ \A h \in Requests : Registered(h) => Fits(header[h])
  /\ \A s \in Socks : header[<<s, "reserve">>].action \notin {"read", "write"}

RequestInv ==
  /\ TypeInv /\ BatchInv /\ UseInv /\ WaitInv /\ NoPhantomPending
  /\ StreamInv /\ LengthInv

-----------------------------------------------------------------------------
(***************************************************************************)
(* Sequences as the places of their elements                               *)
(***************************************************************************)
LEMMA Joined ==
  ASSUME NEW S, NEW s \in Seq(S), NEW u \in Seq(S)
  PROVE  /\ s \o u \in Seq(S)
         /\ \A x : In(x, s \o u) <=> In(x, s) \/ In(x, u)
         /\ \A P : /\ Distinct(s, P) /\ Distinct(u, P)
                   /\ \A x \in P : ~(In(x, s) /\ In(x, u))
                   => Distinct(s \o u, P)
<1> DEFINE w == s \o u  m == Len(s)  n == Len(u)
<1>1. /\ w \in Seq(S) /\ m \in Nat /\ n \in Nat
      /\ DOMAIN w = 1 .. m + n /\ DOMAIN s = 1 .. m /\ DOMAIN u = 1 .. n
      /\ \A i \in 1 .. m + n : w[i] = IF i <= m THEN s[i] ELSE u[i - m]
  <2>1. w \in Seq(S) /\ m \in Nat /\ n \in Nat /\ Len(w) = m + n
        /\ \A i \in 1 .. m + n : w[i] = IF i <= m THEN s[i] ELSE u[i - m]
    BY ConcatProperties, LenProperties
  <2> QED BY <2>1, LenProperties
<1> HIDE DEF w, m, n
<1>2. ASSUME NEW x PROVE In(x, w) <=> In(x, s) \/ In(x, u)
  <2>1. ASSUME NEW i \in 1 .. m + n, w[i] = x PROVE In(x, s) \/ In(x, u)
    <3>1. CASE i <= m
      BY <1>1, <2>1, <3>1 DEF In
    <3>2. CASE ~(i <= m)
      <4>1. i - m \in 1 .. n
        BY <1>1, <3>2
      <4> QED BY <1>1, <2>1, <3>2, <4>1 DEF In
    <3> QED BY <3>1, <3>2
  <2>2. ASSUME NEW i \in 1 .. m, s[i] = x PROVE In(x, w)
    <3>1. i \in 1 .. m + n /\ w[i] = x
      BY <1>1, <2>2
    <3> QED BY <1>1, <3>1 DEF In
  <2>3. ASSUME NEW i \in 1 .. n, u[i] = x PROVE In(x, w)
    <3>1. i + m \in 1 .. m + n /\ ~(i + m <= m) /\ (i + m) - m = i
      BY <1>1
    <3>2. w[i + m] = x
      BY <1>1, <2>3, <3>1
    <3> QED BY <1>1, <3>1, <3>2 DEF In
  <2> QED BY <1>1, <2>1, <2>2, <2>3 DEF In
<1>3. ASSUME NEW P, Distinct(s, P), Distinct(u, P),
             \A x \in P : ~(In(x, s) /\ In(x, u))
      PROVE  Distinct(w, P)
  <2> SUFFICES ASSUME NEW i \in 1 .. m + n, NEW j \in 1 .. m + n,
                      w[i] = w[j], w[i] \in P
               PROVE  i = j
    BY <1>1 DEF Distinct
  <2>1. CASE i <= m /\ j <= m
    BY <1>1, <1>3, <2>1 DEF Distinct
  <2>2. CASE ~(i <= m) /\ ~(j <= m)
    <3>1. i - m \in 1 .. n /\ j - m \in 1 .. n
      BY <1>1, <2>2
    <3>2. u[i - m] = u[j - m] /\ u[i - m] \in P
      BY <1>1, <2>2
    <3>3. i - m = j - m
      BY <1>1, <1>3, <3>1, <3>2 DEF Distinct
    <3> QED BY <1>1, <3>3
  <2>3. CASE i <= m /\ ~(j <= m)
    <3>1. i \in 1 .. m /\ j - m \in 1 .. n
      BY <1>1, <2>3
    <3>2. In(w[i], s) /\ In(w[i], u)
      BY <1>1, <2>3, <3>1 DEF In
    <3> QED BY <1>3, <3>2
  <2>4. CASE ~(i <= m) /\ j <= m
    <3>1. j \in 1 .. m /\ i - m \in 1 .. n
      BY <1>1, <2>4
    <3>2. In(w[i], s) /\ In(w[i], u)
      BY <1>1, <2>4, <3>1 DEF In
    <3> QED BY <1>3, <3>2
  <2> QED BY <2>1, <2>2, <2>3, <2>4
<1> QED BY <1>1, <1>2, <1>3 DEF w

\* A sequence of one element.
LEMMA Single ==
  ASSUME NEW S, NEW x \in S
  PROVE  /\ <<x>> \in Seq(S)
         /\ \A y : In(y, <<x>>) <=> y = x
         /\ \A P : Distinct(<<x>>, P)
BY DEF In, Distinct

\* The empty sequence.
LEMMA Nothing ==
  ASSUME NEW S
  PROVE  /\ << >> \in Seq(S)
         /\ \A y : ~In(y, << >>)
         /\ \A P : Distinct(<< >>, P)
BY DEF In, Distinct

\* An element more, first or last.
LEMMA Added ==
  ASSUME NEW S, NEW s \in Seq(S), NEW x \in S, NEW u,
         u = Append(s, x) \/ u = <<x>> \o s
  PROVE  /\ u \in Seq(S)
         /\ \A y : In(y, u) <=> In(y, s) \/ y = x
         /\ \A P : Distinct(s, P) /\ (x \in P => ~In(x, s)) => Distinct(u, P)
<1>1. Append(s, x) = s \o <<x>>
  BY AppendIsConcat
<1>2. /\ <<x>> \in Seq(S) /\ \A y : In(y, <<x>>) <=> y = x
      /\ \A P : Distinct(<<x>>, P)
  BY Single
<1> DEFINE Facts(v, w) ==
       /\ u \in Seq(S)
       /\ \A y : In(y, u) <=> In(y, v) \/ In(y, w)
       /\ \A P : /\ Distinct(v, P) /\ Distinct(w, P)
                 /\ \A y \in P : ~(In(y, v) /\ In(y, w))
                 => Distinct(u, P)
<1>3. Facts(s, <<x>>) \/ Facts(<<x>>, s)
  <2>1. CASE u = s \o <<x>>
    BY <1>2, <2>1, Joined
  <2>2. CASE u = <<x>> \o s
    BY <1>2, <2>2, Joined
  <2> QED BY <1>1, <2>1, <2>2
<1>4. u \in Seq(S) /\ \A y : In(y, u) <=> In(y, s) \/ y = x
  BY <1>2, <1>3
<1>5. ASSUME NEW P, Distinct(s, P), x \in P => ~In(x, s)
      PROVE  Distinct(u, P)
  <2>1. \A y \in P : ~(In(y, s) /\ In(y, <<x>>))
    BY <1>2, <1>5
  <2>2. Distinct(<<x>>, P)
    BY <1>2
  <2> QED BY <1>3, <1>5, <2>1, <2>2
<1> QED BY <1>4, <1>5

\* The first element less.
LEMMA Removed ==
  ASSUME NEW S, NEW s \in Seq(S), s # << >>
  PROVE  /\ Tail(s) \in Seq(S) /\ Head(s) \in S /\ In(Head(s), s)
         /\ \A y : In(y, s) <=> In(y, Tail(s)) \/ y = Head(s)
         /\ \A P : Distinct(s, P) =>
              /\ Distinct(Tail(s), P)
              /\ Head(s) \in P => ~In(Head(s), Tail(s))
<1> DEFINE w == Tail(s)  n == Len(s)
<1>1. /\ w \in Seq(S) /\ Head(s) = s[1] /\ Head(s) \in S /\ n \in Nat /\ n > 0
      /\ DOMAIN s = 1 .. n /\ DOMAIN w = 1 .. n - 1
      /\ \A i \in 1 .. n - 1 : w[i] = s[i + 1]
  <2>1. w \in Seq(S) /\ Head(s) \in S /\ Len(w) = n - 1
        /\ \A i \in 1 .. Len(w) : w[i] = s[i + 1]
    BY HeadTailProperties
  <2>2. n \in Nat /\ n > 0
    BY EmptySeq, LenProperties
  <2> QED BY <2>1, <2>2, LenProperties
<1> HIDE DEF w, n
<1>2. In(Head(s), s)
  BY <1>1 DEF In
<1>3. ASSUME NEW y PROVE In(y, s) <=> In(y, w) \/ y = Head(s)
  <2>1. ASSUME NEW i \in 1 .. n, s[i] = y, i # 1 PROVE In(y, w)
    <3>1. i - 1 \in 1 .. n - 1 /\ (i - 1) + 1 = i
      BY <1>1, <2>1
    <3>2. w[i - 1] = y
      BY <1>1, <2>1, <3>1
    <3> QED BY <1>1, <3>1, <3>2 DEF In
  <2>2. ASSUME NEW i \in 1 .. n - 1, w[i] = y PROVE In(y, s)
    <3>1. i + 1 \in 1 .. n /\ s[i + 1] = y
      BY <1>1, <2>2
    <3> QED BY <1>1, <3>1 DEF In
  <2> QED BY <1>1, <1>2, <2>1, <2>2 DEF In
<1>4. ASSUME NEW P, Distinct(s, P)
      PROVE  Distinct(w, P) /\ (Head(s) \in P => ~In(Head(s), w))
  <2>1. ASSUME NEW i \in 1 .. n - 1, NEW j \in 1 .. n - 1, w[i] = w[j], w[i] \in P
        PROVE  i = j
    <3>1. i + 1 \in 1 .. n /\ j + 1 \in 1 .. n
      BY <1>1
    <3>2. i + 1 = j + 1
      BY <1>1, <1>4, <2>1, <3>1 DEF Distinct
    <3> QED BY <1>1, <3>2
  <2>2. ASSUME NEW i \in 1 .. n - 1, w[i] = Head(s), Head(s) \in P
        PROVE  FALSE
    <3>1. i + 1 \in 1 .. n /\ 1 \in 1 .. n /\ i + 1 # 1
      BY <1>1
    <3> QED BY <1>1, <1>4, <2>2, <3>1 DEF Distinct
  <2> QED BY <1>1, <2>1, <2>2 DEF Distinct, In
<1> QED BY <1>1, <1>2, <1>3, <1>4 DEF w

\* The cardinality of a set that is empty or has one element.
LEMMA Small ==
  ASSUME NEW T, IsFiniteSet(T)
  PROVE  /\ Cardinality(T) \in Nat
         /\ Cardinality(T) > 0 <=> \E x : x \in T
         /\ (\A x, y \in T : x = y) => Cardinality(T) <= 1
<1>1. Cardinality(T) \in Nat /\ (Cardinality(T) = 0 <=> T = {})
  BY FS_CardinalityType, FS_EmptySet
<1>2. ASSUME \A x, y \in T : x = y PROVE Cardinality(T) <= 1
  <2>1. CASE T = {}
    BY <1>1, <2>1
  <2>2. CASE T # {}
    <3>1. PICK x \in T : TRUE
      BY <2>2
    <3>2. T = {x}
      BY <1>2, <3>1
    <3>3. Cardinality({x}) = 1
      BY FS_Singleton
    <3> QED BY <3>2, <3>3
  <2> QED BY <2>1, <2>2
<1> QED BY <1>1, <1>2

\* An element that is in a sequence at most once is counted 0 or 1 times.
LEMMA Counted ==
  ASSUME NEW S, NEW s \in Seq(S), NEW x
  PROVE  /\ Times(x, s) \in Nat
         /\ Times(x, s) > 0 <=> In(x, s)
         /\ \A P : Distinct(s, P) /\ x \in P => Times(x, s) <= 1
<1> DEFINE I == {i \in DOMAIN s : s[i] = x}
<1>1. IsFiniteSet(I)
  <2>1. DOMAIN s = 1 .. Len(s) /\ Len(s) \in Nat
    BY LenProperties
  <2>2. IsFiniteSet(DOMAIN s)
    BY <2>1, FS_Interval
  <2> QED BY <2>2, FS_Subset
<1>2. (\E i : i \in I) <=> In(x, s)
  BY DEF In
<1>3. ASSUME NEW P, Distinct(s, P), x \in P PROVE \A i, j \in I : i = j
  BY <1>3 DEF Distinct
<1> HIDE DEF I
<1>4. /\ Cardinality(I) \in Nat
      /\ Cardinality(I) > 0 <=> In(x, s)
      /\ \A P : Distinct(s, P) /\ x \in P => Cardinality(I) <= 1
  BY <1>1, <1>2, <1>3, Small
<1> QED BY <1>4 DEF Times, I

-----------------------------------------------------------------------------
(***************************************************************************)
(* Type correctness                                                        *)
(***************************************************************************)
LEMMA Kinds ==
  /\ Requests \subseteq Headers
  /\ \A h \in Headers : h[1] \in Socks /\ (h \notin Requests <=> h[2] = "reserve")
  /\ \A s \in Socks : /\ <<s, "read">> \in Requests /\ <<s, "write">> \in Requests
                       /\ <<s, "reserve">> \in Headers
                       /\ <<s, "reserve">> \notin Requests
BY DEF Headers, Requests

\* A header that was reset is typed.
LEMMA IdleType == Idle \in HeaderStates /\ NoIo \in Transfers
BY DEF Idle, NoIo, HeaderStates, Actions, Entries, Transfers

\* What a socklen_t keeps of a length is a length and not a larger one.
LEMMA CutOff ==
  ASSUME NEW n \in Nat
  PROVE  n % Word \in Nat /\ n % Word <= n /\ n \div Word \in Int
<1>1. Word \in Nat \ {0}
  BY RequestAssumption
<1> QED BY <1>1

\* The lengths stay as they are when no request is registered or filled.
LEMMA SameLengths ==
  ASSUME LengthInv, header' = header,
         \A h \in Requests : Registered(h)' => Registered(h)
  PROVE  LengthInv'
BY DEF LengthInv, Fits

\* A sequence without repetitions is as long as the set of its elements is large.
LEMMA Ranged ==
  ASSUME NEW S, NEW s \in Seq(S), Distinct(s, S)
  PROVE  LET T == {s[i] : i \in DOMAIN s} IN
         IsFiniteSet(T) /\ Cardinality(T) = Len(s) /\ \A x : x \in T <=> In(x, s)
<1> DEFINE T == {s[i] : i \in DOMAIN s}
<1>1. DOMAIN s = 1 .. Len(s) /\ Len(s) \in Nat /\ s \in [1 .. Len(s) -> S]
  BY LenProperties
<1>2. s \in Surjection(1 .. Len(s), T)
  BY <1>1 DEF Surjection
<1>3. s \in Injection(1 .. Len(s), T)
  BY <1>1, <1>2 DEF Injection, IsInjective, Surjection, Distinct
<1>4. IsFiniteSet(1 .. Len(s)) /\ Cardinality(1 .. Len(s)) = Len(s)
  BY <1>1, FS_Interval
<1>5. IsFiniteSet(T) /\ Cardinality(T) = Len(s)
  BY <1>2, <1>3, <1>4, FS_Surjection
<1> QED BY <1>5 DEF In

\* What the table hands to the batch for a socket.
LEMMA Asked ==
  ASSUME NEW s \in Socks, NEW kind \in {"read", "write"}
  PROVE  LET Q == Request(s, kind) IN
         /\ Q \in Seq(Requests) /\ Distinct(Q, Requests)
         /\ \A h : In(h, Q) => h = <<s, kind>> /\ h \in pending
<1> DEFINE h == <<s, kind>>
<1>1. h \in Requests
  BY DEF Requests
<1>2. CASE h \in pending /\ \E e \in events[s] : Bit(e) = kind
  <2>1. Request(s, kind) = <<h>>
    BY <1>2 DEF Request
  <2> HIDE DEF h
  <2>2. /\ <<h>> \in Seq(Requests) /\ Distinct(<<h>>, Requests)
        /\ \A y : In(y, <<h>>) <=> y = h
    BY <1>1, Single
  <2> QED BY <1>2, <2>1, <2>2 DEF h
<1>3. CASE ~(h \in pending /\ \E e \in events[s] : Bit(e) = kind)
  <2>1. Request(s, kind) = << >>
    BY <1>3 DEF Request
  <2> QED BY <2>1, Nothing
<1> QED BY <1>2, <1>3

\* The sequences of headers that an event appends to the batch.
LEMMA Answers ==
  ASSUME TypeInv, NEW s \in Socks
  PROVE  LET A == Answered(s)
             T == {A[i] : i \in DOMAIN A}
         IN  /\ A \in Seq(Requests) /\ Distinct(A, Requests)
             /\ \A h : In(h, A) => h \in Requests /\ h \in pending
             /\ IsFiniteSet(T) /\ Cardinality(T) = Len(A)
             /\ \A h : h \in T <=> In(h, A)
             /\ Reserve(s) \in Seq(Headers)
             /\ \A h : In(h, Reserve(s)) => h = <<s, "reserve">>
<1> DEFINE Q == Request(s, "read")  W == Request(s, "write")  A == Answered(s)
<1>1. /\ Q \in Seq(Requests) /\ Distinct(Q, Requests)
      /\ W \in Seq(Requests) /\ Distinct(W, Requests)
      /\ \A h : In(h, Q) => h = <<s, "read">> /\ h \in pending
      /\ \A h : In(h, W) => h = <<s, "write">> /\ h \in pending
  BY Asked
<1>2. A = Q \o W
  BY DEF Answered
<1>3. \A h : ~(In(h, Q) /\ In(h, W))
  BY <1>1
<1> HIDE DEF Q, W, A
<1>4. A \in Seq(Requests) /\ \A h : In(h, A) <=> In(h, Q) \/ In(h, W)
  BY <1>1, <1>2, Joined
<1>5. Distinct(A, Requests)
  BY <1>1, <1>2, <1>3, Joined
<1>6. \A h : In(h, A) => h \in Requests /\ h \in pending
  BY <1>1, <1>4, Kinds
<1>7. Reserve(s) \in Seq(Headers) /\ \A h : In(h, Reserve(s)) => h = <<s, "reserve">>
  <2>1. CASE header[<<s, "reserve">>].fresh
    <3>1. Reserve(s) = << <<s, "reserve">> >>
      BY <2>1 DEF Reserve
    <3>2. PICK v \in Headers : v = <<s, "reserve">>
      BY Kinds
    <3>3. <<v>> \in Seq(Headers) /\ \A h : In(h, <<v>>) => h = v
      BY Single
    <3> QED BY <3>1, <3>2, <3>3
  <2>2. CASE ~header[<<s, "reserve">>].fresh
    <3>1. Reserve(s) = << >>
      BY <2>2 DEF Reserve
    <3> QED BY <3>1, Nothing
  <2> QED BY <2>1, <2>2
<1>8. LET T == {A[i] : i \in DOMAIN A} IN
      IsFiniteSet(T) /\ Cardinality(T) = Len(A) /\ \A h : h \in T <=> In(h, A)
  BY <1>4, <1>5, Ranged
<1> QED BY <1>4, <1>5, <1>6, <1>7, <1>8 DEF A

-----------------------------------------------------------------------------
(***************************************************************************)
(* A task makes a request                                                  *)
(***************************************************************************)
\* Header h gets a place, and a task that waits leaves the run queue.
Registers(t, h, x) ==
  /\ pc = "yield" /\ queue # << >> /\ t = Head(queue)
  /\ ~header[h].fresh /\ x.fresh /\ ~x.failed /\ Fits(x)
  /\ header' = [header EXCEPT ![h] = x]
  /\ \/ x.entry = t /\ queue' = Tail(queue)
     \/ x.entry = Async /\ queue' = queue
  /\ \/ /\ batch' = Append(batch, h) \/ batch' = <<h>> \o batch
        /\ pending' = pending /\ pendingReq' = pendingReq
     \/ /\ pending' = pending \cup {h} /\ batch' = batch
        /\ pendingReq' \in {pendingReq, pendingReq + 1}
  /\ mask' \in [Socks -> SUBSET Masks] /\ fuel' \in [Tasks -> Nat]
  /\ UNCHANGED <<pc, io, events, exit, done, accepts>>

\* A coroutine registers its entry with a free header.
LEMMA RegistersKeeps ==
  ASSUME RequestInv, NEW t \in Tasks, NEW h \in Requests, NEW x \in HeaderStates,
         Registers(t, h, x)
  PROVE  RequestInv'
<1>1. /\ h \in Headers /\ header \in [Headers -> HeaderStates]
      /\ header'[h] = x /\ \A g \in Headers : g # h => header'[g] = header[g]
      /\ pending \subseteq Requests /\ Requests \subseteq Headers
      /\ t # Async
  BY Kinds, RequestAssumption DEF RequestInv, TypeInv, Registers
<1>2. ~Registered(h)
  BY DEF RequestInv, UseInv, Registers, Phases
<1>3. h \notin pending /\ ~In(h, batch)
  BY <1>2 DEF Registered
<1>4. /\ batch' \in Seq(Headers) /\ Distinct(batch', Requests)
      /\ pending' \subseteq Requests /\ IsFiniteSet(pending')
      /\ \A g \in pending' : ~In(g, batch')
      /\ \A g : Registered(g)' <=> Registered(g) \/ g = h
      /\ pendingReq' \in Int /\ pendingReq' <= Cardinality(pending') + accepts
  <2>0. /\ batch \in Seq(Headers) /\ Distinct(batch, Requests)
        /\ \A g \in pending : ~In(g, batch)
        /\ pendingReq \in Int /\ accepts \in Nat /\ IsFiniteSet(pending)
        /\ pendingReq <= Cardinality(pending) + accepts
        /\ Cardinality(pending) \in Nat
    BY FS_CardinalityType DEF RequestInv, TypeInv, BatchInv, NoPhantomPending
  <2>1. CASE /\ batch' = Append(batch, h) \/ batch' = <<h>> \o batch
             /\ pending' = pending /\ pendingReq' = pendingReq
    <3>1. /\ batch' \in Seq(Headers)
          /\ \A y : In(y, batch') <=> In(y, batch) \/ y = h
          /\ \A P : Distinct(batch, P) /\ (h \in P => ~In(h, batch))
                 => Distinct(batch', P)
      BY <1>1, <2>0, <2>1, Added
    <3>2. Distinct(batch', Requests)
      BY <1>3, <2>0, <3>1
    <3>3. \A g : Registered(g)' <=> Registered(g) \/ g = h
      BY <2>1, <3>1 DEF Registered
    <3> QED BY <1>1, <1>3, <2>0, <2>1, <3>1, <3>2, <3>3
  <2>2. CASE /\ pending' = pending \cup {h} /\ batch' = batch
             /\ pendingReq' \in {pendingReq, pendingReq + 1}
    <3>1. IsFiniteSet(pending') /\ Cardinality(pending') = Cardinality(pending) + 1
      BY <1>3, <2>0, <2>2, FS_AddElement
    <3>2. \A g : Registered(g)' <=> Registered(g) \/ g = h
      BY <2>2 DEF Registered
    <3> QED BY <1>1, <1>3, <2>0, <2>2, <3>1, <3>2
  <2> QED BY <2>1, <2>2 DEF Registers
<1>5. /\ queue' \in Seq(Entries) /\ Distinct(queue', Tasks)
      /\ \A u \in Tasks : In(u, queue') <=> In(u, queue) /\ u # x.entry
      /\ x.entry = t \/ x.entry = Async
      /\ In(t, queue)
  <2>1. queue \in Seq(Entries) /\ queue # << >> /\ t = Head(queue)
        /\ Distinct(queue, Tasks)
    BY DEF RequestInv, TypeInv, WaitInv, Registers
  <2>2. /\ Tail(queue) \in Seq(Entries) /\ In(t, queue)
        /\ \A y : In(y, queue) <=> In(y, Tail(queue)) \/ y = t
        /\ Distinct(Tail(queue), Tasks) /\ ~In(t, Tail(queue))
    BY <2>1, Removed
  <2>3. CASE x.entry = t /\ queue' = Tail(queue)
    BY <2>2, <2>3
  <2>4. CASE x.entry = Async /\ queue' = queue
    BY <2>1, <2>2, <2>4, RequestAssumption
  <2> QED BY <2>3, <2>4 DEF Registers
<1>6. TypeInv'
  <2>1. header' \in [Headers -> HeaderStates]
    BY <1>1 DEF Registers
  <2> QED BY <1>4, <1>5, <2>1 DEF RequestInv, TypeInv, Registers
<1>7. UseInv'
  <2> SUFFICES ASSUME NEW g \in Requests
               PROVE  Registered(g)' <=> header'[g].fresh /\ ~header'[g].failed
    BY DEF UseInv
  <2>1. CASE g = h
    BY <1>1, <1>4, <2>1 DEF Registers
  <2>2. CASE g # h
    BY <1>1, <1>4, <2>2 DEF Registers, RequestInv, UseInv, Phases
  <2> QED BY <2>1, <2>2
<1>8. WaitInv'
  <2>0. done' = done
    BY DEF Registers
  <2>1. In(t, queue) /\ t \notin done
        /\ \A g \in Headers : Registered(g) => header[g].entry # t
    BY <1>5 DEF RequestInv, WaitInv
  <2>2. \A u \in Tasks : In(u, queue') => u \notin done'
    BY <1>5, <2>0 DEF RequestInv, WaitInv
  <2>3. ASSUME NEW f \in Headers, NEW g \in Headers, Registered(f)', Registered(g)',
               header'[f].entry = header'[g].entry, header'[f].entry \in Tasks
        PROVE  f = g
    <3>1. CASE f # h /\ g # h
      BY <1>1, <1>4, <2>3, <3>1 DEF RequestInv, WaitInv
    <3>2. CASE f = h /\ g # h
      BY <1>1, <1>4, <1>5, <2>1, <2>3, <3>2, RequestAssumption
    <3>3. CASE f # h /\ g = h
      BY <1>1, <1>4, <1>5, <2>1, <2>3, <3>3, RequestAssumption
    <3> QED BY <3>1, <3>2, <3>3
  <2>4. ASSUME NEW g \in Headers, Registered(g)', header'[g].entry \in Tasks
        PROVE  ~In(header'[g].entry, queue') /\ header'[g].entry \notin done'
    <3>1. CASE g = h
      BY <1>1, <1>5, <2>0, <2>1, <2>4, <3>1, RequestAssumption
    <3>2. CASE g # h
      BY <1>1, <1>4, <1>5, <2>0, <2>4, <3>2 DEF RequestInv, WaitInv
    <3> QED BY <3>1, <3>2
  <2>5. ASSUME NEW u \in Tasks
        PROVE  \/ In(u, queue') \/ u \in done'
               \/ \E g \in Headers : Registered(g)' /\ header'[g].entry = u
    <3>1. CASE u = x.entry
      BY <1>1, <1>4, <3>1
    <3>2. CASE u # x.entry /\ In(u, queue)
      BY <1>5, <3>2
    <3>3. CASE u \in done
      BY <2>0, <3>3
    <3>4. CASE \E g \in Headers : Registered(g) /\ header[g].entry = u
      BY <1>1, <1>2, <1>4, <3>4
    <3> QED BY <3>1, <3>2, <3>3, <3>4 DEF RequestInv, WaitInv
  <2>6. ASSUME NEW s \in Socks PROVE header'[<<s, "reserve">>].entry = Async
    <3>1. <<s, "reserve">> \in Headers /\ <<s, "reserve">> # h
      BY Kinds
    <3>2. header[<<s, "reserve">>].entry = Async
      BY DEF RequestInv, WaitInv
    <3> QED BY <1>1, <3>1, <3>2
  <2> QED BY <1>5, <2>2, <2>3, <2>4, <2>5, <2>6 DEF WaitInv
<1>9. BatchInv' /\ NoPhantomPending' /\ StreamInv'
  BY <1>4 DEF BatchInv, NoPhantomPending, StreamInv, Registers
<1>10. LengthInv'
  <2>1. ASSUME NEW g \in Requests, Registered(g)' PROVE Fits(header'[g])
    <3>1. CASE g = h
      BY <1>1, <3>1 DEF Registers
    <3>2. CASE g # h
      BY <1>1, <1>4, <2>1, <3>2 DEF RequestInv, LengthInv
    <3> QED BY <3>1, <3>2
  <2>2. ASSUME NEW s \in Socks
        PROVE  header'[<<s, "reserve">>].action \notin {"read", "write"}
    <3>1. <<s, "reserve">> \in Headers /\ <<s, "reserve">> # h
      BY Kinds
    <3>2. header[<<s, "reserve">>].action \notin {"read", "write"}
      BY DEF RequestInv, LengthInv
    <3> QED BY <1>1, <3>1, <3>2
  <2> QED BY <2>1, <2>2 DEF LengthInv, Fits
<1> QED BY <1>6, <1>7, <1>8, <1>9, <1>10 DEF RequestInv

\* Read and write requests.
LEMMA Readings ==
  ASSUME RequestInv, NEW t \in Tasks, NEW s \in Streams, NEW async \in BOOLEAN,
         Read(t, s, async) \/ Write(t, s, async)
  PROVE  RequestInv' \/ (Refused /\ Asks(t))
<1>1. PICK kind \in {"read", "write"} :
        /\ kind = "read" => Read(t, s, async)
        /\ kind = "write" => Write(t, s, async)
  OBVIOUS
<1>2. PICK h \in Requests : h = <<s, kind>>
  BY Kinds DEF Socks
<1>3. SUFFICES ASSUME ~Refused PROVE RequestInv'
  BY <1>1 DEF Read, Write
<1>4. PICK n \in 1 .. MaxLen :
        /\ Asks(t) /\ ~InUse(h)
        /\ FillBuffer(h, kind, IF async THEN Async ELSE t, n)
        /\ ToBatch(h) \/ ToPending(h, 1)
        /\ IF async THEN UNCHANGED queue ELSE Suspend(t)
        /\ UNCHANGED <<mask, accepts>>
  BY <1>1, <1>2, <1>3 DEF Read, Write
<1> DEFINE entry == IF async THEN Async ELSE t
           x == [header[h] EXCEPT !.fresh = TRUE, !.action = kind,
                                  !.entry = entry, !.failed = FALSE,
                                  !.low = n % Word, !.size = n]
<1>5. /\ x \in HeaderStates /\ x.fresh /\ ~x.failed /\ x.entry = entry
      /\ Fits(x)
  <2>1. n \in Nat /\ n % Word \in Nat /\ n % Word <= n
    <3>1. n \in Nat
      BY RequestAssumption
    <3> QED BY <3>1, CutOff
  <2>2. header[h] \in HeaderStates
    BY Kinds DEF RequestInv, TypeInv
  <2>3. entry \in Entries /\ kind \in Actions
    BY DEF Entries, Actions
  <2>4. /\ x.fresh = TRUE /\ x.failed = FALSE /\ x.entry = entry
        /\ x.low = n % Word /\ x.size = n
    BY <2>2 DEF HeaderStates
  <2>5. x \in HeaderStates
    BY <2>1, <2>2, <2>3 DEF HeaderStates
  <2> QED BY <2>1, <2>4, <2>5 DEF Fits
<1>6. Registers(t, h, x)
  <2>1. /\ pc = "yield" /\ queue # << >> /\ t = Head(queue)
        /\ UNCHANGED <<pc, io, events, exit, done, accepts>>
        /\ mask' \in [Socks -> SUBSET Masks] /\ fuel' \in [Tasks -> Nat]
    BY <1>4 DEF Asks, Running, RequestInv, TypeInv
  <2>2. /\ ~header[h].fresh /\ x.fresh /\ ~x.failed /\ Fits(x)
        /\ header' = [header EXCEPT ![h] = x]
    BY <1>4, <1>5 DEF InUse, FillBuffer
  <2>3. \/ x.entry = t /\ queue' = Tail(queue)
        \/ x.entry = Async /\ queue' = queue
    BY <1>4, <1>5 DEF Suspend
  <2>4. \/ /\ batch' = Append(batch, h) \/ batch' = <<h>> \o batch
           /\ pending' = pending /\ pendingReq' = pendingReq
        \/ /\ pending' = pending \cup {h} /\ batch' = batch
           /\ pendingReq' \in {pendingReq, pendingReq + 1}
    BY <1>4 DEF ToBatch, ToPending
  <2> QED BY <2>1, <2>2, <2>3, <2>4 DEF Registers
<1> QED BY <1>5, <1>6, RegistersKeeps

\* The requests that wait for readiness, a connection or an accept.
LEMMA Waitings ==
  ASSUME RequestInv, NEW t \in Tasks, NEW s \in Socks,
         \/ \E kind \in {"read", "write"} : WaitReady(t, s, kind)
         \/ WaitAccept(t, s) \/ AsyncConnect(t, s)
         \/ WaitConnect(t, s) /\ ~header'[<<s, "write">>].failed
  PROVE  RequestInv' \/ (Refused /\ Asks(t))
<1>1. SUFFICES ASSUME ~Refused PROVE RequestInv'
  BY DEF WaitReady, WaitAccept, AsyncConnect, WaitConnect
<1>2. /\ <<s, "read">> \in Requests /\ <<s, "write">> \in Requests
      /\ Requests \subseteq Headers /\ header \in [Headers -> HeaderStates]
      /\ mask \in [Socks -> SUBSET Masks]
  BY Kinds DEF RequestInv, TypeInv
<1> DEFINE Made(h, action, entry) ==
       /\ Asks(t) /\ ~InUse(h)
       /\ Fill(h, action, entry)
       /\ ToBatch(h) \/ ToHead(h) \/ ToPending(h, 0) \/ ToPending(h, 1)
       /\ IF entry = Async THEN UNCHANGED queue ELSE Suspend(t)
       /\ UNCHANGED accepts /\ mask' \in [Socks -> SUBSET Masks]
<1>3. PICK h \in Requests, action \in Actions \ {"read", "write"},
           entry \in {t, Async} : Made(h, action, entry)
  <2>0. t # Async
    BY RequestAssumption
  <2>1. CASE \E kind \in {"read", "write"} : WaitReady(t, s, kind)
    <3>1. PICK kind \in {"read", "write"} : WaitReady(t, s, kind)
      BY <2>1
    <3>2. Made(<<s, kind>>, "propBack", t)
      BY <1>1, <1>2, <2>0, <3>1 DEF WaitReady
    <3>3. <<s, kind>> \in Requests /\ "propBack" \in Actions \ {"read", "write"}
      BY <1>2 DEF Actions
    <3> QED BY <3>2, <3>3
  <2>2. CASE WaitAccept(t, s)
    <3>1. mask' \in [Socks -> SUBSET Masks]
      BY <1>1, <1>2, <2>2 DEF WaitAccept, Masks
    <3>2. Made(<<s, "read">>, "waitAccept", t)
      BY <1>1, <2>0, <2>2, <3>1 DEF WaitAccept
    <3> QED BY <1>2, <3>2 DEF Actions
  <2>3. CASE AsyncConnect(t, s)
    <3>1. Made(<<s, "read">>, "asyncConnect", Async)
      BY <1>1, <1>2, <2>3 DEF AsyncConnect
    <3> QED BY <1>2, <3>1 DEF Actions
  <2>4. CASE WaitConnect(t, s) /\ ~header'[<<s, "write">>].failed
    <3>1. ASSUME header' = [header EXCEPT ![<<s, "write">>] =
                              [@ EXCEPT !.fresh = TRUE, !.failed = TRUE,
                                        !.action = "waitConnect"]]
          PROVE FALSE
      <4>1. header'[<<s, "write">>].failed = TRUE
        <5>1. <<s, "write">> \in DOMAIN header
          BY <1>2
        <5>2. header[<<s, "write">>] \in HeaderStates
          BY <1>2
        <5> QED BY <3>1, <5>1, <5>2 DEF HeaderStates
      <4> QED BY <2>4, <4>1
    <3>2. Made(<<s, "write">>, "waitConnect", t)
      BY <1>1, <1>2, <2>0, <2>4, <3>1 DEF WaitConnect
    <3> QED BY <1>2, <3>2 DEF Actions
  <2> QED BY <2>1, <2>2, <2>3, <2>4
<1> DEFINE x == [header[h] EXCEPT !.fresh = TRUE, !.action = action,
                                  !.entry = entry, !.failed = FALSE]
<1>4. /\ x \in HeaderStates /\ x.fresh /\ ~x.failed /\ x.entry = entry
      /\ Fits(x)
  <2>1. header[h] \in HeaderStates
    BY <1>2
  <2>2. /\ x.fresh = TRUE /\ x.failed = FALSE /\ x.entry = entry
        /\ x.action = action
    BY <2>1 DEF HeaderStates
  <2>3. x \in HeaderStates
    BY <2>1 DEF HeaderStates, Entries
  <2> QED BY <2>2, <2>3 DEF Fits
<1>5. Registers(t, h, x)
  <2>1. /\ pc = "yield" /\ queue # << >> /\ t = Head(queue)
        /\ UNCHANGED <<pc, io, events, exit, done, accepts>>
        /\ mask' \in [Socks -> SUBSET Masks] /\ fuel' \in [Tasks -> Nat]
    BY <1>3 DEF Asks, Running, RequestInv, TypeInv
  <2>2. /\ ~header[h].fresh /\ x.fresh /\ ~x.failed /\ Fits(x)
        /\ header' = [header EXCEPT ![h] = x]
    BY <1>3, <1>4 DEF InUse, Fill
  <2>3. \/ x.entry = t /\ queue' = Tail(queue)
        \/ x.entry = Async /\ queue' = queue
    BY <1>3, <1>4 DEF Suspend
  <2>4. \/ /\ batch' = Append(batch, h) \/ batch' = <<h>> \o batch
           /\ pending' = pending /\ pendingReq' = pendingReq
        \/ /\ pending' = pending \cup {h} /\ batch' = batch
           /\ pendingReq' \in {pendingReq, pendingReq + 1}
    <3>1. pendingReq + 0 = pendingReq
      BY DEF RequestInv, TypeInv
    <3> QED BY <1>3, <3>1 DEF ToBatch, ToHead, ToPending
  <2> QED BY <2>1, <2>2, <2>3, <2>4 DEF Registers
<1> QED BY <1>4, <1>5, RegistersKeeps
-----------------------------------------------------------------------------
(***************************************************************************)
(* Steps that leave every task where it is                                 *)
(***************************************************************************)
\* A reserve header may come and go: no task waits in it.
LEMMA SamePlaces ==
  ASSUME TypeInv, WaitInv, queue' = queue, done' = done,
         \A h \in Headers : header'[h].entry = header[h].entry,
         \A h \in Requests : Registered(h)' <=> Registered(h)
  PROVE  WaitInv'
<1>1. \A h \in Headers : header[h].entry \in Tasks => h \in Requests
  <2> SUFFICES ASSUME NEW h \in Headers, h \notin Requests
               PROVE  header[h].entry \notin Tasks
    OBVIOUS
  <2>1. PICK s \in Socks : h = <<s, "reserve">>
    BY DEF Headers, Requests
  <2> QED BY <2>1, RequestAssumption DEF WaitInv
<1>2. \A h \in Headers : header[h].entry \in Tasks => (Registered(h)' <=> Registered(h))
  BY <1>1
<1> HIDE DEF Registered
<1>3. \A s \in Socks : <<s, "reserve">> \in Headers
  BY Kinds
<1>4. Distinct(queue', Tasks) /\ \A t \in Tasks : In(t, queue') => t \notin done'
  BY DEF WaitInv
<1>5. ASSUME NEW f \in Headers, NEW g \in Headers, Registered(f)', Registered(g)',
             header'[f].entry = header'[g].entry, header'[f].entry \in Tasks
      PROVE  f = g
  BY <1>2, <1>5 DEF WaitInv
<1>6. ASSUME NEW h \in Headers, Registered(h)', header'[h].entry \in Tasks
      PROVE  ~In(header'[h].entry, queue') /\ header'[h].entry \notin done'
  BY <1>2, <1>6 DEF WaitInv
<1>7. ASSUME NEW t \in Tasks
      PROVE  \/ In(t, queue') \/ t \in done'
             \/ \E h \in Headers : Registered(h)' /\ header'[h].entry = t
  BY <1>2 DEF WaitInv
<1>8. \A s \in Socks : header'[<<s, "reserve">>].entry = Async
  BY <1>3 DEF WaitInv
<1> QED BY <1>4, <1>5, <1>6, <1>7, <1>8 DEF WaitInv

\* The loop moves on without touching a request.
Still ==
  /\ pc' \in Phases \cup {"consume", "stream", "crashed", "wild", "returned"}
  /\ pc' \in Phases => pc \in Phases
  /\ mask' \in [Socks -> SUBSET Masks]
  /\ events' \in [Socks -> SUBSET {"in", "out"}]
  /\ exit' \in BOOLEAN /\ fuel' \in [Tasks -> Nat]
  /\ io' \in Transfers
  /\ UNCHANGED <<queue, header, pending, batch, pendingReq, accepts, done>>

\* Steps that move no request and no entry.
LEMMA StillKeeps == RequestInv /\ Still /\ StreamInv' => RequestInv'
<1> SUFFICES ASSUME RequestInv, Still, StreamInv' PROVE RequestInv'
  OBVIOUS
<1>1. TypeInv'
  BY DEF RequestInv, TypeInv, Still
<1>2. \A h : Registered(h)' <=> Registered(h)
  BY DEF Registered, Still
<1>3. BatchInv' /\ NoPhantomPending'
  BY DEF RequestInv, BatchInv, NoPhantomPending, Still
<1>4. UseInv'
  BY <1>2 DEF RequestInv, UseInv, Still
<1>5. WaitInv'
  BY <1>2, SamePlaces DEF RequestInv, Still
<1>6. LengthInv'
  BY <1>2, SameLengths DEF RequestInv, Still
<1> QED BY <1>1, <1>3, <1>4, <1>5, <1>6 DEF RequestInv

\* The steps of the loop that move no request and no entry.
LEMMA LoopSteps ==
  ASSUME RequestInv,
         \/ Wake \/ Interrupted \/ EventsDone \/ YieldDone \/ GetNothing
         \/ CallUnset \/ StreamStart
         \/ (\E n \in 1 .. io.reserved : MoveSome(n))
         \/ Refused /\ \E t \in Tasks : Asks(t)
  PROVE  RequestInv'
<1>0. TypeInv /\ StreamInv
  BY DEF RequestInv
<1>1. CASE Wake
  <2>1. Still /\ pc' = "events"
    BY <1>0, <1>1 DEF Wake, Still, TypeInv, Phases, requests, progress
  <2> QED BY <2>1, StillKeeps DEF StreamInv
<1>2. CASE Interrupted \/ EventsDone \/ GetNothing \/ YieldDone \/ CallUnset
  <2>1. Still /\ pc' # "stream"
    BY <1>0, <1>2 DEF Interrupted, EventsDone, GetNothing, YieldDone, CallUnset,
       Serving, Still, TypeInv, Phases, requests, progress
  <2> QED BY <2>1, StillKeeps DEF StreamInv
<1>3. CASE StreamStart
  <2>1. /\ batch # << >> /\ header' = header /\ batch' = batch
        /\ header[Current].action \in {"read", "write"}
    BY <1>3 DEF StreamStart, Serving, requests
  <2>2. /\ Current \in Headers /\ In(Current, batch)
        /\ header[Current] \in HeaderStates
    <3>1. Current \in Headers /\ In(Current, batch)
      BY <1>0, <2>1, Removed DEF TypeInv, Current
    <3> QED BY <1>0, <3>1 DEF TypeInv
  <2>3. header[Current].low <= header[Current].size
    <3>1. Current \in Requests
      <4>1. ASSUME NEW s \in Socks, Current = <<s, "reserve">> PROVE FALSE
        BY <2>1, <4>1 DEF RequestInv, LengthInv
      <4> QED BY <2>2, <4>1 DEF Headers, Requests
    <3>2. Registered(Current)
      BY <2>2 DEF Registered
    <3> QED BY <2>1, <3>1, <3>2 DEF RequestInv, LengthInv, Fits
  <2>4. PICK up \in Int :
          io' = [NoIo EXCEPT !.upper = up,
                             !.reserved = up * Word + header[Current].low]
    <3>1. Uppers \subseteq Int /\ header[Current].high \in Int
      BY <2>2, RequestAssumption DEF HeaderStates
    <3> QED BY <1>3, <3>1 DEF StreamStart
  <2> DEFINE k == up * Word  low == header[Current].low
  <2>5. io' = [cursor |-> 0, reserved |-> k + low, total |-> 0, upper |-> up]
    BY <2>4 DEF NoIo
  <2>6. Word \in Nat /\ low \in Nat /\ header[Current].size \in Nat
    BY <2>2, RequestAssumption DEF HeaderStates
  <2>7. k \in Int /\ (up = 0 => k = 0)
    BY <2>6
  <2> HIDE DEF k
  <2>8. io' \in Transfers
    BY <2>5, <2>6, <2>7 DEF Transfers
  <2>9. Still
    BY <1>0, <1>3, <2>8 DEF StreamStart, Still, TypeInv, Phases, requests, progress
  <2>10. StreamInv'
    <3>1. header[Current]' = header[Current]
      BY <2>1 DEF Current
    <3>2. up = 0 => 0 + (k + low) <= header[Current].size
      BY <2>3, <2>6, <2>7
    <3> QED BY <2>1, <2>5, <3>1, <3>2 DEF StreamInv
  <2> QED BY <2>9, <2>10, StillKeeps
<1>4. ASSUME NEW n \in 1 .. io.reserved, MoveSome(n) PROVE RequestInv'
  <2>1. /\ pc = "stream" /\ pc' = pc /\ n < io.reserved
        /\ io' = [io EXCEPT !.cursor = n, !.reserved = @ - n, !.total = @ + n]
        /\ UNCHANGED <<queue, requests, events, exit, progress>>
    BY <1>4 DEF MoveSome, Advance
  <2>2. io \in Transfers
    BY <1>0 DEF TypeInv
  <2>3. io.reserved \in Int /\ n \in Nat
    BY <2>2 DEF Transfers
  <2>4. io' \in Transfers
    <3>1. io' = [cursor |-> n, reserved |-> io.reserved - n,
                 total |-> io.total + n, upper |-> io.upper]
      BY <2>1, <2>2 DEF Transfers
    <3>2. io.total + n \in Nat /\ io.reserved - n \in Int /\ io.upper \in Int
      BY <2>2, <2>3 DEF Transfers
    <3> QED BY <2>3, <3>1, <3>2 DEF Transfers
  <2>5. Still
    BY <1>0, <2>1, <2>4 DEF Still, TypeInv, Phases, requests, progress
  <2>6. StreamInv'
    <3>1. batch' = batch /\ header[Current]' = header[Current]
      BY <2>1 DEF Current, requests
    <3>2. /\ batch # << >>
          /\ io.upper = 0 => io.cursor + io.reserved <= header[Current].size
      BY <1>0, <2>1 DEF StreamInv
    <3>3. Current \in Headers
      BY <1>0, <3>2, Removed DEF TypeInv, Current
    <3>4. header[Current].size \in Nat
      BY <1>0, <3>3 DEF TypeInv, HeaderStates
    <3>5. /\ io'.cursor = n /\ io'.reserved = io.reserved - n
          /\ io'.upper = io.upper /\ io.cursor \in Nat
      BY <2>1, <2>2 DEF Transfers
    <3>6. io'.upper = 0 => io'.cursor + io'.reserved <= header[Current].size
      BY <2>3, <3>2, <3>4, <3>5
    <3> QED BY <3>1, <3>2, <3>6 DEF StreamInv
  <2> QED BY <2>5, <2>6, StillKeeps
<1>5. ASSUME NEW t \in Tasks, Refused, Asks(t) PROVE RequestInv'
  <2>1. fuel' \in [Tasks -> Nat]
    BY <1>0, <1>5 DEF Asks, TypeInv
  <2>2. Still /\ pc' = "yield"
    BY <1>0, <1>5, <2>1 DEF Refused, Asks, Running, Still, TypeInv, Phases, requests
  <2> QED BY <2>2, StillKeeps DEF StreamInv
<1> QED BY <1>1, <1>2, <1>3, <1>4, <1>5

-----------------------------------------------------------------------------
(***************************************************************************)
(* The other steps of a task                                               *)
(***************************************************************************)
LEMMA Finishes ==
  ASSUME RequestInv, NEW t \in Tasks, Finish(t)
  PROVE  RequestInv'
<1>1. /\ TypeInv /\ pc = "yield" /\ queue # << >> /\ t = Head(queue)
      /\ queue' = Tail(queue) /\ done' = done \cup {t}
      /\ UNCHANGED <<pc, events, exit, io, requests, fuel>>
  BY DEF RequestInv, Finish, Running
<1>2. /\ queue' \in Seq(Entries) /\ In(t, queue)
      /\ \A y : In(y, queue) <=> In(y, queue') \/ y = t
      /\ Distinct(queue', Tasks) /\ ~In(t, queue')
  <2>1. queue \in Seq(Entries) /\ Distinct(queue, Tasks)
    BY DEF RequestInv, TypeInv, WaitInv
  <2> QED BY <1>1, <2>1, Removed
<1>3. TypeInv'
  BY <1>1, <1>2 DEF TypeInv, requests
<1>4. \A h : Registered(h)' <=> Registered(h)
  BY <1>1 DEF Registered, requests
<1>5. WaitInv'
  <2>1. header' = header
    BY <1>1 DEF requests
  <2>2. \A h \in Headers : Registered(h) => header[h].entry # t
    BY <1>2 DEF RequestInv, WaitInv
  <2> HIDE DEF Registered
  <2>3. \A u \in Tasks : In(u, queue') => u \notin done'
    BY <1>1, <1>2 DEF RequestInv, WaitInv
  <2>4. \A h \in Headers : Registered(h)' /\ header'[h].entry \in Tasks =>
           ~In(header'[h].entry, queue') /\ header'[h].entry \notin done'
    BY <1>1, <1>2, <1>4, <2>1, <2>2 DEF RequestInv, WaitInv
  <2>5. ASSUME NEW u \in Tasks
        PROVE  \/ In(u, queue') \/ u \in done'
               \/ \E h \in Headers : Registered(h)' /\ header'[h].entry = u
    BY <1>1, <1>2, <1>4, <2>1 DEF RequestInv, WaitInv
  <2>6. ASSUME NEW f \in Headers, NEW g \in Headers, Registered(f)', Registered(g)',
               header'[f].entry = header'[g].entry, header'[f].entry \in Tasks
        PROVE  f = g
    BY <1>4, <2>1, <2>6 DEF RequestInv, WaitInv
  <2>7. \A s \in Socks : header'[<<s, "reserve">>].entry = Async
    BY <2>1 DEF RequestInv, WaitInv
  <2> QED BY <1>2, <2>3, <2>4, <2>5, <2>6, <2>7 DEF WaitInv
<1>6. UseInv'
  BY <1>1, <1>4 DEF RequestInv, UseInv, requests
<1>7. BatchInv' /\ NoPhantomPending' /\ StreamInv'
  BY <1>1 DEF RequestInv, BatchInv, NoPhantomPending, StreamInv, requests
<1>8. LengthInv'
  BY <1>1, <1>4, SameLengths DEF RequestInv, requests
<1> QED BY <1>3, <1>5, <1>6, <1>7, <1>8 DEF RequestInv

\* asyncAccpetDone takes back what asyncAccept counted.
LEMMA AcceptDones ==
  ASSUME RequestInv, NEW t \in Tasks, AcceptDone(t)
  PROVE  RequestInv'
<1>1. /\ TypeInv /\ pc = "yield" /\ accepts > 0 /\ accepts' = accepts - 1
      /\ pendingReq' = pendingReq - 1
      /\ UNCHANGED <<pc, events, exit, io, done, queue, header, mask, pending, batch>>
      /\ fuel' \in [Tasks -> Nat]
  BY DEF RequestInv, TypeInv, AcceptDone, Asks, Running
<1>2. /\ accepts \in Nat /\ accepts' \in Nat
      /\ pendingReq \in Int /\ pendingReq' \in Int
  BY <1>1 DEF TypeInv
<1>3. TypeInv'
  BY <1>1, <1>2 DEF TypeInv
<1>4. \A h : Registered(h)' <=> Registered(h)
  BY <1>1 DEF Registered
<1>5. WaitInv'
  BY <1>1, <1>4, SamePlaces DEF RequestInv
<1>6. UseInv' /\ BatchInv' /\ StreamInv'
  BY <1>1, <1>4 DEF RequestInv, UseInv, BatchInv, StreamInv
<1>7. NoPhantomPending'
  <2>1. Cardinality(pending) \in Nat
    BY <1>1, FS_CardinalityType DEF TypeInv
  <2>2. pendingReq <= Cardinality(pending) + accepts
    BY DEF RequestInv, NoPhantomPending
  <2>3. pendingReq' <= Cardinality(pending) + accepts'
    BY <1>1, <1>2, <2>1, <2>2
  <2> QED BY <1>1, <2>3 DEF NoPhantomPending
<1>8. LengthInv'
  BY <1>1, <1>4, SameLengths DEF RequestInv
<1> QED BY <1>3, <1>5, <1>6, <1>7, <1>8 DEF RequestInv

\* asyncAccept fills the reserve header, which answers no task.
LEMMA AsyncAccepts ==
  ASSUME RequestInv, NEW t \in Tasks, NEW s \in Listeners, AsyncAccept(t, s)
  PROVE  RequestInv'
<1>0. PICK h \in Headers : h = <<s, "reserve">> /\ h \notin Requests
  BY Kinds DEF Socks
<1> DEFINE x == [header[h] EXCEPT !.fresh = TRUE, !.action = "asyncAccept",
                                  !.entry = header[h].entry, !.failed = FALSE]
<1>1. /\ TypeInv /\ pc = "yield" /\ accepts' = accepts + 1
      /\ pendingReq' = pendingReq + 1
      /\ header' = [header EXCEPT ![h] = x]
      /\ batch' = <<h>> \o batch \/ batch' = batch
      /\ mask' = [mask EXCEPT ![s] = @ \cup {"accept"}]
      /\ UNCHANGED <<pc, events, exit, io, done, queue, pending>>
      /\ fuel' \in [Tasks -> Nat]
  <2>1. /\ Asks(t) /\ accepts' = accepts + 1 /\ pendingReq' = pendingReq + 1
        /\ header' = [header EXCEPT ![h] = x]
        /\ batch' = IF "read" \in mask[s] THEN <<h>> \o batch ELSE batch
        /\ mask' = [mask EXCEPT ![s] = @ \cup {"accept"}]
        /\ UNCHANGED <<queue, pending>>
    BY <1>0 DEF AsyncAccept, Fill
  <2>2. /\ pc = "yield" /\ UNCHANGED <<pc, events, exit, io, done>>
        /\ fuel' = [fuel EXCEPT ![t] = @ - 1] /\ fuel[t] > 0
    BY <2>1 DEF Asks, Running
  <2>3. TypeInv
    BY DEF RequestInv
  <2>4. fuel' \in [Tasks -> Nat]
    BY <2>2, <2>3 DEF TypeInv
  <2> QED BY <2>1, <2>2, <2>3, <2>4
<1>2. /\ accepts \in Nat /\ accepts' \in Nat
      /\ pendingReq \in Int /\ pendingReq' \in Int
      /\ header \in [Headers -> HeaderStates] /\ batch \in Seq(Headers)
      /\ mask' \in [Socks -> SUBSET Masks] /\ pending \subseteq Requests
  <2>1. mask \in [Socks -> SUBSET Masks] /\ "accept" \in Masks
    BY <1>1 DEF TypeInv, Masks
  <2>2. mask' \in [Socks -> SUBSET Masks]
    BY <1>1, <2>1
  <2> QED BY <1>1, <2>2 DEF TypeInv
<1>3. /\ x \in HeaderStates /\ header' \in [Headers -> HeaderStates]
      /\ x.entry = header[h].entry /\ x.action = "asyncAccept"
  <2>1. header[h] \in HeaderStates
    BY <1>0, <1>2
  <2>2. x \in HeaderStates /\ x.entry = header[h].entry /\ x.action = "asyncAccept"
    BY <2>1 DEF HeaderStates, Actions
  <2> QED BY <1>1, <1>2, <2>2
<1> HIDE DEF x
<1>4. /\ batch' \in Seq(Headers)
      /\ \A g \in Requests : In(g, batch') <=> In(g, batch)
      /\ Distinct(batch', Requests)
  <2>1. Distinct(batch, Requests)
    BY DEF RequestInv, BatchInv
  <2>2. CASE batch' = <<h>> \o batch
    <3>1. /\ batch' \in Seq(Headers)
          /\ \A y : In(y, batch') <=> In(y, batch) \/ y = h
          /\ \A P : Distinct(batch, P) /\ (h \in P => ~In(h, batch))
               => Distinct(batch', P)
      <4>1. h \in Headers /\ batch \in Seq(Headers)
        BY <1>2
      <4>2. batch' = Append(batch, h) \/ batch' = <<h>> \o batch
        BY <2>2
      <4> QED BY <4>1, <4>2, Added
    <3>2. Distinct(batch', Requests)
      BY <1>0, <2>1, <3>1
    <3> QED BY <1>0, <3>1, <3>2
  <2>3. CASE batch' = batch
    BY <1>2, <2>1, <2>3
  <2> QED BY <1>1, <2>2, <2>3
<1>5. TypeInv'
  BY <1>1, <1>2, <1>3, <1>4 DEF TypeInv
<1>6. \A g \in Requests : Registered(g)' <=> Registered(g)
  BY <1>1, <1>4 DEF Registered
<1>7. /\ \A g \in Headers : header'[g].entry = header[g].entry
      /\ \A g \in Requests : header'[g] = header[g]
      /\ \A g \in Headers : \/ header'[g].action = header[g].action
                            \/ header'[g].action = "asyncAccept"
  <2>1. ASSUME NEW g \in Headers PROVE header'[g] = IF g = h THEN x ELSE header[g]
    BY <1>1, <1>2
  <2> QED BY <1>0, <1>3, <2>1, Kinds
<1>8. WaitInv'
  BY <1>1, <1>6, <1>7, SamePlaces DEF RequestInv
<1>9. UseInv'
  BY <1>1, <1>6, <1>7 DEF RequestInv, UseInv
<1>10. BatchInv' /\ StreamInv'
  <2>1. \A g \in pending : ~In(g, batch) /\ g \in Requests
    BY <1>2 DEF RequestInv, BatchInv
  <2> QED BY <1>1, <1>4, <2>1 DEF BatchInv, StreamInv
<1>11. NoPhantomPending'
  <2>1. Cardinality(pending) \in Nat
    BY <1>1, FS_CardinalityType DEF TypeInv
  <2>2. pendingReq <= Cardinality(pending) + accepts
    BY DEF RequestInv, NoPhantomPending
  <2>3. pendingReq' <= Cardinality(pending) + accepts'
    BY <1>1, <1>2, <2>1, <2>2
  <2> QED BY <1>1, <2>3 DEF NoPhantomPending
<1>12. LengthInv'
  <2>1. \A k \in Socks : <<k, "reserve">> \in Headers
    BY Kinds
  <2> QED BY <1>6, <1>7, <2>1 DEF RequestInv, LengthInv, Fits
<1> QED BY <1>5, <1>8, <1>9, <1>10, <1>11, <1>12 DEF RequestInv

\* A failed connect leaves the header in use with no place.
LEMMA ConnectFails ==
  ASSUME RequestInv, NEW t \in Tasks, NEW s \in Streams, WaitConnect(t, s),
         header'[<<s, "write">>].failed
  PROVE  RequestInv' \/ (Refused /\ Asks(t))
<1>1. PICK h \in Requests : h = <<s, "write">>
  BY Kinds DEF Socks
<1>2. SUFFICES ASSUME ~Refused PROVE RequestInv'
  BY DEF WaitConnect
<1>3. TypeInv /\ header \in [Headers -> HeaderStates] /\ h \in Headers
  BY <1>1, Kinds DEF RequestInv, TypeInv
<1>4. /\ ~header[h].fresh
      /\ header' = [header EXCEPT ![h] =
                      [@ EXCEPT !.fresh = TRUE, !.failed = TRUE,
                                !.action = "waitConnect"]]
      /\ UNCHANGED <<queue, mask, pending, batch, pendingReq, accepts>>
  <2>1. ~Fill(h, "waitConnect", t)
    <3>1. SUFFICES ASSUME Fill(h, "waitConnect", t) PROVE FALSE
      OBVIOUS
    <3>2. header'[h].failed = FALSE
      BY <1>3, <3>1 DEF Fill, HeaderStates
    <3> QED BY <1>1, <3>2
  <2> QED BY <1>1, <1>2, <2>1 DEF WaitConnect, InUse
<1>5. /\ pc = "yield" /\ UNCHANGED <<pc, events, exit, io, done>>
      /\ fuel' \in [Tasks -> Nat]
  <2>1. Asks(t)
    BY <1>2 DEF WaitConnect
  <2> QED BY <1>3, <2>1 DEF Asks, Running, TypeInv
<1> DEFINE x == [header[h] EXCEPT !.fresh = TRUE, !.failed = TRUE,
                                  !.action = "waitConnect"]
<1>6. /\ x \in HeaderStates /\ x.fresh = TRUE /\ x.failed = TRUE
      /\ x.entry = header[h].entry /\ x.action = "waitConnect"
  <2>1. header[h] \in HeaderStates
    BY <1>3
  <2> QED BY <2>1 DEF HeaderStates, Actions
<1>7. header' = [header EXCEPT ![h] = x]
  BY <1>4
<1> HIDE DEF x
<1>8. /\ header' \in [Headers -> HeaderStates] /\ header'[h] = x
      /\ \A g \in Headers : g # h => header'[g] = header[g]
  BY <1>3, <1>6, <1>7
<1>10. TypeInv'
  BY <1>3, <1>4, <1>5, <1>8 DEF TypeInv
<1>11. \A g : Registered(g)' <=> Registered(g)
  BY <1>4 DEF Registered
<1>12. WaitInv'
  <2>1. ASSUME NEW g \in Headers PROVE header'[g].entry = header[g].entry
    BY <1>6, <1>8
  <2> QED BY <1>3, <1>4, <1>5, <1>11, <2>1, SamePlaces DEF RequestInv
<1>13. UseInv'
  <2> SUFFICES ASSUME NEW g \in Requests
               PROVE  Registered(g)' <=> header'[g].fresh /\ ~header'[g].failed
    BY DEF UseInv
  <2>1. Registered(g) <=> header[g].fresh /\ ~header[g].failed
    BY <1>5 DEF RequestInv, UseInv, Phases
  <2>2. CASE g = h
    BY <1>4, <1>6, <1>8, <1>11, <2>1, <2>2
  <2>3. CASE g # h
    <3>1. header'[g] = header[g]
      BY <1>8, <2>3, Kinds
    <3> QED BY <1>11, <2>1, <3>1
  <2> QED BY <2>2, <2>3
<1>14. BatchInv' /\ NoPhantomPending' /\ StreamInv'
  BY <1>4, <1>5 DEF RequestInv, BatchInv, NoPhantomPending, StreamInv
<1>15. LengthInv'
  <2>1. ASSUME NEW g \in Headers, g # h PROVE header'[g] = header[g]
    BY <1>8, <2>1
  <2>2. Fits(header'[h])
    BY <1>6, <1>8 DEF Fits
  <2>3. \A k \in Socks : <<k, "reserve">> \in Headers /\ <<k, "reserve">> # h
    BY Kinds
  <2> QED BY <1>11, <2>1, <2>2, <2>3, Kinds DEF RequestInv, LengthInv, Fits
<1> QED BY <1>10, <1>12, <1>13, <1>14, <1>15 DEF RequestInv

-----------------------------------------------------------------------------
(***************************************************************************)
(* An event moves requests from pending to the batch                       *)
(***************************************************************************)
LEMMA Events ==
  ASSUME RequestInv, NEW s \in Socks, ProcessEvent(s)
  PROVE  RequestInv'
<1> DEFINE A == Answered(s)  T == {A[i] : i \in DOMAIN A}  R == Reserve(s)
<1>1. /\ TypeInv /\ pc = "events"
      /\ mask' = [mask EXCEPT ![s] = @ \cup {Bit(e) : e \in events[s]}]
      /\ pending' = pending \ T
      /\ batch' = (batch \o A) \o R
      /\ pendingReq' = pendingReq - Len(A)
      /\ events' = [events EXCEPT ![s] = {}]
      /\ UNCHANGED <<pc, queue, header, accepts, exit, io, done, fuel>>
  BY DEF RequestInv, ProcessEvent, Uncount, progress
<1>2. /\ A \in Seq(Requests) /\ Distinct(A, Requests)
      /\ \A h : In(h, A) => h \in Requests /\ h \in pending
      /\ IsFiniteSet(T) /\ Cardinality(T) = Len(A)
      /\ \A h : h \in T <=> In(h, A)
      /\ R \in Seq(Headers)
      /\ \A h : In(h, R) => h = <<s, "reserve">>
  BY <1>1, Answers
<1> HIDE DEF A, T, R
<1>3. \A h \in Requests : ~In(h, R)
  BY <1>2, Kinds
<1>4. /\ batch \in Seq(Headers) /\ Distinct(batch, Requests)
      /\ pending \subseteq Requests /\ IsFiniteSet(pending)
      /\ \A h \in pending : ~In(h, batch)
      /\ A \in Seq(Headers)
  <2>1. A \in Seq(Headers)
    BY <1>2, Kinds
  <2> QED BY <1>1, <2>1 DEF RequestInv, TypeInv, BatchInv
<1> DEFINE B == batch \o A
<1>5. /\ B \in Seq(Headers)
      /\ \A h : In(h, B) <=> In(h, batch) \/ In(h, A)
      /\ Distinct(B, Requests)
  <2>1. /\ B \in Seq(Headers)
        /\ \A h : In(h, B) <=> In(h, batch) \/ In(h, A)
        /\ \A P : /\ Distinct(batch, P) /\ Distinct(A, P)
                  /\ \A h \in P : ~(In(h, batch) /\ In(h, A))
                  => Distinct(B, P)
    BY <1>4, Joined
  <2>2. \A h \in Requests : ~(In(h, batch) /\ In(h, A))
    BY <1>2, <1>4
  <2> QED BY <1>2, <1>4, <2>1, <2>2
<1>6. Distinct(R, Requests)
  BY <1>3 DEF Distinct, In
<1> HIDE DEF B
<1>7. /\ batch' \in Seq(Headers)
      /\ \A h : In(h, batch') <=> In(h, B) \/ In(h, R)
      /\ Distinct(batch', Requests)
  <2>1. batch' = B \o R
    BY <1>1 DEF B
  <2>2. /\ batch' \in Seq(Headers)
        /\ \A h : In(h, batch') <=> In(h, B) \/ In(h, R)
        /\ \A P : /\ Distinct(B, P) /\ Distinct(R, P)
                  /\ \A h \in P : ~(In(h, B) /\ In(h, R))
                  => Distinct(batch', P)
    BY <1>2, <1>5, <2>1, Joined
  <2>3. \A h \in Requests : ~(In(h, B) /\ In(h, R))
    BY <1>3
  <2> QED BY <1>5, <1>6, <2>2, <2>3
<1>8. \A h \in Requests : Registered(h)' <=> Registered(h)
  BY <1>1, <1>2, <1>3, <1>5, <1>7 DEF Registered
<1>9. TypeInv'
  <2>1. mask' \in [Socks -> SUBSET Masks]
    <3>1. mask \in [Socks -> SUBSET Masks]
      BY <1>1 DEF TypeInv
    <3>2. {Bit(e) : e \in events[s]} \subseteq Masks
      BY DEF Bit, Masks
    <3> QED BY <1>1, <3>1, <3>2
  <2>2. events' \in [Socks -> SUBSET {"in", "out"}]
    BY <1>1 DEF TypeInv
  <2>3. pending' \in SUBSET Requests /\ IsFiniteSet(pending')
    BY <1>1, <1>4, FS_Difference
  <2>4. pendingReq' \in Int
    BY <1>1, <1>2, LenProperties DEF TypeInv
  <2> QED BY <1>1, <1>7, <2>1, <2>2, <2>3, <2>4 DEF TypeInv
<1>10. BatchInv'
  BY <1>1, <1>2, <1>3, <1>4, <1>5, <1>7 DEF BatchInv
<1>11. UseInv' /\ StreamInv'
  BY <1>1, <1>8 DEF RequestInv, UseInv, StreamInv
<1>12. WaitInv'
  BY <1>1, <1>8, SamePlaces DEF RequestInv
<1>13. NoPhantomPending'
  <2>1. T \subseteq pending
    BY <1>2
  <2>2. pending \cap T = T
    BY <2>1
  <2>3. Cardinality(pending') = Cardinality(pending) - Len(A)
    <3>1. Cardinality(pending \ T) = Cardinality(pending) - Cardinality(pending \cap T)
      BY <1>4, FS_Difference
    <3> QED BY <1>1, <1>2, <2>2, <3>1
  <2>4. Cardinality(pending) \in Nat /\ Len(A) \in Nat /\ accepts \in Nat
        /\ pendingReq \in Int
    BY <1>1, <1>2, <1>4, FS_CardinalityType, LenProperties DEF TypeInv
  <2>5. pendingReq <= Cardinality(pending) + accepts
    BY DEF RequestInv, NoPhantomPending
  <2>6. pendingReq' <= Cardinality(pending') + accepts
    BY <1>1, <2>3, <2>4, <2>5
  <2> QED BY <1>1, <2>6 DEF NoPhantomPending
<1>14. LengthInv'
  BY <1>1, <1>8, SameLengths DEF RequestInv
<1> QED BY <1>9, <1>10, <1>11, <1>12, <1>13, <1>14 DEF RequestInv

-----------------------------------------------------------------------------
(***************************************************************************)
(* consumeBatch gives the task its turn back                               *)
(***************************************************************************)
LEMMA Delivers ==
  ASSUME RequestInv, NEW x \in HeaderStates, Deliver(x), batch # << >>,
         x.entry = header[Current].entry, x.action = header[Current].action,
         UNCHANGED <<pending, pendingReq, accepts, events, exit, done, fuel>>,
         mask' \in [Socks -> SUBSET Masks],
         io' \in Transfers
  PROVE  RequestInv'
<1>1. PICK c : c = Current
  OBVIOUS
<1>2. /\ TypeInv /\ batch \in Seq(Headers) /\ queue \in Seq(Entries)
      /\ header \in [Headers -> HeaderStates] /\ Distinct(batch, Requests)
      /\ pending \subseteq Requests /\ Distinct(queue, Tasks)
      /\ \A h \in pending : ~In(h, batch)
  BY DEF RequestInv, TypeInv, BatchInv, WaitInv
<1>3. /\ queue' = Append(queue, x.entry) /\ header' = [header EXCEPT ![c] = x]
      /\ batch' = Tail(batch) /\ pc' = "consume" /\ x.entry = header[c].entry
  BY <1>1 DEF Deliver
<1>4. /\ c \in Headers /\ In(c, batch) /\ batch' \in Seq(Headers)
      /\ \A h : In(h, batch) <=> In(h, batch') \/ h = c
      /\ Distinct(batch', Requests)
      /\ c \in Requests => ~In(c, batch')
  BY <1>1, <1>2, <1>3, Removed DEF Current
<1>5. \A h \in Headers : header'[h].entry = header[h].entry
  <2>1. \A h \in Headers : header'[h] = IF h = c THEN x ELSE header[h]
    BY <1>2, <1>3, <1>4
  <2> QED BY <1>3, <2>1
<1>6. x.entry \in Entries
  BY DEF HeaderStates
<1>7. Registered(c) /\ (x.entry \in Tasks => ~In(x.entry, queue) /\ x.entry \notin done)
  <2>1. Registered(c)
    BY <1>4 DEF Registered
  <2> QED BY <1>3, <1>4, <2>1 DEF RequestInv, WaitInv
<1>8. /\ queue' \in Seq(Entries) /\ Distinct(queue', Tasks)
      /\ \A u : In(u, queue') <=> In(u, queue) \/ u = x.entry
  <2>1. PICK e \in Entries : e = x.entry
    BY <1>6
  <2>2. queue' = Append(queue, e) \/ queue' = <<e>> \o queue
    BY <1>3, <2>1
  <2>3. /\ queue' \in Seq(Entries)
        /\ \A u : In(u, queue') <=> In(u, queue) \/ u = e
        /\ \A P : Distinct(queue, P) /\ (e \in P => ~In(e, queue))
             => Distinct(queue', P)
    <3>1. queue \in Seq(Entries)
      BY <1>2
    <3> QED BY <2>2, <3>1, Added
  <2>4. Distinct(queue', Tasks)
    BY <1>2, <1>7, <2>1, <2>3
  <2> QED BY <2>1, <2>3, <2>4
<1>9. ASSUME NEW h \in Headers, header[h].entry \in Tasks
      PROVE  Registered(h)' <=> Registered(h) /\ h # c
  <2>1. h \in Requests
    <3>1. ASSUME NEW s \in Socks, h = <<s, "reserve">> PROVE FALSE
      BY <1>9, <3>1, RequestAssumption DEF RequestInv, WaitInv
    <3> QED BY <3>1 DEF Headers, Requests
  <2>2. c \notin pending
    BY <1>2, <1>4
  <2> QED BY <1>4, <2>1, <2>2 DEF Registered
<1>10. TypeInv'
  <2>1. header' \in [Headers -> HeaderStates]
    BY <1>2, <1>3
  <2> QED BY <1>2, <1>3, <1>4, <1>8, <2>1 DEF TypeInv
<1> HIDE DEF Registered
<1>11. WaitInv'
  <2>0. /\ \A g, h \in Headers :
             /\ Registered(g) /\ Registered(h)
             /\ header[g].entry = header[h].entry /\ header[g].entry \in Tasks
             => g = h
        /\ \A h \in Headers : Registered(h) /\ header[h].entry \in Tasks =>
             ~In(header[h].entry, queue) /\ header[h].entry \notin done
        /\ \A t \in Tasks : In(t, queue) => t \notin done
    BY DEF RequestInv, WaitInv
  <2>1. \A u \in Tasks : In(u, queue') => u \notin done'
    BY <1>7, <1>8, <2>0
  <2>2. ASSUME NEW f \in Headers, NEW g \in Headers, Registered(f)', Registered(g)',
               header'[f].entry = header'[g].entry, header'[f].entry \in Tasks
        PROVE  f = g
    BY <1>5, <1>9, <2>0, <2>2
  <2>3. ASSUME NEW h \in Headers, Registered(h)', header'[h].entry \in Tasks
        PROVE  ~In(header'[h].entry, queue') /\ header'[h].entry \notin done'
    <3>1. Registered(h) /\ h # c /\ header'[h].entry = header[h].entry
      BY <1>5, <1>9, <2>3
    <3>2. header[h].entry # x.entry
      BY <1>3, <1>4, <1>5, <1>7, <2>0, <2>3, <3>1
    <3> QED BY <1>8, <2>0, <2>3, <3>1, <3>2
  <2>4. ASSUME NEW u \in Tasks
        PROVE  \/ In(u, queue') \/ u \in done'
               \/ \E h \in Headers : Registered(h)' /\ header'[h].entry = u
    <3>1. CASE In(u, queue) \/ u \in done
      BY <1>8, <3>1
    <3>2. CASE \E h \in Headers : Registered(h) /\ header[h].entry = u
      <4>1. PICK h \in Headers : Registered(h) /\ header[h].entry = u
        BY <3>2
      <4>2. CASE h = c
        BY <1>3, <1>8, <4>1, <4>2
      <4>3. CASE h # c
        BY <1>5, <1>9, <4>1, <4>3
      <4> QED BY <4>2, <4>3
    <3> QED BY <3>1, <3>2 DEF RequestInv, WaitInv
  <2>5. \A s \in Socks : header'[<<s, "reserve">>].entry = Async
    <3>1. \A s \in Socks : <<s, "reserve">> \in Headers
      BY Kinds
    <3> QED BY <1>5, <3>1 DEF RequestInv, WaitInv
  <2> QED BY <1>8, <2>1, <2>2, <2>3, <2>4, <2>5 DEF WaitInv
<1>12. BatchInv'
  BY <1>2, <1>4 DEF BatchInv
<1>13. UseInv' /\ StreamInv' /\ NoPhantomPending'
  BY <1>3 DEF RequestInv, UseInv, StreamInv, NoPhantomPending, Phases
<1>14. LengthInv'
  <2>1. ASSUME NEW h \in Headers
        PROVE  /\ header'[h].action = header[h].action
               /\ h # c => header'[h] = header[h]
    BY <1>1, <1>2, <1>3, <1>4
  <2>2. ASSUME NEW h \in Requests, Registered(h)'
        PROVE  Registered(h) /\ h # c
    BY <1>2, <1>4, <2>2 DEF Registered
  <2>3. \A s \in Socks : <<s, "reserve">> \in Headers
    BY Kinds
  <2> QED BY <2>1, <2>2, <2>3, Kinds DEF RequestInv, LengthInv, Fits
<1> QED BY <1>10, <1>11, <1>12, <1>13, <1>14 DEF RequestInv

\* The steps that end a request or move it back.
LEMMA Answering ==
  ASSUME RequestInv, PropBack \/ ServeConnect \/ ServeAccept \/ MoveAll \/ MoveNone
  PROVE  RequestInv'
<1>0. /\ TypeInv /\ StreamInv /\ header \in [Headers -> HeaderStates]
      /\ mask \in [Socks -> SUBSET Masks] /\ batch \in Seq(Headers)
      /\ io \in Transfers
  BY DEF RequestInv, TypeInv
<1>1. batch # << >>
  BY <1>0 DEF StreamInv, PropBack, ServeConnect, ServeAccept, MoveAll, MoveNone,
     StreamEnd, Serving
<1>2. Current \in Headers /\ header[Current] \in HeaderStates /\ Current[1] \in Socks
  <2>1. Current \in Headers
    BY <1>0, <1>1, Removed DEF Current
  <2> QED BY <1>0, <2>1, Kinds
<1>3. \A m : m = [mask EXCEPT ![Current[1]] = @ \ {Current[2]}]
        => m \in [Socks -> SUBSET Masks]
  BY <1>0, <1>2
<1>4. CASE PropBack \/ ServeConnect
  <2> DEFINE x == [header[Current] EXCEPT !.fresh = FALSE]
  <2>1. /\ x \in HeaderStates /\ x.entry = header[Current].entry
        /\ x.action = header[Current].action
    BY <1>2 DEF HeaderStates
  <2>2. /\ Deliver(x)
        /\ UNCHANGED <<pending, pendingReq, accepts, events, exit, io, done, fuel>>
        /\ mask' = mask \/ mask' = [mask EXCEPT ![Current[1]] = @ \ {Current[2]}]
    BY <1>4 DEF PropBack, ServeConnect, progress
  <2>3. mask' \in [Socks -> SUBSET Masks]
    BY <1>0, <1>3, <2>2
  <2> HIDE DEF x
  <2> QED BY <1>0, <1>1, <2>1, <2>2, <2>3, Delivers
<1>5. CASE ServeAccept
  <2> DEFINE x == IF Current[2] = "reserve"
                  THEN [header[Current] EXCEPT !.entry = Async] ELSE header[Current]
  <2>1. /\ x \in HeaderStates /\ x.entry = header[Current].entry
        /\ x.action = header[Current].action
    <3>1. CASE Current[2] = "reserve"
      <4>1. Current = <<Current[1], "reserve">>
        BY <1>2, <3>1 DEF Headers
      <4>2. header[<<Current[1], "reserve">>].entry = Async
        BY <1>2 DEF RequestInv, WaitInv
      <4>3. header[Current].entry = Async
        BY <4>1, <4>2
      <4>4. x = [header[Current] EXCEPT !.entry = Async]
        BY <3>1
      <4>5. \A a : [header[Current] EXCEPT !.entry = a].action = header[Current].action
        BY <1>2 DEF HeaderStates
      <4> QED BY <1>2, <4>3, <4>4, <4>5 DEF HeaderStates, Entries
    <3>2. CASE Current[2] # "reserve"
      BY <1>2, <3>2
    <3> QED BY <3>1, <3>2
  <2>2. /\ Deliver(x)
        /\ UNCHANGED <<mask, pending, pendingReq, accepts, events, exit, io, done, fuel>>
    BY <1>5 DEF ServeAccept, progress
  <2> HIDE DEF x
  <2> QED BY <1>0, <1>1, <2>1, <2>2, Delivers
<1>6. ASSUME NEW total \in Nat, NEW again \in BOOLEAN, StreamEnd(total, again)
      PROVE  RequestInv'
  <2> DEFINE x == [header[Current] EXCEPT !.fresh = FALSE, !.written = TRUE,
                                          !.low = io.cursor % Word,
                                          !.high = io.cursor \div Word]
  <2>1. /\ x \in HeaderStates /\ x.entry = header[Current].entry
        /\ x.action = header[Current].action
    <3>1. io.cursor % Word \in Nat /\ io.cursor \div Word \in Int
      BY <1>0, CutOff DEF Transfers
    <3> QED BY <1>2, <3>1 DEF HeaderStates
  <2>2. /\ Deliver(x)
        /\ UNCHANGED <<pending, pendingReq, accepts, events, exit, done, fuel>>
        /\ mask' = mask \/ mask' = [mask EXCEPT ![Current[1]] = @ \ {Current[2]}]
        /\ io' = [io EXCEPT !.total = total]
    BY <1>6 DEF StreamEnd, progress
  <2>3. mask' \in [Socks -> SUBSET Masks]
    BY <1>0, <1>3, <2>2
  <2>4. io' \in Transfers
    BY <1>0, <2>2 DEF Transfers
  <2> HIDE DEF x
  <2> QED BY <1>0, <1>1, <2>1, <2>2, <2>3, <2>4, Delivers
<1>7. CASE MoveAll
  <2>1. io.total + io.reserved \in Nat
    BY <1>0, <1>7 DEF Transfers, MoveAll
  <2> QED BY <1>6, <1>7, <2>1 DEF MoveAll
<1>8. CASE MoveNone
  <2>1. io.total \in Nat
    BY <1>0 DEF Transfers
  <2> QED BY <1>6, <1>8, <2>1 DEF MoveNone
<1> QED BY <1>4, <1>5, <1>7, <1>8

-----------------------------------------------------------------------------
(***************************************************************************)
(* The theorems                                                            *)
(***************************************************************************)
LEMMA RequestInit == Init => RequestInv
<1> SUFFICES ASSUME Init PROVE RequestInv
  OBVIOUS
<1> DEFINE n == Cardinality(Tasks)
<1>1. n \in Nat /\ IsFiniteSet(1 .. n) /\ Cardinality(1 .. n) = n
  BY RequestAssumption, FS_CardinalityType, FS_Interval
<1>2. /\ queue \in [1 .. n -> Tasks]
      /\ \A t \in Tasks : \E i \in DOMAIN queue : queue[i] = t
  BY DEF Init
<1> HIDE DEF n
<1>3. queue \in Surjection(1 .. n, Tasks)
  BY <1>2 DEF Surjection
<1>4. queue \in Injection(1 .. n, Tasks)
  BY <1>1, <1>3, FS_Surjection DEF n
<1>5. Distinct(queue, Tasks) /\ \A t \in Tasks : In(t, queue)
  BY <1>2, <1>4 DEF Injection, IsInjective, Distinct, In
<1>6. queue \in Seq(Entries)
  <2>1. queue \in [1 .. n -> Entries]
    BY <1>2 DEF Entries
  <2> QED BY <1>1, <2>1
<1>7. batch \in Seq(Headers) /\ Distinct(batch, Requests) /\ \A h : ~In(h, batch)
  BY Nothing DEF Init
<1>8. \A h : ~Registered(h)
  BY <1>7 DEF Registered, Init
<1>9. /\ header \in [Headers -> HeaderStates]
      /\ \A h \in Headers : ~header[h].fresh /\ header[h].entry = Async
  BY IdleType DEF Init, Idle
<1>10. IsFiniteSet(pending) /\ Cardinality(pending) = 0
  BY FS_EmptySet DEF Init
<1>11. TypeInv
  <2>1. mask \in [Socks -> SUBSET Masks] /\ events \in [Socks -> SUBSET {"in", "out"}]
    BY DEF Init, Quiet
  <2>2. fuel \in [Tasks -> Nat]
    BY RequestAssumption DEF Init
  <2>3. /\ pc = "wake" /\ pc \in Phases /\ pending = {} /\ done = {} /\ exit = FALSE
        /\ pendingReq = 0 /\ accepts = 0
    BY DEF Init, Phases
  <2>4. io \in Transfers
    BY IdleType DEF Init
  <2>5. pc \in Phases \cup {"consume", "stream", "crashed", "wild", "returned"}
    BY <2>3
  <2>6. exit \in BOOLEAN
    BY <2>3
  <2>7. pending \in SUBSET Requests /\ done \in SUBSET Tasks
    BY <2>3
  <2>8. pendingReq \in Int /\ accepts \in Nat
    BY <2>3
  <2> QED BY <1>6, <1>7, <1>9, <1>10, <2>1, <2>2, <2>4, <2>5, <2>6, <2>7, <2>8
          DEF TypeInv
<1>12. BatchInv /\ StreamInv
  BY <1>7 DEF BatchInv, StreamInv, Init
<1>13. UseInv
  BY <1>8, <1>9, Kinds DEF UseInv
<1>14. NoPhantomPending
  BY <1>10 DEF NoPhantomPending, Init
<1>15. WaitInv
  BY <1>5, <1>8, <1>9, Kinds DEF WaitInv, Init
<1>16. LengthInv
  <2>1. \A h \in Headers : header[h].action = "none"
    BY DEF Init, Idle
  <2> QED BY <1>8, <2>1, Kinds DEF LengthInv
<1> QED BY <1>11, <1>12, <1>13, <1>14, <1>15, <1>16 DEF RequestInv

\* Every step keeps the invariant.
LEMMA RequestStep == RequestInv /\ [Next]_vars => RequestInv'
<1> SUFFICES ASSUME RequestInv, [Next]_vars PROVE RequestInv'
  OBVIOUS
<1>1. CASE UNCHANGED vars
  <2>1. \A h : Registered(h)' <=> Registered(h)
    BY <1>1 DEF Registered, vars, requests
  <2>2. TypeInv' /\ BatchInv' /\ NoPhantomPending' /\ StreamInv'
    BY <1>1 DEF RequestInv, TypeInv, BatchInv, NoPhantomPending, StreamInv, Current,
       vars, requests, progress
  <2>3. UseInv'
    BY <1>1, <2>1 DEF RequestInv, UseInv, vars, requests
  <2>4. WaitInv'
    BY <1>1, <2>1, SamePlaces DEF RequestInv, vars, requests, progress
  <2>5. LengthInv'
    BY <1>1, <2>1, SameLengths DEF RequestInv, vars, requests
  <2> QED BY <2>2, <2>3, <2>4, <2>5 DEF RequestInv
<1>2. CASE Step
  <2>1. CASE Wake \/ Interrupted \/ EventsDone \/ YieldDone
    BY <2>1, LoopSteps
  <2>2. CASE \E s \in Socks : ProcessEvent(s)
    BY <2>2, Events
  <2>3. CASE Consume
    BY <2>3, LoopSteps, Answering DEF Consume
  <2>4. CASE Stream
    BY <2>4, LoopSteps, Answering DEF Stream
  <2>5. CASE RunTask
    <3>1. PICK t \in Tasks :
            \/ Finish(t)
            \/ AcceptDone(t)
            \/ \E s \in Streams :
                 \/ \E async \in BOOLEAN : Read(t, s, async) \/ Write(t, s, async)
                 \/ \E kind \in {"read", "write"} : WaitReady(t, s, kind)
                 \/ WaitConnect(t, s) \/ AsyncConnect(t, s)
            \/ \E s \in Listeners : WaitAccept(t, s) \/ AsyncAccept(t, s)
      BY <2>5 DEF RunTask
    <3>2. CASE Finish(t) \/ AcceptDone(t)
      BY <3>2, Finishes, AcceptDones
    <3>3. ASSUME Refused, Asks(t) PROVE RequestInv'
      BY <3>3, LoopSteps
    <3>4. ASSUME NEW s \in Streams, NEW async \in BOOLEAN,
                 Read(t, s, async) \/ Write(t, s, async)
          PROVE  RequestInv'
      BY <3>3, <3>4, Readings
    <3>5. ASSUME NEW s \in Streams,
                 \/ \E kind \in {"read", "write"} : WaitReady(t, s, kind)
                 \/ WaitConnect(t, s) \/ AsyncConnect(t, s)
          PROVE  RequestInv'
      <4>1. s \in Socks
        BY DEF Socks
      <4>2. CASE WaitConnect(t, s) /\ header'[<<s, "write">>].failed
        BY <3>3, <4>2, ConnectFails
      <4>3. CASE ~(WaitConnect(t, s) /\ header'[<<s, "write">>].failed)
        BY <3>3, <3>5, <4>1, <4>3, Waitings
      <4> QED BY <4>2, <4>3
    <3>6. ASSUME NEW s \in Listeners, WaitAccept(t, s) PROVE RequestInv'
      <4>1. s \in Socks
        BY DEF Socks
      <4> QED BY <3>3, <3>6, <4>1, Waitings
    <3>7. ASSUME NEW s \in Listeners, AsyncAccept(t, s) PROVE RequestInv'
      BY <3>7, AsyncAccepts
    <3> QED BY <3>1, <3>2, <3>4, <3>5, <3>6, <3>7
  <2> QED BY <1>2, <2>1, <2>2, <2>3, <2>4, <2>5 DEF Step
<1> QED BY <1>1, <1>2 DEF Next

\* The places of requests and tasks are kept by every step of the loop, the
\* kernel and the tasks.
THEOREM RequestsSound == Spec => []RequestInv
BY RequestInit, RequestStep, PTL DEF Spec

\* Requests never have two places: the batch is never linked twice through one
\* header, and InUse and fresh agree with the place until the batch is consumed.
THEOREM RequestsHomed == Spec => []RequestHomed
<1>1. RequestInv => RequestHomed
  <2> SUFFICES ASSUME RequestInv, NEW h \in Headers, h[2] # "reserve"
               PROVE  /\ Homes(h) <= 1
                      /\ pc \in Phases =>
                           (Homes(h) = 1 <=> header[h].fresh /\ ~header[h].failed)
    BY DEF RequestHomed, Phases
  <2>1. h \in Requests
    BY Kinds
  <2>2. /\ Times(h, batch) \in Nat /\ (Times(h, batch) > 0 <=> In(h, batch))
        /\ Times(h, batch) <= 1
    <3>1. batch \in Seq(Headers) /\ Distinct(batch, Requests)
      BY DEF RequestInv, TypeInv, BatchInv
    <3> QED BY <2>1, <3>1, Counted
  <2>3. /\ Cardinality(pending \cap {h}) \in Nat
        /\ (Cardinality(pending \cap {h}) > 0 <=> h \in pending)
        /\ Cardinality(pending \cap {h}) <= 1
    <3>1. IsFiniteSet(pending \cap {h})
      BY FS_Singleton, FS_Subset
    <3>2. \A x, y \in pending \cap {h} : x = y
      OBVIOUS
    <3>3. (\E x : x \in pending \cap {h}) <=> h \in pending
      OBVIOUS
    <3> QED BY <3>1, <3>2, <3>3, Small
  <2>4. ~(h \in pending /\ In(h, batch))
    BY DEF RequestInv, BatchInv
  <2>5. Homes(h) <= 1 /\ (Homes(h) = 1 <=> Registered(h))
    BY <2>2, <2>3, <2>4 DEF Homes, Registered
  <2> QED BY <2>1, <2>5 DEF RequestInv, UseInv
<1> QED BY <1>1, RequestsSound, PTL

\* A task is in the run queue, has returned, or waits for one request: none is
\* resumed twice or forgotten.
THEOREM TasksHomed == Spec => []TaskHomed
<1>1. RequestInv => TaskHomed
  <2> SUFFICES ASSUME RequestInv, NEW t \in Tasks
               PROVE  Times(t, queue) + Cardinality(done \cap {t})
                        + Cardinality({h \in Headers : Homes(h) > 0 /\ header[h].entry = t})
                        = 1
    BY DEF TaskHomed
  <2> DEFINE H == {h \in Headers : Homes(h) > 0 /\ header[h].entry = t}
  <2>1. /\ Times(t, queue) \in Nat /\ (Times(t, queue) > 0 <=> In(t, queue))
        /\ Times(t, queue) <= 1
    <3>1. queue \in Seq(Entries) /\ Distinct(queue, Tasks)
      BY DEF RequestInv, TypeInv, WaitInv
    <3> QED BY <3>1, Counted
  <2>2. /\ Cardinality(done \cap {t}) \in Nat
        /\ (Cardinality(done \cap {t}) > 0 <=> t \in done)
        /\ Cardinality(done \cap {t}) <= 1
    <3>1. IsFiniteSet(done \cap {t})
      BY FS_Singleton, FS_Subset
    <3>2. \A x, y \in done \cap {t} : x = y
      OBVIOUS
    <3>3. (\E x : x \in done \cap {t}) <=> t \in done
      OBVIOUS
    <3> QED BY <3>1, <3>2, <3>3, Small
  <2>3. ASSUME NEW h \in Headers PROVE Homes(h) > 0 <=> Registered(h)
    <3>1. /\ Times(h, batch) \in Nat /\ (Times(h, batch) > 0 <=> In(h, batch))
      <4>1. batch \in Seq(Headers)
        BY DEF RequestInv, TypeInv
      <4> QED BY <4>1, Counted
    <3>2. /\ Cardinality(pending \cap {h}) \in Nat
          /\ (Cardinality(pending \cap {h}) > 0 <=> h \in pending)
      <4>1. IsFiniteSet(pending \cap {h})
        BY FS_Singleton, FS_Subset
      <4>2. (\E x : x \in pending \cap {h}) <=> h \in pending
        OBVIOUS
      <4> QED BY <4>1, <4>2, Small
    <3> QED BY <3>1, <3>2 DEF Homes, Registered
  <2>4. \A h : h \in H <=> h \in Headers /\ Registered(h) /\ header[h].entry = t
    BY <2>3
  <2> HIDE DEF H, Registered
  <2>5. \A g, h \in H : g = h
    BY <2>4 DEF RequestInv, WaitInv
  <2>6. Cardinality(H) \in Nat /\ Cardinality(H) <= 1
        /\ (Cardinality(H) > 0 <=> \E h : h \in H)
    <3>1. IsFiniteSet(H)
      <4>1. CASE H = {}
        BY <4>1, FS_EmptySet
      <4>2. CASE H # {}
        <5>1. PICK h \in H : TRUE
          BY <4>2
        <5>2. H = {h}
          BY <2>5, <5>1
        <5> QED BY <5>2, FS_Singleton
      <4> QED BY <4>1, <4>2
    <3> QED BY <2>5, <3>1, Small
  <2>7. /\ In(t, queue) => t \notin done
        /\ \A h \in H : ~In(t, queue) /\ t \notin done
        /\ In(t, queue) \/ t \in done \/ \E h : h \in H
    BY <2>4 DEF RequestInv, WaitInv
  <2>8. Times(t, queue) + Cardinality(done \cap {t}) + Cardinality(H) = 1
    BY <2>1, <2>2, <2>6, <2>7
  <2> QED BY <2>8 DEF H
<1> QED BY <1>1, RequestsSound, PTL

\* pendingReq never exceeds the requests that can still be answered, so the
\* loop does not wait in epoll_wait for a request that is gone.
THEOREM PendingIsReal == Spec => []NoPhantomPending
<1>1. RequestInv => NoPhantomPending
  BY DEF RequestInv
<1> QED BY <1>1, RequestsSound, PTL

\* A transfer that takes a zero for the upper half of its length never leaves
\* the buffer of the caller, however many partial transfers it is made of and
\* whatever make_read_write_header cut off the length.
THEOREM BufferKept == Spec => []StreamInBuffer
<1>1. RequestInv => StreamInBuffer
  BY DEF RequestInv, StreamInv, StreamInBuffer
<1> QED BY <1>1, RequestsSound, PTL
=============================================================================
