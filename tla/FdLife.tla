-------------------------------- MODULE FdLife --------------------------------
(***************************************************************************)
(* The life of a buffio::Fd: MakeFd opens a descriptor of some family and  *)
(* mounts it on an instance, epoll reports what it is ready for, and       *)
(* release() or the destructor closes it.  Every system call may fail, and *)
(* the kernel may give the number of a closed descriptor to the next one   *)
(* that is opened (it takes the lowest, but the rest of the process opens  *)
(* and closes descriptors too).                                            *)
(*                                                                         *)
(* A program may mount over what an instance carries.  Socket, pipe and    *)
(* mkfifo assert that there is nothing; without assertions they do what    *)
(* openFile, eventFd and mkFdSock always do: the fields are overwritten,   *)
(* and nothing is closed, unlinked or taken out of the epoll set.          *)
(*                                                                         *)
(* FdRequests models the requests.  The broker is active.  A program that  *)
(* copies an instance, which the class does not forbid, is left out, and   *)
(* so are FdCount and the polled and non-blocking bits: nothing reads them.*)
(***************************************************************************)
CONSTANTS
  Fds,     \* the places a program has for instances of Fd
  Numbers, \* bound: the descriptor numbers these may get
  Names,   \* paths of local sockets and fifos
  Nobody   \* the null pointer

\* What is not null differs from null.
ASSUME FdAssumption == Nobody \notin Fds \cup Names \cup Numbers

Ways == {"read", "write"}
Families == {"none", "local", "ipv4", "ipv6", "pipe", "fifo", "file", "eventFd"}

VARIABLES
  build,    \* whether assertions are compiled in; "aborted" by one of them;
            \* "wild" when an event has reached a destroyed instance
  obj,      \* the instance at each place
  open,     \* the numbers in use
  watch,    \* the epoll set: whom a number is watched for, and for what
  accepted, \* <<number, family>>: connections no instance carries yet
  names,    \* the paths that exist
  robbed,   \* the instances whose path another one has removed
  lost,     \* history: the open numbers a mount has overwritten
  left      \* history: the paths whose maker a mount has overwritten

vars == <<build, obj, open, watch, accepted, names, robbed, lost, left>>

\* made: constructed; maker: it has made the path at its address.
Blank == [made |-> FALSE, family |-> "none", ends |-> {}, address |-> Nobody,
          maker |-> FALSE, mask |-> {}]

Unwatched == [to |-> Nobody, ways |-> {}]

Init ==
  /\ build \in {"asserts", "ndebug"}
  /\ obj = [f \in Fds |-> Blank]
  /\ open = {}
  /\ watch = [d \in Numbers |-> Unwatched]
  /\ accepted = {}
  /\ names = {} /\ robbed = {}
  /\ lost = {} /\ left = {}

Running == build \in {"asserts", "ndebug"}

Unused == Numbers \ open

Construct(f) ==
  /\ Running
  /\ ~obj[f].made
  /\ obj' = [obj EXCEPT ![f] = [Blank EXCEPT !.made = TRUE]]
  /\ UNCHANGED <<build, open, watch, accepted, names, robbed, lost, left>>

-----------------------------------------------------------------------------
(***************************************************************************)
(* MakeFd and the mount operations                                         *)
(***************************************************************************)
\* The constructed instance may carry anything, unless the operation asserts
\* that it does not.
Mountable(f) == Running /\ obj[f].made

Asserted(f) == build = "asserts" => obj[f].family = "none"

Carry(f, family, ds, name, maker) ==
  /\ obj' = [obj EXCEPT ![f] = [@ EXCEPT !.family = family, !.ends = ds,
                                         !.address = name, !.maker = maker]]
  /\ lost' = lost \cup obj[f].ends
  /\ left' = IF obj[f].maker /\ f \notin robbed THEN left \cup {obj[f].address}
             ELSE left
  /\ robbed' = robbed \ {f}

\* pollOp, whose result is ignored: epoll may refuse.
Poll(f, ways) ==
  \E ds \in SUBSET DOMAIN ways :
    watch' = [d \in Numbers |-> IF d \in ds THEN [to |-> f, ways |-> ways[d]]
                                ELSE watch[d]]

Both(d) == [e \in {d} |-> Ways]

Socket(f, family, d) ==
  /\ Mountable(f) /\ Asserted(f)
  /\ family \in {"ipv4", "ipv6"}
  /\ d \in Unused
  /\ open' = open \cup {d}
  /\ Carry(f, family, {d}, Nobody, FALSE)
  /\ Poll(f, Both(d))
  /\ UNCHANGED <<build, accepted, names>>

\* The path fits: in a build with assertions the test of its length, which is
\* the wrong way round there, ends the program.  bind makes the path.
LocalSocket(f, n, bind, d) ==
  /\ Mountable(f) /\ Asserted(f)
  /\ build = "ndebug"
  /\ d \in Unused
  /\ bind => n \notin names
  /\ open' = open \cup {d}
  /\ names' = IF bind THEN names \cup {n} ELSE names
  /\ Carry(f, "local", {d}, n, bind)
  /\ Poll(f, Both(d))
  /\ UNCHANGED <<build, accepted>>

LocalAborts(f) ==
  /\ Mountable(f)
  /\ build = "asserts"
  /\ build' = "aborted"
  /\ UNCHANGED <<obj, open, watch, accepted, names, robbed, lost, left>>

\* socket, pipe and mkfifo on an instance that carries something.
AssertFails(f) ==
  /\ Mountable(f)
  /\ ~Asserted(f)
  /\ build' = "aborted"
  /\ UNCHANGED <<obj, open, watch, accepted, names, robbed, lost, left>>

\* bind fails: the socket is closed again.
BindFails(f, d) ==
  /\ Mountable(f) /\ Asserted(f)
  /\ d \in Unused
  /\ open' = (open \cup {d}) \ {d}
  /\ UNCHANGED <<build, obj, watch, accepted, names, robbed, lost, left>>

Pipe(f, r, w) ==
  /\ Mountable(f) /\ Asserted(f)
  /\ {r, w} \subseteq Unused /\ r # w
  /\ open' = open \cup {r, w}
  /\ Carry(f, "pipe", {r, w}, obj[f].address, FALSE)
  /\ Poll(f, [e \in {r, w} |-> IF e = r THEN {"read"} ELSE {"write"}])
  /\ UNCHANGED <<build, accepted, names>>

\* The path is made, the instance carries no descriptor.
MkFifo(f, n) ==
  /\ Mountable(f) /\ Asserted(f)
  /\ n \notin names
  /\ names' = names \cup {n}
  /\ Carry(f, "fifo", {}, n, TRUE)
  /\ UNCHANGED <<build, open, watch, accepted>>

\* There is no memory for the address: the path is removed again.
MkFifoFails(f, n) ==
  /\ Mountable(f) /\ Asserted(f)
  /\ n \notin names
  /\ names' = (names \cup {n}) \ {n}
  /\ UNCHANGED <<build, obj, open, watch, accepted, robbed, lost, left>>

\* A file is not watched.
OpenFile(f, d) ==
  /\ Mountable(f)
  /\ d \in Unused
  /\ open' = open \cup {d}
  /\ Carry(f, "file", {d}, obj[f].address, FALSE)
  /\ UNCHANGED <<build, watch, accepted, names>>

EventFd(f, d) ==
  /\ Mountable(f)
  /\ d \in Unused
  /\ open' = open \cup {d}
  /\ Carry(f, "eventFd", {d}, obj[f].address, FALSE)
  /\ Poll(f, Both(d))
  /\ UNCHANGED <<build, accepted, names>>

\* Mutant: what a failed accept returns is handed on as a connection.
AcceptUnchecked(f, number) ==
  LET d == IF number \in Unused THEN number ELSE Nobody IN
  /\ Running
  /\ obj[f].family \in {"local", "ipv4", "ipv6"}
  /\ open' = open \cup ({d} \cap Numbers)
  /\ accepted' = accepted \cup {<<d, obj[f].family>>}
  /\ UNCHANGED <<build, obj, watch, names, robbed, lost, left>>

\* action::waitAccept on a listening socket: a connection of its family.  (When
\* accept fails the handler is given -1, which no program may mount.)
Accept(f, d) ==
  /\ Running
  /\ obj[f].family \in {"local", "ipv4", "ipv6"}
  /\ d \in Unused
  /\ open' = open \cup {d}
  /\ accepted' = accepted \cup {<<d, obj[f].family>>}
  /\ UNCHANGED <<build, obj, watch, names, robbed, lost, left>>

\* An accepted local socket carries no path.
MkFdSock(f, d, family) ==
  /\ Mountable(f)
  /\ <<d, family>> \in accepted
  /\ accepted' = accepted \ {<<d, family>>}
  /\ Carry(f, family, {d}, Nobody, FALSE)
  /\ Poll(f, Both(d))
  /\ UNCHANGED <<build, open, names>>

-----------------------------------------------------------------------------
(***************************************************************************)
(* Readiness                                                               *)
(***************************************************************************)

\* processEvents takes data.ptr for the instance the event is for.
Event(d, way) ==
  LET f == watch[d].to IN
  /\ Running
  /\ way \in watch[d].ways
  /\ obj[f].made
  /\ obj' = [obj EXCEPT ![f].mask = @ \cup {way}]
  /\ UNCHANGED <<build, open, watch, accepted, names, robbed, lost, left>>

\* There is no instance any more: undefined behaviour.
EventWild(d) ==
  /\ Running
  /\ watch[d].ways # {}
  /\ ~obj[watch[d].to].made
  /\ build' = "wild"
  /\ UNCHANGED <<obj, open, watch, accepted, names, robbed, lost, left>>

\* action::read, write or propBack: the bit is unset.
Unready(f, way) ==
  /\ Running
  /\ way \in obj[f].mask
  /\ obj' = [obj EXCEPT ![f].mask = @ \ {way}]
  /\ UNCHANGED <<build, open, watch, accepted, names, robbed, lost, left>>

-----------------------------------------------------------------------------
(***************************************************************************)
(* release and the destructor.  Closing the last descriptor of a file      *)
(* takes it out of the epoll set.  The mask stays as it is.                *)
(***************************************************************************)
Close(ds) ==
  /\ open' = open \ ds
  /\ watch' = [d \in Numbers |-> IF d \in ds THEN Unwatched ELSE watch[d]]
  /\ lost' = lost \ ds

\* unlink, for a local socket or a fifo that has an address, whoever made it.
Unlink(f) ==
  LET gone   == IF obj[f].family \in {"local", "fifo"} THEN {obj[f].address} ELSE {}
      makers == {g \in Fds : obj[g].maker /\ obj[g].address \in gone}
  IN  /\ names' = names \ gone
      /\ left' = left \ gone
      /\ robbed' = (robbed \cup makers) \ {f}

\* Mutant: the family stays, so what is released is released again.
ReleaseKeepsFamily(f) ==
  /\ Running
  /\ obj[f].made
  /\ Close(obj[f].ends)
  /\ Unlink(f)
  /\ obj' = [obj EXCEPT ![f].maker = FALSE]
  /\ UNCHANGED <<build, accepted>>

\* Mutant: the path is not removed.
ReleaseKeepsName(f) ==
  /\ Running
  /\ obj[f].made
  /\ Close(obj[f].ends)
  /\ obj' = [obj EXCEPT ![f] = [@ EXCEPT !.family = "none", !.ends = {},
                                         !.maker = FALSE]]
  /\ UNCHANGED <<build, accepted, names, robbed, left>>

\* The numbers stay in localfd, but the family decides what is closed.
Release(f) ==
  /\ Running
  /\ obj[f].made
  /\ Close(obj[f].ends)
  /\ Unlink(f)
  /\ obj' = [obj EXCEPT ![f] = [@ EXCEPT !.family = "none", !.ends = {},
                                         !.maker = FALSE]]
  /\ UNCHANGED <<build, accepted>>

\* Mutant: the destructor leaves the descriptor to whoever copied it.
DestroyOnly(f) ==
  /\ Running
  /\ obj[f].made
  /\ obj' = [obj EXCEPT ![f] = Blank]
  /\ UNCHANGED <<build, open, watch, accepted, names, robbed, lost, left>>

Destroy(f) ==
  /\ Running
  /\ obj[f].made
  /\ Close(obj[f].ends)
  /\ Unlink(f)
  /\ obj' = [obj EXCEPT ![f] = Blank]
  /\ UNCHANGED <<build, accepted>>

-----------------------------------------------------------------------------
Make(f) ==
  \/ \E n \in Names : MkFifo(f, n) \/ MkFifoFails(f, n)
  \/ LocalAborts(f) \/ AssertFails(f)
  \/ \E c \in accepted : MkFdSock(f, c[1], c[2])
  \/ \E d \in Numbers :
       \/ \E family \in {"ipv4", "ipv6"} : Socket(f, family, d)
       \/ \E n \in Names, bind \in BOOLEAN : LocalSocket(f, n, bind, d)
       \/ \E e \in Numbers : Pipe(f, d, e)
       \/ BindFails(f, d) \/ OpenFile(f, d) \/ EventFd(f, d)

Next ==
  \/ \E f \in Fds : Construct(f) \/ Make(f) \/ Release(f) \/ Destroy(f)
  \/ \E f \in Fds, d \in Numbers : Accept(f, d)
  \/ \E f \in Fds, way \in Ways : Unready(f, way)
  \/ \E d \in Numbers, way \in Ways : Event(d, way)
  \/ \E d \in Numbers : EventWild(d)

Spec == Init /\ [][Next]_vars

-----------------------------------------------------------------------------
(***************************************************************************)
(* Properties                                                              *)
(***************************************************************************)
Instance == [made : BOOLEAN, family : Families, ends : SUBSET Numbers,
             address : Names \cup {Nobody}, maker : BOOLEAN,
             mask : SUBSET Ways]

\* Every variable keeps its type: no failure makes something a number, a path or
\* an instance that is none.
TypeOK ==
  /\ build \in {"asserts", "ndebug", "aborted", "wild"}
  /\ obj \in [Fds -> Instance]
  /\ open \subseteq Numbers
  /\ watch \in [Numbers -> [to : Fds \cup {Nobody}, ways : SUBSET Ways]]
  /\ accepted \subseteq Numbers \X Families
  /\ names \subseteq Names /\ robbed \subseteq Fds
  /\ lost \subseteq Numbers /\ left \subseteq Names

Waiting == {c[1] : c \in accepted}

\* Whatever fails and whatever is mounted over, every open number is carried by
\* one instance, or is a connection that waits for one, or was lost by a mount
\* over the instance that carried it: nothing else loses a number, and since
\* closed numbers come back, none is closed by an instance that had it before.
NumbersOwned ==
  /\ open = Waiting \cup lost \cup UNION {obj[f].ends : f \in Fds}
  /\ lost \cap Waiting = {}
  /\ \A f \in Fds : obj[f].ends \cap (lost \cup Waiting) = {}
  /\ \A f, g \in Fds : f # g => obj[f].ends \cap obj[g].ends = {}
  /\ \A f \in Fds : obj[f].family = "none" => obj[f].ends = {}

\* The pointer epoll hands to processEvents is the instance that carries the
\* number the event is for, and that instance exists, unless a mount lost the
\* number: releasing, destroying and using an instance again lead no event astray.
EventsFindOwner ==
  \A d \in Numbers : watch[d].to # Nobody /\ d \notin lost =>
    obj[watch[d].to].made /\ d \in obj[watch[d].to].ends

\* A path exists exactly as long as the instance that made it carries it, with
\* two exceptions: a local socket that was not bound takes the path of its peer
\* with it, and the path of a maker that is mounted over stays until some
\* instance with the same address is released.
PathsMatch ==
  /\ names = left \cup {obj[f].address : f \in {g \in Fds : obj[g].maker} \ robbed}
  /\ \A f \in Fds \ robbed : obj[f].maker => obj[f].address \notin left
=============================================================================
