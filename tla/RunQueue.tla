------------------------------- MODULE RunQueue -------------------------------
(***************************************************************************)
(* buffio::Queue, the circular doubly linked list every queue of the       *)
(* scheduler is made of, with buffio::Memory, the pool its entries come    *)
(* from.  The list is intrusive: next and prev lie in the entry, and the   *)
(* pool keeps its free list in the chksum word beside the entry, which     *)
(* holds the pool's check sum while the entry is in use.                   *)
(*                                                                         *)
(* The list and the pool belong to the loop's thread, so an operation is   *)
(* one step.  The caller pushes only entries it holds, as the scheduler    *)
(* does.                                                                   *)
(***************************************************************************)
EXTENDS Integers, Sequences, FiniteSets

CONSTANTS
  PageSize,   \* pageFragmentCount: fragments of a page
  MaxPages,   \* bound: the pages the allocator grants
  Null,       \* nullptr
  ChkSum      \* the pool's check sum

ASSUME QueueAssumption ==
  /\ PageSize \in Nat \ {0}
  /\ MaxPages \in Nat \ {0}
  /\ Null \notin Nat /\ ChkSum \notin Nat /\ Null # ChkSum

Fragments == 1 .. PageSize * MaxPages

VARIABLES
  head, count, next, prev,  \* the list
  pool,                     \* the free list, the chksum words, the pages made
  held                      \* entries in use outside the list

vars == <<head, count, next, prev, pool, held>>

-----------------------------------------------------------------------------
(***************************************************************************)
(* Memory                                                                  *)
(***************************************************************************)
PushFragment(m, f) ==
  [m EXCEPT !.fragments = f, !.chksum[f] = m.fragments]

\* makePage: the fragments of the new page are pushed one after the other.
MakePage(m) ==
  LET first == m.pages * PageSize + 1
      last == first + PageSize - 1
  IN  [pages |-> m.pages + 1, fragments |-> last,
       chksum |-> [f \in Fragments |->
                     IF f \notin first .. last THEN m.chksum[f]
                     ELSE IF f = first THEN m.fragments ELSE f - 1]]

\* The allocator refuses a page beyond the bound.
Grown(m) ==
  IF m.fragments = Null /\ m.pages < MaxPages THEN MakePage(m) ELSE m

\* Mutant: the check sum is not written when a fragment is handed out.
Unmarked(m) == [m EXCEPT !.fragments = m.chksum[m.fragments]]

\* The fragment at the top of the free list is handed out.
Marked(m) ==
  [m EXCEPT !.fragments = m.chksum[m.fragments], !.chksum[m.fragments] = ChkSum]

\* Memory::push: a page is made first when no fragment is free.
Recycle(m, f) == PushFragment(Grown(m), f)

-----------------------------------------------------------------------------
Init ==
  /\ head = Null /\ count = 0
  /\ next = [f \in Fragments |-> Null]
  /\ prev = [f \in Fragments |-> Null]
  /\ pool = MakePage([pages |-> 0, fragments |-> Null,
                      chksum |-> [f \in Fragments |-> Null]])
  /\ held = {}

\* Mutant: nobody looks whether the new page was made.
GetEntryUnchecked ==
  LET m == Grown(pool) IN
  /\ pool' = IF m.fragments = Null THEN m ELSE Marked(m)
  /\ held' = held \cup {m.fragments}
  /\ UNCHANGED <<head, count, next, prev>>

\* getEntry: memory.pop, with a new page when no fragment is free.
GetEntry ==
  LET m == Grown(pool) IN
  /\ m.fragments # Null
  /\ pool' = Marked(m)
  /\ held' = held \cup {m.fragments}
  /\ UNCHANGED <<head, count, next, prev>>

\* Mutant: the old last entry is not linked to the new one.
LinkHalf(f) ==
  /\ next' = [next EXCEPT ![f] = head]
  /\ prev' = [prev EXCEPT ![f] = prev[head], ![head] = f]

\* f is linked in before the head, which makes it the last entry.
LinkLast(f) ==
  /\ next' = [next EXCEPT ![f] = head, ![prev[head]] = f]
  /\ prev' = [prev EXCEPT ![f] = prev[head], ![head] = f]

LinkAlone(f) ==
  /\ next' = [next EXCEPT ![f] = f]
  /\ prev' = [prev EXCEPT ![f] = f]

Push(f) ==
  /\ f \in held
  /\ held' = held \ {f}
  /\ count' = count + 1
  /\ IF head = Null THEN LinkAlone(f) /\ head' = f
                    ELSE LinkLast(f) /\ UNCHANGED head
  /\ UNCHANGED pool

PushHead(f) ==
  /\ f \in held
  /\ held' = held \ {f}
  /\ count' = count + 1
  /\ IF head = Null THEN LinkAlone(f) ELSE LinkLast(f)
  /\ head' = f
  /\ UNCHANGED pool

\* Mutant: the head stays on the entry that was popped.
UnlinkBehind(f) ==
  /\ count' = count - 1
  /\ IF f = next[f]
     THEN head' = Null /\ UNCHANGED <<next, prev>>
     ELSE /\ next' = [next EXCEPT ![prev[f]] = next[f]]
          /\ prev' = [prev EXCEPT ![next[f]] = prev[f]]
          /\ UNCHANGED head

\* f leaves the list; the next entry becomes the head when f was.
Unlink(f) ==
  /\ count' = count - 1
  /\ IF f = next[f]
     THEN head' = Null /\ UNCHANGED <<next, prev>>
     ELSE /\ next' = [next EXCEPT ![prev[f]] = next[f]]
          /\ prev' = [prev EXCEPT ![next[f]] = prev[f]]
          /\ head' = IF head = f THEN next[f] ELSE head

Erase ==
  /\ count # 0
  /\ Unlink(head)
  /\ held' = held \cup {head}
  /\ UNCHANGED pool

Pop ==
  /\ count # 0
  /\ Unlink(head)
  /\ pool' = Recycle(pool, head)
  /\ UNCHANGED held

\* n entries of a chain that starts at f.
Chain(link, f, n) ==
  LET c[i \in 1 .. n] == IF i = 1 THEN f ELSE link[c[i - 1]] IN c

Line == Chain(next, head, count)
RangeOf(s) == {s[i] : i \in DOMAIN s}

\* pop(frag): an entry of the queue, from any position.
PopEntry(f) ==
  /\ count # 0
  /\ f \in RangeOf(Line)
  /\ Unlink(f)
  /\ pool' = Recycle(pool, f)
  /\ UNCHANGED held

\* mvNext
Rotate ==
  /\ count # 0
  /\ head' = next[head]
  /\ UNCHANGED <<count, next, prev, pool, held>>

Next ==
  \/ GetEntry \/ Erase \/ Pop \/ Rotate
  \/ \E f \in Fragments : Push(f) \/ PushHead(f) \/ PopEntry(f)

Spec == Init /\ [][Next]_vars

-----------------------------------------------------------------------------
(***************************************************************************)
(* Properties                                                              *)
(***************************************************************************)

\* Links are fragments of the pool, and the head is null or one of them.
TypeOK ==
  /\ count \in 0 .. Cardinality(Fragments)
  /\ head \in Fragments \cup {Null}
  /\ next \in [Fragments -> Fragments \cup {Null}]
  /\ prev \in [Fragments -> Fragments \cup {Null}]
  /\ pool \in [pages : 1 .. MaxPages, fragments : Fragments \cup {Null},
               chksum : [Fragments -> Fragments \cup {Null, ChkSum}]]
  /\ held \subseteq Fragments

\* The list stays circular in both directions whatever is pushed, erased and
\* popped at either end: count steps along next lead through count different
\* entries back to the head, and prev undoes next.  head is null exactly when
\* count is zero, which is what empty() answers by.
Circular ==
  IF count = 0 THEN head = Null
  ELSE /\ Cardinality(RangeOf(Line)) = count
       /\ next[Line[count]] = head
       /\ \A f \in RangeOf(Line) : prev[next[f]] = f

\* Every fragment of every page is free, in the queue or held, and only one of
\* these.  The free list ends; the check sum marks exactly the entries in use,
\* so the assertion in Memory::push never fails on an entry of the queue.
NoneLeaked ==
  LET inUse == RangeOf(Line) \cup held
      nfree == pool.pages * PageSize - count - Cardinality(held)
      free  == Chain(pool.chksum, pool.fragments, nfree)
  IN  /\ RangeOf(Line) \cap held = {}
      /\ RangeOf(free) \cup inUse = 1 .. pool.pages * PageSize
      /\ IF nfree = 0 THEN pool.fragments = Null
                      ELSE pool.chksum[free[nfree]] = Null
      /\ \A f \in 1 .. pool.pages * PageSize :
           pool.chksum[f] = ChkSum <=> f \in inUse

Promised ==
  INSTANCE EntryQueue WITH Entries <- Fragments, line <- Line

\* Seen by the scheduler, list and pool are a sequence of entries: no
\* operation reorders, loses or doubles another entry, and none hands out an
\* entry that is still in use.
IsEntryQueue == Promised!Spec
=============================================================================
