---------------------------- MODULE RoutinesProofs ----------------------------
(***************************************************************************)
(* Theorems about Routines for any routines and callbacks, any pool and    *)
(* any number of turns.                                                    *)
(***************************************************************************)
EXTENDS Routines, FiniteSetTheorems, TLAPS

-----------------------------------------------------------------------------
(***************************************************************************)
(* Sequences of entries, each of which occurs once.                        *)
(***************************************************************************)
Once(s) == \A i, j \in DOMAIN s : s[i] = s[j] => i = j

\* An entry put last.
LEMMA AppendOnce ==
  ASSUME NEW s \in Seq(Entries), NEW e \in Entries, Once(s), e \notin RangeOf(s)
  PROVE  /\ Append(s, e) \in Seq(Entries)
         /\ RangeOf(Append(s, e)) = RangeOf(s) \cup {e}
         /\ Once(Append(s, e))
         /\ s # << >> => Head(Append(s, e)) = Head(s)
<1> DEFINE t == Append(s, e)
<1>1. /\ t \in Seq(Entries) /\ Len(t) = Len(s) + 1 /\ Len(s) \in Nat
      /\ DOMAIN t = 1 .. Len(s) + 1 /\ DOMAIN s = 1 .. Len(s)
      /\ \A i \in 1 .. Len(s) : t[i] = s[i]
      /\ t[Len(s) + 1] = e
  OBVIOUS
<1>2. s # << >> => Head(t) = Head(s)
  BY <1>1
<1> HIDE DEF t
<1>3. RangeOf(t) = RangeOf(s) \cup {e}
  <2>1. \A i \in DOMAIN t : t[i] \in RangeOf(s) \cup {e}
    <3> SUFFICES ASSUME NEW i \in DOMAIN t PROVE t[i] \in RangeOf(s) \cup {e}
      OBVIOUS
    <3>1. i \in 1 .. Len(s) \/ i = Len(s) + 1
      BY <1>1
    <3> QED BY <1>1, <3>1 DEF RangeOf
  <2>2. \A i \in DOMAIN s : s[i] \in RangeOf(t)
    <3> SUFFICES ASSUME NEW i \in DOMAIN s PROVE s[i] \in RangeOf(t)
      OBVIOUS
    <3>1. i \in DOMAIN t /\ t[i] = s[i]
      BY <1>1
    <3> QED BY <3>1 DEF RangeOf
  <2>3. e \in RangeOf(t)
    <3>1. Len(s) + 1 \in DOMAIN t
      BY <1>1
    <3> QED BY <1>1, <3>1 DEF RangeOf
  <2> QED BY <2>1, <2>2, <2>3 DEF RangeOf
<1>4. Once(t)
  <2> SUFFICES ASSUME NEW i \in DOMAIN t, NEW j \in DOMAIN t, t[i] = t[j]
               PROVE  i = j
    BY DEF Once
  <2>1. \A k \in 1 .. Len(s) : s[k] # e
    BY <1>1 DEF RangeOf
  <2>2. CASE i \in 1 .. Len(s) /\ j \in 1 .. Len(s)
    BY <1>1, <2>2 DEF Once
  <2>3. CASE i = Len(s) + 1 \/ j = Len(s) + 1
    BY <1>1, <2>1, <2>3
  <2> QED BY <1>1, <2>2, <2>3
<1> QED BY <1>1, <1>2, <1>3, <1>4 DEF t

\* The first entry taken away.
LEMMA TailOnce ==
  ASSUME NEW s \in Seq(Entries), s # << >>, Once(s)
  PROVE  /\ Tail(s) \in Seq(Entries) /\ Head(s) \in Entries
         /\ Head(s) \in RangeOf(s)
         /\ RangeOf(Tail(s)) = RangeOf(s) \ {Head(s)}
         /\ Once(Tail(s))
<1> DEFINE t == Tail(s)
<1>1. /\ t \in Seq(Entries) /\ Len(s) \in Nat \ {0} /\ Len(t) = Len(s) - 1
      /\ DOMAIN t = 1 .. Len(s) - 1 /\ DOMAIN s = 1 .. Len(s)
      /\ \A i \in 1 .. Len(s) - 1 : t[i] = s[i + 1]
      /\ Head(s) = s[1] /\ Head(s) \in Entries
  OBVIOUS
<1> HIDE DEF t
<1>2. Head(s) \in RangeOf(s)
  BY <1>1 DEF RangeOf
<1>3. RangeOf(t) = RangeOf(s) \ {Head(s)}
  <2>1. \A i \in DOMAIN t : t[i] \in RangeOf(s) /\ t[i] # Head(s)
    <3> SUFFICES ASSUME NEW i \in DOMAIN t
                 PROVE  t[i] \in RangeOf(s) /\ t[i] # Head(s)
      OBVIOUS
    <3>1. i + 1 \in DOMAIN s /\ 1 \in DOMAIN s /\ i + 1 # 1 /\ t[i] = s[i + 1]
      BY <1>1
    <3> QED BY <1>1, <3>1 DEF RangeOf, Once
  <2>2. \A i \in DOMAIN s : s[i] = Head(s) \/ s[i] \in RangeOf(t)
    <3> SUFFICES ASSUME NEW i \in DOMAIN s, i # 1 PROVE s[i] \in RangeOf(t)
      BY <1>1
    <3>1. i - 1 \in DOMAIN t /\ t[i - 1] = s[i]
      BY <1>1
    <3> QED BY <3>1 DEF RangeOf
  <2> QED BY <2>1, <2>2 DEF RangeOf
<1>4. Once(t)
  <2> SUFFICES ASSUME NEW i \in DOMAIN t, NEW j \in DOMAIN t, t[i] = t[j]
               PROVE  i = j
    BY DEF Once
  <2>1. i + 1 \in DOMAIN s /\ j + 1 \in DOMAIN s /\ s[i + 1] = s[j + 1]
    BY <1>1
  <2>2. i + 1 = j + 1
    BY <2>1 DEF Once
  <2> QED BY <1>1, <2>2
<1> QED BY <1>1, <1>2, <1>3, <1>4 DEF t

\* An entry put first.
LEMMA PushOnce ==
  ASSUME NEW s \in Seq(Entries), NEW e \in Entries, Once(s), e \notin RangeOf(s)
  PROVE  /\ <<e>> \o s \in Seq(Entries)
         /\ RangeOf(<<e>> \o s) = RangeOf(s) \cup {e}
         /\ Once(<<e>> \o s)
<1> DEFINE t == <<e>> \o s
<1>1. /\ t \in Seq(Entries) /\ Len(t) = Len(s) + 1 /\ Len(s) \in Nat
      /\ DOMAIN t = 1 .. Len(s) + 1 /\ DOMAIN s = 1 .. Len(s)
      /\ t[1] = e
      /\ \A i \in 1 .. Len(s) : t[i + 1] = s[i]
  OBVIOUS
<1> HIDE DEF t
<1>2. RangeOf(t) = RangeOf(s) \cup {e}
  <2>1. \A i \in DOMAIN t : t[i] \in RangeOf(s) \cup {e}
    <3> SUFFICES ASSUME NEW i \in DOMAIN t, i # 1 PROVE t[i] \in RangeOf(s)
      BY <1>1
    <3>1. i - 1 \in 1 .. Len(s) /\ (i - 1) + 1 = i
      BY <1>1
    <3>2. t[i] = s[i - 1]
      BY <1>1, <3>1
    <3> QED BY <1>1, <3>1, <3>2 DEF RangeOf
  <2>2. \A i \in DOMAIN s : s[i] \in RangeOf(t)
    <3> SUFFICES ASSUME NEW i \in DOMAIN s PROVE s[i] \in RangeOf(t)
      OBVIOUS
    <3>1. i + 1 \in DOMAIN t /\ t[i + 1] = s[i]
      BY <1>1
    <3> QED BY <3>1 DEF RangeOf
  <2>3. e \in RangeOf(t)
    <3>1. 1 \in DOMAIN t
      BY <1>1
    <3> QED BY <1>1, <3>1 DEF RangeOf
  <2> QED BY <2>1, <2>2, <2>3 DEF RangeOf
<1>3. Once(t)
  <2> SUFFICES ASSUME NEW i \in DOMAIN t, NEW j \in DOMAIN t, t[i] = t[j]
               PROVE  i = j
    BY DEF Once
  <2>1. \A k \in DOMAIN t : k # 1 => k - 1 \in DOMAIN s /\ t[k] = s[k - 1]
    <3> SUFFICES ASSUME NEW k \in DOMAIN t, k # 1
                 PROVE  k - 1 \in DOMAIN s /\ t[k] = s[k - 1]
      OBVIOUS
    <3>1. k - 1 \in 1 .. Len(s) /\ (k - 1) + 1 = k
      BY <1>1
    <3> QED BY <1>1, <3>1
  <2>2. \A k \in DOMAIN s : s[k] # e
    BY DEF RangeOf
  <2>3. CASE i = 1 \/ j = 1
    BY <1>1, <2>1, <2>2, <2>3
  <2>4. CASE i # 1 /\ j # 1
    <3>1. i - 1 = j - 1
      BY <2>1, <2>4 DEF Once
    <3> QED BY <1>1, <3>1
  <2> QED BY <2>3, <2>4
<1> QED BY <1>1, <1>2, <1>3 DEF t

-----------------------------------------------------------------------------
(***************************************************************************)
(* The inductive invariant.  An entry is in one place, and in the queue or *)
(* the free list once (PlacesInv); an entry that is a waiter is in none of *)
(* them and is the waiter of one entry (WaiterInv), however often that one *)
(* was used again; entries in use hold different routines (ApartInv),      *)
(* which have a frame (AliveInv), in clean() as long as they are queued.   *)
(***************************************************************************)
Active == Queued \cup timers \cup requests
Awaited == {e \in Entries : \E f \in Entries : waiter[f] = e}
Used == Active \cup Awaited

PlacesInv ==
  /\ Once(line) /\ Once(free)
  /\ \A e \in Entries :
       /\ e \in RangeOf(free) => e \notin Used
       /\ e \in Awaited => e \notin Active
       /\ e \in Queued => e \notin timers /\ e \notin requests
       /\ e \in timers => e \notin requests

AliveInv == \A e \in Active : task[e] \in Routines => task[e] \in Alive

ApartInv ==
  \A e, f \in Used : task[e] \in Routines /\ task[e] = task[f] => e = f

WaiterInv ==
  /\ \A e, f \in Entries : waiter[e] = waiter[f] /\ waiter[e] # Unset => e = f
  /\ \A e \in Entries : waiter[e] # Unset =>
       /\ task[waiter[e]] \in Routines
       /\ phase \notin {"clean", "over"} \/ e \in Queued
            => task[waiter[e]] \in Alive

Inv == TypeOK /\ PlacesInv /\ AliveInv /\ ApartInv /\ WaiterInv

\* Where entries may be.
LEMMA Within ==
  ASSUME TypeOK
  PROVE  /\ Queued \subseteq Entries /\ RangeOf(free) \subseteq Entries
         /\ Active \subseteq Entries /\ Awaited \subseteq Entries
         /\ Used \subseteq Entries
         /\ \A e \in Entries : waiter[e] # Unset =>
              waiter[e] \in Entries /\ waiter[e] \in Awaited
<1>1. Queued \subseteq Entries
  <2>1. line \in Seq(Entries)
    BY DEF TypeOK
  <2> QED BY <2>1 DEF Queued, RangeOf
<1>2. RangeOf(free) \subseteq Entries
  <2>1. free \in Seq(Entries)
    BY DEF TypeOK
  <2> QED BY <2>1 DEF RangeOf
<1>3. timers \subseteq Entries /\ requests \subseteq Entries
  BY DEF TypeOK
<1>4. \A e \in Entries : waiter[e] # Unset =>
        waiter[e] \in Entries /\ waiter[e] \in Awaited
  <2>1. \A e \in Entries : waiter[e] \in Entries \cup {Unset}
    BY DEF TypeOK
  <2> QED BY <2>1 DEF Awaited
<1> QED BY <1>1, <1>2, <1>3, <1>4 DEF Active, Awaited, Used

\* Before clean() the routines of all entries in use have a frame.
LEMMA UsedAlive ==
  ASSUME Inv, phase \notin {"clean", "over"}
  PROVE  \A e \in Used : task[e] \in Routines => task[e] \in Alive
<1> SUFFICES ASSUME NEW e \in Used, task[e] \in Routines PROVE task[e] \in Alive
  OBVIOUS
<1>1. CASE e \in Active
  BY <1>1 DEF Inv, AliveInv
<1>2. CASE e \in Awaited
  <2>1. PICK f \in Entries : waiter[f] = e
    BY <1>2 DEF Awaited
  <2>2. e # Unset
    BY <1>2, RoutineAssumption DEF Awaited
  <2> QED BY <2>1, <2>2 DEF Inv, WaiterInv
<1> QED BY <1>1, <1>2 DEF Used

\* At the start every entry is free.
LEMMA InitInv == Init => Inv
<1> SUFFICES ASSUME Init PROVE Inv
  OBVIOUS
<1> USE RoutineAssumption DEF Init
<1>1. Unset \notin Entries /\ Unset \notin Routines
  OBVIOUS
<1>2. TypeOK
  <2>1. free \in Seq(Entries)
    <3>1. free \in [1 .. PoolSize -> Entries]
      BY DEF Entries
    <3> QED BY <3>1
  <2>2. turns \in 0 .. MaxTurns
    OBVIOUS
  <2>7. beat \in BOOLEAN /\ exit \in BOOLEAN
    OBVIOUS
  <2>3. line \in Seq(Entries) /\ timers \subseteq Entries /\ requests \subseteq Entries
    OBVIOUS
  <2>4. /\ task \in [Entries -> Routines \cup Callbacks \cup {Unset}]
        /\ waiter \in [Entries -> Entries \cup {Unset}]
        /\ awaits \in [Routines -> Routines \cup {Unset}]
    OBVIOUS
  <2>5. life \in [Routines -> {"none", "executing", "unhandledException", "destroyed"}]
    OBVIOUS
  <2>6. phase = "setup" /\ fault = "none"
    OBVIOUS
  <2> QED BY ONLY <2>1, <2>2, <2>3, <2>4, <2>5, <2>6, <2>7 DEF TypeOK
<1>3. Active = {} /\ Awaited = {}
  <2>1. Queued = {}
    BY DEF Queued, RangeOf
  <2> QED BY <1>1, <2>1 DEF Active, Awaited
<1>4. Once(line) /\ Once(free) /\ Queued = {}
  BY DEF Once, Queued, RangeOf, Entries
<1>5. PlacesInv
  BY <1>3, <1>4 DEF PlacesInv, Used
<1>6. AliveInv /\ ApartInv
  BY <1>3 DEF AliveInv, ApartInv, Used
<1>7. WaiterInv
  BY DEF WaiterInv
<1> QED BY <1>2, <1>5, <1>6, <1>7 DEF Inv

-----------------------------------------------------------------------------
(***************************************************************************)
(* Each step keeps the invariant.                                          *)
(***************************************************************************)

\* A push, of a routine that had no frame or of a function.
LEMMA PushKeeps ==
  ASSUME Inv, NEW what \in Routines \cup Callbacks, InProgram, Enter(what, line),
         \/ /\ what \in Routines /\ life[what] = "none"
            /\ life' = [life EXCEPT ![what] = "executing"]
         \/ what \in Callbacks /\ life' = life,
         UNCHANGED <<phase, waiter, timers, requests, awaits, bounds, exit,
                     fault>>
  PROVE  Inv'
<1> USE DEF Inv
<1> DEFINE x == Head(free)
<1>1. /\ x \in Entries /\ x \in RangeOf(free)
      /\ free' \in Seq(Entries) /\ RangeOf(free') = RangeOf(free) \ {x}
      /\ Once(free')
  BY TailOnce DEF Enter, TypeOK, PlacesInv
<1>2. x \notin Used
  BY <1>1 DEF PlacesInv
<1>3. x \notin Queued
  BY <1>2 DEF Used, Active
<1>4. /\ line' \in Seq(Entries) /\ Queued' = Queued \cup {x} /\ Once(line')
  BY <1>1, <1>3, AppendOnce DEF Enter, TypeOK, PlacesInv, Queued
<1>5. task' = [task EXCEPT ![x] = what] /\ waiter' = waiter /\ phase' = phase
      /\ timers' = timers /\ requests' = requests
  BY DEF Enter
<1> HIDE DEF x
<1>6. Active' = Active \cup {x} /\ Awaited' = Awaited /\ Used' = Used \cup {x}
  BY <1>4, <1>5 DEF Active, Awaited, Used
<1>7. TypeOK'
  BY <1>1, <1>4, <1>5 DEF TypeOK, bounds
<1>8. PlacesInv'
  BY <1>1, <1>2, <1>3, <1>4, <1>5, <1>6 DEF PlacesInv, Used, Active
<1>9. Alive \subseteq Alive' /\ (what \in Routines => what \in Alive' \ Alive)
  BY RoutineAssumption DEF Alive, TypeOK
<1>10. /\ task'[x] = what
       /\ \A e \in Entries : e # x => task'[e] = task[e]
  BY <1>1, <1>5 DEF TypeOK
<1>11. AliveInv'
  BY <1>6, <1>9, <1>10, Within DEF AliveInv
<1>12. phase \notin {"clean", "over"}
  BY DEF InProgram
<1>13. \A e \in Used : task[e] \in Routines => task[e] \in Alive
  BY <1>12, UsedAlive
<1>14. ApartInv'
  BY <1>2, <1>6, <1>9, <1>10, <1>13, Within DEF ApartInv
<1>15. WaiterInv'
  <2>1. \A e \in Entries : waiter[e] # Unset => waiter[e] # x
    BY <1>2, Within DEF Used
  <2> QED BY <1>5, <1>9, <1>10, <1>12, <2>1, Within DEF WaiterInv
<1> QED BY <1>7, <1>8, <1>11, <1>14, <1>15

\* An entry is popped and some frames are destroyed, none of which an entry
\* still in use, or the waiter of one, holds.
LEMMA PopKeeps ==
  ASSUME Inv, line # << >>, Pop, NEW Dead \in SUBSET Routines,
         life' = [r \in Routines |-> IF r \in Dead THEN "destroyed" ELSE life[r]],
         UNCHANGED <<phase, timers, requests, task, waiter, awaits, bounds, exit, fault>>,
         \A e \in Active \ {Head(line)} : task[e] \notin Dead,
         \A e \in Entries :
           waiter[e] # Unset /\ (phase \notin {"clean", "over"}
                                   \/ e \in Queued \ {Head(line)})
             => task[waiter[e]] \notin Dead
  PROVE  Inv'
<1> USE DEF Inv
<1> DEFINE x == Head(line)
<1>1. /\ x \in Entries /\ x \in Queued /\ Once(line')
      /\ line' \in Seq(Entries) /\ Queued' = Queued \ {x}
  BY TailOnce DEF Pop, TypeOK, PlacesInv, Queued
<1>2. x \notin RangeOf(free)
  BY <1>1 DEF PlacesInv, Used, Active
<1>3. /\ free' \in Seq(Entries) /\ RangeOf(free') = RangeOf(free) \cup {x}
      /\ Once(free')
  BY <1>1, <1>2, PushOnce DEF Pop, TypeOK, PlacesInv
<1> HIDE DEF x
<1>4. x \notin timers /\ x \notin requests /\ x \notin Awaited
  BY <1>1 DEF PlacesInv, Active
<1>5. /\ Active' = Active \ {x} /\ Awaited' = Awaited /\ Used' = Used \ {x}
  BY <1>1, <1>4 DEF Active, Awaited, Used
<1>6. TypeOK'
  BY <1>1, <1>3 DEF TypeOK, bounds
<1>7. PlacesInv'
  BY <1>1, <1>3, <1>4, <1>5 DEF PlacesInv, Used, Active
<1>8. \A r \in Alive : r \notin Dead => r \in Alive'
  BY DEF Alive
<1>9. AliveInv'
  BY <1>5, <1>8 DEF AliveInv, x
<1>10. ApartInv'
  BY <1>5 DEF ApartInv
<1>11. WaiterInv'
  BY <1>1, <1>8 DEF WaiterInv, x
<1> QED BY <1>6, <1>7, <1>9, <1>10, <1>11

\* A routine returns: nobody else's entry and no waiter holds it.
LEMMA ReturnKeeps ==
  ASSUME Inv, NEW r \in Routines, Return(r)
  PROVE  Inv'
<1> DEFINE x == Head(line)
           Dead == {r}
<1>1. /\ line # << >> /\ task[x] = r /\ phase = "yield" /\ r \in Alive
  BY DEF Return, Running, Alive
<1>2. x \in Queued /\ x \in Entries
  BY <1>1, TailOnce DEF Inv, TypeOK, PlacesInv, Queued
<1>3. \A e \in Used : task[e] = r => e = x
  BY <1>1, <1>2 DEF Inv, ApartInv, Used, Active
<1>4. x \notin Awaited
  BY <1>2 DEF Inv, PlacesInv, Active
<1>5. \A e \in Active \ {x} : task[e] \notin Dead
  BY <1>3 DEF Used
<1>6. \A e \in Entries :
        waiter[e] # Unset /\ (phase \notin {"clean", "over"}
                                \/ e \in Queued \ {x})
          => task[waiter[e]] \notin Dead
  BY <1>3, <1>4, Within DEF Used, Inv
<1>7. life' = [q \in Routines |-> IF q \in Dead THEN "destroyed" ELSE life[q]]
  BY DEF Return, Inv, TypeOK
<1>8. Pop /\ UNCHANGED <<phase, timers, requests, task, waiter, awaits, bounds,
                         exit, fault>>
  BY DEF Return
<1>9. Dead \in SUBSET Routines
  OBVIOUS
<1> HIDE DEF Dead
<1> QED BY <1>1, <1>9, <1>5, <1>6, <1>7, <1>8, PopKeeps

\* A function is called.
LEMMA CallKeeps ==
  ASSUME Inv, Call
  PROVE  Inv'
<1> DEFINE Dead == {}
<1>1. life' = [q \in Routines |-> IF q \in Dead THEN "destroyed" ELSE life[q]]
  BY DEF Call, Inv, TypeOK
<1>2. /\ Pop /\ line # << >>
      /\ UNCHANGED <<phase, timers, requests, task, waiter, awaits, bounds,
                     exit, fault>>
  BY DEF Call
<1>3. Dead \in SUBSET Routines /\ \A r : r \notin Dead
  OBVIOUS
<1> HIDE DEF Dead
<1> QED BY <1>1, <1>2, <1>3, PopKeeps

\* cleanQueue destroys the routine of an entry and of its waiter: entries and
\* waiters hold different routines, and no two entries have the same waiter.
LEMMA CleanEntryKeeps ==
  ASSUME Inv, CleanEntry
  PROVE  Inv'
<1> DEFINE x == Head(line)
           Dead == Doomed(x)
<1>1. /\ line # << >> /\ phase = "clean" /\ Dead \subseteq Routines /\ Pop
      /\ life' = [r \in Routines |-> IF r \in Dead THEN "destroyed" ELSE life[r]]
      /\ UNCHANGED <<phase, timers, requests, task, waiter, awaits, bounds,
                     exit, fault>>
  BY DEF CleanEntry
<1>2. x \in Queued /\ x \in Entries /\ x \in Active /\ x \in Used
  BY <1>1, TailOnce DEF Inv, TypeOK, PlacesInv, Queued, Active, Used
<1>3. \A r \in Dead : r = task[x] \/ (waiter[x] # Unset /\ r = task[waiter[x]])
  BY DEF Doomed
<1>4. waiter[x] # Unset => waiter[x] \in Awaited /\ waiter[x] \notin Active
  BY <1>2, Within DEF Inv, PlacesInv
<1>5. \A e \in Active \ {x} : task[e] \notin Dead
  <2> SUFFICES ASSUME NEW e \in Active, e # x, task[e] \in Dead PROVE FALSE
    OBVIOUS
  <2>1. task[e] \in Routines /\ e \in Used
    BY <1>1 DEF Used
  <2>2. CASE task[e] = task[x]
    BY <1>2, <2>1, <2>2 DEF Inv, ApartInv
  <2>3. CASE waiter[x] # Unset /\ task[e] = task[waiter[x]]
    <3>1. waiter[x] \in Used /\ waiter[x] # e
      BY <1>4, <2>3 DEF Used
    <3> QED BY <2>1, <2>3, <3>1 DEF Inv, ApartInv
  <2> QED BY <1>3, <2>2, <2>3
<1>6. \A e \in Entries : waiter[e] # Unset /\ e \in Queued \ {x}
        => task[waiter[e]] \notin Dead
  <2> SUFFICES ASSUME NEW e \in Entries, waiter[e] # Unset, e # x,
                      task[waiter[e]] \in Dead
               PROVE  FALSE
    OBVIOUS
  <2>1. waiter[e] \in Used /\ waiter[e] \notin Active /\ task[waiter[e]] \in Routines
    BY <1>1, Within DEF Used, Inv, PlacesInv
  <2>2. CASE task[waiter[e]] = task[x]
    BY <1>2, <2>1, <2>2 DEF Inv, ApartInv
  <2>3. CASE waiter[x] # Unset /\ task[waiter[e]] = task[waiter[x]]
    <3>1. waiter[x] \in Used
      BY <1>4, <2>3 DEF Used
    <3>2. waiter[e] = waiter[x]
      BY <2>1, <2>3, <3>1 DEF Inv, ApartInv
    <3> QED BY <1>2, <3>2 DEF Inv, WaiterInv
  <2> QED BY <1>3, <2>2, <2>3
<1> HIDE DEF Dead
<1> QED BY <1>1, <1>5, <1>6, PopKeeps

-----------------------------------------------------------------------------
\* An entry moves between the queue, the clock and the headers.
LEMMA MoveKeeps ==
  ASSUME Inv, Active' = Active, UNCHANGED <<free, task, waiter, life, awaits, fault>>,
         TypeOK', Once(line'), phase' = phase, phase \notin {"clean", "over"},
         \A e \in Entries :
           /\ e \in Queued' => e \notin timers' /\ e \notin requests'
           /\ e \in timers' => e \notin requests'
  PROVE  Inv'
<1> USE DEF Inv
<1>1. Awaited' = Awaited /\ Used' = Used /\ Alive' = Alive
  BY DEF Awaited, Used, Alive
<1>2. PlacesInv'
  BY <1>1 DEF PlacesInv
<1>3. AliveInv' /\ ApartInv' /\ WaiterInv'
  BY <1>1 DEF AliveInv, ApartInv, WaiterInv
<1> QED BY <1>2, <1>3

\* A delay that expires and a request that completes.
LEMMA DueKeeps ==
  ASSUME Inv, NEW e \in Entries, Expire(e) \/ Complete(e)
  PROVE  Inv'
<1> USE DEF Expire, Complete
<1>1. e \notin Queued /\ e \in Active /\ phase \in {"poll", "batch", "clock"}
  BY DEF Inv, PlacesInv, Active
<1>2. /\ line' \in Seq(Entries) /\ Queued' = Queued \cup {e} /\ Once(line')
  <2>1. line \in Seq(Entries) /\ Once(line) /\ e \notin RangeOf(line)
    BY <1>1 DEF Inv, TypeOK, PlacesInv, Queued
  <2>2. line' = Append(line, e)
    OBVIOUS
  <2> QED BY <2>1, <2>2, AppendOnce DEF Queued
<1>3. timers' \cup requests' \cup {e} = timers \cup requests
  OBVIOUS
<1>4. Active' = Active
  BY <1>2, <1>3 DEF Active
<1>5. TypeOK'
  BY <1>2 DEF Inv, TypeOK, bounds
<1>6. \A f \in Entries :
           /\ f \in Queued' => f \notin timers' /\ f \notin requests'
           /\ f \in timers' => f \notin requests'
  BY <1>2 DEF Inv, PlacesInv
<1> QED BY <1>1, <1>2, <1>4, <1>5, <1>6, MoveKeeps

\* A routine that sleeps or awaits a request.
LEMMA LeaveKeeps ==
  ASSUME Inv, NEW r \in Routines, Sleep(r) \/ AwaitRequest(r)
  PROVE  Inv'
<1> USE DEF Sleep, AwaitRequest, Running, Erase, Burn
<1> DEFINE x == Head(line)
<1>1. phase = "yield" /\ line # << >>
  OBVIOUS
<1>2. /\ x \in Entries /\ x \in Queued /\ Once(line')
      /\ line' \in Seq(Entries) /\ Queued' = Queued \ {x}
  BY <1>1, TailOnce DEF Inv, TypeOK, PlacesInv, Queued
<1>3. /\ timers' \cup requests' = timers \cup requests \cup {x}
      /\ x \notin timers /\ x \notin requests
  BY <1>2 DEF Inv, PlacesInv
<1>4. Active' = Active
  BY <1>2, <1>3 DEF Active
<1>5. turns' \in 0 .. MaxTurns
  BY RoutineAssumption DEF Inv, TypeOK
<1>6. TypeOK'
  BY <1>2, <1>5 DEF Inv, TypeOK
<1>7. \A f \in Entries :
           /\ f \in Queued' => f \notin timers' /\ f \notin requests'
           /\ f \in timers' => f \notin requests'
  BY <1>2, <1>3 DEF Inv, PlacesInv
<1> QED BY <1>1, <1>2, <1>4, <1>6, <1>7, MoveKeeps

\* A routine awaits another: its entry is the waiter of the new one, and of no
\* other, because no waiter is in the queue.
LEMMA AwaitKeeps ==
  ASSUME Inv, NEW r \in Routines, NEW c \in Routines, Await(r, c)
  PROVE  Inv'
<1> USE DEF Inv
<1> DEFINE h == Head(line)
           x == Head(free)
<1>1. /\ phase = "yield" /\ phase' = phase /\ line # << >> /\ free # << >>
      /\ task[h] = r /\ life[r] = "executing" /\ life[c] = "none"
      /\ life' = [life EXCEPT ![c] = "executing"]
      /\ line' = Append(Tail(line), x) /\ free' = Tail(free)
      /\ task' = [task EXCEPT ![x] = c]
      /\ waiter' = [waiter EXCEPT ![x] = h]
      /\ awaits' = [awaits EXCEPT ![r] = c]
      /\ timers' = timers /\ requests' = requests /\ UNCHANGED <<bounds, exit,
                                                                 fault>>
  BY DEF Await, Running, Enter
<1>2. /\ x \in Entries /\ x \in RangeOf(free)
      /\ free' \in Seq(Entries) /\ RangeOf(free') = RangeOf(free) \ {x}
      /\ Once(free')
  BY <1>1, TailOnce DEF TypeOK, PlacesInv
<1>3. x \notin Used /\ x \notin Queued
  BY <1>2 DEF PlacesInv, Used, Active
<1>4. /\ h \in Entries /\ h \in Queued /\ Once(Tail(line))
      /\ Tail(line) \in Seq(Entries) /\ RangeOf(Tail(line)) = Queued \ {h}
  BY <1>1, TailOnce DEF TypeOK, PlacesInv, Queued
<1>5. /\ line' \in Seq(Entries) /\ Once(line') /\ Queued' = (Queued \ {h}) \cup {x}
  <2>1. x \notin RangeOf(Tail(line))
    BY <1>3, <1>4
  <2>2. RangeOf(Append(Tail(line), x)) = RangeOf(Tail(line)) \cup {x}
    BY <1>2, <1>4, <2>1, AppendOnce
  <2>3. Append(Tail(line), x) \in Seq(Entries) /\ Once(Append(Tail(line), x))
    BY <1>2, <1>4, <2>1, AppendOnce
  <2> QED BY <1>1, <1>4, <2>2, <2>3 DEF Queued
<1> HIDE DEF h, x
<1>6. /\ h \in Active /\ h \in Used /\ h # x
      /\ h \notin timers /\ h \notin requests /\ h \notin Awaited
      /\ h \notin RangeOf(free)
  BY <1>3, <1>4 DEF Active, Used, PlacesInv
<1>7. /\ waiter'[x] = h /\ task'[x] = c
      /\ \A e \in Entries : e # x => waiter'[e] = waiter[e] /\ task'[e] = task[e]
  BY <1>1, <1>2 DEF TypeOK
<1>8. Active' = (Active \ {h}) \cup {x}
  BY <1>1, <1>5, <1>6 DEF Active
<1>9. Awaited' \subseteq Awaited \cup {h}
  BY <1>7 DEF Awaited
<1>10. Used' \subseteq Used \cup {x} /\ x \notin Awaited
  BY <1>3, <1>6, <1>8, <1>9 DEF Used
<1>11. TypeOK'
  BY <1>1, <1>2, <1>4, <1>5 DEF TypeOK, bounds
<1>12. PlacesInv'
  <2> SUFFICES ASSUME NEW e \in Entries
               PROVE  /\ e \in RangeOf(free') => e \notin Used'
                      /\ e \in Awaited' => e \notin Active'
                      /\ e \in Queued' => e \notin timers' /\ e \notin requests'
                      /\ e \in timers' => e \notin requests'
    BY <1>2, <1>5 DEF PlacesInv
  <2>1. e \in RangeOf(free') => e \notin Used'
    BY <1>2, <1>10 DEF PlacesInv
  <2>2. e \in Awaited' => e \notin Active'
    BY <1>6, <1>8, <1>9, <1>10 DEF PlacesInv
  <2>3. e \in Queued' => e \notin timers' /\ e \notin requests'
    BY <1>1, <1>3, <1>5 DEF PlacesInv, Used, Active
  <2>4. e \in timers' => e \notin requests'
    BY <1>1 DEF PlacesInv
  <2> QED BY <2>1, <2>2, <2>3, <2>4
<1>13. Alive \subseteq Alive' /\ c \in Alive' \ Alive
  BY <1>1 DEF Alive, TypeOK
<1>14. AliveInv'
  BY <1>7, <1>8, <1>13, Within DEF AliveInv
<1>15. \A e \in Used : task[e] \in Routines => task[e] \in Alive
  BY <1>1, UsedAlive
<1>16. ApartInv'
  BY <1>3, <1>7, <1>10, <1>13, <1>15, Within DEF ApartInv
<1>17. WaiterInv'
  <2>1. r \in Alive
    BY <1>1 DEF Alive
  <2>2. \A e \in Entries : waiter[e] # Unset => waiter[e] # x /\ waiter[e] # h
    BY <1>6, <1>10, Within
  <2>3. \A e, f \in Entries :
          waiter'[e] = waiter'[f] /\ waiter'[e] # Unset => e = f
    BY <1>7, <2>2 DEF WaiterInv
  <2>4. \A e \in Entries : waiter'[e] # Unset =>
          task'[waiter'[e]] \in Routines /\ task'[waiter'[e]] \in Alive'
    <3> SUFFICES ASSUME NEW e \in Entries, waiter'[e] # Unset
                 PROVE  task'[waiter'[e]] \in Routines
                        /\ task'[waiter'[e]] \in Alive'
      OBVIOUS
    <3>1. CASE e = x
      BY <1>1, <1>4, <1>6, <1>7, <1>13, <2>1, <3>1
    <3>2. CASE e # x
      BY <1>1, <1>7, <1>13, <2>2, <3>2, Within DEF WaiterInv
    <3> QED BY <3>1, <3>2
  <2> QED BY <2>3, <2>4 DEF WaiterInv
<1> QED BY <1>11, <1>12, <1>14, <1>16, <1>17

\* What moves no entry and takes no frame away.
LEMMA StillKeeps ==
  ASSUME Inv, UNCHANGED <<places, task, waiter>>, Alive' = Alive, TypeOK',
         phase \in {"clean", "over"} => phase' \in {"clean", "over"}
  PROVE  Inv'
<1> USE DEF Inv, places
<1>1. Active' = Active /\ Awaited' = Awaited /\ Used' = Used /\ Queued' = Queued
  BY DEF Active, Awaited, Used, Queued
<1>2. PlacesInv' /\ AliveInv' /\ ApartInv'
  BY <1>1 DEF PlacesInv, AliveInv, ApartInv
<1>3. WaiterInv'
  BY <1>1 DEF WaiterInv
<1> QED BY <1>2, <1>3

\* The other steps.
LEMMA OtherKeeps ==
  ASSUME Inv,
         \/ Run \/ Wake \/ StartYield \/ EndYield \/ EndBatch \/ EndRound
         \/ Interrupt \/ ResumeFinal
         \/ \E r \in Routines : Yield(r) \/ Throw(r)
         \/ Clean \/ CleanUnset \/ CleanDone \/ UNCHANGED vars
  PROVE  Inv'
<1> USE DEF Inv
<1>1. CASE \E r \in Routines : Throw(r)
  <2>1. PICK r \in Routines : Throw(r)
    BY <1>1
  <2>2. /\ UNCHANGED <<phase, places, task, waiter, awaits, bounds, exit,
                       fault>>
        /\ life[r] = "executing"
        /\ life' = [life EXCEPT ![r] = "unhandledException"]
    BY <2>1 DEF Throw, Running
  <2>3. TypeOK'
    BY <2>2 DEF places, bounds, TypeOK
  <2>4. Alive' = Alive
    BY <2>2 DEF Alive, TypeOK
  <2> QED BY <2>2, <2>3, <2>4, StillKeeps
<1>2. CASE ~\E r \in Routines : Throw(r)
  <2>1. UNCHANGED <<places, task, waiter, life, awaits>>
    BY <1>2 DEF Run, Wake, StartYield, EndYield, EndBatch, EndRound,
                Interrupt, ResumeFinal, Yield,
                Clean, CleanUnset, CleanDone, vars
  <2>2. turns' \in 0 .. MaxTurns /\ beat' \in BOOLEAN
    <3>1. CASE \E r \in Routines : Yield(r)
      <4>1. PICK r \in Routines : Yield(r)
        BY <3>1
      <4>2. CASE r \in Spinners
        <5>1. beat' = ~beat /\ turns' = turns
          BY <4>1, <4>2 DEF Yield
        <5> QED BY <5>1 DEF TypeOK
      <4>3. CASE r \notin Spinners
        <5>1. turns > 0 /\ turns' = turns - 1 /\ beat' = beat
          BY <4>1, <4>3 DEF Yield, Burn
        <5> QED BY <5>1, RoutineAssumption DEF TypeOK
      <4> QED BY <4>2, <4>3
    <3>2. CASE ~\E r \in Routines : Yield(r)
      <4>1. UNCHANGED bounds
        BY <1>2, <3>2 DEF Run, Wake, StartYield, EndYield, EndBatch, EndRound,
           Interrupt, ResumeFinal, Clean, CleanUnset, CleanDone, vars
      <4> QED BY <4>1 DEF bounds, TypeOK
    <3> QED BY <3>1, <3>2
  <2>7. exit' \in BOOLEAN
    <3>1. CASE Wake
      BY <3>1 DEF Wake
    <3>2. CASE ~Wake
      <4>1. UNCHANGED exit
        BY <1>2, <3>2 DEF Run, StartYield, EndYield, EndBatch, EndRound,
           Interrupt, ResumeFinal, Yield, Clean, CleanUnset, CleanDone, vars
      <4> QED BY <4>1 DEF TypeOK
    <3> QED BY <3>1, <3>2
  <2>3. /\ phase' \in {"setup", "wake", "poll", "yield", "batch", "clock", "left",
                    "cut", "clean", "over"}
        /\ fault' \in {"none", "final", "unset"}
    BY <1>2 DEF TypeOK, Run, Wake, StartYield, EndYield, EndBatch, EndRound,
                Interrupt, ResumeFinal, Yield, Clean, CleanUnset, CleanDone, vars
  <2>4. TypeOK'
    BY <2>1, <2>2, <2>3, <2>7 DEF TypeOK, places
  <2>5. Alive' = Alive
    BY <2>1 DEF Alive
  <2>6. phase \in {"clean", "over"} => phase' \in {"clean", "over"}
    BY <1>2 DEF Run, Wake, StartYield, EndYield, EndBatch, EndRound,
                Interrupt, ResumeFinal, Yield,
                Running, Clean, CleanUnset, CleanDone, vars
  <2> QED BY <2>1, <2>4, <2>5, <2>6, StillKeeps
<1> QED BY <1>1, <1>2

\* The invariant is inductive.
LEMMA NextInv == Inv /\ [Next]_vars => Inv'
<1> SUFFICES ASSUME Inv, [Next]_vars PROVE Inv'
  OBVIOUS
<1>1. CASE Push
  <2>1. ASSUME NEW r \in Routines, PushRoutine(r) PROVE Inv'
    <3>1. /\ InProgram /\ Enter(r, line) /\ r \in Routines \cup Callbacks
          /\ life[r] = "none" /\ life' = [life EXCEPT ![r] = "executing"]
          /\ UNCHANGED <<phase, waiter, timers, requests, awaits, bounds, exit,
                         fault>>
      BY <2>1 DEF PushRoutine
    <3> QED BY <3>1, PushKeeps
  <2>2. ASSUME NEW c \in Callbacks, PushFunction(c) PROVE Inv'
    <3>1. /\ InProgram /\ Enter(c, line) /\ c \in Routines \cup Callbacks
          /\ life' = life
          /\ UNCHANGED <<phase, waiter, timers, requests, awaits, bounds, exit,
                         fault>>
      BY <2>2 DEF PushFunction
    <3> QED BY <3>1, PushKeeps
  <2> QED BY <1>1, <2>1, <2>2 DEF Push
<1>2. CASE \E r \in Routines : Return(r)
  BY <1>2, ReturnKeeps
<1>3. CASE Call
  BY <1>3, CallKeeps
<1>4. CASE CleanEntry
  BY <1>4, CleanEntryKeeps
<1>5. CASE \E e \in Entries : Expire(e) \/ Complete(e)
  BY <1>5, DueKeeps
<1>6. CASE \E r \in Routines : Sleep(r) \/ AwaitRequest(r)
  BY <1>6, LeaveKeeps
<1>7. CASE \E r, c \in Routines : Await(r, c)
  BY <1>7, AwaitKeeps
<1>8. CASE \/ Run \/ Wake \/ StartYield \/ EndYield \/ EndBatch \/ EndRound
           \/ Interrupt \/ ResumeFinal
           \/ \E r \in Routines : Yield(r) \/ Throw(r)
           \/ Clean \/ CleanUnset \/ CleanDone \/ UNCHANGED vars
  BY <1>8, OtherKeeps
<1> QED
  BY <1>1, <1>2, <1>3, <1>4, <1>5, <1>6, <1>7, <1>8 DEF Next, Loop, Round, Resume

\* It holds in every state.
THEOREM Invariance == Spec => []Inv
BY InitInv, NextInv, PTL DEF Spec

-----------------------------------------------------------------------------
\* The variables keep their types.
THEOREM TypeCorrect == Spec => []TypeOK
<1>1. Inv => TypeOK
  BY DEF Inv
<1> QED BY <1>1, Invariance, PTL

\* promise::run resumes only frames that exist, from entries nobody else can be
\* handed.
THEOREM FramesExist == Spec => []ResumesFrames
<1>1. Inv => ResumesFrames
  BY Within DEF Inv, ResumesFrames, PlacesInv, AliveInv, Used, Active
<1> QED BY <1>1, Invariance, PTL

\* cleanQueue destroys no frame twice, though a recycled entry keeps the waiter
\* of its earlier life.
THEOREM NoDoubleDestroy == Spec => []DestroysOnce
<1>1. Inv => DestroysOnce
  <2> SUFFICES ASSUME Inv, phase = "clean", line # << >>,
                      NEW e \in {Head(line), waiter[Head(line)]} \ {Unset},
                      task[e] \in Routines
               PROVE  task[e] \in Alive
    BY DEF DestroysOnce, Doomed
  <2>1. Head(line) \in Queued /\ Head(line) \in Entries
    BY TailOnce DEF Inv, TypeOK, PlacesInv, Queued
  <2>2. CASE e = Head(line)
    BY <2>1, <2>2 DEF Inv, AliveInv, Active
  <2>3. CASE e = waiter[Head(line)]
    BY <2>1, <2>3 DEF Inv, WaiterInv
  <2> QED BY <2>2, <2>3
<1> QED BY <1>1, Invariance, PTL

-----------------------------------------------------------------------------
(***************************************************************************)
(* Where the frames are.  FramesHomed speaks of the entries in use, and    *)
(* follows from what each of them is in use for: a routine has one entry   *)
(* in use (HasOne, OnlyOne); what an entry in use holds has a frame, and   *)
(* is active exactly until it awaits another (InUseAlive); a routine       *)
(* without a frame awaits nobody and nobody awaits it (NewKnowsNobody),    *)
(* so that an awaited routine's entry names that of the one which awaits   *)
(* it (LeadsBack).  clean() ends all that.                                 *)
(***************************************************************************)
InUse == Entries \ RangeOf(free)

HasOne == \A r \in Alive : \E e \in InUse : task[e] = r

OnlyOne ==
  \A e, f \in InUse : task[e] \in Routines /\ task[e] = task[f] => e = f

InUseAlive ==
  \A e \in InUse : task[e] \in Routines =>
    task[e] \in Alive /\ (e \in Active <=> awaits[task[e]] = Unset)

NewKnowsNobody ==
  \A r \in Routines : awaits[r] # Unset =>
    life[r] # "none" /\ life[awaits[r]] # "none"

LeadsBack ==
  \A r \in Alive : \A e \in InUse :
    task[e] \in Routines /\ task[e] = awaits[r] =>
      waiter[e] \in InUse /\ task[waiter[e]] = r

HomeInv ==
  phase \notin {"clean", "over"} =>
    HasOne /\ OnlyOne /\ InUseAlive /\ NewKnowsNobody /\ LeadsBack

\* At the start no routine has a frame.
LEMMA InitHomeInv == Init => HomeInv
<1> SUFFICES ASSUME Init PROVE HomeInv
  OBVIOUS
<1> USE RoutineAssumption DEF Init
<1>1. Alive = {}
  BY DEF Alive
<1>2. \A e \in Entries : task[e] \notin Routines
  OBVIOUS
<1>3. HasOne /\ OnlyOne /\ InUseAlive /\ LeadsBack
  BY <1>1, <1>2 DEF HasOne, OnlyOne, InUseAlive, LeadsBack, InUse
<1>4. NewKnowsNobody
  BY DEF NewKnowsNobody
<1> QED BY <1>3, <1>4 DEF HomeInv

\* A push: the new entry was free, so nothing leads to it.
LEMMA PushHome ==
  ASSUME Inv, HomeInv, NEW what \in Routines \cup Callbacks, InProgram,
         Enter(what, line),
         \/ /\ what \in Routines /\ life[what] = "none"
            /\ life' = [life EXCEPT ![what] = "executing"]
         \/ what \in Callbacks /\ life' = life,
         UNCHANGED <<phase, waiter, timers, requests, awaits, bounds, exit,
                     fault>>
  PROVE  HomeInv'
<1> USE DEF Inv
<1> DEFINE x == Head(free)
<1>1. /\ x \in Entries /\ x \in RangeOf(free)
      /\ RangeOf(free') = RangeOf(free) \ {x}
  BY TailOnce DEF Enter, TypeOK, PlacesInv
<1>2. x \notin Active
  BY <1>1 DEF PlacesInv, Used
<1>3. Queued' = Queued \cup {x}
  BY <1>1, <1>2, AppendOnce DEF Enter, TypeOK, PlacesInv, Queued, Active
<1>4. task' = [task EXCEPT ![x] = what]
  BY DEF Enter
<1> HIDE DEF x
<1>5. Active' = Active \cup {x} /\ InUse' = InUse \cup {x} /\ x \notin InUse
  BY <1>1, <1>3 DEF Active, InUse
<1>6. /\ task'[x] = what
      /\ \A e \in InUse : task'[e] = task[e]
  BY <1>1, <1>4, <1>5 DEF TypeOK, InUse
<1>7. HasOne /\ OnlyOne /\ InUseAlive /\ NewKnowsNobody /\ LeadsBack
  BY DEF InProgram, HomeInv
<1>8. /\ Alive' = Alive \cup ({what} \cap Routines)
      /\ what \notin Alive
      /\ \A r \in Routines : life[r] # "none" => life'[r] # "none"
  BY RoutineAssumption DEF Alive, TypeOK
<1>9. HasOne'
  BY <1>5, <1>6, <1>7, <1>8 DEF HasOne
<1>10. OnlyOne'
  BY <1>5, <1>6, <1>7, <1>8 DEF OnlyOne, InUseAlive
<1>11. what \in Routines => awaits[what] = Unset
  BY <1>7, RoutineAssumption DEF NewKnowsNobody
<1>12. InUseAlive'
  BY <1>5, <1>6, <1>7, <1>8, <1>11 DEF InUseAlive
<1>13. NewKnowsNobody'
  BY <1>7, <1>8 DEF NewKnowsNobody, TypeOK
<1>14. LeadsBack'
  <2> SUFFICES ASSUME NEW r \in Alive', NEW e \in InUse', task'[e] \in Routines,
                      task'[e] = awaits[r]
               PROVE  waiter[e] \in InUse' /\ task'[waiter[e]] = r
    BY DEF LeadsBack
  <2>1. r \in Routines /\ awaits[r] # Unset
    BY RoutineAssumption DEF Alive
  <2>2. life[r] # "none" /\ life[awaits[r]] # "none"
    BY <1>7, <2>1 DEF NewKnowsNobody
  <2>3. r \in Alive /\ e # x
    BY <1>6, <1>8, <2>2, RoutineAssumption
  <2>4. e \in InUse /\ task[e] = task'[e]
    BY <1>5, <1>6, <2>3
  <2>5. waiter[e] \in InUse /\ task[waiter[e]] = r
    BY <1>7, <2>3, <2>4 DEF LeadsBack
  <2> QED BY <1>5, <1>6, <2>5
<1> QED BY <1>9, <1>10, <1>12, <1>13, <1>14 DEF HomeInv

\* An entry is popped, with the frame of what it holds if that is a routine.
LEMMA PopHome ==
  ASSUME Inv, HomeInv, phase = "yield", line # << >>, Pop,
         NEW what, what = task[Head(line)],
         life' = [r \in Routines |-> IF r = what THEN "destroyed" ELSE life[r]],
         UNCHANGED <<phase, timers, requests, task, waiter, awaits, bounds,
                     exit, fault>>
  PROVE  HomeInv'
<1> USE DEF Inv
<1> DEFINE x == Head(line)
<1>1. /\ x \in Entries /\ x \in Queued /\ Queued' = Queued \ {x}
  BY TailOnce DEF Pop, TypeOK, PlacesInv, Queued
<1>2. x \notin RangeOf(free) /\ x \notin timers /\ x \notin requests
  BY <1>1 DEF PlacesInv, Used, Active
<1>3. RangeOf(free') = RangeOf(free) \cup {x}
  BY <1>1, <1>2, PushOnce DEF Pop, TypeOK, PlacesInv
<1>4. what = task[x]
  OBVIOUS
<1> HIDE DEF x
<1>5. /\ Active' = Active \ {x} /\ InUse' = InUse \ {x} /\ x \in InUse
      /\ x \notin Awaited
  BY <1>1, <1>2, <1>3 DEF Active, InUse, PlacesInv
<1>6. HasOne /\ OnlyOne /\ InUseAlive /\ NewKnowsNobody /\ LeadsBack
  BY DEF HomeInv
<1>7. /\ Alive' = Alive \ {what}
      /\ \A r \in Routines : life[r] # "none" => life'[r] # "none"
  BY DEF Alive, TypeOK
<1>8. HasOne'
  BY <1>4, <1>5, <1>6, <1>7 DEF HasOne
<1>9. OnlyOne'
  BY <1>5, <1>6 DEF OnlyOne
<1>10. InUseAlive'
  BY <1>4, <1>5, <1>6, <1>7 DEF InUseAlive, OnlyOne
<1>11. NewKnowsNobody'
  BY <1>6, <1>7 DEF NewKnowsNobody, TypeOK
<1>12. LeadsBack'
  BY <1>4, <1>5, <1>6, <1>7 DEF LeadsBack, InUse
<1> QED BY <1>8, <1>9, <1>10, <1>11, <1>12 DEF HomeInv

\* A routine returns, a function has been called.
LEMMA ReturnHome ==
  ASSUME Inv, HomeInv, Call \/ \E r \in Routines : Return(r)
  PROVE  HomeInv'
<1>1. CASE Call
  <2>1. /\ phase = "yield" /\ line # << >> /\ Pop
        /\ UNCHANGED <<phase, timers, requests, task, waiter, awaits, bounds,
                       exit, fault>>
    BY <1>1 DEF Call
  <2>2. life' = [r \in Routines |-> IF r = task[Head(line)] THEN "destroyed"
                                                            ELSE life[r]]
    BY <1>1, RoutineAssumption DEF Call, Inv, TypeOK
  <2> QED BY <2>1, <2>2, PopHome
<1>2. ASSUME NEW r \in Routines, Return(r) PROVE HomeInv'
  <2>1. /\ phase = "yield" /\ line # << >> /\ Pop
        /\ UNCHANGED <<phase, timers, requests, task, waiter, awaits, bounds,
                       exit, fault>>
    BY <1>2 DEF Return, Running
  <2>2. life' = [q \in Routines |-> IF q = task[Head(line)] THEN "destroyed"
                                                            ELSE life[q]]
    BY <1>2 DEF Return, Running, Inv, TypeOK
  <2> QED BY <2>1, <2>2, PopHome
<1> QED BY <1>1, <1>2

\* A routine awaits another: its entry becomes the one the other leads back to.
LEMMA AwaitHome ==
  ASSUME Inv, HomeInv, NEW r \in Routines, NEW c \in Routines, Await(r, c)
  PROVE  HomeInv'
<1> USE DEF Inv
<1> DEFINE h == Head(line)
           x == Head(free)
<1>1. /\ phase = "yield" /\ phase' = phase /\ line # << >> /\ free # << >>
      /\ task[h] = r /\ life[r] = "executing" /\ life[c] = "none"
      /\ life' = [life EXCEPT ![c] = "executing"]
      /\ line' = Append(Tail(line), x) /\ free' = Tail(free)
      /\ task' = [task EXCEPT ![x] = c]
      /\ waiter' = [waiter EXCEPT ![x] = h]
      /\ awaits' = [awaits EXCEPT ![r] = c]
      /\ timers' = timers /\ requests' = requests
  BY DEF Await, Running, Enter
<1>2. /\ x \in Entries /\ x \in RangeOf(free)
      /\ RangeOf(free') = RangeOf(free) \ {x}
  BY <1>1, TailOnce DEF TypeOK, PlacesInv
<1>3. x \notin Used /\ x \notin Queued
  BY <1>2 DEF PlacesInv, Used, Active
<1>4. /\ h \in Entries /\ h \in Queued /\ Once(Tail(line))
      /\ Tail(line) \in Seq(Entries) /\ RangeOf(Tail(line)) = Queued \ {h}
  BY <1>1, TailOnce DEF TypeOK, PlacesInv, Queued
<1>5. Queued' = (Queued \ {h}) \cup {x}
  <2>1. x \notin RangeOf(Tail(line))
    BY <1>3, <1>4
  <2>2. RangeOf(Append(Tail(line), x)) = RangeOf(Tail(line)) \cup {x}
    BY <1>2, <1>4, <2>1, AppendOnce
  <2> QED BY <1>1, <1>4, <2>2 DEF Queued
<1> HIDE DEF h, x
<1>6. /\ h \in Active /\ h # x /\ h \notin timers /\ h \notin requests
      /\ h \in InUse
  BY <1>3, <1>4 DEF Active, Used, PlacesInv, InUse
<1>7. /\ Active' = (Active \ {h}) \cup {x}
      /\ InUse' = InUse \cup {x} /\ x \notin InUse
  BY <1>1, <1>2, <1>5, <1>6 DEF Active, InUse
<1>8. /\ waiter'[x] = h /\ task'[x] = c
      /\ \A e \in InUse : waiter'[e] = waiter[e] /\ task'[e] = task[e]
  BY <1>1, <1>2, <1>7 DEF TypeOK, InUse
<1>9. HasOne /\ OnlyOne /\ InUseAlive /\ NewKnowsNobody /\ LeadsBack
  BY <1>1 DEF HomeInv
<1>10. /\ Alive' = Alive \cup {c} /\ c \notin Alive /\ r # c /\ r \in Alive
       /\ \A q \in Routines : life[q] # "none" => life'[q] # "none"
       /\ life'[c] # "none"
  BY <1>1 DEF Alive, TypeOK
<1>11. /\ awaits'[r] = c /\ awaits[c] = Unset /\ awaits'[c] = Unset
       /\ \A q \in Routines : q # r => awaits'[q] = awaits[q]
       /\ awaits[r] = Unset
  <2>1. awaits[c] = Unset
    BY <1>1, <1>9 DEF NewKnowsNobody
  <2>2. awaits[r] = Unset
    BY <1>1, <1>6, <1>9 DEF InUseAlive
  <2> QED BY <1>1, <1>10, <2>1, <2>2 DEF TypeOK
<1>12. HasOne'
  BY <1>7, <1>8, <1>9, <1>10 DEF HasOne
<1>13. OnlyOne'
  BY <1>7, <1>8, <1>9, <1>10 DEF OnlyOne, InUseAlive
<1>14. InUseAlive'
  <2> SUFFICES ASSUME NEW e \in InUse', task'[e] \in Routines
               PROVE  /\ task'[e] \in Alive'
                      /\ e \in Active' <=> awaits'[task'[e]] = Unset
    BY DEF InUseAlive
  <2>1. CASE e = x
    BY <1>7, <1>8, <1>10, <1>11, <2>1
  <2>2. CASE e = h
    BY <1>1, <1>6, <1>7, <1>8, <1>10, <1>11, <2>2, RoutineAssumption
  <2>3. CASE e # x /\ e # h
    <3>1. e \in InUse /\ task'[e] = task[e] /\ task[e] # r
      BY <1>1, <1>6, <1>7, <1>8, <1>9, <2>3 DEF OnlyOne
    <3> QED BY <1>7, <1>9, <1>10, <1>11, <2>3, <3>1 DEF InUseAlive
  <2> QED BY <2>1, <2>2, <2>3
<1>15. NewKnowsNobody'
  <2> SUFFICES ASSUME NEW q \in Routines, awaits'[q] # Unset
               PROVE  life'[q] # "none" /\ life'[awaits'[q]] # "none"
    BY DEF NewKnowsNobody
  <2>1. CASE q = r
    BY <1>1, <1>10, <1>11, <2>1
  <2>2. CASE q # r
    <3>1. awaits'[q] = awaits[q] /\ awaits[q] \in Routines
      BY <1>11, <2>2 DEF TypeOK
    <3> QED BY <1>9, <1>10, <3>1 DEF NewKnowsNobody
  <2> QED BY <2>1, <2>2
<1>16. LeadsBack'
  <2> SUFFICES ASSUME NEW q \in Alive', NEW e \in InUse', task'[e] \in Routines,
                      task'[e] = awaits'[q]
               PROVE  waiter'[e] \in InUse' /\ task'[waiter'[e]] = q
    BY DEF LeadsBack
  <2>1. CASE e = x
    <3>1. awaits'[q] = c /\ q \in Routines
      BY <1>8, <2>1 DEF Alive
    <3>2. q = r
      BY <1>1, <1>9, <1>11, <3>1, RoutineAssumption DEF NewKnowsNobody
    <3> QED BY <1>1, <1>6, <1>7, <1>8, <2>1, <3>2
  <2>2. CASE e # x
    <3>1. e \in InUse /\ task'[e] = task[e] /\ task[e] \in Alive
      BY <1>7, <1>8, <1>9, <2>2 DEF InUseAlive
    <3>2. q # r /\ q # c /\ q \in Alive
      BY <1>10, <1>11, <3>1, RoutineAssumption, ZenonT(60)
    <3>3. awaits[q] = task[e]
      BY <1>11, <3>1, <3>2 DEF Alive
    <3>4. waiter[e] \in InUse /\ task[waiter[e]] = q
      BY <1>9, <3>1, <3>2, <3>3 DEF LeadsBack
    <3> QED BY <1>7, <1>8, <3>1, <3>4
  <2> QED BY <2>1, <2>2
<1> QED BY <1>12, <1>13, <1>14, <1>15, <1>16 DEF HomeInv

\* An entry moves between the places, or none does: what is active and who has
\* a frame stay the same.
LEMMA StayHome ==
  ASSUME HomeInv, Active' = Active, Alive' = Alive,
         \A r \in Routines : life[r] = "none" <=> life'[r] = "none",
         TypeOK, UNCHANGED <<free, task, waiter, awaits>>,
         phase \in {"clean", "over"} => phase' \in {"clean", "over"}
  PROVE  HomeInv'
<1> SUFFICES ASSUME phase' \notin {"clean", "over"} PROVE HomeInv'
  BY DEF HomeInv
<1>1. HasOne /\ OnlyOne /\ InUseAlive /\ NewKnowsNobody /\ LeadsBack
  BY DEF HomeInv
<1>2. InUse' = InUse
  BY DEF InUse
<1>3. HasOne' /\ OnlyOne' /\ InUseAlive' /\ LeadsBack'
  BY <1>1, <1>2 DEF HasOne, OnlyOne, InUseAlive, LeadsBack
<1>4. NewKnowsNobody'
  BY <1>1 DEF NewKnowsNobody, TypeOK
<1> QED BY <1>3, <1>4 DEF HomeInv

\* Every step keeps it.
LEMMA NextHomeInv == Inv /\ HomeInv /\ [Next]_vars => HomeInv'
<1> SUFFICES ASSUME Inv, HomeInv, [Next]_vars PROVE HomeInv'
  OBVIOUS
<1>0. TypeOK
  BY DEF Inv
<1>1. CASE Push
  <2>1. ASSUME NEW r \in Routines, PushRoutine(r) PROVE HomeInv'
    <3>1. /\ InProgram /\ Enter(r, line) /\ r \in Routines \cup Callbacks
          /\ life[r] = "none" /\ life' = [life EXCEPT ![r] = "executing"]
          /\ UNCHANGED <<phase, waiter, timers, requests, awaits, bounds, exit,
                         fault>>
      BY <2>1 DEF PushRoutine
    <3> QED BY <3>1, PushHome
  <2>2. ASSUME NEW c \in Callbacks, PushFunction(c) PROVE HomeInv'
    <3>1. /\ InProgram /\ Enter(c, line) /\ c \in Routines \cup Callbacks
          /\ life' = life
          /\ UNCHANGED <<phase, waiter, timers, requests, awaits, bounds, exit,
                         fault>>
      BY <2>2 DEF PushFunction
    <3> QED BY <3>1, PushHome
  <2> QED BY <1>1, <2>1, <2>2 DEF Push
<1>2. CASE Call \/ \E r \in Routines : Return(r)
  BY <1>2, ReturnHome
<1>3. CASE \E r, c \in Routines : Await(r, c)
  BY <1>3, AwaitHome
<1>4. CASE \E e \in Entries : Expire(e) \/ Complete(e)
  <2>1. PICK e \in Entries : Expire(e) \/ Complete(e)
    BY <1>4
  <2>2. /\ line' = Append(line, e)
        /\ timers' \cup requests' \cup {e} = timers \cup requests
        /\ UNCHANGED <<phase, free, task, waiter, life, awaits>>
    BY <2>1 DEF Expire, Complete
  <2>3. line \in Seq(Entries) /\ Once(line) /\ e \notin RangeOf(line)
    BY <2>1 DEF Expire, Complete, Inv, TypeOK, PlacesInv, Queued
  <2>4. Queued' = Queued \cup {e}
    BY <2>2, <2>3, AppendOnce DEF Queued
  <2>5. Active' = Active /\ Alive' = Alive
    BY <2>2, <2>4 DEF Active, Alive
  <2> QED BY <1>0, <2>2, <2>5, StayHome
<1>5. CASE \E r \in Routines : Sleep(r) \/ AwaitRequest(r)
  <2>1. /\ line # << >> /\ line' = Tail(line)
        /\ timers' \cup requests' = timers \cup requests \cup {Head(line)}
        /\ UNCHANGED <<phase, free, task, waiter, life, awaits>>
    BY <1>5 DEF Sleep, AwaitRequest, Running, Erase
  <2>2. Head(line) \in Queued /\ Queued' = Queued \ {Head(line)}
    BY <2>1, TailOnce DEF Inv, TypeOK, PlacesInv, Queued
  <2>3. Active' = Active /\ Alive' = Alive
    BY <2>1, <2>2 DEF Active, Alive
  <2> QED BY <1>0, <2>1, <2>3, StayHome
<1>6. CASE \E r \in Routines : Throw(r)
  <2>1. PICK r \in Routines : Throw(r)
    BY <1>6
  <2>2. /\ UNCHANGED <<phase, places, task, waiter, awaits>>
        /\ life[r] = "executing"
        /\ life' = [life EXCEPT ![r] = "unhandledException"]
    BY <2>1 DEF Throw, Running
  <2>3. /\ Alive' = Alive
        /\ \A q \in Routines : life[q] = "none" <=> life'[q] = "none"
    BY <2>2, <1>0 DEF Alive, TypeOK
  <2>4. Active' = Active
    BY <2>2 DEF Active, Queued, places
  <2> QED BY <1>0, <2>2, <2>3, <2>4, StayHome DEF places
<1>7. CASE \/ Run \/ Wake \/ StartYield \/ EndYield \/ EndBatch \/ EndRound
           \/ Interrupt \/ ResumeFinal
           \/ \E r \in Routines : Yield(r)
           \/ Clean \/ CleanUnset \/ CleanDone \/ UNCHANGED vars
  <2>1. UNCHANGED <<places, task, waiter, life, awaits>>
    BY <1>7 DEF Run, Wake, StartYield, EndYield, EndBatch, EndRound,
                Interrupt, ResumeFinal, Yield,
                Clean, CleanUnset, CleanDone, vars
  <2>2. phase \in {"clean", "over"} => phase' \in {"clean", "over"}
    BY <1>7 DEF Run, Wake, StartYield, EndYield, EndBatch, EndRound,
                Interrupt, ResumeFinal, Yield,
                Running, Clean, CleanUnset, CleanDone, vars
  <2>3. Active' = Active /\ Alive' = Alive
    BY <2>1 DEF Active, Alive, Queued, places
  <2> QED BY <1>0, <2>1, <2>2, <2>3, StayHome DEF places
<1>8. CASE CleanEntry
  BY <1>8 DEF CleanEntry, HomeInv
<1> QED
  BY <1>1, <1>2, <1>3, <1>4, <1>5, <1>6, <1>7, <1>8 DEF Next, Loop, Round, Resume

\* A routine has one entry, in one place unless it awaits another.
LEMMA HomesFollow == Inv /\ HomeInv => FramesHomed
<1> SUFFICES ASSUME Inv, HomeInv, phase \notin {"clean", "over"}, NEW r \in Alive
             PROVE  LET own(q) == {e \in Entries \ RangeOf(free) : task[e] = q}
                        queue  == {i \in DOMAIN line : task[line[i]] = r}
                        sleeps == {e \in timers : task[e] = r}
                        asks   == {e \in requests : task[e] = r}
                    IN  /\ Cardinality(own(r)) = 1
                        /\ Cardinality(queue) + Cardinality(sleeps) + Cardinality(asks)
                             = IF awaits[r] = Unset THEN 1 ELSE 0
                        /\ awaits[r] \in Alive =>
                             \A e \in own(awaits[r]) : waiter[e] \in own(r)
  BY DEF FramesHomed
<1> DEFINE own(q) == {e \in Entries \ RangeOf(free) : task[e] = q}
           queue  == {i \in DOMAIN line : task[line[i]] = r}
           sleeps == {e \in timers : task[e] = r}
           asks   == {e \in requests : task[e] = r}
<1>1. HasOne /\ OnlyOne /\ InUseAlive /\ NewKnowsNobody /\ LeadsBack /\ TypeOK
      /\ PlacesInv /\ r \in Routines
  BY DEF HomeInv, Inv, Alive
<1>2. PICK e \in InUse : task[e] = r
  BY <1>1 DEF HasOne
<1>3. \A f \in InUse : task[f] = r => f = e
  BY <1>1, <1>2 DEF OnlyOne
<1>4. Active \subseteq InUse
  BY <1>1, Within DEF InUse, PlacesInv, Used
<1>5. e \in Active <=> awaits[r] = Unset
  BY <1>1, <1>2 DEF InUseAlive
<1>6. Cardinality(own(r)) = 1
  <2>1. own(r) = {e}
    BY <1>2, <1>3 DEF InUse
  <2> QED BY <2>1, FS_Singleton
<1>7. sleeps = IF e \in timers THEN {e} ELSE {}
  BY <1>2, <1>3, <1>4 DEF Active
<1>8. asks = IF e \in requests THEN {e} ELSE {}
  BY <1>2, <1>3, <1>4 DEF Active
<1>9. \/ e \in Queued /\ \E i \in DOMAIN line : queue = {i}
      \/ e \notin Queued /\ queue = {}
  <2>1. \A i \in DOMAIN line : line[i] \in Queued
    BY DEF Queued, RangeOf
  <2>2. \A i \in DOMAIN line : task[line[i]] = r <=> line[i] = e
    BY <1>2, <1>3, <1>4, <2>1 DEF Active
  <2>3. CASE e \in Queued
    <3>1. PICK i \in DOMAIN line : line[i] = e
      BY <2>3 DEF Queued, RangeOf
    <3>2. \A j \in DOMAIN line : line[j] = e => j = i
      BY <1>1, <3>1 DEF PlacesInv, Once
    <3>3. queue = {i}
      BY <2>2, <3>1, <3>2
    <3> QED BY <2>3, <3>3
  <2>4. CASE e \notin Queued
    BY <2>1, <2>2, <2>4
  <2> QED BY <2>3, <2>4
<1>10. /\ e \in Queued => e \notin timers /\ e \notin requests
       /\ e \in timers => e \notin requests
  BY <1>1, <1>2 DEF PlacesInv, InUse
<1>11. /\ Cardinality(queue) = IF e \in Queued THEN 1 ELSE 0
       /\ Cardinality(sleeps) = IF e \in timers THEN 1 ELSE 0
       /\ Cardinality(asks) = IF e \in requests THEN 1 ELSE 0
  <2>1. Cardinality({}) = 0 /\ \A i : Cardinality({i}) = 1
    BY FS_EmptySet, FS_Singleton
  <2> HIDE DEF queue, sleeps, asks
  <2> QED BY <1>7, <1>8, <1>9, <2>1
<1>12. Cardinality(queue) + Cardinality(sleeps) + Cardinality(asks)
         = IF awaits[r] = Unset THEN 1 ELSE 0
  <2> HIDE DEF queue, sleeps, asks
  <2> QED BY <1>5, <1>10, <1>11 DEF Active
<1>13. awaits[r] \in Alive => \A f \in own(awaits[r]) : waiter[f] \in own(r)
  BY <1>1 DEF LeadsBack, InUse, Alive
<1> QED BY <1>6, <1>12, <1>13

\* Until clean() no routine that has a frame is without an entry, and none is in
\* two places, however the entries are recycled: the one way to lose a routine
\* is that the one it awaits returns.
THEOREM FramesKept == Spec => []FramesHomed
<1>1. Inv /\ HomeInv /\ [Next]_vars => Inv' /\ HomeInv'
  BY NextInv, NextHomeInv
<1> QED BY <1>1, InitInv, InitHomeInv, HomesFollow, PTL DEF Spec
=============================================================================
