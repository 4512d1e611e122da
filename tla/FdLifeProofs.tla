----------------------------- MODULE FdLifeProofs -----------------------------
(***************************************************************************)
(* Theorems about FdLife for any number of instances, descriptors and      *)
(* paths.                                                                  *)
(***************************************************************************)
EXTENDS FdLife, TLAPS

-----------------------------------------------------------------------------
(***************************************************************************)
(* The inductive invariant.                                                *)
(***************************************************************************)

\* Somebody has the number: a connection that waits, an instance, or, since a
\* mount, nobody any more.
Held(d) ==
  \/ d \in lost
  \/ \E c \in accepted : c[1] = d
  \/ \E f \in Fds : d \in obj[f].ends

\* NumbersOwned, number by number; besides, only what is constructed carries
\* numbers, and a number is that of one connection.
OwnInv ==
  /\ \A d \in Numbers : d \in open <=> Held(d)
  /\ \A f \in Fds : \A c \in accepted : c[1] \notin obj[f].ends
  /\ \A d \in lost : /\ \A c \in accepted : c[1] # d
                     /\ \A f \in Fds : d \notin obj[f].ends
  /\ \A f, g \in Fds : f # g => \A d \in obj[f].ends : d \notin obj[g].ends
  /\ \A f \in Fds : obj[f].family = "none" => obj[f].ends = {}
  /\ \A f \in Fds : ~obj[f].made => obj[f].family = "none"
  /\ \A a, b \in accepted : a[1] = b[1] => a = b
  /\ \A c \in accepted : c[2] # "none"

\* Besides, a number nobody is watched for is watched for nothing.
WatchInv ==
  /\ EventsFindOwner
  /\ \A d \in Numbers : watch[d].to = Nobody => watch[d].ways = {}

\* PathsMatch, path by path; besides, the makers that kept their paths have
\* different ones.
PathInv ==
  /\ \A f \in robbed : obj[f].maker
  /\ \A f \in Fds : obj[f].maker =>
       obj[f].family \in {"local", "fifo"} /\ obj[f].address \in Names
  /\ \A n \in Names :
       n \in names <=>
         \/ n \in left
         \/ \E f \in Fds \ robbed : obj[f].maker /\ obj[f].address = n
  /\ \A f \in Fds \ robbed : obj[f].maker => obj[f].address \notin left
  /\ \A f, g \in Fds \ robbed :
       obj[f].maker /\ obj[g].maker /\ obj[f].address = obj[g].address => f = g

Inv == TypeOK /\ OwnInv /\ WatchInv /\ PathInv

-----------------------------------------------------------------------------
(***************************************************************************)
(* Changing one instance.                                                  *)
(***************************************************************************)

\* What Carry does to the instances.
LEMMA CarryFacts ==
  ASSUME obj \in [Fds -> Instance], NEW f \in Fds,
         NEW family \in Families, NEW ds \in SUBSET Numbers,
         NEW name \in Names \cup {Nobody}, NEW maker \in BOOLEAN,
         Carry(f, family, ds, name, maker)
  PROVE  /\ obj' \in [Fds -> Instance]
         /\ \A g \in Fds : g # f => obj'[g] = obj[g]
         /\ obj'[f].made = obj[f].made /\ obj'[f].family = family
         /\ obj'[f].ends = ds /\ obj'[f].address = name
         /\ obj'[f].maker = maker /\ obj'[f].mask = obj[f].mask
<1> DEFINE x == [obj[f] EXCEPT !.family = family, !.ends = ds,
                               !.address = name, !.maker = maker]
<1>1. obj[f] \in Instance
  OBVIOUS
<1>2. /\ x \in Instance
      /\ x.made = obj[f].made /\ x.family = family /\ x.ends = ds
      /\ x.address = name /\ x.maker = maker /\ x.mask = obj[f].mask
  BY <1>1 DEF Instance
<1>3. obj' = [obj EXCEPT ![f] = x]
  BY DEF Carry
<1> HIDE DEF x
<1> QED
  BY <1>2, <1>3

\* What a mount has to respect: the numbers are unused or those of connections
\* that stop to wait, and a path is new.
MountRespects(f, family, ds, name, maker) ==
  /\ Mountable(f)
  /\ family # "none"
  /\ Carry(f, family, ds, name, maker)
  /\ \A d \in ds : d \in Unused \/ \E c \in accepted : c[1] = d
  /\ open' = open \cup ds
  /\ accepted' = {c \in accepted : c[1] \notin ds}
  /\ watch' \in [Numbers -> [to : Fds \cup {Nobody}, ways : SUBSET Ways]]
  /\ \A d \in Numbers :
       watch'[d] = watch[d] \/ (d \in ds /\ watch'[d].to = f)
  /\ maker => /\ family \in {"local", "fifo"} /\ name \in Names \ names
              /\ names' = names \cup {name}
  /\ ~maker => names' = names
  /\ UNCHANGED build

\* A mount that respects this preserves the invariant.
LEMMA MountKeeps ==
  ASSUME Inv, NEW f \in Fds, NEW family \in Families,
         NEW ds \in SUBSET Numbers, NEW name \in Names \cup {Nobody},
         NEW maker \in BOOLEAN, MountRespects(f, family, ds, name, maker)
  PROVE  Inv'
<1> DEFINE keeps == obj[f].maker /\ f \notin robbed
<1>1. /\ obj' \in [Fds -> Instance]
      /\ \A g \in Fds : g # f => obj'[g] = obj[g]
      /\ obj'[f].made = obj[f].made /\ obj'[f].family = family
      /\ obj'[f].ends = ds /\ obj'[f].address = name
      /\ obj'[f].maker = maker /\ obj'[f].mask = obj[f].mask
  <2>1. obj \in [Fds -> Instance] /\ Carry(f, family, ds, name, maker)
    BY DEF Inv, TypeOK, MountRespects
  <2> QED BY <2>1, CarryFacts
<1>2. obj[f].made /\ obj[f] \in Instance
  BY DEF MountRespects, Mountable, Inv, TypeOK
<1>3. /\ lost' = lost \cup obj[f].ends
      /\ left' = IF keeps THEN left \cup {obj[f].address} ELSE left
      /\ robbed' = robbed \ {f}
  BY DEF MountRespects, Carry
<1>4. keeps => obj[f].address \in Names
  BY DEF Inv, PathInv
<1> HIDE DEF keeps
<1>5. TypeOK'
  <2>1. /\ build' \in {"asserts", "ndebug", "aborted", "wild"}
        /\ open' \subseteq Numbers
        /\ watch' \in [Numbers -> [to : Fds \cup {Nobody}, ways : SUBSET Ways]]
        /\ accepted' \subseteq Numbers \X Families
        /\ names' \subseteq Names
    BY DEF MountRespects, Inv, TypeOK
  <2>2. lost' \subseteq Numbers /\ left' \subseteq Names /\ robbed' \subseteq Fds
    BY <1>2, <1>3, <1>4 DEF Inv, TypeOK, Instance
  <2> QED BY <1>1, <2>1, <2>2 DEF TypeOK
<1>6. OwnInv'
  <2>1. \A d \in Numbers : d \in open' <=> Held(d)'
    <3> SUFFICES ASSUME NEW d \in Numbers PROVE d \in open' <=> Held(d)'
      OBVIOUS
    <3>1. CASE d \in ds
      BY <1>1, <3>1 DEF MountRespects, Held
    <3>2. CASE d \notin ds
      <4>1. d \in open' <=> d \in open
        BY <3>2 DEF MountRespects
      <4>2. (\E c \in accepted' : c[1] = d) <=> (\E c \in accepted : c[1] = d)
        BY <3>2 DEF MountRespects
      <4>3. d \in lost' \/ (\E g \in Fds : d \in obj'[g].ends)
              <=> d \in lost \/ (\E g \in Fds : d \in obj[g].ends)
        BY <1>1, <1>3, <3>2
      <4> QED BY <4>1, <4>2, <4>3 DEF Inv, OwnInv, Held
    <3> QED BY <3>1, <3>2
  <2>2. \A g \in Fds : \A c \in accepted' : c[1] \notin obj'[g].ends
    BY <1>1 DEF MountRespects, Inv, OwnInv
  <2>3. \A g \in Fds : \A d \in ds : d \notin obj[g].ends
    BY DEF MountRespects, Inv, OwnInv, Held, Unused
  <2>4. \A g, h \in Fds : g # h => \A d \in obj'[g].ends : d \notin obj'[h].ends
    BY <1>1, <2>3 DEF Inv, OwnInv
  <2>5. \A d \in lost' : /\ \A c \in accepted' : c[1] # d
                         /\ \A g \in Fds : d \notin obj'[g].ends
    <3> SUFFICES ASSUME NEW d \in lost'
                 PROVE  /\ \A c \in accepted' : c[1] # d
                        /\ \A g \in Fds : d \notin obj'[g].ends
      OBVIOUS
    <3>1. accepted' \subseteq accepted
      BY DEF MountRespects
    <3>2. CASE d \in lost
      <4>1. d \notin ds
        BY <3>2 DEF MountRespects, Inv, TypeOK, OwnInv, Held, Unused
      <4> QED BY <1>1, <3>1, <3>2, <4>1 DEF Inv, OwnInv
    <3>3. CASE d \in obj[f].ends
      <4>1. d \notin ds
        BY <2>3, <3>3
      <4> QED BY <1>1, <3>1, <3>3, <4>1 DEF Inv, OwnInv
    <3> QED BY <1>3, <3>2, <3>3
  <2>6. \A g \in Fds : obj'[g].family = "none" => obj'[g].ends = {}
    BY <1>1 DEF MountRespects, Inv, OwnInv
  <2>7. \A g \in Fds : ~obj'[g].made => obj'[g].family = "none"
    BY <1>1, <1>2 DEF Inv, OwnInv
  <2>8. /\ \A a, b \in accepted' : a[1] = b[1] => a = b
        /\ \A c \in accepted' : c[2] # "none"
    BY DEF MountRespects, Inv, OwnInv
  <2> QED BY <2>1, <2>2, <2>4, <2>5, <2>6, <2>7, <2>8 DEF OwnInv
<1>7. WatchInv'
  <2>1. EventsFindOwner'
    <3> SUFFICES ASSUME NEW d \in Numbers, watch'[d].to # Nobody, d \notin lost'
                 PROVE  obj'[watch'[d].to].made /\ d \in obj'[watch'[d].to].ends
      BY DEF EventsFindOwner
    <3>1. CASE d \in ds /\ watch'[d].to = f
      BY <1>1, <1>2, <3>1
    <3>2. CASE watch'[d] = watch[d]
      <4>1. d \notin lost /\ d \notin obj[f].ends
        BY <1>3
      <4>2. obj[watch[d].to].made /\ d \in obj[watch[d].to].ends
        BY <3>2, <4>1 DEF Inv, WatchInv, EventsFindOwner
      <4>3. watch[d].to \in Fds \ {f}
        BY <3>2, <4>1, <4>2 DEF Inv, TypeOK
      <4> QED BY <1>1, <3>2, <4>2, <4>3
    <3> QED BY <3>1, <3>2 DEF MountRespects
  <2>2. \A d \in Numbers : watch'[d].to = Nobody => watch'[d].ways = {}
    BY FdAssumption DEF MountRespects, Inv, WatchInv
  <2> QED BY <2>1, <2>2 DEF WatchInv
<1>8. PathInv'
  <2> DEFINE kept(n) == \E g \in Fds \ robbed : obj[g].maker /\ obj[g].address = n
             rest(n) == \E g \in Fds \ (robbed \cup {f}) :
                          obj[g].maker /\ obj[g].address = n
             after(n) == \E g \in Fds \ robbed' :
                           obj'[g].maker /\ obj'[g].address = n
  <2>1. \A g \in robbed' : obj'[g].maker
    BY <1>1, <1>3 DEF Inv, PathInv, TypeOK
  <2>2. \A g \in Fds : obj'[g].maker =>
          obj'[g].family \in {"local", "fifo"} /\ obj'[g].address \in Names
    BY <1>1 DEF MountRespects, Inv, PathInv
  <2>3. \A n \in Names : n \in names <=> n \in left \/ kept(n)
    BY DEF Inv, PathInv
  <2>4. \A n \in Names : n \in names' <=> n \in left' \/ after(n)
    <3> SUFFICES ASSUME NEW n \in Names
                 PROVE  n \in names' <=> n \in left' \/ after(n)
      OBVIOUS
    <3>1. kept(n) <=> rest(n) \/ (keeps /\ obj[f].address = n)
      BY DEF keeps
    <3>2. after(n) <=> rest(n) \/ (maker /\ name = n)
      BY <1>1, <1>3
    <3>3. n \in left' <=> n \in left \/ (keeps /\ obj[f].address = n)
      BY <1>3
    <3>4. n \in names' <=> n \in names \/ (maker /\ name = n)
      BY DEF MountRespects
    <3>5. n \in names <=> n \in left \/ kept(n)
      BY <2>3
    <3> HIDE DEF kept, rest, after
    <3> QED BY <3>1, <3>2, <3>3, <3>4, <3>5
  <2>5. \A g \in Fds \ robbed : g # f /\ obj[g].maker
          => obj[g].address \notin left'
    BY <1>3 DEF keeps, Inv, PathInv
  <2>6. maker => name \notin left'
    <3> SUFFICES ASSUME maker PROVE name \notin left'
      OBVIOUS
    <3>1. name \in Names /\ name \notin names
      BY DEF MountRespects
    <3>2. name \notin left /\ ~kept(name)
      BY <2>3, <3>1
    <3> QED BY <1>3, <3>2 DEF keeps
  <2>7. \A g \in Fds \ robbed' : obj'[g].maker => obj'[g].address \notin left'
    BY <1>1, <1>3, <2>5, <2>6
  <2>8. \A g, h \in Fds \ robbed' :
          obj'[g].maker /\ obj'[h].maker /\ obj'[g].address = obj'[h].address
            => g = h
    <3>1. \A g \in Fds \ robbed : obj[g].maker /\ maker => obj[g].address # name
      BY DEF MountRespects, Inv, PathInv
    <3>2. \A g \in Fds \ robbed' : g # f =>
            g \in Fds \ robbed /\ obj'[g] = obj[g]
      BY <1>1, <1>3
    <3>3. \A g, h \in Fds \ robbed :
            obj[g].maker /\ obj[h].maker /\ obj[g].address = obj[h].address => g = h
      BY DEF Inv, PathInv
    <3> QED BY <1>1, <3>1, <3>2, <3>3
  <2> QED BY <2>1, <2>2, <2>4, <2>7, <2>8 DEF PathInv
<1> QED BY <1>5, <1>6, <1>7, <1>8 DEF Inv

-----------------------------------------------------------------------------
(***************************************************************************)
(* release and the destructor.                                             *)
(***************************************************************************)

\* What they have in common: the instance becomes x, which carries nothing.
CloseRespects(f, x) ==
  /\ obj' = [obj EXCEPT ![f] = x]
  /\ x \in Instance
  /\ x.family = "none" /\ x.ends = {} /\ x.maker = FALSE
  /\ Close(obj[f].ends)
  /\ Unlink(f)
  /\ UNCHANGED <<build, accepted>>

LEMMA CloseKeeps ==
  ASSUME Inv, NEW f \in Fds, NEW x, CloseRespects(f, x)
  PROVE  Inv'
<1>1. /\ obj' \in [Fds -> Instance]
      /\ \A g \in Fds : g # f => obj'[g] = obj[g]
      /\ obj'[f] = x
  BY DEF CloseRespects, Inv, TypeOK
<1>2. x.family = "none" /\ x.ends = {} /\ x.maker = FALSE
  BY DEF CloseRespects
<1>3. \A g \in Fds : obj[g] \in Instance
  BY DEF Inv, TypeOK
<1>4. obj[f].ends \subseteq Numbers
  BY <1>3 DEF Instance
<1>5. TypeOK'
  <2>1. watch' \in [Numbers -> [to : Fds \cup {Nobody}, ways : SUBSET Ways]]
    <3>1. Unwatched \in [to : Fds \cup {Nobody}, ways : SUBSET Ways]
      BY DEF Unwatched
    <3> QED BY <3>1 DEF CloseRespects, Close, Inv, TypeOK
  <2>2. /\ build' \in {"asserts", "ndebug", "aborted", "wild"} /\ open' \subseteq Numbers
        /\ accepted' \subseteq Numbers \X Families
        /\ names' \subseteq Names /\ robbed' \subseteq Fds
        /\ lost' \subseteq Numbers /\ left' \subseteq Names
    BY DEF CloseRespects, Close, Unlink, Inv, TypeOK
  <2> QED BY <1>1, <2>1, <2>2 DEF TypeOK
<1>6. OwnInv'
  <2>1. \A g, h \in Fds : g # h => \A d \in obj'[g].ends : d \notin obj'[h].ends
    BY <1>1, <1>2 DEF Inv, OwnInv
  <2>2. \A d \in Numbers : d \in open' <=> Held(d)'
    <3> SUFFICES ASSUME NEW d \in Numbers PROVE d \in open' <=> Held(d)'
      OBVIOUS
    <3>1. /\ d \in open' <=> d \in open /\ d \notin obj[f].ends
          /\ d \in lost' <=> d \in lost /\ d \notin obj[f].ends
      BY DEF CloseRespects, Close
    <3>2. (\E c \in accepted' : c[1] = d) <=> (\E c \in accepted : c[1] = d)
      BY DEF CloseRespects
    <3>3. (\E g \in Fds : d \in obj'[g].ends)
            <=> (\E g \in Fds : d \in obj[g].ends) /\ d \notin obj[f].ends
      BY <1>1, <1>2 DEF Inv, OwnInv
    <3>4. d \in obj[f].ends => ~ \E c \in accepted : c[1] = d
      BY DEF Inv, OwnInv
    <3>5. d \in open <=> Held(d)
      BY DEF Inv, OwnInv
    <3> QED BY <3>1, <3>2, <3>3, <3>4, <3>5 DEF Held
  <2>3. \A g \in Fds : \A c \in accepted' : c[1] \notin obj'[g].ends
    BY <1>1, <1>2 DEF CloseRespects, Inv, OwnInv
  <2>4. \A d \in lost' : /\ \A c \in accepted' : c[1] # d
                         /\ \A g \in Fds : d \notin obj'[g].ends
    BY <1>1, <1>2 DEF CloseRespects, Close, Inv, OwnInv
  <2>5. /\ \A g \in Fds : obj'[g].family = "none" => obj'[g].ends = {}
        /\ \A g \in Fds : ~obj'[g].made => obj'[g].family = "none"
    BY <1>1, <1>2 DEF Inv, OwnInv
  <2>6. /\ \A a, b \in accepted' : a[1] = b[1] => a = b
        /\ \A c \in accepted' : c[2] # "none"
    BY DEF CloseRespects, Inv, OwnInv
  <2> QED BY <2>1, <2>2, <2>3, <2>4, <2>5, <2>6 DEF OwnInv
<1>7. WatchInv'
  <2>1. \A d \in Numbers :
          watch'[d] = IF d \in obj[f].ends THEN Unwatched ELSE watch[d]
    BY DEF CloseRespects, Close
  <2>2. EventsFindOwner'
    <3> SUFFICES ASSUME NEW d \in Numbers, watch'[d].to # Nobody, d \notin lost'
                 PROVE  obj'[watch'[d].to].made /\ d \in obj'[watch'[d].to].ends
      BY DEF EventsFindOwner
    <3>1. d \notin obj[f].ends /\ watch'[d] = watch[d] /\ d \notin lost
      BY <2>1 DEF Unwatched, CloseRespects, Close
    <3>2. obj[watch[d].to].made /\ d \in obj[watch[d].to].ends
      BY <3>1 DEF Inv, WatchInv, EventsFindOwner
    <3>3. watch[d].to \in Fds \ {f}
      BY <3>1, <3>2 DEF Inv, TypeOK
    <3> QED BY <1>1, <3>1, <3>2, <3>3
  <2>3. \A d \in Numbers : watch'[d].to = Nobody => watch'[d].ways = {}
    BY <2>1 DEF Unwatched, Inv, WatchInv
  <2> QED BY <2>2, <2>3 DEF WatchInv
<1>8. PathInv'
  <2> DEFINE gone == IF obj[f].family \in {"local", "fifo"} THEN {obj[f].address}
                     ELSE {}
             kept(n) == \E g \in Fds \ robbed : obj[g].maker /\ obj[g].address = n
  <2>1. /\ names' = names \ gone
        /\ robbed' = (robbed \cup {g \in Fds : obj[g].maker /\ obj[g].address \in gone})
                       \ {f}
        /\ left' = left \ gone
    BY DEF CloseRespects, Unlink
  <2>2. obj[f].maker => gone = {obj[f].address}
    BY DEF Inv, PathInv
  <2> HIDE DEF gone
  <2>3. \A g \in robbed' : obj'[g].maker
    BY <1>1, <2>1 DEF Inv, PathInv, TypeOK
  <2>4. \A g \in Fds : obj'[g].maker =>
          obj'[g].family \in {"local", "fifo"} /\ obj'[g].address \in Names
    BY <1>1, <1>2 DEF Inv, PathInv
  <2>5. \A g \in Fds : g \notin robbed' /\ obj'[g].maker
          <=> g # f /\ g \notin robbed /\ obj[g].maker /\ obj[g].address \notin gone
    BY <1>1, <1>2, <2>1
  <2>6. \A n \in Names : n \in names' <=>
          \/ n \in left'
          \/ \E g \in Fds \ robbed' : obj'[g].maker /\ obj'[g].address = n
    <3> SUFFICES ASSUME NEW n \in Names
                 PROVE  n \in names' <=>
                          \/ n \in left'
                          \/ \E g \in Fds \ robbed' :
                               obj'[g].maker /\ obj'[g].address = n
      OBVIOUS
    <3>1. n \in names <=> n \in left \/ kept(n)
      BY DEF Inv, PathInv
    <3>2. (\E g \in Fds \ robbed' : obj'[g].maker /\ obj'[g].address = n)
            <=> kept(n) /\ n \notin gone
      BY <1>1, <2>2, <2>5
    <3> HIDE DEF kept
    <3> QED BY <2>1, <3>1, <3>2
  <2>7. \A g \in Fds \ robbed' : obj'[g].maker => obj'[g].address \notin left'
    BY <1>1, <2>1, <2>5 DEF Inv, PathInv
  <2>8. \A g, h \in Fds \ robbed' :
          obj'[g].maker /\ obj'[h].maker /\ obj'[g].address = obj'[h].address
            => g = h
    BY <1>1, <2>5 DEF Inv, PathInv
  <2> QED BY <2>3, <2>4, <2>6, <2>7, <2>8 DEF PathInv
<1> QED BY <1>5, <1>6, <1>7, <1>8 DEF Inv

-----------------------------------------------------------------------------
(***************************************************************************)
(* The steps                                                               *)
(***************************************************************************)

\* A new instance is one that gives nothing back.
LEMMA ConstructKeeps ==
  ASSUME Inv, NEW f \in Fds, Construct(f)
  PROVE  Inv'
<1> DEFINE x == [Blank EXCEPT !.made = TRUE]
<1>1. /\ x \in Instance
      /\ x.family = "none" /\ x.ends = {} /\ x.maker = FALSE /\ x.mask = {}
  BY DEF Blank, Instance, Families, Ways
<1>2. obj[f].family = "none" /\ obj[f].ends = {} /\ ~obj[f].maker /\ f \notin robbed
  BY DEF Construct, Inv, OwnInv, PathInv
<1>3. obj' = [obj EXCEPT ![f] = x]
  BY DEF Construct
<1> HIDE DEF x
<1>4. Close(obj[f].ends)
  <2>1. watch = [d \in Numbers |-> watch[d]]
    BY DEF Inv, TypeOK
  <2> QED BY <1>2, <2>1 DEF Construct, Close
<1>5. Unlink(f)
  BY <1>2 DEF Construct, Unlink
<1>6. CloseRespects(f, x)
  BY <1>1, <1>3, <1>4, <1>5 DEF CloseRespects, Construct
<1> QED BY <1>6, CloseKeeps

LEMMA ReleaseKeeps ==
  ASSUME Inv, NEW f \in Fds, Release(f)
  PROVE  Inv'
<1> DEFINE x == [obj[f] EXCEPT !.family = "none", !.ends = {},
                               !.maker = FALSE]
<1>1. obj[f] \in Instance
  BY DEF Inv, TypeOK
<1>2. /\ x \in Instance
      /\ x.family = "none" /\ x.ends = {} /\ x.maker = FALSE
  BY <1>1 DEF Instance, Families
<1>3. obj' = [obj EXCEPT ![f] = x]
  BY DEF Release
<1> HIDE DEF x
<1>4. CloseRespects(f, x)
  BY <1>2, <1>3 DEF CloseRespects, Release
<1> QED BY <1>4, CloseKeeps

LEMMA DestroyKeeps ==
  ASSUME Inv, NEW f \in Fds, Destroy(f)
  PROVE  Inv'
<1>1. /\ Blank \in Instance
      /\ Blank.family = "none" /\ Blank.ends = {} /\ Blank.maker = FALSE
      /\ Blank.mask = {}
  BY DEF Blank, Instance, Families, Ways
<1>2. CloseRespects(f, Blank)
  BY <1>1 DEF CloseRespects, Destroy
<1> QED BY <1>2, CloseKeeps

\* What Poll does to the epoll set.
LEMMA PollFacts ==
  ASSUME watch \in [Numbers -> [to : Fds \cup {Nobody}, ways : SUBSET Ways]],
         NEW f \in Fds, NEW D \in SUBSET Numbers, NEW ways \in [D -> SUBSET Ways],
         Poll(f, ways)
  PROVE  /\ watch' \in [Numbers -> [to : Fds \cup {Nobody}, ways : SUBSET Ways]]
         /\ \A d \in Numbers :
              watch'[d] = watch[d] \/ (d \in D /\ watch'[d].to = f)
<1>1. PICK ds \in SUBSET D :
        watch' = [d \in Numbers |-> IF d \in ds THEN [to |-> f, ways |-> ways[d]]
                                    ELSE watch[d]]
  BY DEF Poll
<1> QED BY <1>1

LEMMA BothFacts ==
  ASSUME NEW d
  PROVE  Both(d) \in [{d} -> SUBSET Ways]
  BY DEF Both

LEMMA SocketKeeps ==
  ASSUME Inv, NEW f \in Fds, NEW family, NEW d \in Numbers, Socket(f, family, d)
  PROVE  Inv'
<1>1. /\ watch' \in [Numbers -> [to : Fds \cup {Nobody}, ways : SUBSET Ways]]
      /\ \A e \in Numbers :
           watch'[e] = watch[e] \/ (e \in {d} /\ watch'[e].to = f)
  <2>1. watch \in [Numbers -> [to : Fds \cup {Nobody}, ways : SUBSET Ways]]
    BY DEF Inv, TypeOK
  <2>2. Poll(f, Both(d))
    BY DEF Socket
  <2>3. {d} \in SUBSET Numbers
    OBVIOUS
  <2> QED BY <2>1, <2>2, <2>3, BothFacts, PollFacts
<1>2. \A c \in accepted : c[1] # d
  BY DEF Socket, Unused, Inv, OwnInv, Held
<1>3. MountRespects(f, family, {d}, Nobody, FALSE)
  BY <1>1, <1>2 DEF MountRespects, Socket
<1>4. family \in Families
  BY DEF Socket, Families
<1> QED BY <1>3, <1>4, MountKeeps

LEMMA LocalSocketKeeps ==
  ASSUME Inv, NEW f \in Fds, NEW n \in Names, NEW bind \in BOOLEAN,
         NEW d \in Numbers, LocalSocket(f, n, bind, d)
  PROVE  Inv'
<1>1. /\ watch' \in [Numbers -> [to : Fds \cup {Nobody}, ways : SUBSET Ways]]
      /\ \A e \in Numbers :
           watch'[e] = watch[e] \/ (e \in {d} /\ watch'[e].to = f)
  <2>1. watch \in [Numbers -> [to : Fds \cup {Nobody}, ways : SUBSET Ways]]
    BY DEF Inv, TypeOK
  <2>2. Poll(f, Both(d))
    BY DEF LocalSocket
  <2>3. {d} \in SUBSET Numbers
    OBVIOUS
  <2> QED BY <2>1, <2>2, <2>3, BothFacts, PollFacts
<1>2. \A c \in accepted : c[1] # d
  BY DEF LocalSocket, Unused, Inv, OwnInv, Held
<1>3. MountRespects(f, "local", {d}, n, bind)
  BY <1>1, <1>2 DEF MountRespects, LocalSocket
<1> QED BY <1>3, MountKeeps DEF Families

LEMMA PipeKeeps ==
  ASSUME Inv, NEW f \in Fds, NEW r \in Numbers, NEW w \in Numbers, Pipe(f, r, w)
  PROVE  Inv'
<1> DEFINE ways == [e \in {r, w} |-> IF e = r THEN {"read"} ELSE {"write"}]
<1>1. /\ watch' \in [Numbers -> [to : Fds \cup {Nobody}, ways : SUBSET Ways]]
      /\ \A e \in Numbers :
           watch'[e] = watch[e] \/ (e \in {r, w} /\ watch'[e].to = f)
  <2>1. watch \in [Numbers -> [to : Fds \cup {Nobody}, ways : SUBSET Ways]]
    BY DEF Inv, TypeOK
  <2>2. Poll(f, ways)
    BY DEF Pipe
  <2>3. {r, w} \in SUBSET Numbers /\ ways \in [{r, w} -> SUBSET Ways]
    BY DEF Ways
  <2> HIDE DEF ways
  <2> QED BY <2>1, <2>2, <2>3, PollFacts
<1>2. \A c \in accepted : c[1] \notin {r, w}
  BY DEF Pipe, Unused, Inv, OwnInv, Held
<1>3. obj[f].address \in Names \cup {Nobody}
  BY DEF Inv, TypeOK, Instance
<1>4. MountRespects(f, "pipe", {r, w}, obj[f].address, FALSE)
  BY <1>1, <1>2 DEF MountRespects, Pipe
<1> QED BY <1>3, <1>4, MountKeeps DEF Families

LEMMA MkFifoKeeps ==
  ASSUME Inv, NEW f \in Fds, NEW n \in Names, MkFifo(f, n)
  PROVE  Inv'
<1>1. MountRespects(f, "fifo", {}, n, TRUE)
  BY DEF MountRespects, MkFifo, Inv, TypeOK
<1> QED BY <1>1, MountKeeps DEF Families

LEMMA OpenFileKeeps ==
  ASSUME Inv, NEW f \in Fds, NEW d \in Numbers, OpenFile(f, d)
  PROVE  Inv'
<1>1. \A c \in accepted : c[1] # d
  BY DEF OpenFile, Unused, Inv, OwnInv, Held
<1>2. obj[f].address \in Names \cup {Nobody}
  BY DEF Inv, TypeOK, Instance
<1>3. MountRespects(f, "file", {d}, obj[f].address, FALSE)
  BY <1>1 DEF MountRespects, OpenFile, Inv, TypeOK
<1> QED BY <1>2, <1>3, MountKeeps DEF Families

LEMMA EventFdKeeps ==
  ASSUME Inv, NEW f \in Fds, NEW d \in Numbers, EventFd(f, d)
  PROVE  Inv'
<1>1. /\ watch' \in [Numbers -> [to : Fds \cup {Nobody}, ways : SUBSET Ways]]
      /\ \A e \in Numbers :
           watch'[e] = watch[e] \/ (e \in {d} /\ watch'[e].to = f)
  <2>1. watch \in [Numbers -> [to : Fds \cup {Nobody}, ways : SUBSET Ways]]
    BY DEF Inv, TypeOK
  <2>2. Poll(f, Both(d))
    BY DEF EventFd
  <2>3. {d} \in SUBSET Numbers
    OBVIOUS
  <2> QED BY <2>1, <2>2, <2>3, BothFacts, PollFacts
<1>2. \A c \in accepted : c[1] # d
  BY DEF EventFd, Unused, Inv, OwnInv, Held
<1>3. obj[f].address \in Names \cup {Nobody}
  BY DEF Inv, TypeOK, Instance
<1>4. MountRespects(f, "eventFd", {d}, obj[f].address, FALSE)
  BY <1>1, <1>2 DEF MountRespects, EventFd
<1> QED BY <1>3, <1>4, MountKeeps DEF Families

LEMMA MkFdSockKeeps ==
  ASSUME Inv, NEW f \in Fds, NEW d \in Numbers, NEW family \in Families,
         MkFdSock(f, d, family)
  PROVE  Inv'
<1>1. /\ watch' \in [Numbers -> [to : Fds \cup {Nobody}, ways : SUBSET Ways]]
      /\ \A e \in Numbers :
           watch'[e] = watch[e] \/ (e \in {d} /\ watch'[e].to = f)
  <2>1. watch \in [Numbers -> [to : Fds \cup {Nobody}, ways : SUBSET Ways]]
    BY DEF Inv, TypeOK
  <2>2. Poll(f, Both(d))
    BY DEF MkFdSock
  <2>3. {d} \in SUBSET Numbers
    OBVIOUS
  <2> QED BY <2>1, <2>2, <2>3, BothFacts, PollFacts
<1>2. <<d, family>> \in accepted
  BY DEF MkFdSock
<1>3. accepted' = {b \in accepted : b[1] \notin {d}}
  BY <1>2 DEF MkFdSock, Inv, OwnInv
<1>4. open' = open \cup {d}
  <2>1. d \in open
    BY <1>2 DEF Inv, OwnInv, Held
  <2> QED BY <2>1 DEF MkFdSock
<1>5. family # "none"
  BY <1>2 DEF Inv, OwnInv
<1>6. MountRespects(f, family, {d}, Nobody, FALSE)
  BY <1>1, <1>2, <1>3, <1>4, <1>5 DEF MountRespects, MkFdSock
<1> QED BY <1>6, MountKeeps

LEMMA AcceptKeeps ==
  ASSUME Inv, NEW f \in Fds, NEW d \in Numbers, Accept(f, d)
  PROVE  Inv'
<1> DEFINE c == <<d, obj[f].family>>
<1>1. c[1] = d /\ c[2] # "none" /\ c \in Numbers \X Families
  BY DEF Accept, Families
<1>2. accepted' = accepted \cup {c} /\ open' = open \cup {d}
      /\ UNCHANGED <<build, obj, watch, names, robbed, lost, left>>
  BY DEF Accept
<1> HIDE DEF c
<1>3. d \notin open
  BY DEF Accept, Unused
<1>4. ~Held(d)
  BY <1>3 DEF Inv, OwnInv
<1>5. TypeOK'
  BY <1>1, <1>2 DEF Inv, TypeOK
<1>6. OwnInv'
  <2>1. \A e \in Numbers : e \in open' <=> Held(e)'
    BY <1>1, <1>2 DEF Inv, OwnInv, Held
  <2>2. \A g \in Fds : \A b \in accepted' : b[1] \notin obj'[g].ends
    BY <1>1, <1>2, <1>4 DEF Inv, OwnInv, Held
  <2>3. \A a, b \in accepted' : a[1] = b[1] => a = b
    BY <1>1, <1>2, <1>4 DEF Inv, OwnInv, Held
  <2>4. \A b \in accepted' : b[2] # "none"
    BY <1>1, <1>2 DEF Inv, OwnInv
  <2>5. \A e \in lost : \A b \in accepted' : b[1] # e
    BY <1>1, <1>2, <1>4 DEF Inv, OwnInv, Held
  <2> QED BY <1>2, <2>1, <2>2, <2>3, <2>4, <2>5 DEF Inv, OwnInv
<1>7. WatchInv' /\ PathInv'
  BY <1>2 DEF Inv, WatchInv, EventsFindOwner, PathInv
<1> QED BY <1>5, <1>6, <1>7 DEF Inv

\* A step that changes of one instance only what it is ready for.
LEMMA MaskKeeps ==
  ASSUME Inv, NEW f \in Fds, NEW mask \in SUBSET Ways,
         obj' = [obj EXCEPT ![f].mask = mask],
         UNCHANGED <<build, open, watch, accepted, names, robbed, lost, left>>
  PROVE  Inv'
<1>1. /\ obj' \in [Fds -> Instance]
      /\ \A g \in Fds : /\ obj'[g].made = obj[g].made
                        /\ obj'[g].family = obj[g].family
                        /\ obj'[g].ends = obj[g].ends
                        /\ obj'[g].address = obj[g].address
                        /\ obj'[g].maker = obj[g].maker
  BY DEF Inv, TypeOK, Instance
<1>2. TypeOK'
  BY <1>1 DEF Inv, TypeOK
<1>3. OwnInv'
  <2>1. \A d \in Numbers : d \in open' <=> Held(d)'
    BY <1>1 DEF Inv, OwnInv, Held
  <2> QED BY <1>1, <2>1 DEF Inv, OwnInv
<1>4. WatchInv'
  <2>1. EventsFindOwner'
    <3> SUFFICES ASSUME NEW d \in Numbers, watch[d].to # Nobody, d \notin lost
                 PROVE  obj'[watch[d].to].made /\ d \in obj'[watch[d].to].ends
      BY DEF EventsFindOwner
    <3>1. watch[d].to \in Fds
      BY DEF Inv, TypeOK
    <3>2. obj[watch[d].to].made /\ d \in obj[watch[d].to].ends
      BY DEF Inv, WatchInv, EventsFindOwner
    <3> QED BY <1>1, <3>1, <3>2
  <2> QED BY <2>1 DEF Inv, WatchInv
<1>5. PathInv'
  <2>1. robbed \subseteq Fds
    BY DEF Inv, TypeOK
  <2> QED BY <1>1, <2>1 DEF Inv, PathInv
<1> QED BY <1>2, <1>3, <1>4, <1>5 DEF Inv

LEMMA EventKeeps ==
  ASSUME Inv, NEW d \in Numbers, NEW way \in Ways, Event(d, way)
  PROVE  Inv'
<1> DEFINE f == watch[d].to
           mask == obj[f].mask \cup {way}
<1>1. f \in Fds
  BY DEF Event, Inv, TypeOK, WatchInv
<1>2. mask \in SUBSET Ways
  BY <1>1 DEF Inv, TypeOK, Instance
<1>3. obj' = [obj EXCEPT ![f].mask = mask]
  BY DEF Event
<1> HIDE DEF f, mask
<1> QED BY <1>1, <1>2, <1>3, MaskKeeps DEF Event

LEMMA UnreadyKeeps ==
  ASSUME Inv, NEW f \in Fds, NEW way \in Ways, Unready(f, way)
  PROVE  Inv'
<1> DEFINE mask == obj[f].mask \ {way}
<1>1. mask \in SUBSET Ways
  BY DEF Inv, TypeOK, Instance
<1>2. obj' = [obj EXCEPT ![f].mask = mask]
  BY DEF Unready
<1> HIDE DEF mask
<1> QED BY <1>1, <1>2, MaskKeeps DEF Unready

\* What fails leaves everything as it was; at most the program is over.
LEMMA NothingKeeps ==
  ASSUME Inv, build' \in {"asserts", "ndebug", "aborted", "wild"},
         UNCHANGED <<obj, open, watch, accepted, names, robbed, lost, left>>
  PROVE  Inv'
<1>1. TypeOK'
  BY DEF Inv, TypeOK
<1>2. OwnInv'
  <2>1. \A d \in Numbers : d \in open' <=> Held(d)'
    BY DEF Inv, OwnInv, Held
  <2> QED BY <2>1 DEF Inv, OwnInv
<1>3. WatchInv' /\ PathInv'
  BY DEF Inv, WatchInv, EventsFindOwner, PathInv
<1> QED BY <1>1, <1>2, <1>3 DEF Inv

-----------------------------------------------------------------------------
LEMMA InitInv ==
  ASSUME Init
  PROVE  Inv
<1>1. \A f \in Fds : obj[f] = Blank
  BY DEF Init
<1>2. /\ Blank.made = FALSE /\ Blank.family = "none" /\ Blank.ends = {}
      /\ Blank.maker = FALSE /\ Blank.mask = {} /\ Blank \in Instance
  BY DEF Blank, Instance, Families, Ways
<1>3. /\ Unwatched.to = Nobody /\ Unwatched.ways = {}
      /\ Unwatched \in [to : Fds \cup {Nobody}, ways : SUBSET Ways]
  BY DEF Unwatched
<1>4. TypeOK
  BY <1>2, <1>3 DEF Init, TypeOK
<1>5. OwnInv
  BY <1>1, <1>2 DEF Init, OwnInv, Held
<1>6. WatchInv
  BY <1>3 DEF Init, WatchInv, EventsFindOwner
<1>7. PathInv
  BY <1>1, <1>2 DEF Init, PathInv
<1> QED BY <1>4, <1>5, <1>6, <1>7 DEF Inv

LEMMA MakeKeeps ==
  ASSUME Inv, NEW f \in Fds, Make(f)
  PROVE  Inv'
<1>1. CASE \E n \in Names : MkFifo(f, n)
  BY <1>1, MkFifoKeeps
<1>2. CASE \E n \in Names : MkFifoFails(f, n)
  <2>1. PICK n \in Names : MkFifoFails(f, n)
    BY <1>2
  <2>2. names' = names /\ build' \in {"asserts", "ndebug", "aborted", "wild"}
    BY <2>1 DEF MkFifoFails, Inv, TypeOK
  <2> QED BY <2>1, <2>2, NothingKeeps DEF MkFifoFails
<1>3. CASE LocalAborts(f) \/ AssertFails(f)
  BY <1>3, NothingKeeps DEF LocalAborts, AssertFails
<1>4. CASE \E c \in accepted : MkFdSock(f, c[1], c[2])
  <2>1. PICK c \in accepted : MkFdSock(f, c[1], c[2])
    BY <1>4
  <2>2. c[1] \in Numbers /\ c[2] \in Families
    BY DEF Inv, TypeOK
  <2> QED BY <2>1, <2>2, MkFdSockKeeps
<1>5. ASSUME NEW d \in Numbers,
             \/ \E family \in {"ipv4", "ipv6"} : Socket(f, family, d)
             \/ \E n \in Names, bind \in BOOLEAN : LocalSocket(f, n, bind, d)
             \/ \E e \in Numbers : Pipe(f, d, e)
             \/ BindFails(f, d) \/ OpenFile(f, d) \/ EventFd(f, d)
      PROVE  Inv'
  <2>1. CASE \E family \in {"ipv4", "ipv6"} : Socket(f, family, d)
    BY <2>1, SocketKeeps
  <2>2. CASE \E n \in Names, bind \in BOOLEAN : LocalSocket(f, n, bind, d)
    BY <2>2, LocalSocketKeeps
  <2>3. CASE \E e \in Numbers : Pipe(f, d, e)
    BY <2>3, PipeKeeps
  <2>4. CASE BindFails(f, d)
    <3>1. open' = open /\ build' \in {"asserts", "ndebug", "aborted", "wild"}
      BY <2>4 DEF BindFails, Unused, Inv, TypeOK
    <3> QED BY <2>4, <3>1, NothingKeeps DEF BindFails
  <2>5. CASE OpenFile(f, d)
    BY <2>5, OpenFileKeeps
  <2>6. CASE EventFd(f, d)
    BY <2>6, EventFdKeeps
  <2> QED BY <1>5, <2>1, <2>2, <2>3, <2>4, <2>5, <2>6
<1> QED BY <1>1, <1>2, <1>3, <1>4, <1>5 DEF Make

\* The invariant is inductive.
LEMMA NextInv ==
  ASSUME Inv, [Next]_vars
  PROVE  Inv'
<1>1. CASE \E f \in Fds : Construct(f) \/ Make(f) \/ Release(f) \/ Destroy(f)
  BY <1>1, ConstructKeeps, MakeKeeps, ReleaseKeeps, DestroyKeeps
<1>2. CASE \E f \in Fds, d \in Numbers : Accept(f, d)
  BY <1>2, AcceptKeeps
<1>3. CASE \E f \in Fds, way \in Ways : Unready(f, way)
  BY <1>3, UnreadyKeeps
<1>4. CASE \E d \in Numbers, way \in Ways : Event(d, way)
  BY <1>4, EventKeeps
<1>5. CASE \E d \in Numbers : EventWild(d)
  BY <1>5, NothingKeeps DEF EventWild
<1>6. CASE UNCHANGED vars
  <2>1. build' \in {"asserts", "ndebug", "aborted", "wild"}
    BY <1>6 DEF vars, Inv, TypeOK
  <2> QED BY <1>6, <2>1, NothingKeeps DEF vars
<1> QED BY <1>1, <1>2, <1>3, <1>4, <1>5, <1>6 DEF Next

THEOREM Invariance == Spec => []Inv
<1>1. Init => Inv
  BY InitInv
<1>2. Inv /\ [Next]_vars => Inv'
  BY NextInv
<1> QED BY <1>1, <1>2, PTL DEF Spec

-----------------------------------------------------------------------------
(***************************************************************************)
(* The properties                                                          *)
(***************************************************************************)

\* Every field keeps its type, whatever fails and in whatever order instances
\* are made, released and destroyed.
THEOREM TypeCorrect == Spec => []TypeOK
<1>1. Inv => TypeOK
  BY DEF Inv
<1> QED BY <1>1, Invariance, PTL

\* fd.cpp opens, mounts and closes descriptors so that every open number has one
\* owner, unless it was lost by a mount over its instance: nothing else loses a
\* number, and none is closed by a former owner.
THEOREM OneOwner == Spec => []NumbersOwned
<1>1. Inv => NumbersOwned
  <2> SUFFICES ASSUME Inv PROVE NumbersOwned
    OBVIOUS
  <2> DEFINE owned == Waiting \cup lost \cup UNION {obj[f].ends : f \in Fds}
  <2>1. \A f \in Fds : obj[f].ends \subseteq Numbers
    BY DEF Inv, TypeOK, Instance
  <2>2. Waiting \subseteq Numbers /\ open \subseteq Numbers /\ lost \subseteq Numbers
    BY DEF Inv, TypeOK, Waiting
  <2>3. \A d \in Numbers : d \in open <=> d \in owned
    BY DEF Inv, OwnInv, Held, Waiting
  <2>4. owned \subseteq Numbers
    BY <2>1, <2>2
  <2>5. open = owned
    <3> HIDE DEF owned
    <3> QED BY <2>2, <2>3, <2>4
  <2>6. /\ \A f \in Fds : obj[f].ends \cap (lost \cup Waiting) = {}
        /\ lost \cap Waiting = {}
    <3>1. /\ \A f \in Fds : \A d \in lost \cup Waiting : d \notin obj[f].ends
          /\ \A d \in lost : d \notin Waiting
      BY DEF Inv, OwnInv, Waiting
    <3> HIDE DEF owned
    <3> QED BY <3>1
  <2>7. \A f, g \in Fds : f # g => obj[f].ends \cap obj[g].ends = {}
    BY DEF Inv, OwnInv
  <2>8. \A f \in Fds : obj[f].family = "none" => obj[f].ends = {}
    BY DEF Inv, OwnInv
  <2> QED BY <2>5, <2>6, <2>7, <2>8 DEF NumbersOwned
<1> QED BY <1>1, Invariance, PTL

\* Release, destruction, reuse of an instance and reuse of a number never make
\* an epoll event find the wrong instance; only a lost number's can.
THEOREM OwnerFound == Spec => []EventsFindOwner
<1>1. Inv => EventsFindOwner
  BY DEF Inv, WatchInv
<1> QED BY <1>1, Invariance, PTL

\* A path goes when its maker is released, not earlier unless another instance
\* with the same address is released, and not later unless the maker was mounted
\* over.
THEOREM PathsKept == Spec => []PathsMatch
<1>1. Inv => PathsMatch
  <2> SUFFICES ASSUME Inv PROVE PathsMatch
    OBVIOUS
  <2> DEFINE kept == {obj[f].address : f \in {g \in Fds : obj[g].maker} \ robbed}
             all == left \cup kept
  <2>1. all \subseteq Names
    BY DEF Inv, TypeOK, PathInv
  <2>2. \A n \in Names : n \in names <=> n \in all
    BY DEF Inv, PathInv
  <2>3. names \subseteq Names
    BY DEF Inv, TypeOK
  <2>4. \A f \in Fds \ robbed : obj[f].maker => obj[f].address \notin left
    BY DEF Inv, PathInv
  <2> HIDE DEF all
  <2>5. names = all
    BY <2>1, <2>2, <2>3
  <2> QED BY <2>4, <2>5 DEF all, PathsMatch
<1> QED BY <1>1, Invariance, PTL
=============================================================================
