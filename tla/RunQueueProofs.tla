---------------------------- MODULE RunQueueProofs ----------------------------
(***************************************************************************)
(* Theorems about RunQueue for any page size and any number of pages: the  *)
(* links stay a ring and the free list a list, and the two implement the   *)
(* sequence of entries of EntryQueue.                                      *)
(***************************************************************************)
EXTENDS RunQueue, FiniteSetTheorems, SequenceTheorems, WellFoundedInduction, TLAPS

-----------------------------------------------------------------------------
(***************************************************************************)
(* Chain is a recursive function.  A sequence that satisfies its equation  *)
(* is its value: the first place in which they differ would follow one in  *)
(* which they agree.                                                       *)
(***************************************************************************)

\* A set of natural numbers has a least element.
LEMMA LeastOf ==
  ASSUME NEW S \in SUBSET Nat, S # {}
  PROVE  \E i \in S : \A j \in S : i <= j
<1> DEFINE R == OpToRel(<, Nat)
<1>1. IsWellFoundedOn(R, Nat)
  BY NatLessThanWellFounded
<1>2. \A i, j \in Nat : i < j => <<i, j>> \in R
  BY DEF OpToRel
<1> HIDE DEF R
<1>3. PICK i \in S : \A j \in S : ~ (<<j, i>> \in R)
  BY <1>1, WFMin
<1>4. ASSUME NEW j \in S PROVE i <= j
  <2>1. i \in Nat /\ j \in Nat /\ ~ (j < i)
    BY <1>2, <1>3
  <2> QED BY <2>1
<1> QED BY <1>3, <1>4

IsChain(g, link, f, n) ==
  /\ g = [i \in 1 .. n |-> g[i]]
  /\ \A i \in 1 .. n : g[i] = IF i = 1 THEN f ELSE link[g[i - 1]]

\* What satisfies the equation of a chain is the chain.
LEMMA ChainIs ==
  ASSUME NEW n \in Nat, NEW link, NEW f, NEW g, IsChain(g, link, f, n)
  PROVE  Chain(link, f, n) = g
<1> USE DEF IsChain
<1> DEFINE Eq(c) == c = [i \in 1 .. n |-> IF i = 1 THEN f ELSE link[c[i - 1]]]
           c == CHOOSE x : Eq(x)
<1>1. Chain(link, f, n) = c
  BY DEF Chain
<1>2. Eq(g)
  OBVIOUS
<1> HIDE DEF Eq
<1>3. Eq(c)
  BY <1>2
<1> HIDE DEF c
<1>4. c = [i \in 1 .. n |-> IF i = 1 THEN f ELSE link[c[i - 1]]]
  BY <1>3 DEF Eq
<1>5. \A i \in 1 .. n : c[i] = IF i = 1 THEN f ELSE link[c[i - 1]]
  BY <1>4
<1> DEFINE D == {i \in 1 .. n : c[i] # g[i]}
<1>6. CASE D = {}
  <2>1. \A i \in 1 .. n : c[i] = g[i]
    BY <1>6
  <2> QED BY <1>1, <1>4, <2>1
<1>7. CASE D # {}
  <2>1. D \in SUBSET Nat
    OBVIOUS
  <2>2. PICK i \in D : \A j \in D : i <= j
    BY <1>7, <2>1, LeastOf
  <2>3. i \in 1 .. n /\ c[i] # g[i]
    OBVIOUS
  <2>4. i # 1 => i - 1 \in 1 .. n /\ i - 1 \notin D
    BY <2>2, <2>3
  <2>5. i # 1 => c[i - 1] = g[i - 1]
    BY <2>4
  <2> QED BY <1>5, <2>3, <2>5
<1> QED BY <1>6, <1>7

-----------------------------------------------------------------------------
(***************************************************************************)
(* Sequences in which nothing occurs twice.                                *)
(***************************************************************************)
Once(s) == \A i, j \in 1 .. Len(s) : s[i] = s[j] => i = j

\* The range and the domain of a sequence.
LEMMA Spread ==
  ASSUME NEW S, NEW s \in Seq(S)
  PROVE  /\ Len(s) \in Nat /\ DOMAIN s = 1 .. Len(s)
         /\ s = << >> <=> Len(s) = 0
         /\ \A i \in 1 .. Len(s) : s[i] \in S /\ s[i] \in RangeOf(s)
         /\ \A x \in RangeOf(s) : \E i \in 1 .. Len(s) : s[i] = x
         /\ RangeOf(s) \subseteq S
         /\ s # << >> => Head(s) = s[1]
<1>1. Len(s) \in Nat /\ DOMAIN s = 1 .. Len(s) /\ (s = << >> <=> Len(s) = 0)
      /\ (s # << >> => Head(s) = s[1]) /\ \A i \in 1 .. Len(s) : s[i] \in S
  OBVIOUS
<1> QED BY <1>1 DEF RangeOf

\* Put last or first, an element is added.
LEMMA AppendOnce ==
  ASSUME NEW S, NEW s \in Seq(S), NEW x \in S, Once(s), x \notin RangeOf(s)
  PROVE  /\ Append(s, x) \in Seq(S) /\ Len(Append(s, x)) = Len(s) + 1
         /\ \A i \in 1 .. Len(s) : Append(s, x)[i] = s[i]
         /\ Append(s, x)[Len(s) + 1] = x
         /\ RangeOf(Append(s, x)) = RangeOf(s) \cup {x}
         /\ Once(Append(s, x))
<1> DEFINE t == Append(s, x)  n == Len(s)
<1>1. /\ t \in Seq(S) /\ Len(t) = n + 1 /\ n \in Nat /\ t[n + 1] = x
      /\ \A i \in 1 .. n : t[i] = s[i]
  OBVIOUS
<1>2. \A i \in 1 .. n : s[i] # x
  BY Spread
<1>3. \A y \in RangeOf(s) : \E i \in 1 .. n : s[i] = y
  BY Spread
<1>4. \A i \in 1 .. n : s[i] \in RangeOf(s)
  BY Spread
<1>5. /\ \A i \in 1 .. n + 1 : t[i] \in RangeOf(t)
      /\ \A y \in RangeOf(t) : \E i \in 1 .. n + 1 : t[i] = y
  <2> HIDE DEF t, n
  <2>1. /\ \A i \in 1 .. Len(t) : t[i] \in RangeOf(t)
        /\ \A y \in RangeOf(t) : \E i \in 1 .. Len(t) : t[i] = y
    BY <1>1, Spread
  <2> QED BY <1>1, <2>1
<1> HIDE DEF t, n
<1>6. \A i \in 1 .. n + 1 : i \in 1 .. n \/ i = n + 1
  BY <1>1
<1>7. RangeOf(t) = RangeOf(s) \cup {x}
  <2>1. n + 1 \in 1 .. n + 1 /\ \A i \in 1 .. n : i \in 1 .. n + 1
    BY <1>1
  <2> QED BY <1>1, <1>3, <1>4, <1>5, <1>6, <2>1
<1>8. Once(t)
  BY <1>1, <1>2, <1>6 DEF Once, n
<1> QED BY <1>1, <1>7, <1>8 DEF t, n

\* The same at the front.
LEMMA PushOnce ==
  ASSUME NEW S, NEW s \in Seq(S), NEW x \in S, Once(s), x \notin RangeOf(s)
  PROVE  /\ <<x>> \o s \in Seq(S) /\ Len(<<x>> \o s) = Len(s) + 1
         /\ \A i \in 1 .. Len(s) : (<<x>> \o s)[i + 1] = s[i]
         /\ (<<x>> \o s)[1] = x
         /\ RangeOf(<<x>> \o s) = RangeOf(s) \cup {x}
         /\ Once(<<x>> \o s)
<1> DEFINE t == <<x>> \o s  n == Len(s)
<1>1. /\ t \in Seq(S) /\ Len(t) = n + 1 /\ n \in Nat /\ t[1] = x
      /\ \A i \in 1 .. n : t[i + 1] = s[i]
  OBVIOUS
<1>2. \A i \in 1 .. n : s[i] # x
  BY Spread
<1>3. \A y \in RangeOf(s) : \E i \in 1 .. n : s[i] = y
  BY Spread
<1>4. \A i \in 1 .. n : s[i] \in RangeOf(s)
  BY Spread
<1>5. /\ \A i \in 1 .. n + 1 : t[i] \in RangeOf(t)
      /\ \A y \in RangeOf(t) : \E i \in 1 .. n + 1 : t[i] = y
  <2> HIDE DEF t, n
  <2>1. /\ \A i \in 1 .. Len(t) : t[i] \in RangeOf(t)
        /\ \A y \in RangeOf(t) : \E i \in 1 .. Len(t) : t[i] = y
    BY <1>1, Spread
  <2> QED BY <1>1, <2>1
<1> HIDE DEF t, n
<1>6. \A i \in 1 .. n + 1 : i = 1 \/ (i - 1 \in 1 .. n /\ t[i] = s[i - 1])
  <2> SUFFICES ASSUME NEW i \in 1 .. n + 1, i # 1
               PROVE  i - 1 \in 1 .. n /\ t[i] = s[i - 1]
    OBVIOUS
  <2>1. i - 1 \in 1 .. n /\ (i - 1) + 1 = i
    BY <1>1
  <2> QED BY <1>1, <2>1
<1>7. RangeOf(t) = RangeOf(s) \cup {x}
  <2>1. 1 \in 1 .. n + 1 /\ \A i \in 1 .. n : i + 1 \in 1 .. n + 1
    BY <1>1
  <2>2. x \in RangeOf(t)
    BY <1>1, <1>5, <2>1
  <2>3. ASSUME NEW y \in RangeOf(s) PROVE y \in RangeOf(t)
    <3>1. PICK i \in 1 .. n : s[i] = y
      BY <1>3
    <3> QED BY <1>1, <1>5, <2>1, <3>1
  <2>4. ASSUME NEW y \in RangeOf(t) PROVE y = x \/ y \in RangeOf(s)
    <3>1. PICK i \in 1 .. n + 1 : t[i] = y
      BY <1>5
    <3> QED BY <1>1, <1>4, <1>6, <3>1
  <2> QED BY <2>2, <2>3, <2>4
<1>8. Once(t)
  <2> SUFFICES ASSUME NEW i \in 1 .. n + 1, NEW j \in 1 .. n + 1, t[i] = t[j]
               PROVE  i = j
    BY <1>1 DEF Once
  <2>1. CASE i = 1 \/ j = 1
    BY <1>1, <1>2, <1>6, <2>1
  <2>2. CASE i # 1 /\ j # 1
    <3>1. i - 1 = j - 1
      BY <1>6, <2>2 DEF Once, n
    <3> QED BY <1>1, <3>1
  <2> QED BY <2>1, <2>2
<1> QED BY <1>1, <1>7, <1>8 DEF t, n

\* t is s without its k-th element.
IsCut(t, s, k) ==
  /\ Len(t) = Len(s) - 1
  /\ \A i \in 1 .. Len(s) - 1 : t[i] = IF i < k THEN s[i] ELSE s[i + 1]

\* Without its k-th element the range loses that element.
LEMMA CutOnce ==
  ASSUME NEW S, NEW s \in Seq(S), NEW t \in Seq(S), NEW k \in 1 .. Len(s),
         Once(s), IsCut(t, s, k)
  PROVE  RangeOf(t) = RangeOf(s) \ {s[k]} /\ Once(t)
<1> DEFINE n == Len(s)
<1>1. n \in Nat /\ k \in 1 .. n /\ Len(t) = n - 1
      /\ \A i \in 1 .. n - 1 : t[i] = IF i < k THEN s[i] ELSE s[i + 1]
  BY DEF IsCut
<1>2. /\ \A i \in 1 .. n : s[i] \in RangeOf(s)
      /\ \A y \in RangeOf(s) : \E i \in 1 .. n : s[i] = y
  BY Spread
<1>3. /\ \A i \in 1 .. n - 1 : t[i] \in RangeOf(t)
      /\ \A y \in RangeOf(t) : \E i \in 1 .. n - 1 : t[i] = y
  BY <1>1, Spread
<1>4. \A i, j \in 1 .. n : s[i] = s[j] => i = j
  BY DEF Once
<1> HIDE DEF n
<1>5. \A i \in 1 .. n - 1 : \E j \in 1 .. n :
        j # k /\ t[i] = s[j] /\ ((i < k /\ j = i) \/ (i >= k /\ j = i + 1))
  <2> SUFFICES ASSUME NEW i \in 1 .. n - 1
               PROVE  \E j \in 1 .. n :
                        j # k /\ t[i] = s[j] /\ ((i < k /\ j = i) \/ (i >= k /\ j = i + 1))
    OBVIOUS
  <2>1. CASE i < k
    <3>1. i \in 1 .. n /\ i # k
      BY <1>1, <2>1
    <3>2. t[i] = s[i]
      BY <1>1, <2>1
    <3> QED BY <2>1, <3>1, <3>2
  <2>2. CASE ~(i < k)
    <3>1. i + 1 \in 1 .. n /\ i + 1 # k /\ i >= k
      BY <1>1, <2>2
    <3> QED BY <1>1, <2>2, <3>1
  <2> QED BY <2>1, <2>2
<1>6. \A j \in 1 .. n : j # k => s[j] \in RangeOf(t)
  <2> SUFFICES ASSUME NEW j \in 1 .. n, j # k PROVE s[j] \in RangeOf(t)
    OBVIOUS
  <2>1. CASE j < k
    <3>1. j \in 1 .. n - 1
      BY <1>1, <2>1
    <3> QED BY <1>1, <1>3, <2>1, <3>1
  <2>2. CASE j > k
    <3>1. j - 1 \in 1 .. n - 1 /\ ~(j - 1 < k) /\ (j - 1) + 1 = j
      BY <1>1, <2>2
    <3>2. t[j - 1] = s[j]
      BY <1>1, <3>1
    <3> QED BY <1>3, <3>1, <3>2
  <2> QED BY <1>1, <2>1, <2>2
<1>7. RangeOf(t) = RangeOf(s) \ {s[k]}
  <2>1. ASSUME NEW y \in RangeOf(t) PROVE y \in RangeOf(s) /\ y # s[k]
    <3>1. PICK i \in 1 .. n - 1 : t[i] = y
      BY <1>3
    <3>2. PICK j \in 1 .. n : j # k /\ t[i] = s[j]
      BY <1>5
    <3> QED BY <1>1, <1>2, <1>4, <3>1, <3>2
  <2>2. \A y \in RangeOf(s) : y # s[k] => y \in RangeOf(t)
    BY <1>2, <1>6
  <2> QED BY <2>1, <2>2
<1>8. Once(t)
  <2> SUFFICES ASSUME NEW i \in 1 .. n - 1, NEW j \in 1 .. n - 1, t[i] = t[j]
               PROVE  i = j
    BY <1>1 DEF Once
  <2>1. PICK a \in 1 .. n :
          t[i] = s[a] /\ ((i < k /\ a = i) \/ (i >= k /\ a = i + 1))
    BY <1>5
  <2>2. PICK b \in 1 .. n :
          t[j] = s[b] /\ ((j < k /\ b = j) \/ (j >= k /\ b = j + 1))
    BY <1>5
  <2>3. a = b
    BY <1>4, <2>1, <2>2
  <2> QED BY <1>1, <2>1, <2>2, <2>3
<1> QED BY <1>7, <1>8

\* The operators of EntryQueue and the tail are such cuts, and only one is.
LEMMA WithoutCut ==
  ASSUME NEW S, NEW s \in Seq(S), NEW k \in 1 .. Len(s)
  PROVE  Promised!Without(s, k) \in Seq(S) /\ IsCut(Promised!Without(s, k), s, k)
<1> DEFINE a == SubSeq(s, 1, k - 1)  b == SubSeq(s, k + 1, Len(s))  n == Len(s)
<1>1. n \in Nat /\ k \in 1 .. n
  OBVIOUS
<1>2. /\ a \in Seq(S) /\ Len(a) = k - 1
      /\ \A i \in 1 .. k - 1 : a[i] = s[i]
  <2>1. \A i \in 1 .. k - 1 : s[i] \in S
    BY <1>1, Spread
  <2>2. /\ a \in Seq(S) /\ Len(a) = (IF 1 <= k - 1 THEN (k - 1) - 1 + 1 ELSE 0)
        /\ \A i \in 1 .. (k - 1) - 1 + 1 : a[i] = s[1 + i - 1]
    BY <1>1, <2>1, SubSeqProperties
  <2> HIDE DEF a
  <2>3. (k - 1) - 1 + 1 = k - 1 /\ \A i \in 1 .. k - 1 : 1 + i - 1 = i
    BY <1>1
  <2> QED BY <1>1, <2>2, <2>3
<1>3. /\ b \in Seq(S) /\ Len(b) = n - k
      /\ \A i \in 1 .. n - k : b[i] = s[k + i]
  <2>1. \A i \in k + 1 .. n : s[i] \in S
    BY <1>1, Spread
  <2>2. /\ b \in Seq(S) /\ Len(b) = (IF k + 1 <= n THEN n - (k + 1) + 1 ELSE 0)
        /\ \A i \in 1 .. n - (k + 1) + 1 : b[i] = s[(k + 1) + i - 1]
    BY <1>1, <2>1, SubSeqProperties
  <2> HIDE DEF b, n
  <2>3. n - (k + 1) + 1 = n - k /\ \A i \in 1 .. n - k : (k + 1) + i - 1 = k + i
    BY <1>1
  <2> QED BY <1>1, <2>2, <2>3
<1> HIDE DEF a, b
<1>4. /\ a \o b \in Seq(S) /\ Len(a \o b) = Len(a) + Len(b)
      /\ \A i \in 1 .. Len(a) + Len(b) :
           (a \o b)[i] = IF i <= Len(a) THEN a[i] ELSE b[i - Len(a)]
  BY <1>2, <1>3, ConcatProperties
<1> HIDE DEF n
<1>5. Len(a \o b) = n - 1
  BY <1>1, <1>2, <1>3, <1>4
<1>6. \A i \in 1 .. n - 1 : (a \o b)[i] = IF i < k THEN s[i] ELSE s[i + 1]
  <2> SUFFICES ASSUME NEW i \in 1 .. n - 1
               PROVE  (a \o b)[i] = IF i < k THEN s[i] ELSE s[i + 1]
    OBVIOUS
  <2>1. CASE i < k
    <3>1. i \in 1 .. k - 1 /\ i \in 1 .. Len(a) + Len(b) /\ i <= Len(a)
      BY <1>1, <1>2, <1>3, <2>1
    <3> QED BY <1>2, <1>4, <2>1, <3>1
  <2>2. CASE ~(i < k)
    <3>1. /\ i - Len(a) \in 1 .. n - k /\ i \in 1 .. Len(a) + Len(b)
          /\ ~(i <= Len(a)) /\ k + (i - Len(a)) = i + 1
      BY <1>1, <1>2, <1>3, <2>2
    <3>2. b[i - Len(a)] = s[i + 1]
      BY <1>3, <3>1
    <3> QED BY <1>4, <2>2, <3>1, <3>2
  <2> QED BY <2>1, <2>2
<1>7. Promised!Without(s, k) = a \o b
  BY DEF Promised!Without, a, b
<1> QED BY <1>4, <1>5, <1>6, <1>7 DEF IsCut, n

\* The tail is the cut at the first element.
LEMMA TailCut ==
  ASSUME NEW S, NEW s \in Seq(S), s # << >>
  PROVE  Tail(s) \in Seq(S) /\ IsCut(Tail(s), s, 1)
<1>1. /\ Len(s) \in Nat /\ Tail(s) \in Seq(S) /\ Len(Tail(s)) = Len(s) - 1
      /\ \A i \in 1 .. Len(s) - 1 : Tail(s)[i] = s[i + 1]
  OBVIOUS
<1> QED BY <1>1 DEF IsCut

\* Two sequences cut from one at the same place are equal.
LEMMA OneCut ==
  ASSUME NEW S, NEW s \in Seq(S), NEW k \in 1 .. Len(s),
         NEW t \in Seq(S), NEW u \in Seq(S), IsCut(t, s, k), IsCut(u, s, k)
  PROVE  t = u
<1>1. Len(t) = Len(u) /\ \A i \in 1 .. Len(t) : t[i] = u[i]
  BY DEF IsCut
<1> QED BY <1>1, SeqEqual

\* Such a sequence has as many elements as places.
LEMMA RangeCount ==
  ASSUME NEW S, NEW s \in Seq(S), Once(s)
  PROVE  IsFiniteSet(RangeOf(s)) /\ Cardinality(RangeOf(s)) = Len(s)
<1> DEFINE n == Len(s)  J == 1 .. n  K == RangeOf(s)
<1>1. n \in Nat /\ s \in [J -> K]
  <2>1. s \in [J -> S]
    OBVIOUS
  <2> QED BY <2>1, Spread
<1>2. \A i, j \in J : s[i] = s[j] => i = j
  BY DEF Once
<1>3. \A y \in K : \E i \in J : s[i] = y
  BY Spread
<1>4. IsFiniteSet(J) /\ Cardinality(J) = n
  BY <1>1, FS_Interval
<1> HIDE DEF J, K, n
<1>5. s \in Injection(J, K)
  BY <1>1, <1>2 DEF Injection, IsInjective
<1>6. s \in Surjection(J, K)
  BY <1>1, <1>3 DEF Surjection
<1>7. s \in Bijection(J, K)
  BY <1>5, <1>6 DEF Bijection
<1>8. ExistsBijection(J, K)
  BY <1>7 DEF ExistsBijection
<1>9. IsFiniteSet(K) /\ Cardinality(K) = n
  BY <1>4, <1>8, FS_Bijection
<1> QED BY <1>9 DEF K, n
-----------------------------------------------------------------------------
(***************************************************************************)
(* The list.  A sequence is the line of the queue when following next and  *)
(* prev from one of its elements leads to the one after and before it, the *)
(* first coming after the last.                                            *)
(***************************************************************************)
After(n, i) == IF i = n THEN 1 ELSE i + 1
Before(n, i) == IF i = 1 THEN n ELSE i - 1

Ring(s, nxt, prv) ==
  \A i \in 1 .. Len(s) :
    LET j == After(Len(s), i) IN nxt[s[i]] = s[j] /\ prv[s[j]] = s[i]

Links == [Fragments -> Fragments \cup {Null}]

IsLine(s, h, n, nxt, prv) ==
  /\ nxt \in Links /\ prv \in Links
  /\ s \in Seq(Fragments) /\ Once(s) /\ Len(s) = n
  /\ Ring(s, nxt, prv)
  /\ h = IF n = 0 THEN Null ELSE s[1]

\* Places on the ring.
LEMMA Places ==
  ASSUME NEW n \in Nat, NEW i \in 1 .. n
  PROVE  /\ After(n, i) \in 1 .. n /\ Before(n, i) \in 1 .. n
         /\ After(n, Before(n, i)) = i /\ Before(n, After(n, i)) = i
         /\ n # 1 => After(n, i) # i /\ Before(n, i) # i
BY DEF After, Before

\* A line is what Chain finds.
LEMMA LineIs ==
  ASSUME NEW s, NEW h, NEW n, NEW nxt, NEW prv, IsLine(s, h, n, nxt, prv)
  PROVE  Chain(nxt, h, n) = s
<1>1. /\ s \in Seq(Fragments) /\ Len(s) = n /\ n \in Nat
      /\ h = IF n = 0 THEN Null ELSE s[1]
      /\ s = [i \in 1 .. n |-> s[i]]
  BY DEF IsLine
<1>2. ASSUME NEW i \in 1 .. n PROVE s[i] = IF i = 1 THEN h ELSE nxt[s[i - 1]]
  <2>1. CASE i = 1
    BY <1>1, <2>1
  <2>2. CASE i # 1
    <3>1. i - 1 \in 1 .. Len(s) /\ After(Len(s), i - 1) = i
      BY <1>1, <2>2 DEF After
    <3>2. Ring(s, nxt, prv)
      BY DEF IsLine
    <3>3. nxt[s[i - 1]] = s[i]
      BY <3>1, <3>2 DEF Ring
    <3> QED BY <2>2, <3>3
  <2> QED BY <2>1, <2>2
<1>3. \A i \in 1 .. n : s[i] = IF i = 1 THEN h ELSE nxt[s[i - 1]]
  BY <1>2
<1>4. n \in Nat /\ IsChain(s, nxt, h, n)
  BY <1>1, <1>3 DEF IsChain
<1> QED BY ONLY <1>4, ChainIs

\* The links do not tell where a ring begins.
LEMMA RingTurns ==
  ASSUME NEW s, NEW t, NEW nxt, NEW prv, Len(s) \in Nat, Len(t) = Len(s),
         \A i \in 1 .. Len(s) : t[i] = s[After(Len(s), i)]
  PROVE  Ring(s, nxt, prv) <=> Ring(t, nxt, prv)
<1> DEFINE n == Len(s)
<1>1. n \in Nat /\ Len(t) = n /\ \A i \in 1 .. n : t[i] = s[After(n, i)]
  OBVIOUS
<1> HIDE DEF n
<1>2. ASSUME Ring(s, nxt, prv), NEW i \in 1 .. n
      PROVE  nxt[t[i]] = t[After(n, i)] /\ prv[t[After(n, i)]] = t[i]
  <2>1. After(n, i) \in 1 .. n
    BY <1>1, Places
  <2>2. t[i] = s[After(n, i)] /\ t[After(n, i)] = s[After(n, After(n, i))]
    BY <1>1, <2>1
  <2>3. /\ nxt[s[After(n, i)]] = s[After(n, After(n, i))]
        /\ prv[s[After(n, After(n, i))]] = s[After(n, i)]
    BY <1>2, <2>1 DEF Ring, n
  <2> QED BY <2>2, <2>3
<1>3. ASSUME Ring(t, nxt, prv), NEW j \in 1 .. n
      PROVE  nxt[s[j]] = s[After(n, j)] /\ prv[s[After(n, j)]] = s[j]
  <2> DEFINE i == Before(n, j)
  <2>1. i \in 1 .. n /\ After(n, i) = j /\ j \in 1 .. n
    BY <1>1, Places
  <2> HIDE DEF i
  <2>2. t[i] = s[j] /\ t[j] = s[After(n, j)]
    BY <1>1, <2>1
  <2>3. nxt[t[i]] = t[j] /\ prv[t[j]] = t[i]
    BY <1>1, <1>3, <2>1 DEF Ring
  <2> QED BY <2>2, <2>3
<1> QED BY <1>1, <1>2, <1>3 DEF Ring, n

\* mvNext: the line turns by one.
LEMMA TurnLine ==
  ASSUME NEW s, NEW h, NEW n, NEW nxt, NEW prv, IsLine(s, h, n, nxt, prv), n # 0
  PROVE  IsLine(Append(Tail(s), Head(s)), nxt[h], n, nxt, prv)
<1> DEFINE t == Append(Tail(s), Head(s))
<1>1. /\ s \in Seq(Fragments) /\ Len(s) = n /\ n \in Nat /\ Once(s)
      /\ h = s[1] /\ Ring(s, nxt, prv) /\ n > 0 /\ s # << >> /\ 1 \in 1 .. n
  BY DEF IsLine
<1>2. /\ t \in Seq(Fragments) /\ Len(t) = n /\ t[n] = s[1]
      /\ \A i \in 1 .. n - 1 : t[i] = s[i + 1]
  <2>1. /\ Tail(s) \in Seq(Fragments) /\ Len(Tail(s)) = n - 1 /\ Head(s) = s[1]
        /\ \A i \in 1 .. n - 1 : Tail(s)[i] = s[i + 1]
        /\ s[1] \in Fragments
    BY <1>1, HeadTailProperties
  <2> DEFINE u == Tail(s)
  <2> HIDE DEF u
  <2>2. /\ Append(u, s[1]) \in Seq(Fragments) /\ Len(Append(u, s[1])) = Len(u) + 1
        /\ \A i \in 1 .. Len(u) : Append(u, s[1])[i] = u[i]
        /\ Append(u, s[1])[Len(u) + 1] = s[1]
    BY <2>1, AppendProperties DEF u
  <2> QED BY <1>1, <2>1, <2>2 DEF u
<1> HIDE DEF t
<1>3. \A i \in 1 .. n : t[i] = s[After(n, i)]
  <2> SUFFICES ASSUME NEW i \in 1 .. n PROVE t[i] = s[After(n, i)]
    OBVIOUS
  <2>1. i = n \/ i \in 1 .. n - 1
    BY <1>1
  <2> QED BY <1>1, <1>2, <2>1 DEF After
<1>4. Ring(t, nxt, prv)
  BY <1>1, <1>2, <1>3, RingTurns
<1>5. Once(t)
  <2> SUFFICES ASSUME NEW i \in 1 .. n, NEW j \in 1 .. n, t[i] = t[j]
               PROVE  i = j
    BY <1>2 DEF Once
  <2>1. /\ After(n, i) \in 1 .. n /\ After(n, j) \in 1 .. n
        /\ Before(n, After(n, i)) = i /\ Before(n, After(n, j)) = j
    BY <1>1, Places
  <2>2. s[After(n, i)] = s[After(n, j)]
    BY <1>3
  <2>3. After(n, i) = After(n, j)
    BY <1>1, <2>1, <2>2 DEF Once
  <2> QED BY <2>1, <2>3
<1>6. nxt[h] = t[1]
  BY <1>1, <1>3, Places DEF Ring
<1> QED BY <1>1, <1>2, <1>4, <1>5, <1>6 DEF IsLine, t

\* LinkLast and LinkAlone: a fragment that is not in the line is put last, or
\* first if it becomes the head.
LEMMA LinkedAlone ==
  ASSUME NEW nxt \in Links, NEW prv \in Links, NEW f \in Fragments
  PROVE  IsLine(<<f>>, f, 1, [nxt EXCEPT ![f] = f], [prv EXCEPT ![f] = f])
<1> DEFINE s == <<f>>
<1>1. s \in Seq(Fragments) /\ Len(s) = 1 /\ s[1] = f
  OBVIOUS
<1> HIDE DEF s
<1>2. Once(s) /\ Ring(s, [nxt EXCEPT ![f] = f], [prv EXCEPT ![f] = f])
  BY <1>1 DEF Once, Ring, After, Links
<1> QED BY <1>1, <1>2 DEF IsLine, Links, s

\* LinkLast: before the head is behind the last entry, or the new head.
LEMMA LinkedLast ==
  ASSUME NEW s, NEW h, NEW n, NEW nxt, NEW prv, IsLine(s, h, n, nxt, prv),
         n # 0, NEW f \in Fragments, f \notin RangeOf(s),
         NEW nxt2, NEW prv2,
         nxt2 = [nxt EXCEPT ![f] = h, ![prv[h]] = f],
         prv2 = [prv EXCEPT ![f] = prv[h], ![h] = f]
  PROVE  /\ IsLine(Append(s, f), h, n + 1, nxt2, prv2)
         /\ IsLine(<<f>> \o s, f, n + 1, nxt2, prv2)
<1> DEFINE t == Append(s, f)  u == <<f>> \o s
<1>1. /\ s \in Seq(Fragments) /\ Len(s) = n /\ n \in Nat /\ Once(s)
      /\ h = s[1] /\ Ring(s, nxt, prv) /\ n > 0 /\ 1 \in 1 .. n /\ n \in 1 .. n
      /\ nxt \in Links /\ prv \in Links
  BY DEF IsLine
<1>2. /\ t \in Seq(Fragments) /\ Len(t) = n + 1 /\ Once(t) /\ t[n + 1] = f
      /\ \A i \in 1 .. n : t[i] = s[i]
  BY <1>1, AppendOnce
<1>3. /\ u \in Seq(Fragments) /\ Len(u) = n + 1 /\ Once(u) /\ u[1] = f
      /\ \A i \in 1 .. n : u[i + 1] = s[i]
  BY <1>1, PushOnce
<1> HIDE DEF t, u
<1>4. \A i \in 1 .. n : s[i] \in Fragments /\ s[i] # f
  BY <1>1, Spread
<1>5. \A i, j \in 1 .. n : s[i] = s[j] => i = j
  BY <1>1 DEF Once
<1>6. prv[h] = s[n]
  <2>1. After(n, n) = 1
    BY DEF After
  <2> QED BY <1>1, <2>1 DEF Ring
<1>7. \A i \in 1 .. n - 1 : nxt[s[i]] = s[i + 1] /\ prv[s[i + 1]] = s[i]
  <2> SUFFICES ASSUME NEW i \in 1 .. n - 1
               PROVE  nxt[s[i]] = s[i + 1] /\ prv[s[i + 1]] = s[i]
    OBVIOUS
  <2>1. i \in 1 .. n /\ After(n, i) = i + 1
    BY <1>1 DEF After
  <2> QED BY <1>1, <2>1 DEF Ring
<1>8. nxt2 \in Links /\ prv2 \in Links
  BY <1>1, <1>4, <1>6 DEF Links
<1>9. /\ nxt2[f] = h /\ nxt2[s[n]] = f
      /\ \A e \in Fragments : e # f /\ e # s[n] => nxt2[e] = nxt[e]
  BY <1>1, <1>4, <1>6 DEF Links
<1>10. /\ prv2[f] = s[n] /\ prv2[h] = f
       /\ \A e \in Fragments : e # f /\ e # h => prv2[e] = prv[e]
  BY <1>1, <1>4, <1>6 DEF Links
<1>11. ASSUME NEW i \in 1 .. n + 1
       PROVE  /\ nxt2[t[i]] = t[After(n + 1, i)]
              /\ prv2[t[After(n + 1, i)]] = t[i]
  <2>1. CASE i = n + 1
    BY <1>1, <1>2, <1>9, <1>10, <2>1 DEF After
  <2>2. CASE i = n
    <3>1. After(n + 1, i) = n + 1 /\ i \in 1 .. n
      BY <1>1, <2>2 DEF After
    <3> QED BY <1>1, <1>2, <1>9, <1>10, <2>2, <3>1
  <2>3. CASE i \in 1 .. n - 1
    <3>1. /\ After(n + 1, i) = i + 1 /\ i \in 1 .. n /\ i + 1 \in 1 .. n
          /\ i # n /\ i + 1 # 1
      BY <1>1, <2>3 DEF After
    <3>2. s[i] # s[n] /\ s[i + 1] # h /\ t[i] = s[i] /\ t[i + 1] = s[i + 1]
      BY <1>1, <1>2, <1>5, <3>1
    <3>3. nxt2[s[i]] = nxt[s[i]] /\ prv2[s[i + 1]] = prv[s[i + 1]]
      BY <1>4, <1>9, <1>10, <3>1, <3>2
    <3> QED BY <1>7, <2>3, <3>1, <3>2, <3>3
  <2>4. i = n + 1 \/ i = n \/ i \in 1 .. n - 1
    BY <1>1
  <2> QED BY <2>1, <2>2, <2>3, <2>4
<1>12. Ring(t, nxt2, prv2)
  BY <1>2, <1>11 DEF Ring
<1>13. \A i \in 1 .. n + 1 : t[i] = u[After(n + 1, i)]
  <2> SUFFICES ASSUME NEW i \in 1 .. n + 1 PROVE t[i] = u[After(n + 1, i)]
    OBVIOUS
  <2>1. i = n + 1 \/ (i \in 1 .. n /\ i # n + 1)
    BY <1>1
  <2> QED BY <1>2, <1>3, <2>1 DEF After
<1>14. Ring(u, nxt2, prv2)
  <2>1. Len(u) \in Nat /\ Len(t) = Len(u)
        /\ \A i \in 1 .. Len(u) : t[i] = u[After(Len(u), i)]
    BY <1>1, <1>2, <1>3, <1>13
  <2> QED BY <1>12, <2>1, RingTurns
<1>15. n + 1 # 0 /\ t[1] = h
  BY <1>1, <1>2
<1> QED BY <1>2, <1>3, <1>8, <1>12, <1>14, <1>15 DEF IsLine, t, u

\* Unlink: the neighbours of an element are linked to each other.
LEMMA Unlinked ==
  ASSUME NEW s, NEW h, NEW n, NEW nxt, NEW prv, IsLine(s, h, n, nxt, prv),
         NEW k \in 1 .. n, NEW t \in Seq(Fragments), IsCut(t, s, k),
         NEW f, f = s[k], NEW h2, NEW nxt2, NEW prv2,
         IF f = nxt[f]
         THEN h2 = Null /\ nxt2 = nxt /\ prv2 = prv
         ELSE /\ nxt2 = [nxt EXCEPT ![prv[f]] = nxt[f]]
              /\ prv2 = [prv EXCEPT ![nxt[f]] = prv[f]]
              /\ h2 = IF h = f THEN nxt[f] ELSE h
  PROVE  IsLine(t, h2, n - 1, nxt2, prv2)
<1>1. /\ s \in Seq(Fragments) /\ Len(s) = n /\ n \in Nat /\ Once(s)
      /\ h = s[1] /\ Ring(s, nxt, prv) /\ n > 0 /\ 1 \in 1 .. n
      /\ nxt \in Links /\ prv \in Links
  BY DEF IsLine
<1>2. Len(t) = n - 1 /\ Once(t)
      /\ \A i \in 1 .. n - 1 : t[i] = IF i < k THEN s[i] ELSE s[i + 1]
  BY <1>1, CutOnce DEF IsCut
<1>3. \A i, j \in 1 .. n : s[i] = s[j] => i = j
  BY <1>1 DEF Once
<1>4. \A i \in 1 .. n : s[i] \in Fragments
  BY <1>1, Spread
<1>5. \A i \in 1 .. n : nxt[s[i]] = s[After(n, i)] /\ prv[s[After(n, i)]] = s[i]
  BY <1>1 DEF Ring
<1> DEFINE a == After(n, k)  b == Before(n, k)
<1>6. /\ a \in 1 .. n /\ b \in 1 .. n /\ After(n, b) = k
      /\ n # 1 => a # k /\ b # k
  BY <1>1, Places
<1>7. nxt[f] = s[a] /\ prv[f] = s[b]
  <2>1. prv[s[After(n, b)]] = s[b]
    BY <1>5, <1>6
  <2> QED BY <1>5, <1>6, <2>1
<1>8. CASE n = 1
  <2>1. a = k /\ f = nxt[f]
    BY <1>6, <1>7, <1>8
  <2>2. n - 1 = 0 /\ Len(t) = 0 /\ h2 = Null /\ nxt2 = nxt /\ prv2 = prv
    BY <1>2, <1>8, <2>1
  <2>3. Ring(t, nxt2, prv2)
    BY <2>2 DEF Ring
  <2> QED BY <1>1, <1>2, <2>2, <2>3 DEF IsLine
<1>9. CASE n # 1
  <2>1. f # nxt[f]
    BY <1>3, <1>6, <1>7, <1>9
  <2>2. /\ nxt2 = [nxt EXCEPT ![s[b]] = s[a]] /\ prv2 = [prv EXCEPT ![s[a]] = s[b]]
        /\ h2 = IF h = f THEN s[a] ELSE h
    BY <1>7, <2>1
  <2>3. nxt2 \in Links /\ prv2 \in Links
    BY <1>1, <1>4, <1>6, <2>2 DEF Links
  <2>4. /\ nxt2[s[b]] = s[a] /\ prv2[s[a]] = s[b]
        /\ \A e \in Fragments : e # s[b] => nxt2[e] = nxt[e]
        /\ \A e \in Fragments : e # s[a] => prv2[e] = prv[e]
    BY <1>1, <1>4, <1>6, <2>2 DEF Links
  <2>5. ASSUME NEW i \in 1 .. n - 1
        PROVE  /\ nxt2[t[i]] = t[After(n - 1, i)]
               /\ prv2[t[After(n - 1, i)]] = t[i]
    <3> DEFINE j == IF i < k THEN i ELSE i + 1
               c == IF j = b THEN a ELSE After(n, j)
    <3>1. j \in 1 .. n /\ j # k /\ t[i] = s[j]
      BY <1>1, <1>2
    <3>2. t[After(n - 1, i)] = s[c]
      <4> DEFINE m == After(n - 1, i)
      <4>1. m \in 1 .. n - 1
        BY <1>1 DEF After
      <4>2. c = IF m < k THEN m ELSE m + 1
        BY <1>1, <1>9 DEF After, Before
      <4> HIDE DEF m, c
      <4> QED BY <1>2, <4>1, <4>2 DEF m
    <3>3. CASE j = b
      BY <2>4, <3>1, <3>2, <3>3
    <3>4. CASE j # b
      <4>1. After(n, j) \in 1 .. n /\ After(n, j) # a
        BY <1>1, <3>1, Places
      <4>2. s[j] # s[b] /\ s[After(n, j)] # s[a]
        BY <1>3, <1>6, <3>1, <3>4, <4>1
      <4>3. nxt2[s[j]] = nxt[s[j]] /\ prv2[s[After(n, j)]] = prv[s[After(n, j)]]
        BY <1>4, <2>4, <3>1, <4>1, <4>2
      <4> QED BY <1>5, <3>1, <3>2, <3>4, <4>3
    <3> QED BY <3>3, <3>4
  <2>6. Ring(t, nxt2, prv2)
    BY <1>2, <2>5 DEF Ring
  <2>7. n - 1 # 0 /\ h2 = t[1]
    <3>1. 1 \in 1 .. n - 1 /\ 2 \in 1 .. n
      BY <1>1, <1>9
    <3>2. CASE k = 1
      <4>1. a = 2 /\ h = f /\ t[1] = s[2]
        BY <1>1, <1>2, <1>9, <3>1, <3>2 DEF After
      <4> QED BY <1>1, <1>9, <2>2, <4>1
    <3>3. CASE k # 1
      <4>1. h # f /\ t[1] = s[1]
        BY <1>1, <1>2, <1>3, <3>1, <3>3
      <4> QED BY <1>1, <1>9, <2>2, <4>1
    <3> QED BY <3>2, <3>3
  <2> QED BY <1>1, <1>2, <2>3, <2>6, <2>7 DEF IsLine
<1> QED BY <1>8, <1>9
-----------------------------------------------------------------------------
(***************************************************************************)
(* The pool.  F is its free list when the chksum words lead through F to   *)
(* null, F holds the fragments of the pages that are not in U, and those   *)
(* in U carry the check sum.                                               *)
(***************************************************************************)
Pool == [pages : 0 .. MaxPages, fragments : Fragments \cup {Null},
         chksum : [Fragments -> Fragments \cup {Null, ChkSum}]]

Paged(m) == 1 .. m.pages * PageSize

IsFree(F, m, U) ==
  /\ m \in Pool
  /\ F \in Seq(Fragments) /\ Once(F)
  /\ m.fragments = IF F = << >> THEN Null ELSE F[1]
  /\ \A i \in 1 .. Len(F) :
       m.chksum[F[i]] = IF i = Len(F) THEN Null ELSE F[i + 1]
  /\ U \subseteq Paged(m) /\ RangeOf(F) = Paged(m) \ U
  /\ \A f \in U : m.chksum[f] = ChkSum

\* Null and the check sum are no fragments.
LEMMA Apart ==
  /\ Null \notin Fragments /\ ChkSum \notin Fragments /\ ChkSum # Null
BY QueueAssumption DEF Fragments

\* A page granted within the bound consists of fragments.
LEMMA PageFits ==
  ASSUME NEW p \in 0 .. MaxPages
  PROVE  /\ p * PageSize \in Nat /\ 1 .. p * PageSize \subseteq Fragments
         /\ (p + 1) * PageSize = p * PageSize + PageSize
<1>1. p \in Nat /\ PageSize \in Nat /\ MaxPages \in Nat /\ p <= MaxPages
  BY QueueAssumption
<1>2. p * PageSize \in Nat /\ PageSize * MaxPages \in Nat
  BY <1>1
<1>3. p * PageSize <= PageSize * MaxPages
  BY <1>1
<1>4. (p + 1) * PageSize = p * PageSize + PageSize
  BY <1>1
<1>5. 1 .. p * PageSize \subseteq Fragments
  BY <1>2, <1>3 DEF Fragments
<1> QED BY <1>2, <1>4, <1>5

\* makePage on an empty free list: the list runs down through the new page.
LEMMA PageMade ==
  ASSUME NEW m, NEW U, IsFree(<< >>, m, U), m.pages < MaxPages
  PROVE  \E G : G # << >> /\ IsFree(G, MakePage(m), U)
<1> DEFINE p == m.pages
           b == p * PageSize
           last == b + PageSize
           G == [i \in 1 .. PageSize |-> last + 1 - i]
           M == MakePage(m)
<1>1. /\ p \in 0 .. MaxPages /\ p + 1 \in 0 .. MaxPages
      /\ m \in Pool /\ m.fragments = Null /\ U \subseteq 1 .. b
      /\ \A f \in U : m.chksum[f] = ChkSum
  <2>1. /\ m \in Pool /\ m.fragments = Null /\ U \subseteq Paged(m)
        /\ \A f \in U : m.chksum[f] = ChkSum
    BY DEF IsFree
  <2>2. p \in 0 .. MaxPages /\ MaxPages \in Nat
    BY <2>1, QueueAssumption DEF Pool
  <2> QED BY <2>1, <2>2 DEF Paged
<1>2. /\ b \in Nat /\ (p + 1) * PageSize = last /\ 1 .. last \subseteq Fragments
      /\ PageSize \in Nat \ {0} /\ last \in Nat
  BY <1>1, PageFits, QueueAssumption
<1>3. RangeOf(<< >>) = {}
  BY DEF RangeOf
<1>4. U = 1 .. b
  BY <1>3 DEF IsFree, Paged
<1>5. M = [pages |-> p + 1, fragments |-> last,
           chksum |-> [f \in Fragments |->
                         IF f \notin b + 1 .. last THEN m.chksum[f]
                         ELSE IF f = b + 1 THEN m.fragments ELSE f - 1]]
  <2>1. b + 1 + PageSize - 1 = last
    BY <1>2
  <2> QED BY <2>1 DEF MakePage
<1> HIDE DEF b, M, p
<1>6. b + 1 .. last \subseteq 1 .. last /\ last \in 1 .. last
  BY <1>2
<1>7. \A f \in b + 1 .. last : f # b + 1 => f - 1 \in Fragments
  <2>1. \A f \in b + 1 .. last : f # b + 1 => f - 1 \in 1 .. last
    BY <1>2
  <2> QED BY <1>2, <2>1
<1>8. M \in Pool
  <2>1. M.chksum \in [Fragments -> Fragments \cup {Null, ChkSum}]
    BY <1>1, <1>5, <1>7 DEF Pool
  <2>2. last \in Fragments
    BY <1>2, <1>6
  <2> QED BY <1>1, <1>5, <2>1, <2>2 DEF Pool
<1>9. G \in Seq(Fragments) /\ Len(G) = PageSize
  <2>1. \A i \in 1 .. PageSize : last + 1 - i \in 1 .. last
    BY <1>2
  <2>2. G \in [1 .. PageSize -> Fragments]
    BY <1>2, <2>1
  <2> HIDE DEF G
  <2> QED BY <1>2, <2>2
<1>10. /\ \A i \in 1 .. PageSize : G[i] = last + 1 - i /\ G[i] \in b + 1 .. last
       /\ \A f \in b + 1 .. last : last + 1 - f \in 1 .. PageSize
                                   /\ G[last + 1 - f] = f
  BY <1>2
<1> HIDE DEF G
<1>11. Once(G)
  BY <1>2, <1>9, <1>10 DEF Once
<1>12. RangeOf(G) = b + 1 .. last
  <2>1. \A y \in RangeOf(G) : y \in b + 1 .. last
    BY <1>9, <1>10, Spread
  <2>2. \A y \in b + 1 .. last : y \in RangeOf(G)
    BY <1>9, <1>10, Spread
  <2> QED BY <2>1, <2>2
<1>13. M.fragments = G[1] /\ G # << >>
  <2>1. 1 \in 1 .. PageSize /\ last + 1 - 1 = last
    BY <1>2
  <2> QED BY <1>2, <1>5, <1>9, <1>10, <2>1
<1>14. ASSUME NEW i \in 1 .. PageSize
       PROVE  M.chksum[G[i]] = IF i = PageSize THEN Null ELSE G[i + 1]
  <2>1. G[i] = last + 1 - i /\ G[i] \in b + 1 .. last /\ G[i] \in Fragments
    BY <1>2, <1>6, <1>10
  <2>2. M.chksum[G[i]] = IF G[i] = b + 1 THEN Null ELSE G[i] - 1
    BY <1>1, <1>5, <2>1
  <2>3. G[i] = b + 1 <=> i = PageSize
    BY <1>2, <2>1
  <2>4. i # PageSize => G[i + 1] = G[i] - 1
    <3>1. i # PageSize => i + 1 \in 1 .. PageSize /\ last + 1 - (i + 1) = G[i] - 1
      BY <1>2, <2>1
    <3> QED BY <1>10, <3>1
  <2> QED BY <2>2, <2>3, <2>4
<1>15. \A f \in U : M.chksum[f] = ChkSum
  <2>1. \A f \in U : f \in Fragments /\ f \notin b + 1 .. last
    <3>1. \A f \in 1 .. b : f \in 1 .. last /\ f \notin b + 1 .. last
      BY <1>2
    <3> QED BY <1>2, <1>4, <3>1
  <2> QED BY <1>1, <1>5, <2>1
<1>16. U \subseteq Paged(M) /\ RangeOf(G) = Paged(M) \ U
  <2>1. Paged(M) = 1 .. last
    BY <1>2, <1>5 DEF Paged
  <2>2. 1 .. b \subseteq 1 .. last /\ b + 1 .. last = (1 .. last) \ (1 .. b)
    BY <1>2
  <2> QED BY <1>4, <1>12, <2>1, <2>2
<1>17. IsFree(G, M, U)
  BY <1>8, <1>9, <1>11, <1>13, <1>14, <1>15, <1>16 DEF IsFree
<1> QED BY <1>13, <1>17 DEF M

\* A page is made only when nothing is free.
LEMMA GrownFree ==
  ASSUME NEW F, NEW m, NEW U, IsFree(F, m, U)
  PROVE  /\ \E G : IsFree(G, Grown(m), U)
         /\ Grown(m).pages >= m.pages
<1>1. CASE m.fragments = Null /\ m.pages < MaxPages
  <2>1. F = << >>
    <3>1. F # << >> => F[1] \in Fragments
      BY Spread DEF IsFree
    <3> QED BY <1>1, <3>1, Apart DEF IsFree
  <2>2. Grown(m) = MakePage(m) /\ m.pages \in Nat
    BY <1>1 DEF Grown, IsFree, Pool
  <2>3. MakePage(m).pages = m.pages + 1
    BY DEF MakePage
  <2> QED BY <1>1, <2>1, <2>2, <2>3, PageMade
<1>2. CASE ~(m.fragments = Null /\ m.pages < MaxPages)
  <2>1. Grown(m) = m /\ m.pages \in Nat
    BY <1>2 DEF Grown, IsFree, Pool
  <2> QED BY <2>1
<1> QED BY <1>1, <1>2

\* pop: the fragment handed out was free and is marked.
LEMMA MarkedFree ==
  ASSUME NEW F, NEW m, NEW U, IsFree(F, m, U), m.fragments # Null
  PROVE  /\ m.fragments \in Fragments \ U
         /\ IsFree(Tail(F), Marked(m), U \cup {m.fragments})
<1> DEFINE x == m.fragments  G == Tail(F)  M == Marked(m)
<1>1. /\ m \in Pool /\ F \in Seq(Fragments) /\ Once(F) /\ F # << >>
      /\ x = F[1] /\ Len(F) \in Nat /\ Len(F) > 0 /\ 1 \in 1 .. Len(F)
      /\ U \subseteq Paged(m) /\ RangeOf(F) = Paged(m) \ U
      /\ \A f \in U : m.chksum[f] = ChkSum
  BY DEF IsFree
<1>2. x \in Fragments /\ x \in RangeOf(F) /\ x \in Paged(m) /\ x \notin U
  BY <1>1, Spread
<1>3. /\ G \in Seq(Fragments) /\ Len(G) = Len(F) - 1
      /\ \A i \in 1 .. Len(F) - 1 : G[i] = F[i + 1]
      /\ RangeOf(G) = RangeOf(F) \ {x} /\ Once(G)
      /\ G = << >> <=> Len(G) = 0
  <2>1. /\ G \in Seq(Fragments) /\ Len(G) = Len(F) - 1
        /\ \A i \in 1 .. Len(F) - 1 : G[i] = F[i + 1]
    BY <1>1, HeadTailProperties
  <2>2. IsCut(G, F, 1)
    BY <1>1, TailCut
  <2> HIDE DEF G
  <2> QED BY <1>1, <2>1, <2>2, CutOnce, Spread
<1>4. /\ M = [m EXCEPT !.fragments = m.chksum[x], !.chksum[x] = ChkSum]
      /\ m.chksum[x] = IF Len(F) = 1 THEN Null ELSE F[2]
  <2>1. \A i \in 1 .. Len(F) :
          m.chksum[F[i]] = IF i = Len(F) THEN Null ELSE F[i + 1]
    BY DEF IsFree
  <2>2. m.chksum[F[1]] = IF 1 = Len(F) THEN Null ELSE F[1 + 1]
    BY <1>1, <2>1
  <2>3. M = [m EXCEPT !.fragments = m.chksum[x], !.chksum[x] = ChkSum]
    BY DEF Marked
  <2>4. m.chksum[x] = IF Len(F) = 1 THEN Null ELSE F[2]
    BY <1>1, <2>2
  <2> QED BY <2>3, <2>4, Zenon
<1>5. /\ M.pages = m.pages /\ M.fragments = m.chksum[x]
      /\ M.chksum = [m.chksum EXCEPT ![x] = ChkSum]
  BY <1>1, <1>4 DEF Pool
<1> HIDE DEF G, M
<1>6. M.fragments = IF G = << >> THEN Null ELSE G[1]
  <2>1. CASE Len(F) = 1
    BY <1>1, <1>3, <1>4, <1>5, <2>1
  <2>2. CASE Len(F) # 1
    <3>1. 1 \in 1 .. Len(F) - 1 /\ Len(G) # 0
      BY <1>1, <1>3, <2>2
    <3> QED BY <1>3, <1>4, <1>5, <2>2, <3>1
  <2> QED BY <2>1, <2>2
<1>7. M \in Pool
  <2>1. m.chksum \in [Fragments -> Fragments \cup {Null, ChkSum}]
        /\ m.pages \in 0 .. MaxPages
    BY <1>1 DEF Pool
  <2>2. M.chksum \in [Fragments -> Fragments \cup {Null, ChkSum}]
    BY <1>5, <2>1
  <2>3. M.fragments \in Fragments \cup {Null}
    <3>1. G # << >> => G[1] \in Fragments
      BY <1>3, Spread
    <3> QED BY <1>6, <3>1
  <2>4. M = [pages |-> M.pages, fragments |-> M.fragments, chksum |-> M.chksum]
    BY <1>1, <1>4 DEF Pool
  <2> QED BY <1>5, <2>1, <2>2, <2>3, <2>4 DEF Pool
<1>8. ASSUME NEW i \in 1 .. Len(G)
      PROVE  M.chksum[G[i]] = IF i = Len(G) THEN Null ELSE G[i + 1]
  <2>1. i + 1 \in 1 .. Len(F) /\ i \in 1 .. Len(F) - 1 /\ G[i] = F[i + 1]
        /\ (i = Len(G) <=> i + 1 = Len(F))
    BY <1>1, <1>3
  <2>2. m.chksum[F[i + 1]] = IF i + 1 = Len(F) THEN Null ELSE F[(i + 1) + 1]
    BY <2>1 DEF IsFree
  <2>3. F[i + 1] # x /\ F[i + 1] \in Fragments
    <3>1. i + 1 # 1
      BY <2>1
    <3> QED BY <1>1, <2>1, <3>1, Spread DEF Once
  <2>4. M.chksum[G[i]] = m.chksum[F[i + 1]]
    BY <1>1, <1>5, <2>1, <2>3 DEF Pool
  <2>5. i # Len(G) => G[i + 1] = F[(i + 1) + 1]
    <3>1. i # Len(G) => i + 1 \in 1 .. Len(F) - 1
      BY <1>1, <1>3
    <3> QED BY <1>3, <3>1
  <2> QED BY <2>1, <2>2, <2>4, <2>5
<1>9. \A f \in U \cup {x} : M.chksum[f] = ChkSum
  <2>1. Paged(m) \subseteq Fragments
    BY <1>1, PageFits DEF Paged, Pool
  <2> QED BY <1>1, <1>2, <1>5, <2>1 DEF Pool
<1>10. Paged(M) = Paged(m)
  BY <1>5 DEF Paged
<1>11. U \cup {x} \subseteq Paged(M) /\ RangeOf(G) = Paged(M) \ (U \cup {x})
  BY <1>1, <1>2, <1>3, <1>10
<1>12. IsFree(G, M, U \cup {x})
  BY <1>3, <1>6, <1>7, <1>8, <1>9, <1>11 DEF IsFree
<1> QED BY <1>2, <1>12 DEF G, M

\* push: a fragment in use becomes the top of the free list.
LEMMA PushedFree ==
  ASSUME NEW F, NEW m, NEW U, IsFree(F, m, U), NEW f \in U
  PROVE  IsFree(<<f>> \o F, PushFragment(m, f), U \ {f})
<1> DEFINE G == <<f>> \o F  M == PushFragment(m, f)
<1>1. /\ m \in Pool /\ F \in Seq(Fragments) /\ Once(F)
      /\ m.fragments = IF F = << >> THEN Null ELSE F[1]
      /\ \A i \in 1 .. Len(F) :
           m.chksum[F[i]] = IF i = Len(F) THEN Null ELSE F[i + 1]
      /\ U \subseteq Paged(m) /\ RangeOf(F) = Paged(m) \ U
      /\ \A e \in U : m.chksum[e] = ChkSum
  BY DEF IsFree
<1>2. Paged(m) \subseteq Fragments
  BY <1>1, PageFits DEF Paged, Pool
<1>3. f \in Fragments /\ f \notin RangeOf(F) /\ f \in Paged(m)
  BY <1>1, <1>2
<1>4. /\ G \in Seq(Fragments) /\ Len(G) = Len(F) + 1 /\ G[1] = f
      /\ \A i \in 1 .. Len(F) : G[i + 1] = F[i]
      /\ RangeOf(G) = RangeOf(F) \cup {f} /\ Once(G)
  BY <1>1, <1>3, PushOnce
<1>5. Len(F) \in Nat /\ (F = << >> <=> Len(F) = 0)
  BY <1>1, Spread
<1>6. /\ M.pages = m.pages /\ M.fragments = f
      /\ M.chksum = [m.chksum EXCEPT ![f] = m.fragments]
      /\ M = [pages |-> M.pages, fragments |-> M.fragments, chksum |-> M.chksum]
  <2>1. m = [pages |-> m.pages, fragments |-> m.fragments, chksum |-> m.chksum]
    BY <1>1 DEF Pool
  <2>2. M = [m EXCEPT !.fragments = f, !.chksum[f] = m.fragments]
    BY DEF PushFragment
  <2>3. M = [pages |-> m.pages, fragments |-> f,
             chksum |-> [m.chksum EXCEPT ![f] = m.fragments]]
    BY <2>1, <2>2, Zenon
  <2> QED BY <2>3
<1> HIDE DEF G, M
<1>7. M \in Pool
  <2>1. m.chksum \in [Fragments -> Fragments \cup {Null, ChkSum}]
        /\ m.pages \in 0 .. MaxPages /\ m.fragments \in Fragments \cup {Null}
    BY <1>1 DEF Pool
  <2>2. M.chksum \in [Fragments -> Fragments \cup {Null, ChkSum}]
    BY <1>6, <2>1
  <2> QED BY <1>3, <1>6, <2>1, <2>2 DEF Pool
<1>8. M.fragments = IF G = << >> THEN Null ELSE G[1]
  <2>1. G # << >>
    BY <1>4, <1>5
  <2> QED BY <1>4, <1>6, <2>1
<1>9. ASSUME NEW i \in 1 .. Len(G)
      PROVE  M.chksum[G[i]] = IF i = Len(G) THEN Null ELSE G[i + 1]
  <2>1. CASE i = 1
    <3>1. M.chksum[G[i]] = m.fragments
      BY <1>1, <1>3, <1>4, <1>6, <2>1 DEF Pool
    <3>2. Len(F) # 0 => 1 \in 1 .. Len(F) /\ i # Len(G)
      BY <1>4, <1>5, <2>1
    <3> QED BY <1>1, <1>4, <1>5, <2>1, <3>1, <3>2
  <2>2. CASE i # 1
    <3> DEFINE j == i - 1
    <3>1. j \in 1 .. Len(F) /\ j + 1 = i /\ (i = Len(G) <=> j = Len(F))
      BY <1>4, <1>5, <2>2
    <3> HIDE DEF j
    <3>2. G[i] = F[j] /\ F[j] # f /\ F[j] \in Fragments
      BY <1>1, <1>3, <1>4, <3>1, Spread
    <3>3. M.chksum[G[i]] = m.chksum[F[j]]
      BY <1>1, <1>6, <3>2 DEF Pool
    <3>4. i # Len(G) => G[i + 1] = F[j + 1]
      <4>1. i # Len(G) => j + 1 \in 1 .. Len(F) /\ (j + 1) + 1 = i + 1
        BY <1>4, <1>5, <3>1
      <4> QED BY <1>4, <4>1
    <3> QED BY <1>1, <3>1, <3>3, <3>4
  <2> QED BY <2>1, <2>2
<1>10. \A e \in U \ {f} : M.chksum[e] = ChkSum
  BY <1>1, <1>2, <1>6 DEF Pool
<1>11. U \ {f} \subseteq Paged(M) /\ RangeOf(G) = Paged(M) \ (U \ {f})
  <2>1. Paged(M) = Paged(m)
    BY <1>6 DEF Paged
  <2> QED BY <1>1, <1>3, <1>4, <2>1
<1>12. IsFree(G, M, U \ {f})
  BY <1>4, <1>7, <1>8, <1>9, <1>10, <1>11 DEF IsFree
<1> QED BY <1>12 DEF G, M

\* The pool is in order when the fragments in use are U.
Sound(m, U) == m.pages >= 1 /\ \E F : IsFree(F, m, U)

\* getEntry takes a fragment that was free.
LEMMA TakenSound ==
  ASSUME NEW m, NEW U, Sound(m, U), Grown(m).fragments # Null
  PROVE  /\ Grown(m).fragments \in Fragments \ U
         /\ Sound(Marked(Grown(m)), U \cup {Grown(m).fragments})
<1> DEFINE g == Grown(m)
<1>1. PICK F : IsFree(F, m, U)
  BY DEF Sound
<1>2. (\E G : IsFree(G, g, U)) /\ g.pages >= m.pages
  BY <1>1, GrownFree
<1>3. m.pages \in Nat /\ g.pages \in Nat /\ g.pages >= 1
  BY <1>1, <1>2 DEF IsFree, Pool, Sound
<1> HIDE DEF g
<1>4. PICK G : IsFree(G, g, U)
  BY <1>2
<1>5. g.fragments # Null
  BY DEF g
<1>6. /\ g.fragments \in Fragments \ U
      /\ IsFree(Tail(G), Marked(g), U \cup {g.fragments})
  BY <1>4, <1>5, MarkedFree
<1>7. Marked(g).pages = g.pages
  BY <1>4 DEF Marked, IsFree, Pool
<1> QED BY <1>3, <1>6, <1>7 DEF Sound, g

\* A fragment that is recycled is free afterwards, and no other.
LEMMA RecycledSound ==
  ASSUME NEW m, NEW U, Sound(m, U), NEW f \in U
  PROVE  Sound(Recycle(m, f), U \ {f})
<1> DEFINE g == Grown(m)
<1>1. PICK F : IsFree(F, m, U)
  BY DEF Sound
<1>2. (\E G : IsFree(G, g, U)) /\ g.pages >= m.pages
  BY <1>1, GrownFree
<1>3. m.pages \in Nat /\ g.pages \in Nat /\ g.pages >= 1
  BY <1>1, <1>2 DEF IsFree, Pool, Sound
<1> HIDE DEF g
<1>4. PICK G : IsFree(G, g, U)
  BY <1>2
<1>5. IsFree(<<f>> \o G, PushFragment(g, f), U \ {f})
  BY <1>4, PushedFree
<1>6. PushFragment(g, f).pages = g.pages
  BY <1>4 DEF PushFragment, IsFree, Pool
<1> QED BY <1>3, <1>5, <1>6 DEF Sound, Recycle, g
-----------------------------------------------------------------------------
(***************************************************************************)
(* The inductive invariant: the line is a ring, no fragment is both in the *)
(* line and held, and the free list has all the others.                    *)
(***************************************************************************)
QueueInv ==
  /\ IsLine(Line, head, count, next, prev)
  /\ held \subseteq Fragments
  /\ RangeOf(Line) \cap held = {}
  /\ Sound(pool, RangeOf(Line) \cup held)

\* The line is a sequence of count fragments, none twice.
LEMMA TheLine ==
  ASSUME QueueInv
  PROVE  /\ Line \in Seq(Fragments) /\ Once(Line) /\ Len(Line) = count
         /\ count \in Nat /\ RangeOf(Line) \subseteq Fragments
         /\ head = IF count = 0 THEN Null ELSE Line[1]
         /\ \A i \in 1 .. count : Line[i] \in Fragments /\ Line[i] \in RangeOf(Line)
<1>1. /\ Line \in Seq(Fragments) /\ Once(Line) /\ Len(Line) = count
      /\ head = IF count = 0 THEN Null ELSE Line[1]
  BY DEF QueueInv, IsLine
<1> DEFINE s == Line
<1> HIDE DEF s
<1>2. s \in Seq(Fragments)
  BY <1>1 DEF s
<1>3. /\ Len(s) \in Nat /\ RangeOf(s) \subseteq Fragments
      /\ \A i \in 1 .. Len(s) : s[i] \in Fragments /\ s[i] \in RangeOf(s)
  BY <1>2, Spread
<1> QED BY <1>1, <1>3 DEF s

\* The line after a step, when its links are known.
LEMMA NewLine ==
  ASSUME NEW t, IsLine(t, head', count', next', prev')
  PROVE  Line' = t /\ IsLine(Line', head', count', next', prev')
<1>1. Chain(next', head', count') = t
  BY LineIs
<1> QED BY <1>1 DEF Line

\* Initially the queue is empty and the fragments of one page are free.
LEMMA QueueInit ==
  ASSUME Init
  PROVE  QueueInv /\ Line = << >>
<1> DEFINE m == [pages |-> 0, fragments |-> Null,
                 chksum |-> [f \in Fragments |-> Null]]
<1>1. IsLine(<< >>, head, count, next, prev)
  <2>1. next \in Links /\ prev \in Links
    BY DEF Init, Links
  <2> QED BY <2>1 DEF Init, IsLine, Once, Ring
<1>2. Line = << >>
  <2>1. Chain(next, head, count) = << >>
    BY <1>1, LineIs
  <2> QED BY <2>1 DEF Line
<1>3. RangeOf(<< >>) = {}
  BY DEF RangeOf
<1>4. IsFree(<< >>, m, {}) /\ m.pages = 0 /\ 0 < MaxPages
  <2>1. m \in Pool
    BY QueueAssumption DEF Pool
  <2>2. Paged(m) = {}
    BY QueueAssumption DEF Paged
  <2>3. m.fragments = Null /\ m.pages = 0 /\ 0 < MaxPages
    BY QueueAssumption
  <2> HIDE DEF m
  <2>4. << >> \in Seq(Fragments) /\ Len(<< >>) = 0 /\ Once(<< >>)
    BY DEF Once
  <2> QED BY <1>3, <2>1, <2>2, <2>3, <2>4 DEF IsFree
<1> HIDE DEF m
<1>5. PICK G : IsFree(G, MakePage(m), {})
  BY <1>4, PageMade
<1>6. MakePage(m).pages = 1
  BY <1>4 DEF MakePage
<1>7. Sound(pool, {})
  <2>1. pool = MakePage(m)
    BY DEF Init, m
  <2> QED BY <1>5, <1>6, <2>1 DEF Sound
<1> QED BY <1>1, <1>2, <1>3, <1>7 DEF QueueInv, Init
-----------------------------------------------------------------------------
(***************************************************************************)
(* Every action keeps the invariant and is a step of EntryQueue.           *)
(***************************************************************************)

\* getEntry: the entry was free, so it is new to line and held.
LEMMA GetEntryKeeps ==
  ASSUME QueueInv, GetEntry
  PROVE  QueueInv' /\ Promised!GetEntry
<1> DEFINE x == Grown(pool).fragments
<1>1. /\ x # Null /\ pool' = Marked(Grown(pool)) /\ held' = held \cup {x}
      /\ UNCHANGED <<head, count, next, prev>>
  BY DEF GetEntry
<1>2. Line' = Line
  BY <1>1 DEF Line
<1>3. /\ x \in Fragments \ (RangeOf(Line) \cup held)
      /\ Sound(pool', (RangeOf(Line) \cup held) \cup {x})
  BY <1>1, TakenSound DEF QueueInv
<1> HIDE DEF x
<1>4. RangeOf(Line)' = RangeOf(Line)
  BY <1>2 DEF RangeOf
<1>5. (RangeOf(Line) \cup held) \cup {x} = RangeOf(Line)' \cup held'
  BY <1>1, <1>4
<1>6. IsLine(Line, head, count, next, prev)'
  BY <1>1, <1>2 DEF QueueInv, IsLine
<1>7. QueueInv'
  BY <1>1, <1>3, <1>4, <1>5, <1>6 DEF QueueInv
<1>8. x \in Fragments \ (held \cup Promised!RangeOf(Line))
  BY <1>3 DEF RangeOf, Promised!RangeOf
<1> QED BY <1>1, <1>2, <1>7, <1>8 DEF Promised!GetEntry

\* push and pushHead: the caller's entry goes from held into the line.
LEMMA PushKeeps ==
  ASSUME QueueInv, NEW f \in Fragments, Push(f) \/ PushHead(f)
  PROVE  QueueInv' /\ Promised!Enter
<1> DEFINE s == Line  t == Append(s, f)  u == <<f>> \o s
<1>1. /\ f \in held /\ held' = held \ {f} /\ count' = count + 1 /\ pool' = pool
      /\ IF head = Null THEN LinkAlone(f) /\ head' = f
                        ELSE LinkLast(f) /\ head' \in {head, f}
  BY DEF Push, PushHead
<1>2. /\ s \in Seq(Fragments) /\ Once(s) /\ Len(s) = count /\ count \in Nat
      /\ f \notin RangeOf(s) /\ IsLine(s, head, count, next, prev)
      /\ head = IF count = 0 THEN Null ELSE s[1]
      /\ \A i \in 1 .. count : s[i] \in Fragments
  BY <1>1, TheLine DEF QueueInv
<1> HIDE DEF s
<1>3. RangeOf(t) = RangeOf(s) \cup {f} /\ RangeOf(u) = RangeOf(s) \cup {f}
  BY <1>2, AppendOnce, PushOnce
<1>4. Line' \in {t, u} /\ IsLine(Line', head', count', next', prev')
  <2>1. CASE head = Null
    <3>1. count = 0
      <4>1. count # 0 => 1 \in 1 .. count
        BY <1>2
      <4> QED BY <1>2, <2>1, <4>1, Apart
    <3>2. t = <<f>>
      <4>1. s = << >>
        BY <1>2, <3>1
      <4> QED BY <4>1
    <3>3. IsLine(<<f>>, head', count', next', prev')
      <4>1. next \in Links /\ prev \in Links
        BY <1>2 DEF IsLine
      <4>2. /\ head' = f /\ count' = 1 /\ next' = [next EXCEPT ![f] = f]
            /\ prev' = [prev EXCEPT ![f] = f]
        BY <1>1, <2>1, <3>1 DEF LinkAlone
      <4> QED BY <4>1, <4>2, LinkedAlone
    <3> QED BY <3>2, <3>3, NewLine
  <2>2. CASE head # Null
    <3>1. count # 0
      BY <1>2, <2>2
    <3>2. /\ next' = [next EXCEPT ![f] = head, ![prev[head]] = f]
          /\ prev' = [prev EXCEPT ![f] = prev[head], ![head] = f]
          /\ head' \in {head, f}
      BY <1>1, <2>2 DEF LinkLast
    <3>3. IsLine(t, head, count', next', prev') /\ IsLine(u, f, count', next', prev')
      BY <1>1, <1>2, <3>1, <3>2, LinkedLast
    <3>4. CASE head' = head
      <4>1. IsLine(t, head', count', next', prev')
        BY <3>3, <3>4
      <4> QED BY <4>1, NewLine
    <3>5. CASE head' = f
      <4>1. IsLine(u, head', count', next', prev')
        BY <3>3, <3>5
      <4> QED BY <4>1, NewLine
    <3> QED BY <3>2, <3>4, <3>5
  <2> QED BY <2>1, <2>2
<1>5. RangeOf(Line') = RangeOf(s) \cup {f}
  BY <1>3, <1>4
<1>6. QueueInv'
  <2>1. RangeOf(Line') \cup held' = RangeOf(s) \cup held
    BY <1>1, <1>5
  <2>2. held' \subseteq Fragments /\ RangeOf(Line') \cap held' = {}
    BY <1>1, <1>2, <1>5 DEF QueueInv, s
  <2>3. Sound(pool', RangeOf(Line') \cup held')
    BY <1>1, <2>1 DEF QueueInv, s
  <2> QED BY <1>4, <2>2, <2>3 DEF QueueInv
<1> QED BY <1>1, <1>4, <1>6 DEF Promised!Enter, s

\* Unlink: the k-th entry leaves, the others keep their order.
LEMMA UnlinkKeeps ==
  ASSUME QueueInv, NEW k \in 1 .. count, Unlink(Line[k])
  PROVE  /\ Line' = Promised!Without(Line, k)
         /\ IsLine(Line', head', count', next', prev')
         /\ RangeOf(Line') = RangeOf(Line) \ {Line[k]}
<1> DEFINE s == Line  f == s[k]  t == Promised!Without(s, k)
<1>1. /\ s \in Seq(Fragments) /\ Once(s) /\ Len(s) = count
      /\ IsLine(s, head, count, next, prev)
  BY TheLine DEF QueueInv
<1>2. /\ count' = count - 1
      /\ IF f = next[f]
         THEN head' = Null /\ next' = next /\ prev' = prev
         ELSE /\ next' = [next EXCEPT ![prev[f]] = next[f]]
              /\ prev' = [prev EXCEPT ![next[f]] = prev[f]]
              /\ head' = IF head = f THEN next[f] ELSE head
  BY DEF Unlink
<1> HIDE DEF s
<1>3. t \in Seq(Fragments) /\ IsCut(t, s, k)
  BY <1>1, WithoutCut
<1> HIDE DEF t
<1>4. RangeOf(t) = RangeOf(s) \ {f}
  BY <1>1, <1>3, CutOnce
<1>5. IsLine(t, head', count', next', prev')
  BY <1>1, <1>2, <1>3, Unlinked
<1>6. Line' = t /\ IsLine(Line', head', count', next', prev')
  BY <1>5, NewLine
<1> QED BY <1>4, <1>6 DEF s, t

\* erase: the head leaves the line and is held.
LEMMA EraseKeeps ==
  ASSUME QueueInv, Erase
  PROVE  QueueInv' /\ Promised!Erase
<1> DEFINE s == Line
<1>1. /\ s \in Seq(Fragments) /\ Len(s) = count /\ count \in Nat /\ count # 0
      /\ head = s[1] /\ 1 \in 1 .. count /\ s[1] \in Fragments
      /\ s[1] \in RangeOf(s) /\ s # << >>
  BY TheLine DEF Erase
<1>2. Unlink(s[1]) /\ held' = held \cup {s[1]} /\ pool' = pool
  BY <1>1 DEF Erase
<1>3. /\ Line' = Promised!Without(s, 1)
      /\ IsLine(Line', head', count', next', prev')
      /\ RangeOf(Line') = RangeOf(s) \ {s[1]}
  BY <1>1, <1>2, UnlinkKeeps
<1>4. QueueInv'
  <2>1. RangeOf(Line') \cup held' = RangeOf(s) \cup held
    BY <1>1, <1>2, <1>3
  <2>2. held' \subseteq Fragments /\ RangeOf(Line') \cap held' = {}
    BY <1>1, <1>2, <1>3 DEF QueueInv
  <2>3. Sound(pool', RangeOf(Line') \cup held')
    BY <1>2, <2>1 DEF QueueInv
  <2> QED BY <1>3, <2>2, <2>3 DEF QueueInv
<1> HIDE DEF s
<1>5. Promised!Without(s, 1) = Tail(s) /\ Head(s) = s[1]
  <2>1. /\ Promised!Without(s, 1) \in Seq(Fragments)
        /\ IsCut(Promised!Without(s, 1), s, 1)
    BY <1>1, WithoutCut
  <2>2. Tail(s) \in Seq(Fragments) /\ IsCut(Tail(s), s, 1)
    BY <1>1, TailCut
  <2>3. Promised!Without(s, 1) = Tail(s)
    BY <1>1, <2>1, <2>2, OneCut
  <2> QED BY <1>1, <2>3
<1>6. s # << >> /\ held' = held \cup {Head(s)} /\ Line' = Tail(s)
  BY <1>1, <1>2, <1>3, <1>5
<1> QED BY <1>4, <1>6 DEF Promised!Erase, s

\* pop, of the head or of any entry: the entry is free again.
LEMMA PopKeeps ==
  ASSUME QueueInv, Pop \/ \E f \in Fragments : PopEntry(f)
  PROVE  QueueInv' /\ Promised!Drop
<1> DEFINE s == Line
<1>1. /\ s \in Seq(Fragments) /\ Len(s) = count /\ count \in Nat
      /\ \A i \in 1 .. count : s[i] \in Fragments /\ s[i] \in RangeOf(s)
      /\ DOMAIN s = 1 .. count
      /\ count # 0 => head = s[1]
  BY TheLine
<1>2. PICK k \in 1 .. count :
        Unlink(s[k]) /\ pool' = Recycle(pool, s[k]) /\ held' = held
  <2>1. CASE Pop
    <3>1. 1 \in 1 .. count
      BY <1>1, <2>1 DEF Pop
    <3> QED BY <1>1, <2>1, <3>1 DEF Pop
  <2>2. CASE \E f \in Fragments : PopEntry(f)
    <3>1. PICK f \in Fragments : PopEntry(f)
      BY <2>2
    <3>2. PICK k \in 1 .. count : f = s[k]
      BY <1>1, <3>1 DEF PopEntry, RangeOf
    <3> QED BY <3>1, <3>2 DEF PopEntry
  <2> QED BY <2>1, <2>2
<1>3. /\ Line' = Promised!Without(s, k)
      /\ IsLine(Line', head', count', next', prev')
      /\ RangeOf(Line') = RangeOf(s) \ {s[k]}
  BY <1>2, UnlinkKeeps
<1>4. QueueInv'
  <2>1. s[k] \in RangeOf(s) /\ s[k] \notin held
    BY <1>1 DEF QueueInv
  <2>2. RangeOf(Line') \cup held' = (RangeOf(s) \cup held) \ {s[k]}
    BY <1>2, <1>3, <2>1
  <2>3. held' \subseteq Fragments /\ RangeOf(Line') \cap held' = {}
    BY <1>2, <1>3 DEF QueueInv
  <2>4. s[k] \in RangeOf(s) \cup held /\ Sound(pool, RangeOf(s) \cup held)
    BY <2>1 DEF QueueInv
  <2> HIDE DEF s
  <2>5. Sound(pool', RangeOf(Line') \cup held')
    BY <1>2, <2>2, <2>4, RecycledSound
  <2> QED BY <1>3, <2>3, <2>5 DEF QueueInv
<1> HIDE DEF s
<1>5. k \in DOMAIN s /\ Line' = Promised!Without(s, k) /\ held' = held
  BY <1>1, <1>2, <1>3
<1> QED BY <1>4, <1>5 DEF Promised!Drop, s

\* mvNext: the first entry becomes the last.
LEMMA RotateKeeps ==
  ASSUME QueueInv, Rotate
  PROVE  QueueInv' /\ Promised!Rotate
<1> DEFINE s == Line  t == Append(Tail(s), Head(s))
<1>1. /\ IsLine(s, head, count, next, prev) /\ count # 0 /\ head' = next[head]
      /\ UNCHANGED <<count, next, prev, pool, held>>
  BY DEF QueueInv, Rotate
<1>2. /\ s \in Seq(Fragments) /\ Once(s) /\ Len(s) = count /\ count \in Nat
      /\ s # << >>
  BY <1>1, TheLine
<1> HIDE DEF s
<1>3. IsLine(t, head', count', next', prev')
  BY <1>1, TurnLine
<1>4. Line' = t /\ IsLine(Line', head', count', next', prev')
  BY <1>3, NewLine
<1>5. RangeOf(Line') = RangeOf(s)
  <2> DEFINE a == Head(s)  r == Tail(s)
  <2>1. r \in Seq(Fragments) /\ IsCut(r, s, 1) /\ a = s[1] /\ a \in Fragments
        /\ a \in RangeOf(s) /\ 1 \in 1 .. Len(s)
    BY <1>2, TailCut, Spread
  <2>2. RangeOf(r) = RangeOf(s) \ {a} /\ Once(r)
    <3> HIDE DEF r, a
    <3> QED BY <1>2, <2>1, CutOnce
  <2> HIDE DEF r, a
  <2>3. RangeOf(Append(r, a)) = RangeOf(r) \cup {a}
    BY <2>1, <2>2, AppendOnce
  <2> QED BY <1>4, <2>1, <2>2, <2>3 DEF r, a
<1>6. QueueInv'
  <2>1. RangeOf(Line') \cup held' = RangeOf(s) \cup held
    BY <1>1, <1>5
  <2> QED BY <1>1, <1>4, <1>5, <2>1 DEF QueueInv, s
<1> QED BY <1>1, <1>2, <1>4, <1>6 DEF Promised!Rotate, s

\* A step that changes nothing.
LEMMA IdleKeeps ==
  ASSUME QueueInv, UNCHANGED vars
  PROVE  QueueInv' /\ UNCHANGED <<Line, held>>
<1>1. Line' = Line
  BY DEF Line, vars
<1> QED BY <1>1 DEF QueueInv, vars, IsLine, RangeOf

\* Every step of the queue.
LEMMA QueueStep ==
  ASSUME QueueInv, [Next]_vars
  PROVE  QueueInv' /\ [Promised!Next]_<<Line, held>>
<1>1. CASE GetEntry
  BY <1>1, GetEntryKeeps DEF Promised!Next
<1>2. CASE Erase
  BY <1>2, EraseKeeps DEF Promised!Next
<1>3. CASE Pop
  BY <1>3, PopKeeps DEF Promised!Next
<1>4. CASE Rotate
  BY <1>4, RotateKeeps DEF Promised!Next
<1>5. ASSUME NEW f \in Fragments, Push(f) \/ PushHead(f) \/ PopEntry(f)
      PROVE  QueueInv' /\ [Promised!Next]_<<Line, held>>
  BY <1>5, PushKeeps, PopKeeps DEF Promised!Next
<1>6. CASE UNCHANGED vars
  BY <1>6, IdleKeeps
<1> QED BY <1>1, <1>2, <1>3, <1>4, <1>5, <1>6 DEF Next

\* Whatever is pushed and popped, the links are a ring and the free list has
\* what is left.
THEOREM QueueSound == Spec => []QueueInv
<1>1. Init => QueueInv
  BY QueueInit
<1>2. QueueInv /\ [Next]_vars => QueueInv'
  BY QueueStep
<1> QED BY <1>1, <1>2, PTL DEF Spec

\* List and pool are the sequence of entries the scheduler expects: no entry is
\* reordered, lost or doubled, and none handed out that is in use.
THEOREM QueueIsEntries == Spec => IsEntryQueue
<1>1. Init => Promised!Init
  BY QueueInit DEF Promised!Init, Init
<1>2. QueueInv /\ [Next]_vars => [Promised!Next]_<<Line, held>>
  BY QueueStep
<1> QED BY <1>1, <1>2, QueueSound, PTL DEF Spec, IsEntryQueue, Promised!Spec
-----------------------------------------------------------------------------
(***************************************************************************)
(* What the invariant says of the links and of the free list.              *)
(***************************************************************************)

\* Links and pool stay within their types, and count within the fragments.
LEMMA QueueTyped ==
  ASSUME QueueInv
  PROVE  TypeOK
<1>1. /\ next \in Links /\ prev \in Links /\ held \subseteq Fragments
      /\ pool.pages >= 1 /\ pool \in Pool
  BY DEF QueueInv, IsLine, Sound, IsFree
<1>2. IsFiniteSet(Fragments)
  BY FS_Interval, QueueAssumption DEF Fragments
<1>3. /\ IsFiniteSet(RangeOf(Line)) /\ Cardinality(RangeOf(Line)) = count
      /\ RangeOf(Line) \subseteq Fragments
  BY TheLine, RangeCount
<1>4. count \in 0 .. Cardinality(Fragments)
  <2>1. count <= Cardinality(Fragments) /\ Cardinality(Fragments) \in Nat
    BY <1>2, <1>3, FS_Subset, FS_CardinalityType
  <2> QED BY <2>1, TheLine
<1>5. head \in Fragments \cup {Null}
  <2>1. count # 0 => 1 \in 1 .. count
    BY TheLine
  <2> QED BY <2>1, TheLine
<1>6. pool \in [pages : 1 .. MaxPages, fragments : Fragments \cup {Null},
                chksum : [Fragments -> Fragments \cup {Null, ChkSum}]]
  <2>1. pool.pages \in 1 .. MaxPages
    BY <1>1, QueueAssumption DEF Pool
  <2> QED BY <1>1, <2>1 DEF Pool
<1> QED BY <1>1, <1>4, <1>5, <1>6 DEF TypeOK, Links

\* The ring read along next and prev.
LEMMA QueueCircular ==
  ASSUME QueueInv
  PROVE  Circular
<1> DEFINE s == Line
<1>1. /\ s \in Seq(Fragments) /\ Once(s) /\ Len(s) = count /\ count \in Nat
      /\ head = IF count = 0 THEN Null ELSE s[1]
      /\ Ring(s, next, prev)
  BY TheLine DEF QueueInv, IsLine
<1> HIDE DEF s
<1>2. CASE count = 0
  BY <1>1, <1>2 DEF Circular
<1>3. CASE count # 0
  <2>1. Cardinality(RangeOf(s)) = count
    BY <1>1, RangeCount
  <2>2. \A i \in 1 .. count : next[s[i]] = s[After(count, i)]
                              /\ prev[s[After(count, i)]] = s[i]
    BY <1>1 DEF Ring
  <2>3. next[s[count]] = head
    <3>1. count \in 1 .. count /\ After(count, count) = 1
      BY <1>1, <1>3 DEF After
    <3> QED BY <1>1, <1>3, <2>2, <3>1
  <2>4. ASSUME NEW f \in RangeOf(s) PROVE prev[next[f]] = f
    <3>1. PICK i \in 1 .. count : s[i] = f
      BY <1>1, Spread
    <3> QED BY <2>2, <3>1
  <2> QED BY <1>3, <2>1, <2>3, <2>4 DEF Circular, s
<1> QED BY <1>2, <1>3

\* The fragments in use are marked, and the chain of the free ones has the
\* length the pages leave for it.
LEMMA QueueComplete ==
  ASSUME QueueInv
  PROVE  NoneLeaked
<1> DEFINE L == RangeOf(Line)  U == L \cup held
           total == pool.pages * PageSize  P == 1 .. total
           nfree == total - count - Cardinality(held)
           free == Chain(pool.chksum, pool.fragments, nfree)
<1>1. PICK F : IsFree(F, pool, U)
  BY DEF QueueInv, Sound
<1>2. /\ F \in Seq(Fragments) /\ Once(F) /\ Len(F) \in Nat
      /\ pool.fragments = IF F = << >> THEN Null ELSE F[1]
      /\ \A i \in 1 .. Len(F) :
           pool.chksum[F[i]] = IF i = Len(F) THEN Null ELSE F[i + 1]
      /\ U \subseteq P /\ RangeOf(F) = P \ U
      /\ \A f \in U : pool.chksum[f] = ChkSum
      /\ F = << >> <=> Len(F) = 0
      /\ total \in Nat
  <2>1. total \in Nat
    BY <1>1, PageFits DEF IsFree, Pool
  <2> QED BY <1>1, <2>1, Spread DEF IsFree, Paged
<1> HIDE DEF total
<1>3. Len(F) = nfree
  <2>1. IsFiniteSet(L) /\ Cardinality(L) = count /\ count \in Nat
    BY TheLine, RangeCount
  <2>2. IsFiniteSet(P) /\ Cardinality(P) = total
    <3>1. IsFiniteSet(P) /\ Cardinality(P) = IF 1 > total THEN 0 ELSE total - 1 + 1
      BY <1>2, FS_Interval, SMTT(30)
    <3> QED BY <1>2, <3>1
  <2>3. IsFiniteSet(held) /\ Cardinality(held) \in Nat /\ L \cap held = {}
    BY <1>2, <2>2, FS_Subset, FS_CardinalityType DEF QueueInv
  <2> HIDE DEF L, P
  <2>4. IsFiniteSet(U) /\ Cardinality(U) = Cardinality(L) + Cardinality(held)
    <3>1. IsFiniteSet(U)
          /\ Cardinality(U) = Cardinality(L) + Cardinality(held) - Cardinality(L \cap held)
      BY <2>1, <2>3, FS_Union
    <3>2. Cardinality(L \cap held) = 0
      BY <2>3, FS_EmptySet
    <3> QED BY <2>1, <2>3, <3>1, <3>2
  <2> HIDE DEF U
  <2>5. Cardinality(P \ U) = Cardinality(P) - Cardinality(P \cap U)
    BY <2>2, FS_Difference
  <2>6. P \cap U = U
    BY <1>2
  <2>7. Cardinality(RangeOf(F)) = Len(F)
    BY <1>2, RangeCount
  <2>8. RangeOf(F) = P \ U
    BY <1>2
  <2>9. Len(F) = Cardinality(P) - Cardinality(U)
    BY <2>5, <2>6, <2>7, <2>8
  <2> QED BY <1>2, <2>1, <2>2, <2>3, <2>4, <2>9
<1> HIDE DEF L, P, nfree
<1>4. free = F
  <2>1. \A i \in 1 .. Len(F) :
          F[i] = IF i = 1 THEN pool.fragments ELSE pool.chksum[F[i - 1]]
    <3> SUFFICES ASSUME NEW i \in 1 .. Len(F)
                 PROVE  F[i] = IF i = 1 THEN pool.fragments
                                        ELSE pool.chksum[F[i - 1]]
      OBVIOUS
    <3>1. CASE i = 1
      BY <1>2, <3>1
    <3>2. CASE i # 1
      <4>1. i - 1 \in 1 .. Len(F) /\ i - 1 # Len(F) /\ (i - 1) + 1 = i
        BY <1>2, <3>2
      <4> QED BY <1>2, <3>2, <4>1
    <3> QED BY <3>1, <3>2
  <2>2. F = [i \in 1 .. nfree |-> F[i]] /\ nfree \in Nat
    BY <1>2, <1>3
  <2>3. nfree \in Nat /\ IsChain(F, pool.chksum, pool.fragments, nfree)
    BY <1>3, <2>1, <2>2 DEF IsChain
  <2> QED BY ONLY <2>3, ChainIs
<1> HIDE DEF free
<1>5. RangeOf(free) \cup U = P
  BY <1>2, <1>4
<1>6. IF nfree = 0 THEN pool.fragments = Null
                   ELSE pool.chksum[free[nfree]] = Null
  <2>1. nfree # 0 => nfree \in 1 .. Len(F)
    BY <1>2, <1>3
  <2> QED BY <1>2, <1>3, <1>4, <2>1
<1>7. ASSUME NEW f \in P PROVE pool.chksum[f] = ChkSum <=> f \in U
  <2>1. CASE f \in U
    BY <1>2, <2>1
  <2>2. CASE f \notin U
    <3>1. PICK i \in 1 .. Len(F) : F[i] = f
      BY <1>2, <2>2, Spread
    <3>2. i # Len(F) => F[i + 1] \in Fragments
      <4>1. i # Len(F) => i + 1 \in 1 .. Len(F)
        BY <1>2
      <4> QED BY <1>2, <4>1, Spread
    <3> QED BY <1>2, <2>2, <3>1, <3>2, Apart
  <2> QED BY <2>1, <2>2
<1>8. L \cap held = {}
  BY DEF QueueInv, L
<1> QED BY <1>5, <1>6, <1>7, <1>8 DEF NoneLeaked, L, P, total, nfree, free

\* Type correctness; in particular count never exceeds the fragments there are.
THEOREM QueueTypes == Spec => []TypeOK
<1>1. QueueInv => TypeOK
  BY QueueTyped
<1> QED BY <1>1, QueueSound, PTL

\* The list is circular in both directions after every operation.
THEOREM ListCircular == Spec => []Circular
<1>1. QueueInv => Circular
  BY QueueCircular
<1> QED BY <1>1, QueueSound, PTL

\* Every fragment is free, queued or held, one of the three, and the check sum
\* marks those in use.
THEOREM NothingLeaks == Spec => []NoneLeaked
<1>1. QueueInv => NoneLeaked
  BY QueueComplete
<1> QED BY <1>1, QueueSound, PTL
=============================================================================
