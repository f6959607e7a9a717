-------------------------- MODULE HTTPRoutes_proofs -------------------------
(***************************************************************************)
(* Proofs about the routing of http requests, for any proxies, groups,     *)
(* routes and requests: what the table of routes holds after Add and Del,  *)
(* which route getVhost finds in it, and whose routes are in it while      *)
(* proxies come and go; then, over the same table, the muxer and its       *)
(* groups.                                                                 *)
(***************************************************************************)
EXTENDS HTTPRoutes, VhostMux, FiniteSetTheorems, SequenceTheorems, TLAPS

\* A set of naturals has a least element, and Min is it.
LEMMA MinNat ==
  ASSUME NEW S \in SUBSET Nat, S # {}
  PROVE  Min(S) \in S /\ \A y \in S : Min(S) <= y
<1>1. PICK x \in S : \A y \in S : ~(<<y, x>> \in OpToRel(<, Nat))
  BY NatLessThanWellFounded, WFMin
<1>2. \A y \in S : y \in Nat /\ x \in Nat /\ ~(y < x)
  BY <1>1 DEF OpToRel
<1>3. \E z \in S : \A y \in S : z <= y
  BY <1>2
<1> QED BY <1>3 DEF Min

\* Two ranges from 1 are the same only if they end alike.
LEMMA SameRange ==
  ASSUME NEW x \in Nat, NEW y \in Nat, 1..x = 1..y
  PROVE  x = y
<1>1. \A m \in Nat : m \in 1..x <=> m \in 1..y
  OBVIOUS
<1>2. x <= y /\ y <= x
  BY <1>1
<1> QED BY <1>2

\* What a sequence holds after an insertion.
LEMMA Inserted ==
  ASSUME NEW S, NEW s \in Seq(S), NEW n \in 1..(Len(s) + 1), NEW e \in S
  PROVE  /\ InsertAt(s, n, e) \in Seq(S)
         /\ Len(InsertAt(s, n, e)) = Len(s) + 1
         /\ \A j \in 1..(Len(s) + 1) :
              InsertAt(s, n, e)[j] = IF j < n THEN s[j] ELSE IF j = n THEN e ELSE s[j - 1]
<1> DEFINE a == SubSeq(s, 1, n - 1)
           b == SubSeq(s, n, Len(s))
           c == a \o <<e>>
<1>0. Len(s) \in Nat /\ \A j \in 1..Len(s) : s[j] \in S
  BY LenProperties, ElementOfSeq
<1>1. a \in Seq(S) /\ Len(a) = n - 1 /\ \A j \in 1..(n - 1) : a[j] = s[j]
  BY <1>0, SubSeqProperties
<1>2. b \in Seq(S) /\ Len(b) = Len(s) - n + 1 /\ \A j \in 1..(Len(s) - n + 1) : b[j] = s[n + j - 1]
  <2>1. \A j \in n..Len(s) : s[j] \in S
    BY <1>0
  <2>2. n \in Int /\ Len(s) \in Int
    BY <1>0
  <2>3. /\ b \in Seq(S)
        /\ Len(b) = IF n <= Len(s) THEN Len(s) - n + 1 ELSE 0
        /\ \A j \in 1..(Len(s) - n + 1) : b[j] = s[n + j - 1]
    BY <2>1, <2>2, SubSeqProperties
  <2> QED BY <2>3, <1>0
<1>3. <<e>> \in Seq(S) /\ Len(<<e>>) = 1 /\ <<e>>[1] = e
  OBVIOUS
<1> HIDE DEF a, b
<1>4. c \in Seq(S) /\ Len(c) = n /\ \A j \in 1..n : c[j] = IF j <= n - 1 THEN a[j] ELSE <<e>>[j - (n - 1)]
  BY <1>0, <1>1, <1>3, ConcatProperties
<1>5. \A j \in 1..n : c[j] = IF j < n THEN s[j] ELSE e
  BY <1>0, <1>1, <1>3, <1>4
<1> HIDE DEF c
<1>6. /\ c \o b \in Seq(S) /\ Len(c \o b) = Len(s) + 1
      /\ \A j \in 1..(Len(s) + 1) : (c \o b)[j] = IF j <= n THEN c[j] ELSE b[j - n]
  BY <1>0, <1>2, <1>4, ConcatProperties
<1>7. \A j \in 1..(Len(s) + 1) :
        (c \o b)[j] = IF j < n THEN s[j] ELSE IF j = n THEN e ELSE s[j - 1]
  <2> TAKE j \in 1..(Len(s) + 1)
  <2>1. CASE j <= n
    BY <2>1, <1>0, <1>5, <1>6
  <2>2. CASE j > n
    <3>1. j - n \in 1..(Len(s) - n + 1) /\ n + (j - n) - 1 = j - 1
      BY <2>2, <1>0
    <3>2. b[j - n] = s[n + (j - n) - 1]
      BY <3>1, <1>2
    <3>3. (c \o b)[j] = b[j - n] /\ ~(j < n) /\ j # n
      BY <2>2, <1>0, <1>6
    <3> QED BY <3>1, <3>2, <3>3
  <2>3. j <= n \/ j > n
    BY <1>0
  <2> QED BY <2>1, <2>2, <2>3
<1>8. InsertAt(s, n, e) = c \o b
  BY DEF InsertAt, a, b, c
<1> QED BY <1>6, <1>7, <1>8

\* What a sequence holds after a removal.
LEMMA Removed ==
  ASSUME NEW S, NEW s \in Seq(S), NEW n \in 1..Len(s)
  PROVE  /\ RemoveAt(s, n) \in Seq(S)
         /\ Len(RemoveAt(s, n)) = Len(s) - 1
         /\ \A j \in 1..(Len(s) - 1) : RemoveAt(s, n)[j] = IF j < n THEN s[j] ELSE s[j + 1]
<1> DEFINE a == SubSeq(s, 1, n - 1)
           b == SubSeq(s, n + 1, Len(s))
<1>0. Len(s) \in Nat /\ \A j \in 1..Len(s) : s[j] \in S
  BY LenProperties, ElementOfSeq
<1>1. a \in Seq(S) /\ Len(a) = n - 1 /\ \A j \in 1..(n - 1) : a[j] = s[j]
  BY <1>0, SubSeqProperties
<1>2. b \in Seq(S) /\ Len(b) = Len(s) - n /\ \A j \in 1..(Len(s) - n) : b[j] = s[n + j]
  <2>1. \A j \in (n + 1)..Len(s) : s[j] \in S
    BY <1>0
  <2>2. n + 1 \in Int /\ Len(s) \in Int
    BY <1>0
  <2>3. /\ b \in Seq(S)
        /\ Len(b) = IF n + 1 <= Len(s) THEN Len(s) - (n + 1) + 1 ELSE 0
        /\ \A j \in 1..(Len(s) - (n + 1) + 1) : b[j] = s[n + 1 + j - 1]
    BY <2>1, <2>2, SubSeqProperties
  <2> QED BY <2>3, <1>0
<1> HIDE DEF a, b
<1>3. /\ a \o b \in Seq(S) /\ Len(a \o b) = Len(s) - 1
      /\ \A j \in 1..(Len(s) - 1) : (a \o b)[j] = IF j <= n - 1 THEN a[j] ELSE b[j - (n - 1)]
  BY <1>0, <1>1, <1>2, ConcatProperties
<1>4. \A j \in 1..(Len(s) - 1) : (a \o b)[j] = IF j < n THEN s[j] ELSE s[j + 1]
  <2> TAKE j \in 1..(Len(s) - 1)
  <2>1. CASE j < n
    BY <2>1, <1>0, <1>1, <1>3
  <2>2. CASE j >= n
    <3>1. j - (n - 1) \in 1..(Len(s) - n) /\ n + (j - (n - 1)) = j + 1
      BY <2>2, <1>0
    <3>2. b[j - (n - 1)] = s[n + (j - (n - 1))]
      BY <3>1, <1>2
    <3>3. (a \o b)[j] = b[j - (n - 1)] /\ ~(j < n)
      BY <2>2, <1>0, <1>3
    <3> QED BY <3>1, <3>2, <3>3
  <2>3. j < n \/ j >= n
    BY <1>0
  <2> QED BY <2>1, <2>2, <2>3
<1>5. RemoveAt(s, n) = a \o b
  BY DEF RemoveAt, a, b
<1> QED BY <1>3, <1>4, <1>5

-----------------------------------------------------------------------------
\* No key is in the table twice, and no location comes before a greater one.
UniqueKeys(t) == \A i, j \in DOMAIN t : t[i].key = t[j].key => i = j
Sorted(t) == \A i, j \in DOMAIN t : i < j => ~Less(t[i].key.location, t[j].key.location)

\* Where Add puts a route: before the first one with a lesser location.
LEMMA AddPlace ==
  ASSUME NEW S, NEW t \in Seq(S), NEW k, NEW o
  PROVE  \E n \in 1..(Len(t) + 1) :
           /\ Add(t, k, o) = InsertAt(t, n, [key |-> k, payload |-> o])
           /\ \A i \in 1..(n - 1) : ~Less(t[i].key.location, k.location)
           /\ n <= Len(t) => Less(t[n].key.location, k.location)
<1> DEFINE L(i) == Less(t[i].key.location, k.location)
           less == {i \in DOMAIN t : L(i)}
           P == less \union {Len(t) + 1}
           n == Min(P)
<1> HIDE DEF L
<1>0. Len(t) \in Nat /\ DOMAIN t = 1..Len(t)
  BY LenProperties
<1>1. P \in SUBSET Nat /\ P # {}
  BY <1>0
<1>2. n \in P /\ \A y \in P : n <= y
  BY <1>1, MinNat
<1>3. n \in 1..(Len(t) + 1)
  BY <1>0, <1>2
<1>4. \A i \in 1..(n - 1) : ~L(i)
  <2> SUFFICES ASSUME NEW i \in 1..(n - 1), L(i) PROVE FALSE
    OBVIOUS
  <2>1. i \in P /\ i < n
    BY <1>0, <1>3
  <2>2. n <= i /\ n \in Int /\ i \in Int
    BY <2>1, <1>2, <1>3
  <2> HIDE DEF n
  <2> QED BY <2>1, <2>2
<1>5. n <= Len(t) => L(n)
  BY <1>0, <1>2
<1>6. Add(t, k, o) = InsertAt(t, n, [key |-> k, payload |-> o])
  BY DEF Add, L
<1> QED BY <1>3, <1>4, <1>5, <1>6 DEF L

\* Add puts one route in.
LEMMA AddRoute ==
  ASSUME NEW S, NEW t \in Seq(S), NEW k, NEW o, [key |-> k, payload |-> o] \in S,
         UniqueKeys(t), ~Exist(t, k)
  PROVE  /\ Add(t, k, o) \in Seq(S)
         /\ Range(Add(t, k, o)) = Range(t) \union {[key |-> k, payload |-> o]}
         /\ UniqueKeys(Add(t, k, o))
<1> DEFINE e == [key |-> k, payload |-> o]
           u == Add(t, k, o)
<1>0. Len(t) \in Nat /\ DOMAIN t = 1..Len(t)
  BY LenProperties
<1>1. PICK n \in 1..(Len(t) + 1) : u = InsertAt(t, n, e)
  BY AddPlace
<1>2. e.key = k
  OBVIOUS
<1> HIDE DEF e, u
<1>3. /\ u \in Seq(S) /\ Len(u) = Len(t) + 1
      /\ \A j \in 1..(Len(t) + 1) : u[j] = IF j < n THEN t[j] ELSE IF j = n THEN e ELSE t[j - 1]
  BY <1>1, Inserted DEF e
<1>4. DOMAIN u = 1..(Len(t) + 1)
  BY <1>3, LenProperties
<1>5. \A i \in 1..Len(t) : t[i] = u[IF i < n THEN i ELSE i + 1]
  BY <1>0, <1>3
<1>6. u[n] = e
  BY <1>0, <1>3
<1>7. Range(u) = Range(t) \union {e}
  <2>1. ASSUME NEW j \in DOMAIN u PROVE u[j] \in Range(t) \union {e}
    <3>1. j = n \/ \E i \in DOMAIN t : u[j] = t[i]
      <4>1. CASE j < n
        BY <4>1, <1>0, <1>3, <1>4
      <4>2. CASE j > n
        <5>1. u[j] = t[j - 1] /\ j - 1 \in DOMAIN t
          BY <4>2, <1>0, <1>3, <1>4
        <5> QED BY <5>1
      <4> QED BY <4>1, <4>2, <1>0, <1>4
    <3> QED BY <3>1, <1>6 DEF Range
  <2>2. ASSUME NEW i \in DOMAIN t PROVE t[i] \in Range(u)
    <3> DEFINE m == IF i < n THEN i ELSE i + 1
    <3>1. m \in DOMAIN u /\ t[i] = u[m]
      BY <1>0, <1>4, <1>5
    <3> HIDE DEF m
    <3> QED BY <3>1 DEF Range
  <2>3. e \in Range(u)
    <3>1. n \in DOMAIN u
      BY <1>0, <1>4
    <3> QED BY <3>1, <1>6 DEF Range
  <2> QED BY <2>1, <2>2, <2>3 DEF Range
<1>8. UniqueKeys(u)
  <2> SUFFICES ASSUME NEW i \in DOMAIN u, NEW j \in DOMAIN u, u[i].key = u[j].key PROVE i = j
    BY DEF UniqueKeys
  <2>1. \A m \in 1..Len(t) : t[m].key # k
    BY <1>0 DEF Exist
  <2>2. \A l, m \in 1..Len(t) : t[l].key = t[m].key => l = m
    BY <1>0 DEF UniqueKeys
  <2>3. i \in 1..(Len(t) + 1) /\ j \in 1..(Len(t) + 1)
    BY <1>4
  <2>4. /\ i < n => u[i] = t[i] /\ i \in 1..Len(t)
        /\ i > n => u[i] = t[i - 1] /\ i - 1 \in 1..Len(t)
        /\ j < n => u[j] = t[j] /\ j \in 1..Len(t)
        /\ j > n => u[j] = t[j - 1] /\ j - 1 \in 1..Len(t)
    BY <2>3, <1>0, <1>3
  <2>5. i = n <=> j = n
    BY <2>1, <2>3, <2>4, <1>2, <1>6
  <2>6. n \in Int /\ i \in Int /\ j \in Int
    BY <2>3, <1>0
  <2>7. CASE i < n
    BY <2>2, <2>4, <2>5, <2>6, <2>7
  <2>8. CASE i > n
    BY <2>2, <2>4, <2>5, <2>6, <2>8
  <2> QED BY <2>5, <2>6, <2>7, <2>8
<1> QED BY <1>3, <1>7, <1>8 DEF e, u

\* Del takes the route of a key out and keeps the order of the others.
LEMMA DelRoute ==
  ASSUME NEW S, NEW t \in Seq(S), NEW k, UniqueKeys(t)
  PROVE  /\ Del(t, k) \in Seq(S)
         /\ Range(Del(t, k)) = {r \in Range(t) : r.key # k}
         /\ UniqueKeys(Del(t, k))
         /\ Sorted(t) => Sorted(Del(t, k))
<1> DEFINE u == Del(t, k)
<1>0. Len(t) \in Nat /\ DOMAIN t = 1..Len(t)
  BY LenProperties
<1>a. CASE ~Exist(t, k)
  <2>1. u = t
    BY <1>a DEF Del
  <2>2. \A r \in Range(t) : r.key # k
    BY <1>a DEF Exist, Range
  <2> QED BY <2>1, <2>2
<1>b. CASE Exist(t, k)
  <2> DEFINE n == CHOOSE i \in DOMAIN t : t[i].key = k
  <2>1. n \in 1..Len(t) /\ t[n].key = k
    BY <1>0, <1>b DEF Exist
  <2>2. u = RemoveAt(t, n)
    BY <1>b DEF Del
  <2> HIDE DEF n, u
  <2>3. /\ u \in Seq(S) /\ Len(u) = Len(t) - 1
        /\ \A j \in 1..(Len(t) - 1) : u[j] = IF j < n THEN t[j] ELSE t[j + 1]
    BY <2>1, <2>2, Removed
  <2>4. DOMAIN u = 1..(Len(t) - 1)
    BY <2>3, LenProperties
  <2>5. \A l, m \in 1..Len(t) : t[l].key = t[m].key => l = m
    BY <1>0 DEF UniqueKeys
  <2>6. Range(u) = {r \in Range(t) : r.key # k}
    <3>1. ASSUME NEW j \in DOMAIN u PROVE u[j] \in Range(t) /\ u[j].key # k
      <4>1. PICK i \in 1..Len(t) : u[j] = t[i] /\ i # n
        BY <1>0, <2>1, <2>3, <2>4
      <4> QED BY <4>1, <1>0, <2>1, <2>5 DEF Range
    <3>2. ASSUME NEW i \in DOMAIN t, t[i].key # k PROVE t[i] \in Range(u)
      <4>1. PICK j \in DOMAIN u : u[j] = t[i]
        <5>1. i # n /\ i \in 1..Len(t)
          BY <3>2, <1>0, <2>1
        <5>2. CASE i < n
          BY <5>1, <5>2, <1>0, <2>1, <2>3, <2>4
        <5>3. CASE i > n
          <6>1. i - 1 \in 1..(Len(t) - 1) /\ ~(i - 1 < n) /\ (i - 1) + 1 = i
            BY <5>1, <5>3, <1>0, <2>1
          <6> QED BY <6>1, <2>3, <2>4
        <5> QED BY <5>1, <5>2, <5>3, <2>1
      <4> QED BY <4>1 DEF Range
    <3> QED BY <3>1, <3>2 DEF Range
  <2>7. UniqueKeys(u)
    <3> SUFFICES ASSUME NEW i \in DOMAIN u, NEW j \in DOMAIN u, u[i].key = u[j].key PROVE i = j
      BY DEF UniqueKeys
    <3> QED BY <1>0, <2>1, <2>3, <2>4, <2>5
  <2>8. ASSUME Sorted(t) PROVE Sorted(u)
    <3> SUFFICES ASSUME NEW i \in DOMAIN u, NEW j \in DOMAIN u, i < j
                 PROVE  ~Less(u[i].key.location, u[j].key.location)
      BY DEF Sorted
    <3> DEFINE at(m) == IF m < n THEN m ELSE m + 1
    <3>1. /\ u[i] = t[at(i)] /\ u[j] = t[at(j)]
          /\ at(i) \in 1..Len(t) /\ at(j) \in 1..Len(t) /\ at(i) < at(j)
      BY <1>0, <2>1, <2>3, <2>4
    <3> QED BY <3>1, <2>8, <1>0 DEF Sorted
  <2> QED BY <2>3, <2>6, <2>7, <2>8 DEF u
<1> QED BY <1>a, <1>b

-----------------------------------------------------------------------------
\* Prefixes, element by element.
LEMMA PrefixOf ==
  ASSUME NEW S, NEW s \in Seq(S), NEW t \in Seq(S)
  PROVE  IsPrefix(s, t) <=> Len(s) <= Len(t) /\ \A m \in 1..Len(s) : s[m] = t[m]
<1> DEFINE l == Len(s)
           a == SubSeq(s, 1, l)
           b == SubSeq(t, 1, l)
<1>0. l \in Nat /\ Len(t) \in Nat /\ \A m \in 1..l : s[m] \in S
  BY LenProperties, ElementOfSeq
<1>1. a \in Seq(S) /\ Len(a) = l /\ \A m \in 1..l : a[m] = s[m]
  BY <1>0, SubSeqProperties
<1> SUFFICES ASSUME l <= Len(t) PROVE a = b <=> \A m \in 1..l : s[m] = t[m]
  BY DEF IsPrefix
<1>2. \A m \in 1..l : t[m] \in S
  BY <1>0, ElementOfSeq
<1>3. b \in Seq(S) /\ Len(b) = l /\ \A m \in 1..l : b[m] = t[m]
  BY <1>0, <1>2, SubSeqProperties
<1> HIDE DEF a, b
<1>4. (\A m \in 1..l : a[m] = b[m]) => a = b
  BY <1>1, <1>3, SeqEqual
<1> QED BY <1>1, <1>3, <1>4

\* Less, by the first place where the two differ or the lesser one ends.
Differ(a, b, n) ==
  /\ n \in 1..Len(b) /\ n <= Len(a) + 1
  /\ \A m \in 1..(n - 1) : a[m] = b[m]
  /\ n <= Len(a) => a[n] < b[n]

LEMMA LessAt ==
  ASSUME NEW a \in Seq(Nat), NEW b \in Seq(Nat)
  PROVE  Less(a, b) <=> \E n \in 1..Len(b) : Differ(a, b, n)
<1>0. /\ Len(a) \in Nat /\ DOMAIN a = 1..Len(a) /\ Len(b) \in Nat /\ DOMAIN b = 1..Len(b)
  BY LenProperties
<1>1. IsPrefix(a, b) <=> Len(a) <= Len(b) /\ \A m \in 1..Len(a) : a[m] = b[m]
  BY PrefixOf
<1>2. ASSUME IsStrictPrefix(a, b) PROVE \E n \in 1..Len(b) : Differ(a, b, n)
  <2>1. Len(a) # Len(b)
    <3> SUFFICES ASSUME Len(a) = Len(b) PROVE FALSE
      OBVIOUS
    <3>1. \A m \in 1..Len(a) : a[m] = b[m]
      BY <1>1, <1>2 DEF IsStrictPrefix
    <3>2. a = b
      BY <3>1, SeqEqual
    <3> QED BY <3>2, <1>2 DEF IsStrictPrefix
  <2>2. Len(a) < Len(b) /\ \A m \in 1..Len(a) : a[m] = b[m]
    <3>1. IsPrefix(a, b)
      BY <1>2 DEF IsStrictPrefix
    <3>2. Len(a) <= Len(b) /\ \A m \in 1..Len(a) : a[m] = b[m]
      BY <3>1, <1>1, Zenon
    <3>3. Len(a) < Len(b)
      <4>1. \A x, y \in Nat : x <= y /\ x # y => x < y
        OBVIOUS
      <4> QED BY <4>1, <3>2, <2>1, <1>0, Zenon
    <3> QED BY <3>2, <3>3, Zenon
  <2>3. PICK n \in 1..Len(b) : n = Len(a) + 1
    BY <2>2, <1>0
  <2>4. \A m \in 1..(n - 1) : a[m] = b[m]
    BY <2>2, <2>3, <1>0
  <2>5. ~(n <= Len(a)) /\ n <= Len(a) + 1
    BY <2>3, <1>0
  <2> QED BY <2>4, <2>5 DEF Differ
<1>3. ASSUME NEW n \in DOMAIN a \intersect DOMAIN b, a[n] < b[n], \A m \in 1..(n - 1) : a[m] = b[m]
      PROVE  \E m \in 1..Len(b) : Differ(a, b, m)
  <2>1. n \in 1..Len(b) /\ n <= Len(a) + 1
    BY <1>0
  <2> QED BY <2>1, <1>3 DEF Differ
<1>4. ASSUME NEW n \in 1..Len(b), Differ(a, b, n) PROVE Less(a, b)
  <2>1. CASE n <= Len(a)
    <3>1. n \in DOMAIN a \intersect DOMAIN b
      BY <2>1, <1>0
    <3> QED BY <3>1, <2>1, <1>4 DEF Differ, Less
  <2>2. CASE n = Len(a) + 1
    <3>0. \A m \in 1..(n - 1) : a[m] = b[m]
      BY <1>4 DEF Differ
    <3>1. Len(a) < Len(b) /\ n - 1 = Len(a)
      BY <2>2, <1>0
    <3>2. Len(a) # Len(b) /\ Len(a) <= Len(b) /\ \A m \in 1..Len(a) : a[m] = b[m]
      <4>0. \A x, y \in Nat : x < y => x <= y /\ x # y
        OBVIOUS
      <4>1. Len(a) # Len(b) /\ Len(a) <= Len(b)
        BY <4>0, <3>1, <1>0, Zenon
      <4>2. \A m \in 1..Len(a) : a[m] = b[m]
        BY <3>0, <3>1, Zenon
      <4> QED BY <4>1, <4>2, Zenon
    <3>3. IsPrefix(a, b) /\ a # b
      BY <3>2, <1>1, Zenon
    <3> QED BY <3>3 DEF Less, IsStrictPrefix
  <2> QED BY <2>1, <2>2, <1>0, <1>4 DEF Differ
<1> QED BY <1>2, <1>3, <1>4 DEF Less

\* Less is a strict order.
LEMMA LessIrreflexive ==
  ASSUME NEW a \in Seq(Nat)
  PROVE  ~Less(a, a)
<1>1. Len(a) \in Nat /\ \A n \in 1..Len(a) : a[n] \in Nat
  BY LenProperties, ElementOfSeq
<1> QED BY <1>1, LessAt DEF Differ

LEMMA LessTransitive ==
  ASSUME NEW a \in Seq(Nat), NEW b \in Seq(Nat), NEW c \in Seq(Nat), Less(a, b), Less(b, c)
  PROVE  Less(a, c)
<1>0. /\ Len(a) \in Nat /\ Len(b) \in Nat /\ Len(c) \in Nat
      /\ \A n \in 1..Len(a) : a[n] \in Nat
      /\ \A n \in 1..Len(b) : b[n] \in Nat
      /\ \A n \in 1..Len(c) : c[n] \in Nat
  BY LenProperties, ElementOfSeq
<1>1. PICK m \in 1..Len(b) : Differ(a, b, m)
  BY LessAt
<1>2. PICK n \in 1..Len(c) : Differ(b, c, n)
  BY LessAt
<1>3. CASE m < n
  <2>1. m \in 1..Len(c) /\ m <= Len(a) + 1
    BY <1>0, <1>1, <1>3 DEF Differ
  <2>2. \A l \in 1..(n - 1) : b[l] = c[l]
    BY <1>2 DEF Differ
  <2>3. \A l \in 1..(m - 1) : a[l] = b[l]
    BY <1>1 DEF Differ
  <2>4. \A l \in 1..(m - 1) : a[l] = c[l]
    BY <2>2, <2>3, <1>0, <1>3
  <2>5. m <= Len(a) => a[m] < b[m]
    BY <1>1 DEF Differ
  <2>6. b[m] = c[m]
    BY <2>2, <1>0, <1>3
  <2>7. Differ(a, c, m)
    BY <2>1, <2>4, <2>5, <2>6 DEF Differ
  <2> QED BY <2>1, <2>7, LessAt
<1>4. CASE m >= n
  <2>0. n <= Len(a) + 1
    BY <1>0, <1>1, <1>4 DEF Differ
  <2>1. \A l \in 1..(n - 1) : a[l] = c[l]
    <3>1. \A l \in 1..(n - 1) : b[l] = c[l]
      BY <1>2 DEF Differ
    <3>2. \A l \in 1..(m - 1) : a[l] = b[l]
      BY <1>1 DEF Differ
    <3> QED BY <3>1, <3>2, <1>0, <1>4
  <2>2. n <= Len(a) => a[n] < c[n]
    <3> SUFFICES ASSUME n <= Len(a) PROVE a[n] < c[n]
      OBVIOUS
    <3>1. n \in 1..Len(a) /\ n \in 1..Len(b) /\ n \in 1..Len(c)
      BY <1>0, <1>4
    <3>2. a[n] \in Nat /\ b[n] \in Nat /\ c[n] \in Nat
      BY <3>1, <1>0
    <3>3. b[n] < c[n]
      BY <3>1, <1>2 DEF Differ
    <3>4. a[n] = b[n] \/ a[n] < b[n]
      BY <3>1, <1>1, <1>4 DEF Differ
    <3> QED BY <3>2, <3>3, <3>4, SMTT(60)
  <2>3. Differ(a, c, n)
    BY <2>0, <2>1, <2>2 DEF Differ
  <2> QED BY <2>3, LessAt
<1>5. m < n \/ m >= n
  BY <1>0
<1> QED BY <1>3, <1>4, <1>5

\* The table stays sorted when a route is added.
LEMMA AddSorted ==
  ASSUME NEW S, NEW t \in Seq(S), NEW k, NEW o, [key |-> k, payload |-> o] \in S,
         \A r \in S : r.key.location \in Seq(Nat), Sorted(t)
  PROVE  Sorted(Add(t, k, o))
<1> DEFINE e == [key |-> k, payload |-> o]
           u == Add(t, k, o)
           loc(i) == t[i].key.location
<1>0. Len(t) \in Nat /\ DOMAIN t = 1..Len(t) /\ \A i \in 1..Len(t) : t[i] \in S
  BY LenProperties, ElementOfSeq
<1>1. PICK n \in 1..(Len(t) + 1) :
        /\ u = InsertAt(t, n, e)
        /\ \A i \in 1..(n - 1) : ~Less(loc(i), k.location)
        /\ n <= Len(t) => Less(loc(n), k.location)
  BY AddPlace
<1>2. e.key = k /\ k.location \in Seq(Nat)
  OBVIOUS
<1>3. \A i \in 1..Len(t) : loc(i) \in Seq(Nat)
  BY <1>0
<1> HIDE DEF e, u
<1>4. /\ u \in Seq(S) /\ Len(u) = Len(t) + 1
      /\ \A j \in 1..(Len(t) + 1) : u[j] = IF j < n THEN t[j] ELSE IF j = n THEN e ELSE t[j - 1]
  <2> DEFINE w == InsertAt(t, n, e)
  <2>1. e \in S
    BY DEF e
  <2>2. w \in Seq(S)
    BY <2>1, Inserted
  <2>3. Len(w) = Len(t) + 1
    BY <2>1, Inserted
  <2>4. \A j \in 1..(Len(t) + 1) : w[j] = IF j < n THEN t[j] ELSE IF j = n THEN e ELSE t[j - 1]
    BY <2>1, Inserted
  <2>5. u = w
    BY <1>1
  <2> QED BY <2>2, <2>3, <2>4, <2>5, Zenon
<1>5. DOMAIN u = 1..(Len(t) + 1)
  BY <1>4, LenProperties
<1>6. \A i, j \in 1..Len(t) : i < j => ~Less(loc(i), loc(j))
  BY <1>0 DEF Sorted
<1>7. \A j \in n..Len(t) : ~Less(k.location, loc(j))
  <2> SUFFICES ASSUME NEW j \in n..Len(t), Less(k.location, loc(j)) PROVE FALSE
    OBVIOUS
  <2>1. n \in 1..Len(t) /\ j \in 1..Len(t) /\ n <= j
    BY <1>0
  <2>2. Less(loc(n), k.location) /\ loc(n) \in Seq(Nat) /\ loc(j) \in Seq(Nat)
    BY <2>1, <1>1, <1>3
  <2>3. Less(loc(n), loc(j))
    BY <2>2, <1>2, LessTransitive
  <2>4. n = j
    BY <2>1, <2>3, <1>6
  <2> QED BY <2>2, <2>3, <2>4, LessIrreflexive
<1> SUFFICES ASSUME NEW i \in 1..(Len(t) + 1), NEW j \in 1..(Len(t) + 1), i < j
             PROVE  ~Less(u[i].key.location, u[j].key.location)
  BY <1>5 DEF Sorted, u
<1>8. n \in Int /\ i \in Int /\ j \in Int
  BY <1>0
<1>9. CASE j < n
  BY <1>0, <1>4, <1>6, <1>8, <1>9
<1>10. CASE j = n
  <2>1. u[i] = t[i] /\ u[j] = e /\ i \in 1..(n - 1)
    BY <1>0, <1>4, <1>8, <1>10
  <2> QED BY <2>1, <1>1, <1>2
<1>11. CASE j > n /\ i < n
  <2>1. u[i] = t[i] /\ u[j] = t[j - 1] /\ i \in 1..Len(t) /\ j - 1 \in 1..Len(t) /\ i < j - 1
    <3>1. j \in 1..(Len(t) + 1) /\ j - 1 \in 1..Len(t) /\ i \in 1..Len(t) /\ i < j - 1
      BY <1>0, <1>8, <1>11
    <3> QED BY <3>1, <1>4, <1>8, <1>11
  <2> QED BY <2>1, <1>6
<1>12. CASE i = n
  <2>1. u[i] = e /\ u[j] = t[j - 1] /\ j - 1 \in n..Len(t)
    BY <1>0, <1>4, <1>8, <1>12
  <2> QED BY <2>1, <1>2, <1>7
<1>13. CASE i > n
  <2>1. /\ u[i] = t[i - 1] /\ u[j] = t[j - 1] /\ i - 1 \in 1..Len(t) /\ j - 1 \in 1..Len(t)
        /\ i - 1 < j - 1
    BY <1>0, <1>4, <1>8, <1>13
  <2> QED BY <2>1, <1>6
<1> QED BY <1>8, <1>9, <1>10, <1>11, <1>12, <1>13

-----------------------------------------------------------------------------
\* The routes that Get looks for, and the first of them that it returns.
Hit(r, host, path, user) ==
  r.key.domain = host /\ r.key.user = user /\ IsPrefix(r.key.location, path)

LEMMA GetFinds ==
  ASSUME NEW S, NEW t \in Seq(S), NEW host, NEW path, NEW user
  PROVE  \/ /\ Get(t, host, path, user) = NoRoute
            /\ \A i \in 1..Len(t) : ~Hit(t[i], host, path, user)
         \/ \E i \in 1..Len(t) :
              /\ Get(t, host, path, user) = t[i] /\ Hit(t[i], host, path, user)
              /\ \A j \in 1..Len(t) : Hit(t[j], host, path, user) => i <= j
<1> DEFINE H == {i \in DOMAIN t : Hit(t[i], host, path, user)}
<1>0. Len(t) \in Nat /\ DOMAIN t = 1..Len(t)
  BY LenProperties
<1>1. Get(t, host, path, user) = IF H = {} THEN NoRoute ELSE t[Min(H)]
  BY DEF Get, Hit
<1>2. H # {} => Min(H) \in H /\ \A j \in H : Min(H) <= j
  <2>1. H \in SUBSET Nat
    BY <1>0
  <2> QED BY <2>1, MinNat
<1> QED BY <1>0, <1>1, <1>2

\* The domains that are tried for a host.
Stars(host) == IF Len(host) < 3 THEN 0 ELSE Len(host) - 2

LEMMA TriedDomains ==
  ASSUME NEW A, NEW host \in Seq(A)
  PROVE  /\ Stars(host) \in Nat
         /\ Len(DomainsTried(host)) = Stars(host) + 2
         /\ DomainsTried(host)[1] = host
         /\ \A n \in 1..Stars(host) :
              DomainsTried(host)[n + 1] = <<Star>> \o SubSeq(host, n + 1, Len(host))
         /\ DomainsTried(host)[Stars(host) + 2] = <<Star>>
<1> DEFINE B == A \union {Star}
           T == Seq(B)
           w == Stars(host)
           sub(n) == <<Star>> \o SubSeq(host, n + 1, Len(host))
           a == <<host>>
           b == [n \in 1..w |-> sub(n)]
           c == << <<Star>> >>
<1>0. Len(host) \in Nat /\ \A n \in 1..Len(host) : host[n] \in B
  BY LenProperties, ElementOfSeq
<1>1. w \in Nat
  BY <1>0 DEF Stars
<1>2. \A n \in 1..w : sub(n) \in T
  <2> TAKE n \in 1..w
  <2>1. n \in Nat /\ n + 1 \in Int /\ Len(host) \in Int /\ \A m \in (n + 1)..Len(host) : host[m] \in B
    BY <1>0, <1>1
  <2>2. SubSeq(host, n + 1, Len(host)) \in Seq(B)
    BY <2>1, SubSeqProperties
  <2>3. <<Star>> \in Seq(B)
    OBVIOUS
  <2> QED BY <2>2, <2>3, ConcatProperties
<1>a. host \in T /\ <<Star>> \in T
  BY SeqMonotonic
<1> HIDE DEF T
<1>3. a \in Seq(T) /\ Len(a) = 1 /\ a[1] = host
  BY <1>a
<1>4. c \in Seq(T) /\ Len(c) = 1 /\ c[1] = <<Star>>
  BY <1>a
<1> HIDE DEF sub
<1>5. b \in Seq(T) /\ Len(b) = w /\ \A n \in 1..w : b[n] = sub(n)
  <2> HIDE DEF w
  <2>1. b \in [1..w -> T]
    BY <1>2
  <2>2. b \in Seq(T)
    BY <2>1, <1>1, SeqDef
  <2>3. Len(b) = w
    <3>1. DOMAIN b = 1..Len(b) /\ Len(b) \in Nat /\ DOMAIN b = 1..w
      BY <2>2, LenProperties
    <3> HIDE DEF b
    <3> QED BY <3>1, <1>1, SameRange
  <2>4. \A n \in 1..w : b[n] = sub(n)
    OBVIOUS
  <2> QED BY <2>2, <2>3, <2>4, Zenon
<1>6. DomainsTried(host) = a \o b \o c
  BY DEF DomainsTried, Stars, sub
<1> HIDE DEF a, b, c, w
<1>7. /\ a \o b \in Seq(T) /\ Len(a \o b) = w + 1
      /\ \A n \in 1..(w + 1) : (a \o b)[n] = IF n <= 1 THEN a[n] ELSE b[n - 1]
  <2>1. /\ a \o b \in Seq(T) /\ Len(a \o b) = Len(a) + Len(b)
        /\ \A n \in 1..(Len(a) + Len(b)) : (a \o b)[n] = IF n <= Len(a) THEN a[n] ELSE b[n - Len(a)]
    BY <1>3, <1>5, ConcatProperties
  <2> QED BY <2>1, <1>1, <1>3, <1>5
<1>8. /\ Len(a \o b \o c) = w + 2
      /\ \A n \in 1..(w + 2) : (a \o b \o c)[n] = IF n <= w + 1 THEN (a \o b)[n] ELSE c[n - (w + 1)]
  <2> DEFINE d == a \o b
  <2>1. d \in Seq(T) /\ Len(d) = w + 1
    BY <1>7
  <2> HIDE DEF d
  <2>2. /\ Len(d \o c) = Len(d) + Len(c)
        /\ \A n \in 1..(Len(d) + Len(c)) : (d \o c)[n] = IF n <= Len(d) THEN d[n] ELSE c[n - Len(d)]
    BY <2>1, <1>4, ConcatProperties
  <2>3. /\ Len(d \o c) = w + 2
        /\ \A n \in 1..(w + 2) : (d \o c)[n] = IF n <= w + 1 THEN d[n] ELSE c[n - (w + 1)]
    BY <2>1, <2>2, <1>1, <1>4
  <2> QED BY <2>3 DEF d
<1>9. (a \o b \o c)[1] = host
  BY <1>1, <1>3, <1>7, <1>8
<1>10. \A n \in 1..w : (a \o b \o c)[n + 1] = sub(n)
  <2> TAKE n \in 1..w
  <2>1. n + 1 \in 1..(w + 2) /\ n + 1 \in 1..(w + 1) /\ n + 1 <= w + 1 /\ ~(n + 1 <= 1) /\ (n + 1) - 1 = n
    BY <1>1
  <2> QED BY <2>1, <1>5, <1>7, <1>8
<1>11. (a \o b \o c)[w + 2] = <<Star>>
  <2>1. w + 2 \in 1..(w + 2) /\ ~(w + 2 <= w + 1) /\ (w + 2) - (w + 1) = 1
    BY <1>1
  <2> QED BY <2>1, <1>4, <1>8
<1> QED BY <1>1, <1>6, <1>8, <1>9, <1>10, <1>11 DEF w, sub

\* The n-th lookup of getVhost, and the first that finds something.
Try(t, host, path, user, n) ==
  Get(t, DomainsTried(host)[(n + 1) \div 2], path, IF n % 2 = 1 THEN user ELSE AnyUser)

LEMMA VhostFinds ==
  ASSUME NEW A, NEW t, NEW host \in Seq(A), NEW path, NEW user,
         NEW last, last = 2 * (Stars(host) + 2)
  PROVE  \/ /\ getVhost(t, host, path, user) = NoRoute
            /\ \A n \in 1..last : Try(t, host, path, user, n) = NoRoute
         \/ \E n \in 1..last :
              /\ getVhost(t, host, path, user) = Try(t, host, path, user, n)
              /\ Try(t, host, path, user, n) # NoRoute
              /\ \A m \in 1..last : Try(t, host, path, user, m) # NoRoute => n <= m
<1> DEFINE tries == [n \in 1..(2 * Len(DomainsTried(host))) |-> Try(t, host, path, user, n)]
           hits == {n \in DOMAIN tries : tries[n] # NoRoute}
<1>0. last \in Nat /\ 2 * Len(DomainsTried(host)) = last
  <2>1. Stars(host) \in Nat /\ Len(DomainsTried(host)) = Stars(host) + 2
    BY TriedDomains
  <2> QED BY <2>1
<1>1. getVhost(t, host, path, user) = IF hits = {} THEN NoRoute ELSE tries[Min(hits)]
  BY DEF getVhost, Try
<1>2. DOMAIN tries = 1..last /\ \A n \in 1..last : tries[n] = Try(t, host, path, user, n)
  BY <1>0
<1> HIDE DEF tries
<1>3. hits = {n \in 1..last : Try(t, host, path, user, n) # NoRoute}
  BY <1>2
<1>4. hits # {} => Min(hits) \in hits /\ \A m \in hits : Min(hits) <= m
  <2>1. hits \in SUBSET Nat
    BY <1>0
  <2> QED BY <2>1, MinNat
<1> HIDE DEF tries, hits
<1> QED BY <1>1, <1>2, <1>3, <1>4

\* What Reverse holds.
LEMMA ReverseOf ==
  ASSUME NEW B, NEW s \in Seq(B)
  PROVE  /\ Reverse(s) \in Seq(B) /\ Len(Reverse(s)) = Len(s)
         /\ \A j \in 1..Len(s) : Reverse(s)[j] = s[(Len(s) - j) + 1]
<1> DEFINE w == Len(s)
           u == Reverse(s)
<1>0. w \in Nat /\ \A j \in 1..w : s[j] \in B
  BY LenProperties, ElementOfSeq
<1>1. u = [j \in 1..w |-> s[(w - j) + 1]]
  BY DEF Reverse
<1>2. \A j \in 1..w : (w - j) + 1 \in 1..w
  BY <1>0
<1> HIDE DEF u, w
<1>3. u \in [1..w -> B] /\ DOMAIN u = 1..w
  BY <1>0, <1>1, <1>2
<1>4. u \in Seq(B)
  BY <1>0, <1>3, SeqDef
<1>5. Len(u) \in Nat /\ DOMAIN u = 1..Len(u)
  BY <1>4, LenProperties
<1>6. Len(u) = w
  BY <1>0, <1>3, <1>5, SameRange
<1> QED BY <1>1, <1>4, <1>6 DEF u, w

\* The end of a domain after its star, element by element.
LEMMA StarSuffix ==
  ASSUME NEW B, NEW d \in Seq(B), NEW h \in Seq(B), Len(d) >= 2, Len(d) <= Len(h)
  PROVE  IsSuffix(Tail(d), h) <=> \A j \in 2..Len(d) : d[j] = h[Len(h) - Len(d) + j]
<1> DEFINE x == Tail(d)
           u == Reverse(x)
           v == Reverse(h)
<1>0. Len(d) \in Nat /\ Len(h) \in Nat /\ d # <<>>
  BY LenProperties
<1>1. x \in Seq(B) /\ Len(x) = Len(d) - 1 /\ \A j \in 1..Len(x) : x[j] = d[j + 1]
  BY <1>0, HeadTailProperties
<1> HIDE DEF x
<1>2. u \in Seq(B) /\ Len(u) = Len(x) /\ \A j \in 1..Len(x) : u[j] = x[(Len(x) - j) + 1]
  BY <1>1, ReverseOf
<1>3. v \in Seq(B) /\ Len(v) = Len(h) /\ \A j \in 1..Len(h) : v[j] = h[(Len(h) - j) + 1]
  BY ReverseOf
<1> HIDE DEF u, v
<1>4. IsSuffix(x, h) <=> IsPrefix(u, v)
  BY DEF IsSuffix, u, v
<1>5. IsPrefix(u, v) <=> Len(u) <= Len(v) /\ \A m \in 1..Len(u) : u[m] = v[m]
  BY <1>2, <1>3, PrefixOf
<1>6. Len(u) = Len(d) - 1 /\ Len(u) <= Len(v)
  BY <1>0, <1>1, <1>2, <1>3
<1>7. ASSUME NEW m \in 1..(Len(d) - 1)
      PROVE  /\ Len(d) - m + 1 \in 2..Len(d)
             /\ u[m] = d[Len(d) - m + 1] /\ v[m] = h[Len(h) - Len(d) + (Len(d) - m + 1)]
  <2>1. /\ m \in 1..Len(x) /\ m \in 1..Len(h) /\ (Len(x) - m) + 1 \in 1..Len(x)
        /\ ((Len(x) - m) + 1) + 1 = Len(d) - m + 1
        /\ (Len(h) - m) + 1 = Len(h) - Len(d) + (Len(d) - m + 1)
        /\ Len(d) - m + 1 \in 2..Len(d)
    BY <1>0, <1>1
  <2>2. u[m] = x[(Len(x) - m) + 1] /\ x[(Len(x) - m) + 1] = d[((Len(x) - m) + 1) + 1]
    BY <2>1, <1>1, <1>2
  <2>3. v[m] = h[(Len(h) - m) + 1]
    BY <2>1, <1>3
  <2> QED BY <2>1, <2>2, <2>3
<1>8. ASSUME NEW j \in 2..Len(d)
      PROVE  Len(d) - j + 1 \in 1..(Len(d) - 1) /\ Len(d) - (Len(d) - j + 1) + 1 = j
  BY <1>0
<1>9. ASSUME \A m \in 1..(Len(d) - 1) : u[m] = v[m], NEW j \in 2..Len(d)
      PROVE  d[j] = h[Len(h) - Len(d) + j]
  <2> DEFINE m == Len(d) - j + 1
  <2>1. m \in 1..(Len(d) - 1) /\ Len(d) - m + 1 = j
    BY <1>8
  <2> HIDE DEF m
  <2> QED BY <2>1, <1>7, <1>9
<1>10. ASSUME \A j \in 2..Len(d) : d[j] = h[Len(h) - Len(d) + j], NEW m \in 1..(Len(d) - 1)
       PROVE  u[m] = v[m]
  BY <1>7, <1>10
<1> QED BY <1>4, <1>5, <1>6, <1>9, <1>10 DEF x

\* A domain with a star that is tried, element by element.
StarOf(A, h, n, d) ==
  /\ Len(h) \in Nat /\ Len(h) >= 3 /\ n \in 1..(Len(h) - 2)
  /\ d \in Seq(A \union {Star}) /\ Len(d) = Len(h) - n + 1 /\ d[1] = Star
  /\ \A j \in 2..Len(d) : d[j] = h[Len(h) - Len(d) + j]

LEMMA StarDomain ==
  ASSUME NEW A, NEW h \in Seq(A), NEW n \in 1..Stars(h)
  PROVE  StarOf(A, h, n, DomainsTried(h)[n + 1])
<1> DEFINE d == DomainsTried(h)[n + 1]
<1> DEFINE B == A \union {Star}
           x == SubSeq(h, n + 1, Len(h))
           st == <<Star>>
<1>0. Len(h) \in Nat /\ \A m \in 1..Len(h) : h[m] \in B
  BY LenProperties, ElementOfSeq
<1>1. Len(h) >= 3 /\ n \in 1..(Len(h) - 2) /\ n \in Nat
  BY <1>0 DEF Stars
<1>2. d = st \o x
  BY TriedDomains
<1>3. /\ x \in Seq(B) /\ Len(x) = Len(h) - n
      /\ \A j \in 1..(Len(h) - n) : x[j] = h[n + j]
  <2>1. n + 1 \in Int /\ Len(h) \in Int /\ \A m \in (n + 1)..Len(h) : h[m] \in B
    BY <1>0, <1>1
  <2>2. /\ x \in Seq(B) /\ Len(x) = IF n + 1 <= Len(h) THEN Len(h) - (n + 1) + 1 ELSE 0
        /\ \A j \in 1..(Len(h) - (n + 1) + 1) : x[j] = h[(n + 1) + j - 1]
    BY <2>1, SubSeqProperties
  <2> QED BY <2>2, <1>0, <1>1
<1>4. st \in Seq(B) /\ Len(st) = 1 /\ st[1] = Star
  OBVIOUS
<1> HIDE DEF x, st, B, d
<1>5. /\ st \o x \in Seq(B) /\ Len(st \o x) = 1 + Len(x)
      /\ \A j \in 1..(1 + Len(x)) : (st \o x)[j] = IF j <= 1 THEN st[j] ELSE x[j - 1]
  <2>1. /\ st \o x \in Seq(B) /\ Len(st \o x) = Len(st) + Len(x)
        /\ \A j \in 1..(Len(st) + Len(x)) : (st \o x)[j] = IF j <= Len(st) THEN st[j] ELSE x[j - Len(st)]
    BY <1>3, <1>4, ConcatProperties
  <2> QED BY <2>1, <1>4
<1>6. d \in Seq(B) /\ Len(d) = Len(h) - n + 1 /\ d[1] = Star
  BY <1>0, <1>1, <1>2, <1>3, <1>4, <1>5
<1>7. \A j \in 2..Len(d) : d[j] = h[Len(h) - Len(d) + j]
  <2> TAKE j \in 2..Len(d)
  <2>1. /\ j \in 1..(1 + Len(x)) /\ ~(j <= 1) /\ j - 1 \in 1..(Len(h) - n)
        /\ n + (j - 1) = Len(h) - Len(d) + j
    BY <1>0, <1>1, <1>3, <1>6
  <2>2. d[j] = x[j - 1] /\ x[j - 1] = h[n + (j - 1)]
    BY <2>1, <1>2, <1>3, <1>5
  <2> QED BY <2>1, <2>2
<1> QED BY <1>0, <1>1, <1>6, <1>7 DEF B, d, StarOf

\* The domains that the loop comes to, and the routes that it can find.
TriedFor(d, h) ==
  \/ d = h
  \/ d = <<Star>>
  \/ Len(d) >= 3 /\ d[1] = Star /\ Len(d) <= Len(h) /\ IsSuffix(Tail(d), h)
CanFind(key, h, w, u) ==
  TriedFor(key.domain, h) /\ key.user \in {u, AnyUser} /\ IsPrefix(key.location, w)

\* The domains tried are those, the longer ones first.
LEMMA TriedMatch ==
  ASSUME NEW A, NEW h \in Seq(A), NEW n \in 1..(Stars(h) + 2)
  PROVE  TriedFor(DomainsTried(h)[n], h)
<1> DEFINE d == DomainsTried(h)[n]
<1>0. Stars(h) \in Nat
  BY TriedDomains
<1>1. CASE n = 1
  <2>1. d = h
    BY <1>1, TriedDomains
  <2> QED BY <2>1 DEF TriedFor
<1>2. CASE n = Stars(h) + 2
  <2>1. d = <<Star>>
    BY <1>2, TriedDomains
  <2> QED BY <2>1 DEF TriedFor
<1>3. CASE n - 1 \in 1..Stars(h)
  <2> DEFINE m == n - 1
             B == A \union {Star}
  <2>1. m \in 1..Stars(h) /\ m + 1 = n
    BY <1>0, <1>3
  <2>a. d = DomainsTried(h)[m + 1]
    BY <2>1
  <2> HIDE DEF m, B, d
  <2>2. /\ Len(h) \in Nat /\ Len(h) >= 3 /\ m \in 1..(Len(h) - 2)
        /\ d \in Seq(B) /\ Len(d) = Len(h) - m + 1 /\ d[1] = Star
        /\ \A j \in 2..Len(d) : d[j] = h[Len(h) - Len(d) + j]
    <3>1. StarOf(A, h, m, d)
      BY <2>1, <2>a, StarDomain
    <3> QED BY <3>1 DEF B, StarOf
  <2>3. Len(d) >= 3 /\ Len(d) <= Len(h) /\ Len(d) >= 2
    BY <2>2
  <2>4. h \in Seq(B)
    BY SeqMonotonic DEF B
  <2>5. IsSuffix(Tail(d), h)
    BY <2>2, <2>3, <2>4, StarSuffix
  <2>6. TriedFor(d, h)
    BY <2>2, <2>3, <2>5 DEF TriedFor
  <2> QED BY <2>6 DEF d
<1> QED BY <1>0, <1>1, <1>2, <1>3

LEMMA MatchTried ==
  ASSUME NEW A, NEW h \in Seq(A), NEW d \in Seq(A), TriedFor(d, h)
  PROVE  \E n \in 1..(Stars(h) + 2) : DomainsTried(h)[n] = d
<1>0. Stars(h) \in Nat /\ Len(h) \in Nat /\ Len(d) \in Nat
  BY TriedDomains, LenProperties
<1>1. CASE d = h
  <2>1. 1 \in 1..(Stars(h) + 2) /\ DomainsTried(h)[1] = d
    BY <1>0, <1>1, TriedDomains
  <2> QED BY <2>1
<1>2. CASE d = <<Star>>
  <2>1. Stars(h) + 2 \in 1..(Stars(h) + 2) /\ DomainsTried(h)[Stars(h) + 2] = d
    BY <1>0, <1>2, TriedDomains
  <2> QED BY <2>1
<1>3. CASE Len(d) >= 3 /\ d[1] = Star /\ Len(d) <= Len(h) /\ IsSuffix(Tail(d), h)
  <2> DEFINE n == Len(h) - Len(d) + 1
             B == A \union {Star}
             e == DomainsTried(h)[n + 1]
  <2>1. n \in 1..Stars(h) /\ n + 1 \in 1..(Stars(h) + 2)
    BY <1>0, <1>3 DEF Stars
  <2>2. h \in Seq(B) /\ d \in Seq(B)
    BY SeqMonotonic
  <2>a. e = DomainsTried(h)[n + 1]
    OBVIOUS
  <2> HIDE DEF e, B, n
  <2>3. /\ e \in Seq(B) /\ Len(e) = Len(h) - n + 1 /\ e[1] = Star
        /\ \A j \in 2..Len(e) : e[j] = h[Len(h) - Len(e) + j]
    <3>1. StarOf(A, h, n, e)
      BY <2>1, <2>a, StarDomain
    <3> QED BY <3>1 DEF B, StarOf
  <2>4. Len(e) = Len(d)
    BY <2>3, <1>0 DEF n
  <2>5. \A j \in 2..Len(d) : d[j] = h[Len(h) - Len(d) + j]
    BY <2>2, <1>0, <1>3, StarSuffix
  <2>6. \A j \in 1..Len(e) : e[j] = d[j]
    <3> TAKE j \in 1..Len(e)
    <3>1. j = 1 \/ j \in 2..Len(e)
      BY <2>4, <1>0
    <3> QED BY <3>1, <2>3, <2>4, <2>5, <1>3
  <2>7. e = d
    BY <2>2, <2>3, <2>4, <2>6, SeqEqual
  <2> QED BY <2>1, <2>7 DEF e
<1> QED BY <1>1, <1>2, <1>3 DEF TriedFor

\* How many labels of the host a domain stands for.
LabelsOf(d, h) == IF d = h THEN Len(h) + 1 ELSE Len(d)

LEMMA LabelsFall ==
  ASSUME NEW A, NEW h \in Seq(A), NEW m \in 1..(Stars(h) + 2), NEW n \in 1..(Stars(h) + 2),
         m < n, DomainsTried(h)[m] # <<>>, DomainsTried(h)[m] # DomainsTried(h)[n]
  PROVE  LabelsOf(DomainsTried(h)[m], h) > LabelsOf(DomainsTried(h)[n], h)
<1> DEFINE D(i) == DomainsTried(h)[i]
           w == Stars(h)
<1>0. w \in Nat /\ Len(h) \in Nat /\ w = (IF Len(h) < 3 THEN 0 ELSE Len(h) - 2)
  BY TriedDomains, LenProperties DEF Stars
<1>1. D(1) = h /\ Len(D(w + 2)) = 1
  <2>1. D(w + 2) = <<Star>>
    BY TriedDomains
  <2> QED BY <2>1, TriedDomains
<1>2. \A i \in 2..(w + 1) : Len(D(i)) = Len(h) - i + 2 /\ Len(h) >= 3
  <2> TAKE i \in 2..(w + 1)
  <2>1. PICK l \in 1..w : i = l + 1
    <3>1. i - 1 \in 1..w /\ i = (i - 1) + 1
      BY <1>0
    <3> QED BY <3>1
  <2>2. D(i) = DomainsTried(h)[l + 1]
    BY <2>1
  <2>3. Len(h) >= 3 /\ Len(D(i)) = Len(h) - l + 1
    <3>1. StarOf(A, h, l, D(i))
      BY <2>2, StarDomain
    <3> QED BY <3>1 DEF StarOf
  <2> QED BY <2>1, <2>3, <1>0
<1> HIDE DEF D, w
<1>3. n \in 2..(w + 1) \/ n = w + 2
  BY <1>0 DEF w
<1>4. CASE m = 1
  <2>1. D(m) = h /\ h # <<>> /\ D(n) # h
    BY <1>1, <1>4 DEF D
  <2>2. Len(h) \in Nat \ {0}
    BY <2>1, EmptySeq
  <2>3. Len(D(n)) \in Nat /\ Len(D(n)) <= Len(h)
    <3>1. CASE n \in 2..(w + 1)
      <4>1. Len(D(n)) = Len(h) - n + 2
        BY <3>1, <1>2
      <4> QED BY <3>1, <4>1, <1>0
    <3>2. CASE n = w + 2
      BY <3>2, <1>1, <2>2
    <3> QED BY <3>1, <3>2, <1>3
  <2>4. Len(h) + 1 > Len(D(n))
    BY <2>3, <1>0
  <2> QED BY <2>1, <2>4 DEF LabelsOf, D
<1>5. CASE m # 1
  <2>1. m \in 2..(w + 1)
    BY <1>0, <1>5 DEF w
  <2>2. Len(D(n)) \in Nat /\ Len(D(m)) \in Nat /\ Len(D(n)) < Len(D(m)) /\ Len(D(m)) <= Len(h)
    <3>1. Len(D(m)) = Len(h) - m + 2 /\ Len(h) >= 3
      BY <2>1, <1>2
    <3>2. CASE n \in 2..(w + 1)
      <4>1. Len(D(n)) = Len(h) - n + 2
        BY <3>2, <1>2
      <4> QED BY <2>1, <3>1, <3>2, <4>1, <1>0
    <3>3. CASE n = w + 2
      <4>1. Len(D(n)) = 1
        BY <3>3, <1>1
      <4> QED BY <2>1, <3>1, <4>1, <1>0
    <3> QED BY <3>2, <3>3, <1>3
  <2>3. D(n) # h
    BY <2>2, <1>0
  <2>4. LabelsOf(D(n), h) = Len(D(n)) /\ LabelsOf(D(m), h) \in {Len(h) + 1, Len(D(m))}
    BY <2>3 DEF LabelsOf
  <2> QED BY <2>2, <2>4, <1>0 DEF D
<1> QED BY <1>4, <1>5

\* The lookups come in pairs, one pair per domain.
LEMMA Pairs ==
  /\ \A d \in Nat \ {0} : /\ 2 * d - 1 \in Nat /\ ((2 * d - 1) + 1) \div 2 = d /\ (2 * d - 1) % 2 = 1
                          /\ 2 * d \in Nat /\ ((2 * d) + 1) \div 2 = d /\ (2 * d) % 2 = 0
  /\ \A m, n \in Nat : m <= n => (m + 1) \div 2 <= (n + 1) \div 2
  /\ \A m, n \in Nat : m < n /\ (m + 1) \div 2 = (n + 1) \div 2 => m % 2 = 1 /\ n % 2 # 1
  /\ \A w \in Nat : \A n \in 1..(2 * w) : (n + 1) \div 2 \in 1..w
OBVIOUS

\* Of two routes for the same domain and user that fit a path, the one that comes
\* first in the table has the longer location.
LEMMA FirstIsLonger ==
  ASSUME NEW a \in Seq(Nat), NEW b \in Seq(Nat), NEW w \in Seq(Nat),
         IsPrefix(a, w), IsPrefix(b, w), ~Less(a, b)
  PROVE  Len(a) >= Len(b)
<1>0. Len(a) \in Nat /\ Len(b) \in Nat /\ Len(w) \in Nat
  BY LenProperties
<1>1. (Len(a) <= Len(w) /\ \A m \in 1..Len(a) : a[m] = w[m])
      /\ (Len(b) <= Len(w) /\ \A m \in 1..Len(b) : b[m] = w[m])
  BY PrefixOf
<1> SUFFICES ASSUME Len(a) < Len(b) PROVE FALSE
  BY <1>0
<1>2. Len(a) <= Len(b) /\ \A m \in 1..Len(a) : a[m] = b[m]
  BY <1>0, <1>1
<1>3. IsPrefix(a, b)
  BY <1>2, PrefixOf
<1>4. a # b
  BY <1>0
<1> QED BY <1>3, <1>4 DEF Less, IsStrictPrefix

\* getVhost finds the best of the routes that it can find.
LEMMA BestFound ==
  ASSUME NEW A, NEW S, NEW t \in Seq(S), Sorted(t),
         \A r \in S : /\ r # NoRoute /\ r.key.domain \in Seq(A) /\ r.key.domain # <<>>
                      /\ r.key.location \in Seq(Nat),
         NEW h \in Seq(A), NEW w \in Seq(Nat), NEW u
  PROVE  \/ /\ getVhost(t, h, w, u) = NoRoute
            /\ \A i \in 1..Len(t) : ~CanFind(t[i].key, h, w, u)
         \/ \E i \in 1..Len(t) :
              /\ getVhost(t, h, w, u) = t[i] /\ CanFind(t[i].key, h, w, u)
              /\ \A j \in 1..Len(t) : CanFind(t[j].key, h, w, u) => Preferred(t[i].key, t[j].key, h)
<1> DEFINE W == Stars(h) + 2
           last == 2 * W
           D(c) == DomainsTried(h)[c]
           dom(n) == D((n + 1) \div 2)
           usr(n) == IF n % 2 = 1 THEN u ELSE AnyUser
           T(n) == Try(t, h, w, u, n)
           HitBy(i, n) == Hit(t[i], dom(n), w, usr(n))
           M(i) == CanFind(t[i].key, h, w, u)
<1>0. /\ Len(t) \in Nat /\ DOMAIN t = 1..Len(t) /\ W \in Nat /\ last \in Nat
      /\ \A i \in 1..Len(t) : /\ t[i] # NoRoute /\ t[i].key.domain \in Seq(A)
                              /\ t[i].key.domain # <<>> /\ t[i].key.location \in Seq(Nat)
  <2>1. Stars(h) \in Nat
    BY TriedDomains
  <2>2. Len(t) \in Nat /\ DOMAIN t = 1..Len(t) /\ \A i \in 1..Len(t) : t[i] \in S
    BY LenProperties, ElementOfSeq
  <2> QED BY <2>1, <2>2
<1>1. \A n \in 1..last : (n + 1) \div 2 \in 1..W
  BY <1>0, Pairs
<1>2. ASSUME NEW n \in 1..last
      PROVE  \/ T(n) = NoRoute /\ \A i \in 1..Len(t) : ~HitBy(i, n)
             \/ \E i \in 1..Len(t) : /\ T(n) = t[i] /\ HitBy(i, n)
                                     /\ \A j \in 1..Len(t) : HitBy(j, n) => i <= j
  BY GetFinds DEF Try
<1>3. ASSUME NEW n \in 1..last, NEW i \in 1..Len(t), HitBy(i, n)
      PROVE  M(i) /\ t[i].key.domain = dom(n) /\ t[i].key.user = usr(n) /\ IsPrefix(t[i].key.location, w)
  <2>1. t[i].key.domain = dom(n) /\ t[i].key.user = usr(n) /\ IsPrefix(t[i].key.location, w)
    BY <1>3 DEF Hit
  <2>2. TriedFor(dom(n), h)
    BY <1>1, TriedMatch
  <2> HIDE DEF dom
  <2> QED BY <2>1, <2>2 DEF CanFind
<1>4. ASSUME NEW j \in 1..Len(t), M(j)
      PROVE  \E n \in 1..last :
               /\ HitBy(j, n)
               /\ \A c \in 1..W : D(c) = t[j].key.domain => (n + 1) \div 2 <= c
               /\ n % 2 # 1 => t[j].key.user = AnyUser /\ u # AnyUser
  <2> DEFINE P == {c \in 1..W : D(c) = t[j].key.domain}
  <2>1. TriedFor(t[j].key.domain, h) /\ t[j].key.user \in {u, AnyUser} /\ IsPrefix(t[j].key.location, w)
    BY <1>4 DEF CanFind
  <2>2. P # {} /\ P \in SUBSET Nat
    <3>0. t[j].key.domain \in Seq(A)
      BY <1>0
    <3>1. \E c \in 1..W : DomainsTried(h)[c] = t[j].key.domain
      <4> DEFINE d == t[j].key.domain
      <4>1. d \in Seq(A) /\ TriedFor(d, h)
        BY <3>0, <2>1
      <4> HIDE DEF d
      <4>2. \E c \in 1..(Stars(h) + 2) : DomainsTried(h)[c] = d
        BY <4>1, MatchTried
      <4> QED BY <4>2 DEF d
    <3>2. P # {}
      BY <3>1
    <3>3. P \in SUBSET Nat
      BY <1>0
    <3> QED BY <3>2, <3>3
  <2>3. PICK d \in P : \A c \in P : d <= c
    BY <2>2, MinNat
  <2>4. d \in 1..W /\ D(d) = t[j].key.domain /\ d \in Nat \ {0}
    BY <2>3, <1>0
  <2>5. CASE t[j].key.user = u
    <3> DEFINE n == 2 * d - 1
    <3>1. n \in 1..last /\ (n + 1) \div 2 = d /\ n % 2 = 1
      BY <2>4, <1>0, Pairs
    <3> HIDE DEF n
    <3>2. dom(n) = t[j].key.domain /\ usr(n) = t[j].key.user
      BY <3>1, <2>4, <2>5
    <3>3. HitBy(j, n)
      BY <3>2, <2>1 DEF Hit
    <3> QED BY <3>1, <3>3, <2>3, <2>4
  <2>6. CASE t[j].key.user # u
    <3> DEFINE n == 2 * d
    <3>1. n \in 1..last /\ (n + 1) \div 2 = d /\ n % 2 = 0
      BY <2>4, <1>0, Pairs
    <3> HIDE DEF n
    <3>2. dom(n) = t[j].key.domain /\ usr(n) = t[j].key.user /\ t[j].key.user = AnyUser /\ u # AnyUser
      BY <3>1, <2>1, <2>4, <2>6
    <3>3. HitBy(j, n)
      BY <3>2, <2>1 DEF Hit
    <3> QED BY <3>1, <3>2, <3>3, <2>3, <2>4
  <2> QED BY <2>5, <2>6
<1>5. ASSUME NEW n \in 1..last, NEW i \in 1..Len(t), HitBy(i, n),
             \A j \in 1..Len(t) : HitBy(j, n) => i <= j,
             \A m \in 1..last : T(m) # NoRoute => n <= m,
             NEW j \in 1..Len(t), M(j)
      PROVE  Preferred(t[i].key, t[j].key, h)
  <2> DEFINE k == t[i].key
             l == t[j].key
  <2>1. PICK m \in 1..last : /\ HitBy(j, m)
                             /\ \A c \in 1..W : D(c) = l.domain => (m + 1) \div 2 <= c
                             /\ m % 2 # 1 => l.user = AnyUser /\ u # AnyUser
    BY <1>4, <1>5
  <2>2. n <= m
    <3>1. T(m) # NoRoute
      BY <2>1, <1>0, <1>2
    <3> QED BY <3>1, <1>5
  <2>3. k.domain = dom(n) /\ k.user = usr(n) /\ IsPrefix(k.location, w)
    BY <1>3, <1>5
  <2>4. l.domain = dom(m) /\ l.user = usr(m) /\ IsPrefix(l.location, w)
    BY <1>3, <2>1
  <2> DEFINE a == (n + 1) \div 2
             b == (m + 1) \div 2
  <2>5. a \in 1..W /\ b \in 1..W /\ a <= b /\ n \in Nat /\ m \in Nat
    <3>1. n \in Nat /\ m \in Nat
      BY <1>0
    <3> QED BY <3>1, <2>2, <1>1, Pairs
  <2>6. k.domain = D(a) /\ l.domain = D(b) /\ k.domain # <<>> /\ k.location \in Seq(Nat) /\ l.location \in Seq(Nat)
    BY <2>3, <2>4, <1>0
  <2>7. CASE a < b
    <3>1. D(a) # D(b)
      BY <2>1, <2>5, <2>6, <2>7
    <3>2. LabelsOf(D(a), h) > LabelsOf(D(b), h)
      BY <3>1, <2>5, <2>6, <2>7, LabelsFall
    <3> HIDE DEF a, b, k, l, D
    <3>3. Labels(k, h) > Labels(l, h)
      BY <3>2, <2>6 DEF LabelsOf, Labels
    <3>4. Preferred(k, l, h)
      BY <3>3 DEF Preferred
    <3> QED BY <3>4 DEF k, l
  <2>8. CASE a = b /\ n < m
    <3>1. n % 2 = 1 /\ m % 2 # 1
      BY <2>5, <2>8, Pairs
    <3>2. k.user = u /\ u # AnyUser /\ l.user = AnyUser /\ k.domain = l.domain
      BY <3>1, <2>1, <2>3, <2>6, <2>8
    <3> HIDE DEF k, l
    <3>3. Preferred(k, l, h)
      BY <3>2 DEF Preferred
    <3> QED BY <3>3 DEF k, l
  <2>9. CASE n = m
    <3>1. k.domain = l.domain /\ k.user = l.user
      BY <2>3, <2>4, <2>9
    <3>2. i <= j
      BY <2>1, <2>9, <1>5
    <3>3. ~Less(k.location, l.location)
      <4>1. CASE i = j
        <5>1. k.location = l.location /\ ~Less(k.location, k.location)
          BY <4>1, <2>6, LessIrreflexive
        <5> QED BY <5>1
      <4>2. CASE i < j
        BY <4>2, <1>0 DEF Sorted
      <4> QED BY <3>2, <4>1, <4>2, <1>0
    <3>4. Len(k.location) >= Len(l.location)
      BY <3>3, <2>3, <2>4, <2>6, FirstIsLonger
    <3> QED BY <3>1, <3>4 DEF Preferred
  <2> QED BY <2>2, <2>5, <2>7, <2>8, <2>9
<1>6. \/ getVhost(t, h, w, u) = NoRoute /\ \A n \in 1..last : T(n) = NoRoute
      \/ \E n \in 1..last : /\ getVhost(t, h, w, u) = T(n) /\ T(n) # NoRoute
                            /\ \A m \in 1..last : T(m) # NoRoute => n <= m
  <2>1. last = 2 * (Stars(h) + 2)
    OBVIOUS
  <2> HIDE DEF last
  <2> QED BY <2>1, VhostFinds
<1>7. CASE getVhost(t, h, w, u) = NoRoute /\ \A n \in 1..last : T(n) = NoRoute
  <2>1. ASSUME NEW i \in 1..Len(t), M(i) PROVE FALSE
    <3>1. PICK n \in 1..last : HitBy(i, n)
      BY <1>4, <2>1
    <3> QED BY <3>1, <1>0, <1>2, <1>7
  <2> QED BY <2>1, <1>7
<1>8. ASSUME NEW n \in 1..last, getVhost(t, h, w, u) = T(n), T(n) # NoRoute,
             \A m \in 1..last : T(m) # NoRoute => n <= m
      PROVE  \E i \in 1..Len(t) :
               /\ getVhost(t, h, w, u) = t[i] /\ M(i)
               /\ \A j \in 1..Len(t) : M(j) => Preferred(t[i].key, t[j].key, h)
  <2>1. PICK i \in 1..Len(t) : /\ T(n) = t[i] /\ HitBy(i, n)
                               /\ \A j \in 1..Len(t) : HitBy(j, n) => i <= j
    BY <1>2, <1>8
  <2>2. M(i)
    BY <2>1, <1>3
  <2>3. \A j \in 1..Len(t) : M(j) => Preferred(t[i].key, t[j].key, h)
    BY <2>1, <1>5, <1>8
  <2> QED BY <2>1, <2>2, <2>3, <1>8
<1> HIDE DEF T, M, last
<1> QED BY <1>6, <1>7, <1>8 DEF M

\* The routes it can find are those that match, without the short wildcards.
LEMMA FindsMatches ==
  ASSUME NEW A, NEW k, k.domain \in Seq(A), NEW h, NEW w, NEW u
  PROVE  CanFind(k, h, w, u) <=> Matches(k, h, w, u) /\ ~ShortWildcard(k.domain, h)
<1>1. ASSUME NEW d \in Seq(A)
      PROVE  TriedFor(d, h) <=> DomainMatches(d, h) /\ ~ShortWildcard(d, h)
  <2>0. Len(d) >= 3 <=> Len(d) >= 2 /\ Len(d) # 2
    <3>1. \A n \in Nat : n >= 3 <=> n >= 2 /\ n # 2
      OBVIOUS
    <3>2. Len(d) \in Nat
      BY LenProperties
    <3> QED BY <3>1, <3>2, Zenon
  <2>1. CASE d = h
    BY <2>1, Zenon DEF TriedFor, DomainMatches, ShortWildcard
  <2>2. CASE d # h /\ d = <<Star>>
    <3>1. Len(d) # 2
      BY <2>2
    <3> QED BY <3>1, <2>2, Zenon DEF TriedFor, DomainMatches, ShortWildcard
  <2>3. CASE d # h /\ d # <<Star>>
    BY <2>0, <2>3, Zenon DEF TriedFor, DomainMatches, ShortWildcard
  <2> QED BY <2>1, <2>2, <2>3
<1>2. TriedFor(k.domain, h) <=> DomainMatches(k.domain, h) /\ ~ShortWildcard(k.domain, h)
  BY <1>1
<1> QED BY <1>2, Zenon DEF CanFind, Matches

-----------------------------------------------------------------------------
\* The keys and routes that there can be in the table.
Keys == UNION {Range(ProxyConf[p].routes) : p \in Proxy}
Route == [key : Keys, payload : Proxy \union Inst]
Rt(k, o) == [key |-> k, payload |-> o]
GroupKeys == {ProxyConf[p].groupKey : p \in Proxy}
NoKey == Key(<<>>, <<>>, AnyUser)

TypeOK ==
  /\ routes \in Seq(Route)
  /\ groups \in [Group -> Inst \union {NoInst}]
  /\ inst \in [Inst -> [members : SUBSET Proxy, key : Keys \union {NoKey},
                        groupKey : GroupKeys \union {""}]]
  /\ made \in [Group -> Nat]
  /\ phase \in [Proxy -> {"never", "off", "run", "up", "close"}]
  /\ closeFuncs \in [Proxy -> Seq(Keys)]
  /\ found \in [Proxy -> Inst \union {NoInst}]
  /\ request = [q \in Request |-> request[q]]

\* The objects of a group are made one after the other, and one that is not made
\* yet is as new.
Objects ==
  /\ \A p \in Proxy : found[p] # NoInst =>
       /\ InGroup(p) /\ found[p][1] = ProxyConf[p].group
       /\ found[p][2] <= made[ProxyConf[p].group]
  /\ \A g \in Group : groups[g] # NoInst => groups[g][1] = g /\ groups[g][2] <= made[g]
  /\ \A i \in Inst : i[2] > made[i[1]] => inst[i].members = {} /\ inst[i].key = NoKey

\* The members of a group are proxies of that group, and those of the object that
\* the controller has under its name have a registration to undo; an object that it
\* has and that is empty was never entered.
Members ==
  /\ \A i \in Inst : \A p \in inst[i].members : ProxyConf[p].group = i[1]
  /\ \A g \in Group : groups[g] # NoInst =>
       /\ \A p \in inst[groups[g]].members : closeFuncs[p] # <<>>
       /\ inst[groups[g]].members = {} => inst[groups[g]].key = NoKey

\* Who put a route in the table.
Owners ==
  /\ \A p \in Proxy : ~InGroup(p) =>
       /\ \A m, n \in DOMAIN closeFuncs[p] : closeFuncs[p][m] = closeFuncs[p][n] => m = n
       /\ \A k \in Keys : k \in Range(closeFuncs[p]) <=> Rt(k, p) \in Range(routes)
  /\ \A i \in Inst : inst[i].members # {} <=> Rt(inst[i].key, i) \in Range(routes)
  /\ \A r \in Range(routes) : /\ r.payload \in Inst => r.key = inst[r.payload].key
                              /\ r.payload \in Proxy => ~InGroup(r.payload)

\* The inductive invariant.
IInv == TypeOK /\ UniqueKeys(routes) /\ Objects /\ Members /\ Owners

-----------------------------------------------------------------------------
\* A proxy registers keys that have a domain.
LEMMA KeyFacts ==
  /\ \A k \in Keys : k.domain \in Seq(STRING) /\ k.domain # <<>> /\ k.location \in Seq(Nat)
  /\ NoKey \notin Keys
<1>1. \A k \in Keys : k.domain \in Seq(STRING) /\ k.domain # <<>> /\ k.location \in Seq(Nat)
  BY ProxyAssumption DEF Keys
<1>2. NoKey.domain = <<>>
  BY DEF NoKey, Key
<1> QED BY <1>1, <1>2

LEMMA NextKeyFacts ==
  ASSUME TypeOK, NEW p \in Proxy, Running(p)
  PROVE  NextKey(p) \in Keys
<1> DEFINE c == ProxyConf[p].routes
           n == Len(closeFuncs[p]) + 1
<1>1. c \in Seq(Range(c)) /\ closeFuncs[p] \in Seq(Keys)
  BY ProxyAssumption DEF TypeOK
<1>2. Len(c) \in Nat /\ Len(closeFuncs[p]) \in Nat /\ Len(closeFuncs[p]) < Len(c)
  BY <1>1, LenProperties DEF Running
<1>3. n \in 1..Len(c)
  BY <1>2
<1>4. c[n] \in Range(c)
  BY <1>1, <1>3, ElementOfSeq
<1>5. Range(c) \subseteq Keys
  BY DEF Keys
<1> QED BY <1>4, <1>5 DEF NextKey

\* The objects of groups, and the routes.
LEMMA InstFacts ==
  /\ NoInst \notin Inst
  /\ \A i \in Inst : i[1] \in Group /\ i[2] \in 1..MaxInst /\ i = <<i[1], i[2]>>
  /\ \A p \in Proxy : InGroup(p) => ProxyConf[p].group \in Group
  /\ \A p \in Proxy : p \notin Inst
<1>1. "" \notin Group
  BY DEF Group
<1>2. NoInst \notin Inst
  BY <1>1 DEF NoInst, Inst
<1>3. \A i \in Inst : i[1] \in Group /\ i[2] \in 1..MaxInst /\ i = <<i[1], i[2]>>
  BY DEF Inst
<1>4. \A p \in Proxy : InGroup(p) => ProxyConf[p].group \in Group
  BY DEF InGroup, Group
<1>5. \A p \in Proxy : p \notin Inst
  BY ProxyAssumption
<1> QED BY <1>2, <1>3, <1>4, <1>5

LEMMA RtFacts ==
  /\ \A k, o : Rt(k, o).key = k /\ Rt(k, o).payload = o
  /\ \A k \in Keys : \A o \in Proxy \union Inst : Rt(k, o) \in Route
  /\ \A r \in Route : r.key \in Keys /\ r.payload \in Proxy \union Inst /\ r = Rt(r.key, r.payload)
BY DEF Rt, Route

LEMMA RangeFacts ==
  ASSUME TypeOK, UniqueKeys(routes)
  PROVE  /\ Range(routes) \subseteq Route
         /\ \A r, s \in Range(routes) : r.key = s.key => r = s
         /\ \A k : Exist(routes, k) <=> \E r \in Range(routes) : r.key = k
<1>1. DOMAIN routes = 1..Len(routes)
  BY LenProperties DEF TypeOK
<1>2. \A i \in DOMAIN routes : routes[i] \in Route
  BY <1>1, ElementOfSeq DEF TypeOK
<1>3. Range(routes) \subseteq Route
  BY <1>2 DEF Range
<1>4. \A r, s \in Range(routes) : r.key = s.key => r = s
  BY DEF Range, UniqueKeys
<1>5. \A k : Exist(routes, k) <=> \E r \in Range(routes) : r.key = k
  BY DEF Range, Exist
<1> QED BY <1>3, <1>4, <1>5

\* The closeFuncs of a proxy after one more and after one less registration.
LEMMA OneMore ==
  ASSUME NEW S, NEW s \in Seq(S), NEW e \in S
  PROVE  /\ Append(s, e) \in Seq(S) /\ Append(s, e) # <<>>
         /\ Range(Append(s, e)) = Range(s) \union {e}
         /\ (\A m, n \in DOMAIN s : s[m] = s[n] => m = n) /\ e \notin Range(s) =>
              \A m, n \in DOMAIN Append(s, e) : Append(s, e)[m] = Append(s, e)[n] => m = n
<1> DEFINE u == Append(s, e)
<1>1. /\ u \in Seq(S) /\ u # <<>> /\ Len(u) = Len(s) + 1
      /\ \A i \in 1..Len(s) : u[i] = s[i]
      /\ u[Len(s) + 1] = e
  BY AppendProperties
<1> HIDE DEF u
<1>2. Len(s) \in Nat /\ DOMAIN s = 1..Len(s) /\ DOMAIN u = 1..(Len(s) + 1)
  BY <1>1, LenProperties
<1>3. \A i \in DOMAIN u : i = Len(s) + 1 \/ i \in DOMAIN s
  BY <1>2
<1>4. Len(s) + 1 \in DOMAIN u /\ \A i \in DOMAIN s : i \in DOMAIN u
  BY <1>2
<1>5. Range(u) = Range(s) \union {e}
  BY <1>1, <1>2, <1>3, <1>4 DEF Range
<1>6. ASSUME \A m, n \in DOMAIN s : s[m] = s[n] => m = n, e \notin Range(s),
             NEW m \in DOMAIN u, NEW n \in DOMAIN u, u[m] = u[n]
      PROVE  m = n
  <2>1. \A i \in DOMAIN s : u[i] = s[i] /\ s[i] # e
    BY <1>1, <1>2, <1>6 DEF Range
  <2> QED BY <2>1, <1>1, <1>3, <1>6
<1> QED BY <1>1, <1>5, <1>6 DEF u

LEMMA OneLess ==
  ASSUME NEW S, NEW s \in Seq(S), s # <<>>
  PROVE  /\ Head(s) \in S /\ Head(s) \in Range(s) /\ Tail(s) \in Seq(S)
         /\ (\A m, n \in DOMAIN s : s[m] = s[n] => m = n) =>
              /\ Range(Tail(s)) = Range(s) \ {Head(s)}
              /\ \A m, n \in DOMAIN Tail(s) : Tail(s)[m] = Tail(s)[n] => m = n
<1> DEFINE u == Tail(s)
<1>1. /\ u \in Seq(S) /\ Len(u) = Len(s) - 1 /\ Head(s) \in S
      /\ \A i \in 1..Len(u) : u[i] = s[i + 1]
  BY HeadTailProperties
<1>2. Len(s) \in Nat \ {0} /\ DOMAIN s = 1..Len(s)
  BY EmptySeq, LenProperties
<1>3. Head(s) = s[1]
  OBVIOUS
<1> HIDE DEF u
<1>4. DOMAIN u = 1..(Len(s) - 1)
  BY <1>1, <1>2, LenProperties
<1>5. Head(s) \in Range(s)
  BY <1>2, <1>3 DEF Range
<1>6. ASSUME \A m, n \in DOMAIN s : s[m] = s[n] => m = n
      PROVE  /\ Range(u) = Range(s) \ {Head(s)}
             /\ \A m, n \in DOMAIN u : u[m] = u[n] => m = n
  <2>1. \A i \in DOMAIN u : i + 1 \in DOMAIN s /\ i + 1 # 1 /\ u[i] = s[i + 1]
    BY <1>1, <1>2, <1>4
  <2>2. \A i \in DOMAIN s : i # 1 => i - 1 \in DOMAIN u /\ u[i - 1] = s[i]
    <3> TAKE i \in DOMAIN s
    <3> HAVE i # 1
    <3>1. i - 1 \in 1..Len(u) /\ (i - 1) + 1 = i
      BY <1>1, <1>2
    <3> QED BY <3>1, <1>1, <1>2, <1>4
  <2>3. 1 \in DOMAIN s
    BY <1>2
  <2>4. \A i \in DOMAIN u : u[i] \in Range(s) /\ u[i] # s[1]
    BY <2>1, <2>3, <1>6 DEF Range
  <2>5. \A i \in DOMAIN s : s[i] # s[1] => s[i] \in Range(u)
    BY <2>2 DEF Range
  <2>6. Range(u) = Range(s) \ {s[1]}
    BY <2>4, <2>5 DEF Range
  <2>7. ASSUME NEW m \in DOMAIN u, NEW n \in DOMAIN u, u[m] = u[n] PROVE m = n
    <3>1. m + 1 = n + 1
      BY <2>1, <2>7, <1>6
    <3> QED BY <3>1, <1>2, <1>4
  <2> QED BY <2>6, <2>7, <1>3
<1> QED BY <1>1, <1>5, <1>6 DEF u

-----------------------------------------------------------------------------
LEMMA InitIInv == Init => IInv
<1> SUFFICES ASSUME Init PROVE IInv
  OBVIOUS
<1>1. routes = <<>> /\ DOMAIN routes = {} /\ Range(routes) = {}
  BY DEF Init, NoRoutes, Range
<1>2. FreeInst.members = {} /\ FreeInst.key = NoKey /\ FreeInst.groupKey = ""
      /\ FreeInst \in [members : SUBSET Proxy, key : Keys \union {NoKey},
                       groupKey : GroupKeys \union {""}]
  BY DEF FreeInst, NoKey
<1>3. TypeOK
  <2>1. routes \in Seq(Route)
    BY <1>1
  <2>2. inst \in [Inst -> [members : SUBSET Proxy, key : Keys \union {NoKey},
                           groupKey : GroupKeys \union {""}]]
    BY <1>2 DEF Init
  <2>3. phase \in [Proxy -> {"never", "off", "run", "up", "close"}]
    BY DEF Init
  <2>4. closeFuncs \in [Proxy -> Seq(Keys)]
    BY DEF Init
  <2>5. groups \in [Group -> Inst \union {NoInst}] /\ made \in [Group -> Nat]
        /\ found \in [Proxy -> Inst \union {NoInst}]
        /\ request = [q \in Request |-> request[q]]
    BY DEF Init
  <2> QED BY <2>1, <2>2, <2>3, <2>4, <2>5 DEF TypeOK
<1>4. UniqueKeys(routes)
  BY <1>1 DEF UniqueKeys
<1>5. Objects
  BY <1>2 DEF Init, Objects
<1>6. Members
  BY <1>2 DEF Init, Members
<1>7. Owners
  <2>1. \A p \in Proxy : closeFuncs[p] = <<>> /\ DOMAIN closeFuncs[p] = {}
    BY DEF Init
  <2>2. \A p \in Proxy : Range(closeFuncs[p]) = {}
    BY <2>1 DEF Range
  <2>3. \A i \in Inst : inst[i].members = {}
    BY <1>2 DEF Init
  <2> QED BY <1>1, <2>1, <2>2, <2>3 DEF Owners
<1> QED BY <1>3, <1>4, <1>5, <1>6, <1>7 DEF IInv

\* Steps that touch neither the table, the groups nor a registration.
LEMMA QuietIInv ==
  ASSUME IInv, UNCHANGED <<routes, grpVars, closeFuncs, found>>,
         phase' \in [Proxy -> {"never", "off", "run", "up", "close"}],
         request' = [q \in Request |-> request'[q]]
  PROVE  IInv'
<1>0. /\ routes' = routes /\ groups' = groups /\ inst' = inst /\ made' = made
      /\ closeFuncs' = closeFuncs /\ found' = found
  BY DEF grpVars
<1>1. TypeOK'
  BY <1>0 DEF IInv, TypeOK
<1>2. UniqueKeys(routes')
  BY <1>0 DEF IInv
<1>3. Objects'
  BY <1>0 DEF IInv, Objects, InGroup
<1>4. Members'
  BY <1>0 DEF IInv, Members
<1>5. Owners'
  BY <1>0 DEF IInv, Owners, InGroup
<1> QED BY <1>1, <1>2, <1>3, <1>4, <1>5 DEF IInv, UniqueKeys

LEMMA RegisterIInv ==
  ASSUME IInv, NEW p \in Proxy, Register(p)
  PROVE  IInv'
<1> DEFINE k == NextKey(p)
<1>0. TypeOK /\ UniqueKeys(routes) /\ Running(p) /\ ~InGroup(p)
      /\ UNCHANGED <<grpVars, found, request>>
  BY DEF IInv, Register
<1>1. CASE Exist(routes, k) /\ RunFails(p)
  BY <1>0, <1>1, QuietIInv DEF RunFails, TypeOK, grpVars
<1>2. CASE ~Exist(routes, k) /\ routes' = Add(routes, k, p) /\ Registered(p)
  <2>0. k \in Keys /\ Rt(k, p) \in Route
    BY <1>0, NextKeyFacts, RtFacts
  <2>1. UNCHANGED phase /\ closeFuncs' = [closeFuncs EXCEPT ![p] = Append(@, k)]
    BY <1>2 DEF Registered
  <2> HIDE DEF k
  <2>2. /\ routes' \in Seq(Route) /\ UniqueKeys(routes')
        /\ Range(routes') = Range(routes) \union {Rt(k, p)}
    <3>1. routes \in Seq(Route) /\ [key |-> k, payload |-> p] = Rt(k, p)
      BY <1>0 DEF TypeOK, Rt
    <3>2. [key |-> k, payload |-> p] \in Route
      BY <3>1, <2>0
    <3>3. /\ Add(routes, k, p) \in Seq(Route) /\ UniqueKeys(Add(routes, k, p))
          /\ Range(Add(routes, k, p)) = Range(routes) \union {[key |-> k, payload |-> p]}
      BY <1>0, <1>2, <3>1, <3>2, AddRoute
    <3> QED BY <1>2, <3>1, <3>3
  <2>3. /\ closeFuncs[p] \in Seq(Keys)
        /\ \A o \in Proxy : closeFuncs'[o] = IF o = p THEN Append(closeFuncs[p], k) ELSE closeFuncs[o]
    BY <1>0, <2>1 DEF TypeOK
  <2>4. \A r \in Range(routes) : r.key # k
    BY <1>0, <1>2, RangeFacts
  <2>5. k \notin Range(closeFuncs[p])
    <3>1. Rt(k, p) \notin Range(routes)
      BY <2>4, RtFacts
    <3> QED BY <3>1, <2>0, <1>0 DEF IInv, Owners
  <2>6. \A m, n \in DOMAIN closeFuncs[p] : closeFuncs[p][m] = closeFuncs[p][n] => m = n
    BY <1>0 DEF IInv, Owners
  <2>7. /\ Append(closeFuncs[p], k) \in Seq(Keys) /\ Append(closeFuncs[p], k) # <<>>
        /\ Range(Append(closeFuncs[p], k)) = Range(closeFuncs[p]) \union {k}
        /\ \A m, n \in DOMAIN Append(closeFuncs[p], k) :
             Append(closeFuncs[p], k)[m] = Append(closeFuncs[p], k)[n] => m = n
    BY <2>0, <2>3, <2>5, <2>6, OneMore
  <2>8. TypeOK'
    BY <1>0, <2>1, <2>2, <2>3, <2>7 DEF TypeOK, grpVars
  <2>9. Objects'
    BY <1>0, <2>1 DEF IInv, Objects, grpVars, InGroup
  <2>10. Members'
    BY <1>0, <2>3, <2>7, ZenonT(60) DEF IInv, TypeOK, Members, grpVars
  <2>11. Owners'
    <3>1. ASSUME NEW o \in Proxy, ~InGroup(o)
          PROVE  /\ \A m, n \in DOMAIN closeFuncs'[o] : closeFuncs'[o][m] = closeFuncs'[o][n] => m = n
                 /\ \A l \in Keys : l \in Range(closeFuncs'[o]) <=> Rt(l, o) \in Range(routes')
      <4>1. CASE o = p
        <5>1. \A l \in Keys : l \in Range(closeFuncs[p]) <=> Rt(l, p) \in Range(routes)
          BY <1>0 DEF IInv, Owners
        <5>2. \A l : Rt(l, p) = Rt(k, p) <=> l = k
          BY RtFacts
        <5> QED BY <4>1, <5>1, <5>2, <2>2, <2>3, <2>7, ZenonT(60)
      <4>2. CASE o # p
        <5>1. /\ \A m, n \in DOMAIN closeFuncs[o] : closeFuncs[o][m] = closeFuncs[o][n] => m = n
              /\ \A l \in Keys : l \in Range(closeFuncs[o]) <=> Rt(l, o) \in Range(routes)
          BY <3>1 DEF IInv, Owners
        <5>2. \A l : Rt(l, o) # Rt(k, p)
          BY <4>2, RtFacts
        <5> QED BY <4>2, <5>1, <5>2, <2>2, <2>3
      <4> QED BY <4>1, <4>2
    <3>2. \A i \in Inst : inst'[i].members # {} <=> Rt(inst'[i].key, i) \in Range(routes')
      <4>1. \A i \in Inst : \A l : Rt(l, i) # Rt(k, p)
        BY RtFacts, InstFacts
      <4>2. \A i \in Inst : inst[i].members # {} <=> Rt(inst[i].key, i) \in Range(routes)
        BY DEF IInv, Owners
      <4> QED BY <4>1, <4>2, <1>0, <2>2 DEF grpVars
    <3>3. \A r \in Range(routes') : /\ r.payload \in Inst => r.key = inst'[r.payload].key
                                    /\ r.payload \in Proxy => ~InGroup(r.payload)
      <4>1. Rt(k, p).payload \notin Inst /\ Rt(k, p).payload = p
        BY RtFacts, InstFacts
      <4>2. \A r \in Range(routes) : /\ r.payload \in Inst => r.key = inst[r.payload].key
                                     /\ r.payload \in Proxy => ~InGroup(r.payload)
        BY DEF IInv, Owners
      <4> QED BY <4>1, <4>2, <1>0, <2>2 DEF grpVars
    <3> QED BY <3>1, <3>2, <3>3 DEF Owners, InGroup
  <2> QED BY <2>2, <2>8, <2>9, <2>10, <2>11 DEF IInv, UniqueKeys
<1> QED BY <1>1, <1>2 DEF Register

LEMMA FindGroupIInv ==
  ASSUME IInv, NEW p \in Proxy, FindGroup(p)
  PROVE  IInv'
<1> DEFINE g == ProxyConf[p].group
<1>0. /\ TypeOK /\ Objects /\ Members /\ Owners /\ UniqueKeys(routes) /\ g \in Group /\ InGroup(p)
      /\ routes' = routes /\ phase' = phase /\ closeFuncs' = closeFuncs /\ request' = request
  BY InstFacts DEF IInv, FindGroup
<1>1. CASE groups[g] # NoInst /\ found' = [found EXCEPT ![p] = groups[g]] /\ UNCHANGED grpVars
  <2>0. groups' = groups /\ inst' = inst /\ made' = made
    BY <1>1 DEF grpVars
  <2>1. TypeOK'
    BY <1>0, <1>1, <2>0 DEF TypeOK
  <2>2. Objects'
    BY <1>0, <1>1, <2>0 DEF TypeOK, Objects, InGroup
  <2>3. Members'
    BY <1>0, <2>0 DEF Members
  <2>4. Owners'
    BY <1>0, <2>0 DEF Owners, InGroup
  <2> QED BY <1>0, <2>1, <2>2, <2>3, <2>4 DEF IInv, UniqueKeys
<1>2. CASE /\ groups[g] = NoInst /\ made[g] < MaxInst
           /\ made' = [made EXCEPT ![g] = @ + 1]
           /\ groups' = [groups EXCEPT ![g] = <<g, made'[g]>>]
           /\ found' = [found EXCEPT ![p] = <<g, made'[g]>>]
           /\ inst' = inst
  <2> DEFINE i == <<g, made[g] + 1>>
  <2>1. made[g] \in Nat /\ made'[g] = made[g] + 1
    BY <1>0, <1>2 DEF TypeOK
  <2>2. i \in Inst /\ i[1] = g /\ i[2] = made[g] + 1
    BY <1>0, <1>2, <2>1, ProxyAssumption DEF Inst
  <2>3. /\ groups' = [groups EXCEPT ![g] = i] /\ found' = [found EXCEPT ![p] = i]
    BY <1>2, <2>1
  <2>a. ProxyConf[p].group = g
    OBVIOUS
  <2> HIDE DEF i, g
  <2>b. /\ \A h \in Group : made'[h] = IF h = g THEN made[g] + 1 ELSE made[h]
        /\ \A h \in Group : groups'[h] = IF h = g THEN i ELSE groups[h]
        /\ \A o \in Proxy : found'[o] = IF o = p THEN i ELSE found[o]
    BY <1>0, <1>2, <2>3 DEF TypeOK
  <2>4. inst[i].members = {} /\ inst[i].key = NoKey
    <3>1. i[2] > made[i[1]]
      BY <2>1, <2>2
    <3> QED BY <3>1, <1>0, <2>2 DEF Objects
  <2>5. TypeOK'
    <3>1. made' \in [Group -> Nat]
      <4>1. made \in [Group -> Nat]
        BY <1>0 DEF TypeOK
      <4>2. made' = [made EXCEPT ![g] = made[g] + 1]
        BY <1>2, Zenon
      <4>3. made[g] + 1 \in Nat
        BY <2>1
      <4> QED BY <4>1, <4>2, <4>3
    <3>2. groups' \in [Group -> Inst \union {NoInst}] /\ found' \in [Proxy -> Inst \union {NoInst}]
      BY <1>0, <2>2, <2>3 DEF TypeOK
    <3> QED BY <1>0, <1>2, <3>1, <3>2 DEF TypeOK
  <2>6. Objects'
    <3>0. \A h \in Group : made[h] \in Nat
      BY <1>0 DEF TypeOK
    <3>1. \A h \in Group : made[h] \in Nat /\ made[h] <= made'[h] /\ made'[h] \in Nat
      BY <1>0, <2>b, <3>0
    <3>2. \A o \in Proxy : found'[o] # NoInst =>
            /\ InGroup(o) /\ found'[o][1] = ProxyConf[o].group
            /\ found'[o][2] <= made'[ProxyConf[o].group]
      <4> TAKE o \in Proxy
      <4> HAVE found'[o] # NoInst
      <4>1. CASE o = p
        BY <4>1, <1>0, <2>a, <2>b, <2>1, <2>2
      <4>2. CASE o # p
        <5>1. found'[o] = found[o] /\ found[o] \in Inst
          BY <4>2, <1>0, <2>3 DEF TypeOK
        <5>2. /\ InGroup(o) /\ found[o][1] = ProxyConf[o].group
              /\ found[o][2] <= made[ProxyConf[o].group]
          BY <5>1, <1>0 DEF Objects
        <5>3. ProxyConf[o].group \in Group /\ found[o][2] \in Int
          BY <5>1, <5>2, InstFacts
        <5> QED BY <5>1, <5>2, <5>3, <3>1
      <4> QED BY <4>1, <4>2
    <3>3. \A h \in Group : groups'[h] # NoInst => groups'[h][1] = h /\ groups'[h][2] <= made'[h]
      <4> TAKE h \in Group
      <4> HAVE groups'[h] # NoInst
      <4>1. CASE h = g
        BY <4>1, <1>0, <2>b, <2>1, <2>2
      <4>2. CASE h # g
        BY <4>2, <1>0, <2>b DEF Objects
      <4> QED BY <4>1, <4>2
    <3>4. \A j \in Inst : j[2] > made'[j[1]] => inst[j].members = {} /\ inst[j].key = NoKey
      <4> TAKE j \in Inst
      <4> HAVE j[2] > made'[j[1]]
      <4>1. j[1] \in Group /\ j[2] \in Int
        BY InstFacts
      <4>2. j[2] > made[j[1]]
        BY <4>1, <3>1
      <4> QED BY <4>2, <1>0 DEF Objects
    <3> QED BY <3>2, <3>3, <3>4, <1>2 DEF Objects, InGroup
  <2>7. Members'
    BY <1>0, <1>2, <2>b, <2>4 DEF Members
  <2>8. Owners'
    BY <1>0, <1>2 DEF Owners, InGroup
  <2> QED BY <1>0, <2>5, <2>6, <2>7, <2>8 DEF IInv, UniqueKeys
<1> QED BY <1>1, <1>2 DEF FindGroup

LEMMA UnRegisterIInv ==
  ASSUME IInv, NEW p \in Proxy, UnRegister(p)
  PROVE  IInv'
<1> DEFINE k == Head(closeFuncs[p])
<1>0. /\ TypeOK /\ Objects /\ Members /\ Owners /\ UniqueKeys(routes) /\ ~InGroup(p)
      /\ groups' = groups /\ inst' = inst /\ made' = made
      /\ phase' = phase /\ found' = found /\ request' = request
      /\ routes' = Del(routes, k) /\ closeFuncs' = [closeFuncs EXCEPT ![p] = Tail(@)]
      /\ closeFuncs[p] # <<>>
  BY DEF IInv, UnRegister, grpVars
<1>1. /\ closeFuncs[p] \in Seq(Keys)
      /\ \A o \in Proxy : closeFuncs'[o] = IF o = p THEN Tail(closeFuncs[p]) ELSE closeFuncs[o]
  BY <1>0 DEF TypeOK
<1>2. \A m, n \in DOMAIN closeFuncs[p] : closeFuncs[p][m] = closeFuncs[p][n] => m = n
  BY <1>0 DEF Owners
<1>3. /\ k \in Keys /\ k \in Range(closeFuncs[p]) /\ Tail(closeFuncs[p]) \in Seq(Keys)
      /\ Range(Tail(closeFuncs[p])) = Range(closeFuncs[p]) \ {k}
      /\ \A m, n \in DOMAIN Tail(closeFuncs[p]) :
           Tail(closeFuncs[p])[m] = Tail(closeFuncs[p])[n] => m = n
  BY <1>0, <1>1, <1>2, OneLess
<1> HIDE DEF k
<1>4. Rt(k, p) \in Range(routes)
  BY <1>0, <1>3 DEF Owners
<1>5. /\ routes' \in Seq(Route) /\ UniqueKeys(routes')
      /\ Range(routes') = {r \in Range(routes) : r.key # k}
  <2>1. routes \in Seq(Route)
    BY <1>0 DEF TypeOK
  <2>2. /\ Del(routes, k) \in Seq(Route) /\ UniqueKeys(Del(routes, k))
        /\ Range(Del(routes, k)) = {r \in Range(routes) : r.key # k}
    BY <1>0, <2>1, DelRoute
  <2> QED BY <1>0, <2>2
<1>6. Range(routes') = Range(routes) \ {Rt(k, p)}
  <2>1. \A r \in Range(routes) : r.key = k <=> r = Rt(k, p)
    BY <1>0, <1>4, RangeFacts, RtFacts
  <2> QED BY <1>5, <2>1
<1>7. TypeOK'
  BY <1>0, <1>1, <1>3, <1>5 DEF TypeOK
<1>8. Objects'
  BY <1>0 DEF Objects, InGroup
<1>9. Members'
  <2>1. \A h \in Group : groups[h] # NoInst => p \notin inst[groups[h]].members
    <3> SUFFICES ASSUME NEW h \in Group, groups[h] # NoInst, p \in inst[groups[h]].members
                 PROVE  FALSE
      OBVIOUS
    <3>1. groups[h] \in Inst /\ groups[h][1] \in Group
      BY <1>0, InstFacts DEF TypeOK
    <3>2. ProxyConf[p].group \in Group
      BY <3>1, <1>0 DEF Members
    <3> QED BY <3>2, <1>0 DEF InGroup, Group
  <2>2. \A i \in Inst : inst[i].members \subseteq Proxy
    BY <1>0 DEF TypeOK
  <2>3. \A h \in Group : groups[h] # NoInst => groups[h] \in Inst
    BY <1>0 DEF TypeOK
  <2> QED BY <1>0, <1>1, <2>1, <2>2, <2>3 DEF Members
<1>10. Owners'
  <2>1. ASSUME NEW o \in Proxy, ~InGroup(o)
        PROVE  /\ \A m, n \in DOMAIN closeFuncs'[o] : closeFuncs'[o][m] = closeFuncs'[o][n] => m = n
               /\ \A l \in Keys : l \in Range(closeFuncs'[o]) <=> Rt(l, o) \in Range(routes')
    <3>1. /\ \A m, n \in DOMAIN closeFuncs[o] : closeFuncs[o][m] = closeFuncs[o][n] => m = n
          /\ \A l \in Keys : l \in Range(closeFuncs[o]) <=> Rt(l, o) \in Range(routes)
      BY <2>1, <1>0 DEF Owners
    <3>2. \A l : Rt(l, o) = Rt(k, p) <=> l = k /\ o = p
      BY RtFacts
    <3>3. CASE o = p
      BY <3>1, <3>2, <3>3, <1>1, <1>3, <1>6, ZenonT(60)
    <3>4. CASE o # p
      BY <3>1, <3>2, <3>4, <1>1, <1>6
    <3> QED BY <3>3, <3>4
  <2>2. \A i \in Inst : inst'[i].members # {} <=> Rt(inst'[i].key, i) \in Range(routes')
    <3>1. \A i \in Inst : \A l : Rt(l, i) # Rt(k, p)
      BY RtFacts, InstFacts
    <3>2. \A i \in Inst : inst[i].members # {} <=> Rt(inst[i].key, i) \in Range(routes)
      BY <1>0 DEF Owners
    <3> QED BY <3>1, <3>2, <1>0, <1>6
  <2>3. \A r \in Range(routes') : /\ r.payload \in Inst => r.key = inst'[r.payload].key
                                  /\ r.payload \in Proxy => ~InGroup(r.payload)
    BY <1>0, <1>5 DEF Owners
  <2> QED BY <2>1, <2>2, <2>3 DEF Owners, InGroup
<1> QED BY <1>5, <1>7, <1>8, <1>9, <1>10 DEF IInv, UniqueKeys

\* A proxy that enters a group takes over its route, or makes it.
LEMMA GroupRegisterIInv ==
  ASSUME IInv, NEW p \in Proxy, GroupRegister(p)
  PROVE  IInv'
<1> DEFINE i == found[p]
           k == NextKey(p)
           gk == ProxyConf[p].groupKey
           e == [members |-> inst[i].members \union {p}, key |-> k, groupKey |-> gk]
<1>0. /\ TypeOK /\ Objects /\ Members /\ Owners /\ UniqueKeys(routes)
      /\ Running(p) /\ i # NoInst /\ found' = [found EXCEPT ![p] = NoInst]
      /\ groups' = groups /\ made' = made /\ request' = request
  BY DEF IInv, GroupRegister
<1>1. /\ i \in Inst /\ InGroup(p) /\ i[1] = ProxyConf[p].group /\ i[2] <= made[i[1]]
      /\ i[1] \in Group /\ i[2] \in Int /\ made[i[1]] \in Nat
  <2>1. i \in Inst
    BY <1>0 DEF TypeOK
  <2>2. InGroup(p) /\ i[1] = ProxyConf[p].group /\ i[2] <= made[i[1]]
    BY <1>0 DEF Objects
  <2>3. i[1] \in Group /\ i[2] \in Int
    BY <2>1, InstFacts
  <2> QED BY <2>1, <2>2, <2>3, <1>0 DEF TypeOK
<1>2. k \in Keys /\ gk \in GroupKeys
  BY <1>0, NextKeyFacts DEF GroupKeys
<1>3. \A o \in Proxy : found'[o] = IF o = p THEN NoInst ELSE found[o]
  BY <1>0 DEF TypeOK
<1>4. CASE RunFails(p) /\ inst' = inst
  <2>0. routes' = routes /\ closeFuncs' = closeFuncs /\ phase' = [phase EXCEPT ![p] = "close"]
    BY <1>4 DEF RunFails
  <2>1. TypeOK'
    BY <1>0, <1>4, <2>0 DEF TypeOK
  <2>2. Objects'
    BY <1>0, <1>3, <1>4, ZenonT(60) DEF Objects, InGroup
  <2>3. Members' /\ UniqueKeys(routes')
    BY <1>0, <1>4, <2>0 DEF Members
  <2>4. Owners'
    BY <1>0, <1>4, <2>0 DEF Owners, InGroup
  <2> QED BY <2>1, <2>2, <2>3, <2>4 DEF IInv, UniqueKeys
<1>5. CASE /\ inst[i].members = {} => ~Exist(routes, k)
           /\ inst[i].members # {} => inst[i].key = k
           /\ inst' = [inst EXCEPT ![i] = e]
           /\ routes' = IF inst[i].members = {} THEN Add(routes, k, i) ELSE routes
           /\ Registered(p)
  <2>1. phase' = phase /\ closeFuncs' = [closeFuncs EXCEPT ![p] = Append(@, k)]
    BY <1>5 DEF Registered
  <2>2. /\ e.members = inst[i].members \union {p} /\ e.key = k /\ e.members # {}
        /\ e \in [members : SUBSET Proxy, key : Keys \union {NoKey}, groupKey : GroupKeys \union {""}]
    BY <1>0, <1>1, <1>2 DEF TypeOK
  <2> HIDE DEF i, k, gk, e
  <2>3. /\ \A j \in Inst : inst'[j] = IF j = i THEN e ELSE inst[j]
        /\ \A o \in Proxy : closeFuncs'[o] = IF o = p THEN Append(closeFuncs[p], k) ELSE closeFuncs[o]
    BY <1>0, <1>5, <2>1 DEF TypeOK
  <2>4. Append(closeFuncs[p], k) \in Seq(Keys) /\ Append(closeFuncs[p], k) # <<>>
    BY <1>0, <1>2, OneMore DEF TypeOK
  <2>5. \A r \in Range(routes) : r \in Route /\ (r.payload = i => r = Rt(inst[i].key, i))
    BY <1>0, <1>1, RangeFacts, RtFacts DEF Owners
  <2>6. inst[i].members # {} <=> Rt(inst[i].key, i) \in Range(routes)
    BY <1>0, <1>1 DEF Owners
  <2>7. /\ routes' \in Seq(Route) /\ UniqueKeys(routes')
        /\ Range(routes') = Range(routes) \union {Rt(k, i)}
    <3>1. CASE inst[i].members = {}
      <4>1. routes \in Seq(Route) /\ [key |-> k, payload |-> i] = Rt(k, i)
        BY <1>0 DEF TypeOK, Rt
      <4>2. [key |-> k, payload |-> i] \in Route
        BY <4>1, <1>1, <1>2, RtFacts
      <4>3. /\ Add(routes, k, i) \in Seq(Route) /\ UniqueKeys(Add(routes, k, i))
            /\ Range(Add(routes, k, i)) = Range(routes) \union {[key |-> k, payload |-> i]}
        BY <1>0, <1>5, <3>1, <4>1, <4>2, AddRoute
      <4> QED BY <1>5, <3>1, <4>1, <4>3
    <3>2. CASE inst[i].members # {}
      <4>1. routes' = routes /\ Rt(k, i) \in Range(routes)
        BY <1>5, <3>2, <2>6
      <4> QED BY <4>1, <1>0 DEF TypeOK
    <3> QED BY <3>1, <3>2
  <2>8. TypeOK'
    <3>1. closeFuncs' \in [Proxy -> Seq(Keys)]
      BY <1>0, <2>1, <2>4 DEF TypeOK
    <3>2. inst' \in [Inst -> [members : SUBSET Proxy, key : Keys \union {NoKey},
                              groupKey : GroupKeys \union {""}]]
      BY <1>0, <1>5, <2>2 DEF TypeOK
    <3> QED BY <1>0, <2>1, <2>7, <3>1, <3>2 DEF TypeOK
  <2>9. Objects'
    <3>1. \A j \in Inst : j[2] > made'[j[1]] => inst'[j].members = {} /\ inst'[j].key = NoKey
      <4> TAKE j \in Inst
      <4> HAVE j[2] > made'[j[1]]
      <4>1. j # i
        BY <1>0, <1>1
      <4> QED BY <4>1, <1>0, <2>3 DEF Objects
    <3>2. \A o \in Proxy : found'[o] # NoInst =>
            /\ InGroup(o) /\ found'[o][1] = ProxyConf[o].group
            /\ found'[o][2] <= made'[ProxyConf[o].group]
      BY <1>0, <1>3 DEF Objects
    <3>3. \A g \in Group : groups'[g] # NoInst => groups'[g][1] = g /\ groups'[g][2] <= made'[g]
      BY <1>0 DEF Objects
    <3> QED BY <3>1, <3>2, <3>3 DEF Objects, InGroup
  <2>10. Members'
    <3>1. \A j \in Inst : \A o \in inst'[j].members : ProxyConf[o].group = j[1]
      <4>1. \A j \in Inst : \A o \in inst[j].members : ProxyConf[o].group = j[1]
        BY <1>0 DEF Members
      <4>2. i[1] = ProxyConf[p].group /\ i \in Inst
        BY <1>1
      <4>3. ASSUME NEW j \in Inst, NEW o \in inst'[j].members PROVE ProxyConf[o].group = j[1]
        <5>1. CASE j = i
          <6>1. o = p \/ o \in inst[i].members
            BY <5>1, <2>2, <2>3
          <6> QED BY <6>1, <5>1, <4>1, <4>2
        <5>2. CASE j # i
          BY <5>2, <4>1, <2>3
        <5> QED BY <5>1, <5>2
      <4> QED BY <4>3
    <3>2. ASSUME NEW g \in Group, groups[g] # NoInst
          PROVE  /\ \A o \in inst'[groups[g]].members : closeFuncs'[o] # <<>>
                 /\ inst'[groups[g]].members = {} => inst'[groups[g]].key = NoKey
      <4>1. groups[g] \in Inst /\ inst[groups[g]].members \subseteq Proxy
        BY <3>2, <1>0 DEF TypeOK
      <4>2. /\ \A o \in inst[groups[g]].members : closeFuncs[o] # <<>>
            /\ inst[groups[g]].members = {} => inst[groups[g]].key = NoKey
        BY <3>2, <1>0 DEF Members
      <4>3. CASE groups[g] = i
        BY <4>1, <4>2, <4>3, <2>2, <2>3, <2>4
      <4>4. CASE groups[g] # i
        BY <4>1, <4>2, <4>4, <2>3, <2>4
      <4> QED BY <4>3, <4>4
    <3> QED BY <3>1, <3>2, <1>0 DEF Members
  <2>11. Owners'
    <3>1. ASSUME NEW o \in Proxy, ~InGroup(o)
          PROVE  /\ \A m, n \in DOMAIN closeFuncs'[o] : closeFuncs'[o][m] = closeFuncs'[o][n] => m = n
                 /\ \A l \in Keys : l \in Range(closeFuncs'[o]) <=> Rt(l, o) \in Range(routes')
      <4>1. /\ \A m, n \in DOMAIN closeFuncs[o] : closeFuncs[o][m] = closeFuncs[o][n] => m = n
            /\ \A l \in Keys : l \in Range(closeFuncs[o]) <=> Rt(l, o) \in Range(routes)
        BY <3>1, <1>0 DEF Owners
      <4>2. \A l : Rt(l, o) # Rt(k, i)
        BY <1>1, RtFacts, InstFacts
      <4>3. closeFuncs'[o] = closeFuncs[o]
        BY <3>1, <1>1, <2>3
      <4> QED BY <4>1, <4>2, <4>3, <2>7
    <3>2. \A j \in Inst : inst'[j].members # {} <=> Rt(inst'[j].key, j) \in Range(routes')
      <4> TAKE j \in Inst
      <4>1. CASE j = i
        BY <4>1, <2>2, <2>3, <2>7
      <4>2. CASE j # i
        <5>1. inst[j].members # {} <=> Rt(inst[j].key, j) \in Range(routes)
          BY <1>0 DEF Owners
        <5>2. \A l : Rt(l, j) # Rt(k, i)
          BY <4>2, RtFacts
        <5> QED BY <4>2, <5>1, <5>2, <2>3, <2>7
      <4> QED BY <4>1, <4>2
    <3>3. \A r \in Range(routes') : /\ r.payload \in Inst => r.key = inst'[r.payload].key
                                    /\ r.payload \in Proxy => ~InGroup(r.payload)
      <4>1. /\ Rt(k, i).payload = i /\ Rt(k, i).key = k /\ i \notin Proxy
        BY <1>1, RtFacts, InstFacts
      <4>2. \A r \in Range(routes) : /\ r.payload \in Inst => r.key = inst[r.payload].key
                                     /\ r.payload \in Proxy => ~InGroup(r.payload)
        BY <1>0 DEF Owners
      <4>3. \A r \in Range(routes) : r.payload = i => r.key = k
        BY <2>5, <2>6, <1>5, RtFacts
      <4> QED BY <4>1, <4>2, <4>3, <2>2, <2>3, <2>7
    <3> QED BY <3>1, <3>2, <3>3 DEF Owners, InGroup
  <2> QED BY <2>7, <2>8, <2>9, <2>10, <2>11 DEF IInv, UniqueKeys
<1> QED BY <1>4, <1>5 DEF GroupRegister

\* A proxy that leaves the object that the controller has now takes out at most the
\* route of that object: an empty one was never entered and has none.
LEMMA GroupUnRegisterIInv ==
  ASSUME IInv, NEW p \in Proxy, GroupUnRegister(p)
  PROVE  IInv'
<1> DEFINE g == ProxyConf[p].group
           i == groups[g]
           left == inst[i].members \ {p}
<1>0. /\ TypeOK /\ Objects /\ Members /\ Owners /\ UniqueKeys(routes)
      /\ closeFuncs[p] # <<>> /\ InGroup(p) /\ closeFuncs' = [closeFuncs EXCEPT ![p] = Tail(@)]
      /\ made' = made /\ phase' = phase /\ found' = found /\ request' = request
  BY DEF IInv, GroupUnRegister
<1>1. g \in Group /\ ProxyConf[p].group = g
  BY <1>0, InstFacts
<1>2. IF i = NoInst THEN routes' = routes /\ groups' = groups /\ inst' = inst
      ELSE /\ inst' = [inst EXCEPT ![i].members = left]
           /\ groups' = [groups EXCEPT ![g] = IF left = {} THEN NoInst ELSE i]
           /\ routes' = IF left = {} THEN Del(routes, inst[i].key) ELSE routes
  BY DEF GroupUnRegister
<1>3. /\ \A o \in Proxy : o # p => closeFuncs'[o] = closeFuncs[o]
      /\ closeFuncs' \in [Proxy -> Seq(Keys)]
  <2>1. closeFuncs \in [Proxy -> Seq(Keys)]
    BY <1>0 DEF TypeOK
  <2>2. Tail(closeFuncs[p]) \in Seq(Keys)
    BY <2>1, <1>0, OneLess
  <2> QED BY <1>0, <2>1, <2>2
<1>4. \A h \in Group : groups[h] # NoInst =>
        /\ groups[h] \in Inst /\ groups[h][1] = h
        /\ inst[groups[h]].members \subseteq Proxy
        /\ h # g => p \notin inst[groups[h]].members
  <2> TAKE h \in Group
  <2> HAVE groups[h] # NoInst
  <2>1. groups[h] \in Inst /\ groups[h][1] = h
    BY <1>0 DEF TypeOK, Objects
  <2>2. inst[groups[h]].members \subseteq Proxy
    BY <2>1, <1>0 DEF TypeOK
  <2>3. \A o \in inst[groups[h]].members : ProxyConf[o].group = h
    BY <2>1, <1>0 DEF Members
  <2> QED BY <2>1, <2>2, <2>3
<1>5. \A o \in Proxy : ~InGroup(o) => o # p
  BY <1>0
<1>6. CASE i = NoInst
  <2>0. routes' = routes /\ groups' = groups /\ inst' = inst
    BY <1>2, <1>6
  <2>1. TypeOK'
    BY <1>0, <1>3, <2>0 DEF TypeOK
  <2>2. Objects'
    BY <1>0, <2>0 DEF Objects, InGroup
  <2>3. Members'
    <3>1. \A h \in Group : groups[h] # NoInst =>
            /\ \A o \in inst[groups[h]].members : closeFuncs[o] # <<>> /\ o \in Proxy /\ o # p
            /\ inst[groups[h]].members = {} => inst[groups[h]].key = NoKey
      BY <1>0, <1>4, <1>6 DEF Members
    <3>2. \A j \in Inst : \A o \in inst[j].members : ProxyConf[o].group = j[1]
      BY <1>0 DEF Members
    <3> QED BY <3>1, <3>2, <1>3, <2>0 DEF Members
  <2>4. Owners'
    <3>1. \A o \in Proxy : ~InGroup(o) => closeFuncs'[o] = closeFuncs[o]
      BY <1>3, <1>5
    <3>2. \A o \in Proxy : ~InGroup(o) =>
            /\ \A m, n \in DOMAIN closeFuncs'[o] : closeFuncs'[o][m] = closeFuncs'[o][n] => m = n
            /\ \A l \in Keys : l \in Range(closeFuncs'[o]) <=> Rt(l, o) \in Range(routes')
      BY <3>1, <1>0, <2>0 DEF Owners
    <3>3. \A j \in Inst : inst'[j].members # {} <=> Rt(inst'[j].key, j) \in Range(routes')
      BY <1>0, <2>0 DEF Owners
    <3>4. \A r \in Range(routes') : /\ r.payload \in Inst => r.key = inst'[r.payload].key
                                    /\ r.payload \in Proxy => ~InGroup(r.payload)
      BY <1>0, <2>0 DEF Owners
    <3> QED BY <3>2, <3>3, <3>4 DEF Owners, InGroup
  <2> QED BY <1>0, <2>0, <2>1, <2>2, <2>3, <2>4 DEF IInv, UniqueKeys
<1>7. CASE i # NoInst
  <2>0. /\ inst' = [inst EXCEPT ![i].members = left]
        /\ groups' = [groups EXCEPT ![g] = IF left = {} THEN NoInst ELSE i]
        /\ routes' = IF left = {} THEN Del(routes, inst[i].key) ELSE routes
    BY <1>2, <1>7
  <2>1. i \in Inst /\ i[1] = g /\ inst[i].members \subseteq Proxy
    BY <1>1, <1>4, <1>7
  <2>2. left = inst[i].members \ {p} /\ i = groups[g]
    OBVIOUS
  <2> HIDE DEF g, i, left
  <2>3. /\ \A j \in Inst : /\ inst'[j].members = IF j = i THEN left ELSE inst[j].members
                           /\ inst'[j].key = inst[j].key
        /\ inst' \in [Inst -> [members : SUBSET Proxy, key : Keys \union {NoKey},
                               groupKey : GroupKeys \union {""}]]
    <3>1. left \in SUBSET Proxy
      BY <2>1, <2>2
    <3> QED BY <3>1, <1>0, <2>0, <2>1, ZenonT(60) DEF TypeOK
  <2>4. \A h \in Group : groups'[h] = IF h = g THEN (IF left = {} THEN NoInst ELSE i) ELSE groups[h]
    BY <1>0, <2>0 DEF TypeOK
  <2>5. \A r \in Range(routes) : r.key = inst[i].key => r = Rt(inst[i].key, i)
    <3> SUFFICES ASSUME NEW r \in Range(routes), r.key = inst[i].key PROVE r = Rt(inst[i].key, i)
      OBVIOUS
    <3>1. r.key \in Keys
      BY <1>0, RangeFacts, RtFacts
    <3>2. inst[i].key # NoKey
      BY <3>1, KeyFacts
    <3>3. inst[i].members # {}
      BY <3>2, <1>0, <1>1, <1>7, <2>2 DEF Members
    <3>4. Rt(inst[i].key, i) \in Range(routes)
      BY <3>3, <1>0, <2>1 DEF Owners
    <3> QED BY <3>4, <1>0, RangeFacts, RtFacts
  <2>6. /\ routes' \in Seq(Route) /\ UniqueKeys(routes')
        /\ Range(routes') = IF left = {} THEN Range(routes) \ {Rt(inst[i].key, i)} ELSE Range(routes)
    <3>1. routes \in Seq(Route)
      BY <1>0 DEF TypeOK
    <3>2. /\ Del(routes, inst[i].key) \in Seq(Route) /\ UniqueKeys(Del(routes, inst[i].key))
          /\ Range(Del(routes, inst[i].key)) = {r \in Range(routes) : r.key # inst[i].key}
      BY <1>0, <3>1, DelRoute
    <3>3. {r \in Range(routes) : r.key # inst[i].key} = Range(routes) \ {Rt(inst[i].key, i)}
      BY <2>5, RtFacts
    <3> QED BY <3>1, <3>2, <3>3, <1>0, <2>0
  <2>7. TypeOK'
    <3>1. groups' \in [Group -> Inst \union {NoInst}]
      BY <1>0, <2>0, <2>1 DEF TypeOK
    <3> QED BY <3>1, <1>0, <1>3, <2>3, <2>6 DEF TypeOK
  <2>8. Objects'
    <3>1. \A j \in Inst : j[2] > made[j[1]] => inst'[j].members = {} /\ inst'[j].key = NoKey
      <4>1. \A j \in Inst : j[2] > made[j[1]] => inst[j].members = {} /\ inst[j].key = NoKey
        BY <1>0 DEF Objects
      <4>2. inst[i].members = {} => left = {}
        BY <2>2
      <4> QED BY <4>1, <4>2, <2>3
    <3>2. \A h \in Group : groups'[h] # NoInst => groups'[h] = groups[h]
      BY <2>2, <2>4
    <3>3. \A h \in Group : groups'[h] # NoInst => groups'[h][1] = h /\ groups'[h][2] <= made[h]
      BY <3>2, <1>0 DEF Objects
    <3> QED BY <3>1, <3>3, <1>0 DEF Objects, InGroup
  <2>9. Members'
    <3>1. \A j \in Inst : \A o \in inst'[j].members : ProxyConf[o].group = j[1]
      <4>1. \A j \in Inst : inst'[j].members \subseteq inst[j].members
        BY <2>2, <2>3
      <4> QED BY <4>1, <1>0 DEF Members
    <3>2. ASSUME NEW h \in Group, groups'[h] # NoInst
          PROVE  /\ \A o \in inst'[groups'[h]].members : closeFuncs'[o] # <<>>
                 /\ inst'[groups'[h]].members = {} => inst'[groups'[h]].key = NoKey
      <4>1. groups'[h] = groups[h] /\ (h = g => left # {})
        BY <3>2, <2>2, <2>4
      <4>2. /\ groups[h] \in Inst /\ groups[h][1] = h /\ inst[groups[h]].members \subseteq Proxy
            /\ h # g => p \notin inst[groups[h]].members
        BY <3>2, <4>1, <1>4 DEF g
      <4>3. /\ \A o \in inst[groups[h]].members : closeFuncs[o] # <<>>
            /\ inst[groups[h]].members = {} => inst[groups[h]].key = NoKey
        BY <3>2, <4>1, <1>0 DEF Members
      <4>4. CASE h = g
        <5>1. groups[h] = i
          BY <4>4, <2>2
        <5> QED BY <5>1, <4>1, <4>2, <4>3, <4>4, <1>3, <2>2, <2>3, ZenonT(60)
      <4>5. CASE h # g
        <5>1. groups[h] # i
          BY <4>2, <4>5, <2>1
        <5> QED BY <5>1, <4>1, <4>2, <4>3, <4>5, <1>3, <2>3
      <4> QED BY <4>4, <4>5
    <3> QED BY <3>1, <3>2 DEF Members
  <2>10. Owners'
    <3>1. ASSUME NEW o \in Proxy, ~InGroup(o)
          PROVE  /\ \A m, n \in DOMAIN closeFuncs'[o] : closeFuncs'[o][m] = closeFuncs'[o][n] => m = n
                 /\ \A l \in Keys : l \in Range(closeFuncs'[o]) <=> Rt(l, o) \in Range(routes')
      <4>1. /\ \A m, n \in DOMAIN closeFuncs[o] : closeFuncs[o][m] = closeFuncs[o][n] => m = n
            /\ \A l \in Keys : l \in Range(closeFuncs[o]) <=> Rt(l, o) \in Range(routes)
        BY <3>1, <1>0 DEF Owners
      <4>2. \A l : Rt(l, o) # Rt(inst[i].key, i)
        BY <2>1, RtFacts, InstFacts
      <4>3. closeFuncs'[o] = closeFuncs[o]
        BY <3>1, <1>3, <1>5
      <4> QED BY <4>1, <4>2, <4>3, <2>6
    <3>2. \A j \in Inst : inst'[j].members # {} <=> Rt(inst'[j].key, j) \in Range(routes')
      <4> TAKE j \in Inst
      <4>1. inst[j].members # {} <=> Rt(inst[j].key, j) \in Range(routes)
        BY <1>0 DEF Owners
      <4>2. CASE j = i
        <5>1. left # {} => inst[i].members # {}
          BY <2>2
        <5> QED BY <4>1, <4>2, <5>1, <2>3, <2>6
      <4>3. CASE j # i
        <5>1. \A l : Rt(l, j) # Rt(inst[i].key, i)
          BY <4>3, RtFacts
        <5> QED BY <4>1, <4>3, <5>1, <2>3, <2>6
      <4> QED BY <4>2, <4>3
    <3>3. \A r \in Range(routes') : /\ r.payload \in Inst => r.key = inst'[r.payload].key
                                    /\ r.payload \in Proxy => ~InGroup(r.payload)
      <4>1. \A r \in Range(routes') : r \in Range(routes)
        BY <2>6
      <4> QED BY <4>1, <1>0, <2>3 DEF Owners
    <3> QED BY <3>1, <3>2, <3>3 DEF Owners, InGroup
  <2> QED BY <2>6, <2>7, <2>8, <2>9, <2>10 DEF IInv, UniqueKeys
<1> QED BY <1>6, <1>7

\* A step of a request changes that request only.
LEMMA RequestIsAt ==
  ASSUME NEW q, RequestStep(q)
  PROVE  \E x : At(q, x)
BY Zenon DEF RequestStep, ServeHTTP, Director, chooseEndpoint, CreateConnection, createConn,
   createConnByEndpoint, GetRealConn

\* Every other step of a proxy or a request changes a phase or a request only.
LEMMA NextIInv == IInv /\ [Next]_vars => IInv'
<1> SUFFICES ASSUME IInv, [Next]_vars PROVE IInv'
  OBVIOUS
<1> USE DEF pxyVars
<1>0. /\ phase \in [Proxy -> {"never", "off", "run", "up", "close"}]
      /\ request = [q \in Request |-> request[q]]
  BY DEF IInv, TypeOK
<1>1. ASSUME NEW p \in Proxy, Run(p) \/ RunEnds(p) \/ Close(p) \/ CloseEnds(p) PROVE IInv'
  <2>1. /\ UNCHANGED <<routes, grpVars, closeFuncs, found>> /\ request' = request
        /\ \E x \in {"off", "run", "up", "close"} : phase' = [phase EXCEPT ![p] = x]
    BY <1>1 DEF Run, RunEnds, Close, CloseEnds
  <2>2. phase' \in [Proxy -> {"never", "off", "run", "up", "close"}]
    BY <2>1, <1>0
  <2> QED BY <2>1, <2>2, <1>0, QuietIInv
<1>2. ASSUME NEW q \in Request, RequestStep(q)
      PROVE  IInv'
  <2>1. /\ UNCHANGED <<routes, grpVars, closeFuncs, found>> /\ phase' = phase
        /\ \E x : request' = [request EXCEPT ![q] = x]
    <3>1. PICK x : At(q, x)
      BY <1>2, RequestIsAt
    <3> QED BY <3>1 DEF At
  <2>2. request' = [r \in Request |-> request'[r]]
    BY <2>1, <1>0
  <2> QED BY <2>1, <2>2, <1>0, QuietIInv
<1>3. CASE UNCHANGED vars
  <2>1. UNCHANGED <<routes, grpVars, closeFuncs, found>> /\ phase' = phase /\ request' = request
    BY <1>3 DEF vars
  <2> QED BY <2>1, <1>0, QuietIInv
<1> QED BY <1>1, <1>2, <1>3, RegisterIInv, FindGroupIInv, GroupRegisterIInv, UnRegisterIInv,
           GroupUnRegisterIInv DEF Next

THEOREM IInvHolds == Spec => []IInv
<1> QED BY InitIInv, NextIInv, PTL DEF Spec

\* The invariant says whose each route is.
LEMMA OwnersAreOwners == IInv => RoutesHaveOwners
<1> SUFFICES ASSUME IInv PROVE RoutesHaveOwners
  OBVIOUS
<1>0. TypeOK /\ UniqueKeys(routes) /\ Owners
  BY DEF IInv
<1>1. Range(routes) \subseteq Route
  BY <1>0, RangeFacts
<1>2. ASSUME NEW p \in Proxy, ~InGroup(p)
      PROVE  {r.key : r \in {r \in Range(routes) : r.payload = p}} = Range(closeFuncs[p])
  <2>1. \A k \in Keys : k \in Range(closeFuncs[p]) <=> Rt(k, p) \in Range(routes)
    BY <1>0, <1>2 DEF Owners
  <2>2. Range(closeFuncs[p]) \subseteq Keys
    <3>1. closeFuncs[p] \in Seq(Keys)
      BY <1>0 DEF TypeOK
    <3>2. DOMAIN closeFuncs[p] = 1..Len(closeFuncs[p])
      BY <3>1, LenProperties
    <3> QED BY <3>1, <3>2, ElementOfSeq DEF Range
  <2>3. ASSUME NEW r \in Range(routes), r.payload = p PROVE r.key \in Range(closeFuncs[p])
    <3>1. r.key \in Keys /\ r = Rt(r.key, p)
      BY <2>3, <1>1, RtFacts
    <3> QED BY <3>1, <2>1
  <2>4. ASSUME NEW k \in Range(closeFuncs[p])
        PROVE  \E r \in Range(routes) : r.payload = p /\ k = r.key
    <3>1. Rt(k, p) \in Range(routes) /\ Rt(k, p).payload = p /\ Rt(k, p).key = k
      BY <2>1, <2>2, RtFacts
    <3> QED BY <3>1
  <2> QED BY <2>3, <2>4
<1>3. \A i \in Inst : inst[i].members # {} <=> [key |-> inst[i].key, payload |-> i] \in Range(routes)
  BY <1>0 DEF Owners, Rt
<1>4. \A r \in Range(routes) : r.payload \in Inst \/ ~InGroup(r.payload)
  BY <1>0, <1>1, RtFacts DEF Owners
<1> QED BY <1>2, <1>3, <1>4 DEF RoutesHaveOwners

\* Nobody deletes a route of another, for any proxies, groups and routes and however
\* their registrations and closings interleave.
THEOREM RoutesAreOwned == Spec => []RoutesHaveOwners
<1> QED BY IInvHolds, OwnersAreOwners, PTL

-----------------------------------------------------------------------------
\* The table stays sorted.
LEMMA NextSorted == IInv /\ Sorted(routes) /\ [Next]_vars => Sorted(routes)'
<1> SUFFICES ASSUME IInv, Sorted(routes), [Next]_vars PROVE Sorted(routes')
  BY DEF Sorted
<1>0. routes \in Seq(Route) /\ UniqueKeys(routes) /\ TypeOK
  BY DEF IInv, TypeOK
<1>1. ASSUME NEW k \in Keys, NEW o \in Proxy \union Inst PROVE Sorted(Add(routes, k, o))
  <2>1. Rt(k, o) \in Route
    BY RtFacts
  <2>2. [key |-> k, payload |-> o] \in Route
    BY <2>1 DEF Rt
  <2>3. \A r \in Route : r.key.location \in Seq(Nat)
    BY RtFacts, KeyFacts
  <2> QED BY <1>0, <2>2, <2>3, AddSorted
<1>2. \A k : Sorted(Del(routes, k))
  BY <1>0, DelRoute
<1>3. ASSUME NEW p \in Proxy, Register(p) PROVE Sorted(routes')
  <2>1. Running(p) /\ (routes' = Add(routes, NextKey(p), p) \/ routes' = routes)
    BY <1>3 DEF Register, RunFails
  <2> QED BY <2>1, <1>0, <1>1, NextKeyFacts
<1>4. ASSUME NEW p \in Proxy, GroupRegister(p) PROVE Sorted(routes')
  <2>1. Running(p) /\ found[p] # NoInst
        /\ (routes' = Add(routes, NextKey(p), found[p]) \/ routes' = routes)
    BY <1>4 DEF GroupRegister, RunFails
  <2>2. found[p] \in Inst
    BY <2>1, <1>0 DEF TypeOK
  <2> QED BY <2>1, <2>2, <1>0, <1>1, NextKeyFacts
<1>5. ASSUME NEW p \in Proxy, UnRegister(p) PROVE Sorted(routes')
  BY <1>2, <1>5 DEF UnRegister
<1>6. ASSUME NEW p \in Proxy, GroupUnRegister(p) PROVE Sorted(routes')
  <2>1. routes' = routes \/ \E k : routes' = Del(routes, k)
    BY <1>6, Zenon DEF GroupUnRegister
  <2> QED BY <2>1, <1>2
<1>7. ASSUME NEW p \in Proxy, Run(p) \/ RunEnds(p) \/ Close(p) \/ CloseEnds(p) \/ FindGroup(p)
      PROVE  routes' = routes
  BY <1>7 DEF Run, RunEnds, Close, CloseEnds, FindGroup
<1>8. ASSUME NEW q \in Request, RequestStep(q)
      PROVE  routes' = routes
  BY <1>8, RequestIsAt DEF At
<1>9. UNCHANGED vars => routes' = routes
  BY DEF vars
<1> QED BY <1>3, <1>4, <1>5, <1>6, <1>7, <1>8, <1>9 DEF Next

\* What getVhost finds in the table of the server.
LEMMA VhostIsBest ==
  ASSUME IInv, Sorted(routes), NEW h \in Seq(STRING), NEW w \in Seq(Nat), NEW u
  PROVE  \/ /\ getVhost(routes, h, w, u) = NoRoute
            /\ \A i \in 1..Len(routes) : ~CanFind(routes[i].key, h, w, u)
         \/ \E i \in 1..Len(routes) :
              /\ getVhost(routes, h, w, u) = routes[i] /\ CanFind(routes[i].key, h, w, u)
              /\ \A j \in 1..Len(routes) :
                   CanFind(routes[j].key, h, w, u) => Preferred(routes[i].key, routes[j].key, h)
<1>0. routes \in Seq(Route)
  BY DEF IInv, TypeOK
<1>1. \A r \in Route : /\ r # NoRoute /\ r.key.domain \in Seq(STRING) /\ r.key.domain # <<>>
                       /\ r.key.location \in Seq(Nat)
  <2>1. \A r \in Route : r # NoRoute
    <3> SUFFICES ASSUME NoRoute \in Route PROVE FALSE
      OBVIOUS
    <3>1. DOMAIN NoRoute = {"key", "payload"}
      BY DEF Route
    <3>2. DOMAIN NoRoute = {"payload"}
      BY DEF NoRoute
    <3> QED BY <3>1, <3>2
  <2> QED BY <2>1, RtFacts, KeyFacts
<1> QED BY <1>0, <1>1, BestFound

LEMMA SortedIsBest == IInv /\ Sorted(routes) => LookupIsBest
<1> SUFFICES ASSUME IInv, Sorted(routes), NEW h \in Hosts, NEW w \in Paths, NEW u \in Users
             PROVE  BestOf({i \in DOMAIN routes : /\ Matches(routes[i].key, h, w, u)
                                                  /\ ~ShortWildcard(routes[i].key.domain, h)},
                           getVhost(routes, h, w, u), h)
  BY DEF LookupIsBest
<1>0. /\ routes \in Seq(Route) /\ DOMAIN routes = 1..Len(routes)
      /\ h \in Seq(STRING) /\ w \in Seq(Nat)
  BY LenProperties, RequestAssumption DEF IInv, TypeOK
<1>1. \A i \in 1..Len(routes) :
        CanFind(routes[i].key, h, w, u) <=> /\ Matches(routes[i].key, h, w, u)
                                            /\ ~ShortWildcard(routes[i].key.domain, h)
  <2> TAKE i \in 1..Len(routes)
  <2> DEFINE k == routes[i].key
  <2>1. k.domain \in Seq(STRING)
    BY <1>0, ElementOfSeq, RtFacts, KeyFacts
  <2> HIDE DEF k
  <2>2. CanFind(k, h, w, u) <=> Matches(k, h, w, u) /\ ~ShortWildcard(k.domain, h)
    BY <2>1, FindsMatches
  <2> QED BY <2>2 DEF k
<1>2. \/ /\ getVhost(routes, h, w, u) = NoRoute
         /\ \A i \in 1..Len(routes) : ~CanFind(routes[i].key, h, w, u)
      \/ \E i \in 1..Len(routes) :
           /\ getVhost(routes, h, w, u) = routes[i] /\ CanFind(routes[i].key, h, w, u)
           /\ \A j \in 1..Len(routes) :
                CanFind(routes[j].key, h, w, u) => Preferred(routes[i].key, routes[j].key, h)
  BY <1>0, VhostIsBest
<1> DEFINE hits == {i \in DOMAIN routes : /\ Matches(routes[i].key, h, w, u)
                                          /\ ~ShortWildcard(routes[i].key.domain, h)}
<1>3. \A i : i \in hits <=> i \in 1..Len(routes) /\ CanFind(routes[i].key, h, w, u)
  BY <1>0, <1>1
<1> HIDE DEF hits
<1>4. BestOf(hits, getVhost(routes, h, w, u), h)
  BY <1>2, <1>3 DEF BestOf
<1> QED BY <1>4 DEF hits

\* For any table that registrations and closings can leave, and any host, path and
\* user, the lookup finds the most specific of the routes that match, the wildcards of
\* two labels apart, which it never tries (getVhost, Routers.Add and Get).
THEOREM LookupsAreBest == Spec => []LookupIsBest
<1>1. Init => Sorted(routes)
  BY DEF Init, NoRoutes, Sorted
<1> QED BY <1>1, IInvHolds, NextSorted, SortedIsBest, PTL DEF Spec

-----------------------------------------------------------------------------
\* What a request finds is in the table and matches what it asks for.
Fits(k, q) == Matches(k, Asked[q].host, Asked[q].path, Asked[q].user)

LEMMA LookupFinds ==
  ASSUME IInv, Sorted(routes), NEW q \in Request
  PROVE  Lookup(q) = NoRoute \/ (Lookup(q) \in Range(routes) /\ Fits(Lookup(q).key, q))
<1> DEFINE h == Asked[q].host
           w == Asked[q].path
           u == Asked[q].user
<1>0. /\ h \in Seq(STRING) /\ w \in Seq(Nat)
      /\ routes \in Seq(Route) /\ DOMAIN routes = 1..Len(routes)
  BY RequestAssumption, LenProperties DEF IInv, TypeOK
<1>1. Lookup(q) = getVhost(routes, h, w, u)
  BY DEF Lookup
<1>a. \A k : Fits(k, q) <=> Matches(k, h, w, u)
  BY DEF Fits
<1> HIDE DEF h, w, u
<1>2. \/ getVhost(routes, h, w, u) = NoRoute
      \/ \E i \in 1..Len(routes) :
           getVhost(routes, h, w, u) = routes[i] /\ CanFind(routes[i].key, h, w, u)
  BY <1>0, VhostIsBest
<1>3. ASSUME NEW i \in 1..Len(routes), CanFind(routes[i].key, h, w, u)
      PROVE  routes[i] \in Range(routes) /\ Fits(routes[i].key, q)
  <2> DEFINE k == routes[i].key
  <2>1. k.domain \in Seq(STRING) /\ routes[i] \in Range(routes)
    BY <1>0, ElementOfSeq, RtFacts, KeyFacts DEF Range
  <2> HIDE DEF k
  <2>2. CanFind(k, h, w, u) => Matches(k, h, w, u)
    BY <2>1, FindsMatches
  <2> QED BY <2>1, <2>2, <1>3, <1>a DEF k
<1> QED BY <1>1, <1>2, <1>3

\* The members of the object that the controller has under a group's name have
\* registered the route of the group and have not undone it.
Entered ==
  \A g \in Group : groups[g] # NoInst =>
    \A p \in inst[groups[g]].members : inst[groups[g]].key \in Range(closeFuncs[p])
\* A group that a request has found: while the controller has it, it has members and
\* the route that the request was looking for.
HasGroup(q) == request[q].at \in {"any", "endpoint"}
Reached(q) ==
  LET i == request[q].group
  IN  /\ i \in Inst /\ i[2] <= made[i[1]]
      /\ groups[i[1]] = i => inst[i].members # {} /\ Fits(inst[i].key, q)
ReqInv == \A q \in Request : HasGroup(q) => Reached(q)

\* How a step of a proxy treats an object that was made: it does not bring back one
\* that the controller has forgotten, and one that the controller keeps and that has
\* members keeps its route.
Kept(i) ==
  i[2] <= made[i[1]] =>
    /\ i[2] <= made'[i[1]]
    /\ groups'[i[1]] = i => groups[i[1]] = i
    /\ groups'[i[1]] = i /\ inst[i].members # {} =>
         inst'[i].members # {} /\ inst'[i].key = inst[i].key

LEMMA KeptReq ==
  ASSUME ReqInv, request' = request, \A i \in Inst : Kept(i)
  PROVE  ReqInv'
<1> SUFFICES ASSUME NEW q \in Request, HasGroup(q) PROVE Reached(q)'
  BY DEF ReqInv, HasGroup
<1> DEFINE i == request[q].group
<1>1. /\ i \in Inst /\ i[2] <= made[i[1]]
      /\ groups[i[1]] = i => inst[i].members # {} /\ Fits(inst[i].key, q)
  BY DEF ReqInv, Reached
<1>2. request'[q].group = i
  OBVIOUS
<1>3. Kept(i)
  BY <1>1
<1> HIDE DEF i
<1>4. \A k, l : k = l => (Fits(k, q) <=> Fits(l, q))
  OBVIOUS
<1>5. i[2] <= made'[i[1]] /\ (groups'[i[1]] = i => inst'[i].members # {} /\ Fits(inst'[i].key, q))
  BY <1>1, <1>3, <1>4 DEF Kept
<1>6. \A k : Fits(k, q)' <=> Fits(k', q)
  BY DEF Fits
<1> QED BY <1>1, <1>2, <1>5 DEF Reached, Fits

\* Steps that change no object leave all of this as it is.
LEMMA SameGroups ==
  ASSUME Entered, ReqInv, groups' = groups, made' = made, inst' = inst, request' = request,
         \A g \in Group : groups[g] # NoInst =>
           \A p \in inst[groups[g]].members : Range(closeFuncs[p]) \subseteq Range(closeFuncs'[p])
  PROVE  Entered' /\ ReqInv'
<1>1. Entered'
  BY DEF Entered
<1>2. \A i \in Inst : Kept(i)
  BY DEF Kept
<1> QED BY <1>1, <1>2, KeptReq

\* The members of the controller's objects.
LEMMA CurrentMembers ==
  ASSUME IInv, NEW g \in Group, groups[g] # NoInst
  PROVE  /\ groups[g] \in Inst /\ groups[g][1] = g
         /\ \A o \in inst[groups[g]].members : o \in Proxy /\ ProxyConf[o].group = g /\ InGroup(o)
<1>1. groups[g] \in Inst /\ groups[g][1] = g
  BY DEF IInv, TypeOK, Objects
<1>2. inst[groups[g]].members \subseteq Proxy
  BY <1>1 DEF IInv, TypeOK
<1>3. \A o \in inst[groups[g]].members : ProxyConf[o].group = g
  BY <1>1 DEF IInv, Members
<1>4. g # ""
  BY DEF Group
<1> QED BY <1>1, <1>2, <1>3, <1>4 DEF InGroup

LEMMA SingleReached ==
  ASSUME IInv, Entered, ReqInv, NEW p \in Proxy,
         \/ Register(p) \/ UnRegister(p)
         \/ Run(p) \/ RunEnds(p) \/ Close(p) \/ CloseEnds(p)
  PROVE  Entered' /\ ReqInv'
<1>1. groups' = groups /\ made' = made /\ inst' = inst /\ request' = request
  BY DEF Register, UnRegister, Run, RunEnds, Close, CloseEnds, grpVars
<1>2. ASSUME NEW o \in Proxy, InGroup(o) PROVE closeFuncs'[o] = closeFuncs[o]
  <2>1. CASE Run(p) \/ RunEnds(p) \/ Close(p) \/ CloseEnds(p)
    BY <2>1 DEF Run, RunEnds, Close, CloseEnds
  <2>2. CASE Register(p) \/ UnRegister(p)
    <3>1. ~InGroup(p) /\ (closeFuncs' = closeFuncs \/ \E x : closeFuncs' = [closeFuncs EXCEPT ![p] = x])
      BY <2>2, Zenon DEF Register, UnRegister, Registered, RunFails
    <3>2. o # p
      BY <3>1, <1>2
    <3>3. closeFuncs \in [Proxy -> Seq(Keys)]
      BY DEF IInv, TypeOK
    <3> QED BY <3>1, <3>2, <3>3
  <2> QED BY <2>1, <2>2
<1>3. \A g \in Group : groups[g] # NoInst =>
        \A o \in inst[groups[g]].members : Range(closeFuncs[o]) \subseteq Range(closeFuncs'[o])
  BY <1>2, CurrentMembers
<1> QED BY <1>1, <1>3, SameGroups

\* A new object is empty, and no request has found it before.
LEMMA FindGroupReached ==
  ASSUME IInv, Entered, ReqInv, NEW p \in Proxy, FindGroup(p)
  PROVE  Entered' /\ ReqInv'
<1> DEFINE g == ProxyConf[p].group
<1>0. /\ TypeOK /\ Objects /\ g \in Group /\ closeFuncs' = closeFuncs /\ request' = request
  BY InstFacts DEF IInv, FindGroup
<1>1. CASE UNCHANGED grpVars
  <2>1. groups' = groups /\ inst' = inst /\ made' = made
    BY <1>1 DEF grpVars
  <2> QED BY <1>0, <2>1, SameGroups
<1>2. CASE /\ groups[g] = NoInst /\ made[g] < MaxInst
           /\ made' = [made EXCEPT ![g] = @ + 1]
           /\ groups' = [groups EXCEPT ![g] = <<g, made'[g]>>]
           /\ inst' = inst
  <2> DEFINE n == <<g, made[g] + 1>>
  <2>1. made[g] \in Nat /\ made'[g] = made[g] + 1
    BY <1>0, <1>2 DEF TypeOK
  <2>2. n \in Inst /\ n[1] = g /\ n[2] = made[g] + 1
    BY <1>0, <1>2, <2>1, ProxyAssumption DEF Inst
  <2>3. groups' = [groups EXCEPT ![g] = n]
    BY <1>2, <2>1
  <2> HIDE DEF n, g
  <2>4. /\ \A h \in Group : made'[h] = IF h = g THEN made[g] + 1 ELSE made[h]
        /\ \A h \in Group : groups'[h] = IF h = g THEN n ELSE groups[h]
        /\ \A h \in Group : made[h] \in Nat
    BY <1>0, <1>2, <2>3 DEF TypeOK
  <2>5. inst[n].members = {}
    <3>1. n[2] > made[n[1]]
      BY <2>1, <2>2
    <3> QED BY <3>1, <1>0, <2>2 DEF Objects
  <2>6. Entered'
    <3> SUFFICES ASSUME NEW h \in Group, groups'[h] # NoInst, NEW o \in inst[groups'[h]].members
                 PROVE  inst[groups'[h]].key \in Range(closeFuncs[o])
      BY <1>0, <1>2 DEF Entered
    <3>1. h # g /\ groups'[h] = groups[h]
      BY <2>4, <2>5
    <3> QED BY <3>1 DEF Entered
  <2>7. ASSUME NEW i \in Inst PROVE Kept(i)
    <3>1. i[1] \in Group /\ i[2] \in Int
      BY InstFacts
    <3>2. ASSUME i[2] <= made[i[1]]
          PROVE  i[2] <= made'[i[1]] /\ (groups'[i[1]] = i => groups[i[1]] = i)
      <4>1. i # n
        BY <3>1, <3>2, <2>1, <2>2
      <4>2. made[i[1]] \in Nat /\ made'[i[1]] \in {made[i[1]], made[i[1]] + 1}
        BY <2>4, <3>1
      <4> QED BY <4>1, <4>2, <3>1, <3>2, <2>4
    <3> QED BY <3>2, <1>2 DEF Kept
  <2> QED BY <2>6, <2>7, <1>0, KeptReq
<1>3. \/ UNCHANGED grpVars
      \/ /\ groups[g] = NoInst /\ made[g] < MaxInst
         /\ made' = [made EXCEPT ![g] = @ + 1]
         /\ groups' = [groups EXCEPT ![g] = <<g, made'[g]>>]
         /\ inst' = inst
  BY Zenon DEF FindGroup
<1> QED BY <1>1, <1>2, <1>3

\* Who enters a group has registered its route, and the first one gives it the route.
LEMMA GroupRegisterReached ==
  ASSUME IInv, Entered, ReqInv, NEW p \in Proxy, GroupRegister(p)
  PROVE  Entered' /\ ReqInv'
<1> DEFINE i == found[p]
           k == NextKey(p)
           e == [members |-> inst[i].members \union {p}, key |-> k, groupKey |-> ProxyConf[p].groupKey]
<1>0. /\ TypeOK /\ groups' = groups /\ made' = made /\ request' = request
      /\ Running(p) /\ i # NoInst /\ i \in Inst
  BY DEF IInv, GroupRegister, TypeOK
<1>1. CASE RunFails(p) /\ inst' = inst
  <2>1. closeFuncs' = closeFuncs
    BY <1>1 DEF RunFails
  <2> QED BY <1>0, <1>1, <2>1, SameGroups
<1>2. CASE /\ inst[i].members # {} => inst[i].key = k
           /\ inst' = [inst EXCEPT ![i] = e]
           /\ Registered(p)
  <2>1. closeFuncs' = [closeFuncs EXCEPT ![p] = Append(@, k)]
    BY <1>2 DEF Registered
  <2>2. e.members = inst[i].members \union {p} /\ e.key = k /\ k \in Keys
    BY <1>0, NextKeyFacts
  <2> HIDE DEF i, k, e
  <2>3. /\ \A j \in Inst : inst'[j] = IF j = i THEN e ELSE inst[j]
        /\ \A o \in Proxy : closeFuncs'[o] = IF o = p THEN Append(closeFuncs[p], k) ELSE closeFuncs[o]
        /\ closeFuncs[p] \in Seq(Keys)
    BY <1>0, <1>2, <2>1 DEF TypeOK
  <2>4. Range(Append(closeFuncs[p], k)) = Range(closeFuncs[p]) \union {k}
    BY <2>2, <2>3, OneMore
  <2>5. \A o \in Proxy : Range(closeFuncs[o]) \subseteq Range(closeFuncs'[o])
    BY <2>3, <2>4
  <2>6. k \in Range(closeFuncs'[p])
    BY <2>3, <2>4
  <2>7. Entered'
    <3> SUFFICES ASSUME NEW h \in Group, groups[h] # NoInst, NEW o \in inst'[groups[h]].members
                 PROVE  inst'[groups[h]].key \in Range(closeFuncs'[o])
      BY <1>0 DEF Entered
    <3>1. groups[h] \in Inst /\ \A x \in inst[groups[h]].members :
            x \in Proxy /\ inst[groups[h]].key \in Range(closeFuncs[x])
      BY CurrentMembers DEF Entered
    <3>2. CASE groups[h] # i
      BY <3>1, <3>2, <2>3, <2>5
    <3>3. CASE groups[h] = i /\ o = p
      BY <3>1, <3>3, <2>2, <2>3, <2>6
    <3>4. CASE groups[h] = i /\ o # p
      <4>1. o \in inst[i].members /\ inst'[i].key = k
        BY <3>1, <3>4, <2>2, <2>3
      <4>2. inst[i].key = k
        BY <4>1, <1>2
      <4> QED BY <3>1, <3>4, <4>1, <4>2, <2>5
    <3> QED BY <3>2, <3>3, <3>4
  <2>8. ASSUME NEW j \in Inst PROVE Kept(j)
    <3>1. inst[j].members # {} => inst'[j].members # {} /\ inst'[j].key = inst[j].key
      BY <1>2, <2>2, <2>3
    <3> QED BY <1>0, <3>1 DEF Kept
  <2> QED BY <2>7, <2>8, <1>0, KeptReq
<1>3. \/ RunFails(p) /\ inst' = inst
      \/ /\ inst[i].members # {} => inst[i].key = k
         /\ inst' = [inst EXCEPT ![i] = e]
         /\ Registered(p)
  BY Zenon DEF GroupRegister
<1> QED BY <1>1, <1>2, <1>3

\* Who undoes a registration leaves the object of the controller first.
LEMMA GroupUnRegisterReached ==
  ASSUME IInv, Entered, ReqInv, NEW p \in Proxy, GroupUnRegister(p)
  PROVE  Entered' /\ ReqInv'
<1> DEFINE g == ProxyConf[p].group
           i == groups[g]
           left == inst[i].members \ {p}
<1>0. /\ TypeOK /\ InGroup(p) /\ made' = made /\ request' = request
      /\ closeFuncs' = [closeFuncs EXCEPT ![p] = Tail(@)]
  BY DEF IInv, GroupUnRegister
<1>1. g \in Group
  BY <1>0, InstFacts
<1>2. \A o \in Proxy : o # p => closeFuncs'[o] = closeFuncs[o]
  BY <1>0 DEF TypeOK
<1>3. CASE i = NoInst /\ groups' = groups /\ inst' = inst
  <2>1. \A h \in Group : groups[h] # NoInst =>
          \A o \in inst[groups[h]].members : Range(closeFuncs[o]) \subseteq Range(closeFuncs'[o])
    BY <1>2, <1>3, CurrentMembers
  <2> QED BY <1>0, <1>3, <2>1, SameGroups
<1>4. CASE /\ i # NoInst /\ inst' = [inst EXCEPT ![i].members = left]
           /\ groups' = [groups EXCEPT ![g] = IF left = {} THEN NoInst ELSE i]
  <2>1. i \in Inst /\ i[1] = g /\ left = inst[i].members \ {p} /\ i = groups[g]
        /\ g = ProxyConf[p].group
    BY <1>1, <1>4, CurrentMembers
  <2> HIDE DEF g, i, left
  <2>2. \A j \in Inst : /\ inst'[j].members = IF j = i THEN left ELSE inst[j].members
                        /\ inst'[j].key = inst[j].key
    BY <1>0, <1>4, <2>1, ZenonT(60) DEF TypeOK
  <2>3. \A h \in Group : groups'[h] = IF h = g THEN (IF left = {} THEN NoInst ELSE i) ELSE groups[h]
    BY <1>0, <1>4 DEF TypeOK
  <2>4. Entered'
    <3> SUFFICES ASSUME NEW h \in Group, groups'[h] # NoInst, NEW o \in inst'[groups'[h]].members
                 PROVE  inst'[groups'[h]].key \in Range(closeFuncs'[o])
      BY DEF Entered
    <3>1. groups'[h] = groups[h] /\ groups[h] # NoInst
      BY <2>1, <2>3
    <3>2. /\ groups[h] \in Inst /\ groups[h][1] = h
          /\ \A x \in inst[groups[h]].members :
               /\ x \in Proxy /\ ProxyConf[x].group = h
               /\ inst[groups[h]].key \in Range(closeFuncs[x])
      BY <3>1, CurrentMembers DEF Entered
    <3>3. o \in inst[groups[h]].members /\ o # p
      <4>1. CASE h = g
        BY <4>1, <3>1, <3>2, <2>1, <2>2
      <4>2. CASE h # g
        <5>1. groups[h] # i
          BY <4>2, <3>2, <2>1
        <5>2. o \in inst[groups[h]].members
          BY <5>1, <3>1, <3>2, <2>2
        <5> QED BY <5>2, <4>2, <3>2, <2>1
      <4> QED BY <4>1, <4>2
    <3> QED BY <3>1, <3>2, <3>3, <1>2, <2>2
  <2>5. ASSUME NEW j \in Inst PROVE Kept(j)
    <3>1. j[1] \in Group /\ j # NoInst
      BY InstFacts
    <3>2. groups'[j[1]] = j => groups[j[1]] = j
      BY <3>1, <2>1, <2>3
    <3>3. groups'[j[1]] = j /\ inst[j].members # {} => inst'[j].members # {} /\ inst'[j].key = inst[j].key
      <4>1. CASE j = i
        BY <4>1, <3>1, <2>1, <2>2, <2>3
      <4>2. CASE j # i
        BY <4>2, <2>2
      <4> QED BY <4>1, <4>2
    <3> QED BY <3>2, <3>3, <1>0 DEF Kept
  <2> QED BY <2>4, <2>5, <1>0, KeptReq
<1>5. \/ i = NoInst /\ groups' = groups /\ inst' = inst
      \/ /\ i # NoInst /\ inst' = [inst EXCEPT ![i].members = left]
         /\ groups' = [groups EXCEPT ![g] = IF left = {} THEN NoInst ELSE i]
  BY Zenon DEF GroupUnRegister
<1> QED BY <1>3, <1>4, <1>5

\* A request that goes on to a group has looked it up in this step.
LEMMA RequestReached ==
  ASSUME IInv, Sorted(routes), Entered, ReqInv, NEW q \in Request, RequestStep(q)
  PROVE  Entered' /\ ReqInv'
<1>0. TypeOK /\ Objects /\ Owners
  BY DEF IInv
<1>1. PICK x : At(q, x)
  BY RequestIsAt
<1>2. /\ routes' = routes /\ groups' = groups /\ inst' = inst /\ made' = made
      /\ closeFuncs' = closeFuncs /\ request' = [request EXCEPT ![q] = x]
  BY <1>1 DEF At, grpVars, pxyVars
<1>3. request'[q] = x /\ \A r \in Request : r # q => request'[r] = request[r]
  BY <1>0, <1>2 DEF TypeOK
<1>4. Entered'
  BY <1>2 DEF Entered
<1>5. ASSUME NEW r \in Request, r # q, HasGroup(r)' PROVE Reached(r)'
  BY <1>2, <1>3, <1>5 DEF ReqInv, HasGroup, Reached, Fits
<1>6. ASSUME HasGroup(q)' PROVE Reached(q)'
  <2> DEFINE i == Lookup(q).payload
  <2>0. x.at \in {"any", "endpoint"}
    BY <1>3, <1>6 DEF HasGroup
  <2>1. i \in Inst /\ i # NoRoute.payload /\ x.group = i
    <3>1. ASSUME NEW y, At(q, y) PROVE x = y
      BY <3>1, <1>0, <1>3 DEF At, TypeOK
    <3>2. ~(ServeHTTP(q) \/ Director(q) \/ chooseEndpoint(q) \/ GetRealConn(q))
      <4>1. ASSUME ServeHTTP(q) PROVE FALSE
        BY <4>1, <2>0, <3>1 DEF ServeHTTP
      <4>2. ASSUME Director(q) PROVE FALSE
        <5>1. At(q, [at |-> "choose", group |-> i])
              \/ \E e : At(q, [at |-> "connect", byEndpoint |-> TRUE, endpoint |-> e])
          BY <4>2, Zenon DEF Director
        <5>2. CASE At(q, [at |-> "choose", group |-> i])
          <6>1. x = [at |-> "choose", group |-> i]
            BY <5>2, <3>1, Zenon
          <6> QED BY <6>1, <2>0
        <5>3. ASSUME NEW e, At(q, [at |-> "connect", byEndpoint |-> TRUE, endpoint |-> e]) PROVE FALSE
          <6>1. x = [at |-> "connect", byEndpoint |-> TRUE, endpoint |-> e]
            BY <5>3, <3>1, Zenon
          <6> QED BY <6>1, <2>0
        <5> QED BY <5>1, <5>2, <5>3, Zenon
      <4>3. ASSUME chooseEndpoint(q) PROVE FALSE
        <5>1. PICK y : At(q, [at |-> "connect", byEndpoint |-> TRUE, endpoint |-> y])
          BY <4>3, Zenon DEF chooseEndpoint
        <5> QED BY <5>1, <2>0, <3>1
      <4>4. ASSUME GetRealConn(q) PROVE FALSE
        BY <4>4, <2>0, <3>1 DEF GetRealConn, NoRequest
      <4> QED BY <4>1, <4>2, <4>3, <4>4
    <3>3. ~(createConn(q) \/ createConnByEndpoint(q))
      <4>1. ASSUME createConn(q) \/ createConnByEndpoint(q) PROVE FALSE
        <5>1. At(q, NoRequest) \/ \E y : At(q, [at |-> "dial", to |-> y])
          BY <4>1, Zenon DEF createConn, createConnByEndpoint
        <5>2. CASE At(q, NoRequest)
          <6>1. x = NoRequest
            BY <5>2, <3>1, Zenon
          <6> QED BY <6>1, <2>0 DEF NoRequest
        <5>3. ASSUME NEW y, At(q, [at |-> "dial", to |-> y]) PROVE FALSE
          <6>1. x = [at |-> "dial", to |-> y]
            BY <5>3, <3>1, Zenon
          <6> QED BY <6>1, <2>0
        <5> QED BY <5>1, <5>2, <5>3, Zenon
      <4> QED BY <4>1
    <3>4. CreateConnection(q)
      BY <3>2, <3>3 DEF RequestStep
    <3>5. \/ At(q, NoRequest) \/ At(q, [at |-> "dial", to |-> i])
          \/ /\ i \in Inst /\ i # NoRoute.payload
             /\ \/ At(q, [at |-> "endpoint", group |-> i, endpoint |-> request[q].endpoint])
                \/ At(q, [at |-> "any", group |-> i])
      BY <3>4, Zenon DEF CreateConnection
    <3>6. CASE At(q, NoRequest)
      <4>1. x = NoRequest
        BY <3>6, <3>1, Zenon
      <4> QED BY <4>1, <2>0 DEF NoRequest
    <3>7. CASE At(q, [at |-> "dial", to |-> i])
      <4>1. x = [at |-> "dial", to |-> i]
        BY <3>7, <3>1, Zenon
      <4> QED BY <4>1, <2>0
    <3>8. ASSUME At(q, [at |-> "endpoint", group |-> i, endpoint |-> request[q].endpoint])
          PROVE  x.group = i
      <4>1. x = [at |-> "endpoint", group |-> i, endpoint |-> request[q].endpoint]
        BY <3>8, <3>1, Zenon
      <4> QED BY <4>1
    <3>9. ASSUME At(q, [at |-> "any", group |-> i]) PROVE x.group = i
      <4>1. x = [at |-> "any", group |-> i]
        BY <3>9, <3>1, Zenon
      <4> QED BY <4>1
    <3> QED BY <3>5, <3>6, <3>7, <3>8, <3>9, Zenon
  <2>2. Lookup(q) \in Range(routes) /\ Fits(Lookup(q).key, q)
    BY <2>1, LookupFinds
  <2> DEFINE r == Lookup(q)
  <2>3. r \in Range(routes) /\ r.payload = i /\ Fits(r.key, q)
    BY <2>2
  <2> HIDE DEF i, r
  <2>4. r.key = inst[i].key /\ r = Rt(r.key, i)
    BY <2>1, <2>3, <1>0, RangeFacts, RtFacts DEF Owners, IInv
  <2>5. inst[i].members # {}
    BY <2>1, <2>3, <2>4, <1>0 DEF Owners
  <2>6. i[1] \in Group /\ i[2] \in Int /\ made[i[1]] \in Nat
    <3>1. i[1] \in Group /\ i[2] \in Int
      BY <2>1, InstFacts
    <3> QED BY <3>1, <1>0 DEF TypeOK
  <2>7. i[2] <= made[i[1]]
    BY <2>1, <2>5, <2>6, <1>0 DEF Objects
  <2>8. request'[q].group = i /\ Fits(inst[i].key, q)
    BY <2>1, <2>3, <2>4, <1>3
  <2> QED BY <2>1, <2>5, <2>7, <2>8, <1>2 DEF Reached, Fits
<1> QED BY <1>4, <1>5, <1>6 DEF ReqInv

LEMMA NextReached ==
  IInv /\ Sorted(routes) /\ Entered /\ ReqInv /\ [Next]_vars => Entered' /\ ReqInv'
<1> SUFFICES ASSUME IInv, Sorted(routes), Entered, ReqInv, [Next]_vars PROVE Entered' /\ ReqInv'
  OBVIOUS
<1>1. CASE UNCHANGED vars
  <2>1. groups' = groups /\ made' = made /\ inst' = inst /\ request' = request /\ closeFuncs' = closeFuncs
    BY <1>1 DEF vars, grpVars, pxyVars
  <2> QED BY <2>1, SameGroups
<1> QED BY <1>1, SingleReached, FindGroupReached, GroupRegisterReached, GroupUnRegisterReached,
           RequestReached DEF Next

\* A request goes on to dial for a member of a group it has found, or for the owner of
\* the route it finds.
LEMMA SettledIsRouted ==
  ASSUME IInv, Sorted(routes), Entered, ReqInv, NEW q \in Request, RequestStep(q), Settles(q)
  PROVE  \/ \E k \in Range(closeFuncs[request'[q].to]) : Fits(k, q)
         \/ HasGroup(q) /\ groups[request[q].group[1]] # request[q].group
<1> DEFINE i == Lookup(q).payload
<1>0. TypeOK /\ Owners /\ request = [r \in Request |-> request[r]]
  BY DEF IInv, TypeOK
<1>1. ASSUME NEW y, At(q, y) PROVE request'[q] = y
  BY <1>0, <1>1 DEF At
<1>2. ASSUME NEW y, At(q, [at |-> "dial", to |-> y]) PROVE request'[q].to = y
  BY <1>1, <1>2
<1>3. ASSUME NEW y, At(q, y) PROVE y.at = "dial"
  BY <1>1, <1>3 DEF Settles
<1>4. ~(ServeHTTP(q) \/ Director(q) \/ chooseEndpoint(q) \/ GetRealConn(q))
  <2>1. ASSUME ServeHTTP(q) PROVE FALSE
    BY <2>1, <1>3 DEF ServeHTTP
  <2>2. ASSUME Director(q) PROVE FALSE
    <3>1. At(q, [at |-> "choose", group |-> i])
          \/ \E e : At(q, [at |-> "connect", byEndpoint |-> TRUE, endpoint |-> e])
      BY <2>2, Zenon DEF Director
    <3>2. CASE At(q, [at |-> "choose", group |-> i])
      <4>1. [at |-> "choose", group |-> i].at = "dial"
        BY <3>2, <1>3, Zenon
      <4> QED BY <4>1
    <3>3. ASSUME NEW e, At(q, [at |-> "connect", byEndpoint |-> TRUE, endpoint |-> e]) PROVE FALSE
      <4>1. [at |-> "connect", byEndpoint |-> TRUE, endpoint |-> e].at = "dial"
        BY <3>3, <1>3, Zenon
      <4> QED BY <4>1
    <3> QED BY <3>1, <3>2, <3>3, Zenon
  <2>3. ASSUME chooseEndpoint(q) PROVE FALSE
    <3>1. PICK y : At(q, [at |-> "connect", byEndpoint |-> TRUE, endpoint |-> y])
      BY <2>3, Zenon DEF chooseEndpoint
    <3> QED BY <3>1, <1>3
  <2>4. ASSUME GetRealConn(q) PROVE FALSE
    BY <2>4, <1>3 DEF GetRealConn, NoRequest
  <2> QED BY <2>1, <2>2, <2>3, <2>4
<1>5. CASE CreateConnection(q)
  <2>1. i \notin Inst /\ i # NoRoute.payload /\ At(q, [at |-> "dial", to |-> i])
    <3>1. \/ At(q, NoRequest)
          \/ i \notin Inst /\ i # NoRoute.payload /\ At(q, [at |-> "dial", to |-> i])
          \/ At(q, [at |-> "endpoint", group |-> i, endpoint |-> request[q].endpoint])
          \/ At(q, [at |-> "any", group |-> i])
      BY <1>5, Zenon DEF CreateConnection
    <3> QED BY <3>1, <1>3 DEF NoRequest
  <2>2. Lookup(q) \in Range(routes) /\ Fits(Lookup(q).key, q)
    BY <2>1, LookupFinds
  <2> DEFINE r == Lookup(q)
  <2>3. r \in Range(routes) /\ r.payload = i /\ Fits(r.key, q) /\ request'[q].to = i
    BY <2>1, <2>2, <1>2
  <2> HIDE DEF i, r
  <2>4. r.key \in Keys /\ i \in Proxy /\ r = Rt(r.key, i)
    BY <2>1, <2>3, <1>0, RangeFacts, RtFacts DEF IInv
  <2>5. ~InGroup(i)
    BY <2>3, <2>4, <1>0 DEF Owners
  <2>6. r.key \in Range(closeFuncs[i])
    BY <2>3, <2>4, <2>5, <1>0 DEF Owners
  <2> QED BY <2>3, <2>6
<1>6. CASE createConn(q) \/ createConnByEndpoint(q)
  <2> DEFINE j == request[q].group
  <2>1. HasGroup(q)
    BY <1>6 DEF createConn, createConnByEndpoint, HasGroup
  <2>2. PICK y \in inst[j].members : At(q, [at |-> "dial", to |-> y])
    <3>1. At(q, NoRequest) \/ \E y \in inst[j].members : At(q, [at |-> "dial", to |-> y])
      BY <1>6, Zenon DEF createConn, createConnByEndpoint
    <3>2. ~At(q, NoRequest)
      BY <1>3 DEF NoRequest
    <3> QED BY <3>1, <3>2
  <2>3. request'[q].to = y
    BY <2>2, <1>2
  <2>4. j \in Inst /\ (groups[j[1]] = j => Fits(inst[j].key, q))
    BY <2>1 DEF ReqInv, Reached
  <2> HIDE DEF j
  <2>5. CASE groups[j[1]] = j
    <3>1. j[1] \in Group /\ j # NoInst
      BY <2>4, InstFacts
    <3>2. inst[j].key \in Range(closeFuncs[y])
      BY <3>1, <2>2, <2>5 DEF Entered
    <3> QED BY <3>2, <2>3, <2>4, <2>5
  <2>6. CASE groups[j[1]] # j
    BY <2>1, <2>6 DEF j
  <2> QED BY <2>5, <2>6
<1> QED BY <1>4, <1>5, <1>6 DEF RequestStep

LEMMA NextSettles ==
  IInv /\ Sorted(routes) /\ Entered /\ ReqInv /\ [Next]_vars => [SettlesOnRoute]_vars
<1> SUFFICES ASSUME IInv, Sorted(routes), Entered, ReqInv, Next, NEW q \in Request, Settles(q)
             PROVE  \/ \E k \in Range(closeFuncs[request'[q].to]) : Fits(k, q)
                    \/ HasGroup(q) /\ groups[request[q].group[1]] # request[q].group
  BY DEF SettlesOnRoute, Fits, HasGroup
<1>0. request = [r \in Request |-> request[r]]
  BY DEF IInv, TypeOK
<1>1. request'[q] # request[q]
  BY DEF Settles
<1>2. request' # request
  BY <1>1
<1>3. ASSUME NEW p \in Proxy
      PROVE  ~(\/ Run(p) \/ Register(p) \/ FindGroup(p) \/ GroupRegister(p) \/ RunEnds(p)
               \/ Close(p) \/ UnRegister(p) \/ GroupUnRegister(p) \/ CloseEnds(p))
  BY <1>2 DEF Run, Register, FindGroup, GroupRegister, RunEnds, Close, UnRegister,
              GroupUnRegister, CloseEnds
<1>4. PICK r \in Request : RequestStep(r)
  BY <1>3 DEF Next
<1>5. \E x : request' = [request EXCEPT ![r] = x]
  BY <1>4, RequestIsAt DEF At
<1>6. r = q
  BY <1>0, <1>1, <1>5
<1> QED BY <1>4, <1>6, SettledIsRouted

\* For any proxies, groups, routes and requests, a request settles on a proxy that is
\* then registered for a route that matches the request, whatever changed between the
\* steps of HTTPReverseProxy and HTTPGroup that lead there; excepted is the object of a
\* group that the controller has forgotten.
THEOREM ServedAreRouted == Spec => ServedByItsRoute
<1>1. Init => Sorted(routes)
  BY DEF Init, NoRoutes, Sorted
<1>2. Init => Entered /\ ReqInv
  BY DEF Init, Entered, ReqInv, HasGroup, NoRequest
<1>3. Spec => []Sorted(routes)
  BY <1>1, IInvHolds, NextSorted, PTL DEF Spec
<1>4. Spec => [](Entered /\ ReqInv)
  BY <1>2, <1>3, IInvHolds, NextReached, PTL DEF Spec
<1> QED BY <1>3, <1>4, IInvHolds, NextSettles, PTL DEF Spec, ServedByItsRoute

-----------------------------------------------------------------------------
(***************************************************************************)
(* The muxer of https and tcpmux proxies, over the same table of routes.   *)
(***************************************************************************)
MuxTypes ==
  /\ table \in Seq(Range(table)) /\ UniqueKeys(table)
  /\ run = [p \in MuxProxy |-> run[p]] /\ lns = [p \in MuxProxy |-> lns[p]]
  /\ entering \in [MuxProxy -> GroupObj \union {NoObj}]
  /\ ctl \in [MuxGroup -> GroupObj \union {NoObj}]
  /\ objs \in [MuxGroup -> Nat]
  /\ group = [o \in GroupObj |-> group[o]]
  /\ \A o \in GroupObj : group[o].acceptCh \in {"open", "closed"}
  /\ worker = [o \in GroupObj |-> worker[o]]
  /\ conn = [c \in Conn |-> conn[c]]

\* A proxy without a group is in none.
InGroups ==
  /\ \A p \in MuxProxy : entering[p] # NoObj => Grouped(p)
  /\ \A o \in GroupObj : \A p \in group[o].members : p \in MuxProxy /\ Grouped(p)

\* The listeners of a proxy without a group are open from when it runs until it has
\* closed, the first ones first.
Listeners ==
  \A p \in MuxProxy : ~Grouped(p) =>
    /\ lns[p] \in Seq(Nat)
    /\ \A m, n \in DOMAIN lns[p] : lns[p][m] = lns[p][n] => m = n
    /\ run[p] \in {"off", "run", "up"} => \A m \in DOMAIN lns[p] : lns[p][m] = m
    /\ lns[p] # <<>> => run[p] \in {"run", "up", "close"}

\* Which listener a route leads to.
ListenerRt(p, n) == Rt(MuxConf[p].routes[n], Own(p, n))
Tabled ==
  /\ \A p \in MuxProxy : ~Grouped(p) =>
       \A n \in Range(lns[p]) : ListenerRt(p, n) \in Range(table)
  /\ \A o \in GroupObj : group[o].members # {} => Rt(group[o].key, o) \in Range(table)
  /\ \A r \in Range(table) :
       \/ /\ r.payload \in GroupObj
          /\ group[r.payload].acceptCh # "closed" => group[r.payload].members # {}
       \/ \E p \in MuxProxy : /\ ~Grouped(p)
                              /\ \E n \in Range(lns[p]) : r = ListenerRt(p, n)

\* The worker of a group that has members and was never left runs, and holds the
\* connection that it is passing on.
Workers ==
  /\ \A o \in GroupObj :
       group[o].acceptCh # "closed" /\ group[o].members # {} => worker[o] # "off"
  /\ \A c \in Conn : conn[c].at = "worker" =>
       conn[c].ln \in GroupObj /\ group[conn[c].ln].acceptCh # "closed" /\ worker[conn[c].ln] = c

\* Who waits is at a listener of the table.
Waiting == \A c \in Conn : conn[c].at \in {"send", "worker"} => Open(conn[c].ln)

MuxInv == MuxTypes /\ InGroups /\ Listeners /\ Tabled /\ Workers /\ Waiting

LEMMA TableAdd ==
  ASSUME NEW t, t \in Seq(Range(t)), UniqueKeys(t), NEW k, NEW o, ~Exist(t, k), NEW u, u = Add(t, k, o)
  PROVE  u \in Seq(Range(u)) /\ UniqueKeys(u) /\ Range(u) = Range(t) \union {Rt(k, o)}
<1> DEFINE S == Range(t) \union {Rt(k, o)}
<1>1. t \in Seq(S)
  BY SeqMonotonic
<1>2. [key |-> k, payload |-> o] \in S /\ [key |-> k, payload |-> o] = Rt(k, o)
  BY DEF Rt
<1> HIDE DEF S
<1>3. /\ u \in Seq(S) /\ UniqueKeys(u)
      /\ Range(u) = Range(t) \union {[key |-> k, payload |-> o]}
  BY <1>1, <1>2, AddRoute
<1> QED BY <1>2, <1>3, SeqOfRange

LEMMA TableDel ==
  ASSUME NEW t, t \in Seq(Range(t)), UniqueKeys(t), NEW k, NEW o, Rt(k, o) \in Range(t),
         NEW u, u = Del(t, k)
  PROVE  u \in Seq(Range(u)) /\ UniqueKeys(u) /\ Range(u) = Range(t) \ {Rt(k, o)}
<1>1. /\ u \in Seq(Range(t)) /\ UniqueKeys(u) /\ Range(u) = {r \in Range(t) : r.key # k}
  BY DelRoute
<1>2. \A r \in Range(t) : r.key = k <=> r = Rt(k, o)
  <2>1. \A r, s \in Range(t) : r.key = s.key => r = s
    BY DEF Range, UniqueKeys
  <2>2. Rt(k, o).key = k
    BY RtFacts
  <2> QED BY <2>1, <2>2
<1>3. Range(u) = Range(t) \ {Rt(k, o)}
  BY <1>1, <1>2
<1> QED BY <1>1, <1>3, SeqOfRange

LEMMA ListenerFacts ==
  /\ \A p, n : ListenerRt(p, n).payload = Own(p, n) /\ Own(p, n)[1] = p
  /\ \A p, q, m, n : Own(p, m) = Own(q, n) => p = q /\ m = n
BY RtFacts DEF ListenerRt, Own

LEMMA OpenIsTabled ==
  /\ \A ln : Open(ln) <=> \E r \in Range(table) : r.payload = ln
  /\ \A ln : Open(ln)' <=> \E r \in Range(table') : r.payload = ln
BY DEF Open, Range

LEMMA WaitingNext ==
  Waiting' <=> \A c \in Conn : conn'[c].at \in {"send", "worker"} =>
                 \E r \in Range(table') : r.payload = conn'[c].ln
BY DEF Waiting, Open, Range

LEMMA ObjFacts ==
  ASSUME MuxNames
  PROVE  /\ NoObj \notin GroupObj
         /\ \A o \in GroupObj : o[1] \in MuxGroup
         /\ \A p \in MuxProxy : \A n : Own(p, n) \notin GroupObj
         /\ \A p \in MuxProxy : Grouped(p) => MuxConf[p].group \in MuxGroup
<1>1. "" \notin MuxGroup
  BY DEF MuxGroup
<1>2. \A o \in GroupObj : o[1] \in MuxGroup
  BY DEF GroupObj
<1>3. NoObj \notin GroupObj
  <2>1. NoObj[1] = ""
    BY Zenon DEF NoObj
  <2> QED BY <1>1, <1>2, <2>1, Zenon
<1>4. ASSUME NEW p \in MuxProxy, NEW n
      PROVE  Own(p, n) \notin GroupObj
  <2>1. Own(p, n)[1] = p /\ p \notin MuxGroup
    BY ListenerFacts DEF MuxNames
  <2> QED BY <1>2, <2>1
<1>5. \A p \in MuxProxy : Grouped(p) => MuxConf[p].group \in MuxGroup
  BY Zenon DEF Grouped, MuxGroup
<1> QED BY <1>2, <1>3, <1>4, <1>5

\* Who waits is not stranded.
LEMMA MuxInvIsEnough == MuxNames /\ MuxInv => NoHandlerStranded
<1> SUFFICES ASSUME MuxNames, MuxInv, NEW c \in Conn, conn[c].at \in {"send", "worker"}
             PROVE  LET ln == conn[c].ln
                    IN  /\ Open(ln)
                        /\ IF ln \in GroupObj
                             THEN \/ group[ln].acceptCh = "closed"
                                  \/ group[ln].members # {} /\ worker[ln] # "off"
                             ELSE run[ln[1]] \in {"run", "up", "close"}
  BY DEF NoHandlerStranded
<1> DEFINE ln == conn[c].ln
<1>1. Open(ln)
  BY DEF MuxInv, Waiting
<1> HIDE DEF ln
<1>2. PICK r \in Range(table) : r.payload = ln
  BY <1>1, OpenIsTabled
<1>3. CASE ln \in GroupObj
  <2>1. group[ln].acceptCh # "closed" => group[ln].members # {}
    BY <1>2, <1>3, ObjFacts, ListenerFacts DEF MuxInv, Tabled
  <2>2. group[ln].acceptCh # "closed" /\ group[ln].members # {} => worker[ln] # "off"
    BY <1>3 DEF MuxInv, Workers
  <2> QED BY <2>1, <2>2, <1>1, <1>3 DEF ln
<1>4. CASE ln \notin GroupObj
  <2>1. PICK p \in MuxProxy : ~Grouped(p) /\ \E n \in Range(lns[p]) : ln = Own(p, n)
    BY <1>2, <1>4, ListenerFacts DEF MuxInv, Tabled
  <2>2. ln[1] = p /\ lns[p] # <<>>
    BY <2>1, ListenerFacts DEF Range
  <2>3. run[p] \in {"run", "up", "close"}
    BY <2>1, <2>2 DEF MuxInv, Listeners
  <2> QED BY <2>2, <2>3, <1>1, <1>4 DEF ln
<1> QED BY <1>3, <1>4
LEMMA MuxStarts == MuxNames /\ MuxInit => MuxInv
<1> SUFFICES ASSUME MuxNames, MuxInit
             PROVE  MuxInv
  OBVIOUS
<1> USE DEF MuxInit
<1>1. table = <<>> /\ Range(table) = {} /\ UniqueKeys(table) /\ table \in Seq(Range(table))
  <2>1. table = <<>>
    BY DEF NoRoutes
  <2> QED BY <2>1, EmptySeq DEF Range, UniqueKeys
<1>2. \A o \in GroupObj : group[o] = Fresh
  OBVIOUS
<1>3. Fresh.members = {} /\ Fresh.acceptCh = "open"
  BY Zenon DEF Fresh, Object
<1>4. \A c \in Conn : conn[c].at = "none"
  BY DEF Idle
<1>5. \A p \in MuxProxy : lns[p] = <<>> /\ entering[p] = NoObj
  OBVIOUS
<1>6. MuxTypes
  <2>1. run = [p \in MuxProxy |-> run[p]] /\ lns = [p \in MuxProxy |-> lns[p]]
    OBVIOUS
  <2>2. /\ entering \in [MuxProxy -> GroupObj \union {NoObj}]
        /\ ctl \in [MuxGroup -> GroupObj \union {NoObj}] /\ objs \in [MuxGroup -> Nat]
    OBVIOUS
  <2> QED BY <1>1, <1>2, <1>3, <2>1, <2>2 DEF MuxTypes
<1>7. InGroups
  BY <1>2, <1>3, <1>5, Zenon DEF InGroups
<1>8. Listeners
  <2>1. <<>> \in Seq(Nat) /\ DOMAIN <<>> = {}
    BY EmptySeq
  <2> QED BY <2>1, <1>5, Zenon DEF Listeners
<1>9. Tabled
  <2>1. \A p \in MuxProxy : Range(lns[p]) = {}
    BY <1>5 DEF Range
  <2> QED BY <1>1, <1>2, <1>3, <2>1, Zenon DEF Tabled
<1>10. Workers /\ Waiting
  BY <1>2, <1>3, <1>4, Zenon DEF Workers, Waiting
<1> QED BY <1>6, <1>7, <1>8, <1>9, <1>10 DEF MuxInv

\* A step of one proxy that opens and closes nothing.
LEMMA RunStep ==
  ASSUME MuxNames, MuxInv, NEW p \in MuxProxy, NEW x,
         run' = [run EXCEPT ![p] = x],
         x \in {"off", "run", "up"} => run[p] \in {"off", "run", "up"},
         ~Grouped(p) /\ lns[p] # <<>> => x \in {"run", "up", "close"},
         entering' = entering \/ entering' = [entering EXCEPT ![p] = NoObj],
         UNCHANGED <<table, lns, ctl, objs, group, worker, conn>>
  PROVE  MuxInv'
<1>1. MuxTypes'
  BY DEF MuxInv, MuxTypes
<1>2. InGroups'
  BY DEF MuxInv, InGroups, MuxTypes
<1>3. Listeners'
  BY DEF MuxInv, Listeners, MuxTypes
<1>4. Tabled' /\ Workers'
  BY DEF MuxInv, Tabled, Workers
<1>5. Waiting'
  BY DEF MuxInv, Waiting, Open
<1> QED BY <1>1, <1>2, <1>3, <1>4, <1>5 DEF MuxInv

\* StartRun, StartLoops, StartClose and CloseEnds.
LEMMA QuietMux ==
  ASSUME MuxNames, MuxInv, NEW p \in MuxProxy,
         StartRun(p) \/ StartLoops(p) \/ StartClose(p) \/ MuxCloseEnds(p)
  PROVE  MuxInv'
<1> USE DEF groupVars
<1>1. ~Grouped(p) /\ lns[p] # <<>> => run[p] \in {"run", "up", "close"}
  BY DEF MuxInv, Listeners
<1>2. CASE StartRun(p)
  BY <1>1, <1>2, RunStep DEF StartRun
<1>3. CASE StartLoops(p)
  BY <1>3, RunStep DEF StartLoops
<1>4. CASE StartClose(p)
  BY <1>4, RunStep DEF StartClose
<1>5. CASE MuxCloseEnds(p)
  BY <1>5, RunStep DEF MuxCloseEnds
<1> QED BY <1>2, <1>3, <1>4, <1>5

\* A new listener.
LEMMA ListenMux ==
  ASSUME MuxNames, MuxInv, NEW p \in MuxProxy, Listen(p)
  PROVE  MuxInv'
<1> USE DEF groupVars
<1> DEFINE k == NextRoute(p)
           n == Len(lns[p]) + 1
<1>1. /\ run[p] = "run" /\ ~Grouped(p)
      /\ IF Exist(table, k) THEN Fail(p) /\ UNCHANGED table
         ELSE Opened(p) /\ table' = Add(table, k, Own(p, n))
      /\ UNCHANGED <<entering, ctl, objs, group, worker, conn>>
  BY DEF Listen, Listening
<1>2. CASE Exist(table, k)
  BY <1>1, <1>2, RunStep DEF Fail
<1>3. CASE ~Exist(table, k)
  <2>1. /\ table' = Add(table, k, Own(p, n)) /\ run' = run
        /\ lns' = [lns EXCEPT ![p] = Append(lns[p], n)]
    BY <1>1, <1>3 DEF Opened
  <2>2. /\ lns[p] \in Seq(Nat) /\ Len(lns[p]) \in Nat /\ DOMAIN lns[p] = 1..Len(lns[p])
        /\ \A m \in DOMAIN lns[p] : lns[p][m] = m
    BY <1>1, LenProperties DEF MuxInv, Listeners
  <2>3. Rt(k, Own(p, n)) = ListenerRt(p, n)
    BY DEF ListenerRt, NextRoute
  <2> HIDE DEF k
  <2>4. /\ table' \in Seq(Range(table')) /\ UniqueKeys(table')
        /\ Range(table') = Range(table) \union {ListenerRt(p, n)}
    BY <1>3, <2>1, <2>3, TableAdd DEF MuxInv, MuxTypes
  <2>5. /\ lns' = [q \in MuxProxy |-> lns'[q]] /\ lns'[p] = Append(lns[p], n)
        /\ \A q \in MuxProxy : q # p => lns'[q] = lns[q]
    BY <2>1 DEF MuxInv, MuxTypes
  <2>6. /\ Append(lns[p], n) \in Seq(Nat) /\ Append(lns[p], n) # <<>>
        /\ Range(Append(lns[p], n)) = Range(lns[p]) \union {n}
    <3> DEFINE s == lns[p]
    <3>1. s \in Seq(Nat) /\ n \in Nat
      BY <2>2
    <3> HIDE DEF n, s
    <3>2. /\ Append(s, n) \in Seq(Nat) /\ Append(s, n) # <<>>
          /\ Range(Append(s, n)) = Range(s) \union {n}
      BY <3>1, OneMore
    <3> QED BY <3>2 DEF s
  <2>7. \A m \in DOMAIN Append(lns[p], n) : Append(lns[p], n)[m] = m
    BY <2>2, AppendProperties
  <2> HIDE DEF n
  <2>8. MuxTypes'
    BY <1>1, <2>1, <2>4, <2>5 DEF MuxInv, MuxTypes
  <2>9. InGroups'
    BY <1>1 DEF MuxInv, InGroups
  <2>10. Listeners'
    BY <1>1, <2>1, <2>5, <2>6, <2>7 DEF MuxInv, Listeners
  <2>11. Tabled'
    <3>1. ASSUME NEW q \in MuxProxy, ~Grouped(q)
          PROVE  Range(lns'[q]) = IF q = p THEN Range(lns[q]) \union {n} ELSE Range(lns[q])
      BY <2>5, <2>6
    <3>2. ASSUME NEW q \in MuxProxy, ~Grouped(q), NEW m \in Range(lns'[q])
          PROVE  ListenerRt(q, m) \in Range(table')
      BY <2>4, <3>1, <3>2 DEF MuxInv, Tabled
    <3>3. \A o \in GroupObj : group'[o].members # {} => Rt(group'[o].key, o) \in Range(table')
      BY <1>1, <2>4 DEF MuxInv, Tabled
    <3>4. ASSUME NEW r \in Range(table')
          PROVE  \/ /\ r.payload \in GroupObj
                    /\ group'[r.payload].acceptCh # "closed" => group'[r.payload].members # {}
                 \/ \E q \in MuxProxy : /\ ~Grouped(q)
                                        /\ \E m \in Range(lns'[q]) : r = ListenerRt(q, m)
      <4>1. CASE r = ListenerRt(p, n)
        BY <4>1, <1>1, <3>1
      <4>2. CASE r \in Range(table)
        BY <4>2, <1>1, <3>1 DEF MuxInv, Tabled
      <4> QED BY <4>1, <4>2, <2>4
    <3> QED BY <3>2, <3>3, <3>4 DEF Tabled
  <2>12. Workers'
    BY <1>1 DEF MuxInv, Workers
  <2>13. Waiting'
    <3>1. \A ln : Open(ln) => Open(ln)'
      BY <2>4, OpenIsTabled
    <3> QED BY <3>1, <1>1 DEF MuxInv, Waiting
  <2> QED BY <2>8, <2>9, <2>10, <2>11, <2>12, <2>13 DEF MuxInv
<1> QED BY <1>2, <1>3

\* The object of the group, found or made.
LEMMA FindObjMux ==
  ASSUME MuxNames, MuxInv, NEW p \in MuxProxy, FindObj(p)
  PROVE  MuxInv'
<1> DEFINE g == MuxConf[p].group
<1>1. /\ Grouped(p) /\ g \in MuxGroup
      /\ UNCHANGED <<table, run, lns, group, worker, conn>>
  BY ObjFacts DEF FindObj
<1>2. /\ ctl' \in [MuxGroup -> GroupObj \union {NoObj}] /\ objs' \in [MuxGroup -> Nat]
      /\ \E x \in GroupObj : entering' = [entering EXCEPT ![p] = x]
  <2>1. CASE ctl[g] # NoObj
    BY <1>1, <2>1 DEF FindObj, MuxInv, MuxTypes
  <2>2. CASE ctl[g] = NoObj
    <3>1. /\ objs[g] < MuxMaxInst /\ objs' = [objs EXCEPT ![g] = objs[g] + 1]
          /\ ctl' = [ctl EXCEPT ![g] = <<g, objs'[g]>>]
          /\ entering' = [entering EXCEPT ![p] = <<g, objs'[g]>>]
      BY <2>2 DEF FindObj
    <3>2. objs[g] \in Nat /\ objs'[g] = objs[g] + 1 /\ objs' \in [MuxGroup -> Nat]
      BY <1>1, <3>1 DEF MuxInv, MuxTypes
    <3>3. <<g, objs'[g]>> \in GroupObj
      BY <1>1, <3>1, <3>2 DEF GroupObj, MuxNames
    <3> HIDE DEF g
    <3> QED BY <1>1, <3>1, <3>2, <3>3 DEF MuxInv, MuxTypes
  <2> QED BY <2>1, <2>2
<1>3. MuxTypes'
  BY <1>1, <1>2 DEF MuxInv, MuxTypes
<1>4. InGroups'
  BY <1>1, <1>2 DEF MuxInv, InGroups, MuxTypes
<1>5. Listeners' /\ Tabled' /\ Workers'
  BY <1>1 DEF MuxInv, Listeners, Tabled, Workers
<1>6. Waiting'
  BY <1>1 DEF MuxInv, Waiting, Open
<1> QED BY <1>3, <1>4, <1>5, <1>6 DEF MuxInv

\* What is said of groups, workers and waiting connections, and of the routes that
\* lead to groups, does not depend on the listeners of a proxy in a group.
LEMMA GroupedStep ==
  ASSUME MuxInv, NEW p \in MuxProxy, Grouped(p), NEW x, NEW y,
         lns' = lns \/ lns' = [lns EXCEPT ![p] = x],
         run' = run \/ run' = [run EXCEPT ![p] = y]
  PROVE  /\ run' = [q \in MuxProxy |-> run'[q]] /\ lns' = [q \in MuxProxy |-> lns'[q]]
         /\ \A q \in MuxProxy : ~Grouped(q) => lns'[q] = lns[q] /\ run'[q] = run[q]
         /\ Listeners'
<1>1. run' = [q \in MuxProxy |-> run'[q]] /\ lns' = [q \in MuxProxy |-> lns'[q]]
  BY DEF MuxInv, MuxTypes
<1>2. \A q \in MuxProxy : ~Grouped(q) => lns'[q] = lns[q] /\ run'[q] = run[q]
  BY DEF MuxInv, MuxTypes
<1>3. Listeners'
  BY <1>2 DEF MuxInv, Listeners
<1> QED BY <1>1, <1>2, <1>3

\* No connection is with the worker of a group without members.
LEMMA NobodyAtWorker ==
  ASSUME MuxNames, MuxInv, NEW o \in GroupObj, group[o].members = {}
  PROVE  \A c \in Conn : conn[c].at = "worker" => conn[c].ln # o
<1> SUFFICES ASSUME NEW c \in Conn, conn[c].at = "worker", conn[c].ln = o
             PROVE  FALSE
  OBVIOUS
<1>1. group[o].acceptCh # "closed"
  BY DEF MuxInv, Workers
<1>2. PICK r \in Range(table) : r.payload = o
  BY OpenIsTabled DEF MuxInv, Waiting
<1>3. \A q \in MuxProxy : \A n : r # ListenerRt(q, n)
  BY <1>2, ObjFacts, ListenerFacts
<1> QED BY <1>1, <1>2, <1>3 DEF MuxInv, Tabled

\* A member enters its group.
LEMMA EnterMux ==
  ASSUME MuxNames, MuxInv, NEW p \in MuxProxy, HTTPConnectListen(p)
  PROVE  MuxInv'
<1> DEFINE o == entering[p]
           k == NextRoute(p)
           first == group[o].members = {}
           refused == IF first THEN Exist(table, k)
                      ELSE group[o].key # k \/ group[o].groupKey # MuxConf[p].groupKey
<1>1. /\ o # NoObj /\ run[p] = "run"
      /\ entering' = [entering EXCEPT ![p] = NoObj]
      /\ UNCHANGED <<ctl, objs, conn>>
  BY DEF HTTPConnectListen, Listening
<1>2. IF refused THEN Fail(p) /\ UNCHANGED <<table, group, worker>>
      ELSE /\ Opened(p)
           /\ group' = [group EXCEPT ![o] =
                          Object(@.members \union {p}, k, MuxConf[p].groupKey, @.acceptCh)]
           /\ table' = IF first THEN Add(table, k, o) ELSE table
           /\ worker' = IF first THEN [worker EXCEPT ![o] = "accept"] ELSE worker
  BY DEF HTTPConnectListen
<1>3. o \in GroupObj /\ Grouped(p)
  BY <1>1 DEF MuxInv, MuxTypes, InGroups
<1>4. CASE refused
  <2>1. Fail(p) /\ UNCHANGED <<table, group, worker>>
    BY <1>2, <1>4
  <2> HIDE DEF refused
  <2> QED BY <1>1, <1>3, <2>1, RunStep DEF Fail
<1>5. CASE ~refused
  <2>1. /\ group' = [group EXCEPT ![o] =
             Object(group[o].members \union {p}, k, MuxConf[p].groupKey, group[o].acceptCh)]
        /\ table' = IF first THEN Add(table, k, o) ELSE table
        /\ worker' = IF first THEN [worker EXCEPT ![o] = "accept"] ELSE worker
        /\ run' = run /\ \E x : lns' = [lns EXCEPT ![p] = x]
    BY <1>2, <1>5 DEF Opened
  <2>2. IF first THEN ~Exist(table, k) ELSE group[o].key = k
    BY <1>5
  <2> HIDE DEF k, o, refused
  <2>3. /\ group' = [q \in GroupObj |-> group'[q]]
        /\ group'[o].members = group[o].members \union {p} /\ group'[o].key = k
        /\ group'[o].acceptCh = group[o].acceptCh
        /\ \A q \in GroupObj : q # o => group'[q] = group[q]
    BY <1>3, <2>1 DEF MuxInv, MuxTypes, Object
  <2>4. /\ table' \in Seq(Range(table')) /\ UniqueKeys(table')
        /\ Range(table') = Range(table) \union {Rt(k, o)}
    <3>1. CASE first
      BY <3>1, <2>1, <2>2, TableAdd DEF MuxInv, MuxTypes
    <3>2. CASE ~first
      <4>1. table' = table /\ group[o].key = k /\ group[o].members # {}
        BY <3>2, <2>1, <2>2
      <4>2. Rt(group[o].key, o) \in Range(table)
        BY <1>3, <4>1 DEF MuxInv, Tabled
      <4>3. table \in Seq(Range(table)) /\ UniqueKeys(table)
        BY DEF MuxInv, MuxTypes
      <4> HIDE DEF first
      <4> QED BY <4>1, <4>2, <4>3
    <3> QED BY <3>1, <3>2
  <2>5. /\ worker' = [q \in GroupObj |-> worker'[q]]
        /\ \A q \in GroupObj : q # o => worker'[q] = worker[q]
        /\ worker'[o] = IF first THEN "accept" ELSE worker[o]
    BY <1>3, <2>1 DEF MuxInv, MuxTypes
  <2>6. /\ run' = [q \in MuxProxy |-> run'[q]] /\ lns' = [q \in MuxProxy |-> lns'[q]]
        /\ \A q \in MuxProxy : ~Grouped(q) => lns'[q] = lns[q] /\ run'[q] = run[q]
        /\ Listeners'
    BY <1>3, <2>1, GroupedStep
  <2>7. MuxTypes'
    <3>1. \A q \in GroupObj : group'[q].acceptCh \in {"open", "closed"}
      BY <2>3, <1>3 DEF MuxInv, MuxTypes
    <3>2. entering' \in [MuxProxy -> GroupObj \union {NoObj}]
      BY <1>1 DEF MuxInv, MuxTypes
    <3> QED BY <1>1, <2>3, <2>4, <2>5, <2>6, <3>1, <3>2 DEF MuxInv, MuxTypes
  <2>8. InGroups'
    <3>1. \A q \in MuxProxy : entering'[q] # NoObj => Grouped(q)
      BY <1>1 DEF MuxInv, InGroups, MuxTypes
    <3>2. \A q \in GroupObj : \A m \in group'[q].members : m \in MuxProxy /\ Grouped(m)
      BY <1>3, <2>3 DEF MuxInv, InGroups
    <3> QED BY <3>1, <3>2 DEF InGroups
  <2>9. Tabled'
    <3>1. \A q \in MuxProxy : ~Grouped(q) =>
            \A n \in Range(lns'[q]) : ListenerRt(q, n) \in Range(table')
      BY <2>4, <2>6 DEF MuxInv, Tabled
    <3>2. \A q \in GroupObj : group'[q].members # {} => Rt(group'[q].key, q) \in Range(table')
      BY <2>3, <2>4 DEF MuxInv, Tabled
    <3>3. ASSUME NEW r \in Range(table')
          PROVE  \/ /\ r.payload \in GroupObj
                    /\ group'[r.payload].acceptCh # "closed" => group'[r.payload].members # {}
                 \/ \E q \in MuxProxy : /\ ~Grouped(q)
                                        /\ \E m \in Range(lns'[q]) : r = ListenerRt(q, m)
      <4>1. group'[o].members # {}
        BY <2>3
      <4>2. CASE r.payload = o
        BY <4>1, <4>2, <1>3
      <4>3. CASE r \in Range(table) /\ r.payload # o
        BY <4>3, <2>3, <2>6 DEF MuxInv, Tabled
      <4> QED BY <4>2, <4>3, <2>4, RtFacts
    <3> QED BY <3>1, <3>2, <3>3 DEF Tabled
  <2>10. Workers'
    <3>1. \A q \in GroupObj :
            group'[q].acceptCh # "closed" /\ group'[q].members # {} => worker'[q] # "off"
      BY <1>3, <2>3, <2>5 DEF MuxInv, Workers
    <3>2. ASSUME NEW c \in Conn, conn[c].at = "worker"
          PROVE  /\ conn[c].ln \in GroupObj /\ group'[conn[c].ln].acceptCh # "closed"
                 /\ worker'[conn[c].ln] = c
      <4>1. first => conn[c].ln # o
        BY <1>3, <3>2, NobodyAtWorker
      <4> QED BY <3>2, <4>1, <2>3, <2>5 DEF MuxInv, Workers
    <3> QED BY <1>1, <3>1, <3>2 DEF Workers
  <2>11. Waiting'
    BY <1>1, <2>4, OpenIsTabled DEF MuxInv, Waiting
  <2> QED BY <2>6, <2>7, <2>8, <2>9, <2>10, <2>11 DEF MuxInv
<1> QED BY <1>4, <1>5

\* A proxy without a group closes a listener.
LEMMA CloseListenerMux ==
  ASSUME MuxNames, MuxInv, NEW p \in MuxProxy, CloseListener(p)
  PROVE  MuxInv'
<1> USE DEF groupVars
<1> DEFINE n == Head(lns[p])
           s == lns[p]
           ln == Own(p, n)
<1>1. /\ run[p] = "close" /\ s # <<>> /\ ~Grouped(p)
      /\ table' = Del(table, MuxConf[p].routes[n])
      /\ conn' = Dropped(conn, ln)
      /\ lns' = [lns EXCEPT ![p] = Tail(s)]
      /\ UNCHANGED <<run, entering, ctl, objs, group, worker>>
  BY DEF CloseListener
<1>2. s \in Seq(Nat) /\ \A i, j \in DOMAIN s : s[i] = s[j] => i = j
  BY <1>1 DEF MuxInv, Listeners
<1>3. /\ n \in Range(s) /\ Tail(s) \in Seq(Nat) /\ Range(Tail(s)) = Range(s) \ {n}
      /\ \A i, j \in DOMAIN Tail(s) : Tail(s)[i] = Tail(s)[j] => i = j
  <2> HIDE DEF s
  <2>1. Head(s) \in Range(s) /\ Tail(s) \in Seq(Nat) /\ Range(Tail(s)) = Range(s) \ {Head(s)}
        /\ \A i, j \in DOMAIN Tail(s) : Tail(s)[i] = Tail(s)[j] => i = j
    BY <1>1, <1>2, OneLess
  <2> QED BY <2>1 DEF s
<1> HIDE DEF n, s
<1>4. ListenerRt(p, n) \in Range(table) /\ ListenerRt(p, n) = Rt(MuxConf[p].routes[n], ln)
  BY <1>1, <1>3 DEF MuxInv, Tabled, ListenerRt, s
<1> HIDE DEF ln
<1>5. /\ table' \in Seq(Range(table')) /\ UniqueKeys(table')
      /\ Range(table') = Range(table) \ {ListenerRt(p, n)}
  BY <1>1, <1>4, TableDel DEF MuxInv, MuxTypes
<1>6. /\ lns' = [q \in MuxProxy |-> lns'[q]] /\ lns'[p] = Tail(s)
      /\ \A q \in MuxProxy : q # p => lns'[q] = lns[q]
  BY <1>1 DEF MuxInv, MuxTypes
<1>7. /\ conn' = [c \in Conn |-> conn'[c]]
      /\ \A c \in Conn : conn'[c].at \in {"send", "worker"} =>
           conn'[c] = conn[c] /\ (conn[c].at = "send" => conn[c].ln # ln)
  BY <1>1 DEF Dropped
<1>8. MuxTypes'
  BY <1>1, <1>5, <1>6, <1>7 DEF MuxInv, MuxTypes
<1>9. InGroups'
  BY <1>1 DEF MuxInv, InGroups
<1>10. Listeners'
  <2>1. ASSUME NEW q \in MuxProxy, ~Grouped(q), q # p
        PROVE  lns'[q] = lns[q] /\ run'[q] = run[q]
    BY <1>1, <1>6, <2>1
  <2>2. run'[p] = "close" /\ lns'[p] = Tail(s)
    BY <1>1, <1>6
  <2>3. \A q \in MuxProxy : ~Grouped(q) /\ q # p =>
          /\ lns'[q] \in Seq(Nat)
          /\ \A i, j \in DOMAIN lns'[q] : lns'[q][i] = lns'[q][j] => i = j
          /\ run'[q] \in {"off", "run", "up"} => \A i \in DOMAIN lns'[q] : lns'[q][i] = i
          /\ lns'[q] # <<>> => run'[q] \in {"run", "up", "close"}
    BY <2>1, Zenon DEF MuxInv, Listeners
  <2>4. /\ lns'[p] \in Seq(Nat)
        /\ \A i, j \in DOMAIN lns'[p] : lns'[p][i] = lns'[p][j] => i = j
        /\ run'[p] \notin {"off", "run", "up"} /\ run'[p] \in {"run", "up", "close"}
    BY <2>2, <1>3
  <2> QED BY <2>3, <2>4 DEF Listeners
<1>11. Tabled'
  <2>1. ASSUME NEW q \in MuxProxy
        PROVE  Range(lns'[q]) = IF q = p THEN Range(lns[q]) \ {n} ELSE Range(lns[q])
    BY <1>3, <1>6 DEF s
  <2>2. ASSUME NEW q \in MuxProxy, ~Grouped(q), NEW m \in Range(lns'[q])
        PROVE  ListenerRt(q, m) \in Range(table')
    <3>1. ListenerRt(q, m) \in Range(table)
      BY <2>1, <2>2 DEF MuxInv, Tabled
    <3>2. ListenerRt(q, m) # ListenerRt(p, n)
      <4>1. q # p \/ m # n
        BY <2>1, <2>2
      <4> QED BY <4>1, ListenerFacts
    <3> QED BY <1>5, <3>1, <3>2
  <2>3. ASSUME NEW o \in GroupObj, group'[o].members # {}
        PROVE  Rt(group'[o].key, o) \in Range(table')
    <3>1. Rt(group[o].key, o) \in Range(table) /\ group' = group
      BY <1>1, <2>3 DEF MuxInv, Tabled
    <3>2. Rt(group[o].key, o) # ListenerRt(p, n)
      BY ListenerFacts, RtFacts, ObjFacts
    <3> QED BY <1>5, <3>1, <3>2
  <2>4. ASSUME NEW r \in Range(table')
        PROVE  \/ /\ r.payload \in GroupObj
                  /\ group'[r.payload].acceptCh # "closed" => group'[r.payload].members # {}
               \/ \E q \in MuxProxy : /\ ~Grouped(q)
                                      /\ \E m \in Range(lns'[q]) : r = ListenerRt(q, m)
    <3>1. r \in Range(table) /\ r # ListenerRt(p, n)
      BY <1>5
    <3>2. CASE /\ r.payload \in GroupObj
               /\ group[r.payload].acceptCh # "closed" => group[r.payload].members # {}
      BY <1>1, <3>2
    <3>3. ASSUME NEW q \in MuxProxy, ~Grouped(q), NEW m \in Range(lns[q]), r = ListenerRt(q, m)
          PROVE  m \in Range(lns'[q])
      BY <2>1, <3>1, <3>3
    <3> QED BY <3>1, <3>2, <3>3 DEF MuxInv, Tabled
  <2> QED BY <2>2, <2>3, <2>4 DEF Tabled
<1>12. Workers'
  BY <1>1, <1>7 DEF MuxInv, Workers
<1>13. Waiting'
  <2> SUFFICES ASSUME NEW c \in Conn, conn'[c].at \in {"send", "worker"}
               PROVE  \E r \in Range(table') : r.payload = conn'[c].ln
    BY WaitingNext
  <2>1. PICK r \in Range(table) : r.payload = conn[c].ln
    BY <1>7, OpenIsTabled DEF MuxInv, Waiting
  <2>2. conn[c].ln # ln
    BY <1>7, ObjFacts DEF MuxInv, Workers, ln
  <2>3. r \in Range(table')
    BY <1>5, <2>1, <2>2, ListenerFacts DEF ln
  <2> QED BY <1>7, <2>1, <2>3
<1> QED BY <1>8, <1>9, <1>10, <1>11, <1>12, <1>13 DEF MuxInv

\* A member leaves its group, others stay; or the channel of the group was closed.
LEMMA LeaveMux ==
  ASSUME MuxNames, MuxInv, NEW p \in MuxProxy, NEW o \in GroupObj,
         LeaveGroup(p, o) \/ LeavePanics(p, o)
  PROVE  MuxInv'
<1>1. p \in group[o].members /\ Grouped(p)
  BY DEF LeaveGroup, LeavePanics, MuxInv, InGroups
<1>2. /\ \/ lns' = [lns EXCEPT ![p] = Tail(lns[p])] /\ run' = run
         \/ lns' = lns /\ run' = [run EXCEPT ![p] = "panicked"]
      /\ UNCHANGED <<table, entering, ctl, objs, worker, conn>>
  BY DEF LeaveGroup, LeavePanics
<1>3. \E ms \in SUBSET group[o].members :
        /\ group[o].acceptCh # "closed" => ms # {}
        /\ group' = [group EXCEPT ![o] =
                       Object(ms, group[o].key, group[o].groupKey, group[o].acceptCh)]
  <2>1. CASE LeaveGroup(p, o)
    <3>1. /\ group[o].members \ {p} \in SUBSET group[o].members /\ group[o].members \ {p} # {}
          /\ group' = [group EXCEPT ![o] = Object(group[o].members \ {p}, group[o].key,
                                                    group[o].groupKey, group[o].acceptCh)]
      BY <2>1 DEF LeaveGroup
    <3> QED BY <3>1
  <2>2. CASE LeavePanics(p, o)
    <3>1. /\ {} \in SUBSET group[o].members /\ group[o].acceptCh = "closed"
          /\ group' = [group EXCEPT ![o] = Object({}, group[o].key,
                                                    group[o].groupKey, group[o].acceptCh)]
      BY <2>2 DEF LeavePanics
    <3> QED BY <3>1
  <2> QED BY <2>1, <2>2
<1>4. /\ group' = [q \in GroupObj |-> group'[q]]
      /\ \A q \in GroupObj : /\ group'[q].members \subseteq group[q].members
                               /\ group'[q].key = group[q].key
                               /\ group'[q].acceptCh = group[q].acceptCh
      /\ \A q \in GroupObj : group[q].acceptCh # "closed" /\ group[q].members # {} =>
                                 group'[q].members # {}
  <2>1. PICK ms \in SUBSET group[o].members :
          /\ group[o].acceptCh # "closed" => ms # {}
          /\ group' = [group EXCEPT ![o] =
                         Object(ms, group[o].key, group[o].groupKey, group[o].acceptCh)]
    BY <1>3
  <2>2. /\ group' = [q \in GroupObj |-> group'[q]]
        /\ \A q \in GroupObj : q # o => group'[q] = group[q]
        /\ group'[o].members = ms /\ group'[o].key = group[o].key
        /\ group'[o].acceptCh = group[o].acceptCh
    BY <2>1 DEF MuxInv, MuxTypes, Object
  <2> QED BY <2>1, <2>2
<1>5. /\ run' = [q \in MuxProxy |-> run'[q]] /\ lns' = [q \in MuxProxy |-> lns'[q]]
      /\ \A q \in MuxProxy : ~Grouped(q) => lns'[q] = lns[q] /\ run'[q] = run[q]
      /\ Listeners'
  BY <1>1, <1>2, GroupedStep
<1>6. MuxTypes'
  BY <1>2, <1>4, <1>5 DEF MuxInv, MuxTypes
<1>7. InGroups'
  BY <1>2, <1>4 DEF MuxInv, InGroups
<1>8. Tabled'
  <2>1. \A q \in MuxProxy : ~Grouped(q) =>
          \A n \in Range(lns'[q]) : ListenerRt(q, n) \in Range(table')
    BY <1>2, <1>5 DEF MuxInv, Tabled
  <2>2. \A q \in GroupObj : group'[q].members # {} => Rt(group'[q].key, q) \in Range(table')
    BY <1>2, <1>4 DEF MuxInv, Tabled
  <2>3. \A r \in Range(table') :
          \/ /\ r.payload \in GroupObj
             /\ group'[r.payload].acceptCh # "closed" => group'[r.payload].members # {}
          \/ \E q \in MuxProxy : /\ ~Grouped(q)
                                 /\ \E m \in Range(lns'[q]) : r = ListenerRt(q, m)
    BY <1>2, <1>4, <1>5 DEF MuxInv, Tabled
  <2> QED BY <2>1, <2>2, <2>3 DEF Tabled
<1>9. Workers'
  BY <1>2, <1>4 DEF MuxInv, Workers
<1>10. Waiting'
  BY <1>2 DEF MuxInv, Waiting, Open
<1> QED BY <1>5, <1>6, <1>7, <1>8, <1>9, <1>10 DEF MuxInv

\* The last member leaves.
LEMMA LeaveLastMux ==
  ASSUME MuxNames, MuxInv, NEW p \in MuxProxy, NEW o \in GroupObj, LeaveLast(p, o)
  PROVE  MuxInv'
<1>1. /\ group[o].members = {p} /\ group[o].acceptCh = "open"
      /\ group' = [group EXCEPT ![o] = Object({}, group[o].key, group[o].groupKey, "closed")]
      /\ table' = Del(table, group[o].key)
      /\ ctl' = [ctl EXCEPT ![o[1]] = NoObj]
      /\ worker' = [worker EXCEPT ![o] = "off"]
      /\ \E x : lns' = [lns EXCEPT ![p] = x]
      /\ UNCHANGED <<run, entering, objs>>
  BY DEF LeaveLast
<1>2. Grouped(p)
  BY <1>1 DEF MuxInv, InGroups
<1>3. /\ conn' = [c \in Conn |-> conn'[c]]
      /\ \A c \in Conn : conn'[c].at \in {"send", "worker"} =>
           /\ conn'[c] = conn[c]
           /\ conn[c].at = "send" => conn[c].ln # o
           /\ c # worker[o]
  <2> DEFINE gone == Dropped(conn, o)
  <2>1. /\ gone = [c \in Conn |-> gone[c]]
        /\ \A c \in Conn : gone[c].at \in {"send", "worker"} =>
             gone[c] = conn[c] /\ (conn[c].at = "send" => conn[c].ln # o)
    BY DEF Dropped
  <2>2. conn' = IF worker[o] \in Conn THEN [gone EXCEPT ![worker[o]] = [at |-> "dropped"]] ELSE gone
    BY DEF LeaveLast
  <2> HIDE DEF gone
  <2> QED BY <2>1, <2>2
<1>4. /\ group' = [q \in GroupObj |-> group'[q]]
      /\ \A q \in GroupObj : q # o => group'[q] = group[q]
      /\ group'[o].members = {} /\ group'[o].acceptCh = "closed"
  BY <1>1 DEF MuxInv, MuxTypes, Object
<1>5. /\ worker' = [q \in GroupObj |-> worker'[q]]
      /\ \A q \in GroupObj : q # o => worker'[q] = worker[q]
  BY <1>1 DEF MuxInv, MuxTypes
<1>6. \A c \in Conn : conn'[c].at \in {"send", "worker"} => conn'[c] = conn[c] /\ conn[c].ln # o
  BY <1>3 DEF MuxInv, Workers
<1>7. Rt(group[o].key, o) \in Range(table)
  BY <1>1 DEF MuxInv, Tabled
<1>8. /\ table' \in Seq(Range(table')) /\ UniqueKeys(table')
      /\ Range(table') = Range(table) \ {Rt(group[o].key, o)}
  BY <1>1, <1>7, TableDel DEF MuxInv, MuxTypes
<1>9. /\ run' = [q \in MuxProxy |-> run'[q]] /\ lns' = [q \in MuxProxy |-> lns'[q]]
      /\ \A q \in MuxProxy : ~Grouped(q) => lns'[q] = lns[q] /\ run'[q] = run[q]
      /\ Listeners'
  BY <1>1, <1>2, GroupedStep
<1>10. MuxTypes'
  <2>1. \A q \in GroupObj : group'[q].acceptCh \in {"open", "closed"}
    BY <1>4 DEF MuxInv, MuxTypes
  <2>2. ctl' \in [MuxGroup -> GroupObj \union {NoObj}]
    BY <1>1, ObjFacts DEF MuxInv, MuxTypes
  <2> QED BY <1>1, <1>3, <1>4, <1>5, <1>8, <1>9, <2>1, <2>2 DEF MuxInv, MuxTypes
<1>11. InGroups'
  BY <1>1, <1>4 DEF MuxInv, InGroups
<1>12. Tabled'
  <2>1. ASSUME NEW q \in MuxProxy, ~Grouped(q), NEW n \in Range(lns'[q])
        PROVE  ListenerRt(q, n) \in Range(table')
    <3>1. ListenerRt(q, n) \in Range(table)
      BY <1>9, <2>1 DEF MuxInv, Tabled
    <3>2. ListenerRt(q, n) # Rt(group[o].key, o)
      BY ListenerFacts, RtFacts, ObjFacts
    <3> QED BY <1>8, <3>1, <3>2
  <2>2. ASSUME NEW q \in GroupObj, group'[q].members # {}
        PROVE  Rt(group'[q].key, q) \in Range(table')
    <3>1. q # o /\ Rt(group[q].key, q) \in Range(table)
      BY <1>4, <2>2 DEF MuxInv, Tabled
    <3>2. Rt(group[q].key, q) # Rt(group[o].key, o)
      BY <3>1, RtFacts
    <3> QED BY <1>4, <1>8, <3>1, <3>2
  <2>3. \A r \in Range(table') :
          \/ /\ r.payload \in GroupObj
             /\ group'[r.payload].acceptCh # "closed" => group'[r.payload].members # {}
          \/ \E q \in MuxProxy : /\ ~Grouped(q)
                                 /\ \E m \in Range(lns'[q]) : r = ListenerRt(q, m)
    BY <1>4, <1>8, <1>9 DEF MuxInv, Tabled
  <2> QED BY <2>1, <2>2, <2>3 DEF Tabled
<1>13. Workers'
  <2>1. \A q \in GroupObj :
          group'[q].acceptCh # "closed" /\ group'[q].members # {} => worker'[q] # "off"
    BY <1>4, <1>5 DEF MuxInv, Workers
  <2>2. \A c \in Conn : conn'[c].at = "worker" =>
          /\ conn'[c].ln \in GroupObj /\ group'[conn'[c].ln].acceptCh # "closed"
          /\ worker'[conn'[c].ln] = c
    BY <1>4, <1>5, <1>6 DEF MuxInv, Workers
  <2> QED BY <2>1, <2>2 DEF Workers
<1>14. Waiting'
  <2> SUFFICES ASSUME NEW c \in Conn, conn'[c].at \in {"send", "worker"}
               PROVE  \E r \in Range(table') : r.payload = conn'[c].ln
    BY WaitingNext
  <2>1. PICK r \in Range(table) : r.payload = conn[c].ln
    BY <1>6, OpenIsTabled DEF MuxInv, Waiting
  <2>2. r \in Range(table')
    BY <1>6, <1>8, <2>1, RtFacts
  <2> QED BY <1>6, <2>1, <2>2
<1> QED BY <1>9, <1>10, <1>11, <1>12, <1>13, <1>14 DEF MuxInv

\* The steps of a connection.
LEMMA ConnMux ==
  ASSUME MuxNames, MuxInv, NEW c \in Conn,
         \/ Handle(c) \/ Refuse(c) \/ Send(c) \/ Accept(c)
         \/ WorkerAccepts(c) \/ MemberAccepts(c)
  PROVE  MuxInv'
<1> USE DEF proxyVars, groupVars
<1>1. UNCHANGED <<table, run, lns, entering, ctl, objs, group>>
  BY DEF Handle, Refuse, Send, Accept, WorkerAccepts, MemberAccepts
<1>2. \E x : conn' = [conn EXCEPT ![c] = x]
  BY Zenon DEF Handle, Refuse, Send, Accept, WorkerAccepts, MemberAccepts
<1>3. conn' = [d \in Conn |-> conn'[d]] /\ \A d \in Conn : d # c => conn'[d] = conn[d]
  BY <1>2 DEF MuxInv, MuxTypes
<1>4. InGroups' /\ Listeners' /\ Tabled'
  BY <1>1 DEF MuxInv, InGroups, Listeners, Tabled
<1>5. CASE Handle(c) \/ Refuse(c) \/ Send(c) \/ Accept(c)
  <2>1. worker' = worker
    BY <1>5 DEF Handle, Refuse, Send, Accept
  <2>2. /\ conn'[c].at # "worker"
        /\ conn'[c].at = "send" => \E r \in Range(table') : r.payload = conn'[c].ln
    <3>1. CASE Handle(c)
      <4>1. PICK h \in MuxHosts, u \in MuxUsers :
              LET r == getVhost(table, h, <<>>, u)
              IN  conn' = [conn EXCEPT ![c] = IF r = NoRoute THEN [at |-> "closed"]
                                              ELSE [at |-> "found", ln |-> r.payload]]
        BY <3>1, Zenon DEF Handle
      <4> DEFINE r == getVhost(table, h, <<>>, u)
      <4>2. conn' = [conn EXCEPT ![c] = IF r = NoRoute THEN [at |-> "closed"]
                                        ELSE [at |-> "found", ln |-> r.payload]]
        BY <4>1
      <4> HIDE DEF r
      <4> QED BY <4>2 DEF MuxInv, MuxTypes
    <3>2. CASE Refuse(c) \/ Accept(c)
      BY <3>2 DEF Refuse, Accept, MuxInv, MuxTypes
    <3>3. CASE Send(c)
      <4>1. CASE Open(conn[c].ln)
        <5>1. conn'[c] = [at |-> "send", ln |-> conn[c].ln]
          BY <3>3, <4>1 DEF Send, MuxInv, MuxTypes
        <5>2. \E r \in Range(table') : r.payload = conn[c].ln
          BY <1>1, <4>1, OpenIsTabled
        <5> QED BY <5>1, <5>2
      <4>2. CASE ~Open(conn[c].ln)
        <5>1. conn'[c] = [at |-> "dropped"]
          BY <3>3, <4>2 DEF Send, MuxInv, MuxTypes
        <5> QED BY <5>1
      <4> QED BY <4>1, <4>2
    <3> QED BY <1>5, <3>1, <3>2, <3>3
  <2>3. MuxTypes'
    BY <1>1, <1>3, <2>1 DEF MuxInv, MuxTypes
  <2>4. Workers'
    BY <1>1, <1>3, <2>1, <2>2 DEF MuxInv, Workers
  <2>5. Waiting'
    <3>1. \A d \in Conn : d # c /\ conn'[d].at \in {"send", "worker"} =>
            \E r \in Range(table') : r.payload = conn'[d].ln
      BY <1>1, <1>3, OpenIsTabled DEF MuxInv, Waiting
    <3> QED BY <2>2, <3>1, WaitingNext
  <2> QED BY <1>4, <2>3, <2>4, <2>5 DEF MuxInv
<1>6. CASE WorkerAccepts(c) \/ MemberAccepts(c)
  <2> DEFINE o == conn[c].ln
  <2>1. o \in GroupObj /\ \A d \in Conn : d # c /\ conn[d].at = "worker" => conn[d].ln # o
    BY <1>6 DEF WorkerAccepts, MemberAccepts, MuxInv, Workers, MuxNames
  <2>2. \E r \in Range(table') : r.payload = o
    BY <1>1, <1>6, OpenIsTabled DEF WorkerAccepts, MemberAccepts, MuxInv, Waiting
  <2>3. \/ /\ worker' = [worker EXCEPT ![o] = c] /\ conn' = [conn EXCEPT ![c] = [at |-> "worker", ln |-> o]]
           /\ group[o].acceptCh = "open"
        \/ /\ worker' = [worker EXCEPT ![o] = "off"] /\ conn' = [conn EXCEPT ![c] = [at |-> "dropped"]]
           /\ group[o].acceptCh # "open"
        \/ /\ worker' = [worker EXCEPT ![o] = "accept"]
           /\ conn' = [conn EXCEPT ![c] = [at |-> "accepted"]]
    BY <1>6 DEF WorkerAccepts, MemberAccepts
  <2> HIDE DEF o
  <2>4. /\ worker' = [q \in GroupObj |-> worker'[q]]
        /\ \A q \in GroupObj : q # o => worker'[q] = worker[q]
    BY <2>1, <2>3 DEF MuxInv, MuxTypes
  <2>5. \/ /\ worker'[o] = c /\ conn'[c] = [at |-> "worker", ln |-> o] /\ group[o].acceptCh = "open"
        \/ /\ worker'[o] = "off" /\ conn'[c] = [at |-> "dropped"] /\ group[o].acceptCh = "closed"
        \/ /\ worker'[o] = "accept" /\ conn'[c] = [at |-> "accepted"]
    BY <2>1, <2>3 DEF MuxInv, MuxTypes
  <2>6. /\ conn'[c].at = "worker" => conn'[c].ln = o /\ worker'[o] = c /\ group[o].acceptCh # "closed"
        /\ conn'[c].at # "send"
        /\ group[o].acceptCh # "closed" => worker'[o] # "off"
    BY <2>5 DEF MuxNames
  <2>7. MuxTypes'
    BY <1>1, <1>3, <2>4 DEF MuxInv, MuxTypes
  <2>8. Workers'
    <3>1. \A q \in GroupObj :
            group'[q].acceptCh # "closed" /\ group'[q].members # {} => worker'[q] # "off"
      BY <1>1, <2>4, <2>6 DEF MuxInv, Workers
    <3>2. ASSUME NEW d \in Conn, conn'[d].at = "worker"
          PROVE  /\ conn'[d].ln \in GroupObj /\ group'[conn'[d].ln].acceptCh # "closed"
                 /\ worker'[conn'[d].ln] = d
      <4>1. CASE d = c
        BY <3>2, <4>1, <1>1, <2>1, <2>6
      <4>2. CASE d # c
        <5>1. conn'[d] = conn[d] /\ conn[d].ln # o
          BY <1>3, <2>1, <3>2, <4>2
        <5> QED BY <5>1, <3>2, <1>1, <2>4 DEF MuxInv, Workers
      <4> QED BY <4>1, <4>2
    <3> QED BY <3>1, <3>2 DEF Workers
  <2>9. Waiting'
    <3>1. \A d \in Conn : d # c /\ conn'[d].at \in {"send", "worker"} =>
            \E r \in Range(table') : r.payload = conn'[d].ln
      BY <1>1, <1>3, OpenIsTabled DEF MuxInv, Waiting
    <3> QED BY <2>2, <2>6, <3>1, WaitingNext
  <2> QED BY <1>4, <2>7, <2>8, <2>9 DEF MuxInv
<1> QED BY <1>5, <1>6

LEMMA NextMux == MuxNames /\ MuxInv /\ [MuxNext]_muxVars => MuxInv'
<1> SUFFICES ASSUME MuxNames, MuxInv, [MuxNext]_muxVars
             PROVE  MuxInv'
  OBVIOUS
<1>1. CASE UNCHANGED muxVars
  <2>1. UNCHANGED <<table, run, lns, entering, ctl, objs, group, worker, conn>>
    BY <1>1 DEF muxVars, proxyVars, groupVars
  <2>2. MuxTypes'
    BY <2>1 DEF MuxInv, MuxTypes
  <2>3. InGroups' /\ Workers'
    BY <2>1 DEF MuxInv, InGroups, Workers
  <2>4. Listeners'
    BY <2>1 DEF MuxInv, Listeners
  <2>5. Tabled'
    BY <2>1 DEF MuxInv, Tabled
  <2>6. Waiting'
    BY <2>1 DEF MuxInv, Waiting, Open
  <2> QED BY <2>2, <2>3, <2>4, <2>5, <2>6 DEF MuxInv
<1>2. ASSUME NEW p \in MuxProxy,
             \/ StartRun(p) \/ Listen(p) \/ FindObj(p) \/ HTTPConnectListen(p)
             \/ StartLoops(p) \/ StartClose(p) \/ CloseListener(p) \/ MuxCloseEnds(p)
             \/ \E o \in GroupObj : \/ LeaveGroup(p, o) \/ LeaveLast(p, o)
                                      \/ LeavePanics(p, o)
      PROVE  MuxInv'
  BY <1>2, QuietMux, ListenMux, FindObjMux, EnterMux, CloseListenerMux, LeaveMux, LeaveLastMux
<1> QED BY <1>1, <1>2, ConnMux DEF MuxNext

\* No handler of a connection waits for ever (NoHandlerStranded), for any number of
\* https and tcpmux proxies, domains, groups and connections: who waits is at an
\* open listener, whose proxy has still to start, runs or closes its accept loop,
\* or at a group with members and a worker, unless the group object was entered
\* again after its last member had left (Muxer.handle, Listener.Close and
\* TCPMuxGroup.CloseListener).
THEOREM HandlersAreNotStranded == MuxSpec => []NoHandlerStranded
<1> MuxNames
  BY MuxAssumption
<1>1. MuxInit => MuxInv
  BY MuxStarts
<1>2. MuxInv /\ [MuxNext]_muxVars => MuxInv'
  BY NextMux
<1>3. MuxInv => NoHandlerStranded
  BY MuxInvIsEnough
<1> QED BY <1>1, <1>2, <1>3, PTL DEF MuxSpec
=============================================================================
