----------------------------- MODULE PoolProofs -----------------------------
(***************************************************************************)
(* Proofs about module Pool, for any set of connection IDs, any number of  *)
(* visitors and any queue limit; and about module Metrics, which puts the  *)
(* counters and a scrape beside the pool: what a scrape may show.          *)
(***************************************************************************)
EXTENDS PoolVisits, Metrics, SequenceTheorems, FiniteSetTheorems, TLAPS

-----------------------------------------------------------------------------
(* What removing and inserting an element does to a list, for the idle list *)
(* and the queue of visitors.                                               *)

\* Removing position i shifts the elements behind it (list.Remove).
LEMMA RemoveAtIs ==
    ASSUME NEW S, NEW s \in Seq(S), NEW i \in 1..Len(s)
    PROVE  /\ RemoveAt(s, i) \in Seq(S)
           /\ Len(RemoveAt(s, i)) = Len(s) - 1
           /\ \A j \in 1..Len(s) - 1 : RemoveAt(s, i)[j] = IF j < i THEN s[j] ELSE s[j + 1]
<1> DEFINE a == SubSeq(s, 1, i - 1)
           b == SubSeq(s, i + 1, Len(s))
<1>0. Len(s) \in Nat /\ \A j \in 1..Len(s) : s[j] \in S
  BY ElementOfSeq, LenProperties
<1>1. a \in Seq(S) /\ Len(a) = i - 1 /\ \A j \in 1..i-1 : a[j] = s[j]
  <2>1. \A j \in 1..i-1 : s[j] \in S
    BY <1>0
  <2>2. i - 1 \in Int
    BY <1>0
  <2> QED
    BY <2>1, <2>2, SubSeqProperties, <1>0
<1>2. b \in Seq(S) /\ Len(b) = Len(s) - i /\ \A j \in 1..Len(s)-i : b[j] = s[i + j]
  <2>1. \A j \in i+1..Len(s) : s[j] \in S
    BY <1>0
  <2>2. i + 1 \in Int /\ Len(s) \in Int
    BY <1>0
  <2> QED
    BY <2>1, <2>2, SubSeqProperties, <1>0
<1> HIDE DEF a, b
<1>3. /\ a \o b \in Seq(S)
      /\ Len(a \o b) = Len(a) + Len(b)
      /\ \A j \in 1..Len(a)+Len(b) : (a \o b)[j] = IF j <= Len(a) THEN a[j] ELSE b[j - Len(a)]
  BY <1>1, <1>2, ConcatProperties
<1>4. RemoveAt(s, i) = a \o b
  BY DEF RemoveAt, a, b
<1>5. Len(a \o b) = Len(s) - 1
  BY <1>0, <1>1, <1>2, <1>3
<1>6. ASSUME NEW j \in 1..Len(s) - 1
      PROVE  (a \o b)[j] = IF j < i THEN s[j] ELSE s[j + 1]
  <2>1. (a \o b)[j] = IF j <= Len(a) THEN a[j] ELSE b[j - Len(a)]
    BY <1>0, <1>1, <1>2, <1>3
  <2>2. CASE j < i
    BY <2>1, <2>2, <1>0, <1>1
  <2>3. CASE ~(j < i)
    <3>1. j - (i - 1) \in 1..Len(s) - i /\ i + (j - (i - 1)) = j + 1
      BY <2>3, <1>0
    <3>2. b[j - (i - 1)] = s[j + 1]
      BY <3>1, <1>2
    <3> QED
      BY <2>1, <2>3, <3>2, <1>0, <1>1
  <2> QED
    BY <2>2, <2>3
<1> QED
  BY <1>3, <1>4, <1>5, <1>6

\* Inserting at position i shifts the elements from there on (list.InsertAfter).
LEMMA InsertAtIs ==
    ASSUME NEW S, NEW s \in Seq(S), NEW i \in 1..Len(s) + 1, NEW e \in S
    PROVE  /\ InsertAt(s, i, e) \in Seq(S)
           /\ Len(InsertAt(s, i, e)) = Len(s) + 1
           /\ \A j \in 1..Len(s) + 1 :
                InsertAt(s, i, e)[j] = IF j < i THEN s[j] ELSE IF j = i THEN e ELSE s[j - 1]
<1> DEFINE a == SubSeq(s, 1, i - 1)
           b == SubSeq(s, i, Len(s))
           m == <<e>>
<1>0. Len(s) \in Nat /\ \A j \in 1..Len(s) : s[j] \in S
  BY ElementOfSeq, LenProperties
<1>1. a \in Seq(S) /\ Len(a) = i - 1 /\ \A j \in 1..i-1 : a[j] = s[j]
  <2>1. \A j \in 1..i-1 : s[j] \in S
    BY <1>0
  <2>2. i - 1 \in Int
    BY <1>0
  <2> QED
    BY <2>1, <2>2, SubSeqProperties, <1>0
<1>2. b \in Seq(S) /\ Len(b) = Len(s) - i + 1 /\ \A j \in 1..Len(s)-i+1 : b[j] = s[i + j - 1]
  <2>1. \A j \in i..Len(s) : s[j] \in S
    BY <1>0
  <2>2. i \in Int /\ Len(s) \in Int
    BY <1>0
  <2> QED
    BY <2>1, <2>2, SubSeqProperties, <1>0
<1>3. m \in Seq(S) /\ Len(m) = 1 /\ m[1] = e
  OBVIOUS
<1> HIDE DEF a, b, m
<1> DEFINE c == a \o m
<1>4. /\ c \in Seq(S)
      /\ Len(c) = i
      /\ \A j \in 1..i : c[j] = IF j < i THEN s[j] ELSE e
  <2>1. /\ c \in Seq(S)
        /\ Len(c) = Len(a) + Len(m)
        /\ \A j \in 1..Len(a)+Len(m) : c[j] = IF j <= Len(a) THEN a[j] ELSE m[j - Len(a)]
    BY <1>1, <1>3, ConcatProperties
  <2> QED
    BY <1>0, <1>1, <1>3, <2>1
<1>6. InsertAt(s, i, e) = c \o b
  BY DEF InsertAt, a, b, m
<1> HIDE DEF c
<1>5. /\ c \o b \in Seq(S)
      /\ Len(c \o b) = Len(c) + Len(b)
      /\ \A j \in 1..Len(c)+Len(b) : (c \o b)[j] = IF j <= Len(c) THEN c[j] ELSE b[j - Len(c)]
  BY <1>2, <1>4, ConcatProperties
<1>7. Len(c \o b) = Len(s) + 1
  BY <1>0, <1>2, <1>4, <1>5
<1>8. ASSUME NEW j \in 1..Len(s) + 1
      PROVE  (c \o b)[j] = IF j < i THEN s[j] ELSE IF j = i THEN e ELSE s[j - 1]
  <2>1. (c \o b)[j] = IF j <= i THEN c[j] ELSE b[j - i]
    BY <1>0, <1>2, <1>4, <1>5
  <2>2. CASE j <= i
    BY <2>1, <2>2, <1>0, <1>4
  <2>3. CASE ~(j <= i)
    <3>1. j - i \in 1..Len(s) - i + 1 /\ i + (j - i) - 1 = j - 1
      BY <2>3, <1>0
    <3>2. b[j - i] = s[j - 1]
      BY <3>1, <1>2
    <3> QED
      BY <2>1, <2>3, <3>2, <1>0
  <2> QED
    BY <2>2, <2>3
<1> QED
  BY <1>5, <1>6, <1>7, <1>8

\* Removing an element that is there, once, removes its position.
LEMMA RemoveFirstIs ==
    ASSUME NEW S, NEW s \in Seq(S), NEW i \in 1..Len(s),
           \A j \in 1..Len(s) : s[j] = s[i] => j = i
    PROVE  RemoveFirst(s, s[i]) = RemoveAt(s, i)
<1> DEFINE I == {j \in 1..Len(s) : s[j] = s[i]}
<1>1. I = {i}
  OBVIOUS
<1>2. Min(I) = i
  BY <1>1, i <= i DEF Min
<1>3. SelectInSeq(s, LAMBDA v : v = s[i]) = i
  BY <1>1, <1>2 DEF SelectInSeq
<1> QED
  BY <1>3 DEF RemoveFirst

\* Removing an element that is not there changes nothing.
LEMMA RemoveFirstAbsent ==
    ASSUME NEW s, NEW e, \A j \in 1..Len(s) : s[j] # e
    PROVE  RemoveFirst(s, e) = s
BY DEF RemoveFirst

Ascending(s) == \A i, j \in 1..Len(s) : i < j => s[i] < s[j]
Has(s, x) == \E i \in 1..Len(s) : s[i] = x

\* Removing an element from an ascending list leaves it ascending and takes out
\* that element only.
LEMMA RemoveFromAscending ==
    ASSUME NEW S, S \subseteq Nat, NEW s \in Seq(S), Ascending(s), NEW e \in S
    PROVE  /\ RemoveFirst(s, e) \in Seq(S)
           /\ Ascending(RemoveFirst(s, e))
           /\ \A x : Has(RemoveFirst(s, e), x) <=> Has(s, x) /\ x # e
<1>0. Len(s) \in Nat /\ \A j \in 1..Len(s) : s[j] \in Nat
  BY ElementOfSeq, LenProperties
<1>1. CASE ~Has(s, e)
  <2>1. RemoveFirst(s, e) = s
    BY <1>1, RemoveFirstAbsent DEF Has
  <2> QED
    BY <1>1, <2>1 DEF Has
<1>2. CASE Has(s, e)
  <2>1. PICK i \in 1..Len(s) : s[i] = e
    BY <1>2 DEF Has
  <2>2. \A j \in 1..Len(s) : s[j] = s[i] => j = i
    BY <1>0 DEF Ascending
  <2>3. RemoveFirst(s, e) = RemoveAt(s, i)
    BY <2>1, <2>2, RemoveFirstIs
  <2> DEFINE t == RemoveAt(s, i)
  <2>4. /\ t \in Seq(S)
        /\ Len(t) = Len(s) - 1
        /\ \A j \in 1..Len(s) - 1 : t[j] = IF j < i THEN s[j] ELSE s[j + 1]
    BY RemoveAtIs
  <2> HIDE DEF t
  <2>5. ASSUME NEW j \in 1..Len(t), NEW k \in 1..Len(t), j < k PROVE t[j] < t[k]
    <3>1. PICK p \in 1..Len(s) : t[j] = s[p] /\ p = IF j < i THEN j ELSE j + 1
      BY <1>0, <2>4
    <3>2. PICK q \in 1..Len(s) : t[k] = s[q] /\ q = IF k < i THEN k ELSE k + 1
      BY <1>0, <2>4
    <3>3. p < q
      BY <2>5, <3>1, <3>2, <1>0
    <3> QED
      BY <3>1, <3>2, <3>3 DEF Ascending
  <2>6. ASSUME NEW x PROVE Has(t, x) <=> Has(s, x) /\ x # e
    <3>1. ASSUME Has(t, x) PROVE Has(s, x) /\ x # e
      <4>1. PICK j \in 1..Len(s) - 1 : t[j] = x
        BY <3>1, <2>4 DEF Has
      <4>2. CASE j < i
        BY <4>1, <4>2, <2>1, <2>2, <2>4, <1>0 DEF Has
      <4>3. CASE ~(j < i)
        BY <4>1, <4>3, <2>1, <2>2, <2>4, <1>0 DEF Has
      <4> QED
        BY <4>2, <4>3
    <3>2. ASSUME Has(s, x), x # e PROVE Has(t, x)
      <4>1. PICK j \in 1..Len(s) : s[j] = x /\ j # i
        BY <3>2, <2>1 DEF Has
      <4>2. CASE j < i
        <5>1. j \in 1..Len(t) /\ t[j] = x
          BY <4>1, <4>2, <2>4, <1>0
        <5> QED
          BY <5>1 DEF Has
      <4>3. CASE j > i
        <5>1. j - 1 \in 1..Len(t) /\ ~(j - 1 < i) /\ j - 1 + 1 = j
          BY <4>1, <4>3, <2>4, <1>0
        <5>2. t[j - 1] = x
          BY <5>1, <4>1, <2>4
        <5> QED
          BY <5>1, <5>2 DEF Has
      <4> QED
        BY <4>1, <4>2, <4>3, <1>0
    <3> QED
      BY <3>1, <3>2
  <2> QED
    BY <2>3, <2>4, <2>5, <2>6 DEF t, Ascending
<1> QED
  BY <1>1, <1>2

\* Inserting a new element behind the last smaller one keeps the list ascending.
LEMMA InsertIntoAscending ==
    ASSUME NEW S, S \subseteq Nat, NEW s \in Seq(S), Ascending(s),
           NEW e \in S, ~Has(s, e), NEW i \in 0..Len(s),
           i > 0 => s[i] <= e, \A j \in i+1..Len(s) : s[j] > e
    PROVE  /\ InsertAt(s, i + 1, e) \in Seq(S)
           /\ Ascending(InsertAt(s, i + 1, e))
           /\ \A x : Has(InsertAt(s, i + 1, e), x) <=> Has(s, x) \/ x = e
<1>0. Len(s) \in Nat /\ e \in Nat /\ \A j \in 1..Len(s) : s[j] \in Nat
  BY ElementOfSeq, LenProperties
<1> DEFINE t == InsertAt(s, i + 1, e)
<1>1. /\ t \in Seq(S)
      /\ Len(t) = Len(s) + 1
      /\ \A j \in 1..Len(s) + 1 :
            t[j] = IF j < i + 1 THEN s[j] ELSE IF j = i + 1 THEN e ELSE s[j - 1]
  <2>1. PICK p \in 1..Len(s) + 1 : p = i + 1
    BY <1>0
  <2>2. /\ InsertAt(s, p, e) \in Seq(S)
        /\ Len(InsertAt(s, p, e)) = Len(s) + 1
        /\ \A j \in 1..Len(s) + 1 :
              InsertAt(s, p, e)[j] = IF j < p THEN s[j] ELSE IF j = p THEN e ELSE s[j - 1]
    BY InsertAtIs
  <2> QED
    BY <2>1, <2>2
<1> HIDE DEF t
<1>2. \A j \in 1..i : s[j] < e
  <2> TAKE j \in 1..i
  <2>1. i > 0 /\ i \in 1..Len(s) /\ j \in 1..Len(s)
    BY <1>0
  <2>2. s[i] < e
    BY <1>0, <2>1 DEF Has
  <2>3. CASE j = i
    BY <2>2, <2>3
  <2>4. CASE j < i
    BY <2>1, <2>2, <2>4, <1>0 DEF Ascending
  <2> QED
    BY <2>1, <2>3, <2>4
<1>3. \A j \in 1..Len(t) : t[j] \in Nat
  BY <1>0, <1>1
<1>4. ASSUME NEW j \in 1..Len(t), NEW k \in 1..Len(t), j < k PROVE t[j] < t[k]
  <2>1. CASE k < i + 1
    <3>1. j \in 1..Len(s) /\ k \in 1..Len(s) /\ t[j] = s[j] /\ t[k] = s[k]
      BY <2>1, <1>0, <1>1, <1>4
    <3> QED
      BY <3>1, <1>4 DEF Ascending
  <2>2. CASE k = i + 1
    <3>1. j \in 1..i /\ t[j] = s[j] /\ t[k] = e
      BY <2>2, <1>0, <1>1, <1>4
    <3> QED
      BY <3>1, <1>2
  <2>3. CASE k > i + 1
    <3>0. k - 1 \in i+1..Len(s) /\ k - 1 \in 1..Len(s) /\ t[k] = s[k - 1]
      BY <2>3, <1>0, <1>1
    <3>1. CASE j < i + 1
      <4>1. j \in 1..Len(s) /\ j < k - 1 /\ t[j] = s[j]
        BY <3>1, <2>3, <1>0, <1>1
      <4> QED
        BY <3>0, <4>1 DEF Ascending
    <3>2. CASE j = i + 1
      BY <3>0, <3>2, <1>0, <1>1
    <3>3. CASE j > i + 1
      <4>1. j - 1 \in 1..Len(s) /\ j - 1 < k - 1 /\ t[j] = s[j - 1]
        BY <3>3, <1>4, <1>0, <1>1
      <4> QED
        BY <3>0, <4>1 DEF Ascending
    <3> QED
      BY <3>1, <3>2, <3>3, <1>0
  <2> QED
    BY <2>1, <2>2, <2>3, <1>0
<1>5. ASSUME NEW x PROVE Has(t, x) <=> Has(s, x) \/ x = e
  <2>1. ASSUME Has(t, x) PROVE Has(s, x) \/ x = e
    <3>1. PICK j \in 1..Len(s) + 1 : t[j] = x
      BY <2>1, <1>1 DEF Has
    <3>2. CASE j < i + 1
      BY <3>1, <3>2, <1>0, <1>1 DEF Has
    <3>3. CASE j = i + 1
      BY <3>1, <3>3, <1>0, <1>1
    <3>4. CASE j > i + 1
      <4>1. j - 1 \in 1..Len(s) /\ s[j - 1] = x
        BY <3>1, <3>4, <1>0, <1>1
      <4> QED
        BY <4>1 DEF Has
    <3> QED
      BY <3>2, <3>3, <3>4, <1>0
  <2>2. ASSUME Has(s, x) PROVE Has(t, x)
    <3>1. PICK j \in 1..Len(s) : s[j] = x
      BY <2>2 DEF Has
    <3>2. CASE j < i + 1
      <4>1. j \in 1..Len(t) /\ t[j] = x
        BY <3>1, <3>2, <1>0, <1>1
      <4> QED
        BY <4>1 DEF Has
    <3>3. CASE ~(j < i + 1)
      <4>1. j + 1 \in 1..Len(t) /\ ~(j + 1 < i + 1) /\ j + 1 # i + 1 /\ j + 1 - 1 = j
        BY <3>1, <3>3, <1>0, <1>1
      <4>2. t[j + 1] = x
        BY <4>1, <3>1, <1>1
      <4> QED
        BY <4>1, <4>2 DEF Has
    <3> QED
      BY <3>2, <3>3
  <2>3. ASSUME x = e PROVE Has(t, x)
    <3>1. i + 1 \in 1..Len(t) /\ t[i + 1] = e
      BY <1>0, <1>1
    <3> QED
      BY <2>3, <3>1 DEF Has
  <2> QED
    BY <2>1, <2>2, <2>3
<1> QED
  BY <1>1, <1>4, <1>5 DEF Ascending, t

\* What is left of an ascending list behind its first elements.
LEMMA TailOfAscending ==
    ASSUME NEW S, NEW s \in Seq(S), Ascending(s), NEW p \in 1..Len(s) + 1
    PROVE  /\ Ascending(SubSeq(s, p, Len(s)))
           /\ \A x : Has(SubSeq(s, p, Len(s)), x) <=> \E j \in p..Len(s) : s[j] = x
<1> DEFINE t == SubSeq(s, p, Len(s))
<1>0. Len(s) \in Nat /\ p \in Nat /\ \A j \in 1..Len(s) : s[j] \in S
  BY ElementOfSeq, LenProperties
<1>1. /\ Len(t) = Len(s) - p + 1
      /\ \A j \in 1..Len(s)-p+1 : t[j] = s[p + j - 1]
  <2>1. \A j \in p..Len(s) : s[j] \in S
    BY <1>0
  <2> QED
    BY <2>1, SubSeqProperties, <1>0
<1> HIDE DEF t
<1>2. Ascending(t)
  <2> SUFFICES ASSUME NEW i \in 1..Len(t), NEW j \in 1..Len(t), i < j PROVE t[i] < t[j]
    BY DEF Ascending
  <2>1. /\ p + i - 1 \in 1..Len(s) /\ p + j - 1 \in 1..Len(s) /\ p + i - 1 < p + j - 1
        /\ t[i] = s[p + i - 1] /\ t[j] = s[p + j - 1]
    BY <1>0, <1>1
  <2> QED
    BY <2>1 DEF Ascending
<1>3. ASSUME NEW x, Has(t, x) PROVE \E j \in p..Len(s) : s[j] = x
  <2>1. PICK i \in 1..Len(t) : t[i] = x
    BY <1>3 DEF Has
  <2>2. p + i - 1 \in p..Len(s) /\ s[p + i - 1] = x
    BY <1>0, <1>1, <2>1
  <2> QED
    BY <2>2
<1>4. ASSUME NEW x, NEW j \in p..Len(s), s[j] = x PROVE Has(t, x)
  <2>1. j - p + 1 \in 1..Len(t) /\ p + (j - p + 1) - 1 = j
    BY <1>0, <1>1
  <2>2. t[j - p + 1] = x
    BY <1>1, <1>4, <2>1
  <2> QED
    BY <2>1, <2>2 DEF Has
<1> QED
  BY <1>2, <1>3, <1>4 DEF t

\* No element of an ascending list of numbers is there twice.
LEMMA AscendingIsDistinct ==
    ASSUME NEW S, S \subseteq Nat, NEW s \in Seq(S), Ascending(s),
           NEW i \in 1..Len(s), NEW j \in 1..Len(s), s[i] = s[j]
    PROVE  i = j
<1>1. s[i] \in Nat /\ s[j] \in Nat /\ Len(s) \in Nat
  BY ElementOfSeq, LenProperties
<1> QED
  BY <1>1 DEF Ascending

\* Removing one position of an ascending list.
LEMMA RemoveOneFromAscending ==
    ASSUME NEW S, S \subseteq Nat, NEW s \in Seq(S), Ascending(s), NEW i \in 1..Len(s)
    PROVE  /\ Ascending(RemoveAt(s, i))
           /\ \A x : Has(RemoveAt(s, i), x) <=> Has(s, x) /\ x # s[i]
<1>1. RemoveFirst(s, s[i]) = RemoveAt(s, i)
  BY RemoveFirstIs, AscendingIsDistinct
<1>2. s[i] \in S
  BY ElementOfSeq
<1>3. /\ Ascending(RemoveFirst(s, s[i]))
      /\ \A x : Has(RemoveFirst(s, s[i]), x) <=> Has(s, x) /\ x # s[i]
  BY <1>2, RemoveFromAscending
<1> QED
  BY <1>1, <1>3


-----------------------------------------------------------------------------
(* The helpers that move a worker into and out of the idle list.            *)

\* unlinkLocked takes out the one worker and keeps the order.
LEMMA UnlinkIs ==
    ASSUME idle \in Seq(Worker), IdleSorted, NEW w \in Worker
    PROVE  /\ Unlink(w) \in Seq(Worker)
           /\ Ascending(Unlink(w))
           /\ \A u : Has(Unlink(w), u) <=> Has(idle, u) /\ u # w
<1>1. Worker \subseteq Nat
  BY WorkerAssumption
<1>2. Ascending(idle)
  BY DEF IdleSorted, Ascending
<1> QED
  BY <1>1, <1>2, RemoveFromAscending DEF Unlink

\* pushIdleLocked adds a worker that is not in the list and keeps the order.
LEMMA PushIdleIs ==
    ASSUME idle \in Seq(Worker), IdleSorted, NEW w \in Worker, ~Has(idle, w), PushIdle(w)
    PROVE  /\ idle' \in Seq(Worker)
           /\ Ascending(idle')
           /\ \A u : Has(idle', u) <=> Has(idle, u) \/ u = w
           /\ state' = [state EXCEPT ![w] = "idle"]
<1>1. Worker \subseteq Nat
  BY WorkerAssumption
<1>2. Ascending(idle)
  BY DEF IdleSorted, Ascending
<1>3. PICK i \in 0..Len(idle) : IsInsertPoint(i, w) /\ idle' = InsertAt(idle, i + 1, w)
  BY DEF PushIdle
<1>4. (i > 0 => idle[i] <= w) /\ \A j \in i+1..Len(idle) : idle[j] > w
  BY <1>3 DEF IsInsertPoint
<1>5. /\ InsertAt(idle, i + 1, w) \in Seq(Worker)
      /\ Ascending(InsertAt(idle, i + 1, w))
      /\ \A u : Has(InsertAt(idle, i + 1, w), u) <=> Has(idle, u) \/ u = w
  BY <1>1, <1>2, <1>4, InsertIntoAscending
<1> QED
  BY <1>3, <1>5 DEF PushIdle

\* The worker at the Back of the list is a worker in state idle.
LEMMA BackIs ==
    ASSUME TypeOK, IdleListExact, WorkerConsistent, idle # <<>>
    PROVE  /\ Last(idle) \in Worker
           /\ state[Last(idle)] = "idle"
<1>1. idle \in Seq(Worker) /\ Len(idle) \in 1..Len(idle)
  BY EmptySeq, LenProperties DEF TypeOK
<1>2. Last(idle) = idle[Len(idle)] /\ Last(idle) \in Worker
  BY <1>1 DEF Last
<1> QED
  BY <1>1, <1>2 DEF IdleListExact, IdleIsState

\* Worker.Closed leaves the worker closed and out of the list, and nothing else
\* of the list or of other workers changes.
LEMMA ClosedIs ==
    ASSUME TypeOK, IdleListExact, NEW w \in Worker, Closed(w)
    PROVE  /\ idle' \in Seq(Worker)
           /\ Ascending(idle')
           /\ \A u : Has(idle', u) <=> Has(idle, u) /\ u # w
           /\ state' = [state EXCEPT ![w] = "closed"]
           /\ mailbox' \in [Worker -> Visitor \cup {NoVisitor}]
           /\ business' \in [Worker -> Visitor \cup {NoVisitor}]
           /\ wake' \in [Worker -> BOOLEAN]
           /\ closedTcp' \subseteq Visitor
           /\ closedTcp \subseteq closedTcp'
<1>1. CASE state[w] = "closed"
  <2>1. UNCHANGED <<state, idle, mailbox, business, wake, closedTcp>>
    BY <1>1 DEF Closed
  <2>2. ~Has(idle, w)
    BY <1>1 DEF IdleListExact, IdleIsState, Has
  <2> QED
    BY <1>1, <2>1, <2>2 DEF TypeOK, IdleListExact, IdleSorted, Ascending
<1>2. CASE state[w] # "closed"
  <2>1. idle' = Unlink(w) /\ state' = [state EXCEPT ![w] = "closed"]
    BY <1>2 DEF Closed
  <2>2. /\ Unlink(w) \in Seq(Worker)
        /\ Ascending(Unlink(w))
        /\ \A u : Has(Unlink(w), u) <=> Has(idle, u) /\ u # w
    BY UnlinkIs DEF TypeOK, IdleListExact
  <2>3. Owned(w) \subseteq Visitor
    BY DEF TypeOK, Owned
  <2>4. /\ mailbox' \in [Worker -> Visitor \cup {NoVisitor}]
        /\ business' \in [Worker -> Visitor \cup {NoVisitor}]
        /\ wake' \in [Worker -> BOOLEAN]
    BY <1>2 DEF Closed, Notify, TypeOK
  <2>5. closedTcp' = closedTcp \cup Owned(w)
    BY <1>2 DEF Closed
  <2> QED
    BY <2>1, <2>2, <2>3, <2>4, <2>5 DEF TypeOK
<1> QED
  BY <1>1, <1>2

\* matchLocked takes a front part of the queue and gives the worker its next
\* visitor, or takes all of it and parks the worker.
LEMMA MatchIs ==
    ASSUME TypeOK, IdleListExact, NEW w \in Worker, state[w] # "idle", Match(w)
    PROVE  /\ waiting' \in Seq(Visitor)
           /\ pending' - pending = Len(waiting') - Len(waiting)
           /\ Len(waiting') <= Len(waiting)
           /\ closedTcp' \subseteq Visitor /\ closedTcp \subseteq closedTcp'
           /\ waitTimeouts' \in Nat /\ waitCanceled' \in Nat
           /\ \/ \E v \in Visitor : Lend(w, v) /\ UNCHANGED idle
              \/ /\ waiting' = <<>>
                 /\ idle' \in Seq(Worker) /\ Ascending(idle')
                 /\ \A u : Has(idle', u) <=> Has(idle, u) \/ u = w
                 /\ state' = [state EXCEPT ![w] = "idle"]
                 /\ business' = [business EXCEPT ![w] = NoVisitor]
                 /\ UNCHANGED <<mailbox, wake>>
<1>1. PICK k \in 0..Len(waiting) :
          /\ Drop(k)
          /\ closedTcp' = closedTcp \cup Dropped(k)
          /\ MatchServes(w, k) \/ MatchParks(w, k)
  BY DEF Match
<1>0. Len(waiting) \in Nat /\ k \in Nat /\ k <= Len(waiting)
  BY LenProperties DEF TypeOK
<1>2. \A j \in 1..Len(waiting) : waiting[j] \in Visitor
  BY ElementOfSeq DEF TypeOK
<1>3. closedTcp' \subseteq Visitor /\ closedTcp \subseteq closedTcp'
  <2>1. Dropped(k) \subseteq Visitor
    <3> SUFFICES ASSUME NEW j \in 1..k PROVE waiting[j] \in Visitor
      BY DEF Dropped
    <3> QED
      BY <1>0, <1>2
  <2>2. closedTcp' = closedTcp \cup Dropped(k)
    BY <1>1
  <2>3. closedTcp \subseteq Visitor
    BY DEF TypeOK
  <2> QED
    BY <2>1, <2>2, <2>3
<1>4. waitTimeouts' \in Nat /\ waitCanceled' \in Nat
  BY <1>0, <1>1 DEF TypeOK, Drop
<1>5. CASE MatchServes(w, k)
  <2>1. /\ waiting' = SubSeq(waiting, k + 2, Len(waiting)) /\ k < Len(waiting)
        /\ pending' = pending - (k + 1)
        /\ Lend(w, waiting[k + 1]) /\ UNCHANGED idle
    BY <1>5 DEF MatchServes
  <2>2. \A j \in k+2..Len(waiting) : waiting[j] \in Visitor
    BY <1>0, <1>2
  <2>3. PICK p \in Int : p = k + 2
    BY <1>0
  <2>4. /\ SubSeq(waiting, p, Len(waiting)) \in Seq(Visitor)
        /\ Len(SubSeq(waiting, p, Len(waiting)))
              = IF p <= Len(waiting) THEN Len(waiting) - p + 1 ELSE 0
    BY <1>0, <2>2, <2>3, SubSeqProperties
  <2>5. waiting' \in Seq(Visitor) /\ Len(waiting') = Len(waiting) - (k + 1)
    BY <1>0, <2>1, <2>3, <2>4
  <2>6. pending' - pending = Len(waiting') - Len(waiting)
    <3>1. pending \in Int
      BY DEF TypeOK
    <3>2. pending' = pending - (k + 1) /\ Len(waiting') = Len(waiting) - (k + 1)
      BY <2>1, <2>5
    <3> QED
      BY <1>0, <3>1, <3>2
  <2>7. waiting[k + 1] \in Visitor
    BY <1>0, <1>2, <2>1
  <2> QED
    BY <1>0, <1>3, <1>4, <2>1, <2>5, <2>6, <2>7
<1>6. CASE MatchParks(w, k)
  <2>1. /\ waiting' = <<>> /\ k = Len(waiting)
        /\ pending' = pending - k
        /\ PushIdle(w)
        /\ business' = [business EXCEPT ![w] = NoVisitor]
        /\ UNCHANGED <<mailbox, wake>>
    BY <1>6 DEF MatchParks
  <2>2. waiting' \in Seq(Visitor) /\ Len(waiting') = 0
    BY <2>1
  <2>3. pending' - pending = Len(waiting') - Len(waiting)
    BY <1>0, <2>1, <2>2 DEF TypeOK
  <2>4. ~Has(idle, w)
    BY DEF IdleListExact, IdleIsState, Has
  <2>5. /\ idle' \in Seq(Worker) /\ Ascending(idle')
        /\ \A u : Has(idle', u) <=> Has(idle, u) \/ u = w
        /\ state' = [state EXCEPT ![w] = "idle"]
    BY <2>1, <2>4, PushIdleIs DEF TypeOK, IdleListExact
  <2> QED
    BY <1>0, <1>3, <1>4, <2>1, <2>2, <2>3, <2>5
<1> QED
  BY <1>1, <1>5, <1>6

-----------------------------------------------------------------------------
(* Every variable keeps its type.                                           *)

\* A pool as New returns it has the right types.
LEMMA TypeInit == Init => TypeOK
<1> SUFFICES ASSUME Init PROVE TypeOK
  OBVIOUS
<1>0. stopping \in BOOLEAN /\ ctxDone \in BOOLEAN /\ forced \in BOOLEAN
  BY DEF Init
<1>1. /\ pending \in Int /\ waitTimeouts \in Nat /\ waitCanceled \in Nat
      /\ refused \in Nat /\ leases \in Nat /\ late \subseteq Visitor
      /\ closedTcp \subseteq Visitor /\ stopSet \subseteq Worker /\ forceSet \subseteq Worker
  BY DEF Init
<1>2. idle \in Seq(Worker) /\ waiting \in Seq(Visitor)
  BY DEF Init
<1>3. arrived \in 0..MaxVisitors /\ idleLeft \in [Worker -> 0..IdleTicks]
  BY BoundAssumption, TimerAssumption DEF Init
<1>4. /\ state \in [Worker -> State] /\ at \in [Worker -> Place]
      /\ mailbox \in [Worker -> Visitor \cup {NoVisitor}]
      /\ business \in [Worker -> Visitor \cup {NoVisitor}]
      /\ serving \in [Worker -> Visitor \cup {NoVisitor}]
      /\ wake \in [Worker -> BOOLEAN] /\ aged \in [Worker -> BOOLEAN]
      /\ hbDue \in [Worker -> BOOLEAN]
  BY DEF Init, State, Place
<1> QED
  BY <1>0, <1>1, <1>2, <1>3, <1>4 DEF TypeOK

\* Every action of the pool keeps the types.
LEMMA TypeStep ==
    ASSUME TypeOK, IdleListExact, WorkerConsistent, PendingExact, Next
    PROVE  TypeOK'
<1> USE DEF poolVars, queueVars, workerVars, routineVars, visitorVars, shutdownVars
<1>1. ASSUME NEW w \in Worker, Closed(w)
      PROVE  /\ idle' \in Seq(Worker) /\ state' \in [Worker -> State]
             /\ mailbox' \in [Worker -> Visitor \cup {NoVisitor}]
             /\ business' \in [Worker -> Visitor \cup {NoVisitor}]
             /\ wake' \in [Worker -> BOOLEAN] /\ closedTcp' \subseteq Visitor
  <2>1. state' = [state EXCEPT ![w] = "closed"]
    BY <1>1, ClosedIs
  <2> QED
    BY <1>1, <2>1, ClosedIs DEF TypeOK, State
<1>2. ASSUME NEW w \in Worker, Register(w) PROVE TypeOK'
  BY <1>2 DEF Register, Goto, TypeOK, State, Place
<1>3. ASSUME NEW w \in Worker, HandshakeFails(w) PROVE TypeOK'
  BY <1>3, <1>1 DEF HandshakeFails, Goto, TypeOK, Place
<1>4. ASSUME NEW w \in Worker, IdleStopped(w) PROVE TypeOK'
  BY <1>4, <1>1 DEF IdleStopped, Goto, TypeOK, Place
<1>5. ASSUME NEW w \in Worker, IdleExpired(w) PROVE TypeOK'
  BY <1>5 DEF IdleExpired, Goto, TypeOK, Place, State
<1>6. ASSUME NEW w \in Worker, IdleReady(w) PROVE TypeOK'
  <2>1. state[w] # "idle"
    BY <1>6 DEF IdleReady, CallsIdle, WorkerConsistent, Consistent, Agree
  <2>2. /\ Match(w) /\ Goto(w, "loop") /\ hbDue' = [hbDue EXCEPT ![w] = FALSE]
        /\ idleLeft' = [idleLeft EXCEPT ![w] = IF RestartsIdleDeadline(w) THEN IdleTicks ELSE @]
        /\ UNCHANGED <<stopping, aged, serving, arrived, late, refused, leases, shutdownVars>>
    BY <1>6 DEF IdleReady
  <2>3. idleLeft' \in [Worker -> 0..IdleTicks]
    BY <2>2, TimerAssumption DEF TypeOK
  <2>4. /\ waiting' \in Seq(Visitor)
        /\ pending' - pending = Len(waiting') - Len(waiting)
        /\ closedTcp' \subseteq Visitor
        /\ waitTimeouts' \in Nat /\ waitCanceled' \in Nat
        /\ \/ \E v \in Visitor : Lend(w, v) /\ UNCHANGED idle
           \/ /\ idle' \in Seq(Worker)
              /\ state' = [state EXCEPT ![w] = "idle"]
              /\ business' = [business EXCEPT ![w] = NoVisitor]
              /\ UNCHANGED <<mailbox, wake>>
    BY <2>1, <2>2, MatchIs
  <2>5. /\ idle' \in Seq(Worker) /\ state' \in [Worker -> State]
        /\ mailbox' \in [Worker -> Visitor \cup {NoVisitor}]
        /\ business' \in [Worker -> Visitor \cup {NoVisitor}]
        /\ wake' \in [Worker -> BOOLEAN]
    <3>1. CASE \E v \in Visitor : Lend(w, v) /\ UNCHANGED idle
      BY <3>1 DEF TypeOK, State, Lend, Notify
    <3>2. CASE /\ idle' \in Seq(Worker)
               /\ state' = [state EXCEPT ![w] = "idle"]
               /\ business' = [business EXCEPT ![w] = NoVisitor]
               /\ UNCHANGED <<mailbox, wake>>
      BY <3>2 DEF TypeOK, State
    <3> QED
      BY <2>4, <3>1, <3>2
  <2>6. pending' \in Int
    BY <2>2 DEF Match, MatchServes, MatchParks, TypeOK
  <2> QED
    BY <2>2, <2>3, <2>4, <2>5, <2>6 DEF TypeOK, Goto, Place
<1>7. ASSUME NEW w \in Worker, Next_Loop(w) PROVE TypeOK'
  BY <1>7 DEF Next_Loop, NextStopped, NextLeased, NextBlocks, StopTimers, Goto, TypeOK, Place
<1>8. ASSUME NEW w \in Worker, SelectWake(w) PROVE TypeOK'
  BY <1>8 DEF SelectWake, Goto, TypeOK, Place
<1>9. ASSUME NEW w \in Worker, SelectHeartbeat(w) \/ SelectExpire(w) PROVE TypeOK'
  <2>1. Unlink(w) \in Seq(Worker)
    BY UnlinkIs DEF TypeOK, IdleListExact
  <2> QED
    <3>1. CASE SelectHeartbeat(w)
      BY <2>1, <3>1 DEF SelectHeartbeat, TakeOrLoop, Goto, TypeOK, Place, State
    <3>2. CASE SelectExpire(w)
      BY <2>1, <3>2 DEF SelectExpire, TakeOrLoop, Goto, TypeOK, Place, State
    <3> QED
      BY <1>9, <3>1, <3>2
<1>10. ASSUME NEW w \in Worker, CheckFails(w) \/ Age(w) PROVE TypeOK'
  BY <1>10 DEF CheckFails, Age, Goto, TypeOK, Place
<1>11. ASSUME NEW w \in Worker, Releasing(w) PROVE TypeOK'
  BY <1>11 DEF Releasing, Goto, TypeOK, Place, State
<1>12. ASSUME NEW w \in Worker, LeaseReturns(w) \/ LeaseFails(w) PROVE TypeOK'
  <2>1. serving[w] \in Visitor
    <3>1. at[w] \in {"lease", "barrier"}
      BY <1>12 DEF LeaseReturns, LeaseFails
    <3>2. serving[w] # NoVisitor
      BY <3>1 DEF WorkerConsistent, Consistent
    <3> QED
      BY <3>2 DEF TypeOK
  <2>2. PICK p \in {"return", "exit"} : EndLease(w, p)
    BY <1>12 DEF LeaseReturns, LeaseFails
  <2>3. at' \in [Worker -> Place] /\ serving' \in [Worker -> Visitor \cup {NoVisitor}]
    BY <2>2 DEF EndLease, Goto, TypeOK, Place
  <2>4. closedTcp' \subseteq Visitor /\ leases' \in Nat
    BY <2>1, <2>2 DEF EndLease, TypeOK
  <2> QED
    BY <2>2, <2>3, <2>4 DEF EndLease, TypeOK
<1>13. ASSUME NEW w \in Worker, Exit(w) PROVE TypeOK'
  BY <1>13, <1>1 DEF Exit, Goto, TypeOK, Place
<1>14. ASSUME NEW w \in Worker, StopClose(w) \/ ForceClose(w) PROVE TypeOK'
  BY <1>14, <1>1 DEF StopClose, ForceClose, TypeOK
<1>15. CASE Tick
  <2>1. idleLeft' \in [Worker -> 0..IdleTicks] /\ hbDue' \in [Worker -> BOOLEAN]
    BY <1>15, TimerAssumption DEF Tick, LeftAfterTick, InNext, TypeOK
  <2> QED
    BY <1>15, <2>1 DEF Tick, TypeOK
<1>16. ASSUME NEW v \in Visitor, DeadlinePasses(v) PROVE TypeOK'
  BY <1>16 DEF DeadlinePasses, TypeOK
<1>17. ASSUME NEW v \in Visitor, Cancel(v) PROVE TypeOK'
  <2>1. waiting' \in Seq(Visitor)
    BY <1>17, RemoveAtIs DEF Cancel, TypeOK
  <2> QED
    BY <1>17, <2>1 DEF Cancel, Drop, TypeOK
<1>18. CASE DispatchRefused \/ DispatchFull
  <2>1. arrived < MaxVisitors /\ TurnAway
    BY <1>18 DEF DispatchRefused, DispatchFull, Accepts
  <2>2. arrived + 1 \in Visitor /\ arrived + 1 \in 0..MaxVisitors
    BY <2>1, BoundAssumption DEF TypeOK, Visitor
  <2> QED
    BY <2>1, <2>2 DEF TurnAway, TypeOK
<1>19. CASE DispatchHandsOff
  <2>1. Last(idle) \in Worker
    BY <1>19, BackIs DEF DispatchHandsOff, CanHandOff
  <2>2. PICK w \in Worker : w = Last(idle) /\ Lend(w, arrived + 1) /\ idle' = Unlink(w)
    BY <1>19, <2>1 DEF DispatchHandsOff
  <2>3. Unlink(w) \in Seq(Worker)
    BY UnlinkIs DEF TypeOK, IdleListExact
  <2>4. arrived + 1 \in Visitor /\ arrived' = arrived + 1
    BY <1>19, BoundAssumption DEF DispatchHandsOff, Accepts, TypeOK, Visitor
  <2>5. /\ state' \in [Worker -> State] /\ wake' \in [Worker -> BOOLEAN]
        /\ mailbox' \in [Worker -> Visitor \cup {NoVisitor}]
        /\ business' \in [Worker -> Visitor \cup {NoVisitor}]
    BY <2>2, <2>4 DEF Lend, Notify, TypeOK, State
  <2>6. arrived' \in 0..MaxVisitors
    BY <2>4, BoundAssumption DEF Visitor, TypeOK
  <2> QED
    BY <1>19, <2>2, <2>3, <2>5, <2>6 DEF DispatchHandsOff, TypeOK
<1>20. CASE DispatchQueues
  BY <1>20, BoundAssumption DEF DispatchQueues, Accepts, TypeOK, Visitor
<1>21. CASE CtxCancel \/ PoolForce
  BY <1>21 DEF CtxCancel, PoolForce, TypeOK
<1>22. CASE Stop
  <2>1. Range(waiting) \subseteq Visitor
    BY DEF TypeOK, Range
  <2>2. Len(waiting) \in Nat
    BY LenProperties DEF TypeOK
  <2> QED
    BY <1>22, <2>1, <2>2 DEF Stop, TypeOK
<1>23. CASE Terminated
  BY <1>23 DEF Terminated, vars, TypeOK
<1> QED
  BY <1>2, <1>3, <1>4, <1>5, <1>6, <1>7, <1>8, <1>9, <1>10, <1>11, <1>12, <1>13, <1>14,
     <1>15, <1>16, <1>17, <1>18, <1>19, <1>20, <1>21, <1>22, <1>23
  DEF Next, WorkerStep, Idle, Dispatch

-----------------------------------------------------------------------------
(* The idle list.                                                           *)

\* Every action that links or unlinks a worker keeps the idle list exact.
LEMMA ListStep ==
    ASSUME TypeOK, IdleListExact, WorkerConsistent, Next
    PROVE  IdleListExact'
<1> USE DEF poolVars, queueVars, workerVars, routineVars, visitorVars, shutdownVars
<1> SUFFICES /\ Ascending(idle')
             /\ \A u \in Worker : state'[u] = "idle" <=> Has(idle', u)
  BY DEF IdleListExact, IdleSorted, IdleIsState, Ascending, Has
<1>0. /\ Ascending(idle)
      /\ \A u \in Worker : state[u] = "idle" <=> Has(idle, u)
  BY DEF IdleListExact, IdleSorted, IdleIsState, Ascending, Has
<1> DEFINE Goal == /\ Ascending(idle')
                   /\ \A u \in Worker : state'[u] = "idle" <=> Has(idle', u)
<1>1. ASSUME NEW w \in Worker, Closed(w) PROVE Goal
  <2>1. /\ Ascending(idle')
        /\ \A u : Has(idle', u) <=> Has(idle, u) /\ u # w
        /\ state' = [state EXCEPT ![w] = "closed"]
    BY <1>1, ClosedIs
  <2> QED
    BY <1>0, <2>1 DEF TypeOK
<1>2. ASSUME NEW w \in Worker, HandshakeFails(w) \/ IdleStopped(w) \/ Exit(w)
                                 \/ StopClose(w) \/ ForceClose(w)
      PROVE  Goal
  BY <1>1, <1>2 DEF HandshakeFails, IdleStopped, Exit, StopClose, ForceClose
<1>3. ASSUME NEW w \in Worker, Register(w) \/ IdleExpired(w) \/ Releasing(w) PROVE Goal
  <2>1. state[w] # "idle"
    BY <1>3 DEF Register, IdleExpired, Releasing, CallsIdle, WorkerConsistent, Consistent, Agree
  <2>2. UNCHANGED idle
    BY <1>3 DEF Register, IdleExpired, Releasing
  <2>3. \A u \in Worker : state'[u] = "idle" <=> state[u] = "idle"
    BY <1>3, <2>1 DEF Register, IdleExpired, Releasing, TypeOK
  <2> QED
    BY <1>0, <2>2, <2>3
<1>4. ASSUME NEW w \in Worker, IdleReady(w) PROVE Goal
  <2>1. state[w] # "idle" /\ Match(w)
    BY <1>4 DEF IdleReady, CallsIdle, WorkerConsistent, Consistent, Agree
  <2>2. \/ \E v \in Visitor : Lend(w, v) /\ UNCHANGED idle
        \/ /\ Ascending(idle')
           /\ \A u : Has(idle', u) <=> Has(idle, u) \/ u = w
           /\ state' = [state EXCEPT ![w] = "idle"]
    BY <2>1, MatchIs
  <2>3. CASE \E v \in Visitor : Lend(w, v) /\ UNCHANGED idle
    BY <1>0, <2>1, <2>3 DEF Lend, TypeOK
  <2>4. CASE /\ Ascending(idle')
             /\ \A u : Has(idle', u) <=> Has(idle, u) \/ u = w
             /\ state' = [state EXCEPT ![w] = "idle"]
    BY <1>0, <2>4 DEF TypeOK
  <2> QED
    BY <2>2, <2>3, <2>4
<1>5. ASSUME NEW w \in Worker, NEW s \in State \ {"idle"}, idle' = Unlink(w),
             state' = [state EXCEPT ![w] = s]
      PROVE  Goal
  <2>1. /\ Ascending(Unlink(w))
        /\ \A u : Has(Unlink(w), u) <=> Has(idle, u) /\ u # w
    BY UnlinkIs DEF TypeOK, IdleListExact
  <2> QED
    BY <1>0, <1>5, <2>1 DEF TypeOK
<1>6. ASSUME NEW w \in Worker, SelectHeartbeat(w) \/ SelectExpire(w) PROVE Goal
  <2>1. \/ UNCHANGED <<state, idle>>
        \/ \E s \in State \ {"idle"} : idle' = Unlink(w) /\ state' = [state EXCEPT ![w] = s]
    BY <1>6 DEF SelectHeartbeat, SelectExpire, TakeOrLoop, State
  <2> QED
    BY <1>0, <1>5, <2>1
<1>7. ASSUME DispatchHandsOff PROVE Goal
  <2>1. Last(idle) \in Worker
    BY <1>7, BackIs DEF DispatchHandsOff, CanHandOff
  <2>2. PICK w \in Worker : idle' = Unlink(w) /\ state' = [state EXCEPT ![w] = "leased"]
    BY <1>7, <2>1 DEF DispatchHandsOff, Lend
  <2> QED
    BY <1>5, <2>2 DEF State
<1>8. ASSUME UNCHANGED <<idle, state>> PROVE Goal
  BY <1>0, <1>8
<1>9. ASSUME NEW w \in Worker, Next_Loop(w) \/ SelectWake(w) \/ CheckFails(w)
                                 \/ LeaseReturns(w) \/ LeaseFails(w) \/ Age(w)
      PROVE  Goal
  BY <1>8, <1>9 DEF Next_Loop, NextStopped, NextLeased, NextBlocks, SelectWake, CheckFails,
                    LeaseReturns, LeaseFails, EndLease, Age
<1>10. ASSUME NEW v \in Visitor, DeadlinePasses(v) \/ Cancel(v) PROVE Goal
  BY <1>8, <1>10 DEF DeadlinePasses, Cancel
<1>11. ASSUME DispatchRefused \/ DispatchFull \/ DispatchQueues PROVE Goal
  BY <1>8, <1>11 DEF DispatchRefused, DispatchFull, DispatchQueues, TurnAway
<1>12. ASSUME Tick \/ CtxCancel \/ Stop \/ PoolForce \/ Terminated PROVE Goal
  <2>1. CASE Terminated
    BY <1>8, <2>1 DEF Terminated, vars
  <2> QED
    BY <1>8, <1>12, <2>1 DEF Tick, CtxCancel, Stop, PoolForce
<1> HIDE DEF Goal
<1>13. Goal
  BY <1>2, <1>3, <1>4, <1>6, <1>7, <1>9, <1>10, <1>11, <1>12
  DEF Next, WorkerStep, Idle, Dispatch
<1> QED
  BY <1>13 DEF Goal

-----------------------------------------------------------------------------
(* The queue.                                                               *)

\* Every action that queues or removes visitors keeps the count and the limit.
LEMMA PendingStep ==
    ASSUME TypeOK, IdleListExact, WorkerConsistent, PendingExact, Next
    PROVE  PendingExact'
<1> USE DEF poolVars, queueVars, workerVars, routineVars, visitorVars, shutdownVars
<1>0. Len(waiting) \in Nat /\ pending = Len(waiting) /\ pending <= PendingMax
  BY LenProperties DEF TypeOK, PendingExact
<1>1. ASSUME NEW w \in Worker, IdleReady(w) PROVE PendingExact'
  <2>1. state[w] # "idle" /\ Match(w)
    BY <1>1 DEF IdleReady, CallsIdle, WorkerConsistent, Consistent, Agree
  <2>2. /\ waiting' \in Seq(Visitor)
        /\ pending' - pending = Len(waiting') - Len(waiting)
        /\ Len(waiting') <= Len(waiting)
    BY <2>1, MatchIs
  <2>3. pending' \in Int
    BY <2>1 DEF Match, MatchServes, MatchParks, TypeOK
  <2>4. Len(waiting') \in Nat
    BY <2>2, LenProperties
  <2> QED
    BY <1>0, <2>2, <2>3, <2>4, BoundAssumption DEF PendingExact
<1>2. ASSUME NEW v \in Visitor, Cancel(v) PROVE PendingExact'
  <2>1. PICK i \in 1..Len(waiting) : waiting' = RemoveAt(waiting, i)
    BY <1>2 DEF Cancel
  <2>2. Len(waiting') = Len(waiting) - 1
    BY <2>1, RemoveAtIs DEF TypeOK
  <2>3. pending' = pending - 1
    BY <1>2 DEF Cancel
  <2> QED
    BY <1>0, <2>2, <2>3, BoundAssumption DEF PendingExact
<1>3. ASSUME DispatchQueues PROVE PendingExact'
  <2>1. /\ waiting' = Append(waiting, arrived + 1) /\ pending' = pending + 1
        /\ ~(pending >= PendingMax)
    BY <1>3 DEF DispatchQueues, QueueFull
  <2>2. Len(waiting') = Len(waiting) + 1
    BY <2>1 DEF TypeOK
  <2> QED
    BY <1>0, <2>1, <2>2, BoundAssumption DEF PendingExact
<1>4. ASSUME Stop PROVE PendingExact'
  <2>1. waiting' = <<>> /\ pending' = pending - Len(waiting)
    BY <1>4 DEF Stop
  <2> QED
    BY <1>0, <2>1, BoundAssumption DEF PendingExact
<1>5. ASSUME UNCHANGED <<waiting, pending>> PROVE PendingExact'
  BY <1>5 DEF PendingExact
<1>6. ASSUME NEW w \in Worker,
             \/ Register(w) \/ HandshakeFails(w) \/ IdleStopped(w) \/ IdleExpired(w)
             \/ Next_Loop(w) \/ SelectWake(w) \/ SelectHeartbeat(w) \/ SelectExpire(w)
             \/ CheckFails(w) \/ Releasing(w) \/ LeaseReturns(w) \/ LeaseFails(w) \/ Exit(w)
             \/ Age(w) \/ StopClose(w) \/ ForceClose(w)
      PROVE  PendingExact'
  <2> UNCHANGED <<waiting, pending>>
    BY <1>6 DEF Register, HandshakeFails, IdleStopped, IdleExpired, Next_Loop, NextStopped,
       NextLeased, NextBlocks, SelectWake, SelectHeartbeat, SelectExpire, TakeOrLoop,
       CheckFails, Releasing, LeaseReturns, LeaseFails, EndLease, Exit, Age, StopClose,
       ForceClose
  <2> QED
    BY <1>5
<1>7. ASSUME NEW v \in Visitor, DeadlinePasses(v) PROVE PendingExact'
  BY <1>5, <1>7 DEF DeadlinePasses
<1>8. ASSUME DispatchRefused \/ DispatchFull \/ DispatchHandsOff PROVE PendingExact'
  BY <1>5, <1>8 DEF DispatchRefused, DispatchFull, DispatchHandsOff, TurnAway
<1>9. ASSUME Tick \/ CtxCancel \/ PoolForce PROVE PendingExact'
  BY <1>5, <1>9 DEF Tick, CtxCancel, PoolForce
<1>10. ASSUME Terminated PROVE PendingExact'
  BY <1>5, <1>10 DEF Terminated, vars
<1> QED
  BY <1>1, <1>2, <1>3, <1>4, <1>6, <1>7, <1>8, <1>9, <1>10
  DEF Next, WorkerStep, Idle, Dispatch

\* No action leaves a worker idle while a visitor is queued.
LEMMA ExcludesStep ==
    ASSUME TypeOK, IdleListExact, WorkerConsistent, IdleExcludesWaiting, TypeOK', Next
    PROVE  IdleExcludesWaiting'
<1> USE DEF poolVars, queueVars, workerVars, routineVars, visitorVars, shutdownVars
<1> DEFINE Shrinks == \A u : Has(idle', u) => Has(idle, u)
<1>0. ASSUME Shrinks, waiting' = waiting \/ waiting' = <<>> PROVE IdleExcludesWaiting'
  <2> SUFFICES ASSUME idle' # <<>> PROVE waiting' = <<>>
    BY DEF IdleExcludesWaiting
  <2>1. 1 \in 1..Len(idle')
    BY EmptySeq, LenProperties DEF TypeOK
  <2>2. Has(idle, idle'[1])
    BY <1>0, <2>1 DEF Has
  <2>3. idle # <<>>
    BY <2>2 DEF Has
  <2> QED
    BY <1>0, <2>3 DEF IdleExcludesWaiting
<1>1. ASSUME NEW w \in Worker, Closed(w) PROVE Shrinks
  BY <1>1, ClosedIs
<1>2. ASSUME NEW w \in Worker, HandshakeFails(w) \/ IdleStopped(w) \/ Exit(w)
                                 \/ StopClose(w) \/ ForceClose(w)
      PROVE  IdleExcludesWaiting'
  <2>1. Closed(w) /\ waiting' = waiting
    BY <1>2 DEF HandshakeFails, IdleStopped, Exit, StopClose, ForceClose
  <2>2. Shrinks
    BY <2>1, <1>1
  <2> QED
    BY <1>0, <2>1, <2>2
<1>3. ASSUME NEW w \in Worker, IdleReady(w) PROVE IdleExcludesWaiting'
  <2>1. state[w] # "idle" /\ Match(w)
    BY <1>3 DEF IdleReady, CallsIdle, WorkerConsistent, Consistent, Agree
  <2>2. CASE waiting' = <<>>
    BY <2>2 DEF IdleExcludesWaiting
  <2>3. CASE waiting' # <<>>
    <3>1. \E v \in Visitor : Lend(w, v) /\ UNCHANGED idle
      BY <2>1, <2>3, MatchIs
    <3>2. Len(waiting') <= Len(waiting) /\ waiting' \in Seq(Visitor)
      BY <2>1, MatchIs
    <3>3. waiting # <<>>
      BY <2>3, <3>2, EmptySeq, LenProperties DEF TypeOK
    <3> QED
      BY <3>1, <3>3 DEF IdleExcludesWaiting
  <2> QED
    BY <2>2, <2>3
<1>4. ASSUME NEW w \in Worker, SelectHeartbeat(w) \/ SelectExpire(w) PROVE IdleExcludesWaiting'
  <2>1. waiting' = waiting /\ (idle' = idle \/ idle' = Unlink(w))
    BY <1>4 DEF SelectHeartbeat, SelectExpire, TakeOrLoop
  <2>2. \A u : Has(Unlink(w), u) => Has(idle, u)
    BY UnlinkIs DEF TypeOK, IdleListExact
  <2>3. Shrinks
    BY <2>1, <2>2
  <2> QED
    BY <1>0, <2>1, <2>3
<1>5. ASSUME NEW v \in Visitor, Cancel(v) PROVE IdleExcludesWaiting'
  <2>1. waiting # <<>> /\ idle' = idle
    BY <1>5 DEF Cancel
  <2> QED
    BY <2>1 DEF IdleExcludesWaiting
<1>6. ASSUME DispatchHandsOff PROVE IdleExcludesWaiting'
  <2>1. waiting' = <<>>
    BY <1>6 DEF DispatchHandsOff, CanHandOff
  <2> QED
    BY <2>1 DEF IdleExcludesWaiting
<1>7. ASSUME DispatchQueues PROVE IdleExcludesWaiting'
  BY <1>7 DEF DispatchQueues, CanHandOff, IdleExcludesWaiting
<1>8. ASSUME Stop PROVE IdleExcludesWaiting'
  BY <1>8 DEF Stop, IdleExcludesWaiting
<1>9. ASSUME UNCHANGED <<idle, waiting>> PROVE IdleExcludesWaiting'
  BY <1>9 DEF IdleExcludesWaiting
<1>10. ASSUME NEW w \in Worker,
             \/ Register(w) \/ IdleExpired(w) \/ Next_Loop(w) \/ SelectWake(w)
             \/ CheckFails(w) \/ Releasing(w) \/ LeaseReturns(w) \/ LeaseFails(w) \/ Age(w)
       PROVE IdleExcludesWaiting'
  <2> UNCHANGED <<idle, waiting>>
    BY <1>10 DEF Register, IdleExpired, Next_Loop, NextStopped, NextLeased, NextBlocks,
       SelectWake, CheckFails, Releasing, LeaseReturns, LeaseFails, EndLease, Age
  <2> QED
    BY <1>9
<1>11. ASSUME NEW v \in Visitor, DeadlinePasses(v) PROVE IdleExcludesWaiting'
  BY <1>9, <1>11 DEF DeadlinePasses
<1>12. ASSUME DispatchRefused \/ DispatchFull PROVE IdleExcludesWaiting'
  BY <1>9, <1>12 DEF DispatchRefused, DispatchFull, TurnAway
<1>13. ASSUME Tick \/ CtxCancel \/ PoolForce PROVE IdleExcludesWaiting'
  BY <1>9, <1>13 DEF Tick, CtxCancel, PoolForce
<1>14. ASSUME Terminated PROVE IdleExcludesWaiting'
  BY <1>9, <1>14 DEF Terminated, vars
<1> QED
  BY <1>2, <1>3, <1>4, <1>5, <1>6, <1>7, <1>8, <1>10, <1>11, <1>12, <1>13, <1>14
  DEF Next, WorkerStep, Idle, Dispatch

-----------------------------------------------------------------------------
(* A worker's goroutine, its state and its sockets.                         *)

\* What Worker.Closed does to the worker and leaves of the others.
LEMMA ClosedEffects ==
    ASSUME TypeOK, WorkerConsistent, NEW w \in Worker, Closed(w)
    PROVE  /\ state' = [state EXCEPT ![w] = "closed"]
           /\ mailbox' = [mailbox EXCEPT ![w] = NoVisitor]
           /\ \A u \in Worker \ {w} : business'[u] = business[u] /\ wake'[u] = wake[u]
           /\ wake'[w] \/ (state[w] = "closed" /\ wake'[w] = wake[w])
           /\ closedTcp \subseteq closedTcp'
           /\ state[w] = "closed" \/ business[w] = NoVisitor \/ business[w] \in closedTcp'
<1>1. CASE state[w] = "closed"
  <2>1. UNCHANGED <<state, mailbox, business, wake, closedTcp>>
    BY <1>1 DEF Closed
  <2>2. mailbox[w] = NoVisitor
    BY <1>1 DEF WorkerConsistent, Consistent
  <2> QED
    BY <1>1, <2>1, <2>2 DEF TypeOK
<1>2. CASE state[w] # "closed"
  BY <1>2 DEF Closed, Notify, Owned, TypeOK
<1> QED
  BY <1>1, <1>2

\* The same for handing over a visitor.
LEMMA LendEffects ==
    ASSUME TypeOK, NEW w \in Worker, NEW v \in Visitor, Lend(w, v)
    PROVE  /\ state' = [state EXCEPT ![w] = "leased"]
           /\ mailbox' = [mailbox EXCEPT ![w] = v]
           /\ business' = [business EXCEPT ![w] = v]
           /\ wake' = [wake EXCEPT ![w] = TRUE]
           /\ v # NoVisitor
BY DEF Lend, Notify, Visitor, NoVisitor

\* What holds of the workers in the snapshots of Stop and Force, and of one that
\* left Next while idle.
StopSafe ==
    /\ stopSet # {} => stopping
    /\ \A w \in stopSet : /\ state[w] \in {"idle", "checking", "registering", "expiring", "closed"}
                          /\ serving[w] = NoVisitor
    /\ \A w \in forceSet : state[w] # "none"
    /\ \A w \in Worker : at[w] = "exit" /\ state[w] = "idle" => stopping

\* Every action keeps goroutine, state and sockets of each worker in agreement.
LEMMA ConsistentStep ==
    ASSUME TypeOK, IdleListExact, WorkerConsistent, StopSafe, Next
    PROVE  WorkerConsistent'
<1> USE DEF poolVars, queueVars, workerVars, routineVars, visitorVars, shutdownVars
<1> DEFINE Same(u) == /\ state'[u] = state[u] /\ at'[u] = at[u] /\ serving'[u] = serving[u]
                      /\ mailbox'[u] = mailbox[u] /\ business'[u] = business[u]
<1>0. ASSUME NEW w \in Worker, Consistent(w)', \A u \in Worker \ {w} : Same(u)
      PROVE  WorkerConsistent'
  <2> SUFFICES ASSUME NEW u \in Worker, u # w PROVE Consistent(u)'
    BY <1>0 DEF WorkerConsistent
  <2> QED
    BY <1>0 DEF WorkerConsistent, Consistent
<1>1. ASSUME NEW w \in Worker, HandshakeFails(w) \/ IdleStopped(w) \/ Exit(w)
                                 \/ StopClose(w) \/ ForceClose(w)
      PROVE  WorkerConsistent'
  <2>1. Closed(w) /\ serving' = serving
    BY <1>1 DEF HandshakeFails, IdleStopped, Exit, StopClose, ForceClose
  <2>2. /\ state' = [state EXCEPT ![w] = "closed"]
        /\ mailbox' = [mailbox EXCEPT ![w] = NoVisitor]
        /\ \A u \in Worker \ {w} : business'[u] = business[u]
    BY <2>1, ClosedEffects
  <2>3. \/ at' = at /\ state[w] # "none"
        \/ at[w] = "register" /\ at' = [at EXCEPT ![w] = "done"]
        \/ at[w] \in {"register", "return", "check"} /\ at' = [at EXCEPT ![w] = "exit"]
        \/ at[w] = "exit" /\ at' = [at EXCEPT ![w] = "done"]
    BY <1>1 DEF HandshakeFails, IdleStopped, Exit, StopClose, ForceClose, Goto, CallsIdle, StopSafe
  <2>4. Consistent(w)'
    BY <2>1, <2>2, <2>3 DEF WorkerConsistent, Consistent, Agree, TypeOK
  <2>5. \A u \in Worker \ {w} : Same(u)
    BY <2>1, <2>2, <2>3 DEF TypeOK
  <2> QED
    BY <1>0, <2>4, <2>5
<1>2. ASSUME NEW w \in Worker, Register(w) \/ IdleExpired(w) \/ Releasing(w)
      PROVE  WorkerConsistent'
  <2>1. Consistent(w)'
    BY <1>2 DEF Register, IdleExpired, Releasing, CallsIdle, Goto, WorkerConsistent,
                Consistent, Agree, TypeOK
  <2>2. \A u \in Worker \ {w} : Same(u)
    BY <1>2 DEF Register, IdleExpired, Releasing, Goto, TypeOK
  <2> QED
    BY <1>0, <2>1, <2>2
<1>3. ASSUME NEW w \in Worker, IdleReady(w) PROVE WorkerConsistent'
  <2>1. state[w] # "idle" /\ Match(w) /\ mailbox[w] = NoVisitor /\ serving[w] = NoVisitor
    BY <1>3 DEF IdleReady, CallsIdle, WorkerConsistent, Consistent, Agree
  <2>2. at' = [at EXCEPT ![w] = "loop"] /\ serving' = serving
    BY <1>3 DEF IdleReady, Goto
  <2>3. \/ \E v \in Visitor : Lend(w, v)
        \/ /\ state' = [state EXCEPT ![w] = "idle"]
           /\ business' = [business EXCEPT ![w] = NoVisitor]
           /\ mailbox' = mailbox
    BY <2>1, MatchIs
  <2>4. CASE \E v \in Visitor : Lend(w, v)
    <3>1. PICK v \in Visitor : Lend(w, v)
      BY <2>4
    <3>2. /\ state' = [state EXCEPT ![w] = "leased"] /\ mailbox' = [mailbox EXCEPT ![w] = v]
          /\ business' = [business EXCEPT ![w] = v] /\ v # NoVisitor
      BY <3>1, LendEffects
    <3>3. Consistent(w)' /\ \A u \in Worker \ {w} : Same(u)
      BY <2>1, <2>2, <3>2 DEF Consistent, Agree, TypeOK
    <3> QED
      BY <1>0, <3>3
  <2>5. CASE /\ state' = [state EXCEPT ![w] = "idle"]
             /\ business' = [business EXCEPT ![w] = NoVisitor]
             /\ mailbox' = mailbox
    <3>1. Consistent(w)' /\ \A u \in Worker \ {w} : Same(u)
      BY <2>1, <2>2, <2>5 DEF Consistent, Agree, TypeOK
    <3> QED
      BY <1>0, <3>1
  <2> QED
    BY <2>3, <2>4, <2>5
<1>4. ASSUME NEW w \in Worker, Next_Loop(w) \/ SelectWake(w) \/ CheckFails(w) \/ Age(w)
      PROVE  WorkerConsistent'
  <2>1. Consistent(w)'
    BY <1>4 DEF Next_Loop, NextStopped, NextLeased, NextBlocks, SelectWake, CheckFails, Age,
                Goto, WorkerConsistent, Consistent, Agree, TypeOK
  <2>2. \A u \in Worker \ {w} : Same(u)
    BY <1>4 DEF Next_Loop, NextStopped, NextLeased, NextBlocks, SelectWake, CheckFails, Age,
                Goto, TypeOK
  <2> QED
    BY <1>0, <2>1, <2>2
<1>5. ASSUME NEW w \in Worker, SelectHeartbeat(w) \/ SelectExpire(w) PROVE WorkerConsistent'
  <2>1. Consistent(w)'
    BY <1>5 DEF SelectHeartbeat, SelectExpire, TakeOrLoop, CanTake, Goto, WorkerConsistent,
                Consistent, Agree, TypeOK
  <2>2. \A u \in Worker \ {w} : Same(u)
    BY <1>5 DEF SelectHeartbeat, SelectExpire, TakeOrLoop, Goto, TypeOK
  <2> QED
    BY <1>0, <2>1, <2>2
<1>6. ASSUME NEW w \in Worker, LeaseReturns(w) \/ LeaseFails(w) PROVE WorkerConsistent'
  <2>1. Consistent(w)'
    BY <1>6 DEF LeaseReturns, LeaseFails, EndLease, Goto, WorkerConsistent, Consistent,
                Agree, TypeOK
  <2>2. \A u \in Worker \ {w} : Same(u)
    BY <1>6 DEF LeaseReturns, LeaseFails, EndLease, Goto, TypeOK
  <2> QED
    BY <1>0, <2>1, <2>2
<1>7. ASSUME DispatchHandsOff PROVE WorkerConsistent'
  <2>1. Last(idle) \in Worker /\ state[Last(idle)] = "idle" /\ arrived + 1 \in Visitor
    BY <1>7, BackIs, BoundAssumption
    DEF DispatchHandsOff, CanHandOff, Accepts, Visitor, TypeOK
  <2>2. PICK w \in Worker : state[w] = "idle" /\ Lend(w, arrived + 1)
    BY <1>7, <2>1 DEF DispatchHandsOff
  <2>3. UNCHANGED <<at, serving>>
    BY <1>7 DEF DispatchHandsOff
  <2>4. PICK v \in Visitor :
           /\ state' = [state EXCEPT ![w] = "leased"] /\ mailbox' = [mailbox EXCEPT ![w] = v]
           /\ business' = [business EXCEPT ![w] = v] /\ v # NoVisitor
    BY <2>1, <2>2, LendEffects
  <2>5. at[w] \in {"loop", "select"}
    <3>1. ~stopping
      BY <1>7 DEF DispatchHandsOff, Accepts
    <3> QED
      BY <2>2, <3>1 DEF WorkerConsistent, Consistent, Agree, StopSafe
  <2>6. Consistent(w)' /\ \A u \in Worker \ {w} : Same(u)
    BY <2>2, <2>3, <2>4, <2>5 DEF WorkerConsistent, Consistent, Agree, TypeOK
  <2> QED
    BY <1>0, <2>6
<1>8. ASSUME UNCHANGED <<state, at, serving, mailbox, business>> PROVE WorkerConsistent'
  BY <1>8 DEF WorkerConsistent, Consistent
<1>9. ASSUME NEW v \in Visitor, DeadlinePasses(v) \/ Cancel(v) PROVE WorkerConsistent'
  BY <1>8, <1>9 DEF DeadlinePasses, Cancel
<1>10. ASSUME DispatchRefused \/ DispatchFull \/ DispatchQueues PROVE WorkerConsistent'
  BY <1>8, <1>10 DEF DispatchRefused, DispatchFull, DispatchQueues, TurnAway
<1>11. ASSUME Tick \/ CtxCancel \/ Stop \/ PoolForce PROVE WorkerConsistent'
  BY <1>8, <1>11 DEF Tick, CtxCancel, Stop, PoolForce
<1>12. ASSUME Terminated PROVE WorkerConsistent'
  BY <1>8, <1>12 DEF Terminated, vars
<1> QED
  BY <1>1, <1>2, <1>3, <1>4, <1>5, <1>6, <1>7, <1>9, <1>10, <1>11, <1>12
  DEF Next, WorkerStep, Idle, Dispatch

\* What Stop and Force have in their snapshots stays true until they close it.
LEMMA StopStep ==
    ASSUME TypeOK, IdleListExact, WorkerConsistent, StopSafe, Next
    PROVE  StopSafe'
<1> USE DEF poolVars, queueVars, workerVars, routineVars, visitorVars, shutdownVars
<1>1. ASSUME NEW w \in Worker, HandshakeFails(w) \/ IdleStopped(w) \/ Exit(w)
                                 \/ StopClose(w) \/ ForceClose(w)
      PROVE  StopSafe'
  <2>1. state' = [state EXCEPT ![w] = "closed"]
    BY <1>1, ClosedEffects DEF HandshakeFails, IdleStopped, Exit, StopClose, ForceClose
  <2>2. /\ stopping' = stopping /\ serving' = serving
        /\ stopSet' \subseteq stopSet /\ forceSet' \subseteq forceSet
        /\ \A u \in Worker \ {w} : at'[u] = at[u]
    <3>1. CASE HandshakeFails(w) \/ IdleStopped(w) \/ Exit(w)
      BY <3>1 DEF HandshakeFails, IdleStopped, Exit, Goto, TypeOK
    <3>2. CASE StopClose(w) \/ ForceClose(w)
      BY <3>2 DEF StopClose, ForceClose, TypeOK
    <3> QED
      BY <1>1, <3>1, <3>2
  <2> QED
    BY <2>1, <2>2 DEF StopSafe, TypeOK
<1>2. ASSUME NEW w \in Worker, Register(w) \/ IdleExpired(w) PROVE StopSafe'
  <2>1. CASE Register(w)
    BY <2>1 DEF Register, Goto, StopSafe, WorkerConsistent, Consistent, Agree, TypeOK
  <2>2. CASE IdleExpired(w)
    BY <2>2 DEF IdleExpired, Goto, StopSafe, WorkerConsistent, Consistent, Agree, TypeOK
  <2> QED
    BY <1>2, <2>1, <2>2
<1>3. ASSUME NEW w \in Worker, Releasing(w) PROVE StopSafe'
  BY <1>3 DEF Releasing, Goto, StopSafe, TypeOK
<1>4. ASSUME NEW w \in Worker, IdleReady(w) PROVE StopSafe'
  <2>1. /\ ~stopping /\ state[w] # "idle" /\ Match(w) /\ UNCHANGED <<stopping, stopSet, forceSet>>
        /\ at' = [at EXCEPT ![w] = "loop"]
    BY <1>4 DEF IdleReady, CallsIdle, WorkerConsistent, Consistent, Agree, Goto
  <2>2. state' = [state EXCEPT ![w] = "idle"] \/ state' = [state EXCEPT ![w] = "leased"]
    BY <2>1, MatchIs DEF Lend
  <2> QED
    BY <2>1, <2>2 DEF StopSafe, TypeOK
<1>5. ASSUME NEW w \in Worker, Next_Loop(w) PROVE StopSafe'
  <2>1. CASE NextStopped(w) \/ NextBlocks(w)
    BY <2>1 DEF NextStopped, NextBlocks, Goto, StopSafe, TypeOK
  <2>2. CASE NextLeased(w)
    <3>1. state[w] = "leased"
      BY <2>2 DEF NextLeased, WorkerConsistent, Consistent
    <3> QED
      BY <2>2, <3>1 DEF NextLeased, Goto, StopSafe, TypeOK
  <2> QED
    BY <1>5, <2>1, <2>2 DEF Next_Loop
<1>6. ASSUME NEW w \in Worker, SelectHeartbeat(w) \/ SelectExpire(w) PROVE StopSafe'
  BY <1>6 DEF SelectHeartbeat, SelectExpire, TakeOrLoop, CanTake, Goto, StopSafe, TypeOK
<1>7. ASSUME NEW w \in Worker, SelectWake(w) \/ CheckFails(w) \/ Age(w) PROVE StopSafe'
  BY <1>7 DEF SelectWake, CheckFails, Age, Goto, StopSafe, WorkerConsistent, Consistent,
              Agree, TypeOK
<1>8. ASSUME NEW w \in Worker, LeaseReturns(w) \/ LeaseFails(w) PROVE StopSafe'
  BY <1>8 DEF LeaseReturns, LeaseFails, EndLease, Goto, StopSafe, WorkerConsistent,
              Consistent, Agree, TypeOK
<1>9. ASSUME DispatchHandsOff PROVE StopSafe'
  <2>1. Last(idle) \in Worker /\ state[Last(idle)] = "idle"
    BY <1>9, BackIs DEF DispatchHandsOff, CanHandOff
  <2>2. \E w \in Worker : state' = [state EXCEPT ![w] = "leased"]
    BY <1>9, <2>1 DEF DispatchHandsOff, Lend
  <2>3. ~stopping /\ UNCHANGED <<stopping, stopSet, forceSet, serving, at>>
    BY <1>9 DEF DispatchHandsOff, Accepts
  <2> QED
    BY <2>2, <2>3 DEF StopSafe, TypeOK
<1>10. ASSUME Stop PROVE StopSafe'
  BY <1>10 DEF Stop, StopCloses, StopSafe, WorkerConsistent, Consistent, Agree
<1>11. ASSUME PoolForce PROVE StopSafe'
  BY <1>11 DEF PoolForce, StopSafe
<1>12. ASSUME UNCHANGED <<stopping, stopSet, forceSet, state, at, serving>> PROVE StopSafe'
  BY <1>12 DEF StopSafe
<1>13. ASSUME NEW v \in Visitor, DeadlinePasses(v) \/ Cancel(v) PROVE StopSafe'
  BY <1>12, <1>13 DEF DeadlinePasses, Cancel
<1>14. ASSUME DispatchRefused \/ DispatchFull \/ DispatchQueues PROVE StopSafe'
  BY <1>12, <1>14 DEF DispatchRefused, DispatchFull, DispatchQueues, TurnAway
<1>15. ASSUME Tick \/ CtxCancel PROVE StopSafe'
  BY <1>12, <1>15 DEF Tick, CtxCancel
<1>16. ASSUME Terminated PROVE StopSafe'
  BY <1>12, <1>16 DEF Terminated, vars
<1> QED
  BY <1>1, <1>2, <1>3, <1>4, <1>5, <1>6, <1>7, <1>8, <1>9, <1>10, <1>11, <1>13, <1>14,
     <1>15, <1>16
  DEF Next, WorkerStep, Idle, Dispatch

\* Whatever else happens, closing other workers' sockets does not reopen one.
LEMMA ServiceStep ==
    ASSUME TypeOK, IdleListExact, WorkerConsistent, CloseEndsService, Next
    PROVE  CloseEndsService'
<1> USE DEF poolVars, queueVars, workerVars, routineVars, visitorVars, shutdownVars
<1> DEFINE Same(u) == /\ state'[u] = state[u] /\ serving'[u] = serving[u]
                      /\ business'[u] = business[u]
<1>0. ASSUME NEW w \in Worker, closedTcp \subseteq closedTcp',
             \A u \in Worker \ {w} : Same(u), serving'[w] = NoVisitor
      PROVE  CloseEndsService'
  BY <1>0 DEF CloseEndsService
<1>1. ASSUME NEW w \in Worker, HandshakeFails(w) \/ IdleStopped(w) \/ Exit(w)
                                 \/ StopClose(w) \/ ForceClose(w)
      PROVE  CloseEndsService'
  <2>1. Closed(w) /\ serving' = serving
    BY <1>1 DEF HandshakeFails, IdleStopped, Exit, StopClose, ForceClose
  <2>2. /\ state' = [state EXCEPT ![w] = "closed"]
        /\ \A u \in Worker \ {w} : business'[u] = business[u]
        /\ closedTcp \subseteq closedTcp'
        /\ state[w] = "closed" \/ business[w] = NoVisitor \/ business[w] \in closedTcp'
    BY <2>1, ClosedEffects
  <2> QED
    BY <2>1, <2>2 DEF CloseEndsService, TypeOK
<1>2. ASSUME NEW w \in Worker, Register(w) \/ IdleExpired(w) PROVE CloseEndsService'
  <2>1. serving'[w] = NoVisitor
    BY <1>2 DEF Register, IdleExpired, CallsIdle, WorkerConsistent, Consistent
  <2>2. closedTcp' = closedTcp /\ \A u \in Worker \ {w} : Same(u)
    BY <1>2 DEF Register, IdleExpired, TypeOK
  <2> QED
    BY <1>0, <2>1, <2>2
<1>3. ASSUME NEW w \in Worker, IdleReady(w) PROVE CloseEndsService'
  <2>1. state[w] # "idle" /\ Match(w) /\ serving[w] = NoVisitor /\ serving' = serving
    BY <1>3 DEF IdleReady, CallsIdle, WorkerConsistent, Consistent, Agree
  <2>2. /\ closedTcp \subseteq closedTcp'
        /\ \/ \E v \in Visitor : Lend(w, v)
           \/ /\ state' = [state EXCEPT ![w] = "idle"]
              /\ business' = [business EXCEPT ![w] = NoVisitor]
    BY <2>1, MatchIs
  <2>3. \A u \in Worker \ {w} : Same(u)
    BY <2>1, <2>2 DEF Lend, TypeOK
  <2> QED
    BY <1>0, <2>1, <2>2, <2>3
<1>4. ASSUME NEW w \in Worker, NextLeased(w) PROVE CloseEndsService'
  <2>1. business[w] = mailbox[w] /\ state[w] = "leased"
    BY <1>4 DEF NextLeased, WorkerConsistent, Consistent
  <2> QED
    BY <1>4, <2>1 DEF NextLeased, CloseEndsService, TypeOK
<1>5. ASSUME NEW w \in Worker, Releasing(w) PROVE CloseEndsService'
  BY <1>5 DEF Releasing, CloseEndsService, TypeOK
<1>6. ASSUME NEW w \in Worker, SelectHeartbeat(w) \/ SelectExpire(w) PROVE CloseEndsService'
  <2>1. serving'[w] = NoVisitor
    BY <1>6 DEF SelectHeartbeat, SelectExpire, TakeOrLoop, WorkerConsistent, Consistent
  <2>2. closedTcp' = closedTcp /\ \A u \in Worker \ {w} : Same(u)
    BY <1>6 DEF SelectHeartbeat, SelectExpire, TakeOrLoop, TypeOK
  <2> QED
    BY <1>0, <2>1, <2>2
<1>7. ASSUME NEW w \in Worker, LeaseReturns(w) \/ LeaseFails(w) PROVE CloseEndsService'
  <2>1. serving'[w] = NoVisitor /\ closedTcp \subseteq closedTcp'
    BY <1>7 DEF LeaseReturns, LeaseFails, EndLease, TypeOK
  <2>2. \A u \in Worker \ {w} : Same(u)
    BY <1>7 DEF LeaseReturns, LeaseFails, EndLease, TypeOK
  <2> QED
    BY <1>0, <2>1, <2>2
<1>8. ASSUME DispatchHandsOff PROVE CloseEndsService'
  <2>1. Last(idle) \in Worker /\ state[Last(idle)] = "idle"
    BY <1>8, BackIs DEF DispatchHandsOff, CanHandOff
  <2>2. PICK w \in Worker : state[w] = "idle" /\ Lend(w, arrived + 1)
    BY <1>8, <2>1 DEF DispatchHandsOff
  <2>3. serving' = serving /\ closedTcp' = closedTcp
    BY <1>8 DEF DispatchHandsOff
  <2>4. serving[w] = NoVisitor
    BY <2>2 DEF WorkerConsistent, Consistent, Agree
  <2>5. \A u \in Worker \ {w} : Same(u)
    BY <2>2, <2>3 DEF Lend, TypeOK
  <2> QED
    BY <1>0, <2>3, <2>4, <2>5
<1>9. ASSUME UNCHANGED <<state, serving, business>>, closedTcp \subseteq closedTcp'
      PROVE  CloseEndsService'
  BY <1>9 DEF CloseEndsService
<1>10. ASSUME NEW w \in Worker, \/ NextStopped(w) \/ NextBlocks(w) \/ SelectWake(w)
                                \/ CheckFails(w) \/ Age(w)
       PROVE  CloseEndsService'
  BY <1>9, <1>10 DEF NextStopped, NextBlocks, SelectWake, CheckFails, Age
<1>11. ASSUME NEW v \in Visitor, DeadlinePasses(v) \/ Cancel(v) PROVE CloseEndsService'
  BY <1>9, <1>11 DEF DeadlinePasses, Cancel
<1>12. ASSUME DispatchRefused \/ DispatchFull \/ DispatchQueues PROVE CloseEndsService'
  BY <1>9, <1>12 DEF DispatchRefused, DispatchFull, DispatchQueues, TurnAway
<1>13. ASSUME Tick \/ CtxCancel \/ Stop \/ PoolForce PROVE CloseEndsService'
  BY <1>9, <1>13 DEF Tick, CtxCancel, Stop, PoolForce
<1>14. ASSUME Terminated PROVE CloseEndsService'
  BY <1>9, <1>14 DEF Terminated, vars
<1> QED
  BY <1>1, <1>2, <1>3, <1>4, <1>5, <1>6, <1>7, <1>8, <1>10, <1>11, <1>12, <1>13, <1>14
  DEF Next, WorkerStep, Idle, Next_Loop, Dispatch

\* No action leaves a blocked worker with something to do and no wake-up.
LEMMA WakeStep ==
    ASSUME TypeOK, IdleListExact, WorkerConsistent, WakeNotLost, Next
    PROVE  WakeNotLost'
<1> USE DEF poolVars, queueVars, workerVars, routineVars, visitorVars, shutdownVars
<1> DEFINE Same(u) == /\ at'[u] = at[u] /\ state'[u] = state[u] /\ mailbox'[u] = mailbox[u]
                      /\ wake'[u] = wake[u] /\ (u \in stopSet => u \in stopSet')
<1>0. ASSUME NEW w \in Worker, at'[w] # "select", stopping' = stopping,
             \A u \in Worker \ {w} : Same(u)
      PROVE  WakeNotLost'
  BY <1>0 DEF WakeNotLost
<1>1. ASSUME NEW w \in Worker, HandshakeFails(w) \/ IdleStopped(w) \/ Exit(w)
      PROVE  WakeNotLost'
  <2>1. Closed(w) /\ UNCHANGED <<stopping, stopSet>>
    BY <1>1 DEF HandshakeFails, IdleStopped, Exit
  <2>2. at'[w] # "select" /\ \A u \in Worker \ {w} : at'[u] = at[u]
    BY <1>1 DEF HandshakeFails, IdleStopped, Exit, Goto, TypeOK
  <2>3. \A u \in Worker \ {w} : Same(u)
    BY <2>1, <2>2, ClosedEffects DEF TypeOK
  <2> QED
    BY <1>0, <2>1, <2>2, <2>3
<1>2. ASSUME NEW w \in Worker, StopClose(w) \/ ForceClose(w) PROVE WakeNotLost'
  <2>1. /\ Closed(w) /\ UNCHANGED <<stopping, at>>
        /\ \A u \in Worker \ {w} : u \in stopSet => u \in stopSet'
    BY <1>2 DEF StopClose, ForceClose
  <2>2. /\ state' = [state EXCEPT ![w] = "closed"]
        /\ mailbox' = [mailbox EXCEPT ![w] = NoVisitor]
        /\ \A u \in Worker \ {w} : wake'[u] = wake[u]
        /\ wake'[w] \/ (state[w] = "closed" /\ wake'[w] = wake[w])
    BY <2>1, ClosedEffects
  <2> QED
    BY <2>1, <2>2 DEF WakeNotLost, TypeOK
<1>3. ASSUME NEW w \in Worker, Register(w) \/ IdleExpired(w) \/ Releasing(w)
                                 \/ LeaseReturns(w) \/ LeaseFails(w) \/ CheckFails(w)
                                 \/ NextStopped(w) \/ NextLeased(w) \/ SelectWake(w)
      PROVE  WakeNotLost'
  <2>1. at'[w] # "select" /\ stopping' = stopping
    BY <1>3 DEF Register, IdleExpired, Releasing, LeaseReturns, LeaseFails, EndLease,
                CheckFails, NextStopped, NextLeased, SelectWake, Goto, TypeOK
  <2>2. \A u \in Worker \ {w} : Same(u)
    BY <1>3 DEF Register, IdleExpired, Releasing, LeaseReturns, LeaseFails, EndLease,
                CheckFails, NextStopped, NextLeased, SelectWake, Goto, TypeOK
  <2> QED
    BY <1>0, <2>1, <2>2
<1>4. ASSUME NEW w \in Worker, IdleReady(w) PROVE WakeNotLost'
  <2>1. /\ state[w] # "idle" /\ Match(w) /\ UNCHANGED <<stopping, stopSet>>
        /\ at' = [at EXCEPT ![w] = "loop"]
    BY <1>4 DEF IdleReady, CallsIdle, WorkerConsistent, Consistent, Agree, Goto
  <2>2. \/ \E v \in Visitor : Lend(w, v)
        \/ state' = [state EXCEPT ![w] = "idle"] /\ UNCHANGED <<mailbox, wake>>
    BY <2>1, MatchIs
  <2>3. at'[w] # "select" /\ \A u \in Worker \ {w} : Same(u)
    BY <2>1, <2>2 DEF Lend, Notify, TypeOK
  <2> QED
    BY <1>0, <2>1, <2>3
<1>5. ASSUME NEW w \in Worker, NextBlocks(w) PROVE WakeNotLost'
  BY <1>5 DEF NextBlocks, Goto, WakeNotLost, TypeOK
<1>6. ASSUME NEW w \in Worker, SelectHeartbeat(w) \/ SelectExpire(w) PROVE WakeNotLost'
  <2>1. at'[w] # "select" /\ stopping' = stopping
    BY <1>6 DEF SelectHeartbeat, SelectExpire, TakeOrLoop, Goto, TypeOK
  <2>2. \A u \in Worker \ {w} : Same(u)
    BY <1>6 DEF SelectHeartbeat, SelectExpire, TakeOrLoop, Goto, TypeOK
  <2> QED
    BY <1>0, <2>1, <2>2
<1>7. ASSUME DispatchHandsOff PROVE WakeNotLost'
  <2>1. Last(idle) \in Worker
    BY <1>7, BackIs DEF DispatchHandsOff, CanHandOff
  <2>2. PICK w \in Worker : Lend(w, arrived + 1)
    BY <1>7, <2>1 DEF DispatchHandsOff
  <2>3. UNCHANGED <<at, stopping, stopSet>>
    BY <1>7 DEF DispatchHandsOff
  <2> QED
    BY <2>2, <2>3 DEF Lend, Notify, WakeNotLost, TypeOK
<1>8. ASSUME Stop PROVE WakeNotLost'
  <2>1. \A w \in Worker : state[w] = "idle" => w \in stopSet'
    BY <1>8 DEF Stop, StopCloses
  <2> QED
    BY <1>8, <2>1 DEF Stop, WakeNotLost
<1>9. ASSUME UNCHANGED <<at, state, mailbox, wake, stopping, stopSet>> PROVE WakeNotLost'
  BY <1>9 DEF WakeNotLost
<1>10. ASSUME NEW w \in Worker, Age(w) PROVE WakeNotLost'
  BY <1>9, <1>10 DEF Age
<1>11. ASSUME NEW v \in Visitor, DeadlinePasses(v) \/ Cancel(v) PROVE WakeNotLost'
  BY <1>9, <1>11 DEF DeadlinePasses, Cancel
<1>12. ASSUME DispatchRefused \/ DispatchFull \/ DispatchQueues PROVE WakeNotLost'
  BY <1>9, <1>12 DEF DispatchRefused, DispatchFull, DispatchQueues, TurnAway
<1>13. ASSUME Tick \/ CtxCancel \/ PoolForce PROVE WakeNotLost'
  BY <1>9, <1>13 DEF Tick, CtxCancel, PoolForce
<1>14. ASSUME Terminated PROVE WakeNotLost'
  BY <1>9, <1>14 DEF Terminated, vars
<1> QED
  BY <1>1, <1>2, <1>3, <1>4, <1>5, <1>6, <1>7, <1>8, <1>10, <1>11, <1>12, <1>13, <1>14
  DEF Next, WorkerStep, Idle, Next_Loop, Dispatch

-----------------------------------------------------------------------------
(* The inductive invariant.  No part is inductive alone: the list is exact  *)
(* because a worker that calls Idle is not idle (WorkerConsistent), that is *)
(* kept because a worker handed a visitor is in Next (StopSafe and the      *)
(* list), and the types of the lists need their order.                      *)

IndInv == /\ TypeOK /\ IdleListExact /\ IdleExcludesWaiting /\ PendingExact
          /\ WorkerConsistent /\ StopSafe /\ CloseEndsService /\ WakeNotLost

\* The inductive invariant holds of a pool as New returns it.
LEMMA IndInvInit == Init => IndInv
<1> SUFFICES ASSUME Init PROVE IndInv
  OBVIOUS
<1>1. TypeOK
  BY TypeInit
<1>2. IdleListExact /\ IdleExcludesWaiting
  BY DEF Init, IdleListExact, IdleSorted, IdleIsState, IdleExcludesWaiting
<1>3. PendingExact
  BY BoundAssumption DEF Init, PendingExact
<1>4. WorkerConsistent
  BY DEF Init, WorkerConsistent, Consistent, Agree
<1>5. StopSafe /\ CloseEndsService /\ WakeNotLost
  BY DEF Init, StopSafe, CloseEndsService, WakeNotLost
<1> QED
  BY <1>1, <1>2, <1>3, <1>4, <1>5 DEF IndInv

\* A step that changes no variable of the pool keeps the inductive invariant.
LEMMA IndInvStutter == ASSUME IndInv, UNCHANGED vars PROVE IndInv'
<1> USE DEF vars, poolVars, queueVars, workerVars, routineVars, visitorVars, shutdownVars
<1>1. TypeOK'
  BY DEF IndInv, TypeOK
<1>2. IdleListExact' /\ IdleExcludesWaiting' /\ PendingExact'
  BY DEF IndInv, IdleListExact, IdleSorted, IdleIsState, IdleExcludesWaiting, PendingExact
<1>3. WorkerConsistent' /\ StopSafe' /\ CloseEndsService' /\ WakeNotLost'
  BY DEF IndInv, WorkerConsistent, Consistent, StopSafe, CloseEndsService, WakeNotLost
<1> QED
  BY <1>1, <1>2, <1>3 DEF IndInv

\* Every step of the pool keeps the inductive invariant.
LEMMA IndInvStep == ASSUME IndInv, [Next]_vars PROVE IndInv'
<1>1. CASE UNCHANGED vars
  BY <1>1, IndInvStutter
<1>2. CASE Next
  <2>1. TypeOK'
    BY <1>2, TypeStep DEF IndInv
  <2>2. IdleListExact' /\ PendingExact'
    BY <1>2, ListStep, PendingStep DEF IndInv
  <2>3. IdleExcludesWaiting'
    BY <1>2, <2>1, ExcludesStep DEF IndInv
  <2>4. WorkerConsistent' /\ StopSafe' /\ CloseEndsService' /\ WakeNotLost'
    BY <1>2, ConsistentStep, StopStep, ServiceStep, WakeStep DEF IndInv
  <2> QED
    BY <2>1, <2>2, <2>3, <2>4 DEF IndInv
<1> QED
  BY <1>1, <1>2

\* The inductive invariant holds in every reachable state of the pool.
THEOREM Invariance == Spec => []IndInv
BY IndInvInit, IndInvStep, PTL DEF Spec

\* Every variable keeps its type.
THEOREM TypeCorrect == Spec => []TypeOK
<1>1. IndInv => TypeOK
  BY DEF IndInv
<1> QED
  BY Invariance, <1>1, PTL

\* The idle list is sorted by connection ID and is exactly the idle workers,
\* however many connections there are.
THEOREM IdleListCorrect == Spec => []IdleListExact
<1>1. IndInv => IdleListExact
  BY DEF IndInv
<1> QED
  BY Invariance, <1>1, PTL

\* The queue is counted and within its limit, and nobody waits in it while a
\* worker is idle.
THEOREM QueueCorrect == Spec => []QueueExact
<1>1. IndInv => QueueExact
  BY DEF IndInv, QueueExact
<1> QED
  BY Invariance, <1>1, PTL

\* Goroutine, state and sockets of every worker agree.
THEOREM WorkersConsistent == Spec => []WorkerConsistent
<1>1. IndInv => WorkerConsistent
  BY DEF IndInv
<1> QED
  BY Invariance, <1>1, PTL

\* A worker blocked in Next with a visitor or closed has its wake-up pending.
THEOREM NoWakeIsLost == Spec => []WakeNotLost
<1>1. IndInv => WakeNotLost
  BY DEF IndInv
<1> QED
  BY Invariance, <1>1, PTL

\* Closing a worker closes the visitor it serves.
THEOREM ForceReachesVisitor == Spec => []CloseEndsService
<1>1. IndInv => CloseEndsService
  BY DEF IndInv
<1> QED
  BY Invariance, <1>1, PTL

\* No worker in Stop's snapshot carries a visitor.
THEOREM StopIsGraceful == Spec => []StopSparesVisitors
<1>1. IndInv => StopSparesVisitors
  BY DEF IndInv, StopSafe, StopSparesVisitors, WorkerConsistent, Consistent, TypeOK
<1> QED
  BY Invariance, <1>1, PTL

-----------------------------------------------------------------------------
(* Action properties, from the same invariant.                              *)

\* A stopping pool takes nothing into service.
THEOREM StoppedPoolOnlyShrinks == Spec => NoServiceAfterStop
<1> USE DEF poolVars, queueVars, workerVars, routineVars, visitorVars, shutdownVars
<1>1. ASSUME IndInv, Next PROVE NoServiceAfterStopStep
  <2> SUFFICES ASSUME stopping, NEW u \in Worker, state'[u] # state[u]
               PROVE  state'[u] \in {"releasing", "closed"}
    BY DEF NoServiceAfterStopStep
  <2>0. state \in [Worker -> State]
    BY <1>1 DEF IndInv, TypeOK
  <2>1. ASSUME NEW w \in Worker, Closed(w) PROVE state'[u] \in {"releasing", "closed"}
    BY <2>0, <2>1 DEF Closed
  <2>2. ASSUME NEW w \in Worker, WorkerStep(w) PROVE state'[u] \in {"releasing", "closed"}
    <3>1. CASE HandshakeFails(w) \/ IdleStopped(w) \/ Exit(w)
      BY <2>1, <3>1 DEF HandshakeFails, IdleStopped, Exit
    <3>2. CASE Register(w) \/ IdleExpired(w) \/ IdleReady(w)
      BY <3>2 DEF Register, IdleExpired, IdleReady
    <3>3. CASE Releasing(w)
      BY <2>0, <3>3 DEF Releasing
    <3>4. CASE SelectHeartbeat(w) \/ SelectExpire(w)
      BY <3>4 DEF SelectHeartbeat, SelectExpire, TakeOrLoop, CanTake
    <3>5. CASE Next_Loop(w) \/ SelectWake(w) \/ CheckFails(w) \/ LeaseReturns(w)
                 \/ LeaseFails(w) \/ Age(w)
      BY <3>5 DEF Next_Loop, NextStopped, NextLeased, NextBlocks, SelectWake, CheckFails,
                  LeaseReturns, LeaseFails, EndLease, Age
    <3> QED
      BY <2>2, <3>1, <3>2, <3>3, <3>4, <3>5 DEF WorkerStep, Idle
  <2>3. ASSUME NEW w \in Worker, StopClose(w) \/ ForceClose(w)
        PROVE  state'[u] \in {"releasing", "closed"}
    BY <2>1, <2>3 DEF StopClose, ForceClose
  <2>4. ASSUME NEW v \in Visitor, DeadlinePasses(v) \/ Cancel(v) PROVE FALSE
    BY <2>4 DEF DeadlinePasses, Cancel
  <2>5. ASSUME Dispatch PROVE FALSE
    BY <2>5 DEF Dispatch, DispatchRefused, DispatchHandsOff, DispatchFull, DispatchQueues,
                Accepts, TurnAway
  <2>6. ASSUME Tick \/ CtxCancel \/ Stop \/ PoolForce PROVE FALSE
    BY <2>6 DEF Tick, CtxCancel, Stop, PoolForce
  <2>7. ASSUME Terminated PROVE FALSE
    BY <2>7 DEF Terminated, vars
  <2> QED
    BY <1>1, <2>2, <2>3, <2>4, <2>5, <2>6, <2>7 DEF Next
<1>2. IndInv /\ [Next]_vars => [NoServiceAfterStopStep]_vars
  BY <1>1
<1> QED
  BY Invariance, <1>2, PTL DEF Spec, NoServiceAfterStop

\* A visitor that finds idle workers goes to the most recently established one:
\* the Back of the list is the largest ID, and matchLocked never touches an idle
\* worker.
THEOREM YoungestIsChosen == Spec => YoungestFirst
<1> USE DEF poolVars, queueVars, workerVars, routineVars, visitorVars, shutdownVars
<1>1. ASSUME IndInv, Next PROVE YoungestFirstStep
  <2> SUFFICES ASSUME NEW b \in Worker, state[b] = "idle", state'[b] = "leased",
                      NEW u \in Worker, state[u] = "idle"
               PROVE  u <= b
    BY DEF YoungestFirstStep
  <2>0. TypeOK /\ IdleListExact /\ WorkerConsistent
    BY <1>1 DEF IndInv
  <2>1. ASSUME NEW w \in Worker, Closed(w) PROVE FALSE
    BY <2>0, <2>1 DEF Closed, TypeOK
  <2>2. ASSUME NEW w \in Worker, WorkerStep(w) PROVE FALSE
    <3>1. CASE HandshakeFails(w) \/ IdleStopped(w) \/ Exit(w)
      BY <2>1, <3>1 DEF HandshakeFails, IdleStopped, Exit
    <3>2. CASE Register(w) \/ IdleExpired(w) \/ Releasing(w)
      BY <2>0, <3>2 DEF Register, IdleExpired, Releasing, TypeOK
    <3>3. CASE IdleReady(w)
      <4>1. state[w] # "idle" /\ Match(w)
        BY <2>0, <3>3 DEF IdleReady, CallsIdle, WorkerConsistent, Consistent, Agree
      <4>2. state' = [state EXCEPT ![w] = "idle"] \/ state' = [state EXCEPT ![w] = "leased"]
        BY <2>0, <4>1, MatchIs DEF Lend
      <4> QED
        BY <2>0, <4>1, <4>2 DEF TypeOK
    <3>4. CASE SelectHeartbeat(w) \/ SelectExpire(w)
      BY <2>0, <3>4 DEF SelectHeartbeat, SelectExpire, TakeOrLoop, TypeOK
    <3>5. CASE Next_Loop(w) \/ SelectWake(w) \/ CheckFails(w) \/ LeaseReturns(w)
                 \/ LeaseFails(w) \/ Age(w)
      BY <3>5 DEF Next_Loop, NextStopped, NextLeased, NextBlocks, SelectWake, CheckFails,
                  LeaseReturns, LeaseFails, EndLease, Age
    <3> QED
      BY <2>2, <3>1, <3>2, <3>3, <3>4, <3>5 DEF WorkerStep, Idle
  <2>3. ASSUME NEW w \in Worker, StopClose(w) \/ ForceClose(w) PROVE FALSE
    BY <2>1, <2>3 DEF StopClose, ForceClose
  <2>4. ASSUME NEW v \in Visitor, DeadlinePasses(v) \/ Cancel(v) PROVE FALSE
    BY <2>4 DEF DeadlinePasses, Cancel
  <2>5. ASSUME DispatchHandsOff PROVE u <= b
    <3>1. idle \in Seq(Worker) /\ idle # <<>>
      BY <2>0, <2>5 DEF DispatchHandsOff, CanHandOff, TypeOK
    <3>2. Last(idle) = idle[Len(idle)] /\ Len(idle) \in 1..Len(idle) /\ Len(idle) \in Nat
      BY <3>1, EmptySeq, LenProperties DEF Last
    <3>3. b = idle[Len(idle)]
      BY <2>0, <2>5, <3>2 DEF DispatchHandsOff, Lend, TypeOK
    <3>4. PICK i \in 1..Len(idle) : idle[i] = u
      BY <2>0 DEF IdleListExact, IdleIsState
    <3>5. i = Len(idle) \/ idle[i] < idle[Len(idle)]
      BY <2>0, <3>2 DEF IdleListExact, IdleSorted
    <3>6. u \in Nat /\ b \in Nat
      BY WorkerAssumption
    <3> QED
      BY <3>3, <3>4, <3>5, <3>6
  <2>6. ASSUME DispatchRefused \/ DispatchFull \/ DispatchQueues PROVE FALSE
    BY <2>6 DEF DispatchRefused, DispatchFull, DispatchQueues, TurnAway
  <2>7. ASSUME Tick \/ CtxCancel \/ Stop \/ PoolForce PROVE FALSE
    BY <2>7 DEF Tick, CtxCancel, Stop, PoolForce
  <2>8. ASSUME Terminated PROVE FALSE
    BY <2>8 DEF Terminated, vars
  <2> QED
    BY <1>1, <2>2, <2>3, <2>4, <2>5, <2>6, <2>7, <2>8 DEF Next, Dispatch
<1>2. IndInv /\ [Next]_vars => [YoungestFirstStep]_vars
  BY <1>1
<1> QED
  BY Invariance, <1>2, PTL DEF Spec, YoungestFirst


-----------------------------------------------------------------------------
(* Who holds a visitor.  The queue is in the order of arrival, a visitor is *)
(* in the queue, in one mailbox or with one goroutine and in no two of      *)
(* them, and the socket a worker refers to is one it holds or a closed one. *)

QueueInOrder ==
    /\ Ascending(waiting)
    /\ \A v : Has(waiting, v) => v <= arrived /\ v \notin closedTcp
    /\ \A v \in closedTcp : v <= arrived

OneHolder ==
    \A w \in Worker :
       /\ mailbox[w] # NoVisitor =>
             /\ mailbox[w] <= arrived /\ mailbox[w] \notin closedTcp /\ ~Has(waiting, mailbox[w])
             /\ \A u \in Worker : mailbox[w] # serving[u] /\ (u # w => mailbox[w] # mailbox[u])
       /\ serving[w] # NoVisitor =>
             /\ serving[w] <= arrived /\ ~Has(waiting, serving[w])
             /\ \A u \in Worker : u # w => serving[w] # serving[u]

BusinessHeld ==
    \A w \in Worker : business[w] \in {NoVisitor, mailbox[w], serving[w]} \cup closedTcp

Holders == QueueInOrder /\ OneHolder /\ BusinessHeld

\* What matchLocked does with the visitors: it drops the dead ones at the front
\* of the queue and gives the worker the first live one, or empties the queue.
LEMMA MatchMoves ==
    ASSUME TypeOK, Ascending(waiting), NEW w \in Worker, Match(w)
    PROVE  /\ Ascending(waiting')
           /\ \A x : Has(waiting', x) => Has(waiting, x) /\ (x \in closedTcp' => x \in closedTcp)
           /\ \A x \in closedTcp' : x \in closedTcp \/ Has(waiting, x)
           /\ \/ \E i \in 1..Len(waiting) :
                    /\ Lend(w, waiting[i])
                    /\ waiting[i] \in Visitor
                    /\ ~Has(waiting', waiting[i])
                    /\ waiting[i] \in closedTcp' => waiting[i] \in closedTcp
                    /\ ~ctxDone /\ waiting[i] \notin late
                    /\ \A j \in 1..i-1 : waiting[j] \in late /\ waiting[j] \in closedTcp'
              \/ /\ waiting' = <<>>
                 /\ business' = [business EXCEPT ![w] = NoVisitor]
                 /\ UNCHANGED mailbox
<1>1. PICK k \in 0..Len(waiting) :
          /\ ScanStops(k)
          /\ closedTcp' = closedTcp \cup Dropped(k)
          /\ MatchServes(w, k) \/ MatchParks(w, k)
  BY DEF Match
<1>0. /\ Len(waiting) \in Nat /\ k \in Nat /\ k <= Len(waiting)
      /\ waiting \in Seq(Visitor) /\ Visitor \subseteq Nat
      /\ \A j \in 1..Len(waiting) : waiting[j] \in Visitor
  <2>1. Visitor \subseteq Nat
    BY BoundAssumption DEF Visitor
  <2> QED
    BY <2>1, ElementOfSeq, LenProperties DEF TypeOK
<1>2. \A x \in closedTcp' : x \in closedTcp \/ \E j \in 1..k : waiting[j] = x
  BY <1>1 DEF Dropped
<1>3. \A j \in 1..k : waiting[j] \in closedTcp'
  BY <1>1 DEF Dropped
<1>4. \A x \in closedTcp' : x \in closedTcp \/ Has(waiting, x)
  BY <1>0, <1>2 DEF Has
<1>5. \A i, j \in 1..Len(waiting) : waiting[i] = waiting[j] => i = j
  BY <1>0, AscendingIsDistinct
<1>6. CASE MatchServes(w, k)
  <2>1. /\ waiting' = SubSeq(waiting, k + 2, Len(waiting)) /\ k < Len(waiting)
        /\ Lend(w, waiting[k + 1])
    BY <1>6 DEF MatchServes
  <2>2. PICK p \in 1..Len(waiting) + 1 : p = k + 2
    BY <1>0, <2>1
  <2>3. /\ Ascending(SubSeq(waiting, p, Len(waiting)))
        /\ \A x : Has(SubSeq(waiting, p, Len(waiting)), x) <=> \E j \in p..Len(waiting) : waiting[j] = x
    BY <1>0, TailOfAscending
  <2>4. /\ Ascending(waiting')
        /\ \A x : Has(waiting', x) <=> \E j \in k+2..Len(waiting) : waiting[j] = x
    BY <2>1, <2>2, <2>3
  <2>5. ASSUME NEW x, Has(waiting', x)
        PROVE  Has(waiting, x) /\ (x \in closedTcp' => x \in closedTcp)
    <3>1. PICK j \in k+2..Len(waiting) : waiting[j] = x
      BY <2>4, <2>5
    <3>2. j \in 1..Len(waiting) /\ \A i \in 1..k : i \in 1..Len(waiting) /\ i # j
      BY <1>0
    <3>3. \A i \in 1..k : waiting[i] # x
      BY <1>5, <3>1, <3>2
    <3> QED
      BY <1>2, <3>1, <3>2, <3>3 DEF Has
  <2>6. k + 1 \in 1..Len(waiting) /\ \A i \in 1..k : i \in 1..Len(waiting) /\ i # k + 1
    BY <1>0, <2>1
  <2>7. ~Has(waiting', waiting[k + 1])
    <3> SUFFICES ASSUME NEW j \in k+2..Len(waiting), waiting[j] = waiting[k + 1] PROVE FALSE
      BY <2>4
    <3>1. j \in 1..Len(waiting) /\ j # k + 1
      BY <1>0
    <3> QED
      BY <1>5, <2>6, <3>1
  <2>8. waiting[k + 1] \in closedTcp' => waiting[k + 1] \in closedTcp
    BY <1>2, <1>5, <2>6
  <2>9. ~ctxDone /\ waiting[k + 1] \notin late
    BY <1>1, <2>1 DEF ScanStops, Dead
  <2>10. k + 1 - 1 = k /\ \A j \in 1..k : waiting[j] \in late
    BY <1>0, <1>1, <2>9 DEF ScanStops, Dead
  <2>11. \A j \in 1..k + 1 - 1 : waiting[j] \in late /\ waiting[j] \in closedTcp'
    BY <1>3, <2>10
  <2>12. waiting[k + 1] \in Visitor
    BY <1>0, <2>6
  <2> QED
    BY <1>4, <2>1, <2>4, <2>5, <2>6, <2>7, <2>8, <2>9, <2>11, <2>12
<1>7. CASE MatchParks(w, k)
  <2>1. /\ waiting' = <<>>
        /\ business' = [business EXCEPT ![w] = NoVisitor]
        /\ UNCHANGED mailbox
    BY <1>7 DEF MatchParks
  <2>2. Len(waiting') = 0
    BY <2>1
  <2>3. Ascending(waiting') /\ \A x : ~Has(waiting', x)
    BY <2>2 DEF Ascending, Has
  <2> QED
    BY <1>4, <2>1, <2>3
<1> QED
  BY <1>1, <1>6, <1>7

-----------------------------------------------------------------------------
(* Every step keeps the holders apart.                                      *)

\* Closing a worker closes sockets that it holds, and closes none in the queue,
\* in another mailbox or with another goroutine.
LEMMA ClosedReleases ==
    ASSUME TypeOK, WorkerConsistent, Holders, NEW w \in Worker, Closed(w)
    PROVE  /\ mailbox' = [mailbox EXCEPT ![w] = NoVisitor]
           /\ \A u \in Worker : business'[u] \in {NoVisitor, business[u]}
           /\ business'[w] # NoVisitor => state[w] = "closed"
           /\ closedTcp \subseteq closedTcp'
           /\ \A v \in closedTcp' : v \in closedTcp \/ (v # NoVisitor /\ (v = mailbox[w] \/ v = serving[w]))
<1>1. CASE state[w] = "closed"
  <2>1. UNCHANGED <<mailbox, business, closedTcp>>
    BY <1>1 DEF Closed
  <2>2. mailbox[w] = NoVisitor
    BY <1>1 DEF WorkerConsistent, Consistent
  <2> QED
    BY <1>1, <2>1, <2>2 DEF TypeOK
<1>2. CASE state[w] # "closed"
  <2>1. /\ mailbox' = [mailbox EXCEPT ![w] = NoVisitor]
        /\ business' = [business EXCEPT ![w] = NoVisitor]
        /\ closedTcp' = closedTcp \cup Owned(w)
    BY <1>2 DEF Closed
  <2>2. business[w] \in {NoVisitor, mailbox[w], serving[w]} \cup closedTcp
    BY DEF Holders, BusinessHeld
  <2> QED
    BY <2>1, <2>2 DEF Owned, TypeOK
<1> QED
  BY <1>1, <1>2

\* A pool as New returns it holds nobody.
LEMMA HoldersInit == Init => Holders
<1> SUFFICES ASSUME Init PROVE Holders
  OBVIOUS
<1>1. Len(waiting) = 0
  BY DEF Init
<1>2. Ascending(waiting) /\ \A v : ~Has(waiting, v)
  BY <1>1 DEF Ascending, Has
<1> QED
  BY <1>2 DEF Init, Holders, QueueInOrder, OneHolder, BusinessHeld

\* A visitor is a positive number, of those that have arrived.
LEMMA HoldersStep ==
    ASSUME IndInv, Holders, Next
    PROVE  Holders'
<1> USE DEF poolVars, queueVars, workerVars, routineVars, visitorVars, shutdownVars
<1>0. TypeOK /\ IdleListExact /\ WorkerConsistent /\ QueueInOrder /\ OneHolder /\ BusinessHeld
  BY DEF IndInv, Holders
<1>t. /\ mailbox \in [Worker -> Visitor \cup {NoVisitor}]
      /\ serving \in [Worker -> Visitor \cup {NoVisitor}]
      /\ business \in [Worker -> Visitor \cup {NoVisitor}]
      /\ arrived \in Nat /\ Visitor \subseteq Nat \ {0} /\ closedTcp \subseteq Visitor
      /\ waiting \in Seq(Visitor)
  BY <1>0, BoundAssumption DEF TypeOK, Visitor, NoVisitor
\* Worker.Closed.
<1>1. ASSUME NEW w \in Worker, Closed(w), UNCHANGED <<waiting, serving, arrived>>
      PROVE  Holders'
  <2>1. /\ mailbox' = [mailbox EXCEPT ![w] = NoVisitor]
        /\ \A u \in Worker : business'[u] \in {NoVisitor, business[u]}
        /\ business'[w] # NoVisitor => state[w] = "closed"
        /\ closedTcp \subseteq closedTcp'
        /\ \A v \in closedTcp' : v \in closedTcp \/ (v # NoVisitor /\ (v = mailbox[w] \/ v = serving[w]))
    BY <1>0, <1>1, ClosedReleases
  <2>2. QueueInOrder'
    BY <1>0, <1>1, <2>1 DEF QueueInOrder, OneHolder
  <2>3. OneHolder'
    BY <1>0, <1>1, <1>t, <2>1 DEF OneHolder
  <2>4. BusinessHeld'
    <3> SUFFICES ASSUME NEW u \in Worker, business'[u] # NoVisitor
                 PROVE  business'[u] \in {mailbox'[u], serving'[u]} \cup closedTcp'
      BY DEF BusinessHeld
    <3>1. business'[u] = business[u]
      BY <2>1
    <3>2. CASE u = w
      <4>1. mailbox[w] = NoVisitor
        BY <1>0, <2>1, <3>2 DEF WorkerConsistent, Consistent
      <4> QED
        BY <1>0, <1>1, <2>1, <3>1, <3>2, <4>1 DEF BusinessHeld
    <3>3. CASE u # w
      BY <1>0, <1>1, <1>t, <2>1, <3>1, <3>3 DEF BusinessHeld
    <3> QED
      BY <3>2, <3>3
  <2> QED
    BY <2>2, <2>3, <2>4 DEF Holders
<1>2. ASSUME NEW w \in Worker, HandshakeFails(w) \/ IdleStopped(w) \/ Exit(w)
                                 \/ StopClose(w) \/ ForceClose(w)
      PROVE  Holders'
  BY <1>1, <1>2 DEF HandshakeFails, IdleStopped, Exit, StopClose, ForceClose
\* Nothing that matters changes.
<1>3. ASSUME UNCHANGED <<waiting, mailbox, business, serving, arrived, closedTcp>>
      PROVE  Holders'
  BY <1>0, <1>3 DEF Holders, QueueInOrder, OneHolder, BusinessHeld
<1>4. ASSUME NEW w \in Worker, Register(w) \/ NextStopped(w) \/ NextBlocks(w) \/ SelectWake(w)
                                 \/ CheckFails(w) \/ Releasing(w) \/ Age(w)
      PROVE  Holders'
  BY <1>3, <1>4 DEF Register, NextStopped, NextBlocks, SelectWake, CheckFails, Releasing, Age
<1>5. ASSUME NEW w \in Worker, SelectHeartbeat(w) \/ SelectExpire(w) PROVE Holders'
  BY <1>3, <1>5 DEF SelectHeartbeat, SelectExpire, TakeOrLoop
<1>6. ASSUME NEW w \in Worker, IdleExpired(w) PROVE Holders'
  <2>1. /\ business' = [business EXCEPT ![w] = NoVisitor]
        /\ UNCHANGED <<waiting, mailbox, serving, arrived, closedTcp>>
    BY <1>6 DEF IdleExpired
  <2>2. BusinessHeld'
    BY <1>0, <1>t, <2>1 DEF BusinessHeld
  <2> QED
    BY <1>0, <2>1, <2>2 DEF Holders, QueueInOrder, OneHolder
<1>7. ASSUME NEW w \in Worker, IdleReady(w) PROVE Holders'
  <2>1. /\ Match(w) /\ UNCHANGED <<serving, arrived>>
        /\ mailbox[w] = NoVisitor /\ serving[w] = NoVisitor
    BY <1>0, <1>7 DEF IdleReady, CallsIdle, WorkerConsistent, Consistent, Agree
  <2>2. Ascending(waiting)
    BY <1>0 DEF QueueInOrder
  <2>3. /\ Ascending(waiting')
        /\ \A x : Has(waiting', x) => Has(waiting, x) /\ (x \in closedTcp' => x \in closedTcp)
        /\ \A x \in closedTcp' : x \in closedTcp \/ Has(waiting, x)
    BY <1>0, <2>1, <2>2, MatchMoves
  <2>4. QueueInOrder'
    BY <1>0, <2>1, <2>3 DEF QueueInOrder
  <2>5. closedTcp \subseteq closedTcp'
    BY <2>1 DEF Match
  <2>6. ASSUME NEW i \in 1..Len(waiting), Lend(w, waiting[i]), waiting[i] \in Visitor,
               ~Has(waiting', waiting[i]), waiting[i] \in closedTcp' => waiting[i] \in closedTcp
        PROVE  OneHolder' /\ BusinessHeld'
    <3>1. /\ mailbox' = [mailbox EXCEPT ![w] = waiting[i]]
          /\ business' = [business EXCEPT ![w] = waiting[i]]
      BY <2>6 DEF Lend
    <3>2. Has(waiting, waiting[i])
      BY DEF Has
    <3>3. waiting[i] <= arrived /\ waiting[i] \notin closedTcp'
      BY <1>0, <2>6, <3>2 DEF QueueInOrder
    <3>4. \A u \in Worker : waiting[i] # mailbox[u] /\ waiting[i] # serving[u]
      BY <1>0, <1>t, <2>6, <3>2 DEF OneHolder, NoVisitor
    <3>5. OneHolder'
      BY <1>0, <1>t, <2>1, <2>3, <2>6, <3>1, <3>3, <3>4 DEF OneHolder
    <3>6. BusinessHeld'
      BY <1>0, <1>t, <2>1, <2>5, <3>1 DEF BusinessHeld
    <3> QED
      BY <3>5, <3>6
  <2>7. ASSUME business' = [business EXCEPT ![w] = NoVisitor], UNCHANGED mailbox
        PROVE  OneHolder' /\ BusinessHeld'
    <3>1. OneHolder'
      BY <1>0, <1>t, <2>1, <2>3, <2>7 DEF OneHolder
    <3>2. BusinessHeld'
      BY <1>0, <1>t, <2>1, <2>5, <2>7 DEF BusinessHeld
    <3> QED
      BY <3>1, <3>2
  <2>8. \/ \E i \in 1..Len(waiting) :
              /\ Lend(w, waiting[i]) /\ waiting[i] \in Visitor
              /\ ~Has(waiting', waiting[i])
              /\ waiting[i] \in closedTcp' => waiting[i] \in closedTcp
        \/ business' = [business EXCEPT ![w] = NoVisitor] /\ UNCHANGED mailbox
    BY <1>0, <2>1, <2>2, MatchMoves
  <2> QED
    BY <2>4, <2>6, <2>7, <2>8 DEF Holders
<1>8. ASSUME NEW w \in Worker, NextLeased(w) PROVE Holders'
  <2>1. /\ serving' = [serving EXCEPT ![w] = mailbox[w]]
        /\ mailbox' = [mailbox EXCEPT ![w] = NoVisitor]
        /\ mailbox[w] # NoVisitor /\ serving[w] = NoVisitor
        /\ UNCHANGED <<waiting, business, arrived, closedTcp>>
    BY <1>0, <1>8 DEF NextLeased, WorkerConsistent, Consistent
  <2>2. OneHolder'
    BY <1>0, <1>t, <2>1 DEF OneHolder
  <2>3. BusinessHeld'
    BY <1>0, <1>t, <2>1 DEF BusinessHeld
  <2> QED
    BY <1>0, <2>1, <2>2, <2>3 DEF Holders, QueueInOrder
<1>9. ASSUME NEW w \in Worker, LeaseReturns(w) \/ LeaseFails(w) PROVE Holders'
  <2>1. /\ serving' = [serving EXCEPT ![w] = NoVisitor]
        /\ closedTcp' = closedTcp \cup {serving[w]}
        /\ UNCHANGED <<waiting, mailbox, business, arrived>>
    BY <1>9 DEF LeaseReturns, LeaseFails, EndLease
  <2>2. serving[w] # NoVisitor
    BY <1>0, <1>9 DEF LeaseReturns, LeaseFails, WorkerConsistent, Consistent
  <2>3. QueueInOrder'
    BY <1>0, <2>1, <2>2 DEF QueueInOrder, OneHolder
  <2>4. OneHolder'
    BY <1>0, <1>t, <2>1, <2>2 DEF OneHolder
  <2>5. BusinessHeld'
    BY <1>0, <1>t, <2>1 DEF BusinessHeld
  <2> QED
    BY <2>3, <2>4, <2>5 DEF Holders
\* A new visitor has the next number, which nobody holds.
<1>10. ASSUME arrived' = arrived + 1
       PROVE  /\ \A v \in Nat : v <= arrived => v <= arrived' /\ v # arrived + 1
              /\ ~Has(waiting, arrived + 1) /\ arrived + 1 \notin closedTcp
              /\ \A u \in Worker : mailbox[u] # arrived + 1 /\ serving[u] # arrived + 1
  <2>1. \A v \in Nat : v <= arrived => v <= arrived' /\ v # arrived + 1
    BY <1>t, <1>10
  <2>2. ~Has(waiting, arrived + 1) /\ arrived + 1 \notin closedTcp
    BY <1>0, <1>t DEF QueueInOrder
  <2>3. arrived + 1 # NoVisitor /\ arrived + 1 \in Nat
    BY <1>t DEF NoVisitor
  <2>4. \A u \in Worker : mailbox[u] # arrived + 1 /\ serving[u] # arrived + 1
    BY <1>0, <2>1, <2>3 DEF OneHolder
  <2> QED
    BY <2>1, <2>2, <2>4
<1>n. \A u \in Worker : mailbox[u] \in Nat /\ serving[u] \in Nat
  <2> TAKE u \in Worker
  <2>1. mailbox[u] \in Visitor \cup {NoVisitor} /\ serving[u] \in Visitor \cup {NoVisitor}
    BY <1>t
  <2>2. Visitor \subseteq Nat /\ NoVisitor \in Nat
    BY <1>t DEF NoVisitor
  <2> QED
    BY <2>1, <2>2
<1>h. \A v : Has(waiting, v) => v \in Nat
  <2>1. \A i \in 1..Len(waiting) : waiting[i] \in Nat
    BY <1>t, ElementOfSeq
  <2> QED
    BY <2>1 DEF Has
<1>11. ASSUME DispatchRefused \/ DispatchFull PROVE Holders'
  <2>1. /\ arrived' = arrived + 1 /\ closedTcp' = closedTcp \cup {arrived + 1}
        /\ UNCHANGED <<waiting, mailbox, business, serving>>
    BY <1>11 DEF DispatchRefused, DispatchFull, TurnAway
  <2>2. QueueInOrder'
    BY <1>0, <1>t, <1>h, <1>10, <2>1 DEF QueueInOrder
  <2>3. OneHolder'
    BY <1>0, <1>t, <1>10, <2>1 DEF OneHolder
  <2>4. BusinessHeld'
    BY <1>0, <2>1 DEF BusinessHeld
  <2> QED
    BY <2>2, <2>3, <2>4 DEF Holders
<1>12. ASSUME DispatchHandsOff PROVE Holders'
  <2>1. PICK w \in Worker : state[w] = "idle" /\ Lend(w, arrived + 1)
    BY <1>0, <1>12, BackIs DEF DispatchHandsOff, CanHandOff
  <2>2. /\ arrived' = arrived + 1 /\ UNCHANGED <<waiting, serving, closedTcp>>
        /\ mailbox' = [mailbox EXCEPT ![w] = arrived + 1]
        /\ business' = [business EXCEPT ![w] = arrived + 1]
    BY <1>12, <2>1 DEF DispatchHandsOff, Lend
  <2>3. QueueInOrder'
    BY <1>0, <1>t, <1>h, <1>10, <2>2 DEF QueueInOrder
  <2>4. OneHolder'
    <3>1. /\ ~Has(waiting, arrived + 1) /\ arrived + 1 \notin closedTcp
          /\ \A u \in Worker : mailbox[u] # arrived + 1 /\ serving[u] # arrived + 1
      BY <1>10, <2>2
    <3>3. \A u \in Worker : mailbox'[u] = IF u = w THEN arrived + 1 ELSE mailbox[u]
      BY <1>t, <2>2
    <3>4. arrived + 1 <= arrived'
      BY <1>t, <2>2
    <3> QED
      <4>1. ASSUME NEW x \in Worker, mailbox'[x] # NoVisitor
            PROVE  /\ mailbox'[x] <= arrived' /\ mailbox'[x] \notin closedTcp'
                   /\ ~Has(waiting', mailbox'[x])
                   /\ \A u \in Worker : /\ mailbox'[x] # serving'[u]
                                        /\ u # x => mailbox'[x] # mailbox'[u]
        <5>1. CASE x = w
          BY <2>2, <3>1, <3>3, <3>4, <5>1
        <5>2. CASE x # w
          <6>1. mailbox'[x] = mailbox[x]
            BY <3>3, <5>2
          <6>2. /\ mailbox[x] <= arrived /\ mailbox[x] \notin closedTcp
                /\ ~Has(waiting, mailbox[x])
                /\ \A u \in Worker : /\ mailbox[x] # serving[u]
                                     /\ u # x => mailbox[x] # mailbox[u]
            BY <1>0, <4>1, <6>1 DEF OneHolder
          <6> QED
            BY <1>t, <1>n, <2>2, <3>1, <3>3, <6>1, <6>2
        <5> QED
          BY <5>1, <5>2
      <4>2. ASSUME NEW x \in Worker, serving'[x] # NoVisitor
            PROVE  /\ serving'[x] <= arrived' /\ ~Has(waiting', serving'[x])
                   /\ \A u \in Worker : u # x => serving'[x] # serving'[u]
        <5>1. /\ serving[x] <= arrived /\ ~Has(waiting, serving[x])
              /\ \A u \in Worker : u # x => serving[x] # serving[u]
          BY <1>0, <2>2, <4>2 DEF OneHolder
        <5> QED
          BY <1>t, <1>n, <2>2, <5>1
      <4> QED
        BY <4>1, <4>2 DEF OneHolder
  <2>5. BusinessHeld'
    BY <1>0, <1>t, <2>2 DEF BusinessHeld
  <2> QED
    BY <2>3, <2>4, <2>5 DEF Holders
<1>13. ASSUME DispatchQueues PROVE Holders'
  <2>1. /\ arrived' = arrived + 1 /\ waiting' = Append(waiting, arrived + 1)
        /\ UNCHANGED <<mailbox, business, serving, closedTcp>>
    BY <1>13 DEF DispatchQueues
  <2>2. /\ Ascending(waiting')
        /\ \A x : Has(waiting', x) <=> Has(waiting, x) \/ x = arrived + 1
    <3>1. /\ Len(waiting) \in Nat /\ Len(waiting') = Len(waiting) + 1
          /\ \A i \in 1..Len(waiting) : waiting'[i] = waiting[i]
          /\ waiting'[Len(waiting) + 1] = arrived + 1
      BY <1>t, <2>1, LenProperties
    <3>2. \A i \in 1..Len(waiting) : waiting[i] <= arrived /\ waiting[i] \in Nat
      BY <1>0, <1>t, ElementOfSeq DEF QueueInOrder, Has
    <3>3. ASSUME NEW i \in 1..Len(waiting'), NEW j \in 1..Len(waiting'), i < j
          PROVE  waiting'[i] < waiting'[j]
      <4>1. i \in 1..Len(waiting)
        BY <3>1, <3>3
      <4>2. CASE j \in 1..Len(waiting)
        BY <1>0, <3>1, <3>3, <4>1, <4>2 DEF QueueInOrder, Ascending
      <4>3. CASE j = Len(waiting) + 1
        BY <1>t, <3>1, <3>2, <4>1, <4>3
      <4> QED
        BY <3>1, <4>2, <4>3
    <3>4. ASSUME NEW x, Has(waiting', x) PROVE Has(waiting, x) \/ x = arrived + 1
      <4>1. PICK i \in 1..Len(waiting') : waiting'[i] = x
        BY <3>4 DEF Has
      <4>2. i \in 1..Len(waiting) \/ i = Len(waiting) + 1
        BY <3>1
      <4> QED
        BY <3>1, <4>1, <4>2 DEF Has
    <3>5. ASSUME NEW x, Has(waiting, x) \/ x = arrived + 1 PROVE Has(waiting', x)
      <4>1. 1..Len(waiting) \subseteq 1..Len(waiting') /\ Len(waiting) + 1 \in 1..Len(waiting')
        BY <3>1
      <4> QED
        BY <3>1, <3>5, <4>1 DEF Has
    <3> QED
      BY <3>3, <3>4, <3>5 DEF Ascending
  <2>3. QueueInOrder'
    BY <1>0, <1>t, <1>h, <1>10, <2>1, <2>2 DEF QueueInOrder
  <2>4. OneHolder'
    BY <1>0, <1>t, <1>10, <2>1, <2>2 DEF OneHolder
  <2>5. BusinessHeld'
    BY <1>0, <2>1 DEF BusinessHeld
  <2> QED
    BY <2>3, <2>4, <2>5 DEF Holders
\* Visitors leave the queue and are closed.
<1>14. ASSUME Ascending(waiting'), closedTcp \subseteq closedTcp',
              \A x : Has(waiting', x) => Has(waiting, x) /\ (x \in closedTcp' => x \in closedTcp),
              \A x \in closedTcp' : x \in closedTcp \/ Has(waiting, x),
              UNCHANGED <<mailbox, business, serving, arrived>>
       PROVE  Holders'
  <2>1. QueueInOrder'
    BY <1>0, <1>14 DEF QueueInOrder
  <2>2. OneHolder'
    BY <1>0, <1>14 DEF OneHolder
  <2>3. BusinessHeld'
    BY <1>0, <1>14 DEF BusinessHeld
  <2> QED
    BY <2>1, <2>2, <2>3 DEF Holders
<1>15. ASSUME NEW v \in Visitor, Cancel(v) PROVE Holders'
  <2>1. PICK i \in 1..Len(waiting) : waiting[i] = v /\ waiting' = RemoveAt(waiting, i)
    BY <1>15 DEF Cancel
  <2>2. Ascending(waiting) /\ Visitor \subseteq Nat
    BY <1>0, <1>t DEF QueueInOrder
  <2>3. Ascending(waiting') /\ \A x : Has(waiting', x) <=> Has(waiting, x) /\ x # v
    BY <1>t, <2>1, <2>2, RemoveOneFromAscending
  <2>4. Has(waiting, v)
    BY <2>1 DEF Has
  <2>5. closedTcp' = closedTcp \cup {v} /\ UNCHANGED <<mailbox, business, serving, arrived>>
    BY <1>15 DEF Cancel
  <2> QED
    BY <1>14, <2>3, <2>4, <2>5
<1>16. ASSUME Stop PROVE Holders'
  <2>1. /\ waiting' = <<>> /\ closedTcp' = closedTcp \cup Range(waiting)
        /\ UNCHANGED <<mailbox, business, serving, arrived>>
    BY <1>16 DEF Stop
  <2>2. Len(waiting') = 0
    BY <2>1
  <2>3. Ascending(waiting') /\ \A x : ~Has(waiting', x)
    BY <2>2 DEF Ascending, Has
  <2>4. \A x \in Range(waiting) : Has(waiting, x)
    BY <1>t, LenProperties DEF Range, Has
  <2> QED
    BY <1>14, <2>1, <2>3, <2>4
<1>17. ASSUME NEW v \in Visitor, DeadlinePasses(v) PROVE Holders'
  BY <1>3, <1>17 DEF DeadlinePasses
<1>18. ASSUME Tick \/ CtxCancel \/ PoolForce PROVE Holders'
  BY <1>3, <1>18 DEF Tick, CtxCancel, PoolForce
<1>19. ASSUME Terminated PROVE Holders'
  BY <1>3, <1>19 DEF Terminated, vars
<1> QED
  BY <1>2, <1>4, <1>5, <1>6, <1>7, <1>8, <1>9, <1>11, <1>12, <1>13, <1>15, <1>16, <1>17, <1>18, <1>19
  DEF Next, WorkerStep, Idle, Next_Loop, Dispatch

\* The inductive invariant and the holders, in every reachable state.
THEOREM HoldersInvariance == Spec => [](IndInv /\ Holders)
<1>1. Init => IndInv /\ Holders
  BY IndInvInit, HoldersInit
<1>2. ASSUME IndInv, Holders, UNCHANGED vars PROVE Holders'
  BY <1>2 DEF vars, poolVars, queueVars, workerVars, routineVars, visitorVars, shutdownVars,
              Holders, QueueInOrder, OneHolder, BusinessHeld
<1>3. (IndInv /\ Holders) /\ [Next]_vars => (IndInv /\ Holders)'
  BY <1>2, IndInvStep, HoldersStep
<1> QED
  BY <1>1, <1>3, PTL DEF Spec

\* A visitor taken from the queue is entitled to its worker, and those queued
\* before it leave as dead: the scan stops at the first live one, and a visitor
\* is in the queue once.
THEOREM HandOffFair == Spec => HandOffIsFair
<1> USE DEF poolVars, queueVars, workerVars, routineVars, visitorVars, shutdownVars
<1>1. ASSUME IndInv, Holders, Next PROVE HandOffIsFairStep
  <2> SUFFICES ASSUME NEW u \in Worker, NEW n \in 1..Len(waiting),
                      mailbox'[u] = waiting[n], mailbox[u] # waiting[n]
               PROVE  /\ ~ctxDone /\ waiting[n] \notin late
                      /\ \A j \in 1..n-1 : waiting[j] \in late /\ waiting[j] \in closedTcp'
    BY DEF HandOffIsFairStep
  <2>0. TypeOK /\ IdleListExact /\ WorkerConsistent /\ QueueInOrder
    BY <1>1 DEF IndInv, Holders
  <2>v. waiting[n] \in Visitor /\ waiting[n] # NoVisitor
    <3>1. waiting[n] \in Visitor
      BY <2>0, ElementOfSeq DEF TypeOK
    <3> QED
      BY <3>1 DEF Visitor, NoVisitor
  <2>1. ASSUME NEW w \in Worker, Closed(w) PROVE FALSE
    BY <2>0, <2>1, <2>v DEF Closed, TypeOK
  <2>2. ASSUME UNCHANGED mailbox PROVE FALSE
    BY <2>2
  <2>3. ASSUME NEW w \in Worker, HandshakeFails(w) \/ IdleStopped(w) \/ Exit(w)
                                   \/ StopClose(w) \/ ForceClose(w)
        PROVE  FALSE
    BY <2>1, <2>3 DEF HandshakeFails, IdleStopped, Exit, StopClose, ForceClose
  <2>4. ASSUME NEW w \in Worker, Register(w) \/ IdleExpired(w) \/ NextStopped(w) \/ NextBlocks(w)
                                   \/ SelectWake(w) \/ CheckFails(w) \/ Releasing(w) \/ Age(w)
                                   \/ LeaseReturns(w) \/ LeaseFails(w)
        PROVE  FALSE
    BY <2>2, <2>4 DEF Register, IdleExpired, NextStopped, NextBlocks, SelectWake, CheckFails,
                      Releasing, Age, LeaseReturns, LeaseFails, EndLease
  <2>5. ASSUME NEW w \in Worker, SelectHeartbeat(w) \/ SelectExpire(w) PROVE FALSE
    BY <2>2, <2>5 DEF SelectHeartbeat, SelectExpire, TakeOrLoop
  <2>6. ASSUME NEW w \in Worker, NextLeased(w) PROVE FALSE
    BY <2>0, <2>6, <2>v DEF NextLeased, TypeOK
  <2>7. ASSUME NEW w \in Worker, IdleReady(w)
        PROVE  /\ ~ctxDone /\ waiting[n] \notin late
               /\ \A j \in 1..n-1 : waiting[j] \in late /\ waiting[j] \in closedTcp'
    <3>1. Match(w) /\ Ascending(waiting)
      BY <2>0, <2>7 DEF IdleReady, QueueInOrder
    <3>2. \/ \E i \in 1..Len(waiting) :
                /\ Lend(w, waiting[i])
                /\ ~ctxDone /\ waiting[i] \notin late
                /\ \A j \in 1..i-1 : waiting[j] \in late /\ waiting[j] \in closedTcp'
          \/ UNCHANGED mailbox
      BY <2>0, <3>1, MatchMoves
    <3>3. PICK i \in 1..Len(waiting) :
                /\ Lend(w, waiting[i])
                /\ ~ctxDone /\ waiting[i] \notin late
                /\ \A j \in 1..i-1 : waiting[j] \in late /\ waiting[j] \in closedTcp'
      BY <2>2, <3>2
    <3>4. waiting[n] = waiting[i]
      BY <2>0, <3>3 DEF Lend, TypeOK
    <3>5. n = i
      <4>1. waiting \in Seq(Visitor) /\ Visitor \subseteq Nat
        BY <2>0, BoundAssumption DEF TypeOK, Visitor
      <4> QED
        BY <3>1, <3>4, <4>1, AscendingIsDistinct
    <3> QED
      BY <3>3, <3>5
  <2>8. ASSUME DispatchHandsOff PROVE FALSE
    <3>1. Len(waiting) = 0
      BY <2>8 DEF DispatchHandsOff, CanHandOff
    <3> QED
      BY <3>1
  <2>9. ASSUME DispatchRefused \/ DispatchFull \/ DispatchQueues PROVE FALSE
    BY <2>2, <2>9 DEF DispatchRefused, DispatchFull, DispatchQueues, TurnAway
  <2>10. ASSUME NEW v \in Visitor, DeadlinePasses(v) \/ Cancel(v) PROVE FALSE
    BY <2>2, <2>10 DEF DeadlinePasses, Cancel
  <2>11. ASSUME Tick \/ CtxCancel \/ Stop \/ PoolForce PROVE FALSE
    BY <2>2, <2>11 DEF Tick, CtxCancel, Stop, PoolForce
  <2>12. ASSUME Terminated PROVE FALSE
    BY <2>2, <2>12 DEF Terminated, vars
  <2> QED
    BY <1>1, <2>3, <2>4, <2>5, <2>6, <2>7, <2>8, <2>9, <2>10, <2>11, <2>12
    DEF Next, WorkerStep, Idle, Next_Loop, Dispatch
<1>2. (IndInv /\ Holders) /\ [Next]_vars => [HandOffIsFairStep]_vars
  BY <1>1
<1> QED
  BY HoldersInvariance, <1>2, PTL DEF Spec, HandOffIsFair

-----------------------------------------------------------------------------
(* The pool implements Visitors.                                            *)

\* A step that keeps who serves a visitor keeps By: at most one worker does.
LEMMA ByKept ==
    ASSUME OneHolder, NEW v \in Visitor,
           \A u \in Worker : serving'[u] = v <=> serving[u] = v
    PROVE  By(v)' = By(v)
<1>1. CASE ~Served(v)
  BY <1>1 DEF By, Served
<1>2. CASE Served(v)
  <2>1. PICK x \in Worker : serving[x] = v
    BY <1>2 DEF Served
  <2>2. serving[x] # NoVisitor
    BY <2>1 DEF Visitor, NoVisitor
  <2>3. \A u \in Worker : serving[u] = v <=> u = x
    BY <2>1, <2>2 DEF OneHolder
  <2>4. By(v) = x
    BY <2>3 DEF By, Served
  <2>5. By(v)' = x
    BY <2>3 DEF By, Served
  <2> QED
    BY <2>4, <2>5
<1> QED
  BY <1>1, <1>2

\* Steps in which visitors only leave the queue and the mailboxes, or nothing
\* happens to them.
LEMMA DismissStep ==
    ASSUME IndInv, Holders, UNCHANGED <<serving, arrived>>, closedTcp \subseteq closedTcp'
    PROVE  V!Next
<1> DEFINE G == {v \in Visitor : Phase(v) = "waiting" /\ v \in closedTcp'}
<1>1. \A v : Served(v)' <=> Served(v)
  BY DEF Served
<1>2. \A v \in Visitor : Phase(v)' = IF v \in G THEN "gone" ELSE Phase(v)
  BY <1>1 DEF Phase
<1>3. \A v \in Visitor : By(v)' = By(v)
  BY <1>1 DEF By
<1>4. V!Dismiss(G)
  BY <1>2, <1>3 DEF V!Dismiss, V!Guest, Visitor
<1> QED
  BY <1>4 DEF V!Next, V!Guest, Visitor

\* Next hands the mailbox to the goroutine: the visitor is served.
LEMMA ServeStep ==
    ASSUME IndInv, Holders, NEW w \in Worker, NextLeased(w)
    PROVE  V!Next
<1>0. mailbox[w] \in Visitor /\ mailbox[w] # NoVisitor
  BY DEF NextLeased, IndInv, TypeOK
<1>m. PICK m \in Visitor : m = mailbox[w]
  BY <1>0
<1>1. /\ serving' = [serving EXCEPT ![w] = m] /\ m # NoVisitor
      /\ UNCHANGED <<arrived, closedTcp>>
  BY <1>0, <1>m DEF NextLeased, visitorVars
<1>2. serving \in [Worker -> Visitor \cup {NoVisitor}] /\ w # 0
  BY WorkerAssumption DEF IndInv, TypeOK
<1>3. serving[w] = NoVisitor
  BY DEF NextLeased, IndInv, WorkerConsistent, Consistent
<1>4. m <= arrived /\ m \notin closedTcp /\ \A u \in Worker : serving[u] # m
  BY <1>1, <1>m DEF Holders, OneHolder
<1>5. \A u \in Worker : serving'[u] = IF u = w THEN m ELSE serving[u]
  BY <1>1, <1>2
<1>6. ~Served(m) /\ Served(m)' /\ \A v \in Visitor : v # m => (Served(v)' <=> Served(v))
  <2>1. ~Served(m) /\ Served(m)'
    BY <1>4, <1>5 DEF Served
  <2>2. ASSUME NEW v \in Visitor, v # m PROVE Served(v)' <=> Served(v)
    <3>1. v # NoVisitor
      BY DEF Visitor, NoVisitor
    <3> QED
      BY <1>3, <1>5, <2>2, <3>1 DEF Served
  <2> QED
    BY <2>1, <2>2
<1>7. Phase(m) = "waiting"
  <2>1. ~(m > arrived)
    <3>1. m \in Nat /\ arrived \in Nat
      BY <1>2, BoundAssumption DEF Visitor, IndInv, TypeOK
    <3> QED
      BY <1>4, <3>1
  <2> QED
    BY <1>4, <1>6, <2>1 DEF Phase
<1>8. \A v \in Visitor : Phase(v)' = IF v = m THEN "served" ELSE Phase(v)
  BY <1>1, <1>6 DEF Phase
<1>9. \A v \in Visitor : By(v)' = IF v = m THEN w ELSE By(v)
  <2>1. By(m)' = w
    <3>1. \A u \in Worker : serving'[u] = m <=> u = w
      BY <1>4, <1>5
    <3> QED
      BY <1>6, <3>1 DEF By
  <2>2. ASSUME NEW v \in Visitor, v # m PROVE By(v)' = By(v)
    <3>1. v # NoVisitor
      BY DEF Visitor, NoVisitor
    <3>2. \A u \in Worker : serving'[u] = v <=> serving[u] = v
      BY <1>3, <1>5, <2>2, <3>1
    <3> QED
      BY <3>2, ByKept DEF Holders
  <2> QED
    BY <2>1, <2>2
<1>10. \A v \in Visitor : By(v) # w
  <2> SUFFICES ASSUME NEW v \in Visitor, By(v) = w PROVE FALSE
    OBVIOUS
  <2>1. Served(v)
    BY <1>2 DEF By
  <2>2. serving[w] = v
    BY <2>1 DEF Served, By
  <2> QED
    BY <1>3, <2>2 DEF Visitor, NoVisitor
<1>11. V!Serve(m, w)
  BY <1>2, <1>7, <1>8, <1>9, <1>10 DEF V!Serve, V!Guest, Visitor
<1> QED
  BY <1>2, <1>11 DEF V!Next, V!Guest, Visitor

\* The lease ends: its visitor is gone.
LEMMA FinishStep ==
    ASSUME IndInv, Holders, NEW w \in Worker, LeaseReturns(w) \/ LeaseFails(w)
    PROVE  V!Next
<1>0. serving[w] \in Visitor /\ serving[w] # NoVisitor
  BY DEF LeaseReturns, LeaseFails, IndInv, WorkerConsistent, Consistent, TypeOK
<1>m. PICK m \in Visitor : m = serving[w]
  BY <1>0
<1>1. /\ serving' = [serving EXCEPT ![w] = NoVisitor] /\ closedTcp' = closedTcp \cup {m}
      /\ UNCHANGED arrived
  BY <1>m DEF LeaseReturns, LeaseFails, EndLease
<1>2. m # NoVisitor
  BY <1>0, <1>m
<1>3. serving \in [Worker -> Visitor \cup {NoVisitor}] /\ w # 0
  BY WorkerAssumption DEF IndInv, TypeOK
<1>4. m <= arrived /\ \A u \in Worker : serving[u] = m <=> u = w
  BY <1>2, <1>m DEF Holders, OneHolder
<1>5. \A u \in Worker : serving'[u] = IF u = w THEN NoVisitor ELSE serving[u]
  BY <1>1, <1>3
<1>6. Served(m) /\ ~Served(m)'
  BY <1>2, <1>4, <1>5 DEF Served
<1>7. ASSUME NEW v \in Visitor, v # m
      PROVE  /\ Served(v)' <=> Served(v)
             /\ \A u \in Worker : serving'[u] = v <=> serving[u] = v
  <2>1. v # NoVisitor
    BY DEF Visitor, NoVisitor
  <2>2. \A u \in Worker : serving'[u] = v <=> serving[u] = v
    BY <1>4, <1>5, <1>7, <2>1
  <2> QED
    BY <2>2 DEF Served
<1>8. Phase(m) = "served"
  BY <1>6 DEF Phase
<1>9. \A v \in Visitor : Phase(v)' = IF v = m THEN "gone" ELSE Phase(v)
  <2>1. ~(m > arrived)
    <3>1. m \in Nat /\ arrived \in Nat
      BY <1>3, BoundAssumption DEF Visitor, IndInv, TypeOK
    <3> QED
      BY <1>4, <3>1
  <2> QED
    BY <1>1, <1>6, <1>7, <2>1 DEF Phase
<1>10. \A v \in Visitor : By(v)' = IF v = m THEN 0 ELSE By(v)
  <2>1. By(m)' = 0
    BY <1>6 DEF By
  <2>2. ASSUME NEW v \in Visitor, v # m PROVE By(v)' = By(v)
    BY <1>7, <2>2, ByKept DEF Holders
  <2> QED
    BY <2>1, <2>2
<1>11. V!Finish(m)
  BY <1>3, <1>8, <1>9, <1>10 DEF V!Finish, V!None, V!Guest, Visitor
<1> QED
  BY <1>3, <1>11 DEF V!Next, V!Guest, Visitor

\* Dispatch: the next visitor arrives, to wait or to be turned away.
LEMMA ArriveStep ==
    ASSUME IndInv, Holders, Dispatch
    PROVE  V!Next
<1>0. arrived < MaxVisitors
  BY DEF Dispatch, DispatchRefused, DispatchHandsOff, DispatchFull, DispatchQueues, Accepts
<1>n. PICK n \in Visitor : n = arrived + 1
  BY <1>0, BoundAssumption DEF Visitor, IndInv, TypeOK
<1>1. /\ arrived' = n /\ UNCHANGED serving
      /\ UNCHANGED closedTcp \/ closedTcp' = closedTcp \cup {n}
  BY <1>n DEF Dispatch, DispatchRefused, DispatchHandsOff, DispatchFull, DispatchQueues, TurnAway,
         Accepts, routineVars, visitorVars
<1>2. arrived \in Nat /\ n = arrived + 1 /\ Visitor \subseteq Nat
  BY <1>n, BoundAssumption DEF Visitor, IndInv, TypeOK
<1>3. \A v : Served(v)' <=> Served(v)
  BY <1>1 DEF Served
<1>4. ASSUME NEW v \in Visitor, Served(v) PROVE v <= arrived
  <2>1. PICK w \in Worker : serving[w] = v
    BY <1>4 DEF Served
  <2>2. serving[w] # NoVisitor
    BY <2>1 DEF Visitor, NoVisitor
  <2> QED
    BY <2>1, <2>2 DEF Holders, OneHolder
<1>5. Phase(n) = "outside"
  BY <1>2, <1>4 DEF Phase
<1>6. \A v \in Visitor : v <= arrived => Phase(v) # "outside"
  BY <1>2 DEF Phase
<1>7. \A v \in Visitor : v # n => Phase(v)' = Phase(v)
  BY <1>1, <1>2, <1>3 DEF Phase
<1>8. Phase(n)' \in {"waiting", "gone"}
  BY <1>1, <1>2, <1>3, <1>4 DEF Phase
<1>9. \A v \in Visitor : By(v)' = By(v)
  BY <1>1, <1>3 DEF By
<1>10. V!Arrive(n)
  <2>1. \A u \in 1..n-1 : u \in Visitor /\ u <= arrived
    BY <1>2, BoundAssumption DEF Visitor
  <2>2. \E p \in {"waiting", "gone"} : \A v \in Visitor : Phase(v)' = IF v = n THEN p ELSE Phase(v)
    BY <1>7, <1>8
  <2> QED
    BY <1>2, <1>5, <1>6, <1>9, <2>1, <2>2 DEF V!Arrive, V!Guest, Visitor
<1> QED
  BY <1>2, <1>10 DEF V!Next, V!Guest, Visitor

\* Whatever the size of the pool and the number of visitors, each visitor goes
\* through the life Visitors describes.
THEOREM PoolImplementsVisitors == Spec => ImplementsVisitors
<1> USE DEF poolVars, queueVars, workerVars, routineVars, visitorVars, shutdownVars
<1>1. Init => V!Init
  <2> SUFFICES ASSUME Init PROVE V!Init
    OBVIOUS
  <2>1. \A v \in Visitor : v \in Nat \ {0} /\ ~Served(v)
    BY BoundAssumption DEF Init, Served, Visitor, NoVisitor
  <2>2. \A v \in Visitor : Phase(v) = "outside" /\ By(v) = 0
    BY <2>1 DEF Init, Phase, By
  <2> QED
    BY <2>2 DEF V!Init, V!Guest, V!None, Visitor
<1>2. ASSUME IndInv, Holders, Next PROVE V!Next
  <2>0. TypeOK /\ IdleListExact /\ WorkerConsistent
    BY <1>2 DEF IndInv
  <2>1. ASSUME NEW w \in Worker, Closed(w), UNCHANGED <<serving, arrived>> PROVE V!Next
    <3>1. closedTcp \subseteq closedTcp'
      BY <2>0, <2>1, ClosedIs
    <3> QED
      BY <1>2, <2>1, <3>1, DismissStep
  <2>2. ASSUME NEW w \in Worker, HandshakeFails(w) \/ IdleStopped(w) \/ Exit(w)
                                   \/ StopClose(w) \/ ForceClose(w)
        PROVE  V!Next
    BY <2>1, <2>2 DEF HandshakeFails, IdleStopped, Exit, StopClose, ForceClose
  <2>3. ASSUME UNCHANGED <<serving, arrived, closedTcp>> PROVE V!Next
    BY <1>2, <2>3, DismissStep
  <2>4. ASSUME NEW w \in Worker, Register(w) \/ IdleExpired(w) \/ NextStopped(w) \/ NextBlocks(w)
                                   \/ SelectWake(w) \/ CheckFails(w) \/ Releasing(w) \/ Age(w)
        PROVE  V!Next
    BY <2>3, <2>4 DEF Register, IdleExpired, NextStopped, NextBlocks, SelectWake, CheckFails,
                      Releasing, Age
  <2>5. ASSUME NEW w \in Worker, SelectHeartbeat(w) \/ SelectExpire(w) PROVE V!Next
    BY <2>3, <2>5 DEF SelectHeartbeat, SelectExpire, TakeOrLoop
  <2>6. ASSUME NEW w \in Worker, IdleReady(w) PROVE V!Next
    <3>1. UNCHANGED <<serving, arrived>> /\ closedTcp \subseteq closedTcp'
      BY <2>6 DEF IdleReady, Match
    <3> QED
      BY <1>2, <3>1, DismissStep
  <2>7. ASSUME NEW w \in Worker, NextLeased(w) PROVE V!Next
    BY <1>2, <2>7, ServeStep
  <2>8. ASSUME NEW w \in Worker, LeaseReturns(w) \/ LeaseFails(w) PROVE V!Next
    BY <1>2, <2>8, FinishStep
  <2>9. ASSUME Dispatch PROVE V!Next
    BY <1>2, <2>9, ArriveStep
  <2>10. ASSUME Stop PROVE V!Next
    <3>1. UNCHANGED <<serving, arrived>> /\ closedTcp \subseteq closedTcp'
      BY <2>10 DEF Stop
    <3> QED
      BY <1>2, <3>1, DismissStep
  <2>11. ASSUME NEW v \in Visitor, DeadlinePasses(v) \/ Cancel(v) PROVE V!Next
    <3>1. UNCHANGED <<serving, arrived>> /\ closedTcp \subseteq closedTcp'
      BY <2>11 DEF DeadlinePasses, Cancel
    <3> QED
      BY <1>2, <3>1, DismissStep
  <2>12. ASSUME Tick \/ CtxCancel \/ PoolForce PROVE V!Next
    BY <2>3, <2>12 DEF Tick, CtxCancel, PoolForce
  <2>13. ASSUME Terminated PROVE V!Next
    BY <2>3, <2>13 DEF Terminated, vars
  <2> QED
    BY <1>2, <2>2, <2>4, <2>5, <2>6, <2>7, <2>8, <2>9, <2>10, <2>11, <2>12, <2>13
    DEF Next, WorkerStep, Idle, Next_Loop
<1>3. ASSUME IndInv, Holders, UNCHANGED vars PROVE V!Next
  BY <1>3, DismissStep DEF vars
<1>4. (IndInv /\ Holders) /\ [Next]_vars => [V!Next]_(V!vars)
  BY <1>2, <1>3
<1> QED
  BY <1>1, <1>4, HoldersInvariance, PTL DEF Spec, ImplementsVisitors, V!Spec

-----------------------------------------------------------------------------
(* Every visitor that has arrived is counted once: refused, finished,       *)
(* queued, dropped, or with a busy worker.  Force may close a visitor in a  *)
(* mailbox, which no counter ever shows.                                    *)

Started == {w \in Worker : at[w] # "absent"}
Busy == {w \in Worker : mailbox[w] # NoVisitor \/ serving[w] # NoVisitor}
Tally == refused + leases + pending + waitTimeouts + waitCanceled

Balanced ==
    /\ IsFiniteSet(Started)
    /\ Tally + Cardinality(Busy) <= arrived
    /\ forced \/ Tally + Cardinality(Busy) = arrived
    /\ forceSet # {} => forced
    /\ stopping => waiting = <<>>

\* Only a connection that has started is busy, so the busy ones are finite.
LEMMA BusyIsFinite ==
    ASSUME WorkerConsistent, IsFiniteSet(Started)
    PROVE  IsFiniteSet(Busy) /\ Cardinality(Busy) \in Nat
<1>1. Busy \subseteq Started
  BY DEF Busy, Started, WorkerConsistent, Consistent
<1>2. IsFiniteSet(Busy)
  BY <1>1, FS_Subset
<1> QED
  BY <1>2, FS_CardinalityType

\* A step moves at most one goroutine, so what has started stays finite.
LEMMA StartedStep ==
    ASSUME IndInv, IsFiniteSet(Started), Next
    PROVE  IsFiniteSet(Started')
<1> USE DEF poolVars, queueVars, workerVars, routineVars, visitorVars, shutdownVars
<1>0. at \in [Worker -> Place]
  BY DEF IndInv, TypeOK
<1>1. ASSUME NEW w \in Worker, NEW p, Goto(w, p) PROVE IsFiniteSet(Started')
  <2>1. Started' \subseteq Started \cup {w}
    BY <1>0, <1>1 DEF Started, Goto
  <2>2. IsFiniteSet(Started \cup {w})
    BY FS_AddElement
  <2> QED
    BY <2>1, <2>2, FS_Subset
<1>2. ASSUME UNCHANGED at PROVE IsFiniteSet(Started')
  BY <1>2 DEF Started
<1>3. ASSUME NEW w \in Worker, WorkerStep(w) PROVE IsFiniteSet(Started')
  <2>1. CASE Register(w) \/ HandshakeFails(w) \/ IdleStopped(w) \/ IdleExpired(w) \/ IdleReady(w)
    BY <1>1, <2>1 DEF Register, HandshakeFails, IdleStopped, IdleExpired, IdleReady
  <2>2. CASE Next_Loop(w) \/ SelectWake(w) \/ CheckFails(w) \/ Releasing(w) \/ Exit(w)
    BY <1>1, <2>2 DEF Next_Loop, NextStopped, NextLeased, NextBlocks, SelectWake, CheckFails,
                      Releasing, Exit
  <2>3. CASE SelectHeartbeat(w) \/ SelectExpire(w)
    BY <1>1, <2>3 DEF SelectHeartbeat, SelectExpire, TakeOrLoop
  <2>4. CASE LeaseReturns(w) \/ LeaseFails(w)
    BY <1>1, <2>4 DEF LeaseReturns, LeaseFails, EndLease
  <2>5. CASE Age(w)
    BY <1>2, <2>5 DEF Age
  <2> QED
    BY <1>3, <2>1, <2>2, <2>3, <2>4, <2>5 DEF WorkerStep, Idle
<1>4. ASSUME NEW w \in Worker, StopClose(w) \/ ForceClose(w) PROVE IsFiniteSet(Started')
  BY <1>2, <1>4 DEF StopClose, ForceClose
<1>5. ASSUME NEW v \in Visitor, DeadlinePasses(v) \/ Cancel(v) PROVE IsFiniteSet(Started')
  BY <1>2, <1>5 DEF DeadlinePasses, Cancel
<1>6. ASSUME Dispatch PROVE IsFiniteSet(Started')
  BY <1>2, <1>6 DEF Dispatch, DispatchRefused, DispatchHandsOff, DispatchFull, DispatchQueues,
                    TurnAway
<1>7. ASSUME Tick \/ CtxCancel \/ Stop \/ PoolForce PROVE IsFiniteSet(Started')
  BY <1>2, <1>7 DEF Tick, CtxCancel, Stop, PoolForce
<1>8. ASSUME Terminated PROVE IsFiniteSet(Started')
  BY <1>2, <1>8 DEF Terminated, vars
<1> QED
  BY <1>3, <1>4, <1>5, <1>6, <1>7, <1>8 DEF Next

\* matchLocked moves visitors from the queue to the drop counters and to one
\* worker, and loses none.
LEMMA MatchCounts ==
    ASSUME TypeOK, NEW w \in Worker, Match(w)
    PROVE  \E k \in Nat :
              /\ \/ waitTimeouts' = waitTimeouts /\ waitCanceled' = waitCanceled + k
                 \/ waitTimeouts' = waitTimeouts + k /\ waitCanceled' = waitCanceled
              /\ \/ /\ \E v \in Visitor : mailbox' = [mailbox EXCEPT ![w] = v]
                    /\ pending' = pending - (k + 1)
                 \/ UNCHANGED mailbox /\ pending' = pending - k
<1>0. /\ Len(waiting) \in Nat /\ waitTimeouts \in Nat /\ waitCanceled \in Nat
      /\ \A j \in 1..Len(waiting) : waiting[j] \in Visitor
  BY ElementOfSeq, LenProperties DEF TypeOK
<1>1. PICK k \in 0..Len(waiting) : Drop(k) /\ (MatchServes(w, k) \/ MatchParks(w, k))
  BY DEF Match
<1>k. k \in Nat
  BY <1>0
<1>2. \/ waitTimeouts' = waitTimeouts /\ waitCanceled' = waitCanceled + k
      \/ waitTimeouts' = waitTimeouts + k /\ waitCanceled' = waitCanceled
  BY <1>0, <1>1, <1>k DEF Drop
<1>3. CASE MatchServes(w, k)
  <2>1. /\ pending' = pending - (k + 1) /\ k < Len(waiting)
        /\ mailbox' = [mailbox EXCEPT ![w] = waiting[k + 1]]
    BY <1>3 DEF MatchServes, Lend
  <2>2. waiting[k + 1] \in Visitor
    BY <1>0, <2>1
  <2> QED
    BY <1>k, <1>2, <2>1, <2>2
<1>4. CASE MatchParks(w, k)
  BY <1>4, <1>k, <1>2 DEF MatchParks
<1> QED
  BY <1>1, <1>3, <1>4

\* Every step of the pool counts the visitors it moves.
LEMMA BalancedStep ==
    ASSUME IndInv, Balanced, Next
    PROVE  Balanced'
<1> USE DEF poolVars, queueVars, workerVars, routineVars, visitorVars, shutdownVars
<1>0. TypeOK /\ IdleListExact /\ WorkerConsistent /\ PendingExact /\ StopSafe
  BY DEF IndInv
<1>t. /\ mailbox \in [Worker -> Visitor \cup {NoVisitor}]
      /\ serving \in [Worker -> Visitor \cup {NoVisitor}]
  BY <1>0 DEF TypeOK
<1>v. \A v \in Visitor : v # NoVisitor
  BY DEF Visitor, NoVisitor
<1>i. /\ arrived \in Nat /\ refused \in Nat /\ leases \in Nat /\ pending \in Nat
      /\ waitTimeouts \in Nat /\ waitCanceled \in Nat
      /\ pending = Len(waiting)
  BY <1>0, LenProperties DEF TypeOK, PendingExact
<1>f. IsFiniteSet(Started') /\ IsFiniteSet(Busy) /\ Cardinality(Busy) \in Nat
  BY <1>0, StartedStep, BusyIsFinite DEF Balanced
<1>b. Tally + Cardinality(Busy) <= arrived /\ (forced \/ Tally + Cardinality(Busy) = arrived)
  BY DEF Balanced
<1>w. (forceSet # {} => forced) /\ (stopping => waiting = <<>>)
  BY DEF Balanced
\* A step in which d visitors arrive, and e workers become busy.
<1>1. ASSUME NEW d \in Int, NEW e \in Int, Cardinality(Busy') = Cardinality(Busy) + e,
             Tally' = Tally + d - e, arrived' = arrived + d,
             UNCHANGED <<forced, forceSet>>, stopping' => waiting' = <<>>
      PROVE  Balanced'
  <2>1. Tally \in Int
    BY <1>i DEF Tally
  <2>2. Tally' + Cardinality(Busy') <= arrived'
    BY <1>1, <1>b, <1>f, <1>i, <2>1
  <2>3. forced' \/ Tally' + Cardinality(Busy') = arrived'
    <3>1. CASE forced
      BY <1>1, <3>1
    <3>2. CASE Tally + Cardinality(Busy) = arrived
      <4>1. PICK t \in Int, n \in Int : t = Tally /\ n = Cardinality(Busy)
        BY <1>f, <2>1
      <4>2. arrived = t + n /\ Tally' = t + d - e /\ Cardinality(Busy') = n + e
        BY <1>1, <3>2, <4>1
      <4> QED
        BY <1>1, <4>2
    <3> QED
      BY <1>b, <3>1, <3>2
  <2>4. (forceSet' # {} => forced') /\ (stopping' => waiting' = <<>>)
    BY <1>1, <1>w
  <2> QED
    BY <1>f, <2>2, <2>3, <2>4 DEF Balanced
<1>2. ASSUME Busy' = Busy, NEW d \in Int, Tally' = Tally + d, arrived' = arrived + d,
             UNCHANGED <<forced, forceSet>>, stopping' => waiting' = <<>>
      PROVE  Balanced'
  <2>1. Tally \in Int
    BY <1>i DEF Tally
  <2>2. Cardinality(Busy') = Cardinality(Busy) + 0
    BY <1>2, <1>f
  <2>3. Tally' = Tally + d - 0
    BY <1>2, <2>1
  <2> QED
    BY <1>1, <1>2, <2>2, <2>3
<1>3. ASSUME Busy' = Busy, UNCHANGED <<waiting, pending, waitTimeouts, waitCanceled, refused, leases, arrived,
                                       stopping, forced, forceSet>>
      PROVE  Balanced'
  <2>1. Tally' = Tally + 0 /\ arrived' = arrived + 0
    BY <1>3, <1>i DEF Tally
  <2>2. stopping' => waiting' = <<>>
    BY <1>3, <1>w
  <2> QED
    BY <1>2, <1>3, <2>1, <2>2
<1>4. ASSUME UNCHANGED <<mailbox, serving>> PROVE Busy' = Busy
  BY <1>4 DEF Busy
\* A closed worker whose mailbox is empty.
<1>5. ASSUME NEW w \in Worker, Closed(w), mailbox[w] = NoVisitor, UNCHANGED serving
      PROVE  Busy' = Busy
  <2>1. mailbox' = [mailbox EXCEPT ![w] = NoVisitor]
    BY <1>0, <1>5, ClosedEffects
  <2>2. mailbox' = mailbox
    BY <1>5, <1>t, <2>1
  <2> QED
    BY <1>4, <1>5, <2>2
<1>6. ASSUME NEW w \in Worker, HandshakeFails(w) \/ IdleStopped(w) \/ Exit(w) PROVE Balanced'
  <2>1. mailbox[w] = NoVisitor
    BY <1>0, <1>6 DEF HandshakeFails, IdleStopped, Exit, CallsIdle, WorkerConsistent, Consistent
  <2>2. Closed(w) /\ UNCHANGED serving
    BY <1>6 DEF HandshakeFails, IdleStopped, Exit
  <2>3. Busy' = Busy
    BY <1>5, <2>1, <2>2
  <2> QED
    BY <1>3, <1>6, <2>3 DEF HandshakeFails, IdleStopped, Exit
<1>7. ASSUME NEW w \in Worker, StopClose(w) PROVE Balanced'
  <2>1. mailbox[w] = NoVisitor
    BY <1>0, <1>7 DEF StopClose, StopSafe, WorkerConsistent, Consistent
  <2>2. Busy' = Busy
    BY <1>5, <1>7, <2>1 DEF StopClose
  <2> QED
    BY <1>3, <1>7, <2>2 DEF StopClose
\* Force may close a visitor in a mailbox: counted less than arrived from then on.
<1>8. ASSUME NEW w \in Worker, ForceClose(w) PROVE Balanced'
  <2>1. /\ forceSet' = forceSet \ {w} /\ w \in forceSet /\ UNCHANGED forced
        /\ UNCHANGED <<stopping, waiting, serving, arrived>>
    BY <1>8 DEF ForceClose
  <2>2. forced /\ forced'
    BY <1>w, <2>1
  <2>3. Tally' = Tally /\ Tally \in Int
    BY <1>8, <1>i DEF ForceClose, Tally
  <2>4. mailbox' = [mailbox EXCEPT ![w] = NoVisitor]
    BY <1>0, <1>8, ClosedEffects DEF ForceClose
  <2>5. Busy' \subseteq Busy
    BY <1>t, <2>1, <2>4 DEF Busy
  <2>6. Cardinality(Busy') <= Cardinality(Busy) /\ Cardinality(Busy') \in Nat
    BY <1>f, <2>5, FS_Subset, FS_CardinalityType
  <2>7. Tally' + Cardinality(Busy') <= arrived'
    BY <1>b, <1>f, <1>i, <2>1, <2>3, <2>6
  <2>8. stopping' => waiting' = <<>>
    BY <1>w, <2>1
  <2> QED
    BY <1>f, <2>2, <2>7, <2>8 DEF Balanced
<1>9. ASSUME NEW w \in Worker, Register(w) \/ IdleExpired(w) \/ NextStopped(w) \/ NextBlocks(w)
                                 \/ SelectWake(w) \/ CheckFails(w) \/ Releasing(w) \/ Age(w)
      PROVE  Balanced'
  <2>1. Busy' = Busy
    BY <1>4, <1>9 DEF Register, IdleExpired, NextStopped, NextBlocks, SelectWake, CheckFails,
                      Releasing, Age
  <2> QED
    BY <1>3, <1>9, <2>1 DEF Register, IdleExpired, NextStopped, NextBlocks, SelectWake, CheckFails,
                            Releasing, Age
<1>10. ASSUME NEW w \in Worker, SelectHeartbeat(w) \/ SelectExpire(w) PROVE Balanced'
  <2>1. Busy' = Busy
    BY <1>4, <1>10 DEF SelectHeartbeat, SelectExpire, TakeOrLoop
  <2> QED
    BY <1>3, <1>10, <2>1 DEF SelectHeartbeat, SelectExpire, TakeOrLoop
<1>11. ASSUME NEW w \in Worker, NextLeased(w) PROVE Balanced'
  <2>1. /\ serving' = [serving EXCEPT ![w] = mailbox[w]] /\ mailbox[w] # NoVisitor
        /\ mailbox' = [mailbox EXCEPT ![w] = NoVisitor]
    BY <1>11 DEF NextLeased
  <2>2. Busy' = Busy
    BY <1>t, <2>1 DEF Busy
  <2> QED
    BY <1>3, <1>11, <2>2 DEF NextLeased
\* A worker is handed a visitor.
<1>12. ASSUME NEW w \in Worker, w \notin Busy, NEW v \in Visitor, UNCHANGED serving,
              mailbox' = [mailbox EXCEPT ![w] = v]
       PROVE  Cardinality(Busy') = Cardinality(Busy) + 1
  <2>1. Busy' = Busy \cup {w}
    BY <1>12, <1>t, <1>v DEF Busy
  <2> QED
    BY <1>12, <1>f, <2>1, FS_AddElement
<1>13. ASSUME NEW w \in Worker, IdleReady(w) PROVE Balanced'
  <2>1. /\ Match(w) /\ ~stopping
        /\ UNCHANGED <<stopping, serving, arrived, refused, leases, forced, forceSet>>
    BY <1>13 DEF IdleReady
  <2>2. w \notin Busy
    BY <1>0, <1>13 DEF IdleReady, CallsIdle, WorkerConsistent, Consistent, Busy
  <2>3. PICK k \in Nat :
              /\ \/ waitTimeouts' = waitTimeouts /\ waitCanceled' = waitCanceled + k
                 \/ waitTimeouts' = waitTimeouts + k /\ waitCanceled' = waitCanceled
              /\ \/ /\ \E v \in Visitor : mailbox' = [mailbox EXCEPT ![w] = v]
                    /\ pending' = pending - (k + 1)
                 \/ UNCHANGED mailbox /\ pending' = pending - k
    BY <1>0, <2>1, MatchCounts
  <2>4. arrived' = arrived + 0
    BY <1>i, <2>1
  <2>5. CASE /\ \E v \in Visitor : mailbox' = [mailbox EXCEPT ![w] = v]
             /\ pending' = pending - (k + 1)
    <3>1. Cardinality(Busy') = Cardinality(Busy) + 1
      BY <1>12, <2>1, <2>2, <2>5
    <3>2. Tally' = Tally + 0 - 1
      BY <1>i, <2>1, <2>3, <2>5 DEF Tally
    <3> QED
      BY <1>1, <2>1, <2>4, <3>1, <3>2
  <2>6. CASE UNCHANGED mailbox /\ pending' = pending - k
    <3>1. Tally' = Tally + 0
      BY <1>i, <2>1, <2>3, <2>6 DEF Tally
    <3> QED
      BY <1>2, <1>4, <2>1, <2>4, <2>6, <3>1
  <2> QED
    BY <2>3, <2>5, <2>6
<1>14. ASSUME NEW w \in Worker, LeaseReturns(w) \/ LeaseFails(w) PROVE Balanced'
  <2>1. /\ serving' = [serving EXCEPT ![w] = NoVisitor] /\ leases' = leases + 1
        /\ UNCHANGED <<mailbox, stopping, waiting, pending, waitTimeouts, waitCanceled, arrived, refused,
                        forced, forceSet>>
    BY <1>14 DEF LeaseReturns, LeaseFails, EndLease
  <2>2. w \in Busy /\ mailbox[w] = NoVisitor
    BY <1>0, <1>14 DEF LeaseReturns, LeaseFails, WorkerConsistent, Consistent, Busy
  <2>3. Busy' = Busy \ {w}
    BY <1>t, <2>1, <2>2 DEF Busy
  <2>4. Cardinality(Busy') = Cardinality(Busy) - 1
    BY <1>f, <2>2, <2>3, FS_RemoveElement
  <2>5. Cardinality(Busy') = Cardinality(Busy) + (-1)
    BY <1>f, <2>4
  <2>6. Tally' = Tally + 0 - (-1) /\ arrived' = arrived + 0
    BY <1>i, <2>1 DEF Tally
  <2>8. stopping' => waiting' = <<>>
    BY <1>w, <2>1
  <2> QED
    BY <1>1, <2>1, <2>5, <2>6, <2>8
<1>15. ASSUME DispatchRefused \/ DispatchFull PROVE Balanced'
  <2>1. /\ arrived' = arrived + 1 /\ refused' = refused + 1
        /\ UNCHANGED <<mailbox, serving, stopping, waiting, pending, waitTimeouts, waitCanceled, leases,
                        forced, forceSet>>
    BY <1>15 DEF DispatchRefused, DispatchFull, TurnAway
  <2>2. Tally' = Tally + 1
    BY <1>i, <2>1 DEF Tally
  <2>3. stopping' => waiting' = <<>>
    BY <1>w, <2>1
  <2> QED
    BY <1>2, <1>4, <2>1, <2>2, <2>3
<1>16. ASSUME DispatchQueues PROVE Balanced'
  <2>1. /\ arrived' = arrived + 1 /\ pending' = pending + 1 /\ ~stopping
        /\ UNCHANGED <<mailbox, serving, stopping, waitTimeouts, waitCanceled, refused, leases,
                        forced, forceSet>>
    BY <1>16 DEF DispatchQueues, Accepts
  <2>2. Tally' = Tally + 1
    BY <1>i, <2>1 DEF Tally
  <2> QED
    BY <1>2, <1>4, <2>1, <2>2
<1>17. ASSUME DispatchHandsOff PROVE Balanced'
  <2>1. PICK w \in Worker : state[w] = "idle" /\ Lend(w, arrived + 1)
    BY <1>0, <1>17, BackIs DEF DispatchHandsOff, CanHandOff
  <2>2. /\ arrived' = arrived + 1 /\ mailbox' = [mailbox EXCEPT ![w] = arrived + 1]
        /\ UNCHANGED <<serving, stopping, waiting, pending, waitTimeouts, waitCanceled, refused, leases,
                        forced, forceSet>>
    BY <1>17, <2>1 DEF DispatchHandsOff, Lend
  <2>3. w \notin Busy
    BY <1>0, <2>1 DEF WorkerConsistent, Consistent, Agree, Busy
  <2>4. arrived + 1 \in Visitor
    BY <1>0, <1>17, BoundAssumption DEF DispatchHandsOff, Accepts, TypeOK, Visitor
  <2>5. Cardinality(Busy') = Cardinality(Busy) + 1
    BY <1>12, <2>2, <2>3, <2>4
  <2>6. Tally' = Tally + 1 - 1
    BY <1>i, <2>2 DEF Tally
  <2>8. stopping' => waiting' = <<>>
    BY <1>w, <2>2
  <2> QED
    BY <1>1, <2>2, <2>5, <2>6, <2>8
<1>18. ASSUME NEW v \in Visitor, Cancel(v) PROVE Balanced'
  <2>1. /\ Drop(1) /\ pending' = pending - 1
        /\ UNCHANGED <<mailbox, serving, stopping, arrived, refused, leases, forced, forceSet>>
    BY <1>18 DEF Cancel
  <2>2. \/ waitTimeouts' = waitTimeouts /\ waitCanceled' = waitCanceled + 1
        \/ waitTimeouts' = waitTimeouts + 1 /\ waitCanceled' = waitCanceled
    BY <1>i, <2>1 DEF Drop
  <2>3. Tally' = Tally + 0 /\ arrived' = arrived + 0
    BY <1>i, <2>1, <2>2 DEF Tally
  <2>4. ~stopping
    <3>1. SUFFICES ASSUME stopping PROVE FALSE
      OBVIOUS
    <3>2. Len(waiting) = 0
      BY <1>w, <3>1
    <3> QED
      BY <1>18, <3>2 DEF Cancel
  <2> QED
    BY <1>2, <1>4, <2>1, <2>3, <2>4
<1>19. ASSUME Stop PROVE Balanced'
  <2>1. /\ waitCanceled' = waitCanceled + Len(waiting) /\ pending' = pending - Len(waiting)
        /\ waiting' = <<>>
        /\ UNCHANGED <<mailbox, serving, waitTimeouts, arrived, refused, leases, forced, forceSet>>
    BY <1>19 DEF Stop
  <2>2. Tally' = Tally + 0 /\ arrived' = arrived + 0
    BY <1>i, <2>1 DEF Tally
  <2> QED
    BY <1>2, <1>4, <2>1, <2>2
<1>20. ASSUME PoolForce PROVE Balanced'
  <2>1. Busy' = Busy /\ Tally' = Tally
    BY <1>4, <1>20 DEF PoolForce, Tally
  <2>2. forced' /\ UNCHANGED <<stopping, waiting, arrived>>
    BY <1>20 DEF PoolForce
  <2>3. Tally' + Cardinality(Busy') <= arrived'
    BY <1>b, <2>1, <2>2
  <2>4. stopping' => waiting' = <<>>
    BY <1>w, <2>2
  <2> QED
    BY <1>f, <2>2, <2>3, <2>4 DEF Balanced
<1>21. ASSUME NEW v \in Visitor, DeadlinePasses(v) PROVE Balanced'
  BY <1>3, <1>4, <1>21 DEF DeadlinePasses
<1>22. ASSUME Tick \/ CtxCancel PROVE Balanced'
  BY <1>3, <1>4, <1>22 DEF Tick, CtxCancel
<1>23. ASSUME Terminated PROVE Balanced'
  BY <1>3, <1>4, <1>23 DEF Terminated, vars
<1> QED
  BY <1>6, <1>7, <1>8, <1>9, <1>10, <1>11, <1>13, <1>14, <1>15, <1>16, <1>17, <1>18, <1>19, <1>20,
     <1>21, <1>22, <1>23
  DEF Next, WorkerStep, Idle, Next_Loop, Dispatch

\* A pool as New returns it has counted nobody.
LEMMA BalancedInit == Init => Balanced
<1> SUFFICES ASSUME Init PROVE Balanced
  OBVIOUS
<1>1. Started = {} /\ Busy = {}
  BY DEF Init, Started, Busy
<1>2. IsFiniteSet(Started) /\ Cardinality(Busy) = 0
  BY <1>1, FS_EmptySet
<1>3. Tally = 0
  BY DEF Init, Tally
<1> QED
  BY <1>2, <1>3 DEF Init, Balanced

\* What a step of the pool does to the counters: they only grow, and a visitor
\* is refused as it arrives.
LEMMA CountersStep ==
    ASSUME IndInv, Next
    PROVE  /\ \/ UNCHANGED <<arrived, refused>>
              \/ arrived' = arrived + 1 /\ refused' \in {refused, refused + 1}
           /\ leases' \in {leases, leases + 1}
           /\ Started \subseteq Started'
<1> USE DEF poolVars, queueVars, workerVars, routineVars, visitorVars, shutdownVars
<1>0. at \in [Worker -> Place]
  BY DEF IndInv, TypeOK
<1>1. ASSUME NEW w \in Worker, NEW p \in Place \ {"absent"}, Goto(w, p)
      PROVE  Started \subseteq Started'
  BY <1>0, <1>1 DEF Started, Goto
<1>2. ASSUME UNCHANGED at PROVE Started \subseteq Started'
  BY <1>2 DEF Started
<1>3. ASSUME NEW w \in Worker, WorkerStep(w)
      PROVE  /\ UNCHANGED <<arrived, refused>> /\ leases' \in {leases, leases + 1}
             /\ Started \subseteq Started'
  <2>1. CASE Register(w) \/ HandshakeFails(w) \/ IdleStopped(w) \/ IdleExpired(w) \/ IdleReady(w)
    BY <1>1, <2>1 DEF Register, HandshakeFails, IdleStopped, IdleExpired, IdleReady, Place
  <2>2. CASE Next_Loop(w) \/ SelectWake(w) \/ CheckFails(w) \/ Releasing(w) \/ Exit(w)
    BY <1>1, <2>2 DEF Next_Loop, NextStopped, NextLeased, NextBlocks, SelectWake, CheckFails,
                      Releasing, Exit, Place
  <2>3. CASE SelectHeartbeat(w) \/ SelectExpire(w)
    BY <1>1, <2>3 DEF SelectHeartbeat, SelectExpire, TakeOrLoop, Place
  <2>4. CASE LeaseReturns(w) \/ LeaseFails(w)
    BY <1>1, <2>4 DEF LeaseReturns, LeaseFails, EndLease, Place
  <2>5. CASE Age(w)
    BY <1>2, <2>5 DEF Age
  <2> QED
    BY <1>3, <2>1, <2>2, <2>3, <2>4, <2>5 DEF WorkerStep, Idle
<1>4. ASSUME NEW w \in Worker, StopClose(w) \/ ForceClose(w)
      PROVE  UNCHANGED <<arrived, refused, leases, at>>
  BY <1>4 DEF StopClose, ForceClose
<1>5. ASSUME NEW v \in Visitor, DeadlinePasses(v) \/ Cancel(v)
      PROVE  UNCHANGED <<arrived, refused, leases, at>>
  BY <1>5 DEF DeadlinePasses, Cancel
<1>6. ASSUME Dispatch
      PROVE  /\ arrived' = arrived + 1 /\ refused' \in {refused, refused + 1}
             /\ UNCHANGED <<leases, at>>
  BY <1>6 DEF Dispatch, DispatchRefused, DispatchHandsOff, DispatchFull, DispatchQueues, TurnAway
<1>7. ASSUME Tick \/ CtxCancel \/ Stop \/ PoolForce \/ Terminated
      PROVE  UNCHANGED <<arrived, refused, leases, at>>
  BY <1>7 DEF Tick, CtxCancel, Stop, PoolForce, Terminated, vars
<1> QED
  BY <1>2, <1>3, <1>4, <1>5, <1>6, <1>7 DEF Next

\* Once the server has drained nothing moves any more but late connections,
\* which Register refuses.
LEMMA DrainedStep ==
    ASSUME IndInv, Balanced, DrainDone, PoolStep
    PROVE  /\ UNCHANGED <<stopping, stopSet, forceSet, forced, leases, waitTimeouts, waitCanceled>>
           /\ Drained'
<1> USE DEF poolVars, queueVars, workerVars, routineVars, visitorVars, shutdownVars
<1>0. /\ stopping /\ stopSet = {} /\ forceSet = {} /\ loop = "ended"
      /\ \A w \in Worker : at[w] \in {"absent", "done"}
      /\ waiting = <<>> /\ at \in [Worker -> Place]
  BY DEF DrainDone, Drained, Ended, Balanced, IndInv, TypeOK
<1>l. Len(waiting) = 0
  BY <1>0
<1>1. Next /\ arrived' = arrived
  BY <1>0 DEF PoolStep
<1>2. ASSUME NEW w \in Worker, WorkerStep(w) PROVE Register(w)
  BY <1>0, <1>2 DEF WorkerStep, HandshakeFails, Idle, IdleStopped, IdleExpired, IdleReady, CallsIdle,
     Next_Loop, NextStopped, NextLeased, NextBlocks, SelectWake, SelectHeartbeat, SelectExpire,
     CheckFails, Releasing, LeaseReturns, LeaseFails, Exit, Age, Ended
<1>3. ASSUME NEW w \in Worker, Register(w)
      PROVE  /\ UNCHANGED <<stopping, stopSet, forceSet, forced, leases, waitTimeouts, waitCanceled>>
             /\ Drained'
  BY <1>0, <1>3 DEF Register, Goto, Drained, Ended
<1>4. ASSUME NEW w \in Worker, StopClose(w) \/ ForceClose(w) PROVE FALSE
  BY <1>0, <1>4 DEF StopClose, ForceClose
<1>5. ASSUME NEW v \in Visitor, DeadlinePasses(v) \/ Cancel(v) PROVE FALSE
  BY <1>l, <1>5 DEF DeadlinePasses, Cancel
<1>6. ASSUME Dispatch PROVE FALSE
  <2>1. arrived' = arrived + 1
    BY <1>6 DEF Dispatch, DispatchRefused, DispatchHandsOff, DispatchFull, DispatchQueues, TurnAway
  <2>2. arrived \in Nat
    BY DEF IndInv, TypeOK
  <2> QED
    BY <1>1, <2>1, <2>2
<1>7. ASSUME Tick \/ Stop \/ PoolForce PROVE FALSE
  BY <1>0, <1>7 DEF Tick, InNext, Stop, PoolForce, Drained, Ended
<1>8. ASSUME CtxCancel \/ Terminated
      PROVE  /\ UNCHANGED <<stopping, stopSet, forceSet, forced, leases, waitTimeouts, waitCanceled>>
             /\ Drained'
  BY <1>0, <1>8 DEF CtxCancel, Terminated, vars, Drained, Ended
<1> QED
  BY <1>1, <1>2, <1>3, <1>4, <1>5, <1>6, <1>7, <1>8 DEF Next

-----------------------------------------------------------------------------
(* The counters of the accept loop and a scrape.  The accept loop counts a  *)
(* visitor before and a refusal after Dispatch; what a scrape has loaded    *)
(* stays a lower bound of counters that only grow, and after the drain it   *)
(* stays exact.                                                             *)

Counters ==
    /\ failed \in Nat
    /\ visitors = IF loop = "dispatch" THEN arrived + 1 ELSE arrived
    /\ refused = IF loop = "failed" THEN failed + 1 ELSE failed
    /\ opened \subseteq Started /\ closed \subseteq opened

Scrape ==
    /\ step \in 0..6 /\ seen \in [Fields -> Nat] /\ settled \in BOOLEAN
    /\ step >= 2 => seen.leases <= leases
    /\ step >= 3 => seen.leases + seen.pending + seen.waits + refused <= arrived
    /\ step >= 4 => seen.leases + seen.pending + seen.waits <= seen.visitors
    /\ step >= 6 => seen.leases + seen.pending + seen.waits + seen.failed <= visitors

AfterDrain ==
    settled =>
        /\ DrainDone
        /\ step >= 1 /\ seen.opened = Cardinality(opened)
        /\ step >= 2 => seen.leases = leases
        /\ step >= 3 => seen.live = 0 /\ seen.pending = 0 /\ seen.waits = waitTimeouts + waitCanceled
        /\ step >= 4 => seen.visitors = visitors
        /\ step >= 5 => seen.closed = Cardinality(closed)
        /\ step >= 6 => seen.failed = failed

MetricsInv == IndInv /\ Balanced /\ Counters /\ Scrape /\ AfterDrain

\* The visitors a scrape can count, with those refused, are at most those that have arrived.
LEMMA CountedHaveArrived ==
    ASSUME IndInv, Balanced, Counters
    PROVE  /\ leases + pending + waitTimeouts + waitCanceled <= visitors
           /\ leases \in Nat /\ pending \in Nat /\ waitTimeouts \in Nat /\ waitCanceled \in Nat
           /\ visitors \in Nat /\ arrived \in Nat /\ refused \in Nat /\ failed \in Nat
           /\ leases + pending + waitTimeouts + waitCanceled + refused <= arrived
           /\ arrived <= visitors /\ failed <= refused
<1>1. /\ arrived \in Nat /\ refused \in Nat /\ leases \in Nat /\ pending \in Nat
      /\ waitTimeouts \in Nat /\ waitCanceled \in Nat
  BY LenProperties DEF IndInv, TypeOK, PendingExact
<1>2. Cardinality(Busy) \in Nat
  BY BusyIsFinite DEF IndInv, Balanced
<1>3. refused + leases + pending + waitTimeouts + waitCanceled + Cardinality(Busy) <= arrived
  BY DEF Balanced, Tally
<1>4. /\ visitors = arrived + 1 \/ visitors = arrived
      /\ failed \in Nat /\ (refused = failed + 1 \/ refused = failed)
  BY DEF Counters
<1> QED
  BY <1>1, <1>2, <1>3, <1>4

\* In a drained server no worker is live or busy.
LEMMA DrainedIsEmpty ==
    ASSUME IndInv, Balanced, DrainDone
    PROVE  Live = {} /\ Cardinality(Busy) = 0 /\ pending = 0
<1>1. \A w \in Worker : at[w] \in {"absent", "done"}
  BY DEF DrainDone, Drained, Ended
<1>2. Live = {} /\ Busy = {}
  BY <1>1 DEF Live, Busy, IndInv, WorkerConsistent, Consistent, Agree
<1>3. pending = 0
  BY DEF DrainDone, Balanced, IndInv, PendingExact
<1> QED
  BY <1>2, <1>3, FS_EmptySet

\* The counters of the accept loop keep up with the pool.
LEMMA CountersKept ==
    ASSUME IndInv, Counters, MetricsNext
    PROVE  Counters' /\ visitors <= visitors' /\ visitors \in Nat /\ visitors' \in Nat
<1>0. arrived \in Nat /\ refused \in Nat
  BY DEF IndInv, TypeOK
<1>1. CASE CountVisitor
  BY <1>0, <1>1 DEF CountVisitor, Counters, vars, visitorVars, routineVars, Started
<1>2. CASE CountFailure
  BY <1>0, <1>2 DEF CountFailure, Counters, vars, visitorVars, routineVars, Started
<1>3. CASE LoopEnds
  BY <1>0, <1>3 DEF LoopEnds, Counters, vars, visitorVars, routineVars, Started
<1>4. ASSUME NEW w \in Worker, CountOpened(w) \/ CountClosed(w)
      PROVE  Counters' /\ visitors <= visitors' /\ visitors \in Nat /\ visitors' \in Nat
  BY <1>0, <1>4 DEF CountOpened, CountClosed, Counters, vars, visitorVars, routineVars, Started
<1>5. CASE Collect \/ Answered
  BY <1>0, <1>5 DEF Collect, Answered, Counters, counterVars, vars, visitorVars, routineVars, Started
<1>6. CASE PoolStep
  <2>1. /\ \/ UNCHANGED <<arrived, refused>>
           \/ arrived' = arrived + 1 /\ refused' \in {refused, refused + 1}
        /\ Started \subseteq Started'
    BY <1>6, CountersStep DEF PoolStep
  <2>2. UNCHANGED <<visitors, failed, opened, closed>>
    BY <1>6 DEF PoolStep
  <2>3. CASE UNCHANGED <<arrived, refused>>
    BY <1>0, <1>6, <2>1, <2>2, <2>3 DEF PoolStep, Counters
  <2>4. CASE arrived' = arrived + 1 /\ refused' \in {refused, refused + 1}
    <3>1. loop = "dispatch" /\ loop' = IF refused' = refused THEN "accept" ELSE "failed"
      BY <1>0, <1>6, <2>4 DEF PoolStep
    <3> QED
      BY <1>0, <2>1, <2>2, <2>4, <3>1 DEF Counters
  <2> QED
    BY <2>1, <2>3, <2>4
<1> QED
  BY <1>1, <1>2, <1>3, <1>4, <1>5, <1>6 DEF MetricsNext

\* The six loads of Collect, in order.
LEMMA CollectIs ==
    ASSUME Collect, step \in 0..6
    PROVE  /\ step' = step + 1
           /\ \/ step = 0 /\ seen' = [seen EXCEPT !["opened"] = Cardinality(opened)]
              \/ step = 1 /\ seen' = [seen EXCEPT !["leases"] = leases]
              \/ step = 2 /\ seen' = Stats(seen)
              \/ step = 3 /\ seen' = [seen EXCEPT !["visitors"] = visitors]
              \/ step = 4 /\ seen' = [seen EXCEPT !["closed"] = Cardinality(closed)]
              \/ step = 5 /\ seen' = [seen EXCEPT !["failed"] = failed]
<1>1. Len(Order) = 6
  BY DEF Order
<1>2. step \in 0..5 /\ step' = step + 1 /\ seen' = Load(Order[step + 1], seen)
  BY <1>1 DEF Collect
<1>3. CASE step = 0
  BY <1>2, <1>3 DEF Order, Load
<1>4. CASE step = 1
  BY <1>2, <1>4 DEF Order, Load
<1>5. CASE step = 2
  BY <1>2, <1>5 DEF Order, Load
<1>6. CASE step = 3
  BY <1>2, <1>6 DEF Order, Load
<1>7. CASE step = 4
  BY <1>2, <1>7 DEF Order, Load
<1>8. CASE step = 5
  BY <1>2, <1>8 DEF Order, Load
<1> QED
  BY <1>2, <1>3, <1>4, <1>5, <1>6, <1>7, <1>8

\* What every load finds is a number: only connections that have started are
\* live or counted.
LEMMA LoadsAreNumbers ==
    ASSUME IndInv, Balanced, Counters
    PROVE  /\ Cardinality(opened) \in Nat /\ Cardinality(closed) \in Nat
           /\ Cardinality(Live) \in Nat
<1>1. Live \subseteq Started
  BY DEF Live, Started, IndInv, WorkerConsistent, Consistent, Agree
<1>2. opened \subseteq Started /\ closed \subseteq Started /\ IsFiniteSet(Started)
  BY DEF Counters, Balanced
<1>3. IsFiniteSet(Live) /\ IsFiniteSet(opened) /\ IsFiniteSet(closed)
  BY <1>1, <1>2, FS_Subset
<1> QED
  BY <1>3, FS_CardinalityType

\* What Pool.Stats adds to the fields a scrape has loaded.
LEMMA StatsIs ==
    ASSUME NEW s \in [Fields -> Nat], pending \in Nat, waitTimeouts \in Nat, waitCanceled \in Nat,
           Cardinality(Live) \in Nat
    PROVE  /\ Stats(s) \in [Fields -> Nat]
           /\ Stats(s)["opened"] = s["opened"] /\ Stats(s)["leases"] = s["leases"]
           /\ Stats(s)["live"] = Cardinality(Live) /\ Stats(s)["pending"] = pending
           /\ Stats(s)["waits"] = waitTimeouts + waitCanceled
<1> DEFINE c == Cardinality(Live)
           x == waitTimeouts + waitCanceled
           t == [s EXCEPT !["live"] = c, !["pending"] = pending, !["waits"] = x]
<1>1. Stats(s) = t
  BY DEF Stats, Fields
<1>2. c \in Nat /\ x \in Nat
  OBVIOUS
<1> HIDE DEF c, x
<1>3. /\ t \in [Fields -> Nat]
      /\ t["opened"] = s["opened"] /\ t["leases"] = s["leases"]
      /\ t["live"] = c /\ t["pending"] = pending /\ t["waits"] = x
  BY <1>2 DEF Fields
<1> QED
  BY <1>1, <1>3 DEF c, x

\* What a scrape has loaded stays below the counters that are loaded later.
LEMMA ScrapeKept ==
    ASSUME MetricsInv, MetricsNext
    PROVE  Scrape'
<1>0. IndInv /\ Balanced /\ Counters /\ Scrape
  BY DEF MetricsInv
<1>1. /\ leases + pending + waitTimeouts + waitCanceled + refused <= arrived
      /\ leases \in Nat /\ pending \in Nat /\ waitTimeouts \in Nat /\ waitCanceled \in Nat
      /\ visitors \in Nat /\ failed \in Nat /\ arrived \in Nat /\ refused \in Nat
      /\ arrived <= visitors /\ failed <= refused
  BY <1>0, CountedHaveArrived
<1>2. /\ visitors <= visitors' /\ visitors' \in Nat
  BY <1>0, CountersKept
<1>3. step \in 0..6 /\ seen \in [Fields -> Nat] /\ settled \in BOOLEAN
  BY <1>0 DEF Scrape
<1>4. /\ seen["leases"] \in Nat /\ seen["pending"] \in Nat /\ seen["waits"] \in Nat
      /\ seen["visitors"] \in Nat /\ seen["failed"] \in Nat
  BY <1>3 DEF Fields
<1>5. /\ step >= 2 => seen["leases"] <= leases
      /\ step >= 3 => seen["leases"] + seen["pending"] + seen["waits"] + refused <= arrived
      /\ step >= 4 => seen["leases"] + seen["pending"] + seen["waits"] <= seen["visitors"]
      /\ step >= 6 => seen["leases"] + seen["pending"] + seen["waits"] + seen["failed"] <= visitors
  BY <1>0 DEF Scrape
\* Steps of the server.
<1>6. ASSUME UNCHANGED scrapeVars, leases' \in {leases, leases + 1},
             \/ UNCHANGED <<arrived, refused>>
             \/ arrived' = arrived + 1 /\ refused' \in {refused, refused + 1}
      PROVE  Scrape'
  <2>1. UNCHANGED <<step, seen, settled>> /\ leases <= leases' /\ leases' \in Nat
    BY <1>1, <1>6 DEF scrapeVars
  <2>2. step >= 2 => seen["leases"] <= leases'
    BY <1>1, <1>4, <1>5, <2>1
  <2>3. step >= 3 => seen["leases"] + seen["pending"] + seen["waits"] + refused' <= arrived'
    BY <1>1, <1>4, <1>5, <1>6
  <2>4. step >= 6 => seen["leases"] + seen["pending"] + seen["waits"] + seen["failed"] <= visitors'
    BY <1>1, <1>2, <1>4, <1>5
  <2> QED
    BY <1>3, <1>5, <2>1, <2>2, <2>3, <2>4 DEF Scrape
<1>7. CASE CountVisitor \/ CountFailure \/ LoopEnds
  BY <1>6, <1>7 DEF CountVisitor, CountFailure, LoopEnds, vars, visitorVars
<1>8. ASSUME NEW w \in Worker, CountOpened(w) \/ CountClosed(w) PROVE Scrape'
  BY <1>6, <1>8 DEF CountOpened, CountClosed, vars, visitorVars
<1>9. CASE PoolStep
  <2>1. /\ leases' \in {leases, leases + 1}
        /\ \/ UNCHANGED <<arrived, refused>>
           \/ arrived' = arrived + 1 /\ refused' \in {refused, refused + 1}
    BY <1>0, <1>9, CountersStep DEF PoolStep
  <2> QED
    BY <1>6, <1>9, <2>1 DEF PoolStep
\* Steps of the scrape.
<1>10. CASE Answered
  <2>1. step' = 0 /\ seen' = NothingSeen /\ settled' = FALSE
    BY <1>10 DEF Answered
  <2>2. seen' \in [Fields -> Nat]
    BY <2>1 DEF NothingSeen
  <2>3. settled' \in BOOLEAN
    BY <2>1
  <2>4. step' \in 0..6 /\ ~(step' >= 2) /\ ~(step' >= 3) /\ ~(step' >= 4) /\ ~(step' >= 6)
    BY <2>1
  <2> QED
    BY <2>2, <2>3, <2>4 DEF Scrape
<1>11. CASE Collect
  <2>1. /\ step' = step + 1
        /\ \/ step = 0 /\ seen' = [seen EXCEPT !["opened"] = Cardinality(opened)]
           \/ step = 1 /\ seen' = [seen EXCEPT !["leases"] = leases]
           \/ step = 2 /\ seen' = Stats(seen)
           \/ step = 3 /\ seen' = [seen EXCEPT !["visitors"] = visitors]
           \/ step = 4 /\ seen' = [seen EXCEPT !["closed"] = Cardinality(closed)]
           \/ step = 5 /\ seen' = [seen EXCEPT !["failed"] = failed]
    BY <1>3, <1>11, CollectIs
  <2>2. /\ Cardinality(opened) \in Nat /\ Cardinality(closed) \in Nat /\ Cardinality(Live) \in Nat
    BY <1>0, LoadsAreNumbers
  <2>3. UNCHANGED <<leases, visitors, arrived, refused>>
    BY <1>11 DEF Collect, counterVars, vars, visitorVars
  <2>4. settled' \in BOOLEAN /\ step' \in 0..6
    <3>1. step' \in 0..6
      BY <1>3, <2>1
    <3>2. DrainDone \in BOOLEAN
      BY DEF DrainDone
    <3>3. settled' = DrainDone \/ settled' = settled
      BY <1>11 DEF Collect
    <3> QED
      BY <1>3, <3>1, <3>2, <3>3
  <2>s. /\ Stats(seen) \in [Fields -> Nat]
        /\ Stats(seen)["leases"] = seen["leases"] /\ Stats(seen)["pending"] = pending
        /\ Stats(seen)["waits"] = waitTimeouts + waitCanceled
    BY <1>1, <1>3, <2>2, StatsIs
  <2>5. seen' \in [Fields -> Nat]
    BY <1>1, <1>3, <2>1, <2>2, <2>s DEF Fields
  <2>6. CASE step = 0
    BY <2>1, <2>4, <2>5, <2>6 DEF Scrape
  <2>7. CASE step = 1
    <3>1. seen'["leases"] = leases /\ step' = 2
      BY <1>3, <2>1, <2>7 DEF Fields
    <3> QED
      BY <1>1, <2>3, <2>4, <2>5, <3>1 DEF Scrape
  <2>8. CASE step = 2
    <3>1. /\ seen'["leases"] = seen["leases"] /\ seen'["pending"] = pending
          /\ seen'["waits"] = waitTimeouts + waitCanceled /\ step' = 3
      BY <1>3, <2>1, <2>8, <2>s
    <3>2. seen["leases"] <= leases
      BY <1>5, <2>8
    <3>3. seen["leases"] + pending + (waitTimeouts + waitCanceled) + refused <= arrived
      BY <1>1, <1>4, <3>2
    <3> QED
      BY <2>3, <2>4, <2>5, <3>1, <3>2, <3>3 DEF Scrape
  <2>9. CASE step = 3
    <3>1. /\ seen'["leases"] = seen["leases"] /\ seen'["pending"] = seen["pending"]
          /\ seen'["waits"] = seen["waits"] /\ seen'["visitors"] = visitors /\ step' = 4
      BY <1>3, <2>1, <2>9 DEF Fields
    <3>2. seen["leases"] + seen["pending"] + seen["waits"] <= visitors
      BY <1>1, <1>4, <1>5, <2>9
    <3> QED
      BY <1>5, <2>3, <2>4, <2>5, <2>9, <3>1, <3>2 DEF Scrape
  <2>10. CASE step = 4
    <3>1. /\ seen'["leases"] = seen["leases"] /\ seen'["pending"] = seen["pending"]
          /\ seen'["waits"] = seen["waits"] /\ seen'["visitors"] = seen["visitors"]
      BY <1>3, <2>1, <2>10 DEF Fields
    <3>2. step' = 5
      BY <2>1, <2>10
    <3> QED
      BY <1>5, <2>3, <2>4, <2>5, <2>10, <3>1, <3>2 DEF Scrape
  <2>11. CASE step = 5
    <3>1. /\ seen'["leases"] = seen["leases"] /\ seen'["pending"] = seen["pending"]
          /\ seen'["waits"] = seen["waits"] /\ seen'["visitors"] = seen["visitors"]
          /\ seen'["failed"] = failed
      BY <1>1, <1>3, <2>1, <2>11 DEF Fields
    <3>2. seen["leases"] + seen["pending"] + seen["waits"] + failed <= visitors
      BY <1>1, <1>4, <1>5, <2>11
    <3> QED
      BY <1>5, <2>3, <2>4, <2>5, <2>11, <3>1, <3>2 DEF Scrape
  <2> QED
    BY <2>1, <2>6, <2>7, <2>8, <2>9, <2>10, <2>11
<1> QED
  BY <1>7, <1>8, <1>9, <1>10, <1>11 DEF MetricsNext

\* A scrape that began after the drain stays exact: nothing it reads moves.
LEMMA AfterDrainKept ==
    ASSUME MetricsInv, MetricsNext
    PROVE  AfterDrain'
<1>0. IndInv /\ Balanced /\ Counters /\ Scrape /\ AfterDrain
  BY DEF MetricsInv
<1>1. step \in 0..6 /\ seen \in [Fields -> Nat] /\ settled \in BOOLEAN
  BY <1>0 DEF Scrape
\* Steps of the server.
<1>2. ASSUME UNCHANGED scrapeVars, settled => UNCHANGED <<leases, waitTimeouts, waitCanceled, counterVars>>,
             settled => DrainDone'
      PROVE  AfterDrain'
  BY <1>0, <1>2 DEF AfterDrain, scrapeVars, counterVars
<1>3. settled => DrainDone
  BY <1>0 DEF AfterDrain
<1>4. CASE CountVisitor \/ CountFailure \/ LoopEnds
  <2>1. ~settled
    BY <1>3, <1>4 DEF CountVisitor, CountFailure, LoopEnds, DrainDone
  <2> QED
    BY <1>2, <1>4, <2>1 DEF CountVisitor, CountFailure, LoopEnds
<1>5. ASSUME NEW w \in Worker, CountOpened(w) \/ CountClosed(w) PROVE AfterDrain'
  <2>1. ~settled
    BY <1>3, <1>5 DEF CountOpened, CountClosed, DrainDone, Drained, Ended
  <2> QED
    BY <1>2, <1>5, <2>1 DEF CountOpened, CountClosed
<1>6. CASE PoolStep
  <2>1. UNCHANGED scrapeVars /\ UNCHANGED <<visitors, failed, opened, closed>>
    BY <1>6 DEF PoolStep
  <2>2. ASSUME settled
        PROVE  DrainDone' /\ UNCHANGED <<leases, waitTimeouts, waitCanceled, counterVars>>
    <3>1. /\ UNCHANGED <<stopping, stopSet, forceSet, forced, leases, waitTimeouts, waitCanceled>>
          /\ Drained'
      BY <1>0, <1>3, <1>6, <2>2, DrainedStep
    <3>2. loop' = loop
      BY <1>3, <1>6, <2>2 DEF PoolStep, DrainDone
    <3> QED
      BY <1>3, <2>1, <2>2, <3>1, <3>2 DEF DrainDone, counterVars
  <2> QED
    BY <1>2, <2>1, <2>2
\* Steps of the scrape.
<1>7. CASE Answered
  BY <1>7 DEF Answered, AfterDrain
<1>8. CASE Collect
  <2>1. /\ step' = step + 1
        /\ \/ step = 0 /\ seen' = [seen EXCEPT !["opened"] = Cardinality(opened)]
           \/ step = 1 /\ seen' = [seen EXCEPT !["leases"] = leases]
           \/ step = 2 /\ seen' = Stats(seen)
           \/ step = 3 /\ seen' = [seen EXCEPT !["visitors"] = visitors]
           \/ step = 4 /\ seen' = [seen EXCEPT !["closed"] = Cardinality(closed)]
           \/ step = 5 /\ seen' = [seen EXCEPT !["failed"] = failed]
    BY <1>1, <1>8, CollectIs
  <2>2. /\ UNCHANGED <<leases, waitTimeouts, waitCanceled, visitors, failed, opened, closed>>
        /\ DrainDone' <=> DrainDone
    BY <1>8 DEF Collect, counterVars, vars, poolVars, visitorVars, routineVars, shutdownVars,
                DrainDone, Drained
  <2> SUFFICES ASSUME settled' PROVE AfterDrain'
    BY DEF AfterDrain
  <2>3. DrainDone
    BY <1>3, <1>8 DEF Collect
  <2>4. Cardinality(Live) = 0 /\ pending = 0
    BY <1>0, <2>3, DrainedIsEmpty, FS_EmptySet
  <2>s. /\ Stats(seen)["opened"] = seen["opened"] /\ Stats(seen)["leases"] = seen["leases"]
        /\ Stats(seen)["live"] = Cardinality(Live) /\ Stats(seen)["pending"] = pending
        /\ Stats(seen)["waits"] = waitTimeouts + waitCanceled
    BY <1>0, <1>1, LoadsAreNumbers, CountedHaveArrived, StatsIs
  <2>5. CASE step = 0
    <3>1. step' = 1 /\ seen'["opened"] = Cardinality(opened)
      BY <1>1, <2>1, <2>5 DEF Fields
    <3> QED
      BY <2>2, <2>3, <3>1 DEF AfterDrain
  <2>6. ASSUME step > 0
        PROVE  /\ settled
               /\ step >= 1 /\ seen["opened"] = Cardinality(opened)
               /\ step >= 2 => seen["leases"] = leases
               /\ step >= 3 => seen["live"] = 0 /\ seen["pending"] = 0
                                /\ seen["waits"] = waitTimeouts + waitCanceled
               /\ step >= 4 => seen["visitors"] = visitors
               /\ step >= 5 => seen["closed"] = Cardinality(closed)
    <3>1. settled
      <4>1. step # 0
        BY <1>1, <2>6
      <4>2. settled' = settled
        BY <1>8, <4>1 DEF Collect
      <4> QED
        BY <4>2
    <3> QED
      BY <1>0, <3>1 DEF AfterDrain
  <2>7. CASE step = 1
    <3>1. step' = 2 /\ seen'["opened"] = seen["opened"] /\ seen'["leases"] = leases
      BY <1>1, <2>1, <2>7 DEF Fields
    <3> QED
      BY <2>2, <2>3, <2>6, <2>7, <3>1 DEF AfterDrain
  <2>8. CASE step = 2
    <3>1. /\ step' = 3 /\ seen'["opened"] = seen["opened"] /\ seen'["leases"] = seen["leases"]
          /\ seen'["live"] = 0 /\ seen'["pending"] = 0 /\ seen'["waits"] = waitTimeouts + waitCanceled
      BY <1>1, <2>1, <2>4, <2>8, <2>s
    <3> QED
      BY <2>2, <2>3, <2>6, <2>8, <3>1 DEF AfterDrain
  <2>9. CASE step = 3 \/ step = 4 \/ step = 5
    <3>1. /\ seen'["opened"] = seen["opened"] /\ seen'["leases"] = seen["leases"]
          /\ seen'["live"] = seen["live"] /\ seen'["pending"] = seen["pending"]
          /\ seen'["waits"] = seen["waits"]
      BY <1>1, <2>1, <2>9 DEF Fields
    <3>2. /\ seen'["visitors"] = IF step = 3 THEN visitors ELSE seen["visitors"]
          /\ seen'["closed"] = IF step = 4 THEN Cardinality(closed) ELSE seen["closed"]
          /\ seen'["failed"] = IF step = 5 THEN failed ELSE seen["failed"]
      BY <1>1, <2>1, <2>9 DEF Fields
    <3> QED
      BY <2>1, <2>2, <2>3, <2>6, <2>9, <3>1, <3>2 DEF AfterDrain
  <2> QED
    BY <2>1, <2>5, <2>7, <2>8, <2>9
<1> QED
  BY <1>4, <1>5, <1>6, <1>7, <1>8 DEF MetricsNext

\* The server, its counters and a scrape keep the invariant in every state.
THEOREM MetricsInvariance == MetricsSpec => []MetricsInv
<1>1. ASSUME MetricsInit PROVE MetricsInv
  <2>1. Init /\ step = 0 /\ seen = NothingSeen /\ settled = FALSE
    BY <1>1 DEF MetricsInit
  <2>2. IndInv /\ Balanced
    BY <2>1, IndInvInit, BalancedInit
  <2>3. Counters
    BY <1>1 DEF MetricsInit, Init, Counters
  <2>4. seen \in [Fields -> Nat] /\ settled \in BOOLEAN
    BY <2>1 DEF NothingSeen
  <2>5. step \in 0..6 /\ ~(step >= 2) /\ ~(step >= 3) /\ ~(step >= 4) /\ ~(step >= 6)
    BY <2>1
  <2>6. Scrape
    BY <2>4, <2>5 DEF Scrape
  <2>7. AfterDrain
    BY <2>1 DEF AfterDrain
  <2> QED
    BY <2>2, <2>3, <2>6, <2>7 DEF MetricsInv
<1>2. ASSUME MetricsInv, MetricsNext PROVE MetricsInv'
  <2>0. IndInv /\ Balanced /\ Counters
    BY <1>2 DEF MetricsInv
  <2>1. CASE PoolStep
    <3>1. IndInv' /\ Balanced'
      BY <2>0, <2>1, IndInvStep, BalancedStep DEF PoolStep
    <3> QED
      BY <1>2, <2>0, <3>1, CountersKept, ScrapeKept, AfterDrainKept DEF MetricsInv
  <2>2. CASE UNCHANGED vars
    <3>1. IndInv'
      BY <2>0, <2>2, IndInvStutter
    <3>2. Balanced'
      BY <2>0, <2>2 DEF vars, poolVars, workerVars, routineVars, visitorVars, shutdownVars,
                        Balanced, Started, Busy, Tally
    <3> QED
      BY <1>2, <2>0, <3>1, <3>2, CountersKept, ScrapeKept, AfterDrainKept DEF MetricsInv
  <2>3. PoolStep \/ UNCHANGED vars
    BY <1>2 DEF MetricsNext, CountVisitor, CountFailure, LoopEnds, CountOpened, CountClosed,
                Collect, Answered
  <2> QED
    BY <2>1, <2>2, <2>3
<1>3. ASSUME MetricsInv, UNCHANGED metricsVars PROVE MetricsInv'
  <2>0. IndInv /\ Balanced /\ Counters /\ Scrape /\ AfterDrain
    BY <1>3 DEF MetricsInv
  <2>1. UNCHANGED vars /\ UNCHANGED counterVars /\ UNCHANGED scrapeVars
    BY <1>3 DEF metricsVars
  <2>2. IndInv'
    BY <2>0, <2>1, IndInvStutter
  <2> USE DEF vars, poolVars, workerVars, routineVars, visitorVars, shutdownVars, counterVars, scrapeVars
  <2>3. Balanced' /\ Counters'
    BY <2>0, <2>1 DEF Balanced, Started, Busy, Tally, Counters
  <2>4. Scrape'
    BY <2>0, <2>1 DEF Scrape
  <2>5. AfterDrain'
    BY <2>0, <2>1 DEF AfterDrain, DrainDone, Drained
  <2> QED
    BY <2>2, <2>3, <2>4, <2>5 DEF MetricsInv
<1> QED
  BY <1>1, <1>2, <1>3, PTL DEF MetricsSpec

\* No visitor is in two of the totals of a scrape, however many connections and
\* visitors come and go between its loads: finished, queued and dropped, they are
\* at most the visitors it shows, and with those refused at most those there are.
THEOREM ScrapeCountsEachVisitorOnce == MetricsSpec => []ScrapeCountsNoVisitorTwice
<1>1. MetricsInv => ScrapeCountsNoVisitorTwice
  <2>1. Len(Order) = 6
    BY DEF Order
  <2> QED
    BY <2>1 DEF MetricsInv, Scrape, ScrapeCountsNoVisitorTwice
<1> QED
  BY <1>1, MetricsInvariance, PTL

\* A scrape that begins after the drain is exact.
THEOREM FinalScrapeIsExact == MetricsSpec => []FinalScrapeBalances
<1>1. ASSUME MetricsInv PROVE FinalScrapeBalances
  <2> SUFFICES ASSUME settled, step = 6
               PROVE  /\ seen.opened = seen.closed /\ seen.live = 0 /\ seen.pending = 0
                      /\ ~forced => seen.visitors = seen.leases + seen.waits + seen.failed
    <3>1. Len(Order) = 6
      BY DEF Order
    <3> QED
      BY <3>1 DEF FinalScrapeBalances
  <2>0. IndInv /\ Balanced /\ Counters
    BY <1>1 DEF MetricsInv
  <2>1. /\ DrainDone /\ seen.opened = Cardinality(opened) /\ seen.leases = leases
        /\ seen.live = 0 /\ seen.pending = 0 /\ seen.waits = waitTimeouts + waitCanceled
        /\ seen.visitors = visitors /\ seen.closed = Cardinality(closed) /\ seen.failed = failed
    BY <1>1 DEF MetricsInv, AfterDrain
  <2>2. closed = opened /\ loop = "ended"
    BY <2>1 DEF DrainDone
  <2>3. visitors = arrived /\ refused = failed
    BY <2>0, <2>2 DEF Counters
  <2>4. Cardinality(Busy) = 0 /\ pending = 0
    BY <2>0, <2>1, DrainedIsEmpty
  <2>5. ASSUME ~forced PROVE visitors = leases + (waitTimeouts + waitCanceled) + failed
    <3>1. failed + leases + 0 + waitTimeouts + waitCanceled + 0 = arrived
      BY <2>0, <2>3, <2>4, <2>5 DEF Balanced, Tally
    <3>2. failed \in Nat /\ leases \in Nat /\ waitTimeouts \in Nat /\ waitCanceled \in Nat
      BY <2>0 DEF Counters, IndInv, TypeOK
    <3> QED
      BY <2>3, <3>1, <3>2
  <2> QED
    BY <2>1, <2>2, <2>5
<1> QED
  BY <1>1, MetricsInvariance, PTL
=============================================================================
