----------------------------- MODULE WriteProofs -----------------------------
(***************************************************************************)
(* What WriteStore promises, for any users, writes, room in the pipeline   *)
(* and number of breaks.  The invariant StoreInv says that ids rise in the *)
(* order of issue and queues shrink at their head, that the pipeline is    *)
(* the oldest part of the queue, and that the wires are in step with it:   *)
(* answers to its first writes, requests for the others.  The promises to  *)
(* callers and the state of the server rest on that.                       *)
(***************************************************************************)
EXTENDS WriteStore, SequenceTheorems, FiniteSetTheorems, TLAPS

-----------------------------------------------------------------------------
(* Numbers, and batches put in the order of their ids. *)

\* A set of numbers has a least one.
LEMMA Least ==
    ASSUME NEW T \in SUBSET Nat, T # {}
    PROVE  \E n \in T : \A m \in T : n <= m
<1>1. PICK n \in T : \A m \in T : ~(<<m, n>> \in OpToRel(<, Nat))
  <2> HIDE DEF OpToRel
  <2> QED BY WFMin, NatLessThanWellFounded
<1>2. \A m \in T : ~(m < n)
  BY <1>1 DEF OpToRel
<1> QED BY <1>2

\* A bounded set of numbers has a greatest one.
LEMMA Greatest ==
    ASSUME NEW S \in SUBSET Nat, S # {}, NEW b \in Nat, \A x \in S : x <= b
    PROVE  Max(S) \in S /\ \A x \in S : x <= Max(S)
<1> DEFINE Bounds == {n \in Nat : \A x \in S : x <= n}
<1>1. PICK n \in Bounds : \A m \in Bounds : n <= m
  BY Least
<1>2. n \in S
  <2> SUFFICES ASSUME n \notin S PROVE FALSE
    OBVIOUS
  <2>1. n \in Nat /\ \A x \in S : x \in Nat /\ x <= n /\ x # n
    BY <1>1
  <2>2. n - 1 \in Nat /\ \A x \in S : x <= n - 1
    <3>1. \A x \in S : x < n
      BY <2>1
    <3>2. PICK x \in S : x \in Nat /\ x < n
      BY <2>1, <3>1
    <3>3. n - 1 \in Nat
      BY <2>1, <3>2
    <3> QED BY <2>1, <3>1, <3>3
  <2>3. n - 1 \in Bounds
    BY <2>2
  <2> QED
    <3> HIDE DEF Bounds
    <3> QED BY <1>1, <2>1, <2>3
<1> QED BY <1>1, <1>2 DEF Max

\* Some of the batches has the greatest id.
LEMMA GreatestId ==
    ASSUME NEW S \in SUBSET Writes, S # {}, NEW ids \in [Writes -> 0..MaxWrites]
    PROVE  \E w \in S : \A v \in S : ids[v] <= ids[w]
<1> DEFINE I == {ids[w] : w \in S}
<1>1. I \in SUBSET Nat /\ I # {} /\ \A x \in I : x <= MaxWrites
  BY WriteBounds
<1>2. Max(I) \in I /\ \A x \in I : x <= Max(I)
  BY <1>1, Greatest, WriteBounds
<1> QED BY <1>2

\* No two of the batches S have one id.
Injective(ids, S) == \A v, w \in S : v # w => ids[v] # ids[w]

\* The sequence s is in the order of its ids.
Sorted(ids, s) == \A i, j \in DOMAIN s : i < j => s[i] # s[j] /\ ids[s[i]] <= ids[s[j]]

\* Batches are finitely many.
LEMMA Few ==
    ASSUME NEW S \in SUBSET Writes
    PROVE  IsFiniteSet(S) /\ Cardinality(S) \in Nat
<1>1. IsFiniteSet(Writes)
  BY WriteBounds, FS_Interval DEF Writes
<1>2. IsFiniteSet(S)
  BY <1>1, FS_Subset
<1> QED BY <1>2, FS_CardinalityType

\* Whatever batches there are, they can be put in the order of their ids.
LEMMA OrderExists ==
    ASSUME NEW ids \in [Writes -> 0..MaxWrites], NEW S \in SUBSET Writes,
           Injective(ids, S)
    PROVE  \E s \in [1..Cardinality(S) -> S] : Sorted(ids, s)
<1> DEFINE Sortable(T) == \E s \in [1..Cardinality(T) -> T] : Sorted(ids, s)
           Bad == {n \in Nat : \E T \in SUBSET S : Cardinality(T) = n /\ ~Sortable(T)}
<1> SUFFICES ASSUME Bad # {} PROVE FALSE
  BY Few
<1>1. PICK n \in Bad : \A m \in Bad : n <= m
  BY Least
<1>2. PICK T \in SUBSET S : Cardinality(T) = n /\ ~Sortable(T)
  BY <1>1
<1>3. T # {}
  <2> SUFFICES ASSUME T = {} PROVE Sortable(T)
    BY <1>2
  <2>1. Cardinality(T) = 0
    BY FS_EmptySet
  <2>2. [i \in 1..0 |-> 1] \in [1..0 -> T] /\ Sorted(ids, [i \in 1..0 |-> 1])
    BY DEF Sorted
  <2> QED BY <2>1, <2>2
<1>4. PICK w \in T : \A v \in T : ids[v] <= ids[w]
  BY <1>3, GreatestId
<1> DEFINE R == T \ {w}
<1>5. IsFiniteSet(T) /\ n \in Nat /\ Cardinality(R) = n - 1 /\ Cardinality(R) \in Nat
  <2>1. IsFiniteSet(T)
    BY Few
  <2>2. Cardinality(R) \in Nat
    BY Few
  <2> QED BY <1>2, <2>1, <2>2, FS_RemoveElement
<1>6. PICK s \in [1..(n - 1) -> R] : Sorted(ids, s)
  <2>1. Cardinality(R) \notin Bad
    <3> HIDE DEF Bad, R
    <3> QED BY <1>1, <1>5
  <2>2. R \in SUBSET S
    OBVIOUS
  <2>3. Sortable(R)
    <3> HIDE DEF R, Sortable
    <3> QED BY <1>5, <2>1, <2>2
  <2> QED BY <1>5, <2>3
<1> DEFINE t == [i \in 1..n |-> IF i = n THEN w ELSE s[i]]
<1>7. t \in [1..n -> T]
  <2> SUFFICES ASSUME NEW i \in 1..n, i # n PROVE s[i] \in R
    OBVIOUS
  <2>1. i \in 1..(n - 1)
    BY <1>5
  <2> QED BY <1>6, <2>1
<1>8. Sorted(ids, t)
  <2> SUFFICES ASSUME NEW i \in 1..n, NEW j \in 1..n, i < j
               PROVE  t[i] # t[j] /\ ids[t[i]] <= ids[t[j]]
    BY DEF Sorted
  <2>1. i \in 1..(n - 1) /\ t[i] = s[i] /\ s[i] \in R
    BY <1>5, <1>6
  <2>2. CASE j = n
    BY <1>4, <2>1, <2>2
  <2>3. CASE j # n
    <3>1. j \in 1..(n - 1) /\ t[j] = s[j]
      BY <1>5, <2>3
    <3> QED BY <1>6, <2>1, <3>1 DEF Sorted
  <2> QED BY <2>2, <2>3
<1> QED BY <1>2, <1>7, <1>8

\* The sequence s has all of the batches S, in the order of their ids.
IsInOrder(ids, S, s) ==
    /\ s \in Seq(S) /\ Len(s) \in Nat
    /\ \A i, j \in 1..Len(s) : i < j => ids[s[i]] < ids[s[j]]
    /\ \A w \in S : \E i \in 1..Len(s) : s[i] = w

\* InOrder finds what it is to choose.
LEMMA InOrderFacts ==
    ASSUME NEW ids \in [Writes -> 0..MaxWrites], NEW S \in SUBSET Writes,
           Injective(ids, S)
    PROVE  IsInOrder(ids, S, InOrder(ids, S))
<1> DEFINE s == InOrder(ids, S)
<1> DEFINE n == Cardinality(S)
<1>1. n \in Nat /\ IsFiniteSet(S)
  BY Few
<1>2. s \in [1..n -> S] /\ Sorted(ids, s)
  <2> DEFINE T == [1..n -> S]
             Ordered(t) == \A i, j \in DOMAIN t :
                              i < j => t[i] # t[j] /\ ids[t[i]] <= ids[t[j]]
  <2>1. \E t \in T : Ordered(t)
    BY OrderExists DEF Sorted
  <2>2. s = CHOOSE t \in T : Ordered(t)
    BY DEF InOrder
  <2>3. s \in T /\ Ordered(s)
    <3> HIDE DEF T, Ordered, s
    <3> QED BY <2>1, <2>2
  <2> QED BY <2>3 DEF Sorted
<1> HIDE DEF n, s
<1>3. s \in Seq(S) /\ Len(s) = n /\ DOMAIN s = 1..n
  BY <1>1, <1>2
<1>4. ASSUME NEW i \in 1..n, NEW j \in 1..n, i < j
      PROVE  ids[s[i]] < ids[s[j]] /\ s[i] # s[j]
  <2>1. s[i] # s[j] /\ ids[s[i]] <= ids[s[j]]
    BY <1>3, <1>2, <1>4 DEF Sorted
  <2>2. s[i] \in S /\ s[j] \in S
    BY <1>2
  <2>3. ids[s[i]] # ids[s[j]]
    BY <2>1, <2>2 DEF Injective
  <2>4. ids[s[i]] \in 0..MaxWrites /\ ids[s[j]] \in 0..MaxWrites
    BY <2>2
  <2> QED BY <2>1, <2>3, <2>4, WriteBounds
<1>5. s \in Injection(1..n, S)
  <2> SUFFICES ASSUME NEW i \in 1..n, NEW j \in 1..n, s[i] = s[j] PROVE i = j
    BY <1>2, <1>3 DEF Injection, IsInjective
  <2>1. ~(i < j) /\ ~(j < i)
    BY <1>4
  <2> QED BY <1>1, <2>1
<1>6. s \in Surjection(1..n, S)
  <2>1. IsFiniteSet(1..n) /\ Cardinality(1..n) = n
    BY <1>1, FS_Interval
  <2>2. Cardinality(S) = n
    BY DEF n
  <2> QED BY <1>1, <1>5, <2>1, <2>2, FS_Injection
<1>7. \A w \in S : \E i \in 1..n : s[i] = w
  BY <1>6, <1>3 DEF Surjection
<1> QED BY <1>1, <1>3, <1>4, <1>7 DEF s, IsInOrder

\* A beginning of a sequence.
LEMMA Beginning ==
    ASSUME NEW S, NEW s \in Seq(S), NEW m \in 0..Len(s)
    PROVE  /\ SubSeq(s, 1, m) \in Seq(S) /\ Len(SubSeq(s, 1, m)) = m
           /\ \A i \in 1..m : SubSeq(s, 1, m)[i] = s[i]
<1>1. \A i \in 1..m : s[i] \in S
  BY ElementOfSeq, LenProperties
<1> QED BY <1>1

\* The id of the last batch of a pipeline.
LastId(ids, p) == IF p = <<>> THEN 0 ELSE ids[p[Len(p)]]

\* The sequence a has the first of those batches S that follow the pipeline p.
Follows(ids, S, p, a) ==
    /\ a \in Seq(S) /\ Len(a) \in Nat
    /\ \A i \in 1..Len(a) : ids[a[i]] > LastId(ids, p)
    /\ \A i, j \in 1..Len(a) : i < j => ids[a[i]] < ids[a[j]]
    /\ \A w \in S : ids[w] > LastId(ids, p) =>
          \/ \E i \in 1..Len(a) : a[i] = w
          \/ /\ Len(p) + Len(a) = kMaxPendingWrites
             /\ \A i \in 1..Len(a) : ids[a[i]] < ids[w]
    /\ Len(p) + Len(a) <= kMaxPendingWrites

\* What is added to a pipeline is what follows.
LEMMA NextFacts ==
    ASSUME NEW ids \in [Writes -> 0..MaxWrites], NEW S \in SUBSET Writes,
           Injective(ids, S), NEW p \in Seq(Writes), Len(p) <= kMaxPendingWrites
    PROVE  Follows(ids, S, p, NextBatches(ids, S, p))
<1> DEFINE a == NextBatches(ids, S, p)
<1> DEFINE last == LastId(ids, p)
           R == {w \in S : ids[w] > last}
           s == InOrder(ids, R)
           r == kMaxPendingWrites - Len(p)
<1>1. r = kMaxPendingWrites - Len(p)
  OBVIOUS
<1>0. r \in Nat /\ Len(p) \in Nat /\ kMaxPendingWrites \in Nat
  BY WriteBounds, LenProperties
<1>2. R \in SUBSET Writes /\ R \subseteq S /\ Injective(ids, R)
  BY DEF Injective
<1> DEFINE m == Min({Len(s), r})
<1>3. a = SubSeq(s, 1, m)
  BY DEF NextBatches, Last, LastId
<1>4. /\ s \in Seq(R) /\ Len(s) \in Nat
      /\ \A i, j \in 1..Len(s) : i < j => ids[s[i]] < ids[s[j]]
      /\ \A w \in R : \E i \in 1..Len(s) : s[i] = w
  <2>1. IsInOrder(ids, R, s)
    <3> HIDE DEF R
    <3> QED BY <1>2, InOrderFacts
  <2> HIDE DEF R, s
  <2> QED BY <2>1 DEF IsInOrder
<1>5. /\ a \in Seq(R) /\ Len(a) \in Nat /\ Len(a) <= Len(s) /\ Len(a) <= r
      /\ Len(a) = Len(s) \/ Len(a) = r
      /\ \A i \in 1..Len(a) : a[i] = s[i]
  <2>1. m \in {Len(s), r} /\ m <= Len(s) /\ m <= r
    <3> HIDE DEF s, r
    <3>1. \E x \in {Len(s), r} : \A y \in {Len(s), r} : x <= y
      BY <1>0, <1>4
    <3> QED BY <3>1 DEF Min
  <2> HIDE DEF R, s, r, m, a
  <2>2. m \in 0..Len(s)
    BY <1>0, <1>4, <2>1
  <2>3. a \in Seq(R) /\ Len(a) = m /\ \A i \in 1..m : a[i] = s[i]
    BY <1>3, <1>4, <2>2, Beginning
  <2> QED BY <1>4, <2>1, <2>2, <2>3
<1> HIDE DEF s, r, m, last, a
<1>13. Len(s) \in Nat /\ Len(a) \in Nat /\ Len(a) <= Len(s)
  BY <1>4, <1>5
<1>6. \A i \in 1..Len(a) : a[i] \in R
  BY <1>5, ElementOfSeq
<1>7. ASSUME NEW w \in R, \A i \in 1..Len(a) : a[i] # w
      PROVE  /\ Len(a) = r
             /\ \A i \in 1..Len(a) : ids[a[i]] < ids[w]
  <2> HIDE DEF R, r
  <2>1. PICK k \in 1..Len(s) : s[k] = w
    BY <1>4
  <2>2. k \in Nat /\ k >= 1 /\ ~(k <= Len(a))
    <3>1. k \in Nat /\ k >= 1
      BY <1>4
    <3>2. k \notin 1..Len(a)
      BY <1>5, <1>7, <2>1
    <3> QED BY <1>5, <3>1, <3>2
  <2>3. Len(a) = r
    BY <1>4, <1>5, <2>1, <2>2
  <2>4. ASSUME NEW i \in 1..Len(a) PROVE ids[a[i]] < ids[w]
    <3>1. i \in 1..Len(s) /\ i < k
      BY <1>13, <2>1, <2>2
    <3>2. a[i] = s[i]
      BY <1>5
    <3> QED BY <1>4, <2>1, <3>1, <3>2
  <2> QED BY <2>3, <2>4
<1>8. a \in Seq(S)
  BY <1>2, <1>5, SeqMonotonic
<1>9. \A i, j \in 1..Len(a) : i < j => ids[a[i]] < ids[a[j]]
  <2> SUFFICES ASSUME NEW i \in 1..Len(a), NEW j \in 1..Len(a), i < j
               PROVE  ids[a[i]] < ids[a[j]]
    OBVIOUS
  <2>1. i \in 1..Len(s) /\ j \in 1..Len(s)
    BY <1>13
  <2>2. a[i] = s[i] /\ a[j] = s[j]
    BY <1>5
  <2> QED BY <1>4, <2>1, <2>2
<1>10. ASSUME NEW w \in S, ids[w] > last, \A i \in 1..Len(a) : a[i] # w
       PROVE  /\ Len(p) + Len(a) = kMaxPendingWrites
              /\ \A i \in 1..Len(a) : ids[a[i]] < ids[w]
  <2>1. w \in R
    BY <1>10
  <2>2. Len(a) = r
    BY <1>7, <1>10, <2>1
  <2> QED BY <1>0, <1>1, <1>7, <1>10, <2>1, <2>2
<1>11. Len(p) + Len(a) <= kMaxPendingWrites
  BY <1>0, <1>1, <1>5
<1>12. \A i \in 1..Len(a) : ids[a[i]] > last
  BY <1>6
<1> QED BY <1>5, <1>8, <1>9, <1>10, <1>11, <1>12 DEF last, a, Follows

-----------------------------------------------------------------------------
(* The pipeline as the oldest writes of a queue. *)

\* The sequence p holds the first of the writes S in the order of issue.
Oldest(p, S) ==
    /\ \A i \in 1..Len(p) : p[i] \in S
    /\ \A i, j \in 1..Len(p) : i < j => p[i] < p[j]
    /\ \A w \in S : (\A i \in 1..Len(p) : p[i] # w) => \A i \in 1..Len(p) : p[i] < w

\* It has as many of them as it may.
Full(p, S) ==
    /\ Len(p) <= kMaxPendingWrites
    /\ \A w \in S : \/ \E i \in 1..Len(p) : p[i] = w
                    \/ Len(p) = kMaxPendingWrites

\* The ids follow the order of issue.
IdsRise(ids, S) ==
    /\ \A w \in S : 1 <= ids[w]
    /\ \A v, w \in S : v < w => ids[v] < ids[w]

\* What leaves the pipeline is the oldest of the queue.
LEMMA TailOldest ==
    ASSUME NEW p \in Seq(Writes), NEW S \in SUBSET Writes, Oldest(p, S), p # <<>>
    PROVE  /\ Tail(p) \in Seq(Writes) /\ Len(Tail(p)) = Len(p) - 1 /\ Len(p) \in Nat
           /\ \A i \in 1..Len(Tail(p)) : Tail(p)[i] = p[i + 1]
           /\ Head(p) = p[1] /\ Head(p) \in S
           /\ \A w \in S : w # Head(p) => Head(p) < w
           /\ Oldest(Tail(p), S \ {Head(p)})
<1> DEFINE t == Tail(p)
           h == Head(p)
<1>1. /\ t \in Seq(Writes) /\ Len(t) = Len(p) - 1 /\ Len(p) \in Nat /\ Len(p) >= 1
      /\ \A i \in 1..Len(t) : t[i] = p[i + 1]
      /\ h = p[1] /\ Len(t) \in Nat
  <2>1. Len(p) \in Nat /\ Len(p) # 0
    BY EmptySeq
  <2> QED BY <2>1, HeadTailProperties
<1> HIDE DEF t, h
<1>2. h \in S /\ \A i \in 2..Len(p) : h < p[i]
  <2>1. 1 \in 1..Len(p) /\ \A i \in 2..Len(p) : i \in 1..Len(p) /\ 1 < i
    BY <1>1
  <2> QED BY <1>1, <2>1 DEF Oldest
<1>3. \A w \in S : w # h => h < w
  <2> SUFFICES ASSUME NEW w \in S, w # h PROVE h < w
    OBVIOUS
  <2>1. CASE \E i \in 1..Len(p) : p[i] = w
    <3>1. PICK i \in 1..Len(p) : p[i] = w
      BY <2>1
    <3>2. i \in 2..Len(p)
      BY <1>1, <3>1
    <3> QED BY <1>2, <3>1, <3>2
  <2>2. CASE \A i \in 1..Len(p) : p[i] # w
    <3>1. 1 \in 1..Len(p)
      BY <1>1
    <3> QED BY <1>1, <2>2, <3>1 DEF Oldest
  <2> QED BY <2>1, <2>2
<1>4. \A i \in 1..Len(t) : i + 1 \in 2..Len(p) /\ i + 1 \in 1..Len(p)
  BY <1>1
<1>5. \A i \in 1..Len(t) : t[i] \in S \ {h}
  <2> SUFFICES ASSUME NEW i \in 1..Len(t) PROVE t[i] \in S /\ t[i] # h
    OBVIOUS
  <2>1. t[i] = p[i + 1] /\ p[i + 1] \in S /\ h < p[i + 1]
    BY <1>1, <1>2, <1>4 DEF Oldest
  <2>2. h \in Nat
    BY <1>2, WriteBounds DEF Writes
  <2> QED BY <2>1, <2>2
<1>6. \A i, j \in 1..Len(t) : i < j => t[i] < t[j]
  <2> SUFFICES ASSUME NEW i \in 1..Len(t), NEW j \in 1..Len(t), i < j
               PROVE  t[i] < t[j]
    OBVIOUS
  <2>1. i + 1 \in 1..Len(p) /\ j + 1 \in 1..Len(p) /\ i + 1 < j + 1
    BY <1>4
  <2>2. t[i] = p[i + 1] /\ t[j] = p[j + 1]
    BY <1>1
  <2> QED BY <2>1, <2>2 DEF Oldest
<1>7. ASSUME NEW w \in S \ {h}, \A i \in 1..Len(t) : t[i] # w
      PROVE  \A i \in 1..Len(t) : t[i] < w
  <2>1. \A i \in 1..Len(p) : p[i] # w
    <3> SUFFICES ASSUME NEW i \in 1..Len(p), p[i] = w PROVE FALSE
      OBVIOUS
    <3>1. i # 1
      BY <1>1
    <3>2. i - 1 \in 1..Len(t) /\ i - 1 + 1 = i
      BY <1>1, <3>1
    <3> QED BY <1>1, <1>7, <3>2
  <2> SUFFICES ASSUME NEW i \in 1..Len(t) PROVE t[i] < w
    OBVIOUS
  <2>2. t[i] = p[i + 1] /\ i + 1 \in 1..Len(p)
    BY <1>1, <1>4
  <2> QED BY <2>1, <2>2 DEF Oldest
<1>8. Oldest(t, S \ {h})
  BY <1>5, <1>6, <1>7 DEF Oldest
<1> QED BY <1>1, <1>2, <1>3, <1>8 DEF t, h

\* A new write comes after all others.
LEMMA GrowOldest ==
    ASSUME NEW p \in Seq(Writes), NEW S \in SUBSET Writes, Oldest(p, S),
           NEW w \in Writes, \A v \in S : v < w
    PROVE  Oldest(p, S \cup {w})
BY DEF Oldest

\* Filling the pipeline keeps it the oldest of the queue, and fills it.
LEMMA FillOldest ==
    ASSUME NEW ids \in [Writes -> 0..MaxWrites], NEW S \in SUBSET Writes,
           IdsRise(ids, S), NEW p \in Seq(Writes), Oldest(p, S),
           Len(p) <= kMaxPendingWrites,
           NEW a, a = NextBatches(ids, S, p)
    PROVE  /\ a \in Seq(Writes) /\ p \o a \in Seq(Writes)
           /\ Len(a) \in Nat /\ Len(p) \in Nat
           /\ Len(p \o a) = Len(p) + Len(a)
           /\ \A i \in 1..Len(p) : (p \o a)[i] = p[i]
           /\ \A i \in 1..Len(a) : (p \o a)[Len(p) + i] = a[i]
           /\ Oldest(p \o a, S) /\ Full(p \o a, S)
<1> DEFINE n == Len(p)
           last == LastId(ids, p)
           q == p \o a
<1>1. /\ n \in Nat /\ kMaxPendingWrites \in Nat
      /\ \A w \in S : w \in Nat /\ ids[w] \in Nat
  BY LenProperties, WriteBounds DEF Writes
<1>2. Injective(ids, S)
  <2> SUFFICES ASSUME NEW v \in S, NEW w \in S, v # w PROVE ids[v] # ids[w]
    BY DEF Injective
  <2>1. v < w \/ w < v
    BY <1>1
  <2> QED BY <1>1, <2>1 DEF IdsRise
<1>3. /\ a \in Seq(S) /\ Len(a) \in Nat
      /\ \A i \in 1..Len(a) : ids[a[i]] > last
      /\ \A i, j \in 1..Len(a) : i < j => ids[a[i]] < ids[a[j]]
      /\ \A w \in S : ids[w] > last =>
            \/ \E i \in 1..Len(a) : a[i] = w
            \/ /\ Len(p) + Len(a) = kMaxPendingWrites
               /\ \A i \in 1..Len(a) : ids[a[i]] < ids[w]
      /\ Len(p) + Len(a) <= kMaxPendingWrites
  <2>1. Follows(ids, S, p, a)
    BY <1>2, NextFacts
  <2> QED BY <2>1 DEF Follows
<1>4. \A v, w \in S : ids[v] < ids[w] => v < w
  <2> SUFFICES ASSUME NEW v \in S, NEW w \in S, ids[v] < ids[w], ~(v < w)
               PROVE  FALSE
    OBVIOUS
  <2>1. v = w \/ w < v
    BY <1>1
  <2> QED BY <1>1, <2>1 DEF IdsRise
<1>5. p # <<>> => n \in 1..n /\ last = ids[p[n]] /\ p[n] \in S
  <2> SUFFICES ASSUME p # <<>> PROVE n \in 1..n /\ p[n] \in S
    BY DEF LastId
  <2>1. n # 0
    BY EmptySeq
  <2> QED BY <1>1, <2>1 DEF Oldest
<1>6. p = <<>> => last = 0 /\ n = 0
  BY EmptySeq DEF LastId
<1> HIDE DEF last
<1>7. ASSUME NEW w \in S, \A i \in 1..n : p[i] # w
      PROVE  ids[w] > last
  <2>1. CASE p = <<>>
    BY <1>1, <1>6, <2>1 DEF IdsRise
  <2>2. CASE p # <<>>
    <3>1. p[n] < w
      BY <1>5, <1>7, <2>2 DEF Oldest
    <3> QED BY <1>1, <1>5, <2>2, <3>1 DEF IdsRise
  <2> QED BY <2>1, <2>2
<1>8. ASSUME NEW w \in S, ids[w] > last, NEW i \in 1..n
      PROVE  p[i] < w
  <2>1. p # <<>> /\ n \in 1..n /\ last = ids[p[n]] /\ p[n] \in S
    BY <1>5, <1>6
  <2>2. p[n] < w
    BY <1>1, <1>4, <1>8, <2>1
  <2>3. i = n \/ i < n
    BY <1>1
  <2>4. p[i] \in S /\ (i < n => p[i] < p[n])
    BY <2>1 DEF Oldest
  <2> QED BY <1>1, <2>1, <2>2, <2>3, <2>4
<1>9. /\ a \in Seq(Writes) /\ q \in Seq(Writes)
      /\ Len(q) = n + Len(a)
      /\ \A i \in 1..n : q[i] = p[i]
      /\ \A i \in 1..Len(a) : q[n + i] = a[i]
  <2>1. a \in Seq(Writes)
    BY <1>3, SeqMonotonic
  <2>2. /\ q \in Seq(Writes) /\ Len(q) = n + Len(a)
        /\ \A i \in 1..(n + Len(a)) : q[i] = IF i <= n THEN p[i] ELSE a[i - n]
    BY <2>1, ConcatProperties
  <2> HIDE DEF q, n
  <2>3. ASSUME NEW i \in 1..n PROVE q[i] = p[i]
    <3>1. i \in 1..(n + Len(a)) /\ i <= n
      BY <1>1, <1>3
    <3> QED BY <2>2, <3>1
  <2>4. ASSUME NEW i \in 1..Len(a) PROVE q[n + i] = a[i]
    <3> DEFINE k == n + i
    <3>1. k \in 1..(n + Len(a)) /\ ~(k <= n) /\ k - n = i
      BY <1>1, <1>3
    <3>2. k = n + i
      OBVIOUS
    <3> HIDE DEF k
    <3>3. q[k] = a[k - n]
      BY <2>2, <3>1
    <3> QED BY <3>1, <3>2, <3>3
  <2> QED BY <2>1, <2>2, <2>3, <2>4
<1> HIDE DEF q
<1>14. \A i \in 1..Len(a) : n + i \in 1..Len(q)
  <2>1. Len(q) = n + Len(a)
    BY <1>9
  <2> QED BY <1>1, <1>3, <2>1
<1>10. \A i \in 1..Len(q) : \/ i \in 1..n /\ q[i] = p[i] /\ p[i] \in S
                            \/ /\ i - n \in 1..Len(a) /\ q[i] = a[i - n]
                               /\ a[i - n] \in S
  <2> SUFFICES ASSUME NEW i \in 1..Len(q), i \notin 1..n
               PROVE  i - n \in 1..Len(a) /\ q[i] = a[i - n] /\ a[i - n] \in S
    BY <1>9 DEF Oldest
  <2>1. i - n \in 1..Len(a) /\ n + (i - n) = i
    BY <1>1, <1>3, <1>9
  <2> QED BY <1>3, <1>9, <2>1, ElementOfSeq
<1>11. \A i, j \in 1..Len(q) : i < j => q[i] < q[j]
  <2> SUFFICES ASSUME NEW i \in 1..Len(q), NEW j \in 1..Len(q), i < j
               PROVE  q[i] < q[j]
    OBVIOUS
  <2>1. CASE j \in 1..n
    <3>1. i \in 1..n
      BY <1>1, <1>3, <1>9, <2>1
    <3> QED BY <1>9, <2>1, <3>1 DEF Oldest
  <2>2. CASE j \notin 1..n
    <3>1. j - n \in 1..Len(a) /\ q[j] = a[j - n] /\ a[j - n] \in S
      BY <1>10, <2>2
    <3>2. CASE i \in 1..n
      <4>1. q[i] = p[i]
        BY <1>9, <3>2
      <4>2. ids[a[j - n]] > last
        BY <1>3, <3>1
      <4> QED BY <1>8, <3>1, <3>2, <4>1, <4>2
    <3>3. CASE i \notin 1..n
      <4>1. i - n \in 1..Len(a) /\ q[i] = a[i - n] /\ a[i - n] \in S
        BY <1>10, <3>3
      <4>2. i - n < j - n
        BY <1>1, <1>3, <1>9
      <4>3. ids[a[i - n]] < ids[a[j - n]]
        BY <1>3, <3>1, <4>1, <4>2
      <4> QED BY <1>4, <3>1, <4>1, <4>3
    <3> QED BY <3>2, <3>3
  <2> QED BY <2>1, <2>2
<1>12. ASSUME NEW w \in S, \A i \in 1..Len(q) : q[i] # w
       PROVE  Len(q) = kMaxPendingWrites /\ \A i \in 1..Len(q) : q[i] < w
  <2>1. \A i \in 1..n : i \in 1..Len(q) /\ p[i] = q[i]
    BY <1>1, <1>3, <1>9
  <2>2. \A i \in 1..Len(a) : n + i \in 1..Len(q) /\ a[i] = q[n + i]
    BY <1>9, <1>14
  <2>3. \A i \in 1..n : p[i] # w
    BY <1>12, <2>1
  <2>4. \A i \in 1..Len(a) : a[i] # w
    BY <1>12, <2>2
  <2>5. /\ ids[w] > last /\ n + Len(a) = kMaxPendingWrites
        /\ \A i \in 1..Len(a) : ids[a[i]] < ids[w]
    BY <1>3, <1>7, <2>3, <2>4
  <2>6. ASSUME NEW i \in 1..Len(q) PROVE q[i] < w
    <3>1. CASE i \in 1..n
      BY <1>8, <2>1, <2>5, <3>1
    <3>2. CASE i \notin 1..n
      <4>1. i - n \in 1..Len(a) /\ q[i] = a[i - n] /\ a[i - n] \in S
        BY <1>10, <3>2
      <4> QED BY <1>4, <2>5, <4>1
    <3> QED BY <3>1, <3>2
  <2> QED BY <1>9, <2>5, <2>6
<1>13. Oldest(q, S) /\ Full(q, S)
  <2>1. \A i \in 1..Len(q) : q[i] \in S
    BY <1>10
  <2>2. Oldest(q, S)
    BY <1>11, <1>12, <2>1 DEF Oldest
  <2>3. Len(q) <= kMaxPendingWrites
    BY <1>3, <1>9
  <2> QED BY <1>12, <2>2, <2>3 DEF Full
<1> QED BY <1>1, <1>3, <1>9, <1>13 DEF q, n

\* The order of issue.
ByIssue == [w \in Writes |-> w]

\* Batches in the order of issue rise.
LEMMA RisesByIssue ==
    ASSUME NEW S \in SUBSET Writes, NEW m, IsInOrder(ByIssue, S, m)
    PROVE  \A i, j \in 1..Len(m) : i < j => m[i] < m[j]
<1> SUFFICES ASSUME NEW i \in 1..Len(m), NEW j \in 1..Len(m), i < j
             PROVE  m[i] < m[j]
  OBVIOUS
<1>1. m[i] \in Writes /\ m[j] \in Writes
  BY ElementOfSeq DEF IsInOrder
<1>2. ByIssue[m[i]] < ByIssue[m[j]]
  BY DEF IsInOrder
<1> QED BY <1>1, <1>2 DEF ByIssue

\* Two sequences of the oldest writes agree as far as they go.
LEMMA OldestAgree ==
    ASSUME NEW p \in Seq(Writes), NEW S \in SUBSET Writes, Oldest(p, S),
           NEW m, IsInOrder(ByIssue, S, m)
    PROVE  \A i \in 1..Len(p) : i \in 1..Len(m) /\ p[i] = m[i]
<1>6. /\ m \in Seq(S) /\ Len(m) \in Nat
      /\ \A w \in S : \E i \in 1..Len(m) : m[i] = w
      /\ \A i, j \in 1..Len(m) : i < j => m[i] < m[j]
  BY RisesByIssue DEF IsInOrder
<1> DEFINE Apart == {i \in Nat : i \in 1..Len(p) /\ i \in 1..Len(m) /\ p[i] # m[i]}
<1>1. Len(p) \in Nat /\ \A w \in S : w \in Nat
  BY LenProperties, WriteBounds DEF Writes
<1>2. Apart = {}
  <2> SUFFICES ASSUME Apart # {} PROVE FALSE
    OBVIOUS
  <2>1. PICK k \in Apart : \A i \in Apart : k <= i
    BY Least
  <2>2. k \in 1..Len(p) /\ k \in 1..Len(m) /\ p[k] # m[k] /\ k \in Nat
    BY <2>1
  <2>3. ASSUME NEW i \in 1..Len(p), i < k PROVE i \in 1..Len(m) /\ p[i] = m[i]
    <3>1. i \in Nat /\ i \in 1..Len(m)
      BY <1>1, <1>6, <2>2, <2>3
    <3>2. i \notin Apart
      <4> HIDE DEF Apart
      <4> QED BY <2>1, <2>2, <2>3, <3>1
    <3> QED BY <3>1, <3>2
  <2>4. ASSUME NEW i \in 1..Len(m), i < k PROVE i \in 1..Len(p) /\ p[i] = m[i]
    <3>1. i \in 1..Len(p)
      BY <1>1, <1>6, <2>2, <2>4
    <3> QED BY <2>3, <2>4, <3>1
  <2> HIDE DEF Apart
  <2>5. p[k] \in S /\ m[k] \in S /\ p[k] \in Nat /\ m[k] \in Nat
    <3>1. p[k] \in S /\ m[k] \in S
      BY <1>6, <2>2, ElementOfSeq DEF Oldest
    <3> QED BY <1>1, <3>1
  <2>6. PICK x \in 1..Len(m) : m[x] = p[k]
    BY <1>6, <2>5
  <2>7. ~(x < k)
    <3> SUFFICES ASSUME x < k PROVE FALSE
      OBVIOUS
    <3>1. x \in 1..Len(p) /\ p[x] = p[k]
      BY <2>4, <2>6
    <3>2. p[x] < p[k]
      BY <2>2, <3>1 DEF Oldest
    <3>3. p[k] < p[k]
      BY <3>1, <3>2
    <3> QED BY <2>5, <3>3
  <2>8. m[k] < p[k]
    <3>1. k < x
      BY <1>6, <2>2, <2>6, <2>7
    <3> QED BY <1>6, <2>2, <2>6, <3>1
  <2>9. CASE \A i \in 1..Len(p) : p[i] # m[k]
    <3>1. p[k] < m[k]
      BY <2>2, <2>5, <2>9 DEF Oldest
    <3> QED BY <2>5, <2>8, <3>1
  <2>10. CASE \E i \in 1..Len(p) : p[i] = m[k]
    <3>1. PICK y \in 1..Len(p) : p[y] = m[k]
      BY <2>10
    <3>2. y < k
      <4> SUFFICES ASSUME k < y PROVE FALSE
        BY <2>2, <3>1
      <4>1. p[k] < p[y]
        BY <2>2 DEF Oldest
      <4>2. p[k] < m[k]
        BY <3>1, <4>1
      <4> QED BY <2>5, <2>8, <4>2
    <3>3. y \in 1..Len(m) /\ m[y] = m[k]
      BY <2>3, <3>1, <3>2
    <3>4. m[y] < m[k]
      BY <1>6, <2>2, <3>2, <3>3
    <3>5. m[k] < m[k]
      BY <3>3, <3>4
    <3> QED BY <2>5, <3>5
  <2> QED BY <2>9, <2>10
<1>3. \A i \in 1..Len(p) : i \in 1..Len(m) => p[i] = m[i]
  <2> SUFFICES ASSUME NEW i \in 1..Len(p), i \in 1..Len(m), p[i] # m[i]
               PROVE  i \in Apart
    BY <1>2
  <2> QED BY <1>1
<1> HIDE DEF Apart
<1>4. Len(p) <= Len(m)
  <2> SUFFICES ASSUME ~(Len(p) <= Len(m)) PROVE FALSE
    OBVIOUS
  <2> DEFINE k == Len(m) + 1
  <2>1. k \in 1..Len(p) /\ Len(m) < k
    BY <1>1, <1>6
  <2> HIDE DEF k
  <2>2. p[k] \in S /\ p[k] \in Nat
    BY <1>1, <2>1 DEF Oldest
  <2>3. PICK x \in 1..Len(m) : m[x] = p[k]
    BY <1>6, <2>2
  <2>4. x \in 1..Len(p) /\ x < k
    BY <1>1, <1>6, <2>1
  <2>5. p[x] = p[k]
    BY <1>3, <2>3, <2>4
  <2>6. p[x] < p[k]
    BY <2>1, <2>4 DEF Oldest
  <2>7. p[k] < p[k]
    BY <2>5, <2>6
  <2> QED BY <2>2, <2>7
<1>5. \A i \in 1..Len(p) : i \in 1..Len(m)
  BY <1>1, <1>4, <1>6
<1> QED BY <1>3, <1>5

\* A full pipeline of the oldest writes is what PipelineIsOldest says.
LEMMA OldestIsFirst ==
    ASSUME NEW p \in Seq(Writes), NEW S \in SUBSET Writes, Oldest(p, S), Full(p, S),
           NEW m, m = InOrder(ByIssue, S)
    PROVE  p = SubSeq(m, 1, Min({Len(m), kMaxPendingWrites}))
<1>1. /\ Len(p) \in Nat /\ kMaxPendingWrites \in Nat
      /\ \A w \in Writes : w \in 0..MaxWrites /\ w \in Nat
  BY LenProperties, WriteBounds DEF Writes
<1>2. ByIssue \in [Writes -> 0..MaxWrites] /\ Injective(ByIssue, S)
  BY <1>1 DEF ByIssue, Injective
<1>3. IsInOrder(ByIssue, S, m)
  BY <1>2, InOrderFacts
<1>4. /\ m \in Seq(S) /\ Len(m) \in Nat
      /\ \A w \in S : \E i \in 1..Len(m) : m[i] = w
  BY <1>3 DEF IsInOrder
<1>5. \A i, j \in 1..Len(m) : i < j => m[i] < m[j]
  BY <1>3, RisesByIssue
<1>6. \A i \in 1..Len(p) : i \in 1..Len(m) /\ p[i] = m[i]
  BY <1>3, OldestAgree
<1>7. Len(p) <= Len(m) /\ Len(p) <= kMaxPendingWrites
  BY <1>1, <1>4, <1>6 DEF Full
<1>8. Len(p) = Len(m) \/ Len(p) = kMaxPendingWrites
  <2> SUFFICES ASSUME Len(p) # Len(m) PROVE Len(p) = kMaxPendingWrites
    OBVIOUS
  <2> DEFINE k == Len(p) + 1
  <2>1. k \in 1..Len(m) /\ \A i \in 1..Len(p) : i < k
    BY <1>1, <1>4, <1>7
  <2> HIDE DEF k
  <2>2. m[k] \in S
    BY <1>4, <2>1, ElementOfSeq
  <2>3. ASSUME NEW i \in 1..Len(p) PROVE p[i] # m[k]
    <3>1. i < k /\ i \in 1..Len(m) /\ p[i] = m[i]
      BY <1>6, <2>1
    <3>2. m[i] < m[k]
      BY <1>5, <2>1, <3>1
    <3> QED BY <1>1, <2>2, <3>1, <3>2
  <2> QED BY <2>2, <2>3 DEF Full
<1>9. Min({Len(m), kMaxPendingWrites}) = Len(p)
  <2>1. Len(p) \in {Len(m), kMaxPendingWrites}
    BY <1>8
  <2>2. \A x \in {Len(m), kMaxPendingWrites} : Len(p) <= x
    BY <1>7
  <2>3. \A x \in {Len(m), kMaxPendingWrites} :
           (\A y \in {Len(m), kMaxPendingWrites} : x <= y) => x = Len(p)
    BY <1>1, <1>4, <1>7, <1>8
  <2> QED BY <2>1, <2>2, <2>3 DEF Min
<1>10. /\ SubSeq(m, 1, Len(p)) \in Seq(S) /\ Len(SubSeq(m, 1, Len(p))) = Len(p)
       /\ \A i \in 1..Len(p) : SubSeq(m, 1, Len(p))[i] = m[i]
  <2>1. Len(p) \in 0..Len(m)
    BY <1>1, <1>4, <1>7
  <2> QED BY <1>4, <2>1, Beginning
<1>11. p = SubSeq(m, 1, Len(p))
  <2> DEFINE s == SubSeq(m, 1, Len(p))
  <2>1. s \in Seq(Writes)
    BY <1>10, SeqMonotonic
  <2>2. Len(p) = Len(s) /\ \A i \in 1..Len(p) : p[i] = s[i]
    BY <1>6, <1>10
  <2> HIDE DEF s
  <2>3. p = s
    BY <2>1, <2>2, SeqEqual
  <2> QED BY <2>3 DEF s
<1> QED BY <1>9, <1>11

-----------------------------------------------------------------------------
(* The parts of the invariant. *)

\* What goes over the wires.
Requests == Writes \cup {Hello}
Responses == [type : {"hello", "done", "denied"}, ver : Nat]

\* Writes are issued in order, under ids that rise, and leave a queue from its head.
IssueInv ==
    /\ \A v, w \in Writes : v < w /\ w \in Issued => v \in Issued
    /\ \A w \in Writes : w \notin Issued => nextId <= w
    /\ \A u \in Users : \A w \in queue[u] :
          owner[w] = u /\ 1 <= batchId[w] /\ batchId[w] < nextId
    /\ \A t, u \in Users : \A v \in queue[t], w \in queue[u] :
          v < w => batchId[v] < batchId[w]
    /\ \A u \in Users : \A v \in Writes, w \in queue[u] :
          owner[v] = u /\ v \notin queue[u] => v < w

\* The pipeline, without a choice of a sequence.
PipeInv == Oldest(pipeline, queue[user]) /\ Full(pipeline, queue[user])

\* The requests r are for the writes of the pipeline p that follow the first n.
InStep(p, r, n) == Len(r) + n = Len(p) /\ \A i \in 1..Len(r) : r[i] = p[n + i]

\* What the answer c to the write w says is so, of the log l.
TrueAnswer(l, c, w) ==
    \/ c.type = "done" /\ c.ver \in 1..Len(l) /\ l[c.ver] = w
    \/ c.type = "denied" /\ w \in bad

\* So are all answers c to the first writes of the pipeline p; a denial is the last.
TrueAnswers(l, c, p) ==
    /\ \A i \in 1..Len(c) : TrueAnswer(l, c[i], p[i])
    /\ \A i \in 1..Len(c) : c[i].type = "denied" => i = Len(c)

\* Before the handshake nothing but it is on the wires.
Greeting(r, c) ==
    \/ Len(r) = 1 /\ r[1] = Hello /\ c = <<>>
    \/ r = <<>> /\ Len(c) = 1 /\ c[1].type = "hello"

\* After the handshake the wires carry the answers to the first writes in the
\* pipeline, and the requests for the others.
WireInv ==
    /\ stream.idle => IsOpen(stream) /\ handshake /\ pipeline = <<>>
    /\ ~IsOpen(stream) => toServer = <<>> /\ toClient = <<>> /\ ~handshake
    /\ IsOpen(stream) /\ ~handshake => Greeting(toServer, toClient)
    /\ handshake => /\ InStep(pipeline, toServer, Len(toClient))
                    /\ TrueAnswers(log[user], toClient, pipeline)

\* The invariant.
StoreInv == TypeOK /\ IssueInv /\ PipeInv /\ WireInv

\* The numbers of the writes: those of other devices come after this one's.
LEMMA WriteNumbers ==
    /\ MaxWrites \in Nat /\ Writes \subseteq AllWrites
    /\ \A x \in AllWrites : x \in Nat /\ Field[x] \in Fields
    /\ \A x \in AllWrites \ Writes : \A w \in Writes : w <= x /\ w # x
    /\ \A n \in Nat : n < MaxOther => MaxWrites + (n + 1) \in AllWrites \ Writes
BY WriteBounds, FieldAssumption DEF Writes, AllWrites

\* Another device writes something that none of this one's writes is.
LEMMA OtherNumber ==
    ASSUME others \in Nat, NEW u \in Users, OtherWrites(u)
    PROVE  \E x \in AllWrites \ Writes : log' = [log EXCEPT ![u] = Append(@, x)]
<1> DEFINE x == MaxWrites + (others + 1)
<1>1. others < MaxOther /\ others' = others + 1
      /\ log' = [log EXCEPT ![u] = Append(@, MaxWrites + others')]
  BY DEF OtherWrites
<1>2. x \in AllWrites \ Writes
  BY <1>1, WriteNumbers
<1> QED BY <1>1, <1>2

\* A version of a document says of each field which versions its value is made of.
LEMMA DocumentTyped ==
    ASSUME NEW l, NEW n \in Nat
    PROVE  Document(l, n) \in [Fields -> SUBSET Nat]
BY DEF Document

\* So does what a write makes of it.
LEMMA PatchTyped ==
    ASSUME NEW doc \in [Fields -> SUBSET Nat], NEW w \in Writes, NEW ver \in Nat
    PROVE  ApplyToRemoteDocument(doc, w, ver) \in [Fields -> SUBSET Nat]
BY WriteNumbers DEF ApplyToRemoteDocument

\* Each operation of a stream: whether it is open or idle afterwards.
LEMMA StreamFacts ==
    ASSUME NEW s \in StreamStates
    PROVE  /\ Start(s) \in StreamStates /\ ~IsOpen(Start(s)) /\ Start(s).idle = s.idle
           /\ OnStreamStart(s) \in StreamStates /\ IsOpen(OnStreamStart(s))
           /\ OnStreamStart(s).idle = s.idle
           /\ MarkIdle(s) \in StreamStates /\ IsOpen(MarkIdle(s)) = IsOpen(s)
           /\ ~IsOpen(s) => MarkIdle(s) = s
           /\ Write(s) \in StreamStates /\ IsOpen(Write(s)) = IsOpen(s)
           /\ Write(s).idle = FALSE
           /\ IsOpen(s) => IsStarted(s)
BY DEF StreamStates, Start, OnStreamStart, MarkIdle, Write, IsOpen, IsStarted

\* A stream that has ended is neither started nor idle.
LEMMA EndedFacts ==
    /\ Stopped \in StreamStates /\ ~IsStarted(Stopped) /\ ~IsOpen(Stopped)
    /\ Stopped.idle = FALSE
    /\ Failed \in StreamStates /\ ~IsStarted(Failed) /\ ~IsOpen(Failed)
    /\ Failed.idle = FALSE
BY DEF StreamStates, Stopped, Failed, IsStarted, IsOpen

\* The sequence q is p followed by a.
Joined(p, a, q) ==
    /\ q = p \o a
    /\ Len(p) \in Nat /\ Len(a) \in Nat /\ Len(q) = Len(p) + Len(a)
    /\ \A i \in 1..Len(p) : q[i] = p[i]
    /\ \A i \in 1..Len(a) : q[Len(p) + i] = a[i]

\* What a sequence followed by another is.
LEMMA JoinFacts ==
    ASSUME NEW S, NEW p \in Seq(S), NEW a \in Seq(S)
    PROVE  p \o a \in Seq(S) /\ Joined(p, a, p \o a)
<1> DEFINE q == p \o a
           n == Len(p)
<1>1. n \in Nat /\ Len(a) \in Nat
  BY LenProperties
<1>2. /\ q \in Seq(S) /\ Len(q) = n + Len(a)
      /\ \A i \in 1..(n + Len(a)) : q[i] = IF i <= n THEN p[i] ELSE a[i - n]
  BY ConcatProperties
<1>3. q = p \o a /\ n = Len(p)
  OBVIOUS
<1> HIDE DEF q, n
<1>4. ASSUME NEW i \in 1..n PROVE q[i] = p[i]
  <2>1. i \in 1..(n + Len(a)) /\ i <= n
    BY <1>1
  <2> QED BY <1>2, <2>1
<1>5. ASSUME NEW i \in 1..Len(a) PROVE q[n + i] = a[i]
  <2> DEFINE k == n + i
  <2>1. k \in 1..(n + Len(a)) /\ ~(k <= n) /\ k - n = i
    BY <1>1
  <2>2. k = n + i
    OBVIOUS
  <2> HIDE DEF k
  <2>3. q[k] = a[k - n]
    BY <1>2, <2>1
  <2> QED BY <2>1, <2>2, <2>3
<1> QED BY <1>1, <1>2, <1>3, <1>4, <1>5 DEF Joined

\* The pipeline p of the stream s was filled from the batches S, and what was
\* added is behind the requests if the stream was ready.
Filled(S, p, s, requests) ==
    /\ Oldest(pipeline', S) /\ Full(pipeline', S)
    /\ pipeline' \in Seq(Writes) /\ toServer' \in Seq(Requests)
    /\ stream' \in StreamStates
    /\ IsOpen(stream') <=> IsOpen(s)
    /\ ~IsOpen(s) => stream'.idle = s.idle
    /\ stream'.idle => s.idle \/ pipeline' = <<>>
    /\ \E a \in Seq(Writes) :
          /\ Joined(p, a, pipeline')
          /\ IF IsOpen(s) /\ handshake
             THEN /\ Joined(requests, a, toServer')
                  /\ a # <<>> => stream'.idle = FALSE
             ELSE toServer' = requests

\* FillWritePipeline does that.
LEMMA FillFacts ==
    ASSUME NEW ids \in [Writes -> 0..MaxWrites], NEW S \in SUBSET Writes,
           IdsRise(ids, S), NEW p \in Seq(Writes), Oldest(p, S),
           Len(p) <= kMaxPendingWrites,
           NEW s \in StreamStates, NEW requests \in Seq(Requests),
           handshake \in BOOLEAN,
           FillWritePipeline(ids, S, p, s, requests)
    PROVE  Filled(S, p, s, requests)
<1> DEFINE a == NextBatches(ids, S, p)
           q == p \o a
           send == IsOpen(s) /\ handshake /\ a # <<>>
<1>1. a \in Seq(Writes) /\ Oldest(q, S) /\ Full(q, S)
  BY FillOldest
<1>2. /\ pipeline' = q
      /\ toServer' = IF send THEN requests \o a ELSE requests
      /\ stream' = IF q = <<>> THEN MarkIdle(s)
                   ELSE IF ~IsStarted(s) THEN Start(s)
                   ELSE IF send THEN Write(s) ELSE s
  BY DEF FillWritePipeline
<1> HIDE DEF a
<1>3. q \in Seq(Writes) /\ Joined(p, a, q)
  BY <1>1, JoinFacts
<1> HIDE DEF q
<1>4. a \in Seq(Requests) /\ requests \o a \in Seq(Requests)
      /\ Joined(requests, a, requests \o a)
  <2>1. a \in Seq(Requests)
    BY <1>1, SeqMonotonic DEF Requests
  <2> QED BY <2>1, JoinFacts
<1>5. /\ stream' \in StreamStates
      /\ IsOpen(stream') <=> IsOpen(s)
      /\ ~IsOpen(s) => stream'.idle = s.idle
      /\ stream'.idle => s.idle \/ q = <<>>
  BY <1>2, StreamFacts DEF StreamStates
<1>6. CASE IsOpen(s) /\ handshake
  <2>1. Joined(requests, a, toServer')
    <3>1. CASE a = <<>>
      <4>1. requests \o a = requests
        BY <3>1, ConcatEmptySeq
      <4> QED BY <1>2, <1>4, <3>1, <4>1
    <3>2. CASE a # <<>>
      BY <1>2, <1>4, <1>6, <3>2
    <3> QED BY <3>1, <3>2
  <2>2. ASSUME a # <<>> PROVE stream'.idle = FALSE
    <3>1. q # <<>>
      BY <1>1, <2>2, ConcatEqualIffEmpty DEF q
    <3> QED BY <1>2, <1>6, <2>2, <3>1, StreamFacts
  <2>3. toServer' \in Seq(Requests)
    BY <1>2, <1>4
  <2> QED BY <1>1, <1>2, <1>3, <1>5, <1>6, <2>1, <2>2, <2>3 DEF Filled
<1>7. CASE ~(IsOpen(s) /\ handshake)
  BY <1>1, <1>2, <1>3, <1>5, <1>7 DEF Filled
<1> QED BY <1>6, <1>7

\* The next id is above those in the queues, and does not rise on a start.
LEMMA LoadFacts ==
    ASSUME TypeOK, IssueInv
    PROVE  /\ LoadNextBatchIdFromDb \in 1..nextId
           /\ \A u \in Users : \A w \in queue[u] : batchId[w] < LoadNextBatchIdFromDb
<1> DEFINE Ids == {0} \cup {batchId[w] : w \in UNION Range(queue)}
<1>1. Range(queue) = {queue[u] : u \in Users} /\ UNION Range(queue) \subseteq Writes
  BY DEF TypeOK, Range
<1>2. \A w \in UNION Range(queue) : \E u \in Users : w \in queue[u]
  BY <1>1
<1>3. \A w \in UNION Range(queue) : batchId[w] \in Nat /\ batchId[w] <= nextId - 1
  <2> SUFFICES ASSUME NEW w \in UNION Range(queue)
               PROVE  batchId[w] \in Nat /\ batchId[w] <= nextId - 1
    OBVIOUS
  <2>1. w \in Writes /\ batchId[w] \in 0..MaxWrites /\ nextId \in 1..(MaxWrites + 1)
    BY <1>1 DEF TypeOK
  <2>2. batchId[w] < nextId
    BY <1>2 DEF IssueInv
  <2> QED BY <2>1, <2>2, WriteBounds
<1>4. nextId - 1 \in Nat
  BY WriteBounds DEF TypeOK
<1>5. Ids \in SUBSET Nat /\ Ids # {} /\ \A x \in Ids : x <= nextId - 1
  BY <1>3, <1>4
<1>6. Max(Ids) \in Ids /\ \A x \in Ids : x <= Max(Ids)
  <2> HIDE DEF Ids
  <2> QED BY <1>4, <1>5, Greatest
<1>7. LoadNextBatchIdFromDb = 1 + Max(Ids)
  BY DEF LoadNextBatchIdFromDb
<1>8. ASSUME NEW u \in Users, NEW w \in queue[u] PROVE batchId[w] \in Ids
  <2>1. w \in UNION Range(queue)
    BY <1>1
  <2> QED BY <2>1
<1> HIDE DEF Ids
<1>9. Max(Ids) \in Nat /\ Max(Ids) <= nextId - 1
  BY <1>5, <1>6
<1> QED BY <1>4, <1>5, <1>6, <1>7, <1>8, <1>9, WriteBounds DEF TypeOK

-----------------------------------------------------------------------------
(* The issue of a write. *)

\* The queue of a user as a set of writes whose ids rise.
LEMMA QueueFacts ==
    ASSUME TypeOK, IssueInv, NEW u \in Users
    PROVE  /\ queue[u] \in SUBSET Writes /\ IdsRise(batchId, queue[u])
           /\ batchId \in [Writes -> 0..MaxWrites]
           /\ \A w \in queue[u] : owner[w] = u /\ w \in Issued
BY UsersAssumption DEF TypeOK, IssueInv, IdsRise, Issued

\* A write that is issued comes after all others, and is in no queue yet.
LEMMA NewestFacts ==
    ASSUME TypeOK, IssueInv, NEW w \in Writes, w \notin Issued
    PROVE  /\ nextId \in Nat /\ 1 <= nextId /\ nextId <= w /\ w <= MaxWrites
           /\ w \in Nat /\ owner[w] = Nobody
           /\ \A v \in Issued : v < w
           /\ \A u \in Users : w \notin queue[u] /\ \A v \in queue[u] : v < w
<1>1. nextId \in Nat /\ 1 <= nextId /\ nextId <= w /\ w <= MaxWrites /\ w \in Nat
  BY WriteBounds DEF TypeOK, IssueInv, Writes
<1>2. \A v \in Issued : v < w
  <2> SUFFICES ASSUME NEW v \in Issued PROVE v < w
    OBVIOUS
  <2>1. v \in Writes /\ v \in Nat /\ v # w
    BY WriteBounds DEF Issued, Writes
  <2>2. ~(w < v)
    BY <2>1 DEF IssueInv
  <2> QED BY <1>1, <2>1, <2>2
<1>3. owner[w] = Nobody
  BY DEF Issued
<1>4. \A u \in Users : \A v \in queue[u] : v \in Issued
  BY QueueFacts
<1> QED BY <1>1, <1>2, <1>3, <1>4

\* WriteMutations keeps the order of issue and of the ids.
LEMMA WriteIssue ==
    ASSUME TypeOK, IssueInv, NEW w \in Writes, WriteMutations(w)
    PROVE  /\ owner' \in [Writes -> Users \cup {Nobody}] /\ owner'[w] = user
           /\ batchId' \in [Writes -> 0..MaxWrites] /\ nextId' \in 1..(MaxWrites + 1)
           /\ queue' \in [Users -> SUBSET Writes]
           /\ queue'[user] = queue[user] \cup {w}
           /\ w \notin Issued /\ user' = user /\ user \in Users
           /\ IssueInv'
<1>1. /\ nextId \in Nat /\ 1 <= nextId /\ nextId <= w /\ w <= MaxWrites
      /\ w \in Nat /\ w \notin Issued /\ owner[w] = Nobody
      /\ \A v \in Issued : v < w
      /\ \A u \in Users : w \notin queue[u] /\ \A v \in queue[u] : v < w
  BY NewestFacts DEF WriteMutations
<1>2. /\ user \in Users /\ user' = user
      /\ owner \in [Writes -> Users \cup {Nobody}]
      /\ batchId \in [Writes -> 0..MaxWrites] /\ queue \in [Users -> SUBSET Writes]
      /\ owner' = [owner EXCEPT ![w] = user]
      /\ batchId' = [batchId EXCEPT ![w] = nextId] /\ nextId' = nextId + 1
      /\ queue' = [queue EXCEPT ![user] = @ \cup {w}]
  BY DEF TypeOK, WriteMutations
<1>3. /\ owner' \in [Writes -> Users \cup {Nobody}] /\ owner'[w] = user
      /\ \A v \in Writes : v # w => owner'[v] = owner[v]
  BY <1>2
<1>4. nextId \in 0..MaxWrites /\ nextId' \in 1..(MaxWrites + 1)
  BY <1>1, <1>2, WriteBounds
<1>5. /\ batchId' \in [Writes -> 0..MaxWrites] /\ batchId'[w] = nextId
      /\ \A v \in Writes : v # w => batchId'[v] = batchId[v]
  BY <1>2, <1>4
<1>6. /\ queue' \in [Users -> SUBSET Writes] /\ queue'[user] = queue[user] \cup {w}
      /\ \A u \in Users : u # user => queue'[u] = queue[u]
  BY <1>2
<1>7. Issued' = Issued \cup {w}
  BY <1>2, <1>3, UsersAssumption DEF Issued
<1>8. \A v, x \in Writes : v < x /\ x \in Issued' => v \in Issued'
  <2> SUFFICES ASSUME NEW v \in Writes, NEW x \in Writes, v < x, x \in Issued'
               PROVE  v \in Issued'
    OBVIOUS
  <2>1. CASE x = w
    <3>1. v \in 1..(w - 1)
      BY <1>1, <2>1, WriteBounds DEF Writes
    <3> QED BY <1>7, <3>1 DEF WriteMutations
  <2>2. CASE x \in Issued
    BY <1>7, <2>2 DEF IssueInv
  <2> QED BY <1>7, <2>1, <2>2
<1>9. \A v \in Writes : v \notin Issued' => nextId' <= v
  <2> SUFFICES ASSUME NEW v \in Writes, v \notin Issued' PROVE nextId + 1 <= v
    BY <1>2
  <2>1. v # w /\ v \notin Issued /\ v \in Nat
    BY <1>7, WriteBounds DEF Writes
  <2>2. ~(v < w)
    <3>1. v < w => v \in 1..(w - 1)
      BY <1>1, <2>1, WriteBounds DEF Writes
    <3> QED BY <2>1, <3>1 DEF WriteMutations
  <2> QED BY <1>1, <2>1, <2>2
<1>10. \A u \in Users : \A v \in queue'[u] :
          owner'[v] = u /\ 1 <= batchId'[v] /\ batchId'[v] < nextId'
  <2> SUFFICES ASSUME NEW u \in Users, NEW v \in queue'[u]
               PROVE  owner'[v] = u /\ 1 <= batchId'[v] /\ batchId'[v] < nextId'
    OBVIOUS
  <2>1. CASE v = w
    <3>1. u = user
      BY <1>1, <1>6, <2>1
    <3> QED BY <1>1, <1>2, <1>3, <1>5, <2>1, <3>1
  <2>2. CASE v # w
    <3>1. v \in queue[u] /\ v \in Writes
      BY <1>2, <1>6, <2>2
    <3>2. owner[v] = u /\ 1 <= batchId[v] /\ batchId[v] < nextId
      BY <3>1 DEF IssueInv
    <3>3. batchId[v] \in Nat
      BY <1>2, <3>1, WriteBounds
    <3> QED BY <1>1, <1>2, <1>3, <1>5, <2>2, <3>1, <3>2, <3>3
  <2> QED BY <2>1, <2>2
<1>11. \A t, u \in Users : \A v \in queue'[t], x \in queue'[u] :
          v < x => batchId'[v] < batchId'[x]
  <2> SUFFICES ASSUME NEW t \in Users, NEW u \in Users, NEW v \in queue'[t],
                      NEW x \in queue'[u], v < x
               PROVE  batchId'[v] < batchId'[x]
    OBVIOUS
  <2>1. (v # w => v \in queue[t]) /\ (x # w => x \in queue[u])
    BY <1>6
  <2>2. v \in Writes /\ x \in Writes /\ v \in Nat /\ x \in Nat
    BY <1>6, WriteBounds DEF Writes
  <2>3. v # w
    <3> SUFFICES ASSUME v = w PROVE FALSE
      OBVIOUS
    <3>1. x < w
      BY <1>1, <2>1, <2>2
    <3> QED BY <1>1, <2>2, <3>1
  <2>4. CASE x = w
    <3>1. batchId[v] < nextId
      BY <2>1, <2>3 DEF IssueInv
    <3> QED BY <1>5, <2>2, <2>3, <2>4, <3>1
  <2>5. CASE x # w
    <3>1. batchId[v] < batchId[x]
      BY <2>1, <2>3, <2>5 DEF IssueInv
    <3> QED BY <1>5, <2>2, <2>3, <2>5, <3>1
  <2> QED BY <2>4, <2>5
<1>12. \A u \in Users : \A v \in Writes, x \in queue'[u] :
          owner'[v] = u /\ v \notin queue'[u] => v < x
  <2> SUFFICES ASSUME NEW u \in Users, NEW v \in Writes, NEW x \in queue'[u],
                      owner'[v] = u, v \notin queue'[u]
               PROVE  v < x
    OBVIOUS
  <2>1. v # w
    BY <1>3, <1>6
  <2>2. owner[v] = u /\ v \notin queue[u]
    BY <1>3, <1>6, <2>1
  <2>3. CASE x = w
    <3>1. v \in Issued
      BY <2>2, UsersAssumption DEF Issued
    <3> QED BY <1>1, <2>3, <3>1
  <2>4. CASE x # w
    <3>1. x \in queue[u]
      BY <1>6, <2>4
    <3> QED BY <2>2, <3>1 DEF IssueInv
  <2> QED BY <2>3, <2>4
<1>13. IssueInv'
  BY <1>8, <1>9, <1>10, <1>11, <1>12 DEF IssueInv
<1> QED BY <1>1, <1>2, <1>3, <1>4, <1>5, <1>6, <1>13

\* A pipeline that is extended, with the requests on the wire, stays in step with
\* the answers.
LEMMA ExtendedWires ==
    ASSUME NEW p \in Seq(Writes), NEW a \in Seq(Writes), NEW q, Joined(p, a, q),
           NEW r \in Seq(Requests), NEW t, Joined(r, a, t), NEW n \in Nat,
           InStep(p, r, n)
    PROVE  InStep(q, t, n) /\ \A i \in 1..n : i \in 1..Len(p) /\ q[i] = p[i]
<1>1. Len(p) \in Nat /\ Len(a) \in Nat /\ Len(q) = Len(p) + Len(a)
  BY DEF Joined
<1>2. Len(r) \in Nat /\ Len(t) = Len(r) + Len(a) /\ Len(r) + n = Len(p)
  BY DEF Joined, InStep
<1>3. Len(t) + n = Len(q)
  <2>1. n \in Nat /\ Len(t) + n = Len(r) + n + Len(a)
    BY <1>1, <1>2
  <2> QED BY <1>1, <1>2, <2>1
<1>4. ASSUME NEW i \in 1..Len(t) PROVE t[i] = q[n + i]
  <2>1. CASE i <= Len(r)
    <3>1. i \in 1..Len(r)
      BY <1>2, <2>1
    <3> DEFINE k == n + i
    <3>2. k \in 1..Len(p)
      BY <1>1, <1>2, <3>1
    <3>3. t[i] = r[i] /\ r[i] = p[k]
      BY <3>1 DEF Joined, InStep
    <3> HIDE DEF k
    <3>4. q[k] = p[k]
      BY <3>2 DEF Joined
    <3> QED BY <3>3, <3>4 DEF k
  <2>2. CASE ~(i <= Len(r))
    <3> DEFINE j == i - Len(r)
    <3>1. i \in Nat /\ i <= Len(r) + Len(a)
      BY <1>1, <1>2
    <3>2. j \in 1..Len(a) /\ Len(r) + j = i
      BY <1>1, <1>2, <2>2, <3>1
    <3>3. Len(p) + j = n + i
      BY <1>1, <1>2, <3>1
    <3> HIDE DEF j
    <3>4. t[Len(r) + j] = a[j] /\ q[Len(p) + j] = a[j]
      BY <3>2 DEF Joined
    <3> QED BY <3>2, <3>3, <3>4
  <2> QED BY <2>1, <2>2
<1>5. \A i \in 1..n : i \in 1..Len(p)
  BY <1>1, <1>2
<1>6. \A i \in 1..n : q[i] = p[i]
  BY <1>5 DEF Joined
<1> QED BY <1>3, <1>4, <1>5, <1>6 DEF InStep

\* Answers stay true when the pipeline is extended.
LEMMA ExtendedAnswers ==
    ASSUME NEW l, NEW c, NEW p, NEW q, TrueAnswers(l, c, p),
           \A i \in 1..Len(c) : q[i] = p[i]
    PROVE  TrueAnswers(l, c, q)
BY DEF TrueAnswers, TrueAnswer

\* With something in the queue a full pipeline is not empty.
LEMMA FullNotEmpty ==
    ASSUME NEW p \in Seq(Writes), NEW S, Full(p, S), S # {}
    PROVE  p # <<>>
<1> SUFFICES ASSUME p = <<>> PROVE FALSE
  OBVIOUS
<1>1. Len(p) = 0
  BY EmptySeq
<1>2. PICK w \in S : TRUE
  OBVIOUS
<1> QED BY <1>1, <1>2, WriteBounds DEF Full

\* A write that is issued goes to the end of the pipeline, if there is room.
LEMMA WriteFill ==
    ASSUME StoreInv, NEW w \in Writes, WriteMutations(w)
    PROVE  Filled(queue'[user], pipeline, stream, toServer)
<1>1. TypeOK /\ IssueInv /\ PipeInv /\ WireInv
  BY DEF StoreInv
<1>2. /\ owner' \in [Writes -> Users \cup {Nobody}]
      /\ batchId' \in [Writes -> 0..MaxWrites] /\ nextId' \in 1..(MaxWrites + 1)
      /\ queue' \in [Users -> SUBSET Writes]
      /\ queue'[user] = queue[user] \cup {w}
      /\ w \notin Issued /\ user' = user /\ user \in Users
      /\ IssueInv'
  BY <1>1, WriteIssue
<1>3. IdsRise(batchId', queue'[user]) /\ queue'[user] \in SUBSET Writes
  BY <1>2 DEF IssueInv, IdsRise
<1>4. /\ pipeline \in Seq(Writes) /\ toServer \in Seq(Requests)
      /\ stream \in StreamStates /\ handshake \in BOOLEAN
      /\ Len(pipeline) <= kMaxPendingWrites /\ Len(pipeline) \in Nat
      /\ toClient \in Seq(Responses) /\ Len(toClient) \in Nat
      /\ Oldest(pipeline, queue[user])
  BY <1>1, LenProperties DEF TypeOK, PipeInv, Full, Requests, Responses
<1>5. Oldest(pipeline, queue'[user])
  <2>1. queue[user] \in SUBSET Writes /\ \A v \in queue[user] : v < w
    BY <1>1, <1>2, NewestFacts DEF TypeOK
  <2>2. Oldest(pipeline, queue[user] \cup {w})
    BY <1>4, <2>1, GrowOldest
  <2> QED BY <1>2, <2>2
<1>6. /\ FillWritePipeline(batchId', queue'[user], pipeline, stream, toServer)
      /\ handshake' = handshake /\ toClient' = toClient /\ log' = log /\ bad' = bad
  BY DEF WriteMutations
<1> QED BY <1>2, <1>3, <1>4, <1>5, <1>6, FillFacts

\* A screen writes.
LEMMA WriteStep ==
    ASSUME StoreInv, NEW w \in Writes, WriteMutations(w)
    PROVE  StoreInv'
<1>1. TypeOK /\ IssueInv /\ PipeInv /\ WireInv
  BY DEF StoreInv
<1>2. /\ owner' \in [Writes -> Users \cup {Nobody}]
      /\ batchId' \in [Writes -> 0..MaxWrites] /\ nextId' \in 1..(MaxWrites + 1)
      /\ queue' \in [Users -> SUBSET Writes]
      /\ queue'[user] = queue[user] \cup {w}
      /\ w \notin Issued /\ user' = user /\ user \in Users
      /\ IssueInv'
  BY <1>1, WriteIssue
<1>3. /\ pipeline \in Seq(Writes) /\ toServer \in Seq(Requests)
      /\ stream \in StreamStates /\ handshake \in BOOLEAN
      /\ Len(pipeline) <= kMaxPendingWrites /\ Len(pipeline) \in Nat
      /\ toClient \in Seq(Responses) /\ Len(toClient) \in Nat
      /\ Oldest(pipeline, queue[user])
  BY <1>1, LenProperties DEF TypeOK, PipeInv, Full, Requests, Responses
<1>4. /\ FillWritePipeline(batchId', queue'[user], pipeline, stream, toServer)
      /\ handshake' = handshake /\ toClient' = toClient /\ log' = log /\ bad' = bad
  BY DEF WriteMutations
<1>5. Filled(queue'[user], pipeline, stream, toServer)
  BY WriteFill
<1>6. PICK a \in Seq(Writes) :
            /\ Joined(pipeline, a, pipeline')
            /\ IF IsOpen(stream) /\ handshake
               THEN /\ Joined(toServer, a, toServer')
                    /\ a # <<>> => stream'.idle = FALSE
               ELSE toServer' = toServer
  BY <1>5 DEF Filled
<1>7. PipeInv'
  BY <1>2, <1>5 DEF PipeInv, Filled
<1>8. TypeOK'
  <2>1. callbacks' \in [Users -> SUBSET ((1..MaxWrites) \X Writes)]
    <3>1. nextId \in 1..MaxWrites
      BY <1>1, <1>2, NewestFacts, WriteBounds
    <3> QED BY <1>1, <3>1 DEF TypeOK, WriteMutations
  <2> QED BY <1>1, <1>2, <1>5, <2>1
          DEF TypeOK, WriteMutations, Requests, Filled
<1>9. stream'.idle = FALSE
  <2>1. pipeline' # <<>>
    BY <1>2, <1>5, FullNotEmpty DEF Filled
  <2>2. CASE stream.idle
    <3>1. IsOpen(stream) /\ handshake /\ pipeline = <<>>
      BY <1>1, <2>2 DEF WireInv
    <3>2. pipeline' = a
      BY <1>6, <3>1, ConcatEmptySeq DEF Joined
    <3> QED BY <1>6, <2>1, <3>1, <3>2
  <2> QED BY <1>5, <2>1, <2>2 DEF StreamStates, Filled
<1>10. handshake => IsOpen(stream)
  BY <1>1 DEF WireInv
<1>11. WireInv'
  <2>1. CASE ~handshake
    <3>1. toServer' = toServer
      BY <1>6, <2>1
    <3> QED BY <1>1, <1>4, <1>5, <1>9, <2>1, <3>1 DEF WireInv, Filled
  <2>2. CASE handshake
    <3> DEFINE n == Len(toClient)
    <3>1. InStep(pipeline, toServer, n) /\ TrueAnswers(log[user], toClient, pipeline)
      BY <1>1, <2>2 DEF WireInv
    <3>2. Joined(pipeline, a, pipeline') /\ Joined(toServer, a, toServer')
      BY <1>6, <1>10, <2>2
    <3>3. InStep(pipeline', toServer', n) /\ \A i \in 1..n : pipeline'[i] = pipeline[i]
      <4> HIDE DEF n
      <4> QED BY <1>3, <3>1, <3>2, ExtendedWires DEF n
    <3>4. TrueAnswers(log[user], toClient, pipeline')
      BY <3>1, <3>3, ExtendedAnswers
    <3>5. TrueAnswers(log[user], toClient, pipeline)'
      BY <1>2, <1>4, <3>4 DEF TrueAnswers, TrueAnswer
    <3> QED BY <1>4, <1>5, <1>9, <1>10, <2>2, <3>3, <3>5
           DEF WireInv, Filled, n
  <2> QED BY <1>3, <2>1, <2>2
<1> QED BY <1>2, <1>7, <1>8, <1>11 DEF StoreInv

-----------------------------------------------------------------------------
(* What the steps have in common. *)

\* Filling the pipeline of a stream that was stopped.
LEMMA StoppedFill ==
    ASSUME NEW ids \in [Writes -> 0..MaxWrites], NEW S \in SUBSET Writes,
           IdsRise(ids, S), NEW p \in Seq(Writes), Oldest(p, S),
           Len(p) <= kMaxPendingWrites, handshake \in BOOLEAN,
           FillWritePipeline(ids, S, p, Stopped, <<>>)
    PROVE  /\ Oldest(pipeline', S) /\ Full(pipeline', S)
           /\ pipeline' \in Seq(Writes) /\ stream' \in StreamStates
           /\ toServer' = <<>> /\ ~IsOpen(stream') /\ stream'.idle = FALSE
<1> DEFINE s == Stopped
           none == <<>>
<1>1. s \in StreamStates /\ ~IsOpen(s) /\ s.idle = FALSE
  BY EndedFacts
<1>2. none \in Seq(Requests)
  OBVIOUS
<1>3. FillWritePipeline(ids, S, p, s, none) /\ s = Stopped /\ none = <<>>
  OBVIOUS
<1> HIDE DEF s, none
<1>4. Filled(S, p, s, none)
  BY <1>1, <1>2, <1>3, FillFacts
<1>5. toServer' = none
  BY <1>1, <1>4 DEF Filled
<1> QED BY <1>1, <1>3, <1>4, <1>5 DEF Filled

\* A stream that is down has nothing on its wires.
LEMMA DownWires ==
    ASSUME ~IsOpen(stream'), stream'.idle = FALSE, toServer' = <<>>,
           toClient' = <<>>, handshake' = FALSE
    PROVE  WireInv'
BY DEF WireInv

\* Nothing in the pipeline is the oldest there is.
LEMMA NothingOldest ==
    ASSUME NEW S
    PROVE  Oldest(<<>>, S) /\ <<>> \in Seq(Writes) /\ Len(<<>>) <= kMaxPendingWrites
<1>1. Len(<<>>) = 0
  BY EmptySeq
<1> QED BY <1>1, WriteBounds DEF Oldest

\* Ids that are given out anew come after those in the queues.
LEMMA LoadedIssue ==
    ASSUME TypeOK, IssueInv, nextId' \in {nextId, LoadNextBatchIdFromDb},
           UNCHANGED <<owner, batchId, queue>>
    PROVE  IssueInv' /\ nextId' \in 1..(MaxWrites + 1)
<1>1. /\ nextId' \in 1..nextId /\ nextId \in 1..(MaxWrites + 1)
      /\ \A u \in Users : \A w \in queue[u] : batchId[w] < nextId'
  <2>1. nextId \in 1..(MaxWrites + 1) /\ nextId \in Nat
    BY WriteBounds DEF TypeOK
  <2>2. \A u \in Users : \A w \in queue[u] : batchId[w] < nextId
    BY DEF IssueInv
  <2>3. /\ LoadNextBatchIdFromDb \in 1..nextId
        /\ \A u \in Users : \A w \in queue[u] : batchId[w] < LoadNextBatchIdFromDb
    BY LoadFacts
  <2> QED BY <2>1, <2>2, <2>3
<1>2. Issued' = Issued
  BY DEF Issued
<1>3. \A w \in Writes : w \notin Issued' => nextId' <= w
  <2> SUFFICES ASSUME NEW w \in Writes, w \notin Issued PROVE nextId' <= w
    BY <1>2
  <2>1. nextId <= w /\ w \in Nat
    BY WriteBounds DEF IssueInv, Writes
  <2> QED BY <1>1, <2>1, WriteBounds
<1>4. nextId' \in 1..(MaxWrites + 1)
  BY <1>1, WriteBounds
<1>5. \A u \in Users : \A w \in queue'[u] :
         owner'[w] = u /\ 1 <= batchId'[w] /\ batchId'[w] < nextId'
  BY <1>1 DEF IssueInv
<1>6. /\ \A v, w \in Writes : v < w /\ w \in Issued' => v \in Issued'
      /\ \A t, u \in Users : \A v \in queue'[t], w \in queue'[u] :
            v < w => batchId'[v] < batchId'[w]
      /\ \A u \in Users : \A v \in Writes, w \in queue'[u] :
            owner'[v] = u /\ v \notin queue'[u] => v < w
  BY <1>2 DEF IssueInv
<1> QED BY <1>3, <1>4, <1>5, <1>6 DEF IssueInv

\* Other steps leave the issue alone.
LEMMA SameIssue ==
    ASSUME IssueInv, UNCHANGED <<owner, batchId, nextId, queue>>
    PROVE  IssueInv'
BY DEF IssueInv, Issued

\* The oldest write leaves the queue of the user.
LEMMA ShrunkIssue ==
    ASSUME TypeOK, IssueInv, NEW h \in queue[user],
           \A w \in queue[user] : w # h => h < w,
           queue' = [queue EXCEPT ![user] = @ \ {h}],
           UNCHANGED <<owner, batchId, nextId>>
    PROVE  /\ IssueInv' /\ queue' \in [Users -> SUBSET Writes]
           /\ queue'[user] = queue[user] \ {h}
           /\ \A u \in Users : u # user => queue'[u] = queue[u]
<1>1. /\ user \in Users /\ queue \in [Users -> SUBSET Writes]
      /\ queue' \in [Users -> SUBSET Writes]
      /\ queue'[user] = queue[user] \ {h}
      /\ \A u \in Users : u # user => queue'[u] = queue[u]
      /\ \A u \in Users : queue'[u] \subseteq queue[u]
      /\ Issued' = Issued
  BY DEF TypeOK, Issued
<1>2. \A u \in Users : \A v \in Writes, w \in queue'[u] :
         owner'[v] = u /\ v \notin queue'[u] => v < w
  <2> SUFFICES ASSUME NEW u \in Users, NEW v \in Writes, NEW w \in queue'[u],
                      owner[v] = u, v \notin queue'[u]
               PROVE  v < w
    OBVIOUS
  <2>1. w \in queue[u]
    BY <1>1
  <2>2. CASE v \notin queue[u]
    BY <2>1, <2>2 DEF IssueInv
  <2>3. CASE v \in queue[u]
    <3>1. u = user /\ v = h /\ w # h
      BY <1>1, <2>3
    <3> QED BY <2>1, <3>1
  <2> QED BY <2>2, <2>3
<1>3. \A u \in Users : \A w \in queue'[u] :
         owner'[w] = u /\ 1 <= batchId'[w] /\ batchId'[w] < nextId'
  BY <1>1 DEF IssueInv
<1>4. \A t, u \in Users : \A v \in queue'[t], w \in queue'[u] :
         v < w => batchId'[v] < batchId'[w]
  <2> SUFFICES ASSUME NEW t \in Users, NEW u \in Users, NEW v \in queue'[t],
                      NEW w \in queue'[u], v < w
               PROVE  batchId[v] < batchId[w]
    OBVIOUS
  <2>1. v \in queue[t] /\ w \in queue[u]
    BY <1>1
  <2> QED BY <2>1 DEF IssueInv
<1>5. /\ \A v, w \in Writes : v < w /\ w \in Issued' => v \in Issued'
      /\ \A w \in Writes : w \notin Issued' => nextId' <= w
  BY <1>1 DEF IssueInv
<1> QED BY <1>1, <1>2, <1>3, <1>4, <1>5 DEF IssueInv

\* What is in the pipeline is in the queue, and is the user's.
LEMMA PipelineFacts ==
    ASSUME StoreInv
    PROVE  /\ pipeline \in Seq(Writes) /\ Len(pipeline) \in Nat
           /\ Len(pipeline) <= kMaxPendingWrites
           /\ queue[user] \in SUBSET Writes /\ IdsRise(batchId, queue[user])
           /\ user \in Users /\ Oldest(pipeline, queue[user])
           /\ \A i \in 1..Len(pipeline) :
                 pipeline[i] \in queue[user] /\ owner[pipeline[i]] = user
           /\ toServer \in Seq(Requests) /\ Len(toServer) \in Nat
           /\ toClient \in Seq(Responses) /\ Len(toClient) \in Nat
           /\ handshake => IsOpen(stream)
<1>1. TypeOK /\ IssueInv /\ PipeInv /\ WireInv
  BY DEF StoreInv
<1>2. /\ pipeline \in Seq(Writes) /\ user \in Users
      /\ toServer \in Seq(Requests) /\ toClient \in Seq(Responses)
  BY <1>1 DEF TypeOK, Requests, Responses
<1>3. Oldest(pipeline, queue[user]) /\ Len(pipeline) <= kMaxPendingWrites
  BY <1>1 DEF PipeInv, Full
<1>4. /\ queue[user] \in SUBSET Writes /\ IdsRise(batchId, queue[user])
      /\ \A w \in queue[user] : owner[w] = user
  BY <1>1, <1>2, QueueFacts
<1>5. Len(pipeline) \in Nat /\ Len(toServer) \in Nat /\ Len(toClient) \in Nat
  BY <1>2, LenProperties
<1>6. handshake => IsOpen(stream)
  BY <1>1 DEF WireInv
<1> QED BY <1>2, <1>3, <1>4, <1>5, <1>6 DEF Oldest

-----------------------------------------------------------------------------
(* The steps of the stream. *)

\* A sequence with something appended.
Longer(l, m) == Len(l) \in Nat /\ Len(m) = Len(l) + 1 /\ \A i \in 1..Len(l) : m[i] = l[i]

\* What Append does.
LEMMA AppendFacts ==
    ASSUME NEW S, NEW l \in Seq(S), NEW x \in S
    PROVE  /\ Append(l, x) \in Seq(S) /\ Longer(l, Append(l, x))
           /\ Len(l) + 1 \in 1..Len(Append(l, x)) /\ Append(l, x)[Len(l) + 1] = x
<1>1. /\ Append(l, x) \in Seq(S) /\ Len(Append(l, x)) = Len(l) + 1
      /\ \A i \in 1..Len(l) : Append(l, x)[i] = l[i]
      /\ Append(l, x)[Len(l) + 1] = x
  BY AppendProperties
<1>2. Len(l) \in Nat
  BY LenProperties
<1> QED BY <1>1, <1>2 DEF Longer

\* A version that was committed stays what it is.
LEMMA LongerAnswers ==
    ASSUME NEW l, NEW m, Longer(l, m), NEW c, NEW p, TrueAnswers(l, c, p)
    PROVE  TrueAnswers(m, c, p)
<1>1. \A i \in 1..Len(l) : i \in 1..Len(m) /\ m[i] = l[i]
  BY DEF Longer
<1> QED BY <1>1 DEF TrueAnswers, TrueAnswer

\* A caller is told one of the words there are.
LEMMA NotifyFacts ==
    ASSUME TypeOK, NEW id, NEW status \in {"done", "failed"}, NotifyUser(id, status)
    PROVE  /\ callbacks' \in [Users -> SUBSET ((1..MaxWrites) \X Writes)]
           /\ told' \in [Writes -> {"nothing", "done", "failed", "orphan"}]
BY DEF TypeOK, NotifyUser

\* The stream opens, and the handshake is sent.
LEMMA OpenStep ==
    ASSUME StoreInv, OnWriteStreamOpen
    PROVE  StoreInv'
<1>1. TypeOK /\ IssueInv /\ PipeInv /\ WireInv
  BY DEF StoreInv
<1>2. ~IsOpen(stream) /\ stream \in StreamStates
  BY <1>1 DEF OnWriteStreamOpen, IsOpen, TypeOK
<1>3. toServer = <<>> /\ toClient = <<>> /\ ~handshake /\ ~stream.idle
  BY <1>1, <1>2 DEF WireInv
<1>4. /\ stream' \in StreamStates /\ IsOpen(stream') /\ stream'.idle = stream.idle
      /\ toServer' = <<Hello>> /\ toClient' = <<>> /\ handshake' = FALSE
  BY <1>1, <1>2, <1>3, StreamFacts DEF OnWriteStreamOpen, TypeOK
<1>5. Len(toServer') = 1 /\ toServer'[1] = Hello /\ toServer' \in Seq(Writes \cup {Hello})
  BY <1>4
<1>6. TypeOK'
  BY <1>1, <1>4, <1>5 DEF TypeOK, OnWriteStreamOpen, device
<1>7. WireInv'
  BY <1>3, <1>4, <1>5 DEF WireInv, Greeting
<1>8. PipeInv'
  BY <1>1 DEF PipeInv, OnWriteStreamOpen, device
<1>9. IssueInv'
  BY <1>1, SameIssue DEF OnWriteStreamOpen, device
<1> QED BY <1>6, <1>7, <1>8, <1>9 DEF StoreInv

\* What a first response means: hello ends the handshake, any other is an answer.
LEMMA FirstResponse ==
    ASSUME StoreInv, toClient # <<>>
    PROVE  /\ IsOpen(stream) /\ Len(toClient) \in Nat /\ Len(toClient) >= 1
           /\ Head(toClient) = toClient[1] /\ Last(toClient) = toClient[Len(toClient)]
           /\ Tail(toClient) \in Seq(Responses)
           /\ Len(Tail(toClient)) = Len(toClient) - 1
           /\ \A i \in 1..Len(Tail(toClient)) : Tail(toClient)[i] = toClient[i + 1]
           /\ \/ /\ ~handshake /\ toServer = <<>> /\ Tail(toClient) = <<>>
                 /\ Head(toClient).type = "hello" /\ Last(toClient).type = "hello"
              \/ /\ handshake /\ pipeline # <<>>
                 /\ InStep(pipeline, toServer, Len(toClient))
                 /\ TrueAnswers(log[user], toClient, pipeline)
                 /\ TrueAnswer(log[user], Head(toClient), Head(pipeline))
                 /\ TrueAnswer(log[user], Last(toClient), pipeline[Len(toClient)])
                 /\ Len(toClient) \in 1..Len(pipeline)
<1>1. WireInv
  BY DEF StoreInv
<1>2. toClient \in Seq(Responses) /\ pipeline \in Seq(Writes) /\ Len(pipeline) \in Nat
  BY PipelineFacts
<1>3. IsOpen(stream)
  BY <1>1 DEF WireInv
<1>4. Len(toClient) \in Nat /\ Len(toClient) # 0
  BY <1>2, EmptySeq
<1>5. /\ Len(toClient) >= 1 /\ Head(toClient) = toClient[1]
      /\ Tail(toClient) \in Seq(Responses)
      /\ Len(Tail(toClient)) = Len(toClient) - 1
      /\ \A i \in 1..Len(Tail(toClient)) : Tail(toClient)[i] = toClient[i + 1]
  BY <1>2, <1>4, HeadTailProperties
<1>6. Last(toClient) = toClient[Len(toClient)]
  BY DEF Last
<1>7. ASSUME ~handshake
      PROVE  /\ toServer = <<>> /\ Tail(toClient) = <<>>
             /\ Head(toClient).type = "hello" /\ Last(toClient).type = "hello"
  <2>1. toServer = <<>> /\ Len(toClient) = 1 /\ toClient[1].type = "hello"
    BY <1>1, <1>3, <1>7 DEF WireInv, Greeting
  <2>2. Len(Tail(toClient)) = 0
    BY <1>5, <2>1
  <2>3. Tail(toClient) = <<>>
    BY <1>5, <2>2, EmptySeq
  <2> QED BY <1>5, <1>6, <2>1, <2>3
<1>8. ASSUME handshake
      PROVE  /\ pipeline # <<>> /\ InStep(pipeline, toServer, Len(toClient))
             /\ TrueAnswers(log[user], toClient, pipeline)
             /\ TrueAnswer(log[user], Head(toClient), Head(pipeline))
             /\ TrueAnswer(log[user], Last(toClient), pipeline[Len(toClient)])
             /\ Len(toClient) \in 1..Len(pipeline)
  <2>1. /\ InStep(pipeline, toServer, Len(toClient))
        /\ TrueAnswers(log[user], toClient, pipeline)
    BY <1>1, <1>8 DEF WireInv
  <2>2. Len(toServer) \in Nat /\ Len(toServer) + Len(toClient) = Len(pipeline)
    BY <2>1, PipelineFacts DEF InStep
  <2>3. Len(pipeline) >= 1 /\ Len(toClient) \in 1..Len(pipeline) /\ 1 \in 1..Len(toClient)
    BY <1>2, <1>4, <1>5, <2>2
  <2>4. pipeline # <<>>
    BY <2>3, EmptySeq
  <2>5. Head(pipeline) = pipeline[1]
    BY <1>2, <2>4, HeadTailProperties
  <2>6. Len(toClient) \in 1..Len(toClient)
    BY <1>4, <1>5
  <2>7. TrueAnswer(log[user], toClient[1], pipeline[1])
    BY <2>1, <2>3 DEF TrueAnswers
  <2>8. TrueAnswer(log[user], toClient[Len(toClient)], pipeline[Len(toClient)])
    BY <2>1, <2>6 DEF TrueAnswers
  <2> QED BY <1>5, <1>6, <2>1, <2>3, <2>4, <2>5, <2>7, <2>8
<1> QED BY <1>3, <1>4, <1>5, <1>6, <1>7, <1>8

\* The handshake is complete, and the pipeline is sent.
LEMMA HandshakeStep ==
    ASSUME StoreInv, OnWriteStreamHandshakeComplete
    PROVE  StoreInv'
<1>1. TypeOK /\ IssueInv /\ PipeInv /\ WireInv
  BY DEF StoreInv
<1>2. toClient # <<>> /\ Head(toClient).type = "hello" /\ toClient' = Tail(toClient)
  BY DEF OnWriteStreamHandshakeComplete, Receive
<1>3. IsOpen(stream) /\ ~handshake /\ toServer = <<>> /\ Tail(toClient) = <<>>
  <2>1. ~TrueAnswer(log[user], Head(toClient), Head(pipeline))
    BY <1>2 DEF TrueAnswer
  <2> QED BY <1>2, <2>1, FirstResponse
<1>4. /\ pipeline \in Seq(Writes) /\ Len(pipeline) \in Nat /\ stream \in StreamStates
      /\ stream.idle = FALSE
  BY <1>1, <1>3, PipelineFacts DEF TypeOK, WireInv, StreamStates
<1>5. toServer' = pipeline
  <2>1. toServer' = <<>> \o pipeline
    BY <1>3 DEF OnWriteStreamHandshakeComplete
  <2> QED BY <1>4, <2>1, ConcatEmptySeq
<1>6. stream' \in StreamStates /\ IsOpen(stream') /\ stream'.idle = FALSE
  BY <1>3, <1>4, StreamFacts DEF OnWriteStreamHandshakeComplete
<1>7. toClient' = <<>> /\ handshake' = TRUE /\ pipeline' = pipeline
  BY <1>2, <1>3 DEF OnWriteStreamHandshakeComplete
<1>8. toServer' \in Seq(Writes \cup {Hello}) /\ toClient' \in Seq(Responses)
  BY <1>4, <1>5, <1>7, SeqMonotonic
<1>9. TypeOK'
  BY <1>1, <1>6, <1>7, <1>8 DEF TypeOK, OnWriteStreamHandshakeComplete, device, Responses
<1>10. WireInv'
  <2>1. Len(toClient') = 0
    BY <1>7, EmptySeq
  <2>2. InStep(pipeline', toServer', Len(toClient'))
    BY <1>4, <1>5, <1>7, <2>1 DEF InStep
  <2>3. TrueAnswers(log[user], toClient, pipeline)'
    BY <2>1 DEF TrueAnswers
  <2> QED BY <1>6, <1>7, <2>2, <2>3 DEF WireInv
<1>11. PipeInv'
  BY <1>1 DEF PipeInv, OnWriteStreamHandshakeComplete, device
<1>12. IssueInv'
  BY <1>1, SameIssue DEF OnWriteStreamHandshakeComplete, device
<1> QED BY <1>9, <1>10, <1>11, <1>12 DEF StoreInv

\* The first batch leaves the pipeline and the queue, done or denied.
LEMMA LeaveFacts ==
    ASSUME StoreInv, pipeline # <<>>,
           queue' = [queue EXCEPT ![user] = @ \ {Head(pipeline)}],
           UNCHANGED <<user, owner, batchId, nextId>>
    PROVE  /\ IssueInv' /\ queue' \in [Users -> SUBSET Writes]
           /\ queue'[user] = queue[user] \ {Head(pipeline)}
           /\ queue'[user] \in SUBSET Writes
           /\ batchId \in [Writes -> 0..MaxWrites] /\ IdsRise(batchId, queue'[user])
           /\ Head(pipeline) = pipeline[1] /\ Head(pipeline) \in queue[user]
           /\ Head(pipeline) \in Writes /\ owner[Head(pipeline)] = user
           /\ Tail(pipeline) \in Seq(Writes) /\ Oldest(Tail(pipeline), queue'[user])
           /\ Len(Tail(pipeline)) = Len(pipeline) - 1
           /\ Len(Tail(pipeline)) <= kMaxPendingWrites
           /\ \A i \in 1..Len(Tail(pipeline)) : Tail(pipeline)[i] = pipeline[i + 1]
<1> DEFINE h == Head(pipeline)
           t == Tail(pipeline)
<1>1. TypeOK /\ IssueInv
  BY DEF StoreInv
<1>2. /\ t \in Seq(Writes) /\ Len(t) = Len(pipeline) - 1
      /\ \A i \in 1..Len(t) : t[i] = pipeline[i + 1]
      /\ h = pipeline[1] /\ h \in queue[user]
      /\ \A w \in queue[user] : w # h => h < w
      /\ Oldest(t, queue[user] \ {h})
  BY PipelineFacts, TailOldest
<1> HIDE DEF t
<1>3. queue' = [queue EXCEPT ![user] = @ \ {h}]
  OBVIOUS
<1> HIDE DEF h
<1>4. /\ IssueInv' /\ queue' \in [Users -> SUBSET Writes]
      /\ queue'[user] = queue[user] \ {h}
  BY <1>1, <1>2, <1>3, ShrunkIssue
<1>5. /\ batchId \in [Writes -> 0..MaxWrites] /\ queue[user] \in SUBSET Writes
      /\ IdsRise(batchId, queue[user]) /\ \A w \in queue[user] : owner[w] = user
  BY <1>1, PipelineFacts, QueueFacts
<1>6. IdsRise(batchId, queue'[user]) /\ queue'[user] \in SUBSET Writes
  BY <1>4, <1>5 DEF IdsRise
<1>7. Len(t) <= kMaxPendingWrites
  BY <1>2, PipelineFacts, WriteBounds
<1> QED BY <1>2, <1>4, <1>5, <1>6, <1>7 DEF h, t

\* The wires are in step with what is left of the pipeline.
LEMMA TailWires ==
    ASSUME NEW l, NEW c, NEW p, NEW d, NEW q, NEW r,
           Len(c) \in Nat, Len(c) >= 1, Len(p) \in Nat, Len(r) \in Nat,
           Len(d) = Len(c) - 1, \A i \in 1..Len(d) : d[i] = c[i + 1],
           Len(q) = Len(p) - 1, \A i \in 1..Len(q) : q[i] = p[i + 1],
           InStep(p, r, Len(c)), TrueAnswers(l, c, p)
    PROVE  InStep(q, r, Len(d)) /\ TrueAnswers(l, d, q)
<1>1. Len(d) \in Nat /\ Len(r) + Len(c) = Len(p)
  <2>1. Len(r) + Len(c) = Len(p)
    BY DEF InStep
  <2>2. Len(d) \in Nat
    OBVIOUS
  <2> QED BY <2>1, <2>2
<1>2. Len(r) + Len(d) = Len(q)
  <2> DEFINE x == Len(c)
             y == Len(d)
             z == Len(r)
  <2>1. x \in Nat /\ y \in Nat /\ z \in Nat /\ y = x - 1 /\ Len(p) = z + x
    BY <1>1
  <2> HIDE DEF x, y, z
  <2>2. z + y = Len(p) - 1
    BY <2>1
  <2> QED BY <2>2 DEF y, z
<1>3. ASSUME NEW i \in 1..Len(r) PROVE r[i] = q[Len(d) + i]
  <2> DEFINE k == Len(d) + i
             j == Len(c) + i
  <2>1. k \in 1..Len(q) /\ k + 1 = j
    BY <1>1, <1>2
  <2>2. r[i] = p[j]
    BY DEF InStep
  <2> HIDE DEF k, j
  <2>3. q[k] = p[j]
    BY <2>1
  <2> QED BY <2>2, <2>3 DEF k
<1>4. ASSUME NEW i \in 1..Len(d)
      PROVE  TrueAnswer(l, d[i], q[i]) /\ (d[i].type = "denied" => i = Len(d))
  <2>1. i \in Nat /\ i + 1 \in 1..Len(c) /\ i \in 1..Len(q)
    BY <1>1, <1>2
  <2>2. d[i] = c[i + 1] /\ q[i] = p[i + 1]
    BY <2>1
  <2>3. TrueAnswer(l, c[i + 1], p[i + 1])
    BY <2>1 DEF TrueAnswers
  <2>4. c[i + 1].type = "denied" => i + 1 = Len(c)
    BY <2>1 DEF TrueAnswers
  <2>5. i + 1 = Len(c) => i = Len(d)
    BY <2>1
  <2> QED BY <2>2, <2>3, <2>4, <2>5
<1> QED BY <1>2, <1>3, <1>4 DEF InStep, TrueAnswers

\* The pipeline is filled behind what is left of it.
LEMMA ResultFill ==
    ASSUME StoreInv, OnWriteStreamMutationResult
    PROVE  /\ Filled(queue'[user], Tail(pipeline), stream, toServer)
           /\ IsOpen(stream) /\ Len(toClient) \in Nat /\ Len(toClient) >= 1
           /\ Tail(toClient) \in Seq(Responses)
           /\ Len(Tail(toClient)) = Len(toClient) - 1
           /\ \A i \in 1..Len(Tail(toClient)) : Tail(toClient)[i] = toClient[i + 1]
           /\ Head(toClient) = toClient[1] /\ toClient' = Tail(toClient)
           /\ handshake /\ pipeline # <<>>
           /\ InStep(pipeline, toServer, Len(toClient))
           /\ TrueAnswers(log[user], toClient, pipeline)
<1>1. /\ toClient # <<>> /\ Head(toClient).type = "done"
      /\ toClient' = Tail(toClient)
  BY DEF OnWriteStreamMutationResult, Receive
<1>2. /\ IsOpen(stream) /\ Len(toClient) \in Nat /\ Len(toClient) >= 1
      /\ Tail(toClient) \in Seq(Responses)
      /\ Len(Tail(toClient)) = Len(toClient) - 1
      /\ \A i \in 1..Len(Tail(toClient)) : Tail(toClient)[i] = toClient[i + 1]
      /\ Head(toClient) = toClient[1]
      /\ handshake /\ pipeline # <<>> /\ InStep(pipeline, toServer, Len(toClient))
      /\ TrueAnswers(log[user], toClient, pipeline)
  BY <1>1, FirstResponse
<1>3. /\ queue' = [queue EXCEPT ![user] = @ \ {Head(pipeline)}]
      /\ UNCHANGED <<user, owner, batchId, nextId>>
      /\ FillWritePipeline(batchId, queue'[user], Tail(pipeline), stream, toServer)
  BY DEF OnWriteStreamMutationResult
<1>4. /\ queue'[user] \in SUBSET Writes
      /\ batchId \in [Writes -> 0..MaxWrites] /\ IdsRise(batchId, queue'[user])
      /\ Tail(pipeline) \in Seq(Writes) /\ Oldest(Tail(pipeline), queue'[user])
      /\ Len(Tail(pipeline)) <= kMaxPendingWrites
  BY <1>2, <1>3, LeaveFacts
<1>5. toServer \in Seq(Requests) /\ stream \in StreamStates /\ handshake \in BOOLEAN
  BY PipelineFacts DEF StoreInv, TypeOK
<1>6. Filled(queue'[user], Tail(pipeline), stream, toServer)
  BY <1>3, <1>4, <1>5, FillFacts
<1> QED BY <1>1, <1>2, <1>6

\* A write is acknowledged.
LEMMA ResultStep ==
    ASSUME StoreInv, OnWriteStreamMutationResult
    PROVE  StoreInv'
<1> DEFINE t == Tail(pipeline)
           d == Tail(toClient)
<1>1. TypeOK /\ IssueInv /\ PipeInv /\ WireInv
  BY DEF StoreInv
<1>2. toClient' = d
  BY ResultFill
<1>3. /\ IsOpen(stream) /\ Len(toClient) \in Nat /\ Len(toClient) >= 1
      /\ d \in Seq(Responses) /\ Len(d) = Len(toClient) - 1
      /\ \A i \in 1..Len(d) : d[i] = toClient[i + 1]
      /\ Head(toClient) = toClient[1]
      /\ handshake /\ pipeline # <<>> /\ InStep(pipeline, toServer, Len(toClient))
      /\ TrueAnswers(log[user], toClient, pipeline)
      /\ Filled(queue'[user], t, stream, toServer)
  BY ResultFill
<1>4. /\ queue' = [queue EXCEPT ![user] = @ \ {Head(pipeline)}]
      /\ UNCHANGED <<user, owner, batchId, nextId>>
      /\ NotifyUser(batchId[Head(pipeline)], "done")
      /\ ApplyBatchResult(Head(pipeline), Head(toClient).ver)
      /\ UNCHANGED <<handshake, log, bad, watched, overtaken, breaks, others>>
  BY DEF OnWriteStreamMutationResult
<1>5. /\ IssueInv' /\ queue' \in [Users -> SUBSET Writes]
      /\ queue'[user] \in SUBSET Writes
      /\ batchId \in [Writes -> 0..MaxWrites] /\ IdsRise(batchId, queue'[user])
      /\ Head(pipeline) \in Writes
      /\ t \in Seq(Writes) /\ Oldest(t, queue'[user])
      /\ Len(t) = Len(pipeline) - 1 /\ Len(t) <= kMaxPendingWrites
      /\ \A i \in 1..Len(t) : t[i] = pipeline[i + 1]
  BY <1>3, <1>4, LeaveFacts
<1>6. /\ toServer \in Seq(Requests) /\ Len(toServer) \in Nat
      /\ Len(pipeline) \in Nat /\ stream \in StreamStates /\ handshake \in BOOLEAN
  BY <1>1, PipelineFacts DEF TypeOK
<1> HIDE DEF t, d
<1>7. InStep(t, toServer, Len(d)) /\ TrueAnswers(log[user], d, t)
  BY <1>3, <1>5, <1>6, TailWires
<1>8. PICK a \in Seq(Writes) : Joined(t, a, pipeline') /\ Joined(toServer, a, toServer')
  BY <1>3 DEF Filled
<1>9. InStep(pipeline', toServer', Len(d)) /\ \A i \in 1..Len(d) : pipeline'[i] = t[i]
  <2>1. Len(d) \in Nat
    BY <1>3
  <2> DEFINE n == Len(d)
  <2>2. n \in Nat /\ InStep(t, toServer, n)
    BY <1>7, <2>1
  <2> HIDE DEF n
  <2>3. InStep(pipeline', toServer', n) /\ \A i \in 1..n : pipeline'[i] = t[i]
    BY <1>5, <1>6, <1>8, <2>2, ExtendedWires
  <2> QED BY <2>3 DEF n
<1>10. TrueAnswers(log[user], d, pipeline')
  BY <1>7, <1>9, ExtendedAnswers
<1>11. TrueAnswers(log[user], toClient, pipeline)'
  BY <1>2, <1>4, <1>10 DEF TrueAnswers, TrueAnswer
<1>12. stream'.idle => pipeline' = <<>>
  BY <1>1, <1>3 DEF WireInv, Filled
<1>13. WireInv'
  BY <1>2, <1>3, <1>4, <1>9, <1>11, <1>12 DEF WireInv, Filled
<1>14. PipeInv'
  BY <1>3, <1>4 DEF PipeInv, Filled
<1>15. cache' \in [Users -> CachedDocuments]
  <2>1. toClient[1] \in Responses
    <3>1. 1 \in 1..Len(toClient)
      BY <1>3
    <3> QED BY <3>1, PipelineFacts, ElementOfSeq
  <2>2. Head(toClient).ver \in Nat
    BY <1>3, <2>1 DEF Responses
  <2>3. PICK h \in Writes : h = Head(pipeline)
    BY <1>5
  <2>4. PICK v \in Nat : v = Head(toClient).ver
    BY <2>2
  <2> DEFINE d0 == cache[user].doc
             e == [ver |-> v, doc |-> ApplyToRemoteDocument(d0, h, v), committed |-> TRUE]
  <2>5. cache \in [Users -> CachedDocuments] /\ user \in Users
    BY <1>1 DEF TypeOK
  <2>6. e \in CachedDocuments
    <3>1. d0 \in [Fields -> SUBSET Nat]
      BY <2>5 DEF CachedDocuments
    <3> QED BY <3>1, PatchTyped DEF CachedDocuments
  <2>7. \/ cache' = [cache EXCEPT ![user] = e]
        \/ cache' = cache
    BY <1>4, <2>3, <2>4, <2>5 DEF ApplyBatchResult
  <2> QED BY <2>5, <2>6, <2>7
<1>16. TypeOK'
  <2>1. /\ callbacks' \in [Users -> SUBSET ((1..MaxWrites) \X Writes)]
        /\ told' \in [Writes -> {"nothing", "done", "failed", "orphan"}]
    BY <1>1, <1>4, NotifyFacts
  <2> QED BY <1>1, <1>2, <1>3, <1>4, <1>5, <1>15, <2>1
          DEF TypeOK, Requests, Responses, Filled
<1> QED BY <1>5, <1>13, <1>14, <1>16 DEF StoreInv

\* A write is rejected.
LEMMA DeniedStep ==
    ASSUME StoreInv, OnWriteStreamDenied
    PROVE  StoreInv'
<1>1. TypeOK /\ IssueInv /\ PipeInv /\ WireInv
  BY DEF StoreInv
<1>2. toClient # <<>> /\ Last(toClient).type = "denied"
  BY DEF OnWriteStreamDenied, HasEnded
<1>3. pipeline # <<>>
  BY <1>2, FirstResponse
<1>4. /\ queue' = [queue EXCEPT ![user] = @ \ {Head(pipeline)}]
      /\ UNCHANGED <<user, owner, batchId, nextId>>
      /\ NotifyUser(batchId[Head(pipeline)], "failed")
      /\ FillWritePipeline(batchId, queue'[user], Tail(pipeline), Stopped, <<>>)
      /\ overtaken' \in {overtaken, overtaken \cup {Head(pipeline)}}
      /\ toClient' = <<>> /\ handshake' = FALSE
      /\ UNCHANGED <<log, bad, cache, watched, breaks, others>>
  BY DEF OnWriteStreamDenied, HandleWriteError
<1>5. /\ IssueInv' /\ queue' \in [Users -> SUBSET Writes]
      /\ queue'[user] \in SUBSET Writes
      /\ batchId \in [Writes -> 0..MaxWrites] /\ IdsRise(batchId, queue'[user])
      /\ Head(pipeline) \in Writes /\ handshake \in BOOLEAN
      /\ Tail(pipeline) \in Seq(Writes) /\ Oldest(Tail(pipeline), queue'[user])
      /\ Len(Tail(pipeline)) <= kMaxPendingWrites
  BY <1>1, <1>3, <1>4, LeaveFacts DEF TypeOK
<1>6. /\ Oldest(pipeline', queue'[user]) /\ Full(pipeline', queue'[user])
      /\ pipeline' \in Seq(Writes) /\ stream' \in StreamStates
      /\ toServer' = <<>> /\ ~IsOpen(stream') /\ stream'.idle = FALSE
  BY <1>4, <1>5, StoppedFill
<1>7. WireInv'
  BY <1>4, <1>6, DownWires
<1>8. PipeInv'
  BY <1>4, <1>6 DEF PipeInv
<1>9. TypeOK'
  <2>1. /\ callbacks' \in [Users -> SUBSET ((1..MaxWrites) \X Writes)]
        /\ told' \in [Writes -> {"nothing", "done", "failed", "orphan"}]
    BY <1>1, <1>4, NotifyFacts
  <2>2. user' \in Users /\ owner' = owner /\ batchId' = batchId /\ nextId' = nextId
    BY <1>1, <1>4 DEF TypeOK
  <2>3. overtaken' \subseteq Writes
    BY <1>1, <1>4, <1>5 DEF TypeOK
  <2>4. toServer' \in Seq(Writes \cup {Hello}) /\ toClient' \in Seq(Responses)
    BY <1>4, <1>6
  <2> QED BY <1>1, <1>4, <1>5, <1>6, <2>1, <2>2, <2>3, <2>4 DEF TypeOK, Responses
<1> QED BY <1>5, <1>7, <1>8, <1>9 DEF StoreInv

-----------------------------------------------------------------------------
(* Failures and restarts. *)

\* A step that takes the stream down and leaves the device and the pipeline alone.
LEMMA DownStep ==
    ASSUME StoreInv, stream' \in StreamStates, ~IsOpen(stream'), stream'.idle = FALSE,
           toServer' = <<>>, toClient' = <<>>, handshake' = FALSE,
           breaks' \in 0..MaxBreaks,
           UNCHANGED <<device, pipeline, log, bad, cache, watched, overtaken, others>>
    PROVE  StoreInv'
<1>1. TypeOK /\ IssueInv /\ PipeInv /\ WireInv
  BY DEF StoreInv
<1>2. /\ UNCHANGED <<user, owner, batchId, nextId, queue, callbacks, told>>
      /\ UNCHANGED <<pipeline, log, bad, cache, watched, overtaken, others>>
  BY DEF device
<1>3. toServer' \in Seq(Writes \cup {Hello}) /\ toClient' \in Seq(Responses)
  OBVIOUS
<1>4. TypeOK'
  BY <1>1, <1>2, <1>3 DEF TypeOK, Responses
<1>5. IssueInv'
  BY <1>1, <1>2, SameIssue
<1>6. PipeInv'
  BY <1>1, <1>2 DEF PipeInv
<1>7. WireInv'
  BY DownWires
<1> QED BY <1>4, <1>5, <1>6, <1>7 DEF StoreInv

\* Whether breaks may be counted.
LEMMA BreakFacts ==
    ASSUME TypeOK
    PROVE  /\ breaks \in Nat /\ breaks \in 0..MaxBreaks
           /\ Break => breaks' \in 0..MaxBreaks /\ breaks' = breaks + 1
BY WriteBounds DEF TypeOK, Break

\* The stream breaks.
LEMMA BrokenStep ==
    ASSUME StoreInv, OnWriteStreamBroken
    PROVE  StoreInv'
<1>1. stream' \in StreamStates /\ ~IsOpen(stream') /\ stream'.idle = FALSE
  <2>1. stream' \in {Failed, Start(Failed)}
    BY DEF OnWriteStreamBroken
  <2>2. /\ Failed \in StreamStates /\ ~IsOpen(Failed) /\ Failed.idle = FALSE
    BY EndedFacts
  <2>3. /\ Start(Failed) \in StreamStates /\ ~IsOpen(Start(Failed))
        /\ Start(Failed).idle = Failed.idle
    BY <2>2, StreamFacts
  <2> QED BY <2>1, <2>2, <2>3
<1>2. breaks' \in 0..MaxBreaks
  BY BreakFacts DEF StoreInv, OnWriteStreamBroken
<1> QED BY <1>1, <1>2, DownStep DEF OnWriteStreamBroken

\* The backoff is over.
LEMMA BackoffStep ==
    ASSUME StoreInv, BackoffElapses
    PROVE  StoreInv'
<1>1. TypeOK /\ WireInv
  BY DEF StoreInv
<1>2. stream \in StreamStates /\ ~IsOpen(stream)
  BY <1>1 DEF TypeOK, BackoffElapses, IsOpen
<1>3. toServer = <<>> /\ toClient = <<>> /\ handshake = FALSE /\ stream.idle = FALSE
  BY <1>1, <1>2 DEF WireInv, StreamStates, TypeOK
<1>4. stream' \in StreamStates /\ ~IsOpen(stream') /\ stream'.idle = FALSE
  BY <1>2, <1>3 DEF BackoffElapses, StreamStates, IsOpen
<1>5. breaks' \in 0..MaxBreaks
  BY <1>1, BreakFacts DEF BackoffElapses
<1> QED BY <1>3, <1>4, <1>5, DownStep DEF BackoffElapses, wires

\* The stream is stopped for being idle.
LEMMA IdleStep ==
    ASSUME StoreInv, IdleTimeout
    PROVE  StoreInv'
<1>1. stream' \in StreamStates /\ ~IsOpen(stream') /\ stream'.idle = FALSE
  BY EndedFacts DEF IdleTimeout
<1>2. breaks' \in 0..MaxBreaks
  BY BreakFacts DEF StoreInv, IdleTimeout
<1> QED BY <1>1, <1>2, DownStep DEF IdleTimeout

\* The network restarts for the user u.
LEMMA RestartStep ==
    ASSUME StoreInv, NEW u \in Users, RestartNetwork(u), user' = u, Break,
           nextId' \in {nextId, LoadNextBatchIdFromDb},
           UNCHANGED <<owner, batchId, queue>>,
           callbacks' \in [Users -> SUBSET ((1..MaxWrites) \X Writes)],
           told' \in [Writes -> {"nothing", "done", "failed", "orphan"}]
    PROVE  StoreInv'
<1>1. TypeOK /\ IssueInv
  BY DEF StoreInv
<1>2. IssueInv' /\ nextId' \in 1..(MaxWrites + 1)
  BY <1>1, LoadedIssue
<1>3. /\ FillWritePipeline(batchId, queue[u], <<>>, Stopped, <<>>)
      /\ toClient' = <<>> /\ handshake' = FALSE
      /\ UNCHANGED <<log, bad, cache, watched, overtaken, others>>
  BY DEF RestartNetwork
<1>4. /\ queue[u] \in SUBSET Writes /\ IdsRise(batchId, queue[u])
      /\ batchId \in [Writes -> 0..MaxWrites] /\ handshake \in BOOLEAN
  BY <1>1, QueueFacts DEF TypeOK
<1> DEFINE none == <<>>
<1>5. none \in Seq(Writes) /\ Oldest(none, queue[u]) /\ Len(none) <= kMaxPendingWrites
  BY NothingOldest
<1>6. FillWritePipeline(batchId, queue[u], none, Stopped, <<>>)
  BY <1>3
<1> HIDE DEF none
<1>7. /\ Oldest(pipeline', queue[u]) /\ Full(pipeline', queue[u])
      /\ pipeline' \in Seq(Writes) /\ stream' \in StreamStates
      /\ toServer' = <<>> /\ ~IsOpen(stream') /\ stream'.idle = FALSE
  BY <1>4, <1>5, <1>6, StoppedFill
<1>8. PipeInv'
  BY <1>7 DEF PipeInv
<1>9. WireInv'
  BY <1>3, <1>7, DownWires
<1>10. breaks' \in 0..MaxBreaks
  BY <1>1, BreakFacts
<1>11. toServer' \in Seq(Writes \cup {Hello}) /\ toClient' \in Seq(Responses)
  BY <1>3, <1>7
<1>12. TypeOK'
  BY <1>1, <1>2, <1>3, <1>7, <1>10, <1>11 DEF TypeOK, Responses
<1> QED BY <1>2, <1>8, <1>9, <1>12 DEF StoreInv

\* The credentials change.
LEMMA CredentialStep ==
    ASSUME StoreInv, NEW u \in Users, HandleCredentialChange(u)
    PROVE  StoreInv'
<1>1. /\ callbacks' \in [Users -> SUBSET ((1..MaxWrites) \X Writes)]
      /\ told' \in [Writes -> {"nothing", "done", "failed", "orphan"}]
  BY DEF StoreInv, TypeOK, HandleCredentialChange
<1> QED BY <1>1, RestartStep DEF HandleCredentialChange

\* The process starts again.
LEMMA ProcessStep ==
    ASSUME StoreInv, StartProcess
    PROVE  StoreInv'
<1>1. user \in Users /\ told \in [Writes -> {"nothing", "done", "failed", "orphan"}]
  BY DEF StoreInv, TypeOK
<1>2. /\ callbacks' \in [Users -> SUBSET ((1..MaxWrites) \X Writes)]
      /\ told' \in [Writes -> {"nothing", "done", "failed", "orphan"}]
  BY <1>1 DEF StartProcess
<1> QED BY <1>1, <1>2, RestartStep DEF StartProcess

\* The first request on the wire, and what is behind it.
LEMMA FirstRequest ==
    ASSUME StoreInv, toServer # <<>>
    PROVE  /\ IsOpen(stream) /\ Len(toServer) \in Nat /\ Len(toServer) >= 1
           /\ Head(toServer) = toServer[1] /\ Tail(toServer) \in Seq(Requests)
           /\ Len(Tail(toServer)) = Len(toServer) - 1
           /\ \A i \in 1..Len(Tail(toServer)) : Tail(toServer)[i] = toServer[i + 1]
           /\ \/ /\ ~handshake /\ toClient = <<>> /\ Tail(toServer) = <<>>
                 /\ Head(toServer) = Hello
              \/ /\ handshake
                 /\ InStep(pipeline, toServer, Len(toClient))
                 /\ TrueAnswers(log[user], toClient, pipeline)
                 /\ Len(toClient) + 1 \in 1..Len(pipeline)
                 /\ Head(toServer) = pipeline[Len(toClient) + 1]
                 /\ Head(toServer) \in queue[user] /\ Head(toServer) \in Writes
                 /\ owner[Head(toServer)] = user /\ Head(toServer) # Hello
<1>1. WireInv
  BY DEF StoreInv
<1>2. /\ toServer \in Seq(Requests) /\ Len(pipeline) \in Nat /\ Len(toClient) \in Nat
      /\ queue[user] \in SUBSET Writes
      /\ \A i \in 1..Len(pipeline) :
            pipeline[i] \in queue[user] /\ owner[pipeline[i]] = user
  BY PipelineFacts
<1>3. IsOpen(stream)
  BY <1>1 DEF WireInv
<1>4. Len(toServer) \in Nat /\ Len(toServer) # 0
  BY <1>2, EmptySeq
<1>5. /\ Len(toServer) >= 1 /\ Head(toServer) = toServer[1]
      /\ Tail(toServer) \in Seq(Requests)
      /\ Len(Tail(toServer)) = Len(toServer) - 1
      /\ \A i \in 1..Len(Tail(toServer)) : Tail(toServer)[i] = toServer[i + 1]
  BY <1>2, <1>4, HeadTailProperties
<1>6. ASSUME ~handshake
      PROVE  toClient = <<>> /\ Tail(toServer) = <<>> /\ Head(toServer) = Hello
  <2>1. toClient = <<>> /\ Len(toServer) = 1 /\ toServer[1] = Hello
    BY <1>1, <1>3, <1>6 DEF WireInv, Greeting
  <2>2. Len(Tail(toServer)) = 0
    BY <1>5, <2>1
  <2>3. Tail(toServer) = <<>>
    BY <1>5, <2>2, EmptySeq
  <2> QED BY <1>5, <2>1, <2>3
<1>7. ASSUME handshake
      PROVE  /\ InStep(pipeline, toServer, Len(toClient))
             /\ TrueAnswers(log[user], toClient, pipeline)
             /\ Len(toClient) + 1 \in 1..Len(pipeline)
             /\ Head(toServer) = pipeline[Len(toClient) + 1]
             /\ Head(toServer) \in queue[user] /\ Head(toServer) \in Writes
             /\ owner[Head(toServer)] = user /\ Head(toServer) # Hello
  <2>1. /\ InStep(pipeline, toServer, Len(toClient))
        /\ TrueAnswers(log[user], toClient, pipeline)
    BY <1>1, <1>7 DEF WireInv
  <2>2. Len(toServer) + Len(toClient) = Len(pipeline)
    BY <2>1 DEF InStep
  <2>3. Len(toClient) + 1 \in 1..Len(pipeline) /\ 1 \in 1..Len(toServer)
    BY <1>2, <1>4, <1>5, <2>2
  <2>4. toServer[1] = pipeline[Len(toClient) + 1]
    BY <2>1, <2>3 DEF InStep
  <2>5. Head(toServer) \in queue[user] /\ owner[Head(toServer)] = user
    BY <1>2, <1>5, <2>3, <2>4
  <2>6. Head(toServer) \in Writes /\ Head(toServer) # Hello
    BY <1>2, <2>5, WriteBounds DEF Writes, Hello
  <2> QED BY <1>5, <2>1, <2>3, <2>4, <2>5, <2>6
<1> QED BY <1>3, <1>4, <1>5, <1>6, <1>7

-----------------------------------------------------------------------------
(* The server. *)

\* The requests behind the first are in step with one answer more.
LEMMA ServedRequests ==
    ASSUME NEW p, NEW r, NEW t, NEW n \in Nat, NEW k, k = n + 1,
           Len(r) \in Nat, Len(r) >= 1, Len(p) \in Nat,
           Len(t) = Len(r) - 1, \A i \in 1..Len(t) : t[i] = r[i + 1],
           InStep(p, r, n)
    PROVE  InStep(p, t, k)
<1>1. Len(r) + n = Len(p) /\ Len(t) \in Nat
  BY DEF InStep
<1>2. Len(t) + k = Len(p)
  <2> DEFINE x == Len(r)
             y == Len(t)
  <2>1. x \in Nat /\ y \in Nat /\ y = x - 1 /\ x + n = Len(p)
    BY <1>1
  <2> HIDE DEF x, y
  <2>2. y + (n + 1) = x + n
    BY <2>1
  <2> QED BY <2>1, <2>2 DEF y
<1>3. ASSUME NEW i \in 1..Len(t) PROVE t[i] = p[k + i]
  <2> DEFINE j == i + 1
             m == k + i
  <2>1. j \in 1..Len(r) /\ m = n + j /\ t[i] = r[j]
    BY <1>1
  <2> HIDE DEF j, m
  <2>2. r[j] = p[n + j]
    BY <2>1 DEF InStep
  <2> QED BY <2>1, <2>2 DEF m
<1> QED BY <1>2, <1>3 DEF InStep

\* One more answer, after none that is a denial.
LEMMA ServedAnswers ==
    ASSUME NEW l, NEW c \in Seq(Responses), NEW p, TrueAnswers(l, c, p),
           c = <<>> \/ c[Len(c)].type # "denied",
           NEW x \in Responses, TrueAnswer(l, x, p[Len(c) + 1])
    PROVE  TrueAnswers(l, Append(c, x), p)
<1> DEFINE d == Append(c, x)
           n == Len(c)
<1>1. /\ n \in Nat /\ Len(d) = n + 1 /\ d[n + 1] = x
      /\ \A i \in 1..n : d[i] = c[i]
      /\ n = 0 <=> c = <<>>
  BY AppendFacts, EmptySeq DEF Longer
<1>2. \A i \in 1..n : TrueAnswer(l, c[i], p[i]) /\ (c[i].type = "denied" => i = n)
  BY DEF TrueAnswers
<1>3. TrueAnswer(l, x, p[n + 1])
  OBVIOUS
<1>4. c = <<>> \/ c[n].type # "denied"
  OBVIOUS
<1> HIDE DEF d, n
<1>5. ASSUME NEW i \in 1..Len(d)
      PROVE  TrueAnswer(l, d[i], p[i]) /\ (d[i].type = "denied" => i = Len(d))
  <2>1. CASE i \in 1..n
    <3>1. n # 0
      BY <1>1, <2>1
    <3>2. c[i].type # "denied"
      BY <1>1, <1>2, <1>4, <2>1, <3>1
    <3> QED BY <1>1, <1>2, <2>1, <3>2
  <2>2. CASE i \notin 1..n
    <3>1. i = n + 1
      BY <1>1, <2>2
    <3> QED BY <1>1, <1>3, <3>1
  <2> QED BY <2>1, <2>2
<1>6. TrueAnswers(l, d, p)
  BY <1>5 DEF TrueAnswers
<1> QED BY <1>6 DEF d

\* The server answers the handshake.
LEMMA HelloStep ==
    ASSUME StoreInv, ServeHello
    PROVE  StoreInv'
<1>1. TypeOK /\ IssueInv /\ PipeInv /\ WireInv
  BY DEF StoreInv
<1>2. toServer # <<>> /\ Head(toServer) = Hello
  BY DEF ServeHello
<1>3. IsOpen(stream) /\ ~handshake /\ toClient = <<>> /\ Tail(toServer) = <<>>
  BY <1>2, FirstRequest
<1> DEFINE r == Response("hello", 0)
<1>4. r \in Responses /\ r.type = "hello"
  BY DEF Response, Responses
<1>5. /\ toServer' = Tail(toServer) /\ toClient' = Append(toClient, r)
      /\ UNCHANGED <<user, owner, batchId, nextId, queue, callbacks, told>>
      /\ UNCHANGED <<pipeline, stream, handshake, bad, cache, watched, overtaken, breaks,
                     others, log>>
  BY DEF ServeHello, Serve, device, network
<1> HIDE DEF r
<1>6. toClient' \in Seq(Responses) /\ Len(toClient') = 1 /\ toClient'[1] = r
  BY <1>3, <1>4, <1>5
<1>7. toServer' = <<>> /\ toServer' \in Seq(Writes \cup {Hello})
  <2>1. toServer' = <<>>
    BY <1>3, <1>5
  <2> QED BY <2>1
<1>8. TypeOK'
  BY <1>1, <1>5, <1>6, <1>7 DEF TypeOK, Responses
<1>9. WireInv'
  BY <1>1, <1>3, <1>4, <1>5, <1>6, <1>7 DEF WireInv, Greeting
<1>10. PipeInv'
  BY <1>1, <1>5 DEF PipeInv
<1>11. IssueInv'
  BY <1>1, <1>5, SameIssue
<1> QED BY <1>8, <1>9, <1>10, <1>11 DEF StoreInv

\* What the server does with a write.
LEMMA ServeFacts ==
    ASSUME StoreInv, ServeWrite
    PROVE  /\ toServer # <<>> /\ handshake
           /\ InStep(pipeline, toServer, Len(toClient))
           /\ TrueAnswers(log[user], toClient, pipeline)
           /\ Len(toClient) + 1 \in 1..Len(pipeline)
           /\ Head(toServer) = pipeline[Len(toClient) + 1]
           /\ Head(toServer) \in queue[user] /\ Head(toServer) \in Writes
           /\ owner[Head(toServer)] = user
           /\ toServer' = Tail(toServer) /\ ~HasEnded
           /\ UNCHANGED <<user, owner, batchId, nextId, queue, callbacks, told>>
           /\ UNCHANGED <<pipeline, stream, handshake, bad, cache, watched, overtaken,
                          breaks, others>>
           /\ \/ /\ Head(toServer) \in bad /\ UNCHANGED log
                 /\ toClient' = Append(toClient, Response("denied", 0))
              \/ /\ Head(toServer) \notin bad
                 /\ log' = [log EXCEPT ![user] = Append(@, Head(toServer))]
                 /\ log' \in [Users -> Seq(AllWrites)]
                 /\ log'[user] = Append(log[user], Head(toServer))
                 /\ toClient' = Append(toClient, Response("done", Len(log'[user])))
<1>1. toServer # <<>> /\ Head(toServer) # Hello
  BY DEF ServeWrite
<1>2. /\ handshake /\ InStep(pipeline, toServer, Len(toClient))
      /\ TrueAnswers(log[user], toClient, pipeline)
      /\ Len(toClient) + 1 \in 1..Len(pipeline)
      /\ Head(toServer) = pipeline[Len(toClient) + 1]
      /\ Head(toServer) \in queue[user] /\ Head(toServer) \in Writes
      /\ owner[Head(toServer)] = user
  BY <1>1, FirstRequest
<1>3. /\ toServer' = Tail(toServer) /\ ~HasEnded
      /\ UNCHANGED <<device, network, bad, cache, watched, overtaken, breaks, others>>
      /\ \/ /\ Head(toServer) \in bad /\ UNCHANGED log
            /\ toClient' = Append(toClient, Response("denied", 0))
         \/ /\ Head(toServer) \notin bad
            /\ log' = [log EXCEPT ![user] = Append(@, Head(toServer))]
            /\ toClient' = Append(toClient, Response("done", Len(log'[user])))
  BY <1>2 DEF ServeWrite, Serve
<1>4. user \in Users /\ log \in [Users -> Seq(AllWrites)]
  BY DEF StoreInv, TypeOK
<1>5. log' = [log EXCEPT ![user] = Append(@, Head(toServer))] =>
         /\ log' \in [Users -> Seq(AllWrites)]
         /\ log'[user] = Append(log[user], Head(toServer))
  <2>1. Append(log[user], Head(toServer)) \in Seq(AllWrites)
    BY <1>2, <1>4, WriteNumbers, AppendProperties
  <2> QED BY <1>4, <2>1
<1> QED BY <1>1, <1>2, <1>3, <1>5 DEF device, network

\* The server carries out or denies a write.
LEMMA ServeStep ==
    ASSUME StoreInv, ServeWrite
    PROVE  StoreInv'
<1> DEFINE w == Head(toServer)
           n == Len(toClient)
<1>1. TypeOK /\ IssueInv /\ PipeInv /\ WireInv
  BY DEF StoreInv
<1>2. /\ toServer # <<>> /\ handshake /\ InStep(pipeline, toServer, n)
      /\ TrueAnswers(log[user], toClient, pipeline)
      /\ w = pipeline[n + 1] /\ w \in Writes
      /\ toServer' = Tail(toServer) /\ ~HasEnded
      /\ UNCHANGED <<user, owner, batchId, nextId, queue, callbacks, told>>
      /\ UNCHANGED <<pipeline, stream, handshake, bad, cache, watched, overtaken,
                     breaks, others>>
      /\ \/ /\ w \in bad /\ UNCHANGED log
            /\ toClient' = Append(toClient, Response("denied", 0))
         \/ /\ log' \in [Users -> Seq(AllWrites)]
            /\ log'[user] = Append(log[user], w)
            /\ toClient' = Append(toClient, Response("done", Len(log'[user])))
  BY ServeFacts
<1>3. /\ toClient \in Seq(Responses) /\ n \in Nat /\ Len(pipeline) \in Nat
      /\ user \in Users /\ log[user] \in Seq(AllWrites)
      /\ Len(log[user]) \in Nat
  <2>1. user \in Users /\ log[user] \in Seq(AllWrites)
    BY <1>1 DEF TypeOK
  <2> QED BY <2>1, LenProperties, PipelineFacts
<1>4. PICK x \in Responses :
         /\ toClient' = Append(toClient, x) /\ TrueAnswer(log'[user], x, w)
         /\ log' \in [Users -> Seq(AllWrites)]
         /\ log'[user] = log[user] \/ Longer(log[user], log'[user])
  <2>1. CASE w \in bad /\ UNCHANGED log
                /\ toClient' = Append(toClient, Response("denied", 0))
    <3>1. Response("denied", 0) \in Responses /\ Response("denied", 0).type = "denied"
      BY DEF Response, Responses
    <3>2. TrueAnswer(log'[user], Response("denied", 0), w)
      BY <2>1, <3>1 DEF TrueAnswer
    <3> QED BY <1>1, <2>1, <3>1, <3>2 DEF TypeOK
  <2>2. CASE /\ log' \in [Users -> Seq(AllWrites)]
             /\ log'[user] = Append(log[user], w)
             /\ toClient' = Append(toClient, Response("done", Len(log'[user])))
    <3> DEFINE v == Len(log'[user])
    <3>1. w \in AllWrites
      BY <1>2, WriteNumbers
    <3>2. /\ Longer(log[user], log'[user]) /\ Len(log[user]) + 1 \in 1..v
          /\ log'[user][Len(log[user]) + 1] = w
      BY <1>3, <2>2, <3>1, AppendFacts
    <3>3. v = Len(log[user]) + 1 /\ v \in Nat
      BY <1>3, <3>2 DEF Longer
    <3>4. /\ Response("done", v) \in Responses
          /\ Response("done", v).type = "done" /\ Response("done", v).ver = v
      BY <3>3 DEF Response, Responses
    <3>5. TrueAnswer(log'[user], Response("done", v), w)
      BY <3>2, <3>3, <3>4 DEF TrueAnswer
    <3> QED BY <2>2, <3>2, <3>4, <3>5
  <2> QED BY <1>2, <2>1, <2>2
<1>5. TrueAnswers(log'[user], toClient', pipeline)
  <2>1. TrueAnswers(log'[user], toClient, pipeline)
    BY <1>2, <1>4, LongerAnswers
  <2>2. toClient = <<>> \/ toClient[n].type # "denied"
    BY <1>2 DEF HasEnded, Last
  <2>3. TrueAnswer(log'[user], x, pipeline[n + 1])
    BY <1>2, <1>4
  <2> QED BY <1>3, <1>4, <2>1, <2>2, <2>3, ServedAnswers
<1>6. toClient' \in Seq(Responses) /\ Len(toClient') = n + 1
  BY <1>3, <1>4, AppendProperties
<1>7. /\ Len(toServer) \in Nat /\ Len(toServer) >= 1
      /\ Tail(toServer) \in Seq(Requests)
      /\ Len(Tail(toServer)) = Len(toServer) - 1
      /\ \A i \in 1..Len(Tail(toServer)) : Tail(toServer)[i] = toServer[i + 1]
      /\ IsOpen(stream)
  BY <1>2, FirstRequest
<1>8. InStep(pipeline, toServer', Len(toClient'))
  <2> DEFINE t == Tail(toServer)
             k == Len(toClient')
  <2>1. Len(t) = Len(toServer) - 1 /\ \A i \in 1..Len(t) : t[i] = toServer[i + 1]
    BY <1>7
  <2>2. k = n + 1
    BY <1>6
  <2> HIDE DEF t, k, n
  <2>3. InStep(pipeline, t, k)
    BY <1>2, <1>3, <1>7, <2>1, <2>2, ServedRequests
  <2> QED BY <1>2, <2>3 DEF t, k
<1>9. WireInv'
  <2>1. TrueAnswers(log[user], toClient, pipeline)'
    BY <1>2, <1>5 DEF TrueAnswers, TrueAnswer
  <2>2. InStep(pipeline, toServer, Len(toClient))'
    BY <1>2, <1>8 DEF InStep
  <2> QED BY <1>1, <1>2, <1>7, <2>1, <2>2 DEF WireInv
<1>10. TypeOK'
  <2>1. toServer' \in Seq(Writes \cup {Hello})
    BY <1>2, <1>7 DEF Requests
  <2> QED BY <1>1, <1>2, <1>4, <1>6, <2>1 DEF TypeOK, Responses
<1>11. PipeInv'
  BY <1>1, <1>2 DEF PipeInv
<1>12. IssueInv'
  BY <1>1, <1>2, SameIssue
<1> QED BY <1>9, <1>10, <1>11, <1>12 DEF StoreInv

-----------------------------------------------------------------------------
(* The other steps, and the invariant. *)

\* Another device writes.
LEMMA OtherStep ==
    ASSUME StoreInv, NEW u \in Users, OtherWrites(u)
    PROVE  StoreInv'
<1>1. TypeOK /\ IssueInv /\ PipeInv /\ WireInv
  BY DEF StoreInv
<1>2. /\ others < MaxOther /\ others' = others + 1
      /\ UNCHANGED <<user, owner, batchId, nextId, queue, callbacks, told>>
      /\ UNCHANGED <<pipeline, stream, handshake, toServer, toClient>>
      /\ UNCHANGED <<bad, cache, watched, overtaken, breaks>>
  BY DEF OtherWrites, device, network, wires
<1>3. /\ log \in [Users -> Seq(AllWrites)] /\ user \in Users /\ others \in Nat
  BY <1>1, WriteBounds DEF TypeOK
<1>13. PICK x \in AllWrites : log' = [log EXCEPT ![u] = Append(@, x)]
  BY <1>3, OtherNumber
<1>4. /\ Append(log[u], x) \in Seq(AllWrites)
      /\ Longer(log[u], Append(log[u], x))
  BY <1>3, AppendFacts
<1>5. /\ log' \in [Users -> Seq(AllWrites)]
      /\ log'[user] = log[user] \/ Longer(log[user], log'[user])
  BY <1>3, <1>4, <1>13
<1>6. others' \in 0..MaxOther
  BY <1>1, <1>2, WriteBounds DEF TypeOK
<1>7. TypeOK'
  BY <1>1, <1>2, <1>5, <1>6 DEF TypeOK
<1>8. TrueAnswers(log[user], toClient, pipeline) =>
         TrueAnswers(log'[user], toClient, pipeline)
  BY <1>5, LongerAnswers
<1>9. handshake => TrueAnswers(log[user], toClient, pipeline)'
  BY <1>1, <1>2, <1>8 DEF WireInv, TrueAnswers, TrueAnswer
<1>10. WireInv'
  BY <1>1, <1>2, <1>9 DEF WireInv, InStep
<1>11. PipeInv'
  BY <1>1, <1>2 DEF PipeInv
<1>12. IssueInv'
  BY <1>1, <1>2, SameIssue
<1> QED BY <1>7, <1>10, <1>11, <1>12 DEF StoreInv

\* Neither the watch stream nor a stuttering step touches what the parts are about.
LEMMA QuietStep ==
    ASSUME StoreInv,
           UNCHANGED <<device, network, wires, log, bad, overtaken, breaks, others>>,
           cache' \in [Users -> CachedDocuments], watched' \in [Users -> Nat]
    PROVE  StoreInv'
<1>1. TypeOK /\ IssueInv /\ PipeInv /\ WireInv
  BY DEF StoreInv
<1>2. /\ UNCHANGED <<user, owner, batchId, nextId, queue, callbacks, told>>
      /\ UNCHANGED <<pipeline, stream, handshake, toServer, toClient>>
      /\ UNCHANGED <<log, bad, overtaken, breaks, others>>
  BY DEF device, network, wires
<1>3. TypeOK'
  BY <1>1, <1>2 DEF TypeOK
<1>4. handshake => TrueAnswers(log[user], toClient, pipeline)'
  BY <1>1, <1>2 DEF WireInv, TrueAnswers, TrueAnswer
<1>5. WireInv'
  BY <1>1, <1>2, <1>4 DEF WireInv, InStep
<1>6. PipeInv'
  BY <1>1, <1>2 DEF PipeInv
<1>7. IssueInv'
  BY <1>1, <1>2, SameIssue
<1> QED BY <1>3, <1>5, <1>6, <1>7 DEF StoreInv

\* The watch stream brings a version that is there.
LEMMA WatchStep ==
    ASSUME StoreInv, NEW ver, WatchDocument(ver)
    PROVE  /\ StoreInv' /\ ver \in 1..Len(log[user]) /\ ver \in Nat
           /\ UNCHANGED <<device, network, wires, log, bad, overtaken, breaks, others>>
           /\ cache' = [cache EXCEPT ![user] =
                  IF ver > @.ver \/ (ver = @.ver /\ @.committed)
                  THEN [ver |-> ver, doc |-> Document(log[user], ver),
                        committed |-> FALSE]
                  ELSE @]
           /\ \E y \in {watched[user], ver} :
                  /\ watched' = [watched EXCEPT ![user] = y]
                  /\ y \in Nat /\ y >= watched[user] /\ y >= ver
<1>1. /\ user \in Users /\ log[user] \in Seq(AllWrites)
      /\ cache \in [Users -> CachedDocuments] /\ watched \in [Users -> Nat]
  BY DEF StoreInv, TypeOK
<1>2. ver \in 1..Len(log[user])
  BY <1>1 DEF WatchDocument
<1>3. ver \in Nat
  <2>1. Len(log[user]) \in Nat
    BY <1>1, LenProperties
  <2> QED BY <1>2, <2>1
<1>4. cache' = [cache EXCEPT ![user] =
                  IF ver > @.ver \/ (ver = @.ver /\ @.committed)
                  THEN [ver |-> ver, doc |-> Document(log[user], ver),
                        committed |-> FALSE]
                  ELSE @]
  BY DEF WatchDocument, ApplyRemoteEvent, Watched
<1>5. cache' \in [Users -> CachedDocuments]
  <2> DEFINE e == [ver |-> ver, doc |-> Document(log[user], ver), committed |-> FALSE]
  <2>1. e \in CachedDocuments
    BY <1>3, DocumentTyped DEF CachedDocuments
  <2>2. cache' = [cache EXCEPT ![user] = e] \/ cache' = cache
    BY <1>1, <1>4
  <2> QED BY <1>1, <2>1, <2>2
<1>6. PICK y : /\ y \in {watched[user], ver} /\ y >= watched[user] /\ y >= ver
               /\ watched' = [watched EXCEPT ![user] = y]
  <2> DEFINE S == {watched[user], ver}
             y == Max(S)
  <2>1. S \in SUBSET Nat /\ S # {} /\ watched[user] + ver \in Nat
        /\ \A z \in S : z <= watched[user] + ver
    BY <1>1, <1>3
  <2>2. watched' = [watched EXCEPT ![user] = y]
    BY DEF WatchDocument
  <2> HIDE DEF y
  <2>3. y \in S /\ \A z \in S : z <= y
    <3> HIDE DEF S
    <3> QED BY <2>1, Greatest DEF y
  <2> QED BY <1>1, <1>3, <2>2, <2>3
<1>7. y \in Nat /\ watched' \in [Users -> Nat]
  BY <1>1, <1>3, <1>6
<1>8. UNCHANGED <<device, network, wires, log, bad, overtaken, breaks, others>>
  BY DEF WatchDocument
<1>9. StoreInv'
  BY <1>5, <1>7, <1>8, QuietStep
<1> QED BY <1>2, <1>3, <1>4, <1>6, <1>7, <1>8, <1>9

\* Nothing is written at first.
LEMMA StoreInit ==
    ASSUME Init
    PROVE  StoreInv
<1>1. user \in Users
  BY UsersAssumption DEF Init
<1>2. /\ owner = [w \in Writes |-> Nobody] /\ batchId = [w \in Writes |-> 0] /\ nextId = 1
      /\ queue = [u \in Users |-> {}] /\ callbacks = [u \in Users |-> {}]
      /\ told = [w \in Writes |-> "nothing"]
      /\ pipeline = <<>> /\ stream = Stopped /\ handshake = FALSE
      /\ toServer = <<>> /\ toClient = <<>>
      /\ log = [u \in Users |-> <<>>] /\ bad \in SUBSET Writes
      /\ cache = [u \in Users |-> [ver |-> 0, doc |-> Document(<<>>, 0),
                                   committed |-> FALSE]]
      /\ watched = [u \in Users |-> 0]
      /\ overtaken = {} /\ breaks = 0 /\ others = 0
  BY DEF Init
<1>3. Stopped \in StreamStates /\ ~IsOpen(Stopped) /\ Stopped.idle = FALSE
  BY EndedFacts
<1>4. TypeOK
  <2>1. /\ owner \in [Writes -> Users \cup {Nobody}]
        /\ batchId \in [Writes -> 0..MaxWrites] /\ nextId \in 1..(MaxWrites + 1)
        /\ queue \in [Users -> SUBSET Writes]
        /\ callbacks \in [Users -> SUBSET ((1..MaxWrites) \X Writes)]
        /\ told \in [Writes -> {"nothing", "done", "failed", "orphan"}]
    BY <1>2, WriteBounds
  <2>2. /\ pipeline \in Seq(Writes) /\ toServer \in Seq(Writes \cup {Hello})
        /\ toClient \in Seq(Responses)
        /\ log \in [Users -> Seq(AllWrites)]
    BY <1>2
  <2>3. cache \in [Users -> CachedDocuments] /\ watched \in [Users -> Nat]
    <3> DEFINE d == Document(<<>>, 0)
    <3>1. d \in [Fields -> SUBSET Nat] /\ cache = [u \in Users |-> [ver |-> 0, doc |-> d,
                                   committed |-> FALSE]]
      BY <1>2, DocumentTyped
    <3> HIDE DEF d
    <3> QED BY <1>2, <3>1 DEF CachedDocuments
  <2>4. breaks \in 0..MaxBreaks /\ others \in 0..MaxOther /\ overtaken \subseteq Writes
    BY <1>2, WriteBounds
  <2> QED BY <1>1, <1>2, <1>3, <2>1, <2>2, <2>3, <2>4 DEF TypeOK, Responses
<1>5. IssueInv
  <2>1. Issued = {}
    BY <1>2 DEF Issued
  <2>2. \A w \in Writes : nextId <= w
    BY <1>2, WriteBounds DEF Writes
  <2> QED BY <1>2, <2>1, <2>2 DEF IssueInv
<1>6. PipeInv
  <2>1. Oldest(<<>>, {}) /\ Len(<<>>) <= kMaxPendingWrites
    BY NothingOldest
  <2> QED BY <1>1, <1>2, <2>1 DEF PipeInv, Full
<1>7. WireInv
  BY <1>2, <1>3 DEF WireInv
<1> QED BY <1>4, <1>5, <1>6, <1>7 DEF StoreInv

\* The actions of the store.
LEMMA Steps ==
    ASSUME Next
    PROVE  \/ \E w \in Writes : WriteMutations(w)
           \/ OnWriteStreamOpen \/ OnWriteStreamHandshakeComplete
           \/ OnWriteStreamMutationResult \/ OnWriteStreamDenied
           \/ OnWriteStreamBroken \/ BackoffElapses \/ IdleTimeout
           \/ \E u \in Users : HandleCredentialChange(u)
           \/ \E u \in Users : OtherWrites(u)
           \/ StartProcess \/ ServeHello \/ ServeWrite
           \/ \E ver \in UNION {DOMAIN log[u] : u \in Users} : WatchDocument(ver)
BY DEF Next, OnWriteStreamResponse, ServerAnswers

\* Every step preserves the invariant.
LEMMA StoreNext ==
    ASSUME StoreInv, [Next]_vars
    PROVE  StoreInv'
<1>1. ASSUME NEW w \in Writes, WriteMutations(w) PROVE StoreInv'
  BY <1>1, WriteStep
<1>2. CASE OnWriteStreamOpen \/ OnWriteStreamHandshakeComplete
  BY <1>2, OpenStep, HandshakeStep
<1>3. CASE OnWriteStreamMutationResult \/ OnWriteStreamDenied
  BY <1>3, ResultStep, DeniedStep
<1>4. CASE OnWriteStreamBroken \/ BackoffElapses \/ IdleTimeout
  BY <1>4, BrokenStep, BackoffStep, IdleStep
<1>5. ASSUME NEW u \in Users, HandleCredentialChange(u) PROVE StoreInv'
  BY <1>5, CredentialStep
<1>6. ASSUME NEW u \in Users, OtherWrites(u) PROVE StoreInv'
  BY <1>6, OtherStep
<1>7. CASE StartProcess \/ ServeHello \/ ServeWrite
  BY <1>7, ProcessStep, HelloStep, ServeStep
<1>8. ASSUME NEW ver, WatchDocument(ver) PROVE StoreInv'
  BY <1>8, WatchStep
<1>9. CASE UNCHANGED vars
  <2>1. cache' \in [Users -> CachedDocuments] /\ watched' \in [Users -> Nat]
    BY <1>9 DEF vars, StoreInv, TypeOK
  <2> QED BY <1>9, <2>1, QuietStep DEF vars
<1> QED BY <1>1, <1>2, <1>3, <1>4, <1>5, <1>6, <1>7, <1>8, <1>9, Steps

\* The invariant holds throughout.
LEMMA StoreInductive == Spec => []StoreInv
<1>1. Init => StoreInv
  BY StoreInit
<1>2. StoreInv /\ [Next]_vars => StoreInv'
  BY StoreNext
<1> QED BY <1>1, <1>2, PTL DEF Spec

\* TypeOK: every variable keeps to its type, so that what is received from a
\* stream is never taken for another kind of response.
THEOREM TypeCorrect == Spec => []TypeOK
<1>1. StoreInv => TypeOK
  BY DEF StoreInv
<1> QED BY <1>1, StoreInductive, PTL

\* IdleMeansDrained: with nothing in a full pipeline there is nothing in the queue.
THEOREM IdleDrained == Spec => []IdleMeansDrained
<1>1. StoreInv => IdleMeansDrained
  <2> SUFFICES ASSUME StoreInv, stream.idle
               PROVE  IsOpen(stream) /\ queue[user] = {}
    BY DEF IdleMeansDrained
  <2>1. IsOpen(stream) /\ pipeline = <<>> /\ Full(pipeline, queue[user])
    BY DEF StoreInv, WireInv, PipeInv
  <2>2. pipeline \in Seq(Writes)
    BY PipelineFacts
  <2> QED BY <2>1, <2>2, FullNotEmpty
<1> QED BY <1>1, StoreInductive, PTL

\* PipelineIsOldest: a full pipeline of the oldest writes is the beginning of the
\* queue in the order of issue.
THEOREM PipelineOldest == Spec => []PipelineIsOldest
<1>1. StoreInv => PipelineIsOldest
  <2> SUFFICES ASSUME StoreInv PROVE PipelineIsOldest
    OBVIOUS
  <2> DEFINE m == InOrder(ByIssue, queue[user])
  <2>1. /\ pipeline \in Seq(Writes) /\ queue[user] \in SUBSET Writes
        /\ Oldest(pipeline, queue[user]) /\ Full(pipeline, queue[user])
    BY PipelineFacts DEF StoreInv, PipeInv
  <2>2. m = InOrder(ByIssue, queue[user])
    OBVIOUS
  <2> HIDE DEF m
  <2>3. pipeline = SubSeq(m, 1, Min({Len(m), kMaxPendingWrites}))
    BY <2>1, <2>2, OldestIsFirst
  <2> QED BY <2>2, <2>3 DEF PipelineIsOldest, ByIssue
<1> QED BY <1>1, StoreInductive, PTL

-----------------------------------------------------------------------------
(* The callbacks. *)

\* Every step that does not say otherwise leaves the callers alone.
Callers == <<owner, batchId, queue, callbacks, told>>

\* What an acknowledgement does.
LEMMA ResultFacts ==
    ASSUME StoreInv, OnWriteStreamMutationResult
    PROVE  /\ pipeline # <<>> /\ user \in Users /\ handshake
           /\ queue' = [queue EXCEPT ![user] = @ \ {Head(pipeline)}]
           /\ UNCHANGED <<user, owner, batchId, nextId>>
           /\ UNCHANGED <<handshake, log, bad, overtaken, breaks, others>>
           /\ NotifyUser(batchId[Head(pipeline)], "done")
           /\ ApplyBatchResult(Head(pipeline), Head(toClient).ver)
           /\ Head(toClient).ver \in 1..Len(log[user])
           /\ log[user][Head(toClient).ver] = Head(pipeline)
<1>1. toClient # <<>> /\ Head(toClient).type = "done"
  BY DEF OnWriteStreamMutationResult, Receive
<1>2. /\ pipeline # <<>> /\ handshake
      /\ TrueAnswer(log[user], Head(toClient), Head(pipeline))
  BY <1>1, FirstResponse
<1>3. user \in Users
  BY PipelineFacts
<1> QED BY <1>1, <1>2, <1>3 DEF OnWriteStreamMutationResult, TrueAnswer

\* What a rejection does.
LEMMA DeniedFacts ==
    ASSUME StoreInv, OnWriteStreamDenied
    PROVE  /\ pipeline # <<>> /\ user \in Users /\ handshake
           /\ queue' = [queue EXCEPT ![user] = @ \ {Head(pipeline)}]
           /\ UNCHANGED <<user, owner, batchId, nextId>>
           /\ toClient' = <<>> /\ handshake' = FALSE
           /\ UNCHANGED <<log, bad, cache, watched, breaks, others>>
           /\ NotifyUser(batchId[Head(pipeline)], "failed")
           /\ Len(toClient) \in 1..Len(pipeline)
           /\ \/ /\ Head(pipeline) \in bad /\ Len(toClient) = 1
                 /\ overtaken' = overtaken
              \/ /\ Len(toClient) > 1
                 /\ overtaken' = overtaken \cup {Head(pipeline)}
<1>1. toClient # <<>> /\ Last(toClient).type = "denied"
  BY DEF OnWriteStreamDenied, HasEnded
<1>2. /\ pipeline # <<>> /\ handshake /\ Len(toClient) \in Nat /\ Len(toClient) >= 1
      /\ Len(toClient) \in 1..Len(pipeline)
      /\ TrueAnswer(log[user], Last(toClient), pipeline[Len(toClient)])
  BY <1>1, FirstResponse
<1>3. user \in Users /\ Head(pipeline) = pipeline[1]
  BY <1>2, PipelineFacts, HeadTailProperties
<1>4. Len(toClient) = 1 => Head(pipeline) \in bad
  BY <1>1, <1>2, <1>3 DEF TrueAnswer
<1>5. /\ queue' = [queue EXCEPT ![user] = @ \ {Head(pipeline)}]
      /\ UNCHANGED <<user, owner, batchId, nextId>>
      /\ toClient' = <<>> /\ handshake' = FALSE
      /\ UNCHANGED <<log, bad, cache, watched, breaks, others>>
      /\ NotifyUser(batchId[Head(pipeline)], "failed")
      /\ overtaken' = IF Len(toClient) > 1 THEN overtaken \cup {Head(pipeline)}
                      ELSE overtaken
  BY DEF OnWriteStreamDenied, HandleWriteError
<1>6. Len(toClient) = 1 \/ Len(toClient) > 1
  BY <1>2
<1> QED BY <1>2, <1>3, <1>4, <1>5, <1>6

\* Only the caller of the write that left is told of it, and loses its callback.
LEMMA NotifyCaller ==
    ASSUME StoreInv, CallbackMatches, NEW h \in queue[user], NEW status,
           NotifyUser(batchId[h], status)
    PROVE  /\ \A u \in Users : callbacks'[u] \subseteq callbacks[u]
           /\ \A u \in Users : u # user => callbacks'[u] = callbacks[u]
           /\ \A c \in callbacks'[user] : c[2] # h
           /\ \A c \in callbacks[user] : c[2] = h \/ c \in callbacks'[user]
           /\ \A w \in Writes : w # h => told'[w] = told[w]
           /\ told'[h] \in {told[h], status}
           /\ <<batchId[h], h>> \in callbacks[user] => told'[h] = status
<1> DEFINE found == {c \in callbacks[user] : c[1] = batchId[h]}
<1>1. /\ callbacks \in [Users -> SUBSET ((1..MaxWrites) \X Writes)] /\ user \in Users
      /\ batchId \in [Writes -> 0..MaxWrites] /\ queue[user] \in SUBSET Writes
      /\ told \in [Writes -> {"nothing", "done", "failed", "orphan"}]
      /\ \A v, w \in queue[user] : v < w => batchId[v] < batchId[w]
  BY PipelineFacts DEF StoreInv, TypeOK, IssueInv
<1>2. /\ callbacks' = [callbacks EXCEPT ![user] = @ \ found]
      /\ told' = [w \in Writes |-> IF \E c \in found : c[2] = w THEN status ELSE told[w]]
  BY DEF NotifyUser
<1>3. \A c \in callbacks[user] : c[2] \in queue[user] /\ batchId[c[2]] = c[1]
  BY <1>1 DEF CallbackMatches
<1>4. ASSUME NEW v \in queue[user], batchId[v] = batchId[h] PROVE v = h
  <2>1. v \in Nat /\ h \in Nat /\ batchId[v] \in Nat
    BY <1>1, WriteBounds DEF Writes
  <2>2. ~(v < h) /\ ~(h < v)
    BY <1>1, <1>4, <2>1
  <2> QED BY <2>1, <2>2
<1>5. \A c \in callbacks[user] : c \in found <=> c[2] = h
  BY <1>3, <1>4
<1>6. found \subseteq callbacks[user]
  OBVIOUS
<1>7. <<batchId[h], h>> \in callbacks[user] => \E c \in found : c[2] = h
  OBVIOUS
<1>8. h \in Writes
  BY <1>1
<1> HIDE DEF found
<1> QED BY <1>1, <1>2, <1>5, <1>6, <1>7, <1>8

\* A write that leaves takes its callback along.
LEMMA LeaveCallbacks ==
    ASSUME StoreInv, CallbackMatches, NEW status \in {"done", "failed"},
           pipeline # <<>>,
           queue' = [queue EXCEPT ![user] = @ \ {Head(pipeline)}],
           UNCHANGED <<user, owner, batchId, nextId>>,
           NotifyUser(batchId[Head(pipeline)], status)
    PROVE  CallbackMatches'
<1> DEFINE h == Head(pipeline)
<1>1. h \in queue[user] /\ queue \in [Users -> SUBSET Writes] /\ user \in Users
      /\ owner[h] = user /\ h \in Writes
  BY LeaveFacts, PipelineFacts DEF StoreInv, TypeOK
<1>2. queue' = [queue EXCEPT ![user] = @ \ {h}] /\ NotifyUser(batchId[h], status)
  OBVIOUS
<1> HIDE DEF h
<1>3. /\ \A u \in Users : callbacks'[u] \subseteq callbacks[u]
      /\ \A u \in Users : u # user => callbacks'[u] = callbacks[u]
      /\ \A c \in callbacks'[user] : c[2] # h
      /\ \A c \in callbacks[user] : c[2] = h \/ c \in callbacks'[user]
      /\ \A w \in Writes : w # h => told'[w] = told[w]
      /\ told'[h] \in {told[h], status}
      /\ <<batchId[h], h>> \in callbacks[user] => told'[h] = status
  BY <1>1, <1>2, NotifyCaller
<1>4. /\ \A u \in Users : u # user => queue'[u] = queue[u]
      /\ queue'[user] = queue[user] \ {h}
  BY <1>1, <1>2
<1>5. ASSUME NEW u \in Users, NEW c \in callbacks'[u]
      PROVE  c[2] \in queue'[u] /\ batchId'[c[2]] = c[1]
  <2>1. c \in callbacks[u]
    BY <1>3
  <2>2. c[2] \in queue[u] /\ batchId[c[2]] = c[1]
    BY <2>1 DEF CallbackMatches
  <2> QED BY <1>3, <1>4, <2>2
<1>6. ASSUME NEW u \in Users, NEW w \in Writes, owner'[w] = u, told'[w] = "nothing"
      PROVE  <<batchId'[w], w>> \in callbacks'[u]
  <2>1. w # h
    <3> SUFFICES ASSUME w = h PROVE FALSE
      OBVIOUS
    <3>1. u = user /\ told'[h] # status
      BY <1>1, <1>6
    <3>2. told[h] = "nothing"
      BY <1>3, <1>6, <3>1
    <3>3. <<batchId[h], h>> \in callbacks[user]
      BY <1>1, <3>2 DEF CallbackMatches
    <3> QED BY <1>3, <3>1, <3>3
  <2>2. <<batchId[w], w>> \in callbacks[u]
    BY <1>3, <1>6, <2>1 DEF CallbackMatches
  <2>3. <<batchId[w], w>>[2] # h
    BY <2>1
  <2>4. CASE u = user
    BY <1>3, <2>2, <2>3, <2>4
  <2>5. CASE u # user
    BY <1>3, <2>2, <2>5
  <2> QED BY <2>4, <2>5
<1> QED BY <1>5, <1>6 DEF CallbackMatches

\* A write that is issued leaves its callback.
LEMMA WriteCallbacks ==
    ASSUME StoreInv, CallbackMatches, NEW w \in Writes, WriteMutations(w)
    PROVE  CallbackMatches'
<1>1. TypeOK /\ IssueInv
  BY DEF StoreInv
<1>2. /\ owner'[w] = user /\ queue' \in [Users -> SUBSET Writes]
      /\ queue'[user] = queue[user] \cup {w}
      /\ w \notin Issued /\ user \in Users
  BY <1>1, WriteIssue
<1>3. \A u \in Users : w \notin queue[u]
  BY <1>1, <1>2, NewestFacts
<1>4. /\ owner \in [Writes -> Users \cup {Nobody}]
      /\ batchId \in [Writes -> 0..MaxWrites] /\ queue \in [Users -> SUBSET Writes]
      /\ callbacks \in [Users -> SUBSET ((1..MaxWrites) \X Writes)]
      /\ owner' = [owner EXCEPT ![w] = user]
      /\ batchId' = [batchId EXCEPT ![w] = nextId]
      /\ queue' = [queue EXCEPT ![user] = @ \cup {w}]
      /\ callbacks' = [callbacks EXCEPT ![user] = @ \cup {<<nextId, w>>}]
      /\ told' = told
  BY <1>1 DEF TypeOK, WriteMutations
<1>5. /\ \A v \in Writes : v # w => owner'[v] = owner[v] /\ batchId'[v] = batchId[v]
      /\ batchId'[w] = nextId
      /\ \A u \in Users : u # user => queue'[u] = queue[u] /\ callbacks'[u] = callbacks[u]
      /\ callbacks'[user] = callbacks[user] \cup {<<nextId, w>>}
  BY <1>2, <1>4
<1>6. ASSUME NEW u \in Users, NEW c \in callbacks'[u]
      PROVE  c[2] \in queue'[u] /\ batchId'[c[2]] = c[1]
  <2>1. CASE c \in callbacks[u]
    <3>1. c[2] \in queue[u] /\ batchId[c[2]] = c[1] /\ c[2] \in Writes
      BY <1>4, <2>1 DEF CallbackMatches
    <3>2. c[2] # w
      BY <1>3, <3>1
    <3> QED BY <1>2, <1>5, <3>1, <3>2
  <2>2. CASE c \notin callbacks[u]
    <3>1. u = user /\ c = <<nextId, w>>
      BY <1>5, <2>2
    <3> QED BY <1>2, <1>5, <3>1
  <2> QED BY <2>1, <2>2
<1>7. ASSUME NEW u \in Users, NEW v \in Writes, owner'[v] = u, told'[v] = "nothing"
      PROVE  <<batchId'[v], v>> \in callbacks'[u]
  <2>1. CASE v = w
    <3>1. u = user
      BY <1>2, <1>7, <2>1
    <3> QED BY <1>5, <2>1, <3>1
  <2>2. CASE v # w
    <3>1. <<batchId[v], v>> \in callbacks[u]
      BY <1>4, <1>5, <1>7, <2>2 DEF CallbackMatches
    <3> QED BY <1>5, <2>2, <3>1
  <2> QED BY <2>1, <2>2
<1> QED BY <1>6, <1>7 DEF CallbackMatches

\* Every step preserves the match of the callbacks.
LEMMA CallbacksNext ==
    ASSUME StoreInv, CallbackMatches, [Next]_vars
    PROVE  CallbackMatches'
<1>1. ASSUME NEW w \in Writes, WriteMutations(w) PROVE CallbackMatches'
  BY <1>1, WriteCallbacks
<1>2. CASE OnWriteStreamMutationResult
  BY <1>2, ResultFacts, LeaveCallbacks
<1>3. CASE OnWriteStreamDenied
  BY <1>3, DeniedFacts, LeaveCallbacks
<1>4. CASE StartProcess
  <2>1. /\ callbacks' = [u \in Users |-> {}] /\ owner' = owner
        /\ told' = [w \in Writes |-> IF w \in Issued /\ told[w] = "nothing"
                                     THEN "orphan" ELSE told[w]]
    BY <1>4 DEF StartProcess
  <2>2. ASSUME NEW u \in Users, NEW w \in Writes, owner[w] = u PROVE told'[w] # "nothing"
    <3>1. w \in Issued
      BY <2>2, UsersAssumption DEF Issued
    <3> QED BY <2>1, <3>1
  <2> QED BY <2>1, <2>2 DEF CallbackMatches
<1>5. UNCHANGED Callers => CallbackMatches'
  BY DEF Callers, CallbackMatches
<1>6. ASSUME NEW u \in Users, HandleCredentialChange(u) PROVE UNCHANGED Callers
  BY <1>6 DEF HandleCredentialChange, Callers
<1>7. ASSUME NEW u \in Users, OtherWrites(u) PROVE UNCHANGED Callers
  BY <1>7 DEF OtherWrites, Callers, device
<1>8. ASSUME NEW ver, WatchDocument(ver) PROVE UNCHANGED Callers
  BY <1>8 DEF WatchDocument, Callers, device
<1>9. CASE OnWriteStreamOpen \/ OnWriteStreamHandshakeComplete
  BY <1>5, <1>9 DEF OnWriteStreamOpen, OnWriteStreamHandshakeComplete, device, Callers
<1>10. CASE OnWriteStreamBroken \/ BackoffElapses \/ IdleTimeout
  BY <1>5, <1>10 DEF OnWriteStreamBroken, BackoffElapses, IdleTimeout, device, Callers
<1>11. CASE ServeHello
  BY <1>5, <1>11 DEF ServeHello, Serve, device, Callers
<1>12. CASE ServeWrite
  BY <1>5, <1>12, ServeFacts DEF Callers
<1>13. CASE UNCHANGED vars
  BY <1>5, <1>13 DEF vars, device, Callers
<1> QED BY <1>1, <1>2, <1>3, <1>4, <1>5, <1>6, <1>7, <1>8, <1>9, <1>10, <1>11,
           <1>12, <1>13, Steps

\* CallbackMatches: no caller that waits has lost its callback, and NotifyUser
\* finds it under the id of its own batch.
THEOREM CallbacksMatch == Spec => []CallbackMatches
<1>1. Init => CallbackMatches
  <2> SUFFICES ASSUME Init PROVE CallbackMatches
    OBVIOUS
  <2>1. /\ callbacks = [u \in Users |-> {}] /\ owner = [w \in Writes |-> Nobody]
    BY DEF Init
  <2> QED BY <2>1, UsersAssumption DEF CallbackMatches
<1>2. StoreInv /\ CallbackMatches /\ [Next]_vars => CallbackMatches'
  BY CallbacksNext
<1> QED BY <1>1, <1>2, StoreInductive, PTL DEF Spec

-----------------------------------------------------------------------------
(* What is read from the cache. *)

\* The log m has all that the log l has, at the same places.
Grown(l, m) ==
    /\ Len(l) \in Nat /\ Len(m) \in Nat /\ Len(l) <= Len(m)
    /\ \A i \in 1..Len(l) : m[i] = l[i]

\* A log that stays, or gets one entry more.
LEMMA GrownFacts ==
    ASSUME NEW S, NEW l \in Seq(S)
    PROVE  Grown(l, l) /\ \A x \in S : Grown(l, Append(l, x))
<1>1. Len(l) \in Nat
  BY LenProperties
<1>2. ASSUME NEW x \in S PROVE Grown(l, Append(l, x))
  BY <1>1, AppendFacts DEF Grown, Longer
<1> QED BY <1>1, <1>2 DEF Grown

\* A field of a version is made of changes to that field.
LEMMA DocumentSound ==
    ASSUME NEW l, NEW n \in Nat, NEW f \in Fields, NEW v \in Document(l, n)[f]
    PROVE  v \in 1..n /\ Field[l[v]] = f
BY DEF Document

\* A version of a document holds all that was done up to it.
LEMMA DocumentHolds ==
    ASSUME NEW l, NEW n \in Nat, NEW v \in 1..n, NEW f \in Fields, Field[l[v]] = f
    PROVE  Holds(Document(l, n), f, v)
<1> DEFINE S == {k \in 1..n : Field[l[k]] = f}
<1>1. v \in S /\ S \in SUBSET Nat /\ (\A k \in S : k <= n) /\ S # {} /\ v \in Nat
  OBVIOUS
<1>2. Document(l, n)[f] = IF f \in ArrayFields THEN S
                          ELSE {k \in S : \A x \in S : x <= k}
  BY DEF Document
<1> DEFINE D == Document(l, n)[f]
<1>3. D = IF f \in ArrayFields THEN S ELSE {k \in S : \A x \in S : x <= k}
  BY <1>2
<1> HIDE DEF S
<1>4. CASE f \in ArrayFields
  BY <1>1, <1>3, <1>4 DEF Holds
<1>5. CASE f \notin ArrayFields
  <2>1. Max(S) \in S /\ \A x \in S : x <= Max(S)
    BY <1>1, Greatest
  <2>2. PICK g \in S : \A x \in S : x <= g
    BY <2>1
  <2>3. g \in D /\ v <= g /\ g \in Nat
    BY <1>1, <1>3, <1>5, <2>2
  <2>4. v \in D \/ g > v
    BY <1>1, <2>3
  <2> QED BY <1>5, <2>3, <2>4 DEF Holds
<1> QED BY <1>4, <1>5

\* A version stays what it is while the log grows.
LEMMA DocumentSame ==
    ASSUME NEW l, NEW m, Grown(l, m), NEW n \in 0..Len(l)
    PROVE  Document(m, n) = Document(l, n)
<1>1. Len(l) \in Nat /\ \A k \in 1..n : m[k] = l[k]
  BY DEF Grown
<1>2. ASSUME NEW f \in Fields
      PROVE  {v \in 1..n : Field[m[v]] = f} = {v \in 1..n : Field[l[v]] = f}
  BY <1>1
<1> QED BY <1>2 DEF Document

\* The cached document c is of the version c.ver, unless writes were applied to
\* it; and then the watch stream, which brought the version x, is not that far.
CacheSound(l, c, x) ==
    /\ c.ver \in 0..Len(l)
    /\ \A f \in Fields : \A v \in c.doc[f] : v \in 1..c.ver /\ Field[l[v]] = f
    /\ ~c.committed => c.doc = Document(l, c.ver)
    /\ x <= c.ver /\ (c.committed => x < c.ver)

\* The document d is c with a write applied to it, which made a later version.
Patched(l, c, d) ==
    \E w \in Writes, ver \in 1..Len(l) :
        /\ c.ver < ver /\ l[ver] = w
        /\ d = [ver |-> ver, doc |-> ApplyToRemoteDocument(c.doc, w, ver),
                committed |-> TRUE]

\* The document d is a version that replaces c, and y the newest that was brought.
Brought(l, c, d, x, y) ==
    \E ver \in 1..Len(l) :
        /\ c.ver < ver \/ (c.ver = ver /\ c.committed)
        /\ d = [ver |-> ver, doc |-> Document(l, ver), committed |-> FALSE]
        /\ y \in {x, ver}

\* What may become of the document c, of which x is the newest version brought.
Newer(l, c, d, x, y) ==
    \/ d = c /\ y = x
    \/ d = c /\ y <= c.ver /\ (c.committed => y < c.ver)
    \/ Patched(l, c, d) /\ y = x
    \/ Brought(l, c, d, x, y)

\* Nothing that the document c holds is lost in the document d.
Keeps(c, d) == \A f \in Fields : \A v \in c.doc[f] : Holds(d.doc, f, v)

\* A document that writes are applied to keeps what it has.
LEMMA PatchedKeeps ==
    ASSUME NEW l, Len(l) \in Nat, NEW c \in CachedDocuments, NEW d \in CachedDocuments,
           NEW x \in Nat, CacheSound(l, c, x), Patched(l, c, d)
    PROVE  CacheSound(l, d, x) /\ Keeps(c, d)
<1>1. PICK w \in Writes, ver \in 1..Len(l) :
        /\ c.ver < ver /\ l[ver] = w
        /\ d = [ver |-> ver, doc |-> ApplyToRemoteDocument(c.doc, w, ver),
                committed |-> TRUE]
  BY DEF Patched
<1>2. /\ c.ver \in Nat /\ ver \in Nat /\ Field[w] \in Fields
      /\ d.ver = ver /\ d.committed = TRUE
      /\ d.doc = ApplyToRemoteDocument(c.doc, w, ver)
      /\ c.doc \in [Fields -> SUBSET Nat]
  BY <1>1, WriteNumbers DEF CachedDocuments
<1>3. /\ \A f \in Fields : f # Field[w] => d.doc[f] = c.doc[f]
      /\ d.doc[Field[w]] = IF Field[w] \in ArrayFields THEN c.doc[Field[w]] \cup {ver}
                           ELSE {ver}
  BY <1>2 DEF ApplyToRemoteDocument
<1>4. /\ c.ver \in 0..Len(l) /\ x <= c.ver
      /\ \A f \in Fields : \A v \in c.doc[f] : v \in 1..c.ver /\ Field[l[v]] = f
  BY DEF CacheSound
<1>5. ASSUME NEW f \in Fields, NEW v \in d.doc[f]
      PROVE  v \in 1..ver /\ Field[l[v]] = f
  <2>1. v \in c.doc[f] \/ (v = ver /\ f = Field[w])
    BY <1>3, <1>5
  <2>2. CASE v \in c.doc[f]
    <3>1. v \in 1..c.ver /\ Field[l[v]] = f
      BY <1>4, <2>2
    <3> QED BY <1>1, <1>2, <3>1
  <2>3. CASE v = ver /\ f = Field[w]
    BY <1>1, <1>2, <2>3
  <2> QED BY <2>1, <2>2, <2>3
<1>6. x <= ver /\ x < ver
  BY <1>1, <1>2, <1>4
<1>7. CacheSound(l, d, x)
  BY <1>1, <1>2, <1>5, <1>6 DEF CacheSound
<1>8. ASSUME NEW f \in Fields, NEW v \in c.doc[f] PROVE Holds(d.doc, f, v)
  <2>1. v \in Nat /\ v < ver
    BY <1>1, <1>2, <1>4, <1>8
  <2>2. CASE v \in d.doc[f]
    BY <2>2 DEF Holds
  <2>3. CASE v \notin d.doc[f]
    <3>1. f = Field[w] /\ f \notin ArrayFields /\ ver \in d.doc[f] /\ ver > v
      BY <1>2, <1>3, <1>8, <2>1, <2>3
    <3> QED BY <3>1 DEF Holds
  <2> QED BY <2>2, <2>3
<1> QED BY <1>7, <1>8 DEF Keeps

\* So does one that a version replaces.
LEMMA BroughtKeeps ==
    ASSUME NEW l, Len(l) \in Nat, NEW c \in CachedDocuments, NEW d \in CachedDocuments,
           NEW x \in Nat, NEW y \in Nat, CacheSound(l, c, x), Brought(l, c, d, x, y)
    PROVE  CacheSound(l, d, y) /\ Keeps(c, d)
<1>1. PICK ver \in 1..Len(l) :
        /\ c.ver < ver \/ (c.ver = ver /\ c.committed)
        /\ d = [ver |-> ver, doc |-> Document(l, ver), committed |-> FALSE]
        /\ y \in {x, ver}
  BY DEF Brought
<1>2. /\ c.ver \in Nat /\ ver \in Nat /\ c.ver <= ver
      /\ d.ver = ver /\ d.committed = FALSE /\ d.doc = Document(l, ver)
  BY <1>1 DEF CachedDocuments
<1>3. /\ x <= c.ver
      /\ \A f \in Fields : \A v \in c.doc[f] : v \in 1..c.ver /\ Field[l[v]] = f
  BY DEF CacheSound
<1>4. y <= ver
  BY <1>1, <1>2, <1>3
<1>5. \A f \in Fields : \A v \in d.doc[f] : v \in 1..ver /\ Field[l[v]] = f
  BY <1>2, DocumentSound
<1>6. CacheSound(l, d, y)
  BY <1>1, <1>2, <1>4, <1>5 DEF CacheSound
<1>7. ASSUME NEW f \in Fields, NEW v \in c.doc[f] PROVE Holds(d.doc, f, v)
  <2>1. v \in 1..ver /\ Field[l[v]] = f
    <3>1. v \in 1..c.ver /\ Field[l[v]] = f
      BY <1>3, <1>7
    <3> QED BY <1>2, <3>1
  <2>2. Holds(Document(l, ver), f, v)
    BY <1>2, <2>1, DocumentHolds
  <2> QED BY <1>2, <2>2
<1> QED BY <1>6, <1>7 DEF Keeps

\* A sound document stays so in a log that grows.
LEMMA SoundGrown ==
    ASSUME NEW l, NEW m, Grown(l, m), NEW d \in CachedDocuments, NEW y \in Nat,
           CacheSound(l, d, y)
    PROVE  CacheSound(m, d, y)
<1>1. /\ Len(l) \in Nat /\ Len(m) \in Nat /\ Len(l) <= Len(m)
      /\ \A i \in 1..Len(l) : m[i] = l[i]
  BY DEF Grown
<1>2. /\ d.ver \in 0..Len(l) /\ d.ver \in Nat
      /\ \A f \in Fields : \A v \in d.doc[f] : v \in 1..d.ver /\ Field[l[v]] = f
      /\ ~d.committed => d.doc = Document(l, d.ver)
      /\ y <= d.ver /\ (d.committed => y < d.ver)
  BY DEF CacheSound, CachedDocuments
<1>3. d.ver \in 0..Len(m)
  BY <1>1, <1>2
<1>4. ASSUME NEW f \in Fields, NEW v \in d.doc[f]
      PROVE  v \in 1..d.ver /\ Field[m[v]] = f
  <2>1. v \in 1..d.ver /\ Field[l[v]] = f
    BY <1>2, <1>4
  <2>2. m[v] = l[v]
    BY <1>1, <1>2, <2>1
  <2> QED BY <2>1, <2>2
<1>5. Document(m, d.ver) = Document(l, d.ver)
  BY <1>2, DocumentSame
<1> QED BY <1>2, <1>3, <1>4, <1>5 DEF CacheSound

\* What becomes of a document is sound, and keeps what was read.
LEMMA CacheStep ==
    ASSUME NEW l, NEW m, Grown(l, m), NEW c \in CachedDocuments,
           NEW d \in CachedDocuments, NEW x \in Nat, NEW y \in Nat,
           CacheSound(l, c, x), Newer(l, c, d, x, y)
    PROVE  CacheSound(m, d, y) /\ Keeps(c, d)
<1>1. Len(l) \in Nat
  BY DEF Grown
<1>2. CacheSound(l, d, y) /\ Keeps(c, d)
  <2>1. CASE d = c /\ (y = x \/ (y <= c.ver /\ (c.committed => y < c.ver)))
    BY <2>1 DEF CacheSound, Keeps, Holds
  <2>2. CASE Patched(l, c, d) /\ y = x
    BY <1>1, <2>2, PatchedKeeps
  <2>3. CASE Brought(l, c, d, x, y)
    BY <1>1, <2>3, BroughtKeeps
  <2> QED BY <2>1, <2>2, <2>3 DEF Newer
<1>3. CacheSound(m, d, y)
  BY <1>2, SoundGrown
<1> QED BY <1>2, <1>3

\* What a document holds stays held.
LEMMA HoldsKept ==
    ASSUME NEW c \in CachedDocuments, NEW d \in CachedDocuments, Keeps(c, d),
           NEW f \in Fields, NEW v \in Nat, Holds(c.doc, f, v)
    PROVE  Holds(d.doc, f, v)
<1>1. c.doc[f] \subseteq Nat /\ d.doc[f] \subseteq Nat
  BY DEF CachedDocuments
<1>2. CASE v \in c.doc[f]
  BY <1>2 DEF Keeps
<1>3. CASE v \notin c.doc[f]
  <2>1. f \notin ArrayFields
    BY <1>3 DEF Holds
  <2>2. PICK x \in c.doc[f] : x > v
    BY <1>3 DEF Holds
  <2>3. Holds(d.doc, f, x)
    BY DEF Keeps
  <2>4. x \in d.doc[f] \/ \E z \in d.doc[f] : z > x
    BY <2>3 DEF Holds
  <2>5. \E z \in d.doc[f] : z > v
    BY <1>1, <2>2, <2>4
  <2> QED BY <2>1, <2>5 DEF Holds
<1> QED BY <1>2, <1>3

\* Logs and caches move forward only, and so do the verdicts.
Forward ==
    /\ \A u \in Users : Grown(log[u], log'[u])
    /\ \A u \in Users : Newer(log[u], cache[u], cache'[u], watched[u], watched'[u])
    /\ bad' = bad /\ overtaken \subseteq overtaken'

\* With neither logs nor caches touched.
LEMMA SameVersions ==
    ASSUME TypeOK, UNCHANGED <<log, cache, watched, bad>>, overtaken \subseteq overtaken'
    PROVE  Forward
<1>1. ASSUME NEW u \in Users PROVE Grown(log[u], log'[u])
  <2>1. log[u] \in Seq(AllWrites) /\ log'[u] = log[u]
    BY DEF TypeOK
  <2> QED BY <2>1, GrownFacts
<1> QED BY <1>1 DEF Forward, Newer

\* An acknowledgement: the document that is cached is patched, if it is older.
LEMMA ResultForward ==
    ASSUME StoreInv, OnWriteStreamMutationResult, NEW h \in Writes, h = Head(pipeline),
           NEW v, v = Head(toClient).ver
    PROVE  /\ v \in 1..Len(log[user]) /\ log[user][v] = h /\ v \in Nat
           /\ UNCHANGED <<log, bad, watched, overtaken, user>>
           /\ cache' = [cache EXCEPT ![user] =
                 IF @.ver < v
                 THEN [ver |-> v, doc |-> ApplyToRemoteDocument(@.doc, h, v),
                       committed |-> TRUE]
                 ELSE @]
           /\ Forward
<1>1. /\ UNCHANGED <<log, bad, watched, overtaken, user>>
      /\ v \in 1..Len(log[user]) /\ log[user][v] = h
      /\ ApplyBatchResult(h, v)
  BY ResultFacts DEF OnWriteStreamMutationResult
<1>2. /\ log \in [Users -> Seq(AllWrites)] /\ user \in Users
      /\ cache \in [Users -> CachedDocuments]
  BY DEF StoreInv, TypeOK
<1>3. cache' = [cache EXCEPT ![user] =
                 IF @.ver < v
                 THEN [ver |-> v, doc |-> ApplyToRemoteDocument(@.doc, h, v),
                       committed |-> TRUE]
                 ELSE @]
  BY <1>1 DEF ApplyBatchResult
<1>4. ASSUME NEW u \in Users
      PROVE  Newer(log[u], cache[u], cache'[u], watched[u], watched'[u])
  <2>1. CASE u # user \/ ~(cache[user].ver < v)
    <3>1. cache'[u] = cache[u] /\ watched'[u] = watched[u]
      BY <1>1, <1>2, <1>3, <2>1
    <3> QED BY <3>1 DEF Newer
  <2>2. CASE u = user /\ cache[user].ver < v
    <3>1. /\ cache'[u] = [ver |-> v, doc |-> ApplyToRemoteDocument(cache[u].doc, h, v),
                          committed |-> TRUE]
          /\ watched'[u] = watched[u]
      BY <1>1, <1>2, <1>3, <2>2
    <3>2. Patched(log[u], cache[u], cache'[u])
      BY <1>1, <2>2, <3>1 DEF Patched
    <3> QED BY <3>1, <3>2 DEF Newer
  <2> QED BY <2>1, <2>2
<1>5. ASSUME NEW u \in Users PROVE Grown(log[u], log'[u])
  <2>1. log[u] \in Seq(AllWrites) /\ log'[u] = log[u]
    BY <1>1, <1>2
  <2> QED BY <2>1, GrownFacts
<1>6. Forward
  BY <1>1, <1>4, <1>5 DEF Forward
<1>7. v \in Nat
  <2>1. log[user] \in Seq(AllWrites)
    BY <1>2
  <2>2. Len(log[user]) \in Nat
    BY <2>1, LenProperties
  <2> QED BY <1>1, <2>2
<1> QED BY <1>1, <1>3, <1>6, <1>7

\* A document from the watch stream: it replaces the one that is cached, or the
\* latter is newer, or the same.
LEMMA WatchForward ==
    ASSUME StoreInv, NEW ver, WatchDocument(ver)
    PROVE  Forward
<1>1. /\ UNCHANGED <<log, bad, overtaken>> /\ ver \in 1..Len(log[user]) /\ ver \in Nat
      /\ cache' = [cache EXCEPT ![user] =
             IF ver > @.ver \/ (ver = @.ver /\ @.committed)
             THEN [ver |-> ver, doc |-> Document(log[user], ver), committed |-> FALSE]
             ELSE @]
  BY WatchStep
<1>2. PICK y \in {watched[user], ver} : watched' = [watched EXCEPT ![user] = y]
  BY WatchStep
<1>3. /\ log \in [Users -> Seq(AllWrites)] /\ user \in Users
      /\ cache \in [Users -> CachedDocuments] /\ watched \in [Users -> Nat]
  BY DEF StoreInv, TypeOK
<1>4. cache[user].ver \in Nat /\ cache[user].committed \in BOOLEAN
  BY <1>3 DEF CachedDocuments
<1>5. ASSUME NEW u \in Users
      PROVE  Newer(log[u], cache[u], cache'[u], watched[u], watched'[u])
  <2>1. CASE u # user
    <3>1. cache'[u] = cache[u] /\ watched'[u] = watched[u]
      BY <1>1, <1>2, <1>3, <2>1
    <3> QED BY <3>1 DEF Newer
  <2>2. CASE u = user /\ ~(ver > cache[u].ver \/ (ver = cache[u].ver /\ cache[u].committed))
    <3>1. cache'[u] = cache[u] /\ watched'[u] \in {watched[u], ver}
      BY <1>1, <1>2, <1>3, <2>2
    <3>2. ver <= cache[u].ver /\ (cache[u].committed => ver < cache[u].ver)
      BY <1>1, <1>4, <2>2
    <3> QED BY <3>1, <3>2 DEF Newer
  <2>3. CASE u = user /\ (ver > cache[u].ver \/ (ver = cache[u].ver /\ cache[u].committed))
    <3>1. /\ cache'[u] = [ver |-> ver, doc |-> Document(log[u], ver),
                          committed |-> FALSE]
          /\ watched'[u] \in {watched[u], ver}
      BY <1>1, <1>2, <1>3, <2>3
    <3>2. cache[u].ver < ver \/ (cache[u].ver = ver /\ cache[u].committed)
      BY <1>1, <1>4, <2>3
    <3>3. Brought(log[u], cache[u], cache'[u], watched[u], watched'[u])
      BY <1>1, <2>3, <3>1, <3>2 DEF Brought
    <3> QED BY <3>3 DEF Newer
  <2> QED BY <2>1, <2>2, <2>3
<1>6. ASSUME NEW u \in Users PROVE Grown(log[u], log'[u])
  <2>1. log[u] \in Seq(AllWrites) /\ log'[u] = log[u]
    BY <1>1, <1>3
  <2> QED BY <2>1, GrownFacts
<1> QED BY <1>1, <1>5, <1>6 DEF Forward

\* Every step is a step forward.
LEMMA ForwardNext ==
    ASSUME StoreInv, [Next]_vars
    PROVE  Forward
<1>1. TypeOK
  BY DEF StoreInv
<1>2. /\ log \in [Users -> Seq(AllWrites)] /\ user \in Users
      /\ \A u \in Users : Grown(log[u], log[u])
  <2>1. log \in [Users -> Seq(AllWrites)] /\ user \in Users
    BY <1>1 DEF TypeOK
  <2>2. ASSUME NEW u \in Users PROVE Grown(log[u], log[u])
    <3>1. log[u] \in Seq(AllWrites)
      BY <2>1
    <3> QED BY <3>1, GrownFacts
  <2> QED BY <2>1, <2>2
<1>3. ASSUME NEW w \in Writes, WriteMutations(w) PROVE Forward
  BY <1>1, <1>3, SameVersions DEF WriteMutations
<1>4. CASE OnWriteStreamOpen \/ OnWriteStreamHandshakeComplete
  BY <1>1, <1>4, SameVersions DEF OnWriteStreamOpen, OnWriteStreamHandshakeComplete
<1>5. CASE OnWriteStreamMutationResult
  <2>1. Head(pipeline) \in Writes
    BY <1>5, ResultFacts, LeaveFacts
  <2>2. PICK h \in Writes : h = Head(pipeline)
    BY <2>1
  <2> QED BY <1>5, <2>2, ResultForward
<1>6. CASE OnWriteStreamDenied
  <2>1. UNCHANGED <<log, cache, watched, bad>> /\ overtaken \subseteq overtaken'
    BY <1>6, DeniedFacts
  <2> QED BY <1>1, <2>1, SameVersions
<1>7. CASE OnWriteStreamBroken \/ BackoffElapses \/ IdleTimeout
  BY <1>1, <1>7, SameVersions DEF OnWriteStreamBroken, BackoffElapses, IdleTimeout
<1>8. ASSUME NEW u \in Users, HandleCredentialChange(u) PROVE Forward
  BY <1>1, <1>8, SameVersions DEF HandleCredentialChange, RestartNetwork
<1>9. CASE StartProcess
  BY <1>1, <1>9, SameVersions DEF StartProcess, RestartNetwork
<1>10. CASE ServeHello
  BY <1>1, <1>10, SameVersions DEF ServeHello, Serve
<1>11. ASSUME NEW t \in Users, NEW x \in AllWrites,
              log' = [log EXCEPT ![t] = Append(@, x)],
              UNCHANGED <<cache, watched, bad, overtaken>>
       PROVE  Forward
  <2>1. ASSUME NEW u \in Users PROVE Grown(log[u], log'[u])
    <3>1. log[t] \in Seq(AllWrites)
      BY <1>2
    <3>2. Grown(log[t], Append(log[t], x))
      BY <3>1, GrownFacts
    <3>3. log'[t] = Append(log[t], x) /\ (u # t => log'[u] = log[u])
      BY <1>2, <1>11
    <3> QED BY <1>2, <3>2, <3>3
  <2> QED BY <1>11, <2>1 DEF Forward, Newer
<1>12. CASE ServeWrite
  <2> DEFINE w == Head(toServer)
  <2>1. /\ UNCHANGED <<cache, watched, bad, overtaken>> /\ w \in Writes
        /\ log' = log \/ log' = [log EXCEPT ![user] = Append(@, w)]
    BY <1>12, ServeFacts
  <2> HIDE DEF w
  <2>2. w \in AllWrites
    BY <2>1, WriteNumbers
  <2>3. CASE log' = log
    BY <1>1, <2>1, <2>3, SameVersions
  <2> QED BY <1>2, <1>11, <2>1, <2>2, <2>3
<1>13. ASSUME NEW u \in Users, OtherWrites(u) PROVE Forward
  <2>1. others \in Nat
    BY <1>1, WriteBounds DEF TypeOK
  <2>2. PICK x \in AllWrites : log' = [log EXCEPT ![u] = Append(@, x)]
    BY <1>13, <2>1, OtherNumber
  <2>3. UNCHANGED <<cache, watched, bad, overtaken>>
    BY <1>13 DEF OtherWrites
  <2> QED BY <1>11, <2>2, <2>3
<1>14. ASSUME NEW ver, WatchDocument(ver) PROVE Forward
  BY <1>14, WatchForward
<1>15. CASE UNCHANGED vars
  BY <1>1, <1>15, SameVersions DEF vars
<1> QED BY <1>3, <1>4, <1>5, <1>6, <1>7, <1>8, <1>9, <1>10, <1>12, <1>13, <1>14,
           <1>15, Steps

\* What every cached document promises.
CacheInv == \A u \in Users : CacheSound(log[u], cache[u], watched[u])

\* Every step keeps what the caches promise, and what can be read from them.
LEMMA CacheNext ==
    ASSUME StoreInv, CacheInv, [Next]_vars
    PROVE  CacheInv' /\ \A u \in Users : Keeps(cache[u], cache'[u])
<1>1. Forward
  BY ForwardNext
<1>2. /\ cache \in [Users -> CachedDocuments] /\ watched \in [Users -> Nat]
      /\ cache' \in [Users -> CachedDocuments] /\ watched' \in [Users -> Nat]
  BY StoreNext DEF StoreInv, TypeOK
<1>3. ASSUME NEW u \in Users
      PROVE  CacheSound(log'[u], cache'[u], watched'[u]) /\ Keeps(cache[u], cache'[u])
  <2>1. /\ Grown(log[u], log'[u]) /\ CacheSound(log[u], cache[u], watched[u])
        /\ Newer(log[u], cache[u], cache'[u], watched[u], watched'[u])
    BY <1>1 DEF Forward, CacheInv
  <2>2. /\ cache[u] \in CachedDocuments /\ watched[u] \in Nat
        /\ cache'[u] \in CachedDocuments /\ watched'[u] \in Nat
    BY <1>2
  <2> QED BY <2>1, <2>2, CacheStep
<1> QED BY <1>3 DEF CacheInv

\* Nothing is cached at first.
LEMMA CacheInit ==
    ASSUME Init
    PROVE  CacheInv
<1>1. /\ log = [u \in Users |-> <<>>] /\ watched = [u \in Users |-> 0]
      /\ cache = [u \in Users |-> [ver |-> 0, doc |-> Document(<<>>, 0),
                                   committed |-> FALSE]]
  BY DEF Init
<1> DEFINE l == <<>>
           c == [ver |-> 0, doc |-> Document(l, 0), committed |-> FALSE]
<1>2. CacheSound(l, c, 0)
  <2>1. Len(l) = 0
    BY EmptySeq
  <2>2. c.ver = 0 /\ c.doc = Document(l, 0)
    OBVIOUS
  <2> HIDE DEF l, c
  <2>3. \A f \in Fields : \A v \in c.doc[f] : v \in 1..0 /\ Field[l[v]] = f
    BY <2>2, DocumentSound
  <2> QED BY <2>1, <2>2, <2>3 DEF CacheSound, c
<1>3. \A u \in Users : log[u] = l /\ watched[u] = 0 /\ cache[u] = c
  BY <1>1
<1> HIDE DEF l, c
<1> QED BY <1>2, <1>3 DEF CacheInv

\* What is promised holds throughout.
LEMMA CacheInductive == Spec => [](StoreInv /\ CacheInv)
<1>1. Init => StoreInv /\ CacheInv
  BY StoreInit, CacheInit
<1>2. StoreInv /\ CacheInv /\ [Next]_vars => StoreInv' /\ CacheInv'
  BY StoreNext, CacheNext
<1> QED BY <1>1, <1>2, PTL DEF Spec

\* WatchedIsWhole: a document that writes were applied to is ahead of the watch
\* stream, which brings the whole document when it comes to that version.
THEOREM WatchedWhole == Spec => []WatchedIsWhole
<1>1. StoreInv /\ CacheInv => WatchedIsWhole
  <2> SUFFICES ASSUME StoreInv, CacheInv, NEW u \in Users, watched[u] >= cache[u].ver
               PROVE  cache[u].doc = Document(log[u], cache[u].ver)
    BY DEF WatchedIsWhole
  <2>1. watched[u] \in Nat /\ cache[u].ver \in Nat /\ cache[u].committed \in BOOLEAN
    BY DEF StoreInv, TypeOK, CachedDocuments
  <2> QED BY <2>1 DEF CacheInv, CacheSound
<1> QED BY <1>1, CacheInductive, PTL

\* ReadsAdvance: a result is applied to older documents only, and the watch
\* stream replaces a document by the whole of a version that is not older.
THEOREM ReadsForward == Spec => ReadsAdvance
<1>1. StoreInv /\ CacheInv /\ [Next]_vars
         => [\A u \in Users, f \in Fields :
               \A v \in cache[u].doc[f] : Holds(cache'[u].doc, f, v)]_vars
  BY CacheNext DEF Keeps
<1> QED BY <1>1, CacheInductive, PTL DEF Spec, ReadsAdvance

-----------------------------------------------------------------------------
(* What the callers are told. *)

\* The acknowledgements s are for ever later versions, and for later ones than the
\* document c was made to by writes.
RisingAcks(s, c) ==
    /\ \A i \in 1..Len(s) : s[i].type = "done" /\ c.committed => c.ver < s[i].ver
    /\ \A i, j \in 1..Len(s) :
          i < j /\ s[i].type = "done" /\ s[j].type = "done" => s[i].ver < s[j].ver

\* With the first one taken, which may have made the document d.
LEMMA RisingTail ==
    ASSUME NEW s \in Seq(Responses), s # <<>>, NEW c, NEW d, RisingAcks(s, c),
           d = c \/ ~d.committed \/ (Head(s).type = "done" /\ d.ver = Head(s).ver)
    PROVE  RisingAcks(Tail(s), d)
<1> DEFINE t == Tail(s)
<1>1. /\ Len(s) \in Nat /\ Len(s) >= 1 /\ Len(t) = Len(s) - 1 /\ Head(s) = s[1]
      /\ \A i \in 1..Len(t) : t[i] = s[i + 1]
  BY HeadTailProperties, EmptySeq, LenProperties
<1> HIDE DEF t
<1>2. ASSUME NEW i \in 1..Len(t)
      PROVE  i + 1 \in 1..Len(s) /\ t[i] = s[i + 1] /\ i \in Nat /\ 1 < i + 1
  BY <1>1
<1>3. ASSUME NEW i \in 1..Len(t), t[i].type = "done", d.committed
      PROVE  d.ver < t[i].ver
  <2>1. i + 1 \in 1..Len(s) /\ 1 \in 1..Len(s) /\ 1 < i + 1 /\ s[i + 1].type = "done"
        /\ t[i] = s[i + 1]
    BY <1>1, <1>2, <1>3
  <2>2. CASE d = c
    BY <1>3, <2>1, <2>2 DEF RisingAcks
  <2>3. CASE Head(s).type = "done" /\ d.ver = Head(s).ver
    BY <1>1, <2>1, <2>3 DEF RisingAcks
  <2> QED BY <1>3, <2>2, <2>3
<1>4. ASSUME NEW i \in 1..Len(t), NEW j \in 1..Len(t), i < j,
             t[i].type = "done", t[j].type = "done"
      PROVE  t[i].ver < t[j].ver
  <2>1. /\ i + 1 \in 1..Len(s) /\ j + 1 \in 1..Len(s) /\ i + 1 < j + 1
        /\ t[i] = s[i + 1] /\ t[j] = s[j + 1]
    BY <1>2, <1>4
  <2> QED BY <1>4, <2>1 DEF RisingAcks
<1>5. RisingAcks(t, d)
  BY <1>3, <1>4 DEF RisingAcks
<1> QED BY <1>5 DEF t

\* With one more.
LEMMA RisingAppend ==
    ASSUME NEW s \in Seq(Responses), NEW r \in Responses, NEW c, RisingAcks(s, c),
           r.type = "done" =>
               /\ c.ver < r.ver
               /\ \A i \in 1..Len(s) : s[i].type = "done" => s[i].ver < r.ver
    PROVE  RisingAcks(Append(s, r), c)
<1> DEFINE t == Append(s, r)
<1>1. /\ Len(s) \in Nat /\ Len(t) = Len(s) + 1 /\ t[Len(s) + 1] = r
      /\ \A i \in 1..Len(s) : t[i] = s[i]
  BY AppendProperties, LenProperties
<1> HIDE DEF t
<1>2. ASSUME NEW i \in 1..Len(t), t[i].type = "done", c.committed
      PROVE  c.ver < t[i].ver
  <2>1. CASE i \in 1..Len(s)
    BY <1>1, <1>2, <2>1 DEF RisingAcks
  <2>2. CASE i = Len(s) + 1
    BY <1>1, <1>2, <2>2
  <2> QED BY <1>1, <2>1, <2>2
<1>3. ASSUME NEW i \in 1..Len(t), NEW j \in 1..Len(t), i < j,
             t[i].type = "done", t[j].type = "done"
      PROVE  t[i].ver < t[j].ver
  <2>1. i \in 1..Len(s) /\ t[i] = s[i]
    BY <1>1, <1>3
  <2>2. CASE j \in 1..Len(s)
    BY <1>1, <1>3, <2>1, <2>2 DEF RisingAcks
  <2>3. CASE j = Len(s) + 1
    BY <1>1, <1>3, <2>1, <2>3
  <2> QED BY <1>1, <2>2, <2>3
<1>4. RisingAcks(t, c)
  BY <1>2, <1>3 DEF RisingAcks
<1> QED BY <1>4 DEF t

\* The acknowledgements on the way are.
AcksInv == RisingAcks(toClient, cache[user])

\* The server makes later versions only, and they come in order.
LEMMA AcksNext ==
    ASSUME StoreInv, CacheInv, AcksInv, [Next]_vars
    PROVE  AcksInv'
<1>1. /\ toClient \in Seq(Responses) /\ user \in Users /\ log[user] \in Seq(AllWrites)
      /\ cache \in [Users -> CachedDocuments] /\ Len(log[user]) \in Nat
      /\ cache[user].ver \in Nat /\ cache[user].ver <= Len(log[user])
  <2>1. /\ toClient \in Seq(Responses) /\ user \in Users /\ log[user] \in Seq(AllWrites)
        /\ cache \in [Users -> CachedDocuments]
    BY DEF StoreInv, TypeOK, Responses
  <2>2. Len(log[user]) \in Nat
    BY <2>1, LenProperties
  <2>3. cache[user].ver \in 0..Len(log[user])
    BY <2>1 DEF CacheInv, CacheSound
  <2> QED BY <2>1, <2>2, <2>3
<1>2. ASSUME UNCHANGED <<toClient, cache, user>> PROVE AcksInv'
  BY <1>2 DEF AcksInv
<1>3. ASSUME toClient' = <<>> PROVE AcksInv'
  <2>1. Len(toClient') = 0
    BY <1>3, EmptySeq
  <2> QED BY <2>1 DEF AcksInv, RisingAcks
<1>4. ASSUME toClient # <<>>, toClient' = Tail(toClient), user' = user,
             \/ cache'[user] = cache[user] \/ ~cache'[user].committed
             \/ Head(toClient).type = "done" /\ cache'[user].ver = Head(toClient).ver
      PROVE  AcksInv'
  <2>1. RisingAcks(Tail(toClient), cache'[user])
    BY <1>1, <1>4, RisingTail DEF AcksInv
  <2> QED BY <1>4, <2>1 DEF AcksInv
<1>5. ASSUME NEW w \in Writes, WriteMutations(w) PROVE AcksInv'
  BY <1>2, <1>5 DEF WriteMutations
<1>6. CASE OnWriteStreamOpen \/ BackoffElapses
  BY <1>2, <1>6 DEF OnWriteStreamOpen, BackoffElapses, device, wires
<1>7. CASE OnWriteStreamHandshakeComplete
  <2>1. /\ toClient # <<>> /\ toClient' = Tail(toClient)
        /\ UNCHANGED <<user, cache>>
    BY <1>7 DEF OnWriteStreamHandshakeComplete, Receive, device
  <2> QED BY <1>4, <2>1
<1>8. CASE OnWriteStreamMutationResult
  <2>1. Head(pipeline) \in Writes
    BY <1>8, ResultFacts, LeaveFacts
  <2>2. PICK h \in Writes : h = Head(pipeline)
    BY <2>1
  <2>3. PICK v : v = Head(toClient).ver
    OBVIOUS
  <2>4. /\ user' = user
        /\ cache' = [cache EXCEPT ![user] =
             IF @.ver < v
             THEN [ver |-> v, doc |-> ApplyToRemoteDocument(@.doc, h, v),
                   committed |-> TRUE]
             ELSE @]
    BY <1>8, <2>2, <2>3, ResultForward
  <2>5. toClient # <<>> /\ Head(toClient).type = "done" /\ toClient' = Tail(toClient)
    BY <1>8 DEF OnWriteStreamMutationResult, Receive
  <2>6. cache'[user] = cache[user] \/ cache'[user].ver = v
    BY <1>1, <2>4
  <2> QED BY <1>4, <2>3, <2>4, <2>5, <2>6
<1>9. CASE OnWriteStreamDenied \/ OnWriteStreamBroken \/ IdleTimeout
  BY <1>3, <1>9 DEF OnWriteStreamDenied, OnWriteStreamBroken, IdleTimeout
<1>10. ASSUME NEW u \in Users, HandleCredentialChange(u) PROVE AcksInv'
  BY <1>3, <1>10 DEF HandleCredentialChange, RestartNetwork
<1>11. CASE StartProcess
  BY <1>3, <1>11 DEF StartProcess, RestartNetwork
<1>12. ASSUME NEW r \in Responses, toClient' = Append(toClient, r),
              UNCHANGED <<cache, user>>,
              r.type = "done" =>
                  /\ cache[user].ver < r.ver
                  /\ \A i \in 1..Len(toClient) :
                        toClient[i].type = "done" => toClient[i].ver < r.ver
       PROVE  AcksInv'
  <2>1. RisingAcks(Append(toClient, r), cache[user])
    BY <1>1, <1>12, RisingAppend DEF AcksInv
  <2> QED BY <1>12, <2>1 DEF AcksInv
<1>13. CASE ServeHello
  <2>1. PICK r : r = Response("hello", 0)
    OBVIOUS
  <2>2. toClient' = Append(toClient, r) /\ UNCHANGED <<cache, user>>
    BY <1>13, <2>1 DEF ServeHello, Serve, device
  <2>3. r \in Responses /\ r.type # "done"
    BY <2>1 DEF Response, Responses
  <2> QED BY <1>12, <2>2, <2>3
<1>14. CASE ServeWrite
  <2>1. UNCHANGED <<cache, user>> /\ TrueAnswers(log[user], toClient, pipeline)
    BY <1>14, ServeFacts
  <2>2. CASE toClient' = Append(toClient, Response("denied", 0))
    <3>1. PICK r : r = Response("denied", 0)
      OBVIOUS
    <3>2. r \in Responses /\ r.type # "done"
      BY <3>1 DEF Response, Responses
    <3> QED BY <1>12, <2>1, <2>2, <3>1, <3>2
  <2>3. CASE toClient' # Append(toClient, Response("denied", 0))
    <3>1. Head(toServer) \in Writes
      BY <1>14, ServeFacts
    <3>2. PICK w \in AllWrites : w = Head(toServer)
      BY <3>1, WriteNumbers
    <3>3. /\ log'[user] = Append(log[user], w)
          /\ toClient' = Append(toClient, Response("done", Len(log'[user])))
      BY <1>14, <2>3, <3>2, ServeFacts
    <3>4. Len(log'[user]) = Len(log[user]) + 1
      BY <1>1, <3>3, AppendProperties
    <3>5. PICK n : n = Len(log'[user])
      OBVIOUS
    <3>6. PICK r : r = Response("done", n)
      OBVIOUS
    <3>7. n \in Nat /\ r.ver = n /\ r \in Responses /\ n = Len(log[user]) + 1
      BY <1>1, <3>4, <3>5, <3>6 DEF Response, Responses
    <3>8. ASSUME NEW i \in 1..Len(toClient), toClient[i].type = "done"
          PROVE  toClient[i].ver < r.ver
      <4>1. toClient[i].ver \in 1..Len(log[user])
        BY <2>1, <3>8 DEF TrueAnswers, TrueAnswer
      <4> QED BY <1>1, <3>7, <4>1
    <3>9. cache[user].ver < r.ver
      BY <1>1, <3>7
    <3>10. toClient' = Append(toClient, r)
      BY <3>3, <3>5, <3>6
    <3> QED BY <1>12, <2>1, <3>7, <3>8, <3>9, <3>10
  <2> QED BY <2>2, <2>3
<1>15. ASSUME NEW u \in Users, OtherWrites(u) PROVE AcksInv'
  BY <1>2, <1>15 DEF OtherWrites, device, wires
<1>16. ASSUME NEW ver, WatchDocument(ver) PROVE AcksInv'
  <2>1. /\ UNCHANGED <<toClient, user>>
        /\ cache' = [cache EXCEPT ![user] =
             IF ver > @.ver \/ (ver = @.ver /\ @.committed)
             THEN [ver |-> ver, doc |-> Document(log[user], ver), committed |-> FALSE]
             ELSE @]
    BY <1>16, WatchStep DEF device, wires
  <2>2. cache'[user] = cache[user] \/ ~cache'[user].committed
    BY <1>1, <2>1
  <2> QED BY <2>1, <2>2 DEF AcksInv, RisingAcks
<1>17. CASE UNCHANGED vars
  BY <1>2, <1>17 DEF vars, device, wires
<1> QED BY <1>5, <1>6, <1>7, <1>8, <1>9, <1>10, <1>11, <1>13, <1>14, <1>15, <1>16,
           <1>17, Steps

\* What the write w did can be read by the user u, or what replaced it.
ReadBy(u, w) ==
    \E v \in 1..Len(log[u]) : log[u][v] = w /\ Holds(cache[u].doc, Field[w], v)

\* The caller of w was told what is true.
TrueWord(w) ==
    /\ told[w] = "done" => ReadBy(owner[w], w)
    /\ told[w] = "failed" => w \in bad \cup overtaken

\* What is read stays read.
LEMMA ReadKept ==
    ASSUME StoreInv, CacheInv, [Next]_vars, NEW u \in Users, NEW w \in Writes,
           ReadBy(u, w)
    PROVE  ReadBy(u, w)'
<1>1. /\ Grown(log[u], log'[u]) /\ Keeps(cache[u], cache'[u])
      /\ cache[u] \in CachedDocuments /\ cache'[u] \in CachedDocuments
      /\ Field[w] \in Fields
  <2>1. Grown(log[u], log'[u])
    BY ForwardNext DEF Forward
  <2>2. Keeps(cache[u], cache'[u])
    BY CacheNext
  <2>3. cache[u] \in CachedDocuments /\ cache'[u] \in CachedDocuments
    BY StoreNext DEF StoreInv, TypeOK
  <2> QED BY <2>1, <2>2, <2>3, WriteNumbers
<1>2. PICK v \in 1..Len(log[u]) : log[u][v] = w /\ Holds(cache[u].doc, Field[w], v)
  BY DEF ReadBy
<1>3. v \in Nat /\ v \in 1..Len(log'[u]) /\ log'[u][v] = w
  BY <1>1, <1>2 DEF Grown
<1>4. Holds(cache'[u].doc, Field[w], v)
  BY <1>1, <1>2, <1>3, HoldsKept
<1> QED BY <1>3, <1>4 DEF ReadBy

\* A true word stays true.
LEMMA WordKept ==
    ASSUME StoreInv, CacheInv, [Next]_vars, NEW w \in Writes, TrueWord(w),
           told[w] = "done" => w \in Issued,
           told'[w] \in {told[w], "nothing", "orphan"},
           told[w] = "done" => owner'[w] = owner[w]
    PROVE  TrueWord(w)'
<1>1. ASSUME told'[w] = "done" PROVE ReadBy(owner[w], w)'
  <2>1. told[w] = "done" /\ owner'[w] = owner[w] /\ w \in Issued
    BY <1>1
  <2>2. owner[w] \in Users
    BY <2>1 DEF Issued, StoreInv, TypeOK
  <2>3. PICK u \in Users : u = owner[w]
    BY <2>2
  <2>4. ReadBy(u, w)
    BY <2>1, <2>3 DEF TrueWord
  <2>5. ReadBy(u, w)'
    BY <2>4, ReadKept
  <2> QED BY <2>1, <2>3, <2>5 DEF ReadBy
<1>2. ASSUME told'[w] = "failed" PROVE w \in bad' \cup overtaken'
  BY <1>2, ForwardNext DEF TrueWord, Forward
<1> QED BY <1>1, <1>2 DEF TrueWord

\* Only callers of writes that were issued were told something, and it is true.
ToldInv ==
    /\ CacheInv /\ AcksInv
    /\ \A w \in Writes : w \notin Issued => told[w] = "nothing"
    /\ \A w \in Writes : TrueWord(w)

\* The write that leaves: who is told, and what.
LEMMA LeaveTold ==
    ASSUME StoreInv, CallbackMatches, ToldInv, NEW status \in {"done", "failed"},
           [Next]_vars, pipeline # <<>>, NEW h \in Writes, h = Head(pipeline),
           queue' = [queue EXCEPT ![user] = @ \ {h}],
           UNCHANGED <<user, owner, batchId, nextId>>,
           NotifyUser(batchId[h], status),
           told'[h] = status => TrueWord(h)'
    PROVE  ToldInv'
<1>1. TypeOK /\ Issued' = Issued /\ h \in queue[user] /\ owner[h] = user
      /\ user \in Users
  BY LeaveFacts, PipelineFacts DEF StoreInv, Issued
<1>2. NotifyUser(batchId[h], status) /\ (told'[h] = status => TrueWord(h)')
  OBVIOUS
<1>3. /\ \A w \in Writes : w # h => told'[w] = told[w]
      /\ told'[h] \in {told[h], status}
  BY <1>1, <1>2, NotifyCaller
<1>4. h \in Issued
  BY <1>1, UsersAssumption DEF Issued
<1>5. \A w \in Writes : w \notin Issued' => told'[w] = "nothing"
  BY <1>1, <1>3, <1>4 DEF ToldInv
<1>6. ASSUME NEW w \in Writes PROVE TrueWord(w)'
  <2>1. TrueWord(w) /\ (told[w] = "done" => w \in Issued) /\ CacheInv
    BY DEF ToldInv
  <2>2. told'[w] = told[w] => TrueWord(w)'
    BY <2>1, WordKept
  <2>3. CASE w # h
    BY <1>3, <2>2, <2>3
  <2>4. CASE w = h
    BY <1>2, <1>3, <2>2, <2>4
  <2> QED BY <2>3, <2>4
<1>7. CacheInv' /\ AcksInv'
  BY CacheNext, AcksNext DEF ToldInv
<1> QED BY <1>5, <1>6, <1>7 DEF ToldInv

\* Other steps tell callers nothing but that their process has ended.
LEMMA SilentTold ==
    ASSUME StoreInv, ToldInv, [Next]_vars,
           \A w \in Writes : told'[w] \in {told[w], "orphan"},
           \A w \in Writes : told'[w] # told[w] => w \in Issued,
           Issued \subseteq Issued', \A w \in Issued : owner'[w] = owner[w]
    PROVE  ToldInv'
<1>1. CacheInv' /\ AcksInv'
  BY CacheNext, AcksNext DEF ToldInv
<1>2. ASSUME NEW w \in Writes, w \notin Issued' PROVE told'[w] = "nothing"
  <2>1. w \notin Issued
    BY <1>2
  <2> QED BY <2>1 DEF ToldInv
<1>3. ASSUME NEW w \in Writes PROVE TrueWord(w)'
  <2>1. TrueWord(w) /\ (told[w] = "done" => w \in Issued) /\ CacheInv
    BY DEF ToldInv
  <2>2. told'[w] \in {told[w], "nothing", "orphan"}
    OBVIOUS
  <2>3. told[w] = "done" => owner'[w] = owner[w]
    BY <2>1
  <2> QED BY <2>1, <2>2, <2>3, WordKept
<1> QED BY <1>1, <1>2, <1>3 DEF ToldInv

\* Whoever is acknowledged reads the write at once: it is applied to an older
\* document, and a newer one that is the server's holds it.
LEMMA ResultRead ==
    ASSUME StoreInv, CacheInv, AcksInv, OnWriteStreamMutationResult,
           NEW h \in Writes, h = Head(pipeline)
    PROVE  ReadBy(user, h)'
<1>1. PICK v : v = Head(toClient).ver
  OBVIOUS
<1>2. /\ v \in 1..Len(log[user]) /\ log[user][v] = h /\ v \in Nat
      /\ UNCHANGED <<log, user>>
      /\ cache' = [cache EXCEPT ![user] =
            IF @.ver < v
            THEN [ver |-> v, doc |-> ApplyToRemoteDocument(@.doc, h, v),
                  committed |-> TRUE]
            ELSE @]
  BY <1>1, ResultForward
<1>3. /\ user \in Users /\ cache \in [Users -> CachedDocuments] /\ Field[h] \in Fields
      /\ toClient \in Seq(Responses)
  BY WriteNumbers DEF StoreInv, TypeOK, Responses
<1> DEFINE c == cache[user]
           d == cache'[user]
           f == Field[h]
<1>4. c \in CachedDocuments /\ CacheSound(log[user], c, watched[user])
  BY <1>3 DEF CacheInv
<1>5. d = IF c.ver < v THEN [ver |-> v, doc |-> ApplyToRemoteDocument(c.doc, h, v),
                             committed |-> TRUE]
          ELSE c
  BY <1>2, <1>3
<1>6. c.committed => c.ver < v
  <2>1. toClient # <<>> /\ Head(toClient).type = "done"
    BY DEF OnWriteStreamMutationResult, Receive
  <2>2. Head(toClient) = toClient[1] /\ 1 \in 1..Len(toClient)
    BY <1>3, <2>1, HeadTailProperties, LenProperties, EmptySeq
  <2> QED BY <1>1, <2>1, <2>2 DEF AcksInv, RisingAcks
<1>7. f \in Fields /\ f = Field[h]
  BY <1>3
<1> HIDE DEF c, d, f
<1>8. Holds(d.doc, f, v)
  <2>1. CASE c.ver < v
    <3>1. c.doc \in [Fields -> SUBSET Nat]
      BY <1>4 DEF CachedDocuments
    <3>2. v \in ApplyToRemoteDocument(c.doc, h, v)[f]
      BY <1>7, <3>1 DEF ApplyToRemoteDocument
    <3>3. d.doc = ApplyToRemoteDocument(c.doc, h, v)
      BY <1>5, <2>1
    <3> QED BY <3>2, <3>3 DEF Holds
  <2>2. CASE ~(c.ver < v)
    <3>1. d = c /\ c.doc = Document(log[user], c.ver) /\ c.ver \in Nat
      BY <1>4, <1>5, <1>6, <2>2 DEF CacheSound, CachedDocuments
    <3>2. v \in 1..c.ver /\ Field[log[user][v]] = f
      BY <1>2, <1>7, <2>2, <3>1
    <3>3. Holds(Document(log[user], c.ver), f, v)
      BY <1>7, <3>1, <3>2, DocumentHolds
    <3> QED BY <3>1, <3>3
  <2> QED BY <2>1, <2>2
<1>9. Holds(cache'[user].doc, Field[h], v)
  BY <1>7, <1>8 DEF d
<1> QED BY <1>2, <1>9 DEF ReadBy

\* Every step tells the truth.
LEMMA ToldNext ==
    ASSUME StoreInv, CallbackMatches, ToldInv, [Next]_vars
    PROVE  ToldInv'
<1>1. TypeOK /\ IssueInv /\ CacheInv /\ AcksInv
  BY DEF StoreInv, ToldInv
<1>2. /\ told \in [Writes -> {"nothing", "done", "failed", "orphan"}]
      /\ owner \in [Writes -> Users \cup {Nobody}]
  BY <1>1 DEF TypeOK
<1>3. ASSUME UNCHANGED Callers PROVE ToldInv'
  <2>1. told' = told /\ owner' = owner /\ Issued' = Issued
    BY <1>3 DEF Callers, Issued
  <2> QED BY <2>1, SilentTold
<1>4. ASSUME NEW w \in Writes, WriteMutations(w) PROVE ToldInv'
  <2>1. /\ told' = told /\ w \notin Issued /\ owner' = [owner EXCEPT ![w] = user]
        /\ user \in Users
    BY <1>1, <1>4 DEF WriteMutations, TypeOK
  <2>2. Issued \subseteq Issued' /\ \A v \in Issued : owner'[v] = owner[v]
    BY <1>2, <2>1, UsersAssumption DEF Issued
  <2> QED BY <2>1, <2>2, SilentTold
<1>5. CASE OnWriteStreamMutationResult
  <2>1. Head(pipeline) \in Writes /\ owner[Head(pipeline)] = user
    BY <1>5, ResultFacts, LeaveFacts
  <2>2. PICK h \in Writes : h = Head(pipeline)
    BY <2>1
  <2>3. /\ pipeline # <<>> /\ user \in Users
        /\ queue' = [queue EXCEPT ![user] = @ \ {h}]
        /\ UNCHANGED <<user, owner, batchId, nextId>>
        /\ NotifyUser(batchId[h], "done")
    BY <1>5, <2>2, ResultFacts
  <2>4. ReadBy(user, h)'
    BY <1>1, <1>5, <2>2, ResultRead
  <2>5. ASSUME told'[h] = "done" PROVE TrueWord(h)'
    <3>1. owner'[h] = user' /\ told'[h] # "failed"
      BY <2>1, <2>2, <2>3, <2>5
    <3> QED BY <2>4, <3>1 DEF TrueWord, ReadBy
  <2> QED BY <2>2, <2>3, <2>5, LeaveTold
<1>6. CASE OnWriteStreamDenied
  <2>1. Head(pipeline) \in Writes
    BY <1>6, DeniedFacts, LeaveFacts
  <2>2. PICK h \in Writes : h = Head(pipeline)
    BY <2>1
  <2>3. /\ pipeline # <<>> /\ queue' = [queue EXCEPT ![user] = @ \ {h}]
        /\ UNCHANGED <<user, owner, batchId, nextId>> /\ UNCHANGED bad
        /\ NotifyUser(batchId[h], "failed")
        /\ h \in bad \/ overtaken' = overtaken \cup {h}
    BY <1>6, <2>2, DeniedFacts
  <2>4. ASSUME told'[h] = "failed" PROVE TrueWord(h)'
    <3>1. h \in bad' \cup overtaken' /\ told'[h] # "done"
      BY <2>3, <2>4
    <3> QED BY <3>1 DEF TrueWord
  <2> QED BY <2>2, <2>3, <2>4, LeaveTold
<1>7. CASE StartProcess
  <2>1. /\ owner' = owner
        /\ told' = [w \in Writes |-> IF w \in Issued /\ told[w] = "nothing"
                                     THEN "orphan" ELSE told[w]]
    BY <1>7 DEF StartProcess
  <2>2. Issued' = Issued
    BY <2>1 DEF Issued
  <2> QED BY <2>1, <2>2, SilentTold
<1>8. ASSUME NEW u \in Users, HandleCredentialChange(u) PROVE UNCHANGED Callers
  BY <1>8 DEF HandleCredentialChange, Callers
<1>9. ASSUME NEW u \in Users, OtherWrites(u) PROVE UNCHANGED Callers
  BY <1>9 DEF OtherWrites, Callers, device
<1>10. ASSUME NEW ver, WatchDocument(ver) PROVE UNCHANGED Callers
  BY <1>10 DEF WatchDocument, Callers, device
<1>11. CASE OnWriteStreamOpen \/ OnWriteStreamHandshakeComplete
  BY <1>3, <1>11 DEF OnWriteStreamOpen, OnWriteStreamHandshakeComplete, device, Callers
<1>12. CASE OnWriteStreamBroken \/ BackoffElapses \/ IdleTimeout
  BY <1>3, <1>12 DEF OnWriteStreamBroken, BackoffElapses, IdleTimeout, device, Callers
<1>13. CASE ServeHello
  BY <1>3, <1>13 DEF ServeHello, Serve, device, Callers
<1>14. CASE ServeWrite
  BY <1>3, <1>14, ServeFacts DEF Callers
<1>15. CASE UNCHANGED vars
  BY <1>3, <1>15 DEF vars, device, Callers
<1> QED BY <1>3, <1>4, <1>5, <1>6, <1>7, <1>8, <1>9, <1>10, <1>11, <1>12, <1>13,
           <1>14, <1>15, Steps

\* ToldTruth: what NotifyUser tells a caller is so at the server.  What is done
\* was applied to the document before; the watch stream brings what holds it too,
\* and results come in the order of their versions.
THEOREM TruthTold == Spec => []ToldTruth
<1>1. Init => CallbackMatches /\ ToldInv
  <2> SUFFICES ASSUME Init PROVE CallbackMatches /\ ToldInv
    OBVIOUS
  <2>1. /\ callbacks = [u \in Users |-> {}] /\ owner = [w \in Writes |-> Nobody]
        /\ told = [w \in Writes |-> "nothing"] /\ toClient = <<>>
    BY DEF Init
  <2>2. CallbackMatches
    BY <2>1, UsersAssumption DEF CallbackMatches
  <2>3. AcksInv
    BY <2>1, EmptySeq DEF AcksInv, RisingAcks
  <2>4. \A w \in Writes : told[w] = "nothing" /\ TrueWord(w)
    BY <2>1 DEF TrueWord
  <2> QED BY <2>2, <2>3, <2>4, CacheInit DEF ToldInv
<1>2. StoreInv /\ CallbackMatches /\ ToldInv /\ [Next]_vars
         => CallbackMatches' /\ ToldInv'
  BY CallbacksNext, ToldNext
<1>3. StoreInv /\ ToldInv => ToldTruth
  <2> SUFFICES ASSUME StoreInv, ToldInv PROVE ToldTruth
    OBVIOUS
  <2>1. FailedIsDenied
    BY DEF ToldInv, TrueWord, FailedIsDenied
  <2>2. ASSUME NEW w \in Writes, told[w] = "done"
        PROVE  \E v \in DOMAIN log[owner[w]] :
                  log[owner[w]][v] = w /\ Holds(cache[owner[w]].doc, Field[w], v)
    <3>1. w \in Issued /\ ReadBy(owner[w], w)
      BY <2>2 DEF ToldInv, TrueWord
    <3>2. owner[w] \in Users
      BY <3>1 DEF Issued, StoreInv, TypeOK
    <3>3. PICK u \in Users : u = owner[w]
      BY <3>2
    <3>4. log[u] \in Seq(AllWrites)
      BY DEF StoreInv, TypeOK
    <3>5. DOMAIN log[u] = 1..Len(log[u])
      BY <3>4, LenProperties
    <3>6. ReadBy(u, w)
      BY <3>1, <3>3
    <3> QED BY <3>3, <3>5, <3>6 DEF ReadBy
  <2> QED BY <2>1, <2>2 DEF ToldTruth, DoneIsRead
<1> QED BY <1>1, <1>2, <1>3, StoreInductive, PTL DEF Spec

-----------------------------------------------------------------------------
(* The answers on the way. *)

\* The writes whose answers are on the way.
Answered == {w \in Writes : handshake /\ \E i \in 1..Len(toClient) : pipeline[i] = w}

\* They are the first in the pipeline.
LEMMA AnsweredFacts ==
    ASSUME StoreInv
    PROVE  /\ Answered \subseteq queue[user] /\ Answered \subseteq Issued
           /\ ~handshake \/ toClient = <<>> \/ pipeline = <<>> => Answered = {}
           /\ handshake /\ toClient # <<>> => Head(pipeline) \in Answered
           /\ handshake => \A i \in 1..Len(toClient) : i \in 1..Len(pipeline)
<1>1. /\ pipeline \in Seq(Writes) /\ Len(pipeline) \in Nat /\ Len(toClient) \in Nat
      /\ Len(toServer) \in Nat /\ queue[user] \in SUBSET Writes /\ user \in Users
      /\ \A i \in 1..Len(pipeline) : pipeline[i] \in queue[user]
      /\ \A w \in queue[user] : w \in Issued
  BY PipelineFacts, QueueFacts DEF StoreInv
<1>2. handshake => \A i \in 1..Len(toClient) : i \in 1..Len(pipeline)
  <2> SUFFICES ASSUME handshake, NEW i \in 1..Len(toClient) PROVE i \in 1..Len(pipeline)
    OBVIOUS
  <2>1. Len(toServer) + Len(toClient) = Len(pipeline)
    BY DEF StoreInv, WireInv, InStep
  <2> QED BY <1>1, <2>1
<1>3. Answered \subseteq queue[user]
  BY <1>1, <1>2 DEF Answered
<1>4. ~handshake \/ toClient = <<>> \/ pipeline = <<>> => Answered = {}
  <2>1. toClient = <<>> => Len(toClient) = 0
    BY EmptySeq
  <2>2. pipeline = <<>> => Len(pipeline) = 0
    BY EmptySeq
  <2> QED BY <1>2, <2>1, <2>2 DEF Answered
<1>5. ASSUME handshake, toClient # <<>> PROVE Head(pipeline) \in Answered
  <2>1. pipeline # <<>> /\ 1 \in 1..Len(toClient) /\ 1 \in 1..Len(pipeline)
    BY <1>2, <1>5, FirstResponse
  <2>2. Head(pipeline) = pipeline[1] /\ pipeline[1] \in Writes
    BY <1>1, <2>1, HeadTailProperties
  <2> QED BY <1>5, <2>1, <2>2 DEF Answered
<1> QED BY <1>1, <1>2, <1>3, <1>4, <1>5

\* A write that is issued is not answered, and the others are as before.
LEMMA WriteAnswered ==
    ASSUME StoreInv, NEW w \in Writes, WriteMutations(w)
    PROVE  Answered' = Answered
<1>1. handshake' = handshake /\ toClient' = toClient
  BY DEF WriteMutations
<1>2. PICK a \in Seq(Writes) : Joined(pipeline, a, pipeline')
  BY WriteFill DEF Filled
<1>3. handshake => \A i \in 1..Len(toClient) : pipeline'[i] = pipeline[i]
  BY <1>2, AnsweredFacts DEF Joined
<1> QED BY <1>1, <1>3 DEF Answered

\* The write that is acknowledged was answered.
LEMMA ResultAnswered ==
    ASSUME StoreInv, OnWriteStreamMutationResult
    PROVE  Head(pipeline) \in Answered /\ Answered' = Answered \ {Head(pipeline)}
<1> DEFINE h == Head(pipeline)
           t == Tail(pipeline)
           n == Len(toClient)
<1>1. /\ Filled(queue'[user], t, stream, toServer) /\ n \in Nat /\ n >= 1
      /\ toClient' = Tail(toClient) /\ Len(Tail(toClient)) = n - 1
      /\ handshake /\ pipeline # <<>> /\ handshake' = handshake
  BY ResultFill DEF OnWriteStreamMutationResult
<1>2. toClient # <<>>
  BY DEF OnWriteStreamMutationResult, Receive
<1>3. h \in Answered
  BY <1>1, <1>2, AnsweredFacts
<1>4. /\ h = pipeline[1] /\ Len(t) = Len(pipeline) - 1 /\ Len(pipeline) \in Nat
      /\ \A i \in 1..Len(t) : t[i] = pipeline[i + 1]
      /\ \A i, j \in 1..Len(pipeline) : i < j => pipeline[i] < pipeline[j]
      /\ \A i \in 1..Len(pipeline) : pipeline[i] \in Nat
      /\ \A i \in 1..n : i \in 1..Len(pipeline)
  <2>1. /\ pipeline \in Seq(Writes) /\ queue[user] \in SUBSET Writes
        /\ Oldest(pipeline, queue[user])
    BY PipelineFacts
  <2>2. /\ h = pipeline[1] /\ Len(t) = Len(pipeline) - 1 /\ Len(pipeline) \in Nat
        /\ \A i \in 1..Len(t) : t[i] = pipeline[i + 1]
    BY <1>1, <2>1, TailOldest
  <2>3. \A i \in 1..Len(pipeline) : pipeline[i] \in Nat
    BY <2>1, WriteBounds DEF Oldest, Writes
  <2> QED BY <1>1, <2>1, <2>2, <2>3, AnsweredFacts DEF Oldest
<1>5. PICK a \in Seq(Writes) : Joined(t, a, pipeline')
  BY <1>1 DEF Filled
<1> HIDE DEF h, t, n
<1>6. ASSUME NEW i \in 1..(n - 1)
      PROVE  i + 1 \in 1..n /\ pipeline'[i] = pipeline[i + 1] /\ pipeline[i + 1] # h
  <2>1. i + 1 \in 1..n /\ 1 \in 1..n /\ 1 < i + 1
    BY <1>1
  <2>2. i + 1 \in 1..Len(pipeline) /\ 1 \in 1..Len(pipeline)
    BY <1>4, <2>1
  <2>3. i \in 1..Len(t)
    BY <1>1, <1>4, <2>2
  <2>4. pipeline'[i] = pipeline[i + 1]
    BY <1>4, <1>5, <2>3 DEF Joined
  <2>5. pipeline[1] < pipeline[i + 1] /\ pipeline[1] \in Nat
    BY <1>4, <2>1, <2>2
  <2>6. pipeline[i + 1] # h
    BY <1>4, <2>5
  <2> QED BY <2>1, <2>4, <2>6
<1>7. ASSUME NEW i \in 1..n, pipeline[i] # h
      PROVE  \E j \in 1..(n - 1) : pipeline'[j] = pipeline[i]
  <2>1. i # 1
    BY <1>4, <1>7
  <2> DEFINE j == i - 1
  <2>2. j \in 1..(n - 1) /\ j + 1 = i
    BY <1>1, <2>1
  <2> HIDE DEF j
  <2>3. pipeline'[j] = pipeline[i]
    BY <1>6, <2>2
  <2> QED BY <2>2, <2>3
<1>8. Answered = {w \in Writes : \E i \in 1..n : pipeline[i] = w}
  BY <1>1 DEF Answered, n
<1>9. Answered' = {w \in Writes : \E i \in 1..(n - 1) : pipeline'[i] = w}
  BY <1>1 DEF Answered
<1>10. Answered' = Answered \ {h}
  <2>1. ASSUME NEW w \in Answered' PROVE w \in Answered \ {h}
    BY <1>6, <1>8, <1>9, <2>1
  <2>2. ASSUME NEW w \in Answered \ {h} PROVE w \in Answered'
    BY <1>7, <1>8, <1>9, <2>2
  <2> QED BY <2>1, <2>2
<1> QED BY <1>3, <1>10 DEF h

\* The write that fails was answered, if only by an answer that is dropped.
LEMMA DeniedAnswered ==
    ASSUME StoreInv, OnWriteStreamDenied
    PROVE  /\ Head(pipeline) \in Answered /\ Answered' = {}
           /\ Len(toClient) = 1 => Answered = {Head(pipeline)}
<1>1. toClient # <<>> /\ handshake /\ pipeline # <<>> /\ handshake' = FALSE
  BY DeniedFacts DEF OnWriteStreamDenied, HasEnded
<1>2. Head(pipeline) \in Answered
  BY <1>1, AnsweredFacts
<1>3. Answered' = {}
  BY <1>1 DEF Answered
<1>4. Head(pipeline) = pipeline[1]
  BY <1>1, PipelineFacts, HeadTailProperties
<1>5. Len(toClient) = 1 => Answered \subseteq {Head(pipeline)}
  BY <1>4 DEF Answered
<1> QED BY <1>2, <1>3, <1>5

\* The write that the server answers comes after those that it has answered.
LEMMA ServeAnswered ==
    ASSUME StoreInv, ServeWrite
    PROVE  /\ Answered' = Answered \cup {Head(toServer)}
           /\ Head(toServer) \notin Answered
           /\ \A v \in Answered : v < Head(toServer)
<1> DEFINE w == Head(toServer)
           n == Len(toClient)
<1>1. /\ handshake /\ handshake' = handshake /\ pipeline' = pipeline
      /\ n + 1 \in 1..Len(pipeline) /\ w = pipeline[n + 1] /\ w \in Writes
      /\ \E x : toClient' = Append(toClient, x)
  BY ServeFacts
<1>2. Len(toClient') = n + 1
  <2>1. toClient' \in Seq(Responses)
    BY ServeStep, ServeFacts DEF StoreInv, TypeOK, Responses
  <2>2. PICK x : toClient' = Append(toClient, x)
    BY <1>1
  <2> QED BY <2>2, PipelineFacts
<1>3. /\ n \in Nat /\ \A i \in 1..n : i \in 1..Len(pipeline)
      /\ \A i, j \in 1..Len(pipeline) : i < j => pipeline[i] < pipeline[j]
  BY <1>1, PipelineFacts, AnsweredFacts DEF Oldest
<1> HIDE DEF w
<1>4. \A v \in Answered : v < w
  <2> SUFFICES ASSUME NEW v \in Answered PROVE v < w
    OBVIOUS
  <2>1. PICK i \in 1..n : pipeline[i] = v
    BY DEF Answered
  <2>2. i < n + 1 /\ i \in 1..Len(pipeline)
    BY <1>3
  <2>3. pipeline[i] < pipeline[n + 1]
    BY <1>1, <1>3, <2>2
  <2> QED BY <1>1, <2>1, <2>3
<1>5. w \notin Answered
  <2> SUFFICES ASSUME w \in Answered PROVE FALSE
    OBVIOUS
  <2>1. w < w
    BY <1>4
  <2>2. w \in Nat
    BY <1>1, WriteBounds DEF Writes
  <2> QED BY <2>1, <2>2
<1>6. Answered' = Answered \cup {w}
  <2>1. Answered' = {v \in Writes : \E i \in 1..(n + 1) : pipeline[i] = v}
    BY <1>1, <1>2 DEF Answered
  <2>2. Answered = {v \in Writes : \E i \in 1..n : pipeline[i] = v}
    BY <1>1 DEF Answered
  <2> HIDE DEF n
  <2>3. \A i : i \in 1..(n + 1) <=> i \in 1..n \/ i = n + 1
    BY <1>3
  <2> QED BY <1>1, <2>1, <2>2, <2>3
<1> QED BY <1>4, <1>5, <1>6 DEF w

-----------------------------------------------------------------------------
(* The logs. *)

\* A step that is none of a write, an acknowledgement, a rejection, a commit or a
\* write of another device: the answers on the way stay, or all are lost with a break.
Idles ==
    /\ UNCHANGED <<owner, queue, log, bad, overtaken>>
    /\ \/ breaks' = breaks /\ Answered' = Answered
       \/ breaks' = breaks + 1 /\ Answered' = {}

\* What a step is, as far as writes, answers and logs go.
LEMMA Moves ==
    ASSUME StoreInv, [Next]_vars
    PROVE  \/ \E w \in Writes : WriteMutations(w)
           \/ OnWriteStreamMutationResult \/ OnWriteStreamDenied
           \/ ServeWrite \/ \E u \in Users : OtherWrites(u)
           \/ Idles
<1>1. TypeOK /\ WireInv
  BY DEF StoreInv
<1>2. ~handshake => Answered = {}
  BY DEF Answered
<1>3. handshake' = FALSE => Answered' = {}
  BY DEF Answered
<1>4. CASE OnWriteStreamOpen
  <2>1. ~IsOpen(stream)
    BY <1>4 DEF OnWriteStreamOpen, IsOpen
  <2>2. ~handshake /\ handshake' = handshake
    BY <1>1, <1>4, <2>1 DEF WireInv, OnWriteStreamOpen
  <2>3. Answered' = Answered
    BY <1>2, <2>2 DEF Answered
  <2> QED BY <1>4, <2>3 DEF OnWriteStreamOpen, device, Idles
<1>5. CASE OnWriteStreamHandshakeComplete
  <2>1. toClient # <<>> /\ Head(toClient).type = "hello" /\ toClient' = Tail(toClient)
    BY <1>5 DEF OnWriteStreamHandshakeComplete, Receive
  <2>2. ~handshake /\ toClient' = <<>>
    <3>1. ~TrueAnswer(log[user], Head(toClient), Head(pipeline))
      BY <2>1 DEF TrueAnswer
    <3> QED BY <2>1, <3>1, FirstResponse
  <2>3. Answered' = {}
    <3>1. Len(toClient') = 0
      BY <2>2, EmptySeq
    <3> QED BY <3>1 DEF Answered
  <2> QED BY <1>2, <1>5, <2>2, <2>3 DEF OnWriteStreamHandshakeComplete, device, Idles
<1>6. CASE OnWriteStreamBroken
  BY <1>3, <1>6 DEF OnWriteStreamBroken, Break, device, Idles
<1>7. CASE BackoffElapses
  <2>1. UNCHANGED <<handshake, toClient, pipeline>>
    BY <1>7 DEF BackoffElapses, wires
  <2>2. Answered' = Answered
    BY <2>1 DEF Answered
  <2> QED BY <1>7, <2>2 DEF BackoffElapses, device, Idles
<1>8. CASE IdleTimeout
  <2>1. stream.idle /\ handshake' = FALSE
    BY <1>8 DEF IdleTimeout
  <2>2. pipeline = <<>>
    BY <1>1, <2>1 DEF WireInv
  <2>3. Answered = {} /\ Answered' = {}
    BY <1>3, <2>1, <2>2, AnsweredFacts
  <2> QED BY <1>8, <2>3 DEF IdleTimeout, device, Idles
<1>9. ASSUME NEW u \in Users, HandleCredentialChange(u) PROVE Idles
  BY <1>3, <1>9 DEF HandleCredentialChange, RestartNetwork, Break, Idles
<1>10. CASE StartProcess
  BY <1>3, <1>10 DEF StartProcess, RestartNetwork, Break, Idles
<1>11. CASE ServeHello
  <2>1. toServer # <<>> /\ Head(toServer) = Hello /\ handshake' = handshake
    BY <1>11 DEF ServeHello, Serve, network
  <2>2. ~handshake
    BY <2>1, FirstRequest
  <2>3. Answered' = Answered
    BY <1>2, <2>1, <2>2 DEF Answered
  <2> QED BY <1>11, <2>3 DEF ServeHello, Serve, device, Idles
<1>12. ASSUME NEW ver, WatchDocument(ver) PROVE Idles
  <2>1. UNCHANGED <<handshake, toClient, pipeline>>
    BY <1>12 DEF WatchDocument, wires, network
  <2>2. Answered' = Answered
    BY <2>1 DEF Answered
  <2> QED BY <1>12, <2>2 DEF WatchDocument, device, Idles
<1>13. CASE UNCHANGED vars
  <2>1. UNCHANGED <<handshake, toClient, pipeline>>
    BY <1>13 DEF vars, wires, network
  <2>2. Answered' = Answered
    BY <2>1 DEF Answered
  <2> QED BY <1>13, <2>2 DEF vars, device, Idles
<1> QED BY <1>4, <1>5, <1>6, <1>7, <1>8, <1>9, <1>10, <1>11, <1>12, <1>13, Steps

\* What the server has of this device is the user's, and was not denied.
LogInv ==
    \A u \in Users : \A i \in 1..Len(log[u]) :
        log[u][i] \in Writes => log[u][i] \notin bad /\ owner[log[u][i]] = u

\* An entry that is appended, and the others.
LEMMA LogGrows ==
    ASSUME TypeOK, NEW t \in Users, NEW x \in AllWrites,
           log' = [log EXCEPT ![t] = Append(@, x)]
    PROVE  /\ Len(log[t]) \in Nat /\ Len(log'[t]) = Len(log[t]) + 1
           /\ log'[t] = Append(log[t], x) /\ log[t] \in Seq(AllWrites)
           /\ log'[t][Len(log[t]) + 1] = x
           /\ \A i \in 1..Len(log[t]) : log'[t][i] = log[t][i]
           /\ \A u \in Users : u # t => log'[u] = log[u]
<1>1. /\ log[t] \in Seq(AllWrites) /\ log'[t] = Append(log[t], x)
      /\ \A u \in Users : u # t => log'[u] = log[u]
  BY DEF TypeOK
<1> QED BY <1>1, AppendFacts DEF Longer

\* Every step preserves it.
LEMMA LogNext ==
    ASSUME StoreInv, LogInv, [Next]_vars
    PROVE  LogInv'
<1>1. TypeOK
  BY DEF StoreInv
<1>2. ASSUME UNCHANGED <<owner, log, bad>> PROVE LogInv'
  BY <1>2 DEF LogInv
<1>3. ASSUME NEW w \in Writes, WriteMutations(w) PROVE LogInv'
  <2>1. /\ UNCHANGED <<log, bad>> /\ w \notin Issued
        /\ owner' = [owner EXCEPT ![w] = user]
        /\ owner \in [Writes -> Users \cup {Nobody}]
    BY <1>1, <1>3 DEF WriteMutations, TypeOK
  <2> SUFFICES ASSUME NEW u \in Users, NEW i \in 1..Len(log[u]), log[u][i] \in Writes
               PROVE  log[u][i] \notin bad /\ owner'[log[u][i]] = u
    BY <2>1 DEF LogInv
  <2>2. log[u][i] \notin bad /\ owner[log[u][i]] = u
    BY DEF LogInv
  <2>3. log[u][i] # w
    BY <2>1, <2>2, UsersAssumption DEF Issued
  <2> QED BY <2>1, <2>2, <2>3
<1>4. CASE OnWriteStreamMutationResult
  BY <1>2, <1>4, ResultFacts
<1>5. CASE OnWriteStreamDenied
  BY <1>2, <1>5, DeniedFacts
<1>6. ASSUME NEW t \in Users, NEW x \in AllWrites,
             x \in Writes => x \notin bad /\ owner[x] = t,
             log' = [log EXCEPT ![t] = Append(@, x)], UNCHANGED <<owner, bad>>
      PROVE  LogInv'
  <2> SUFFICES ASSUME NEW u \in Users, NEW i \in 1..Len(log'[u])
               PROVE  log'[u][i] \in Writes
                         => log'[u][i] \notin bad /\ owner[log'[u][i]] = u
    BY <1>6 DEF LogInv
  <2>1. /\ Len(log[t]) \in Nat /\ Len(log'[t]) = Len(log[t]) + 1
        /\ log'[t][Len(log[t]) + 1] = x
        /\ \A j \in 1..Len(log[t]) : log'[t][j] = log[t][j]
        /\ u # t => log'[u] = log[u]
    BY <1>1, <1>6, LogGrows
  <2>2. CASE u = t /\ i = Len(log[t]) + 1
    BY <1>6, <2>1, <2>2
  <2>3. CASE u = t /\ i # Len(log[t]) + 1
    <3>1. i \in 1..Len(log[t])
      BY <2>1, <2>3
    <3> QED BY <2>1, <2>3, <3>1 DEF LogInv
  <2>4. CASE u # t
    BY <2>1, <2>4 DEF LogInv
  <2> QED BY <2>2, <2>3, <2>4
<1>7. CASE ServeWrite
  <2> DEFINE w == Head(toServer)
  <2>1. /\ UNCHANGED <<owner, bad>> /\ w \in Writes /\ owner[w] = user
        /\ UNCHANGED log \/ (w \notin bad /\ log' = [log EXCEPT ![user] = Append(@, w)])
    BY <1>7, ServeFacts
  <2>2. user \in Users
    BY <1>1 DEF TypeOK
  <2> HIDE DEF w
  <2>3. w \in AllWrites
    BY <2>1, WriteNumbers
  <2> QED BY <1>2, <1>6, <2>1, <2>2, <2>3
<1>8. ASSUME NEW u \in Users, OtherWrites(u) PROVE LogInv'
  <2>1. others \in Nat /\ UNCHANGED <<owner, bad>>
    BY <1>1, <1>8, WriteBounds DEF OtherWrites, device, TypeOK
  <2>2. PICK x \in AllWrites \ Writes : log' = [log EXCEPT ![u] = Append(@, x)]
    BY <1>8, <2>1, OtherNumber
  <2> QED BY <1>6, <2>1, <2>2
<1>9. CASE Idles
  BY <1>2, <1>9 DEF Idles
<1> QED BY <1>3, <1>4, <1>5, <1>7, <1>8, <1>9, Moves

-----------------------------------------------------------------------------
(* On what the server rests. *)

\* The accepted writes of the user u that the server has carried out for good.
Settled(u) == {w \in Writes \ bad : owner[w] = u /\ (w \notin queue[u] \/ w \in Answered)}

\* The log l has w, and after it no earlier write.
Rests(l, w) ==
    \E v \in 1..Len(l) : l[v] = w /\ \A x \in 1..Len(l) : x > v => l[x] >= w

\* So has the log when w, or what comes after it, is appended.
LEMMA RestsAppend ==
    ASSUME NEW l \in Seq(AllWrites), NEW x \in AllWrites
    PROVE  /\ Rests(Append(l, x), x)
           /\ \A w \in Writes : w <= x /\ Rests(l, w) => Rests(Append(l, x), w)
<1> DEFINE m == Append(l, x)
           n == Len(l)
<1>1. n \in Nat /\ Len(m) = n + 1 /\ m[n + 1] = x /\ \A i \in 1..n : m[i] = l[i]
  BY AppendFacts DEF Longer
<1> HIDE DEF m
<1>2. Rests(m, x)
  <2>1. n + 1 \in 1..Len(m) /\ \A i \in 1..Len(m) : ~(i > n + 1)
    BY <1>1
  <2> QED BY <1>1, <2>1 DEF Rests
<1>3. ASSUME NEW w \in Writes, w <= x, Rests(l, w) PROVE Rests(m, w)
  <2>1. PICK v \in 1..n : l[v] = w /\ \A i \in 1..n : i > v => l[i] >= w
    BY <1>3 DEF Rests
  <2>2. v \in 1..Len(m) /\ m[v] = w
    BY <1>1, <2>1
  <2>3. ASSUME NEW i \in 1..Len(m), i > v PROVE m[i] >= w
    <3>1. CASE i \in 1..n
      BY <1>1, <2>1, <2>3, <3>1
    <3>2. CASE i = n + 1
      <4>1. x \in Nat /\ w \in Nat
        BY WriteNumbers
      <4> QED BY <1>1, <1>3, <3>2, <4>1
    <3> QED BY <1>1, <3>1, <3>2
  <2> QED BY <2>2, <2>3 DEF Rests
<1> QED BY <1>2, <1>3 DEF m

\* The log of each user rests on what is settled.
RestInv == \A u \in Users : \A w \in Settled(u) : Rests(log[u], w)

\* With the logs as they are, it is enough that nothing more is settled.
LEMMA RestKept ==
    ASSUME RestInv, UNCHANGED log, \A u \in Users : Settled(u)' \subseteq Settled(u)
    PROVE  RestInv'
BY DEF RestInv, Rests

\* A write that leaves the queue was answered, or denied.
LEMMA LeaveRests ==
    ASSUME StoreInv, RestInv, pipeline # <<>>, Head(pipeline) \in Answered,
           queue' = [queue EXCEPT ![user] = @ \ {Head(pipeline)}],
           UNCHANGED <<user, owner, batchId, nextId, log, bad>>,
           Answered' \subseteq Answered
    PROVE  RestInv'
<1>1. queue \in [Users -> SUBSET Writes] /\ user \in Users
  BY DEF StoreInv, TypeOK
<1>2. \A u \in Users : Settled(u)' \subseteq Settled(u)
  BY <1>1 DEF Settled
<1> QED BY <1>2, RestKept

\* Every step preserves the rest.
LEMMA RestNext ==
    ASSUME StoreInv, RestInv, [Next]_vars
    PROVE  RestInv'
<1>1. TypeOK /\ IssueInv
  BY DEF StoreInv
<1>2. user \in Users /\ queue \in [Users -> SUBSET Writes]
      /\ owner \in [Writes -> Users \cup {Nobody}]
  BY <1>1 DEF TypeOK
<1>3. ASSUME NEW w \in Writes, WriteMutations(w) PROVE RestInv'
  <2>1. /\ UNCHANGED <<log, bad>> /\ Answered' = Answered
        /\ owner' = [owner EXCEPT ![w] = user] /\ w \notin Issued
        /\ queue' = [queue EXCEPT ![user] = @ \cup {w}]
    BY <1>3, WriteAnswered DEF WriteMutations
  <2>2. w \notin Answered
    BY <2>1, AnsweredFacts
  <2>3. ASSUME NEW u \in Users, NEW v \in Settled(u)' PROVE v \in Settled(u)
    <3>1. v \in Writes \ bad /\ owner'[v] = u /\ (v \notin queue'[u] \/ v \in Answered)
      BY <2>1, <2>3 DEF Settled
    <3>2. v # w
      <4> SUFFICES ASSUME v = w PROVE FALSE
        OBVIOUS
      <4>1. u = user
        BY <1>2, <2>1, <3>1
      <4>2. w \in queue'[u]
        BY <1>2, <2>1, <4>1
      <4> QED BY <2>2, <3>1, <4>2
    <3>3. owner[v] = u /\ (v \notin queue[u] \/ v \in Answered)
      BY <1>2, <2>1, <3>1, <3>2
    <3> QED BY <3>1, <3>3 DEF Settled
  <2> QED BY <2>1, <2>3, RestKept
<1>4. CASE OnWriteStreamMutationResult
  BY <1>4, ResultFacts, ResultAnswered, LeaveRests
<1>5. CASE OnWriteStreamDenied
  BY <1>5, DeniedFacts, DeniedAnswered, LeaveRests
<1>6. CASE ServeWrite
  <2>1. PICK t \in Users : t = user
    BY <1>2
  <2> DEFINE w == Head(toServer)
  <2>2. /\ UNCHANGED <<owner, queue, bad>> /\ w \in Writes /\ owner[w] = t
        /\ w \in queue[t]
        /\ \/ w \in bad /\ UNCHANGED log
           \/ log' = [log EXCEPT ![t] = Append(@, w)]
        /\ Answered' = Answered \cup {w} /\ \A v \in Answered : v < w
    BY <1>6, <2>1, ServeFacts, ServeAnswered
  <2> HIDE DEF w
  <2>3. ASSUME NEW u \in Users PROVE Settled(u)' \subseteq Settled(u) \cup {w}
    BY <2>2 DEF Settled
  <2>4. CASE w \in bad /\ UNCHANGED log
    <3>1. \A u \in Users : w \notin Settled(u)'
      BY <2>2, <2>4 DEF Settled
    <3> QED BY <2>3, <2>4, <3>1, RestKept
  <2>5. CASE log' = [log EXCEPT ![t] = Append(@, w)]
    <3>1. w \in AllWrites
      BY <2>2, WriteNumbers
    <3>2. /\ log'[t] = Append(log[t], w) /\ log[t] \in Seq(AllWrites)
          /\ \A u \in Users : u # t => log'[u] = log[u]
      BY <1>1, <2>5, <3>1, LogGrows
    <3>4. ASSUME NEW v \in Settled(t)' PROVE v <= w
      <4>1. v = w \/ v \in Settled(t)
        BY <2>3, <3>4
      <4>2. w \in Nat /\ v \in Nat
        BY <2>2, <3>4, WriteBounds DEF Settled, Writes
      <4>3. CASE v \in Answered
        BY <2>2, <4>2, <4>3
      <4>4. CASE v \in Settled(t) /\ v \notin Answered
        <5>1. v \in Writes /\ owner[v] = t /\ v \notin queue[t]
          BY <4>4 DEF Settled
        <5>2. v < w
          BY <1>1, <2>2, <5>1 DEF IssueInv
        <5> QED BY <4>2, <5>2
      <4> QED BY <4>1, <4>2, <4>3, <4>4
    <3>5. ASSUME NEW u \in Users, NEW v \in Settled(u)' PROVE Rests(log'[u], v)
      <4>1. CASE u = t
        <5>1. v \in Writes /\ v <= w /\ (v = w \/ v \in Settled(t))
          BY <2>3, <3>4, <3>5, <4>1 DEF Settled
        <5>2. v = w \/ Rests(log[t], v)
          BY <5>1 DEF RestInv
        <5>3. Rests(Append(log[t], w), v)
          BY <3>1, <3>2, <5>1, <5>2, RestsAppend
        <5> QED BY <3>2, <4>1, <5>3
      <4>2. CASE u # t
        <5>1. owner[v] = u
          BY <2>2, <3>5 DEF Settled
        <5>2. v \in Settled(u)
          BY <2>2, <2>3, <3>5, <4>2, <5>1
        <5> QED BY <3>2, <4>2, <5>2 DEF RestInv
      <4> QED BY <4>1, <4>2
    <3> QED BY <3>5 DEF RestInv, Rests
  <2> QED BY <2>2, <2>4, <2>5
<1>7. ASSUME NEW t \in Users, OtherWrites(t) PROVE RestInv'
  <2>1. /\ UNCHANGED <<owner, queue, bad, handshake, toClient, pipeline>>
        /\ others \in Nat
    BY <1>1, <1>7, WriteBounds DEF OtherWrites, device, network, wires, TypeOK
  <2>2. \A u \in Users : Settled(u)' = Settled(u)
    BY <2>1 DEF Settled, Answered
  <2>3. PICK x \in AllWrites \ Writes : log' = [log EXCEPT ![t] = Append(@, x)]
    BY <1>7, <2>1, OtherNumber
  <2>4. /\ log'[t] = Append(log[t], x) /\ log[t] \in Seq(AllWrites)
        /\ \A u \in Users : u # t => log'[u] = log[u]
    BY <1>1, <2>3, LogGrows
  <2>5. ASSUME NEW u \in Users, NEW v \in Settled(u)' PROVE Rests(log'[u], v)
    <3>1. v \in Settled(u) /\ v \in Writes /\ v <= x
      BY <2>2, <2>3, <2>5, WriteNumbers DEF Settled
    <3>2. Rests(log[u], v)
      BY <3>1 DEF RestInv
    <3>3. CASE u = t
      <4>1. Rests(Append(log[t], x), v)
        BY <2>3, <2>4, <3>1, <3>2, <3>3, RestsAppend
      <4> QED BY <2>4, <3>3, <4>1
    <3>4. CASE u # t
      BY <2>4, <3>2, <3>4
    <3> QED BY <3>3, <3>4
  <2> QED BY <2>5 DEF RestInv, Rests
<1>8. CASE Idles
  <2>1. UNCHANGED <<owner, queue, bad, log>> /\ Answered' \subseteq Answered
    BY <1>8 DEF Idles
  <2>2. \A u \in Users : Settled(u)' \subseteq Settled(u)
    BY <2>1 DEF Settled
  <2> QED BY <2>1, <2>2, RestKept
<1> QED BY <1>3, <1>4, <1>5, <1>6, <1>7, <1>8, Moves

\* RestsOnLast: a write that has left the queue, and was not denied, was carried
\* out; what is sent again is sent with all that follows it.
THEOREM RestsCorrect == Spec => []RestsOnLast
<1>1. Init => RestInv
  <2> SUFFICES ASSUME Init PROVE RestInv
    OBVIOUS
  <2>1. owner = [w \in Writes |-> Nobody]
    BY DEF Init
  <2>2. \A u \in Users : Settled(u) = {}
    BY <2>1, UsersAssumption DEF Settled
  <2> QED BY <2>2 DEF RestInv
<1>2. StoreInv /\ RestInv /\ [Next]_vars => RestInv'
  BY RestNext
<1>3. StoreInv /\ RestInv => RestsOnLast
  <2> SUFFICES ASSUME StoreInv, RestInv, NEW u \in Users, NEW w \in Writes \ bad,
                      owner[w] = u, w \notin queue[u]
               PROVE  \E v \in DOMAIN log[u] :
                         log[u][v] = w /\ \A x \in DOMAIN log[u] : x > v => log[u][x] >= w
    BY DEF RestsOnLast
  <2>1. w \in Settled(u)
    BY DEF Settled
  <2>2. Rests(log[u], w)
    BY <2>1 DEF RestInv
  <2>3. log[u] \in Seq(AllWrites)
    BY DEF StoreInv, TypeOK
  <2>4. DOMAIN log[u] = 1..Len(log[u])
    BY <2>3, LenProperties
  <2> QED BY <2>2, <2>4 DEF Rests
<1> QED BY <1>1, <1>2, <1>3, StoreInductive, PTL DEF Spec

-----------------------------------------------------------------------------
(* How often a write is carried out. *)

\* How often the log l has the write w.
Times(w, l) == Cardinality({i \in DOMAIN l : l[i] = w})

\* An entry that is appended counts for its own write only.
LEMMA TimesFacts ==
    ASSUME NEW S, NEW l \in Seq(S), NEW w
    PROVE  /\ Times(w, l) \in Nat
           /\ \A x \in S : Times(w, Append(l, x)) =
                              IF x = w THEN Times(w, l) + 1 ELSE Times(w, l)
           /\ (\A i \in 1..Len(l) : l[i] # w) => Times(w, l) = 0
<1> DEFINE P == {i \in DOMAIN l : l[i] = w}
<1>1. DOMAIN l = 1..Len(l) /\ Len(l) \in Nat
  BY LenProperties
<1>2. IsFiniteSet(P)
  <2>1. IsFiniteSet(1..Len(l)) /\ P \in SUBSET (1..Len(l))
    BY <1>1, FS_Interval
  <2> QED BY <2>1, FS_Subset
<1>3. Cardinality(P) \in Nat
  BY <1>2, FS_CardinalityType
<1>4. ASSUME NEW x \in S
      PROVE  Times(w, Append(l, x)) = IF x = w THEN Times(w, l) + 1 ELSE Times(w, l)
  <2> DEFINE m == Append(l, x)
             n == Len(l) + 1
             Q == {i \in DOMAIN m : m[i] = w}
  <2>1. /\ DOMAIN m = 1..n /\ m[n] = x
        /\ \A i \in 1..Len(l) : m[i] = l[i]
    <3>1. m \in Seq(S) /\ Len(m) = n /\ m[n] = x /\ \A i \in 1..Len(l) : m[i] = l[i]
      BY AppendProperties
    <3>2. DOMAIN m = 1..Len(m)
      BY <3>1, LenProperties
    <3> QED BY <3>1, <3>2
  <2>2. n \notin P /\ \A i : i \in 1..n <=> i \in 1..Len(l) \/ i = n
    BY <1>1
  <2> HIDE DEF m, n
  <2>3. CASE x = w
    <3>1. Q = P \cup {n}
      BY <1>1, <2>1, <2>2, <2>3
    <3>2. Cardinality(P \cup {n}) = Cardinality(P) + 1
      <4> HIDE DEF P
      <4> QED BY <1>2, <2>2, FS_AddElement
    <3> QED BY <2>3, <3>1, <3>2 DEF Times, m
  <2>4. CASE x # w
    <3>1. Q = P
      BY <1>1, <2>1, <2>2, <2>4
    <3> QED BY <2>4, <3>1 DEF Times, m
  <2> QED BY <2>3, <2>4
<1>5. ASSUME \A i \in 1..Len(l) : l[i] # w PROVE Times(w, l) = 0
  <2>1. P = {}
    BY <1>1, <1>5
  <2> QED BY <2>1, FS_EmptySet DEF Times
<1> QED BY <1>3, <1>4, <1>5 DEF Times

\* The writes that are, or will be, sent, as far as the device can tell.
Pending == {w \in Issued : w \in queue[owner[w]] /\ w \notin Answered}

\* The breaks, and the results that were dropped.
Allowed == breaks + Cardinality(overtaken)

\* A write that was overtaken has left the queue; one that is pending has been
\* carried out once for each break at most, any other once more.
CountInv ==
    /\ overtaken \subseteq Issued
    /\ \A u \in Users : \A w \in queue[u] : w \notin overtaken
    /\ \A w \in Issued : Times(w, log[owner[w]]) <= 1 + Allowed
    /\ \A w \in Pending : Times(w, log[owner[w]]) <= Allowed

\* What is counted are numbers.
LEMMA CountFacts ==
    ASSUME StoreInv
    PROVE  /\ Allowed \in Nat /\ breaks \in Nat /\ Cardinality(overtaken) \in Nat
           /\ IsFiniteSet(overtaken)
           /\ \A w \in Issued : /\ owner[w] \in Users /\ w \in Writes
                                /\ log[owner[w]] \in Seq(AllWrites)
                                /\ Times(w, log[owner[w]]) \in Nat
<1>1. TypeOK
  BY DEF StoreInv
<1>2. breaks \in Nat /\ overtaken \in SUBSET Writes
  BY <1>1, BreakFacts DEF TypeOK
<1>3. IsFiniteSet(overtaken) /\ Cardinality(overtaken) \in Nat
  BY <1>2, Few
<1>4. ASSUME NEW w \in Issued
      PROVE  /\ owner[w] \in Users /\ w \in Writes
             /\ log[owner[w]] \in Seq(AllWrites)
             /\ Times(w, log[owner[w]]) \in Nat
  <2>1. /\ owner[w] \in Users /\ w \in Writes
        /\ log[owner[w]] \in Seq(AllWrites)
    BY <1>1 DEF TypeOK, Issued
  <2> QED BY <2>1, TimesFacts
<1> QED BY <1>2, <1>3, <1>4 DEF Allowed

\* With the logs as they are, pending writes may come back only for a break or for
\* a result that is dropped.
LEMMA CountKept ==
    ASSUME StoreInv, CountInv, UNCHANGED <<owner, log>>,
           overtaken' \subseteq Issued,
           \A u \in Users : \A w \in queue'[u] : w \notin overtaken',
           \/ Allowed' = Allowed /\ Pending' \subseteq Pending
           \/ Allowed' = Allowed + 1
    PROVE  CountInv'
<1>1. Issued' = Issued
  BY DEF Issued
<1>2. Allowed \in Nat /\ \A w \in Issued : Times(w, log[owner[w]]) \in Nat
  BY CountFacts
<1>3. Pending' \subseteq Issued
  BY <1>1 DEF Pending
<1>4. ASSUME NEW w \in Issued
      PROVE  /\ Times(w, log[owner[w]]) <= 1 + Allowed'
             /\ w \in Pending' => Times(w, log[owner[w]]) <= Allowed'
  <2>1. Times(w, log[owner[w]]) <= 1 + Allowed
    BY DEF CountInv
  <2>2. CASE Allowed' = Allowed /\ Pending' \subseteq Pending
    BY <2>1, <2>2 DEF CountInv
  <2>3. CASE Allowed' = Allowed + 1
    BY <1>2, <2>1, <2>3
  <2> QED BY <2>2, <2>3
<1>5. /\ \A w \in Issued' : Times(w, log'[owner'[w]]) <= 1 + Allowed'
      /\ \A w \in Pending' : Times(w, log'[owner'[w]]) <= Allowed'
  BY <1>1, <1>3, <1>4
<1>6. /\ overtaken' \subseteq Issued'
      /\ \A u \in Users : \A w \in queue'[u] : w \notin overtaken'
  BY <1>1
<1> QED BY <1>5, <1>6 DEF CountInv

\* Every step preserves the count.
LEMMA CountNext ==
    ASSUME StoreInv, LogInv, CountInv, [Next]_vars
    PROVE  CountInv'
<1>1. TypeOK /\ IssueInv
  BY DEF StoreInv
<1>2. /\ user \in Users /\ queue \in [Users -> SUBSET Writes]
      /\ owner \in [Writes -> Users \cup {Nobody}] /\ Allowed \in Nat
      /\ \A u \in Users : \A w \in queue[u] : owner[w] = u /\ w \in Issued
      /\ \A w \in Issued : owner[w] \in Users
  BY <1>1, QueueFacts, CountFacts DEF TypeOK
<1>3. ASSUME NEW w \in Writes, WriteMutations(w) PROVE CountInv'
  <2>1. /\ UNCHANGED <<log, overtaken, breaks>> /\ Answered' = Answered
        /\ owner' = [owner EXCEPT ![w] = user] /\ w \notin Issued
        /\ queue' = [queue EXCEPT ![user] = @ \cup {w}]
    BY <1>3, WriteAnswered DEF WriteMutations
  <2>2. /\ Issued' = Issued \cup {w} /\ owner'[w] = user
        /\ \A v \in Issued : v # w /\ v \in Writes /\ owner'[v] = owner[v]
    BY <1>2, <2>1, UsersAssumption DEF Issued
  <2>3. Allowed' = Allowed
    BY <2>1 DEF Allowed
  <2>4. /\ overtaken' \subseteq Issued'
        /\ \A u \in Users : \A v \in queue'[u] : v \notin overtaken'
    BY <1>2, <2>1, <2>2 DEF CountInv
  <2>5. Times(w, log[user]) = 0
    <3>1. log[user] \in Seq(AllWrites)
      BY <1>1, <1>2 DEF TypeOK
    <3>2. ASSUME NEW i \in 1..Len(log[user]) PROVE log[user][i] # w
      <4>1. owner[w] # user
        BY <1>2, <2>1, UsersAssumption DEF Issued
      <4> QED BY <1>2, <4>1 DEF LogInv
    <3> QED BY <3>1, <3>2, TimesFacts
  <2>6. ASSUME NEW v \in Issued' PROVE Times(v, log'[owner'[v]]) <= 1 + Allowed'
    <3>1. CASE v = w
      BY <1>2, <2>1, <2>2, <2>3, <2>5, <3>1
    <3>2. CASE v # w
      BY <2>1, <2>2, <2>3, <2>6, <3>2 DEF CountInv
    <3> QED BY <3>1, <3>2
  <2>7. ASSUME NEW v \in Pending' PROVE Times(v, log'[owner'[v]]) <= Allowed'
    <3>1. v \in Issued' /\ v \in queue'[owner'[v]] /\ v \notin Answered
      BY <2>1, <2>7 DEF Pending
    <3>2. CASE v = w
      BY <1>2, <2>1, <2>2, <2>3, <2>5, <3>2
    <3>3. CASE v # w
      <4>1. v \in Issued /\ owner'[v] = owner[v] /\ owner[v] \in Users
        BY <1>2, <2>2, <3>1, <3>3
      <4>2. v \in queue[owner[v]]
        BY <1>2, <2>1, <3>1, <3>3, <4>1
      <4>3. v \in Pending
        BY <3>1, <4>1, <4>2 DEF Pending
      <4> QED BY <2>1, <2>3, <4>1, <4>3 DEF CountInv
    <3> QED BY <3>2, <3>3
  <2> QED BY <2>4, <2>6, <2>7 DEF CountInv
<1>4. CASE OnWriteStreamMutationResult
  <2> DEFINE h == Head(pipeline)
  <2>1. /\ UNCHANGED <<owner, log, overtaken, breaks>>
        /\ queue' = [queue EXCEPT ![user] = @ \ {h}]
        /\ Answered' = Answered \ {h}
    BY <1>4, ResultFacts, ResultAnswered
  <2> HIDE DEF h
  <2>2. \A u \in Users : queue'[u] \subseteq queue[u]
    BY <1>2, <2>1
  <2>3. Pending' \subseteq Pending
    <3> SUFFICES ASSUME NEW v \in Pending' PROVE v \in Pending
      OBVIOUS
    <3>1. v \in Issued /\ v \in queue'[owner[v]] /\ v \notin Answered \ {h}
      BY <2>1 DEF Pending, Issued
    <3>2. v \in queue[owner[v]]
      BY <1>2, <2>2, <3>1
    <3>3. v # h
      <4> SUFFICES ASSUME v = h PROVE FALSE
        OBVIOUS
      <4>1. h \in queue[user]
        BY <1>4, AnsweredFacts, ResultAnswered DEF h
      <4>2. owner[v] = user
        BY <1>2, <4>1
      <4> QED BY <1>2, <2>1, <3>1, <4>2
    <3> QED BY <3>1, <3>2, <3>3 DEF Pending
  <2>4. Allowed' = Allowed
    BY <2>1 DEF Allowed
  <2>5. /\ overtaken' \subseteq Issued
        /\ \A u \in Users : \A v \in queue'[u] : v \notin overtaken'
    BY <2>1, <2>2 DEF CountInv
  <2> QED BY <2>1, <2>3, <2>4, <2>5, CountKept
<1>5. CASE OnWriteStreamDenied
  <2> DEFINE h == Head(pipeline)
  <2>1. /\ UNCHANGED <<owner, log, breaks>>
        /\ queue' = [queue EXCEPT ![user] = @ \ {h}]
        /\ \/ Len(toClient) = 1 /\ overtaken' = overtaken
           \/ overtaken' = overtaken \cup {h}
        /\ h \in Answered /\ Answered' = {} /\ (Len(toClient) = 1 => Answered = {h})
    BY <1>5, DeniedFacts, DeniedAnswered
  <2> HIDE DEF h
  <2>2. \A u \in Users : queue'[u] \subseteq queue[u]
    BY <1>2, <2>1
  <2>3. h \in queue[user] /\ h \in Issued /\ owner[h] = user
    BY <1>2, <2>1, AnsweredFacts
  <2>4. h \notin overtaken /\ overtaken' \subseteq Issued
    BY <1>2, <2>1, <2>3 DEF CountInv
  <2>5. ASSUME NEW u \in Users, NEW v \in queue'[u] PROVE v \notin overtaken'
    <3>1. v \in queue[u] /\ v \notin overtaken
      BY <2>2, <2>5 DEF CountInv
    <3>2. v # h
      <4> SUFFICES ASSUME v = h PROVE FALSE
        OBVIOUS
      <4>1. u = user
        BY <1>2, <2>3, <3>1
      <4> QED BY <1>2, <2>1, <2>5, <4>1
    <3> QED BY <2>1, <3>1, <3>2
  <2>6. CASE overtaken' = overtaken \cup {h}
    <3>1. Cardinality(overtaken \cup {h}) = Cardinality(overtaken) + 1
      BY <2>4, CountFacts, FS_AddElement
    <3>2. Allowed' = Allowed + 1
      BY <2>1, <2>6, <3>1, CountFacts DEF Allowed
    <3> QED BY <2>1, <2>4, <2>5, <3>2, CountKept
  <2>7. CASE Len(toClient) = 1 /\ overtaken' = overtaken
    <3>1. Allowed' = Allowed
      BY <2>1, <2>7 DEF Allowed
    <3>2. Pending' \subseteq Pending
      <4> SUFFICES ASSUME NEW v \in Pending' PROVE v \in Pending
        OBVIOUS
      <4>1. v \in Issued /\ v \in queue'[owner[v]]
        BY <2>1 DEF Pending, Issued
      <4>2. v \in queue[owner[v]]
        BY <1>2, <2>2, <4>1
      <4>3. v # h
        BY <1>2, <2>1, <2>3, <4>1
      <4> QED BY <2>1, <2>7, <4>1, <4>2, <4>3 DEF Pending
    <3> QED BY <2>1, <2>4, <2>5, <3>1, <3>2, CountKept
  <2> QED BY <2>1, <2>6, <2>7
<1>6. ASSUME NEW t \in Users, NEW x \in AllWrites,
             log' = [log EXCEPT ![t] = Append(@, x)],
             UNCHANGED <<owner, queue, overtaken, breaks>>,
             \/ x \notin Writes /\ Answered' = Answered
             \/ x \in Pending /\ owner[x] = t /\ Answered' = Answered \cup {x}
      PROVE  CountInv'
  <2>1. Allowed' = Allowed /\ Issued' = Issued
    BY <1>6 DEF Allowed, Issued
  <2>2. Pending' \subseteq Pending
    BY <1>6, <2>1 DEF Pending
  <2>3. log[t] \in Seq(AllWrites) /\ log'[t] = Append(log[t], x)
        /\ \A u \in Users : u # t => log'[u] = log[u]
    BY <1>1, <1>6, LogGrows
  <2>4. ASSUME NEW w \in Issued
        PROVE  /\ w # x => Times(w, log'[owner[w]]) = Times(w, log[owner[w]])
               /\ w = x => Times(w, log'[owner[w]]) = Times(w, log[owner[w]]) + 1
    <3>1. CASE owner[w] = t
      <4>1. /\ log[owner[w]] \in Seq(AllWrites)
            /\ log'[owner[w]] = Append(log[owner[w]], x)
        BY <2>3, <3>1
      <4>2. Times(w, Append(log[owner[w]], x)) =
               IF x = w THEN Times(w, log[owner[w]]) + 1 ELSE Times(w, log[owner[w]])
        BY <1>6, <4>1, TimesFacts
      <4> QED BY <4>1, <4>2
    <3>2. CASE owner[w] # t
      <4>1. w # x
        <5>1. w \in Writes
          BY DEF Issued
        <5> QED BY <1>6, <3>2, <5>1
      <4> QED BY <1>2, <2>3, <3>2, <4>1
    <3> QED BY <3>1, <3>2
  <2>5. ASSUME NEW w \in Issued
        PROVE  /\ Times(w, log'[owner[w]]) <= 1 + Allowed
               /\ w \in Pending' => Times(w, log'[owner[w]]) <= Allowed
    <3>1. CASE w # x
      BY <2>2, <2>4, <3>1 DEF CountInv
    <3>2. CASE w = x
      <4>1. x \in Writes
        BY <3>2 DEF Issued
      <4>2. w \in Pending /\ w \notin Pending'
        BY <1>6, <3>2, <4>1 DEF Pending
      <4>3. Times(w, log[owner[w]]) <= Allowed /\ Times(w, log[owner[w]]) \in Nat
        BY <4>2, CountFacts DEF CountInv
      <4> QED BY <1>2, <2>4, <3>2, <4>2, <4>3
    <3> QED BY <3>1, <3>2
  <2>6. \A w \in Issued' : Times(w, log'[owner'[w]]) <= 1 + Allowed'
    BY <1>6, <2>1, <2>5
  <2>7. \A w \in Pending' : Times(w, log'[owner'[w]]) <= Allowed'
    <3>1. Pending' \subseteq Issued
      BY <2>2 DEF Pending
    <3> QED BY <1>6, <2>1, <2>5, <3>1
  <2>8. /\ overtaken' \subseteq Issued'
        /\ \A u \in Users : \A w \in queue'[u] : w \notin overtaken'
    BY <1>6, <2>1 DEF CountInv
  <2> QED BY <2>6, <2>7, <2>8 DEF CountInv
<1>7. CASE ServeWrite
  <2> DEFINE w == Head(toServer)
  <2>1. /\ UNCHANGED <<owner, queue, overtaken, breaks>>
        /\ w \in Writes /\ owner[w] = user /\ w \in queue[user]
        /\ UNCHANGED log \/ log' = [log EXCEPT ![user] = Append(@, w)]
        /\ Answered' = Answered \cup {w} /\ w \notin Answered
    BY <1>7, ServeFacts, ServeAnswered
  <2> HIDE DEF w
  <2>2. w \in Pending
    BY <1>2, <2>1 DEF Pending
  <2>3. CASE UNCHANGED log
    <3>1. Pending' \subseteq Pending /\ Allowed' = Allowed
      BY <2>1 DEF Pending, Issued, Allowed
    <3>2. /\ overtaken' \subseteq Issued
          /\ \A u \in Users : \A v \in queue'[u] : v \notin overtaken'
      BY <2>1 DEF CountInv
    <3> QED BY <2>1, <2>3, <3>1, <3>2, CountKept
  <2>4. CASE log' = [log EXCEPT ![user] = Append(@, w)]
    <3>1. w \in AllWrites
      BY <2>1, WriteNumbers
    <3> QED BY <1>2, <1>6, <2>1, <2>2, <2>4, <3>1
  <2> QED BY <2>1, <2>3, <2>4
<1>8. ASSUME NEW t \in Users, OtherWrites(t) PROVE CountInv'
  <2>1. /\ UNCHANGED <<owner, queue, overtaken, breaks, handshake, toClient, pipeline>>
        /\ others \in Nat
    BY <1>1, <1>8, WriteBounds DEF OtherWrites, device, network, wires, TypeOK
  <2>2. Answered' = Answered
    BY <2>1 DEF Answered
  <2>3. PICK x \in AllWrites \ Writes : log' = [log EXCEPT ![t] = Append(@, x)]
    BY <1>8, <2>1, OtherNumber
  <2> QED BY <1>6, <2>1, <2>2, <2>3
<1>9. CASE Idles
  <2>1. /\ UNCHANGED <<owner, queue, log, overtaken>>
        /\ \/ breaks' = breaks /\ Answered' = Answered
           \/ breaks' = breaks + 1
    BY <1>9 DEF Idles
  <2>2. \/ Allowed' = Allowed /\ Pending' \subseteq Pending
        \/ Allowed' = Allowed + 1
    <3>1. CASE breaks' = breaks /\ Answered' = Answered
      BY <2>1, <3>1 DEF Allowed, Pending, Issued
    <3>2. CASE breaks' = breaks + 1
      BY <2>1, <3>2, CountFacts DEF Allowed
    <3> QED BY <2>1, <3>1, <3>2
  <2>3. /\ overtaken' \subseteq Issued
        /\ \A u \in Users : \A w \in queue'[u] : w \notin overtaken'
    BY <2>1 DEF CountInv
  <2> QED BY <2>1, <2>2, <2>3, CountKept
<1> QED BY <1>3, <1>4, <1>5, <1>7, <1>8, <1>9, Moves

\* ResentOnlyAfterBreak: each stream that ends early, and each result that is
\* dropped for a later status, costs one repetition at most.
THEOREM ResentBounded == Spec => []ResentOnlyAfterBreak
<1>1. Init => LogInv /\ CountInv
  <2> SUFFICES ASSUME Init PROVE LogInv /\ CountInv
    OBVIOUS
  <2>1. /\ owner = [w \in Writes |-> Nobody] /\ log = [u \in Users |-> <<>>]
        /\ queue = [u \in Users |-> {}] /\ overtaken = {}
    BY DEF Init
  <2>2. \A u \in Users : Len(log[u]) = 0
    BY <2>1
  <2>3. Issued = {} /\ Pending = {}
    BY <2>1 DEF Issued, Pending
  <2> QED BY <2>1, <2>2, <2>3 DEF LogInv, CountInv
<1>2. StoreInv /\ LogInv /\ CountInv /\ [Next]_vars => LogInv' /\ CountInv'
  BY LogNext, CountNext
<1>3. StoreInv /\ CountInv => ResentOnlyAfterBreak
  <2> SUFFICES ASSUME StoreInv, CountInv, NEW w \in Issued
               PROVE  Times(w, log[owner[w]]) <= 1 + breaks + Cardinality(overtaken)
    BY DEF ResentOnlyAfterBreak, Times
  <2>1. Times(w, log[owner[w]]) <= 1 + Allowed
    BY DEF CountInv
  <2> QED BY <2>1, CountFacts DEF Allowed
<1> QED BY <1>1, <1>2, <1>3, StoreInductive, PTL DEF Spec
=============================================================================
