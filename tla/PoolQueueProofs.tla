-------------------------- MODULE PoolQueueProofs --------------------------
(***************************************************************************)
(* Facts about the queue operations of PoolQueue, for queues of any length *)
(* over any set of entries.  All of them say the same thing: what is left  *)
(* of a queue is a subqueue of it, its entries in their old order.         *)
(***************************************************************************)
EXTENDS PoolQueue, SequenceTheorems, FiniteSetTheorems, TLAPS

\* r is what is left of q when some of its entries are taken out.
SubqueueBy(f, r, q) ==
  /\ f \in [DOMAIN r -> DOMAIN q]
  /\ \A i, j \in DOMAIN r : i < j => f[i] < f[j]
  /\ \A i \in DOMAIN r : r[i] = q[f[i]]

IsSubqueue(r, q) == \E f : SubqueueBy(f, r, q)

\* A set of positions has an increasing enumeration, the one that retain walks.  By the
\* least n for which some I \subseteq 1..n had none.
LEMMA EnumerationExists ==
  \A n \in Nat : \A I \in SUBSET (1..n) :
    \E f \in [1..Cardinality(I) -> I] : IsEnumeration(f, I)
<1> DEFINE Good(I) == \E f \in [1..Cardinality(I) -> I] : IsEnumeration(f, I)
           Bad == {n \in Nat : \E I \in SUBSET (1..n) : ~Good(I)}
<1>1. SUFFICES Bad = {}
  OBVIOUS
<1>2. SUFFICES ASSUME Bad # {} PROVE FALSE
  OBVIOUS
<1>3. PICK n \in Bad : \A m \in Bad : ~(<<m, n>> \in OpToRel(<, Nat))
  <2>1. Bad \subseteq Nat
    OBVIOUS
  <2> HIDE DEF Bad
  <2> QED
    BY <1>2, <2>1, NatLessThanWellFounded, WFMin, Zenon
<1>4. n \in Nat /\ \A m \in Bad : ~(m < n)
  <2>1. n \in Nat
    OBVIOUS
  <2>2. ASSUME NEW m \in Bad PROVE ~(m < n)
    <3>1. m \in Nat
      OBVIOUS
    <3> QED
      BY <1>3, <2>1, <3>1, <2>2 DEF OpToRel
  <2> QED
    BY <2>1, <2>2
<1>5. PICK I \in SUBSET (1..n) : ~Good(I)
  OBVIOUS
<1>6. CASE n = 0
  <2>1. I = {}
    BY <1>6
  <2>2. Cardinality(I) = 0
    BY <2>1, FS_EmptySet
  <2>3. [x \in {} |-> x] \in [1..Cardinality(I) -> I]
    BY <2>1, <2>2
  <2>4. IsEnumeration([x \in {} |-> x], I)
    BY <2>1 DEF IsEnumeration
  <2> QED
    BY <1>5, <2>3, <2>4
<1>7. CASE n > 0 /\ n \notin I
  <2>1. n - 1 \in Nat /\ I \in SUBSET (1..(n - 1))
    BY <1>4, <1>7
  <2>2. n - 1 \in Bad
    BY <1>5, <2>1
  <2>3. n - 1 < n
    BY <1>4
  <2> HIDE DEF Bad
  <2> QED
    BY <1>4, <2>2, <2>3
<1>8. CASE n > 0 /\ n \in I
  <2> DEFINE J == I \ {n}
             c == Cardinality(J)
  <2>1. n - 1 \in Nat /\ J \in SUBSET (1..(n - 1))
    BY <1>4, <1>8
  <2>2. n - 1 \notin Bad
    <3>1. n - 1 < n
      BY <1>4
    <3> HIDE DEF Bad
    <3> QED
      BY <1>4, <3>1
  <2>3. PICK f \in [1..c -> J] : IsEnumeration(f, J)
    BY <2>1, <2>2
  <2>4. IsFiniteSet(J)
    <3>1. 1 \in Int /\ n - 1 \in Int
      BY <2>1
    <3>2. IsFiniteSet(1..(n - 1))
      BY <3>1, FS_Interval
    <3> QED
      BY <2>1, <3>2, FS_Subset
  <2>5. c \in Nat
    BY <2>4, FS_CardinalityType
  <2>6. I = J \cup {n} /\ n \notin J
    BY <1>8
  <2>7. Cardinality(I) = c + 1
    BY <2>4, <2>6, FS_AddElement
  <2> DEFINE g == [i \in 1..(c + 1) |-> IF i = c + 1 THEN n ELSE f[i]]
  <2> HIDE DEF c
  <2>8. g \in [1..Cardinality(I) -> I]
    BY <2>3, <2>5, <2>6, <2>7
  <2>9. IsEnumeration(g, I)
    <3>1. ASSUME NEW i \in 1..(c + 1), NEW j \in 1..(c + 1), i < j PROVE g[i] < g[j]
      <4>1. i \in 1..c /\ i # c + 1
        BY <2>5, <3>1
      <4>2. g[i] = f[i] /\ f[i] \in J /\ f[i] \in 1..(n - 1)
        BY <2>1, <2>3, <4>1
      <4>3. CASE j = c + 1
        BY <1>4, <4>2, <4>3
      <4>4. CASE j # c + 1
        BY <2>3, <2>5, <4>1, <4>2, <4>4, <3>1 DEF IsEnumeration
      <4> QED
        BY <4>3, <4>4
    <3>2. ASSUME NEW i \in I PROVE \E j \in 1..(c + 1) : g[j] = i
      <4>1. CASE i = n
        BY <2>5, <4>1
      <4>2. CASE i \in J
        <5>1. PICK j \in 1..c : f[j] = i
          BY <2>3, <4>2 DEF IsEnumeration
        <5>2. j \in 1..(c + 1) /\ j # c + 1
          BY <2>5
        <5> QED
          BY <5>1, <5>2
      <4> QED
        BY <2>6, <4>1, <4>2
    <3>3. DOMAIN g = 1..(c + 1)
      OBVIOUS
    <3> HIDE DEF g
    <3> QED
      BY <3>1, <3>2, <3>3 DEF IsEnumeration
  <2> QED
    BY <1>5, <2>8, <2>9
<1> QED
  BY <1>4, <1>6, <1>7, <1>8

\* Retain is well defined: its enumeration of the kept positions is one.
LEMMA EnumerationProperties ==
  ASSUME NEW n \in Nat, NEW I \in SUBSET (1..n)
  PROVE  /\ Enumeration(I) \in [1..Cardinality(I) -> I]
         /\ IsEnumeration(Enumeration(I), I)
         /\ Cardinality(I) \in 0..n
<1>1. \E f \in [1..Cardinality(I) -> I] : IsEnumeration(f, I)
  BY EnumerationExists
<1>2. 1 \in Int /\ n \in Int
  OBVIOUS
<1>3. IsFiniteSet(1..n) /\ Cardinality(1..n) = n
  BY <1>2, FS_Interval
<1>4. Cardinality(I) \in Nat /\ Cardinality(I) <= n
  BY <1>3, FS_Subset, FS_CardinalityType
<1> QED
  BY <1>1, <1>4 DEF Enumeration

\* VecDeque::retain keeps a subqueue: exactly the entries that are to be kept.
LEMMA RetainProperties ==
  ASSUME NEW S, NEW q \in Seq(S), NEW keep
  PROVE  /\ Retain(q, keep) \in Seq(S)
         /\ Len(Retain(q, keep)) <= Len(q)
         /\ IsSubqueue(Retain(q, keep), q)
         /\ \A i \in DOMAIN Retain(q, keep) : Retain(q, keep)[i] \in keep
         /\ \A i \in DOMAIN q : q[i] \in keep =>
              \E j \in DOMAIN Retain(q, keep) : Retain(q, keep)[j] = q[i]
<1> DEFINE n == Len(q)
           I == {i \in DOMAIN q : q[i] \in keep}
           f == Enumeration(I)
           c == Cardinality(I)
           r == [j \in DOMAIN f |-> q[f[j]]]
<1>1. n \in Nat /\ DOMAIN q = 1..n /\ \A i \in 1..n : q[i] \in S
  BY LenProperties
<1>2. I \in SUBSET (1..n)
  BY <1>1
<1>3. f \in [1..c -> I] /\ IsEnumeration(f, I) /\ c \in 0..n
  <2> HIDE DEF n, I
  <2> QED
    BY <1>1, <1>2, EnumerationProperties
<1>4. Retain(q, keep) = r
  BY DEF Retain
<1> HIDE DEF f, c
<1>5. DOMAIN f = 1..c /\ DOMAIN r = 1..c /\ \A j \in 1..c : f[j] \in I /\ r[j] = q[f[j]]
  BY <1>3
<1>6. \A j \in 1..c : r[j] \in S /\ r[j] \in keep
  BY <1>1, <1>5
<1>7. r \in Seq(S) /\ Len(r) = c
  BY <1>3, <1>5, <1>6
<1>8. SubqueueBy(f, r, q)
  BY <1>1, <1>2, <1>3, <1>5 DEF SubqueueBy, IsEnumeration
<1>9. ASSUME NEW i \in DOMAIN q, q[i] \in keep PROVE \E j \in DOMAIN r : r[j] = q[i]
  <2>1. i \in I
    BY <1>9
  <2>2. PICK j \in 1..c : f[j] = i
    BY <2>1, <1>3, <1>5 DEF IsEnumeration
  <2> QED
    BY <2>2, <1>5
<1> HIDE DEF r
<1> QED
  BY <1>1, <1>3, <1>4, <1>5, <1>6, <1>7, <1>8, <1>9 DEF IsSubqueue

\* The capacity the pool works with is a number, whatever max_idle it was built with.
LEMMA MaxIdleType == max_idle \in Nat
BY MaxIdleAssumption DEF max_idle, DEFAULT_KEEPALIVE_CONNS, MAX_KEEPALIVE_CONNS

\* pop_front, n times: the rest of the queue, which moves n positions to the front.
LEMMA PopFrontProperties ==
  ASSUME NEW S, NEW q \in Seq(S), NEW n \in Nat
  PROVE  /\ PopFront(q, n) \in Seq(S)
         /\ Len(PopFront(q, n)) = IF n <= Len(q) THEN Len(q) - n ELSE 0
         /\ \A i \in DOMAIN PopFront(q, n) :
              n + i \in DOMAIN q /\ PopFront(q, n)[i] = q[n + i]
         /\ IsSubqueue(PopFront(q, n), q)
<1> DEFINE r == PopFront(q, n)
<1>1. Len(q) \in Nat /\ DOMAIN q = 1..Len(q) /\ \A i \in 1..Len(q) : q[i] \in S
  BY LenProperties
<1> DEFINE m == n + 1
           l == Len(q)
<1>2. /\ r \in Seq(S)
      /\ Len(r) = IF m <= l THEN l - m + 1 ELSE 0
      /\ \A i \in 1..(l - m + 1) : r[i] = q[m + i - 1]
  <2>1. m \in Int /\ l \in Int /\ r = SubSeq(q, m, l)
    BY <1>1 DEF PopFront
  <2>2. \A i \in m..l : q[i] \in S
    BY <1>1
  <2> HIDE DEF m, l, r
  <2> QED
    BY <2>1, <2>2, SubSeqProperties
<1> HIDE DEF r
<1>3. Len(r) = IF n <= Len(q) THEN Len(q) - n ELSE 0
  <2>1. l \in Nat /\ m = n + 1
    BY <1>1
  <2>2. CASE m <= l
    <3>1. Len(r) = l - m + 1
      BY <1>2, <2>2
    <3> HIDE DEF m, l
    <3> QED
      BY <2>1, <2>2, <3>1 DEF l
  <2>3. CASE ~(m <= l)
    <3>1. Len(r) = 0
      BY <1>2, <2>3
    <3> HIDE DEF m, l
    <3> QED
      BY <2>1, <2>3, <3>1 DEF l
  <2> QED
    BY <2>2, <2>3
<1>4. DOMAIN r = 1..Len(r)
  BY <1>2, LenProperties
<1>5. ASSUME NEW i \in DOMAIN r PROVE n + i \in DOMAIN q /\ r[i] = q[n + i]
  <2>1. i \in 1..Len(r) /\ Len(r) \in Nat
    BY <1>2, <1>4, LenProperties
  <2>2. n <= Len(q) /\ Len(r) = Len(q) - n
    <3>1. CASE n <= Len(q)
      BY <1>3, <3>1
    <3>2. CASE ~(n <= Len(q))
      <4>1. Len(r) = 0
        BY <1>3, <3>2
      <4> QED
        BY <2>1, <4>1
    <3> QED
      BY <3>1, <3>2
  <2>3. i \in 1..(l - m + 1) /\ m + i - 1 = n + i /\ n + i \in 1..Len(q)
    BY <1>1, <2>1, <2>2
  <2> QED
    BY <1>1, <1>2, <2>3
<1>6. SubqueueBy([i \in DOMAIN r |-> n + i], r, q)
  <2>1. \A i, j \in DOMAIN r : i < j => n + i < n + j
    BY <1>4
  <2> QED
    BY <1>5, <2>1 DEF SubqueueBy
<1> QED
  BY <1>2, <1>3, <1>5, <1>6 DEF r, IsSubqueue

\* Drop for Pooled adds its entry at the back and pops only from a full queue; it leaves at
\* most max_idle entries, or the new one alone.
LEMMA DropInsertProperties ==
  ASSUME NEW S, NEW q \in Seq(S), NEW e \in S
  PROVE  /\ \E n \in Nat : /\ DropInsert(q, e) = Append(PopFront(q, n), e)
                           /\ n > 0 => Len(q) >= max_idle
         /\ Len(DropInsert(q, e)) <= IF max_idle = 0 THEN 1 ELSE max_idle
<1>1. Len(q) \in Nat /\ max_idle \in Nat
  BY LenProperties, MaxIdleType
<1>2. CASE Len(q) >= max_idle
  <2> DEFINE n == Len(q) - max_idle + 1
  <2>1. n \in Nat
    BY <1>1, <1>2
  <2>2. DropInsert(q, e) = Append(PopFront(q, n), e)
    BY <1>2 DEF DropInsert
  <2>3. Len(Append(PopFront(q, n), e)) = Len(PopFront(q, n)) + 1
    BY <2>1, PopFrontProperties, AppendProperties
  <2>4. Len(PopFront(q, n)) = IF n <= Len(q) THEN Len(q) - n ELSE 0
    BY <2>1, PopFrontProperties
  <2> HIDE DEF n
  <2>5. Len(DropInsert(q, e)) <= IF max_idle = 0 THEN 1 ELSE max_idle
    BY <1>1, <2>1, <2>2, <2>3, <2>4 DEF n
  <2> QED
    BY <1>2, <2>1, <2>2, <2>5
<1>3. CASE Len(q) < max_idle
  <2>1. PopFront(q, 0) = q
    BY SubSeqFull, <1>1 DEF PopFront
  <2>2. DropInsert(q, e) = Append(PopFront(q, 0), e)
    BY <1>1, <1>3, <2>1 DEF DropInsert
  <2>3. Len(DropInsert(q, e)) = Len(q) + 1
    BY <2>1, <2>2, AppendProperties
  <2> QED
    BY <1>1, <1>3, <2>2, <2>3
<1> QED
  BY <1>1, <1>2, <1>3

\* ConnectionPool::put does the same but leaves up to max_idle + 1 entries.
LEMMA PutInsertProperties ==
  ASSUME NEW S, NEW q \in Seq(S), NEW e \in S
  PROVE  /\ \E n \in Nat : /\ PutInsert(q, e) = Append(PopFront(q, n), e)
                           /\ n > 0 => Len(q) >= max_idle
         /\ Len(PutInsert(q, e)) <= max_idle + 1
<1>1. Len(q) \in Nat /\ max_idle \in Nat
  BY LenProperties, MaxIdleType
<1>2. CASE Len(q) > max_idle
  <2> DEFINE n == Len(q) - max_idle + 1
  <2>1. n \in Nat
    BY <1>1, <1>2
  <2>2. PutInsert(q, e) = Append(PopFront(q, n), e)
    BY <1>2 DEF PutInsert
  <2>3. Len(Append(PopFront(q, n), e)) = Len(PopFront(q, n)) + 1
    BY <2>1, PopFrontProperties, AppendProperties
  <2>4. Len(PopFront(q, n)) = IF n <= Len(q) THEN Len(q) - n ELSE 0
    BY <2>1, PopFrontProperties
  <2> HIDE DEF n
  <2>5. Len(PutInsert(q, e)) <= max_idle + 1
    BY <1>1, <2>1, <2>2, <2>3, <2>4 DEF n
  <2> QED
    BY <1>1, <1>2, <2>1, <2>2, <2>5
<1>3. CASE Len(q) <= max_idle
  <2>1. PopFront(q, 0) = q
    BY SubSeqFull, <1>1 DEF PopFront
  <2>2. PutInsert(q, e) = Append(PopFront(q, 0), e)
    BY <1>1, <1>3, <2>1 DEF PutInsert
  <2>3. Len(PutInsert(q, e)) = Len(q) + 1
    BY <2>1, <2>2, AppendProperties
  <2> QED
    BY <1>1, <1>3, <2>2, <2>3
<1> QED
  BY <1>1, <1>2, <1>3

\* Neither makes more room than it needs: a queue that was full is full again.
LEMMA InsertKeepsFull ==
  ASSUME NEW S, NEW q \in Seq(S), NEW e \in S, Len(q) >= max_idle
  PROVE  Len(DropInsert(q, e)) >= max_idle /\ Len(PutInsert(q, e)) >= max_idle
<1>1. Len(q) \in Nat /\ max_idle \in Nat
  BY LenProperties, MaxIdleType
<1>2. PICK n \in Nat : n = Len(q) - max_idle + 1
  BY <1>1
<1>3. Len(Append(PopFront(q, n), e)) = Len(PopFront(q, n)) + 1
  BY PopFrontProperties, AppendProperties
<1>4. Len(PopFront(q, n)) = IF n <= Len(q) THEN Len(q) - n ELSE 0
  BY PopFrontProperties
<1>5. Len(Append(PopFront(q, n), e)) >= max_idle
  BY <1>1, <1>2, <1>3, <1>4
<1>6. Len(Append(q, e)) >= max_idle
  BY <1>1, AppendProperties
<1>7. /\ DropInsert(q, e) = Append(PopFront(q, n), e)
      /\ PutInsert(q, e) = Append(PopFront(q, n), e) \/ PutInsert(q, e) = Append(q, e)
  BY <1>2 DEF DropInsert, PutInsert
<1> QED
  BY <1>5, <1>6, <1>7

\* What one step makes of a queue: r is what is left of q, with at most one entry of E
\* behind it.  Position i of r was position f[i] of q, or is new when f[i] is 0.
EvolvesBy(f, r, q, E) ==
  /\ f \in [DOMAIN r -> DOMAIN q \cup {0}]
  /\ \A i \in DOMAIN r : IF f[i] = 0 THEN r[i] \in E ELSE r[i] = q[f[i]]
  /\ \A i, j \in DOMAIN r : i < j => f[i] # 0 /\ (f[j] = 0 \/ f[i] < f[j])

Evolves(r, q, E) == \E f : EvolvesBy(f, r, q, E)

\* Taking entries out of a queue is a step of that kind, whatever E is.
LEMMA SubqueueEvolves ==
  ASSUME NEW S, NEW q \in Seq(S), NEW r, NEW E, IsSubqueue(r, q)
  PROVE  Evolves(r, q, E)
<1>1. PICK f : SubqueueBy(f, r, q)
  BY DEF IsSubqueue
<1>2. DOMAIN q = 1..Len(q) /\ Len(q) \in Nat
  BY LenProperties
<1>3. 0 \notin DOMAIN q
  BY <1>2
<1>4. EvolvesBy(f, r, q, E)
  BY <1>1, <1>3 DEF EvolvesBy, SubqueueBy
<1> QED
  BY <1>4 DEF Evolves

\* A queue that is left alone.
LEMMA SameEvolves ==
  ASSUME NEW S, NEW q \in Seq(S), NEW E
  PROVE  Evolves(q, q, E)
<1>1. SubqueueBy([i \in DOMAIN q |-> i], q, q)
  BY DEF SubqueueBy
<1> QED
  BY <1>1, SubqueueEvolves DEF IsSubqueue

\* And so are the two insertions.
LEMMA InsertEvolves ==
  ASSUME NEW S, NEW q \in Seq(S), NEW e \in S, NEW n \in Nat
  PROVE  /\ Append(PopFront(q, n), e) \in Seq(S)
         /\ Evolves(Append(PopFront(q, n), e), q, {e})
<1> DEFINE r == PopFront(q, n)
           a == Append(r, e)
           l == Len(r)
           f == [i \in 1..(l + 1) |-> IF i = l + 1 THEN 0 ELSE n + i]
<1>1. r \in Seq(S) /\ \A i \in DOMAIN r : n + i \in DOMAIN q /\ r[i] = q[n + i]
  BY PopFrontProperties
<1>2. l \in Nat /\ DOMAIN r = 1..l
  BY <1>1, LenProperties
<1> HIDE DEF r
<1>3. a \in Seq(S) /\ Len(a) = l + 1 /\ (\A i \in 1..l : a[i] = r[i]) /\ a[l + 1] = e
  BY <1>1, AppendProperties
<1>4. DOMAIN a = 1..(l + 1)
  BY <1>3, LenProperties
<1> HIDE DEF a, l
<1>5. \A i \in 1..(l + 1) : i = l + 1 \/ i \in 1..l
  BY <1>2
<1>6. \A i \in 1..l : n + i # 0 /\ i # l + 1
  BY <1>2
<1>7. f \in [DOMAIN a -> DOMAIN q \cup {0}]
  BY <1>1, <1>2, <1>4, <1>5
<1>8. ASSUME NEW i \in DOMAIN a PROVE IF f[i] = 0 THEN a[i] \in {e} ELSE a[i] = q[f[i]]
  BY <1>1, <1>2, <1>3, <1>4, <1>5, <1>6
<1>9. ASSUME NEW i \in DOMAIN a, NEW j \in DOMAIN a, i < j
      PROVE  f[i] # 0 /\ (f[j] = 0 \/ f[i] < f[j])
  BY <1>2, <1>4, <1>9
<1>10. EvolvesBy(f, a, q, {e})
  BY <1>7, <1>8, <1>9 DEF EvolvesBy
<1> QED
  BY <1>3, <1>10 DEF Evolves, r, a
-----------------------------------------------------------------------------
(* Queues whose entries are connections, or tasks: no entry is in one twice. *)

NoRepeats(q) == \A i, j \in DOMAIN q : q[i] = q[j] => i = j

\* The front of a queue that is not empty, and the rest of it.
LEMMA HeadAndTail ==
  ASSUME NEW S, NEW q \in Seq(S), q # <<>>
  PROVE  /\ Len(q) \in Nat \ {0} /\ DOMAIN q = 1..Len(q) /\ 1 \in DOMAIN q
         /\ Head(q) = q[1] /\ q[1] \in S
         /\ Tail(q) \in Seq(S) /\ DOMAIN Tail(q) = 1..(Len(q) - 1)
         /\ \A i \in DOMAIN Tail(q) : i + 1 \in DOMAIN q /\ Tail(q)[i] = q[i + 1]
         /\ \A i \in DOMAIN q : i # 1 => i - 1 \in DOMAIN Tail(q) /\ Tail(q)[i - 1] = q[i]
<1>1. Len(q) \in Nat /\ DOMAIN q = 1..Len(q)
  BY LenProperties
<1>2. Len(q) # 0
  BY EmptySeq
<1>3. Head(q) = q[1] /\ q[1] \in S
  BY <1>1, <1>2, HeadTailProperties
<1>4. /\ Tail(q) \in Seq(S) /\ Len(Tail(q)) = Len(q) - 1
      /\ \A i \in 1..Len(Tail(q)) : Tail(q)[i] = q[i + 1]
  BY HeadTailProperties
<1>5. DOMAIN Tail(q) = 1..(Len(q) - 1)
  BY <1>4, LenProperties
<1>6. \A i \in DOMAIN q : i # 1 => i - 1 \in DOMAIN Tail(q) /\ Tail(q)[i - 1] = q[i]
  <2>1. ASSUME NEW i \in DOMAIN q, i # 1
        PROVE  i - 1 \in DOMAIN Tail(q) /\ Tail(q)[i - 1] = q[i]
    <3>1. i - 1 \in 1..(Len(q) - 1) /\ (i - 1) + 1 = i
      BY <1>1, <2>1
    <3> QED
      BY <1>4, <1>5, <3>1
  <2> QED
    BY <2>1
<1> QED
  BY <1>1, <1>2, <1>3, <1>4, <1>5, <1>6

\* What is left of a queue has no entry it did not have, and none twice.
LEMMA SubqueueDistinct ==
  ASSUME NEW S, NEW q \in Seq(S), NEW r \in Seq(S), IsSubqueue(r, q)
  PROVE  /\ Elements(r) \subseteq Elements(q)
         /\ NoRepeats(q) => NoRepeats(r)
<1>1. PICK f : SubqueueBy(f, r, q)
  BY DEF IsSubqueue
<1>2. /\ \A i \in DOMAIN r : f[i] \in DOMAIN q /\ r[i] = q[f[i]]
      /\ \A i, j \in DOMAIN r : i < j => f[i] < f[j]
  BY <1>1 DEF SubqueueBy
<1>3. /\ DOMAIN q = 1..Len(q) /\ Len(q) \in Nat
      /\ DOMAIN r = 1..Len(r) /\ Len(r) \in Nat
  BY LenProperties
<1>4. ASSUME NoRepeats(q), NEW i \in DOMAIN r, NEW j \in DOMAIN r, r[i] = r[j] PROVE i = j
  <2>1. f[i] = f[j] /\ f[i] \in Int /\ f[j] \in Int
    BY <1>2, <1>3, <1>4 DEF NoRepeats
  <2>2. ~(i < j) /\ ~(j < i)
    BY <1>2, <2>1
  <2> QED
    BY <1>3, <2>2
<1> QED
  BY <1>2, <1>4 DEF Elements, NoRepeats

\* retain, by elements.
LEMMA RetainElements ==
  ASSUME NEW S, NEW q \in Seq(S), NEW keep
  PROVE  /\ Retain(q, keep) \in Seq(S)
         /\ Elements(Retain(q, keep)) = Elements(q) \cap keep
         /\ NoRepeats(q) => NoRepeats(Retain(q, keep))
<1> DEFINE r == Retain(q, keep)
<1>1. /\ r \in Seq(S) /\ IsSubqueue(r, q)
      /\ \A i \in DOMAIN r : r[i] \in keep
      /\ \A i \in DOMAIN q : q[i] \in keep => \E j \in DOMAIN r : r[j] = q[i]
  BY RetainProperties
<1> HIDE DEF r
<1>2. Elements(r) \subseteq Elements(q) /\ (NoRepeats(q) => NoRepeats(r))
  BY <1>1, SubqueueDistinct
<1>3. Elements(r) = Elements(q) \cap keep
  <2>1. Elements(r) \subseteq keep
    BY <1>1 DEF Elements
  <2>2. ASSUME NEW x \in Elements(q), x \in keep PROVE x \in Elements(r)
    BY <1>1, <2>2 DEF Elements
  <2> QED
    BY <1>2, <2>1, <2>2
<1> QED
  BY <1>1, <1>2, <1>3 DEF r

\* A queue of one entry keeps it or becomes empty.
LEMMA RetainSingle ==
  ASSUME NEW S, NEW q \in Seq(S), NEW keep, Len(q) <= 1
  PROVE  /\ Retain(q, keep) \in Seq(S)
         /\ Len(Retain(q, keep)) <= 1
         /\ Retain(q, keep) = q \/ Retain(q, keep) = <<>>
         /\ Retain(q, keep) # <<>> => Head(q) \in keep
         /\ Retain(q, keep) = <<>> => Elements(q) \cap keep = {}
<1> DEFINE r == Retain(q, keep)
<1>1. /\ r \in Seq(S) /\ Len(r) <= Len(q) /\ Len(r) \in Nat /\ Len(q) \in Nat
      /\ DOMAIN r = 1..Len(r) /\ DOMAIN q = 1..Len(q)
      /\ Elements(r) = Elements(q) \cap keep
  BY RetainProperties, RetainElements, LenProperties
<1>2. CASE Len(r) = 0
  <2>1. r = <<>>
    BY <1>1, <1>2, EmptySeq
  <2>2. Elements(<<>>) = {}
    BY DEF Elements
  <2> QED
    BY <1>1, <1>2, <2>1, <2>2
<1>3. CASE Len(r) # 0
  <2>1. Len(r) = 1 /\ Len(q) = 1 /\ DOMAIN r = {1} /\ DOMAIN q = {1}
    BY <1>1, <1>3
  <2>2. q # <<>> /\ r # <<>>
    BY <2>1, EmptySeq
  <2>3. Elements(r) = {r[1]} /\ Elements(q) = {q[1]}
    BY <2>1 DEF Elements
  <2>4. r[1] = q[1] /\ q[1] \in keep /\ Head(q) = q[1]
    BY <1>1, <2>2, <2>3, HeadAndTail
  <2>5. r = q
    <3> HIDE DEF r
    <3> QED
      BY <1>1, <2>1, <2>4, SeqEqual
  <2> QED
    BY <1>1, <2>1, <2>2, <2>4, <2>5
<1> QED
  BY <1>2, <1>3

\* A queue of one entry.
LEMMA SingleEntry ==
  ASSUME NEW S, NEW q \in Seq(S), q # <<>>, Len(q) <= 1
  PROVE  q = <<Head(q)>> /\ Head(q) \in S /\ Elements(q) = {Head(q)}
<1>1. Len(q) = 1 /\ DOMAIN q = {1} /\ Head(q) = q[1] /\ q[1] \in S
  <2>1. Len(q) \in Nat \ {0} /\ DOMAIN q = 1..Len(q) /\ Head(q) = q[1] /\ q[1] \in S
    BY HeadAndTail
  <2>2. Len(q) = 1
    BY <2>1
  <2> QED
    BY <2>1, <2>2
<1>2. q = <<q[1]>>
  <2>1. <<q[1]>> \in Seq(S) /\ Len(<<q[1]>>) = 1 /\ <<q[1]>>[1] = q[1]
    BY <1>1
  <2> QED
    BY <1>1, <2>1, SeqEqual
<1>3. Elements(q) = {q[1]}
  BY <1>1 DEF Elements
<1> QED
  BY <1>1, <1>2, <1>3

\* The two insertions: what was in the queue and the new entry, which is there once.
LEMMA InsertDistinct ==
  ASSUME NEW S, NEW q \in Seq(S), NEW e \in S, NEW r,
         r = DropInsert(q, e) \/ r = PutInsert(q, e)
  PROVE  /\ r \in Seq(S)
         /\ Elements(r) \subseteq Elements(q) \cup {e}
         /\ e \notin Elements(q) /\ NoRepeats(q) => NoRepeats(r)
<1>1. PICK n \in Nat : r = Append(PopFront(q, n), e)
  BY DropInsertProperties, PutInsertProperties
<1>2. r \in Seq(S) /\ Evolves(r, q, {e})
  BY <1>1, InsertEvolves
<1>3. PICK f : EvolvesBy(f, r, q, {e})
  BY <1>2 DEF Evolves
<1>4. /\ DOMAIN q = 1..Len(q) /\ Len(q) \in Nat
      /\ DOMAIN r = 1..Len(r) /\ Len(r) \in Nat
  BY <1>2, LenProperties
<1>5. \A i \in DOMAIN r : \/ f[i] = 0 /\ r[i] = e
                          \/ f[i] # 0 /\ f[i] \in DOMAIN q /\ r[i] = q[f[i]]
  BY <1>3 DEF EvolvesBy
<1>6. \A i, j \in DOMAIN r : i < j => f[i] # 0 /\ (f[j] = 0 \/ f[i] < f[j])
  BY <1>3 DEF EvolvesBy
<1>7. Elements(r) \subseteq Elements(q) \cup {e}
  BY <1>5 DEF Elements
<1>8. ASSUME e \notin Elements(q), NoRepeats(q) PROVE NoRepeats(r)
  <2>1. ASSUME NEW i \in DOMAIN r, NEW j \in DOMAIN r, i < j PROVE r[i] # r[j]
    <3>1. f[i] \in DOMAIN q /\ r[i] = q[f[i]] /\ r[i] # e
      BY <1>5, <1>6, <1>8, <2>1 DEF Elements
    <3>2. CASE f[j] = 0
      BY <1>5, <3>1, <3>2
    <3>3. CASE f[j] # 0
      <4>1. f[i] # f[j] /\ f[j] \in DOMAIN q /\ r[j] = q[f[j]]
        BY <1>4, <1>5, <1>6, <2>1, <3>1, <3>3
      <4> QED
        BY <1>8, <3>1, <4>1 DEF NoRepeats
    <3> QED
      BY <3>2, <3>3
  <2>2. ASSUME NEW i \in DOMAIN r, NEW j \in DOMAIN r, r[i] = r[j] PROVE i = j
    <3>1. ~(i < j) /\ ~(j < i)
      BY <2>1, <2>2
    <3> QED
      BY <1>4, <3>1
  <2> QED
    BY <2>2 DEF NoRepeats
<1> QED
  BY <1>2, <1>7, <1>8

\* What they leave of the queue: all but n of its front, which they take from a full queue
\* only, and the new entry.
InsertedAfter(n, r, q, e) ==
  /\ n > 0 => Len(q) >= max_idle
  /\ \E j \in DOMAIN r : r[j] = e
  /\ \A i \in DOMAIN q : i > n => \E j \in DOMAIN r : r[j] = q[i]
  /\ \A j \in DOMAIN r : r[j] = e \/ \E i \in DOMAIN q : i > n /\ r[j] = q[i]

\* Both insertions do that.
LEMMA InsertedQueue ==
  ASSUME NEW S, NEW q \in Seq(S), NEW e \in S, NEW r,
         r = DropInsert(q, e) \/ r = PutInsert(q, e)
  PROVE  \E n \in Nat : InsertedAfter(n, r, q, e)
<1>1. PICK n \in Nat : r = Append(PopFront(q, n), e) /\ (n > 0 => Len(q) >= max_idle)
  BY DropInsertProperties, PutInsertProperties
<1>2. PICK p : p = PopFront(q, n)
  OBVIOUS
<1>3. /\ p \in Seq(S) /\ Len(p) = IF n <= Len(q) THEN Len(q) - n ELSE 0
      /\ \A i \in DOMAIN p : n + i \in DOMAIN q /\ p[i] = q[n + i]
  BY <1>2, PopFrontProperties
<1>4. /\ Len(q) \in Nat /\ DOMAIN q = 1..Len(q)
      /\ Len(p) \in Nat /\ DOMAIN p = 1..Len(p)
  BY <1>3, LenProperties
<1>5. /\ r \in Seq(S) /\ DOMAIN r = 1..(Len(p) + 1) /\ r[Len(p) + 1] = e
      /\ \A i \in 1..Len(p) : r[i] = p[i]
  BY <1>1, <1>2, <1>3, AppendProperties, LenProperties
<1>6. Len(p) + 1 \in DOMAIN r
  BY <1>4, <1>5
<1>7. ASSUME NEW i \in DOMAIN q, i > n PROVE \E j \in DOMAIN r : r[j] = q[i]
  <2>1. i \in 1..Len(q)
    BY <1>4
  <2>2. n <= Len(q)
    BY <1>4, <1>7, <2>1
  <2>3. Len(p) = Len(q) - n
    BY <1>3, <2>2
  <2>4. i - n \in 1..Len(p) /\ n + (i - n) = i
    BY <1>4, <1>7, <2>1, <2>3
  <2>5. i - n \in DOMAIN p /\ i - n \in DOMAIN r
    BY <1>4, <1>5, <2>4
  <2> QED
    BY <1>3, <1>5, <2>4, <2>5
<1>8. ASSUME NEW j \in DOMAIN r
      PROVE  r[j] = e \/ \E i \in DOMAIN q : i > n /\ r[j] = q[i]
  <2>1. CASE j = Len(p) + 1
    BY <1>5, <2>1
  <2>2. CASE j # Len(p) + 1
    <3>1. j \in 1..Len(p) /\ n + j > n
      BY <1>4, <1>5, <2>2
    <3> QED
      BY <1>3, <1>4, <1>5, <3>1
  <2> QED
    BY <2>1, <2>2
<1> QED
  BY <1>1, <1>5, <1>6, <1>7, <1>8 DEF InsertedAfter

\* The insertion into an empty queue, whatever its capacity.
LEMMA PutIntoEmpty ==
  ASSUME NEW S, NEW e \in S
  PROVE  PutInsert(<<>>, e) = <<e>>
<1>1. Len(<<>>) = 0 /\ <<>> \in Seq(S)
  BY EmptySeq
<1>2. ~(0 > max_idle)
  BY MaxIdleType
<1> QED
  BY <1>1, <1>2 DEF PutInsert
=============================================================================
