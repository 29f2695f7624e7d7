----------------------- MODULE HyperH2ConnectorProofs -----------------------
(***************************************************************************)
(* The safety properties of HyperH2Connector, for every finite set of      *)
(* tasks, every limit on the senders and every capacity of the pool.       *)
(***************************************************************************)
EXTENDS HyperH2Connector, KeyLockProofs

\* Senders are of connections that were made, and the pool holds each of those once.
OnlyMade ==
  /\ \A t \in Tasks : pc[t] = "held" => conn[t] \in born
  /\ \A k \in Keys : Elements(pool[k]) \subseteq born /\ NoRepeats(pool[k])

\* The queue of a key can have one more connection and PoolSize still holds.
MayGrow(q) ==
  IF max_stream_sender = None THEN Len(q) = 0
  ELSE max_stream_sender >= 2 => Len(q) * (max_stream_sender - 1) <= Cardinality(Tasks) - 1

Dialling == {"connecting", "handshaking"}

\* A connection is being made only for a key that can have one more: it was looked for under
\* the lock, and under the lock the key's pool does not grow.
DialsNeeded == \A t \in Tasks : pc[t] \in Dialling => MayGrow(pool[key[t]])

\* The inductive invariant.
Inv ==
  /\ TypeOK
  /\ LockInv({"held"})
  /\ OnlyMade
  /\ StreamBound
  /\ PoolSize
  /\ DialsNeeded

\* The users that StreamBound allows a connection.
Limit == IF max_stream_sender < 2 THEN 1 ELSE max_stream_sender - 1

OnlyConnOf(t) == \A u \in Tasks \ {t} : conn'[u] = conn[u]

\* t may be where it has arrived, with what it has now.
Arrives(t, s) ==
  /\ s = "held" =>
       /\ conn'[t] \in born'
       /\ max_stream_sender # None /\ conn'[t] \notin cloned' =>
            Cardinality(Users(conn'[t])) < Limit
  /\ s \in Dialling => MayGrow(pool'[key'[t]])

\* The pool is as it must be, and as the tasks of U that are dialling need it.
PoolFine(U) ==
  /\ \A k \in Keys : Elements(pool'[k]) \subseteq born' /\ NoRepeats(pool'[k])
  /\ PoolSize'
  /\ \A u \in U : pc[u] \in Dialling => MayGrow(pool'[key[u]])

\* What a step of t gives to t is a connection that has not broken.
Gives(t) ==
  /\ \A u \in Tasks \ {t} : pc'[u] = "held" => pc[u] = "held"
  /\ pc'[t] = "held" => conn'[t] \notin broken
-----------------------------------------------------------------------------
(* Counting users. *)

\* The users of a connection.
LEMMA UsersFinite ==
  ASSUME NEW c
  PROVE  /\ IsFiniteSet(Users(c)) /\ Cardinality(Users(c)) \in Nat
         /\ IsFiniteSet(Tasks) /\ Cardinality(Tasks) \in Nat
<1>1. IsFiniteSet(Tasks) /\ Users(c) \in SUBSET Tasks
  BY HyperAssumption DEF Users
<1>2. IsFiniteSet(Users(c))
  BY <1>1, FS_Subset
<1> QED
  BY <1>1, <1>2, FS_CardinalityType

\* Adding one more to a product.
LEMMA OneMore ==
  ASSUME NEW n \in Nat, n > 0, NEW m \in Nat
  PROVE  n * m = (n - 1) * m + m
OBVIOUS

\* A shorter queue asks for less.
LEMMA Fewer ==
  ASSUME NEW a \in Int, NEW b \in Int, a <= b, NEW m \in Nat
  PROVE  a * m <= b * m
OBVIOUS

\* Connections that have m users each have as many between them as there are connections
\* times m: a task uses one connection.  By the least n for which the first n had fewer.
LEMMA UsersAddUp ==
  ASSUME NEW q \in Seq(Conns), NoRepeats(q), NEW m \in Nat, NEW T \in SUBSET Tasks,
         \A i \in DOMAIN q : Users(q[i]) \subseteq T /\ Cardinality(Users(q[i])) >= m
  PROVE  Len(q) * m <= Cardinality(T)
<1>1. Len(q) \in Nat /\ DOMAIN q = 1..Len(q)
  BY LenProperties
<1>2. PICK len \in Nat : len = Len(q)
  BY <1>1
<1> DEFINE Crowd(n) == {u \in Tasks : pc[u] = "held" /\ \E i \in 1..n : q[i] = conn[u]}
           Bad == {n \in Nat : n <= len /\ ~(n * m <= Cardinality(Crowd(n)))}
<1>3. ASSUME NEW n \in Nat
      PROVE  IsFiniteSet(Crowd(n)) /\ Cardinality(Crowd(n)) \in Nat
  <2>1. Crowd(n) \in SUBSET Tasks /\ IsFiniteSet(Tasks)
    BY HyperAssumption
  <2> HIDE DEF Crowd
  <2> QED
    BY <2>1, FS_Subset, FS_CardinalityType
<1>4. Bad = {}
  <2> SUFFICES ASSUME Bad # {} PROVE FALSE
    OBVIOUS
  <2>1. PICK n \in Bad : \A x \in Bad : ~(<<x, n>> \in OpToRel(<, Nat))
    <3>1. Bad \subseteq Nat
      OBVIOUS
    <3> HIDE DEF Bad
    <3> QED
      BY <3>1, NatLessThanWellFounded, WFMin, Zenon
  <2>2. n \in Nat /\ n <= len /\ ~(n * m <= Cardinality(Crowd(n)))
    OBVIOUS
  <2>3. \A x \in Bad : ~(x < n)
    <3>1. ASSUME NEW x \in Bad PROVE ~(x < n)
      <4>1. x \in Nat
        OBVIOUS
      <4> QED
        BY <2>1, <2>2, <4>1 DEF OpToRel
    <3> QED
      BY <3>1
  <2>4. CASE n = 0
    <3> HIDE DEF Crowd
    <3> QED
      BY <1>3, <2>2, <2>4
  <2>5. CASE n > 0
    <3>1. n - 1 \in Nat /\ n - 1 < n /\ n - 1 <= len /\ n \in DOMAIN q
      BY <1>1, <1>2, <2>2, <2>5
    <3>2. (n - 1) * m <= Cardinality(Crowd(n - 1))
      BY <2>3, <3>1
    <3>3. Crowd(n) = Crowd(n - 1) \cup Users(q[n])
      <4>1. \A i : i \in 1..n <=> i \in 1..(n - 1) \/ i = n
        BY <3>1
      <4> QED
        BY <4>1 DEF Users
    <3>4. Crowd(n - 1) \cap Users(q[n]) = {}
      <4>1. \A i \in 1..(n - 1) : i \in DOMAIN q /\ i # n
        BY <1>1, <1>2, <2>2, <3>1
      <4> QED
        BY <3>1, <4>1 DEF Users, NoRepeats
    <3>5. /\ IsFiniteSet(Crowd(n - 1)) /\ Cardinality(Crowd(n - 1)) \in Nat
          /\ Cardinality(Crowd(n)) \in Nat
      BY <1>3, <2>2, <3>1
    <3>6. IsFiniteSet(Users(q[n])) /\ Cardinality(Users(q[n])) \in Nat
      BY UsersFinite
    <3>7. Cardinality(Users(q[n])) >= m
      BY <3>1
    <3> HIDE DEF Crowd
    <3>8. Cardinality(Crowd(n)) = Cardinality(Crowd(n - 1)) + Cardinality(Users(q[n])) - 0
      BY <3>3, <3>4, <3>5, <3>6, FS_Union, FS_EmptySet
    <3>9. n * m = (n - 1) * m + m
      BY <2>2, <2>5, OneMore
    <3>10. (n - 1) * m \in Int /\ n * m \in Int
      BY <2>2
    <3> QED
      BY <2>2, <3>2, <3>5, <3>6, <3>7, <3>8, <3>9, <3>10
  <2> QED
    BY <2>2, <2>4, <2>5
<1>5. len * m <= Cardinality(Crowd(len))
  <2>1. len <= len
    OBVIOUS
  <2> HIDE DEF Crowd
  <2> QED
    BY <1>4, <2>1
<1>6. Crowd(len) \subseteq T
  BY <1>1, <1>2 DEF Users
<1>7. IsFiniteSet(T) /\ Cardinality(Crowd(len)) <= Cardinality(T) /\ Cardinality(T) \in Nat
  <2>1. IsFiniteSet(T)
    BY HyperAssumption, FS_Subset
  <2> HIDE DEF Crowd
  <2> QED
    BY <1>6, <2>1, FS_Subset, FS_CardinalityType
<1> HIDE DEF Crowd
<1>8. Cardinality(Crowd(len)) \in Nat /\ len * m \in Int
  BY <1>3
<1> QED
  BY <1>2, <1>5, <1>7, <1>8
-----------------------------------------------------------------------------
(* What a step does to the users and to the pool. *)

\* Types that the steps need.
LEMMA InvTypes ==
  ASSUME Inv
  PROVE  /\ pc \in [Tasks -> Places({"held"})]
         /\ key \in [Tasks -> Keys \cup {None}]
         /\ conn \in [Tasks -> Conns \cup {None}]
         /\ born \subseteq Conns /\ broken \subseteq born /\ cloned \subseteq born
         /\ pool \in [Keys -> Seq(Conns)]
BY DEF Inv, TypeOK, LockTypeOK, Places

\* The places of the connector, told apart.
LEMMA PlacesListed ==
  /\ "out" \in Places({"held"}) \ InLock /\ "held" \in Places({"held"}) \ InLock
  /\ Dialling \subseteq HasPermit /\ "granted" \in HasPermit
  /\ "out" \notin Dialling /\ "held" \notin Dialling /\ "queued" \notin Dialling
  /\ "granted" \notin Dialling /\ "connecting" \in Dialling /\ "handshaking" \in Dialling
BY AwaitsListed DEF Places, Dialling

\* Whoever is dialling does it for a key.
LEMMA DiallingKey ==
  ASSUME Inv, NEW t \in Tasks, pc[t] \in Dialling \cup {"granted"}
  PROVE  key[t] \in Keys
BY AwaitsListed DEF Inv, LockInv, KeyKnown, Dialling

\* The users of a connection after a step of task t.
LEMMA UsersAfter ==
  ASSUME NEW t \in Tasks, NEW s, Moved(t, s), OnlyConnOf(t), NEW c
  PROVE  Users(c)' = (Users(c) \ {t}) \cup IF s = "held" /\ conn'[t] = c THEN {t} ELSE {}
BY DEF Users, Moved, OnlyConnOf

\* One step of a task keeps the invariant if it keeps the parts above.
LEMMA TaskStep ==
  ASSUME Inv, TypeOK', LockInv({"held"})', NEW t \in Tasks, NEW s,
         Moved(t, s), OnlyKeyOf(t), OnlyConnOf(t), Arrives(t, s), PoolFine(Tasks \ {t}),
         born \subseteq born', cloned \subseteq cloned'
  PROVE  Inv'
<1>1. \A u \in Tasks \ {t} : /\ pc'[u] = pc[u] \/ (pc[u] = "queued" /\ pc'[u] = "granted")
                            /\ key'[u] = key[u] /\ conn'[u] = conn[u]
  BY DEF Moved, OnlyKeyOf, OnlyConnOf
<1>2. pc'[t] = s
  BY DEF Moved
<1>3. OnlyMade'
  <2>1. \A u \in Tasks : pc'[u] = "held" => conn'[u] \in born'
    BY <1>1, <1>2 DEF Inv, OnlyMade, Arrives
  <2> QED
    BY <2>1 DEF OnlyMade, PoolFine
<1>4. DialsNeeded'
  <2>1. \A u \in Tasks : pc'[u] \in Dialling => MayGrow(pool'[key'[u]])
    BY <1>1, <1>2, PlacesListed DEF Arrives, PoolFine
  <2> QED
    BY <2>1 DEF DialsNeeded, MayGrow
<1>5. StreamBound'
  <2> SUFFICES ASSUME max_stream_sender # None, NEW c \in Conns \ cloned'
               PROVE  Cardinality(Users(c)') <= Limit
    BY DEF StreamBound, Limit
  <2>1. Limit \in Nat
    BY HyperAssumption DEF Limit
  <2>2. Cardinality(Users(c)) <= Limit
    BY DEF Inv, StreamBound, Limit
  <2>3. PICK S : S = Users(c) \ {t}
    OBVIOUS
  <2>4. IsFiniteSet(Users(c)) /\ Cardinality(Users(c)) \in Nat
    BY UsersFinite
  <2>5. IsFiniteSet(S) /\ Cardinality(S) <= Cardinality(Users(c)) /\ Cardinality(S) \in Nat
    BY <2>3, <2>4, FS_Subset, FS_CardinalityType
  <2>6. CASE s = "held" /\ conn'[t] = c
    <3>1. Cardinality(Users(c)) < Limit
      BY <2>6 DEF Arrives
    <3>2. Users(c)' = S \cup {t} /\ t \notin S
      BY <2>3, <2>6, UsersAfter
    <3>3. Cardinality(S \cup {t}) = Cardinality(S) + 1
      BY <2>5, <3>2, FS_AddElement
    <3> QED
      BY <2>1, <2>4, <2>5, <3>1, <3>2, <3>3
  <2>7. CASE ~(s = "held" /\ conn'[t] = c)
    <3>1. Users(c)' = S
      BY <2>3, <2>7, UsersAfter
    <3> QED
      BY <2>1, <2>2, <2>4, <2>5, <3>1
  <2> QED
    BY <2>6, <2>7
<1> QED
  BY <1>3, <1>4, <1>5 DEF Inv, PoolFine

\* A queue that is no longer than one that may grow may grow, and one that is no longer than
\* one within PoolSize is.
LEMMA Shorter ==
  ASSUME NEW a \in Nat, NEW b \in Nat, a <= b
  PROVE  /\ max_stream_sender # None /\ max_stream_sender >= 2 =>
              /\ a * (max_stream_sender - 1) <= b * (max_stream_sender - 1)
              /\ (a - 1) * (max_stream_sender - 1) <= (b - 1) * (max_stream_sender - 1)
              /\ b * (max_stream_sender - 1) \in Int /\ (b - 1) * (max_stream_sender - 1) \in Int
              /\ a * (max_stream_sender - 1) \in Int /\ (a - 1) * (max_stream_sender - 1) \in Int
<1> SUFFICES ASSUME max_stream_sender # None, max_stream_sender >= 2
             PROVE  /\ a * (max_stream_sender - 1) <= b * (max_stream_sender - 1)
                    /\ (a - 1) * (max_stream_sender - 1) <= (b - 1) * (max_stream_sender - 1)
                    /\ b * (max_stream_sender - 1) \in Int
                    /\ (b - 1) * (max_stream_sender - 1) \in Int
                    /\ a * (max_stream_sender - 1) \in Int
                    /\ (a - 1) * (max_stream_sender - 1) \in Int
  OBVIOUS
<1>1. PICK m \in Nat : m = max_stream_sender - 1
  BY HyperAssumption
<1>2. a \in Int /\ b \in Int /\ a - 1 \in Int /\ b - 1 \in Int /\ a - 1 <= b - 1
  OBVIOUS
<1>3. a * m <= b * m /\ (a - 1) * m <= (b - 1) * m
  BY <1>2, Fewer
<1> QED
  BY <1>1, <1>2, <1>3

\* A step that at most takes connections out of the pool.
LEMMA Thinned ==
  ASSUME Inv, born \subseteq born',
         \A k \in Keys : /\ pool'[k] \in Seq(Conns) /\ Len(pool'[k]) <= Len(pool[k])
                         /\ Elements(pool'[k]) \subseteq Elements(pool[k])
                         /\ NoRepeats(pool'[k])
  PROVE  PoolFine(Tasks)
<1>1. \A k \in Keys : Elements(pool'[k]) \subseteq born' /\ NoRepeats(pool'[k])
  BY DEF Inv, OnlyMade
<1>2. \A k \in Keys : Len(pool'[k]) \in Nat /\ Len(pool[k]) \in Nat
  BY LenProperties, InvTypes
<1>3. Cardinality(Tasks) \in Nat
  BY UsersFinite
<1>4. ASSUME NEW k \in Keys, MayGrow(pool[k]) PROVE MayGrow(pool'[k])
  <2>1. PICK a \in Nat, b \in Nat : a = Len(pool'[k]) /\ b = Len(pool[k]) /\ a <= b
    BY <1>2
  <2>2. CASE max_stream_sender = None
    BY <1>4, <2>1, <2>2 DEF MayGrow
  <2>3. CASE max_stream_sender # None /\ max_stream_sender >= 2
    <3>1. PICK x \in Int, y \in Int : /\ x = a * (max_stream_sender - 1)
                                      /\ y = b * (max_stream_sender - 1) /\ x <= y
      BY <2>1, <2>3, Shorter
    <3>2. y <= Cardinality(Tasks) - 1
      BY <1>4, <2>1, <2>3, <3>1 DEF MayGrow
    <3>3. x <= Cardinality(Tasks) - 1
      BY <1>3, <3>1, <3>2
    <3> QED
      BY <2>1, <2>3, <3>1, <3>3 DEF MayGrow
  <2> QED
    BY <2>2, <2>3 DEF MayGrow
<1>5. PoolSize'
  <2> SUFFICES ASSUME NEW k \in Keys
               PROVE  IF max_stream_sender = None THEN Len(pool'[k]) <= 1
                      ELSE max_stream_sender >= 2 =>
                        (Len(pool'[k]) - 1) * (max_stream_sender - 1) <= Cardinality(Tasks) - 1
    BY DEF PoolSize
  <2>1. PICK a \in Nat, b \in Nat : a = Len(pool'[k]) /\ b = Len(pool[k]) /\ a <= b
    BY <1>2
  <2>2. CASE max_stream_sender = None
    BY <2>1, <2>2 DEF Inv, PoolSize
  <2>3. CASE max_stream_sender # None /\ max_stream_sender >= 2
    <3>1. PICK x \in Int, y \in Int : /\ x = (a - 1) * (max_stream_sender - 1)
                                      /\ y = (b - 1) * (max_stream_sender - 1) /\ x <= y
      BY <2>1, <2>3, Shorter
    <3>2. y <= Cardinality(Tasks) - 1
      BY <2>1, <2>3, <3>1 DEF Inv, PoolSize
    <3>3. x <= Cardinality(Tasks) - 1
      BY <1>3, <3>1, <3>2
    <3> QED
      BY <2>1, <2>3, <3>1, <3>3
  <2> QED
    BY <2>2, <2>3
<1>6. ASSUME NEW u \in Tasks, pc[u] \in Dialling PROVE MayGrow(pool'[key[u]])
  <2>1. PICK k \in Keys : k = key[u]
    BY <1>6, DiallingKey
  <2> QED
    BY <1>4, <1>6, <2>1 DEF Inv, DialsNeeded
<1> QED
  BY <1>1, <1>5, <1>6 DEF PoolFine

\* The pool of one key is thinned by retain.
LEMMA Retained ==
  ASSUME Inv, NEW k \in Keys, NEW keep, UNCHANGED born,
         pool' = [pool EXCEPT ![k] = Retain(pool[k], keep)]
  PROVE  PoolFine(Tasks) /\ pool' \in [Keys -> Seq(Conns)]
<1>1. pool \in [Keys -> Seq(Conns)]
  BY InvTypes
<1>2. \A j \in Keys : NoRepeats(pool[j])
  BY DEF Inv, OnlyMade
<1>3. PICK r : r = Retain(pool[k], keep)
  OBVIOUS
<1>4. /\ r \in Seq(Conns) /\ Len(r) <= Len(pool[k]) /\ NoRepeats(r)
      /\ Elements(r) \subseteq Elements(pool[k])
  BY <1>1, <1>2, <1>3, RetainProperties, RetainElements
<1>5. pool' \in [Keys -> Seq(Conns)] /\ \A j \in Keys : pool'[j] = IF j = k THEN r ELSE pool[j]
  BY <1>1, <1>3, <1>4
<1>6. \A j \in Keys : Len(pool[j]) <= Len(pool[j])
  BY <1>1, LenProperties
<1>7. \A j \in Keys : /\ pool'[j] \in Seq(Conns) /\ Len(pool'[j]) <= Len(pool[j])
                      /\ Elements(pool'[j]) \subseteq Elements(pool[j])
                      /\ NoRepeats(pool'[j])
  BY <1>1, <1>2, <1>4, <1>5, <1>6
<1> QED
  BY <1>5, <1>7, Thinned

\* A pool that is left alone.
LEMMA SamePool ==
  ASSUME Inv, born \subseteq born', UNCHANGED pool
  PROVE  PoolFine(Tasks)
<1>1. \A j \in Keys : pool[j] \in Seq(Conns) /\ NoRepeats(pool[j])
  BY InvTypes DEF Inv, OnlyMade
<1>2. \A j \in Keys : Len(pool[j]) <= Len(pool[j])
  BY <1>1, LenProperties
<1> QED
  BY <1>1, <1>2, Thinned
-----------------------------------------------------------------------------
(* try_get!. *)

\* The ready connections of a key are in its pool and have not broken.
LEMMA ReadyFacts ==
  ASSUME Inv, NEW k \in Keys
  PROVE  /\ Ready(k) \in Seq(Conns) /\ NoRepeats(Ready(k))
         /\ Elements(Ready(k)) = Elements(pool[k]) \ broken
<1>1. pool[k] \in Seq(Conns) /\ NoRepeats(pool[k])
  BY InvTypes DEF Inv, OnlyMade
<1>2. /\ Ready(k) \in Seq(Conns) /\ NoRepeats(Ready(k))
      /\ Elements(Ready(k)) = Elements(pool[k]) \cap (Conns \ broken)
  BY <1>1, RetainElements DEF Ready
<1>3. Elements(pool[k]) \subseteq Conns
  BY InvTypes DEF Inv, OnlyMade
<1> QED
  BY <1>2, <1>3

\* When no ready connection has room, each has all the users it can have, and none of them is
\* the task that looks: the key may have one more.
LEMMA NoneFree ==
  ASSUME Inv, NEW k \in Keys, NEW t \in Tasks, pc[t] # "held", Free(k) = {}
  PROVE  MayGrow(Ready(k))
<1>1. PICK q : q = Ready(k)
  OBVIOUS
<1>2. q \in Seq(Conns) /\ NoRepeats(q) /\ Elements(q) \subseteq Elements(pool[k])
  BY <1>1, ReadyFacts
<1>3. \A i \in DOMAIN q : q[i] \in Elements(q) /\ stream_full(q[i])
  BY <1>1 DEF Free, Elements
<1>4. Len(q) \in Nat /\ DOMAIN q = 1..Len(q)
  BY <1>2, LenProperties
<1>5. CASE max_stream_sender = None
  <2>1. DOMAIN q = {}
    BY <1>3, <1>5 DEF stream_full
  <2>2. Len(q) = 0
    BY <1>4, <2>1
  <2> QED
    BY <1>1, <1>5, <2>2 DEF MayGrow
<1>6. CASE max_stream_sender # None /\ max_stream_sender >= 2
  <2>1. PICK m \in Nat : m = max_stream_sender - 1
    BY <1>6, HyperAssumption
  <2>2. PICK T \in SUBSET Tasks : T = Tasks \ {t}
    OBVIOUS
  <2>3. ASSUME NEW i \in DOMAIN q
        PROVE  Users(q[i]) \subseteq T /\ Cardinality(Users(q[i])) >= m
    <3>1. Users(q[i]) \subseteq T
      BY <2>2 DEF Users
    <3>2. Pooled(q[i])
      BY <1>2, <1>3 DEF Pooled
    <3>3. Senders(q[i]) >= max_stream_sender
      BY <1>3 DEF stream_full
    <3>4. Cardinality(Users(q[i])) + 1 >= max_stream_sender
      BY <3>2, <3>3 DEF Senders
    <3>5. Cardinality(Users(q[i])) \in Nat
      BY UsersFinite
    <3> QED
      BY <1>6, <2>1, <3>1, <3>4, <3>5, HyperAssumption
  <2>4. Len(q) * m <= Cardinality(T)
    BY <1>2, <2>3, UsersAddUp
  <2>5. Cardinality(T) = Cardinality(Tasks) - 1
    BY <2>2, HyperAssumption, FS_RemoveElement
  <2> QED
    BY <1>1, <1>6, <2>1, <2>4, <2>5 DEF MayGrow
<1> QED
  BY <1>1, <1>5, <1>6 DEF MayGrow

\* The connection that try_get! returns has room for one more user and has not broken.
LEMMA TryGetFacts ==
  ASSUME Inv, NEW t \in Tasks, NEW k \in Keys, TryGet(t, k)
  PROVE  /\ UNCHANGED <<born, broken, cloned>>
         /\ PoolFine(Tasks) /\ pool' \in [Keys -> Seq(Conns)]
         /\ conn' \in [Tasks -> Conns \cup {None}] /\ OnlyConnOf(t)
         /\ conn'[t] \in born \ broken
         /\ max_stream_sender # None => Cardinality(Users(conn'[t])) < Limit
<1>1. UNCHANGED <<born, broken, cloned>> /\ pool' = [pool EXCEPT ![k] = Ready(k)]
  BY DEF TryGet
<1>2. PoolFine(Tasks) /\ pool' \in [Keys -> Seq(Conns)]
  BY <1>1, Retained DEF Ready
<1>3. PICK c \in Conns : c \in Free(k) /\ conn' = [conn EXCEPT ![t] = c]
  BY DEF TryGet, IsFirstFree
<1>4. /\ conn' \in [Tasks -> Conns \cup {None}] /\ OnlyConnOf(t)
      /\ conn'[t] = c
  BY <1>3, InvTypes DEF OnlyConnOf
<1>5. c \in Elements(pool[k]) \ broken /\ ~stream_full(c)
  BY <1>3, ReadyFacts DEF Free
<1>6. c \in born
  BY <1>5 DEF Inv, OnlyMade
<1>7. ASSUME max_stream_sender # None PROVE Cardinality(Users(c)) < Limit
  <2>1. Pooled(c)
    BY <1>5 DEF Pooled
  <2>2. ~(Cardinality(Users(c)) + 1 >= max_stream_sender)
    BY <1>5, <1>7, <2>1 DEF stream_full, Senders
  <2>3. Cardinality(Users(c)) \in Nat /\ max_stream_sender \in Nat
    BY <1>7, UsersFinite, HyperAssumption
  <2> QED
    BY <2>2, <2>3 DEF Limit
<1> QED
  BY <1>1, <1>2, <1>4, <1>5, <1>6, <1>7

\* A look that finds none leaves a key that may have one more.
LEMMA TryGetNoneFacts ==
  ASSUME Inv, NEW t \in Tasks, pc[t] # "held", NEW k \in Keys, TryGetNone(k)
  PROVE  /\ UNCHANGED <<conn, born, broken, cloned>>
         /\ PoolFine(Tasks) /\ pool' \in [Keys -> Seq(Conns)]
         /\ MayGrow(pool'[k]) /\ OnlyConnOf(t)
<1>1. UNCHANGED <<conn, born, broken, cloned>> /\ pool' = [pool EXCEPT ![k] = Ready(k)]
  BY DEF TryGetNone
<1>2. PoolFine(Tasks) /\ pool' \in [Keys -> Seq(Conns)]
  BY <1>1, Retained DEF Ready
<1>3. pool'[k] = Ready(k)
  BY <1>1, InvTypes
<1>4. MayGrow(pool'[k])
  BY <1>3, NoneFree DEF TryGetNone
<1> QED
  BY <1>1, <1>2, <1>4 DEF OnlyConnOf

\* PoolFine for all tasks is PoolFine for the others.
LEMMA FineForOthers ==
  ASSUME NEW t, PoolFine(Tasks)
  PROVE  PoolFine(Tasks \ {t})
BY DEF PoolFine

\* The type invariant, from the parts that a step changes.
LEMMA TypesKept ==
  ASSUME Inv, LockInv({"held"})', conn' \in [Tasks -> Conns \cup {None}],
         born' \subseteq Conns, UNCHANGED broken, born \subseteq born', cloned' \subseteq born',
         pool' \in [Keys -> Seq(Conns)]
  PROVE  TypeOK'
BY InvTypes DEF TypeOK, LockInv

\* Of a step that moves t to s, Gives(t) says whether s is held.
LEMMA MovedGives ==
  ASSUME NEW t \in Tasks, NEW s, Moved(t, s), s = "held" => conn'[t] \notin broken
  PROVE  Gives(t)
BY DEF Moved, Gives
-----------------------------------------------------------------------------
(* The steps of connect. *)

\* connect, up to its first await.
LEMMA ConnectStep ==
  ASSUME Inv, NEW t \in Tasks, NEW k \in Keys, Connect(t, k)
  PROVE  Inv' /\ Gives(t)
<1>1. pc[t] = "out" /\ key' = [key EXCEPT ![t] = k]
  BY DEF Connect
<1>2. OnlyKeyOf(t) /\ key'[t] = k /\ pc[t] \notin InLock /\ LockInv({"held"})
  BY <1>1, InvTypes, AwaitsListed DEF OnlyKeyOf, Inv
<1>3. CASE TryGet(t, k) /\ pc' = [pc EXCEPT ![t] = "held"] /\ UNCHANGED <<permits, waiters>>
  <2>1. LockInv({"held"})'
    BY <1>2, <1>3, PlacesListed, LockUntouched
  <2>2. TypeOK'
    BY <1>3, <2>1, TryGetFacts, TypesKept, InvTypes
  <2>3. Moved(t, "held")
    BY <1>3, InvTypes DEF Moved
  <2>4. Arrives(t, "held")
    BY <1>3, TryGetFacts, PlacesListed DEF Arrives
  <2>5. Inv'
    BY <1>2, <1>3, <2>1, <2>2, <2>3, <2>4, TryGetFacts, FineForOthers, TaskStep
  <2> QED
    BY <1>3, <2>3, <2>5, TryGetFacts, MovedGives
<1>4. CASE TryGetNone(k) /\ Acquire(t, k, "connecting")
  <2>1. LockInv({"held"})'
    BY <1>2, <1>4, AwaitsListed, PermitAcquired
  <2>2. TypeOK'
    BY <1>1, <1>4, <2>1, TryGetNoneFacts, TypesKept, InvTypes
  <2>3. Moved(t, "connecting")
    BY <1>4, InvTypes DEF Moved, Acquire
  <2>4. Arrives(t, "connecting")
    BY <1>1, <1>2, <1>4, TryGetNoneFacts DEF Arrives
  <2>5. Inv'
    BY <1>1, <1>2, <1>4, <2>1, <2>2, <2>3, <2>4, TryGetNoneFacts, FineForOthers, TaskStep
  <2> QED
    BY <2>3, <2>5, MovedGives
<1>5. CASE TryGetNone(k) /\ Enqueue(t, k)
  <2>1. LockInv({"held"})'
    BY <1>2, <1>5, Enqueued
  <2>2. TypeOK'
    BY <1>1, <1>5, <2>1, TryGetNoneFacts, TypesKept, InvTypes
  <2>3. Moved(t, "queued")
    BY <1>5, InvTypes DEF Moved, Enqueue
  <2>4. Arrives(t, "queued")
    BY PlacesListed DEF Arrives
  <2>5. Inv'
    BY <1>1, <1>2, <1>5, <2>1, <2>2, <2>3, <2>4, TryGetNoneFacts, FineForOthers, TaskStep
  <2> QED
    BY <2>3, <2>5, MovedGives
<1> QED
  BY <1>3, <1>4, <1>5 DEF Connect

\* A waiter that was given the lock is polled.
LEMMA WakeStep ==
  ASSUME Inv, NEW t \in Tasks, Wake(t)
  PROVE  Inv' /\ Gives(t)
<1>1. pc[t] = "granted" /\ UNCHANGED key
  BY DEF Wake
<1>2. PICK k \in Keys : k = key[t]
  BY <1>1, DiallingKey
<1>3. OnlyKeyOf(t) /\ key'[t] = k /\ pc[t] \in HasPermit /\ LockInv({"held"})
  BY <1>1, <1>2, InvTypes, PlacesListed DEF OnlyKeyOf, Inv
<1>4. CASE TryGet(t, k) /\ Release(t, "held")
  <2>1. LockInv({"held"})'
    BY <1>3, <1>4, PlacesListed, PermitReleased
  <2>2. TypeOK'
    BY <1>4, <2>1, TryGetFacts, TypesKept, InvTypes
  <2>3. Moved(t, "held")
    BY <1>3, <1>4, PermitPassed
  <2>4. Arrives(t, "held")
    BY <1>4, TryGetFacts, PlacesListed DEF Arrives
  <2>5. Inv'
    BY <1>3, <1>4, <2>1, <2>2, <2>3, <2>4, TryGetFacts, FineForOthers, TaskStep
  <2> QED
    BY <1>4, <2>3, <2>5, TryGetFacts, MovedGives
<1>5. CASE /\ TryGetNone(k) /\ pc' = [pc EXCEPT ![t] = "connecting"]
           /\ UNCHANGED <<permits, waiters>>
  <2>1. LockInv({"held"})'
    BY <1>1, <1>3, <1>5, AwaitsListed, PermitKept
  <2>2. TypeOK'
    BY <1>1, <1>5, <2>1, TryGetNoneFacts, TypesKept, InvTypes
  <2>3. Moved(t, "connecting")
    BY <1>5, InvTypes DEF Moved
  <2>4. Arrives(t, "connecting")
    BY <1>1, <1>3, <1>5, TryGetNoneFacts DEF Arrives
  <2>5. Inv'
    BY <1>1, <1>3, <1>5, <2>1, <2>2, <2>3, <2>4, TryGetNoneFacts, FineForOthers, TaskStep
  <2> QED
    BY <2>3, <2>5, MovedGives
<1> QED
  BY <1>2, <1>4, <1>5 DEF Wake

\* The transport is there: the task goes on with the lock.
LEMMA DialledStep ==
  ASSUME Inv, NEW t \in Tasks, Dialled(t)
  PROVE  Inv' /\ Gives(t)
<1>1. /\ pc[t] = "connecting" /\ pc' = [pc EXCEPT ![t] = "handshaking"]
      /\ UNCHANGED <<key, permits, waiters, conn, born, broken, pool, cloned>>
  BY DEF Dialled, hyperVars
<1>2. LockInv({"held"})'
  BY <1>1, AwaitsListed, PermitKept DEF Inv
<1>3. TypeOK'
  BY <1>1, <1>2, TypesKept, InvTypes
<1>4. Moved(t, "handshaking") /\ OnlyKeyOf(t) /\ OnlyConnOf(t)
  BY <1>1, InvTypes DEF Moved, OnlyKeyOf, OnlyConnOf
<1>5. Arrives(t, "handshaking")
  BY <1>1, PlacesListed DEF Arrives, Inv, DialsNeeded
<1>6. Inv'
  BY <1>1, <1>2, <1>3, <1>4, <1>5, SamePool, FineForOthers, TaskStep
<1> QED
  BY <1>4, <1>6, MovedGives

\* connect ends without a connection, by an error or by being dropped.
LEMMA GoneStep ==
  ASSUME Inv, NEW t \in Tasks, LockInv({"held"})', Moved(t, "out"), OnlyKeyOf(t),
         UNCHANGED hyperVars
  PROVE  Inv' /\ Gives(t)
<1>1. UNCHANGED <<conn, born, broken, pool, cloned>>
  BY DEF hyperVars
<1>2. TypeOK'
  BY <1>1, TypesKept, InvTypes
<1>3. Arrives(t, "out") /\ OnlyConnOf(t)
  BY <1>1, PlacesListed DEF Arrives, OnlyConnOf
<1>4. Inv'
  BY <1>1, <1>2, <1>3, SamePool, FineForOthers, TaskStep
<1> QED
  BY <1>4, MovedGives

\* Dialling or the handshake fails: the mutex is released.
LEMMA FailedStep ==
  ASSUME Inv, NEW t \in Tasks, Failed(t)
  PROVE  Inv' /\ Gives(t)
<1>1. /\ pc[t] \in HasPermit /\ Release(t, "out") /\ key' = [key EXCEPT ![t] = None]
      /\ UNCHANGED hyperVars
  BY AwaitsListed DEF Failed
<1>2. OnlyKeyOf(t) /\ LockInv({"held"})
  BY <1>1, InvTypes DEF OnlyKeyOf, Inv
<1>3. LockInv({"held"})' /\ Moved(t, "out")
  BY <1>1, <1>2, PlacesListed, PermitReleased, PermitPassed
<1> QED
  BY <1>1, <1>2, <1>3, GoneStep

\* connect is dropped at one of its awaits.
LEMMA CancelStep ==
  ASSUME Inv, NEW t \in Tasks, Cancel(t)
  PROVE  Inv' /\ Gives(t)
<1>1. GiveUp(t) /\ UNCHANGED hyperVars /\ LockInv({"held"})
  BY DEF Cancel, Inv
<1>2. LockInv({"held"})' /\ Moved(t, "out") /\ OnlyKeyOf(t)
  BY <1>1, GivenUp, GivingUpMoves
<1> QED
  BY <1>1, <1>2, GoneStep

\* The handshake succeeds: the key's pool grows by one, which it may, and the lock keeps every
\* other task from counting on the pool it had.
LEMMA HandshakeOkStep ==
  ASSUME Inv, NEW t \in Tasks, NEW c \in Conns, HandshakeOk(t, c)
  PROVE  Inv' /\ Gives(t)
<1>1. /\ pc[t] = "handshaking" /\ c \notin born /\ born' = born \cup {c}
      /\ pool' = [pool EXCEPT ![key[t]] = PutInsert(pool[key[t]], c)]
      /\ conn' = [conn EXCEPT ![t] = c] /\ Release(t, "held")
      /\ UNCHANGED <<key, broken, cloned>>
  BY DEF HandshakeOk
<1>2. PICK k \in Keys : k = key[t]
  BY <1>1, DiallingKey, PlacesListed
<1>3. OnlyKeyOf(t) /\ pc[t] \in HasPermit /\ LockInv({"held"})
  BY <1>1, InvTypes, PlacesListed DEF OnlyKeyOf, Inv
<1>4. LockInv({"held"})' /\ Moved(t, "held")
  BY <1>1, <1>3, PlacesListed, PermitReleased, PermitPassed
<1>5. pool \in [Keys -> Seq(Conns)] /\ pool[k] \in Seq(Conns) /\ Len(pool[k]) \in Nat
  BY InvTypes, LenProperties
<1>6. PICK r : r = PutInsert(pool[k], c)
  OBVIOUS
<1>7. /\ r \in Seq(Conns) /\ Elements(r) \subseteq Elements(pool[k]) \cup {c}
      /\ NoRepeats(r)
  BY <1>1, <1>5, <1>6, InsertDistinct DEF Inv, OnlyMade
<1>8. Len(r) \in Nat /\ Len(r) - 1 <= Len(pool[k])
  <2>1. PICK n \in Nat : r = Append(PopFront(pool[k], n), c)
    BY <1>5, <1>6, PutInsertProperties
  <2>2. PICK p : p = PopFront(pool[k], n)
    OBVIOUS
  <2>3. /\ p \in Seq(Conns) /\ Len(p) \in Nat
        /\ Len(p) = IF n <= Len(pool[k]) THEN Len(pool[k]) - n ELSE 0
    BY <1>5, <2>2, PopFrontProperties, LenProperties
  <2>4. Len(r) = Len(p) + 1
    BY <2>1, <2>2, <2>3, AppendProperties
  <2> QED
    BY <1>5, <2>3, <2>4
<1>9. pool' \in [Keys -> Seq(Conns)] /\ \A j \in Keys : pool'[j] = IF j = k THEN r ELSE pool[j]
  BY <1>1, <1>2, <1>5, <1>6, <1>7
<1>10. MayGrow(pool[k])
  BY <1>1, <1>2, PlacesListed DEF Inv, DialsNeeded
<1>11. Cardinality(Tasks) \in Nat
  BY UsersFinite
<1>12. PoolFine(Tasks \ {t})
  <2>1. \A j \in Keys : Elements(pool'[j]) \subseteq born' /\ NoRepeats(pool'[j])
    BY <1>1, <1>7, <1>9 DEF Inv, OnlyMade
  <2>2. PoolSize'
    <3> SUFFICES ASSUME NEW j \in Keys
                 PROVE  IF max_stream_sender = None THEN Len(pool'[j]) <= 1
                        ELSE max_stream_sender >= 2 =>
                          (Len(pool'[j]) - 1) * (max_stream_sender - 1) <= Cardinality(Tasks) - 1
      BY DEF PoolSize
    <3>1. CASE j # k
      BY <1>9, <3>1 DEF Inv, PoolSize
    <3>2. CASE j = k /\ max_stream_sender = None
      BY <1>5, <1>8, <1>9, <1>10, <3>2 DEF MayGrow
    <3>3. CASE j = k /\ max_stream_sender # None /\ max_stream_sender >= 2
      <4>1. PICK m \in Nat : m = max_stream_sender - 1
        BY <3>3, HyperAssumption
      <4>2. PICK a, b : a = Len(r) - 1 /\ b = Len(pool[k])
        OBVIOUS
      <4>3. a \in Int /\ b \in Int /\ a <= b
        BY <1>5, <1>8, <4>2
      <4>4. a * m <= b * m
        BY <4>3, Fewer
      <4>5. b * m <= Cardinality(Tasks) - 1
        BY <1>10, <3>3, <4>1, <4>2 DEF MayGrow
      <4>6. PICK x \in Int, y \in Int : x = a * m /\ y = b * m
        BY <4>1, <4>3
      <4>7. a * m <= Cardinality(Tasks) - 1
        BY <1>11, <4>4, <4>5, <4>6
      <4> QED
        BY <1>9, <3>3, <4>1, <4>2, <4>7
    <3> QED
      BY <3>1, <3>2, <3>3
  <2>3. ASSUME NEW u \in Tasks \ {t}, pc[u] \in Dialling PROVE MayGrow(pool'[key[u]])
    <3>1. PICK j \in Keys : j = key[u]
      BY <2>3, DiallingKey
    <3>2. j # k
      BY <1>2, <1>3, <2>3, <3>1, PlacesListed DEF LockInv, OnePermit, Holders
    <3> QED
      BY <1>9, <2>3, <3>1, <3>2 DEF Inv, DialsNeeded
  <2> QED
    BY <2>1, <2>2, <2>3 DEF PoolFine
<1>13. conn' \in [Tasks -> Conns \cup {None}] /\ OnlyConnOf(t) /\ conn'[t] = c
  BY <1>1, InvTypes DEF OnlyConnOf
<1>14. TypeOK'
  BY <1>1, <1>4, <1>9, <1>13, TypesKept, InvTypes
<1>15. Arrives(t, "held")
  <2>1. Users(c) = {}
    BY <1>1 DEF Users, Inv, OnlyMade
  <2>2. Cardinality(Users(c)) = 0
    BY <2>1, FS_EmptySet
  <2>3. max_stream_sender # None => 0 < Limit
    BY HyperAssumption DEF Limit
  <2> QED
    BY <1>1, <1>13, <2>2, <2>3, PlacesListed DEF Arrives
<1>16. Inv'
  BY <1>1, <1>3, <1>4, <1>12, <1>13, <1>14, <1>15, TaskStep
<1>17. c \notin broken
  BY <1>1, InvTypes
<1> QED
  BY <1>4, <1>13, <1>16, <1>17, MovedGives
-----------------------------------------------------------------------------
(* The other steps. *)

\* A user drops its clone of the sender.
LEMMA DropSenderStep ==
  ASSUME Inv, NEW t \in Tasks, DropSender(t)
  PROVE  Inv' /\ Gives(t)
<1>1. /\ pc[t] = "held" /\ pc' = [pc EXCEPT ![t] = "out"] /\ conn' = [conn EXCEPT ![t] = None]
      /\ key' = [key EXCEPT ![t] = None]
      /\ UNCHANGED <<permits, waiters, born, broken, pool, cloned>>
  BY DEF DropSender
<1>2. OnlyKeyOf(t) /\ OnlyConnOf(t) /\ conn' \in [Tasks -> Conns \cup {None}] /\ Moved(t, "out")
  BY <1>1, InvTypes DEF OnlyKeyOf, OnlyConnOf, Moved
<1>3. LockInv({"held"})'
  BY <1>1, <1>2, PlacesListed, LockUntouched DEF Inv
<1>4. TypeOK'
  BY <1>1, <1>2, <1>3, TypesKept, InvTypes
<1>5. Arrives(t, "out")
  BY PlacesListed DEF Arrives
<1>6. Inv'
  BY <1>1, <1>2, <1>3, <1>4, <1>5, SamePool, FineForOthers, TaskStep
<1> QED
  BY <1>2, <1>6, MovedGives

\* A user's own copy: the connection counts as cloned from then on.
LEMMA CloneSenderStep ==
  ASSUME Inv, NEW t \in Tasks, NEW r \in Tasks, CloneSender(t, r)
  PROVE  Inv' /\ \A u \in Tasks \ {t} : pc'[u] = "held" => pc[u] = "held"
<1>1. /\ pc[t] = "out" /\ pc[r] = "held" /\ pc' = [pc EXCEPT ![t] = "held"]
      /\ key' = [key EXCEPT ![t] = key[r]] /\ conn' = [conn EXCEPT ![t] = conn[r]]
      /\ cloned' = cloned \cup {conn[r]}
      /\ UNCHANGED <<permits, waiters, born, broken, pool>>
  BY DEF CloneSender
<1>2. conn[r] \in born
  BY <1>1 DEF Inv, OnlyMade
<1>3. /\ OnlyKeyOf(t) /\ OnlyConnOf(t) /\ conn' \in [Tasks -> Conns \cup {None}]
      /\ Moved(t, "held") /\ conn'[t] = conn[r]
  BY <1>1, InvTypes DEF OnlyKeyOf, OnlyConnOf, Moved
<1>4. LockInv({"held"})'
  BY <1>1, <1>3, PlacesListed, AwaitsListed, LockUntouched DEF Inv
<1>5. TypeOK'
  BY <1>1, <1>2, <1>3, <1>4, TypesKept, InvTypes
<1>6. Arrives(t, "held")
  BY <1>1, <1>2, <1>3, PlacesListed DEF Arrives
<1>7. Inv'
  BY <1>1, <1>3, <1>4, <1>5, <1>6, SamePool, FineForOthers, TaskStep
<1> QED
  BY <1>3, <1>7 DEF Moved

\* Steps of no task: a connection breaks, entries expire, nothing happens.
LEMMA WorldStep ==
  ASSUME Inv, UNCHANGED <<lockVars, conn, born, cloned>>, broken' \subseteq born,
         PoolFine(Tasks), pool' \in [Keys -> Seq(Conns)]
  PROVE  Inv' /\ UNCHANGED pc
<1>1. UNCHANGED <<pc, key, permits, waiters, conn, born, cloned>>
  BY DEF lockVars
<1>2. LockInv({"held"})'
  BY LockStutters DEF Inv
<1>3. TypeOK'
  BY <1>1, <1>2, InvTypes DEF TypeOK, LockInv
<1>4. OnlyMade'
  BY <1>1 DEF Inv, OnlyMade, PoolFine
<1>5. StreamBound'
  BY <1>1 DEF Inv, StreamBound, Users
<1>6. DialsNeeded'
  BY <1>1 DEF DialsNeeded, PoolFine, MayGrow
<1> QED
  BY <1>1, <1>2, <1>3, <1>4, <1>5, <1>6 DEF Inv, PoolFine

\* A connection fails.
LEMMA BreakStep ==
  ASSUME Inv, NEW c \in Conns, Break(c)
  PROVE  Inv' /\ UNCHANGED pc
BY InvTypes, SamePool, WorldStep DEF Break

\* The idle task takes entries out of the pool.
LEMMA ExpireStep ==
  ASSUME Inv, NEW k \in Keys, NEW E \in SUBSET Conns, Expire(k, E)
  PROVE  Inv' /\ UNCHANGED pc
<1>1. /\ pool' = [pool EXCEPT ![k] = Retain(pool[k], Conns \ E)]
      /\ UNCHANGED <<lockVars, conn, born, broken, cloned>>
  BY DEF Expire
<1>2. PoolFine(Tasks) /\ pool' \in [Keys -> Seq(Conns)]
  BY <1>1, Retained
<1> QED
  BY <1>1, <1>2, InvTypes, WorldStep

\* Nothing happens.
LEMMA StutterStep ==
  ASSUME Inv, UNCHANGED vars
  PROVE  Inv' /\ UNCHANGED pc
<1>1. UNCHANGED <<lockVars, conn, born, broken, pool, cloned>>
  BY DEF vars, hyperVars
<1> QED
  BY <1>1, InvTypes, SamePool, WorldStep

\* Init satisfies the invariant.
LEMMA InitInv == Init => Inv
<1> SUFFICES ASSUME Init PROVE Inv
  OBVIOUS
<1> USE DEF Init
<1>1. LockInv({"held"})
  BY LockInitInv
<1>2. \A t \in Tasks : pc[t] = "out"
  BY DEF LockInit
<1>3. \A k \in Keys : pool[k] = <<>> /\ DOMAIN pool[k] = {} /\ Len(pool[k]) = 0
  BY EmptySeq
<1>4. TypeOK
  BY <1>1, EmptySeq DEF TypeOK, LockInv
<1>5. OnlyMade /\ DialsNeeded
  BY <1>2, <1>3, PlacesListed DEF OnlyMade, DialsNeeded, Elements, NoRepeats
<1>6. StreamBound
  <2>1. \A c : Users(c) = {}
    BY <1>2 DEF Users
  <2>2. \A c : Cardinality(Users(c)) = 0
    BY <2>1, FS_EmptySet
  <2> QED
    BY <2>2, HyperAssumption DEF StreamBound
<1>7. PoolSize
  <2>1. Cardinality(Tasks) \in Nat
    BY UsersFinite
  <2>2. ASSUME max_stream_sender # None, max_stream_sender >= 2
        PROVE  (0 - 1) * (max_stream_sender - 1) <= Cardinality(Tasks) - 1
    BY <2>1, <2>2, HyperAssumption
  <2> QED
    BY <1>3, <2>2 DEF PoolSize
<1> QED
  BY <1>1, <1>4, <1>5, <1>6, <1>7 DEF Inv
-----------------------------------------------------------------------------
(* The theorems. *)

\* A task comes to hold a connection that has not broken, or the copy of a sender.
GivesReady ==
  \A t \in Tasks :
    /\ pc[t] # "held" /\ pc'[t] = "held"
    /\ ~\E s \in Tasks : CloneSender(t, s)
    => conn'[t] \notin broken

\* Every step keeps the invariant, and gives what it must.
LEMMA NextInv ==
  ASSUME Inv, [Next]_vars
  PROVE  Inv' /\ GivesReady
<1>1. ASSUME NEW t \in Tasks, Inv', Gives(t) PROVE Inv' /\ GivesReady
  BY <1>1 DEF Gives, GivesReady
<1>2. ASSUME Inv', UNCHANGED pc PROVE Inv' /\ GivesReady
  BY <1>2 DEF GivesReady
<1>3. ASSUME NEW t \in Tasks, NEW k \in Keys, Connect(t, k) PROVE Inv' /\ GivesReady
  BY <1>1, <1>3, ConnectStep
<1>4. ASSUME NEW t \in Tasks, Complete(t) PROVE Inv' /\ GivesReady
  BY <1>1, <1>4, WakeStep, DialledStep, FailedStep, HandshakeOkStep DEF Complete
<1>5. ASSUME NEW t \in Tasks, Cancel(t) \/ DropSender(t) PROVE Inv' /\ GivesReady
  BY <1>1, <1>5, CancelStep, DropSenderStep
<1>6. ASSUME NEW t \in Tasks, NEW s \in Tasks, CloneSender(t, s) PROVE Inv' /\ GivesReady
  BY <1>6, CloneSenderStep DEF GivesReady
<1>7. ASSUME NEW c \in Conns, Break(c) PROVE Inv' /\ GivesReady
  BY <1>2, <1>7, BreakStep
<1>8. ASSUME NEW k \in Keys, NEW E \in SUBSET Conns, Expire(k, E) PROVE Inv' /\ GivesReady
  BY <1>2, <1>8, ExpireStep
<1>9. CASE UNCHANGED vars
  BY <1>2, <1>9, StutterStep
<1> QED
  BY <1>3, <1>4, <1>5, <1>6, <1>7, <1>8, <1>9 DEF Next

\* The invariant holds of every behaviour of the connector.
THEOREM Invariance == Spec => []Inv
<1>1. Inv /\ [Next]_vars => Inv'
  BY NextInv
<1> QED
  BY <1>1, InitInv, PTL DEF Spec

\* Every variable of the connector keeps its type.
THEOREM TypeCorrectness == Spec => []TypeOK
<1>1. Inv => TypeOK
  BY DEF Inv
<1> QED
  BY <1>1, Invariance, PTL

\* The mutex of a key is free or with one connect, however connects end.
THEOREM PermitConserved == Spec => []OnePermit
<1>1. Inv => OnePermit
  BY DEF Inv, LockInv
<1> QED
  BY <1>1, Invariance, PTL

\* A connection has at most max_stream_sender - 1 users, or the one it was made for, for any
\* number of tasks that share it, as long as none of them clones it: stream_full counts the
\* pool's own copy.
THEOREM Streams == Spec => []StreamBound
<1>1. Inv => StreamBound
  BY DEF Inv
<1> QED
  BY <1>1, Invariance, PTL

\* connect makes a connection only when the others of the key are full, which a finite number
\* of tasks can bring about only so often.
THEOREM PoolBounded == Spec => []PoolSize
<1>1. Inv => PoolSize
  BY DEF Inv
<1> QED
  BY <1>1, Invariance, PTL

\* What connect returns has not broken at that moment: try_get! filters the pool, and a new
\* connection is too young.
THEOREM HandedOutReady == Spec => ReturnsReady
<1>1. Inv /\ [Next]_vars => GivesReady
  BY NextInv
<1>2. ReturnsReady <=> [][GivesReady]_vars
  BY PTL DEF ReturnsReady, GivesReady
<1> QED
  BY <1>1, <1>2, Invariance, PTL DEF Spec
=============================================================================
