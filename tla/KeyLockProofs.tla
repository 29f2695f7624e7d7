--------------------------- MODULE KeyLockProofs ---------------------------
(***************************************************************************)
(* The lock of KeyLock, for any tasks and keys: every operation on it      *)
(* keeps its one permit and its queue of waiters in step with what the     *)
(* tasks are doing.  A connector's proof cites one lemma per operation.    *)
(***************************************************************************)
EXTENDS KeyLock, PoolQueueProofs

\* Awaits in which a task has a part in the lock: its permit, or a place in its queue.
InLock == HasPermit \cup {"queued"}

\* Whoever has a part in a lock is connecting to a key.
KeyKnown == \A t \in Tasks : pc[t] \in InLock => key[t] \in Keys

\* The lock's queue holds exactly the tasks that wait for it, each once.
QueueMatchesTasks ==
  \A k \in Keys :
    /\ Elements(waiters[k]) = {t \in Tasks : pc[t] = "queued" /\ key[t] = k}
    /\ \A i, j \in DOMAIN waiters[k] : waiters[k][i] = waiters[k][j] => i = j

\* The inductive invariant of the lock.
LockInv(Kinds) ==
  /\ LockTypeOK(Kinds)
  /\ KeyKnown
  /\ OnePermit
  /\ QueueMatchesTasks

\* Where a task may be in connect, or what it holds.
Places(Kinds) == Awaiting \cup {"out"} \cup Kinds

\* What a step of task t may do to the keys of the tasks.
OnlyKeyOf(t) ==
  /\ key' \in [Tasks -> Keys \cup {None}]
  /\ \A u \in Tasks \ {t} : key'[u] = key[u]

\* Task t moves on to s; a waiter may be given the permit by it.
Moved(t, s) ==
  /\ pc'[t] = s
  /\ \A u \in Tasks \ {t} : pc'[u] = pc[u] \/ (pc[u] = "queued" /\ pc'[u] = "granted")
-----------------------------------------------------------------------------
\* The awaits of connect, listed.
LEMMA AwaitsListed ==
  /\ HasPermit = {"granted", "connecting", "handshaking"}
  /\ InLock = {"granted", "connecting", "handshaking", "queued"}
  /\ Awaiting = {"dialling", "queued", "granted", "connecting", "handshaking"}
BY DEF HasPermit, InLock, Awaiting

\* The waiters of a key, position by position.
LEMMA WaitersFacts ==
  ASSUME NEW Kinds, LockInv(Kinds), NEW k \in Keys
  PROVE  /\ waiters[k] \in Seq(Tasks)
         /\ Len(waiters[k]) \in Nat
         /\ DOMAIN waiters[k] = 1..Len(waiters[k])
         /\ \A i \in DOMAIN waiters[k] :
              waiters[k][i] \in Tasks /\ pc[waiters[k][i]] = "queued" /\ key[waiters[k][i]] = k
         /\ \A t \in Tasks : pc[t] = "queued" /\ key[t] = k =>
              \E i \in DOMAIN waiters[k] : waiters[k][i] = t
         /\ \A i, j \in DOMAIN waiters[k] : waiters[k][i] = waiters[k][j] => i = j
<1>1. waiters[k] \in Seq(Tasks)
  BY DEF LockInv, LockTypeOK
<1>2. /\ Elements(waiters[k]) = {t \in Tasks : pc[t] = "queued" /\ key[t] = k}
      /\ \A i, j \in DOMAIN waiters[k] : waiters[k][i] = waiters[k][j] => i = j
  BY DEF LockInv, QueueMatchesTasks
<1>3. Len(waiters[k]) \in Nat /\ DOMAIN waiters[k] = 1..Len(waiters[k])
  BY <1>1, LenProperties
<1>4. \A i \in DOMAIN waiters[k] : waiters[k][i] \in Elements(waiters[k])
  BY DEF Elements
<1>5. \A t \in Elements(waiters[k]) : \E i \in DOMAIN waiters[k] : waiters[k][i] = t
  BY DEF Elements
<1> QED
  BY <1>1, <1>2, <1>3, <1>4, <1>5

\* The lock's initial state.
LEMMA LockInitInv ==
  ASSUME NEW Kinds, LockInit
  PROVE  LockInv(Kinds)
<1> USE DEF LockInit
<1>1. LockTypeOK(Kinds)
  BY EmptySeq DEF LockTypeOK
<1>2. \A t \in Tasks : pc[t] = "out"
  OBVIOUS
<1>3. KeyKnown
  BY <1>2, AwaitsListed DEF KeyKnown
<1>4. \A k \in Keys : Holders(k) = {}
  BY <1>2, AwaitsListed DEF Holders
<1>5. OnePermit
  BY <1>4 DEF OnePermit
<1>6. QueueMatchesTasks
  BY <1>2 DEF QueueMatchesTasks, Elements
<1> QED
  BY <1>1, <1>3, <1>5, <1>6 DEF LockInv

\* A step that leaves the tasks where they are, and the lock alone.
LEMMA LockStutters ==
  ASSUME NEW Kinds, LockInv(Kinds), UNCHANGED lockVars
  PROVE  LockInv(Kinds)'
BY DEF LockInv, LockTypeOK, KeyKnown, OnePermit, Holders, QueueMatchesTasks, lockVars

\* A task with no part in the lock moves on to another place without one.
LEMMA LockUntouched ==
  ASSUME NEW Kinds, LockInv(Kinds), NEW t \in Tasks, pc[t] \notin InLock,
         NEW s \in Places(Kinds) \ InLock,
         pc' = [pc EXCEPT ![t] = s], OnlyKeyOf(t), UNCHANGED <<permits, waiters>>
  PROVE  LockInv(Kinds)'
<1>1. LockTypeOK(Kinds)'
  BY DEF LockInv, LockTypeOK, Places, OnlyKeyOf
<1>2. \A u \in Tasks : /\ pc'[u] = IF u = t THEN s ELSE pc[u]
                       /\ u # t => key'[u] = key[u]
  BY DEF LockInv, LockTypeOK, OnlyKeyOf
<1>3. s \notin HasPermit /\ s # "queued" /\ pc[t] \notin HasPermit /\ pc[t] # "queued"
  BY DEF InLock
<1>4. KeyKnown'
  BY <1>2 DEF LockInv, KeyKnown
<1>5. \A k \in Keys : Holders(k)' = Holders(k)
  BY <1>2, <1>3 DEF Holders
<1>6. OnePermit'
  BY <1>5 DEF LockInv, OnePermit
<1>7. \A k \in Keys : {u \in Tasks : pc'[u] = "queued" /\ key'[u] = k}
                        = {u \in Tasks : pc[u] = "queued" /\ key[u] = k}
  BY <1>2, <1>3
<1>8. QueueMatchesTasks'
  BY <1>7 DEF LockInv, QueueMatchesTasks
<1> QED
  BY <1>1, <1>4, <1>6, <1>8 DEF LockInv

\* A task that has the permit moves on with it.
LEMMA PermitKept ==
  ASSUME NEW Kinds, LockInv(Kinds), NEW t \in Tasks, pc[t] \in HasPermit,
         NEW s \in HasPermit,
         pc' = [pc EXCEPT ![t] = s], UNCHANGED <<key, permits, waiters>>
  PROVE  LockInv(Kinds)'
<1>1. LockTypeOK(Kinds)'
  BY DEF LockInv, LockTypeOK, Awaiting
<1>2. \A u \in Tasks : pc'[u] = IF u = t THEN s ELSE pc[u]
  BY DEF LockInv, LockTypeOK
<1>3. s # "queued" /\ pc[t] # "queued"
  BY AwaitsListed
<1>4. KeyKnown'
  BY <1>2 DEF LockInv, KeyKnown, InLock
<1>5. \A k \in Keys : Holders(k)' = Holders(k)
  BY <1>2 DEF Holders
<1>6. OnePermit'
  BY <1>5 DEF LockInv, OnePermit
<1>7. \A k \in Keys : {u \in Tasks : pc'[u] = "queued" /\ key'[u] = k}
                        = {u \in Tasks : pc[u] = "queued" /\ key[u] = k}
  BY <1>2, <1>3
<1>8. QueueMatchesTasks'
  BY <1>7 DEF LockInv, QueueMatchesTasks
<1> QED
  BY <1>1, <1>4, <1>6, <1>8 DEF LockInv

\* Acquire: the free permit goes to the task.
LEMMA PermitAcquired ==
  ASSUME NEW Kinds, LockInv(Kinds), NEW t \in Tasks, pc[t] \notin InLock,
         NEW k \in Keys, NEW s \in HasPermit,
         Acquire(t, k, s), OnlyKeyOf(t), key'[t] = k
  PROVE  LockInv(Kinds)'
<1>1. /\ permits[k] > 0
      /\ permits' = [permits EXCEPT ![k] = @ - 1]
      /\ pc' = [pc EXCEPT ![t] = s]
      /\ waiters' = waiters
  BY DEF Acquire
<1>2. permits \in [Keys -> 0..1]
  BY DEF LockInv, LockTypeOK
<1>3. permits[k] = 1 /\ \A j \in Keys : permits'[j] = IF j = k THEN 0 ELSE permits[j]
  BY <1>1, <1>2
<1>4. LockTypeOK(Kinds)'
  <2>1. permits' \in [Keys -> 0..1]
    BY <1>1, <1>2, <1>3
  <2> QED
    BY <1>1, <2>1 DEF LockInv, LockTypeOK, OnlyKeyOf, Awaiting
<1>5. \A u \in Tasks : /\ pc'[u] = IF u = t THEN s ELSE pc[u]
                       /\ key'[u] = IF u = t THEN k ELSE key[u]
  BY <1>1 DEF LockInv, LockTypeOK, OnlyKeyOf
<1>6. s # "queued" /\ pc[t] # "queued" /\ pc[t] \notin HasPermit
  BY AwaitsListed
<1>7. KeyKnown'
  BY <1>5 DEF LockInv, KeyKnown
<1>8. Holders(k) = {} /\ waiters[k] = <<>>
  BY <1>3 DEF LockInv, OnePermit
<1>9. \A j \in Keys : Holders(j)' = IF j = k THEN {t} ELSE Holders(j)
  BY <1>5, <1>6, <1>8 DEF Holders
<1>10. OnePermit'
  <2>1. ASSUME NEW j \in Keys
        PROVE  /\ \A u, v \in Holders(j)' : u = v
               /\ permits'[j] = IF Holders(j)' = {} THEN 1 ELSE 0
               /\ permits'[j] = 1 => waiters'[j] = <<>>
    <3>1. CASE j = k
      BY <1>3, <1>9, <3>1
    <3>2. CASE j # k
      BY <1>1, <1>3, <1>9, <3>2 DEF LockInv, OnePermit
    <3> QED
      BY <3>1, <3>2
  <2> QED
    BY <2>1 DEF OnePermit
<1>11. \A j \in Keys : {u \in Tasks : pc'[u] = "queued" /\ key'[u] = j}
                        = {u \in Tasks : pc[u] = "queued" /\ key[u] = j}
  BY <1>5, <1>6
<1>12. QueueMatchesTasks'
  BY <1>1, <1>11 DEF LockInv, QueueMatchesTasks
<1> QED
  BY <1>4, <1>7, <1>10, <1>12 DEF LockInv

\* Enqueue: the permit is taken, and the task goes to the back of the queue.
LEMMA Enqueued ==
  ASSUME NEW Kinds, LockInv(Kinds), NEW t \in Tasks, pc[t] \notin InLock,
         NEW k \in Keys, Enqueue(t, k), OnlyKeyOf(t), key'[t] = k
  PROVE  LockInv(Kinds)'
<1> DEFINE q == waiters[k]
           r == Append(q, t)
<1>1. /\ permits[k] = 0
      /\ waiters' = [waiters EXCEPT ![k] = r]
      /\ pc' = [pc EXCEPT ![t] = "queued"]
      /\ permits' = permits
  BY DEF Enqueue
<1>2. waiters \in [Keys -> Seq(Tasks)] /\ q \in Seq(Tasks)
  BY DEF LockInv, LockTypeOK
<1>3. r \in Seq(Tasks) /\ DOMAIN r = 1..(Len(q) + 1)
      /\ r[Len(q) + 1] = t /\ \A i \in 1..Len(q) : r[i] = q[i]
  BY <1>2, AppendProperties, LenProperties
<1>4. \A j \in Keys : waiters'[j] = IF j = k THEN r ELSE waiters[j]
  BY <1>1, <1>2
<1> HIDE DEF r
<1>5. LockTypeOK(Kinds)'
  <2>1. waiters' \in [Keys -> Seq(Tasks)]
    BY <1>1, <1>2, <1>3
  <2> QED
    BY <1>1, <2>1, AwaitsListed DEF LockInv, LockTypeOK, OnlyKeyOf
<1>6. \A u \in Tasks : /\ pc'[u] = IF u = t THEN "queued" ELSE pc[u]
                       /\ key'[u] = IF u = t THEN k ELSE key[u]
  BY <1>1 DEF LockInv, LockTypeOK, OnlyKeyOf
<1>7. pc[t] # "queued" /\ pc[t] \notin HasPermit /\ "queued" \notin HasPermit
  BY AwaitsListed
<1>8. KeyKnown'
  BY <1>6 DEF LockInv, KeyKnown
<1>9. \A j \in Keys : Holders(j)' = Holders(j)
  BY <1>6, <1>7 DEF Holders
<1>10. OnePermit'
  BY <1>1, <1>4, <1>9 DEF LockInv, OnePermit
<1>11. QueueMatchesTasks'
  <2>1. ASSUME NEW j \in Keys, j # k
        PROVE  /\ Elements(waiters'[j]) = {u \in Tasks : pc'[u] = "queued" /\ key'[u] = j}
               /\ \A x, y \in DOMAIN waiters'[j] : waiters'[j][x] = waiters'[j][y] => x = y
    BY <1>4, <1>6, <1>7, <2>1 DEF LockInv, QueueMatchesTasks
  <2>2. /\ Len(q) \in Nat /\ DOMAIN q = 1..Len(q)
        /\ \A i \in DOMAIN q : q[i] \in Tasks /\ pc[q[i]] = "queued" /\ key[q[i]] = k
        /\ \A u \in Tasks : pc[u] = "queued" /\ key[u] = k => \E i \in DOMAIN q : q[i] = u
        /\ \A x, y \in DOMAIN q : q[x] = q[y] => x = y
    BY WaitersFacts
  <2> HIDE DEF q
  <2>3. \A i \in DOMAIN q : i \in DOMAIN r /\ r[i] = q[i] /\ q[i] # t
    BY <1>3, <1>7, <2>2
  <2>4. ASSUME NEW i \in DOMAIN r PROVE i = Len(q) + 1 \/ i \in DOMAIN q
    BY <1>3, <2>2
  <2>5. Len(q) + 1 \in DOMAIN r
    BY <1>3, <2>2
  <2>6. Elements(r) = {u \in Tasks : pc'[u] = "queued" /\ key'[u] = k}
    <3>1. ASSUME NEW i \in DOMAIN r
          PROVE  r[i] \in Tasks /\ pc'[r[i]] = "queued" /\ key'[r[i]] = k
      BY <1>3, <1>6, <2>2, <2>3, <2>4
    <3>2. ASSUME NEW u \in Tasks, pc'[u] = "queued", key'[u] = k
          PROVE  \E i \in DOMAIN r : r[i] = u
      <4>1. CASE u = t
        BY <1>3, <2>5, <4>1
      <4>2. CASE u # t
        <5>1. PICK i \in DOMAIN q : q[i] = u
          BY <1>6, <2>2, <3>2, <4>2
        <5> QED
          BY <2>3, <5>1
      <4> QED
        BY <4>1, <4>2
    <3> QED
      BY <3>1, <3>2 DEF Elements
  <2>7. ASSUME NEW x \in DOMAIN r, NEW y \in DOMAIN r, r[x] = r[y] PROVE x = y
    BY <1>3, <2>2, <2>3, <2>4, <2>7
  <2> QED
    BY <1>4, <2>1, <2>6, <2>7 DEF QueueMatchesTasks
<1> QED
  BY <1>5, <1>8, <1>10, <1>11 DEF LockInv

\* Release: the permit goes to the first waiter, or back to the lock.
LEMMA PermitReleased ==
  ASSUME NEW Kinds, LockInv(Kinds), NEW t \in Tasks, pc[t] \in HasPermit,
         NEW s \in Places(Kinds) \ InLock,
         Release(t, s), OnlyKeyOf(t)
  PROVE  LockInv(Kinds)'
<1>1. PICK k \in Keys : k = key[t]
  BY DEF LockInv, KeyKnown, InLock
<1> DEFINE q == waiters[k]
<1>2. s \notin HasPermit /\ s # "queued" /\ pc[t] # "queued" /\ "granted" \in HasPermit
      /\ "granted" # "queued"
  BY AwaitsListed
<1>3. t \in Holders(k) /\ \A u \in Holders(k) : u = t
  BY <1>1 DEF LockInv, OnePermit, Holders
<1>4. permits \in [Keys -> 0..1] /\ waiters \in [Keys -> Seq(Tasks)] /\ q \in Seq(Tasks)
  BY <1>1 DEF LockInv, LockTypeOK
<1>5. s \in Awaiting \cup {"out"} \cup Kinds /\ "granted" \in Awaiting
  BY AwaitsListed DEF Places
<1>6. CASE q = <<>>
  <2>1. /\ permits' = [permits EXCEPT ![k] = 1]
        /\ pc' = [pc EXCEPT ![t] = s]
        /\ waiters' = waiters
    BY <1>1, <1>6 DEF Release
  <2>2. LockTypeOK(Kinds)'
    BY <1>4, <1>5, <2>1 DEF LockInv, LockTypeOK, OnlyKeyOf
  <2>3. \A u \in Tasks : /\ pc'[u] = IF u = t THEN s ELSE pc[u]
                         /\ u # t => key'[u] = key[u]
    BY <2>1 DEF LockInv, LockTypeOK, OnlyKeyOf
  <2>4. KeyKnown'
    BY <2>3 DEF LockInv, KeyKnown
  <2>5. \A j \in Keys : Holders(j)' = IF j = k THEN {} ELSE Holders(j)
    BY <1>2, <1>3, <2>3 DEF Holders
  <2>6. \A j \in Keys : permits'[j] = IF j = k THEN 1 ELSE permits[j]
    BY <1>4, <2>1
  <2>7. OnePermit'
    BY <1>6, <2>1, <2>5, <2>6 DEF LockInv, OnePermit
  <2>8. \A j \in Keys : {u \in Tasks : pc'[u] = "queued" /\ key'[u] = j}
                           = {u \in Tasks : pc[u] = "queued" /\ key[u] = j}
    BY <1>2, <2>3
  <2>9. QueueMatchesTasks'
    BY <2>1, <2>8 DEF LockInv, QueueMatchesTasks
  <2> QED
    BY <2>2, <2>4, <2>7, <2>9 DEF LockInv
<1>7. CASE q # <<>>
  <2> DEFINE w == Head(q)
             r == Tail(q)
  <2>1. /\ waiters' = [waiters EXCEPT ![k] = r]
        /\ pc' = [pc EXCEPT ![t] = s, ![w] = "granted"]
        /\ permits' = permits
    BY <1>1, <1>7 DEF Release
  <2>2. /\ DOMAIN q = 1..Len(q) /\ Len(q) \in Nat /\ 1 \in DOMAIN q /\ w = q[1]
        /\ r \in Seq(Tasks)
        /\ \A i \in DOMAIN r : i + 1 \in DOMAIN q /\ r[i] = q[i + 1] /\ i + 1 # 1 /\ i \in Nat
        /\ \A i \in DOMAIN q : i # 1 => i - 1 \in DOMAIN r /\ r[i - 1] = q[i]
    <3>1. DOMAIN r = 1..(Len(q) - 1)
      BY <1>4, <1>7, HeadAndTail
    <3> QED
      BY <1>4, <1>7, <3>1, HeadAndTail
  <2>3. /\ \A i \in DOMAIN q : q[i] \in Tasks /\ pc[q[i]] = "queued" /\ key[q[i]] = k
        /\ \A u \in Tasks : pc[u] = "queued" /\ key[u] = k => \E i \in DOMAIN q : q[i] = u
        /\ \A x, y \in DOMAIN q : q[x] = q[y] => x = y
    BY <1>1, WaitersFacts
  <2> HIDE DEF r, w
  <2>4. w \in Tasks /\ pc[w] = "queued" /\ key[w] = k /\ w # t
    BY <1>2, <2>2, <2>3
  <2>5. \A j \in Keys : waiters'[j] = IF j = k THEN r ELSE waiters[j]
    BY <1>4, <2>1
  <2>6. LockTypeOK(Kinds)'
    <3>1. waiters' \in [Keys -> Seq(Tasks)]
      BY <1>4, <2>1, <2>2
    <3> QED
      BY <1>5, <2>1, <2>4, <3>1 DEF LockInv, LockTypeOK, OnlyKeyOf
  <2>7. \A u \in Tasks : /\ pc'[u] = IF u = w THEN "granted" ELSE IF u = t THEN s ELSE pc[u]
                         /\ u # t => key'[u] = key[u]
    BY <2>1, <2>4 DEF LockInv, LockTypeOK, OnlyKeyOf
  <2>8. KeyKnown'
    BY <1>1, <2>4, <2>7 DEF LockInv, KeyKnown
  <2>9. \A j \in Keys : Holders(j)' = IF j = k THEN {w} ELSE Holders(j)
    <3>1. Holders(k)' = {w}
      <4>1. ASSUME NEW u \in Tasks, pc'[u] \in HasPermit, key'[u] = k PROVE u = w
        BY <1>2, <1>3, <2>7, <4>1 DEF Holders
      <4>2. pc'[w] \in HasPermit /\ key'[w] = k
        BY <1>2, <2>4, <2>7
      <4> QED
        BY <2>4, <4>1, <4>2 DEF Holders
    <3>2. ASSUME NEW j \in Keys, j # k PROVE Holders(j)' = Holders(j)
      <4>1. ASSUME NEW u \in Tasks
            PROVE  (pc'[u] \in HasPermit /\ key'[u] = j) <=> (pc[u] \in HasPermit /\ key[u] = j)
        BY <1>1, <1>2, <2>4, <2>7, <3>2
      <4> QED
        BY <4>1 DEF Holders
    <3> QED
      BY <3>1, <3>2
  <2>10. OnePermit'
    <3>1. permits[k] = 0
      BY <1>1, <1>3 DEF LockInv, OnePermit
    <3>2. ASSUME NEW j \in Keys
          PROVE  /\ \A u, v \in Holders(j)' : u = v
                 /\ permits'[j] = IF Holders(j)' = {} THEN 1 ELSE 0
                 /\ permits'[j] = 1 => waiters'[j] = <<>>
      <4>1. CASE j = k
        BY <2>1, <2>9, <3>1, <4>1
      <4>2. CASE j # k
        BY <2>1, <2>5, <2>9, <4>2 DEF LockInv, OnePermit
      <4> QED
        BY <4>1, <4>2
    <3> QED
      BY <3>2 DEF OnePermit
  <2>11. QueueMatchesTasks'
    <3>1. ASSUME NEW j \in Keys, j # k
          PROVE  /\ Elements(waiters'[j]) = {u \in Tasks : pc'[u] = "queued" /\ key'[u] = j}
                 /\ \A x, y \in DOMAIN waiters'[j] : waiters'[j][x] = waiters'[j][y] => x = y
      <4>1. \A u \in Tasks : pc'[u] = "queued" /\ key'[u] = j <=> pc[u] = "queued" /\ key[u] = j
        BY <1>2, <2>4, <2>7, <3>1
      <4> QED
        BY <2>5, <3>1, <4>1 DEF LockInv, QueueMatchesTasks
    <3>2. Elements(r) = {u \in Tasks : pc'[u] = "queued" /\ key'[u] = k}
      <4>1. ASSUME NEW i \in DOMAIN r
            PROVE  r[i] \in Tasks /\ pc'[r[i]] = "queued" /\ key'[r[i]] = k
        <5>1. r[i] = q[i + 1] /\ i + 1 \in DOMAIN q /\ q[i + 1] # q[1]
          BY <2>2, <2>3
        <5>2. q[i + 1] \in Tasks /\ pc[q[i + 1]] = "queued" /\ key[q[i + 1]] = k
          BY <2>3, <5>1
        <5>3. q[i + 1] # w /\ q[i + 1] # t
          BY <1>2, <2>2, <5>1, <5>2
        <5> QED
          BY <2>7, <5>1, <5>2, <5>3
      <4>2. ASSUME NEW u \in Tasks, pc'[u] = "queued", key'[u] = k
            PROVE  \E i \in DOMAIN r : r[i] = u
        <5>1. u # w /\ u # t /\ pc[u] = "queued" /\ key[u] = k
          BY <1>2, <2>7, <4>2
        <5>2. PICK i \in DOMAIN q : q[i] = u
          BY <2>3, <5>1
        <5> QED
          BY <2>2, <5>1, <5>2
      <4> QED
        BY <4>1, <4>2 DEF Elements
    <3>3. ASSUME NEW x \in DOMAIN r, NEW y \in DOMAIN r, r[x] = r[y] PROVE x = y
      <4>1. x + 1 = y + 1 /\ x \in Nat /\ y \in Nat
        BY <2>2, <2>3, <3>3
      <4> QED
        BY <4>1
    <3> QED
      BY <2>5, <3>1, <3>2, <3>3 DEF QueueMatchesTasks
  <2> QED
    BY <2>6, <2>8, <2>10, <2>11 DEF LockInv
<1> QED
  BY <1>6, <1>7

\* GiveUp: a connect dropped at any await.
LEMMA GivenUp ==
  ASSUME NEW Kinds, LockInv(Kinds), NEW t \in Tasks, GiveUp(t)
  PROVE  LockInv(Kinds)'
<1>1. OnlyKeyOf(t)
  BY DEF GiveUp, OnlyKeyOf, LockInv, LockTypeOK
<1>2. "out" \in Places(Kinds) \ InLock /\ "out" \notin HasPermit /\ "out" # "queued"
  BY AwaitsListed DEF Places
<1>3. CASE pc[t] \in HasPermit
  BY <1>1, <1>2, <1>3, PermitReleased DEF GiveUp
<1>4. CASE pc[t] \notin HasPermit
  <2>1. /\ pc' = [pc EXCEPT ![t] = "out"]
        /\ waiters' = [k \in Keys |-> Retain(waiters[k], Tasks \ {t})]
        /\ permits' = permits
    BY <1>4 DEF GiveUp
  <2>2. \A u \in Tasks : /\ pc'[u] = IF u = t THEN "out" ELSE pc[u]
                         /\ u # t => key'[u] = key[u]
    BY <1>1, <2>1 DEF LockInv, LockTypeOK, OnlyKeyOf
  <2>3. ASSUME NEW k \in Keys
        PROVE  /\ waiters'[k] \in Seq(Tasks)
               /\ IsSubqueue(waiters'[k], waiters[k])
               /\ Len(waiters'[k]) <= Len(waiters[k])
               /\ \A i \in DOMAIN waiters'[k] : waiters'[k][i] # t
               /\ \A i \in DOMAIN waiters[k] : waiters[k][i] # t =>
                    \E j \in DOMAIN waiters'[k] : waiters'[k][j] = waiters[k][i]
    <3>1. waiters[k] \in Seq(Tasks) /\ \A i \in DOMAIN waiters[k] : waiters[k][i] \in Tasks
      BY WaitersFacts
    <3> DEFINE keep == Tasks \ {t}
               r == Retain(waiters[k], keep)
    <3>2. waiters'[k] = r
      BY <2>1
    <3>3. /\ r \in Seq(Tasks) /\ IsSubqueue(r, waiters[k]) /\ Len(r) <= Len(waiters[k])
          /\ \A i \in DOMAIN r : r[i] \in keep
          /\ \A i \in DOMAIN waiters[k] : waiters[k][i] \in keep =>
               \E j \in DOMAIN r : r[j] = waiters[k][i]
      <4>1. waiters[k] \in Seq(Tasks)
        BY <3>1
      <4> HIDE DEF keep
      <4> QED
        BY <4>1, RetainProperties
    <3> HIDE DEF r
    <3> QED
      BY <3>1, <3>2, <3>3
  <2>4. LockTypeOK(Kinds)'
    <3>1. waiters' \in [Keys -> Seq(Tasks)]
      BY <2>1, <2>3
    <3> QED
      BY <1>1, <2>1, <3>1 DEF LockInv, LockTypeOK, OnlyKeyOf
  <2>5. KeyKnown'
    BY <1>2, <2>2 DEF LockInv, KeyKnown, InLock
  <2>6. \A k \in Keys : Holders(k)' = Holders(k)
    BY <1>2, <1>4, <2>2 DEF Holders
  <2>7. OnePermit'
    <3>1. ASSUME NEW k \in Keys, waiters[k] = <<>> PROVE waiters'[k] = <<>>
      <4>1. Len(waiters[k]) = 0
        BY <3>1, EmptySeq
      <4>2. Len(waiters'[k]) = 0
        BY <2>3, <4>1, LenProperties
      <4> QED
        BY <2>3, <4>2, EmptySeq
    <3> QED
      BY <2>1, <2>6, <3>1 DEF LockInv, OnePermit
  <2>8. QueueMatchesTasks'
    <3>1. ASSUME NEW k \in Keys
          PROVE  /\ Elements(waiters'[k]) = {u \in Tasks : pc'[u] = "queued" /\ key'[u] = k}
                 /\ \A x, y \in DOMAIN waiters'[k] : waiters'[k][x] = waiters'[k][y] => x = y
      <4> DEFINE q == waiters[k]
                 r == waiters'[k]
      <4>1. /\ DOMAIN q = 1..Len(q) /\ Len(q) \in Nat
            /\ \A i \in DOMAIN q : q[i] \in Tasks /\ pc[q[i]] = "queued" /\ key[q[i]] = k
            /\ \A u \in Tasks : pc[u] = "queued" /\ key[u] = k => \E i \in DOMAIN q : q[i] = u
            /\ \A x, y \in DOMAIN q : q[x] = q[y] => x = y
        BY WaitersFacts
      <4>2. PICK f : SubqueueBy(f, r, q)
        BY <2>3 DEF IsSubqueue
      <4>3. /\ \A i \in DOMAIN r : f[i] \in DOMAIN q /\ r[i] = q[f[i]] /\ r[i] # t
            /\ \A i, j \in DOMAIN r : i < j => f[i] < f[j]
        BY <2>3, <4>2 DEF SubqueueBy
      <4>4. DOMAIN r = 1..Len(r) /\ Len(r) \in Nat
        BY <2>3, LenProperties
      <4>5. \A i \in DOMAIN q : q[i] # t => \E j \in DOMAIN r : r[j] = q[i]
        BY <2>3
      <4> HIDE DEF q, r
      <4>6. Elements(r) = {u \in Tasks : pc'[u] = "queued" /\ key'[u] = k}
        <5>1. ASSUME NEW i \in DOMAIN r
              PROVE  r[i] \in Tasks /\ pc'[r[i]] = "queued" /\ key'[r[i]] = k
          BY <2>2, <4>1, <4>3
        <5>2. ASSUME NEW u \in Tasks, pc'[u] = "queued", key'[u] = k
              PROVE  \E j \in DOMAIN r : r[j] = u
          <6>1. u # t /\ pc[u] = "queued" /\ key[u] = k
            BY <1>2, <2>2, <5>2
          <6>2. PICK i \in DOMAIN q : q[i] = u
            BY <4>1, <6>1
          <6> QED
            BY <4>5, <6>1, <6>2
        <5> QED
          BY <5>1, <5>2 DEF Elements
      <4>7. ASSUME NEW x \in DOMAIN r, NEW y \in DOMAIN r, r[x] = r[y] PROVE x = y
        <5>1. f[x] = f[y] /\ f[x] \in Int /\ f[y] \in Int
          BY <4>1, <4>3, <4>7
        <5>2. ~(x < y) /\ ~(y < x)
          BY <4>3, <5>1
        <5> QED
          BY <4>4, <5>2
      <4> QED
        BY <4>6, <4>7 DEF q, r
    <3> QED
      BY <3>1 DEF QueueMatchesTasks
  <2> QED
    BY <2>4, <2>5, <2>7, <2>8 DEF LockInv
<1> QED
  BY <1>3, <1>4

\* Letting the permit go moves the task, and perhaps a waiter.
LEMMA PermitPassed ==
  ASSUME NEW Kinds, LockInv(Kinds), NEW t \in Tasks, pc[t] \in HasPermit, NEW s, Release(t, s)
  PROVE  Moved(t, s)
<1>1. PICK k \in Keys : k = key[t]
  BY DEF LockInv, KeyKnown, InLock
<1>2. pc \in [Tasks -> Places(Kinds)]
  BY DEF LockInv, LockTypeOK, Places
<1>3. CASE waiters[k] = <<>>
  BY <1>1, <1>2, <1>3 DEF Release, Moved
<1>4. CASE waiters[k] # <<>>
  <2> DEFINE w == Head(waiters[k])
  <2>1. waiters[k] \in Seq(Tasks) /\ \A i \in DOMAIN waiters[k] : pc[waiters[k][i]] = "queued"
    BY WaitersFacts
  <2>2. w \in Tasks /\ pc[w] = "queued"
    BY <1>4, <2>1, HeadAndTail
  <2>3. w # t
    BY <2>2, AwaitsListed
  <2>4. pc' = [pc EXCEPT ![t] = s, ![w] = "granted"]
    BY <1>1, <1>4 DEF Release
  <2> HIDE DEF w
  <2> QED
    BY <1>2, <2>2, <2>3, <2>4 DEF Moved
<1> QED
  BY <1>3, <1>4

\* And so does giving up.
LEMMA GivingUpMoves ==
  ASSUME NEW Kinds, LockInv(Kinds), NEW t \in Tasks, GiveUp(t)
  PROVE  Moved(t, "out") /\ OnlyKeyOf(t)
<1>1. pc \in [Tasks -> Places(Kinds)] /\ key \in [Tasks -> Keys \cup {None}]
  BY DEF LockInv, LockTypeOK, Places
<1>2. OnlyKeyOf(t)
  BY <1>1 DEF GiveUp, OnlyKeyOf
<1>3. CASE pc[t] \in HasPermit
  BY <1>2, <1>3, PermitPassed DEF GiveUp
<1>4. CASE pc[t] \notin HasPermit
  BY <1>1, <1>2, <1>4 DEF GiveUp, Moved
<1> QED
  BY <1>3, <1>4
=============================================================================
