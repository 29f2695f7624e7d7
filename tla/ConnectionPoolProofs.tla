------------------------ MODULE ConnectionPoolProofs ------------------------
(***************************************************************************)
(* The safety invariants of ConnectionPool, for every set of keys and      *)
(* connections, every max_idle, idle interval and number of pool clones.   *)
(***************************************************************************)
EXTENDS ConnectionPool, PoolQueueProofs

\* What the invariants need of the clock: an idle task, if the pool has one, runs as long as
\* the pool lives, and no entry is older than the last tick allows.
AgeInv ==
  /\ IdleInterval = None <=> idle_task = "none"
  /\ idle_task = "done" => pools = 0
  /\ Ticking => \A k \in Keys : \A i \in DOMAIN idle_conns[k] :
                  idle_conns[k][i].elapsed <= IdleDur + Interval - next_tick

\* The inductive invariant.
Inv ==
  /\ TypeOK
  /\ ExclusiveOwnership
  /\ KeyAffinity
  /\ OldestFirst
  /\ CapacityBound
  /\ DeadPoolIsEmpty
  /\ AgeInv

\* Parts of the invariants, as predicates of the map of queues alone.
EntriesUnique(Q) ==
  \A k1, k2 \in Keys : \A i \in DOMAIN Q[k1], j \in DOMAIN Q[k2] :
    Q[k1][i].conn = Q[k2][j].conn => k1 = k2 /\ i = j

AgesSorted(Q) ==
  \A k \in Keys : \A i, j \in DOMAIN Q[k] : i < j => Q[k][i].elapsed >= Q[k][j].elapsed

QueuesEvolve(Q2, Q, k0, c) ==
  \A k \in Keys : Evolves(Q2[k], Q[k], IF k = k0 THEN {NewIdle(c)} ELSE {})

\* Every entry of Q2 is one that its key had in Q, or the new one of c under k0.
OldOrNew(Q2, Q, k0, c) ==
  \A k \in Keys : \A i \in DOMAIN Q2[k] :
    \/ k = k0 /\ Q2[k][i] = NewIdle(c)
    \/ \E j \in DOMAIN Q[k] : Q2[k][i] = Q[k][j]

NowhereIn(Q, c) == \A k \in Keys : \A i \in DOMAIN Q[k] : Q[k][i].conn # c

\* Every connection of handles P and queues Q is one of B, and held once.
HeldOnce(Q, P, B) ==
  /\ \A h \in P : h.conn \in B
  /\ \A k \in Keys : \A i \in DOMAIN Q[k] : Q[k][i].conn \in B
  /\ \A h \in P : NowhereIn(Q, h.conn)
  /\ \A h1, h2 \in P : h1.conn = h2.conn => h1 = h2
  /\ EntriesUnique(Q)

-----------------------------------------------------------------------------
\* The constants of the idle task are numbers.
LEMMA Durations ==
  /\ IdleDur \in Nat /\ Interval \in Nat \ {0}
  /\ MaxIdleAge \in Nat /\ MaxElapsed \in Nat /\ MaxElapsed = MaxIdleAge + 1
  /\ MaxIdleAge = IdleDur + Interval + Lag
<1>1. IdleDur \in Nat
  BY PoolAssumption DEF IdleDur
<1>2. Interval \in Nat \ {0}
  BY <1>1, PoolAssumption DEF Interval
<1> QED
  BY <1>1, <1>2, PoolAssumption DEF MaxIdleAge, MaxElapsed

\* The connections of a map of queues, position by position.
LEMMA IdleConnsPositions ==
  ASSUME NEW Q, NEW c
  PROVE  c \in UNION {{e.conn : e \in Elements(Q[k])} : k \in Keys} <=> ~NowhereIn(Q, c)
BY DEF Elements, NowhereIn

\* A step that takes entries out and queues one connection that was in no queue keeps the
\* entries distinct and sorted by age; every entry is an old one of its key, or the new one.
LEMMA EvolvedQueues ==
  ASSUME NEW Q \in [Keys -> Seq(Idle)], NEW Q2 \in [Keys -> Seq(Idle)], NEW k0, NEW c,
         QueuesEvolve(Q2, Q, k0, c), k0 \in Keys => NowhereIn(Q, c),
         EntriesUnique(Q), AgesSorted(Q)
  PROVE  /\ EntriesUnique(Q2)
         /\ AgesSorted(Q2)
         /\ OldOrNew(Q2, Q, k0, c)
<1> DEFINE E(k) == IF k = k0 THEN {NewIdle(c)} ELSE {}
           Old(k, i) == \E j \in DOMAIN Q[k] : Q2[k][i] = Q[k][j]
           New(k, i) == k = k0 /\ Q2[k][i] = NewIdle(c)
<1>1. ASSUME NEW k \in Keys PROVE Q[k] \in Seq(Idle) /\ Q2[k] \in Seq(Idle)
  OBVIOUS
<1>2. ASSUME NEW k \in Keys
      PROVE  \E f : EvolvesBy(f, Q2[k], Q[k], E(k))
  BY DEF QueuesEvolve, Evolves
<1>3. ASSUME NEW k \in Keys
      PROVE  /\ DOMAIN Q[k] = 1..Len(Q[k]) /\ Len(Q[k]) \in Nat
             /\ DOMAIN Q2[k] = 1..Len(Q2[k]) /\ Len(Q2[k]) \in Nat
             /\ \A i \in DOMAIN Q[k] : Q[k][i] \in Idle
             /\ \A i \in DOMAIN Q2[k] : Q2[k][i] \in Idle
  BY <1>1, LenProperties, ElementOfSeq
<1>4. NewIdle(c).conn = c /\ NewIdle(c).elapsed = 0
  BY DEF NewIdle
<1>5. ASSUME NEW k \in Keys, NEW i \in DOMAIN Q2[k] PROVE New(k, i) \/ Old(k, i)
  <2>1. PICK f : EvolvesBy(f, Q2[k], Q[k], E(k))
    BY <1>2
  <2>2. CASE f[i] = 0
    <3>1. Q2[k][i] \in E(k)
      BY <2>1, <2>2 DEF EvolvesBy
    <3> QED
      BY <3>1
  <2>3. CASE f[i] # 0
    <3>1. f[i] \in DOMAIN Q[k] /\ Q2[k][i] = Q[k][f[i]]
      BY <2>1, <2>3 DEF EvolvesBy
    <3> QED
      BY <3>1
  <2> QED
    BY <2>2, <2>3
<1>6. ASSUME NEW k \in Keys, NEW i \in DOMAIN Q2[k], NEW j \in DOMAIN Q2[k], i < j
      PROVE  /\ Q2[k][i].elapsed >= Q2[k][j].elapsed
             /\ Q2[k][i].conn # Q2[k][j].conn
  <2>1. PICK f : EvolvesBy(f, Q2[k], Q[k], E(k))
    BY <1>2
  <2>2. f[i] \in DOMAIN Q[k] /\ Q2[k][i] = Q[k][f[i]]
    BY <2>1, <1>6 DEF EvolvesBy
  <2>3. Q[k][f[i]].elapsed \in Nat /\ (k = k0 => Q[k][f[i]].conn # c)
    <3>1. Q[k][f[i]] \in Idle
      BY <1>3, <2>2
    <3>2. Q[k][f[i]].elapsed \in 0..MaxElapsed
      BY <3>1 DEF Idle
    <3> QED
      BY <3>2, <2>2, Durations DEF NowhereIn
  <2>4. CASE f[j] = 0
    <3>1. Q2[k][j] \in E(k)
      BY <2>1, <2>4 DEF EvolvesBy
    <3>2. Q2[k][j] = NewIdle(c) /\ k = k0
      BY <3>1
    <3> QED
      BY <3>2, <1>4, <2>2, <2>3
  <2>5. CASE f[j] # 0
    <3>1. f[j] \in DOMAIN Q[k] /\ Q2[k][j] = Q[k][f[j]] /\ f[i] < f[j]
      BY <2>1, <2>5, <1>6 DEF EvolvesBy
    <3>2. f[i] # f[j]
      BY <3>1, <2>2, <1>3
    <3>3. Q[k][f[i]].elapsed >= Q[k][f[j]].elapsed
      BY <3>1, <2>2 DEF AgesSorted
    <3>4. Q[k][f[i]].conn # Q[k][f[j]].conn
      BY <3>1, <3>2, <2>2 DEF EntriesUnique
    <3> QED
      BY <2>2, <3>1, <3>3, <3>4
  <2> QED
    BY <2>4, <2>5
<1>7. EntriesUnique(Q2)
  <2>1. SUFFICES ASSUME NEW k1 \in Keys, NEW k2 \in Keys,
                        NEW i \in DOMAIN Q2[k1], NEW j \in DOMAIN Q2[k2],
                        Q2[k1][i].conn = Q2[k2][j].conn
                 PROVE  k1 = k2 /\ i = j
    BY DEF EntriesUnique
  <2>2. k1 = k2
    <3>1. CASE New(k1, i) /\ New(k2, j)
      BY <3>1
    <3>2. CASE New(k1, i) /\ Old(k2, j)
      BY <3>2, <2>1, <1>4 DEF NowhereIn
    <3>3. CASE Old(k1, i) /\ New(k2, j)
      BY <3>3, <2>1, <1>4 DEF NowhereIn
    <3>4. CASE Old(k1, i) /\ Old(k2, j)
      BY <3>4, <2>1 DEF EntriesUnique
    <3> HIDE DEF New, Old
    <3> QED
      BY <1>5, <3>1, <3>2, <3>3, <3>4
  <2>3. i \in Int /\ j \in Int
    BY <1>3
  <2>4. ~(i < j) /\ ~(j < i)
    BY <1>6, <2>1, <2>2
  <2> QED
    BY <2>2, <2>3, <2>4
<1> QED
  BY <1>5, <1>6, <1>7 DEF AgesSorted, OldOrNew

\* ExclusiveOwnership, position by position.
LEMMA OwnershipByPosition ==
  ASSUME NEW Q, NEW P, NEW B
  PROVE  LET I == UNION {{e.conn : e \in Elements(Q[k])} : k \in Keys}
             L == {h.conn : h \in P}
         IN  HeldOnce(Q, P, B)
             <=> /\ L \cup I \subseteq B
                 /\ L \cap I = {}
                 /\ \A h1, h2 \in P : h1.conn = h2.conn => h1 = h2
                 /\ EntriesUnique(Q)
<1> DEFINE I == UNION {{e.conn : e \in Elements(Q[k])} : k \in Keys}
           L == {h.conn : h \in P}
<1>1. I \subseteq B <=> \A k \in Keys : \A i \in DOMAIN Q[k] : Q[k][i].conn \in B
  BY DEF Elements
<1>2. L \subseteq B <=> \A h \in P : h.conn \in B
  OBVIOUS
<1>3. L \cap I = {} <=> \A h \in P : NowhereIn(Q, h.conn)
  <2>1. \A c : c \in I <=> ~NowhereIn(Q, c)
    BY IdleConnsPositions
  <2> HIDE DEF I
  <2> QED
    BY <2>1
<1> HIDE DEF I, L
<1>4. HeldOnce(Q, P, B)
      <=> /\ L \cup I \subseteq B
          /\ L \cap I = {}
          /\ \A h1, h2 \in P : h1.conn = h2.conn => h1 = h2
          /\ EntriesUnique(Q)
  BY <1>1, <1>2, <1>3 DEF HeldOnce
<1> QED
  BY <1>4 DEF I, L

\* Init satisfies the invariant.
LEMMA InitInv == Init => Inv
<1> SUFFICES ASSUME Init PROVE Inv
  OBVIOUS
<1> USE DEF Init
<1>1. \A k \in Keys : idle_conns[k] = <<>> /\ DOMAIN idle_conns[k] = {}
  OBVIOUS
<1>2. TypeOK
  <2>1. idle_conns \in [Keys -> Seq(Idle)]
    BY EmptySeq
  <2>2. next_tick \in (-Lag)..Interval
    BY Durations, PoolAssumption
  <2> QED
    BY <2>1, <2>2, PoolAssumption DEF TypeOK
<1>3. ExclusiveOwnership
  <2>1. HeldOnce(idle_conns, pooled, born)
    BY <1>1 DEF HeldOnce, EntriesUnique
  <2> QED
    BY <2>1, OwnershipByPosition DEF ExclusiveOwnership, EntriesUnique, LeasedConns, IdleConns
<1>4. KeyAffinity
  BY <1>1 DEF KeyAffinity, Elements
<1>5. OldestFirst
  BY <1>1 DEF OldestFirst
<1>6. CapacityBound
  <2>1. \A k \in Keys : Len(idle_conns[k]) = 0
    BY <1>1, EmptySeq
  <2> QED
    BY <2>1, MaxIdleType DEF CapacityBound
<1>7. DeadPoolIsEmpty
  BY DEF DeadPoolIsEmpty
<1>8. AgeInv
  BY <1>1 DEF AgeInv
<1> QED
  BY <1>2, <1>3, <1>4, <1>5, <1>6, <1>7, <1>8 DEF Inv
-----------------------------------------------------------------------------
(* One step of the pool. *)

\* The invariant, position by position.
LEMMA InvFacts ==
  ASSUME Inv
  PROVE  /\ HeldOnce(idle_conns, pooled, born)
         /\ AgesSorted(idle_conns)
         /\ \A k \in Keys : \A i \in DOMAIN idle_conns[k] : home[idle_conns[k][i].conn] = k
         /\ pools = 0 => \A k \in Keys : DOMAIN idle_conns[k] = {}
<1>1. HeldOnce(idle_conns, pooled, born)
  BY OwnershipByPosition DEF Inv, ExclusiveOwnership, EntriesUnique, LeasedConns, IdleConns
<1>2. AgesSorted(idle_conns)
  BY DEF Inv, OldestFirst, AgesSorted
<1>3. \A k \in Keys : \A i \in DOMAIN idle_conns[k] : home[idle_conns[k][i].conn] = k
  BY DEF Inv, KeyAffinity, Elements
<1>4. ASSUME pools = 0, NEW k \in Keys PROVE DOMAIN idle_conns[k] = {}
  <2>1. \A c : NowhereIn(idle_conns, c)
    BY <1>4, IdleConnsPositions DEF Inv, DeadPoolIsEmpty, IdleConns
  <2>2. \A i \in DOMAIN idle_conns[k] : idle_conns[k][i].conn # idle_conns[k][i].conn
    BY <2>1 DEF NowhereIn
  <2> QED
    BY <2>2
<1> QED
  BY <1>1, <1>2, <1>3, <1>4

\* And back, after a step.
LEMMA InvAfter ==
  ASSUME TypeOK',
         HeldOnce(idle_conns', pooled', born'),
         AgesSorted(idle_conns'),
         \A h \in pooled' : h.key = home'[h.conn],
         \A k \in Keys : \A i \in DOMAIN idle_conns'[k] : home'[idle_conns'[k][i].conn] = k,
         CapacityBound',
         pools' = 0 => \A k \in Keys : DOMAIN idle_conns'[k] = {},
         AgeInv'
  PROVE  Inv'
<1>1. ExclusiveOwnership'
  BY OwnershipByPosition DEF ExclusiveOwnership, EntriesUnique, LeasedConns, IdleConns
<1>2. KeyAffinity'
  BY DEF KeyAffinity, Elements
<1>3. OldestFirst'
  BY DEF OldestFirst, AgesSorted
<1>4. DeadPoolIsEmpty'
  BY DEF DeadPoolIsEmpty, IdleConns, Elements
<1> QED
  BY <1>1, <1>2, <1>3, <1>4 DEF Inv

\* A step that changes nothing.
LEMMA StutterStep ==
  ASSUME Inv, UNCHANGED vars
  PROVE  Inv'
<1>1. UNCHANGED <<idle_conns, pooled, born, home, pools, idle_task, next_tick>>
  BY DEF vars
<1>2. TypeOK'
  BY <1>1 DEF Inv, TypeOK
<1>3. CapacityBound' /\ AgeInv'
  BY <1>1 DEF Inv, CapacityBound, AgeInv, Ticking
<1>4. \A h \in pooled' : h.key = home'[h.conn]
  BY <1>1 DEF Inv, KeyAffinity
<1> QED
  BY <1>1, <1>2, <1>3, <1>4, InvFacts, InvAfter

\* Link and Unpooled: a new handle, the queues stay as they are.
LEMMA NewHandleStep ==
  ASSUME Inv, NEW c \in Conns, NEW k \in Keys \cup {None}, Born(c, k),
         pooled' = pooled \cup {[conn |-> c, key |-> k, is_reused |-> FALSE, open |-> TRUE]},
         UNCHANGED <<idle_conns, pools, idle_task, next_tick>>
  PROVE  Inv'
<1> DEFINE h0 == [conn |-> c, key |-> k, is_reused |-> FALSE, open |-> TRUE]
<1>1. c \notin born /\ born' = born \cup {c} /\ home' = [home EXCEPT ![c] = k]
  BY DEF Born
<1>2. TypeOK'
  <2>1. h0 \in Handle
    BY DEF Handle
  <2> QED
    BY <1>1, <2>1 DEF Inv, TypeOK
<1>3. \A h \in pooled : h.conn \in born /\ h.conn # c
  BY <1>1, InvFacts DEF HeldOnce
<1>4. \A j \in Keys : \A i \in DOMAIN idle_conns[j] :
        idle_conns[j][i].conn \in born /\ idle_conns[j][i].conn # c
  BY <1>1, InvFacts DEF HeldOnce
<1>5. h0.conn = c /\ h0.key = k
  OBVIOUS
<1>6. HeldOnce(idle_conns', pooled', born')
  <2>1. HeldOnce(idle_conns, pooled, born)
    BY InvFacts
  <2>2. \A h \in pooled' : h = h0 \/ h \in pooled
    OBVIOUS
  <2> HIDE DEF h0
  <2>3. \A h \in pooled' : h.conn \in born'
    BY <1>1, <1>3, <1>5, <2>2
  <2>4. \A j \in Keys : \A i \in DOMAIN idle_conns'[j] : idle_conns'[j][i].conn \in born'
    BY <1>1, <1>4
  <2>5. \A h \in pooled' : NowhereIn(idle_conns', h.conn)
    BY <1>4, <1>5, <2>1, <2>2 DEF HeldOnce, NowhereIn
  <2>6. \A h1, h2 \in pooled' : h1.conn = h2.conn => h1 = h2
    BY <1>3, <1>5, <2>1, <2>2 DEF HeldOnce
  <2>7. EntriesUnique(idle_conns')
    BY <2>1 DEF HeldOnce
  <2> QED
    BY <2>3, <2>4, <2>5, <2>6, <2>7 DEF HeldOnce
<1>7. \A d \in born : home'[d] = home[d]
  BY <1>1 DEF Inv, TypeOK
<1>8. \A h \in pooled' : h.key = home'[h.conn]
  <2>1. home'[c] = k
    BY <1>1 DEF Inv, TypeOK
  <2>2. \A h \in pooled : h.key = home[h.conn]
    BY DEF Inv, KeyAffinity
  <2> HIDE DEF h0
  <2> QED
    BY <1>3, <1>5, <1>7, <2>1, <2>2
<1>9. \A j \in Keys : \A i \in DOMAIN idle_conns'[j] : home'[idle_conns'[j][i].conn] = j
  BY <1>4, <1>7, InvFacts
<1>10. CapacityBound' /\ AgeInv'
  BY DEF Inv, CapacityBound, AgeInv, Ticking
<1>11. AgesSorted(idle_conns')
  BY InvFacts
<1>12. pools' = 0 => \A j \in Keys : DOMAIN idle_conns'[j] = {}
  BY InvFacts
<1> QED
  BY <1>2, <1>6, <1>8, <1>9, <1>10, <1>11, <1>12, InvAfter

\* SetOpen: the flag changes, under the same handle.
LEMMA SetOpenStep ==
  ASSUME Inv, NEW h0 \in pooled, NEW b \in BOOLEAN, SetOpen(h0, b)
  PROVE  Inv'
<1> DEFINE h1 == [h0 EXCEPT !.open = b]
<1>1. pooled' = (pooled \ {h0}) \cup {h1}
      /\ UNCHANGED <<idle_conns, born, home, pools, idle_task, next_tick>>
  BY DEF SetOpen
<1>2. h0 \in Handle
  BY DEF Inv, TypeOK
<1>3. h1 \in Handle /\ h1.conn = h0.conn /\ h1.key = h0.key
  BY <1>2 DEF Handle
<1>4. TypeOK'
  BY <1>1, <1>3 DEF Inv, TypeOK
<1> HIDE DEF h1
<1>5. \A h \in pooled' : h = h1 \/ (h \in pooled /\ h # h0)
  BY <1>1
<1>6. HeldOnce(idle_conns', pooled', born')
  <2>1. HeldOnce(idle_conns, pooled, born)
    BY InvFacts
  <2>2. \A h \in pooled' : h.conn \in born /\ NowhereIn(idle_conns, h.conn)
    BY <1>3, <1>5, <2>1 DEF HeldOnce
  <2>3. \A g1, g2 \in pooled' : g1.conn = g2.conn => g1 = g2
    BY <1>3, <1>5, <2>1 DEF HeldOnce
  <2> QED
    BY <1>1, <2>1, <2>2, <2>3 DEF HeldOnce
<1>7. \A h \in pooled' : h.key = home'[h.conn]
  BY <1>1, <1>3, <1>5 DEF Inv, KeyAffinity
<1>8. CapacityBound' /\ AgeInv'
  BY <1>1 DEF Inv, CapacityBound, AgeInv, Ticking
<1>9. /\ AgesSorted(idle_conns')
      /\ \A k \in Keys : \A i \in DOMAIN idle_conns'[k] : home'[idle_conns'[k][i].conn] = k
      /\ pools' = 0 => \A k \in Keys : DOMAIN idle_conns'[k] = {}
  BY <1>1, InvFacts
<1> QED
  BY <1>4, <1>6, <1>7, <1>8, <1>9, InvAfter

\* A step that takes idle connections out and queues connection c under k0: what holds of
\* the queues afterwards.
LEMMA QueueShape ==
  ASSUME Inv, NEW k0, NEW c,
         idle_conns' \in [Keys -> Seq(Idle)],
         QueuesEvolve(idle_conns', idle_conns, k0, c),
         k0 \in Keys => NowhereIn(idle_conns, c)
  PROVE  /\ EntriesUnique(idle_conns')
         /\ AgesSorted(idle_conns')
         /\ OldOrNew(idle_conns', idle_conns, k0, c)
<1>1. idle_conns \in [Keys -> Seq(Idle)]
  BY DEF Inv, TypeOK
<1>2. EntriesUnique(idle_conns)
  BY InvFacts DEF HeldOnce
<1>3. AgesSorted(idle_conns)
  BY InvFacts
<1> QED
  BY <1>1, <1>2, <1>3, EvolvedQueues

\* And of their ages, when the clock stands still.
LEMMA QueueStep ==
  ASSUME Inv, NEW k0, NEW c,
         idle_conns' \in [Keys -> Seq(Idle)],
         QueuesEvolve(idle_conns', idle_conns, k0, c),
         k0 \in Keys => NowhereIn(idle_conns, c),
         UNCHANGED <<pools, idle_task, next_tick>>
  PROVE  /\ EntriesUnique(idle_conns')
         /\ AgesSorted(idle_conns')
         /\ OldOrNew(idle_conns', idle_conns, k0, c)
         /\ AgeInv'
<1>1. /\ EntriesUnique(idle_conns')
      /\ AgesSorted(idle_conns')
      /\ OldOrNew(idle_conns', idle_conns, k0, c)
  BY QueueShape
<1>2. NewIdle(c).elapsed = 0
  BY DEF NewIdle
<1>3. 0 <= IdleDur + Interval - next_tick
  BY Durations, PoolAssumption DEF Inv, TypeOK
<1>4. AgeInv'
  BY <1>1, <1>2, <1>3 DEF Inv, AgeInv, Ticking, OldOrNew
<1> QED
  BY <1>1, <1>4

\* Drop for Pooled.
LEMMA DropPooledStep ==
  ASSUME Inv, NEW h0 \in pooled, DropPooled(h0)
  PROVE  Inv'
<1> DEFINE back == h0.open /\ h0.key # None /\ pools > 0
           e == NewIdle(h0.conn)
<1>1. /\ pooled' = pooled \ {h0}
      /\ UNCHANGED <<born, home, pools, idle_task, next_tick>>
      /\ back => idle_conns' = [idle_conns EXCEPT ![h0.key] = DropInsert(@, e)]
      /\ ~back => idle_conns' = idle_conns
  BY DEF DropPooled
<1>2. h0 \in Handle /\ h0.conn \in Conns /\ h0.key \in Keys \cup {None}
  BY DEF Inv, TypeOK, Handle
<1>3. HeldOnce(idle_conns, pooled, born)
  BY InvFacts
<1>4. idle_conns \in [Keys -> Seq(Idle)]
  BY DEF Inv, TypeOK
<1>5. e \in Idle
  BY <1>2, Durations DEF Idle, NewIdle
<1> DEFINE k0 == IF back THEN h0.key ELSE None
<1>6. /\ idle_conns' \in [Keys -> Seq(Idle)]
      /\ QueuesEvolve(idle_conns', idle_conns, k0, h0.conn)
      /\ CapacityBound'
  <2>1. CASE back
    <3>1. h0.key \in Keys
      BY <1>2, <2>1
    <3> DEFINE q == idle_conns[h0.key]
               r == DropInsert(q, e)
    <3>2. q \in Seq(Idle)
      BY <1>4, <3>1
    <3> HIDE DEF q, e
    <3>3. r \in Seq(Idle) /\ Evolves(r, q, {e})
          /\ Len(r) <= IF max_idle = 0 THEN 1 ELSE max_idle
      <4>1. PICK n \in Nat : DropInsert(q, e) = Append(PopFront(q, n), e)
        BY <1>5, <3>2, DropInsertProperties
      <4> QED
        BY <1>5, <3>2, <4>1, DropInsertProperties, InsertEvolves
    <3>4. \A k \in Keys : idle_conns'[k] = IF k = h0.key THEN r ELSE idle_conns[k]
      BY <1>1, <1>4, <2>1 DEF q
    <3>5. idle_conns' \in [Keys -> Seq(Idle)]
      <4> HIDE DEF r, back
      <4> QED
        BY <1>1, <1>4, <2>1, <3>3, <3>4 DEF r, q
    <3>6. \A k \in Keys : Evolves(idle_conns'[k], idle_conns[k],
                                 IF k = k0 THEN {e} ELSE {})
      <4>1. k0 = h0.key
        BY <2>1
      <4> HIDE DEF k0, r, back
      <4> QED
        BY <1>4, <3>3, <3>4, <4>1, SameEvolves DEF q
    <3>7. CapacityBound'
      <4>1. \A k \in Keys : Len(idle_conns[k]) <=
              IF UsesPut THEN max_idle + 1 ELSE IF max_idle = 0 THEN 1 ELSE max_idle
        BY DEF Inv, CapacityBound
      <4>2. Len(r) <= IF UsesPut THEN max_idle + 1 ELSE IF max_idle = 0 THEN 1 ELSE max_idle
        <5>1. Len(r) \in Nat
          BY <3>3, LenProperties
        <5> HIDE DEF r
        <5> QED
          BY <3>3, <5>1, MaxIdleType
      <4> HIDE DEF r
      <4> QED
        BY <3>4, <4>1, <4>2 DEF CapacityBound
    <3> QED
      BY <3>5, <3>6, <3>7 DEF QueuesEvolve, e
  <2>2. CASE ~back
    <3>1. idle_conns' = idle_conns
      BY <1>1, <2>2
    <3>2. QueuesEvolve(idle_conns', idle_conns, k0, h0.conn)
      BY <1>4, <3>1, SameEvolves DEF QueuesEvolve
    <3>3. CapacityBound'
      BY <3>1 DEF Inv, CapacityBound
    <3> QED
      BY <1>4, <3>1, <3>2, <3>3
  <2> QED
    BY <2>1, <2>2
<1>7. NowhereIn(idle_conns, h0.conn)
  BY <1>3 DEF HeldOnce
<1>8. k0 \in Keys => k0 = h0.key /\ pools > 0
  BY PoolAssumption
<1> HIDE DEF k0, back
<1>9. /\ EntriesUnique(idle_conns')
      /\ AgesSorted(idle_conns')
      /\ \A k \in Keys : \A i \in DOMAIN idle_conns'[k] :
           \/ k = k0 /\ idle_conns'[k][i] = e
           \/ \E j \in DOMAIN idle_conns[k] : idle_conns'[k][i] = idle_conns[k][j]
      /\ AgeInv'
  <2>1. EntriesUnique(idle_conns') /\ AgesSorted(idle_conns')
        /\ OldOrNew(idle_conns', idle_conns, k0, h0.conn) /\ AgeInv'
    BY <1>1, <1>6, <1>7, QueueStep
  <2> QED
    BY <2>1 DEF OldOrNew
<1>10. e.conn = h0.conn
  BY DEF NewIdle
<1> HIDE DEF e
<1>11. HeldOnce(idle_conns', pooled', born')
  <2>1. \A h \in pooled' : h \in pooled /\ h # h0 /\ h.conn # h0.conn
    BY <1>1, <1>3 DEF HeldOnce
  <2>2. \A h \in pooled' : NowhereIn(idle_conns', h.conn)
    BY <1>3, <1>9, <1>10, <2>1 DEF HeldOnce, NowhereIn
  <2>3. \A k \in Keys : \A i \in DOMAIN idle_conns'[k] : idle_conns'[k][i].conn \in born
    BY <1>3, <1>9, <1>10 DEF HeldOnce
  <2> QED
    BY <1>1, <1>3, <1>9, <2>1, <2>2, <2>3 DEF HeldOnce
<1>12. \A h \in pooled' : h.key = home'[h.conn]
  BY <1>1 DEF Inv, KeyAffinity
<1>13. \A k \in Keys : \A i \in DOMAIN idle_conns'[k] : home'[idle_conns'[k][i].conn] = k
  <2>1. h0.key = home[h0.conn]
    BY DEF Inv, KeyAffinity
  <2> QED
    BY <1>1, <1>8, <1>9, <1>10, <2>1, InvFacts
<1>14. pools' = 0 => \A k \in Keys : DOMAIN idle_conns'[k] = {}
  <2>1. ASSUME pools = 0, NEW k \in Keys, NEW i \in DOMAIN idle_conns'[k] PROVE FALSE
    <3>1. DOMAIN idle_conns[k] = {}
      BY <2>1, InvFacts
    <3>2. k # k0
      BY <1>8, <2>1
    <3> QED
      BY <1>9, <3>1, <3>2
  <2> QED
    BY <1>1, <2>1
<1>15. TypeOK'
  BY <1>1, <1>6 DEF Inv, TypeOK
<1> QED
  BY <1>6, <1>9, <1>11, <1>12, <1>13, <1>14, <1>15, InvAfter

\* ConnectionPool::put.
LEMMA PutStep ==
  ASSUME Inv, NEW k0 \in Keys, NEW c \in Conns, Put(k0, c)
  PROVE  Inv'
<1> DEFINE e == NewIdle(c)
           q == idle_conns[k0]
           r == PutInsert(q, e)
<1>1. /\ UsesPut /\ pools > 0
      /\ c \notin born /\ born' = born \cup {c} /\ home' = [home EXCEPT ![c] = k0]
      /\ idle_conns' = [idle_conns EXCEPT ![k0] = r]
      /\ UNCHANGED <<pooled, pools, idle_task, next_tick>>
  BY DEF Put, Born
<1>2. HeldOnce(idle_conns, pooled, born)
  BY InvFacts
<1>3. idle_conns \in [Keys -> Seq(Idle)] /\ q \in Seq(Idle)
  BY DEF Inv, TypeOK
<1>4. e \in Idle /\ e.conn = c
  BY Durations DEF Idle, NewIdle
<1> HIDE DEF e
<1>5. r \in Seq(Idle) /\ Evolves(r, q, {e}) /\ Len(r) <= max_idle + 1
  <2>1. PICK n \in Nat : PutInsert(q, e) = Append(PopFront(q, n), e)
    BY <1>3, <1>4, PutInsertProperties
  <2> QED
    BY <1>3, <1>4, <2>1, PutInsertProperties, InsertEvolves
<1> HIDE DEF r
<1>6. \A k \in Keys : idle_conns'[k] = IF k = k0 THEN r ELSE idle_conns[k]
  BY <1>1, <1>3
<1>7. idle_conns' \in [Keys -> Seq(Idle)]
  BY <1>1, <1>3, <1>5
<1>8. QueuesEvolve(idle_conns', idle_conns, k0, c)
  <2>1. \A k \in Keys : Evolves(idle_conns'[k], idle_conns[k], IF k = k0 THEN {e} ELSE {})
    BY <1>3, <1>5, <1>6, SameEvolves
  <2> QED
    BY <2>1 DEF QueuesEvolve, e
<1>9. CapacityBound'
  BY <1>1, <1>5, <1>6 DEF Inv, CapacityBound
<1>10. NowhereIn(idle_conns, c)
  BY <1>1, <1>2 DEF HeldOnce, NowhereIn
<1>11. /\ EntriesUnique(idle_conns')
       /\ AgesSorted(idle_conns')
       /\ \A k \in Keys : \A i \in DOMAIN idle_conns'[k] :
            \/ k = k0 /\ idle_conns'[k][i] = e
            \/ \E j \in DOMAIN idle_conns[k] : idle_conns'[k][i] = idle_conns[k][j]
       /\ AgeInv'
  <2>1. EntriesUnique(idle_conns') /\ AgesSorted(idle_conns')
        /\ OldOrNew(idle_conns', idle_conns, k0, c) /\ AgeInv'
    BY <1>1, <1>7, <1>8, <1>10, QueueStep
  <2> QED
    BY <2>1 DEF OldOrNew, e
<1>12. HeldOnce(idle_conns', pooled', born')
  <2>1. \A h \in pooled : h.conn \in born /\ h.conn # c
    BY <1>1, <1>2 DEF HeldOnce
  <2>2. \A h \in pooled' : NowhereIn(idle_conns', h.conn)
    BY <1>1, <1>2, <1>4, <1>11, <2>1 DEF HeldOnce, NowhereIn
  <2>3. \A k \in Keys : \A i \in DOMAIN idle_conns'[k] : idle_conns'[k][i].conn \in born'
    BY <1>1, <1>2, <1>4, <1>11 DEF HeldOnce
  <2> QED
    BY <1>1, <1>2, <1>11, <2>1, <2>2, <2>3 DEF HeldOnce
<1>13. home'[c] = k0 /\ \A d \in born : home'[d] = home[d]
  BY <1>1 DEF Inv, TypeOK
<1>14. \A h \in pooled' : h.key = home'[h.conn]
  BY <1>1, <1>2, <1>13 DEF HeldOnce, Inv, KeyAffinity
<1>15. \A k \in Keys : \A i \in DOMAIN idle_conns'[k] : home'[idle_conns'[k][i].conn] = k
  BY <1>2, <1>4, <1>11, <1>13, InvFacts DEF HeldOnce
<1>16. TypeOK'
  BY <1>1, <1>7 DEF Inv, TypeOK
<1>17. pools' # 0
  BY <1>1
<1> QED
  BY <1>9, <1>11, <1>12, <1>14, <1>15, <1>16, <1>17, InvAfter

\* ConnectionPool::get.
LEMMA GetStep ==
  ASSUME Inv, NEW k0 \in Keys, Get(k0)
  PROVE  Inv'
<1> DEFINE q == idle_conns[k0]
<1>1. pools > 0 /\ UNCHANGED <<born, home, pools, idle_task, next_tick>>
  BY DEF Get
<1>2. HeldOnce(idle_conns, pooled, born)
  BY InvFacts
<1>3. idle_conns \in [Keys -> Seq(Idle)] /\ q \in Seq(Idle)
  BY DEF Inv, TypeOK
<1>4. Len(q) \in Nat /\ DOMAIN q = 1..Len(q) /\ \A i \in DOMAIN q : q[i] \in Idle
  BY <1>3, LenProperties, ElementOfSeq
<1>5. CASE GetHit(k0)
  <2>1. PICK n \in DOMAIN q, open \in BOOLEAN :
          /\ idle_conns' = [idle_conns EXCEPT ![k0] = PopFront(q, n)]
          /\ pooled' = pooled \cup {[conn |-> q[n].conn, key |-> k0,
                                     is_reused |-> TRUE, open |-> open]}
    BY <1>5 DEF GetHit
  <2> DEFINE r == PopFront(q, n)
             c == q[n].conn
             h0 == [conn |-> c, key |-> k0, is_reused |-> TRUE, open |-> open]
  <2>2. n \in Nat
    BY <1>4
  <2>3. /\ r \in Seq(Idle)
        /\ Len(r) = IF n <= Len(q) THEN Len(q) - n ELSE 0
        /\ IsSubqueue(r, q)
        /\ \A i \in DOMAIN r : n + i \in DOMAIN q /\ r[i] = q[n + i]
    BY <1>3, <2>2, PopFrontProperties
  <2>4. DOMAIN r = 1..Len(r)
    BY <2>3, LenProperties
  <2>5. c \in Conns
    BY <1>4 DEF Idle
  <2>6. h0 \in Handle /\ h0.conn = c /\ h0.key = k0
    BY <2>5 DEF Handle
  <2> HIDE DEF r, h0
  <2>7. \A k \in Keys : idle_conns'[k] = IF k = k0 THEN r ELSE idle_conns[k]
    BY <1>3, <2>1 DEF r
  <2>8. idle_conns' \in [Keys -> Seq(Idle)]
    BY <1>3, <2>1, <2>3 DEF r
  <2>9. QueuesEvolve(idle_conns', idle_conns, None, c)
    BY <1>3, <2>3, <2>7, SameEvolves, SubqueueEvolves DEF QueuesEvolve
  <2>10. /\ EntriesUnique(idle_conns')
         /\ AgesSorted(idle_conns')
         /\ \A k \in Keys : \A i \in DOMAIN idle_conns'[k] :
              \E j \in DOMAIN idle_conns[k] : idle_conns'[k][i] = idle_conns[k][j]
         /\ AgeInv'
    <3>1. EntriesUnique(idle_conns') /\ AgesSorted(idle_conns')
          /\ OldOrNew(idle_conns', idle_conns, None, c) /\ AgeInv'
      BY <1>1, <2>8, <2>9, PoolAssumption, QueueStep
    <3> QED
      BY <3>1, PoolAssumption DEF OldOrNew
  <2>11. NowhereIn(idle_conns', c)
    <3>1. SUFFICES ASSUME NEW k \in Keys, NEW i \in DOMAIN idle_conns'[k]
                   PROVE  idle_conns'[k][i].conn # c
      BY DEF NowhereIn
    <3>2. CASE k = k0
      <4>1. i \in DOMAIN r /\ n + i # n
        BY <2>2, <2>3, <2>4, <2>7, <3>2, LenProperties
      <4>2. n + i \in DOMAIN q /\ idle_conns'[k][i] = q[n + i]
        BY <2>3, <2>7, <3>2, <4>1
      <4> QED
        BY <1>2, <4>1, <4>2 DEF HeldOnce, EntriesUnique
    <3>3. CASE k # k0
      BY <1>2, <2>7, <3>3 DEF HeldOnce, EntriesUnique
    <3> QED
      BY <3>2, <3>3
  <2>12. c \in born /\ \A h \in pooled : h.conn # c
    BY <1>2 DEF HeldOnce, NowhereIn
  <2>13. \A h \in pooled' : h = h0 \/ h \in pooled
    BY <2>1 DEF h0
  <2>14. HeldOnce(idle_conns', pooled', born')
    <3>1. \A h \in pooled' : h.conn \in born'
      BY <1>1, <1>2, <2>6, <2>12, <2>13 DEF HeldOnce
    <3>2. \A k \in Keys : \A i \in DOMAIN idle_conns'[k] : idle_conns'[k][i].conn \in born'
      BY <1>1, <1>2, <2>10 DEF HeldOnce
    <3>3. \A h \in pooled' : NowhereIn(idle_conns', h.conn)
      BY <1>2, <2>6, <2>10, <2>11, <2>13 DEF HeldOnce, NowhereIn
    <3>4. \A h1, h2 \in pooled' : h1.conn = h2.conn => h1 = h2
      BY <1>2, <2>6, <2>12, <2>13 DEF HeldOnce
    <3> QED
      BY <2>10, <3>1, <3>2, <3>3, <3>4 DEF HeldOnce
  <2>15. \A h \in pooled' : h.key = home'[h.conn]
    BY <1>1, <2>6, <2>13, InvFacts DEF Inv, KeyAffinity
  <2>16. \A k \in Keys : \A i \in DOMAIN idle_conns'[k] : home'[idle_conns'[k][i].conn] = k
    BY <1>1, <2>10, InvFacts
  <2>17. CapacityBound'
    <3>1. Len(r) \in Nat /\ Len(r) <= Len(q)
      BY <1>4, <2>2, <2>3, LenProperties
    <3> DEFINE bound == IF UsesPut THEN max_idle + 1 ELSE IF max_idle = 0 THEN 1 ELSE max_idle
    <3>2. bound \in Nat /\ \A k \in Keys : Len(idle_conns[k]) <= bound
      BY MaxIdleType DEF Inv, CapacityBound
    <3> HIDE DEF bound
    <3>3. \A k \in Keys : Len(idle_conns'[k]) <= bound
      BY <1>4, <2>7, <3>1, <3>2
    <3> QED
      BY <3>3 DEF CapacityBound, bound
  <2>18. TypeOK'
    BY <1>1, <2>1, <2>6, <2>8 DEF Inv, TypeOK, h0
  <2>19. pools' # 0
    BY <1>1
  <2> QED
    BY <2>10, <2>14, <2>15, <2>16, <2>17, <2>18, <2>19, InvAfter
<1>6. CASE GetMiss(k0)
  <2>1. DOMAIN q = {}
    BY <1>6 DEF GetMiss, expired_opt, idle_dur
  <2>2. q = <<>>
    BY <1>3, <1>4, <2>1
  <2>3. idle_conns' = idle_conns /\ pooled' = pooled
    BY <1>3, <1>6, <2>2 DEF GetMiss
  <2>4. UNCHANGED vars
    BY <1>1, <2>3 DEF vars
  <2> QED
    BY <2>4, StutterStep
<1> QED
  BY <1>5, <1>6 DEF Get

\* Clones of the pool come and go; the last one takes the queues along.
LEMMA PoolCountStep ==
  ASSUME Inv, ClonePool \/ DropPool
  PROVE  Inv'
<1>1. /\ pools > 0 /\ pools' \in 0..MaxClones
      /\ UNCHANGED <<pooled, born, home, idle_task, next_tick>>
      /\ idle_conns' = [k \in Keys |-> <<>>] \/ (idle_conns' = idle_conns /\ pools' > 0)
  BY PoolAssumption DEF Inv, TypeOK, ClonePool, DropPool
<1>2. idle_task # "done"
  BY <1>1 DEF Inv, AgeInv
<1>3. CASE idle_conns' = [k \in Keys |-> <<>>]
  <2>1. \A k \in Keys : idle_conns'[k] = <<>> /\ DOMAIN idle_conns'[k] = {}
    BY <1>3
  <2>2. TypeOK'
    BY <1>1, <1>3, EmptySeq DEF Inv, TypeOK
  <2>3. HeldOnce(idle_conns', pooled', born')
    BY <1>1, <2>1, InvFacts DEF HeldOnce, NowhereIn, EntriesUnique
  <2>4. CapacityBound'
    <3>1. \A k \in Keys : Len(idle_conns'[k]) = 0
      BY <2>1, EmptySeq
    <3> QED
      BY <3>1, MaxIdleType DEF CapacityBound
  <2>5. AgeInv'
    BY <1>1, <1>2, <2>1 DEF Inv, AgeInv
  <2>6. \A h \in pooled' : h.key = home'[h.conn]
    BY <1>1 DEF Inv, KeyAffinity
  <2>7. AgesSorted(idle_conns')
    BY <2>1 DEF AgesSorted
  <2> QED
    BY <2>1, <2>2, <2>3, <2>4, <2>5, <2>6, <2>7, InvAfter
<1>4. CASE idle_conns' = idle_conns /\ pools' > 0
  <2>1. TypeOK'
    BY <1>1, <1>4 DEF Inv, TypeOK
  <2>2. CapacityBound' /\ AgeInv'
    BY <1>1, <1>2, <1>4 DEF Inv, CapacityBound, AgeInv, Ticking
  <2>3. \A h \in pooled' : h.key = home'[h.conn]
    BY <1>1 DEF Inv, KeyAffinity
  <2> QED
    BY <1>1, <1>4, <2>1, <2>2, <2>3, InvFacts, InvAfter
<1> QED
  BY <1>1, <1>3, <1>4

\* The idle task ends.
LEMMA IdleExitStep ==
  ASSUME Inv, IdleExit
  PROVE  Inv'
<1>1. /\ pools = 0 /\ idle_task = "running" /\ idle_task' = "done"
      /\ UNCHANGED <<idle_conns, pooled, born, home, pools, next_tick>>
  BY DEF IdleExit
<1>2. TypeOK' /\ CapacityBound'
  BY <1>1 DEF Inv, TypeOK, CapacityBound
<1>3. AgeInv'
  BY <1>1 DEF Inv, AgeInv, Ticking
<1>4. \A h \in pooled' : h.key = home'[h.conn]
  BY <1>1 DEF Inv, KeyAffinity
<1> QED
  BY <1>1, <1>2, <1>3, <1>4, InvFacts, InvAfter

\* The idle task's tick: clear_expired leaves subqueues of entries within idle_dur.
LEMMA IdleTickStep ==
  ASSUME Inv, IdleTick
  PROVE  Inv'
<1> DEFINE keep == {e \in Idle : ~expired(e, IdleDur)}
<1>1. /\ Ticking /\ next_tick <= 0
      /\ idle_conns' = [k \in Keys |-> Retain(idle_conns[k], keep)]
      /\ next_tick' = next_tick + Interval
      /\ UNCHANGED <<pooled, born, home, pools, idle_task>>
  BY DEF IdleTick
<1>2. idle_conns \in [Keys -> Seq(Idle)]
  BY DEF Inv, TypeOK
<1> HIDE DEF keep
<1>3. ASSUME NEW k \in Keys
      PROVE  /\ idle_conns'[k] \in Seq(Idle)
             /\ Len(idle_conns'[k]) <= Len(idle_conns[k])
             /\ IsSubqueue(idle_conns'[k], idle_conns[k])
             /\ \A i \in DOMAIN idle_conns'[k] : idle_conns'[k][i] \in keep
  BY <1>1, <1>2, RetainProperties
<1>4. idle_conns' \in [Keys -> Seq(Idle)]
  BY <1>1, <1>3
<1>5. QueuesEvolve(idle_conns', idle_conns, None, None)
  BY <1>2, <1>3, SubqueueEvolves DEF QueuesEvolve
<1>6. /\ EntriesUnique(idle_conns')
      /\ AgesSorted(idle_conns')
      /\ \A k \in Keys : \A i \in DOMAIN idle_conns'[k] :
           \E j \in DOMAIN idle_conns[k] : idle_conns'[k][i] = idle_conns[k][j]
  <2>1. EntriesUnique(idle_conns') /\ AgesSorted(idle_conns')
        /\ OldOrNew(idle_conns', idle_conns, None, None)
    BY <1>4, <1>5, PoolAssumption, QueueShape
  <2> QED
    BY <2>1, PoolAssumption DEF OldOrNew
<1>7. HeldOnce(idle_conns', pooled', born')
  <2>1. HeldOnce(idle_conns, pooled, born)
    BY InvFacts
  <2>2. \A k \in Keys : \A i \in DOMAIN idle_conns'[k] : idle_conns'[k][i].conn \in born
    BY <1>6, <2>1 DEF HeldOnce
  <2>3. \A h \in pooled : NowhereIn(idle_conns', h.conn)
    BY <1>6, <2>1 DEF HeldOnce, NowhereIn
  <2> QED
    BY <1>1, <1>6, <2>1, <2>2, <2>3 DEF HeldOnce
<1>8. \A k \in Keys : \A i \in DOMAIN idle_conns'[k] : home'[idle_conns'[k][i].conn] = k
  BY <1>1, <1>6, InvFacts
<1>9. CapacityBound'
  <2> DEFINE bound == IF UsesPut THEN max_idle + 1 ELSE IF max_idle = 0 THEN 1 ELSE max_idle
  <2>1. bound \in Nat /\ \A k \in Keys : Len(idle_conns[k]) <= bound
    BY MaxIdleType DEF Inv, CapacityBound
  <2>2. \A k \in Keys : Len(idle_conns[k]) \in Nat /\ Len(idle_conns'[k]) \in Nat
    BY <1>2, <1>4, LenProperties
  <2> HIDE DEF bound
  <2>3. \A k \in Keys : Len(idle_conns'[k]) <= bound
    BY <1>3, <2>1, <2>2
  <2> QED
    BY <2>3 DEF CapacityBound, bound
<1>10. next_tick \in Int /\ next_tick' \in (-Lag)..Interval
  BY <1>1, Durations, PoolAssumption DEF Inv, TypeOK
<1>11. AgeInv'
  <2>1. ASSUME NEW k \in Keys, NEW i \in DOMAIN idle_conns'[k]
        PROVE  idle_conns'[k][i].elapsed <= IdleDur + Interval - next_tick'
    <3>1. idle_conns'[k][i] \in Idle /\ ~(idle_conns'[k][i].elapsed > IdleDur)
      BY <1>3 DEF keep, expired
    <3>2. idle_conns'[k][i].elapsed \in 0..MaxElapsed
      BY <3>1 DEF Idle
    <3> QED
      BY <1>1, <1>10, <3>1, <3>2, Durations
  <2> QED
    BY <1>1, <2>1 DEF Inv, AgeInv, Ticking
<1>12. TypeOK'
  BY <1>1, <1>4, <1>10 DEF Inv, TypeOK
<1>13. \A h \in pooled' : h.key = home'[h.conn]
  BY <1>1 DEF Inv, KeyAffinity
<1>14. pools' = 0 => \A k \in Keys : DOMAIN idle_conns'[k] = {}
  BY <1>1 DEF Ticking, Inv, TypeOK
<1> QED
  BY <1>6, <1>7, <1>8, <1>9, <1>11, <1>12, <1>13, <1>14, InvAfter

\* Time passes: every entry ages by one, up to the ceiling.
LEMMA ElapseStep ==
  ASSUME Inv, Elapse
  PROVE  Inv'
<1>1. /\ Ticking => next_tick > -Lag
      /\ idle_conns' = [k \in Keys |-> [i \in DOMAIN idle_conns[k] |-> Older(idle_conns[k][i])]]
      /\ next_tick' = IF Ticking THEN next_tick - 1 ELSE next_tick
      /\ UNCHANGED <<pooled, born, home, pools, idle_task>>
  BY DEF Elapse
<1>2. idle_conns \in [Keys -> Seq(Idle)]
  BY DEF Inv, TypeOK
<1>3. ASSUME NEW e \in Idle
      PROVE  /\ Older(e) \in Idle /\ Older(e).conn = e.conn
             /\ Older(e).elapsed = IF e.elapsed < MaxElapsed THEN e.elapsed + 1 ELSE e.elapsed
             /\ e.elapsed \in 0..MaxElapsed
  BY Durations DEF Older, Idle
<1>4. ASSUME NEW k \in Keys
      PROVE  /\ Len(idle_conns[k]) \in Nat
             /\ DOMAIN idle_conns[k] = 1..Len(idle_conns[k])
             /\ DOMAIN idle_conns'[k] = DOMAIN idle_conns[k]
             /\ \A i \in DOMAIN idle_conns[k] :
                  idle_conns[k][i] \in Idle /\ idle_conns'[k][i] = Older(idle_conns[k][i])
  BY <1>1, <1>2, LenProperties, ElementOfSeq
<1>5. ASSUME NEW k \in Keys
      PROVE  idle_conns'[k] \in Seq(Idle) /\ Len(idle_conns'[k]) = Len(idle_conns[k])
  <2> DEFINE n == Len(idle_conns[k])
             r == idle_conns'[k]
  <2>1. n \in Nat /\ r = [i \in 1..n |-> Older(idle_conns[k][i])]
    BY <1>1, <1>4
  <2>2. \A i \in 1..n : Older(idle_conns[k][i]) \in Idle
    BY <1>3, <1>4
  <2> HIDE DEF n, r
  <2>3. r \in Seq(Idle) /\ Len(r) = n
    BY <2>1, <2>2
  <2> QED
    BY <2>3 DEF n, r
<1>6. idle_conns' \in [Keys -> Seq(Idle)]
  BY <1>1, <1>5
<1>7. next_tick \in Int /\ next_tick' \in (-Lag)..Interval
  BY <1>1, Durations, PoolAssumption DEF Inv, TypeOK
<1>8. TypeOK'
  BY <1>1, <1>6, <1>7 DEF Inv, TypeOK
<1>9. \A k \in Keys : \A i \in DOMAIN idle_conns'[k] :
        i \in DOMAIN idle_conns[k] /\ idle_conns'[k][i].conn = idle_conns[k][i].conn
  BY <1>3, <1>4
<1>10. HeldOnce(idle_conns', pooled', born')
  <2>1. HeldOnce(idle_conns, pooled, born)
    BY InvFacts
  <2>2. \A k \in Keys : \A i \in DOMAIN idle_conns'[k] : idle_conns'[k][i].conn \in born
    BY <1>9, <2>1 DEF HeldOnce
  <2>3. \A h \in pooled : NowhereIn(idle_conns', h.conn)
    BY <1>9, <2>1 DEF HeldOnce, NowhereIn
  <2>4. EntriesUnique(idle_conns')
    BY <1>9, <2>1 DEF HeldOnce, EntriesUnique
  <2> QED
    BY <1>1, <2>1, <2>2, <2>3, <2>4 DEF HeldOnce
<1>11. AgesSorted(idle_conns')
  <2>1. SUFFICES ASSUME NEW k \in Keys, NEW i \in DOMAIN idle_conns[k],
                        NEW j \in DOMAIN idle_conns[k], i < j
                 PROVE  Older(idle_conns[k][i]).elapsed >= Older(idle_conns[k][j]).elapsed
    BY <1>4 DEF AgesSorted
  <2>2. idle_conns[k][i].elapsed >= idle_conns[k][j].elapsed
    BY <2>1, InvFacts DEF AgesSorted
  <2>3. idle_conns[k][i] \in Idle /\ idle_conns[k][j] \in Idle
    BY <1>4
  <2> DEFINE x == idle_conns[k][i].elapsed
             y == idle_conns[k][j].elapsed
  <2>4. /\ x \in 0..MaxElapsed /\ Older(idle_conns[k][i]).elapsed = IF x < MaxElapsed THEN x + 1 ELSE x
        /\ y \in 0..MaxElapsed /\ Older(idle_conns[k][j]).elapsed = IF y < MaxElapsed THEN y + 1 ELSE y
    BY <1>3, <2>3
  <2> HIDE DEF x, y
  <2>5. MaxElapsed \in Nat /\ x >= y
    BY <2>2, Durations DEF x, y
  <2> QED
    BY <2>4, <2>5
<1>12. AgeInv'
  <2>1. ASSUME Ticking, NEW k \in Keys, NEW i \in DOMAIN idle_conns'[k]
        PROVE  idle_conns'[k][i].elapsed <= IdleDur + Interval - next_tick'
    <3>1. idle_conns[k][i].elapsed <= IdleDur + Interval - next_tick
      BY <1>9, <2>1 DEF Inv, AgeInv
    <3>2. /\ idle_conns'[k][i] = Older(idle_conns[k][i])
          /\ idle_conns[k][i] \in Idle
      BY <1>4, <1>9, <2>1
    <3> QED
      BY <1>1, <1>3, <1>7, <2>1, <3>1, <3>2, Durations
  <2> QED
    BY <1>1, <2>1 DEF Inv, AgeInv, Ticking
<1>13. CapacityBound'
  BY <1>5 DEF Inv, CapacityBound
<1>14. \A h \in pooled' : h.key = home'[h.conn]
  BY <1>1 DEF Inv, KeyAffinity
<1>15. \A k \in Keys : \A i \in DOMAIN idle_conns'[k] : home'[idle_conns'[k][i].conn] = k
  <2>1. \A k \in Keys : \A i \in DOMAIN idle_conns[k] : home[idle_conns[k][i].conn] = k
    BY InvFacts
  <2>2. home' = home
    BY <1>1
  <2> QED
    BY <1>9, <2>1, <2>2
<1>16. pools' = 0 => \A k \in Keys : DOMAIN idle_conns'[k] = {}
  <2>1. pools = 0 => \A k \in Keys : DOMAIN idle_conns[k] = {}
    BY InvFacts
  <2>2. \A k \in Keys : DOMAIN idle_conns'[k] = DOMAIN idle_conns[k]
    BY <1>4
  <2> QED
    BY <1>1, <2>1, <2>2
<1> QED
  BY <1>8, <1>10, <1>11, <1>12, <1>13, <1>14, <1>15, <1>16, InvAfter
-----------------------------------------------------------------------------
\* Every step of the pool keeps the invariant.
LEMMA NextInv == Inv /\ [Next]_vars => Inv'
<1> SUFFICES ASSUME Inv, [Next]_vars PROVE Inv'
  OBVIOUS
<1>1. ASSUME NEW c \in Conns, Unpooled(c) PROVE Inv'
  BY <1>1, NewHandleStep DEF Unpooled
<1>2. ASSUME NEW c \in Conns, NEW k \in Keys, Link(k, c) PROVE Inv'
  BY <1>2, NewHandleStep DEF Link
<1>3. ASSUME NEW c \in Conns, NEW k \in Keys, Put(k, c) PROVE Inv'
  BY <1>3, PutStep
<1>4. ASSUME NEW k \in Keys, Get(k) PROVE Inv'
  BY <1>4, GetStep
<1>5. ASSUME NEW h \in pooled, DropPooled(h) PROVE Inv'
  BY <1>5, DropPooledStep
<1>6. ASSUME NEW h \in pooled, NEW b \in BOOLEAN, SetOpen(h, b) PROVE Inv'
  BY <1>6, SetOpenStep
<1>7. CASE ClonePool \/ DropPool
  BY <1>7, PoolCountStep
<1>8. CASE IdleTick
  BY <1>8, IdleTickStep
<1>9. CASE IdleExit
  BY <1>9, IdleExitStep
<1>10. CASE Elapse
  BY <1>10, ElapseStep
<1>11. CASE UNCHANGED vars
  BY <1>11, StutterStep
<1> QED
  BY <1>1, <1>2, <1>3, <1>4, <1>5, <1>6, <1>7, <1>8, <1>9, <1>10, <1>11 DEF Next

\* The inductive invariant holds in every reachable state of every pool.
THEOREM Invariance == Spec => []Inv
BY InitInv, NextInv, PTL DEF Spec

\* Every variable of the pool keeps its type, with queues of any length.
THEOREM TypeCorrectness == Spec => []TypeOK
<1>1. Inv => TypeOK
  BY DEF Inv
<1> QED
  BY <1>1, Invariance, PTL

\* No connection is ever in two hands: Link, Put, get and the drop of a handle move it
\* between one handle and one place of one queue.
THEOREM Ownership == Spec => []ExclusiveOwnership
<1>1. Inv => ExclusiveOwnership
  BY DEF Inv
<1> QED
  BY <1>1, Invariance, PTL

\* A connection serves only the key it was opened for.
THEOREM Affinity == Spec => []KeyAffinity
<1>1. Inv => KeyAffinity
  BY DEF Inv
<1> QED
  BY <1>1, Invariance, PTL

\* Every queue is sorted by idle time, so its front is always the oldest.
THEOREM Order == Spec => []OldestFirst
<1>1. Inv => OldestFirst
  BY DEF Inv
<1> QED
  BY <1>1, Invariance, PTL

\* No key holds more idle connections than CapacityBound says, for every max_idle.
THEOREM Capacity == Spec => []CapacityBound
<1>1. Inv => CapacityBound
  BY DEF Inv
<1> QED
  BY <1>1, Invariance, PTL

\* Handles dropped after their pool leave it empty.
THEOREM DeadPool == Spec => []DeadPoolIsEmpty
<1>1. Inv => DeadPoolIsEmpty
  BY DEF Inv
<1> QED
  BY <1>1, Invariance, PTL

\* With an idle task no connection is idle for longer than idle_dur, one interval and the
\* runtime's lag, for every interval and lag.
THEOREM AgeBound == Spec => []IdleAgeBound
<1>1. ASSUME Inv PROVE IdleAgeBound
  <2>1. SUFFICES ASSUME IdleInterval # None, NEW k \in Keys, NEW i \in DOMAIN idle_conns[k]
                 PROVE  idle_conns[k][i].elapsed <= MaxIdleAge
    BY DEF IdleAgeBound, Elements
  <2>2. pools # 0 /\ pools \in Nat
    BY <1>1, InvFacts DEF Inv, TypeOK
  <2>3. Ticking
    BY <1>1, <2>1, <2>2 DEF Inv, AgeInv, TypeOK, Ticking
  <2>4. idle_conns[k][i].elapsed <= IdleDur + Interval - next_tick
    BY <1>1, <2>3 DEF Inv, AgeInv
  <2>5. next_tick \in (-Lag)..Interval
    BY <1>1 DEF Inv, TypeOK
  <2>6. idle_conns[k][i].elapsed \in Nat
    <3>1. idle_conns[k] \in Seq(Idle)
      BY <1>1 DEF Inv, TypeOK
    <3>2. idle_conns[k][i] \in Idle
      BY <3>1, LenProperties, ElementOfSeq
    <3>3. idle_conns[k][i].elapsed \in 0..MaxElapsed
      BY <3>2 DEF Idle
    <3> QED
      BY <3>3, Durations
  <2> QED
    BY <2>4, <2>5, <2>6, Durations, PoolAssumption
<1> QED
  BY <1>1, Invariance, PTL
-----------------------------------------------------------------------------
(* What a step does to the connections that are idle and leased. *)

\* The idle connections before and after a step, position by position.
LEMMA IdleByPosition ==
  ASSUME NEW c
  PROVE  /\ c \in IdleConns <=>
              \E k \in Keys : \E i \in DOMAIN idle_conns[k] : idle_conns[k][i].conn = c
         /\ c \in IdleConns' <=>
              \E k \in Keys : \E i \in DOMAIN idle_conns'[k] : idle_conns'[k][i].conn = c
BY DEF IdleConns, Elements

\* A connection is leased, idle or neither, and only if it was opened.
LEMMA Disjoint ==
  ASSUME Inv
  PROVE  /\ LeasedConns \subseteq born /\ IdleConns \subseteq born /\ born \subseteq Conns
         /\ LeasedConns \cap IdleConns = {}
BY DEF Inv, TypeOK, ExclusiveOwnership

\* Ages do not matter to who is idle.
LEMMA ElapseIdle ==
  ASSUME Inv, Elapse
  PROVE  IdleConns' = IdleConns
<1>1. idle_conns' = [k \in Keys |-> [i \in DOMAIN idle_conns[k] |-> Older(idle_conns[k][i])]]
  BY DEF Elapse
<1>2. ASSUME NEW k \in Keys
      PROVE  /\ DOMAIN idle_conns'[k] = DOMAIN idle_conns[k]
             /\ \A i \in DOMAIN idle_conns[k] : idle_conns'[k][i].conn = idle_conns[k][i].conn
  <2>1. \A i \in DOMAIN idle_conns[k] : idle_conns[k][i] \in Idle
    BY LenProperties, ElementOfSeq DEF Inv, TypeOK
  <2>2. \A e \in Idle : Older(e).conn = e.conn
    BY DEF Older, Idle
  <2> QED
    BY <1>1, <2>1, <2>2
<1>3. \A c : c \in IdleConns' <=> c \in IdleConns
  BY <1>2, IdleByPosition
<1> QED
  BY <1>3

\* get hands out the front of the queue, since idle_dur is None, or changes nothing.
LEMMA GetIdle ==
  ASSUME Inv, NEW k0 \in Keys, Get(k0)
  PROVE  /\ UNCHANGED <<born, home>>
         /\ \/ IdleConns' = IdleConns /\ LeasedConns' = LeasedConns
            \/ \E c \in IdleConns : /\ IdleConns' = IdleConns \ {c}
                                    /\ LeasedConns' = LeasedConns \cup {c}
<1> DEFINE q == idle_conns[k0]
<1>1. UNCHANGED <<born, home>>
  BY DEF Get
<1>2. idle_conns \in [Keys -> Seq(Idle)] /\ q \in Seq(Idle)
  BY DEF Inv, TypeOK
<1>3. Len(q) \in Nat /\ DOMAIN q = 1..Len(q)
  BY <1>2, LenProperties
<1>4. CASE GetMiss(k0)
  <2>1. DOMAIN q = {} /\ pooled' = pooled /\ idle_conns' = [idle_conns EXCEPT ![k0] = <<>>]
    BY <1>4 DEF GetMiss, expired_opt, idle_dur
  <2>2. q = <<>>
    <3> HIDE DEF q
    <3>1. Len(q) = 0
      BY <1>3, <2>1
    <3> QED
      BY <1>2, <3>1, EmptySeq
  <2>3. idle_conns' = idle_conns
    BY <1>2, <2>1, <2>2
  <2> QED
    BY <1>1, <2>1, <2>3 DEF IdleConns, LeasedConns
<1>5. CASE GetHit(k0)
  <2>1. PICK n \in DOMAIN q, open \in BOOLEAN :
          /\ \A i \in 1..(n - 1) : expired_opt(q[i], idle_dur)
          /\ idle_conns' = [idle_conns EXCEPT ![k0] = PopFront(q, n)]
          /\ pooled' = pooled \cup {[conn |-> q[n].conn, key |-> k0,
                                     is_reused |-> TRUE, open |-> open]}
    BY <1>5 DEF GetHit
  <2>2. n = 1
    <3>1. \A i \in 1..(n - 1) : FALSE
      BY <2>1 DEF expired_opt, idle_dur
    <3> QED
      BY <1>3, <3>1
  <2> DEFINE c == q[1].conn
  <2>3. LeasedConns' = LeasedConns \cup {c}
    <3>1. PICK h : h = [conn |-> c, key |-> k0, is_reused |-> TRUE, open |-> open]
      OBVIOUS
    <3>2. h.conn = c /\ pooled' = pooled \cup {h}
      BY <2>1, <2>2, <3>1
    <3> HIDE DEF c
    <3> QED
      BY <3>2 DEF LeasedConns
  <2>4. PICK r : r = PopFront(q, 1)
    OBVIOUS
  <2>5. /\ r \in Seq(Idle) /\ Len(r) = IF 1 <= Len(q) THEN Len(q) - 1 ELSE 0
        /\ \A i \in DOMAIN r : 1 + i \in DOMAIN q /\ r[i] = q[1 + i]
    <3>1. 1 \in Nat
      OBVIOUS
    <3> HIDE DEF q
    <3> QED
      BY <1>2, <2>4, <3>1, PopFrontProperties
  <2>6. DOMAIN r = 1..(Len(q) - 1)
    BY <1>3, <2>1, <2>5, LenProperties
  <2>7. \A k \in Keys : idle_conns'[k] = IF k = k0 THEN r ELSE idle_conns[k]
    BY <1>2, <2>1, <2>2, <2>4
  <2>8. EntriesUnique(idle_conns)
    BY InvFacts DEF HeldOnce
  <2>9. ASSUME NEW d PROVE d \in IdleConns' <=> d \in IdleConns /\ d # c
    <3>1. ASSUME NEW k \in Keys, NEW i \in DOMAIN idle_conns'[k], idle_conns'[k][i].conn = d
          PROVE  d \in IdleConns /\ d # c
      <4>1. CASE k = k0
        <5>1. 1 + i \in DOMAIN q /\ q[1 + i].conn = d /\ 1 + i # 1 /\ 1 \in DOMAIN q
          <6>1. i \in DOMAIN r /\ r[i].conn = d
            BY <2>7, <3>1, <4>1
          <6>2. 1 + i \in DOMAIN q /\ q[1 + i].conn = d
            BY <2>5, <6>1
          <6>3. 1 + i # 1
            BY <1>3, <2>6, <6>1
          <6> QED
            BY <2>1, <2>2, <6>2, <6>3
        <5> QED
          BY <2>8, <5>1, IdleByPosition DEF EntriesUnique
      <4>2. CASE k # k0
        BY <2>1, <2>2, <2>7, <2>8, <3>1, <4>2, IdleByPosition DEF EntriesUnique
      <4> QED
        BY <4>1, <4>2
    <3>2. ASSUME NEW k \in Keys, NEW i \in DOMAIN idle_conns[k], idle_conns[k][i].conn = d, d # c
          PROVE  d \in IdleConns'
      <4>1. CASE k = k0
        <5>1. i \in 1..Len(q) /\ i # 1
          BY <1>3, <3>2, <4>1
        <5>2. i - 1 \in DOMAIN r /\ 1 + (i - 1) = i
          BY <1>3, <2>6, <5>1
        <5>3. r[i - 1] = q[i]
          BY <2>5, <5>2
        <5>4. r[i - 1].conn = d
          BY <3>2, <4>1, <5>3
        <5> QED
          BY <2>7, <4>1, <5>2, <5>4, IdleByPosition
      <4>2. CASE k # k0
        BY <2>7, <3>2, <4>2, IdleByPosition
      <4> QED
        BY <4>1, <4>2
    <3> QED
      BY <3>1, <3>2, IdleByPosition
  <2>10. c \in IdleConns
    BY <2>1, <2>2, IdleByPosition
  <2>11. IdleConns' = IdleConns \ {c}
    BY <2>9
  <2> HIDE DEF c
  <2> QED
    BY <1>1, <2>3, <2>10, <2>11
<1> QED
  BY <1>4, <1>5 DEF Get

\* put and Drop queue connection c at the back of k0; the n connections that they drop are
\* the front of that queue, which was full.
LEMMA InsertIdle ==
  ASSUME Inv, NEW k0 \in Keys, NEW c \in Conns, NowhereIn(idle_conns, c), NEW r,
         r = DropInsert(idle_conns[k0], NewIdle(c)) \/ r = PutInsert(idle_conns[k0], NewIdle(c)),
         idle_conns' = [idle_conns EXCEPT ![k0] = r]
  PROVE  \E n \in Nat :
           /\ n > 0 => Len(idle_conns[k0]) >= max_idle
           /\ \E e \in Elements(idle_conns'[k0]) : e.conn = c
           /\ \A d : d \in IdleConns' <=>
                       \/ d = c
                       \/ \E k \in Keys : \E i \in DOMAIN idle_conns[k] :
                            (k = k0 => i > n) /\ idle_conns[k][i].conn = d
<1>1. PICK q : q = idle_conns[k0]
  OBVIOUS
<1>2. PICK e \in Idle : e = NewIdle(c) /\ e.conn = c
  BY Durations DEF Idle, NewIdle
<1>3. idle_conns \in [Keys -> Seq(Idle)] /\ q \in Seq(Idle)
  BY <1>1 DEF Inv, TypeOK
<1>4. r = DropInsert(q, e) \/ r = PutInsert(q, e)
  BY <1>1, <1>2
<1>5. PICK n \in Nat : InsertedAfter(n, r, q, e)
  BY <1>3, <1>4, InsertedQueue
<1>6. /\ n > 0 => Len(q) >= max_idle
      /\ \E j \in DOMAIN r : r[j] = e
      /\ \A i \in DOMAIN q : i > n => \E j \in DOMAIN r : r[j] = q[i]
      /\ \A j \in DOMAIN r : r[j] = e \/ \E i \in DOMAIN q : i > n /\ r[j] = q[i]
  BY <1>5 DEF InsertedAfter
<1>7. \A k \in Keys : idle_conns'[k] = IF k = k0 THEN r ELSE idle_conns[k]
  BY <1>3
<1>8. \E x \in Elements(idle_conns'[k0]) : x.conn = c
  BY <1>2, <1>6, <1>7 DEF Elements
<1>9. ASSUME NEW d, d \in IdleConns', d # c
      PROVE  \E k \in Keys : \E i \in DOMAIN idle_conns[k] :
               (k = k0 => i > n) /\ idle_conns[k][i].conn = d
  <2>1. PICK k \in Keys : \E i \in DOMAIN idle_conns'[k] : idle_conns'[k][i].conn = d
    BY <1>9, IdleByPosition
  <2>2. PICK i \in DOMAIN idle_conns'[k] : idle_conns'[k][i].conn = d
    BY <2>1
  <2>3. CASE k = k0
    <3>1. i \in DOMAIN r /\ r[i].conn = d
      BY <1>7, <2>2, <2>3
    <3>2. r[i] # e
      BY <1>2, <1>9, <3>1
    <3>3. PICK j \in DOMAIN q : j > n /\ r[i] = q[j]
      BY <1>6, <3>1, <3>2
    <3> QED
      BY <1>1, <2>3, <3>1, <3>3
  <2>4. CASE k # k0
    BY <1>7, <2>2, <2>4
  <2> QED
    BY <2>3, <2>4
<1>10. ASSUME NEW k \in Keys, NEW i \in DOMAIN idle_conns[k], k = k0 => i > n
       PROVE  idle_conns[k][i].conn \in IdleConns'
  <2>1. CASE k = k0
    <3>1. PICK j \in DOMAIN r : r[j] = q[i]
      BY <1>1, <1>6, <1>10, <2>1
    <3>2. j \in DOMAIN idle_conns'[k0] /\ idle_conns'[k0][j].conn = idle_conns[k][i].conn
      BY <1>1, <1>7, <2>1, <3>1
    <3> QED
      BY <3>2, IdleByPosition
  <2>2. CASE k # k0
    BY <1>7, <2>2, IdleByPosition
  <2> QED
    BY <2>1, <2>2
<1>11. c \in IdleConns'
  BY <1>8, IdleByPosition DEF Elements
<1> QED
  BY <1>1, <1>6, <1>8, <1>9, <1>10, <1>11

\* The idle task drops what has expired, and nothing else.
LEMMA TickIdle ==
  ASSUME Inv, IdleTick
  PROVE  /\ IdleConns' \subseteq IdleConns
         /\ \A k \in Keys : \A i \in DOMAIN idle_conns[k] :
              idle_conns[k][i].conn \in IdleConns' \/ expired(idle_conns[k][i], IdleDur)
<1> DEFINE keep == {e \in Idle : ~expired(e, IdleDur)}
<1>1. idle_conns' = [k \in Keys |-> Retain(idle_conns[k], keep)]
  BY DEF IdleTick
<1>2. ASSUME NEW k \in Keys
      PROVE  Elements(idle_conns'[k]) = Elements(idle_conns[k]) \cap keep
  <2>1. idle_conns[k] \in Seq(Idle)
    BY DEF Inv, TypeOK
  <2> HIDE DEF keep
  <2> QED
    BY <1>1, <2>1, RetainElements
<1>3. IdleConns' \subseteq IdleConns
  BY <1>2 DEF IdleConns
<1>4. ASSUME NEW k \in Keys, NEW i \in DOMAIN idle_conns[k],
             ~expired(idle_conns[k][i], IdleDur)
      PROVE  idle_conns[k][i].conn \in IdleConns'
  <2>1. idle_conns[k][i] \in Idle
    BY LenProperties, ElementOfSeq DEF Inv, TypeOK
  <2>2. idle_conns[k][i] \in Elements(idle_conns'[k])
    BY <1>2, <1>4, <2>1 DEF Elements
  <2> QED
    BY <2>2 DEF IdleConns
<1> QED
  BY <1>3, <1>4
-----------------------------------------------------------------------------
(* NoSilentLoss. *)

\* Why entry i of k's queue may be neither idle nor leased after a step.
Accounted(k, i) ==
  LET q == idle_conns[k] IN
  \/ q[i].conn \in IdleConns' \cup LeasedConns'
  \/ pools' = 0
  \/ IdleInterval # None /\ expired(q[i], IdleDur)
  \/ /\ Len(q) >= max_idle
     /\ \E e \in Elements(idle_conns'[k]) : e.conn \notin {d.conn : d \in Elements(q)}
     /\ \A j \in 1..i : q[j].conn \notin IdleConns' \cup LeasedConns'
     /\ Len(idle_conns'[k]) >= max_idle

\* The two insertions account for what they drop.
LEMMA InsertAccounts ==
  ASSUME Inv, NEW k0 \in Keys, NEW c \in Conns, NowhereIn(idle_conns, c), NEW r,
         r = DropInsert(idle_conns[k0], NewIdle(c)) \/ r = PutInsert(idle_conns[k0], NewIdle(c)),
         idle_conns' = [idle_conns EXCEPT ![k0] = r], LeasedConns' \subseteq LeasedConns,
         NEW k \in Keys, NEW i \in DOMAIN idle_conns[k]
  PROVE  Accounted(k, i)
<1>1. PICK n \in Nat :
        /\ n > 0 => Len(idle_conns[k0]) >= max_idle
        /\ \E e \in Elements(idle_conns'[k0]) : e.conn = c
        /\ \A d : d \in IdleConns' <=>
                    \/ d = c
                    \/ \E j \in Keys : \E x \in DOMAIN idle_conns[j] :
                         (j = k0 => x > n) /\ idle_conns[j][x].conn = d
  BY InsertIdle
<1>2. CASE k # k0 \/ i > n
  <2>1. idle_conns[k][i].conn \in IdleConns'
    BY <1>1, <1>2
  <2> QED
    BY <2>1 DEF Accounted
<1>3. CASE k = k0 /\ ~(i > n)
  <2>1. DOMAIN idle_conns[k0] = 1..Len(idle_conns[k0]) /\ Len(idle_conns[k0]) \in Nat
    BY LenProperties DEF Inv, TypeOK
  <2>2. i \in Nat \ {0} /\ i <= n /\ n > 0
    BY <1>3, <2>1
  <2>3. ASSUME NEW j \in 1..i
        PROVE  idle_conns[k0][j].conn \notin IdleConns' \cup LeasedConns'
    <3>1. j \in DOMAIN idle_conns[k0] /\ ~(j > n)
      BY <1>3, <2>1, <2>2
    <3>2. idle_conns[k0][j].conn \notin LeasedConns'
      BY <3>1, Disjoint, IdleByPosition
    <3>3. idle_conns[k0][j].conn # c
      BY <3>1 DEF NowhereIn
    <3>4. EntriesUnique(idle_conns)
      BY InvFacts DEF HeldOnce
    <3>5. idle_conns[k0][j].conn \notin IdleConns'
      BY <1>1, <3>1, <3>3, <3>4 DEF EntriesUnique
    <3> QED
      BY <3>2, <3>5
  <2>4. c \notin {d.conn : d \in Elements(idle_conns[k0])}
    BY DEF NowhereIn, Elements
  <2>5. Len(idle_conns'[k0]) >= max_idle
    <3>1. /\ idle_conns \in [Keys -> Seq(Idle)] /\ idle_conns[k0] \in Seq(Idle)
          /\ NewIdle(c) \in Idle
      <4>1. NewIdle(c) \in Idle
        BY Durations DEF Idle, NewIdle
      <4> QED
        BY <4>1 DEF Inv, TypeOK
    <3>2. Len(idle_conns[k0]) >= max_idle
      BY <1>1, <2>2
    <3>3. /\ Len(DropInsert(idle_conns[k0], NewIdle(c))) >= max_idle
          /\ Len(PutInsert(idle_conns[k0], NewIdle(c))) >= max_idle
      BY <3>1, <3>2, InsertKeepsFull
    <3>4. idle_conns'[k0] = r
      BY <3>1
    <3> QED
      BY <3>3, <3>4
  <2> QED
    BY <1>1, <1>3, <2>2, <2>3, <2>4, <2>5 DEF Accounted
<1> QED
  BY <1>2, <1>3

\* And so does every other step.
LEMMA StepAccounts ==
  ASSUME Inv, [Next]_vars, NEW k \in Keys, NEW i \in DOMAIN idle_conns[k]
  PROVE  Accounted(k, i)
<1>1. idle_conns[k][i].conn \in IdleConns
  BY IdleByPosition
<1>2. ASSUME IdleConns \subseteq IdleConns' \cup LeasedConns' PROVE Accounted(k, i)
  BY <1>1, <1>2 DEF Accounted
<1>3. ASSUME UNCHANGED idle_conns PROVE Accounted(k, i)
  BY <1>2, <1>3 DEF IdleConns
<1>4. ASSUME NEW c \in Conns, Unpooled(c) PROVE Accounted(k, i)
  BY <1>3, <1>4 DEF Unpooled
<1>5. ASSUME NEW c \in Conns, NEW j \in Keys, Link(j, c) PROVE Accounted(k, i)
  BY <1>3, <1>5 DEF Link
<1>6. ASSUME NEW c \in Conns, NEW j \in Keys, Put(j, c) PROVE Accounted(k, i)
  <2>1. /\ c \notin born /\ pooled' = pooled
        /\ idle_conns' = [idle_conns EXCEPT ![j] = PutInsert(idle_conns[j], NewIdle(c))]
    BY <1>6 DEF Put, Born
  <2>2. NowhereIn(idle_conns, c)
    BY <2>1, InvFacts DEF HeldOnce, NowhereIn
  <2>3. LeasedConns' = LeasedConns
    BY <2>1 DEF LeasedConns
  <2> QED
    BY <2>1, <2>2, <2>3, InsertAccounts
<1>7. ASSUME NEW j \in Keys, Get(j) PROVE Accounted(k, i)
  BY <1>2, <1>7, GetIdle
<1>8. ASSUME NEW h \in pooled, DropPooled(h) PROVE Accounted(k, i)
  <2>1. CASE h.open /\ h.key # None /\ pools > 0
    <3>1. /\ pooled' = pooled \ {h}
          /\ idle_conns' = [idle_conns EXCEPT ![h.key] =
                              DropInsert(idle_conns[h.key], NewIdle(h.conn))]
      BY <1>8, <2>1 DEF DropPooled
    <3>2. h.conn \in Conns /\ h.key \in Keys
      BY <2>1 DEF Inv, TypeOK, Handle
    <3>3. NowhereIn(idle_conns, h.conn)
      BY InvFacts DEF HeldOnce
    <3>4. LeasedConns' \subseteq LeasedConns
      BY <3>1 DEF LeasedConns
    <3> QED
      BY <3>1, <3>2, <3>3, <3>4, InsertAccounts
  <2>2. CASE ~(h.open /\ h.key # None /\ pools > 0)
    BY <1>3, <1>8, <2>2 DEF DropPooled
  <2> QED
    BY <2>1, <2>2
<1>9. ASSUME NEW h \in pooled, NEW b \in BOOLEAN, SetOpen(h, b) PROVE Accounted(k, i)
  BY <1>3, <1>9 DEF SetOpen
<1>10. CASE ClonePool
  BY <1>3, <1>10 DEF ClonePool
<1>11. CASE DropPool
  <2>1. CASE pools = 1
    BY <1>11, <2>1 DEF DropPool, Accounted
  <2>2. CASE pools # 1
    BY <1>3, <1>11, <2>2 DEF DropPool
  <2> QED
    BY <2>1, <2>2
<1>12. CASE IdleTick
  <2>1. IdleInterval # None
    BY <1>12 DEF Inv, AgeInv, IdleTick, Ticking
  <2> QED
    BY <1>12, <2>1, TickIdle DEF Accounted
<1>13. CASE IdleExit
  BY <1>3, <1>13 DEF IdleExit
<1>14. CASE Elapse
  BY <1>2, <1>14, ElapseIdle
<1>15. CASE UNCHANGED vars
  BY <1>3, <1>15 DEF vars
<1> QED
  BY <1>4, <1>5, <1>6, <1>7, <1>8, <1>9, <1>10, <1>11, <1>12, <1>13, <1>14, <1>15 DEF Next

\* The pool drops an idle connection only when it may: get, put, Drop, clear_expired and the
\* end of the pool, for every capacity and interval.
THEOREM Loss == Spec => NoSilentLoss
<1> DEFINE Step == \A k \in Keys : \A i \in DOMAIN idle_conns[k] : Accounted(k, i)
<1>1. Inv /\ [Next]_vars => Step
  BY StepAccounts
<1>2. NoSilentLoss <=> [][Step]_vars
  BY PTL DEF NoSilentLoss, Accounted
<1> HIDE DEF Step
<1> QED
  BY <1>1, <1>2, Invariance, PTL DEF Spec
-----------------------------------------------------------------------------
(* The abstract lease of connections. *)

\* The stage of a connection is what its handle and the queues say.
LEMMA StageFacts ==
  ASSUME Inv, NEW c \in Conns
  PROVE  /\ stage[c] = IF c \notin born THEN "unborn" ELSE IF c \in LeasedConns THEN "leased"
                       ELSE IF c \in IdleConns THEN "idle" ELSE "gone"
         /\ stage[c] = "unborn" <=> c \notin born
         /\ stage[c] = "leased" <=> c \in LeasedConns
         /\ stage[c] = "idle" <=> c \in IdleConns
BY Disjoint DEF stage

\* A step of the pool, in the words of the lease: c moves to s and those of E are let go.
LEMMA StageMoves ==
  ASSUME Inv, NEW c \in Conns, NEW s, NEW E \in SUBSET (IdleConns \ {c}),
         c \in born', \A d \in Conns \ {c} : d \in born' <=> d \in born,
         \A d \in Conns \ {c} : d \in LeasedConns' <=> d \in LeasedConns,
         \A d \in Conns \ {c} : d \in IdleConns' <=> d \in IdleConns \ E,
         s = IF c \in LeasedConns' THEN "leased" ELSE IF c \in IdleConns' THEN "idle" ELSE "gone"
  PROVE  stage' = [d \in Conns |-> IF d = c THEN s ELSE IF d \in E THEN "gone" ELSE stage[d]]
<1>1. stage' = [d \in Conns |-> IF d \notin born' THEN "unborn"
                                ELSE IF d \in LeasedConns' THEN "leased"
                                ELSE IF d \in IdleConns' THEN "idle" ELSE "gone"]
  BY DEF stage
<1>2. ASSUME NEW d \in Conns
      PROVE  (IF d \notin born' THEN "unborn" ELSE IF d \in LeasedConns' THEN "leased"
              ELSE IF d \in IdleConns' THEN "idle" ELSE "gone")
             = IF d = c THEN s ELSE IF d \in E THEN "gone" ELSE stage[d]
  BY StageFacts, Disjoint
<1> QED
  BY <1>1, <1>2

\* The same when nothing is let go.
LEMMA StageMovesAlone ==
  ASSUME Inv, NEW c \in Conns, NEW s,
         c \in born', \A d \in Conns \ {c} : d \in born' <=> d \in born,
         \A d \in Conns \ {c} : d \in LeasedConns' <=> d \in LeasedConns,
         \A d \in Conns \ {c} : d \in IdleConns' <=> d \in IdleConns,
         s = IF c \in LeasedConns' THEN "leased" ELSE IF c \in IdleConns' THEN "idle" ELSE "gone"
  PROVE  stage' = [d \in Conns |-> IF d = c THEN s ELSE IF d \in {} THEN "gone" ELSE stage[d]]
<1>1. PICK E \in SUBSET (IdleConns \ {c}) : E = {}
  OBVIOUS
<1>2. \A d \in Conns \ {c} : d \in IdleConns' <=> d \in IdleConns \ E
  BY <1>1
<1>3. stage' = [d \in Conns |-> IF d = c THEN s ELSE IF d \in E THEN "gone" ELSE stage[d]]
  BY <1>2, StageMoves
<1> QED
  BY <1>1, <1>3

\* A step that only lets idle connections go.
LEMMA EvictStep ==
  ASSUME Inv, UNCHANGED <<born, home, LeasedConns>>, IdleConns' \subseteq IdleConns
  PROVE  Lease!Next
<1> DEFINE E == IdleConns \ IdleConns'
<1>1. E \in SUBSET Conns /\ E \subseteq {c \in Conns : stage[c] = "idle"}
  BY Disjoint, StageFacts
<1>2. stage' = [c \in Conns |-> IF c \in E THEN "gone" ELSE stage[c]]
  <2>1. stage' = [d \in Conns |-> IF d \notin born' THEN "unborn"
                                  ELSE IF d \in LeasedConns' THEN "leased"
                                  ELSE IF d \in IdleConns' THEN "idle" ELSE "gone"]
    BY DEF stage
  <2>2. ASSUME NEW d \in Conns
        PROVE  (IF d \notin born' THEN "unborn" ELSE IF d \in LeasedConns' THEN "leased"
                ELSE IF d \in IdleConns' THEN "idle" ELSE "gone")
               = IF d \in E THEN "gone" ELSE stage[d]
    BY StageFacts, Disjoint
  <2> HIDE DEF E
  <2> QED
    BY <2>1, <2>2
<1> HIDE DEF E
<1>3. Lease!Evict(E)
  BY <1>1, <1>2 DEF Lease!Evict
<1> QED
  BY <1>1, <1>3 DEF Lease!Next

\* What put and Drop let go is idle, of the key of the connection they queue.
LEMMA InsertLetsGo ==
  ASSUME Inv, NEW k0 \in Keys, NEW c \in Conns, NowhereIn(idle_conns, c), NEW r,
         r = DropInsert(idle_conns[k0], NewIdle(c)) \/ r = PutInsert(idle_conns[k0], NewIdle(c)),
         idle_conns' = [idle_conns EXCEPT ![k0] = r]
  PROVE  /\ c \in IdleConns'
         /\ IdleConns' \subseteq IdleConns \cup {c}
         /\ \A d \in IdleConns \ IdleConns' : home[d] = k0
<1>1. PICK n \in Nat :
        /\ n > 0 => Len(idle_conns[k0]) >= max_idle
        /\ \E e \in Elements(idle_conns'[k0]) : e.conn = c
        /\ \A d : d \in IdleConns' <=>
                    \/ d = c
                    \/ \E j \in Keys : \E x \in DOMAIN idle_conns[j] :
                         (j = k0 => x > n) /\ idle_conns[j][x].conn = d
  BY InsertIdle
<1>2. c \in IdleConns' /\ IdleConns' \subseteq IdleConns \cup {c}
  BY <1>1, IdleByPosition
<1>3. ASSUME NEW d \in IdleConns, d \notin IdleConns' PROVE home[d] = k0
  <2>1. PICK j \in Keys : \E i \in DOMAIN idle_conns[j] : idle_conns[j][i].conn = d
    BY IdleByPosition
  <2>2. j = k0
    BY <1>1, <1>3, <2>1
  <2> QED
    BY <2>1, <2>2, InvFacts
<1> QED
  BY <1>2, <1>3

\* link and unpooled open a connection for a user.
LEMMA OpenLeased ==
  ASSUME Inv, NEW c \in Conns, NEW k \in Keys \cup {None}, Born(c, k), UNCHANGED idle_conns,
         LeasedConns' = LeasedConns \cup {c}
  PROVE  Lease!Next
<1>1. c \notin born /\ born' = born \cup {c} /\ home' = [home EXCEPT ![c] = k]
  BY DEF Born
<1>2. IdleConns' = IdleConns
  BY DEF IdleConns
<1>3. stage' = [d \in Conns |-> IF d = c THEN "leased" ELSE IF d \in {} THEN "gone" ELSE stage[d]]
  BY <1>1, <1>2, StageMovesAlone
<1>4. stage[c] = "unborn"
  BY <1>1, StageFacts
<1>5. Lease!Open(c, k, "leased", {})
  BY <1>1, <1>3, <1>4 DEF Lease!Open, Lease!Move
<1> QED
  BY <1>5 DEF Lease!Next

\* put opens a connection that is idle at once.
LEMMA OpenIdle ==
  ASSUME Inv, NEW c \in Conns, NEW k \in Keys, Put(k, c)
  PROVE  Lease!Next
<1> DEFINE E == IdleConns \ IdleConns'
<1>1. /\ c \notin born /\ born' = born \cup {c} /\ home' = [home EXCEPT ![c] = k]
      /\ idle_conns' = [idle_conns EXCEPT ![k] = PutInsert(idle_conns[k], NewIdle(c))]
      /\ pooled' = pooled
  BY DEF Put, Born
<1>2. NowhereIn(idle_conns, c)
  BY <1>1, InvFacts DEF HeldOnce, NowhereIn
<1>3. /\ c \in IdleConns' /\ IdleConns' \subseteq IdleConns \cup {c}
      /\ \A d \in E : home[d] = k
  BY <1>1, <1>2, InsertLetsGo
<1>4. c \notin IdleConns /\ c \notin LeasedConns /\ LeasedConns' = LeasedConns
  BY <1>1, Disjoint DEF LeasedConns
<1>5. E \in SUBSET (IdleConns \ {c}) /\ E \in SUBSET Conns
  BY <1>4, Disjoint
<1>6. \A d \in Conns \ {c} : d \in IdleConns' <=> d \in IdleConns \ E
  BY <1>3
<1> HIDE DEF E
<1>7. stage' = [d \in Conns |-> IF d = c THEN "idle" ELSE IF d \in E THEN "gone" ELSE stage[d]]
  BY <1>1, <1>3, <1>4, <1>5, <1>6, StageMoves
<1>8. stage[c] = "unborn" /\ \A d \in E : stage[d] = "idle"
  BY <1>1, <1>5, StageFacts
<1>9. home'[c] = k /\ \A d \in E : home'[d] = k
  BY <1>1, <1>3, <1>5 DEF Inv, TypeOK
<1>10. Lease!Open(c, k, "idle", E)
  BY <1>1, <1>5, <1>7, <1>8, <1>9 DEF Lease!Open, Lease!Move
<1> QED
  BY <1>5, <1>10 DEF Lease!Next

\* get leases an idle connection out.
LEMMA LeaseOut ==
  ASSUME Inv, NEW k \in Keys, Get(k)
  PROVE  Lease!Next
<1>1. UNCHANGED <<born, home>>
  BY GetIdle
<1>2. CASE IdleConns' = IdleConns /\ LeasedConns' = LeasedConns
  BY <1>1, <1>2, EvictStep
<1>3. ASSUME NEW c \in IdleConns, IdleConns' = IdleConns \ {c},
             LeasedConns' = LeasedConns \cup {c}
      PROVE  Lease!Next
  <2>1. c \in Conns /\ c \in born
    BY Disjoint
  <2>2. stage' = [d \in Conns |->
                    IF d = c THEN "leased" ELSE IF d \in {} THEN "gone" ELSE stage[d]]
    BY <1>1, <1>3, <2>1, StageMovesAlone
  <2>3. stage[c] = "idle"
    BY <2>1, StageFacts
  <2>4. Lease!Lease(c, {})
    BY <1>1, <2>2, <2>3 DEF Lease!Lease, Lease!Move
  <2> QED
    BY <2>1, <2>4 DEF Lease!Next
<1> QED
  BY <1>2, <1>3, GetIdle

\* Drop for Pooled gives the connection back, to the pool or to nobody.
LEMMA GiveBack ==
  ASSUME Inv, NEW h \in pooled, DropPooled(h)
  PROVE  Lease!Next
<1>1. PICK c \in Conns : c = h.conn
  BY DEF Inv, TypeOK, Handle
<1>2. pooled' = pooled \ {h} /\ UNCHANGED <<born, home>>
  BY DEF DropPooled
<1>3. LeasedConns' = LeasedConns \ {c} /\ c \in LeasedConns
  BY <1>1, <1>2 DEF Inv, ExclusiveOwnership, LeasedConns
<1>4. c \in born /\ c \notin IdleConns
  BY <1>3, Disjoint
<1>5. stage[c] = "leased"
  BY <1>3, StageFacts
<1>6. CASE h.open /\ h.key # None /\ pools > 0
  <2> DEFINE E == IdleConns \ IdleConns'
  <2>1. PICK k \in Keys : k = h.key
    BY <1>6 DEF Inv, TypeOK, Handle
  <2>2. idle_conns' = [idle_conns EXCEPT ![k] = DropInsert(idle_conns[k], NewIdle(c))]
    BY <1>1, <1>6, <2>1 DEF DropPooled
  <2>3. NowhereIn(idle_conns, c)
    BY <1>1, InvFacts DEF HeldOnce
  <2>4. /\ c \in IdleConns' /\ IdleConns' \subseteq IdleConns \cup {c}
        /\ \A d \in E : home[d] = k
    BY <2>2, <2>3, InsertLetsGo
  <2>5. E \in SUBSET (IdleConns \ {c}) /\ E \in SUBSET Conns
    BY <1>4, Disjoint
  <2>6. \A d \in Conns \ {c} : d \in IdleConns' <=> d \in IdleConns \ E
    BY <2>4
  <2> HIDE DEF E
  <2>7. stage' = [d \in Conns |-> IF d = c THEN "idle" ELSE IF d \in E THEN "gone" ELSE stage[d]]
    BY <1>2, <1>3, <1>4, <2>4, <2>5, <2>6, StageMoves
  <2>8. \A d \in E : stage[d] = "idle"
    BY <2>5, StageFacts
  <2>9. home[c] = k /\ k # None
    BY <1>1, <2>1, PoolAssumption DEF Inv, KeyAffinity
  <2>10. Lease!Return(c, "idle", E)
    BY <1>2, <1>5, <2>4, <2>5, <2>7, <2>8, <2>9 DEF Lease!Return, Lease!Move
  <2> QED
    BY <2>5, <2>10 DEF Lease!Next
<1>7. CASE ~(h.open /\ h.key # None /\ pools > 0)
  <2>1. IdleConns' = IdleConns
    BY <1>7 DEF DropPooled, IdleConns
  <2>2. stage' = [d \in Conns |-> IF d = c THEN "gone" ELSE IF d \in {} THEN "gone" ELSE stage[d]]
    BY <1>2, <1>3, <1>4, <2>1, StageMovesAlone
  <2>3. Lease!Return(c, "gone", {})
    BY <1>2, <1>5, <2>2 DEF Lease!Return, Lease!Move
  <2> QED
    BY <2>3 DEF Lease!Next
<1> QED
  BY <1>6, <1>7

\* Every step of the pool is a step of the lease.
LEMMA LeaseStep ==
  ASSUME Inv, [Next]_vars
  PROVE  Lease!Next
<1>1. ASSUME UNCHANGED <<idle_conns, pooled, born, home>> PROVE Lease!Next
  BY <1>1, EvictStep DEF IdleConns, LeasedConns
<1>2. ASSUME NEW c \in Conns, Unpooled(c) PROVE Lease!Next
  <2>1. PICK h : h = [conn |-> c, key |-> None, is_reused |-> FALSE, open |-> TRUE]
    OBVIOUS
  <2>2. Born(c, None) /\ UNCHANGED idle_conns /\ pooled' = pooled \cup {h}
    BY <1>2, <2>1 DEF Unpooled
  <2>3. h.conn = c
    BY <2>1
  <2>4. LeasedConns' = LeasedConns \cup {c}
    BY <2>2, <2>3 DEF LeasedConns
  <2> QED
    BY <2>2, <2>4, OpenLeased
<1>3. ASSUME NEW c \in Conns, NEW k \in Keys, Link(k, c) PROVE Lease!Next
  <2>1. PICK h : h = [conn |-> c, key |-> k, is_reused |-> FALSE, open |-> TRUE]
    OBVIOUS
  <2>2. Born(c, k) /\ UNCHANGED idle_conns /\ pooled' = pooled \cup {h}
    BY <1>3, <2>1 DEF Link
  <2>3. h.conn = c
    BY <2>1
  <2>4. LeasedConns' = LeasedConns \cup {c}
    BY <2>2, <2>3 DEF LeasedConns
  <2> QED
    BY <2>2, <2>4, OpenLeased
<1>4. ASSUME NEW c \in Conns, NEW k \in Keys, Put(k, c) PROVE Lease!Next
  BY <1>4, OpenIdle
<1>5. ASSUME NEW k \in Keys, Get(k) PROVE Lease!Next
  BY <1>5, LeaseOut
<1>6. ASSUME NEW h \in pooled, DropPooled(h) PROVE Lease!Next
  BY <1>6, GiveBack
<1>7. ASSUME NEW h \in pooled, NEW b \in BOOLEAN, SetOpen(h, b) PROVE Lease!Next
  <2>1. pooled' = (pooled \ {h}) \cup {[h EXCEPT !.open = b]}
        /\ UNCHANGED <<idle_conns, born, home>>
    BY <1>7 DEF SetOpen
  <2>2. [h EXCEPT !.open = b].conn = h.conn
    BY DEF Inv, TypeOK, Handle
  <2>3. LeasedConns' = LeasedConns
    BY <2>1, <2>2 DEF LeasedConns
  <2> QED
    BY <2>1, <2>3, EvictStep DEF IdleConns
<1>8. CASE ClonePool
  BY <1>1, <1>8 DEF ClonePool
<1>9. CASE DropPool
  <2>1. IdleConns' \subseteq IdleConns
    <3>1. CASE pools = 1
      BY <1>9, <3>1, IdleByPosition DEF DropPool
    <3>2. CASE pools # 1
      BY <1>9, <3>2 DEF DropPool, IdleConns
    <3> QED
      BY <3>1, <3>2
  <2> QED
    BY <1>9, <2>1, EvictStep DEF DropPool, LeasedConns
<1>10. CASE IdleTick
  BY <1>10, TickIdle, EvictStep DEF IdleTick, LeasedConns
<1>11. CASE IdleExit
  BY <1>1, <1>11 DEF IdleExit
<1>12. CASE Elapse
  BY <1>12, ElapseIdle, EvictStep DEF Elapse, LeasedConns
<1>13. CASE UNCHANGED vars
  BY <1>1, <1>13 DEF vars
<1> QED
  BY <1>2, <1>3, <1>4, <1>5, <1>6, <1>7, <1>8, <1>9, <1>10, <1>11, <1>12, <1>13 DEF Next

\* The pool implements the abstract lease: whatever the queues, the capacity and the clocks,
\* a user sees connections that are opened once, leased to one user at a time and never
\* revived, and put, Drop and get trade only connections of one key for each other.
THEOREM LeaseRefined == Spec => ImplementsLease
<1>1. Init => Lease!Init
  BY DEF Init, Lease!Init, stage
<1>2. Inv /\ [Next]_vars => [Lease!Next]_(Lease!leaseVars)
  BY LeaseStep
<1> QED
  BY <1>1, <1>2, Invariance, PTL DEF Spec, ImplementsLease, Lease!Spec
=============================================================================
