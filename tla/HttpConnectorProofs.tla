------------------------ MODULE HttpConnectorProofs ------------------------
(***************************************************************************)
(* The safety properties of HttpConnector, for every set of tasks, keys    *)
(* and connections and every way to build the connector.                   *)
(***************************************************************************)
EXTENDS HttpConnector, KeyLockProofs

\* Awaits of connect with a transport in hand.
HasTransport == {"queued", "granted", "handshaking"}

\* What a task has in each place: a key, a transport that nobody else has, a connection of
\* the kind it asked for.  Only connections can have failed.
TasksHold ==
  /\ \A t \in Tasks :
       /\ pc[t] # "connecting"
       /\ pc[t] # "out" => key[t] \in Keys
       /\ pc[t] \in HasTransport => conn[t] \in Conns /\ kind[conn[t]] = "transport"
       /\ pc[t] \in {"h1", "h2"} => conn[t] \in Conns /\ kind[conn[t]] = pc[t]
  /\ \A s, t \in Tasks :
       pc[s] \in HasTransport /\ pc[t] \in HasTransport /\ conn[s] = conn[t] => s = t
  /\ \A c \in broken : kind[c] \in {"h1", "h2"}

\* A handshake runs only while its key has no connection to share.
HandshakesNeeded ==
  \A t \in Tasks : pc[t] = "handshaking" => h2_pool[key[t]] = <<>>

\* The inductive invariant.
Inv ==
  /\ TypeOK
  /\ LockInv({"h1", "h2"})
  /\ TasksHold
  /\ HandshakesNeeded
  /\ OneH2PerKey
  /\ H1InOnePlace
-----------------------------------------------------------------------------
(* What a step of one task may do: the parts of the invariant it must show. *)

OnlyConnOf(t) == \A u \in Tasks \ {t} : conn'[u] = conn[u]

\* Only what t has just dialled, or carried so far, becomes something else.
KindsKept(t) ==
  \A c \in Conns : kind[c] # None /\ ~(pc[t] \in HasTransport /\ conn[t] = c)
                     => kind'[c] = kind[c]

\* t may be where it has arrived, with what it has now.
Arrives(t, s) ==
  /\ s # "connecting"
  /\ s # "out" => key'[t] \in Keys
  /\ s \in HasTransport =>
       /\ conn'[t] \in Conns /\ kind'[conn'[t]] = "transport"
       /\ \A u \in Tasks \ {t} : pc[u] \in HasTransport => conn[u] # conn'[t]
  /\ s \in {"h1", "h2"} => conn'[t] \in Conns /\ kind'[conn'[t]] = s
  /\ s = "handshaking" => h2_pool'[key'[t]] = <<>>
  /\ s = "h2" /\ conn'[t] \notin broken => h2_pool'[key'[t]] = <<conn'[t]>>
  /\ s = "h1" =>
       /\ \A u \in Tasks \ {t} : pc[u] = "h1" => conn[u] # conn'[t]
       /\ \A k \in Keys : conn'[t] \notin Elements(h1_pool'[k])

\* The other tasks find the shared connections as they need them.
H2PoolFine(t) ==
  /\ \A k \in Keys : Len(h2_pool'[k]) <= 1 /\ \A c \in Elements(h2_pool'[k]) : kind'[c] = "h2"
  /\ \A u \in Tasks \ {t} :
       /\ pc[u] = "handshaking" => h2_pool'[key[u]] = <<>>
       /\ pc[u] = "h2" /\ conn[u] \notin broken => h2_pool'[key[u]] = <<conn[u]>>

\* Every idle connection of Q is at one position.
QueuesDistinct(Q) ==
  \A j, k \in Keys : \A x \in DOMAIN Q[j], y \in DOMAIN Q[k] :
    Q[j][x] = Q[k][y] => j = k /\ x = y

\* The idle connections are open, and no other task has one of them.
H1PoolFine(t) ==
  /\ QueuesDistinct(h1_pool')
  /\ \A k \in Keys : \A c \in Elements(h1_pool'[k]) :
       /\ kind'[c] = "h1" /\ c \notin broken
       /\ \A u \in Tasks \ {t} : pc[u] = "h1" => conn[u] # c
-----------------------------------------------------------------------------
\* The places of the connector, told apart.
LEMMA PlacesListed ==
  /\ HasTransport = {"queued", "granted", "handshaking"}
  /\ "out" \in Places({"h1", "h2"}) \ InLock /\ "dialling" \in Places({"h1", "h2"}) \ InLock
  /\ "h1" \in Places({"h1", "h2"}) \ InLock /\ "h2" \in Places({"h1", "h2"}) \ InLock
BY AwaitsListed DEF HasTransport, Places

\* Types that the steps need.
LEMMA InvTypes ==
  ASSUME Inv
  PROVE  /\ pc \in [Tasks -> Places({"h1", "h2"})]
         /\ key \in [Tasks -> Keys \cup {None}]
         /\ conn \in [Tasks -> Conns \cup {None}]
         /\ kind \in [Conns -> {None, "transport", "h1", "h2"}]
         /\ broken \subseteq Conns
         /\ h1_pool \in [Keys -> Seq(Conns)]
         /\ h2_pool \in [Keys -> Seq(Conns)]
BY DEF Inv, TypeOK, LockTypeOK, Places

\* One step of a task keeps the invariant if it keeps those parts.
LEMMA TaskStep ==
  ASSUME Inv, TypeOK', LockInv({"h1", "h2"})', NEW t \in Tasks, NEW s,
         Moved(t, s), OnlyKeyOf(t), OnlyConnOf(t), UNCHANGED broken,
         KindsKept(t), Arrives(t, s), H2PoolFine(t), H1PoolFine(t)
  PROVE  Inv'
<1>1. \A u \in Tasks \ {t} : /\ pc'[u] = pc[u] \/ (pc[u] = "queued" /\ pc'[u] = "granted")
                            /\ key'[u] = key[u] /\ conn'[u] = conn[u]
  BY DEF Moved, OnlyKeyOf, OnlyConnOf
<1>2. pc'[t] = s
  BY DEF Moved
<1>3. ASSUME NEW u \in Tasks \ {t}
      PROVE  /\ pc'[u] # "connecting"
             /\ pc'[u] # "out" => key'[u] \in Keys
             /\ pc'[u] \in HasTransport => pc[u] \in HasTransport
             /\ pc'[u] \in {"h1", "h2", "handshaking"} => pc'[u] = pc[u]
  BY <1>1 DEF Inv, TasksHold, HasTransport
<1>4. ASSUME NEW u \in Tasks \ {t}, pc[u] \in HasTransport
      PROVE  conn[u] \in Conns /\ kind[conn[u]] = "transport" /\ kind'[conn[u]] = "transport"
             /\ (pc[t] \in HasTransport => conn[u] # conn[t])
  <2>1. /\ conn[u] \in Conns /\ kind[conn[u]] = "transport"
        /\ (pc[t] \in HasTransport => conn[u] # conn[t])
    BY <1>4 DEF Inv, TasksHold
  <2> QED
    BY <2>1, ConnectorAssumption DEF KindsKept
<1>5. ASSUME NEW u \in Tasks \ {t}, pc[u] \in {"h1", "h2"}
      PROVE  conn[u] \in Conns /\ kind'[conn[u]] = pc[u]
  <2>1. conn[u] \in Conns /\ kind[conn[u]] = pc[u]
    BY <1>5 DEF Inv, TasksHold
  <2>2. kind[conn[u]] # "transport" /\ kind[conn[u]] # None
    BY <1>5, <2>1, ConnectorAssumption
  <2>3. ~(pc[t] \in HasTransport /\ conn[t] = conn[u])
    BY <2>2 DEF Inv, TasksHold
  <2> QED
    BY <2>1, <2>2, <2>3 DEF KindsKept
<1>6. TasksHold'
  <2>1. ASSUME NEW u \in Tasks
        PROVE  /\ pc'[u] # "connecting"
               /\ pc'[u] # "out" => key'[u] \in Keys
               /\ pc'[u] \in HasTransport =>
                    conn'[u] \in Conns /\ kind'[conn'[u]] = "transport"
               /\ pc'[u] \in {"h1", "h2"} =>
                    conn'[u] \in Conns /\ kind'[conn'[u]] = pc'[u]
    <3>1. CASE u = t
      BY <1>2, <3>1 DEF Arrives
    <3>2. CASE u # t
      BY <1>1, <1>3, <1>4, <1>5, <3>2
    <3> QED
      BY <3>1, <3>2
  <2>2. ASSUME NEW u \in Tasks, NEW v \in Tasks, pc'[u] \in HasTransport,
               pc'[v] \in HasTransport, conn'[u] = conn'[v]
        PROVE  u = v
    <3>1. CASE u # t /\ v # t
      BY <1>1, <1>3, <2>2, <3>1 DEF Inv, TasksHold
    <3>2. CASE u = t /\ v # t
      BY <1>1, <1>2, <1>3, <2>2, <3>2 DEF Arrives
    <3>3. CASE u # t /\ v = t
      BY <1>1, <1>2, <1>3, <2>2, <3>3 DEF Arrives
    <3> QED
      BY <3>1, <3>2, <3>3
  <2>3. ASSUME NEW c \in broken' PROVE kind'[c] \in {"h1", "h2"}
    <3>1. c \in Conns /\ kind[c] \in {"h1", "h2"}
      BY InvTypes DEF Inv, TasksHold
    <3>2. kind[c] # None /\ kind[c] # "transport"
      BY <3>1, ConnectorAssumption
    <3>3. ~(pc[t] \in HasTransport /\ conn[t] = c)
      BY <3>2 DEF Inv, TasksHold
    <3> QED
      BY <3>1, <3>2, <3>3 DEF KindsKept
  <2> QED
    BY <2>1, <2>2, <2>3 DEF TasksHold
<1>7. HandshakesNeeded'
  <2>1. ASSUME NEW u \in Tasks, pc'[u] = "handshaking" PROVE h2_pool'[key'[u]] = <<>>
    <3>1. CASE u = t
      BY <1>2, <2>1, <3>1 DEF Arrives
    <3>2. CASE u # t
      BY <1>1, <1>3, <2>1, <3>2 DEF H2PoolFine
    <3> QED
      BY <3>1, <3>2
  <2> QED
    BY <2>1 DEF HandshakesNeeded
<1>8. OneH2PerKey'
  <2>1. ASSUME NEW u \in Tasks, pc'[u] = "h2", conn'[u] \notin broken'
        PROVE  h2_pool'[key'[u]] = <<conn'[u]>>
    <3>1. CASE u = t
      BY <1>2, <2>1, <3>1 DEF Arrives
    <3>2. CASE u # t
      BY <1>1, <1>3, <2>1, <3>2 DEF H2PoolFine
    <3> QED
      BY <3>1, <3>2
  <2> QED
    BY <2>1 DEF OneH2PerKey, H2PoolFine
<1>9. H1InOnePlace'
  <2>1. ASSUME NEW u \in Tasks, NEW v \in Tasks, pc'[u] = "h1", pc'[v] = "h1",
               conn'[u] = conn'[v]
        PROVE  u = v
    <3>1. CASE u # t /\ v # t
      BY <1>1, <1>3, <2>1, <3>1 DEF Inv, H1InOnePlace
    <3>2. CASE u = t /\ v # t
      BY <1>1, <1>2, <1>3, <2>1, <3>2 DEF Arrives
    <3>3. CASE u # t /\ v = t
      BY <1>1, <1>2, <1>3, <2>1, <3>3 DEF Arrives
    <3> QED
      BY <3>1, <3>2, <3>3
  <2>2. ASSUME NEW k \in Keys, NEW c \in Elements(h1_pool'[k])
        PROVE  kind'[c] = "h1" /\ c \notin broken' /\
               \A u \in Tasks : pc'[u] = "h1" => conn'[u] # c
    BY <1>1, <1>2, <1>3 DEF H1PoolFine, Arrives
  <2> QED
    BY <2>1, <2>2 DEF H1InOnePlace, H1PoolFine, QueuesDistinct, H2PoolFine
<1> QED
  BY <1>6, <1>7, <1>8, <1>9 DEF Inv
-----------------------------------------------------------------------------
(* The pools. *)

\* try_get!: what is usable is the key's one working connection, if it has one.
LEMMA UsableFacts ==
  ASSUME Inv, NEW k \in Keys
  PROVE  /\ Usable(k) \in Seq(Conns) /\ Len(Usable(k)) <= 1
         /\ Elements(Usable(k)) \subseteq Elements(h2_pool[k])
         /\ Usable(k) = h2_pool[k] \/ Usable(k) = <<>>
         /\ Usable(k) # <<>> =>
              /\ Head(Usable(k)) \in Conns \ broken
              /\ kind[Head(Usable(k))] = "h2"
              /\ Usable(k) = <<Head(Usable(k))>>
         /\ \A c \in Conns \ broken : h2_pool[k] = <<c>> => Usable(k) = <<c>>
<1> DEFINE q == h2_pool[k]
           keep == Conns \ broken
           r == Usable(k)
<1>1. q \in Seq(Conns) /\ Len(q) <= 1 /\ \A c \in Elements(q) : kind[c] = "h2"
  BY InvTypes DEF Inv, OneH2PerKey, H1InOnePlace
<1>2. r = Retain(q, keep)
  BY DEF Usable
<1> HIDE DEF q, keep
<1>3. /\ r \in Seq(Conns) /\ Len(r) <= 1 /\ (r = q \/ r = <<>>)
      /\ r # <<>> => Head(q) \in keep
      /\ r = <<>> => Elements(q) \cap keep = {}
  BY <1>1, <1>2, RetainSingle
<1>4. Elements(r) = Elements(q) \cap keep
  BY <1>1, <1>2, RetainElements
<1> HIDE DEF r
<1>5. ASSUME r # <<>>
      PROVE  Head(r) \in keep /\ kind[Head(r)] = "h2" /\ r = <<Head(r)>>
  <2>1. r = <<Head(r)>> /\ Elements(r) = {Head(r)}
    BY <1>3, <1>5, SingleEntry
  <2> QED
    BY <1>1, <1>4, <2>1
<1>6. ASSUME NEW c \in keep, q = <<c>> PROVE r = <<c>>
  <2>1. c \in Elements(q)
    BY <1>6 DEF Elements
  <2> QED
    BY <1>3, <1>6, <2>1
<1> QED
  BY <1>3, <1>4, <1>5, <1>6 DEF q, keep, r

\* A step that at most takes failed connections out of the shared pool.
LEMMA H2PoolLooked ==
  ASSUME Inv, NEW t \in Tasks, NEW k \in Keys, KindsKept(t),
         UNCHANGED h2_pool \/ h2_pool' = [h2_pool EXCEPT ![k] = Usable(k)]
  PROVE  H2PoolFine(t) /\ h2_pool' \in [Keys -> Seq(Conns)]
<1>1. h2_pool \in [Keys -> Seq(Conns)]
  BY InvTypes
<1>2. h2_pool' \in [Keys -> Seq(Conns)]
  BY <1>1, UsableFacts
<1>3. ASSUME NEW j \in Keys
      PROVE  /\ Len(h2_pool'[j]) <= 1
             /\ Elements(h2_pool'[j]) \subseteq Elements(h2_pool[j])
             /\ h2_pool[j] = <<>> => h2_pool'[j] = <<>>
             /\ \A c \in Conns \ broken : h2_pool[j] = <<c>> => h2_pool'[j] = <<c>>
  <2>1. Len(h2_pool[j]) <= 1
    BY DEF Inv, OneH2PerKey
  <2>2. h2_pool'[j] = h2_pool[j] \/ (j = k /\ h2_pool'[j] = Usable(j))
    BY <1>1
  <2> QED
    BY <2>1, <2>2, UsableFacts
<1>4. ASSUME NEW j \in Keys, NEW c \in Elements(h2_pool'[j]) PROVE kind'[c] = "h2"
  <2>1. c \in Elements(h2_pool[j])
    BY <1>3
  <2>2. c \in Conns
    BY <1>1, <2>1, ElementOfSeq, LenProperties DEF Elements
  <2>3. kind[c] = "h2"
    BY <2>1 DEF Inv, H1InOnePlace
  <2>4. kind[c] # None /\ kind[c] # "transport"
    BY <2>3, ConnectorAssumption
  <2>5. ~(pc[t] \in HasTransport /\ conn[t] = c)
    BY <2>4 DEF Inv, TasksHold
  <2> QED
    BY <2>2, <2>3, <2>4, <2>5 DEF KindsKept
<1>5. ASSUME NEW u \in Tasks \ {t}, pc[u] = "handshaking" PROVE h2_pool'[key[u]] = <<>>
  BY <1>3, <1>5 DEF Inv, TasksHold, HandshakesNeeded
<1>6. ASSUME NEW u \in Tasks \ {t}, pc[u] = "h2", conn[u] \notin broken
      PROVE  h2_pool'[key[u]] = <<conn[u]>>
  <2>1. key[u] \in Keys /\ conn[u] \in Conns \ broken
    BY <1>6 DEF Inv, TasksHold
  <2>2. h2_pool[key[u]] = <<conn[u]>>
    BY <1>6 DEF Inv, OneH2PerKey
  <2> QED
    BY <1>3, <2>1, <2>2
<1> QED
  BY <1>2, <1>3, <1>4, <1>5, <1>6 DEF H2PoolFine

\* The idle connections, position by position.
LEMMA H1PoolFacts ==
  ASSUME Inv
  PROVE  /\ QueuesDistinct(h1_pool)
         /\ \A k \in Keys : \A c \in Elements(h1_pool[k]) :
              /\ c \in Conns /\ kind[c] = "h1" /\ c \notin broken
              /\ \A u \in Tasks : pc[u] = "h1" => conn[u] # c
<1>1. QueuesDistinct(h1_pool)
  BY DEF Inv, H1InOnePlace, QueuesDistinct
<1>2. ASSUME NEW k \in Keys, NEW c \in Elements(h1_pool[k])
      PROVE  /\ c \in Conns /\ kind[c] = "h1" /\ c \notin broken
             /\ \A u \in Tasks : pc[u] = "h1" => conn[u] # c
  <2>1. h1_pool[k] \in Seq(Conns)
    BY InvTypes
  <2>2. c \in Conns
    BY <2>1, ElementOfSeq, LenProperties DEF Elements
  <2> QED
    BY <2>2 DEF Inv, H1InOnePlace
<1> QED
  BY <1>1, <1>2

\* A step that leaves the idle connections alone.
LEMMA H1PoolSame ==
  ASSUME Inv, NEW t \in Tasks, KindsKept(t), UNCHANGED h1_pool
  PROVE  H1PoolFine(t)
<1>1. ASSUME NEW c \in Conns, kind[c] = "h1" PROVE kind'[c] = "h1"
  <2>1. kind[c] # None /\ kind[c] # "transport"
    BY <1>1, ConnectorAssumption
  <2>2. ~(pc[t] \in HasTransport /\ conn[t] = c)
    BY <2>1 DEF Inv, TasksHold
  <2> QED
    BY <1>1, <2>1, <2>2 DEF KindsKept
<1> QED
  BY <1>1, H1PoolFacts DEF H1PoolFine
-----------------------------------------------------------------------------
(* The lock. *)

\* Letting the permit go moves the task, and perhaps a waiter.
LEMMA ReleaseMoves ==
  ASSUME Inv, NEW t \in Tasks, pc[t] \in HasPermit, NEW s, Release(t, s)
  PROVE  Moved(t, s)
BY PermitPassed DEF Inv
-----------------------------------------------------------------------------
(* The steps of connect. *)

\* Init satisfies the invariant.
LEMMA InitInv == Init => Inv
<1> SUFFICES ASSUME Init PROVE Inv
  OBVIOUS
<1> USE DEF Init
<1>1. LockInv({"h1", "h2"})
  BY LockInitInv
<1>2. \A t \in Tasks : pc[t] = "out"
  BY DEF LockInit
<1>3. TypeOK
  BY <1>1, EmptySeq DEF TypeOK, LockInv
<1>4. TasksHold /\ HandshakesNeeded
  BY <1>2 DEF TasksHold, HandshakesNeeded, HasTransport
<1>5. OneH2PerKey
  BY <1>2, EmptySeq DEF OneH2PerKey
<1>6. \A k \in Keys : DOMAIN h1_pool[k] = {} /\ DOMAIN h2_pool[k] = {}
  OBVIOUS
<1>7. H1InOnePlace
  BY <1>2, <1>6 DEF H1InOnePlace, Elements
<1> QED
  BY <1>1, <1>3, <1>4, <1>5, <1>7 DEF Inv

\* A step that does not change what connections are.
LEMMA SameKinds ==
  ASSUME NEW t, UNCHANGED kind
  PROVE  KindsKept(t)
BY DEF KindsKept

\* Dialling yields a connection that was nowhere.
LEMMA FreshConn ==
  ASSUME Inv, NEW c \in Conns, kind[c] = None
  PROVE  /\ c \notin broken
         /\ \A u \in Tasks : pc[u] \in HasTransport \cup {"h1", "h2"} => conn[u] # c
         /\ \A k \in Keys : c \notin Elements(h1_pool[k])
<1>1. kind[c] \notin {"transport", "h1", "h2"}
  BY ConnectorAssumption
<1>2. c \notin broken
  BY <1>1 DEF Inv, TasksHold
<1>3. ASSUME NEW u \in Tasks, pc[u] \in HasTransport \cup {"h1", "h2"} PROVE conn[u] # c
  BY <1>1, <1>3 DEF Inv, TasksHold
<1> QED
  BY <1>1, <1>2, <1>3, H1PoolFacts

\* A pool popped at its front, or otherwise thinned, stays as it must be.
LEMMA H1PoolThinned ==
  ASSUME Inv, NEW t \in Tasks, NEW k \in Keys, NEW r \in Seq(Conns),
         IsSubqueue(r, h1_pool[k]), UNCHANGED kind, h1_pool' = [h1_pool EXCEPT ![k] = r]
  PROVE  H1PoolFine(t)
<1>1. h1_pool \in [Keys -> Seq(Conns)]
  BY InvTypes
<1>2. \A j \in Keys : h1_pool'[j] = IF j = k THEN r ELSE h1_pool[j]
  BY <1>1
<1>3. NoRepeats(h1_pool[k])
  BY H1PoolFacts DEF QueuesDistinct, NoRepeats
<1>4. Elements(r) \subseteq Elements(h1_pool[k]) /\ NoRepeats(r)
  BY <1>1, <1>3, SubqueueDistinct
<1>5. \A j \in Keys : Elements(h1_pool'[j]) \subseteq Elements(h1_pool[j])
  BY <1>2, <1>4
<1>6. ASSUME NEW i \in Keys, NEW j \in Keys, NEW x \in DOMAIN h1_pool'[i],
             NEW y \in DOMAIN h1_pool'[j], h1_pool'[i][x] = h1_pool'[j][y]
      PROVE  i = j /\ x = y
  <2>1. h1_pool'[i][x] \in Elements(h1_pool[i]) /\ h1_pool'[j][y] \in Elements(h1_pool[j])
    BY <1>5 DEF Elements
  <2>2. i = j
    BY <1>6, <2>1, H1PoolFacts DEF Elements, QueuesDistinct
  <2>3. CASE i = k
    BY <1>2, <1>4, <1>6, <2>2, <2>3 DEF NoRepeats
  <2>4. CASE i # k
    BY <1>2, <1>6, <2>2, <2>4, H1PoolFacts DEF QueuesDistinct
  <2> QED
    BY <2>2, <2>3, <2>4
<1>7. QueuesDistinct(h1_pool')
  BY <1>6 DEF QueuesDistinct
<1> QED
  BY <1>5, <1>7, H1PoolFacts DEF H1PoolFine

\* connect, up to the dialling of the transport.
LEMMA ConnectStep ==
  ASSUME Inv, UNCHANGED builder, NEW t \in Tasks, NEW k \in Keys, Connect(t, k)
  PROVE  Inv'
<1>1. /\ pc[t] = "out" /\ key' = [key EXCEPT ![t] = k]
      /\ UNCHANGED <<kind, broken, permits, waiters>>
      /\ UNCHANGED h2_pool \/ h2_pool' = [h2_pool EXCEPT ![k] = Usable(k)]
  BY DEF Connect, ConnectShared
<1>2. OnlyKeyOf(t) /\ key'[t] = k /\ pc[t] \notin InLock
  BY <1>1, InvTypes, AwaitsListed DEF OnlyKeyOf
<1>3. KindsKept(t)
  BY <1>1, SameKinds
<1>4. H2PoolFine(t) /\ h2_pool' \in [Keys -> Seq(Conns)]
  BY <1>1, <1>3, H2PoolLooked
<1>5. ASSUME NEW s \in {"dialling", "h1", "h2"}, pc' = [pc EXCEPT ![t] = s],
             conn' \in [Tasks -> Conns \cup {None}], h1_pool' \in [Keys -> Seq(Conns)]
      PROVE  LockInv({"h1", "h2"})' /\ TypeOK' /\ Moved(t, s)
  <2>1. LockInv({"h1", "h2"})'
    BY <1>1, <1>2, <1>5, PlacesListed, LockUntouched DEF Inv
  <2> QED
    BY <1>1, <1>4, <1>5, <2>1, InvTypes DEF Inv, TypeOK, LockInv, Moved
<1>6. CASE ConnectShared(t, k)
  <2> DEFINE c == Head(Usable(k))
  <2>1. /\ Usable(k) # <<>> /\ h2_pool' = [h2_pool EXCEPT ![k] = Usable(k)]
        /\ pc' = [pc EXCEPT ![t] = "h2"] /\ conn' = [conn EXCEPT ![t] = c]
        /\ h1_pool' = h1_pool
    BY <1>6 DEF ConnectShared
  <2>2. c \in Conns /\ kind[c] = "h2" /\ Usable(k) = <<c>>
    BY <2>1, UsableFacts
  <2> HIDE DEF c
  <2>3. conn'[t] = c /\ OnlyConnOf(t) /\ conn' \in [Tasks -> Conns \cup {None}]
        /\ h2_pool'[k] = <<c>>
    BY <2>1, <2>2, InvTypes DEF OnlyConnOf
  <2>4. Arrives(t, "h2")
    BY <1>1, <1>2, <2>2, <2>3, PlacesListed DEF Arrives
  <2>5. H1PoolFine(t)
    BY <1>3, <2>1, H1PoolSame
  <2>6. LockInv({"h1", "h2"})' /\ TypeOK' /\ Moved(t, "h2")
    BY <1>5, <2>1, <2>3, InvTypes
  <2> QED
    BY <1>1, <1>2, <1>3, <1>4, <2>3, <2>4, <2>5, <2>6, TaskStep
<1>7. CASE ConnectIdle(t, k)
  <2> DEFINE q == h1_pool[k]
             c == Head(q)
             r == PopFront(q, 1)
  <2>1. /\ q # <<>> /\ h1_pool' = [h1_pool EXCEPT ![k] = r]
        /\ pc' = [pc EXCEPT ![t] = "h1"] /\ conn' = [conn EXCEPT ![t] = c]
    BY <1>7 DEF ConnectIdle
  <2>2. q \in Seq(Conns)
    BY InvTypes
  <2>3. /\ r \in Seq(Conns) /\ IsSubqueue(r, q)
        /\ \A i \in DOMAIN r : 1 + i \in DOMAIN q /\ r[i] = q[1 + i] /\ 1 + i # 1
    <3>1. r \in Seq(Conns) /\ IsSubqueue(r, q)
          /\ \A i \in DOMAIN r : 1 + i \in DOMAIN q /\ r[i] = q[1 + i]
      <4>1. 1 \in Nat
        OBVIOUS
      <4> HIDE DEF q
      <4> QED
        BY <2>2, <4>1, PopFrontProperties
    <3>2. DOMAIN r = 1..Len(r)
      BY <3>1, LenProperties
    <3> HIDE DEF r, q
    <3> QED
      BY <3>1, <3>2
  <2>4. 1 \in DOMAIN q /\ c = q[1]
    BY <2>1, <2>2, HeadAndTail
  <2>5. /\ c \in Conns /\ kind[c] = "h1"
        /\ \A u \in Tasks : pc[u] = "h1" => conn[u] # c
    BY <2>4, H1PoolFacts DEF Elements
  <2> HIDE DEF r, c
  <2>6. \A j \in Keys : h1_pool'[j] = IF j = k THEN r ELSE h1_pool[j]
    BY <2>1, InvTypes
  <2>7. \A j \in Keys : c \notin Elements(h1_pool'[j])
    <3>1. ASSUME NEW j \in Keys, NEW i \in DOMAIN h1_pool'[j] PROVE h1_pool'[j][i] # c
      <4>1. CASE j = k
        BY <2>3, <2>4, <2>6, <4>1, H1PoolFacts DEF QueuesDistinct
      <4>2. CASE j # k
        BY <2>4, <2>6, <4>2, H1PoolFacts DEF QueuesDistinct
      <4> QED
        BY <4>1, <4>2
    <3> QED
      BY <3>1 DEF Elements
  <2>8. H1PoolFine(t)
    BY <1>1, <2>1, <2>3, H1PoolThinned
  <2>9. /\ conn'[t] = c /\ OnlyConnOf(t) /\ conn' \in [Tasks -> Conns \cup {None}]
        /\ h1_pool' \in [Keys -> Seq(Conns)]
    BY <2>1, <2>3, <2>5, InvTypes DEF OnlyConnOf
  <2>10. Arrives(t, "h1")
    BY <1>1, <1>2, <2>5, <2>7, <2>9, PlacesListed DEF Arrives
  <2>11. LockInv({"h1", "h2"})' /\ TypeOK' /\ Moved(t, "h1")
    BY <1>5, <2>1, <2>9
  <2> QED
    BY <1>1, <1>2, <1>3, <1>4, <2>8, <2>9, <2>10, <2>11, TaskStep
<1>8. CASE Dial(t, k)
  <2>1. pc' = [pc EXCEPT ![t] = "dialling"] /\ UNCHANGED <<conn, h1_pool>>
    BY <1>8 DEF Dial
  <2>2. OnlyConnOf(t)
    BY <2>1 DEF OnlyConnOf
  <2>3. Arrives(t, "dialling")
    BY <1>2, PlacesListed DEF Arrives
  <2>4. H1PoolFine(t)
    BY <1>3, <2>1, H1PoolSame
  <2>5. LockInv({"h1", "h2"})' /\ TypeOK' /\ Moved(t, "dialling")
    BY <1>5, <2>1, InvTypes
  <2> QED
    BY <1>1, <1>2, <1>3, <1>4, <2>2, <2>3, <2>4, <2>5, TaskStep
<1> QED
  BY <1>6, <1>7, <1>8 DEF Connect

\* The type invariant, from the parts that a step changes.
LEMMA TypesKept ==
  ASSUME Inv, LockInv({"h1", "h2"})', UNCHANGED <<builder, broken>>,
         conn' \in [Tasks -> Conns \cup {None}],
         kind' \in [Conns -> {None, "transport", "h1", "h2"}],
         h1_pool' \in [Keys -> Seq(Conns)], h2_pool' \in [Keys -> Seq(Conns)]
  PROVE  TypeOK'
BY DEF Inv, TypeOK, LockInv

\* A connection that was dialled just now becomes x.
LEMMA NewKind ==
  ASSUME Inv, NEW t \in Tasks, NEW c \in Conns, NEW x \in {"transport", "h1", "h2"},
         kind[c] = None \/ (pc[t] \in HasTransport /\ conn[t] = c),
         kind' = [kind EXCEPT ![c] = x]
  PROVE  /\ KindsKept(t) /\ kind'[c] = x
         /\ kind' \in [Conns -> {None, "transport", "h1", "h2"}]
BY InvTypes DEF KindsKept

\* The task's own entry of conn changes.
LEMMA NewConn ==
  ASSUME Inv, NEW t \in Tasks, NEW c \in Conns \cup {None}, conn' = [conn EXCEPT ![t] = c]
  PROVE  OnlyConnOf(t) /\ conn'[t] = c /\ conn' \in [Tasks -> Conns \cup {None}]
BY InvTypes DEF OnlyConnOf

\* The inner connector returns a transport.
LEMMA DialledStep ==
  ASSUME Inv, UNCHANGED builder, NEW t \in Tasks, NEW c \in Conns, NEW alpn,
         Dialled(t, c, alpn)
  PROVE  Inv'
<1>1. /\ pc[t] = "dialling" /\ kind[c] = None
      /\ UNCHANGED <<key, broken, h1_pool>>
      /\ LockFree(t, c) \/ LockTaken(t, c) \/ LinkH1(t, c)
  BY DEF Dialled
<1>2. PICK k \in Keys : k = key[t]
  BY <1>1 DEF Inv, TasksHold
<1>3. OnlyKeyOf(t) /\ key'[t] = k /\ pc[t] \notin InLock
  BY <1>1, <1>2, InvTypes, AwaitsListed DEF OnlyKeyOf
<1>4. /\ c \notin broken
      /\ \A u \in Tasks : pc[u] \in HasTransport \cup {"h1", "h2"} => conn[u] # c
      /\ \A j \in Keys : c \notin Elements(h1_pool'[j])
  BY <1>1, FreshConn
<1>5. ASSUME NEW s, pc' = [pc EXCEPT ![t] = s] PROVE Moved(t, s)
  BY <1>5, InvTypes DEF Moved
<1>6. CASE LinkH1(t, c)
  <2>1. /\ kind' = [kind EXCEPT ![c] = "h1"] /\ conn' = [conn EXCEPT ![t] = c]
        /\ pc' = [pc EXCEPT ![t] = "h1"] /\ UNCHANGED <<h2_pool, permits, waiters>>
    BY <1>6 DEF LinkH1
  <2>2. KindsKept(t) /\ kind'[c] = "h1" /\ kind' \in [Conns -> {None, "transport", "h1", "h2"}]
    BY <1>1, <2>1, NewKind
  <2>3. OnlyConnOf(t) /\ conn'[t] = c /\ conn' \in [Tasks -> Conns \cup {None}]
    BY <2>1, NewConn
  <2>4. H2PoolFine(t) /\ h2_pool' \in [Keys -> Seq(Conns)]
    BY <2>1, <2>2, H2PoolLooked, <1>2
  <2>5. LockInv({"h1", "h2"})'
    BY <1>3, <2>1, PlacesListed, LockUntouched DEF Inv
  <2>6. TypeOK'
    BY <1>1, <2>2, <2>3, <2>4, <2>5, InvTypes, TypesKept
  <2>7. Arrives(t, "h1")
    BY <1>2, <1>3, <1>4, <2>2, <2>3, PlacesListed DEF Arrives
  <2> QED
    BY <1>1, <1>3, <1>5, <2>1, <2>2, <2>3, <2>4, <2>5, <2>6, <2>7, H1PoolSame, TaskStep
<1>7. CASE LockTaken(t, c)
  <2>1. /\ kind' = [kind EXCEPT ![c] = "transport"] /\ conn' = [conn EXCEPT ![t] = c]
        /\ Enqueue(t, k) /\ UNCHANGED h2_pool
    BY <1>2, <1>7 DEF LockTaken
  <2>2. KindsKept(t) /\ kind'[c] = "transport"
        /\ kind' \in [Conns -> {None, "transport", "h1", "h2"}]
    BY <1>1, <2>1, NewKind
  <2>3. OnlyConnOf(t) /\ conn'[t] = c /\ conn' \in [Tasks -> Conns \cup {None}]
    BY <2>1, NewConn
  <2>4. H2PoolFine(t) /\ h2_pool' \in [Keys -> Seq(Conns)]
    BY <2>1, <2>2, H2PoolLooked, <1>2
  <2>5. LockInv({"h1", "h2"})'
    BY <1>3, <2>1, Enqueued DEF Inv
  <2>6. TypeOK'
    BY <1>1, <2>2, <2>3, <2>4, <2>5, InvTypes, TypesKept
  <2>7. Arrives(t, "queued")
    BY <1>2, <1>3, <1>4, <2>2, <2>3, PlacesListed DEF Arrives
  <2>8. Moved(t, "queued")
    BY <1>5, <2>1 DEF Enqueue
  <2> QED
    BY <1>1, <1>3, <2>2, <2>3, <2>4, <2>5, <2>6, <2>7, <2>8, H1PoolSame, TaskStep
<1>8. CASE LockFree(t, c)
  <2>1. /\ kind' = [kind EXCEPT ![c] = "transport"]
        /\ h2_pool' = [h2_pool EXCEPT ![k] = Usable(k)]
    BY <1>2, <1>8 DEF LockFree
  <2>2. KindsKept(t) /\ kind'[c] = "transport"
        /\ kind' \in [Conns -> {None, "transport", "h1", "h2"}]
    BY <1>1, <2>1, NewKind
  <2>3. H2PoolFine(t) /\ h2_pool' \in [Keys -> Seq(Conns)] /\ h2_pool'[k] = Usable(k)
    BY <2>1, <2>2, H2PoolLooked, InvTypes
  <2>4. H1PoolFine(t)
    BY <1>1, <2>2, H1PoolSame
  <2>5. CASE Usable(k) # <<>>
    <3> DEFINE d == Head(Usable(k))
    <3>1. /\ pc' = [pc EXCEPT ![t] = "h2"] /\ conn' = [conn EXCEPT ![t] = d]
          /\ UNCHANGED <<permits, waiters>>
      BY <1>2, <1>8, <2>5 DEF LockFree
    <3>2. d \in Conns /\ kind[d] = "h2" /\ Usable(k) = <<d>>
      BY <2>5, UsableFacts
    <3> HIDE DEF d
    <3>3. kind'[d] = "h2"
      BY <1>1, <2>1, <3>2, InvTypes, ConnectorAssumption
    <3>4. OnlyConnOf(t) /\ conn'[t] = d /\ conn' \in [Tasks -> Conns \cup {None}]
      BY <3>1, <3>2, NewConn
    <3>5. LockInv({"h1", "h2"})'
      BY <1>3, <3>1, PlacesListed, LockUntouched DEF Inv
    <3>6. TypeOK'
      BY <1>1, <2>2, <2>3, <3>4, <3>5, InvTypes, TypesKept
    <3>7. Arrives(t, "h2")
      BY <1>2, <1>3, <2>3, <3>2, <3>3, <3>4, PlacesListed DEF Arrives
    <3> QED
      BY <1>1, <1>3, <1>5, <2>2, <2>3, <2>4, <3>1, <3>4, <3>5, <3>6, <3>7, TaskStep
  <2>6. CASE Usable(k) = <<>>
    <3>1. Acquire(t, k, "handshaking") /\ conn' = [conn EXCEPT ![t] = c]
      BY <1>2, <1>8, <2>6 DEF LockFree
    <3>2. OnlyConnOf(t) /\ conn'[t] = c /\ conn' \in [Tasks -> Conns \cup {None}]
      BY <3>1, NewConn
    <3>3. LockInv({"h1", "h2"})'
      BY <1>3, <3>1, AwaitsListed, PermitAcquired DEF Inv
    <3>4. TypeOK'
      BY <1>1, <2>2, <2>3, <3>2, <3>3, InvTypes, TypesKept
    <3>5. Arrives(t, "handshaking")
      BY <1>2, <1>3, <1>4, <2>2, <2>3, <2>6, <3>2, PlacesListed DEF Arrives
    <3>6. Moved(t, "handshaking")
      BY <1>5, <3>1 DEF Acquire
    <3> QED
      BY <1>1, <1>3, <2>2, <2>3, <2>4, <3>2, <3>3, <3>4, <3>5, <3>6, TaskStep
  <2> QED
    BY <2>5, <2>6
<1> QED
  BY <1>1, <1>6, <1>7, <1>8

\* ... or an error.
LEMMA DialFailedStep ==
  ASSUME Inv, UNCHANGED builder, NEW t \in Tasks, DialFailed(t)
  PROVE  Inv'
<1>1. /\ pc[t] = "dialling" /\ pc' = [pc EXCEPT ![t] = "out"]
      /\ key' = [key EXCEPT ![t] = None]
      /\ UNCHANGED <<conn, kind, broken, h1_pool, h2_pool, permits, waiters>>
  BY DEF DialFailed
<1>2. OnlyKeyOf(t) /\ pc[t] \notin InLock
  BY <1>1, InvTypes, AwaitsListed DEF OnlyKeyOf
<1>3. LockInv({"h1", "h2"})'
  BY <1>1, <1>2, PlacesListed, LockUntouched DEF Inv
<1>4. TypeOK'
  BY <1>1, <1>3, InvTypes, TypesKept
<1>5. KindsKept(t) /\ OnlyConnOf(t) /\ Moved(t, "out")
  BY <1>1, SameKinds, InvTypes DEF OnlyConnOf, Moved
<1>6. PICK k \in Keys : k = key[t]
  BY <1>1 DEF Inv, TasksHold
<1>7. H2PoolFine(t) /\ H1PoolFine(t)
  BY <1>1, <1>5, <1>6, H2PoolLooked, H1PoolSame
<1>8. Arrives(t, "out")
  BY PlacesListed DEF Arrives
<1> QED
  BY <1>1, <1>2, <1>3, <1>4, <1>5, <1>7, <1>8, TaskStep

\* A waiter that was given the permit is polled.
LEMMA WakeStep ==
  ASSUME Inv, UNCHANGED builder, NEW t \in Tasks, Wake(t)
  PROVE  Inv'
<1>1. pc[t] = "granted" /\ UNCHANGED <<key, kind, broken, h1_pool>>
  BY DEF Wake
<1>2. PICK k \in Keys : k = key[t]
  BY <1>1 DEF Inv, TasksHold
<1>3. h2_pool' = [h2_pool EXCEPT ![k] = Usable(k)]
  BY <1>2 DEF Wake
<1>4. OnlyKeyOf(t) /\ key'[t] = k /\ pc[t] \in HasPermit /\ pc[t] \in HasTransport
  BY <1>1, <1>2, InvTypes, AwaitsListed, PlacesListed DEF OnlyKeyOf
<1>5. KindsKept(t) /\ H1PoolFine(t)
  BY <1>1, SameKinds, H1PoolSame
<1>6. H2PoolFine(t) /\ h2_pool' \in [Keys -> Seq(Conns)] /\ h2_pool'[k] = Usable(k)
  BY <1>3, <1>5, H2PoolLooked, InvTypes
<1>7. CASE Usable(k) # <<>>
  <2> DEFINE d == Head(Usable(k))
  <2>1. Release(t, "h2") /\ conn' = [conn EXCEPT ![t] = d]
    BY <1>2, <1>7 DEF Wake
  <2>2. d \in Conns /\ kind[d] = "h2" /\ Usable(k) = <<d>>
    BY <1>7, UsableFacts
  <2> HIDE DEF d
  <2>3. OnlyConnOf(t) /\ conn'[t] = d /\ conn' \in [Tasks -> Conns \cup {None}]
    BY <2>1, <2>2, NewConn
  <2>4. LockInv({"h1", "h2"})'
    BY <1>4, <2>1, PlacesListed, PermitReleased DEF Inv
  <2>5. TypeOK'
    BY <1>1, <1>6, <2>3, <2>4, InvTypes, TypesKept
  <2>6. Arrives(t, "h2")
    BY <1>1, <1>2, <1>4, <1>6, <2>2, <2>3, PlacesListed DEF Arrives
  <2>7. Moved(t, "h2")
    BY <1>4, <2>1, ReleaseMoves
  <2> QED
    BY <1>1, <1>4, <1>5, <1>6, <2>3, <2>4, <2>5, <2>6, <2>7, TaskStep
<1>8. CASE Usable(k) = <<>>
  <2>1. pc' = [pc EXCEPT ![t] = "handshaking"] /\ UNCHANGED <<conn, permits, waiters>>
    BY <1>2, <1>8 DEF Wake
  <2>2. LockInv({"h1", "h2"})'
    BY <1>1, <1>4, <2>1, AwaitsListed, PermitKept DEF Inv
  <2>3. TypeOK'
    BY <1>1, <1>6, <2>1, <2>2, InvTypes, TypesKept
  <2>4. OnlyConnOf(t) /\ Moved(t, "handshaking")
    BY <2>1, InvTypes DEF OnlyConnOf, Moved
  <2>5. Arrives(t, "handshaking")
    BY <1>1, <1>2, <1>4, <1>6, <1>8, <2>1, PlacesListed DEF Arrives, Inv, TasksHold
  <2> QED
    BY <1>1, <1>4, <1>5, <1>6, <2>2, <2>3, <2>4, <2>5, TaskStep
<1> QED
  BY <1>7, <1>8

\* The handshake succeeds: its connection is the first of the key, because no other task had
\* the permit and the pool was looked into once it was held.
LEMMA HandshakeOkStep ==
  ASSUME Inv, UNCHANGED builder, NEW t \in Tasks, HandshakeOk(t)
  PROVE  Inv'
<1>1. pc[t] = "handshaking" /\ Release(t, "h2") /\ UNCHANGED <<key, conn, broken, h1_pool>>
  BY DEF HandshakeOk
<1>2. pc[t] \in HasPermit /\ pc[t] \in HasTransport
  BY <1>1, AwaitsListed, PlacesListed
<1>3. PICK k \in Keys : k = key[t]
  BY <1>1 DEF Inv, TasksHold
<1>4. PICK c \in Conns : c = conn[t]
  BY <1>2 DEF Inv, TasksHold
<1>5. kind[c] = "transport" /\ c \notin broken
  BY <1>2, <1>4 DEF Inv, TasksHold
<1>6. kind' = [kind EXCEPT ![c] = "h2"] /\ h2_pool' = [h2_pool EXCEPT ![k] = PutInsert(@, c)]
  BY <1>3, <1>4 DEF HandshakeOk
<1>7. KindsKept(t) /\ kind'[c] = "h2" /\ kind' \in [Conns -> {None, "transport", "h1", "h2"}]
  BY <1>2, <1>4, <1>6, NewKind
<1>8. h2_pool[k] = <<>>
  BY <1>1, <1>3 DEF Inv, HandshakesNeeded
<1>9. PICK q \in Seq(Conns) : q = <<c>> /\ Len(q) = 1 /\ Elements(q) = {c}
  <2>1. <<c>> \in Seq(Conns) /\ Len(<<c>>) = 1
    OBVIOUS
  <2>2. Elements(<<c>>) = {c}
    BY DEF Elements
  <2> QED
    BY <2>1, <2>2
<1>10. /\ \A j \in Keys : h2_pool'[j] = IF j = k THEN q ELSE h2_pool[j]
       /\ h2_pool' \in [Keys -> Seq(Conns)]
  <2>1. h2_pool' = [h2_pool EXCEPT ![k] = q]
    BY <1>6, <1>8, <1>9, PutIntoEmpty
  <2> QED
    BY <2>1, InvTypes
<1>11. H2PoolFine(t)
  <2>1. ASSUME NEW j \in Keys
        PROVE  Len(h2_pool'[j]) <= 1 /\ \A d \in Elements(h2_pool'[j]) : kind'[d] = "h2"
    <3>1. CASE j = k
      <4>1. Len(h2_pool'[j]) = 1 /\ Elements(h2_pool'[j]) = {c}
        BY <1>9, <1>10, <3>1
      <4> QED
        BY <1>7, <4>1
    <3>2. CASE j # k
      <4>1. Len(h2_pool[j]) <= 1 /\ \A d \in Elements(h2_pool[j]) : kind[d] = "h2"
        BY DEF Inv, OneH2PerKey, H1InOnePlace
      <4>2. \A d \in Elements(h2_pool[j]) : d \in Conns
        BY InvTypes, ElementOfSeq, LenProperties DEF Elements
      <4> QED
        BY <1>6, <1>10, <3>2, <4>1, <4>2, InvTypes
    <3> QED
      BY <3>1, <3>2
  <2>2. ASSUME NEW u \in Tasks \ {t}, pc[u] = "handshaking" PROVE h2_pool'[key[u]] = <<>>
    <3>1. key[u] \in Keys /\ h2_pool[key[u]] = <<>>
      BY <2>2 DEF Inv, TasksHold, HandshakesNeeded
    <3>2. key[u] # k
      BY <1>2, <1>3, <2>2, AwaitsListed DEF Inv, LockInv, OnePermit, Holders
    <3> QED
      BY <1>10, <3>1, <3>2
  <2>3. ASSUME NEW u \in Tasks \ {t}, pc[u] = "h2", conn[u] \notin broken
        PROVE  h2_pool'[key[u]] = <<conn[u]>>
    <3>1. key[u] \in Keys /\ h2_pool[key[u]] = <<conn[u]>>
      BY <2>3 DEF Inv, TasksHold, OneH2PerKey
    <3>2. key[u] # k
      BY <1>8, <3>1
    <3> QED
      BY <1>10, <3>1, <3>2
  <2> QED
    BY <2>1, <2>2, <2>3 DEF H2PoolFine
<1>12. OnlyKeyOf(t) /\ key'[t] = k
  BY <1>1, <1>3, InvTypes DEF OnlyKeyOf
<1>13. LockInv({"h1", "h2"})'
  BY <1>1, <1>2, <1>12, PlacesListed, PermitReleased DEF Inv
<1>14. TypeOK'
  BY <1>1, <1>7, <1>10, <1>13, InvTypes, TypesKept
<1>15. Arrives(t, "h2")
  BY <1>1, <1>3, <1>4, <1>7, <1>9, <1>10, <1>12, PlacesListed DEF Arrives
<1>16. Moved(t, "h2") /\ OnlyConnOf(t) /\ H1PoolFine(t)
  BY <1>1, <1>2, <1>7, ReleaseMoves, H1PoolSame DEF OnlyConnOf
<1> QED
  BY <1>1, <1>7, <1>11, <1>12, <1>13, <1>14, <1>15, <1>16, TaskStep

\* connect ends without a connection, by a failed handshake or by being dropped: what it had
\* dialled goes with it and nobody else has seen it.
LEMMA GoneStep ==
  ASSUME Inv, UNCHANGED builder, NEW t \in Tasks, pc[t] \in Awaiting, Moved(t, "out"),
         LockInv({"h1", "h2"})', OnlyKeyOf(t), conn' = [conn EXCEPT ![t] = None],
         UNCHANGED <<kind, broken, h1_pool, h2_pool>>
  PROVE  Inv'
<1>1. OnlyConnOf(t) /\ conn' \in [Tasks -> Conns \cup {None}]
  BY NewConn
<1>2. TypeOK'
  BY <1>1, InvTypes, TypesKept
<1>3. KindsKept(t)
  BY SameKinds
<1>4. PICK k \in Keys : k = key[t]
  BY AwaitsListed DEF Inv, TasksHold
<1>5. H2PoolFine(t) /\ H1PoolFine(t)
  BY <1>3, <1>4, H2PoolLooked, H1PoolSame
<1>6. Arrives(t, "out")
  BY PlacesListed DEF Arrives
<1> QED
  BY <1>1, <1>2, <1>3, <1>5, <1>6, TaskStep

\* The handshake fails: the permit passes on.
LEMMA HandshakeFailedStep ==
  ASSUME Inv, UNCHANGED builder, NEW t \in Tasks, HandshakeFailed(t)
  PROVE  Inv'
<1>1. /\ pc[t] = "handshaking" /\ Release(t, "out") /\ key' = [key EXCEPT ![t] = None]
      /\ conn' = [conn EXCEPT ![t] = None] /\ UNCHANGED <<kind, broken, h1_pool, h2_pool>>
  BY DEF HandshakeFailed
<1>2. pc[t] \in HasPermit /\ pc[t] \in Awaiting
  BY <1>1, AwaitsListed
<1>3. OnlyKeyOf(t)
  BY <1>1, InvTypes DEF OnlyKeyOf
<1>4. LockInv({"h1", "h2"})'
  BY <1>1, <1>2, <1>3, PlacesListed, PermitReleased DEF Inv
<1> QED
  BY <1>1, <1>2, <1>3, <1>4, ReleaseMoves, GoneStep

\* connect is dropped at one of its awaits.
LEMMA CancelStep ==
  ASSUME Inv, UNCHANGED builder, NEW t \in Tasks, Cancel(t)
  PROVE  Inv'
<1>1. /\ GiveUp(t) /\ conn' = [conn EXCEPT ![t] = None]
      /\ UNCHANGED <<kind, broken, h1_pool, h2_pool>>
  BY DEF Cancel
<1>2. pc[t] \in Awaiting /\ OnlyKeyOf(t)
  BY <1>1, InvTypes DEF GiveUp, OnlyKeyOf
<1>3. LockInv({"h1", "h2"})'
  BY <1>1, GivenUp DEF Inv
<1>4. Moved(t, "out")
  <2>1. CASE pc[t] \in HasPermit
    BY <1>1, <2>1, ReleaseMoves DEF GiveUp
  <2>2. CASE pc[t] \notin HasPermit
    BY <1>1, <2>2, InvTypes DEF GiveUp, Moved
  <2> QED
    BY <2>1, <2>2
<1> QED
  BY <1>1, <1>2, <1>3, <1>4, GoneStep
-----------------------------------------------------------------------------
(* The connections handed out. *)

\* A connection goes back to the pool of its key.
LEMMA H1PoolReturned ==
  ASSUME Inv, NEW t \in Tasks, NEW k \in Keys, NEW c \in Conns,
         pc[t] = "h1", conn[t] = c, c \notin broken, UNCHANGED kind,
         h1_pool' = [h1_pool EXCEPT ![k] = DropInsert(@, c)]
  PROVE  H1PoolFine(t) /\ h1_pool' \in [Keys -> Seq(Conns)]
<1>1. PICK r : r = DropInsert(h1_pool[k], c)
  OBVIOUS
<1>2. h1_pool \in [Keys -> Seq(Conns)]
  BY InvTypes
<1>3. NoRepeats(h1_pool[k]) /\ \A j \in Keys : c \notin Elements(h1_pool[j])
  BY H1PoolFacts DEF QueuesDistinct, NoRepeats
<1>4. r \in Seq(Conns) /\ Elements(r) \subseteq Elements(h1_pool[k]) \cup {c} /\ NoRepeats(r)
  BY <1>1, <1>2, <1>3, InsertDistinct
<1>5. h1_pool' = [h1_pool EXCEPT ![k] = r]
  BY <1>1
<1>6. \A j \in Keys : h1_pool'[j] = IF j = k THEN r ELSE h1_pool[j]
  BY <1>2, <1>5
<1>7. h1_pool' \in [Keys -> Seq(Conns)]
  BY <1>2, <1>4, <1>5
<1>8. kind[c] = "h1" /\ \A u \in Tasks \ {t} : pc[u] = "h1" => conn[u] # c
  BY DEF Inv, TasksHold, H1InOnePlace
<1>9. ASSUME NEW j \in Keys, NEW d \in Elements(h1_pool'[j])
      PROVE  /\ d \in Elements(h1_pool[j]) \/ (j = k /\ d = c)
             /\ kind'[d] = "h1" /\ d \notin broken
             /\ \A u \in Tasks \ {t} : pc[u] = "h1" => conn[u] # d
  <2>1. d \in Elements(h1_pool[j]) \/ (j = k /\ d = c)
    BY <1>4, <1>6
  <2> QED
    BY <1>8, <2>1, H1PoolFacts
<1>10. ASSUME NEW i \in Keys, NEW j \in Keys, NEW x \in DOMAIN h1_pool'[i],
              NEW y \in DOMAIN h1_pool'[j], h1_pool'[i][x] = h1_pool'[j][y]
       PROVE  i = j /\ x = y
  <2>1. h1_pool'[i][x] \in Elements(h1_pool'[i]) /\ h1_pool'[j][y] \in Elements(h1_pool'[j])
    BY DEF Elements
  <2>2. i = j
    <3>1. CASE h1_pool'[i][x] = c
      BY <1>3, <1>9, <1>10, <2>1, <3>1
    <3>2. CASE h1_pool'[i][x] # c
      <4>1. h1_pool'[i][x] \in Elements(h1_pool[i]) /\ h1_pool'[i][x] \in Elements(h1_pool[j])
        BY <1>9, <1>10, <2>1, <3>2
      <4> QED
        BY <4>1, H1PoolFacts DEF Elements, QueuesDistinct
    <3> QED
      BY <3>1, <3>2
  <2>3. CASE i = k
    BY <1>4, <1>6, <1>10, <2>2, <2>3 DEF NoRepeats
  <2>4. CASE i # k
    BY <1>6, <1>10, <2>2, <2>4, H1PoolFacts DEF QueuesDistinct
  <2> QED
    BY <2>2, <2>3, <2>4
<1>11. QueuesDistinct(h1_pool')
  BY <1>10 DEF QueuesDistinct
<1> QED
  BY <1>7, <1>9, <1>11 DEF H1PoolFine

\* The task drops its connection.
LEMMA DropStep ==
  ASSUME Inv, UNCHANGED builder, NEW t \in Tasks, DropHttpConnection(t)
  PROVE  Inv'
<1>1. /\ pc[t] \in {"h1", "h2"} /\ pc' = [pc EXCEPT ![t] = "out"]
      /\ key' = [key EXCEPT ![t] = None] /\ conn' = [conn EXCEPT ![t] = None]
      /\ UNCHANGED <<kind, broken, h2_pool, permits, waiters>>
  BY DEF DropHttpConnection
<1>2. PICK k \in Keys : k = key[t]
  BY <1>1 DEF Inv, TasksHold
<1>3. PICK c \in Conns : c = conn[t]
  BY <1>1 DEF Inv, TasksHold
<1>4. KindsKept(t)
  BY <1>1, SameKinds
<1>5. H1PoolFine(t) /\ h1_pool' \in [Keys -> Seq(Conns)]
  <2>1. CASE pc[t] = "h1" /\ c \notin broken
    BY <1>1, <1>2, <1>3, <2>1, H1PoolReturned DEF DropHttpConnection
  <2>2. CASE ~(pc[t] = "h1" /\ c \notin broken)
    BY <1>3, <1>4, <2>2, H1PoolSame, InvTypes DEF DropHttpConnection
  <2> QED
    BY <2>1, <2>2
<1>6. H2PoolFine(t)
  BY <1>1, <1>2, <1>4, H2PoolLooked
<1>7. OnlyKeyOf(t) /\ pc[t] \notin InLock /\ Moved(t, "out")
  BY <1>1, InvTypes, AwaitsListed DEF OnlyKeyOf, Moved
<1>8. LockInv({"h1", "h2"})'
  BY <1>1, <1>7, PlacesListed, LockUntouched DEF Inv
<1>9. OnlyConnOf(t) /\ conn' \in [Tasks -> Conns \cup {None}]
  BY <1>1, NewConn
<1>10. TypeOK'
  BY <1>1, <1>5, <1>8, <1>9, InvTypes, TypesKept
<1>11. Arrives(t, "out")
  BY PlacesListed DEF Arrives
<1> QED
  BY <1>1, <1>4, <1>5, <1>6, <1>7, <1>8, <1>9, <1>10, <1>11, TaskStep

\* A connection fails: only one that is not idle can.
LEMMA BreakStep ==
  ASSUME Inv, UNCHANGED builder, NEW c \in Conns, Break(c)
  PROVE  Inv'
<1>1. /\ broken' = broken \cup {c}
      /\ kind[c] = "h2" \/ (kind[c] = "h1" /\ \E t \in Tasks : pc[t] = "h1" /\ conn[t] = c)
      /\ UNCHANGED <<pc, key, conn, kind, h1_pool, h2_pool, permits, waiters>>
  BY DEF Break
<1>2. LockInv({"h1", "h2"})'
  BY <1>1, LockStutters DEF Inv, lockVars
<1>3. TypeOK'
  BY <1>1, <1>2 DEF Inv, TypeOK, LockInv
<1>4. TasksHold' /\ HandshakesNeeded' /\ OneH2PerKey'
  BY <1>1 DEF Inv, TasksHold, HandshakesNeeded, OneH2PerKey
<1>5. \A k \in Keys : c \notin Elements(h1_pool[k])
  BY <1>1, H1PoolFacts
<1>6. H1InOnePlace'
  BY <1>1, <1>5 DEF Inv, H1InOnePlace
<1> QED
  BY <1>2, <1>3, <1>4, <1>6 DEF Inv
-----------------------------------------------------------------------------
\* Every step keeps the invariant.
LEMMA NextInv ==
  ASSUME Inv, [Next]_vars
  PROVE  Inv'
<1>1. CASE UNCHANGED vars
  <2>1. LockInv({"h1", "h2"})'
    BY <1>1, LockStutters DEF Inv, vars
  <2>2. TypeOK'
    BY <1>1, <2>1 DEF Inv, TypeOK, LockInv, vars
  <2>3. TasksHold' /\ HandshakesNeeded' /\ OneH2PerKey' /\ H1InOnePlace'
    BY <1>1 DEF Inv, TasksHold, HandshakesNeeded, OneH2PerKey, H1InOnePlace, vars, lockVars
  <2> QED
    BY <2>1, <2>2, <2>3 DEF Inv
<1>2. ASSUME NEW t \in Tasks, Complete(t) PROVE Inv'
  BY <1>2, DialledStep, DialFailedStep, WakeStep, HandshakeOkStep, HandshakeFailedStep
     DEF Complete
<1>3. ASSUME NEW t \in Tasks, NEW k \in Keys, Connect(t, k), UNCHANGED builder PROVE Inv'
  BY <1>3, ConnectStep
<1>4. ASSUME NEW t \in Tasks, Cancel(t) \/ DropHttpConnection(t), UNCHANGED builder PROVE Inv'
  BY <1>4, CancelStep, DropStep
<1>5. ASSUME NEW c \in Conns, Break(c), UNCHANGED builder PROVE Inv'
  BY <1>5, BreakStep
<1> QED
  BY <1>1, <1>2, <1>3, <1>4, <1>5 DEF Next

\* The invariant holds of every behaviour of the connector.
THEOREM Invariance == Spec => []Inv
<1>1. Init => Inv
  BY InitInv
<1>2. Inv /\ [Next]_vars => Inv'
  BY NextInv
<1> QED
  BY <1>1, <1>2, PTL DEF Spec

\* Every variable of the connector keeps its type.
THEOREM TypeCorrectness == Spec => []TypeOK
<1>1. Inv => TypeOK
  BY DEF Inv
<1> QED
  BY <1>1, Invariance, PTL

\* The permit of a key is in its semaphore or with one connect, for any number of tasks and
\* whether they end well, fail or are dropped at an await.
THEOREM PermitConserved == Spec => []OnePermit
<1>1. Inv => OnePermit
  BY DEF Inv, LockInv
<1> QED
  BY <1>1, Invariance, PTL

\* The lock and the second look into h2_pool share one working HTTP/2 connection per key
\* between all tasks, however their dials and handshakes interleave.
THEOREM Sharing == Spec => []OneH2PerKey
<1>1. Inv => OneH2PerKey
  BY DEF Inv
<1> QED
  BY <1>1, Invariance, PTL

\* An HTTP/1.1 connection is never with two tasks, nor with one and in h1_pool: connect pops
\* it and the drop of its handle puts it back.
THEOREM H1Exclusive == Spec => []H1InOnePlace
<1>1. Inv => H1InOnePlace
  BY DEF Inv
<1> QED
  BY <1>1, Invariance, PTL
-----------------------------------------------------------------------------
\* A step that gives task t a connection gives it one that has not failed.
LEMMA StepReturns ==
  ASSUME Inv, [Next]_vars, NEW t \in Tasks,
         pc[t] \notin {"h1", "h2"}, pc'[t] \in {"h1", "h2"}
  PROVE  conn'[t] \notin broken
<1>1. ASSUME NEW u \in Tasks, NEW s, pc' = [pc EXCEPT ![u] = s] PROVE u = t /\ s \in {"h1", "h2"}
  BY <1>1, InvTypes
<1>2. ASSUME NEW u \in Tasks, pc[u] \in HasPermit, NEW s, Release(u, s)
      PROVE  u = t /\ s \in {"h1", "h2"}
  BY <1>2, ReleaseMoves DEF Moved
<1>3. ASSUME NEW k \in Keys, Usable(k) # <<>>, conn' = [conn EXCEPT ![t] = Head(Usable(k))]
      PROVE  conn'[t] \notin broken
  BY <1>3, UsableFacts, InvTypes
<1>4. ASSUME NEW u \in Tasks, NEW k \in Keys, Connect(u, k) PROVE conn'[t] \notin broken
  <2>1. CASE ConnectShared(u, k)
    BY <1>1, <1>3, <2>1 DEF ConnectShared
  <2>2. CASE ConnectIdle(u, k)
    <3>1. u = t /\ h1_pool[k] # <<>> /\ conn' = [conn EXCEPT ![t] = Head(h1_pool[k])]
      BY <1>1, <2>2 DEF ConnectIdle
    <3>2. h1_pool[k] \in Seq(Conns)
      BY InvTypes
    <3>3. 1 \in DOMAIN h1_pool[k] /\ Head(h1_pool[k]) = h1_pool[k][1]
      BY <3>1, <3>2, HeadAndTail
    <3>4. Head(h1_pool[k]) \notin broken
      BY <3>3, H1PoolFacts DEF Elements
    <3> QED
      BY <3>1, <3>4, InvTypes
  <2>3. CASE Dial(u, k)
    BY <1>1, <2>3 DEF Dial
  <2> QED
    BY <1>4, <2>1, <2>2, <2>3 DEF Connect
<1>5. ASSUME NEW u \in Tasks, NEW c \in Conns, NEW alpn, Dialled(u, c, alpn)
      PROVE  conn'[t] \notin broken
  <2>1. kind[c] = None /\ pc[u] = "dialling"
    BY <1>5 DEF Dialled
  <2>2. PICK k \in Keys : k = key[u]
    BY <2>1 DEF Inv, TasksHold
  <2>3. CASE LinkH1(u, c)
    <3>1. u = t /\ conn' = [conn EXCEPT ![t] = c]
      BY <1>1, <2>3 DEF LinkH1
    <3> QED
      BY <2>1, <3>1, FreshConn, InvTypes
  <2>4. CASE LockFree(u, c)
    <3>1. CASE Usable(k) # <<>>
      <4>1. pc' = [pc EXCEPT ![u] = "h2"] /\ conn' = [conn EXCEPT ![u] = Head(Usable(k))]
        BY <2>2, <2>4, <3>1 DEF LockFree
      <4> QED
        BY <1>1, <1>3, <3>1, <4>1
    <3>2. CASE Usable(k) = <<>>
      <4>1. pc' = [pc EXCEPT ![u] = "handshaking"]
        BY <2>2, <2>4, <3>2 DEF LockFree, Acquire
      <4> QED
        BY <1>1, <4>1
    <3> QED
      BY <3>1, <3>2
  <2>5. CASE LockTaken(u, c)
    BY <1>1, <2>5 DEF LockTaken, Enqueue
  <2> QED
    BY <1>5, <2>3, <2>4, <2>5 DEF Dialled
<1>6. ASSUME NEW u \in Tasks, Wake(u) PROVE conn'[t] \notin broken
  <2>1. pc[u] = "granted" /\ pc[u] \in HasPermit
    BY <1>6, AwaitsListed DEF Wake
  <2>2. PICK k \in Keys : k = key[u]
    BY <2>1 DEF Inv, TasksHold
  <2>3. CASE Usable(k) # <<>>
    <3>1. Release(u, "h2") /\ conn' = [conn EXCEPT ![u] = Head(Usable(k))]
      BY <1>6, <2>2, <2>3 DEF Wake
    <3> QED
      BY <1>2, <1>3, <2>1, <2>3, <3>1
  <2>4. CASE Usable(k) = <<>>
    <3>1. pc' = [pc EXCEPT ![u] = "handshaking"]
      BY <1>6, <2>2, <2>4 DEF Wake
    <3> QED
      BY <1>1, <3>1
  <2> QED
    BY <2>3, <2>4
<1>7. ASSUME NEW u \in Tasks, HandshakeOk(u) PROVE conn'[t] \notin broken
  <2>1. pc[u] = "handshaking" /\ Release(u, "h2") /\ conn' = conn
    BY <1>7 DEF HandshakeOk
  <2>2. u = t
    BY <1>2, <2>1, AwaitsListed
  <2> QED
    BY <2>1, <2>2, PlacesListed DEF Inv, TasksHold
<1>8. ASSUME NEW u \in Tasks, DialFailed(u) \/ DropHttpConnection(u) PROVE FALSE
  <2>1. pc' = [pc EXCEPT ![u] = "out"]
    BY <1>8 DEF DialFailed, DropHttpConnection
  <2> QED
    BY <1>1, <2>1
<1>9. ASSUME NEW u \in Tasks, HandshakeFailed(u) PROVE FALSE
  <2>1. pc[u] \in HasPermit /\ Release(u, "out")
    BY <1>9, AwaitsListed DEF HandshakeFailed
  <2> QED
    BY <1>2, <2>1
<1>10. ASSUME NEW u \in Tasks, Cancel(u) PROVE FALSE
  <2>1. \/ pc[u] \in HasPermit /\ Release(u, "out")
        \/ pc' = [pc EXCEPT ![u] = "out"]
    BY <1>10 DEF Cancel, GiveUp
  <2> QED
    BY <1>1, <1>2, <2>1
<1>11. ASSUME UNCHANGED pc PROVE FALSE
  BY <1>11
<1>12. ASSUME NEW u \in Tasks, Complete(u) PROVE conn'[t] \notin broken
  BY <1>5, <1>6, <1>7, <1>8, <1>9, <1>12 DEF Complete
<1> QED
  BY <1>4, <1>8, <1>10, <1>11, <1>12 DEF Next, vars, lockVars, Break

\* What connect returns has not failed at that moment: a connection from h2_pool is filtered,
\* an idle one was put back open, and a new one is too young to have failed.
THEOREM Working == Spec => ReturnsWorking
<1> DEFINE Step == \A t \in Tasks : pc[t] \notin {"h1", "h2"} /\ pc'[t] \in {"h1", "h2"}
                                      => conn'[t] \notin broken
<1>1. Inv /\ [Next]_vars => Step
  BY StepReturns
<1>2. ReturnsWorking <=> [][Step]_vars
  BY PTL DEF ReturnsWorking
<1> HIDE DEF Step
<1> QED
  BY <1>1, <1>2, Invariance, PTL DEF Spec
=============================================================================
