----------------------- MODULE HyperH1ConnectorProofs -----------------------
(***************************************************************************)
(* The safety properties of HyperH1Connector, for every set of tasks and   *)
(* connections and every capacity of the pool.                             *)
(***************************************************************************)
EXTENDS HyperH1Connector, PoolQueueProofs

\* The pool holds connections that were made, and only those have been asked anything.
OnlyMade ==
  /\ Elements(pool) \subseteq born
  /\ \A c \in Conns : reader[c] # None => c \in born

\* The inductive invariant.
Inv ==
  /\ TypeOK
  /\ OneHolder
  /\ OnlyMade

\* Task t may be at pc'[t] with conn'[t], and the others keep what they have.
Arrives(t) ==
  /\ \A u \in Tasks \ {t} : pc'[u] = pc[u] /\ conn'[u] = conn[u]
  /\ conn'[t] # None <=> pc'[t] \in {"held", "readying"}
  /\ conn'[t] # None =>
       /\ conn'[t] \in born' \ Elements(pool')
       /\ \A u \in Tasks \ {t} : conn[u] # conn'[t]
-----------------------------------------------------------------------------
\* OneHolder, task by task.
LEMMA Holding ==
  OneHolder <=> /\ \A t \in Tasks : conn[t] # None <=> pc[t] \in {"held", "readying"}
                /\ \A s, t \in Tasks : conn[s] # None /\ conn[s] = conn[t] => s = t
                /\ NoRepeats(pool)
                /\ \A t \in Tasks : conn[t] # None => conn[t] \in born \ Elements(pool)
BY DEF OneHolder, NoRepeats

\* One step of a task keeps the invariant if it keeps those parts.
LEMMA TaskStep ==
  ASSUME Inv, NEW t \in Tasks, TypeOK', Arrives(t), NoRepeats(pool'), born \subseteq born',
         Elements(pool') \subseteq born',
         \A u \in Tasks \ {t} : conn[u] # None => conn[u] \notin Elements(pool'),
         \A c \in Conns : reader'[c] # None => c \in born'
  PROVE  Inv'
<1>1. OneHolder'
  <2>1. ASSUME NEW u \in Tasks
        PROVE  /\ conn'[u] # None <=> pc'[u] \in {"held", "readying"}
               /\ conn'[u] # None => conn'[u] \in born' \ Elements(pool')
    BY Holding DEF Inv, Arrives
  <2>2. ASSUME NEW r \in Tasks, NEW u \in Tasks, conn'[r] # None, conn'[r] = conn'[u]
        PROVE  r = u
    BY <2>2, Holding DEF Inv, Arrives
  <2> QED
    BY <2>1, <2>2 DEF OneHolder, NoRepeats
<1> QED
  BY <1>1 DEF Inv, OnlyMade

\* Init satisfies the invariant.
LEMMA InitInv == Init => Inv
<1> SUFFICES ASSUME Init PROVE Inv
  OBVIOUS
<1>1. pool \in Seq(Conns) /\ Elements(pool) = {} /\ NoRepeats(pool)
  BY EmptySeq DEF Init, Elements, NoRepeats
<1>2. TypeOK /\ OnlyMade
  BY <1>1 DEF Init, TypeOK, OnlyMade
<1> QED
  BY <1>1, <1>2, Holding DEF Init, Inv

\* The loop over pool.get, from a task whose own connection has been let go or was none:
\* what it takes leaves the pool, and what it skips was closed.
LEMMA LookStep ==
  ASSUME Inv, NEW t \in Tasks, Look(t), UNCHANGED <<born, closed, reader>>
  PROVE  /\ Inv'
         /\ pc'[t] = "held" => IsReady(conn'[t])
<1>1. /\ pc \in [Tasks -> Awaiting \cup {"out", "held"}]
      /\ conn \in [Tasks -> Conns \cup {None}]
      /\ pool \in Seq(Conns)
  BY DEF Inv, TypeOK
<1>2. Len(pool) \in Nat /\ DOMAIN pool = 1..Len(pool)
  BY <1>1, LenProperties
<1>3. NoRepeats(pool) /\ \A u \in Tasks : conn[u] # None => conn[u] \notin Elements(pool)
  BY Holding DEF Inv
<1>4. ASSUME NEW n \in DOMAIN pool,
             pool' = PopFront(pool, n),
             conn' = [conn EXCEPT ![t] = pool[n]],
             pc' = [pc EXCEPT ![t] = IF IsReady(pool[n]) THEN "held" ELSE "readying"]
      PROVE  Inv' /\ (pc'[t] = "held" => IsReady(conn'[t]))
  <2>1. PICK c : c = pool[n]
    OBVIOUS
  <2>2. n \in Nat /\ c \in Conns /\ c \in Elements(pool) /\ c # None
    BY <1>1, <1>2, <2>1, ElementOfSeq, HyperH1Assumption DEF Elements
  <2>3. pool' \in Seq(Conns) /\ IsSubqueue(pool', pool)
    BY <1>1, <1>4, <2>2, PopFrontProperties
  <2>4. Elements(pool') \subseteq Elements(pool) /\ NoRepeats(pool')
    BY <1>1, <1>3, <2>3, SubqueueDistinct
  <2>5. c \notin Elements(pool')
    <3>1. Len(pool') \in Nat /\ DOMAIN pool' = 1..Len(pool')
      BY <2>3, LenProperties
    <3>2. \A i \in DOMAIN pool' : n + i \in DOMAIN pool /\ pool'[i] = pool[n + i]
      BY <1>1, <1>4, <2>2, PopFrontProperties
    <3>3. ASSUME NEW i \in DOMAIN pool', pool'[i] = c PROVE FALSE
      <4>1. n + i = n
        BY <1>3, <2>1, <3>2, <3>3 DEF NoRepeats
      <4> QED
        BY <2>2, <3>1, <4>1
    <3> QED
      BY <3>3 DEF Elements
  <2>6. conn'[t] = c /\ pc'[t] = IF IsReady(c) THEN "held" ELSE "readying"
    BY <1>1, <1>4, <2>1
  <2>7. TypeOK'
    BY <1>1, <1>4, <2>1, <2>2, <2>3 DEF Inv, TypeOK, Awaiting
  <2>8. Arrives(t)
    BY <1>1, <1>3, <1>4, <2>2, <2>5, <2>6 DEF Arrives, Inv, OnlyMade
  <2>9. Inv'
    BY <1>3, <2>4, <2>7, <2>8, TaskStep DEF Inv, OnlyMade
  <2> QED
    BY <2>6, <2>9
<1>5. CASE LookMiss(t)
  <2>1. pool' = <<>> /\ conn' = [conn EXCEPT ![t] = None] /\ pc' = [pc EXCEPT ![t] = "dialling"]
    BY <1>5 DEF LookMiss
  <2>2. pool' \in Seq(Conns) /\ Elements(pool') = {} /\ NoRepeats(pool')
    BY <2>1, EmptySeq DEF Elements, NoRepeats
  <2>3. TypeOK'
    BY <1>1, <2>1, <2>2 DEF Inv, TypeOK, Awaiting
  <2>4. Arrives(t)
    BY <1>1, <2>1 DEF Arrives
  <2> QED
    BY <1>1, <2>1, <2>2, <2>3, <2>4, TaskStep DEF Inv, OnlyMade
<1> QED
  BY <1>4, <1>5 DEF Look, LookHit

\* Drop for Pooled: an open connection goes back to the pool, which did not have it.
LEMMA ReleaseStep ==
  ASSUME Inv, NEW t \in Tasks, pc[t] \in {"held", "readying"}, Release(t),
         UNCHANGED <<born, closed, reader>>
  PROVE  Inv'
<1>1. /\ pc \in [Tasks -> Awaiting \cup {"out", "held"}]
      /\ conn \in [Tasks -> Conns \cup {None}]
      /\ pool \in Seq(Conns)
  BY DEF Inv, TypeOK
<1>2. PICK c \in Conns : c = conn[t] /\ c \in born \ Elements(pool)
  BY <1>1, Holding DEF Inv
<1>3. NoRepeats(pool) /\ \A u \in Tasks : conn[u] # None => conn[u] \notin Elements(pool)
  BY Holding DEF Inv
<1>4. /\ pool' = IF c \notin closed THEN DropInsert(pool, c) ELSE pool
      /\ conn' = [conn EXCEPT ![t] = None] /\ pc' = [pc EXCEPT ![t] = "out"]
  BY <1>2 DEF Release
<1>5. pool' \in Seq(Conns) /\ Elements(pool') \subseteq Elements(pool) \cup {c} /\ NoRepeats(pool')
  BY <1>1, <1>2, <1>3, <1>4, InsertDistinct
<1>6. \A u \in Tasks \ {t} : conn[u] # c
  BY <1>2, Holding, HyperH1Assumption DEF Inv
<1>7. TypeOK'
  BY <1>1, <1>4, <1>5 DEF Inv, TypeOK
<1>8. Arrives(t)
  BY <1>1, <1>4 DEF Arrives
<1> QED
  BY <1>2, <1>3, <1>5, <1>6, <1>7, <1>8, TaskStep DEF Inv, OnlyMade

\* A step of task t that leaves the pool and every handle alone.
LEMMA PlaceStep ==
  ASSUME Inv, NEW t \in Tasks, NEW s \in Awaiting \cup {"out", "held"},
         pc[t] \in {"held", "readying"} <=> s \in {"held", "readying"},
         pc' = [pc EXCEPT ![t] = s], UNCHANGED <<conn, pool, born, closed, reader>>
  PROVE  Inv'
<1>1. pc \in [Tasks -> Awaiting \cup {"out", "held"}]
  BY DEF Inv, TypeOK
<1>2. TypeOK'
  BY <1>1 DEF Inv, TypeOK
<1>3. Arrives(t)
  BY <1>1, Holding DEF Arrives, Inv
<1> QED
  BY <1>2, <1>3, Holding, TaskStep DEF Inv, OnlyMade

\* The handshake yields a connection that nobody has seen.
LEMMA HandshakeOkStep ==
  ASSUME Inv, NEW t \in Tasks, NEW c \in Conns, HandshakeOk(t, c)
  PROVE  Inv' /\ conn'[t] = c /\ IsReady(c)
<1>1. /\ pc \in [Tasks -> Awaiting \cup {"out", "held"}]
      /\ conn \in [Tasks -> Conns \cup {None}]
  BY DEF Inv, TypeOK
<1>2. /\ c \notin born /\ born' = born \cup {c} /\ conn' = [conn EXCEPT ![t] = c]
      /\ pc' = [pc EXCEPT ![t] = "held"] /\ UNCHANGED <<pool, closed, reader>>
  BY DEF HandshakeOk
<1>3. c # None /\ c \notin Elements(pool) /\ \A u \in Tasks : conn[u] # c
  BY <1>2, Holding, HyperH1Assumption DEF Inv, OnlyMade
<1>4. TypeOK'
  BY <1>1, <1>2 DEF Inv, TypeOK
<1>5. Arrives(t)
  BY <1>1, <1>2, <1>3 DEF Arrives
<1>6. Inv'
  BY <1>2, <1>4, <1>5, Holding, TaskStep DEF Inv, OnlyMade
<1>7. IsReady(c)
  BY <1>2 DEF IsReady, Inv, TypeOK, OnlyMade
<1> QED
  BY <1>1, <1>2, <1>6, <1>7

\* Who has yet to read a response, and which connections are closed, disturbs nobody.
LEMMA ReaderStep ==
  ASSUME Inv, UNCHANGED <<pc, conn, pool, born>>,
         closed' \subseteq born,
         reader' \in [Conns -> Tasks \cup {None}],
         \A c \in Conns : reader'[c] # None => c \in born
  PROVE  Inv'
<1>1. TypeOK' /\ OnlyMade'
  BY DEF Inv, TypeOK, OnlyMade
<1>2. OneHolder'
  BY DEF Inv, OneHolder
<1> QED
  BY <1>1, <1>2 DEF Inv

\* The idle task thins the pool.
LEMMA ExpireStep ==
  ASSUME Inv, NEW E \in SUBSET Conns, Expire(E)
  PROVE  Inv'
<1>1. pool' = Retain(pool, Conns \ E) /\ UNCHANGED <<pc, conn, born, closed, reader>>
  BY DEF Expire
<1>2. pool \in Seq(Conns) /\ NoRepeats(pool)
  BY Holding DEF Inv, TypeOK
<1>3. pool' \in Seq(Conns) /\ Elements(pool') \subseteq Elements(pool) /\ NoRepeats(pool')
  BY <1>1, <1>2, RetainElements
<1>4. TypeOK' /\ OnlyMade'
  BY <1>1, <1>3 DEF Inv, TypeOK, OnlyMade
<1>5. OneHolder'
  BY <1>1, <1>3 DEF Inv, OneHolder, NoRepeats
<1> QED
  BY <1>4, <1>5 DEF Inv

\* A step of task t keeps the invariant, and what it hands to t is ready.
LEMMA StepOfTask ==
  ASSUME Inv, NEW t \in Tasks, Connect(t) \/ Complete(t) \/ Cancel(t) \/ DropPooled(t)
  PROVE  /\ Inv'
         /\ pc[t] # "held" /\ pc'[t] = "held" => IsReady(conn'[t])
<1>1. pc \in [Tasks -> Awaiting \cup {"out", "held"}]
  BY DEF Inv, TypeOK
<1>2. CASE Connect(t)
  BY <1>2, LookStep DEF Connect
<1>3. CASE Ready(t)
  <2>1. Inv'
    BY <1>3, PlaceStep DEF Ready
  <2> QED
    BY <1>3, <2>1 DEF Ready
<1>4. CASE ReadyFails(t)
  BY <1>4, LookStep DEF ReadyFails
<1>5. CASE Dialled(t)
  <2>1. Inv'
    BY <1>5, PlaceStep DEF Dialled, Awaiting
  <2> QED
    BY <1>1, <1>5, <2>1 DEF Dialled
<1>6. CASE Failed(t)
  <2>1. Inv'
    BY <1>6, PlaceStep DEF Failed
  <2> QED
    BY <1>1, <1>6, <2>1 DEF Failed
<1>7. ASSUME NEW c \in Conns, HandshakeOk(t, c)
      PROVE  Inv' /\ IsReady(conn'[t])
  BY <1>7, HandshakeOkStep
<1>8. CASE Cancel(t)
  <2>1. CASE pc[t] = "readying"
    BY <1>1, <1>8, <2>1, ReleaseStep DEF Cancel, Release
  <2>2. CASE pc[t] # "readying"
    <3>1. /\ pc[t] \notin {"held", "readying"} /\ pc' = [pc EXCEPT ![t] = "out"]
          /\ UNCHANGED <<conn, pool, born, closed, reader>>
      BY <1>8, <2>2 DEF Cancel, Awaiting
    <3>2. Inv'
      BY <3>1, PlaceStep
    <3> QED
      BY <1>1, <3>1, <3>2
  <2> QED
    BY <2>1, <2>2
<1>9. CASE DropPooled(t)
  BY <1>9, ReleaseStep DEF DropPooled
<1> QED
  BY <1>2, <1>3, <1>4, <1>5, <1>6, <1>7, <1>8, <1>9 DEF Complete

\* The other steps keep it too, and hand nothing out.
LEMMA OtherSteps ==
  ASSUME Inv,
         \/ UNCHANGED vars
         \/ \E t \in Tasks : SendRequest(t) \/ \E c \in Conns : ReadBody(t, c)
         \/ \E c \in Conns : Close(c)
         \/ \E E \in SUBSET Conns : Expire(E)
  PROVE  Inv' /\ UNCHANGED pc
<1>1. CASE UNCHANGED vars
  <2>1. UNCHANGED <<pc, conn, pool, born, closed, reader>>
    BY <1>1 DEF vars
  <2> QED
    BY <2>1, ReaderStep DEF Inv, TypeOK, OnlyMade
<1>2. ASSUME NEW t \in Tasks, SendRequest(t) PROVE Inv' /\ UNCHANGED pc
  <2>1. /\ pc[t] = "held" /\ reader' = [reader EXCEPT ![conn[t]] = t]
        /\ UNCHANGED <<pc, conn, pool, born, closed>>
    BY <1>2 DEF SendRequest
  <2>2. conn[t] \in Conns /\ conn[t] \in born
    BY <2>1, Holding DEF Inv, TypeOK
  <2> QED
    BY <2>1, <2>2, ReaderStep DEF Inv, TypeOK, OnlyMade
<1>3. ASSUME NEW t \in Tasks, NEW c \in Conns, ReadBody(t, c) PROVE Inv' /\ UNCHANGED pc
  BY <1>3, ReaderStep DEF ReadBody, Inv, TypeOK, OnlyMade
<1>4. ASSUME NEW c \in Conns, Close(c) PROVE Inv' /\ UNCHANGED pc
  BY <1>4, ReaderStep DEF Close, Inv, TypeOK, OnlyMade
<1>5. ASSUME NEW E \in SUBSET Conns, Expire(E) PROVE Inv' /\ UNCHANGED pc
  BY <1>5, ExpireStep DEF Expire
<1> QED
  BY <1>1, <1>2, <1>3, <1>4, <1>5

\* Every step keeps the invariant, and a task that comes to hold a connection holds one that
\* was ready.
LEMMA NextInv ==
  ASSUME Inv, [Next]_vars
  PROVE  /\ Inv'
         /\ \A t \in Tasks : pc[t] # "held" /\ pc'[t] = "held" => IsReady(conn'[t])
<1>1. ASSUME NEW t \in Tasks, Connect(t) \/ Complete(t) \/ Cancel(t) \/ DropPooled(t)
      PROVE  /\ Inv'
             /\ \A u \in Tasks : pc[u] # "held" /\ pc'[u] = "held" => IsReady(conn'[u])
  <2>1. \A u \in Tasks \ {t} : pc'[u] = pc[u]
    BY <1>1 DEF Inv, TypeOK, Connect, Look, LookHit, LookMiss, Complete, Ready, ReadyFails, Dialled,
                Failed, HandshakeOk, Cancel, DropPooled, Release
  <2> QED
    BY <1>1, <2>1, StepOfTask
<1>2. CASE Next /\ ~\E t \in Tasks : Connect(t) \/ Complete(t) \/ Cancel(t) \/ DropPooled(t)
  BY <1>2, OtherSteps DEF Next
<1>3. CASE UNCHANGED vars
  BY <1>3, OtherSteps
<1> QED
  BY <1>1, <1>2, <1>3
-----------------------------------------------------------------------------
(* The theorems. *)

\* The invariant holds of every behaviour of the connector.
THEOREM Invariance == Spec => []Inv
<1>1. Inv /\ [Next]_vars => Inv'
  BY NextInv
<1> QED
  BY <1>1, InitInv, PTL DEF Spec

\* Every variable of the connector keeps its type.
THEOREM TypeCorrectness == Spec => []TypeOK
<1>1. Inv => TypeOK
  BY DEF Inv
<1> QED
  BY <1>1, Invariance, PTL

\* A connection is with one task or at one position of the pool, for any number of tasks:
\* the loop over pool.get, a wait that is cancelled and the drop of the handle all move it
\* whole.
THEOREM Exclusive == Spec => []OneHolder
<1>1. Inv => OneHolder
  BY DEF Inv
<1> QED
  BY <1>1, Invariance, PTL

\* A task is given a connection only when nobody has a response of it to read any more and it
\* has not closed: from the pool, after a wait, or new.
THEOREM HandedOutReady == Spec => ReturnsReady
<1> DEFINE Step == \A t \in Tasks : pc[t] # "held" /\ pc'[t] = "held" => IsReady(conn'[t])
<1>1. Inv /\ [Next]_vars => Step
  BY NextInv
<1>2. ReturnsReady <=> [][Step]_vars
  BY PTL DEF ReturnsReady
<1> HIDE DEF Step
<1> QED
  BY <1>1, <1>2, Invariance, PTL DEF Spec
=============================================================================
