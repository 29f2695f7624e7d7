------------------------ MODULE ConnectorStackProofs ------------------------
(***************************************************************************)
(* The stacked connectors, for every set of tasks and URIs: what a task    *)
(* holds is what it asked for, the pool is within its bounds under them,   *)
(* and no handle is lost.                                                  *)
(***************************************************************************)
EXTENDS ConnectorStack, ConnectionPoolProofs

StackTypeOK ==
  /\ stack \in {"pooled", "unified"}
  /\ pc \in [Tasks -> {"out", "dialling", "securing", "held"}]
  /\ asked \in [Tasks -> Uris \cup {None}]
  /\ conn \in [Tasks -> Conns \cup {None}]
  /\ stream \in [Conns -> Streams \cup {None}]

\* A task in connect, or past it, has asked for a URI that makes an address.
AskedAddress == \A t \in Tasks : pc[t] # "out" => asked[t] \in Uris /\ Addr(asked[t]) # None

\* A task holds a stream to the address it asked for.
HeldStream ==
  \A t \in Tasks : pc[t] = "held" =>
    conn[t] \in Conns /\ stream[conn[t]] = Stream(Addr(asked[t]))

\* Whatever the pool has ever had is a stream to the key it has it under.
PooledStream ==
  stack = "pooled" => \A c \in born : home[c] \in Keys /\ stream[c] = Stream(home[c])

\* The inductive invariant.
StackInv ==
  /\ StackTypeOK
  /\ AskedAddress
  /\ HeldStream
  /\ PooledStream
  /\ HandlesMatchTasks
-----------------------------------------------------------------------------
(* Addresses. *)

\* The address of a URI, when it has one: its port is the URI's or the scheme's, and it has
\* the URI's host for a server name exactly if the scheme is https.
LEMMA AddressFacts ==
  ASSUME NEW u \in Uris, Addr(u) # None
  PROVE  /\ Addr(u).host = u.host /\ Addr(u).port = port_u16(u)
         /\ Addr(u).sn = IF tls(u) THEN u.host ELSE None
         /\ Stream(Addr(u)) \in Streams /\ Stream(Addr(u)) # None
         /\ stack = "pooled" => Addr(u) = TcpTlsAddr(u) /\ Addr(u) \in Keys
<1>1. CASE stack = "pooled"
  <2>1. Addr(u) = TcpTlsAddr(u) /\ Addr(u) \in Keys
    BY <1>1, StackAssumption DEF Addr
  <2>2. /\ tls(u) /\ u.host \in ServerNames
        /\ TcpTlsAddr(u) = [host |-> u.host, port |-> port_u16(u), sn |-> u.host]
    BY <2>1 DEF TcpTlsAddr
  <2>3. Addr(u).host = u.host /\ Addr(u).port = port_u16(u) /\ Addr(u).sn = u.host
    BY <2>1, <2>2
  <2>4. Stream(Addr(u)) \in Streams
    BY <2>2, <2>3 DEF Stream, Streams
  <2> QED
    BY <2>1, <2>2, <2>3, <2>4, StackAssumption
<1>2. CASE stack # "pooled"
  <2> DEFINE n == IF tls(u) THEN u.host ELSE None
  <2>1. /\ n \in ServerNames \cup {None}
        /\ Addr(u) = [host |-> u.host, port |-> port_u16(u), sn |-> n]
    BY <1>2 DEF Addr, UnifiedAddr
  <2> HIDE DEF n
  <2>2. Addr(u).host = u.host /\ Addr(u).port = port_u16(u) /\ Addr(u).sn = n
    BY <2>1
  <2>3. Stream(Addr(u)) \in Streams
    BY <2>1, <2>2 DEF Stream, Streams
  <2> QED
    BY <1>2, <2>2, <2>3, StackAssumption DEF n
<1> QED
  BY <1>1, <1>2

\* An address does not change while the connector lives.
LEMMA SameAddress ==
  ASSUME UNCHANGED stack, NEW u
  PROVE  Addr(u)' = Addr(u)
BY DEF Addr
-----------------------------------------------------------------------------
(* What the pool's methods do, as the connectors see it. *)

\* get answers with a connection of that key which nobody holds, or changes nothing.
LEMMA GetEffect ==
  ASSUME Inv, NEW k \in Keys, Get(k)
  PROVE  /\ UNCHANGED <<born, home>>
         /\ \/ pooled' = pooled
            \/ \E h \in Handle : /\ pooled' = pooled \cup {h} /\ h.conn \in born
                                 /\ home[h.conn] = k /\ \A g \in pooled : g.conn # h.conn
<1> DEFINE q == idle_conns[k]
<1>1. UNCHANGED <<born, home>>
  BY DEF Get
<1>2. CASE GetMiss(k)
  BY <1>1, <1>2 DEF GetMiss
<1>3. CASE GetHit(k)
  <2>1. PICK n \in DOMAIN q, open \in BOOLEAN :
          pooled' = pooled \cup {[conn |-> q[n].conn, key |-> k,
                                  is_reused |-> TRUE, open |-> open]}
    BY <1>3 DEF GetHit
  <2> DEFINE h == [conn |-> q[n].conn, key |-> k, is_reused |-> TRUE, open |-> open]
  <2>2. q[n].conn \in born /\ home[q[n].conn] = k /\ \A g \in pooled : g.conn # q[n].conn
    BY InvFacts DEF HeldOnce, NowhereIn
  <2>3. h \in Handle /\ h.conn = q[n].conn
    BY <2>2 DEF Handle, Inv, TypeOK
  <2> HIDE DEF h
  <2>4. pooled' = pooled \cup {h}
    BY <2>1 DEF h
  <2> QED
    BY <1>1, <2>2, <2>3, <2>4
<1> QED
  BY <1>2, <1>3 DEF Get

\* link makes a handle for a connection that is new.
LEMMA LinkEffect ==
  ASSUME Inv, NEW k \in Keys, NEW c \in Conns, Link(k, c)
  PROVE  /\ c \notin born /\ born' = born \cup {c}
         /\ home'[c] = k /\ \A d \in born : home'[d] = home[d]
         /\ LeasedConns' = LeasedConns \cup {c} /\ c \notin LeasedConns
<1> DEFINE h == [conn |-> c, key |-> k, is_reused |-> FALSE, open |-> TRUE]
<1>1. /\ c \notin born /\ born' = born \cup {c} /\ home' = [home EXCEPT ![c] = k]
      /\ pooled' = pooled \cup {h}
  BY DEF Link, Born
<1>2. home'[c] = k /\ \A d \in born : home'[d] = home[d]
  BY <1>1 DEF Inv, TypeOK
<1>3. h.conn = c
  OBVIOUS
<1> HIDE DEF h
<1>4. LeasedConns' = LeasedConns \cup {c}
  BY <1>1, <1>3 DEF LeasedConns
<1>5. c \notin LeasedConns
  BY <1>1 DEF Inv, ExclusiveOwnership
<1> QED
  BY <1>1, <1>2, <1>4, <1>5

\* The drop of a handle gives up its connection, and no other.
LEMMA DropEffect ==
  ASSUME Inv, NEW h \in pooled, DropPooled(h)
  PROVE  UNCHANGED <<born, home>> /\ LeasedConns' = LeasedConns \ {h.conn}
<1>1. pooled' = pooled \ {h} /\ UNCHANGED <<born, home>>
  BY DEF DropPooled
<1>2. \A g \in pooled : g.conn = h.conn => g = h
  BY DEF Inv, ExclusiveOwnership
<1> QED
  BY <1>1, <1>2 DEF LeasedConns

\* set_reuse changes who holds what for nobody.
LEMMA SetOpenEffect ==
  ASSUME Inv, NEW h \in pooled, NEW b, SetOpen(h, b)
  PROVE  UNCHANGED <<born, home>> /\ LeasedConns' = LeasedConns
<1> DEFINE g == [h EXCEPT !.open = b]
<1>1. pooled' = (pooled \ {h}) \cup {g} /\ UNCHANGED <<born, home>>
  BY DEF SetOpen
<1>2. g.conn = h.conn
  BY DEF Inv, TypeOK, Handle
<1> HIDE DEF g
<1> QED
  BY <1>1, <1>2 DEF LeasedConns
-----------------------------------------------------------------------------
(* The steps of the connectors. *)

\* Task t moves to s; what the others have is as before.
OnlyTask(t, s) ==
  /\ pc' = [pc EXCEPT ![t] = s]
  /\ \A u \in Tasks \ {t} : asked'[u] = asked[u] /\ conn'[u] = conn[u]

\* A step of one task: the parts of the invariant it must show.
LEMMA StackTaskStep ==
  ASSUME StackInv, StackTypeOK', UNCHANGED stack, NEW t \in Tasks,
         NEW s \in {"out", "dialling", "securing", "held"}, OnlyTask(t, s),
         s # "out" => asked'[t] \in Uris /\ Addr(asked'[t]) # None,
         s = "held" => conn'[t] \in Conns /\ stream'[conn'[t]] = Stream(Addr(asked'[t])),
         \A c \in Conns : stream[c] # None => stream'[c] = stream[c],
         PooledStream', HandlesMatchTasks'
  PROVE  StackInv'
<1>1. \A u \in Tasks : /\ pc'[u] = IF u = t THEN s ELSE pc[u]
                       /\ u # t => asked'[u] = asked[u] /\ conn'[u] = conn[u]
  BY DEF OnlyTask, StackInv, StackTypeOK
<1>2. AskedAddress'
  <2>1. ASSUME NEW u \in Tasks, pc'[u] # "out" PROVE asked'[u] \in Uris /\ Addr(asked[u])' # None
    <3>1. CASE u = t
      BY <1>1, <2>1, <3>1 DEF Addr
    <3>2. CASE u # t
      BY <1>1, <2>1, <3>2 DEF StackInv, AskedAddress, Addr
    <3> QED
      BY <3>1, <3>2
  <2> QED
    BY <2>1 DEF AskedAddress
<1>3. HeldStream'
  <2>1. ASSUME NEW u \in Tasks, pc'[u] = "held"
        PROVE  conn'[u] \in Conns /\ stream'[conn'[u]] = Stream(Addr(asked[u]))'
    <3>1. CASE u = t
      BY <1>1, <2>1, <3>1 DEF Addr, Stream
    <3>2. CASE u # t
      <4>1. /\ pc[u] = "held" /\ conn[u] \in Conns /\ asked[u] \in Uris /\ Addr(asked[u]) # None
            /\ stream[conn[u]] = Stream(Addr(asked[u]))
        BY <1>1, <2>1, <3>2 DEF StackInv, HeldStream, AskedAddress
      <4>2. stream[conn[u]] # None
        BY <4>1, AddressFacts
      <4> QED
        BY <1>1, <3>2, <4>1, <4>2 DEF Addr, Stream
    <3> QED
      BY <3>1, <3>2
  <2> QED
    BY <2>1 DEF HeldStream
<1> QED
  BY <1>2, <1>3 DEF StackInv

\* HandlesMatchTasks, task by task.
LEMMA HandlesByTask ==
  HandlesMatchTasks
  <=> (stack = "pooled" =>
         /\ \A t \in Tasks : pc[t] = "held" => conn[t] \in LeasedConns
         /\ \A c \in LeasedConns : \E t \in Tasks : pc[t] = "held" /\ conn[t] = c
         /\ \A r, t \in Tasks : pc[r] = "held" /\ pc[t] = "held" /\ conn[r] = conn[t] => r = t)
<1> DEFINE Held == {conn[t] : t \in {r \in Tasks : pc[r] = "held"}}
<1>1. Held = LeasedConns
      <=> /\ \A t \in Tasks : pc[t] = "held" => conn[t] \in LeasedConns
          /\ \A c \in LeasedConns : \E t \in Tasks : pc[t] = "held" /\ conn[t] = c
  OBVIOUS
<1> QED
  BY <1>1 DEF HandlesMatchTasks

\* A task that comes to hold a connection, or gives one up, together with its handle.
LEMMA HandlesAfter ==
  ASSUME StackInv, UNCHANGED stack, NEW t \in Tasks,
         NEW s \in {"out", "dialling", "securing", "held"}, OnlyTask(t, s),
         stack = "pooled" =>
           \/ /\ pc[t] # "held" /\ s # "held" /\ LeasedConns' = LeasedConns
           \/ /\ pc[t] # "held" /\ s = "held" /\ conn'[t] \notin LeasedConns
              /\ LeasedConns' = LeasedConns \cup {conn'[t]}
           \/ /\ pc[t] = "held" /\ s # "held" /\ LeasedConns' = LeasedConns \ {conn[t]}
  PROVE  HandlesMatchTasks'
<1>1. \A u \in Tasks : /\ pc'[u] = IF u = t THEN s ELSE pc[u]
                       /\ u # t => conn'[u] = conn[u]
  BY DEF OnlyTask, StackInv, StackTypeOK
<1>2. CASE stack # "pooled"
  BY <1>2 DEF HandlesMatchTasks
<1>3. CASE stack = "pooled"
  <2>1. /\ \A r \in Tasks : pc[r] = "held" => conn[r] \in LeasedConns
        /\ \A c \in LeasedConns : \E r \in Tasks : pc[r] = "held" /\ conn[r] = c
        /\ \A q, r \in Tasks : pc[q] = "held" /\ pc[r] = "held" /\ conn[q] = conn[r] => q = r
    BY <1>3, HandlesByTask DEF StackInv
  <2>2. /\ \A r \in Tasks : pc'[r] = "held" => conn'[r] \in LeasedConns'
        /\ \A c \in LeasedConns' : \E r \in Tasks : pc'[r] = "held" /\ conn'[r] = c
        /\ \A q, r \in Tasks : pc'[q] = "held" /\ pc'[r] = "held" /\ conn'[q] = conn'[r] => q = r
    BY <1>1, <1>3, <2>1
  <2>3. {conn'[r] : r \in {q \in Tasks : pc'[q] = "held"}} = LeasedConns'
    BY <2>2
  <2> QED
    BY <2>2, <2>3 DEF HandlesMatchTasks
<1> QED
  BY <1>2, <1>3

\* connect: the pool's answer, or the beginning of a dial.
LEMMA StackConnectStep ==
  ASSUME Inv, StackInv, NEW t \in Tasks, NEW u \in Uris, Connect(t, u)
  PROVE  StackInv' /\ [Next]_vars
<1>1. /\ pc[t] = "out" /\ Addr(u) # None /\ asked' = [asked EXCEPT ![t] = u]
      /\ UNCHANGED <<stack, stream>>
  BY DEF Connect
<1>2. asked' \in [Tasks -> Uris \cup {None}] /\ asked'[t] = u
      /\ \A v \in Tasks \ {t} : asked'[v] = asked[v]
  BY <1>1 DEF StackInv, StackTypeOK
<1>3. CASE ConnectUnified(t)
  <2>1. stack # "pooled" /\ pc' = [pc EXCEPT ![t] = "dialling"] /\ UNCHANGED <<conn, vars>>
    BY <1>3 DEF ConnectUnified
  <2>2. OnlyTask(t, "dialling") /\ StackTypeOK'
    BY <1>1, <1>2, <2>1 DEF OnlyTask, StackInv, StackTypeOK
  <2>3. PooledStream' /\ HandlesMatchTasks'
    BY <1>1, <2>1 DEF PooledStream, HandlesMatchTasks
  <2> QED
    BY <1>1, <1>2, <2>1, <2>2, <2>3, StackTaskStep
<1>4. CASE ConnectPooled(t, u)
  <2>1. stack = "pooled" /\ Get(TcpTlsAddr(u))
    BY <1>4 DEF ConnectPooled
  <2>2. PICK k \in Keys : k = Addr(u) /\ k = TcpTlsAddr(u)
    BY <1>1, <2>1, AddressFacts
  <2>3. Get(k)
    BY <2>1, <2>2
  <2>4. UNCHANGED <<born, home>>
    BY <2>3, GetEffect
  <2>5. PooledStream'
    BY <1>1, <2>4 DEF StackInv, PooledStream
  <2>6. CASE pooled' = pooled
    <3>1. pc' = [pc EXCEPT ![t] = "dialling"] /\ UNCHANGED conn
      BY <1>4, <2>6 DEF ConnectPooled
    <3>2. OnlyTask(t, "dialling") /\ StackTypeOK'
      BY <1>1, <1>2, <3>1 DEF OnlyTask, StackInv, StackTypeOK
    <3>3. HandlesMatchTasks'
      BY <1>1, <2>6, <3>2, HandlesAfter DEF LeasedConns
    <3> QED
      BY <1>1, <1>2, <2>3, <2>5, <3>2, <3>3, StackTaskStep DEF Next
  <2>7. CASE pooled' # pooled
    <3>1. PICK h \in Handle : /\ pooled' = pooled \cup {h} /\ h.conn \in born
                              /\ home[h.conn] = k /\ \A g \in pooled : g.conn # h.conn
      BY <2>3, <2>7, GetEffect
    <3>2. pc' = [pc EXCEPT ![t] = "held"] /\ conn' = [conn EXCEPT ![t] = h.conn]
      BY <1>4, <2>7, <3>1 DEF ConnectPooled
    <3>3. h.conn \in Conns
      BY DEF Handle
    <3>4. OnlyTask(t, "held") /\ StackTypeOK' /\ conn'[t] = h.conn
      BY <1>1, <1>2, <3>2, <3>3 DEF OnlyTask, StackInv, StackTypeOK
    <3>5. LeasedConns' = LeasedConns \cup {h.conn} /\ h.conn \notin LeasedConns
      BY <3>1 DEF LeasedConns
    <3>6. HandlesMatchTasks'
      BY <1>1, <3>4, <3>5, HandlesAfter
    <3>7. stream'[conn'[t]] = Stream(Addr(asked'[t]))
      <4>1. stream[h.conn] = Stream(home[h.conn])
        BY <2>1, <3>1 DEF StackInv, PooledStream
      <4>2. stream'[conn'[t]] = stream[h.conn]
        BY <1>1, <3>4
      <4> QED
        BY <1>2, <2>2, <3>1, <4>1, <4>2
    <3> QED
      BY <1>1, <1>2, <2>3, <2>5, <3>3, <3>4, <3>6, <3>7, StackTaskStep DEF Next
  <2> QED
    BY <2>6, <2>7
<1> QED
  BY <1>3, <1>4 DEF Connect

\* The stream is there: the pooled stack links it under the key it was asked for.
LEMMA EstablishedStep ==
  ASSUME Inv, StackInv, NEW t \in Tasks, NEW c \in Conns, Established(t, c)
  PROVE  StackInv' /\ [Next]_vars
<1>1. PICK u \in Uris : u = asked[t] /\ Addr(u) # None
  BY DEF Established, Awaiting, StackInv, AskedAddress
<1>2. /\ pc[t] \in Awaiting /\ stream[c] = None
      /\ stream' = [stream EXCEPT ![c] = Stream(Addr(u))]
      /\ conn' = [conn EXCEPT ![t] = c] /\ pc' = [pc EXCEPT ![t] = "held"]
      /\ IF stack = "pooled" THEN Link(Addr(u), c) ELSE UNCHANGED vars
      /\ UNCHANGED <<stack, asked>>
  BY <1>1 DEF Established
<1>3. Stream(Addr(u)) \in Streams /\ (stack = "pooled" => Addr(u) \in Keys)
  BY <1>1, AddressFacts
<1>4. pc[t] # "held" /\ pc[t] # "out"
  BY <1>2 DEF Awaiting
<1>5. OnlyTask(t, "held") /\ StackTypeOK' /\ conn'[t] = c
      /\ \A d \in Conns : stream'[d] = IF d = c THEN Stream(Addr(u)) ELSE stream[d]
  BY <1>2, <1>3 DEF OnlyTask, StackInv, StackTypeOK
<1>6. asked'[t] = u
  BY <1>1, <1>2
<1>7. CASE stack # "pooled"
  <2>1. UNCHANGED vars
    BY <1>2, <1>7
  <2>2. PooledStream' /\ HandlesMatchTasks'
    BY <1>2, <1>7 DEF PooledStream, HandlesMatchTasks
  <2> QED
    BY <1>1, <1>2, <1>5, <1>6, <2>1, <2>2, StackTaskStep
<1>8. CASE stack = "pooled"
  <2>1. PICK k \in Keys : k = Addr(u)
    BY <1>3, <1>8
  <2>2. Link(k, c)
    BY <1>2, <1>8, <2>1
  <2>3. /\ c \notin born /\ born' = born \cup {c}
        /\ home'[c] = k /\ \A d \in born : home'[d] = home[d]
        /\ LeasedConns' = LeasedConns \cup {c} /\ c \notin LeasedConns
    BY <2>2, LinkEffect
  <2>4. HandlesMatchTasks'
    BY <1>2, <1>4, <1>5, <2>3, HandlesAfter
  <2>5. PooledStream'
    <3>1. \A d \in born : d \in Conns /\ home[d] \in Keys /\ stream[d] = Stream(home[d])
      BY <1>8 DEF StackInv, PooledStream, Inv, TypeOK
    <3>2. \A d \in born' : home'[d] \in Keys /\ stream'[d] = Stream(home'[d])
      BY <1>5, <2>1, <2>3, <3>1
    <3> QED
      BY <3>2 DEF PooledStream, Stream
  <2> QED
    BY <1>1, <1>2, <1>5, <1>6, <2>2, <2>4, <2>5, StackTaskStep DEF Next
<1> QED
  BY <1>7, <1>8

\* TLS begins, or connect fails or is dropped: nothing else changes.
LEMMA StackWaitStep ==
  ASSUME Inv, StackInv, NEW t \in Tasks, Dialled(t) \/ Failed(t)
  PROVE  StackInv' /\ [Next]_vars
<1>1. PICK s \in {"out", "securing"} :
        /\ pc[t] \in Awaiting /\ pc' = [pc EXCEPT ![t] = s]
        /\ UNCHANGED <<vars, stack, conn, stream>>
        /\ \/ s = "out" /\ asked' = [asked EXCEPT ![t] = None]
           \/ s = "securing" /\ asked' = asked
  BY DEF Dialled, Failed, Awaiting
<1>2. pc[t] # "held" /\ pc[t] # "out" /\ UNCHANGED <<born, home, pooled>>
  BY <1>1 DEF Awaiting, vars
<1>3. OnlyTask(t, s) /\ StackTypeOK'
  BY <1>1 DEF OnlyTask, StackInv, StackTypeOK
<1>4. PooledStream'
  BY <1>1, <1>2 DEF StackInv, PooledStream
<1>5. HandlesMatchTasks'
  BY <1>1, <1>2, <1>3, HandlesAfter DEF LeasedConns
<1>6. s # "out" => asked'[t] \in Uris /\ Addr(asked'[t]) # None
  BY <1>1, <1>2 DEF StackInv, AskedAddress
<1> QED
  BY <1>1, <1>3, <1>4, <1>5, <1>6, StackTaskStep

\* The task drops what it holds.
LEMMA StackDropStep ==
  ASSUME Inv, StackInv, NEW t \in Tasks, Drop(t)
  PROVE  StackInv' /\ [Next]_vars
<1>1. /\ pc[t] = "held" /\ pc' = [pc EXCEPT ![t] = "out"]
      /\ conn' = [conn EXCEPT ![t] = None] /\ asked' = [asked EXCEPT ![t] = None]
      /\ UNCHANGED <<stack, stream>>
  BY DEF Drop
<1>2. OnlyTask(t, "out") /\ StackTypeOK'
  BY <1>1 DEF OnlyTask, StackInv, StackTypeOK
<1>3. CASE stack # "pooled"
  <2>1. UNCHANGED vars
    BY <1>3 DEF Drop
  <2>2. PooledStream' /\ HandlesMatchTasks'
    BY <1>1, <1>3 DEF PooledStream, HandlesMatchTasks
  <2> QED
    BY <1>1, <1>2, <2>1, <2>2, StackTaskStep
<1>4. CASE stack = "pooled"
  <2>1. PICK h \in pooled : h.conn = conn[t] /\ DropPooled(h)
    BY <1>4 DEF Drop
  <2>2. UNCHANGED <<born, home>> /\ LeasedConns' = LeasedConns \ {conn[t]}
    BY <2>1, DropEffect
  <2>3. PooledStream'
    BY <1>1, <2>2 DEF StackInv, PooledStream
  <2>4. HandlesMatchTasks'
    BY <1>1, <1>2, <2>2, HandlesAfter
  <2> QED
    BY <1>1, <1>2, <2>1, <2>3, <2>4, StackTaskStep DEF Next
<1> QED
  BY <1>3, <1>4

\* The pool changes under the tasks: a flag, its clones, its idle task, the time.
LEMMA StackPoolStep ==
  ASSUME Inv, StackInv, UNCHANGED stackVars, UNCHANGED <<born, home>>, UNCHANGED LeasedConns
  PROVE  StackInv'
<1>1. UNCHANGED <<stack, pc, asked, conn, stream>>
  BY DEF stackVars
<1>2. StackTypeOK' /\ AskedAddress' /\ HeldStream' /\ PooledStream'
  BY <1>1 DEF StackInv, StackTypeOK, AskedAddress, HeldStream, PooledStream, Addr, Stream
<1>3. HandlesMatchTasks'
  BY <1>1 DEF StackInv, HandlesMatchTasks
<1> QED
  BY <1>2, <1>3 DEF StackInv

\* The caller decides about reuse.
LEMMA SetReuseStep ==
  ASSUME Inv, StackInv, NEW t \in Tasks, NEW b \in BOOLEAN, SetReuse(t, b)
  PROVE  StackInv' /\ [Next]_vars
<1>1. PICK h \in pooled : SetOpen(h, b)
  BY DEF SetReuse
<1>2. UNCHANGED <<born, home>> /\ LeasedConns' = LeasedConns
  BY <1>1, SetOpenEffect
<1> QED
  BY <1>1, <1>2, StackPoolStep DEF SetReuse, Next

\* Clones and drops of the connector, the idle task and time.
LEMMA BackgroundStep ==
  ASSUME Inv, StackInv, CloneConnector \/ DropConnector \/ Background
  PROVE  StackInv' /\ [Next]_vars
<1>1. /\ UNCHANGED stackVars
      /\ ClonePool \/ DropPool \/ IdleTick \/ IdleExit \/ Elapse
  BY DEF CloneConnector, DropConnector, Background
<1>2. UNCHANGED <<pooled, born, home>>
  BY <1>1 DEF ClonePool, DropPool, IdleTick, IdleExit, Elapse
<1>3. LeasedConns' = LeasedConns
  BY <1>2 DEF LeasedConns
<1> QED
  BY <1>1, <1>2, <1>3, StackPoolStep DEF Next
-----------------------------------------------------------------------------
\* Init satisfies the invariant.
LEMMA StackInitInv == StackInit => Inv /\ StackInv
<1> SUFFICES ASSUME StackInit PROVE Inv /\ StackInv
  OBVIOUS
<1>1. Init /\ Inv
  BY InitInv DEF StackInit
<1>2. StackTypeOK /\ \A t \in Tasks : pc[t] = "out"
  BY DEF StackInit, StackTypeOK
<1>3. pooled = {} /\ born = {}
  BY <1>1 DEF Init
<1>4. AskedAddress /\ HeldStream /\ PooledStream
  BY <1>2, <1>3 DEF AskedAddress, HeldStream, PooledStream
<1>5. HandlesMatchTasks
  BY <1>2, <1>3 DEF HandlesMatchTasks, LeasedConns
<1> QED
  BY <1>1, <1>2, <1>4, <1>5 DEF StackInv

\* A step of the connectors keeps the invariant and is a step of the pool, or none.
LEMMA StackNextInv ==
  ASSUME Inv, StackInv, [StackNext]_allVars
  PROVE  StackInv' /\ Inv' /\ [Next]_vars
<1>1. StackInv' /\ [Next]_vars
  <2>1. CASE UNCHANGED allVars
    <3>1. UNCHANGED stackVars /\ UNCHANGED vars /\ UNCHANGED <<born, home, pooled>>
      BY <2>1 DEF allVars, vars
    <3> QED
      BY <3>1, StackPoolStep DEF LeasedConns
  <2>2. CASE StackNext
    BY <2>2, StackConnectStep, EstablishedStep, StackWaitStep, StackDropStep, SetReuseStep,
       BackgroundStep DEF StackNext
  <2> QED
    BY <2>1, <2>2
<1> QED
  BY <1>1, NextInv

\* The invariant of the connectors and that of the pool hold together.
THEOREM StackInvariance == StackSpec => [](Inv /\ StackInv)
<1>1. Inv /\ StackInv /\ [StackNext]_allVars => (Inv /\ StackInv)'
  BY StackNextInv
<1> QED
  BY <1>1, StackInitInv, PTL DEF StackSpec

\* The pool under the connectors is never fuller than it may be.
THEOREM StackCapacity == StackSpec => []CapacityBound
<1>1. Inv => CapacityBound
  BY DEF Inv
<1> QED
  BY <1>1, StackInvariance, PTL

\* No handle of the pool is lost between get, the dial and link, and none is with two tasks.
THEOREM HandlesKept == StackSpec => []HandlesMatchTasks
<1>1. StackInv => HandlesMatchTasks
  BY DEF StackInv
<1> QED
  BY <1>1, StackInvariance, PTL

\* Every task holds a stream to the host and port of its URI, encrypted exactly if the scheme
\* is https, however the conversions, the key and the pool have carried it.
THEOREM Served == StackSpec => []ServedAsAsked
<1>1. ASSUME StackInv PROVE ServedAsAsked
  <2>1. SUFFICES ASSUME NEW t \in Tasks, pc[t] = "held"
                 PROVE  LET u == asked[t]  s == stream[conn[t]] IN
                        /\ s.host = u.host
                        /\ s.sn = IF u.scheme = "https" THEN u.host ELSE None
                        /\ \/ s.port = u.port
                           \/ u.port = None
                              /\ s.port = [http |-> 80, https |-> 443, other |-> 0][u.scheme]
    BY DEF ServedAsAsked
  <2>2. PICK u \in Uris : u = asked[t] /\ Addr(u) # None
    BY <1>1, <2>1 DEF StackInv, AskedAddress
  <2>3. stream[conn[t]] = Stream(Addr(u))
    BY <1>1, <2>1, <2>2 DEF StackInv, HeldStream
  <2>4. /\ Stream(Addr(u)).host = Addr(u).host /\ Stream(Addr(u)).port = Addr(u).port
        /\ Stream(Addr(u)).sn = Addr(u).sn
    BY DEF Stream
  <2>5. /\ Addr(u).sn = (IF tls(u) THEN u.host ELSE None)
        /\ Addr(u).host = u.host /\ Addr(u).port = port_u16(u)
    BY <2>2, AddressFacts
  <2>6. u.port # None => port_u16(u) = u.port
    BY DEF port_u16
  <2>7. u.port = None => port_u16(u) = [http |-> 80, https |-> 443, other |-> 0][u.scheme]
    BY StackAssumption DEF port_u16, default_port
  <2> QED
    BY <2>2, <2>3, <2>4, <2>5, <2>6, <2>7 DEF tls
<1> QED
  BY <1>1, StackInvariance, PTL
=============================================================================
