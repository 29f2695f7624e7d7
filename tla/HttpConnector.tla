--------------------------- MODULE HttpConnector ---------------------------
(***************************************************************************)
(* HttpConnector::connect of src/http/connector.rs, called by many tasks   *)
(* at once: the two pools it looks into, the per-key semaphore that makes  *)
(* the tasks share one HTTP/2 connection, and the cancellation of a        *)
(* connect by connect_with_timeout (src/connectors/mod.rs).                *)
(*                                                                         *)
(* A task runs alone between two awaits, so a step is what connect does    *)
(* from one await to the next.  Both pools are built without an idle task  *)
(* and with the default capacity, and live as long as the connector.       *)
(***************************************************************************)
EXTENDS KeyLock

CONSTANTS
  Conns,    \* connection identities: each is dialled at most once
  Builders  \* ways to build a connector: fields of Configs

VARIABLES
  builder,  \* how this connector was built, which never changes
  conn,     \* per task, the transport it dialled or the connection it holds
  kind,     \* per connection: not dialled (None), "transport", "h1" or "h2"
  broken,   \* connections that know they are not open any more
  h1_pool,  \* per key, the idle HTTP/1.1 connections
  h2_pool   \* per key, the shared HTTP/2 connections

vars == <<lockVars, builder, conn, kind, broken, h1_pool, h2_pool>>

\* What TlsConnector::default advertises.
DefaultAlpn == {"h2", "http/1.1"}

\* Protocol, and the protocols the TLS connector offers, of each way to build the connector.
Configs == [
  tcp_default        |-> [protocol |-> "Auto",   alpn |-> {}],
  tcp_http1_only     |-> [protocol |-> "HTTP11", alpn |-> {}],
  tcp_http2_only     |-> [protocol |-> "HTTP2",  alpn |-> {}],
  tls_default        |-> [protocol |-> "Auto",   alpn |-> DefaultAlpn],
  tls_http1_only     |-> [protocol |-> "Auto",   alpn |-> {"http/1.1"}],
  tls_http2_only     |-> [protocol |-> "Auto",   alpn |-> {"h2"}],
  tls_set_http1_only |-> [protocol |-> "HTTP11", alpn |-> DefaultAlpn]]

ASSUME ConnectorAssumption ==
  /\ Builders \subseteq DOMAIN Configs
  /\ None \notin Keys \cup Conns \cup {"transport", "h1", "h2"}
  /\ MaxIdleArg = None

is_config_h2 == Configs[builder].protocol = "HTTP2"
is_config_h1 == Configs[builder].protocol = "HTTP11"
is_config_auto == Configs[builder].protocol = "Auto"

\* What a dialled transport may have negotiated: one of the protocols offered, or none.
Negotiable == Configs[builder].alpn \cup {None}

\* TransportConnMeta::set_alpn and is_alpn_h2: only "h2" is told apart.
is_alpn_h2(alpn) == alpn = "h2"

Init ==
  /\ LockInit
  /\ builder \in Builders
  /\ conn = [t \in Tasks |-> None]
  /\ kind = [c \in Conns |-> None]
  /\ broken = {}
  /\ h1_pool = [k \in Keys |-> <<>>]
  /\ h2_pool = [k \in Keys |-> <<>>]
-----------------------------------------------------------------------------
(* try_get!. *)

\* Fault: connections that have failed stay in the pool.
UsableWithBroken(k) == h2_pool[k]

\* try_get!: the key's queue without the connections that have failed; its front is the
\* answer, and stays where it is.
Usable(k) == Retain(h2_pool[k], Conns \ broken)
-----------------------------------------------------------------------------
(* connect. *)

\* ... up to the dialling of the transport: a shared HTTP/2 connection, an idle HTTP/1.1
\* connection, or neither.
ConnectShared(t, k) ==
  /\ is_config_auto \/ is_config_h2
  /\ Usable(k) # <<>>
  /\ h2_pool' = [h2_pool EXCEPT ![k] = Usable(k)]
  /\ pc' = [pc EXCEPT ![t] = "h2"]
  /\ conn' = [conn EXCEPT ![t] = Head(Usable(k))]
  /\ UNCHANGED h1_pool

\* Fault: HTTP/1.1 connections are looked up the way try_get! looks up the shared ones.
ConnectIdleByTryGet(t, k) ==
  /\ is_config_auto \/ is_config_h1
  /\ h1_pool[k] # <<>>
  /\ pc' = [pc EXCEPT ![t] = "h1"]
  /\ conn' = [conn EXCEPT ![t] = Head(h1_pool[k])]
  /\ UNCHANGED h1_pool

ConnectIdle(t, k) ==
  /\ is_config_auto \/ is_config_h1
  /\ h1_pool[k] # <<>>
  /\ h1_pool' = [h1_pool EXCEPT ![k] = PopFront(@, 1)]
  /\ pc' = [pc EXCEPT ![t] = "h1"]
  /\ conn' = [conn EXCEPT ![t] = Head(h1_pool[k])]

Dial(t, k) ==
  /\ is_config_h2 \/ h1_pool[k] = <<>>
  /\ pc' = [pc EXCEPT ![t] = "dialling"]
  /\ UNCHANGED <<conn, h1_pool>>

Connect(t, k) ==
  /\ pc[t] = "out"
  /\ key' = [key EXCEPT ![t] = k]
  /\ \/ ConnectShared(t, k)
     \/ /\ IF is_config_h1 THEN UNCHANGED h2_pool
           ELSE Usable(k) = <<>> /\ h2_pool' = [h2_pool EXCEPT ![k] = Usable(k)]
        /\ ConnectIdle(t, k) \/ Dial(t, k)
  /\ UNCHANGED <<kind, broken, permits, waiters>>

\* The transport is there and speaks HTTP/1.1: h1_pool.link.
LinkH1(t, c) ==
  /\ kind' = [kind EXCEPT ![c] = "h1"]
  /\ conn' = [conn EXCEPT ![t] = c]
  /\ pc' = [pc EXCEPT ![t] = "h1"]
  /\ UNCHANGED <<h2_pool, permits, waiters>>

\* It speaks HTTP/2 and the lock is free: look again, and shake hands if there is still none.
\* A connection found lets the guard go at once, and the transport is dropped.
LockFree(t, c) ==
  LET k == key[t] IN
  /\ permits[k] > 0
  /\ kind' = [kind EXCEPT ![c] = "transport"]
  /\ h2_pool' = [h2_pool EXCEPT ![k] = Usable(k)]
  /\ IF Usable(k) # <<>>
     THEN /\ pc' = [pc EXCEPT ![t] = "h2"]
          /\ conn' = [conn EXCEPT ![t] = Head(Usable(k))]
          /\ UNCHANGED <<permits, waiters>>
     ELSE /\ Acquire(t, k, "handshaking")
          /\ conn' = [conn EXCEPT ![t] = c]

\* It speaks HTTP/2 and the lock is taken: queue up.
LockTaken(t, c) ==
  /\ Enqueue(t, key[t])
  /\ kind' = [kind EXCEPT ![c] = "transport"]
  /\ conn' = [conn EXCEPT ![t] = c]
  /\ UNCHANGED h2_pool

\* The inner connector's connect returns a transport, with the protocol negotiated on it.
Dialled(t, c, alpn) ==
  /\ pc[t] = "dialling"
  /\ kind[c] = None
  /\ IF is_config_h2 \/ is_alpn_h2(alpn)
     THEN LockFree(t, c) \/ LockTaken(t, c)
     ELSE LinkH1(t, c)
  /\ UNCHANGED <<key, broken, h1_pool>>

\* ... or an error, which connect returns.
DialFailed(t) ==
  /\ pc[t] = "dialling"
  /\ pc' = [pc EXCEPT ![t] = "out"]
  /\ key' = [key EXCEPT ![t] = None]
  /\ UNCHANGED <<conn, kind, broken, h1_pool, h2_pool, permits, waiters>>

\* Fault: the pool is not looked into again once the lock is held.
WakeWithoutLooking(t) ==
  /\ pc[t] = "granted"
  /\ pc' = [pc EXCEPT ![t] = "handshaking"]
  /\ UNCHANGED <<key, conn, kind, broken, h1_pool, h2_pool, permits, waiters>>

\* A waiter that was given the permit is polled: look again, then shake hands.
Wake(t) ==
  LET k == key[t] IN
  /\ pc[t] = "granted"
  /\ h2_pool' = [h2_pool EXCEPT ![k] = Usable(k)]
  /\ IF Usable(k) # <<>>
     THEN /\ Release(t, "h2")
          /\ conn' = [conn EXCEPT ![t] = Head(Usable(k))]
     ELSE /\ pc' = [pc EXCEPT ![t] = "handshaking"]
          /\ UNCHANGED <<conn, permits, waiters>>
  /\ UNCHANGED <<key, kind, broken, h1_pool>>

\* The handshake succeeds: the connection is put into the pool, a clone is returned and the
\* guard dropped.
HandshakeOk(t) ==
  /\ pc[t] = "handshaking"
  /\ kind' = [kind EXCEPT ![conn[t]] = "h2"]
  /\ h2_pool' = [h2_pool EXCEPT ![key[t]] = PutInsert(@, conn[t])]
  /\ Release(t, "h2")
  /\ UNCHANGED <<key, conn, broken, h1_pool>>

\* Fault: the guard is forgotten on the error path.
HandshakeFailedLocked(t) ==
  /\ pc[t] = "handshaking"
  /\ pc' = [pc EXCEPT ![t] = "out"]
  /\ UNCHANGED <<key, conn, kind, broken, h1_pool, h2_pool, permits, waiters>>

\* It fails: the transport and the guard are dropped with the error.
HandshakeFailed(t) ==
  /\ pc[t] = "handshaking"
  /\ Release(t, "out")
  /\ key' = [key EXCEPT ![t] = None]
  /\ conn' = [conn EXCEPT ![t] = None]
  /\ UNCHANGED <<kind, broken, h1_pool, h2_pool>>

\* Faults in the way a dropped future leaves the lock.
CancelKeepingPermit(t) == GiveUpKeepingPermit(t) /\ UNCHANGED <<conn, kind, broken, h1_pool, h2_pool>>
CancelAddingPermit(t) == GiveUpAddingPermit(t) /\ UNCHANGED <<conn, kind, broken, h1_pool, h2_pool>>

\* The future of connect is dropped at an await, as connect_with_timeout does when the time
\* is up; the transport it has dialled is dropped with it.
Cancel(t) ==
  /\ GiveUp(t)
  /\ conn' = [conn EXCEPT ![t] = None]
  /\ UNCHANGED <<kind, broken, h1_pool, h2_pool>>
-----------------------------------------------------------------------------
(* The connections handed out. *)

\* The task drops its HttpConnection: an open HTTP/1.1 connection goes back to its pool, an
\* HTTP/2 one is only a clone.
DropHttpConnection(t) ==
  /\ pc[t] \in {"h1", "h2"}
  /\ h1_pool' = IF pc[t] = "h1" /\ conn[t] \notin broken
                THEN [h1_pool EXCEPT ![key[t]] = DropInsert(@, conn[t])] ELSE h1_pool
  /\ pc' = [pc EXCEPT ![t] = "out"]
  /\ key' = [key EXCEPT ![t] = None]
  /\ conn' = [conn EXCEPT ![t] = None]
  /\ UNCHANGED <<kind, broken, h2_pool, permits, waiters>>

\* A request on an HTTP/1.1 connection fails and clears its `open`; an HTTP/2 connection has
\* its error recorded by the task that drives it, at any time.
Break(c) ==
  /\ c \notin broken
  /\ \/ kind[c] = "h2"
     \/ kind[c] = "h1" /\ \E t \in Tasks : pc[t] = "h1" /\ conn[t] = c
  /\ broken' = broken \cup {c}
  /\ UNCHANGED <<pc, key, conn, kind, h1_pool, h2_pool, permits, waiters>>
-----------------------------------------------------------------------------
Complete(t) ==
  /\ \/ \E c \in Conns, alpn \in Negotiable : Dialled(t, c, alpn)
     \/ DialFailed(t)
     \/ Wake(t)
     \/ HandshakeOk(t)
     \/ HandshakeFailed(t)
  /\ UNCHANGED builder

Next ==
  \/ \E t \in Tasks : Complete(t)
  \/ /\ \/ \E t \in Tasks :
             \/ \E k \in Keys : Connect(t, k)
             \/ Cancel(t)
             \/ DropHttpConnection(t)
        \/ \E c \in Conns : Break(c)
     /\ UNCHANGED builder

Spec == Init /\ [][Next]_vars

\* Every dialling and every handshake ends, well or not, and the runtime polls who is woken.
LiveSpec == Spec /\ \A t \in Tasks : WF_vars(Complete(t))
-----------------------------------------------------------------------------
TypeOK ==
  /\ LockTypeOK({"h1", "h2"})
  /\ builder \in Builders
  /\ conn \in [Tasks -> Conns \cup {None}]
  /\ kind \in [Conns -> {None, "transport", "h1", "h2"}]
  /\ broken \subseteq Conns
  /\ h1_pool \in [Keys -> Seq(Conns)]
  /\ h2_pool \in [Keys -> Seq(Conns)]

\* However many tasks connect at once, a key has one HTTP/2 connection that works: it is the
\* pool's only entry, and every task that holds a working one holds that one.
OneH2PerKey ==
  /\ \A k \in Keys : Len(h2_pool[k]) <= 1
  /\ \A t \in Tasks :
       pc[t] = "h2" /\ conn[t] \notin broken => h2_pool[key[t]] = <<conn[t]>>

\* An HTTP/1.1 connection is in one place: with one task, or at one position of the pool of
\* its key, where it is open; and it is never shared as an HTTP/2 connection.
H1InOnePlace ==
  LET Held == {t \in Tasks : pc[t] = "h1"} IN
  /\ \A s, t \in Held : conn[s] = conn[t] => s = t
  /\ \A j, k \in Keys : \A x \in DOMAIN h1_pool[j], y \in DOMAIN h1_pool[k] :
       h1_pool[j][x] = h1_pool[k][y] => j = k /\ x = y
  /\ \A k \in Keys : \A c \in Elements(h1_pool[k]) :
       kind[c] = "h1" /\ c \notin broken /\ \A t \in Held : conn[t] # c
  /\ \A k \in Keys : \A c \in Elements(h2_pool[k]) : kind[c] = "h2"

\* A connection that connect returns works at that moment, as far as it knows itself.
ReturnsWorking ==
  [][\A t \in Tasks : pc[t] \notin {"h1", "h2"} /\ pc'[t] \in {"h1", "h2"}
                        => conn'[t] \notin broken]_vars

-----------------------------------------------------------------------------
(* What the documentation says and the code does not do. *)

\* src/src/http/connector.rs:178: build_tls_http2_only "supports only HTTP/2".
Http2Only == \A t \in Tasks : pc[t] # "h1"
=============================================================================
