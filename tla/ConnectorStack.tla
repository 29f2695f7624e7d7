--------------------------- MODULE ConnectorStack ---------------------------
(***************************************************************************)
(* Stacked connectors, from a URI to the stream that serves it.            *)
(*                                                                         *)
(* "pooled": PooledConnector over ReuseConnector over TlsConnector over    *)
(* TcpConnector, keyed by TcpTlsAddr (src/pool/connector.rs,               *)
(* src/pool/reuse.rs, src/connectors), composed with the ConnectionPool it *)
(* owns.  "unified": UnifiedConnector with UnifiedAddr, which is not a     *)
(* key (it has no Hash), so that nothing is pooled.                        *)
(*                                                                         *)
(* A step is what connect does from one await to the next.  The addresses  *)
(* a host resolves to are not told apart: resolving fails or does not, as  *)
(* part of the conversion or of the dialling.                              *)
(***************************************************************************)
EXTENDS ConnectionPool

CONSTANTS
  Tasks,        \* tasks that connect
  Uris,         \* URIs: scheme, host and port, the last two possibly None
  ServerNames   \* hosts that make a valid TLS server name

VARIABLES
  stack,   \* the connector in use
  pc,      \* per task: "out", "dialling", "securing" or "held"
  asked,   \* per task, the URI it connects to or is connected to
  conn,    \* per task, the connection it holds
  stream   \* per connection, where it goes and the name its peer has proved (None: plain)

stackVars == <<stack, pc, asked, conn, stream>>
allVars == <<vars, stackVars>>
-----------------------------------------------------------------------------
(* Addresses; None is the FromUriError. *)

tls(u) == u.scheme = "https"

default_port(u) == CASE u.scheme = "http" -> 80 [] u.scheme = "https" -> 443 [] OTHER -> 0

port_u16(u) == IF u.port = None THEN default_port(u) ELSE u.port

\* TcpTlsAddr::try_from: only https, and only for names that TLS accepts.
TcpTlsAddr(u) ==
  IF u.host = None \/ ~tls(u) \/ u.host \notin ServerNames THEN None
  ELSE [host |-> u.host, port |-> port_u16(u), sn |-> u.host]

\* UnifiedAddr::try_from of a host that resolves: a server name for https, none otherwise.
UnifiedAddr(u) ==
  IF u.host = None \/ (tls(u) /\ u.host \notin ServerNames) THEN None
  ELSE [host |-> u.host, port |-> port_u16(u), sn |-> IF tls(u) THEN u.host ELSE None]

Addr(u) == IF stack = "pooled" THEN TcpTlsAddr(u) ELSE UnifiedAddr(u)

\* What a stream may be: the host and port it goes to, and the name its peer has proved.
Streams ==
  {[host |-> u.host, port |-> port_u16(u), sn |-> n] : u \in Uris, n \in ServerNames \cup {None}}

ASSUME StackAssumption ==
  /\ Keys = {TcpTlsAddr(u) : u \in Uris} \ {None}
  /\ \A u \in Uris : u.scheme \in {"http", "https", "other"}
  /\ None \notin Conns \cup Uris \cup Streams
-----------------------------------------------------------------------------
StackInit ==
  /\ Init
  /\ stack \in {"pooled", "unified"}
  /\ pc = [t \in Tasks |-> "out"]
  /\ asked = [t \in Tasks |-> None]
  /\ conn = [t \in Tasks |-> None]
  /\ stream = [c \in Conns |-> None]

Awaiting == {"dialling", "securing"}

\* PooledConnector::connect: what the pool has, or the dialling of the transport.
ConnectPooled(t, u) ==
  /\ stack = "pooled"
  /\ Get(TcpTlsAddr(u))
  /\ IF pooled' = pooled
     THEN pc' = [pc EXCEPT ![t] = "dialling"] /\ UNCHANGED conn
     ELSE /\ pc' = [pc EXCEPT ![t] = "held"]
          /\ \E h \in pooled' \ pooled : conn' = [conn EXCEPT ![t] = h.conn]

ConnectUnified(t) ==
  /\ stack = "unified"
  /\ pc' = [pc EXCEPT ![t] = "dialling"]
  /\ UNCHANGED <<conn, vars>>

Connect(t, u) ==
  /\ pc[t] = "out"
  /\ Addr(u) # None
  /\ asked' = [asked EXCEPT ![t] = u]
  /\ ConnectPooled(t, u) \/ ConnectUnified(t)
  /\ UNCHANGED <<stack, stream>>

\* Fault: the connection is linked as soon as the socket is there.
DialledLinking(t) ==
  /\ pc[t] = "dialling"
  /\ Addr(asked[t]).sn # None
  /\ pc' = [pc EXCEPT ![t] = "securing"]
  /\ IF stack = "pooled"
     THEN \E c \in Conns : Link(Addr(asked[t]), c) /\ conn' = [conn EXCEPT ![t] = c]
     ELSE UNCHANGED <<vars, conn>>
  /\ UNCHANGED <<stack, asked, stream>>

\* The socket is connected; an address with a server name goes on to TLS.
Dialled(t) ==
  /\ pc[t] = "dialling"
  /\ Addr(asked[t]).sn # None
  /\ pc' = [pc EXCEPT ![t] = "securing"]
  /\ UNCHANGED <<vars, stack, asked, conn, stream>>

\* The stream to an address.
Stream(a) == [host |-> a.host, port |-> a.port, sn |-> a.sn]

\* Fault: the stream is given out before TLS is on.
EstablishedEarly(t, c) ==
  /\ pc[t] = "dialling"
  /\ stream[c] = None
  /\ stream' = [stream EXCEPT ![c] = [Stream(Addr(asked[t])) EXCEPT !.sn = None]]
  /\ conn' = [conn EXCEPT ![t] = c]
  /\ pc' = [pc EXCEPT ![t] = "held"]
  /\ IF stack = "pooled" THEN Link(Addr(asked[t]), c) ELSE UNCHANGED vars
  /\ UNCHANGED <<stack, asked>>

\* The stream is there.  The pooled stack wraps it in a Reuse, which is open, and links it
\* under the key it was asked for; TlsConnector has checked the name against the peer.
Established(t, c) ==
  LET a == Addr(asked[t]) IN
  /\ pc[t] \in Awaiting
  /\ pc[t] = IF a.sn = None THEN "dialling" ELSE "securing"
  /\ stream[c] = None
  /\ stream' = [stream EXCEPT ![c] = Stream(a)]
  /\ conn' = [conn EXCEPT ![t] = c]
  /\ pc' = [pc EXCEPT ![t] = "held"]
  /\ IF stack = "pooled" THEN Link(a, c) ELSE UNCHANGED vars
  /\ UNCHANGED <<stack, asked>>

\* Resolving, dialling or TLS fails (a mapper, ConnectorMap, only changes the error), or
\* the future of connect is dropped: the socket goes, and nothing else has changed.
Failed(t) ==
  /\ pc[t] \in Awaiting
  /\ pc' = [pc EXCEPT ![t] = "out"]
  /\ asked' = [asked EXCEPT ![t] = None]
  /\ UNCHANGED <<vars, stack, conn, stream>>

Drop(t) ==
  /\ pc[t] = "held"
  /\ IF stack = "pooled" THEN \E h \in pooled : h.conn = conn[t] /\ DropPooled(h)
     ELSE UNCHANGED vars
  /\ pc' = [pc EXCEPT ![t] = "out"]
  /\ conn' = [conn EXCEPT ![t] = None]
  /\ asked' = [asked EXCEPT ![t] = None]
  /\ UNCHANGED <<stack, stream>>

\* Reuse::set_reuse through the handle.
SetReuse(t, b) ==
  /\ pc[t] = "held"
  /\ \E h \in pooled : h.conn = conn[t] /\ SetOpen(h, b)
  /\ UNCHANGED stackVars

\* A connect in flight borrows the connector, and with it a clone of the pool.
DropConnector ==
  /\ stack = "pooled"
  /\ pools = 1 => \A t \in Tasks : pc[t] \notin Awaiting
  /\ DropPool
  /\ UNCHANGED stackVars

CloneConnector == stack = "pooled" /\ ClonePool /\ UNCHANGED stackVars

Background == (IdleTick \/ IdleExit \/ Elapse) /\ UNCHANGED stackVars
-----------------------------------------------------------------------------
StackNext ==
  \/ \E t \in Tasks :
       \/ \E u \in Uris : Connect(t, u)
       \/ Dialled(t) \/ Failed(t) \/ Drop(t)
       \/ \E c \in Conns : Established(t, c)
       \/ \E b \in BOOLEAN : SetReuse(t, b)
  \/ CloneConnector
  \/ DropConnector
  \/ Background

StackSpec == StackInit /\ [][StackNext]_allVars

StackLiveSpec == StackSpec /\ Fairness
-----------------------------------------------------------------------------
\* A task holds a connection to the host and port of the URI it asked for, whose peer has
\* proved that host if the URI is https, and a plain one otherwise: whoever made the
\* connection, for whichever URI, and however often it was pooled since.
ServedAsAsked ==
  \A t \in Tasks : pc[t] = "held" =>
    LET u == asked[t]  s == stream[conn[t]] IN
    /\ s.host = u.host
    /\ s.sn = IF u.scheme = "https" THEN u.host ELSE None
    /\ \/ s.port = u.port
       \/ u.port = None /\ s.port = [http |-> 80, https |-> 443, other |-> 0][u.scheme]

\* Every handle of the pool is with exactly one task, and no task has a connection without
\* one: over the await between get and link, failures and cancellations, none is lost.
HandlesMatchTasks ==
  stack = "pooled" =>
    /\ {conn[t] : t \in {s \in Tasks : pc[s] = "held"}} = LeasedConns
    /\ \A s, t \in Tasks : pc[s] = "held" /\ pc[t] = "held" /\ conn[s] = conn[t] => s = t
=============================================================================
