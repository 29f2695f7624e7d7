------------------------- MODULE HyperH1Connector -------------------------
(***************************************************************************)
(* HyperH1Connector::connect of src/http/hyper/mod.rs: exclusive           *)
(* connections that go back to the pool while the response to the last     *)
(* request may still be unread, and that the next user then waits for.     *)
(*                                                                         *)
(* A step is what connect does from one await to the next.  The transport  *)
(* comes through PollIo (src/connectors/pollio.rs).  One key is enough: a  *)
(* key's queue never meets another's.  The pool may have an idle task      *)
(* (new_with_pool).                                                        *)
(***************************************************************************)
EXTENDS PoolQueue

CONSTANTS
  Conns,  \* connection identities, each made at most once
  Tasks   \* tasks that connect, send requests and read responses

ASSUME HyperH1Assumption == None \notin Conns \cup Tasks

VARIABLES
  pc,      \* per task, where it is in connect, or that it holds a connection
  conn,    \* per task, the connection of its Pooled handle
  pool,    \* the idle connections
  born,    \* connections made so far
  closed,  \* connections whose driving task has ended
  reader   \* per connection, the task that has yet to read the last response

vars == <<pc, conn, pool, born, closed, reader>>

Awaiting == {"readying", "dialling", "handshaking"}

Init ==
  /\ pc = [t \in Tasks |-> "out"]
  /\ conn = [t \in Tasks |-> None]
  /\ pool = <<>>
  /\ born = {}
  /\ closed = {}
  /\ reader = [c \in Conns |-> None]
-----------------------------------------------------------------------------
(* connect. *)

\* SendRequest::ready resolves: the connection can take a request.
IsReady(c) == c \notin closed /\ reader[c] = None

\* Fault: the front of the queue is taken without asking whether it is closed.
LookUnchecked(t) ==
  /\ pool # <<>>
  /\ pool' = PopFront(pool, 1)
  /\ conn' = [conn EXCEPT ![t] = Head(pool)]
  /\ pc' = [pc EXCEPT ![t] = IF reader[Head(pool)] = None THEN "held" ELSE "readying"]

\* Fault: the pool is looked into as for HTTP/2, where the connection found stays in it.
LookShared(t) ==
  \E n \in DOMAIN pool :
    /\ \A i \in 1..(n - 1) : pool[i] \in closed
    /\ pool[n] \notin closed
    /\ pool' = PopFront(pool, n - 1)
    /\ conn' = [conn EXCEPT ![t] = pool[n]]
    /\ pc' = [pc EXCEPT ![t] = IF IsReady(pool[n]) THEN "held" ELSE "readying"]

\* The loop over pool.get: closed connections are dropped, and the drop keeps them out of
\* the pool; the first one that is not closed is waited for, if it is not ready at once.
LookHit(t) ==
  \E n \in DOMAIN pool :
    /\ \A i \in 1..(n - 1) : pool[i] \in closed
    /\ pool[n] \notin closed
    /\ pool' = PopFront(pool, n)
    /\ conn' = [conn EXCEPT ![t] = pool[n]]
    /\ pc' = [pc EXCEPT ![t] = IF IsReady(pool[n]) THEN "held" ELSE "readying"]

\* There is none: the transport is dialled.
LookMiss(t) ==
  /\ Elements(pool) \subseteq closed
  /\ pool' = <<>>
  /\ conn' = [conn EXCEPT ![t] = None]
  /\ pc' = [pc EXCEPT ![t] = "dialling"]

Look(t) == LookHit(t) \/ LookMiss(t)

Connect(t) ==
  /\ pc[t] = "out"
  /\ Look(t)
  /\ UNCHANGED <<born, closed, reader>>

Ready(t) ==
  /\ pc[t] = "readying"
  /\ IsReady(conn[t])
  /\ pc' = [pc EXCEPT ![t] = "held"]
  /\ UNCHANGED <<conn, pool, born, closed, reader>>

\* Fault: the loop asks the same connection again.
ReadyFailsRetried(t) ==
  /\ pc[t] = "readying"
  /\ conn[t] \in closed
  /\ UNCHANGED vars

\* The connection closes under the wait: its handle is dropped, and the loop goes on.
ReadyFails(t) ==
  /\ pc[t] = "readying"
  /\ conn[t] \in closed
  /\ Look(t)
  /\ UNCHANGED <<born, closed, reader>>

\* PollIo::connect: the inner connector's transport, turned into a poll-based one.
Dialled(t) ==
  /\ pc[t] = "dialling"
  /\ pc' = [pc EXCEPT ![t] = "handshaking"]
  /\ UNCHANGED <<conn, pool, born, closed, reader>>

\* The dialling, the conversion or the handshake fails, and connect returns the error.
Failed(t) ==
  /\ pc[t] \in {"dialling", "handshaking"}
  /\ pc' = [pc EXCEPT ![t] = "out"]
  /\ UNCHANGED <<conn, pool, born, closed, reader>>

\* The handshake succeeds: the connection's task is spawned, the connection linked.
HandshakeOk(t, c) ==
  /\ pc[t] = "handshaking"
  /\ c \notin born
  /\ born' = born \cup {c}
  /\ conn' = [conn EXCEPT ![t] = c]
  /\ pc' = [pc EXCEPT ![t] = "held"]
  /\ UNCHANGED <<pool, closed, reader>>
-----------------------------------------------------------------------------
(* The handles, and what users do with them. *)

\* Drop for Pooled, with HyperH1Connection::is_open.
Release(t) ==
  /\ pool' = IF conn[t] \notin closed THEN DropInsert(pool, conn[t]) ELSE pool
  /\ conn' = [conn EXCEPT ![t] = None]
  /\ pc' = [pc EXCEPT ![t] = "out"]

\* Fault: a handle is returned at every await, also where there is none yet.
CancelAlwaysReturning(t) ==
  /\ pc[t] \in Awaiting
  /\ Release(t)
  /\ UNCHANGED <<born, closed, reader>>

\* The future of connect is dropped at an await, with the handle it was waiting on.
Cancel(t) ==
  /\ pc[t] \in Awaiting
  /\ \/ pc[t] = "readying" /\ Release(t)
     \/ /\ pc[t] # "readying"
        /\ pc' = [pc EXCEPT ![t] = "out"]
        /\ UNCHANGED <<conn, pool>>
  /\ UNCHANGED <<born, closed, reader>>

DropPooled(t) ==
  /\ pc[t] = "held"
  /\ Release(t)
  /\ UNCHANGED <<born, closed, reader>>

\* A request is answered; its body stays with the task that asked, whatever happens to the
\* handle.
SendRequest(t) ==
  /\ pc[t] = "held"
  /\ IsReady(conn[t])
  /\ reader' = [reader EXCEPT ![conn[t]] = t]
  /\ UNCHANGED <<pc, conn, pool, born, closed>>

\* The body is read to its end, through hyper or through MonoioBody (which skips the frames
\* that are not data), by a task that is not inside connect.
ReadBody(t, c) ==
  /\ reader[c] = t
  /\ pc[t] \notin Awaiting
  /\ reader' = [reader EXCEPT ![c] = None]
  /\ UNCHANGED <<pc, conn, pool, born, closed>>

\* The connection's driving task ends: the peer closes, or the body was dropped unread.
Close(c) ==
  /\ c \in born \ closed
  /\ closed' = closed \cup {c}
  /\ UNCHANGED <<pc, conn, pool, born, reader>>

\* A tick of the pool's idle task; which entries are old is up to the clock.
Expire(E) ==
  /\ E # {}
  /\ E \subseteq Elements(pool)
  /\ pool' = Retain(pool, Conns \ E)
  /\ UNCHANGED <<pc, conn, born, closed, reader>>
-----------------------------------------------------------------------------
Complete(t) ==
  \/ Ready(t)
  \/ ReadyFails(t)
  \/ Dialled(t)
  \/ Failed(t)
  \/ \E c \in Conns : HandshakeOk(t, c)

Next ==
  \/ \E t \in Tasks :
       \/ Connect(t) \/ Complete(t) \/ Cancel(t) \/ DropPooled(t) \/ SendRequest(t)
       \/ \E c \in Conns : ReadBody(t, c)
  \/ \E c \in Conns : Close(c)
  \/ \E E \in SUBSET Conns : Expire(E)

Spec == Init /\ [][Next]_vars

\* Every dialling and every handshake ends, well or not, and the runtime polls who is woken;
\* a task that is time and again outside connect reads the responses it has.
LiveSpec ==
  /\ Spec
  /\ \A t \in Tasks : WF_vars(Complete(t)) /\ \A c \in Conns : SF_vars(ReadBody(t, c))
-----------------------------------------------------------------------------
TypeOK ==
  /\ pc \in [Tasks -> Awaiting \cup {"out", "held"}]
  /\ conn \in [Tasks -> Conns \cup {None}]
  /\ pool \in Seq(Conns)
  /\ born \subseteq Conns
  /\ closed \subseteq born
  /\ reader \in [Conns -> Tasks \cup {None}]

\* A connection is with one task, in use or waited for, or at one position of the pool,
\* although get, the loop, the drop and a cancelled wait all move it.
OneHolder ==
  LET Holds == {t \in Tasks : conn[t] # None} IN
  /\ Holds = {t \in Tasks : pc[t] \in {"held", "readying"}}
  /\ \A s, t \in Holds : conn[s] = conn[t] => s = t
  /\ \A i, j \in DOMAIN pool : pool[i] = pool[j] => i = j
  /\ \A t \in Holds : conn[t] \in born \ Elements(pool)

\* A connection is handed out only when the response of its last user has been read and it
\* has not closed, however it was returned: a request never meets an older response.
ReturnsReady ==
  [][\A t \in Tasks : pc[t] # "held" /\ pc'[t] = "held" => IsReady(conn'[t])]_vars

\* Tasks that wait for connections whose responses only tasks among themselves could read.
Circular(S) ==
  \A t \in S : pc[t] = "readying" /\ conn[t] \notin closed /\ reader[conn[t]] \in S

\* Every connect returns, is cancelled, or waits in a circle: for a response that is held by
\* a task (itself, even) which waits in connect in the same way.
ConnectEndsOrCircular ==
  \A t \in Tasks :
    (pc[t] \in Awaiting) ~>
      (pc[t] \notin Awaiting \/ \E S \in SUBSET Tasks : t \in S /\ Circular(S))
=============================================================================
