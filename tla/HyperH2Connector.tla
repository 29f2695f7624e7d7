------------------------- MODULE HyperH2Connector -------------------------
(***************************************************************************)
(* HyperH2Connector::connect of src/http/hyper/mod.rs: connections shared  *)
(* by a bounded number of senders, and a lock per key that is held while a *)
(* new one is dialled.                                                     *)
(*                                                                         *)
(* The number of senders of a connection is the strong count of its `cnt`: *)
(* one for the copy in the pool and one for each copy that users hold.     *)
(* The pool may be one with an idle task (new_with_pool).                  *)
(***************************************************************************)
EXTENDS KeyLock

CONSTANTS
  Conns,             \* connection identities: each is made at most once
  max_stream_sender  \* the limit of with_max_stream_sender, or None

ASSUME HyperAssumption ==
  /\ max_stream_sender \in Nat \cup {None}
  /\ None \notin Keys \cup Conns \cup Nat
  /\ IsFiniteSet(Tasks)

VARIABLES
  conn,    \* per task, the connection it holds
  born,    \* connections made so far
  broken,  \* connections that are not ready any more
  pool,    \* per key, the pooled connections
  cloned   \* connections whose users have cloned their sender by themselves

hyperVars == <<conn, born, broken, pool, cloned>>
vars == <<lockVars, hyperVars>>

Init ==
  /\ LockInit
  /\ conn = [t \in Tasks |-> None]
  /\ born = {}
  /\ broken = {}
  /\ pool = [k \in Keys |-> <<>>]
  /\ cloned = {}
-----------------------------------------------------------------------------
(* try_get!. *)

Users(c) == {t \in Tasks : pc[t] = "held" /\ conn[t] = c}
Pooled(c) == \E k \in Keys : c \in Elements(pool[k])

\* Rc::strong_count of the connection's cnt.
Senders(c) == Cardinality(Users(c)) + IF Pooled(c) THEN 1 ELSE 0

\* Fault: one sender too many.
stream_full_late(c) == max_stream_sender # None /\ Senders(c) > max_stream_sender

stream_full(c) == max_stream_sender # None /\ Senders(c) >= max_stream_sender

\* Fault: connections that are gone stay in the pool.
ReadyWithBroken(k) == pool[k]

\* The queue without the connections that are gone, and the ones of it that take one more.
Ready(k) == Retain(pool[k], Conns \ broken)
Free(k) == {c \in Elements(Ready(k)) : ~stream_full(c)}

\* The first connection of the queue with room: its idle time starts anew, which the set of
\* entries that Expire may take does not depend on.
IsFirstFree(c, k) ==
  \E i \in DOMAIN Ready(k) :
    /\ Ready(k)[i] = c
    /\ c \in Free(k)
    /\ \A j \in 1..(i - 1) : Ready(k)[j] \notin Free(k)

TryGet(t, k) ==
  /\ pool' = [pool EXCEPT ![k] = Ready(k)]
  /\ \E c \in Conns : IsFirstFree(c, k) /\ conn' = [conn EXCEPT ![t] = c]
  /\ UNCHANGED <<born, broken, cloned>>

TryGetNone(k) ==
  /\ pool' = [pool EXCEPT ![k] = Ready(k)]
  /\ Free(k) = {}
  /\ UNCHANGED <<conn, born, broken, cloned>>
-----------------------------------------------------------------------------
(* connect. *)

\* A connection with room is returned; otherwise the lock is next.  When it is free the
\* second look finds what the first one did, and the transport is dialled.
Connect(t, k) ==
  /\ pc[t] = "out"
  /\ key' = [key EXCEPT ![t] = k]
  /\ \/ /\ TryGet(t, k)
        /\ pc' = [pc EXCEPT ![t] = "held"]
        /\ UNCHANGED <<permits, waiters>>
     \/ /\ TryGetNone(k)
        /\ Acquire(t, k, "connecting") \/ Enqueue(t, k)

\* Fault: the pool is not looked into again once the lock is held.
WakeWithoutLooking(t) ==
  /\ pc[t] = "granted"
  /\ pc' = [pc EXCEPT ![t] = "connecting"]
  /\ UNCHANGED <<key, permits, waiters, hyperVars>>

\* A waiter that was given the lock is polled: it looks again, then dials.
Wake(t) ==
  /\ pc[t] = "granted"
  /\ \/ /\ TryGet(t, key[t])
        /\ Release(t, "held")
     \/ /\ TryGetNone(key[t])
        /\ pc' = [pc EXCEPT ![t] = "connecting"]
        /\ UNCHANGED <<permits, waiters>>
  /\ UNCHANGED key

\* The transport is there; the handshake starts, still under the lock.
Dialled(t) ==
  /\ pc[t] = "connecting"
  /\ pc' = [pc EXCEPT ![t] = "handshaking"]
  /\ UNCHANGED <<key, permits, waiters, hyperVars>>

\* Fault: the error path keeps the lock.
FailedLocked(t) ==
  /\ pc[t] \in {"connecting", "handshaking"}
  /\ pc' = [pc EXCEPT ![t] = "out"]
  /\ UNCHANGED <<key, permits, waiters, hyperVars>>

\* Dialling or the handshake fails: connect returns the error and drops the guard.
Failed(t) ==
  /\ pc[t] \in {"connecting", "handshaking"}
  /\ Release(t, "out")
  /\ key' = [key EXCEPT ![t] = None]
  /\ UNCHANGED hyperVars

\* The handshake succeeds: one copy goes into the pool, one is returned.
HandshakeOk(t, c) ==
  /\ pc[t] = "handshaking"
  /\ c \notin born
  /\ born' = born \cup {c}
  /\ pool' = [pool EXCEPT ![key[t]] = PutInsert(@, c)]
  /\ conn' = [conn EXCEPT ![t] = c]
  /\ Release(t, "held")
  /\ UNCHANGED <<key, broken, cloned>>

\* Fault in the way a dropped future leaves the lock.
CancelAddingPermit(t) == GiveUpAddingPermit(t) /\ UNCHANGED hyperVars

\* The future of connect is dropped at an await.
Cancel(t) == GiveUp(t) /\ UNCHANGED hyperVars
-----------------------------------------------------------------------------
(* The senders handed out, the connections and the pool. *)

DropSender(t) ==
  /\ pc[t] = "held"
  /\ pc' = [pc EXCEPT ![t] = "out"]
  /\ conn' = [conn EXCEPT ![t] = None]
  /\ key' = [key EXCEPT ![t] = None]
  /\ UNCHANGED <<permits, waiters, born, broken, pool, cloned>>

\* HyperH2Connection::to_owned by a user, which gives the copy to another task.
CloneSender(t, s) ==
  /\ pc[t] = "out"
  /\ pc[s] = "held"
  /\ pc' = [pc EXCEPT ![t] = "held"]
  /\ key' = [key EXCEPT ![t] = key[s]]
  /\ conn' = [conn EXCEPT ![t] = conn[s]]
  /\ cloned' = cloned \cup {conn[s]}
  /\ UNCHANGED <<permits, waiters, born, broken, pool>>

\* The task that drives the connection ends.
Break(c) ==
  /\ c \in born \ broken
  /\ broken' = broken \cup {c}
  /\ UNCHANGED <<lockVars, conn, born, pool, cloned>>

\* A tick of the pool's idle task: which entries have been idle for long is up to the clock.
Expire(k, E) ==
  /\ E # {}
  /\ E \subseteq Elements(pool[k])
  /\ pool' = [pool EXCEPT ![k] = Retain(@, Conns \ E)]
  /\ UNCHANGED <<lockVars, conn, born, broken, cloned>>
-----------------------------------------------------------------------------
Complete(t) ==
  \/ Wake(t)
  \/ Dialled(t)
  \/ Failed(t)
  \/ \E c \in Conns : HandshakeOk(t, c)

Next ==
  \/ \E t \in Tasks :
       \/ \E k \in Keys : Connect(t, k)
       \/ Complete(t)
       \/ Cancel(t)
       \/ DropSender(t)
       \/ \E s \in Tasks : CloneSender(t, s)
  \/ \E c \in Conns : Break(c)
  \/ \E k \in Keys, E \in SUBSET Conns : Expire(k, E)

Spec == Init /\ [][Next]_vars

\* Every dialling and every handshake ends, well or not, and the runtime polls who is woken.
LiveSpec == Spec /\ \A t \in Tasks : WF_vars(Complete(t))
-----------------------------------------------------------------------------
TypeOK ==
  /\ LockTypeOK({"held"})
  /\ conn \in [Tasks -> Conns \cup {None}]
  /\ born \subseteq Conns
  /\ broken \subseteq born
  /\ pool \in [Keys -> Seq(Conns)]
  /\ cloned \subseteq born

\* A connection carries at most one user less than the limit, because the pool's own copy
\* counts, or the one it was made for: as long as its users do not clone it themselves.
StreamBound ==
  max_stream_sender # None =>
    \A c \in Conns \ cloned :
      Cardinality(Users(c)) <= IF max_stream_sender < 2 THEN 1 ELSE max_stream_sender - 1

\* A connection is made only when all others of the key are full, so that a key never has
\* more of them in the pool than its tasks can fill, and one: without a limit, only one.
PoolSize ==
  \A k \in Keys :
    IF max_stream_sender = None THEN Len(pool[k]) <= 1
    ELSE max_stream_sender >= 2 =>
           (Len(pool[k]) - 1) * (max_stream_sender - 1) <= Cardinality(Tasks) - 1

\* A connection that connect returns, from the pool or new, works at that moment, as far as
\* hyper knows; what users clone for one another is theirs to know.
ReturnsReady ==
  [][\A t \in Tasks :
       /\ pc[t] # "held" /\ pc'[t] = "held"
       /\ ~\E s \in Tasks : CloneSender(t, s)
       => conn'[t] \notin broken]_vars
=============================================================================
