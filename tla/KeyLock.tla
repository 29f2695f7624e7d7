------------------------------ MODULE KeyLock ------------------------------
(***************************************************************************)
(* The lock per key that the connectors keep in `connecting`, and how a    *)
(* task that waits for it or holds it lets it go: local_sync's Semaphore   *)
(* with one permit in HttpConnector, tokio's Mutex in HyperH2Connector.    *)
(* Both are libraries and both are fair: a permit let go is handed to the  *)
(* first waiter, which has it before it is polled again.                   *)
(***************************************************************************)
EXTENDS PoolQueue

CONSTANTS
  Keys,   \* what the connector is asked to connect to
  Tasks   \* tasks that call connect

VARIABLES
  pc,       \* per task, where it is in connect, or what it holds
  key,      \* per task, what it connects or is connected to
  permits,  \* per key, the free permits of its lock
  waiters   \* per key, the tasks in the lock's queue

lockVars == <<pc, key, permits, waiters>>

\* Awaits with the permit in hand, and all awaits of connect.
HasPermit == {"granted", "connecting", "handshaking"}
Awaiting == {"dialling", "queued"} \cup HasPermit

LockInit ==
  /\ pc = [t \in Tasks |-> "out"]
  /\ key = [t \in Tasks |-> None]
  /\ permits = [k \in Keys |-> 1]
  /\ waiters = [k \in Keys |-> <<>>]

\* The task takes the free permit and goes on to s.
Acquire(t, k, s) ==
  /\ permits[k] > 0
  /\ permits' = [permits EXCEPT ![k] = @ - 1]
  /\ pc' = [pc EXCEPT ![t] = s]
  /\ UNCHANGED waiters

\* There is none: it queues up.
Enqueue(t, k) ==
  /\ permits[k] = 0
  /\ waiters' = [waiters EXCEPT ![k] = Append(@, t)]
  /\ pc' = [pc EXCEPT ![t] = "queued"]
  /\ UNCHANGED permits

\* The task that holds the permit drops its guard and goes on to s: the permit goes to the
\* first waiter, or back to the lock.
Release(t, s) ==
  LET k == key[t] IN
  IF waiters[k] = <<>>
  THEN /\ permits' = [permits EXCEPT ![k] = 1]
       /\ pc' = [pc EXCEPT ![t] = s]
       /\ UNCHANGED waiters
  ELSE /\ waiters' = [waiters EXCEPT ![k] = Tail(@)]
       /\ pc' = [pc EXCEPT ![t] = s, ![Head(waiters[k])] = "granted"]
       /\ UNCHANGED permits

\* Fault: every cancelled connect gives a permit back, had it one or not.
GiveUpAddingPermit(t) ==
  /\ pc[t] \in Awaiting
  /\ pc' = [pc EXCEPT ![t] = "out"]
  /\ permits' = [permits EXCEPT ![key[t]] = @ + 1]
  /\ waiters' = [k \in Keys |-> Retain(waiters[k], Tasks \ {t})]
  /\ UNCHANGED key

\* Fault: a cancelled waiter takes the permit it was given to the grave.
GiveUpKeepingPermit(t) ==
  /\ pc[t] \in Awaiting
  /\ waiters' = [k \in Keys |-> Retain(waiters[k], Tasks \ {t})]
  /\ permits' = IF pc[t] = "handshaking" THEN [permits EXCEPT ![key[t]] = 1] ELSE permits
  /\ pc' = [pc EXCEPT ![t] = "out"]
  /\ UNCHANGED key

\* The future of connect is dropped at an await: a queued task leaves the queue, one that
\* has the permit, or was just given it, passes it on.
GiveUp(t) ==
  /\ pc[t] \in Awaiting
  /\ \/ /\ pc[t] \in HasPermit
        /\ Release(t, "out")
     \/ /\ pc[t] \notin HasPermit
        /\ pc' = [pc EXCEPT ![t] = "out"]
        /\ waiters' = [k \in Keys |-> Retain(waiters[k], Tasks \ {t})]
        /\ UNCHANGED permits
  /\ key' = [key EXCEPT ![t] = None]
-----------------------------------------------------------------------------
\* Types of the lock's state, in a connector whose tasks hold connections as Kinds.
LockTypeOK(Kinds) ==
  /\ pc \in [Tasks -> Awaiting \cup {"out"} \cup Kinds]
  /\ key \in [Tasks -> Keys \cup {None}]
  /\ permits \in [Keys -> 0..1]
  /\ waiters \in [Keys -> Seq(Tasks)]

\* Tasks whose connect holds the key's permit.
Holders(k) == {t \in Tasks : pc[t] \in HasPermit /\ key[t] = k}

\* The one permit of a key is in the lock or with one task, never lost and never doubled,
\* and never in the lock while a task waits: whichever way connect ends.
OnePermit ==
  \A k \in Keys :
    /\ \A s, t \in Holders(k) : s = t
    /\ permits[k] = IF Holders(k) = {} THEN 1 ELSE 0
    /\ permits[k] = 1 => waiters[k] = <<>>

\* Every connect returns or is cancelled: no task waits for a permit that nobody has.
ConnectEnds == \A t \in Tasks : (pc[t] \in Awaiting) ~> (pc[t] \notin Awaiting)
=============================================================================
