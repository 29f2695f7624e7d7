--------------------------- MODULE ConnectionPool ---------------------------
(***************************************************************************)
(* ConnectionPool, Pooled, Idle, PoolInner and IdleTask of                 *)
(* src/pool/mod.rs, with the Poolable flag of src/pool/reuse.rs.           *)
(*                                                                         *)
(* Everything runs on one thread and no method of the pool awaits, so each *)
(* method is one step.  The idle task is a second task of that thread: its *)
(* polls interleave with the methods.                                      *)
(*                                                                         *)
(* A HashMap entry that is absent and one that holds an empty queue answer *)
(* every method alike; both are the empty sequence here.  An Instant is    *)
(* kept as the time elapsed since it, the only thing the code computes     *)
(* from it.                                                                *)
(***************************************************************************)
EXTENDS PoolQueue

CONSTANTS
  Keys,          \* pool keys
  Conns,         \* connection identities, each opened at most once
  IdleInterval,  \* the `idle_interval: Option<Duration>` of the constructor, in time units
  MinInterval,   \* MIN_INTERVAL (one second) in time units
  Lag,           \* how late the runtime may poll a task whose timer has fired
  MaxClones,     \* bound on the clones of the ConnectionPool alive at once
  UsesPut        \* the pool's user calls `put` as well as `link`

ASSUME PoolAssumption ==
  /\ IdleInterval \in Nat \cup {None}
  /\ MinInterval \in Nat \ {0}
  /\ Lag \in Nat
  /\ MaxClones \in Nat \ {0}
  /\ UsesPut \in BOOLEAN
  /\ None \notin Keys
  /\ None \notin Nat

VARIABLES
  idle_conns,  \* per key, the queue of idle connections
  pooled,      \* the live Pooled handles
  born,        \* connections opened so far
  home,        \* the key each connection was opened for
  pools,       \* clones of the ConnectionPool alive: the Rc's strong count
  idle_task,   \* the IdleTask: "none", "running" or "done"
  next_tick    \* time until the idle task's interval fires; negative when it is late

vars == <<idle_conns, pooled, born, home, pools, idle_task, next_tick>>

\* IdleTask::idle_dur, and the interval it is clamped to.
IdleDur == IF IdleInterval = None THEN 0 ELSE IdleInterval
Interval == IF IdleDur < MinInterval THEN MinInterval ELSE IdleDur

\* The longest an entry can have been idle, and a ceiling above it where ages stop.
MaxIdleAge == IdleDur + Interval + Lag
MaxElapsed == MaxIdleAge + 1

Idle == [conn: Conns, elapsed: 0..MaxElapsed]
Handle == [conn: Conns, key: Keys \cup {None}, is_reused: BOOLEAN, open: BOOLEAN]

\* PoolInner::idle_dur: both constructors leave it None.
idle_dur == None

\* Idle::new, Idle::expired, Idle::expired_opt.
NewIdle(c) == [conn |-> c, elapsed |-> 0]
expired(e, max_elapsed) == e.elapsed > max_elapsed
expired_opt(e, max_elapsed) == max_elapsed # None /\ expired(e, max_elapsed)

IdleConns == UNION {{e.conn : e \in Elements(idle_conns[k])} : k \in Keys}
LeasedConns == {h.conn : h \in pooled}

Init ==
  /\ idle_conns = [k \in Keys |-> <<>>]
  /\ pooled = {}
  /\ born = {}
  /\ home = [c \in Conns |-> None]
  /\ pools = 1
  /\ idle_task = IF IdleInterval = None THEN "none" ELSE "running"
  /\ next_tick = 0   \* the first tick of an interval completes at once
-----------------------------------------------------------------------------
(* The methods of ConnectionPool and Pooled. *)

Born(c, k) ==
  /\ c \notin born
  /\ born' = born \cup {c}
  /\ home' = [home EXCEPT ![c] = k]

\* ConnectionPool::link: a connection just opened becomes a Pooled of this pool.
Link(k, c) ==
  /\ pools > 0
  /\ Born(c, k)
  /\ pooled' = pooled \cup {[conn |-> c, key |-> k, is_reused |-> FALSE, open |-> TRUE]}
  /\ UNCHANGED <<idle_conns, pools, idle_task, next_tick>>

\* Pooled::unpooled: a handle without key and pool.
Unpooled(c) ==
  /\ Born(c, None)
  /\ pooled' = pooled \cup {[conn |-> c, key |-> None, is_reused |-> FALSE, open |-> TRUE]}
  /\ UNCHANGED <<idle_conns, pools, idle_task, next_tick>>

\* ConnectionPool::put: a connection just opened goes straight to the queue.
Put(k, c) ==
  /\ UsesPut
  /\ pools > 0
  /\ Born(c, k)
  /\ idle_conns' = [idle_conns EXCEPT ![k] = PutInsert(@, NewIdle(c))]
  /\ UNCHANGED <<pooled, pools, idle_task, next_tick>>

\* Fault: the front is handed out without leaving the queue.
GetByPeeking(k) ==
  /\ pools > 0
  /\ idle_conns[k] # <<>>
  /\ pooled' = pooled \cup {[conn |-> Head(idle_conns[k]).conn, key |-> k,
                             is_reused |-> TRUE, open |-> TRUE]}
  /\ UNCHANGED <<idle_conns, born, home, pools, idle_task, next_tick>>

\* ConnectionPool::get: entries are popped until one has not expired; it is the answer.
\* The connection may have closed while it was idle: get does not look.
GetHit(k) ==
  LET q == idle_conns[k] IN
  \E n \in DOMAIN q, open \in BOOLEAN :
    /\ \A i \in 1..(n - 1) : expired_opt(q[i], idle_dur)
    /\ ~expired_opt(q[n], idle_dur)
    /\ idle_conns' = [idle_conns EXCEPT ![k] = PopFront(q, n)]
    /\ pooled' = pooled \cup {[conn |-> q[n].conn, key |-> k,
                               is_reused |-> TRUE, open |-> open]}

\* ... or, when all have expired, None.
GetMiss(k) ==
  /\ \A i \in DOMAIN idle_conns[k] : expired_opt(idle_conns[k][i], idle_dur)
  /\ idle_conns' = [idle_conns EXCEPT ![k] = <<>>]
  /\ UNCHANGED pooled

Get(k) ==
  /\ pools > 0
  /\ GetHit(k) \/ GetMiss(k)
  /\ UNCHANGED <<born, home, pools, idle_task, next_tick>>

\* Reuse::set_reuse, or the connection finding itself closed: is_open changes under the handle.
SetOpen(h, b) ==
  /\ h \in pooled
  /\ pooled' = (pooled \ {h}) \cup {[h EXCEPT !.open = b]}
  /\ UNCHANGED <<idle_conns, born, home, pools, idle_task, next_tick>>

\* Fault: the handle's drop does not take the pool's death into account.
DropIntoDeadPool(h) ==
  /\ h \in pooled
  /\ pooled' = pooled \ {h}
  /\ IF h.open /\ h.key # None
     THEN idle_conns' = [idle_conns EXCEPT ![h.key] = DropInsert(@, NewIdle(h.conn))]
     ELSE UNCHANGED idle_conns
  /\ UNCHANGED <<born, home, pools, idle_task, next_tick>>

\* Fault: the connection is filed under whatever key is at hand.
DropUnderAnyKey(h) ==
  /\ h \in pooled
  /\ pooled' = pooled \ {h}
  /\ IF h.open /\ h.key # None /\ pools > 0
     THEN \E k \in Keys :
            idle_conns' = [idle_conns EXCEPT ![k] = DropInsert(@, NewIdle(h.conn))]
     ELSE UNCHANGED idle_conns
  /\ UNCHANGED <<born, home, pools, idle_task, next_tick>>

\* Drop for Pooled: an open connection of a living pool goes to the back of its
\* key's queue; every other connection is dropped with its handle.
DropPooled(h) ==
  /\ h \in pooled
  /\ pooled' = pooled \ {h}
  /\ IF h.open /\ h.key # None /\ pools > 0
     THEN idle_conns' = [idle_conns EXCEPT ![h.key] = DropInsert(@, NewIdle(h.conn))]
     ELSE UNCHANGED idle_conns
  /\ UNCHANGED <<born, home, pools, idle_task, next_tick>>

\* Clone for ConnectionPool.
ClonePool ==
  /\ pools \in 1..(MaxClones - 1)
  /\ pools' = pools + 1
  /\ UNCHANGED <<idle_conns, pooled, born, home, idle_task, next_tick>>

\* The last clone takes PoolInner with it: the idle connections and the Receiver `_drop`.
DropPool ==
  /\ pools > 0
  /\ pools' = pools - 1
  /\ idle_conns' = IF pools = 1 THEN [k \in Keys |-> <<>>] ELSE idle_conns
  /\ UNCHANGED <<pooled, born, home, idle_task, next_tick>>
-----------------------------------------------------------------------------
(* The idle task and the passing of time. *)

Ticking == idle_task = "running" /\ pools > 0

\* Fault: the next tick is scheduled two intervals ahead.
IdleTickTooRare ==
  /\ Ticking
  /\ next_tick <= 0
  /\ idle_conns' = [k \in Keys |->
                      Retain(idle_conns[k], {e \in Idle : ~expired(e, IdleDur)})]
  /\ next_tick' = next_tick + 2 * Interval
  /\ UNCHANGED <<pooled, born, home, pools, idle_task>>

\* Fault: the tick drops the connections that are still good.
IdleTickInverted ==
  /\ Ticking
  /\ next_tick <= 0
  /\ idle_conns' = [k \in Keys |-> Retain(idle_conns[k], {e \in Idle : expired(e, IdleDur)})]
  /\ next_tick' = next_tick + Interval
  /\ UNCHANGED <<pooled, born, home, pools, idle_task>>

\* IdleTask::poll with the pool alive: the interval has fired, clear_expired(idle_dur)
\* runs, and the next deadline is one interval after the last one (missed ticks burst).
IdleTick ==
  /\ Ticking
  /\ next_tick <= 0
  /\ idle_conns' = [k \in Keys |->
                      Retain(idle_conns[k], {e \in Idle : ~expired(e, IdleDur)})]
  /\ next_tick' = next_tick + Interval
  /\ UNCHANGED <<pooled, born, home, pools, idle_task>>

\* Fault: the task only looks at its interval, which the dead pool no longer needs.
IdleExitWhileAlive ==
  /\ Ticking
  /\ idle_task' = "done"
  /\ UNCHANGED <<idle_conns, pooled, born, home, pools, next_tick>>

\* IdleTask::poll after the Receiver is gone: poll_closed is ready and the task ends.
IdleExit ==
  /\ idle_task = "running"
  /\ pools = 0
  /\ idle_task' = "done"
  /\ UNCHANGED <<idle_conns, pooled, born, home, pools, next_tick>>

\* One unit of time; the runtime polls a fired timer within Lag units.
Older(e) == [e EXCEPT !.elapsed = IF @ < MaxElapsed THEN @ + 1 ELSE @]

Elapse ==
  /\ Ticking => next_tick > -Lag
  /\ idle_conns' = [k \in Keys |-> [i \in DOMAIN idle_conns[k] |-> Older(idle_conns[k][i])]]
  /\ next_tick' = IF Ticking THEN next_tick - 1 ELSE next_tick
  /\ UNCHANGED <<pooled, born, home, pools, idle_task>>
-----------------------------------------------------------------------------
Next ==
  \/ \E c \in Conns : Unpooled(c) \/ \E k \in Keys : Link(k, c) \/ Put(k, c)
  \/ \E k \in Keys : Get(k)
  \/ \E h \in pooled : DropPooled(h) \/ \E b \in BOOLEAN : SetOpen(h, b)
  \/ ClonePool
  \/ DropPool
  \/ IdleTick
  \/ IdleExit
  \/ Elapse

Spec == Init /\ [][Next]_vars

\* The runtime polls a task that was woken, and time passes.
Fairness == WF_vars(IdleTick) /\ WF_vars(IdleExit) /\ WF_vars(Elapse)

LiveSpec == Spec /\ Fairness
-----------------------------------------------------------------------------
TypeOK ==
  /\ idle_conns \in [Keys -> Seq(Idle)]
  /\ pooled \subseteq Handle
  /\ born \subseteq Conns
  /\ home \in [Conns -> Keys \cup {None}]
  /\ pools \in 0..MaxClones
  /\ idle_task \in {"none", "running", "done"}
  /\ next_tick \in (-Lag)..Interval

\* A connection is held once: by one Pooled handle or at one position of one queue, and it
\* is one that was opened.  get, put and Drop move it between the two over many calls.
ExclusiveOwnership ==
  /\ LeasedConns \cup IdleConns \subseteq born
  /\ LeasedConns \cap IdleConns = {}
  /\ \A h1, h2 \in pooled : h1.conn = h2.conn => h1 = h2
  /\ \A k1, k2 \in Keys : \A i \in DOMAIN idle_conns[k1], j \in DOMAIN idle_conns[k2] :
       idle_conns[k1][i].conn = idle_conns[k2][j].conn => k1 = k2 /\ i = j

\* A connection opened for one key is never queued under, or handed out for, another:
\* what get(key) answers was made by a connect to that key.
KeyAffinity ==
  /\ \A h \in pooled : h.key = home[h.conn]
  /\ \A k \in Keys : \A e \in Elements(idle_conns[k]) : home[e.conn] = k

\* The queue is in the order of idling, oldest in front: popping the front, to reuse or
\* to make room, always takes the connection that has been idle longest.
OldestFirst ==
  \A k \in Keys : \A i, j \in DOMAIN idle_conns[k] :
    i < j => idle_conns[k][i].elapsed >= idle_conns[k][j].elapsed

\* The most connections a key can hold idle: Drop keeps max_idle (one, when max_idle is
\* zero), put lets one more in.
CapacityBound ==
  \A k \in Keys :
    Len(idle_conns[k]) <= IF UsesPut THEN max_idle + 1
                          ELSE IF max_idle = 0 THEN 1 ELSE max_idle

\* With an idle task no connection stays idle longer than idle_dur plus one interval,
\* plus what the runtime is late.
IdleAgeBound ==
  IdleInterval # None =>
    \A k \in Keys : \A e \in Elements(idle_conns[k]) : e.elapsed <= MaxIdleAge

\* A pool whose last clone is gone holds no connection, however late the handles it gave
\* out are dropped: their Weak no longer upgrades.
DeadPoolIsEmpty == pools = 0 => IdleConns = {}

\* An idle connection that a step removes is handed out, or had expired, or the pool died,
\* or its key's queue was full: then a connection has just been added behind it, everything
\* that had been idle longer goes with it, and no more go than leaves max_idle in the queue.
NoSilentLoss ==
  [][\A k \in Keys : \A i \in DOMAIN idle_conns[k] :
       LET q == idle_conns[k] IN
       \/ q[i].conn \in IdleConns' \cup LeasedConns'
       \/ pools' = 0
       \/ IdleInterval # None /\ expired(q[i], IdleDur)
       \/ /\ Len(q) >= max_idle
          /\ \E e \in Elements(idle_conns'[k]) : e.conn \notin {d.conn : d \in Elements(q)}
          /\ \A j \in 1..i : q[j].conn \notin IdleConns' \cup LeasedConns'
          /\ Len(idle_conns'[k]) >= max_idle
    ]_vars

\* Once the last clone is dropped the idle task ends.
IdleTaskEnds == (pools = 0) ~> (idle_task # "running")

\* A connection that has been idle for more than idle_dur leaves the queue: it is handed
\* out or dropped, as long as there is an idle task.
ExpiredLeaves ==
  \A c \in Conns :
    (\E k \in Keys : \E e \in Elements(idle_conns[k]) : e.conn = c /\ expired(e, IdleDur))
      ~> (\A k \in Keys : \A e \in Elements(idle_conns[k]) : e.conn = c => ~expired(e, IdleDur))

\* Where each connection is in its life, as the abstract lease of connections sees it.
stage == [c \in Conns |-> IF c \notin born THEN "unborn"
                          ELSE IF c \in LeasedConns THEN "leased"
                          ELSE IF c \in IdleConns THEN "idle" ELSE "gone"]

Lease == INSTANCE ConnLease

\* The pool implements that lease.
ImplementsLease == Lease!Spec
-----------------------------------------------------------------------------
(* What comments of the source say and the code does not do. *)

\* src/src/pool/mod.rs:289: "`max_idle` is max idle connection count".
MaxIdleIsMax == \A k \in Keys : Len(idle_conns[k]) <= max_idle

\* src/src/pool/mod.rs:287: idle_interval "is also used to determine if a connection is
\* expired": get hands out no connection that is.
ExpiredNotReused ==
  [][\A k \in Keys : \A e \in Elements(idle_conns[k]) :
       expired(e, IdleDur) => e.conn \notin LeasedConns']_vars
=============================================================================
