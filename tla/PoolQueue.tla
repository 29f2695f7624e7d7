----------------------------- MODULE PoolQueue -----------------------------
(***************************************************************************)
(* What the pool does to one key's VecDeque<Idle<T>> (src/pool/mod.rs):    *)
(* the capacity it works with, the two insertions that make room by        *)
(* dropping connections from the front, and VecDeque::retain.  A queue is  *)
(* a sequence, its front is position 1.                                    *)
(***************************************************************************)
EXTENDS Integers, Sequences, FiniteSets

CONSTANTS
  None,        \* Option::None
  MaxIdleArg   \* the `max_idle: Option<usize>` the pool is built with

ASSUME MaxIdleAssumption == MaxIdleArg \in Nat \cup {None}

DEFAULT_KEEPALIVE_CONNS == 256
MAX_KEEPALIVE_CONNS == 16384

\* PoolInner::max_idle: the argument capped at MAX_KEEPALIVE_CONNS, or the default.
max_idle ==
  IF MaxIdleArg = None THEN DEFAULT_KEEPALIVE_CONNS
  ELSE IF MaxIdleArg < MAX_KEEPALIVE_CONNS THEN MaxIdleArg ELSE MAX_KEEPALIVE_CONNS

\* n calls of VecDeque::pop_front; on an empty queue a call does nothing.
PopFront(q, n) == SubSeq(q, n + 1, Len(q))

\* Fault: the room is made by one pop too few.
DropInsertOneShort(q, e) ==
  Append(IF Len(q) >= max_idle THEN PopFront(q, Len(q) - max_idle) ELSE q, e)

\* Fault: the room is made by one pop too many.
DropInsertOneOver(q, e) ==
  Append(IF Len(q) >= max_idle THEN PopFront(q, Len(q) - max_idle + 2) ELSE q, e)

\* Fault: the newest connections make room instead of the oldest.
DropInsertAtFront(q, e) == <<e>> \o q

\* Drop for Pooled: a queue at or over max_idle loses its surplus and one more.
DropInsert(q, e) ==
  Append(IF Len(q) >= max_idle THEN PopFront(q, Len(q) - max_idle + 1) ELSE q, e)

\* Fault: `put` never makes room.
PutInsertNoRoom(q, e) == Append(q, e)

\* ConnectionPool::put: the same, but only for a queue already OVER max_idle.
PutInsert(q, e) ==
  Append(IF Len(q) > max_idle THEN PopFront(q, Len(q) - max_idle + 1) ELSE q, e)

\* The elements of I in increasing order, as a sequence of positions.
IsEnumeration(f, I) ==
  /\ \A i, j \in DOMAIN f : i < j => f[i] < f[j]
  /\ \A i \in I : \E j \in DOMAIN f : f[j] = i

Enumeration(I) == CHOOSE f \in [1..Cardinality(I) -> I] : IsEnumeration(f, I)

\* VecDeque::retain: the elements of q that are in keep, in the order they had.
Retain(q, keep) ==
  LET f == Enumeration({i \in DOMAIN q : q[i] \in keep})
  IN  [j \in DOMAIN f |-> q[f[j]]]

\* The elements of a queue.
Elements(q) == {q[i] : i \in DOMAIN q}
=============================================================================
