----------------------------- MODULE ConnLease -----------------------------
(***************************************************************************)
(* What a pool of exclusive connections promises, without queues, clocks   *)
(* or reference counts: a connection is opened once, for one key; from     *)
(* then on it is either leased to exactly one user or idle in the pool,    *)
(* and once it is gone it never comes back.                                *)
(***************************************************************************)
CONSTANTS
  Conns,  \* connection identities
  Keys,   \* what connections are pooled under
  None    \* the key of a connection that belongs to no pool

VARIABLES
  stage,  \* where each connection is in its life
  home    \* the key it was opened for

leaseVars == <<stage, home>>

Stages == {"unborn", "leased", "idle", "gone"}

Init ==
  /\ stage = [c \in Conns |-> "unborn"]
  /\ home = [c \in Conns |-> None]

\* Connection c moves to stage s; the idle connections of E, all of c's key, make room for it.
Move(c, s, E) ==
  /\ E \subseteq {d \in Conns : stage[d] = "idle" /\ home'[d] = home'[c]} \ {c}
  /\ stage' = [d \in Conns |-> IF d = c THEN s ELSE IF d \in E THEN "gone" ELSE stage[d]]

\* A new connection, handed to its user or put aside for the key.
Open(c, k, s, E) ==
  /\ stage[c] = "unborn"
  /\ s = "leased" => E = {}
  /\ home' = [home EXCEPT ![c] = k]
  /\ Move(c, s, E)

\* An idle connection is handed out.
Lease(c, E) ==
  /\ stage[c] = "idle"
  /\ Move(c, "leased", E)
  /\ UNCHANGED home

\* A user gives its connection up: it is idle again, or gone.
Return(c, s, E) ==
  /\ stage[c] = "leased"
  /\ s = "idle" => home[c] # None
  /\ s = "gone" => E = {}
  /\ Move(c, s, E)
  /\ UNCHANGED home

\* The pool lets idle connections go.
Evict(E) ==
  /\ E \subseteq {c \in Conns : stage[c] = "idle"}
  /\ stage' = [c \in Conns |-> IF c \in E THEN "gone" ELSE stage[c]]
  /\ UNCHANGED home

Next ==
  \/ \E E \in SUBSET Conns : Evict(E)
  \/ \E c \in Conns, E \in SUBSET Conns :
       \/ \E k \in Keys, s \in {"leased", "idle"} : Open(c, k, s, E)
       \/ Open(c, None, "leased", E)
       \/ Lease(c, E)
       \/ \E s \in {"idle", "gone"} : Return(c, s, E)

Spec == Init /\ [][Next]_leaseVars
=============================================================================
