-------------------------- MODULE MCConnectionPool --------------------------
(* Instances of ConnectionPool for TLC. *)
EXTENDS ConnectionPool, TLC

\* Neither connections nor keys are ever compared other than for equality.
PoolSymmetry == Permutations(Conns) \cup Permutations(Keys)
=============================================================================
