\* A pool with an idle task, used with link and put; idle_interval is below MIN_INTERVAL, so that expiry and period differ.
CONSTANTS
  None = None
  Keys = {k1, k2}
  Conns = {c1, c2, c3, c4}
  MaxIdleArg = 2
  IdleInterval = 1
  MinInterval = 2
  Lag = 1
  MaxClones = 2
  UsesPut = TRUE
SPECIFICATION Spec
SYMMETRY PoolSymmetry
INVARIANTS TypeOK ExclusiveOwnership KeyAffinity OldestFirst CapacityBound IdleAgeBound DeadPoolIsEmpty
PROPERTIES NoSilentLoss ImplementsLease
