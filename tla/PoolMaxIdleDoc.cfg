\* The documented meaning of max_idle.
CONSTANTS
  None = None
  Keys = {k1, k2}
  Conns = {c1, c2, c3}
  MaxIdleArg = 1
  IdleInterval = None
  MinInterval = 2
  Lag = 1
  MaxClones = 2
  UsesPut = TRUE
SPECIFICATION Spec

INVARIANTS MaxIdleIsMax
