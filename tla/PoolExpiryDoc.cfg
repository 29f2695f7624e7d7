\* The documented meaning of idle_interval.
CONSTANTS
  None = None
  Keys = {k1, k2}
  Conns = {c1, c2}
  MaxIdleArg = 1
  IdleInterval = 1
  MinInterval = 2
  Lag = 1
  MaxClones = 2
  UsesPut = FALSE
SPECIFICATION LiveSpec

PROPERTIES ExpiredNotReused
