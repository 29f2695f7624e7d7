\* Stacked connectors over a pool with an idle task.
CONSTANTS
  None = None
  Keys <- MCKeys
  Uris <- MCUris
  ServerNames = {"a", "b"}
  Tasks = {t1, t2}
  Conns = {c1, c2}
  MaxIdleArg = 1
  IdleInterval = 1
  MinInterval = 2
  Lag = 1
  MaxClones = 2
  UsesPut = FALSE
SPECIFICATION StackLiveSpec
INVARIANTS CapacityBound ServedAsAsked HandlesMatchTasks
PROPERTIES IdleTaskEnds ExpiredLeaves
