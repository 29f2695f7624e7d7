\* Three tasks, so that one can wait for a second that waits for a third.
CONSTANTS
  None = None
  MaxIdleArg = None
  Conns = {c1, c2}
  Tasks = {t1, t2, t3}
SPECIFICATION LiveSpec
INVARIANTS TypeOK OneHolder
PROPERTIES ReturnsReady ConnectEndsOrCircular
