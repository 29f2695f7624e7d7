\* The documented rule for connections that are known to be done.
CONSTANTS
  None = None
  MaxIdleArg = None
  Conns = {c1}
  Tasks = {t1}
  Reqs = {r1, r2}
  Timed = {}
SPECIFICATION Spec
INVARIANTS FailedNotPooled
