\* Whether every request ends on either protocol, without a read timeout; one stream at a time.
CONSTANTS
  None = None
  MaxIdleArg = None
  Conns = {c1}
  Tasks = {t1, t2}
  Reqs = {r1, r2}
  Timed = {}
  MaxStreams = 1
SPECIFICATION HttpLiveSpec
INVARIANTS SlotsHaveOwners
PROPERTIES RequestEnds
