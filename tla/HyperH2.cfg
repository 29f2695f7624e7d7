\* Three tasks on connections for at most two users each.
CONSTANTS
  None = None
  MaxIdleArg = None
  Keys = {k1}
  Conns = {c1, c2, c3}
  Tasks = {t1, t2, t3}
  max_stream_sender = 3
SPECIFICATION LiveSpec
INVARIANTS TypeOK OnePermit StreamBound PoolSize
PROPERTIES ReturnsReady ConnectEnds
