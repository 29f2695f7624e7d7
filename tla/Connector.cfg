\* Connectors that speak what the peer negotiates, HTTP/2 and HTTP/1.1.
CONSTANTS
  None = None
  MaxIdleArg = None
  Keys = {k1}
  Conns = {c1, c2, c3}
  Tasks = {t1, t2, t3}
  Builders = {"tls_default", "tcp_http2_only", "tls_set_http1_only"}
SPECIFICATION LiveSpec
INVARIANTS TypeOK OnePermit OneH2PerKey H1InOnePlace
PROPERTIES ReturnsWorking ConnectEnds
