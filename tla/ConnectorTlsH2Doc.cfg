\* The documented meaning of build_tls_http2_only.
CONSTANTS
  None = None
  MaxIdleArg = None
  Keys = {k1}
  Conns = {c1, c2}
  Tasks = {t1, t2}
  Builders = {"tls_http2_only"}
SPECIFICATION Spec
INVARIANTS Http2Only
