\* The documented result of send_request, when an earlier call was cancelled.
CONSTANTS
  None = None
  MaxIdleArg = None
  Conns = {c1}
  Tasks = {t1}
  Reqs = {r1, r2}
  Timed = {}
SPECIFICATION Spec
INVARIANTS AnswersOwnRequest
