\* Requests on reused connections, with peers that close or fall silent and callers that give up;
\* one connection has a read timeout, the other has none.
CONSTANTS
  None = None
  MaxIdleArg = None
  Conns = {c1, c2}
  Tasks = {t1, t2}
  Reqs = {r1, r2}
  Timed = {c1}
SPECIFICATION PolledSpec
INVARIANTS TypeOK CleanWhenReused AnswersMatch ErrorsRetire
 
