SPECIFICATION Spec
CONSTANTS
  t1 = t1
  t2 = t2
  t3 = t3
  t4 = t4
  r1 = r1
  r2 = r2
  l1 = l1
  None = None
  Tokens = {t1, t2, t3, t4}
  Links = {l1}
  Requests = {r1, r2}
  Crashable = {r1}
  MaxRevocations = 1
SYMMETRY MCSymmetry
INVARIANTS TypeOK PredecessorRevoked OnlyOvertakenSurvive ForkNeedsSharedExchange
