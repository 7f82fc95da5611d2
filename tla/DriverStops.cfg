SPECIFICATION Spec
CONSTANTS
  s1 = s1
  s2 = s2
  Students = {s1, s2}
  Runs <- MCTwoChildren
  MaxPending = 1
INVARIANT NextStopComesUp
