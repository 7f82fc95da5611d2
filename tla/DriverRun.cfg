SPECIFICATION FairSpec
CONSTANTS
  s1 = s1
  s2 = s2
  Students = {s1}
  Runs <- MCOneChild
  MaxPending = 1
INVARIANTS TypeOK PageShowsItsOwnActions RecordedAsSaid
PROPERTIES ExcuseKept TripCloses
