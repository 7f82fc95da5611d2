SPECIFICATION FairSpec
CONSTANTS
  p1 = p1
  p2 = p2
  p3 = p3
  Points = {p1, p2}
  Faults = {"redis", "db", "shutdown"}
  MaxFaults = 2
  MaxVisits = 1
INVARIANTS TypeOK KeptUntilInserted StoredOnce
PROPERTIES PushedIsStored SilenceIsShown
