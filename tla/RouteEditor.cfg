SPECIFICATION FairSpec
CONSTANTS
  t1 = t1
  t2 = t2
  t3 = t3
  Fields = {"vehicle_id", "driver_id"}
  Values = {"x", "y"}
  StopIds = {t1, t2, t3}
  InitStops = {t1, t2}
  Details = {"d"}
  MaxWrites = 2
  MaxLosses = 1
  Impatient = FALSE
INVARIANTS TypeOK FormShowsChoice PageShowsOwnWrites
PROPERTIES SaveReplacesWhatWasSeen SaveLands
