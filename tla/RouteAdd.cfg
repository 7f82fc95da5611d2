SPECIFICATION Spec
CONSTANTS
  t1 = t1
  t2 = t2
  t3 = t3
  Fields = {"vehicle_id", "driver_id"}
  Values = {"x", "y"}
  StopIds = {t1, t2, t3}
  InitStops = {t1, t2}
  Details = {"d"}
  MaxWrites = 2
  MaxLosses = 0
  Impatient = FALSE
INVARIANTS AddFindsAPlace
