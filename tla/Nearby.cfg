SPECIFICATION Spec
CONSTANTS
  d1 = d1
  d2 = d2
  Nowhere = Nowhere
  Driver = {d1, d2}
  Place = {"here", "there"}
  Near = {"here"}
  driverTTL = 2
  MaxTime = 4
  MaxWrites = 3
  MaxRestarts = 1
INVARIANTS TypeOK NoStaleDriver NoneMissed
CHECK_DEADLOCK FALSE
