SPECIFICATION FairSpec
CONSTANTS
  d1 = d1
  d2 = d2
  e1 = e1
  p1 = p1
  p2 = p2
  None = None
  Driver = {d1, d2}
  EventId = {e1}
  Requests <- SomeRequests
  Time = {0}
  Partition = {p1, p2}
  Hash <- KeyHash
  writerAttempts = 2
  MaxTries = 2
  MaxBoots = 1
INVARIANTS TypeOK DriverOrder RetryIsOneRow
PROPERTIES Promises Delivered Stops
CHECK_DEADLOCK FALSE
