SPECIFICATION Spec
CONSTANTS
  d1 = d1
  d2 = d2
  e1 = e1
  e2 = e2
  Driver = {d1}
  EventId = {e1, e2}
  Time <- Stamps
  Inputs <- GoodMessages
  maxRetries = 2
  MaxLog = 2
  MaxInterruptions = 0
PROPERTY LatestNeverRegresses
CHECK_DEADLOCK FALSE
