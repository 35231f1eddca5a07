SPECIFICATION FairSpec
CONSTANTS
  d1 = d1
  d2 = d2
  e1 = e1
  e2 = e2
  Driver = {d1, d2}
  EventId = {e1, e2}
  Time <- Stamps
  Inputs <- SomeMessages
  maxRetries = 2
  MaxLog = 2
  MaxInterruptions = 1
INVARIANTS TypeOK SourceOfTruth Accounted MetricsBalance OneOutcome
PROPERTIES Drained Delivers
CHECK_DEADLOCK FALSE
