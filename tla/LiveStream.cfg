SPECIFICATION FairSpec
CONSTANTS
  c1 = c1
  None = None
  Malformed = Malformed
  Dollar = Dollar
  Conn = {c1}
  ReadCount = 2
  StreamMaxLen = 2
  MaxEvents = 5
  MaxFaults = 2
INVARIANTS TypeOK InOrder NoGap
PROPERTIES EveryEventArrives NextEventFreesHandler
CHECK_DEADLOCK FALSE
