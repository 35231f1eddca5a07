SPECIFICATION FairSpec
CONSTANTS
  c1 = c1
  None = None
  Malformed = Malformed
  Dollar = Dollar
  Conn = {c1}
  ReadCount = 2
  StreamMaxLen = 2
  MaxEvents = 4
  MaxFaults = 0
PROPERTY HandlerExits
CHECK_DEADLOCK FALSE
