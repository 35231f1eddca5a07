SPECIFICATION FairSpec
CONSTANTS
  a = a
  b = b
  Blank = Blank
  Idle = Idle
  Query = {a, b}
  Address = {b, Blank}
  Option = {1, 2}
  MaxKeys = 4
INVARIANTS TypeOK QuietIsCurrent OneVerdict
PROPERTIES LateAnswersDiscarded ComesToRest
CHECK_DEADLOCK FALSE
