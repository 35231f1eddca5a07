SPECIFICATION FairSpec
CONSTANTS
  o1 = o1
  None = None
  Feature = {"f"}
  Short = Short
  Theme = {"light", "dark"}
  Projection = {"mercator", "globe"}
  Default = "mercator"
  Overlay = {o1}
  Url = Url
  Data = {"a", Short, Url}
  MaxChanges = 3
  MaxFailures = 1
INVARIANTS TypeOK NeverAddsTwice NothingLeftBehind DrawnAsAsked HighlightFollowsPointer ProjectionKept
PROPERTIES ReadyAgain
CHECK_DEADLOCK FALSE
