SPECIFICATION Spec
CONSTANTS
  near = near
  far = far
  turned = turned
  p = p
  q = q
  light = light
  dark = dark
  None = None
  Hand = Hand
  View = {near, far, turned}
  zoomIn <- In
  zoomOut <- Out
  north <- North
  located = near
  geolocation = TRUE
  Place = {p, q}
  Theme = {light, dark}
  MaxInputs = 3
INVARIANTS TypeOK PageAndMapAgree NothingOrphaned ThemeDetected
SYMMETRY Alike
CHECK_DEADLOCK FALSE
