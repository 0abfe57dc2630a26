SPECIFICATION Spec
CONSTANTS
  a = a
  b = b
  Clients = {a, b}
  MaxCaptured = 4
  MaxInTransit = 2
  Hello = Hello
  Nothing = Nothing
INVARIANTS NobodyConnectedIsShown StatusShowsConnection FrameGoesToItsRun
PROPERTIES LatestVisionIsNewest
CHECK_DEADLOCK FALSE
