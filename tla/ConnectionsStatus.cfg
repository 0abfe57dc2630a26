SPECIFICATION Spec
CONSTANTS
  a = a
  b = b
  Clients = {a, b}
  MaxCaptured = 3
  MaxInTransit = 2
  Hello = Hello
  Nothing = Nothing
INVARIANTS StatusIsTheConnection
CHECK_DEADLOCK FALSE
