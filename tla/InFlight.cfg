SPECIFICATION Spec
CONSTANTS
  NEntries = 1
  Conn = {c1, c2}
  MaxConnections = 1
  MaxEdits = 0
PROPERTIES InFlightIsLive
CHECK_DEADLOCK FALSE
