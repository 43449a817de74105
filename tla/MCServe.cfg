SPECIFICATION Spec
CONSTANTS
  NEntries = 2
  Conn = {c1, c2}
  MaxConnections = 1
  MaxEdits = 1
INVARIANTS TypeOK PermitsBalance DrainedOnReturn NoReloadLost
PROPERTIES ShutdownCompletes
CHECK_DEADLOCK FALSE
