SPECIFICATION Spec
CONSTANTS
  Options <- Tried
  MaxWindow = 32
  DefaultWindow = 7
  Intervals = {0, 30}
  Mins = {0, 9}
  Windows = {5, 33}
  Flags = {TRUE, FALSE}
INVARIANTS
  ServerTypeOK
  DatabaseOutlivesItsLoops
  ReturnStopsTheBackground
  UsableConfig
PROPERTIES
  ShutdownCompletes
CHECK_DEADLOCK FALSE
