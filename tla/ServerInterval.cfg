SPECIFICATION Spec
CONSTANTS
  Options <- Tried
  MaxWindow = 32
  DefaultWindow = 7
  Intervals = {0, 30}
  Mins = {2}
  Windows = {7}
  Flags = {TRUE}
INVARIANTS
  NoOptionEndsTheServer
CHECK_DEADLOCK FALSE
