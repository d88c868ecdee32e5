SPECIFICATION Spec
CONSTANTS
  Clients = {c1, c2}
  NoMinute = NoMinute
  WindowMinutes = 2
  MaxMinute = 4
  MaxQueries = 3
SYMMETRY ClientSymmetry
INVARIANTS
  StatisticsTypeOK
  OutcomesWithinQueries
  WindowIsRecent
