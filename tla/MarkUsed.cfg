SPECIFICATION Spec
CONSTANTS
  Threads = {t1, t2, t3}
  Days = {4, 5, 7, 9}
  NoDay = NoDay
  MaskBits = 4
INVARIANTS
  TypeOK
  DaysUsedCountsTheWindow
PROPERTIES
  ImplementsUsageLog
  EveryCallReturns
