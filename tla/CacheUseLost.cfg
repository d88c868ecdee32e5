SPECIFICATION Spec
CONSTANTS
  NoObj = NoObj
  NoKey = NoKey
  NoResp = NoResp
  Keys = {k1}
  Threads = {t1, t2}
  Slots = {1, 2, 3, 4}
  Answers <- OnlyPositive
  Rows <- LoadedRows
  LoadedKeys = {}
  MaxEntries = 1
  TTLMin = 0
  TTLMax = 1
  MaxAge = 1
  StaleServing = TRUE
  DefaultTTL = 2
  StaleMaxAge = 1
  EvictAfter = 1
  SampleSize = 2
  DayLen = 2
  ZoneChange = 0
  ZoneBefore = 0
  ZoneAfter = 0
  StartTime = 1
  MaxTime = 3
  HitCap = 2
  Snapshots = FALSE
  MaskBits = 2
SYMMETRY Symmetry
PROPERTIES
  UseSurvivesReplacement
