SPECIFICATION Spec
CONSTANTS
  NoObj = NoObj
  NoKey = NoKey
  NoResp = NoResp
  Keys = {k1, k2, k3, k4}
  Threads = {t1}
  Slots = {1}
  Answers <- TwoNegatives
  Rows <- LoadedRows
  LoadedKeys = {k1}
  MaxEntries = 3
  TTLMin = 0
  TTLMax = 2
  MaxAge = 0
  StaleServing = TRUE
  DefaultTTL = 2
  StaleMaxAge = 0
  EvictAfter = 0
  SampleSize = 2
  DayLen = 9
  ZoneChange = 0
  ZoneBefore = 0
  ZoneAfter = 0
  StartTime = 1
  MaxTime = 2
  HitCap = 1
  Snapshots = TRUE
  MaskBits = 2
SYMMETRY Symmetry
INVARIANTS
  TypeOK
  SizeBound
  KeptForItsTTLOrTheDefault
PROPERTIES
  EvictionSparesTheRecent
