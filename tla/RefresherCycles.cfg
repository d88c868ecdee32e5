SPECIFICATION RefresherSpec
CONSTANTS
  NoObj = NoObj
  NoKey = NoKey
  NoResp = NoResp
  Keys = {k1}
  Clients = {c1}
  Workers = {w1, w2}
  Threads <- ClientsAndWorkers
  Slots = {1, 2, 3, 4}
  Answers <- GoodOrRefused
  Rows <- UsualRows
  LoadedKeys = {k1}
  MaxEntries = 1
  TTLMin = 0
  TTLMax = 1
  MaxAge = 1
  StaleServing = FALSE
  DefaultTTL = 2
  StaleMaxAge = 1
  EvictAfter = 1
  SampleSize = 2
  DayLen = 4
  ZoneChange = 0
  ZoneBefore = 0
  ZoneAfter = 0
  StartTime = 8
  MaxTime = 10
  HitCap = 1
  Snapshots = FALSE
  MaskBits = 2
  Interval = 1
  KeepMinDays = 1
  KeepWindowDays = 1
  MaxPerCycle = 2
  BackoffMax = 1
  BackoffShift = 2
  MaxRTT = 1
  MaxDue = 1
INVARIANTS
  RefresherTypeOK
  OneRefreshPerName
PROPERTIES
  BacksOff
  StopEndsTheLoop
