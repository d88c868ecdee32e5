SPECIFICATION RefresherSpec
CONSTANTS
  NoObj = NoObj
  NoKey = NoKey
  NoResp = NoResp
  Keys = {k1}
  Clients = {c1}
  Workers = {w1, w2}
  Threads <- ClientsAndWorkers
  Slots = {1, 2, 3, 4}
  Answers <- GoodOrTruncated
  Rows <- UsualRows
  LoadedKeys = {k1}
  MaxEntries = 1
  TTLMin = 0
  TTLMax = 4
  MaxAge = 2
  StaleServing = TRUE
  DefaultTTL = 2
  StaleMaxAge = 1
  EvictAfter = 1
  SampleSize = 2
  DayLen = 4
  ZoneChange = 0
  ZoneBefore = 0
  ZoneAfter = 0
  StartTime = 8
  MaxTime = 15
  HitCap = 1
  Snapshots = FALSE
  MaskBits = 4
  Interval = 2
  KeepMinDays = 2
  KeepWindowDays = 3
  MaxPerCycle = 2
  BackoffMax = 6
  BackoffShift = 2
  MaxRTT = 1
  MaxDue = 1
INVARIANTS
  NoTruncatedAnswerCached
