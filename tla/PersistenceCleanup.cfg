SPECIFICATION PromptSpec
CONSTANTS
  NoObj = NoObj
  NoKey = NoKey
  NoResp = NoResp
  NoRow = NoRow
  Keys = {k1}
  Threads = {t1}
  Slots = {1, 2}
  Answers <- OnlyPositive
  Rows <- LoadedRows
  LoadedKeys = {}
  MaxEntries = 1
  TTLMin = 0
  TTLMax = 2
  MaxAge = 0
  StaleServing = FALSE
  DefaultTTL = 2
  StaleMaxAge = 2
  EvictAfter = 1
  SampleSize = 2
  DayLen = 1
  ZoneChange = 0
  ZoneBefore = 0
  ZoneAfter = 0
  StartTime = 3
  MaxTime = 6
  HitCap = 1
  Snapshots = FALSE
  MaskBits = 2
  Sec = 2
  KeepMinDays = 1
  KeepWindowDays = 2
  CleanupAfter = 1
  Unreadable <- Foreign
  InitialRows <- Empty
PROPERTIES
  CleanupKeepsTheHistory
