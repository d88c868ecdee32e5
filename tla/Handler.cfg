SPECIFICATION HandlerSpec
CONSTANTS
  NoObj = NoObj
  NoKey = NoKey
  NoResp = NoResp
  Failure = Failure
  Keys = {k1}
  Clients = {c1, c2}
  Threads <- ClientsAndKeys
  Slots = {1, 2, 3}
  Answers <- GoodOrBad
  Rows <- LoadedRows
  LoadedKeys = {k1}
  MaxEntries = 1
  TTLMin = 0
  TTLMax = 0
  MaxAge = 1
  StaleServing = TRUE
  DefaultTTL = 2
  StaleMaxAge = 1
  EvictAfter = 1
  SampleSize = 2
  DayLen = 9
  ZoneChange = 0
  ZoneBefore = 0
  ZoneAfter = 0
  StartTime = 1
  MaxTime = 2
  HitCap = 1
  Snapshots = FALSE
  MaskBits = 2
INVARIANTS
  HandlerTypeOK
  DeliveredIsCached
PROPERTIES
  ImplementsDnsService
  EveryQueryReturns
