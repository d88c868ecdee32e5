------------------------- MODULE PersistenceProofs -------------------------
(***************************************************************************)
(* Theorems about module Persistence, for every value of its constants.    *)
(***************************************************************************)
EXTENDS Persistence, CacheProofs

(* While the process is down it holds nothing.                             *)
DownOK ==
  loop.pc = "down" =>
    /\ ~serving /\ pins = {} /\ Present = {}
    /\ \A t \in Threads : frame[t] = Idle

(* Nobody calls the cache before the process serves.                       *)
NotYetServing == ~serving => \A t \in Threads : At(t, "idle")

(* Between the arguments of an INSERT the entry is still to be saved.      *)
RowOK == loop.pc = "row" => loop.row \in Row /\ loop.key \in loop.todo

PersistenceInv == PersistenceTypeOK /\ DownOK /\ NotYetServing /\ RowOK

----------------------------------------------------------------------------
LEMMA UnixType ==
  ASSUME NEW t \in Nat
  PROVE  Unix(t) \in Nat
BY PersistenceAssumption DEF Unix

LEMMA OriginalTTLType ==
  ASSUME NEW m \in Answers
  PROVE  OriginalTTL(m) \in Nat /\ OriginalTTL(m) # 0
<1>1. m \in Answer
  BY CacheAssumption
<1> QED
  BY <1>1, CacheAssumption DEF OriginalTTL, Answer, Smaller

LEMMA EntryOfRowType ==
  ASSUME NEW k \in Keys, NEW r \in Row
  PROVE  EntryOfRow(k, r) \in Entry /\ EntryOfRow(k, r).key = k
<1> DEFINE lastHit == IF r.lastHit = 0 THEN r.storedAt * Sec ELSE r.lastHit
           ttl == IF r.ttl = 0 THEN OriginalTTL(r.msg) ELSE r.ttl * Sec
           used == IF r.used = NoUse THEN PackUsedDays(DayOf(lastHit)) ELSE r.used
<1>1. /\ r.msg \in Answers /\ r.at \in Nat /\ r.storedAt \in Nat /\ r.ttl \in Nat
      /\ r.hits \in Nat /\ r.lastHit \in Nat /\ r.used \in UsedDays /\ Sec \in Nat
  BY PersistenceAssumption DEF Row
<1>2. lastHit \in Nat /\ r.storedAt * Sec \in Nat
  BY <1>1
<1>3. ttl \in Nat
  BY <1>1, OriginalTTLType
<1> HIDE DEF lastHit
<1>4. used \in UsedDays
  <2>1. DayOf(lastHit) \in Nat
    BY <1>2, DayType
  <2>2. PackUsedDays(DayOf(lastHit)) \in UsedDays
    BY <2>1, MaskBitsAssumption DEF PackUsedDays, UsedDays
  <2> QED
    BY <1>1, <2>2
<1> HIDE DEF ttl, used
<1>5. EntryOfRow(k, r) =
        [key |-> k, resp |-> [msg |-> r.msg, at |-> r.at], storedAt |-> r.storedAt * Sec,
         ttl |-> ttl, hits |-> r.hits, lastHit |-> lastHit, used |-> used]
  BY DEF EntryOfRow, ttl, used, lastHit
<1> QED
  BY <1>1, <1>2, <1>3, <1>4, <1>5 DEF Entry, Response

(* The row of an entry.                                                    *)
RowOf(e) == [msg |-> e.resp.msg, at |-> e.resp.at, storedAt |-> Unix(e.storedAt),
             ttl |-> Unix(e.ttl), hits |-> e.hits, lastHit |-> e.lastHit,
             used |-> e.used]

LEMMA RowOfType ==
  ASSUME NEW e \in Entry
  PROVE  RowOf(e) \in Row
<1>1. Unix(e.storedAt) \in Nat /\ Unix(e.ttl) \in Nat
  BY UnixType DEF Entry
<1> QED
  BY <1>1 DEF RowOf, Row, Entry, Response

LEMMA LoopAtType ==
  ASSUME NEW pc \in {"down", "boot", "wait", "lock", "scan", "save", "row"}
  PROVE  LoopAt(pc) \in LoopState /\ LoopAt(pc).pc = pc /\ LoopAt(pc).todo = {}
BY DEF LoopAt, LoopState, NoRows

(* The entry of a key of the batch.                                        *)
LEMMA BatchedType ==
  ASSUME TypeOK, NEW k \in {o[1] : o \in pins}
  PROVE  Batched(k) \in Entry
<1> DEFINE o == CHOOSE x \in pins : x[1] = k
<1>1. o \in pins
  OBVIOUS
<1>2. NoObj \notin pins
  BY CacheAssumption DEF TypeOK, MapOK
<1>3. o \in Live
  BY <1>1, <1>2 DEF Live
<1> QED
  BY <1>3 DEF Batched, TypeOK, HeapOK

----------------------------------------------------------------------------
(* The steps of the store.                                                 *)
LEMMA ScanRepins ==
  ASSUME PersistenceTypeOK, NEW k \in Keys, ScanEntry(k)
  PROVE  Repin
<1> USE DEF PersistenceTypeOK
<1>1. k \in Present
  BY DEF ScanEntry
<1>2. pins' \subseteq pins \cup {entries[k]}
  BY DEF ScanEntry
<1>3. UNCHANGED <<clock, serving, entries, heap, frame>>
  BY DEF ScanEntry
<1>4. Live' = Live
  <2>1. pins \subseteq pins' /\ entries[k] \in {entries[j] : j \in Keys}
    BY <1>1 DEF ScanEntry, Present
  <2> QED
    BY <1>2, <1>3, <2>1 DEF Live
<1>5. Collect(heap)
  BY <1>3, <1>4 DEF TypeOK, HeapOK, Collect
<1> QED
  BY <1>1, <1>2, <1>3, <1>5 DEF Repin

LEMMA EndRoundRepins ==
  ASSUME EndRound
  PROVE  Repin /\ loop' = LoopAt("wait") /\ pins' = {}
BY DEF EndRound, Repin

LEMMA ClientIsACaller ==
  ASSUME NEW t \in Threads, ClientStep(t)
  PROVE  CallerStep
<1>1. \A m \in Answers : [msg |-> m, at |-> 0] \in Response
  BY DEF Response
<1> QED
  BY <1>1 DEF ClientStep, AnyCall, CallerStep

LEMMA LoopIsACaller ==
  ASSUME PersistenceTypeOK, LoopStep \/ SaveFails
  PROVE  UNCHANGED vars \/ Repin
<1>1. CASE Commit \/ SaveFails
  BY <1>1, EndRoundRepins DEF Commit, SaveFails
<1>2. CASE LoopStart \/ RoundStart \/ ScanBegin \/ ScanEnd \/ WriteRow
  BY <1>2 DEF LoopStart, RoundStart, ScanBegin, ScanEnd, WriteRow
<1>3. ASSUME NEW k \in Keys, ScanEntry(k) \/ ReadRow(k) PROVE UNCHANGED vars \/ Repin
  BY <1>3, ScanRepins DEF ReadRow
<1> QED
  BY <1>1, <1>2, <1>3 DEF LoopStep

LEMMA StoreSteps ==
  ASSUME PersistenceTypeOK, [PersistenceNext]_pvars
  PROVE  [CallerStep]_vars \/ LoadAll \/ LoadFailed \/ Crash
<1>1. ASSUME NEW t \in Threads, ClientStep(t) PROVE CallerStep
  BY <1>1, ClientIsACaller
<1>2. ASSUME NEW k \in Keys, Remove(k) PROVE CallerStep
  BY <1>2 DEF Remove, CallerStep
<1>3. CASE LoopStep \/ SaveFails
  BY <1>3, LoopIsACaller DEF CallerStep
<1>4. CASE Cleanup \/ Flush
  BY <1>4 DEF Cleanup, Flush, Wipe
<1>5. CASE Tick \/ Serve
  BY <1>5 DEF Serve, CallerStep
<1>6. CASE UNCHANGED pvars
  BY <1>6 DEF pvars
<1> QED
  BY <1>1, <1>2, <1>3, <1>4, <1>5, <1>6 DEF PersistenceNext

(* The store the process starts with.                                      *)
LEMMA BootStore ==
  ASSUME PersistenceTypeOK, DownOK, NEW keys \in SUBSET Loaded, Boot(keys)
  PROVE  /\ TypeOK'
         /\ \A k \in keys : /\ entries'[k] # NoObj /\ entries'[k] \in {k} \X Slots
                            /\ heap'[entries'[k]] = EntryOfRow(k, table[k])
         /\ Present' = keys
         /\ heap' = [o \in Live' |-> EntryOfRow(o[1], table[o[1]])]
         /\ \A o \in Live' : o \in keys \X Slots
<1> USE DEF PersistenceTypeOK
<1>1. /\ UNCHANGED <<clock, serving, frame, pins, table, lastSave, wiped>>
      /\ entries' = [k \in Keys |-> IF k \in keys THEN NewObj(k) ELSE NoObj]
      /\ heap' = [o \in Live' |-> EntryOfRow(o[1], table[o[1]])]
      /\ keys \subseteq Keys
  BY DEF Boot, Loaded
<1>2. pins = {} /\ \A t \in Threads : frame[t].obj = NoObj
  BY DEF Boot, DownOK, Idle
<1>3. \A k \in Keys : FreeSlots(k) = Slots
  <2> SUFFICES ASSUME NEW k \in Keys, NEW i \in Slots PROVE i \in FreeSlots(k)
    BY DEF FreeSlots
  <2>1. <<k, i>> # NoObj
    BY CacheAssumption DEF Objs
  <2> QED
    BY <1>2, <2>1 DEF FreeSlots
<1>4. \A k \in Keys : NewObj(k) \in {k} \X Slots /\ NewObj(k) \in Objs /\ NewObj(k) # NoObj
  <2> SUFFICES ASSUME NEW k \in Keys PROVE NewObj(k) \in {k} \X Slots
    BY CacheAssumption DEF Objs
  <2> DEFINE i == CHOOSE j \in FreeSlots(k) : TRUE
  <2>1. i \in Slots
    BY <1>3, PersistenceAssumption
  <2>2. NewObj(k) = <<k, i>>
    BY DEF NewObj
  <2> HIDE DEF i
  <2> QED
    BY <2>1, <2>2
<1>5. \A k \in keys : entries'[k] = NewObj(k) /\ entries'[k] # NoObj
  BY <1>1, <1>4
<1>6. Present' = keys
  BY <1>1, <1>4 DEF Present
<1>7. Live' = {NewObj(k) : k \in keys}
  BY <1>1, <1>2, <1>4 DEF Live
<1>8. \A o \in Live' : o \in keys \X Slots /\ o[1] \in keys
  <2> SUFFICES ASSUME NEW o \in Live' PROVE o \in keys \X Slots
    OBVIOUS
  <2>1. PICK k \in keys : o = NewObj(k)
    BY <1>7
  <2>2. o \in {k} \X Slots
    BY <1>1, <1>4, <2>1
  <2> QED
    BY <2>2
<1>9. \A k \in keys : table[k] \in Row
  BY <1>1 DEF Loaded, Readable
<1>10. heap' \in [Live' -> Entry]
  BY <1>1, <1>8, <1>9, EntryOfRowType
<1>11. \A k \in keys : heap'[NewObj(k)] = EntryOfRow(k, table[k])
  BY <1>1, <1>4, <1>7
<1>12. MapOK'
  BY <1>1, <1>4 DEF TypeOK, MapOK
<1>13. FramesOK' /\ LockOK'
  <2>1. \A t \in Threads : frame'[t].pc = "idle"
    BY <1>1 DEF Boot, DownOK, Idle
  <2> QED
    BY <1>1, <2>1 DEF TypeOK, FramesOK, FrameOK, LockOK, Copying
<1>14. TypeOK'
  BY <1>10, <1>12, <1>13 DEF TypeOK, HeapOK
<1> QED
  BY <1>1, <1>4, <1>5, <1>6, <1>8, <1>11, <1>14

LEMMA CrashStore ==
  ASSUME PersistenceTypeOK, Crash
  PROVE  /\ TypeOK' /\ Present' = {} /\ ~serving' /\ pins' = {}
         /\ \A t \in Threads : frame'[t] = Idle
<1>1. /\ clock' = clock /\ serving' = FALSE /\ entries' = [k \in Keys |-> NoObj]
      /\ heap' = [o \in {} |-> NoResp] /\ frame' = [t \in Threads |-> Idle] /\ pins' = {}
  BY DEF Crash
<1>2. MapOK'
  BY <1>1 DEF PersistenceTypeOK, TypeOK, MapOK
<1>3. FramesOK' /\ LockOK'
  BY <1>1, IdleOK DEF FramesOK, FrameOK, LockOK, Copying, Idle
<1>4. Live' = {}
  BY <1>1 DEF Live, Idle
<1>5. HeapOK'
  BY <1>1, <1>4 DEF HeapOK
<1> QED
  BY <1>1, <1>2, <1>3, <1>5 DEF TypeOK, Present

LEMMA StoreTypes ==
  ASSUME PersistenceInv, [PersistenceNext]_pvars
  PROVE  TypeOK'
<1>1. Loaded \in SUBSET Loaded /\ {} \in SUBSET Loaded
  OBVIOUS
<1> QED
  BY <1>1, StoreSteps, CallerType, BootStore, CrashStore
     DEF PersistenceInv, PersistenceTypeOK, LoadAll, LoadFailed

----------------------------------------------------------------------------
(* While the lock is held for the scan, the map stays as it is.            *)
LEMMA LockedMap ==
  ASSUME NEW t \in Threads, ClientStep(t), Locked
  PROVE  UNCHANGED entries
<1>1. ~SetPublish(t)
  BY DEF ClientStep, SetPublish, InSet, At
<1>2. AnyCall(t) => UNCHANGED entries
  BY DEF AnyCall, GetLookup, StaleLookup, SetNow
<1> QED
  BY <1>1, <1>2 DEF ClientStep, CallStep, GetNow, GetTouch, GetMark, GetServe, StaleServe,
                    StaleNow, StaleTouch, SetLock, SetCopy, Release

LEMMA ClientPins ==
  ASSUME NEW t \in Threads, ClientStep(t)
  PROVE  UNCHANGED <<clock, serving, pins>> /\ UNCHANGED persistVars
BY DEF ClientStep, AnyCall, CallStep, GetLookup, StaleLookup, SetNow, SetLock, SetCopy,
       SetPublish, GetNow, GetTouch, GetMark, GetServe, StaleServe, StaleNow, StaleTouch,
       Release

(* Who is idle before the process serves, stays idle.                      *)
LEMMA ClientServes ==
  ASSUME NotYetServing, NEW t \in Threads, ClientStep(t)
  PROVE  serving
BY DEF NotYetServing, ClientStep, AnyCall, CallStep, GetLookup, StaleLookup, SetNow,
       SetLock, SetCopy, SetPublish, GetNow, GetTouch, GetMark, GetServe, StaleServe,
       StaleNow, StaleTouch, Release, At

(* Steps that leave the loop and the table alone.                          *)
LEMMA SameLoop ==
  ASSUME PersistenceInv, TypeOK', UNCHANGED persistVars,
         UNCHANGED pins, loop.pc = "scan" => UNCHANGED entries,
         (serving' /\ loop.pc # "down") \/ UNCHANGED <<serving, entries, frame>>
  PROVE  PersistenceInv'
<1>1. UNCHANGED <<table, lastSave, loop, wiped>>
  BY DEF persistVars
<1>2. PersistenceTypeOK'
  BY <1>1 DEF PersistenceInv, PersistenceTypeOK, Present
<1> QED
  BY <1>1, <1>2 DEF PersistenceInv, DownOK, NotYetServing, RowOK, At, Present

LEMMA ClientKeeps ==
  ASSUME PersistenceInv, TypeOK', NEW t \in Threads, ClientStep(t)
  PROVE  PersistenceInv'
<1>1. UNCHANGED <<serving, pins>> /\ UNCHANGED persistVars
  BY ClientPins
<1>2. serving
  BY ClientServes DEF PersistenceInv
<1>3. loop.pc # "down"
  BY <1>2 DEF PersistenceInv, DownOK
<1>4. loop.pc = "scan" => UNCHANGED entries
  BY LockedMap DEF Locked
<1> QED
  BY <1>1, <1>2, <1>3, <1>4, SameLoop

LEMMA OthersKeep ==
  ASSUME PersistenceInv, TypeOK',
         \/ Tick /\ UNCHANGED persistVars
         \/ Serve
         \/ \E k \in Keys : Remove(k)
         \/ UNCHANGED pvars
  PROVE  PersistenceInv'
<1>1. CASE (Tick /\ UNCHANGED persistVars) \/ UNCHANGED pvars
  BY <1>1, SameLoop DEF Tick, storeVars, pvars, vars
<1>2. CASE Serve
  BY <1>2, SameLoop DEF Serve, StartServing
<1>3. ASSUME NEW k \in Keys, Remove(k) PROVE PersistenceInv'
  <2>1. /\ serving /\ loop.pc # "scan" /\ UNCHANGED <<serving, pins>>
        /\ UNCHANGED persistVars
    BY <1>3 DEF Remove, Locked, Delete
  <2>2. loop.pc # "down"
    BY <2>1 DEF PersistenceInv, DownOK
  <2> QED
    BY <2>1, <2>2, SameLoop
<1> QED
  BY <1>1, <1>2, <1>3

(* The loop.                                                               *)
LEMMA LoopKeeps ==
  ASSUME PersistenceInv, TypeOK', LoopStep \/ SaveFails
  PROVE  PersistenceInv'
<1> USE DEF PersistenceInv
<1>1. UNCHANGED <<serving, entries, frame>>
  BY LoopIsACaller DEF vars, Repin
<1>2. loop.pc # "down" /\ loop'.pc # "down" =>
        DownOK' /\ (NotYetServing' <=> NotYetServing)
  BY <1>1 DEF DownOK, NotYetServing, At
<1>3. Present' = Present /\ clock \in Nat
  BY <1>1 DEF Present, PersistenceTypeOK, TypeOK, MapOK
<1>4. CASE LoopStart \/ RoundStart \/ ScanBegin
  <2>1. loop.pc \in {"boot", "wait", "lock"} /\ UNCHANGED <<pins, table>>
    BY <1>4 DEF LoopStart, RoundStart, ScanBegin, vars
  <2>2. pins' = {}
    BY <2>1 DEF PersistenceTypeOK
  <2>3. /\ loop' \in LoopState /\ loop'.pc \in {"wait", "lock", "scan"}
        /\ loop'.pc = "scan" => loop'.todo \subseteq Present
    <3>1. CASE LoopStart
      BY <3>1, LoopAtType DEF LoopStart
    <3>2. CASE RoundStart
      <4> DEFINE l == LoopAt("lock")
      <4>1. loop' = [l EXCEPT !.start = clock] /\ l \in LoopState /\ l.pc = "lock"
        BY <3>2, LoopAtType DEF RoundStart
      <4> HIDE DEF l
      <4> QED
        BY <1>3, <4>1 DEF LoopState
    <3>3. CASE ScanBegin
      <4>1. loop' = [loop EXCEPT !.pc = "scan", !.todo = Present] /\ Present \in SUBSET Keys
        BY <3>3 DEF ScanBegin, Present
      <4> QED
        BY <4>1 DEF PersistenceTypeOK, LoopState
    <3> QED
      BY <1>4, <3>1, <3>2, <3>3
  <2>4. lastSave' \in Nat
    BY <1>3, <1>4 DEF LoopStart, RoundStart, ScanBegin, PersistenceTypeOK
  <2>5. PersistenceTypeOK'
    BY <1>3, <2>1, <2>2, <2>3, <2>4 DEF PersistenceTypeOK
  <2> QED
    BY <1>2, <2>1, <2>3, <2>5 DEF RowOK
<1>5. ASSUME NEW k \in Keys, ScanEntry(k)
      PROVE  PersistenceInv'
  <2>1. /\ loop.pc = "scan" /\ loop' = [loop EXCEPT !.todo = @ \ {k}]
        /\ UNCHANGED <<table, lastSave>>
    BY <1>5 DEF ScanEntry
  <2>2. loop' \in LoopState /\ loop'.pc = "scan" /\ loop'.todo \subseteq loop.todo
    BY <2>1 DEF PersistenceTypeOK, LoopState
  <2>3. PersistenceTypeOK'
    BY <1>3, <2>1, <2>2 DEF PersistenceTypeOK
  <2> QED
    BY <1>2, <2>1, <2>2, <2>3 DEF RowOK
<1>6. CASE ScanEnd
  <2>1. /\ loop.pc = "scan" /\ UNCHANGED <<table, lastSave, pins>>
        /\ loop' = [loop EXCEPT !.pc = "save", !.todo = {o[1] : o \in pins}]
    BY <1>6 DEF ScanEnd, vars
  <2>2. {o[1] : o \in pins} \in SUBSET Keys
    BY DEF PersistenceTypeOK, TypeOK, MapOK, Objs
  <2>3. loop' \in LoopState /\ loop'.pc = "save" /\ loop'.todo = {o[1] : o \in pins'}
    BY <2>1, <2>2 DEF PersistenceTypeOK, LoopState
  <2>4. PersistenceTypeOK'
    BY <2>1, <2>3 DEF PersistenceTypeOK
  <2> QED
    BY <1>2, <2>1, <2>3, <2>4 DEF RowOK
<1>7. ASSUME NEW k \in Keys, ReadRow(k)
      PROVE  PersistenceInv'
  <2> DEFINE e == Batched(k)
             row == [msg |-> e.resp.msg, at |-> e.resp.at,
                     storedAt |-> Unix(e.storedAt), ttl |-> Unix(e.ttl),
                     hits |-> e.hits, lastHit |-> e.lastHit, used |-> NoUse]
  <2>1. /\ loop.pc = "save" /\ k \in loop.todo /\ UNCHANGED <<table, lastSave, pins>>
        /\ loop' = [loop EXCEPT !.pc = "row", !.key = k, !.row = row]
    BY <1>7 DEF ReadRow, vars
  <2>2. e \in Entry
    BY <2>1, BatchedType DEF PersistenceTypeOK
  <2>3. NoUse \in UsedDays /\ Unix(e.storedAt) \in Nat /\ Unix(e.ttl) \in Nat
    BY <2>2, UnixType DEF NoUse, UsedDays, Entry
  <2>4. row \in Row
    BY <2>2, <2>3 DEF Row, Entry, Response
  <2> HIDE DEF row
  <2>5. /\ loop' \in LoopState /\ loop'.pc = "row" /\ loop'.todo = loop.todo
        /\ loop'.row = row /\ loop'.key = k
    BY <2>1, <2>4 DEF PersistenceTypeOK, LoopState
  <2>6. PersistenceTypeOK'
    BY <2>1, <2>5 DEF PersistenceTypeOK
  <2> QED
    BY <1>2, <2>1, <2>4, <2>5, <2>6 DEF RowOK
<1>8. CASE WriteRow
  <2> DEFINE k == loop.key
             row == [loop.row EXCEPT !.used = Batched(k).used]
             tx == [loop.tx EXCEPT ![k] = row]
  <2>1. loop.pc = "row" /\ UNCHANGED <<table, lastSave, pins>>
    BY <1>8 DEF WriteRow, vars
  <2>2. loop.row \in Row /\ k \in loop.todo /\ k \in Keys
    BY <2>1 DEF RowOK, PersistenceTypeOK, LoopState
  <2>3. Batched(k) \in Entry
    BY <2>1, <2>2, BatchedType DEF PersistenceTypeOK
  <2>4. row \in Row
    BY <2>2, <2>3 DEF Row, Entry
  <2>5. loop' = [loop EXCEPT !.pc = "save", !.todo = @ \ {k}, !.key = NoKey, !.row = NoRow,
                             !.tx = tx]
    BY <1>8 DEF WriteRow, PersistenceTypeOK, LoopState
  <2> HIDE DEF row
  <2>6. tx \in [Keys -> Row \cup {NoRow}]
    BY <2>2, <2>4 DEF PersistenceTypeOK, LoopState
  <2> HIDE DEF tx
  <2>7. loop' \in LoopState /\ loop'.pc = "save" /\ loop'.todo \subseteq loop.todo
    BY <2>5, <2>6 DEF PersistenceTypeOK, LoopState
  <2>8. PersistenceTypeOK'
    BY <2>1, <2>7 DEF PersistenceTypeOK
  <2> QED
    BY <1>2, <2>1, <2>7, <2>8 DEF RowOK
<1>9. CASE Commit \/ SaveFails
  <2>1. loop' = LoopAt("wait") /\ pins' = {} /\ loop.pc \in {"save", "row"}
    BY <1>9, EndRoundRepins DEF Commit, SaveFails
  <2>2. table' \in [Keys -> Row \cup {NoRow}] /\ lastSave' \in Nat
    BY <1>9 DEF Commit, SaveFails, Committed, PersistenceTypeOK, LoopState
  <2>3. PersistenceTypeOK'
    BY <2>1, <2>2, LoopAtType DEF PersistenceTypeOK
  <2> QED
    BY <1>2, <2>1, <2>3, LoopAtType DEF RowOK
<1> QED
  BY <1>4, <1>5, <1>6, <1>7, <1>8, <1>9 DEF LoopStep

LEMMA WipeKeeps ==
  ASSUME PersistenceInv, TypeOK', NEW keys, Wipe(keys)
  PROVE  PersistenceInv'
<1>1. UNCHANGED <<vars, lastSave, loop>>
  BY DEF Wipe
<1>2. table' \in [Keys -> Row \cup {NoRow}]
  BY DEF Wipe, PersistenceInv, PersistenceTypeOK
<1>3. PersistenceTypeOK'
  BY <1>1, <1>2 DEF PersistenceInv, PersistenceTypeOK, vars, Present
<1> QED
  BY <1>1, <1>3 DEF PersistenceInv, DownOK, NotYetServing, RowOK, vars, At, Present

LEMMA BootKeeps ==
  ASSUME PersistenceInv, NEW keys \in SUBSET Loaded, Boot(keys)
  PROVE  PersistenceInv'
<1>1. /\ loop' = LoopAt("boot") /\ UNCHANGED <<serving, frame, pins, table, lastSave>>
      /\ loop.pc = "down"
  BY DEF Boot
<1>2. TypeOK'
  BY BootStore DEF PersistenceInv
<1>3. pins' = {}
  BY <1>1 DEF PersistenceInv, DownOK
<1>4. PersistenceTypeOK'
  BY <1>1, <1>2, <1>3, LoopAtType DEF PersistenceInv, PersistenceTypeOK
<1> QED
  BY <1>1, <1>4, LoopAtType DEF PersistenceInv, DownOK, NotYetServing, RowOK, At

LEMMA CrashKeeps ==
  ASSUME PersistenceInv, Crash
  PROVE  PersistenceInv'
<1>1. loop' = LoopAt("down") /\ lastSave' = 0 /\ table' = table
  BY DEF Crash
<1>2. /\ TypeOK' /\ Present' = {} /\ ~serving' /\ pins' = {}
      /\ \A t \in Threads : frame'[t] = Idle
  BY CrashStore DEF PersistenceInv
<1>3. PersistenceTypeOK'
  BY <1>1, <1>2, LoopAtType DEF PersistenceInv, PersistenceTypeOK
<1> QED
  BY <1>1, <1>2, <1>3, LoopAtType
     DEF PersistenceInv, DownOK, NotYetServing, RowOK, At, Idle

LEMMA InitPersistence == PersistenceInit => PersistenceInv
<1> SUFFICES ASSUME PersistenceInit PROVE PersistenceInv
  OBVIOUS
<1>1. /\ Init /\ table \in [Keys -> Row \cup {NoRow}] /\ lastSave = 0
      /\ loop = LoopAt("down") /\ wiped = {}
  BY PersistenceAssumption DEF PersistenceInit
<1>2. /\ ~serving /\ pins = {} /\ Present = {} /\ \A t \in Threads : frame[t] = Idle
  BY <1>1 DEF Init, Present
<1>3. PersistenceTypeOK
  BY <1>1, <1>2, InitType, LoopAtType DEF PersistenceTypeOK
<1> QED
  BY <1>1, <1>2, <1>3, LoopAtType
     DEF PersistenceInv, DownOK, NotYetServing, RowOK, At, Idle

LEMMA PersistenceStep == PersistenceInv /\ [PersistenceNext]_pvars => PersistenceInv'
<1> SUFFICES ASSUME PersistenceInv, [PersistenceNext]_pvars PROVE PersistenceInv'
  OBVIOUS
<1>1. TypeOK'
  BY StoreTypes
<1>2. ASSUME NEW t \in Threads, ClientStep(t) PROVE PersistenceInv'
  BY <1>1, <1>2, ClientKeeps
<1>3. ASSUME \/ Tick /\ UNCHANGED persistVars
             \/ Serve
             \/ \E k \in Keys : Remove(k)
             \/ UNCHANGED pvars
      PROVE  PersistenceInv'
  BY <1>1, <1>3, OthersKeep
<1>4. CASE LoopStep \/ SaveFails
  BY <1>1, <1>4, LoopKeeps
<1>5. CASE Cleanup \/ Flush
  BY <1>1, <1>5, WipeKeeps DEF Cleanup, Flush
<1>6. CASE LoadAll \/ LoadFailed
  <2>1. Loaded \in SUBSET Loaded /\ {} \in SUBSET Loaded
    OBVIOUS
  <2> QED
    BY <1>6, <2>1, BootKeeps DEF LoadAll, LoadFailed
<1>7. CASE Crash
  BY <1>7, CrashKeeps
<1> QED
  BY <1>2, <1>3, <1>4, <1>5, <1>6, <1>7 DEF PersistenceNext

(* Whatever the process, its crashes and the other process do, the table   *)
(* and the locals of persistLoop have their types, and a batch is held     *)
(* only during a round.                                                    *)
THEOREM PersistenceTypeCorrect == PersistenceSpec => []PersistenceTypeOK
<1>1. PersistenceInv => PersistenceTypeOK
  BY DEF PersistenceInv
<1> QED
  BY <1>1, InitPersistence, PersistenceStep, PTL DEF PersistenceSpec

----------------------------------------------------------------------------
(* A name that is usual on the sure days of the window, of no day of use   *)
(* after that of its last use, was used within the window: were it longer  *)
(* ago, its last day would be so many calendar days back, whichever way    *)
(* the clocks have been moved since.                                       *)
LEMMA UsualIsRecent ==
  ASSUME NEW e \in Entry, NEW t \in Nat, SurelyUsual(e, t), ~Torn(e)
  PROVE  Loadable(e, t)
<1> DEFINE h == e.lastHit
           n == SureDays(e, t)
<1>1. /\ e.used \in UsedDays /\ h \in Nat /\ DayOf(t) \in Nat
      /\ DayOf(h) \in Nat /\ e.used.day \in Nat
  BY DayType DEF Entry, UsedDays
<1>2. /\ KeepMinDays \in Nat /\ KeepMinDays >= 1
      /\ KeepWindowDays \in Nat /\ KeepWindowDays >= 1
  BY PersistenceAssumption
<1>3. n \in Nat /\ n = IF ClocksBack(h, t) THEN KeepWindowDays - 1 ELSE KeepWindowDays
  BY <1>2 DEF SureDays
<1> HIDE DEF n
<1>4. DayOf(t) - e.used.day < n
  <2> DEFINE shift == IF DayOf(t) > e.used.day THEN DayOf(t) - e.used.day ELSE 0
  <2>1. DaysUsed(e.used, DayOf(t), n) # 0
    BY <1>2 DEF SurelyUsual, n
  <2>2. shift < n
    BY <1>1, <1>3, <2>1 DEF DaysUsed
  <2> QED
    BY <1>1, <1>3, <2>2
<1>5. DayOf(t) < DayOf(h) + n
  BY <1>1, <1>3, <1>4 DEF Torn
<1> DEFINE a == h + ZoneOffset(h)
           b == t + ZoneOffset(t)
<1>6. a \in Nat /\ b \in Nat /\ DayOf(h) = a \div DayLen /\ DayOf(t) = b \div DayLen
  BY <1>1, CacheAssumption DEF DayOf, ZoneOffset
<1>7. ~(a + DayLen * n <= b)
  BY <1>1, <1>3, <1>5, <1>6, DaysApart
<1>8. DayLen * n = IF ClocksBack(h, t) THEN DayLen * KeepWindowDays - DayLen
                   ELSE DayLen * KeepWindowDays
  BY <1>2, <1>3, CacheAssumption
<1>9. /\ ZoneOffset(h) \in Nat /\ ZoneOffset(t) \in Nat
      /\ ZoneOffset(h) - ZoneOffset(t) <= DayLen
  <2>1. /\ ZoneBefore \in Nat /\ ZoneAfter \in Nat /\ DayLen \in Nat
        /\ ZoneBefore - ZoneAfter <= DayLen /\ ZoneAfter - ZoneBefore <= DayLen
    BY CacheAssumption, ZoneAssumption
  <2> QED
    BY <2>1 DEF ZoneOffset
<1>10. DayLen \in Nat /\ DayLen * KeepWindowDays \in Nat
       /\ KeepWindowDays * DayLen = DayLen * KeepWindowDays
  BY <1>2, CacheAssumption
<1>11. t - h <= DayLen * KeepWindowDays
  <2>1. CASE ClocksBack(h, t)
    BY <1>1, <1>7, <1>8, <1>9, <1>10, <2>1
  <2>2. CASE ~ClocksBack(h, t)
    BY <1>1, <1>7, <1>8, <1>9, <1>10, <2>2 DEF ClocksBack
  <2> QED
    BY <2>1, <2>2
<1> QED
  BY <1>10, <1>11 DEF Loadable, KeepWindow

(* However the process ended, at whatever step of a Get, a Set or a round, *)
(* the next one takes up every name whose row can be read and says that it *)
(* was usual, with the whole of what the row says.  A torn row apart; and  *)
(* when the clocks have gone back since its last use, the days of use it   *)
(* needs must be without the first day of the window.                      *)
THEOREM WholeRowsSurvive == PersistenceSpec => WholeRowsSurviveRestart
<1> DEFINE A == \A k \in Keys :
                  LET e == EntryOfRow(k, table[k])
                  IN  (LoadAll /\ Readable(k) /\ SurelyUsual(e, clock) /\ ~Torn(e)) =>
                        entries'[k] # NoObj /\ heap'[entries'[k]] = e
<1>1. PersistenceInv /\ [PersistenceNext]_pvars => [A]_pvars
  <2> SUFFICES ASSUME PersistenceInv, NEW k \in Keys, LoadAll, Readable(k),
                      SurelyUsual(EntryOfRow(k, table[k]), clock),
                      ~Torn(EntryOfRow(k, table[k]))
               PROVE  /\ entries'[k] # NoObj
                      /\ heap'[entries'[k]] = EntryOfRow(k, table[k])
    OBVIOUS
  <2>1. table[k] \in Row /\ clock \in Nat
    BY DEF PersistenceInv, PersistenceTypeOK, TypeOK, MapOK, Readable
  <2>2. EntryOfRow(k, table[k]) \in Entry
    BY <2>1, EntryOfRowType
  <2>3. k \in Loaded
    BY <2>1, <2>2, UsualIsRecent DEF Loaded
  <2>4. Loaded \in SUBSET Loaded
    OBVIOUS
  <2> QED
    BY <2>3, <2>4, BootStore DEF LoadAll, PersistenceInv
<1> QED
  BY <1>1, InitPersistence, PersistenceStep, PTL DEF PersistenceSpec, WholeRowsSurviveRestart

----------------------------------------------------------------------------
(* No change is lost.  The invariant that carries it through a round: what *)
(* is not going to be found by the next round (nothing has happened to it  *)
(* since this one began) and is no longer to be looked at is in the table  *)
(* as it is, or in the batch, and then the batch has it as it is.          *)

(* An entry is as one that comes from NewEntry or EntryOfRow: its row says *)
(* all of it.                                                              *)
Whole(o, e) ==
  e.key = o[1] /\ e.lastHit # 0 /\ e.used # NoUse /\ e.ttl % Sec = 0

HeapWhole == \A o \in Live : Whole(o, heap[o])

(* A goroutine that has read the clock is still in the same tick, and a    *)
(* LastHitAt that Set has copied is that of an entry.                      *)
Momentary == {"touch", "mark", "serve", "retouch", "publish", "copy", "insert"}

Punctual ==
  /\ StartTime <= clock /\ lastSave <= clock /\ loop.start <= clock
  /\ \A t \in Threads :
       /\ frame[t].pc \in Momentary => frame[t].time = clock
       /\ frame[t].pc \in {"mark", "serve"} => Entered(t).lastHit = clock
       /\ frame[t].pc = "insert" => frame[t].lastHit # 0

(* A GetStale has counted its hit on the entry of k, and is about to store *)
(* its LastHitAt.                                                          *)
Pending(k) == \E t \in Threads : ServesStale(t) /\ frame[t].obj = entries[k]

Quiet(k) == /\ EntryOf(k).storedAt < loop.start /\ EntryOf(k).lastHit < loop.start
            /\ ~Pending(k)

Batch == {o[1] : o \in pins}

BatchOK ==
  /\ \A o, p \in pins : o[1] = p[1] => o = p
  /\ loop.pc = "scan" =>
       \A o \in pins : o[1] \in Present \ loop.todo /\ entries[o[1]] = o
  /\ loop.pc \in {"save", "row"} =>
       \A k \in Present \cap Batch : Quiet(k) => entries[k] \in pins
  /\ Written \subseteq Batch

RoundOK ==
  /\ loop.pc \in {"scan", "save", "row"} =>
       \A k \in Present \ (loop.todo \cup wiped) : Quiet(k) => k \in Batch \/ Saved(k)
  /\ loop.pc \in {"save", "row"} =>
       \A k \in (Present \cap Batch) \ loop.todo :
         Quiet(k) => loop.tx[k] = RowOf(EntryOf(k))
  /\ loop.pc = "row" /\ loop.key \in Present /\ Quiet(loop.key) =>
       loop.row = [RowOf(EntryOf(loop.key)) EXCEPT !.used = NoUse]

(* Before the loop has its first lastSave.                                 *)
BootOK ==
  loop.pc = "boot" =>
    \A k \in Present \ wiped :
      \/ Saved(k)
      \/ /\ serving
         /\ EntryOf(k).storedAt >= clock \/ EntryOf(k).lastHit >= clock \/ Pending(k)

SaveInv ==
  /\ PersistenceInv /\ Addressed /\ HeapWhole /\ Punctual
  /\ BatchOK /\ RoundOK /\ BootOK /\ NextRoundSavesIt

----------------------------------------------------------------------------
(* Seconds and ticks.                                                      *)
LEMMA WholeSeconds ==
  /\ \A n \in Nat : Unix(n * Sec) = n /\ (n * Sec) % Sec = 0 /\ n * Sec \in Nat
  /\ \A n \in Nat : n % Sec = 0 => Unix(n) * Sec = n
BY PersistenceAssumption DEF Unix

LEMMA WholeTTL ==
  ASSUME NEW m \in Answers
  PROVE  OriginalTTL(m) % Sec = 0 /\ CachedTTL(m) % Sec = 0
<1>1. OriginalTTL(m) \in {m.ttl, m.soaTTL, m.soaMin, DefaultTTL}
  <2>1. m \in Answer
    BY CacheAssumption
  <2> QED
    BY <2>1 DEF OriginalTTL, Smaller
<1>2. CachedTTL(m) \in {OriginalTTL(m), TTLMin, TTLMax}
  BY DEF CachedTTL, Smaller, Larger
<1> QED
  BY <1>1, <1>2, PersistenceAssumption

(* What the table has of an entry is all of it.                            *)
LEMMA RowRestores ==
  ASSUME NEW k \in Keys, NEW e \in Entry, e.key = k, e.lastHit # 0, e.used # NoUse,
         e.ttl % Sec = 0
  PROVE  EntryOfRow(k, RowOf(e)) = Restored(e)
<1>1. /\ e.storedAt \in Nat /\ e.ttl \in Nat /\ e.resp \in Response
      /\ e.resp = [msg |-> e.resp.msg, at |-> e.resp.at]
  BY DEF Entry, Response
<1>2. Unix(e.ttl) \in Nat /\ Unix(e.ttl) * Sec = e.ttl
  BY <1>1, UnixType, WholeSeconds
<1>3. Unix(e.ttl) = 0 <=> e.ttl = 0
  BY <1>1, <1>2, PersistenceAssumption DEF Unix
<1>4. EntryOfRow(k, RowOf(e)) =
        [key |-> k, resp |-> [msg |-> e.resp.msg, at |-> e.resp.at],
         storedAt |-> Unix(e.storedAt) * Sec,
         ttl |-> IF Unix(e.ttl) = 0 THEN OriginalTTL(e.resp.msg) ELSE Unix(e.ttl) * Sec,
         hits |-> e.hits, lastHit |-> e.lastHit, used |-> e.used]
  BY DEF EntryOfRow, RowOf
<1>5. Restored(e) =
        [key |-> e.key, resp |-> e.resp, storedAt |-> Unix(e.storedAt) * Sec,
         ttl |-> IF e.ttl = 0 THEN OriginalTTL(e.resp.msg) ELSE e.ttl,
         hits |-> e.hits, lastHit |-> e.lastHit, used |-> e.used]
  <2> DEFINE at == Unix(e.storedAt) * Sec
             ttl == IF e.ttl = 0 THEN OriginalTTL(e.resp.msg) ELSE e.ttl
  <2>1. Restored(e) = [e EXCEPT !.storedAt = at, !.ttl = ttl]
    BY DEF Restored
  <2> HIDE DEF at, ttl
  <2>2. Restored(e) = [key |-> e.key, resp |-> e.resp, storedAt |-> at, ttl |-> ttl,
                       hits |-> e.hits, lastHit |-> e.lastHit, used |-> e.used]
    BY <2>1 DEF Entry
  <2> QED
    BY <2>2 DEF at, ttl
<1> QED
  BY <1>1, <1>2, <1>3, <1>4, <1>5

(* An entry that has been loaded is saved.                                 *)
LEMMA LoadedIsSaved ==
  ASSUME NEW k \in Keys, NEW r \in Row
  PROVE  EntryOfRow(k, r) = Restored(EntryOfRow(k, r))
<1> DEFINE e == EntryOfRow(k, r)
<1>1. e \in Entry /\ e.storedAt = r.storedAt * Sec /\ e.resp.msg = r.msg
  BY EntryOfRowType DEF EntryOfRow
<1>2. /\ r.storedAt \in Nat /\ r.ttl \in Nat /\ r.msg \in Answers
  BY DEF Row
<1>3. Unix(e.storedAt) * Sec = e.storedAt
  BY <1>1, <1>2, WholeSeconds
<1>4. e.ttl # 0
  <2>1. e.ttl = IF r.ttl = 0 THEN OriginalTTL(r.msg) ELSE r.ttl * Sec
    BY DEF EntryOfRow
  <2>2. r.ttl # 0 => r.ttl * Sec # 0
    BY <1>2, PersistenceAssumption
  <2> QED
    BY <1>2, <2>1, <2>2, OriginalTTLType
<1> HIDE DEF e
<1> QED
  BY <1>1, <1>3, <1>4 DEF Restored, Entry, e

LEMMA LoadedIsWhole ==
  ASSUME NEW k \in Keys, NEW r \in Row, NEW t \in Nat, StartTime <= t,
         Loadable(EntryOfRow(k, r), t)
  PROVE  /\ EntryOfRow(k, r).lastHit # 0 /\ EntryOfRow(k, r).used # NoUse
         /\ EntryOfRow(k, r).ttl % Sec = 0
<1> DEFINE e == EntryOfRow(k, r)
<1>1. e \in Entry
  BY EntryOfRowType
<1>2. r.ttl \in Nat /\ r.msg \in Answers
  BY DEF Row
<1>3. e.ttl % Sec = 0
  <2>1. e.ttl = IF r.ttl = 0 THEN OriginalTTL(r.msg) ELSE r.ttl * Sec
    BY DEF EntryOfRow
  <2> QED
    BY <1>2, <2>1, WholeTTL, WholeSeconds
<1>4. e.used # NoUse
  BY DEF EntryOfRow, PackUsedDays, NoUse
<1>5. t - e.lastHit <= KeepWindow /\ StartTime > KeepWindow /\ e.lastHit \in Nat
  BY <1>1, PersistenceAssumption DEF Loadable, KeepWindow, Entry
<1>6. StartTime \in Nat /\ KeepWindow \in Nat
  BY CacheAssumption, PersistenceAssumption DEF KeepWindow
<1> QED
  BY <1>3, <1>4, <1>5, <1>6

----------------------------------------------------------------------------
(* What a call does to the entries of the map: it leaves one as it is, or  *)
(* gives it a time of this very tick, or is about to.                      *)
Kept(k) == k \in Present /\ entries'[k] = entries[k] /\ EntryOf(k)' = EntryOf(k)

Same(k) == Kept(k) /\ Pending(k)' = Pending(k)

Fresh(k) == EntryOf(k)'.storedAt >= clock \/ EntryOf(k)'.lastHit >= clock \/ Pending(k)'

Effect == \A k \in Present' : Same(k) \/ Fresh(k)

LEMMA LiveEntry ==
  ASSUME TypeOK, NEW k \in Present
  PROVE  entries[k] \in Live /\ EntryOf(k) \in Entry
BY DEF Present, Live, EntryOf, TypeOK, HeapOK

LEMMA LiveFrame ==
  ASSUME TypeOK, NEW t \in Threads, frame[t].pc \in InGet
  PROVE  frame[t].obj \in Live /\ frame[t].obj # NoObj
BY DEF TypeOK, FramesOK, FrameOK, Live

(* Nothing happens to an entry, though some may leave the heap.            *)
LEMMA KeptStore ==
  ASSUME TypeOK, HeapWhole, Live' \subseteq Live, UNCHANGED heap \/ Collect(heap),
         \A k \in Keys : entries'[k] \in {entries[k], NoObj}
  PROVE  /\ \A k \in Present' : Kept(k)
         /\ HeapWhole'
         /\ \A o \in Live' : heap'[o] = heap[o]
<1>1. \A o \in Live' : heap'[o] = heap[o]
  BY DEF Collect
<1>2. \A k \in Present' : k \in Present /\ entries'[k] = entries[k]
  BY DEF Present
<1>3. \A k \in Present' : Kept(k)
  <2> SUFFICES ASSUME NEW k \in Present' PROVE EntryOf(k)' = EntryOf(k)
    BY <1>2 DEF Kept
  <2>1. entries'[k] \in Live' /\ entries'[k] = entries[k]
    BY <1>2 DEF Present, Live
  <2> QED
    BY <1>1, <2>1 DEF EntryOf
<1> QED
  BY <1>1, <1>3 DEF HeapWhole, Whole

(* A goroutine goes on, and the entries the others are at are as they were *)
(* or have been used in this tick.                                         *)
LEMMA OnTime ==
  ASSUME TypeOK, Punctual, NEW t \in Threads, NEW f,
         frame' = [frame EXCEPT ![t] = f], UNCHANGED <<clock, lastSave, loop>>,
         f.pc \in Momentary => f.time = clock,
         f.pc \in {"mark", "serve"} => heap'[f.obj].lastHit = clock,
         f.pc = "insert" => f.lastHit # 0,
         \A s \in Threads \ {t} :
           frame[s].pc \in {"mark", "serve"} =>
             heap'[frame[s].obj].lastHit \in {heap[frame[s].obj].lastHit, clock}
  PROVE  Punctual'
<1>1. \A s \in Threads : frame'[s] = IF s = t THEN f ELSE frame[s]
  BY DEF TypeOK, FramesOK
<1> QED
  BY <1>1 DEF Punctual, Entered

(* A goroutine comes to serve a stale entry, or goes on to do so.          *)
LEMMA PendingStep ==
  ASSUME TypeOK, NEW t \in Threads, NEW f, frame' = [frame EXCEPT ![t] = f],
         NEW k, entries'[k] = entries[k],
         \/ frame[t].obj # entries[k] /\ f.obj # entries[k]
         \/ frame[t].pc \notin {"again", "retouch"} /\ f.pc \notin {"again", "retouch"}
         \/ f.obj = frame[t].obj /\ frame[t].pc = "again" /\ f.pc = "retouch"
  PROVE  Pending(k)' = Pending(k)
<1>1. \A s \in Threads : frame'[s] = IF s = t THEN f ELSE frame[s]
  BY DEF TypeOK, FramesOK
<1> QED
  BY <1>1 DEF Pending, ServesStale, At

(* A call works on its entry, in the tick it has read.                     *)
Works(t, f, e) ==
  /\ frame' = [frame EXCEPT ![t] = f]
  /\ heap' = [heap EXCEPT ![frame[t].obj] = e]
  /\ UNCHANGED <<clock, serving, entries, pins>>

LEMMA WorkEffect ==
  ASSUME TypeOK, HeapWhole, Punctual, NEW t \in Threads, NEW f, NEW e,
         frame[t].pc \in InGet, f.obj = frame[t].obj, Works(t, f, e),
         f.pc \in {"mark", "serve", "again", "done"},
         f.pc \in {"mark", "serve"} => f.time = clock,
         Whole(frame[t].obj, e),
         \/ e.lastHit = clock
         \/ f.pc = "again" /\ e.lastHit = heap[frame[t].obj].lastHit,
         UNCHANGED persistVars
  PROVE  Effect /\ HeapWhole' /\ Punctual'
<1> DEFINE o == frame[t].obj
<1> USE DEF Works
<1>1. o \in Live /\ heap \in [Live -> Entry] /\ clock \in Nat
  BY LiveFrame DEF TypeOK, HeapOK, MapOK
<1>2. Live' = Live
  BY LiveStep DEF TypeOK
<1>3. \A p \in Live : heap'[p] = IF p = o THEN e ELSE heap[p]
  BY <1>1
<1>4. HeapWhole'
  BY <1>2, <1>3 DEF HeapWhole, Whole
<1>5. Effect
  <2> SUFFICES ASSUME NEW k \in Present' PROVE Same(k) \/ Fresh(k)
    BY DEF Effect
  <2>1. k \in Present /\ entries'[k] = entries[k] /\ entries[k] \in Live
    BY LiveEntry DEF Present
  <2>2. CASE entries[k] # o
    <3>1. Pending(k)' = Pending(k)
      BY <2>1, <2>2, PendingStep
    <3> QED
      BY <1>3, <2>1, <2>2, <3>1 DEF Same, Kept, EntryOf
  <2>3. CASE entries[k] = o /\ e.lastHit = clock
    <3>1. EntryOf(k)'.lastHit = clock
      BY <1>3, <2>1, <2>3 DEF EntryOf
    <3> QED
      BY <1>1, <3>1 DEF Fresh
  <2>4. CASE entries[k] = o /\ f.pc = "again"
    <3>1. frame'[t] = f
      BY DEF TypeOK, FramesOK
    <3>2. Pending(k)'
      BY <2>1, <2>4, <3>1 DEF Pending, ServesStale, At
    <3> QED
      BY <3>2 DEF Fresh
  <2> QED
    BY <2>2, <2>3, <2>4
<1>6. Punctual'
  <2>1. \A s \in Threads : frame[s].pc \in {"mark", "serve"} => frame[s].obj \in Live
    BY LiveFrame DEF InGet
  <2>2. f.pc \in {"mark", "serve"} => heap'[f.obj].lastHit = clock
    BY <1>1, <1>3
  <2>3. UNCHANGED <<lastSave, loop>>
    BY DEF persistVars
  <2>4. \A s \in Threads \ {t} :
           frame[s].pc \in {"mark", "serve"} =>
             heap'[frame[s].obj].lastHit \in {heap[frame[s].obj].lastHit, clock}
    BY <1>3, <2>1
  <2>5. (f.pc \in Momentary => f.time = clock) /\ f.pc # "insert"
    BY DEF Momentary
  <2> QED
    BY <2>2, <2>3, <2>4, <2>5, OnTime
<1> QED
  BY <1>4, <1>5, <1>6

(* A call looks only, or gives its entry back.                             *)
LEMMA LookEffect ==
  ASSUME TypeOK, HeapWhole, Punctual, NEW t \in Threads, NEW f,
         frame' = [frame EXCEPT ![t] = f],
         f.pc \notin {"mark", "serve"}, f.pc \in Momentary => f.time = clock,
         f.pc = "insert" => f.lastHit # 0,
         \/ frame[t].pc \notin {"again", "retouch"} /\ f.pc \notin {"again", "retouch"}
         \/ f.obj = frame[t].obj /\ frame[t].pc = "again" /\ f.pc = "retouch",
         Live' \subseteq Live, UNCHANGED heap \/ Collect(heap),
         UNCHANGED <<clock, serving, entries, pins>>, UNCHANGED persistVars
  PROVE  Effect /\ HeapWhole' /\ Punctual'
<1>1. /\ \A k \in Present' : Kept(k)
      /\ HeapWhole'
      /\ \A o \in Live' : heap'[o] = heap[o]
  BY KeptStore
<1>2. UNCHANGED <<lastSave, loop>>
  BY DEF persistVars
<1>3. \A s \in Threads \ {t} :
         frame[s].pc \in {"mark", "serve"} => heap'[frame[s].obj] = heap[frame[s].obj]
  <2> SUFFICES ASSUME NEW s \in Threads \ {t}, frame[s].pc \in {"mark", "serve"}
               PROVE  frame[s].obj \in Live'
    BY <1>1
  <2>1. frame'[s] = frame[s]
    BY DEF TypeOK, FramesOK
  <2> QED
    BY <2>1, LiveFrame DEF Live, InGet
<1>4. Punctual'
  BY <1>2, <1>3, OnTime
<1>5. \A k \in Present' : Pending(k)' = Pending(k)
  <2> SUFFICES ASSUME NEW k \in Present' PROVE Pending(k)' = Pending(k)
    OBVIOUS
  <2> QED
    BY PendingStep
<1> QED
  BY <1>1, <1>4, <1>5 DEF Effect, Same

LEMMA CallEffect ==
  ASSUME TypeOK, HeapWhole, Punctual, NEW t \in Threads, AnyCall(t), UNCHANGED persistVars
  PROVE  Effect /\ HeapWhole' /\ Punctual'
<1>1. PICK k \in Keys :
        \/ GetLookup(t, k) \/ StaleLookup(t, k)
        \/ \E m \in Answers : SetNow(t, k, [msg |-> m, at |-> 0])
  BY DEF AnyCall
<1>2. \A m \in Answers : [msg |-> m, at |-> 0] \in Response
  BY DEF Response
<1>3. \/ GetLookup(t, k) \/ StaleLookup(t, k)
      \/ \E r \in Response : SetNow(t, k, r)
  BY <1>1, <1>2
<1>4. frame[t].pc = "idle" /\ frame[t].obj = NoObj
  BY <1>1 DEF GetLookup, StaleLookup, SetNow, At, TypeOK, FramesOK, FrameOK
<1>5. PICK f : /\ frame' = [frame EXCEPT ![t] = f] /\ f.obj \in {NoObj, entries[k]}
               /\ \/ f.pc \in {"now", "done", "stale"}
                  \/ f.pc = "publish" /\ f.time = clock
  BY <1>3, BegunFrame
<1>6. UNCHANGED <<clock, serving, entries, heap, pins>>
  BY <1>3, BegunFrame
<1>7. Live' \subseteq Live
  BY <1>4, <1>5, <1>6, LiveStep DEF TypeOK
<1>8. /\ f.pc \notin {"mark", "serve", "insert", "again", "retouch"}
      /\ f.pc \in Momentary => f.time = clock
  BY <1>5 DEF Momentary
<1> QED
  BY <1>4, <1>5, <1>6, <1>7, <1>8, LookEffect

LEMMA NowEffect ==
  ASSUME TypeOK, HeapWhole, Punctual, NEW t \in Threads, GetNow(t) \/ StaleNow(t),
         UNCHANGED persistVars
  PROVE  Effect /\ HeapWhole' /\ Punctual'
<1>1. PICK pc \in {"touch", "retouch"} :
        /\ frame' = [frame EXCEPT ![t] = [@ EXCEPT !.pc = pc, !.time = clock]]
        /\ frame[t].pc = IF pc = "touch" THEN "now" ELSE "again"
  BY DEF GetNow, StaleNow, At
<1> DEFINE f == [frame[t] EXCEPT !.pc = pc, !.time = clock]
<1>2. frame' = [frame EXCEPT ![t] = f]
  BY <1>1
<1>3. f.obj = frame[t].obj /\ f.pc = pc /\ f.time = clock
  BY DEF TypeOK, FramesOK, Frame
<1>4. UNCHANGED <<clock, serving, entries, heap, pins>>
  BY DEF GetNow, StaleNow
<1> HIDE DEF f
<1>5. Live' \subseteq Live
  BY <1>2, <1>3, <1>4, LiveStep DEF TypeOK
<1>6. frame[t].pc = IF pc = "touch" THEN "now" ELSE "again"
  BY <1>1
<1> QED
  BY <1>2, <1>3, <1>4, <1>5, <1>6, LookEffect

(* Set has the lock, and then copies the LastHitAt of an entry.            *)
LEMMA CopyEffect ==
  ASSUME TypeOK, HeapWhole, Punctual, NEW t \in Threads, SetLock(t) \/ SetCopy(t),
         UNCHANGED persistVars
  PROVE  Effect /\ HeapWhole' /\ Punctual'
<1> DEFINE h == EntryOf(frame[t].key).hits
           l == EntryOf(frame[t].key).lastHit
           locked == [frame[t] EXCEPT !.pc = "copy", !.hits = h]
           copied == [frame[t] EXCEPT !.pc = "insert", !.lastHit = l]
<1>1. frame' = [frame EXCEPT ![t] = locked] \/ frame' = [frame EXCEPT ![t] = copied]
  BY DEF SetLock, SetCopy
<1>2. /\ UNCHANGED <<clock, serving, entries, heap, pins>>
      /\ frame[t].pc \in {"publish", "copy"} /\ frame[t].key \in Present
  BY DEF SetLock, SetCopy, At, TypeOK, LockOK, Copying
<1>3. l # 0
  BY <1>2, LiveEntry DEF HeapWhole, Whole, EntryOf
<1>4. frame[t].time = clock /\ frame[t] \in Frame
  BY <1>2 DEF Punctual, Momentary, TypeOK, FramesOK
<1> HIDE DEF h, l
<1>5. /\ locked.pc = "copy" /\ locked.time = clock /\ locked.obj = frame[t].obj
      /\ copied.pc = "insert" /\ copied.time = clock /\ copied.obj = frame[t].obj
      /\ copied.lastHit = l
  BY <1>4 DEF Frame
<1> HIDE DEF locked, copied
<1>6. PICK f : /\ frame' = [frame EXCEPT ![t] = f] /\ f.obj = frame[t].obj
               /\ f.pc \in {"copy", "insert"} /\ f.time = clock
               /\ f.pc = "insert" => f.lastHit # 0
  BY <1>1, <1>3, <1>5
<1>7. Live' \subseteq Live
  BY <1>2, <1>6, LiveStep DEF TypeOK
<1> QED
  BY <1>2, <1>6, <1>7, LookEffect

(* A call that has nothing to give back, or gives it back.                 *)
LEMMA DropEffect ==
  ASSUME TypeOK, HeapWhole, Punctual, NEW t \in Threads, NEW f,
         frame' = [frame EXCEPT ![t] = f], f.obj = NoObj, f.pc \in {"idle", "done"},
         frame[t].pc \notin {"again", "retouch"},
         Collect(heap), UNCHANGED <<clock, serving, entries, pins>>, UNCHANGED persistVars
  PROVE  Effect /\ HeapWhole' /\ Punctual'
<1>1. Live' \subseteq Live
  BY LiveStep DEF TypeOK
<1>2. f.pc \notin Momentary
  BY DEF Momentary
<1> QED
  BY <1>1, <1>2, LookEffect

LEMMA TouchEffect ==
  ASSUME TypeOK, HeapWhole, Punctual, NEW t \in Threads, GetTouch(t) \/ StaleTouch(t),
         UNCHANGED persistVars
  PROVE  Effect /\ HeapWhole' /\ Punctual'
<1> DEFINE pc == IF GetTouch(t) THEN "mark" ELSE "done"
           f == [frame[t] EXCEPT !.pc = pc]
           e == [heap[frame[t].obj] EXCEPT !.lastHit = frame[t].time]
<1>1. /\ frame[t].pc \in {"touch", "retouch"} /\ frame[t].pc \in InGet
      /\ frame[t] \in Frame /\ frame[t].time = clock
  BY DEF GetTouch, StaleTouch, At, Punctual, Momentary, TypeOK, FramesOK, InGet
<1>2. heap[frame[t].obj] \in Entry /\ Whole(frame[t].obj, heap[frame[t].obj])
  BY <1>1, LiveFrame DEF TypeOK, HeapOK, HeapWhole
<1>3. clock # 0
  BY CacheAssumption, PersistenceAssumption DEF Punctual, TypeOK, MapOK
<1>4. Whole(frame[t].obj, e) /\ e.lastHit = clock
  BY <1>1, <1>2, <1>3 DEF Whole, Entry
<1>5. Works(t, f, e)
  BY DEF Works, GetTouch, StaleTouch
<1>6. pc \in {"mark", "done"}
  OBVIOUS
<1> HIDE DEF pc
<1>7. f.obj = frame[t].obj /\ f.pc = pc /\ f.time = clock
  BY <1>1 DEF Frame
<1> HIDE DEF f, e
<1> QED
  BY <1>1, <1>4, <1>5, <1>6, <1>7, WorkEffect

LEMMA GetMarkEffect ==
  ASSUME TypeOK, HeapWhole, Punctual, NEW t \in Threads, GetMark(t), UNCHANGED persistVars
  PROVE  Effect /\ HeapWhole' /\ Punctual'
<1> DEFINE f == [frame[t] EXCEPT !.pc = "serve"]
           used == Marked(heap[frame[t].obj].used, DayOf(frame[t].time))
           e == [heap[frame[t].obj] EXCEPT !.used = used]
<1>1. /\ frame[t].pc = "mark" /\ frame[t].pc \in InGet /\ frame[t] \in Frame
      /\ frame[t].time = clock
  BY DEF GetMark, At, Punctual, Momentary, TypeOK, FramesOK, InGet
<1>2. /\ heap[frame[t].obj] \in Entry /\ Whole(frame[t].obj, heap[frame[t].obj])
      /\ heap[frame[t].obj].lastHit = clock
  BY <1>1, LiveFrame DEF TypeOK, HeapOK, HeapWhole, Punctual, Entered
<1>3. f.obj = frame[t].obj /\ f.pc = "serve" /\ f.time = clock
  BY <1>1 DEF Frame
<1>4. used # NoUse
  <2>1. 0 \in used.mask
    BY DEF Marked, PackUsedDays
  <2> QED
    BY <2>1 DEF NoUse
<1>5. Works(t, f, e)
  BY DEF Works, GetMark, Entered
<1> HIDE DEF used
<1>6. Whole(frame[t].obj, e) /\ e.lastHit = clock
  BY <1>2, <1>4 DEF Whole, Entry
<1> HIDE DEF f, e
<1> QED
  BY <1>1, <1>3, <1>5, <1>6, WorkEffect

(* The decision to serve, of Get and of GetStale.                          *)
LEMMA ServeEffect ==
  ASSUME TypeOK, HeapWhole, Punctual, NEW t \in Threads, GetServe(t) \/ StaleServe(t),
         UNCHANGED persistVars
  PROVE  Effect /\ HeapWhole' /\ Punctual'
<1> DEFINE pc == IF GetServe(t) THEN "done" ELSE "again"
           served == [frame[t] EXCEPT !.pc = pc]
           missed == [frame[t] EXCEPT !.pc = "done", !.obj = NoObj]
           hits == CountHit(heap[frame[t].obj].hits)
           e == [heap[frame[t].obj] EXCEPT !.hits = hits]
<1>1. /\ frame[t].pc = IF GetServe(t) THEN "serve" ELSE "stale"
      /\ frame[t].pc \in InGet /\ frame[t] \in Frame
  BY DEF GetServe, StaleServe, At, TypeOK, FramesOK, InGet
<1>2. /\ heap[frame[t].obj] \in Entry /\ Whole(frame[t].obj, heap[frame[t].obj])
      /\ frame[t].pc = "serve" => heap[frame[t].obj].lastHit = clock
  BY <1>1, LiveFrame DEF TypeOK, HeapOK, HeapWhole, Punctual, Entered
<1>3. /\ UNCHANGED <<clock, serving, entries, pins>>
      /\ \/ Works(t, served, e)
         \/ frame' = [frame EXCEPT ![t] = missed] /\ Collect(heap)
  BY DEF Works, GetServe, StaleServe, Entered
<1>4. pc \in {"done", "again"} /\ (pc = "done" => heap[frame[t].obj].lastHit = clock)
  BY <1>1, <1>2
<1> HIDE DEF hits, pc
<1>5. /\ served.obj = frame[t].obj /\ served.pc = pc
      /\ missed.obj = NoObj /\ missed.pc = "done"
  BY <1>1 DEF Frame
<1>6. Whole(frame[t].obj, e) /\ e.lastHit = heap[frame[t].obj].lastHit
  BY <1>2 DEF Whole, Entry
<1>7. frame[t].pc \notin {"again", "retouch"} /\ frame[t].pc \in InGet
  BY <1>1
<1> HIDE DEF served, missed, e
<1> QED
  BY <1>3, <1>4, <1>5, <1>6, <1>7, WorkEffect, DropEffect

LEMMA ReleaseEffect ==
  ASSUME TypeOK, HeapWhole, Punctual, NEW t \in Threads, Release(t), UNCHANGED persistVars
  PROVE  Effect /\ HeapWhole' /\ Punctual'
<1>1. /\ frame' = [frame EXCEPT ![t] = Idle] /\ Collect(heap)
      /\ UNCHANGED <<clock, serving, entries, pins>> /\ frame[t].pc = "done"
  BY DEF Release, At
<1>2. Idle.obj = NoObj /\ Idle.pc = "idle"
  BY DEF Idle
<1> QED
  BY <1>1, <1>2, DropEffect

LEMMA SetPublishEffect ==
  ASSUME TypeOK, HeapWhole, Punctual, NEW t \in Threads, SetPublish(t),
         UNCHANGED persistVars
  PROVE  Effect /\ HeapWhole' /\ Punctual'
<1> DEFINE k == frame[t].key
           e == Published(frame[t])
           o == NewObj(e.key)
           new == NewEntry(k, frame[t].resp, frame[t].time)
<1>1. /\ e \in Entry /\ e.key = k
      /\ \E m : /\ Store(m, e)
                /\ m = entries \/ \E v \in Keys : m = [entries EXCEPT ![v] = NoObj]
  BY PublishStores DEF Present
<1>2. /\ frame[t].pc \in {"publish", "insert"} /\ frame' = [frame EXCEPT ![t] = Idle]
      /\ UNCHANGED <<clock, serving, pins>>
      /\ k \in Present => frame[t].pc = "insert"
  BY DEF SetPublish, At, LockOK, TypeOK, Copying
<1>3. frame[t].time = clock /\ k \in Keys /\ frame[t].resp \in Response /\ clock \in Nat
  BY <1>2 DEF Punctual, Momentary, TypeOK, FramesOK, FrameOK, MapOK, InSet
<1>4. new \in Entry /\ new.storedAt = clock /\ new.ttl = CachedTTL(frame[t].resp.msg)
      /\ new.lastHit = clock /\ new.used # NoUse
  BY <1>3, NewEntryType DEF NewEntry, PackUsedDays, NoUse
<1>5. e.storedAt = clock /\ e.ttl = new.ttl
  BY <1>4 DEF Published
<1>6. Whole(o, e)
  <2>1. e.ttl % Sec = 0
    BY <1>3, <1>4, <1>5, WholeTTL DEF Response
  <2>2. e.lastHit # 0 /\ e.used # NoUse
    <3>1. CASE k \in Present
      <4> DEFINE h == frame[t].hits
                 l == frame[t].lastHit
                 u == EntryOf(k).used
      <4>1. l # 0 /\ u # NoUse
        BY <1>2, <3>1, LiveEntry DEF HeapWhole, Whole, EntryOf, Punctual
      <4>2. e = [new EXCEPT !.hits = h, !.lastHit = l, !.used = u]
        BY <3>1 DEF Published
      <4> HIDE DEF e, new, h, l, u
      <4> QED
        BY <1>4, <4>1, <4>2 DEF Entry
    <3>2. CASE k \notin Present
      <4>1. clock # 0
        BY CacheAssumption, PersistenceAssumption DEF Punctual, TypeOK, MapOK
      <4>2. e = new
        BY <3>2 DEF Published
      <4> QED
        BY <1>4, <4>1, <4>2
    <3> QED
      BY <3>1, <3>2
  <2>3. o[1] = k
    BY <1>1 DEF NewObj
  <2> QED
    BY <1>1, <2>1, <2>2, <2>3 DEF Whole
<1> HIDE DEF e, new
<1>7. PICK m : /\ Store(m, e)
               /\ m = entries \/ \E v \in Keys : m = [entries EXCEPT ![v] = NoObj]
  BY <1>1
<1>8. /\ entries'[k] = o /\ o \notin Held /\ heap'[o] = e /\ o \in Live'
      /\ \A p \in Live' : p # o => heap'[p] = heap[p]
      /\ \A j \in Keys : j # k => entries'[j] = m[j]
      /\ o \in {k} \X Slots
  BY <1>1, <1>7, Stored
<1>9. \A j \in Keys : j # k => entries'[j] \in {entries[j], NoObj}
  BY <1>7, <1>8 DEF TypeOK, MapOK
<1> HIDE DEF o
<1>10. Effect
  <2> SUFFICES ASSUME NEW j \in Present' PROVE Same(j) \/ Fresh(j)
    BY DEF Effect
  <2>1. CASE j = k
    BY <1>3, <1>5, <1>8, <2>1 DEF Fresh, EntryOf
  <2>2. CASE j # k /\ entries'[j] # o
    <3>1. entries'[j] = entries[j] /\ entries'[j] \in Live' /\ j \in Present
      BY <1>9, <2>2 DEF Present, Live
    <3>2. Idle.pc = "idle"
      BY DEF Idle
    <3>3. Pending(j)' = Pending(j)
      BY <1>2, <3>1, <3>2, PendingStep
    <3> QED
      BY <1>8, <2>2, <3>1, <3>3 DEF Same, Kept, EntryOf
  <2>3. CASE j # k /\ entries'[j] = o
    <3>1. heap'[entries'[j]].storedAt = clock
      BY <1>5, <1>8, <2>3
    <3> QED
      BY <1>3, <3>1 DEF Fresh, EntryOf
  <2> QED
    BY <2>1, <2>2, <2>3
<1>11. HeapWhole'
  <2> SUFFICES ASSUME NEW p \in Live' PROVE Whole(p, heap'[p])
    BY DEF HeapWhole, Whole
  <2>1. CASE p = o
    BY <1>6, <1>8, <2>1 DEF o
  <2>2. CASE p # o
    <3>1. \A s \in Threads : frame'[s].obj \in {frame[s].obj, NoObj}
      BY <1>2 DEF TypeOK, FramesOK, Idle
    <3>2. p \in Live
      BY <1>2, <1>8, <1>9, <2>2, <3>1 DEF Live
    <3> QED
      BY <1>8, <2>2, <3>2 DEF HeapWhole
  <2> QED
    BY <2>1, <2>2
<1>12. Punctual'
  <2>1. UNCHANGED <<lastSave, loop>>
    BY DEF persistVars
  <2>2. \A s \in Threads \ {t} :
          frame[s].pc \in {"mark", "serve"} => heap'[frame[s].obj] = heap[frame[s].obj]
    <3> SUFFICES ASSUME NEW s \in Threads \ {t}, frame[s].pc \in {"mark", "serve"}
                 PROVE  frame[s].obj \in Live' /\ frame[s].obj # o
      BY <1>8
    <3>1. frame'[s] = frame[s]
      BY <1>2 DEF TypeOK, FramesOK
    <3> QED
      BY <1>8, <3>1, LiveFrame DEF Live, Held, InGet
  <2>3. Idle.pc = "idle" /\ "idle" \notin Momentary
    BY DEF Idle, Momentary
  <2> QED
    BY <1>2, <2>1, <2>2, <2>3, OnTime
<1> QED
  BY <1>10, <1>11, <1>12

LEMMA ClientEffect ==
  ASSUME TypeOK, HeapWhole, Punctual, NEW t \in Threads, ClientStep(t)
  PROVE  Effect /\ HeapWhole' /\ Punctual'
<1>1. UNCHANGED persistVars
  BY ClientPins
<1>2. \/ AnyCall(t) \/ GetNow(t) \/ GetTouch(t) \/ GetMark(t) \/ GetServe(t)
      \/ StaleServe(t) \/ StaleNow(t) \/ StaleTouch(t)
      \/ SetLock(t) \/ SetCopy(t) \/ SetPublish(t) \/ Release(t)
  BY DEF ClientStep, CallStep
<1> QED
  BY <1>1, <1>2, CallEffect, NowEffect, TouchEffect, GetMarkEffect, ServeEffect,
     CopyEffect, SetPublishEffect, ReleaseEffect

----------------------------------------------------------------------------
(* The calls and a round.  An entry nothing has happened to is saved, or   *)
(* in the batch, as before; one that something has happened to is found by *)
(* the next round.                                                         *)
LEMMA RowSaved ==
  ASSUME NEW k, Same(k), table'[k] = table[k]
  PROVE  Saved(k)' = Saved(k)
<1>1. EntryOf(k)' = EntryOf(k)
  BY DEF Same, Kept
<1>2. EntryOfRow(k, table[k])' = EntryOfRow(k, table[k])
  BY DEF EntryOfRow, Unix, OriginalTTL, Smaller, PackUsedDays, DayOf, ZoneOffset
<1>3. Restored(EntryOf(k))' = Restored(EntryOf(k))
  BY <1>1 DEF Restored, Unix, OriginalTTL, Smaller
<1> QED
  BY <1>1, <1>2, <1>3 DEF Saved

LEMMA SameSaved ==
  ASSUME NEW k, Same(k), UNCHANGED <<table, lastSave, loop>>
  PROVE  /\ k \in Present /\ Saved(k)' = Saved(k)
         /\ Changed(EntryOf(k))' = Changed(EntryOf(k)) /\ Quiet(k)' = Quiet(k)
         /\ EntryOf(k)' = EntryOf(k) /\ entries'[k] = entries[k]
         /\ Pending(k)' = Pending(k)
BY RowSaved DEF Same, Kept, Changed, Quiet

LEMMA FreshChanged ==
  ASSUME TypeOK', Punctual, NEW k \in Present', Fresh(k),
         UNCHANGED <<lastSave, loop>>, lastSave \in Nat, loop.start \in Nat, clock \in Nat
  PROVE  (Changed(EntryOf(k))' \/ Pending(k)') /\ ~Quiet(k)'
<1>1. EntryOf(k)' \in Entry
  BY DEF Present, EntryOf, TypeOK, HeapOK, Live
<1>2. EntryOf(k)'.storedAt \in Nat /\ EntryOf(k)'.lastHit \in Nat
  BY <1>1 DEF Entry
<1> QED
  BY <1>2 DEF Fresh, Changed, Quiet, Punctual

LEMMA CallsSaved ==
  ASSUME SaveInv, PersistenceInv', Addressed', HeapWhole', Punctual', Effect,
         UNCHANGED persistVars, UNCHANGED <<clock, pins>>,
         loop.pc = "scan" => UNCHANGED entries,
         serving' /\ (serving \/ \A k \in Present' : Same(k))
  PROVE  SaveInv'
<1>1. UNCHANGED <<table, lastSave, loop, wiped>> /\ Batch' = Batch /\ Written' = Written
  BY DEF persistVars, Batch, Written
<1>2. /\ lastSave \in Nat /\ loop.start \in Nat /\ clock \in Nat
      /\ TypeOK' /\ Punctual
  BY DEF SaveInv, PersistenceInv, PersistenceTypeOK, LoopState, TypeOK, MapOK
<1>3. \A k \in Present' :
        Same(k) \/ ((Changed(EntryOf(k))' \/ Pending(k)') /\ ~Quiet(k)')
  BY <1>1, <1>2, FreshChanged DEF Effect
<1>4. \A k \in Present' :
        Same(k) => /\ k \in Present /\ Saved(k)' = Saved(k)
                   /\ Changed(EntryOf(k))' = Changed(EntryOf(k)) /\ Quiet(k)' = Quiet(k)
                   /\ EntryOf(k)' = EntryOf(k) /\ entries'[k] = entries[k]
                   /\ Pending(k)' = Pending(k)
  BY <1>1, SameSaved
<1>5. NextRoundSavesIt'
  BY <1>1, <1>3, <1>4 DEF SaveInv, NextRoundSavesIt, Pending
<1>6. BatchOK'
  <2>1. loop'.pc = "scan" =>
          \A o \in pins' : o[1] \in Present' \ loop'.todo /\ entries'[o[1]] = o
    BY <1>1 DEF SaveInv, BatchOK, Present
  <2>2. loop'.pc \in {"save", "row"} =>
          \A k \in Present' \cap Batch' : Quiet(k)' => entries'[k] \in pins'
    BY <1>1, <1>3, <1>4 DEF SaveInv, BatchOK
  <2> QED
    BY <1>1, <2>1, <2>2 DEF SaveInv, BatchOK
<1>7. RoundOK'
  <2>1. loop'.pc \in {"scan", "save", "row"} =>
          \A k \in Present' \ (loop'.todo \cup wiped') : Quiet(k)' => k \in Batch' \/ Saved(k)'
    BY <1>1, <1>3, <1>4 DEF SaveInv, RoundOK
  <2>2. loop'.pc \in {"save", "row"} =>
          \A k \in (Present' \cap Batch') \ loop'.todo :
            Quiet(k)' => loop'.tx[k] = RowOf(EntryOf(k))'
    <3> SUFFICES ASSUME loop.pc \in {"save", "row"},
                        NEW k \in (Present' \cap Batch) \ loop.todo, Quiet(k)'
                 PROVE  loop.tx[k] = RowOf(EntryOf(k)')
      BY <1>1 DEF RowOf, Unix
    <3>1. k \in Present /\ Quiet(k) /\ EntryOf(k)' = EntryOf(k)
      BY <1>3, <1>4
    <3> QED
      BY <3>1 DEF SaveInv, RoundOK
  <2>3. ASSUME loop'.pc = "row", loop'.key \in Present', Quiet(loop.key)'
        PROVE  loop'.row = [RowOf(EntryOf(loop.key)') EXCEPT !.used = NoUse]
    <3>1. /\ loop.pc = "row" /\ loop.key \in Present /\ Quiet(loop.key)
          /\ EntryOf(loop.key)' = EntryOf(loop.key)
      BY <1>1, <1>3, <1>4, <2>3
    <3> QED
      BY <1>1, <3>1 DEF SaveInv, RoundOK
  <2> QED
    BY <1>1, <2>1, <2>2, <2>3 DEF RoundOK, RowOf, Unix, Quiet, EntryOf
<1>8. BootOK'
  <2> SUFFICES ASSUME loop.pc = "boot", NEW k \in Present' \ wiped, ~Saved(k)'
               PROVE  \/ EntryOf(k)'.storedAt >= clock \/ EntryOf(k)'.lastHit >= clock
                      \/ Pending(k)'
    BY <1>1 DEF BootOK, EntryOf
  <2>1. CASE Fresh(k)
    BY <2>1 DEF Fresh
  <2>2. CASE Same(k)
    BY <1>4, <2>2 DEF SaveInv, BootOK
  <2> QED
    BY <2>1, <2>2 DEF Effect
<1> QED
  BY <1>5, <1>6, <1>7, <1>8 DEF SaveInv

LEMMA ClientSaved ==
  ASSUME SaveInv, PersistenceInv', Addressed', NEW t \in Threads, ClientStep(t)
  PROVE  SaveInv'
<1>1. TypeOK /\ HeapWhole /\ Punctual /\ NotYetServing
  BY DEF SaveInv, PersistenceInv, PersistenceTypeOK
<1>2. serving /\ UNCHANGED <<clock, serving, pins>> /\ UNCHANGED persistVars
  BY <1>1, ClientServes, ClientPins
<1>3. loop.pc = "scan" => UNCHANGED entries
  BY LockedMap DEF Locked
<1>4. Effect /\ HeapWhole' /\ Punctual'
  BY <1>1, ClientEffect
<1> QED
  BY <1>2, <1>3, <1>4, CallsSaved

(* Nobody is disturbed: the steps that change no entry.                    *)
LEMMA Undisturbed ==
  ASSUME TypeOK, HeapWhole, Punctual, UNCHANGED <<clock, frame>>,
         Live' \subseteq Live, UNCHANGED heap \/ Collect(heap),
         \A k \in Keys : entries'[k] \in {entries[k], NoObj},
         lastSave' <= clock, loop'.start <= clock
  PROVE  HeapWhole' /\ Punctual' /\ \A k \in Present' : Same(k)
<1>1. /\ \A k \in Present' : Kept(k)
      /\ HeapWhole'
      /\ \A o \in Live' : heap'[o] = heap[o]
  BY KeptStore
<1>2. \A t \in Threads : frame[t].pc \in {"mark", "serve"} => frame[t].obj \in Live'
  BY LiveFrame DEF Live, InGet
<1>3. \A k \in Present' : Same(k)
  <2> SUFFICES ASSUME NEW k \in Present' PROVE Pending(k)' = Pending(k)
    BY <1>1 DEF Same
  <2>1. entries'[k] = entries[k] /\ frame' = frame
    BY <1>1 DEF Kept
  <2>2. Pending(k)' <=> \E t \in Threads : ServesStale(t) /\ frame[t].obj = entries'[k]
    BY <2>1 DEF Pending, ServesStale, At
  <2> QED
    BY <2>1, <2>2 DEF Pending
<1>4. Punctual'
  BY <1>1, <1>2 DEF Punctual, Entered
<1> QED
  BY <1>1, <1>3, <1>4

LEMMA OthersSaved ==
  ASSUME SaveInv, PersistenceInv', Addressed', Serve \/ \E k \in Keys : Remove(k)
  PROVE  SaveInv'
<1>1. TypeOK /\ HeapWhole /\ Punctual
  BY DEF SaveInv, PersistenceInv, PersistenceTypeOK
<1>2. UNCHANGED persistVars /\ UNCHANGED <<clock, frame, pins>> /\ serving'
  BY DEF Serve, StartServing, Remove, Delete
<1>3. UNCHANGED heap \/ Collect(heap)
  BY DEF Serve, StartServing, Remove, Delete
<1>4. \A k \in Keys : entries'[k] \in {entries[k], NoObj}
  BY <1>1 DEF Serve, StartServing, Remove, Delete, TypeOK, MapOK
<1>5. Live' \subseteq Live
  BY <1>2, <1>4 DEF Live
<1>6. loop.pc = "scan" => UNCHANGED entries
  BY DEF Serve, StartServing, Remove, Locked
<1>7. HeapWhole' /\ Punctual' /\ \A k \in Present' : Same(k)
  BY <1>1, <1>2, <1>3, <1>4, <1>5, Undisturbed DEF Punctual, persistVars
<1> QED
  BY <1>2, <1>6, <1>7, CallsSaved DEF Effect

----------------------------------------------------------------------------
(* The clock, the other process, and the start and the end of this one.    *)
LEMMA AsBefore ==
  ASSUME UNCHANGED <<entries, heap, frame>>, NEW k \in Present
  PROVE  Same(k)
<1>1. Pending(k)' = Pending(k)
  BY DEF Pending, ServesStale, At
<1> QED
  BY <1>1 DEF Same, Kept, EntryOf

LEMMA TickSaved ==
  ASSUME SaveInv, PersistenceInv', Tick, UNCHANGED persistVars, clock' # clock => Prompt
  PROVE  SaveInv'
<1>1. clock \in Nat /\ clock' = clock + 1 /\ Prompt
  BY DEF Tick, SaveInv, PersistenceInv, PersistenceTypeOK, TypeOK, MapOK
<1>2. /\ UNCHANGED <<serving, entries, heap, frame, pins>>
      /\ UNCHANGED <<table, lastSave, loop, wiped>>
  BY DEF Tick, storeVars, persistVars
<1>3. Punctual'
  <2>1. lastSave \in Nat /\ loop.start \in Nat /\ StartTime \in Nat
    BY CacheAssumption DEF SaveInv, PersistenceInv, PersistenceTypeOK, LoopState
  <2>2. StartTime <= clock' /\ lastSave' <= clock' /\ loop'.start <= clock'
    BY <1>1, <1>2, <2>1 DEF SaveInv, Punctual
  <2> QED
    BY <1>1, <1>2, <2>2 DEF Punctual, Prompt, Momentary, InSet, Entered
<1>4. Present' = Present /\ \A k \in Present : Same(k) /\ Saved(k)' = Saved(k)
  BY <1>2, AsBefore, RowSaved DEF Present
<1>5. /\ Batch' = Batch /\ Written' = Written
      /\ \A k : Quiet(k)' = Quiet(k) /\ EntryOf(k)' = EntryOf(k)
      /\ \A k : Pending(k)' = Pending(k)
      /\ \A e : Changed(e)' = Changed(e) /\ RowOf(e)' = RowOf(e)
  BY <1>2 DEF Present, Batch, Written, Quiet, EntryOf, Changed, RowOf, Unix, Pending,
              ServesStale, At
<1>6. BootOK'
  BY <1>1, <1>2, <1>4 DEF SaveInv, BootOK, Prompt
<1>7. HeapWhole' /\ Addressed' /\ BatchOK'
  BY <1>2, <1>4, <1>5 DEF SaveInv, HeapWhole, Addressed, Whole, BatchOK, Live
<1>8. RoundOK' /\ NextRoundSavesIt'
  BY <1>2, <1>4, <1>5 DEF SaveInv, RoundOK, NextRoundSavesIt, Pending
<1> QED
  BY <1>3, <1>6, <1>7, <1>8 DEF SaveInv

(* The rows that go are known to be gone.                                  *)
LEMMA WipeSaved ==
  ASSUME SaveInv, PersistenceInv', NEW keys, Wipe(keys)
  PROVE  SaveInv'
<1>1. /\ UNCHANGED <<clock, serving, entries, heap, frame, pins, lastSave, loop>>
      /\ wiped' = wiped \cup keys
      /\ \A k \in Keys \ keys : table'[k] = table[k]
  BY DEF Wipe, vars
<1>2. \A k \in Present \ wiped' : Saved(k)' = Saved(k)
  BY <1>1, AsBefore, RowSaved DEF Present
<1>3. /\ Present' = Present /\ Batch' = Batch /\ Written' = Written
      /\ \A k : Quiet(k)' = Quiet(k) /\ EntryOf(k)' = EntryOf(k)
      /\ \A k : Pending(k)' = Pending(k)
      /\ \A e : Changed(e)' = Changed(e) /\ RowOf(e)' = RowOf(e)
  BY <1>1 DEF Present, Batch, Written, Quiet, EntryOf, Changed, RowOf, Unix, Pending,
              ServesStale, At
<1>4. HeapWhole' /\ Punctual' /\ Addressed' /\ BatchOK'
  BY <1>1, <1>3 DEF SaveInv, HeapWhole, Punctual, Addressed, BatchOK, Live, Whole, Entered
<1>5. RoundOK' /\ BootOK' /\ NextRoundSavesIt'
  BY <1>1, <1>2, <1>3 DEF SaveInv, RoundOK, BootOK, NextRoundSavesIt, Pending
<1> QED
  BY <1>4, <1>5 DEF SaveInv

(* Outside of a round nothing is said of a batch.                          *)
LEMMA OutOfRound ==
  ASSUME NEW pc \in {"down", "boot", "wait", "lock"}, loop' = LoopAt(pc), pins' = {}
  PROVE  BatchOK' /\ RoundOK' /\ loop'.pc = pc /\ loop'.start = 0
BY DEF BatchOK, RoundOK, Written, LoopAt, NoRows

LEMMA BootSaved ==
  ASSUME SaveInv, PersistenceInv', NEW keys \in SUBSET Loaded, Boot(keys)
  PROVE  SaveInv'
<1>1. PersistenceInv /\ Punctual /\ PersistenceTypeOK /\ DownOK
  BY DEF SaveInv, PersistenceInv
<1>2. /\ loop.pc = "down" /\ loop' = LoopAt("boot")
      /\ UNCHANGED <<clock, frame, pins, table, lastSave>>
  BY DEF Boot
<1>3. pins' = {} /\ \A t \in Threads : frame[t].pc = "idle"
  BY <1>1, <1>2 DEF DownOK, Idle
<1>4. BatchOK' /\ RoundOK' /\ loop'.pc = "boot" /\ loop'.start = 0
  BY <1>2, <1>3, OutOfRound
<1>5. clock \in Nat /\ StartTime <= clock
  BY <1>1 DEF PersistenceTypeOK, TypeOK, MapOK, Punctual
<1>6. Punctual'
  BY <1>1, <1>2, <1>3, <1>4, <1>5 DEF Punctual, Momentary
<1>7. /\ \A k \in keys : /\ entries'[k] # NoObj /\ entries'[k] \in {k} \X Slots
                         /\ heap'[entries'[k]] = EntryOfRow(k, table[k])
      /\ Present' = keys
      /\ heap' = [o \in Live' |-> EntryOfRow(o[1], table[o[1]])]
      /\ \A o \in Live' : o \in keys \X Slots
  BY <1>1, BootStore
<1>8. \A k \in keys : /\ k \in Keys /\ table[k] \in Row
                      /\ Loadable(EntryOfRow(k, table[k]), clock)
  BY <1>1 DEF Loaded, Readable, PersistenceTypeOK
<1>9. HeapWhole'
  <2> SUFFICES ASSUME NEW o \in Live' PROVE Whole(o, heap'[o])
    BY DEF HeapWhole, Whole
  <2>1. o[1] \in keys /\ heap'[o] = EntryOfRow(o[1], table[o[1]])
    BY <1>7
  <2> QED
    BY <1>5, <1>8, <2>1, LoadedIsWhole, EntryOfRowType DEF Whole
<1>10. Addressed'
  BY <1>7 DEF Addressed
<1>11. BootOK'
  <2> SUFFICES ASSUME NEW k \in keys PROVE Saved(k)'
    BY <1>7 DEF BootOK
  <2>1. EntryOf(k)' = EntryOfRow(k, table[k]) /\ table'[k] = table[k] /\ table[k] # NoRow
    BY <1>2, <1>7 DEF EntryOf, Loaded, Readable
  <2>2. EntryOfRow(k, table[k])' = EntryOfRow(k, table[k])
    BY <2>1 DEF EntryOfRow, Unix, OriginalTTL, Smaller, PackUsedDays, DayOf, ZoneOffset
  <2>3. Restored(EntryOf(k))' = Restored(EntryOfRow(k, table[k]))
    BY <2>1 DEF Restored, Unix, OriginalTTL, Smaller
  <2> QED
    BY <1>8, <2>1, <2>2, <2>3, LoadedIsSaved DEF Saved
<1>12. NextRoundSavesIt'
  BY <1>4 DEF NextRoundSavesIt
<1> QED
  BY <1>4, <1>6, <1>9, <1>10, <1>11, <1>12 DEF SaveInv

(* The process is down and holds nothing.                                  *)
LEMMA CrashSaved ==
  ASSUME SaveInv, PersistenceInv', Crash
  PROVE  SaveInv'
<1>1. /\ Present' = {} /\ pins' = {} /\ \A t \in Threads : frame'[t] = Idle
      /\ Live' = {}
  <2>1. PersistenceTypeOK
    BY DEF SaveInv, PersistenceInv
  <2> QED
    BY <2>1, CrashStore DEF Live, Crash, Idle
<1>2. loop' = LoopAt("down") /\ lastSave' = 0 /\ clock' = clock
  BY DEF Crash
<1>3. BatchOK' /\ RoundOK' /\ loop'.pc = "down" /\ loop'.start = 0
  BY <1>1, <1>2, OutOfRound
<1>4. clock \in Nat /\ StartTime <= clock
  BY DEF SaveInv, PersistenceInv, PersistenceTypeOK, TypeOK, MapOK, Punctual
<1>5. Punctual'
  BY <1>1, <1>2, <1>3, <1>4 DEF Punctual, Idle, Momentary
<1> QED
  BY <1>1, <1>3, <1>5 DEF SaveInv, HeapWhole, Addressed, BootOK, NextRoundSavesIt

LEMMA InitSaved == PersistenceInit => SaveInv
<1> SUFFICES ASSUME PersistenceInit PROVE SaveInv
  OBVIOUS
<1>1. /\ loop = LoopAt("down") /\ lastSave = 0 /\ clock = StartTime /\ pins = {}
      /\ Present = {} /\ Live = {} /\ \A t \in Threads : frame[t] = Idle
  BY DEF PersistenceInit, Init, Present, Live, Idle
<1>2. StartTime \in Nat
  BY CacheAssumption
<1>3. loop.pc = "down" /\ loop.start = 0 /\ Written = {}
  BY <1>1 DEF LoopAt, Written, NoRows
<1>4. Punctual
  BY <1>1, <1>2, <1>3 DEF Punctual, Idle, Momentary
<1> QED
  BY <1>1, <1>3, <1>4, InitPersistence
     DEF SaveInv, HeapWhole, Addressed, BatchOK, RoundOK, BootOK, NextRoundSavesIt

----------------------------------------------------------------------------
(* A round.  It changes no entry, so it is about the batch alone.          *)
LEMMA LoopLeaves ==
  ASSUME SaveInv, PersistenceInv', LoopStep \/ SaveFails,
         lastSave' <= clock, loop'.start <= clock
  PROVE  /\ UNCHANGED <<clock, serving, entries, frame>> /\ Present' = Present
         /\ HeapWhole' /\ Punctual' /\ Addressed'
         /\ \A k \in Present : Same(k) /\ EntryOf(k)' = EntryOf(k)
<1>1. TypeOK /\ HeapWhole /\ Punctual /\ PersistenceTypeOK /\ Addressed
  BY DEF SaveInv, PersistenceInv, PersistenceTypeOK
<1>2. UNCHANGED vars \/ Repin
  BY <1>1, LoopIsACaller
<1>3. UNCHANGED <<clock, serving, entries, frame>> /\ (UNCHANGED heap \/ Collect(heap))
  BY <1>2 DEF vars, Repin
<1>4. Live' \subseteq Live
  BY <1>2, <1>3 DEF vars, Repin, Live, Present
<1>5. Present' = Present /\ \A k \in Keys : entries'[k] \in {entries[k], NoObj}
  BY <1>3 DEF Present
<1> QED
  BY <1>1, <1>3, <1>4, <1>5, Undisturbed DEF Addressed, Same, Kept

(* The entry of a key in the batch is that of the map, as long as nothing  *)
(* has happened to it.                                                     *)
LEMMA BatchedEntry ==
  ASSUME SaveInv, loop.pc \in {"save", "row"}, NEW k \in Present \cap Batch, Quiet(k)
  PROVE  Batched(k) = EntryOf(k)
<1>1. entries[k] \in pins /\ entries[k][1] = k
  BY DEF SaveInv, BatchOK, Addressed
<1>2. \A o \in pins : o[1] = k => o = entries[k]
  BY <1>1 DEF SaveInv, BatchOK
<1> QED
  BY <1>1, <1>2 DEF Batched, EntryOf

LEMMA StartSaved ==
  ASSUME SaveInv, PersistenceInv', LoopStart \/ RoundStart
  PROVE  SaveInv'
<1>1. clock \in Nat /\ PersistenceTypeOK /\ lastSave <= clock
  BY DEF SaveInv, PersistenceInv, PersistenceTypeOK, TypeOK, MapOK, Punctual
<1>2. /\ UNCHANGED <<table, wiped, pins>> /\ loop.pc \in {"boot", "wait"}
      /\ lastSave' \in {clock, lastSave} /\ loop'.start \in {0, clock}
      /\ loop'.pc \in {"wait", "lock"} /\ Written' = {} /\ pins = {}
  BY <1>1 DEF LoopStart, RoundStart, LoopAt, vars, PersistenceTypeOK, Written, NoRows
<1>3. /\ Present' = Present /\ HeapWhole' /\ Punctual' /\ Addressed'
      /\ \A k \in Present : Same(k) /\ EntryOf(k)' = EntryOf(k)
  BY <1>1, <1>2, LoopLeaves DEF LoopStep
<1>4. \A k \in Present : Saved(k)' = Saved(k)
  BY <1>2, <1>3, RowSaved
<1>5. NextRoundSavesIt'
  <2> SUFFICES ASSUME NEW k \in Present \ wiped, ~Saved(k)
               PROVE  Changed(EntryOf(k))' \/ Pending(k)'
    BY <1>2, <1>3, <1>4 DEF NextRoundSavesIt, Pending
  <2> USE DEF Same
  <2>1. CASE LoopStart
    BY <1>3, <2>1 DEF LoopStart, SaveInv, BootOK, Changed
  <2>2. CASE RoundStart
    BY <1>3, <2>2 DEF RoundStart, SaveInv, NextRoundSavesIt, Changed, Pending
  <2> QED
    BY <2>1, <2>2
<1>6. BatchOK' /\ RoundOK' /\ BootOK'
  BY <1>2 DEF BatchOK, RoundOK, BootOK
<1> QED
  BY <1>3, <1>5, <1>6 DEF SaveInv

(* The scan.                                                               *)
LEMMA ScanSaved ==
  ASSUME SaveInv, PersistenceInv',
         ScanBegin \/ ScanEnd \/ \E k \in Keys : ScanEntry(k)
  PROVE  SaveInv'
<1>1. PersistenceTypeOK /\ loop \in LoopState /\ lastSave <= clock /\ loop.start <= clock
  BY DEF SaveInv, PersistenceInv, PersistenceTypeOK, Punctual
<1>2. /\ UNCHANGED <<table, lastSave, wiped>> /\ loop.pc \in {"lock", "scan"}
      /\ loop'.start = loop.start /\ loop'.pc \in {"scan", "save"}
      /\ Written' = Written
  <2>1. PICK pc, todo : loop' = [loop EXCEPT !.pc = pc, !.todo = todo] /\ pc \in {"scan", "save"}
    <3>1. ASSUME NEW k \in Keys, ScanEntry(k)
          PROVE  loop' = [loop EXCEPT !.pc = "scan", !.todo = loop.todo \ {k}]
      BY <1>1, <3>1 DEF ScanEntry, LoopState
    <3> QED
      BY <3>1 DEF ScanBegin, ScanEnd
  <2> QED
    BY <1>1, <2>1 DEF ScanBegin, ScanEnd, ScanEntry, LoopState, Written, vars
<1>3. /\ Present' = Present /\ HeapWhole' /\ Punctual' /\ Addressed'
      /\ UNCHANGED entries
      /\ \A k \in Present : Same(k) /\ EntryOf(k)' = EntryOf(k)
  BY <1>1, <1>2, LoopLeaves DEF LoopStep
<1>4. \A k \in Present : /\ Saved(k)' = Saved(k) /\ Quiet(k)' = Quiet(k)
                         /\ Changed(EntryOf(k))' = Changed(EntryOf(k))
                         /\ Pending(k)' = Pending(k)
  BY <1>2, <1>3, RowSaved DEF Quiet, Changed, Same
<1>5. NextRoundSavesIt' /\ BootOK'
  BY <1>2, <1>3, <1>4 DEF SaveInv, NextRoundSavesIt, BootOK, Pending
<1>6. CASE ScanBegin
  <2>1. pins' = {} /\ loop'.pc = "scan" /\ loop'.todo = Present /\ Written = {}
    BY <1>1, <1>6 DEF ScanBegin, vars, PersistenceTypeOK, LoopState, SaveInv, BatchOK, Batch
  <2>2. BatchOK' /\ RoundOK'
    BY <1>2, <1>3, <2>1 DEF BatchOK, RoundOK
  <2> QED
    BY <1>3, <1>5, <2>2 DEF SaveInv
<1>7. ASSUME NEW k \in Keys, ScanEntry(k) PROVE SaveInv'
  <2>1. /\ loop.pc = "scan" /\ k \in loop.todo /\ loop'.pc = "scan"
        /\ loop'.todo = loop.todo \ {k}
        /\ pins' = IF Changed(EntryOf(k)) THEN pins \cup {entries[k]} ELSE pins
    BY <1>1, <1>7 DEF ScanEntry, LoopState
  <2>2. k \in Present /\ entries[k][1] = k
    BY <1>1, <2>1 DEF PersistenceTypeOK, SaveInv, Addressed
  <2>3. /\ \A o, p \in pins : o[1] = p[1] => o = p
        /\ \A o \in pins : o[1] \in Present \ loop.todo /\ entries[o[1]] = o
        /\ Written \subseteq Batch
    BY <2>1 DEF SaveInv, BatchOK
  <2>4. BatchOK'
    BY <1>2, <1>3, <2>1, <2>2, <2>3 DEF BatchOK, Batch
  <2>5. ASSUME NEW j \in Present \ (loop'.todo \cup wiped), Quiet(j)
        PROVE  j \in Batch' \/ Saved(j)
    <3>1. CASE j = k
      BY <2>1, <2>2, <2>5, <3>1 DEF SaveInv, NextRoundSavesIt, Batch, Quiet, Pending
    <3>2. CASE j # k
      BY <2>1, <2>5, <3>2 DEF SaveInv, RoundOK, Batch
    <3> QED
      BY <3>1, <3>2
  <2>6. RoundOK'
    BY <1>2, <1>3, <1>4, <2>1, <2>5 DEF RoundOK
  <2> QED
    BY <1>3, <1>5, <2>4, <2>6 DEF SaveInv
<1>8. CASE ScanEnd
  <2>1. /\ loop.pc = "scan" /\ loop.todo = {} /\ loop'.pc = "save" /\ loop'.todo = Batch
        /\ pins' = pins /\ Batch' = Batch
    BY <1>1, <1>8 DEF ScanEnd, LoopState, Batch, vars
  <2>2. BatchOK'
    <3>1. \A k \in Present \cap Batch : entries[k] \in pins
      BY <2>1 DEF SaveInv, BatchOK, Batch
    <3> QED
      BY <1>2, <1>3, <2>1, <3>1 DEF SaveInv, BatchOK
  <2>3. RoundOK'
    BY <1>2, <1>3, <1>4, <2>1 DEF SaveInv, RoundOK
  <2> QED
    BY <1>3, <1>5, <2>2, <2>3 DEF SaveInv
<1> QED
  BY <1>6, <1>7, <1>8

(* A row is read, in two parts.                                            *)
LEMMA ReadSaved ==
  ASSUME SaveInv, PersistenceInv', NEW k \in Keys, ReadRow(k)
  PROVE  SaveInv'
<1> DEFINE e == Batched(k)
           row == [msg |-> e.resp.msg, at |-> e.resp.at,
                   storedAt |-> Unix(e.storedAt), ttl |-> Unix(e.ttl),
                   hits |-> e.hits, lastHit |-> e.lastHit, used |-> NoUse]
<1>1. PersistenceTypeOK /\ loop \in LoopState /\ lastSave <= clock /\ loop.start <= clock
  BY DEF SaveInv, PersistenceInv, PersistenceTypeOK, Punctual
<1>2. /\ loop.pc = "save" /\ k \in loop.todo /\ loop.todo \subseteq Batch
      /\ loop' = [loop EXCEPT !.pc = "row", !.key = k, !.row = row]
      /\ UNCHANGED <<table, lastSave, wiped, pins>>
  BY <1>1 DEF ReadRow, vars, PersistenceTypeOK, Batch
<1>3. row = [RowOf(e) EXCEPT !.used = NoUse]
  BY DEF RowOf
<1> HIDE DEF row
<1>4. /\ loop'.pc = "row" /\ loop'.key = k /\ loop'.row = row /\ loop'.todo = loop.todo
      /\ loop'.tx = loop.tx /\ loop'.start = loop.start
      /\ Written' = Written /\ Batch' = Batch
  BY <1>1, <1>2 DEF LoopState, Written, Batch
<1>5. /\ Present' = Present /\ HeapWhole' /\ Punctual' /\ Addressed'
      /\ UNCHANGED entries
      /\ \A j \in Present : Same(j) /\ EntryOf(j)' = EntryOf(j)
  BY <1>1, <1>2, <1>4, LoopLeaves DEF LoopStep
<1>6. \A j \in Present : /\ Saved(j)' = Saved(j) /\ Quiet(j)' = Quiet(j)
                         /\ Changed(EntryOf(j))' = Changed(EntryOf(j))
                         /\ RowOf(EntryOf(j))' = RowOf(EntryOf(j))
                         /\ Pending(j)' = Pending(j)
  BY <1>2, <1>4, <1>5, RowSaved DEF Quiet, Changed, RowOf, Unix, Same
<1>7. NextRoundSavesIt' /\ BootOK' /\ BatchOK'
  BY <1>2, <1>4, <1>5, <1>6 DEF SaveInv, NextRoundSavesIt, BootOK, BatchOK, Pending
<1>8. RoundOK'
  <2>1. k \in Present /\ Quiet(k) => loop'.row = [RowOf(EntryOf(k)) EXCEPT !.used = NoUse]
    BY <1>2, <1>3, <1>4, BatchedEntry
  <2> QED
    BY <1>2, <1>4, <1>5, <1>6, <2>1 DEF SaveInv, RoundOK
<1> QED
  BY <1>5, <1>7, <1>8 DEF SaveInv

LEMMA WriteSaved ==
  ASSUME SaveInv, PersistenceInv', WriteRow
  PROVE  SaveInv'
<1> DEFINE k == loop.key
           row == [loop.row EXCEPT !.used = Batched(k).used]
           tx == [loop.tx EXCEPT ![k] = row]
<1>1. /\ PersistenceTypeOK /\ loop \in LoopState /\ RowOK
      /\ lastSave <= clock /\ loop.start <= clock
  BY DEF SaveInv, PersistenceInv, PersistenceTypeOK, Punctual
<1>2. /\ loop.pc = "row" /\ k \in loop.todo /\ loop.todo \subseteq Batch /\ k \in Keys
      /\ UNCHANGED <<table, lastSave, wiped, pins>>
  BY <1>1 DEF WriteRow, RowOK, vars, PersistenceTypeOK, Batch, LoopState
<1>3. k \in Present /\ Quiet(k) => row = RowOf(EntryOf(k))
  <2> SUFFICES ASSUME k \in Present, Quiet(k) PROVE row = RowOf(EntryOf(k))
    OBVIOUS
  <2>1. loop.row = [RowOf(EntryOf(k)) EXCEPT !.used = NoUse]
    BY <1>2 DEF SaveInv, RoundOK
  <2>2. Batched(k) = EntryOf(k)
    BY <1>2, BatchedEntry
  <2>3. ASSUME NEW e
        PROVE  [[RowOf(e) EXCEPT !.used = NoUse] EXCEPT !.used = e.used] = RowOf(e)
    <3> DEFINE r == [RowOf(e) EXCEPT !.used = NoUse]
    <3>1. r = [msg |-> e.resp.msg, at |-> e.resp.at, storedAt |-> Unix(e.storedAt),
               ttl |-> Unix(e.ttl), hits |-> e.hits, lastHit |-> e.lastHit, used |-> NoUse]
      BY DEF RowOf
    <3> HIDE DEF r
    <3>2. [r EXCEPT !.used = e.used] = RowOf(e)
      BY <3>1 DEF RowOf
    <3> QED
      BY <3>2 DEF r
  <2> QED
    BY <2>1, <2>2, <2>3
<1>4. loop' = [loop EXCEPT !.pc = "save", !.todo = @ \ {k}, !.key = NoKey, !.row = NoRow,
                           !.tx = tx]
  BY <1>1 DEF WriteRow, LoopState
<1> HIDE DEF row
<1>5. \A j \in Keys : tx[j] = IF j = k THEN row ELSE loop.tx[j]
  BY <1>1, <1>2 DEF LoopState
<1> HIDE DEF tx
<1>6. /\ loop'.pc = "save" /\ loop'.tx = tx /\ loop'.todo = loop.todo \ {k}
      /\ loop'.start = loop.start /\ Batch' = Batch
  BY <1>1, <1>2, <1>4 DEF LoopState, Batch
<1>7. /\ Present' = Present /\ HeapWhole' /\ Punctual' /\ Addressed'
      /\ UNCHANGED entries
      /\ \A j \in Present : Same(j) /\ EntryOf(j)' = EntryOf(j)
  BY <1>1, <1>2, <1>6, LoopLeaves DEF LoopStep
<1>8. \A j \in Present : /\ Saved(j)' = Saved(j) /\ Quiet(j)' = Quiet(j)
                         /\ Changed(EntryOf(j))' = Changed(EntryOf(j))
                         /\ RowOf(EntryOf(j))' = RowOf(EntryOf(j))
                         /\ Pending(j)' = Pending(j)
  BY <1>2, <1>6, <1>7, RowSaved DEF Quiet, Changed, RowOf, Unix, Same
<1>9. NextRoundSavesIt' /\ BootOK'
  BY <1>2, <1>6, <1>7, <1>8 DEF SaveInv, NextRoundSavesIt, BootOK, Pending
<1>10. BatchOK'
  <2>1. Written' \subseteq Written \cup {k}
    BY <1>5, <1>6 DEF Written
  <2> QED
    BY <1>2, <1>6, <1>7, <1>8, <2>1 DEF SaveInv, BatchOK
<1>11. RoundOK'
  <2>1. ASSUME NEW j \in (Present \cap Batch) \ loop'.todo, Quiet(j)
        PROVE  loop'.tx[j] = RowOf(EntryOf(j))
    <3>1. j \in Keys
      BY DEF Present
    <3>2. CASE j = k
      BY <1>3, <1>5, <1>6, <2>1, <3>1, <3>2
    <3>3. CASE j # k
      BY <1>2, <1>5, <1>6, <2>1, <3>1, <3>3 DEF SaveInv, RoundOK
    <3> QED
      BY <3>2, <3>3
  <2>2. \A j \in Present \ (loop'.todo \cup wiped) : Quiet(j) => j \in Batch \/ Saved(j)
    BY <1>2, <1>6 DEF SaveInv, RoundOK
  <2> QED
    BY <1>2, <1>6, <1>7, <1>8, <2>1, <2>2 DEF RoundOK
<1> QED
  BY <1>7, <1>9, <1>10, <1>11 DEF SaveInv

(* The end of a round.  What nothing has happened to since it began is now *)
(* in the table; the rest has a time the next round goes by.               *)
LEMMA EndSaved ==
  ASSUME SaveInv, PersistenceInv', Commit \/ SaveFails
  PROVE  SaveInv'
<1>1. /\ PersistenceTypeOK /\ loop \in LoopState /\ lastSave \in Nat /\ TypeOK
      /\ lastSave <= clock /\ loop.start <= clock /\ clock \in Nat
  BY DEF SaveInv, PersistenceInv, PersistenceTypeOK, Punctual, TypeOK, MapOK
<1>2. /\ loop.pc \in {"save", "row"} /\ loop' = LoopAt("wait") /\ pins' = {}
      /\ lastSave' \in {lastSave, loop.start}
  BY EndRoundRepins DEF Commit, SaveFails
<1>3. BatchOK' /\ RoundOK' /\ loop'.pc = "wait" /\ loop'.start = 0
  BY <1>2, OutOfRound
<1>4. BootOK'
  BY <1>3 DEF BootOK
<1>5. /\ Present' = Present /\ HeapWhole' /\ Punctual' /\ Addressed'
      /\ \A k \in Present : Same(k) /\ EntryOf(k)' = EntryOf(k)
  BY <1>1, <1>2, <1>3, LoopLeaves DEF LoopStep
<1>6. ASSUME Commit, NEW k \in Present \ wiped', ~Changed(EntryOf(k))', ~Pending(k)'
      PROVE  Saved(k)'
  <2>1. /\ loop.todo = {} /\ loop.pc = "save" /\ lastSave' = loop.start
        /\ table' = Committed /\ wiped' = wiped \ Written
    BY <1>6 DEF Commit
  <2>2. EntryOf(k) \in Entry /\ k \in Keys /\ Whole(entries[k], EntryOf(k))
        /\ entries[k][1] = k
    BY <1>1, LiveEntry DEF SaveInv, HeapWhole, EntryOf, Present, Addressed
  <2>3. EntryOf(k).storedAt \in Nat /\ EntryOf(k).lastHit \in Nat /\ loop.start \in Nat
    BY <1>1, <2>2 DEF Entry, LoopState
  <2>4. Quiet(k)
    BY <1>5, <1>6, <2>1, <2>3 DEF Changed, Quiet, Same
  <2>5. CASE k \in Batch
    <3>1. loop.tx[k] = RowOf(EntryOf(k))
      BY <2>1, <2>4, <2>5 DEF SaveInv, RoundOK
    <3>2. loop.tx[k] # NoRow
      BY <2>2, <3>1, RowOfType, PersistenceAssumption
    <3>3. table'[k] = RowOf(EntryOf(k)) /\ table'[k] # NoRow
      BY <2>1, <2>2, <3>1, <3>2 DEF Committed, Written
    <3>4. EntryOfRow(k, RowOf(EntryOf(k))) = Restored(EntryOf(k))
      BY <2>2, RowRestores DEF Whole
    <3>5. EntryOfRow(k, table[k])' = EntryOfRow(k, table'[k])
      BY DEF EntryOfRow, Unix, OriginalTTL, Smaller, PackUsedDays, DayOf, ZoneOffset
    <3>6. Restored(EntryOf(k))' = Restored(EntryOf(k))
      BY <1>5 DEF Restored, Unix, OriginalTTL, Smaller
    <3> QED
      BY <3>3, <3>4, <3>5, <3>6 DEF Saved
  <2>6. CASE k \notin Batch
    <3>1. k \notin Written /\ k \notin wiped
      BY <1>6, <2>1, <2>6 DEF SaveInv, BatchOK
    <3>2. table'[k] = table[k]
      BY <2>1, <2>2, <3>1 DEF Committed
    <3>3. Saved(k)
      BY <2>1, <2>4, <2>6, <3>1 DEF SaveInv, RoundOK
    <3> QED
      BY <1>5, <3>2, <3>3, RowSaved
  <2> QED
    BY <2>5, <2>6
<1>7. ASSUME SaveFails PROVE NextRoundSavesIt'
  <2>1. UNCHANGED <<table, lastSave, wiped>>
    BY <1>7 DEF SaveFails
  <2>2. \A k \in Present : /\ Saved(k)' = Saved(k)
                           /\ Changed(EntryOf(k))' = Changed(EntryOf(k))
                           /\ Pending(k)' = Pending(k)
    BY <1>5, <2>1, RowSaved DEF Changed, Same
  <2> QED
    BY <1>2, <1>5, <2>1, <2>2 DEF SaveInv, NextRoundSavesIt, Pending
<1>8. NextRoundSavesIt'
  BY <1>5, <1>6, <1>7 DEF NextRoundSavesIt, Pending
<1> QED
  BY <1>3, <1>4, <1>5, <1>8 DEF SaveInv

LEMMA StutterSaved ==
  ASSUME SaveInv, UNCHANGED pvars
  PROVE  SaveInv'
<1>1. /\ UNCHANGED <<clock, serving, entries, heap, frame, pins>>
      /\ UNCHANGED <<table, lastSave, loop, wiped>>
  BY DEF pvars, vars, persistVars
<1>2. PersistenceInv'
  BY PersistenceStep DEF SaveInv
<1>3. Present' = Present /\ \A k \in Present : Same(k) /\ Saved(k)' = Saved(k)
  BY <1>1, AsBefore, RowSaved DEF Present
<1>4. /\ Batch' = Batch /\ Written' = Written
      /\ \A k : Quiet(k)' = Quiet(k) /\ EntryOf(k)' = EntryOf(k)
      /\ \A k : Pending(k)' = Pending(k)
      /\ \A e : Changed(e)' = Changed(e) /\ RowOf(e)' = RowOf(e)
  BY <1>1 DEF Present, Batch, Written, Quiet, EntryOf, Changed, RowOf, Unix, Pending,
              ServesStale, At
<1>5. HeapWhole' /\ Addressed' /\ Punctual' /\ BatchOK'
  BY <1>1, <1>3, <1>4
     DEF SaveInv, HeapWhole, Addressed, Whole, BatchOK, Live, Punctual, Entered
<1>6. RoundOK' /\ NextRoundSavesIt' /\ BootOK'
  BY <1>1, <1>3, <1>4 DEF SaveInv, RoundOK, NextRoundSavesIt, BootOK, Pending
<1> QED
  BY <1>2, <1>5, <1>6 DEF SaveInv

PromptNext == PersistenceNext /\ (clock' # clock => Prompt)

LEMMA SaveStep == SaveInv /\ [PromptNext]_pvars => SaveInv'
<1> SUFFICES ASSUME SaveInv, [PromptNext]_pvars PROVE SaveInv'
  OBVIOUS
<1>1. [PersistenceNext]_pvars /\ TypeOK /\ Addressed /\ PersistenceTypeOK
  BY DEF PromptNext, SaveInv, PersistenceInv, PersistenceTypeOK
<1>2. PersistenceInv'
  BY <1>1, PersistenceStep DEF SaveInv
<1>3. [CallerStep]_vars => Addressed'
  BY <1>1, CallerAddressed
<1>4. ASSUME NEW t \in Threads, ClientStep(t) PROVE SaveInv'
  BY <1>2, <1>3, <1>4, ClientIsACaller, ClientSaved
<1>5. CASE Serve \/ \E k \in Keys : Remove(k)
  <2>1. CallerStep
    BY <1>5 DEF Serve, Remove, CallerStep
  <2> QED
    BY <1>2, <1>3, <1>5, <2>1, OthersSaved
<1>6. CASE LoopStep \/ SaveFails
  BY <1>2, <1>6, StartSaved, ScanSaved, ReadSaved, WriteSaved, EndSaved DEF LoopStep
<1>7. CASE Cleanup \/ Flush
  BY <1>2, <1>7, WipeSaved DEF Cleanup, Flush
<1>8. CASE LoadAll \/ LoadFailed
  <2>1. Loaded \in SUBSET Loaded /\ {} \in SUBSET Loaded
    OBVIOUS
  <2> QED
    BY <1>2, <1>8, <2>1, BootSaved DEF LoadAll, LoadFailed
<1>9. CASE Crash
  BY <1>2, <1>9, CrashSaved
<1>10. CASE Tick /\ UNCHANGED persistVars /\ (clock' # clock => Prompt)
  BY <1>2, <1>10, TickSaved
<1>11. CASE UNCHANGED pvars
  BY <1>11, StutterSaved
<1> QED
  BY <1>4, <1>5, <1>6, <1>7, <1>8, <1>9, <1>10, <1>11 DEF PromptNext, PersistenceNext

(* Whatever a Get, a Set or a round has done to an entry and to its row,   *)
(* between whatever steps of persistLoop, and however many rounds have     *)
(* failed, the table has the entry or the next round takes it up.          *)
THEOREM NoChangeIsLost == PromptSpec => []NextRoundSavesIt
<1>1. SaveInv => NextRoundSavesIt
  BY DEF SaveInv
<1>2. [PersistenceNext /\ (clock' # clock => Prompt)]_pvars <=> [PromptNext]_pvars
  BY DEF PromptNext
<1> QED
  BY <1>1, <1>2, InitSaved, SaveStep, PTL DEF PromptSpec
=============================================================================
