---------------------------- MODULE CacheProofs ----------------------------
(***************************************************************************)
(* Theorems about module Cache, for every value of its constants.          *)
(***************************************************************************)
EXTENDS Cache, UsageDaysProofs, FiniteSetTheorems, TLAPS

(* The steps of any component that works through the cache: main with its  *)
(* rows, the calls with whatever answer, and a change of the entries held  *)
(* by a snapshot or a batch.  The steps of module Cache are among them.    *)
Repin ==
  /\ pins' \subseteq {entries[k] : k \in Present} \cup pins
  /\ UNCHANGED <<clock, serving, entries, frame>>
  /\ Collect(heap)

CallerStep ==
  \/ Tick \/ StartServing \/ \E e \in Rows : LoadEntry(e)
  \/ \E t \in Threads, k \in Keys :
       GetLookup(t, k) \/ StaleLookup(t, k) \/ \E r \in Response : SetNow(t, k, r)
  \/ \E t \in Threads : CallStep(t) \/ Release(t)
  \/ \E k \in Keys : Delete(k)
  \/ Repin

LEMMA DayType ==
  ASSUME NEW t \in Nat
  PROVE  DayOf(t) \in Nat
BY CacheAssumption DEF DayOf, ZoneOffset

(* Times n days apart, or in order, by the same offset.                    *)
LEMMA DaysApart ==
  ASSUME NEW a \in Nat, NEW b \in Nat, NEW n \in Nat, a + DayLen * n <= b
  PROVE  (a \div DayLen) + n <= b \div DayLen
<1> DEFINE x == a \div DayLen
           y == b \div DayLen
<1>1. /\ DayLen \in Nat \ {0} /\ x \in Nat /\ y \in Nat
      /\ DayLen * x <= a /\ b < DayLen * y + DayLen
  BY CacheAssumption
<1> HIDE DEF x, y
<1>2. DayLen * (x + n) = DayLen * x + DayLen * n /\ DayLen * n \in Nat
  BY <1>1
<1>3. DayLen * (x + n) < DayLen * (y + 1)
  BY <1>1, <1>2
<1>4. x + n < y + 1
  BY <1>1, <1>3
<1>5. x + n <= y
  BY <1>1, <1>4
<1> QED
  BY <1>5 DEF x, y

(* The TTL Set computes is a length of time, whatever the message says.    *)
LEMMA CachedTTLType ==
  ASSUME NEW m \in Answers
  PROVE  CachedTTL(m) \in Nat
<1>1. m \in Answer
  BY CacheAssumption
<1>2. OriginalTTL(m) \in Nat
  BY <1>1, CacheAssumption DEF OriginalTTL, Answer, Smaller
<1> QED
  BY <1>2, CacheAssumption DEF CachedTTL, Smaller, Larger

LEMMA NewEntryType ==
  ASSUME NEW k \in Keys, NEW r \in Response, NEW t \in Nat
  PROVE  /\ NewEntry(k, r, t) \in Entry
         /\ NewEntry(k, r, t).key = k
<1>1. CachedTTL(r.msg) \in Nat
  BY CachedTTLType DEF Response
<1>2. PackUsedDays(DayOf(t)) \in UsedDays
  BY DayType, MaskBitsAssumption DEF PackUsedDays, UsedDays
<1> QED
  BY <1>1, <1>2 DEF NewEntry, Entry

(* What a new entry inherits keeps its type.                               *)
LEMMA PublishedType ==
  ASSUME TypeOK, NEW t \in Threads, SetPublish(t)
  PROVE  /\ Published(frame[t]) \in Entry
         /\ Published(frame[t]).key = frame[t].key
<1> DEFINE f == frame[t]
           e == NewEntry(f.key, f.resp, f.time)
<1>1. /\ f.key \in Keys /\ f.resp \in Response /\ f.time \in Nat
      /\ f.hits \in Nat /\ f.lastHit \in Nat
  BY DEF SetPublish, TypeOK, FramesOK, FrameOK, Frame, InSet, At
<1>2. e \in Entry /\ e.key = f.key
  BY <1>1, NewEntryType
<1>3. CASE f.key \in Present
  <2>1. entries[f.key] \in Live
    BY <1>3, <1>1 DEF Present, Live
  <2> DEFINE u == EntryOf(f.key).used
             h == f.hits
             l == f.lastHit
  <2>2. u \in UsedDays /\ h \in Nat /\ l \in Nat
    BY <1>1, <2>1 DEF TypeOK, HeapOK, EntryOf, Entry
  <2>3. Published(f) = [e EXCEPT !.hits = h, !.lastHit = l, !.used = u]
    BY <1>3 DEF Published
  <2> HIDE DEF e, u, h, l
  <2>4. [e EXCEPT !.hits = h, !.lastHit = l, !.used = u] \in Entry
    BY <1>2, <2>2 DEF Entry
  <2>5. [e EXCEPT !.hits = h, !.lastHit = l, !.used = u].key = f.key
    BY <1>2 DEF Entry
  <2> QED
    BY <2>3, <2>4, <2>5
<1> QED
  BY <1>2, <1>3 DEF Published

----------------------------------------------------------------------------
(* The type invariant but for the lock.                                    *)
Types == MapOK /\ FramesOK /\ HeapOK

LEMMA FrameStep ==
  ASSUME FramesOK, NEW t \in Threads, NEW f, FrameOK(f),
         frame' = [frame EXCEPT ![t] = f]
  PROVE  FramesOK'
BY DEF FramesOK, FrameOK

LEMMA IdleOK == FrameOK(Idle)
BY DEF FrameOK, Idle, Frame, InGet, InSet

(* Looking an entry up, or working on it, leaves the live objects alone;   *)
(* giving a pointer back can only make them fewer.                         *)
LEMMA LiveStep ==
  ASSUME FramesOK, NEW t \in Threads, NEW f, frame' = [frame EXCEPT ![t] = f],
         UNCHANGED <<entries, pins>>
  PROVE  /\ f.obj = frame[t].obj => Live' = Live
         /\ f.obj = NoObj => Live' \subseteq Live
         /\ (frame[t].obj = NoObj /\ f.obj \in {entries[k] : k \in Keys} \cup {NoObj}) =>
              Live' = Live
<1>1. \A s \in Threads : frame'[s].obj = IF s = t THEN f.obj ELSE frame[s].obj
  BY DEF FramesOK
<1> QED
  BY <1>1 DEF Live

LEMMA HeapStep ==
  ASSUME TypeOK, NEW o \in Live, NEW e \in Entry, Live' = Live,
         heap' = [heap EXCEPT ![o] = e]
  PROVE  HeapOK'
BY DEF TypeOK, HeapOK

LEMMA CollectStep ==
  ASSUME TypeOK, Live' \subseteq Live, Collect(heap)
  PROVE  HeapOK'
BY DEF TypeOK, HeapOK, Collect

(* The steps of Get and GetStale that only look at the entry.              *)
LEMMA LookupType ==
  ASSUME TypeOK, NEW t \in Threads, NEW k \in Keys,
         GetLookup(t, k) \/ StaleLookup(t, k)
  PROVE  Types'
<1> USE DEF TypeOK, Types
<1>1. ASSUME NEW f, FrameOK(f), frame' = [frame EXCEPT ![t] = f],
             f.obj \in {entries[j] : j \in Keys} \cup {NoObj}
      PROVE  Types'
  <2>1. UNCHANGED <<clock, serving, entries, heap, pins>> /\ frame[t].obj = NoObj
    BY DEF GetLookup, StaleLookup, At, FramesOK, FrameOK, InSet
  <2>2. MapOK'
    BY <2>1 DEF MapOK
  <2>3. FramesOK'
    BY <1>1, FrameStep
  <2>4. Live' = Live
    BY <1>1, <2>1, LiveStep
  <2> QED
    BY <2>1, <2>2, <2>3, <2>4 DEF HeapOK
<1>2. CASE GetLookup(t, k)
  <2> DEFINE f == [Idle EXCEPT !.pc = IF entries[k] = NoObj THEN "done" ELSE "now",
                               !.key = k, !.obj = entries[k]]
  <2>1. FrameOK(f) /\ f.obj = entries[k]
    BY DEF FrameOK, Frame, Idle, InGet, InSet, MapOK
  <2>2. frame' = [frame EXCEPT ![t] = f]
    BY <1>2 DEF GetLookup, Calls
  <2> QED
    BY <1>1, <2>1, <2>2
<1>3. CASE StaleLookup(t, k)
  <2> DEFINE found == StaleServing /\ entries[k] # NoObj
             f == [Idle EXCEPT !.pc = IF found THEN "stale" ELSE "done", !.key = k,
                               !.obj = IF found THEN entries[k] ELSE NoObj]
  <2>1. FrameOK(f) /\ f.obj \in {entries[k], NoObj}
    BY DEF FrameOK, Frame, Idle, InGet, InSet, MapOK
  <2>2. frame' = [frame EXCEPT ![t] = f]
    BY <1>3 DEF StaleLookup, Calls
  <2> QED
    BY <1>1, <2>1, <2>2
<1> QED
  BY <1>2, <1>3

(* The steps of a call that change nothing but its own frame.              *)
LEMMA FrameOnlyType ==
  ASSUME TypeOK, NEW t \in Threads, NEW f, FrameOK(f), f.obj = frame[t].obj,
         frame' = [frame EXCEPT ![t] = f],
         UNCHANGED <<clock, serving, entries, heap, pins>>
  PROVE  Types'
<1> USE DEF TypeOK, Types
<1>1. FramesOK' /\ Live' = Live
  BY FrameStep, LiveStep
<1> QED
  BY <1>1 DEF MapOK, HeapOK

LEMMA GetNowType ==
  ASSUME TypeOK, NEW t \in Threads, GetNow(t) \/ StaleNow(t)
  PROVE  Types'
<1>1. PICK pc \in {"touch", "retouch"} :
        frame' = [frame EXCEPT ![t] = [@ EXCEPT !.pc = pc, !.time = clock]]
  BY DEF GetNow, StaleNow
<1> DEFINE f == [frame[t] EXCEPT !.pc = pc, !.time = clock]
<1>2. frame' = [frame EXCEPT ![t] = f]
  BY <1>1
<1>3. UNCHANGED <<clock, serving, entries, heap, pins>>
  BY DEF GetNow, StaleNow
<1>4. frame[t].pc \in {"now", "again"}
  BY DEF GetNow, StaleNow, At
<1>5. FrameOK(f) /\ f.obj = frame[t].obj
  BY <1>4 DEF TypeOK, FramesOK, FrameOK, Frame, MapOK, InGet, InSet
<1> HIDE DEF f
<1> QED
  BY <1>2, <1>3, <1>5, FrameOnlyType

LEMMA SetLockType ==
  ASSUME TypeOK, NEW t \in Threads, SetLock(t)
  PROVE  Types'
<1> DEFINE h == EntryOf(frame[t].key).hits
           f == [frame[t] EXCEPT !.pc = "copy", !.hits = h]
<1>1. frame' = [frame EXCEPT ![t] = f]
  BY DEF SetLock
<1>2. UNCHANGED <<clock, serving, entries, heap, pins>>
  BY DEF SetLock
<1>3. frame[t].pc = "publish" /\ frame[t].key \in Present
  BY DEF SetLock, At
<1>4. h \in Nat
  BY <1>3 DEF EntryOf, Present, Live, TypeOK, HeapOK, Entry
<1> HIDE DEF h
<1>5. FrameOK(f) /\ f.obj = frame[t].obj
  BY <1>3, <1>4 DEF TypeOK, FramesOK, FrameOK, Frame, InGet, InSet
<1> HIDE DEF f
<1> QED
  BY <1>1, <1>2, <1>5, FrameOnlyType

LEMMA SetCopyType ==
  ASSUME TypeOK, NEW t \in Threads, SetCopy(t)
  PROVE  Types'
<1> DEFINE h == EntryOf(frame[t].key).lastHit
           f == [frame[t] EXCEPT !.pc = "insert", !.lastHit = h]
<1>1. frame' = [frame EXCEPT ![t] = f]
  BY DEF SetCopy
<1>2. UNCHANGED <<clock, serving, entries, heap, pins>>
  BY DEF SetCopy
<1>3. frame[t].pc = "copy" /\ frame[t].key \in Present
  BY DEF SetCopy, At, TypeOK, LockOK, Copying
<1>4. h \in Nat
  BY <1>3 DEF EntryOf, Present, Live, TypeOK, HeapOK, Entry
<1> HIDE DEF h
<1>5. FrameOK(f) /\ f.obj = frame[t].obj
  BY <1>3, <1>4 DEF TypeOK, FramesOK, FrameOK, Frame, InGet, InSet
<1> HIDE DEF f
<1> QED
  BY <1>1, <1>2, <1>5, FrameOnlyType

(* A step of a call that changes a field of the entry it works on.         *)
LEMMA WorkType ==
  ASSUME TypeOK, NEW t \in Threads, NEW f, NEW e \in Entry,
         FrameOK(f), f.obj = frame[t].obj, f.obj # NoObj,
         frame' = [frame EXCEPT ![t] = f],
         heap' = [heap EXCEPT ![frame[t].obj] = e],
         UNCHANGED <<clock, serving, entries, pins>>
  PROVE  Types'
<1> USE DEF TypeOK, Types
<1>1. MapOK'
  BY DEF MapOK
<1>2. FramesOK'
  BY FrameStep
<1>3. Live' = Live
  BY LiveStep
<1>4. frame[t].obj \in Live
  BY DEF Live
<1>5. HeapOK'
  BY <1>3, <1>4, HeapStep
<1> QED
  BY <1>1, <1>2, <1>5

(* A step with which a call drops its pointer.                             *)
LEMMA DropType ==
  ASSUME TypeOK, NEW t \in Threads, NEW f, FrameOK(f), f.obj = NoObj,
         frame' = [frame EXCEPT ![t] = f], Collect(heap),
         UNCHANGED <<clock, serving, entries, pins>>
  PROVE  Types'
<1> USE DEF TypeOK, Types
<1>1. MapOK'
  BY DEF MapOK
<1>2. FramesOK'
  BY FrameStep
<1>3. Live' \subseteq Live
  BY LiveStep
<1> QED
  BY <1>1, <1>2, <1>3, CollectStep

(* What a call works on is an entry.                                       *)
LEMMA EnteredType ==
  ASSUME TypeOK, NEW t \in Threads, frame[t].obj # NoObj
  PROVE  Entered(t) \in Entry /\ Entered(t) = heap[frame[t].obj]
<1>1. frame[t].obj \in Live
  BY DEF Live
<1> QED
  BY <1>1 DEF TypeOK, HeapOK, Entered

LEMMA GetTouchType ==
  ASSUME TypeOK, NEW t \in Threads, GetTouch(t) \/ StaleTouch(t)
  PROVE  Types'
<1>6. PICK pc \in {"mark", "done"} :
        frame' = [frame EXCEPT ![t] = [@ EXCEPT !.pc = pc]]
  BY DEF GetTouch, StaleTouch
<1> DEFINE f == [frame[t] EXCEPT !.pc = pc]
           e == [heap[frame[t].obj] EXCEPT !.lastHit = frame[t].time]
<1>1. /\ FrameOK(f) /\ f.obj = frame[t].obj /\ f.obj # NoObj
      /\ frame[t].time \in Nat
  <2>1. frame[t].pc \in {"touch", "retouch"}
    BY DEF GetTouch, StaleTouch, At
  <2> QED
    BY <2>1 DEF TypeOK, FramesOK, FrameOK, Frame, InGet, InSet
<1>2. e \in Entry
  BY <1>1, EnteredType DEF Entry
<1>3. frame' = [frame EXCEPT ![t] = f]
  BY <1>6
<1>4. heap' = [heap EXCEPT ![frame[t].obj] = e]
  BY DEF GetTouch, StaleTouch
<1>5. UNCHANGED <<clock, serving, entries, pins>>
  BY DEF GetTouch, StaleTouch
<1> QED
  BY <1>1, <1>2, <1>3, <1>4, <1>5, WorkType

LEMMA GetMarkType ==
  ASSUME TypeOK, NEW t \in Threads, GetMark(t)
  PROVE  Types'
<1> DEFINE f == [frame[t] EXCEPT !.pc = "serve"]
           used == Marked(heap[frame[t].obj].used, DayOf(frame[t].time))
           e == [heap[frame[t].obj] EXCEPT !.used = used]
<1>1. /\ FrameOK(f) /\ f.obj = frame[t].obj /\ f.obj # NoObj
      /\ frame[t].time \in Nat
  BY DEF GetMark, TypeOK, FramesOK, FrameOK, Frame, InGet, InSet, At
<1>2. heap[frame[t].obj] \in Entry
  BY <1>1, EnteredType
<1>3. used \in UsedDays
  BY <1>1, <1>2, DayType, MarkedType DEF Entry
<1>4. e \in Entry
  BY <1>2, <1>3 DEF Entry
<1>5. frame' = [frame EXCEPT ![t] = f]
  BY DEF GetMark
<1>6. heap' = [heap EXCEPT ![frame[t].obj] = e]
  BY DEF GetMark, Entered
<1>7. UNCHANGED <<clock, serving, entries, pins>>
  BY DEF GetMark
<1> QED
  BY <1>1, <1>4, <1>5, <1>6, <1>7, WorkType

LEMMA CountHitType ==
  ASSUME NEW n \in Nat
  PROVE  CountHit(n) \in Nat
BY CacheAssumption DEF CountHit

LEMMA GetServeType ==
  ASSUME TypeOK, NEW t \in Threads, GetServe(t)
  PROVE  Types'
<1> DEFINE served == [frame[t] EXCEPT !.pc = "done"]
           missed == [frame[t] EXCEPT !.pc = "done", !.obj = NoObj]
           hits == CountHit(heap[frame[t].obj].hits)
           e == [heap[frame[t].obj] EXCEPT !.hits = hits]
<1>1. /\ FrameOK(served) /\ served.obj = frame[t].obj /\ served.obj # NoObj
      /\ FrameOK(missed) /\ missed.obj = NoObj
  BY DEF GetServe, TypeOK, FramesOK, FrameOK, Frame, InGet, InSet, At
<1>2. e \in Entry
  BY <1>1, EnteredType, CountHitType DEF Entry
<1>3. UNCHANGED <<clock, serving, entries, pins>>
  BY DEF GetServe
<1>4. CASE Servable(Entered(t), frame[t].time)
  <2>1. frame' = [frame EXCEPT ![t] = served]
    BY <1>4 DEF GetServe
  <2>2. heap' = [heap EXCEPT ![frame[t].obj] = e]
    BY <1>4 DEF GetServe, Entered
  <2> QED
    BY <1>1, <1>2, <1>3, <2>1, <2>2, WorkType
<1>5. CASE ~Servable(Entered(t), frame[t].time)
  <2>1. frame' = [frame EXCEPT ![t] = missed] /\ Collect(heap)
    BY <1>5 DEF GetServe
  <2> QED
    BY <1>1, <1>3, <2>1, DropType
<1> QED
  BY <1>4, <1>5

LEMMA StaleServeType ==
  ASSUME TypeOK, NEW t \in Threads, StaleServe(t)
  PROVE  Types'
<1> DEFINE served == [frame[t] EXCEPT !.pc = "again"]
           missed == [frame[t] EXCEPT !.pc = "done", !.obj = NoObj]
           hits == CountHit(heap[frame[t].obj].hits)
           e == [heap[frame[t].obj] EXCEPT !.hits = hits]
<1>1. /\ FrameOK(served) /\ served.obj = frame[t].obj /\ served.obj # NoObj
      /\ FrameOK(missed) /\ missed.obj = NoObj
  BY DEF StaleServe, TypeOK, FramesOK, FrameOK, Frame, InGet, InSet, At
<1>2. e \in Entry
  <2>1. heap[frame[t].obj] \in Entry /\ clock \in Nat
    BY <1>1, EnteredType DEF TypeOK, MapOK
  <2>2. CountHit(heap[frame[t].obj].hits) \in Nat
    BY <2>1, CountHitType DEF Entry
  <2> QED
    BY <2>1, <2>2 DEF Entry
<1>3. UNCHANGED <<clock, serving, entries, pins>>
  BY DEF StaleServe
<1>4. CASE StaleUsable(Entered(t), clock)
  <2>1. frame' = [frame EXCEPT ![t] = served]
    BY <1>4 DEF StaleServe
  <2>2. heap' = [heap EXCEPT ![frame[t].obj] = e]
    BY <1>4 DEF StaleServe, Entered
  <2> QED
    BY <1>1, <1>2, <1>3, <2>1, <2>2, WorkType
<1>5. CASE ~StaleUsable(Entered(t), clock)
  <2>1. frame' = [frame EXCEPT ![t] = missed] /\ Collect(heap)
    BY <1>5 DEF StaleServe
  <2> QED
    BY <1>1, <1>3, <2>1, DropType
<1> QED
  BY <1>4, <1>5

LEMMA ReleaseType ==
  ASSUME TypeOK, NEW t \in Threads, Release(t)
  PROVE  Types'
<1>1. FrameOK(Idle) /\ Idle.obj = NoObj
  BY IdleOK DEF Idle
<1>2. frame' = [frame EXCEPT ![t] = Idle] /\ Collect(heap)
  BY DEF Release
<1>3. UNCHANGED <<clock, serving, entries, pins>>
  BY DEF Release
<1> QED
  BY <1>1, <1>2, <1>3, DropType

LEMMA SetNowType ==
  ASSUME TypeOK, NEW t \in Threads, NEW k \in Keys, NEW r \in Response,
         SetNow(t, k, r)
  PROVE  Types'
<1> USE DEF TypeOK, Types
<1> DEFINE f == [Idle EXCEPT !.pc = "publish", !.key = k, !.time = clock, !.resp = r]
<1>1. frame' = [frame EXCEPT ![t] = f]
  BY DEF SetNow
<1>2. UNCHANGED <<clock, serving, entries, heap, pins>>
  BY DEF SetNow
<1>3. FrameOK(f) /\ f.obj = NoObj
  BY DEF FrameOK, Frame, Idle, InGet, InSet, MapOK
<1>4. frame[t].obj = NoObj
  BY DEF SetNow, At, FramesOK, FrameOK
<1>5. FramesOK' /\ Live' = Live
  BY <1>1, <1>2, <1>3, <1>4, FrameStep, LiveStep
<1> QED
  BY <1>2, <1>5 DEF MapOK, HeapOK

(* A new entry gets an address of its own key that no one refers to but    *)
(* possibly the map, which is about to forget the entry that was there.    *)
LEMMA NewObjType ==
  ASSUME NEW k \in Keys, FreeSlots(k) # {}
  PROVE  /\ NewObj(k) \in Objs
         /\ NewObj(k) \notin {frame[t].obj : t \in Threads} \cup pins
<1> DEFINE i == CHOOSE j \in FreeSlots(k) : TRUE
<1>1. i \in FreeSlots(k)
  OBVIOUS
<1>2. NewObj(k) = <<k, i>>
  BY DEF NewObj
<1> HIDE DEF i
<1>3. i \in Slots /\ <<k, i>> \notin pins /\ \A t \in Threads : frame[t].obj # <<k, i>>
  BY <1>1 DEF FreeSlots
<1> QED
  BY <1>2, <1>3 DEF Objs

(* The map, less what has been evicted, with an entry stored in it.        *)
LEMMA StoreType ==
  ASSUME TypeOK, NEW e \in Entry, NEW m, Store(m, e),
         m = entries \/ \E k \in Keys : m = [entries EXCEPT ![k] = NoObj],
         FramesOK', {frame'[t].obj : t \in Threads} \subseteq
                      {frame[t].obj : t \in Threads} \cup {NoObj},
         UNCHANGED <<clock, pins>>, serving' = serving
  PROVE  Types'
<1> USE DEF TypeOK, Types
<1> DEFINE o == NewObj(e.key)
<1>1. e.key \in Keys
  BY DEF Entry
<1>2. o \in Objs
  BY <1>1, NewObjType DEF Store
<1>3. /\ m \in [Keys -> Objs \cup {NoObj}]
      /\ \A k \in Keys : m[k] \in {entries[k], NoObj}
  BY DEF MapOK
<1>4. entries' = [m EXCEPT ![e.key] = o]
  BY DEF Store
<1>5. MapOK'
  BY <1>2, <1>3, <1>4 DEF MapOK
<1>6. Live' \subseteq Live \cup {o}
  BY <1>1, <1>3, <1>4 DEF Live
<1>7. heap' = [x \in Live' |-> IF x = o THEN e ELSE heap[x]]
  BY DEF Store
<1>8. HeapOK'
  BY <1>6, <1>7 DEF HeapOK
<1> QED
  BY <1>5, <1>8

LEMMA SetPublishType ==
  ASSUME TypeOK, NEW t \in Threads, SetPublish(t)
  PROVE  Types'
<1>1. frame' = [frame EXCEPT ![t] = Idle]
  BY DEF SetPublish
<1>2. UNCHANGED <<clock, pins>> /\ serving' = serving
  BY DEF SetPublish
<1>3. PICK m \in MadeRoom(frame[t].key) : Store(m, Published(frame[t]))
  BY DEF SetPublish
<1>4. m = entries \/ \E k \in Keys : m = [entries EXCEPT ![k] = NoObj]
  BY <1>3 DEF MadeRoom, Evicted, Victims, Present
<1>5. Published(frame[t]) \in Entry
  BY PublishedType
<1>6. FramesOK'
  BY <1>1, IdleOK, FrameStep DEF TypeOK
<1>7. {frame'[s].obj : s \in Threads} \subseteq
        {frame[s].obj : s \in Threads} \cup {NoObj}
  <2>1. \A s \in Threads : frame'[s] = IF s = t THEN Idle ELSE frame[s]
    BY <1>1 DEF TypeOK, FramesOK
  <2> QED
    BY <2>1 DEF Idle
<1> QED
  BY <1>2, <1>3, <1>4, <1>5, <1>6, <1>7, StoreType

LEMMA LoadEntryType ==
  ASSUME TypeOK, NEW e \in Rows, LoadEntry(e)
  PROVE  Types'
<1>1. e \in Entry
  BY CacheAssumption
<1>2. UNCHANGED <<clock, serving, frame, pins>> /\ Store(entries, e)
  BY DEF LoadEntry
<1>3. FramesOK'
  BY <1>2 DEF TypeOK, FramesOK, FrameOK
<1> QED
  BY <1>1, <1>2, <1>3, StoreType

(* Delete, and the end of a snapshot or its beginning: what is live can    *)
(* only become less.                                                       *)
LEMMA DeleteType ==
  ASSUME TypeOK, NEW k \in Keys, Delete(k)
  PROVE  Types'
<1> USE DEF TypeOK, Types
<1>1. UNCHANGED <<clock, serving, frame, pins>> /\ Collect(heap)
  BY DEF Delete
<1>2. entries' = [entries EXCEPT ![k] = NoObj]
  BY DEF Delete
<1>3. MapOK' /\ \A j \in Keys : entries'[j] \in {entries[j], NoObj}
  BY <1>1, <1>2 DEF MapOK
<1>4. FramesOK'
  BY <1>1 DEF FramesOK, FrameOK
<1>5. Live' \subseteq Live
  BY <1>1, <1>3 DEF Live
<1> QED
  BY <1>1, <1>3, <1>4, <1>5, CollectStep

LEMMA RepinType ==
  ASSUME TypeOK, Repin
  PROVE  Types'
<1> USE DEF TypeOK, Types
<1>1. UNCHANGED <<clock, serving, entries, frame>> /\ Collect(heap)
  BY DEF Repin
<1>2. pins' \in SUBSET ({entries[k] : k \in Present} \cup pins)
  BY DEF Repin
<1>3. pins' \in SUBSET Objs
  BY <1>2 DEF Present, MapOK
<1>4. MapOK'
  BY <1>1, <1>3 DEF MapOK
<1>5. FramesOK'
  BY <1>1 DEF FramesOK, FrameOK
<1>6. Live' \subseteq Live
  BY <1>1, <1>2 DEF Live, Present
<1> QED
  BY <1>1, <1>4, <1>5, <1>6, CollectStep

----------------------------------------------------------------------------
LEMMA InitType == Init => TypeOK
<1> SUFFICES ASSUME Init PROVE TypeOK
  OBVIOUS
<1>1. MapOK
  BY CacheAssumption DEF Init, MapOK
<1>2. FramesOK
  BY IdleOK DEF Init, FramesOK, FrameOK
<1>3. Live = {}
  BY DEF Init, Live, Idle
<1>4. LockOK
  BY DEF Init, LockOK, Copying, Idle
<1> QED
  BY <1>1, <1>2, <1>3, <1>4 DEF Init, TypeOK, HeapOK

LEMMA CallerTypes == TypeOK /\ [CallerStep]_vars => Types'
<1> SUFFICES ASSUME TypeOK, [CallerStep]_vars PROVE Types'
  OBVIOUS
<1>1. ASSUME \/ UNCHANGED <<clock, entries, heap, frame, pins>> /\ serving' \in BOOLEAN
             \/ Tick
             \/ UNCHANGED vars
      PROVE  Types'
  <2>1. /\ UNCHANGED <<entries, heap, frame, pins>> /\ clock' \in Nat
        /\ serving' \in BOOLEAN
    BY <1>1 DEF Tick, storeVars, vars, TypeOK, MapOK
  <2>2. Live' = Live
    BY <2>1 DEF Live
  <2> QED
    BY <2>1, <2>2 DEF TypeOK, Types, MapOK, FramesOK, FrameOK, HeapOK
<1>2. ASSUME NEW e \in Rows, LoadEntry(e) PROVE Types'
  BY <1>2, LoadEntryType
<1>3. ASSUME NEW t \in Threads, NEW k \in Keys,
             \/ GetLookup(t, k) \/ StaleLookup(t, k)
             \/ \E r \in Response : SetNow(t, k, r)
      PROVE  Types'
  BY <1>3, LookupType, SetNowType
<1>4. ASSUME NEW t \in Threads, CallStep(t) PROVE Types'
  BY <1>4, GetNowType, GetTouchType, GetMarkType, GetServeType, StaleServeType,
     SetLockType, SetCopyType, SetPublishType DEF CallStep
<1>5. ASSUME NEW t \in Threads, Release(t) PROVE Types'
  BY <1>5, ReleaseType
<1>6. ASSUME NEW k \in Keys, Delete(k) PROVE Types'
  BY <1>6, DeleteType
<1>7. CASE Repin
  BY <1>7, RepinType
<1>8. CASE StartServing
  BY <1>1, <1>8 DEF StartServing
<1> QED
  BY <1>1, <1>2, <1>3, <1>4, <1>5, <1>6, <1>7, <1>8 DEF CallerStep

(* The frame with which a call begins.                                     *)
LEMMA BegunFrame ==
  ASSUME NEW t \in Threads, NEW k \in Keys,
         \/ GetLookup(t, k) \/ StaleLookup(t, k)
         \/ \E r \in Response : SetNow(t, k, r)
  PROVE  /\ serving /\ UNCHANGED <<clock, serving, entries, heap, pins>>
         /\ \E f : /\ frame' = [frame EXCEPT ![t] = f] /\ f.obj \in {NoObj, entries[k]}
                   /\ \/ f.pc \in {"now", "done", "stale"}
                      \/ f.pc = "publish" /\ f.time = clock
<1>1. CASE GetLookup(t, k)
  <2> DEFINE f == [Idle EXCEPT !.pc = IF entries[k] = NoObj THEN "done" ELSE "now",
                               !.key = k, !.obj = entries[k]]
  <2>1. /\ frame' = [frame EXCEPT ![t] = f]
        /\ f.pc \in {"now", "done"} /\ f.obj = entries[k]
    BY <1>1 DEF GetLookup, Calls, Idle
  <2> QED
    BY <1>1, <2>1 DEF GetLookup
<1>2. CASE StaleLookup(t, k)
  <2> DEFINE found == StaleServing /\ entries[k] # NoObj
             f == [Idle EXCEPT !.pc = IF found THEN "stale" ELSE "done", !.key = k,
                               !.obj = IF found THEN entries[k] ELSE NoObj]
  <2>1. /\ frame' = [frame EXCEPT ![t] = f]
        /\ f.pc \in {"stale", "done"} /\ f.obj \in {NoObj, entries[k]}
    BY <1>2 DEF StaleLookup, Calls, Idle
  <2> QED
    BY <1>2, <2>1 DEF StaleLookup
<1>3. ASSUME NEW r \in Response, SetNow(t, k, r)
      PROVE  /\ serving /\ UNCHANGED <<clock, serving, entries, heap, pins>>
             /\ \E f : /\ frame' = [frame EXCEPT ![t] = f] /\ f.obj = NoObj
                       /\ f.pc = "publish" /\ f.time = clock
  <2> DEFINE f == [Idle EXCEPT !.pc = "publish", !.key = k, !.time = clock, !.resp = r]
  <2>1. /\ frame' = [frame EXCEPT ![t] = f]
        /\ f.obj = NoObj /\ f.pc = "publish" /\ f.time = clock
    BY <1>3 DEF SetNow, Idle
  <2> QED
    BY <1>3, <2>1 DEF SetNow
<1> QED
  BY <1>1, <1>2, <1>3

(* The lock.  Who copies the usage of an entry has it until it publishes.  *)
LEMMA CallerLock == TypeOK /\ [CallerStep]_vars => LockOK'
<1> SUFFICES ASSUME TypeOK, [CallerStep]_vars PROVE LockOK'
  OBVIOUS
<1> USE DEF TypeOK
<1>1. ASSUME NEW t \in Threads, NEW f, frame' = [frame EXCEPT ![t] = f],
             UNCHANGED entries,
             f.pc \in {"copy", "insert"} =>
               /\ LockFree \/ Copying(t)
               /\ f.key \in Present
      PROVE  LockOK'
  <2>1. \A s \in Threads : frame'[s] = IF s = t THEN f ELSE frame[s]
    BY <1>1 DEF FramesOK
  <2>2. Present' = Present
    BY <1>1 DEF Present
  <2> QED
    BY <1>1, <2>1, <2>2 DEF LockOK, LockFree, Copying
<1>2. ASSUME UNCHANGED frame, LockFree \/ Present \subseteq Present'
      PROVE  LockOK'
  BY <1>2 DEF LockOK, LockFree, Copying
<1>3. ASSUME NEW e \in Rows, LoadEntry(e) PROVE LockOK'
  <2>1. UNCHANGED frame /\ entries' = [entries EXCEPT ![e.key] = NewObj(e.key)]
    BY <1>3 DEF LoadEntry, Store
  <2>2. e.key \in Keys /\ NewObj(e.key) # NoObj
    BY <1>3, NewObjType, CacheAssumption DEF LoadEntry, Store, Entry
  <2>3. Present \subseteq Present'
    BY <2>1, <2>2 DEF Present, MapOK
  <2> QED
    BY <1>2, <2>1, <2>3
<1>4. ASSUME NEW t \in Threads, NEW k \in Keys,
             \/ GetLookup(t, k) \/ StaleLookup(t, k)
             \/ \E r \in Response : SetNow(t, k, r)
      PROVE  LockOK'
  <2>1. UNCHANGED entries
    BY <1>4 DEF GetLookup, StaleLookup, SetNow
  <2>2. \E f : /\ frame' = [frame EXCEPT ![t] = f]
               /\ f.pc \in {"now", "done", "stale", "publish"}
    BY <1>4, BegunFrame
  <2> QED
    BY <1>1, <2>1, <2>2
<1>5. ASSUME NEW t \in Threads,
             \/ GetNow(t) \/ GetTouch(t) \/ GetMark(t) \/ GetServe(t)
             \/ StaleServe(t) \/ StaleNow(t) \/ StaleTouch(t) \/ Release(t)
      PROVE  LockOK'
  <2>1. UNCHANGED entries
    BY <1>5 DEF GetNow, GetTouch, GetMark, GetServe, StaleServe, StaleNow, StaleTouch,
       Release
  <2>2. \E f : /\ frame' = [frame EXCEPT ![t] = f]
               /\ f.pc \in InGet \cup {"idle", "done"}
    <3>1. CASE Release(t)
      <4>1. frame' = [frame EXCEPT ![t] = Idle] /\ Idle.pc = "idle"
        BY <3>1 DEF Release, Idle
      <4> QED
        BY <4>1
    <3>5. frame[t] \in Frame
      BY DEF FramesOK
    <3>6. \A pc : [frame[t] EXCEPT !.pc = pc].pc = pc
      BY <3>5 DEF Frame
    <3>2. CASE GetServe(t) \/ StaleServe(t)
      <4> DEFINE f(pc) == [frame[t] EXCEPT !.pc = pc]
                 g == [frame[t] EXCEPT !.pc = "done", !.obj = NoObj]
      <4>1. \/ \E pc \in {"again", "done"} : frame' = [frame EXCEPT ![t] = f(pc)]
            \/ frame' = [frame EXCEPT ![t] = g]
        BY <3>2 DEF GetServe, StaleServe
      <4>2. g.pc = "done" /\ \A pc : f(pc).pc = pc
        BY <3>5, <3>6 DEF Frame
      <4> HIDE DEF f, g
      <4> QED
        BY <4>1, <4>2 DEF InGet
    <3>3. CASE GetNow(t) \/ StaleNow(t)
      <4> DEFINE f(pc) == [frame[t] EXCEPT !.pc = pc, !.time = clock]
      <4>1. \E pc \in InGet : frame' = [frame EXCEPT ![t] = f(pc)]
        BY <3>3 DEF GetNow, StaleNow, InGet
      <4>2. \A pc : f(pc).pc = pc
        BY <3>5 DEF Frame
      <4> HIDE DEF f
      <4> QED
        BY <4>1, <4>2
    <3>4. CASE GetTouch(t) \/ GetMark(t) \/ StaleTouch(t)
      <4> DEFINE f(pc) == [frame[t] EXCEPT !.pc = pc]
      <4>1. \E pc \in InGet \cup {"done"} : frame' = [frame EXCEPT ![t] = f(pc)]
        BY <3>4 DEF GetTouch, GetMark, StaleTouch, InGet
      <4>2. \A pc : f(pc).pc = pc
        BY <3>6
      <4> HIDE DEF f
      <4> QED
        BY <4>1, <4>2
    <3> QED
      BY <1>5, <3>1, <3>2, <3>3, <3>4
  <2> QED
    BY <1>1, <2>1, <2>2 DEF InGet
<1>6. ASSUME NEW t \in Threads, SetLock(t) PROVE LockOK'
  <2> DEFINE f == [frame[t] EXCEPT !.pc = "copy", !.hits = EntryOf(frame[t].key).hits]
  <2>1. frame' = [frame EXCEPT ![t] = f] /\ UNCHANGED entries /\ f.key = frame[t].key
    BY <1>6 DEF SetLock, FramesOK, Frame
  <2> QED
    BY <1>1, <1>6, <2>1 DEF SetLock
<1>7. ASSUME NEW t \in Threads, SetCopy(t) PROVE LockOK'
  <2> DEFINE f == [frame[t] EXCEPT !.pc = "insert",
                                   !.lastHit = EntryOf(frame[t].key).lastHit]
  <2>1. frame' = [frame EXCEPT ![t] = f] /\ UNCHANGED entries /\ f.key = frame[t].key
    BY <1>7 DEF SetCopy, FramesOK, Frame
  <2>2. Copying(t) /\ frame[t].key \in Present
    BY <1>7 DEF SetCopy, At, Copying, LockOK
  <2> QED
    BY <1>1, <2>1, <2>2
<1>8. ASSUME NEW t \in Threads, SetPublish(t) PROVE LockOK'
  <2>1. \A s \in Threads : frame'[s] = IF s = t THEN Idle ELSE frame[s]
    BY <1>8 DEF SetPublish, FramesOK
  <2>2. \A s \in Threads : s # t => ~Copying(s)
    BY <1>8 DEF SetPublish, At, Copying, LockFree, LockOK
  <2> QED
    BY <2>1, <2>2 DEF LockOK, Copying, Idle
<1>9. ASSUME NEW k \in Keys, Delete(k) PROVE LockOK'
  BY <1>2, <1>9 DEF Delete
<1>10. CASE Tick \/ StartServing \/ Repin \/ UNCHANGED vars
  <2>1. UNCHANGED <<frame, entries>>
    BY <1>10 DEF Tick, StartServing, Repin, vars, storeVars
  <2> QED
    BY <1>2, <2>1 DEF Present
<1> QED
  BY <1>3, <1>4, <1>5, <1>6, <1>7, <1>8, <1>9, <1>10 DEF CallerStep, CallStep

LEMMA CallerType == TypeOK /\ [CallerStep]_vars => TypeOK'
BY CallerTypes, CallerLock DEF TypeOK, Types

LEMMA NextIsACallerStep == TypeOK /\ [Next]_vars => [CallerStep]_vars
<1> SUFFICES ASSUME TypeOK, [Next]_vars PROVE [CallerStep]_vars
  OBVIOUS
<1>1. ASSUME NEW t \in Threads, Begin(t) PROVE CallerStep
  <2>1. PICK k \in Keys : \/ GetLookup(t, k) \/ StaleLookup(t, k)
                         \/ \E m \in Answers : SetNow(t, k, [msg |-> m, at |-> clock])
    BY <1>1 DEF Begin
  <2>2. \A m \in Answers : [msg |-> m, at |-> clock] \in Response
    BY DEF TypeOK, MapOK, Response
  <2> QED
    BY <2>1, <2>2 DEF CallerStep
<1>2. Snapshot \/ DropSnapshot => Repin
  BY DEF Snapshot, DropSnapshot, Repin
<1> QED
  BY <1>1, <1>2 DEF Next, CallerStep

(* Whichever calls interleave, the map and the pointers goroutines hold    *)
(* are of their types, and the heap holds exactly what they point to.      *)
THEOREM TypeCorrect == Spec => []TypeOK
BY InitType, CallerType, NextIsACallerStep, PTL DEF Spec

----------------------------------------------------------------------------
(* The bound on the map.  It is inductive together with: until the server  *)
(* runs, the map holds nothing but rows, and no call is under way.         *)
Loading == ~serving => Present \subseteq RowKeys /\ \A t \in Threads : At(t, "idle")

SizeInv == Loading /\ SizeBound

LEMMA Finite ==
  /\ \A S \in SUBSET Keys : IsFiniteSet(S) /\ Cardinality(S) \in Nat
  /\ RowKeys \in SUBSET Keys
  /\ Capacity \in Nat /\ Capacity >= 1 /\ Capacity >= MaxEntries
  /\ Capacity >= Cardinality(RowKeys)
<1>1. \A S \in SUBSET Keys : IsFiniteSet(S) /\ Cardinality(S) \in Nat
  BY CacheAssumption, FS_Subset, FS_CardinalityType
<1>2. RowKeys \in SUBSET Keys
  BY CacheAssumption DEF RowKeys, Entry
<1> QED
  BY <1>1, <1>2, CacheAssumption DEF Capacity, Larger

(* Once the server runs, a step that adds no key keeps the bound.          *)
LEMMA ShrinkSize ==
  ASSUME SizeInv, Present' \subseteq Present, serving'
  PROVE  SizeInv'
<1>1. Cardinality(Present') <= Cardinality(Present)
  BY Finite, FS_Subset DEF Present
<1>2. Cardinality(Present') \in Nat /\ Cardinality(Present) \in Nat
  BY Finite DEF Present
<1> QED
  BY <1>1, <1>2, Finite DEF SizeInv, Loading, SizeBound, Capacity, RowKeys, Larger

LEMMA LoadEntrySize ==
  ASSUME TypeOK, SizeInv, NEW e \in Rows, LoadEntry(e)
  PROVE  SizeInv'
<1>1. e.key \in RowKeys /\ RowKeys \subseteq Keys
  BY Finite DEF RowKeys
<1>2. ~serving /\ UNCHANGED <<serving, frame>>
  BY DEF LoadEntry
<1>3. entries' = [entries EXCEPT ![e.key] = NewObj(e.key)]
  BY DEF LoadEntry, Store
<1>4. Present' \subseteq Present \cup {e.key}
  BY <1>1, <1>3 DEF TypeOK, MapOK, Present
<1>5. Present' \subseteq RowKeys /\ \A t \in Threads : At(t, "idle")'
  BY <1>1, <1>2, <1>4 DEF SizeInv, Loading, At
<1>6. IsFiniteSet(RowKeys) /\ Cardinality(Present') <= Cardinality(RowKeys)
  BY <1>5, Finite, FS_Subset
<1>7. Cardinality(Present') \in Nat /\ Cardinality(RowKeys) \in Nat
  BY Finite DEF Present
<1>8. SizeBound'
  BY <1>6, <1>7, Finite DEF SizeBound
<1> QED
  BY <1>5, <1>8 DEF SizeInv, Loading, RowKeys

(* Set adds a key only below MaxEntries, into an empty map, or in place of *)
(* the key it has evicted.                                                 *)
LEMMA SetPublishSize ==
  ASSUME TypeOK, SizeInv, NEW t \in Threads, SetPublish(t)
  PROVE  SizeInv'
<1> DEFINE k == frame[t].key
<1>1. frame[t].pc \in {"publish", "insert"} /\ serving' = serving
  BY DEF SetPublish, At
<1>2. serving'
  BY <1>1 DEF SizeInv, Loading, At, TypeOK, MapOK
<1>3. k \in Keys /\ Published(frame[t]).key = k
  BY <1>1, PublishedType DEF TypeOK, FramesOK, FrameOK
<1>4. PICK m \in MadeRoom(k) : Store(m, Published(frame[t]))
  BY DEF SetPublish
<1>5. entries' = [m EXCEPT ![k] = NewObj(k)]
  BY <1>3, <1>4 DEF Store
<1>6. entries \in [Keys -> Objs \cup {NoObj}]
  BY DEF TypeOK, MapOK
<1>7. /\ IsFiniteSet(Present) /\ IsFiniteSet(Present')
      /\ Cardinality(Present) \in Nat /\ Cardinality(Present') \in Nat
  BY Finite DEF Present
<1>8. CASE k \in Present
  <2>1. m = entries
    BY <1>4, <1>8 DEF MadeRoom
  <2>2. Present' \subseteq Present
    BY <1>5, <1>6, <1>8, <2>1 DEF Present
  <2> QED
    BY <1>2, <2>2, ShrinkSize
<1>9. CASE k \notin Present
  <2>1. CASE m = entries /\ (Cardinality(Present) < MaxEntries \/ Present = {})
    <3>1. Present' \subseteq Present \cup {k}
      BY <1>5, <1>6, <2>1 DEF Present
    <3>2. /\ IsFiniteSet(Present \cup {k})
          /\ Cardinality(Present \cup {k}) = Cardinality(Present) + 1
      BY <1>7, <1>9, FS_AddElement
    <3>3. Cardinality(Present') <= Cardinality(Present) + 1
      BY <3>1, <3>2, FS_Subset
    <3>4. Present = {} => Cardinality(Present) = 0
      BY FS_EmptySet
    <3> QED
      BY <1>2, <1>7, <2>1, <3>3, <3>4, Finite, CacheAssumption
         DEF SizeInv, Loading, SizeBound, Capacity, RowKeys, Larger
  <2>2. CASE \E v \in Present : m = [entries EXCEPT ![v] = NoObj]
    <3>1. PICK v \in Present : m = [entries EXCEPT ![v] = NoObj]
      BY <2>2
    <3>2. Present' \subseteq (Present \ {v}) \cup {k}
      BY <1>5, <1>6, <3>1 DEF Present
    <3> DEFINE S == Present \ {v}
    <3>3. IsFiniteSet(S) /\ Cardinality(S) = Cardinality(Present) - 1 /\ k \notin S
      BY <1>7, <1>9, <3>1, FS_RemoveElement
    <3> HIDE DEF S
    <3>4. IsFiniteSet(S \cup {k}) /\ Cardinality(S \cup {k}) = Cardinality(Present)
      <4>1. /\ IsFiniteSet(S \cup {k})
            /\ Cardinality(S \cup {k}) = IF k \in S THEN Cardinality(S)
                                         ELSE Cardinality(S) + 1
        BY <3>3, FS_AddElement
      <4> QED
        BY <1>7, <3>3, <4>1
    <3>5. Cardinality(Present') <= Cardinality(Present)
      BY <3>2, <3>4, FS_Subset DEF S
    <3> QED
      BY <1>2, <1>7, <3>5, Finite
         DEF SizeInv, Loading, SizeBound, Capacity, RowKeys, Larger
  <2>3. (m = entries /\ (Cardinality(Present) < MaxEntries \/ Present = {}))
          \/ \E v \in Present : m = [entries EXCEPT ![v] = NoObj]
    BY <1>4, <1>7, <1>9, CacheAssumption DEF MadeRoom, Evicted, Victims
  <2> QED
    BY <2>1, <2>2, <2>3
<1> QED
  BY <1>8, <1>9

(* A step that leaves the map alone.                                       *)
LEMMA SameMapSize ==
  ASSUME SizeInv, UNCHANGED entries, serving' \/ UNCHANGED <<serving, frame>>
  PROVE  SizeInv'
<1>1. Present' = Present
  BY DEF Present
<1> QED
  BY <1>1 DEF SizeInv, Loading, SizeBound, Capacity, RowKeys, Larger, At

LEMMA CallerSize == TypeOK /\ SizeInv /\ [CallerStep]_vars => SizeInv'
<1> SUFFICES ASSUME TypeOK, SizeInv, [CallerStep]_vars PROVE SizeInv'
  OBVIOUS
<1>1. CASE Tick \/ StartServing \/ Repin \/ UNCHANGED vars
  BY <1>1, SameMapSize DEF Tick, StartServing, Repin, vars, storeVars
<1>2. ASSUME NEW e \in Rows, LoadEntry(e) PROVE SizeInv'
  BY <1>2, LoadEntrySize
<1>3. ASSUME NEW t \in Threads, SetPublish(t) PROVE SizeInv'
  BY <1>3, SetPublishSize
<1>4. ASSUME NEW k \in Keys, Delete(k) PROVE SizeInv'
  <2>1. serving' /\ entries' = [entries EXCEPT ![k] = NoObj]
    BY <1>4 DEF Delete, TypeOK, MapOK
  <2>2. Present' \subseteq Present
    BY <2>1 DEF Present, TypeOK, MapOK
  <2> QED
    BY <2>1, <2>2, ShrinkSize
<1>5. ASSUME NEW t \in Threads,
             \/ GetNow(t) \/ GetTouch(t) \/ GetMark(t) \/ GetServe(t)
             \/ StaleServe(t) \/ StaleNow(t) \/ StaleTouch(t)
             \/ SetLock(t) \/ SetCopy(t) \/ Release(t)
      PROVE  SizeInv'
  <2>1. ~At(t, "idle") /\ UNCHANGED <<serving, entries>>
    BY <1>5 DEF GetNow, GetTouch, GetMark, GetServe, StaleServe, StaleNow, StaleTouch,
       SetLock, SetCopy, Release, At
  <2>2. serving'
    BY <2>1 DEF SizeInv, Loading, TypeOK, MapOK
  <2> QED
    BY <2>1, <2>2, SameMapSize
<1>6. ASSUME NEW t \in Threads, NEW k \in Keys,
             \/ GetLookup(t, k) \/ StaleLookup(t, k)
             \/ \E r \in Response : SetNow(t, k, r)
      PROVE  SizeInv'
  <2>1. serving' /\ UNCHANGED entries
    BY <1>6, BegunFrame
  <2> QED
    BY <2>1, SameMapSize
<1> QED
  BY <1>1, <1>2, <1>3, <1>4, <1>5, <1>6 DEF CallerStep, CallStep

LEMMA InitSize == Init => SizeInv
<1> SUFFICES ASSUME Init PROVE SizeInv
  OBVIOUS
<1>1. Present = {} /\ \A t \in Threads : At(t, "idle")
  BY DEF Init, Present, At, Idle
<1>2. Cardinality(Present) = 0
  BY <1>1, FS_EmptySet
<1> QED
  BY <1>1, <1>2, Finite DEF SizeInv, Loading, SizeBound

(* Set keeps the map within MaxEntries (or one entry, or the rows that     *)
(* were loaded), however its callers interleave with each other, with Get  *)
(* and with Delete.                                                        *)
THEOREM SizeBounded == Spec => []SizeBound
<1>1. SizeInv => SizeBound
  BY DEF SizeInv
<1> QED
  BY <1>1, InitSize, CallerSize, NextIsACallerStep, TypeCorrect, PTL DEF Spec

----------------------------------------------------------------------------
(* What happens to the entries.  An object is an entry of the key in its   *)
(* address; its answer and its times never change while anyone holds it.   *)
Addressed == \A k \in Present : entries[k] \in {k} \X Slots

SameAnswer(o) ==
  /\ o \in Live
  /\ heap'[o].key = heap[o].key /\ heap'[o].resp = heap[o].resp
  /\ heap'[o].storedAt = heap[o].storedAt /\ heap'[o].ttl = heap[o].ttl

Held == {frame[t].obj : t \in Threads} \cup pins

(* What a Set call or the load puts into the map.                          *)
LEMMA Stored ==
  ASSUME TypeOK, NEW e \in Entry, NEW m, Store(m, e),
         m = entries \/ \E v \in Keys : m = [entries EXCEPT ![v] = NoObj]
  PROVE  /\ entries'[e.key] = NewObj(e.key)
         /\ NewObj(e.key) \in {e.key} \X Slots /\ NewObj(e.key) \notin Held
         /\ NewObj(e.key) \in Live' /\ heap'[NewObj(e.key)] = e
         /\ \A o \in Live' : o # NewObj(e.key) => heap'[o] = heap[o]
         /\ \A k \in Keys : k # e.key => entries'[k] = m[k]
<1>1. e.key \in Keys /\ FreeSlots(e.key) # {}
  BY DEF Entry, Store
<1>2. NewObj(e.key) \in {e.key} \X Slots /\ NewObj(e.key) \notin Held
  <2> DEFINE i == CHOOSE j \in FreeSlots(e.key) : TRUE
  <2>1. i \in FreeSlots(e.key)
    BY <1>1
  <2>2. NewObj(e.key) = <<e.key, i>>
    BY DEF NewObj
  <2> HIDE DEF i
  <2> QED
    BY <2>1, <2>2 DEF FreeSlots, Held
<1>3. entries' = [m EXCEPT ![e.key] = NewObj(e.key)]
  BY DEF Store
<1>4. /\ entries'[e.key] = NewObj(e.key)
      /\ \A k \in Keys : k # e.key => entries'[k] = m[k]
  BY <1>1, <1>3 DEF TypeOK, MapOK
<1>5. NewObj(e.key) \in Live'
  <2>1. NewObj(e.key) # NoObj
    BY <1>1, <1>2, CacheAssumption DEF Objs
  <2> QED
    BY <1>1, <1>4, <2>1 DEF Live
<1>6. heap' = [o \in Live' |-> IF o = NewObj(e.key) THEN e ELSE heap[o]]
  BY DEF Store
<1> QED
  BY <1>2, <1>4, <1>5, <1>6

LEMMA LoadStores ==
  ASSUME TypeOK, NEW e \in Rows, LoadEntry(e)
  PROVE  e \in Entry /\ Store(entries, e) /\ e.key \in Keys
BY CacheAssumption DEF LoadEntry, Entry

LEMMA PublishStores ==
  ASSUME TypeOK, NEW t \in Threads, SetPublish(t)
  PROVE  /\ Published(frame[t]) \in Entry /\ Published(frame[t]).key = frame[t].key
         /\ \E m \in MadeRoom(frame[t].key) :
              /\ Store(m, Published(frame[t]))
              /\ m = entries \/ \E v \in Present : m = [entries EXCEPT ![v] = NoObj]
<1>1. PICK m \in MadeRoom(frame[t].key) : Store(m, Published(frame[t]))
  BY DEF SetPublish
<1>2. m = entries \/ \E v \in Present : m = [entries EXCEPT ![v] = NoObj]
  BY <1>1 DEF MadeRoom, Evicted, Victims
<1> QED
  BY <1>1, <1>2, PublishedType DEF SetPublish

SameObject(o) == o \in Live /\ heap'[o] = heap[o]

WorksOn(t, o) ==
  /\ frame[t].obj = o
  /\ GetTouch(t) \/ GetMark(t) \/ GetServe(t) \/ StaleServe(t) \/ StaleTouch(t)

(* What a live object may become in a step.                                *)
LEMMA ObjectChange ==
  ASSUME TypeOK, [CallerStep]_vars, NEW o \in Live'
  PROVE  \/ SameObject(o)
         \/ \E t \in Threads : WorksOn(t, o)
         \/ \E e \in Rows : LoadEntry(e) /\ o = NewObj(e.key) /\ heap'[o] = e
         \/ \E t \in Threads : /\ SetPublish(t) /\ o = NewObj(frame[t].key)
                               /\ heap'[o] = Published(frame[t])
<1> SUFFICES ASSUME ~SameObject(o)
             PROVE  \/ \E t \in Threads : WorksOn(t, o)
                    \/ \E e \in Rows : LoadEntry(e) /\ o = NewObj(e.key) /\ heap'[o] = e
                    \/ \E t \in Threads : /\ SetPublish(t) /\ o = NewObj(frame[t].key)
                                          /\ heap'[o] = Published(frame[t])
  OBVIOUS
<1>1. ASSUME Live' \subseteq Live, UNCHANGED heap \/ Collect(heap) PROVE FALSE
  BY <1>1 DEF Collect, SameObject
<1>2. ASSUME NEW t \in Threads, NEW f, frame' = [frame EXCEPT ![t] = f],
             UNCHANGED <<entries, pins>>,
             \/ f.obj = NoObj \/ f.obj = frame[t].obj
             \/ frame[t].obj = NoObj /\ f.obj \in {entries[k] : k \in Keys}
      PROVE  Live' \subseteq Live
  BY <1>2, LiveStep DEF TypeOK
<1>3. CASE UNCHANGED vars \/ Tick \/ StartServing
  <2>1. Live' = Live /\ UNCHANGED heap
    BY <1>3 DEF vars, Tick, storeVars, StartServing, Live
  <2> QED
    BY <1>1, <2>1
<1>4. ASSUME NEW e \in Rows, LoadEntry(e) PROVE o = NewObj(e.key) /\ heap'[o] = e
  <2>1. /\ Store(entries, e) /\ UNCHANGED <<frame, pins>> /\ e.key \in Keys
        /\ e \in Entry
    BY <1>4, LoadStores DEF LoadEntry
  <2>2. Live' \subseteq Live \cup {NewObj(e.key)}
    BY <2>1 DEF Live, Store, TypeOK, MapOK
  <2> QED
    BY <2>1, <2>2, Stored DEF SameObject
<1>5. ASSUME NEW t \in Threads, NEW k \in Keys,
             \/ GetLookup(t, k) \/ StaleLookup(t, k)
             \/ \E r \in Response : SetNow(t, k, r)
      PROVE  FALSE
  <2>1. frame[t].obj = NoObj /\ UNCHANGED <<entries, heap, pins>>
    BY <1>5 DEF GetLookup, StaleLookup, SetNow, At, TypeOK, FramesOK, FrameOK
  <2> DEFINE found == StaleServing /\ entries[k] # NoObj
             looked == [Idle EXCEPT !.pc = IF entries[k] = NoObj THEN "done" ELSE "now",
                                    !.key = k, !.obj = entries[k]]
             stale == [Idle EXCEPT !.pc = IF found THEN "stale" ELSE "done", !.key = k,
                                   !.obj = IF found THEN entries[k] ELSE NoObj]
             set(r) == [Idle EXCEPT !.pc = "publish", !.key = k, !.time = clock,
                                    !.resp = r]
  <2>2. \/ frame' = [frame EXCEPT ![t] = looked]
        \/ frame' = [frame EXCEPT ![t] = stale]
        \/ \E r : frame' = [frame EXCEPT ![t] = set(r)]
    BY <1>5 DEF GetLookup, StaleLookup, SetNow, Calls
  <2>3. /\ looked.obj = entries[k] /\ stale.obj \in {NoObj, entries[k]}
        /\ \A r : set(r).obj = NoObj
    BY DEF Idle
  <2> HIDE DEF looked, stale, set
  <2> QED
    BY <1>1, <1>2, <2>1, <2>2, <2>3
<1>6. ASSUME NEW t \in Threads, GetNow(t) \/ StaleNow(t) \/ SetLock(t) \/ SetCopy(t)
      PROVE  FALSE
  <2>1. /\ UNCHANGED <<entries, heap, pins>>
        /\ \E f : frame' = [frame EXCEPT ![t] = f] /\ f.obj = frame[t].obj
    BY <1>6 DEF GetNow, StaleNow, SetLock, SetCopy, TypeOK, FramesOK, Frame
  <2> QED
    BY <1>1, <1>2, <2>1
<1>7. ASSUME NEW t \in Threads,
             \/ GetTouch(t) \/ GetMark(t) \/ GetServe(t)
             \/ StaleServe(t) \/ StaleTouch(t)
      PROVE  WorksOn(t, o)
  <2>1. /\ UNCHANGED <<entries, pins>>
        /\ \E f : frame' = [frame EXCEPT ![t] = f] /\ f.obj \in {NoObj, frame[t].obj}
    BY <1>7 DEF GetTouch, GetMark, GetServe, StaleServe, StaleTouch, TypeOK, FramesOK,
       Frame
  <2>2. o \in Live
    BY <1>2, <2>1
  <2>3. heap \in [Live -> Entry] /\ ~Collect(heap)
    BY <1>1, <1>2, <2>1 DEF TypeOK, HeapOK
  <2>4. \E e : heap' = [heap EXCEPT ![frame[t].obj] = e]
    BY <1>7, <2>3 DEF GetTouch, GetMark, GetServe, StaleServe, StaleTouch
  <2>5. frame[t].obj # o => heap'[o] = heap[o]
    BY <2>2, <2>3, <2>4
  <2> QED
    BY <1>7, <2>2, <2>5 DEF WorksOn, SameObject
<1>8. ASSUME NEW t \in Threads, SetPublish(t)
      PROVE  o = NewObj(frame[t].key) /\ heap'[o] = Published(frame[t])
  <2> DEFINE e == Published(frame[t])
  <2>1. /\ e \in Entry /\ e.key = frame[t].key
    BY <1>8, PublishStores
  <2>2. PICK m : /\ Store(m, e)
                 /\ m = entries \/ \E v \in Keys : m = [entries EXCEPT ![v] = NoObj]
    BY <1>8, PublishStores DEF Present
  <2>3. frame' = [frame EXCEPT ![t] = Idle] /\ UNCHANGED pins
    BY <1>8 DEF SetPublish
  <2>4. \A k \in Keys : entries'[k] \in {entries[k], NoObj, NewObj(e.key)}
    BY <2>1, <2>2, Stored DEF TypeOK, MapOK
  <2>5. \A s \in Threads : frame'[s].obj \in {frame[s].obj, NoObj}
    BY <2>3 DEF TypeOK, FramesOK, Idle
  <2>6. Live' \subseteq Live \cup {NewObj(e.key)}
    BY <2>3, <2>4, <2>5 DEF Live
  <2>7. o # NewObj(e.key) => heap'[o] = heap[o]
    BY <2>1, <2>2, Stored
  <2>8. o = NewObj(e.key)
    BY <2>6, <2>7 DEF SameObject
  <2> QED
    BY <2>1, <2>2, <2>8, Stored
<1>9. ASSUME NEW t \in Threads, Release(t) PROVE FALSE
  <2>1. frame' = [frame EXCEPT ![t] = Idle] /\ Collect(heap) /\ UNCHANGED <<entries, pins>>
    BY <1>9 DEF Release
  <2>2. Live' \subseteq Live
    BY <1>2, <2>1 DEF Idle
  <2> QED
    BY <1>1, <2>1, <2>2
<1>10. ASSUME NEW k \in Keys, Delete(k) PROVE FALSE
  <2>1. Live' \subseteq Live /\ Collect(heap)
    BY <1>10 DEF Delete, Live, TypeOK, MapOK
  <2> QED
    BY <1>1, <2>1
<1>11. CASE Repin
  <2>1. Live' \subseteq Live /\ Collect(heap)
    BY <1>11 DEF Repin, Live, Present
  <2> QED
    BY <1>1, <2>1
<1> QED
  BY <1>3, <1>4, <1>5, <1>6, <1>7, <1>8, <1>9, <1>10, <1>11 DEF CallerStep, CallStep

(* What a call may do to the entry it works on: its answer stays.          *)
LEMMA WorkChange ==
  ASSUME TypeOK, NEW o \in Live', NEW t \in Threads, WorksOn(t, o)
  PROVE  /\ SameAnswer(o)
         /\ heap'[o].hits >= heap[o].hits
         /\ \/ /\ GetTouch(t) \/ StaleTouch(t)
               /\ heap'[o].lastHit = frame[t].time
               /\ heap'[o].used = heap[o].used
            \/ /\ GetMark(t) /\ heap'[o].lastHit = heap[o].lastHit
               /\ heap'[o].used = Marked(heap[o].used, DayOf(frame[t].time))
            \/ /\ GetServe(t) \/ StaleServe(t)
               /\ heap'[o].lastHit = heap[o].lastHit
               /\ heap'[o].used = heap[o].used
<1>1. o \in Live /\ heap \in [Live -> Entry] /\ frame[t].obj = o /\ Entered(t) = heap[o]
  <2>1. frame[t].obj # NoObj /\ frame[t].obj = o
    BY DEF WorksOn, GetTouch, GetMark, GetServe, StaleServe, StaleTouch, At, TypeOK,
       FramesOK, FrameOK, InGet
  <2> QED
    BY <2>1 DEF Live, TypeOK, HeapOK, Entered
<1> DEFINE e == heap[o]
<1>2. e \in Entry
  BY <1>1
<1>7. CountHit(e.hits) \in Nat /\ CountHit(e.hits) >= e.hits /\ e.hits \in Nat
  BY <1>2, CacheAssumption DEF CountHit, Entry
<1>3. CASE GetTouch(t) \/ StaleTouch(t)
  <2> DEFINE n == frame[t].time
  <2>1. heap'[o] = [e EXCEPT !.lastHit = n]
    BY <1>1, <1>3 DEF GetTouch, StaleTouch
  <2> QED
    BY <1>1, <1>2, <1>3, <1>7, <2>1 DEF SameAnswer, Entry
<1>4. CASE GetMark(t)
  <2> DEFINE u == Marked(e.used, DayOf(frame[t].time))
  <2>1. heap'[o] = [e EXCEPT !.used = u]
    BY <1>1, <1>4 DEF GetMark
  <2> HIDE DEF u
  <2>2. /\ heap'[o].used = u /\ heap'[o].lastHit = e.lastHit /\ SameAnswer(o)
        /\ heap'[o].hits = e.hits
    BY <1>1, <1>2, <2>1 DEF SameAnswer, Entry
  <2> QED
    BY <1>4, <1>7, <2>2 DEF u
<1>5. CASE GetServe(t) \/ StaleServe(t)
  <2> DEFINE h == CountHit(e.hits)
  <2>1. heap'[o] = e \/ heap'[o] = [e EXCEPT !.hits = h]
    BY <1>1, <1>5 DEF GetServe, StaleServe, Collect
  <2>2. h \in Nat /\ h >= e.hits /\ e.hits \in Nat
    BY <1>7
  <2> HIDE DEF h
  <2> QED
    BY <1>1, <1>2, <1>5, <2>1, <2>2 DEF SameAnswer, Entry
<1> QED
  BY <1>3, <1>4, <1>5 DEF WorksOn

LEMMA HeapChange ==
  ASSUME TypeOK, [CallerStep]_vars, NEW o \in Live'
  PROVE  \/ SameAnswer(o)
         \/ \E e \in Rows : LoadEntry(e) /\ o = NewObj(e.key) /\ heap'[o] = e
         \/ \E t \in Threads : /\ SetPublish(t) /\ o = NewObj(frame[t].key)
                               /\ heap'[o] = Published(frame[t])
<1>1. SameObject(o) => SameAnswer(o)
  BY DEF SameObject, SameAnswer
<1> QED
  BY <1>1, ObjectChange, WorkChange

(* What SetLock and SetCopy do to the frame of the call.                   *)
SetLocked(s) ==
  /\ SetLock(s) /\ frame'[s].pc = "copy"
  /\ frame'[s].key = frame[s].key /\ frame'[s].time = frame[s].time
  /\ frame'[s].resp = frame[s].resp
  /\ frame'[s].hits = EntryOf(frame[s].key).hits

SetCopied(s) ==
  /\ SetCopy(s) /\ frame'[s].pc = "insert"
  /\ frame'[s].key = frame[s].key /\ frame'[s].time = frame[s].time
  /\ frame'[s].resp = frame[s].resp /\ frame'[s].hits = frame[s].hits
  /\ frame'[s].lastHit = EntryOf(frame[s].key).lastHit

(* What a goroutine's call may become in a step.                           *)
LEMMA FrameChange ==
  ASSUME TypeOK, [CallerStep]_vars, NEW s \in Threads
  PROVE  \/ frame'[s] = frame[s]
         \/ frame'[s].pc \in {"idle", "now", "serve", "stale", "again", "done"}
         \/ frame'[s].pc \in {"touch", "retouch", "publish"} /\ frame'[s].time = clock
         \/ /\ GetTouch(s) /\ frame'[s].pc = "mark"
            /\ frame'[s].time = frame[s].time /\ frame'[s].obj = frame[s].obj
         \/ SetLocked(s)
         \/ SetCopied(s)
<1>1. \A t \in Threads : \A f : frame' = [frame EXCEPT ![t] = f] =>
        frame'[s] = IF s = t THEN f ELSE frame[s]
  BY DEF TypeOK, FramesOK
<1>2. \A t \in Threads : frame[t] \in Frame
  BY DEF TypeOK, FramesOK
<1>4. ASSUME NEW t \in Threads, NEW k \in Keys,
             \/ GetLookup(t, k) \/ StaleLookup(t, k)
             \/ \E r \in Response : SetNow(t, k, r)
      PROVE  \/ frame'[s] = frame[s]
             \/ frame'[s].pc \in {"now", "stale", "done"}
             \/ frame'[s].pc = "publish" /\ frame'[s].time = clock
  <2>1. PICK f : /\ frame' = [frame EXCEPT ![t] = f]
                 /\ \/ f.pc \in {"now", "done", "stale"}
                    \/ f.pc = "publish" /\ f.time = clock
    BY <1>4, BegunFrame
  <2>2. frame'[s] = frame[s] \/ frame'[s] = f
    BY <1>1, <2>1
  <2> QED
    BY <2>1, <2>2
<1>5. ASSUME NEW t \in Threads, GetNow(t) \/ StaleNow(t)
      PROVE  \/ frame'[s] = frame[s]
             \/ frame'[s].pc \in {"touch", "retouch"} /\ frame'[s].time = clock
  <2>1. PICK pc \in {"touch", "retouch"} :
          frame' = [frame EXCEPT ![t] = [@ EXCEPT !.pc = pc, !.time = clock]]
    BY <1>5 DEF GetNow, StaleNow
  <2> DEFINE f == [frame[t] EXCEPT !.pc = pc, !.time = clock]
  <2>2. f.pc = pc /\ f.time = clock /\ frame' = [frame EXCEPT ![t] = f]
    BY <1>2, <2>1 DEF Frame
  <2> HIDE DEF f
  <2> QED
    BY <1>1, <2>2
<1>6. ASSUME NEW t \in Threads, GetTouch(t)
      PROVE  \/ frame'[s] = frame[s]
             \/ /\ GetTouch(s) /\ frame'[s].pc = "mark"
                /\ frame'[s].time = frame[s].time /\ frame'[s].obj = frame[s].obj
  <2> DEFINE f == [frame[t] EXCEPT !.pc = "mark"]
  <2>1. /\ f.pc = "mark" /\ f.time = frame[t].time /\ f.obj = frame[t].obj
        /\ frame' = [frame EXCEPT ![t] = f]
    BY <1>2, <1>6 DEF GetTouch, Frame
  <2> HIDE DEF f
  <2> QED
    BY <1>1, <1>6, <2>1
<1>7. ASSUME NEW t \in Threads,
             GetMark(t) \/ GetServe(t) \/ StaleServe(t) \/ StaleTouch(t)
      PROVE  frame'[s] = frame[s] \/ frame'[s].pc \in {"serve", "again", "done"}
  <2>1. PICK f : frame' = [frame EXCEPT ![t] = f] /\ f.pc \in {"serve", "again", "done"}
    <3> DEFINE f == [frame[t] EXCEPT !.pc = "serve"]
               g == [frame[t] EXCEPT !.pc = "done"]
               h == [frame[t] EXCEPT !.pc = "done", !.obj = NoObj]
               i == [frame[t] EXCEPT !.pc = "again"]
    <3>1. f.pc = "serve" /\ g.pc = "done" /\ h.pc = "done" /\ i.pc = "again"
      BY <1>2 DEF Frame
    <3>2. frame' \in {[frame EXCEPT ![t] = f], [frame EXCEPT ![t] = g],
                      [frame EXCEPT ![t] = h], [frame EXCEPT ![t] = i]}
      BY <1>7 DEF GetMark, GetServe, StaleServe, StaleTouch
    <3> HIDE DEF f, g, h, i
    <3> QED
      BY <3>1, <3>2
  <2> QED
    BY <1>1, <2>1
<1>8. ASSUME NEW t \in Threads, SetPublish(t) \/ Release(t)
      PROVE  frame'[s] = frame[s] \/ frame'[s].pc = "idle"
  BY <1>1, <1>8 DEF SetPublish, Release, Idle
<1>9. CASE \/ UNCHANGED vars \/ Tick \/ StartServing \/ Repin
           \/ \E e \in Rows : LoadEntry(e)
           \/ \E k \in Keys : Delete(k)
  BY <1>9 DEF vars, Tick, storeVars, StartServing, Repin, LoadEntry, Delete
<1>10. ASSUME NEW t \in Threads, SetLock(t) PROVE frame'[s] = frame[s] \/ SetLocked(s)
  <2> DEFINE h == EntryOf(frame[t].key).hits
             f == [frame[t] EXCEPT !.pc = "copy", !.hits = h]
  <2>1. frame' = [frame EXCEPT ![t] = f]
    BY <1>10 DEF SetLock
  <2> HIDE DEF h
  <2>2. /\ f.pc = "copy" /\ f.key = frame[t].key /\ f.time = frame[t].time
        /\ f.resp = frame[t].resp /\ f.hits = h
    BY <1>2 DEF Frame
  <2> HIDE DEF f
  <2>3. frame'[s] = IF s = t THEN f ELSE frame[s]
    BY <1>1, <2>1
  <2> QED
    BY <1>10, <2>2, <2>3 DEF SetLocked, h
<1>11. ASSUME NEW t \in Threads, SetCopy(t) PROVE frame'[s] = frame[s] \/ SetCopied(s)
  <2> DEFINE h == EntryOf(frame[t].key).lastHit
             f == [frame[t] EXCEPT !.pc = "insert", !.lastHit = h]
  <2>1. frame' = [frame EXCEPT ![t] = f]
    BY <1>11 DEF SetCopy
  <2> HIDE DEF h
  <2>2. /\ f.pc = "insert" /\ f.key = frame[t].key /\ f.time = frame[t].time
        /\ f.resp = frame[t].resp /\ f.hits = frame[t].hits /\ f.lastHit = h
    BY <1>2 DEF Frame
  <2> HIDE DEF f
  <2>3. frame'[s] = IF s = t THEN f ELSE frame[s]
    BY <1>1, <2>1
  <2> QED
    BY <1>11, <2>2, <2>3 DEF SetCopied, h
<1> QED
  BY <1>4, <1>5, <1>6, <1>7, <1>8, <1>9, <1>10, <1>11 DEF CallerStep, CallStep

(* Time passes in a step of its own, and main starts to serve once.        *)
LEMMA ClockChange ==
  ASSUME [CallerStep]_vars
  PROVE  /\ clock' = clock \/ Tick
         /\ serving' = serving \/ serving' = TRUE
<1>1. ASSUME NEW t \in Threads, CallStep(t) \/ Release(t) PROVE UNCHANGED <<clock, serving>>
  BY <1>1 DEF CallStep, GetNow, GetTouch, GetMark, GetServe, StaleServe, StaleNow,
     StaleTouch, SetLock, SetCopy, SetPublish, Release
<1>2. ASSUME NEW t \in Threads, NEW k \in Keys,
             GetLookup(t, k) \/ StaleLookup(t, k) \/ \E r \in Response : SetNow(t, k, r)
      PROVE  UNCHANGED <<clock, serving>>
  BY <1>2 DEF GetLookup, StaleLookup, SetNow
<1>3. CASE \/ UNCHANGED vars \/ Tick \/ StartServing \/ Repin
           \/ \E e \in Rows : LoadEntry(e)
           \/ \E k \in Keys : Delete(k)
  BY <1>3 DEF vars, Tick, storeVars, StartServing, Repin, LoadEntry, Delete
<1> QED
  BY <1>1, <1>2, <1>3 DEF CallerStep

(* How the map may change: a key keeps its entry, loses it, or gets one    *)
(* from the load or from a Set of its own.                                 *)
LEMMA MapChange ==
  ASSUME TypeOK, [CallerStep]_vars, NEW k \in Keys
  PROVE  \/ entries'[k] = entries[k]
         \/ entries'[k] = NoObj
         \/ \E e \in Rows : LoadEntry(e) /\ e.key = k
         \/ \E t \in Threads : SetPublish(t) /\ frame[t].key = k
<1>1. ASSUME NEW e \in Rows, LoadEntry(e), e.key # k PROVE entries'[k] = entries[k]
  BY <1>1, LoadStores, Stored
<1>2. ASSUME NEW t \in Threads, SetPublish(t), frame[t].key # k
      PROVE  entries'[k] \in {entries[k], NoObj}
  <2> DEFINE e == Published(frame[t])
  <2>1. /\ e \in Entry /\ e.key = frame[t].key
        /\ \E m : /\ Store(m, e)
                  /\ m = entries \/ \E v \in Keys : m = [entries EXCEPT ![v] = NoObj]
    BY <1>2, PublishStores DEF Present
  <2> HIDE DEF e
  <2>2. \E m : /\ entries'[k] = m[k]
               /\ m = entries \/ \E v \in Keys : m = [entries EXCEPT ![v] = NoObj]
    BY <1>2, <2>1, Stored
  <2> QED
    BY <2>2 DEF TypeOK, MapOK
<1>3. ASSUME NEW j \in Keys, Delete(j) PROVE entries'[k] \in {entries[k], NoObj}
  BY <1>3 DEF Delete, TypeOK, MapOK
<1>4. ASSUME NEW t \in Threads,
             \/ GetNow(t) \/ GetTouch(t) \/ GetMark(t) \/ GetServe(t)
             \/ StaleServe(t) \/ StaleNow(t) \/ StaleTouch(t)
             \/ SetLock(t) \/ SetCopy(t) \/ Release(t)
      PROVE  entries' = entries
  BY <1>4 DEF GetNow, GetTouch, GetMark, GetServe, StaleServe, StaleNow, StaleTouch,
     SetLock, SetCopy, Release
<1>5. ASSUME NEW t \in Threads, NEW j \in Keys,
             \/ GetLookup(t, j) \/ StaleLookup(t, j)
             \/ \E r \in Response : SetNow(t, j, r)
      PROVE  entries' = entries
  BY <1>5 DEF GetLookup, StaleLookup, SetNow
<1>6. CASE Tick \/ StartServing \/ Repin \/ UNCHANGED vars
  BY <1>6 DEF Tick, StartServing, Repin, vars, storeVars
<1> QED
  BY <1>1, <1>2, <1>3, <1>4, <1>5, <1>6 DEF CallerStep, CallStep

LEMMA CallerAddressed == TypeOK /\ Addressed /\ [CallerStep]_vars => Addressed'
<1> SUFFICES ASSUME TypeOK, Addressed, [CallerStep]_vars, NEW k \in Keys,
                    entries'[k] # NoObj
             PROVE  entries'[k] \in {k} \X Slots
  BY DEF Addressed, Present
<1>1. CASE entries'[k] = entries[k]
  BY <1>1 DEF Addressed, Present
<1>2. ASSUME NEW e \in Rows, LoadEntry(e), e.key = k PROVE entries'[k] \in {k} \X Slots
  BY <1>2, LoadStores, Stored
<1>3. ASSUME NEW t \in Threads, SetPublish(t), frame[t].key = k
      PROVE  entries'[k] \in {k} \X Slots
  <2> DEFINE e == Published(frame[t])
  <2>1. /\ e \in Entry /\ e.key = k
        /\ \E m : /\ Store(m, e)
                  /\ m = entries \/ \E v \in Keys : m = [entries EXCEPT ![v] = NoObj]
    BY <1>3, PublishStores DEF Present
  <2> HIDE DEF e
  <2> QED
    BY <2>1, Stored
<1> QED
  BY <1>1, <1>2, <1>3, MapChange

(* The same of the entry itself.                                           *)
LEMMA EntryChange ==
  ASSUME TypeOK, Addressed, [CallerStep]_vars, NEW k \in Present'
  PROVE  \/ k \in Present /\ entries'[k] = entries[k] /\ SameAnswer(entries[k])
         \/ \E e \in Rows : LoadEntry(e) /\ e.key = k /\ EntryOf(k)' = e
         \/ \E t \in Threads : /\ SetPublish(t) /\ frame[t].key = k
                               /\ EntryOf(k)' = Published(frame[t])
<1>1. k \in Keys /\ entries'[k] # NoObj /\ entries'[k] \in Live'
  BY DEF Present, Live
<1>2. Addressed'
  BY CallerAddressed
<1>3. ASSUME NEW e \in Rows, LoadEntry(e)
      PROVE  NewObj(e.key) \in {e.key} \X Slots /\ entries'[e.key] = NewObj(e.key)
             /\ heap'[NewObj(e.key)] = e
  BY <1>3, LoadStores, Stored
<1>4. ASSUME NEW t \in Threads, SetPublish(t)
      PROVE  /\ NewObj(frame[t].key) \in {frame[t].key} \X Slots
             /\ entries'[frame[t].key] = NewObj(frame[t].key)
             /\ heap'[NewObj(frame[t].key)] = Published(frame[t])
  <2> DEFINE e == Published(frame[t])
  <2>1. /\ e \in Entry /\ e.key = frame[t].key
        /\ \E m : /\ Store(m, e)
                  /\ m = entries \/ \E v \in Keys : m = [entries EXCEPT ![v] = NoObj]
    BY <1>4, PublishStores DEF Present
  <2> HIDE DEF e
  <2> QED
    BY <2>1, Stored DEF e
<1>5. CASE entries'[k] = entries[k] /\ SameAnswer(entries[k])
  BY <1>1, <1>5 DEF Present
<1>6. CASE ~SameAnswer(entries'[k])
  <2>1. \/ \E e \in Rows : LoadEntry(e) /\ entries'[k] = NewObj(e.key)
        \/ \E t \in Threads : SetPublish(t) /\ entries'[k] = NewObj(frame[t].key)
    BY <1>1, <1>6, HeapChange
  <2>2. entries'[k] \in {k} \X Slots
    BY <1>1, <1>2 DEF Addressed, Present
  <2> QED
    BY <1>1, <1>3, <1>4, <2>1, <2>2 DEF EntryOf
<1>7. CASE entries'[k] # entries[k]
  BY <1>1, <1>3, <1>4, <1>7, MapChange DEF EntryOf
<1> QED
  BY <1>1, <1>5, <1>6, <1>7

LEMMA InitAddressed == Init => Addressed
BY DEF Init, Addressed, Present

----------------------------------------------------------------------------
(* What Set keeps of the usage.  The hit count it has copied is the one of *)
(* the entry it is about to replace, or that has grown since.              *)
CopyOK == \A t \in Threads :
            Copying(t) => frame[t].hits <= EntryOf(frame[t].key).hits

(* While Set has the lock, the entry it replaces stays in the map.         *)
LEMMA KeepsLocked ==
  ASSUME TypeOK, Addressed, [CallerStep]_vars, NEW t \in Threads, Copying(t), ~SetPublish(t)
  PROVE  LET k == frame[t].key
         IN  /\ k \in Present /\ entries'[k] = entries[k] /\ entries[k] \in Live'
             /\ EntryOf(k) \in Entry
             /\ heap'[entries[k]].hits >= EntryOf(k).hits
             /\ NoUseLost(EntryOf(k), heap'[entries[k]])
<1> DEFINE k == frame[t].key
           o == entries[k]
<1>1. k \in Present /\ k \in Keys /\ \A s \in Threads : Copying(s) => s = t
  BY DEF TypeOK, LockOK, Present
<1>2. ~LockFree
  BY DEF LockFree
<1>3. \A s \in Threads : ~SetPublish(s)
  BY <1>1, <1>2 DEF SetPublish, At, Copying
<1>4. \A j \in Keys : ~Delete(j)
  BY <1>2 DEF Delete
<1>5. \A e \in Rows : LoadEntry(e) => e.key # k
  BY <1>1 DEF LoadEntry, Present
<1>6. entries'[k] = entries[k]
  <2>1. ASSUME NEW e \in Rows, LoadEntry(e) PROVE entries'[k] = entries[k]
    BY <1>1, <1>5, <2>1, LoadStores, Stored
  <2>2. ASSUME NEW s \in Threads, CallStep(s) \/ Release(s) PROVE entries' = entries
    BY <1>3, <2>2 DEF CallStep, GetNow, GetTouch, GetMark, GetServe, StaleServe, StaleNow,
       StaleTouch, SetLock, SetCopy, Release
  <2>3. ASSUME NEW s \in Threads, NEW j \in Keys,
               \/ GetLookup(s, j) \/ StaleLookup(s, j)
               \/ \E r \in Response : SetNow(s, j, r)
        PROVE  entries' = entries
    BY <2>3 DEF GetLookup, StaleLookup, SetNow
  <2>4. CASE Tick \/ StartServing \/ Repin \/ UNCHANGED vars
    BY <2>4 DEF Tick, StartServing, Repin, vars, storeVars
  <2> QED
    BY <1>4, <2>1, <2>2, <2>3, <2>4 DEF CallerStep
<1>7. o \in Live /\ o \in Live' /\ heap[o] \in Entry /\ EntryOf(k) = heap[o]
  BY <1>1, <1>6 DEF Present, Live, TypeOK, HeapOK, EntryOf
<1>8. o \in {k} \X Slots
  BY <1>1 DEF Addressed
<1>9. ASSUME NEW e \in Rows, LoadEntry(e) PROVE o # NewObj(e.key)
  BY <1>5, <1>8, <1>9, LoadStores, Stored
<1>10. heap[o].hits \in Nat /\ heap[o].used \in UsedDays
  BY <1>7 DEF Entry
<1>11. CASE SameObject(o)
  BY <1>1, <1>6, <1>7, <1>10, <1>11 DEF SameObject, NoUseLost
<1>12. ASSUME NEW s \in Threads, WorksOn(s, o)
      PROVE  heap'[o].hits >= heap[o].hits /\ NoUseLost(heap[o], heap'[o])
  <2>1. heap'[o].hits >= heap[o].hits
    BY <1>7, <1>12, WorkChange
  <2>2. CASE heap'[o].used = heap[o].used
    BY <2>1, <2>2 DEF NoUseLost
  <2>3. CASE GetMark(s) /\ heap'[o].used = Marked(heap[o].used, DayOf(frame[s].time))
    <3> DEFINE u == heap[o].used
               d == DayOf(frame[s].time)
    <3>1. d \in Nat /\ u \in UsedDays
      BY <1>10, DayType DEF TypeOK, FramesOK, Frame
    <3>2. /\ DaysOf(Marked(u, d)) = Remembered(DaysOf(u), u.day, d)
          /\ Marked(u, d).day = IF d > u.day THEN d ELSE u.day
      BY <3>1, MarkedRemembers
    <3> HIDE DEF u, d
    <3>3. \A x \in DaysOf(u) : x \in Int
      BY <3>1, MaskBitsAssumption DEF DaysOf, UsedDays
    <3>4. u.day \in Nat
      BY <3>1 DEF UsedDays
    <3>5. {x \in DaysOf(u) : x > Marked(u, d).day - MaskBits} \subseteq DaysOf(Marked(u, d))
      BY <3>1, <3>2, <3>3, <3>4, MaskBitsAssumption DEF Remembered
    <3> QED
      BY <2>1, <2>3, <3>5 DEF NoUseLost, u, d
  <2> QED
    BY <1>7, <1>12, <2>2, <2>3, WorkChange
<1>13. SameObject(o) \/ \E s \in Threads : WorksOn(s, o)
  BY <1>3, <1>7, <1>9, ObjectChange
<1> QED
  BY <1>1, <1>6, <1>7, <1>11, <1>12, <1>13

LEMMA InitCopy == Init => CopyOK
BY DEF Init, CopyOK, Copying, Idle

LEMMA CallerCopies == TypeOK /\ Addressed /\ CopyOK /\ [CallerStep]_vars => CopyOK'
<1> SUFFICES ASSUME TypeOK, TypeOK', Addressed, CopyOK, [CallerStep]_vars,
                    NEW t \in Threads, Copying(t)'
             PROVE  frame'[t].hits <= heap'[entries'[frame'[t].key]].hits
  BY CallerType DEF CopyOK, EntryOf
<1>1. CASE Copying(t) /\ frame'[t].key = frame[t].key /\ frame'[t].hits = frame[t].hits
  <2>1. ~SetPublish(t)
    BY <1>1 DEF SetPublish, Copying, Idle, TypeOK, FramesOK
  <2> DEFINE h == frame[t].hits
             a == EntryOf(frame[t].key).hits
             b == heap'[entries'[frame'[t].key]].hits
  <2>2. b >= a /\ h <= a
    BY <1>1, <2>1, KeepsLocked DEF CopyOK
  <2>3. h \in Nat /\ a \in Nat /\ b \in Nat
    <3>1. h \in Nat
      BY DEF TypeOK, FramesOK, Frame
    <3>2. EntryOf(frame[t].key) \in Entry
      BY <1>1, <2>1, KeepsLocked
    <3>3. frame'[t].key \in Present'
      BY DEF TypeOK, LockOK
    <3>4. heap'[entries'[frame'[t].key]] \in Entry
      BY <3>3 DEF TypeOK, HeapOK, Live, Present
    <3> QED
      BY <3>1, <3>2, <3>4 DEF Entry
  <2> QED
    BY <1>1, <2>2, <2>3
<1>2. CASE SetLocked(t)
  <2>1. UNCHANGED <<entries, heap>>
    BY <1>2 DEF SetLocked, SetLock
  <2>2. EntryOf(frame[t].key) \in Entry
    BY <1>2 DEF SetLocked, SetLock, EntryOf, Present, Live, TypeOK, HeapOK
  <2> QED
    BY <1>2, <2>1, <2>2 DEF SetLocked, EntryOf, Entry
<1>3. CASE SetCopied(t)
  BY <1>1, <1>3 DEF SetCopied, SetCopy, At, Copying
<1> QED
  BY <1>1, <1>2, <1>3, FrameChange DEF Copying

LEMMA CallerInherits ==
  TypeOK /\ Addressed /\ CopyOK /\ [CallerStep]_vars =>
    [\A t \in Threads : Copying(t) => UsageKept(t)]_vars
<1> SUFFICES ASSUME TypeOK, Addressed, CopyOK, [CallerStep]_vars,
                    NEW t \in Threads, Copying(t)
             PROVE  UsageKept(t)
  OBVIOUS
<1> DEFINE k == frame[t].key
           h == frame[t].hits
<1>1. k \in Present /\ k \in Keys /\ h <= EntryOf(k).hits /\ h \in Nat
  BY DEF CopyOK, TypeOK, LockOK, Present, FramesOK, Frame
<1>2. EntryOf(k) \in Entry /\ EntryOf(k).hits \in Nat /\ EntryOf(k).used \in UsedDays
  BY <1>1 DEF EntryOf, Present, Live, TypeOK, HeapOK, Entry
<1>3. CASE ~SetPublish(t)
  <2>1. /\ entries'[k] = entries[k] /\ entries[k] \in Live'
        /\ heap'[entries[k]].hits >= EntryOf(k).hits
        /\ NoUseLost(EntryOf(k), heap'[entries[k]])
    BY <1>3, KeepsLocked
  <2>2. heap'[entries[k]].hits \in Nat
    BY <2>1, CallerType DEF TypeOK, HeapOK, Entry
  <2>3. heap'[entries'[k]].hits >= h /\ entries'[k] # NoObj
    BY <1>1, <1>2, <2>1, <2>2 DEF Present
  <2> QED
    BY <1>1, <2>1, <2>3 DEF UsageKept
<1>4. CASE SetPublish(t)
  <2> DEFINE e == Published(frame[t])
  <2>1. /\ e \in Entry /\ e.key = k
        /\ \E m : /\ Store(m, e)
                  /\ m = entries \/ \E v \in Keys : m = [entries EXCEPT ![v] = NoObj]
    BY <1>4, PublishStores DEF Present
  <2>2. e.hits = h /\ e.used = EntryOf(k).used
    <3> DEFINE n == NewEntry(k, frame[t].resp, frame[t].time)
    <3>1. e = [n EXCEPT !.hits = h, !.lastHit = frame[t].lastHit, !.used = EntryOf(k).used]
      BY <1>1 DEF Published
    <3> QED
      BY <3>1 DEF NewEntry
  <2> HIDE DEF e
  <2>3. entries'[k] # NoObj /\ heap'[entries'[k]] = e
    <3>1. /\ entries'[k] = NewObj(k) /\ NewObj(k) \in Live'
          /\ heap'[NewObj(k)] = e
      BY <2>1, Stored
    <3> QED
      BY <3>1 DEF Live
  <2>4. NoUseLost(EntryOf(k), heap'[entries'[k]])
    BY <2>2, <2>3 DEF NoUseLost
  <2> QED
    BY <1>1, <2>2, <2>3, <2>4 DEF UsageKept
<1> QED
  BY <1>3, <1>4

(* A refresh keeps the usage.  Set takes it over in three loads, which     *)
(* Get and GetStale of other goroutines, Delete, the load and the other    *)
(* Set calls interleave with: the entry stays in the map as long as Set    *)
(* has the lock, its hit count and its days of use only grow, and so the   *)
(* new entry has no fewer hits than Set found when it got the lock, and    *)
(* the days of use of the moment it takes the other's place.               *)
THEOREM UsageSurvives == Spec => RefreshKeepsUsage
<1>1. Spec => []TypeOK
  BY TypeCorrect
<1>2. Init => Addressed /\ CopyOK
  BY InitAddressed, InitCopy
<1>3. TypeOK /\ [Next]_vars => [CallerStep]_vars
  BY NextIsACallerStep
<1> QED
  BY <1>1, <1>2, <1>3, CallerAddressed, CallerCopies, CallerInherits, PTL
     DEF Spec, RefreshKeepsUsage

----------------------------------------------------------------------------
(* The order of eviction.                                                  *)

(* A new key takes the place of at most one other, which evictOne chose.   *)
LEMMA EvictedIsAVictim ==
  ASSUME TypeOK, [CallerStep]_vars, NEW k \in Present, entries'[k] = NoObj,
         NEW j \in Keys \ Present, entries'[j] # NoObj
  PROVE  k \in Victims
<1>1. k \in Keys /\ entries[k] # NoObj /\ entries[j] = NoObj /\ k # j
  BY DEF Present
<1>2. ASSUME NEW e \in Rows, LoadEntry(e), e.key = j PROVE FALSE
  BY <1>1, <1>2, LoadStores, Stored
<1>3. ASSUME NEW t \in Threads, SetPublish(t), frame[t].key = j
      PROVE  k \in Victims
  <2> DEFINE e == Published(frame[t])
  <2>1. e \in Entry /\ e.key = j
    BY <1>3, PublishStores
  <2>2. PICK m \in MadeRoom(j) : Store(m, e)
    BY <1>3 DEF SetPublish
  <2> HIDE DEF e
  <2>3. m = entries \/ \E v \in Victims : m = [entries EXCEPT ![v] = NoObj]
    BY <2>2 DEF MadeRoom, Evicted
  <2>4. entries'[k] = m[k]
    BY <1>1, <2>1, <2>2, <2>3, Stored DEF Victims, Present
  <2> QED
    BY <1>1, <2>3, <2>4 DEF TypeOK, MapOK
<1> QED
  BY <1>1, <1>2, <1>3, MapChange

LEMMA CallerSpares == TypeOK /\ [CallerStep]_vars => [OutlivedByRecent]_vars
<1> SUFFICES ASSUME TypeOK, [CallerStep]_vars, NEW k \in Present, entries'[k] = NoObj,
                    NEW j \in Keys \ Present, entries'[j] # NoObj, ~Dead(k)
             PROVE  Cardinality({i \in Present \ {k} : EntryOf(i).lastHit >= EntryOf(k).lastHit})
                      >= Smaller(SampleSize, Cardinality(Present)) - 1
  BY DEF OutlivedByRecent
<1> DEFINE others == {i \in Present \ {k} : EntryOf(i).lastHit >= EntryOf(k).lastHit}
<1>1. k \in Victims
  BY EvictedIsAVictim
<1>2. PICK S \in Samples : k \in S /\ \A i \in S : EntryOf(k).lastHit <= EntryOf(i).lastHit
  BY <1>1 DEF Victims
<1>3. /\ S \subseteq Present
      /\ Cardinality(S) = Smaller(SampleSize, Cardinality(Present))
  BY <1>2 DEF Samples
<1>4. \A i \in Present : EntryOf(i).lastHit \in Nat
  BY DEF EntryOf, TypeOK, HeapOK, Live, Present, Entry
<1>5. S \ {k} \subseteq others
  BY <1>2, <1>3, <1>4
<1>6. IsFiniteSet(S) /\ IsFiniteSet(others) /\ Cardinality(others) \in Nat
  BY <1>3, Finite DEF Present
<1>7. Cardinality(S \ {k}) = Cardinality(S) - 1
  BY <1>2, <1>6, FS_RemoveElement
<1>8. Cardinality(S \ {k}) <= Cardinality(others)
  BY <1>5, <1>6, FS_Subset
<1> HIDE DEF others
<1> QED
  BY <1>3, <1>7, <1>8 DEF others

(* evictOne is a sampled LRU: with at least SampleSize entries, the one    *)
(* that gives way to a new key is outlived by SampleSize - 1 others asked  *)
(* for no earlier, unless it was long expired.                             *)
THEOREM RecentSpared == Spec => EvictionSparesTheRecent
BY TypeCorrect, CallerSpares, NextIsACallerStep, PTL DEF Spec, EvictionSparesTheRecent

----------------------------------------------------------------------------
(* The TTL.  Of an entry that was not loaded it is the one Set computes.   *)
TTLInv ==
  \A o \in Live :
    heap[o].storedAt >= StartTime => heap[o].ttl = CachedTTL(heap[o].resp.msg)

LEMMA CallerTTL == TypeOK /\ TTLInv /\ [CallerStep]_vars => TTLInv'
<1> SUFFICES ASSUME TypeOK, TTLInv, [CallerStep]_vars, NEW o \in Live',
                    heap'[o].storedAt >= StartTime
             PROVE  heap'[o].ttl = CachedTTL(heap'[o].resp.msg)
  BY DEF TTLInv, CachedTTL, OriginalTTL, Smaller, Larger
<1>1. CASE SameAnswer(o)
  BY <1>1 DEF SameAnswer, TTLInv
<1>2. ASSUME NEW e \in Rows, heap'[o] = e PROVE FALSE
  BY <1>2, CacheAssumption DEF Entry
<1>3. ASSUME NEW t \in Threads, heap'[o] = Published(frame[t])
      PROVE  heap'[o].ttl = CachedTTL(heap'[o].resp.msg)
  <2> DEFINE e == NewEntry(frame[t].key, frame[t].resp, frame[t].time)
  <2>1. e.ttl = CachedTTL(e.resp.msg)
    BY DEF NewEntry
  <2>2. Published(frame[t]).ttl = e.ttl /\ Published(frame[t]).resp = e.resp
    BY DEF Published, NewEntry
  <2> QED
    BY <1>3, <2>1, <2>2
<1> QED
  BY <1>1, <1>2, <1>3, HeapChange

LEMMA TTLWithinTheStated ==
  ASSUME NEW m \in Answers
  PROVE  /\ CachedTTL(m) <= TTLMax
         /\ \A s \in IF 0 \in StatedTTLs(m) THEN {DefaultTTL} ELSE StatedTTLs(m) :
              CachedTTL(m) <= Larger(s, TTLMin)
<1>1. /\ m.answer \in BOOLEAN /\ m.hasSOA \in BOOLEAN
      /\ m.ttl \in Nat /\ m.soaTTL \in Nat /\ m.soaMin \in Nat
  BY CacheAssumption DEF Answer
<1>3. CASE m.answer
  BY <1>1, <1>3, CacheAssumption DEF StatedTTLs, CachedTTL, OriginalTTL, Smaller, Larger
<1>4. CASE ~m.answer /\ m.hasSOA
  BY <1>1, <1>4, CacheAssumption DEF StatedTTLs, CachedTTL, OriginalTTL, Smaller, Larger
<1>5. CASE ~m.answer /\ ~m.hasSOA
  BY <1>1, <1>5, CacheAssumption DEF StatedTTLs, CachedTTL, OriginalTTL, Smaller, Larger
<1> QED
  BY <1>1, <1>3, <1>4, <1>5

(* No answer and no negative answer Set has cached is kept longer than the *)
(* TTLs the upstream put into it, with two exceptions: TTLMin may prolong  *)
(* it, and where one of those TTLs is 0 it is kept for the default, 60 s.  *)
(* (README.md:17 has no such default: min(SOA TTL, SOA MINIMUM).)  A       *)
(* refresh takes the times of the new answer, never those of the old one.  *)
THEOREM KeptForItsTTL == Spec => []KeptForItsTTLOrTheDefault
<1>1. Init => TTLInv
  BY DEF Init, TTLInv, Live, Idle
<1>2. TypeOK /\ TTLInv => KeptForItsTTLOrTheDefault
  <2> SUFFICES ASSUME TypeOK, TTLInv, NEW k \in Present, EntryOf(k).storedAt >= StartTime
               PROVE  LET e == EntryOf(k)
                          stated == StatedTTLs(e.resp.msg)
                      IN  /\ e.ttl <= TTLMax
                          /\ \A s \in IF 0 \in stated THEN {DefaultTTL} ELSE stated :
                               e.ttl <= Larger(s, TTLMin)
    BY DEF KeptForItsTTLOrTheDefault
  <2>1. entries[k] \in Live /\ EntryOf(k) = heap[entries[k]]
    BY DEF Present, Live, EntryOf
  <2>2. EntryOf(k).resp.msg \in Answers
    BY <2>1 DEF TypeOK, HeapOK, Entry, Response
  <2>3. EntryOf(k).ttl = CachedTTL(EntryOf(k).resp.msg)
    BY <2>1 DEF TTLInv
  <2> QED
    BY <2>2, <2>3, TTLWithinTheStated
<1> QED
  BY <1>1, <1>2, CallerTTL, NextIsACallerStep, TypeCorrect, PTL DEF Spec
=============================================================================
