------------------------------- MODULE Cache -------------------------------
(***************************************************************************)
(* The in-memory store: cache/cache.go and cache/entry.go.                 *)
(*                                                                         *)
(* The map goes from keys to pointers, and a goroutine works on the entry  *)
(* it has looked up after it has given the lock back.  So the model has a  *)
(* heap of entry objects, the map, and one call frame per goroutine; the   *)
(* steps of a call are the sections under c.mu and the atomic operations   *)
(* between them.  Objects nobody can reach any more leave the heap, which  *)
(* is what makes an unbounded number of Set calls a finite model.          *)
(*                                                                         *)
(* Time is a counter of ticks; a response is the message the upstream sent *)
(* (a member of Answers) and the tick at which it sent it.  The counters   *)
(* of the dashboard (hits, misses, the sliding window) are written here by *)
(* the code and read by no other component: they are not part of this      *)
(* module.                                                                 *)
(***************************************************************************)
EXTENDS UsageDays

CONSTANTS
  Keys,              \* cache keys, that is (canonical name, type)
  Threads,           \* goroutines that call the cache
  Slots,             \* bound of the model: entry objects of a key at once
  NoObj,             \* the nil pointer
  NoKey,             \* the key of a frame that is not in a call
  Answers,           \* the messages an upstream may send
  NoResp,            \* the response of a frame that is not in Set
  Rows,              \* the entries LoadAll has read from the database
  MaxEntries, TTLMin, TTLMax, MaxAge, StaleServing,    \* cache.Config
  DefaultTTL,        \* 60 s, for a message that says 0 or nothing
  StaleMaxAge,       \* staleMaxAge, 24 h
  EvictAfter,        \* 24 h past the expiry evictOne takes the entry at once
  SampleSize,        \* sampleSize of evictOne
  DayLen,            \* ticks in 24 hours
  ZoneChange,        \* the tick from which the local zone has another offset,
  ZoneBefore,        \* its offset before that,
  ZoneAfter,         \* and its offset from then on
  StartTime,         \* the tick at which the program starts
  MaxTime,           \* bound of the model: the clock stops here
  HitCap,            \* bound of the model: hit counts saturate here
  Snapshots          \* bound of the model: do the callers take snapshots

Answer == [rcode : {"NOERROR", "NXDOMAIN", "SERVFAIL"}, tc : BOOLEAN,
           answer : BOOLEAN, ttl : Nat,
           hasSOA : BOOLEAN, soaTTL : Nat, soaMin : Nat]

Objs == Keys \X Slots     \* addresses; the program cannot tell them apart

Response == [msg : Answers, at : Nat]

Entry == [key : Keys, resp : Response, storedAt : Nat, ttl : Nat,
          hits : Nat, lastHit : Nat, used : UsedDays]

ASSUME CacheAssumption ==
  /\ IsFiniteSet(Keys) /\ NoKey \notin Keys
  /\ Slots \subseteq Nat /\ NoObj \notin Objs
  /\ Answers \subseteq Answer
  /\ NoResp \notin Response
  /\ Rows \subseteq Entry    \* which an earlier process has written
  /\ \A e \in Rows : e.storedAt < StartTime /\ e.resp.at < StartTime
  /\ MaxEntries \in Int
  /\ TTLMin \in Nat /\ TTLMax \in Nat /\ MaxAge \in Nat
  /\ DefaultTTL \in Nat \ {0}
  /\ StaleServing \in BOOLEAN /\ StaleMaxAge \in Nat /\ EvictAfter \in Nat
  /\ SampleSize \in Nat \ {0}
  /\ DayLen \in Nat \ {0}
  /\ ZoneChange \in Nat /\ ZoneBefore \in Nat /\ ZoneAfter \in Nat
  /\ StartTime \in Nat /\ MaxTime \in Nat /\ StartTime <= MaxTime
  /\ HitCap \in Nat \ {0}
  /\ Snapshots \in BOOLEAN

(* A change of the clocks moves them by a day at most, and not back over   *)
(* midnight: no zone now in use has such a change.                         *)
ASSUME ZoneAssumption ==
  /\ ZoneBefore - ZoneAfter \in -DayLen .. DayLen
  /\ ZoneChange > 0 => (ZoneChange - 1 + ZoneBefore) \div DayLen
                         <= (ZoneChange + ZoneAfter) \div DayLen

VARIABLES
  clock,             \* time.Now()
  serving,           \* FALSE while main is still loading the database
  entries,           \* c.entries
  heap,              \* the entry objects that something points to
  frame,             \* the cache call each goroutine is in
  pins               \* objects held by a Snapshot or a ForEach batch

storeVars == <<serving, entries, heap, frame, pins>>
vars == <<clock, serving, entries, heap, frame, pins>>

----------------------------------------------------------------------------
(* Entries.                                                                *)

Larger(a, b)  == IF a > b THEN a ELSE b
Smaller(a, b) == IF a < b THEN a ELSE b

(* localDay: the calendar day of t, by the offset of the local zone at t.  *)
(* The day on which the clocks go back is longer than DayLen, and the one  *)
(* on which they go forward shorter.                                       *)
ZoneOffset(t) == IF t < ZoneChange THEN ZoneBefore ELSE ZoneAfter

DayOf(t) == (t + ZoneOffset(t)) \div DayLen

(* The clocks have gone back between s and t.                              *)
ClocksBack(s, t) == ZoneOffset(t) < ZoneOffset(s)

ExpiresAt(e) == e.storedAt + e.ttl

IsExpiredAt(e, t) == t > ExpiresAt(e)

(* What Get serves: within the TTL, or past it but fetched at most MaxAge  *)
(* ago.                                                                    *)
Servable(e, t) == ~IsExpiredAt(e, t) \/ t - e.storedAt <= MaxAge

(* Mutant of OriginalTTL: the negative TTL is the MINIMUM field alone.   *)
OriginalTTLMinimumOnly(m) ==
  LET said == IF m.answer THEN m.ttl ELSE IF m.hasSOA THEN m.soaMin ELSE 0
  IN  IF said = 0 THEN DefaultTTL ELSE said

(* The TTL of a message: that of its first answer; without an answer the   *)
(* smaller of the two TTLs of its SOA; the default when that is 0.         *)
OriginalTTL(m) ==
  LET said == IF m.answer THEN m.ttl
              ELSE IF m.hasSOA THEN Smaller(m.soaMin, m.soaTTL) ELSE 0
  IN  IF said = 0 THEN DefaultTTL ELSE said

(* isCacheable of handler.go: what the handler gives to Set.               *)
IsCacheable(m) == ~m.tc /\ m.rcode \in {"NOERROR", "NXDOMAIN"}

CachedTTL(m) == Smaller(Larger(OriginalTTL(m), TTLMin), TTLMax)

NewEntry(k, r, t) ==
  [key |-> k, resp |-> r, storedAt |-> t, ttl |-> CachedTTL(r.msg),
   hits |-> 1, lastHit |-> t, used |-> PackUsedDays(DayOf(t))]

----------------------------------------------------------------------------
(* The map and the heap.                                                   *)

Present == {k \in Keys : entries[k] # NoObj}

EntryOf(k) == heap[entries[k]]

Idle == [pc |-> "idle", key |-> NoKey, obj |-> NoObj, time |-> 0,
         resp |-> NoResp, hits |-> 0, lastHit |-> 0]

Live == ({entries[k] : k \in Keys} \cup {frame[t].obj : t \in Threads} \cup pins)
          \ {NoObj}

(* The garbage collector: h, less the objects nothing points to any more.  *)
Collect(h) == heap' = [o \in Live' |-> h[o]]

(* Addresses for a new entry of k: those that nothing but the map's own    *)
(* pointer for k refers to, since the new entry takes the place of that    *)
(* one.  The allocator's choice among them is arbitrary.                   *)
FreeSlots(k) == {i \in Slots : /\ \A t \in Threads : frame[t].obj # <<k, i>>
                               /\ <<k, i>> \notin pins}

NewObj(k) == <<k, CHOOSE i \in FreeSlots(k) : TRUE>>

(* The map m comes to hold the entry e.                                    *)
Store(m, e) ==
  /\ FreeSlots(e.key) # {}
  /\ entries' = [m EXCEPT ![e.key] = NewObj(e.key)]
  /\ heap' = [o \in Live' |-> IF o = NewObj(e.key) THEN e ELSE heap[o]]

----------------------------------------------------------------------------
Init ==
  /\ clock = StartTime
  /\ serving = FALSE
  /\ entries = [k \in Keys |-> NoObj]
  /\ heap = [o \in {} |-> NoResp]
  /\ frame = [t \in Threads |-> Idle]
  /\ pins = {}

Tick ==
  /\ clock < MaxTime
  /\ clock' = clock + 1
  /\ UNCHANGED storeVars

(* main, before anything else runs: the rows of the database go into the   *)
(* map as they are, however many there are.                                *)
LoadEntry(e) ==
  /\ ~serving
  /\ entries[e.key] = NoObj
  /\ UNCHANGED <<clock, serving, frame, pins>>
  /\ Store(entries, e)

StartServing ==
  /\ ~serving
  /\ serving' = TRUE
  /\ UNCHANGED <<clock, entries, heap, frame, pins>>

----------------------------------------------------------------------------
(* c.mu.  A section that reads or changes the map is one step, but for the *)
(* one of a Set that copies the usage of the entry it replaces: while such *)
(* a Set is under way nobody else has the lock.                            *)

At(t, pc) == frame[t].pc = pc

Copying(t) == frame[t].pc \in {"copy", "insert"}

(* Mutant of LockFree: c.mu is not locked.                                 *)
NoLock == TRUE

LockFree == \A t \in Threads : ~Copying(t)

----------------------------------------------------------------------------
(* Get, in five steps: the lookup under RLock, then time.Now(), the store  *)
(* of LastHitAt, MarkUsed, and the decision to serve.  The entry it works  *)
(* on may have been replaced or removed from the map in between.           *)

Entered(t) == heap[frame[t].obj]

Calls(t, pc, k, o) ==
  frame' = [frame EXCEPT ![t] = [Idle EXCEPT !.pc = pc, !.key = k, !.obj = o]]

(* Mutant of GetLookup: a key that is not in the map is not noticed.       *)
GetLookupUnchecked(t, k) ==
  /\ serving /\ LockFree
  /\ At(t, "idle")
  /\ Calls(t, "now", k, entries[k])
  /\ UNCHANGED <<clock, serving, entries, heap, pins>>

GetLookup(t, k) ==
  /\ serving /\ LockFree
  /\ At(t, "idle")
  /\ Calls(t, IF entries[k] = NoObj THEN "done" ELSE "now", k, entries[k])
  /\ UNCHANGED <<clock, serving, entries, heap, pins>>

GetNow(t) ==
  /\ At(t, "now")
  /\ frame' = [frame EXCEPT ![t] = [@ EXCEPT !.pc = "touch", !.time = clock]]
  /\ UNCHANGED <<clock, serving, entries, heap, pins>>

GetTouch(t) ==
  /\ At(t, "touch")
  /\ heap' = [heap EXCEPT ![frame[t].obj] = [@ EXCEPT !.lastHit = frame[t].time]]
  /\ frame' = [frame EXCEPT ![t] = [@ EXCEPT !.pc = "mark"]]
  /\ UNCHANGED <<clock, serving, entries, pins>>

GetMark(t) ==
  /\ At(t, "mark")
  /\ heap' = [heap EXCEPT ![frame[t].obj] =
               [@ EXCEPT !.used = Marked(Entered(t).used, DayOf(frame[t].time))]]
  /\ frame' = [frame EXCEPT ![t] = [@ EXCEPT !.pc = "serve"]]
  /\ UNCHANGED <<clock, serving, entries, pins>>

CountHit(h) == IF h < HitCap THEN h + 1 ELSE h

GetServe(t) ==
  /\ At(t, "serve")
  /\ UNCHANGED <<clock, serving, entries, pins>>
  /\ \/ /\ Servable(Entered(t), frame[t].time)
        /\ heap' = [heap EXCEPT ![frame[t].obj] =
                     [@ EXCEPT !.hits = CountHit(Entered(t).hits)]]
        /\ frame' = [frame EXCEPT ![t] = [@ EXCEPT !.pc = "done"]]
     \/ /\ ~Servable(Entered(t), frame[t].time)
        /\ frame' = [frame EXCEPT ![t] = [@ EXCEPT !.pc = "done", !.obj = NoObj]]
        /\ Collect(heap)

(* Mutant of StaleLookup: a key that is not in the map is not noticed.     *)
StaleLookupUnchecked(t, k) ==
  /\ serving /\ LockFree
  /\ At(t, "idle")
  /\ Calls(t, IF StaleServing THEN "stale" ELSE "done", k,
           IF StaleServing THEN entries[k] ELSE NoObj)
  /\ UNCHANGED <<clock, serving, entries, heap, pins>>

(* GetStale: the lookup; the check of the age with the hit it counts (one  *)
(* step, since the fields the check reads never change); time.Now() again; *)
(* the store of LastHitAt.  It marks no day of use.                        *)
StaleLookup(t, k) ==
  /\ serving /\ LockFree
  /\ At(t, "idle")
  /\ LET found == StaleServing /\ entries[k] # NoObj
     IN  Calls(t, IF found THEN "stale" ELSE "done", k,
               IF found THEN entries[k] ELSE NoObj)
  /\ UNCHANGED <<clock, serving, entries, heap, pins>>

StaleUsable(e, t) == t - ExpiresAt(e) <= StaleMaxAge

StaleServe(t) ==
  /\ At(t, "stale")
  /\ UNCHANGED <<clock, serving, entries, pins>>
  /\ \/ /\ StaleUsable(Entered(t), clock)
        /\ heap' = [heap EXCEPT ![frame[t].obj] =
                     [@ EXCEPT !.hits = CountHit(Entered(t).hits)]]
        /\ frame' = [frame EXCEPT ![t] = [@ EXCEPT !.pc = "again"]]
     \/ /\ ~StaleUsable(Entered(t), clock)
        /\ frame' = [frame EXCEPT ![t] = [@ EXCEPT !.pc = "done", !.obj = NoObj]]
        /\ Collect(heap)

StaleNow(t) ==
  /\ At(t, "again")
  /\ frame' = [frame EXCEPT ![t] = [@ EXCEPT !.pc = "retouch", !.time = clock]]
  /\ UNCHANGED <<clock, serving, entries, heap, pins>>

StaleTouch(t) ==
  /\ At(t, "retouch")
  /\ heap' = [heap EXCEPT ![frame[t].obj] = [@ EXCEPT !.lastHit = frame[t].time]]
  /\ frame' = [frame EXCEPT ![t] = [@ EXCEPT !.pc = "done"]]
  /\ UNCHANGED <<clock, serving, entries, pins>>

(* The caller drops the pointer the call has returned.                     *)
Release(t) ==
  /\ At(t, "done")
  /\ frame' = [frame EXCEPT ![t] = Idle]
  /\ UNCHANGED <<clock, serving, entries, pins>>
  /\ Collect(heap)

----------------------------------------------------------------------------
(* Set: the entry is built, its times included, before the lock is asked   *)
(* for; under the lock it inherits the usage of the entry it replaces, or  *)
(* makes room for itself when the key is new, and goes into the map.  The  *)
(* usage is three loads, while goroutines that hold the old entry go on    *)
(* writing to it: the hit count with the lock, LastHitAt, and the days of  *)
(* use with the insertion, since nobody sees the map between these two.    *)

SetNow(t, k, r) ==
  /\ serving
  /\ At(t, "idle")
  /\ frame' = [frame EXCEPT ![t] = [Idle EXCEPT !.pc = "publish", !.key = k,
                                                !.time = clock, !.resp = r]]
  /\ UNCHANGED <<clock, serving, entries, heap, pins>>

SetLock(t) ==
  /\ At(t, "publish") /\ LockFree
  /\ frame[t].key \in Present
  /\ frame' = [frame EXCEPT ![t] = [@ EXCEPT !.pc = "copy",
                                             !.hits = EntryOf(frame[t].key).hits]]
  /\ UNCHANGED <<clock, serving, entries, heap, pins>>

SetCopy(t) ==
  /\ At(t, "copy")
  /\ frame' = [frame EXCEPT ![t] = [@ EXCEPT !.pc = "insert",
                                             !.lastHit = EntryOf(frame[t].key).lastHit]]
  /\ UNCHANGED <<clock, serving, entries, heap, pins>>

(* evictOne visits at most SampleSize entries in the map's random order.   *)
(* The first it meets that has been expired for more than EvictAfter is    *)
(* removed, else the least recently asked for of those it has visited.     *)
Dead(k) == clock > ExpiresAt(EntryOf(k)) + EvictAfter

Samples == {S \in SUBSET {k \in Present : ~Dead(k)} :
              Cardinality(S) = Smaller(SampleSize, Cardinality(Present))}

(* Mutant of Victims: the most recent of the sample.                       *)
VictimsMostRecent ==
  {k \in Present :
     \/ Dead(k)
     \/ \E S \in Samples : /\ k \in S
                           /\ \A j \in S : EntryOf(k).lastHit >= EntryOf(j).lastHit}

Victims ==
  {k \in Present :
     \/ Dead(k)
     \/ \E S \in Samples : /\ k \in S
                           /\ \A j \in S : EntryOf(k).lastHit <= EntryOf(j).lastHit}

(* The maps evictOne may leave behind.                                     *)
Evicted == IF Present = {} THEN {entries}
           ELSE {[entries EXCEPT ![k] = NoObj] : k \in Victims}

(* The maps SetPublish may find when it comes to its insertion of k, and a *)
(* mutant of it that lets the map grow one too far.                        *)
MadeRoomLate(k) == IF k \notin Present /\ Cardinality(Present) > MaxEntries
                     THEN Evicted ELSE {entries}

MadeRoom(k) == IF k \notin Present /\ Cardinality(Present) >= MaxEntries
                 THEN Evicted ELSE {entries}

(* The entry of a Set call, with the usage of the one it replaces.         *)
Published(f) ==
  LET e == NewEntry(f.key, f.resp, f.time)
  IN  IF f.key \in Present
        THEN [e EXCEPT !.hits = f.hits, !.lastHit = f.lastHit,
                       !.used = EntryOf(f.key).used]
        ELSE e

(* The insertion, and the end of the section.                              *)
SetPublish(t) ==
  /\ \/ At(t, "insert")
     \/ At(t, "publish") /\ LockFree /\ frame[t].key \notin Present
  /\ frame' = [frame EXCEPT ![t] = Idle]
  /\ UNCHANGED <<clock, serving, pins>>
  /\ \E m \in MadeRoom(frame[t].key) : Store(m, Published(frame[t]))

Delete(k) ==
  /\ serving /\ LockFree
  /\ entries' = [entries EXCEPT ![k] = NoObj]
  /\ UNCHANGED <<clock, serving, frame, pins>>
  /\ Collect(heap)

(* Snapshot, and the batch a ForEach collects: pointers to the entries of  *)
(* one instant, held while the cache goes on changing.                     *)
Snapshot ==
  /\ serving /\ LockFree /\ Snapshots
  /\ pins' = {entries[k] : k \in Present}
  /\ UNCHANGED <<clock, serving, entries, frame>>
  /\ Collect(heap)

DropSnapshot ==
  /\ pins # {}
  /\ pins' = {}
  /\ UNCHANGED <<clock, serving, entries, frame>>
  /\ Collect(heap)

----------------------------------------------------------------------------
(* The cache under its most general callers: any goroutine may make any    *)
(* call at any time.                                                       *)
CallStep(t) ==
  \/ GetNow(t) \/ GetTouch(t) \/ GetMark(t) \/ GetServe(t)
  \/ StaleServe(t) \/ StaleNow(t) \/ StaleTouch(t)
  \/ SetLock(t) \/ SetCopy(t) \/ SetPublish(t)

Begin(t) ==
  \E k \in Keys :
     \/ GetLookup(t, k)
     \/ StaleLookup(t, k)
     \/ \E m \in Answers : SetNow(t, k, [msg |-> m, at |-> clock])

Next ==
  \/ Tick
  \/ \E e \in Rows : LoadEntry(e)
  \/ StartServing
  \/ \E t \in Threads : Begin(t) \/ CallStep(t) \/ Release(t)
  \/ \E k \in Keys : Delete(k)
  \/ Snapshot \/ DropSnapshot

Spec == Init /\ [][Next]_vars

----------------------------------------------------------------------------
(* The places of a call that works on an entry, and those of a Set.        *)
InGet == {"now", "touch", "mark", "serve", "stale", "again", "retouch"}
InSet == {"publish", "copy", "insert"}

Frame == [pc : InGet \cup InSet \cup {"idle", "done"},
          key : Keys \cup {NoKey}, obj : Objs \cup {NoObj}, time : Nat,
          resp : Response \cup {NoResp}, hits : Nat, lastHit : Nat]

MapOK == /\ clock \in Nat
         /\ serving \in BOOLEAN
         /\ entries \in [Keys -> Objs \cup {NoObj}]
         /\ pins \in SUBSET Objs

FrameOK(f) ==
  /\ f \in Frame
  /\ f.pc \in InGet => f.obj # NoObj
  /\ f.pc \in InSet \cup {"idle"} => f.obj = NoObj
  /\ f.pc # "idle" => f.key \in Keys
  /\ f.pc \in InSet => f.resp \in Response

FramesOK == frame \in [Threads -> Frame] /\ \A t \in Threads : FrameOK(frame[t])

HeapOK == heap \in [Live -> Entry]

LockOK == /\ \A s, t \in Threads : Copying(s) /\ Copying(t) => s = t
          /\ \A t \in Threads : Copying(t) => frame[t].key \in Present

(* Types; the heap holds exactly the objects that something points to, a   *)
(* goroutine inside Get or GetStale has an entry to work on, and of those  *)
(* inside Set one at most copies the usage of an entry, one of the map.    *)
TypeOK == MapOK /\ FramesOK /\ HeapOK /\ LockOK

(* Set keeps the map within MaxEntries (one entry when that is 0 or less), *)
(* whichever calls are between their lookup and their lock; the only way   *)
(* past it is to have loaded more rows than that at the start.             *)
RowKeys == {e.key : e \in Rows}

Capacity == Larger(Larger(1, MaxEntries), Cardinality(RowKeys))

SizeBound == Cardinality(Present) <= Capacity

(* A refresh is not an access by a client, and hit count and days of use   *)
(* survive it (Set, the comment in its locked section): from the moment    *)
(* Set has the lock, whatever other goroutines do to the entry it replaces *)
(* and to the map, and when its own entry takes the place of that one, the *)
(* map has an entry of the name with no fewer hits than Set found, and no  *)
(* day of use is lost but for those the mask has no room for.              *)
NoUseLost(e, f) ==
  {d \in DaysOf(e.used) : d > f.used.day - MaskBits} \subseteq DaysOf(f.used)

UsageKept(t) ==
  LET k == frame[t].key
  IN  /\ k \in Present /\ entries'[k] # NoObj
      /\ heap'[entries'[k]].hits >= frame[t].hits
      /\ NoUseLost(EntryOf(k), heap'[entries'[k]])

RefreshKeepsUsage == [][\A t \in Threads : Copying(t) => UsageKept(t)]_vars

(* evictOne is a sampled LRU: a live entry that gives way to a new one is  *)
(* outlived by at least SampleSize - 1 entries asked for no earlier (all   *)
(* the others, in a map smaller than the sample).                          *)
OutlivedByRecent ==
  \A k \in Present :
    LET insert == \E j \in Keys \ Present : entries'[j] # NoObj
        others == {j \in Present \ {k} : EntryOf(j).lastHit >= EntryOf(k).lastHit}
    IN  (insert /\ entries'[k] = NoObj /\ ~Dead(k)) =>
           Cardinality(others) >= Smaller(SampleSize, Cardinality(Present)) - 1

EvictionSparesTheRecent == [][OutlivedByRecent]_vars

(* How long an entry Set has built is kept: an answer for its TTL at most, *)
(* a negative answer for each of the two TTLs of its SOA (RFC 2308), and   *)
(* nothing longer than TTLMax; TTLMin may prolong it.  This is not what    *)
(* README.md:17 promises, min(SOA TTL, SOA MINIMUM): where one of the TTLs *)
(* is 0, which asks for no caching at all, Set keeps the answer for the    *)
(* default of 60 s, and so it does when there is no SOA.                   *)
StatedTTLs(m) == IF m.answer THEN {m.ttl}
                 ELSE IF m.hasSOA THEN {m.soaTTL, m.soaMin} ELSE {0}

KeptForItsTTLOrTheDefault ==
  \A k \in Present :
    LET e == EntryOf(k)
        stated == StatedTTLs(e.resp.msg)
    IN  e.storedAt >= StartTime =>
          /\ e.ttl <= TTLMax
          /\ \A s \in IF 0 \in stated THEN {DefaultTTL} ELSE stated :
               e.ttl <= Larger(s, TTLMin)

(* A use survives the replacement of its entry (the comments of Get and of *)
(* Set): once Get has marked its day, the entry of the map has that day.   *)
UseSurvivesReplacement ==
  [][\A t \in Threads :
       (At(t, "mark") /\ frame'[t].pc = "serve" /\ frame[t].key \in Present) =>
          DayOf(frame[t].time) \in DaysOf(EntryOf(frame[t].key).used)']_vars
=============================================================================
