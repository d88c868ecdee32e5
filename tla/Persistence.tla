---------------------------- MODULE Persistence ----------------------------
(***************************************************************************)
(* persistence.go and the loops of main.go that use it: the table of the   *)
(* database, the goroutine that saves what has changed, the one that       *)
(* cleans up, the load at the start, a crash, and the -flush command, over *)
(* the store of module Cache with any callers.                             *)
(*                                                                         *)
(* The table keeps stored_at and the TTLs in whole seconds, of Sec ticks,  *)
(* and last_hit_at to the tick.  The process has one connection, so its    *)
(* statements exclude one another; a transaction that is not committed     *)
(* leaves no trace in the table.                                           *)
(***************************************************************************)
EXTENDS Cache

CONSTANTS
  Sec,                 \* ticks per second
  KeepMinDays, KeepWindowDays,
  CleanupAfter,        \* cleanup_after, in ticks; 0 leaves the loop out
  NoRow,               \* no row of this key in the table
  Unreadable,          \* the rows whose Scan or Unpack fails
  InitialRows          \* what the table may hold of a key at first

Row == [msg : Answers, at : Nat, storedAt : Nat, ttl : Nat,
        hits : Nat, lastHit : Nat, used : UsedDays]

(* Every TTL, of a message as of the configuration, is in whole seconds;   *)
(* the program starts more than the window of days after the epoch.        *)
ASSUME PersistenceAssumption ==
  /\ Sec \in Nat \ {0} /\ CleanupAfter \in Nat
  /\ KeepMinDays \in 1 .. KeepWindowDays /\ KeepWindowDays \in 1 .. MaskBits
  /\ NoRow \notin Row /\ InitialRows \subseteq Row \cup {NoRow}
  /\ Unreadable \subseteq Row
  /\ Slots # {}
  /\ StartTime > KeepWindowDays * DayLen
  /\ TTLMin % Sec = 0 /\ TTLMax % Sec = 0 /\ DefaultTTL % Sec = 0
  /\ \A m \in Answers : m.ttl % Sec = 0 /\ m.soaTTL % Sec = 0 /\ m.soaMin % Sec = 0

VARIABLES
  table,               \* per key, its row in cache_entries
  lastSave,            \* lastSave of persistLoop
  loop,                \* where persistLoop is, and its locals; its batch is pins
  wiped                \* auxiliary: keys whose row a Cleanup or -flush removed

persistVars == <<table, lastSave, loop, wiped>>
pvars == <<vars, persistVars>>

NoRows == [k \in Keys |-> NoRow]

LoopAt(pc) == [pc |-> pc, start |-> 0, todo |-> {}, key |-> NoKey,
               row |-> NoRow, tx |-> NoRows]

PersistenceInit ==
  /\ Init
  /\ table \in [Keys -> InitialRows]
  /\ lastSave = 0
  /\ loop = LoopAt("down")
  /\ wiped = {}

----------------------------------------------------------------------------
(* Rows and entries.                                                       *)

Unix(t) == t \div Sec

KeepWindow == KeepWindowDays * DayLen

(* A row written before a column existed has 0 in it: the TTL is then that *)
(* of the upstream, the last use the time it was stored, and the only day  *)
(* of use known that of the last use.                                      *)
EntryOfRow(k, r) ==
  LET lastHit == IF r.lastHit = 0 THEN r.storedAt * Sec ELSE r.lastHit
  IN  [key |-> k, resp |-> [msg |-> r.msg, at |-> r.at],
       storedAt |-> r.storedAt * Sec,
       ttl |-> IF r.ttl = 0 THEN OriginalTTL(r.msg) ELSE r.ttl * Sec,
       hits |-> r.hits, lastHit |-> lastHit,
       used |-> IF r.used = NoUse THEN PackUsedDays(DayOf(lastHit)) ELSE r.used]

(* Mutant of Loadable: what has expired is not loaded.                     *)
LoadableUnexpired(e, t) == t - e.lastHit <= KeepWindow /\ ~IsExpiredAt(e, t)

(* LoadAll takes what a client has asked for within the window, expired or *)
(* not, and skips the rows it cannot read.                                 *)
Loadable(e, t) == t - e.lastHit <= KeepWindow

Readable(k) == table[k] \notin {NoRow} \cup Unreadable

Loaded == {k \in Keys : Readable(k) /\ Loadable(EntryOfRow(k, table[k]), clock)}

----------------------------------------------------------------------------
(* The start of the process: NewPersistence, LoadAll and the entries put   *)
(* into the map, one after the other with nothing else running; or an      *)
(* error, and the start goes on with an empty map.                         *)
Boot(keys) ==
  /\ loop.pc = "down"
  /\ UNCHANGED <<clock, serving, frame, pins, table, lastSave, wiped>>
  /\ entries' = [k \in Keys |-> IF k \in keys THEN NewObj(k) ELSE NoObj]
  /\ heap' = [o \in Live' |-> EntryOfRow(o[1], table[o[1]])]
  /\ loop' = LoopAt("boot")

LoadAll == Boot(Loaded)
LoadFailed == Boot({})

Serve == /\ loop.pc # "down"
         /\ StartServing
         /\ UNCHANGED persistVars

(* The goroutine of the loop takes its first lastSave.                     *)
LoopStart ==
  /\ loop.pc = "boot"
  /\ loop' = LoopAt("wait")
  /\ lastSave' = clock
  /\ UNCHANGED <<vars, table, wiped>>

----------------------------------------------------------------------------
(* A round of persistLoop.  `start' is taken before the scan.              *)
RoundStart ==
  /\ loop.pc = "wait"
  /\ loop' = [LoopAt("lock") EXCEPT !.start = clock]
  /\ UNCHANGED <<vars, table, lastSave, wiped>>

(* ForEach, under RLock, looks at one entry after the other.               *)
ScanBegin ==
  /\ loop.pc = "lock" /\ LockFree
  /\ loop' = [loop EXCEPT !.pc = "scan", !.todo = Present]
  /\ UNCHANGED <<vars, table, lastSave, wiped>>

Changed(e) == e.storedAt >= lastSave \/ e.lastHit >= lastSave

ScanEntry(k) ==
  /\ loop.pc = "scan" /\ k \in loop.todo
  /\ loop' = [loop EXCEPT !.todo = @ \ {k}]
  /\ pins' = IF Changed(EntryOf(k)) THEN pins \cup {entries[k]} ELSE pins
  /\ UNCHANGED <<clock, serving, entries, heap, frame, table, lastSave, wiped>>

(* The lock is given back, and SaveBatch begins with the batch.            *)
ScanEnd ==
  /\ loop.pc = "scan" /\ loop.todo = {}
  /\ loop' = [loop EXCEPT !.pc = "save", !.todo = {o[1] : o \in pins}]
  /\ UNCHANGED <<vars, table, lastSave, wiped>>

(* The entry of k in the batch, and the row of k the table would get.      *)
Batched(k) == heap[CHOOSE o \in pins : o[1] = k]

(* The arguments of the INSERT: hit count and last use first, then the     *)
(* days of use; hits on the entry go on.                                   *)
ReadRow(k) ==
  /\ loop.pc = "save" /\ k \in loop.todo
  /\ LET e == Batched(k)
     IN  loop' = [loop EXCEPT !.pc = "row", !.key = k,
                    !.row = [msg |-> e.resp.msg, at |-> e.resp.at,
                             storedAt |-> Unix(e.storedAt), ttl |-> Unix(e.ttl),
                             hits |-> e.hits, lastHit |-> e.lastHit, used |-> NoUse]]
  /\ UNCHANGED <<vars, table, lastSave, wiped>>

WriteRow ==
  /\ loop.pc = "row"
  /\ LET k == loop.key
     IN  loop' = [loop EXCEPT !.pc = "save", !.todo = @ \ {k},
                    !.key = NoKey, !.row = NoRow,
                    !.tx[k] = [loop.row EXCEPT !.used = Batched(k).used]]
  /\ UNCHANGED <<vars, table, lastSave, wiped>>

Written == {k \in Keys : loop.tx[k] # NoRow}

(* The batch is done with: the loop drops its pointers.                    *)
EndRound ==
  /\ loop' = LoopAt("wait")
  /\ pins' = {}
  /\ UNCHANGED <<clock, serving, entries, frame>>
  /\ Collect(heap)

Committed == [k \in Keys |-> IF k \in Written THEN loop.tx[k] ELSE table[k]]

(* Mutant of Commit: the next round goes by the end of this one.           *)
CommitLate ==
  /\ loop.pc = "save" /\ loop.todo = {}
  /\ table' = Committed
  /\ lastSave' = clock
  /\ wiped' = wiped \ Written
  /\ EndRound

(* The transaction is committed; without a batch there is none.            *)
Commit ==
  /\ loop.pc = "save" /\ loop.todo = {}
  /\ table' = Committed
  /\ lastSave' = loop.start
  /\ wiped' = wiped \ Written
  /\ EndRound

(* Mutant of SaveFails: the rows that were not saved are not tried again.  *)
SaveFailsForGood ==
  /\ loop.pc \in {"save", "row"} /\ pins # {}
  /\ EndRound
  /\ lastSave' = loop.start
  /\ UNCHANGED <<table, wiped>>

(* Begin, Pack, an INSERT or the commit fails: all is rolled back, and the *)
(* next round goes by the same lastSave.                                   *)
SaveFails ==
  /\ loop.pc \in {"save", "row"} /\ pins # {}
  /\ EndRound
  /\ UNCHANGED <<table, lastSave, wiped>>

LoopStep ==
  \/ LoopStart \/ RoundStart \/ ScanBegin \/ ScanEnd \/ WriteRow \/ Commit
  \/ \E k \in Keys : ScanEntry(k) \/ ReadRow(k)

----------------------------------------------------------------------------
(* Cleanup, once the connection is free; its cutoff was taken before.      *)
Wipe(keys) ==
  /\ table' = [k \in Keys |-> IF k \in keys THEN NoRow ELSE table[k]]
  /\ wiped' = wiped \cup keys
  /\ UNCHANGED <<vars, lastSave, loop>>

Free == loop.pc \notin {"save", "row"} \/ pins = {}

Cleanup ==
  /\ CleanupAfter > 0 /\ loop.pc # "down" /\ Free
  /\ \E t \in StartTime .. clock :
       LET cutoff == Unix(t - Larger(CleanupAfter, KeepWindow))
       IN  Wipe({k \in Keys : table[k] # NoRow /\ table[k].storedAt < cutoff})

(* dns-cache -flush, from another process, while no write of this one is   *)
(* under way (SQLite refuses one of two writers).                          *)
Flush ==
  /\ Written = {}
  /\ Wipe({k \in Keys : table[k] # NoRow})

(* The process ends anywhere: all but the table is gone.                   *)
Crash ==
  /\ loop.pc # "down"
  /\ serving' = FALSE
  /\ entries' = [k \in Keys |-> NoObj]
  /\ heap' = [o \in {} |-> NoResp]
  /\ frame' = [t \in Threads |-> Idle]
  /\ pins' = {}
  /\ loop' = LoopAt("down")
  /\ lastSave' = 0
  /\ wiped' = {}
  /\ UNCHANGED <<clock, table>>

----------------------------------------------------------------------------
(* The other goroutines: any call of the cache, a message of the upstream  *)
(* stored only when it may be.  Which of two equal messages it was makes   *)
(* no difference here.                                                     *)
AnyCall(t) ==
  \E k \in Keys :
     \/ GetLookup(t, k)
     \/ StaleLookup(t, k)
     \/ \E m \in Answers : IsCacheable(m) /\ SetNow(t, k, [msg |-> m, at |-> 0])

(* Mutant of Locked: the scan does not hold the lock.                      *)
Unlocked == FALSE

(* A scan holds the lock for reading: no Set and no Delete gets it.        *)
Locked == loop.pc = "scan"

ClientStep(t) ==
  /\ AnyCall(t) \/ CallStep(t) \/ Release(t)
  /\ Locked => frame[t].pc \notin InSet
  /\ UNCHANGED persistVars

Remove(k) == ~Locked /\ Delete(k) /\ UNCHANGED persistVars

(* t is between the hit a GetStale counts and its store of LastHitAt.      *)
ServesStale(t) == At(t, "again") \/ At(t, "retouch")

PersistenceNext ==
  \/ Tick /\ UNCHANGED persistVars
  \/ LoadAll \/ LoadFailed \/ Serve \/ Crash
  \/ LoopStep \/ SaveFails
  \/ Cleanup \/ Flush
  \/ \E t \in Threads : ClientStep(t)
  \/ \E k \in Keys : Remove(k)

PersistenceSpec == PersistenceInit /\ [][PersistenceNext]_pvars

(* The process takes no time worth a tick between reading the clock and    *)
(* finishing the call, or before the loop has its first lastSave.          *)
Prompt ==
  /\ serving => loop.pc # "boot"
  /\ \A t \in Threads :
       frame[t].pc \notin {"touch", "mark", "serve", "again", "retouch"} \cup InSet

(* And the scheduler runs the loop and what has begun under the lock or in *)
(* a GetStale; c.mu lets in all who wait for it (a sync.RWMutex does).     *)
PromptSpec ==
  /\ PersistenceInit /\ [][PersistenceNext /\ (clock' # clock => Prompt)]_pvars
  /\ SF_pvars(LoopStep)
  /\ \A t \in Threads : WF_pvars(ClientStep(t) /\ (Copying(t) \/ ServesStale(t)))

----------------------------------------------------------------------------
LoopState == [pc : {"down", "boot", "wait", "lock", "scan", "save", "row"},
              start : Nat, todo : SUBSET Keys, key : Keys \cup {NoKey},
              row : Row \cup {NoRow}, tx : [Keys -> Row \cup {NoRow}]]

(* Types; the batch is empty between rounds, and what is left to look at   *)
(* or to save of it is in the map or in the batch.                         *)
PersistenceTypeOK ==
  /\ TypeOK
  /\ table \in [Keys -> Row \cup {NoRow}]
  /\ lastSave \in Nat
  /\ loop \in LoopState
  /\ loop.pc = "scan" => loop.todo \subseteq Present
  /\ loop.pc \in {"save", "row"} => loop.todo \subseteq {o[1] : o \in pins}
  /\ loop.pc \notin {"scan", "save", "row"} => pins = {}

(* What a restart would make of k is what the memory has, but for the      *)
(* fraction of a second of its time, and for a TTL of 0 (ttl_max: 0),      *)
(* which comes back as that of the upstream.                               *)
Restored(e) ==
  [e EXCEPT !.storedAt = Unix(@) * Sec,
            !.ttl = IF @ = 0 THEN OriginalTTL(e.resp.msg) ELSE @]

Saved(k) == table[k] # NoRow /\ EntryOfRow(k, table[k]) = Restored(EntryOf(k))

(* What the table does not have yet is taken up by the next round: an      *)
(* entry that differs from its row has a time no earlier than lastSave     *)
(* (the comment of persistLoop: a change during the save is not lost), the *)
(* rows a Cleanup or -flush has removed apart, and those of an entry whose *)
(* LastHitAt a GetStale is about to store.                                 *)
NextRoundSavesIt ==
  loop.pc \notin {"down", "boot"} =>
    \A k \in Present \ wiped :
      \/ Saved(k)
      \/ Changed(EntryOf(k))
      \/ \E t \in Threads : ServesStale(t) /\ frame[t].obj = entries[k]

(* A row whose days of use go beyond its last use: SaveBatch, or a Set     *)
(* before it, read the LastHitAt of an entry, a client hit it on a new     *)
(* day, and SaveBatch or Set read its UsedDays.                            *)
Torn(e) == e.used.day > DayOf(e.lastHit)

(* A restart forgets no usual name: if the row says that the name was used *)
(* on enough days of the window, it is in the map with the same days of    *)
(* use, however long ago it has expired (the comments of LoadAll).  A torn *)
(* row may fail LoadAll's test of its last use, and when the clocks have   *)
(* gone back since, so may one that needs the first day of the window,     *)
(* which is then more than KeepWindowDays times 24 hours ago.              *)
SureDays(e, t) == IF ClocksBack(e.lastHit, t) THEN KeepWindowDays - 1 ELSE KeepWindowDays

SurelyUsual(e, t) == DaysUsed(e.used, DayOf(t), SureDays(e, t)) >= KeepMinDays

WholeRowsSurviveRestart ==
  [][\A k \in Keys :
       LET e == EntryOfRow(k, table[k])
       IN  (LoadAll /\ Readable(k) /\ SurelyUsual(e, clock) /\ ~Torn(e)) =>
             entries'[k] # NoObj /\ heap'[entries'[k]] = e]_pvars

(* A change gets into the table once rounds no longer fail, whichever have *)
(* failed before, unless the entry is removed, the process ends or the row *)
(* is wiped (persistLoop: "il giro dopo riprova le stesse").               *)
RoundsStopFailing == <>[][~SaveFails]_pvars

ChangesGetSaved ==
  RoundsStopFailing =>
    \A k \in Keys : k \in Present ~> (k \notin Present \/ k \in wiped \/ Saved(k))

(* Cleanup never removes a row within the window of the days of use: the   *)
(* history that says which names are usual would go with it (runServer).   *)
CleanupKeepsTheHistory ==
  [][\A k \in Keys :
       (Cleanup /\ table[k] # NoRow /\ table'[k] = NoRow) =>
          clock - EntryOfRow(k, table[k]).lastHit > KeepWindow]_pvars
=============================================================================
