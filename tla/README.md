# Verification of dns-cache

dns-cache is a caching DNS forwarder: it answers from memory, asks upstream
resolvers on a miss, serves a late answer while it fetches a new one, keeps the
names that are in regular use fresh in the background, and writes what it knows
to SQLite so that a restart does not begin from nothing.

This directory holds TLA+ modules translated from its Go source, the TLC
configurations that check them on small instances, and proofs for every value
of the constants, checked by the TLA+ proof system. Paths and line numbers are
those of the repository.

## 1. Inventory

| component | source | state | operations |
|---|---|---|---|
| usage history | `cache/entry.go` | one atomic 64-bit word per entry: last day of use, mask of the 32 days up to it | `PackUsedDays`, `MarkUsed` (load / compare-and-swap loop), `DaysUsed` |
| in-memory store | `cache/cache.go` | `entries` (map under an RWMutex), the entries (immutable answer, atomic hit count, last hit, days of use), dashboard counters | `Get`, `GetStale`, `Set` with `evictOne`, `Delete`, `Snapshot`, `ForEach`, `LoadEntry`, `Stats` |
| DNS handler | `handler.go` | the `singleflight` group; one goroutine per query | `ServeDNS`, `resolveAndCache`, `isCacheable`, `respond` |
| resolver | `resolver.go` | none | `Resolve`: upstreams in random order, 5 s each, retry over TCP when truncated |
| refresher | `refresher.go` | ticker, stop channel, semaphore of 5, `failures` | `loop`, `refreshCycle`, `selectCandidates`, `refreshEntry`, `pruneFailures`, `pruneUnused`, `Stop` |
| persistence | `persistence.go`, `main.go:204-253` | the table, `lastSave` of the save loop | `SaveBatch`, `LoadAll`, `Cleanup`, `persistLoop`, `cleanupLoop` |
| start and stop | `main.go`, `Start` and `Stop` of the parts | the deferred calls, the channels, which goroutines run | `runServer`, signals, fatal ends |
| statistics socket, web page | `stats/`, `web/` | none of their own | format one `Stats` snapshot |
| configuration | `config.go` | none | parse, `normalize` |
| command line | `main.go` | none | `-stats`, `-flush`, `-version` |

**How they interact.** All parts share the cache by direct calls. What makes
this delicate is that `Get` and `GetStale` return a *pointer* to an entry and
give the lock back: the caller touches, marks and serves an entry that a `Set`
may have replaced, or `evictOne` or `Delete` removed, in the meantime. The
handler starts flights, at most one per name, and clients wait for the flight of
another. The refresher works on pointers of a snapshot, outside singleflight,
and deletes by key. Persistence walks the map in batches and compares times that
other goroutines wrote. `main` loads the rows before anything else runs.

**What is hard**, and what should hold in spite of it:

| component | hard behaviour | property |
|---|---|---|
| usage history | marks racing with each other across midnight; shifts at the width of the mask | the word implements an atomic log of days; `DaysUsed` counts the right ones; calls end |
| store | steps of a `Get` around a replacing `Set`; usage copied in three loads while it changes; insertions that race for the last place | a replacement loses no use that was in the entry; the map stays bounded; evictions are those of a sampled LRU |
| handler | a flight that ends between a miss and the join; a late hit that joins or starts a flight; failure, then a stale answer | cached before delivered; the answers of the handler alone never go back in time; every query returns |
| refresher | slow cycles and dropped ticks; failures and backoff; decisions on an old snapshot; `Stop` in any state | usual names never outlive their life; one refresh of a name at a time; backoff respected; the loop ends |
| persistence | changes during a save, failed batches, crash and restart, rows of older versions, days of 23 and 25 hours | what a round leaves behind the next one takes up; a change reaches the table; a restart forgets no usual name |
| start and stop | parts that fail to start, a signal at any time, waits on goroutines that may be in an exchange | the database outlives its loops; what runs in the background is over or told to stop when `runServer` returns; a signal ends the process |
| counters | buckets of the window that change hands between atomic steps; a report made while queries are counted | no report that read whole buckets has counts older than its window; outcomes never exceed queries |
| configuration | options clamped to each other | what `normalize` leaves of the three options it looks at can be used |

The list of hazards in `PROJECT.json` gives the line at which each one bites.

## 2. Modules

| module | models | extends / uses |
|---|---|---|
| `UsageDays` | the packed word and its operators | |
| `UsageLog` | abstract: a log of days with atomic marks | |
| `MarkUsed` | the compare-and-swap loop among goroutines; refines `UsageLog` | `UsageDays` |
| `Cache` | the store, with any callers | `UsageDays` |
| `DnsService` | abstract: what clients are promised | |
| `Handler` | `ServeDNS` and singleflight over the store; refines `DnsService` | `Cache` |
| `Refresher` | the refresh loop over the store, with any clients | `Cache` |
| `Persistence` | the table, the save and cleanup loops, crash and restart, `-flush`, over the store with any callers | `Cache` |
| `Server` | `runServer` from its configuration to its deferred calls, and the goroutines it starts | |
| `Statistics` | the counters, the sliding window and `Stats` | |
| `MCCache`, `MCHandler`, `MCRefresher`, `MCPersistence`, `MCServer`, `MCStatistics` | instances for TLC | |
| `UsageDaysProofs`, `MarkUsedProofs`, `CacheProofs`, `HandlerProofs`, `RefresherProofs`, `PersistenceProofs`, `ServerProofs`, `StatisticsProofs` | theorems (section 5) | the module they are about; the three over the store also `CacheProofs` |

### State and actions against the code

**UsageDays, MarkUsed.** The 64-bit word is `[day, mask]` with the mask as the
set of its one-bit positions; its width is the constant `MaskBits` (32). A
shift moves positions up and drops those past the width, as the code's 32-bit
arithmetic does. `Load` and `Swap` are the two atomic operations of the loop.

**Cache.** `entries` maps keys to objects of `heap`, and `frame[t]` is the call
goroutine `t` is in: where it is, the object it has looked up, the time it has
taken, the answer it is storing. A key is a (canonical name, type) pair and stays
atomic. One action per lock section or per atomic operation that another
goroutine can come between:

* `GetLookup` (RLock), `GetNow` (`time.Now`), `GetTouch` (`LastHitAt`),
  `GetMark` (`MarkUsed`), `GetServe` (the decision and the hit count);
* `StaleLookup`, `StaleServe` (the age and the hit), `StaleNow` (`time.Now`
  again), `StaleTouch` (`LastHitAt`);
* `SetNow` builds the entry before the lock. For a key that is present,
  `SetLock`, `SetCopy` and `SetPublish` are the three loads of `cache.go:216-218`
  (hit count, last use, days of use), under the lock, with `Get` and `GetStale`
  of other goroutines writing to the old entry in between; the last is one step
  with the insertion, since nobody sees the map between the two. For a new key
  `SetPublish` is the whole section: room made by `evictOne`, the insertion;
* `Delete`, `Snapshot`, `DropSnapshot`, `LoadEntry`, `StartServing`, `Tick`.

`LockFree` is the lock for all others: while a `Set` copies (`Copying`), no
lookup, `Set`, `Delete`, snapshot or scan gets in. So a new entry may have the
last use of one instant and the days of a later one: a `Get` that is between its
two writes when `Set` reads them gives the copy a day of use after its last use.

`DayOf` is `localDay`: the calendar day of a tick by the offset of the local
zone at that tick. The zone changes once, at `ZoneChange`, from `ZoneBefore` to
`ZoneAfter`, so one day of a run may be longer or shorter than `DayLen`, while
`KeepWindow` is days times `DayLen`, as `Config.KeepWindow` is days times 24
hours.

`GetMark` is one step although `MarkUsed` is a loop: `MarkUsed` (the module) is
the proof that the loop is atomic. `evictOne` samples at most `SampleSize`
entries in the map's random order, so its victim is any of `Victims`. An object
that nothing points to leaves the heap (the garbage collector), which is what
makes the state space finite; the theorem `TypeCorrect` shows that the model
never collects an object a goroutine still works on.

**Handler.** A client is a query: `Arrive` starts its `Get`; `Hit`, `Miss`,
`Join`, `RespondHit`, `RespondFetched`, `TryStale`, `RespondStale`, `Return`
follow `ServeDNS`. `flight[k]` is the singleflight call of the key: `JoinFlight`
is `Do` / `DoChan`, `Answered` / `Failed` the return of `Resolve`, `CacheAnswer`
or `SkipCache`, `Storing` and `Publish` the rest of `resolveAndCache`, `Deliver` the end of
the call that wakes its waiters. The goroutine of a flight calls the cache under
its own frame, named by the key. The refresher, which stores its answers without
regard to the flights, is not in this module: what it says, it says of the
handler alone.

**Refresher.** `ticker` is a `time.Ticker` (a channel with room for one tick);
`cycle` is where the loop is and the locals of `refreshCycle`, the pointers of
its snapshot held in `pins`; `worker[w]` is a place of the semaphore and the
`refreshEntry` in it. The pruning goes entry by entry (`PruneLook`,
`PruneDelete`) because other goroutines run between the reading of an entry and
the deletion of its key. `Select` is `selectCandidates`. Clients make any cache
call of a query at any time, the `Set` of a flight included.

**Persistence.** `table` has a row per key or none; a row keeps `stored_at` and
the TTL in whole seconds (`Unix`, of `Sec` ticks) and the last use to the tick,
as the columns do, and `EntryOfRow` is the way back, zeros of older versions
included. A row whose `Scan` or `Unpack` fails is in `Unreadable`, and the load
skips it and goes on with the others, as it does with a row not used within the
window. `loop` is where `persistLoop` is and its locals: `RoundStart` takes
`start`, `ScanBegin` .. `ScanEnd` are `ForEach` under the read lock (no `Set` or
`Delete` gets in, but hits do), `ReadRow` and `WriteRow` the arguments of one
`INSERT` (two steps: hits go on between the loads), `Commit` or `SaveFails` the
end. The batch is `pins`, since it keeps the objects alive. `Crash` leaves only
the table; `LoadAll` or `LoadFailed` starts again. `Cleanup` takes its cutoff
before it gets the connection, so it may be from any earlier time.

**Server.** `main` is the place in `runServer`, `defers` the stack of deferred
calls, `part` the state of each goroutine, socket and of the database, `chans`
what has been closed or sent. `Fatal` ends the process and runs nothing that is
deferred, as `log.Fatalf` does; `Ends("panic")` is the panic of `NewTicker`. A
wait with a timeout may end at any time; the wait for the loops of the database
has none and ends when they have left.

**Statistics.** One action per atomic operation of `IncrQueries`, of the count of
an outcome in `Get`, and of `recordWindow` (`LoadBucket`, `TakeBucket` for the
compare-and-swap, `ZeroHits`, `ZeroMisses`, `AddToBucket`); a goroutine may be
held up anywhere while the minute changes. `Stats` reads in the order of the
code. `counted` is auxiliary: what was really added in each minute.

### Abstractions

* A message is a record of what decides its fate: rcode, truncation, whether it
  has an answer, its TTLs. Its contents and the rewriting for a client (EDNS,
  the TTL shown, the question echoed) are left out.
* The tick is the unit of time; a call may span any number of ticks.
* The counters are in `Statistics` and not in `Cache`: nothing decides by them.
  Late hits, stale answers and errors are totals like the others and left out.
  `windowStats` reads the buckets from the first to the last, each in one step;
  `clean` says that it was not being emptied at that moment. The three loads of a
  bucket are not told apart: the only writes between them that could show old
  counts are those of a takeover, which `clean` excludes.
* One change of the zone per run, of a day at most and not back over midnight
  (`ZoneAssumption`). Offsets are not negative; adding whole days to both
  changes the numbers of the days and nothing else.
* SQLite is a table that takes a transaction as a whole or not at all, over one
  connection; `-flush` comes from another process and between transactions.
* `Resolve` is an exchange that ends at any later time with any message of
  `Answers` or an error. The order of the upstreams is not told apart.
* The sort of the candidates reads hit counts while hits go on; in `Select` it
  reads them at one instant. Only the order of a cut list could differ.
* The backoff is `Interval * 2^count`, cut to its maximum before a shift could
  overflow; the code reaches the same value through `wait <= 0`.
* `Stop` closes the channel in `Refresher`; the six seconds it is willing to
  wait are in `Server`.
* In `Server` the goroutines only wait or work; what they do is in the others.

## 3. Runs

| run | instance | what it shows |
|---|---|---|
| `mark_used` | 3 goroutines, days 4 5 7 9, mask of 4 bits | the loop implements the log of days, with marks of the same day, of earlier days, shifts within, at and past the mask; `DaysUsed` for all windows; each call returns |
| `cache` | 1 goroutine, 4 keys, room for 3, sample of 2, 1 loaded row, two negative answers (SOA TTL 1 with MINIMUM 3 and 0), snapshots, 2 ticks | types, and no call left without its object; size bound, sampled LRU; an answer is kept no longer than its TTLs, or than the default where one is 0 |
| `cache_use_lost` | 2 goroutines, 1 key, 2 days | **violation**: a use marked on an entry that has just been replaced is lost |
| `handler` | 2 clients, 1 name that may have a row, good and SERVFAIL answers, failures, 2 ticks | types, cached before delivered, refinement of `DnsService`, every query returns |
| `refresher_fresh` | 1 client, 1 worker, ticks 8 to 16 (4 intervals), window of 3 days of 4 ticks, clocks back by 2 ticks at tick 9, failures | an entry of a usual name never outlives its life; a refresh loses no use it has found, whatever hits come between its loads; a prune takes no day of use to count, those the property names apart |
| `refresher_cycles` | 1 client, 2 workers, good and refused answers, failures, backoff of 1 tick, `Stop` | types, one refresh per name, a retry not before the backoff is over, the loop ends |
| `refresher_truncated` | as above with truncated answers | **violation**: a truncated answer is cached |
| `persistence` | 1 goroutine, 1 key, no row or one of this or of an older version or one that cannot be read, window of 2 days of 2 ticks, clocks back by a day, stale answers, cleanups, crashes, failed rounds | what a round leaves behind is taken up by the next; a change gets saved; a restart forgets no name that a whole row says is usual |
| `persistence_cleanup` | the same from an empty table, 4 days | **violation**: a cleanup removes the row of a name that is in use |
| `server` | 128 configurations around the limits, each part on or off, signal at any time | database closed after its loops, loops and refresher over or told to stop, `normalize` leaves usable values, a signal ends the process |
| `server_interval` | refresh interval 0 or 30 | **violation**: the interval 0 ends the server |
| `statistics` | 2 goroutines, 3 queries, window of 2 minutes, 3 minutes, one reader | types, no bucket with a minute to come, outcomes within queries, window without old counts but for a bucket read while it is emptied |

Every property of a passing run has a mutant of the code's definitions that
breaks it (`PROJECT.json`, `mutants`); the mutants stand in the modules, before
the definition they change.

**Bounds.** `MaxTime` stops the clock and `HitCap` saturates hit counts (the
thresholds of `RefreshThreshold` are above the cap; with lives of four ticks the
interval, not the share, sets the window, except in the mutant of `Threshold`).
`Slots` is how many entry objects of one key may be alive at a time. Besides the
map's own, which a new entry replaces, they are those held by the other
goroutines, one each, and by a snapshot or a batch, one: `goroutines + 1` slots
never block a step. The instances have that many, but for `cache`: there a `Set`
on a key whose entry is in a snapshot waits until the snapshot is dropped (the
refresher and the save loop have the overlap of the two). `Snapshots` switches
`Snapshot` off where no caller takes one. TTLs, `MaxAge`, `StaleMaxAge` and `EvictAfter` are 0 to 4
ticks, such that within `MaxTime` an entry can be fresh, late, stale and dead.
`MaskBits` is 2 or 4, so that a few days cross the width of the mask. `MaxRTT`
is the length of an exchange in `PromptSpec` only, and `MaxDue` how many names a
cycle finds due in `KeptFresh` only: 1, as the instance has one name.

In `statistics` the third minute makes a bucket of the first one old, and three
queries are one to leave counts behind and two to race for the takeover. In
`persistence` a day and a second are two ticks, so that rounding, the window and
the days of use come into play between the ticks 6 and 7, and the clocks go back
at tick 6 by a day, the most `ZoneAssumption` allows: the row of an older version
can be loaded at tick 6 and no longer at tick 7, that of this one at both. In
`persistence_cleanup` a day is one tick.

In `refresher_fresh` the clocks go back during the first day of the run, day 2,
which has six ticks (5 to 10) where a day has four. The loaded row was last used
when day 1 began, at tick 1, so `pruneUnused` may take it from tick 14 on, more
than twelve ticks later: at 14 its last day is still the first of the window
(`FirstOfALongWindow`), at 15 it is not; and a `Set` that copies its usage around
a `Get` in between gives the torn copy (`CopiedTorn`). In
`refresher_cycles` the backoff of one tick is over within the run of two, so the
retry after a failure, and the next failure, are in it.

Deadlock is checked everywhere but in `server`, where a process that has ended
takes no more steps.

**Fairness.** `MarkUsed` assumes weak fairness of each goroutine's own steps: the
Go scheduler runs a goroutine that can go on. It needs no more: a swap fails only
because another has succeeded, and only finitely many days exist. `Handler` and
`Refresher` assume strong fairness of each goroutine (a client in a query, a
flight, the loop, a worker): a step that waits for `c.mu` is enabled again and
again while others pass through the lock, and a `sync.RWMutex` lets everyone in
who waits; a waiting `Lock` keeps new readers out, and an `Unlock` lets the
waiting readers in. It includes the end of an exchange, since each upstream has a
timeout of five seconds and there are finitely many. The clients of `Refresher`
and of `Persistence` may do as they like, but one that copies under the lock goes
on (weak fairness of `Copying`), and so does, in `Persistence`, one between the
hit and the store of a `GetStale`. No fairness is assumed of arrivals, of the
clock, or of which result an exchange has.

`KeptFresh` is a real-time statement and needs a bound on how slow the process
may be. `PromptSpec` lets a tick pass only when the loop, the calls and the
workers have nothing to do but wait for an upstream that has been asked less
than `MaxRTT` ticks ago: a scan of the map takes milliseconds against an
interval of tens of seconds. The promise is restricted to what the code can
mean: the name was usual on every day since the entry was stored, no refresh has
failed since, and a cycle fits (`Fits`). A cycle takes `CycleTime`, the exchanges
of `MaxDue` names shared out among the workers; the life must leave room for an
interval and a cycle, and the interval for two cycles. Room in the life alone is
not enough. The window `selectCandidates` keeps before the end of a life is one
and a half intervals: one until the next tick, which leaves half of one for the
cycle. TLC finds an entry of a usual name outliving its life with one name, an
interval of 3, an exchange of 3 and a life of 6, and with three names, one worker,
an interval of 2, exchanges of 1 and a life of 3. With the window by hit count
alone (mutant `ThresholdByHits`) the promise fails whatever fits.
`PruneSparesTheHistory` is checked under the same assumption. It leaves three
days of use out, and names each: that of the instant of the cycle; one that a
`Set` copied after it had copied an older last use (`CopiedTorn`, see section 4);
and the first day of a window in which the clocks have gone back, which may lie
more than `KeepWindow` back (`FirstOfALongWindow`).

`Persistence` has a `PromptSpec` too: a tick passes only when no call stands
between reading the clock and its end, and not between the start of serving and
the first `lastSave`. Without it `NextRoundSavesIt` does not hold: a mark that
carries a time before the scan but is stored after it is seen by no round until
the name is asked for again. The comment of `persistLoop` (`main.go:208-210`)
holds up to that gap, of microseconds against rounds of 30 seconds.
`ChangesGetSaved` assumes strong fairness of the loop, which scans under the lock,
and that from some time on no round fails.

`Server` assumes weak fairness of `main` (its timeouts pass) and of the end of
a database statement, and strong fairness of a loop's choice to leave: Go's
`select` picks at random among the ready cases, so a loop that finds both a tick
and the closed channel again and again takes the channel once. Nothing is
assumed of the refresher's cycles, of clients or of the listeners.

## 4. Where the code and its documents differ

1. **A use can be lost** (`cache_use_lost`). `Get` marks the entry it has looked
   up; a `Set` that published in between has copied the usage before the mark.
   The test of the replacement (`cache/cache_test.go:68-70`) says usage must
   survive it. For a name asked for once that day, it is a day of use.
2. **A truncated answer is cached** (`refresher_truncated`). `Resolve` returns
   the truncated message when the retry over TCP fails (`resolver.go:74-82`);
   `refreshEntry` looks at the rcode only. `handler.go:114-115`: never.
3. **A cleanup forgets a name in use** (`persistence_cleanup`). The load keeps
   what was asked for within the window, the cleanup what was *answered* within
   it. A name asked for every day while its refreshes fail loses its row;
   `main.go:117-118` says that this must not happen.
4. **An interval of 0 ends the server** (`server_interval`). `normalize` does not
   look at `refresh_interval`, and `NewTicker` panics in a goroutine.

Some windows break no promise the documents spell out, and the models have them:

* The goroutine of a `Get` writes the last use before the day, and `Set` reads them
  in that order, without the two excluding one another. If the marks fall between
  the loads, the new entry has the last use of before and the day of after:
  `pruneUnused`, which goes by the last use, may delete it up to the time since
  that use too early (`CopiedTorn`), and `LoadAll` its row. It takes a name hit at
  the very moment of its refresh and then not again for the whole window.
* When the clocks go back, the day is one of 25 hours, and the first day of the
  window may begin more than `KeepWindowDays` times 24 hours ago
  (`cache.go:73-77` against `entry.go:59-64`). `DaysUsed` counts it, `LoadAll` and
  `pruneUnused` do not: a name whose last use was within that first hour, and that
  needs that day to be usual, is dropped (`SureDays`, `FirstOfALongWindow`). With
  `keep_min_days: 1` one day is all that it needs.
* Between a miss and `inflight.Do` a flight may end, and a second request starts
  for what is in the cache by then (`handler.go:44-59`).
* A name asked for between the look of `pruneUnused` and its `Delete` loses that
  one use, and no other day that still counted, the two cases above apart
  (`PruneSparesTheHistory`).
* A listener that is not up yet refuses `ShutdownContext` (`main.go:197-198`
  ignores the error), and may come up and serve until the process has exited:
  `ReturnStopsTheBackground` is about the other goroutines.
* `SaveBatch` reads the last use of an entry before its days of use: hit in
  between, on a new day, the row has a day after its last use (`Torn`). The next
  round writes it again. If the process ends first, `LoadAll`, which goes by the
  last use, may drop the row although its days would make the name usual
  (`WholeRowsSurviveRestart` is about the others); and when it takes the row up,
  `pruneUnused`, which goes by the last use as well, may delete the entry a day
  too early.
* With `ttl_max: 0` an entry has the TTL 0 in memory, while the 0 of its row is
  taken for a column of an older version and comes back as the TTL of the
  upstream (`Restored`).

One divergence is stated as a property of what the code does, without a run that
refutes the document. `README.md:17` promises min(SOA TTL, SOA MINIMUM) for a
negative answer. When that is 0, which is how a zone asks not to be cached, `Set`
puts the 60 seconds in its place that are meant for a message without a TTL
(`cache.go:174-182`). `KeptForItsTTLOrTheDefault` says so by its name and its
body, the second negative answer of the `cache` run is such a message, and the
promise of the README does not hold for it.

## 5. Proofs

All are checked by `tlapm`. They hold for any number of keys, goroutines, names,
workers, entries and days, any width of the mask and any configuration the
assumptions admit.

**Assumptions.** Each module names its own (`MaskBitsAssumption`,
`DaysAssumption`, `CacheAssumption`, ...). Most of what they say is the type and
the sign of a constant, that a null value is none of the values it stands beside,
and what the model bounds. What they say beyond that:

* `CacheAssumption`: the rows a process loads were stored, and their answers
  given, before it started.
* `ZoneAssumption`: a change of the clocks moves them by no more than a day, and
  not back over a midnight, so that no calendar day comes twice.
* `HandlerAssumption`: the goroutines are the clients and one per flight, and no
  client is a flight.
* `PersistenceAssumption`: TTLs, in messages and in the configuration, are whole
  seconds, as they are in a message and in a column; the program starts later
  after the epoch than the window of days is long; there is at least one slot.

### What is proved, and along which argument

**`UsageDaysProofs`, `MarkUsedProofs`.** `MarkedRemembers`: what the shift and
the mask do to a word is, on the days the word stands for, to add the day (or the
last known one) and to forget those out of reach. With it `LoopImplementsLog`: a
successful swap is a `Mark` of the log, since the word is still the one that was
loaded, a load that finds the day set is a `Mark` that changes nothing, all else
is a stutter. `DaysUsedCorrect`: `DaysUsed` counts the days of the window.

**`CacheProofs`.** The lemmas are about `CallerStep`, the steps of any component
that works through the store, so the modules above cite them as they are.

* `TypeCorrect`: `TypeOK` is inductive. The heart is `HeapOK`, that the heap is
  a function on exactly the live objects: a step keeps the live set
  (`HeapStep`), shrinks it (`CollectStep`), or stores at an address no goroutine
  and no snapshot holds (`StoreType`). So a goroutine inside a call always has
  its entry, whatever replaced or evicted it.
* `SizeBounded`: not inductive alone, because loading ignores `MaxEntries`; the
  invariant says that before serving only keys of rows are present.
* `UsageSurvives`: `CopyOK` says that the hit count a copying `Set` has found is
  no more than that of the entry in the map. It is inductive because while the
  `Set` has the lock the map keeps the entry (`KeepsLocked`) and what others do to
  it, a hit or a mark, only adds (`ObjectChange`). The days of use are of the step
  of the insertion itself. The last use is not part of it: see `CopiedTorn`.
* `RecentSpared`: an action property, step by step from `TypeOK`;
  `EvictedIsAVictim` is the one place that looks into `evictOne`.
* `KeptForItsTTL` (`KeptForItsTTLOrTheDefault`): with `Addressed` (a key's entry
  lies at an address of that key) a step leaves the answer of an entry alone or comes from `LoadEntry` or
  `SetPublish` of the key (`EntryChange`).

**`HandlerProofs`.** `HandlerInv` ties the three pieces of state of a name: the
place of its flight, the cache call of the flight's goroutine, and who waits. A
flight in `set` has its frame in `Set` with its own answer; a flight that is
off has no waiters; a client that waits is in the flight of its name. From it
`HandlerTypeCorrect` and `CachedFirst`.
`ServiceImplemented` is the refinement of `DnsService`: `ServiceInv` adds that
what a client, a flight or the map has is no older than what had been given out
when the query came, because a flight a client joins has not answered yet, and
an entry is replaced only by a flight that asked later. Each of the handler's
steps is then one step of the service or a stutter.

**`RefresherProofs`.** `RefresherInv` says that candidates and workers exist only
between the choice and the end of a cycle, and that the names still to refresh
differ from one another and from those at a worker. `RefreshedOnceAtATime`
follows from it. `BackoffRespected` needs that a name still to refresh is not
backing off *now*, although the cycle compared it with the time it began at:
time only passes, and a failure of this cycle is of another name. None of these
needs a prompt program. The next two do. `PruneSpares` is `PruneSparesTheHistory`
under `PromptSpec`, by the invariant `PruneInv`, which says that

* a call that has read the clock is still in that tick, and has written the last
  use before it marks the day (`InstantOK`); so a live entry has no day of use
  after the later of that of its last use and that of its storing (`UsageOK`):
  `Set` copies the last use first, so a day it copied with an older last use is no
  later than the day it stores the entry on;
* what `pruneUnused` looks at, an entry of the snapshot, was last used when the
  entry of that name in the map was, or when the one was that a `Set` is about to
  put there with the last use it has copied, unless one of them has been used in
  this tick (`SnapOK`): a `Set` in between hands the last use down, a hit moves it
  to now;
* so an entry about to be deleted was last used before the window or in this tick
  (`PruneOK`), and with `UsageOK` and the arithmetic of calendar days
  (`DaysApart`, `DayMonotone`) no day of the window is in its history but those the
  property names.

The theorem has the hypothesis `WholeRows`: no row the process loaded was last
used in the future or has a day of use after both its last use and its storing.
It cannot be dropped. Started from a row with its last use in the middle of a day
and a day of use on the next, TLC finds a prune that takes that day away while it
still counts (section 4). `RefresherKeepsUsage` is `RefreshKeepsUsage` of the
store, which holds whether the program is prompt or not.

`NamesKeptFresh` is `[]KeptFresh` under `PromptSpec`. `KeptFresh` says of a life
that it has not ended; the inductive invariant `FreshInv` has to say how it is
going to be renewed before it does. It gives the end of the life of every name the
promise is about one of four reasons (`InTime`):

* a worker has the name, and its exchange ends by then (`ByWorker`);
* the name is on the list of the cycle, at a place that the workers reach by then
  (`OnList`): counted back from the end in rounds of one exchange, at most as many
  names are ahead of it as the rounds and the workers free at their start can take
  (`Paced`). Whichever worker comes back first, this count holds; it holds at the
  choice because the `Rounds` of a cycle are enough for `MaxDue` names;
* the cycle is at its scan or its prune, has the entry in its snapshot, and a
  whole cycle fits from now (`InSnapshot`): the name is due, or the next tick is
  soon enough;
* the next tick comes a cycle before the end.

For that it has to know that a tick is taken in the instant in which it comes and
none is dropped (`TickerOK`), that every exchange and the whole list end before the
next tick (`ExchangeOK`, `ListOK`), and that an entry which is not in the snapshot
has just been stored (`SnapFresh`). The theorem has two hypotheses. `[]FewDue`: no
cycle finds more than `MaxDue` names due, so that the cap of the cycle, which takes
the first of the list, cuts off none; `MaxDue` may be any number up to the cap.
`RowsOfThePast`: no row the process loaded has a last day of use after the day of
the start. Of such a row, left by a clock that has been set back, `DaysUsed` counts
the window that ends with the last day of use instead of today, so a name with
enough days in today's window may count as unusual and is not refreshed.

**`PersistenceProofs`.** `PersistenceTypeCorrect` over all that may happen, and
`WholeRowsSurvive`: a name used on a day of the window, with no day after its
last use, was last used within the window in time as well (`UsualIsRecent`), so
`LoadAll` takes it if it can read it. The lemma needs the calendar: `n` days that
are not over by their numbers are less than `n` times 24 hours (`DaysApart`), less
the change of the clocks, which is why `SurelyUsual` does not count the first day
of the window when they have gone back since the last use.

`NoChangeIsLost` is `[]NextRoundSavesIt` under `PromptSpec`, by the invariant
`SaveInv`. `NextRoundSavesIt` says nothing while a round is under way of what the
round has seen, so it has to be strengthened:

* an entry to which nothing has happened since the round began (`Quiet`), and
  which is no longer to be looked at, is saved or in the batch (`RoundOK`); one
  to which something has happened has a time of this round, and the next will
  find it;
* the batch has one entry of a key, and that of a quiet key is the one in the map
  (`BatchOK`); once written, its row is that of the entry (`tx[k] = RowOf`), and
  half written, but for its days of use;
* a call that has read the clock is still in that tick (`Punctual`), so whatever
  it does to an entry has a time not before `lastSave` or the start of the round;
  a `GetStale` that has counted its hit is going to store such a time (`Pending`),
  and `NextRoundSavesIt` has that case as a disjunct of its own, since in between
  the hit count differs from the row and no time says so;
* what the row says of an entry is all of it (`RowRestores`), which holds of
  entries with a last use, days of use and a TTL in whole seconds (`HeapWhole`),
  as every entry is that `Set` or `LoadAll` has made.

Then `Commit` closes the round: quiet and in the batch, saved now; quiet and not
in it, saved before; not quiet, found by the next one, which goes by the start of
this one.

**`ServerProofs`.** `ServerInv` says, for each place of `main`, which calls are
deferred and which goroutines have been started. The database is last in the
stack and is closed only after both loops have left (`DatabaseOutlives`); at the
end of the stack the loops and the refresher have been told to stop, and the
database is closed (`ReturnStops`). `ConfigUsable` is arithmetic on the clamps of the
three options `normalize` looks at, in their order.

**`StatisticsProofs`.** `ReportConsistent`: outcomes are read before queries, and
every goroutine counts its query before its outcome. The invariant counts the
goroutines in between: the queries are the outcomes and them
(`QueriesCounted`), and what the reader has of the outcomes is at most what they
are by now (`ReadEarlier`). `WindowRecent`: the auxiliary variable `counted` logs
what is added to the buckets, and when. The invariant `WindowInv` says that what a
bucket has of an outcome is no more than what was added to it in its minute or
later, but while a goroutine that took it over has still to empty it
(`BucketsOK`); that no bucket and nobody who may take one over is ahead of the clock
(`MinutesOK`, which `StatisticsTypeCorrect` states with the types), so that what is
added now counts for any bucket's minute; and that the sum of a reader is no more
than what was added after its cutoff to the buckets it has been through (`ReadOK`).
A goroutine that loses the swap, or has been overtaken by several minutes, adds to
a bucket of another minute than its own; `BucketsOK` holds all the same, because
it goes by the time of the adding. Reading bucket `i` adds two sets of the log, the
hits and the misses of that bucket, which are disjoint from what was below `i`.

### What stays with TLC, and why

* Liveness (`EveryCallReturns`, `EveryQueryReturns`, `StopEndsTheLoop`,
  `ChangesGetSaved`, `ShutdownCompletes`): fairness is out of the prover's reach.

* The four violations of section 4, which are counterexamples.

## 6. Plan

Every component that keeps state is modelled and checked. Every invariant and
every action property of a passing run, and both refinements, are theorems of
section 5; what is left to TLC is liveness.

**Not modelled, and why.** The HTML page, the JSON of the socket and the usage
counts in it are output that nothing reads back; `-stats` copies it. The loop of
`Resolve` over the upstreams keeps no state between calls: its callers see a
message or an error at some later time, which is what the models have. Handler
and refresher are not composed in one model: the only order they could break
between them, a refresh that replaces a newer answer of a flight, is not promised
by the code. The migration of the schema is pure SQL; what it leaves behind, a 0
in a column, is in `EntryOfRow`. `SaveEntry` and `DeleteEntry` have no callers.
