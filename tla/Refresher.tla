----------------------------- MODULE Refresher -----------------------------
(***************************************************************************)
(* refresher.go: the goroutine that keeps the answers of the usual domains *)
(* fresh, its ticker, its workers, its backoff and its Stop, on top of the *)
(* cache calls of module Cache.  The other callers of the cache are any:   *)
(* the clients of this module make Get, GetStale and Set calls as they     *)
(* like, the Set of a flight of the handler included, which has a message  *)
(* that may be cached.                                                     *)
(*                                                                         *)
(* A step of this module is a lock section, an upstream exchange or a run  *)
(* of reads of values nobody else writes.  The map of the failures has a   *)
(* lock of its own; the cycle reads it only while no worker is running.    *)
(***************************************************************************)
EXTENDS Cache, Sequences

CONSTANTS
  Clients,            \* the goroutines that call the cache for a query
  Workers,            \* the places of the semaphore, 5 in the code
  Interval,           \* rf.interval, in ticks
  KeepMinDays, KeepWindowDays,
  MaxPerCycle,        \* maxRefreshPerCycle
  BackoffMax, BackoffShift,
  MaxRTT,             \* assumed: Resolve returns within MaxRTT ticks
  MaxDue              \* assumed: no cycle finds more names due than that

ASSUME RefresherAssumption ==
  /\ Threads = Clients \cup Workers /\ Clients \cap Workers = {}
  /\ IsFiniteSet(Workers) /\ Workers # {}
  /\ Interval \in Nat \ {0} /\ MaxRTT \in Nat
  /\ KeepMinDays \in 1 .. KeepWindowDays /\ KeepWindowDays \in 1 .. MaskBits
  /\ MaxPerCycle \in Nat \ {0} /\ MaxDue \in 1 .. MaxPerCycle
  /\ BackoffMax \in Nat \ {0} /\ BackoffShift \in Nat

VARIABLES
  ticker,             \* when it ticks next, and whether ticker.C holds a tick
  cycle,              \* where the loop is, and the locals of refreshCycle
  failures,           \* rf.failures
  worker,             \* per place of the semaphore, the refreshEntry running
  stopping            \* rf.stopCh is closed

refresherVars == <<ticker, cycle, failures, worker, stopping>>
rvars == <<vars, refresherVars>>

NoFailure == [count |-> 0, nextTry |-> 0]

NoSnapshot == [k \in Keys |-> NoObj]

Waiting == [pc |-> "wait", now |-> 0, snap |-> NoSnapshot, left |-> {},
            key |-> NoKey, todo |-> <<>>]

Free == [pc |-> "free", key |-> NoKey, since |-> 0, resp |-> NoResp]

RefresherInit ==
  /\ Init
  /\ ticker = [next |-> StartTime, full |-> FALSE]
  /\ cycle = Waiting
  /\ failures = [k \in Keys |-> NoFailure]
  /\ worker = [w \in Workers |-> Free]
  /\ stopping = FALSE

----------------------------------------------------------------------------
(* What the choice of the candidates goes by.                              *)

Usual(e, t) == DaysUsed(e.used, DayOf(t), KeepWindowDays) >= KeepMinDays

Life(e) == Larger(e.ttl, MaxAge)

(* RefreshThreshold, in hundredths.                                        *)
RefreshThreshold(e) ==
  CASE e.hits >= 100             -> 30
    [] e.hits \in 20 .. 99       -> 20
    [] e.hits \in 5 .. 19        -> 15
    [] OTHER                     -> 10

Remaining(e, t) == e.storedAt + Life(e) - t

Overdue(e, t) == Remaining(e, t) <= 0

(* Mutant of Threshold: the window is not widened to the interval.         *)
ThresholdByHits(e) == (Life(e) * RefreshThreshold(e)) \div 100

(* How long before the end of its life an entry is refreshed: a share of   *)
(* the life, at least an interval and a half, and at most all of it.       *)
Threshold(e) ==
  Smaller(Larger((Life(e) * RefreshThreshold(e)) \div 100, (Interval * 3) \div 2),
          Life(e))

BackingOff(k, t) == t < failures[k].nextTry

Snapped == {k \in Keys : cycle.snap[k] # NoObj}
SnapOf(k) == heap[cycle.snap[k]]

Candidates ==
  {k \in Snapped : /\ Usual(SnapOf(k), cycle.now)
                   /\ ~BackingOff(k, cycle.now)
                   /\ Remaining(SnapOf(k), cycle.now) <= Threshold(SnapOf(k))}

(* The overdue ones first, then by hit count.                              *)
Before(j, k) ==
  LET first(i) == Overdue(SnapOf(i), cycle.now)
  IN  \/ first(j) /\ ~first(k)
      \/ (first(j) <=> first(k)) /\ SnapOf(j).hits > SnapOf(k).hits

Ordered(S) ==
  {q \in [1 .. Cardinality(S) -> S] :
     \A i, j \in DOMAIN q : i < j => q[i] # q[j] /\ ~Before(q[j], q[i])}

----------------------------------------------------------------------------
(* The ticker has room for one tick; a tick that finds it full is dropped. *)
RefresherTick ==
  /\ Tick
  /\ ticker' = IF serving /\ clock' = ticker.next
                 THEN [next |-> ticker.next + Interval, full |-> TRUE]
                 ELSE ticker
  /\ UNCHANGED <<cycle, failures, worker, stopping>>

(* main starts the refresher when the database is loaded.                  *)
Start ==
  /\ StartServing
  /\ ticker' = [next |-> clock + Interval, full |-> FALSE]
  /\ UNCHANGED <<cycle, failures, worker, stopping>>

(* The loop takes a tick and a snapshot; an empty one ends the cycle.      *)
BeginCycle ==
  /\ serving /\ LockFree /\ cycle.pc = "wait" /\ ticker.full
  /\ ticker' = [ticker EXCEPT !.full = FALSE]
  /\ IF Present = {}
       THEN UNCHANGED <<vars, cycle>>
       ELSE /\ cycle' = [cycle EXCEPT !.pc = "now", !.snap = entries]
            /\ pins' = {entries[k] : k \in Present}
            /\ UNCHANGED <<clock, serving, entries, heap, frame>>
  /\ UNCHANGED <<failures, worker, stopping>>

(* time.Now() and pruneFailures.                                           *)
PruneFailures ==
  /\ cycle.pc = "now"
  /\ cycle' = [cycle EXCEPT !.pc = "prune", !.now = clock, !.left = Snapped]
  /\ failures' = [k \in Keys |-> IF k \in Snapped THEN failures[k] ELSE NoFailure]
  /\ UNCHANGED <<vars, ticker, worker, stopping>>

(* Mutant of Unused: the window is a day short.                            *)
UnusedDayShort(e, t) ==
  IsExpiredAt(e, t) /\ t - e.lastHit > (KeepWindowDays - 1) * DayLen

(* pruneUnused looks at one entry of the snapshot after the other, and     *)
(* deletes the key of one that is expired and has not been asked for.      *)
Unused(e, t) == IsExpiredAt(e, t) /\ t - e.lastHit > KeepWindowDays * DayLen

PruneLook(k) ==
  /\ cycle.pc = "prune" /\ k \in cycle.left
  /\ cycle' = [cycle EXCEPT !.left = @ \ {k}, !.key = k,
                 !.pc = IF Unused(SnapOf(k), cycle.now) THEN "delete" ELSE "prune"]
  /\ UNCHANGED <<vars, ticker, failures, worker, stopping>>

PruneDelete ==
  /\ cycle.pc = "delete"
  /\ Delete(cycle.key)
  /\ cycle' = [cycle EXCEPT !.pc = "prune"]
  /\ UNCHANGED <<ticker, failures, worker, stopping>>

(* selectCandidates; the snapshot is not needed any more.                  *)
Select ==
  /\ cycle.pc = "prune" /\ cycle.left = {}
  /\ \E q \in Ordered(Candidates) :
       cycle' = [Waiting EXCEPT !.pc = "check",
                   !.todo = SubSeq(q, 1, Smaller(Len(q), MaxPerCycle))]
  /\ pins' = {}
  /\ UNCHANGED <<clock, serving, entries, frame, ticker, failures, worker, stopping>>
  /\ Collect(heap)

(* The loop over the candidates: it ends when stopCh is closed.            *)
Check ==
  /\ cycle.pc = "check"
  /\ cycle' = [cycle EXCEPT !.pc = IF cycle.todo = <<>> \/ stopping
                                     THEN "drain" ELSE "acquire"]
  /\ UNCHANGED <<vars, ticker, failures, worker, stopping>>

(* A place of the semaphore, and a goroutine for the next candidate.       *)
Dispatch(w) ==
  /\ cycle.pc = "acquire" /\ worker[w].pc = "free"
  /\ worker' = [worker EXCEPT ![w] = [Free EXCEPT !.pc = "query", !.since = clock,
                                                  !.key = Head(cycle.todo)]]
  /\ cycle' = [cycle EXCEPT !.pc = "check", !.todo = Tail(@)]
  /\ UNCHANGED <<vars, ticker, failures, stopping>>

(* Mutant of EndCycle: the cycle does not wait for its workers.            *)
EndCycleAtOnce ==
  /\ cycle.pc = "drain"
  /\ cycle' = Waiting
  /\ UNCHANGED <<vars, ticker, failures, worker, stopping>>

(* wg.Wait().                                                              *)
EndCycle ==
  /\ cycle.pc = "drain" /\ \A w \in Workers : worker[w].pc = "free"
  /\ cycle' = Waiting
  /\ UNCHANGED <<vars, ticker, failures, worker, stopping>>

(* The select of the loop sees stopCh; with a tick to take as well it may  *)
(* choose either.                                                          *)
LeaveLoop ==
  /\ cycle.pc = "wait" /\ stopping
  /\ cycle' = [cycle EXCEPT !.pc = "left"]
  /\ UNCHANGED <<vars, ticker, failures, worker, stopping>>

Stop ==
  /\ serving /\ ~stopping
  /\ stopping' = TRUE
  /\ UNCHANGED <<vars, ticker, cycle, failures, worker>>

----------------------------------------------------------------------------
(* refreshEntry.                                                           *)

Wait(count) ==
  LET wait == Interval * 2 ^ Smaller(count, BackoffShift)
  IN  IF wait > BackoffMax \/ wait <= 0 THEN BackoffMax ELSE wait

NoteFailure(w) ==
  LET k == worker[w].key
  IN  failures' = [failures EXCEPT ![k] =
                     [count |-> @.count + 1, nextTry |-> clock + Wait(@.count + 1)]]

(* Resolve returns a message, which any upstream may have truncated.       *)
Answered(w) ==
  /\ worker[w].pc = "query"
  /\ \E m \in Answers :
       worker' = [worker EXCEPT ![w].pc = "answered",
                                ![w].resp = [msg |-> m, at |-> clock]]
  /\ UNCHANGED <<vars, ticker, cycle, failures, stopping>>

(* Mutant of Failed: the place of the semaphore is not given back.         *)
FailedKeepsItsPlace(w) ==
  /\ \/ worker[w].pc = "query"
     \/ worker[w].pc = "answered" /\ worker[w].resp.msg.rcode # "NOERROR"
  /\ NoteFailure(w)
  /\ worker' = [worker EXCEPT ![w] = [Free EXCEPT !.pc = "set"]]
  /\ UNCHANGED <<vars, ticker, cycle, stopping>>

(* Resolve fails, or returns a message with an rcode other than NOERROR:   *)
(* the old entry stays.                                                    *)
Failed(w) ==
  /\ \/ worker[w].pc = "query"
     \/ worker[w].pc = "answered" /\ worker[w].resp.msg.rcode # "NOERROR"
  /\ NoteFailure(w)
  /\ worker' = [worker EXCEPT ![w] = Free]
  /\ UNCHANGED <<vars, ticker, cycle, stopping>>

(* noteSuccess, and cache.Set up to the lock.                              *)
Succeeded(w) ==
  /\ worker[w].pc = "answered" /\ worker[w].resp.msg.rcode = "NOERROR"
  /\ SetNow(w, worker[w].key, worker[w].resp)
  /\ failures' = [failures EXCEPT ![worker[w].key] = NoFailure]
  /\ worker' = [worker EXCEPT ![w].pc = "set"]
  /\ UNCHANGED <<ticker, cycle, stopping>>

Storing(w) ==
  /\ worker[w].pc = "set"
  /\ SetLock(w) \/ SetCopy(w)
  /\ UNCHANGED refresherVars

Refreshed(w) ==
  /\ worker[w].pc = "set"
  /\ SetPublish(w)
  /\ worker' = [worker EXCEPT ![w] = Free]
  /\ UNCHANGED <<ticker, cycle, failures, stopping>>

WorkerStep(w) ==
  Answered(w) \/ Failed(w) \/ Succeeded(w) \/ Storing(w) \/ Refreshed(w)

LoopStep ==
  \/ BeginCycle \/ PruneFailures \/ PruneDelete \/ Select \/ Check
  \/ \E k \in Keys : PruneLook(k)
  \/ \E w \in Workers : Dispatch(w)
  \/ EndCycle \/ LeaveLoop

ClientBegin(c) ==
  \E k \in Keys :
     \/ GetLookup(c, k)
     \/ StaleLookup(c, k)
     \/ \E m \in Answers : IsCacheable(m) /\ SetNow(c, k, [msg |-> m, at |-> clock])

ClientStep(c) ==
  (ClientBegin(c) \/ CallStep(c) \/ Release(c)) /\ UNCHANGED refresherVars

RefresherNext ==
  \/ RefresherTick
  \/ \E e \in Rows : LoadEntry(e) /\ UNCHANGED refresherVars
  \/ Start
  \/ \E c \in Clients : ClientStep(c)
  \/ LoopStep
  \/ \E w \in Workers : WorkerStep(w)
  \/ Stop

(* The scheduler runs the loop and its workers, Resolve returns, and c.mu  *)
(* lets in everyone who waits for it (a sync.RWMutex does).                *)
RefresherSpec ==
  /\ RefresherInit /\ [][RefresherNext]_rvars
  /\ SF_rvars(LoopStep) /\ \A w \in Workers : SF_rvars(WorkerStep(w))
  /\ \A c \in Clients : WF_rvars(ClientStep(c) /\ Copying(c))

(* The same, when everything but an exchange with an upstream takes no     *)
(* time worth a tick, and an exchange at most MaxRTT.                      *)
Prompt ==
  /\ serving
  /\ cycle.pc \in {"wait", "acquire", "drain"}
  /\ cycle.pc = "wait" => ~ticker.full
  /\ cycle.pc = "acquire" => \A w \in Workers : worker[w].pc # "free"
  /\ cycle.pc = "drain" => \E w \in Workers : worker[w].pc # "free"
  /\ \A w \in Workers : \/ worker[w].pc = "free"
                        \/ worker[w].pc = "query" /\ clock < worker[w].since + MaxRTT
  /\ \A t \in Threads : frame[t].pc \notin {"touch", "mark", "retouch"} \cup InSet

PromptSpec == RefresherInit /\ [][RefresherNext /\ (clock' # clock => Prompt)]_rvars

(* When it comes to the choice, no more than MaxDue names are due: the cap *)
(* of the cycle cuts off none of them.                                     *)
FewDue == (cycle.pc = "prune" /\ cycle.left = {}) => Cardinality(Candidates) <= MaxDue

(* How long a cycle of MaxDue exchanges takes at most: its places take     *)
(* them up in so many rounds.                                              *)
Rounds == (MaxDue + Cardinality(Workers) - 1) \div Cardinality(Workers)

CycleTime == Rounds * MaxRTT

----------------------------------------------------------------------------
Cycle == [pc : {"wait", "now", "prune", "delete", "check", "acquire",
                "drain", "left"},
          now : Nat, snap : [Keys -> Objs \cup {NoObj}], left : SUBSET Keys,
          key : Keys \cup {NoKey}, todo : Seq(Keys)]

Worker == [pc : {"free", "query", "answered", "set"},
           key : Keys \cup {NoKey}, since : Nat, resp : Response \cup {NoResp}]

(* Types; a snapshot holds what the cycle has taken out of the map, and a  *)
(* worker is inside the cache only while it is in Set.                     *)
RefresherTypeOK ==
  /\ TypeOK
  /\ ticker \in [next : Nat, full : BOOLEAN]
  /\ cycle \in Cycle
  /\ failures \in [Keys -> [count : Nat, nextTry : Nat]]
  /\ worker \in [Workers -> Worker]
  /\ stopping \in BOOLEAN
  /\ pins = {cycle.snap[k] : k \in Snapped}
  /\ \A w \in Workers :
       IF worker[w].pc = "set" THEN frame[w].pc \in InSet ELSE At(w, "idle")

(* A name is refreshed by one worker at a time (a cycle waits for the      *)
(* workers it started): answers of the refresher are stored in the order   *)
(* in which they were asked for.                                           *)
OneRefreshPerName ==
  \A v, w \in Workers :
    (v # w /\ worker[v].pc # "free" /\ worker[w].pc # "free") =>
       worker[v].key # worker[w].key

(* After a failure the refresher leaves a name alone for as long as the    *)
(* backoff says, counted from the end of the exchange that failed, however *)
(* long the cycle that did so goes on.                                     *)
BacksOff ==
  [][\A w \in Workers :
       (worker[w].pc = "free" /\ worker'[w].pc = "query") =>
          clock >= failures[worker'[w].key].nextTry]_rvars

(* The name of e was usual on each day since it was stored, the uses of    *)
(* that day itself not counted.                                            *)
KnownUsual(e) ==
  \A d \in DayOf(e.storedAt) .. DayOf(clock) :
    Cardinality({x \in DaysOf(e.used) : d - KeepWindowDays < x /\ x < d}) >= KeepMinDays

(* A refresh of k has failed, and no other has been stored since.          *)
Behind(k) == \/ failures[k] # NoFailure
             \/ \E w \in Workers : worker[w].pc = "set" /\ worker[w].key = k

(* A tick and a cycle fit in the life of e, and a cycle in the half of an  *)
(* interval that the window is longer than an interval.                    *)
Fits(e) == Life(e) >= Interval + CycleTime /\ Interval >= 2 * CycleTime

(* The promise to the usual domains (selectCandidates; README.md, cache    *)
(* lifecycle): while the program is prompt, the entry of a name that has   *)
(* been usual since it was stored is never older than its life, if that    *)
(* leaves room for a tick and an exchange and no refresh has failed since. *)
KeptFresh ==
  \A k \in Present :
    LET e == EntryOf(k)
    IN  (/\ ~stopping /\ ~Behind(k)
         /\ e.storedAt >= StartTime
         /\ KnownUsual(e)
         /\ Fits(e)) => clock - e.storedAt <= Life(e)

(* Stop ends the loop, wherever it is in its cycle: it starts at most the  *)
(* refresh it was waiting to start, and waits for those that are running.  *)
StopEndsTheLoop == stopping ~> cycle.pc = "left"

(* A truncated answer is incomplete and is never cached (isCacheable).     *)
NoTruncatedAnswerCached == \A k \in Present : ~EntryOf(k).resp.msg.tc

(* What pruneUnused takes away carries no day of use that still counts     *)
(* (its comment: the expired entries have the history that decides who is  *)
(* usual), whether it was loaded, refreshed or served stale: LastHitAt,    *)
(* which it goes by, and UsedDays are written and copied by different      *)
(* steps.  In a prompt program it may take away a use of the instant of    *)
(* the cycle; a day that Set copied after a LastHitAt of before that day   *)
(* (a Get marked it in between), which is then no later than the day the   *)
(* entry was stored; and the first day of the window, when the clocks have *)
(* gone back since: seven days may be more than seven times 24 hours.      *)
InWindow(d, t) == DayOf(t) - KeepWindowDays < d /\ d <= DayOf(t)

CopiedTorn(e, d) == DayOf(e.lastHit) < d /\ d <= DayOf(e.storedAt)

FirstOfALongWindow(e, d, t) ==
  d = DayOf(t) - KeepWindowDays + 1 /\ ClocksBack(e.lastHit, t)

PruneSparesTheHistory ==
  [][\A k \in Present :
       (cycle.pc = "delete" /\ cycle'.pc = "prune" /\ cycle.key = k) =>
          LET e == EntryOf(k)
          IN  \/ e.lastHit = clock
              \/ \A d \in DaysOf(e.used) :
                   InWindow(d, clock) => CopiedTorn(e, d) \/ FirstOfALongWindow(e, d, clock)
    ]_rvars
=============================================================================
