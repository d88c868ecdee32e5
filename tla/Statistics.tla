----------------------------- MODULE Statistics -----------------------------
(***************************************************************************)
(* The counters of cache.go that the dashboard shows: the totals, the      *)
(* sliding window of one bucket per minute, and Stats, which reads them    *)
(* while queries go on.  Each step is one atomic operation.                *)
(*                                                                         *)
(* The late hits, stale answers and errors are totals like the others and  *)
(* are left out, as is what is only computed from the counters (ratios,    *)
(* the rate of queries).                                                   *)
(***************************************************************************)
EXTENDS Integers, Sequences, FiniteSets

CONSTANTS
  Clients,             \* goroutines that serve queries
  NoMinute,            \* no time read yet
  WindowMinutes,       \* 15 in the code
  MaxMinute,           \* bound of the model: the clock stops here
  MaxQueries           \* bound of the model: queries that are served

ASSUME StatisticsAssumption ==
  /\ IsFiniteSet(Clients) /\ MaxQueries \in Nat
  /\ WindowMinutes \in Nat \ {0} /\ MaxMinute \in Nat /\ WindowMinutes <= MaxMinute
  /\ NoMinute \notin Nat

VARIABLES
  minute,              \* time.Now().Unix() / 60
  total,               \* totalQueries, and per outcome hits and misses
  window,              \* the buckets
  call,                \* per client, where its query is
  reader,              \* where Stats is, and what it has read
  counted              \* auxiliary: what has been added to the buckets, and when

statVars == <<minute, total, window, call, reader, counted>>

Outcomes == {"hit", "miss"}
Slots == 0 .. WindowMinutes - 1
Minutes == 0 .. MaxMinute

NoCall == [pc |-> "idle", outcome |-> "hit", minute |-> NoMinute, got |-> NoMinute]

NoReader == [pc |-> "idle", hit |-> 0, miss |-> 0, since |-> NoMinute,
             next |-> 0, sum |-> 0, clean |-> TRUE, queries |-> 0]

(* The clock starts a whole window after the epoch of the counters, whose  *)
(* buckets are those of minute 0.                                          *)
Init ==
  /\ minute = WindowMinutes
  /\ total = [queries |-> 0, hit |-> 0, miss |-> 0]
  /\ window = [i \in Slots |-> [minute |-> 0, hit |-> 0, miss |-> 0]]
  /\ call = [c \in Clients |-> NoCall]
  /\ reader = NoReader
  /\ counted = <<>>

TickMinute ==
  /\ minute < MaxMinute
  /\ minute' = minute + 1
  /\ UNCHANGED <<total, window, call, reader, counted>>

----------------------------------------------------------------------------
(* A query: IncrQueries, then Get counts its outcome and recordWindow      *)
(* writes it into the bucket of the minute.                                *)

At(c, pc) == call[c].pc = pc
Goes(c, pc) == call' = [call EXCEPT ![c].pc = pc]

(* Mutant of IncrQueries: the query is counted by its outcome alone.       *)
IncrQueriesNot(c) ==
  /\ At(c, "idle") /\ total.queries < MaxQueries
  /\ Goes(c, "count")
  /\ UNCHANGED <<minute, total, window, reader, counted>>

IncrQueries(c) ==
  /\ At(c, "idle") /\ total.queries < MaxQueries
  /\ total' = [total EXCEPT !.queries = @ + 1]
  /\ Goes(c, "count")
  /\ UNCHANGED <<minute, window, reader, counted>>

CountOutcome(c) ==
  /\ At(c, "count")
  /\ \E o \in Outcomes :
       /\ total' = [total EXCEPT ![o] = @ + 1]
       /\ call' = [call EXCEPT ![c] = [@ EXCEPT !.pc = "minute", !.outcome = o]]
  /\ UNCHANGED <<minute, window, reader, counted>>

(* Mutant of ReadMinute: the minute is rounded up.                         *)
ReadMinuteRounded(c) ==
  /\ At(c, "minute")
  /\ call' = [call EXCEPT ![c] = [@ EXCEPT !.pc = "load",
                                           !.minute = (minute + 1) % (MaxMinute + 1)]]
  /\ UNCHANGED <<minute, total, window, reader, counted>>

ReadMinute(c) ==
  /\ At(c, "minute")
  /\ call' = [call EXCEPT ![c] = [@ EXCEPT !.pc = "load", !.minute = minute]]
  /\ UNCHANGED <<minute, total, window, reader, counted>>

Slot(m) == m % WindowMinutes

LoadBucket(c) ==
  /\ At(c, "load")
  /\ LET m   == call[c].minute
         got == window[Slot(m)].minute
     IN  call' = [call EXCEPT ![c].got = got,
                              ![c].pc = IF got = m THEN "add" ELSE "swap"]
  /\ UNCHANGED <<minute, total, window, reader, counted>>

(* The compare-and-swap; who loses it goes on to count.                    *)
TakeBucket(c) ==
  /\ At(c, "swap")
  /\ LET i == Slot(call[c].minute)
     IN  IF window[i].minute = call[c].got
           THEN /\ window' = [window EXCEPT ![i].minute = call[c].minute]
                /\ Goes(c, "zero hit")
           ELSE /\ Goes(c, "add")
                /\ UNCHANGED window
  /\ UNCHANGED <<minute, total, reader, counted>>

Zero(c, pc, o, next) ==
  /\ At(c, pc)
  /\ window' = [window EXCEPT ![Slot(call[c].minute)][o] = 0]
  /\ Goes(c, next)
  /\ UNCHANGED <<minute, total, reader, counted>>

ZeroHits(c) == Zero(c, "zero hit", "hit", "zero miss")

(* Mutant of ZeroMisses: they are left as they are.                        *)
ZeroMissesNot(c) ==
  /\ At(c, "zero miss")
  /\ Goes(c, "add")
  /\ UNCHANGED <<minute, total, window, reader, counted>>

ZeroMisses(c) == Zero(c, "zero miss", "miss", "add")

AddToBucket(c) ==
  /\ At(c, "add")
  /\ window' = [window EXCEPT ![Slot(call[c].minute)][call[c].outcome] = @ + 1]
  /\ call' = [call EXCEPT ![c] = NoCall]
  /\ counted' = Append(counted, [at |-> minute, slot |-> Slot(call[c].minute),
                                 outcome |-> call[c].outcome])
  /\ UNCHANGED <<minute, total, reader>>

QueryStep(c) ==
  \/ IncrQueries(c) \/ CountOutcome(c) \/ ReadMinute(c) \/ LoadBucket(c)
  \/ TakeBucket(c) \/ ZeroHits(c) \/ ZeroMisses(c) \/ AddToBucket(c)

----------------------------------------------------------------------------
(* Stats: the totals of hits and misses, the sum over the window, and last *)
(* the total of the queries.                                               *)
ReadTotal(pc, o, next) ==
  /\ reader.pc = pc
  /\ reader' = [reader EXCEPT !.pc = next, ![o] = total[o]]
  /\ UNCHANGED <<minute, total, window, call, counted>>

ReadHits    == ReadTotal("idle", "hit", "misses")
ReadMisses  == ReadTotal("misses", "miss", "cutoff")
ReadQueries == ReadTotal("queries", "queries", "done")

Cutoff == minute - WindowMinutes

BeginWindow ==
  /\ reader.pc = "cutoff"
  /\ reader' = [reader EXCEPT !.pc = "window", !.since = Cutoff]
  /\ UNCHANGED <<minute, total, window, call, counted>>

(* The bucket has been taken over and is not yet empty.                    *)
Emptying(i) ==
  \E c \in Clients : /\ call[c].pc \in {"zero hit", "zero miss"}
                     /\ Slot(call[c].minute) = i

(* windowStats goes through the buckets in order; each is read in one step *)
(* here, since a takeover in between counts as one under way.              *)
ReadBucket ==
  /\ reader.pc = "window" /\ reader.next \in Slots
  /\ LET i == reader.next
         b == window[i]
     IN  reader' = [reader EXCEPT !.next = @ + 1,
                      !.sum = IF b.minute > reader.since THEN @ + b.hit + b.miss ELSE @,
                      !.clean = @ /\ ~Emptying(i)]
  /\ UNCHANGED <<minute, total, window, call, counted>>

EndWindow ==
  /\ reader.pc = "window" /\ reader.next = WindowMinutes
  /\ reader' = [reader EXCEPT !.pc = "queries"]
  /\ UNCHANGED <<minute, total, window, call, counted>>

Report ==
  /\ reader.pc = "done"
  /\ reader' = NoReader
  /\ UNCHANGED <<minute, total, window, call, counted>>

ReaderStep == \/ ReadHits \/ ReadMisses \/ BeginWindow \/ ReadBucket \/ EndWindow
              \/ ReadQueries \/ Report

Next == TickMinute \/ ReaderStep \/ \E c \in Clients : QueryStep(c)

Spec == Init /\ [][Next]_statVars

----------------------------------------------------------------------------
Bucket == [minute : Minutes, hit : Nat, miss : Nat]

Call == [pc : {"idle", "count", "minute", "load", "swap", "zero hit",
               "zero miss", "add"},
         outcome : Outcomes, minute : Minutes \cup {NoMinute},
         got : Minutes \cup {NoMinute}]

Count == [at : Minutes, slot : Slots, outcome : Outcomes]

Reader == [pc : {"idle", "misses", "cutoff", "window", "queries", "done"},
           hit : Nat, miss : Nat, since : Int \cup {NoMinute},
           next : 0 .. WindowMinutes, sum : Nat, clean : BOOLEAN, queries : Nat]

CountersOK ==
  /\ minute \in Minutes
  /\ total \in [{"queries", "hit", "miss"} -> Nat]
  /\ window \in [Slots -> Bucket]
  /\ call \in [Clients -> Call]
  /\ reader \in Reader
  /\ counted \in Seq(Count)
  /\ \A c \in Clients : call[c].pc \notin {"idle", "count", "minute"} =>
                          call[c].minute \in Minutes

MinutesOK ==
  /\ \A i \in Slots : window[i].minute <= minute
  /\ \A c \in Clients : At(c, "load") \/ At(c, "swap") => call[c].minute <= minute

(* Types; and no bucket has a minute that is still to come, however late   *)
(* the goroutine that takes it over: windowStats, which takes whatever is  *)
(* later than the cutoff, would show such a bucket for longer than the     *)
(* window.                                                                 *)
StatisticsTypeOK == CountersOK /\ MinutesOK

(* A report never shows more hits and misses than queries, whatever is     *)
(* counted while it is being made: a query is counted before its outcome,  *)
(* and the queries are read last.                                          *)
OutcomesWithinQueries ==
  reader.pc = "done" => reader.hit + reader.miss <= reader.queries

(* The window of a report has nothing that was counted before the window   *)
(* began, however many buckets change hands meanwhile: a takeover loses    *)
(* counts (the comment of recordWindow) but never brings old ones back,    *)
(* unless the report reads the very bucket that is being emptied.          *)
WindowIsRecent ==
  reader.pc = "done" /\ reader.clean =>
    reader.sum <= Cardinality({j \in DOMAIN counted : counted[j].at > reader.since})
=============================================================================
