-------------------------- MODULE StatisticsProofs --------------------------
(***************************************************************************)
(* Theorems about module Statistics, for every value of its constants.     *)
(***************************************************************************)
EXTENDS Statistics, FiniteSetTheorems, TLAPS

(* The queries whose outcome is still to be counted.                       *)
Counting == {c \in Clients : At(c, "count")}

(* Every query has been counted; all but those of Counting have an outcome *)
(* that has been counted as well.                                          *)
QueriesCounted ==
  total.hit + total.miss + Cardinality(Counting) = total.queries

(* The totals only grow, so what Stats has read is no more than they are.  *)
ReadEarlier ==
  /\ reader.pc # "idle" => reader.hit <= total.hit
  /\ reader.pc \notin {"idle", "misses"} => reader.miss <= total.miss

StatisticsInv ==
  CountersOK /\ QueriesCounted /\ ReadEarlier /\ OutcomesWithinQueries

LEMMA CountingFinite ==
  ASSUME NEW S \in SUBSET Clients
  PROVE  IsFiniteSet(S) /\ Cardinality(S) \in Nat
BY FS_Subset, FS_CardinalityType, StatisticsAssumption

LEMMA SlotType ==
  ASSUME NEW m \in Nat
  PROVE  Slot(m) \in Slots /\ Slot(m) = m % WindowMinutes
BY StatisticsAssumption DEF Slot, Slots

LEMMA InitStatistics == Init => StatisticsInv
<1> SUFFICES ASSUME Init PROVE StatisticsInv
  OBVIOUS
<1>1. /\ minute = WindowMinutes /\ total = [queries |-> 0, hit |-> 0, miss |-> 0]
      /\ window = [i \in Slots |-> [minute |-> 0, hit |-> 0, miss |-> 0]]
      /\ call = [c \in Clients |-> NoCall] /\ reader = NoReader
      /\ counted = <<>>
  BY DEF Init
<1>2. CountersOK
  BY <1>1, StatisticsAssumption
     DEF CountersOK, NoCall, NoReader, Call, Bucket, Reader, Minutes, Outcomes
<1>3. Counting = {}
  BY <1>1 DEF Counting, At, NoCall
<1>4. QueriesCounted
  BY <1>1, <1>3, FS_EmptySet DEF QueriesCounted
<1>5. ReadEarlier /\ OutcomesWithinQueries
  BY <1>1 DEF ReadEarlier, OutcomesWithinQueries, NoReader
<1> QED
  BY <1>2, <1>4, <1>5 DEF StatisticsInv

(* What a client does to the buckets and to its own place.                 *)
LEMMA BucketStep ==
  ASSUME CountersOK, NEW i \in Slots, NEW b \in Bucket,
         window' = [window EXCEPT ![i] = b]
  PROVE  window' \in [Slots -> Bucket]
BY DEF CountersOK

LEMMA CallPlace ==
  ASSUME CountersOK, NEW c \in Clients, NEW g \in Call,
         call' = [call EXCEPT ![c] = g],
         g.pc \notin {"idle", "count", "minute"} => g.minute \in Minutes
  PROVE  /\ call' \in [Clients -> Call]
         /\ \A d \in Clients : call'[d].pc \notin {"idle", "count", "minute"} =>
                                 call'[d].minute \in Minutes
BY DEF CountersOK

LEMMA QueryType ==
  ASSUME CountersOK, NEW c \in Clients, QueryStep(c)
  PROVE  CountersOK'
<1> USE DEF CountersOK
<1>1. /\ call[c] \in Call /\ minute \in Minutes /\ call \in [Clients -> Call]
      /\ total.queries \in Nat /\ total.hit \in Nat /\ total.miss \in Nat
      /\ \A m \in Minutes : m \in Nat
  BY DEF Minutes
<1> DEFINE CallOK == /\ call' \in [Clients -> Call]
                     /\ \A d \in Clients : call'[d].pc \notin {"idle", "count", "minute"} =>
                                             call'[d].minute \in Minutes
           WindowOK == window' \in [Slots -> Bucket]
<1>2. ASSUME NEW pc \in {"count", "zero hit", "zero miss", "add"}, Goes(c, pc),
             pc \notin {"count"} => call[c].minute \in Minutes
      PROVE  CallOK
  <2> DEFINE g == [call[c] EXCEPT !.pc = pc]
  <2>1. g \in Call /\ g.pc = pc /\ g.minute = call[c].minute /\ call' = [call EXCEPT ![c] = g]
    BY <1>1, <1>2 DEF Goes, Call
  <2> HIDE DEF g
  <2> QED
    BY <1>2, <2>1, CallPlace
<1>3. CASE IncrQueries(c)
  <2>1. total' \in [{"queries", "hit", "miss"} -> Nat]
    BY <1>1, <1>3 DEF IncrQueries
  <2> QED
    BY <1>2, <1>3, <2>1 DEF IncrQueries
<1>4. CASE CountOutcome(c)
  <2>1. PICK o \in Outcomes :
          /\ total' = [total EXCEPT ![o] = @ + 1]
          /\ call' = [call EXCEPT ![c] = [@ EXCEPT !.pc = "minute", !.outcome = o]]
    BY <1>4 DEF CountOutcome
  <2> DEFINE g == [call[c] EXCEPT !.pc = "minute", !.outcome = o]
  <2>2. g \in Call /\ g.pc = "minute" /\ call' = [call EXCEPT ![c] = g]
    BY <1>1, <2>1 DEF Call
  <2>3. total' \in [{"queries", "hit", "miss"} -> Nat]
    BY <1>1, <2>1 DEF Outcomes
  <2> HIDE DEF g
  <2>4. CallOK
    BY <2>2, CallPlace
  <2> QED
    BY <1>4, <2>3, <2>4 DEF CountOutcome
<1>5. CASE ReadMinute(c)
  <2> DEFINE g == [call[c] EXCEPT !.pc = "load", !.minute = minute]
  <2>1. g \in Call /\ g.minute \in Minutes /\ call' = [call EXCEPT ![c] = g]
    BY <1>1, <1>5 DEF Call, ReadMinute
  <2> HIDE DEF g
  <2>2. CallOK
    BY <2>1, CallPlace
  <2> QED
    BY <1>5, <2>2 DEF ReadMinute
<1>6. call[c].pc \in {"load", "swap", "zero hit", "zero miss", "add"} =>
        /\ call[c].minute \in Minutes /\ Slot(call[c].minute) \in Slots
        /\ Slot(call[c].minute) = call[c].minute % WindowMinutes
        /\ window[Slot(call[c].minute)] \in Bucket
  BY <1>1, SlotType
<1>7. CASE LoadBucket(c)
  <2> DEFINE got == window[Slot(call[c].minute)].minute
             pc == IF got = call[c].minute THEN "add" ELSE "swap"
             g == [call[c] EXCEPT !.got = got, !.pc = pc]
  <2>1. got \in Minutes /\ pc \in {"add", "swap"} /\ call[c].minute \in Minutes
    BY <1>6, <1>7 DEF LoadBucket, At, Bucket
  <2>2. call' = [call EXCEPT ![c] = g]
    BY <1>1, <1>7 DEF LoadBucket
  <2> HIDE DEF got, pc
  <2>3. g \in Call /\ g.minute \in Minutes
    BY <1>1, <2>1 DEF Call
  <2> HIDE DEF g
  <2>4. CallOK
    BY <2>2, <2>3, CallPlace
  <2> QED
    BY <1>7, <2>4 DEF LoadBucket
<1> DEFINE i == Slot(call[c].minute)
<1>8. CASE TakeBucket(c)
  <2>1. /\ call[c].pc = "swap" /\ call[c].minute \in Minutes
        /\ UNCHANGED <<minute, total, reader, counted>>
    BY <1>6, <1>8 DEF TakeBucket, At
  <2>2. CASE /\ window' = [window EXCEPT ![i].minute = call[c].minute]
             /\ Goes(c, "zero hit")
    <3> DEFINE b == [window[i] EXCEPT !.minute = call[c].minute]
    <3>1. b \in Bucket /\ b.minute % WindowMinutes = i /\ window' = [window EXCEPT ![i] = b]
      BY <1>6, <2>1, <2>2 DEF Bucket
    <3> HIDE DEF b
    <3>2. WindowOK
      BY <1>6, <2>1, <3>1, BucketStep
    <3>3. CallOK
      BY <1>2, <2>1, <2>2
    <3> QED
      BY <2>1, <3>2, <3>3
  <2>3. CASE Goes(c, "add") /\ UNCHANGED window
    <3>1. CallOK
      BY <1>2, <2>1, <2>3
    <3> QED
      BY <2>1, <2>3, <3>1
  <2> QED
    BY <1>8, <2>2, <2>3 DEF TakeBucket
<1>9. ASSUME NEW at \in {"zero hit", "zero miss"}, NEW o \in Outcomes,
             NEW next \in {"zero miss", "add"}, Zero(c, at, o, next)
      PROVE  CountersOK'
  <2>1. /\ call[c].pc = at /\ Goes(c, next) /\ UNCHANGED <<minute, total, reader, counted>>
        /\ window' = [window EXCEPT ![i][o] = 0]
    BY <1>9 DEF Zero, At
  <2> DEFINE b == [window[i] EXCEPT ![o] = 0]
  <2>2. b \in Bucket /\ b.minute = window[i].minute /\ window' = [window EXCEPT ![i] = b]
    BY <1>6, <2>1 DEF Bucket, Outcomes
  <2> HIDE DEF b
  <2>3. WindowOK
    BY <1>6, <2>1, <2>2, BucketStep
  <2>4. CallOK
    BY <1>2, <1>6, <2>1
  <2> QED
    BY <2>1, <2>3, <2>4
<1>10. CASE ZeroHits(c) \/ ZeroMisses(c)
  BY <1>9, <1>10 DEF ZeroHits, ZeroMisses, Outcomes
<1>11. CASE AddToBucket(c)
  <2> DEFINE o == call[c].outcome
             b == [window[i] EXCEPT ![o] = @ + 1]
  <2>1. o \in Outcomes
    BY <1>1 DEF Call
  <2>2. /\ window' = [window EXCEPT ![i][o] = @ + 1] /\ call[c].pc = "add"
        /\ call' = [call EXCEPT ![c] = NoCall]
        /\ UNCHANGED <<minute, total, reader>>
    BY <1>11 DEF AddToBucket, At
  <2>3. b \in Bucket /\ b.minute = window[i].minute /\ window' = [window EXCEPT ![i] = b]
    <3>1. window \in [Slots -> Bucket]
      OBVIOUS
    <3> HIDE DEF CountersOK
    <3> QED
      BY <1>6, <2>1, <2>2, <3>1 DEF Bucket, Outcomes
  <2> HIDE DEF b
  <2>4. WindowOK
    BY <1>6, <2>2, <2>3, BucketStep
  <2>5. NoCall \in Call /\ NoCall.pc = "idle"
    BY DEF NoCall, Call, Outcomes
  <2>6. CallOK
    BY <2>2, <2>5, CallPlace
  <2>7. counted' \in Seq(Count)
    <3>1. counted' = Append(counted, [at |-> minute, slot |-> i, outcome |-> o])
      BY <1>11 DEF AddToBucket
    <3>2. [at |-> minute, slot |-> i, outcome |-> o] \in Count
      BY <1>1, <1>6, <2>1, <2>2 DEF Count
    <3> QED
      BY <3>1, <3>2
  <2> QED
    BY <2>2, <2>4, <2>6, <2>7
<1> QED
  BY <1>3, <1>4, <1>5, <1>7, <1>8, <1>10, <1>11 DEF QueryStep

LEMMA ReaderType ==
  ASSUME CountersOK, ReaderStep
  PROVE  CountersOK'
<1> USE DEF CountersOK
<1>1. /\ reader.hit \in Nat /\ reader.miss \in Nat /\ reader.queries \in Nat
      /\ reader.sum \in Nat /\ reader.next \in 0 .. WindowMinutes /\ reader.clean \in BOOLEAN
      /\ total.queries \in Nat /\ total.hit \in Nat /\ total.miss \in Nat
  BY DEF Reader
<1>2. reader' \in Reader /\ UNCHANGED <<minute, total, window, call, counted>>
  <2>1. CASE ReadHits \/ ReadMisses \/ ReadQueries
    <3>1. reader \in Reader
      OBVIOUS
    <3> HIDE DEF CountersOK
    <3>2. CASE ReadHits
      BY <1>1, <3>1, <3>2 DEF ReadHits, ReadTotal, Reader
    <3>3. CASE ReadMisses
      BY <1>1, <3>1, <3>3 DEF ReadMisses, ReadTotal, Reader
    <3>4. CASE ReadQueries
      BY <1>1, <3>1, <3>4 DEF ReadQueries, ReadTotal, Reader
    <3> QED
      BY <2>1, <3>2, <3>3, <3>4
  <2>2. CASE BeginWindow
    <3>1. Cutoff \in Int
      BY StatisticsAssumption DEF Cutoff, Minutes
    <3> QED
      BY <1>1, <2>2, <3>1 DEF BeginWindow, Reader
  <2>3. CASE ReadBucket
    <3> DEFINE i == reader.next
               b == window[i]
               next == reader.next + 1
               sum == IF b.minute > reader.since THEN reader.sum + b.hit + b.miss ELSE reader.sum
               clean == reader.clean /\ ~Emptying(i)
    <3>1. /\ reader' = [reader EXCEPT !.next = next, !.sum = sum, !.clean = clean]
          /\ UNCHANGED <<minute, total, window, call, counted>>
          /\ i \in Slots
      BY <2>3 DEF ReadBucket
    <3>3. b \in Bucket
      BY <3>1
    <3>4. sum \in Nat
      BY <1>1, <3>3 DEF Bucket
    <3>5. next \in 0 .. WindowMinutes /\ clean \in BOOLEAN
      BY <1>1, <3>1, StatisticsAssumption DEF Slots
    <3> HIDE DEF next, sum, clean
    <3> QED
      BY <3>1, <3>4, <3>5 DEF Reader
  <2>4. CASE EndWindow
    BY <1>1, <2>4 DEF EndWindow, Reader
  <2>5. CASE Report
    BY <2>5, StatisticsAssumption DEF Report, NoReader, Reader
  <2> QED
    BY <2>1, <2>2, <2>3, <2>4, <2>5 DEF ReaderStep
<1> QED
  BY <1>2

(* Who has an outcome to count changes in two steps only; the totals grow. *)
LEMMA QueryCounts ==
  ASSUME CountersOK, QueriesCounted, NEW c \in Clients, QueryStep(c)
  PROVE  /\ QueriesCounted'
         /\ total.hit <= total'.hit /\ total.miss <= total'.miss
         /\ UNCHANGED reader
<1>1. /\ total \in [{"queries", "hit", "miss"} -> Nat] /\ call \in [Clients -> Call]
      /\ total.queries \in Nat /\ total.hit \in Nat /\ total.miss \in Nat
  BY DEF CountersOK
<1>2. IsFiniteSet(Counting) /\ Cardinality(Counting) \in Nat
  BY CountingFinite DEF Counting
<1>3. \A pc \in {"minute", "load", "swap", "zero hit", "zero miss", "add"} :
        Goes(c, pc) /\ call[c].pc # "count" => Counting' = Counting
  BY <1>1 DEF Goes, Counting, At, Call
<1>4. CASE IncrQueries(c)
  <2>1. c \notin Counting /\ Counting' = Counting \cup {c}
    <3>1. call[c].pc = "idle" /\ call' = [call EXCEPT ![c] = [call[c] EXCEPT !.pc = "count"]]
      BY <1>1, <1>4 DEF IncrQueries, Goes, At
    <3>2. call[c] \in Call /\ call'[c].pc = "count"
      BY <1>1, <3>1 DEF Call
    <3>3. \A d \in Clients \ {c} : call'[d] = call[d]
      BY <1>1, <3>1
    <3> QED
      BY <3>1, <3>2, <3>3 DEF Counting, At
  <2>2. Cardinality(Counting') = Cardinality(Counting) + 1
    BY <1>2, <2>1, FS_AddElement
  <2>3. /\ total'.queries = total.queries + 1
        /\ total'.hit = total.hit /\ total'.miss = total.miss /\ UNCHANGED reader
    BY <1>1, <1>4 DEF IncrQueries
  <2> QED
    BY <1>1, <1>2, <2>2, <2>3 DEF QueriesCounted
<1>5. CASE CountOutcome(c)
  <2>1. PICK o \in Outcomes :
          /\ total' = [total EXCEPT ![o] = @ + 1]
          /\ call' = [call EXCEPT ![c] = [@ EXCEPT !.pc = "minute", !.outcome = o]]
    BY <1>5 DEF CountOutcome
  <2>2. c \in Counting /\ Counting' = Counting \ {c}
    <3> DEFINE g == [call[c] EXCEPT !.pc = "minute", !.outcome = o]
    <3>1. call[c].pc = "count" /\ call' = [call EXCEPT ![c] = g]
      BY <1>5, <2>1 DEF CountOutcome, At
    <3>2. call[c] \in Call /\ g.pc = "minute"
      BY <1>1 DEF Call
    <3> HIDE DEF g
    <3>3. call'[c].pc = "minute" /\ \A d \in Clients \ {c} : call'[d] = call[d]
      BY <1>1, <3>1, <3>2
    <3> QED
      BY <3>1, <3>3 DEF Counting, At
  <2>3. Cardinality(Counting') = Cardinality(Counting) - 1
    BY <1>2, <2>2, FS_RemoveElement
  <2>4. /\ total'.queries = total.queries
        /\ total'.hit + total'.miss = total.hit + total.miss + 1
        /\ total.hit <= total'.hit /\ total.miss <= total'.miss /\ UNCHANGED reader
    BY <1>1, <1>5, <2>1 DEF Outcomes, CountOutcome
  <2>5. total'.hit \in Nat /\ total'.miss \in Nat
    BY <1>1, <2>1 DEF Outcomes
  <2> QED
    BY <1>1, <1>2, <2>3, <2>4, <2>5 DEF QueriesCounted
<1> SUFFICES ASSUME UNCHANGED <<total, reader>>, Counting' = Counting
             PROVE  QueriesCounted' /\ total.hit <= total'.hit /\ total.miss <= total'.miss
  <2>1. CASE ReadMinute(c)
    BY <1>1, <2>1 DEF ReadMinute, Counting, At, Call
  <2>2. CASE LoadBucket(c)
    BY <1>1, <2>2 DEF LoadBucket, Counting, At, Call
  <2>3. CASE TakeBucket(c)
    BY <1>3, <2>3 DEF TakeBucket, At
  <2>4. CASE ZeroHits(c) \/ ZeroMisses(c)
    BY <1>3, <2>4 DEF ZeroHits, ZeroMisses, Zero, At
  <2>5. CASE AddToBucket(c)
    BY <1>1, <2>5 DEF AddToBucket, Counting, At, Call, NoCall
  <2> QED
    BY <1>4, <1>5, <2>1, <2>2, <2>3, <2>4, <2>5 DEF QueryStep
<1> QED
  BY <1>1 DEF QueriesCounted

LEMMA ReaderCounts ==
  ASSUME StatisticsInv, ReaderStep
  PROVE  QueriesCounted' /\ ReadEarlier' /\ OutcomesWithinQueries'
<1>1. /\ total.queries \in Nat /\ total.hit \in Nat /\ total.miss \in Nat
      /\ reader \in Reader
  BY DEF StatisticsInv, CountersOK
<1>2. UNCHANGED <<total, call>>
  BY DEF ReaderStep, ReadHits, ReadMisses, ReadQueries, ReadTotal, BeginWindow,
         ReadBucket, EndWindow, Report
<1>3. QueriesCounted'
  BY <1>2 DEF StatisticsInv, QueriesCounted, Counting, At
<1>4. total.hit + total.miss <= total.queries
  <2>1. Cardinality(Counting) \in Nat
    BY CountingFinite DEF Counting
  <2> QED
    BY <1>1, <2>1 DEF StatisticsInv, QueriesCounted
<1>5. /\ reader.hit \in Nat /\ reader.miss \in Nat /\ reader.queries \in Nat
      /\ ReadEarlier /\ OutcomesWithinQueries
  BY <1>1 DEF Reader, StatisticsInv
<1>6. CASE ReadHits
  <2>1. reader.pc = "idle" /\ reader' = [reader EXCEPT !.pc = "misses", !.hit = total.hit]
    BY <1>1, <1>6 DEF ReadHits, ReadTotal, Reader
  <2>2. reader'.pc = "misses" /\ reader'.hit = total.hit
    BY <1>1, <2>1 DEF Reader
  <2> QED
    BY <1>1, <1>2, <1>3, <2>2 DEF ReadEarlier, OutcomesWithinQueries
<1>7. CASE ReadMisses
  <2>1. reader.pc = "misses" /\ reader' = [reader EXCEPT !.pc = "cutoff", !.miss = total.miss]
    BY <1>1, <1>7 DEF ReadMisses, ReadTotal, Reader
  <2>2. reader'.pc = "cutoff" /\ reader'.miss = total.miss /\ reader'.hit = reader.hit
    BY <1>1, <2>1 DEF Reader
  <2> QED
    BY <1>1, <1>2, <1>3, <1>5, <2>1, <2>2 DEF ReadEarlier, OutcomesWithinQueries
<1>8. CASE ReadQueries
  <2>1. reader.pc = "queries" /\ reader' = [reader EXCEPT !.pc = "done", !.queries = total.queries]
    BY <1>1, <1>8 DEF ReadQueries, ReadTotal, Reader
  <2>2. /\ reader'.pc = "done" /\ reader'.queries = total.queries
        /\ reader'.hit = reader.hit /\ reader'.miss = reader.miss
    BY <1>1, <2>1 DEF Reader
  <2> QED
    BY <1>1, <1>2, <1>3, <1>4, <1>5, <2>1, <2>2 DEF ReadEarlier, OutcomesWithinQueries
<1>9. ASSUME reader'.hit = reader.hit, reader'.miss = reader.miss,
             reader.pc \in {"cutoff", "window"}, reader'.pc \in {"window", "queries"}
      PROVE  ReadEarlier' /\ OutcomesWithinQueries'
  BY <1>2, <1>5, <1>9 DEF ReadEarlier, OutcomesWithinQueries
<1>10. CASE BeginWindow \/ ReadBucket \/ EndWindow
  BY <1>1, <1>3, <1>9, <1>10 DEF BeginWindow, ReadBucket, EndWindow, Reader
<1>11. CASE Report
  <2>1. reader'.pc = "idle"
    BY <1>11 DEF Report, NoReader
  <2> QED
    BY <1>3, <2>1 DEF ReadEarlier, OutcomesWithinQueries
<1> QED
  BY <1>6, <1>7, <1>8, <1>10, <1>11 DEF ReaderStep

LEMMA StatisticsStep == StatisticsInv /\ [Next]_statVars => StatisticsInv'
<1> SUFFICES ASSUME StatisticsInv, [Next]_statVars PROVE StatisticsInv'
  OBVIOUS
<1>1. /\ total.hit \in Nat /\ total.miss \in Nat /\ reader \in Reader
      /\ CountersOK' => total'.hit \in Nat /\ total'.miss \in Nat
  BY DEF StatisticsInv, CountersOK
<1>2. ASSUME NEW c \in Clients, QueryStep(c)
      PROVE  StatisticsInv'
  <2>1. CountersOK' /\ QueriesCounted'
    BY <1>2, QueryType, QueryCounts DEF StatisticsInv
  <2>2. /\ total.hit <= total'.hit /\ total.miss <= total'.miss /\ UNCHANGED reader
    BY <1>2, QueryCounts DEF StatisticsInv
  <2>3. ReadEarlier'
    BY <1>1, <2>1, <2>2 DEF StatisticsInv, ReadEarlier, Reader
  <2> QED
    BY <2>1, <2>2, <2>3 DEF StatisticsInv, OutcomesWithinQueries
<1>3. CASE ReaderStep
  BY <1>3, ReaderType, ReaderCounts DEF StatisticsInv
<1>4. CASE TickMinute
  <2>1. minute' \in Minutes /\ UNCHANGED <<total, window, call, reader, counted>>
    BY <1>4, StatisticsAssumption
       DEF TickMinute, StatisticsInv, CountersOK, Minutes
  <2>2. CountersOK'
    BY <2>1 DEF StatisticsInv, CountersOK
  <2> QED
    BY <2>1, <2>2 DEF StatisticsInv, QueriesCounted, Counting, At, ReadEarlier,
                      OutcomesWithinQueries
<1>5. CASE UNCHANGED statVars
  <2>1. CountersOK'
    BY <1>5 DEF statVars, StatisticsInv, CountersOK
  <2> QED
    BY <1>5, <2>1 DEF statVars, StatisticsInv, QueriesCounted, Counting, At, ReadEarlier,
                      OutcomesWithinQueries
<1> QED
  BY <1>2, <1>3, <1>4, <1>5 DEF Next

(* However many goroutines count while Stats reads, it reports no more     *)
(* hits and misses than queries: every outcome counted is that of a query  *)
(* counted before, and Stats reads the queries after the outcomes.         *)
THEOREM ReportConsistent == Spec => []OutcomesWithinQueries
<1>1. StatisticsInv => OutcomesWithinQueries
  BY DEF StatisticsInv
<1> QED
  BY <1>1, InitStatistics, StatisticsStep, PTL DEF Spec

----------------------------------------------------------------------------
(* What a bucket has of an outcome was added to it in its minute or later, *)
(* but while the goroutine that took it over has still to empty it.        *)
AddedTo(i, o, t) ==
  {j \in DOMAIN counted : counted[j].slot = i /\ counted[j].outcome = o /\ counted[j].at >= t}

ToEmpty(i, o) ==
  \E c \in Clients : /\ call[c].pc = "zero hit" \/ (call[c].pc = "zero miss" /\ o = "miss")
                     /\ Slot(call[c].minute) = i

BucketsOK ==
  \A i \in Slots, o \in Outcomes :
    ~ToEmpty(i, o) => window[i][o] <= Cardinality(AddedTo(i, o, window[i].minute))

(* What Stats has summed up was added since the cutoff, to buckets it has  *)
(* been through.                                                           *)
AddedBelow(n, t) == {j \in DOMAIN counted : counted[j].slot < n /\ counted[j].at > t}

AddedAfter(t) == {j \in DOMAIN counted : counted[j].at > t}

ReadOK ==
  /\ reader.pc \in {"idle", "misses", "cutoff"} => reader.sum = 0 /\ reader.next = 0
  /\ reader.pc \in {"window", "queries", "done"} => reader.since \in Int
  /\ (reader.pc = "window" /\ reader.clean) =>
        reader.sum <= Cardinality(AddedBelow(reader.next, reader.since))
  /\ (reader.pc \in {"queries", "done"} /\ reader.clean) =>
        reader.sum <= Cardinality(AddedAfter(reader.since))

WindowInv == CountersOK /\ BucketsOK /\ MinutesOK /\ ReadOK

LEMMA WindowTypes ==
  ASSUME CountersOK
  PROVE  /\ minute \in Nat /\ window \in [Slots -> Bucket] /\ call \in [Clients -> Call]
         /\ \A i \in Slots : /\ window[i].minute \in Nat
                             /\ window[i].hit \in Nat /\ window[i].miss \in Nat
         /\ DOMAIN counted = 1 .. Len(counted) /\ Len(counted) \in Nat
         /\ \A j \in DOMAIN counted : counted[j].at \in Nat /\ counted[j].slot \in Slots
         /\ \A c \in Clients : ~At(c, "idle") /\ ~At(c, "count") /\ ~At(c, "minute") =>
              call[c].minute \in Nat /\ Slot(call[c].minute) \in Slots
<1>1. /\ minute \in Minutes /\ window \in [Slots -> Bucket] /\ call \in [Clients -> Call]
      /\ counted \in Seq(Count) /\ \A m \in Minutes : m \in Nat
      /\ \A c \in Clients : ~At(c, "idle") /\ ~At(c, "count") /\ ~At(c, "minute") =>
           call[c].minute \in Minutes
  BY DEF CountersOK, Minutes, At
<1>2. \A i \in Slots : /\ window[i].minute \in Nat
                       /\ window[i].hit \in Nat /\ window[i].miss \in Nat
  BY <1>1 DEF Bucket
<1>3. DOMAIN counted = 1 .. Len(counted) /\ Len(counted) \in Nat
  BY <1>1
<1>4. \A j \in DOMAIN counted : counted[j] \in Count
  BY <1>1
<1>5. \A j \in DOMAIN counted : counted[j].at \in Nat /\ counted[j].slot \in Slots
  BY <1>1, <1>4 DEF Count
<1> QED
  BY <1>1, <1>2, <1>3, <1>5, SlotType

LEMMA SomeCounted ==
  ASSUME CountersOK, NEW S \in SUBSET DOMAIN counted
  PROVE  IsFiniteSet(S) /\ Cardinality(S) \in Nat
<1>1. IsFiniteSet(DOMAIN counted)
  BY WindowTypes, FS_Interval
<1> QED
  BY <1>1, FS_Subset, FS_CardinalityType

(* What has been counted stays counted.                                    *)
LEMMA LogGrows ==
  ASSUME CountersOK, NEW r, counted' \in {counted, Append(counted, r)}
  PROVE  /\ DOMAIN counted \subseteq DOMAIN counted'
         /\ \A j \in DOMAIN counted : counted'[j] = counted[j]
<1>1. counted \in Seq(Count)
  BY DEF CountersOK
<1>2. CASE counted' = Append(counted, r)
  BY <1>1, <1>2
<1> QED
  BY <1>2

LEMMA CountsGrow ==
  ASSUME CountersOK, CountersOK', NEW r, counted' \in {counted, Append(counted, r)},
         NEW A, NEW B, A \subseteq DOMAIN counted, B \subseteq DOMAIN counted', A \subseteq B
  PROVE  /\ Cardinality(A) \in Nat /\ Cardinality(B) \in Nat
         /\ Cardinality(A) <= Cardinality(B)
<1>1. counted' \in Seq(Count)
  BY DEF CountersOK, Count, Minutes, Slots, Outcomes
<1>2. PICK n \in Nat : DOMAIN counted' = 1 .. n
  BY <1>1
<1>3. IsFiniteSet(1 .. n)
  BY FS_Interval
<1>4. IsFiniteSet(B)
  BY <1>2, <1>3, FS_Subset
<1> QED
  BY <1>4, FS_Subset, FS_CardinalityType

LEMMA InitWindow == Init => WindowInv
<1> SUFFICES ASSUME Init PROVE WindowInv
  OBVIOUS
<1>1. CountersOK
  BY InitStatistics DEF StatisticsInv
<1>2. /\ minute = WindowMinutes /\ WindowMinutes \in Nat /\ counted = <<>>
      /\ window = [i \in Slots |-> [minute |-> 0, hit |-> 0, miss |-> 0]]
      /\ call = [c \in Clients |-> NoCall] /\ reader = NoReader
  BY StatisticsAssumption DEF Init
<1>3. BucketsOK
  <2> SUFFICES ASSUME NEW i \in Slots, NEW o \in Outcomes
               PROVE  window[i][o] <= Cardinality(AddedTo(i, o, window[i].minute))
    BY DEF BucketsOK
  <2>1. window[i][o] = 0
    BY <1>2 DEF Outcomes
  <2>2. Cardinality(AddedTo(i, o, window[i].minute)) \in Nat
    BY <1>1, SomeCounted DEF AddedTo
  <2> QED
    BY <2>1, <2>2
<1>4. MinutesOK
  BY <1>2 DEF MinutesOK, At, NoCall
<1>5. ReadOK
  BY <1>2 DEF ReadOK, NoReader
<1> QED
  BY <1>1, <1>3, <1>4, <1>5 DEF WindowInv

LEMMA SameBuckets ==
  ASSUME BucketsOK, UNCHANGED <<window, call, counted>>
  PROVE  BucketsOK'
<1>1. \A i, o : ToEmpty(i, o)' <=> ToEmpty(i, o)
  BY DEF ToEmpty, Slot
<1>2. \A i, o, t : AddedTo(i, o, t)' = AddedTo(i, o, t)
  BY DEF AddedTo
<1> SUFFICES ASSUME NEW i \in Slots, NEW o \in Outcomes, ~ToEmpty(i, o)'
             PROVE  window[i][o] <= Cardinality(AddedTo(i, o, window[i].minute)')
  BY DEF BucketsOK
<1>3. window[i][o] <= Cardinality(AddedTo(i, o, window[i].minute))
  BY <1>1 DEF BucketsOK
<1>4. AddedTo(i, o, window[i].minute)' = AddedTo(i, o, window[i].minute)
  BY DEF AddedTo
<1> QED
  BY <1>3, <1>4

(* The steps of a query that touch no bucket.                              *)
LEMMA OtherBuckets ==
  ASSUME CountersOK, BucketsOK, UNCHANGED <<window, counted>>, NEW c \in Clients,
         \A d \in Clients \ {c} : call'[d] = call[d],
         call[c].pc \notin {"zero hit", "zero miss"}
  PROVE  BucketsOK'
<1>1. \A i, o : ToEmpty(i, o) => ToEmpty(i, o)'
  BY DEF ToEmpty, Slot
<1>2. \A i \in Slots, o \in Outcomes :
        ~ToEmpty(i, o) => window[i][o] <= Cardinality(AddedTo(i, o, window[i].minute))
  BY DEF BucketsOK
<1> SUFFICES ASSUME NEW i \in Slots, NEW o \in Outcomes, ~ToEmpty(i, o)'
             PROVE  window[i][o] <= Cardinality(AddedTo(i, o, window[i].minute))'
  BY DEF BucketsOK
<1>3. AddedTo(i, o, window[i].minute)' = AddedTo(i, o, window[i].minute)
  BY DEF AddedTo
<1> QED
  BY <1>1, <1>2, <1>3

(* The goroutine that has taken a bucket over empties it.                  *)
EmptiesIts(c, i) ==
  /\ i = Slot(call[c].minute) /\ Slot(call'[c].minute) = i
  /\ \A d \in Clients \ {c} : call'[d] = call[d]
  /\ \A j \in Slots \ {i} : window'[j] = window[j]
  /\ \A o \in Outcomes : \/ ToEmpty(i, o)' \/ window'[i][o] = 0
                         \/ /\ window'[i][o] = window[i][o]
                            /\ window'[i].minute = window[i].minute
                            /\ ToEmpty(i, o) => ToEmpty(i, o)'

LEMMA EmptiedBucket ==
  ASSUME CountersOK, CountersOK', BucketsOK, UNCHANGED counted, NEW c \in Clients,
         NEW i \in Slots, EmptiesIts(c, i)
  PROVE  BucketsOK'
<1> USE DEF EmptiesIts
<1> SUFFICES ASSUME NEW j \in Slots, NEW o \in Outcomes, ~ToEmpty(j, o)'
             PROVE  window'[j][o] <= Cardinality(AddedTo(j, o, window[j].minute))'
  BY DEF BucketsOK
<1>1. ~ToEmpty(j, o) => window[j][o] <= Cardinality(AddedTo(j, o, window[j].minute))
  BY DEF BucketsOK
<1>2. CASE j # i
  <2>1. ~ToEmpty(j, o)
    BY <1>2 DEF ToEmpty, Slot
  <2>2. AddedTo(j, o, window[j].minute)' = AddedTo(j, o, window[j].minute)
    BY <1>2 DEF AddedTo
  <2> QED
    BY <1>1, <1>2, <2>1, <2>2
<1>3. CASE j = i /\ window'[i][o] = 0
  <2>1. Cardinality(AddedTo(j, o, window[j].minute)') \in Nat
    BY SomeCounted DEF AddedTo, CountersOK
  <2>2. window'[j][o] = 0
    BY <1>3
  <2> QED
    BY <2>1, <2>2
<1>4. CASE j = i /\ window'[i][o] # 0
  <2>1. /\ window'[i][o] = window[i][o] /\ window'[i].minute = window[i].minute
        /\ ~ToEmpty(i, o)
    BY <1>4
  <2>2. AddedTo(j, o, window[j].minute)' = AddedTo(j, o, window[j].minute)
    BY <1>4, <2>1 DEF AddedTo
  <2> QED
    BY <1>1, <1>4, <2>1, <2>2
<1> QED
  BY <1>2, <1>3, <1>4

(* What is added is added now, and no bucket is ahead of the clock.        *)
LEMMA AddedNow ==
  ASSUME WindowInv, CountersOK', NEW c \in Clients, AddToBucket(c)
  PROVE  BucketsOK'
<1> DEFINE i == Slot(call[c].minute)
           p == call[c].outcome
           r == [at |-> minute, slot |-> i, outcome |-> p]
<1>1. /\ CountersOK /\ BucketsOK /\ window \in [Slots -> Bucket] /\ call \in [Clients -> Call]
      /\ i \in Slots /\ p \in Outcomes /\ At(c, "add") /\ minute \in Nat
      /\ \A j \in Slots : window[j].minute <= minute
  BY WindowTypes DEF WindowInv, AddToBucket, At, MinutesOK, Call
<1>2. window' = [window EXCEPT ![i][p] = @ + 1] /\ call' = [call EXCEPT ![c] = NoCall]
  BY DEF AddToBucket
<1>3. counted' = Append(counted, r) /\ counted \in Seq(Count)
  BY <1>1 DEF AddToBucket, CountersOK
<1>4. /\ \A j \in Slots \ {i} : window'[j] = window[j]
      /\ window'[i].minute = window[i].minute
      /\ window'[i][p] = window[i][p] + 1
      /\ \A o \in Outcomes \ {p} : window'[i][o] = window[i][o]
  <2>1. window[i] \in Bucket /\ window'[i] = [window[i] EXCEPT ![p] = window[i][p] + 1]
    BY <1>1, <1>2
  <2>2. \A j \in Slots \ {i} : window'[j] = window[j]
    BY <1>1, <1>2
  <2> QED
    BY <1>1, <2>1, <2>2 DEF Bucket, Outcomes
<1> HIDE DEF i, p
<1>5. \A j, o : ToEmpty(j, o) => ToEmpty(j, o)'
  BY <1>1, <1>2 DEF ToEmpty, At, Slot
<1> DEFINE n == Len(counted) + 1
<1>6. /\ n \in DOMAIN counted' /\ n \notin DOMAIN counted /\ counted'[n] = r
      /\ DOMAIN counted' = DOMAIN counted \cup {n}
      /\ \A j \in DOMAIN counted : counted'[j] = counted[j]
  BY <1>3
<1>7. r.at = minute /\ r.slot = i /\ r.outcome = p
  OBVIOUS
<1> HIDE DEF n, r
<1> SUFFICES ASSUME NEW j \in Slots, NEW o \in Outcomes, ~ToEmpty(j, o)'
             PROVE  window'[j][o] <= Cardinality(AddedTo(j, o, window[j].minute))'
  BY DEF BucketsOK
<1>8. window[j][o] <= Cardinality(AddedTo(j, o, window[j].minute))
  BY <1>1, <1>5 DEF BucketsOK
<1> DEFINE A == AddedTo(j, o, window[j].minute)
           B == AddedTo(j, o, window[j].minute)'
<1>9. /\ A \subseteq DOMAIN counted /\ B \subseteq DOMAIN counted'
      /\ window'[j].minute = window[j].minute
  BY <1>4 DEF AddedTo
<1>10. A \subseteq B
  BY <1>6, <1>9 DEF AddedTo
<1>11. /\ Cardinality(A) \in Nat /\ Cardinality(B) \in Nat /\ IsFiniteSet(A)
       /\ Cardinality(A) <= Cardinality(B) /\ window[j][o] \in Nat
  <2>1. window[j][o] \in Nat
    BY <1>1 DEF Bucket, Outcomes
  <2>2. IsFiniteSet(A)
    BY <1>1, <1>9, SomeCounted
  <2>3. counted' \in {counted, Append(counted, r)} /\ CountersOK
    BY <1>1, <1>3
  <2>4. /\ Cardinality(A) \in Nat /\ Cardinality(B) \in Nat
        /\ Cardinality(A) <= Cardinality(B)
    BY <1>9, <1>10, <2>3, CountsGrow
  <2> QED
    BY <2>1, <2>2, <2>4
<1>12. CASE j = i /\ o = p
  <2>1. n \in B /\ n \notin A
    BY <1>1, <1>6, <1>7, <1>9, <1>12 DEF AddedTo
  <2>2. B = A \cup {n}
    BY <1>6, <1>9, <1>10, <2>1 DEF AddedTo
  <2> HIDE DEF A, B
  <2>3. Cardinality(B) = Cardinality(A) + 1
    BY <1>11, <2>1, <2>2, FS_AddElement
  <2>4. window'[j][o] = window[j][o] + 1
    BY <1>4, <1>12
  <2> QED
    BY <1>8, <1>11, <2>3, <2>4 DEF A, B
<1>13. CASE ~(j = i /\ o = p)
  <2>1. window'[j][o] = window[j][o]
    BY <1>4, <1>13
  <2> QED
    BY <1>8, <1>11, <2>1
<1> QED
  BY <1>12, <1>13

LEMMA QueryBuckets ==
  ASSUME WindowInv, CountersOK', NEW c \in Clients, QueryStep(c)
  PROVE  BucketsOK' /\ MinutesOK'
<1>1. /\ CountersOK /\ BucketsOK /\ MinutesOK /\ call \in [Clients -> Call]
      /\ call[c] \in Call /\ window \in [Slots -> Bucket] /\ minute \in Nat
  BY WindowTypes DEF WindowInv, CountersOK
<1>2. ASSUME NEW g \in Call, call' = [call EXCEPT ![c] = g], UNCHANGED <<window, minute, counted>>,
             call[c].pc \notin {"zero hit", "zero miss"},
             g.pc \in {"load", "swap"} => g.minute = minute \/
                (call[c].pc \in {"load", "swap"} /\ g.minute = call[c].minute)
      PROVE  BucketsOK' /\ MinutesOK'
  <2>1. call'[c] = g /\ \A d \in Clients \ {c} : call'[d] = call[d]
    BY <1>1, <1>2
  <2>2. BucketsOK'
    BY <1>1, <1>2, <2>1, OtherBuckets
  <2>3. \A j \in Slots : window'[j].minute <= minute'
    BY <1>1, <1>2 DEF MinutesOK
  <2>4. \A d \in Clients : call'[d].pc \in {"load", "swap"} => call'[d].minute <= minute'
    <3>1. \A d \in Clients : call[d].pc \in {"load", "swap"} => call[d].minute <= minute
      BY <1>1 DEF MinutesOK, At
    <3>2. minute <= minute
      BY <1>1
    <3>3. g.minute = minute => g.minute <= minute
      BY <3>2
    <3>4. g.pc \in {"load", "swap"} => g.minute <= minute
      <4> SUFFICES ASSUME g.pc \in {"load", "swap"} PROVE g.minute <= minute
        OBVIOUS
      <4>1. \/ g.minute = minute
            \/ call[c].pc \in {"load", "swap"} /\ g.minute = call[c].minute
        BY <1>2
      <4> QED
        BY <3>1, <3>3, <4>1
    <3> QED
      BY <1>2, <2>1, <3>1, <3>4
  <2>5. MinutesOK'
    BY <2>3, <2>4 DEF MinutesOK, At
  <2> QED
    BY <2>2, <2>5
<1>3. ASSUME NEW pc \in {"count", "add"}, Goes(c, pc), UNCHANGED <<window, minute, counted>>,
             call[c].pc \notin {"zero hit", "zero miss"}
      PROVE  BucketsOK' /\ MinutesOK'
  <2> DEFINE g == [call[c] EXCEPT !.pc = pc]
  <2>1. g \in Call /\ g.pc = pc /\ call' = [call EXCEPT ![c] = g]
    BY <1>1, <1>3 DEF Goes, Call
  <2> HIDE DEF g
  <2> QED
    BY <1>2, <1>3, <2>1
<1>4. CASE IncrQueries(c)
  BY <1>3, <1>4 DEF IncrQueries, At
<1>5. CASE CountOutcome(c)
  <2>1. PICK o \in Outcomes :
          call' = [call EXCEPT ![c] = [@ EXCEPT !.pc = "minute", !.outcome = o]]
    BY <1>5 DEF CountOutcome
  <2> DEFINE g == [call[c] EXCEPT !.pc = "minute", !.outcome = o]
  <2>2. g \in Call /\ g.pc = "minute" /\ call' = [call EXCEPT ![c] = g]
    BY <1>1, <2>1 DEF Call
  <2> HIDE DEF g
  <2> QED
    BY <1>2, <1>5, <2>2 DEF CountOutcome, At
<1>6. CASE ReadMinute(c)
  <2> DEFINE g == [call[c] EXCEPT !.pc = "load", !.minute = minute]
  <2>1. g \in Call /\ g.minute = minute /\ call' = [call EXCEPT ![c] = g]
    BY <1>1, <1>6 DEF Call, ReadMinute, CountersOK
  <2> HIDE DEF g
  <2> QED
    BY <1>2, <1>6, <2>1 DEF ReadMinute, At
<1>7. CASE LoadBucket(c)
  <2> DEFINE got == window[Slot(call[c].minute)].minute
             pc == IF got = call[c].minute THEN "add" ELSE "swap"
             g == [call[c] EXCEPT !.got = got, !.pc = pc]
  <2>1. got \in Minutes /\ pc \in {"add", "swap"}
    <3>1. Slot(call[c].minute) \in Slots
      BY <1>1, <1>7, WindowTypes DEF LoadBucket, At
    <3> QED
      BY <1>1, <3>1 DEF Bucket
  <2>2. call' = [call EXCEPT ![c] = g]
    BY <1>1, <1>7 DEF LoadBucket
  <2> HIDE DEF got, pc
  <2>3. g \in Call /\ g.minute = call[c].minute
    BY <1>1, <2>1 DEF Call
  <2> HIDE DEF g
  <2> QED
    BY <1>2, <1>7, <2>2, <2>3 DEF LoadBucket, At
<1>8. ASSUME NEW i \in Slots, i = Slot(call[c].minute), NEW b \in Bucket,
             window' = [window EXCEPT ![i] = b], b.minute <= minute,
             UNCHANGED <<minute, counted>>,
             NEW pc \in {"zero hit", "zero miss", "add"}, Goes(c, pc),
             \A o \in Outcomes : \/ pc = "zero hit" \/ (pc = "zero miss" /\ o = "miss")
                                 \/ b[o] = 0
                                 \/ /\ o = "hit" /\ b[o] = window[i][o]
                                    /\ b.minute = window[i].minute /\ call[c].pc = "zero miss"
      PROVE  BucketsOK' /\ MinutesOK'
  <2>1. /\ \A d \in Clients \ {c} : call'[d] = call[d]
        /\ call'[c].pc = pc /\ call'[c].minute = call[c].minute
    BY <1>1, <1>8 DEF Goes, Call
  <2>2. window'[i] = b /\ \A j \in Slots \ {i} : window'[j] = window[j]
    BY <1>1, <1>8
  <2>3. Slot(call'[c].minute) = i
    BY <1>8, <2>1
  <2>4. \A o \in Outcomes :
          (pc = "zero hit" \/ (pc = "zero miss" /\ o = "miss")) => ToEmpty(i, o)'
    BY <2>1, <2>3 DEF ToEmpty, Slot
  <2>5. ASSUME call[c].pc = "zero miss", ToEmpty(i, "hit") PROVE ToEmpty(i, "hit")'
    <3>1. PICK d \in Clients : call[d].pc = "zero hit" /\ Slot(call[d].minute) = i
      BY <2>5 DEF ToEmpty
    <3>2. d # c /\ call'[d] = call[d]
      BY <2>1, <2>5, <3>1
    <3> QED
      BY <3>1, <3>2 DEF ToEmpty, Slot
  <2>6. BucketsOK'
    <3>1. /\ i = Slot(call[c].minute) /\ \A d \in Clients \ {c} : call'[d] = call[d]
          /\ \A j \in Slots \ {i} : window'[j] = window[j]
      BY <1>8, <2>1, <2>2
    <3>2. \A o \in Outcomes : \/ ToEmpty(i, o)' \/ window'[i][o] = 0
                              \/ /\ window'[i][o] = window[i][o]
                                 /\ window'[i].minute = window[i].minute
                                 /\ ToEmpty(i, o) => ToEmpty(i, o)'
      BY <1>8, <2>2, <2>4, <2>5
    <3>3. EmptiesIts(c, i)
      BY <2>3, <3>1, <3>2 DEF EmptiesIts
    <3>4. CountersOK /\ BucketsOK /\ UNCHANGED counted
      BY <1>1, <1>8
    <3> QED
      BY <3>3, <3>4, EmptiedBucket
  <2>7. MinutesOK'
    <3>1. \A j \in Slots : window'[j].minute <= minute'
      BY <1>1, <1>8, <2>2 DEF MinutesOK
    <3>2. \A d \in Clients : At(d, "load")' \/ At(d, "swap")' =>
            call'[d] = call[d] /\ (At(d, "load") \/ At(d, "swap"))
      BY <1>8, <2>1 DEF At
    <3>3. \A d \in Clients : At(d, "load") \/ At(d, "swap") => call[d].minute <= minute
      BY <1>1 DEF MinutesOK
    <3> QED
      BY <1>8, <3>1, <3>2, <3>3 DEF MinutesOK
  <2> QED
    BY <2>6, <2>7
<1> DEFINE i == Slot(call[c].minute)
<1>9. ~At(c, "idle") /\ ~At(c, "count") /\ ~At(c, "minute") =>
         i \in Slots /\ window[i] \in Bucket /\ call[c].minute \in Minutes
  BY <1>1, WindowTypes DEF At, CountersOK
<1>10. CASE TakeBucket(c)
  <2>1. At(c, "swap") /\ UNCHANGED <<minute, counted>> /\ i \in Slots /\ window[i] \in Bucket
        /\ call[c].minute <= minute /\ call[c].minute \in Minutes
    BY <1>1, <1>9, <1>10 DEF TakeBucket, At, MinutesOK
  <2>2. CASE window' = [window EXCEPT ![i].minute = call[c].minute] /\ Goes(c, "zero hit")
    <3> DEFINE b == [window[i] EXCEPT !.minute = call[c].minute]
    <3>1. b \in Bucket /\ b.minute = call[c].minute /\ window' = [window EXCEPT ![i] = b]
      BY <1>1, <2>1, <2>2 DEF Bucket
    <3> HIDE DEF b
    <3> QED
      BY <1>8, <2>1, <2>2, <3>1
  <2>3. CASE Goes(c, "add") /\ UNCHANGED window
    BY <1>3, <2>1, <2>3 DEF At
  <2> QED
    BY <1>10, <2>2, <2>3 DEF TakeBucket
<1>11. CASE ZeroHits(c)
  <2>1. /\ At(c, "zero hit") /\ UNCHANGED <<minute, counted>> /\ i \in Slots
        /\ window[i] \in Bucket /\ window' = [window EXCEPT ![i]["hit"] = 0]
        /\ Goes(c, "zero miss") /\ window[i].minute <= minute
    BY <1>1, <1>9, <1>11 DEF ZeroHits, Zero, At, MinutesOK
  <2> DEFINE b == [window[i] EXCEPT !["hit"] = 0]
  <2>2. b \in Bucket /\ b.minute = window[i].minute /\ b["hit"] = 0
        /\ window' = [window EXCEPT ![i] = b]
    BY <1>1, <2>1 DEF Bucket
  <2> HIDE DEF b
  <2>3. \A o \in Outcomes : o = "miss" \/ b[o] = 0
    BY <2>2 DEF Outcomes
  <2> DEFINE pc == "zero miss"
  <2>4. /\ b.minute <= minute /\ pc \in {"zero hit", "zero miss", "add"} /\ Goes(c, pc)
        /\ \A o \in Outcomes : (pc = "zero miss" /\ o = "miss") \/ b[o] = 0
    BY <2>1, <2>2, <2>3
  <2>5. /\ i \in Slots /\ i = Slot(call[c].minute) /\ b \in Bucket
        /\ window' = [window EXCEPT ![i] = b] /\ UNCHANGED <<minute, counted>>
    BY <2>1, <2>2
  <2> HIDE DEF pc, i
  <2> QED
    BY <1>8, <2>4, <2>5
<1>12. CASE ZeroMisses(c)
  <2>1. /\ At(c, "zero miss") /\ UNCHANGED <<minute, counted>> /\ i \in Slots
        /\ window[i] \in Bucket /\ window' = [window EXCEPT ![i]["miss"] = 0]
        /\ Goes(c, "add") /\ window[i].minute <= minute
    BY <1>1, <1>9, <1>12 DEF ZeroMisses, Zero, At, MinutesOK
  <2> DEFINE b == [window[i] EXCEPT !["miss"] = 0]
             pc == "add"
  <2>2. b \in Bucket /\ b.minute = window[i].minute /\ b["miss"] = 0
        /\ b["hit"] = window[i]["hit"] /\ window' = [window EXCEPT ![i] = b]
    BY <1>1, <2>1 DEF Bucket
  <2> HIDE DEF b
  <2>3. \A o \in Outcomes : \/ b[o] = 0
                            \/ /\ o = "hit" /\ b[o] = window[i][o]
                               /\ b.minute = window[i].minute /\ call[c].pc = "zero miss"
    BY <2>1, <2>2 DEF Outcomes, At
  <2>4. b.minute <= minute /\ pc \in {"zero hit", "zero miss", "add"} /\ Goes(c, pc)
    BY <2>1, <2>2
  <2>5. /\ i \in Slots /\ i = Slot(call[c].minute) /\ b \in Bucket
        /\ window' = [window EXCEPT ![i] = b] /\ UNCHANGED <<minute, counted>>
    BY <2>1, <2>2
  <2> HIDE DEF pc, i
  <2> QED
    BY <1>8, <2>3, <2>4, <2>5
<1>13. CASE AddToBucket(c)
  <2>1. BucketsOK'
    BY <1>13, AddedNow
  <2>2. /\ At(c, "add") /\ UNCHANGED minute /\ i \in Slots /\ window[i] \in Bucket
        /\ window' = [window EXCEPT ![i][call[c].outcome] = @ + 1]
        /\ call' = [call EXCEPT ![c] = NoCall] /\ call[c].outcome \in Outcomes
    BY <1>1, <1>9, <1>13 DEF AddToBucket, At, Call
  <2>3. \A j \in Slots : window'[j].minute = window[j].minute
    <3> DEFINE b == [window[i] EXCEPT ![call[c].outcome] = @ + 1]
    <3>1. b.minute = window[i].minute /\ window' = [window EXCEPT ![i] = b]
      BY <1>1, <2>2 DEF Bucket, Outcomes
    <3> HIDE DEF b
    <3> QED
      BY <1>1, <3>1
  <2>4. MinutesOK'
    BY <1>1, <2>2, <2>3 DEF MinutesOK, At, NoCall
  <2> QED
    BY <2>1, <2>4
<1> QED
  BY <1>4, <1>5, <1>6, <1>7, <1>10, <1>11, <1>12, <1>13 DEF QueryStep

(* A report under way has no more than what is counted, and goes on to.    *)
LEMMA QueryRead ==
  ASSUME WindowInv, CountersOK', NEW c \in Clients, QueryStep(c)
  PROVE  ReadOK'
<1>1. CountersOK /\ ReadOK
  BY DEF WindowInv
<1>2. UNCHANGED reader
  BY DEF QueryStep, IncrQueries, CountOutcome, ReadMinute, LoadBucket, TakeBucket, ZeroHits,
         ZeroMisses, Zero, AddToBucket
<1>3. \E r : counted' \in {counted, Append(counted, r)}
  BY DEF QueryStep, IncrQueries, CountOutcome, ReadMinute, LoadBucket, TakeBucket, ZeroHits,
         ZeroMisses, Zero, AddToBucket
<1>4. PICK r : counted' \in {counted, Append(counted, r)}
  BY <1>3
<1>5. /\ DOMAIN counted \subseteq DOMAIN counted'
      /\ \A j \in DOMAIN counted : counted'[j] = counted[j]
  BY <1>1, <1>4, LogGrows
<1> DEFINE n == reader.next
           t == reader.since
           A == AddedBelow(n, t)
           B == AddedBelow(n, t)'
           C == AddedAfter(t)
           D == AddedAfter(t)'
<1>6. A \subseteq DOMAIN counted /\ B \subseteq DOMAIN counted' /\ A \subseteq B
  BY <1>2, <1>5 DEF AddedBelow
<1>7. C \subseteq DOMAIN counted /\ D \subseteq DOMAIN counted' /\ C \subseteq D
  BY <1>2, <1>5 DEF AddedAfter
<1>8. reader.sum \in Nat
  BY <1>1 DEF CountersOK, Reader
<1>9. /\ (reader.pc = "window" /\ reader.clean) => reader.sum <= Cardinality(A)
      /\ (reader.pc \in {"queries", "done"} /\ reader.clean) => reader.sum <= Cardinality(C)
  BY <1>1 DEF ReadOK
<1> HIDE DEF A, B, C, D
<1>10. /\ Cardinality(A) \in Nat /\ Cardinality(B) \in Nat /\ Cardinality(A) <= Cardinality(B)
  BY <1>1, <1>4, <1>6, CountsGrow
<1>11. /\ Cardinality(C) \in Nat /\ Cardinality(D) \in Nat /\ Cardinality(C) <= Cardinality(D)
  BY <1>1, <1>4, <1>7, CountsGrow
<1>12. /\ (reader.pc = "window" /\ reader.clean) => reader.sum <= Cardinality(B)
       /\ (reader.pc \in {"queries", "done"} /\ reader.clean) => reader.sum <= Cardinality(D)
  BY <1>8, <1>9, <1>10, <1>11
<1> QED
  BY <1>1, <1>2, <1>12 DEF ReadOK, B, D

(* A bucket that Stats reads has counts of the minutes after the cutoff    *)
(* only, or is left out, or is being emptied.                              *)
LEMMA BucketRead ==
  ASSUME CountersOK, BucketsOK, NEW i \in Slots, ~Emptying(i), NEW t \in Int,
         window[i].minute > t
  PROVE  /\ Cardinality(AddedBelow(i, t)) \in Nat /\ Cardinality(AddedBelow(i + 1, t)) \in Nat
         /\ Cardinality(AddedBelow(i, t)) + window[i].hit + window[i].miss
              <= Cardinality(AddedBelow(i + 1, t))
<1> DEFINE m == window[i].minute
           A == AddedBelow(i, t)
           H == AddedTo(i, "hit", m)
           M == AddedTo(i, "miss", m)
           B == AddedBelow(i + 1, t)
<1>1. /\ i \in Int /\ m \in Nat /\ window[i].hit \in Nat /\ window[i].miss \in Nat
      /\ \A j \in DOMAIN counted : counted[j].at \in Nat /\ counted[j].slot \in Int
  BY WindowTypes, StatisticsAssumption DEF Slots
<1>2. window[i]["hit"] <= Cardinality(H) /\ window[i]["miss"] <= Cardinality(M)
  BY DEF BucketsOK, Outcomes, ToEmpty, Emptying
<1>3. /\ A \subseteq DOMAIN counted /\ H \subseteq DOMAIN counted /\ M \subseteq DOMAIN counted
      /\ B \subseteq DOMAIN counted
  BY DEF AddedBelow, AddedTo
<1>4. A \cap H = {} /\ (A \cup H) \cap M = {}
  BY <1>1 DEF AddedBelow, AddedTo
<1>5. (A \cup H) \cup M \subseteq B
  BY <1>1 DEF AddedBelow, AddedTo
<1> HIDE DEF A, H, M, B
<1>6. /\ IsFiniteSet(A) /\ Cardinality(A) \in Nat /\ IsFiniteSet(H) /\ Cardinality(H) \in Nat
      /\ IsFiniteSet(M) /\ Cardinality(M) \in Nat /\ IsFiniteSet(B) /\ Cardinality(B) \in Nat
  BY <1>3, SomeCounted
<1>7. IsFiniteSet(A \cup H) /\ Cardinality(A \cup H) = Cardinality(A) + Cardinality(H)
  <2>1. /\ IsFiniteSet(A \cup H)
        /\ Cardinality(A \cup H) = Cardinality(A) + Cardinality(H) - Cardinality({})
    BY <1>4, <1>6, FS_Union
  <2> QED
    BY <1>6, <2>1, FS_EmptySet
<1>8. Cardinality((A \cup H) \cup M) = Cardinality(A) + Cardinality(H) + Cardinality(M)
  <2>1. /\ IsFiniteSet((A \cup H) \cup M)
        /\ Cardinality((A \cup H) \cup M)
             = Cardinality(A \cup H) + Cardinality(M) - Cardinality({})
    BY <1>4, <1>6, <1>7, FS_Union
  <2> QED
    BY <1>6, <1>7, <2>1, FS_EmptySet
<1>9. Cardinality((A \cup H) \cup M) <= Cardinality(B)
  BY <1>5, <1>6, FS_Subset
<1> QED
  BY <1>1, <1>2, <1>6, <1>8, <1>9 DEF A, B

LEMMA ReaderWindow ==
  ASSUME WindowInv, CountersOK', ReaderStep
  PROVE  WindowInv'
<1>1. /\ CountersOK /\ BucketsOK /\ MinutesOK /\ ReadOK /\ reader \in Reader
      /\ minute \in Nat /\ WindowMinutes \in Nat
  BY WindowTypes, StatisticsAssumption DEF WindowInv, CountersOK
<1>2. UNCHANGED <<minute, window, call, counted>>
  BY DEF ReaderStep, ReadHits, ReadMisses, ReadQueries, ReadTotal, BeginWindow, ReadBucket,
         EndWindow, Report
<1>3. BucketsOK'
  BY <1>1, <1>2, SameBuckets
<1>4. MinutesOK'
  BY <1>1, <1>2 DEF MinutesOK, At
<1>5. \A n, t : /\ AddedBelow(n, t) \subseteq DOMAIN counted
                /\ AddedAfter(t) \subseteq DOMAIN counted
  BY DEF AddedBelow, AddedAfter
<1>6. \A n, t : /\ Cardinality(AddedBelow(n, t)) \in Nat
                /\ Cardinality(AddedAfter(t)) \in Nat
  BY <1>1, <1>5, SomeCounted
<1>7. ReadOK'
  <2> PICK n, t, s : n = reader'.next /\ t = reader'.since /\ s = reader'.sum
    OBVIOUS
  <2>0. /\ AddedBelow(reader.next, reader.since)' = AddedBelow(n, t)
        /\ AddedAfter(reader.since)' = AddedAfter(t)
    BY <1>2 DEF AddedBelow, AddedAfter
  <2> SUFFICES /\ reader'.pc \in {"idle", "misses", "cutoff"} => s = 0 /\ n = 0
               /\ reader'.pc \in {"window", "queries", "done"} => t \in Int
               /\ (reader'.pc = "window" /\ reader'.clean) =>
                     s <= Cardinality(AddedBelow(n, t))
               /\ (reader'.pc \in {"queries", "done"} /\ reader'.clean) =>
                     s <= Cardinality(AddedAfter(t))
    BY <2>0 DEF ReadOK
  <2>1. CASE ReadHits \/ ReadMisses \/ ReadQueries
    BY <1>1, <2>1 DEF ReadHits, ReadMisses, ReadQueries, ReadTotal, Reader, ReadOK
  <2>2. CASE BeginWindow
    <3>1. /\ reader'.pc = "window" /\ t = Cutoff /\ n = reader.next /\ s = reader.sum
          /\ reader.sum = 0 /\ reader.next = 0
      BY <1>1, <2>2 DEF BeginWindow, Reader, ReadOK
    <3>2. Cutoff \in Int
      BY <1>1 DEF Cutoff
    <3> QED
      BY <1>6, <3>1, <3>2
  <2>3. CASE ReadBucket
    <3> DEFINE i == reader.next
               b == window[i]
    <3>1. /\ reader.pc = "window" /\ i \in Slots /\ reader'.pc = "window" /\ n = i + 1
          /\ t = reader.since /\ reader.since \in Int /\ reader.sum \in Nat
          /\ s = IF b.minute > t THEN reader.sum + b.hit + b.miss ELSE reader.sum
      BY <1>1, <2>3 DEF ReadBucket, Reader, ReadOK
    <3>2. reader'.clean => reader.clean /\ ~Emptying(i)
      BY <1>1, <2>3, Zenon DEF ReadBucket, Reader
    <3>3. reader'.clean => reader.sum <= Cardinality(AddedBelow(i, t))
      BY <1>1, <3>1, <3>2 DEF ReadOK
    <3>4. /\ b.minute \in Nat /\ b.hit \in Nat /\ b.miss \in Nat
      BY <1>1, <3>1, WindowTypes
    <3>5. ASSUME reader'.clean PROVE s <= Cardinality(AddedBelow(i + 1, t))
      <4>1. CASE b.minute > t
        <5>1. /\ Cardinality(AddedBelow(i, t)) + b.hit + b.miss
                   <= Cardinality(AddedBelow(i + 1, t))
          BY <1>1, <3>1, <3>2, <3>5, <4>1, BucketRead
        <5> HIDE DEF b, i
        <5> QED
          BY <1>6, <3>1, <3>3, <3>4, <3>5, <4>1, <5>1
      <4>2. CASE ~(b.minute > t)
        <5>1. AddedBelow(i, t) \subseteq AddedBelow(i + 1, t)
          <6>1. /\ i \in Int
                /\ \A j \in DOMAIN counted : counted[j].slot \in Int
            BY <1>1, <3>1, WindowTypes DEF Slots
          <6> QED
            BY <6>1 DEF AddedBelow
        <5>2. Cardinality(AddedBelow(i, t)) <= Cardinality(AddedBelow(i + 1, t))
          BY <1>1, <1>5, <5>1, SomeCounted, FS_Subset
        <5> HIDE DEF b, i
        <5> QED
          BY <1>6, <3>1, <3>3, <3>5, <4>2, <5>2
      <4> QED
        BY <4>1, <4>2
    <3> QED
      BY <3>1, <3>5
  <2>4. CASE EndWindow
    <3>1. /\ reader.pc = "window" /\ reader.next = WindowMinutes /\ reader'.pc = "queries"
          /\ t = reader.since /\ reader.since \in Int /\ s = reader.sum /\ reader.sum \in Nat
          /\ reader'.clean = reader.clean
      BY <1>1, <2>4 DEF EndWindow, Reader, ReadOK
    <3>2. reader.clean => reader.sum <= Cardinality(AddedBelow(WindowMinutes, t))
      BY <1>1, <3>1 DEF ReadOK
    <3>3. AddedBelow(WindowMinutes, t) \subseteq AddedAfter(t)
      BY DEF AddedBelow, AddedAfter
    <3>4. Cardinality(AddedBelow(WindowMinutes, t)) <= Cardinality(AddedAfter(t))
      BY <1>1, <1>5, <3>3, SomeCounted, FS_Subset
    <3> QED
      BY <1>6, <3>1, <3>2, <3>4
  <2>5. CASE Report
    BY <2>5 DEF Report, NoReader
  <2> QED
    BY <2>1, <2>2, <2>3, <2>4, <2>5 DEF ReaderStep
<1> QED
  BY <1>3, <1>4, <1>7 DEF WindowInv

LEMMA WindowStep == WindowInv /\ CountersOK' /\ [Next]_statVars => WindowInv'
<1> SUFFICES ASSUME WindowInv, CountersOK', [Next]_statVars PROVE WindowInv'
  OBVIOUS
<1>1. CountersOK /\ BucketsOK /\ MinutesOK /\ ReadOK
  BY DEF WindowInv
<1>2. ASSUME UNCHANGED <<window, call, reader, counted>>, minute' \in {minute, minute + 1}
      PROVE  WindowInv'
  <2>1. BucketsOK'
    BY <1>1, <1>2, SameBuckets
  <2>2. ReadOK'
    BY <1>1, <1>2 DEF ReadOK, AddedBelow, AddedAfter
  <2>3. /\ minute \in Nat /\ \A i \in Slots : window[i].minute \in Nat
        /\ \A c \in Clients : At(c, "load") \/ At(c, "swap") => call[c].minute \in Nat
    BY <1>1, WindowTypes DEF At
  <2>4. MinutesOK'
    BY <1>1, <1>2, <2>3 DEF MinutesOK, At
  <2> QED
    BY <2>1, <2>2, <2>4 DEF WindowInv
<1>3. CASE TickMinute
  BY <1>2, <1>3 DEF TickMinute
<1>4. CASE ReaderStep
  BY <1>4, ReaderWindow
<1>5. ASSUME NEW c \in Clients, QueryStep(c) PROVE WindowInv'
  BY <1>5, QueryBuckets, QueryRead DEF WindowInv
<1>6. CASE UNCHANGED statVars
  BY <1>2, <1>6 DEF statVars
<1> QED
  BY <1>3, <1>4, <1>5, <1>6 DEF Next

(* However many goroutines take buckets over while windowStats reads them, *)
(* its sum has nothing that recordWindow counted before the cutoff, unless *)
(* it has read a bucket that was being emptied: what a bucket holds was    *)
(* added to it in its minute or later, since the clock of the goroutine    *)
(* that took it over is never ahead of the one that adds.                  *)
THEOREM WindowRecent == Spec => []WindowIsRecent
<1>1. WindowInv => WindowIsRecent
  BY DEF WindowInv, ReadOK, WindowIsRecent, AddedAfter
<1>2. StatisticsInv => CountersOK
  BY DEF StatisticsInv
<1> QED
  BY <1>1, <1>2, InitStatistics, StatisticsStep, InitWindow, WindowStep, PTL DEF Spec

(* The counters, the buckets and the places of the goroutines have their   *)
(* types, and no bucket is ahead of the clock: who takes one over late     *)
(* (recordWindow) brings the minute it has read before.                    *)
THEOREM StatisticsTypeCorrect == Spec => []StatisticsTypeOK
<1>1. WindowInv => StatisticsTypeOK
  BY DEF WindowInv, StatisticsTypeOK
<1>2. StatisticsInv => CountersOK
  BY DEF StatisticsInv
<1> QED
  BY <1>1, <1>2, InitStatistics, StatisticsStep, InitWindow, WindowStep, PTL DEF Spec
=============================================================================
