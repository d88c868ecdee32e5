--------------------------- MODULE RefresherProofs ---------------------------
(***************************************************************************)
(* Theorems about module Refresher, for every value of its constants.      *)
(* They hold of any step of the program, prompt or not; the last two are   *)
(* about a prompt program.                                                 *)
(***************************************************************************)
EXTENDS Refresher, CacheProofs, SequenceTheorems

Busy == {w \in Workers : worker[w].pc # "free"}

(* What a place of the cycle tells: there are candidates and workers only  *)
(* between the choice and the end, and a snapshot only before the choice.  *)
CycleOK ==
  /\ cycle.now <= clock
  /\ cycle.pc \notin {"now", "prune", "delete"} => cycle.snap = NoSnapshot
  /\ cycle.pc \notin {"check", "acquire", "drain"} => cycle.todo = <<>> /\ Busy = {}
  /\ cycle.pc = "acquire" => cycle.todo # <<>>
  /\ cycle.pc = "delete" => cycle.key \in Keys

WorkersOK ==
  \A w \in Workers : /\ worker[w].pc # "free" => worker[w].key \in Keys
                     /\ worker[w].pc \in {"answered", "set"} => worker[w].resp \in Response

(* The names a cycle has still to refresh are different from one another   *)
(* and from those its workers have, and none of them is backing off.       *)
TodoOK ==
  \A i \in 1 .. Len(cycle.todo) :
    /\ \A j \in 1 .. Len(cycle.todo) : i # j => cycle.todo[i] # cycle.todo[j]
    /\ \A w \in Busy : worker[w].key # cycle.todo[i]
    /\ failures[cycle.todo[i]].nextTry <= clock

RefresherInv ==
  RefresherTypeOK /\ CycleOK /\ WorkersOK /\ TodoOK /\ OneRefreshPerName

----------------------------------------------------------------------------
LEMMA InitRefresher == RefresherInit => RefresherInv
<1> SUFFICES ASSUME RefresherInit PROVE RefresherInv
  OBVIOUS
<1>1. TypeOK
  BY InitType DEF RefresherInit
<1>2. /\ cycle = Waiting /\ ticker = [next |-> StartTime, full |-> FALSE]
      /\ failures = [k \in Keys |-> NoFailure] /\ worker = [w \in Workers |-> Free]
      /\ stopping = FALSE /\ pins = {} /\ clock = StartTime
      /\ frame = [t \in Threads |-> Idle] /\ Workers \subseteq Threads
  BY RefresherAssumption DEF RefresherInit, Init
<1>3. Snapped = {} /\ cycle.snap = NoSnapshot /\ cycle.todo = <<>> /\ Len(cycle.todo) = 0
  BY <1>2 DEF Snapped, Waiting, NoSnapshot
<1>4. \A w \in Workers : worker[w].pc = "free"
  BY <1>2 DEF Free
<1>5. RefresherTypeOK
  <2>1. ticker \in [next : Nat, full : BOOLEAN]
    BY <1>2, CacheAssumption
  <2>2. cycle \in Cycle
    BY <1>2 DEF Waiting, NoSnapshot, Cycle
  <2>3. failures \in [Keys -> [count : Nat, nextTry : Nat]]
    BY <1>2 DEF NoFailure
  <2>4. worker \in [Workers -> Worker]
    BY <1>2 DEF Free, Worker
  <2>5. \A w \in Workers :
          IF worker[w].pc = "set" THEN frame[w].pc \in InSet ELSE At(w, "idle")
    BY <1>2, <1>4 DEF At, Idle
  <2>6. pins = {cycle.snap[k] : k \in Snapped}
    BY <1>2, <1>3
  <2> QED
    BY <1>1, <1>2, <2>1, <2>2, <2>3, <2>4, <2>5, <2>6 DEF RefresherTypeOK
<1>6. CycleOK
  BY <1>2, <1>3, <1>4, CacheAssumption DEF CycleOK, Busy, Waiting
<1> QED
  BY <1>3, <1>4, <1>5, <1>6 DEF RefresherInv, WorkersOK, TodoOK, OneRefreshPerName

(* Every step of the program is one of a caller of the cache.              *)
LEMMA RefresherCalls == RefresherInv /\ [RefresherNext]_rvars => [CallerStep]_vars
<1> SUFFICES ASSUME RefresherInv, [RefresherNext]_rvars PROVE [CallerStep]_vars
  OBVIOUS
<1>1. /\ TypeOK /\ clock \in Nat /\ heap \in [Live -> Entry]
      /\ Clients \subseteq Threads /\ Workers \subseteq Threads
  BY RefresherAssumption DEF RefresherInv, RefresherTypeOK, TypeOK, MapOK, HeapOK
<1>2. CASE UNCHANGED rvars
  BY <1>2 DEF rvars
<1>3. CASE RefresherTick \/ Start \/ Stop \/ \E e \in Rows : LoadEntry(e)
  BY <1>3 DEF RefresherTick, Start, Stop, CallerStep
<1>4. ASSUME NEW c \in Clients, ClientStep(c) PROVE CallerStep
  <2>1. \A m \in Answers : [msg |-> m, at |-> clock] \in Response
    BY <1>1 DEF Response
  <2> QED
    BY <1>1, <1>4, <2>1 DEF ClientStep, ClientBegin, CallerStep
<1>5. CASE BeginCycle
  <2>1. CASE Present = {}
    BY <1>5, <2>1 DEF BeginCycle
  <2>2. CASE Present # {}
    <3>1. /\ cycle.pc = "wait" /\ pins' = {entries[k] : k \in Present}
          /\ UNCHANGED <<clock, serving, entries, heap, frame>>
      BY <1>5, <2>2 DEF BeginCycle
    <3>2. pins = {}
      BY <3>1 DEF RefresherInv, RefresherTypeOK, CycleOK, Snapped, NoSnapshot
    <3>3. Live' = Live
      BY <3>1, <3>2 DEF Live, Present
    <3>4. Collect(heap)
      BY <1>1, <3>1, <3>3 DEF Collect
    <3> QED
      BY <3>1, <3>4 DEF Repin, CallerStep
  <2> QED
    BY <2>1, <2>2
<1>6. CASE Select
  BY <1>6 DEF Select, Repin, CallerStep
<1>7. CASE PruneDelete
  BY <1>7 DEF PruneDelete, CallerStep, RefresherInv, CycleOK
<1>8. CASE \/ PruneFailures \/ Check \/ EndCycle \/ LeaveLoop
           \/ \E k \in Keys : PruneLook(k)
           \/ \E w \in Workers : Dispatch(w)
  BY <1>8 DEF PruneFailures, Check, EndCycle, LeaveLoop, PruneLook, Dispatch
<1>9. ASSUME NEW w \in Workers, WorkerStep(w) PROVE CallerStep \/ UNCHANGED vars
  <2>1. worker[w].pc = "answered" => worker[w].key \in Keys /\ worker[w].resp \in Response
    BY DEF RefresherInv, WorkersOK
  <2> QED
    BY <1>1, <1>9, <2>1 DEF WorkerStep, Answered, Failed, Succeeded, Storing, Refreshed,
       CallerStep, CallStep
<1> QED
  BY <1>2, <1>3, <1>4, <1>5, <1>6, <1>7, <1>8, <1>9 DEF RefresherNext, LoopStep

(* The time a name is left alone after a failure.                          *)
LEMMA WaitType ==
  ASSUME NEW n \in Nat
  PROVE  Wait(n) \in Nat
<1>1. Smaller(n, BackoffShift) \in Nat
  BY RefresherAssumption DEF Smaller
<1>2. 2 ^ Smaller(n, BackoffShift) \in Int
  BY <1>1
<1>3. Interval * 2 ^ Smaller(n, BackoffShift) \in Int
  BY <1>2, RefresherAssumption
<1> QED
  BY <1>3, RefresherAssumption DEF Wait

(* What the loop and its workers do not take part in leaves them alone.    *)
LEMMA ElsewhereRefresher ==
  ASSUME RefresherInv, TypeOK', UNCHANGED <<cycle, failures, worker, pins>>,
         clock' >= clock, \A w \in Workers : frame'[w] = frame[w],
         ticker' \in [next : Nat, full : BOOLEAN], stopping' \in BOOLEAN
  PROVE  RefresherInv'
<1>1. clock \in Nat /\ clock' \in Nat
  BY DEF RefresherInv, RefresherTypeOK, TypeOK, MapOK
<1>2. RefresherTypeOK'
  BY DEF RefresherInv, RefresherTypeOK, At, Snapped
<1>3. CycleOK'
  <2>1. cycle.now \in Nat
    BY DEF RefresherInv, RefresherTypeOK, Cycle
  <2> QED
    BY <1>1, <2>1 DEF RefresherInv, CycleOK, Busy
<1>4. TodoOK'
  <2>1. \A i \in 1 .. Len(cycle.todo) : cycle.todo[i] \in Keys
    BY ElementOfSeq DEF RefresherInv, RefresherTypeOK, Cycle
  <2>2. \A k \in Keys : failures[k].nextTry \in Nat
    BY DEF RefresherInv, RefresherTypeOK
  <2> QED
    BY <1>1, <2>1, <2>2 DEF RefresherInv, TodoOK, Busy
<1>5. WorkersOK' /\ OneRefreshPerName'
  BY DEF RefresherInv, WorkersOK, OneRefreshPerName
<1> QED
  BY <1>2, <1>3, <1>4, <1>5 DEF RefresherInv

(* A query is a call of its own goroutine, and of nobody else.             *)
LEMMA ClientAside ==
  ASSUME clock \in Nat, NEW c \in Clients, ClientStep(c)
  PROVE  /\ \E f : frame' = [frame EXCEPT ![c] = f]
         /\ UNCHANGED <<clock, serving, pins>> /\ UNCHANGED refresherVars
<1>1. CASE ClientBegin(c)
  <2>1. \A m \in Answers : [msg |-> m, at |-> clock] \in Response
    BY DEF Response
  <2>2. PICK k \in Keys : \/ GetLookup(c, k) \/ StaleLookup(c, k)
                          \/ \E r \in Response : SetNow(c, k, r)
    BY <1>1, <2>1 DEF ClientBegin
  <2>3. c \in Threads
    BY RefresherAssumption
  <2> QED
    BY <2>2, <2>3, BegunFrame DEF ClientStep
<1>2. CASE CallStep(c) \/ Release(c)
  BY <1>2 DEF ClientStep, CallStep, GetNow, GetTouch, GetMark, GetServe, StaleServe, StaleNow,
     StaleTouch, SetLock, SetCopy, SetPublish, Release
<1> QED
  BY <1>1, <1>2 DEF ClientStep

LEMMA OthersRefresher ==
  ASSUME RefresherInv, TypeOK',
         \/ UNCHANGED rvars \/ RefresherTick \/ Start \/ Stop
         \/ \E e \in Rows : LoadEntry(e) /\ UNCHANGED refresherVars
         \/ \E c \in Clients : ClientStep(c)
  PROVE  RefresherInv'
<1>1. /\ clock \in Nat /\ ticker \in [next : Nat, full : BOOLEAN] /\ stopping \in BOOLEAN
      /\ frame \in [Threads -> Frame]
      /\ Interval \in Nat /\ Clients \subseteq Threads /\ Clients \cap Workers = {}
      /\ Workers \subseteq Threads
  BY RefresherAssumption DEF RefresherInv, RefresherTypeOK, TypeOK, MapOK, FramesOK
<1>2. CASE UNCHANGED rvars
  BY <1>1, <1>2, ElsewhereRefresher DEF rvars, vars, refresherVars
<1>3. CASE RefresherTick
  <2>1. ticker' \in [next : Nat, full : BOOLEAN]
    BY <1>1, <1>3 DEF RefresherTick
  <2> QED
    BY <1>1, <1>3, <2>1, ElsewhereRefresher DEF RefresherTick, Tick, storeVars
<1>4. CASE Start
  BY <1>1, <1>4, ElsewhereRefresher DEF Start, StartServing
<1>5. CASE Stop
  BY <1>1, <1>5, ElsewhereRefresher DEF Stop, vars
<1>6. ASSUME NEW e \in Rows, LoadEntry(e), UNCHANGED refresherVars PROVE RefresherInv'
  BY <1>1, <1>6, ElsewhereRefresher DEF LoadEntry, refresherVars
<1>7. ASSUME NEW c \in Clients, ClientStep(c) PROVE RefresherInv'
  <2>3. (\E f : frame' = [frame EXCEPT ![c] = f]) /\ UNCHANGED <<clock, pins>>
    BY <1>1, <1>7, ClientAside
  <2>2. \A w \in Workers : frame'[w] = frame[w]
    BY <1>1, <2>3
  <2>4. UNCHANGED refresherVars
    BY <1>7 DEF ClientStep
  <2> QED
    BY <1>1, <2>2, <2>3, <2>4, ElsewhereRefresher DEF refresherVars
<1> QED
  BY <1>2, <1>3, <1>4, <1>5, <1>6, <1>7

(* The loop while no candidate is chosen and no worker runs.               *)
LEMMA QuietLoop ==
  ASSUME RefresherInv, TypeOK', UNCHANGED <<clock, frame, worker, stopping>>,
         ticker' \in [next : Nat, full : BOOLEAN],
         failures' \in [Keys -> [count : Nat, nextTry : Nat]],
         Busy = {}, cycle' \in Cycle, cycle'.todo = <<>>, cycle'.now <= clock,
         cycle'.pc # "acquire", cycle'.pc = "delete" => cycle'.key \in Keys,
         cycle'.pc \notin {"now", "prune", "delete"} => cycle'.snap = NoSnapshot,
         pins' = {cycle'.snap[k] : k \in Snapped'}
  PROVE  RefresherInv'
<1>1. Busy' = {}
  BY DEF Busy
<1>2. RefresherTypeOK'
  BY DEF RefresherInv, RefresherTypeOK, At
<1>3. CycleOK'
  BY <1>1 DEF CycleOK
<1>4. TodoOK'
  <2>1. Len(cycle'.todo) = 0
    OBVIOUS
  <2> QED
    BY <2>1 DEF TodoOK
<1>5. WorkersOK' /\ OneRefreshPerName'
  BY DEF RefresherInv, WorkersOK, OneRefreshPerName
<1> QED
  BY <1>2, <1>3, <1>4, <1>5 DEF RefresherInv

LEMMA PruneRefresher ==
  ASSUME RefresherInv, TypeOK',
         \/ BeginCycle \/ PruneFailures \/ PruneDelete \/ EndCycle \/ LeaveLoop
         \/ \E k \in Keys : PruneLook(k)
  PROVE  RefresherInv'
<1>1. /\ clock \in Nat /\ cycle \in Cycle /\ ticker \in [next : Nat, full : BOOLEAN]
      /\ failures \in [Keys -> [count : Nat, nextTry : Nat]]
      /\ entries \in [Keys -> Objs \cup {NoObj}]
      /\ pins = {cycle.snap[k] : k \in Snapped} /\ cycle.now <= clock
      /\ cycle.pc \notin {"now", "prune", "delete"} => cycle.snap = NoSnapshot
      /\ cycle.pc \notin {"check", "acquire", "drain"} => cycle.todo = <<>> /\ Busy = {}
      /\ stopping \in BOOLEAN
  BY DEF RefresherInv, RefresherTypeOK, TypeOK, MapOK, CycleOK
<1>2. CASE BeginCycle
  <2>1. CASE Present = {}
    <3>1. /\ ticker' \in [next : Nat, full : BOOLEAN] /\ stopping' \in BOOLEAN
          /\ UNCHANGED <<vars, cycle, failures, worker>>
      BY <1>1, <1>2, <2>1 DEF BeginCycle
    <3>2. UNCHANGED <<clock, pins, frame>> /\ clock' >= clock
      BY <1>1, <3>1 DEF vars
    <3> QED
      BY <3>1, <3>2, ElsewhereRefresher
  <2>2. CASE Present # {}
    <3>1. /\ cycle' = [cycle EXCEPT !.pc = "now", !.snap = entries]
          /\ pins' = {entries[k] : k \in Present} /\ cycle.pc = "wait"
          /\ UNCHANGED <<clock, entries, frame, failures, worker, stopping>>
          /\ ticker' \in [next : Nat, full : BOOLEAN]
      BY <1>1, <1>2, <2>2 DEF BeginCycle
    <3>2. /\ cycle' \in Cycle /\ cycle'.pc = "now" /\ cycle'.snap = entries
          /\ cycle'.todo = cycle.todo /\ cycle'.now = cycle.now
      BY <1>1, <3>1 DEF Cycle
    <3>3. pins' = {cycle'.snap[k] : k \in Snapped'}
      BY <3>1, <3>2 DEF Snapped, Present
    <3> QED
      BY <1>1, <3>1, <3>2, <3>3, QuietLoop
  <2> QED
    BY <2>1, <2>2
<1>3. CASE PruneFailures
  <2>1. /\ cycle' = [cycle EXCEPT !.pc = "prune", !.now = clock, !.left = Snapped]
        /\ failures' = [k \in Keys |-> IF k \in Snapped THEN failures[k] ELSE NoFailure]
        /\ UNCHANGED <<vars, ticker, worker, stopping>> /\ cycle.pc = "now"
    BY <1>3 DEF PruneFailures
  <2>2. /\ cycle' \in Cycle /\ cycle'.pc = "prune" /\ cycle'.snap = cycle.snap
        /\ cycle'.todo = cycle.todo /\ cycle'.now = clock
    BY <1>1, <2>1 DEF Cycle, Snapped
  <2>3. failures' \in [Keys -> [count : Nat, nextTry : Nat]]
    BY <1>1, <2>1 DEF NoFailure
  <2>4. pins' = {cycle'.snap[k] : k \in Snapped'} /\ UNCHANGED <<clock, frame>>
    BY <1>1, <2>1, <2>2 DEF Snapped, vars
  <2> QED
    BY <1>1, <2>1, <2>2, <2>3, <2>4, QuietLoop
<1>4. ASSUME NEW pc \in {"prune", "delete", "left"}, NEW left \in SUBSET Keys,
             NEW key \in Keys \cup {NoKey},
             cycle' = [cycle EXCEPT !.pc = pc, !.left = left, !.key = key],
             cycle.pc \notin {"check", "acquire", "drain"},
             pc = "left" => cycle.pc = "wait",
             pc = "delete" => key \in Keys,
             UNCHANGED <<clock, frame, worker, stopping, ticker, failures, pins>>
      PROVE  RefresherInv'
  <2>1. /\ cycle' \in Cycle /\ cycle'.pc = pc /\ cycle'.snap = cycle.snap
        /\ cycle'.todo = cycle.todo /\ cycle'.now = cycle.now /\ cycle'.key = key
    BY <1>1, <1>4 DEF Cycle
  <2>2. pins' = {cycle'.snap[k] : k \in Snapped'}
    BY <1>1, <1>4, <2>1 DEF Snapped
  <2> QED
    BY <1>1, <1>4, <2>1, <2>2, QuietLoop
<1>5. /\ cycle.left \in SUBSET Keys /\ cycle.key \in Keys \cup {NoKey}
      /\ \A pc : [cycle EXCEPT !.pc = pc] =
                   [cycle EXCEPT !.pc = pc, !.left = cycle.left, !.key = cycle.key]
  BY <1>1 DEF Cycle
<1>6. CASE PruneDelete
  BY <1>4, <1>5, <1>6 DEF PruneDelete, Delete
<1>7. CASE LeaveLoop
  BY <1>4, <1>5, <1>7 DEF LeaveLoop, vars
<1>8. ASSUME NEW k \in Keys, PruneLook(k) PROVE RefresherInv'
  <2> DEFINE pc == IF Unused(SnapOf(k), cycle.now) THEN "delete" ELSE "prune"
  <2>1. /\ cycle' = [cycle EXCEPT !.left = cycle.left \ {k}, !.key = k, !.pc = pc]
        /\ cycle.pc = "prune"
        /\ UNCHANGED <<clock, frame, worker, stopping, ticker, failures, pins>>
    BY <1>8 DEF PruneLook, vars
  <2>2. pc \in {"prune", "delete"} /\ cycle.left \ {k} \in SUBSET Keys
    BY <1>5
  <2> HIDE DEF pc
  <2>3. cycle' = [cycle EXCEPT !.pc = pc, !.left = cycle.left \ {k}, !.key = k]
    BY <1>1, <2>1 DEF Cycle
  <2> QED
    BY <1>4, <2>1, <2>2, <2>3
<1>9. CASE EndCycle
  <2>1. /\ cycle' = Waiting /\ cycle.pc = "drain" /\ Busy = {}
        /\ UNCHANGED <<clock, frame, worker, stopping, ticker, failures, pins>>
    BY <1>9 DEF EndCycle, Busy, vars
  <2>2. /\ cycle' \in Cycle /\ cycle'.pc = "wait" /\ cycle'.snap = NoSnapshot
        /\ cycle'.todo = <<>> /\ cycle'.now = 0
    BY <2>1 DEF Waiting, Cycle, NoSnapshot
  <2>3. pins' = {cycle'.snap[k] : k \in Snapped'}
    BY <1>1, <2>1, <2>2 DEF Snapped
  <2>4. cycle'.now <= clock /\ cycle'.pc \notin {"acquire", "delete"}
    BY <1>1, <2>2
  <2>5. /\ ticker' \in [next : Nat, full : BOOLEAN]
        /\ failures' \in [Keys -> [count : Nat, nextTry : Nat]]
    BY <1>1, <2>1
  <2>6. UNCHANGED <<clock, frame, worker, stopping>>
    BY <2>1
  <2> QED
    BY <2>1, <2>2, <2>3, <2>4, <2>5, <2>6, QuietLoop
<1> QED
  BY <1>2, <1>3, <1>6, <1>7, <1>8, <1>9

LEMMA CheckRefresher == RefresherInv /\ Check => RefresherInv'
<1> SUFFICES ASSUME RefresherInv, Check PROVE RefresherInv'
  OBVIOUS
<1> DEFINE pc == IF cycle.todo = <<>> \/ stopping THEN "drain" ELSE "acquire"
<1>1. /\ cycle \in Cycle /\ cycle.pc = "check" /\ cycle' = [cycle EXCEPT !.pc = pc]
      /\ UNCHANGED <<vars, ticker, failures, worker, stopping>>
      /\ pc \in {"drain", "acquire"} /\ (pc = "acquire" => cycle.todo # <<>>)
  BY DEF Check, RefresherInv, RefresherTypeOK
<1> HIDE DEF pc
<1>2. /\ cycle' \in Cycle /\ cycle'.pc = pc /\ cycle'.todo = cycle.todo
      /\ cycle'.now = cycle.now /\ cycle'.snap = cycle.snap
  BY <1>1 DEF Cycle
<1>3. TypeOK' /\ UNCHANGED <<clock, frame, pins>>
  <2>1. UNCHANGED vars => TypeOK'
    BY CallerType DEF RefresherInv, RefresherTypeOK
  <2> QED
    BY <1>1, <2>1 DEF vars
<1>4. RefresherTypeOK'
  BY <1>1, <1>2, <1>3 DEF RefresherInv, RefresherTypeOK, At, Snapped
<1>5. CycleOK'
  BY <1>1, <1>2, <1>3 DEF RefresherInv, CycleOK, Busy
<1>6. TodoOK'
  BY <1>1, <1>2, <1>3 DEF RefresherInv, TodoOK, Busy
<1>7. WorkersOK' /\ OneRefreshPerName'
  BY <1>1 DEF RefresherInv, WorkersOK, OneRefreshPerName
<1> QED
  BY <1>4, <1>5, <1>6, <1>7 DEF RefresherInv

(* What is chosen: different names, none of them backing off.              *)
LEMMA Chosen ==
  ASSUME RefresherInv, NEW q \in Ordered(Candidates)
  PROVE  LET todo == SubSeq(q, 1, Smaller(Len(q), MaxPerCycle))
         IN  /\ todo \in Seq(Keys)
             /\ \A i \in 1 .. Len(todo) :
                  /\ \A j \in 1 .. Len(todo) : i # j => todo[i] # todo[j]
                  /\ failures[todo[i]].nextTry <= clock
<1> DEFINE S == Candidates
           n == Smaller(Len(q), MaxPerCycle)
           todo == SubSeq(q, 1, n)
<1>1. S \subseteq Keys /\ IsFiniteSet(S)
  BY FS_Subset, CacheAssumption DEF Candidates, Snapped
<1>2. Cardinality(S) \in Nat
  BY <1>1, FS_CardinalityType
<1>3. /\ q \in [1 .. Cardinality(S) -> S]
      /\ \A i, j \in DOMAIN q : i < j => q[i] # q[j]
  BY DEF Ordered
<1>4. q \in Seq(S) /\ Len(q) = Cardinality(S)
  BY <1>2, <1>3
<1>5. n \in 0 .. Len(q)
  BY <1>2, <1>4, RefresherAssumption DEF Smaller
<1>6. /\ todo \in Seq(S) /\ Len(todo) = n
      /\ \A i \in 1 .. n : todo[i] = q[i] /\ todo[i] \in S
  BY <1>3, <1>4, <1>5
<1>7. \A k \in S : failures[k].nextTry <= clock
  <2>1. \A k \in S : failures[k].nextTry \in Nat /\ ~(cycle.now < failures[k].nextTry)
    BY <1>1 DEF RefresherInv, RefresherTypeOK, Candidates, BackingOff
  <2>2. cycle.now \in Nat /\ cycle.now <= clock /\ clock \in Nat
    BY DEF RefresherInv, RefresherTypeOK, Cycle, CycleOK, TypeOK, MapOK
  <2> QED
    BY <2>1, <2>2
<1>8. todo \in Seq(Keys)
  BY <1>1, <1>6, SeqMonotonic
<1> HIDE DEF S, n, todo
<1>9. ASSUME NEW i \in 1 .. n, NEW j \in 1 .. n, i # j
      PROVE  todo[i] # todo[j]
  <2>1. i \in DOMAIN q /\ j \in DOMAIN q /\ (i < j \/ j < i)
    BY <1>3, <1>4, <1>5, <1>9
  <2>2. q[i] # q[j]
    BY <1>3, <2>1
  <2> QED
    BY <1>6, <2>2
<1>10. /\ todo \in Seq(Keys)
       /\ \A i \in 1 .. Len(todo) :
            /\ \A j \in 1 .. Len(todo) : i # j => todo[i] # todo[j]
            /\ failures[todo[i]].nextTry <= clock
  BY <1>6, <1>7, <1>8, <1>9
<1> QED
  BY <1>10 DEF todo, n

LEMMA SelectRefresher ==
  ASSUME RefresherInv, TypeOK', Select
  PROVE  RefresherInv'
<1>1. PICK q \in Ordered(Candidates) :
        cycle' = [Waiting EXCEPT !.pc = "check",
                    !.todo = SubSeq(q, 1, Smaller(Len(q), MaxPerCycle))]
  BY DEF Select
<1> DEFINE todo == SubSeq(q, 1, Smaller(Len(q), MaxPerCycle))
<1>2. /\ todo \in Seq(Keys)
      /\ \A i \in 1 .. Len(todo) :
           /\ \A j \in 1 .. Len(todo) : i # j => todo[i] # todo[j]
           /\ failures[todo[i]].nextTry <= clock
  BY Chosen
<1>3. cycle' = [Waiting EXCEPT !.pc = "check", !.todo = todo]
  BY <1>1
<1> HIDE DEF todo
<1>4. /\ cycle' \in Cycle /\ cycle'.pc = "check" /\ cycle'.todo = todo
      /\ cycle'.now = 0 /\ cycle'.snap = NoSnapshot
  BY <1>2, <1>3 DEF Waiting, Cycle, NoSnapshot
<1>5. /\ cycle.pc = "prune" /\ pins' = {} /\ Busy = {} /\ clock \in Nat
      /\ UNCHANGED <<clock, frame, ticker, failures, worker, stopping>>
  BY DEF Select, RefresherInv, CycleOK, RefresherTypeOK, TypeOK, MapOK
<1>6. RefresherTypeOK'
  BY <1>4, <1>5 DEF RefresherInv, RefresherTypeOK, At, Snapped, NoSnapshot
<1>7. CycleOK'
  BY <1>4, <1>5 DEF CycleOK
<1>8. TodoOK'
  <2>1. Busy' = {}
    BY <1>5 DEF Busy
  <2> QED
    BY <1>2, <1>4, <1>5, <2>1 DEF TodoOK
<1>9. WorkersOK' /\ OneRefreshPerName'
  BY <1>5 DEF RefresherInv, WorkersOK, OneRefreshPerName
<1> QED
  BY <1>6, <1>7, <1>8, <1>9 DEF RefresherInv

(* The first of the names goes from the loop to a worker.                  *)
LEMMA DispatchRefresher ==
  ASSUME RefresherInv, TypeOK', NEW w \in Workers, Dispatch(w)
  PROVE  RefresherInv'
<1> DEFINE key == Head(cycle.todo)
           g == [Free EXCEPT !.pc = "query", !.since = clock, !.key = key]
<1>1. /\ cycle \in Cycle /\ cycle.pc = "acquire" /\ worker[w].pc = "free"
      /\ cycle.todo # <<>> /\ cycle.snap = NoSnapshot /\ clock \in Nat
      /\ worker \in [Workers -> Worker]
  BY DEF Dispatch, RefresherInv, CycleOK, RefresherTypeOK, TypeOK, MapOK
<1>2. /\ worker' = [worker EXCEPT ![w] = g]
      /\ cycle' = [cycle EXCEPT !.pc = "check", !.todo = Tail(cycle.todo)]
      /\ UNCHANGED <<clock, frame, pins, ticker, failures, stopping>>
  BY <1>1 DEF Dispatch, vars, Cycle
<1>3. cycle.todo \in Seq(Keys) /\ Len(cycle.todo) \in Nat \ {0}
  BY <1>1, EmptySeq DEF Cycle
<1>4. /\ key \in Keys /\ key = cycle.todo[1] /\ Tail(cycle.todo) \in Seq(Keys)
      /\ Len(Tail(cycle.todo)) = Len(cycle.todo) - 1
      /\ \A i \in 1 .. Len(Tail(cycle.todo)) : Tail(cycle.todo)[i] = cycle.todo[i + 1]
  BY <1>1, <1>3, HeadTailProperties
<1>5. g \in Worker /\ g.pc = "query" /\ g.key = key
  BY <1>1, <1>4 DEF Free, Worker
<1> HIDE DEF g
<1>6. /\ cycle' \in Cycle /\ cycle'.pc = "check" /\ cycle'.todo = Tail(cycle.todo)
      /\ cycle'.now = cycle.now /\ cycle'.snap = cycle.snap
  BY <1>1, <1>2, <1>4 DEF Cycle
<1>7. \A v \in Workers : worker'[v] = IF v = w THEN g ELSE worker[v]
  BY <1>1, <1>2
<1>8. RefresherTypeOK'
  <2>1. worker' \in [Workers -> Worker]
    BY <1>1, <1>2, <1>5
  <2>2. \A v \in Workers :
          (IF worker[v].pc = "set" THEN frame[v].pc \in InSet ELSE At(v, "idle"))'
    BY <1>1, <1>2, <1>5, <1>7 DEF RefresherInv, RefresherTypeOK, At
  <2> QED
    BY <1>2, <1>6, <2>1, <2>2 DEF RefresherInv, RefresherTypeOK, Snapped
<1>9. CycleOK'
  BY <1>1, <1>2, <1>6 DEF RefresherInv, CycleOK
<1>10. \A i \in 2 .. Len(cycle.todo) : key # cycle.todo[i]
  BY <1>3, <1>4 DEF RefresherInv, TodoOK
<1>11. TodoOK'
  <2> SUFFICES ASSUME NEW i \in 1 .. Len(cycle'.todo)
               PROVE  /\ \A j \in 1 .. Len(cycle'.todo) : i # j => cycle'.todo[i] # cycle'.todo[j]
                      /\ \A v \in Busy' : worker'[v].key # cycle'.todo[i]
                      /\ failures'[cycle'.todo[i]].nextTry <= clock'
    BY DEF TodoOK
  <2>1. /\ i + 1 \in 2 .. Len(cycle.todo) /\ cycle'.todo[i] = cycle.todo[i + 1]
        /\ \A j \in 1 .. Len(cycle'.todo) : /\ j + 1 \in 1 .. Len(cycle.todo)
                                            /\ cycle'.todo[j] = cycle.todo[j + 1]
                                            /\ i # j => i + 1 # j + 1
    BY <1>3, <1>4, <1>6
  <2>2. i + 1 \in 1 .. Len(cycle.todo)
    BY <1>3, <2>1
  <2>3. \A j \in 1 .. Len(cycle'.todo) : i # j => cycle'.todo[i] # cycle'.todo[j]
    BY <2>1, <2>2 DEF RefresherInv, TodoOK
  <2>4. \A v \in Busy' : worker'[v].key # cycle'.todo[i]
    BY <1>5, <1>7, <1>10, <2>1, <2>2 DEF RefresherInv, TodoOK, Busy
  <2>5. failures'[cycle'.todo[i]].nextTry <= clock'
    BY <1>2, <2>1, <2>2 DEF RefresherInv, TodoOK
  <2> QED
    BY <2>3, <2>4, <2>5
<1>12. WorkersOK'
  BY <1>4, <1>5, <1>7 DEF RefresherInv, WorkersOK
<1>13. OneRefreshPerName'
  <2>1. \A v \in Workers : worker[v].pc # "free" => worker[v].key # key
    BY <1>3, <1>4 DEF RefresherInv, TodoOK, Busy
  <2> QED
    BY <1>5, <1>7, <2>1 DEF RefresherInv, OneRefreshPerName
<1> QED
  BY <1>8, <1>9, <1>11, <1>12, <1>13 DEF RefresherInv

(* A worker goes on with its name, or is done with it.                     *)
LEMMA WorkerPlaces ==
  ASSUME RefresherInv, TypeOK', NEW w \in Workers, NEW g \in Worker, NEW f,
         worker' = [worker EXCEPT ![w] = g], frame' = [frame EXCEPT ![w] = f],
         UNCHANGED <<clock, ticker, cycle, stopping, pins>>,
         worker[w].pc # "free", g.pc # "free" => g.key = worker[w].key,
         g.pc \in {"answered", "set"} => g.resp \in Response,
         IF g.pc = "set" THEN f.pc \in InSet ELSE f.pc = "idle",
         failures' \in [Keys -> [count : Nat, nextTry : Nat]],
         \A k \in Keys : k # worker[w].key => failures'[k] = failures[k]
  PROVE  RefresherInv'
<1>1. /\ w \in Threads /\ Workers \subseteq Threads /\ cycle \in Cycle
      /\ frame \in [Threads -> Frame] /\ worker \in [Workers -> Worker]
  BY RefresherAssumption DEF RefresherInv, RefresherTypeOK, TypeOK, FramesOK
<1>2. /\ \A v \in Workers : worker'[v] = IF v = w THEN g ELSE worker[v]
      /\ \A v \in Workers : frame'[v] = IF v = w THEN f ELSE frame[v]
  BY <1>1
<1>3. RefresherTypeOK'
  <2>1. worker' \in [Workers -> Worker]
    BY <1>1
  <2>2. \A v \in Workers :
          (IF worker[v].pc = "set" THEN frame[v].pc \in InSet ELSE At(v, "idle"))'
    BY <1>2 DEF RefresherInv, RefresherTypeOK, At
  <2> QED
    BY <2>1, <2>2 DEF RefresherInv, RefresherTypeOK, Snapped
<1>4. w \in Busy /\ Busy' \subseteq Busy
  BY <1>2 DEF Busy
<1>5. CycleOK'
  BY <1>4 DEF RefresherInv, CycleOK
<1>6. TodoOK'
  <2> SUFFICES ASSUME NEW i \in 1 .. Len(cycle.todo)
               PROVE  /\ \A v \in Busy' : worker'[v].key # cycle.todo[i]
                      /\ failures'[cycle.todo[i]].nextTry <= clock
    BY DEF RefresherInv, TodoOK
  <2>1. cycle.todo[i] \in Keys
    BY <1>1, ElementOfSeq DEF Cycle
  <2>2. \A v \in Busy : worker[v].key # cycle.todo[i]
    BY DEF RefresherInv, TodoOK
  <2>3. \A v \in Busy' : worker'[v].key = worker[v].key
    BY <1>2 DEF Busy
  <2> QED
    BY <1>4, <2>1, <2>2, <2>3 DEF RefresherInv, TodoOK
<1>7. WorkersOK'
  BY <1>2 DEF RefresherInv, WorkersOK
<1>8. OneRefreshPerName'
  BY <1>2 DEF RefresherInv, OneRefreshPerName
<1> QED
  BY <1>3, <1>5, <1>6, <1>7, <1>8 DEF RefresherInv

LEMMA WorkerRefresher ==
  ASSUME RefresherInv, TypeOK', NEW w \in Workers, WorkerStep(w)
  PROVE  RefresherInv'
<1>1. /\ w \in Threads /\ clock \in Nat
      /\ frame \in [Threads -> Frame] /\ worker \in [Workers -> Worker]
      /\ worker[w] \in Worker /\ failures \in [Keys -> [count : Nat, nextTry : Nat]]
      /\ worker[w].pc # "free" => worker[w].key \in Keys
      /\ worker[w].pc \in {"answered", "set"} => worker[w].resp \in Response
      /\ IF worker[w].pc = "set" THEN frame[w].pc \in InSet ELSE frame[w].pc = "idle"
  BY RefresherAssumption
     DEF RefresherInv, RefresherTypeOK, TypeOK, MapOK, FramesOK, WorkersOK, At
<1>2. /\ Free \in Worker /\ Free.pc = "free"
      /\ frame = [frame EXCEPT ![w] = frame[w]] /\ Idle.pc = "idle"
  BY <1>1 DEF Free, Worker, Idle
<1>3. CASE Answered(w)
  <2>1. PICK m \in Answers : worker' = [worker EXCEPT ![w].pc = "answered",
                                                      ![w].resp = [msg |-> m, at |-> clock]]
    BY <1>3 DEF Answered
  <2> DEFINE r == [msg |-> m, at |-> clock]
             g == [worker[w] EXCEPT !.pc = "answered", !.resp = r]
  <2>2. r \in Response
    BY <1>1 DEF Response
  <2>3. worker' = [worker EXCEPT ![w] = g]
    BY <1>1, <2>1
  <2> HIDE DEF r
  <2>4. /\ g \in Worker /\ g.pc = "answered" /\ g.key = worker[w].key /\ g.resp = r
    BY <1>1, <2>2 DEF Worker
  <2>5. /\ worker[w].pc = "query"
        /\ UNCHANGED <<frame, clock, ticker, cycle, stopping, pins, failures>>
    BY <1>3 DEF Answered, vars
  <2> HIDE DEF g
  <2> QED
    BY <1>1, <1>2, <2>2, <2>3, <2>4, <2>5, WorkerPlaces
<1>4. CASE Failed(w)
  <2> DEFINE k == worker[w].key
             n == failures[k].count + 1
  <2>1. /\ worker[w].pc \in {"query", "answered"} /\ worker' = [worker EXCEPT ![w] = Free]
        /\ UNCHANGED <<frame, clock, ticker, cycle, stopping, pins>>
        /\ failures' = [failures EXCEPT ![k] = [count |-> n, nextTry |-> clock + Wait(n)]]
    BY <1>4 DEF Failed, NoteFailure, vars
  <2>2. k \in Keys /\ n \in Nat
    BY <1>1, <2>1
  <2>3. clock + Wait(n) \in Nat
    BY <1>1, <2>2, WaitType
  <2>4. /\ failures' \in [Keys -> [count : Nat, nextTry : Nat]]
        /\ \A j \in Keys : j # k => failures'[j] = failures[j]
    BY <1>1, <2>1, <2>2, <2>3
  <2> HIDE DEF n
  <2> QED
    BY <1>1, <1>2, <2>1, <2>4, WorkerPlaces
<1>5. CASE Succeeded(w)
  <2> DEFINE g == [worker[w] EXCEPT !.pc = "set"]
  <2>1. /\ worker[w].pc = "answered" /\ worker' = [worker EXCEPT ![w] = g]
        /\ SetNow(w, worker[w].key, worker[w].resp)
        /\ failures' = [failures EXCEPT ![worker[w].key] = NoFailure]
        /\ UNCHANGED <<clock, ticker, cycle, stopping, pins>>
    BY <1>5 DEF Succeeded, SetNow
  <2>2. /\ g \in Worker /\ g.pc = "set" /\ g.key = worker[w].key /\ g.resp = worker[w].resp
    BY <1>1 DEF Worker
  <2> DEFINE f == [Idle EXCEPT !.pc = "publish", !.key = worker[w].key, !.time = clock,
                               !.resp = worker[w].resp]
  <2>3. frame' = [frame EXCEPT ![w] = f] /\ f.pc \in InSet
    BY <2>1 DEF SetNow, Idle, InSet
  <2>4. /\ failures' \in [Keys -> [count : Nat, nextTry : Nat]]
        /\ \A j \in Keys : j # worker[w].key => failures'[j] = failures[j]
    BY <1>1, <2>1 DEF NoFailure
  <2> HIDE DEF g, f
  <2> QED
    BY <1>1, <2>1, <2>2, <2>3, <2>4, WorkerPlaces
<1>6. CASE Refreshed(w)
  <2>1. /\ worker[w].pc = "set" /\ worker' = [worker EXCEPT ![w] = Free]
        /\ frame' = [frame EXCEPT ![w] = Idle]
        /\ UNCHANGED <<clock, ticker, cycle, stopping, pins, failures>>
    BY <1>6 DEF Refreshed, SetPublish
  <2> QED
    BY <1>1, <1>2, <2>1, WorkerPlaces
<1>7. CASE Storing(w)
  <2> DEFINE h == EntryOf(frame[w].key).hits
             l == EntryOf(frame[w].key).lastHit
             locked == [frame[w] EXCEPT !.pc = "copy", !.hits = h]
             copied == [frame[w] EXCEPT !.pc = "insert", !.lastHit = l]
  <2>1. frame' = [frame EXCEPT ![w] = locked] \/ frame' = [frame EXCEPT ![w] = copied]
    BY <1>7 DEF Storing, SetLock, SetCopy
  <2>2. /\ worker[w].pc = "set"
        /\ UNCHANGED <<worker, clock, ticker, cycle, stopping, pins, failures>>
    BY <1>7 DEF Storing, SetLock, SetCopy, refresherVars
  <2> HIDE DEF h, l
  <2>3. locked.pc \in InSet /\ copied.pc \in InSet
    BY <1>1 DEF Frame, InSet
  <2>4. worker' = [worker EXCEPT ![w] = worker[w]]
    BY <1>1, <2>2
  <2> HIDE DEF locked, copied
  <2> QED
    BY <1>1, <2>1, <2>2, <2>3, <2>4, WorkerPlaces
<1> QED
  BY <1>3, <1>4, <1>5, <1>6, <1>7 DEF WorkerStep

LEMMA StepRefresher == RefresherInv /\ [RefresherNext]_rvars => RefresherInv'
<1> SUFFICES ASSUME RefresherInv, [RefresherNext]_rvars PROVE RefresherInv'
  OBVIOUS
<1>1. TypeOK'
  BY RefresherCalls, CallerType DEF RefresherInv, RefresherTypeOK
<1>2. CASE LoopStep
  BY <1>1, <1>2, PruneRefresher, CheckRefresher, SelectRefresher, DispatchRefresher DEF LoopStep
<1>3. CASE \E w \in Workers : WorkerStep(w)
  BY <1>1, <1>3, WorkerRefresher
<1> QED
  BY <1>1, <1>2, <1>3, OthersRefresher DEF RefresherNext

(* The program, whether or not the scheduler is prompt.                    *)
LEMMA RefresherInvariance == RefresherInit /\ [][RefresherNext]_rvars => []RefresherInv
BY InitRefresher, StepRefresher, PTL

(* The snapshot of a cycle, its candidates, the calls of its workers and   *)
(* the state of the failures fit one another at every step.                *)
THEOREM RefresherTypeCorrect == RefresherSpec => []RefresherTypeOK
<1>1. RefresherInv => RefresherTypeOK
  BY DEF RefresherInv
<1> QED
  BY <1>1, RefresherInvariance, PTL DEF RefresherSpec

(* No two workers refresh the same name at once.                           *)
THEOREM RefreshedOnceAtATime == RefresherSpec => []OneRefreshPerName
<1>1. RefresherInv => OneRefreshPerName
  BY DEF RefresherInv
<1> QED
  BY <1>1, RefresherInvariance, PTL DEF RefresherSpec

(* A name that has failed is not asked for again before its backoff is     *)
(* over: between the choice of the candidates and the start of the worker  *)
(* nobody notes a failure of that name.                                    *)
THEOREM BackoffRespected == RefresherSpec => BacksOff
<1> DEFINE Begins == \A w \in Workers :
                       (worker[w].pc = "free" /\ worker'[w].pc = "query") =>
                          clock >= failures[worker'[w].key].nextTry
<1>1. ASSUME RefresherInv, [RefresherNext]_rvars, NEW w \in Workers,
             worker[w].pc = "free", worker'[w].pc = "query"
      PROVE  clock >= failures[worker'[w].key].nextTry
  <2>1. worker \in [Workers -> Worker] /\ worker' # worker /\ clock \in Nat
        /\ cycle.todo \in Seq(Keys)
    BY <1>1 DEF RefresherInv, RefresherTypeOK, TypeOK, MapOK, Cycle
  <2>2. ASSUME NEW v \in Workers, Dispatch(v)
        PROVE  clock >= failures[worker'[w].key].nextTry
    <3>1. v = w
      BY <1>1, <2>1, <2>2 DEF Dispatch
    <3>2. worker'[w].key = Head(cycle.todo)
      BY <2>1, <2>2, <3>1 DEF Dispatch, Free
    <3>3. cycle.todo # <<>>
      BY <1>1, <2>2 DEF Dispatch, RefresherInv, CycleOK
    <3>4. 1 \in 1 .. Len(cycle.todo) /\ Head(cycle.todo) = cycle.todo[1]
      BY <2>1, <3>3, EmptySeq
    <3>5. cycle.todo[1] \in Keys /\ failures[cycle.todo[1]].nextTry <= clock
      BY <1>1, <2>1, <3>4, ElementOfSeq DEF RefresherInv, TodoOK
    <3>6. failures[cycle.todo[1]].nextTry \in Nat
      BY <1>1, <3>5 DEF RefresherInv, RefresherTypeOK
    <3> QED
      BY <2>1, <3>2, <3>4, <3>5, <3>6
  <2>3. ASSUME NEW v \in Workers, WorkerStep(v) PROVE FALSE
    <3>1. v = w
      BY <1>1, <2>1, <2>3 DEF WorkerStep, Answered, Failed, Succeeded, Storing, Refreshed,
         refresherVars
    <3> QED
      BY <1>1, <2>3, <3>1 DEF WorkerStep, Answered, Failed, Succeeded, Storing, Refreshed,
         refresherVars
  <2>4. CASE LoopStep
    BY <2>1, <2>2, <2>4 DEF LoopStep, BeginCycle, PruneFailures, PruneDelete, Select, Check,
       PruneLook, EndCycle, LeaveLoop
  <2>5. worker' = worker \/ LoopStep \/ \E v \in Workers : WorkerStep(v)
    BY <1>1 DEF rvars, refresherVars, RefresherNext, RefresherTick, Start, ClientStep, Stop
  <2> QED
    BY <2>1, <2>3, <2>4, <2>5
<1>2. RefresherInv /\ [RefresherNext]_rvars => [Begins]_rvars
  BY <1>1
<1> QED
  BY <1>2, RefresherInvariance, PTL DEF RefresherSpec, BacksOff

(* A refresh is not a use, and takes none away: a worker copies the usage  *)
(* of an entry in three loads while queries go on using it, the prune of   *)
(* another cycle and the Set of a query wait for the lock, and what it     *)
(* stores has no fewer hits than it found and every day of use.            *)
THEOREM RefresherKeepsUsage == RefresherSpec => RefreshKeepsUsage
<1>1. RefresherInv /\ [RefresherNext]_rvars => TypeOK /\ [CallerStep]_vars
  BY RefresherCalls DEF RefresherInv, RefresherTypeOK
<1>2. RefresherInit => Addressed /\ CopyOK
  BY InitAddressed, InitCopy DEF RefresherInit
<1> QED
  BY <1>1, <1>2, RefresherInvariance, CallerAddressed, CallerCopies, CallerInherits, PTL
     DEF RefresherSpec, RefreshKeepsUsage
----------------------------------------------------------------------------
(* The prompt program: a call that has read the clock is still in that     *)
(* tick, and so is the cycle that has taken a snapshot.                    *)
PromptNext == RefresherNext /\ (clock' # clock => Prompt)

(* No row has a day of use after both that of its last use and that on     *)
(* which its entry was stored; a row does that SaveBatch wrote while its   *)
(* entry was being hit on a new day.                                       *)
LatestDay(e) == Larger(DayOf(e.lastHit), DayOf(e.storedAt))

WholeRows == \A e \in Rows : e.lastHit <= StartTime /\ e.used.day <= LatestDay(e)

Momentary == {"touch", "mark", "retouch"} \cup InSet

InstantOK ==
  \A t \in Threads :
    /\ frame[t].pc \in Momentary => frame[t].time = clock
    /\ frame[t].pc = "mark" => heap[frame[t].obj].lastHit = clock

(* The days of use and the last use of an entry are written by different   *)
(* steps, the last use first; and Set copies the last use first, so that a *)
(* new entry may have a day of use after its last use, but none after the  *)
(* day on which it is stored.                                              *)
UsageOK ==
  /\ \A o \in Live : /\ heap[o].lastHit <= clock /\ heap[o].storedAt <= clock
                     /\ heap[o].used.day <= LatestDay(heap[o])
  /\ \A t \in Threads : At(t, "insert") => frame[t].lastHit <= clock

(* The time h is the last use of the entry of k in the map, or of the one  *)
(* a Set is about to put there.                                            *)
LastHitOf(k, h) ==
  \/ k \in Present /\ h = EntryOf(k).lastHit
  \/ \E t \in Threads : At(t, "insert") /\ frame[t].key = k /\ h = frame[t].lastHit

(* An entry of the snapshot and the one its name has in the map, or is     *)
(* about to have, were last used at the same time, if neither has been     *)
(* used in this very tick.                                                 *)
SnapOK ==
  \A k \in Snapped : \A h :
    LastHitOf(k, h) => h = SnapOf(k).lastHit \/ clock \in {h, SnapOf(k).lastHit}

LongUnused(h) == clock - h > KeepWindowDays * DayLen

PruneOK ==
  cycle.pc \in {"now", "prune", "delete"} =>
    /\ serving /\ SnapOK
    /\ cycle.pc # "now" => cycle.now = clock /\ cycle.left \subseteq Snapped
    /\ cycle.pc = "delete" =>
         \A h : LastHitOf(cycle.key, h) => h = clock \/ LongUnused(h)

StoreInv == /\ TypeOK /\ Addressed /\ StartTime <= clock
            /\ InstantOK /\ UsageOK

PruneInv == RefresherInv /\ StoreInv /\ PruneOK

(* No day comes back, not even when the clocks go back.                    *)
LEMMA DayMonotone ==
  ASSUME NEW a \in Nat, NEW b \in Nat, a <= b
  PROVE  DayOf(a) <= DayOf(b)
<1>1. /\ DayLen \in Nat \ {0} /\ ZoneBefore \in Nat /\ ZoneAfter \in Nat
      /\ ZoneChange \in Nat
  BY CacheAssumption
<1>2. \A x, y \in Nat : x <= y => x \div DayLen <= y \div DayLen
  <2>1. \A x, y \in Nat : x <= y => x + DayLen * 0 <= y
    BY <1>1
  <2>2. \A x \in Nat : x \div DayLen \in Nat
    BY <1>1
  <2>3. \A x, y \in Nat : x <= y => (x \div DayLen) + 0 <= y \div DayLen
    BY <2>1, DaysApart
  <2> QED
    BY <2>2, <2>3
<1>3. CASE (a < ZoneChange) = (b < ZoneChange)
  <2>1. a + ZoneOffset(a) \in Nat /\ b + ZoneOffset(b) \in Nat
        /\ a + ZoneOffset(a) <= b + ZoneOffset(b)
    BY <1>1, <1>3 DEF ZoneOffset
  <2> QED
    BY <1>2, <2>1 DEF DayOf
<1>4. CASE a < ZoneChange /\ ~(b < ZoneChange)
  <2> DEFINE l == ZoneChange - 1 + ZoneBefore
             f == ZoneChange + ZoneAfter
  <2>1. /\ a + ZoneBefore \in Nat /\ l \in Nat /\ a + ZoneBefore <= l
        /\ b + ZoneAfter \in Nat /\ f \in Nat /\ f <= b + ZoneAfter
    BY <1>1, <1>4
  <2>2. l \div DayLen <= f \div DayLen
    BY <1>1, <1>4, ZoneAssumption
  <2>3. DayOf(a) = (a + ZoneBefore) \div DayLen /\ DayOf(b) = (b + ZoneAfter) \div DayLen
    BY <1>4 DEF DayOf, ZoneOffset
  <2> HIDE DEF l, f
  <2>4. /\ (a + ZoneBefore) \div DayLen <= l \div DayLen
        /\ f \div DayLen <= (b + ZoneAfter) \div DayLen
    BY <1>2, <2>1
  <2>5. /\ (a + ZoneBefore) \div DayLen \in Nat /\ l \div DayLen \in Nat
        /\ f \div DayLen \in Nat /\ (b + ZoneAfter) \div DayLen \in Nat
    BY <1>1, <2>1
  <2> QED
    BY <2>2, <2>3, <2>4, <2>5
<1>5. a < ZoneChange \/ ~(b < ZoneChange)
  BY <1>1
<1> QED
  BY <1>3, <1>4, <1>5

LEMMA LiveUsage ==
  ASSUME TypeOK, NEW o \in Live
  PROVE  /\ heap[o] \in Entry /\ heap[o].lastHit \in Nat /\ heap[o].storedAt \in Nat
         /\ heap[o].used \in UsedDays /\ heap[o].used.day \in Nat
         /\ clock \in Nat
BY DEF TypeOK, MapOK, HeapOK, Entry, UsedDays

(* A new entry has the usage that Set has copied, or was used now.         *)
LEMMA PublishedUsage ==
  ASSUME TypeOK, InstantOK, NEW t \in Threads, SetPublish(t)
  PROVE  LET e == Published(frame[t])
         IN  /\ e.storedAt = clock
             /\ \/ /\ At(t, "insert") /\ frame[t].key \in Present
                   /\ e.lastHit = frame[t].lastHit
                   /\ e.used = EntryOf(frame[t].key).used
                \/ e.lastHit = clock /\ e.used.day = DayOf(clock)
<1>1. frame[t].time = clock
  BY DEF SetPublish, At, InstantOK, Momentary, InSet
<1>2. (At(t, "insert") /\ frame[t].key \in Present) \/ frame[t].key \notin Present
  BY DEF SetPublish, TypeOK, LockOK, Copying, At
<1> DEFINE n == NewEntry(frame[t].key, frame[t].resp, frame[t].time)
<1>3. n.lastHit = clock /\ n.used.day = DayOf(clock) /\ n.storedAt = clock
  BY <1>1 DEF NewEntry, PackUsedDays
<1>4. CASE frame[t].key \in Present
  BY <1>1, <1>2, <1>4 DEF Published, NewEntry
<1>5. CASE frame[t].key \notin Present
  BY <1>3, <1>5 DEF Published
<1> QED
  BY <1>4, <1>5

(* The last use of a live entry moves to now, if it moves; a day of use is *)
(* marked after that.                                                      *)
LEMMA UsageChange ==
  ASSUME TypeOK, InstantOK, [CallerStep]_vars, NEW o \in Live'
  PROVE  \/ /\ o \in Live /\ heap'[o].lastHit \in {heap[o].lastHit, clock}
            /\ heap'[o].used = heap[o].used /\ heap'[o].storedAt = heap[o].storedAt
         \/ /\ o \in Live /\ heap[o].lastHit = clock /\ heap'[o].lastHit = clock
            /\ heap'[o].used = Marked(heap[o].used, DayOf(clock))
            /\ heap'[o].storedAt = heap[o].storedAt
         \/ \E e \in Rows : LoadEntry(e) /\ o = NewObj(e.key) /\ heap'[o] = e
         \/ \E t \in Threads : /\ SetPublish(t) /\ o = NewObj(frame[t].key)
                               /\ heap'[o] = Published(frame[t])
<1>1. CASE SameObject(o)
  BY <1>1 DEF SameObject
<1>2. ASSUME NEW t \in Threads, WorksOn(t, o)
      PROVE  \/ /\ o \in Live /\ heap'[o].lastHit \in {heap[o].lastHit, clock}
                /\ heap'[o].used = heap[o].used /\ heap'[o].storedAt = heap[o].storedAt
             \/ /\ o \in Live /\ heap[o].lastHit = clock /\ heap'[o].lastHit = clock
                /\ heap'[o].used = Marked(heap[o].used, DayOf(clock))
                /\ heap'[o].storedAt = heap[o].storedAt
  <2>1. o \in Live /\ frame[t].obj = o /\ heap'[o].storedAt = heap[o].storedAt
    BY <1>2, WorkChange DEF SameAnswer, WorksOn
  <2>2. GetTouch(t) \/ StaleTouch(t) => frame[t].time = clock
    BY DEF GetTouch, StaleTouch, At, InstantOK, Momentary
  <2>3. GetMark(t) => frame[t].time = clock /\ heap[o].lastHit = clock
    BY <2>1 DEF GetMark, At, InstantOK, Momentary
  <2> QED
    BY <1>2, <2>1, <2>2, <2>3, WorkChange
<1> QED
  BY <1>1, <1>2, ObjectChange

LEMMA InstantStep ==
  ASSUME TypeOK, TypeOK', InstantOK, [CallerStep]_vars,
         clock' # clock => \A t \in Threads : frame[t].pc \notin Momentary
  PROVE  InstantOK'
<1> SUFFICES ASSUME NEW s \in Threads, frame'[s].pc \in Momentary
             PROVE  /\ frame'[s].time = clock'
                    /\ frame'[s].pc = "mark" => heap'[frame'[s].obj].lastHit = clock'
  BY DEF InstantOK, Momentary
<1>1. frame'[s].pc = "mark" => frame'[s].obj \in Live'
  BY DEF TypeOK, FramesOK, FrameOK, Live, InGet
<1>2. CASE clock' # clock
  <2>1. frame' = frame
    BY <1>2, ClockChange DEF Tick, storeVars
  <2> QED
    BY <1>2, <2>1
<1>3. CASE clock' = clock /\ frame'[s] = frame[s]
  <2> SUFFICES ASSUME frame[s].pc = "mark" PROVE heap'[frame[s].obj].lastHit = clock
    BY <1>3 DEF InstantOK
  <2> DEFINE o == frame[s].obj
  <2>1. heap[o].lastHit = clock /\ o \in Live' /\ o \in Held
    BY <1>1, <1>3 DEF InstantOK, Held
  <2>2. ASSUME NEW e \in Rows, LoadEntry(e) PROVE o # NewObj(e.key)
    BY <2>1, <2>2, LoadStores, Stored
  <2>3. ASSUME NEW t \in Threads, SetPublish(t) PROVE o # NewObj(frame[t].key)
    <3> DEFINE e == Published(frame[t])
    <3>1. /\ e \in Entry /\ e.key = frame[t].key
          /\ \E m : /\ Store(m, e)
                    /\ m = entries \/ \E v \in Keys : m = [entries EXCEPT ![v] = NoObj]
      BY <2>3, PublishStores DEF Present
    <3> HIDE DEF e
    <3> QED
      BY <2>1, <3>1, Stored
  <2> QED
    BY <2>1, <2>2, <2>3, UsageChange
<1>4. CASE /\ clock' = clock /\ frame'[s].pc \in {"touch", "retouch", "publish"}
           /\ frame'[s].time = clock
  BY <1>4
<1>5. CASE /\ clock' = clock /\ GetTouch(s) /\ frame'[s].pc = "mark"
           /\ frame'[s].time = frame[s].time /\ frame'[s].obj = frame[s].obj
  <2>1. frame[s].time = clock
    BY <1>5 DEF GetTouch, At, InstantOK, Momentary
  <2>2. WorksOn(s, frame[s].obj)
    BY <1>5 DEF WorksOn
  <2>3. ~GetMark(s) /\ ~GetServe(s) /\ ~StaleServe(s)
    BY <1>5 DEF GetTouch, GetMark, GetServe, StaleServe, At
  <2>4. heap'[frame[s].obj].lastHit = frame[s].time
    BY <1>1, <1>5, <2>2, <2>3, WorkChange
  <2> QED
    BY <1>5, <2>1, <2>4
<1>6. CASE clock' = clock /\ (SetLocked(s) \/ SetCopied(s))
  <2>1. frame'[s].time = frame[s].time /\ frame'[s].pc \in {"copy", "insert"}
    BY <1>6 DEF SetLocked, SetCopied
  <2>2. frame[s].pc \in InSet
    BY <1>6 DEF SetLocked, SetCopied, SetLock, SetCopy, At, InSet
  <2> QED
    BY <1>6, <2>1, <2>2 DEF InstantOK, Momentary
<1>7. frame'[s].pc \notin {"idle", "now", "serve", "stale", "again", "done"}
  BY DEF Momentary, InSet
<1> QED
  BY <1>2, <1>3, <1>4, <1>5, <1>6, <1>7, FrameChange

LEMMA UsageStep ==
  ASSUME TypeOK, TypeOK', InstantOK, UsageOK, [CallerStep]_vars,
         StartTime <= clock, clock <= clock', WholeRows
  PROVE  UsageOK'
<1>1. clock \in Nat /\ clock' \in Nat /\ StartTime \in Nat
  BY CacheAssumption DEF TypeOK, MapOK
<1>2. \A p \in Live : /\ heap[p].lastHit \in Nat /\ heap[p].used.day \in Nat
                      /\ heap[p].storedAt \in Nat /\ heap[p].used \in UsedDays
                      /\ heap[p].lastHit <= clock /\ heap[p].storedAt <= clock
                      /\ heap[p].used.day <= LatestDay(heap[p])
                      /\ DayOf(heap[p].lastHit) \in Nat /\ DayOf(heap[p].storedAt) \in Nat
                      /\ DayOf(heap[p].lastHit) <= DayOf(clock)
                      /\ DayOf(heap[p].storedAt) <= DayOf(clock)
  BY <1>1, LiveUsage, DayType, DayMonotone DEF UsageOK
<1>3. DayOf(clock) \in Nat /\ \A p \in Live : heap[p].used.day <= DayOf(clock)
  BY <1>1, <1>2, DayType DEF LatestDay, Larger
<1>4. \A k \in Present : entries[k] \in Live /\ EntryOf(k) = heap[entries[k]]
  BY DEF Present, Live, EntryOf
<1>5. \A t \in Threads : At(t, "insert") => frame[t].lastHit <= clock /\ frame[t].lastHit \in Nat
  BY DEF UsageOK, TypeOK, FramesOK, Frame
<1>6. ASSUME NEW o \in Live'
      PROVE  /\ heap'[o].lastHit <= clock' /\ heap'[o].storedAt <= clock'
             /\ heap'[o].used.day <= LatestDay(heap'[o])
  <2>1. /\ heap'[o].lastHit \in Nat /\ heap'[o].storedAt \in Nat
        /\ heap'[o].used.day \in Nat
        /\ DayOf(heap'[o].lastHit) \in Nat /\ DayOf(heap'[o].storedAt) \in Nat
    BY DayType DEF TypeOK, HeapOK, Entry, UsedDays
  <2>2. CASE /\ o \in Live /\ heap'[o].lastHit \in {heap[o].lastHit, clock}
             /\ heap'[o].used = heap[o].used /\ heap'[o].storedAt = heap[o].storedAt
    BY <1>1, <1>2, <1>3, <2>1, <2>2 DEF LatestDay, Larger
  <2>3. CASE /\ o \in Live /\ heap[o].lastHit = clock /\ heap'[o].lastHit = clock
             /\ heap'[o].used = Marked(heap[o].used, DayOf(clock))
             /\ heap'[o].storedAt = heap[o].storedAt
    <3>1. heap'[o].used.day \in {heap[o].used.day, DayOf(clock)}
      BY <1>2, <1>3, <2>3, MarkedDay
    <3> QED
      BY <1>1, <1>2, <1>3, <2>1, <2>3, <3>1 DEF LatestDay, Larger
  <2>4. ASSUME NEW e \in Rows, heap'[o] = e
        PROVE  /\ heap'[o].lastHit <= clock' /\ heap'[o].storedAt <= clock'
               /\ heap'[o].used.day <= LatestDay(heap'[o])
    BY <1>1, <2>1, <2>4, CacheAssumption DEF WholeRows
  <2>5. ASSUME NEW t \in Threads, SetPublish(t), heap'[o] = Published(frame[t])
        PROVE  /\ heap'[o].lastHit <= clock' /\ heap'[o].storedAt <= clock'
               /\ heap'[o].used.day <= LatestDay(heap'[o])
    <3>1. /\ heap'[o].storedAt = clock
          /\ \/ /\ At(t, "insert") /\ frame[t].key \in Present
                /\ heap'[o].lastHit = frame[t].lastHit
                /\ heap'[o].used = EntryOf(frame[t].key).used
             \/ heap'[o].lastHit = clock /\ heap'[o].used.day = DayOf(clock)
      BY <2>5, PublishedUsage
    <3>2. heap'[o].lastHit <= clock /\ heap'[o].used.day <= DayOf(clock)
      BY <1>1, <1>3, <1>4, <1>5, <3>1
    <3> QED
      BY <1>1, <1>3, <2>1, <3>1, <3>2 DEF LatestDay, Larger
  <2> QED
    BY <2>2, <2>3, <2>4, <2>5, UsageChange
<1>7. ASSUME NEW t \in Threads, frame'[t].pc = "insert"
      PROVE  frame'[t].lastHit <= clock'
  <2>1. CASE frame'[t] = frame[t]
    BY <1>1, <1>5, <1>7, <2>1 DEF At
  <2>2. CASE SetCopied(t)
    <3>1. frame[t].key \in Present /\ frame'[t].lastHit = EntryOf(frame[t].key).lastHit
      BY <2>2 DEF SetCopied, SetCopy, At, Copying, TypeOK, LockOK
    <3> QED
      BY <1>1, <1>2, <1>4, <3>1
  <2> QED
    BY <1>7, <2>1, <2>2, FrameChange DEF SetLocked
<1>8. \A o \in Live' : LatestDay(heap'[o]) = LatestDay(heap[o])'
  BY DEF LatestDay, DayOf, ZoneOffset
<1> QED
  BY <1>6, <1>7, <1>8 DEF UsageOK, At

(* The last use of what a name has in the map is that of what it had       *)
(* before, or that Set has copied, or now.                                 *)
LEMMA EntryHit ==
  ASSUME StoreInv, serving, [CallerStep]_vars, NEW k \in Keys, NEW h, LastHitOf(k, h)'
  PROVE  LastHitOf(k, h) \/ h = clock
<1>1. TypeOK /\ Addressed /\ InstantOK
  BY DEF StoreInv
<1>2. \A e \in Rows : ~LoadEntry(e)
  BY DEF LoadEntry
<1>3. ASSUME NEW t \in Threads, SetPublish(t), frame[t].key = k,
             h = Published(frame[t]).lastHit
      PROVE  LastHitOf(k, h) \/ h = clock
  BY <1>1, <1>3, PublishedUsage DEF LastHitOf
<1>4. ASSUME k \in Present', h = EntryOf(k)'.lastHit
      PROVE  LastHitOf(k, h) \/ h = clock
  <2>1. CASE k \in Present /\ entries'[k] = entries[k]
    <3> DEFINE o == entries[k]
    <3>1. o \in Live' /\ EntryOf(k)' = heap'[o] /\ EntryOf(k) = heap[o]
      BY <2>1 DEF Present, Live, EntryOf
    <3>2. ASSUME NEW t \in Threads, SetPublish(t), o = NewObj(frame[t].key)
          PROVE  frame[t].key = k
      <4> DEFINE e == Published(frame[t])
      <4>1. /\ e \in Entry /\ e.key = frame[t].key
            /\ \E m : /\ Store(m, e)
                      /\ m = entries \/ \E v \in Keys : m = [entries EXCEPT ![v] = NoObj]
        BY <1>1, <3>2, PublishStores DEF Present
      <4> HIDE DEF e
      <4>2. o \in {frame[t].key} \X Slots
        BY <1>1, <3>2, <4>1, Stored
      <4>3. o \in {k} \X Slots
        BY <1>1, <2>1 DEF Addressed
      <4> QED
        BY <4>2, <4>3
    <3>3. \/ heap'[o].lastHit \in {heap[o].lastHit, clock}
          \/ \E t \in Threads : /\ SetPublish(t) /\ o = NewObj(frame[t].key)
                                /\ heap'[o] = Published(frame[t])
      BY <1>1, <1>2, <3>1, UsageChange
    <3>4. heap'[o].lastHit = heap[o].lastHit => LastHitOf(k, h)
      BY <1>4, <2>1, <3>1 DEF LastHitOf
    <3> QED
      BY <1>3, <1>4, <3>1, <3>2, <3>3, <3>4
  <2> QED
    BY <1>1, <1>2, <1>3, <1>4, <2>1, EntryChange
<1>5. ASSUME NEW t \in Threads, frame'[t].pc = "insert", frame'[t].key = k,
             h = frame'[t].lastHit
      PROVE  LastHitOf(k, h)
  <2>1. CASE frame'[t] = frame[t]
    BY <1>5, <2>1 DEF LastHitOf, At
  <2>2. CASE SetCopied(t)
    BY <1>1, <1>5, <2>2 DEF SetCopied, SetCopy, At, Copying, TypeOK, LockOK, LastHitOf
  <2> QED
    BY <1>1, <1>5, <2>1, <2>2, FrameChange DEF SetLocked
<1> QED
  BY <1>4, <1>5 DEF LastHitOf, At

(* The same of what a snapshot holds.                                      *)
LEMMA SnapHit ==
  ASSUME StoreInv, serving, [CallerStep]_vars, NEW o \in Objs, o \in pins, o \in pins'
  PROVE  heap'[o].lastHit \in {heap[o].lastHit, clock}
<1>1. TypeOK /\ InstantOK /\ o \in Live' /\ o \in Held
  BY CacheAssumption DEF StoreInv, Live, Held
<1>2. \A e \in Rows : ~LoadEntry(e)
  BY DEF LoadEntry
<1>3. ASSUME NEW t \in Threads, SetPublish(t) PROVE o # NewObj(frame[t].key)
  <2> DEFINE e == Published(frame[t])
  <2>1. /\ e \in Entry /\ e.key = frame[t].key
        /\ \E m : /\ Store(m, e)
                  /\ m = entries \/ \E v \in Keys : m = [entries EXCEPT ![v] = NoObj]
    BY <1>1, <1>3, PublishStores DEF Present
  <2> HIDE DEF e
  <2> QED
    BY <1>1, <2>1, Stored
<1> QED
  BY <1>1, <1>2, <1>3, UsageChange

(* While the cycle has a snapshot, its entries and those of the map go     *)
(* apart only by uses of this tick.                                        *)
LEMMA SnapKept ==
  ASSUME PruneInv, serving, [CallerStep]_vars, UNCHANGED <<clock, pins>>,
         cycle'.snap = cycle.snap, SnapOK
  PROVE  /\ SnapOK' /\ Snapped' = Snapped
         /\ \A k \in Keys : \A h : LastHitOf(k, h)' => LastHitOf(k, h) \/ h = clock
<1>1. StoreInv /\ Snapped' = Snapped
  BY DEF PruneInv, Snapped
<1>2. \A k \in Keys : \A h : LastHitOf(k, h)' => LastHitOf(k, h) \/ h = clock
  BY <1>1, EntryHit
<1>3. \A k \in Snapped : SnapOf(k)'.lastHit \in {SnapOf(k).lastHit, clock}
  <2> SUFFICES ASSUME NEW k \in Snapped PROVE SnapOf(k)'.lastHit \in {SnapOf(k).lastHit, clock}
    OBVIOUS
  <2>1. cycle.snap[k] \in pins /\ cycle.snap[k] \in Objs
    BY DEF PruneInv, RefresherInv, RefresherTypeOK, Cycle, Snapped
  <2>2. heap'[cycle.snap[k]].lastHit \in {heap[cycle.snap[k]].lastHit, clock}
    BY <1>1, <2>1, SnapHit
  <2> QED
    BY <2>2 DEF SnapOf
<1>4. SnapOK'
  <2> SUFFICES ASSUME NEW k \in Snapped, NEW h, LastHitOf(k, h)'
               PROVE  h = SnapOf(k)'.lastHit \/ clock \in {h, SnapOf(k)'.lastHit}
    BY <1>1 DEF SnapOK
  <2>1. k \in Keys
    BY DEF Snapped
  <2>2. LastHitOf(k, h) \/ h = clock
    BY <1>2, <2>1
  <2>3. LastHitOf(k, h) => h = SnapOf(k).lastHit \/ clock \in {h, SnapOf(k).lastHit}
    BY DEF SnapOK
  <2> QED
    BY <1>3, <2>2, <2>3
<1> QED
  BY <1>1, <1>2, <1>4

LEMMA StoreStep ==
  ASSUME PruneInv, [PromptNext]_rvars, WholeRows
  PROVE  StoreInv'
<1>1. RefresherInv /\ TypeOK /\ Addressed /\ StartTime <= clock /\ InstantOK /\ UsageOK
  BY DEF PruneInv, StoreInv
<1>2. [CallerStep]_vars
  BY <1>1, RefresherCalls DEF PromptNext
<1>3. TypeOK' /\ Addressed'
  BY <1>1, <1>2, CallerType, CallerAddressed
<1>4. clock \in Nat /\ clock' \in Nat /\ StartTime \in Nat
  BY <1>1, <1>3, CacheAssumption DEF TypeOK, MapOK
<1>5. clock <= clock' /\ StartTime <= clock'
  <2>1. clock' \in {clock, clock + 1}
    BY <1>2, ClockChange DEF Tick
  <2> QED
    BY <1>1, <1>4, <2>1
<1>6. clock' # clock => Prompt
  BY DEF PromptNext, rvars, vars
<1>7. InstantOK'
  BY <1>1, <1>2, <1>3, <1>6, InstantStep DEF Prompt, Momentary
<1>8. UsageOK'
  BY <1>1, <1>2, <1>3, <1>5, UsageStep
<1> QED
  BY <1>3, <1>5, <1>7, <1>8 DEF StoreInv

(* pruneUnused, from its snapshot on.                                      *)
LEMMA PruneStep ==
  ASSUME PruneInv, [PromptNext]_rvars
  PROVE  PruneOK'
<1>1. RefresherInv /\ StoreInv /\ PruneOK /\ cycle \in Cycle /\ clock \in Nat
  BY DEF PruneInv, RefresherInv, RefresherTypeOK, TypeOK, MapOK
<1>2. [CallerStep]_vars
  BY <1>1, RefresherCalls DEF PromptNext
<1>3. serving => serving'
  BY <1>2, ClockChange
<1>4. \A k \in Snapped : SnapOf(k).lastHit \in Nat
  <2> SUFFICES ASSUME NEW k \in Snapped PROVE SnapOf(k).lastHit \in Nat
    OBVIOUS
  <2>1. cycle.snap[k] \in Live
    BY DEF PruneInv, RefresherInv, RefresherTypeOK, Snapped, Live
  <2> QED
    BY <1>1, <2>1, LiveUsage DEF SnapOf, StoreInv
<1>5. ASSUME UNCHANGED <<cycle, clock, pins>> PROVE PruneOK'
  <2> SUFFICES ASSUME cycle.pc \in {"now", "prune", "delete"}
               PROVE  PruneOK'
    BY <1>5 DEF PruneOK
  <2>1. /\ SnapOK' /\ Snapped' = Snapped /\ serving'
        /\ \A k \in Keys : \A h : LastHitOf(k, h)' => LastHitOf(k, h) \/ h = clock
    BY <1>1, <1>2, <1>3, <1>5, SnapKept DEF PruneOK
  <2>2. cycle.pc = "delete" => cycle.key \in Keys
    BY <1>1 DEF RefresherInv, CycleOK
  <2>3. \A k, h : k = cycle.key => (LastHitOf(k, h)' <=> LastHitOf(cycle.key, h)')
    BY <1>5
  <2>4. cycle.pc = "delete" =>
          \A h : LastHitOf(cycle.key, h)' => h = clock \/ LongUnused(h)
    BY <1>1, <2>1, <2>2, <2>3 DEF PruneOK
  <2> QED
    BY <1>1, <1>5, <2>1, <2>4 DEF PruneOK, LongUnused
<1>6. CASE RefresherTick
  <2>1. cycle'.pc = cycle.pc /\ cycle.pc \notin {"now", "prune", "delete"}
    BY <1>1, <1>6 DEF PromptNext, RefresherTick, Tick, Prompt, rvars, vars
  <2> QED
    BY <2>1 DEF PruneOK
<1>7. CASE BeginCycle
  <2>1. CASE Present = {}
    BY <1>5, <1>7, <2>1 DEF BeginCycle, vars
  <2>2. CASE Present # {}
    <3>1. /\ serving /\ UNCHANGED <<clock, serving, entries, heap>>
          /\ cycle'.pc = "now" /\ cycle'.snap = entries
      BY <1>1, <1>7, <2>2 DEF BeginCycle, Cycle
    <3>2. \A t \in Threads : ~At(t, "insert") /\ frame' = frame
      BY <1>7, <2>2 DEF BeginCycle, LockFree, Copying, At
    <3>4. \A k, h : LastHitOf(k, h)' => k \in Present' /\ h = EntryOf(k)'.lastHit
      BY <3>2 DEF LastHitOf, At
    <3>3. SnapOK'
      BY <3>1, <3>4 DEF SnapOK, Snapped, SnapOf, EntryOf
    <3> QED
      BY <3>1, <3>3 DEF PruneOK
  <2> QED
    BY <2>1, <2>2
<1>8. CASE PruneFailures
  <2>1. /\ cycle'.pc = "prune" /\ cycle'.snap = cycle.snap /\ cycle'.now = clock
        /\ cycle'.left = Snapped /\ cycle.pc = "now" /\ UNCHANGED <<clock, pins>>
    BY <1>1, <1>8 DEF PruneFailures, Cycle, vars
  <2>2. SnapOK' /\ Snapped' = Snapped /\ serving'
    BY <1>1, <1>2, <1>3, <2>1, SnapKept DEF PruneOK
  <2> QED
    BY <2>1, <2>2 DEF PruneOK
<1>9. ASSUME NEW k \in Keys, PruneLook(k) PROVE PruneOK'
  <2>1. /\ cycle'.pc = IF Unused(SnapOf(k), cycle.now) THEN "delete" ELSE "prune"
        /\ cycle'.snap = cycle.snap /\ cycle'.now = cycle.now /\ cycle'.key = k
        /\ cycle'.left = cycle.left \ {k} /\ cycle.pc = "prune" /\ k \in cycle.left
        /\ UNCHANGED <<clock, serving, entries, heap, frame, pins>>
    BY <1>1, <1>9 DEF PruneLook, Cycle, vars
  <2>2. serving /\ SnapOK /\ cycle.now = clock /\ k \in Snapped /\ cycle.left \subseteq Snapped
    BY <1>1, <2>1 DEF PruneOK
  <2>3. SnapOK' /\ Snapped' = Snapped
    BY <1>2, <2>1, <2>2, SnapKept
  <2>4. ASSUME Unused(SnapOf(k), clock), NEW h, LastHitOf(k, h)
        PROVE  h = clock \/ LongUnused(h)
    <3>1. KeepWindowDays * DayLen \in Nat
      BY RefresherAssumption, CacheAssumption, MaskBitsAssumption
    <3>2. h = SnapOf(k).lastHit \/ clock \in {h, SnapOf(k).lastHit}
      BY <2>2, <2>4 DEF SnapOK
    <3> QED
      BY <1>1, <1>4, <2>2, <2>4, <3>1, <3>2 DEF Unused, LongUnused
  <2>5. \A h : LastHitOf(k, h)' => LastHitOf(k, h)
    BY <2>1 DEF LastHitOf, Present, EntryOf, At
  <2>6. \A h : (cycle'.pc = "delete" /\ LastHitOf(k, h)') => h = clock \/ LongUnused(h)
    BY <2>1, <2>2, <2>4, <2>5
  <2>7. \A h : LastHitOf(k, h)' <=> LastHitOf(cycle.key, h)'
    BY <2>1 DEF LastHitOf, At
  <2> QED
    BY <2>1, <2>2, <2>3, <2>6, <2>7 DEF PruneOK, LongUnused
<1>10. CASE PruneDelete
  <2>1. /\ cycle'.pc = "prune" /\ cycle'.snap = cycle.snap /\ cycle'.now = cycle.now
        /\ cycle'.left = cycle.left /\ cycle.pc = "delete" /\ UNCHANGED <<clock, pins>>
    BY <1>1, <1>10 DEF PruneDelete, Delete, Cycle
  <2>2. SnapOK' /\ Snapped' = Snapped /\ serving'
    BY <1>1, <1>2, <1>3, <2>1, SnapKept DEF PruneOK
  <2> QED
    BY <1>1, <2>1, <2>2 DEF PruneOK
<1>11. CASE Select \/ Check \/ EndCycle \/ LeaveLoop \/ \E w \in Workers : Dispatch(w)
  <2>1. cycle'.pc \in {"check", "drain", "acquire", "wait", "left"}
    <3>1. ASSUME NEW q, cycle' = [Waiting EXCEPT !.pc = "check", !.todo = q]
          PROVE  cycle'.pc = "check"
      BY <3>1 DEF Waiting
    <3>2. Select => cycle'.pc = "check"
      BY <3>1 DEF Select
    <3>3. EndCycle => cycle'.pc = "wait"
      BY DEF EndCycle, Waiting
    <3>4. (Check \/ LeaveLoop \/ \E w \in Workers : Dispatch(w)) =>
             cycle'.pc \in {"check", "drain", "acquire", "left"}
      BY <1>1 DEF Check, LeaveLoop, Dispatch, Cycle
    <3> QED
      BY <1>11, <3>2, <3>3, <3>4
  <2> QED
    BY <2>1 DEF PruneOK
<1>12. CASE \/ Start \/ Stop \/ UNCHANGED rvars
            \/ \E w \in Workers : WorkerStep(w)
            \/ \E e \in Rows : LoadEntry(e) /\ UNCHANGED refresherVars
  BY <1>5, <1>12 DEF Start, StartServing, Stop, rvars, vars, refresherVars, WorkerStep,
     Answered, Failed, Succeeded, SetNow, Storing, SetLock, SetCopy, Refreshed, SetPublish,
     LoadEntry
<1>13. ASSUME NEW c \in Clients, ClientStep(c) PROVE PruneOK'
  <2>1. UNCHANGED <<cycle, clock, pins>>
    BY <1>1, <1>13, ClientAside DEF refresherVars
  <2> QED
    BY <1>5, <2>1
<1> QED
  BY <1>6, <1>7, <1>8, <1>9, <1>10, <1>11, <1>12, <1>13
     DEF PromptNext, RefresherNext, LoopStep

LEMMA InitPrune == RefresherInit => PruneInv
<1> SUFFICES ASSUME RefresherInit PROVE PruneInv
  OBVIOUS
<1>1. RefresherInv /\ Init /\ TypeOK /\ Addressed
  BY InitRefresher, InitType, InitAddressed DEF RefresherInit
<1>2. Live = {} /\ clock = StartTime /\ StartTime \in Nat /\ frame = [t \in Threads |-> Idle]
  BY <1>1, CacheAssumption DEF Init, Live, Idle
<1>3. InstantOK /\ UsageOK
  BY <1>2 DEF InstantOK, UsageOK, Idle, Momentary, InSet, At
<1>4. PruneOK
  BY DEF RefresherInit, Waiting, PruneOK
<1> QED
  BY <1>1, <1>2, <1>3, <1>4 DEF PruneInv, StoreInv

(* What an entry last used longer ago than the window has in the window is *)
(* a day that was copied, or the first one, when that is a long day.       *)
LEMMA ExcusedInTheWindow ==
  ASSUME NEW e \in Entry, e.used.day <= LatestDay(e), clock \in Nat, LongUnused(e.lastHit),
         NEW d \in DaysOf(e.used), InWindow(d, clock)
  PROVE  CopiedTorn(e, d) \/ FirstOfALongWindow(e, d, clock)
<1> DEFINE l == e.lastHit
           a == l + ZoneOffset(l)
           b == clock + ZoneOffset(clock)
           last == DayOf(l)
           today == DayOf(clock)
           stored == DayOf(e.storedAt)
<1>1. /\ l \in Nat /\ e.storedAt \in Nat /\ e.used.day \in Nat /\ d \in Int /\ d <= e.used.day
      /\ last \in Nat /\ today \in Nat /\ stored \in Nat
  BY DayType, MaskBitsAssumption DEF Entry, UsedDays, DaysOf
<1>2. /\ ZoneOffset(l) \in Nat /\ ZoneOffset(clock) \in Nat /\ a \in Nat /\ b \in Nat
      /\ DayLen \in Nat /\ KeepWindowDays \in Nat /\ KeepWindowDays >= 1
      /\ ZoneOffset(l) - ZoneOffset(clock) <= DayLen
      /\ DayLen * KeepWindowDays \in Nat
  BY <1>1, CacheAssumption, ZoneAssumption, RefresherAssumption, MaskBitsAssumption
     DEF ZoneOffset
<1>3. clock > l + DayLen * KeepWindowDays
  BY <1>1, <1>2 DEF LongUnused
<1>4. last = a \div DayLen /\ today = b \div DayLen
  BY DEF DayOf
<1>5. d <= last \/ d <= stored
  BY <1>1 DEF LatestDay, Larger
<1>6. today - KeepWindowDays < d
  BY DEF InWindow
<1>7. CASE ~ClocksBack(l, clock)
  <2>1. a + DayLen * KeepWindowDays <= b
    BY <1>1, <1>2, <1>3, <1>7 DEF ClocksBack
  <2>2. last + KeepWindowDays <= today
    BY <1>2, <1>4, <2>1, DaysApart
  <2> HIDE DEF last, today, stored
  <2>3. last < d
    BY <1>1, <1>2, <1>6, <2>2
  <2>4. last < d /\ d <= stored
    BY <1>1, <1>5, <2>3
  <2> QED
    BY <2>4 DEF CopiedTorn, last, stored
<1>8. CASE ClocksBack(l, clock)
  <2> DEFINE n == KeepWindowDays - 1
  <2>1. n \in Nat /\ DayLen * n = DayLen * KeepWindowDays - DayLen
    BY <1>2
  <2> HIDE DEF n
  <2>2. a + DayLen * n <= b
    BY <1>1, <1>2, <1>3, <2>1
  <2>3. last + n <= today
    BY <1>2, <1>4, <2>1, <2>2, DaysApart
  <2> HIDE DEF last, today, stored
  <2>4. last + KeepWindowDays - 1 <= today
    BY <1>1, <1>2, <2>3 DEF n
  <2>5. (last < d /\ d <= stored) \/ d = today - KeepWindowDays + 1
    BY <1>1, <1>2, <1>5, <1>6, <2>4
  <2> QED
    BY <1>8, <2>5 DEF CopiedTorn, FirstOfALongWindow, last, today, stored, l
<1> QED
  BY <1>7, <1>8

(* Whatever a Get, a GetStale or a Set does between the snapshot and the   *)
(* deletion, the copy of a last use that another Get is about to replace   *)
(* included, pruneUnused takes away no day of use that counts but for the  *)
(* three the property names.  It goes by the time of the last use, which   *)
(* Get writes, and Set copies, before the days; so the program has to be   *)
(* prompt, and the rows it has loaded whole.                               *)
THEOREM PruneSpares == WholeRows => (PromptSpec => PruneSparesTheHistory)
<1> DEFINE Spared ==
      \A k \in Present :
        (cycle.pc = "delete" /\ cycle'.pc = "prune" /\ cycle.key = k) =>
          LET e == EntryOf(k)
          IN  \/ e.lastHit = clock
              \/ \A d \in DaysOf(e.used) :
                   InWindow(d, clock) => CopiedTorn(e, d) \/ FirstOfALongWindow(e, d, clock)
<1> SUFFICES ASSUME WholeRows PROVE PromptSpec => PruneSparesTheHistory
  OBVIOUS
<1>1. PruneInv /\ [PromptNext]_rvars => PruneInv'
  BY StepRefresher, StoreStep, PruneStep DEF PruneInv, PromptNext
<1>2. PruneInv /\ [PromptNext]_rvars => [Spared]_rvars
  <2> SUFFICES ASSUME PruneInv, NEW k \in Present, cycle.pc = "delete", cycle.key = k,
                      EntryOf(k).lastHit # clock,
                      NEW d \in DaysOf(EntryOf(k).used), InWindow(d, clock)
               PROVE  CopiedTorn(EntryOf(k), d) \/ FirstOfALongWindow(EntryOf(k), d, clock)
    OBVIOUS
  <2>1. LongUnused(EntryOf(k).lastHit)
    BY DEF PruneInv, PruneOK, LastHitOf
  <2>2. entries[k] \in Live /\ EntryOf(k) = heap[entries[k]] /\ TypeOK /\ UsageOK
    BY DEF PruneInv, StoreInv, Present, Live, EntryOf
  <2>3. /\ EntryOf(k) \in Entry /\ clock \in Nat
        /\ EntryOf(k).used.day <= LatestDay(EntryOf(k))
    BY <2>2, LiveUsage DEF UsageOK
  <2> QED
    BY <2>1, <2>3, ExcusedInTheWindow
<1>3. PromptSpec => RefresherInit /\ [][PromptNext]_rvars
  BY DEF PromptSpec, PromptNext
<1> QED
  BY <1>1, <1>2, <1>3, InitPrune, PTL DEF PruneSparesTheHistory

----------------------------------------------------------------------------
(* The promise to the usual names, of the prompt program.                  *)

(* No row has a day of use in the future.                                  *)
RowsOfThePast == \A e \in Rows : e.used.day <= DayOf(StartTime)

(* KnownUsual as it was, or will be, at another time.                      *)
UsualUntil(e, t) ==
  \A d \in DayOf(e.storedAt) .. DayOf(t) :
    Cardinality({x \in DaysOf(e.used) : d - KeepWindowDays < x /\ x < d}) >= KeepMinDays

EndOfLife(e) == e.storedAt + Life(e)

Places == Cardinality(Workers)

(* The time of the tick the loop takes next.                               *)
NextTick == IF ticker.full THEN clock ELSE ticker.next

(* The places that are free by t at the latest.                            *)
Early(t) == {w \in Workers : worker[w].pc = "free" \/ worker[w].since + MaxRTT <= t}

(* The i-th name of the list has been refreshed by end: when the last      *)
(* m + 1 exchanges before end begin, as many of the places are free as the *)
(* names ahead of it need, less those that m rounds take.                  *)
Paced(i, end) ==
  \E m \in Nat : LET t == end - (m + 1) * MaxRTT
                 IN  clock <= t /\ i <= m * Places + Cardinality(Early(t))

(* A tick is taken in the instant in which it comes.                       *)
TickerOK ==
  /\ ticker.next <= clock + Interval
  /\ serving => clock < ticker.next
  /\ ~serving => ~ticker.full /\ cycle.pc \in {"wait", "left"}
  /\ ticker.full => ticker.next = clock + Interval /\ cycle.pc \in {"wait", "drain", "left"}
  /\ cycle.pc \in {"now", "prune", "delete"} => ticker.next = clock + Interval
  /\ cycle.pc \in {"prune", "delete"} => cycle.now = clock

(* Every exchange, and every cycle, ends before the next tick is due.      *)
ExchangeOK ==
  \A w \in Busy : /\ worker[w].since <= clock
                  /\ clock <= worker[w].since + MaxRTT
                  /\ worker[w].since + MaxRTT <= NextTick
                  /\ worker[w].pc = "set" => frame[w].key = worker[w].key

ListOK ==
  (cycle.pc \in {"check", "acquire"} /\ cycle.todo # <<>>) => Paced(Len(cycle.todo), NextTick)

(* Nothing in the store is of a later time.                                *)
PastOK ==
  \A o \in Live : heap[o].storedAt <= clock /\ heap[o].used.day <= DayOf(clock)

LoadedOK == ~serving => \A k \in Present : EntryOf(k).storedAt < StartTime

(* What the snapshot does not have has been stored since.                  *)
SnapFresh ==
  cycle.pc \in {"now", "prune", "delete"} =>
     \A k \in Present : entries[k] # cycle.snap[k] => EntryOf(k).storedAt = clock

(* The names the promise is about, and how it is going to be kept: by a    *)
(* worker, from the list, by the choice under way, or by the next cycle.   *)
Promised(k) ==
  EntryOf(k).storedAt >= StartTime /\ KnownUsual(EntryOf(k)) /\ Fits(EntryOf(k))

Expected(k) == ~stopping /\ ~Behind(k) /\ Promised(k)

ByWorker(k, end) ==
  \E w \in Workers : /\ worker[w].pc \in {"query", "answered"} /\ worker[w].key = k
                     /\ worker[w].since + MaxRTT <= end

OnList(k, end) ==
  /\ cycle.pc \in {"check", "acquire"}
  /\ \E i \in 1 .. Len(cycle.todo) : cycle.todo[i] = k /\ Paced(i, end)

InSnapshot(k, end) ==
  /\ cycle.pc \in {"now", "prune", "delete"}
  /\ entries[k] = cycle.snap[k] /\ clock + CycleTime <= end

InTime(k, end) ==
  \/ ByWorker(k, end) \/ OnList(k, end) \/ InSnapshot(k, end)
  \/ NextTick + CycleTime <= end

FreshOK ==
  \A k \in Present, end \in Nat :
    (Expected(k) /\ end = EndOfLife(EntryOf(k))) => InTime(k, end)

FreshStore ==
  /\ SizeInv /\ Addressed /\ StartTime <= clock
  /\ InstantOK /\ PastOK /\ LoadedOK

LoopOK == TickerOK /\ ExchangeOK /\ ListOK /\ SnapFresh

FreshInv == RefresherInv /\ FreshStore /\ LoopOK /\ FreshOK

----------------------------------------------------------------------------
(* The length of a cycle, and of its rounds.                               *)
LEMMA RoundsEnough ==
  /\ IsFiniteSet(Workers) /\ Places \in Nat /\ Places >= 1
  /\ Rounds \in Nat /\ Rounds >= 1 /\ Rounds * Places >= MaxDue
  /\ MaxRTT \in Nat /\ CycleTime \in Nat /\ CycleTime >= MaxRTT
<1>1. IsFiniteSet(Workers) /\ Places \in Nat /\ Places >= 1
  BY RefresherAssumption, FS_CardinalityType, FS_EmptySet DEF Places
<1>2. MaxDue \in Nat /\ MaxDue >= 1 /\ MaxRTT \in Nat
  BY RefresherAssumption
<1>3. /\ Rounds \in Nat
      /\ MaxDue + Places - 1 < Places * Rounds + Places
  BY <1>1, <1>2 DEF Rounds, Places
<1>4. Rounds * Places >= MaxDue /\ Rounds * Places = Places * Rounds /\ Places * Rounds \in Nat
  BY <1>1, <1>2, <1>3
<1>5. Rounds # 0
  BY <1>1, <1>2, <1>4
<1>6. Rounds >= 1
  BY <1>3, <1>5
<1>7. Rounds * MaxRTT \in Nat /\ Rounds * MaxRTT >= MaxRTT
  BY <1>2, <1>3, <1>6
<1> QED
  BY <1>1, <1>2, <1>3, <1>4, <1>6, <1>7 DEF CycleTime

(* A word stands for finitely many days.                                   *)
LEMMA DaysFinite ==
  ASSUME NEW u \in UsedDays
  PROVE  IsFiniteSet(DaysOf(u))
<1>1. u.day \in Nat /\ u.mask \subseteq 0 .. MaskBits - 1 /\ MaskBits \in Nat
  BY MaskBitsAssumption DEF UsedDays
<1> DEFINE S == u.day - MaskBits .. u.day
<1>2. IsFiniteSet(S)
  BY <1>1, FS_Interval
<1>3. DaysOf(u) \subseteq S
  BY <1>1 DEF DaysOf
<1> QED
  BY <1>2, <1>3, FS_Subset

(* What is known of an entry was known of it before: a use only adds the   *)
(* day on which it happens, and may push days out.                         *)
LEMMA UsualBefore ==
  ASSUME NEW e \in Entry, NEW f \in Entry, NEW t \in Nat, NEW u \in Nat, t <= u,
         f.storedAt = e.storedAt, f.used \in {e.used, Marked(e.used, DayOf(t))},
         UsualUntil(f, u)
  PROVE  UsualUntil(e, t)
<1>1. /\ e.storedAt \in Nat /\ e.used \in UsedDays /\ e.used.day \in Nat
      /\ DayOf(t) \in Nat /\ DayOf(u) \in Nat /\ DayOf(t) <= DayOf(u)
      /\ DayOf(e.storedAt) \in Nat /\ KeepWindowDays \in Nat /\ KeepMinDays \in Nat
      /\ e.used.mask \subseteq 0 .. MaskBits - 1
  BY DayType, DayMonotone, RefresherAssumption, MaskBitsAssumption DEF Entry, UsedDays
<1>2. IsFiniteSet(DaysOf(e.used))
  BY <1>1, DaysFinite
<1> SUFFICES ASSUME NEW d \in DayOf(e.storedAt) .. DayOf(t)
             PROVE  Cardinality({x \in DaysOf(e.used) : d - KeepWindowDays < x /\ x < d})
                      >= KeepMinDays
  BY DEF UsualUntil
<1> DEFINE S == {x \in DaysOf(e.used) : d - KeepWindowDays < x /\ x < d}
           T == {x \in DaysOf(f.used) : d - KeepWindowDays < x /\ x < d}
<1>3. Cardinality(T) >= KeepMinDays
  BY <1>1 DEF UsualUntil
<1>4. T \subseteq S
  <2> SUFFICES ASSUME NEW x \in T PROVE x \in DaysOf(e.used)
    OBVIOUS
  <2>1. CASE f.used = e.used
    BY <2>1
  <2>2. CASE f.used = Marked(e.used, DayOf(t))
    <3> DEFINE top == IF DayOf(t) > e.used.day THEN DayOf(t) ELSE e.used.day
    <3>1. x \in DaysOf(e.used) \cup {top}
      BY <1>1, <2>2, MarkedRemembers DEF Remembered
    <3>2. x # top
      BY <1>1
    <3> QED
      BY <3>1, <3>2
  <2> QED
    BY <2>1, <2>2
<1>5. IsFiniteSet(S) /\ Cardinality(T) <= Cardinality(S)
  <2>1. IsFiniteSet(S)
    BY <1>2, FS_Subset
  <2> QED
    BY <1>4, <2>1, FS_Subset
<1>6. Cardinality(S) \in Nat /\ Cardinality(T) \in Nat
  BY <1>4, <1>5, FS_Subset, FS_CardinalityType
<1> QED
  BY <1>1, <1>3, <1>5, <1>6

(* A name that is known to be usual now is usual for the choice.           *)
LEMMA UsualForTheChoice ==
  ASSUME NEW e \in Entry, NEW t \in Nat, e.storedAt <= t, e.used.day <= DayOf(t),
         UsualUntil(e, t)
  PROVE  Usual(e, t)
<1>1. /\ e.storedAt \in Nat /\ e.used \in UsedDays /\ e.used.day \in Nat
      /\ DayOf(t) \in Nat /\ DayOf(e.storedAt) \in Nat /\ DayOf(e.storedAt) <= DayOf(t)
      /\ KeepWindowDays \in Nat /\ KeepMinDays \in Nat
      /\ e.used.mask \subseteq 0 .. MaskBits - 1
  BY DayType, DayMonotone, RefresherAssumption, MaskBitsAssumption DEF Entry, UsedDays
<1> DEFINE d == DayOf(t)
           S == {x \in DaysOf(e.used) : d - KeepWindowDays < x /\ x < d}
           T == {x \in DaysOf(e.used) : x > d - KeepWindowDays}
<1>2. IsFiniteSet(DaysOf(e.used))
  BY <1>1, DaysFinite
<1>3. \A x \in DaysOf(e.used) : x \in Int
  BY <1>1, MaskBitsAssumption DEF DaysOf
<1>4. Cardinality(S) >= KeepMinDays
  BY <1>1 DEF UsualUntil
<1>5. IsFiniteSet(T) /\ S \subseteq T
  BY <1>1, <1>2, <1>3, FS_Subset
<1>6. /\ Cardinality(S) <= Cardinality(T)
      /\ Cardinality(S) \in Nat /\ Cardinality(T) \in Nat
  BY <1>5, FS_Subset, FS_CardinalityType
<1>7. DaysUsed(e.used, d, KeepWindowDays) = Cardinality(T)
  <2> DEFINE top == IF d > e.used.day THEN d ELSE e.used.day
  <2>1. top = d
    BY <1>1
  <2>2. DaysUsed(e.used, d, KeepWindowDays)
          = Cardinality({x \in DaysOf(e.used) : x > top - KeepWindowDays})
    BY <1>1, DaysUsedCounts
  <2> QED
    BY <2>1, <2>2
<1> QED
  BY <1>1, <1>4, <1>6, <1>7 DEF Usual

----------------------------------------------------------------------------
(* How a list goes on.                                                     *)
LEMMA EarlyCount ==
  ASSUME NEW t
  PROVE  /\ IsFiniteSet(Early(t)) /\ Cardinality(Early(t)) \in Nat
         /\ Cardinality(Early(t)) <= Places
BY RoundsEnough, FS_Subset, FS_CardinalityType DEF Early, Places

(* At the beginning all places are free.                                   *)
LEMMA PacedAtFirst ==
  ASSUME clock \in Nat, NEW i \in Nat, NEW end \in Nat, Busy = {},
         i <= MaxDue, clock + CycleTime <= end
  PROVE  Paced(i, end)
<1> DEFINE t == end - Rounds * MaxRTT
           m == Rounds - 1
<1>1. m \in Nat /\ m + 1 = Rounds /\ m * Places + Places = Rounds * Places
  BY RoundsEnough
<1>2. clock <= t
  BY RoundsEnough DEF CycleTime
<1>3. Early(t) = Workers
  BY DEF Early, Busy
<1>4. m * Places \in Nat /\ i <= m * Places + Cardinality(Early(t))
  <2>1. MaxDue \in Nat /\ m * Places \in Nat /\ Cardinality(Early(t)) = Places
    BY <1>1, <1>3, RoundsEnough, RefresherAssumption DEF Places
  <2>2. i <= m * Places + Places
    BY <1>1, <2>1, RoundsEnough
  <2> QED
    BY <2>1, <2>2
<1> HIDE DEF m
<1>5. t = end - (m + 1) * MaxRTT
  BY <1>1
<1> QED
  BY <1>1, <1>2, <1>4, <1>5 DEF Paced

(* There is time for an exchange that begins now.                          *)
LEMMA PacedNow ==
  ASSUME clock \in Nat, NEW i \in Nat, NEW end \in Nat, Paced(i, end)
  PROVE  clock + MaxRTT <= end
<1>1. PICK m \in Nat : clock <= end - (m + 1) * MaxRTT
  BY DEF Paced
<1>2. (m + 1) * MaxRTT = m * MaxRTT + MaxRTT /\ m * MaxRTT \in Nat /\ MaxRTT \in Nat
  BY RoundsEnough
<1> QED
  BY <1>1, <1>2

(* A tick passes only while every place waits for an exchange; the places  *)
(* are then free again by the end of a round that begins now.              *)
LEMMA PacedTick ==
  ASSUME clock \in Nat, clock' = clock + 1, UNCHANGED worker,
         worker \in [Workers -> Worker],
         \A w \in Workers : /\ worker[w].pc = "query" /\ worker[w].since <= clock
                            /\ clock < worker[w].since + MaxRTT,
         NEW i \in Nat, i >= 1, NEW end \in Nat, Paced(i, end)
  PROVE  Paced(i, end)'
<1>1. PICK m \in Nat : LET t == end - (m + 1) * MaxRTT
                       IN  clock <= t /\ i <= m * Places + Cardinality(Early(t))
  BY DEF Paced
<1> DEFINE t == end - (m + 1) * MaxRTT
<1>2. /\ t \in Int /\ clock <= t /\ i <= m * Places + Cardinality(Early(t))
      /\ Places \in Nat /\ MaxRTT \in Nat /\ m * Places \in Nat
      /\ \A w \in Workers : worker[w].since \in Nat
  BY <1>1, RoundsEnough DEF Worker
<1>3. CASE clock' <= t
  <2>1. Early(t)' = Early(t)
    BY DEF Early
  <2> QED
    BY <1>2, <1>3, <2>1 DEF Paced, Places
<1>4. CASE clock = t
  <2>1. Early(t) = {}
    BY <1>2, <1>4 DEF Early
  <2>2. i <= m * Places
    BY <1>2, <2>1, FS_EmptySet
  <2>3. m # 0
    BY <1>2, <2>2
  <2> DEFINE n == m - 1
             v == end - (n + 1) * MaxRTT
  <2>4. n \in Nat /\ m = n + 1 /\ m * Places = n * Places + Places /\ n * Places \in Nat
    BY <1>2, <2>3
  <2>5. (m + 1) * MaxRTT = (n + 1) * MaxRTT + MaxRTT
    BY <1>2, <2>4
  <2>6. v = t + MaxRTT /\ v \in Int
    BY <1>2, <2>4, <2>5
  <2>7. PICK w \in Workers : TRUE
    BY RefresherAssumption
  <2>8. clock' <= v
    BY <1>2, <1>4, <2>6, <2>7
  <2>9. Early(v)' = Workers
    BY <1>2, <1>4, <2>6 DEF Early
  <2>10. i <= n * Places + Cardinality(Early(v)')
    BY <2>2, <2>4, <2>9 DEF Places
  <2> HIDE DEF n
  <2> QED
    BY <2>4, <2>8, <2>10 DEF Paced, Places
<1>5. clock' <= t \/ clock = t
  BY <1>2
<1> QED
  BY <1>3, <1>4, <1>5

(* A worker that goes on or becomes free takes no place.                   *)
LEMMA PacedOn ==
  ASSUME UNCHANGED clock,
         \A w \in Workers : \/ worker'[w].pc = "free"
                            \/ worker[w].pc # "free" /\ worker'[w].since = worker[w].since,
         NEW i \in Nat, NEW end \in Nat, Paced(i, end)
  PROVE  Paced(i, end)'
<1>1. PICK m \in Nat : LET t == end - (m + 1) * MaxRTT
                       IN  clock <= t /\ i <= m * Places + Cardinality(Early(t))
  BY DEF Paced
<1> DEFINE t == end - (m + 1) * MaxRTT
           A == Early(t)
           B == Early(t)'
<1>2. A \subseteq B /\ B \subseteq Workers
  BY DEF Early
<1>3. IsFiniteSet(B) /\ Cardinality(A) <= Cardinality(B)
  BY <1>2, RoundsEnough, FS_Subset
<1>4. Cardinality(A) \in Nat /\ Cardinality(B) \in Nat /\ m * Places \in Nat
  BY <1>2, <1>3, RoundsEnough, FS_Subset, FS_CardinalityType
<1>5. i <= m * Places + Cardinality(B)
  BY <1>1, <1>3, <1>4
<1> QED
  BY <1>1, <1>5 DEF Paced, Places

(* A worker that begins takes a place, and a name off the list.            *)
LEMMA PacedNext ==
  ASSUME UNCHANGED clock, NEW w \in Workers,
         \A v \in Workers \ {w} : worker'[v] = worker[v],
         NEW i \in Nat, NEW end \in Nat, Paced(i + 1, end)
  PROVE  Paced(i, end)'
<1>1. PICK m \in Nat : LET t == end - (m + 1) * MaxRTT
                       IN  clock <= t /\ i + 1 <= m * Places + Cardinality(Early(t))
  BY DEF Paced
<1> DEFINE t == end - (m + 1) * MaxRTT
           A == Early(t)
           B == Early(t)'
<1>2. A \subseteq B \cup {w} /\ B \subseteq Workers /\ A \subseteq Workers
  BY DEF Early
<1>3. IsFiniteSet(A) /\ IsFiniteSet(B) /\ IsFiniteSet(B \cup {w})
  BY <1>2, RoundsEnough, FS_Subset
<1>4. /\ Cardinality(A) \in Nat /\ Cardinality(B) \in Nat /\ m * Places \in Nat
      /\ Cardinality(B \cup {w}) \in Nat /\ Cardinality(B \cup {w}) <= Cardinality(B) + 1
  <2>1. Cardinality(A) \in Nat /\ Cardinality(B) \in Nat /\ m * Places \in Nat
    BY <1>3, RoundsEnough, FS_CardinalityType
  <2> HIDE DEF B
  <2>2. Cardinality(B \cup {w}) = IF w \in B THEN Cardinality(B) ELSE Cardinality(B) + 1
    BY <1>3, FS_AddElement
  <2> QED
    BY <2>1, <2>2
<1>5. Cardinality(A) <= Cardinality(B \cup {w})
  BY <1>2, <1>3, FS_Subset
<1>6. i <= m * Places + Cardinality(B)
  BY <1>1, <1>4, <1>5
<1> QED
  BY <1>1, <1>6 DEF Paced, Places

----------------------------------------------------------------------------
(* The store, under a prompt scheduler.                                    *)
LEMMA PublishedNow ==
  ASSUME InstantOK, NEW t \in Threads, SetPublish(t)
  PROVE  Published(frame[t]).storedAt = clock
<1>1. frame[t].time = clock
  BY DEF SetPublish, At, InstantOK, Momentary, InSet
<1> DEFINE n == NewEntry(frame[t].key, frame[t].resp, frame[t].time)
<1>2. n.storedAt = clock
  BY <1>1 DEF NewEntry
<1>3. CASE frame[t].key \in Present
  BY <1>1, <1>3 DEF Published, NewEntry
<1>4. CASE frame[t].key \notin Present
  BY <1>2, <1>4 DEF Published
<1> QED
  BY <1>3, <1>4

(* The entry of a name stays what it is but for a use of this tick, or is  *)
(* stored now, or loaded.                                                  *)
Kept(k) ==
  /\ k \in Present /\ entries'[k] = entries[k]
  /\ EntryOf(k)'.storedAt = EntryOf(k).storedAt
  /\ EntryOf(k)'.ttl = EntryOf(k).ttl
  /\ EntryOf(k)'.used \in {EntryOf(k).used, Marked(EntryOf(k).used, DayOf(clock))}

LEMMA EntryFate ==
  ASSUME TypeOK, Addressed, InstantOK, [CallerStep]_vars, NEW k \in Present'
  PROVE  \/ Kept(k)
         \/ \E t \in Threads : SetPublish(t) /\ EntryOf(k)'.storedAt = clock
         \/ \E e \in Rows : LoadEntry(e) /\ EntryOf(k)'.storedAt < StartTime
<1>1. \A t \in Threads : SetPublish(t) => Published(frame[t]).storedAt = clock
  BY PublishedNow
<1>2. CASE k \in Present /\ entries'[k] = entries[k] /\ SameAnswer(entries[k])
  <2> DEFINE o == entries[k]
  <2>1. o \in Live' /\ EntryOf(k)' = heap'[o] /\ EntryOf(k) = heap[o]
    BY <1>2 DEF Present, Live, EntryOf
  <2>2. heap'[o].storedAt = heap[o].storedAt /\ heap'[o].ttl = heap[o].ttl
    BY <1>2 DEF SameAnswer
  <2>3. CASE heap'[o].used \in {heap[o].used, Marked(heap[o].used, DayOf(clock))}
    BY <1>2, <2>1, <2>2, <2>3 DEF Kept
  <2>4. ASSUME NEW e \in Rows, LoadEntry(e), heap'[o] = e
        PROVE  EntryOf(k)'.storedAt < StartTime
    BY <2>1, <2>4, CacheAssumption
  <2>5. ASSUME NEW t \in Threads, SetPublish(t), heap'[o] = Published(frame[t])
        PROVE  EntryOf(k)'.storedAt = clock
    BY <1>1, <2>1, <2>5
  <2>6. \/ heap'[o].used \in {heap[o].used, Marked(heap[o].used, DayOf(clock))}
        \/ \E e \in Rows : LoadEntry(e) /\ heap'[o] = e
        \/ \E t \in Threads : SetPublish(t) /\ heap'[o] = Published(frame[t])
    BY <2>1, UsageChange
  <2> QED
    BY <2>3, <2>4, <2>5, <2>6
<1>3. ASSUME NEW e \in Rows, LoadEntry(e), EntryOf(k)' = e
      PROVE  EntryOf(k)'.storedAt < StartTime
  BY <1>3, CacheAssumption
<1>4. ASSUME NEW t \in Threads, SetPublish(t), EntryOf(k)' = Published(frame[t])
      PROVE  EntryOf(k)'.storedAt = clock
  BY <1>1, <1>4
<1> QED
  BY <1>2, <1>3, <1>4, EntryChange

LEMMA PastStep ==
  ASSUME TypeOK, TypeOK', InstantOK, PastOK, [CallerStep]_vars,
         StartTime <= clock, clock <= clock', RowsOfThePast
  PROVE  PastOK'
<1> SUFFICES ASSUME NEW o \in Live'
             PROVE  /\ heap'[o].storedAt <= clock'
                    /\ heap'[o].used.day <= DayOf(clock')
  BY DEF PastOK, DayOf
<1>1. /\ clock \in Nat /\ clock' \in Nat /\ StartTime \in Nat
      /\ heap'[o].storedAt \in Nat /\ heap'[o].used.day \in Nat
      /\ DayOf(clock) \in Nat /\ DayOf(clock') \in Nat /\ DayOf(clock) <= DayOf(clock')
      /\ DayOf(StartTime) \in Nat /\ DayOf(StartTime) <= DayOf(clock)
  BY CacheAssumption, DayType, DayMonotone DEF TypeOK, MapOK, HeapOK, Entry, UsedDays
<1>2. \A p \in Live : /\ heap[p].storedAt \in Nat /\ heap[p].used.day \in Nat
                      /\ heap[p].used \in UsedDays
                      /\ heap[p].storedAt <= clock
                      /\ heap[p].used.day <= DayOf(clock)
  BY DEF PastOK, TypeOK, HeapOK, Entry, UsedDays
<1>3. ASSUME NEW e \in Rows, heap'[o] = e
      PROVE  heap'[o].storedAt <= clock' /\ heap'[o].used.day <= DayOf(clock')
  BY <1>1, <1>3, CacheAssumption DEF RowsOfThePast
<1>4. ASSUME NEW t \in Threads, SetPublish(t), heap'[o] = Published(frame[t])
      PROVE  heap'[o].storedAt <= clock' /\ heap'[o].used.day <= DayOf(clock')
  <2>1. heap'[o].storedAt = clock
    BY <1>4, PublishedNow
  <2>2. \A k \in Present : entries[k] \in Live /\ EntryOf(k) = heap[entries[k]]
    BY DEF Present, Live, EntryOf
  <2>3. heap'[o].used.day <= DayOf(clock)
    BY <1>1, <1>2, <1>4, <2>2, PublishedUsage
  <2> QED
    BY <1>1, <2>1, <2>3
<1>5. CASE SameObject(o)
  BY <1>1, <1>2, <1>5 DEF SameObject
<1>6. ASSUME NEW t \in Threads, WorksOn(t, o)
      PROVE  heap'[o].storedAt <= clock' /\ heap'[o].used.day <= DayOf(clock')
  <2>1. o \in Live /\ heap'[o].storedAt = heap[o].storedAt
    BY <1>6, WorkChange DEF SameAnswer
  <2>2. \/ heap'[o].used = heap[o].used
        \/ GetMark(t) /\ heap'[o].used = Marked(heap[o].used, DayOf(frame[t].time))
    BY <1>6, WorkChange
  <2>3. GetMark(t) => frame[t].time = clock
    BY DEF GetMark, At, InstantOK, Momentary
  <2>4. heap'[o].used.day \in {heap[o].used.day, DayOf(clock)}
    BY <1>1, <1>2, <2>1, <2>2, <2>3, MarkedDay
  <2> QED
    BY <1>1, <1>2, <2>1, <2>4
<1> QED
  BY <1>3, <1>4, <1>5, <1>6, ObjectChange

LEMMA FreshStoreStep ==
  ASSUME RefresherInv, FreshStore, [PromptNext]_rvars, RowsOfThePast
  PROVE  FreshStore'
<1>1. /\ TypeOK /\ SizeInv /\ Addressed /\ StartTime <= clock /\ InstantOK /\ PastOK
      /\ LoadedOK /\ Loading
  BY DEF RefresherInv, RefresherTypeOK, FreshStore, SizeInv
<1>2. [CallerStep]_vars
  BY RefresherCalls DEF PromptNext
<1>3. TypeOK' /\ Addressed' /\ SizeInv'
  BY <1>1, <1>2, CallerType, CallerAddressed, CallerSize
<1>4. clock \in Nat /\ clock' \in Nat /\ StartTime \in Nat
  BY <1>1, <1>3, CacheAssumption DEF TypeOK, MapOK
<1>5. clock <= clock' /\ StartTime <= clock' /\ (serving => serving')
  <2>1. clock' \in {clock, clock + 1}
    BY <1>2, ClockChange DEF Tick
  <2>2. clock <= clock' /\ StartTime <= clock'
    BY <1>1, <1>4, <2>1
  <2>3. serving => serving'
    BY <1>2, ClockChange
  <2> QED
    BY <2>2, <2>3
<1>6. clock' # clock => Prompt
  BY DEF PromptNext, rvars, vars
<1>7. InstantOK'
  BY <1>1, <1>2, <1>3, <1>6, InstantStep DEF Prompt, Momentary
<1>8. PastOK'
  BY <1>1, <1>2, <1>3, <1>5, PastStep
<1>9. LoadedOK'
  <2> SUFFICES ASSUME ~serving', NEW k \in Present' PROVE EntryOf(k)'.storedAt < StartTime
    BY DEF LoadedOK
  <2>1. ~serving
    BY <1>5
  <2>2. \A t \in Threads : ~SetPublish(t)
    BY <1>1, <2>1 DEF Loading, SetPublish, At, InSet
  <2>3. Kept(k) => EntryOf(k)'.storedAt < StartTime
    BY <1>1, <2>1 DEF Kept, LoadedOK
  <2> QED
    BY <1>1, <1>2, <2>2, <2>3, EntryFate
<1> QED
  BY <1>3, <1>5, <1>7, <1>8, <1>9 DEF FreshStore

----------------------------------------------------------------------------
(* The loop and its workers, under a prompt scheduler.                     *)
LEMMA LoopTypes ==
  ASSUME RefresherInv
  PROVE  /\ clock \in Nat /\ ticker \in [next : Nat, full : BOOLEAN]
         /\ NextTick \in Nat
         /\ cycle \in Cycle /\ cycle.todo \in Seq(Keys) /\ Len(cycle.todo) \in Nat
         /\ worker \in [Workers -> Worker] /\ \A w \in Workers : worker[w].since \in Nat
         /\ Interval \in Nat /\ Interval >= 1 /\ TypeOK
<1>1. /\ clock \in Nat /\ ticker \in [next : Nat, full : BOOLEAN] /\ cycle \in Cycle
      /\ worker \in [Workers -> Worker] /\ TypeOK
  BY DEF RefresherInv, RefresherTypeOK, TypeOK, MapOK
<1>2. NextTick \in Nat
  BY <1>1 DEF NextTick
<1>3. cycle.todo \in Seq(Keys) /\ Len(cycle.todo) \in Nat
  BY <1>1 DEF Cycle
<1>4. \A w \in Workers : worker[w].since \in Nat
  BY <1>1 DEF Worker
<1> QED
  BY <1>1, <1>2, <1>3, <1>4, RefresherAssumption

LEMMA LifeType ==
  ASSUME NEW e \in Entry
  PROVE  e.storedAt \in Nat /\ Life(e) \in Nat /\ EndOfLife(e) \in Nat
<1>1. e.storedAt \in Nat /\ e.ttl \in Nat /\ MaxAge \in Nat
  BY CacheAssumption DEF Entry
<1>2. Life(e) \in Nat
  BY <1>1 DEF Life, Larger
<1> QED
  BY <1>1, <1>2 DEF EndOfLife

(* What is stored at t can wait for the next tick, whenever that comes.    *)
LEMMA StoredInTime ==
  ASSUME NEW e \in Entry, NEW t \in Nat, NEW n \in Nat, n <= t + Interval,
         e.storedAt = t, Fits(e)
  PROVE  n + CycleTime <= EndOfLife(e)
<1>1. Life(e) >= Interval + CycleTime
  BY DEF Fits
<1> QED
  BY <1>1, LifeType, RoundsEnough, RefresherAssumption DEF EndOfLife

LEMMA TickType ==
  ASSUME RefresherInv, TickerOK
  PROVE  NextTick <= clock + Interval /\ (serving => clock <= NextTick)
BY LoopTypes DEF TickerOK, NextTick

(* It is enough to look at the entries that stay what they are.            *)
LEMMA FreshFromKept ==
  ASSUME FreshInv, RefresherInv', FreshStore', TickerOK', [CallerStep]_vars, clock <= clock',
         \A k \in Present', end \in Nat :
           (Expected(k)' /\ Kept(k) /\ Promised(k) /\ end = EndOfLife(EntryOf(k)))
              => InTime(k, end)'
  PROVE  FreshOK'
<1> SUFFICES ASSUME NEW k \in Present', NEW end \in Nat, Expected(k)',
                    end = EndOfLife(EntryOf(k)')
             PROVE  InTime(k, end)'
  BY DEF FreshOK, EndOfLife, Life, EntryOf
<1>1. /\ TypeOK /\ TypeOK' /\ Addressed /\ InstantOK /\ StartTime \in Nat
      /\ clock \in Nat /\ clock' \in Nat
  BY CacheAssumption DEF FreshInv, FreshStore, RefresherInv, RefresherTypeOK, TypeOK, MapOK
<1>2. EntryOf(k)' \in Entry
  <2>1. entries'[k] \in Live'
    BY DEF Present, Live
  <2> QED
    BY <1>1, <2>1 DEF TypeOK, HeapOK, EntryOf
<1>3. /\ EntryOf(k)'.storedAt >= StartTime /\ Fits(EntryOf(k)')
      /\ UsualUntil(EntryOf(k)', clock')
  BY DEF Expected, Promised, KnownUsual, UsualUntil, Fits, Life, EntryOf
<1>4. CASE Kept(k)
  <2>1. EntryOf(k) \in Entry
    <3>1. entries[k] \in Live
      BY <1>4 DEF Kept, Present, Live
    <3> QED
      BY <1>1, <3>1 DEF TypeOK, HeapOK, EntryOf
  <2>2. UsualUntil(EntryOf(k), clock)
    BY <1>1, <1>2, <1>3, <1>4, <2>1, UsualBefore DEF Kept
  <2>3. Promised(k)
    BY <1>3, <1>4, <2>2 DEF Promised, Kept, KnownUsual, UsualUntil, Fits, Life
  <2>4. end = EndOfLife(EntryOf(k))
    BY <1>4 DEF Kept, EndOfLife, Life
  <2> QED
    BY <1>4, <2>3, <2>4
<1>5. CASE \E t \in Threads : SetPublish(t) /\ EntryOf(k)'.storedAt = clock
  <2>1. clock' = clock
    BY <1>5 DEF SetPublish
  <2>2. ticker'.next \in Nat /\ NextTick' \in Nat /\ Interval \in Nat
        /\ NextTick' <= clock' + Interval
    BY <1>1, RefresherAssumption DEF RefresherInv, RefresherTypeOK, TickerOK, NextTick
  <2>3. NextTick' + CycleTime <= end
    BY <1>1, <1>2, <1>3, <1>5, <2>1, <2>2, StoredInTime
  <2> QED
    BY <2>3 DEF InTime
<1>6. CASE EntryOf(k)'.storedAt < StartTime
  BY <1>1, <1>2, <1>3, <1>6, LifeType
<1> QED
  BY <1>1, <1>4, <1>5, <1>6, EntryFate DEF FreshInv

(* While the cycle has its snapshot.                                       *)
LEMMA SnapFreshStep ==
  ASSUME FreshInv, [CallerStep]_vars, clock' = clock, cycle'.snap = cycle.snap,
         cycle.pc \in {"now", "prune", "delete"}
  PROVE  SnapFresh'
<1> SUFFICES ASSUME NEW k \in Present', entries'[k] # cycle.snap[k]
             PROVE  EntryOf(k)'.storedAt = clock
  BY DEF SnapFresh
<1>1. TypeOK /\ Addressed /\ InstantOK /\ serving
  BY DEF FreshInv, FreshStore, RefresherInv, RefresherTypeOK, LoopOK, TickerOK
<1>2. CASE Kept(k)
  BY <1>2 DEF Kept, FreshInv, LoopOK, SnapFresh
<1>3. \A e \in Rows : ~LoadEntry(e)
  BY <1>1 DEF LoadEntry
<1> QED
  BY <1>1, <1>2, <1>3, EntryFate

LEMMA WasInTime ==
  ASSUME FreshInv, NEW k, NEW end \in Nat, Kept(k), Promised(k), end = EndOfLife(EntryOf(k)),
         ~stopping, ~Behind(k)
  PROVE  InTime(k, end)
BY DEF FreshInv, FreshOK, Expected, Kept

(* What the loop and its workers do not take part in.                      *)
LEMMA ElsewhereFresh ==
  ASSUME FreshInv, RefresherInv', FreshStore', [CallerStep]_vars,
         UNCHANGED <<clock, serving, ticker, cycle, failures, worker>>,
         \A w \in Workers : frame'[w] = frame[w], stopping => stopping'
  PROVE  LoopOK' /\ FreshOK'
<1>1. LoopOK /\ clock <= clock'
  BY LoopTypes DEF FreshInv
<1>2. /\ NextTick' = NextTick /\ Busy' = Busy
      /\ \A i, end : Paced(i, end) => Paced(i, end)'
  BY DEF NextTick, Busy, Paced, Early
<1>3. TickerOK'
  BY <1>1 DEF LoopOK, TickerOK
<1>4. ExchangeOK'
  BY <1>1, <1>2 DEF LoopOK, ExchangeOK, Busy
<1>5. ListOK'
  BY <1>1, <1>2 DEF LoopOK, ListOK
<1>6. SnapFresh'
  BY SnapFreshStep DEF SnapFresh
<1>7. FreshOK'
  <2> SUFFICES ASSUME NEW k \in Present', NEW end \in Nat, Expected(k)', Kept(k), Promised(k),
                      end = EndOfLife(EntryOf(k))
               PROVE  InTime(k, end)'
    BY <1>1, <1>3, FreshFromKept
  <2>1. ~stopping /\ ~Behind(k)
    BY DEF Expected, Behind
  <2>2. InTime(k, end)
    BY <2>1, WasInTime
  <2>3. entries'[k] = entries[k]
    BY DEF Kept
  <2> QED
    BY <1>2, <2>2, <2>3 DEF InTime, ByWorker, OnList, InSnapshot
<1> QED
  BY <1>3, <1>4, <1>5, <1>6, <1>7 DEF LoopOK

(* A tick passes while the loop waits for it, or for a worker.  If it is   *)
(* the one of the ticker, no exchange is under way any more.               *)
LEMMA TickFresh ==
  ASSUME FreshInv, RefresherInv', FreshStore', [CallerStep]_vars, RefresherTick, Prompt
  PROVE  LoopOK' /\ FreshOK'
<1>1. /\ LoopOK /\ TickerOK /\ ExchangeOK /\ ListOK
      /\ clock \in Nat /\ ticker \in [next : Nat, full : BOOLEAN] /\ Interval \in Nat
      /\ Interval >= 1 /\ \A w \in Workers : worker[w].since \in Nat
      /\ worker \in [Workers -> Worker] /\ MaxRTT \in Nat /\ NextTick \in Nat
      /\ Len(cycle.todo) \in Nat /\ cycle.todo \in Seq(Keys)
  BY LoopTypes, RoundsEnough DEF FreshInv, LoopOK
<1>2. /\ clock' = clock + 1
      /\ UNCHANGED <<serving, entries, heap, frame, pins, cycle, failures, worker, stopping>>
      /\ ticker' = IF serving /\ clock' = ticker.next
                     THEN [next |-> ticker.next + Interval, full |-> TRUE] ELSE ticker
  BY DEF RefresherTick, Tick, storeVars
<1>3. /\ serving /\ cycle.pc \in {"wait", "acquire", "drain"}
      /\ cycle.pc = "wait" => ~ticker.full
      /\ cycle.pc = "acquire" => Busy = Workers
      /\ cycle.pc = "drain" => Busy # {}
      /\ \A w \in Busy : worker[w].pc = "query" /\ clock < worker[w].since + MaxRTT
  BY DEF Prompt, Busy
<1>4. ~ticker.full
  <2> SUFFICES ASSUME ticker.full, cycle.pc = "drain" PROVE FALSE
    BY <1>1, <1>3 DEF TickerOK
  <2>1. PICK w \in Busy : TRUE
    BY <1>3
  <2>2. worker[w].since + MaxRTT <= clock /\ clock < worker[w].since + MaxRTT
    BY <1>1, <1>3, <2>1 DEF ExchangeOK, NextTick
  <2> QED
    BY <1>1, <2>1, <2>2 DEF Busy
<1>5. clock < ticker.next /\ ticker.next <= clock + Interval /\ NextTick = ticker.next
  BY <1>1, <1>3, <1>4 DEF TickerOK, NextTick
<1>6. /\ NextTick' = NextTick /\ ticker'.next <= clock' + Interval /\ clock' < ticker'.next
      /\ ticker'.full => ticker'.next = clock' + Interval /\ clock' = NextTick
  <2>1. CASE clock' = ticker.next
    <3>1. ticker'.next = ticker.next + Interval /\ ticker'.full = TRUE
      BY <1>2, <1>3, <2>1
    <3> QED
      BY <1>1, <1>2, <1>5, <2>1, <3>1 DEF NextTick
  <2>2. CASE clock' # ticker.next
    <3>1. ticker' = ticker
      BY <1>2, <2>2
    <3> QED
      BY <1>1, <1>2, <1>4, <1>5, <2>2, <3>1 DEF NextTick
  <2> QED
    BY <2>1, <2>2
<1>7. ASSUME NEW i \in Nat, i >= 1, NEW end \in Nat, Paced(i, end), cycle.pc = "acquire"
      PROVE  Paced(i, end)'
  <2>1. \A w \in Workers : /\ worker[w].pc = "query" /\ worker[w].since <= clock
                           /\ clock < worker[w].since + MaxRTT
    BY <1>1, <1>3, <1>7 DEF ExchangeOK
  <2> QED
    BY <1>1, <1>2, <1>7, <2>1, PacedTick
<1>8. ListOK'
  <2> SUFFICES ASSUME cycle.pc = "acquire", cycle.todo # <<>>
               PROVE  Paced(Len(cycle.todo), NextTick)'
    BY <1>2, <1>3 DEF ListOK
  <2>1. Len(cycle.todo) >= 1
    BY <1>1, EmptySeq
  <2>2. Paced(Len(cycle.todo), NextTick)
    BY <1>1 DEF ListOK
  <2> DEFINE n == Len(cycle.todo)
  <2>3. \A i \in Nat, end \in Nat : (i >= 1 /\ Paced(i, end)) => Paced(i, end)'
    BY <1>7
  <2>4. \A i \in Nat, end \in Nat :
          (i = Len(cycle.todo) /\ end = NextTick /\ Paced(i, end)')
             => Paced(Len(cycle.todo), NextTick)'
    BY <1>2, <1>6 DEF Paced, Early
  <2> QED
    BY <1>1, <2>1, <2>2, <2>3, <2>4
<1>9. ~(clock' = NextTick /\ cycle.pc = "acquire")
  <2> SUFFICES ASSUME clock' = NextTick, cycle.pc = "acquire" PROVE FALSE
    OBVIOUS
  <2>1. cycle.todo # <<>>
    BY DEF FreshInv, RefresherInv, CycleOK
  <2>2. Paced(Len(cycle.todo), NextTick)
    BY <1>1, <2>1 DEF ListOK
  <2>3. Len(cycle.todo) >= 1
    BY <1>1, <2>1, EmptySeq
  <2>4. PICK i \in Nat, end \in Nat : i = Len(cycle.todo) /\ end = NextTick
    BY <1>1
  <2>5. Paced(i, end)
    BY <2>2, <2>4
  <2>6. Paced(i, end)'
    BY <1>7, <2>3, <2>4, <2>5
  <2>7. clock' + MaxRTT <= end
    <3>1. PICK m \in Nat : clock' <= end - (m + 1) * MaxRTT
      BY <2>6 DEF Paced
    <3>2. (m + 1) * MaxRTT = m * MaxRTT + MaxRTT /\ m * MaxRTT \in Nat
      BY <1>1
    <3> QED
      BY <1>1, <1>2, <3>1, <3>2
  <2>8. MaxRTT # 0
    <3>1. PICK w \in Workers : TRUE
      BY RefresherAssumption
    <3>2. worker[w].since <= clock /\ clock < worker[w].since + MaxRTT
      BY <1>1, <1>3, <3>1 DEF ExchangeOK
    <3> QED
      BY <1>1, <3>1, <3>2
  <2>9. clock' \in Nat /\ MaxRTT \in Nat /\ clock' = end
    BY <1>1, <1>2, <2>4
  <2> QED
    BY <2>7, <2>8, <2>9
<1>10. TickerOK'
  <2>1. ticker'.full => cycle.pc \in {"wait", "drain", "left"}
    BY <1>3, <1>6, <1>9
  <2> QED
    BY <1>2, <1>3, <1>6, <2>1 DEF TickerOK
<1>11. ExchangeOK'
  <2> SUFFICES ASSUME NEW w \in Busy
               PROVE  /\ worker[w].since <= clock'
                      /\ clock' <= worker[w].since + MaxRTT
                      /\ worker[w].since + MaxRTT <= NextTick'
                      /\ worker[w].pc = "set" => frame'[w].key = worker[w].key
    BY <1>2 DEF ExchangeOK, Busy
  <2>1. w \in Workers /\ worker[w].pc = "query" /\ clock < worker[w].since + MaxRTT
    BY <1>3 DEF Busy
  <2> QED
    BY <1>1, <1>2, <1>6, <2>1 DEF ExchangeOK
<1>12. SnapFresh'
  BY <1>2, <1>3 DEF SnapFresh
<1>13. FreshOK'
  <2> SUFFICES ASSUME NEW k \in Present', NEW end \in Nat, Expected(k)', Kept(k), Promised(k),
                      end = EndOfLife(EntryOf(k))
               PROVE  InTime(k, end)'
    BY <1>1, <1>2, <1>10, FreshFromKept
  <2>1. ~stopping /\ ~Behind(k)
    BY <1>2 DEF Expected, Behind
  <2>2. InTime(k, end)
    BY <2>1, WasInTime
  <2>3. ~InSnapshot(k, end)
    BY <1>3 DEF InSnapshot
  <2>4. CASE OnList(k, end)
    <3>1. PICK i \in 1 .. Len(cycle.todo) : cycle.todo[i] = k /\ Paced(i, end)
      BY <2>4 DEF OnList
    <3>2. cycle.pc = "acquire" /\ i \in Nat /\ i >= 1
      BY <1>1, <1>3, <2>4, <3>1 DEF OnList
    <3>3. Paced(i, end)'
      BY <1>7, <3>1, <3>2
    <3> QED
      BY <1>2, <3>1, <3>2, <3>3 DEF InTime, OnList
  <2>5. CASE ByWorker(k, end)
    BY <1>2, <2>5 DEF InTime, ByWorker
  <2>6. CASE NextTick + CycleTime <= end
    BY <1>6, <2>6 DEF InTime
  <2> QED
    BY <2>2, <2>3, <2>4, <2>5, <2>6 DEF InTime
<1> QED
  BY <1>8, <1>10, <1>11, <1>12, <1>13 DEF LoopOK

(* What is loaded is older than the promise.                               *)
LEMMA StartFresh ==
  ASSUME FreshInv, RefresherInv', FreshStore', [CallerStep]_vars, Start
  PROVE  LoopOK' /\ FreshOK'
<1>1. /\ ~serving /\ clock' = clock /\ UNCHANGED <<entries, heap, cycle, worker, failures>>
      /\ ticker' = [next |-> clock + Interval, full |-> FALSE]
      /\ clock \in Nat /\ Interval \in Nat /\ Interval >= 1 /\ StartTime \in Nat
      /\ TickerOK /\ LoadedOK /\ TypeOK
  BY LoopTypes, CacheAssumption DEF FreshInv, FreshStore, LoopOK, Start, StartServing
<1>2. /\ ticker'.next = clock + Interval /\ ticker'.full = FALSE
      /\ cycle.pc \in {"wait", "left"} /\ Busy' = {}
  BY <1>1 DEF TickerOK, FreshInv, RefresherInv, CycleOK, Busy
<1>3. TickerOK'
  BY <1>1, <1>2 DEF TickerOK
<1>4. ExchangeOK' /\ ListOK' /\ SnapFresh'
  BY <1>1, <1>2 DEF ExchangeOK, ListOK, SnapFresh
<1>5. FreshOK'
  <2> SUFFICES ASSUME NEW k \in Present, Promised(k) PROVE FALSE
    BY <1>1, <1>3, FreshFromKept DEF Kept
  <2>1. entries[k] \in Live
    BY DEF Present, Live
  <2>2. EntryOf(k) \in Entry
    BY <1>1, <2>1 DEF TypeOK, HeapOK, EntryOf
  <2>3. EntryOf(k).storedAt \in Nat
    BY <2>2, LifeType
  <2> QED
    BY <1>1, <2>3 DEF LoadedOK, Promised
<1> QED
  BY <1>3, <1>4, <1>5 DEF LoopOK

(* The names that were to wait for this tick are in the snapshot.          *)
LEMMA BeginFresh ==
  ASSUME FreshInv, RefresherInv', FreshStore', [CallerStep]_vars, BeginCycle
  PROVE  LoopOK' /\ FreshOK'
<1>1. /\ serving /\ cycle.pc = "wait" /\ ticker.full
      /\ clock' = clock /\ serving' = serving
      /\ UNCHANGED <<entries, heap, failures, worker, stopping>>
      /\ ticker' = [ticker EXCEPT !.full = FALSE]
  BY DEF BeginCycle, vars
<1>2. /\ clock \in Nat /\ Interval \in Nat /\ Interval >= 1 /\ cycle \in Cycle
      /\ ticker \in [next : Nat, full : BOOLEAN] /\ TickerOK
      /\ Busy = {} /\ cycle.todo = <<>>
  BY <1>1, LoopTypes DEF FreshInv, LoopOK, RefresherInv, CycleOK
<1>3. /\ ticker'.next = clock + Interval /\ ticker'.full = FALSE
      /\ NextTick = clock /\ Busy' = {}
  BY <1>1, <1>2 DEF TickerOK, NextTick, Busy
<1>4. CASE Present = {}
  <2>1. cycle' = cycle
    BY <1>1, <1>4 DEF BeginCycle
  <2>2. TickerOK'
    BY <1>1, <1>2, <1>3, <2>1 DEF TickerOK
  <2>3. ExchangeOK' /\ ListOK' /\ SnapFresh'
    BY <1>1, <1>3, <2>1 DEF ExchangeOK, ListOK, SnapFresh
  <2>4. FreshOK'
    BY <1>1, <1>2, <1>4, <2>2, FreshFromKept DEF Kept
  <2> QED
    BY <2>2, <2>3, <2>4 DEF LoopOK
<1>5. CASE Present # {}
  <2>1. cycle' = [cycle EXCEPT !.pc = "now", !.snap = entries]
    BY <1>5 DEF BeginCycle
  <2>2. cycle'.pc = "now" /\ cycle'.snap = entries
    BY <1>2, <2>1 DEF Cycle
  <2>3. TickerOK'
    BY <1>1, <1>2, <1>3, <2>2 DEF TickerOK
  <2>4. ExchangeOK' /\ ListOK' /\ SnapFresh'
    BY <1>1, <1>3, <2>2 DEF ExchangeOK, ListOK, SnapFresh
  <2>5. FreshOK'
    <3> SUFFICES ASSUME NEW k \in Present', NEW end \in Nat, Expected(k)', Kept(k), Promised(k),
                        end = EndOfLife(EntryOf(k))
                 PROVE  InTime(k, end)'
      BY <1>1, <1>2, <2>3, FreshFromKept
    <3>1. ~stopping /\ ~Behind(k)
      BY <1>1 DEF Expected, Behind
    <3>2. InTime(k, end)
      BY <3>1, WasInTime
    <3>3. ~ByWorker(k, end) /\ ~OnList(k, end) /\ ~InSnapshot(k, end)
      BY <1>1, <1>2 DEF ByWorker, OnList, InSnapshot, Busy
    <3>4. clock' + CycleTime <= end
      BY <1>1, <1>3, <3>2, <3>3 DEF InTime
    <3> QED
      BY <1>1, <2>2, <3>4 DEF InTime, InSnapshot
  <2> QED
    BY <2>3, <2>4, <2>5 DEF LoopOK
<1> QED
  BY <1>4, <1>5

(* Between the snapshot and the choice: what is not in the snapshot is     *)
(* new.                                                                    *)
LEMMA SnapshotFresh ==
  ASSUME FreshInv, RefresherInv', FreshStore', [CallerStep]_vars,
         UNCHANGED <<clock, serving, ticker, worker, stopping>>,
         cycle.pc \in {"now", "prune", "delete"}, cycle'.pc \in {"prune", "delete"},
         cycle'.snap = cycle.snap, cycle'.now = clock,
         \A k \in Present : entries[k] = cycle.snap[k] => failures'[k] = failures[k]
  PROVE  LoopOK' /\ FreshOK'
<1>1. /\ clock \in Nat /\ Interval \in Nat /\ NextTick \in Nat /\ NextTick <= clock + Interval
      /\ TickerOK /\ SnapFresh /\ TypeOK /\ Busy = {} /\ cycle.todo = <<>>
      /\ ticker \in [next : Nat, full : BOOLEAN]
  BY LoopTypes, TickType DEF FreshInv, LoopOK, RefresherInv, CycleOK
<1>2. NextTick' = NextTick /\ Busy' = {}
  BY <1>1 DEF NextTick, Busy
<1>3. TickerOK'
  BY <1>1 DEF TickerOK
<1>4. ExchangeOK' /\ ListOK'
  BY <1>2 DEF ExchangeOK, ListOK
<1>5. SnapFresh'
  BY SnapFreshStep
<1>6. FreshOK'
  <2> SUFFICES ASSUME NEW k \in Present', NEW end \in Nat, Expected(k)', Kept(k), Promised(k),
                      end = EndOfLife(EntryOf(k))
               PROVE  InTime(k, end)'
    BY <1>1, <1>3, FreshFromKept
  <2>1. k \in Present /\ entries'[k] = entries[k] /\ EntryOf(k) \in Entry
    <3>1. k \in Present /\ entries'[k] = entries[k]
      BY DEF Kept
    <3>2. entries[k] \in Live
      BY <3>1 DEF Present, Live
    <3> QED
      BY <1>1, <3>1, <3>2 DEF TypeOK, HeapOK, EntryOf
  <2>2. CASE entries[k] # cycle.snap[k]
    <3>1. EntryOf(k).storedAt = clock
      BY <1>1, <2>1, <2>2 DEF SnapFresh
    <3>2. NextTick + CycleTime <= end
      BY <1>1, <2>1, <3>1, StoredInTime DEF Promised
    <3> QED
      BY <1>2, <3>2 DEF InTime
  <2>3. CASE entries[k] = cycle.snap[k]
    <3>1. failures'[k] = failures[k]
      BY <2>1, <2>3
    <3>2. ~stopping /\ ~Behind(k)
      BY <3>1 DEF Expected, Behind
    <3>3. InTime(k, end)
      BY <3>2, WasInTime
    <3>4. ~ByWorker(k, end) /\ ~OnList(k, end)
      BY <1>1 DEF ByWorker, OnList, Busy
    <3> QED
      BY <1>2, <2>1, <2>3, <3>3, <3>4 DEF InTime, InSnapshot
  <2> QED
    BY <2>2, <2>3
<1> QED
  BY <1>3, <1>4, <1>5, <1>6 DEF LoopOK

LEMMA PruneFresh ==
  ASSUME FreshInv, RefresherInv', FreshStore', [CallerStep]_vars,
         PruneFailures \/ PruneDelete \/ \E k \in Keys : PruneLook(k)
  PROVE  LoopOK' /\ FreshOK'
<1>1. cycle \in Cycle /\ TickerOK /\ entries \in [Keys -> Objs \cup {NoObj}]
  BY LoopTypes DEF FreshInv, LoopOK, RefresherInv, TypeOK, MapOK
<1>2. CASE PruneFailures
  <2>1. /\ cycle' = [cycle EXCEPT !.pc = "prune", !.now = clock, !.left = Snapped]
        /\ failures' = [k \in Keys |-> IF k \in Snapped THEN failures[k] ELSE NoFailure]
        /\ UNCHANGED <<clock, serving, ticker, worker, stopping>> /\ cycle.pc = "now"
    BY <1>2 DEF PruneFailures, vars
  <2>2. cycle'.pc = "prune" /\ cycle'.snap = cycle.snap /\ cycle'.now = clock
    BY <1>1, <2>1 DEF Cycle
  <2>3. \A k \in Present : entries[k] = cycle.snap[k] => failures'[k] = failures[k]
    BY <2>1 DEF Present, Snapped
  <2> QED
    BY <2>1, <2>2, <2>3, SnapshotFresh
<1>3. CASE PruneDelete
  <2>1. /\ cycle' = [cycle EXCEPT !.pc = "prune"] /\ cycle.pc = "delete"
        /\ UNCHANGED <<clock, serving, ticker, worker, stopping, failures>>
    BY <1>3 DEF PruneDelete, Delete
  <2>2. /\ cycle'.pc = "prune" /\ cycle'.snap = cycle.snap /\ cycle'.now = clock
    BY <1>1, <2>1 DEF Cycle, TickerOK
  <2> QED
    BY <2>1, <2>2, SnapshotFresh
<1>4. ASSUME NEW k \in Keys, PruneLook(k) PROVE LoopOK' /\ FreshOK'
  <2> DEFINE pc == IF Unused(SnapOf(k), cycle.now) THEN "delete" ELSE "prune"
  <2>1. /\ cycle' = [cycle EXCEPT !.left = @ \ {k}, !.key = k, !.pc = pc]
        /\ cycle.pc = "prune" /\ pc \in {"prune", "delete"}
        /\ UNCHANGED <<clock, serving, ticker, worker, stopping, failures>>
    BY <1>4 DEF PruneLook, vars
  <2> HIDE DEF pc
  <2>2. /\ cycle'.pc = pc /\ cycle'.snap = cycle.snap /\ cycle'.now = clock
    BY <1>1, <2>1 DEF Cycle, TickerOK
  <2> QED
    BY <2>1, <2>2, SnapshotFresh
<1> QED
  BY <1>2, <1>3, <1>4

(* If no more than MaxDue names are due, all of them are on the list.      *)
LEMMA AllChosen ==
  ASSUME Cardinality(Candidates) <= MaxDue, NEW q \in Ordered(Candidates)
  PROVE  LET todo == SubSeq(q, 1, Smaller(Len(q), MaxPerCycle))
         IN  /\ Len(todo) <= MaxDue
             /\ \A k \in Candidates : \E i \in 1 .. Len(todo) : todo[i] = k
<1> DEFINE S == Candidates
           n == Cardinality(S)
           todo == SubSeq(q, 1, Smaller(Len(q), MaxPerCycle))
<1>1. S \subseteq Keys /\ IsFiniteSet(S)
  BY FS_Subset, CacheAssumption DEF Candidates, Snapped
<1>2. n \in Nat /\ n <= MaxDue /\ MaxDue \in Nat /\ MaxPerCycle \in Nat /\ MaxDue <= MaxPerCycle
  BY <1>1, FS_CardinalityType, RefresherAssumption
<1>3. /\ q \in [1 .. n -> S]
      /\ \A i, j \in DOMAIN q : i < j => q[i] # q[j]
  BY DEF Ordered
<1> HIDE DEF S, n
<1>4. q \in Seq(S) /\ Len(q) = n
  BY <1>2, <1>3
<1>5. Smaller(Len(q), MaxPerCycle) = n
  BY <1>2, <1>4 DEF Smaller
<1>6. Len(todo) = n /\ \A i \in 1 .. n : todo[i] = q[i]
  BY <1>2, <1>4, <1>5
<1>7. q \in Injection(1 .. n, S)
  <2>1. \A i, j \in 1 .. n : i # j => q[i] # q[j]
    BY <1>2, <1>3
  <2> QED
    BY <1>3, <2>1 DEF Injection, IsInjective
<1>8. Cardinality(1 .. n) = n
  BY <1>2, FS_Interval
<1>9. q \in Surjection(1 .. n, S)
  BY <1>1, <1>7, <1>8, FS_Injection DEF n
<1>10. \A k \in S : \E i \in 1 .. n : q[i] = k
  BY <1>9 DEF Surjection
<1> HIDE DEF todo
<1>11. Len(todo) <= MaxDue /\ \A k \in S : \E i \in 1 .. Len(todo) : todo[i] = k
  BY <1>2, <1>6, <1>10
<1> QED
  BY <1>11 DEF todo, S

(* What is not due yet can wait for the next cycle: the window is longer   *)
(* than an interval by the half that a cycle fits in.                      *)
LEMMA NotDueYet ==
  ASSUME NEW e \in Entry, NEW t \in Nat, e.storedAt <= t, Interval >= 2 * CycleTime,
         ~(Remaining(e, t) <= Threshold(e))
  PROVE  t + Interval + CycleTime <= EndOfLife(e)
<1> DEFINE a == (Life(e) * RefreshThreshold(e)) \div 100
           b == (Interval * 3) \div 2
           L == Life(e)
           r == Remaining(e, t)
<1>1. /\ e.storedAt \in Nat /\ L \in Nat /\ e.hits \in Nat
      /\ Interval \in Nat /\ CycleTime \in Nat
  BY LifeType, RoundsEnough, RefresherAssumption DEF Entry
<1>2. RefreshThreshold(e) \in {10, 15, 20, 30}
  BY <1>1 DEF RefreshThreshold
<1>3. L * RefreshThreshold(e) \in Nat
  BY <1>1, <1>2
<1>4. a \in Nat /\ b \in Nat /\ Interval * 3 < 2 * b + 2
  BY <1>1, <1>3
<1>5. r = e.storedAt + L - t /\ EndOfLife(e) = e.storedAt + L /\ r <= L /\ r \in Int
  BY <1>1 DEF Remaining, EndOfLife
<1>6. Threshold(e) = Smaller(Larger(a, b), L)
  BY DEF Threshold
<1> HIDE DEF a, b, L, r
<1>7. Larger(a, b) \in Nat /\ Larger(a, b) >= b
  BY <1>4 DEF Larger
<1>8. r > b
  <2>1. ~(r <= Threshold(e))
    BY DEF r
  <2> QED
    BY <1>1, <1>4, <1>5, <1>6, <1>7, <2>1 DEF Smaller
<1> QED
  BY <1>1, <1>4, <1>5, <1>8

(* The choice: a name of the snapshot is on the list, or can wait.         *)
LEMMA SelectFresh ==
  ASSUME FreshInv, RefresherInv', FreshStore', [CallerStep]_vars, Select, FewDue,
         Interval >= 2 * CycleTime
  PROVE  LoopOK' /\ FreshOK'
<1>1. PICK q \in Ordered(Candidates) :
        cycle' = [Waiting EXCEPT !.pc = "check",
                    !.todo = SubSeq(q, 1, Smaller(Len(q), MaxPerCycle))]
  BY DEF Select
<1> DEFINE todo == SubSeq(q, 1, Smaller(Len(q), MaxPerCycle))
<1>2. /\ cycle.pc = "prune"
      /\ UNCHANGED <<clock, serving, entries, ticker, failures, worker, stopping>>
  BY DEF Select
<1>3. /\ todo \in Seq(Keys) /\ Len(todo) <= MaxDue
      /\ \A k \in Candidates : \E i \in 1 .. Len(todo) : todo[i] = k
  <2>1. RefresherInv /\ Cardinality(Candidates) <= MaxDue
    BY DEF FreshInv, FewDue, Select
  <2> QED
    BY <2>1, Chosen, AllChosen
<1>4. cycle' = [Waiting EXCEPT !.pc = "check", !.todo = todo]
  BY <1>1
<1> HIDE DEF todo
<1>5. cycle'.pc = "check" /\ cycle'.todo = todo
  BY <1>4 DEF Waiting
<1>6. /\ clock \in Nat /\ Interval \in Nat /\ Interval >= 1 /\ CycleTime \in Nat
      /\ ticker \in [next : Nat, full : BOOLEAN] /\ TickerOK /\ TypeOK
      /\ Busy = {} /\ PastOK
  BY <1>2, LoopTypes, RoundsEnough DEF FreshInv, FreshStore, LoopOK, RefresherInv, CycleOK
<1>7. /\ cycle.now = clock /\ ticker.full = FALSE /\ serving
      /\ NextTick = clock + Interval /\ NextTick' = clock + Interval /\ Busy' = {}
  BY <1>2, <1>6 DEF TickerOK, NextTick, Busy
<1>8. TickerOK'
  BY <1>2, <1>5, <1>6, <1>7 DEF TickerOK
<1>9. ASSUME NEW i \in Nat, NEW end \in Nat, i <= Len(todo), clock + CycleTime <= end
      PROVE  Paced(i, end)'
  <2>1. MaxDue \in Nat /\ Len(todo) \in Nat
    BY <1>3, RefresherAssumption
  <2>2. i <= MaxDue
    BY <1>3, <1>9, <2>1
  <2>3. Paced(i, end)
    BY <1>6, <1>9, <2>2, PacedAtFirst
  <2> QED
    BY <1>2, <2>3 DEF Paced, Early
<1>10. ListOK'
  <2>1. PICK i \in Nat, end \in Nat : i = Len(todo) /\ end = clock + Interval
    BY <1>3, <1>6
  <2>2. clock + CycleTime <= end /\ i <= Len(todo)
    BY <1>6, <2>1
  <2>3. Paced(i, end)'
    BY <1>9, <2>2
  <2>4. i = Len(cycle.todo)' /\ end = NextTick'
    BY <1>5, <1>7, <2>1
  <2>5. Paced(Len(cycle.todo), NextTick)'
    BY <2>3, <2>4 DEF Paced, Early
  <2> QED
    BY <2>5 DEF ListOK
<1>11. ExchangeOK' /\ SnapFresh'
  BY <1>5, <1>7 DEF ExchangeOK, SnapFresh
<1>12. FreshOK'
  <2> SUFFICES ASSUME NEW k \in Present', NEW end \in Nat, Expected(k)', Kept(k), Promised(k),
                      end = EndOfLife(EntryOf(k))
               PROVE  InTime(k, end)'
    BY <1>2, <1>6, <1>8, FreshFromKept
  <2>1. ~stopping /\ ~Behind(k) /\ k \in Present
    BY <1>2 DEF Expected, Behind, Kept
  <2>2. InTime(k, end)
    BY <2>1, WasInTime
  <2>3. ~ByWorker(k, end) /\ ~OnList(k, end)
    BY <1>2, <1>6 DEF ByWorker, OnList, Busy
  <2>4. CASE NextTick + CycleTime <= end
    BY <1>7, <2>4 DEF InTime
  <2>5. CASE InSnapshot(k, end)
    <3> DEFINE e == EntryOf(k)
    <3>1. entries[k] \in Live /\ k \in Keys /\ k \in Snapped /\ SnapOf(k) = e
      BY <2>1, <2>5 DEF InSnapshot, Present, Live, Snapped, SnapOf, EntryOf
    <3>2. e \in Entry /\ e.storedAt <= clock /\ e.used.day <= DayOf(clock)
      BY <1>6, <3>1 DEF TypeOK, HeapOK, PastOK, EntryOf
    <3>3. UsualUntil(e, clock)
      BY DEF Promised, KnownUsual, UsualUntil
    <3> HIDE DEF e
    <3>4. Usual(e, clock)
      BY <1>6, <3>2, <3>3, UsualForTheChoice
    <3>5. ~BackingOff(k, clock)
      BY <1>6, <2>1 DEF BackingOff, Behind, NoFailure
    <3>6. CASE Remaining(e, clock) <= Threshold(e)
      <4>1. k \in Candidates
        BY <1>7, <3>1, <3>4, <3>5, <3>6 DEF Candidates
      <4>2. PICK i \in 1 .. Len(todo) : todo[i] = k
        BY <1>3, <4>1
      <4>3. i \in Nat /\ i <= Len(todo) /\ clock + CycleTime <= end
        BY <1>3, <2>5, <4>2 DEF InSnapshot
      <4>4. Paced(i, end)'
        BY <1>9, <4>3
      <4> QED
        BY <1>5, <4>2, <4>4 DEF InTime, OnList
    <3>7. CASE ~(Remaining(e, clock) <= Threshold(e))
      <4>1. clock + Interval + CycleTime <= EndOfLife(e)
        BY <1>6, <3>2, <3>7, NotDueYet
      <4> QED
        BY <1>7, <4>1 DEF InTime, e
    <3> QED
      BY <3>6, <3>7
  <2> QED
    BY <2>2, <2>3, <2>4, <2>5 DEF InTime
<1> QED
  BY <1>8, <1>10, <1>11, <1>12 DEF LoopOK

LEMMA CheckFresh ==
  ASSUME FreshInv, RefresherInv', FreshStore', [CallerStep]_vars, Check
  PROVE  LoopOK' /\ FreshOK'
<1> DEFINE pc == IF cycle.todo = <<>> \/ stopping THEN "drain" ELSE "acquire"
<1>1. /\ cycle.pc = "check" /\ cycle' = [cycle EXCEPT !.pc = pc]
      /\ UNCHANGED <<clock, serving, entries, heap, ticker, failures, worker, frame, stopping>>
      /\ pc \in {"drain", "acquire"}
      /\ pc = "drain" => cycle.todo = <<>> \/ stopping
  BY DEF Check, vars
<1> HIDE DEF pc
<1>2. /\ LoopOK /\ clock \in Nat /\ cycle \in Cycle
  BY LoopTypes DEF FreshInv
<1>3. cycle'.pc = pc /\ cycle'.todo = cycle.todo
  BY <1>1, <1>2 DEF Cycle
<1>4. /\ NextTick' = NextTick /\ Busy' = Busy
      /\ \A i, end : Paced(i, end) => Paced(i, end)'
  BY <1>1 DEF NextTick, Busy, Paced, Early
<1>5. TickerOK'
  BY <1>1, <1>2, <1>3 DEF LoopOK, TickerOK
<1>6. ExchangeOK'
  BY <1>1, <1>2, <1>4 DEF LoopOK, ExchangeOK, Busy
<1>7. ListOK'
  BY <1>1, <1>2, <1>3, <1>4 DEF LoopOK, ListOK
<1>8. SnapFresh'
  BY <1>1, <1>3 DEF SnapFresh
<1>9. FreshOK'
  <2> SUFFICES ASSUME NEW k \in Present', NEW end \in Nat, Expected(k)', Kept(k), Promised(k),
                      end = EndOfLife(EntryOf(k))
               PROVE  InTime(k, end)'
    BY <1>1, <1>2, <1>5, FreshFromKept
  <2>1. ~stopping /\ ~Behind(k)
    BY <1>1 DEF Expected, Behind
  <2>2. InTime(k, end)
    BY <2>1, WasInTime
  <2>3. CASE OnList(k, end)
    <3>1. PICK i \in 1 .. Len(cycle.todo) : cycle.todo[i] = k /\ Paced(i, end)
      BY <2>3 DEF OnList
    <3>2. pc = "acquire"
      BY <1>1, <2>1, <3>1
    <3> QED
      BY <1>3, <1>4, <3>1, <3>2 DEF InTime, OnList
  <2>4. CASE ByWorker(k, end)
    BY <1>1, <2>4 DEF InTime, ByWorker
  <2>5. CASE NextTick + CycleTime <= end
    BY <1>4, <2>5 DEF InTime
  <2>6. ~InSnapshot(k, end)
    BY <1>1 DEF InSnapshot
  <2> QED
    BY <2>2, <2>3, <2>4, <2>5, <2>6 DEF InTime
<1> QED
  BY <1>5, <1>6, <1>7, <1>8, <1>9 DEF LoopOK

(* The first name of the list goes to a free place, the others move up.    *)
LEMMA DispatchFresh ==
  ASSUME FreshInv, RefresherInv', FreshStore', [CallerStep]_vars,
         NEW w \in Workers, Dispatch(w)
  PROVE  LoopOK' /\ FreshOK'
<1> DEFINE key == Head(cycle.todo)
           g == [Free EXCEPT !.pc = "query", !.since = clock, !.key = key]
<1>1. /\ RefresherInv /\ TickerOK /\ ExchangeOK /\ ListOK /\ MaxRTT \in Nat
      /\ clock \in Nat /\ cycle \in Cycle /\ worker \in [Workers -> Worker] /\ NextTick \in Nat
  BY LoopTypes, RoundsEnough DEF FreshInv, LoopOK
<1>2. /\ cycle.pc = "acquire" /\ worker[w].pc = "free" /\ cycle.todo # <<>>
      /\ worker' = [worker EXCEPT ![w] = g]
      /\ cycle' = [cycle EXCEPT !.pc = "check", !.todo = Tail(cycle.todo)]
      /\ UNCHANGED <<clock, serving, entries, frame, ticker, failures, stopping>>
  BY <1>1 DEF Dispatch, vars, Cycle, RefresherInv, CycleOK
<1>3. cycle.todo \in Seq(Keys) /\ Len(cycle.todo) \in Nat \ {0}
  BY <1>1, <1>2, EmptySeq DEF Cycle
<1>4. /\ key = cycle.todo[1] /\ Tail(cycle.todo) \in Seq(Keys)
      /\ Len(Tail(cycle.todo)) = Len(cycle.todo) - 1
      /\ \A i \in 1 .. Len(Tail(cycle.todo)) : Tail(cycle.todo)[i] = cycle.todo[i + 1]
  BY <1>2, <1>3, HeadTailProperties
<1>5. g.pc = "query" /\ g.key = key /\ g.since = clock
  BY DEF Free
<1> HIDE DEF g
<1>6. cycle'.pc = "check" /\ cycle'.todo = Tail(cycle.todo)
  BY <1>1, <1>2 DEF Cycle
<1>7. \A v \in Workers : worker'[v] = IF v = w THEN g ELSE worker[v]
  BY <1>1, <1>2
<1>8. NextTick' = NextTick
  BY <1>2 DEF NextTick
<1>9. ASSUME NEW i \in Nat, NEW end \in Nat, Paced(i + 1, end)
      PROVE  Paced(i, end)'
  BY <1>2, <1>7, <1>9, PacedNext
<1>10. PICK n \in Nat, last \in Nat :
         n + 1 = Len(cycle.todo) /\ last = NextTick /\ Paced(n + 1, last)
  <2>1. Paced(Len(cycle.todo), NextTick) /\ Len(cycle.todo) - 1 \in Nat
        /\ (Len(cycle.todo) - 1) + 1 = Len(cycle.todo)
    BY <1>1, <1>2, <1>3 DEF ListOK
  <2> QED
    BY <1>1, <2>1
<1>11. TickerOK'
  BY <1>1, <1>2, <1>6 DEF TickerOK
<1>12. ExchangeOK'
  <2> SUFFICES ASSUME NEW v \in Workers, worker'[v].pc # "free"
               PROVE  /\ worker'[v].since <= clock
                      /\ clock <= worker'[v].since + MaxRTT
                      /\ worker'[v].since + MaxRTT <= NextTick
                      /\ worker'[v].pc = "set" => frame[v].key = worker'[v].key
    BY <1>2, <1>8 DEF ExchangeOK, Busy
  <2>1. CASE v = w
    <3>1. clock + MaxRTT <= NextTick
      BY <1>1, <1>10, PacedNow
    <3> QED
      BY <1>1, <1>5, <1>7, <2>1, <3>1
  <2>2. CASE v # w
    BY <1>1, <1>7, <2>2 DEF ExchangeOK, Busy
  <2> QED
    BY <2>1, <2>2
<1>13. ListOK'
  <2>1. Paced(n, last)'
    BY <1>9, <1>10
  <2>2. n = Len(cycle.todo)' /\ last = NextTick'
    BY <1>3, <1>4, <1>6, <1>8, <1>10
  <2>3. Paced(Len(cycle.todo), NextTick)'
    BY <2>1, <2>2 DEF Paced, Early
  <2> QED
    BY <2>3 DEF ListOK
<1>14. SnapFresh'
  BY <1>6 DEF SnapFresh
<1>15. FreshOK'
  <2> SUFFICES ASSUME NEW k \in Present', NEW end \in Nat, Expected(k)', Kept(k), Promised(k),
                      end = EndOfLife(EntryOf(k))
               PROVE  InTime(k, end)'
    BY <1>1, <1>2, <1>11, FreshFromKept
  <2>1. ~stopping /\ ~Behind(k)
    BY <1>2, <1>7 DEF Expected, Behind
  <2>2. InTime(k, end)
    BY <2>1, WasInTime
  <2>3. CASE OnList(k, end)
    <3>1. PICK i \in 1 .. Len(cycle.todo) : cycle.todo[i] = k /\ Paced(i, end)
      BY <2>3 DEF OnList
    <3>2. CASE i = 1
      <4>1. clock + MaxRTT <= end
        BY <1>1, <3>1, <3>2, PacedNow
      <4>2. ByWorker(k, end)'
        BY <1>4, <1>5, <1>7, <3>1, <3>2, <4>1 DEF ByWorker
      <4> QED
        BY <4>2 DEF InTime
    <3>3. CASE i # 1
      <4>1. PICK j \in Nat : j + 1 = i
        <5>1. i - 1 \in Nat /\ (i - 1) + 1 = i
          BY <1>3, <3>1, <3>3
        <5> QED
          BY <5>1
      <4>2. Paced(j, end)'
        BY <1>9, <3>1, <4>1
      <4>3. j \in 1 .. Len(Tail(cycle.todo))
        BY <1>3, <1>4, <3>1, <3>3, <4>1
      <4>4. cycle'.todo[j] = k
        BY <1>4, <1>6, <3>1, <4>1, <4>3
      <4> QED
        BY <1>6, <4>2, <4>3, <4>4 DEF InTime, OnList
    <3> QED
      BY <3>2, <3>3
  <2>4. CASE ByWorker(k, end)
    BY <1>2, <1>7, <2>4 DEF InTime, ByWorker
  <2>5. CASE NextTick + CycleTime <= end
    BY <1>8, <2>5 DEF InTime
  <2>6. ~InSnapshot(k, end)
    BY <1>2 DEF InSnapshot
  <2> QED
    BY <2>2, <2>3, <2>4, <2>5, <2>6 DEF InTime
<1> QED
  BY <1>11, <1>12, <1>13, <1>14, <1>15 DEF LoopOK

(* The end of a cycle, and of the loop.                                    *)
LEMMA EndFresh ==
  ASSUME FreshInv, RefresherInv', FreshStore', [CallerStep]_vars, EndCycle \/ LeaveLoop
  PROVE  LoopOK' /\ FreshOK'
<1>1. LoopOK /\ clock \in Nat /\ cycle \in Cycle
  BY LoopTypes DEF FreshInv
<1>2. /\ UNCHANGED <<clock, serving, entries, ticker, failures, worker, stopping>>
      /\ Busy = {}
  BY DEF EndCycle, LeaveLoop, vars, Busy, FreshInv, RefresherInv, CycleOK
<1>3. \/ cycle.pc = "drain" /\ cycle'.pc = "wait"
      \/ cycle.pc = "wait" /\ cycle'.pc = "left" /\ stopping
  BY <1>1 DEF EndCycle, LeaveLoop, Waiting, Cycle
<1>4. NextTick' = NextTick /\ Busy' = {}
  BY <1>2 DEF NextTick, Busy
<1>5. TickerOK'
  BY <1>1, <1>2, <1>3 DEF LoopOK, TickerOK
<1>6. ExchangeOK' /\ ListOK' /\ SnapFresh'
  BY <1>3, <1>4 DEF ExchangeOK, ListOK, SnapFresh
<1>7. FreshOK'
  <2> SUFFICES ASSUME NEW k \in Present', NEW end \in Nat, Expected(k)', Kept(k), Promised(k),
                      end = EndOfLife(EntryOf(k))
               PROVE  InTime(k, end)'
    BY <1>1, <1>2, <1>5, FreshFromKept
  <2>1. ~stopping /\ ~Behind(k)
    BY <1>2 DEF Expected, Behind
  <2>2. InTime(k, end)
    BY <2>1, WasInTime
  <2>3. ~ByWorker(k, end) /\ ~OnList(k, end) /\ ~InSnapshot(k, end)
    BY <1>2, <1>3 DEF ByWorker, OnList, InSnapshot, Busy
  <2> QED
    BY <1>4, <2>2, <2>3 DEF InTime
<1> QED
  BY <1>5, <1>6, <1>7 DEF LoopOK

(* A worker goes on with its name, or is done with it: it has failed, or   *)
(* has stored an answer now.                                               *)
LEMMA PlaceFresh ==
  ASSUME FreshInv, RefresherInv', FreshStore', [CallerStep]_vars,
         NEW w \in Workers, NEW g \in Worker,
         worker' = [worker EXCEPT ![w] = g], worker[w].pc # "free",
         g.pc # "free" => g.since = worker[w].since /\ g.key = worker[w].key,
         g.pc = "set" => frame'[w].key = g.key,
         \A v \in Workers : v # w => frame'[v] = frame[v],
         UNCHANGED <<clock, serving, ticker, cycle, stopping>>,
         \A k \in Present' : (~Behind(k)' /\ Kept(k)) =>
            \/ EntryOf(k).storedAt = clock
            \/ /\ ~Behind(k)
               /\ worker[w].key = k /\ worker[w].pc \in {"query", "answered"} =>
                    g.pc \in {"query", "answered"}
  PROVE  LoopOK' /\ FreshOK'
<1>1. /\ TickerOK /\ ExchangeOK /\ ListOK /\ TypeOK /\ Interval \in Nat
      /\ clock \in Nat /\ cycle \in Cycle /\ worker \in [Workers -> Worker] /\ NextTick \in Nat
      /\ cycle.todo \in Seq(Keys) /\ Len(cycle.todo) \in Nat
      /\ NextTick <= clock + Interval
  BY LoopTypes, TickType DEF FreshInv, LoopOK
<1>2. \A v \in Workers : worker'[v] = IF v = w THEN g ELSE worker[v]
  BY <1>1
<1>3. NextTick' = NextTick /\ w \in Busy /\ cycle.pc \in {"check", "acquire", "drain"}
  BY DEF NextTick, Busy, FreshInv, RefresherInv, CycleOK
<1>4. \A v \in Workers : \/ worker'[v].pc = "free"
                         \/ worker[v].pc # "free" /\ worker'[v].since = worker[v].since
  BY <1>2
<1>5. ASSUME NEW i \in Nat, NEW end \in Nat, Paced(i, end) PROVE Paced(i, end)'
  BY <1>4, <1>5, PacedOn
<1>6. TickerOK' /\ SnapFresh'
  BY <1>1, <1>3 DEF TickerOK, SnapFresh
<1>7. ExchangeOK'
  <2> SUFFICES ASSUME NEW v \in Workers, worker'[v].pc # "free"
               PROVE  /\ worker'[v].since <= clock
                      /\ clock <= worker'[v].since + MaxRTT
                      /\ worker'[v].since + MaxRTT <= NextTick
                      /\ worker'[v].pc = "set" => frame'[v].key = worker'[v].key
    BY <1>3 DEF ExchangeOK, Busy
  <2>1. CASE v = w
    BY <1>1, <1>2, <1>3, <2>1 DEF ExchangeOK
  <2>2. CASE v # w
    BY <1>1, <1>2, <2>2 DEF ExchangeOK, Busy
  <2> QED
    BY <2>1, <2>2
<1>8. ListOK'
  <2> SUFFICES ASSUME cycle.pc \in {"check", "acquire"}, cycle.todo # <<>>
               PROVE  Paced(Len(cycle.todo), NextTick)'
    BY DEF ListOK
  <2>1. Paced(Len(cycle.todo), NextTick)
    BY <1>1 DEF ListOK
  <2>2. PICK i \in Nat, end \in Nat : i = Len(cycle.todo) /\ end = NextTick
    BY <1>1
  <2>3. Paced(i, end)'
    BY <1>5, <2>1, <2>2
  <2>4. i = Len(cycle.todo)' /\ end = NextTick'
    BY <1>3, <2>2
  <2> QED
    BY <2>3, <2>4 DEF Paced, Early
<1>9. FreshOK'
  <2> SUFFICES ASSUME NEW k \in Present', NEW end \in Nat, Expected(k)', Kept(k), Promised(k),
                      end = EndOfLife(EntryOf(k))
               PROVE  InTime(k, end)'
    BY <1>1, <1>6, FreshFromKept
  <2>1. ~stopping /\ ~Behind(k)'
    BY DEF Expected
  <2>2. CASE EntryOf(k).storedAt = clock
    <3>1. entries[k] \in Live
      BY DEF Kept, Present, Live
    <3>2. EntryOf(k) \in Entry
      BY <1>1, <3>1 DEF TypeOK, HeapOK, EntryOf
    <3>3. NextTick + CycleTime <= end
      BY <1>1, <2>2, <3>2, StoredInTime DEF Promised
    <3> QED
      BY <1>3, <3>3 DEF InTime
  <2>3. CASE /\ ~Behind(k)
             /\ worker[w].key = k /\ worker[w].pc \in {"query", "answered"} =>
                  g.pc \in {"query", "answered"}
    <3>1. InTime(k, end)
      BY <2>1, <2>3, WasInTime
    <3>2. CASE ByWorker(k, end)
      <4>1. PICK v \in Workers : /\ worker[v].pc \in {"query", "answered"} /\ worker[v].key = k
                                 /\ worker[v].since + MaxRTT <= end
        BY <3>2 DEF ByWorker
      <4>2. /\ worker'[v].pc \in {"query", "answered"} /\ worker'[v].key = k
            /\ worker'[v].since = worker[v].since
        BY <1>2, <2>3, <4>1
      <4> QED
        BY <4>1, <4>2 DEF InTime, ByWorker
    <3>3. CASE OnList(k, end)
      <4>1. PICK i \in 1 .. Len(cycle.todo) : cycle.todo[i] = k /\ Paced(i, end)
        BY <3>3 DEF OnList
      <4>2. i \in Nat
        BY <1>1, <4>1
      <4>3. Paced(i, end)'
        BY <1>5, <4>1, <4>2
      <4> QED
        BY <3>3, <4>1, <4>3 DEF InTime, OnList
    <3>4. CASE NextTick + CycleTime <= end
      BY <1>3, <3>4 DEF InTime
    <3>5. ~InSnapshot(k, end)
      BY <1>3 DEF InSnapshot
    <3> QED
      BY <3>1, <3>2, <3>3, <3>4, <3>5 DEF InTime
  <2> QED
    BY <2>1, <2>2, <2>3
<1> QED
  BY <1>6, <1>7, <1>8, <1>9 DEF LoopOK

LEMMA WorkerFresh ==
  ASSUME FreshInv, RefresherInv', FreshStore', [CallerStep]_vars,
         NEW w \in Workers, WorkerStep(w)
  PROVE  LoopOK' /\ FreshOK'
<1>1. /\ w \in Threads /\ Workers \subseteq Threads /\ RefresherInv /\ TypeOK
      /\ frame \in [Threads -> Frame] /\ worker \in [Workers -> Worker]
      /\ worker[w] \in Worker /\ failures \in [Keys -> [count : Nat, nextTry : Nat]]
      /\ worker[w].pc # "free" => worker[w].key \in Keys
      /\ Free \in Worker /\ Free.pc = "free" /\ Present' \subseteq Keys
  BY RefresherAssumption
     DEF FreshInv, RefresherInv, RefresherTypeOK, TypeOK, FramesOK, WorkersOK, Free, Worker, Present
<1>2. CASE Answered(w)
  <2>1. PICK m \in Answers : worker' = [worker EXCEPT ![w].pc = "answered",
                                                      ![w].resp = [msg |-> m, at |-> clock]]
    BY <1>2 DEF Answered
  <2> DEFINE r == [msg |-> m, at |-> clock]
             g == [worker[w] EXCEPT !.pc = "answered", !.resp = r]
  <2>2. r \in Response
    BY <1>1 DEF Response, TypeOK, MapOK
  <2>3. worker' = [worker EXCEPT ![w] = g]
    BY <1>1, <2>1
  <2> HIDE DEF r
  <2>4. /\ g \in Worker /\ g.pc = "answered" /\ g.key = worker[w].key
        /\ g.since = worker[w].since
    BY <1>1, <2>2 DEF Worker
  <2>5. /\ worker[w].pc = "query"
        /\ UNCHANGED <<frame, clock, serving, ticker, cycle, stopping, failures>>
    BY <1>2 DEF Answered, vars
  <2> HIDE DEF g
  <2>6. \A v \in Workers : worker'[v] = IF v = w THEN g ELSE worker[v]
    BY <1>1, <2>3
  <2>7. \A k : Behind(k) => Behind(k)'
    BY <2>4, <2>5, <2>6 DEF Behind
  <2> QED
    BY <2>3, <2>4, <2>5, <2>7, PlaceFresh
<1>3. CASE Failed(w)
  <2> DEFINE n == failures[worker[w].key].count + 1
  <2>1. /\ worker[w].pc \in {"query", "answered"} /\ worker' = [worker EXCEPT ![w] = Free]
        /\ UNCHANGED <<frame, clock, serving, ticker, cycle, stopping>>
        /\ failures' = [failures EXCEPT ![worker[w].key] =
                          [count |-> n, nextTry |-> clock + Wait(n)]]
    BY <1>3 DEF Failed, NoteFailure, vars
  <2>2. worker[w].key \in Keys /\ n \in Nat /\ n # 0
    BY <1>1, <2>1
  <2> HIDE DEF n
  <2>3. failures'[worker[w].key].count # NoFailure.count
    BY <1>1, <2>1, <2>2 DEF NoFailure
  <2>4. \A k \in Keys : k # worker[w].key => failures'[k] = failures[k]
    BY <1>1, <2>1
  <2>5. \A v \in Workers : worker'[v] = IF v = w THEN Free ELSE worker[v]
    BY <1>1, <2>1
  <2>6. \A k \in Keys : ~Behind(k)' => ~Behind(k) /\ worker[w].key # k
    BY <1>1, <2>1, <2>3, <2>4, <2>5 DEF Behind
  <2> QED
    BY <1>1, <2>1, <2>6, PlaceFresh
<1>4. CASE Succeeded(w)
  <2> DEFINE g == [worker[w] EXCEPT !.pc = "set"]
             f == [Idle EXCEPT !.pc = "publish", !.key = worker[w].key, !.time = clock,
                               !.resp = worker[w].resp]
  <2>1. /\ worker[w].pc = "answered" /\ worker' = [worker EXCEPT ![w] = g]
        /\ SetNow(w, worker[w].key, worker[w].resp)
        /\ failures' = [failures EXCEPT ![worker[w].key] = NoFailure]
        /\ UNCHANGED <<clock, serving, ticker, cycle, stopping>>
    BY <1>4 DEF Succeeded, SetNow
  <2>2. /\ g \in Worker /\ g.pc = "set" /\ g.key = worker[w].key /\ g.since = worker[w].since
    BY <1>1 DEF Worker
  <2>3. frame' = [frame EXCEPT ![w] = f] /\ f.key = worker[w].key
    BY <2>1 DEF SetNow, Idle
  <2> HIDE DEF g, f
  <2>4. /\ frame'[w].key = g.key
        /\ \A v \in Workers : v # w => frame'[v] = frame[v]
    BY <1>1, <2>2, <2>3
  <2>5. \A v \in Workers : worker'[v] = IF v = w THEN g ELSE worker[v]
    BY <1>1, <2>1
  <2>6. \A k \in Keys : k # worker[w].key => failures'[k] = failures[k]
    BY <1>1, <2>1
  <2>7. \A k \in Keys : ~Behind(k)' => ~Behind(k) /\ worker[w].key # k
    BY <2>1, <2>2, <2>5, <2>6 DEF Behind
  <2>8. \A k \in Present' : (~Behind(k)' /\ Kept(k)) =>
           \/ EntryOf(k).storedAt = clock
           \/ /\ ~Behind(k)
              /\ worker[w].key = k /\ worker[w].pc \in {"query", "answered"} =>
                   g.pc \in {"query", "answered"}
    BY <1>1, <2>7
  <2>9. /\ worker' = [worker EXCEPT ![w] = g] /\ worker[w].pc # "free"
        /\ g.pc # "free" => g.since = worker[w].since /\ g.key = worker[w].key
        /\ UNCHANGED <<clock, serving, ticker, cycle, stopping>>
    BY <2>1, <2>2
  <2> QED
    BY <2>2, <2>4, <2>8, <2>9, PlaceFresh
<1>5. CASE Refreshed(w)
  <2>1. /\ worker[w].pc = "set" /\ worker' = [worker EXCEPT ![w] = Free]
        /\ SetPublish(w) /\ frame' = [frame EXCEPT ![w] = Idle]
        /\ UNCHANGED <<clock, serving, ticker, cycle, stopping, failures>>
    BY <1>5 DEF Refreshed, SetPublish
  <2>2. PICK key \in Keys : frame[w].key = key /\ worker[w].key = key
    BY <1>1, <2>1 DEF FreshInv, LoopOK, ExchangeOK, Busy
  <2>3. Published(frame[w]).storedAt = clock
    BY <1>1, <2>1, PublishedNow DEF FreshInv, FreshStore
  <2>4. EntryOf(key)' = Published(frame[w])
    <3>1. PICK m \in MadeRoom(key) :
            /\ Store(m, Published(frame[w]))
            /\ m = entries \/ \E v \in Present : m = [entries EXCEPT ![v] = NoObj]
      BY <1>1, <2>1, <2>2, PublishStores
    <3>2. Published(frame[w]) \in Entry /\ Published(frame[w]).key = key
      BY <1>1, <2>1, <2>2, PublishStores
    <3>3. entries'[key] = NewObj(key) /\ heap'[NewObj(key)] = Published(frame[w])
      BY <1>1, <3>1, <3>2, Stored DEF Present
    <3> QED
      BY <3>3 DEF EntryOf
  <2>5. Kept(key) => EntryOf(key).storedAt = clock
    BY <2>3, <2>4 DEF Kept
  <2>6. \A v \in Workers : worker'[v] = IF v = w THEN Free ELSE worker[v]
    BY <1>1, <2>1
  <2>7. \A k : k # key /\ Behind(k) => Behind(k)'
    BY <1>1, <2>1, <2>2, <2>6 DEF Behind
  <2>8. \A v \in Workers : v # w => frame'[v] = frame[v]
    BY <1>1, <2>1
  <2> QED
    BY <1>1, <2>1, <2>5, <2>7, <2>8, PlaceFresh
<1>6. CASE Storing(w)
  <2> DEFINE h == EntryOf(frame[w].key).hits
             l == EntryOf(frame[w].key).lastHit
             locked == [frame[w] EXCEPT !.pc = "copy", !.hits = h]
             copied == [frame[w] EXCEPT !.pc = "insert", !.lastHit = l]
  <2>1. frame' = [frame EXCEPT ![w] = locked] \/ frame' = [frame EXCEPT ![w] = copied]
    BY <1>6 DEF Storing, SetLock, SetCopy
  <2>2. UNCHANGED <<clock, serving, ticker, cycle, stopping, worker, failures>>
    BY <1>6 DEF Storing, SetLock, SetCopy, refresherVars
  <2>3. worker[w].pc = "set" /\ frame[w].key = worker[w].key
    BY <1>1, <1>6 DEF Storing, FreshInv, LoopOK, ExchangeOK, Busy
  <2> HIDE DEF h, l
  <2>4. locked.key = frame[w].key /\ copied.key = frame[w].key
    BY <1>1 DEF Frame
  <2> HIDE DEF locked, copied
  <2>5. \A v \in Workers : v # w => frame'[v] = frame[v]
    BY <1>1, <2>1
  <2>6. worker' = [worker EXCEPT ![w] = worker[w]] /\ frame'[w].key = worker[w].key
    BY <1>1, <2>1, <2>2, <2>3, <2>4
  <2>7. \A k : Behind(k) => Behind(k)'
    BY <2>2 DEF Behind
  <2> QED
    BY <1>1, <2>2, <2>3, <2>5, <2>6, <2>7, PlaceFresh
<1> QED
  BY <1>2, <1>3, <1>4, <1>5, <1>6 DEF WorkerStep

LEMMA InitFresh == RefresherInit => FreshInv
<1> SUFFICES ASSUME RefresherInit PROVE FreshInv
  OBVIOUS
<1>1. /\ clock = StartTime /\ StartTime \in Nat /\ Interval \in Nat
      /\ frame = [t \in Threads |-> Idle] /\ pins = {} /\ entries = [k \in Keys |-> NoObj]
      /\ ticker = [next |-> StartTime, full |-> FALSE] /\ cycle = Waiting
      /\ worker = [w \in Workers |-> Free]
  BY CacheAssumption, RefresherAssumption DEF RefresherInit, Init
<1>2. ~serving
  BY DEF RefresherInit, Init
<1>3. /\ Live = {} /\ Present = {} /\ Busy = {} /\ cycle.pc = "wait"
      /\ ticker.next = StartTime /\ ticker.full = FALSE
      /\ \A t \in Threads : frame[t].pc = "idle"
  BY <1>1 DEF Live, Present, Idle, Busy, Free, Waiting
<1>4. RefresherInv /\ SizeInv /\ Addressed
  BY InitRefresher, InitSize, InitAddressed DEF RefresherInit
<1>5. FreshStore
  BY <1>1, <1>3, <1>4 DEF FreshStore, InstantOK, PastOK, LoadedOK, Momentary, InSet
<1>6. TickerOK
  BY <1>1, <1>2, <1>3 DEF TickerOK
<1>7. ExchangeOK /\ ListOK /\ SnapFresh /\ FreshOK
  BY <1>3 DEF ExchangeOK, ListOK, SnapFresh, FreshOK
<1> QED
  BY <1>4, <1>5, <1>6, <1>7 DEF FreshInv, LoopOK

LEMMA StepFresh ==
  ASSUME RowsOfThePast, Interval >= 2 * CycleTime
  PROVE  FreshInv /\ FewDue /\ [PromptNext]_rvars => FreshInv'
<1> SUFFICES ASSUME FreshInv, FewDue, [PromptNext]_rvars PROVE FreshInv'
  OBVIOUS
<1>1. [RefresherNext]_rvars /\ RefresherInv /\ (clock' # clock => Prompt)
  BY DEF PromptNext, FreshInv, rvars, vars
<1>2. [CallerStep]_vars /\ RefresherInv' /\ FreshStore'
  BY <1>1, RefresherCalls, StepRefresher, FreshStoreStep DEF FreshInv
<1>3. CASE UNCHANGED rvars
  BY <1>2, <1>3, ElsewhereFresh DEF rvars, vars, refresherVars, FreshInv
<1>4. CASE RefresherTick
  <2>1. clock' # clock
    BY <1>1, <1>4, LoopTypes DEF RefresherTick, Tick
  <2> QED
    BY <1>1, <1>2, <1>4, <2>1, TickFresh DEF FreshInv
<1>5. CASE Start
  BY <1>2, <1>5, StartFresh DEF FreshInv
<1>6. CASE Stop
  BY <1>2, <1>6, ElsewhereFresh DEF Stop, vars, FreshInv
<1>7. ASSUME NEW e \in Rows, LoadEntry(e), UNCHANGED refresherVars PROVE FreshInv'
  BY <1>2, <1>7, ElsewhereFresh DEF LoadEntry, refresherVars, FreshInv
<1>8. ASSUME NEW c \in Clients, ClientStep(c) PROVE FreshInv'
  <2>1. (\E f : frame' = [frame EXCEPT ![c] = f]) /\ UNCHANGED <<clock, serving>>
    BY <1>1, <1>8, LoopTypes, ClientAside
  <2>2. frame \in [Threads -> Frame] /\ Workers \subseteq Threads /\ c \notin Workers
    BY <1>1, <1>8, RefresherAssumption DEF RefresherInv, RefresherTypeOK, TypeOK, FramesOK
  <2>3. \A w \in Workers : frame'[w] = frame[w]
    BY <2>1, <2>2
  <2>4. UNCHANGED refresherVars
    BY <1>8 DEF ClientStep
  <2> QED
    BY <1>2, <2>1, <2>3, <2>4, ElsewhereFresh DEF refresherVars, FreshInv
<1>9. CASE LoopStep
  BY <1>2, <1>9, BeginFresh, PruneFresh, SelectFresh, CheckFresh, DispatchFresh, EndFresh
     DEF LoopStep, FreshInv
<1>10. CASE \E w \in Workers : WorkerStep(w)
  BY <1>2, <1>10, WorkerFresh DEF FreshInv
<1> QED
  BY <1>1, <1>3, <1>4, <1>5, <1>6, <1>7, <1>8, <1>9, <1>10 DEF RefresherNext

(* What is still to come in time comes before the end.                     *)
LEMMA FreshEnough == FreshInv => KeptFresh
<1> SUFFICES ASSUME FreshInv, NEW k \in Present, Expected(k)
             PROVE  clock - EntryOf(k).storedAt <= Life(EntryOf(k))
  BY DEF KeptFresh, Expected, Promised
<1>1. /\ RefresherInv /\ TypeOK /\ TickerOK /\ ExchangeOK /\ LoadedOK
      /\ clock \in Nat /\ cycle.todo \in Seq(Keys) /\ Len(cycle.todo) \in Nat
      /\ NextTick \in Nat /\ CycleTime \in Nat /\ MaxRTT \in Nat /\ StartTime \in Nat
      /\ \A w \in Workers : worker[w].since \in Nat
  BY LoopTypes, RoundsEnough, CacheAssumption DEF FreshInv, FreshStore, LoopOK
<1>2. EntryOf(k) \in Entry
  <2>1. entries[k] \in Live
    BY DEF Present, Live
  <2> QED
    BY <1>1, <2>1 DEF TypeOK, HeapOK, EntryOf
<1>3. PICK end \in Nat : end = EndOfLife(EntryOf(k))
  BY <1>2, LifeType
<1>4. InTime(k, end)
  BY <1>3 DEF FreshInv, FreshOK
<1>5. serving
  <2>1. EntryOf(k).storedAt \in Nat /\ EntryOf(k).storedAt >= StartTime
    BY <1>2, LifeType DEF Expected, Promised
  <2>2. ~serving => EntryOf(k).storedAt < StartTime
    BY <1>1 DEF LoadedOK
  <2>3. ~(EntryOf(k).storedAt < StartTime)
    BY <1>1, <2>1
  <2> QED
    BY <2>2, <2>3
<1>6. CASE ByWorker(k, end)
  <2>1. PICK w \in Workers : worker[w].pc # "free" /\ worker[w].since + MaxRTT <= end
    BY <1>6 DEF ByWorker
  <2>2. clock <= worker[w].since + MaxRTT
    BY <1>1, <2>1 DEF ExchangeOK, Busy
  <2>3. clock <= end
    BY <1>1, <2>1, <2>2
  <2> QED
    BY <1>1, <1>2, <1>3, <2>3, LifeType DEF EndOfLife
<1>7. CASE OnList(k, end)
  <2>1. PICK i \in 1 .. Len(cycle.todo) : Paced(i, end)
    BY <1>7 DEF OnList
  <2>2. clock + MaxRTT <= end
    BY <1>1, <2>1, PacedNow
  <2> QED
    BY <1>1, <1>2, <1>3, <2>2, LifeType DEF EndOfLife
<1>8. CASE InSnapshot(k, end)
  BY <1>1, <1>2, <1>3, <1>8, LifeType DEF InSnapshot, EndOfLife
<1>9. CASE NextTick + CycleTime <= end
  <2>1. clock <= NextTick
    BY <1>1, <1>5, TickType
  <2> QED
    BY <1>1, <1>2, <1>3, <1>9, <2>1, LifeType DEF EndOfLife
<1> QED
  BY <1>4, <1>6, <1>7, <1>8, <1>9 DEF InTime

(* While the program is prompt and no cycle finds more than MaxDue names   *)
(* due, the entry of a usual name is never older than its life, if a tick  *)
(* and a cycle fit in it: selectCandidates puts the name on the list of a  *)
(* cycle, and the semaphore lets its worker through, before that life      *)
(* ends, whatever queries store, use or evict meanwhile and in whichever   *)
(* order the workers come back.                                            *)
THEOREM NamesKeptFresh == RowsOfThePast => (PromptSpec /\ []FewDue => []KeptFresh)
<1>1. CASE Interval >= 2 * CycleTime
  <2> SUFFICES ASSUME RowsOfThePast PROVE PromptSpec /\ []FewDue => []KeptFresh
    OBVIOUS
  <2>1. FreshInv /\ FewDue /\ [PromptNext]_rvars => FreshInv'
    BY <1>1, StepFresh
  <2>2. [RefresherNext /\ (clock' # clock => Prompt)]_rvars => [PromptNext]_rvars
    BY DEF PromptNext
  <2> QED
    BY <2>1, <2>2, InitFresh, FreshEnough, PTL DEF PromptSpec
<1>2. CASE ~(Interval >= 2 * CycleTime)
  <2>1. KeptFresh
    BY <1>2 DEF KeptFresh, Fits
  <2> QED
    BY <2>1, PTL
<1> QED
  BY <1>1, <1>2
=============================================================================
