---------------------------- MODULE HandlerProofs ----------------------------
(***************************************************************************)
(* Theorems about module Handler, for every value of its constants.        *)
(***************************************************************************)
EXTENDS Handler, CacheProofs

(* Before it serves the program only loads rows, and the handler takes no  *)
(* snapshots.                                                              *)
Quiet ==
  /\ pins = {}
  /\ ~serving => /\ \A t \in Threads : At(t, "idle")
                 /\ \A k \in Keys : flight[k] = NoFlight /\ newest[k] = 0
                 /\ \A c \in Clients : query[c] = NoQuery

(* A flight has the outcome its place says; in Set, the cache call of its  *)
(* key is about that answer.                                               *)
FlightsOK ==
  \A k \in Keys :
    /\ flight[k].pc = "none" => flight[k].waiters = {}
    /\ flight[k].pc \in {"answered", "set"} => flight[k].resp \in Response
    /\ flight[k].pc = "finish" => flight[k].resp \in Response \cup {Failure}
    /\ flight[k].pc = "set" => frame[k].key = k /\ frame[k].resp = flight[k].resp

(* A client that waits is among those its flight wakes, and a flight wakes *)
(* nobody else.                                                            *)
WaitersHaveAFlight ==
  \A c \in Clients, k \in Keys :
    c \in flight[k].waiters <=> Doing(c, "wait") /\ query[c].key = k

(* A client has been given a message, makes no Set call itself, and works  *)
(* on an entry of the name it was asked for.                               *)
ClientsOK ==
  \A c \in Clients :
    /\ Doing(c, "fetched") => query[c].resp \in Response
    /\ frame[c].pc \notin InSet
    /\ frame[c].obj # NoObj => frame[c].obj \in {query[c].key} \X Slots

HandlerInv ==
  /\ HandlerTypeOK /\ Addressed
  /\ Quiet /\ FlightsOK /\ ClientsOK
  /\ WaitersHaveAFlight /\ DeliveredIsCached

----------------------------------------------------------------------------
LEMMA InitHandler == HandlerInit => HandlerInv
<1> SUFFICES ASSUME HandlerInit PROVE HandlerInv
  OBVIOUS
<1>1. TypeOK /\ Addressed
  BY InitType, InitAddressed DEF HandlerInit
<1>2. /\ query = [c \in Clients |-> NoQuery] /\ flight = [k \in Keys |-> NoFlight]
      /\ newest = [k \in Keys |-> 0] /\ pins = {}
      /\ frame = [t \in Threads |-> Idle] /\ Clients \subseteq Threads /\ Keys \subseteq Threads
  BY HandlerAssumption DEF HandlerInit, Init
<1>3. HandlerTypeOK
  BY <1>1, <1>2 DEF HandlerTypeOK, NoQuery, NoFlight, Query, Flight, Outcome, Doing, At, Idle,
     InSet
<1>4. Quiet /\ FlightsOK /\ ClientsOK
  BY <1>2 DEF Quiet, FlightsOK, ClientsOK, NoQuery, NoFlight, Doing, At, Idle, InSet
<1>5. WaitersHaveAFlight /\ DeliveredIsCached
  BY <1>2 DEF WaitersHaveAFlight, DeliveredIsCached, NoQuery, NoFlight, Doing
<1> QED
  BY <1>1, <1>3, <1>4, <1>5 DEF HandlerInv

(* Every step of the handler is one of a caller of the cache.              *)
LEMMA HandlerCalls == HandlerInv /\ [HandlerNext]_hvars => [CallerStep]_vars
<1> SUFFICES ASSUME HandlerInv, [HandlerNext]_hvars PROVE [CallerStep]_vars
  OBVIOUS
<1> USE DEF HandlerInv, HandlerTypeOK
<1>0. Threads = Clients \cup Keys
  BY HandlerAssumption
<1>1. CASE UNCHANGED hvars
  BY <1>1 DEF hvars
<1>2. CASE Tick \/ StartServing \/ \E e \in Rows : LoadEntry(e)
  BY <1>2 DEF CallerStep
<1>3. ASSUME NEW c \in Clients, NEW k \in Keys, Arrive(c, k) PROVE CallerStep
  BY <1>0, <1>3 DEF Arrive, CallerStep
<1>4. ASSUME NEW c \in Clients, QueryStep(c) PROVE CallerStep \/ UNCHANGED vars
  <2>1. Doing(c, "failed") => query[c].key \in Keys
    BY DEF Doing
  <2> QED
    BY <1>0, <1>4, <2>1 DEF QueryStep, GetStep, Hit, Miss, Join, RespondHit, RespondFetched,
       TryStale, StaleStep, RespondStale, Return, CallerStep, CallStep
<1>5. ASSUME NEW k \in Keys, FlightStep(k) PROVE CallerStep \/ UNCHANGED vars
  <2>1. flight[k].pc = "answered" => flight[k].resp \in Response
    BY DEF FlightsOK
  <2> QED
    BY <1>0, <1>5, <2>1 DEF FlightStep, Answered, Failed, CacheAnswer, SkipCache, Storing,
       Publish, Deliver, CallerStep, CallStep
<1> QED
  BY <1>1, <1>2, <1>3, <1>4, <1>5 DEF HandlerNext

(* A Set call is the one of a flight, about its key and its answer.        *)
LEMMA PublishIsOfAFlight ==
  ASSUME HandlerInv, NEW t \in Threads, SetPublish(t)
  PROVE  /\ t \in Keys /\ flight[t].pc = "set" /\ flight[t].resp \in Response
         /\ frame[t].key = t /\ frame[t].resp = flight[t].resp /\ serving
<1>1. frame[t].pc \in InSet /\ ~At(t, "idle")
  BY DEF SetPublish, At, InSet
<1>2. t \in Keys
  BY <1>1, HandlerAssumption DEF HandlerInv, ClientsOK
<1>3. flight[t].pc = "set"
  BY <1>1, <1>2 DEF HandlerInv, HandlerTypeOK, At
<1>4. serving
  BY <1>1 DEF HandlerInv, Quiet
<1> QED
  BY <1>2, <1>3, <1>4 DEF HandlerInv, FlightsOK

----------------------------------------------------------------------------
(* What a step of a call does to the frames.                               *)
LEMMA FramesChange ==
  ASSUME TypeOK, NEW t \in Threads
  PROVE  /\ \A k \in Keys : GetLookup(t, k) \/ StaleLookup(t, k) =>
              /\ At(t, "idle") /\ serving
              /\ \E f \in Frame : /\ frame' = [frame EXCEPT ![t] = f]
                                  /\ f.pc # "idle" /\ f.pc \notin InSet
                                  /\ f.obj \in {entries[k], NoObj}
              /\ UNCHANGED <<serving, entries, heap, pins>>
         /\ (\/ GetNow(t) \/ GetTouch(t) \/ GetMark(t) \/ GetServe(t)
             \/ StaleServe(t) \/ StaleNow(t) \/ StaleTouch(t)) =>
              /\ frame[t].pc \in InGet
              /\ \E f \in Frame : /\ frame' = [frame EXCEPT ![t] = f]
                                  /\ f.pc # "idle" /\ f.pc \notin InSet
                                  /\ f.obj \in {frame[t].obj, NoObj}
              /\ UNCHANGED <<serving, entries, pins>>
         /\ SetLock(t) \/ SetCopy(t) =>
              /\ frame[t].pc \in InSet
              /\ \E f \in Frame : /\ frame' = [frame EXCEPT ![t] = f]
                                  /\ f.pc \in InSet /\ f.obj = frame[t].obj
                                  /\ f.key = frame[t].key /\ f.resp = frame[t].resp
              /\ UNCHANGED <<serving, entries, heap, pins>>
         /\ Release(t) => /\ At(t, "done") /\ frame' = [frame EXCEPT ![t] = Idle]
                          /\ UNCHANGED <<serving, entries, pins>>
         /\ SetPublish(t) => /\ frame[t].pc \in InSet
                             /\ frame' = [frame EXCEPT ![t] = Idle]
                             /\ UNCHANGED <<serving, pins>>
<1>1. frame[t] \in Frame /\ clock \in Nat
  BY DEF TypeOK, FramesOK, MapOK
<1> USE DEF InGet, InSet
<1>2. ASSUME NEW k \in Keys, GetLookup(t, k)
      PROVE  \E f \in Frame : /\ frame' = [frame EXCEPT ![t] = f]
                              /\ f.pc # "idle" /\ f.pc \notin InSet
                              /\ f.obj \in {entries[k], NoObj}
  <2> DEFINE f == [Idle EXCEPT !.pc = IF entries[k] = NoObj THEN "done" ELSE "now",
                               !.key = k, !.obj = entries[k]]
  <2>1. f \in Frame /\ f.pc \in {"done", "now"} /\ f.obj = entries[k]
    BY DEF Frame, TypeOK, MapOK, Idle
  <2>2. frame' = [frame EXCEPT ![t] = f]
    BY <1>2 DEF GetLookup, Calls
  <2> HIDE DEF f
  <2> QED
    BY <2>1, <2>2
<1>3. ASSUME NEW k \in Keys, StaleLookup(t, k)
      PROVE  \E f \in Frame : /\ frame' = [frame EXCEPT ![t] = f]
                              /\ f.pc # "idle" /\ f.pc \notin InSet
                              /\ f.obj \in {entries[k], NoObj}
  <2> DEFINE found == StaleServing /\ entries[k] # NoObj
             f == [Idle EXCEPT !.pc = IF found THEN "stale" ELSE "done", !.key = k,
                               !.obj = IF found THEN entries[k] ELSE NoObj]
  <2>1. f \in Frame /\ f.pc \in {"stale", "done"} /\ f.obj \in {entries[k], NoObj}
    BY DEF Frame, TypeOK, MapOK, Idle
  <2>2. frame' = [frame EXCEPT ![t] = f]
    BY <1>3 DEF StaleLookup, Calls
  <2> HIDE DEF f
  <2> QED
    BY <2>1, <2>2
<1>4. ASSUME \/ GetNow(t) \/ GetTouch(t) \/ GetMark(t) \/ GetServe(t)
             \/ StaleServe(t) \/ StaleNow(t) \/ StaleTouch(t)
      PROVE  \E f \in Frame : /\ frame' = [frame EXCEPT ![t] = f]
                              /\ f.pc # "idle" /\ f.pc \notin InSet
                              /\ f.obj \in {frame[t].obj, NoObj}
  <2> DEFINE now(pc) == [frame[t] EXCEPT !.pc = pc, !.time = clock]
             goes(pc) == [frame[t] EXCEPT !.pc = pc]
             missed == [frame[t] EXCEPT !.pc = "done", !.obj = NoObj]
  <2>1. /\ \A pc \in {"touch", "retouch"} :
             now(pc) \in Frame /\ now(pc).pc = pc /\ now(pc).obj = frame[t].obj
        /\ \A pc \in {"mark", "serve", "again", "done"} :
             goes(pc) \in Frame /\ goes(pc).pc = pc /\ goes(pc).obj = frame[t].obj
        /\ missed \in Frame /\ missed.pc = "done" /\ missed.obj = NoObj
    BY <1>1 DEF Frame
  <2>2. \/ \E pc \in {"touch", "retouch"} : frame' = [frame EXCEPT ![t] = now(pc)]
        \/ \E pc \in {"mark", "serve", "again", "done"} :
             frame' = [frame EXCEPT ![t] = goes(pc)]
        \/ frame' = [frame EXCEPT ![t] = missed]
    BY <1>4 DEF GetNow, GetTouch, GetMark, GetServe, StaleServe, StaleNow, StaleTouch
  <2> HIDE DEF now, goes, missed
  <2> QED
    BY <2>1, <2>2
<1>5. \A k \in Keys : GetLookup(t, k) \/ StaleLookup(t, k) =>
        At(t, "idle") /\ serving /\ UNCHANGED <<serving, entries, heap, pins>>
  BY DEF GetLookup, StaleLookup
<1>6. (\/ GetNow(t) \/ GetTouch(t) \/ GetMark(t) \/ GetServe(t)
       \/ StaleServe(t) \/ StaleNow(t) \/ StaleTouch(t)) =>
        frame[t].pc \in InGet /\ UNCHANGED <<serving, entries, pins>>
  BY DEF GetNow, GetTouch, GetMark, GetServe, StaleServe, StaleNow, StaleTouch, At
<1>7. ASSUME SetLock(t) \/ SetCopy(t)
      PROVE  /\ frame[t].pc \in InSet
             /\ \E f \in Frame : /\ frame' = [frame EXCEPT ![t] = f]
                                 /\ f.pc \in InSet /\ f.obj = frame[t].obj
                                 /\ f.key = frame[t].key /\ f.resp = frame[t].resp
             /\ UNCHANGED <<serving, entries, heap, pins>>
  <2>1. frame[t].key \in Present
    BY <1>7 DEF SetLock, SetCopy, At, Copying, TypeOK, LockOK
  <2>2. EntryOf(frame[t].key) \in Entry
    BY <2>1 DEF EntryOf, Present, Live, TypeOK, HeapOK
  <2> DEFINE h == EntryOf(frame[t].key).hits
             l == EntryOf(frame[t].key).lastHit
             locked == [frame[t] EXCEPT !.pc = "copy", !.hits = h]
             copied == [frame[t] EXCEPT !.pc = "insert", !.lastHit = l]
  <2>3. h \in Nat /\ l \in Nat
    BY <2>2 DEF Entry
  <2>4. frame' = [frame EXCEPT ![t] = locked] \/ frame' = [frame EXCEPT ![t] = copied]
    BY <1>7 DEF SetLock, SetCopy
  <2> HIDE DEF h, l
  <2>5. /\ locked \in Frame /\ locked.pc = "copy" /\ locked.obj = frame[t].obj
        /\ locked.key = frame[t].key /\ locked.resp = frame[t].resp
        /\ copied \in Frame /\ copied.pc = "insert" /\ copied.obj = frame[t].obj
        /\ copied.key = frame[t].key /\ copied.resp = frame[t].resp
    BY <1>1, <2>3 DEF Frame
  <2> HIDE DEF locked, copied
  <2>6. frame[t].pc \in InSet /\ UNCHANGED <<serving, entries, heap, pins>>
    BY <1>7 DEF SetLock, SetCopy, At
  <2> QED
    BY <2>4, <2>5, <2>6
<1>8. SetPublish(t) => /\ frame[t].pc \in InSet
                       /\ frame' = [frame EXCEPT ![t] = Idle]
                       /\ UNCHANGED <<serving, pins>>
  BY DEF SetPublish, At
<1> QED
  BY <1>2, <1>3, <1>4, <1>5, <1>6, <1>7, <1>8 DEF Release

(* The conjuncts of the invariant that say where each goroutine is.        *)
Places ==
  /\ HandlerTypeOK /\ Quiet /\ FlightsOK /\ ClientsOK /\ WaitersHaveAFlight

(* A client goes from one place to another, and may join a flight.         *)
LEMMA ClientPlaces ==
  ASSUME HandlerInv, TypeOK', serving, NEW c \in Clients, NEW q \in Query, NEW f \in Frame,
         query' = [query EXCEPT ![c] = q], frame' = [frame EXCEPT ![c] = f],
         UNCHANGED <<serving, pins>>, newest' \in [Keys -> Nat],
         q.pc = "hit" => f.pc = "done" /\ f.obj # NoObj,
         q.pc \notin {"get", "hit", "stale"} => f.pc = "idle",
         q.pc # "idle" => q.key \in Keys,
         q.pc = "fetched" => q.resp \in Response,
         f.pc \notin InSet,
         f.obj # NoObj => f.obj \in {q.key} \X Slots,
         \/ /\ flight' = flight
            /\ q.pc = "wait" <=> Doing(c, "wait")
            /\ q.pc = "wait" => q.key = query[c].key
         \/ /\ ~Doing(c, "wait")
            /\ \E w \in {{}, {c}} : /\ flight' = [flight EXCEPT ![q.key] = JoinFlight(q.key, w)]
                                    /\ w = {c} <=> q.pc = "wait"
            /\ q.key \in Keys
  PROVE  Places'
<1> USE DEF HandlerInv
<1>1. c \in Threads /\ c \notin Keys /\ Keys \subseteq Threads /\ Clients \subseteq Threads
  BY HandlerAssumption
<1>2. \A t \in Threads : frame'[t] = IF t = c THEN f ELSE frame[t]
  BY <1>1 DEF HandlerTypeOK, TypeOK, FramesOK
<1>3. \A d \in Clients : query'[d] = IF d = c THEN q ELSE query[d]
  BY DEF HandlerTypeOK
<1>4. /\ flight' \in [Keys -> Flight]
      /\ \A k \in Keys : /\ flight'[k].pc = "none" => flight'[k].waiters = {}
                         /\ \/ flight'[k].pc = flight[k].pc /\ flight'[k].resp = flight[k].resp
                            \/ flight'[k].pc = "query" /\ flight[k].pc = "none"
                         /\ \A d \in Clients : d \in flight'[k].waiters <=>
                              \/ d \in flight[k].waiters
                              \/ d = c /\ k = q.key /\ q.pc = "wait"
  <2>1. CASE /\ flight' = flight
             /\ q.pc = "wait" <=> Doing(c, "wait")
             /\ q.pc = "wait" => q.key = query[c].key
    BY <2>1 DEF HandlerTypeOK, FlightsOK, WaitersHaveAFlight
  <2>2. ASSUME q.key \in Keys, NEW w \in {{}, {c}}, w = {c} <=> q.pc = "wait",
               flight' = [flight EXCEPT ![q.key] = JoinFlight(q.key, w)]
        PROVE  <1>4!1 /\ <1>4!2
    <3>1. JoinFlight(q.key, w) \in Flight
      BY <2>2 DEF JoinFlight, NoFlight, Flight, Outcome, HandlerTypeOK
    <3>2. flight' \in [Keys -> Flight]
      BY <2>2, <3>1 DEF HandlerTypeOK
    <3>3. \A k \in Keys : flight'[k] = IF k = q.key THEN JoinFlight(q.key, w) ELSE flight[k]
      BY <2>2 DEF HandlerTypeOK
    <3> DEFINE j == q.key
    <3>4. flight[j] \in Flight
      BY <2>2 DEF HandlerTypeOK
    <3>5. CASE flight[j].pc = "none"
      <4>1. /\ flight'[j].pc = "query" /\ flight'[j].waiters = w
            /\ flight[j].waiters = {}
        BY <2>2, <3>3, <3>5 DEF JoinFlight, NoFlight, FlightsOK
      <4> QED
        BY <2>2, <3>2, <3>3, <4>1, <3>5 DEF FlightsOK
    <3>6. CASE flight[j].pc # "none"
      <4>1. /\ flight'[j].pc = flight[j].pc /\ flight'[j].resp = flight[j].resp
            /\ flight'[j].waiters = flight[j].waiters \cup w
        BY <2>2, <3>3, <3>4, <3>6 DEF JoinFlight, Flight
      <4> QED
        BY <2>2, <3>2, <3>3, <4>1, <3>6 DEF FlightsOK
    <3> QED
      BY <3>5, <3>6
  <2> QED
    BY <2>1, <2>2
<1>5. HandlerTypeOK'
  <2>1. query' \in [Clients -> Query]
    BY DEF HandlerTypeOK
  <2>2. ASSUME NEW d \in Clients
        PROVE  /\ Doing(d, "hit")' => At(d, "done")' /\ frame'[d].obj # NoObj
               /\ query'[d].pc \notin {"get", "hit", "stale"} => At(d, "idle")'
               /\ query'[d].pc # "idle" => query'[d].key \in Keys
    BY <1>1, <1>2, <1>3 DEF HandlerTypeOK, Doing, At
  <2>3. \A k \in Keys : IF flight'[k].pc = "set" THEN frame'[k].pc \in InSet
                                              ELSE At(k, "idle")'
    BY <1>1, <1>2, <1>4 DEF HandlerTypeOK, At
  <2> QED
    BY <1>4, <2>1, <2>2, <2>3 DEF HandlerTypeOK
<1>6. FlightsOK'
  BY <1>1, <1>2, <1>4 DEF FlightsOK
<1>7. ClientsOK'
  BY <1>1, <1>2, <1>3 DEF ClientsOK, Doing, At
<1>8. WaitersHaveAFlight'
  BY <1>3, <1>4 DEF WaitersHaveAFlight, Doing
<1>9. Quiet'
  BY DEF Quiet
<1> QED
  BY <1>5, <1>6, <1>7, <1>8, <1>9 DEF Places

(* A flight goes on to its next place with the same waiters.               *)
LEMMA FlightPlaces ==
  ASSUME HandlerInv, TypeOK', serving, NEW k \in Keys, NEW g \in Flight, NEW f \in Frame,
         flight' = [flight EXCEPT ![k] = g], frame' = [frame EXCEPT ![k] = f],
         UNCHANGED <<serving, pins, query, newest>>,
         g.waiters = flight[k].waiters, g.pc # "none",
         g.pc \in {"answered", "set"} => g.resp \in Response,
         g.pc = "finish" => g.resp \in Response \cup {Failure},
         IF g.pc = "set" THEN f.pc \in InSet ELSE f.pc = "idle",
         g.pc = "set" => f.key = k /\ f.resp = g.resp
  PROVE  Places'
<1> USE DEF HandlerInv
<1>1. k \in Threads /\ k \notin Clients /\ Keys \subseteq Threads /\ Clients \subseteq Threads
  BY HandlerAssumption
<1>2. \A t \in Threads : frame'[t] = IF t = k THEN f ELSE frame[t]
  BY <1>1 DEF HandlerTypeOK, TypeOK, FramesOK
<1>3. \A j \in Keys : flight'[j] = IF j = k THEN g ELSE flight[j]
  BY DEF HandlerTypeOK
<1>4. HandlerTypeOK'
  <2>1. flight' \in [Keys -> Flight]
    BY DEF HandlerTypeOK
  <2>2. ASSUME NEW d \in Clients
        PROVE  /\ Doing(d, "hit")' => At(d, "done")' /\ frame'[d].obj # NoObj
               /\ query'[d].pc \notin {"get", "hit", "stale"} => At(d, "idle")'
               /\ query'[d].pc # "idle" => query'[d].key \in Keys
    BY <1>1, <1>2 DEF HandlerTypeOK, Doing, At
  <2>3. \A j \in Keys : IF flight'[j].pc = "set" THEN frame'[j].pc \in InSet
                                              ELSE At(j, "idle")'
    BY <1>1, <1>2, <1>3 DEF HandlerTypeOK, At
  <2> QED
    BY <2>1, <2>2, <2>3 DEF HandlerTypeOK
<1>5. FlightsOK'
  BY <1>1, <1>2, <1>3 DEF FlightsOK
<1>6. ClientsOK'
  BY <1>1, <1>2 DEF ClientsOK, Doing, At
<1>7. WaitersHaveAFlight'
  BY <1>3 DEF WaitersHaveAFlight, Doing
<1>8. Quiet'
  BY DEF Quiet
<1> QED
  BY <1>4, <1>5, <1>6, <1>7, <1>8 DEF Places

LEMMA QueryPlaces ==
  ASSUME HandlerInv, TypeOK', NEW c \in Clients,
         QueryStep(c) \/ \E k \in Keys : Arrive(c, k)
  PROVE  Places'
<1> USE DEF HandlerInv
<1>1. c \in Threads /\ c \notin Keys /\ Keys \subseteq Threads /\ Clients \subseteq Threads
  BY HandlerAssumption
<1>2. /\ query[c] \in Query /\ frame[c] \in Frame /\ frame[c].obj \in {query[c].key} \X Slots \cup {NoObj}
      /\ frame[c].pc \notin InSet
      /\ frame[c].pc = "idle" => frame[c].obj = NoObj
      /\ newest \in [Keys -> Nat]
  BY <1>1 DEF HandlerTypeOK, TypeOK, FramesOK, FrameOK, ClientsOK, At
<1>3. /\ frame = [frame EXCEPT ![c] = frame[c]]
      /\ Idle \in Frame /\ Idle.pc = "idle" /\ Idle.obj = NoObj
  BY <1>1, IdleOK DEF HandlerTypeOK, TypeOK, FramesOK, FrameOK, Idle
<1>18. Idle.pc \notin InSet
  BY DEF Idle, InSet
<1>4. query[c].pc # "idle" => serving
  BY DEF Quiet, NoQuery
<1>5. ASSUME NEW pc \in {"hit", "miss", "wait", "stale"}
      PROVE  LET q == [query[c] EXCEPT !.pc = pc]
             IN  q \in Query /\ q.pc = pc /\ q.key = query[c].key
  BY <1>2 DEF Query
<1>6. ASSUME NEW k \in Keys, Arrive(c, k) PROVE Places'
  <2> DEFINE q == [pc |-> "get", key |-> k, resp |-> NoResp, floor |-> newest[k]]
  <2>1. /\ q \in Query /\ q.pc = "get" /\ q.key = k /\ ~Doing(c, "wait")
        /\ query' = [query EXCEPT ![c] = q]
    BY <1>2, <1>6 DEF Arrive, Query, Outcome, Doing, NoQuery
  <2>2. PICK f \in Frame : /\ frame' = [frame EXCEPT ![c] = f]
                           /\ f.pc # "idle" /\ f.pc \notin InSet
                           /\ f.obj \in {entries[k], NoObj}
    BY <1>1, <1>6, FramesChange DEF Arrive, HandlerTypeOK
  <2>3. f.obj # NoObj => f.obj \in {k} \X Slots
    BY <2>2 DEF Addressed, Present
  <2>4. serving /\ UNCHANGED <<serving, pins, flight, newest>>
    BY <1>6 DEF Arrive, GetLookup
  <2> HIDE DEF q
  <2> QED
    BY <1>2, <2>1, <2>2, <2>3, <2>4, ClientPlaces
<1>7. CASE GetStep(c) \/ StaleStep(c)
  <2>1. UNCHANGED handlerVars /\ frame[c].pc \notin {"idle", "done"}
    BY <1>7 DEF GetStep, StaleStep, GetNow, GetTouch, GetMark, GetServe, StaleServe,
       StaleNow, StaleTouch, At
  <2>2. query[c].pc \in {"get", "stale"}
    BY <2>1, <1>2 DEF HandlerTypeOK, Doing, At, Query
  <2>3. PICK f \in Frame : /\ frame' = [frame EXCEPT ![c] = f]
                           /\ f.pc # "idle" /\ f.pc \notin InSet
                           /\ f.obj \in {frame[c].obj, NoObj}
                           /\ UNCHANGED <<serving, pins>>
    BY <1>1, <1>7, FramesChange DEF GetStep, StaleStep, HandlerTypeOK
  <2>4. query' = [query EXCEPT ![c] = query[c]] /\ UNCHANGED <<flight, newest>>
    BY <2>1 DEF handlerVars, HandlerTypeOK
  <2>5. query[c].key \in Keys
    BY <2>2 DEF HandlerTypeOK
  <2> QED
    BY <1>2, <1>4, <2>2, <2>3, <2>4, <2>5, ClientPlaces DEF Doing
<1>8. CASE Hit(c)
  <2> DEFINE q == [query[c] EXCEPT !.pc = "hit"]
  <2>1. q \in Query /\ q.pc = "hit" /\ q.key = query[c].key /\ query' = [query EXCEPT ![c] = q]
    BY <1>5, <1>8 DEF Hit
  <2>2. /\ query[c].pc = "get" /\ query[c].key \in Keys
        /\ frame[c].pc = "done" /\ frame[c].obj # NoObj
        /\ UNCHANGED <<serving, pins, frame, newest>>
    BY <1>8 DEF Hit, HandlerTypeOK, Doing, At, vars
  <2>3. \/ flight' = flight
        \/ flight' = [flight EXCEPT ![q.key] = JoinFlight(q.key, {})]
    BY <1>8, <2>1 DEF Hit
  <2> HIDE DEF q
  <2> QED
    BY <1>2, <1>3, <1>4, <2>1, <2>2, <2>3, ClientPlaces DEF Doing
<1>9. CASE Miss(c)
  <2> DEFINE q == [query[c] EXCEPT !.pc = "miss"]
  <2>1. q \in Query /\ q.pc = "miss" /\ q.key = query[c].key /\ query' = [query EXCEPT ![c] = q]
    BY <1>5, <1>9 DEF Miss
  <2>2. /\ query[c].pc = "get" /\ query[c].key \in Keys
        /\ frame' = [frame EXCEPT ![c] = Idle]
        /\ UNCHANGED <<serving, pins, flight, newest>>
    BY <1>9 DEF Miss, Release, HandlerTypeOK, Doing
  <2> HIDE DEF q
  <2> QED
    BY <1>2, <1>3, <1>4, <1>18, <2>1, <2>2, ClientPlaces DEF Doing
<1>10. CASE Join(c)
  <2> DEFINE q == [query[c] EXCEPT !.pc = "wait"]
  <2>1. q \in Query /\ q.pc = "wait" /\ q.key = query[c].key /\ query' = [query EXCEPT ![c] = q]
    BY <1>5, <1>10 DEF Join
  <2>2. /\ query[c].pc = "miss" /\ query[c].key \in Keys /\ frame[c].pc = "idle"
        /\ flight' = [flight EXCEPT ![q.key] = JoinFlight(q.key, {c})]
        /\ UNCHANGED <<serving, pins, frame, newest>>
    BY <1>10, <2>1 DEF Join, HandlerTypeOK, Doing, At, vars
  <2> HIDE DEF q
  <2> QED
    BY <1>2, <1>3, <1>4, <2>1, <2>2, ClientPlaces DEF Doing
<1>11. ASSUME NEW r \in Outcome, Replies(c, r), query[c].pc \in {"hit", "fetched", "stale"},
              r # Failure => r \in Response,
              UNCHANGED <<serving, pins, flight>>,
              NEW f \in Frame, f.pc = "idle", f.obj = NoObj,
              frame' = [frame EXCEPT ![c] = f]
       PROVE  Places'
  <2> DEFINE q == [query[c] EXCEPT !.pc = "return", !.resp = r]
  <2>1. /\ q \in Query /\ q.pc = "return" /\ q.key = query[c].key
        /\ query' = [query EXCEPT ![c] = q]
    BY <1>2, <1>11 DEF Replies, Query
  <2>2. newest' \in [Keys -> Nat]
    <3>1. r # Failure => r.at \in Nat
      BY <1>11 DEF Response
    <3> QED
      BY <1>2, <1>11, <3>1 DEF Replies, Larger
  <2>3. query[c].key \in Keys
    BY <1>11 DEF HandlerTypeOK
  <2> HIDE DEF q
  <2> QED
    BY <1>2, <1>3, <1>4, <1>11, <2>1, <2>2, <2>3, ClientPlaces DEF Doing, InSet
<1>12. frame[c].obj # NoObj => Entered(c).resp \in Response
  BY <1>1, EnteredType DEF HandlerTypeOK, Entry
<1>13. CASE RespondHit(c)
  <2>1. frame[c].obj # NoObj
    BY <1>13 DEF RespondHit, HandlerTypeOK
  <2> QED
    BY <1>3, <1>11, <1>12, <1>13, <2>1 DEF RespondHit, Release, Outcome, Doing
<1>14. CASE RespondFetched(c)
  <2>1. query[c].resp \in Response /\ frame[c].pc = "idle"
    BY <1>2, <1>14 DEF RespondFetched, ClientsOK, HandlerTypeOK, Doing, At
  <2>2. /\ Replies(c, query[c].resp) /\ query[c].pc = "fetched"
        /\ UNCHANGED <<serving, pins, flight, frame>>
    BY <1>14 DEF RespondFetched, Doing, vars
  <2> QED
    BY <1>2, <1>3, <1>11, <2>1, <2>2 DEF Outcome
<1>15. CASE RespondStale(c)
  <2> DEFINE r == IF frame[c].obj = NoObj THEN Failure ELSE Entered(c).resp
  <2>1. r \in Outcome /\ (r # Failure => r \in Response)
    BY <1>12 DEF Outcome
  <2>2. /\ Replies(c, r) /\ query[c].pc = "stale" /\ UNCHANGED <<serving, pins, flight>>
        /\ frame' = [frame EXCEPT ![c] = Idle]
    BY <1>15 DEF RespondStale, Release, Doing
  <2> HIDE DEF r
  <2> QED
    BY <1>3, <1>11, <2>1, <2>2
<1>16. CASE TryStale(c)
  <2> DEFINE q == [query[c] EXCEPT !.pc = "stale"]
  <2>1. /\ q \in Query /\ q.pc = "stale" /\ q.key = query[c].key
        /\ query' = [query EXCEPT ![c] = q]
    BY <1>5, <1>16 DEF TryStale
  <2>2. query[c].pc = "failed" /\ query[c].key \in Keys
    BY <1>16 DEF TryStale, HandlerTypeOK, Doing
  <2>3. PICK f \in Frame : /\ frame' = [frame EXCEPT ![c] = f]
                           /\ f.pc # "idle" /\ f.pc \notin InSet
                           /\ f.obj \in {entries[query[c].key], NoObj}
                           /\ UNCHANGED <<serving, pins>>
    BY <1>1, <1>16, <2>2, FramesChange DEF TryStale, HandlerTypeOK
  <2>4. f.obj # NoObj => f.obj \in {query[c].key} \X Slots
    BY <2>2, <2>3 DEF Addressed, Present
  <2>5. UNCHANGED <<flight, newest>>
    BY <1>16 DEF TryStale
  <2> HIDE DEF q
  <2> QED
    BY <1>2, <1>4, <2>1, <2>2, <2>3, <2>4, <2>5, ClientPlaces DEF Doing
<1>17. CASE Return(c)
  <2>1. NoQuery \in Query /\ NoQuery.pc = "idle"
    BY DEF NoQuery, Query, Outcome
  <2>2. /\ query[c].pc = "return" /\ query' = [query EXCEPT ![c] = NoQuery]
        /\ UNCHANGED <<serving, pins, frame, flight, newest>>
    BY <1>17 DEF Return, Doing, vars
  <2>3. frame[c].pc = "idle"
    BY <2>2 DEF HandlerTypeOK, At
  <2> QED
    BY <1>2, <1>3, <1>4, <2>1, <2>2, <2>3, ClientPlaces DEF Doing
<1> QED
  BY <1>6, <1>7, <1>8, <1>9, <1>10, <1>13, <1>14, <1>15, <1>16, <1>17 DEF QueryStep

LEMMA FlightStepPlaces ==
  ASSUME HandlerInv, TypeOK', NEW k \in Keys, FlightStep(k)
  PROVE  Places'
<1> USE DEF HandlerInv
<1>1. k \in Threads /\ Clients \subseteq Threads
  BY HandlerAssumption
<1>2. flight[k] \in Flight /\ frame[k] \in Frame /\ clock \in Nat
  BY <1>1 DEF HandlerTypeOK, TypeOK, FramesOK, MapOK
<1>3. frame = [frame EXCEPT ![k] = frame[k]] /\ Idle \in Frame /\ Idle.pc = "idle"
  BY <1>1, IdleOK DEF HandlerTypeOK, TypeOK, FramesOK, FrameOK, Idle
<1>4. flight[k].pc # "none" => serving
  BY DEF Quiet, NoFlight
<1>5. flight[k].pc # "set" => frame[k].pc = "idle"
  BY DEF HandlerTypeOK, At
<1>6. ASSUME NEW pc \in {"answered", "set", "finish"}, NEW r \in Outcome
      PROVE  LET g == [flight[k] EXCEPT !.pc = pc, !.resp = r]
             IN  g \in Flight /\ g.pc = pc /\ g.resp = r /\ g.waiters = flight[k].waiters
  BY <1>2 DEF Flight
<1>7. ASSUME NEW pc \in {"answered", "set", "finish"}
      PROVE  LET g == [flight[k] EXCEPT !.pc = pc]
             IN  /\ g \in Flight /\ g.pc = pc /\ g.resp = flight[k].resp
                 /\ g.waiters = flight[k].waiters
  BY <1>2 DEF Flight
<1>8. CASE Answered(k)
  <2>1. PICK m \in Answers : flight' = [flight EXCEPT ![k].pc = "answered",
                                                      ![k].resp = [msg |-> m, at |-> clock]]
    BY <1>8 DEF Answered
  <2> DEFINE r == [msg |-> m, at |-> clock]
             g == [flight[k] EXCEPT !.pc = "answered", !.resp = r]
  <2>2. r \in Response
    BY <1>2 DEF Response
  <2> HIDE DEF r
  <2>3. /\ g \in Flight /\ g.pc = "answered" /\ g.resp = r /\ g.waiters = flight[k].waiters
    BY <1>6, <2>2 DEF Outcome
  <2>5. flight' = [flight EXCEPT ![k] = g]
    BY <2>1 DEF HandlerTypeOK, r
  <2>4. flight[k].pc = "query" /\ UNCHANGED <<serving, pins, frame, query, newest>>
    BY <1>8 DEF Answered, vars
  <2> HIDE DEF g
  <2> QED
    BY <1>2, <1>3, <1>4, <1>5, <2>2, <2>3, <2>4, <2>5, FlightPlaces
<1>9. CASE Failed(k)
  <2> DEFINE g == [flight[k] EXCEPT !.pc = "finish", !.resp = Failure]
  <2>1. /\ g \in Flight /\ g.pc = "finish" /\ g.resp = Failure /\ g.waiters = flight[k].waiters
    BY <1>6 DEF Outcome
  <2>3. flight' = [flight EXCEPT ![k] = g]
    BY <1>9 DEF HandlerTypeOK, Failed
  <2>2. flight[k].pc = "query" /\ UNCHANGED <<serving, pins, frame, query, newest>>
    BY <1>9 DEF Failed, vars
  <2> HIDE DEF g
  <2> QED
    BY <1>2, <1>3, <1>4, <1>5, <2>1, <2>2, <2>3, FlightPlaces
<1>10. CASE CacheAnswer(k)
  <2> DEFINE g == [flight[k] EXCEPT !.pc = "set"]
             f == [Idle EXCEPT !.pc = "publish", !.key = k, !.time = clock,
                               !.resp = flight[k].resp]
  <2>1. flight[k].pc = "answered" /\ flight[k].resp \in Response
    BY <1>10 DEF CacheAnswer, FlightsOK
  <2>2. f \in Frame /\ f.pc \in InSet /\ f.key = k /\ f.resp = flight[k].resp
    BY <1>2, <2>1 DEF Frame, Idle, InSet
  <2>3. /\ g \in Flight /\ g.pc = "set" /\ g.resp = flight[k].resp
        /\ g.waiters = flight[k].waiters /\ flight' = [flight EXCEPT ![k] = g]
    BY <1>7, <1>10 DEF CacheAnswer
  <2>4. /\ UNCHANGED <<serving, pins, query, newest>>
        /\ frame' = [frame EXCEPT ![k] = f]
    BY <1>10 DEF CacheAnswer, SetNow
  <2> HIDE DEF f, g
  <2> QED
    BY <1>4, <2>1, <2>2, <2>3, <2>4, FlightPlaces
<1>11. CASE SkipCache(k) \/ Publish(k)
  <2> DEFINE g == [flight[k] EXCEPT !.pc = "finish"]
  <2>1. flight[k].pc \in {"answered", "set"} /\ flight[k].resp \in Response
    BY <1>11 DEF SkipCache, Publish, FlightsOK
  <2>2. /\ g \in Flight /\ g.pc = "finish" /\ g.resp = flight[k].resp
        /\ g.waiters = flight[k].waiters /\ flight' = [flight EXCEPT ![k] = g]
    BY <1>7, <1>11 DEF SkipCache, Publish
  <2>3. UNCHANGED <<serving, pins, query, newest>>
    BY <1>11 DEF SkipCache, Publish, SetPublish, vars
  <2>4. PICK f \in Frame : frame' = [frame EXCEPT ![k] = f] /\ f.pc = "idle"
    BY <1>2, <1>3, <1>5, <1>11 DEF SkipCache, Publish, SetPublish, vars
  <2> HIDE DEF g
  <2> QED
    BY <1>4, <2>1, <2>2, <2>3, <2>4, FlightPlaces
<1>12. CASE Deliver(k)
  <2> DEFINE woken(c) == [query[c] EXCEPT !.pc = IF flight[k].resp = Failure
                                                   THEN "failed" ELSE "fetched",
                                          !.resp = flight[k].resp]
  <2>1. /\ flight[k].pc = "finish" /\ flight' = [flight EXCEPT ![k] = NoFlight]
        /\ UNCHANGED <<serving, pins, frame, newest>>
        /\ query' = [c \in Clients |-> IF c \notin flight[k].waiters
                                         THEN query[c] ELSE woken(c)]
    BY <1>12 DEF Deliver, vars
  <2>2. flight[k].resp \in Response \cup {Failure}
    BY <2>1 DEF FlightsOK
  <2>3. \A c \in Clients : /\ woken(c) \in Query /\ woken(c).key = query[c].key
                           /\ woken(c).pc \in {"failed", "fetched"}
                           /\ woken(c).pc = "fetched" => woken(c).resp \in Response
    BY <2>2 DEF HandlerTypeOK, Query, Outcome
  <2> HIDE DEF woken
  <2>4. \A c \in Clients : c \in flight[k].waiters =>
          query[c].pc = "wait" /\ query[c].key = k /\ frame[c].pc = "idle"
    BY DEF WaitersHaveAFlight, HandlerTypeOK, Doing, At
  <2>5. \A c \in Clients : query'[c] = IF c \notin flight[k].waiters
                                         THEN query[c] ELSE woken(c)
    BY <2>1
  <2>6. NoFlight \in Flight /\ NoFlight.waiters = {} /\ NoFlight.pc = "none"
    BY DEF NoFlight, Flight, Outcome
  <2>7. /\ flight' \in [Keys -> Flight]
        /\ \A j \in Keys : flight'[j] = IF j = k THEN NoFlight ELSE flight[j]
    BY <2>1, <2>6 DEF HandlerTypeOK
  <2>8. HandlerTypeOK'
    <3>1. query' \in [Clients -> Query] /\ newest' \in [Keys -> Nat]
      BY <2>1, <2>3, <2>5 DEF HandlerTypeOK
    <3>2. ASSUME NEW d \in Clients
          PROVE  /\ Doing(d, "hit")' => At(d, "done")' /\ frame'[d].obj # NoObj
                 /\ query'[d].pc \notin {"get", "hit", "stale"} => At(d, "idle")'
                 /\ query'[d].pc # "idle" => query'[d].key \in Keys
      BY <2>1, <2>3, <2>4, <2>5 DEF HandlerTypeOK, Doing, At
    <3>3. \A j \in Keys : IF flight'[j].pc = "set" THEN frame'[j].pc \in InSet
                                                ELSE At(j, "idle")'
      BY <2>1, <2>6, <2>7 DEF HandlerTypeOK, At
    <3> QED
      BY <2>7, <3>1, <3>2, <3>3 DEF HandlerTypeOK
  <2>9. FlightsOK'
    BY <2>1, <2>6, <2>7 DEF FlightsOK
  <2>10. ClientsOK'
    BY <2>1, <2>3, <2>5 DEF ClientsOK, Doing, At
  <2>11. WaitersHaveAFlight'
    BY <2>3, <2>4, <2>5, <2>6, <2>7 DEF WaitersHaveAFlight, Doing
  <2>12. Quiet'
    BY <1>4, <2>1 DEF Quiet
  <2> QED
    BY <2>8, <2>9, <2>10, <2>11, <2>12 DEF Places
<1>13. CASE Storing(k)
  <2>1. /\ flight[k].pc = "set" /\ UNCHANGED <<serving, pins, query, newest>>
        /\ flight' = [flight EXCEPT ![k] = flight[k]]
    BY <1>13, <1>1, FramesChange DEF Storing, handlerVars, HandlerTypeOK
  <2>2. PICK f \in Frame : /\ frame' = [frame EXCEPT ![k] = f]
                           /\ f.pc \in InSet
                           /\ f.key = frame[k].key /\ f.resp = frame[k].resp
    BY <1>13, <1>1, FramesChange DEF Storing, HandlerTypeOK
  <2>3. flight[k].resp \in Response /\ frame[k].key = k /\ frame[k].resp = flight[k].resp
    BY <2>1 DEF FlightsOK
  <2> QED
    BY <1>2, <1>4, <2>1, <2>2, <2>3, FlightPlaces
<1> QED
  BY <1>8, <1>9, <1>10, <1>11, <1>12, <1>13 DEF FlightStep

(* Ticks and loads move nobody.                                            *)
LEMMA LoadPlaces ==
  ASSUME HandlerInv, TypeOK', UNCHANGED <<frame, pins, handlerVars>>,
         serving' \/ serving' = serving
  PROVE  Places'
<1> USE DEF HandlerInv, handlerVars
<1>1. HandlerTypeOK'
  BY DEF HandlerTypeOK, Doing, At
<1>2. Quiet'
  BY DEF Quiet, At
<1>3. FlightsOK' /\ ClientsOK' /\ WaitersHaveAFlight'
  BY DEF FlightsOK, ClientsOK, WaitersHaveAFlight, Doing, At
<1> QED
  BY <1>1, <1>2, <1>3 DEF Places

LEMMA StepPlaces == HandlerInv /\ [HandlerNext]_hvars => Places' /\ Addressed'
<1> SUFFICES ASSUME HandlerInv, [HandlerNext]_hvars PROVE Places' /\ Addressed'
  OBVIOUS
<1>1. [CallerStep]_vars /\ TypeOK /\ Addressed
  BY HandlerCalls DEF HandlerInv, HandlerTypeOK
<1>2. TypeOK' /\ Addressed'
  BY <1>1, CallerType, CallerAddressed
<1>3. CASE \/ UNCHANGED hvars
           \/ Tick /\ UNCHANGED handlerVars
           \/ (StartServing \/ \E e \in Rows : LoadEntry(e)) /\ UNCHANGED handlerVars
  <2>1. UNCHANGED <<frame, pins, handlerVars>> /\ (serving' \/ serving' = serving)
    BY <1>3 DEF hvars, vars, Tick, storeVars, StartServing, LoadEntry
  <2> QED
    BY <1>2, <2>1, LoadPlaces
<1> QED
  BY <1>2, <1>3, QueryPlaces, FlightStepPlaces DEF HandlerNext

----------------------------------------------------------------------------
(* How a flight comes to its next place.                                   *)
LEMMA FlightChange ==
  ASSUME HandlerInv, [HandlerNext]_hvars, NEW k \in Keys
  PROVE  \/ flight'[k].pc = flight[k].pc /\ flight'[k].resp = flight[k].resp
         \/ flight'[k].pc \in {"none", "query"}
         \/ Answered(k) /\ flight'[k].pc = "answered" /\ flight'[k].resp.at = clock
                        /\ flight'[k].resp \in Response
         \/ Failed(k) /\ flight'[k].resp = Failure
         \/ CacheAnswer(k) /\ flight'[k].pc = "set" /\ flight'[k].resp = flight[k].resp
         \/ /\ SkipCache(k) \/ Publish(k)
            /\ flight'[k].pc = "finish" /\ flight'[k].resp = flight[k].resp
<1>1. flight \in [Keys -> Flight] /\ \A j \in Keys : flight[j] \in Flight
  BY DEF HandlerInv, HandlerTypeOK
<1>2. ASSUME NEW c \in Clients, QueryStep(c) \/ \E j \in Keys : Arrive(c, j)
      PROVE  \/ flight'[k].pc = flight[k].pc /\ flight'[k].resp = flight[k].resp
             \/ flight'[k].pc = "query"
  <2>1. ASSUME NEW w, flight' = [flight EXCEPT ![query[c].key] = JoinFlight(query[c].key, w)]
        PROVE  \/ flight'[k].pc = flight[k].pc /\ flight'[k].resp = flight[k].resp
               \/ flight'[k].pc = "query"
    BY <1>1, <2>1 DEF JoinFlight, Flight
  <2> QED
    BY <1>2, <2>1 DEF QueryStep, Arrive, GetStep, Hit, Miss, Join, RespondHit, RespondFetched,
       TryStale, StaleStep, RespondStale, Return, handlerVars
<1>3. ASSUME NEW j \in Keys, FlightStep(j), j # k PROVE flight'[k] = flight[k]
  BY <1>1, <1>3 DEF FlightStep, Answered, Failed, CacheAnswer, SkipCache, Storing, Publish,
     Deliver, handlerVars
<1>4. CASE Answered(k)
  <2>1. PICK m \in Answers : flight' = [flight EXCEPT ![k].pc = "answered",
                                                      ![k].resp = [msg |-> m, at |-> clock]]
    BY <1>4 DEF Answered
  <2> DEFINE r == [msg |-> m, at |-> clock]
  <2>2. r \in Response /\ r.at = clock
    BY DEF Response, HandlerInv, HandlerTypeOK, TypeOK, MapOK
  <2>3. flight' = [flight EXCEPT ![k].pc = "answered", ![k].resp = r]
    BY <2>1
  <2> HIDE DEF r
  <2>4. flight'[k].pc = "answered" /\ flight'[k].resp = r
    BY <1>1, <2>3 DEF Flight
  <2> QED
    BY <1>4, <2>2, <2>4
<1>5. CASE Failed(k)
  BY <1>1, <1>5 DEF Failed, Flight
<1>6. CASE CacheAnswer(k)
  BY <1>1, <1>6 DEF CacheAnswer, Flight
<1>7. CASE SkipCache(k) \/ Publish(k)
  BY <1>1, <1>7 DEF SkipCache, Publish, Flight
<1>8. CASE Deliver(k)
  BY <1>1, <1>8 DEF Deliver, NoFlight
<1>9. CASE \/ UNCHANGED hvars
           \/ Tick /\ UNCHANGED handlerVars
           \/ (StartServing \/ \E e \in Rows : LoadEntry(e)) /\ UNCHANGED handlerVars
  BY <1>9 DEF hvars, handlerVars
<1>10. CASE \E c \in Clients : QueryStep(c) \/ \E j \in Keys : Arrive(c, j)
  BY <1>2, <1>10
<1>11. CASE \E j \in Keys : FlightStep(j) /\ j # k
  BY <1>3, <1>11
<1>16. CASE Storing(k)
  BY <1>16 DEF Storing, handlerVars
<1>12. CASE FlightStep(k)
  BY <1>4, <1>5, <1>6, <1>7, <1>8, <1>12, <1>16 DEF FlightStep
<1>13. CASE \E j \in Keys : FlightStep(j)
  BY <1>11, <1>12, <1>13
<1>14. CASE UNCHANGED hvars
  BY <1>14 DEF hvars, handlerVars
<1>15. CASE HandlerNext
  <2>1. \/ \E c \in Clients : QueryStep(c) \/ \E j \in Keys : Arrive(c, j)
        \/ \E j \in Keys : FlightStep(j)
        \/ Tick /\ UNCHANGED handlerVars
        \/ (StartServing \/ \E e \in Rows : LoadEntry(e)) /\ UNCHANGED handlerVars
    BY <1>15 DEF HandlerNext
  <2> QED
    BY <1>9, <1>10, <1>13, <2>1
<1> QED
  BY <1>9, <1>14, <1>15

(* The entry that Publish puts into the map has the answer of the flight.  *)
LEMMA PublishedAnswer ==
  ASSUME HandlerInv, NEW k \in Keys, SetPublish(k)
  PROVE  EntryOf(k)'.resp = flight[k].resp
<1>1. k \in Threads /\ TypeOK
  BY HandlerAssumption DEF HandlerInv, HandlerTypeOK
<1>2. frame[k].key = k /\ frame[k].resp = flight[k].resp
  BY <1>1, PublishIsOfAFlight
<1> DEFINE e == Published(frame[k])
<1>3. /\ e \in Entry /\ e.key = k
      /\ \E m : /\ Store(m, e)
                /\ m = entries \/ \E v \in Keys : m = [entries EXCEPT ![v] = NoObj]
  BY <1>1, <1>2, PublishStores DEF Present
<1>4. e.resp = frame[k].resp
  BY DEF Published, NewEntry
<1> HIDE DEF e
<1>5. heap'[entries'[k]] = e
  BY <1>1, <1>3, Stored
<1> QED
  BY <1>2, <1>4, <1>5 DEF EntryOf

LEMMA StepDelivered == HandlerInv /\ [HandlerNext]_hvars => DeliveredIsCached'
<1> SUFFICES ASSUME HandlerInv, [HandlerNext]_hvars, NEW k \in Keys, k \in Present',
                    flight'[k].pc = "finish", flight'[k].resp # Failure,
                    IsCacheable(flight'[k].resp.msg)
             PROVE  EntryOf(k)'.resp = flight'[k].resp
  BY DEF DeliveredIsCached, IsCacheable
<1>1. [CallerStep]_vars /\ TypeOK /\ Addressed
  BY HandlerCalls DEF HandlerInv, HandlerTypeOK
<1>2. \/ flight[k].pc = "finish" /\ flight'[k].resp = flight[k].resp
      \/ Publish(k) /\ flight'[k].resp = flight[k].resp
  BY FlightChange DEF SkipCache
<1>3. CASE Publish(k)
  BY <1>2, <1>3, PublishedAnswer DEF Publish
<1>4. CASE flight[k].pc = "finish" /\ flight'[k].resp = flight[k].resp
  <2>1. ~\E e \in Rows : LoadEntry(e)
    BY <1>4 DEF LoadEntry, HandlerInv, Quiet, NoFlight
  <2>2. ~\E t \in Threads : SetPublish(t) /\ frame[t].key = k
    BY <1>4, PublishIsOfAFlight
  <2>3. k \in Present /\ entries'[k] = entries[k] /\ SameAnswer(entries[k])
    BY <1>1, <2>1, <2>2, EntryChange
  <2> QED
    BY <1>4, <2>3 DEF SameAnswer, EntryOf, HandlerInv, DeliveredIsCached
<1> QED
  BY <1>2, <1>3, <1>4

LEMMA StepHandler == HandlerInv /\ [HandlerNext]_hvars => HandlerInv'
BY StepPlaces, StepDelivered DEF Places, HandlerInv

LEMMA HandlerInvariance == HandlerSpec => []HandlerInv
BY InitHandler, StepHandler, PTL DEF HandlerSpec

(* Each client, each flight and each cache call is where the others need   *)
(* it to be: a client that is about to answer a hit holds an entry, and a  *)
(* flight calls Set exactly while it is in Set.                            *)
THEOREM HandlerTypeCorrect == HandlerSpec => []HandlerTypeOK
<1>1. HandlerInv => HandlerTypeOK
  BY DEF HandlerInv
<1> QED
  BY <1>1, HandlerInvariance, PTL

(* A message is in the cache before any client that waited has it, as long *)
(* as nobody but the flights of the handler calls Set.                     *)
THEOREM CachedFirst == HandlerSpec => []DeliveredIsCached
<1>1. HandlerInv => DeliveredIsCached
  BY DEF HandlerInv
<1> QED
  BY <1>1, HandlerInvariance, PTL

----------------------------------------------------------------------------
(* The order of the answers.                                               *)

(* No answer to k that has been given out, or that a client may be given   *)
(* without asking an upstream, was sent after t.                           *)
NoneNewer(k, t) ==
  /\ newest[k] <= t
  /\ \A o \in Live : o[1] = k => heap[o].resp.at <= t
  /\ \A c \in Clients :
       (/\ Doing(c, "fetched") /\ query[c].key = k
        /\ IsCacheable(query[c].resp.msg)) => query[c].resp.at <= t

InHand(k) == flight[k].pc \in {"answered", "set", "finish"} /\ flight[k].resp # Failure

ClockOK == StartTime <= clock /\ clock <= MaxTime

AnswersOrdered ==
  \A k \in Keys :
    /\ NoneNewer(k, clock)
    /\ k \in Present => NoneNewer(k, EntryOf(k).resp.at)
    /\ InHand(k) => flight[k].resp.at <= clock /\ NoneNewer(k, flight[k].resp.at)

FloorsKept ==
  \A c \in Clients :
    /\ query[c].pc # "idle" => query[c].floor <= newest[query[c].key]
    /\ frame[c].obj # NoObj => query[c].floor <= heap[frame[c].obj].resp.at
    /\ Doing(c, "fetched") /\ IsCacheable(query[c].resp.msg) =>
         query[c].floor <= query[c].resp.at

ServiceInv == HandlerInv /\ ClockOK /\ AnswersOrdered /\ FloorsKept

LEMMA InitService == HandlerInit => ServiceInv
<1> SUFFICES ASSUME HandlerInit PROVE ServiceInv
  OBVIOUS
<1>1. /\ query = [c \in Clients |-> NoQuery] /\ flight = [k \in Keys |-> NoFlight]
      /\ newest = [k \in Keys |-> 0] /\ clock = StartTime /\ Present = {} /\ Live = {}
      /\ frame = [t \in Threads |-> Idle] /\ Clients \subseteq Threads
  BY HandlerAssumption DEF HandlerInit, Init, Present, Live, Idle
<1>2. ClockOK
  BY <1>1, CacheAssumption DEF ClockOK
<1>3. AnswersOrdered
  BY <1>1, CacheAssumption DEF AnswersOrdered, NoneNewer, InHand, NoQuery, NoFlight, Doing
<1>4. FloorsKept
  BY <1>1 DEF FloorsKept, NoQuery, Doing, Idle
<1> QED
  BY <1>2, <1>3, <1>4, InitHandler DEF ServiceInv

(* What the objects and the queries tell is of their types.                *)
LEMMA Ticks ==
  ASSUME HandlerInv
  PROVE  /\ clock \in Nat
         /\ \A o \in Live : heap[o].resp \in Response /\ heap[o].resp.at \in Nat
         /\ \A k \in Keys : /\ newest[k] \in Nat
                            /\ InHand(k) => flight[k].resp \in Response /\ flight[k].resp.at \in Nat
                            /\ k \in Present => EntryOf(k).resp.at \in Nat
         /\ \A c \in Clients : /\ query[c].floor \in Nat
                               /\ Doing(c, "fetched") => /\ query[c].resp \in Response
                                                         /\ query[c].resp.at \in Nat
<1>1. \A r \in Response : r.at \in Nat
  BY DEF Response
<1>2. \A o \in Live : heap[o].resp \in Response
  BY DEF HandlerInv, HandlerTypeOK, TypeOK, HeapOK, Entry
<1>3. \A k \in Keys : InHand(k) => flight[k].resp \in Response
  BY DEF HandlerInv, FlightsOK, InHand
<1>4. \A k \in Present : entries[k] \in Live /\ EntryOf(k) = heap[entries[k]]
  BY DEF Present, Live, EntryOf
<1>5. \A c \in Clients : Doing(c, "fetched") => query[c].resp \in Response
  BY DEF HandlerInv, ClientsOK
<1> QED
  BY <1>1, <1>2, <1>3, <1>4, <1>5 DEF HandlerInv, HandlerTypeOK, TypeOK, MapOK, Query

(* The answers given out.                                                  *)
LEMMA NewestChange ==
  ASSUME HandlerInv, [HandlerNext]_hvars
  PROVE  \/ UNCHANGED newest
         \/ \E c \in Clients, r \in Response :
              /\ Replies(c, r) /\ IsCacheable(r.msg) /\ query[c].key \in Keys
              /\ \/ Doing(c, "fetched") /\ r = query[c].resp
                 \/ /\ frame[c].obj # NoObj /\ frame[c].obj \in Live
                    /\ r = heap[frame[c].obj].resp
<1>0. Clients \subseteq Threads
  BY HandlerAssumption
<1>1. ASSUME NEW c \in Clients, RespondHit(c) \/ RespondStale(c) \/ RespondFetched(c)
      PROVE  \/ UNCHANGED newest
             \/ \E r \in Response :
                  /\ Replies(c, r) /\ IsCacheable(r.msg) /\ query[c].key \in Keys
                  /\ \/ Doing(c, "fetched") /\ r = query[c].resp
                     \/ /\ frame[c].obj # NoObj /\ frame[c].obj \in Live
                        /\ r = heap[frame[c].obj].resp
  <2>1. query[c].key \in Keys
    BY <1>1 DEF RespondHit, RespondStale, RespondFetched, HandlerInv, HandlerTypeOK, Doing
  <2>2. frame[c].obj # NoObj => frame[c].obj \in Live /\ heap[frame[c].obj].resp \in Response
    BY <1>0, Ticks DEF Live
  <2>3. CASE RespondFetched(c)
    <3>1. query[c].resp \in Response /\ Doing(c, "fetched") /\ Replies(c, query[c].resp)
      BY <2>3, Ticks DEF RespondFetched
    <3>2. CASE IsCacheable(query[c].resp.msg)
      BY <2>1, <3>1, <3>2
    <3>3. CASE ~IsCacheable(query[c].resp.msg)
      BY <3>1, <3>3 DEF Replies
    <3> QED
      BY <3>2, <3>3
  <2>4. CASE frame[c].obj # NoObj /\ (RespondHit(c) \/ RespondStale(c))
    <3> DEFINE r == heap[frame[c].obj].resp
    <3>1. r \in Response /\ Replies(c, r)
      BY <2>2, <2>4 DEF RespondHit, RespondStale, Entered
    <3>2. CASE IsCacheable(r.msg)
      BY <2>1, <2>2, <2>4, <3>1, <3>2
    <3>3. CASE ~IsCacheable(r.msg)
      BY <3>1, <3>3 DEF Replies
    <3> QED
      BY <3>2, <3>3
  <2>5. CASE frame[c].obj = NoObj /\ RespondStale(c)
    BY <2>5 DEF RespondStale, Replies
  <2>6. RespondHit(c) => frame[c].obj # NoObj
    BY DEF RespondHit, HandlerInv, HandlerTypeOK
  <2> QED
    BY <1>1, <2>3, <2>4, <2>5, <2>6
<1>2. ASSUME NEW c \in Clients, QueryStep(c) \/ \E k \in Keys : Arrive(c, k),
             ~RespondHit(c), ~RespondStale(c), ~RespondFetched(c)
      PROVE  UNCHANGED newest
  BY <1>2 DEF QueryStep, Arrive, GetStep, Hit, Miss, Join, TryStale, StaleStep, Return,
     handlerVars
<1>3. ASSUME NEW k \in Keys, FlightStep(k) PROVE UNCHANGED newest
  BY <1>3 DEF FlightStep, Answered, Failed, CacheAnswer, SkipCache, Storing, Publish, Deliver,
     handlerVars
<1>4. CASE UNCHANGED hvars
  BY <1>4 DEF hvars, handlerVars
<1>5. CASE HandlerNext
  BY <1>1, <1>2, <1>3, <1>5 DEF HandlerNext, handlerVars
<1> QED
  BY <1>4, <1>5

(* Who is given the message of a flight.                                   *)
LEMMA FetchedChange ==
  ASSUME HandlerInv, [HandlerNext]_hvars, NEW c \in Clients, Doing(c, "fetched")'
  PROVE  \/ query'[c] = query[c]
         \/ \E k \in Keys : /\ Deliver(k) /\ InHand(k) /\ c \in flight[k].waiters
                            /\ query[c].key = k /\ Doing(c, "wait")
                            /\ query'[c].key = k /\ query'[c].resp = flight[k].resp
                            /\ query'[c].floor = query[c].floor
<1>1. /\ query \in [Clients -> Query] /\ \A d \in Clients : query[d] \in Query
  BY DEF HandlerInv, HandlerTypeOK
<1>2. ASSUME NEW d \in Clients, QueryStep(d) \/ \E k \in Keys : Arrive(d, k)
      PROVE  query'[c] = query[c]
  <2>1. \A pc \in {"get", "hit", "miss", "wait", "stale", "return"} : pc # "fetched"
    OBVIOUS
  <2> QED
    BY <1>1, <1>2, <2>1 DEF QueryStep, Arrive, GetStep, Hit, Miss, Join, RespondHit,
       RespondFetched, TryStale, StaleStep, RespondStale, Return, Replies, handlerVars, Doing,
       NoQuery, Query
<1>3. ASSUME NEW k \in Keys, Deliver(k)
      PROVE  \/ query'[c] = query[c]
             \/ /\ Deliver(k) /\ InHand(k) /\ c \in flight[k].waiters
                /\ query[c].key = k /\ Doing(c, "wait")
                /\ query'[c].key = k /\ query'[c].resp = flight[k].resp
                /\ query'[c].floor = query[c].floor
  <2>1. CASE c \notin flight[k].waiters
    BY <1>3, <2>1 DEF Deliver
  <2>2. CASE c \in flight[k].waiters
    <3>1. query[c].key = k /\ Doing(c, "wait") /\ flight[k].pc = "finish"
      BY <1>3, <2>2 DEF HandlerInv, WaitersHaveAFlight, Deliver
    <3>2. query'[c] = [query[c] EXCEPT !.pc = IF flight[k].resp = Failure
                                                THEN "failed" ELSE "fetched",
                                       !.resp = flight[k].resp]
      BY <1>3, <2>2 DEF Deliver
    <3>3. /\ query'[c].key = query[c].key /\ query'[c].resp = flight[k].resp
          /\ query'[c].floor = query[c].floor
          /\ query'[c].pc = IF flight[k].resp = Failure THEN "failed" ELSE "fetched"
      BY <1>1, <3>2 DEF Query
    <3> QED
      BY <1>3, <2>2, <3>1, <3>3 DEF InHand, Doing
  <2> QED
    BY <2>1, <2>2
<1>4. ASSUME NEW k \in Keys, FlightStep(k), ~Deliver(k) PROVE query' = query
  BY <1>4 DEF FlightStep, Answered, Failed, CacheAnswer, SkipCache, Storing, Publish,
     handlerVars
<1>5. CASE UNCHANGED hvars
  BY <1>5 DEF hvars, handlerVars
<1>6. CASE HandlerNext
  <2>1. CASE \E k \in Keys : FlightStep(k)
    BY <1>3, <1>4, <2>1
  <2> QED
    BY <1>2, <1>6, <2>1 DEF HandlerNext, handlerVars
<1> QED
  BY <1>5, <1>6

(* A bound on the answers to k stays one until a newer one is published,   *)
(* loaded or handed out.                                                   *)
LEMMA KeepsNoneNewer ==
  ASSUME HandlerInv, [HandlerNext]_hvars, NEW k \in Keys, NEW t \in Nat, NoneNewer(k, t),
         SetPublish(k) => flight[k].resp.at <= t,
         \A e \in Rows : LoadEntry(e) /\ e.key = k => e.resp.at <= t,
         Deliver(k) /\ InHand(k) /\ IsCacheable(flight[k].resp.msg) =>
           flight[k].resp.at <= t
  PROVE  /\ newest'[k] <= t
         /\ \A o \in Live' : o[1] = k => heap'[o].resp.at <= t
         /\ \A c \in Clients :
              (/\ Doing(c, "fetched")' /\ query'[c].key = k
               /\ IsCacheable(query'[c].resp.msg)) => query'[c].resp.at <= t
<1>1. [CallerStep]_vars /\ TypeOK /\ Addressed
  BY HandlerCalls DEF HandlerInv, HandlerTypeOK
<1>2. newest'[k] <= t
  <2>1. CASE UNCHANGED newest
    BY <2>1 DEF NoneNewer
  <2>2. CASE \E c \in Clients, r \in Response :
              /\ Replies(c, r) /\ IsCacheable(r.msg) /\ query[c].key \in Keys
              /\ \/ Doing(c, "fetched") /\ r = query[c].resp
                 \/ /\ frame[c].obj # NoObj /\ frame[c].obj \in Live
                    /\ r = heap[frame[c].obj].resp
    <3>1. PICK c \in Clients, r \in Response :
              /\ Replies(c, r) /\ IsCacheable(r.msg) /\ query[c].key \in Keys
              /\ \/ Doing(c, "fetched") /\ r = query[c].resp
                 \/ /\ frame[c].obj # NoObj /\ frame[c].obj \in Live
                    /\ r = heap[frame[c].obj].resp
      BY <2>2
    <3>2. newest' = [newest EXCEPT ![query[c].key] = Larger(@, r.at)]
      <4>1. r # Failure
        BY HandlerAssumption
      <4> QED
        BY <3>1, <4>1 DEF Replies
    <3>3. frame[c].obj # NoObj => frame[c].obj[1] = query[c].key
      BY DEF HandlerInv, ClientsOK
    <3>4. query[c].key = k => r.at <= t
      BY <3>1, <3>3 DEF NoneNewer
    <3>5. newest \in [Keys -> Nat] /\ r.at \in Nat
      BY DEF HandlerInv, HandlerTypeOK, Response
    <3> QED
      BY <3>1, <3>2, <3>4, <3>5 DEF NoneNewer, Larger
  <2> QED
    BY <2>1, <2>2, NewestChange
<1>3. ASSUME NEW o \in Live', o[1] = k PROVE heap'[o].resp.at <= t
  <2>1. CASE SameAnswer(o)
    BY <1>3, <2>1 DEF SameAnswer, NoneNewer
  <2>2. ASSUME NEW e \in Rows, LoadEntry(e), o = NewObj(e.key), heap'[o] = e
        PROVE  heap'[o].resp.at <= t
    <3>1. NewObj(e.key) \in {e.key} \X Slots
      BY <1>1, <2>2, LoadStores, Stored
    <3>2. e.key = k
      BY <1>3, <2>2, <3>1
    <3> QED
      BY <2>2, <3>2
  <2>3. ASSUME NEW s \in Threads, SetPublish(s), o = NewObj(frame[s].key),
               heap'[o] = Published(frame[s])
        PROVE  heap'[o].resp.at <= t
    <3>1. s \in Keys /\ frame[s].key = s /\ frame[s].resp = flight[s].resp
      BY <2>3, PublishIsOfAFlight
    <3> DEFINE e == Published(frame[s])
    <3>2. e \in Entry /\ e.key = s /\ e.resp = frame[s].resp
      BY <1>1, <2>3, <3>1, PublishStores DEF Published, NewEntry
    <3>3. \E m : /\ Store(m, e)
                 /\ m = entries \/ \E v \in Keys : m = [entries EXCEPT ![v] = NoObj]
      BY <1>1, <2>3, PublishStores DEF Present
    <3>4. heap'[o] = e
      BY <2>3
    <3> HIDE DEF e
    <3>5. NewObj(s) \in {s} \X Slots
      BY <1>1, <3>2, <3>3, Stored
    <3>6. s = k
      BY <1>3, <2>3, <3>1, <3>5
    <3> QED
      BY <2>3, <3>1, <3>2, <3>4, <3>6
  <2> QED
    BY <1>1, <2>1, <2>2, <2>3, HeapChange
<1>4. ASSUME NEW c \in Clients, Doing(c, "fetched")', query'[c].key = k,
             IsCacheable(query'[c].resp.msg)
      PROVE  query'[c].resp.at <= t
  <2>1. CASE query'[c] = query[c]
    BY <1>4, <2>1 DEF NoneNewer, Doing
  <2>2. CASE \E j \in Keys : /\ Deliver(j) /\ InHand(j) /\ c \in flight[j].waiters
                            /\ query[c].key = j /\ Doing(c, "wait")
                            /\ query'[c].key = j /\ query'[c].resp = flight[j].resp
                            /\ query'[c].floor = query[c].floor
    BY <1>4, <2>2
  <2> QED
    BY <1>4, <2>1, <2>2, FetchedChange
<1> QED
  BY <1>2, <1>3, <1>4

LEMMA ClockStep ==
  ASSUME ClockOK, HandlerInv, [HandlerNext]_hvars
  PROVE  ClockOK' /\ clock' >= clock
<1>1. [CallerStep]_vars
  BY HandlerCalls
<1>2. clock' = clock \/ Tick
  BY <1>1 DEF vars, CallerStep, CallStep, StartServing, LoadEntry, GetLookup, StaleLookup, SetNow,
     GetNow, GetTouch, GetMark, GetServe, StaleServe, StaleNow, StaleTouch, SetLock, SetCopy,
     SetPublish, Release, Delete, Repin
<1> QED
  BY <1>2, CacheAssumption DEF ClockOK, Tick, HandlerInv, HandlerTypeOK, TypeOK, MapOK

(* While the rows are loaded nothing has been asked or answered.           *)
LEMMA LoadingIsQuiet ==
  ASSUME HandlerInv, ~serving
  PROVE  /\ \A c \in Clients : query[c].pc = "idle" /\ frame[c].obj = NoObj
         /\ \A k \in Keys : /\ ~InHand(k) /\ newest[k] = 0 /\ ~SetPublish(k) /\ ~Deliver(k)
                            /\ k \notin Present => \A o \in Live : o[1] # k
<1>1. /\ pins = {} /\ \A t \in Threads : At(t, "idle")
      /\ \A k \in Keys : flight[k] = NoFlight /\ newest[k] = 0
      /\ \A c \in Clients : query[c] = NoQuery
  BY DEF HandlerInv, Quiet
<1>2. \A t \in Threads : frame[t].obj = NoObj
  BY <1>1 DEF HandlerInv, HandlerTypeOK, TypeOK, FramesOK, FrameOK, At
<1>3. Live = {entries[k] : k \in Keys} \ {NoObj}
  BY <1>1, <1>2 DEF Live
<1>4. ASSUME NEW k \in Keys, k \notin Present, NEW o \in Live PROVE o[1] # k
  BY <1>3, <1>4 DEF Present, HandlerInv, Addressed
<1>5. Clients \subseteq Threads /\ Keys \subseteq Threads
  BY HandlerAssumption
<1>6. \A c \in Clients : query[c].pc = "idle" /\ frame[c].obj = NoObj
  BY <1>1, <1>2, <1>5 DEF NoQuery
<1>7. \A k \in Keys : flight[k].pc = "none"
  BY <1>1 DEF NoFlight
<1>8. \A k \in Keys : ~InHand(k) /\ ~Deliver(k)
  BY <1>7 DEF InHand, Deliver
<1>9. ASSUME NEW k \in Keys PROVE ~SetPublish(k)
  <2>1. frame[k].pc = "idle"
    BY <1>1, <1>5 DEF At
  <2> QED
    BY <2>1 DEF SetPublish, At
<1> QED
  BY <1>1, <1>4, <1>6, <1>8, <1>9

LEMMA StepOrdered ==
  ASSUME ServiceInv, [HandlerNext]_hvars
  PROVE  AnswersOrdered'
<1>1. /\ HandlerInv /\ HandlerInv' /\ [CallerStep]_vars /\ TypeOK /\ Addressed
      /\ ClockOK /\ ClockOK' /\ clock' >= clock
  BY StepHandler, HandlerCalls, ClockStep DEF ServiceInv, HandlerInv, HandlerTypeOK
<1> SUFFICES ASSUME NEW k \in Keys
             PROVE  /\ NoneNewer(k, clock)'
                    /\ k \in Present' => NoneNewer(k, EntryOf(k).resp.at)'
                    /\ InHand(k)' => flight'[k].resp.at <= clock' /\ NoneNewer(k, flight[k].resp.at)'
  BY DEF AnswersOrdered
<1> DEFINE Bound(n) ==
             /\ newest'[k] <= n
             /\ \A o \in Live' : o[1] = k => heap'[o].resp.at <= n
             /\ \A c \in Clients :
                  (/\ Doing(c, "fetched")' /\ query'[c].key = k
                   /\ IsCacheable(query'[c].resp.msg)) => query'[c].resp.at <= n
<1>2. /\ \A n : n = clock' => (NoneNewer(k, clock)' <=> Bound(n))
      /\ \A n : n = EntryOf(k)'.resp.at => (NoneNewer(k, EntryOf(k).resp.at)' <=> Bound(n))
      /\ \A n : n = flight'[k].resp.at => (NoneNewer(k, flight[k].resp.at)' <=> Bound(n))
  BY DEF NoneNewer
<1>3. ASSUME NEW n \in Nat, NoneNewer(k, n),
             SetPublish(k) => flight[k].resp.at <= n,
             \A e \in Rows : LoadEntry(e) /\ e.key = k => e.resp.at <= n,
             Deliver(k) /\ InHand(k) /\ IsCacheable(flight[k].resp.msg) =>
               flight[k].resp.at <= n
      PROVE  Bound(n)
  BY <1>1, <1>3, KeepsNoneNewer
<1>4. /\ clock \in Nat /\ NoneNewer(k, clock)
      /\ k \in Present => EntryOf(k).resp.at \in Nat /\ NoneNewer(k, EntryOf(k).resp.at)
      /\ InHand(k) => /\ flight[k].resp.at \in Nat /\ flight[k].resp.at <= clock
                      /\ NoneNewer(k, flight[k].resp.at)
  BY <1>1, Ticks DEF ServiceInv, AnswersOrdered
<1>5. SetPublish(k) => InHand(k) /\ serving /\ flight[k].pc = "set"
  BY <1>1, PublishIsOfAFlight, HandlerAssumption DEF InHand
<1>6. Deliver(k) => serving /\ flight[k].pc = "finish"
  BY <1>1, LoadingIsQuiet DEF Deliver
<1>7. \A e \in Rows : LoadEntry(e) => ~serving
  BY DEF LoadEntry
<1> HIDE DEF Bound
<1>8. NoneNewer(k, clock)'
  <2>1. \A e \in Rows : e.resp.at <= clock
    BY <1>1, <1>4, CacheAssumption DEF ClockOK, Entry, Response
  <2>2. Bound(clock)
    BY <1>3, <1>4, <1>5, <2>1
  <2>3. clock' \in Nat /\ newest'[k] \in Nat
    BY <1>1 DEF HandlerInv, HandlerTypeOK, TypeOK, MapOK
  <2>4. /\ \A o \in Live' : heap'[o].resp.at \in Nat
        /\ \A c \in Clients : Doing(c, "fetched")' => query'[c].resp.at \in Nat
    <3>1. \A o \in Live' : heap'[o].resp \in Response
      BY <1>1 DEF HandlerInv, HandlerTypeOK, TypeOK, HeapOK, Entry
    <3>2. \A c \in Clients : Doing(c, "fetched")' => query'[c].resp \in Response
      BY <1>1 DEF HandlerInv, ClientsOK
    <3> QED
      BY <3>1, <3>2 DEF Response
  <2>5. Bound(clock')
    BY <1>1, <1>4, <2>2, <2>3, <2>4 DEF Bound
  <2> QED
    BY <1>2, <2>5
<1>9. ASSUME k \in Present' PROVE NoneNewer(k, EntryOf(k).resp.at)'
  <2>1. CASE SetPublish(k)
    <3>1. EntryOf(k)'.resp = flight[k].resp
      BY <1>1, <2>1, PublishedAnswer
    <3>2. Bound(flight[k].resp.at)
      BY <1>3, <1>4, <1>5, <1>6, <1>7, <2>1
    <3> QED
      BY <1>2, <3>1, <3>2
  <2>2. ASSUME NEW e \in Rows, LoadEntry(e), e.key = k, EntryOf(k)' = e
        PROVE  NoneNewer(k, EntryOf(k).resp.at)'
    <3>1. ~serving /\ k \notin Present /\ e.resp.at \in Nat
      BY <2>2, CacheAssumption DEF LoadEntry, Present, Entry, Response
    <3>2. NoneNewer(k, e.resp.at)
      BY <1>1, <3>1, LoadingIsQuiet DEF NoneNewer, Doing
    <3>3. \A d \in Rows : LoadEntry(d) /\ d.key = k => d = e
      <4>1. ASSUME NEW d \in Rows, LoadEntry(d), d.key = k
            PROVE  heap'[entries'[k]] = d
        BY <1>1, <4>1, LoadStores, Stored
      <4> QED
        BY <2>2, <4>1 DEF EntryOf
    <3>4. Bound(e.resp.at)
      BY <1>1, <1>3, <1>5, <1>6, <3>1, <3>2, <3>3
    <3> QED
      BY <1>2, <2>2, <3>4
  <2>3. CASE ~SetPublish(k) /\ k \in Present /\ entries'[k] = entries[k] /\ SameAnswer(entries[k])
    <3>1. EntryOf(k)'.resp = EntryOf(k).resp
      BY <2>3 DEF SameAnswer, EntryOf
    <3>2. \A e \in Rows : LoadEntry(e) => e.key # k
      BY <2>3 DEF LoadEntry, Present
    <3>3. Deliver(k) /\ InHand(k) /\ IsCacheable(flight[k].resp.msg) =>
            flight[k].resp.at <= EntryOf(k).resp.at
      BY <1>1, <1>4, <1>6, <2>3 DEF HandlerInv, DeliveredIsCached, InHand
    <3>4. Bound(EntryOf(k).resp.at)
      BY <1>3, <1>4, <2>3, <3>2, <3>3
    <3> QED
      BY <1>2, <3>1, <3>4
  <2>4. ASSUME NEW t \in Threads, SetPublish(t), frame[t].key = k PROVE SetPublish(k)
    BY <1>1, <2>4, PublishIsOfAFlight
  <2> QED
    BY <1>1, <1>9, <2>1, <2>2, <2>3, <2>4, EntryChange
<1>10. ASSUME InHand(k)'
       PROVE  flight'[k].resp.at <= clock' /\ NoneNewer(k, flight[k].resp.at)'
  <2>1. ASSUME InHand(k), flight'[k].resp = flight[k].resp
        PROVE  flight'[k].resp.at <= clock' /\ NoneNewer(k, flight[k].resp.at)'
    <3>1. serving
      BY <1>1, <2>1, LoadingIsQuiet
    <3>2. Bound(flight[k].resp.at)
      BY <1>3, <1>4, <1>7, <2>1, <3>1
    <3>3. clock' \in Nat
      BY <1>1 DEF HandlerInv, HandlerTypeOK, TypeOK, MapOK
    <3> QED
      BY <1>1, <1>2, <1>4, <2>1, <3>2, <3>3
  <2>2. ASSUME Answered(k), flight'[k].resp.at = clock
        PROVE  flight'[k].resp.at <= clock' /\ NoneNewer(k, flight[k].resp.at)'
    <3>1. clock' = clock /\ flight[k].pc = "query" /\ UNCHANGED entries
      BY <2>2 DEF Answered, vars
    <3>2. NoneNewer(k, flight[k].resp.at)'
      BY <1>2, <1>8, <2>2, <3>1
    <3> QED
      BY <1>4, <2>2, <3>1, <3>2
  <2>3. flight'[k].pc \notin {"none", "query"} /\ flight'[k].resp # Failure
    BY <1>10 DEF InHand
  <2>4. ASSUME flight'[k].resp = flight[k].resp,
               \/ flight'[k].pc = flight[k].pc
               \/ CacheAnswer(k) \/ SkipCache(k) \/ Publish(k)
        PROVE  InHand(k)
    BY <1>10, <2>4 DEF InHand, CacheAnswer, SkipCache, Publish
  <2> QED
    BY <1>1, <2>1, <2>2, <2>3, <2>4, FlightChange
<1> QED
  BY <1>8, <1>9, <1>10

(* The newest answer given out only gets newer.                            *)
LEMMA NewestGrows ==
  ASSUME HandlerInv, [HandlerNext]_hvars, NEW k \in Keys
  PROVE  newest[k] <= newest'[k]
<1>1. newest \in [Keys -> Nat]
  BY DEF HandlerInv, HandlerTypeOK
<1>2. CASE UNCHANGED newest
  BY <1>1, <1>2
<1>3. ASSUME NEW c \in Clients, NEW r \in Response, Replies(c, r), IsCacheable(r.msg)
      PROVE  newest[k] <= newest'[k]
  <2>1. newest' = [newest EXCEPT ![query[c].key] = Larger(@, r.at)] /\ r.at \in Nat
    BY <1>3, HandlerAssumption DEF Replies, Response
  <2> QED
    BY <1>1, <2>1 DEF Larger
<1> QED
  BY <1>2, <1>3, NewestChange

(* A query keeps its key and its floor until ServeDNS returns.             *)
LEMMA QueryChange ==
  ASSUME HandlerInv, [HandlerNext]_hvars, NEW c \in Clients
  PROVE  \/ query'[c].pc = "idle"
         \/ \E k \in Keys : Arrive(c, k) /\ query'[c].key = k /\ query'[c].floor = newest[k]
         \/ /\ query[c].pc # "idle"
            /\ query'[c].key = query[c].key /\ query'[c].floor = query[c].floor
<1> DEFINE Kept == /\ query[c].pc # "idle"
                   /\ query'[c].key = query[c].key /\ query'[c].floor = query[c].floor
<1>1. /\ query \in [Clients -> Query] /\ query[c] \in Query
  BY DEF HandlerInv, HandlerTypeOK
<1>2. ASSUME query'[c] = query[c] PROVE query'[c].pc = "idle" \/ Kept
  BY <1>2
<1>3. ASSUME NEW k \in Keys, Arrive(c, k)
      PROVE  query'[c].key = k /\ query'[c].floor = newest[k]
  BY <1>1, <1>3 DEF Arrive
<1>4. ASSUME QueryStep(c) PROVE query'[c].pc = "idle" \/ Kept
  <2>1. CASE GetStep(c) \/ StaleStep(c)
    BY <1>2, <2>1 DEF GetStep, StaleStep, handlerVars
  <2>2. CASE Hit(c) \/ Miss(c) \/ Join(c) \/ TryStale(c)
    BY <1>1, <2>2 DEF Hit, Miss, Join, TryStale, Doing, Query
  <2>3. CASE RespondHit(c) \/ RespondFetched(c) \/ RespondStale(c)
    BY <1>1, <2>3 DEF RespondHit, RespondFetched, RespondStale, Replies, Doing, Query
  <2>4. CASE Return(c)
    BY <1>1, <2>4 DEF Return, NoQuery
  <2> QED
    BY <1>4, <2>1, <2>2, <2>3, <2>4 DEF QueryStep
<1>5. ASSUME NEW d \in Clients, d # c, QueryStep(d) \/ \E k \in Keys : Arrive(d, k)
      PROVE  query'[c] = query[c]
  BY <1>1, <1>5 DEF QueryStep, Arrive, GetStep, Hit, Miss, Join, RespondHit,
     RespondFetched, TryStale, StaleStep, RespondStale, Return, Replies, handlerVars
<1>6. ASSUME NEW k \in Keys, FlightStep(k) PROVE query'[c].pc = "idle" \/ Kept
  <2>1. CASE UNCHANGED query
    BY <1>2, <2>1
  <2>2. CASE Deliver(k) /\ c \in flight[k].waiters
    <3>1. query[c].pc = "wait"
      BY <2>2 DEF HandlerInv, WaitersHaveAFlight, Doing
    <3>2. query'[c] = [query[c] EXCEPT !.pc = IF flight[k].resp = Failure
                                                THEN "failed" ELSE "fetched",
                                       !.resp = flight[k].resp]
      BY <2>2 DEF Deliver
    <3> QED
      BY <1>1, <3>1, <3>2 DEF Query
  <2>3. CASE Deliver(k) /\ c \notin flight[k].waiters
    BY <1>2, <2>3 DEF Deliver
  <2> QED
    BY <1>6, <2>1, <2>2, <2>3 DEF FlightStep, Answered, Failed, CacheAnswer, SkipCache,
       Storing, Publish, handlerVars
<1>7. CASE UNCHANGED hvars
  BY <1>2, <1>7 DEF hvars, handlerVars
<1>8. CASE HandlerNext
  <2>1. CASE UNCHANGED handlerVars
    BY <1>2, <2>1 DEF handlerVars
  <2>2. CASE \E d \in Clients : QueryStep(d) \/ \E k \in Keys : Arrive(d, k)
    <3>1. PICK d \in Clients : QueryStep(d) \/ \E k \in Keys : Arrive(d, k)
      BY <2>2
    <3>2. CASE d = c
      BY <1>3, <1>4, <3>1, <3>2
    <3> QED
      BY <1>2, <1>5, <3>1, <3>2
  <2>3. CASE \E k \in Keys : FlightStep(k)
    BY <1>6, <2>3
  <2> QED
    BY <1>8, <2>1, <2>2, <2>3 DEF HandlerNext
<1> QED
  BY <1>7, <1>8

(* The entry a client works on: the one it had, or one it has looked up.   *)
LEMMA ClientFrame ==
  ASSUME HandlerInv, [HandlerNext]_hvars, NEW c \in Clients, frame'[c].obj # NoObj
  PROVE  \/ frame'[c].obj = frame[c].obj
         \/ /\ query'[c].key \in Present /\ frame'[c].obj = entries[query'[c].key]
            /\ UNCHANGED heap
            /\ \/ Arrive(c, query'[c].key)
               \/ TryStale(c)
<1>1. /\ Clients \subseteq Threads /\ Keys \subseteq Threads /\ c \notin Keys
      /\ TypeOK /\ frame \in [Threads -> Frame]
  BY HandlerAssumption DEF HandlerInv, HandlerTypeOK, TypeOK, FramesOK
<1>2. query \in [Clients -> Query] /\ query[c] \in Query
  BY DEF HandlerInv, HandlerTypeOK
<1>3. ASSUME NEW d \in Clients, d # c, QueryStep(d) \/ \E k \in Keys : Arrive(d, k)
      PROVE  frame'[c] = frame[c]
  BY <1>1, <1>3 DEF QueryStep, Arrive, GetStep, Hit, Miss, Join, RespondHit,
     RespondFetched, TryStale, StaleStep, RespondStale, Return, GetLookup, StaleLookup, Calls,
     GetNow, GetTouch, GetMark, GetServe, StaleServe, StaleNow, StaleTouch, Release, vars
<1>4. ASSUME NEW k \in Keys, FlightStep(k) PROVE frame'[c] = frame[c]
  BY <1>1, <1>4 DEF FlightStep, Answered, Failed, CacheAnswer, SkipCache, Storing, Publish,
     Deliver, SetNow, SetLock, SetCopy, SetPublish, vars
<1>5. ASSUME NEW k \in Keys, Arrive(c, k)
      PROVE  /\ query'[c].key \in Present /\ frame'[c].obj = entries[query'[c].key]
             /\ UNCHANGED heap /\ Arrive(c, query'[c].key)
  <2>1. query'[c].key = k
    BY <1>2, <1>5 DEF Arrive
  <2>2. frame'[c].obj \in {entries[k], NoObj} /\ UNCHANGED heap
    BY <1>1, <1>5, FramesChange DEF Arrive
  <2> QED
    BY <1>5, <2>1, <2>2 DEF Present
<1>6. ASSUME TryStale(c)
      PROVE  /\ query'[c].key \in Present /\ frame'[c].obj = entries[query'[c].key]
             /\ UNCHANGED heap
  <2>1. query[c].key \in Keys /\ query'[c].key = query[c].key
    BY <1>2, <1>6 DEF TryStale, HandlerInv, HandlerTypeOK, Doing, Query
  <2>2. frame'[c].obj \in {entries[query[c].key], NoObj} /\ UNCHANGED heap
    BY <1>1, <1>6, <2>1, FramesChange DEF TryStale
  <2> QED
    BY <2>1, <2>2 DEF Present
<1>7. ASSUME QueryStep(c), ~TryStale(c) PROVE frame'[c].obj = frame[c].obj
  <2>1. CASE GetStep(c) \/ StaleStep(c)
    BY <1>1, <2>1, FramesChange DEF GetStep, StaleStep
  <2>2. CASE Miss(c) \/ RespondHit(c) \/ RespondStale(c)
    BY <1>1, <2>2 DEF Miss, RespondHit, RespondStale, Release, Idle
  <2>3. CASE Hit(c) \/ Join(c) \/ RespondFetched(c) \/ Return(c)
    BY <2>3 DEF Hit, Join, RespondFetched, Return, vars
  <2> QED
    BY <1>7, <2>1, <2>2, <2>3 DEF QueryStep
<1>8. CASE UNCHANGED hvars
  BY <1>8 DEF hvars, vars
<1>9. CASE HandlerNext
  <2>1. CASE Tick \/ StartServing \/ \E e \in Rows : LoadEntry(e)
    BY <2>1 DEF Tick, storeVars, StartServing, LoadEntry
  <2> QED
    BY <1>3, <1>4, <1>5, <1>6, <1>7, <1>9, <2>1 DEF HandlerNext
<1> QED
  BY <1>8, <1>9

LEMMA StepFloors ==
  ASSUME ServiceInv, [HandlerNext]_hvars
  PROVE  FloorsKept'
<1>1. /\ HandlerInv /\ HandlerInv' /\ [CallerStep]_vars /\ TypeOK
  BY StepHandler, HandlerCalls DEF ServiceInv, HandlerInv, HandlerTypeOK
<1> SUFFICES ASSUME NEW c \in Clients
             PROVE  /\ query'[c].pc # "idle" => query'[c].floor <= newest'[query'[c].key]
                    /\ frame'[c].obj # NoObj => query'[c].floor <= heap'[frame'[c].obj].resp.at
                    /\ Doing(c, "fetched")' /\ IsCacheable(query'[c].resp.msg) =>
                         query'[c].floor <= query'[c].resp.at
  BY DEF FloorsKept, IsCacheable
<1>2. /\ c \in Threads /\ query[c].floor \in Nat /\ query'[c].floor \in Nat
      /\ \A k \in Keys : newest[k] \in Nat /\ newest'[k] \in Nat
  BY <1>1, HandlerAssumption, Ticks DEF HandlerInv, HandlerTypeOK, Query
<1>3. query[c].pc # "idle" => query[c].key \in Keys /\ query[c].floor <= newest[query[c].key]
  BY <1>1 DEF ServiceInv, FloorsKept, HandlerInv, HandlerTypeOK
<1>4. query'[c].pc # "idle" =>
        query'[c].key \in Keys /\ query'[c].floor <= newest[query'[c].key]
  BY <1>1, <1>2, <1>3, QueryChange
<1>5. query'[c].pc # "idle" => query'[c].floor <= newest'[query'[c].key]
  BY <1>1, <1>2, <1>4, NewestGrows
<1>6. ASSUME frame'[c].obj # NoObj
      PROVE  query'[c].floor <= heap'[frame'[c].obj].resp.at
  <2>1. query'[c].pc # "idle"
    BY <1>1, <1>2, <1>6 DEF HandlerInv, HandlerTypeOK, TypeOK, FramesOK, FrameOK, At
  <2>2. CASE frame'[c].obj = frame[c].obj
    <3> DEFINE o == frame[c].obj
    <3>1. o \in Live' /\ o \in Held /\ o \in Live
      BY <1>2, <1>6, <2>2 DEF Live, Held
    <3>2. \A e \in Rows : LoadEntry(e) => o # NewObj(e.key)
      BY <1>1, <3>1, LoadStores, Stored
    <3>3. ASSUME NEW t \in Threads, SetPublish(t) PROVE o # NewObj(frame[t].key)
      <4> DEFINE e == Published(frame[t])
      <4>1. /\ e \in Entry /\ e.key = frame[t].key
            /\ \E m : /\ Store(m, e)
                      /\ m = entries \/ \E v \in Keys : m = [entries EXCEPT ![v] = NoObj]
        BY <1>1, <3>3, PublishStores DEF Present
      <4> HIDE DEF e
      <4> QED
        BY <1>1, <3>1, <4>1, Stored
    <3>4. SameAnswer(o)
      BY <1>1, <3>1, <3>2, <3>3, HeapChange
    <3>5. ~\E k \in Keys : Arrive(c, k)
      BY <1>1, <1>2, <1>6, <2>2 DEF Arrive, GetLookup, At, HandlerInv, HandlerTypeOK, TypeOK,
         FramesOK, FrameOK
    <3>6. query'[c].floor = query[c].floor
      BY <1>1, <2>1, <3>5, QueryChange
    <3> QED
      BY <1>6, <2>2, <3>4, <3>6 DEF SameAnswer, ServiceInv, FloorsKept
  <2>3. CASE /\ query'[c].key \in Present /\ frame'[c].obj = entries[query'[c].key]
             /\ UNCHANGED heap
    <3> DEFINE k == query'[c].key
    <3>1. newest[k] <= EntryOf(k).resp.at /\ EntryOf(k).resp.at \in Nat /\ k \in Keys
      BY <1>1, <2>3, Ticks DEF ServiceInv, AnswersOrdered, NoneNewer, Present
    <3>2. heap'[frame'[c].obj] = EntryOf(k)
      BY <2>3 DEF EntryOf
    <3> HIDE DEF k
    <3> QED
      BY <1>2, <1>4, <2>1, <3>1, <3>2 DEF k
  <2> QED
    BY <1>1, <1>6, <2>2, <2>3, ClientFrame
<1>7. ASSUME Doing(c, "fetched")', IsCacheable(query'[c].resp.msg)
      PROVE  query'[c].floor <= query'[c].resp.at
  <2>1. CASE query'[c] = query[c]
    BY <1>7, <2>1 DEF ServiceInv, FloorsKept, Doing
  <2>2. ASSUME NEW k \in Keys, InHand(k), query[c].key = k, Doing(c, "wait"),
               query'[c].resp = flight[k].resp, query'[c].floor = query[c].floor
        PROVE  query'[c].floor <= query'[c].resp.at
    <3>1. newest[k] <= flight[k].resp.at /\ flight[k].resp.at \in Nat
      BY <1>1, <2>2, Ticks DEF ServiceInv, AnswersOrdered, NoneNewer
    <3> QED
      BY <1>2, <1>3, <2>2, <3>1 DEF Doing
  <2> QED
    BY <1>1, <1>7, <2>1, <2>2, FetchedChange
<1> QED
  BY <1>5, <1>6, <1>7

LEMMA StepService == ServiceInv /\ [HandlerNext]_hvars => ServiceInv'
BY StepHandler, ClockStep, StepOrdered, StepFloors DEF ServiceInv

----------------------------------------------------------------------------
(* The handler implements the service of DnsService.                       *)
LEMMA InitImplements == HandlerInit => Service!Init
BY DEF HandlerInit, NoQuery, Service!Init, Doing

(* The mapped state, in the names of the two modules.                      *)
given == [c \in Clients |-> IF Doing(c, "return") THEN AnswerTick(query[c].resp) ELSE NoKey]

(* A step that neither begins a query nor replies nor returns.             *)
LEMMA Unseen ==
  ASSUME UNCHANGED newest,
         \A c \in Clients :
           \/ query'[c] = query[c]
           \/ /\ query'[c].key = query[c].key /\ query'[c].floor = query[c].floor
              /\ query[c].pc # "return" /\ query'[c].pc # "return"
  PROVE  UNCHANGED Service!serviceVars
<1>1. \A c \in Clients : query'[c].key = query[c].key /\ query'[c].floor = query[c].floor
  OBVIOUS
<1>2. given' = given
  BY DEF given, Doing, AnswerTick, IsCacheable
<1> QED
  BY <1>1, <1>2 DEF given, Service!serviceVars

LEMMA ReplyImplements ==
  ASSUME ServiceInv, NEW c \in Clients, NEW r, Replies(c, r),
         query[c].pc # "return", query[c].key \in Keys,
         (r \in Response /\ IsCacheable(r.msg)) => query[c].floor <= r.at /\ r.at <= MaxTime,
         r \in Response \/ r = Failure
  PROVE  Service!Next
<1>1. /\ query \in [Clients -> Query] /\ query[c] \in Query /\ newest \in [Keys -> Nat]
      /\ query[c].key # NoKey /\ Failure \notin Response
  BY HandlerAssumption, CacheAssumption DEF ServiceInv, HandlerInv, HandlerTypeOK
<1>2. query' = [query EXCEPT ![c].pc = "return", ![c].resp = r]
  BY DEF Replies
<1>3. /\ \A d \in Clients : d # c => query'[d] = query[d]
      /\ query'[c].key = query[c].key /\ query'[c].floor = query[c].floor
      /\ query'[c].pc = "return" /\ query'[c].resp = r
  BY <1>1, <1>2 DEF Query
<1>4. /\ \A d \in Clients : query'[d].key = query[d].key /\ query'[d].floor = query[d].floor
      /\ given' = [given EXCEPT ![c] = AnswerTick(r)]
      /\ given[c] = NoKey
  BY <1>3 DEF given, Doing, AnswerTick, IsCacheable
<1>5. CASE r \in Response /\ IsCacheable(r.msg)
  <2>1. AnswerTick(r) = r.at /\ r.at \in 0 .. MaxTime /\ query[c].floor <= r.at
    BY <1>5, CacheAssumption DEF AnswerTick, Response
  <2>2. newest' = [newest EXCEPT ![query[c].key] = IF r.at > @ THEN r.at ELSE @]
    <3> DEFINE n == newest[query[c].key]
    <3>1. n \in Nat /\ r.at \in Nat
      BY <1>1, <2>1
    <3>2. Larger(n, r.at) = IF r.at > n THEN r.at ELSE n
      BY <3>1 DEF Larger
    <3>3. newest' = [newest EXCEPT ![query[c].key] = Larger(n, r.at)]
      BY <1>1, <1>5 DEF Replies
    <3> QED
      BY <3>2, <3>3
  <2>3. query[c].floor \in Nat
    BY <1>1 DEF Query
  <2>4. Service!Answer(c, r.at)
    BY <1>1, <1>4, <2>1, <2>2, <2>3 DEF Service!Answer, Service!Waiting, given
  <2> QED
    BY <2>1, <2>4 DEF Service!Next
<1>6. CASE ~(r \in Response /\ IsCacheable(r.msg))
  <2>1. AnswerTick(r) = Failure /\ UNCHANGED newest
    BY <1>6 DEF AnswerTick, Replies
  <2>2. Service!Fail(c)
    BY <1>1, <1>4, <2>1 DEF Service!Fail, Service!Waiting, given
  <2> QED
    BY <2>2 DEF Service!Next
<1> QED
  BY <1>5, <1>6

LEMMA QueryImplements ==
  ASSUME ServiceInv, [HandlerNext]_hvars, NEW c \in Clients,
         QueryStep(c) \/ \E k \in Keys : Arrive(c, k)
  PROVE  Service!Next \/ UNCHANGED Service!serviceVars
<1>1. /\ query \in [Clients -> Query] /\ query[c] \in Query
      /\ c \in Threads /\ clock <= MaxTime /\ clock \in Nat /\ HandlerInv
      /\ MaxTime \in Nat
  BY HandlerAssumption, Ticks, CacheAssumption DEF ServiceInv, HandlerInv, HandlerTypeOK, ClockOK
<1>2. query[c].pc # "idle" => query[c].key \in Keys
  BY <1>1 DEF HandlerInv, HandlerTypeOK
<1>3. ASSUME NEW k \in Keys, Arrive(c, k) PROVE Service!Next
  <2>1. /\ query[c].pc = "idle" /\ query[c].key = NoKey
        /\ query'[c].pc = "get" /\ query'[c].key = k /\ query'[c].floor = newest[k]
        /\ \A d \in Clients : d # c => query'[d] = query[d]
        /\ UNCHANGED newest
    BY <1>1, <1>3 DEF Arrive, NoQuery
  <2>2. given' = given
    BY <2>1 DEF given, Doing, AnswerTick, IsCacheable
  <2>3. Service!Ask(c, k)
    BY <2>1, <2>2 DEF Service!Ask, given
  <2> QED
    BY <2>3 DEF Service!Next
<1>4. CASE GetStep(c) \/ StaleStep(c)
  BY <1>4, Unseen DEF GetStep, StaleStep, handlerVars
<1>5. CASE Hit(c) \/ Miss(c) \/ Join(c) \/ TryStale(c)
  <2>1. /\ \A d \in Clients : d # c => query'[d] = query[d]
        /\ query'[c].key = query[c].key /\ query'[c].floor = query[c].floor
        /\ query[c].pc # "return" /\ query'[c].pc # "return" /\ UNCHANGED newest
    BY <1>1, <1>5 DEF Hit, Miss, Join, TryStale, Doing, Query
  <2> QED
    BY <2>1, Unseen
<1>6. frame[c].obj # NoObj =>
        /\ Entered(c).resp \in Response /\ query[c].floor <= Entered(c).resp.at
        /\ query[c].pc # "idle" => Entered(c).resp.at <= MaxTime
  <2>1. ASSUME frame[c].obj # NoObj
        PROVE  /\ Entered(c).resp \in Response /\ Entered(c).resp.at \in Nat
               /\ query[c].floor <= Entered(c).resp.at
               /\ frame[c].obj \in Live /\ frame[c].obj[1] = query[c].key
    BY <1>1, <2>1, Ticks DEF Live, Entered, ServiceInv, FloorsKept, HandlerInv, ClientsOK
  <2>2. ASSUME frame[c].obj # NoObj, query[c].pc # "idle" PROVE Entered(c).resp.at <= clock
    BY <1>2, <2>1, <2>2 DEF ServiceInv, AnswersOrdered, NoneNewer, Entered
  <2> QED
    BY <1>1, <2>1, <2>2
<1>7. CASE RespondHit(c)
  BY <1>1, <1>2, <1>6, <1>7, ReplyImplements DEF RespondHit, Doing, HandlerInv, HandlerTypeOK
<1>8. CASE RespondStale(c)
  <2> DEFINE r == IF frame[c].obj = NoObj THEN Failure ELSE Entered(c).resp
  <2>1. /\ query[c].pc = "stale" /\ Replies(c, r)
        /\ r \in Response \/ r = Failure
        /\ r \in Response => query[c].floor <= r.at /\ r.at <= MaxTime
    BY <1>6, <1>8, HandlerAssumption DEF RespondStale, Doing
  <2> HIDE DEF r
  <2> QED
    BY <1>1, <1>2, <2>1, ReplyImplements
<1>9. CASE RespondFetched(c)
  <2> DEFINE r == query[c].resp
  <2>1. query[c].pc = "fetched" /\ Replies(c, r) /\ r \in Response /\ r.at \in Nat
    BY <1>1, <1>9, Ticks DEF RespondFetched, Doing
  <2>2. IsCacheable(r.msg) => query[c].floor <= r.at /\ r.at <= clock
    BY <1>1, <1>2, <2>1 DEF ServiceInv, FloorsKept, AnswersOrdered, NoneNewer, Doing
  <2> HIDE DEF r
  <2> QED
    BY <1>1, <1>2, <2>1, <2>2, ReplyImplements
<1>10. CASE Return(c)
  <2>1. /\ query[c].pc = "return" /\ UNCHANGED newest
        /\ query'[c].pc = "idle" /\ query'[c].key = NoKey /\ query'[c].floor = 0
        /\ \A d \in Clients : d # c => query'[d] = query[d]
    BY <1>1, <1>10 DEF Return, Doing, NoQuery
  <2>2. AnswerTick(query[c].resp) # NoKey
    BY HandlerAssumption DEF AnswerTick, Response
  <2>3. given[c] # NoKey /\ given' = [given EXCEPT ![c] = NoKey]
    BY <2>1, <2>2 DEF given, Doing, AnswerTick, IsCacheable
  <2>4. Service!Return(c)
    BY <2>1, <2>3 DEF Service!Return, given
  <2> QED
    BY <2>4 DEF Service!Next
<1> QED
  BY <1>3, <1>4, <1>5, <1>7, <1>8, <1>9, <1>10 DEF QueryStep

LEMMA FlightImplements ==
  ASSUME ServiceInv, NEW k \in Keys, FlightStep(k)
  PROVE  UNCHANGED Service!serviceVars
<1>1. \A c \in Clients : query[c] \in Query
  BY DEF ServiceInv, HandlerInv, HandlerTypeOK
<1>2. CASE Deliver(k)
  <2>1. ASSUME NEW c \in Clients, c \in flight[k].waiters
        PROVE  /\ query'[c].key = query[c].key /\ query'[c].floor = query[c].floor
               /\ query[c].pc # "return" /\ query'[c].pc # "return"
    <3>1. query[c].pc = "wait"
      BY <2>1 DEF ServiceInv, HandlerInv, WaitersHaveAFlight, Doing
    <3>2. query'[c] = [query[c] EXCEPT !.pc = IF flight[k].resp = Failure
                                                THEN "failed" ELSE "fetched",
                                       !.resp = flight[k].resp]
      BY <1>2, <2>1 DEF Deliver
    <3> QED
      BY <1>1, <3>1, <3>2 DEF Query
  <2>2. \A c \in Clients : c \notin flight[k].waiters => query'[c] = query[c]
    BY <1>2 DEF Deliver
  <2> QED
    BY <1>2, <2>1, <2>2, Unseen DEF Deliver
<1>3. CASE ~Deliver(k)
  BY <1>3, Unseen DEF FlightStep, Answered, Failed, CacheAnswer, SkipCache, Storing, Publish,
     handlerVars
<1> QED
  BY <1>2, <1>3

LEMMA StepImplements ==
  ServiceInv /\ [HandlerNext]_hvars => [Service!Next]_(Service!serviceVars)
<1> SUFFICES ASSUME ServiceInv, [HandlerNext]_hvars
             PROVE  Service!Next \/ UNCHANGED Service!serviceVars
  OBVIOUS
<1>1. CASE UNCHANGED handlerVars
  BY <1>1, Unseen DEF handlerVars
<1>2. UNCHANGED hvars => UNCHANGED handlerVars
  BY DEF hvars
<1> QED
  BY <1>1, <1>2, QueryImplements, FlightImplements DEF HandlerNext

(* No client is given an answer older than one that was given out before   *)
(* it asked, whatever the interleaving of hits, late hits, flights, stale  *)
(* answers and evictions (handler.go and cache.go), and however long Set   *)
(* is held up on its way to the map.  This is so of the handler and the    *)
(* cache; the Set calls of the refresher are not in HandlerSpec.           *)
THEOREM ServiceImplemented == HandlerSpec => ImplementsDnsService
<1>1. HandlerSpec => []ServiceInv
  BY InitService, StepService, PTL DEF HandlerSpec
<1> QED
  BY <1>1, InitImplements, StepImplements, PTL
     DEF HandlerSpec, ImplementsDnsService, Service!Spec
=============================================================================
