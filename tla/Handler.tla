------------------------------ MODULE Handler ------------------------------
(***************************************************************************)
(* handler.go: DNSHandler.ServeDNS and the upstream requests it shares     *)
(* through singleflight, on top of the cache calls of module Cache.        *)
(*                                                                         *)
(* A goroutine serves each query.  On a miss it joins the flight of the    *)
(* key, or becomes the one that runs it; the calls a flight makes to the   *)
(* cache are in the frame of the key itself, whichever goroutine runs it,  *)
(* since a key never has two flights.  The model has the window between    *)
(* Get and inflight.Do, and the one between the answer of the upstream and *)
(* the moment the cache has it.                                            *)
(***************************************************************************)
EXTENDS Cache

CONSTANTS Clients,     \* the goroutines that serve queries
          Failure      \* the outcome of a flight that ends with an error

ASSUME HandlerAssumption ==
  /\ Threads = Clients \cup Keys /\ Clients \cap Keys = {}
  /\ Failure \notin Nat /\ Failure \notin Response \cup {NoResp, NoKey}
  /\ NoKey \notin Nat

VARIABLES
  query,               \* per client, where ServeDNS is, and what it knows
  flight,              \* per key, the call inflight.m[key] stands for
  newest               \* auxiliary: per key, the newest answer given out

handlerVars == <<query, flight, newest>>
hvars == <<vars, handlerVars>>

NoQuery == [pc |-> "idle", key |-> NoKey, resp |-> NoResp, floor |-> 0]
NoFlight == [pc |-> "none", resp |-> NoResp, waiters |-> {}]

HandlerInit ==
  /\ Init
  /\ query = [c \in Clients |-> NoQuery]
  /\ flight = [k \in Keys |-> NoFlight]
  /\ newest = [k \in Keys |-> 0]

----------------------------------------------------------------------------
(* ServeDNS takes up a query: cache.Get begins.                            *)
Arrive(c, k) ==
  /\ query[c] = NoQuery
  /\ GetLookup(c, k)
  /\ query' = [query EXCEPT ![c] = [pc |-> "get", key |-> k, resp |-> NoResp,
                                    floor |-> newest[k]]]
  /\ UNCHANGED <<flight, newest>>

(* The rest of cache.Get.                                                  *)
GetStep(c) ==
  /\ GetNow(c) \/ GetTouch(c) \/ GetMark(c) \/ GetServe(c)
  /\ UNCHANGED handlerVars

Doing(c, pc) == query[c].pc = pc

(* inflight.Do and inflight.DoChan: a flight for k begins unless there is  *)
(* one; those who wait for its result, nobody for a background refresh,    *)
(* are added to it.                                                        *)
JoinFlight(k, waiters) ==
  IF flight[k].pc = "none"
    THEN [pc |-> "query", resp |-> NoResp, waiters |-> waiters]
    ELSE [flight[k] EXCEPT !.waiters = @ \cup waiters]

(* Get has found an entry: past its TTL a refresh is set off, and either   *)
(* way the client is going to get the copy that was found.                 *)
Hit(c) ==
  /\ Doing(c, "get") /\ At(c, "done") /\ frame[c].obj # NoObj
  /\ query' = [query EXCEPT ![c].pc = "hit"]
  /\ \/ /\ IsExpiredAt(Entered(c), clock)
        /\ flight' = [flight EXCEPT ![query[c].key] = JoinFlight(query[c].key, {})]
     \/ /\ ~IsExpiredAt(Entered(c), clock)
        /\ UNCHANGED flight
  /\ UNCHANGED <<vars, newest>>

Miss(c) ==
  /\ Doing(c, "get") /\ frame[c].obj = NoObj
  /\ Release(c)
  /\ query' = [query EXCEPT ![c].pc = "miss"]
  /\ UNCHANGED <<flight, newest>>

Join(c) ==
  /\ Doing(c, "miss")
  /\ flight' = [flight EXCEPT ![query[c].key] = JoinFlight(query[c].key, {c})]
  /\ query' = [query EXCEPT ![c].pc = "wait"]
  /\ UNCHANGED <<vars, newest>>

----------------------------------------------------------------------------
(* resolveAndCache.                                                        *)

(* Resolver.Resolve returns a message some upstream sends now, or an error *)
(* when none of them answers within the timeout of the DNS client.         *)
Answered(k) ==
  /\ flight[k].pc = "query"
  /\ \E m \in Answers :
       flight' = [flight EXCEPT ![k].pc = "answered",
                                ![k].resp = [msg |-> m, at |-> clock]]
  /\ UNCHANGED <<vars, query, newest>>

Failed(k) ==
  /\ flight[k].pc = "query"
  /\ flight' = [flight EXCEPT ![k].pc = "finish", ![k].resp = Failure]
  /\ UNCHANGED <<vars, query, newest>>

(* Mutant of CacheAnswer: Set is called only for a key the map lacks.      *)
CacheAnswerIfNew(k) ==
  /\ flight[k].pc = "answered"
  /\ IsCacheable(flight[k].resp.msg)
  /\ IF k \in Present
       THEN flight' = [flight EXCEPT ![k].pc = "finish"] /\ UNCHANGED vars
       ELSE /\ SetNow(k, k, flight[k].resp)
            /\ flight' = [flight EXCEPT ![k].pc = "set"]
  /\ UNCHANGED <<query, newest>>

(* cache.Set, when the message may be cached: the entry is built, and then *)
(* its steps under the lock put it into the map.                           *)
CacheAnswer(k) ==
  /\ flight[k].pc = "answered"
  /\ IsCacheable(flight[k].resp.msg)
  /\ SetNow(k, k, flight[k].resp)
  /\ flight' = [flight EXCEPT ![k].pc = "set"]
  /\ UNCHANGED <<query, newest>>

SkipCache(k) ==
  /\ flight[k].pc = "answered"
  /\ ~IsCacheable(flight[k].resp.msg)
  /\ flight' = [flight EXCEPT ![k].pc = "finish"]
  /\ UNCHANGED <<vars, query, newest>>

Storing(k) ==
  /\ flight[k].pc = "set"
  /\ SetLock(k) \/ SetCopy(k)
  /\ UNCHANGED handlerVars

Publish(k) ==
  /\ flight[k].pc = "set"
  /\ SetPublish(k)
  /\ flight' = [flight EXCEPT ![k].pc = "finish"]
  /\ UNCHANGED <<query, newest>>

(* Mutant of Deliver: only one of those who wait is woken.                 *)
DeliverToOne(k) ==
  /\ flight[k].pc = "finish"
  /\ \E w \in flight[k].waiters \cup {NoKey} :
       /\ w = NoKey => flight[k].waiters = {}
       /\ query' = [c \in Clients |->
                      IF c # w THEN query[c]
                      ELSE [query[c] EXCEPT !.pc = IF flight[k].resp = Failure
                                                     THEN "failed" ELSE "fetched",
                                            !.resp = flight[k].resp]]
  /\ flight' = [flight EXCEPT ![k] = NoFlight]
  /\ UNCHANGED <<vars, newest>>

(* singleflight takes the call out of its table and wakes those who wait.  *)
Deliver(k) ==
  /\ flight[k].pc = "finish"
  /\ query' = [c \in Clients |->
                 IF c \notin flight[k].waiters THEN query[c]
                 ELSE [query[c] EXCEPT !.pc = IF flight[k].resp = Failure
                                                THEN "failed" ELSE "fetched",
                                       !.resp = flight[k].resp]]
  /\ flight' = [flight EXCEPT ![k] = NoFlight]
  /\ UNCHANGED <<vars, newest>>

FlightStep(k) ==
  \/ Answered(k) \/ Failed(k)
  \/ CacheAnswer(k) \/ SkipCache(k) \/ Storing(k) \/ Publish(k) \/ Deliver(k)

----------------------------------------------------------------------------
(* The reply.  An answer that may be cached counts for `newest'.           *)
Replies(c, r) ==
  /\ query' = [query EXCEPT ![c].pc = "return", ![c].resp = r]
  /\ newest' = IF r # Failure /\ IsCacheable(r.msg)
                 THEN [newest EXCEPT ![query[c].key] = Larger(@, r.at)]
                 ELSE newest

RespondHit(c) ==
  /\ Doing(c, "hit")
  /\ Replies(c, Entered(c).resp)
  /\ Release(c)
  /\ UNCHANGED flight

RespondFetched(c) ==
  /\ Doing(c, "fetched")
  /\ Replies(c, query[c].resp)
  /\ UNCHANGED <<vars, flight>>

(* The flight has failed: GetStale, and a stale answer or SERVFAIL.        *)
TryStale(c) ==
  /\ Doing(c, "failed")
  /\ StaleLookup(c, query[c].key)
  /\ query' = [query EXCEPT ![c].pc = "stale"]
  /\ UNCHANGED <<flight, newest>>

StaleStep(c) ==
  /\ StaleServe(c) \/ StaleNow(c) \/ StaleTouch(c)
  /\ UNCHANGED handlerVars

RespondStale(c) ==
  /\ Doing(c, "stale") /\ At(c, "done")
  /\ Replies(c, IF frame[c].obj = NoObj THEN Failure ELSE Entered(c).resp)
  /\ Release(c)
  /\ UNCHANGED flight

Return(c) ==
  /\ Doing(c, "return")
  /\ query' = [query EXCEPT ![c] = NoQuery]
  /\ UNCHANGED <<vars, flight, newest>>

QueryStep(c) ==
  \/ GetStep(c) \/ Hit(c) \/ Miss(c) \/ Join(c)
  \/ RespondHit(c) \/ RespondFetched(c)
  \/ TryStale(c) \/ StaleStep(c) \/ RespondStale(c) \/ Return(c)

HandlerNext ==
  \/ Tick /\ UNCHANGED handlerVars
  \/ (StartServing \/ \E e \in Rows : LoadEntry(e)) /\ UNCHANGED handlerVars
  \/ \E c \in Clients : QueryStep(c) \/ \E k \in Keys : Arrive(c, k)
  \/ \E k \in Keys : FlightStep(k)

(* The scheduler runs every goroutine that can go on; c.mu lets in all who *)
(* wait for it (a sync.RWMutex does); and Resolve returns: each of its     *)
(* exchanges has a timeout.                                                *)
HandlerFairness ==
  /\ \A c \in Clients : SF_hvars(QueryStep(c))
  /\ \A k \in Keys : SF_hvars(FlightStep(k))

HandlerSpec == HandlerInit /\ [][HandlerNext]_hvars /\ HandlerFairness

----------------------------------------------------------------------------
Outcome == Response \cup {NoResp, Failure}

Query == [pc : {"idle", "get", "hit", "miss", "wait", "fetched", "failed",
                "stale", "return"},
          key : Keys \cup {NoKey}, resp : Outcome, floor : Nat]

Flight == [pc : {"none", "query", "answered", "set", "finish"},
           resp : Outcome, waiters : SUBSET Clients]

(* Types; a client holds a pointer into the heap for as long as it needs   *)
(* one, and the frame of a key is busy only while a flight is in Set.      *)
HandlerTypeOK ==
  /\ TypeOK
  /\ query \in [Clients -> Query]
  /\ flight \in [Keys -> Flight]
  /\ newest \in [Keys -> Nat]
  /\ \A c \in Clients :
       /\ Doing(c, "hit") => At(c, "done") /\ frame[c].obj # NoObj
       /\ query[c].pc \notin {"get", "hit", "stale"} => At(c, "idle")
       /\ query[c].pc # "idle" => query[c].key \in Keys
  /\ \A k \in Keys : IF flight[k].pc = "set" THEN frame[k].pc \in InSet ELSE At(k, "idle")

(* A flight that has a message for its clients has it in the cache first:  *)
(* until the flight is over the map has that answer, or nothing when it    *)
(* has been evicted (resolveAndCache calls Set before it returns).  The    *)
(* handler alone keeps to this: a Set of the refresher may come between.   *)
DeliveredIsCached ==
  \A k \in Keys :
    (/\ flight[k].pc = "finish" /\ flight[k].resp # Failure
     /\ IsCacheable(flight[k].resp.msg)) =>
        k \notin Present \/ EntryOf(k).resp = flight[k].resp

(* The handler gives no client an answer older than one it gave out before *)
(* the query: late hits, flights, replacements, evictions and stale        *)
(* answers of concurrent queries included (handler.go, "gia' la richiesta  *)
(* successiva trova quello nuovo").  It is so of the handler alone: the    *)
(* refresher stores its answers without regard to the flights.             *)
AnswerTick(r) == IF r \in Response /\ IsCacheable(r.msg) THEN r.at ELSE Failure

Service == INSTANCE DnsService
             WITH Ticks <- 0 .. MaxTime, Nothing <- NoKey,
                  asked <- [c \in Clients |-> query[c].key],
                  floor <- [c \in Clients |-> query[c].floor],
                  given <- [c \in Clients |-> IF Doing(c, "return")
                                                THEN AnswerTick(query[c].resp)
                                                ELSE NoKey]

ImplementsDnsService == Service!Spec

(* ServeDNS replies to every query and returns: no join is missed by the   *)
(* end of the flight it joins, and no flight is left behind.               *)
EveryQueryReturns == \A c \in Clients : ~Doing(c, "idle") ~> Doing(c, "idle")
=============================================================================
