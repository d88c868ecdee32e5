------------------------------- MODULE Server -------------------------------
(***************************************************************************)
(* The life of the process: runServer of main.go with the configuration it *)
(* reads (config.go), the goroutines it starts and stops (the loops of the *)
(* database, the refresher, the statistics socket, the web page, the two   *)
(* DNS listeners), the deferred calls, and the ways it ends.               *)
(*                                                                         *)
(* What the goroutines do between start and stop is in the other modules;  *)
(* here they wait or are at work.  A timeout may pass whenever it is being *)
(* waited for.  A process that has ended takes no more steps.              *)
(***************************************************************************)
EXTENDS Integers, Sequences

CONSTANTS
  Options,             \* the configurations that may be in the file
  MaxWindow,           \* 32, the width of the mask of days
  DefaultWindow        \* 7

Option == [interval : Int, keepMin : Int, keepWindow : Int, maxAge : Int,
           db : BOOLEAN, cleanup : BOOLEAN, stats : BOOLEAN, web : BOOLEAN]

ASSUME ServerAssumption ==
  /\ Options \subseteq Option
  /\ MaxWindow \in Nat \ {0} /\ DefaultWindow \in 1 .. MaxWindow

VARIABLES
  cfg,                 \* the configuration
  main,                \* where runServer is
  defers,              \* its deferred calls, the last one first
  proc,                \* "up", or how the process has ended
  part,                \* the connection, the goroutines and the servers
  chans                \* channels that are closed or hold something

svars == <<cfg, main, defers, proc, part, chans>>

Loops == {"save", "cleanup"}
Listeners == {"udp", "tcp"}
Parts == Loops \cup Listeners \cup {"database", "refresher", "web", "stats"}

Init ==
  /\ cfg \in Options
  /\ main = "config"
  /\ defers = <<>>
  /\ proc = "up"
  /\ part = [p \in Parts |-> "off"]
  /\ chans = {}

Smaller(a, b) == IF a < b THEN a ELSE b
Larger(a, b)  == IF a > b THEN a ELSE b

----------------------------------------------------------------------------
(* normalize: the window first, since the number of days is clamped to it. *)
Window(c) == IF c.keepWindow \in 1 .. MaxWindow THEN c.keepWindow ELSE DefaultWindow

(* Mutant of Normalized: the days are clamped to the window of the file.   *)
NormalizedDaysFirst(c) ==
  [c EXCEPT !.keepWindow = Window(c),
            !.keepMin = Smaller(Larger(@, 1), c.keepWindow),
            !.maxAge = Larger(@, 0)]

Normalized(c) ==
  [c EXCEPT !.keepWindow = Window(c),
            !.keepMin = Smaller(Larger(@, 1), Window(c)),
            !.maxAge = Larger(@, 0)]

----------------------------------------------------------------------------
(* runServer up to the select.                                             *)

MainFrom(pc, next) == proc = "up" /\ main = pc /\ main' = next

Becomes(p, state) == part' = [part EXCEPT ![p] = state]

Deferred(d) == defers' = <<d>> \o defers

Ends(how) == proc' = how /\ UNCHANGED <<cfg, main, defers, part, chans>>

(* log.Fatalf: the process ends, and no deferred call runs.                *)
Fatal(pc) == proc = "up" /\ main = pc /\ Ends("fatal")

LoadConfig ==
  /\ MainFrom("config", IF cfg.db THEN "open" ELSE "refresher")
  /\ cfg' = Normalized(cfg)
  /\ UNCHANGED <<defers, proc, part, chans>>

OpenDatabase ==
  /\ MainFrom("open", "load")
  /\ Becomes("database", "open")
  /\ UNCHANGED <<cfg, defers, proc, chans>>

(* Mutant of LoadAndStartLoops: the deferred call is that of the clean-up. *)
LoadAndStartLoopsCleanup ==
  /\ MainFrom("load", "refresher")
  /\ part' = [part EXCEPT !["save"] = "wait",
                          !["cleanup"] = IF cfg.cleanup THEN "wait" ELSE "off"]
  /\ IF cfg.cleanup THEN Deferred("database") ELSE UNCHANGED defers
  /\ UNCHANGED <<cfg, proc, chans>>

(* LoadAll, whether it succeeds or not, then the loops.                    *)
LoadAndStartLoops ==
  /\ MainFrom("load", "refresher")
  /\ part' = [part EXCEPT !["save"] = "wait",
                          !["cleanup"] = IF cfg.cleanup THEN "wait" ELSE "off"]
  /\ Deferred("database")
  /\ UNCHANGED <<cfg, proc, chans>>

StartRefresher ==
  /\ MainFrom("refresher", "stats")
  /\ Becomes("refresher", "start")
  /\ Deferred("refresher")
  /\ UNCHANGED <<cfg, proc, chans>>

(* Mutant of StartStats: nothing is deferred.                              *)
StartStatsForGood ==
  /\ MainFrom("stats", "web")
  /\ (cfg.stats /\ Becomes("stats", "serve")) \/ UNCHANGED part
  /\ UNCHANGED <<cfg, defers, proc, chans>>

(* A socket that cannot be opened is logged, and nothing is deferred.      *)
StartStats ==
  /\ MainFrom("stats", "web")
  /\ \/ cfg.stats /\ Becomes("stats", "serve") /\ Deferred("stats")
     \/ UNCHANGED <<part, defers>>
  /\ UNCHANGED <<cfg, proc, chans>>

StartWeb ==
  /\ MainFrom("web", "listen")
  /\ IF cfg.web THEN Becomes("web", "serve") /\ Deferred("web")
                ELSE UNCHANGED <<part, defers>>
  /\ UNCHANGED <<cfg, proc, chans>>

(* signal.Notify, and a goroutine for each listener.                       *)
Listen ==
  /\ MainFrom("listen", "select")
  /\ part' = [p \in Parts |-> IF p \in Listeners THEN "start" ELSE part[p]]
  /\ UNCHANGED <<cfg, defers, proc, chans>>

(* The select: a listener has returned an error, which is fatal (without   *)
(* one it returns only after a shutdown), or a signal has come.            *)
ListenerError == "error" \in chans /\ Fatal("select")

Select ==
  /\ "signal" \in chans /\ MainFrom("select", "udp")
  /\ UNCHANGED <<cfg, defers, proc, part, chans>>

----------------------------------------------------------------------------
(* ShutdownContext of one listener, then of the other.  One that is not    *)
(* serving yet refuses, and may come up later.                             *)
After(s) == IF s = "udp" THEN "tcp" ELSE "return"
Await(s) == IF s = "udp" THEN "await udp" ELSE "await tcp"

Shutdown(s) ==
  /\ IF part[s] = "serve" THEN MainFrom(s, Await(s)) /\ Becomes(s, "drain")
                          ELSE MainFrom(s, After(s)) /\ UNCHANGED part
  /\ UNCHANGED <<cfg, defers, proc, chans>>

(* Its handlers have returned, or the five seconds have passed.            *)
ShutdownOver(s) ==
  /\ MainFrom(Await(s), After(s))
  /\ UNCHANGED <<cfg, defers, proc, part, chans>>

(* ListenAndServe: it comes up, fails, or returns nil once it has drained  *)
(* (to a channel that has room, and that nobody reads by then).            *)
ListenerStep(s) ==
  /\ proc = "up"
  /\ \/ part[s] = "start" /\ Becomes(s, "serve") /\ UNCHANGED chans
     \/ /\ part[s] \in {"start", "serve"} /\ Becomes(s, "down")
        /\ chans' = chans \cup {"error"}
     \/ part[s] = "drain" /\ Becomes(s, "down") /\ UNCHANGED chans
  /\ UNCHANGED <<cfg, main, defers, proc>>

(* A signal of the operator; before signal.Notify it ends the process.     *)
Signal ==
  /\ proc = "up" /\ "signal" \notin chans
  /\ IF main \in {"config", "open", "load", "refresher", "stats", "web", "listen"}
       THEN Ends("killed")
       ELSE chans' = chans \cup {"signal"} /\ UNCHANGED <<cfg, main, defers, proc, part>>

----------------------------------------------------------------------------
(* The deferred calls, the last one first.                                 *)

RunsDefer(d, next) ==
  /\ MainFrom("return", next)
  /\ defers # <<>> /\ Head(defers) = d /\ defers' = Tail(defers)

StopWeb ==
  /\ RunsDefer("web", "await web")
  /\ Becomes("web", "drain")
  /\ UNCHANGED <<cfg, proc, chans>>

(* Its connections are idle, or five seconds have passed.                  *)
WebStopped ==
  /\ MainFrom("await web", "return")
  /\ Becomes("web", "down")
  /\ UNCHANGED <<cfg, defers, proc, chans>>

StopStats ==
  /\ RunsDefer("stats", "return")
  /\ Becomes("stats", "down")
  /\ UNCHANGED <<cfg, proc, chans>>

StopRefresher ==
  /\ RunsDefer("refresher", "await refresher")
  /\ chans' = chans \cup {"stop refresher"}
  /\ UNCHANGED <<cfg, proc, part>>

(* Mutant of RefresherStopped: it waits as long as it takes.               *)
RefresherStoppedAtLast ==
  /\ part["refresher"] = "done"
  /\ MainFrom("await refresher", "return")
  /\ UNCHANGED <<cfg, defers, proc, part, chans>>

(* The loop has ended, or the six seconds have passed.                     *)
RefresherStopped ==
  /\ MainFrom("await refresher", "return")
  /\ UNCHANGED <<cfg, defers, proc, part, chans>>

StopLoops ==
  /\ RunsDefer("database", "await loops")
  /\ chans' = chans \cup {"stop loops"}
  /\ UNCHANGED <<cfg, proc, part>>

(* Mutant of CloseDatabase: it does not wait for the loops.                *)
CloseDatabaseAtOnce ==
  /\ MainFrom("await loops", "return")
  /\ Becomes("database", "closed")
  /\ UNCHANGED <<cfg, defers, proc, chans>>

(* persistWg.Wait, then Close.                                             *)
CloseDatabase ==
  /\ \A l \in Loops : part[l] \in {"off", "done"}
  /\ MainFrom("await loops", "return")
  /\ Becomes("database", "closed")
  /\ UNCHANGED <<cfg, defers, proc, chans>>

Return == proc = "up" /\ main = "return" /\ defers = <<>> /\ Ends("clean")

----------------------------------------------------------------------------
(* The goroutines: in their select, at work, or gone once told to stop.    *)
Moves(p, from, to) ==
  /\ proc = "up" /\ part[p] = from /\ Becomes(p, to)
  /\ UNCHANGED <<cfg, main, defers, proc, chans>>

LoopWorks(l)  == Moves(l, "wait", "work")
LoopRests(l)  == Moves(l, "work", "wait")
LoopLeaves(l) == "stop loops" \in chans /\ Moves(l, "wait", "done")

(* NewTicker panics when the interval is not positive, and a panic in any  *)
(* goroutine ends the process.                                             *)
NewTicker ==
  \/ cfg.interval > 0 /\ Moves("refresher", "start", "wait")
  \/ /\ cfg.interval <= 0 /\ proc = "up" /\ part["refresher"] = "start"
     /\ Ends("panic")

RefresherStep ==
  \/ NewTicker
  \/ Moves("refresher", "wait", "work") \/ Moves("refresher", "work", "wait")
  \/ "stop refresher" \in chans /\ Moves("refresher", "wait", "done")

----------------------------------------------------------------------------
MainStep ==
  \/ LoadConfig \/ Fatal("config") \/ OpenDatabase \/ Fatal("open")
  \/ LoadAndStartLoops \/ StartRefresher \/ StartStats \/ StartWeb \/ Listen
  \/ ListenerError \/ Select
  \/ \E s \in Listeners : Shutdown(s) \/ ShutdownOver(s)
  \/ StopWeb \/ WebStopped \/ StopStats \/ StopRefresher \/ RefresherStopped
  \/ StopLoops \/ CloseDatabase \/ Return

Next ==
  \/ MainStep \/ Signal
  \/ \E s \in Listeners : ListenerStep(s)
  \/ \E l \in Loops : LoopWorks(l) \/ LoopRests(l) \/ LoopLeaves(l)
  \/ RefresherStep

(* main goes on, timeouts pass and a statement of the database ends; a     *)
(* select that finds both a tick and the stop again and again takes the    *)
(* stop.  Nothing is assumed of cycles of the refresher, which may be in   *)
(* exchanges with upstreams, of clients or of the operator.                *)
Spec ==
  /\ Init /\ [][Next]_svars
  /\ WF_svars(MainStep)
  /\ \A l \in Loops : WF_svars(LoopRests(l)) /\ SF_svars(LoopLeaves(l))

----------------------------------------------------------------------------
(* Types; a socket serves exactly while the call that stops it is deferred. *)
PendingDefers == {defers[i] : i \in DOMAIN defers}

ServerTypeOK ==
  /\ cfg \in Option
  /\ main \in {"config", "open", "load", "refresher", "stats", "web", "listen",
               "select", "udp", "await udp", "tcp", "await tcp", "return",
               "await web", "await refresher", "await loops"}
  /\ defers \in Seq({"database", "refresher", "stats", "web"})
  /\ proc \in {"up", "fatal", "panic", "killed", "clean"}
  /\ part \in [Parts -> {"off", "start", "open", "closed", "wait", "work", "done",
                         "serve", "drain", "down"}]
  /\ chans \subseteq {"error", "signal", "stop refresher", "stop loops"}
  /\ \A p \in {"stats", "web"} : part[p] = "serve" <=> p \in PendingDefers

(* The database is open for as long as a loop may use it, wherever the     *)
(* loops are when the shutdown reaches them (the deferred call that waits  *)
(* for them before it closes).                                             *)
DatabaseOutlivesItsLoops ==
  \A l \in Loops : part[l] \in {"wait", "work"} => part["database"] = "open"

(* When runServer returns, whatever part of it failed to start, its        *)
(* goroutines in the background are over or told so: the database it       *)
(* opened is closed, the loops that use it have ended, and the refresher   *)
(* it started is told to stop.  The listeners are another matter: one that *)
(* is not up yet refuses ShutdownContext (main ignores the error), and may *)
(* be serving when runServer returns.                                      *)
ReturnStopsTheBackground ==
  proc = "clean" =>
    /\ part["database"] # "open"
    /\ \A l \in Loops : part[l] \in {"off", "done"}
    /\ part["refresher"] # "off" => "stop refresher" \in chans

(* normalize leaves values that the code can use as they are of the three  *)
(* options it brings within limits: a window the mask can hold, at least   *)
(* one day and no more days than the window, and no negative age.  It      *)
(* does not look at the refresh interval (NoOptionEndsTheServer).          *)
UsableConfig ==
  main # "config" =>
    /\ cfg.keepWindow \in 1 .. MaxWindow
    /\ cfg.keepMin \in 1 .. cfg.keepWindow
    /\ cfg.maxAge >= 0

(* A signal ends the process, whatever the refresher, the clients of the   *)
(* web page and the queries in flight are waiting for.                     *)
ShutdownCompletes == "signal" \in chans ~> proc # "up"

(* A wrong option never keeps the server down (the comment of normalize:   *)
(* values are brought within limits "invece di rifiutare l'avvio").        *)
NoOptionEndsTheServer == proc # "panic"
=============================================================================
