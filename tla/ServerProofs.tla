---------------------------- MODULE ServerProofs ----------------------------
(***************************************************************************)
(* Theorems about module Server, for any configurations: whatever fails or *)
(* is asked for while runServer goes through its start and its shutdown.   *)
(***************************************************************************)
EXTENDS Server, SequenceTheorems, TLAPS

Closers == {"database", "refresher", "stats", "web"}

(* A deferred call is pending once.                                        *)
Distinct == \A i, j \in DOMAIN defers : i # j => defers[i] # defers[j]

(* Until runServer has passed the line that defers a call, it is not       *)
(* pending; nor is a call while it runs.                                   *)
NotYetDeferred ==
  /\ main \in {"config", "open", "load", "refresher"} =>
       PendingDefers \subseteq {"database"}
  /\ main \in {"config", "open", "load", "await loops"} =>
       "database" \notin PendingDefers
  /\ main = "stats" => PendingDefers \subseteq {"database", "refresher"}
  /\ main \in {"web", "await web"} => "web" \notin PendingDefers

(* Somebody is going to close the database as long as it is open.          *)
DatabaseHasACloser ==
  part["database"] = "open" <=>
    main \in {"load", "await loops"} \/ "database" \in PendingDefers

(* The loops of the database are there only while it is open, or gone.     *)
LoopsHaveTheDatabase ==
  \A l \in Loops : /\ part[l] \in {"off", "wait", "work", "done"}
                   /\ part["database"] # "open" => part[l] \in {"off", "done"}

RefresherHasAStop ==
  part["refresher"] # "off" =>
    "refresher" \in PendingDefers \/ "stop refresher" \in chans

CleanEnd == proc = "clean" => main = "return" /\ defers = <<>>

ServerInv ==
  /\ ServerTypeOK /\ UsableConfig
  /\ Distinct /\ NotYetDeferred /\ DatabaseHasACloser
  /\ LoopsHaveTheDatabase /\ RefresherHasAStop /\ CleanEnd

----------------------------------------------------------------------------
(* The stack of deferred calls.                                            *)
LEMMA Push ==
  ASSUME defers \in Seq(Closers), Distinct,
         NEW d \in Closers, d \notin PendingDefers, Deferred(d)
  PROVE  /\ defers' \in Seq(Closers) /\ Distinct'
         /\ PendingDefers' = PendingDefers \cup {d}
<1>1. <<d>> \in Seq(Closers) /\ Len(<<d>>) = 1 /\ <<d>>[1] = d
  OBVIOUS
<1>2. /\ defers' \in Seq(Closers)
      /\ Len(defers') = Len(defers) + 1
      /\ defers'[1] = d
      /\ \A i \in 2 .. Len(defers) + 1 : defers'[i] = defers[i - 1]
  BY <1>1, ConcatProperties DEF Deferred
<1>3. /\ DOMAIN defers = 1 .. Len(defers) /\ Len(defers) \in Nat
      /\ DOMAIN defers' = 1 .. Len(defers')
  BY <1>2, LenProperties
<1>4. \A i \in DOMAIN defers : defers'[i + 1] = defers[i] /\ i + 1 \in DOMAIN defers'
  BY <1>2, <1>3
<1>5. PendingDefers' = PendingDefers \cup {d}
  <2>1. ASSUME NEW x \in PendingDefers' PROVE x \in PendingDefers \cup {d}
    <3>1. PICK i \in DOMAIN defers' : x = defers'[i]
      BY DEF PendingDefers
    <3>2. CASE i = 1
      BY <1>2, <3>1, <3>2
    <3>3. CASE i # 1
      <4>1. i - 1 \in DOMAIN defers /\ x = defers[i - 1]
        BY <1>2, <1>3, <3>1, <3>3
      <4> QED
        BY <4>1 DEF PendingDefers
    <3> QED
      BY <3>2, <3>3
  <2>2. PendingDefers \subseteq PendingDefers'
    BY <1>4 DEF PendingDefers
  <2>3. d \in PendingDefers'
    BY <1>2, <1>3 DEF PendingDefers
  <2> QED
    BY <2>1, <2>2, <2>3
<1>6. Distinct'
  <2>1. \A i \in DOMAIN defers : defers[i] # d
    BY DEF PendingDefers
  <2>2. ASSUME NEW i \in DOMAIN defers', NEW j \in DOMAIN defers', i < j
        PROVE  defers'[i] # defers'[j]
    <3>1. j - 1 \in DOMAIN defers /\ defers'[j] = defers[j - 1]
      BY <1>2, <1>3, <2>2
    <3>2. CASE i = 1
      BY <1>2, <2>1, <3>1, <3>2
    <3>3. CASE i # 1
      <4>1. i - 1 \in DOMAIN defers /\ defers'[i] = defers[i - 1] /\ i - 1 # j - 1
        BY <1>2, <1>3, <2>2, <3>3
      <4> QED
        BY <3>1, <4>1 DEF Distinct
    <3> QED
      BY <3>2, <3>3
  <2> QED
    BY <1>2, <1>3, <2>2 DEF Distinct
<1> QED
  BY <1>2, <1>5, <1>6

LEMMA Pop ==
  ASSUME defers \in Seq(Closers), Distinct, NEW d, NEW next, RunsDefer(d, next)
  PROVE  /\ defers' \in Seq(Closers) /\ Distinct'
         /\ PendingDefers' = PendingDefers \ {d} /\ d \in PendingDefers
         /\ proc = "up" /\ main = "return" /\ main' = next
<1>1. /\ defers # <<>> /\ Head(defers) = d /\ defers' = Tail(defers)
      /\ proc = "up" /\ main = "return" /\ main' = next
  BY DEF RunsDefer, MainFrom
<1>2. /\ d = defers[1] /\ defers' \in Seq(Closers) /\ Len(defers) \in Nat
      /\ Len(defers') = Len(defers) - 1 /\ Len(defers) >= 1
      /\ \A i \in 1 .. Len(defers) - 1 : defers'[i] = defers[i + 1]
  BY <1>1, HeadTailProperties, LenProperties, EmptySeq
<1>3. DOMAIN defers = 1 .. Len(defers) /\ DOMAIN defers' = 1 .. Len(defers) - 1
  BY <1>2, LenProperties
<1>4. \A i \in DOMAIN defers' : i + 1 \in DOMAIN defers /\ defers'[i] = defers[i + 1]
  BY <1>2, <1>3
<1>5. 1 \in DOMAIN defers
  BY <1>2, <1>3
<1>6. PendingDefers' = PendingDefers \ {d}
  <2>1. ASSUME NEW x \in PendingDefers' PROVE x \in PendingDefers \ {d}
    <3>1. PICK i \in DOMAIN defers' : x = defers'[i]
      BY DEF PendingDefers
    <3>2. i + 1 # 1
      BY <1>2, <1>3
    <3> QED
      BY <1>2, <1>4, <1>5, <3>1, <3>2 DEF PendingDefers, Distinct
  <2>2. ASSUME NEW x \in PendingDefers \ {d} PROVE x \in PendingDefers'
    <3>1. PICK i \in DOMAIN defers : x = defers[i] /\ i # 1
      BY <1>2, <2>2 DEF PendingDefers
    <3>2. i - 1 \in DOMAIN defers' /\ defers'[i - 1] = defers[i]
      BY <1>2, <1>3, <3>1
    <3> QED
      BY <3>1, <3>2 DEF PendingDefers
  <2> QED
    BY <2>1, <2>2
<1>7. Distinct'
  <2>1. \A i, j \in DOMAIN defers' : i # j => i + 1 # j + 1
    BY <1>3
  <2> QED
    BY <1>4, <2>1 DEF Distinct
<1>8. d \in PendingDefers
  BY <1>2, <1>5 DEF PendingDefers
<1> QED
  BY <1>1, <1>2, <1>6, <1>7, <1>8

----------------------------------------------------------------------------
LEMMA NormalizedUsable ==
  ASSUME NEW c \in Option
  PROVE  /\ Normalized(c) \in Option
         /\ Normalized(c).keepWindow \in 1 .. MaxWindow
         /\ Normalized(c).keepMin \in 1 .. Normalized(c).keepWindow
         /\ Normalized(c).maxAge >= 0
<1>1. /\ c.interval \in Int /\ c.keepMin \in Int /\ c.keepWindow \in Int
      /\ c.maxAge \in Int /\ c.db \in BOOLEAN /\ c.cleanup \in BOOLEAN
      /\ c.stats \in BOOLEAN /\ c.web \in BOOLEAN
  BY DEF Option
<1>2. Window(c) \in 1 .. MaxWindow
  BY <1>1, ServerAssumption DEF Window
<1> DEFINE m == Smaller(Larger(c.keepMin, 1), Window(c))
           a == Larger(c.maxAge, 0)
<1>3. m \in 1 .. Window(c) /\ a \in Int /\ a >= 0
  BY <1>1, <1>2, ServerAssumption DEF Smaller, Larger
<1>4. Normalized(c) = [c EXCEPT !.keepWindow = Window(c), !.keepMin = m, !.maxAge = a]
  BY DEF Normalized, Option
<1>5. /\ Normalized(c).keepWindow = Window(c) /\ Normalized(c).keepMin = m
      /\ Normalized(c).maxAge = a
  BY <1>4 DEF Option
<1>6. Window(c) \in Int /\ m \in Int
  BY <1>2, <1>3, ServerAssumption
<1> HIDE DEF m, a
<1>7. Normalized(c) \in Option
  BY <1>1, <1>3, <1>4, <1>6 DEF Option
<1> QED
  BY <1>2, <1>3, <1>5, <1>7

LEMMA InitInv == Init => ServerInv
<1> SUFFICES ASSUME Init PROVE ServerInv
  OBVIOUS
<1>1. PendingDefers = {} /\ Distinct /\ defers \in Seq(Closers)
  BY EmptySeq DEF Init, PendingDefers, Distinct
<1>2. ServerTypeOK
  BY <1>1, ServerAssumption DEF Init, ServerTypeOK, Closers, Parts, Loops, Listeners
<1> QED
  BY <1>1, <1>2 DEF Init, ServerInv, UsableConfig, NotYetDeferred, DatabaseHasACloser,
     LoopsHaveTheDatabase, RefresherHasAStop, CleanEnd, Parts, Loops, Listeners

(* A step that changes nothing but where main is.                          *)
LEMMA MainMoves ==
  ASSUME ServerInv, NEW pc, NEW next, MainFrom(pc, next),
         pc \in {"select", "udp", "await udp", "tcp", "await tcp", "await web",
                "await refresher"},
         next \in {"udp", "await udp", "tcp", "await tcp", "return"},
         UNCHANGED <<cfg, defers, proc, part, chans>>
  PROVE  ServerInv'
<1>1. PendingDefers' = PendingDefers /\ Distinct'
  BY DEF PendingDefers, Distinct, ServerInv
<1>2. proc = "up" /\ main = pc /\ main' = next
  BY DEF MainFrom
<1> QED
  BY <1>1, <1>2 DEF ServerInv, ServerTypeOK, UsableConfig, NotYetDeferred,
     DatabaseHasACloser, LoopsHaveTheDatabase, RefresherHasAStop, CleanEnd

(* The process ends; only Return ends it cleanly.                          *)
LEMMA EndsInv ==
  ASSUME ServerInv, NEW how \in {"fatal", "panic", "killed", "clean"}, Ends(how),
         how = "clean" => main = "return" /\ defers = <<>>
  PROVE  ServerInv'
<1>1. PendingDefers' = PendingDefers /\ Distinct'
  BY DEF PendingDefers, Distinct, ServerInv, Ends
<1> QED
  BY <1>1 DEF Ends, ServerInv, ServerTypeOK, UsableConfig, NotYetDeferred,
     DatabaseHasACloser, LoopsHaveTheDatabase, RefresherHasAStop, CleanEnd

(* A goroutine moves, or a listener, or the socket of a server closes: no  *)
(* one defers or runs a deferred call.                                     *)
LEMMA PartMoves ==
  ASSUME ServerInv, proc = "up", UNCHANGED <<cfg, defers, proc>>, chans \subseteq chans',
         chans' \subseteq chans \cup {"error"},
         NEW p \in Parts, NEW state, Becomes(p, state),
         \/ p \in Listeners /\ state \in {"start", "serve", "drain", "down"}
         \/ p \in Loops /\ part[p] \in {"wait", "work"} /\ state \in {"wait", "work", "done"}
         \/ p = "refresher" /\ part[p] # "off" /\ state \in {"wait", "work", "done"}
         \/ p = "web" /\ part[p] # "serve" /\ state = "down",
         \/ UNCHANGED main
         \/ main \in Listeners \cup {"await web"} /\ main' \in {"await udp", "await tcp", "return"}
  PROVE  ServerInv'
<1>1. PendingDefers' = PendingDefers /\ Distinct'
  BY DEF PendingDefers, Distinct, ServerInv
<1>2. part' = [part EXCEPT ![p] = state]
  BY DEF Becomes
<1>3. ServerTypeOK'
  BY <1>1, <1>2 DEF ServerInv, ServerTypeOK, Parts, Loops, Listeners
<1>4. CleanEnd'
  BY DEF CleanEnd
<1>5. NotYetDeferred' /\ DatabaseHasACloser'
  BY <1>1, <1>2 DEF ServerInv, ServerTypeOK, NotYetDeferred, DatabaseHasACloser,
     Parts, Loops, Listeners
<1>6. LoopsHaveTheDatabase' /\ RefresherHasAStop'
  BY <1>1, <1>2 DEF ServerInv, ServerTypeOK, LoopsHaveTheDatabase, RefresherHasAStop,
     Parts, Loops, Listeners
<1>7. UsableConfig'
  BY DEF ServerInv, UsableConfig, Listeners
<1> QED
  BY <1>1, <1>3, <1>4, <1>5, <1>6, <1>7 DEF ServerInv

(* The start.                                                              *)
LEMMA StartInv ==
  ASSUME ServerInv,
         \/ LoadConfig \/ OpenDatabase \/ LoadAndStartLoops
         \/ StartRefresher \/ StartStats \/ StartWeb \/ Listen
  PROVE  ServerInv'
<1>1. defers \in Seq(Closers) /\ Distinct
  BY DEF ServerInv, ServerTypeOK, Closers
<1>2. ASSUME UNCHANGED defers PROVE PendingDefers' = PendingDefers /\ Distinct'
  <2>1. PendingDefers' = PendingDefers
    BY <1>2 DEF PendingDefers
  <2>2. Distinct'
    BY <1>1, <1>2 DEF Distinct
  <2> QED
    BY <2>1, <2>2
<1> USE DEF ServerInv, NotYetDeferred, DatabaseHasACloser, LoopsHaveTheDatabase,
        RefresherHasAStop, CleanEnd, UsableConfig, MainFrom
<1>3. CASE LoadConfig
  BY <1>2, <1>3, NormalizedUsable DEF LoadConfig, ServerTypeOK
<1>4. CASE OpenDatabase
  <2>1. part' = [part EXCEPT !["database"] = "open"] /\ main = "open" /\ main' = "load"
        /\ UNCHANGED <<cfg, defers, proc, chans>> /\ proc = "up"
    BY <1>4 DEF OpenDatabase, Becomes
  <2>2. \A l \in Loops : part'[l] = part[l]
    BY <2>1 DEF Loops, ServerTypeOK, Parts
  <2>3. ServerTypeOK'
    BY <1>2, <2>1 DEF ServerTypeOK, Parts
  <2> QED
    BY <1>2, <2>1, <2>2, <2>3 DEF ServerTypeOK, Parts
<1>5. CASE LoadAndStartLoops
  <2>1. /\ part' = [part EXCEPT !["save"] = "wait",
                             !["cleanup"] = IF cfg.cleanup THEN "wait" ELSE "off"]
        /\ main = "load" /\ main' = "refresher" /\ UNCHANGED <<cfg, proc, chans>>
        /\ Deferred("database") /\ proc = "up"
    BY <1>5 DEF LoadAndStartLoops
  <2>2. /\ defers' \in Seq(Closers) /\ Distinct'
        /\ PendingDefers' = PendingDefers \cup {"database"}
    BY <1>1, <2>1, Push DEF Closers
  <2>3. \A p \in Parts \ Loops : part'[p] = part[p]
    BY <2>1 DEF Loops, ServerTypeOK, Parts
  <2>4. ServerTypeOK'
    BY <2>1, <2>2, <2>3 DEF ServerTypeOK, Parts, Loops, Listeners, Closers
  <2>5. \A l \in Loops : part'[l] \in {"off", "wait"}
    BY <2>1 DEF ServerTypeOK, Parts, Loops
  <2> QED
    BY <2>1, <2>2, <2>3, <2>4, <2>5 DEF ServerTypeOK, Parts, Loops, Listeners
<1>6. CASE StartRefresher
  <2>1. /\ part' = [part EXCEPT !["refresher"] = "start"] /\ Deferred("refresher")
        /\ main = "refresher" /\ main' = "stats" /\ UNCHANGED <<cfg, proc, chans>>
        /\ proc = "up"
    BY <1>6 DEF StartRefresher, Becomes
  <2>2. /\ defers' \in Seq(Closers) /\ Distinct'
        /\ PendingDefers' = PendingDefers \cup {"refresher"}
    BY <1>1, <2>1, Push DEF Closers
  <2>3. \A p \in Parts \ {"refresher"} : part'[p] = part[p]
    BY <2>1 DEF ServerTypeOK, Parts
  <2>4. ServerTypeOK'
    BY <2>1, <2>2, <2>3 DEF ServerTypeOK, Parts, Loops, Listeners, Closers
  <2> QED
    BY <2>1, <2>2, <2>3, <2>4 DEF ServerTypeOK, Parts, Loops, Listeners
<1>7. ASSUME NEW p \in {"stats", "web"}, p \notin PendingDefers, main = p,
             main' = IF p = "stats" THEN "web" ELSE "listen",
             part' = [part EXCEPT ![p] = "serve"], Deferred(p),
             UNCHANGED <<cfg, proc, chans>>, proc = "up"
      PROVE  ServerInv'
  <2>1. /\ defers' \in Seq(Closers) /\ Distinct'
        /\ PendingDefers' = PendingDefers \cup {p}
    BY <1>1, <1>7, Push DEF Closers
  <2>2. part'[p] = "serve" /\ \A q \in Parts \ {p} : part'[q] = part[q]
    BY <1>7 DEF ServerTypeOK, Parts
  <2>3. ServerTypeOK'
    BY <1>7, <2>1, <2>2 DEF ServerTypeOK, Parts, Loops, Listeners, Closers
  <2> QED
    BY <1>7, <2>1, <2>2, <2>3 DEF ServerTypeOK, Parts, Loops, Listeners
<1>8. ASSUME main \in {"stats", "web"}, main' = IF main = "stats" THEN "web" ELSE "listen",
             UNCHANGED <<cfg, defers, proc, part, chans>>, proc = "up"
      PROVE  ServerInv'
  BY <1>2, <1>8 DEF ServerTypeOK
<1>9. CASE StartStats
  BY <1>7, <1>8, <1>9 DEF StartStats, Becomes
<1>10. CASE StartWeb
  BY <1>7, <1>8, <1>10 DEF StartWeb, Becomes
<1>11. CASE Listen
  <2>1. /\ main = "listen" /\ main' = "select" /\ proc = "up"
        /\ UNCHANGED <<cfg, defers, proc, chans>>
        /\ part' = [p \in Parts |-> IF p \in Listeners THEN "start" ELSE part[p]]
    BY <1>11 DEF Listen
  <2>2. \A p \in Parts \ Listeners : part'[p] = part[p]
    BY <2>1
  <2>3. ServerTypeOK'
    BY <1>2, <2>1, <2>2 DEF ServerTypeOK, Parts, Loops, Listeners
  <2> QED
    BY <1>2, <2>1, <2>2, <2>3 DEF Parts, Loops, Listeners
<1> QED
  BY <1>3, <1>4, <1>5, <1>6, <1>9, <1>10, <1>11

(* A deferred call begins, and does something to one part or channel.      *)
LEMMA DeferInv ==
  ASSUME ServerInv,
         StopWeb \/ StopStats \/ StopRefresher \/ StopLoops \/ CloseDatabase
  PROVE  ServerInv'
<1> USE DEF ServerInv, NotYetDeferred, DatabaseHasACloser, LoopsHaveTheDatabase,
        RefresherHasAStop, CleanEnd, UsableConfig
<1>1. defers \in Seq(Closers)
  BY DEF ServerTypeOK, Closers
<1>2. ASSUME NEW p \in {"stats", "web"}, NEW next \in {"return", "await web"},
             next = "await web" <=> p = "web", NEW state \in {"drain", "down"},
             RunsDefer(p, next), Becomes(p, state), UNCHANGED <<cfg, proc, chans>>
      PROVE  ServerInv'
  <2>1. /\ defers' \in Seq(Closers) /\ Distinct'
        /\ PendingDefers' = PendingDefers \ {p}
        /\ proc = "up" /\ main = "return" /\ main' = next
    BY <1>1, <1>2, Pop
  <2>2. part'[p] = state /\ \A q \in Parts \ {p} : part'[q] = part[q]
    BY <1>2 DEF ServerTypeOK, Parts, Becomes
  <2>3. ServerTypeOK'
    BY <1>2, <2>1, <2>2 DEF ServerTypeOK, Parts, Loops, Listeners, Closers, Becomes
  <2> QED
    BY <1>2, <2>1, <2>2, <2>3 DEF ServerTypeOK, Parts, Loops, Listeners
<1>3. CASE StopWeb
  BY <1>2, <1>3 DEF StopWeb
<1>4. CASE StopStats
  BY <1>2, <1>4 DEF StopStats
<1>5. ASSUME NEW d \in {"refresher", "database"},
             RunsDefer(d, IF d = "refresher" THEN "await refresher" ELSE "await loops"),
             chans' = chans \cup {IF d = "refresher" THEN "stop refresher" ELSE "stop loops"},
             UNCHANGED <<cfg, proc, part>>
      PROVE  ServerInv'
  <2>1. /\ defers' \in Seq(Closers) /\ Distinct'
        /\ PendingDefers' = PendingDefers \ {d} /\ d \in PendingDefers
        /\ proc = "up" /\ main = "return"
        /\ main' = IF d = "refresher" THEN "await refresher" ELSE "await loops"
    BY <1>1, <1>5, Pop
  <2>2. ServerTypeOK'
    BY <1>5, <2>1 DEF ServerTypeOK, Closers
  <2> QED
    BY <1>5, <2>1, <2>2
<1>6. CASE StopRefresher
  BY <1>5, <1>6 DEF StopRefresher
<1>7. CASE StopLoops
  BY <1>5, <1>7 DEF StopLoops
<1>8. CASE CloseDatabase
  <2>1. /\ main = "await loops" /\ main' = "return" /\ proc = "up"
        /\ part' = [part EXCEPT !["database"] = "closed"]
        /\ UNCHANGED <<cfg, defers, proc, chans>>
        /\ \A l \in Loops : part[l] \in {"off", "done"}
    BY <1>8 DEF CloseDatabase, Becomes, MainFrom
  <2>2. PendingDefers' = PendingDefers /\ Distinct'
    <3>1. defers' = defers /\ Distinct
      BY <2>1
    <3> QED
      BY <3>1 DEF PendingDefers, Distinct
  <2>3. /\ part'["database"] = "closed"
        /\ \A p \in Parts \ {"database"} : part'[p] = part[p]
    BY <2>1 DEF ServerTypeOK, Parts
  <2>4. ServerTypeOK'
    BY <2>1, <2>2, <2>3 DEF ServerTypeOK, Parts
  <2> QED
    BY <2>1, <2>2, <2>3, <2>4 DEF Parts, Loops, Listeners
<1> QED
  BY <1>3, <1>4, <1>6, <1>7, <1>8

----------------------------------------------------------------------------
LEMMA StepInv == ServerInv /\ [Next]_svars => ServerInv'
<1> SUFFICES ASSUME ServerInv, [Next]_svars PROVE ServerInv'
  OBVIOUS
<1>1. CASE MainStep
  <2>1. CASE \/ LoadConfig \/ OpenDatabase \/ LoadAndStartLoops
             \/ StartRefresher \/ StartStats \/ StartWeb \/ Listen
    BY <2>1, StartInv
  <2>2. CASE Fatal("config") \/ Fatal("open") \/ ListenerError
    BY <2>2, EndsInv DEF Fatal, ListenerError
  <2>3. CASE Select
    BY <2>3, MainMoves DEF Select
  <2>4. ASSUME NEW s \in Listeners, Shutdown(s) PROVE ServerInv'
    <3>1. CASE part[s] = "serve"
      <4>1. /\ main = s /\ main' = Await(s) /\ proc = "up" /\ Becomes(s, "drain")
            /\ UNCHANGED <<cfg, defers, proc, chans>>
        BY <2>4, <3>1 DEF Shutdown, MainFrom
      <4>2. s \in Parts /\ Await(s) \in {"await udp", "await tcp"}
        BY DEF Parts, Await
      <4> QED
        BY <4>1, <4>2, PartMoves
    <3>2. CASE part[s] # "serve"
      BY <2>4, <3>2, MainMoves DEF Shutdown, After, Listeners
    <3> QED
      BY <3>1, <3>2
  <2>5. ASSUME NEW s \in Listeners, ShutdownOver(s) PROVE ServerInv'
    BY <2>5, MainMoves DEF ShutdownOver, Await, After, Listeners
  <2>6. CASE StopWeb \/ StopStats \/ StopRefresher \/ StopLoops \/ CloseDatabase
    BY <2>6, DeferInv
  <2>7. CASE WebStopped
    <3>1. /\ main = "await web" /\ main' = "return" /\ proc = "up" /\ Becomes("web", "down")
          /\ UNCHANGED <<cfg, defers, proc, chans>>
      BY <2>7 DEF WebStopped, MainFrom
    <3>2. "web" \in Parts /\ part["web"] # "serve"
      BY <3>1 DEF Parts, ServerInv, ServerTypeOK, NotYetDeferred
    <3> QED
      BY <3>1, <3>2, PartMoves
  <2>8. CASE RefresherStopped
    BY <2>8, MainMoves DEF RefresherStopped
  <2>9. CASE Return
    BY <2>9, EndsInv DEF Return
  <2> QED
    BY <1>1, <2>1, <2>2, <2>3, <2>4, <2>5, <2>6, <2>7, <2>8, <2>9 DEF MainStep
<1>2. CASE Signal
  <2>1. CASE Ends("killed")
    BY <2>1, EndsInv
  <2>2. CASE chans' = chans \cup {"signal"} /\ UNCHANGED <<cfg, main, defers, proc, part>>
    <3>1. PendingDefers' = PendingDefers /\ Distinct'
      BY <2>2 DEF PendingDefers, Distinct, ServerInv
    <3> QED
      BY <2>2, <3>1 DEF ServerInv, ServerTypeOK, UsableConfig, NotYetDeferred,
         DatabaseHasACloser, LoopsHaveTheDatabase, RefresherHasAStop, CleanEnd
  <2> QED
    BY <1>2, <2>1, <2>2 DEF Signal
<1>3. ASSUME NEW s \in Listeners, ListenerStep(s) PROVE ServerInv'
  <2>1. s \in Parts
    BY DEF Parts
  <2>2. UNCHANGED <<cfg, main, defers, proc>> /\ proc = "up"
    BY <1>3 DEF ListenerStep
  <2>3. \E state \in {"serve", "down"} :
          Becomes(s, state) /\ (UNCHANGED chans \/ chans' = chans \cup {"error"})
    BY <1>3 DEF ListenerStep
  <2> QED
    BY <2>1, <2>2, <2>3, PartMoves
<1>4. ASSUME NEW p \in Loops, NEW from \in {"wait", "work"},
             NEW to \in {"wait", "work", "done"}, Moves(p, from, to)
      PROVE  ServerInv'
  BY <1>4, PartMoves DEF Moves, Parts
<1>5. ASSUME NEW l \in Loops, LoopWorks(l) \/ LoopRests(l) \/ LoopLeaves(l)
      PROVE  ServerInv'
  BY <1>4, <1>5 DEF LoopWorks, LoopRests, LoopLeaves
<1>6. CASE RefresherStep
  <2>1. ASSUME NEW from \in {"start", "wait", "work"}, NEW to \in {"wait", "work", "done"},
               Moves("refresher", from, to)
        PROVE  ServerInv'
    BY <2>1, PartMoves DEF Moves, Parts
  <2>2. CASE Ends("panic")
    BY <2>2, EndsInv
  <2> QED
    BY <1>6, <2>1, <2>2 DEF RefresherStep, NewTicker
<1>7. CASE UNCHANGED svars
  <2>1. PendingDefers' = PendingDefers /\ Distinct'
    BY <1>7 DEF PendingDefers, Distinct, ServerInv, svars
  <2> QED
    BY <1>7, <2>1 DEF svars, ServerInv, ServerTypeOK, UsableConfig, NotYetDeferred,
       DatabaseHasACloser, LoopsHaveTheDatabase, RefresherHasAStop, CleanEnd
<1> QED
  BY <1>1, <1>2, <1>3, <1>5, <1>6, <1>7 DEF Next

LEMMA Invariance == Spec => []ServerInv
BY InitInv, StepInv, PTL DEF Spec

(* Types; a socket serves exactly while the call that stops it is deferred *)
(* (the early returns of runServer, and its defer statements).             *)
THEOREM TypeCorrect == Spec => []ServerTypeOK
<1>1. ServerInv => ServerTypeOK
  BY DEF ServerInv
<1> QED
  BY <1>1, Invariance, PTL

(* The loops never find the database closed: it is opened before they are  *)
(* started, and the deferred call that closes it waits for them.           *)
THEOREM DatabaseOutlives == Spec => []DatabaseOutlivesItsLoops
<1>1. ServerInv => DatabaseOutlivesItsLoops
  BY DEF ServerInv, LoopsHaveTheDatabase, DatabaseOutlivesItsLoops
<1> QED
  BY <1>1, Invariance, PTL

(* A return of runServer leaves the database closed, no loop that uses it  *)
(* and no refresher without a stop, whichever parts have come up.          *)
THEOREM ReturnStops == Spec => []ReturnStopsTheBackground
<1>1. ServerInv => ReturnStopsTheBackground
  <2> SUFFICES ASSUME ServerInv, proc = "clean" PROVE ReturnStopsTheBackground
    BY DEF ReturnStopsTheBackground
  <2>1. main = "return" /\ PendingDefers = {}
    BY DEF ServerInv, CleanEnd, PendingDefers
  <2> QED
    BY <2>1 DEF ServerInv, ServerTypeOK, DatabaseHasACloser, LoopsHaveTheDatabase,
       RefresherHasAStop, ReturnStopsTheBackground
<1> QED
  BY <1>1, Invariance, PTL

(* After normalize, whatever the file says of these three options, the     *)
(* window fits the mask, the number of days fits the window, and the age   *)
(* is not negative.                                                        *)
THEOREM ConfigUsable == Spec => []UsableConfig
<1>1. ServerInv => UsableConfig
  BY DEF ServerInv
<1> QED
  BY <1>1, Invariance, PTL
=============================================================================
