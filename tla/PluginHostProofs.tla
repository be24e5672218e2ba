--------------------------- MODULE PluginHostProofs ---------------------------
(***************************************************************************)
(* The invariants of the plugin host for any finite set of plugins and any *)
(* bounds: a plugin is given up only for what its own code did after the   *)
(* teardown began, the health tick never sees a deleted engine, no UI      *)
(* update is forgotten, and a wedged plugin is not loaded again.           *)
(*                                                                         *)
(* The inductive invariant says for every engine, by its stage of life,    *)
(* how its worker and the calls it has posted fit together (Engines), what *)
(* the teardown has still to see (Teardown), that loads are numbered       *)
(* (Numbered) and what the record of wedged files stands for (Versions).   *)
(***************************************************************************)
EXTENDS PluginHost, FiniteSetTheorems, SequenceTheorems, TLAPS

\* A worker inside a handler.
Busy == {"lua", "C", "call", "announce"}

NoUnload(q) == \A i \in 1..Len(q) : q[i] # "unload"

\* The time a worker has spent of a teardown, and may spend in the handler it is
\* in, is that of the Unload code it ran.
OwnTime(r) == r.slow + Using(r) <= r.own

\* A loaded engine r whose worker has posted the calls c: a blocked worker has
\* its call posted, a filled box its announcement, and a start that is still to
\* be delivered its handler running.  Unload code runs only in a teardown.
LoadedOK(r, c) ==
  /\ r.doing = "call" <=> "call" \in c
  /\ r.unseen => r.pending
  /\ r.pending => r.doing = "announce" \/ "ui" \in c
  /\ "started" \in c => r.doing \in Busy
  /\ r.doing = "next" => r.left > 0
  /\ r.tearing => OwnTime(r)
  /\ ~r.tearing => /\ r.slow = 0 /\ r.own = 0
                   /\ r.handler # "unload" /\ NoUnload(r.queue)

\* A deleted engine leaves neither a start nor a blocked call behind, and an
\* update in its box has its call posted.
DeletedOK(r, c) ==
  /\ r.doing = "idle" /\ "call" \notin c /\ "started" \notin c
  /\ r.unseen => "ui" \in c

EngineOK(r, c) ==
  /\ r.life = "none" => c = {} /\ ~r.unseen
  /\ r.life = "loaded" => LoadedOK(r, c)
  /\ r.life = "deleted" => DeletedOK(r, c)
  /\ r.life = "zombie" => r.held \/ r.own > 1

Engines == \A e \in Engine : EngineOK(eng[e], calls[e])

\* unloadAll sees every engine exactly once, and past the deadline only those
\* still run that a C call held or that took more than one piece of Unload code.
Teardown ==
  /\ gui = "loop" => waiting = <<>> /\ ~expired
  /\ gui = "loop" => \A e \in Engine : eng[e].life = "loaded" => ~eng[e].tearing
  /\ gui = "wait" => Range(waiting) = Loaded /\ IsInjective(waiting)
  /\ gui = "wait" => \A e \in Engine : eng[e].life = "loaded" => eng[e].tearing
  /\ expired => \A e \in Engine : eng[e].life = "loaded" =>
                   eng[e].doing = "quit" \/ eng[e].held \/ eng[e].own > 1

Numbered == \A e \in Engine : e[2] > loads[e[1]] => eng[e].life = "none"

\* The loaded engine of a plugin is its latest; while an abandoned one is the
\* latest, its files are on record, and a record stands for an abandoned engine.
Versions ==
  /\ \A e \in Engine : eng[e].life = "loaded" => e[2] = loads[e[1]]
  /\ \A e \in Engine : eng[e].life = "zombie" /\ e[2] = loads[e[1]] =>
        wedged[e[1]] = eng[e].version
  /\ \A p \in Plugin : wedged[p] # None =>
        \E e \in Engine : /\ e[1] = p /\ eng[e].life = "zombie"
                          /\ eng[e].version = wedged[p]

PInv == /\ TypeOK /\ Engines /\ Teardown /\ Numbered /\ Versions
        /\ NoDanglingStart /\ WedgedFilesNotReloaded

-----------------------------------------------------------------------------
(* A step of one worker.                                                   *)

\* What a worker's step has to keep of its own engine for the invariant of the
\* host to hold.
LEMMA WorkerStep ==
    ASSUME PInv, NEW e \in Engine, eng[e].life = "loaded",
           NEW s \in EngineState, NEW c \in SUBSET (Brackets \cup {"call", "ui"}),
           eng' = [eng EXCEPT ![e] = s], calls' = [calls EXCEPT ![e] = c],
           UNCHANGED host, acts' \in Nat,
           s.life = "loaded", s.tearing = eng[e].tearing, s.version = eng[e].version,
           eng[e].held => s.held, s.own >= eng[e].own,
           eng[e].doing = "quit" => s.doing = "quit",
           LoadedOK(s, c)
    PROVE  PInv'
<1>1. /\ TypeOK /\ Engines /\ Teardown /\ Numbered /\ Versions
      /\ NoDanglingStart /\ WedgedFilesNotReloaded
      /\ eng \in [Engine -> EngineState]
      /\ calls \in [Engine -> SUBSET (Brackets \cup {"call", "ui"})]
  BY DEF PInv, TypeOK
<1>2. /\ eng'[e] = s /\ calls'[e] = c
      /\ \A f \in Engine : f # e => eng'[f] = eng[f] /\ calls'[f] = calls[f]
  BY <1>1
<1>3. /\ gui' = gui /\ waiting' = waiting /\ expired' = expired
      /\ execStart' = execStart /\ demoted' = demoted /\ loads' = loads
      /\ files' = files /\ wedged' = wedged /\ events' = events /\ skipped' = skipped
  BY DEF host
<1>4. \A f \in Engine : eng'[f].life = eng[f].life /\ eng'[f].version = eng[f].version
  BY <1>2
<1>5. TypeOK'
  <2>1. /\ eng' \in [Engine -> EngineState]
        /\ calls' \in [Engine -> SUBSET (Brackets \cup {"call", "ui"})]
    BY <1>1
  <2> QED
    BY <1>1, <1>3, <2>1 DEF TypeOK
<1>6. Engines'
  <2> SUFFICES ASSUME NEW f \in Engine PROVE EngineOK(eng'[f], calls'[f])
    BY DEF Engines
  <2>1. CASE f = e
    BY <1>2, <2>1 DEF EngineOK
  <2>2. CASE f # e
    BY <1>1, <1>2, <2>2 DEF Engines
  <2> QED
    BY <2>1, <2>2
<1>7. Loaded' = Loaded
  BY <1>4 DEF Loaded
<1>8. \A f \in Engine : eng'[f].tearing = eng[f].tearing
  BY <1>2
<1>9. Teardown'
  <2>1. ASSUME expired, NEW f \in Engine, eng'[f].life = "loaded"
        PROVE  eng'[f].doing = "quit" \/ eng'[f].held \/ eng'[f].own > 1
    <3>1. eng[f].doing = "quit" \/ eng[f].held \/ eng[f].own > 1
      BY <1>1, <1>4, <2>1 DEF Teardown
    <3>2. eng[e].own \in Nat /\ s.own \in Nat
      BY <1>1 DEF EngineState
    <3> QED
      BY <1>2, <3>1, <3>2
  <2> QED
    BY <1>1, <1>3, <1>4, <1>7, <1>8, <2>1 DEF Teardown
<1>10. Numbered' /\ Versions' /\ NoDanglingStart' /\ WedgedFilesNotReloaded'
  BY <1>1, <1>3, <1>4 DEF Numbered, Versions, NoDanglingStart, WedgedFilesNotReloaded
<1> QED
  BY <1>5, <1>6, <1>9, <1>10 DEF PInv

\* What a loaded engine looks like.
LEMMA LoadedFacts ==
    ASSUME PInv, NEW e \in Loaded
    PROVE  /\ e \in Engine /\ eng[e] \in EngineState /\ eng[e].life = "loaded"
           /\ LoadedOK(eng[e], calls[e])
           /\ {eng[e].left, eng[e].slow, eng[e].own} \subseteq Nat
           /\ calls[e] \in SUBSET (Brackets \cup {"call", "ui"})
           /\ acts \in Nat
           /\ calls = [calls EXCEPT ![e] = calls[e]]
<1>1. e \in Engine /\ eng[e].life = "loaded"
  BY DEF Loaded
<1>2. /\ eng \in [Engine -> EngineState] /\ acts \in Nat
      /\ calls \in [Engine -> SUBSET (Brackets \cup {"call", "ui"})]
  BY DEF PInv, TypeOK
<1>3. LoadedOK(eng[e], calls[e])
  BY <1>1 DEF PInv, Engines, EngineOK
<1>4. calls = [calls EXCEPT ![e] = calls[e]]
  BY <1>2
<1>5. {eng[e].left, eng[e].slow, eng[e].own} \subseteq Nat
  BY <1>1, <1>2 DEF EngineState
<1> QED
  BY <1>1, <1>2, <1>3, <1>4, <1>5

\* The first of the posted calls is taken.
LEMMA QueueFacts ==
    ASSUME NEW r \in EngineState, r.queue # <<>>
    PROVE  /\ Head(r.queue) \in {"load", "event", "unload", "shutdown", "quit"}
           /\ Tail(r.queue) \in Seq({"load", "event", "unload", "shutdown", "quit"})
           /\ NoUnload(r.queue) => NoUnload(Tail(r.queue)) /\ Head(r.queue) # "unload"
<1> DEFINE q == r.queue
           C == {"load", "event", "unload", "shutdown", "quit"}
<1>1. q \in Seq(C) /\ q # <<>>
  BY DEF EngineState
<1> HIDE DEF q, C
<1>2. /\ Head(q) \in C /\ Tail(q) \in Seq(C) /\ Len(q) \in Nat \ {0}
      /\ Len(Tail(q)) = Len(q) - 1
      /\ \A i \in 1..Len(Tail(q)) : Tail(q)[i] = q[i + 1]
      /\ Head(q) = q[1]
  BY <1>1, HeadTailProperties, EmptySeq
<1>3. \A i \in 1..Len(Tail(q)) : i + 1 \in 1..Len(q)
  BY <1>2
<1>4. 1 \in 1..Len(q)
  BY <1>2
<1>5. NoUnload(q) => NoUnload(Tail(q)) /\ Head(q) # "unload"
  BY <1>2, <1>3, <1>4 DEF NoUnload
<1> QED
  BY <1>2, <1>5 DEF q, C

CallNames == {"none", "load", "event", "unload"}

\* What a handler's begin leaves alone.
Kept(s, r) ==
  /\ s.life = r.life /\ s.queue = r.queue /\ s.slow = r.slow /\ s.version = r.version
  /\ s.tearing = r.tearing /\ s.held = r.held
  /\ s.pending = r.pending /\ s.unseen = r.unseen

\* A handler that begins takes a budget, which Unload code counts as its own.
LEMMA BegunFacts ==
    ASSUME NEW r \in EngineState, NEW n \in Nat, NEW h \in CallNames
    PROVE  /\ Begun(r, h, n) \in EngineState
           /\ Begun(r, h, n).doing = "lua" /\ Begun(r, h, n).handler = h
           /\ Begun(r, h, n).own = (IF h = "unload" THEN r.own + 1 ELSE r.own)
           /\ Kept(Begun(r, h, n), r)
<1> DEFINE o == IF h = "unload" THEN r.own + 1 ELSE r.own
           s == [r EXCEPT !.doing = "lua", !.handler = h, !.left = n, !.own = o]
<1>1. o \in Nat
  BY DEF EngineState
<1>2. Begun(r, h, n) = s
  BY DEF Begun
<1> HIDE DEF o, s
<1>3. s \in EngineState /\ s.doing = "lua" /\ s.handler = h /\ s.own = o
  BY <1>1 DEF s, EngineState, CallNames
<1>4. /\ s.life = r.life /\ s.queue = r.queue /\ s.slow = r.slow
      /\ s.version = r.version
  BY <1>1 DEF s, EngineState
<1>5. /\ s.tearing = r.tearing /\ s.held = r.held
      /\ s.pending = r.pending /\ s.unseen = r.unseen
  BY <1>1 DEF s, EngineState
<1>6. Kept(s, r)
  BY <1>4, <1>5 DEF Kept
<1> QED
  BY <1>2, <1>3, <1>6 DEF o

\* LuaEngine starts the first handler of a posted call.
LEMMA DispatchStep ==
    ASSUME PInv, NEW e \in Loaded, dispatchEvent(e)
    PROVE  PInv'
<1> DEFINE r == eng[e]
           q == Tail(r.queue)
           h == Head(r.queue)
           c == {"started"} \cup (calls[e] \ Brackets)
<1>1. /\ e \in Engine /\ r \in EngineState /\ r.life = "loaded"
      /\ LoadedOK(r, calls[e]) /\ {r.left, r.slow, r.own} \subseteq Nat
      /\ calls[e] \in SUBSET (Brackets \cup {"call", "ui"}) /\ acts \in Nat
  BY LoadedFacts
<1>2. /\ r.doing = "idle" /\ r.queue # <<>> /\ Runs(e, h)
      /\ UNCHANGED host /\ acts' = acts
  BY DEF dispatchEvent
<1>3. PICK n \in 1..MaxHandlers :
        eng' = [eng EXCEPT ![e] = [Begun(r, h, n - 1) EXCEPT !.queue = Tail(@), !.vm = TRUE]]
  BY Zenon DEF dispatchEvent
<1>4. calls' = [calls EXCEPT ![e] = c]
  BY DEF dispatchEvent, Posted, Brackets
<1>5. /\ q \in Seq({"load", "event", "unload", "shutdown", "quit"})
      /\ h \in {"load", "event", "unload"}
      /\ NoUnload(r.queue) => NoUnload(q) /\ h # "unload"
  BY <1>1, <1>2, QueueFacts DEF Runs
<1> DEFINE k == n - 1
           b == Begun(r, h, k)
           s == [b EXCEPT !.queue = q, !.vm = TRUE]
<1>6. /\ k \in Nat /\ r \in EngineState
      /\ h \in CallNames /\ b = Begun(r, h, k)
  BY <1>1, <1>5, PluginHostAssumption DEF CallNames
<1> HIDE DEF r, h, k, b
<1>7. /\ b \in EngineState /\ b.doing = "lua" /\ b.handler = h
      /\ b.own = (IF h = "unload" THEN r.own + 1 ELSE r.own)
      /\ Kept(b, r)
  BY <1>6, BegunFacts
<1>8. eng' = [eng EXCEPT ![e] = s]
  <2>1. eng' = [eng EXCEPT ![e] = [b EXCEPT !.queue = Tail(b.queue), !.vm = TRUE]]
    BY <1>3, Zenon DEF k, b
  <2> QED
    BY <1>7, <2>1 DEF Kept
<1> HIDE DEF s, q, c
<1>9. s \in EngineState
  BY <1>5, <1>7 DEF s, EngineState
<1>10. /\ s.life = r.life /\ s.queue = q /\ s.doing = "lua" /\ s.handler = h
       /\ s.slow = r.slow /\ s.version = r.version /\ s.own = b.own
  BY <1>7 DEF s, EngineState, Kept
<1>11. /\ s.tearing = r.tearing /\ s.held = r.held
       /\ s.pending = r.pending /\ s.unseen = r.unseen
  BY <1>7 DEF s, EngineState, Kept
<1>12. c \in SUBSET (Brackets \cup {"call", "ui"})
  BY <1>1 DEF c, Brackets
<1>13. LoadedOK(s, c)
  <2>1. "call" \in c <=> "call" \in calls[e]
    BY DEF c, Brackets
  <2>2. "ui" \in c <=> "ui" \in calls[e]
    BY DEF c, Brackets
  <2>3. r.tearing => OwnTime(s)
    BY <1>1, <1>2, <1>7, <1>10, <1>11 DEF LoadedOK, OwnTime, Using, hookRaises
  <2> QED
    BY <1>1, <1>2, <1>5, <1>7, <1>10, <1>11, <2>1, <2>2, <2>3 DEF LoadedOK, Busy
<1>14. s.own >= r.own
  BY <1>1, <1>7, <1>10
<1> QED
  BY <1>1, <1>2, <1>4, <1>8, <1>9, <1>10, <1>11, <1>12, <1>13, <1>14, WorkerStep DEF r

\* The next handler of the same event begins.
LEMMA NextHandlerStep ==
    ASSUME PInv, NEW e \in Loaded, nextHandler(e)
    PROVE  PInv'
<1> DEFINE r == eng[e]
           h == r.handler
           k == r.left - 1
           s == Begun(r, h, k)
           c == {"started"} \cup (calls[e] \ Brackets)
<1>1. /\ e \in Engine /\ r \in EngineState /\ r.life = "loaded"
      /\ LoadedOK(r, calls[e]) /\ {r.left, r.slow, r.own} \subseteq Nat
      /\ calls[e] \in SUBSET (Brackets \cup {"call", "ui"}) /\ acts \in Nat
  BY LoadedFacts
<1>2. r.doing = "next" /\ UNCHANGED host /\ acts' = acts
  BY DEF nextHandler
<1>3. eng' = [eng EXCEPT ![e] = s]
  BY Zenon DEF nextHandler
<1>4. calls' = [calls EXCEPT ![e] = c]
  BY DEF nextHandler, Posted, Brackets
<1>5. /\ k \in Nat /\ r \in EngineState
      /\ h \in CallNames /\ s = Begun(r, h, k)
  BY <1>1, <1>2 DEF LoadedOK, EngineState, CallNames
<1> HIDE DEF r, h, k, s
<1>6. /\ s \in EngineState /\ s.doing = "lua" /\ s.handler = h
      /\ s.own = (IF h = "unload" THEN r.own + 1 ELSE r.own)
      /\ Kept(s, r)
  BY <1>5, BegunFacts
<1> HIDE DEF c
<1>7. c \in SUBSET (Brackets \cup {"call", "ui"})
  BY <1>1 DEF c, Brackets
<1>8. LoadedOK(s, c)
  <2>1. "call" \in c <=> "call" \in calls[e]
    BY DEF c, Brackets
  <2>2. "ui" \in c <=> "ui" \in calls[e]
    BY DEF c, Brackets
  <2>3. r.tearing => OwnTime(s)
    BY <1>1, <1>2, <1>6 DEF LoadedOK, OwnTime, Using, hookRaises, Kept, h
  <2> QED
    BY <1>1, <1>2, <1>6, <2>1, <2>2, <2>3 DEF LoadedOK, Busy, Kept, h
<1>9. s.own >= r.own
  BY <1>1, <1>6
<1> QED
  BY <1>1, <1>2, <1>3, <1>4, <1>6, <1>7, <1>8, <1>9, WorkerStep DEF r, Kept

\* A posted call that runs no handler.
LEMMA SkipStep ==
    ASSUME PInv, NEW e \in Loaded, Skip(e)
    PROVE  PInv'
<1> DEFINE r == eng[e]
           s == [r EXCEPT !.queue = Tail(@)]
           c == calls[e]
<1>1. /\ e \in Engine /\ r \in EngineState /\ r.life = "loaded"
      /\ LoadedOK(r, calls[e]) /\ {r.left, r.slow, r.own} \subseteq Nat
      /\ calls[e] \in SUBSET (Brackets \cup {"call", "ui"}) /\ acts \in Nat
      /\ calls = [calls EXCEPT ![e] = calls[e]]
  BY LoadedFacts
<1>2. /\ r.doing = "idle" /\ r.queue # <<>>
      /\ UNCHANGED host /\ acts' \in Nat
  BY <1>1 DEF Skip
<1>3. eng' = [eng EXCEPT ![e] = s]
  BY Zenon DEF Skip
<1>4. calls' = [calls EXCEPT ![e] = c]
  BY <1>1 DEF Skip
<1>5. /\ Tail(r.queue) \in Seq({"load", "event", "unload", "shutdown", "quit"})
      /\ NoUnload(r.queue) => NoUnload(Tail(r.queue))
  BY <1>1, <1>2, QueueFacts
<1> HIDE DEF r, s, c
<1>6. s \in EngineState
  BY <1>1, <1>5 DEF s, EngineState
<1>7. /\ s.life = r.life /\ s.queue = Tail(r.queue) /\ s.doing = r.doing
      /\ s.handler = r.handler /\ s.slow = r.slow /\ s.version = r.version
  BY <1>1 DEF s, EngineState
<1>8. /\ s.tearing = r.tearing /\ s.held = r.held /\ s.pending = r.pending
      /\ s.unseen = r.unseen /\ s.left = r.left /\ s.own = r.own /\ s.abort = r.abort
  BY <1>1 DEF s, EngineState
<1>9. c \in SUBSET (Brackets \cup {"call", "ui"})
  BY <1>1 DEF c, Brackets
<1>10. LoadedOK(s, c)
  <2>1. "call" \in c <=> "call" \in calls[e]
    BY DEF c, Brackets
  <2>2. "ui" \in c <=> "ui" \in calls[e]
    BY DEF c, Brackets
  <2>3. "started" \in c <=> "started" \in calls[e]
    BY DEF c, Brackets
  <2> QED
    BY <1>1, <1>2, <1>5, <1>7, <1>8, <2>1, <2>2, <2>3
       DEF LoadedOK, OwnTime, Using, hookRaises, Busy
<1>11. s.own >= r.own
  BY <1>1, <1>8
<1> QED
  BY <1>1, <1>2, <1>3, <1>4, <1>6, <1>7, <1>8, <1>9, <1>10, <1>11, WorkerStep DEF r

\* LuaEngine::shutdown.
LEMMA ShutdownStep ==
    ASSUME PInv, NEW e \in Loaded, shutdown(e)
    PROVE  PInv'
<1> DEFINE r == eng[e]
           s == [r EXCEPT !.queue = Tail(@), !.vm = FALSE, !.handler = "none"]
           c == calls[e]
<1>1. /\ e \in Engine /\ r \in EngineState /\ r.life = "loaded"
      /\ LoadedOK(r, calls[e]) /\ {r.left, r.slow, r.own} \subseteq Nat
      /\ calls[e] \in SUBSET (Brackets \cup {"call", "ui"}) /\ acts \in Nat
      /\ calls = [calls EXCEPT ![e] = calls[e]]
  BY LoadedFacts
<1>2. /\ r.doing = "idle" /\ r.queue # <<>>
      /\ UNCHANGED host /\ acts' \in Nat
  BY <1>1 DEF shutdown
<1>3. eng' = [eng EXCEPT ![e] = s]
  BY Zenon DEF shutdown
<1>4. calls' = [calls EXCEPT ![e] = c]
  BY <1>1 DEF shutdown
<1>5. /\ Tail(r.queue) \in Seq({"load", "event", "unload", "shutdown", "quit"})
      /\ NoUnload(r.queue) => NoUnload(Tail(r.queue))
  BY <1>1, <1>2, QueueFacts
<1> HIDE DEF r, s, c
<1>6. s \in EngineState
  BY <1>1, <1>5 DEF s, EngineState
<1>7. /\ s.life = r.life /\ s.queue = Tail(r.queue) /\ s.doing = r.doing
      /\ s.handler = "none" /\ s.slow = r.slow /\ s.version = r.version
  BY <1>1 DEF s, EngineState
<1>8. /\ s.tearing = r.tearing /\ s.held = r.held /\ s.pending = r.pending
      /\ s.unseen = r.unseen /\ s.left = r.left /\ s.own = r.own /\ s.abort = r.abort
  BY <1>1 DEF s, EngineState
<1>9. c \in SUBSET (Brackets \cup {"call", "ui"})
  BY <1>1 DEF c, Brackets
<1>10. LoadedOK(s, c)
  <2>1. "call" \in c <=> "call" \in calls[e]
    BY DEF c, Brackets
  <2>2. "ui" \in c <=> "ui" \in calls[e]
    BY DEF c, Brackets
  <2>3. "started" \in c <=> "started" \in calls[e]
    BY DEF c, Brackets
  <2> QED
    BY <1>1, <1>2, <1>5, <1>7, <1>8, <2>1, <2>2, <2>3
       DEF LoadedOK, OwnTime, Using, hookRaises, Busy
<1>11. s.own >= r.own
  BY <1>1, <1>8
<1> QED
  BY <1>1, <1>2, <1>3, <1>4, <1>6, <1>7, <1>8, <1>9, <1>10, <1>11, WorkerStep DEF r

\* The worker's event loop ends.
LEMMA QuitStep ==
    ASSUME PInv, NEW e \in Loaded, quit(e)
    PROVE  PInv'
<1> DEFINE r == eng[e]
           s == [r EXCEPT !.queue = Tail(@), !.doing = "quit"]
           c == calls[e]
<1>1. /\ e \in Engine /\ r \in EngineState /\ r.life = "loaded"
      /\ LoadedOK(r, calls[e]) /\ {r.left, r.slow, r.own} \subseteq Nat
      /\ calls[e] \in SUBSET (Brackets \cup {"call", "ui"}) /\ acts \in Nat
      /\ calls = [calls EXCEPT ![e] = calls[e]]
  BY LoadedFacts
<1>2. /\ r.doing = "idle" /\ r.queue # <<>>
      /\ UNCHANGED host /\ acts' \in Nat
  BY <1>1 DEF quit
<1>3. eng' = [eng EXCEPT ![e] = s]
  BY Zenon DEF quit
<1>4. calls' = [calls EXCEPT ![e] = c]
  BY <1>1 DEF quit
<1>5. /\ Tail(r.queue) \in Seq({"load", "event", "unload", "shutdown", "quit"})
      /\ NoUnload(r.queue) => NoUnload(Tail(r.queue))
  BY <1>1, <1>2, QueueFacts
<1> HIDE DEF r, s, c
<1>6. s \in EngineState
  BY <1>1, <1>5 DEF s, EngineState
<1>7. /\ s.life = r.life /\ s.queue = Tail(r.queue) /\ s.doing = "quit"
      /\ s.handler = r.handler /\ s.slow = r.slow /\ s.version = r.version
  BY <1>1 DEF s, EngineState
<1>8. /\ s.tearing = r.tearing /\ s.held = r.held /\ s.pending = r.pending
      /\ s.unseen = r.unseen /\ s.left = r.left /\ s.own = r.own /\ s.abort = r.abort
  BY <1>1 DEF s, EngineState
<1>9. c \in SUBSET (Brackets \cup {"call", "ui"})
  BY <1>1 DEF c, Brackets
<1>10. LoadedOK(s, c)
  <2>1. "call" \in c <=> "call" \in calls[e]
    BY DEF c, Brackets
  <2>2. "ui" \in c <=> "ui" \in calls[e]
    BY DEF c, Brackets
  <2>3. "started" \in c <=> "started" \in calls[e]
    BY DEF c, Brackets
  <2> QED
    BY <1>1, <1>2, <1>5, <1>7, <1>8, <2>1, <2>2, <2>3
       DEF LoadedOK, OwnTime, Using, hookRaises, Busy
<1>11. s.own >= r.own
  BY <1>1, <1>8
<1> QED
  BY <1>1, <1>2, <1>3, <1>4, <1>6, <1>7, <1>8, <1>9, <1>10, <1>11, WorkerStep DEF r

\* A handler enters a C call.
LEMMA EnterCStep ==
    ASSUME PInv, NEW e \in Loaded, EnterC(e)
    PROVE  PInv'
<1> DEFINE r == eng[e]
           s == [r EXCEPT !.doing = "C", !.held = @ \/ r.tearing]
           c == calls[e]
<1>1. /\ e \in Engine /\ r \in EngineState /\ r.life = "loaded"
      /\ LoadedOK(r, calls[e]) /\ {r.left, r.slow, r.own} \subseteq Nat
      /\ calls[e] \in SUBSET (Brackets \cup {"call", "ui"}) /\ acts \in Nat
      /\ calls = [calls EXCEPT ![e] = calls[e]]
  BY LoadedFacts
<1>2. /\ r.doing = "lua"
      /\ UNCHANGED host /\ acts' \in Nat
  BY <1>1 DEF EnterC
<1>3. eng' = [eng EXCEPT ![e] = s]
  BY Zenon DEF EnterC
<1>4. calls' = [calls EXCEPT ![e] = c]
  BY <1>1 DEF EnterC
<1> HIDE DEF r, s, c
<1>5. s \in EngineState
  BY <1>1 DEF s, EngineState
<1>6. /\ s.life = r.life /\ s.queue = r.queue /\ s.doing = "C"
      /\ s.handler = r.handler /\ s.slow = r.slow /\ s.version = r.version
  BY <1>1 DEF s, EngineState
<1>7. /\ s.tearing = r.tearing /\ s.held = (r.held \/ r.tearing) /\ s.pending = r.pending
      /\ s.unseen = r.unseen /\ s.left = r.left /\ s.own = r.own /\ s.abort = r.abort
  BY <1>1 DEF s, EngineState
<1>8. c \in SUBSET (Brackets \cup {"call", "ui"})
  BY <1>1 DEF c, Brackets
<1>9. LoadedOK(s, c)
  <2>1. "call" \in c <=> "call" \in calls[e]
    BY DEF c, Brackets
  <2>2. "ui" \in c <=> "ui" \in calls[e]
    BY DEF c, Brackets
  <2>3. "started" \in c <=> "started" \in calls[e]
    BY DEF c, Brackets
  <2> QED
    BY <1>1, <1>2, <1>6, <1>7, <2>1, <2>2, <2>3
       DEF LoadedOK, OwnTime, Using, hookRaises, Busy
<1>10. s.own >= r.own
  BY <1>1, <1>7
<1> QED
  BY <1>1, <1>2, <1>3, <1>4, <1>5, <1>6, <1>7, <1>8, <1>9, <1>10, WorkerStep DEF r

\* A handler leaves a C call.
LEMMA LeaveCStep ==
    ASSUME PInv, NEW e \in Loaded, LeaveC(e)
    PROVE  PInv'
<1> DEFINE r == eng[e]
           s == [r EXCEPT !.doing = "lua"]
           c == calls[e]
<1>1. /\ e \in Engine /\ r \in EngineState /\ r.life = "loaded"
      /\ LoadedOK(r, calls[e]) /\ {r.left, r.slow, r.own} \subseteq Nat
      /\ calls[e] \in SUBSET (Brackets \cup {"call", "ui"}) /\ acts \in Nat
      /\ calls = [calls EXCEPT ![e] = calls[e]]
  BY LoadedFacts
<1>2. /\ r.doing = "C"
      /\ UNCHANGED host /\ acts' \in Nat
  BY <1>1 DEF LeaveC
<1>3. eng' = [eng EXCEPT ![e] = s]
  BY Zenon DEF LeaveC
<1>4. calls' = [calls EXCEPT ![e] = c]
  BY <1>1 DEF LeaveC
<1> HIDE DEF r, s, c
<1>5. s \in EngineState
  BY <1>1 DEF s, EngineState
<1>6. /\ s.life = r.life /\ s.queue = r.queue /\ s.doing = "lua"
      /\ s.handler = r.handler /\ s.slow = r.slow /\ s.version = r.version
  BY <1>1 DEF s, EngineState
<1>7. /\ s.tearing = r.tearing /\ s.held = r.held /\ s.pending = r.pending
      /\ s.unseen = r.unseen /\ s.left = r.left /\ s.own = r.own /\ s.abort = r.abort
  BY <1>1 DEF s, EngineState
<1>8. c \in SUBSET (Brackets \cup {"call", "ui"})
  BY <1>1 DEF c, Brackets
<1>9. LoadedOK(s, c)
  <2>1. "call" \in c <=> "call" \in calls[e]
    BY DEF c, Brackets
  <2>2. "ui" \in c <=> "ui" \in calls[e]
    BY DEF c, Brackets
  <2>3. "started" \in c <=> "started" \in calls[e]
    BY DEF c, Brackets
  <2> QED
    BY <1>1, <1>2, <1>6, <1>7, <2>1, <2>2, <2>3
       DEF LoadedOK, OwnTime, Using, hookRaises, Busy
<1>10. s.own >= r.own
  BY <1>1, <1>7
<1> QED
  BY <1>1, <1>2, <1>3, <1>4, <1>5, <1>6, <1>7, <1>8, <1>9, <1>10, WorkerStep DEF r

\* A settings call blocks the worker; one of Unload code counts as its own.
LEMMA SettingsStep ==
    ASSUME PInv, NEW e \in Loaded, lua_ants_settings(e)
    PROVE  PInv'
<1> DEFINE r == eng[e]
           m == IF r.handler = "unload" THEN 1 ELSE 0
           a == r.slow + m
           o == r.own + m
           s == [r EXCEPT !.doing = "call", !.slow = a, !.own = o]
           c == {"call"} \cup calls[e]
<1>1. /\ e \in Engine /\ r \in EngineState /\ r.life = "loaded"
      /\ LoadedOK(r, calls[e]) /\ {r.left, r.slow, r.own} \subseteq Nat
      /\ calls[e] \in SUBSET (Brackets \cup {"call", "ui"}) /\ acts \in Nat
      /\ calls = [calls EXCEPT ![e] = calls[e]]
  BY LoadedFacts
<1>2. /\ r.doing = "lua"
      /\ UNCHANGED host /\ acts' \in Nat
  BY <1>1 DEF lua_ants_settings
<1>3. eng' = [eng EXCEPT ![e] = s]
  BY Zenon DEF lua_ants_settings
<1>4. calls' = [calls EXCEPT ![e] = c]
  BY <1>1 DEF lua_ants_settings, Posted, Brackets
<1>5. a \in Nat /\ o \in Nat /\ m \in {0, 1}
  BY <1>1
<1> HIDE DEF r, s, c, a, o
<1>6. s \in EngineState
  BY <1>1, <1>5 DEF s, EngineState
<1>7. /\ s.life = r.life /\ s.queue = r.queue /\ s.doing = "call"
      /\ s.handler = r.handler /\ s.slow = a /\ s.version = r.version
  BY <1>1, <1>5 DEF s, EngineState
<1>8. /\ s.tearing = r.tearing /\ s.held = r.held /\ s.pending = r.pending
      /\ s.unseen = r.unseen /\ s.left = r.left /\ s.own = o /\ s.abort = r.abort
  BY <1>1, <1>5 DEF s, EngineState
<1>9. c \in SUBSET (Brackets \cup {"call", "ui"})
  BY <1>1 DEF c, Brackets
<1>10. LoadedOK(s, c)
  <2>1. "call" \in c <=> TRUE
    BY DEF c, Brackets
  <2>2. "ui" \in c <=> "ui" \in calls[e]
    BY DEF c, Brackets
  <2>3. "started" \in c <=> "started" \in calls[e]
    BY DEF c, Brackets
  <2>4. r.tearing => OwnTime(s)
    BY <1>1, <1>2, <1>7, <1>8, <1>5 DEF LoadedOK, OwnTime, Using, hookRaises, a, o
  <2>5. ~r.tearing => a = 0 /\ o = 0
    BY <1>1 DEF LoadedOK, a, o
  <2> QED
    BY <1>1, <1>2, <1>7, <1>8, <2>1, <2>2, <2>3, <2>4, <2>5 DEF LoadedOK, Busy
<1>11. s.own >= r.own
  BY <1>1, <1>8, <1>5 DEF o
<1> QED
  BY <1>1, <1>2, <1>3, <1>4, <1>6, <1>7, <1>8, <1>9, <1>10, <1>11, WorkerStep DEF r

\* The box is filled; its announcement follows unless one is pending.
LEMMA PostUpdateStep ==
    ASSUME PInv, NEW e \in Loaded, postUiUpdate(e)
    PROVE  PInv'
<1> DEFINE r == eng[e]
           s == [r EXCEPT !.unseen = TRUE, !.pending = TRUE, !.doing = IF r.pending THEN "lua" ELSE "announce"]
           c == calls[e]
<1>1. /\ e \in Engine /\ r \in EngineState /\ r.life = "loaded"
      /\ LoadedOK(r, calls[e]) /\ {r.left, r.slow, r.own} \subseteq Nat
      /\ calls[e] \in SUBSET (Brackets \cup {"call", "ui"}) /\ acts \in Nat
      /\ calls = [calls EXCEPT ![e] = calls[e]]
  BY LoadedFacts
<1>2. /\ r.doing = "lua"
      /\ UNCHANGED host /\ acts' \in Nat
  BY <1>1 DEF postUiUpdate
<1>3. eng' = [eng EXCEPT ![e] = s]
  BY Zenon DEF postUiUpdate
<1>4. calls' = [calls EXCEPT ![e] = c]
  BY <1>1 DEF postUiUpdate
<1> HIDE DEF r, s, c
<1>5. s \in EngineState
  BY <1>1 DEF s, EngineState
<1>6. /\ s.life = r.life /\ s.queue = r.queue /\ s.doing = (IF r.pending THEN "lua" ELSE "announce")
      /\ s.handler = r.handler /\ s.slow = r.slow /\ s.version = r.version
  BY <1>1 DEF s, EngineState
<1>7. /\ s.tearing = r.tearing /\ s.held = r.held /\ s.pending = TRUE
      /\ s.unseen = TRUE /\ s.left = r.left /\ s.own = r.own /\ s.abort = r.abort
  BY <1>1 DEF s, EngineState
<1>8. c \in SUBSET (Brackets \cup {"call", "ui"})
  BY <1>1 DEF c, Brackets
<1>9. LoadedOK(s, c)
  <2>1. "call" \in c <=> "call" \in calls[e]
    BY DEF c, Brackets
  <2>2. "ui" \in c <=> "ui" \in calls[e]
    BY DEF c, Brackets
  <2>3. "started" \in c <=> "started" \in calls[e]
    BY DEF c, Brackets
  <2> QED
    BY <1>1, <1>2, <1>6, <1>7, <2>1, <2>2, <2>3
       DEF LoadedOK, OwnTime, Using, hookRaises, Busy
<1>10. s.own >= r.own
  BY <1>1, <1>7
<1> QED
  BY <1>1, <1>2, <1>3, <1>4, <1>5, <1>6, <1>7, <1>8, <1>9, <1>10, WorkerStep DEF r

\* The announcement of a filled box.
LEMMA AnnounceStep ==
    ASSUME PInv, NEW e \in Loaded, uiUpdatesPending(e)
    PROVE  PInv'
<1> DEFINE r == eng[e]
           s == [r EXCEPT !.doing = "lua"]
           c == {"ui"} \cup calls[e]
<1>1. /\ e \in Engine /\ r \in EngineState /\ r.life = "loaded"
      /\ LoadedOK(r, calls[e]) /\ {r.left, r.slow, r.own} \subseteq Nat
      /\ calls[e] \in SUBSET (Brackets \cup {"call", "ui"}) /\ acts \in Nat
      /\ calls = [calls EXCEPT ![e] = calls[e]]
  BY LoadedFacts
<1>2. /\ r.doing = "announce"
      /\ UNCHANGED host /\ acts' \in Nat
  BY <1>1 DEF uiUpdatesPending
<1>3. eng' = [eng EXCEPT ![e] = s]
  BY Zenon DEF uiUpdatesPending
<1>4. calls' = [calls EXCEPT ![e] = c]
  BY <1>1 DEF uiUpdatesPending, Posted, Brackets
<1> HIDE DEF r, s, c
<1>5. s \in EngineState
  BY <1>1 DEF s, EngineState
<1>6. /\ s.life = r.life /\ s.queue = r.queue /\ s.doing = "lua"
      /\ s.handler = r.handler /\ s.slow = r.slow /\ s.version = r.version
  BY <1>1 DEF s, EngineState
<1>7. /\ s.tearing = r.tearing /\ s.held = r.held /\ s.pending = r.pending
      /\ s.unseen = r.unseen /\ s.left = r.left /\ s.own = r.own /\ s.abort = r.abort
  BY <1>1 DEF s, EngineState
<1>8. c \in SUBSET (Brackets \cup {"call", "ui"})
  BY <1>1 DEF c, Brackets
<1>9. LoadedOK(s, c)
  <2>1. "call" \in c <=> "call" \in calls[e]
    BY DEF c, Brackets
  <2>2. "ui" \in c <=> TRUE
    BY DEF c, Brackets
  <2>3. "started" \in c <=> "started" \in calls[e]
    BY DEF c, Brackets
  <2> QED
    BY <1>1, <1>2, <1>6, <1>7, <2>1, <2>2, <2>3
       DEF LoadedOK, OwnTime, Using, hookRaises, Busy
<1>10. s.own >= r.own
  BY <1>1, <1>7
<1> QED
  BY <1>1, <1>2, <1>3, <1>4, <1>5, <1>6, <1>7, <1>8, <1>9, <1>10, WorkerStep DEF r

\* A handler that ends has spent the budget it was using.
LEMMA EndedFacts ==
    ASSUME NEW r \in EngineState, NEW n \in Nat
    PROVE  /\ Ended(r, n) \in EngineState
           /\ Ended(r, n).life = r.life /\ Ended(r, n).queue = r.queue
           /\ Ended(r, n).doing = (IF n = 0 THEN "idle" ELSE "next")
           /\ Ended(r, n).handler \in {"none", r.handler} /\ Ended(r, n).left = n
           /\ Ended(r, n).slow = (IF r.tearing THEN r.slow + Using(r) ELSE r.slow)
           /\ Ended(r, n).own = r.own /\ Ended(r, n).version = r.version
           /\ Ended(r, n).tearing = r.tearing /\ Ended(r, n).held = r.held
           /\ Ended(r, n).pending = r.pending /\ Ended(r, n).unseen = r.unseen
<1> DEFINE d == IF n = 0 THEN "idle" ELSE "next"
           h == IF n = 0 THEN "none" ELSE r.handler
           a == IF r.tearing THEN r.slow + Using(r) ELSE r.slow
           s == [r EXCEPT !.doing = d, !.handler = h, !.left = n, !.slow = a]
<1>1. /\ d \in {"idle", "next"} /\ h \in {"none", "load", "event", "unload"}
      /\ h \in {"none", r.handler} /\ a \in Nat
  BY DEF EngineState, Using
<1>2. Ended(r, n) = s
  BY DEF Ended
<1> HIDE DEF d, h, a, s
<1>3. /\ s \in EngineState
      /\ s.life = r.life /\ s.queue = r.queue /\ s.doing = d /\ s.handler = h
  BY <1>1 DEF s, EngineState
<1>4. /\ s.left = n /\ s.slow = a /\ s.own = r.own /\ s.version = r.version
      /\ s.tearing = r.tearing
  BY <1>1 DEF s, EngineState
<1>5. s.held = r.held /\ s.pending = r.pending /\ s.unseen = r.unseen
  BY <1>1 DEF s, EngineState
<1> QED
  BY <1>1, <1>2, <1>3, <1>4, <1>5 DEF d, a

\* A handler returns or is ended.
LEMMA ReturnStep ==
    ASSUME PInv, NEW e \in Loaded, timedPcallReturns(e)
    PROVE  PInv'
<1> DEFINE r == eng[e]
           c == {"completed"} \cup (calls[e] \ Brackets)
<1>1. /\ e \in Engine /\ r \in EngineState /\ r.life = "loaded"
      /\ LoadedOK(r, calls[e]) /\ {r.left, r.slow, r.own} \subseteq Nat
      /\ calls[e] \in SUBSET (Brackets \cup {"call", "ui"}) /\ acts \in Nat
  BY LoadedFacts
<1>2. /\ r.doing = "lua" /\ UNCHANGED host /\ acts' \in Nat
  BY <1>1 DEF timedPcallReturns
<1>3. calls' = [calls EXCEPT ![e] = c]
  BY DEF timedPcallReturns, Posted, Brackets
<1>4. PICK ok \in BOOLEAN, n \in {0, r.left} :
        eng' = [eng EXCEPT ![e] = [Ended(r, n) EXCEPT !.vm = ok \/ r.handler # "load"]]
  BY DEF timedPcallReturns
<1> DEFINE b == Ended(r, n)
           v == ok \/ r.handler # "load"
           s == [b EXCEPT !.vm = v]
<1>5. eng' = [eng EXCEPT ![e] = s]
  BY <1>4, Zenon
<1>6. n \in Nat /\ r \in EngineState
  BY <1>1, <1>4
<1>7. v \in BOOLEAN
  BY Zenon
<1> HIDE DEF r, v
<1>8. /\ b \in EngineState
      /\ b.life = r.life /\ b.queue = r.queue
      /\ b.doing = (IF n = 0 THEN "idle" ELSE "next")
      /\ b.handler \in {"none", r.handler} /\ b.left = n
      /\ b.slow = (IF r.tearing THEN r.slow + Using(r) ELSE r.slow)
      /\ b.own = r.own /\ b.version = r.version
      /\ b.tearing = r.tearing /\ b.held = r.held
      /\ b.pending = r.pending /\ b.unseen = r.unseen
  BY <1>6, EndedFacts
<1> HIDE DEF c, b, s
<1>9. s \in EngineState
  BY <1>8, <1>7 DEF s, EngineState
<1>10. /\ s.life = b.life /\ s.queue = b.queue /\ s.doing = b.doing
       /\ s.handler = b.handler /\ s.slow = b.slow /\ s.version = b.version
  BY <1>8 DEF s, EngineState
<1>11. /\ s.tearing = b.tearing /\ s.held = b.held /\ s.pending = b.pending
       /\ s.unseen = b.unseen /\ s.left = b.left /\ s.own = b.own
  BY <1>8 DEF s, EngineState
<1>12. c \in SUBSET (Brackets \cup {"call", "ui"})
  BY <1>1 DEF c, Brackets
<1>13. LoadedOK(s, c)
  <2>1. "call" \in c <=> "call" \in calls[e]
    BY DEF c, Brackets
  <2>2. "ui" \in c <=> "ui" \in calls[e]
    BY DEF c, Brackets
  <2>3. "started" \notin c
    BY DEF c, Brackets
  <2>4. s.doing \in {"idle", "next"} /\ (s.doing = "next" => s.left > 0)
    BY <1>6, <1>8, <1>10, <1>11
  <2>5. Using(r) \in {0, 1} /\ Using(s) = 0
    BY <2>4 DEF Using
  <2>6. r.tearing => OwnTime(s)
    BY <1>1, <1>8, <1>10, <1>11, <2>5 DEF LoadedOK, OwnTime
  <2> QED
    BY <1>1, <1>2, <1>8, <1>10, <1>11, <2>1, <2>2, <2>3, <2>4, <2>6 DEF LoadedOK
<1>14. s.own >= r.own
  BY <1>1, <1>8, <1>11
<1> QED
  BY <1>1, <1>2, <1>3, <1>5, <1>8, <1>9, <1>10, <1>11, <1>12, <1>13, <1>14, WorkerStep
     DEF r

-----------------------------------------------------------------------------
(* The GUI's steps.                                                        *)

\* A delivered update empties the box.
LEMMA TakenFacts ==
    ASSUME NEW e \in Engine, eng[e] \in EngineState
    PROVE  /\ Taken(e) \in EngineState
           /\ Taken(e).life = eng[e].life /\ Taken(e).queue = eng[e].queue
           /\ Taken(e).doing = eng[e].doing /\ Taken(e).handler = eng[e].handler
           /\ Taken(e).slow = eng[e].slow /\ Taken(e).version = eng[e].version
           /\ Taken(e).tearing = eng[e].tearing /\ Taken(e).held = eng[e].held
           /\ Taken(e).left = eng[e].left /\ Taken(e).own = eng[e].own
           /\ Taken(e).abort = eng[e].abort
           /\ ~Taken(e).pending /\ ~Taken(e).unseen
<1> DEFINE r == eng[e]
           s == [r EXCEPT !.unseen = FALSE, !.pending = FALSE]
<1>1. r \in EngineState /\ Taken(e) = s
  BY DEF Taken
<1> HIDE DEF r, s
<1>2. /\ s \in EngineState
      /\ s.life = r.life /\ s.queue = r.queue /\ s.doing = r.doing
      /\ s.handler = r.handler /\ s.slow = r.slow /\ s.version = r.version
  BY <1>1 DEF s, EngineState
<1>3. /\ s.tearing = r.tearing /\ s.held = r.held
      /\ s.pending = FALSE /\ s.unseen = FALSE
      /\ s.left = r.left /\ s.own = r.own /\ s.abort = r.abort
  BY <1>1 DEF s, EngineState
<1> QED
  BY <1>1, <1>2, <1>3 DEF r

\* An answered settings call lets its worker go on.
LEMMA AnsweredFacts ==
    ASSUME NEW e \in Engine, NEW r \in EngineState
    PROVE  /\ Answered(e, r) \in EngineState
           /\ Answered(e, r).life = r.life /\ Answered(e, r).queue = r.queue
           /\ Answered(e, r).doing = (IF "call" \in calls[e] THEN "lua" ELSE r.doing)
           /\ Answered(e, r).handler = r.handler /\ Answered(e, r).slow = r.slow
           /\ Answered(e, r).version = r.version
           /\ Answered(e, r).tearing = r.tearing /\ Answered(e, r).held = r.held
           /\ Answered(e, r).left = r.left /\ Answered(e, r).own = r.own
           /\ Answered(e, r).abort = r.abort
           /\ Answered(e, r).pending = r.pending /\ Answered(e, r).unseen = r.unseen
<1> DEFINE s == [r EXCEPT !.doing = "lua"]
<1>1. Answered(e, r) = IF "call" \in calls[e] THEN s ELSE r
  BY DEF Answered, Deliverable
<1> HIDE DEF s
<1>2. /\ s \in EngineState
      /\ s.life = r.life /\ s.queue = r.queue /\ s.doing = "lua"
      /\ s.handler = r.handler /\ s.slow = r.slow /\ s.version = r.version
  BY DEF s, EngineState
<1>3. /\ s.tearing = r.tearing /\ s.held = r.held
      /\ s.pending = r.pending /\ s.unseen = r.unseen
      /\ s.left = r.left /\ s.own = r.own /\ s.abort = r.abort
  BY DEF s, EngineState
<1> QED
  BY <1>1, <1>2, <1>3

\* The GUI delivers what its workers have posted: blocked workers go on, boxes
\* are emptied, and no start of a deleted engine is entered.
LEMMA DeliverStep ==
    ASSUME PInv, sendPostedEvents
    PROVE  PInv'
<1>1. /\ TypeOK /\ Engines /\ Teardown /\ Numbered /\ Versions
      /\ NoDanglingStart /\ WedgedFilesNotReloaded
      /\ eng \in [Engine -> EngineState]
      /\ calls \in [Engine -> SUBSET (Brackets \cup {"call", "ui"})]
  BY DEF PInv, TypeOK
<1>2. /\ gui' = gui /\ waiting' = waiting /\ expired' = expired
      /\ demoted' = demoted /\ loads' = loads /\ files' = files /\ wedged' = wedged
      /\ events' = events /\ acts' = acts /\ skipped' = skipped
      /\ calls' = [e \in Engine |-> {}]
      /\ execStart' = {e \in Engine : IF e \in execStart THEN "completed" \notin calls[e]
                                                         ELSE "started" \in calls[e]}
  BY DEF sendPostedEvents, NoCalls, Deliverable
<1> DEFINE t(e) == IF "ui" \in calls[e] THEN Taken(e) ELSE eng[e]
<1>3. eng' = [e \in Engine |-> Answered(e, t(e))]
  BY DEF sendPostedEvents, Deliverable
<1>4. ASSUME NEW e \in Engine
      PROVE  /\ eng'[e] \in EngineState /\ calls'[e] = {}
             /\ eng'[e].life = eng[e].life /\ eng'[e].queue = eng[e].queue
             /\ eng'[e].handler = eng[e].handler /\ eng'[e].slow = eng[e].slow
             /\ eng'[e].version = eng[e].version /\ eng'[e].left = eng[e].left
             /\ eng'[e].own = eng[e].own /\ eng'[e].abort = eng[e].abort
             /\ eng'[e].tearing = eng[e].tearing /\ eng'[e].held = eng[e].held
             /\ eng'[e].doing = (IF "call" \in calls[e] THEN "lua" ELSE eng[e].doing)
             /\ "ui" \in calls[e] => ~eng'[e].pending /\ ~eng'[e].unseen
             /\ "ui" \notin calls[e] => /\ eng'[e].pending = eng[e].pending
                                        /\ eng'[e].unseen = eng[e].unseen
  <2>1. eng[e] \in EngineState
    BY <1>1
  <2>2. eng'[e] = Answered(e, t(e)) /\ calls'[e] = {}
    BY <1>2, <1>3
  <2>3. CASE "ui" \in calls[e]
    <3>1. eng'[e] = Answered(e, Taken(e)) /\ Taken(e) \in EngineState
      BY <2>1, <2>2, <2>3, TakenFacts
    <3> QED
      BY <2>1, <2>2, <2>3, <3>1, TakenFacts, AnsweredFacts
  <2>4. CASE "ui" \notin calls[e]
    <3>1. eng'[e] = Answered(e, eng[e])
      BY <2>2, <2>4
    <3> QED
      BY <2>1, <2>2, <2>4, <3>1, AnsweredFacts
  <2> QED
    BY <2>3, <2>4
<1>5. TypeOK'
  <2>1. eng' \in [Engine -> EngineState]
    BY <1>3, <1>4
  <2>2. calls' \in [Engine -> SUBSET (Brackets \cup {"call", "ui"})]
    BY <1>2
  <2> QED
    BY <1>1, <1>2, <2>1, <2>2 DEF TypeOK
<1>6. Engines'
  <2> SUFFICES ASSUME NEW e \in Engine PROVE EngineOK(eng'[e], {})
    BY <1>4 DEF Engines
  <2>1. EngineOK(eng[e], calls[e]) /\ eng[e] \in EngineState
    BY <1>1 DEF Engines
  <2>2. CASE eng[e].life = "none"
    BY <1>4, <2>1, <2>2 DEF EngineOK
  <2>3. CASE eng[e].life = "loaded"
    <3>1. LoadedOK(eng[e], calls[e])
      BY <2>1, <2>3 DEF EngineOK
    <3>2. LoadedOK(eng'[e], {})
      <4>1. eng'[e].doing # "call"
        BY <1>4, <3>1 DEF LoadedOK
      <4>2. eng'[e].unseen => eng'[e].pending
        BY <1>4, <3>1 DEF LoadedOK
      <4>3. eng'[e].pending => eng'[e].doing = "announce"
        BY <1>4, <3>1 DEF LoadedOK
      <4>4. eng'[e].tearing => OwnTime(eng'[e])
        <5>1. eng'[e].doing # eng[e].doing => eng[e].doing = "call" /\ eng'[e].doing = "lua"
          BY <1>4, <3>1 DEF LoadedOK
        <5>2. Using(eng'[e]) = Using(eng[e])
          BY <1>4, <5>1 DEF Using, hookRaises
        <5> QED
          BY <1>4, <3>1, <5>2 DEF LoadedOK, OwnTime
      <4> QED
        BY <1>4, <3>1, <4>1, <4>2, <4>3, <4>4 DEF LoadedOK
    <3> QED
      BY <1>4, <2>3, <3>2 DEF EngineOK
  <2>4. CASE eng[e].life = "deleted"
    <3>1. DeletedOK(eng[e], calls[e])
      BY <2>1, <2>4 DEF EngineOK
    <3>2. DeletedOK(eng'[e], {})
      BY <1>4, <3>1 DEF DeletedOK
    <3> QED
      BY <1>4, <2>4, <3>2 DEF EngineOK
  <2>5. CASE eng[e].life = "zombie"
    BY <1>4, <2>1, <2>5 DEF EngineOK
  <2> QED
    BY <2>1, <2>2, <2>3, <2>4, <2>5 DEF EngineState
<1>7. \A e \in Engine : eng'[e].life = eng[e].life /\ eng'[e].version = eng[e].version
  BY <1>4
<1>8. \A e \in Engine : /\ eng'[e].tearing = eng[e].tearing /\ eng'[e].held = eng[e].held
                        /\ eng'[e].own = eng[e].own
  BY <1>4
<1>9. Teardown'
  <2>1. Loaded' = Loaded
    BY <1>7 DEF Loaded
  <2>2. ASSUME expired, NEW e \in Engine, eng'[e].life = "loaded"
        PROVE  eng'[e].doing = "quit" \/ eng'[e].held \/ eng'[e].own > 1
    <3>1. eng[e].doing = "quit" \/ eng[e].held \/ eng[e].own > 1
      BY <1>1, <1>7, <2>2 DEF Teardown
    <3>2. eng[e].doing = "quit" => "call" \notin calls[e]
      BY <1>1, <1>7, <2>2 DEF Engines, EngineOK, LoadedOK
    <3> QED
      BY <1>4, <3>1, <3>2
  <2> QED
    BY <1>1, <1>2, <1>7, <1>8, <2>1, <2>2 DEF Teardown
<1>10. NoDanglingStart'
  <2> SUFFICES ASSUME gui = "loop", NEW e \in execStart' PROVE eng'[e].life # "deleted"
    BY <1>2 DEF NoDanglingStart
  <2>1. e \in Engine
    BY <1>2
  <2>2. CASE e \in execStart
    BY <1>1, <1>7, <2>1, <2>2 DEF NoDanglingStart
  <2>3. CASE e \notin execStart
    <3>1. "started" \in calls[e]
      BY <1>2, <2>3
    <3> QED
      BY <1>1, <1>7, <2>1, <3>1 DEF Engines, EngineOK, DeletedOK
  <2> QED
    BY <2>2, <2>3
<1>11. Numbered' /\ Versions' /\ WedgedFilesNotReloaded'
  BY <1>1, <1>2, <1>7 DEF Numbered, Versions, WedgedFilesNotReloaded
<1> QED
  BY <1>5, <1>6, <1>9, <1>10, <1>11 DEF PInv

\* A step that touches neither the life nor the calls of an engine.
LEMMA QuietStep ==
    ASSUME PInv, eng' \in [Engine -> EngineState],
           \A e \in Engine :
              /\ eng'[e].life = eng[e].life /\ eng'[e].version = eng[e].version
              /\ eng'[e].doing = eng[e].doing
              /\ eng'[e].tearing = eng[e].tearing /\ eng'[e].held = eng[e].held
              /\ eng'[e].own = eng[e].own
              /\ eng'[e].life = "loaded" => LoadedOK(eng'[e], calls[e])
              /\ eng'[e].unseen = eng[e].unseen,
           UNCHANGED <<gui, waiting, expired, calls, execStart, loads, files, wedged,
                       acts, skipped>>,
           demoted' \subseteq Engine, events' \in Nat
    PROVE  PInv'
<1>1. /\ TypeOK /\ Engines /\ Teardown /\ Numbered /\ Versions
      /\ NoDanglingStart /\ WedgedFilesNotReloaded
  BY DEF PInv
<1>2. TypeOK'
  BY <1>1 DEF TypeOK
<1>3. Engines'
  <2> SUFFICES ASSUME NEW e \in Engine PROVE EngineOK(eng'[e], calls[e])
    BY DEF Engines
  <2>1. EngineOK(eng[e], calls[e])
    BY <1>1 DEF Engines
  <2> QED
    BY <2>1 DEF EngineOK, DeletedOK
<1>4. Loaded' = Loaded
  BY DEF Loaded
<1>5. Teardown'
  BY <1>1, <1>4 DEF Teardown
<1>6. \A e \in Engine : eng'[e].life = eng[e].life /\ eng'[e].version = eng[e].version
  OBVIOUS
<1>7. /\ gui' = gui /\ execStart' = execStart /\ loads' = loads /\ files' = files
      /\ wedged' = wedged /\ skipped' = skipped
  OBVIOUS
<1>8. Numbered'
  BY <1>1, <1>6, <1>7 DEF Numbered
<1>9. Versions'
  BY <1>1, <1>6, <1>7 DEF Versions
<1>10. NoDanglingStart'
  <2>1. execStart \subseteq Engine
    BY <1>1 DEF TypeOK
  <2> QED
    BY <1>1, <1>6, <1>7, <2>1 DEF NoDanglingStart
<1>11. WedgedFilesNotReloaded'
  BY <1>1, <1>6, <1>7 DEF WedgedFilesNotReloaded
<1> QED
  BY <1>2, <1>3, <1>5, <1>8, <1>9, <1>10, <1>11 DEF PInv

\* An event more in a queue.
LEMMA EventQueued ==
    ASSUME NEW q \in Seq({"load", "event", "unload", "shutdown", "quit"})
    PROVE  /\ Append(q, "event") \in Seq({"load", "event", "unload", "shutdown", "quit"})
           /\ NoUnload(q) => NoUnload(Append(q, "event"))
<1> DEFINE C == {"load", "event", "unload", "shutdown", "quit"}
           a == Append(q, "event")
<1>1. q \in Seq(C) /\ "event" \in C
  OBVIOUS
<1> HIDE DEF C
<1>2. /\ a \in Seq(C) /\ Len(a) = Len(q) + 1 /\ Len(q) \in Nat
      /\ \A i \in 1..Len(q) : a[i] = q[i]
      /\ a[Len(q) + 1] = "event"
  BY <1>1, AppendProperties, LenProperties
<1> HIDE DEF a
<1>3. \A i \in 1..Len(a) : a[i] = "unload" => i \in 1..Len(q) /\ q[i] = "unload"
  <2> SUFFICES ASSUME NEW i \in 1..Len(a), a[i] = "unload"
               PROVE  i \in 1..Len(q) /\ q[i] = "unload"
    OBVIOUS
  <2>1. i # Len(q) + 1
    BY <1>2
  <2>2. i \in 1..Len(q)
    BY <1>2, <2>1
  <2> QED
    BY <1>2, <2>2
<1>4. NoUnload(q) => NoUnload(a)
  BY <1>3 DEF NoUnload
<1> QED
  BY <1>2, <1>4 DEF a, C

\* A broadcast: one posted call more for each of the healthy engines.
LEMMA FireStep ==
    ASSUME PInv, NEW S \in SUBSET Engine, fireEvent(S)
    PROVE  PInv'
<1> DEFINE new(e) == [eng[e] EXCEPT !.queue = Append(@, "event")]
<1>1. /\ eng' = [e \in Engine |-> IF e \in S THEN new(e) ELSE eng[e]]
      /\ UNCHANGED <<gui, waiting, expired, calls, execStart, demoted, loads, files,
                     wedged, acts, skipped>>
      /\ events' = events + 1
  BY Zenon DEF fireEvent
<1>2. /\ eng \in [Engine -> EngineState] /\ events \in Nat /\ demoted \subseteq Engine
      /\ Engines
  BY DEF PInv, TypeOK
<1>3. ASSUME NEW e \in Engine
      PROVE  /\ eng'[e] \in EngineState
             /\ eng'[e].life = eng[e].life /\ eng'[e].version = eng[e].version
             /\ eng'[e].doing = eng[e].doing
             /\ eng'[e].tearing = eng[e].tearing /\ eng'[e].held = eng[e].held
             /\ eng'[e].own = eng[e].own
             /\ eng'[e].life = "loaded" => LoadedOK(eng'[e], calls[e])
             /\ eng'[e].unseen = eng[e].unseen
  <2>1. eng[e].life = "loaded" => LoadedOK(eng[e], calls[e])
    BY <1>2 DEF Engines, EngineOK
  <2>2. CASE e \notin S
    <3>1. eng'[e] = eng[e]
      BY <1>1, <2>2
    <3> QED
      BY <1>2, <2>1, <3>1
  <2>3. CASE e \in S
    <3> DEFINE o == eng[e]
               a == Append(o.queue, "event")
               s == [o EXCEPT !.queue = a]
    <3>1. eng'[e] = s /\ o \in EngineState
      BY <1>1, <1>2, <2>3
    <3>2. o.queue \in Seq({"load", "event", "unload", "shutdown", "quit"})
      BY <3>1 DEF EngineState
    <3>3. /\ a \in Seq({"load", "event", "unload", "shutdown", "quit"})
          /\ NoUnload(o.queue) => NoUnload(a)
      BY <3>2, EventQueued
    <3> HIDE DEF o, a, s
    <3>4. s \in EngineState
      BY <3>1, <3>3 DEF s, EngineState
    <3>5. /\ s.life = o.life /\ s.queue = a /\ s.doing = o.doing
          /\ s.handler = o.handler /\ s.slow = o.slow /\ s.version = o.version
      BY <3>1 DEF s, EngineState
    <3>6. /\ s.tearing = o.tearing /\ s.held = o.held
          /\ s.pending = o.pending /\ s.unseen = o.unseen
          /\ s.left = o.left /\ s.own = o.own /\ s.abort = o.abort
      BY <3>1 DEF s, EngineState
    <3>7. o.life = "loaded" => LoadedOK(o, calls[e])
      BY <2>1 DEF o
    <3>8. o.life = "loaded" => LoadedOK(s, calls[e])
      BY <3>3, <3>5, <3>6, <3>7 DEF LoadedOK, OwnTime, Using, hookRaises
    <3> QED
      BY <3>1, <3>4, <3>5, <3>6, <3>8 DEF o
  <2> QED
    BY <2>2, <2>3
<1>4. eng' \in [Engine -> EngineState]
  <2>1. DOMAIN eng' = Engine /\ eng' = [e \in Engine |-> eng'[e]]
    BY <1>1
  <2> QED
    BY <1>3, <2>1
<1>5. demoted' \subseteq Engine /\ events' \in Nat
  BY <1>1, <1>2
<1> QED
  BY <1>1, <1>3, <1>4, <1>5, QuietStep

\* The health tick demotes and aborts.
LEMMA TickStep ==
    ASSUME PInv, NEW S \in SUBSET Engine, healthTick(S)
    PROVE  PInv'
<1> DEFINE new(e) == [eng[e] EXCEPT !.abort = TRUE]
<1>1. /\ eng' = [e \in Engine |-> IF e \in S THEN new(e) ELSE eng[e]]
      /\ UNCHANGED <<gui, waiting, expired, calls, execStart, loads, files,
                     wedged, events, acts, skipped>>
      /\ demoted' = demoted \cup S
  BY Zenon DEF healthTick
<1>2. /\ eng \in [Engine -> EngineState] /\ events \in Nat /\ demoted \subseteq Engine
      /\ Engines /\ Teardown /\ gui = "loop"
  BY DEF PInv, TypeOK, healthTick
<1>3. ASSUME NEW e \in Engine
      PROVE  /\ eng'[e] \in EngineState
             /\ eng'[e].life = eng[e].life /\ eng'[e].version = eng[e].version
             /\ eng'[e].doing = eng[e].doing
             /\ eng'[e].tearing = eng[e].tearing /\ eng'[e].held = eng[e].held
             /\ eng'[e].own = eng[e].own
             /\ eng'[e].life = "loaded" => LoadedOK(eng'[e], calls[e])
             /\ eng'[e].unseen = eng[e].unseen
  <2>1. eng[e].life = "loaded" => LoadedOK(eng[e], calls[e])
    BY <1>2 DEF Engines, EngineOK
  <2>2. CASE e \notin S
    <3>1. eng'[e] = eng[e]
      BY <1>1, <2>2
    <3> QED
      BY <1>2, <2>1, <3>1
  <2>3. CASE e \in S
    <3> DEFINE o == eng[e]
               s == [o EXCEPT !.abort = TRUE]
    <3>1. eng'[e] = s /\ o \in EngineState
      BY <1>1, <1>2, <2>3
    <3> HIDE DEF o, s
    <3>2. s \in EngineState
      BY <3>1 DEF s, EngineState
    <3>3. /\ s.life = o.life /\ s.queue = o.queue /\ s.doing = o.doing
          /\ s.handler = o.handler /\ s.slow = o.slow /\ s.version = o.version
      BY <3>1 DEF s, EngineState
    <3>4. /\ s.tearing = o.tearing /\ s.held = o.held
          /\ s.pending = o.pending /\ s.unseen = o.unseen
          /\ s.left = o.left /\ s.own = o.own
      BY <3>1 DEF s, EngineState
    <3>5. o.life = "loaded" => LoadedOK(o, calls[e])
      BY <2>1 DEF o
    <3>6. o.life = "loaded" => LoadedOK(s, calls[e])
      <4>1. o.life = "loaded" => ~o.tearing
        BY <1>2 DEF o, Teardown
      <4> QED
        BY <3>3, <3>4, <3>5, <4>1 DEF LoadedOK
    <3> QED
      BY <3>1, <3>2, <3>3, <3>4, <3>6 DEF o
  <2> QED
    BY <2>2, <2>3
<1>4. eng' \in [Engine -> EngineState]
  <2>1. DOMAIN eng' = Engine /\ eng' = [e \in Engine |-> eng'[e]]
    BY <1>1
  <2> QED
    BY <1>3, <2>1
<1>5. demoted' \subseteq Engine /\ events' \in Nat
  BY <1>1, <1>2
<1> QED
  BY <1>1, <1>3, <1>4, <1>5, QuietStep

\* The order in which the engines are torn down: each of them once.
LEMMA OrderFacts ==
    ASSUME NEW S, IsFiniteSet(S)
    PROVE  SetToSeq(S) \in Seq(S) /\ Range(SetToSeq(S)) = S /\ IsInjective(SetToSeq(S))
<1> DEFINE n == Cardinality(S)
           q == SetToSeq(S)
<1>1. n \in Nat /\ ExistsBijection(1..n, S)
  BY FS_CardinalityType
<1>2. \E f \in [1..n -> S] : IsInjective(f)
  BY <1>1 DEF ExistsBijection, Bijection, Injection
<1>3. q \in [1..n -> S] /\ IsInjective(q)
  BY <1>2 DEF SetToSeq
<1>4. IsFiniteSet(1..n) /\ Cardinality(1..n) = n
  BY <1>1, FS_Interval
<1> HIDE DEF n, q
<1>5. q \in Injection(1..n, S)
  BY <1>3 DEF Injection
<1>6. q \in Surjection(1..n, S)
  BY <1>4, <1>5, FS_Injection DEF n
<1>7. Range(q) = S
  BY <1>3, <1>6 DEF Surjection, Range
<1>8. q \in Seq(S)
  BY <1>1, <1>3
<1> QED
  BY <1>3, <1>7, <1>8 DEF q

\* The calls that end a worker, behind all that wait.
LEMMA EndQueued ==
    ASSUME NEW q \in Seq({"load", "event", "unload", "shutdown", "quit"})
    PROVE  q \o <<"unload", "shutdown", "quit">>
             \in Seq({"load", "event", "unload", "shutdown", "quit"})
<1> DEFINE C == {"load", "event", "unload", "shutdown", "quit"}
           u == <<"unload", "shutdown", "quit">>
<1>1. q \in Seq(C) /\ u \in Seq(C)
  OBVIOUS
<1> HIDE DEF C, u
<1>2. q \o u \in Seq(C)
  BY <1>1, ConcatProperties, Zenon
<1> QED
  BY <1>2 DEF u, C

\* unloadAll() tells every worker to end and starts the wait for all of them.
LEMMA UnloadStep ==
    ASSUME PInv, unloadAll
    PROVE  PInv'
<1>1. /\ TypeOK /\ Engines /\ Teardown /\ Numbered /\ Versions
      /\ NoDanglingStart /\ WedgedFilesNotReloaded
      /\ eng \in [Engine -> EngineState]
  BY DEF PInv, TypeOK
<1>2. /\ gui = "loop" /\ gui' = "wait" /\ waiting' = SetToSeq(Loaded)
      /\ expired' = expired /\ calls' = calls /\ execStart' = execStart
      /\ demoted' = demoted /\ loads' = loads /\ files' = files /\ wedged' = wedged
      /\ events' = events /\ acts' = acts /\ skipped' = skipped
      /\ eng' = [e \in Engine |-> IF e \in Loaded THEN teardownEngine(eng[e]) ELSE eng[e]]
  BY DEF unloadAll
<1>3. \A e \in Engine : e \notin Loaded => eng'[e] = eng[e]
  BY <1>2
<1>4. ASSUME NEW e \in Loaded
      PROVE  /\ eng'[e] \in EngineState /\ LoadedOK(eng'[e], calls[e])
             /\ eng'[e].life = "loaded" /\ eng'[e].version = eng[e].version
             /\ eng'[e].tearing
  <2> DEFINE r == eng[e]
             q == r.queue \o <<"unload", "shutdown", "quit">>
             h == r.doing = "C"
             s == [r EXCEPT !.tearing = TRUE, !.held = h, !.queue = q]
  <2>1. e \in Engine /\ r \in EngineState /\ r.life = "loaded" /\ LoadedOK(r, calls[e])
    BY LoadedFacts
  <2>2. eng'[e] = s
    <3>1. eng'[e] = teardownEngine(r)
      BY <1>2, <2>1
    <3>2. teardownEngine(r) = s
      BY Zenon DEF teardownEngine
    <3> QED
      BY <3>1, <3>2
  <2>3. ~r.tearing
    BY <1>1, <1>2, <2>1 DEF Teardown
  <2>4. r.slow = 0 /\ r.own = 0 /\ r.handler # "unload"
    BY <2>1, <2>3 DEF LoadedOK
  <2>5. r.queue \in Seq({"load", "event", "unload", "shutdown", "quit"})
    BY <2>1 DEF EngineState
  <2>6. q \in Seq({"load", "event", "unload", "shutdown", "quit"})
    BY <2>5, EndQueued
  <2>7. h \in BOOLEAN
    OBVIOUS
  <2> HIDE DEF r, q, h, s
  <2>8. s \in EngineState
    BY <2>1, <2>6, <2>7 DEF s, EngineState
  <2>9. /\ s.life = r.life /\ s.queue = q /\ s.doing = r.doing
        /\ s.handler = r.handler /\ s.slow = r.slow /\ s.version = r.version
    BY <2>1 DEF s, EngineState
  <2>10. /\ s.tearing = TRUE /\ s.pending = r.pending /\ s.unseen = r.unseen
         /\ s.left = r.left /\ s.own = r.own
    BY <2>1 DEF s, EngineState
  <2>11. LoadedOK(s, calls[e])
    BY <2>1, <2>4, <2>9, <2>10 DEF LoadedOK, OwnTime, Using, hookRaises
  <2> QED
    BY <2>1, <2>2, <2>8, <2>9, <2>10, <2>11 DEF r
<1>5. \A e \in Engine : /\ eng'[e] \in EngineState
                        /\ eng'[e].life = eng[e].life
                        /\ eng'[e].version = eng[e].version
  <2> SUFFICES ASSUME NEW e \in Engine
               PROVE  /\ eng'[e] \in EngineState /\ eng'[e].life = eng[e].life
                      /\ eng'[e].version = eng[e].version
    OBVIOUS
  <2>1. CASE e \in Loaded
    BY <1>4, <2>1 DEF Loaded
  <2>2. CASE e \notin Loaded
    BY <1>1, <1>3, <2>2
  <2> QED
    BY <2>1, <2>2
<1>6. Loaded' = Loaded
  BY <1>5 DEF Loaded
<1>7. waiting' \in Seq(Engine) /\ Range(waiting') = Loaded /\ IsInjective(waiting')
  <2>1. IsFiniteSet(Plugin) /\ MaxLoads \in Int
    BY PluginHostAssumption
  <2>2. IsFiniteSet(1..MaxLoads)
    BY <2>1, FS_Interval
  <2>3. IsFiniteSet(Engine)
    BY <2>1, <2>2, FS_Product DEF Engine
  <2>4. Loaded \in SUBSET Engine
    BY DEF Loaded
  <2>5. IsFiniteSet(Loaded)
    BY <2>3, <2>4, FS_Subset
  <2>6. waiting' \in Seq(Loaded) /\ Range(waiting') = Loaded /\ IsInjective(waiting')
    BY <1>2, <2>5, OrderFacts
  <2> QED
    BY <2>4, <2>6, SeqMonotonic
<1>8. TypeOK'
  <2>1. eng' \in [Engine -> EngineState]
    BY <1>2, <1>5
  <2> QED
    BY <1>1, <1>2, <1>7, <2>1 DEF TypeOK
<1>9. Engines'
  <2> SUFFICES ASSUME NEW e \in Engine PROVE EngineOK(eng'[e], calls[e])
    BY <1>2 DEF Engines
  <2>1. CASE e \in Loaded
    BY <1>4, <2>1 DEF EngineOK
  <2>2. CASE e \notin Loaded
    BY <1>1, <1>3, <2>2 DEF Engines
  <2> QED
    BY <2>1, <2>2
<1>10. Teardown'
  <2>1. ~expired
    BY <1>1, <1>2 DEF Teardown
  <2>2. \A e \in Engine : eng'[e].life = "loaded" => eng'[e].tearing
    BY <1>4, <1>5 DEF Loaded
  <2> QED
    BY <1>2, <1>6, <1>7, <2>1, <2>2 DEF Teardown
<1>11. Numbered' /\ Versions' /\ WedgedFilesNotReloaded'
  BY <1>1, <1>2, <1>5 DEF Numbered, Versions, WedgedFilesNotReloaded
<1>12. NoDanglingStart'
  BY <1>2 DEF NoDanglingStart
<1> QED
  BY <1>8, <1>9, <1>10, <1>11, <1>12 DEF PInv

\* The deadline passes: who is late was held by a C call or took more than one
\* piece of Unload code, since what a worker waits for is delivered.
LEMMA DeadlineStep ==
    ASSUME PInv, Deadline
    PROVE  PInv'
<1>1. /\ TypeOK /\ Engines /\ Teardown /\ Numbered /\ Versions
      /\ NoDanglingStart /\ WedgedFilesNotReloaded
  BY DEF PInv
<1>2. /\ gui = "wait" /\ expired' = TRUE /\ gui' = gui /\ waiting' = waiting
      /\ calls' = calls /\ execStart' = execStart /\ demoted' = demoted /\ eng' = eng
      /\ loads' = loads /\ files' = files /\ wedged' = wedged /\ events' = events
      /\ acts' = acts /\ skipped' = skipped
  BY DEF Deadline
<1>3. \A e \in Range(waiting) : eng[e].doing # "quit" => Overstays(e)
  BY DEF Deadline
<1>4. ASSUME NEW e \in Engine, eng[e].life = "loaded", eng[e].doing # "quit"
      PROVE  eng[e].held \/ eng[e].own > 1
  <2>1. e \in Loaded
    BY <1>4 DEF Loaded
  <2>2. Overstays(e)
    BY <1>1, <1>2, <1>3, <1>4, <2>1 DEF Teardown
  <2>3. eng[e] \in EngineState /\ LoadedOK(eng[e], calls[e])
    BY <2>1, LoadedFacts
  <2>4. {eng[e].slow, eng[e].own} \subseteq Nat /\ Using(eng[e]) \in {0, 1}
    BY <2>3 DEF EngineState, Using
  <2>5. eng[e].slow + Using(eng[e]) > 1 => eng[e].own > 1
    <3>1. OwnTime(eng[e])
      BY <1>1, <1>2, <1>4, <2>3 DEF Teardown, LoadedOK
    <3> QED
      BY <2>4, <3>1 DEF OwnTime
  <2>6. eng[e].doing = "call" => "call" \in calls[e]
    BY <2>3 DEF LoadedOK
  <2> QED
    BY <2>2, <2>5, <2>6 DEF Overstays, Deliverable
<1>5. TypeOK'
  BY <1>1, <1>2 DEF TypeOK
<1>6. Loaded' = Loaded
  BY <1>2 DEF Loaded
<1>7. Teardown'
  BY <1>1, <1>2, <1>4, <1>6 DEF Teardown
<1>8. Engines' /\ Numbered' /\ Versions' /\ WedgedFilesNotReloaded' /\ NoDanglingStart'
  BY <1>1, <1>2 DEF Engines, Numbered, Versions, WedgedFilesNotReloaded, NoDanglingStart
<1> QED
  BY <1>5, <1>7, <1>8 DEF PInv

\* The files of a plugin change; the engines and the record do not.
LEMMA EditStep ==
    ASSUME PInv, NEW p \in Plugin, EditFiles(p)
    PROVE  PInv'
<1>1. /\ TypeOK /\ Engines /\ Teardown /\ Numbered /\ Versions
      /\ NoDanglingStart /\ WedgedFilesNotReloaded
      /\ files \in [Plugin -> Nat]
  BY DEF PInv, TypeOK
<1>2. /\ expired' = expired /\ gui' = gui /\ waiting' = waiting
      /\ calls' = calls /\ execStart' = execStart /\ demoted' = demoted /\ eng' = eng
      /\ loads' = loads /\ wedged' = wedged /\ events' = events
      /\ acts' = acts /\ skipped' = skipped
  BY DEF EditFiles
<1>3. PICK v \in 0..MaxVersion : files' = [files EXCEPT ![p] = v]
  BY DEF EditFiles
<1>4. files' \in [Plugin -> Nat]
  BY <1>1, <1>3, PluginHostAssumption
<1>5. TypeOK'
  BY <1>1, <1>2, <1>4 DEF TypeOK
<1>6. Loaded' = Loaded
  BY <1>2 DEF Loaded
<1>7. Teardown'
  BY <1>1, <1>2, <1>6 DEF Teardown
<1>8. Engines' /\ Numbered' /\ WedgedFilesNotReloaded' /\ NoDanglingStart' /\ Versions'
  BY <1>1, <1>2 DEF Engines, Numbered, WedgedFilesNotReloaded, NoDanglingStart, Versions
<1> QED
  BY <1>5, <1>7, <1>8 DEF PInv

\* finishTeardown() takes the first engine that is still to be seen off the
\* list; no other has to be seen twice.
LEMMA FirstSeen ==
    ASSUME PInv, gui = "wait", waiting # <<>>
    PROVE  /\ Head(waiting) \in Loaded
           /\ Tail(waiting) \in Seq(Engine) /\ IsInjective(Tail(waiting))
           /\ Range(Tail(waiting)) = Loaded \ {Head(waiting)}
<1> DEFINE w == waiting
           t == Tail(waiting)
<1>1. w \in Seq(Engine) /\ w # <<>> /\ Range(w) = Loaded /\ IsInjective(w)
  BY DEF PInv, TypeOK, Teardown
<1>2. /\ t \in Seq(Engine) /\ Len(w) \in Nat \ {0} /\ Len(t) = Len(w) - 1
      /\ \A i \in 1..Len(t) : t[i] = w[i + 1]
      /\ Head(w) = w[1]
  BY <1>1, HeadTailProperties, EmptySeq
<1>3. DOMAIN w = 1..Len(w) /\ DOMAIN t = 1..Len(t)
  BY <1>1, <1>2
<1> HIDE DEF w, t
<1>4. w[1] \in Loaded
  BY <1>1, <1>2, <1>3 DEF Range
<1>5. IsInjective(t)
  <2> SUFFICES ASSUME NEW i \in 1..Len(t), NEW j \in 1..Len(t), t[i] = t[j]
               PROVE  i = j
    BY <1>3 DEF IsInjective
  <2>1. i + 1 \in DOMAIN w /\ j + 1 \in DOMAIN w /\ w[i + 1] = w[j + 1]
    BY <1>2, <1>3
  <2>2. i + 1 = j + 1
    BY <1>1, <2>1 DEF IsInjective
  <2> QED
    BY <1>2, <2>2
<1>6. Range(t) = Loaded \ {w[1]}
  <2>1. ASSUME NEW i \in 1..Len(t) PROVE t[i] \in Loaded \ {w[1]}
    <3>1. i + 1 \in DOMAIN w /\ 1 \in DOMAIN w /\ i + 1 # 1 /\ t[i] = w[i + 1]
      BY <1>2, <1>3
    <3>2. w[i + 1] # w[1] /\ w[i + 1] \in Range(w)
      BY <1>1, <3>1 DEF IsInjective, Range
    <3> QED
      BY <1>1, <3>1, <3>2
  <2>2. ASSUME NEW e \in Loaded, e # w[1] PROVE e \in Range(t)
    <3>1. PICK k \in 1..Len(w) : e = w[k]
      BY <1>1, <1>3 DEF Range
    <3>2. k - 1 \in 1..Len(t) /\ t[k - 1] = w[k]
      BY <1>2, <2>2, <3>1
    <3> QED
      BY <1>3, <3>1, <3>2 DEF Range
  <2> QED
    BY <1>3, <2>1, <2>2 DEF Range
<1> QED
  BY <1>2, <1>4, <1>5, <1>6 DEF w, t

\* What is left of an engine that was joined, and of one that was given up.
LEMMA LeftFacts ==
    ASSUME NEW e \in Engine, eng[e] \in EngineState
    PROVE  /\ Deleted(e) \in EngineState /\ Detached(e) \in EngineState
           /\ Deleted(e).life = "deleted" /\ Deleted(e).doing = "idle"
           /\ Deleted(e).unseen = eng[e].unseen /\ Deleted(e).version = eng[e].version
           /\ Detached(e).life = "zombie" /\ Detached(e).version = eng[e].version
           /\ Detached(e).held = eng[e].held /\ Detached(e).own = eng[e].own
<1> DEFINE r == eng[e]
           u == r.unseen
           n == r.pending
           v == r.version
           h == r.held
           o == r.own
           d == [Unborn EXCEPT !.life = "deleted", !.version = v, !.unseen = u, !.pending = n]
           z == [Unborn EXCEPT !.life = "zombie", !.version = v, !.own = o, !.held = h]
<1>1. /\ o \in Nat /\ u \in BOOLEAN /\ n \in BOOLEAN /\ h \in BOOLEAN /\ v \in Nat \cup {None}
  BY DEF EngineState
<1>2. Deleted(e) = d /\ Detached(e) = z
  BY DEF Deleted, Detached
<1>3. Unborn \in EngineState /\ Unborn.doing = "idle"
  <2>1. <<>> \in Seq({"load", "event", "unload", "shutdown", "quit"})
    BY EmptySeq
  <2> QED
    BY <2>1 DEF Unborn, EngineState
<1> HIDE DEF u, n, v, h, o, d, z
<1>4. d \in EngineState /\ d.life = "deleted" /\ d.doing = "idle"
  BY <1>1, <1>3 DEF d, EngineState
<1>5. d.unseen = u /\ d.version = v
  BY <1>3 DEF d, EngineState
<1>6. z \in EngineState /\ z.life = "zombie" /\ z.version = v
  BY <1>1, <1>3 DEF z, EngineState
<1>7. z.held = h /\ z.own = o
  BY <1>3 DEF z, EngineState
<1> QED
  BY <1>2, <1>4, <1>5, <1>6, <1>7 DEF u, v, h, o

\* finishTeardown(): the engine is joined if its worker has ended, else given up
\* and its files put on record.
LEMMA FinishStep ==
    ASSUME PInv, finishTeardown
    PROVE  PInv'
<1> DEFINE e == Head(waiting)
<1>1. /\ TypeOK /\ Engines /\ Teardown /\ Numbered /\ Versions
      /\ NoDanglingStart /\ WedgedFilesNotReloaded
      /\ eng \in [Engine -> EngineState] /\ wedged \in [Plugin -> Nat \cup {None}]
  BY DEF PInv, TypeOK
<1>2. /\ gui = "wait" /\ waiting # <<>> /\ (eng[e].doing = "quit" \/ expired)
      /\ waiting' = Tail(waiting)
      /\ execStart' = execStart \ {e} /\ demoted' = demoted \ {e}
      /\ gui' = gui /\ expired' = expired /\ calls' = calls /\ loads' = loads
      /\ files' = files /\ events' = events /\ acts' = acts /\ skipped' = skipped
  BY DEF finishTeardown
<1>3. /\ e \in Loaded /\ waiting' \in Seq(Engine) /\ IsInjective(waiting')
      /\ Range(waiting') = Loaded \ {e}
  BY <1>2, FirstSeen
<1>4. \/ /\ eng[e].doing = "quit" /\ eng' = [eng EXCEPT ![e] = Deleted(e)]
         /\ wedged' = wedged
      \/ /\ eng[e].doing # "quit" /\ eng' = [eng EXCEPT ![e] = Detached(e)]
         /\ wedged' = [wedged EXCEPT ![e[1]] = eng[e].version]
  BY DEF finishTeardown
<1> HIDE DEF e
<1>5. /\ e \in Engine /\ eng[e] \in EngineState /\ eng[e].life = "loaded"
      /\ LoadedOK(eng[e], calls[e])
  BY <1>3, LoadedFacts
<1>6. /\ Deleted(e) \in EngineState /\ Detached(e) \in EngineState
      /\ Deleted(e).life = "deleted" /\ Deleted(e).doing = "idle"
      /\ Deleted(e).unseen = eng[e].unseen /\ Deleted(e).version = eng[e].version
      /\ Detached(e).life = "zombie" /\ Detached(e).version = eng[e].version
      /\ Detached(e).held = eng[e].held /\ Detached(e).own = eng[e].own
  BY <1>5, LeftFacts
<1>7. /\ eng' \in [Engine -> EngineState]
      /\ \A f \in Engine : f # e => eng'[f] = eng[f]
      /\ eng[e].doing = "quit" => eng'[e] = Deleted(e) /\ wedged' = wedged
      /\ eng[e].doing # "quit" =>
           /\ eng'[e] = Detached(e)
           /\ wedged' = [wedged EXCEPT ![e[1]] = eng[e].version]
  BY <1>1, <1>4, <1>5, <1>6
<1>8. e[1] \in Plugin /\ \A f \in Engine : f[1] \in Plugin
  BY <1>5 DEF Engine
<1>9. /\ eng[e].version \in Nat \cup {None} /\ eng'[e].version = eng[e].version
      /\ e[2] = loads[e[1]]
  BY <1>1, <1>5, <1>6, <1>7 DEF Versions, EngineState
<1>10. eng'[e].life \in {"deleted", "zombie"}
  BY <1>6, <1>7
<1>11. Loaded' = Loaded \ {e}
  BY <1>7, <1>10 DEF Loaded
<1>12. TypeOK'
  <2>1. wedged' \in [Plugin -> Nat \cup {None}]
    BY <1>1, <1>7, <1>8, <1>9
  <2> QED
    BY <1>1, <1>2, <1>3, <1>7, <2>1 DEF TypeOK
<1>13. Engines'
  <2> SUFFICES ASSUME NEW f \in Engine PROVE EngineOK(eng'[f], calls[f])
    BY <1>2 DEF Engines
  <2>1. CASE f # e
    BY <1>1, <1>7, <2>1 DEF Engines
  <2>2. CASE f = e /\ eng[e].doing = "quit"
    <3>1. "call" \notin calls[e] /\ "started" \notin calls[e]
      BY <1>5, <2>2 DEF LoadedOK, Busy
    <3>2. eng[e].unseen => "ui" \in calls[e]
      BY <1>5, <2>2 DEF LoadedOK
    <3>3. DeletedOK(Deleted(e), calls[e])
      BY <1>6, <3>1, <3>2 DEF DeletedOK
    <3> QED
      BY <1>6, <1>7, <2>2, <3>3 DEF EngineOK
  <2>3. CASE f = e /\ eng[e].doing # "quit"
    <3>1. eng[e].held \/ eng[e].own > 1
      BY <1>1, <1>2, <1>5, <2>3 DEF Teardown
    <3> QED
      BY <1>6, <1>7, <2>3, <3>1 DEF EngineOK
  <2> QED
    BY <2>1, <2>2, <2>3
<1>14. Teardown'
  <2>1. \A f \in Engine : eng'[f].life = "loaded" => f # e /\ eng'[f] = eng[f]
    BY <1>7, <1>10
  <2> QED
    BY <1>1, <1>2, <1>3, <1>11, <2>1 DEF Teardown
<1>15. Numbered'
  <2>1. ~(e[2] > loads[e[1]])
    BY <1>1, <1>5 DEF Numbered
  <2> QED
    BY <1>1, <1>2, <1>7, <2>1 DEF Numbered
<1>16. NoDanglingStart'
  BY <1>2 DEF NoDanglingStart
<1>17. \A f \in Engine : /\ eng'[f].version = eng[f].version
                         /\ eng'[f].life = "none" <=> eng[f].life = "none"
                         /\ eng'[f].life = "zombie" => eng[f].life = "zombie" \/ f = e
  BY <1>5, <1>7, <1>9, <1>10
<1>18. \A f \in Engine : eng[f].life = "zombie" => f # e /\ eng'[f] = eng[f]
  BY <1>5, <1>7
<1>19. WedgedFilesNotReloaded'
  <2>1. ASSUME NEW f \in Engine, NEW g \in Engine, f[1] = g[1], g[2] = f[2] + 1,
               eng'[f].life = "zombie", eng'[g].life # "none"
        PROVE  eng'[f].version # eng'[g].version
    <3>1. eng[g].life # "none"
      BY <1>17, <2>1
    <3>2. f # e
      <4>1. f = e => g[2] > loads[g[1]]
        <5>1. e[2] \in Nat
          BY <1>5, PluginHostAssumption DEF Engine
        <5> QED
          BY <1>9, <2>1, <5>1
      <4> QED
        BY <1>1, <3>1, <4>1 DEF Numbered
    <3>3. eng[f].version # eng[g].version
      BY <1>1, <1>17, <2>1, <3>1, <3>2 DEF WedgedFilesNotReloaded
    <3> QED
      BY <1>17, <3>3
  <2>2. ASSUME NEW s \in skipped
        PROVE  \E f \in Engine : f[1] = s[1] /\ eng'[f].life = "zombie"
                                 /\ eng'[f].version = s[2]
    <3>1. PICK f \in Engine : f[1] = s[1] /\ eng[f].life = "zombie"
                              /\ eng[f].version = s[2]
      BY <1>1 DEF WedgedFilesNotReloaded
    <3> QED
      BY <1>18, <3>1
  <2> QED
    BY <1>2, <2>1, <2>2 DEF WedgedFilesNotReloaded
<1>20. Versions'
  <2>1. ASSUME NEW f \in Engine, eng'[f].life = "loaded" PROVE f[2] = loads[f[1]]
    BY <1>1, <1>7, <1>10, <2>1 DEF Versions
  <2>2. ASSUME NEW f \in Engine, eng'[f].life = "zombie", f[2] = loads[f[1]]
        PROVE  wedged'[f[1]] = eng'[f].version
    <3>1. CASE f = e
      <4>1. wedged' = [wedged EXCEPT ![e[1]] = eng[e].version]
        BY <1>6, <1>7, <2>2, <3>1
      <4> QED
        BY <1>1, <1>8, <1>9, <3>1, <4>1
    <3>2. CASE f # e
      <4>1. eng[f].life = "zombie" /\ eng'[f] = eng[f]
        BY <1>7, <2>2, <3>2
      <4>2. f[1] # e[1]
        <5>1. f = <<f[1], f[2]>> /\ e = <<e[1], e[2]>>
          BY <1>5 DEF Engine
        <5> QED
          BY <1>9, <2>2, <3>2, <5>1
      <4>3. wedged[f[1]] = eng[f].version
        BY <1>1, <2>2, <4>1 DEF Versions
      <4> QED
        BY <1>1, <1>7, <1>8, <4>1, <4>2, <4>3
    <3> QED
      BY <3>1, <3>2
  <2>3. ASSUME NEW p \in Plugin, wedged'[p] # None
        PROVE  \E f \in Engine : f[1] = p /\ eng'[f].life = "zombie"
                                 /\ eng'[f].version = wedged'[p]
    <3>1. CASE wedged'[p] = wedged[p]
      <4>1. PICK f \in Engine : f[1] = p /\ eng[f].life = "zombie"
                                /\ eng[f].version = wedged[p]
        BY <1>1, <2>3, <3>1 DEF Versions
      <4> QED
        BY <1>18, <3>1, <4>1
    <3>2. CASE wedged'[p] # wedged[p]
      <4>1. eng'[e] = Detached(e) /\ wedged' = [wedged EXCEPT ![e[1]] = eng[e].version]
        BY <1>7, <3>2
      <4>2. p = e[1] /\ wedged'[p] = eng[e].version
        BY <1>1, <1>8, <3>2, <4>1
      <4> QED
        BY <1>5, <1>6, <4>1, <4>2
    <3> QED
      BY <3>1, <3>2
  <2> QED
    BY <1>2, <2>1, <2>2, <2>3 DEF Versions
<1> QED
  BY <1>12, <1>13, <1>14, <1>15, <1>16, <1>19, <1>20 DEF PInv

\* A fresh engine: its init.lua and the load event wait.
LEMMA FreshFacts ==
    ASSUME NEW v \in Nat, NEW s,
           s = [Unborn EXCEPT !.life = "loaded", !.version = v,
                              !.queue = <<"load", "event">>]
    PROVE  /\ s \in EngineState /\ s.life = "loaded" /\ s.version = v
           /\ s.tearing = FALSE /\ LoadedOK(s, {})
<1> DEFINE q == <<"load", "event">>
<1>1. q \in Seq({"load", "event", "unload", "shutdown", "quit"})
  OBVIOUS
<1>2. NoUnload(q)
  BY DEF NoUnload
<1>3. s = [Unborn EXCEPT !.life = "loaded", !.version = v, !.queue = q]
  OBVIOUS
<1> HIDE DEF q
<1>4. /\ s \in EngineState /\ s.life = "loaded" /\ s.version = v /\ s.queue = q
      /\ s.doing = "idle" /\ s.handler = "none" /\ s.slow = 0 /\ s.own = 0
  <2>1. Unborn \in EngineState
    <3>1. <<>> \in Seq({"load", "event", "unload", "shutdown", "quit"})
      BY EmptySeq
    <3> QED
      BY <3>1 DEF Unborn, EngineState
  <2>2. Unborn.doing = "idle" /\ Unborn.handler = "none" /\ Unborn.slow = 0 /\ Unborn.own = 0
    BY DEF Unborn
  <2> QED
    BY <1>1, <1>3, <2>1, <2>2 DEF EngineState
<1>5. s.tearing = FALSE /\ s.pending = FALSE /\ s.unseen = FALSE
  BY <1>3 DEF Unborn
<1>6. LoadedOK(s, {})
  BY <1>2, <1>4, <1>5 DEF LoadedOK
<1> QED
  BY <1>4, <1>5, <1>6

\* The end of unloadAll() and scanAndLoad(): a plugin is loaded again unless an
\* engine with the very files it has now was given up.
LEMMA ScanStep ==
    ASSUME PInv, NEW found \in SUBSET Plugin, scanAndLoad(found)
    PROVE  PInv'
<1> DEFINE load == {p \in found : ~stillWedged(p)}
           fresh == {<<p, loads[p] + 1>> : p \in load}
           born(e) == [Unborn EXCEPT !.life = "loaded", !.version = files[e[1]],
                                     !.queue = <<"load", "event">>]
<1>1. /\ TypeOK /\ Engines /\ Teardown /\ Numbered /\ Versions
      /\ NoDanglingStart /\ WedgedFilesNotReloaded
      /\ eng \in [Engine -> EngineState] /\ loads \in [Plugin -> Nat]
      /\ files \in [Plugin -> Nat] /\ wedged \in [Plugin -> Nat \cup {None}]
      /\ calls \in [Engine -> SUBSET (Brackets \cup {"call", "ui"})]
  BY DEF PInv, TypeOK
<1>2. /\ gui = "wait" /\ waiting = <<>> /\ gui' = "loop" /\ expired' = FALSE
      /\ execStart' = {} /\ demoted' = {}
      /\ waiting' = waiting /\ calls' = calls /\ files' = files
      /\ events' = events /\ acts' = acts
      /\ loads' = [p \in Plugin |-> IF p \in load THEN loads[p] + 1 ELSE loads[p]]
      /\ wedged' = [p \in Plugin |-> IF p \in load THEN None ELSE wedged[p]]
      /\ skipped' = skipped \cup {<<p, files[p]>> : p \in found \ load}
  BY Zenon DEF scanAndLoad
<1>3. eng' = [e \in Engine |-> IF e \in fresh THEN born(e) ELSE eng[e]]
  BY Zenon DEF scanAndLoad
<1>4. load \subseteq Plugin /\ \A p \in found : p \in load <=> wedged[p] # files[p]
  BY DEF stillWedged
<1>5. \A e \in Engine : /\ e[1] \in Plugin /\ e[2] \in Nat
                        /\ e \in fresh <=> e[1] \in load /\ e[2] = loads[e[1]] + 1
  <2> SUFFICES ASSUME NEW e \in Engine
               PROVE  /\ e[1] \in Plugin /\ e[2] \in Nat
                      /\ e \in fresh <=> e[1] \in load /\ e[2] = loads[e[1]] + 1
    OBVIOUS
  <2>1. e[1] \in Plugin /\ e[2] \in Nat /\ e = <<e[1], e[2]>>
    BY PluginHostAssumption DEF Engine
  <2> QED
    BY <2>1
<1> HIDE DEF load, fresh, born
<1>6. \A e \in Engine : eng[e].life # "loaded"
  <2>1. Range(waiting) = {}
    BY <1>2 DEF Range
  <2> QED
    BY <1>1, <1>2, <2>1 DEF Teardown, Loaded
<1>7. ASSUME NEW e \in Engine, e \notin fresh PROVE eng'[e] = eng[e]
  BY <1>3, <1>7
<1>8. ASSUME NEW e \in Engine, e \in fresh
      PROVE  /\ eng[e].life = "none" /\ calls[e] = {}
             /\ eng'[e] \in EngineState /\ eng'[e].life = "loaded"
             /\ eng'[e].version = files[e[1]] /\ eng'[e].tearing = FALSE
             /\ LoadedOK(eng'[e], {})
  <2>1. e[1] \in Plugin /\ e[2] = loads[e[1]] + 1 /\ loads[e[1]] \in Nat
    BY <1>1, <1>5, <1>8
  <2>2. eng[e].life = "none"
    BY <1>1, <2>1 DEF Numbered
  <2>3. calls[e] = {}
    BY <1>1, <2>2 DEF Engines, EngineOK
  <2> DEFINE v == files[e[1]]
             s == eng'[e]
  <2>4. v \in Nat /\ s = born(e)
    BY <1>1, <1>3, <1>8, <2>1
  <2>5. s = [Unborn EXCEPT !.life = "loaded", !.version = v,
                           !.queue = <<"load", "event">>]
    BY <2>4, Zenon DEF born
  <2> HIDE DEF v, s
  <2>6. /\ s \in EngineState /\ s.life = "loaded" /\ s.version = v
        /\ s.tearing = FALSE /\ LoadedOK(s, {})
    BY <2>4, <2>5, FreshFacts, Zenon
  <2> QED
    BY <2>2, <2>3, <2>6 DEF v, s
<1>9. TypeOK'
  <2>1. eng' \in [Engine -> EngineState]
    <3>1. \A e \in Engine : eng'[e] \in EngineState
      BY <1>1, <1>7, <1>8
    <3>2. eng' = [e \in Engine |-> eng'[e]]
      BY <1>3
    <3> QED
      BY <3>1, <3>2
  <2>2. loads' \in [Plugin -> Nat]
    BY <1>1, <1>2
  <2>3. wedged' \in [Plugin -> Nat \cup {None}]
    BY <1>1, <1>2
  <2>4. skipped' \subseteq Plugin \X Nat
    BY <1>1, <1>2 DEF TypeOK
  <2> QED
    BY <1>1, <1>2, <2>1, <2>2, <2>3, <2>4 DEF TypeOK
<1>10. Engines'
  <2> SUFFICES ASSUME NEW e \in Engine PROVE EngineOK(eng'[e], calls[e])
    BY <1>2 DEF Engines
  <2>1. CASE e \in fresh
    BY <1>8, <2>1 DEF EngineOK
  <2>2. CASE e \notin fresh
    BY <1>1, <1>7, <2>2 DEF Engines
  <2> QED
    BY <2>1, <2>2
<1>11. \A e \in Engine : eng'[e].life = "loaded" <=> e \in fresh
  BY <1>6, <1>7, <1>8
<1>12. \A e \in Engine : eng[e].life = "zombie" <=> eng'[e].life = "zombie"
  BY <1>7, <1>8
<1>13. \A e \in Engine : eng[e].life = "zombie" => eng'[e] = eng[e]
  BY <1>7, <1>8
<1>14. Teardown'
  <2>1. \A e \in Engine : eng'[e].life = "loaded" => ~eng'[e].tearing
    BY <1>8, <1>11
  <2> QED
    BY <1>2, <2>1 DEF Teardown
<1>15. Numbered'
  <2> SUFFICES ASSUME NEW e \in Engine, e[2] > loads'[e[1]] PROVE eng'[e].life = "none"
    BY DEF Numbered
  <2>1. e[1] \in Plugin /\ e[2] \in Nat /\ loads[e[1]] \in Nat
    BY <1>1, <1>5
  <2>2. e[2] > loads[e[1]] /\ (e[1] \in load => e[2] > loads[e[1]] + 1)
    BY <1>2, <2>1
  <2>3. e \notin fresh
    BY <1>5, <2>1, <2>2
  <2> QED
    BY <1>1, <1>7, <2>2, <2>3 DEF Numbered
<1>16. NoDanglingStart'
  BY <1>2 DEF NoDanglingStart
<1>17. WedgedFilesNotReloaded'
  <2>1. ASSUME NEW e \in Engine, NEW f \in Engine, e[1] = f[1], f[2] = e[2] + 1,
               eng'[e].life = "zombie", eng'[f].life # "none"
        PROVE  eng'[e].version # eng'[f].version
    <3>1. eng[e].life = "zombie" /\ eng'[e] = eng[e]
      BY <1>12, <1>13, <2>1
    <3>2. CASE f \in fresh
      <4>1. /\ e[1] \in Plugin /\ e[1] \in load /\ e[2] + 1 = loads[e[1]] + 1
            /\ e[2] \in Nat /\ loads[e[1]] \in Nat
        BY <1>1, <1>5, <2>1, <3>2
      <4>2. wedged[e[1]] = eng[e].version
        <5>1. e[2] = loads[e[1]]
          BY <4>1
        <5> QED
          BY <1>1, <3>1, <5>1 DEF Versions
      <4>3. wedged[e[1]] # files[e[1]]
        BY <1>4, <4>1 DEF load
      <4> QED
        BY <1>8, <2>1, <3>1, <3>2, <4>2, <4>3
    <3>3. CASE f \notin fresh
      BY <1>1, <1>7, <2>1, <3>1, <3>3 DEF WedgedFilesNotReloaded
    <3> QED
      BY <3>2, <3>3
  <2>2. ASSUME NEW s \in skipped'
        PROVE  \E e \in Engine : e[1] = s[1] /\ eng'[e].life = "zombie"
                                 /\ eng'[e].version = s[2]
    <3>1. CASE s \in skipped
      <4>1. PICK e \in Engine : e[1] = s[1] /\ eng[e].life = "zombie"
                                /\ eng[e].version = s[2]
        BY <1>1, <3>1 DEF WedgedFilesNotReloaded
      <4> QED
        BY <1>13, <4>1
    <3>2. CASE s \notin skipped
      <4>1. PICK p \in found \ load : s = <<p, files[p]>>
        BY <1>2, <2>2, <3>2
      <4>2. p \in Plugin /\ wedged[p] = files[p] /\ files[p] \in Nat
        BY <1>1, <1>4, <4>1
      <4>3. wedged[p] # None
        BY <4>2 DEF None
      <4>4. PICK e \in Engine : e[1] = p /\ eng[e].life = "zombie"
                                /\ eng[e].version = wedged[p]
        BY <1>1, <4>2, <4>3 DEF Versions
      <4> QED
        BY <1>13, <4>1, <4>2, <4>4
    <3> QED
      BY <3>1, <3>2
  <2> QED
    BY <2>1, <2>2 DEF WedgedFilesNotReloaded
<1>18. Versions'
  <2>1. ASSUME NEW e \in Engine, eng'[e].life = "loaded" PROVE e[2] = loads'[e[1]]
    BY <1>1, <1>2, <1>5, <1>11, <2>1
  <2>2. ASSUME NEW e \in Engine, eng'[e].life = "zombie", e[2] = loads'[e[1]]
        PROVE  wedged'[e[1]] = eng'[e].version
    <3>1. eng[e].life = "zombie" /\ eng'[e] = eng[e] /\ e[1] \in Plugin
      BY <1>5, <1>12, <1>13, <2>2
    <3>2. e[1] \notin load
      <4>1. ~(e[2] > loads[e[1]])
        BY <1>1, <3>1 DEF Numbered
      <4> QED
        BY <1>1, <1>2, <2>2, <3>1, <4>1
    <3>3. e[2] = loads[e[1]] /\ wedged'[e[1]] = wedged[e[1]]
      BY <1>1, <1>2, <2>2, <3>1, <3>2
    <3> QED
      BY <1>1, <3>1, <3>3 DEF Versions
  <2>3. ASSUME NEW p \in Plugin, wedged'[p] # None
        PROVE  \E e \in Engine : e[1] = p /\ eng'[e].life = "zombie"
                                 /\ eng'[e].version = wedged'[p]
    <3>1. wedged'[p] = wedged[p]
      BY <1>2, <2>3
    <3>2. PICK e \in Engine : e[1] = p /\ eng[e].life = "zombie"
                              /\ eng[e].version = wedged[p]
      BY <1>1, <2>3, <3>1 DEF Versions
    <3> QED
      BY <1>13, <3>1, <3>2
  <2> QED
    BY <1>2, <2>1, <2>2, <2>3 DEF Versions
<1> QED
  BY <1>9, <1>10, <1>14, <1>15, <1>16, <1>17, <1>18 DEF PInv

-----------------------------------------------------------------------------
(* The theorems.                                                           *)

\* No engine has been loaded yet.
LEMMA InitPInv == Init => PInv
<1> SUFFICES ASSUME Init PROVE PInv
  OBVIOUS
<1>1. /\ gui = "loop" /\ waiting = <<>> /\ expired = FALSE
      /\ calls = [e \in Engine |-> {}] /\ execStart = {} /\ demoted = {}
      /\ eng = [e \in Engine |-> Unborn]
      /\ loads = [p \in Plugin |-> 0] /\ files = [p \in Plugin |-> 0]
      /\ wedged = [p \in Plugin |-> None] /\ events = 0 /\ acts = 0 /\ skipped = {}
  BY DEF Init, NoCalls
<1>2. Unborn \in EngineState /\ Unborn.life = "none"
  <2>1. <<>> \in Seq({"load", "event", "unload", "shutdown", "quit"})
    BY EmptySeq
  <2> QED
    BY <2>1 DEF Unborn, EngineState
<1>3. Unborn.unseen = FALSE
  BY DEF Unborn
<1>4. \A e \in Engine : eng[e] = Unborn /\ calls[e] = {}
  BY <1>1
<1>5. TypeOK
  <2>1. waiting \in Seq(Engine)
    BY <1>1, EmptySeq
  <2>2. eng \in [Engine -> EngineState]
    BY <1>1, <1>2
  <2> QED
    BY <1>1, <2>1, <2>2 DEF TypeOK
<1>6. Engines
  BY <1>2, <1>3, <1>4 DEF Engines, EngineOK
<1>7. Teardown
  BY <1>1, <1>2, <1>4 DEF Teardown
<1>8. Numbered
  BY <1>2, <1>4 DEF Numbered
<1>9. Versions
  BY <1>1, <1>2, <1>4 DEF Versions
<1>10. NoDanglingStart /\ WedgedFilesNotReloaded
  BY <1>1, <1>2, <1>4 DEF NoDanglingStart, WedgedFilesNotReloaded
<1> QED
  BY <1>5, <1>6, <1>7, <1>8, <1>9, <1>10 DEF PInv

\* Every step of a worker, of the event loop and of the teardown keeps it.
LEMMA NextPInv == PInv /\ [Next]_vars => PInv'
<1> SUFFICES ASSUME PInv, [Next]_vars PROVE PInv'
  OBVIOUS
<1>1. ASSUME NEW e \in Loaded, Worker(e) PROVE PInv'
  BY <1>1, DispatchStep, NextHandlerStep, SkipStep, ShutdownStep, QuitStep, ReturnStep, EnterCStep,
     LeaveCStep, SettingsStep, PostUpdateStep, AnnounceStep DEF Worker
<1>2. CASE sendPostedEvents
  BY <1>2, DeliverStep
<1>3. ASSUME NEW S \in SUBSET Engine, fireEvent(S) \/ healthTick(S) PROVE PInv'
  BY <1>3, FireStep, TickStep
<1>4. CASE unloadAll
  BY <1>4, UnloadStep
<1>5. CASE Deadline
  BY <1>5, DeadlineStep
<1>6. CASE finishTeardown
  BY <1>6, FinishStep
<1>7. ASSUME NEW S \in SUBSET Plugin, scanAndLoad(S) PROVE PInv'
  BY <1>7, ScanStep
<1>8. ASSUME NEW p \in Plugin, EditFiles(p) PROVE PInv'
  BY <1>8, EditStep
<1>9. CASE UNCHANGED vars
  <2>1. /\ gui' = gui /\ waiting' = waiting /\ expired' = expired /\ calls' = calls
        /\ execStart' = execStart /\ demoted' = demoted /\ eng' = eng /\ loads' = loads
        /\ files' = files /\ wedged' = wedged /\ events' = events /\ acts' = acts
        /\ skipped' = skipped
    BY <1>9 DEF vars
  <2>2. TypeOK' /\ Engines' /\ Numbered' /\ Versions'
    BY <2>1 DEF PInv, TypeOK, Engines, Numbered, Versions
  <2>3. Loaded' = Loaded
    BY <2>1 DEF Loaded
  <2>4. Teardown' /\ NoDanglingStart' /\ WedgedFilesNotReloaded'
    BY <2>1, <2>3 DEF PInv, Teardown, NoDanglingStart, WedgedFilesNotReloaded
  <2> QED
    BY <2>2, <2>4 DEF PInv
<1> QED
  BY <1>1, <1>2, <1>3, <1>4, <1>5, <1>6, <1>7, <1>8, <1>9 DEF Next

\* The inductive invariant holds in every state of the plugin host.
THEOREM HostInvariant == Spec => []PInv
  BY InitPInv, NextPInv, PTL DEF Spec

\* Every variable of the plugin host keeps its type.
THEOREM HostTypeCorrect == Spec => []TypeOK
<1>1. PInv => TypeOK
  BY DEF PInv
<1> QED
  BY <1>1, HostInvariant, PTL

\* finishTeardown() gives up a worker only for a C call or for more than one piece
\* of Unload code that it ran after the teardown began: a backlog of events, a
\* handler that would run on or a blocked settings call never costs one.
THEOREM GivesUpOnlyForOwnCode == Spec => []GivenUpForOwnCode
<1>1. PInv => GivenUpForOwnCode
  BY DEF PInv, Engines, EngineOK, GivenUpForOwnCode
<1> QED
  BY <1>1, HostInvariant, PTL

\* Whenever the event loop can run the health tick, no key of m_execStart is a
\* deleted engine.
THEOREM TickSeesNoDeletedEngine == Spec => []NoDanglingStart
<1>1. PInv => NoDanglingStart
  BY DEF PInv
<1> QED
  BY <1>1, HostInvariant, PTL

\* A UI update in an engine's box always has the call that takes it posted, or
\* is about to post it (postUiUpdate, uiUpdatesPending).
THEOREM NoUpdateForgotten == Spec => []UpdateHasTrigger
<1>1. PInv => UpdateHasTrigger
  <2> SUFFICES ASSUME PInv, NEW e \in Engine, eng[e].unseen, eng[e].life # "zombie"
               PROVE  eng[e].doing = "announce" \/ "ui" \in calls[e]
    BY DEF UpdateHasTrigger
  <2>1. EngineOK(eng[e], calls[e]) /\ eng[e] \in EngineState
    BY DEF PInv, Engines, TypeOK
  <2>2. eng[e].life \in {"none", "loaded", "deleted", "zombie"}
    BY <2>1 DEF EngineState
  <2> QED
    BY <2>1, <2>2 DEF EngineOK, LoadedOK, DeletedOK
<1> QED
  BY <1>1, HostInvariant, PTL

\* The load after one whose worker was given up is of other files, however often
\* they are edited and restored, and a scan refuses only files that an abandoned
\* worker was loaded from.
THEOREM WedgedStayUnloaded == Spec => []WedgedFilesNotReloaded
<1>1. PInv => WedgedFilesNotReloaded
  BY DEF PInv
<1> QED
  BY <1>1, HostInvariant, PTL

=============================================================================
