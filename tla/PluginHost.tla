----------------------------- MODULE PluginHost -----------------------------
(***************************************************************************)
(* The plugin host: PluginManager on the GUI thread and one LuaEngine on a *)
(* worker thread for every loaded plugin (pluginmanager.cpp,               *)
(* luaengine.cpp).  The GUI posts calls to a worker and never waits for    *)
(* one, except while it unloads: then it waits for all of them under one   *)
(* deadline, answering the settings calls that block a worker meanwhile.   *)
(* A worker that is inside a C call cannot be interrupted; one that does   *)
(* not stop is detached for the rest of the process.                       *)
(*                                                                         *)
(* An engine is named by its plugin and the number of the load.  Time is   *)
(* the assumption of Deadline: a handler runs until it returns or its      *)
(* budget (1500 ms) is used up, a C call as long as it likes, and the rest *)
(* is fast.  One budget fits into kTeardownMs (2000 ms), two do not, nor   *)
(* does one with settings calls, whose waits the budget does not count.    *)
(* Permissions, logging and the rate caps are left out.                    *)
(***************************************************************************)
EXTENDS Integers, Sequences, SequencesExt

CONSTANTS Plugin,
          MaxLoads,     \* bound: loads
          MaxVersion,   \* bound: versions of a plugin's files
          MaxEvents,    \* bound: broadcasts
          MaxHandlers,  \* bound: handlers of one event
          MaxActs       \* bound: C calls, settings calls and UI updates of handlers

ASSUME PluginHostAssumption ==
  /\ IsFiniteSet(Plugin)
  /\ {MaxLoads, MaxVersion, MaxEvents, MaxHandlers, MaxActs} \subseteq Nat

Engine == Plugin \X (1..MaxLoads)
None == -1   \* no version
Sum(f) == FoldFunction(+, 0, f)

VARIABLES
  gui,        \* "loop", or "wait" inside unloadAll
  waiting,    \* engines finishTeardown has still to see, in order
  expired,    \* the one deadline of unloadAll has passed
  calls,      \* what each worker has posted to the PluginManager
  execStart,  \* keys of m_execStart
  demoted,    \* m_demoted
  eng,        \* every engine and its worker
  loads,      \* loads of each plugin so far
  files,      \* version of each plugin's files on disk
  wedged,     \* m_wedgedFiles; None: no entry
  events, acts, \* spent of each bound
  skipped     \* history: <<plugin, version>> a scan did not load as wedged

vars == <<gui, waiting, expired, calls, execStart, demoted, eng, loads, files,
          wedged, events, acts, skipped>>
host == <<gui, waiting, expired, execStart, demoted, loads, files, wedged,
          events, skipped>>

Unborn ==
  [life    |-> "none",   \* none, loaded, deleted or zombie
   queue   |-> <<>>,     \* calls posted to the worker
   doing   |-> "idle",   \* idle, lua, C, call, announce, next or quit
   handler |-> "none",   \* the call it works on: none, load, event or unload
   left    |-> 0,        \* handlers of it that have not begun
   vm      |-> FALSE,    \* m_state is not null
   tearing |-> FALSE,    \* m_tearingDown
   abort   |-> FALSE,    \* m_abortRequested
   pending |-> FALSE,    \* UiUpdates::pending
   unseen  |-> FALSE,    \* the box holds an update
   version |-> None,     \* m_loadedFiles
   slow    |-> 0,        \* history: budgets' worth of time since the teardown began
   own     |-> 0,        \* history: Unload handlers begun and settings calls of theirs
   held    |-> FALSE]    \* history: in a C call since the teardown began

NoCalls == [e \in Engine |-> {}]

Init ==
  /\ gui = "loop" /\ waiting = <<>> /\ expired = FALSE
  /\ calls = NoCalls
  /\ execStart = {} /\ demoted = {}
  /\ eng = [e \in Engine |-> Unborn]
  /\ loads = [p \in Plugin |-> 0]
  /\ files = [p \in Plugin |-> 0]
  /\ wedged = [p \in Plugin |-> None]
  /\ events = 0 /\ acts = 0 /\ skipped = {}

Loaded == {e \in Engine : eng[e].life = "loaded"}
healthyEngines == Loaded \ demoted

\* A signal of the engine, queued to the PluginManager.  Calls are delivered
\* in batches, so of the eventStarted and eventCompleted that wait only the last
\* one tells.
Brackets == {"started", "completed"}

Posted(e, kind) ==
  [calls EXCEPT ![e] = {kind} \cup (IF kind \in Brackets THEN @ \ Brackets ELSE @)]

(***************************************************************************)
(* The worker: one posted call at a time, and the handlers of its event    *)
(* one after the other.  Each is bracketed by eventStarted and             *)
(* eventCompleted and has a budget of its own (timedPcall); init.lua is    *)
(* the one of a load.  A detached worker runs on, but its signals are      *)
(* disconnected: its steps are left out.                                   *)
(***************************************************************************)
Runs(e, call) ==
  /\ call \in {"load", "event", "unload"}
  /\ call = "event" => ~eng[e].tearing
  /\ call # "load" => eng[e].vm

\* One more handler of the call begins, with `left` to follow.
Begun(r, call, left) ==
  [r EXCEPT !.doing = "lua", !.handler = call, !.left = left,
            !.own = IF call = "unload" THEN @ + 1 ELSE @]

dispatchEvent(e) ==
  LET call == Head(eng[e].queue) IN
  /\ eng[e].doing = "idle" /\ eng[e].queue # <<>>
  /\ Runs(e, call)
  /\ \E n \in 1..MaxHandlers :
       /\ call = "load" => n = 1
       /\ eng' = [eng EXCEPT ![e] = [Begun(eng[e], call, n - 1) EXCEPT
                                       !.queue = Tail(@), !.vm = TRUE]]
  /\ calls' = Posted(e, "started")
  /\ UNCHANGED <<host, acts>>

\* fireEvent goes on to the next handler.
nextHandler(e) ==
  /\ eng[e].doing = "next"
  /\ eng' = [eng EXCEPT ![e] = Begun(eng[e], eng[e].handler, eng[e].left - 1)]
  /\ calls' = Posted(e, "started")
  /\ UNCHANGED <<host, acts>>

\* A call that runs no handler: there is no Lua state, the engine is being torn
\* down, or the plugin has none for the event.
Skip(e) ==
  /\ eng[e].doing = "idle" /\ eng[e].queue # <<>>
  /\ Head(eng[e].queue) \in {"event", "unload"}
  /\ eng' = [eng EXCEPT ![e].queue = Tail(@)]
  /\ UNCHANGED <<host, calls, acts>>

\* The sandbox has no setmetatable, so that lua_close runs no code of the plugin.
shutdown(e) ==
  /\ eng[e].doing = "idle" /\ eng[e].queue # <<>>
  /\ Head(eng[e].queue) = "shutdown"
  /\ eng' = [eng EXCEPT ![e].queue = Tail(@), ![e].vm = FALSE,
                        ![e].handler = "none"]
  /\ UNCHANGED <<host, calls, acts>>

quit(e) ==
  /\ eng[e].doing = "idle" /\ eng[e].queue # <<>>
  /\ Head(eng[e].queue) = "quit"
  /\ eng' = [eng EXCEPT ![e].queue = Tail(@), ![e].doing = "quit"]
  /\ UNCHANGED <<host, calls, acts>>

(***************************************************************************)
(* instructionHook(): ends Lua code at once when the host aborted it or    *)
(* tears the engine down, else when the budget is used up.                 *)
(***************************************************************************)
hookRaises(r) == r.abort \/ (r.tearing /\ r.handler # "unload")

\* The budget that the handler it is in may use up of a teardown's time.
Using(r) == IF r.doing \in {"idle", "next", "quit"} \/ hookRaises(r) THEN 0 ELSE 1

\* A handler has ended, and `left` follow.
Ended(r, left) ==
  [r EXCEPT !.doing = IF left = 0 THEN "idle" ELSE "next",
            !.handler = IF left = 0 THEN "none" ELSE @,
            !.left = left,
            !.slow = IF r.tearing THEN @ + Using(r) ELSE @]

\* Mutant: a handler that ends in an error does not post eventCompleted.
timedPcallReturning(e) ==
  /\ eng[e].doing = "lua"
  /\ \E ok \in BOOLEAN, left \in {0, eng[e].left} :
       /\ eng' = [eng EXCEPT ![e] = [Ended(eng[e], left) EXCEPT
                                       !.vm = ok \/ eng[e].handler # "load"]]
       /\ calls' = IF ok THEN Posted(e, "completed") ELSE calls
  /\ UNCHANGED <<host, acts>>

\* The handler returns or is ended.  A budget used up ends the handlers that
\* follow as well (m_timedOut); an init.lua that fails loses its state.
timedPcallReturns(e) ==
  /\ eng[e].doing = "lua"
  /\ \E ok \in BOOLEAN, left \in {0, eng[e].left} :
       eng' = [eng EXCEPT ![e] = [Ended(eng[e], left) EXCEPT
                                    !.vm = ok \/ eng[e].handler # "load"]]
  /\ calls' = Posted(e, "completed")
  /\ UNCHANGED <<host, acts>>

\* A handler enters a C call the hook cannot interrupt, and may leave it.
EnterC(e) ==
  /\ eng[e].doing = "lua" /\ acts < MaxActs
  /\ acts' = acts + 1
  /\ eng' = [eng EXCEPT ![e].doing = "C", ![e].held = @ \/ eng[e].tearing]
  /\ UNCHANGED <<host, calls>>

LeaveC(e) ==
  /\ eng[e].doing = "C"
  /\ eng' = [eng EXCEPT ![e].doing = "lua"]
  /\ UNCHANGED <<host, calls, acts>>

\* settings.get and settings.set block the worker until the GUI answers; get
\* is disconnected by teardownEngine and then returns at once.  The budget does
\* not count the wait (m_pcallWaitedMs), and a handler may go on calling.
lua_ants_settings(e) ==
  LET more == IF eng[e].handler = "unload" THEN 1 ELSE 0 IN
  /\ eng[e].doing = "lua" /\ acts < MaxActs
  /\ acts' = acts + 1
  /\ eng' = [eng EXCEPT ![e].doing = "call", ![e].slow = @ + more, ![e].own = @ + more]
  /\ calls' = Posted(e, "call")
  /\ UNCHANGED host

\* The box is filled under its mutex; the signal follows outside it.
postUiUpdate(e) ==
  /\ eng[e].doing = "lua" /\ acts < MaxActs
  /\ acts' = acts + 1
  /\ eng' = [eng EXCEPT ![e].unseen = TRUE, ![e].pending = TRUE,
                        ![e].doing = IF eng[e].pending THEN "lua" ELSE "announce"]
  /\ UNCHANGED <<host, calls>>

uiUpdatesPending(e) ==
  /\ eng[e].doing = "announce"
  /\ eng' = [eng EXCEPT ![e].doing = "lua"]
  /\ calls' = Posted(e, "ui")
  /\ UNCHANGED <<host, acts>>

(***************************************************************************)
(* The GUI delivers the calls posted to the PluginManager: all that wait,  *)
(* from its event loop and, in waitServicingCalls, between two waits.      *)
(***************************************************************************)
\* Mutant: the wait for the workers runs no events.
DeliverNothing == IF gui = "wait" THEN NoCalls ELSE calls

Deliverable == calls

\* Mutant: the box is taken, its pending mark is left.
TakenUnmarked(e) == [eng[e] EXCEPT !.unseen = FALSE]

Taken(e) == [eng[e] EXCEPT !.unseen = FALSE, !.pending = FALSE]

Answered(e, r) ==
  IF "call" \in Deliverable[e] THEN [r EXCEPT !.doing = "lua"] ELSE r

sendPostedEvents ==
  /\ Deliverable # NoCalls
  /\ calls' = NoCalls
  /\ execStart' = {e \in Engine :
       IF e \in execStart THEN "completed" \notin Deliverable[e]
                          ELSE "started" \in Deliverable[e]}
  /\ eng' = [e \in Engine |->
       Answered(e, IF "ui" \in Deliverable[e] THEN Taken(e) ELSE eng[e])]
  /\ UNCHANGED <<gui, waiting, expired, demoted, loads, files, wedged, events,
                 acts, skipped>>

(***************************************************************************)
(* The GUI's event loop: broadcasts, and the health tick, which demotes    *)
(* any handler whose start is too long ago.                                *)
(***************************************************************************)
fireEvent(S) ==
  /\ gui = "loop" /\ events < MaxEvents
  /\ events' = events + 1
  /\ S # {} /\ S \subseteq healthyEngines
  /\ eng' = [e \in Engine |->
       IF e \in S THEN [eng[e] EXCEPT !.queue = Append(@, "event")] ELSE eng[e]]
  /\ UNCHANGED <<gui, waiting, expired, calls, execStart, demoted, loads, files,
                 wedged, acts, skipped>>

healthTick(S) ==
  /\ gui = "loop"
  /\ S # {} /\ S \subseteq execStart \ demoted
  /\ demoted' = demoted \cup S
  /\ eng' = [e \in Engine |->
       IF e \in S THEN [eng[e] EXCEPT !.abort = TRUE] ELSE eng[e]]
  /\ UNCHANGED <<gui, waiting, expired, calls, execStart, loads, files, wedged,
                 events, acts, skipped>>

(***************************************************************************)
(* unloadAll(): teardownEngine for every engine, then finishTeardown for   *)
(* one after the other.  A reload and the destructor start with it.        *)
(***************************************************************************)
teardownEngine(r) ==
  [r EXCEPT !.tearing = TRUE, !.held = (r.doing = "C"),
            !.queue = @ \o <<"unload", "shutdown", "quit">>]

unloadAll ==
  /\ gui = "loop"
  /\ gui' = "wait"
  /\ waiting' = SetToSeq(Loaded)   \* m_engines is ordered by name
  /\ eng' = [e \in Engine |-> IF e \in Loaded THEN teardownEngine(eng[e]) ELSE eng[e]]
  /\ UNCHANGED <<expired, calls, execStart, demoted, loads, files, wedged, events,
                 acts, skipped>>

\* The clock, see the head of the module: a worker overstays the deadline only
\* if a C call held it, its handlers take more than one budget, or nobody will
\* answer its call.
Overstays(e) ==
  \/ eng[e].held
  \/ eng[e].slow + Using(eng[e]) > 1
  \/ eng[e].doing = "call" /\ "call" \notin Deliverable[e]

Deadline ==
  /\ gui = "wait" /\ ~expired
  /\ LET late == {e \in Range(waiting) : eng[e].doing # "quit"} IN
       late # {} /\ \A e \in late : Overstays(e)
  /\ expired' = TRUE
  /\ UNCHANGED <<gui, waiting, calls, execStart, demoted, eng, loads, files,
                 wedged, events, acts, skipped>>

\* The box outlives its engine: the queued call holds it.
Deleted(e) ==
  [Unborn EXCEPT !.life = "deleted", !.version = eng[e].version,
                 !.unseen = eng[e].unseen, !.pending = eng[e].pending]

Detached(e) ==
  [Unborn EXCEPT !.life = "zombie", !.version = eng[e].version,
                 !.own = eng[e].own, !.held = eng[e].held]

finishTeardown ==
  LET e == Head(waiting) IN
  /\ gui = "wait" /\ waiting # <<>>
  /\ eng[e].doing = "quit" \/ expired
  /\ waiting' = Tail(waiting)
  /\ execStart' = execStart \ {e}
  /\ demoted' = demoted \ {e}
  /\ IF eng[e].doing = "quit"
     THEN /\ eng' = [eng EXCEPT ![e] = Deleted(e)]
          /\ UNCHANGED wedged
     ELSE /\ eng' = [eng EXCEPT ![e] = Detached(e)]
          /\ wedged' = [wedged EXCEPT ![e[1]] = eng[e].version]
  /\ UNCHANGED <<gui, expired, calls, loads, files, events, acts, skipped>>

\* Mutant: a changed plugin keeps its record.
stillWedgedForever(p) == wedged[p] # None

stillWedged(p) == wedged[p] = files[p]

\* The end of unloadAll and the rest of scanAndLoad, with the plugins of the
\* enabled list that a scan finds.
scanAndLoad(found) ==
  LET load  == {p \in found : ~stillWedged(p)}
      fresh == {<<p, loads[p] + 1>> : p \in load} IN
  /\ gui = "wait" /\ waiting = <<>>
  /\ loads' = [p \in Plugin |-> IF p \in load THEN loads[p] + 1 ELSE loads[p]]
  /\ Sum(loads') <= MaxLoads
  /\ gui' = "loop" /\ expired' = FALSE
  /\ execStart' = {} /\ demoted' = {}
  /\ wedged' = [p \in Plugin |-> IF p \in load THEN None ELSE wedged[p]]
  /\ skipped' = skipped \cup {<<p, files[p]>> : p \in found \ load}
  /\ eng' = [e \in Engine |->
       IF e \in fresh
       THEN [Unborn EXCEPT !.life = "loaded", !.version = files[e[1]],
                           !.queue = <<"load", "event">>]
       ELSE eng[e]]
  /\ UNCHANGED <<waiting, calls, files, events, acts>>

\* Only a scan looks at the files, so they change just before one, to a new
\* version or back to an earlier one; the first load finds version 0.
EditFiles(p) ==
  /\ gui = "wait" /\ waiting = <<>>
  /\ loads[p] > 0
  /\ \E v \in 0..MaxVersion :
       v # files[p] /\ files' = [files EXCEPT ![p] = v]
  /\ UNCHANGED <<gui, waiting, expired, calls, execStart, demoted, eng, loads,
                 wedged, events, acts, skipped>>

Worker(e) ==
  \/ dispatchEvent(e) \/ nextHandler(e) \/ Skip(e) \/ shutdown(e) \/ quit(e)
  \/ timedPcallReturns(e) \/ EnterC(e) \/ LeaveC(e)
  \/ lua_ants_settings(e) \/ postUiUpdate(e) \/ uiUpdatesPending(e)

Next ==
  \/ \E e \in Loaded : Worker(e)
  \/ sendPostedEvents
  \/ \E S \in SUBSET Engine : fireEvent(S) \/ healthTick(S)
  \/ unloadAll \/ Deadline \/ finishTeardown
  \/ \E S \in SUBSET Plugin : scanAndLoad(S)
  \/ \E p \in Plugin : EditFiles(p)

Spec == Init /\ [][Next]_vars

-----------------------------------------------------------------------------
EngineState ==
  [life    : {"none", "loaded", "deleted", "zombie"},
   queue   : Seq({"load", "event", "unload", "shutdown", "quit"}),
   doing   : {"idle", "lua", "C", "call", "announce", "next", "quit"},
   handler : {"none", "load", "event", "unload"}, left : Nat,
   vm : BOOLEAN, tearing : BOOLEAN, abort : BOOLEAN,
   pending : BOOLEAN, unseen : BOOLEAN,
   version : Nat \cup {None}, slow : Nat, own : Nat, held : BOOLEAN]

TypeOK ==
  /\ gui \in {"loop", "wait"} /\ waiting \in Seq(Engine) /\ expired \in BOOLEAN
  /\ calls \in [Engine -> SUBSET (Brackets \cup {"call", "ui"})]
  /\ execStart \subseteq Engine /\ demoted \subseteq Engine
  /\ eng \in [Engine -> EngineState]
  /\ loads \in [Plugin -> Nat] /\ files \in [Plugin -> Nat]
  /\ wedged \in [Plugin -> Nat \cup {None}]
  /\ events \in Nat /\ acts \in Nat /\ skipped \subseteq Plugin \X Nat

\* A plugin is given up only for what its own code did after the teardown began: a
\* C call, or Unload code of more than one handler without settings calls.  What
\* it was doing before, a handler that would run on, a blocked settings call, a
\* backlog of events, never costs it the join (beginTeardown, waitServicingCalls).
GivenUpForOwnCode ==
  \A e \in Engine : eng[e].life = "zombie" => eng[e].held \/ eng[e].own > 1

\* The health tick never follows the pointer of a deleted engine: whatever the
\* engine had posted when it was deleted, its m_execStart entry is gone by the
\* time the event loop runs again.
NoDanglingStart ==
  gui = "loop" => \A e \in execStart : eng[e].life # "deleted"

\* Latest-only delivery loses no update: while the box of an engine that is
\* still connected holds one, a call that takes it is posted or about to be.
UpdateHasTrigger ==
  \A e \in Engine :
    (eng[e].unseen /\ eng[e].life # "zombie") =>
      \/ eng[e].doing = "announce"
      \/ "ui" \in calls[e]

\* A reload never starts a wedged plugin again: the load after the one whose
\* worker was abandoned is of other files, and only files an abandoned worker
\* was loaded from are refused, so that an edit always brings the plugin back.
WedgedFilesNotReloaded ==
  /\ \A e, f \in Engine :
       (e[1] = f[1] /\ f[2] = e[2] + 1 /\ eng[e].life = "zombie" /\ eng[f].life # "none")
         => eng[e].version # eng[f].version
  /\ \A s \in skipped : \E e \in Engine :
       e[1] = s[1] /\ eng[e].life = "zombie" /\ eng[e].version = s[2]

=============================================================================
