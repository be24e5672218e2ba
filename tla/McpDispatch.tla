---------------------------- MODULE McpDispatch ----------------------------
(***************************************************************************)
(* Verbs off the GUI thread (claudeintegration.cpp, guithread.h).  Every   *)
(* window has a ClaudeIntegration with two lazily started workers, the     *)
(* shared and the bulk lane.  A request of the MCP socket or of a worker   *)
(* route of the remote-control socket is handed to a lane and answered     *)
(* from the GUI thread when its job has come back.  A job that reads a     *)
(* window blocks in onGuiThread until the GUI thread has made the call;    *)
(* the call of a trust prompt runs a nested event loop.  The GUI waits for *)
(* a worker in one place, the destructor of ClaudeIntegration.             *)
(*                                                                         *)
(* A window opened from the menu is deleted when it closes; Main is        *)
(* deleted after app.exec() has returned.  What a verb computes and how    *)
(* its reply is shaped are left out.                                       *)
(***************************************************************************)
EXTENDS Naturals, Sequences

CONSTANTS Window, Main,
          Prompter,   \* windows that have a verify.json nobody has trusted yet
          MaxReq,     \* bound: requests
          Cap         \* kMaxDispatchQueue

ASSUME DispatchAssumption ==
  /\ Main \in Window /\ Prompter \subseteq Window
  /\ MaxReq \in Nat /\ Cap \in Nat \ {0}

Req == 1..MaxReq   \* in the order they arrive
NoReq == 0
Lane == {"shared", "bulk"}
Thread == Window \X Lane
Kind == {"plain", "read", "prompt"}   \* how a verb uses onGuiThread

VARIABLES
  win,       \* "open", "closing" (deleteLater posted), "teardown" or "gone"
  level,     \* the loop level a deletion was posted at
  looping,   \* app.exec() has not returned
  stack,     \* what the GUI thread is in above app.exec(): prompts and joins
  refused,   \* g_guiMarshalRefusedThreads
  marshals,  \* calls queued on the application object
  thr,       \* each worker: "none", "idle", "running", "checked", "parked",
             \* "returning" or "exited"
  quit,      \* workers whose loop was told to end
  queue,     \* jobs posted to each worker
  cur,       \* the job each worker is in
  inFlight,  \* m_dispatchInFlight
  req        \* each request: what became of it, the worker and the kind of its
             \* verb, and what its onGuiThread returned

\* A request no job works on: not sent, answered (a refusal is an answer) or
\* dropped.  Else its st is "queued", "active" or "posted" and its out is "none"
\* yet, "value" or "nullopt".
Blank(end) ==
  [st |-> end, to |-> <<Main, "shared">>, kind |-> "plain", out |-> "none"]

gui == <<win, level, looping, stack>>
worker == <<thr, quit, queue, cur, inFlight>>
vars == <<gui, refused, marshals, worker, req>>

Init ==
  /\ win = [w \in Window |-> "open"] /\ level = [w \in Window |-> 0]
  /\ looping = TRUE /\ stack = <<>>
  /\ refused = {} /\ marshals = <<>>
  /\ thr = [t \in Thread |-> "none"] /\ quit = {}
  /\ queue = [t \in Thread |-> <<>>] /\ cur = [t \in Thread |-> NoReq]
  /\ inFlight = [w \in Window |-> 0]
  /\ req = [r \in Req |-> Blank("unsent")]

Top == stack[Len(stack)]
Pop == SubSeq(stack, 1, Len(stack) - 1)
Joining == stack # <<>> /\ Top[1] = "join"
\* An event loop runs: app.exec(), or the one of a prompt on top of the stack.
InLoop == ~Joining /\ (looping \/ stack # <<>>)

---------------------------------------------------------------------------
(* Requests, on the GUI thread. *)

\* The early returns of postWorkerJob.
accepts(w) == win[w] # "teardown" /\ inFlight[w] < Cap

postWorkerJob(r, t) ==
  /\ thr' = [thr EXCEPT ![t] = IF @ = "none" THEN "idle" ELSE @]
  /\ queue' = [queue EXCEPT ![t] = Append(@, r)]
  /\ inFlight' = [inFlight EXCEPT ![t[1]] = @ + 1]

\* Mutant: the lane of the registration is ignored.
OneLane(k) == {"shared"}

\* verify_changes, the one verb that prompts, is registered on the bulk lane.
lanes(k) == IF k = "prompt" THEN {"bulk"} ELSE Lane

\* A complete request line for a verb that runs on a worker.
handleMcpRequest(r) ==
  /\ InLoop /\ req[r].st = "unsent" /\ \A q \in 1..(r - 1) : req[q].st # "unsent"
  /\ \E w \in Window, k \in Kind : \E l \in lanes(k) :
       /\ win[w] # "gone" /\ (k = "prompt" => w \in Prompter)
       /\ \/ /\ accepts(w) /\ postWorkerJob(r, <<w, l>>)
             /\ req' = [req EXCEPT ![r] = [st |-> "queued", to |-> <<w, l>>,
                                          kind |-> k, out |-> "none"]]
          \/ /\ ~accepts(w) /\ UNCHANGED <<thr, queue, inFlight>>
             /\ req' = [req EXCEPT ![r] = Blank("answered")]
  /\ UNCHANGED <<gui, refused, marshals, quit, cur>>

\* The queued continuation of a job: the reply, unless the client has left by now.
finishToolDispatch(r) ==
  /\ InLoop /\ req[r].st = "posted"
  /\ \E end \in {"answered", "dropped"} : req' = [req EXCEPT ![r] = Blank(end)]
  /\ UNCHANGED <<gui, refused, marshals, worker>>

---------------------------------------------------------------------------
(* A worker.  Told to quit it may still run jobs posted before. *)

Take(t) ==
  /\ thr[t] = "idle" /\ queue[t] # <<>>
  /\ thr' = [thr EXCEPT ![t] = "running"]
  /\ cur' = [cur EXCEPT ![t] = Head(queue[t])]
  /\ queue' = [queue EXCEPT ![t] = Tail(@)]
  /\ req' = [req EXCEPT ![Head(queue[t])].st = "active"]
  /\ UNCHANGED <<gui, refused, marshals, quit, inFlight>>

Exit(t) ==
  /\ thr[t] = "idle" /\ t \in quit
  /\ thr' = [thr EXCEPT ![t] = "exited"]
  /\ UNCHANGED <<gui, refused, marshals, quit, queue, cur, inFlight, req>>

\* The job has a call to make.  One call stands for all of a job's: a verb that reads
\* and then prompts makes two, each tested and delivered alike.
Reads(t) == req[cur[t]].kind # "plain" /\ req[cur[t]].out = "none"

\* Mutant: one flag for the process.
AnyRefused(t) == refused # {}

guiMarshalRefused(t) == t \in refused

\* onGuiThread: the test of the caller, and then the queued call.
Check(t) ==
  /\ thr[t] = "running" /\ Reads(t)
  /\ IF guiMarshalRefused(t)
     THEN req' = [req EXCEPT ![cur[t]].out = "nullopt"] /\ UNCHANGED thr
     ELSE thr' = [thr EXCEPT ![t] = "checked"] /\ UNCHANGED req
  /\ UNCHANGED <<gui, refused, marshals, quit, queue, cur, inFlight>>

onGuiThread(t) ==
  /\ thr[t] = "checked"
  /\ thr' = [thr EXCEPT ![t] = "parked"]
  /\ marshals' = Append(marshals, t)
  /\ UNCHANGED <<gui, refused, quit, queue, cur, inFlight, req>>

\* The handler has returned: its reply is posted, then the count is lowered.
postToolDispatch(t) ==
  /\ thr[t] = "running" /\ ~Reads(t)
  /\ thr' = [thr EXCEPT ![t] = "returning"]
  /\ req' = [req EXCEPT ![cur[t]].st = "posted"]
  /\ UNCHANGED <<gui, refused, marshals, quit, queue, cur, inFlight>>

Return(t) ==
  /\ thr[t] = "returning"
  /\ thr' = [thr EXCEPT ![t] = "idle"]
  /\ cur' = [cur EXCEPT ![t] = NoReq]
  /\ inFlight' = [inFlight EXCEPT ![t[1]] = @ - 1]
  /\ UNCHANGED <<gui, refused, marshals, quit, queue, req>>

---------------------------------------------------------------------------
(* Calls made on the GUI thread for a worker. *)

Release(t, result) ==
  /\ req' = [req EXCEPT ![cur[t]].out = result]
  /\ thr' = [thr EXCEPT ![t] = "running"]

\* The lambda onGuiThread queues: it tests again before it makes the call.
Call(t) ==
  \/ guiMarshalRefused(t) /\ Release(t, "nullopt") /\ UNCHANGED stack
  \/ /\ ~guiMarshalRefused(t) /\ req[cur[t]].kind = "read"
     /\ Release(t, "value") /\ UNCHANGED stack
  \/ /\ ~guiMarshalRefused(t) /\ req[cur[t]].kind = "prompt"
     /\ stack' = Append(stack, <<"prompt", t>>) /\ UNCHANGED <<req, thr>>

\* Mutant: a plain QThread::wait, which delivers nothing.
BareWait == InLoop

\* An event loop delivers queued calls, and so does joinRefusingMarshals.
Delivers == InLoop \/ Joining

Deliver ==
  /\ Delivers /\ marshals # <<>>
  /\ Call(Head(marshals)) /\ marshals' = Tail(marshals)
  /\ UNCHANGED <<win, level, looping, refused, quit, queue, cur, inFlight>>

\* The user answers the prompt on top; showPrompt returns.
showPrompt ==
  /\ stack # <<>> /\ Top[1] = "prompt"
  /\ stack' = Pop /\ Release(Top[2], "value")
  /\ UNCHANGED <<win, level, looping, refused, marshals, quit, queue, cur, inFlight>>

---------------------------------------------------------------------------
(* Windows. *)

\* The user closes it, or the shell of its last tab has ended.
close(w) ==
  /\ InLoop /\ w # Main /\ win[w] = "open"
  /\ win' = [win EXCEPT ![w] = "closing"]
  /\ level' = [level EXCEPT ![w] = Len(stack)]
  /\ UNCHANGED <<looping, stack, refused, marshals, worker, req>>

\* The last window is closed and app.exec() returns.
LastWindowClosed ==
  /\ looping /\ stack = <<>> /\ \A w \in Window \ {Main} : win[w] # "open"
  /\ looping' = FALSE
  /\ UNCHANGED <<win, level, stack, refused, marshals, worker, req>>

Started(w) == {t \in Thread : t[1] = w /\ thr[t] # "none"}

\* Mutant: the bulk lane is refused only after the shared one is joined.
RefuseShared(w) ==
  /\ win' = [win EXCEPT ![w] = "teardown"]
  /\ refused' = refused \cup {t \in Started(w) : t[2] = "shared"}
  /\ quit' = quit \cup Started(w)
  /\ stack' = Append(stack, <<"join", <<w, "shared">>>>)

shutdownDispatchWorker(w) ==
  /\ win' = [win EXCEPT ![w] = "teardown"]
  /\ refused' = refused \cup Started(w)
  /\ quit' = quit \cup Started(w)
  /\ stack' = Append(stack, <<"join", <<w, "shared">>>>)

\* The deferred deletion of a closed window, which a loop nested deeper than the one
\* it was posted in leaves alone, and that of Main in main().
Destroy(w) ==
  /\ \/ /\ w # Main /\ win[w] = "closing" /\ Len(stack) <= level[w]
        /\ InLoop \/ (~looping /\ stack = <<>>)
     \/ /\ w = Main /\ win[w] = "open" /\ ~looping /\ stack = <<>>
        /\ \A v \in Window \ {Main} : win[v] = "gone"
  /\ shutdownDispatchWorker(w) /\ level' = [level EXCEPT ![w] = 0]
  /\ UNCHANGED <<looping, marshals, thr, queue, cur, inFlight, req>>

unrefuse(t) == refused' = refused \ {t}

\* The join of one lane returns.  After the second the object is freed: queued
\* continuations and the sockets it serves go with it.
joinRefusingMarshals ==
  /\ Joining /\ thr[Top[2]] \in {"none", "exited"}
  /\ unrefuse(Top[2])
  /\ LET w == Top[2][1] IN
       \/ /\ Top[2][2] = "shared"
          /\ stack' = Append(Pop, <<"join", <<w, "bulk">>>>)
          /\ UNCHANGED <<win, req>>
       \/ /\ Top[2][2] = "bulk"
          /\ stack' = Pop /\ win' = [win EXCEPT ![w] = "gone"]
          /\ req' = [r \in Req |->
                       IF req[r].to[1] = w /\ req[r].st \in {"queued", "posted"}
                       THEN Blank("dropped") ELSE req[r]]
  /\ UNCHANGED <<level, looping, marshals, worker>>

Terminated == win[Main] = "gone" /\ UNCHANGED vars

---------------------------------------------------------------------------
Worker(t) ==
  Take(t) \/ Exit(t) \/ Check(t) \/ onGuiThread(t) \/ postToolDispatch(t) \/ Return(t)

Next ==
  \/ \E r \in Req : handleMcpRequest(r) \/ finishToolDispatch(r)
  \/ \E t \in Thread : Worker(t)
  \/ Deliver \/ showPrompt \/ joinRefusingMarshals
  \/ \E w \in Window : close(w) \/ Destroy(w)
  \/ LastWindowClosed \/ Terminated

Spec == Init /\ [][Next]_vars

\* Threads run, and an event loop gets to what is queued for it.  Nobody has to
\* answer a prompt or to close a window.
FairSpec ==
  /\ Spec
  /\ \A t \in Thread : WF_vars(Worker(t))
  /\ WF_vars(Deliver) /\ WF_vars(joinRefusingMarshals)
  /\ \A r \in Req : WF_vars(finishToolDispatch(r))
  /\ \A w \in Window : WF_vars(Destroy(w))

---------------------------------------------------------------------------
(* Properties. *)

TypeOK ==
  /\ win \in [Window -> {"open", "closing", "teardown", "gone"}]
  /\ level \in [Window -> Nat] /\ looping \in BOOLEAN
  /\ stack \in Seq({"prompt", "join"} \X Thread)
  /\ refused \subseteq Thread /\ marshals \in Seq(Thread)
  /\ thr \in [Thread -> {"none", "idle", "running", "checked", "parked", "returning",
                         "exited"}]
  /\ quit \subseteq Thread /\ queue \in [Thread -> Seq(Req)]
  /\ cur \in [Thread -> Req \cup {NoReq}] /\ inFlight \in [Window -> Nat]
  /\ req \in [Req -> [st : {"unsent", "queued", "active", "posted", "answered",
                             "dropped"},
                      to : Thread, kind : Kind, out : {"none", "value", "nullopt"}]]

\* Closing one window refuses nothing to the workers of another
\* (g_guiMarshalRefusedThreads is keyed by thread): only a job whose own window is
\* being destroyed is told nullopt.
OwnRefusalsOnly ==
  \A r \in Req : req[r].out = "nullopt" => win[req[r].to[1]] \in {"teardown", "gone"}

\* A call for a worker never reads a window that is being destroyed, whichever lane
\* it comes from and whenever it was queued (onGuiThread, shutdownDispatchWorker).
NeverReadsTornDown ==
  [][\A r \in Req : req[r].out = "none" /\ req'[r].out = "value"
                      => win[req[r].to[1]] # "teardown"]_vars

Settled(r) == req[r].st \in {"answered", "dropped"}
Prompting == \E i \in 1..Len(stack) : stack[i][1] = "prompt"

\* A job of the shared lane of a window that stays is settled although a prompt is
\* open for ever (lanes): the bulk lane and the nested loop hold nobody else up.
SharedServed ==
  \A r \in Req : (req[r].st = "queued" /\ req[r].to[2] = "shared")
                 ~> (Settled(r) \/ win[req[r].to[1]] = "teardown")

\* If every prompt is answered in the end, the destructor returns, with workers
\* parked on either lane (joinRefusingMarshals).
TeardownReturns ==
  []<>~Prompting => \A w \in Window : (win[w] = "teardown") ~> (win[w] = "gone")

\* "teardown, in the one order that cannot deadlock": the GUI never joins a worker
\* that is parked on a call the GUI itself is in the middle of.
JoinNeverOverOwnCall ==
  \A i, j \in 1..Len(stack) :
    i < j /\ stack[i][1] = "prompt" /\ stack[j][1] = "join"
      => stack[i][2][1] # stack[j][2][1]

=============================================================================
