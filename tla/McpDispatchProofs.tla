-------------------------- MODULE McpDispatchProofs --------------------------
(***************************************************************************)
(* What the dispatch of verbs to workers keeps, for any number of windows  *)
(* and requests, any cap and whichever windows prompt.                     *)
(*                                                                         *)
(* That a refusal stays with the window being destroyed, and that a call   *)
(* never reads such a window, follow from who owns what: a job belongs to  *)
(* one worker, a parked worker to one queued call or one prompt, a window  *)
(* in its destructor to one join, and a refusal to such a window.          *)
(***************************************************************************)
EXTENDS McpDispatch, SequenceTheorems, TLAPS

Frame == {"prompt", "join"} \X Thread
ReqSt == {"unsent", "queued", "active", "posted", "answered", "dropped"}
Outs == {"none", "value", "nullopt"}
Request == [st : ReqSt, to : Thread, kind : Kind, out : Outs]
InJob == {"running", "checked", "parked"}
Ended == {"none", "exited"}
Down == {"teardown", "gone"}

\* What a worker has been handed and has not returned from.
Load(t) == Len(queue[t]) + (IF thr[t] \in InJob \cup {"returning"} THEN 1 ELSE 0)

\* The job a worker is in, and the jobs posted to it, are requests sent to it.
JobsOwned ==
  /\ \A t \in Thread : thr[t] \in InJob =>
       cur[t] \in Req /\ req[cur[t]].st = "active" /\ req[cur[t]].to = t
  /\ \A t \in Thread : thr[t] \in {"checked", "parked"} => Reads(t)
  /\ \A t \in Thread : thr[t] # "exited" => \A i \in 1..Len(queue[t]) :
       req[queue[t][i]].st = "queued" /\ req[queue[t][i]].to = t
  /\ \A t \in Thread : \A i, j \in 1..Len(queue[t]) : queue[t][i] = queue[t][j] => i = j
  /\ \A t \in Thread : thr[t] = "none" => queue[t] = <<>>
  /\ \A r \in Req : req[r].kind = "prompt" => req[r].to[1] \in Prompter

\* m_dispatchInFlight is what the two lanes hold, and never above the cap.
Counted ==
  \A w \in Window :
    inFlight[w] = Load(<<w, "shared">>) + Load(<<w, "bulk">>) /\ inFlight[w] <= Cap

\* A parked worker waits for one queued call or for one prompt.
CallsOwned ==
  /\ \A i \in 1..Len(marshals) : thr[marshals[i]] = "parked"
  /\ \A i, j \in 1..Len(marshals) : marshals[i] = marshals[j] => i = j
  /\ \A i \in 1..Len(stack) : stack[i][1] = "prompt" =>
       /\ thr[stack[i][2]] = "parked" /\ stack[i][2][1] \in Prompter
       /\ \A j \in 1..Len(marshals) : marshals[j] # stack[i][2]
  /\ \A i, j \in 1..Len(stack) :
       (stack[i][1] = "prompt" /\ stack[j][1] = "prompt" /\ stack[i][2] = stack[j][2]) => i = j
  /\ \A t \in Thread : thr[t] = "parked" =>
       \/ \E i \in 1..Len(marshals) : marshals[i] = t
       \/ \E i \in 1..Len(stack) : stack[i][1] = "prompt" /\ stack[i][2] = t

\* A window in its destructor has one join, and no prompt of its own above that.
JoinsOwned ==
  /\ \A w \in Window : win[w] = "teardown" =>
       \E i \in 1..Len(stack) : stack[i][1] = "join" /\ stack[i][2][1] = w
  /\ \A i \in 1..Len(stack) : stack[i][1] = "join" =>
       /\ win[stack[i][2][1]] = "teardown"
       /\ stack[i][2][2] = "bulk" => /\ thr[<<stack[i][2][1], "shared">>] \in Ended
                                     /\ <<stack[i][2][1], "shared">> \notin refused
       /\ stack[i][2][1] = Main => i = 1
  /\ \A i, j \in 1..Len(stack) :
       (stack[i][1] = "join" /\ stack[j][1] = "join" /\ stack[i][2][1] = stack[j][2][1]) => i = j
  /\ \A i, j \in 1..Len(stack) :
       (stack[i][1] = "join" /\ stack[j][1] = "prompt" /\ i < j)
         => stack[i][2][1] # stack[j][2][1]

\* Marshals are refused to the live workers of the windows in their destructor.
RefusalsOwned ==
  /\ \A t \in refused : win[t[1]] = "teardown"
  /\ \A t \in Thread : win[t[1]] = "teardown" => t \in refused \/ thr[t] \in Ended
  /\ \A t \in Thread : win[t[1]] = "gone" => thr[t] \in Ended

\* Only a window being destroyed has told its workers to end.
QuitOwned ==
  /\ \A t \in quit : win[t[1]] \in Down
  /\ \A t \in Thread : thr[t] = "exited" => t \in quit

MInv ==
  /\ TypeOK /\ JobsOwned /\ Counted /\ CallsOwned /\ JoinsOwned /\ RefusalsOwned
  /\ QuitOwned /\ OwnRefusalsOnly

\* An accepted request is held somewhere until it is settled, and its window is there.
JobsHeld ==
  /\ \A r \in Req : req[r].st = "queued" =>
       \E i \in 1..Len(queue[req[r].to]) : queue[req[r].to][i] = r
  /\ \A r \in Req : req[r].st = "active" =>
       thr[req[r].to] \in InJob /\ cur[req[r].to] = r
  /\ \A r \in Req : req[r].st \in {"queued", "active", "posted"} => win[req[r].to[1]] # "gone"

\* A request goes through its states in one order.
Steps == {<<"unsent", "queued">>, <<"queued", "active">>, <<"active", "posted">>,
          <<"unsent", "answered">>, <<"posted", "answered">>, <<"posted", "dropped">>,
          <<"queued", "dropped">>}
AnsweredOnce ==
  [][\A r \in Req : req'[r].st # req[r].st => <<req[r].st, req'[r].st>> \in Steps]_vars

\* A worker is only handed jobs while it runs.
NeverPostsToExited ==
  [][\A t \in Thread : Len(queue'[t]) > Len(queue[t]) => thr[t] # "exited"]_vars

\* The worker a join waits for, if it is parked, waits for a call that the join
\* will deliver.
JoinServed ==
  (Joining /\ thr[Top[2]] = "parked") => \E i \in 1..Len(marshals) : marshals[i] = Top[2]

-----------------------------------------------------------------------------
(* Threads, frames and sequences. *)

\* A worker is its window and its lane.
LEMMA ThreadFacts ==
  ASSUME NEW t \in Thread
  PROVE  t[1] \in Window /\ t[2] \in Lane /\ t = <<t[1], t[2]>>
BY DEF Thread

\* A frame is what it does and for which worker.
LEMMA FrameFacts ==
  ASSUME NEW f \in Frame
  PROVE  f[1] \in {"prompt", "join"} /\ f[2] \in Thread /\ f[2][1] \in Window
         /\ f[2][2] \in Lane /\ f[2] = <<f[2][1], f[2][2]>>
BY ThreadFacts DEF Frame

\* The two workers of a window.
LEMMA LaneFacts ==
  ASSUME NEW w \in Window
  PROVE  /\ <<w, "shared">> \in Thread /\ <<w, "bulk">> \in Thread
         /\ <<w, "shared">>[1] = w /\ <<w, "bulk">>[1] = w
         /\ <<w, "shared">>[2] = "shared" /\ <<w, "bulk">>[2] = "bulk"
         /\ \A t \in Thread : t[1] = w => t = <<w, "shared">> \/ t = <<w, "bulk">>
<1>1. <<w, "shared">> \in Thread /\ <<w, "bulk">> \in Thread
  BY DEF Thread, Lane
<1>2. \A t \in Thread : t[1] = w => t = <<w, "shared">> \/ t = <<w, "bulk">>
  BY ThreadFacts DEF Lane
<1> QED
  BY <1>1, <1>2

\* One element more.
LEMMA AppendFacts ==
  ASSUME NEW S, NEW s \in Seq(S), NEW e \in S
  PROVE  /\ Append(s, e) \in Seq(S) /\ Len(s) \in Nat
         /\ Len(Append(s, e)) = Len(s) + 1
         /\ \A i \in 1..Len(s) : Append(s, e)[i] = s[i]
         /\ Append(s, e)[Len(s) + 1] = e
BY AppendProperties

\* The first element and the rest.
LEMMA TailFacts ==
  ASSUME NEW S, NEW s \in Seq(S), s # <<>>
  PROVE  /\ Len(s) \in Nat \ {0} /\ Head(s) = s[1] /\ Head(s) \in S
         /\ Tail(s) \in Seq(S) /\ Len(Tail(s)) = Len(s) - 1
         /\ \A i \in 1..(Len(s) - 1) : Tail(s)[i] = s[i + 1]
<1>1. Len(s) \in Nat /\ Len(s) # 0
  BY EmptySeq
<1>2. Tail(s) \in Seq(S) /\ Len(Tail(s)) = Len(s) - 1 /\ Head(s) \in S
      /\ \A i \in 1..Len(Tail(s)) : Tail(s)[i] = s[i + 1]
  BY HeadTailProperties
<1> QED
  BY <1>1, <1>2

\* The stack without its top.
LEMMA PopFacts ==
  ASSUME stack \in Seq(Frame), stack # <<>>
  PROVE  /\ Len(stack) \in Nat \ {0} /\ Top \in Frame
         /\ Pop \in Seq(Frame) /\ Len(Pop) = Len(stack) - 1
         /\ \A i \in 1..(Len(stack) - 1) : Pop[i] = stack[i]
<1>1. Len(stack) \in Nat /\ Len(stack) # 0
  BY EmptySeq
<1>2. \A i \in 1..Len(stack) : stack[i] \in Frame
  BY <1>1
<1>3. \A i \in 1..(Len(stack) - 1) : stack[i] \in Frame
  BY <1>1, <1>2
<1>4. 1 \in Int /\ Len(stack) - 1 \in Int
  BY <1>1
<1>5. /\ Pop \in Seq(Frame)
      /\ Len(Pop) = IF 1 <= Len(stack) - 1 THEN (Len(stack) - 1) - 1 + 1 ELSE 0
      /\ \A i \in 1..((Len(stack) - 1) - 1 + 1) : Pop[i] = stack[1 + i - 1]
  BY <1>3, <1>4, SubSeqProperties DEF Pop
<1>6. Top \in Frame
  BY <1>1, <1>2 DEF Top
<1> DEFINE n == Len(stack)
<1>7. n \in Nat /\ n # 0 /\ Len(Pop) = (IF 1 <= n - 1 THEN (n - 1) - 1 + 1 ELSE 0)
      /\ \A i \in 1..((n - 1) - 1 + 1) : Pop[i] = stack[1 + i - 1]
  BY <1>1, <1>5
<1> HIDE DEF n
<1>8. Len(Pop) = n - 1
  BY <1>7
<1>9. \A i \in 1..(n - 1) : Pop[i] = stack[i]
  BY <1>7
<1> QED
  BY <1>1, <1>5, <1>6, <1>8, <1>9 DEF n

\* What a request record is.
LEMMA RequestFacts ==
  ASSUME TypeOK
  PROVE  /\ req \in [Req -> Request]
         /\ \A r \in Req : /\ req[r] \in Request /\ req[r].st \in ReqSt
                           /\ req[r].to \in Thread /\ req[r].kind \in Kind
                           /\ req[r].out \in Outs /\ req[r].to[1] \in Window
<1>1. req \in [Req -> Request]
  BY DEF TypeOK, Request, ReqSt, Outs
<1>2. \A r \in Req : req[r] \in Request
  BY <1>1
<1>3. \A r \in Req : req[r].st \in ReqSt /\ req[r].to \in Thread /\ req[r].kind \in Kind
                    /\ req[r].out \in Outs
  BY <1>2 DEF Request
<1> QED
  BY <1>1, <1>2, <1>3, ThreadFacts

\* One request is replaced.
LEMMA RequestSet ==
  ASSUME TypeOK, NEW r \in Req, NEW x \in Request, req' = [req EXCEPT ![r] = x]
  PROVE  /\ req' \in [Req -> Request] /\ req'[r] = x
         /\ \A q \in Req : q # r => req'[q] = req[q]
<1>1. req \in [Req -> Request]
  BY RequestFacts
<1> HIDE DEF Request
<1> QED
  BY <1>1

\* A job is taken or done.
LEMMA StSet ==
  ASSUME TypeOK, NEW r \in Req, NEW x \in ReqSt, req' = [req EXCEPT ![r].st = x]
  PROVE  /\ req' \in [Req -> Request] /\ req'[r].st = x /\ req'[r].to = req[r].to
         /\ req'[r].kind = req[r].kind /\ req'[r].out = req[r].out
         /\ \A q \in Req : q # r => req'[q] = req[q]
<1> DEFINE y == [req[r] EXCEPT !.st = x]
<1>1. req[r] \in Request
  BY RequestFacts
<1>2. y \in Request /\ y.st = x /\ y.to = req[r].to /\ y.kind = req[r].kind
      /\ y.out = req[r].out
  BY <1>1 DEF Request
<1>3. req' = [req EXCEPT ![r] = y]
  OBVIOUS
<1> HIDE DEF y
<1> QED
  BY <1>2, <1>3, RequestSet

\* A call returns.
LEMMA OutSet ==
  ASSUME TypeOK, NEW r \in Req, NEW x \in Outs, req' = [req EXCEPT ![r].out = x]
  PROVE  /\ req' \in [Req -> Request] /\ req'[r].out = x /\ req'[r].to = req[r].to
         /\ req'[r].kind = req[r].kind /\ req'[r].st = req[r].st
         /\ \A q \in Req : q # r => req'[q] = req[q]
<1> DEFINE y == [req[r] EXCEPT !.out = x]
<1>1. req[r] \in Request
  BY RequestFacts
<1>2. y \in Request /\ y.out = x /\ y.to = req[r].to /\ y.kind = req[r].kind
      /\ y.st = req[r].st
  BY <1>1 DEF Request
<1>3. req' = [req EXCEPT ![r] = y]
  OBVIOUS
<1> HIDE DEF y
<1> QED
  BY <1>2, <1>3, RequestSet

-----------------------------------------------------------------------------
(* What leaves a part of the invariant alone. *)

\* The count moves with what the lanes hold.
LEMMA CountStep ==
  ASSUME TypeOK, Counted, NEW t \in Thread, NEW d \in Int,
         \A u \in Thread : Len(queue'[u]) \in Nat,
         \A u \in Thread : u # t => Load(u)' = Load(u),
         Load(t)' = Load(t) + d, inFlight[t[1]] + d <= Cap,
         inFlight' = [inFlight EXCEPT ![t[1]] = @ + d]
  PROVE  Counted'
<1> SUFFICES ASSUME NEW w \in Window
             PROVE  inFlight'[w] = Load(<<w, "shared">>)' + Load(<<w, "bulk">>)'
                    /\ inFlight'[w] <= Cap
  BY DEF Counted
<1>1. t[1] \in Window /\ t[2] \in Lane /\ t = <<t[1], t[2]>>
  BY ThreadFacts
<1>2. inFlight \in [Window -> Nat] /\ inFlight[w] \in Nat
  BY DEF TypeOK
<1>3. <<w, "shared">> \in Thread /\ <<w, "bulk">> \in Thread /\ <<w, "shared">> # <<w, "bulk">>
      /\ <<w, "shared">>[1] = w /\ <<w, "bulk">>[1] = w
  BY LaneFacts
<1>4. \A u \in Thread : Load(u) \in Nat
  BY DEF TypeOK, Load
<1>5. inFlight[w] = Load(<<w, "shared">>) + Load(<<w, "bulk">>) /\ inFlight[w] <= Cap
  BY DEF Counted
<1>6. CASE w # t[1]
  <2>1. <<w, "shared">> # t /\ <<w, "bulk">> # t
    BY <1>3, <1>6
  <2> QED
    BY <1>1, <1>2, <1>3, <1>5, <1>6, <2>1
<1>7. CASE w = t[1]
  <2>0. inFlight'[w] = inFlight[w] + d /\ inFlight'[w] <= Cap
    BY <1>1, <1>2, <1>7
  <2>1. CASE t = <<w, "shared">>
    BY <1>2, <1>3, <1>4, <1>5, <2>0, <2>1
  <2>2. CASE t = <<w, "bulk">>
    BY <1>2, <1>3, <1>4, <1>5, <2>0, <2>2
  <2> QED
    BY <1>1, <1>7, <2>1, <2>2 DEF Lane
<1> QED
  BY <1>6, <1>7

\* The lanes hold what they held.
LEMMA CountSame ==
  ASSUME Counted, UNCHANGED inFlight, \A u \in Thread : Load(u)' = Load(u)
  PROVE  Counted'
<1> SUFFICES ASSUME NEW w \in Window
             PROVE  inFlight'[w] = Load(<<w, "shared">>)' + Load(<<w, "bulk">>)'
                    /\ inFlight'[w] <= Cap
  BY DEF Counted
<1>1. <<w, "shared">> \in Thread /\ <<w, "bulk">> \in Thread
  BY LaneFacts
<1> QED
  BY <1>1 DEF Counted

\* Jobs.
LEMMA JobsSame ==
  ASSUME JobsOwned, UNCHANGED <<thr, queue, cur, req>>
  PROVE  JobsOwned'
BY DEF JobsOwned, Reads

\* Nobody parks, is released or prompts.
LEMMA CallsSame ==
  ASSUME TypeOK, CallsOwned, UNCHANGED <<stack, marshals>>,
         \A u \in Thread : thr'[u] = "parked" <=> thr[u] = "parked"
  PROVE  CallsOwned'
<1>1. \A i \in 1..Len(marshals) : marshals[i] \in Thread
  BY DEF TypeOK
<1>2. \A i \in 1..Len(stack) : stack[i][2] \in Thread
  BY FrameFacts DEF TypeOK, Frame
<1> QED
  BY <1>1, <1>2 DEF CallsOwned

\* No window changes, and an ended worker stays so under a destructor.
LEMMA JoinsSame ==
  ASSUME TypeOK, JoinsOwned, UNCHANGED <<stack, win, refused>>,
         \A u \in Thread : (thr[u] \in Ended /\ win[u[1]] \in Down) => thr'[u] \in Ended
  PROVE  JoinsOwned'
<1>2. \A i \in 1..Len(stack) : stack[i][2][1] \in Window
  BY FrameFacts DEF TypeOK, Frame
<1>3. \A w \in Window : <<w, "shared">> \in Thread /\ <<w, "shared">>[1] = w
  BY LaneFacts
<1>4. ASSUME NEW i \in 1..Len(stack), stack[i][1] = "join", stack[i][2][2] = "bulk"
      PROVE  thr'[<<stack[i][2][1], "shared">>] \in Ended
  BY <1>2, <1>3, <1>4 DEF JoinsOwned, Down
<1>5. \A i \in 1..Len(stack) : (stack[i][1] = "join" /\ stack[i][2][2] = "bulk") =>
        thr'[<<stack[i][2][1], "shared">>] \in Ended
  BY <1>4
<1> QED
  BY <1>5 DEF JoinsOwned

\* The same for the refusals.
LEMMA RefusalsSame ==
  ASSUME TypeOK, RefusalsOwned, UNCHANGED <<win, refused>>,
         \A u \in Thread : (thr[u] \in Ended /\ win[u[1]] \in Down) => thr'[u] \in Ended
  PROVE  RefusalsOwned'
BY DEF RefusalsOwned, Down

\* Nobody ends.
LEMMA QuitSame ==
  ASSUME QuitOwned, UNCHANGED <<win, quit>>,
         \A u \in Thread : thr'[u] = "exited" => thr[u] = "exited"
  PROVE  QuitOwned'
BY DEF QuitOwned

\* Nobody is told nullopt, and a window stays destroyed.
LEMMA OutSame ==
  ASSUME OwnRefusalsOnly, TypeOK,
         \A r \in Req : req'[r].out = "nullopt" =>
                          req[r].out = "nullopt" /\ req'[r].to = req[r].to,
         \A w \in Window : win[w] \in Down => win'[w] \in Down
  PROVE  OwnRefusalsOnly'
<1>1. \A r \in Req : req[r].to[1] \in Window
  <2>1. \A r \in Req : req[r].to \in Thread
    BY DEF TypeOK
  <2> QED
    BY <2>1, ThreadFacts
<1> QED
  BY <1>1 DEF OwnRefusalsOnly, Down

-----------------------------------------------------------------------------
(* Initially. *)

\* No worker is started, nothing is sent.
LEMMA InitMInv ==
  Init => MInv
<1> SUFFICES ASSUME Init PROVE MInv
  OBVIOUS
<1>1. \A r \in Req : req[r] = Blank("unsent")
  BY DEF Init
<1>2. Blank("unsent").out = "none" /\ Blank("unsent").kind = "plain"
      /\ Blank("unsent").to \in Thread
  BY DispatchAssumption DEF Blank, Thread, Lane
<1>3. TypeOK
  <2>1. Blank("unsent") \in [st : {"unsent", "queued", "active", "posted", "answered", "dropped"},
                             to : Thread, kind : Kind, out : {"none", "value", "nullopt"}]
    BY <1>2 DEF Blank, Kind
  <2> HIDE DEF Blank
  <2> QED
    BY <2>1 DEF Init, TypeOK, NoReq
<1>4. JobsOwned
  BY <1>1, <1>2 DEF Init, JobsOwned, InJob
<1>5. Counted
  <2>1. \A t \in Thread : Load(t) = 0
    BY DEF Init, Load, InJob
  <2> QED
    <3>1. \A w \in Window : <<w, "shared">> \in Thread /\ <<w, "bulk">> \in Thread
      BY LaneFacts
    <3>2. 0 <= Cap /\ \A w \in Window : inFlight[w] = 0
      BY DispatchAssumption DEF Init
    <3> QED
      <4>1. \A w \in Window : Load(<<w, "shared">>) = 0 /\ Load(<<w, "bulk">>) = 0
        BY <2>1, <3>1
      <4>2. ASSUME NEW w \in Window
            PROVE  inFlight[w] = Load(<<w, "shared">>) + Load(<<w, "bulk">>) /\ inFlight[w] <= Cap
        <5>1. Load(<<w, "shared">>) + Load(<<w, "bulk">>) = 0 + 0
          BY <4>1
        <5> QED
          BY <3>2, <5>1
      <4> QED
        BY <4>2 DEF Counted
<1>6. CallsOwned /\ JoinsOwned
  BY DEF Init, CallsOwned, JoinsOwned
<1>7. RefusalsOwned /\ QuitOwned
  BY ThreadFacts DEF Init, RefusalsOwned, QuitOwned
<1>8. OwnRefusalsOnly
  BY <1>1, <1>2 DEF OwnRefusalsOnly
<1> QED
  BY <1>3, <1>4, <1>5, <1>6, <1>7, <1>8 DEF MInv

-----------------------------------------------------------------------------
(* A worker. *)

\* The worker takes the job at the head of its queue, which is nobody else's.
LEMMA TakeMInv ==
  ASSUME MInv, NEW t \in Thread, Take(t)
  PROVE  MInv'
<1> TypeOK /\ JobsOwned /\ Counted /\ CallsOwned /\ JoinsOwned /\ RefusalsOwned
    /\ QuitOwned /\ OwnRefusalsOnly
  BY DEF MInv
<1> DEFINE h == Head(queue[t])
           tl == Tail(queue[t])
           n == Len(queue[t])
<1>1. /\ thr[t] = "idle" /\ queue[t] # <<>> /\ thr' = [thr EXCEPT ![t] = "running"]
      /\ cur' = [cur EXCEPT ![t] = h] /\ queue' = [queue EXCEPT ![t] = tl]
      /\ req' = [req EXCEPT ![h].st = "active"]
      /\ win' = win /\ level' = level /\ looping' = looping /\ stack' = stack
      /\ refused' = refused /\ marshals' = marshals /\ quit' = quit /\ inFlight' = inFlight
  BY DEF Take, gui
<1>2. /\ n \in Nat /\ n # 0 /\ n = Len(queue[t]) /\ h = queue[t][1] /\ h \in Req
      /\ tl \in Seq(Req) /\ Len(tl) = n - 1
      /\ \A i \in 1..(n - 1) : tl[i] = queue[t][i + 1]
  <2>1. queue[t] \in Seq(Req)
    BY DEF TypeOK
  <2> QED
    BY <1>1, <2>1, TailFacts
<1> HIDE DEF h, tl, n
<1>3. /\ req' \in [Req -> Request]
      /\ req'[h].st = "active" /\ req'[h].to = req[h].to /\ req'[h].out = req[h].out
      /\ req'[h].kind = req[h].kind /\ \A r \in Req : r # h => req'[r] = req[r]
  BY <1>1, <1>2, StSet DEF ReqSt
<1>4. /\ thr'[t] = "running" /\ cur'[t] = h /\ queue'[t] = tl
      /\ \A u \in Thread : u # t => thr'[u] = thr[u] /\ cur'[u] = cur[u] /\ queue'[u] = queue[u]
  BY <1>1 DEF TypeOK
<1>5. TypeOK'
  <2>1. queue' \in [Thread -> Seq(Req)] /\ cur' \in [Thread -> Req \cup {NoReq}]
    BY <1>1, <1>2 DEF TypeOK
  <2>2. thr' \in [Thread -> {"none", "idle", "running", "checked", "parked", "returning",
                           "exited"}]
    BY <1>1 DEF TypeOK
  <2> QED
    BY <1>1, <1>3, <2>1, <2>2 DEF TypeOK, Request, ReqSt, Outs
<1>6. req[h].st = "queued" /\ req[h].to = t
  <2>1. 1 \in 1..Len(queue[t])
    BY <1>2
  <2> QED
    BY <1>1, <1>2, <2>1 DEF JobsOwned
<1>7. JobsOwned'
  <2>1. ASSUME NEW u \in Thread, thr'[u] \in InJob
        PROVE  cur'[u] \in Req /\ req'[cur'[u]].st = "active" /\ req'[cur'[u]].to = u
    <3>1. CASE u = t
      BY <1>2, <1>4, <1>3, <1>6, <3>1
    <3>2. CASE u # t
      <4>1. cur[u] \in Req /\ req[cur[u]].st = "active" /\ req[cur[u]].to = u
        BY <1>4, <2>1, <3>2 DEF JobsOwned
      <4> QED
        BY <1>4, <1>3, <1>6, <3>2, <4>1
    <3> QED
      BY <3>1, <3>2
  <2>2. ASSUME NEW u \in Thread, thr'[u] \in {"checked", "parked"}
        PROVE  Reads(u)'
    <3>1. u # t
      BY <1>4, <2>2
    <3>2. cur[u] \in Req /\ req[cur[u]].st = "active" /\ Reads(u)
      BY <1>4, <2>2, <3>1 DEF JobsOwned, InJob
    <3> QED
      BY <1>4, <1>3, <1>6, <3>1, <3>2 DEF Reads
  <2>3. ASSUME NEW u \in Thread, thr'[u] # "exited", NEW i \in 1..Len(queue'[u])
        PROVE  req'[queue'[u][i]].st = "queued" /\ req'[queue'[u][i]].to = u
    <3>0. \A v \in Thread : \A j \in 1..Len(queue[v]) : queue[v][j] \in Req
      BY DEF TypeOK
    <3>1. CASE u = t
      <4>1. i + 1 \in 1..Len(queue[t]) /\ queue'[u][i] = queue[t][i + 1] /\ 1 \in 1..Len(queue[t])
            /\ i + 1 # 1
        <5>1. i \in 1..(n - 1) /\ queue'[u][i] = tl[i]
          BY <1>2, <1>4, <2>3, <3>1
        <5> QED
          BY <1>2, <5>1
      <4>2. queue[t][i + 1] # h
        BY <1>2, <4>1 DEF JobsOwned
      <4>3. req[queue[t][i + 1]].st = "queued" /\ req[queue[t][i + 1]].to = t
        BY <1>1, <4>1 DEF JobsOwned
      <4> QED
        BY <1>3, <3>0, <3>1, <4>1, <4>2, <4>3
    <3>2. CASE u # t
      <4>1. queue'[u] = queue[u] /\ req[queue[u][i]].st = "queued" /\ req[queue[u][i]].to = u
            /\ i \in 1..Len(queue[u])
        BY <1>4, <2>3, <3>2 DEF JobsOwned
      <4> QED
        BY <1>3, <1>6, <3>0, <3>2, <4>1
    <3> QED
      BY <3>1, <3>2
  <2>4. ASSUME NEW u \in Thread, NEW i \in 1..Len(queue'[u]), NEW j \in 1..Len(queue'[u]),
               queue'[u][i] = queue'[u][j]
        PROVE  i = j
    <3>1. CASE u = t
      <4>1. i + 1 \in 1..Len(queue[t]) /\ queue'[u][i] = queue[t][i + 1]
            /\ j + 1 \in 1..Len(queue[t]) /\ queue'[u][j] = queue[t][j + 1]
        <5>1. i \in 1..(n - 1) /\ queue'[u][i] = tl[i] /\ j \in 1..(n - 1) /\ queue'[u][j] = tl[j]
          BY <1>2, <1>4, <2>4, <3>1
        <5> QED
          BY <1>2, <5>1
      <4>2. i + 1 = j + 1
        <5>1. queue[t][i + 1] = queue[t][j + 1]
          BY <2>4, <4>1
        <5>2. \A k, m \in 1..Len(queue[t]) : queue[t][k] = queue[t][m] => k = m
          BY DEF JobsOwned
        <5> QED
          BY <4>1, <5>1, <5>2
      <4> QED
        BY <1>2, <1>4, <3>1, <4>2
    <3>2. CASE u # t
      BY <1>4, <2>4, <3>2 DEF JobsOwned
    <3> QED
      BY <3>1, <3>2
  <2>5. \A u \in Thread : thr'[u] = "none" => queue'[u] = <<>>
    BY <1>4 DEF JobsOwned
  <2>6. \A r \in Req : req'[r].kind = "prompt" => req'[r].to[1] \in Prompter
    BY <1>2, <1>3 DEF JobsOwned
  <2> QED
    BY <2>1, <2>2, <2>3, <2>4, <2>5, <2>6 DEF JobsOwned
<1>8. Counted'
  <2>1. \A u \in Thread : Load(u)' = Load(u)
    <3>1. Load(t) = n + 0
      BY <1>1, <1>2 DEF Load, InJob
    <3>2. Load(t)' = (n - 1) + 1
      BY <1>2, <1>4 DEF Load, InJob
    <3>3. \A u \in Thread : u # t => Load(u)' = Load(u)
      BY <1>4 DEF Load
    <3> QED
      BY <1>2, <3>1, <3>2, <3>3
  <2> QED
    BY <1>1, <2>1, CountSame
<1>9. CallsOwned'
  BY <1>1, <1>4, CallsSame
<1>10. JoinsOwned' /\ RefusalsOwned'
  BY <1>1, <1>4, JoinsSame, RefusalsSame DEF Ended
<1>11. QuitOwned'
  BY <1>1, <1>4, QuitSame
<1>12. OwnRefusalsOnly'
  BY <1>1, <1>2, <1>3, OutSame
<1> QED
  BY <1>5, <1>7, <1>8, <1>9, <1>10, <1>11, <1>12 DEF MInv

\* A worker told to quit ends between two jobs.
LEMMA ExitMInv ==
  ASSUME MInv, NEW t \in Thread, Exit(t)
  PROVE  MInv'
<1> TypeOK /\ JobsOwned /\ Counted /\ CallsOwned /\ JoinsOwned /\ RefusalsOwned
    /\ QuitOwned /\ OwnRefusalsOnly
  BY DEF MInv
<1>1. /\ thr[t] = "idle" /\ t \in quit /\ thr' = [thr EXCEPT ![t] = "exited"]
      /\ win' = win /\ level' = level /\ looping' = looping /\ stack' = stack
      /\ refused' = refused /\ marshals' = marshals /\ quit' = quit /\ inFlight' = inFlight
      /\ queue' = queue /\ cur' = cur /\ req' = req
  BY DEF Exit, gui
<1>2. thr'[t] = "exited" /\ \A u \in Thread : u # t => thr'[u] = thr[u]
  BY <1>1 DEF TypeOK
<1>3. TypeOK'
  <2>1. thr' \in [Thread -> {"none", "idle", "running", "checked", "parked", "returning",
                           "exited"}]
    BY <1>1 DEF TypeOK
  <2> QED
    BY <1>1, <2>1 DEF TypeOK
<1>4. JobsOwned'
  BY <1>1, <1>2 DEF JobsOwned, Reads, InJob
<1>5. Counted'
  <2>1. \A u \in Thread : Load(u)' = Load(u)
    BY <1>1, <1>2 DEF Load, InJob
  <2> QED
    BY <1>1, <2>1, CountSame
<1>6. CallsOwned'
  BY <1>1, <1>2, CallsSame
<1>7. JoinsOwned' /\ RefusalsOwned'
  BY <1>1, <1>2, JoinsSame, RefusalsSame DEF Ended
<1>8. QuitOwned'
  BY <1>1, <1>2 DEF QuitOwned
<1>9. OwnRefusalsOnly'
  BY <1>1, OutSame
<1> QED
  BY <1>3, <1>4, <1>5, <1>6, <1>7, <1>8, <1>9 DEF MInv

\* The job of a worker is told the outcome of its call, or is over: the jobs of the
\* other workers, posted or taken, are not touched.
LEMMA OneJob ==
  ASSUME TypeOK, JobsOwned, NEW t \in Thread, thr[t] \in InJob, UNCHANGED <<queue, cur>>,
         req' \in [Req -> Request], \A r \in Req : r # cur[t] => req'[r] = req[r],
         req'[cur[t]].to = req[cur[t]].to, req'[cur[t]].kind = req[cur[t]].kind,
         \A u \in Thread : u # t => thr'[u] = thr[u],
         thr'[t] \in {"running", "returning"},
         thr'[t] = "running" => req'[cur[t]].st = req[cur[t]].st
  PROVE  JobsOwned'
<1>1. cur[t] \in Req /\ req[cur[t]].st = "active" /\ req[cur[t]].to = t
  BY DEF JobsOwned
<1>2. ASSUME NEW u \in Thread, thr'[u] \in InJob
      PROVE  cur'[u] \in Req /\ req'[cur'[u]].st = "active" /\ req'[cur'[u]].to = u
  <2>1. CASE u = t
    BY <1>1, <1>2, <2>1 DEF InJob
  <2>2. CASE u # t
    <3>1. cur[u] \in Req /\ req[cur[u]].st = "active" /\ req[cur[u]].to = u
      BY <1>2, <2>2 DEF JobsOwned
    <3> QED
      BY <1>1, <2>2, <3>1
  <2> QED
    BY <2>1, <2>2
<1>3. ASSUME NEW u \in Thread, thr'[u] \in {"checked", "parked"}
      PROVE  Reads(u)'
  <2>1. u # t
    BY <1>3
  <2>2. cur[u] \in Req /\ req[cur[u]].to = u /\ Reads(u)
    BY <1>3, <2>1 DEF JobsOwned, InJob
  <2> QED
    BY <1>1, <2>1, <2>2 DEF Reads
<1>4. ASSUME NEW u \in Thread, thr'[u] # "exited", NEW i \in 1..Len(queue'[u])
      PROVE  req'[queue'[u][i]].st = "queued" /\ req'[queue'[u][i]].to = u
  <2>1. thr[u] # "exited" /\ queue'[u] = queue[u]
    BY <1>4 DEF InJob
  <2>2. queue[u][i] \in Req /\ req[queue[u][i]].st = "queued" /\ req[queue[u][i]].to = u
    BY <2>1 DEF JobsOwned, TypeOK
  <2> QED
    BY <1>1, <2>1, <2>2
<1>5. \A u \in Thread : \A i, j \in 1..Len(queue'[u]) : queue'[u][i] = queue'[u][j] => i = j
  BY DEF JobsOwned
<1>6. \A u \in Thread : thr'[u] = "none" => queue'[u] = <<>>
  BY DEF JobsOwned
<1>7. \A r \in Req : req'[r].kind = "prompt" => req'[r].to[1] \in Prompter
  BY <1>1 DEF JobsOwned
<1> QED
  BY <1>2, <1>3, <1>4, <1>5, <1>6, <1>7 DEF JobsOwned

\* onGuiThread tests the caller; a refusal is the caller's own window's.
LEMMA CheckMInv ==
  ASSUME MInv, NEW t \in Thread, Check(t)
  PROVE  MInv'
<1> TypeOK /\ JobsOwned /\ Counted /\ CallsOwned /\ JoinsOwned /\ RefusalsOwned
    /\ QuitOwned /\ OwnRefusalsOnly
  BY DEF MInv
<1>1. /\ thr[t] = "running" /\ Reads(t)
      /\ win' = win /\ level' = level /\ looping' = looping /\ stack' = stack
      /\ refused' = refused /\ marshals' = marshals /\ quit' = quit /\ inFlight' = inFlight
      /\ queue' = queue /\ cur' = cur
  BY DEF Check, gui
<1>2. cur[t] \in Req /\ req[cur[t]].st = "active" /\ req[cur[t]].to = t
  BY <1>1 DEF JobsOwned, InJob
<1>3. CASE t \in refused
  <2>1. thr' = thr /\ req' = [req EXCEPT ![cur[t]].out = "nullopt"]
    BY <1>3 DEF Check, guiMarshalRefused
  <2>2. /\ req' \in [Req -> Request] /\ req'[cur[t]].out = "nullopt"
        /\ req'[cur[t]].to = t /\ req'[cur[t]].kind = req[cur[t]].kind
        /\ req'[cur[t]].st = req[cur[t]].st /\ \A r \in Req : r # cur[t] => req'[r] = req[r]
    BY <1>2, <2>1, OutSet DEF Outs
  <2>3. TypeOK'
    BY <1>1, <2>1, <2>2 DEF TypeOK, Request, ReqSt, Outs
  <2>4. JobsOwned'
    BY <1>1, <1>2, <2>1, <2>2, OneJob DEF InJob
  <2>5. Counted'
    BY <1>1, <2>1, CountSame DEF Load
  <2>6. CallsOwned' /\ JoinsOwned' /\ RefusalsOwned' /\ QuitOwned'
    BY <1>1, <2>1, CallsSame, JoinsSame, RefusalsSame, QuitSame
  <2>7. OwnRefusalsOnly'
    BY <1>1, <1>2, <1>3, <2>2 DEF OwnRefusalsOnly, RefusalsOwned
  <2> QED
    BY <2>3, <2>4, <2>5, <2>6, <2>7 DEF MInv
<1>4. CASE t \notin refused
  <2>1. req' = req /\ thr' = [thr EXCEPT ![t] = "checked"]
    BY <1>4 DEF Check, guiMarshalRefused
  <2>2. thr'[t] = "checked" /\ \A u \in Thread : u # t => thr'[u] = thr[u]
    BY <2>1 DEF TypeOK
  <2>3. TypeOK'
    <3>1. thr' \in [Thread -> {"none", "idle", "running", "checked", "parked", "returning",
                             "exited"}]
      BY <2>1 DEF TypeOK
    <3> QED
      BY <1>1, <2>1, <3>1 DEF TypeOK
  <2>4. JobsOwned'
    BY <1>1, <2>1, <2>2 DEF JobsOwned, Reads, InJob
  <2>5. Counted'
    <3>1. \A u \in Thread : Load(u)' = Load(u)
      BY <1>1, <2>2 DEF Load, InJob
    <3> QED
      BY <1>1, <3>1, CountSame
  <2>6. CallsOwned' /\ JoinsOwned' /\ RefusalsOwned' /\ QuitOwned'
    BY <1>1, <2>2, CallsSame, JoinsSame, RefusalsSame, QuitSame DEF Ended
  <2>7. OwnRefusalsOnly'
    BY <1>1, <2>1, OutSame
  <2> QED
    BY <2>3, <2>4, <2>5, <2>6, <2>7 DEF MInv
<1> QED
  BY <1>3, <1>4

\* The handler has returned and the reply is posted.
LEMMA PostedMInv ==
  ASSUME MInv, NEW t \in Thread, postToolDispatch(t)
  PROVE  MInv'
<1> TypeOK /\ JobsOwned /\ Counted /\ CallsOwned /\ JoinsOwned /\ RefusalsOwned
    /\ QuitOwned /\ OwnRefusalsOnly
  BY DEF MInv
<1>1. /\ thr[t] = "running" /\ thr' = [thr EXCEPT ![t] = "returning"]
      /\ req' = [req EXCEPT ![cur[t]].st = "posted"]
      /\ win' = win /\ level' = level /\ looping' = looping /\ stack' = stack
      /\ refused' = refused /\ marshals' = marshals /\ quit' = quit /\ inFlight' = inFlight
      /\ queue' = queue /\ cur' = cur
  BY DEF postToolDispatch, gui
<1>2. cur[t] \in Req /\ req[cur[t]].st = "active" /\ req[cur[t]].to = t
  BY <1>1 DEF JobsOwned, InJob
<1>3. thr'[t] = "returning" /\ \A u \in Thread : u # t => thr'[u] = thr[u]
  BY <1>1 DEF TypeOK
<1>4. /\ req' \in [Req -> Request] /\ req'[cur[t]].out = req[cur[t]].out
      /\ req'[cur[t]].to = req[cur[t]].to /\ req'[cur[t]].kind = req[cur[t]].kind
      /\ \A r \in Req : r # cur[t] => req'[r] = req[r]
  BY <1>1, <1>2, StSet DEF ReqSt
<1>5. TypeOK'
  <2>1. thr' \in [Thread -> {"none", "idle", "running", "checked", "parked", "returning",
                           "exited"}]
    BY <1>1 DEF TypeOK
  <2> QED
    BY <1>1, <1>4, <2>1 DEF TypeOK, Request, ReqSt, Outs
<1>6. JobsOwned'
  BY <1>1, <1>3, <1>4, OneJob DEF InJob
<1>7. Counted'
  <2>1. \A u \in Thread : Load(u)' = Load(u)
    BY <1>1, <1>3 DEF Load, InJob
  <2> QED
    BY <1>1, <2>1, CountSame
<1>8. CallsOwned' /\ JoinsOwned' /\ RefusalsOwned' /\ QuitOwned'
  BY <1>1, <1>3, CallsSame, JoinsSame, RefusalsSame, QuitSame DEF Ended
<1>9. OwnRefusalsOnly'
  BY <1>1, <1>2, <1>4, OutSame
<1> QED
  BY <1>5, <1>6, <1>7, <1>8, <1>9 DEF MInv

\* The count is lowered once, for the job that has returned.
LEMMA ReturnMInv ==
  ASSUME MInv, NEW t \in Thread, Return(t)
  PROVE  MInv'
<1> TypeOK /\ JobsOwned /\ Counted /\ CallsOwned /\ JoinsOwned /\ RefusalsOwned
    /\ QuitOwned /\ OwnRefusalsOnly
  BY DEF MInv
<1>1. /\ thr[t] = "returning" /\ thr' = [thr EXCEPT ![t] = "idle"]
      /\ cur' = [cur EXCEPT ![t] = NoReq]
      /\ inFlight' = [inFlight EXCEPT ![t[1]] = @ - 1]
      /\ win' = win /\ level' = level /\ looping' = looping /\ stack' = stack
      /\ refused' = refused /\ marshals' = marshals /\ quit' = quit
      /\ queue' = queue /\ req' = req
  BY DEF Return, gui
<1>2. /\ thr'[t] = "idle"
      /\ \A u \in Thread : u # t => thr'[u] = thr[u] /\ cur'[u] = cur[u]
  BY <1>1 DEF TypeOK
<1>3. t[1] \in Window /\ inFlight[t[1]] \in Nat /\ inFlight[t[1]] # 0 /\ inFlight[t[1]] <= Cap
  <2>1. t[1] \in Window /\ t[2] \in Lane /\ t = <<t[1], t[2]>>
    BY ThreadFacts
  <2>2. inFlight[t[1]] \in Nat
    BY <2>1 DEF TypeOK
  <2>3. \A u \in Thread : Load(u) \in Nat
    BY DEF TypeOK, Load
  <2>4. Load(t) # 0
    BY <1>1 DEF Load, TypeOK, InJob
  <2>5. <<t[1], "shared">> \in Thread /\ <<t[1], "bulk">> \in Thread
    BY <2>1, LaneFacts
  <2>6. inFlight[t[1]] = Load(<<t[1], "shared">>) + Load(<<t[1], "bulk">>)
        /\ inFlight[t[1]] <= Cap
    BY <2>1 DEF Counted
  <2>7. t = <<t[1], "shared">> \/ t = <<t[1], "bulk">>
    BY <2>1, LaneFacts
  <2> HIDE DEF Load
  <2>8. Load(<<t[1], "shared">>) # 0 \/ Load(<<t[1], "bulk">>) # 0
    BY <2>4, <2>7
  <2> QED
    BY <2>1, <2>2, <2>3, <2>5, <2>6, <2>8
<1>4. TypeOK'
  <2>1. thr' \in [Thread -> {"none", "idle", "running", "checked", "parked", "returning",
                           "exited"}]
        /\ cur' \in [Thread -> Req \cup {NoReq}]
    BY <1>1 DEF TypeOK
  <2>2. inFlight' \in [Window -> Nat]
    BY <1>1, <1>3 DEF TypeOK
  <2> QED
    BY <1>1, <2>1, <2>2 DEF TypeOK
<1>5. JobsOwned'
  BY <1>1, <1>2 DEF JobsOwned, Reads, InJob
<1>6. Counted'
  <2>1. \A u \in Thread : u # t => Load(u)' = Load(u)
    BY <1>1, <1>2 DEF Load
  <2>2. Len(queue[t]) \in Nat /\ Load(t) = Len(queue[t]) + 1 /\ Load(t)' = Len(queue[t]) + 0
    BY <1>1, <1>2 DEF Load, InJob, TypeOK
  <2>3. Load(t)' = Load(t) + (-1) /\ inFlight[t[1]] + (-1) <= Cap
    BY <1>3, <2>2, DispatchAssumption
  <2>4. inFlight' = [inFlight EXCEPT ![t[1]] = @ + (-1)]
    BY <1>1, <1>3 DEF TypeOK
  <2>5. \A u \in Thread : Len(queue'[u]) \in Nat
    BY <1>4 DEF TypeOK
  <2> DEFINE d == -1
  <2>6. d \in Int /\ Load(t)' = Load(t) + d /\ inFlight[t[1]] + d <= Cap
        /\ inFlight' = [inFlight EXCEPT ![t[1]] = @ + d]
    BY <2>3, <2>4
  <2> HIDE DEF d
  <2> QED
    BY <2>1, <2>5, <2>6, CountStep
<1>7. CallsOwned' /\ JoinsOwned' /\ RefusalsOwned' /\ QuitOwned'
  BY <1>1, <1>2, CallsSame, JoinsSame, RefusalsSame, QuitSame DEF Ended
<1>8. OwnRefusalsOnly'
  BY <1>1, OutSame
<1> QED
  BY <1>4, <1>5, <1>6, <1>7, <1>8 DEF MInv

\* The worker parks behind its queued call.
LEMMA ParkMInv ==
  ASSUME MInv, NEW t \in Thread, onGuiThread(t)
  PROVE  MInv'
<1> TypeOK /\ JobsOwned /\ Counted /\ CallsOwned /\ JoinsOwned /\ RefusalsOwned
    /\ QuitOwned /\ OwnRefusalsOnly
  BY DEF MInv
<1> DEFINE m == Append(marshals, t)
           n == Len(marshals)
<1>1. /\ thr[t] = "checked" /\ thr' = [thr EXCEPT ![t] = "parked"] /\ marshals' = m
      /\ win' = win /\ level' = level /\ looping' = looping /\ stack' = stack
      /\ refused' = refused /\ quit' = quit /\ inFlight' = inFlight
      /\ queue' = queue /\ cur' = cur /\ req' = req
  BY DEF onGuiThread, gui
<1>2. thr'[t] = "parked" /\ \A u \in Thread : u # t => thr'[u] = thr[u]
  BY <1>1 DEF TypeOK
<1>3. /\ m \in Seq(Thread) /\ n \in Nat /\ n = Len(marshals) /\ Len(m) = n + 1
      /\ m[n + 1] = t /\ \A i \in 1..n : m[i] = marshals[i]
  <2>1. marshals \in Seq(Thread)
    BY DEF TypeOK
  <2> QED
    BY <2>1, AppendFacts
<1> HIDE DEF m, n
<1>4. TypeOK'
  <2>1. thr' \in [Thread -> {"none", "idle", "running", "checked", "parked", "returning",
                           "exited"}]
    BY <1>1 DEF TypeOK
  <2> QED
    BY <1>1, <1>3, <2>1 DEF TypeOK
<1>5. JobsOwned'
  BY <1>1, <1>2 DEF JobsOwned, Reads, InJob
<1>6. Counted'
  <2>1. \A u \in Thread : Load(u)' = Load(u)
    BY <1>1, <1>2 DEF Load, InJob
  <2> QED
    BY <1>1, <2>1, CountSame
<1>7. CallsOwned'
  <2>1. \A i \in 1..n : marshals[i] \in Thread /\ thr[marshals[i]] = "parked" /\ marshals[i] # t
    BY <1>1, <1>3 DEF CallsOwned, TypeOK
  <2>2. \A i \in 1..Len(stack) : stack[i][2] \in Thread
    BY FrameFacts DEF TypeOK, Frame
  <2>3. \A i \in 1..Len(m) : i \in 1..n \/ i = n + 1
    BY <1>3
  <2>4. \A i \in 1..Len(m) : thr'[m[i]] = "parked"
    BY <1>2, <1>3, <2>1, <2>3
  <2>5. \A i, j \in 1..Len(m) : m[i] = m[j] => i = j
    BY <1>3, <2>1, <2>3 DEF CallsOwned
  <2>6. ASSUME NEW i \in 1..Len(stack), stack[i][1] = "prompt"
        PROVE  /\ thr'[stack[i][2]] = "parked" /\ stack[i][2][1] \in Prompter
               /\ \A j \in 1..Len(m) : m[j] # stack[i][2]
    <3>1. thr[stack[i][2]] = "parked" /\ stack[i][2][1] \in Prompter
          /\ \A j \in 1..n : marshals[j] # stack[i][2]
      BY <1>3, <2>6 DEF CallsOwned
    <3>2. stack[i][2] # t
      BY <1>1, <3>1
    <3> QED
      BY <1>2, <1>3, <2>2, <2>3, <3>1, <3>2
  <2>7. ASSUME NEW u \in Thread, thr'[u] = "parked"
        PROVE  \/ \E i \in 1..Len(m) : m[i] = u
               \/ \E i \in 1..Len(stack) : stack[i][1] = "prompt" /\ stack[i][2] = u
    <3>1. CASE u = t
      <4>1. n + 1 \in 1..Len(m)
        BY <1>3
      <4> QED
        BY <1>3, <3>1, <4>1
    <3>2. CASE u # t
      <4>1. \/ \E i \in 1..n : marshals[i] = u
            \/ \E i \in 1..Len(stack) : stack[i][1] = "prompt" /\ stack[i][2] = u
        BY <1>2, <1>3, <2>7, <3>2 DEF CallsOwned
      <4>2. \A i \in 1..n : i \in 1..Len(m)
        BY <1>3
      <4> QED
        BY <1>3, <4>1, <4>2
    <3> QED
      BY <3>1, <3>2
  <2>8. \A i, j \in 1..Len(stack) :
          (stack[i][1] = "prompt" /\ stack[j][1] = "prompt" /\ stack[i][2] = stack[j][2]) => i = j
    BY DEF CallsOwned
  <2> QED
    BY <1>1, <2>4, <2>5, <2>6, <2>7, <2>8 DEF CallsOwned
<1>8. JoinsOwned' /\ RefusalsOwned' /\ QuitOwned'
  BY <1>1, <1>2, JoinsSame, RefusalsSame, QuitSame DEF Ended
<1>9. OwnRefusalsOnly'
  BY <1>1, OutSame
<1> QED
  BY <1>4, <1>5, <1>6, <1>7, <1>8, <1>9 DEF MInv

-----------------------------------------------------------------------------
(* Requests. *)

\* A request nobody works on.
LEMMA BlankFacts ==
  ASSUME NEW end \in ReqSt
  PROVE  /\ Blank(end) \in Request /\ Blank(end).st = end /\ Blank(end).out = "none"
         /\ Blank(end).kind = "plain"
<1>1. <<Main, "shared">> \in Thread
  BY DispatchAssumption DEF Thread, Lane
<1> QED
  BY <1>1 DEF Blank, Request, Outs, Kind

\* A request no worker holds is settled.
LEMMA SettleMInv ==
  ASSUME MInv, NEW r \in Req, req[r].st \in {"unsent", "posted"}, NEW end \in ReqSt,
         req' = [req EXCEPT ![r] = Blank(end)],
         UNCHANGED <<win, level, looping, stack, refused, marshals, thr, quit, queue, cur,
                     inFlight>>
  PROVE  MInv'
<1> TypeOK /\ JobsOwned /\ Counted /\ CallsOwned /\ JoinsOwned /\ RefusalsOwned
    /\ QuitOwned /\ OwnRefusalsOnly
  BY DEF MInv
<1>1. /\ req' \in [Req -> Request] /\ req'[r].out = "none" /\ req'[r].kind = "plain"
      /\ \A q \in Req : q # r => req'[q] = req[q]
  BY BlankFacts, RequestSet
<1>2. TypeOK'
  BY <1>1 DEF TypeOK, Request, ReqSt, Outs
<1>3. JobsOwned'
  <2>1. \A u \in Thread : thr[u] \in InJob => cur[u] # r
    BY DEF JobsOwned
  <2>2. \A u \in Thread : thr[u] # "exited" => \A i \in 1..Len(queue[u]) : queue[u][i] # r
    BY DEF JobsOwned
  <2>3. \A u \in Thread : \A i \in 1..Len(queue[u]) : queue[u][i] \in Req
    BY DEF TypeOK
  <2>4. \A u \in Thread : thr[u] \in InJob =>
          cur[u] \in Req /\ req'[cur[u]].st = "active" /\ req'[cur[u]].to = u
    BY <1>1, <2>1 DEF JobsOwned
  <2>5. \A u \in Thread : thr[u] \in {"checked", "parked"} => Reads(u)'
    BY <1>1, <2>1, <2>4 DEF JobsOwned, Reads, InJob
  <2>6. \A u \in Thread : thr[u] # "exited" => \A i \in 1..Len(queue[u]) :
          req'[queue[u][i]].st = "queued" /\ req'[queue[u][i]].to = u
    BY <1>1, <2>2, <2>3 DEF JobsOwned
  <2>7. \A q \in Req : req'[q].kind = "prompt" => req'[q].to[1] \in Prompter
    BY <1>1 DEF JobsOwned
  <2> QED
    BY <2>4, <2>5, <2>6, <2>7 DEF JobsOwned
<1>4. Counted'
  BY CountSame DEF Load
<1>5. CallsOwned' /\ JoinsOwned' /\ RefusalsOwned' /\ QuitOwned'
  BY CallsSame, JoinsSame, RefusalsSame, QuitSame
<1>6. OwnRefusalsOnly'
  BY <1>1, OutSame
<1> QED
  BY <1>2, <1>3, <1>4, <1>5, <1>6 DEF MInv

\* The reply is sent, or the client has left.
LEMMA FinishMInv ==
  ASSUME MInv, NEW r \in Req, finishToolDispatch(r)
  PROVE  MInv'
<1>1. PICK end \in {"answered", "dropped"} : req' = [req EXCEPT ![r] = Blank(end)]
  BY DEF finishToolDispatch
<1>2. /\ req[r].st = "posted"
      /\ UNCHANGED <<win, level, looping, stack, refused, marshals, thr, quit, queue, cur, inFlight>>
  BY DEF finishToolDispatch, gui, worker
<1>3. end \in ReqSt
  BY DEF ReqSt
<1> QED
  BY <1>1, <1>2, <1>3, SettleMInv

\* A job is posted to a worker that runs, the first one starting it.
LEMMA PostMInv ==
  ASSUME MInv, NEW r \in Req, req[r].st = "unsent", NEW w \in Window, NEW k \in Kind,
         NEW l \in Lane, k = "prompt" => w \in Prompter, win[w] # "gone", accepts(w),
         postWorkerJob(r, <<w, l>>),
         req' = [req EXCEPT ![r] = [st |-> "queued", to |-> <<w, l>>, kind |-> k,
                                    out |-> "none"]],
         UNCHANGED <<win, level, looping, stack, refused, marshals, quit, cur>>
  PROVE  MInv' /\ thr[<<w, l>>] # "exited"
<1> TypeOK /\ JobsOwned /\ Counted /\ CallsOwned /\ JoinsOwned /\ RefusalsOwned
    /\ QuitOwned /\ OwnRefusalsOnly
  BY DEF MInv
<1> DEFINE t == <<w, l>>
           x == [st |-> "queued", to |-> t, kind |-> k, out |-> "none"]
           q == Append(queue[t], r)
           n == Len(queue[t])
<1>1. t \in Thread /\ t[1] = w
  BY DEF Thread
<1>2. /\ win[t[1]] \notin Down /\ inFlight[t[1]] < Cap
      /\ thr' = [thr EXCEPT ![t] = IF @ = "none" THEN "idle" ELSE @]
      /\ queue' = [queue EXCEPT ![t] = q]
      /\ inFlight' = [inFlight EXCEPT ![t[1]] = @ + 1] /\ req' = [req EXCEPT ![r] = x]
  BY <1>1 DEF accepts, postWorkerJob, Down
<1>3. x \in Request /\ x.st = "queued" /\ x.to = t /\ x.kind = k /\ x.out = "none"
  BY <1>1 DEF Request, ReqSt, Outs
<1>4. /\ q \in Seq(Req) /\ n \in Nat /\ n = Len(queue[t]) /\ Len(q) = n + 1
      /\ q[n + 1] = r /\ \A i \in 1..n : q[i] = queue[t][i]
  <2>1. queue[t] \in Seq(Req)
    BY <1>1 DEF TypeOK
  <2> QED
    BY <2>1, AppendFacts
<1>5. k = "prompt" => t[1] \in Prompter
  BY <1>1
<1>20. t = <<w, l>>
  OBVIOUS
<1> HIDE DEF t, x, q, n
<1>6. req' \in [Req -> Request] /\ req'[r] = x /\ \A p \in Req : p # r => req'[p] = req[p]
  BY <1>2, <1>3, RequestSet
<1>7. thr[t] # "exited"
  BY <1>1, <1>2 DEF QuitOwned
<1>8. /\ queue'[t] = q /\ thr'[t] = (IF thr[t] = "none" THEN "idle" ELSE thr[t])
      /\ \A u \in Thread : u # t => thr'[u] = thr[u] /\ queue'[u] = queue[u]
  BY <1>1, <1>2 DEF TypeOK
<1>9. TypeOK'
  <2>1. thr' \in [Thread -> {"none", "idle", "running", "checked", "parked", "returning",
                           "exited"}]
    BY <1>1, <1>2 DEF TypeOK
  <2>2. queue' \in [Thread -> Seq(Req)]
    BY <1>1, <1>2, <1>4 DEF TypeOK
  <2>3. inFlight' \in [Window -> Nat]
    BY <1>1, <1>2 DEF TypeOK
  <2> QED
    BY <1>6, <2>1, <2>2, <2>3 DEF TypeOK, Request, ReqSt, Outs
<1>10. \A u \in Thread : /\ thr'[u] \in InJob => thr[u] \in InJob
                         /\ thr'[u] \in {"checked", "parked"} <=> thr[u] \in {"checked", "parked"}
                         /\ thr'[u] = "parked" <=> thr[u] = "parked"
                         /\ thr'[u] = "exited" => thr[u] = "exited"
  BY <1>8 DEF InJob
<1>11. JobsOwned'
  <2>1. \A u \in Thread : thr'[u] \in InJob =>
          cur[u] \in Req /\ cur[u] # r /\ req'[cur[u]].st = "active" /\ req'[cur[u]].to = u
    BY <1>6, <1>10 DEF JobsOwned
  <2>2. \A u \in Thread : thr'[u] \in {"checked", "parked"} => Reads(u)'
    BY <1>6, <1>10, <2>1 DEF JobsOwned, Reads, InJob
  <2>3. ASSUME NEW u \in Thread, thr'[u] # "exited", NEW i \in 1..Len(queue'[u])
        PROVE  req'[queue'[u][i]].st = "queued" /\ req'[queue'[u][i]].to = u
    <3>0. ASSUME NEW v \in Thread, thr[v] # "exited", NEW j \in 1..Len(queue[v])
          PROVE  queue[v][j] \in Req /\ queue[v][j] # r /\ req[queue[v][j]].st = "queued"
                 /\ req[queue[v][j]].to = v
      <4>1. queue[v][j] \in Req
        BY DEF TypeOK
      <4>2. req[queue[v][j]].st = "queued" /\ req[queue[v][j]].to = v
        BY <3>0 DEF JobsOwned
      <4> QED
        BY <4>1, <4>2
    <3>1. CASE u = t
      <4>1. i \in 1..n \/ i = n + 1
        BY <1>4, <1>8, <3>1
      <4>2. CASE i \in 1..n
        BY <1>1, <1>4, <1>6, <1>7, <1>8, <3>0, <3>1, <4>2
      <4>3. CASE i = n + 1
        BY <1>3, <1>4, <1>6, <1>8, <3>1, <4>3
      <4> QED
        BY <4>1, <4>2, <4>3
    <3>2. CASE u # t
      BY <1>6, <1>8, <2>3, <3>0, <3>2
    <3> QED
      BY <3>1, <3>2
  <2>4. ASSUME NEW u \in Thread, NEW i \in 1..Len(queue'[u]), NEW j \in 1..Len(queue'[u]),
               queue'[u][i] = queue'[u][j]
        PROVE  i = j
    <3>1. CASE u = t
      <4>1. (i \in 1..n \/ i = n + 1) /\ (j \in 1..n \/ j = n + 1) /\ q[i] = q[j]
        BY <1>4, <1>8, <2>4, <3>1
      <4>2. \A m \in 1..n : queue[t][m] # r
        BY <1>1, <1>4, <1>7 DEF JobsOwned
      <4>3. \A a, b \in 1..n : queue[t][a] = queue[t][b] => a = b
        BY <1>1, <1>4 DEF JobsOwned
      <4> QED
        BY <1>4, <4>1, <4>2, <4>3
    <3>2. CASE u # t
      BY <1>8, <2>4, <3>2 DEF JobsOwned
    <3> QED
      BY <3>1, <3>2
  <2>5. \A u \in Thread : thr'[u] = "none" => queue'[u] = <<>>
    BY <1>8 DEF JobsOwned
  <2>6. \A p \in Req : req'[p].kind = "prompt" => req'[p].to[1] \in Prompter
    BY <1>3, <1>5, <1>6 DEF JobsOwned
  <2> QED
    BY <2>1, <2>2, <2>3, <2>4, <2>5, <2>6 DEF JobsOwned
<1>12. Counted'
  <2>1. \A u \in Thread : u # t => Load(u)' = Load(u)
    BY <1>8 DEF Load
  <2>2. Load(t)' = Load(t) + 1
    <3> DEFINE b == IF thr[t] \in InJob \cup {"returning"} THEN 1 ELSE 0
    <3>1. b \in Nat /\ Load(t) = n + b
      BY <1>4 DEF Load
    <3>2. Load(t)' = (n + 1) + b
      BY <1>4, <1>8 DEF Load, InJob
    <3> HIDE DEF b
    <3> QED
      BY <1>4, <3>1, <3>2
  <2>3. inFlight[t[1]] \in Nat /\ inFlight[t[1]] + 1 <= Cap
    <3>1. inFlight[t[1]] \in Nat
      BY <1>1 DEF TypeOK
    <3> QED
      BY <1>2, <3>1, DispatchAssumption
  <2>4. \A u \in Thread : Len(queue'[u]) \in Nat
    BY <1>9 DEF TypeOK
  <2> DEFINE d == 1
  <2>5. d \in Int /\ Load(t)' = Load(t) + d /\ inFlight[t[1]] + d <= Cap
        /\ inFlight' = [inFlight EXCEPT ![t[1]] = @ + d]
    BY <1>2, <2>2, <2>3
  <2> HIDE DEF d
  <2> QED
    BY <1>1, <2>1, <2>4, <2>5, CountStep
<1>13. CallsOwned'
  BY <1>10, CallsSame
<1>14. \A u \in Thread : (thr[u] \in Ended /\ win[u[1]] \in Down) => thr'[u] \in Ended
  BY <1>2, <1>8
<1>15. JoinsOwned' /\ RefusalsOwned' /\ QuitOwned'
  BY <1>10, <1>14, JoinsSame, RefusalsSame, QuitSame
<1>16. OwnRefusalsOnly'
  BY <1>3, <1>6, OutSame
<1> QED
  BY <1>7, <1>9, <1>11, <1>12, <1>13, <1>15, <1>16, <1>20 DEF MInv

\* A request is handed to a lane, or refused at once.
LEMMA HandleMInv ==
  ASSUME MInv, NEW r \in Req, handleMcpRequest(r)
  PROVE  /\ MInv'
         /\ \A t \in Thread : queue'[t] # queue[t] => thr[t] # "exited"
<1>1. /\ req[r].st = "unsent"
      /\ UNCHANGED <<win, level, looping, stack, refused, marshals, quit, cur>>
  BY DEF handleMcpRequest, gui
<1>2. PICK w \in Window, k \in Kind : \E l \in lanes(k) :
        /\ win[w] # "gone" /\ (k = "prompt" => w \in Prompter)
        /\ \/ /\ accepts(w) /\ postWorkerJob(r, <<w, l>>)
              /\ req' = [req EXCEPT ![r] = [st |-> "queued", to |-> <<w, l>>,
                                           kind |-> k, out |-> "none"]]
           \/ /\ ~accepts(w) /\ UNCHANGED <<thr, queue, inFlight>>
              /\ req' = [req EXCEPT ![r] = Blank("answered")]
  BY Zenon DEF handleMcpRequest
<1>3. PICK l \in lanes(k) :
        /\ win[w] # "gone" /\ (k = "prompt" => w \in Prompter)
        /\ \/ /\ accepts(w) /\ postWorkerJob(r, <<w, l>>)
              /\ req' = [req EXCEPT ![r] = [st |-> "queued", to |-> <<w, l>>,
                                           kind |-> k, out |-> "none"]]
           \/ /\ ~accepts(w) /\ UNCHANGED <<thr, queue, inFlight>>
              /\ req' = [req EXCEPT ![r] = Blank("answered")]
  BY <1>2
<1>4. l \in Lane
  BY DEF lanes, Lane
<1>5. CASE accepts(w) /\ postWorkerJob(r, <<w, l>>)
           /\ req' = [req EXCEPT ![r] = [st |-> "queued", to |-> <<w, l>>,
                                        kind |-> k, out |-> "none"]]
  <2>1. MInv' /\ thr[<<w, l>>] # "exited"
    BY <1>1, <1>3, <1>4, <1>5, PostMInv
  <2>2. \A t \in Thread : t # <<w, l>> => queue'[t] = queue[t]
    BY <1>5 DEF postWorkerJob, MInv, TypeOK
  <2> QED
    BY <2>1, <2>2
<1>6. CASE UNCHANGED <<thr, queue, inFlight>> /\ req' = [req EXCEPT ![r] = Blank("answered")]
  <2>1. "answered" \in ReqSt
    BY DEF ReqSt
  <2>2. MInv'
    BY <1>1, <1>6, <2>1, SettleMInv
  <2> QED
    BY <1>6, <2>2
<1> QED
  BY <1>3, <1>5, <1>6

-----------------------------------------------------------------------------
(* Calls. *)

\* A call returns to the worker that is parked for it: what else changes is which
\* calls are queued and which prompts are open.
LEMMA ReleaseMInv ==
  ASSUME MInv, NEW t \in Thread, thr[t] = "parked", NEW out \in {"value", "nullopt"},
         Release(t, out), out = "nullopt" => t \in refused,
         UNCHANGED <<win, level, looping, refused, quit, queue, cur, inFlight>>
  PROVE  /\ JobsOwned' /\ Counted' /\ RefusalsOwned' /\ QuitOwned' /\ OwnRefusalsOnly'
         /\ req' \in [Req -> Request] /\ thr'[t] = "running"
         /\ thr' \in [Thread -> {"none", "idle", "running", "checked", "parked", "returning",
                                 "exited"}]
         /\ \A u \in Thread : u # t => thr'[u] = thr[u]
         /\ \A r \in Req : req'[r].out # req[r].out => req[r].to = t
<1> TypeOK /\ JobsOwned /\ Counted /\ CallsOwned /\ JoinsOwned /\ RefusalsOwned
    /\ QuitOwned /\ OwnRefusalsOnly
  BY DEF MInv
<1>1. cur[t] \in Req /\ req[cur[t]].st = "active" /\ req[cur[t]].to = t
  BY DEF JobsOwned, InJob
<1>2. req' = [req EXCEPT ![cur[t]].out = out] /\ thr' = [thr EXCEPT ![t] = "running"]
  BY DEF Release
<1>3. /\ req' \in [Req -> Request] /\ req'[cur[t]].out = out
      /\ req'[cur[t]].to = t /\ req'[cur[t]].kind = req[cur[t]].kind
      /\ req'[cur[t]].st = req[cur[t]].st /\ \A r \in Req : r # cur[t] => req'[r] = req[r]
  BY <1>1, <1>2, OutSet DEF Outs
<1>4. /\ thr'[t] = "running" /\ \A u \in Thread : u # t => thr'[u] = thr[u]
      /\ thr' \in [Thread -> {"none", "idle", "running", "checked", "parked", "returning",
                              "exited"}]
  BY <1>2 DEF TypeOK
<1>5. JobsOwned'
  BY <1>1, <1>3, <1>4, OneJob DEF InJob
<1>6. Counted'
  <2>1. \A u \in Thread : Load(u)' = Load(u)
    BY <1>4 DEF Load, InJob
  <2> QED
    BY <2>1, CountSame
<1>7. RefusalsOwned' /\ QuitOwned'
  BY <1>4, RefusalsSame, QuitSame DEF Ended
<1>8. OwnRefusalsOnly'
  BY <1>1, <1>3 DEF OwnRefusalsOnly, RefusalsOwned
<1> QED
  BY <1>1, <1>3, <1>4, <1>5, <1>6, <1>7, <1>8

\* The call at the head of the queue: its worker is parked for nothing else.
LEMMA HeadCall ==
  ASSUME TypeOK, CallsOwned, marshals # <<>>
  PROVE  /\ Head(marshals) \in Thread /\ thr[Head(marshals)] = "parked"
         /\ Tail(marshals) \in Seq(Thread)
         /\ \A i \in 1..Len(Tail(marshals)) :
              Tail(marshals)[i] # Head(marshals) /\ thr[Tail(marshals)[i]] = "parked"
         /\ \A i, j \in 1..Len(Tail(marshals)) :
              Tail(marshals)[i] = Tail(marshals)[j] => i = j
         /\ \A u \in Thread : u # Head(marshals) =>
              ((\E i \in 1..Len(marshals) : marshals[i] = u)
                 => \E i \in 1..Len(Tail(marshals)) : Tail(marshals)[i] = u)
         /\ \A i \in 1..Len(Tail(marshals)) :
              \E j \in 1..Len(marshals) : marshals[j] = Tail(marshals)[i]
         /\ \A i \in 1..Len(stack) : stack[i][1] = "prompt" => stack[i][2] # Head(marshals)
<1> DEFINE h == Head(marshals)
           tl == Tail(marshals)
           n == Len(marshals)
<1>1. /\ n \in Nat /\ n # 0 /\ n = Len(marshals) /\ h = marshals[1] /\ h \in Thread
      /\ tl \in Seq(Thread) /\ Len(tl) = n - 1 /\ \A i \in 1..(n - 1) : tl[i] = marshals[i + 1]
  <2>1. marshals \in Seq(Thread)
    BY DEF TypeOK
  <2> QED
    BY <2>1, TailFacts
<1>0. h = Head(marshals) /\ tl = Tail(marshals)
  OBVIOUS
<1> HIDE DEF h, tl, n
<1>2. 1 \in 1..n /\ \A i \in 1..(n - 1) : i + 1 \in 1..n /\ i + 1 # 1
  BY <1>1
<1>3. \A i, j \in 1..n : marshals[i] = marshals[j] => i = j
  BY <1>1 DEF CallsOwned
<1>4. \A i \in 1..n : thr[marshals[i]] = "parked"
  BY <1>1 DEF CallsOwned
<1>5. \A i \in 1..(n - 1) : tl[i] # h /\ thr[tl[i]] = "parked"
  BY <1>1, <1>2, <1>3, <1>4
<1>6. ASSUME NEW i \in 1..(n - 1), NEW j \in 1..(n - 1), tl[i] = tl[j]
      PROVE  i = j
  <2>1. i + 1 = j + 1
    BY <1>1, <1>2, <1>3, <1>6
  <2> QED
    BY <1>1, <2>1
<1>7. ASSUME NEW u \in Thread, u # h, NEW i \in 1..n, marshals[i] = u
      PROVE  \E j \in 1..(n - 1) : tl[j] = u
  <2>1. i # 1
    BY <1>1, <1>7
  <2>2. i - 1 \in 1..(n - 1) /\ (i - 1) + 1 = i
    BY <1>1, <2>1
  <2> QED
    BY <1>1, <1>7, <2>2
<1>8. \A i \in 1..(n - 1) : \E j \in 1..n : marshals[j] = tl[i]
  BY <1>1, <1>2
<1>9. \A i \in 1..Len(stack) : stack[i][1] = "prompt" => stack[i][2] # h
  BY <1>1, <1>2 DEF CallsOwned
<1>10. thr[h] = "parked"
  BY <1>1, <1>2, <1>4
<1> QED
  BY <1>0, <1>1, <1>5, <1>6, <1>7, <1>8, <1>9, <1>10

\* The queued call is made, or refused.
LEMMA DeliverMInv ==
  ASSUME MInv, Deliver
  PROVE  MInv'
<1> TypeOK /\ JobsOwned /\ Counted /\ CallsOwned /\ JoinsOwned /\ RefusalsOwned
    /\ QuitOwned /\ OwnRefusalsOnly
  BY DEF MInv
<1> DEFINE t == Head(marshals)
           m == Tail(marshals)
<1>1. /\ marshals # <<>> /\ Call(t) /\ marshals' = m
      /\ win' = win /\ level' = level /\ looping' = looping /\ refused' = refused
      /\ quit' = quit /\ queue' = queue /\ cur' = cur /\ inFlight' = inFlight
  BY DEF Deliver
<1>2. /\ t \in Thread /\ thr[t] = "parked" /\ m \in Seq(Thread)
      /\ \A i \in 1..Len(m) : m[i] # t /\ thr[m[i]] = "parked"
      /\ \A i, j \in 1..Len(m) : m[i] = m[j] => i = j
      /\ \A u \in Thread : u # t => ((\E i \in 1..Len(marshals) : marshals[i] = u)
                                       => \E i \in 1..Len(m) : m[i] = u)
      /\ \A i \in 1..Len(m) : \E j \in 1..Len(marshals) : marshals[j] = m[i]
      /\ \A i \in 1..Len(stack) : stack[i][1] = "prompt" => stack[i][2] # t
  BY <1>1, HeadCall
<1> HIDE DEF t, m
<1>3. \A i \in 1..Len(m) : m[i] \in Thread
  BY <1>2
<1>4. \A i \in 1..Len(stack) : stack[i] \in Frame /\ stack[i][2] \in Thread /\ stack[i][2][1] \in Window
                              /\ stack[i][1] \in {"prompt", "join"}
  BY FrameFacts DEF TypeOK, Frame
<1>5. ASSUME NEW out \in {"value", "nullopt"}, Release(t, out), stack' = stack,
             out = "nullopt" => t \in refused
      PROVE  MInv'
  <2>1. /\ JobsOwned' /\ Counted' /\ RefusalsOwned' /\ QuitOwned' /\ OwnRefusalsOnly'
        /\ req' \in [Req -> Request] /\ thr'[t] = "running"
        /\ thr' \in [Thread -> {"none", "idle", "running", "checked", "parked", "returning",
                                "exited"}]
        /\ \A u \in Thread : u # t => thr'[u] = thr[u]
    BY <1>1, <1>2, <1>5, ReleaseMInv
  <2>2. TypeOK'
    BY <1>1, <1>2, <1>5, <2>1 DEF TypeOK, Request, ReqSt, Outs
  <2>3. CallsOwned'
    <3>1. \A i \in 1..Len(m) : thr'[m[i]] = "parked"
      BY <1>2, <1>3, <2>1
    <3>2. ASSUME NEW i \in 1..Len(stack), stack[i][1] = "prompt"
          PROVE  /\ thr'[stack[i][2]] = "parked" /\ stack[i][2][1] \in Prompter
                 /\ \A j \in 1..Len(m) : m[j] # stack[i][2]
      <4>1. thr[stack[i][2]] = "parked" /\ stack[i][2][1] \in Prompter
            /\ \A j \in 1..Len(marshals) : marshals[j] # stack[i][2]
        BY <3>2 DEF CallsOwned
      <4> QED
        BY <1>2, <1>4, <2>1, <3>2, <4>1
    <3>3. ASSUME NEW u \in Thread, thr'[u] = "parked"
          PROVE  \/ \E i \in 1..Len(m) : m[i] = u
                 \/ \E i \in 1..Len(stack) : stack[i][1] = "prompt" /\ stack[i][2] = u
      <4>1. u # t /\ thr[u] = "parked"
        BY <2>1, <3>3
      <4> QED
        BY <1>2, <4>1 DEF CallsOwned
    <3>4. \A i, j \in 1..Len(stack) :
            (stack[i][1] = "prompt" /\ stack[j][1] = "prompt" /\ stack[i][2] = stack[j][2]) => i = j
      BY DEF CallsOwned
    <3> QED
      BY <1>1, <1>2, <1>5, <3>1, <3>2, <3>3, <3>4 DEF CallsOwned
  <2>4. JoinsOwned'
    BY <1>1, <1>2, <1>5, <2>1, JoinsSame DEF Ended
  <2> QED
    BY <2>1, <2>2, <2>3, <2>4 DEF MInv
<1>6. ASSUME t \notin refused, req[cur[t]].kind = "prompt",
             stack' = Append(stack, <<"prompt", t>>), req' = req, thr' = thr
      PROVE  MInv'
  <2> DEFINE f == <<"prompt", t>>
             s == Append(stack, f)
             n == Len(stack)
  <2>1. f \in Frame /\ f[1] = "prompt" /\ f[2] = t
    BY <1>2 DEF Frame
  <2>2. /\ s \in Seq(Frame) /\ n \in Nat /\ n = Len(stack) /\ Len(s) = n + 1 /\ s[n + 1] = f
        /\ \A i \in 1..n : s[i] = stack[i]
    <3>1. stack \in Seq(Frame)
      BY DEF TypeOK, Frame
    <3> QED
      BY <2>1, <3>1, AppendFacts
  <2>3. stack' = s
    BY <1>6
  <2> HIDE DEF f, s, n
  <2>4. t[1] \in Window /\ t[1] \in Prompter /\ win[t[1]] # "teardown"
    <3>1. cur[t] \in Req /\ req[cur[t]].to = t
      BY <1>2 DEF JobsOwned, InJob
    <3> QED
      BY <1>2, <1>6, <3>1, ThreadFacts DEF JobsOwned, RefusalsOwned, Ended
  <2>5. \A i \in 1..Len(s) : i \in 1..n \/ i = n + 1
    BY <2>2
  <2>6. TypeOK'
    BY <1>1, <1>2, <1>6, <2>2, <2>3 DEF TypeOK, Frame
  <2>7. CallsOwned'
    <3>1. \A i \in 1..Len(s) : s[i][1] = "prompt" =>
            /\ thr[s[i][2]] = "parked" /\ s[i][2][1] \in Prompter
            /\ \A j \in 1..Len(m) : m[j] # s[i][2]
      <4>1. ASSUME NEW i \in 1..n, stack[i][1] = "prompt"
            PROVE  /\ thr[stack[i][2]] = "parked" /\ stack[i][2][1] \in Prompter
                   /\ \A j \in 1..Len(m) : m[j] # stack[i][2]
        BY <1>2, <2>2, <4>1 DEF CallsOwned
      <4>2. thr[t] = "parked" /\ t[1] \in Prompter /\ \A j \in 1..Len(m) : m[j] # t
        BY <1>2, <2>4
      <4> QED
        BY <2>1, <2>2, <2>5, <4>1, <4>2
    <3>2. ASSUME NEW i \in 1..Len(s), NEW j \in 1..Len(s), s[i][1] = "prompt",
                 s[j][1] = "prompt", s[i][2] = s[j][2]
          PROVE  i = j
      <4>1. \A a, b \in 1..n :
              (stack[a][1] = "prompt" /\ stack[b][1] = "prompt" /\ stack[a][2] = stack[b][2]) => a = b
        BY <2>2 DEF CallsOwned
      <4> QED
        BY <1>2, <2>1, <2>2, <2>5, <3>2, <4>1
    <3>3. ASSUME NEW u \in Thread, thr[u] = "parked"
          PROVE  \/ \E i \in 1..Len(m) : m[i] = u
                 \/ \E i \in 1..Len(s) : s[i][1] = "prompt" /\ s[i][2] = u
      <4>1. n + 1 \in 1..Len(s) /\ \A i \in 1..n : i \in 1..Len(s)
        BY <2>2
      <4>2. CASE u = t
        BY <2>1, <2>2, <4>1, <4>2
      <4>3. CASE u # t
        <5>1. \/ \E i \in 1..Len(m) : m[i] = u
              \/ \E i \in 1..n : stack[i][1] = "prompt" /\ stack[i][2] = u
          BY <1>2, <2>2, <3>3, <4>3 DEF CallsOwned
        <5> QED
          BY <2>2, <4>1, <5>1
      <4> QED
        BY <4>2, <4>3
    <3>4. /\ \A i \in 1..Len(m) : thr[m[i]] = "parked"
          /\ \A i, j \in 1..Len(m) : m[i] = m[j] => i = j
      BY <1>2
    <3>5. marshals' = m /\ stack' = s /\ thr' = thr
      BY <1>1, <1>6, <2>3
    <3> QED
      BY <3>1, <3>2, <3>3, <3>4, <3>5 DEF CallsOwned
  <2>8. JoinsOwned'
    <3>0. n + 1 \in 1..Len(s) /\ \A i \in 1..n : i \in 1..Len(s)
      BY <2>2
    <3>1. \A w \in Window : win[w] = "teardown" =>
            \E i \in 1..Len(s) : s[i][1] = "join" /\ s[i][2][1] = w
      BY <2>2, <3>0 DEF JoinsOwned
    <3>2. ASSUME NEW i \in 1..Len(s), s[i][1] = "join"
          PROVE  i \in 1..n /\ s[i] = stack[i] /\ stack[i][1] = "join"
      BY <2>1, <2>2, <2>5, <3>2
    <3>3. \A i \in 1..Len(s) : s[i][1] = "join" =>
            /\ win[s[i][2][1]] = "teardown"
            /\ s[i][2][2] = "bulk" => /\ thr[<<s[i][2][1], "shared">>] \in Ended
                                      /\ <<s[i][2][1], "shared">> \notin refused
            /\ s[i][2][1] = Main => i = 1
      BY <2>2, <3>2 DEF JoinsOwned
    <3>4. \A i, j \in 1..Len(s) :
            (s[i][1] = "join" /\ s[j][1] = "join" /\ s[i][2][1] = s[j][2][1]) => i = j
      BY <2>2, <3>2 DEF JoinsOwned
    <3>5. ASSUME NEW i \in 1..Len(s), NEW j \in 1..Len(s), s[i][1] = "join", s[j][1] = "prompt",
                 i < j
          PROVE  s[i][2][1] # s[j][2][1]
      <4>1. CASE j \in 1..n
        BY <2>2, <3>2, <3>5, <4>1 DEF JoinsOwned
      <4>2. CASE j = n + 1
        BY <2>1, <2>2, <2>4, <3>3, <3>5, <4>2
      <4> QED
        BY <2>5, <4>1, <4>2
    <3> QED
      BY <1>1, <1>6, <2>3, <3>1, <3>3, <3>4, <3>5 DEF JoinsOwned
  <2>9. JobsOwned'
    BY <1>1, <1>6, JobsSame
  <2>10. Counted'
    BY <1>1, <1>6, CountSame DEF Load
  <2>11. RefusalsOwned' /\ QuitOwned' /\ OwnRefusalsOnly'
    BY <1>1, <1>6, RefusalsSame, QuitSame, OutSame
  <2> QED
    BY <2>6, <2>7, <2>8, <2>9, <2>10, <2>11 DEF MInv
<1> QED
  BY <1>1, <1>5, <1>6 DEF Call, guiMarshalRefused

\* The prompt on top is answered.
LEMMA PromptMInv ==
  ASSUME MInv, showPrompt
  PROVE  /\ MInv' /\ Top[2] \in Thread
         /\ \A r \in Req : req'[r].out # req[r].out => req[r].to = Top[2]
<1> TypeOK /\ JobsOwned /\ Counted /\ CallsOwned /\ JoinsOwned /\ RefusalsOwned
    /\ QuitOwned /\ OwnRefusalsOnly
  BY DEF MInv
<1> DEFINE t == Top[2]
           p == Pop
           n == Len(stack)
<1>1. /\ stack # <<>> /\ Top[1] = "prompt" /\ stack' = p /\ Release(t, "value")
      /\ win' = win /\ level' = level /\ looping' = looping /\ refused' = refused
      /\ marshals' = marshals /\ quit' = quit /\ queue' = queue /\ cur' = cur
      /\ inFlight' = inFlight
  BY DEF showPrompt
<1>2. /\ n \in Nat /\ n # 0 /\ n = Len(stack) /\ Top \in Frame /\ Top = stack[n]
      /\ p \in Seq(Frame) /\ Len(p) = n - 1 /\ \A i \in 1..(n - 1) : p[i] = stack[i]
  <2>1. stack \in Seq(Frame)
    BY DEF TypeOK, Frame
  <2> QED
    BY <1>1, <2>1, PopFacts DEF Top
<1>3. t \in Thread /\ t = Top[2] /\ stack[n][1] = "prompt" /\ stack[n][2] = t
  BY <1>1, <1>2, FrameFacts
<1> HIDE DEF t, p, n
<1>4. n \in 1..n /\ \A i \in 1..(n - 1) : i \in 1..n /\ i # n
  BY <1>2
<1>5. /\ thr[t] = "parked" /\ \A j \in 1..Len(marshals) : marshals[j] # t
      /\ \A i \in 1..(n - 1) : stack[i][1] = "prompt" => stack[i][2] # t
  BY <1>2, <1>3, <1>4 DEF CallsOwned
<1>6. /\ JobsOwned' /\ Counted' /\ RefusalsOwned' /\ QuitOwned' /\ OwnRefusalsOnly'
      /\ req' \in [Req -> Request] /\ thr'[t] = "running"
      /\ thr' \in [Thread -> {"none", "idle", "running", "checked", "parked", "returning",
                              "exited"}]
      /\ \A u \in Thread : u # t => thr'[u] = thr[u]
      /\ \A r \in Req : req'[r].out # req[r].out => req[r].to = t
  BY <1>1, <1>3, <1>5, ReleaseMInv
<1>7. TypeOK'
  BY <1>1, <1>2, <1>6 DEF TypeOK, Frame, Request, ReqSt, Outs
<1>8. \A i \in 1..n : stack[i][2] \in Thread /\ stack[i][2][1] \in Window
  BY <1>2, FrameFacts DEF TypeOK, Frame
<1>9. CallsOwned'
  <2>1. \A i \in 1..Len(marshals) : thr'[marshals[i]] = "parked"
    <3>1. \A i \in 1..Len(marshals) : marshals[i] \in Thread /\ thr[marshals[i]] = "parked"
      BY DEF CallsOwned, TypeOK
    <3> QED
      BY <1>5, <1>6, <3>1
  <2>2. ASSUME NEW i \in 1..(n - 1), p[i][1] = "prompt"
        PROVE  /\ thr'[p[i][2]] = "parked" /\ p[i][2][1] \in Prompter
               /\ \A j \in 1..Len(marshals) : marshals[j] # p[i][2]
    <3>1. i \in 1..n /\ p[i] = stack[i]
      BY <1>2, <1>4
    <3>2. /\ thr[stack[i][2]] = "parked" /\ stack[i][2][1] \in Prompter
          /\ \A j \in 1..Len(marshals) : marshals[j] # stack[i][2]
      BY <1>2, <2>2, <3>1 DEF CallsOwned
    <3> QED
      BY <1>5, <1>6, <1>8, <2>2, <3>1, <3>2
  <2>3. \A i, j \in 1..(n - 1) : (p[i][1] = "prompt" /\ p[j][1] = "prompt" /\ p[i][2] = p[j][2])
          => i = j
    BY <1>2, <1>4 DEF CallsOwned
  <2>4. ASSUME NEW u \in Thread, thr'[u] = "parked"
        PROVE  \/ \E i \in 1..Len(marshals) : marshals[i] = u
               \/ \E i \in 1..(n - 1) : p[i][1] = "prompt" /\ p[i][2] = u
    <3>1. u # t /\ thr[u] = "parked"
      BY <1>6, <2>4
    <3>2. \/ \E i \in 1..Len(marshals) : marshals[i] = u
          \/ \E i \in 1..n : stack[i][1] = "prompt" /\ stack[i][2] = u
      BY <1>2, <3>1 DEF CallsOwned
    <3>3. \A i \in 1..n : i = n \/ i \in 1..(n - 1)
      BY <1>2
    <3> QED
      BY <1>2, <1>3, <3>1, <3>2, <3>3
  <2>5. \A i, j \in 1..Len(marshals) : marshals[i] = marshals[j] => i = j
    BY DEF CallsOwned
  <2>6. marshals' = marshals /\ stack' = p /\ Len(p) = n - 1
    BY <1>1, <1>2
  <2> QED
    BY <2>1, <2>2, <2>3, <2>4, <2>5, <2>6 DEF CallsOwned
<1>10. JoinsOwned'
  <2>0. stack' = p /\ Len(p) = n - 1 /\ win' = win /\ refused' = refused
    BY <1>1, <1>2
  <2>1. \A w \in Window : win[w] = "teardown" =>
          \E i \in 1..(n - 1) : p[i][1] = "join" /\ p[i][2][1] = w
    <3>1. \A i \in 1..n : i = n \/ i \in 1..(n - 1)
      BY <1>2
    <3>2. \A w \in Window : win[w] = "teardown" =>
            \E i \in 1..n : stack[i][1] = "join" /\ stack[i][2][1] = w
      BY <1>2 DEF JoinsOwned
    <3>3. \A i \in 1..n : stack[i][1] = "join" => i \in 1..(n - 1) /\ p[i] = stack[i]
      BY <1>2, <1>3, <3>1
    <3> QED
      BY <3>2, <3>3
  <2>2. ASSUME NEW i \in 1..(n - 1), p[i][1] = "join"
        PROVE  /\ win[p[i][2][1]] = "teardown"
               /\ p[i][2][2] = "bulk" => /\ thr'[<<p[i][2][1], "shared">>] \in Ended
                                         /\ <<p[i][2][1], "shared">> \notin refused
               /\ p[i][2][1] = Main => i = 1
    <3>1. i \in 1..n /\ p[i] = stack[i]
      BY <1>2, <1>4
    <3>2. /\ win[stack[i][2][1]] = "teardown"
          /\ stack[i][2][2] = "bulk" => /\ thr[<<stack[i][2][1], "shared">>] \in Ended
                                        /\ <<stack[i][2][1], "shared">> \notin refused
          /\ stack[i][2][1] = Main => i = 1
      BY <1>2, <2>2, <3>1 DEF JoinsOwned
    <3>3. <<stack[i][2][1], "shared">> \in Thread
      BY <1>8, <3>1, LaneFacts
    <3>4. stack[i][2][2] = "bulk" => thr'[<<stack[i][2][1], "shared">>] \in Ended
      BY <1>5, <1>6, <3>2, <3>3 DEF Ended
    <3> QED
      BY <3>1, <3>2, <3>4
  <2>3. \A i, j \in 1..(n - 1) :
          (p[i][1] = "join" /\ p[j][1] = "join" /\ p[i][2][1] = p[j][2][1]) => i = j
    <3>1. \A i, j \in 1..n :
            (stack[i][1] = "join" /\ stack[j][1] = "join" /\ stack[i][2][1] = stack[j][2][1]) => i = j
      BY <1>2 DEF JoinsOwned
    <3> QED
      BY <1>2, <1>4, <3>1
  <2>4. \A i, j \in 1..(n - 1) :
          (p[i][1] = "join" /\ p[j][1] = "prompt" /\ i < j) => p[i][2][1] # p[j][2][1]
    <3>1. \A i, j \in 1..n :
            (stack[i][1] = "join" /\ stack[j][1] = "prompt" /\ i < j) => stack[i][2][1] # stack[j][2][1]
      BY <1>2 DEF JoinsOwned
    <3>2. \A i \in 1..(n - 1) : i \in 1..n /\ p[i] = stack[i]
      BY <1>2, <1>4
    <3> QED
      BY <3>1, <3>2
  <2> QED
    BY <2>0, <2>1, <2>2, <2>3, <2>4 DEF JoinsOwned
<1> QED
  BY <1>3, <1>6, <1>7, <1>9, <1>10 DEF MInv

-----------------------------------------------------------------------------
(* Windows. *)

\* A window closes, or app.exec() returns: the destructor has not run yet.
LEMMA CloseMInv ==
  ASSUME MInv, UNCHANGED <<stack, refused, marshals, thr, quit, queue, cur, inFlight, req>>,
         win' \in [Window -> {"open", "closing", "teardown", "gone"}],
         level' \in [Window -> Nat], looping' \in BOOLEAN,
         \A w \in Window : win'[w] # win[w] => win[w] \notin Down /\ win'[w] \notin Down
  PROVE  MInv'
<1> TypeOK /\ JobsOwned /\ Counted /\ CallsOwned /\ JoinsOwned /\ RefusalsOwned
    /\ QuitOwned /\ OwnRefusalsOnly
  BY DEF MInv
<1>1. TypeOK'
  BY DEF TypeOK
<1>2. \A w \in Window : /\ win'[w] = "teardown" <=> win[w] = "teardown"
                        /\ win'[w] = "gone" <=> win[w] = "gone"
                        /\ win'[w] \in Down <=> win[w] \in Down
  BY DEF Down
<1>3. \A i \in 1..Len(stack) : stack[i][2][1] \in Window
  BY FrameFacts DEF TypeOK, Frame
<1>4. \A t \in Thread : t[1] \in Window
  BY ThreadFacts
<1>5. JobsOwned' /\ CallsOwned'
  BY JobsSame, CallsSame
<1>6. Counted'
  BY CountSame DEF Load
<1>7. JoinsOwned'
  BY <1>2, <1>3 DEF JoinsOwned
<1>8. RefusalsOwned' /\ QuitOwned'
  BY <1>2, <1>4 DEF RefusalsOwned, QuitOwned, TypeOK
<1>9. OwnRefusalsOnly'
  BY <1>2, OutSame
<1> QED
  BY <1>1, <1>5, <1>6, <1>7, <1>8, <1>9 DEF MInv

\* The destructor begins: what the window has left is refused and told to end.
LEMMA DestroyMInv ==
  ASSUME MInv, NEW w \in Window, Destroy(w)
  PROVE  MInv'
<1> TypeOK /\ JobsOwned /\ Counted /\ CallsOwned /\ JoinsOwned /\ RefusalsOwned
    /\ QuitOwned /\ OwnRefusalsOnly
  BY DEF MInv
<1> DEFINE f == <<"join", <<w, "shared">>>>
           s == Append(stack, f)
           n == Len(stack)
<1>1. /\ win[w] \notin Down /\ (w = Main => stack = <<>>)
      /\ win' = [win EXCEPT ![w] = "teardown"] /\ refused' = refused \cup Started(w)
      /\ quit' = quit \cup Started(w) /\ stack' = s /\ level' = [level EXCEPT ![w] = 0]
      /\ looping' = looping /\ marshals' = marshals /\ thr' = thr /\ queue' = queue
      /\ cur' = cur /\ inFlight' = inFlight /\ req' = req
  BY DEF Destroy, shutdownDispatchWorker, Down
<1>2. f \in Frame /\ f[1] = "join" /\ f[2][1] = w /\ f[2][2] = "shared"
  BY LaneFacts DEF Frame
<1>3. /\ s \in Seq(Frame) /\ n \in Nat /\ n = Len(stack) /\ Len(s) = n + 1 /\ s[n + 1] = f
      /\ \A i \in 1..n : s[i] = stack[i]
  <2>1. stack \in Seq(Frame)
    BY DEF TypeOK, Frame
  <2> QED
    BY <1>2, <2>1, AppendFacts
<1>4. w = Main => n = 0
  BY <1>1
<1> HIDE DEF f, s, n
<1>5. \A i \in 1..Len(s) : i \in 1..n \/ i = n + 1
  BY <1>3
<1>6. n + 1 \in 1..Len(s) /\ \A i \in 1..n : i \in 1..Len(s)
  BY <1>3
<1>7. win'[w] = "teardown" /\ \A v \in Window : v # w => win'[v] = win[v]
  BY <1>1 DEF TypeOK
<1>8. \A i \in 1..n : stack[i][2] \in Thread /\ stack[i][2][1] \in Window
  BY <1>3, FrameFacts DEF TypeOK, Frame
<1>9. \A t \in Thread : t[1] \in Window
  BY ThreadFacts
<1>10. TypeOK'
  <2>1. win' \in [Window -> {"open", "closing", "teardown", "gone"}] /\ level' \in [Window -> Nat]
    BY <1>1 DEF TypeOK
  <2>2. refused' \subseteq Thread /\ quit' \subseteq Thread
    BY <1>1 DEF TypeOK, Started
  <2> QED
    BY <1>1, <1>3, <2>1, <2>2 DEF TypeOK, Frame
<1>11. JobsOwned'
  BY <1>1, JobsSame
<1>12. Counted'
  BY <1>1, CountSame DEF Load
<1>13. CallsOwned'
  <2>1. \A i \in 1..Len(s) : s[i][1] = "prompt" => i \in 1..n /\ s[i] = stack[i]
    BY <1>2, <1>3, <1>5
  <2>2. \A i \in 1..Len(s) : s[i][1] = "prompt" =>
          /\ thr[s[i][2]] = "parked" /\ s[i][2][1] \in Prompter
          /\ \A j \in 1..Len(marshals) : marshals[j] # s[i][2]
    BY <1>3, <2>1 DEF CallsOwned
  <2>3. \A i, j \in 1..Len(s) :
          (s[i][1] = "prompt" /\ s[j][1] = "prompt" /\ s[i][2] = s[j][2]) => i = j
    BY <1>3, <2>1 DEF CallsOwned
  <2>4. \A u \in Thread : thr[u] = "parked" =>
          \/ \E i \in 1..Len(marshals) : marshals[i] = u
          \/ \E i \in 1..Len(s) : s[i][1] = "prompt" /\ s[i][2] = u
    BY <1>3, <1>6 DEF CallsOwned
  <2>5. /\ \A i \in 1..Len(marshals) : thr[marshals[i]] = "parked"
        /\ \A i, j \in 1..Len(marshals) : marshals[i] = marshals[j] => i = j
    BY DEF CallsOwned
  <2>6. marshals' = marshals /\ stack' = s /\ thr' = thr
    BY <1>1
  <2> QED
    BY <2>2, <2>3, <2>4, <2>5, <2>6 DEF CallsOwned
<1>14. JoinsOwned'
  <2>1. \A i \in 1..n : stack[i][1] = "join" => stack[i][2][1] # w
    BY <1>1, <1>3 DEF JoinsOwned, Down
  <2>2. \A v \in Window : win'[v] = "teardown" =>
          \E i \in 1..Len(s) : s[i][1] = "join" /\ s[i][2][1] = v
    BY <1>2, <1>3, <1>6, <1>7 DEF JoinsOwned
  <2>3. ASSUME NEW i \in 1..Len(s), s[i][1] = "join"
        PROVE  /\ win'[s[i][2][1]] = "teardown"
               /\ s[i][2][2] = "bulk" => /\ thr[<<s[i][2][1], "shared">>] \in Ended
                                         /\ <<s[i][2][1], "shared">> \notin refused'
               /\ s[i][2][1] = Main => i = 1
    <3>1. CASE i = n + 1
      BY <1>2, <1>3, <1>4, <1>7, <3>1
    <3>2. CASE i \in 1..n
      <4>1. s[i] = stack[i] /\ stack[i][2][1] \in Window /\ stack[i][2][1] # w
        BY <1>3, <1>8, <2>1, <2>3, <3>2
      <4>2. /\ win[stack[i][2][1]] = "teardown"
            /\ stack[i][2][2] = "bulk" => /\ thr[<<stack[i][2][1], "shared">>] \in Ended
                                          /\ <<stack[i][2][1], "shared">> \notin refused
            /\ stack[i][2][1] = Main => i = 1
        BY <1>3, <2>3, <3>2, <4>1 DEF JoinsOwned
      <4>3. <<stack[i][2][1], "shared">> \notin Started(w)
        BY <4>1, LaneFacts DEF Started
      <4> QED
        BY <1>1, <1>7, <4>1, <4>2, <4>3
    <3> QED
      BY <1>5, <3>1, <3>2
  <2>4. ASSUME NEW i \in 1..Len(s), NEW j \in 1..Len(s), s[i][1] = "join", s[j][1] = "join",
               s[i][2][1] = s[j][2][1]
        PROVE  i = j
    <3>1. \A a, b \in 1..n :
            (stack[a][1] = "join" /\ stack[b][1] = "join" /\ stack[a][2][1] = stack[b][2][1]) => a = b
      BY <1>3 DEF JoinsOwned
    <3> QED
      BY <1>2, <1>3, <1>5, <2>1, <2>4, <3>1
  <2>5. ASSUME NEW i \in 1..Len(s), NEW j \in 1..Len(s), s[i][1] = "join", s[j][1] = "prompt", i < j
        PROVE  s[i][2][1] # s[j][2][1]
    <3>1. \A a, b \in 1..n :
            (stack[a][1] = "join" /\ stack[b][1] = "prompt" /\ a < b) => stack[a][2][1] # stack[b][2][1]
      BY <1>3 DEF JoinsOwned
    <3>2. j \in 1..n
      BY <1>2, <1>3, <1>5, <2>5
    <3>3. i \in 1..n
      BY <1>3, <1>5, <2>5, <3>2
    <3> QED
      BY <1>3, <2>5, <3>1, <3>2, <3>3
  <2>6. stack' = s /\ thr' = thr
    BY <1>1
  <2> QED
    BY <2>2, <2>3, <2>4, <2>5, <2>6 DEF JoinsOwned
<1>15. RefusalsOwned'
  <2>1. \A t \in refused' : win'[t[1]] = "teardown"
    BY <1>1, <1>7, <1>9 DEF RefusalsOwned, Started, TypeOK
  <2>2. \A t \in Thread : win'[t[1]] = "teardown" => t \in refused' \/ thr[t] \in Ended
    BY <1>1, <1>7, <1>9 DEF RefusalsOwned, Started, Ended
  <2>3. \A t \in Thread : win'[t[1]] = "gone" => thr[t] \in Ended
    BY <1>7, <1>9 DEF RefusalsOwned
  <2> QED
    BY <1>1, <2>1, <2>2, <2>3 DEF RefusalsOwned
<1>16. QuitOwned'
  BY <1>1, <1>7, <1>9 DEF QuitOwned, Started, TypeOK, Down
<1>17. OwnRefusalsOnly'
  BY <1>1, <1>7, OutSame DEF Down
<1> QED
  BY <1>10, <1>11, <1>12, <1>13, <1>14, <1>15, <1>16, <1>17 DEF MInv

\* What a join on top of the stack says of its window.
LEMMA JoinFacts ==
  ASSUME MInv, Joining
  PROVE  /\ stack # <<>> /\ Len(stack) \in Nat \ {0} /\ Top = stack[Len(stack)]
         /\ Top[1] = "join" /\ Top[2] \in Thread /\ Top[2][1] \in Window /\ Top[2][2] \in Lane
         /\ Top[2] = <<Top[2][1], Top[2][2]>> /\ win[Top[2][1]] = "teardown"
         /\ Pop \in Seq(Frame) /\ Len(Pop) = Len(stack) - 1
         /\ \A i \in 1..(Len(stack) - 1) : Pop[i] = stack[i]
         /\ \A i \in 1..(Len(stack) - 1) : stack[i][1] = "join" => stack[i][2][1] # Top[2][1]
<1> DEFINE n == Len(stack)
<1>1. stack # <<>> /\ Top[1] = "join" /\ stack \in Seq(Frame) /\ Top = stack[n]
  BY DEF Joining, MInv, TypeOK, Frame, Top
<1>2. n \in Nat \ {0} /\ Top \in Frame /\ Pop \in Seq(Frame) /\ Len(Pop) = n - 1
      /\ \A i \in 1..(n - 1) : Pop[i] = stack[i]
  BY <1>1, PopFacts
<1>3. n \in 1..n /\ \A i \in 1..(n - 1) : i \in 1..n /\ i # n
  BY <1>2
<1>4. /\ \A i \in 1..n : stack[i][1] = "join" => win[stack[i][2][1]] = "teardown"
      /\ \A i, j \in 1..n :
           (stack[i][1] = "join" /\ stack[j][1] = "join" /\ stack[i][2][1] = stack[j][2][1]) => i = j
  BY DEF MInv, JoinsOwned
<1> HIDE DEF n
<1>5. /\ win[Top[2][1]] = "teardown"
      /\ \A i \in 1..(n - 1) : stack[i][1] = "join" => stack[i][2][1] # Top[2][1]
  BY <1>1, <1>3, <1>4
<1> QED
  BY <1>1, <1>2, <1>5, FrameFacts DEF n

\* The two ways joinRefusingMarshals returns.
SharedJoined ==
  /\ Joining /\ thr[Top[2]] \in Ended /\ Top[2][2] = "shared" /\ refused' = refused \ {Top[2]}
  /\ stack' = Append(Pop, <<"join", <<Top[2][1], "bulk">>>>)
  /\ UNCHANGED <<win, req, level, looping, marshals, thr, quit, queue, cur, inFlight>>
BulkJoined ==
  /\ Joining /\ thr[Top[2]] \in Ended /\ Top[2][2] = "bulk" /\ refused' = refused \ {Top[2]}
  /\ stack' = Pop /\ win' = [win EXCEPT ![Top[2][1]] = "gone"]
  /\ req' = [r \in Req |-> IF req[r].to[1] = Top[2][1] /\ req[r].st \in {"queued", "posted"}
                           THEN Blank("dropped") ELSE req[r]]
  /\ UNCHANGED <<level, looping, marshals, thr, quit, queue, cur, inFlight>>

\* The join of the shared lane gives way to that of the bulk lane.
LEMMA SharedJoinedMInv ==
  ASSUME MInv, SharedJoined
  PROVE  MInv'
<1> TypeOK /\ JobsOwned /\ Counted /\ CallsOwned /\ JoinsOwned /\ RefusalsOwned
    /\ QuitOwned /\ OwnRefusalsOnly
  BY DEF MInv
<1> DEFINE n == Len(stack)
           w == Top[2][1]
           f == <<"join", <<w, "bulk">>>>
           s == Append(Pop, f)
<1>1. /\ stack # <<>> /\ n \in Nat /\ n # 0 /\ n = Len(stack) /\ Top = stack[n] /\ Top[1] = "join"
      /\ Top[2] = <<w, "shared">> /\ w \in Window /\ w = Top[2][1] /\ win[w] = "teardown"
      /\ Pop \in Seq(Frame) /\ Len(Pop) = n - 1 /\ \A i \in 1..(n - 1) : Pop[i] = stack[i]
      /\ \A i \in 1..(n - 1) : stack[i][1] = "join" => stack[i][2][1] # w
  BY JoinFacts DEF SharedJoined
<1>2. f \in Frame /\ f[1] = "join" /\ f[2][1] = w /\ f[2][2] = "bulk"
  BY <1>1, LaneFacts DEF Frame
<1>3. /\ s \in Seq(Frame) /\ Len(s) = n /\ s[n] = f /\ \A i \in 1..(n - 1) : s[i] = stack[i]
  <2> HIDE DEF f, n
  <2>1. /\ s \in Seq(Frame) /\ Len(s) = (n - 1) + 1 /\ s[(n - 1) + 1] = f
        /\ \A i \in 1..(n - 1) : s[i] = Pop[i]
    BY <1>1, <1>2, AppendFacts
  <2>2. (n - 1) + 1 = n
    BY <1>1
  <2> QED
    BY <1>1, <2>1, <2>2
<1>4. /\ stack' = s /\ thr[Top[2]] \in Ended /\ refused' = refused \ {Top[2]}
      /\ win' = win /\ req' = req /\ level' = level /\ looping' = looping
      /\ marshals' = marshals /\ thr' = thr /\ quit' = quit /\ queue' = queue /\ cur' = cur
      /\ inFlight' = inFlight
  BY DEF SharedJoined
<1> HIDE DEF n, w, f, s
<1>5. \A i \in 1..n : i = n \/ i \in 1..(n - 1)
  BY <1>1
<1>6. n \in 1..n /\ \A i \in 1..(n - 1) : i \in 1..n /\ i # n /\ i < n
  BY <1>1
<1>7. \A i \in 1..n : stack[i][2] \in Thread /\ stack[i][2][1] \in Window
  BY <1>1, FrameFacts DEF TypeOK, Frame
<1>8. TypeOK'
  BY <1>3, <1>4 DEF TypeOK, Frame
<1>9. JobsOwned' /\ QuitOwned'
  BY <1>4, JobsSame, QuitSame
<1>10. Counted'
  BY <1>4, CountSame DEF Load
<1>11. \A i \in 1..n : /\ s[i][1] = stack[i][1] /\ s[i][2][1] = stack[i][2][1]
                       /\ s[i][1] = "prompt" => s[i] = stack[i]
  BY <1>1, <1>2, <1>3, <1>5
<1>12. CallsOwned'
  <2>1. \A i \in 1..n : s[i][1] = "prompt" =>
          /\ thr[s[i][2]] = "parked" /\ s[i][2][1] \in Prompter
          /\ \A j \in 1..Len(marshals) : marshals[j] # s[i][2]
    BY <1>1, <1>11 DEF CallsOwned
  <2>2. \A i, j \in 1..n :
          (s[i][1] = "prompt" /\ s[j][1] = "prompt" /\ s[i][2] = s[j][2]) => i = j
    <3>1. \A i, j \in 1..n :
            (stack[i][1] = "prompt" /\ stack[j][1] = "prompt" /\ stack[i][2] = stack[j][2]) => i = j
      BY <1>1 DEF CallsOwned
    <3> QED
      BY <1>11, <3>1
  <2>3. \A u \in Thread : thr[u] = "parked" =>
          \/ \E i \in 1..Len(marshals) : marshals[i] = u
          \/ \E i \in 1..n : s[i][1] = "prompt" /\ s[i][2] = u
    <3>1. \A u \in Thread : thr[u] = "parked" =>
            \/ \E i \in 1..Len(marshals) : marshals[i] = u
            \/ \E i \in 1..n : stack[i][1] = "prompt" /\ stack[i][2] = u
      BY <1>1 DEF CallsOwned
    <3> QED
      BY <1>11, <3>1
  <2>4. /\ \A i \in 1..Len(marshals) : thr[marshals[i]] = "parked"
        /\ \A i, j \in 1..Len(marshals) : marshals[i] = marshals[j] => i = j
    BY DEF CallsOwned
  <2>5. marshals' = marshals /\ stack' = s /\ thr' = thr /\ Len(s) = n
    BY <1>3, <1>4
  <2> QED
    BY <2>1, <2>2, <2>3, <2>4, <2>5 DEF CallsOwned
<1>13. JoinsOwned'
  <2>1. \A v \in Window : win[v] = "teardown" =>
          \E i \in 1..n : s[i][1] = "join" /\ s[i][2][1] = v
    <3>1. \A v \in Window : win[v] = "teardown" =>
            \E i \in 1..n : stack[i][1] = "join" /\ stack[i][2][1] = v
      BY <1>1 DEF JoinsOwned
    <3> QED
      BY <1>11, <3>1
  <2>2. ASSUME NEW i \in 1..n, s[i][1] = "join"
        PROVE  /\ win[s[i][2][1]] = "teardown"
               /\ s[i][2][2] = "bulk" => /\ thr[<<s[i][2][1], "shared">>] \in Ended
                                         /\ <<s[i][2][1], "shared">> \notin refused'
               /\ s[i][2][1] = Main => i = 1
    <3>1. /\ win[stack[i][2][1]] = "teardown" /\ (stack[i][2][1] = Main => i = 1)
          /\ stack[i][2][2] = "bulk" => /\ thr[<<stack[i][2][1], "shared">>] \in Ended
                                        /\ <<stack[i][2][1], "shared">> \notin refused
      BY <1>1, <1>11, <2>2 DEF JoinsOwned
    <3>2. CASE i = n
      BY <1>1, <1>2, <1>3, <1>4, <1>11, <3>1, <3>2
    <3>3. CASE i \in 1..(n - 1)
      BY <1>3, <1>4, <3>1, <3>3
    <3> QED
      BY <1>5, <3>2, <3>3
  <2>3. \A i, j \in 1..n :
          (s[i][1] = "join" /\ s[j][1] = "join" /\ s[i][2][1] = s[j][2][1]) => i = j
    <3>1. \A i, j \in 1..n :
            (stack[i][1] = "join" /\ stack[j][1] = "join" /\ stack[i][2][1] = stack[j][2][1]) => i = j
      BY <1>1 DEF JoinsOwned
    <3> QED
      BY <1>11, <3>1
  <2>4. \A i, j \in 1..n :
          (s[i][1] = "join" /\ s[j][1] = "prompt" /\ i < j) => s[i][2][1] # s[j][2][1]
    <3>1. \A i, j \in 1..n :
            (stack[i][1] = "join" /\ stack[j][1] = "prompt" /\ i < j) => stack[i][2][1] # stack[j][2][1]
      BY <1>1 DEF JoinsOwned
    <3> QED
      BY <1>11, <3>1
  <2>5. stack' = s /\ thr' = thr /\ win' = win /\ Len(s) = n
    BY <1>3, <1>4
  <2> QED
    BY <2>1, <2>2, <2>3, <2>4, <2>5 DEF JoinsOwned
<1>14. RefusalsOwned'
  BY <1>4 DEF RefusalsOwned
<1>15. OwnRefusalsOnly'
  BY <1>4, OutSame
<1> QED
  BY <1>8, <1>9, <1>10, <1>12, <1>13, <1>14, <1>15 DEF MInv

\* Both lanes are joined: the window is gone, and with it what was queued for it.
LEMMA BulkJoinedMInv ==
  ASSUME MInv, BulkJoined
  PROVE  MInv'
<1> TypeOK /\ JobsOwned /\ Counted /\ CallsOwned /\ JoinsOwned /\ RefusalsOwned
    /\ QuitOwned /\ OwnRefusalsOnly
  BY DEF MInv
<1> DEFINE n == Len(stack)
           w == Top[2][1]
           b == Top[2]
           sh == <<w, "shared">>
           p == Pop
<1>1. /\ stack # <<>> /\ n \in Nat /\ n # 0 /\ n = Len(stack) /\ Top = stack[n] /\ Top[1] = "join"
      /\ b = <<w, "bulk">> /\ b \in Thread /\ w \in Window /\ b[1] = w /\ win[w] = "teardown"
      /\ p \in Seq(Frame) /\ Len(p) = n - 1 /\ \A i \in 1..(n - 1) : p[i] = stack[i]
      /\ \A i \in 1..(n - 1) : stack[i][1] = "join" => stack[i][2][1] # w
  BY JoinFacts DEF BulkJoined
<1>2. /\ thr[b] \in Ended /\ refused' = refused \ {b} /\ stack' = p /\ win' = [win EXCEPT ![w] = "gone"]
      /\ req' = [r \in Req |-> IF req[r].to[1] = w /\ req[r].st \in {"queued", "posted"}
                               THEN Blank("dropped") ELSE req[r]]
      /\ Top[2] = b /\ Top[2][2] = "bulk" /\ Top[2][1] = w
  BY Zenon DEF BulkJoined
<1>20. /\ level' = level /\ looping' = looping /\ marshals' = marshals /\ thr' = thr
       /\ quit' = quit /\ queue' = queue /\ cur' = cur /\ inFlight' = inFlight
  BY DEF BulkJoined
<1>3. sh = <<w, "shared">> /\ sh \in Thread /\ \A t \in Thread : t[1] = w => t = sh \/ t = b
  BY <1>1, LaneFacts
<1> HIDE DEF n, w, b, sh, p
<1>4. n \in 1..n /\ \A i \in 1..(n - 1) : i \in 1..n /\ i # n
  BY <1>1
<1>5. thr[sh] \in Ended /\ sh \notin refused
  BY <1>1, <1>2, <1>3, <1>4 DEF JoinsOwned
<1>6. win'[w] = "gone" /\ \A v \in Window : v # w => win'[v] = win[v]
  BY <1>1, <1>2 DEF TypeOK
<1>7. /\ "dropped" \in ReqSt /\ Blank("dropped") \in Request /\ Blank("dropped").out = "none"
      /\ Blank("dropped").kind = "plain"
  BY BlankFacts DEF ReqSt
<1>8. /\ req' \in [Req -> Request]
      /\ \A r \in Req : req'[r] = req[r] \/ req'[r] = Blank("dropped")
      /\ \A r \in Req : req[r].to[1] # w \/ req[r].st \notin {"queued", "posted"} => req'[r] = req[r]
  <2>1. \A r \in Req : req[r] \in Request
    BY RequestFacts
  <2> QED
    BY <1>2, <1>7, <2>1
<1> HIDE DEF Blank
<1>9. \A t \in Thread : t[1] \in Window
  BY ThreadFacts
<1>10. TypeOK'
  <2>1. win' \in [Window -> {"open", "closing", "teardown", "gone"}]
    BY <1>1, <1>2 DEF TypeOK
  <2> QED
    BY <1>1, <1>2, <1>20, <1>8, <2>1 DEF TypeOK, Frame, Request, ReqSt, Outs
<1>11. \A t \in Thread : t[1] = w => thr[t] \in Ended
  BY <1>2, <1>3, <1>5
<1>12. JobsOwned'
  <2>1. \A u \in Thread : thr[u] \in InJob =>
          cur[u] \in Req /\ req'[cur[u]] = req[cur[u]]
          /\ req[cur[u]].st = "active" /\ req[cur[u]].to = u
    BY <1>8 DEF JobsOwned
  <2>2. \A u \in Thread : thr[u] \in {"checked", "parked"} => Reads(u)'
    BY <1>20, <2>1 DEF JobsOwned, Reads, InJob
  <2>3. ASSUME NEW u \in Thread, thr[u] # "exited", NEW i \in 1..Len(queue[u])
        PROVE  req'[queue[u][i]].st = "queued" /\ req'[queue[u][i]].to = u
    <3>1. queue[u][i] \in Req
      BY DEF TypeOK
    <3>2. req[queue[u][i]].st = "queued" /\ req[queue[u][i]].to = u
      BY <2>3 DEF JobsOwned
    <3>3. u[1] # w
      <4>1. SUFFICES ASSUME u[1] = w PROVE FALSE
        OBVIOUS
      <4>2. thr[u] = "none"
        BY <1>11, <2>3, <4>1 DEF Ended
      <4>3. queue[u] = <<>>
        BY <4>2 DEF JobsOwned
      <4> QED
        BY <4>3
    <3> QED
      BY <1>8, <3>1, <3>2, <3>3
  <2>4. \A r \in Req : req'[r].kind = "prompt" => req'[r].to[1] \in Prompter
    BY <1>7, <1>8 DEF JobsOwned
  <2>5. /\ \A u \in Thread : \A i, j \in 1..Len(queue[u]) : queue[u][i] = queue[u][j] => i = j
        /\ \A u \in Thread : thr[u] = "none" => queue[u] = <<>>
    BY DEF JobsOwned
  <2> QED
    BY <1>20, <2>1, <2>2, <2>3, <2>4, <2>5 DEF JobsOwned
<1>13. Counted'
  BY <1>20, CountSame DEF Load
<1>14. CallsOwned'
  <2>0. \A i \in 1..n : stack[i][1] = "prompt" => i \in 1..(n - 1) /\ p[i] = stack[i]
    BY <1>1
  <2>1. \A i \in 1..(n - 1) : p[i][1] = "prompt" =>
          /\ thr[p[i][2]] = "parked" /\ p[i][2][1] \in Prompter
          /\ \A j \in 1..Len(marshals) : marshals[j] # p[i][2]
    <3>1. \A i \in 1..n : stack[i][1] = "prompt" =>
            /\ thr[stack[i][2]] = "parked" /\ stack[i][2][1] \in Prompter
            /\ \A j \in 1..Len(marshals) : marshals[j] # stack[i][2]
      BY <1>1 DEF CallsOwned
    <3> QED
      BY <1>1, <1>4, <3>1
  <2>2. \A i, j \in 1..(n - 1) :
          (p[i][1] = "prompt" /\ p[j][1] = "prompt" /\ p[i][2] = p[j][2]) => i = j
    <3>1. \A i, j \in 1..n :
            (stack[i][1] = "prompt" /\ stack[j][1] = "prompt" /\ stack[i][2] = stack[j][2]) => i = j
      BY <1>1 DEF CallsOwned
    <3> QED
      BY <1>1, <1>4, <3>1
  <2>3. \A u \in Thread : thr[u] = "parked" =>
          \/ \E i \in 1..Len(marshals) : marshals[i] = u
          \/ \E i \in 1..(n - 1) : p[i][1] = "prompt" /\ p[i][2] = u
    <3>1. \A u \in Thread : thr[u] = "parked" =>
            \/ \E i \in 1..Len(marshals) : marshals[i] = u
            \/ \E i \in 1..n : stack[i][1] = "prompt" /\ stack[i][2] = u
      BY <1>1 DEF CallsOwned
    <3> QED
      BY <2>0, <3>1
  <2>4. /\ \A i \in 1..Len(marshals) : thr[marshals[i]] = "parked"
        /\ \A i, j \in 1..Len(marshals) : marshals[i] = marshals[j] => i = j
    BY DEF CallsOwned
  <2>5. marshals' = marshals /\ stack' = p /\ thr' = thr /\ Len(p) = n - 1
    BY <1>1, <1>2, <1>20
  <2> QED
    BY <2>1, <2>2, <2>3, <2>4, <2>5 DEF CallsOwned
<1>15. JoinsOwned'
  <2>0. \A i \in 1..(n - 1) : stack[i][2][1] \in Window
    <3>1. \A i \in 1..n : stack[i] \in Frame
      BY <1>1 DEF TypeOK, Frame
    <3> QED
      BY <1>4, <3>1, FrameFacts
  <2>1. \A v \in Window : win'[v] = "teardown" =>
          \E i \in 1..(n - 1) : p[i][1] = "join" /\ p[i][2][1] = v
    <3>1. \A v \in Window : win'[v] = "teardown" => v # w /\ win[v] = "teardown"
      BY <1>6
    <3>2. \A v \in Window : win[v] = "teardown" =>
            \E i \in 1..n : stack[i][1] = "join" /\ stack[i][2][1] = v
      BY <1>1 DEF JoinsOwned
    <3>3. \A i \in 1..n : stack[i][2][1] # w => i \in 1..(n - 1) /\ p[i] = stack[i]
      BY <1>1, <1>2
    <3> QED
      BY <3>1, <3>2, <3>3
  <2>2. ASSUME NEW i \in 1..(n - 1), p[i][1] = "join"
        PROVE  /\ win'[p[i][2][1]] = "teardown"
               /\ p[i][2][2] = "bulk" => /\ thr[<<p[i][2][1], "shared">>] \in Ended
                                         /\ <<p[i][2][1], "shared">> \notin refused'
               /\ p[i][2][1] = Main => i = 1
    <3>1. i \in 1..n /\ p[i] = stack[i] /\ stack[i][2][1] # w /\ stack[i][2][1] \in Window
      BY <1>1, <1>4, <2>0, <2>2
    <3>2. /\ win[stack[i][2][1]] = "teardown" /\ (stack[i][2][1] = Main => i = 1)
          /\ stack[i][2][2] = "bulk" => /\ thr[<<stack[i][2][1], "shared">>] \in Ended
                                        /\ <<stack[i][2][1], "shared">> \notin refused
      BY <1>1, <2>2, <3>1 DEF JoinsOwned
    <3> QED
      BY <1>2, <1>6, <3>1, <3>2
  <2>3. \A i, j \in 1..(n - 1) :
          (p[i][1] = "join" /\ p[j][1] = "join" /\ p[i][2][1] = p[j][2][1]) => i = j
    <3>1. \A i, j \in 1..n :
            (stack[i][1] = "join" /\ stack[j][1] = "join" /\ stack[i][2][1] = stack[j][2][1]) => i = j
      BY <1>1 DEF JoinsOwned
    <3>2. \A i \in 1..(n - 1) : i \in 1..n /\ p[i] = stack[i]
      BY <1>1, <1>4
    <3> QED
      BY <3>1, <3>2
  <2>4. \A i, j \in 1..(n - 1) :
          (p[i][1] = "join" /\ p[j][1] = "prompt" /\ i < j) => p[i][2][1] # p[j][2][1]
    <3>1. \A i, j \in 1..n :
            (stack[i][1] = "join" /\ stack[j][1] = "prompt" /\ i < j) => stack[i][2][1] # stack[j][2][1]
      BY <1>1 DEF JoinsOwned
    <3>2. \A i \in 1..(n - 1) : i \in 1..n /\ p[i] = stack[i]
      BY <1>1, <1>4
    <3> QED
      BY <3>1, <3>2
  <2>5. stack' = p /\ thr' = thr /\ Len(p) = n - 1
    BY <1>1, <1>2, <1>20
  <2> QED
    BY <2>1, <2>2, <2>3, <2>4, <2>5 DEF JoinsOwned
<1>16. RefusalsOwned'
  <2>1. \A t \in refused' : t[1] # w /\ win[t[1]] = "teardown" /\ t \in Thread
    BY <1>2, <1>3, <1>5 DEF RefusalsOwned, TypeOK
  <2>2. \A t \in Thread : t[1] # w => win'[t[1]] = win[t[1]]
    BY <1>6, <1>9
  <2>3. \A t \in Thread : win'[t[1]] = "teardown" => t \in refused' \/ thr[t] \in Ended
    BY <1>2, <1>6, <2>2 DEF RefusalsOwned
  <2>4. \A t \in Thread : win'[t[1]] = "gone" => thr[t] \in Ended
    BY <1>11, <2>2 DEF RefusalsOwned
  <2> QED
    BY <1>20, <2>1, <2>2, <2>3, <2>4 DEF RefusalsOwned
<1>17. QuitOwned'
  BY <1>6, <1>9, <1>20 DEF QuitOwned, Down, TypeOK
<1>18. OwnRefusalsOnly'
  BY <1>6, <1>7, <1>8, <1>20, OutSame DEF Down
<1> QED
  BY <1>10, <1>12, <1>13, <1>14, <1>15, <1>16, <1>17, <1>18 DEF MInv

\* A join returns.
LEMMA JoinMInv ==
  ASSUME MInv, joinRefusingMarshals
  PROVE  MInv'
<1>1. /\ Joining /\ thr[Top[2]] \in Ended /\ refused' = refused \ {Top[2]}
      /\ UNCHANGED <<level, looping, marshals, thr, quit, queue, cur, inFlight>>
  BY DEF joinRefusingMarshals, unrefuse, worker, Ended
<1>2. \/ /\ Top[2][2] = "shared"
         /\ stack' = Append(Pop, <<"join", <<Top[2][1], "bulk">>>>)
         /\ UNCHANGED <<win, req>>
      \/ /\ Top[2][2] = "bulk"
         /\ stack' = Pop /\ win' = [win EXCEPT ![Top[2][1]] = "gone"]
         /\ req' = [r \in Req |->
                      IF req[r].to[1] = Top[2][1] /\ req[r].st \in {"queued", "posted"}
                      THEN Blank("dropped") ELSE req[r]]
  BY Zenon DEF joinRefusingMarshals
<1>3. CASE Top[2][2] = "shared"
  <2>1. SharedJoined
    BY <1>1, <1>2, <1>3 DEF SharedJoined
  <2> QED
    BY <2>1, SharedJoinedMInv
<1>4. CASE Top[2][2] # "shared"
  <2>1. BulkJoined
    BY <1>1, <1>2, <1>4, Zenon DEF BulkJoined
  <2> QED
    BY <2>1, BulkJoinedMInv
<1> QED
  BY <1>3, <1>4

-----------------------------------------------------------------------------
(* Every step. *)

\* A worker's step.
LEMMA WorkerMInv ==
  ASSUME MInv, NEW t \in Thread, Worker(t)
  PROVE  MInv'
BY TakeMInv, ExitMInv, CheckMInv, ParkMInv, PostedMInv, ReturnMInv DEF Worker

\* A window is closed, or the last one.
LEMMA ClosingMInv ==
  ASSUME MInv, (\E w \in Window : close(w)) \/ LastWindowClosed
  PROVE  MInv'
<1>1. TypeOK
  BY DEF MInv
<1>2. UNCHANGED <<stack, refused, marshals, thr, quit, queue, cur, inFlight, req>>
  BY DEF close, LastWindowClosed, worker
<1>3. ASSUME NEW w \in Window, close(w)
      PROVE  MInv'
  <2>1. /\ win[w] = "open" /\ win' = [win EXCEPT ![w] = "closing"]
        /\ level' = [level EXCEPT ![w] = Len(stack)] /\ looping' = looping
    BY <1>3 DEF close
  <2>2. Len(stack) \in Nat
    BY <1>1 DEF TypeOK
  <2>3. /\ win' \in [Window -> {"open", "closing", "teardown", "gone"}]
        /\ level' \in [Window -> Nat] /\ looping' \in BOOLEAN
    BY <1>1, <2>1, <2>2 DEF TypeOK
  <2>4. \A v \in Window : win'[v] # win[v] => win[v] \notin Down /\ win'[v] \notin Down
    BY <1>1, <2>1 DEF TypeOK, Down
  <2> QED
    BY <1>2, <2>3, <2>4, CloseMInv
<1>4. CASE LastWindowClosed
  <2>1. win' = win /\ level' = level /\ looping' \in BOOLEAN
    BY <1>4 DEF LastWindowClosed
  <2>2. win' \in [Window -> {"open", "closing", "teardown", "gone"}] /\ level' \in [Window -> Nat]
    BY <1>1, <2>1 DEF TypeOK
  <2> QED
    BY <1>2, <2>1, <2>2, CloseMInv
<1> QED
  BY <1>3, <1>4

\* Nothing happens.
LEMMA StutterMInv ==
  ASSUME MInv, UNCHANGED vars
  PROVE  MInv'
<1>1. UNCHANGED <<win, level, looping, stack, refused, marshals, thr, quit, queue, cur, inFlight, req>>
  BY DEF vars, gui, worker
<1>2. TypeOK
  BY DEF MInv
<1>3. win' \in [Window -> {"open", "closing", "teardown", "gone"}] /\ level' \in [Window -> Nat]
      /\ looping' \in BOOLEAN
  BY <1>1, <1>2 DEF TypeOK
<1> QED
  BY <1>1, <1>3, CloseMInv

\* Every step preserves the invariant.
LEMMA NextMInv ==
  ASSUME MInv, [Next]_vars
  PROVE  MInv'
<1>1. CASE \E r \in Req : handleMcpRequest(r) \/ finishToolDispatch(r)
  BY <1>1, HandleMInv, FinishMInv
<1>2. CASE \E t \in Thread : Worker(t)
  BY <1>2, WorkerMInv
<1>3. CASE Deliver \/ showPrompt \/ joinRefusingMarshals
  BY <1>3, DeliverMInv, PromptMInv, JoinMInv
<1>4. CASE \E w \in Window : close(w) \/ Destroy(w)
  BY <1>4, ClosingMInv, DestroyMInv
<1>5. CASE LastWindowClosed
  BY <1>5, ClosingMInv
<1>6. CASE Terminated \/ UNCHANGED vars
  BY <1>6, StutterMInv DEF Terminated
<1> QED
  BY <1>1, <1>2, <1>3, <1>4, <1>5, <1>6 DEF Next

-----------------------------------------------------------------------------
(* Action properties. *)

\* A read made for a worker is a queued call that nobody refuses.
LEMMA DeliverReads ==
  ASSUME MInv, Deliver, NEW r \in Req, req[r].out = "none", req'[r].out = "value"
  PROVE  win[req[r].to[1]] # "teardown"
<1> TypeOK /\ JobsOwned /\ Counted /\ CallsOwned /\ JoinsOwned /\ RefusalsOwned
    /\ QuitOwned /\ OwnRefusalsOnly
  BY DEF MInv
<1> DEFINE t == Head(marshals)
<1>1. /\ marshals # <<>> /\ Call(t)
      /\ UNCHANGED <<win, level, looping, refused, quit, queue, cur, inFlight>>
  BY DEF Deliver
<1>2. t \in Thread /\ thr[t] = "parked"
  BY <1>1, HeadCall
<1> HIDE DEF t
<1>3. CASE t \in refused
  <2>1. Release(t, "nullopt")
    BY <1>1, <1>3 DEF Call, guiMarshalRefused
  <2>2. cur[t] \in Req
    BY <1>2 DEF JobsOwned, InJob
  <2>3. req' = [req EXCEPT ![cur[t]].out = "nullopt"]
    BY <2>1 DEF Release
  <2>4. req'[cur[t]].out = "nullopt" /\ \A q \in Req : q # cur[t] => req'[q] = req[q]
    BY <2>2, <2>3, OutSet DEF Outs
  <2> QED
    BY <2>4
<1>4. CASE t \notin refused
  <2>1. Release(t, "value") \/ req' = req
    BY <1>1, <1>4 DEF Call, guiMarshalRefused
  <2>2. Release(t, "value")
    BY <2>1
  <2>3. \A q \in Req : req'[q].out # req[q].out => req[q].to = t
    BY <1>1, <1>2, <2>2, ReleaseMInv
  <2>4. req[r].to = t
    BY <2>3
  <2>5. win[t[1]] # "teardown"
    BY <1>2, <1>4 DEF RefusalsOwned, Ended
  <2> QED
    BY <2>4, <2>5
<1> QED
  BY <1>3, <1>4

\* An answered prompt was above no join of its own window.
LEMMA PromptReads ==
  ASSUME MInv, showPrompt, NEW r \in Req, req[r].out = "none", req'[r].out = "value"
  PROVE  win[req[r].to[1]] # "teardown"
<1> TypeOK /\ JobsOwned /\ Counted /\ CallsOwned /\ JoinsOwned /\ RefusalsOwned
    /\ QuitOwned /\ OwnRefusalsOnly
  BY DEF MInv
<1> DEFINE n == Len(stack)
<1>1. Top[2] \in Thread /\ req[r].to = Top[2]
  BY PromptMInv
<1>2. stack # <<>> /\ Top[1] = "prompt" /\ Top = stack[n] /\ stack \in Seq(Frame)
  BY DEF showPrompt, Top, TypeOK, Frame
<1>3. n \in Nat /\ n # 0
  BY <1>2, PopFacts
<1>4. /\ \A w \in Window : win[w] = "teardown" =>
           \E i \in 1..n : stack[i][1] = "join" /\ stack[i][2][1] = w
      /\ \A i, j \in 1..n :
           (stack[i][1] = "join" /\ stack[j][1] = "prompt" /\ i < j) => stack[i][2][1] # stack[j][2][1]
  BY DEF JoinsOwned
<1> HIDE DEF n
<1>5. Top[2][1] \in Window
  BY <1>1, ThreadFacts
<1>6. ASSUME NEW i \in 1..n, stack[i][1] = "join"
      PROVE  stack[i][2][1] # Top[2][1]
  <2>1. i # n
    BY <1>2, <1>6
  <2>2. i < n /\ n \in 1..n
    BY <1>3, <2>1
  <2> QED
    BY <1>2, <1>4, <1>6, <2>2
<1> QED
  BY <1>1, <1>4, <1>5, <1>6

\* No other step reads a window.
LEMMA OthersReadNothing ==
  ASSUME MInv, [Next]_vars, ~Deliver, ~showPrompt, NEW r \in Req, req'[r].out = "value"
  PROVE  req[r].out = "value"
<1> TypeOK /\ JobsOwned /\ Counted /\ CallsOwned /\ JoinsOwned /\ RefusalsOwned
    /\ QuitOwned /\ OwnRefusalsOnly
  BY DEF MInv
<1>1. ASSUME NEW q \in Req, handleMcpRequest(q) \/ finishToolDispatch(q)
      PROVE  req[r].out = "value"
  <2>0. req \in [Req -> Request]
    BY RequestFacts
  <2>1. ASSUME NEW x, req' = [req EXCEPT ![q] = x], x.out = "none"
        PROVE  req[r].out = "value"
    BY <2>0, <2>1
  <2>2. ASSUME NEW end, req' = [req EXCEPT ![q] = Blank(end)]
        PROVE  req[r].out = "value"
    <3>1. Blank(end).out = "none"
      BY DEF Blank
    <3> QED
      BY <2>1, <2>2, <3>1
  <2>3. CASE finishToolDispatch(q)
    BY <2>2, <2>3 DEF finishToolDispatch
  <2>4. CASE handleMcpRequest(q)
    <3>1. \E w \in Window, k \in Kind : \E l \in lanes(k) :
            \/ req' = [req EXCEPT ![q] = [st |-> "queued", to |-> <<w, l>>, kind |-> k,
                                          out |-> "none"]]
            \/ req' = [req EXCEPT ![q] = Blank("answered")]
      BY <2>4, Zenon DEF handleMcpRequest
    <3>2. ASSUME NEW w, NEW k, NEW l,
                 req' = [req EXCEPT ![q] = [st |-> "queued", to |-> <<w, l>>, kind |-> k,
                                            out |-> "none"]]
          PROVE  req[r].out = "value"
      <4> DEFINE x == [st |-> "queued", to |-> <<w, l>>, kind |-> k, out |-> "none"]
      <4>1. x.out = "none" /\ req' = [req EXCEPT ![q] = x]
        BY <3>2
      <4> HIDE DEF x
      <4> QED
        BY <2>1, <4>1
    <3> QED
      BY <2>2, <3>1, <3>2
  <2> QED
    BY <1>1, <2>3, <2>4
<1>2. ASSUME NEW t \in Thread, Worker(t)
      PROVE  req[r].out = "value"
  <2>1. CASE Take(t)
    <3>1. queue[t] # <<>> /\ req' = [req EXCEPT ![Head(queue[t])].st = "active"]
          /\ queue[t] \in Seq(Req)
      BY <2>1 DEF Take, TypeOK
    <3>2. Head(queue[t]) \in Req
      BY <3>1, TailFacts
    <3>3. \A q \in Req : req'[q].out = req[q].out
      BY <3>1, <3>2, StSet DEF ReqSt
    <3> QED
      BY <3>3
  <2>2. CASE Check(t)
    <3>1. cur[t] \in Req
      BY <2>2 DEF Check, JobsOwned, InJob
    <3>2. req' = req \/ req' = [req EXCEPT ![cur[t]].out = "nullopt"]
      BY <2>2 DEF Check
    <3>3. CASE req' = [req EXCEPT ![cur[t]].out = "nullopt"]
      <4>1. req'[cur[t]].out = "nullopt" /\ \A q \in Req : q # cur[t] => req'[q] = req[q]
        BY <3>1, <3>3, OutSet DEF Outs
      <4> QED
        BY <4>1
    <3> QED
      BY <3>2, <3>3
  <2>3. CASE postToolDispatch(t)
    <3>1. cur[t] \in Req
      BY <2>3 DEF postToolDispatch, JobsOwned, InJob
    <3>2. req' = [req EXCEPT ![cur[t]].st = "posted"]
      BY <2>3 DEF postToolDispatch
    <3>3. \A q \in Req : req'[q].out = req[q].out
      BY <3>1, <3>2, StSet DEF ReqSt
    <3> QED
      BY <3>3
  <2>4. CASE Exit(t) \/ onGuiThread(t) \/ Return(t)
    BY <2>4 DEF Exit, onGuiThread, Return
  <2> QED
    BY <1>2, <2>1, <2>2, <2>3, <2>4 DEF Worker
<1>3. CASE joinRefusingMarshals
  <2>1. req' = req \/ \A q \in Req : req'[q] = req[q] \/ req'[q] = Blank("dropped")
    BY <1>3 DEF joinRefusingMarshals
  <2> QED
    BY <2>1 DEF Blank
<1>4. CASE (\E w \in Window : close(w) \/ Destroy(w)) \/ LastWindowClosed \/ Terminated
           \/ UNCHANGED vars
  BY <1>4 DEF close, Destroy, LastWindowClosed, Terminated, vars
<1> QED
  BY <1>1, <1>2, <1>3, <1>4 DEF Next

\* Only an accepted request lengthens a queue.
LEMMA QueuesGrow ==
  ASSUME MInv, [Next]_vars, NEW t \in Thread, Len(queue'[t]) > Len(queue[t])
  PROVE  thr[t] # "exited"
<1> TypeOK /\ JobsOwned /\ Counted /\ CallsOwned /\ JoinsOwned /\ RefusalsOwned
    /\ QuitOwned /\ OwnRefusalsOnly
  BY DEF MInv
<1>1. ASSUME NEW r \in Req, handleMcpRequest(r)
      PROVE  thr[t] # "exited"
  <2>1. queue'[t] # queue[t]
    <3>1. Len(queue[t]) \in Nat
      BY DEF TypeOK
    <3> QED
      BY <3>1
  <2> QED
    BY <1>1, <2>1, HandleMInv
<1>2. ASSUME NEW u \in Thread, Take(u)
      PROVE  FALSE
  <2>1. queue[u] # <<>> /\ queue' = [queue EXCEPT ![u] = Tail(queue[u])] /\ queue[u] \in Seq(Req)
    BY <1>2 DEF Take, TypeOK
  <2>2. Len(queue[u]) \in Nat /\ Len(Tail(queue[u])) = Len(queue[u]) - 1
    BY <2>1, TailFacts
  <2>3. queue'[u] = Tail(queue[u]) /\ (t # u => queue'[t] = queue[t]) /\ Len(queue[t]) \in Nat
    BY <2>1 DEF TypeOK
  <2>4. t = u
    BY <2>3
  <2> DEFINE a == Len(queue[u])
             b == Len(Tail(queue[u]))
  <2>5. a \in Nat /\ b = a - 1 /\ b > a
    BY <2>2, <2>3, <2>4
  <2> HIDE DEF a, b
  <2> QED
    BY <2>5
<1>3. ASSUME queue' = queue
      PROVE  FALSE
  <2>1. Len(queue[t]) \in Nat
    BY DEF TypeOK
  <2> QED
    BY <1>3, <2>1
<1>4. ASSUME NEW u \in Thread, Worker(u)
      PROVE  Take(u) \/ queue' = queue
  BY <1>4 DEF Worker, Exit, Check, onGuiThread, postToolDispatch, Return
<1>5. ASSUME \/ \E r \in Req : finishToolDispatch(r)
             \/ Deliver \/ showPrompt \/ joinRefusingMarshals
             \/ \E w \in Window : close(w) \/ Destroy(w)
             \/ LastWindowClosed \/ Terminated \/ UNCHANGED vars
      PROVE  queue' = queue
  BY <1>5 DEF finishToolDispatch, Deliver, showPrompt, joinRefusingMarshals, close, Destroy,
              LastWindowClosed, Terminated, vars, worker
<1> QED
  BY <1>1, <1>2, <1>3, <1>4, <1>5 DEF Next

-----------------------------------------------------------------------------
(* Where a request is. *)

\* What a step does to the states of the requests.
Moved == \A r \in Req : req'[r].st # req[r].st => <<req[r].st, req'[r].st>> \in Steps

\* No request moves.
LEMMA HeldSame ==
  ASSUME TypeOK, JobsHeld, \A r \in Req : req'[r].st = req[r].st /\ req'[r].to = req[r].to,
         UNCHANGED queue,
         \A t \in Thread : thr[t] \in InJob => thr'[t] \in InJob /\ cur'[t] = cur[t],
         \A w \in Window : win'[w] = "gone" => win[w] = "gone"
  PROVE  JobsHeld' /\ Moved
<1>1. \A r \in Req : req[r].to \in Thread /\ req[r].to[1] \in Window
  BY RequestFacts
<1>2. \A r \in Req : req'[r].st = "queued" =>
        \E i \in 1..Len(queue'[req'[r].to]) : queue'[req'[r].to][i] = r
  BY <1>1 DEF JobsHeld
<1>3. \A r \in Req : req'[r].st = "active" => thr'[req'[r].to] \in InJob /\ cur'[req'[r].to] = r
  BY <1>1 DEF JobsHeld
<1>4. \A r \in Req : req'[r].st \in {"queued", "active", "posted"} => win'[req'[r].to[1]] # "gone"
  BY <1>1 DEF JobsHeld
<1> QED
  BY <1>2, <1>3, <1>4 DEF JobsHeld, Moved

\* One request is settled.
LEMMA HeldSettle ==
  ASSUME TypeOK, JobsHeld, NEW q \in Req, NEW end \in {"answered", "dropped"},
         req' = [req EXCEPT ![q] = Blank(end)], <<req[q].st, end>> \in Steps,
         UNCHANGED <<win, thr, queue, cur>>
  PROVE  JobsHeld' /\ Moved
<1>0. end \in ReqSt
  BY DEF ReqSt
<1>1. req'[q].st = end /\ \A r \in Req : r # q => req'[r] = req[r]
  BY <1>0, BlankFacts, RequestSet
<1>2. JobsHeld'
  <2>1. \A r \in Req : req'[r].st \in {"queued", "active", "posted"} => req'[r] = req[r]
    BY <1>1
  <2> QED
    BY <2>1 DEF JobsHeld
<1>3. Moved
  BY <1>1 DEF Moved
<1> QED
  BY <1>2, <1>3

\* A request is accepted: it waits in the queue of its worker.
LEMMA HeldPost ==
  ASSUME TypeOK, JobsHeld, NEW q \in Req, req[q].st = "unsent", NEW t \in Thread,
         win[t[1]] # "gone", postWorkerJob(q, t), NEW x \in Request, x.st = "queued", x.to = t,
         req' = [req EXCEPT ![q] = x], UNCHANGED <<win, cur>>
  PROVE  JobsHeld' /\ Moved
<1> DEFINE n == Len(queue[t])
           a == Append(queue[t], q)
<1>1. req'[q] = x /\ \A r \in Req : r # q => req'[r] = req[r]
  BY RequestSet
<1>2. /\ a \in Seq(Req) /\ n \in Nat /\ n = Len(queue[t]) /\ Len(a) = n + 1
      /\ a[n + 1] = q /\ \A i \in 1..n : a[i] = queue[t][i]
  <2>1. queue[t] \in Seq(Req)
    BY DEF TypeOK
  <2> QED
    BY <2>1, AppendFacts
<1>3. queue' = [queue EXCEPT ![t] = a] /\ thr' = [thr EXCEPT ![t] = IF @ = "none" THEN "idle" ELSE @]
  BY DEF postWorkerJob
<1> HIDE DEF n, a
<1>4. /\ queue'[t] = a /\ \A u \in Thread : u # t => queue'[u] = queue[u]
      /\ \A u \in Thread : thr[u] \in InJob => thr'[u] \in InJob
  BY <1>3 DEF TypeOK, InJob
<1>5. n + 1 \in 1..Len(a) /\ \A i \in 1..n : i \in 1..Len(a)
  BY <1>2
<1>6. ASSUME NEW r \in Req, req'[r].st = "queued"
      PROVE  \E i \in 1..Len(queue'[req'[r].to]) : queue'[req'[r].to][i] = r
  <2>1. CASE r = q
    BY <1>1, <1>2, <1>4, <1>5, <2>1
  <2>2. CASE r # q
    <3>1. req'[r] = req[r] /\ req[r].to \in Thread
      BY <1>1, <2>2, RequestFacts
    <3>2. PICK i \in 1..Len(queue[req[r].to]) : queue[req[r].to][i] = r
      BY <1>6, <3>1 DEF JobsHeld
    <3>3. CASE req[r].to = t
      <4>1. i \in 1..n /\ queue[t][i] = r
        BY <1>2, <3>2, <3>3
      <4>2. i \in 1..Len(a) /\ a[i] = r
        BY <1>2, <1>5, <4>1
      <4> QED
        BY <1>4, <3>1, <3>3, <4>2
    <3>4. CASE req[r].to # t
      BY <1>4, <3>1, <3>2, <3>4
    <3> QED
      BY <3>3, <3>4
  <2> QED
    BY <2>1, <2>2
<1>7. \A r \in Req : req[r].to \in Thread
  BY RequestFacts
<1>8. \A r \in Req : req'[r].st = "active" => thr'[req'[r].to] \in InJob /\ cur'[req'[r].to] = r
  BY <1>1, <1>4, <1>7 DEF JobsHeld
<1>9. \A r \in Req : req'[r].st \in {"queued", "active", "posted"} => win'[req'[r].to[1]] # "gone"
  BY <1>1 DEF JobsHeld
<1>10. Moved
  BY <1>1 DEF Moved, Steps
<1> QED
  BY <1>6, <1>8, <1>9, <1>10 DEF JobsHeld

\* A request arrives.
LEMMA HeldHandle ==
  ASSUME MInv, JobsHeld, NEW q \in Req, handleMcpRequest(q)
  PROVE  JobsHeld' /\ Moved
<1>0. TypeOK /\ req[q].st = "unsent" /\ win' = win /\ cur' = cur
  BY DEF MInv, handleMcpRequest, gui
<1>1. PICK w \in Window, k \in Kind : \E l \in lanes(k) :
        /\ win[w] # "gone"
        /\ \/ /\ postWorkerJob(q, <<w, l>>)
              /\ req' = [req EXCEPT ![q] = [st |-> "queued", to |-> <<w, l>>,
                                           kind |-> k, out |-> "none"]]
           \/ /\ UNCHANGED <<thr, queue, inFlight>>
              /\ req' = [req EXCEPT ![q] = Blank("answered")]
  BY Zenon DEF handleMcpRequest
<1>2. PICK l \in lanes(k) :
        /\ win[w] # "gone"
        /\ \/ /\ postWorkerJob(q, <<w, l>>)
              /\ req' = [req EXCEPT ![q] = [st |-> "queued", to |-> <<w, l>>,
                                           kind |-> k, out |-> "none"]]
           \/ /\ UNCHANGED <<thr, queue, inFlight>>
              /\ req' = [req EXCEPT ![q] = Blank("answered")]
  BY <1>1
<1>3. <<w, l>> \in Thread /\ <<w, l>>[1] = w
  BY DEF lanes, Lane, Thread
<1>4. CASE postWorkerJob(q, <<w, l>>)
           /\ req' = [req EXCEPT ![q] = [st |-> "queued", to |-> <<w, l>>, kind |-> k,
                                         out |-> "none"]]
  <2> DEFINE t == <<w, l>>
             x == [st |-> "queued", to |-> t, kind |-> k, out |-> "none"]
  <2>1. x \in Request /\ x.st = "queued" /\ x.to = t
    BY <1>3 DEF Request, ReqSt, Outs
  <2>2. req' = [req EXCEPT ![q] = x] /\ postWorkerJob(q, t) /\ t \in Thread /\ win[t[1]] # "gone"
    BY <1>2, <1>3, <1>4
  <2> HIDE DEF t, x
  <2> QED
    BY <1>0, <2>1, <2>2, HeldPost
<1>5. CASE UNCHANGED <<thr, queue, inFlight>> /\ req' = [req EXCEPT ![q] = Blank("answered")]
  <2>1. <<req[q].st, "answered">> \in Steps
    BY <1>0 DEF Steps
  <2> QED
    BY <1>0, <1>5, <2>1, HeldSettle
<1> QED
  BY <1>2, <1>4, <1>5

\* A reply is sent.
LEMMA HeldFinish ==
  ASSUME MInv, JobsHeld, NEW q \in Req, finishToolDispatch(q)
  PROVE  JobsHeld' /\ Moved
<1>1. PICK end \in {"answered", "dropped"} : req' = [req EXCEPT ![q] = Blank(end)]
  BY DEF finishToolDispatch
<1>2. TypeOK /\ req[q].st = "posted" /\ UNCHANGED <<win, thr, queue, cur>>
  BY DEF MInv, finishToolDispatch, gui, worker
<1>3. <<req[q].st, end>> \in Steps
  BY <1>2 DEF Steps
<1> QED
  BY <1>1, <1>2, <1>3, HeldSettle

\* A job is taken: the others of its queue stay in it.
LEMMA HeldTake ==
  ASSUME MInv, JobsHeld, NEW t \in Thread, Take(t)
  PROVE  JobsHeld' /\ Moved
<1> TypeOK /\ JobsOwned /\ Counted /\ CallsOwned /\ JoinsOwned /\ RefusalsOwned
    /\ QuitOwned /\ OwnRefusalsOnly
  BY DEF MInv
<1> DEFINE h == Head(queue[t])
           tl == Tail(queue[t])
           n == Len(queue[t])
<1>1. /\ thr[t] = "idle" /\ queue[t] # <<>> /\ thr' = [thr EXCEPT ![t] = "running"]
      /\ cur' = [cur EXCEPT ![t] = h] /\ queue' = [queue EXCEPT ![t] = tl]
      /\ req' = [req EXCEPT ![h].st = "active"] /\ win' = win
  BY DEF Take, gui
<1>2. /\ n \in Nat /\ n # 0 /\ n = Len(queue[t]) /\ h = queue[t][1] /\ h \in Req
      /\ tl \in Seq(Req) /\ Len(tl) = n - 1
      /\ \A i \in 1..(n - 1) : tl[i] = queue[t][i + 1]
  <2>1. queue[t] \in Seq(Req)
    BY DEF TypeOK
  <2> QED
    BY <1>1, <2>1, TailFacts
<1> HIDE DEF h, tl, n
<1>3. /\ req'[h].st = "active" /\ req'[h].to = req[h].to
      /\ \A r \in Req : r # h => req'[r] = req[r]
  BY <1>1, <1>2, StSet DEF ReqSt
<1>4. /\ thr'[t] = "running" /\ cur'[t] = h /\ queue'[t] = tl
      /\ \A u \in Thread : u # t => thr'[u] = thr[u] /\ cur'[u] = cur[u] /\ queue'[u] = queue[u]
  BY <1>1 DEF TypeOK
<1>5. req[h].st = "queued" /\ req[h].to = t
  <2>1. 1 \in 1..Len(queue[t])
    BY <1>2
  <2> QED
    BY <1>1, <1>2, <2>1 DEF JobsOwned
<1>6. ASSUME NEW r \in Req, req'[r].st = "queued"
      PROVE  \E i \in 1..Len(queue'[req'[r].to]) : queue'[req'[r].to][i] = r
  <2>1. r # h /\ req'[r] = req[r] /\ req[r].to \in Thread
    BY <1>3, <1>6, RequestFacts
  <2>2. PICK i \in 1..Len(queue[req[r].to]) : queue[req[r].to][i] = r
    BY <1>6, <2>1 DEF JobsHeld
  <2>3. CASE req[r].to = t
    <3>1. i \in 1..n /\ queue[t][i] = r /\ i # 1
      BY <1>2, <2>1, <2>2, <2>3
    <3>2. i - 1 \in 1..(n - 1) /\ (i - 1) + 1 = i
      BY <1>2, <3>1
    <3>3. i - 1 \in 1..Len(tl) /\ tl[i - 1] = r
      BY <1>2, <3>1, <3>2
    <3> QED
      BY <1>4, <2>1, <2>3, <3>3
  <2>4. CASE req[r].to # t
    BY <1>4, <2>1, <2>2, <2>4
  <2> QED
    BY <2>3, <2>4
<1>7. ASSUME NEW r \in Req, req'[r].st = "active"
      PROVE  thr'[req'[r].to] \in InJob /\ cur'[req'[r].to] = r
  <2>1. CASE r = h
    BY <1>3, <1>4, <1>5, <2>1 DEF InJob
  <2>2. CASE r # h
    <3>1. req'[r] = req[r] /\ req[r].to \in Thread /\ thr[req[r].to] \in InJob /\ cur[req[r].to] = r
      BY <1>3, <1>7, <2>2, RequestFacts DEF JobsHeld
    <3>2. req[r].to # t
      BY <1>1, <3>1 DEF InJob
    <3> QED
      BY <1>4, <3>1, <3>2
  <2> QED
    BY <2>1, <2>2
<1>8. \A r \in Req : req'[r].st \in {"queued", "active", "posted"} => win'[req'[r].to[1]] # "gone"
  BY <1>1, <1>3, <1>5 DEF JobsHeld
<1>9. Moved
  BY <1>3, <1>5 DEF Moved, Steps
<1> QED
  BY <1>6, <1>7, <1>8, <1>9 DEF JobsHeld

\* A job is over.
LEMMA HeldPosted ==
  ASSUME MInv, JobsHeld, NEW t \in Thread, postToolDispatch(t)
  PROVE  JobsHeld' /\ Moved
<1> TypeOK /\ JobsOwned /\ Counted /\ CallsOwned /\ JoinsOwned /\ RefusalsOwned
    /\ QuitOwned /\ OwnRefusalsOnly
  BY DEF MInv
<1>1. /\ thr[t] = "running" /\ thr' = [thr EXCEPT ![t] = "returning"]
      /\ req' = [req EXCEPT ![cur[t]].st = "posted"]
      /\ win' = win /\ queue' = queue /\ cur' = cur
  BY DEF postToolDispatch, gui
<1>2. cur[t] \in Req /\ req[cur[t]].st = "active" /\ req[cur[t]].to = t
  BY <1>1 DEF JobsOwned, InJob
<1>3. /\ req'[cur[t]].st = "posted" /\ req'[cur[t]].to = req[cur[t]].to
      /\ \A r \in Req : r # cur[t] => req'[r] = req[r]
  BY <1>1, <1>2, StSet DEF ReqSt
<1>4. \A u \in Thread : u # t => thr'[u] = thr[u]
  BY <1>1 DEF TypeOK
<1>5. \A r \in Req : req'[r].st = "queued" =>
        \E i \in 1..Len(queue'[req'[r].to]) : queue'[req'[r].to][i] = r
  BY <1>1, <1>3 DEF JobsHeld
<1>6. ASSUME NEW r \in Req, req'[r].st = "active"
      PROVE  thr'[req'[r].to] \in InJob /\ cur'[req'[r].to] = r
  <2>1. r # cur[t] /\ req'[r] = req[r] /\ req[r].to \in Thread
    BY <1>3, <1>6, RequestFacts
  <2>2. thr[req[r].to] \in InJob /\ cur[req[r].to] = r
    BY <1>6, <2>1 DEF JobsHeld
  <2>3. req[r].to # t
    BY <2>1, <2>2
  <2> QED
    BY <1>1, <1>4, <2>1, <2>2, <2>3
<1>7. \A r \in Req : req'[r].st \in {"queued", "active", "posted"} => win'[req'[r].to[1]] # "gone"
  BY <1>1, <1>2, <1>3 DEF JobsHeld
<1>8. Moved
  BY <1>2, <1>3 DEF Moved, Steps
<1> QED
  BY <1>5, <1>6, <1>7, <1>8 DEF JobsHeld

\* The other steps of a worker.
LEMMA HeldWorker ==
  ASSUME MInv, JobsHeld, NEW t \in Thread, Exit(t) \/ Check(t) \/ onGuiThread(t) \/ Return(t)
  PROVE  JobsHeld' /\ Moved
<1> TypeOK /\ JobsOwned /\ Counted /\ CallsOwned /\ JoinsOwned /\ RefusalsOwned
    /\ QuitOwned /\ OwnRefusalsOnly
  BY DEF MInv
<1>1. win' = win /\ queue' = queue
  BY DEF Exit, Check, onGuiThread, Return, gui
<1>2. \A u \in Thread : thr[u] \in InJob => thr'[u] \in InJob /\ cur'[u] = cur[u]
  <2>1. CASE Exit(t)
    BY <2>1 DEF Exit, TypeOK, InJob
  <2>2. CASE Check(t)
    BY <2>2 DEF Check, TypeOK, InJob
  <2>3. CASE onGuiThread(t)
    BY <2>3 DEF onGuiThread, TypeOK, InJob
  <2>4. CASE Return(t)
    BY <2>4 DEF Return, TypeOK, InJob
  <2> QED
    BY <2>1, <2>2, <2>3, <2>4
<1>3. \A r \in Req : req'[r].st = req[r].st /\ req'[r].to = req[r].to
  <2>1. CASE Check(t)
    <3>1. cur[t] \in Req
      BY <2>1 DEF Check, JobsOwned, InJob
    <3>2. req' = req \/ req' = [req EXCEPT ![cur[t]].out = "nullopt"]
      BY <2>1 DEF Check
    <3>3. CASE req' = [req EXCEPT ![cur[t]].out = "nullopt"]
      BY <3>1, <3>3, OutSet DEF Outs
    <3> QED
      BY <3>2, <3>3
  <2>2. CASE Exit(t) \/ onGuiThread(t) \/ Return(t)
    BY <2>2 DEF Exit, onGuiThread, Return
  <2> QED
    BY <2>1, <2>2
<1> QED
  BY <1>1, <1>2, <1>3, HeldSame

\* A call made for a worker.
LEMMA HeldCall ==
  ASSUME MInv, JobsHeld, Deliver \/ showPrompt
  PROVE  JobsHeld' /\ Moved
<1> TypeOK /\ JobsOwned /\ Counted /\ CallsOwned /\ JoinsOwned /\ RefusalsOwned
    /\ QuitOwned /\ OwnRefusalsOnly
  BY DEF MInv
<1>1. win' = win /\ queue' = queue /\ cur' = cur
  BY DEF Deliver, showPrompt
<1>2. ASSUME NEW t \in Thread, thr[t] = "parked", NEW out \in {"value", "nullopt"}, Release(t, out)
      PROVE  JobsHeld' /\ Moved
  <2>1. cur[t] \in Req
    BY <1>2 DEF JobsOwned, InJob
  <2>2. req' = [req EXCEPT ![cur[t]].out = out] /\ thr' = [thr EXCEPT ![t] = "running"]
    BY <1>2 DEF Release
  <2>3. \A r \in Req : req'[r].st = req[r].st /\ req'[r].to = req[r].to
    BY <2>1, <2>2, OutSet DEF Outs
  <2>4. \A u \in Thread : thr[u] \in InJob => thr'[u] \in InJob
    BY <2>2 DEF TypeOK, InJob
  <2> QED
    BY <1>1, <2>3, <2>4, HeldSame
<1>3. ASSUME req' = req, thr' = thr
      PROVE  JobsHeld' /\ Moved
  BY <1>1, <1>3, HeldSame
<1>4. CASE Deliver
  <2>1. Call(Head(marshals)) /\ Head(marshals) \in Thread /\ thr[Head(marshals)] = "parked"
    BY <1>4, HeadCall DEF Deliver
  <2>2. \/ Release(Head(marshals), "nullopt") \/ Release(Head(marshals), "value")
        \/ req' = req /\ thr' = thr
    BY <2>1 DEF Call
  <2> QED
    BY <1>2, <1>3, <2>1, <2>2
<1>5. CASE showPrompt
  <2>1. stack # <<>> /\ Top[1] = "prompt" /\ Release(Top[2], "value") /\ stack \in Seq(Frame)
    BY <1>5 DEF showPrompt, TypeOK, Frame
  <2>2. Len(stack) \in Nat /\ Len(stack) # 0 /\ Top \in Frame
    BY <2>1, PopFacts
  <2>3. Len(stack) \in 1..Len(stack) /\ Top = stack[Len(stack)]
    BY <2>2 DEF Top
  <2>4. thr[Top[2]] = "parked" /\ Top[2] \in Thread
    BY <2>1, <2>2, <2>3, FrameFacts DEF CallsOwned
  <2> QED
    BY <1>2, <2>1, <2>4
<1> QED
  BY <1>4, <1>5

\* A window goes, and what was still queued or posted for it is dropped.
LEMMA HeldJoin ==
  ASSUME MInv, JobsHeld, joinRefusingMarshals
  PROVE  JobsHeld' /\ Moved
<1> TypeOK /\ JobsOwned /\ Counted /\ CallsOwned /\ JoinsOwned /\ RefusalsOwned
    /\ QuitOwned /\ OwnRefusalsOnly
  BY DEF MInv
<1> DEFINE w == Top[2][1]
<1>1. /\ Joining /\ thr[Top[2]] \in Ended /\ thr' = thr /\ queue' = queue /\ cur' = cur
  BY DEF joinRefusingMarshals, worker, Ended
<1>2. \/ Top[2][2] = "shared" /\ win' = win /\ req' = req
      \/ /\ Top[2][2] = "bulk" /\ win' = [win EXCEPT ![w] = "gone"]
         /\ req' = [r \in Req |-> IF req[r].to[1] = w /\ req[r].st \in {"queued", "posted"}
                                  THEN Blank("dropped") ELSE req[r]]
  BY Zenon DEF joinRefusingMarshals
<1>3. CASE win' = win /\ req' = req
  BY <1>1, <1>3, HeldSame
<1>4. CASE /\ Top[2][2] = "bulk" /\ win' = [win EXCEPT ![w] = "gone"]
           /\ req' = [r \in Req |-> IF req[r].to[1] = w /\ req[r].st \in {"queued", "posted"}
                                    THEN Blank("dropped") ELSE req[r]]
  <2>1. /\ w \in Window /\ Top[2] = <<w, "bulk">> /\ Len(stack) \in Nat \ {0}
        /\ Top = stack[Len(stack)] /\ Top[1] = "join"
    BY <1>1, <1>4, JoinFacts
  <2>2. thr[<<w, "shared">>] \in Ended
    <3>1. Len(stack) \in 1..Len(stack)
      BY <2>1
    <3> QED
      BY <1>4, <2>1, <3>1 DEF JoinsOwned
  <2>3. \A t \in Thread : t[1] = w => thr[t] \in Ended
    BY <1>1, <2>1, <2>2, LaneFacts
  <2>4. Blank("dropped").st = "dropped"
    BY DEF Blank
  <2> HIDE DEF w, Blank
  <2>5. win'[w] = "gone" /\ \A v \in Window : v # w => win'[v] = win[v]
    BY <1>4, <2>1 DEF TypeOK
  <2>6. \A r \in Req : /\ req[r].to \in Thread /\ req[r].to[1] \in Window
                       /\ req[r].st = "active" => req[r].to[1] # w
    BY <2>3, RequestFacts DEF JobsHeld, InJob, Ended
  <2>7. ASSUME NEW r \in Req
        PROVE  \/ req'[r] = req[r] /\ (req[r].st \in {"queued", "posted"} => req[r].to[1] # w)
               \/ req'[r].st = "dropped" /\ req[r].st \in {"queued", "posted"}
    BY <1>4, <2>4
  <2>8. ASSUME NEW r \in Req, req'[r].st \in {"queued", "active", "posted"}
        PROVE  req'[r] = req[r] /\ req[r].to[1] # w
    BY <2>6, <2>7, <2>8
  <2>9. JobsHeld'
    BY <1>1, <2>5, <2>6, <2>8 DEF JobsHeld
  <2>10. Moved
    BY <2>7 DEF Moved, Steps
  <2> QED
    BY <2>9, <2>10
<1> QED
  BY <1>2, <1>3, <1>4

\* Closing, and the start of a destructor.
LEMMA HeldWindow ==
  ASSUME MInv, JobsHeld,
         \/ \E w \in Window : close(w) \/ Destroy(w)
         \/ LastWindowClosed \/ Terminated \/ UNCHANGED vars
  PROVE  JobsHeld' /\ Moved
<1>1. TypeOK
  BY DEF MInv
<1>2. thr' = thr /\ queue' = queue /\ cur' = cur /\ req' = req
  BY DEF close, Destroy, LastWindowClosed, Terminated, vars, worker
<1>3. \A v \in Window : win'[v] = "gone" => win[v] = "gone"
  <2>1. ASSUME NEW w \in Window, close(w) \/ Destroy(w)
        PROVE  \A v \in Window : win'[v] = "gone" => win[v] = "gone"
    BY <1>1, <2>1 DEF close, Destroy, shutdownDispatchWorker, TypeOK
  <2>2. CASE LastWindowClosed \/ Terminated \/ UNCHANGED vars
    BY <2>2 DEF LastWindowClosed, Terminated, vars, gui
  <2> QED
    BY <2>1, <2>2
<1> QED
  BY <1>1, <1>2, <1>3, HeldSame

\* Every step keeps every accepted request somewhere.
LEMMA HeldStep ==
  ASSUME MInv, JobsHeld, [Next]_vars
  PROVE  JobsHeld' /\ Moved
<1>1. ASSUME NEW t \in Thread, Worker(t)
      PROVE  JobsHeld' /\ Moved
  BY <1>1, HeldTake, HeldPosted, HeldWorker DEF Worker
<1> QED
  BY <1>1, HeldHandle, HeldFinish, HeldCall, HeldJoin, HeldWindow DEF Next

-----------------------------------------------------------------------------
(* Theorems. *)

\* Jobs, calls, joins and refusals have the owner claudeintegration.cpp gives them, in
\* every reachable state.
THEOREM DispatchInvariant ==
  Spec => []MInv
<1>1. Init => MInv
  BY InitMInv
<1>2. MInv /\ [Next]_vars => MInv'
  BY NextMInv
<1> QED
  BY <1>1, <1>2, PTL DEF Spec

\* The types hold.
THEOREM DispatchTypeCorrect ==
  Spec => []TypeOK
<1>1. MInv => TypeOK
  BY DEF MInv
<1> QED
  BY <1>1, DispatchInvariant, PTL

\* Closing one window refuses nothing to a job of another (g_guiMarshalRefusedThreads):
\* only a job whose own window is in its destructor, or gone, was told nullopt.
THEOREM RefusalsStayHome ==
  Spec => []OwnRefusalsOnly
<1>1. MInv => OwnRefusalsOnly
  BY DEF MInv
<1> QED
  BY <1>1, DispatchInvariant, PTL

\* The GUI thread reads nothing for a worker from a window whose destructor has begun
\* (the second test in onGuiThread's lambda; both lanes refused before either is joined).
THEOREM TornDownUnread ==
  Spec => NeverReadsTornDown
<1>1. ASSUME MInv, [Next]_vars
      PROVE  [\A r \in Req : req[r].out = "none" /\ req'[r].out = "value"
                               => win[req[r].to[1]] # "teardown"]_vars
  <2> SUFFICES ASSUME NEW r \in Req, req[r].out = "none", req'[r].out = "value"
               PROVE  win[req[r].to[1]] # "teardown"
    OBVIOUS
  <2>1. Deliver \/ showPrompt
    BY <1>1, OthersReadNothing
  <2> QED
    BY <1>1, <2>1, DeliverReads, PromptReads
<1> QED
  BY <1>1, DispatchInvariant, PTL DEF Spec, NeverReadsTornDown

\* postWorkerJob hands no job to a worker that has ended: nobody would run it, and the
\* client would wait for ever.
THEOREM PostsReachAWorker ==
  Spec => NeverPostsToExited
<1>1. ASSUME MInv, [Next]_vars
      PROVE  [\A t \in Thread : Len(queue'[t]) > Len(queue[t]) => thr[t] # "exited"]_vars
  BY <1>1, QueuesGrow
<1> QED
  BY <1>1, DispatchInvariant, PTL DEF Spec, NeverPostsToExited

\* m_dispatchInFlight counts what the two lanes hold exactly, whatever jobs return in
\* which order, and stays within kMaxDispatchQueue.
THEOREM InFlightExact ==
  Spec => []Counted
<1>1. MInv => Counted
  BY DEF MInv
<1> QED
  BY <1>1, DispatchInvariant, PTL

\* A window that is gone has no worker running: shutdownDispatchWorker leaves no thread
\* behind that could still use the freed object.
THEOREM GoneMeansEnded ==
  Spec => [](\A t \in Thread : win[t[1]] = "gone" => thr[t] \in Ended)
<1>1. MInv => \A t \in Thread : win[t[1]] = "gone" => thr[t] \in Ended
  BY DEF MInv, RefusalsOwned
<1> QED
  BY <1>1, DispatchInvariant, PTL

\* If no window but the main one can prompt, the GUI never joins a worker that is parked
\* on a call it is in the middle of (joinRefusingMarshals).
THEOREM MainPromptsSafe ==
  ASSUME Prompter \subseteq {Main}
  PROVE  Spec => []JoinNeverOverOwnCall
<1>1. ASSUME MInv
      PROVE  JoinNeverOverOwnCall
  <2> SUFFICES ASSUME NEW i \in 1..Len(stack), NEW j \in 1..Len(stack), i < j,
                      stack[i][1] = "prompt", stack[j][1] = "join",
                      stack[i][2][1] = stack[j][2][1]
               PROVE  FALSE
    BY DEF JoinNeverOverOwnCall
  <2>1. stack[i][2][1] = Main
    BY <1>1 DEF MInv, CallsOwned
  <2>2. j = 1
    BY <1>1, <2>1 DEF MInv, JoinsOwned
  <2> QED
    BY <2>2
<1> QED
  BY <1>1, DispatchInvariant, PTL

\* Then a destructor that waits for a parked worker has that worker's call before it in
\* the queue it delivers from: the safety half of TeardownReturns.
THEOREM MainPromptsServed ==
  ASSUME Prompter \subseteq {Main}
  PROVE  Spec => []JoinServed
<1>1. ASSUME MInv, JoinNeverOverOwnCall
      PROVE  JoinServed
  <2> SUFFICES ASSUME Joining, thr[Top[2]] = "parked",
                      ~ \E i \in 1..Len(marshals) : marshals[i] = Top[2]
               PROVE  FALSE
    BY DEF JoinServed
  <2> DEFINE n == Len(stack)
  <2>1. n \in Nat \ {0} /\ Top = stack[n] /\ Top[1] = "join" /\ Top[2] \in Thread
    BY <1>1, JoinFacts
  <2>2. PICK i \in 1..n : stack[i][1] = "prompt" /\ stack[i][2] = Top[2]
    BY <1>1, <2>1 DEF MInv, CallsOwned
  <2>3. n \in 1..n /\ i # n
    BY <2>1, <2>2
  <2>4. i < n
    BY <2>1, <2>3
  <2> QED
    BY <1>1, <2>1, <2>2, <2>3, <2>4 DEF JoinNeverOverOwnCall
<1> QED
  BY <1>1, DispatchInvariant, MainPromptsSafe, PTL

\* No accepted request is lost: it is in the queue of its worker, in its worker or about
\* to be answered, and its window is not gone (postWorkerJob, shutdownDispatchWorker).
THEOREM NoRequestLost ==
  Spec => []JobsHeld
<1>1. Init => JobsHeld
  <2>1. \A r \in Req : Init => req[r].st = "unsent"
    BY DEF Init, Blank
  <2> QED
    BY <2>1 DEF JobsHeld
<1>2. MInv /\ JobsHeld /\ [Next]_vars => JobsHeld'
  BY HeldStep
<1> QED
  BY <1>1, <1>2, DispatchInvariant, PTL DEF Spec

\* A request runs once and is answered at most once: no step revives a settled request,
\* runs one again or skips its worker (postToolDispatch, finishToolDispatch).
THEOREM OneAnswerPerRequest ==
  Spec => AnsweredOnce
<1>1. MInv /\ JobsHeld /\ [Next]_vars =>
        [\A r \in Req : req'[r].st # req[r].st => <<req[r].st, req'[r].st>> \in Steps]_vars
  BY HeldStep DEF Moved
<1> QED
  BY <1>1, DispatchInvariant, NoRequestLost, PTL DEF Spec, AnsweredOnce

=============================================================================
