------------------------------ MODULE LlmClient ------------------------------
(***************************************************************************)
(* One LlmClient: a streamed HTTP request at a time, parsed a few lines    *)
(* per event-loop tick (llmclient.cpp).  Everything runs on one thread;    *)
(* what interleaves are the callbacks: the reply's readyRead and finished, *)
(* zero timers that continue a parse, the deadline timer, and the caller's *)
(* send() and abort().  A request is named by its send generation.  Data   *)
(* is counted in lines.  Chunk slots do not call back into the client, as  *)
(* the one in AiDialog does not; a finished slot may do anything, since    *)
(* emitting is the last thing the client does.                             *)
(***************************************************************************)
EXTENDS Naturals, Sequences

CONSTANTS MaxSends,  \* bound: calls of send()
          MaxLines,  \* bound: lines of one reply
          PerTick,   \* kMaxLinesPerTick
          Cap        \* kMaxBytes, in lines

ASSUME LlmClientAssumption ==
  /\ MaxSends \in Nat /\ MaxLines \in Nat
  /\ PerTick \in Nat \ {0} /\ Cap \in Nat \ {0}

Gen == 1..MaxSends
NoReply == 0

VARIABLES
  gen,         \* m_sendGeneration
  reply,       \* m_reply: the generation it was posted by, or null
  net,         \* the reply's own state: "open", "ended" or "failed"
  wire,        \* lines of it still to arrive
  buffer,      \* complete lines in m_sseLineBuffer
  text,        \* lines in m_text
  truncated,   \* m_truncated
  atCap,       \* m_stoppedAtCap
  atDeadline,  \* m_stoppedAtDeadline
  deadline,    \* m_deadline is running
  timers,      \* pending zero timers, oldest first
  \* history
  length,      \* lines of the reply to each request
  fate,        \* how each request ended: see Fates
  reports      \* finished() results emitted for each request

clientVars == <<gen, reply, net, wire, buffer, text, truncated, atCap, atDeadline,
          deadline, timers, length, fate, reports>>

Fates == {"unsent", "running", "rejected", "dropped", "ended", "failed",
          "capped", "late"}
Timer == [kind : {"error", "drain", "finish"}, gen : Gen]

ClientInit ==
  /\ gen = 0 /\ reply = NoReply /\ net = "open" /\ wire = 0
  /\ buffer = 0 /\ text = 0
  /\ truncated = FALSE /\ atCap = FALSE /\ atDeadline = FALSE
  /\ deadline = FALSE
  /\ timers = <<>>
  /\ length = [g \in Gen |-> 0]
  /\ fate = [g \in Gen |-> "unsent"]
  /\ reports = [g \in Gen |-> <<>>]

Least(a, b) == IF a < b THEN a ELSE b

(***************************************************************************)
(* consumeLines(): parse at most PerTick lines; text past the cap is       *)
(* dropped and marks the answer truncated.                                 *)
(***************************************************************************)
Parsed(buf) == Least(buf, PerTick)
Text(txt, n) == Least(txt + n, Cap)
Overflows(txt, n) == txt + n > Cap

(***************************************************************************)
(* onFinished(), called with the client's fields as b, t, tr, c, d; q are  *)
(* the pending timers.  It stops the deadline and parses one tick; with    *)
(* lines left it re-arms itself, else it clears m_reply and reports.       *)
(***************************************************************************)
\* Replies are event streams; one without a line is not recognised.
Result(t, tr, c, d, how) ==
  [ok |-> ~d /\ (how # "failed" \/ c) /\ (t > 0 \/ tr), late |-> d,
   lines |-> t, truncated |-> tr]

\* Mutant: a reply that finishes reports what is parsed so far.
onFinishedAtOnce(b, t, tr, c, d, how, q) ==
  /\ deadline' = FALSE
  /\ buffer' = b /\ text' = t /\ truncated' = tr
  /\ atCap' = c /\ atDeadline' = d
  /\ reply' = NoReply
  /\ reports' = [reports EXCEPT ![reply] = Append(@, Result(t, tr, c, d, how))]
  /\ timers' = q

\* Mutant: a backlog at the end of the transfer is left to drain().
onFinishedLater(b, t, tr, c, d, how, q) ==
  LET n == Parsed(b) IN
  /\ deadline' = FALSE
  /\ buffer' = b - n
  /\ text' = Text(t, n)
  /\ truncated' = (tr \/ Overflows(t, n))
  /\ atCap' = c /\ atDeadline' = d
  /\ timers' = q
  /\ IF b > n
     THEN UNCHANGED <<reply, reports>>
     ELSE /\ reply' = NoReply
          /\ reports' = [reports EXCEPT ![reply] =
                           Append(@, Result(text', truncated', c, d, how))]

onFinished(b, t, tr, c, d, how, q) ==
  LET n == Parsed(b) IN
  /\ deadline' = FALSE
  /\ buffer' = b - n
  /\ text' = Text(t, n)
  /\ truncated' = (tr \/ Overflows(t, n))
  /\ atCap' = c /\ atDeadline' = d
  /\ IF b > n
     THEN /\ timers' = Append(q, [kind |-> "finish", gen |-> gen])
          /\ UNCHANGED <<reply, reports>>
     ELSE /\ reply' = NoReply
          /\ reports' = [reports EXCEPT ![reply] =
                           Append(@, Result(text', truncated', c, d, how))]
          /\ timers' = q

(***************************************************************************)
(* drain(): read n lines that arrived and parse one tick.  Without a       *)
(* newline in kMaxBytes the buffer is dropped and the answer is truncated. *)
(* A truncated answer aborts the reply, which reports at once unless the   *)
(* reply has already finished.                                             *)
(***************************************************************************)
drain(n, dropped, q) ==
  LET all == buffer + n
      k   == Parsed(all)
      b   == IF dropped THEN 0 ELSE all - k
      t   == IF dropped THEN text ELSE Text(text, k)
      tr  == truncated \/ dropped \/ (~dropped /\ Overflows(text, k))
  IN
  IF tr /\ net = "open"
  THEN /\ onFinished(b, t, tr, TRUE, atDeadline, "capped", q)
       /\ net' = "failed"
       /\ fate' = [fate EXCEPT ![reply] = "capped"]
  ELSE /\ buffer' = b /\ text' = t /\ truncated' = tr
       /\ atCap' = (atCap \/ tr)
       /\ timers' = IF b > 0 /\ ~tr
                    THEN Append(q, [kind |-> "drain", gen |-> gen]) ELSE q
       /\ UNCHANGED <<reply, net, atDeadline, deadline, fate, reports>>

(***************************************************************************)
(* The caller.  abort() clears m_reply before it aborts the transfer, so   *)
(* no finished() follows; send() starts with it.                           *)
(***************************************************************************)
Dropped(f) == IF reply = NoReply THEN f ELSE [f EXCEPT ![reply] = "dropped"]

abort ==
  /\ gen > 0
  /\ deadline' = FALSE
  /\ reply' = NoReply
  /\ fate' = Dropped(fate)
  /\ UNCHANGED <<gen, net, wire, buffer, text, truncated, atCap, atDeadline,
                 timers, length, reports>>

\* Mutant: the deadline flag of the last request is not cleared.
sendKeepingFlag(rejected, timed, n) ==
  /\ gen < MaxSends
  /\ gen' = gen + 1
  /\ buffer' = 0 /\ text' = 0 /\ truncated' = FALSE /\ atCap' = FALSE
  /\ reply' = gen' /\ deadline' = timed
  /\ net' = "open" /\ wire' = n
  /\ length' = [length EXCEPT ![gen'] = n]
  /\ fate' = [Dropped(fate) EXCEPT ![gen'] = "running"]
  /\ UNCHANGED <<atDeadline, timers, reports>>

send(rejected, timed, n) ==
  /\ gen < MaxSends
  /\ gen' = gen + 1
  /\ buffer' = 0 /\ text' = 0 /\ truncated' = FALSE /\ atCap' = FALSE
  /\ IF rejected
     THEN /\ reply' = NoReply /\ deadline' = FALSE
          /\ timers' = Append(timers, [kind |-> "error", gen |-> gen'])
          /\ fate' = [Dropped(fate) EXCEPT ![gen'] = "rejected"]
          /\ UNCHANGED <<atDeadline, net, wire, length>>
     ELSE /\ reply' = gen' /\ deadline' = timed /\ atDeadline' = FALSE
          /\ net' = "open" /\ wire' = n
          /\ length' = [length EXCEPT ![gen'] = n]
          /\ fate' = [Dropped(fate) EXCEPT ![gen'] = "running"]
          /\ UNCHANGED timers
  /\ UNCHANGED reports

(***************************************************************************)
(* The network.                                                            *)
(***************************************************************************)
readyRead(n, dropped) ==
  /\ reply # NoReply /\ net = "open" /\ n \in 1..wire
  /\ wire' = wire - n
  /\ drain(n, dropped, timers)
  /\ UNCHANGED <<gen, length>>

finished(how) ==
  /\ reply # NoReply /\ net = "open"
  /\ how = "ended" => wire = 0
  /\ net' = how
  /\ fate' = [fate EXCEPT ![reply] = how]
  /\ onFinished(buffer, text, truncated, atCap, atDeadline, how, timers)
  /\ UNCHANGED <<gen, wire, length>>

(***************************************************************************)
(* The timers.  Each zero timer checks the generation it was armed for.    *)
(***************************************************************************)
DeadlineFires ==
  /\ deadline /\ reply # NoReply
  /\ net' = "failed"
  /\ fate' = [fate EXCEPT ![reply] = "late"]
  /\ onFinished(buffer, text, truncated, atCap, TRUE, "failed", timers)
  /\ UNCHANGED <<gen, wire, length>>

Due(kind) == timers # <<>> /\ Head(timers).kind = kind
\* Mutant: a timer does not remember the request it was armed for.
FreshAlways == TRUE

Fresh == Head(timers).gen = gen

StaleTimer ==
  /\ timers # <<>>
  /\ ~Fresh \/ (reply = NoReply /\ Head(timers).kind # "error")
  /\ timers' = Tail(timers)
  /\ UNCHANGED <<gen, reply, net, wire, buffer, text, truncated, atCap,
                 atDeadline, deadline, length, fate, reports>>

emitDeferredError ==
  /\ Due("error") /\ Fresh
  /\ timers' = Tail(timers)
  /\ reports' = [reports EXCEPT ![gen] =
       Append(@, [ok |-> FALSE, late |-> FALSE, lines |-> 0, truncated |-> FALSE])]
  /\ UNCHANGED <<gen, reply, net, wire, buffer, text, truncated, atCap,
                 atDeadline, deadline, length, fate>>

DrainTick ==
  /\ Due("drain") /\ Fresh /\ reply # NoReply
  /\ drain(0, FALSE, Tail(timers))
  /\ UNCHANGED <<gen, wire, length>>

FinishTick ==
  /\ Due("finish") /\ Fresh /\ reply # NoReply
  /\ onFinished(buffer, text, truncated, atCap, atDeadline, fate[reply],
                Tail(timers))
  /\ UNCHANGED <<gen, net, wire, length, fate>>

Loop == StaleTimer \/ emitDeferredError \/ DrainTick \/ FinishTick

ClientNext ==
  \/ abort
  \/ \E rejected, timed \in BOOLEAN, n \in 0..MaxLines : send(rejected, timed, n)
  \/ \E n \in 1..MaxLines, dropped \in BOOLEAN : readyRead(n, dropped)
  \/ \E how \in {"ended", "failed"} : finished(how)
  \/ DeadlineFires
  \/ Loop

ClientSpec == ClientInit /\ [][ClientNext]_clientVars

\* The event loop runs and the clock counts; nothing is assumed of the server.
ClientFairSpec == ClientSpec /\ WF_clientVars(Loop) /\ WF_clientVars(DeadlineFires)

-----------------------------------------------------------------------------
ClientTypeOK ==
  /\ gen \in 0..MaxSends /\ reply \in 0..MaxSends
  /\ net \in {"open", "ended", "failed"}
  /\ wire \in 0..MaxLines /\ buffer \in Nat /\ text \in Nat
  /\ truncated \in BOOLEAN /\ atCap \in BOOLEAN
  /\ atDeadline \in BOOLEAN /\ deadline \in BOOLEAN
  /\ timers \in Seq(Timer)
  /\ length \in [Gen -> 0..MaxLines]
  /\ fate \in [Gen -> Fates]
  /\ reports \in [Gen -> Seq([ok : BOOLEAN, late : BOOLEAN, lines : Nat,
                              truncated : BOOLEAN])]

\* finished() is emitted at most once per send(), and only for the latest one:
\* no timer, late reply or aborted transfer of an earlier request reports
\* again, and a request dropped while its reply was in flight never reports.
ReportsOnce ==
  [][\A g \in Gen : reports'[g] # reports[g] =>
       g = gen /\ reports[g] = <<>> /\ fate[g] # "dropped"]_clientVars

\* An answer reported as complete is complete: it has every line the server
\* sent before it closed the reply, however the arrival of the lines, the
\* end of the transfer and the parse ticks interleave.
WholeAnswer ==
  \A g \in Gen : \A i \in DOMAIN reports[g] :
    LET r == reports[g][i] IN
    (r.ok /\ ~r.truncated) => fate[g] = "ended" /\ r.lines = length[g]

\* A request is reported as late exactly when its own deadline cut it: a flag
\* left behind by an earlier request is never taken for this one's.
BlamesDeadline ==
  \A g \in Gen : \A i \in DOMAIN reports[g] :
    reports[g][i].late <=> fate[g] = "late"

\* Every request that was rejected, has ended or has its deadline running is
\* reported in the end, unless the caller drops it: the server need not finish
\* its reply, and no network event follows a transfer with lines still buffered.
SendSettles ==
  \A g \in Gen :
    (fate[g] \in {"rejected", "ended", "failed", "capped", "late"}
       \/ (reply = g /\ deadline))
    ~> (reports[g] # <<>> \/ fate[g] = "dropped" \/ gen > g)
=============================================================================
