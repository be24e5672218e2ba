---------------------------- MODULE LlmDispatcher ----------------------------
(***************************************************************************)
(* The job queue behind the review dialogs: enqueue() hands it jobs, pump()*)
(* keeps at most Max of them with the runner, each completion calls the    *)
(* done lambda, and allFinished ends the round.                            *)
(*                                                                         *)
(* Everything runs on one thread, and what is hard is re-entrancy: a       *)
(* runner may call done before it returns, and a slot of jobFinished or    *)
(* allFinished may call enqueue() or cancelAll().  The call stack is       *)
(* therefore part of the state; a frame says where a call of the           *)
(* dispatcher stands while somebody else's code runs above it:             *)
(*   "loop"  pump(), at the head of its while loop;                        *)
(*   "run"   the loop, inside m_runner(job);                               *)
(*   "slot"  a done lambda, inside emit jobFinished;                       *)
(*   "all"   pump(), inside emit allFinished.                              *)
(* A request's and a result's contents are left out: a job is its id.      *)
(***************************************************************************)
EXTENDS Integers, Sequences, FiniteSets

CONSTANTS
    Requested,    \* the concurrency the owner asks for
    MaxJobs,      \* bound: jobs enqueued in a behaviour
    MaxCancels    \* bound: cancelAll calls in a behaviour

ASSUME DispatcherAssumption ==
    /\ Requested \in Int
    /\ MaxJobs \in Nat
    /\ MaxCancels \in Nat

\* std::clamp(maxConcurrent, 1, 4)
Max == IF Requested < 1 THEN 1 ELSE IF Requested > 4 THEN 4 ELSE Requested

VARIABLES
    queue,       \* m_queue, as job ids
    inFlight,    \* m_inFlight
    cancelled,   \* m_cancelled
    batchOpen,   \* m_batchOpen
    pumping,     \* m_pumping
    generation,  \* m_generation
    stack,       \* the dispatcher's frames on the call stack, the top last
    running,     \* the runner's jobs: id -> the generation done captured
    enqueued,    \* ids 1 .. enqueued have been handed in
    forwarded,   \* ids jobFinished has been emitted for
    voided,      \* ids queued or running when cancelAll was called
    rounds,      \* rounds opened: an enqueue() that found no batch open
    allCount     \* allFinished emissions

vars == <<queue, inFlight, cancelled, batchOpen, pumping, generation, stack,
          running, enqueued, forwarded, voided, rounds, allCount>>

Jobs == 1..MaxJobs
NoJob == 0
Frame == [at : {"loop", "run", "slot", "all"}, job : Jobs \cup {NoJob}]

Push(at, job) == Append(stack, [at |-> at, job |-> job])
Pop == SubSeq(stack, 1, Len(stack) - 1)
Top == stack[Len(stack)]
AtTop(at) == stack # <<>> /\ Top.at = at

TypeOK ==
    /\ queue \in Seq(Jobs)
    /\ inFlight \in 0..Max
    /\ cancelled \in BOOLEAN /\ batchOpen \in BOOLEAN /\ pumping \in BOOLEAN
    /\ generation \in 0..MaxCancels
    /\ stack \in Seq(Frame)
    /\ DOMAIN running \subseteq Jobs
    /\ \A j \in DOMAIN running : running[j] \in 0..MaxCancels
    /\ enqueued \in 0..MaxJobs
    /\ forwarded \subseteq Jobs /\ voided \subseteq Jobs
    /\ rounds \in Nat /\ allCount \in Nat

Init ==
    /\ queue = <<>> /\ inFlight = 0
    /\ cancelled = FALSE /\ batchOpen = FALSE /\ pumping = FALSE
    /\ generation = 0 /\ stack = <<>>
    /\ running = [j \in {} |-> 0]
    /\ enqueued = 0 /\ forwarded = {} /\ voided = {}
    /\ rounds = 0 /\ allCount = 0

-----------------------------------------------------------------------------
\* Whose turn it is when no frame is inside pump() or the runner: the event
\* loop's, or a slot's.
callerFree == stack = <<>> \/ AtTop("slot") \/ AtTop("all")

\* Mutant: no m_pumping test (the defect of ANTS-5105).
pumpReentrant(below) ==
    /\ stack' = Append(below, [at |-> "loop", job |-> NoJob])
    /\ pumping' = TRUE

\* A call of pump() above the frames `below`: it returns at once when one is
\* already on the stack.
pump(below) ==
    IF pumping
    THEN stack' = below /\ UNCHANGED pumping
    ELSE /\ stack' = Append(below, [at |-> "loop", job |-> NoJob])
         /\ pumping' = TRUE

\* enqueue() of n jobs.  An empty list returns at once.
enqueue(n) ==
    /\ callerFree
    /\ enqueued + n <= MaxJobs
    /\ cancelled' = FALSE
    /\ batchOpen' = TRUE
    /\ queue' = queue \o [i \in 1..n |-> enqueued + i]
    /\ enqueued' = enqueued + n
    /\ rounds' = IF batchOpen THEN rounds ELSE rounds + 1
    /\ pump(stack)
    /\ UNCHANGED <<inFlight, generation, running, forwarded, voided, allCount>>

cancelAll ==
    /\ callerFree
    /\ generation < MaxCancels
    /\ cancelled' = TRUE
    /\ generation' = generation + 1
    /\ queue' = <<>>
    /\ voided' = voided \cup {queue[i] : i \in 1..Len(queue)} \cup DOMAIN running
    /\ UNCHANGED <<inFlight, batchOpen, pumping, stack, running, enqueued,
                   forwarded, rounds, allCount>>

\* The condition of pump()'s while loop.
mayStart == ~cancelled /\ inFlight < Max /\ queue # <<>>

\* One turn of the loop, up to the call of m_runner.
startJob ==
    /\ AtTop("loop") /\ mayStart
    /\ queue' = Tail(queue)
    /\ inFlight' = inFlight + 1
    /\ running' = [j \in DOMAIN running \cup {Head(queue)} |->
                    IF j = Head(queue) THEN generation ELSE running[j]]
    /\ stack' = Push("run", Head(queue))
    /\ UNCHANGED <<cancelled, batchOpen, pumping, generation, enqueued,
                   forwarded, voided, rounds, allCount>>

\* Mutant: jobs still with the runner do not hold the round open.
leaveLoopEarly ==
    /\ AtTop("loop") /\ ~mayStart
    /\ pumping' = FALSE
    /\ IF batchOpen /\ queue = <<>>
       THEN /\ batchOpen' = FALSE
            /\ allCount' = allCount + 1
            /\ stack' = Append(Pop, [at |-> "all", job |-> NoJob])
       ELSE stack' = Pop /\ UNCHANGED <<batchOpen, allCount>>
    /\ UNCHANGED <<queue, inFlight, cancelled, generation, running, enqueued,
                   forwarded, voided, rounds>>

\* The loop ends; the last frame of pump() may end the round.
leaveLoop ==
    /\ AtTop("loop") /\ ~mayStart
    /\ pumping' = FALSE
    /\ IF batchOpen /\ inFlight = 0 /\ queue = <<>>
       THEN /\ batchOpen' = FALSE
            /\ allCount' = allCount + 1
            /\ stack' = Append(Pop, [at |-> "all", job |-> NoJob])
       ELSE stack' = Pop /\ UNCHANGED <<batchOpen, allCount>>
    /\ UNCHANGED <<queue, inFlight, cancelled, generation, running, enqueued,
                   forwarded, voided, rounds>>

\* m_runner returns, its job finished or still with a client.
runnerReturns ==
    /\ AtTop("run")
    /\ stack' = Pop
    /\ UNCHANGED <<queue, inFlight, cancelled, batchOpen, pumping, generation,
                   running, enqueued, forwarded, voided, rounds, allCount>>

\* Whether a completion is forwarded, and a mutant of it: the generation is
\* not compared (the other defect of ANTS-5105).
forwardsUnlessCancelled(j) == ~cancelled
forwards(j) == ~cancelled /\ running[j] = generation

\* The done lambda of job j: from inside the runner's own call, or later from
\* the event loop.  It emits jobFinished, or goes straight on to pump().
done(j) ==
    /\ j \in DOMAIN running
    /\ stack = <<>> \/ (AtTop("run") /\ Top.job = j)
    /\ inFlight' = inFlight - 1
    /\ running' = [k \in DOMAIN running \ {j} |-> running[k]]
    /\ IF forwards(j)
       THEN /\ forwarded' = forwarded \cup {j}
            /\ stack' = Push("slot", j)
            /\ UNCHANGED pumping
       ELSE pump(stack) /\ UNCHANGED forwarded
    /\ UNCHANGED <<queue, cancelled, batchOpen, generation, enqueued, voided,
                   rounds, allCount>>

\* Mutant: done does not pump.
slotReturnsOnly ==
    /\ AtTop("slot")
    /\ stack' = Pop
    /\ UNCHANGED <<queue, inFlight, cancelled, batchOpen, pumping, generation,
                   running, enqueued, forwarded, voided, rounds, allCount>>

\* The slots of jobFinished return to the done lambda, which calls pump().
slotReturns ==
    /\ AtTop("slot")
    /\ pump(Pop)
    /\ UNCHANGED <<queue, inFlight, cancelled, batchOpen, generation, running,
                   enqueued, forwarded, voided, rounds, allCount>>

\* The slots of allFinished return, and pump() with them.
allReturns ==
    /\ AtTop("all")
    /\ stack' = Pop
    /\ UNCHANGED <<queue, inFlight, cancelled, batchOpen, pumping, generation,
                   running, enqueued, forwarded, voided, rounds, allCount>>

Next ==
    \/ \E n \in Jobs : enqueue(n)
    \/ cancelAll
    \/ startJob \/ leaveLoop \/ runnerReturns \/ slotReturns \/ allReturns
    \/ \E j \in Jobs : done(j)

(***************************************************************************)
(* Fairness.  Calls on the stack return, and every job's client reports    *)
(* (LlmClient::send arms a transfer timeout and always ends in finished).  *)
(* A completion waits for the stack to be empty, which it is again and     *)
(* again, hence strong fairness.  Nobody need enqueue or cancel.           *)
(***************************************************************************)
Fairness ==
    /\ WF_vars(startJob \/ leaveLoop)
    /\ WF_vars(runnerReturns)
    /\ WF_vars(slotReturns)
    /\ WF_vars(allReturns)
    /\ \A j \in Jobs : SF_vars(done(j))

Spec == Init /\ [][Next]_vars
FairSpec == Spec /\ Fairness

-----------------------------------------------------------------------------
(* Properties.                                                             *)

\* A job that cancelAll found queued or running is never reported, however
\* late its completion comes and whatever rounds were started since (INV-9).
CancelledNeverForwarded == forwarded \cap voided = {}

\* Runner calls never nest, no allFinished is emitted inside one (INV-16),
\* and m_pumping is set exactly while pump()'s loop is on the stack.
RunnerNotReentered ==
    LET at(kind) == {i \in 1..Len(stack) : stack[i].at = kind}
    IN /\ Cardinality(at("loop")) = IF pumping THEN 1 ELSE 0
       /\ Cardinality(at("run")) <= 1
       /\ \A i \in at("all"), k \in at("run") \cup at("loop") : i < k

\* allFinished is emitted once per round, and only when every job handed in
\* so far has been reported or cancelled (INV-7).
RoundEndsOnce ==
    [][/\ allCount' # allCount =>
            /\ 1..enqueued \subseteq forwarded \cup voided
            /\ DOMAIN running = {}
       /\ rounds' = allCount' + IF batchOpen' THEN 1 ELSE 0]_vars

\* What llmdispatcher.cpp says of allFinished: it "is the last thing pump()
\* does: a slot may delete the dispatcher".  A done lambda below the
\* emission would go on to call pump() on the deleted object.
AllFinishedSlotMayDelete ==
    \A i \in 1..Len(stack) : stack[i].at = "all" =>
        \A k \in 1..(i - 1) : stack[k].at # "slot"

\* Liveness: every round ends.
RoundEnds == batchOpen ~> ~batchOpen
=============================================================================
