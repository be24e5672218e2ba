------------------------------ MODULE LlmProofs ------------------------------
(***************************************************************************)
(* The two halves of a review's requests: the queue that starts the jobs   *)
(* (LlmDispatcher) and the client that makes one of them (LlmClient).      *)
(***************************************************************************)
EXTENDS LlmDispatcher, LlmClient, FiniteSetTheorems, SequenceTheorems, TLAPS

-----------------------------------------------------------------------------
(***************************************************************************)
(* The review dialogs' job queue, for any concurrency the owner asks for   *)
(* and any number of jobs and cancellations: a cancelled job is never      *)
(* reported, runner calls never nest, and allFinished ends a round exactly *)
(* once, with every job accounted for.                                     *)
(*                                                                         *)
(* The inductive invariant says what the call stack can look like, that    *)
(* the queue holds the last ids handed in, that every other id is running, *)
(* reported or cancelled, and that the generation a running job captured   *)
(* tells whether it was cancelled.                                         *)
(***************************************************************************)

\* Frames of the event loop's or of other slots' making.
Caller == {"slot", "all"}

\* At most one pump() is in its loop: below it are slots only, above it at
\* most one call of the runner and the slots of the done that call made.
PumpAt(s, p) ==
  /\ s[p].at = "loop"
  /\ \A i \in 1..(p - 1) : s[i].at \in Caller
  /\ \/ Len(s) = p
     \/ Len(s) = p + 1 /\ s[p + 1].at = "run"
     \/ Len(s) = p + 2 /\ s[p + 1].at = "run" /\ s[p + 2].at = "slot"
Shape(s, inPump) ==
  /\ inPump => \E p \in 1..Len(s) : PumpAt(s, p)
  /\ ~inPump => \A i \in 1..Len(s) : s[i].at \in Caller
StackShape == Shape(stack, pumping)

\* Ids leave the queue in order; one that has left it is running, reported or
\* cancelled, and a running one is not reported.
Left == enqueued - Len(queue)
IdsInOrder ==
  /\ Left \in Nat
  /\ \A i \in 1..Len(queue) : queue[i] = Left + i
  /\ DOMAIN running \cup forwarded \cup voided \subseteq 1..Left
  /\ 1..Left \subseteq DOMAIN running \cup forwarded \cup voided
  /\ DOMAIN running \cap forwarded = {}

\* m_inFlight counts the runner's jobs.
Counted == inFlight = Cardinality(DOMAIN running)

\* The captured generation tells the cancelled ones, and while m_cancelled is
\* set there are no others.
GenerationTells ==
  /\ \A j \in DOMAIN running :
       running[j] <= generation /\ (running[j] # generation <=> j \in voided)
  /\ cancelled => DOMAIN running \subseteq voided

\* m_batchOpen is set for the one round that has not ended.
RoundsCounted == rounds = allCount + IF batchOpen THEN 1 ELSE 0

DInv ==
  /\ TypeOK /\ StackShape /\ IdsInOrder /\ Counted /\ GenerationTells
  /\ RoundsCounted /\ CancelledNeverForwarded

-----------------------------------------------------------------------------
(* The stack.                                                              *)

\* A call.
LEMMA PushFacts ==
  ASSUME NEW s \in Seq(Frame), NEW f \in Frame
  PROVE  /\ Append(s, f) \in Seq(Frame) /\ Len(s) \in Nat
         /\ Len(Append(s, f)) = Len(s) + 1
         /\ \A i \in 1..Len(s) : Append(s, f)[i] = s[i]
         /\ Append(s, f)[Len(s) + 1] = f
BY AppendProperties

\* A return.
LEMMA PopFacts ==
  ASSUME TypeOK, stack # <<>>
  PROVE  /\ Len(stack) \in Nat \ {0} /\ Top \in Frame
         /\ Pop \in Seq(Frame) /\ Len(Pop) = Len(stack) - 1
         /\ \A i \in 1..(Len(stack) - 1) : Pop[i] = stack[i]
<1>1. stack \in Seq(Frame) /\ Len(stack) \in Nat /\ Len(stack) # 0
  BY DEF TypeOK
<1>2. \A i \in 1..Len(stack) : stack[i] \in Frame
  BY <1>1
<1>3. \A i \in 1..(Len(stack) - 1) : stack[i] \in Frame
  BY <1>1, <1>2
<1>4. 1 \in Int /\ Len(stack) - 1 \in Int
  BY <1>1
<1>5. /\ Pop \in Seq(Frame)
      /\ Len(Pop) = IF 1 <= Len(stack) - 1 THEN (Len(stack) - 1) - 1 + 1 ELSE 0
      /\ \A i \in 1..((Len(stack) - 1) - 1 + 1) : Pop[i] = stack[1 + i - 1]
  BY <1>3, <1>4, SubSeqProperties DEF Pop
<1>6. Top \in Frame
  BY <1>1, <1>2 DEF Top
<1>7. Len(Pop) = Len(stack) - 1
  <2>1. CASE 1 <= Len(stack) - 1
    BY <1>1, <1>5, <2>1
  <2>2. CASE ~(1 <= Len(stack) - 1)
    <3>1. Len(stack) = 1
      <4> DEFINE n == Len(stack)
      <4>1. n \in Nat /\ n # 0 /\ ~(1 <= n - 1)
        BY <1>1, <2>2
      <4> HIDE DEF n
      <4>2. n = 1
        BY <4>1
      <4> QED
        BY <4>2 DEF n
    <3> QED
      BY <1>5, <2>2, <3>1
  <2> QED
    BY <2>1, <2>2
<1>8. \A i \in 1..(Len(stack) - 1) : Pop[i] = stack[i]
  <2> TAKE i \in 1..(Len(stack) - 1)
  <2>1. i \in 1..((Len(stack) - 1) - 1 + 1) /\ 1 + i - 1 = i
    BY <1>1
  <2> QED
    BY <1>5, <2>1
<1> QED
  BY <1>1, <1>5, <1>6, <1>7, <1>8

\* Slots of the event loop's may pile up while no pump() is in its loop.
LEMMA PushCallerFrame ==
  ASSUME NEW s \in Seq(Frame), Shape(s, FALSE), NEW f \in Frame, f.at \in Caller
  PROVE  Append(s, f) \in Seq(Frame) /\ Shape(Append(s, f), FALSE)
<1>1. \A i \in 1..Len(Append(s, f)) : i \in 1..Len(s) \/ i = Len(s) + 1
  BY PushFacts
<1> QED
  BY <1>1, PushFacts DEF Shape

\* pump() enters its loop above slots only.
LEMMA PushLoop ==
  ASSUME NEW s \in Seq(Frame), Shape(s, FALSE)
  PROVE  /\ Append(s, [at |-> "loop", job |-> NoJob]) \in Seq(Frame)
         /\ Shape(Append(s, [at |-> "loop", job |-> NoJob]), TRUE)
<1> DEFINE f == [at |-> "loop", job |-> NoJob]
           t == Append(s, f)
<1>1. f \in Frame /\ f.at = "loop"
  BY DEF Frame
<1> HIDE DEF f
<1>2. t \in Seq(Frame) /\ Len(t) = Len(s) + 1 /\ t[Len(s) + 1] = f /\ Len(s) \in Nat
      /\ \A i \in 1..Len(s) : t[i] = s[i]
  BY <1>1, PushFacts
<1> HIDE DEF t
<1>3. PumpAt(t, Len(s) + 1)
  BY <1>1, <1>2 DEF PumpAt, Shape
<1>4. Len(s) + 1 \in 1..Len(t)
  BY <1>2
<1>5. Shape(t, TRUE)
  BY <1>3, <1>4 DEF Shape
<1> QED
  BY <1>2, <1>5 DEF t, f

\* pump() above frames that fit leaves frames that fit.
LEMMA PumpKeepsShape ==
  ASSUME NEW below \in Seq(Frame), pumping \in BOOLEAN, Shape(below, pumping), pump(below)
  PROVE  stack' \in Seq(Frame) /\ pumping' \in BOOLEAN /\ Shape(stack', pumping')
<1>1. CASE pumping
  BY <1>1 DEF pump
<1>2. CASE ~pumping
  <2>1. Shape(below, FALSE)
    BY <1>2 DEF Shape
  <2>2. pumping' = TRUE /\ stack' = Append(below, [at |-> "loop", job |-> NoJob])
    BY <1>2 DEF pump
  <2> QED
    BY <2>1, <2>2, PushLoop
<1> QED
  BY <1>1, <1>2

\* A call above the loop, or a slot without one, returns.
LEMMA PopKeepsShape ==
  ASSUME TypeOK, StackShape, stack # <<>>, Top.at # "loop"
  PROVE  Pop \in Seq(Frame) /\ Shape(Pop, pumping)
<1> DEFINE n == Len(stack)
<1>0. /\ n \in Nat \ {0} /\ Pop \in Seq(Frame) /\ Len(Pop) = n - 1
      /\ \A i \in 1..(n - 1) : Pop[i] = stack[i]
  BY PopFacts
<1>1. CASE pumping
  <2>1. PICK p \in 1..n : PumpAt(stack, p)
    BY <1>1 DEF StackShape, Shape
  <2>2. n # p
    BY <2>1 DEF PumpAt, Top
  <2>3. p \in 1..(n - 1) /\ PumpAt(Pop, p)
    BY <1>0, <2>1, <2>2 DEF PumpAt
  <2> QED
    BY <1>0, <1>1, <2>3 DEF Shape
<1>2. CASE ~pumping
  BY <1>0, <1>2 DEF StackShape, Shape
<1> QED
  BY <1>1, <1>2 DEF TypeOK

\* The loop is on top: pump() is about to return or to call the runner.
LEMMA LoopOnTop ==
  ASSUME TypeOK, StackShape, AtTop("loop")
  PROVE  pumping /\ PumpAt(stack, Len(stack)) /\ Pop \in Seq(Frame) /\ Shape(Pop, FALSE)
<1> DEFINE n == Len(stack)
<1>0. /\ stack # <<>> /\ stack[n].at = "loop"
      /\ n \in Nat \ {0} /\ Pop \in Seq(Frame) /\ Len(Pop) = n - 1
      /\ \A i \in 1..(n - 1) : Pop[i] = stack[i]
  BY PopFacts DEF AtTop, Top
<1>1. pumping
  BY <1>0 DEF StackShape, Shape, Caller
<1>2. PICK p \in 1..n : PumpAt(stack, p)
  BY <1>1 DEF StackShape, Shape
<1>3. p = n
  BY <1>0, <1>2 DEF PumpAt
<1>4. Shape(Pop, FALSE)
  BY <1>0, <1>2, <1>3 DEF Shape, PumpAt
<1> QED
  BY <1>0, <1>1, <1>2, <1>3, <1>4

\* The loop calls the runner.
LEMMA PushRun ==
  ASSUME TypeOK, StackShape, AtTop("loop"), NEW j \in Jobs
  PROVE  Push("run", j) \in Seq(Frame) /\ Shape(Push("run", j), pumping)
<1> DEFINE f == [at |-> "run", job |-> j]
           t == Append(stack, f)
           n == Len(stack)
<1>1. f \in Frame /\ f.at = "run"
  BY DEF Frame
<1>2. pumping /\ PumpAt(stack, n) /\ n \in Nat \ {0}
  BY LoopOnTop, PopFacts DEF AtTop
<1> HIDE DEF f
<1>3. t \in Seq(Frame) /\ Len(t) = n + 1 /\ t[n + 1] = f /\ \A i \in 1..n : t[i] = stack[i]
  BY <1>1, PushFacts DEF TypeOK
<1> HIDE DEF t
<1>4. PumpAt(t, n) /\ n \in 1..Len(t)
  BY <1>1, <1>2, <1>3 DEF PumpAt
<1>5. Shape(t, pumping)
  BY <1>2, <1>4 DEF Shape
<1> QED
  BY <1>3, <1>5 DEF Push, t, f

\* A signal calls a slot.
LEMMA PushSlot ==
  ASSUME TypeOK, StackShape, stack = <<>> \/ AtTop("run"), NEW j \in Jobs
  PROVE  Push("slot", j) \in Seq(Frame) /\ Shape(Push("slot", j), pumping)
<1> DEFINE f == [at |-> "slot", job |-> j]
           t == Append(stack, f)
           n == Len(stack)
<1>1. f \in Frame /\ f.at = "slot"
  BY DEF Frame
<1> HIDE DEF f
<1>2. /\ t \in Seq(Frame) /\ Len(t) = n + 1 /\ t[n + 1] = f /\ n \in Nat
      /\ \A i \in 1..n : t[i] = stack[i]
  BY <1>1, PushFacts DEF TypeOK
<1> HIDE DEF t
<1>3. CASE ~pumping
  <2>1. \A i \in 1..Len(t) : i \in 1..n \/ i = n + 1
    BY <1>2
  <2>2. \A i \in 1..Len(t) : t[i].at \in Caller
    BY <1>1, <1>2, <1>3, <2>1 DEF StackShape, Shape, Caller
  <2> QED
    BY <1>2, <1>3, <2>2 DEF Push, Shape, t, f
<1>4. CASE pumping
  <2>1. PICK p \in 1..n : PumpAt(stack, p)
    BY <1>4 DEF StackShape, Shape
  <2>2. stack # <<>>
    BY <1>2, <2>1
  <2>3. stack[n].at = "run" /\ n = p + 1
    BY <2>1, <2>2 DEF AtTop, Top, PumpAt
  <2>4. PumpAt(t, p) /\ p \in 1..Len(t)
    BY <1>1, <1>2, <2>1, <2>3 DEF PumpAt
  <2>5. Shape(t, pumping)
    BY <1>4, <2>4 DEF Shape
  <2> QED
    BY <1>2, <2>5 DEF Push, t, f
<1> QED
  BY <1>3, <1>4 DEF TypeOK

-----------------------------------------------------------------------------
(* The jobs.                                                               *)

\* The clamped concurrency.
LEMMA MaxFacts == Max \in 1..4
BY DispatcherAssumption DEF Max

\* The jobs that run can be counted.
LEMMA RunningFinite ==
  ASSUME TypeOK
  PROVE  IsFiniteSet(DOMAIN running) /\ Cardinality(DOMAIN running) \in Nat
<1>1. IsFiniteSet(Jobs)
  BY DispatcherAssumption, FS_Interval DEF Jobs
<1>2. IsFiniteSet(DOMAIN running)
  BY <1>1, FS_Subset DEF TypeOK
<1> QED
  BY <1>2, FS_CardinalityType

\* A new dispatcher is idle.
LEMMA DInit == Init => DInv
<1> SUFFICES ASSUME Init PROVE DInv
  OBVIOUS
<1>1. DOMAIN running = {}
  BY DEF Init
<1>2. TypeOK
  <2>1. inFlight \in 0..Max /\ generation \in 0..MaxCancels /\ enqueued \in 0..MaxJobs
    BY MaxFacts, DispatcherAssumption DEF Init
  <2>2. /\ DOMAIN running \subseteq Jobs
        /\ \A j \in DOMAIN running : running[j] \in 0..MaxCancels
    BY <1>1
  <2>3. /\ queue \in Seq(Jobs) /\ stack \in Seq(Frame)
        /\ forwarded \subseteq Jobs /\ voided \subseteq Jobs
        /\ rounds \in Nat /\ allCount \in Nat
    BY DEF Init
  <2>4. cancelled \in BOOLEAN /\ batchOpen \in BOOLEAN /\ pumping \in BOOLEAN
    BY Zenon DEF Init
  <2> QED
    BY <2>1, <2>2, <2>3, <2>4, Zenon DEF TypeOK
<1>3. StackShape
  BY DEF Init, StackShape, Shape
<1>4. IdsInOrder
  BY <1>1 DEF Init, IdsInOrder, Left
<1>5. Counted
  BY <1>1, FS_EmptySet DEF Init, Counted
<1>6. GenerationTells /\ RoundsCounted /\ CancelledNeverForwarded
  BY <1>1 DEF Init, GenerationTells, RoundsCounted, CancelledNeverForwarded
<1> QED
  BY <1>2, <1>3, <1>4, <1>5, <1>6 DEF DInv

\* A call of pump() changes the stack and m_pumping only.
LEMMA EnqueueKeeps ==
  ASSUME DInv, NEW n \in Jobs, enqueue(n) PROVE DInv'
<1> DEFINE new == [i \in 1..n |-> enqueued + i]
<1>0. /\ n \in Nat \ {0} /\ enqueued \in Nat /\ MaxJobs \in Nat /\ enqueued + n <= MaxJobs
      /\ queue \in Seq(Jobs) /\ Len(queue) \in Nat
  BY DispatcherAssumption DEF enqueue, Jobs, DInv, TypeOK
<1>1. new \in Seq(Jobs) /\ Len(new) = n
  BY <1>0 DEF Jobs
<1>2. /\ queue' \in Seq(Jobs) /\ Len(queue') = Len(queue) + n
      /\ \A i \in 1..(Len(queue) + n) :
           queue'[i] = IF i <= Len(queue) THEN queue[i] ELSE new[i - Len(queue)]
  BY <1>0, <1>1, ConcatProperties DEF enqueue
<1>3. stack' \in Seq(Frame) /\ pumping' \in BOOLEAN /\ Shape(stack', pumping')
  BY PumpKeepsShape DEF enqueue, DInv, TypeOK, StackShape
<1>4. TypeOK'
  <2>1. enqueued' \in 0..MaxJobs
    BY <1>0 DEF enqueue
  <2>2. rounds' \in Nat
    <3>1. rounds' = rounds \/ rounds' = rounds + 1
      BY DEF enqueue
    <3> QED
      BY <3>1 DEF DInv, TypeOK
  <2> QED
    BY <1>2, <1>3, <2>1, <2>2 DEF enqueue, DInv, TypeOK
<1>5. StackShape'
  BY <1>3 DEF StackShape
<1>6. IdsInOrder'
  <2>1. Left' = Left
    BY <1>0, <1>2 DEF Left, enqueue
  <2>2. \A i \in 1..Len(queue') : queue'[i] = Left + i
    <3> TAKE i \in 1..Len(queue')
    <3>1. CASE i <= Len(queue)
      <4>0. i \in 1..(Len(queue) + n)
        BY <1>2
      <4>1. i \in 1..Len(queue) /\ queue'[i] = queue[i]
        <5>1. i \in 1..Len(queue)
          BY <1>0, <3>1, <4>0
        <5>2. queue'[i] = queue[i]
          BY <1>2, <3>1, <4>0
        <5> QED
          BY <5>1, <5>2
      <4> QED
        BY <4>1 DEF DInv, IdsInOrder
    <3>2. CASE ~(i <= Len(queue))
      <4>1. i - Len(queue) \in 1..n /\ queue'[i] = new[i - Len(queue)]
        BY <1>0, <1>2, <3>2
      <4>2. queue'[i] = enqueued + (i - Len(queue))
        BY <4>1
      <4> QED
        BY <1>0, <1>2, <4>2 DEF Left
    <3> QED
      BY <3>1, <3>2
  <2> QED
    BY <2>1, <2>2 DEF DInv, IdsInOrder, enqueue
<1>7. Counted' /\ GenerationTells' /\ CancelledNeverForwarded'
  BY DEF DInv, Counted, GenerationTells, CancelledNeverForwarded, enqueue
<1>8. RoundsCounted'
  BY DEF DInv, TypeOK, RoundsCounted, enqueue
<1> QED
  BY <1>4, <1>5, <1>6, <1>7, <1>8 DEF DInv

\* cancelAll() empties the queue and voids what runs.
LEMMA CancelKeeps == DInv /\ cancelAll => DInv'
<1> SUFFICES ASSUME DInv, cancelAll PROVE DInv'
  OBVIOUS
<1>0. /\ enqueued \in Nat /\ queue \in Seq(Jobs) /\ Len(queue) \in Nat
      /\ generation \in Nat /\ generation' = generation + 1 /\ generation' \in 0..MaxCancels
      /\ queue' = <<>>
  BY DispatcherAssumption DEF DInv, TypeOK, cancelAll
<1>1. voided' = voided \cup ((Left + 1)..enqueued) \cup DOMAIN running
  <2>1. {queue[i] : i \in 1..Len(queue)} = (Left + 1)..enqueued
    <3>1. \A i \in 1..Len(queue) : queue[i] \in (Left + 1)..enqueued
      BY <1>0 DEF DInv, IdsInOrder, Left
    <3>2. \A k \in (Left + 1)..enqueued : k - Left \in 1..Len(queue) /\ queue[k - Left] = k
      BY <1>0 DEF DInv, IdsInOrder, Left
    <3> QED
      BY <3>1, <3>2
  <2> QED
    BY <2>1 DEF cancelAll
<1>2. TypeOK'
  <2>1. voided' \subseteq Jobs
    <3>1. (Left + 1)..enqueued \subseteq Jobs
      BY <1>0, DispatcherAssumption DEF DInv, TypeOK, IdsInOrder, Jobs
    <3> QED
      BY <1>1, <3>1 DEF DInv, TypeOK
  <2> QED
    BY <1>0, <2>1 DEF DInv, TypeOK, cancelAll
<1>3. StackShape' /\ Counted' /\ RoundsCounted'
  BY DEF DInv, StackShape, Counted, RoundsCounted, cancelAll
<1>4. IdsInOrder'
  <2>1. Left' = enqueued
    BY <1>0 DEF Left, cancelAll
  <2>2. Left \in Nat /\ Left <= enqueued
    BY <1>0 DEF DInv, IdsInOrder, Left
  <2>3. \A k \in 1..enqueued : k \in 1..Left \/ k \in (Left + 1)..enqueued
    BY <1>0, <2>2
  <2>4. 1..Left \subseteq 1..enqueued /\ (Left + 1)..enqueued \subseteq 1..enqueued
    BY <1>0, <2>2
  <2>5. DOMAIN running' = DOMAIN running /\ forwarded' = forwarded
    BY DEF cancelAll
  <2> HIDE DEF Left
  <2>6. DOMAIN running' \cup forwarded' \cup voided' \subseteq 1..enqueued
    BY <1>1, <2>4, <2>5 DEF DInv, IdsInOrder
  <2>7. 1..enqueued \subseteq DOMAIN running' \cup forwarded' \cup voided'
    BY <1>1, <2>3, <2>5 DEF DInv, IdsInOrder
  <2> QED
    BY <1>0, <2>1, <2>5, <2>6, <2>7 DEF DInv, IdsInOrder
<1>5. GenerationTells'
  <2>1. \A j \in DOMAIN running : running[j] \in Nat /\ running[j] <= generation
    BY DEF DInv, TypeOK, GenerationTells
  <2>2. \A j \in DOMAIN running : running[j] <= generation' /\ running[j] # generation'
    BY <1>0, <2>1
  <2>3. DOMAIN running \subseteq voided' /\ running' = running
    BY DEF cancelAll
  <2> QED
    BY <2>2, <2>3 DEF GenerationTells
<1>6. CancelledNeverForwarded'
  <2>1. Left \in Nat /\ forwarded \subseteq 1..Left /\ DOMAIN running \cap forwarded = {}
    BY DEF DInv, IdsInOrder
  <2>2. forwarded \cap ((Left + 1)..enqueued) = {}
    BY <2>1
  <2> QED
    BY <1>1, <2>1, <2>2 DEF DInv, CancelledNeverForwarded, cancelAll
<1> QED
  BY <1>2, <1>3, <1>4, <1>5, <1>6 DEF DInv

\* The loop starts the first queued job.
LEMMA StartKeeps == DInv /\ startJob => DInv'
<1> SUFFICES ASSUME DInv, startJob PROVE DInv'
  OBVIOUS
<1> DEFINE j == Head(queue)
<1>0. /\ queue \in Seq(Jobs) /\ queue # <<>> /\ Len(queue) \in Nat \ {0}
      /\ enqueued \in Nat /\ Left \in Nat
      /\ ~cancelled /\ inFlight \in Nat /\ inFlight < Max
  BY MaxFacts DEF DInv, TypeOK, IdsInOrder, startJob, mayStart
<1>1. /\ j \in Jobs /\ j = Left + 1
      /\ queue' \in Seq(Jobs) /\ Len(queue') = Len(queue) - 1
      /\ \A i \in 1..Len(queue') : queue'[i] = queue[i + 1]
  <2>1. j = queue[1] /\ 1 \in 1..Len(queue)
    BY <1>0
  <2> QED
    BY <1>0, <2>1, HeadTailProperties DEF startJob, DInv, IdsInOrder
<1>2. /\ DOMAIN running' = DOMAIN running \cup {j}
      /\ running'[j] = generation
      /\ \A k \in DOMAIN running : k # j => running'[k] = running[k]
  BY DEF startJob
<1>3. j \notin DOMAIN running /\ j \notin forwarded /\ j \notin voided
  BY <1>0, <1>1 DEF DInv, IdsInOrder
<1>4. stack' \in Seq(Frame) /\ Shape(stack', pumping)
  BY <1>1, PushRun DEF startJob, DInv
<1> HIDE DEF j
<1>5. TypeOK'
  <2>1. inFlight' \in 0..Max
    BY <1>0, MaxFacts DEF startJob
  <2>2. /\ DOMAIN running' \subseteq Jobs
        /\ \A k \in DOMAIN running' : running'[k] \in 0..MaxCancels
    BY <1>1, <1>2 DEF DInv, TypeOK
  <2> QED
    BY <1>1, <1>4, <2>1, <2>2 DEF DInv, TypeOK, startJob
<1>6. StackShape' /\ RoundsCounted' /\ CancelledNeverForwarded'
  BY <1>4 DEF DInv, StackShape, RoundsCounted, CancelledNeverForwarded, startJob
<1>7. IdsInOrder'
  <2>1. Left' = Left + 1
    BY <1>0, <1>1 DEF Left, startJob
  <2>2. \A i \in 1..Len(queue') : queue'[i] = Left' + i
    <3> TAKE i \in 1..Len(queue')
    <3>1. i + 1 \in 1..Len(queue) /\ queue'[i] = queue[i + 1]
      BY <1>0, <1>1
    <3>2. queue[i + 1] = Left + (i + 1)
      BY <3>1 DEF DInv, IdsInOrder
    <3> QED
      BY <1>0, <2>1, <3>1, <3>2
  <2>3. 1..(Left + 1) = 1..Left \cup {Left + 1}
    BY <1>0
  <2> QED
    BY <1>0, <1>1, <1>2, <1>3, <2>1, <2>2, <2>3 DEF DInv, IdsInOrder, startJob
<1>8. Counted'
  BY <1>2, <1>3, RunningFinite, FS_AddElement DEF DInv, Counted, startJob
<1>9. GenerationTells'
  <2>1. generation \in Nat
    BY DispatcherAssumption DEF DInv, TypeOK
  <2> QED
    BY <1>0, <1>2, <1>3, <2>1 DEF DInv, GenerationTells, startJob
<1> QED
  BY <1>5, <1>6, <1>7, <1>8, <1>9 DEF DInv

\* The done lambda reports a job or drops a cancelled one.
LEMMA DoneKeeps ==
  ASSUME DInv, NEW j \in Jobs, done(j) PROVE DInv'
<1>0. /\ j \in DOMAIN running
      /\ DOMAIN running' = DOMAIN running \ {j}
      /\ \A k \in DOMAIN running \ {j} : running'[k] = running[k]
      /\ inFlight' = inFlight - 1
  BY DEF done
<1>1. Counted' /\ inFlight \in Nat \ {0}
  BY <1>0, RunningFinite, FS_RemoveElement, FS_EmptySet DEF DInv, Counted
<1>2. stack' \in Seq(Frame) /\ pumping' \in BOOLEAN /\ Shape(stack', pumping')
  <2>1. CASE forwards(j)
    BY <2>1, PushSlot DEF done, DInv, TypeOK
  <2>2. CASE ~forwards(j)
    BY <2>2, PumpKeepsShape DEF done, DInv, TypeOK, StackShape
  <2> QED
    BY <2>1, <2>2
<1>3. \/ j \notin voided /\ forwarded' = forwarded \cup {j}
      \/ j \in voided /\ forwarded' = forwarded
  <2>1. CASE forwards(j)
    BY <1>0, <2>1 DEF done, forwards, DInv, GenerationTells
  <2>2. CASE ~forwards(j)
    BY <1>0, <2>2 DEF done, forwards, DInv, GenerationTells
  <2> QED
    BY <2>1, <2>2
<1>4. TypeOK'
  <2>1. inFlight' \in 0..Max
    BY <1>0, <1>1, MaxFacts DEF DInv, TypeOK
  <2>2. /\ DOMAIN running' \subseteq Jobs
        /\ \A k \in DOMAIN running' : running'[k] \in 0..MaxCancels
    BY <1>0 DEF DInv, TypeOK
  <2>3. forwarded' \subseteq Jobs
    BY <1>3 DEF DInv, TypeOK
  <2> QED
    BY <1>2, <2>1, <2>2, <2>3 DEF DInv, TypeOK, done
<1>5. StackShape' /\ RoundsCounted'
  BY <1>2 DEF DInv, StackShape, RoundsCounted, done
<1>6. IdsInOrder'
  <2>1. Left' = Left /\ queue' = queue /\ voided' = voided
    BY DEF Left, done
  <2> HIDE DEF Left
  <2> QED
    BY <1>0, <1>3, <2>1 DEF DInv, IdsInOrder
<1>7. GenerationTells'
  BY <1>0 DEF DInv, GenerationTells, done
<1>8. CancelledNeverForwarded'
  BY <1>3 DEF DInv, CancelledNeverForwarded, done
<1> QED
  BY <1>1, <1>4, <1>5, <1>6, <1>7, <1>8 DEF DInv

\* The loop ends, and the round with it if nothing is left.
LEMMA LeaveKeeps == DInv /\ leaveLoop => DInv'
<1> SUFFICES ASSUME DInv, leaveLoop PROVE DInv'
  OBVIOUS
<1>0. Pop \in Seq(Frame) /\ Shape(Pop, FALSE) /\ pumping' = FALSE
  BY LoopOnTop DEF leaveLoop, DInv
<1>1. stack' \in Seq(Frame) /\ Shape(stack', FALSE)
  <2> DEFINE f == [at |-> "all", job |-> NoJob]
  <2>1. f \in Frame /\ f.at \in Caller
    BY DEF Frame, Caller
  <2>2. stack' = Pop \/ stack' = Append(Pop, f)
    BY DEF leaveLoop
  <2> HIDE DEF f
  <2> QED
    BY <1>0, <2>1, <2>2, PushCallerFrame
<1>2. RoundsCounted' /\ allCount' \in Nat /\ batchOpen' \in BOOLEAN
  <2>1. CASE batchOpen /\ batchOpen' = FALSE /\ allCount' = allCount + 1 /\ rounds' = rounds
    <3>1. rounds = allCount + 1
      BY <2>1 DEF DInv, RoundsCounted
    <3>2. allCount' \in Nat /\ rounds' = allCount' + 0 /\ batchOpen' = FALSE
      BY <2>1, <3>1 DEF DInv, TypeOK
    <3>3. ~batchOpen' /\ batchOpen' \in BOOLEAN
      BY <2>1, Zenon
    <3> QED
      BY <3>2, <3>3 DEF RoundsCounted
  <2>2. CASE UNCHANGED <<batchOpen, allCount, rounds>>
    BY <2>2 DEF DInv, TypeOK, RoundsCounted
  <2> QED
    BY <2>1, <2>2 DEF leaveLoop
<1>3. TypeOK'
  BY <1>0, <1>1, <1>2 DEF DInv, TypeOK, leaveLoop
<1>4. StackShape'
  BY <1>0, <1>1 DEF StackShape
<1>5. IdsInOrder' /\ Counted' /\ GenerationTells' /\ CancelledNeverForwarded'
  BY DEF DInv, IdsInOrder, Left, Counted, GenerationTells, CancelledNeverForwarded, leaveLoop
<1> QED
  BY <1>2, <1>3, <1>4, <1>5 DEF DInv

\* A frame is popped, and a done lambda whose slots returned goes on to pump().
LEMMA ReturnKeeps == DInv /\ (runnerReturns \/ slotReturns \/ allReturns) => DInv'
<1> SUFFICES ASSUME DInv, runnerReturns \/ slotReturns \/ allReturns PROVE DInv'
  OBVIOUS
<1>0. /\ UNCHANGED <<queue, inFlight, cancelled, batchOpen, generation, running,
                     enqueued, forwarded, voided, rounds, allCount>>
      /\ stack # <<>> /\ Top.at # "loop"
  BY DEF runnerReturns, slotReturns, allReturns, AtTop
<1>1. Pop \in Seq(Frame) /\ Shape(Pop, pumping)
  BY <1>0, PopKeepsShape DEF DInv
<1>2. stack' \in Seq(Frame) /\ pumping' \in BOOLEAN /\ Shape(stack', pumping')
  <2>1. CASE slotReturns
    BY <1>1, <2>1, PumpKeepsShape DEF slotReturns, DInv, TypeOK
  <2>2. CASE runnerReturns \/ allReturns
    BY <1>1, <2>2 DEF runnerReturns, allReturns, DInv, TypeOK
  <2> QED
    BY <2>1, <2>2
<1>3. TypeOK'
  BY <1>0, <1>2 DEF DInv, TypeOK
<1>4. StackShape'
  BY <1>2 DEF StackShape
<1>5. /\ IdsInOrder' /\ Counted' /\ GenerationTells'
      /\ RoundsCounted' /\ CancelledNeverForwarded'
  BY <1>0 DEF DInv, IdsInOrder, Left, Counted, GenerationTells, RoundsCounted,
     CancelledNeverForwarded
<1> QED
  BY <1>3, <1>4, <1>5 DEF DInv

-----------------------------------------------------------------------------
\* Every call and return keeps the invariant.
LEMMA DStep == DInv /\ [Next]_vars => DInv'
<1> SUFFICES ASSUME DInv, [Next]_vars PROVE DInv'
  OBVIOUS
<1>1. CASE UNCHANGED vars
  BY <1>1 DEF vars, DInv, TypeOK, StackShape, IdsInOrder, Left, Counted,
     GenerationTells, RoundsCounted, CancelledNeverForwarded
<1>2. ASSUME NEW n \in Jobs, enqueue(n) PROVE DInv'
  BY <1>2, EnqueueKeeps
<1>3. ASSUME NEW j \in Jobs, done(j) PROVE DInv'
  BY <1>3, DoneKeeps
<1> QED
  BY <1>1, <1>2, <1>3, CancelKeeps, StartKeeps, LeaveKeeps, ReturnKeeps DEF Next

\* The inductive invariant holds in every reachable state.
THEOREM DispatcherInvariant == Spec => []DInv
BY DInit, DStep, PTL DEF Spec

\* Every variable keeps its type; in particular m_inFlight stays between 0
\* and the clamped concurrency.
THEOREM DispatcherTypeCorrect == Spec => []TypeOK
<1>1. DInv => TypeOK
  BY DEF DInv
<1> QED
  BY <1>1, DispatcherInvariant, PTL

\* INV-9: a completion of a job that a cancelAll voided is dropped, whichever
\* rounds have begun since.
THEOREM CancelledJobsStaySilent == Spec => []CancelledNeverForwarded
<1>1. DInv => CancelledNeverForwarded
  BY DEF DInv
<1> QED
  BY <1>1, DispatcherInvariant, PTL

\* INV-16: however done and the slots re-enter the dispatcher, one pump() is
\* in its loop at a time, runner calls do not nest, and allFinished is
\* emitted outside of them.
THEOREM PumpIsNotReentered == Spec => []RunnerNotReentered
<1>1. DInv => RunnerNotReentered
  <2> SUFFICES ASSUME DInv PROVE RunnerNotReentered
    OBVIOUS
  <2> DEFINE at(kind) == {i \in 1..Len(stack) : stack[i].at = kind}
  <2>0. Len(stack) \in Nat /\ pumping \in BOOLEAN
    BY DEF DInv, TypeOK
  <2>1. CASE pumping
    <3>1. PICK p \in 1..Len(stack) : PumpAt(stack, p)
      BY <2>1 DEF DInv, StackShape, Shape
    <3>2. \A i \in 1..Len(stack) : i < p \/ i = p \/ i = p + 1 \/ i = p + 2
      BY <2>0, <3>1 DEF PumpAt
    <3>3. at("loop") = {p}
      <4>1. stack[p].at = "loop"
        BY <3>1 DEF PumpAt
      <4>2. \A i \in 1..Len(stack) : stack[i].at = "loop" => i = p
        <5> TAKE i \in 1..Len(stack)
        <5>1. i < p => stack[i].at # "loop"
          <6>1. i < p => i \in 1..(p - 1)
            BY <2>0
          <6> QED
            BY <3>1, <6>1 DEF PumpAt, Caller
        <5>2. i = p + 1 \/ i = p + 2 => stack[i].at # "loop"
          BY <2>0, <3>1 DEF PumpAt
        <5> QED
          BY <3>2, <5>1, <5>2
      <4> QED
        BY <4>1, <4>2
    <3>4. at("run") \subseteq {p + 1}
      BY <2>0, <3>1, <3>2 DEF PumpAt, Caller
    <3>5. Cardinality(at("loop")) = 1
      BY <3>3, FS_Singleton
    <3>6. Cardinality(at("run")) <= 1
      <4>1. IsFiniteSet({p + 1}) /\ Cardinality({p + 1}) = 1
        BY FS_Singleton
      <4> HIDE DEF at
      <4>2. Cardinality(at("run")) <= Cardinality({p + 1})
        BY <3>4, <4>1, FS_Subset
      <4> QED
        BY <4>1, <4>2
    <3>7. \A i \in at("all") : i < p
      BY <2>0, <3>1, <3>2 DEF PumpAt, Caller
    <3>8. \A i \in at("all"), k \in at("run") \cup at("loop") : i < k
      BY <2>0, <3>3, <3>4, <3>7
    <3> QED
      BY <2>1, <3>5, <3>6, <3>8 DEF RunnerNotReentered
  <2>2. CASE ~pumping
    <3>1. at("loop") = {} /\ at("run") = {}
      BY <2>2 DEF DInv, StackShape, Shape, Caller
    <3>2. Cardinality(at("loop")) = 0 /\ Cardinality(at("run")) = 0
      BY <3>1, FS_EmptySet
    <3> QED
      BY <2>2, <3>1, <3>2 DEF RunnerNotReentered
  <2> QED
    BY <2>0, <2>1, <2>2
<1> QED
  BY <1>1, DispatcherInvariant, PTL

\* INV-7: allFinished is emitted once per round, when every job handed in so
\* far has been reported or cancelled and none is with the runner.
THEOREM RoundsEndOnce == Spec => RoundEndsOnce
<1> DEFINE Ends ==
      /\ allCount' # allCount =>
           /\ 1..enqueued \subseteq forwarded \cup voided
           /\ DOMAIN running = {}
      /\ rounds' = allCount' + IF batchOpen' THEN 1 ELSE 0
<1>1. DInv /\ DInv' /\ [Next]_vars => [Ends]_vars
  <2> SUFFICES ASSUME DInv, DInv', Next PROVE Ends
    OBVIOUS
  <2>1. rounds' = allCount' + IF batchOpen' THEN 1 ELSE 0
    BY DEF DInv, RoundsCounted
  <2>2. ASSUME allCount' # allCount
        PROVE  1..enqueued \subseteq forwarded \cup voided /\ DOMAIN running = {}
    <3>1. leaveLoop
      BY <2>2 DEF Next, enqueue, cancelAll, startJob, runnerReturns, slotReturns,
         allReturns, done
    <3>2. inFlight = 0 /\ queue = <<>>
      BY <2>2, <3>1 DEF leaveLoop
    <3>3. DOMAIN running = {}
      BY <3>2, RunningFinite, FS_EmptySet DEF DInv, Counted
    <3>4. Left = enqueued
      BY <3>2 DEF Left, DInv, TypeOK
    <3> QED
      BY <3>3, <3>4 DEF DInv, IdsInOrder
  <2> QED
    BY <2>1, <2>2
<1> QED
  BY <1>1, DispatcherInvariant, PTL DEF Spec, RoundEndsOnce

-----------------------------------------------------------------------------
(***************************************************************************)
(* What an LlmClient reports of its requests, for any number of sends, any *)
(* length of a reply, any parse budget and any cap: a request reports once *)
(* and only while it is the latest, an answer reported as complete is      *)
(* complete, and only a request its own deadline cut is reported as late.  *)
(*                                                                         *)
(* The inductive invariant relates the client's fields, which all requests *)
(* share, to the one request they are about: the reply is the latest       *)
(* request's and has not reported, every line of it is parsed, buffered or *)
(* on the wire unless the answer is marked as truncated, and the zero      *)
(* timers that still name the latest request fit its state.                *)
(***************************************************************************)

Posted == {"running", "ended", "failed", "capped", "late"}

\* m_reply is the latest request's, and it has not reported.
ReplyIsLatest ==
  reply # NoReply =>
    /\ reply = gen
    /\ reports[reply] = <<>>
    /\ fate[reply] \in Posted

\* What the fields say of the request that m_reply was posted by.
FieldsFit ==
  reply # NoReply =>
    /\ net = "open" <=> fate[reply] = "running"
    /\ net = "ended" <=> fate[reply] = "ended"
    /\ net = "ended" => wire = 0
    /\ deadline => net = "open"
    /\ atDeadline <=> fate[reply] = "late"
    /\ atCap \/ fate[reply] = "capped" => truncated
    /\ ~truncated => text + buffer + wire = length[reply]

\* Nothing is known of a request before it is sent.
NotYetSent == \A g \in Gen : g > gen => reports[g] = <<>>

\* A pending timer is of this request or an earlier one; those of this one
\* were armed by it.
TimersFit ==
  /\ \A i \in DOMAIN timers :
       /\ timers[i].gen <= gen
       /\ (timers[i].kind = "error" /\ timers[i].gen = gen) =>
            fate[gen] = "rejected" /\ reports[gen] = <<>>
       /\ (timers[i].kind = "finish" /\ timers[i].gen = gen /\ reply # NoReply) =>
            net # "open"
  /\ \A i, j \in DOMAIN timers :
       (timers[i].kind = "error" /\ timers[j].kind = "error" /\
        timers[i].gen = gen /\ timers[j].gen = gen) => i = j

CInv ==
  /\ ClientTypeOK /\ ReplyIsLatest /\ FieldsFit /\ NotYetSent /\ TimersFit
  /\ WholeAnswer /\ BlamesDeadline

-----------------------------------------------------------------------------
Report == [ok : BOOLEAN, late : BOOLEAN, lines : Nat, truncated : BOOLEAN]

\* One parse tick takes no more lines than there are and loses none unless
\* the text overflows.
LEMMA ParseFacts ==
  ASSUME NEW b \in Nat, NEW t \in Nat
  PROVE  /\ Parsed(b) \in Nat /\ Parsed(b) <= b /\ b - Parsed(b) \in Nat
         /\ Text(t, Parsed(b)) \in Nat
         /\ Overflows(t, Parsed(b)) \in BOOLEAN
         /\ ~Overflows(t, Parsed(b)) => Text(t, Parsed(b)) = t + Parsed(b)
BY LlmClientAssumption DEF Parsed, Text, Overflows, Least

\* A zero timer armed last.
LEMMA AppendFacts ==
  ASSUME NEW q \in Seq(Timer), NEW e \in Timer
  PROVE  /\ Append(q, e) \in Seq(Timer)
         /\ \A i \in DOMAIN Append(q, e) :
              \/ i \in DOMAIN q /\ Append(q, e)[i] = q[i]
              \/ i = Len(q) + 1 /\ Append(q, e)[i] = e
BY AppendProperties

\* A zero timer that has run.
LEMMA TailFacts ==
  ASSUME NEW q \in Seq(Timer), q # <<>>
  PROVE  /\ Head(q) \in Timer /\ 1 \in DOMAIN q /\ Head(q) = q[1]
         /\ Tail(q) \in Seq(Timer)
         /\ \A i \in DOMAIN Tail(q) : i + 1 \in DOMAIN q /\ Tail(q)[i] = q[i + 1]
BY HeadTailProperties

\* What one report makes of the reports.
LEMMA OneReport ==
  ASSUME NEW r \in Report
  PROVE  /\ Append(<<>>, r) \in Seq(Report)
         /\ DOMAIN Append(<<>>, r) = {1} /\ Append(<<>>, r)[1] = r
OBVIOUS

\* While a reply is there, no timer is about to report the request's refusal,
\* and none to finish it before it is at its end.
Answering(q) ==
  \A i \in DOMAIN q :
    /\ q[i].gen <= gen
    /\ q[i].kind = "error" => q[i].gen # gen
    /\ (q[i].kind = "finish" /\ q[i].gen = gen) => net # "open"

\* No rejection is due while the latest request has a reply.
LEMMA NoErrorDue ==
  ASSUME CInv, reply # NoReply PROVE Answering(timers)
BY DEF CInv, ClientTypeOK, TimersFit, ReplyIsLatest, Posted, Answering

\* Running another timer makes no rejection due.
LEMMA NoErrorDueTail ==
  ASSUME CInv, reply # NoReply, timers # <<>> PROVE Answering(Tail(timers))
BY NoErrorDue, TailFacts DEF CInv, ClientTypeOK, Answering

\* A new client has sent nothing.
LEMMA CInit == ClientInit => CInv
<1> SUFFICES ASSUME ClientInit PROVE CInv
  OBVIOUS
<1>1. ClientTypeOK
  <2>1. gen \in 0..MaxSends /\ reply \in 0..MaxSends /\ wire \in 0..MaxLines
    BY LlmClientAssumption DEF ClientInit, NoReply
  <2>2. /\ length \in [Gen -> 0..MaxLines] /\ fate \in [Gen -> Fates]
        /\ timers \in Seq(Timer) /\ reports \in [Gen -> Seq(Report)]
    BY LlmClientAssumption DEF ClientInit, Fates
  <2> QED
    BY <2>1, <2>2 DEF ClientInit, ClientTypeOK, Report
<1>2. ReplyIsLatest /\ FieldsFit /\ NotYetSent /\ TimersFit
  BY DEF ClientInit, ReplyIsLatest, FieldsFit, NotYetSent, TimersFit
<1>3. WholeAnswer /\ BlamesDeadline
  BY DEF ClientInit, WholeAnswer, BlamesDeadline
<1> QED
  BY <1>1, <1>2, <1>3 DEF CInv

-----------------------------------------------------------------------------
\* What holds whenever onFinished() is called: the reply is at its end, F is
\* its fate (how it ended, unless how says it failed), and the fields that are
\* passed fit that end.
Ending(b, t, tr, c, d, how, q, F) ==
  /\ b \in Nat /\ t \in Nat /\ tr \in BOOLEAN /\ c \in BOOLEAN /\ d \in BOOLEAN
  /\ q \in Seq(Timer) /\ Answering(q)
  /\ F \in Posted \ {"running"}
  /\ net' \in {"ended", "failed"}
  /\ fate' = [fate EXCEPT ![reply] = F]
  /\ F = "ended" <=> net' = "ended"
  /\ F = "ended" => wire' = 0
  /\ F = "failed" => how = "failed"
  /\ d <=> F = "late"
  /\ c \/ F = "capped" => tr
  /\ ~tr => t + b + wire' = length[reply]

\* onFinished(), from whichever of its four callers.
LEMMA OnFinishedKeeps ==
  ASSUME CInv, reply # NoReply,
         NEW b, NEW t, NEW tr, NEW c, NEW d, NEW how, NEW q, NEW F,
         onFinished(b, t, tr, c, d, how, q),
         Ending(b, t, tr, c, d, how, q, F),
         gen' = gen, length' = length, wire' \in 0..MaxLines
  PROVE  CInv'
<1> USE DEF Ending
<1> DEFINE n == Parsed(b)
           res == Result(text', truncated', c, d, how)
<1>0. /\ reply \in Gen /\ reply = gen /\ reports[reply] = <<>>
      /\ length[reply] \in Nat
  BY DEF CInv, ClientTypeOK, ReplyIsLatest, Gen, NoReply
<1>1. /\ n \in Nat /\ n <= b /\ buffer' = b - n /\ buffer' \in Nat
      /\ text' \in Nat /\ truncated' \in BOOLEAN
      /\ ~truncated' => ~tr /\ text' = t + n
  BY ParseFacts DEF onFinished
<1>2. res \in Report
  BY <1>1 DEF Result, Report
<1> HIDE DEF n, res
<1>3. CASE b > n
  <2>1. /\ timers' = Append(q, [kind |-> "finish", gen |-> gen])
        /\ UNCHANGED <<reply, reports>> /\ deadline' = FALSE
        /\ atCap' = c /\ atDeadline' = d
    BY <1>3 DEF onFinished, n
  <2>2. [kind |-> "finish", gen |-> gen] \in Timer
    BY <1>0 DEF Timer
  <2>3. ClientTypeOK'
    BY <1>1, <2>1, <2>2, AppendFacts DEF CInv, ClientTypeOK, Posted, Fates
  <2>4. ReplyIsLatest' /\ NotYetSent'
    BY <1>0, <2>1 DEF CInv, ClientTypeOK, ReplyIsLatest, NotYetSent, Posted
  <2>5. FieldsFit'
    <3>1. fate'[reply] = F
      BY <1>0 DEF CInv, ClientTypeOK
    <3>2. ~truncated' => text' + buffer' + wire' = length[reply]
      BY <1>0, <1>1
    <3> QED
      BY <1>1, <2>1, <3>1, <3>2 DEF FieldsFit, Posted
  <2>6. TimersFit'
    <3>1. \A i \in DOMAIN timers' :
            /\ timers'[i].gen <= gen
            /\ timers'[i].kind = "error" => timers'[i].gen # gen
      <4> SUFFICES ASSUME NEW i \in DOMAIN timers'
                   PROVE  /\ timers'[i].gen <= gen
                          /\ timers'[i].kind = "error" => timers'[i].gen # gen
        OBVIOUS
      <4>1. CASE i \in DOMAIN q /\ timers'[i] = q[i]
        BY <4>1 DEF Answering
      <4>2. CASE timers'[i] = [kind |-> "finish", gen |-> gen]
        BY <1>0, <4>2 DEF Gen
      <4> QED
        BY <2>1, <2>2, <4>1, <4>2, AppendFacts
    <3> QED
      BY <3>1 DEF TimersFit
  <2>7. WholeAnswer' /\ BlamesDeadline'
    <3>1. \A g \in Gen : \A i \in DOMAIN reports'[g] :
            reports'[g] = reports[g] /\ fate'[g] = fate[g]
      BY <1>0, <2>1 DEF CInv, ClientTypeOK
    <3> QED
      BY <3>1 DEF CInv, WholeAnswer, BlamesDeadline
  <2> QED
    BY <2>3, <2>4, <2>5, <2>6, <2>7 DEF CInv
<1>4. CASE ~(b > n)
  <2>1. /\ timers' = q /\ reply' = NoReply /\ deadline' = FALSE
        /\ atCap' = c /\ atDeadline' = d
        /\ reports' = [reports EXCEPT ![reply] = Append(<<>>, res)]
    BY <1>0, <1>4 DEF onFinished, n, res, CInv, ClientTypeOK
  <2>2. ClientTypeOK'
    <3>1. reports' \in [Gen -> Seq(Report)]
      BY <1>0, <1>2, <2>1, OneReport DEF CInv, ClientTypeOK, Report
    <3>2. fate' \in [Gen -> Fates]
      BY DEF CInv, ClientTypeOK, Posted, Fates
    <3>3. NoReply \in 0..MaxSends
      BY LlmClientAssumption DEF NoReply
    <3> QED
      BY <1>0, <1>1, <2>1, <3>1, <3>2, <3>3 DEF CInv, ClientTypeOK, Report
  <2>3. ReplyIsLatest' /\ FieldsFit' /\ NotYetSent'
    BY <1>0, <2>1 DEF CInv, ClientTypeOK, ReplyIsLatest, FieldsFit, NotYetSent
  <2>4. TimersFit'
    BY <2>1 DEF TimersFit, Answering
  <2>5. /\ fate'[reply] = F
        /\ DOMAIN reports'[reply] = {1} /\ reports'[reply][1] = res
        /\ \A g \in Gen \ {reply} : reports'[g] = reports[g] /\ fate'[g] = fate[g]
    BY <1>0, <1>2, <2>1, OneReport DEF CInv, ClientTypeOK
  <2>6. WholeAnswer'
    <3>1. res.ok /\ ~res.truncated => F = "ended" /\ res.lines = length[reply]
      <4> SUFFICES ASSUME res.ok, ~res.truncated
                   PROVE  F = "ended" /\ res.lines = length[reply]
        OBVIOUS
      <4>1. ~truncated' /\ ~d /\ (how # "failed" \/ c) /\ res.lines = text'
        BY DEF res, Result
      <4>2. ~tr /\ ~c /\ F = "ended"
        BY <1>1, <4>1 DEF Posted
      <4> QED
        BY <1>0, <1>1, <1>4, <4>1, <4>2
    <3> QED
      BY <2>5, <3>1 DEF CInv, WholeAnswer
  <2>7. BlamesDeadline'
    <3>1. res.late <=> F = "late"
      BY DEF res, Result
    <3> QED
      BY <2>5, <3>1 DEF CInv, BlamesDeadline
  <2> QED
    BY <2>2, <2>3, <2>4, <2>6, <2>7 DEF CInv
<1> QED
  BY <1>3, <1>4

\* drain(), called on data of an open reply or on a backlog.
LEMMA DrainKeeps ==
  ASSUME CInv, reply # NoReply,
         NEW m \in Nat, NEW dropped \in BOOLEAN, NEW q \in Seq(Timer), Answering(q),
         drain(m, dropped, q),
         gen' = gen, length' = length, m <= wire, wire' = wire - m,
         dropped => net = "open"
  PROVE  CInv'
<1> DEFINE all == buffer + m
           k == Parsed(all)
           b == IF dropped THEN 0 ELSE all - k
           t == IF dropped THEN text ELSE Text(text, k)
           tr == truncated \/ dropped \/ (~dropped /\ Overflows(text, k))
<1>0. /\ reply \in Gen /\ reply = gen /\ reports[reply] = <<>>
      /\ length[reply] \in Nat /\ buffer \in Nat /\ text \in Nat /\ wire \in 0..MaxLines
      /\ truncated \in BOOLEAN /\ atCap \in BOOLEAN /\ atDeadline \in BOOLEAN
  BY DEF CInv, ClientTypeOK, ReplyIsLatest, Gen, NoReply
<1>1. wire' \in 0..MaxLines
  BY <1>0, LlmClientAssumption
<1>2. /\ b \in Nat /\ t \in Nat /\ tr \in BOOLEAN
      /\ ~tr => ~truncated /\ ~dropped /\ t = text + k /\ b = all - k /\ k \in Nat /\ k <= all
  <2>1. all \in Nat
    BY <1>0
  <2> HIDE DEF all
  <2>2. /\ k \in Nat /\ k <= all /\ all - k \in Nat /\ Text(text, k) \in Nat
        /\ Overflows(text, k) \in BOOLEAN
        /\ ~Overflows(text, k) => Text(text, k) = text + k
    BY <1>0, <2>1, ParseFacts
  <2> HIDE DEF k
  <2>3. b \in Nat /\ t \in Nat
    BY <1>0, <2>2
  <2>4. tr \in BOOLEAN
    BY <1>0, Zenon
  <2>5. ~tr => ~truncated /\ ~dropped /\ t = text + k /\ b = all - k
    BY <2>2
  <2> QED
    BY <2>2, <2>3, <2>4, <2>5
<1>3. ~tr => t + b + wire' = length[reply]
  BY <1>0, <1>2 DEF CInv, FieldsFit
<1>4. truncated => tr
  OBVIOUS
<1>5. CASE tr /\ net = "open"
  <2>1. /\ onFinished(b, t, tr, TRUE, atDeadline, "capped", q)
        /\ net' = "failed" /\ fate' = [fate EXCEPT ![reply] = "capped"]
    BY <1>5, Zenon DEF drain
  <2>2. ~atDeadline
    BY <1>5 DEF CInv, FieldsFit
  <2> HIDE DEF b, t, tr
  <2>3. Ending(b, t, tr, TRUE, atDeadline, "capped", q, "capped")
    BY <1>0, <1>2, <1>3, <1>5, <2>1, <2>2 DEF Ending, Posted
  <2> QED
    BY <1>1, <2>1, <2>3, OnFinishedKeeps, Zenon
<1>6. CASE ~(tr /\ net = "open")
  <2>1. /\ buffer' = b /\ text' = t /\ truncated' = tr /\ atCap' = (atCap \/ tr)
        /\ timers' = IF b > 0 /\ ~tr THEN Append(q, [kind |-> "drain", gen |-> gen]) ELSE q
        /\ UNCHANGED <<reply, net, atDeadline, deadline, fate, reports>>
    BY <1>6, Zenon DEF drain
  <2> HIDE DEF b, t, tr
  <2>2. [kind |-> "drain", gen |-> gen] \in Timer
    BY <1>0 DEF Timer
  <2>3. /\ timers' \in Seq(Timer)
        /\ \A i \in DOMAIN timers' :
             /\ timers'[i].gen <= gen
             /\ timers'[i].kind = "error" => timers'[i].gen # gen
             /\ (timers'[i].kind = "finish" /\ timers'[i].gen = gen) => net # "open"
    <3>1. CASE timers' = q
      BY <3>1 DEF Answering
    <3>2. CASE timers' = Append(q, [kind |-> "drain", gen |-> gen])
      <4> SUFFICES ASSUME NEW i \in DOMAIN timers'
                   PROVE  /\ timers'[i].gen <= gen
                          /\ timers'[i].kind = "error" => timers'[i].gen # gen
                          /\ (timers'[i].kind = "finish" /\ timers'[i].gen = gen) => net # "open"
        BY <2>2, <3>2, AppendFacts
      <4>1. CASE i \in DOMAIN q /\ timers'[i] = q[i]
        BY <4>1 DEF Answering
      <4>2. CASE timers'[i] = [kind |-> "drain", gen |-> gen]
        BY <1>0, <4>2 DEF Gen
      <4> QED
        BY <2>2, <3>2, <4>1, <4>2, AppendFacts
    <3> QED
      BY <2>1, <3>1, <3>2
  <2>4. ClientTypeOK'
    BY <1>0, <1>1, <1>2, <2>1, <2>3 DEF CInv, ClientTypeOK
  <2>5. ReplyIsLatest' /\ NotYetSent'
    BY <2>1 DEF CInv, ReplyIsLatest, NotYetSent
  <2>6. FieldsFit'
    BY <1>0, <1>2, <1>3, <1>4, <2>1 DEF CInv, FieldsFit
  <2>7. TimersFit'
    BY <2>1, <2>3 DEF TimersFit
  <2>8. WholeAnswer' /\ BlamesDeadline'
    BY <2>1 DEF CInv, WholeAnswer, BlamesDeadline
  <2> QED
    BY <2>4, <2>5, <2>6, <2>7, <2>8 DEF CInv
<1> QED
  BY <1>5, <1>6

-----------------------------------------------------------------------------
\* What dropping the reply in flight does to the fates.
LEMMA DroppedFacts ==
  ASSUME CInv
  PROVE  /\ Dropped(fate) \in [Gen -> Fates]
         /\ \A g \in Gen : reply # g => Dropped(fate)[g] = fate[g]
         /\ \A g \in Gen : reports[g] # <<>> => Dropped(fate)[g] = fate[g]
<1>1. reply # NoReply => reply \in Gen /\ reports[reply] = <<>>
  BY DEF CInv, ClientTypeOK, ReplyIsLatest, Gen, NoReply
<1> QED
  BY <1>1 DEF CInv, ClientTypeOK, Dropped, Fates

\* abort() drops the reply without a report.
LEMMA AbortKeeps == CInv /\ abort => CInv'
<1> SUFFICES ASSUME CInv, abort PROVE CInv'
  OBVIOUS
<1>1. ClientTypeOK'
  <2>1. NoReply \in 0..MaxSends
    BY LlmClientAssumption DEF NoReply
  <2> QED
    BY <2>1, DroppedFacts DEF CInv, ClientTypeOK, abort
<1>2. ReplyIsLatest' /\ FieldsFit' /\ NotYetSent'
  BY DEF CInv, ReplyIsLatest, FieldsFit, NotYetSent, abort
<1>3. TimersFit'
  <2>1. gen \in Gen
    BY DEF CInv, ClientTypeOK, abort, Gen
  <2>2. fate[gen] = "rejected" => fate'[gen] = "rejected"
    <3>1. fate[gen] = "rejected" => reply # gen
      BY <2>1 DEF CInv, ReplyIsLatest, Posted, NoReply, Gen
    <3> QED
      BY <2>1, <3>1, DroppedFacts DEF abort
  <2> QED
    BY <2>2 DEF CInv, TimersFit, abort
<1>4. WholeAnswer' /\ BlamesDeadline'
  <2>1. \A g \in Gen : \A i \in DOMAIN reports[g] : fate'[g] = fate[g]
    BY DroppedFacts DEF abort
  <2> QED
    BY <2>1 DEF CInv, WholeAnswer, BlamesDeadline, abort
<1> QED
  BY <1>1, <1>2, <1>3, <1>4 DEF CInv

\* The new request's number is in no timer, report or fate of an earlier one.
LEMMA SendKeeps ==
  ASSUME CInv, NEW rejected \in BOOLEAN, NEW timed \in BOOLEAN,
             NEW n \in 0..MaxLines, send(rejected, timed, n)
  PROVE  CInv'
<1>0. /\ gen' = gen + 1 /\ gen' \in Gen /\ gen \in Nat /\ gen' # gen
      /\ reports' = reports /\ reports[gen'] = <<>>
      /\ buffer' = 0 /\ text' = 0 /\ truncated' = FALSE /\ atCap' = FALSE
  BY LlmClientAssumption DEF send, CInv, ClientTypeOK, Gen, NotYetSent
<1>1. \A i \in DOMAIN timers : timers[i].gen < gen'
  <2> SUFFICES ASSUME NEW i \in DOMAIN timers PROVE timers[i].gen < gen'
    OBVIOUS
  <2>1. timers[i] \in Timer /\ timers[i].gen <= gen
    BY DEF CInv, ClientTypeOK, TimersFit
  <2> QED
    BY <1>0, <2>1 DEF Timer, Gen
<1>2. NotYetSent'
  BY <1>0 DEF CInv, NotYetSent, Gen
<1>3. ASSUME NEW F \in Fates, fate' = [Dropped(fate) EXCEPT ![gen'] = F]
      PROVE  /\ fate' \in [Gen -> Fates] /\ fate'[gen'] = F
             /\ WholeAnswer' /\ BlamesDeadline'
  <2>1. fate' \in [Gen -> Fates] /\ fate'[gen'] = F
    BY <1>0, <1>3, DroppedFacts
  <2>2. \A g \in Gen : \A i \in DOMAIN reports[g] : g # gen' /\ fate'[g] = fate[g]
    BY <1>0, <1>3, DroppedFacts
  <2>3. \A g \in Gen : g # gen' => length'[g] = length[g]
    BY <1>0 DEF send, CInv, ClientTypeOK
  <2>4. WholeAnswer'
    BY <1>0, <2>2, <2>3 DEF CInv, WholeAnswer
  <2>5. BlamesDeadline'
    BY <1>0, <2>2 DEF CInv, BlamesDeadline
  <2> QED
    BY <2>1, <2>4, <2>5
<1>4. CASE rejected
  <2> DEFINE e == [kind |-> "error", gen |-> gen']
  <2>1. /\ reply' = NoReply /\ deadline' = FALSE /\ timers' = Append(timers, e)
        /\ fate' = [Dropped(fate) EXCEPT ![gen'] = "rejected"]
        /\ UNCHANGED <<atDeadline, net, wire, length>>
    BY <1>4 DEF send
  <2>2. e \in Timer /\ timers \in Seq(Timer)
    BY <1>0 DEF Timer, CInv, ClientTypeOK
  <2>3. /\ fate' \in [Gen -> Fates] /\ fate'[gen'] = "rejected"
        /\ WholeAnswer' /\ BlamesDeadline'
    BY <1>3, <2>1 DEF Fates
  <2>4. ClientTypeOK'
    <3>1. NoReply \in 0..MaxSends /\ gen' \in 0..MaxSends
      BY <1>0, LlmClientAssumption DEF NoReply, Gen
    <3>2. timers' \in Seq(Timer)
      BY <2>1, <2>2, AppendFacts
    <3> QED
      BY <1>0, <2>1, <2>3, <3>1, <3>2 DEF CInv, ClientTypeOK
  <2>5. ReplyIsLatest' /\ FieldsFit'
    BY <2>1 DEF ReplyIsLatest, FieldsFit
  <2>6. TimersFit'
    <3>1. \A i \in DOMAIN timers' :
            \/ timers'[i].gen < gen'
            \/ i = Len(timers) + 1 /\ timers'[i] = e
      BY <1>1, <2>1, <2>2, AppendFacts
    <3>2. \A i \in DOMAIN timers' : timers'[i].gen <= gen' /\
            (timers'[i].gen = gen' => i = Len(timers) + 1 /\ timers'[i] = e)
      <4> SUFFICES ASSUME NEW i \in DOMAIN timers'
                   PROVE  timers'[i].gen <= gen' /\
                          (timers'[i].gen = gen' => i = Len(timers) + 1 /\ timers'[i] = e)
        OBVIOUS
      <4>0. timers'[i] \in Timer
        BY <2>4 DEF ClientTypeOK
      <4>1. timers'[i].gen \in Nat /\ gen' \in Nat
        BY <1>0, <4>0 DEF Timer, Gen
      <4> QED
        BY <3>1, <4>1
    <3> HIDE DEF e
    <3> QED
      BY <1>0, <2>1, <2>3, <3>2 DEF TimersFit, e
  <2> QED
    BY <1>2, <2>3, <2>4, <2>5, <2>6 DEF CInv
<1>5. CASE ~rejected
  <2>1. /\ reply' = gen' /\ deadline' = timed /\ atDeadline' = FALSE
        /\ net' = "open" /\ wire' = n
        /\ length' = [length EXCEPT ![gen'] = n]
        /\ fate' = [Dropped(fate) EXCEPT ![gen'] = "running"]
        /\ timers' = timers
    BY <1>5 DEF send
  <2>2. /\ fate' \in [Gen -> Fates] /\ fate'[gen'] = "running"
        /\ WholeAnswer' /\ BlamesDeadline'
    BY <1>3, <2>1 DEF Fates
  <2>3. length' \in [Gen -> 0..MaxLines] /\ length'[gen'] = n
    BY <1>0, <2>1 DEF CInv, ClientTypeOK
  <2>4. ClientTypeOK'
    <3>1. gen' \in 0..MaxSends
      BY <1>0, LlmClientAssumption DEF Gen
    <3> QED
      BY <1>0, <2>1, <2>2, <2>3, <3>1 DEF CInv, ClientTypeOK
  <2>5. ReplyIsLatest' /\ FieldsFit'
    BY <1>0, <2>1, <2>2, <2>3 DEF ReplyIsLatest, FieldsFit, Posted
  <2>6. TimersFit'
    <3>1. \A i \in DOMAIN timers' : timers'[i].gen <= gen' /\ timers'[i].gen # gen'
      <4> SUFFICES ASSUME NEW i \in DOMAIN timers'
                   PROVE  timers'[i].gen <= gen' /\ timers'[i].gen # gen'
        OBVIOUS
      <4>0. timers'[i] \in Timer
        BY <2>4 DEF ClientTypeOK
      <4>1. timers'[i].gen \in Nat /\ gen' \in Nat
        BY <1>0, <4>0 DEF Timer, Gen
      <4> QED
        BY <1>1, <2>1, <4>1
    <3> QED
      BY <3>1 DEF TimersFit
  <2> QED
    BY <1>2, <2>2, <2>4, <2>5, <2>6 DEF CInv
<1> QED
  BY <1>4, <1>5

-----------------------------------------------------------------------------
\* The slot of readyRead drains, and may cut the reply at the cap.
LEMMA ReadyReadKeeps ==
  ASSUME CInv, NEW n \in 1..MaxLines, NEW dropped \in BOOLEAN, readyRead(n, dropped)
  PROVE  CInv'
<1>1. n \in Nat /\ n <= wire /\ wire' = wire - n /\ timers \in Seq(Timer)
  BY DEF readyRead, CInv, ClientTypeOK
<1> QED
  BY <1>1, NoErrorDue, DrainKeeps DEF readyRead

\* The reply in flight, at the moment it ends.
LEMMA InFlight ==
  ASSUME CInv, reply # NoReply
  PROVE  /\ reply \in Gen /\ buffer \in Nat /\ text \in Nat /\ wire \in 0..MaxLines
         /\ truncated \in BOOLEAN /\ atCap \in BOOLEAN /\ atDeadline \in BOOLEAN
         /\ timers \in Seq(Timer)
         /\ ~truncated => text + buffer + wire = length[reply]
         /\ atCap => truncated
BY DEF CInv, ClientTypeOK, ReplyIsLatest, FieldsFit, Gen, NoReply

\* The network ends the reply.
LEMMA FinishedKeeps ==
  ASSUME CInv, NEW how \in {"ended", "failed"}, finished(how) PROVE CInv'
<1>1. /\ reply # NoReply /\ net = "open" /\ fate' = [fate EXCEPT ![reply] = how]
      /\ gen' = gen /\ length' = length /\ wire' = wire /\ net' = how
      /\ how = "ended" => wire = 0
      /\ onFinished(buffer, text, truncated, atCap, atDeadline, how, timers)
  BY DEF finished
<1>2. ~atDeadline
  BY <1>1 DEF CInv, FieldsFit
<1>3. Ending(buffer, text, truncated, atCap, atDeadline, how, timers, how)
  BY <1>1, <1>2, InFlight, NoErrorDue DEF Ending, Posted
<1>4. wire' \in 0..MaxLines
  BY <1>1, InFlight
<1> QED
  BY <1>1, <1>3, <1>4, OnFinishedKeeps, Zenon

\* The deadline timer aborts the reply.
LEMMA DeadlineKeeps == CInv /\ DeadlineFires => CInv'
<1> SUFFICES ASSUME CInv, DeadlineFires PROVE CInv'
  OBVIOUS
<1>1. /\ reply # NoReply /\ fate' = [fate EXCEPT ![reply] = "late"]
      /\ gen' = gen /\ length' = length /\ wire' = wire /\ net' = "failed"
      /\ onFinished(buffer, text, truncated, atCap, TRUE, "failed", timers)
  BY DEF DeadlineFires
<1>2. Ending(buffer, text, truncated, atCap, TRUE, "failed", timers, "late")
  BY <1>1, InFlight, NoErrorDue DEF Ending, Posted
<1>3. wire' \in 0..MaxLines
  BY <1>1, InFlight
<1> QED
  BY <1>1, <1>2, <1>3, OnFinishedKeeps, Zenon

-----------------------------------------------------------------------------
\* A timer that an earlier request armed does nothing.
LEMMA StaleKeeps == CInv /\ StaleTimer => CInv'
<1> SUFFICES ASSUME CInv, StaleTimer PROVE CInv'
  OBVIOUS
<1>0. /\ timers' = Tail(timers) /\ timers # <<>> /\ timers \in Seq(Timer)
      /\ UNCHANGED <<gen, reply, net, wire, buffer, text, truncated, atCap,
                     atDeadline, deadline, length, fate, reports>>
  BY DEF StaleTimer, CInv, ClientTypeOK
<1>1. ClientTypeOK'
  BY <1>0, TailFacts DEF CInv, ClientTypeOK
<1>2. ReplyIsLatest' /\ FieldsFit' /\ NotYetSent' /\ WholeAnswer' /\ BlamesDeadline'
  BY <1>0 DEF CInv, ReplyIsLatest, FieldsFit, NotYetSent, WholeAnswer, BlamesDeadline
<1>3. TimersFit'
  <2>1. \A i \in DOMAIN timers' : i \in Nat /\ i + 1 \in DOMAIN timers /\ timers'[i] = timers[i + 1]
    BY <1>0, TailFacts
  <2> QED
    BY <1>0, <2>1 DEF CInv, TimersFit
<1> QED
  BY <1>1, <1>2, <1>3 DEF CInv

\* The deferred report of a rejected send.
LEMMA ErrorKeeps == CInv /\ emitDeferredError => CInv'
<1> SUFFICES ASSUME CInv, emitDeferredError PROVE CInv'
  OBVIOUS
<1> DEFINE r == [ok |-> FALSE, late |-> FALSE, lines |-> 0, truncated |-> FALSE]
<1>0. /\ timers' = Tail(timers) /\ timers # <<>> /\ timers \in Seq(Timer)
      /\ UNCHANGED <<gen, reply, net, wire, buffer, text, truncated, atCap,
                     atDeadline, deadline, length, fate>>
      /\ Head(timers) \in Timer /\ 1 \in DOMAIN timers /\ Head(timers) = timers[1]
      /\ timers[1].kind = "error" /\ timers[1].gen = gen /\ gen \in Gen
  <2>1. timers # <<>> /\ timers \in Seq(Timer)
    BY DEF emitDeferredError, Due, CInv, ClientTypeOK
  <2>2. Head(timers) \in Timer /\ 1 \in DOMAIN timers /\ Head(timers) = timers[1]
    BY <2>1, TailFacts
  <2> QED
    BY <2>1, <2>2 DEF emitDeferredError, Due, Fresh, Timer
<1>1. fate[gen] = "rejected" /\ reports[gen] = <<>> /\ reply = NoReply
  BY <1>0 DEF CInv, TimersFit, ReplyIsLatest, Posted
<1>2. r \in Report
  BY DEF Report
<1>3. reports' = [reports EXCEPT ![gen] = Append(<<>>, r)]
  BY <1>0, <1>1 DEF emitDeferredError, CInv, ClientTypeOK
<1> HIDE DEF r
<1>4. ClientTypeOK'
  <2>1. reports' \in [Gen -> Seq(Report)]
    BY <1>0, <1>2, <1>3, OneReport DEF CInv, ClientTypeOK, Report
  <2> QED
    BY <1>0, <2>1, TailFacts DEF CInv, ClientTypeOK, Report
<1>5. ReplyIsLatest' /\ FieldsFit' /\ NotYetSent'
  BY <1>0, <1>1, <1>3 DEF CInv, ClientTypeOK, ReplyIsLatest, FieldsFit, NotYetSent
<1>6. TimersFit'
  <2>1. \A i \in DOMAIN timers' : i \in Nat /\ i # 0 /\ i + 1 \in DOMAIN timers /\
                                  timers'[i] = timers[i + 1]
    BY <1>0, TailFacts
  <2>2. \A i \in DOMAIN timers' : ~(timers'[i].kind = "error" /\ timers'[i].gen = gen)
    <3> SUFFICES ASSUME NEW i \in DOMAIN timers',
                        timers'[i].kind = "error", timers'[i].gen = gen
                 PROVE  FALSE
      OBVIOUS
    <3>1. i + 1 = 1
      BY <1>0, <2>1 DEF CInv, TimersFit
    <3> QED
      BY <2>1, <3>1
  <2> QED
    BY <1>0, <1>1, <2>1, <2>2 DEF CInv, TimersFit
<1>7. /\ DOMAIN reports'[gen] = {1} /\ reports'[gen][1] = r
      /\ \A g \in Gen \ {gen} : reports'[g] = reports[g]
  BY <1>0, <1>2, <1>3, OneReport DEF CInv, ClientTypeOK
<1>8. WholeAnswer'
  <2>1. ~r.ok
    BY DEF r
  <2> QED
    BY <1>0, <1>7, <2>1 DEF CInv, WholeAnswer
<1>9. BlamesDeadline'
  <2>1. ~r.late
    BY DEF r
  <2> QED
    BY <1>0, <1>1, <1>7, <2>1 DEF CInv, BlamesDeadline
<1> QED
  BY <1>4, <1>5, <1>6, <1>8, <1>9 DEF CInv

\* The deferred continuation of a drain.
LEMMA DrainTickKeeps == CInv /\ DrainTick => CInv'
<1> SUFFICES ASSUME CInv, DrainTick PROVE CInv'
  OBVIOUS
<1>1. /\ timers # <<>> /\ reply # NoReply /\ drain(0, FALSE, Tail(timers))
      /\ gen' = gen /\ length' = length
  BY DEF DrainTick, Due
<1>2. 0 \in Nat /\ FALSE \in BOOLEAN /\ 0 <= wire /\ wire' = wire - 0
  BY <1>1, InFlight DEF DrainTick
<1>3. Tail(timers) \in Seq(Timer)
  BY <1>1, InFlight, TailFacts
<1>4. FALSE => net = "open"
  OBVIOUS
<1> QED
  BY <1>1, <1>2, <1>3, <1>4, NoErrorDueTail, DrainKeeps, Zenon

\* The deferred continuation of onFinished().
LEMMA FinishTickKeeps == CInv /\ FinishTick => CInv'
<1> SUFFICES ASSUME CInv, FinishTick PROVE CInv'
  OBVIOUS
<1> DEFINE F == fate[reply]
<1>1. /\ timers # <<>> /\ reply # NoReply /\ reply \in Gen /\ reply = gen
      /\ gen' = gen /\ length' = length /\ wire' = wire /\ net' = net /\ fate' = fate
      /\ onFinished(buffer, text, truncated, atCap, atDeadline, F, Tail(timers))
  BY InFlight DEF FinishTick, Due, CInv, ReplyIsLatest
<1>2. Tail(timers) \in Seq(Timer) /\ 1 \in DOMAIN timers /\ Head(timers) = timers[1]
  BY <1>1, InFlight, TailFacts
<1>3. net # "open"
  BY <1>1, <1>2 DEF CInv, TimersFit, FinishTick, Due, Fresh
<1>4. F \in Posted \ {"running"} /\ net' \in {"ended", "failed"}
  BY <1>1, <1>3 DEF CInv, ClientTypeOK, ReplyIsLatest, FieldsFit
<1>5. fate' = [fate EXCEPT ![reply] = F]
  BY <1>1 DEF CInv, ClientTypeOK
<1>6. /\ F = "ended" <=> net' = "ended"
      /\ F = "ended" => wire' = 0
      /\ atDeadline <=> F = "late"
      /\ atCap \/ F = "capped" => truncated
  BY <1>1 DEF CInv, FieldsFit
<1> HIDE DEF F
<1>7. Ending(buffer, text, truncated, atCap, atDeadline, F, Tail(timers), F)
  BY <1>1, <1>2, <1>4, <1>5, <1>6, InFlight, NoErrorDueTail DEF Ending
<1>8. wire' \in 0..MaxLines
  BY <1>1, InFlight
<1> QED
  BY <1>1, <1>7, <1>8, OnFinishedKeeps, Zenon

-----------------------------------------------------------------------------
\* Every step of the client and of the network keeps the invariant.
LEMMA CStep == CInv /\ [ClientNext]_clientVars => CInv'
<1> SUFFICES ASSUME CInv, [ClientNext]_clientVars PROVE CInv'
  OBVIOUS
<1>1. CASE UNCHANGED clientVars
  BY <1>1 DEF clientVars, CInv, ClientTypeOK, ReplyIsLatest, FieldsFit, NotYetSent, TimersFit,
     WholeAnswer, BlamesDeadline
<1>2. CASE Loop
  BY <1>2, StaleKeeps, ErrorKeeps, DrainTickKeeps, FinishTickKeeps DEF Loop
<1>3. ASSUME NEW rejected \in BOOLEAN, NEW timed \in BOOLEAN,
             NEW n \in 0..MaxLines, send(rejected, timed, n) PROVE CInv'
  BY <1>3, SendKeeps
<1>4. ASSUME NEW n \in 1..MaxLines, NEW dropped \in BOOLEAN, readyRead(n, dropped) PROVE CInv'
  BY <1>4, ReadyReadKeeps
<1>5. ASSUME NEW how \in {"ended", "failed"}, finished(how) PROVE CInv'
  BY <1>5, FinishedKeeps
<1> QED
  BY <1>1, <1>2, <1>3, <1>4, <1>5, AbortKeeps, DeadlineKeeps DEF ClientNext

\* The inductive invariant holds in every reachable state.
THEOREM ClientInvariant == ClientSpec => []CInv
BY CInit, CStep, PTL DEF ClientSpec

\* Every variable keeps its type.
THEOREM ClientTypeCorrect == ClientSpec => []ClientTypeOK
<1>1. CInv => ClientTypeOK
  BY DEF CInv
<1> QED
  BY <1>1, ClientInvariant, PTL

\* An answer that finished() reports as complete has every line of its reply.
THEOREM CompleteAnswersAreWhole == ClientSpec => []WholeAnswer
<1>1. CInv => WholeAnswer
  BY DEF CInv
<1> QED
  BY <1>1, ClientInvariant, PTL

\* A report of a missed deadline is about a request whose own deadline fired.
THEOREM DeadlineBlamedRightly == ClientSpec => []BlamesDeadline
<1>1. CInv => BlamesDeadline
  BY DEF CInv
<1> QED
  BY <1>1, ClientInvariant, PTL

\* Only onFinished() and emitDeferredError() report.
LEMMA WhoReports ==
  ASSUME CInv, ClientNext, NEW g \in Gen, reports'[g] # reports[g]
  PROVE  \/ reply # NoReply /\ \E r : reports' = [reports EXCEPT ![reply] = r]
         \/ emitDeferredError
<1>1. CASE Loop
  BY <1>1 DEF Loop, StaleTimer, DrainTick, FinishTick, drain, onFinished
<1>2. CASE abort \/ DeadlineFires
  BY <1>2 DEF abort, DeadlineFires, onFinished
<1>3. ASSUME NEW rejected \in BOOLEAN, NEW timed \in BOOLEAN,
             NEW n \in 0..MaxLines, send(rejected, timed, n)
      PROVE  FALSE
  BY <1>3 DEF send
<1>4. CASE \E n \in 1..MaxLines, dropped \in BOOLEAN : readyRead(n, dropped)
  BY <1>4 DEF readyRead, drain, onFinished
<1>5. CASE \E how \in {"ended", "failed"} : finished(how)
  BY <1>5 DEF finished, onFinished
<1> QED
  BY <1>1, <1>2, <1>3, <1>4, <1>5 DEF ClientNext

\* finished() is emitted at most once per send(), for the latest request only,
\* and never for one that was dropped.
THEOREM OneReportPerSend == ClientSpec => ReportsOnce
<1> DEFINE Once ==
      \A g \in Gen : reports'[g] # reports[g] =>
        g = gen /\ reports[g] = <<>> /\ fate[g] # "dropped"
<1>1. CInv /\ [ClientNext]_clientVars => [Once]_clientVars
  <2> SUFFICES ASSUME CInv, ClientNext, NEW g \in Gen, reports'[g] # reports[g]
               PROVE  g = gen /\ reports[g] = <<>> /\ fate[g] # "dropped"
    OBVIOUS
  <2>1. CASE reply # NoReply /\ \E r : reports' = [reports EXCEPT ![reply] = r]
    BY <2>1 DEF CInv, ClientTypeOK, ReplyIsLatest, Posted
  <2>2. CASE emitDeferredError
    <3>1. /\ timers # <<>> /\ timers \in Seq(Timer)
          /\ Head(timers).kind = "error" /\ Head(timers).gen = gen
      BY <2>2 DEF emitDeferredError, Due, Fresh, CInv, ClientTypeOK
    <3>2. fate[gen] = "rejected" /\ reports[gen] = <<>>
      BY <3>1, TailFacts DEF CInv, TimersFit
    <3> QED
      BY <2>2, <3>2 DEF emitDeferredError, CInv, ClientTypeOK
  <2> QED
    BY <2>1, <2>2, WhoReports
<1> QED
  BY <1>1, ClientInvariant, PTL DEF ClientSpec, ReportsOnce
=============================================================================
