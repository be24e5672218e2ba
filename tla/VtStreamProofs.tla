--------------------------- MODULE VtStreamProofs ---------------------------
(***************************************************************************)
(* Proofs about VtStream for every window, threshold, read size and output *)
(* length: the inductive invariant, the safety properties it implies, and  *)
(* the refinement of OutputStream.                                         *)
(***************************************************************************)
EXTENDS VtStream, TLAPS

(***************************************************************************)
(* The inductive invariant.                                                *)
(***************************************************************************)

\* What k batches hold at most.
Units(k) == k * MaxBatch

\* A queue of consecutive intervals from `from` to `to`, a batch not empty,
\* the finished event empty, none larger than MaxBatch; the units from entry i on are bounded by
\* the number of entries.
Ordered(q, from, to) ==
    /\ Chained(q, from, to)
    /\ \A i \in 1..Len(q) :
        /\ q[i].lo <= q[i].hi
        /\ q[i].hi <= to
        /\ q[i].hi - q[i].lo <= MaxBatch
        /\ q[i].kind = "batch" <=> q[i].lo < q[i].hi
        /\ to - q[i].lo <= Units(Len(q) - i + 1)

\* The stream through the queue, the pending units and the bound on both.
StreamInv ==
    /\ Ordered(guiQueue, applied, sent)
    /\ sent <= fed
    /\ fed = readPos + injected
    /\ fed - applied <= Window

\* The finished event is the last one, and is queued from EOF to exited.
FinishedLast ==
    /\ \A i \in 1..Len(guiQueue) :
        guiQueue[i].kind = "finished" => i = Len(guiQueue) /\ readEof /\ ~exited
    /\ readEof /\ ~exited =>
        guiQueue # <<>> /\ guiQueue[Len(guiQueue)].kind = "finished"
    /\ exited => readEof /\ guiQueue = <<>>

\* EOF leaves the worker's side of the stream drained and its loop left.
EofDrained ==
    readEof => /\ sent = fed
               /\ readPos = produced
               /\ ~childOpen
               /\ pc = "idle"

\* How much m_pending can hold: below the threshold while reads go on, and
\* one read, and perhaps a reset, more when a flush found the window full.
PendingBound ==
    /\ ~readPaused => fed - sent < FlushUnits
    /\ pc = "read" => fed - sent < FlushUnits + ResetUnits
    /\ fed - sent <= MaxBatch

\* A paused worker counts a full window.
PauseFull ==
    readPaused => inFlight = MaxInFlight

\* The worker's flags and counters.
ControlInv ==
    /\ EofDrained
    /\ InFlightExact
    /\ PauseFull
    /\ PendingHasTrigger
    /\ NotifierMatches
    /\ PendingBound
    /\ ResizeAtomic

IInv ==
    /\ TypeOK
    /\ StreamInv
    /\ FinishedLast
    /\ ControlInv

-----------------------------------------------------------------------------
(***************************************************************************)
(* The queue's two operations.                                             *)
(***************************************************************************)

\* MaxBatch is a positive natural number (just under kFlushBytes, a reset
\* and one read).
LEMMA MaxBatchNat == MaxBatch \in Nat \ {0}
  BY BoundsAssumption DEF MaxBatch

\* Units counts in steps of MaxBatch.
LEMMA UnitsStep ==
  ASSUME NEW k \in Nat
  PROVE  Units(k) \in Nat /\ Units(k + 1) = Units(k) + MaxBatch
  BY MaxBatchNat DEF Units

\* Appending the interval from `to` to `hi` keeps a queue ordered: what
\* flushBatch, drainAck and onPtyFinished do to the GUI's queue.
LEMMA OrderedAppend ==
  ASSUME NEW q \in Seq(Event), NEW from \in Nat, NEW to \in Nat, NEW hi \in Nat,
         NEW e \in Event,
         Ordered(q, from, to), to <= hi, hi - to <= MaxBatch,
         e.lo = to, e.hi = hi, e.kind = "batch" <=> to < hi
  PROVE  Ordered(Append(q, e), from, hi)
<1> DEFINE r == Append(q, e)
<1>1. /\ r \in Seq(Event) /\ Len(r) = Len(q) + 1 /\ Len(q) \in Nat
      /\ \A i \in 1..Len(q) : r[i] = q[i]
      /\ r[Len(q) + 1] = e
  OBVIOUS
<1> HIDE DEF r
<1>2. Chained(r, from, hi)
  <2>1. ASSUME NEW i \in 1..Len(r)
        PROVE  r[i].lo = IF i = 1 THEN from ELSE r[i - 1].hi
    <3>1. CASE i \in 1..Len(q)
      <4>1. q[i].lo = IF i = 1 THEN from ELSE q[i - 1].hi
        BY <3>1 DEF Ordered, Chained
      <4>2. r[i] = q[i] /\ (i # 1 => r[i - 1] = q[i - 1])
        BY <1>1, <3>1
      <4> QED BY <4>1, <4>2
    <3>2. CASE i = Len(q) + 1 /\ q = <<>>
      BY <1>1, <3>2 DEF Ordered, Chained
    <3>3. CASE i = Len(q) + 1 /\ q # <<>>
      <4>1. Len(q) \in 1..Len(q) /\ i # 1 /\ i - 1 = Len(q)
        BY <1>1, <3>3
      <4> QED BY <1>1, <3>3, <4>1 DEF Ordered, Chained
    <3> QED BY <1>1, <3>1, <3>2, <3>3
  <2>2. r # <<>> /\ hi = r[Len(r)].hi
    BY <1>1
  <2> QED BY <2>1, <2>2 DEF Chained
<1>3. ASSUME NEW i \in 1..Len(r)
      PROVE  /\ r[i].lo <= r[i].hi
             /\ r[i].hi <= hi
             /\ r[i].hi - r[i].lo <= MaxBatch
             /\ r[i].kind = "batch" <=> r[i].lo < r[i].hi
             /\ hi - r[i].lo <= Units(Len(r) - i + 1)
  <2>1. CASE i = Len(q) + 1
    <3>1. Len(r) - i + 1 = 1 /\ Units(1) = MaxBatch
      BY <1>1, <2>1, MaxBatchNat DEF Units
    <3> QED BY <1>1, <2>1, <3>1
  <2>2. CASE i \in 1..Len(q)
    <3> DEFINE k == Len(q) - i + 1
    <3>0. q[i] \in Event
      BY <2>2
    <3>1. /\ q[i].lo \in Nat /\ q[i].hi \in Nat /\ q[i].lo <= q[i].hi
          /\ q[i].hi <= to /\ q[i].hi - q[i].lo <= MaxBatch
          /\ q[i].kind = "batch" <=> q[i].lo < q[i].hi
          /\ to - q[i].lo <= Units(k)
      BY <2>2, <3>0 DEF Ordered, Event
    <3>2. k \in Nat /\ Len(r) - i + 1 = k + 1
      BY <1>1, <2>2
    <3>3. hi - q[i].lo <= Units(k + 1)
      <4>1. Units(k) \in Nat /\ Units(k + 1) = Units(k) + MaxBatch
        BY <3>2, UnitsStep
      <4> HIDE DEF k
      <4> QED BY <3>1, <4>1, MaxBatchNat
    <3>4. r[i] = q[i] /\ q[i].hi <= hi
      BY <1>1, <2>2, <3>1
    <3> QED
      BY <3>1, <3>2, <3>3, <3>4
  <2> QED
    BY <1>1, <2>1, <2>2
<1> QED
  BY <1>2, <1>3 DEF Ordered, r

\* Taking the head off an ordered queue leaves one that starts where the head
\* ended: what the GUI thread does when it applies a batch.
LEMMA OrderedTail ==
  ASSUME NEW q \in Seq(Event), NEW from \in Nat, NEW to \in Nat,
         Ordered(q, from, to), q # <<>>
  PROVE  /\ Ordered(Tail(q), Head(q).hi, to)
         /\ Head(q).lo = from /\ Head(q).hi \in Nat
         /\ from <= Head(q).hi /\ Head(q).hi <= to
         /\ Head(q).kind = "batch" <=> from < Head(q).hi
<1> DEFINE r == Tail(q)
<1>1. /\ r \in Seq(Event) /\ Len(r) = Len(q) - 1 /\ Len(q) \in Nat \ {0}
      /\ \A i \in 1..Len(r) : r[i] = q[i + 1]
      /\ Head(q) = q[1] /\ q[1] \in Event
  OBVIOUS
<1>2. /\ q[1].lo = from /\ q[1].hi \in Nat /\ q[1].lo <= q[1].hi /\ q[1].hi <= to
      /\ q[1].kind = "batch" <=> q[1].lo < q[1].hi
  BY <1>1 DEF Ordered, Chained, Event
<1>3. Chained(r, q[1].hi, to)
  <2>1. ASSUME NEW i \in 1..Len(r)
        PROVE  r[i].lo = IF i = 1 THEN q[1].hi ELSE r[i - 1].hi
    <3>1. q[i + 1].lo = q[i].hi
      BY <1>1 DEF Ordered, Chained
    <3> QED BY <1>1, <3>1
  <2>2. to = IF r = <<>> THEN q[1].hi ELSE r[Len(r)].hi
    <3>1. to = q[Len(q)].hi
      BY DEF Ordered, Chained
    <3>2. CASE r = <<>>
      <4>1. Len(Tail(q)) = Len(q) - 1
        BY <1>1
      <4>2. Len(q) = 1
        BY <1>1, <3>2, <4>1
      <4> QED BY <3>1, <3>2, <4>2
    <3>3. CASE r # <<>>
      <4>1. Len(r) \in 1..Len(r) /\ Len(r) + 1 = Len(q)
        BY <1>1, <3>3
      <4> QED BY <1>1, <3>1, <3>3, <4>1
    <3> QED BY <3>2, <3>3
  <2> QED BY <2>1, <2>2 DEF Chained
<1>4. ASSUME NEW i \in 1..Len(r)
      PROVE  /\ r[i].lo <= r[i].hi
             /\ r[i].hi <= to
             /\ r[i].hi - r[i].lo <= MaxBatch
             /\ r[i].kind = "batch" <=> r[i].lo < r[i].hi
             /\ to - r[i].lo <= Units(Len(r) - i + 1)
  <2>1. i + 1 \in 1..Len(q) /\ Len(q) - (i + 1) + 1 = Len(r) - i + 1 /\ r[i] = q[i + 1]
    BY <1>1
  <2> QED BY <2>1 DEF Ordered
<1> QED
  BY <1>1, <1>2, <1>3, <1>4 DEF Ordered

-----------------------------------------------------------------------------
(***************************************************************************)
(* The invariant is inductive.                                             *)
(***************************************************************************)

\* startShell's state satisfies the invariant.
LEMMA InitIInv == Init => IInv
<1> SUFFICES ASSUME Init PROVE IInv
  OBVIOUS
<1> USE BoundsAssumption
<1>1. TypeOK
  <2>1. guiQueue \in Seq(Event)
    BY DEF Init
  <2>2. /\ childOpen \in BOOLEAN /\ readEnabled \in BOOLEAN /\ readEof \in BOOLEAN
        /\ flushScheduled \in BOOLEAN /\ readPaused \in BOOLEAN
        /\ resizePosted \in BOOLEAN /\ exited \in BOOLEAN
    BY Zenon DEF Init
  <2> QED BY <2>1, <2>2 DEF Init, TypeOK
<1>2. StreamInv
  <2>1. Window \in Nat
    BY DEF Window, MaxBatch
  <2> QED BY <2>1 DEF Init, StreamInv, Ordered, Chained
<1>3. FinishedLast
  BY DEF Init, FinishedLast
<1>4. ControlInv
  BY DEF Init, ControlInv, EofDrained, InFlightExact, outstanding, PauseFull,
         PendingHasTrigger, hasPending, NotifierMatches, PendingBound, MaxBatch,
         ResizeAtomic
<1> QED
  BY <1>1, <1>2, <1>3, <1>4 DEF IInv

\* A worker's step either leaves the queue alone or sends everything pending
\* as one batch; this is all the stream part of the invariant needs to know.
Kept == guiQueue' = guiQueue /\ sent' = sent
Sent == /\ sent < fed'
        /\ guiQueue' = Append(guiQueue, Batch(sent, fed'))
        /\ sent' = fed'

\* The shape of a queue after a send.
LEMMA AppendFacts ==
  ASSUME NEW q \in Seq(Event), NEW e \in Event
  PROVE  /\ Append(q, e) \in Seq(Event)
         /\ Len(Append(q, e)) = Len(q) + 1
         /\ Append(q, e) # <<>>
         /\ \A i \in 1..Len(q) : Append(q, e)[i] = q[i]
         /\ Append(q, e)[Len(q) + 1] = e
  OBVIOUS

\* The window bound from the queue's: at most MaxInFlight batches of at most
\* MaxBatch units each, and at most MaxBatch units pending.
LEMMA WindowBound ==
  ASSUME NEW q \in Seq(Event), NEW from \in Nat, NEW to \in Nat, NEW end \in Nat,
         Ordered(q, from, to), Len(q) <= MaxInFlight, end - to <= MaxBatch
  PROVE  end - from <= Window
<1> USE BoundsAssumption
<1>1. to - from <= Units(Len(q))
  <2>1. CASE q = <<>>
    <3>1. to = from /\ Units(Len(q)) = 0
      BY <2>1, MaxBatchNat DEF Ordered, Chained, Units
    <3> QED BY <3>1
  <2>2. CASE q # <<>>
    <3>1. 1 \in 1..Len(q) /\ Len(q) - 1 + 1 = Len(q)
      BY <2>2
    <3>2. q[1].lo = from
      BY <3>1 DEF Ordered, Chained
    <3> QED BY <3>1, <3>2 DEF Ordered
  <2> QED BY <2>1, <2>2
<1>2. Units(Len(q)) <= Units(MaxInFlight) /\ Units(Len(q)) \in Nat
  <2>1. \A a, b, m \in Nat : a <= b => a * m <= b * m
    OBVIOUS
  <2>2. Len(q) \in Nat
    OBVIOUS
  <2> QED BY <2>1, <2>2, MaxBatchNat, UnitsStep DEF Units
<1>3. Window = Units(MaxInFlight) + MaxBatch /\ Units(MaxInFlight) \in Nat
  BY MaxBatchNat, UnitsStep DEF Window, Units
<1> QED
  BY <1>1, <1>2, <1>3, MaxBatchNat

\* Constants do not change.
LEMMA WindowPrime == Window' = Window /\ MaxBatch' = MaxBatch
  BY DEF Window, MaxBatch

\* The stream part is preserved by every step that keeps the queue or sends.
LEMMA StreamStep ==
  ASSUME IInv, TypeOK', Kept \/ Sent, applied' = applied,
         fed' = readPos' + injected', fed <= fed', fed' - sent <= MaxBatch,
         readEof => fed' = fed, ~readEof', InFlightExact'
  PROVE  StreamInv'
<1> USE BoundsAssumption
<1>1. /\ guiQueue \in Seq(Event) /\ applied \in Nat /\ sent \in Nat /\ fed' \in Nat
      /\ fed \in Nat /\ Ordered(guiQueue, applied, sent) /\ sent <= fed
  BY DEF IInv, TypeOK, StreamInv
<1>2. Ordered(guiQueue', applied', sent') /\ sent' <= fed' /\ fed' - sent' <= MaxBatch
  <2>1. CASE Kept
    BY <1>1, <2>1 DEF Kept
  <2>2. CASE Sent
    <3> DEFINE e == Batch(sent, fed')
    <3>1. e \in Event /\ e.lo = sent /\ e.hi = fed' /\ e.kind = "batch"
      BY <1>1 DEF Event, Batch
    <3>2. Ordered(Append(guiQueue, e), applied, fed')
      <4> HIDE DEF e
      <4> QED BY <1>1, <2>2, <3>1, OrderedAppend DEF Sent
    <3>3. fed' - fed' <= MaxBatch
      BY <1>1, MaxBatchNat
    <3> QED BY <1>1, <2>2, <3>2, <3>3 DEF Sent
  <2> QED BY <2>1, <2>2
<1>3. fed' - applied' <= Window
  <2>1. Len(guiQueue') <= MaxInFlight
    BY DEF TypeOK, InFlightExact, outstanding
  <2>2. guiQueue' \in Seq(Event) /\ applied' \in Nat /\ sent' \in Nat
    BY DEF TypeOK
  <2> QED BY <1>1, <1>2, <2>1, <2>2, WindowBound
<1> QED
  BY <1>2, <1>3, WindowPrime DEF StreamInv

\* The three ways VtStream takes data: it holds it because the window is
\* full, sends it, or schedules a flush.
Holds == /\ Kept
         /\ inFlight = MaxInFlight
         /\ readPaused' = TRUE /\ readEnabled' = FALSE
         /\ UNCHANGED inFlight
Sends == /\ Sent
         /\ inFlight < MaxInFlight
         /\ inFlight' = inFlight + 1
         /\ UNCHANGED <<readPaused, readEnabled>>
Schedules == /\ Kept
             /\ fed' - sent < FlushUnits
             /\ flushScheduled' = TRUE
             /\ UNCHANGED <<inFlight, readPaused, readEnabled>>

\* VtStream::flushBatch with something pending holds or sends it.
LEMMA FlushCases ==
  ASSUME IInv, ~readEof, flushBatch(fed'), sent < fed'
  PROVE  Holds \/ Sends
<1>1. CASE inFlight >= MaxInFlight
  <2>1. inFlight = MaxInFlight
    BY <1>1, BoundsAssumption DEF IInv, TypeOK
  <2>2. CASE readPaused
    <3>1. ~readEnabled /\ readPaused' = readPaused /\ readEnabled' = readEnabled
      BY <1>1, <2>2, <2>1, BoundsAssumption
      DEF IInv, ControlInv, NotifierMatches, flushBatch
    <3>2. readEnabled' = FALSE /\ readPaused' = TRUE
      BY <2>2, <3>1, Zenon DEF IInv, TypeOK
    <3>3. ~(inFlight < MaxInFlight)
      BY <1>1, BoundsAssumption DEF IInv, TypeOK
    <3> QED BY <2>1, <3>2, <3>3, Zenon DEF flushBatch, Holds, Kept
  <2>3. CASE ~readPaused
    <3>1. ~(inFlight < MaxInFlight)
      BY <1>1, BoundsAssumption DEF IInv, TypeOK
    <3> QED BY <2>1, <2>3, <3>1, Zenon DEF flushBatch, setReadEnabled, Holds, Kept
  <2> QED BY <2>2, <2>3
<1>2. CASE inFlight < MaxInFlight
  <2>1. ~(inFlight >= MaxInFlight)
    BY <1>2, BoundsAssumption DEF IInv, TypeOK
  <2> QED BY <1>2, <2>1, Zenon DEF flushBatch, Sends, Sent
<1> QED
  BY <1>1, <1>2, BoundsAssumption DEF IInv, TypeOK

\* VtStream::onPtyData does one of the three.
LEMMA DataCases ==
  ASSUME IInv, ~readEof, NEW n \in Nat \ {0}, onPtyData(n)
  PROVE  /\ fed' = fed + n
         /\ \/ Holds /\ UNCHANGED flushScheduled
            \/ Sends /\ UNCHANGED flushScheduled
            \/ Schedules
<1>1. fed' = fed + n /\ sent < fed'
  BY DEF onPtyData, IInv, TypeOK, StreamInv
<1>2. PICK manyActions \in BOOLEAN :
        IF manyActions \/ fed + n - sent >= FlushUnits
        THEN flushBatch(fed + n) /\ UNCHANGED flushScheduled
        ELSE /\ flushScheduled' = TRUE
             /\ UNCHANGED <<sent, inFlight, readPaused, readEnabled, guiQueue>>
  BY DEF onPtyData
<1>3. CASE manyActions \/ fed + n - sent >= FlushUnits
  BY <1>1, <1>2, <1>3, FlushCases
<1>4. CASE ~(manyActions \/ fed + n - sent >= FlushUnits)
  <2>1. fed' - sent < FlushUnits
    BY <1>1, <1>4, BoundsAssumption DEF IInv, TypeOK
  <2> QED BY <1>1, <1>2, <1>4, <2>1 DEF Schedules, Kept
<1> QED
  BY <1>1, <1>3, <1>4

\* The queue after a send, as the control part sees it.
LEMMA SentFacts ==
  ASSUME IInv, Sent, fed' \in Nat
  PROVE  /\ guiQueue' \in Seq(Event) /\ sent' \in Nat
         /\ Len(guiQueue') = Len(guiQueue) + 1
         /\ \A i \in 1..Len(guiQueue) : guiQueue'[i] = guiQueue[i]
         /\ guiQueue'[Len(guiQueue) + 1].kind = "batch"
<1> DEFINE e == Batch(sent, fed')
<1>1. e \in Event /\ e.kind = "batch" /\ guiQueue \in Seq(Event)
  BY DEF IInv, TypeOK, Event, Batch
<1>2. guiQueue' = Append(guiQueue, e) /\ sent' = fed'
  BY DEF Sent
<1> HIDE DEF e
<1> QED
  BY <1>1, <1>2, AppendFacts

\* Until EOF the queue holds batches only, and a send adds one.
LEMMA FinishedLastStep ==
  ASSUME IInv, fed' \in Nat, Kept \/ Sent, Sent => ~readEof,
         UNCHANGED <<readEof, exited>>
  PROVE  FinishedLast'
<1>1. CASE Kept
  BY <1>1 DEF Kept, IInv, FinishedLast
<1>2. CASE Sent
  <2>1. ~readEof' /\ ~exited'
    BY <1>2 DEF IInv, FinishedLast
  <2>2. ASSUME NEW i \in 1..Len(guiQueue') PROVE guiQueue'[i].kind # "finished"
    <3>1. Len(guiQueue) \in Nat /\ (i \in 1..Len(guiQueue) \/ i = Len(guiQueue) + 1)
      BY <1>2, SentFacts DEF IInv, TypeOK
    <3> QED BY <1>2, <3>1, SentFacts DEF IInv, FinishedLast
  <2> QED BY <2>1, <2>2 DEF FinishedLast
<1> QED
  BY <1>1, <1>2

\* What a step that takes or flushes data does besides: it stays within what
\* the child wrote, the data fits one batch, and the read loop goes on only
\* with reads enabled (or, right after an injection, with less than a full
\* batch and the reset pending).
DataFrame ==
    /\ readPos' \in 0..produced
    /\ injected' \in 0..MaxInject
    /\ fed' = readPos' + injected'
    /\ fed' - sent <= MaxBatch
    /\ pc' \in {"idle", "read"}
    /\ pc' = "read" => readEnabled' \/ fed' - sent < FlushUnits + ResetUnits
    /\ flushScheduled' \in BOOLEAN
    /\ UNCHANGED <<childVars, readEof, acks, guiVars>>

\* Every step of the worker that takes or flushes data preserves the
\* invariant: the injected reset of a wake, each read of its loop, the timer.
LEMMA DataStep ==
  ASSUME IInv, ~readEof, fed' \in Nat, fed <= fed', Holds \/ Sends \/ Schedules,
         DataFrame
  PROVE  IInv'
<1> USE BoundsAssumption
<1>0. /\ fed \in Nat /\ sent \in Nat /\ inFlight \in 0..MaxInFlight /\ acks \in Nat
      /\ Len(guiQueue) \in Nat /\ guiQueue \in Seq(Event)
  BY DEF IInv, TypeOK
<1>b. fed' \in Nat
  OBVIOUS
<1>1. Holds \/ Sends \/ Schedules
  OBVIOUS
<1>2. Kept \/ Sent
  BY <1>1 DEF Holds, Sends, Schedules
<1>3. ~readEof' /\ ~exited' /\ UNCHANGED <<produced, childOpen, acks, resizePosted,
                                          gridSize, winsize, applied>>
  BY DEF IInv, FinishedLast, childVars, guiVars, DataFrame
<1>4. TypeOK'
  <2>1. guiQueue' \in Seq(Event) /\ sent' \in Nat
    BY <1>0, <1>b, <1>2, SentFacts DEF Kept
  <2>2. inFlight' \in 0..MaxInFlight
    <3>1. inFlight' = inFlight \/ (inFlight < MaxInFlight /\ inFlight' = inFlight + 1)
      BY <1>1 DEF Holds, Sends, Schedules
    <3> QED BY <1>0, <3>1
  <2>3. /\ readPaused' \in BOOLEAN /\ readEnabled' \in BOOLEAN
        /\ flushScheduled' \in BOOLEAN
    <3>1. CASE Holds
      BY <3>1, Zenon DEF Holds, IInv, TypeOK, DataFrame
    <3>2. CASE Sends
      BY <3>2 DEF Sends, IInv, TypeOK, DataFrame
    <3>3. CASE Schedules
      BY <3>3, Zenon DEF Schedules, IInv, TypeOK, DataFrame
    <3> QED BY <1>1, <3>1, <3>2, <3>3
  <2>4. /\ produced' \in 0..MaxOutput /\ readPos' \in 0..produced'
        /\ injected' \in 0..MaxInject /\ acks' \in Nat /\ applied' \in Nat
        /\ gridSize' \in Sizes /\ winsize' \in Sizes /\ pc' \in {"idle", "read"}
    BY <1>3 DEF IInv, TypeOK, DataFrame
  <2>5. /\ childOpen' \in BOOLEAN /\ readEof' \in BOOLEAN
        /\ resizePosted' \in BOOLEAN /\ exited' \in BOOLEAN
    BY DEF IInv, TypeOK, DataFrame, childVars, guiVars
  <2> QED BY <1>b, <2>1, <2>2, <2>3, <2>4, <2>5 DEF TypeOK
<1>5. InFlightExact'
  <2>1. inFlight = Len(guiQueue) + acks
    BY <1>0 DEF IInv, ControlInv, InFlightExact, outstanding
  <2>2. inFlight' = Len(guiQueue') + acks'
    <3>1. CASE Holds \/ Schedules
      BY <1>3, <2>1, <3>1 DEF Holds, Schedules, Kept
    <3>2. CASE Sends
      <4>1. Len(guiQueue') = Len(guiQueue) + 1
        BY <1>b, <3>2, SentFacts DEF Sends
      <4>2. inFlight' = inFlight + 1
        BY <3>2 DEF Sends
      <4> QED BY <1>0, <1>3, <2>1, <4>1, <4>2
    <3> QED BY <1>1, <3>1, <3>2
  <2>3. acks' \in Nat /\ Len(guiQueue') \in Nat
    BY <1>4 DEF TypeOK
  <2> QED BY <1>3, <2>2, <2>3 DEF InFlightExact, outstanding
<1>6. StreamInv'
  BY <1>2, <1>3, <1>4, <1>5, StreamStep DEF DataFrame
<1>7. FinishedLast'
  BY <1>b, <1>2, <1>3, FinishedLastStep DEF guiVars, DataFrame
<1>8. PauseFull' /\ NotifierMatches'
  <2>1. CASE Holds
    BY <1>3, <2>1 DEF Holds, PauseFull, NotifierMatches
  <2>2. CASE Sends
    BY <1>0, <1>3, <2>2 DEF Sends, PauseFull, NotifierMatches, IInv, ControlInv
  <2>3. CASE Schedules
    BY <1>3, <2>3 DEF Schedules, PauseFull, NotifierMatches, IInv, ControlInv
  <2> QED BY <1>1, <2>1, <2>2, <2>3
<1>9. PendingHasTrigger'
  <2>1. CASE Holds
    BY <2>1 DEF Holds, PendingHasTrigger
  <2>2. CASE Sends
    <3>1. ~(sent' < fed')
      BY <1>b, <2>2 DEF Sends, Sent
    <3> QED BY <3>1 DEF PendingHasTrigger, hasPending
  <2>3. CASE Schedules
    BY <2>3 DEF Schedules, PendingHasTrigger
  <2> QED BY <1>1, <2>1, <2>2, <2>3
<1>10. PendingBound'
  <2>1. CASE Sends
    <3>0. sent' = fed'
      BY <2>1 DEF Sends, Sent
    <3>1. fed' - sent' = 0
      <4>1. \A x \in Nat : x - x = 0
        OBVIOUS
      <4> QED BY <1>b, <3>0, <4>1
    <3> QED BY <3>1, MaxBatchNat DEF PendingBound
  <2>2. CASE Holds
    <3>1. readPaused' /\ ~readEnabled' /\ sent' = sent
      BY <2>2 DEF Holds, Kept
    <3> QED BY <3>1 DEF PendingBound, DataFrame
  <2>3. CASE Schedules
    <3>1. sent' = sent /\ fed' - sent < FlushUnits
      BY <2>3 DEF Schedules, Kept
    <3>2. fed' - sent \in Int /\ FlushUnits < MaxBatch /\ MaxBatch \in Int
      BY <1>0, <1>b DEF MaxBatch
    <3> QED BY <3>1, <3>2 DEF PendingBound
  <2> QED BY <1>1, <2>1, <2>2, <2>3
<1>11. EofDrained' /\ ResizeAtomic'
  BY <1>3 DEF EofDrained, ResizeAtomic, IInv, ControlInv
<1> QED
  BY <1>4, <1>5, <1>6, <1>7, <1>8, <1>9, <1>10, <1>11 DEF IInv, ControlInv

\* A wake of Pty::onReadReady that injects a reset keeps it.
LEMMA WakeInjectStep == IInv /\ WakeInject => IInv'
<1> SUFFICES ASSUME IInv, WakeInject PROVE IInv'
  OBVIOUS
<1> USE BoundsAssumption
<1>1. /\ ~readEof /\ ~readPaused /\ onPtyData(ResetUnits) /\ fed - sent < FlushUnits
      /\ fed = readPos + injected
  BY DEF WakeInject, IInv, ControlInv, NotifierMatches, PendingBound, StreamInv
<1>2. fed \in Nat /\ sent \in Nat /\ readPos \in 0..produced /\ injected \in 0..MaxInject
  BY DEF IInv, TypeOK
<1>3. fed' = fed + ResetUnits /\ (Holds \/ Sends \/ Schedules) /\ flushScheduled' \in BOOLEAN
  <2>1. /\ fed' = fed + ResetUnits
        /\ \/ Holds /\ UNCHANGED flushScheduled
           \/ Sends /\ UNCHANGED flushScheduled
           \/ Schedules
    BY <1>1, DataCases
  <2>2. flushScheduled \in BOOLEAN
    BY DEF IInv, TypeOK
  <2> QED BY <2>1, <2>2, Zenon DEF Schedules
<1>4. /\ fed' \in Nat /\ fed <= fed' /\ fed' - sent < FlushUnits + ResetUnits
      /\ fed' - sent <= MaxBatch
  BY <1>1, <1>2, <1>3 DEF MaxBatch
<1>5. /\ readPos' = readPos /\ injected' = injected + ResetUnits
      /\ injected + ResetUnits <= MaxInject
      /\ pc' = "read" /\ UNCHANGED <<childVars, readEof, acks, guiVars>>
  BY DEF WakeInject
<1>6. DataFrame
  BY <1>1, <1>2, <1>3, <1>4, <1>5 DEF DataFrame
<1> QED
  BY <1>1, <1>3, <1>4, <1>6, DataStep

\* A read of Pty::onReadReady's loop keeps it.
LEMMA ReadDataStep == IInv /\ ReadData => IInv'
<1> SUFFICES ASSUME IInv, ReadData PROVE IInv'
  OBVIOUS
<1> USE BoundsAssumption
<1>1. /\ ~readEof /\ fed - sent < FlushUnits + ResetUnits /\ fed = readPos + injected
      /\ UNCHANGED <<childVars, readEof, injected, acks, guiVars>>
      /\ pc' = IF readEnabled' THEN "read" ELSE "idle"
  BY DEF ReadData, IInv, ControlInv, EofDrained, PendingBound, StreamInv
<1>2. /\ fed \in Nat /\ sent \in Nat /\ readPos \in 0..produced /\ produced \in Nat
      /\ injected \in 0..MaxInject
  BY DEF IInv, TypeOK
<1>3. PICK n \in 1..ReadUnits : /\ n <= produced - readPos
                                /\ readPos' = readPos + n
                                /\ onPtyData(n)
  BY DEF ReadData
<1>4. fed' = fed + n /\ (Holds \/ Sends \/ Schedules) /\ flushScheduled' \in BOOLEAN
  <2>1. /\ fed' = fed + n
        /\ \/ Holds /\ UNCHANGED flushScheduled
           \/ Sends /\ UNCHANGED flushScheduled
           \/ Schedules
    BY <1>1, <1>3, DataCases
  <2>2. flushScheduled \in BOOLEAN
    BY DEF IInv, TypeOK
  <2> QED BY <2>1, <2>2, Zenon DEF Schedules
<1>5. /\ fed' \in Nat /\ fed <= fed' /\ fed' - sent <= MaxBatch
      /\ readPos' \in 0..produced /\ fed' = readPos' + injected'
  BY <1>1, <1>2, <1>3, <1>4 DEF MaxBatch
<1>6. DataFrame
  BY <1>1, <1>2, <1>4, <1>5 DEF DataFrame
<1> QED
  BY <1>1, <1>4, <1>5, <1>6, DataStep

\* VtStream::onFlushTimer keeps it.
LEMMA FlushTimerStep == IInv /\ onFlushTimer => IInv'
<1> SUFFICES ASSUME IInv, onFlushTimer PROVE IInv'
  OBVIOUS
<1> USE BoundsAssumption
<1>1. /\ fed' = fed /\ flushScheduled' = FALSE /\ pc = "idle"
      /\ UNCHANGED <<childVars, readPos, pc, readEof, injected, acks, guiVars>>
  BY DEF onFlushTimer
<1>2. /\ fed \in Nat /\ sent \in Nat /\ readPos \in 0..produced
      /\ injected \in 0..MaxInject /\ fed - sent <= MaxBatch /\ sent <= fed
      /\ fed = readPos + injected
  BY DEF IInv, TypeOK, ControlInv, PendingBound, StreamInv
<1>3. CASE hasPending
  <2>1. ~readEof /\ sent < fed'
    BY <1>1, <1>2, <1>3 DEF IInv, ControlInv, EofDrained, hasPending
  <2>2. flushBatch(fed')
    BY <1>1, <1>3 DEF onFlushTimer
  <2>3. Holds \/ Sends
    BY <2>1, <2>2, FlushCases
  <2>4. flushScheduled' \in BOOLEAN
    BY <1>1, Zenon
  <2>5. DataFrame
    BY <1>1, <1>2, <2>4 DEF DataFrame
  <2> QED BY <1>1, <1>2, <2>1, <2>3, <2>5, DataStep
<1>4. CASE ~hasPending
  <2>1. UNCHANGED <<sent, inFlight, readPaused, readEnabled, guiQueue>>
    BY <1>4 DEF onFlushTimer
  <2>2. TypeOK'
    <3>1. flushScheduled' \in BOOLEAN
      BY <1>1, Zenon
    <3> QED BY <1>1, <2>1, <3>1 DEF IInv, TypeOK, childVars, guiVars
  <2>3. StreamInv' /\ FinishedLast'
    BY <1>1, <2>1 DEF IInv, StreamInv, FinishedLast, guiVars, Window, MaxBatch
  <2>4. ControlInv'
    BY <1>1, <1>4, <2>1
    DEF IInv, ControlInv, EofDrained, InFlightExact, outstanding, PauseFull,
        PendingHasTrigger, hasPending, NotifierMatches, PendingBound,
        ResizeAtomic, childVars, guiVars
  <2> QED BY <2>2, <2>3, <2>4 DEF IInv
<1> QED
  BY <1>3, <1>4

\* A queued acknowledgement: the counter goes down with it, and if reads were
\* paused they resume and what was held is sent.
LEMMA DrainAckStep == IInv /\ drainAck => IInv'
<1> SUFFICES ASSUME IInv, drainAck PROVE IInv'
  OBVIOUS
<1> USE BoundsAssumption
<1> DEFINE left  == IF inFlight > 0 THEN inFlight - 1 ELSE 0
           wakes == readPaused /\ left < MaxInFlight
           sends == wakes /\ hasPending
<1>1. /\ acks > 0 /\ acks' = acks - 1 /\ fed' = fed
      /\ readPaused' = (readPaused /\ ~wakes)
      /\ IF wakes THEN setReadEnabled(TRUE) ELSE UNCHANGED readEnabled
      /\ guiQueue' = IF sends THEN Append(guiQueue, Batch(sent, fed)) ELSE guiQueue
      /\ sent' = IF sends THEN fed ELSE sent
      /\ inFlight' = IF sends THEN left + 1 ELSE left
      /\ UNCHANGED <<childVars, readPos, pc, readEof, injected, flushScheduled, guiVars>>
  BY DEF drainAck
<1>2. /\ fed \in Nat /\ sent \in Nat /\ inFlight \in 0..MaxInFlight /\ acks \in Nat
      /\ Len(guiQueue) \in Nat /\ guiQueue \in Seq(Event) /\ sent <= fed
      /\ fed = readPos + injected /\ fed - sent <= MaxBatch
  BY DEF IInv, TypeOK, StreamInv, ControlInv, PendingBound
<1>3. left < MaxInFlight /\ left \in Nat /\ left <= inFlight
  BY <1>2
<1>4. wakes = readPaused /\ ~readPaused' /\ readPaused' \in BOOLEAN
  <2>1. readPaused \in BOOLEAN
    BY DEF IInv, TypeOK
  <2>2. wakes = readPaused
    BY <1>3, <2>1
  <2> HIDE DEF wakes
  <2> QED BY <1>1, <2>1, <2>2, Zenon
<1>5. readEnabled' \in BOOLEAN /\ NotifierMatches'
  <2>1. readEof' = readEof /\ readEnabled \in BOOLEAN /\ readPaused \in BOOLEAN
    BY <1>1 DEF IInv, TypeOK
  <2>2. readEnabled <=> ~readPaused /\ ~readEof
    BY DEF IInv, ControlInv, NotifierMatches
  <2>3. CASE readPaused
    <3>1. readEnabled' = IF readEof THEN readEnabled ELSE TRUE
      BY <1>1, <1>3, <2>3 DEF setReadEnabled
    <3> QED BY <1>4, <2>1, <2>2, <3>1, Zenon DEF NotifierMatches
  <2>4. CASE ~readPaused
    <3>1. readEnabled' = readEnabled
      BY <1>1, <2>4
    <3> QED BY <1>4, <2>1, <2>2, <2>4, <3>1, Zenon DEF NotifierMatches
  <2> QED BY <2>1, <2>3, <2>4
<1>6. Kept \/ Sent
  BY <1>1, <1>2 DEF Kept, Sent, hasPending
<1>7. sends => ~readEof /\ Sent
  BY <1>1, <1>2 DEF Kept, Sent, hasPending, IInv, ControlInv, EofDrained
<1>8. inFlight' \in 0..MaxInFlight
  <2>1. inFlight' = left + 1 \/ inFlight' = left
    BY <1>1
  <2> HIDE DEF left
  <2> QED BY <1>2, <1>3, <2>1
<1>9. TypeOK'
  <2>1. guiQueue' \in Seq(Event) /\ sent' \in Nat
    BY <1>1, <1>2, <1>6, SentFacts DEF Kept
  <2>2. acks' \in Nat /\ fed' \in Nat
    BY <1>1, <1>2
  <2> QED BY <1>1, <1>4, <1>5, <1>8, <2>1, <2>2 DEF IInv, TypeOK, childVars, guiVars
<1>10. InFlightExact'
  <2>1. UNCHANGED <<readEof, exited>>
    BY <1>1 DEF guiVars
  <2>2. CASE ~readEof
    <3>1. inFlight = Len(guiQueue) + acks
      BY <1>2, <2>2 DEF IInv, ControlInv, InFlightExact, outstanding
    <3>2. left = inFlight - 1
      BY <1>1, <1>2, <3>1
    <3>3. CASE sends
      <4>1. Len(guiQueue') = Len(guiQueue) + 1
        BY <1>1, <1>2, <1>7, <3>3, SentFacts
      <4>2. inFlight' = inFlight
        BY <1>1, <1>2, <3>2, <3>3
      <4>3. inFlight' = Len(guiQueue') + acks'
        BY <1>1, <1>2, <3>1, <4>1, <4>2
      <4> QED BY <1>2, <2>1, <2>2, <4>1, <4>3, <1>1 DEF InFlightExact, outstanding
    <3>4. CASE ~sends
      <4>1. guiQueue' = guiQueue /\ inFlight' = inFlight - 1
        BY <1>1, <3>2, <3>4
      <4> QED BY <1>1, <1>2, <2>1, <2>2, <3>1, <4>1 DEF InFlightExact, outstanding
    <3> QED BY <3>3, <3>4
  <2>3. CASE readEof
    <3>1. guiQueue' = guiQueue /\ inFlight' = left
      BY <1>1, <1>7, <2>3
    <3>2. exited => guiQueue = <<>>
      BY DEF IInv, FinishedLast
    <3>3. inFlight \in {outstanding, outstanding - 1}
      BY <2>3 DEF IInv, ControlInv, InFlightExact
    <3>4. outstanding \in Int /\ outstanding' = outstanding - 1 /\ outstanding >= 1
      <4>1. ~exited => Len(guiQueue) >= 1
        BY <1>2, <2>3 DEF IInv, FinishedLast
      <4> QED BY <1>1, <1>2, <2>1, <2>3, <3>1, <4>1 DEF outstanding
    <3>5. inFlight' \in {outstanding', outstanding' - 1}
      <4> HIDE DEF sends, wakes
      <4> QED BY <1>2, <3>1, <3>3, <3>4
    <3> QED BY <2>1, <2>3, <3>5 DEF InFlightExact
  <2> QED BY <2>2, <2>3
<1>11. StreamInv'
  <2>1. CASE ~readEof
    <3>1. fed' = readPos' + injected' /\ fed <= fed' /\ fed' - sent <= MaxBatch
          /\ applied' = applied /\ ~readEof'
      BY <1>1, <1>2, <2>1 DEF guiVars
    <3> QED BY <1>1, <1>6, <1>9, <1>10, <2>1, <3>1, StreamStep
  <2>2. CASE readEof
    <3>1. guiQueue' = guiQueue /\ sent' = sent
      BY <1>1, <1>7, <2>2
    <3> QED BY <1>1, <3>1 DEF IInv, StreamInv, guiVars
  <2> QED BY <2>1, <2>2
<1>12. FinishedLast'
  <2>1. Sent => ~readEof
    BY <1>1, <1>2 DEF Sent, IInv, ControlInv, EofDrained
  <2> QED BY <1>1, <1>2, <1>6, <2>1, FinishedLastStep DEF guiVars
<1>13. PauseFull' /\ EofDrained' /\ ResizeAtomic'
  BY <1>1, <1>4, <1>7 DEF PauseFull, EofDrained, ResizeAtomic, IInv, ControlInv,
     childVars, guiVars
<1>14. PendingHasTrigger' /\ PendingBound'
  <2>1. CASE readPaused
    <3>1. sent' = fed'
      BY <1>1, <1>2, <1>3, <2>1 DEF hasPending
    <3>2. fed' - sent' = 0 /\ ~(sent' < fed')
      <4>1. \A x \in Nat : x - x = 0 /\ ~(x < x)
        OBVIOUS
      <4> QED BY <1>1, <1>2, <3>1, <4>1
    <3> QED BY <3>2, MaxBatchNat DEF PendingHasTrigger, hasPending, PendingBound
  <2>2. CASE ~readPaused
    <3>1. sent' = sent
      BY <1>1, <2>2
    <3> QED BY <1>1, <2>2, <3>1, <1>4
        DEF PendingHasTrigger, hasPending, PendingBound, IInv, ControlInv
  <2> QED BY <2>1, <2>2
<1> QED
  BY <1>5, <1>9, <1>10, <1>11, <1>12, <1>13, <1>14 DEF IInv, ControlInv

\* EOF: the held units go out as a batch past the cap, then the finished event.
LEMMA ReadEofStep == IInv /\ ReadEof => IInv'
<1> SUFFICES ASSUME IInv, ReadEof PROVE IInv'
  OBVIOUS
<1> USE BoundsAssumption
<1> DEFINE mid == IF hasPending THEN Append(guiQueue, Batch(sent, fed)) ELSE guiQueue
           fin == Finished(fed)
<1>1. /\ pc = "read" /\ ~childOpen /\ readPos = produced /\ sent' = fed
      /\ guiQueue' = mid \o <<fin>>
      /\ readEof' = TRUE /\ readEnabled' = FALSE /\ pc' = "idle"
      /\ UNCHANGED <<fed, flushScheduled, inFlight, readPaused>>
      /\ UNCHANGED <<childVars, readPos, injected, acks, guiVars>>
  BY DEF ReadEof, onPtyFinished
<1>2. /\ fed \in Nat /\ sent \in Nat /\ inFlight \in 0..MaxInFlight /\ acks \in Nat
      /\ applied \in Nat /\ Len(guiQueue) \in Nat /\ guiQueue \in Seq(Event)
      /\ sent <= fed /\ fed - sent <= MaxBatch
      /\ Ordered(guiQueue, applied, sent) /\ ~readEof /\ ~exited
  BY <1>1 DEF IInv, TypeOK, StreamInv, ControlInv, PendingBound, EofDrained, FinishedLast
<1>3. /\ mid \in Seq(Event) /\ Ordered(mid, applied, fed)
      /\ Len(mid) = Len(guiQueue) + (IF hasPending THEN 1 ELSE 0)
      /\ \A i \in 1..Len(mid) : mid[i].kind = "batch"
  <2>0. \A i \in 1..Len(guiQueue) : guiQueue[i].kind = "batch"
    <3>1. \A i \in 1..Len(guiQueue) : guiQueue[i] \in Event
      BY <1>2
    <3>2. \A i \in 1..Len(guiQueue) : guiQueue[i].kind # "finished"
      BY <1>2 DEF IInv, FinishedLast
    <3> QED BY <3>1, <3>2 DEF Event
  <2>1. CASE hasPending
    <3> DEFINE e == Batch(sent, fed)
    <3>1. e \in Event /\ e.lo = sent /\ e.hi = fed /\ e.kind = "batch" /\ sent < fed
      BY <1>2, <2>1 DEF Event, Batch, hasPending
    <3>2. mid = Append(guiQueue, e)
      BY <2>1
    <3> HIDE DEF e, mid
    <3>3. Ordered(Append(guiQueue, e), applied, fed)
      BY <1>2, <3>1, OrderedAppend
    <3>4. \A i \in 1..Len(mid) : mid[i].kind = "batch"
      <4>1. ASSUME NEW i \in 1..Len(mid) PROVE mid[i].kind = "batch"
        <5>1. i \in 1..Len(guiQueue) \/ i = Len(guiQueue) + 1
          BY <1>2, <3>1, <3>2, AppendFacts
        <5> QED BY <1>2, <2>0, <3>1, <3>2, <5>1, AppendFacts
      <4> QED BY <4>1
    <3> QED BY <1>2, <2>1, <3>1, <3>2, <3>3, <3>4, AppendFacts
  <2>2. CASE ~hasPending
    <3>1. mid = guiQueue /\ fed = sent
      BY <1>2, <2>2 DEF hasPending
    <3> HIDE DEF mid
    <3> QED BY <1>2, <2>0, <2>2, <3>1
  <2> QED BY <2>1, <2>2
<1>4. fin \in Event /\ fin.lo = fed /\ fin.hi = fed /\ fin.kind = "finished"
  BY <1>2 DEF Finished, Event
<1> HIDE DEF mid, fin
<1>5. /\ guiQueue' = Append(mid, fin) /\ guiQueue' \in Seq(Event)
      /\ Len(guiQueue') = Len(mid) + 1 /\ Len(mid) \in Nat /\ guiQueue' # <<>>
      /\ \A i \in 1..Len(mid) : guiQueue'[i] = mid[i]
      /\ guiQueue'[Len(mid) + 1] = fin
  <2>1. guiQueue' = Append(mid, fin)
    BY <1>1, <1>3, <1>4
  <2> QED BY <1>3, <1>4, <2>1, AppendFacts
<1>6. Ordered(guiQueue', applied, fed)
  <2>1. fed - fed <= MaxBatch /\ fed <= fed
    BY <1>2, MaxBatchNat
  <2> QED BY <1>2, <1>3, <1>4, <1>5, <2>1, OrderedAppend
<1>7. TypeOK'
  <2>1. readEof' \in BOOLEAN /\ readEnabled' \in BOOLEAN
    BY <1>1, Zenon
  <2>2. pc' \in {"idle", "read"}
    BY <1>1
  <2>3. sent' \in Nat
    BY <1>1, <1>2
  <2>4. /\ UNCHANGED <<produced, childOpen, readPos, injected, fed, flushScheduled, inFlight>>
        /\ UNCHANGED <<readPaused, acks, resizePosted, gridSize, winsize, applied, exited>>
    BY <1>1 DEF childVars, guiVars
  <2> QED BY <1>5, <2>1, <2>2, <2>3, <2>4 DEF IInv, TypeOK
<1>8. StreamInv'
  BY <1>1, <1>2, <1>6 DEF StreamInv, IInv, guiVars
<1>9. FinishedLast'
  <2>1. readEof' /\ ~exited'
    BY <1>1, <1>2 DEF guiVars
  <2>2. ASSUME NEW i \in 1..Len(guiQueue'), guiQueue'[i].kind = "finished"
        PROVE  i = Len(guiQueue')
    BY <1>3, <1>5, <2>2
  <2>3. guiQueue'[Len(guiQueue')].kind = "finished"
    BY <1>4, <1>5
  <2> QED BY <1>5, <2>1, <2>2, <2>3 DEF FinishedLast
<1>10. InFlightExact'
  <2>1. inFlight = Len(guiQueue) + acks
    BY <1>2 DEF IInv, ControlInv, InFlightExact, outstanding
  <2>2. readEof' /\ ~exited' /\ acks' = acks /\ inFlight' = inFlight
    BY <1>1, <1>2 DEF guiVars
  <2>3. outstanding' = Len(mid) + acks
    BY <1>2, <1>5, <2>2 DEF outstanding
  <2>4. inFlight' \in {outstanding', outstanding' - 1}
    BY <1>2, <1>3, <2>1, <2>2, <2>3
  <2> QED BY <2>2, <2>4 DEF InFlightExact
<1>11. EofDrained' /\ PauseFull' /\ NotifierMatches' /\ ResizeAtomic'
  BY <1>1 DEF EofDrained, PauseFull, NotifierMatches, ResizeAtomic, IInv,
     ControlInv, childVars, guiVars
<1>12. PendingHasTrigger' /\ PendingBound'
  <2>1. fed' - sent' = 0 /\ ~(sent' < fed')
    BY <1>1, <1>2
  <2> QED BY <2>1, MaxBatchNat DEF PendingHasTrigger, hasPending, PendingBound
<1> QED
  BY <1>7, <1>8, <1>9, <1>10, <1>11, <1>12 DEF IInv, ControlInv

\* The GUI thread takes the head of its queue: a batch, applied and
\* acknowledged, or the finished event.
LEMMA GuiStep == IInv /\ (onVtBatch \/ onShellExited) => IInv'
<1> SUFFICES ASSUME IInv, onVtBatch \/ onShellExited PROVE IInv'
  OBVIOUS
<1> USE BoundsAssumption
<1>1. /\ guiQueue # <<>> /\ guiQueue' = Tail(guiQueue)
      /\ UNCHANGED <<childVars, ptyVars, streamVars, resizePosted, gridSize, winsize>>
  BY DEF onVtBatch, onShellExited
<1>2. /\ guiQueue \in Seq(Event) /\ Len(guiQueue) \in Nat \ {0} /\ acks \in Nat
      /\ applied \in Nat /\ sent \in Nat /\ fed \in Nat /\ sent <= fed
      /\ Ordered(guiQueue, applied, sent) /\ fed - applied <= Window
  BY <1>1 DEF IInv, TypeOK, StreamInv
<1>3. /\ guiQueue' \in Seq(Event) /\ Len(guiQueue') = Len(guiQueue) - 1
      /\ \A i \in 1..Len(guiQueue') : guiQueue'[i] = guiQueue[i + 1]
      /\ Head(guiQueue) = guiQueue[1]
  BY <1>1, <1>2
<1>4. /\ Ordered(guiQueue', Head(guiQueue).hi, sent)
      /\ Head(guiQueue).lo = applied /\ Head(guiQueue).hi \in Nat
      /\ applied <= Head(guiQueue).hi /\ Head(guiQueue).hi <= sent
      /\ Head(guiQueue).kind = "batch" <=> applied < Head(guiQueue).hi
  BY <1>1, <1>2, OrderedTail
<1>5. CASE onVtBatch
  <2>1. /\ Head(guiQueue).kind = "batch" /\ applied' = Head(guiQueue).hi
        /\ acks' = acks + 1 /\ exited' = exited
    BY <1>5 DEF onVtBatch
  <2>2. TypeOK'
    <3>1. acks' \in Nat /\ applied' \in Nat
      BY <1>2, <1>4, <2>1
    <3> QED BY <1>1, <1>3, <2>1, <3>1 DEF IInv, TypeOK, childVars, ptyVars, streamVars
  <2>3. StreamInv'
    <3>1. Window \in Nat
      BY DEF Window, MaxBatch
    <3>2. fed - applied' <= Window
      BY <1>2, <1>4, <2>1, <3>1
    <3> QED BY <1>1, <1>4, <2>1, <3>2 DEF StreamInv, IInv, ptyVars, streamVars
  <2>4. ~exited /\ (readEof => Len(guiQueue) > 1)
    <3>1. ~exited /\ (readEof => guiQueue[Len(guiQueue)].kind = "finished")
      BY <1>1 DEF IInv, FinishedLast
    <3>2. guiQueue[1].kind = "batch"
      BY <1>3, <2>1
    <3>3. readEof => Len(guiQueue) # 1
      BY <3>1, <3>2
    <3>4. Len(guiQueue) # 1 => Len(guiQueue) > 1
      <4>1. \A x \in Nat \ {0} : x # 1 => x > 1
        OBVIOUS
      <4> QED BY <1>2, <4>1
    <3> QED BY <3>1, <3>3, <3>4
  <2>5. FinishedLast'
    <3>1. UNCHANGED <<readEof, exited>>
      BY <1>1, <2>1 DEF ptyVars
    <3>2. ASSUME NEW i \in 1..Len(guiQueue'), guiQueue'[i].kind = "finished"
          PROVE  i = Len(guiQueue') /\ readEof'
      <4>1. i + 1 \in 1..Len(guiQueue) /\ guiQueue[i + 1].kind = "finished"
        BY <1>2, <1>3, <3>2
      <4>2. i + 1 = Len(guiQueue) /\ readEof
        BY <4>1 DEF IInv, FinishedLast
      <4> QED BY <1>2, <1>3, <3>1, <4>2
    <3>3. ASSUME readEof'
          PROVE  guiQueue' # <<>> /\ guiQueue'[Len(guiQueue')].kind = "finished"
      <4>1. Len(guiQueue') \in 1..Len(guiQueue') /\ Len(guiQueue') + 1 = Len(guiQueue)
        BY <1>2, <1>3, <2>4, <3>1, <3>3
      <4>2. guiQueue[Len(guiQueue)].kind = "finished"
        BY <2>4, <3>1, <3>3 DEF IInv, FinishedLast
      <4> QED BY <1>3, <4>1, <4>2
    <3> QED BY <2>4, <3>1, <3>2, <3>3 DEF FinishedLast
  <2>6. InFlightExact'
    <3>1. outstanding' = outstanding
      BY <1>1, <1>2, <1>3, <2>1 DEF outstanding, ptyVars
    <3> QED BY <1>1, <3>1 DEF IInv, ControlInv, InFlightExact, ptyVars, streamVars
  <2>7. EofDrained' /\ PauseFull' /\ NotifierMatches' /\ ResizeAtomic'
        /\ PendingHasTrigger' /\ PendingBound'
    BY <1>1 DEF EofDrained, PauseFull, NotifierMatches, ResizeAtomic,
       PendingHasTrigger, hasPending, PendingBound, IInv, ControlInv, childVars,
       ptyVars, streamVars
  <2> QED BY <2>2, <2>3, <2>5, <2>6, <2>7 DEF IInv, ControlInv
<1>6. CASE onShellExited
  <2>1. /\ Head(guiQueue).kind = "finished" /\ exited' = TRUE
        /\ UNCHANGED <<acks, applied>>
    BY <1>6 DEF onShellExited
  <2>2. Len(guiQueue) = 1 /\ readEof /\ ~exited
    <3>1. 1 \in 1..Len(guiQueue) /\ guiQueue[1].kind = "finished"
      BY <1>2, <1>3, <2>1
    <3> QED BY <3>1 DEF IInv, FinishedLast
  <2>3. guiQueue' = <<>> /\ sent = Head(guiQueue).hi /\ Head(guiQueue).hi = applied
    <3>1. guiQueue' = <<>>
      BY <1>2, <1>3, <2>2
    <3>2. sent = guiQueue[1].hi
      BY <1>1, <2>2 DEF IInv, StreamInv, Ordered, Chained
    <3>3. Head(guiQueue).hi = applied
      <4>1. ~(applied < Head(guiQueue).hi)
        BY <1>1, <1>2, <2>1, OrderedTail
      <4> QED BY <1>2, <1>4, <4>1
    <3> QED BY <1>3, <3>1, <3>2, <3>3
  <2>4. TypeOK'
    <3>1. exited' \in BOOLEAN
      BY <2>1, Zenon
    <3> QED BY <1>1, <1>3, <2>1, <3>1 DEF IInv, TypeOK, childVars, ptyVars, streamVars
  <2>5. StreamInv'
    <3>1. Ordered(guiQueue', applied', sent')
      BY <1>1, <1>4, <2>1, <2>3 DEF streamVars
    <3> QED BY <1>1, <2>1, <3>1 DEF StreamInv, IInv, ptyVars, streamVars
  <2>6. FinishedLast' /\ InFlightExact'
    <3>1. exited' /\ readEof' /\ guiQueue' = <<>> /\ acks' = acks /\ inFlight' = inFlight
      BY <1>1, <2>1, <2>2, <2>3 DEF ptyVars, streamVars
    <3>2. outstanding' = outstanding
      BY <1>2, <2>2, <3>1 DEF outstanding
    <3> QED BY <2>2, <3>1, <3>2 DEF FinishedLast, IInv, ControlInv, InFlightExact
  <2>7. EofDrained' /\ PauseFull' /\ NotifierMatches' /\ ResizeAtomic'
        /\ PendingHasTrigger' /\ PendingBound'
    BY <1>1 DEF EofDrained, PauseFull, NotifierMatches, ResizeAtomic,
       PendingHasTrigger, hasPending, PendingBound, IInv, ControlInv, childVars,
       ptyVars, streamVars
  <2> QED BY <2>4, <2>5, <2>6, <2>7 DEF IInv, ControlInv
<1> QED
  BY <1>5, <1>6

\* Every step of the system preserves the invariant.
LEMMA NextIInv == IInv /\ [Next]_vars => IInv'
<1> SUFFICES ASSUME IInv, [Next]_vars PROVE IInv'
  OBVIOUS
<1>1. CASE ChildWrite
  <2>1. /\ produced' = produced + 1 /\ produced < MaxOutput /\ childOpen
        /\ childOpen' = childOpen
        /\ UNCHANGED <<ptyVars, streamVars, guiQueue, acks, guiVars>>
    BY <1>1 DEF ChildWrite
  <2>2. TypeOK'
    <3>1. produced' \in 0..MaxOutput /\ readPos \in 0..produced'
      BY <2>1, BoundsAssumption DEF IInv, TypeOK
    <3> QED BY <2>1, <3>1 DEF IInv, TypeOK, ptyVars, streamVars, guiVars
  <2>3. ~readEof
    BY <2>1 DEF IInv, ControlInv, EofDrained
  <2> QED BY <2>1, <2>2, <2>3
      DEF IInv, StreamInv, FinishedLast, ControlInv, EofDrained, InFlightExact,
          outstanding, PauseFull, PendingHasTrigger, hasPending, NotifierMatches,
          PendingBound, ResizeAtomic, ptyVars, streamVars, guiVars
<1>2. CASE ChildClose
  <2>1. /\ childOpen /\ childOpen' = FALSE
        /\ UNCHANGED <<produced, ptyVars, streamVars, guiQueue, acks, guiVars>>
    BY <1>2 DEF ChildClose
  <2>2. TypeOK'
    <3>1. childOpen' \in BOOLEAN
      BY <2>1, Zenon
    <3> QED BY <2>1, <3>1 DEF IInv, TypeOK, ptyVars, streamVars, guiVars
  <2> QED BY <2>1, <2>2
      DEF IInv, StreamInv, FinishedLast, ControlInv, EofDrained, InFlightExact,
          outstanding, PauseFull, PendingHasTrigger, hasPending, NotifierMatches,
          PendingBound, ResizeAtomic, ptyVars, streamVars, guiVars
<1>3. CASE Wake
  <2>1. /\ pc' = "read" /\ readEnabled /\ ~readEof
        /\ UNCHANGED <<childVars, readPos, readEof, injected, acks, guiVars,
                       streamVars, guiQueue, readEnabled>>
    BY <1>3 DEF Wake
  <2>2. TypeOK'
    BY <2>1 DEF IInv, TypeOK, childVars, streamVars, guiVars
  <2>3. PendingBound'
    <3>1. fed - sent < FlushUnits /\ fed - sent <= MaxBatch
      BY <2>1 DEF IInv, ControlInv, NotifierMatches, PendingBound
    <3>2. fed \in Nat /\ sent \in Nat
      BY DEF IInv, TypeOK
    <3> QED BY <2>1, <3>1, <3>2, BoundsAssumption DEF PendingBound, streamVars
  <2> QED BY <2>1, <2>2, <2>3
      DEF IInv, StreamInv, FinishedLast, ControlInv, EofDrained, InFlightExact,
          outstanding, PauseFull, PendingHasTrigger, hasPending, NotifierMatches,
          ResizeAtomic, childVars, streamVars, guiVars
<1>4. CASE ReadAgain
  <2>1. /\ pc' = "idle"
        /\ UNCHANGED <<childVars, readPos, readEnabled, readEof, injected,
                       streamVars, guiQueue, acks, guiVars>>
    BY <1>4 DEF ReadAgain
  <2>2. TypeOK'
    BY <2>1 DEF IInv, TypeOK, childVars, streamVars, guiVars
  <2> QED BY <2>1, <2>2
      DEF IInv, StreamInv, FinishedLast, ControlInv, EofDrained, InFlightExact,
          outstanding, PauseFull, PendingHasTrigger, hasPending, NotifierMatches,
          PendingBound, ResizeAtomic, childVars, streamVars, guiVars
<1>5. CASE resize
  <2>1. /\ winsize' = gridSize /\ resizePosted' = FALSE
        /\ UNCHANGED <<childVars, ptyVars, streamVars, guiQueue, acks, gridSize,
                       applied, exited>>
    BY <1>5 DEF resize
  <2>2. TypeOK'
    <3>1. resizePosted' \in BOOLEAN
      BY <2>1, Zenon
    <3> QED BY <2>1, <3>1 DEF IInv, TypeOK, childVars, ptyVars, streamVars
  <2> QED BY <2>1, <2>2
      DEF IInv, StreamInv, FinishedLast, ControlInv, EofDrained, InFlightExact,
          outstanding, PauseFull, PendingHasTrigger, hasPending, NotifierMatches,
          PendingBound, ResizeAtomic, childVars, ptyVars, streamVars
<1>6. CASE recalcGridSize
  <2>1. /\ gridSize' \in Sizes /\ resizePosted' = TRUE
        /\ UNCHANGED <<childVars, ptyVars, streamVars, guiQueue, acks, winsize,
                       applied, exited>>
    BY <1>6 DEF recalcGridSize
  <2>2. TypeOK'
    <3>1. resizePosted' \in BOOLEAN
      BY <2>1, Zenon
    <3> QED BY <2>1, <3>1 DEF IInv, TypeOK, childVars, ptyVars, streamVars
  <2> QED BY <2>1, <2>2
      DEF IInv, StreamInv, FinishedLast, ControlInv, EofDrained, InFlightExact,
          outstanding, PauseFull, PendingHasTrigger, hasPending, NotifierMatches,
          PendingBound, ResizeAtomic, childVars, ptyVars, streamVars
<1>7. CASE UNCHANGED vars
  BY <1>7
  DEF IInv, TypeOK, StreamInv, FinishedLast, ControlInv, EofDrained, InFlightExact,
      outstanding, PauseFull, PendingHasTrigger, hasPending, NotifierMatches,
      PendingBound, ResizeAtomic, vars, childVars, ptyVars, streamVars, guiVars
<1> QED
  BY <1>1, <1>2, <1>3, <1>4, <1>5, <1>6, <1>7, WakeInjectStep, ReadDataStep,
     FlushTimerStep, DrainAckStep, ReadEofStep, GuiStep
  DEF Next, Worker, Gui, OnReadReady

-----------------------------------------------------------------------------
(***************************************************************************)
(* Theorems.                                                               *)
(***************************************************************************)

\* The inductive invariant holds in every reachable state of the pipeline.
THEOREM Invariant == Spec => []IInv
  BY InitIInv, NextIInv, PTL DEF Spec

\* Every variable of Pty, VtStream and TerminalWidget keeps its type.
THEOREM TypeCorrect == Spec => []TypeOK
<1>1. IInv => TypeOK
  BY DEF IInv
<1> QED BY <1>1, Invariant, PTL

\* Output reaches the grid in order and without a gap.
THEOREM DeliveryInOrder == Spec => []InOrder
<1>1. IInv => InOrder
  BY DEF IInv, StreamInv, Ordered, InOrder
<1> QED BY <1>1, Invariant, PTL

\* Back-pressure bookkeeping: the counter is exact, a paused worker has an
\* acknowledgement to come, pending data has a trigger, and the notifier
\* agrees with the pause.
THEOREM BackPressure ==
    Spec => [](InFlightExact /\ PauseHasAck /\ PendingHasTrigger /\ NotifierMatches)
<1>1. IInv => InFlightExact /\ PendingHasTrigger /\ NotifierMatches
  BY DEF IInv, ControlInv
<1>2. IInv => PauseHasAck
  <2> SUFFICES ASSUME IInv, readPaused
               PROVE  inFlight = MaxInFlight /\ outstanding >= MaxInFlight
    BY DEF PauseHasAck
  <2>1. inFlight = MaxInFlight /\ InFlightExact
    BY DEF IInv, ControlInv, PauseFull
  <2>2. outstanding \in Int /\ MaxInFlight \in Int
    BY BoundsAssumption DEF IInv, TypeOK, outstanding
  <2> QED
    BY <2>1, <2>2 DEF InFlightExact
<1> QED BY <1>1, <1>2, Invariant, PTL

\* Parsed output never waits without something that will send it: a flush is
\* scheduled, or reads are paused until an acknowledgement.
THEOREM PendingIsSent == Spec => []PendingHasTrigger
<1>1. IInv => PendingHasTrigger
  BY DEF IInv, ControlInv
<1> QED BY <1>1, Invariant, PTL

\* However slow the GUI is, the input between parser and grid is bounded.
THEOREM MemoryBound == Spec => []Bounded
<1>1. IInv => Bounded
  BY DEF IInv, StreamInv, Ordered, ControlInv, PendingBound, Bounded
<1> QED BY <1>1, Invariant, PTL

\* The exit of the shell is reported after all of its output is applied.
THEOREM ExitOrder == Spec => []ExitAfterOutput
<1>1. IInv => ExitAfterOutput
  <2> SUFFICES ASSUME IInv, exited
               PROVE  applied = fed /\ readPos = produced /\ guiQueue = <<>>
    BY DEF ExitAfterOutput
  <2>1. readEof /\ guiQueue = <<>>
    BY DEF IInv, FinishedLast
  <2>2. sent = fed /\ readPos = produced
    BY <2>1 DEF IInv, ControlInv, EofDrained
  <2>3. sent = applied
    BY <2>1 DEF IInv, StreamInv, Ordered, Chained
  <2> QED BY <2>1, <2>2, <2>3
<1> QED BY <1>1, Invariant, PTL

\* After EOF the worker reads, parses and re-enables nothing.
THEOREM EofFinal == Spec => EofIsFinal
<1>1. ASSUME IInv, [Next]_vars
      PROVE  [readEof => /\ readEof' /\ ~readEnabled'
                         /\ UNCHANGED <<readPos, fed, sent, pc>>]_vars
  <2> SUFFICES ASSUME readEof, Next
               PROVE  /\ readEof' /\ ~readEnabled'
                      /\ UNCHANGED <<readPos, fed, sent, pc>>
    BY <1>1
  <2>1. pc = "idle" /\ sent = fed /\ ~readEnabled
    BY <1>1 DEF IInv, ControlInv, EofDrained, NotifierMatches
  <2>2. ~hasPending
    BY <1>1, <2>1 DEF hasPending, IInv, TypeOK
  <2>3. CASE drainAck
    <3>1. UNCHANGED <<readPos, readEof, fed, pc>>
      BY <2>3 DEF drainAck
    <3>2. sent' = sent
      BY <2>2, <2>3, Zenon DEF drainAck
    <3>3. readEnabled' = readEnabled
      BY <2>3, Zenon DEF drainAck, setReadEnabled
    <3> QED BY <2>1, <3>1, <3>2, <3>3
  <2>4. CASE onFlushTimer
    BY <2>1, <2>2, <2>4, Zenon DEF onFlushTimer
  <2>5. CASE ChildWrite \/ ChildClose \/ resize \/ Gui
    <3>1. UNCHANGED <<ptyVars, streamVars>>
      BY <2>5, Zenon DEF ChildWrite, ChildClose, resize, Gui, onVtBatch,
         onShellExited, recalcGridSize
    <3> QED BY <2>1, <3>1 DEF ptyVars, streamVars
  <2>6. ~OnReadReady
    BY <2>1 DEF OnReadReady, Wake, WakeInject, ReadData, ReadAgain, ReadEof
  <2> QED BY <2>3, <2>4, <2>5, <2>6 DEF Next, Worker
<1> QED BY <1>1, Invariant, PTL DEF Spec, EofIsFinal

\* The pipeline implements the abstract output stream: a step of the worker
\* that feeds the parser is a Parse within the window, an applied batch is an
\* Apply, the finished event is the Exit, and every other step stutters.
THEOREM Refinement == Spec => ImplementsStream
<1>1. Init => Stream!Init
  BY DEF Init, Stream!Init
<1>2. ASSUME IInv, IInv', [Next]_vars
      PROVE  [Stream!Next]_(Stream!vars)
  <2>0. /\ fed \in Nat /\ fed' \in Nat /\ applied \in Nat /\ applied' \in Nat
        /\ sent \in Nat /\ sent <= fed /\ fed' - applied' <= Window /\ Window \in Nat
    <3>1. /\ fed \in Nat /\ fed' \in Nat /\ applied \in Nat /\ applied' \in Nat
          /\ sent \in Nat /\ sent <= fed
      BY <1>2 DEF IInv, TypeOK, StreamInv
    <3>2. fed' - applied' <= Window
      BY <1>2 DEF IInv, StreamInv
    <3>3. Window \in Nat
      BY BoundsAssumption DEF Window, MaxBatch
    <3> QED BY <3>1, <3>2, <3>3
  <2>1. CASE WakeInject \/ ReadData
    <3>1. fed < fed'
      <4>1. PICK n \in Nat \ {0} : fed' = fed + n
        BY <2>1, BoundsAssumption DEF WakeInject, ReadData, onPtyData
      <4> QED BY <2>0, <4>1
    <3>2. ~readEof /\ UNCHANGED <<applied, exited>>
      BY <1>2, <2>1
      DEF WakeInject, ReadData, guiVars, IInv, ControlInv, EofDrained
    <3>3. ~exited
      BY <1>2, <3>2 DEF IInv, FinishedLast
    <3>4. fed' \in fed + 1 .. applied + Window
      <4>1. fed' - applied <= Window
        BY <2>0, <3>2
      <4>2. \A f, g, a, w \in Nat : f < g /\ g - a <= w => g \in f + 1 .. a + w
        OBVIOUS
      <4> QED BY <2>0, <3>1, <4>1, <4>2
    <3> QED BY <3>2, <3>3, <3>4 DEF Stream!Next, Stream!Parse
  <2>2. CASE onVtBatch
    <3>1. /\ guiQueue # <<>> /\ Head(guiQueue).kind = "batch"
          /\ applied' = Head(guiQueue).hi /\ UNCHANGED <<fed, exited>>
      BY <2>2 DEF onVtBatch, streamVars
    <3>2. guiQueue \in Seq(Event) /\ Ordered(guiQueue, applied, sent)
      BY <1>2 DEF IInv, TypeOK, StreamInv
    <3>3. Head(guiQueue).hi <= sent /\ applied < Head(guiQueue).hi
      BY <2>0, <3>1, <3>2, OrderedTail
    <3>4. applied' \in applied + 1 .. fed
      BY <2>0, <3>1, <3>3
    <3> QED BY <3>1, <3>4 DEF Stream!Next, Stream!Apply
  <2>3. CASE onShellExited
    <3>1. /\ guiQueue # <<>> /\ Head(guiQueue).kind = "finished"
          /\ exited' = TRUE /\ UNCHANGED <<fed, applied>>
      BY <2>3 DEF onShellExited, streamVars
    <3>2. ~exited /\ exited'
      BY <1>2, <3>1 DEF IInv, FinishedLast
    <3>3. applied' = fed'
      <4>1. readEof' /\ guiQueue' = <<>>
        BY <1>2, <3>2 DEF IInv, FinishedLast
      <4>2. sent' = fed'
        BY <1>2, <4>1 DEF IInv, ControlInv, EofDrained
      <4>3. sent' = applied'
        BY <1>2, <4>1 DEF IInv, StreamInv, Ordered, Chained
      <4> QED BY <4>2, <4>3
    <3> QED BY <3>1, <3>2, <3>3 DEF Stream!Next, Stream!Exit
  <2>4. CASE UNCHANGED vars \/ (Next /\ ~WakeInject /\ ~ReadData /\ ~onVtBatch
                                     /\ ~onShellExited)
    <3>1. UNCHANGED <<fed, applied, exited>>
      BY <2>4 DEF Next, Worker, Gui, OnReadReady, ChildWrite, ChildClose, Wake,
         ReadAgain, ReadEof, onPtyFinished, onFlushTimer, drainAck, resize,
         recalcGridSize, vars, ptyVars, streamVars, guiVars
    <3> QED BY <3>1 DEF Stream!vars
  <2> QED BY <1>2, <2>1, <2>2, <2>3, <2>4
<1> QED
  BY <1>1, <1>2, Invariant, PTL DEF Spec, ImplementsStream, Stream!Spec
=============================================================================
