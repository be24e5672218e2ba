------------------------------ MODULE VtStream ------------------------------
(***************************************************************************)
(* The read side of a terminal tab: the child writes to the PTY, the       *)
(* parse-worker thread (Pty::onReadReady and VtStream) reads, parses and   *)
(* batches, the GUI thread (TerminalWidget) applies the batches and        *)
(* acknowledges them.  Back-pressure: at most MaxInFlight batches wait for *)
(* an acknowledgement; past that the worker disables its read notifier.    *)
(*                                                                         *)
(* Bytes are counted in units and identified by their position in the      *)
(* stream, so a batch is an interval of positions.  What a unit says is    *)
(* left out: whether a read reaches kFlushActions before kFlushBytes, and  *)
(* whether a wake injects an SGR reset, depend on content and are free     *)
(* choices here.                                                           *)
(*                                                                         *)
(* Threads.  A slot of the worker or the GUI runs to completion on its own *)
(* event loop, so it is one step; only Pty::onReadReady is split, one step *)
(* per ::read, because the child and the GUI go on during its loop.        *)
(***************************************************************************)
EXTENDS Integers, Sequences

CONSTANTS
    MaxInFlight,  \* kMaxInFlight
    FlushUnits,   \* kFlushBytes, in units
    ReadUnits,    \* the size of onReadReady's buffer, in units
    ResetUnits,   \* the size of the SGR reset a wake may inject
    KernelCap,    \* units the kernel holds for the master before the child blocks
    MaxOutput,    \* bound: units the child writes in a behaviour
    MaxInject,    \* bound: units of SGR resets injected in a behaviour
    Sizes         \* window sizes a resize chooses from

ASSUME BoundsAssumption ==
    /\ MaxInFlight \in Nat \ {0}
    /\ FlushUnits \in Nat \ {0}
    /\ ReadUnits \in Nat \ {0}
    /\ ResetUnits \in Nat \ {0}
    /\ KernelCap \in Nat \ {0}
    /\ MaxOutput \in Nat
    /\ MaxInject \in Nat

VARIABLES
    produced,       \* units the child has written to the PTY
    childOpen,      \* some process still holds the slave side open
    readPos,        \* units the worker has read from the master
    pc,             \* worker: "idle" in its event loop, "read" in onReadReady
    readEnabled,    \* m_readNotifier->isEnabled()
    readEof,        \* m_readEof
    injected,       \* units of SGR resets injected so far
    fed,            \* units fed to the parser, injected ones included
    sent,           \* m_pending holds the units sent .. fed - 1
    flushScheduled, \* m_flushScheduled
    inFlight,       \* m_inFlightBatches
    readPaused,     \* m_readPaused
    guiQueue,       \* batchReady and finished events queued to the GUI thread
    acks,           \* drainAck calls queued to the worker
    resizePosted,   \* the GUI thread is blocked in a BlockingQueued resize
    gridSize,       \* TerminalGrid's size
    winsize,        \* the PTY's window size
    applied,        \* units applied to the grid
    exited          \* shellExited has been emitted

childVars  == <<produced, childOpen>>
ptyVars    == <<readPos, pc, readEnabled, readEof, injected>>
streamVars == <<fed, sent, flushScheduled, inFlight, readPaused>>
guiVars    == <<resizePosted, gridSize, winsize, applied, exited>>
vars == <<childVars, ptyVars, streamVars, guiQueue, acks, guiVars>>

\* What one batch can hold: a read is added whole before the threshold is
\* tested, and a wake may inject a reset just before its first read.
MaxBatch == FlushUnits - 1 + ResetUnits + ReadUnits

\* The units between the parser and the grid: MaxInFlight batches, and the
\* pending one that waits (or that onPtyFinished sends past the cap).
Window == (MaxInFlight + 1) * MaxBatch

Event == [kind : {"batch", "finished"}, lo : Nat, hi : Nat]
Batch(lo, hi) == [kind |-> "batch", lo |-> lo, hi |-> hi]
Finished(at)  == [kind |-> "finished", lo |-> at, hi |-> at]

hasPending == sent < fed

TypeOK ==
    /\ produced \in 0..MaxOutput
    /\ childOpen \in BOOLEAN
    /\ readPos \in 0..produced
    /\ pc \in {"idle", "read"}
    /\ readEnabled \in BOOLEAN
    /\ readEof \in BOOLEAN
    /\ injected \in 0..MaxInject
    /\ fed \in Nat
    /\ sent \in Nat
    /\ flushScheduled \in BOOLEAN
    /\ inFlight \in 0..MaxInFlight
    /\ readPaused \in BOOLEAN
    /\ guiQueue \in Seq(Event)
    /\ acks \in Nat
    /\ resizePosted \in BOOLEAN
    /\ gridSize \in Sizes
    /\ winsize \in Sizes
    /\ applied \in Nat
    /\ exited \in BOOLEAN

\* TerminalWidget::startShell has returned: the shell is forked, its notifier
\* is enabled and the first resize has matched the window size to the grid.
Init ==
    /\ produced = 0 /\ childOpen = TRUE
    /\ readPos = 0 /\ pc = "idle" /\ readEnabled = TRUE /\ readEof = FALSE
    /\ injected = 0 /\ fed = 0 /\ sent = 0
    /\ flushScheduled = FALSE /\ inFlight = 0 /\ readPaused = FALSE
    /\ guiQueue = <<>> /\ acks = 0
    /\ resizePosted = FALSE /\ gridSize \in Sizes /\ winsize = gridSize
    /\ applied = 0 /\ exited = FALSE

-----------------------------------------------------------------------------
(* The child and the kernel (external).                                    *)

ChildWrite ==
    /\ childOpen
    /\ produced < MaxOutput
    /\ produced - readPos < KernelCap
    /\ produced' = produced + 1
    /\ UNCHANGED <<childOpen, ptyVars, streamVars, guiQueue, acks, guiVars>>

ChildClose ==
    /\ childOpen
    /\ childOpen' = FALSE
    /\ UNCHANGED <<produced, ptyVars, streamVars, guiQueue, acks, guiVars>>

-----------------------------------------------------------------------------
(* VtStream's helpers, as updates of its own state.                        *)

\* Mutant: the EOF test is missing (the defect of ANTS-5026).
setReadEnabledAfterEof(on) == readEnabled' = on

\* Mutant: reads are never paused.
setReadEnabledNever(on) == UNCHANGED readEnabled

\* Pty::setReadEnabled: ignored once EOF has been handled.
setReadEnabled(on) ==
    readEnabled' = IF readEof THEN readEnabled ELSE on

\* VtStream::flushBatch with everything up to `hi` pending.
flushBatch(hi) ==
    \/ /\ inFlight >= MaxInFlight
       /\ IF readPaused THEN UNCHANGED <<readPaused, readEnabled>>
                        ELSE readPaused' = TRUE /\ setReadEnabled(FALSE)
       /\ UNCHANGED <<sent, inFlight, guiQueue>>
    \/ /\ inFlight < MaxInFlight
       /\ guiQueue' = Append(guiQueue, Batch(sent, hi))
       /\ sent' = hi
       /\ inFlight' = inFlight + 1
       /\ UNCHANGED <<readPaused, readEnabled>>

\* VtStream::onPtyData for a read of n units: parse, then flush now or
\* schedule a flush.  manyActions: the parse reached kFlushActions.
onPtyData(n) ==
    /\ fed' = fed + n
    /\ \E manyActions \in BOOLEAN :
        IF manyActions \/ fed + n - sent >= FlushUnits
        THEN flushBatch(fed + n) /\ UNCHANGED flushScheduled
        ELSE /\ flushScheduled' = TRUE
             /\ UNCHANGED <<sent, inFlight, readPaused, readEnabled, guiQueue>>

-----------------------------------------------------------------------------
(* Pty::onReadReady on the worker.                                         *)

\* The notifier fires: bytes wait, or the slave side is closed.
readable == readPos < produced \/ ~childOpen

\* The wake samples the foreground process group, and may inject a reset
\* ahead of the bytes that wait; the read loop then starts whatever the
\* injected data did to the notifier.
Wake ==
    /\ pc = "idle" /\ readEnabled /\ ~readEof /\ readable
    /\ pc' = "read"
    /\ UNCHANGED <<childVars, readPos, readEof, injected, acks, guiVars,
                   streamVars, guiQueue, readEnabled>>

WakeInject ==
    /\ pc = "idle" /\ readEnabled /\ ~readEof /\ readable
    /\ injected + ResetUnits <= MaxInject
    /\ pc' = "read"
    /\ injected' = injected + ResetUnits
    /\ onPtyData(ResetUnits)
    /\ UNCHANGED <<childVars, readPos, readEof, acks, guiVars>>

\* ::read returned data; the loop goes on unless the handler paused reads.
ReadData ==
    /\ pc = "read"
    /\ \E n \in 1..ReadUnits :
        /\ n <= produced - readPos
        /\ readPos' = readPos + n
        /\ onPtyData(n)
    /\ pc' = IF readEnabled' THEN "read" ELSE "idle"
    /\ UNCHANGED <<childVars, readEof, injected, acks, guiVars>>

\* ::read returned EAGAIN (nothing waits) or EINTR (anything may wait).
ReadAgain ==
    /\ pc = "read"
    /\ pc' = "idle"
    /\ UNCHANGED <<childVars, readPos, readEnabled, readEof, injected,
                   streamVars, guiQueue, acks, guiVars>>

\* Mutant: the pending units are dropped at EOF.
onPtyFinishedDropping ==
    /\ guiQueue' = Append(guiQueue, Finished(fed))
    /\ sent' = fed
    /\ UNCHANGED <<fed, flushScheduled, inFlight, readPaused>>

\* VtStream::onPtyFinished: the last batch is sent whatever inFlight is, and
\* is not counted in it.
onPtyFinished ==
    /\ guiQueue' = (IF hasPending THEN Append(guiQueue, Batch(sent, fed))
                                  ELSE guiQueue) \o <<Finished(fed)>>
    /\ sent' = fed
    /\ UNCHANGED <<fed, flushScheduled, inFlight, readPaused>>

\* ::read reported EOF or EIO.
ReadEof ==
    /\ pc = "read"
    /\ ~childOpen /\ readPos = produced
    /\ readEof' = TRUE
    /\ readEnabled' = FALSE
    /\ pc' = "idle"
    /\ onPtyFinished
    /\ UNCHANGED <<childVars, readPos, injected, acks, guiVars>>

-----------------------------------------------------------------------------
(* The worker's other events.                                              *)

onFlushTimer ==
    /\ pc = "idle" /\ flushScheduled
    /\ flushScheduled' = FALSE
    /\ IF hasPending
       THEN flushBatch(fed)
       ELSE UNCHANGED <<sent, inFlight, readPaused, readEnabled, guiQueue>>
    /\ UNCHANGED <<childVars, readPos, pc, readEof, injected, fed, acks, guiVars>>

\* Mutant: reads go on, but what was pending is not flushed.
drainAckNoFlush ==
    /\ pc = "idle" /\ acks > 0
    /\ acks' = acks - 1
    /\ inFlight' = inFlight - 1
    /\ readPaused' = FALSE
    /\ IF readPaused THEN setReadEnabled(TRUE) ELSE UNCHANGED readEnabled
    /\ UNCHANGED <<childVars, readPos, pc, readEof, injected, fed, sent,
                   flushScheduled, guiQueue, guiVars>>

\* One queued drainAck.  The flush in its tail finds inFlight below the cap,
\* so it always sends.
drainAck ==
    /\ pc = "idle" /\ acks > 0
    /\ acks' = acks - 1
    /\ LET left  == IF inFlight > 0 THEN inFlight - 1 ELSE 0
           wakes == readPaused /\ left < MaxInFlight
           sends == wakes /\ hasPending
       IN /\ readPaused' = (readPaused /\ ~wakes)
          /\ IF wakes THEN setReadEnabled(TRUE) ELSE UNCHANGED readEnabled
          /\ guiQueue' = IF sends THEN Append(guiQueue, Batch(sent, fed)) ELSE guiQueue
          /\ sent' = IF sends THEN fed ELSE sent
          /\ inFlight' = IF sends THEN left + 1 ELSE left
    /\ UNCHANGED <<childVars, readPos, pc, readEof, injected, fed,
                   flushScheduled, guiVars>>

\* Mutant: the worker posts the call again until the GUI has applied every
\* batch, which the blocked GUI cannot.
resizeAfterDrain ==
    /\ pc = "idle" /\ resizePosted /\ acks = 0
    /\ IF inFlight = 0 THEN winsize' = gridSize /\ resizePosted' = FALSE
                       ELSE UNCHANGED <<winsize, resizePosted>>
    /\ UNCHANGED <<childVars, ptyVars, streamVars, guiQueue, acks, gridSize,
                   applied, exited>>

\* VtStream::resize, behind every acknowledgement posted before it; the
\* blocked GUI thread goes on.
resize ==
    /\ pc = "idle" /\ resizePosted /\ acks = 0
    /\ winsize' = gridSize
    /\ resizePosted' = FALSE
    /\ UNCHANGED <<childVars, ptyVars, streamVars, guiQueue, acks, gridSize,
                   applied, exited>>

-----------------------------------------------------------------------------
(* TerminalWidget on the GUI thread.                                       *)

\* Mutant: batches that wait together are acknowledged once.
onVtBatchTogether ==
    /\ ~resizePosted
    /\ guiQueue # <<>> /\ Head(guiQueue).kind = "batch"
    /\ applied' = Head(guiQueue).hi
    /\ guiQueue' = Tail(guiQueue)
    /\ acks' = IF Len(guiQueue) > 1 THEN acks ELSE acks + 1
    /\ UNCHANGED <<childVars, ptyVars, streamVars, resizePosted, gridSize,
                   winsize, exited>>

\* The batch is applied to the grid, then acknowledged.
onVtBatch ==
    /\ ~resizePosted
    /\ guiQueue # <<>> /\ Head(guiQueue).kind = "batch"
    /\ applied' = Head(guiQueue).hi
    /\ guiQueue' = Tail(guiQueue)
    /\ acks' = acks + 1
    /\ UNCHANGED <<childVars, ptyVars, streamVars, resizePosted, gridSize,
                   winsize, exited>>

onShellExited ==
    /\ ~resizePosted
    /\ guiQueue # <<>> /\ Head(guiQueue).kind = "finished"
    /\ exited' = TRUE
    /\ guiQueue' = Tail(guiQueue)
    /\ UNCHANGED <<childVars, ptyVars, streamVars, acks, resizePosted,
                   gridSize, winsize, applied>>

\* recalcGridSize with a changed size: the grid first, then the blocking call.
recalcGridSize ==
    /\ ~resizePosted
    /\ \E size \in Sizes \ {gridSize} : gridSize' = size
    /\ resizePosted' = TRUE
    /\ UNCHANGED <<childVars, ptyVars, streamVars, guiQueue, acks, winsize,
                   applied, exited>>

-----------------------------------------------------------------------------
OnReadReady == Wake \/ WakeInject \/ ReadData \/ ReadAgain \/ ReadEof
Worker == OnReadReady \/ onFlushTimer \/ drainAck \/ resize
Gui == onVtBatch \/ onShellExited \/ recalcGridSize

Next == ChildWrite \/ ChildClose \/ Worker \/ Gui

(***************************************************************************)
(* Fairness.  Each thread's event loop serves every posted event, timer    *)
(* and ready notifier in turn, so none of them waits for ever while the    *)
(* loop keeps turning.  Strong fairness where another handler can take the *)
(* thread in between: the read loop disables the worker's other handlers,  *)
(* a blocking resize disables the GUI's, and EINTR can end a read loop but *)
(* not every one.  Nothing is assumed of the child.                        *)
(***************************************************************************)
Fairness ==
    /\ WF_vars(Wake \/ WakeInject)
    /\ SF_vars(ReadData \/ ReadEof)
    /\ WF_vars(ReadAgain)
    /\ SF_vars(onFlushTimer)
    /\ SF_vars(drainAck)
    /\ SF_vars(resize)
    /\ SF_vars(onVtBatch \/ onShellExited)

Spec == Init /\ [][Next]_vars
FairSpec == Spec /\ Fairness

-----------------------------------------------------------------------------
(* Properties.                                                             *)

\* The abstract specification of the stream, with the parser's input as
\* `parsed`.
Stream == INSTANCE OutputStream WITH parsed <- fed

\* The detailed system implements it.
ImplementsStream == Stream!Spec

\* Batches the GUI has not yet applied or whose drainAck the worker has not
\* yet run.  Between EOF and exited the queue also holds the finished event.
outstanding == Len(guiQueue) + acks - (IF readEof /\ ~exited THEN 1 ELSE 0)

\* The events of q are consecutive intervals from `from` up to `to`.
Chained(q, from, to) ==
    /\ \A i \in 1..Len(q) : q[i].lo = IF i = 1 THEN from ELSE q[i - 1].hi
    /\ to = IF q = <<>> THEN from ELSE q[Len(q)].hi

\* Delivery (VtStream's action-stream identity contract): the batches on
\* their way to the GUI, the pending units and the applied ones are one
\* gapless stream, in the order the worker parsed it.
InOrder ==
    /\ Chained(guiQueue, applied, sent)
    /\ fed = readPos + injected

\* The counter behind back-pressure: until EOF it equals the batches that
\* the GUI has still to apply plus the acknowledgements on their way; after
\* EOF it is short by the one batch onPtyFinished does not count.
InFlightExact ==
    IF readEof THEN inFlight \in {outstanding, outstanding - 1}
               ELSE inFlight = outstanding

\* No lost wakeup between a pause and the acknowledgement that ends it: while the
\* worker is paused its window is full, and that many batches or drainAck calls
\* really are on their way, at the GUI or back (flushBatch, drainAck).
PauseHasAck ==
    readPaused => inFlight = MaxInFlight /\ outstanding >= MaxInFlight

\* Parsed units never sit in m_pending without something that will send
\* them: a scheduled flush, or a pause that an acknowledgement ends.
PendingHasTrigger ==
    hasPending => flushScheduled \/ readPaused

\* The notifier is on exactly while reads are not paused, until EOF turns it
\* off for good: two objects, Pty and VtStream, each keep half of this state.
NotifierMatches ==
    readEnabled <=> ~readPaused /\ ~readEof

\* Memory bound: however slow the GUI is, the raw input between the parser
\* and the grid stays within Window (VtStream's kMaxInFlight comment).
Bounded ==
    /\ fed - sent <= MaxBatch
    /\ \A i \in 1..Len(guiQueue) : guiQueue[i].hi - guiQueue[i].lo <= MaxBatch
    /\ fed - applied <= Window

\* The shell's exit is reported once, after the last byte it wrote has been
\* applied to the grid.
ExitAfterOutput ==
    exited => /\ applied = fed
              /\ readPos = produced
              /\ guiQueue = <<>>

\* The PTY's window size is the grid's whenever the GUI thread is not inside
\* the resize call (VtStream's resize atomicity contract).
ResizeAtomic ==
    ~resizePosted => winsize = gridSize

\* Once EOF is handled nothing is read, parsed or re-enabled (ANTS-5026),
\* and a drainAck that arrives later changes only the counters.
EofIsFinal ==
    [][readEof => /\ readEof' /\ ~readEnabled'
                  /\ UNCHANGED <<readPos, fed, sent, pc>>]_vars

\* Liveness: every unit the child wrote is applied to the grid in the end,
\* through any number of pauses and resizes.
OutputApplied ==
    \A n \in 1..MaxOutput : (produced >= n) ~> (applied - injected >= n)

\* Liveness: the GUI thread gets out of every blocking resize.
ResizeReturns == resizePosted ~> ~resizePosted
=============================================================================
