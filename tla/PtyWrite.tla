------------------------------ MODULE PtyWrite ------------------------------
(***************************************************************************)
(* The write side of a terminal tab: the GUI thread posts key data and     *)
(* pastes to the worker, VtStream feeds a paste in slices and keeps later  *)
(* key data behind it, and Pty::write hands bytes to the PTY master,       *)
(* queueing what the kernel has no room for until the write notifier       *)
(* fires.                                                                  *)
(*                                                                         *)
(* Bytes are counted in units, numbered in the order the GUI hands them    *)
(* in.  A slot of the worker is one step, except that feedPaste takes one  *)
(* step per slice, because the child may read in between.                  *)
(***************************************************************************)
EXTENDS Integers, Sequences

CONSTANTS
    SliceUnits,   \* kPasteSliceBytes
    MaxPending,   \* MAX_PENDING_WRITE_BYTES
    KernelCap,    \* units the kernel holds for the child
    KeySizes,     \* sizes of the key data the GUI writes
    PasteSizes,   \* sizes of pastes, their brackets included
    MaxUnits,     \* bound: units handed in during a behaviour
    MaxFaults     \* bound: writes that fail with an error of their own

\* The code's slice, 64 KiB, is well within its cap, 4 MiB.
ASSUME WriteAssumption ==
    /\ SliceUnits \in Nat \ {0}
    /\ MaxPending \in Nat
    /\ SliceUnits <= MaxPending
    /\ KernelCap \in Nat \ {0}
    /\ KeySizes \subseteq Nat \ {0}
    /\ PasteSizes \subseteq Nat \ {0}
    /\ MaxUnits \in Nat
    /\ MaxFaults \in Nat

VARIABLES
    messages,     \* history: every message the GUI has posted
    posted,       \* messages the worker has still to run, in order
    pc,           \* worker: "idle", or inside feedPaste's loop, "feed"
    pasteBacklog, \* m_pasteBacklog
    pasteOffset,  \* m_pasteOffset
    pendingWrite, \* m_pendingWrite
    writeArmed,   \* m_writeNotifier->isEnabled()
    delivered,    \* units the kernel has taken, in order
    childRead,    \* how many of them the child has read
    faults,       \* writes that have failed fatally
    lost,         \* units reported through writeLost
    dropped       \* units of the backlog that went with them

streamVars == <<posted, pasteBacklog, pasteOffset>>
ptyVars == <<pendingWrite, writeArmed, delivered, faults, lost>>
vars == <<messages, pc, streamVars, ptyVars, childRead, dropped>>

Units == 1..MaxUnits
Message == [kind : {"key", "paste"}, data : Seq(Units)]
handedIn == IF messages = <<>> THEN 0
            ELSE LET last == messages[Len(messages)].data IN last[Len(last)]

Elements(s) == {s[i] : i \in 1..Len(s)}
From(s, i) == SubSeq(s, i + 1, Len(s))

TypeOK ==
    /\ messages \in Seq(Message)
    /\ posted \in Seq(Message)
    /\ pc \in {"idle", "feed"}
    /\ pasteBacklog \in Seq(Units)
    /\ pasteOffset \in Nat
    /\ pendingWrite \in Seq(Units) /\ Len(pendingWrite) <= MaxPending
    /\ writeArmed \in BOOLEAN
    /\ delivered \in Seq(Units)
    /\ childRead \in 0..Len(delivered)
    /\ faults \in 0..MaxFaults
    /\ lost \subseteq Units
    /\ dropped \subseteq Units

\* After VtStream::start: the write notifier exists and is disarmed.
Init ==
    /\ messages = <<>> /\ posted = <<>> /\ pc = "idle"
    /\ pasteBacklog = <<>> /\ pasteOffset = 0
    /\ pendingWrite = <<>> /\ writeArmed = FALSE
    /\ delivered = <<>> /\ childRead = 0
    /\ faults = 0 /\ lost = {} /\ dropped = {}

-----------------------------------------------------------------------------
(* The GUI thread and the child.                                           *)

post(kind, n) ==
    LET m == [kind |-> kind, data |-> [i \in 1..n |-> handedIn + i]]
    IN /\ handedIn + n <= MaxUnits
       /\ messages' = Append(messages, m)
       /\ posted' = Append(posted, m)
       /\ UNCHANGED <<pc, pasteBacklog, pasteOffset, ptyVars, childRead, dropped>>

\* TerminalWidget::ptyWrite and performPaste, each one queued call.
ptyWrite == \E n \in KeySizes : post("key", n)
performPaste == \E n \in PasteSizes : post("paste", n)

\* External: the child reads some of its input.
ChildRead ==
    /\ \E n \in (childRead + 1)..Len(delivered) : childRead' = n
    /\ UNCHANGED <<messages, pc, streamVars, ptyVars, dropped>>

-----------------------------------------------------------------------------
(* Pty on the worker.                                                      *)

kernelRoom == KernelCap - (Len(delivered) - childRead)

\* Pty::writeSome offered `data` takes k units; it stops short when the
\* kernel has no room (EAGAIN), or on any other error ("fatal").
writeSome(data, k, fatal) ==
    /\ k <= kernelRoom
    /\ IF fatal
       THEN k < Len(data) /\ faults < MaxFaults /\ faults' = faults + 1
       ELSE (k = Len(data) \/ k = kernelRoom) /\ UNCHANGED faults
    /\ delivered' = delivered \o SubSeq(data, 1, k)

\* The queue may hold n units.
fits(n) == n <= MaxPending

\* The write notifier once `rest` is queued; mutant: it stays off.
armNever(rest) == writeArmed' = FALSE
arm(rest) == writeArmed' = (rest # <<>>)

\* VtStream's writeLost handler: what is left of the pastes goes too.
\* `fed` is the part of the backlog already handed to Pty.
writeLost(units, fed) ==
    /\ lost' = lost \cup units
    /\ dropped' = dropped \cup Elements(From(pasteBacklog, fed))
    /\ pasteBacklog' = <<>>

\* Pty::write(data) with the backlog handed over up to `fed`.
write(data, fed) ==
    \/ \* queued behind earlier bytes
       /\ pendingWrite # <<>>
       /\ fits(Len(pendingWrite) + Len(data))
       /\ pendingWrite' = pendingWrite \o data
       /\ UNCHANGED <<writeArmed, delivered, faults, lost, dropped, pasteBacklog>>
    \/ \* the queue is full
       /\ pendingWrite # <<>>
       /\ ~fits(Len(pendingWrite) + Len(data))
       /\ writeLost(Elements(data), fed)
       /\ UNCHANGED <<pendingWrite, writeArmed, delivered, faults>>
    \/ \* straight to the kernel
       /\ pendingWrite = <<>>
       /\ \E k \in 0..Len(data), fatal \in BOOLEAN :
            LET rest == From(data, k)
            IN /\ writeSome(data, k, fatal)
               /\ IF fatal \/ ~fits(Len(rest))
                  THEN /\ writeLost(Elements(rest), fed)
                       /\ UNCHANGED <<pendingWrite, writeArmed>>
                  ELSE /\ pendingWrite' = rest
                       /\ arm(rest)
                       /\ UNCHANGED <<lost, dropped, pasteBacklog>>

\* This write ended in writeLost, which also sets m_pasteOffset to 0.
wasLost == lost' # lost

\* Pty::onWriteReady.  Its early return never applies: the notifier is armed
\* only with bytes queued (InputHasTrigger).  A queue it empties resumes a
\* paste.
onWriteReady ==
    /\ pc = "idle" /\ writeArmed /\ pendingWrite # <<>>
    /\ \E k \in 0..Len(pendingWrite), fatal \in BOOLEAN :
        LET rest == From(pendingWrite, k)
        IN /\ kernelRoom > 0 \/ fatal      \* the notifier fired
           /\ writeSome(pendingWrite, k, fatal)
           /\ IF fatal
              THEN /\ writeLost(Elements(rest), pasteOffset)
                   /\ pasteOffset' = 0
                   /\ pendingWrite' = <<>>
                   /\ writeArmed' = FALSE
                   /\ UNCHANGED pc
              ELSE /\ pendingWrite' = rest
                   /\ arm(rest)
                   /\ pc' = IF rest = <<>> THEN "feed" ELSE "idle"
                   /\ UNCHANGED <<lost, dropped, pasteBacklog, pasteOffset>>
    /\ UNCHANGED <<messages, posted, childRead>>

-----------------------------------------------------------------------------
(* VtStream on the worker.                                                 *)

\* A paste is being fed; mutant: its last slice is forgotten.
feedingShort == pasteOffset + 1 < Len(pasteBacklog)
feeding == pasteOffset < Len(pasteBacklog)

\* The backlog has been fed or dropped: a dropped one has size 0 and the
\* offset of one slice.
usedUp == pasteOffset >= Len(pasteBacklog)

\* The next slice of `left` units; mutant: everything at once.
wholeBacklog(left) == left
sliceOf(left) == IF left < SliceUnits THEN left ELSE SliceUnits

\* VtStream::write behind a paste that is still being fed.
writeBehindPaste ==
    /\ pc = "idle" /\ posted # <<>> /\ Head(posted).kind = "key"
    /\ feeding
    /\ pasteBacklog' = pasteBacklog \o Head(posted).data
    /\ posted' = Tail(posted)
    /\ UNCHANGED <<messages, pc, pasteOffset, ptyVars, childRead, dropped>>

\* VtStream::write with no paste in the way; writeLost also resets the offset.
writeKey ==
    /\ pc = "idle" /\ posted # <<>> /\ Head(posted).kind = "key"
    /\ ~feeding
    /\ write(Head(posted).data, pasteOffset)
    /\ pasteOffset' = IF wasLost THEN 0 ELSE pasteOffset
    /\ posted' = Tail(posted)
    /\ UNCHANGED <<messages, pc, childRead>>

writePaste ==
    /\ pc = "idle" /\ posted # <<>> /\ Head(posted).kind = "paste"
    /\ pasteBacklog' = pasteBacklog \o Head(posted).data
    /\ pc' = "feed"
    /\ posted' = Tail(posted)
    /\ UNCHANGED <<messages, pasteOffset, ptyVars, childRead, dropped>>

\* feedPaste, one turn of its loop.  When the slice is lost the handler has
\* reset the offset before the slice is added to it.
feedSlice ==
    /\ pc = "feed" /\ feeding /\ pendingWrite = <<>>
    /\ LET slice == sliceOf(Len(pasteBacklog) - pasteOffset)
       IN /\ write(SubSeq(pasteBacklog, pasteOffset + 1, pasteOffset + slice),
                   pasteOffset + slice)
          /\ pasteOffset' = (IF wasLost THEN 0 ELSE pasteOffset) + slice
    /\ UNCHANGED <<messages, posted, pc, childRead>>

\* feedPaste after its loop: the backlog is cleared once it is used up.
feedDone ==
    /\ pc = "feed" /\ ~(feeding /\ pendingWrite = <<>>)
    /\ pc' = "idle"
    /\ IF usedUp
       THEN pasteBacklog' = <<>> /\ pasteOffset' = 0
       ELSE UNCHANGED <<pasteBacklog, pasteOffset>>
    /\ UNCHANGED <<messages, posted, ptyVars, childRead, dropped>>

Worker == \/ onWriteReady \/ writeBehindPaste \/ writeKey \/ writePaste
          \/ feedSlice \/ feedDone
Next == ptyWrite \/ performPaste \/ ChildRead \/ Worker

(***************************************************************************)
(* Fairness.  The worker's loop serves posted calls and a ready notifier;  *)
(* a posted call or feedPaste's loop can come in between, hence strong     *)
(* fairness of onWriteReady.  The child goes on reading its input: without *)
(* that no input can arrive.                                               *)
(***************************************************************************)
Fairness ==
    /\ SF_vars(onWriteReady)
    /\ SF_vars(writeBehindPaste \/ writeKey \/ writePaste)
    /\ WF_vars(feedSlice \/ feedDone)
    /\ WF_vars(ChildRead)

Spec == Init /\ [][Next]_vars
FairSpec == Spec /\ Fairness

-----------------------------------------------------------------------------
(* Properties.                                                             *)

\* What is on its way from the worker to the child, oldest first.
outgoing == delivered \o pendingWrite \o From(pasteBacklog, pasteOffset)

Ascending(s) == \A i, j \in 1..Len(s) : i < j => s[i] < s[j]
Before(s, t) == \A i \in 1..Len(s), j \in 1..Len(t) : s[i] < t[j]

\* The units of the messages ms.
Carried(ms) == UNION {Elements(ms[i].data) : i \in 1..Len(ms)}

\* What the worker has still to take is in order, behind what is outgoing.
PostedBehind ==
    /\ \A i \in 1..Len(posted) : /\ Ascending(posted[i].data)
                                 /\ Before(outgoing, posted[i].data)
    /\ \A i, j \in 1..Len(posted) : i < j => Before(posted[i].data, posted[j].data)

\* Order and accounting: the units on their way are in the order the GUI
\* handed them in, so key data typed during a paste lands behind it (INV-3 of
\* tests/features/pty_paste_chunked/spec.md); none is duplicated, and one
\* that is missing was given up with a writeLost.
FifoOrLost ==
    /\ Ascending(outgoing)
    /\ PostedBehind
    /\ Elements(outgoing) \cup Carried(posted) = (1..handedIn) \ (lost \cup dropped)
    /\ dropped # {} => lost # {}

\* Without an I/O error no unit of a paste is ever given up, however full the
\* queue is and whatever is typed meanwhile: only key data written outside a
\* paste can overflow (INV-1 and INV-2 of the same spec).
PasteWhole ==
    faults = 0 =>
        /\ dropped = {}
        /\ \A m \in 1..Len(messages) :
            messages[m].kind = "paste" => lost \cap Elements(messages[m].data) = {}

\* No lost wakeup: queued bytes keep the write notifier armed (and nothing
\* else does, or it would spin), and a paste that waits in the backlog waits
\* for exactly those bytes.
InputHasTrigger ==
    /\ writeArmed <=> pendingWrite # <<>>
    /\ pc = "idle" /\ feeding => pendingWrite # <<>>

\* The backlog is let go of, and its offset restarted, whenever no paste is
\* being fed, even after a slice was lost; a later paste loses no head.
BacklogReset ==
    pc = "idle" /\ ~feeding => pasteBacklog = <<>> /\ pasteOffset = 0

\* Liveness: what the user hands in is written or given up in the end.
InputArrives ==
    \A u \in Units : (handedIn >= u) ~>
        (u \in Elements(delivered) \cup lost \cup dropped)
=============================================================================
