---------------------------- MODULE PtyLifecycle ----------------------------
(***************************************************************************)
(* From Pty::start to ~Pty: who reaps the shell, which signals it gets     *)
(* when its tab closes, and how long the GUI thread waits for that.        *)
(* TerminalWidget's destructor asks the worker thread to quit and waits    *)
(* GuiWait ticks; as the worker's loop ends ~Pty runs on it, a ladder of   *)
(* SIGHUP, SIGTERM and SIGKILL with a bounded number of polls at each      *)
(* rung.                                                                   *)
(*                                                                         *)
(* A tick is one 10 ms usleep of a poll loop; everything else the worker   *)
(* does in its destructor takes no time.  A shell may die of itself, close *)
(* its terminal and live on, ignore SIGTERM, be stopped, or sit in an      *)
(* uninterruptible sleep that defers even SIGKILL.                         *)
(***************************************************************************)
EXTENDS Naturals

CONSTANTS
    TermPolls,   \* polls after SIGTERM (50)
    KillPolls,   \* polls after SIGKILL (100)
    GuiWait      \* QThread::wait's deadline, in polls (200)

ASSUME LadderAssumption ==
    /\ TermPolls \in Nat \ {0}
    /\ KillPolls \in Nat \ {0}
    /\ GuiWait \in Nat
    /\ TermPolls + KillPolls < GuiWait

VARIABLES
    child,       \* the shell: "none", "alive", "zombie", "reaped"
    obeysTerm,   \* SIGTERM ends it within a tick; otherwise it may not
    stopped,     \* it is stopped
    asleep,      \* it is in an uninterruptible sleep
    slept,       \* it has been in one
    pending,     \* signals sent to it
    slaveOpen,   \* some process holds the slave side open
    childPid,    \* m_childPid > 0
    masterOpen,  \* m_masterFd >= 0
    readEof,     \* m_readEof
    worker,      \* where the worker thread stands
    polls,       \* the poll loop's counter
    gui,         \* where the GUI thread stands
    waited,      \* ticks it has waited for the worker
    wasBusy,     \* the worker was inside a slot after it was asked to quit
    threadOwned, \* the QThread is still the widget's child
    deletePosted, \* its deleteLater has been called
    threadGone,  \* the QThread has been deleted
    stray,       \* a signal was sent to a reaped pid
    reapedAny    \* waitpid was called with no child of the Pty's own

childVars == <<child, obeysTerm, stopped, asleep, slept, pending, slaveOpen>>
ptyVars   == <<childPid, masterOpen, readEof, polls>>
threadVars == <<threadOwned, deletePosted, threadGone>>
guiVars   == <<gui, waited, wasBusy, threadVars>>
vars == <<childVars, ptyVars, worker, guiVars, stray, reapedAny>>

TypeOK ==
    /\ child \in {"none", "alive", "zombie", "reaped"}
    /\ obeysTerm \in BOOLEAN /\ stopped \in BOOLEAN
    /\ asleep \in BOOLEAN /\ slept \in BOOLEAN /\ slaveOpen \in BOOLEAN
    /\ pending \subseteq {"HUP", "TERM", "KILL"}
    /\ childPid \in BOOLEAN /\ masterOpen \in BOOLEAN /\ readEof \in BOOLEAN
    /\ worker \in {"new", "loop", "busy", "hangup", "reap", "termPoll",
                   "recheck", "killPoll", "finished"}
    /\ polls \in 0..(IF TermPolls > KillPolls THEN TermPolls ELSE KillPolls)
    /\ gui \in {"starting", "open", "noShell", "waiting", "unparented", "connected",
                "closed"}
    /\ waited \in 0..GuiWait
    /\ wasBusy \in BOOLEAN /\ threadOwned \in BOOLEAN
    /\ deletePosted \in BOOLEAN /\ threadGone \in BOOLEAN
    /\ stray \in BOOLEAN /\ reapedAny \in BOOLEAN

\* startShell has made the thread and waits for VtStream::start.
Init ==
    /\ child = "none" /\ obeysTerm \in BOOLEAN
    /\ stopped = FALSE /\ asleep = FALSE /\ slept = FALSE
    /\ pending = {} /\ slaveOpen = FALSE
    /\ childPid = FALSE /\ masterOpen = FALSE /\ readEof = FALSE /\ polls = 0
    /\ worker = "new"
    /\ gui = "starting" /\ waited = 0 /\ wasBusy = FALSE
    /\ threadOwned = TRUE /\ deletePosted = FALSE /\ threadGone = FALSE
    /\ stray = FALSE /\ reapedAny = FALSE

-----------------------------------------------------------------------------
(* System calls.                                                           *)

\* kill(m_childPid, ...) with each of `signals`; SIGCONT acts at once.
kill(signals) ==
    /\ pending' = IF child = "alive" THEN pending \cup (signals \ {"CONT"}) ELSE pending
    /\ stopped' = (stopped /\ "CONT" \notin signals)
    /\ stray' = (stray \/ child = "reaped")

\* waitpid(m_childPid, ..., WNOHANG) does not return 0, and reaps a zombie.
gone == child # "alive"
waitpid ==
    /\ child' = IF child = "zombie" THEN "reaped" ELSE child
    /\ reapedAny' = (reapedAny \/ ~childPid)

-----------------------------------------------------------------------------
(* The shell and the kernel (external).                                    *)

\* A signal the kernel acts on at once.
doomed ==
    /\ child = "alive" /\ ~asleep
    /\ "KILL" \in pending \/ ("TERM" \in pending /\ obeysTerm /\ ~stopped)

\* A shell that is not stopped may also end of itself, or on a hangup.
ChildDies ==
    /\ child = "alive" /\ ~asleep
    /\ doomed \/ ~stopped
    /\ child' = "zombie"
    /\ slaveOpen' \in {FALSE, slaveOpen}   \* a background job may hold it
    /\ UNCHANGED <<obeysTerm, stopped, asleep, slept, pending, ptyVars, worker,
                   guiVars, stray, reapedAny>>

\* Ctrl-Z and the like, while the tab is there.
ChildStops ==
    /\ child = "alive" /\ ~stopped /\ gui \in {"starting", "open"}
    /\ stopped' = TRUE
    /\ UNCHANGED <<child, obeysTerm, asleep, slept, pending, slaveOpen, ptyVars,
                   worker, guiVars, stray, reapedAny>>

\* A sleep may begin or end, but a signal due is taken before the next.
ChildSleeps ==
    /\ child = "alive" /\ ~doomed
    /\ asleep' = ~asleep /\ slept' = TRUE
    /\ UNCHANGED <<child, obeysTerm, stopped, pending, slaveOpen, ptyVars, worker,
                   guiVars, stray, reapedAny>>

ChildCloses ==
    /\ slaveOpen
    /\ slaveOpen' = FALSE
    /\ UNCHANGED <<child, obeysTerm, stopped, asleep, slept, pending, ptyVars, worker,
                   guiVars, stray, reapedAny>>

-----------------------------------------------------------------------------
(* The worker: start, EOF.                                                 *)

start ==
    /\ worker = "new"
    /\ worker' = "loop"
    /\ child' = "alive" /\ slaveOpen' = TRUE
    /\ childPid' = TRUE /\ masterOpen' = TRUE
    /\ gui' = "open"
    /\ UNCHANGED <<obeysTerm, stopped, asleep, slept, pending, readEof, polls, waited,
                   wasBusy, threadVars, stray, reapedAny>>

\* forkpty fails, or the master cannot be made non-blocking and the shell is
\* told to hang up.  startShell then quits the thread and waits for it.
startFails ==
    /\ worker = "new"
    /\ worker' = "hangup"
    /\ gui' = "noShell"
    /\ \/ UNCHANGED <<childVars, childPid>>
       \/ /\ child' = "alive" /\ slaveOpen' = TRUE /\ childPid' = TRUE
          /\ pending' = {"HUP"}            \* and the master is closed again
          /\ UNCHANGED <<obeysTerm, stopped, asleep, slept>>
    /\ UNCHANGED <<masterOpen, readEof, polls, waited, wasBusy, threadVars, stray, reapedAny>>

\* Whether m_childPid survives the reap at EOF: only a child that was reaped
\* is forgotten.  Mutants: it is always forgotten (the defect of ANTS-1131),
\* and never.
forgets == FALSE
remembers == childPid
keepsPid == childPid /\ child # "zombie"

\* onReadReady's EOF branch; the notifier may fire more than once.
onReadEof ==
    /\ worker = "loop" /\ masterOpen /\ ~readEof /\ ~slaveOpen
    /\ readEof' = TRUE
    /\ waitpid
    /\ childPid' = keepsPid
    /\ UNCHANGED <<obeysTerm, stopped, asleep, slept, pending, slaveOpen, masterOpen,
                   polls, worker, guiVars, stray>>

\* A slot of the worker takes its time.
Busy ==
    /\ worker = "loop" /\ worker' = "busy"
    /\ wasBusy' = (wasBusy \/ gui = "waiting")
    /\ UNCHANGED <<childVars, ptyVars, gui, waited, threadVars,
                   stray, reapedAny>>

SlotEnds ==
    /\ worker = "busy" /\ worker' = "loop"
    /\ UNCHANGED <<childVars, ptyVars, guiVars, stray, reapedAny>>

-----------------------------------------------------------------------------
(* ~TerminalWidget on the GUI thread.                                      *)

\* quit() and wait(2000); the worker may be inside a slot.
CloseTab ==
    /\ gui \in {"open", "noShell"}
    /\ gui = "noShell" => worker = "finished"
    /\ gui' = "waiting"
    /\ wasBusy' = (worker = "busy")
    /\ UNCHANGED <<childVars, ptyVars, worker, waited, threadVars,
                   stray, reapedAny>>

\* The wait succeeds: the widget's children, the QThread with them, go.
WorkerStopped ==
    /\ gui = "waiting" /\ worker = "finished"
    /\ gui' = "closed" /\ threadGone' = TRUE
    /\ UNCHANGED <<childVars, ptyVars, worker, waited, wasBusy, threadOwned,
                   deletePosted, stray, reapedAny>>

\* The wait times out: the thread is unparented, to delete itself later.
Detach ==
    /\ gui = "waiting" /\ worker # "finished" /\ waited = GuiWait
    /\ gui' = "unparented" /\ threadOwned' = FALSE
    /\ UNCHANGED <<childVars, ptyVars, worker, waited, wasBusy, deletePosted,
                   threadGone, stray, reapedAny>>

\* From here on the thread's finished() calls deleteLater.
ConnectFinished ==
    /\ gui = "unparented"
    /\ gui' = "connected"
    /\ UNCHANGED <<childVars, ptyVars, worker, waited, wasBusy, threadVars,
                   stray, reapedAny>>

\* QThread::isFinished: from the moment finished() is emitted.  Mutant: the
\* destructor does not ask.
neverAsked == FALSE
isFinished == worker \notin {"loop", "busy"}

\* A thread that had finished before the connection is deleted all the same.
TestFinished ==
    /\ gui = "connected"
    /\ gui' = "closed" /\ deletePosted' = (deletePosted \/ isFinished)
    /\ UNCHANGED <<childVars, ptyVars, worker, waited, wasBusy, threadOwned,
                   threadGone, stray, reapedAny>>

\* The GUI's loop runs deleteLater; ~QThread waits for a thread that is ending.
ThreadDeletesItself ==
    /\ gui = "closed" /\ deletePosted /\ worker = "finished" /\ ~threadGone
    /\ threadGone' = TRUE
    /\ UNCHANGED <<childVars, ptyVars, worker, gui, waited, wasBusy, threadOwned,
                   deletePosted, stray, reapedAny>>

-----------------------------------------------------------------------------
(* ~Pty on the worker.                                                     *)

\* The loop sees quit() and ends with finished(), to which deleteLater of the
\* VtStream is connected, and by now perhaps that of the thread; the VtStream and
\* its Pty are destroyed.
LoopEnds ==
    /\ worker = "loop" /\ gui \in {"waiting", "unparented", "connected", "closed"}
    /\ worker' = "hangup"
    /\ deletePosted' = (deletePosted \/ gui \in {"connected", "closed"})
    /\ UNCHANGED <<childVars, ptyVars, gui, waited, wasBusy, threadOwned, threadGone,
                   stray, reapedAny>>

\* SIGHUP, then close; closing the master hangs the session up as well.
hangup ==
    /\ worker = "hangup"
    /\ IF childPid THEN kill({"HUP"}) /\ worker' = "reap"
                   ELSE worker' = "finished" /\ UNCHANGED <<pending, stopped, stray>>
    /\ masterOpen' = FALSE
    /\ UNCHANGED <<child, obeysTerm, asleep, slept, slaveOpen, childPid, readEof, polls,
                   guiVars, reapedAny>>

\* What a shell that survived the hangup is sent; mutant: no SIGCONT.
termOnly == {"TERM"}
termSignals == {"TERM", "CONT"}

\* The quick reap, or SIGTERM and SIGCONT.
reap ==
    /\ worker = "reap"
    /\ waitpid
    /\ IF gone
       THEN /\ worker' = "finished" /\ childPid' = FALSE
            /\ UNCHANGED <<pending, stopped, stray>>
       ELSE /\ worker' = "termPoll" /\ kill(termSignals)
            /\ UNCHANGED childPid
    /\ polls' = 0
    /\ UNCHANGED <<obeysTerm, asleep, slept, slaveOpen, masterOpen, readEof, guiVars>>

\* Time the worker spends asleep or busy also passes for the GUI's wait.
guiClock == waited' = IF gui = "waiting" THEN waited + 1 ELSE waited
deadlineAhead == gui = "waiting" => waited < GuiWait

\* Mutant: twice the polls.
pollLonger(limit, next) ==
    \/ /\ polls < 2 * limit /\ gone
       /\ waitpid
       /\ worker' = next
       /\ UNCHANGED <<polls, waited>>
    \/ /\ polls < 2 * limit /\ ~gone /\ ~doomed
       /\ waitpid
       /\ deadlineAhead /\ guiClock
       /\ polls' = polls + 1
       /\ UNCHANGED worker
    \/ /\ polls = 2 * limit
       /\ worker' = next
       /\ UNCHANGED <<child, reapedAny, polls, waited>>

\* One turn of a poll loop of `limit` polls: reaped, slept a tick, or the
\* polls are used up.  A doomed shell does not outlive the tick.
poll(limit, next) ==
    \/ /\ polls < limit /\ gone
       /\ waitpid
       /\ worker' = next
       /\ UNCHANGED <<polls, waited>>
    \/ /\ polls < limit /\ ~gone /\ ~doomed
       /\ waitpid
       /\ deadlineAhead /\ guiClock
       /\ polls' = polls + 1
       /\ UNCHANGED worker
    \/ /\ polls = limit
       /\ worker' = next
       /\ UNCHANGED <<child, reapedAny, polls, waited>>

termPoll ==
    /\ worker = "termPoll"
    /\ poll(TermPolls, "recheck")
    /\ UNCHANGED <<obeysTerm, stopped, asleep, slept, pending, slaveOpen, childPid,
                   masterOpen, readEof, gui, wasBusy, threadVars, stray>>

recheck ==
    /\ worker = "recheck"
    /\ waitpid
    /\ IF gone
       THEN /\ worker' = "finished" /\ childPid' = FALSE
            /\ UNCHANGED <<pending, stopped, stray>>
       ELSE worker' = "killPoll" /\ kill({"KILL"}) /\ UNCHANGED childPid
    /\ polls' = 0
    /\ UNCHANGED <<obeysTerm, asleep, slept, slaveOpen, masterOpen, readEof, guiVars>>

killPoll ==
    /\ worker = "killPoll"
    /\ poll(KillPolls, "finished")
    /\ childPid' = (worker' # "finished")
    /\ UNCHANGED <<obeysTerm, stopped, asleep, slept, pending, slaveOpen, masterOpen,
                   readEof, gui, wasBusy, threadVars, stray>>

\* The GUI's wait goes on while the worker is inside a slot.
BusyTick ==
    /\ worker = "busy" /\ gui = "waiting" /\ deadlineAhead
    /\ guiClock
    /\ UNCHANGED <<childVars, ptyVars, worker, gui, wasBusy, threadVars, stray, reapedAny>>

Child == ChildDies \/ ChildStops \/ ChildSleeps \/ ChildCloses
Closing == WorkerStopped \/ Detach \/ ConnectFinished \/ TestFinished
Ladder == hangup \/ reap \/ termPoll \/ recheck \/ killPoll
Next == \/ Child
        \/ start \/ startFails \/ onReadEof \/ Busy \/ SlotEnds \/ LoopEnds
        \/ Ladder \/ BusyTick
        \/ CloseTab \/ Closing \/ ThreadDeletesItself

(***************************************************************************)
(* Fairness.  Both threads run on, a slot of the worker ends, a quit       *)
(* reaches an event loop that goes on serving slots, and the kernel acts   *)
(* on a signal that is not deferred.                                       *)
(***************************************************************************)
Fairness ==
    /\ WF_vars(start \/ startFails)
    /\ WF_vars(SlotEnds) /\ SF_vars(LoopEnds)
    /\ WF_vars(Ladder)
    /\ WF_vars(doomed /\ ChildDies)
    /\ WF_vars(Closing) /\ WF_vars(ThreadDeletesItself)

Spec == Init /\ [][Next]_vars
FairSpec == Spec /\ Fairness

-----------------------------------------------------------------------------
(* Properties.                                                             *)

\* Only the Pty's own child is waited for, and it is signalled only until it
\* is reaped: its pid may be somebody else's after that, and waitpid(-1)
\* would reap any child of the process (ANTS-1131, ANTS-5026).
OwnChildOnly == ~stray /\ ~reapedAny

\* SIGKILL is for a shell that SIGTERM could not end in time, never for one
\* that was merely stopped (~Pty sends SIGCONT for its sake).
KillIsLastResort == "KILL" \in pending => ~obeysTerm \/ slept

\* No shell is left behind, alive or a zombie, however it and the tab ended,
\* unless an uninterruptible sleep deferred the signals (ANTS-1131).
NoShellLeft ==
    worker = "finished" => child \in {"none", "reaped"} \/ slept

\* The ladder fits in the GUI's wait: a tab close leaves its thread behind
\* only when another slot held the worker up (ANTS-1189, ANTS-5077).
DetachOnlyIfBusy == ~threadOwned => wasBusy

\* Liveness: a tab close completes, and the worker, detached or not, ends and
\* its thread is deleted, whatever the shell does and whenever the worker ends
\* around the timeout of the wait (isFinished() after the connect).
TabCloseReleases == gui = "waiting" ~> (gui = "closed" /\ threadGone)
=============================================================================
