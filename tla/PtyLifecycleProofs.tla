------------------------- MODULE PtyLifecycleProofs -------------------------
(***************************************************************************)
(* The end of a tab, for any number of polls on the two rungs and any wait *)
(* of the GUI thread that is longer than both together: the Pty signals    *)
(* and reaps its own child only, kills as a last resort, leaves no shell   *)
(* behind, and is done before the GUI thread gives up on it.               *)
(*                                                                         *)
(* The invariants below say where the two threads can stand together, what *)
(* m_childPid tells of the child, why a child that is still there after a  *)
(* poll was not doomed, and how much of the GUI's wait each rung has used. *)
(***************************************************************************)
EXTENDS PtyLifecycle, TLAPS

Armed == {"reap", "termPoll", "recheck", "killPoll"}

\* Where the GUI thread can be for each place of the worker.
Together ==
  /\ worker = "new" <=> gui = "starting"
  /\ gui = "open" => worker \in {"loop", "busy"}
  /\ gui \in {"starting", "open", "noShell"} => threadOwned /\ waited = 0

\* m_childPid names a child that is not reaped, until the rungs that poll; a
\* Pty without it has no child left.
PidOwned ==
  /\ worker = "new" => child = "none" /\ ~childPid
  /\ worker \in {"loop", "busy"} => (childPid \/ readEof)
  /\ worker \in Armed => childPid
  /\ (childPid /\ worker \in {"loop", "busy", "hangup", "reap"}) => child \in {"alive", "zombie"}
  /\ ~childPid => child \in {"none", "reaped"} \/ (worker = "finished" /\ slept)

\* What has been sent to a child that is alive on each rung, and what it says
\* of a child that outlived a poll.
Sent ==
  /\ asleep => slept
  /\ (worker = "termPoll" /\ child = "alive") => "TERM" \in pending /\ ~stopped
  /\ (worker = "termPoll" /\ polls > 0) => ~obeysTerm \/ slept
  /\ (worker = "recheck" /\ child = "alive") => ~obeysTerm \/ slept
  /\ (worker = "killPoll" /\ child = "alive") => "KILL" \in pending
  /\ (worker = "killPoll" /\ polls > 0) => slept
  /\ worker = "termPoll" => polls <= TermPolls
  /\ worker = "killPoll" => polls <= KillPolls

\* How much of the GUI's wait the worker has used, unless a slot held it up.
WaitUsed ==
  (gui = "waiting" /\ ~wasBusy) =>
    /\ worker # "busy"
    /\ worker \in {"loop", "hangup", "reap"} => waited = 0
    /\ worker = "termPoll" => waited <= polls
    /\ worker = "recheck" => waited <= TermPolls
    /\ worker = "killPoll" => waited <= TermPolls + polls

\* The type invariant's three kinds of state, for the proofs' sake.
FlagsOK ==
  /\ obeysTerm \in BOOLEAN /\ stopped \in BOOLEAN /\ asleep \in BOOLEAN
  /\ slept \in BOOLEAN /\ slaveOpen \in BOOLEAN /\ childPid \in BOOLEAN
  /\ masterOpen \in BOOLEAN /\ readEof \in BOOLEAN /\ wasBusy \in BOOLEAN
  /\ threadOwned \in BOOLEAN /\ deletePosted \in BOOLEAN /\ threadGone \in BOOLEAN
  /\ stray \in BOOLEAN /\ reapedAny \in BOOLEAN
PlacesOK ==
  /\ child \in {"none", "alive", "zombie", "reaped"}
  /\ pending \subseteq {"HUP", "TERM", "KILL"}
  /\ worker \in {"new", "loop", "busy", "hangup", "reap", "termPoll",
                 "recheck", "killPoll", "finished"}
  /\ gui \in {"starting", "open", "noShell", "waiting", "unparented", "connected",
              "closed"}
MaxPolls == IF TermPolls > KillPolls THEN TermPolls ELSE KillPolls
ClocksOK == polls \in 0..MaxPolls /\ waited \in 0..GuiWait

LInv ==
  /\ TypeOK /\ Together /\ PidOwned /\ Sent /\ WaitUsed
  /\ OwnChildOnly /\ KillIsLastResort /\ NoShellLeft /\ DetachOnlyIfBusy

-----------------------------------------------------------------------------
\* TypeOK in three parts.
LEMMA TypeParts == TypeOK <=> FlagsOK /\ PlacesOK /\ ClocksOK
BY DEF TypeOK, FlagsOK, PlacesOK, ClocksOK, MaxPolls

\* Before the shell is started.
LEMMA LInit == Init => LInv
<1> SUFFICES ASSUME Init PROVE LInv
  OBVIOUS
<1>1. TypeOK
  <2>1. FlagsOK
    BY Zenon DEF Init, FlagsOK
  <2>2. PlacesOK /\ ClocksOK
    BY LadderAssumption DEF Init, PlacesOK, ClocksOK, MaxPolls
  <2> QED
    BY <2>1, <2>2, TypeParts
<1>2. Together /\ PidOwned /\ Sent /\ WaitUsed
  BY DEF Init, Together, PidOwned, Sent, WaitUsed, Armed
<1>3. OwnChildOnly /\ KillIsLastResort /\ NoShellLeft /\ DetachOnlyIfBusy
  BY DEF Init, OwnChildOnly, KillIsLastResort, NoShellLeft, DetachOnlyIfBusy
<1> QED
  BY <1>1, <1>2, <1>3 DEF LInv

\* The child ends, stops, sleeps or closes its terminal: nothing of the Pty's moves.
LEMMA ChildDiesKeeps == LInv /\ ChildDies => LInv'
<1> SUFFICES ASSUME LInv, ChildDies PROVE LInv'
  OBVIOUS
<1> USE LadderAssumption DEF LInv, ChildDies, doomed, childVars, ptyVars, guiVars, threadVars
<1>1. TypeOK'
  <2>1. FlagsOK'
    <3>1. slaveOpen' \in BOOLEAN
      BY TypeParts DEF FlagsOK
    <3>2. UNCHANGED <<obeysTerm, stopped, asleep, slept, childPid, masterOpen, readEof,
                      wasBusy, threadOwned, deletePosted, threadGone, stray, reapedAny>>
      OBVIOUS
    <3> QED
      BY <3>1, <3>2, TypeParts, Zenon DEF FlagsOK
  <2>2. PlacesOK'
    BY TypeParts DEF PlacesOK
  <2>3. ClocksOK'
    BY TypeParts DEF ClocksOK, MaxPolls, Sent
  <2> QED
    BY <2>1, <2>2, <2>3, TypeParts DEF TypeOK, FlagsOK, PlacesOK, ClocksOK, MaxPolls
<1>2. Together'
  BY DEF TypeOK, Together
<1>3. PidOwned'
  BY DEF TypeOK, Together, PidOwned, Sent, Armed
<1>4. Sent'
  BY DEF TypeOK, Together, PidOwned, Sent, Armed
<1>5. WaitUsed'
  BY DEF TypeOK, Together, Sent, WaitUsed
<1>6. OwnChildOnly' /\ KillIsLastResort'
  BY DEF TypeOK, PidOwned, Sent, Armed, OwnChildOnly, KillIsLastResort
<1>7. NoShellLeft' /\ DetachOnlyIfBusy'
  BY DEF TypeOK, Together, PidOwned, Sent, WaitUsed, Armed, NoShellLeft, DetachOnlyIfBusy
<1> QED
  BY <1>1, <1>2, <1>3, <1>4, <1>5, <1>6, <1>7

\* The shell is stopped.
LEMMA ChildStopsKeeps == LInv /\ ChildStops => LInv'
<1> SUFFICES ASSUME LInv, ChildStops PROVE LInv'
  OBVIOUS
<1> USE LadderAssumption DEF LInv, ChildStops, childVars, ptyVars, guiVars, threadVars
<1>1. TypeOK'
  BY DEF TypeOK, Sent
<1>2. Together'
  BY DEF TypeOK, Together
<1>3. PidOwned'
  BY DEF TypeOK, Together, PidOwned, Sent, Armed
<1>4. Sent'
  BY DEF TypeOK, Together, PidOwned, Sent, Armed
<1>5. WaitUsed'
  BY DEF TypeOK, Together, Sent, WaitUsed
<1>6. OwnChildOnly' /\ KillIsLastResort'
  BY DEF TypeOK, PidOwned, Sent, Armed, OwnChildOnly, KillIsLastResort
<1>7. NoShellLeft' /\ DetachOnlyIfBusy'
  BY DEF TypeOK, Together, PidOwned, Sent, WaitUsed, Armed, NoShellLeft, DetachOnlyIfBusy
<1> QED
  BY <1>1, <1>2, <1>3, <1>4, <1>5, <1>6, <1>7

\* The shell enters an uninterruptible sleep.
LEMMA ChildSleepsKeeps == LInv /\ ChildSleeps => LInv'
<1> SUFFICES ASSUME LInv, ChildSleeps PROVE LInv'
  OBVIOUS
<1> USE LadderAssumption DEF LInv, ChildSleeps, doomed, childVars, ptyVars, guiVars, threadVars
<1>1. TypeOK'
  BY DEF TypeOK, Sent
<1>2. Together'
  BY DEF TypeOK, Together
<1>3. PidOwned'
  BY DEF TypeOK, Together, PidOwned, Sent, Armed
<1>4. Sent'
  BY DEF TypeOK, Together, PidOwned, Sent, Armed
<1>5. WaitUsed'
  BY DEF TypeOK, Together, Sent, WaitUsed
<1>6. OwnChildOnly' /\ KillIsLastResort'
  BY DEF TypeOK, PidOwned, Sent, Armed, OwnChildOnly, KillIsLastResort
<1>7. NoShellLeft' /\ DetachOnlyIfBusy'
  BY DEF TypeOK, Together, PidOwned, Sent, WaitUsed, Armed, NoShellLeft, DetachOnlyIfBusy
<1> QED
  BY <1>1, <1>2, <1>3, <1>4, <1>5, <1>6, <1>7

\* The shell closes its side and lives on.
LEMMA ChildClosesKeeps == LInv /\ ChildCloses => LInv'
<1> SUFFICES ASSUME LInv, ChildCloses PROVE LInv'
  OBVIOUS
<1> USE LadderAssumption DEF LInv, ChildCloses, childVars, ptyVars, guiVars, threadVars
<1>1. TypeOK'
  <2>1. FlagsOK'
    BY TypeParts, Zenon DEF FlagsOK
  <2>2. PlacesOK'
    BY TypeParts DEF PlacesOK
  <2>3. ClocksOK'
    BY TypeParts DEF ClocksOK, MaxPolls, Sent
  <2> QED
    BY <2>1, <2>2, <2>3, TypeParts DEF TypeOK, FlagsOK, PlacesOK, ClocksOK, MaxPolls
<1>2. Together'
  BY DEF TypeOK, Together
<1>3. PidOwned'
  BY DEF TypeOK, Together, PidOwned, Sent, Armed
<1>4. Sent'
  BY DEF TypeOK, Together, PidOwned, Sent, Armed
<1>5. WaitUsed'
  BY DEF TypeOK, Together, Sent, WaitUsed
<1>6. OwnChildOnly' /\ KillIsLastResort'
  BY DEF TypeOK, PidOwned, Sent, Armed, OwnChildOnly, KillIsLastResort
<1>7. NoShellLeft' /\ DetachOnlyIfBusy'
  BY DEF TypeOK, Together, PidOwned, Sent, WaitUsed, Armed, NoShellLeft, DetachOnlyIfBusy
<1> QED
  BY <1>1, <1>2, <1>3, <1>4, <1>5, <1>6, <1>7

\* Pty::start succeeds.
LEMMA StartKeeps == LInv /\ start => LInv'
<1> SUFFICES ASSUME LInv, start PROVE LInv'
  OBVIOUS
<1> USE LadderAssumption DEF LInv, start, childVars, ptyVars, guiVars, threadVars
<1>1. TypeOK'
  BY DEF TypeOK, Sent
<1>2. Together'
  BY DEF TypeOK, Together
<1>3. PidOwned'
  BY DEF TypeOK, Together, PidOwned, Sent, Armed
<1>4. Sent'
  BY DEF TypeOK, Together, PidOwned, Sent, Armed
<1>5. WaitUsed'
  BY DEF TypeOK, Together, Sent, WaitUsed
<1>6. OwnChildOnly' /\ KillIsLastResort'
  BY DEF TypeOK, PidOwned, Sent, Armed, OwnChildOnly, KillIsLastResort
<1>7. NoShellLeft' /\ DetachOnlyIfBusy'
  BY DEF TypeOK, Together, PidOwned, Sent, WaitUsed, Armed, NoShellLeft, DetachOnlyIfBusy
<1> QED
  BY <1>1, <1>2, <1>3, <1>4, <1>5, <1>6, <1>7

\* Pty::start fails.
LEMMA StartFailsKeeps == LInv /\ startFails => LInv'
<1> SUFFICES ASSUME LInv, startFails PROVE LInv'
  OBVIOUS
<1> USE LadderAssumption DEF LInv, startFails, childVars, ptyVars, guiVars, threadVars
<1>1. TypeOK'
  <2>1. FlagsOK'
    <3>1. childPid' \in BOOLEAN /\ slaveOpen' \in BOOLEAN
      BY TypeParts DEF FlagsOK
    <3>2. UNCHANGED <<obeysTerm, stopped, asleep, slept>>
      OBVIOUS
    <3> QED
      BY <3>1, <3>2, TypeParts, Zenon DEF FlagsOK
  <2>2. PlacesOK'
    BY TypeParts DEF PlacesOK
  <2>3. ClocksOK'
    BY TypeParts DEF ClocksOK, MaxPolls, Sent
  <2> QED
    BY <2>1, <2>2, <2>3, TypeParts DEF TypeOK, FlagsOK, PlacesOK, ClocksOK, MaxPolls
<1>2. Together'
  BY DEF TypeOK, Together
<1>3. PidOwned'
  <2>1. worker' = "hangup" /\ child = "none"
    BY DEF PidOwned
  <2>2. CASE UNCHANGED <<childVars, childPid>>
    <3>1. child' = child /\ childPid' = childPid
      BY <2>2
    <3>2. ~childPid
      BY DEF PidOwned
    <3> QED
      BY <2>1, <3>1, <3>2 DEF PidOwned, Armed
  <2>3. CASE child' = "alive" /\ childPid' = TRUE
    BY <2>1, <2>3 DEF PidOwned, Armed
  <2> QED
    BY <2>2, <2>3
<1>4. Sent'
  <2>1. worker' = "hangup" /\ UNCHANGED <<asleep, slept>>
    OBVIOUS
  <2> QED
    BY <2>1 DEF Sent
<1>5. WaitUsed'
  BY DEF TypeOK, Together, Sent, WaitUsed
<1>6. OwnChildOnly' /\ KillIsLastResort'
  BY DEF TypeOK, PidOwned, Sent, Armed, OwnChildOnly, KillIsLastResort
<1>7. NoShellLeft' /\ DetachOnlyIfBusy'
  BY DEF TypeOK, Together, PidOwned, Sent, WaitUsed, Armed, NoShellLeft, DetachOnlyIfBusy
<1> QED
  BY <1>1, <1>2, <1>3, <1>4, <1>5, <1>6, <1>7

\* The EOF handler reaps the shell if it can.
LEMMA OnReadEofKeeps == LInv /\ onReadEof => LInv'
<1> SUFFICES ASSUME LInv, onReadEof PROVE LInv'
  OBVIOUS
<1> USE LadderAssumption DEF LInv, onReadEof, waitpid, keepsPid, childVars, ptyVars, guiVars, threadVars
<1>1. TypeOK'
  BY DEF TypeOK, Sent
<1>2. Together'
  BY DEF TypeOK, Together
<1>3. PidOwned'
  BY DEF TypeOK, Together, PidOwned, Sent, Armed
<1>4. Sent'
  BY DEF TypeOK, Together, PidOwned, Sent, Armed
<1>5. WaitUsed'
  BY DEF TypeOK, Together, Sent, WaitUsed
<1>6. OwnChildOnly' /\ KillIsLastResort'
  BY DEF TypeOK, PidOwned, Sent, Armed, OwnChildOnly, KillIsLastResort
<1>7. NoShellLeft' /\ DetachOnlyIfBusy'
  BY DEF TypeOK, Together, PidOwned, Sent, WaitUsed, Armed, NoShellLeft, DetachOnlyIfBusy
<1> QED
  BY <1>1, <1>2, <1>3, <1>4, <1>5, <1>6, <1>7

\* The worker enters a slot.
LEMMA BusyKeeps == LInv /\ Busy => LInv'
<1> SUFFICES ASSUME LInv, Busy PROVE LInv'
  OBVIOUS
<1> USE LadderAssumption DEF LInv, Busy, childVars, ptyVars, guiVars, threadVars
<1>1. TypeOK'
  BY DEF TypeOK, Sent
<1>2. Together'
  BY DEF TypeOK, Together
<1>3. PidOwned'
  BY DEF TypeOK, Together, PidOwned, Sent, Armed
<1>4. Sent'
  BY DEF TypeOK, Together, PidOwned, Sent, Armed
<1>5. WaitUsed'
  BY DEF TypeOK, Together, Sent, WaitUsed
<1>6. OwnChildOnly' /\ KillIsLastResort'
  BY DEF TypeOK, PidOwned, Sent, Armed, OwnChildOnly, KillIsLastResort
<1>7. NoShellLeft' /\ DetachOnlyIfBusy'
  BY DEF TypeOK, Together, PidOwned, Sent, WaitUsed, Armed, NoShellLeft, DetachOnlyIfBusy
<1> QED
  BY <1>1, <1>2, <1>3, <1>4, <1>5, <1>6, <1>7

\* The slot ends.
LEMMA SlotEndsKeeps == LInv /\ SlotEnds => LInv'
<1> SUFFICES ASSUME LInv, SlotEnds PROVE LInv'
  OBVIOUS
<1> USE LadderAssumption DEF LInv, SlotEnds, childVars, ptyVars, guiVars, threadVars
<1>1. TypeOK'
  BY DEF TypeOK, Sent
<1>2. Together'
  BY DEF TypeOK, Together
<1>3. PidOwned'
  BY DEF TypeOK, Together, PidOwned, Sent, Armed
<1>4. Sent'
  BY DEF TypeOK, Together, PidOwned, Sent, Armed
<1>5. WaitUsed'
  BY DEF TypeOK, Together, Sent, WaitUsed
<1>6. OwnChildOnly' /\ KillIsLastResort'
  BY DEF TypeOK, PidOwned, Sent, Armed, OwnChildOnly, KillIsLastResort
<1>7. NoShellLeft' /\ DetachOnlyIfBusy'
  BY DEF TypeOK, Together, PidOwned, Sent, WaitUsed, Armed, NoShellLeft, DetachOnlyIfBusy
<1> QED
  BY <1>1, <1>2, <1>3, <1>4, <1>5, <1>6, <1>7

\* ~TerminalWidget quits the worker and begins to wait.
LEMMA CloseTabKeeps == LInv /\ CloseTab => LInv'
<1> SUFFICES ASSUME LInv, CloseTab PROVE LInv'
  OBVIOUS
<1> USE LadderAssumption DEF LInv, CloseTab, childVars, ptyVars, guiVars, threadVars
<1>1. TypeOK'
  BY DEF TypeOK, Sent
<1>2. Together'
  BY DEF TypeOK, Together
<1>3. PidOwned'
  BY DEF TypeOK, Together, PidOwned, Sent, Armed
<1>4. Sent'
  BY DEF TypeOK, Together, PidOwned, Sent, Armed
<1>5. WaitUsed'
  BY DEF TypeOK, Together, Sent, WaitUsed
<1>6. OwnChildOnly' /\ KillIsLastResort'
  BY DEF TypeOK, PidOwned, Sent, Armed, OwnChildOnly, KillIsLastResort
<1>7. NoShellLeft' /\ DetachOnlyIfBusy'
  BY DEF TypeOK, Together, PidOwned, Sent, WaitUsed, Armed, NoShellLeft, DetachOnlyIfBusy
<1> QED
  BY <1>1, <1>2, <1>3, <1>4, <1>5, <1>6, <1>7

\* The wait of ~TerminalWidget succeeds.
LEMMA WorkerStoppedKeeps == LInv /\ WorkerStopped => LInv'
<1> SUFFICES ASSUME LInv, WorkerStopped PROVE LInv'
  OBVIOUS
<1> USE LadderAssumption DEF LInv, WorkerStopped, childVars, ptyVars, guiVars, threadVars
<1>1. TypeOK'
  BY DEF TypeOK, Sent
<1>2. Together'
  BY DEF TypeOK, Together
<1>3. PidOwned'
  BY DEF TypeOK, Together, PidOwned, Sent, Armed
<1>4. Sent'
  BY DEF TypeOK, Together, PidOwned, Sent, Armed
<1>5. WaitUsed'
  BY DEF TypeOK, Together, Sent, WaitUsed
<1>6. OwnChildOnly' /\ KillIsLastResort'
  BY DEF TypeOK, PidOwned, Sent, Armed, OwnChildOnly, KillIsLastResort
<1>7. NoShellLeft' /\ DetachOnlyIfBusy'
  BY DEF TypeOK, Together, PidOwned, Sent, WaitUsed, Armed, NoShellLeft, DetachOnlyIfBusy
<1> QED
  BY <1>1, <1>2, <1>3, <1>4, <1>5, <1>6, <1>7

\* The wait times out: the ladder alone cannot use it up.
LEMMA DetachKeeps == LInv /\ Detach => LInv'
<1> SUFFICES ASSUME LInv, Detach PROVE LInv'
  OBVIOUS
<1> USE LadderAssumption DEF LInv, Detach, childVars, ptyVars, guiVars, threadVars
<1>1. TypeOK'
  <2>1. FlagsOK'
    BY TypeParts, Zenon DEF FlagsOK
  <2>2. PlacesOK'
    BY TypeParts DEF PlacesOK
  <2>3. ClocksOK'
    BY TypeParts DEF ClocksOK, MaxPolls, Sent
  <2> QED
    BY <2>1, <2>2, <2>3, TypeParts DEF TypeOK, FlagsOK, PlacesOK, ClocksOK, MaxPolls
<1>2. Together'
  BY DEF TypeOK, Together
<1>3. PidOwned'
  BY DEF TypeOK, Together, PidOwned, Sent, Armed
<1>4. Sent'
  BY DEF TypeOK, Together, PidOwned, Sent, Armed
<1>5. WaitUsed'
  BY DEF TypeOK, Together, Sent, WaitUsed
<1>6. OwnChildOnly' /\ KillIsLastResort'
  BY DEF TypeOK, PidOwned, Sent, Armed, OwnChildOnly, KillIsLastResort
<1>7. NoShellLeft' /\ DetachOnlyIfBusy'
  BY DEF TypeOK, Together, PidOwned, Sent, WaitUsed, Armed, NoShellLeft, DetachOnlyIfBusy
<1> QED
  BY <1>1, <1>2, <1>3, <1>4, <1>5, <1>6, <1>7

\* finished() is connected to deleteLater.
LEMMA ConnectFinishedKeeps == LInv /\ ConnectFinished => LInv'
<1> SUFFICES ASSUME LInv, ConnectFinished PROVE LInv'
  OBVIOUS
<1> USE LadderAssumption DEF LInv, ConnectFinished, childVars, ptyVars, guiVars, threadVars
<1>1. TypeOK'
  <2>1. FlagsOK'
    BY TypeParts DEF FlagsOK
  <2>2. PlacesOK'
    BY TypeParts DEF PlacesOK
  <2>3. ClocksOK'
    BY TypeParts DEF ClocksOK, MaxPolls, Sent
  <2> QED
    BY <2>1, <2>2, <2>3, TypeParts DEF TypeOK, FlagsOK, PlacesOK, ClocksOK, MaxPolls
<1>2. Together'
  BY DEF TypeOK, Together
<1>3. PidOwned'
  BY DEF TypeOK, Together, PidOwned, Sent, Armed
<1>4. Sent'
  BY DEF TypeOK, Together, PidOwned, Sent, Armed
<1>5. WaitUsed'
  BY DEF TypeOK, Together, Sent, WaitUsed
<1>6. OwnChildOnly' /\ KillIsLastResort'
  BY DEF TypeOK, PidOwned, Sent, Armed, OwnChildOnly, KillIsLastResort
<1>7. NoShellLeft' /\ DetachOnlyIfBusy'
  BY DEF TypeOK, Together, PidOwned, Sent, WaitUsed, Armed, NoShellLeft, DetachOnlyIfBusy
<1> QED
  BY <1>1, <1>2, <1>3, <1>4, <1>5, <1>6, <1>7

\* The last look at a detached thread.
LEMMA TestFinishedKeeps == LInv /\ TestFinished => LInv'
<1> SUFFICES ASSUME LInv, TestFinished PROVE LInv'
  OBVIOUS
<1> USE LadderAssumption DEF LInv, TestFinished, isFinished, childVars, ptyVars, guiVars, threadVars
<1>1. TypeOK'
  <2>1. FlagsOK'
    BY TypeParts, Zenon DEF FlagsOK
  <2>2. PlacesOK'
    BY TypeParts DEF PlacesOK
  <2>3. ClocksOK'
    BY TypeParts DEF ClocksOK, MaxPolls, Sent
  <2> QED
    BY <2>1, <2>2, <2>3, TypeParts DEF TypeOK, FlagsOK, PlacesOK, ClocksOK, MaxPolls
<1>2. Together'
  BY DEF TypeOK, Together
<1>3. PidOwned'
  BY DEF TypeOK, Together, PidOwned, Sent, Armed
<1>4. Sent'
  BY DEF TypeOK, Together, PidOwned, Sent, Armed
<1>5. WaitUsed'
  BY DEF TypeOK, Together, Sent, WaitUsed
<1>6. OwnChildOnly' /\ KillIsLastResort'
  BY DEF TypeOK, PidOwned, Sent, Armed, OwnChildOnly, KillIsLastResort
<1>7. NoShellLeft' /\ DetachOnlyIfBusy'
  BY DEF TypeOK, Together, PidOwned, Sent, WaitUsed, Armed, NoShellLeft, DetachOnlyIfBusy
<1> QED
  BY <1>1, <1>2, <1>3, <1>4, <1>5, <1>6, <1>7

\* A detached thread ends.
LEMMA ThreadDeletesItselfKeeps == LInv /\ ThreadDeletesItself => LInv'
<1> SUFFICES ASSUME LInv, ThreadDeletesItself PROVE LInv'
  OBVIOUS
<1> USE LadderAssumption DEF LInv, ThreadDeletesItself, childVars, ptyVars, guiVars, threadVars
<1>1. TypeOK'
  BY DEF TypeOK, Sent
<1>2. Together'
  BY DEF TypeOK, Together
<1>3. PidOwned'
  BY DEF TypeOK, Together, PidOwned, Sent, Armed
<1>4. Sent'
  BY DEF TypeOK, Together, PidOwned, Sent, Armed
<1>5. WaitUsed'
  BY DEF TypeOK, Together, Sent, WaitUsed
<1>6. OwnChildOnly' /\ KillIsLastResort'
  BY DEF TypeOK, PidOwned, Sent, Armed, OwnChildOnly, KillIsLastResort
<1>7. NoShellLeft' /\ DetachOnlyIfBusy'
  BY DEF TypeOK, Together, PidOwned, Sent, WaitUsed, Armed, NoShellLeft, DetachOnlyIfBusy
<1> QED
  BY <1>1, <1>2, <1>3, <1>4, <1>5, <1>6, <1>7

\* The worker's event loop ends and ~Pty begins.
LEMMA LoopEndsKeeps == LInv /\ LoopEnds => LInv'
<1> SUFFICES ASSUME LInv, LoopEnds PROVE LInv'
  OBVIOUS
<1> USE LadderAssumption DEF LInv, LoopEnds, childVars, ptyVars, guiVars, threadVars
<1>1. TypeOK'
  BY DEF TypeOK, Sent
<1>2. Together'
  BY DEF TypeOK, Together
<1>3. PidOwned'
  BY DEF TypeOK, Together, PidOwned, Sent, Armed
<1>4. Sent'
  BY DEF TypeOK, Together, PidOwned, Sent, Armed
<1>5. WaitUsed'
  BY DEF TypeOK, Together, Sent, WaitUsed
<1>6. OwnChildOnly' /\ KillIsLastResort'
  BY DEF TypeOK, PidOwned, Sent, Armed, OwnChildOnly, KillIsLastResort
<1>7. NoShellLeft' /\ DetachOnlyIfBusy'
  BY DEF TypeOK, Together, PidOwned, Sent, WaitUsed, Armed, NoShellLeft, DetachOnlyIfBusy
<1> QED
  BY <1>1, <1>2, <1>3, <1>4, <1>5, <1>6, <1>7

\* ~Pty sends SIGHUP and closes the master.
LEMMA HangupKeeps == LInv /\ hangup => LInv'
<1> SUFFICES ASSUME LInv, hangup PROVE LInv'
  OBVIOUS
<1> USE LadderAssumption DEF LInv, hangup, kill, childVars, ptyVars, guiVars, threadVars
<1>1. TypeOK'
  <2>1. FlagsOK'
    BY TypeParts, Zenon DEF FlagsOK
  <2>2. PlacesOK'
    BY TypeParts DEF PlacesOK
  <2>3. ClocksOK'
    BY TypeParts DEF ClocksOK, MaxPolls, Sent
  <2> QED
    BY <2>1, <2>2, <2>3, TypeParts DEF TypeOK, FlagsOK, PlacesOK, ClocksOK, MaxPolls
<1>2. Together'
  BY DEF TypeOK, Together
<1>3. PidOwned'
  BY DEF TypeOK, Together, PidOwned, Sent, Armed
<1>4. Sent'
  BY DEF TypeOK, Together, PidOwned, Sent, Armed
<1>5. WaitUsed'
  BY DEF TypeOK, Together, Sent, WaitUsed
<1>6. OwnChildOnly' /\ KillIsLastResort'
  BY DEF TypeOK, PidOwned, Sent, Armed, OwnChildOnly, KillIsLastResort
<1>7. NoShellLeft' /\ DetachOnlyIfBusy'
  BY DEF TypeOK, Together, PidOwned, Sent, WaitUsed, Armed, NoShellLeft, DetachOnlyIfBusy
<1> QED
  BY <1>1, <1>2, <1>3, <1>4, <1>5, <1>6, <1>7

\* The first waitpid of ~Pty, then SIGTERM.
LEMMA ReapKeeps == LInv /\ reap => LInv'
<1> SUFFICES ASSUME LInv, reap PROVE LInv'
  OBVIOUS
<1> USE LadderAssumption DEF LInv, reap, waitpid, gone, kill, termSignals, childVars, ptyVars, guiVars, threadVars
<1>1. TypeOK'
  <2>1. FlagsOK'
    BY TypeParts, Zenon DEF FlagsOK
  <2>2. PlacesOK'
    BY TypeParts DEF PlacesOK
  <2>3. ClocksOK'
    BY TypeParts DEF ClocksOK, MaxPolls, Sent
  <2> QED
    BY <2>1, <2>2, <2>3, TypeParts DEF TypeOK, FlagsOK, PlacesOK, ClocksOK, MaxPolls
<1>2. Together'
  BY DEF TypeOK, Together
<1>3. PidOwned'
  BY DEF TypeOK, Together, PidOwned, Sent, Armed
<1>4. Sent'
  <2>1. polls' = 0 /\ UNCHANGED <<asleep, slept>>
    OBVIOUS
  <2>2. CASE child # "alive"
    <3>1. worker' = "finished"
      BY <2>2
    <3> QED
      BY <2>1, <3>1 DEF Sent
  <2>3. CASE child = "alive"
    <3>1. worker' = "termPoll" /\ "TERM" \in pending' /\ ~stopped'
      BY <2>3
    <3> QED
      BY <2>1, <3>1 DEF Sent
  <2> QED
    BY <2>2, <2>3
<1>5. WaitUsed'
  BY DEF TypeOK, Together, Sent, WaitUsed
<1>6. OwnChildOnly' /\ KillIsLastResort'
  <2>1. child # "reaped" /\ childPid
    BY DEF PidOwned, Armed, TypeOK
  <2>2. OwnChildOnly'
    BY <2>1 DEF OwnChildOnly
  <2>3. KillIsLastResort'
    BY DEF KillIsLastResort
  <2> QED
    BY <2>2, <2>3
<1>7. NoShellLeft' /\ DetachOnlyIfBusy'
  BY DEF TypeOK, Together, PidOwned, Sent, WaitUsed, Armed, NoShellLeft, DetachOnlyIfBusy
<1> QED
  BY <1>1, <1>2, <1>3, <1>4, <1>5, <1>6, <1>7

\* A poll after SIGTERM.
LEMMA TermPollKeeps == LInv /\ termPoll => LInv'
<1> SUFFICES ASSUME LInv, termPoll PROVE LInv'
  OBVIOUS
<1> USE LadderAssumption DEF LInv, termPoll, poll, waitpid, gone, doomed, guiClock, deadlineAhead, childVars, ptyVars, guiVars, threadVars
<1>1. TypeOK'
  <2>1. FlagsOK'
    <3>1. reapedAny' = reapedAny \/ reapedAny' = (reapedAny \/ ~childPid)
      OBVIOUS
    <3>2. reapedAny' \in BOOLEAN
      BY <3>1, TypeParts, Zenon DEF FlagsOK
    <3> QED
      BY <3>2, TypeParts, Zenon DEF FlagsOK
  <2>2. PlacesOK'
    BY TypeParts DEF PlacesOK
  <2>3. ClocksOK'
    BY TypeParts DEF ClocksOK, MaxPolls, Sent
  <2> QED
    BY <2>1, <2>2, <2>3, TypeParts DEF TypeOK, FlagsOK, PlacesOK, ClocksOK, MaxPolls
<1>2. Together'
  BY DEF TypeOK, Together
<1>3. PidOwned'
  BY DEF TypeOK, Together, PidOwned, Sent, Armed
<1>4. Sent'
  BY DEF TypeOK, Together, PidOwned, Sent, Armed
<1>5. WaitUsed'
  BY DEF TypeOK, Together, Sent, WaitUsed
<1>6. OwnChildOnly' /\ KillIsLastResort'
  BY DEF TypeOK, PidOwned, Sent, Armed, OwnChildOnly, KillIsLastResort
<1>7. NoShellLeft' /\ DetachOnlyIfBusy'
  BY DEF TypeOK, Together, PidOwned, Sent, WaitUsed, Armed, NoShellLeft, DetachOnlyIfBusy
<1> QED
  BY <1>1, <1>2, <1>3, <1>4, <1>5, <1>6, <1>7

\* The last look before SIGKILL.
LEMMA RecheckKeeps == LInv /\ recheck => LInv'
<1> SUFFICES ASSUME LInv, recheck PROVE LInv'
  OBVIOUS
<1> USE LadderAssumption DEF LInv, recheck, waitpid, gone, kill, childVars, ptyVars, guiVars, threadVars
<1>1. TypeOK'
  <2>1. FlagsOK'
    BY TypeParts, Zenon DEF FlagsOK
  <2>2. PlacesOK'
    BY TypeParts DEF PlacesOK
  <2>3. ClocksOK'
    BY TypeParts DEF ClocksOK, MaxPolls, Sent
  <2> QED
    BY <2>1, <2>2, <2>3, TypeParts DEF TypeOK, FlagsOK, PlacesOK, ClocksOK, MaxPolls
<1>2. Together'
  BY DEF TypeOK, Together
<1>3. PidOwned'
  BY DEF TypeOK, Together, PidOwned, Sent, Armed
<1>4. Sent'
  <2>1. polls' = 0 /\ UNCHANGED <<asleep, slept>>
    OBVIOUS
  <2>2. CASE child # "alive"
    <3>1. worker' = "finished"
      BY <2>2
    <3> QED
      BY <2>1, <3>1 DEF Sent
  <2>3. CASE child = "alive"
    <3>1. worker' = "killPoll" /\ "KILL" \in pending'
      BY <2>3
    <3> QED
      BY <2>1, <3>1 DEF Sent
  <2> QED
    BY <2>2, <2>3
<1>5. WaitUsed'
  BY DEF TypeOK, Together, Sent, WaitUsed
<1>6. OwnChildOnly' /\ KillIsLastResort'
  BY DEF TypeOK, PidOwned, Sent, Armed, OwnChildOnly, KillIsLastResort
<1>7. NoShellLeft' /\ DetachOnlyIfBusy'
  BY DEF TypeOK, Together, PidOwned, Sent, WaitUsed, Armed, NoShellLeft, DetachOnlyIfBusy
<1> QED
  BY <1>1, <1>2, <1>3, <1>4, <1>5, <1>6, <1>7

\* A poll after SIGKILL.
LEMMA KillPollKeeps == LInv /\ killPoll => LInv'
<1> SUFFICES ASSUME LInv, killPoll PROVE LInv'
  OBVIOUS
<1> USE LadderAssumption DEF LInv, killPoll, poll, waitpid, gone, doomed, guiClock, deadlineAhead, childVars, ptyVars, guiVars, threadVars
<1>1. TypeOK'
  <2>1. FlagsOK'
    <3>1. reapedAny' = reapedAny \/ reapedAny' = (reapedAny \/ ~childPid)
      OBVIOUS
    <3>2. reapedAny' \in BOOLEAN /\ childPid' \in BOOLEAN
      BY <3>1, TypeParts, Zenon DEF FlagsOK
    <3> QED
      BY <3>2, TypeParts, Zenon DEF FlagsOK
  <2>2. PlacesOK'
    BY TypeParts DEF PlacesOK
  <2>3. ClocksOK'
    BY TypeParts DEF ClocksOK, MaxPolls, Sent
  <2> QED
    BY <2>1, <2>2, <2>3, TypeParts DEF TypeOK, FlagsOK, PlacesOK, ClocksOK, MaxPolls
<1>2. Together'
  BY DEF TypeOK, Together
<1>3. PidOwned'
  BY DEF TypeOK, Together, PidOwned, Sent, Armed
<1>4. Sent'
  BY DEF TypeOK, Together, PidOwned, Sent, Armed
<1>5. WaitUsed'
  BY DEF TypeOK, Together, Sent, WaitUsed
<1>6. OwnChildOnly' /\ KillIsLastResort'
  BY DEF TypeOK, PidOwned, Sent, Armed, OwnChildOnly, KillIsLastResort
<1>7. NoShellLeft' /\ DetachOnlyIfBusy'
  BY DEF TypeOK, Together, PidOwned, Sent, WaitUsed, Armed, NoShellLeft, DetachOnlyIfBusy
<1> QED
  BY <1>1, <1>2, <1>3, <1>4, <1>5, <1>6, <1>7

\* The clock runs while a slot holds the worker up.
LEMMA BusyTickKeeps == LInv /\ BusyTick => LInv'
<1> SUFFICES ASSUME LInv, BusyTick PROVE LInv'
  OBVIOUS
<1> USE LadderAssumption DEF LInv, BusyTick, guiClock, deadlineAhead, childVars, ptyVars, guiVars, threadVars
<1>1. TypeOK'
  BY DEF TypeOK, Sent
<1>2. Together'
  BY DEF TypeOK, Together
<1>3. PidOwned'
  BY DEF TypeOK, Together, PidOwned, Sent, Armed
<1>4. Sent'
  BY DEF TypeOK, Together, PidOwned, Sent, Armed
<1>5. WaitUsed'
  BY DEF TypeOK, Together, Sent, WaitUsed
<1>6. OwnChildOnly' /\ KillIsLastResort'
  BY DEF TypeOK, PidOwned, Sent, Armed, OwnChildOnly, KillIsLastResort
<1>7. NoShellLeft' /\ DetachOnlyIfBusy'
  BY DEF TypeOK, Together, PidOwned, Sent, WaitUsed, Armed, NoShellLeft, DetachOnlyIfBusy
<1> QED
  BY <1>1, <1>2, <1>3, <1>4, <1>5, <1>6, <1>7

-----------------------------------------------------------------------------
\* Every step of shell, worker and GUI keeps the invariant.
LEMMA LStep == LInv /\ [Next]_vars => LInv'
<1> SUFFICES ASSUME LInv, [Next]_vars PROVE LInv'
  OBVIOUS
<1>1. CASE UNCHANGED vars
  <2> USE <1>1 DEF vars, childVars, ptyVars, guiVars, threadVars, LInv
  <2>1. TypeOK' /\ Together' /\ PidOwned' /\ Sent' /\ WaitUsed'
    BY DEF TypeOK, Together, PidOwned, Sent, WaitUsed
  <2>2. OwnChildOnly' /\ KillIsLastResort' /\ NoShellLeft' /\ DetachOnlyIfBusy'
    BY DEF OwnChildOnly, KillIsLastResort, NoShellLeft, DetachOnlyIfBusy
  <2> QED
    BY <2>1, <2>2
<1>2. CASE Child
  BY <1>2, ChildDiesKeeps, ChildStopsKeeps, ChildSleepsKeeps, ChildClosesKeeps DEF Child
<1>3. CASE start \/ startFails \/ onReadEof \/ Busy \/ SlotEnds \/ LoopEnds
  BY <1>3, StartKeeps, StartFailsKeeps, OnReadEofKeeps, BusyKeeps, SlotEndsKeeps, LoopEndsKeeps
<1>4. CASE Ladder \/ BusyTick
  BY <1>4, HangupKeeps, ReapKeeps, TermPollKeeps, RecheckKeeps, KillPollKeeps,
     BusyTickKeeps DEF Ladder
<1>5. CASE CloseTab \/ Closing \/ ThreadDeletesItself
  BY <1>5, CloseTabKeeps, WorkerStoppedKeeps, DetachKeeps, ConnectFinishedKeeps,
     TestFinishedKeeps, ThreadDeletesItselfKeeps DEF Closing
<1> QED
  BY <1>1, <1>2, <1>3, <1>4, <1>5 DEF Next

\* The inductive invariant holds in every reachable state.
THEOREM LifecycleInvariant == Spec => []LInv
BY LInit, LStep, PTL DEF Spec

\* Every variable keeps its type.
THEOREM LifecycleTypeCorrect == Spec => []TypeOK
<1>1. LInv => TypeOK
  BY DEF LInv
<1> QED
  BY <1>1, LifecycleInvariant, PTL

\* ~Pty and the reap at EOF signal and wait for their own child only, and
\* never again once it is reaped.
THEOREM SignalsOwnChild == Spec => []OwnChildOnly
<1>1. LInv => OwnChildOnly
  BY DEF LInv
<1> QED
  BY <1>1, LifecycleInvariant, PTL

\* A shell that obeys SIGTERM and was never in an uninterruptible sleep is
\* not killed, stopped or not, however few polls it is given.
THEOREM KillsLast == Spec => []KillIsLastResort
<1>1. LInv => KillIsLastResort
  BY DEF LInv
<1> QED
  BY <1>1, LifecycleInvariant, PTL

\* When the worker is done the shell is reaped, or an uninterruptible sleep
\* was in the way.
THEOREM LeavesNoShell == Spec => []NoShellLeft
<1>1. LInv => NoShellLeft
  BY DEF LInv
<1> QED
  BY <1>1, LifecycleInvariant, PTL

\* For every wait longer than the two rungs together, ~TerminalWidget detaches
\* the worker's thread only if a slot held it up.
THEOREM DetachesOnlyBusyWorker == Spec => []DetachOnlyIfBusy
<1>1. LInv => DetachOnlyIfBusy
  BY DEF LInv
<1> QED
  BY <1>1, LifecycleInvariant, PTL
=============================================================================
