----------------------------- MODULE RoadmapHold -----------------------------
(***************************************************************************)
(* The roadmap busy guard of one project root: any number of writers or    *)
(* one migration, over the threads of every process (RemoteControl::       *)
(* tryHoldRoadmapShared, tryHoldRoadmapExclusive and their releases).      *)
(* A process counts its own holds under a mutex; its first writer takes    *)
(* a shared flock for all of them and its last one out closes it.  A       *)
(* migration first raises the exclusive flag of its process and then,      *)
(* outside the mutex, polls for the exclusive flock, telling writers from  *)
(* another migration with a shared probe.                                  *)
(***************************************************************************)
EXTENDS Naturals, FiniteSets

CONSTANTS Process, Writer, Migrator,   \* calling threads of the two kinds
          Home                         \* the process a thread runs in

ASSUME HoldAssumption ==
  /\ Home \in [Writer \cup Migrator -> Process]
  /\ Writer \cap Migrator = {}
  /\ IsFiniteSet(Writer)

VARIABLES
  shared,     \* RoadmapHolds::shared
  exclusive,  \* RoadmapHolds::exclusive
  fd,         \* what flock RoadmapHolds::fd carries; "none" is -1
  wpc, mpc,   \* where the threads are
  mfd,        \* the descriptor a migration has opened and not yet published
  probe,      \* a migration's probe descriptor carries a shared flock
  expired,    \* the migration's QDeadlineTimer has run out
  grabbed     \* history: how the thread's hold was obtained, "file" or "alone"

vars == <<shared, exclusive, fd, wpc, mpc, mfd, probe, expired, grabbed>>

(***************************************************************************)
(* The kernel's advisory locks (external): a descriptor gets a shared lock *)
(* unless another holds an exclusive one, an exclusive lock only alone.    *)
(***************************************************************************)
NoExclusive == (\A p \in Process : fd[p] # "EX") /\ (\A m \in Migrator : mfd[m] # "EX")
NoShared == (\A p \in Process : fd[p] # "SH") /\ (\A m \in Migrator : ~probe[m])

Init ==
  /\ shared = [p \in Process |-> 0]
  /\ exclusive = [p \in Process |-> FALSE]
  /\ fd = [p \in Process |-> "none"]
  /\ wpc = [w \in Writer |-> "idle"]
  /\ mpc = [m \in Migrator |-> "idle"]
  /\ mfd = [m \in Migrator |-> "none"]
  /\ probe = [m \in Migrator |-> FALSE]
  /\ expired = [m \in Migrator |-> FALSE]
  /\ grabbed = [t \in Writer \cup Migrator |-> "no"]

(***************************************************************************)
(* Writers: one critical section to take the hold, one to release it.  A   *)
(* writer that is refused returns roadmap_busy and leaves nothing behind.  *)
(***************************************************************************)
Enter(w, p, f) ==
  /\ fd' = [fd EXCEPT ![p] = f]
  /\ shared' = [shared EXCEPT ![p] = @ + 1]
  /\ wpc' = [wpc EXCEPT ![w] = "holding"]
  /\ grabbed' = [grabbed EXCEPT ![w] = IF f = "none" THEN "alone" ELSE "file"]
  /\ UNCHANGED <<exclusive, mpc, mfd, probe, expired>>

\* Mutant: the first writer does not look at what flock answered.
HoldUnlocked(w) ==
  LET p == Home[w] IN
  /\ wpc[w] = "idle"
  /\ ~exclusive[p]
  /\ Enter(w, p, IF shared[p] > 0 THEN fd[p] ELSE "SH")

tryHoldRoadmapShared(w) ==
  LET p == Home[w] IN
  /\ wpc[w] = "idle"
  /\ ~exclusive[p]
  /\ \/ shared[p] > 0 /\ Enter(w, p, fd[p])
     \/ shared[p] = 0 /\ NoExclusive /\ Enter(w, p, "SH")
     \/ shared[p] = 0 /\ Enter(w, p, "none")   \* the lock file did not open

releaseRoadmapShared(w) ==
  LET p == Home[w] IN
  /\ wpc[w] = "holding"
  /\ wpc' = [wpc EXCEPT ![w] = "idle"]
  /\ shared' = [shared EXCEPT ![p] = @ - 1]
  /\ fd' = IF shared[p] = 1 THEN [fd EXCEPT ![p] = "none"] ELSE fd
  /\ grabbed' = [grabbed EXCEPT ![w] = "no"]
  /\ UNCHANGED <<exclusive, mpc, mfd, probe, expired>>

(***************************************************************************)
(* Migrations.  The condition wait ends when this process's writers are    *)
(* out, when another migration of this process got in first (refused), or  *)
(* at the deadline.                                                        *)
(***************************************************************************)
Call(m) ==
  /\ mpc[m] = "idle"
  /\ mpc' = [mpc EXCEPT ![m] = "wait"]
  /\ expired' = [expired EXCEPT ![m] = FALSE]
  /\ UNCHANGED <<shared, exclusive, fd, wpc, mfd, probe, grabbed>>

RaiseFlag(m) ==
  LET p == Home[m] IN
  /\ mpc[m] = "wait"
  /\ ~exclusive[p] /\ shared[p] = 0
  /\ exclusive' = [exclusive EXCEPT ![p] = TRUE]
  /\ mpc' = [mpc EXCEPT ![m] = "open"]
  /\ UNCHANGED <<shared, fd, wpc, mfd, probe, expired, grabbed>>

RefusedInProcess(m) ==
  /\ mpc[m] = "wait"
  /\ exclusive[Home[m]]
  /\ mpc' = [mpc EXCEPT ![m] = "idle"]
  /\ UNCHANGED <<shared, exclusive, fd, wpc, mfd, probe, expired, grabbed>>

Sleep(m) ==
  /\ mpc[m] = "wait"
  /\ ~exclusive[Home[m]] /\ shared[Home[m]] > 0
  /\ mpc' = [mpc EXCEPT ![m] = "asleep"]
  /\ UNCHANGED <<shared, exclusive, fd, wpc, mfd, probe, expired, grabbed>>

\* A release of any root wakes every sleeper, which looks again; a wait that
\* ends at the deadline refuses without looking.
Awake(m) ==
  /\ mpc[m] = "asleep"
  /\ mpc' = [mpc EXCEPT ![m] = IF expired[m] THEN "idle" ELSE "wait"]
  /\ UNCHANGED <<shared, exclusive, fd, wpc, mfd, probe, expired, grabbed>>

\* A lock file that does not open leaves the decision to this process alone.
OpenLockFile(m) ==
  /\ mpc[m] = "open"
  /\ \/ /\ mfd' = [mfd EXCEPT ![m] = "open"]
        /\ mpc' = [mpc EXCEPT ![m] = "flock"]
     \/ /\ mpc' = [mpc EXCEPT ![m] = "taken"]
        /\ UNCHANGED mfd
  /\ UNCHANGED <<shared, exclusive, fd, wpc, probe, expired, grabbed>>

TryFlock(m) ==
  /\ mpc[m] = "flock"
  /\ IF NoExclusive /\ NoShared
     THEN /\ mfd' = [mfd EXCEPT ![m] = "EX"]
          /\ mpc' = [mpc EXCEPT ![m] = "taken"]
     ELSE /\ mpc' = [mpc EXCEPT ![m] = "probe"]
          /\ UNCHANGED mfd
  /\ UNCHANGED <<shared, exclusive, fd, wpc, probe, expired, grabbed>>

\* A probe that gets its shared lock, or does not open, saw no migration.
Probe(m) ==
  /\ mpc[m] = "probe"
  /\ \/ /\ NoExclusive
        /\ probe' = [probe EXCEPT ![m] = TRUE]
        /\ mpc' = [mpc EXCEPT ![m] = "close"]
     \/ /\ mpc' = [mpc EXCEPT ![m] = "close"]
        /\ UNCHANGED probe
     \/ /\ ~NoExclusive
        /\ mpc' = [mpc EXCEPT ![m] = "giveup"]
        /\ UNCHANGED probe
  /\ UNCHANGED <<shared, exclusive, fd, wpc, mfd, expired, grabbed>>

\* Mutant: the deadline is only looked at in the condition wait.
ClosePatiently(m) ==
  /\ mpc[m] = "close"
  /\ probe' = [probe EXCEPT ![m] = FALSE]
  /\ mpc' = [mpc EXCEPT ![m] = "flock"]
  /\ UNCHANGED <<shared, exclusive, fd, wpc, mfd, expired, grabbed>>

CloseProbe(m) ==
  /\ mpc[m] = "close"
  /\ probe' = [probe EXCEPT ![m] = FALSE]
  /\ mpc' = [mpc EXCEPT ![m] = IF expired[m] THEN "giveup" ELSE "flock"]
  /\ UNCHANGED <<shared, exclusive, fd, wpc, mfd, expired, grabbed>>

\* Relock: publish the descriptor, or undo everything.
Granted(m) ==
  LET p == Home[m] IN
  /\ mpc[m] = "taken"
  /\ fd' = [fd EXCEPT ![p] = IF mfd[m] = "EX" THEN "EX" ELSE "none"]
  /\ mfd' = [mfd EXCEPT ![m] = "none"]
  /\ mpc' = [mpc EXCEPT ![m] = "holding"]
  /\ grabbed' = [grabbed EXCEPT ![m] = IF mfd[m] = "EX" THEN "file" ELSE "alone"]
  /\ UNCHANGED <<shared, exclusive, wpc, probe, expired>>

\* Mutant: a refusal by the lock file leaves the flag of the process up.
RefusedFlagUp(m) ==
  /\ mpc[m] = "giveup"
  /\ mfd' = [mfd EXCEPT ![m] = "none"]
  /\ mpc' = [mpc EXCEPT ![m] = "idle"]
  /\ UNCHANGED <<shared, exclusive, fd, wpc, probe, expired, grabbed>>

RefusedByFlock(m) ==
  LET p == Home[m] IN
  /\ mpc[m] = "giveup"
  /\ mfd' = [mfd EXCEPT ![m] = "none"]
  /\ exclusive' = [exclusive EXCEPT ![p] = FALSE]
  /\ mpc' = [mpc EXCEPT ![m] = "idle"]
  /\ UNCHANGED <<shared, fd, wpc, probe, expired, grabbed>>

releaseRoadmapExclusive(m) ==
  LET p == Home[m] IN
  /\ mpc[m] = "holding"
  /\ exclusive' = [exclusive EXCEPT ![p] = FALSE]
  /\ fd' = [fd EXCEPT ![p] = "none"]
  /\ mpc' = [mpc EXCEPT ![m] = "idle"]
  /\ grabbed' = [grabbed EXCEPT ![m] = "no"]
  /\ UNCHANGED <<shared, wpc, mfd, probe, expired>>

Deadline(m) ==
  /\ mpc[m] \notin {"idle", "holding"} /\ ~expired[m]
  /\ expired' = [expired EXCEPT ![m] = TRUE]
  /\ UNCHANGED <<shared, exclusive, fd, wpc, mpc, mfd, probe, grabbed>>

\* A process dies and another takes its place; the kernel drops its flocks.
Crash(p) ==
  LET Mine == {t \in Writer \cup Migrator : Home[t] = p} IN
  /\ shared' = [shared EXCEPT ![p] = 0]
  /\ exclusive' = [exclusive EXCEPT ![p] = FALSE]
  /\ fd' = [fd EXCEPT ![p] = "none"]
  /\ wpc' = [w \in Writer |-> IF w \in Mine THEN "idle" ELSE wpc[w]]
  /\ mpc' = [m \in Migrator |-> IF m \in Mine THEN "idle" ELSE mpc[m]]
  /\ mfd' = [m \in Migrator |-> IF m \in Mine THEN "none" ELSE mfd[m]]
  /\ probe' = [m \in Migrator |-> m \notin Mine /\ probe[m]]
  /\ grabbed' = [t \in Writer \cup Migrator |-> IF t \in Mine THEN "no" ELSE grabbed[t]]
  /\ UNCHANGED expired

MigratorStep(m) ==
  \/ RaiseFlag(m) \/ RefusedInProcess(m) \/ Sleep(m) \/ Awake(m)
  \/ OpenLockFile(m) \/ TryFlock(m)
  \/ Probe(m) \/ CloseProbe(m) \/ Granted(m) \/ RefusedByFlock(m)

Next ==
  \/ \E w \in Writer : tryHoldRoadmapShared(w) \/ releaseRoadmapShared(w)
  \/ \E m \in Migrator : \/ Call(m) \/ MigratorStep(m) \/ Deadline(m)
                         \/ releaseRoadmapExclusive(m)
  \/ \E p \in Process : Crash(p)

Spec == Init /\ [][Next]_vars

\* A thread inside tryHoldRoadmapExclusive keeps running and its clock keeps
\* counting; nothing is assumed of when a writer or a migration ends.
FairSpec ==
  Spec /\ \A m \in Migrator : WF_vars(MigratorStep(m)) /\ WF_vars(Deadline(m))

-----------------------------------------------------------------------------
TypeOK ==
  /\ shared \in [Process -> Nat]
  /\ exclusive \in [Process -> BOOLEAN]
  /\ fd \in [Process -> {"none", "SH", "EX"}]
  /\ wpc \in [Writer -> {"idle", "holding"}]
  /\ mpc \in [Migrator -> {"idle", "wait", "asleep", "open", "flock", "probe", "close",
                           "taken", "giveup", "holding"}]
  /\ mfd \in [Migrator -> {"none", "open", "EX"}]
  /\ probe \in [Migrator -> BOOLEAN]
  /\ expired \in [Migrator -> BOOLEAN]
  /\ grabbed \in [Writer \cup Migrator -> {"no", "file", "alone"}]

Holding(t) == IF t \in Writer THEN wpc[t] = "holding" ELSE mpc[t] = "holding"

\* "One exclusive hold (a migration) or any number of shared holds (writers),
\* never both": while a migration holds the root no writer and no other
\* migration does, in its own process always and in every other process when
\* both holds are backed by the lock file.
HoldsExclude ==
  \A m \in Migrator, t \in Writer \cup Migrator :
    (t # m /\ Holding(m) /\ Holding(t)) =>
      Home[m] # Home[t] /\ (grabbed[m] = "alone" \/ grabbed[t] = "alone")

Inside(p) == {w \in Writer : Home[w] = p /\ wpc[w] = "holding"}
Acquiring == {"open", "flock", "probe", "close", "taken", "giveup", "holding"}

\* No hold outlives its holders: the count is the number of writers inside, the
\* flag is up only while one migration of this process is inside or acquiring,
\* and the process keeps a flock only for a hold of that kind.  A refusal, a
\* timeout or a crash leaves nothing behind that would refuse later callers.
NoStaleHold ==
  \A p \in Process :
    /\ shared[p] = Cardinality(Inside(p))
    /\ exclusive[p] => \E m \in Migrator : Home[m] = p /\ mpc[m] \in Acquiring
    /\ fd[p] = "SH" => shared[p] > 0
    /\ fd[p] = "EX" => \E m \in Migrator : Home[m] = p /\ mpc[m] = "holding"

\* A migration's call returns, granted or refused, however long writers and
\* other migrations keep their holds and however the probes of several
\* migrations interleave.
CallReturns ==
  \A m \in Migrator : mpc[m] = "wait" ~> mpc[m] \in {"idle", "holding"}
=============================================================================
