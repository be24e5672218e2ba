-------------------------- MODULE RoadmapHoldProofs --------------------------
(***************************************************************************)
(* The roadmap busy guard excludes writers from a migration and leaves no  *)
(* stale hold, for any number of processes, writers and migrations.        *)
(*                                                                         *)
(* Neither property is inductive.  The flag of a process must be known to  *)
(* belong to exactly one migration and to keep writers out, every flock to *)
(* belong to a hold, an exclusive flock to be the only one, and a hold     *)
(* that was backed by the lock file to be backed by it still.              *)
(***************************************************************************)
EXTENDS RoadmapHold, FiniteSetTheorems, TLAPS

\* The count of a process is the number of its writers inside.
Counted == \A p \in Process : shared[p] = Cardinality(Inside(p))

\* The flag of a process is up for one migration, and no writer is inside.
FlagOwned ==
  /\ \A m \in Migrator : mpc[m] \in Acquiring => exclusive[Home[m]]
  /\ \A m, n \in Migrator :
       (mpc[m] \in Acquiring /\ mpc[n] \in Acquiring /\ Home[m] = Home[n]) => m = n
  /\ \A p \in Process : exclusive[p] =>
       \E m \in Migrator : Home[m] = p /\ mpc[m] \in Acquiring
  /\ \A w \in Writer : wpc[w] = "holding" => ~exclusive[Home[w]]

\* A flock is there for a hold, or for a migration about to publish it.
FlockOwned ==
  /\ \A p \in Process : fd[p] = "SH" =>
       \E w \in Writer : Home[w] = p /\ wpc[w] = "holding"
  /\ \A p \in Process : fd[p] = "EX" =>
       \E m \in Migrator : Home[m] = p /\ mpc[m] = "holding"
  /\ \A m \in Migrator : mfd[m] = "EX" => mpc[m] = "taken"

\* The kernel's part: an exclusive flock is the only one.
ExclusiveAlone ==
  /\ \A p, q \in Process : fd[p] = "EX" => fd[q] # "SH" /\ (fd[q] = "EX" => p = q)
  /\ \A m \in Migrator, q \in Process : mfd[m] = "EX" => fd[q] = "none"
  /\ \A m, n \in Migrator : (mfd[m] = "EX" /\ mfd[n] = "EX") => m = n

\* A hold obtained from the lock file is still backed by it.
Backed ==
  /\ \A w \in Writer : wpc[w] = "holding" =>
       \/ grabbed[w] = "file" /\ fd[Home[w]] = "SH"
       \/ grabbed[w] = "alone"
  /\ \A m \in Migrator : mpc[m] = "holding" =>
       \/ grabbed[m] = "file" /\ fd[Home[m]] = "EX"
       \/ grabbed[m] = "alone"

HInv == TypeOK /\ Counted /\ FlagOwned /\ FlockOwned /\ ExclusiveAlone /\ Backed

-----------------------------------------------------------------------------
\* What the count says of the writers inside.
LEMMA CountFacts ==
  ASSUME TypeOK, Counted, NEW p \in Process
  PROVE  /\ IsFiniteSet(Inside(p)) /\ Cardinality(Inside(p)) \in Nat
         /\ shared[p] = 0 <=> Inside(p) = {}
<1>1. IsFiniteSet(Inside(p))
  BY HoldAssumption, FS_Subset DEF Inside
<1>2. Cardinality(Inside(p)) \in Nat
  BY <1>1, FS_CardinalityType
<1>3. Cardinality(Inside(p)) = 0 <=> Inside(p) = {}
  BY <1>1, FS_EmptySet
<1> QED
  BY <1>1, <1>2, <1>3 DEF Counted

\* Nobody holds anything yet.
LEMMA InitHolds == Init => HInv
<1> SUFFICES ASSUME Init PROVE HInv
  OBVIOUS
<1>1. TypeOK
  BY DEF Init, TypeOK
<1>2. Counted
  <2>1. \A p \in Process : Inside(p) = {}
    BY DEF Inside, Init
  <2> QED
    BY <2>1, FS_EmptySet DEF Counted, Init
<1>3. FlagOwned /\ FlockOwned /\ ExclusiveAlone /\ Backed
  BY HoldAssumption DEF Init, FlagOwned, FlockOwned, ExclusiveAlone, Backed, Acquiring
<1> QED
  BY <1>1, <1>2, <1>3 DEF HInv

\* A writer enters with the process's descriptor f.
LEMMA EnterKeeps ==
  ASSUME HInv, NEW w \in Writer, NEW f \in {"none", "SH"}, wpc[w] = "idle",
         ~exclusive[Home[w]], Enter(w, Home[w], f),
         \/ shared[Home[w]] > 0 /\ f = fd[Home[w]]
         \/ shared[Home[w]] = 0 /\ (f = "SH" => NoExclusive)
  PROVE  HInv'
<1> DEFINE p == Home[w]
<1>1. p \in Process /\ w \in Writer \cup Migrator /\ w \notin Migrator
  BY HoldAssumption
<1>2. TypeOK'
  BY <1>1 DEF HInv, TypeOK, Enter
<1>3. Counted'
  <2>1. Inside(p)' = Inside(p) \cup {w} /\ w \notin Inside(p)
    BY <1>1 DEF Inside, Enter, HInv, TypeOK
  <2>2. \A q \in Process : q # p => Inside(q)' = Inside(q)
    BY <1>1 DEF Inside, Enter, HInv, TypeOK
  <2>3. Cardinality(Inside(p)') = Cardinality(Inside(p)) + 1
    BY <2>1, <1>1, CountFacts, FS_AddElement DEF HInv
  <2> QED
    BY <2>2, <2>3, <1>1 DEF Counted, Enter, HInv, TypeOK
<1>4. FlagOwned'
  BY <1>1, HoldAssumption DEF HInv, TypeOK, FlagOwned, Enter
<1>5. fd[p] # "EX"
  BY <1>1 DEF HInv, FlockOwned, FlagOwned, Acquiring
<1>6. FlockOwned'
  BY <1>1, <1>5, HoldAssumption DEF HInv, TypeOK, FlockOwned, Enter
<1>7. ExclusiveAlone'
  BY <1>1, <1>5, HoldAssumption DEF HInv, TypeOK, ExclusiveAlone, Enter, NoExclusive
<1>8. Backed'
  <2>1. \A v \in Writer : wpc[v] = "holding" /\ Home[v] = p => f = fd[p]
    BY <1>1, CountFacts DEF HInv, Inside
  <2>2. \A v \in Writer : v # w /\ wpc'[v] = "holding" =>
           \/ grabbed'[v] = "file" /\ fd'[Home[v]] = "SH"
           \/ grabbed'[v] = "alone"
    BY <2>1, <1>1, HoldAssumption DEF HInv, TypeOK, Backed, Enter
  <2>3. (grabbed'[w] = "file" /\ fd'[p] = "SH") \/ grabbed'[w] = "alone"
    BY <1>1 DEF HInv, TypeOK, Enter
  <2>4. \A m \in Migrator : mpc'[m] = "holding" =>
           \/ grabbed'[m] = "file" /\ fd'[Home[m]] = "EX"
           \/ grabbed'[m] = "alone"
    BY <1>1, <1>5, HoldAssumption DEF HInv, TypeOK, Backed, Enter
  <2> QED
    BY <2>2, <2>3, <2>4 DEF Backed
<1> QED
  BY <1>2, <1>3, <1>4, <1>6, <1>7, <1>8 DEF HInv

\* tryHoldRoadmapShared: the three ways in.
LEMMA HoldSharedKeeps ==
  ASSUME HInv, NEW w \in Writer, tryHoldRoadmapShared(w)
  PROVE  HInv'
<1> DEFINE p == Home[w]
<1>1. p \in Process
  BY HoldAssumption
<1>2. wpc[w] = "idle" /\ ~exclusive[p]
  BY DEF tryHoldRoadmapShared
<1>3. fd[p] # "EX" /\ fd[p] \in {"none", "SH", "EX"}
  BY <1>1, <1>2 DEF HInv, TypeOK, FlockOwned, FlagOwned, Acquiring
<1>4. CASE shared[p] > 0 /\ Enter(w, p, fd[p])
  BY <1>2, <1>3, <1>4, EnterKeeps
<1>5. CASE shared[p] = 0 /\ NoExclusive /\ Enter(w, p, "SH")
  BY <1>2, <1>5, EnterKeeps
<1>6. CASE shared[p] = 0 /\ Enter(w, p, "none")
  BY <1>2, <1>6, EnterKeeps
<1> QED
  BY <1>4, <1>5, <1>6 DEF tryHoldRoadmapShared

\* A writer leaves; the last one closes the descriptor.
LEMMA ReleaseSharedKeeps ==
  ASSUME HInv, NEW w \in Writer, releaseRoadmapShared(w)
  PROVE  HInv'
<1> DEFINE p == Home[w]
<1>1. p \in Process /\ w \in Writer \cup Migrator /\ w \notin Migrator
  BY HoldAssumption
<1>2. w \in Inside(p) /\ ~exclusive[p]
  BY <1>1 DEF HInv, FlagOwned, Inside, releaseRoadmapShared
<1>3. /\ Inside(p)' = Inside(p) \ {w}
      /\ \A q \in Process : q # p => Inside(q)' = Inside(q)
  BY <1>1 DEF Inside, releaseRoadmapShared, HInv, TypeOK
<1>4. /\ Cardinality(Inside(p) \ {w}) = Cardinality(Inside(p)) - 1
      /\ IsFiniteSet(Inside(p) \ {w})
  BY <1>1, <1>2, CountFacts, FS_RemoveElement DEF HInv
<1>5. shared[p] \in Nat \ {0} /\ shared[p] = Cardinality(Inside(p))
  BY <1>1, <1>2, CountFacts DEF HInv, Counted, TypeOK
<1>6. shared[p] = 1 <=> Inside(p) \ {w} = {}
  BY <1>4, <1>5, FS_EmptySet
<1>7. TypeOK'
  BY <1>1, <1>5 DEF HInv, TypeOK, releaseRoadmapShared
<1>8. Counted'
  BY <1>1, <1>3, <1>4, <1>5 DEF Counted, releaseRoadmapShared, HInv, TypeOK
<1>9. FlagOwned'
  BY <1>1, HoldAssumption DEF HInv, TypeOK, FlagOwned, releaseRoadmapShared
<1>10. FlockOwned'
  <2>1. \A q \in Process : fd'[q] = "SH" =>
          \E v \in Writer : Home[v] = q /\ wpc'[v] = "holding"
    <3> SUFFICES ASSUME NEW q \in Process, fd'[q] = "SH"
                 PROVE  \E v \in Writer : Home[v] = q /\ wpc'[v] = "holding"
      OBVIOUS
    <3>1. CASE q = p
      <4>1. Inside(p) \ {w} # {}
        BY <1>1, <1>6, <3>1 DEF HInv, TypeOK, releaseRoadmapShared
      <4> QED
        BY <4>1, <1>3, <3>1 DEF Inside
    <3>2. CASE q # p
      BY <3>2, <1>1 DEF HInv, TypeOK, FlockOwned, releaseRoadmapShared
    <3> QED
      BY <3>1, <3>2
  <2>2. \A q \in Process : fd'[q] = "EX" =>
          \E m \in Migrator : Home[m] = q /\ mpc'[m] = "holding"
    BY <1>1 DEF HInv, TypeOK, FlockOwned, releaseRoadmapShared
  <2> QED
    BY <2>1, <2>2 DEF HInv, FlockOwned, releaseRoadmapShared
<1>11. ExclusiveAlone'
  BY <1>1 DEF HInv, TypeOK, ExclusiveAlone, releaseRoadmapShared
<1>12. Backed'
  <2>1. \A v \in Writer : wpc'[v] = "holding" =>
          v # w /\ wpc[v] = "holding" /\ fd'[Home[v]] = fd[Home[v]]
    <3> SUFFICES ASSUME NEW v \in Writer, wpc'[v] = "holding"
                 PROVE  v # w /\ wpc[v] = "holding" /\ fd'[Home[v]] = fd[Home[v]]
      OBVIOUS
    <3>1. v # w /\ wpc[v] = "holding" /\ Home[v] \in Process
      BY HoldAssumption DEF HInv, TypeOK, releaseRoadmapShared
    <3>2. Home[v] = p => shared[p] # 1
      BY <3>1, <1>6 DEF Inside
    <3> QED
      BY <3>1, <3>2, <1>1 DEF HInv, TypeOK, releaseRoadmapShared
  <2>2. \A m \in Migrator : mpc[m] = "holding" =>
          fd'[Home[m]] = fd[Home[m]] /\ grabbed'[m] = grabbed[m]
    BY <1>1, <1>2, HoldAssumption
    DEF HInv, TypeOK, FlagOwned, Acquiring, releaseRoadmapShared
  <2> QED
    BY <2>1, <2>2, <1>1, HoldAssumption DEF HInv, TypeOK, Backed, releaseRoadmapShared
<1> QED
  BY <1>7, <1>8, <1>9, <1>10, <1>11, <1>12 DEF HInv

\* Steps of a migration that touch neither the process's record nor a hold.
LEMMA QuietKeeps ==
  ASSUME HInv,
         UNCHANGED <<shared, exclusive, fd, wpc, grabbed>>, TypeOK',
         \A n \in Migrator : mpc'[n] \in Acquiring <=> mpc[n] \in Acquiring,
         \A n \in Migrator : mpc'[n] = "holding" <=> mpc[n] = "holding",
         \A n \in Migrator : mfd'[n] = "EX" => mfd[n] = "EX" /\ mpc'[n] = "taken"
  PROVE  HInv'
<1>1. Counted'
  BY DEF HInv, Counted, Inside
<1>2. FlagOwned'
  BY DEF HInv, FlagOwned
<1>3. FlockOwned'
  BY DEF HInv, FlockOwned
<1>4. ExclusiveAlone'
  BY DEF HInv, ExclusiveAlone
<1>5. Backed'
  BY DEF HInv, Backed
<1> QED
  BY <1>1, <1>2, <1>3, <1>4, <1>5 DEF HInv

\* The steps of a migration that neither give nor take a lock or a flag.
LEMMA QuietSteps ==
  ASSUME HInv, NEW m \in Migrator,
         \/ Call(m) \/ RefusedInProcess(m) \/ Sleep(m) \/ Awake(m)
         \/ OpenLockFile(m) \/ Probe(m) \/ CloseProbe(m) \/ Deadline(m)
         \/ TryFlock(m) /\ mfd' = mfd
  PROVE  HInv'
<1> DEFINE Quiet ==
      /\ UNCHANGED <<shared, exclusive, fd, wpc, grabbed>> /\ TypeOK'
      /\ \A n \in Migrator : mpc'[n] \in Acquiring <=> mpc[n] \in Acquiring
      /\ \A n \in Migrator : mpc'[n] = "holding" <=> mpc[n] = "holding"
      /\ \A n \in Migrator : mfd'[n] = "EX" => mfd[n] = "EX" /\ mpc'[n] = "taken"
<1>1. Call(m) => Quiet
  BY DEF HInv, TypeOK, FlockOwned, Call, Acquiring
<1>2. RefusedInProcess(m) => Quiet
  BY DEF HInv, TypeOK, FlockOwned, RefusedInProcess, Acquiring
<1>3. Sleep(m) => Quiet
  BY DEF HInv, TypeOK, FlockOwned, Sleep, Acquiring
<1>4. Awake(m) => Quiet
  BY DEF HInv, TypeOK, FlockOwned, Awake, Acquiring
<1>5. OpenLockFile(m) => Quiet
  BY DEF HInv, TypeOK, FlockOwned, OpenLockFile, Acquiring
<1>6. Probe(m) => Quiet
  <2> SUFFICES ASSUME Probe(m) PROVE Quiet
    OBVIOUS
  <2>1. mpc[m] = "probe" /\ \E x \in {"close", "giveup"} : mpc' = [mpc EXCEPT ![m] = x]
    BY DEF Probe
  <2>2. probe' \in [Migrator -> BOOLEAN]
    <3>1. probe \in [Migrator -> BOOLEAN]
      BY DEF HInv, TypeOK
    <3>2. probe' = [probe EXCEPT ![m] = TRUE] \/ probe' = probe
      BY Zenon DEF Probe
    <3> QED
      BY <3>1, <3>2
  <2>3. UNCHANGED <<shared, exclusive, fd, wpc, mfd, expired, grabbed>>
    BY DEF Probe
  <2>4. TypeOK'
    <3>1. TypeOK
      BY DEF HInv
    <3>2. mpc' \in [Migrator -> {"idle", "wait", "asleep", "open", "flock", "probe",
                                "close", "taken", "giveup", "holding"}]
      BY <2>1, <3>1 DEF TypeOK
    <3> QED
      BY <2>2, <2>3, <3>1, <3>2, Zenon DEF TypeOK
  <2>5. /\ \A n \in Migrator : mpc'[n] \in Acquiring <=> mpc[n] \in Acquiring
        /\ \A n \in Migrator : mpc'[n] = "holding" <=> mpc[n] = "holding"
    BY <2>1 DEF HInv, TypeOK, Acquiring
  <2>6. \A n \in Migrator : mfd'[n] = "EX" => mfd[n] = "EX" /\ mpc'[n] = "taken"
    BY <2>1, <2>3 DEF HInv, TypeOK, FlockOwned
  <2> QED
    BY <2>3, <2>4, <2>5, <2>6
<1>7. CloseProbe(m) => Quiet
  BY DEF HInv, TypeOK, FlockOwned, CloseProbe, Acquiring
<1>8. Deadline(m) => Quiet
  BY DEF HInv, TypeOK, FlockOwned, Deadline, Acquiring
<1>9. TryFlock(m) /\ mfd' = mfd => Quiet
  BY DEF HInv, TypeOK, FlockOwned, TryFlock, Acquiring
<1> QED
  BY <1>1, <1>2, <1>3, <1>4, <1>5, <1>6, <1>7, <1>8, <1>9, QuietKeeps

\* A migration raises the flag once its process has no writer inside.
LEMMA RaiseFlagKeeps ==
  ASSUME HInv, NEW m \in Migrator, RaiseFlag(m)
  PROVE  HInv'
<1> DEFINE p == Home[m]
<1>1. p \in Process
  BY HoldAssumption
<1>2. \A w \in Writer : wpc[w] = "holding" => Home[w] # p
  BY <1>1, CountFacts DEF HInv, Inside, RaiseFlag
<1>3. TypeOK'
  BY <1>1 DEF HInv, TypeOK, RaiseFlag
<1>4. Counted'
  BY DEF HInv, Counted, Inside, RaiseFlag
<1>5. FlagOwned'
  BY <1>1, <1>2, HoldAssumption DEF HInv, TypeOK, FlagOwned, Acquiring, RaiseFlag
<1>6. FlockOwned' /\ ExclusiveAlone' /\ Backed'
  BY <1>1 DEF HInv, TypeOK, FlockOwned, ExclusiveAlone, Backed, RaiseFlag
<1> QED
  BY <1>3, <1>4, <1>5, <1>6 DEF HInv

\* A migration gets the exclusive flock.
LEMMA TakeFlockKeeps ==
  ASSUME HInv, NEW m \in Migrator, TryFlock(m), mfd' # mfd
  PROVE  HInv'
<1>1. NoExclusive /\ NoShared
  BY DEF TryFlock
<1>2. TypeOK'
  BY DEF HInv, TypeOK, TryFlock
<1>3. Counted' /\ FlagOwned'
  BY DEF HInv, TypeOK, Counted, Inside, FlagOwned, Acquiring, TryFlock
<1>4. FlockOwned' /\ Backed'
  BY DEF HInv, TypeOK, FlockOwned, Backed, TryFlock
<1>5. ExclusiveAlone'
  <2>1. \A q \in Process : fd'[q] = "none"
    BY <1>1 DEF HInv, TypeOK, TryFlock, NoExclusive, NoShared
  <2>2. \A n \in Migrator : mfd'[n] = "EX" => n = m
    BY <1>1 DEF HInv, TypeOK, TryFlock, NoExclusive
  <2> QED
    BY <2>1, <2>2 DEF ExclusiveAlone
<1> QED
  BY <1>2, <1>3, <1>4, <1>5 DEF HInv

\* The flock becomes the process's: it is alone, and so is the migration.
LEMMA GrantedKeeps ==
  ASSUME HInv, NEW m \in Migrator, Granted(m)
  PROVE  HInv'
<1> DEFINE p == Home[m]
<1>1. p \in Process /\ m \in Writer \cup Migrator /\ m \notin Writer
  BY HoldAssumption
<1>2. exclusive[p] /\ \A w \in Writer : wpc[w] = "holding" => Home[w] # p
  BY <1>1 DEF HInv, FlagOwned, Acquiring, Granted
<1>3. \A n \in Migrator : n # m /\ mpc[n] = "holding" => Home[n] # p
  BY DEF HInv, FlagOwned, Acquiring, Granted
<1>4. TypeOK'
  BY <1>1 DEF HInv, TypeOK, Granted
<1>5. Counted' /\ FlagOwned'
  BY DEF HInv, TypeOK, Counted, Inside, FlagOwned, Acquiring, Granted
<1>6. FlockOwned'
  BY <1>1 DEF HInv, TypeOK, FlockOwned, Granted
<1>7. ExclusiveAlone'
  BY <1>1 DEF HInv, TypeOK, ExclusiveAlone, Granted
<1>8. Backed'
  BY <1>1, <1>2, <1>3, HoldAssumption DEF HInv, TypeOK, Backed, Granted
<1> QED
  BY <1>4, <1>5, <1>6, <1>7, <1>8 DEF HInv

\* The flag comes down with the descriptor, after a refusal or a release.
LEMMA LowerFlagKeeps ==
  ASSUME HInv, NEW m \in Migrator, RefusedByFlock(m) \/ releaseRoadmapExclusive(m)
  PROVE  HInv'
<1> DEFINE p == Home[m]
<1>1. p \in Process /\ m \in Writer \cup Migrator /\ m \notin Writer
  BY HoldAssumption
<1>2. /\ exclusive[p] /\ mpc[m] \in Acquiring
      /\ exclusive' = [exclusive EXCEPT ![p] = FALSE]
      /\ mpc' = [mpc EXCEPT ![m] = "idle"]
      /\ UNCHANGED <<shared, wpc>>
  BY DEF HInv, FlagOwned, Acquiring, RefusedByFlock, releaseRoadmapExclusive
<1>3. /\ \A w \in Writer : wpc[w] = "holding" => Home[w] # p
      /\ \A n \in Migrator : n # m /\ mpc[n] \in Acquiring => Home[n] # p
  BY <1>1, <1>2 DEF HInv, FlagOwned
<1>4. TypeOK'
  <2>1. RefusedByFlock(m) => TypeOK'
    BY <1>1 DEF HInv, TypeOK, RefusedByFlock
  <2>2. releaseRoadmapExclusive(m) => TypeOK'
    BY <1>1 DEF HInv, TypeOK, releaseRoadmapExclusive
  <2> QED
    BY <2>1, <2>2
<1>5. Counted'
  BY <1>2 DEF HInv, Counted, Inside
<1>6. FlagOwned'
  BY <1>1, <1>2, <1>3, HoldAssumption DEF HInv, TypeOK, FlagOwned, Acquiring
<1>7. FlockOwned' /\ ExclusiveAlone'
  BY <1>1
  DEF HInv, TypeOK, FlockOwned, ExclusiveAlone, RefusedByFlock, releaseRoadmapExclusive
<1>8. Backed'
  BY <1>1, <1>3, HoldAssumption
  DEF HInv, TypeOK, Backed, Acquiring, RefusedByFlock, releaseRoadmapExclusive
<1> QED
  BY <1>4, <1>5, <1>6, <1>7, <1>8 DEF HInv

\* A process that dies takes its holds and its flocks with it.
LEMMA CrashKeeps ==
  ASSUME HInv, NEW p \in Process, Crash(p)
  PROVE  HInv'
<1>1. TypeOK'
  BY DEF HInv, TypeOK, Crash
<1>2. Counted'
  <2>1. Inside(p)' = {}
    BY DEF Inside, Crash
  <2>2. \A q \in Process : q # p => Inside(q)' = Inside(q)
    BY HoldAssumption DEF Inside, Crash
  <2> QED
    BY <2>1, <2>2, FS_EmptySet DEF HInv, TypeOK, Counted, Crash
<1>3. FlagOwned'
  BY HoldAssumption DEF HInv, TypeOK, FlagOwned, Acquiring, Crash
<1>4. FlockOwned'
  BY HoldAssumption DEF HInv, TypeOK, FlockOwned, Crash
<1>5. ExclusiveAlone'
  BY HoldAssumption DEF HInv, TypeOK, ExclusiveAlone, Crash
<1>6. Backed'
  BY HoldAssumption DEF HInv, TypeOK, Backed, Crash
<1> QED
  BY <1>1, <1>2, <1>3, <1>4, <1>5, <1>6 DEF HInv

\* Every step of every process keeps the invariant.
LEMMA StepKeeps == HInv /\ [Next]_vars => HInv'
<1> SUFFICES ASSUME HInv, [Next]_vars PROVE HInv'
  OBVIOUS
<1>1. CASE UNCHANGED vars
  BY <1>1 DEF vars, HInv, TypeOK, Counted, Inside, FlagOwned, FlockOwned,
              ExclusiveAlone, Backed
<1>2. ASSUME NEW w \in Writer, tryHoldRoadmapShared(w) PROVE HInv'
  BY <1>2, HoldSharedKeeps
<1>3. ASSUME NEW w \in Writer, releaseRoadmapShared(w) PROVE HInv'
  BY <1>3, ReleaseSharedKeeps
<1>4. ASSUME NEW m \in Migrator,
             Call(m) \/ MigratorStep(m) \/ Deadline(m) \/ releaseRoadmapExclusive(m)
      PROVE  HInv'
  BY <1>4, QuietSteps, RaiseFlagKeeps, TakeFlockKeeps, GrantedKeeps, LowerFlagKeeps
  DEF MigratorStep
<1>5. ASSUME NEW p \in Process, Crash(p) PROVE HInv'
  BY <1>5, CrashKeeps
<1> QED
  BY <1>1, <1>2, <1>3, <1>4, <1>5 DEF Next

-----------------------------------------------------------------------------
\* The inductive invariant holds in every reachable state.
THEOREM HoldInvariant == Spec => []HInv
BY InitHolds, StepKeeps, PTL DEF Spec

\* Every variable keeps its type.
THEOREM HoldTypeCorrect == Spec => []TypeOK
<1>1. HInv => TypeOK
  BY DEF HInv
<1> QED
  BY <1>1, HoldInvariant, PTL

\* A migration that tryHoldRoadmapExclusive let in shares the root with no
\* writer and no other migration, however many there are.
THEOREM HoldsAreExclusive == Spec => []HoldsExclude
<1>1. HInv => HoldsExclude
  <2> SUFFICES ASSUME HInv, NEW m \in Migrator, NEW t \in Writer \cup Migrator,
                      t # m, Holding(m), Holding(t)
               PROVE  Home[m] # Home[t] /\ (grabbed[m] = "alone" \/ grabbed[t] = "alone")
    BY DEF HoldsExclude
  <2>1. mpc[m] = "holding" /\ Home[m] \in Process /\ Home[t] \in Process
    BY HoldAssumption DEF Holding
  <2>2. CASE t \in Writer
    BY <2>1, <2>2 DEF HInv, FlagOwned, ExclusiveAlone, Backed, Acquiring, Holding
  <2>3. CASE t \in Migrator
    <3>1. mpc[t] = "holding"
      BY <2>3, HoldAssumption DEF Holding
    <3> QED
      BY <2>1, <2>3, <3>1 DEF HInv, FlagOwned, ExclusiveAlone, Backed, Acquiring
  <2> QED
    BY <2>2, <2>3
<1> QED
  BY <1>1, HoldInvariant, PTL

\* No refusal, timeout, release or crash leaves a count, a flag or a flock
\* behind without a holder.
THEOREM HoldsAreReturned == Spec => []NoStaleHold
<1>1. HInv => NoStaleHold
  <2> SUFFICES ASSUME HInv, NEW p \in Process
               PROVE  /\ shared[p] = Cardinality(Inside(p))
                      /\ exclusive[p] =>
                           \E m \in Migrator : Home[m] = p /\ mpc[m] \in Acquiring
                      /\ fd[p] = "SH" => shared[p] > 0
                      /\ fd[p] = "EX" =>
                           \E m \in Migrator : Home[m] = p /\ mpc[m] = "holding"
    BY DEF NoStaleHold
  <2>1. fd[p] = "SH" => Inside(p) # {}
    BY DEF HInv, FlockOwned, Inside
  <2>2. shared[p] \in Nat /\ (shared[p] = 0 <=> Inside(p) = {})
    BY CountFacts DEF HInv, TypeOK
  <2> QED
    BY <2>1, <2>2 DEF HInv, Counted, FlagOwned, FlockOwned
<1> QED
  BY <1>1, HoldInvariant, PTL
=============================================================================
