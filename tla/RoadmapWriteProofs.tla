------------------------- MODULE RoadmapWriteProofs -------------------------
(***************************************************************************)
(* The roadmap's writers, for any number of writers, items and lines of    *)
(* the editor's: the files are never ahead of the store, a reported write  *)
(* stays, an undisturbed publish repairs every file, and no text that the  *)
(* drift check read is destroyed without a copy.                           *)
(*                                                                         *)
(* None of them is inductive.  The write lock must be known to belong to   *)
(* the one writer inside its transaction, the transaction to start from    *)
(* the committed rows and stay above them, an image about to land and rows *)
(* about to be reported to be covered by the store, and the files still to *)
(* land to be the only ones that differ from an undisturbed render.        *)
(***************************************************************************)
EXTENDS RoadmapWrite, SequenceTheorems, TLAPS

InTransaction == {"mutate", "commit"}
Committed == {"keep", "render", "land"}

\* BEGIN IMMEDIATE: the lock belongs to the writer inside its transaction.
LockOwned == \A w \in Writer : lock = w <=> pc[w] \in InTransaction

\* A transaction only adds to the committed rows, and the rows a writer
\* committed are never taken back.
RowsOrdered ==
  \A w \in Writer, i \in Item :
    /\ pc[w] \in InTransaction => store[i] <= tx[w][i]
    /\ pc[w] \in Committed => tx[w][i] <= store[i]

\* What a writer is about to land was rendered from committed rows.
ImageNeverAhead ==
  \A w \in Writer, f \in File, i \in Item, s \in 1..2 :
    (pc[w] = "land" /\ <<i, s>> \in image[w][f]) => s <= store[i]

\* The files of w's publish that are still to land.
Left(w) == {todo[w][k] : k \in DOMAIN todo[w]}

\* An undisturbed publish lands the store as it is; whatever it has no more
\* to land is up to date.
AloneExact ==
  \A w \in Writer : (alone[w] /\ pc[w] = "land") =>
    /\ image[w] = Render(store)
    /\ \A f \in File \ Left(w) : file[f] = Render(store)[f]

\* A line of the editor's that the drift check read and that is still in its
\* file is in a file marked as lost, then copied or reported as not copied.
SeenKept ==
  /\ \A f \in File : file[f] \cap Hand \subseteq edited
  /\ \A w \in Writer :
       /\ seen[w] \subseteq edited
       /\ pc[w] \in {"idle", "drift"} => seen[w] = {}
       /\ \A f \in File : \A h \in seen[w] \cap file[f] :
            /\ pc[w] \in {"begin", "mutate", "commit", "keep"} => f \in lostFiles[w]
            /\ pc[w] \in {"render", "land"} => h \in backup \/ f \in uncopied[w]

\* With one writer, and nothing that the window admits to: a publish is undisturbed,
\* and only the writer past its commit leaves the files behind the store.
SoloExact ==
  ~window =>
    /\ \A w \in Writer : pc[w] = "land" => alone[w]
    /\ file = Render(store) \/ \E w \in Writer : pc[w] \in Committed

RInv ==
  /\ TypeOK /\ LockOwned /\ RowsOrdered
  /\ FileNeverAhead /\ ImageNeverAhead /\ AckedDurable
  /\ AloneExact /\ RepairConverges /\ SeenKept

-----------------------------------------------------------------------------
\* A rendered line stands for a row at that status, and is no editor's line.
LEMMA RenderFacts ==
  ASSUME NEW rows \in [Item -> 0..2]
  PROVE  /\ Render(rows) \in [File -> SUBSET ItemLine]
         /\ \A f \in File, i \in Item, s \in 1..2 :
              <<i, s>> \in Render(rows)[f] => s = rows[i]
BY DEF Render, File, StatusIn, ItemLine

\* No line of the editor's looks like a rendered one.
LEMMA HandNotRendered == Hand \cap ItemLine = {}
BY RoadmapWriteAssumption DEF Hand, ItemLine

\* The empty store.
LEMMA NoRowsType == NoRows \in [Item -> 0..2]
BY DEF NoRows

\* The todo list is one of the four sublists of the file order.
TodoLists == {<<>>, <<"live">>, <<"archive">>, FileOrder}

\* What is left to land after a rename.
LEMMA TodoFacts ==
  ASSUME NEW w \in Writer, todo[w] \in TodoLists, todo[w] # <<>>
  PROVE  /\ Head(todo[w]) \in File
         /\ Tail(todo[w]) \in TodoLists
         /\ Left(w) = {Head(todo[w])} \cup {Tail(todo[w])[k] : k \in DOMAIN Tail(todo[w])}
<1>1. CASE todo[w] = <<"live">>
  BY <1>1 DEF TodoLists, Left, File, FileOrder
<1>2. CASE todo[w] = <<"archive">>
  BY <1>2 DEF TodoLists, Left, File, FileOrder
<1>3. CASE todo[w] = FileOrder
  <2>1. Head(todo[w]) = "live" /\ Tail(todo[w]) = <<"archive">>
    BY <1>3 DEF FileOrder
  <2>2. Left(w) = {"live", "archive"}
    BY <1>3 DEF FileOrder, Left
  <2>3. {<<"archive">>[k] : k \in DOMAIN <<"archive">>} = {"archive"}
    OBVIOUS
  <2> QED
    BY <2>1, <2>2, <2>3 DEF TodoLists, File
<1> QED
  BY <1>1, <1>2, <1>3 DEF TodoLists

\* The files a publish has to rename.
LEMMA StaleFacts ==
  ASSUME NEW rows
  PROVE  /\ Stale(rows) \in TodoLists
         /\ \A f \in File : file[f] # Render(rows)[f] =>
              f \in {Stale(rows)[k] : k \in DOMAIN Stale(rows)}
<1> DEFINE live == file["live"] # Render(rows)["live"]
           archive == file["archive"] # Render(rows)["archive"]
<1>1. CASE ~live /\ ~archive
  BY <1>1 DEF Stale, TodoLists, FileOrder, File
<1>2. CASE live /\ ~archive
  <2>1. Stale(rows) = <<"live">>
    BY <1>2 DEF Stale
  <2> QED
    BY <1>2, <2>1 DEF TodoLists, File
<1>3. CASE ~live /\ archive
  <2>1. Stale(rows) = <<"archive">>
    BY <1>3 DEF Stale
  <2> QED
    BY <1>3, <2>1 DEF TodoLists, File
<1>4. CASE live /\ archive
  <2>1. Stale(rows) = <<"live">> \o <<"archive">>
    BY <1>4 DEF Stale
  <2>2. <<"live">> \o <<"archive">> = <<"live", "archive">>
    <3> DEFINE l == <<"live">>
               a == <<"archive">>
    <3>1. l \in Seq(File) /\ a \in Seq(File) /\ Len(l) = 1 /\ Len(a) = 1
      BY DEF File
    <3>2. l \o a \in Seq(File) /\ Len(l \o a) = 2
      BY <3>1
    <3>3. (l \o a)[1] = "live" /\ (l \o a)[2] = "archive"
      BY <3>1
    <3>4. <<"live", "archive">> \in Seq(File) /\ Len(<<"live", "archive">>) = 2
      BY DEF File
    <3> DEFINE s == l \o a
               t == <<"live", "archive">>
    <3>5. s \in Seq(File) /\ t \in Seq(File) /\ Len(s) = Len(t)
      BY <3>2, <3>4
    <3>6. \A i \in 1..Len(s) : s[i] = t[i]
      BY <3>2, <3>3
    <3> HIDE DEF s, t
    <3>7. s = t
      BY <3>5, <3>6, SeqEqual
    <3> QED
      BY <3>7 DEF s, t
  <2> QED
    BY <1>4, <2>1, <2>2 DEF TodoLists, File, FileOrder
<1> QED
  BY <1>1, <1>2, <1>3, <1>4

-----------------------------------------------------------------------------
\* An empty store and empty files.
LEMMA RInit == Init => RInv
<1> SUFFICES ASSUME Init PROVE RInv
  OBVIOUS
<1>1. /\ Render(NoRows) \in [File -> SUBSET ItemLine]
      /\ \A f \in File, i \in Item, s \in 1..2 : <<i, s>> \notin Render(NoRows)[f]
  BY RenderFacts, NoRowsType DEF NoRows
<1>2. TypeOK
  <2>1. /\ store \in [Item -> 0..2] /\ tx \in [Writer -> [Item -> 0..2]]
        /\ file \in [File -> SUBSET (ItemLine \cup Hand)]
        /\ image \in [Writer -> [File -> SUBSET ItemLine]]
    BY <1>1, NoRowsType DEF Init
  <2>2. ops \in 0..MaxOps /\ crashes \in 0..MaxCrashes
    BY RoadmapWriteAssumption DEF Init
  <2> QED
    BY <2>1, <2>2 DEF Init, TypeOK, Results
<1>3. LockOwned /\ RowsOrdered /\ AckedDurable /\ AloneExact /\ RepairConverges
  BY RoadmapWriteAssumption
  DEF Init, LockOwned, RowsOrdered, AckedDurable, AloneExact, RepairConverges,
      InTransaction, Committed, NoWriter
<1>4. FileNeverAhead /\ ImageNeverAhead
  BY <1>1 DEF Init, FileNeverAhead, ImageNeverAhead
<1>5. SeenKept
  <2>1. \A f \in File : file[f] \cap Hand = {}
    BY <1>1, HandNotRendered DEF Init
  <2> QED
    BY <2>1 DEF Init, SeenKept
<1> QED
  BY <1>2, <1>3, <1>4, <1>5 DEF RInv

\* A call that returns, or dies, leaves the store and the files alone.
LEMMA LeaveKeeps ==
  ASSUME RInv, NEW w \in Writer, NEW r \in Results, Leave(w, r),
         UNCHANGED <<disk, edited, alone>>,
         ops' \in 0..MaxOps, crashes' \in 0..MaxCrashes, window' \in BOOLEAN,
         acked' = acked \/ (pc[w] \in Committed /\ acked' = acked \cup Written(w)),
         r = "Ok" => pc[w] = "land" /\ todo[w] = <<>>
  PROVE  RInv'
<1>1. TypeOK'
  <2>1. acked' \subseteq ItemLine
    BY DEF RInv, TypeOK, Written, ItemLine
  <2> QED
    BY <2>1, RenderFacts, NoRowsType DEF RInv, TypeOK, Leave, disk
<1>2. LockOwned'
  BY RoadmapWriteAssumption DEF RInv, TypeOK, LockOwned, Leave, InTransaction, NoWriter
<1>3. RowsOrdered'
  BY DEF RInv, TypeOK, RowsOrdered, Leave, InTransaction, Committed, disk
<1>4. FileNeverAhead' /\ ImageNeverAhead'
  BY DEF RInv, TypeOK, FileNeverAhead, ImageNeverAhead, Leave, disk
<1>5. AckedDurable'
  <2>1. \A a \in Written(w) : pc[w] \in Committed => a[2] <= store[a[1]]
    BY DEF Written, RInv, RowsOrdered, TypeOK
  <2> QED
    BY <2>1 DEF RInv, AckedDurable, disk
<1>6. AloneExact'
  BY DEF RInv, TypeOK, AloneExact, Leave, disk, Left
<1>7. RepairConverges'
  <2> SUFFICES ASSUME NEW u \in Writer, result'[u] = "Ok", pc'[u] = "idle", alone'[u]
               PROVE  file' = Render(store')
    BY DEF RepairConverges, Render
  <2>1. CASE u # w
    BY <2>1 DEF RInv, TypeOK, RepairConverges, Leave, disk
  <2>2. CASE u = w
    <3>1. pc[w] = "land" /\ todo[w] = <<>> /\ alone[w]
      BY <2>2 DEF Leave, RInv, TypeOK
    <3>2. \A f \in File : file[f] = Render(store)[f]
      BY <3>1 DEF RInv, AloneExact, Left
    <3> QED
      BY <3>2, RenderFacts DEF RInv, TypeOK, disk
  <2> QED
    BY <2>1, <2>2
<1>8. SeenKept'
  BY DEF RInv, TypeOK, SeenKept, Leave, disk
<1> QED
  BY <1>1, <1>2, <1>3, <1>4, <1>5, <1>6, <1>7, <1>8 DEF RInv

\* A step that leaves the store, the files and the lock's owner alone.
LEMMA PreImageKeeps ==
  ASSUME RInv, NEW w \in Writer, renderPreImage(w) PROVE RInv'
<1>1. TypeOK'
  <2>1. Render(Rows(w)) \in [File -> SUBSET ItemLine]
    BY RenderFacts DEF Rows, RInv, TypeOK
  <2>2. ops' \in 0..MaxOps
    BY RoadmapWriteAssumption DEF renderPreImage, RInv, TypeOK
  <2> QED
    BY <2>1, <2>2 DEF RInv, TypeOK, renderPreImage, disk, Results
<1>2. LockOwned' /\ RowsOrdered'
  BY DEF RInv, TypeOK, LockOwned, RowsOrdered, renderPreImage, disk, InTransaction, Committed
<1>3. FileNeverAhead' /\ ImageNeverAhead' /\ AckedDurable'
  BY DEF RInv, TypeOK, FileNeverAhead, ImageNeverAhead, AckedDurable, renderPreImage, disk
<1>4. AloneExact'
  <2> SUFFICES ASSUME NEW u \in Writer, alone'[u], pc'[u] = "land"
               PROVE  /\ image'[u] = Render(store')
                      /\ \A f \in File \ Left(u)' : file'[f] = Render(store')[f]
    BY DEF AloneExact, Render
  <2>1. u # w /\ pc[u] = "land" /\ image'[u] = image[u]
    BY DEF RInv, TypeOK, renderPreImage
  <2> QED
    BY <2>1 DEF RInv, AloneExact, renderPreImage, disk, Left
<1>5. RepairConverges'
  BY DEF RInv, TypeOK, RepairConverges, renderPreImage, disk
<1>6. SeenKept'
  BY DEF RInv, TypeOK, SeenKept, renderPreImage, disk
<1> QED
  BY <1>1, <1>2, <1>3, <1>4, <1>5, <1>6 DEF RInv

\* The drift check reads the files.
LEMMA DriftKeeps ==
  ASSUME RInv, NEW w \in Writer, externalDrift(w) PROVE RInv'
<1>1. TypeOK'
  BY DEF RInv, TypeOK, externalDrift, disk, budget
<1>2. LockOwned' /\ RowsOrdered'
  BY DEF RInv, TypeOK, LockOwned, RowsOrdered, externalDrift, disk, InTransaction, Committed
<1>3. FileNeverAhead' /\ ImageNeverAhead' /\ AckedDurable'
  BY DEF RInv, TypeOK, FileNeverAhead, ImageNeverAhead, AckedDurable, externalDrift, disk
<1>4. AloneExact' /\ RepairConverges'
  BY DEF RInv, TypeOK, AloneExact, RepairConverges, externalDrift, disk, Left
<1>5. SeenKept'
  <2>1. \A f \in File : \A h \in Hand : h \notin image[w][f]
    BY HandNotRendered DEF RInv, TypeOK
  <2>2. seen'[w] \subseteq Hand /\ seen'[w] \subseteq edited
    BY DEF RInv, TypeOK, SeenKept, externalDrift
  <2>3. \A f \in File : seen'[w] \cap file[f] # {} => f \in lostFiles'[w]
    BY <2>1, <2>2 DEF RInv, TypeOK, externalDrift
  <2>4. \A u \in Writer : u # w =>
          seen'[u] = seen[u] /\ lostFiles'[u] = lostFiles[u] /\ pc'[u] = pc[u]
    BY DEF RInv, TypeOK, externalDrift
  <2> QED
    BY <2>2, <2>3, <2>4 DEF RInv, TypeOK, SeenKept, externalDrift, disk, budget
<1> QED
  BY <1>1, <1>2, <1>3, <1>4, <1>5 DEF RInv

\* BEGIN IMMEDIATE.
LEMMA BeginKeeps ==
  ASSUME RInv, NEW w \in Writer, Begin(w) PROVE RInv'
<1>1. TypeOK'
  BY DEF RInv, TypeOK, Begin, disk, budget
<1>2. LockOwned'
  BY RoadmapWriteAssumption DEF RInv, TypeOK, LockOwned, Begin, InTransaction, NoWriter
<1>3. RowsOrdered'
  <2> SUFFICES ASSUME NEW u \in Writer, NEW i \in Item
               PROVE  /\ pc'[u] \in InTransaction => store'[i] <= tx'[u][i]
                      /\ pc'[u] \in Committed => tx'[u][i] <= store'[i]
    BY DEF RowsOrdered
  <2>1. store' = store /\ store[i] \in 0..2
    BY DEF Begin, disk, RInv, TypeOK
  <2>2. CASE u = w
    BY <2>1, <2>2 DEF RInv, TypeOK, Begin
  <2>3. CASE u # w
    BY <2>1, <2>3 DEF RInv, TypeOK, RowsOrdered, Begin
  <2> QED
    BY <2>2, <2>3
<1>4. FileNeverAhead' /\ ImageNeverAhead' /\ AckedDurable'
  BY DEF RInv, TypeOK, FileNeverAhead, ImageNeverAhead, AckedDurable, Begin, disk
<1>5. AloneExact' /\ RepairConverges'
  BY DEF RInv, TypeOK, AloneExact, RepairConverges, Begin, disk, Left
<1>6. SeenKept'
  BY DEF RInv, TypeOK, SeenKept, Begin, disk, budget
<1> QED
  BY <1>1, <1>2, <1>3, <1>4, <1>5, <1>6 DEF RInv

\* A mutation keeps every row or advances one by a single status.
LEMMA MutationFacts ==
  ASSUME NEW rows \in [Item -> 0..2], NEW next \in Mutations(rows)
  PROVE  next \in [Item -> 0..2] /\ \A i \in Item : rows[i] <= next[i]
<1>1. CASE next = rows
  BY <1>1
<1>2. CASE \E j \in Item : rows[j] < 2 /\ next = [rows EXCEPT ![j] = @ + 1]
  BY <1>2
<1> QED
  BY <1>1, <1>2 DEF Mutations

\* Mutation and dry render inside the transaction.
LEMMA ValidateKeeps ==
  ASSUME RInv, NEW w \in Writer, Validate(w) PROVE RInv'
<1> PICK rows \in Mutations(tx[w]) : tx' = [tx EXCEPT ![w] = rows]
  BY DEF Validate
<1>0. rows \in [Item -> 0..2] /\ \A i \in Item : tx[w][i] <= rows[i]
  BY MutationFacts DEF RInv, TypeOK
<1>1. TypeOK'
  BY <1>0 DEF RInv, TypeOK, Validate, disk, budget
<1>2. LockOwned'
  BY DEF RInv, TypeOK, LockOwned, Validate, InTransaction
<1>3. RowsOrdered'
  <2> SUFFICES ASSUME NEW u \in Writer, NEW i \in Item
               PROVE  /\ pc'[u] \in InTransaction => store'[i] <= tx'[u][i]
                      /\ pc'[u] \in Committed => tx'[u][i] <= store'[i]
    BY DEF RowsOrdered
  <2>1. store' = store /\ store[i] \in 0..2 /\ tx[u][i] \in 0..2 /\ rows[i] \in 0..2
    BY <1>0 DEF Validate, disk, RInv, TypeOK
  <2>2. CASE u = w
    <3>1. store[i] <= tx[w][i] /\ tx[w][i] <= rows[i] /\ tx'[w][i] = rows[i]
      BY <1>0 DEF RInv, TypeOK, RowsOrdered, Validate, InTransaction
    <3> QED
      BY <2>1, <2>2, <3>1 DEF RInv, TypeOK, Validate, Committed
  <2>3. CASE u # w
    BY <2>1, <2>3 DEF RInv, TypeOK, RowsOrdered, Validate
  <2> QED
    BY <2>2, <2>3
<1>4. FileNeverAhead' /\ ImageNeverAhead' /\ AckedDurable'
  BY DEF RInv, TypeOK, FileNeverAhead, ImageNeverAhead, AckedDurable, Validate, disk
<1>5. AloneExact' /\ RepairConverges'
  BY DEF RInv, TypeOK, AloneExact, RepairConverges, Validate, disk, Left
<1>6. SeenKept'
  BY DEF RInv, TypeOK, SeenKept, Validate, disk, budget
<1> QED
  BY <1>1, <1>2, <1>3, <1>4, <1>5, <1>6 DEF RInv

\* The commit only raises rows: nothing rendered, landed or reported before
\* it is ahead of the store after it.
LEMMA CommitKeeps ==
  ASSUME RInv, NEW w \in Writer, Commit(w) PROVE RInv'
<1>0. store' \in [Item -> 0..2] /\ \A i \in Item : store[i] <= store'[i]
  BY DEF RInv, TypeOK, RowsOrdered, Commit, InTransaction
<1>1. TypeOK'
  BY <1>0 DEF RInv, TypeOK, Commit, locals, budget, NotTheOthers
<1>2. LockOwned'
  BY RoadmapWriteAssumption DEF RInv, TypeOK, LockOwned, Commit, InTransaction, NoWriter
<1>3. RowsOrdered'
  <2> SUFFICES ASSUME NEW u \in Writer, NEW i \in Item
               PROVE  /\ pc'[u] \in InTransaction => store'[i] <= tx'[u][i]
                      /\ pc'[u] \in Committed => tx'[u][i] <= store'[i]
    BY DEF RowsOrdered
  <2>1. tx' = tx /\ tx[u][i] \in 0..2 /\ store[i] \in 0..2 /\ store'[i] \in 0..2
    BY <1>0 DEF Commit, locals, RInv, TypeOK
  <2>2. CASE u = w
    BY <2>1, <2>2 DEF RInv, TypeOK, Commit, InTransaction, Committed
  <2>3. CASE u # w
    <3>1. pc'[u] = pc[u] /\ pc[u] \notin InTransaction
      BY <2>3 DEF RInv, TypeOK, LockOwned, Commit, InTransaction
    <3> QED
      BY <1>0, <2>1, <3>1 DEF RInv, RowsOrdered
  <2> QED
    BY <2>2, <2>3
<1>4. FileNeverAhead' /\ ImageNeverAhead'
  <2>1. \A i \in Item, s \in 1..2 : s <= store[i] => s <= store'[i]
    <3> SUFFICES ASSUME NEW i \in Item, NEW s \in 1..2, s <= store[i] PROVE s <= store'[i]
      OBVIOUS
    <3>1. store[i] \in 0..2 /\ store'[i] \in 0..2 /\ store[i] <= store'[i]
      BY <1>0 DEF RInv, TypeOK
    <3> QED
      BY <3>1
  <2>2. FileNeverAhead'
    BY <2>1 DEF RInv, FileNeverAhead, Commit
  <2>3. \A u \in Writer : pc'[u] = "land" => pc[u] = "land" /\ image'[u] = image[u]
    BY DEF RInv, TypeOK, Commit, locals
  <2>4. ImageNeverAhead'
    BY <2>1, <2>3 DEF RInv, ImageNeverAhead
  <2> QED
    BY <2>2, <2>4
<1>5. AckedDurable'
  <2> SUFFICES ASSUME NEW a \in acked PROVE a[2] <= store'[a[1]]
    BY DEF AckedDurable, Commit
  <2>1. a[1] \in Item /\ a[2] \in {1, 2}
    BY DEF RInv, TypeOK, ItemLine
  <2>2. a[2] <= store[a[1]]
    BY DEF RInv, AckedDurable
  <2>3. store[a[1]] \in 0..2 /\ store'[a[1]] \in 0..2 /\ store[a[1]] <= store'[a[1]]
    BY <1>0, <2>1 DEF RInv, TypeOK
  <2> QED
    BY <2>1, <2>2, <2>3
<1>6. AloneExact' /\ RepairConverges'
  BY DEF RInv, TypeOK, AloneExact, RepairConverges, Commit, NotTheOthers
<1>7. SeenKept'
  BY DEF RInv, TypeOK, SeenKept, Commit, locals, budget
<1> QED
  BY <1>1, <1>2, <1>3, <1>4, <1>5, <1>6, <1>7 DEF RInv

\* Copies of what the publish will discard.
LEMMA KeepKeeps ==
  ASSUME RInv, NEW w \in Writer, keepDiscarded(w) PROVE RInv'
<1> PICK kept \in SUBSET lostFiles[w] :
       /\ backup' = backup \cup UNION {file[f] : f \in kept}
       /\ uncopied' = [uncopied EXCEPT ![w] = lostFiles[w] \ kept]
  BY DEF keepDiscarded
<1>1. TypeOK'
  <2>1. kept \subseteq File
    BY DEF RInv, TypeOK
  <2>2. backup' \subseteq ItemLine \cup Hand
    BY <2>1 DEF RInv, TypeOK
  <2> QED
    BY <2>1, <2>2 DEF RInv, TypeOK, keepDiscarded, budget
<1>2. LockOwned' /\ RowsOrdered'
  BY DEF RInv, TypeOK, LockOwned, RowsOrdered, keepDiscarded, InTransaction, Committed
<1>3. FileNeverAhead' /\ ImageNeverAhead' /\ AckedDurable'
  BY DEF RInv, TypeOK, FileNeverAhead, ImageNeverAhead, AckedDurable, keepDiscarded
<1>4. AloneExact' /\ RepairConverges'
  BY DEF RInv, TypeOK, AloneExact, RepairConverges, keepDiscarded, Left
<1>5. SeenKept'
  <2>1. \A f \in lostFiles[w] : f \in uncopied'[w] \/ file[f] \subseteq backup'
    BY DEF RInv, TypeOK
  <2>2. \A f \in File : \A h \in seen[w] \cap file[f] : f \in lostFiles[w]
    BY DEF RInv, SeenKept, keepDiscarded
  <2>3. \A f \in File : \A h \in seen[w] \cap file[f] : h \in backup' \/ f \in uncopied'[w]
    BY <2>1, <2>2
  <2>4. backup \subseteq backup'
    OBVIOUS
  <2> QED
    BY <2>3, <2>4 DEF RInv, TypeOK, SeenKept, keepDiscarded, budget
<1> QED
  BY <1>1, <1>2, <1>3, <1>4, <1>5 DEF RInv

\* The publishing render runs outside the transaction: it sees the store.
LEMMA StageKeeps ==
  ASSUME RInv, NEW w \in Writer, Stage(w) PROVE RInv'
<1>0. Rows(w) = store
  BY DEF Rows, RInv, LockOwned, Stage, InTransaction
<1>1. TypeOK'
  <2>1. Render(Rows(w)) \in [File -> SUBSET ItemLine]
    BY <1>0, RenderFacts DEF RInv, TypeOK
  <2>2. Stale(Rows(w)) \in TodoLists
    BY StaleFacts
  <2> QED
    BY <2>1, <2>2 DEF RInv, TypeOK, Stage, disk, budget, TodoLists
<1>2. LockOwned' /\ RowsOrdered'
  BY DEF RInv, TypeOK, LockOwned, RowsOrdered, Stage, disk, InTransaction, Committed
<1>3. FileNeverAhead' /\ AckedDurable'
  BY DEF RInv, FileNeverAhead, AckedDurable, Stage, disk
<1>4. ImageNeverAhead'
  <2> SUFFICES ASSUME NEW u \in Writer, NEW f \in File, NEW i \in Item, NEW s \in 1..2,
                      pc'[u] = "land", <<i, s>> \in image'[u][f]
               PROVE  s <= store[i]
    BY DEF ImageNeverAhead, Stage, disk
  <2>1. CASE u = w
    <3>1. <<i, s>> \in Render(store)[f]
      BY <1>0, <2>1 DEF Stage, RInv, TypeOK
    <3>2. s = store[i]
      BY <3>1, RenderFacts DEF RInv, TypeOK
    <3> QED
      BY <3>2
  <2>2. CASE u # w
    BY <2>2 DEF RInv, TypeOK, ImageNeverAhead, Stage
  <2> QED
    BY <2>1, <2>2
<1>5. AloneExact'
  <2>0. UNCHANGED <<store, file>>
    BY DEF Stage, disk
  <2> SUFFICES ASSUME NEW u \in Writer, alone'[u], pc'[u] = "land"
               PROVE  /\ image'[u] = Render(store)
                      /\ \A f \in File \ Left(u)' : file[f] = Render(store)[f]
    BY <2>0 DEF AloneExact, Render
  <2>1. CASE u = w
    <3>1. image'[w] = Render(store) /\ todo'[w] = Stale(store)
      BY <1>0 DEF Stage, RInv, TypeOK
    <3>2. Left(w)' = {Stale(store)[k] : k \in DOMAIN Stale(store)}
      BY <3>1 DEF Left
    <3> QED
      BY <2>1, <3>1, <3>2, StaleFacts
  <2>2. CASE u # w
    <3>1. alone[u] /\ pc[u] = "land" /\ image'[u] = image[u] /\ todo'[u] = todo[u]
      BY <2>2 DEF Stage, RInv, TypeOK
    <3> QED
      BY <3>1 DEF RInv, AloneExact, Left
  <2> QED
    BY <2>1, <2>2
<1>6. RepairConverges'
  BY DEF RInv, TypeOK, RepairConverges, Stage, disk
<1>7. SeenKept'
  BY DEF RInv, TypeOK, SeenKept, Stage, disk, budget
<1> QED
  BY <1>1, <1>2, <1>3, <1>4, <1>5, <1>6, <1>7 DEF RInv

\* One rename.
LEMMA LandKeeps ==
  ASSUME RInv, NEW w \in Writer, Land(w) PROVE RInv'
<1> DEFINE g == Head(todo[w])
<1>0. /\ g \in File /\ Tail(todo[w]) \in TodoLists
      /\ Left(w) = {g} \cup {Tail(todo[w])[k] : k \in DOMAIN Tail(todo[w])}
  BY TodoFacts DEF RInv, TypeOK, Land, TodoLists
<1>00. \A f \in File : file'[f] = IF f = g THEN image[w][g] ELSE file[f]
  BY <1>0 DEF Land, RInv, TypeOK
<1> HIDE DEF g
<1>1. TypeOK'
  BY <1>0 DEF RInv, TypeOK, Land, budget, NotTheOthers, TodoLists, g
<1>2. LockOwned' /\ RowsOrdered'
  BY DEF RInv, LockOwned, RowsOrdered, Land
<1>3. FileNeverAhead'
  BY <1>00 DEF RInv, FileNeverAhead, ImageNeverAhead, Land
<1>4. ImageNeverAhead' /\ AckedDurable'
  BY DEF RInv, ImageNeverAhead, AckedDurable, Land
<1>5. AloneExact'
  <2> SUFFICES ASSUME NEW u \in Writer, alone'[u], pc'[u] = "land"
               PROVE  /\ image'[u] = Render(store)
                      /\ \A f \in File \ Left(u)' : file'[f] = Render(store)[f]
    BY DEF AloneExact, Render, Land
  <2>1. u = w /\ alone[w]
    BY DEF Land, NotTheOthers
  <2>2. image[w] = Render(store) /\ \A f \in File \ Left(w) : file[f] = Render(store)[f]
    BY <2>1 DEF RInv, AloneExact, Land
  <2>3. Left(w)' = {Tail(todo[w])[k] : k \in DOMAIN Tail(todo[w])}
    BY DEF Left, Land, RInv, TypeOK
  <2> QED
    BY <1>0, <1>00, <2>1, <2>2, <2>3 DEF Land
<1>6. RepairConverges'
  BY DEF RepairConverges, Land, NotTheOthers
<1>7. SeenKept'
  <2>1. \A f \in File : file'[f] \cap Hand \subseteq file[f] \cap Hand
    BY <1>00, HandNotRendered DEF RInv, TypeOK
  <2>2. \A u \in Writer : seen[u] \subseteq Hand
    BY DEF RInv, TypeOK
  <2>3. UNCHANGED <<pc, seen, edited, lostFiles, backup, uncopied>>
    BY DEF Land, budget
  <2> QED
    BY <2>1, <2>2, <2>3 DEF RInv, SeenKept
<1> QED
  BY <1>1, <1>2, <1>3, <1>4, <1>5, <1>6, <1>7 DEF RInv

\* The editor saves a file.
LEMMA EditKeeps ==
  ASSUME RInv, NEW h \in Hand, NEW f \in File, Edit(h, f) PROVE RInv'
<1>0. \A e \in File : file'[e] = IF e = f THEN file[f] \cup {h} ELSE file[e]
  BY DEF Edit, RInv, TypeOK
<1>1. TypeOK'
  BY DEF RInv, TypeOK, Edit, locals
<1>2. LockOwned' /\ RowsOrdered'
  BY DEF RInv, LockOwned, RowsOrdered, Edit, locals
<1>3. FileNeverAhead'
  <2>1. \A i \in Item, s \in 1..2 : h # <<i, s>>
    BY RoadmapWriteAssumption DEF Hand
  <2>2. store' = store
    BY DEF Edit
  <2>3. \A e \in File, i \in Item, s \in 1..2 : <<i, s>> \in file'[e] => <<i, s>> \in file[e]
    BY <1>0, <2>1
  <2> QED
    BY <2>2, <2>3 DEF RInv, FileNeverAhead
<1>4. ImageNeverAhead' /\ AckedDurable'
  BY DEF RInv, ImageNeverAhead, AckedDurable, Edit, locals
<1>5. AloneExact' /\ RepairConverges'
  BY DEF AloneExact, RepairConverges, Edit
<1>6. SeenKept'
  <2>1. \A u \in Writer : h \notin seen[u]
    BY DEF RInv, SeenKept, Edit
  <2>2. UNCHANGED <<pc, seen, lostFiles, backup, uncopied>> /\ edited' = edited \cup {h}
    BY DEF Edit, locals
  <2> QED
    BY <1>0, <2>1, <2>2 DEF RInv, SeenKept
<1> QED
  BY <1>1, <1>2, <1>3, <1>4, <1>5, <1>6 DEF RInv

-----------------------------------------------------------------------------
\* An operation ends or its writer dies.
LEMMA ReturnKeeps ==
  ASSUME RInv, NEW w \in Writer,
         \/ BeginFails(w) \/ Refuse(w) \/ CommitFails(w) \/ Published(w)
         \/ PublishFails(w) \/ Crash(w)
  PROVE  RInv'
<1>0. ops \in 0..MaxOps /\ crashes \in 0..MaxCrashes /\ window \in BOOLEAN
  BY DEF RInv, TypeOK
<1>1. CASE BeginFails(w)
  BY <1>0, <1>1, LeaveKeeps DEF BeginFails, budget, Results
<1>2. CASE Refuse(w)
  BY <1>0, <1>2, LeaveKeeps DEF Refuse, budget, Results
<1>3. CASE CommitFails(w)
  BY <1>0, <1>3, LeaveKeeps DEF CommitFails, budget, Results
<1>4. CASE Published(w)
  BY <1>0, <1>4, LeaveKeeps DEF Published, budget, Results, Committed
<1>5. CASE PublishFails(w)
  BY <1>0, <1>5, LeaveKeeps DEF PublishFails, budget, Results, Committed
<1>6. CASE Crash(w)
  <2>1. crashes' \in 0..MaxCrashes
    BY <1>0, <1>6, RoadmapWriteAssumption DEF Crash
  <2> QED
    BY <1>0, <1>6, <2>1, LeaveKeeps DEF Crash, Results
<1> QED
  BY <1>1, <1>2, <1>3, <1>4, <1>5, <1>6

\* Every step of every writer and of the editor keeps the invariant.
LEMMA RStep == RInv /\ [Next]_vars => RInv'
<1> SUFFICES ASSUME RInv, [Next]_vars PROVE RInv'
  OBVIOUS
<1>1. CASE UNCHANGED vars
  <2> USE <1>1 DEF vars
  <2>1. TypeOK' /\ LockOwned' /\ RowsOrdered'
    BY DEF RInv, TypeOK, LockOwned, RowsOrdered
  <2>2. FileNeverAhead' /\ ImageNeverAhead' /\ AckedDurable'
    BY DEF RInv, FileNeverAhead, ImageNeverAhead, AckedDurable
  <2>3. AloneExact' /\ RepairConverges'
    BY DEF RInv, AloneExact, RepairConverges, Left, Render
  <2>4. SeenKept'
    BY DEF RInv, SeenKept
  <2> QED
    BY <2>1, <2>2, <2>3, <2>4 DEF RInv
<1>2. ASSUME NEW w \in Writer, Step(w) \/ Crash(w) PROVE RInv'
  BY <1>2, PreImageKeeps, DriftKeeps, BeginKeeps, ValidateKeeps, CommitKeeps,
     KeepKeeps, StageKeeps, LandKeeps, ReturnKeeps DEF Step
<1>3. ASSUME NEW h \in Hand, NEW f \in File, Edit(h, f) PROVE RInv'
  BY <1>3, EditKeeps
<1> QED
  BY <1>1, <1>2, <1>3 DEF Next

\* The inductive invariant holds in every reachable state.
THEOREM WriteInvariant == Spec => []RInv
BY RInit, RStep, PTL DEF Spec

\* Every variable keeps its type.
THEOREM WriteTypeCorrect == Spec => []TypeOK
<1>1. RInv => TypeOK
  BY DEF RInv
<1> QED
  BY <1>1, WriteInvariant, PTL

\* No rendered line runs ahead of the committed rows, whichever writers fail,
\* die or overlap between commit and publish.
THEOREM FilesFollowTheStore == Spec => []FileNeverAhead
<1>1. RInv => FileNeverAhead
  BY DEF RInv
<1> QED
  BY <1>1, WriteInvariant, PTL

\* A write that commitAndRender reported is never taken back.
THEOREM ReportedWritesStay == Spec => []AckedDurable
<1>1. RInv => AckedDurable
  BY DEF RInv
<1> QED
  BY <1>1, WriteInvariant, PTL

\* An Ok publish that nothing overlapped leaves every file equal to the render
\* of the store.
THEOREM OkRepairsEveryFile == Spec => []RepairConverges
<1>1. RInv => RepairConverges
  BY DEF RInv
<1> QED
  BY <1>1, WriteInvariant, PTL

\* A rename of the publish destroys no line its drift check read, unless the
\* line was copied or its copy failed and the outcome says so.
THEOREM NoTextLostSilently == Spec => TextKept
<1> DEFINE Kept ==
      \A w \in Writer : \A f \in File :
        (todo[w] # <<>> /\ Head(todo[w]) = f /\ todo'[w] # todo[w]) =>
          \A h \in (file[f] \ file'[f]) \cap seen[w] :
            h \in backup \/ f \in uncopied[w]
<1>1. RInv /\ [Next]_vars => [Kept]_vars
  <2> SUFFICES ASSUME RInv, Next, NEW w \in Writer, NEW f \in File,
                      todo'[w] # todo[w],
                      NEW h \in (file[f] \ file'[f]) \cap seen[w]
               PROVE  h \in backup \/ f \in uncopied[w]
    OBVIOUS
  <2>1. pc[w] \in {"render", "land"} => h \in backup \/ f \in uncopied[w]
    BY DEF RInv, SeenKept
  <2>2. ASSUME NEW u \in Writer, Step(u) \/ Crash(u)
        PROVE  file' = file \/ (Land(u) /\ u = w)
    <3>1. CASE Land(u)
      BY <3>1 DEF Land, RInv, TypeOK
    <3> QED
      BY <2>2, <3>1 DEF Step, Crash, renderPreImage, externalDrift, Begin, BeginFails,
         Validate, Refuse, Commit, CommitFails, keepDiscarded, Stage, Published,
         PublishFails, disk
  <2>3. ASSUME NEW e \in Hand, NEW d \in File, Edit(e, d) PROVE todo' = todo
    BY <2>3 DEF Edit, locals
  <2>4. Land(w) => pc[w] = "land"
    BY DEF Land
  <2> QED
    BY <2>1, <2>2, <2>3, <2>4 DEF Next
<1> QED
  BY <1>1, WriteInvariant, PTL DEF Spec, TextKept

-----------------------------------------------------------------------------
(* One writer at a time. *)

\* A call that returns leaves the files as the store has them.
LEMMA SoloReturns ==
  ASSUME RInv, SoloExact, ~window, NEW w \in Writer, \A u \in Writer : u = w,
         pc[w] \notin {"keep", "render"}, pc[w] = "land" => todo[w] = <<>>
  PROVE  file = Render(store)
<1>1. CASE pc[w] = "land"
  <2>1. alone[w] /\ todo[w] = <<>>
    BY <1>1 DEF SoloExact
  <2>2. Left(w) = {}
    BY <2>1 DEF Left
  <2>3. \A f \in File : file[f] = Render(store)[f]
    BY <1>1, <2>1, <2>2 DEF RInv, AloneExact
  <2>4. file \in [File -> SUBSET (ItemLine \cup Hand)] /\ Render(store) \in [File -> SUBSET ItemLine]
    BY RenderFacts DEF RInv, TypeOK
  <2> QED
    BY <2>3, <2>4
<1>2. CASE pc[w] # "land"
  BY <1>2 DEF SoloExact, Committed
<1> QED
  BY <1>1, <1>2

\* Every step keeps the files with the store, or says that it does not.
LEMMA SoloStep ==
  ASSUME RInv, SoloExact, [Next]_vars, \A u, v \in Writer : u = v
  PROVE  SoloExact'
<1> SUFFICES ASSUME ~window'
             PROVE  /\ \A w \in Writer : pc'[w] = "land" => alone'[w]
                    /\ file' = Render(store)' \/ \E w \in Writer : pc'[w] \in Committed
  BY DEF SoloExact
<1>0. pc \in [Writer -> {"idle", "drift", "begin", "mutate", "commit", "keep", "render", "land"}]
      /\ alone \in [Writer -> BOOLEAN]
  BY DEF RInv, TypeOK
<1>1. CASE UNCHANGED vars
  BY <1>1 DEF vars, SoloExact, Render
<1>2. ASSUME NEW h \in Hand, NEW f \in File, Edit(h, f) PROVE FALSE
  BY <1>2 DEF Edit
<1>3. ASSUME NEW w \in Writer, Crash(w) \/ PublishFails(w) PROVE FALSE
  BY <1>3 DEF Crash, PublishFails
<1>4. ASSUME NEW w \in Writer, Step(w), ~PublishFails(w)
      PROVE  /\ \A u \in Writer : pc'[u] = "land" => alone'[u]
             /\ file' = Render(store)' \/ \E u \in Writer : pc'[u] \in Committed
  <2>0. \A u \in Writer : u = w
    OBVIOUS
  <2>1. ~window
    BY <1>4 DEF Step, renderPreImage, externalDrift, Begin, BeginFails, Validate, Refuse, Commit,
       CommitFails, keepDiscarded, Stage, Land, Published
  <2>2. CASE \/ renderPreImage(w) \/ externalDrift(w) \/ Begin(w) \/ BeginFails(w) \/ Validate(w)
             \/ Refuse(w) \/ CommitFails(w) \/ Published(w)
    <3>1. pc[w] \notin {"keep", "render"} /\ (pc[w] = "land" => todo[w] = <<>>)
      BY <2>2 DEF renderPreImage, externalDrift, Begin, BeginFails, Validate, Refuse, CommitFails,
         Published
    <3>2. file' = file /\ store' = store /\ pc'[w] # "land"
      BY <1>0, <2>2 DEF renderPreImage, externalDrift, Begin, BeginFails, Validate, Refuse,
         CommitFails, Published, Leave, disk
    <3>3. file = Render(store)
      BY <2>0, <2>1, <3>1, SoloReturns
    <3>4. Render(store)' = Render(store)
      BY <3>2 DEF Render
    <3> QED
      BY <2>0, <3>2, <3>3, <3>4
  <2>3. CASE Commit(w) \/ keepDiscarded(w)
    <3>1. pc'[w] \in {"keep", "render"}
      BY <1>0, <2>3 DEF Commit, keepDiscarded
    <3> QED
      BY <2>0, <3>1 DEF Committed
  <2>4. CASE Stage(w)
    <3>1. pc'[w] = "land" /\ alone'[w]
      BY <1>0, <2>4 DEF Stage
    <3> QED
      BY <2>0, <3>1 DEF Committed
  <2>5. CASE Land(w)
    <3>1. pc[w] = "land" /\ pc' = pc /\ alone' = NotTheOthers(w)
      BY <2>5 DEF Land
    <3>2. alone[w]
      BY <2>1, <3>1 DEF SoloExact
    <3>3. alone'[w]
      BY <3>1, <3>2 DEF NotTheOthers
    <3> QED
      BY <2>0, <3>1, <3>3 DEF Committed
  <2> QED
    BY <1>4, <2>2, <2>3, <2>4, <2>5 DEF Step
<1> QED
  BY <1>1, <1>2, <1>3, <1>4 DEF Next

\* With a single writer the header's sentence is true: outside a failed publish, a death
\* and an editor's save, a project at rest has its files equal to the render of the store.
\* Two writers refute it (roadmapwrite.h, commitAndRender).
THEOREM SoloWriterKeepsTheWindow ==
  ASSUME \A u, v \in Writer : u = v
  PROVE  Spec => []OneWindow
<1>1. Init => SoloExact
  BY DEF Init, SoloExact
<1>2. RInv /\ SoloExact /\ [Next]_vars => SoloExact'
  BY SoloStep
<1>3. SoloExact => OneWindow
  BY DEF SoloExact, OneWindow, Committed
<1> QED
  BY <1>1, <1>2, <1>3, WriteInvariant, PTL DEF Spec
=============================================================================
