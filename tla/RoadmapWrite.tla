---------------------------- MODULE RoadmapWrite ----------------------------
(***************************************************************************)
(* Writers of one project's roadmap: the SQLite store is primary, the      *)
(* markdown files are rendered from it (RoadmapWrite::commitAndRender and  *)
(* RoadmapRender::render).  Several writers run at once: each window has   *)
(* its MCP workers and ants-mcpd is a process of its own; all of them hold *)
(* the shared half of RoadmapHold, which does not order them.  An editor   *)
(* may save the files at any moment and a writer's process may die.        *)
(*                                                                         *)
(* An item has a status: 0 not filed, 1 open (rendered in the live file),  *)
(* 2 closed (rendered in the archive).  A line of a file is an item with   *)
(* the status it was rendered from, or a line the editor wrote: a Bullet   *)
(* carries an id, a Note does not.  A writer's reads of the store for one  *)
(* render are one step, and so are its reads of the files for one check.   *)
(***************************************************************************)
EXTENDS Naturals, Sequences

CONSTANTS Writer,    \* MCP workers of every process
          Item,      \* ids the store allocates
          Bullet,    \* id-bearing lines only the editor writes
          Note,      \* id-less lines only the editor writes
          MaxOps,    \* bound: operations started
          MaxCrashes \* bound: writer deaths

ASSUME RoadmapWriteAssumption ==
  /\ MaxOps \in Nat /\ MaxCrashes \in Nat
  /\ Bullet \cap Note = {}
  /\ "nobody" \notin Writer
  /\ \A h \in Bullet \cup Note, i \in Item, s \in 1..2 : h # <<i, s>>

Hand == Bullet \cup Note
FileOrder == <<"live", "archive">>
File == {"live", "archive"}
NoWriter == "nobody"
Results == {"none", "Ok", "Previewed", "StoreFailed", "Refused", "WouldDrop", "PublishFailed"}

VARIABLES
  store,     \* committed status of every item
  file,      \* lines of every file on disk
  backup,    \* lines of the copies under ants-terminal/discarded
  lock,      \* the writer inside BEGIN IMMEDIATE
  pc,        \* where each writer is in commitAndRender
  tx,        \* the rows as the writer's connection sees them in its transaction
  image,     \* the writer's last render of the store
  lostFiles, \* DriftBreakdown::lostFiles
  todo,      \* staged files the publish has still to land, in order
  result,    \* what the writer's last call returned
  ops, crashes, edited, \* spent so far of each bound; the lines the editor wrote
  seen,      \* history: editor's lines the writer's drift check read
  uncopied,  \* history: lost files the writer could not back up
  acked,     \* history: <<item, status>> a call reported as written
  alone,     \* history: nothing else moved since the writer's publish began
  window     \* history: a publish failed, a writer died or the editor saved

vars == <<store, file, backup, lock, pc, tx, image, lostFiles, todo, result,
          ops, crashes, edited, seen, uncopied, acked, alone, window>>
disk == <<store, file, backup>>
locals == <<tx, image, lostFiles, todo, seen, uncopied>>
budget == <<ops, crashes, edited>>

(***************************************************************************)
(* render(): a section's source file decides where its items go.           *)
(***************************************************************************)
StatusIn(f) == IF f = "live" THEN 1 ELSE 2
Render(rows) ==
  [f \in File |-> {i \in Item : rows[i] = StatusIn(f)} \X {StatusIn(f)}]

\* A writer's queries run on its own connection: inside its transaction they
\* see its uncommitted rows, outside they see what is committed.
Rows(w) == IF lock = w THEN tx[w] ELSE store

NoRows == [i \in Item |-> 0]

Init ==
  /\ store = NoRows
  /\ file = Render(store)
  /\ backup = {}
  /\ lock = NoWriter
  /\ pc = [w \in Writer |-> "idle"]
  /\ tx = [w \in Writer |-> NoRows]
  /\ image = [w \in Writer |-> Render(NoRows)]
  /\ lostFiles = [w \in Writer |-> {}]
  /\ todo = [w \in Writer |-> <<>>]
  /\ result = [w \in Writer |-> "none"]
  /\ ops = 0 /\ crashes = 0 /\ edited = {}
  /\ seen = [w \in Writer |-> {}]
  /\ uncopied = [w \in Writer |-> {}]
  /\ acked = {}
  /\ alone = [w \in Writer |-> FALSE]
  /\ window = FALSE

\* commitAndRender returns r (or its process dies): its locals are gone, and
\* a transaction it left open is rolled back.
Leave(w, r) ==
  /\ pc' = [pc EXCEPT ![w] = "idle"]
  /\ result' = [result EXCEPT ![w] = r]
  /\ lock' = IF lock = w THEN NoWriter ELSE lock
  /\ tx' = [tx EXCEPT ![w] = NoRows]
  /\ image' = [image EXCEPT ![w] = Render(NoRows)]
  /\ lostFiles' = [lostFiles EXCEPT ![w] = {}]
  /\ todo' = [todo EXCEPT ![w] = <<>>]
  /\ seen' = [seen EXCEPT ![w] = {}]
  /\ uncopied' = [uncopied EXCEPT ![w] = {}]

(***************************************************************************)
(* Step 0: the pre-image and the drift of the files from it.  A pre-image  *)
(* that cannot be built is swallowed: nothing is measured.                 *)
(***************************************************************************)
renderPreImage(w) ==
  /\ pc[w] = "idle" /\ ops < MaxOps
  /\ ops' = ops + 1
  /\ \/ /\ pc' = [pc EXCEPT ![w] = "drift"]
        /\ image' = [image EXCEPT ![w] = Render(Rows(w))]
     \/ /\ pc' = [pc EXCEPT ![w] = "begin"]
        /\ UNCHANGED image
  /\ result' = [result EXCEPT ![w] = "none"]
  /\ UNCHANGED <<disk, lock, tx, lostFiles, todo, seen, uncopied, crashes,
                 edited, acked, alone, window>>

\* Mutant: only lines with an id count as lost.
BulletDrift(w) ==
  /\ pc[w] = "drift"
  /\ lostFiles' = [lostFiles EXCEPT ![w] =
                     {f \in File : (file[f] \ image[w][f]) \ Note # {}}]
  /\ seen' = [seen EXCEPT ![w] = Hand \cap UNION {file[f] : f \in File}]
  /\ pc' = [pc EXCEPT ![w] = "begin"]
  /\ UNCHANGED <<disk, lock, tx, image, todo, uncopied, result, budget, acked,
                 alone, window>>

externalDrift(w) ==
  /\ pc[w] = "drift"
  /\ lostFiles' = [lostFiles EXCEPT ![w] =
                     {f \in File : file[f] \ image[w][f] # {}}]
  /\ seen' = [seen EXCEPT ![w] = Hand \cap UNION {file[f] : f \in File}]
  /\ pc' = [pc EXCEPT ![w] = "begin"]
  /\ UNCHANGED <<disk, lock, tx, image, todo, uncopied, result, budget, acked,
                 alone, window>>

(***************************************************************************)
(* Step 1: BEGIN IMMEDIATE waits for the write lock under busy_timeout.    *)
(***************************************************************************)
\* Mutant: a deferred BEGIN reads before it waits for the lock.
BeginDeferred(w) ==
  /\ pc[w] = "begin"
  /\ lock' = w
  /\ tx' = [tx EXCEPT ![w] = store]
  /\ pc' = [pc EXCEPT ![w] = "mutate"]
  /\ UNCHANGED <<disk, image, lostFiles, todo, seen, uncopied, result, budget,
                 acked, alone, window>>

Begin(w) ==
  /\ pc[w] = "begin"
  /\ lock = NoWriter
  /\ lock' = w
  /\ tx' = [tx EXCEPT ![w] = store]
  /\ pc' = [pc EXCEPT ![w] = "mutate"]
  /\ UNCHANGED <<disk, image, lostFiles, todo, seen, uncopied, result, budget,
                 acked, alone, window>>

BeginFails(w) ==
  /\ pc[w] = "begin"
  /\ Leave(w, "StoreFailed")
  /\ UNCHANGED <<disk, budget, acked, alone, window>>

(***************************************************************************)
(* Steps 2 to 5: mutate, then validate with a dry render.  An operation    *)
(* files an item, closes one, or (op:render) changes nothing.  The mutation*)
(* or the render may fail and the Layman gate may refuse; the divergence   *)
(* guard refuses when a file holds an id the render would drop; a dry run  *)
(* rolls back and reports what it would have done.                         *)
(***************************************************************************)
Mutations(rows) ==
  {rows} \cup {[rows EXCEPT ![i] = @ + 1] : i \in {j \in Item : rows[j] < 2}}

fileIds == {b \in Bullet : \E f \in File : b \in file[f]}

\* Mutant: the files are published from inside the transaction.
PublishFirst(w) ==
  /\ pc[w] = "mutate"
  /\ fileIds = {}
  /\ \E rows \in Mutations(tx[w]) : tx' = [tx EXCEPT ![w] = rows]
  /\ pc' = [pc EXCEPT ![w] = "render"]
  /\ UNCHANGED <<disk, lock, image, lostFiles, todo, seen, uncopied, result,
                 budget, acked, alone, window>>

Validate(w) ==
  /\ pc[w] = "mutate"
  /\ fileIds = {}
  /\ \E rows \in Mutations(tx[w]) : tx' = [tx EXCEPT ![w] = rows]
  /\ pc' = [pc EXCEPT ![w] = "commit"]
  /\ UNCHANGED <<disk, lock, image, lostFiles, todo, seen, uncopied, result,
                 budget, acked, alone, window>>

Refuse(w) ==
  /\ pc[w] = "mutate"
  /\ \E r \in {"Refused"} \cup {IF fileIds = {} THEN "Previewed" ELSE "WouldDrop"} :
       Leave(w, r)
  /\ UNCHANGED <<disk, budget, acked, alone, window>>

(***************************************************************************)
(* Step 6: commit the store.                                               *)
(***************************************************************************)
NotTheOthers(w) == [u \in Writer |-> u = w /\ alone[u]]

Commit(w) ==
  /\ pc[w] = "commit"
  /\ store' = tx[w]
  /\ lock' = NoWriter
  /\ pc' = [pc EXCEPT ![w] = "keep"]
  /\ alone' = NotTheOthers(w)
  /\ UNCHANGED <<file, backup, locals, result, budget, acked, window>>

CommitFails(w) ==
  /\ pc[w] = "commit"
  /\ Leave(w, "StoreFailed")
  /\ UNCHANGED <<disk, budget, acked, alone, window>>

(***************************************************************************)
(* keepDiscarded(): copy the files whose text the publish overwrites, as   *)
(* they are now.  Best effort: any of the copies may fail.                 *)
(***************************************************************************)
keepDiscarded(w) ==
  /\ pc[w] = "keep"
  /\ \E kept \in SUBSET lostFiles[w] :
       /\ backup' = backup \cup UNION {file[f] : f \in kept}
       /\ uncopied' = [uncopied EXCEPT ![w] = lostFiles[w] \ kept]
  /\ pc' = [pc EXCEPT ![w] = "render"]
  /\ UNCHANGED <<store, file, lock, tx, image, lostFiles, todo, seen, result,
                 budget, acked, alone, window>>

(***************************************************************************)
(* Steps 7 and 8: the publishing render reads the store again, skips the   *)
(* files whose bytes are already on disk, stages the rest and renames them *)
(* into place one by one.                                                  *)
(***************************************************************************)
\* Mutant: only the files this call changed are written.
StageChanged(w) ==
  /\ pc[w] = "render"
  /\ image' = [image EXCEPT ![w] = Render(Rows(w))]
  /\ todo' = [todo EXCEPT ![w] =
                SelectSeq(FileOrder, LAMBDA f : image[w][f] # Render(Rows(w))[f])]
  /\ alone' = [alone EXCEPT ![w] = TRUE]
  /\ pc' = [pc EXCEPT ![w] = "land"]
  /\ UNCHANGED <<disk, lock, tx, lostFiles, seen, uncopied, result, budget,
                 acked, window>>

\* The files the render would change, in the order it writes them.
Stale(rows) ==
  LET stale(f) == IF file[f] # Render(rows)[f] THEN <<f>> ELSE <<>>
  IN  stale("live") \o stale("archive")

Stage(w) ==
  /\ pc[w] = "render"
  /\ image' = [image EXCEPT ![w] = Render(Rows(w))]
  /\ todo' = [todo EXCEPT ![w] = Stale(Rows(w))]
  /\ alone' = [alone EXCEPT ![w] = TRUE]
  /\ pc' = [pc EXCEPT ![w] = "land"]
  /\ UNCHANGED <<disk, lock, tx, lostFiles, seen, uncopied, result, budget,
                 acked, window>>

Land(w) ==
  /\ pc[w] = "land" /\ todo[w] # <<>>
  /\ file' = [file EXCEPT ![Head(todo[w])] = image[w][Head(todo[w])]]
  /\ todo' = [todo EXCEPT ![w] = Tail(@)]
  /\ alone' = NotTheOthers(w)
  /\ UNCHANGED <<store, backup, lock, pc, tx, image, lostFiles, seen, uncopied,
                 result, budget, acked, window>>

\* Every row of the transaction the call committed.
Written(w) == {<<i, tx[w][i]>> : i \in {j \in Item : tx[w][j] > 0}}

Published(w) ==
  /\ pc[w] = "land" /\ todo[w] = <<>>
  /\ Leave(w, "Ok")
  /\ acked' = acked \cup Written(w)
  /\ UNCHANGED <<disk, budget, alone, window>>

\* Rendering, staging, or the rename of any one file fails; the store stays.
PublishFails(w) ==
  /\ pc[w] = "render" \/ (pc[w] = "land" /\ todo[w] # <<>>)
  /\ Leave(w, "PublishFailed")
  /\ acked' = acked \cup Written(w)
  /\ window' = TRUE
  /\ UNCHANGED <<disk, budget, alone>>

(***************************************************************************)
(* The environment: a writer's process dies (SQLite rolls its transaction  *)
(* back), the editor saves a line of its own into a file.                  *)
(***************************************************************************)
Crash(w) ==
  /\ pc[w] # "idle" /\ crashes < MaxCrashes
  /\ crashes' = crashes + 1
  /\ Leave(w, "none")
  /\ window' = TRUE
  /\ UNCHANGED <<disk, ops, edited, acked, alone>>

Edit(h, f) ==
  /\ h \notin edited
  /\ edited' = edited \cup {h}
  /\ file' = [file EXCEPT ![f] = @ \cup {h}]
  /\ alone' = [w \in Writer |-> FALSE]
  /\ window' = TRUE
  /\ UNCHANGED <<store, backup, lock, pc, locals, result, ops, crashes, acked>>

Step(w) ==
  \/ renderPreImage(w) \/ externalDrift(w)
  \/ Begin(w) \/ BeginFails(w) \/ Validate(w) \/ Refuse(w)
  \/ Commit(w) \/ CommitFails(w) \/ keepDiscarded(w)
  \/ Stage(w) \/ Land(w) \/ Published(w) \/ PublishFails(w)

Next ==
  \/ \E w \in Writer : Step(w) \/ Crash(w)
  \/ \E h \in Hand, f \in File : Edit(h, f)

Spec == Init /\ [][Next]_vars

-----------------------------------------------------------------------------
ItemLine == Item \X {1, 2}

TypeOK ==
  /\ store \in [Item -> 0..2]
  /\ file \in [File -> SUBSET (ItemLine \cup Hand)]
  /\ backup \subseteq ItemLine \cup Hand
  /\ lock \in Writer \cup {NoWriter}
  /\ pc \in [Writer -> {"idle", "drift", "begin", "mutate", "commit", "keep",
                        "render", "land"}]
  /\ tx \in [Writer -> [Item -> 0..2]]
  /\ image \in [Writer -> [File -> SUBSET ItemLine]]
  /\ lostFiles \in [Writer -> SUBSET File]
  /\ todo \in [Writer -> {<<>>, <<"live">>, <<"archive">>, FileOrder}]
  /\ result \in [Writer -> Results]
  /\ ops \in 0..MaxOps /\ crashes \in 0..MaxCrashes /\ edited \subseteq Hand
  /\ seen \in [Writer -> SUBSET Hand]
  /\ uncopied \in [Writer -> SUBSET File]
  /\ acked \subseteq ItemLine
  /\ alone \in [Writer -> BOOLEAN] /\ window \in BOOLEAN

\* The files are never ahead of the store: whatever fails or dies between the
\* steps, a rendered line stands for a row that is committed (the store has
\* reached that status), so no reader of the file learns of a write that was
\* rolled back.
FileNeverAhead ==
  \A f \in File, i \in Item, s \in 1..2 :
    <<i, s>> \in file[f] => s <= store[i]

\* A write a call reported stays in the store, whatever other writers commit,
\* refuse or crash afterwards: no writer's transaction is built on rows older
\* than the ones it replaces.
AckedDurable ==
  \A a \in acked : a[2] <= store[a[1]]

\* The publish never destroys a line of the editor's that its own drift check
\* read, unless a copy of it is kept or the copy failed, which the outcome
\* reports.
TextKept ==
  [][\A w \in Writer : \A f \in File :
       (todo[w] # <<>> /\ Head(todo[w]) = f /\ todo'[w] # todo[w]) =>
         \A h \in (file[f] \ file'[f]) \cap seen[w] :
           h \in backup \/ f \in uncopied[w]]_vars

\* "Re-running the render fixes it": a call that returned Ok and whose publish
\* met no other commit, landing or save leaves every file equal to the render
\* of the store, whatever crashes and partial publishes came before.
RepairConverges ==
  \A w \in Writer :
    (result[w] = "Ok" /\ pc[w] = "idle" /\ alone[w]) => file = Render(store)

\* roadmapwrite.h: "The one window is PublishFailed: the store is committed
\* and the file write did not land, so the store is ahead of the file."
OneWindow ==
  (~window /\ \A w \in Writer : pc[w] = "idle") => file = Render(store)
=============================================================================
