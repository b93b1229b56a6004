------------------------ MODULE FileCheckpointsProofs ------------------------
(***************************************************************************)
(* Checkpoints, for any sessions, directories, runs, restores, prunes,     *)
(* faults and number of checkpoints kept: a listed one can be restored when*)
(* its work tree is the working directory itself; /undo finds the first    *)
(* checkpoint of the last run that changed files; and what a restore       *)
(* replaces can be brought back.                                           *)
(***************************************************************************)
EXTENDS FileCheckpoints, FiniteSetTheorems, WellFoundedInduction, TLAPS

(* A session works in a directory. *)
LEMMA DirType == \A s \in Sessions : DirOf(s) \in Dirs
  BY DirsAssumption DEF DirOf

(* What stands for no tree and for no row has their types. *)
LEMMA NoTreeType == NoTree \in Trees /\ \A s \in Sessions : NoRow(s) \in RowType
  BY DEF NoTree, Trees, NoRow, Row, RowType

(* What is staged of a directory makes a tree. *)
LEMMA StagedType ==
  ASSUME TypeOK, NEW s \in Sessions
  PROVE  Staged(DirOf(s)) \in Trees
  BY DirType DEF TypeOK, Staged, Trees

(* The daemon starts with the types. *)
LEMMA TypeInit == Init => TypeOK
  BY NoTreeType DEF Init, TypeOK, Kinds, Steps, Trees, Free

-----------------------------------------------------------------------------
(* A run or a restore moves to one of the steps. *)
LEMMA GoType ==
  ASSUME TypeOK, NEW k \in Kinds, NEW s \in Sessions, NEW to \in Steps, Go(k, s, to)
  PROVE  pc' \in [Kinds -> [Sessions -> Steps]]
  BY DEF TypeOK, Go

(* Every step keeps the types. *)
LEMMA TypeStep == TypeOK /\ [Next]_vars => TypeOK'
  <1> SUFFICES ASSUME TypeOK, [Next]_vars PROVE TypeOK'
    OBVIOUS
  <1> USE BoundAssumption
  <1>1. ASSUME NEW s \in Sessions, StartRun(s) PROVE TypeOK'
    <2>1. pc' \in [Kinds -> [Sessions -> Steps]]
      BY <1>1, GoType DEF StartRun, Kinds, Steps
    <2>2. active' \subseteq Sessions /\ runs' \in [Sessions -> Nat]
      BY <1>1 DEF StartRun, TypeOK
    <2> QED BY <1>1, <2>1, <2>2 DEF StartRun, TypeOK, repo, file, past, count
  <1>2. ASSUME NEW k \in Kinds, NEW s \in Sessions, Snapshot(k, s) PROVE
          /\ index' \in Trees /\ objects' \subseteq Trees /\ young' \subseteq Trees /\ old' \subseteq Trees
          /\ tree' \in [Kinds -> [Sessions -> Trees]] /\ pc' \in [Kinds -> [Sessions -> Steps]]
          /\ lock' \subseteq Sessions /\ gcDue' \in BOOLEAN
    <2>1. pc' \in [Kinds -> [Sessions -> Steps]]
      BY <1>2, GoType DEF Snapshot, Steps
    <2>2. Staged(DirOf(s)) \in Trees
      BY StagedType
    <2> QED BY <1>2, <2>1, <2>2 DEF Snapshot, TypeOK
  <1>3. ASSUME NEW s \in Sessions, CheckpointBatch(s) PROVE TypeOK'
    <2>1. Snapshot("run", s) /\ "run" \in Kinds
      BY <1>3 DEF CheckpointBatch, Kinds
    <2> QED BY <1>3, <2>1, <1>2 DEF CheckpointBatch, TypeOK, file, past, count
  <1>4. ASSUME NEW s \in Sessions, CheckpointRestore(s) PROVE TypeOK'
    <2>1. Snapshot("restore", s) /\ "restore" \in Kinds
      BY <1>4 DEF CheckpointRestore, Kinds
    <2>2. calm' \subseteq Sessions
      BY <1>4 DEF CheckpointRestore, TypeOK
    <2> QED BY <1>4, <2>1, <2>2, <1>2 DEF CheckpointRestore, TypeOK, file, count
  <1>5. ASSUME NEW k \in Kinds, NEW s \in Sessions, Record(k, s) PROVE TypeOK'
    <2>1. pc' \in [Kinds -> [Sessions -> Steps]]
      BY <1>5, GoType DEF Record, Then, Steps
    <2>2. rows' \subseteq RowType /\ lastID' \in Nat
      BY <1>5 DEF Record, TypeOK, file, Row, RowType, RunOf, Kinds
    <2>3. tree' \in [Kinds -> [Sessions -> Trees]]
      BY <1>5, NoTreeType DEF Record, TypeOK
    <2>4. undo' \in [Sessions -> RowType] /\ changed' \subseteq Sessions
      <3>1. k = "run" => Row(lastID', s, runs[s], tree[k][s]) \in RowType
        BY <2>2 DEF TypeOK, Row, RowType, Kinds
      <3> QED BY <1>5, <3>1 DEF Record, NoteFirst, TypeOK
    <2> QED BY <1>5, <2>1, <2>2, <2>3, <2>4 DEF Record, TypeOK, repo, count
  <1>6. ASSUME NEW k \in Kinds, NEW s \in Sessions, Trim(k, s) PROVE TypeOK'
    <2>1. pc' \in [Kinds -> [Sessions -> Steps]]
      BY <1>6, GoType DEF Trim, Then, Steps
    <2>2. rows' \subseteq RowType /\ lastID' \in Nat
      BY <1>6 DEF Trim, TypeOK
    <2>3. prunes' \subseteq [dir : Dirs, at : {"asked", "listed"}, keep : SUBSET Trees]
      BY <1>6, DirType DEF Trim, TypeOK, Asked
    <2> QED BY <1>6, <2>1, <2>2, <2>3 DEF Trim, TypeOK, repo, past, count
  <1>7. ASSUME NEW s \in Sessions, NextBatch(s) \/ EndRun(s) PROVE TypeOK'
    <2>1. pc' \in [Kinds -> [Sessions -> Steps]]
      BY <1>7, GoType DEF NextBatch, EndRun, Kinds, Steps
    <2>2. active' \subseteq Sessions
      BY <1>7 DEF NextBatch, EndRun, TypeOK
    <2> QED BY <1>7, <2>1, <2>2 DEF NextBatch, EndRun, TypeOK, repo, file, past, count
  <1>8. ASSUME NEW d \in Dirs, Change(d) PROVE disk' \in Trees /\ version' \in Nat
    BY <1>8 DEF Change, TypeOK, Trees
  <1>9. ASSUME NEW s \in Sessions, WriteFiles(s) PROVE TypeOK'
    <2>1. disk' \in Trees /\ version' \in Nat
      BY <1>9, <1>8, DirType DEF WriteFiles
    <2>2. changed' \subseteq Sessions /\ calm' \subseteq Sessions
      BY <1>9 DEF WriteFiles, TypeOK
    <2> QED BY <1>9, <2>1, <2>2 DEF WriteFiles, TypeOK, repo, file, count
  <1>10. ASSUME NEW d \in Dirs, Edit(d) PROVE TypeOK'
    <2>1. disk' \in Trees /\ version' \in Nat
      BY <1>10, <1>8 DEF Edit
    <2> QED BY <1>10, <2>1 DEF Edit, TypeOK, repo, file, count
  <1>11. ASSUME NEW s \in Sessions, AskRestore(s) PROVE TypeOK'
    <2>1. pc' \in [Kinds -> [Sessions -> Steps]]
      BY <1>11, GoType DEF AskRestore, Kinds, Steps
    <2>2. target' \in [Sessions -> RowType] /\ restores' \in Nat
      BY <1>11 DEF AskRestore, TypeOK, RowsOf
    <2> QED BY <1>11, <2>1, <2>2 DEF AskRestore, TypeOK, repo, file, past
  <1>12. ASSUME NEW s \in Sessions, Done(s) PROVE
           /\ pc' \in [Kinds -> [Sessions -> Steps]] /\ target' \in [Sessions -> RowType] /\ calm' \subseteq Sessions
    <2>1. pc' \in [Kinds -> [Sessions -> Steps]]
      BY <1>12, GoType DEF Done, Kinds, Steps
    <2> QED BY <1>12, <2>1, NoTreeType DEF Done, TypeOK
  <1>13. ASSUME NEW s \in Sessions, Compare(s) PROVE TypeOK'
    <2>1. index' \in Trees /\ objects' \subseteq Trees
      BY <1>13, StagedType DEF Compare, TypeOK
    <2>2. /\ pc' \in [Kinds -> [Sessions -> Steps]] /\ target' \in [Sessions -> RowType]
          /\ calm' \subseteq Sessions /\ lock' \subseteq Sessions
      <3>1. CASE Done(s) /\ UNCHANGED lock
        BY <3>1, <1>12 DEF TypeOK
      <3>2. ASSUME NEW to \in {"missing", "compared"}, Go("restore", s, to), lock' \in {lock, {s}}, UNCHANGED <<target, calm>>
            PROVE  /\ pc' \in [Kinds -> [Sessions -> Steps]] /\ target' \in [Sessions -> RowType]
                   /\ calm' \subseteq Sessions /\ lock' \subseteq Sessions
        BY <3>2, GoType DEF TypeOK, Kinds, Steps
      <3> QED BY <1>13, <3>1, <3>2 DEF Compare
    <2> QED BY <1>13, <2>1, <2>2 DEF Compare, TypeOK, file, count
  <1>14. ASSUME NEW s \in Sessions, Checkout(s) \/ CheckoutFails(s) PROVE TypeOK'
    <2>1. pc' \in [Kinds -> [Sessions -> Steps]]
      BY <1>14, GoType DEF Checkout, CheckoutFails, Kinds, Steps
    <2>2. Back(s) \in Nat
      BY DirType DEF Back, TypeOK, RowType, Trees
    <2>3. disk' \in Trees /\ version' \in Nat
      BY <1>14, <1>8, <2>2, DirType DEF Checkout, CheckoutFails, TypeOK, Trees
    <2>4. index' \in Trees /\ lock' \subseteq Sessions /\ calm' \subseteq Sessions /\ target' \in [Sessions -> RowType]
      <3>1. NoRow(s) \in RowType /\ DirOf(s) \in Dirs
        BY NoTreeType, DirType
      <3>2. CASE Checkout(s)
        BY <3>1, <3>2, <2>2 DEF Checkout, TypeOK, Trees, Free
      <3>3. CASE CheckoutFails(s)
        BY <3>1, <3>3 DEF CheckoutFails, TypeOK, Free
      <3> QED BY <1>14, <3>2, <3>3
    <2>5. faults' \in Nat /\ restores' \in Nat
      BY <1>14 DEF Checkout, CheckoutFails, TypeOK, count, Fault
    <2> QED BY <1>14, <2>1, <2>3, <2>4, <2>5 DEF Checkout, CheckoutFails, TypeOK, file
  <1>15. ASSUME NEW s \in Sessions, HalfSnapshot(s) \/ UNCHANGED repo PROVE
           /\ index' \in Trees /\ objects' \subseteq Trees /\ young' \subseteq Trees /\ old' \subseteq Trees
           /\ lock' \subseteq Sessions /\ gcDue' \in BOOLEAN
    BY <1>15, StagedType DEF HalfSnapshot, TypeOK, repo
  <1>16. ASSUME NEW s \in Sessions, SkipCheckpoint(s) PROVE TypeOK'
    <2>1. pc' \in [Kinds -> [Sessions -> Steps]]
      BY <1>16, GoType DEF SkipCheckpoint, Kinds, Steps
    <2>2. tree' \in [Kinds -> [Sessions -> Trees]]
      BY <1>16, NoTreeType DEF SkipCheckpoint, TypeOK
    <2>4. faults' \in Nat /\ restores' \in Nat
      BY <1>16 DEF SkipCheckpoint, TypeOK, Fault
    <2>3. HalfSnapshot(s) \/ UNCHANGED repo
      BY <1>16 DEF SkipCheckpoint
    <2> QED BY <1>16, <1>15, <2>1, <2>2, <2>3, <2>4 DEF SkipCheckpoint, TypeOK, file, past
  <1>17. ASSUME NEW s \in Sessions, Answer(s) \/ GiveUp(s) PROVE TypeOK'
    <2>1. Done(s)
      BY <1>17 DEF Answer, GiveUp
    <2>2. tree' \in [Kinds -> [Sessions -> Trees]] /\ faults' \in Nat /\ restores' \in Nat
      <3>1. CASE Answer(s)
        BY <3>1 DEF Answer, TypeOK, count
      <3>2. CASE GiveUp(s)
        <4>1. tree' \in [Kinds -> [Sessions -> Trees]]
          BY <3>2, NoTreeType DEF GiveUp, TypeOK
        <4> QED BY <3>2, <4>1 DEF GiveUp, Fault, TypeOK
      <3> QED BY <1>17, <3>1, <3>2
    <2>3. HalfSnapshot(s) \/ UNCHANGED repo
      BY <1>17 DEF Answer, GiveUp
    <2> QED BY <1>17, <2>1, <2>2, <2>3, <1>12, <1>15 DEF Answer, GiveUp, TypeOK, file
  <1>18. ASSUME NEW p \in prunes, ListTrees(p) PROVE TypeOK'
    <2>1. Kept(p.dir) \subseteq Trees
      BY DEF Kept, RowsIn, TypeOK, RowType
    <2>2. [p EXCEPT !.at = "listed", !.keep = Kept(p.dir)] \in [dir : Dirs, at : {"asked", "listed"}, keep : SUBSET Trees]
      BY <2>1 DEF TypeOK
    <2> QED BY <1>18, <2>2 DEF ListTrees, TypeOK, repo, file, past, count
  <1>19. ASSUME NEW p \in prunes, Prune(p) PROVE TypeOK'
    BY <1>19 DEF Prune, TypeOK, file, past, count
  <1>20. CASE Hour
    BY <1>20 DEF Hour, TypeOK, file, past, count
  <1>21. CASE Restart
    <2>1. /\ pc' \in [Kinds -> [Sessions -> Steps]] /\ tree' \in [Kinds -> [Sessions -> Trees]]
          /\ target' \in [Sessions -> RowType]
      BY <1>21, NoTreeType DEF Restart, Kinds, Steps
    <2>2. faults' \in Nat /\ restores' \in Nat
      BY <1>21 DEF Restart, Fault, TypeOK
    <2>3. calm' = {} /\ lock' = {} /\ prunes' = {} /\ gcDue' = TRUE
      BY <1>21 DEF Restart, Free
    <2> QED BY <1>21, <2>1, <2>2, <2>3 DEF Restart, TypeOK, file
  <1>22. CASE UNCHANGED vars
    BY <1>22 DEF vars, TypeOK, repo, file, past, count
  <1> QED BY <1>1, <1>3, <1>4, <1>5, <1>6, <1>7, <1>9, <1>10, <1>11, <1>13, <1>14, <1>16, <1>17, <1>18, <1>19, <1>20, <1>21, <1>22
          DEF Next, Run, Restore

(* Every variable holds what the code may store in it, for any bounds. *)
THEOREM TypeCorrect == Spec => []TypeOK
  BY TypeInit, TypeStep, PTL DEF Spec
-----------------------------------------------------------------------------
(* What a reference keeps is held, and every row's tree has one: a young    *)
(* one until its row is saved, and one that each prune read before it spares.*)
Held         == young \union old \subseteq objects
RowsHeld     == \A r \in rows : r.tree \in young \union old
SnappedYoung == \A k \in Kinds, s \in Sessions : pc[k][s] = "snapped" => tree[k][s] \in young
PrunesSpare  == \A p \in prunes : p.at = "listed" => \A r \in rows : r.tree \in p.keep \union young

KeepInv == TypeOK /\ Held /\ RowsHeld /\ SnappedYoung /\ PrunesSpare

(* A step that leaves the rows, the references, the prunes and the snapshots *)
(* not yet recorded alone.                                                   *)
Apart ==
    /\ rows' \subseteq rows /\ objects \subseteq objects' /\ UNCHANGED <<young, old>>
    /\ \A p \in prunes' : p.at = "listed" => p \in prunes
    /\ \A k \in Kinds, s \in Sessions :
          pc'[k][s] = "snapped" => pc[k][s] = "snapped" /\ tree'[k][s] = tree[k][s]

(* Such a step keeps the invariant. *)
LEMMA ApartKeeps ==
  ASSUME KeepInv, TypeOK', Apart
  PROVE  KeepInv'
  BY DEF KeepInv, Apart, Held, RowsHeld, SnappedYoung, PrunesSpare

(* What moves on elsewhere takes no snapshot. *)
LEMMA GoApart ==
  ASSUME TypeOK, NEW k \in Kinds, NEW s \in Sessions, NEW to \in Steps \ {"snapped"}, Go(k, s, to)
  PROVE  \A j \in Kinds, t \in Sessions : pc'[j][t] = "snapped" => pc[j][t] = "snapped" /\ ~(j = k /\ t = s)
  BY DEF TypeOK, Go

(* A snapshot's tree gets a young reference before its row. *)
LEMMA SnapshotKeeps ==
  ASSUME KeepInv, TypeOK', NEW k \in Kinds, NEW s \in Sessions, Snapshot(k, s), UNCHANGED <<rows, prunes>>
  PROVE  KeepInv'
  <1>1. PICK t : objects' = objects \union {t} /\ young' = young \union {t} /\ old' = old \ {t}
               /\ tree' = [tree EXCEPT ![k][s] = t] /\ pc' = [pc EXCEPT ![k][s] = "snapped"]
    BY DEF Snapshot, Go
  <1>2. SnappedYoung'
    <2> SUFFICES ASSUME NEW j \in Kinds, NEW q \in Sessions, pc'[j][q] = "snapped" PROVE tree'[j][q] \in young'
      BY DEF SnappedYoung
    <2>1. CASE j = k /\ q = s
      BY <1>1, <2>1 DEF KeepInv, TypeOK
    <2>2. CASE ~(j = k /\ q = s)
      BY <1>1, <2>2 DEF KeepInv, TypeOK, SnappedYoung
    <2> QED BY <2>1, <2>2
  <1> QED BY <1>1, <1>2 DEF KeepInv, Held, RowsHeld, PrunesSpare

(* A row is saved of a tree whose reference is young. *)
LEMMA RecordKeeps ==
  ASSUME KeepInv, TypeOK', NEW k \in Kinds, NEW s \in Sessions, Record(k, s)
  PROVE  KeepInv'
  <1>1. \A r \in rows' : r \in rows \/ r.tree = tree[k][s]
    BY DEF Record, file, Row
  <1>2. tree[k][s] \in young /\ UNCHANGED <<objects, young, old, prunes>>
    BY DEF Record, KeepInv, SnappedYoung, repo
  <1>3. SnappedYoung'
    <2>1. \A j \in Kinds, t \in Sessions : pc'[j][t] = "snapped" => pc[j][t] = "snapped" /\ ~(j = k /\ t = s)
      <3>1. \E to \in Steps \ {"snapped"} : Go(k, s, to)
        BY DEF Record, Then, Steps
      <3> QED BY <3>1, GoApart DEF KeepInv
    <2> QED BY <2>1, <1>2 DEF Record, SnappedYoung, KeepInv, TypeOK
  <1> QED BY <1>1, <1>2, <1>3 DEF KeepInv, Held, RowsHeld, PrunesSpare

(* In the one directory a prune reads the trees of all rows. *)
LEMMA ListKeeps ==
  ASSUME NEW d, Dirs = {d}, KeepInv, TypeOK', NEW p \in prunes, ListTrees(p)
  PROVE  KeepInv'
  <1>1. RowsIn(p.dir) = rows
    BY DirsAssumption DEF RowsIn, KeepInv, TypeOK, RowType
  <1>2. \A q \in prunes' : q \in prunes \/ q.keep = {r.tree : r \in rows}
    BY <1>1 DEF ListTrees, Kept, KeepInv, TypeOK
  <1>3. UNCHANGED <<objects, young, old, rows, pc, tree>>
    BY DEF ListTrees, repo, file
  <1>4. PrunesSpare'
    BY <1>2, <1>3 DEF PrunesSpare, KeepInv
  <1> QED BY <1>3, <1>4 DEF KeepInv, Held, RowsHeld, SnappedYoung

(* A prune drops the old references it did not read, and no young one. *)
LEMMA PruneKeeps ==
  ASSUME KeepInv, TypeOK', NEW p \in prunes, Prune(p)
  PROVE  KeepInv'
  <1>1. old' = old \intersect p.keep /\ UNCHANGED <<young, rows, pc, tree>> /\ prunes' \subseteq prunes
    BY DEF Prune, file
  <1>2. Held'
    BY <1>1 DEF Prune, KeepInv, Held
  <1>3. RowsHeld'
    BY <1>1 DEF Prune, KeepInv, RowsHeld, PrunesSpare
  <1> QED BY <1>1, <1>2, <1>3 DEF KeepInv, SnappedYoung, PrunesSpare

(* Every step keeps the references of the rows' trees. *)
LEMMA KeepStep ==
  ASSUME NEW d, Dirs = {d}, KeepInv, [Next]_vars
  PROVE  KeepInv'
  <1> USE DEF repo, file, count, past
  <1>0. TypeOK' /\ TypeOK
    BY TypeStep DEF KeepInv
  <1>1. ASSUME NEW s \in Sessions, CheckpointBatch(s) \/ CheckpointRestore(s) PROVE KeepInv'
    <2>1. \E k \in Kinds : Snapshot(k, s)
      BY <1>1 DEF CheckpointBatch, CheckpointRestore, Kinds
    <2>2. UNCHANGED <<rows, prunes>>
      BY <1>1 DEF CheckpointBatch, CheckpointRestore
    <2> QED BY <1>0, <2>1, <2>2, SnapshotKeeps
  <1>2. ASSUME NEW k \in Kinds, NEW s \in Sessions, Record(k, s) PROVE KeepInv'
    BY <1>0, <1>2, RecordKeeps
  <1>3. ASSUME NEW k \in Kinds, NEW s \in Sessions, Trim(k, s) PROVE KeepInv'
    <2>1. \E to \in Steps \ {"snapped"} : Go(k, s, to)
      BY <1>3 DEF Trim, Then, Steps
    <2>2. Apart
      BY <1>0, <1>3, <2>1, GoApart DEF Trim, Apart, Asked
    <2> QED BY <1>0, <2>2, ApartKeeps
  <1>4. ASSUME NEW s \in Sessions, StartRun(s) \/ NextBatch(s) \/ EndRun(s) PROVE KeepInv'
    <2>1. \E to \in Steps \ {"snapped"} : Go("run", s, to)
      BY <1>4 DEF StartRun, NextBatch, EndRun, Steps
    <2>2. Apart
      BY <1>0, <1>4, <2>1, GoApart DEF StartRun, NextBatch, EndRun, Apart, Kinds
    <2> QED BY <1>0, <2>2, ApartKeeps
  <1>5. ASSUME NEW s \in Sessions, WriteFiles(s) PROVE KeepInv'
    <2>1. Apart
      BY <1>5 DEF WriteFiles, Apart
    <2> QED BY <1>0, <2>1, ApartKeeps
  <1>6. ASSUME NEW e \in Dirs, Edit(e) PROVE KeepInv'
    <2>1. Apart
      BY <1>6 DEF Edit, Apart
    <2> QED BY <1>0, <2>1, ApartKeeps
  <1>7. ASSUME NEW s \in Sessions, AskRestore(s) \/ Compare(s) \/ Checkout(s) \/ CheckoutFails(s) \/ Answer(s)
        PROVE  KeepInv'
    <2>1. \E to \in Steps \ {"snapped"} : Go("restore", s, to)
      BY <1>7 DEF AskRestore, Compare, Checkout, CheckoutFails, Answer, Done, Steps
    <2>2. UNCHANGED <<rows, young, old, prunes, tree>> /\ objects \subseteq objects'
      BY <1>7 DEF AskRestore, Compare, Checkout, CheckoutFails, Answer
    <2>3. Apart
      BY <1>0, <2>1, <2>2, GoApart DEF Apart, Kinds
    <2> QED BY <1>0, <2>3, ApartKeeps
  <1>8. ASSUME NEW s \in Sessions, SkipCheckpoint(s) \/ GiveUp(s) PROVE KeepInv'
    <2>1. PICK j \in Kinds, to \in Steps \ {"snapped"} : Go(j, s, to) /\ tree' = [tree EXCEPT ![j][s] = NoTree]
      BY <1>8 DEF SkipCheckpoint, GiveUp, Done, Steps, Kinds
    <2>2. UNCHANGED <<rows, young, old, prunes>> /\ objects \subseteq objects'
      BY <1>8 DEF SkipCheckpoint, GiveUp, HalfSnapshot
    <2>3. \A k \in Kinds, t \in Sessions : ~(k = j /\ t = s) => tree'[k][t] = tree[k][t]
      BY <1>0, <2>1 DEF TypeOK
    <2>4. Apart
      BY <1>0, <2>1, <2>2, <2>3, GoApart DEF Apart
    <2> QED BY <1>0, <2>4, ApartKeeps
  <1>9. ASSUME NEW p \in prunes, ListTrees(p) \/ Prune(p) PROVE KeepInv'
    BY <1>0, <1>9, ListKeeps, PruneKeeps
  <1>10. CASE Hour
    <2>1. UNCHANGED <<rows, objects, prunes, pc, tree>> /\ old' = old \union young /\ young' = {}
      BY <1>10 DEF Hour
    <2>2. Held' /\ RowsHeld'
      BY <2>1 DEF KeepInv, Held, RowsHeld
    <2>3. SnappedYoung' /\ PrunesSpare'
      BY <2>1, <1>10 DEF Hour, SnappedYoung, PrunesSpare, Kinds
    <2> QED BY <1>0, <2>2, <2>3 DEF KeepInv
  <1>11. CASE Restart
    <2>1. UNCHANGED <<rows, objects, young, old>> /\ prunes' = {}
      BY <1>11 DEF Restart
    <2>2. \A k \in Kinds, s \in Sessions : pc'[k][s] # "snapped"
      BY <1>11 DEF Restart, Kinds
    <2> QED BY <1>0, <2>1, <2>2 DEF KeepInv, Held, RowsHeld, SnappedYoung, PrunesSpare
  <1>12. CASE UNCHANGED vars
    BY <1>0, <1>12 DEF vars, KeepInv, Held, RowsHeld, SnappedYoung, PrunesSpare
  <1> QED BY <1>1, <1>2, <1>3, <1>4, <1>5, <1>6, <1>7, <1>8, <1>9, <1>10, <1>11, <1>12 DEF Next, Run, Restore

(* The daemon starts with no row. *)
LEMMA KeepInit == Init => KeepInv
  BY TypeInit DEF Init, KeepInv, Held, RowsHeld, SnappedYoung, PrunesSpare, Kinds

(* A listed checkpoint's tree is held, whatever prunes, garbage collections *)
(* and crashes run beside the snapshots, when all sessions of the work tree *)
(* work in one directory: no prune needs to know another directory's rows.  *)
THEOREM OneDirectoryKeeps ==
  ASSUME NEW d, Dirs = {d}
  PROVE  Spec => []ListedIsKept
  <1>1. Init => KeepInv
    BY KeepInit
  <1>2. KeepInv /\ [Next]_vars => KeepInv'
    BY KeepStep
  <1>3. KeepInv => ListedIsKept
    BY DEF KeepInv, Held, RowsHeld, ListedIsKept
  <1> QED BY <1>1, <1>2, <1>3, PTL DEF Spec
-----------------------------------------------------------------------------
(* A set of numbers that is not empty has a least one.                      *)
LEMMA LeastExists ==
  ASSUME NEW T \in SUBSET Nat, T # {}
  PROVE  \E x \in T : \A y \in T : x <= y
  <1>1. PICK x \in T : \A y \in T : ~(<<y, x>> \in OpToRel(<, Nat))
    BY NatLessThanWellFounded, WFMin
  <1>2. ASSUME NEW y \in T PROVE x <= y
    <2>1. ~(y < x)
      BY <1>1 DEF OpToRel
    <2> QED BY <2>1
  <1> QED BY <1>2

(* Of rows there is a newest one. *)
LEMMA NewestExists ==
  ASSUME NEW R \in SUBSET rows, R # {}, TypeOK, \A r \in rows : r.id <= lastID
  PROVE  \E r \in R : \A q \in R : q.id <= r.id
  <1> DEFINE T == {lastID - r.id : r \in R}
  <1>1. T \in SUBSET Nat /\ T # {}
    BY DEF TypeOK, RowType
  <1>2. PICK x \in T : \A y \in T : x <= y
    BY <1>1, LeastExists
  <1>3. PICK r \in R : x = lastID - r.id
    BY <1>2
  <1>4. ASSUME NEW q \in R PROVE q.id <= r.id
    <2>1. lastID - r.id <= lastID - q.id
      BY <1>2, <1>3
    <2> QED BY <2>1 DEF TypeOK, RowType
  <1> QED BY <1>4

-----------------------------------------------------------------------------
(* Rows are told apart by their ids. *)
Ids == /\ IsFiniteSet(rows)
       /\ \A r \in rows : r.id > 0 /\ r.id <= lastID
       /\ \A q, r \in rows : q.id = r.id => q = r

(* A run that takes a checkpoint has a number. *)
Started == \A s \in Sessions : s \in active \/ pc["run"][s] # "none" => runs[s] > 0

(* The rows of a session's runs are in the runs' order, and the first row   *)
(* of the last of these runs is there until it is crowded out.              *)
First(s, q) == /\ q \in RowsOf(s) /\ q.id = undo[s].id /\ q.run = undo[s].run /\ q.tree = undo[s].tree
               /\ \A r \in RowsOf(s) : r.run = undo[s].run => q.id <= r.id

Undoable(s) ==
    /\ undo[s].run <= runs[s]
    /\ s \in changed => undo[s].run > 0
    /\ \A r \in RowsOf(s) : r.run <= undo[s].run
    /\ \A q, r \in RowsOf(s) : 0 < q.run /\ q.run < r.run => q.id < r.id
    /\ undo[s].run > 0 => CrowdedOut(s) \/ \E q \in rows : First(s, q)

(* The rows and what /undo goes back to. *)
UndoInv == TypeOK /\ Ids /\ Started /\ \A s \in Sessions : Undoable(s)

(* What a restore replaces is in a row, or as many rows followed that one   *)
(* as the directory keeps.                                                  *)
Since(d, i) == {q \in RowsIn(d) : q.id > i}
Saves(s, i) == /\ \A r \in RowsOf(s) : r.run = 0 => r.id <= i
               /\ \/ \E r \in RowsOf(s) : r.id = i /\ r.tree[DirOf(s)] = disk[DirOf(s)]
                  \/ Cardinality(Since(DirOf(s), i)) >= Keep

Recording(s) == pc["restore"][s] \in {"recorded", "taken", "compared"}

Restorable(s) ==
    /\ s \in calm /\ pc["restore"][s] = "snapped" => tree["restore"][s][DirOf(s)] = disk[DirOf(s)]
    /\ s \in calm /\ Recording(s) => \E i \in Nat : Saves(s, i)

(* What holds of the rows at every step. *)
RowInv == UndoInv /\ \A s \in Sessions : Restorable(s)

-----------------------------------------------------------------------------
(* What moves on, and what stays where it was. *)
LEMMA GoIs ==
  ASSUME TypeOK, NEW k \in Kinds, NEW s \in Sessions, NEW to, Go(k, s, to)
  PROVE  \A j \in Kinds, t \in Sessions : pc'[j][t] = IF j = k /\ t = s THEN to ELSE pc[j][t]
  BY DEF TypeOK, Go

(* Rows in a full directory: trimming leaves as many rows as are kept newer *)
(* than any row it had that many newer ones of.                             *)
LEMMA TrimLeaves ==
  ASSUME TypeOK, Ids, NEW d \in Dirs, NEW i \in Nat, rows' = rows \ Dropped(d),
         Cardinality(Since(d, i)) >= Keep
  PROVE  Cardinality(Since(d, i)') >= Keep
  <1> DEFINE D == Dropped(d) \intersect Since(d, i)
  <1>0. IsFiniteSet(rows) /\ IsFiniteSet(Since(d, i)')
    <2>1. IsFiniteSet(rows)
      BY DEF Ids
    <2>2. Since(d, i)' \in SUBSET rows
      BY DEF Since, RowsIn
    <2> QED BY <2>1, <2>2, FS_Subset
  <1>1. CASE D = {}
    <2>1. Since(d, i)' = Since(d, i)
      BY <1>1 DEF Since, RowsIn
    <2> QED BY <2>1
  <1>2. CASE D # {}
    <2>1. PICK r \in D : \A q \in D : q.id <= r.id
      <3>1. D \in SUBSET rows
        BY DEF Since, RowsIn
      <3> HIDE DEF D
      <3> QED BY <1>2, <3>1, NewestExists DEF Ids
    <2> DEFINE U == {q \in RowsIn(d) : q.id > r.id}
    <2>2. Cardinality(U) >= Keep
      BY <2>1 DEF Dropped
    <2>3. U \subseteq Since(d, i)'
      <3> SUFFICES ASSUME NEW q \in U PROVE q \in Since(d, i)'
        OBVIOUS
      <3>1. q \in rows /\ r \in rows /\ r.id > i /\ q.id > r.id /\ q \in RowsIn(d)
        BY <2>1 DEF RowsIn, Since
      <3>2. q.id \in Nat /\ r.id \in Nat
        BY <3>1 DEF TypeOK, RowType
      <3>3. q \in Since(d, i)
        BY <3>1, <3>2 DEF Since
      <3>4. q \notin Dropped(d)
        BY <2>1, <3>1, <3>2, <3>3
      <3> QED BY <3>1, <3>3, <3>4 DEF Since, RowsIn
    <2>4. Cardinality(U) <= Cardinality(Since(d, i)') /\ Cardinality(U) \in Nat
          /\ Cardinality(Since(d, i)') \in Nat
      <3> HIDE DEF U
      <3>1. U \in SUBSET Since(d, i)'
        BY <2>3
      <3> QED BY <3>1, <1>0, FS_Subset, FS_CardinalityType
    <2> QED BY <2>2, <2>4, BoundAssumption
  <1> QED BY <1>1, <1>2

(* Trimming one directory leaves the rows of the others.                    *)
LEMMA TrimApart ==
  ASSUME TypeOK, NEW c \in Dirs, NEW d \in Dirs, c # d, rows' = rows \ Dropped(d)
  PROVE  RowsIn(c)' = RowsIn(c)
  BY DirsAssumption DEF RowsIn, Dropped

(* The same of every directory when one of them is trimmed. *)
LEMMA TrimSince ==
  ASSUME TypeOK, Ids, NEW c \in Dirs, NEW d \in Dirs, NEW i \in Nat, rows' = rows \ Dropped(d),
         Cardinality(Since(c, i)) >= Keep
  PROVE  Cardinality(Since(c, i)') >= Keep
  <1>1. CASE c = d
    BY <1>1, TrimLeaves
  <1>2. CASE c # d
    <2>1. Since(c, i)' = Since(c, i)
      BY <1>2, TrimApart DEF Since
    <2> QED BY <2>1
  <1> QED BY <1>1, <1>2

(* A dropped row had as many newer ones in its directory, and has them yet. *)
LEMMA DroppedSince ==
  ASSUME TypeOK, Ids, NEW d \in Dirs, rows' = rows \ Dropped(d),
         NEW s \in Sessions, NEW r \in RowsOf(s), r \notin rows'
  PROVE  Cardinality(Since(DirOf(s), r.id)') >= Keep
  <1>1. r \in Dropped(d) /\ r \in rows /\ r.session = s /\ r.id \in Nat
    BY DEF RowsOf, TypeOK, RowType
  <1>2. s \in d /\ s \in DirOf(s) /\ DirOf(s) \in Dirs
    BY <1>1, DirsAssumption DEF Dropped, RowsIn, DirOf
  <1>3. DirOf(s) = d
    BY <1>2, DirsAssumption
  <1>4. Cardinality(Since(d, r.id)) >= Keep
    BY <1>1 DEF Dropped, Since
  <1> QED BY <1>1, <1>3, <1>4, TrimSince

(* With more rows there are no fewer newer than any.                        *)
LEMMA MoreSince ==
  ASSUME TypeOK, Ids, IsFiniteSet(rows'), rows \subseteq rows', NEW d, NEW i \in Nat,
         Cardinality(Since(d, i)) >= Keep
  PROVE  Cardinality(Since(d, i)') >= Keep
  <1>1. Since(d, i) \in SUBSET (Since(d, i)') /\ Since(d, i)' \in SUBSET rows'
    BY DEF Since, RowsIn
  <1>2. IsFiniteSet(Since(d, i)')
    BY <1>1, FS_Subset
  <1>3. /\ Cardinality(Since(d, i)) <= Cardinality(Since(d, i)')
        /\ Cardinality(Since(d, i)) \in Nat /\ Cardinality(Since(d, i)') \in Nat
    BY <1>1, <1>2, FS_Subset, FS_CardinalityType
  <1> QED BY <1>3, BoundAssumption

(* A session's first row was crowded out: as many rows are newer.           *)
LEMMA CrowdedIsSince ==
  ASSUME NEW s
  PROVE  CrowdedOut(s) <=> Cardinality(Since(DirOf(s), undo[s].id)) >= Keep
  BY DEF CrowdedOut, Since

(* Where the rows and the first one stay, so does whether it was.           *)
LEMMA CrowdedStays ==
  ASSUME NEW s, UNCHANGED rows, undo'[s].id = undo[s].id
  PROVE  CrowdedOut(s)' <=> CrowdedOut(s)
  <1>1. {r \in RowsIn(DirOf(s)) : r.id > undo[s].id}' = {r \in RowsIn(DirOf(s)) : r.id > undo[s].id}
    BY DEF RowsIn, DirOf
  <1> QED BY <1>1 DEF CrowdedOut

-----------------------------------------------------------------------------
(* A step that neither records nor drops rows, starts no run and changes no *)
(* file under one.                                                          *)
RowsStay ==
    /\ UNCHANGED <<rows, lastID, undo, runs>> /\ changed' = changed /\ active' \subseteq active
    /\ \A s \in Sessions : pc'["run"][s] # "none" => pc["run"][s] # "none" \/ s \in active

(* Such a step leaves /undo where it was. *)
LEMMA StayUndo ==
  ASSUME UndoInv, TypeOK', RowsStay
  PROVE  UndoInv'
  <1>1. Ids' /\ Started'
    BY DEF UndoInv, RowsStay, Ids, Started
  <1>2. \A s \in Sessions : Undoable(s)'
    BY CrowdedStays DEF UndoInv, RowsStay, Undoable, RowsOf, First
  <1> QED BY <1>1, <1>2 DEF UndoInv

(* A run's first row is the one /undo looks for, its later ones follow it. *)
LEMMA RecordUndo ==
  ASSUME UndoInv, TypeOK', NEW k \in Kinds, NEW s \in Sessions, Record(k, s)
  PROVE  UndoInv'
  <1> USE DEF UndoInv
  <1>0. TypeOK /\ Ids /\ Started
    OBVIOUS
  <1>1. UNCHANGED <<runs, active>>
    BY DEF Record
  <1>2. Started'
    <2>1. \A t \in Sessions : pc'["run"][t] # "none" => pc["run"][t] # "none"
      <3>1. "run" \in Kinds /\ \E to \in Steps : Go(k, s, to)
        BY DEF Kinds, Record, Then, Steps
      <3>2. pc[k][s] = "snapped"
        BY DEF Record
      <3> QED BY <3>1, <3>2, GoIs
    <2> QED BY <1>1, <2>1 DEF Started
  <1>3. CASE Recorded(k, s)
    <2>1. rows' = rows /\ lastID' = lastID
      BY <1>3 DEF Record, file
    <2>2. undo[s].run = runs[s] /\ k = "run"
      <3>1. Newest(RowsOf(s)) \in RowsOf(s)
        <4>1. RowsOf(s) \in SUBSET rows /\ RowsOf(s) # {}
          BY <1>3 DEF Recorded, RowsOf
        <4>2. \E r \in RowsOf(s) : \A q \in RowsOf(s) : q.id <= r.id
          BY <4>1, NewestExists DEF Ids
        <4> QED BY <4>2 DEF Newest
      <3>2. runs[s] <= undo[s].run /\ undo[s].run <= runs[s]
        BY <1>3, <3>1 DEF Recorded, Undoable
      <3>3. runs[s] \in Nat /\ undo[s].run \in Nat
        BY DEF TypeOK, RowType
      <3> QED BY <1>3, <3>2, <3>3 DEF Recorded
    <2>3. UNCHANGED <<undo, changed>>
      BY <2>2 DEF Record, NoteFirst
    <2>4. RowsStay
      <3>1. \A t \in Sessions : pc'["run"][t] # "none" => pc["run"][t] # "none"
        <4>1. "run" \in Kinds /\ \E to \in Steps : Go(k, s, to)
          BY DEF Kinds, Record, Then, Steps
        <4>2. pc[k][s] = "snapped"
          BY DEF Record
        <4> QED BY <4>1, <4>2, GoIs
      <3> QED BY <1>1, <2>1, <2>3, <3>1 DEF RowsStay
    <2> QED BY <2>4, StayUndo
  <1>4. CASE ~Recorded(k, s)
    <2>0. PICK n : n = Row(lastID + 1, s, RunOf(k, s), tree[k][s])
      OBVIOUS
    <2>1. rows' = rows \union {n} /\ lastID' = lastID + 1 /\ lastID \in Nat
      BY <1>4, <2>0 DEF Record, TypeOK
    <2>2. n.id = lastID + 1 /\ n.session = s /\ n.run = RunOf(k, s) /\ n.tree = tree[k][s]
      BY <2>0 DEF Row
    <2>3. RunOf(k, s) \in Nat /\ runs[s] \in Nat /\ RunOf(k, s) \in {0, runs[s]}
      BY DEF RunOf, TypeOK
    <2>4. \A r \in rows : r.id \in Nat /\ r.run \in Nat /\ r.id <= lastID /\ r.id > 0
      BY <1>0 DEF TypeOK, RowType, Ids
    <2>5. Ids'
      <3>1. IsFiniteSet(rows')
        BY <1>0, <2>1, FS_AddElement DEF Ids
      <3>2. \A r \in rows' : r.id > 0 /\ r.id <= lastID'
        BY <2>1, <2>2, <2>4
      <3>3. \A q, r \in rows' : q.id = r.id => q = r
        BY <1>0, <2>1, <2>2, <2>4 DEF Ids
      <3> QED BY <3>1, <3>2, <3>3 DEF Ids
    <2>6. ASSUME NEW t \in Sessions, undo'[t] = undo[t], CrowdedOut(t) PROVE CrowdedOut(t)'
      <3>1. undo[t].id \in Nat
        BY <1>0 DEF TypeOK, RowType
      <3>2. Cardinality(Since(DirOf(t), undo[t].id)) >= Keep
        BY <2>6, CrowdedIsSince
      <3>3. Cardinality(Since(DirOf(t), undo[t].id)') >= Keep
        <4> DEFINE i == undo[t].id
        <4>1. i \in Nat /\ i' = i /\ Cardinality(Since(DirOf(t), i)) >= Keep
          BY <2>6, <3>1, <3>2
        <4>2. PICK m \in Nat : m = i
          BY <4>1
        <4>3. Cardinality(Since(DirOf(t), m)') >= Keep
          BY <1>0, <2>1, <2>5, <4>1, <4>2, MoreSince DEF Ids
        <4> QED BY <4>1, <4>2, <4>3 DEF Since, RowsIn
      <3> QED BY <3>3 DEF CrowdedOut, Since, RowsIn
    <2>7. ASSUME NEW t \in Sessions, t # s PROVE Undoable(t)'
      <3>1. RowsOf(t)' = RowsOf(t)
        BY <2>1, <2>2, <2>7 DEF RowsOf
      <3>2. undo'[t] = undo[t] /\ (t \in changed' <=> t \in changed) /\ runs'[t] = runs[t]
        BY <1>1, <2>7 DEF Record, NoteFirst, TypeOK
      <3>3. ASSUME NEW q \in rows, First(t, q) PROVE q \in rows' /\ First(t, q)'
        BY <2>1, <3>1, <3>2, <3>3 DEF First
      <3> QED BY <2>6, <3>1, <3>2, <3>3 DEF Undoable
    <2>8. RowsOf(s)' = RowsOf(s) \union {n}
      BY <2>1, <2>2 DEF RowsOf
    <2>9. \A r \in RowsOf(s) : r \in rows
      BY DEF RowsOf
    <2>10. undo[s].run \in Nat /\ undo[s].run <= runs[s] /\ \A r \in RowsOf(s) : r.run <= undo[s].run
      BY DEF Undoable, TypeOK, RowType
    <2>11. \A q, r \in RowsOf(s)' : 0 < q.run /\ q.run < r.run => q.id < r.id
      <3>1. ASSUME NEW q \in RowsOf(s), NEW r \in RowsOf(s), 0 < q.run, q.run < r.run PROVE q.id < r.id
        BY <3>1 DEF Undoable
      <3>2. ASSUME NEW q \in RowsOf(s) PROVE q.id < n.id
        BY <2>2, <2>1, <2>4, <2>9
      <3>3. ASSUME NEW r \in RowsOf(s), 0 < n.run, n.run < r.run PROVE FALSE
        <4>1. r.run <= runs[s] /\ n.run = runs[s] /\ r.run \in Nat
          BY <2>2, <2>3, <2>4, <2>9, <2>10, <3>3
        <4> QED BY <4>1, <2>3, <3>3
      <3> QED BY <2>8, <3>1, <3>2, <3>3, <2>2, <2>3
    <2>12. CASE k = "run" /\ undo[s].run # runs[s]
      <3>1. undo'[s] = Row(lastID + 1, s, runs[s], tree[k][s]) /\ changed' = changed \ {s}
        BY <2>1, <2>12 DEF Record, NoteFirst, TypeOK
      <3>2. undo'[s].id = n.id /\ undo'[s].run = runs[s] /\ undo'[s].tree = tree[k][s]
        BY <2>2, <3>1 DEF Row
      <3>3. n.run = runs[s]
        BY <2>2, <2>12 DEF RunOf
      <3>4. First(s, n)'
        <4>1. n \in RowsOf(s)' /\ n.id = undo'[s].id /\ n.run = undo'[s].run /\ n.tree = undo'[s].tree
          BY <2>2, <2>8, <3>2, <3>3
        <4>2. ASSUME NEW r \in RowsOf(s)', r.run = undo'[s].run PROVE n.id <= r.id
          <5>1. CASE r = n
            BY <5>1, <2>1, <2>2
          <5>2. CASE r \in RowsOf(s)
            <6>1. r.run <= undo[s].run /\ r.run = runs[s]
              BY <2>10, <3>2, <4>2, <5>2
            <6> QED BY <6>1, <2>10, <2>12, <2>3
          <5> QED BY <5>1, <5>2, <2>8
        <4> QED BY <4>1, <4>2 DEF First
      <3>5. \A r \in RowsOf(s)' : r.run <= undo'[s].run
        BY <2>8, <2>10, <3>2, <3>3, <2>3, <2>4, <2>9
      <3>6. undo'[s].run <= runs'[s] /\ s \notin changed'
        BY <3>1, <3>2, <1>1, <2>3
      <3>7. n \in rows'
        BY <2>1
      <3>8. Undoable(s)'
        BY <2>11, <3>4, <3>5, <3>6, <3>7 DEF Undoable
      <3> QED BY <1>2, <2>5, <2>7, <3>8
    <2>13. CASE ~(k = "run" /\ undo[s].run # runs[s])
      <3>1. UNCHANGED <<undo, changed>>
        BY <2>13 DEF Record, NoteFirst
      <3>2. \A r \in RowsOf(s)' : r.run <= undo'[s].run
        <4>1. n.run <= undo[s].run
          BY <2>2, <2>13, <2>10 DEF RunOf
        <4> QED BY <2>8, <2>10, <3>1, <4>1
      <3>3. ASSUME NEW q \in rows, First(s, q) PROVE q \in rows' /\ First(s, q)'
        <4>1. q.id <= n.id
          BY <2>2, <2>4, <2>1
        <4>2. q \in rows' /\ q \in RowsOf(s)'
          BY <2>1, <2>8, <3>3 DEF First
        <4> QED BY <2>8, <3>1, <3>3, <4>1, <4>2 DEF First
      <3>4. undo[s].run > 0 => CrowdedOut(s)' \/ \E q \in rows' : First(s, q)'
        BY <2>6, <3>1, <3>3 DEF Undoable
      <3>5. Undoable(s)'
        BY <1>1, <2>10, <2>11, <3>1, <3>2, <3>4 DEF Undoable
      <3> QED BY <1>2, <2>5, <2>7, <3>5
    <2> QED BY <2>12, <2>13
  <1> QED BY <1>3, <1>4

(* The row /undo looks for is dropped only where enough newer ones stay. *)
LEMMA TrimUndo ==
  ASSUME UndoInv, TypeOK', NEW k \in Kinds, NEW s \in Sessions, Trim(k, s)
  PROVE  UndoInv'
  <1>0. TypeOK /\ Ids /\ Started /\ DirOf(s) \in Dirs
    BY DirType DEF UndoInv
  <1>1. rows' = rows \ Dropped(DirOf(s)) /\ UNCHANGED <<lastID, undo, changed, runs, active>>
    BY DEF Trim, past
  <1>2. Started'
    <2>1. "run" \in Kinds /\ \E to \in Steps : Go(k, s, to)
      BY DEF Kinds, Trim, Then, Steps
    <2>2. pc[k][s] = "recorded"
      BY DEF Trim
    <2>3. \A t \in Sessions : pc'["run"][t] # "none" => pc["run"][t] # "none"
      BY <1>0, <2>1, <2>2, GoIs
    <2> QED BY <1>0, <1>1, <2>3 DEF Started
  <1>3. Ids'
    <2>1. rows' \in SUBSET rows
      BY <1>1
    <2>2. IsFiniteSet(rows')
      BY <1>0, <2>1, FS_Subset DEF Ids
    <2> QED BY <1>0, <1>1, <2>1, <2>2 DEF Ids
  <1>4. ASSUME NEW t \in Sessions PROVE Undoable(t)'
    <2>1. RowsOf(t)' \subseteq RowsOf(t) /\ Undoable(t)
      BY <1>1 DEF RowsOf, UndoInv
    <2>2. PICK i \in Nat : i = undo[t].id /\ i = undo'[t].id
      BY <1>0, <1>1 DEF TypeOK, RowType
    <2>3. ASSUME CrowdedOut(t) PROVE CrowdedOut(t)'
      <3>1. Cardinality(Since(DirOf(t), i)) >= Keep
        BY <2>2, <2>3, CrowdedIsSince
      <3>2. DirOf(t) \in Dirs
        BY DirType
      <3>3. Cardinality(Since(DirOf(t), i)') >= Keep
        BY <1>0, <1>1, <3>1, <3>2, TrimSince
      <3> QED BY <2>2, <3>3 DEF CrowdedOut, Since, RowsIn
    <2>4. ASSUME NEW q \in rows, First(t, q) PROVE CrowdedOut(t)' \/ (q \in rows' /\ First(t, q)')
      <3>1. CASE q \in rows'
        BY <1>1, <2>1, <2>4, <3>1 DEF First, RowsOf
      <3>2. CASE q \notin rows'
        <4>1. q \in RowsOf(t) /\ q.id = i
          BY <2>2, <2>4 DEF First
        <4>2. Cardinality(Since(DirOf(t), q.id)') >= Keep
          BY <1>0, <1>1, <3>2, <4>1, DroppedSince
        <4> QED BY <2>2, <4>1, <4>2 DEF CrowdedOut, Since, RowsIn
      <3> QED BY <3>1, <3>2
    <2> QED BY <1>1, <2>1, <2>3, <2>4 DEF Undoable
  <1> QED BY <1>2, <1>3, <1>4 DEF UndoInv

(* The daemon starts with no row and nothing to undo. *)
LEMMA UndoInit == Init => UndoInv
  <1> SUFFICES ASSUME Init PROVE UndoInv
    OBVIOUS
  <1>1. TypeOK
    BY TypeInit
  <1>2. rows = {} /\ active = {} /\ changed = {} /\ IsFiniteSet(rows)
    BY FS_EmptySet DEF Init
  <1>3. \A s \in Sessions : pc["run"][s] = "none" /\ undo[s].run = 0 /\ runs[s] = 0
    BY DEF Init, Kinds, NoRow, Row
  <1> QED BY <1>1, <1>2, <1>3 DEF UndoInv, Ids, Started, Undoable, RowsOf

(* Every step keeps the row that /undo goes back to. *)
LEMMA UndoStep == UndoInv /\ [Next]_vars => UndoInv'
  <1> SUFFICES ASSUME UndoInv, [Next]_vars PROVE UndoInv'
    OBVIOUS
  <1> USE DEF repo, file, count, past
  <1>0. TypeOK /\ TypeOK' /\ "run" \in Kinds /\ "restore" \in Kinds
    BY TypeStep DEF UndoInv, Kinds
  <1>1. ASSUME NEW s \in Sessions, StartRun(s) PROVE UndoInv'
    <2>1. UNCHANGED <<rows, lastID, undo, changed>>
      BY <1>1 DEF StartRun
    <2>2. runs' = [runs EXCEPT ![s] = @ + 1] /\ active' = active \union {s}
      BY <1>1 DEF StartRun
    <2>3. \A t \in Sessions : runs[t] \in Nat /\ runs'[t] = IF t = s THEN runs[t] + 1 ELSE runs[t]
      BY <1>0, <2>2 DEF TypeOK
    <2>4. \A t \in Sessions : pc'["run"][t] # "none" => pc["run"][t] # "none" \/ t = s
      BY <1>0, <1>1, GoIs DEF StartRun
    <2>5. Ids' /\ Started'
      BY <2>1, <2>2, <2>3, <2>4 DEF UndoInv, Ids, Started
    <2>6. ASSUME NEW t \in Sessions PROVE Undoable(t)'
      <3>1. undo'[t].run <= runs'[t]
        <4>1. undo[t].run \in Nat /\ undo[t].run <= runs[t] /\ undo'[t] = undo[t]
          BY <1>0, <2>1 DEF UndoInv, Undoable, TypeOK, RowType
        <4> QED BY <2>3, <4>1
      <3> QED BY <2>1, <3>1, CrowdedStays DEF UndoInv, Undoable, RowsOf, First
    <2> QED BY <1>0, <2>5, <2>6 DEF UndoInv
  <1>2. ASSUME NEW s \in Sessions, WriteFiles(s) PROVE UndoInv'
    <2>1. UNCHANGED <<rows, lastID, undo, runs, active, pc>>
      BY <1>2 DEF WriteFiles
    <2>2. runs[s] > 0
      BY <1>2 DEF WriteFiles, UndoInv, Started
    <2>3. \A t \in Sessions : t \in changed' => undo[t].run > 0
      BY <1>2, <2>2 DEF WriteFiles, UndoInv, Undoable
    <2>4. Ids' /\ Started'
      BY <2>1 DEF UndoInv, Ids, Started
    <2>5. ASSUME NEW t \in Sessions PROVE Undoable(t)'
      BY <2>1, <2>3, CrowdedStays DEF UndoInv, Undoable, RowsOf, First
    <2> QED BY <1>0, <2>4, <2>5 DEF UndoInv
  <1>3. ASSUME NEW s \in Sessions, CheckpointBatch(s) \/ SkipCheckpoint(s) \/ NextBatch(s) \/ EndRun(s)
        PROVE  UndoInv'
    <2>1. pc["run"][s] # "none"
      BY <1>3 DEF CheckpointBatch, SkipCheckpoint, NextBatch, EndRun
    <2>2. \E to \in Steps : Go("run", s, to)
      BY <1>3 DEF CheckpointBatch, SkipCheckpoint, NextBatch, EndRun, Snapshot, Steps
    <2>3. \A t \in Sessions : pc'["run"][t] # "none" => pc["run"][t] # "none"
      BY <1>0, <2>1, <2>2, GoIs
    <2>4. UNCHANGED <<rows, lastID, undo, runs, changed>> /\ active' \subseteq active
      BY <1>3 DEF CheckpointBatch, SkipCheckpoint, NextBatch, EndRun
    <2>5. RowsStay
      BY <2>3, <2>4 DEF RowsStay
    <2> QED BY <1>0, <2>5, StayUndo
  <1>4. ASSUME NEW s \in Sessions,
               AskRestore(s) \/ CheckpointRestore(s) \/ Compare(s) \/ Checkout(s) \/ CheckoutFails(s) \/ Answer(s) \/ GiveUp(s)
        PROVE  UndoInv'
    <2>1. \E to : Go("restore", s, to)
      BY <1>4 DEF AskRestore, CheckpointRestore, Snapshot, Compare, Checkout, CheckoutFails, Answer, GiveUp, Done
    <2>2. \A t \in Sessions : pc'["run"][t] = pc["run"][t]
      BY <1>0, <2>1, GoIs
    <2>3. UNCHANGED <<rows, lastID, undo, runs, changed, active>>
      BY <1>4 DEF AskRestore, CheckpointRestore, Compare, Checkout, CheckoutFails, Answer, GiveUp
    <2>4. RowsStay
      BY <2>2, <2>3 DEF RowsStay
    <2> QED BY <1>0, <2>4, StayUndo
  <1>5. ASSUME NEW k \in Kinds, NEW s \in Sessions, Record(k, s) \/ Trim(k, s) PROVE UndoInv'
    BY <1>0, <1>5, RecordUndo, TrimUndo
  <1>6. ASSUME \/ \E p \in prunes : ListTrees(p) \/ Prune(p)
               \/ \E d \in Dirs : Edit(d)
               \/ Hour \/ UNCHANGED vars
        PROVE  UndoInv'
    <2>1. UNCHANGED <<rows, lastID, undo, runs, changed, active, pc>>
      BY <1>6 DEF ListTrees, Prune, Edit, Hour, vars
    <2>2. RowsStay
      BY <2>1 DEF RowsStay
    <2> QED BY <1>0, <2>2, StayUndo
  <1>7. CASE Restart
    <2>1. UNCHANGED <<rows, lastID, undo, runs, changed, active>>
      BY <1>7 DEF Restart
    <2>2. \A s \in Sessions : pc'["run"][s] # "none" => s \in active
      BY <1>7 DEF Restart
    <2>3. RowsStay
      BY <2>1, <2>2 DEF RowsStay
    <2> QED BY <1>0, <2>3, StayUndo
  <1> QED BY <1>1, <1>2, <1>3, <1>4, <1>5, <1>6, <1>7 DEF Next, Run, Restore

(* Of these rows, the one undoTarget takes is the run's first. *)
LEMMA UndoReaches == UndoInv => UndoIsRunStart
  <1> SUFFICES ASSUME UndoInv, NEW s \in Sessions, s \in changed, ~CrowdedOut(s) PROVE UndoesRun(s)
    BY DEF UndoIsRunStart, UndoInv, TypeOK
  <1>0. TypeOK /\ Ids /\ Undoable(s)
    BY DEF UndoInv
  <1>1. PICK q \in rows : First(s, q)
    BY <1>0 DEF Undoable
  <1>2. undo[s].run > 0 /\ undo[s].run \in Nat
    BY <1>0 DEF Undoable, TypeOK, RowType
  <1>3. \A r \in RowsOf(s) : r \in rows /\ r.id \in Nat /\ r.run \in Nat
    BY <1>0 DEF RowsOf, TypeOK, RowType
  <1>4. q \in RowsOf(s) /\ q.run = undo[s].run /\ q.tree = undo[s].tree /\ q \in OfRuns(s)
    BY <1>1, <1>2 DEF First, OfRuns
  <1>5. Newest(OfRuns(s)) \in OfRuns(s) /\ \A r \in OfRuns(s) : r.id <= Newest(OfRuns(s)).id
    <2>1. OfRuns(s) \in SUBSET rows
      BY DEF OfRuns, RowsOf
    <2>2. \E m \in OfRuns(s) : \A r \in OfRuns(s) : r.id <= m.id
      BY <1>0, <1>4, <2>1, NewestExists DEF Ids
    <2> QED BY <2>2 DEF Newest
  <1>6. Newest(OfRuns(s)).run = undo[s].run
    <2> DEFINE m == Newest(OfRuns(s))
    <2>1. m \in RowsOf(s) /\ m.run # 0 /\ q.id <= m.id
      BY <1>4, <1>5 DEF OfRuns
    <2> HIDE DEF m
    <2>2. m.run <= undo[s].run /\ ~(m.run < q.run)
      BY <1>0, <1>3, <1>4, <2>1 DEF Undoable
    <2>3. m.run = undo[s].run
      BY <1>2, <1>3, <1>4, <2>1, <2>2
    <2> QED BY <2>3 DEF m
  <1> DEFINE R == {r \in RowsOf(s) : r.run = undo[s].run}
  <1>7. q \in R /\ \A r \in R : q.id <= r.id
    BY <1>1, <1>4 DEF First
  <1>8. Oldest(R) \in R /\ \A r \in R : Oldest(R).id <= r.id
    BY <1>7 DEF Oldest
  <1>9. Oldest(R) = q
    <2>1. Oldest(R).id = q.id
      BY <1>3, <1>7, <1>8
    <2> QED BY <1>0, <1>3, <1>7, <1>8, <2>1 DEF Ids
  <1>10. UndoTarget(s) = q
    BY <1>6, <1>9 DEF UndoTarget
  <1> QED BY <1>4, <1>10 DEF UndoesRun

(* For any sessions, directories, runs, restores and faults and however many *)
(* checkpoints are kept, /undo goes back to the first checkpoint of the last *)
(* run that recorded one and changed files since, unless as many newer ones  *)
(* as the directory keeps have crowded it out.                               *)
THEOREM UndoKept == Spec => []UndoIsRunStart
  BY UndoInit, UndoStep, UndoReaches, PTL DEF Spec

-----------------------------------------------------------------------------
(* A session whose restore, directory and rows a step leaves as they are.   *)
RestoreStays(s) ==
    /\ UNCHANGED rows
    /\ s \in calm' => s \in calm /\ disk'[DirOf(s)] = disk[DirOf(s)]
    /\ pc'["restore"][s] = "snapped" => pc["restore"][s] = "snapped" /\ tree'["restore"][s] = tree["restore"][s]
    /\ Recording(s)' => Recording(s)

(* Such a step leaves what the restore replaces where it was recorded. *)
LEMMA StayRestorable ==
  ASSUME NEW s \in Sessions, Restorable(s), RestoreStays(s)
  PROVE  Restorable(s)'
  <1>1. s \in calm' /\ pc'["restore"][s] = "snapped" => tree'["restore"][s][DirOf(s)] = disk'[DirOf(s)]
    BY DEF Restorable, RestoreStays
  <1>2. ASSUME s \in calm', Recording(s)' PROVE \E i \in Nat : Saves(s, i)'
    <2>1. PICK i \in Nat : Saves(s, i)
      BY <1>2 DEF Restorable, RestoreStays
    <2>2. Saves(s, i)'
      BY <1>2, <2>1 DEF RestoreStays, Saves, RowsOf, Since, RowsIn
    <2> QED BY <2>2
  <1> QED BY <1>1, <1>2 DEF Restorable

(* A restore's row holds what it replaces; other rows follow it. *)
LEMMA RecordRestorable ==
  ASSUME RowInv, UndoInv', NEW k \in Kinds, NEW s \in Sessions, Record(k, s), NEW t \in Sessions
  PROVE  Restorable(t)'
  <1>0. TypeOK /\ Ids /\ Ids' /\ Restorable(t) /\ k \in {"run", "restore"}
    BY DEF RowInv, UndoInv, Kinds
  <1>1. UNCHANGED <<disk, calm, runs>>
    BY DEF Record
  <1>2. PICK to \in {"recorded", "free", "taken"} : Go(k, s, to) /\ (k = "restore" => to = "recorded")
    <2>1. k = "restore" => ~Recorded(k, s)
      BY DEF Recorded
    <2> QED BY <2>1 DEF Record, Then
  <1>3. \A j \in Kinds, u \in Sessions : pc'[j][u] = IF j = k /\ u = s THEN to ELSE pc[j][u]
    BY <1>0, <1>2, GoIs
  <1>4. "restore" \in Kinds /\ "run" \in Kinds
    BY DEF Kinds
  <1>5. pc[k][s] = "snapped" /\ tree' = [tree EXCEPT ![k][s] = NoTree]
    BY DEF Record
  <1>6. CASE k = "restore" /\ t = s
    <2> SUFFICES ASSUME t \in calm' PROVE \E i \in Nat : Saves(t, i)'
      BY <1>2, <1>3, <1>4, <1>6 DEF Restorable
    <2>0. PICK n : n = Row(lastID + 1, s, 0, tree[k][s])
      OBVIOUS
    <2>1. rows' = rows \union {n} /\ lastID \in Nat
      BY <1>0, <1>6, <2>0 DEF Record, Recorded, RunOf, TypeOK
    <2>2. n.id = lastID + 1 /\ n.session = s /\ n.tree = tree["restore"][s]
      BY <1>6, <2>0 DEF Row
    <2>3. tree["restore"][s][DirOf(s)] = disk[DirOf(s)]
      BY <1>0, <1>1, <1>5, <1>6 DEF Restorable
    <2>4. n \in RowsOf(t)' /\ n.tree[DirOf(t)] = disk'[DirOf(t)]
      BY <1>1, <1>6, <2>1, <2>2, <2>3 DEF RowsOf
    <2>5. \A r \in RowsOf(t)' : r.id <= lastID + 1
      <3>1. \A r \in rows : r.id <= lastID /\ r.id \in Nat
        BY <1>0 DEF Ids, TypeOK, RowType
      <3> QED BY <2>1, <2>2, <3>1 DEF RowsOf
    <2>6. PICK i \in Nat : i = lastID + 1
      BY <2>1
    <2>7. Saves(t, i)'
      BY <2>2, <2>4, <2>5, <2>6 DEF Saves
    <2> QED BY <2>7
  <1>7. CASE ~(k = "restore" /\ t = s)
    <2>1. pc'["restore"][t] = pc["restore"][t]
      BY <1>3, <1>4, <1>7
    <2>2. tree'["restore"][t] = tree["restore"][t]
      BY <1>0, <1>4, <1>5, <1>7 DEF TypeOK
    <2>3. ASSUME t \in calm', Recording(t)' PROVE \E i \in Nat : Saves(t, i)'
      <3>1. PICK i \in Nat : Saves(t, i)
        BY <1>0, <1>1, <2>1, <2>3 DEF Restorable, Recording
      <3>2. rows \subseteq rows' /\ IsFiniteSet(rows')
        BY <1>0 DEF Record, file, Ids
      <3>3. \A r \in RowsOf(t)' : r \in RowsOf(t) \/ r.run # 0
        <4>1. runs[s] > 0 \/ k = "restore"
          BY <1>0, <1>5 DEF RowInv, UndoInv, Started
        <4>2. \A r \in rows' : r \in rows \/ (r.session = s /\ r.run = RunOf(k, s))
          BY DEF Record, file, Row
        <4>3. CASE t = s
          BY <1>0, <1>7, <4>1, <4>2, <4>3 DEF RunOf, RowsOf
        <4>4. CASE t # s
          BY <4>2, <4>4 DEF RowsOf
        <4> QED BY <4>3, <4>4
      <3>4. Cardinality(Since(DirOf(t), i)) >= Keep => Cardinality(Since(DirOf(t), i)') >= Keep
        BY <1>0, <3>2, MoreSince
      <3>5. \A r \in RowsOf(t) : r \in RowsOf(t)'
        BY <3>2 DEF RowsOf
      <3>6. Saves(t, i)'
        BY <1>1, <3>1, <3>3, <3>4, <3>5 DEF Saves
      <3> QED BY <3>6
    <2> QED BY <1>0, <1>1, <2>1, <2>2, <2>3 DEF Restorable
  <1> QED BY <1>6, <1>7

(* That row is dropped only where enough newer ones stay. *)
LEMMA TrimRestorable ==
  ASSUME RowInv, UndoInv', NEW k \in Kinds, NEW s \in Sessions, Trim(k, s), NEW t \in Sessions
  PROVE  Restorable(t)'
  <1>0. TypeOK /\ Ids /\ Restorable(t) /\ DirOf(s) \in Dirs /\ DirOf(t) \in Dirs /\ "restore" \in Kinds
    BY DirType DEF RowInv, UndoInv, Kinds
  <1>1. rows' = rows \ Dropped(DirOf(s)) /\ UNCHANGED <<disk, calm, tree>>
    BY DEF Trim, past
  <1>2. PICK to \in {"free", "taken"} : Go(k, s, to)
    BY DEF Trim, Then
  <1>3. pc[k][s] = "recorded"
    BY DEF Trim
  <1>4. pc'["restore"][t] = "snapped" => pc["restore"][t] = "snapped"
    BY <1>0, <1>2, GoIs
  <1>5. Recording(t)' => Recording(t)
    BY <1>0, <1>2, <1>3, GoIs DEF Recording
  <1>6. ASSUME t \in calm', Recording(t)' PROVE \E i \in Nat : Saves(t, i)'
    <2>1. PICK i \in Nat : Saves(t, i)
      BY <1>0, <1>1, <1>5, <1>6 DEF Restorable
    <2>2. RowsOf(t)' = RowsOf(t) \intersect rows'
      BY <1>1 DEF RowsOf
    <2>3. CASE \E r \in RowsOf(t) \intersect rows' : r.id = i /\ r.tree[DirOf(t)] = disk[DirOf(t)]
      BY <1>1, <2>1, <2>2, <2>3 DEF Saves
    <2>4. CASE \E r \in RowsOf(t) : r.id = i /\ r \notin rows'
      <3>1. Cardinality(Since(DirOf(t), i)') >= Keep
        BY <1>0, <1>1, <2>4, DroppedSince
      <3> QED BY <2>1, <2>2, <3>1 DEF Saves
    <2>5. CASE Cardinality(Since(DirOf(t), i)) >= Keep
      <3>1. Cardinality(Since(DirOf(t), i)') >= Keep
        BY <1>0, <1>1, <2>5, TrimSince
      <3> QED BY <2>1, <2>2, <3>1 DEF Saves
    <2> QED BY <2>1, <2>3, <2>4, <2>5 DEF Saves
  <1> QED BY <1>0, <1>1, <1>4, <1>6 DEF Restorable

(* Two sessions share a directory or are apart. *)
LEMMA DirShared ==
  ASSUME NEW s \in Sessions, NEW t \in Sessions
  PROVE  s \in DirOf(s) /\ (t \in DirOf(s) <=> DirOf(t) = DirOf(s))
  BY DirsAssumption DEF DirOf

(* A content that a directory takes on is not seen in the others.           *)
LEMMA ChangeApart ==
  ASSUME TypeOK, NEW d \in Dirs, Change(d), NEW s \in Sessions, s \notin d
  PROVE  disk'[DirOf(s)] = disk[DirOf(s)]
  <1>1. DirOf(s) # d /\ DirOf(s) \in Dirs
    BY DirShared, DirType
  <1> QED BY <1>1 DEF Change, TypeOK, Trees

(* Every step keeps the rows that /undo and a second restore need. *)
LEMMA RowStep == RowInv /\ [Next]_vars => RowInv'
  <1> SUFFICES ASSUME RowInv, [Next]_vars, NEW s \in Sessions PROVE Restorable(s)'
    BY UndoStep DEF RowInv
  <1> USE DEF repo, file, count, past
  <1>0. TypeOK /\ Restorable(s) /\ UndoInv' /\ "run" \in Kinds /\ "restore" \in Kinds
    BY UndoStep DEF RowInv, UndoInv, Kinds
  <1>1. ASSUME NEW k \in Kinds, NEW t \in Sessions, Record(k, t) \/ Trim(k, t) PROVE Restorable(s)'
    BY <1>0, <1>1, RecordRestorable, TrimRestorable
  <1>2. ASSUME NEW t \in Sessions, StartRun(t) \/ NextBatch(t) \/ EndRun(t) \/ SkipCheckpoint(t) \/ CheckpointBatch(t)
        PROVE  Restorable(s)'
    <2>1. \E to : Go("run", t, to)
      BY <1>2 DEF StartRun, NextBatch, EndRun, SkipCheckpoint, CheckpointBatch, Snapshot
    <2>2. pc'["restore"][s] = pc["restore"][s]
      BY <1>0, <2>1, GoIs
    <2>3. UNCHANGED <<rows, disk, calm>>
      BY <1>2 DEF StartRun, NextBatch, EndRun, SkipCheckpoint, CheckpointBatch
    <2>4. tree'["restore"][s] = tree["restore"][s]
      <3>1. tree' = tree \/ \E u : tree' = [tree EXCEPT !["run"][t] = u]
        BY <1>2 DEF StartRun, NextBatch, EndRun, SkipCheckpoint, CheckpointBatch, Snapshot
      <3> QED BY <1>0, <3>1 DEF TypeOK
    <2> QED BY <1>0, <2>2, <2>3, <2>4, StayRestorable DEF RestoreStays, Recording
  <1>3. ASSUME NEW t \in Sessions, WriteFiles(t) PROVE Restorable(s)'
    <2>1. UNCHANGED <<rows, pc, tree>> /\ calm' = calm \ DirOf(t) /\ Change(DirOf(t))
      BY <1>3 DEF WriteFiles
    <2>2. s \in calm' => s \in calm /\ disk'[DirOf(s)] = disk[DirOf(s)]
      BY <1>0, <2>1, ChangeApart, DirType
    <2> QED BY <1>0, <2>1, <2>2, StayRestorable DEF RestoreStays, Recording
  <1>4. ASSUME NEW d \in Dirs, Edit(d) PROVE Restorable(s)'
    <2>1. UNCHANGED <<rows, pc, tree>> /\ calm' = calm \ d /\ Change(d)
      BY <1>4 DEF Edit
    <2>2. s \in calm' => s \in calm /\ disk'[DirOf(s)] = disk[DirOf(s)]
      BY <1>0, <2>1, ChangeApart
    <2> QED BY <1>0, <2>1, <2>2, StayRestorable DEF RestoreStays, Recording
  <1>5. ASSUME NEW t \in Sessions, CheckpointRestore(t) PROVE Restorable(s)'
    <2>1. UNCHANGED <<rows, disk>> /\ calm' = calm \union {t} /\ Go("restore", t, "snapped")
          /\ tree' = [tree EXCEPT !["restore"][t] = Staged(DirOf(t))]
      BY <1>5 DEF CheckpointRestore, Snapshot
    <2>2. pc'["restore"][s] = IF s = t THEN "snapped" ELSE pc["restore"][s]
      BY <1>0, <2>1, GoIs
    <2>3. tree'["restore"][s] = IF s = t THEN Staged(DirOf(t)) ELSE tree["restore"][s]
      BY <1>0, <2>1 DEF TypeOK
    <2>4. CASE s = t
      <3>1. Staged(DirOf(s))[DirOf(s)] = disk[DirOf(s)]
        BY <1>0, DirType DEF Staged, TypeOK, Trees
      <3> QED BY <2>1, <2>2, <2>3, <2>4, <3>1 DEF Restorable, Recording
    <2>5. CASE s # t
      <3>1. RestoreStays(s)
        BY <2>1, <2>2, <2>3, <2>5 DEF RestoreStays, Recording
      <3> QED BY <1>0, <3>1, StayRestorable
    <2> QED BY <2>4, <2>5
  <1>6. ASSUME NEW t \in Sessions, AskRestore(t) \/ Compare(t) \/ Answer(t) \/ GiveUp(t) PROVE Restorable(s)'
    <2>1. UNCHANGED <<rows, disk>> /\ calm' \subseteq calm
      BY <1>6 DEF AskRestore, Compare, Answer, GiveUp, Done
    <2>2. tree' = tree \/ tree' = [tree EXCEPT !["restore"][t] = NoTree]
      BY <1>6 DEF AskRestore, Compare, Answer, GiveUp, Done
    <2>3. \E to \in {"checked", "missing", "none", "compared"} :
             Go("restore", t, to) /\ (to = "compared" => pc["restore"][t] = "taken")
      BY <1>6 DEF AskRestore, Compare, Answer, GiveUp, Done
    <2>4. pc'["restore"][s] = "snapped" => pc["restore"][s] = "snapped" /\ tree'["restore"][s] = tree["restore"][s]
      <3>1. pc'["restore"][s] = "snapped" => pc["restore"][s] = "snapped" /\ s # t
        BY <1>0, <2>3, GoIs
      <3> QED BY <1>0, <2>2, <3>1 DEF TypeOK
    <2>5. Recording(s)' => Recording(s)
      BY <1>0, <2>3, GoIs DEF Recording
    <2> QED BY <1>0, <2>1, <2>4, <2>5, StayRestorable DEF RestoreStays
  <1>7. ASSUME NEW t \in Sessions, Checkout(t) PROVE Restorable(s)'
    <2>1. UNCHANGED <<rows, tree>> /\ calm' = calm \ Others(t) /\ Go("restore", t, "restored")
          /\ disk' = [disk EXCEPT ![DirOf(t)] = Back(t)]
      BY <1>7 DEF Checkout
    <2>2. pc'["restore"][s] = IF s = t THEN "restored" ELSE pc["restore"][s]
      BY <1>0, <2>1, GoIs
    <2>3. CASE s = t
      BY <2>2, <2>3 DEF Restorable, Recording
    <2>4. CASE s # t
      <3>1. s \in calm' => s \in calm /\ disk'[DirOf(s)] = disk[DirOf(s)]
        BY <1>0, <2>1, <2>4, DirType DEF Others, TypeOK, Trees
      <3> QED BY <1>0, <2>1, <2>2, <2>4, <3>1, StayRestorable DEF RestoreStays, Recording
    <2> QED BY <2>3, <2>4
  <1>8. ASSUME NEW t \in Sessions, CheckoutFails(t) PROVE Restorable(s)'
    <2>1. UNCHANGED <<rows, tree>> /\ calm' = calm \ DirOf(t) /\ Go("restore", t, "none") /\ Change(DirOf(t))
      BY <1>8 DEF CheckoutFails
    <2>2. pc'["restore"][s] = IF s = t THEN "none" ELSE pc["restore"][s]
      BY <1>0, <2>1, GoIs
    <2>3. s \in calm' => s \in calm /\ disk'[DirOf(s)] = disk[DirOf(s)]
      BY <1>0, <2>1, ChangeApart, DirType
    <2> QED BY <1>0, <2>1, <2>2, <2>3, StayRestorable DEF RestoreStays, Recording
  <1>9. ASSUME (\E p \in prunes : ListTrees(p) \/ Prune(p)) \/ Hour \/ UNCHANGED vars PROVE Restorable(s)'
    <2>1. UNCHANGED <<rows, disk, pc, tree, calm>>
      BY <1>9 DEF ListTrees, Prune, Hour, vars
    <2> QED BY <1>0, <2>1, StayRestorable DEF RestoreStays, Recording
  <1>10. CASE Restart
    <2>1. calm' = {}
      BY <1>10 DEF Restart
    <2> QED BY <2>1 DEF Restorable
  <1> QED BY <1>1, <1>2, <1>3, <1>4, <1>5, <1>6, <1>7, <1>8, <1>9, <1>10 DEF Next, Run, Restore

(* The daemon starts with no restore. *)
LEMMA RowInit == Init => RowInv
  BY UndoInit DEF Init, RowInv, Restorable

(* The rows of a directory are told apart, in the order of the runs, and    *)
(* until as many as are kept followed it hold what a restore replaces: the  *)
(* inductive invariant behind the two theorems about going back.            *)
THEOREM RowsKept == Spec => []RowInv
  BY RowInit, RowStep, PTL DEF Spec

(* What is about to be replaced is in a row, or others crowded it out. *)
LEMMA SavedIsUndoable ==
  ASSUME RowInv, NEW s \in Sessions, pc["restore"][s] = "compared", s \in calm
  PROVE  (\E r \in RowsOf(s) : r.tree[DirOf(s)] = disk[DirOf(s)]) \/ Crowded(s)
  <1>0. TypeOK /\ Ids
    BY DEF RowInv, UndoInv
  <1>1. PICK i \in Nat : Saves(s, i)
    BY DEF RowInv, Restorable, Recording
  <1>2. CASE Cardinality(Since(DirOf(s), i)) >= Keep
    <2> DEFINE C == {r \in RowsIn(DirOf(s)) : r.session # s \/ r.run # 0}
    <2>1. Since(DirOf(s), i) \in SUBSET C
      <3> SUFFICES ASSUME NEW q \in Since(DirOf(s), i), q.session = s, q.run = 0 PROVE FALSE
        BY DEF Since
      <3>1. q \in RowsOf(s) /\ q.id > i /\ q.id \in Nat
        BY <1>0 DEF Since, RowsIn, RowsOf, TypeOK, RowType
      <3> QED BY <1>1, <3>1 DEF Saves
    <2>2. IsFiniteSet(C)
      <3>1. C \in SUBSET rows
        BY DEF RowsIn
      <3> QED BY <1>0, <3>1, FS_Subset DEF Ids
    <2>3. /\ Cardinality(Since(DirOf(s), i)) <= Cardinality(C)
          /\ Cardinality(Since(DirOf(s), i)) \in Nat /\ Cardinality(C) \in Nat
      <3> HIDE DEF C
      <3> QED BY <2>1, <2>2, FS_Subset, FS_CardinalityType
    <2> QED BY <1>2, <2>3, BoundAssumption DEF Crowded
  <1> QED BY <1>1, <1>2 DEF Saves

(* For any sessions, directories, runs, restores and faults and however many *)
(* checkpoints are kept, a restore replaces nothing that was not recorded    *)
(* before, unless someone else wrote the directory since or others took as   *)
(* many checkpoints of it as it keeps.                                       *)
THEOREM RestoresUndoable == Spec => RestoreIsUndoable
  <1>1. RowInv => [\A s \in Sessions : pc["restore"][s] = "compared" /\ disk' # disk /\ lock' = Free /\ s \in calm =>
                     \/ \E r \in RowsOf(s) : r.tree[DirOf(s)] = disk[DirOf(s)]
                     \/ Crowded(s)]_vars
    BY SavedIsUndoable
  <1> QED BY <1>1, RowsKept, PTL DEF RestoreIsUndoable
=============================================================================
