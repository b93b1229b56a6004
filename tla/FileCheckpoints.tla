--------------------------- MODULE FileCheckpoints ---------------------------
(***************************************************************************)
(* File checkpoints (core/file_checkpoints.go, internal/checkpoint): before*)
(* a batch of a run changes files, the session's working directory is      *)
(* snapshotted and the snapshot recorded, so that /undo, /rewind and       *)
(* checkpoint_diff can go back to it.                                      *)
(*                                                                         *)
(* The directories are parts of one git work tree, so one shadow           *)
(* repository with one index holds the snapshots of all of them.  What a   *)
(* directory holds is a version; a snapshot is git's tree of the whole     *)
(* index.  The repository's lock makes a snapshot and a prune one step; a  *)
(* restore holds it while it stages and while it writes files, which runs  *)
(* and users may write meanwhile.                                          *)
(*                                                                         *)
(* Left out: which files are snapshotted (ignored files, nested            *)
(* repositories, refused directories), diffs, which only read, and a       *)
(* session that asks for two restores at once.                             *)
(***************************************************************************)
EXTENDS Naturals, FiniteSets, FiniteSetsExt

CONSTANTS Sessions,
          Dirs,         \* the working directories: of each the sessions that work in it
          Keep,         \* keepFileCheckpoints
          MaxVersions,  \* bound: contents the directories take on
          MaxRows,      \* bound: checkpoints recorded
          MaxRuns,      \* bound: runs
          MaxRestores,  \* bound: restores asked for
          MaxFaults     \* bound: snapshots and restores that fail, requests whose client
                        \* goes, crashes of the daemon

ASSUME DirsAssumption == UNION Dirs = Sessions /\ \A c, d \in Dirs : c = d \/ c \intersect d = {}
ASSUME BoundAssumption == Keep \in Nat \ {0} /\ {MaxVersions, MaxRows, MaxRuns, MaxRestores, MaxFaults} \subseteq Nat

VARIABLES
    disk,     \* what each directory holds
    version,  \* the newest content
    index,    \* the shadow index: what was last staged of each directory
    objects,  \* the trees whose objects the shadow repository holds
    young,    \* the trees with a ref younger than refGrace
    old,      \* the trees whose newest ref is older
    gcDue,    \* gcInterval has passed since the last garbage collection
    rows,     \* file_checkpoints
    lastID,   \* the rowid of the last one inserted
    active,   \* the sessions with an active run
    runs,     \* the runs each session has had
    pc,       \* where each session's run and restore stand
    tree,     \* the snapshot each of them took
    target,   \* the checkpoint each restore goes back to
    lock,     \* the session whose restore holds the repository
    prunes,   \* the background prunes
    undo,     \* history: of the session's last run that recorded one, its first checkpoint
    changed,  \* history: the sessions whose last run with a snapshot changed files since
    calm,     \* history: nothing else wrote the directory since the restore's snapshot
    restores, faults

repo  == <<index, objects, young, old, gcDue, lock>>
file  == <<rows, lastID>>
past  == <<undo, changed, calm>>
count == <<restores, faults>>
vars  == <<disk, version, repo, file, active, runs, pc, tree, target, prunes, past, count>>

-----------------------------------------------------------------------------
Kinds == {"run", "restore"}
DirOf(s) == CHOOSE d \in Dirs : s \in d
Trees == [Dirs -> Nat]

NoTree == [d \in Dirs |-> 0]
Row(i, s, r, t) == [id |-> i, session |-> s, run |-> r, tree |-> t]
NoRow(s) == Row(0, s, 0, NoTree)
Free == {}

Init ==
    /\ disk = [d \in Dirs |-> 0] /\ version = 0
    /\ index = NoTree /\ objects = {} /\ young = {} /\ old = {} /\ gcDue = TRUE
    /\ rows = {} /\ lastID = 0 /\ active = {}
    /\ runs = [s \in Sessions |-> 0]
    /\ pc = [k \in Kinds |-> [s \in Sessions |-> "none"]]
    /\ tree = [k \in Kinds |-> [s \in Sessions |-> NoTree]]
    /\ target = [s \in Sessions |-> NoRow(s)]
    /\ lock = Free /\ prunes = {}
    /\ undo = [s \in Sessions |-> NoRow(s)]
    /\ changed = {} /\ calm = {}
    /\ restores = 0 /\ faults = 0

Go(k, s, to) == pc' = [pc EXCEPT ![k][s] = to]
Fault == faults < MaxFaults /\ faults' = faults + 1 /\ UNCHANGED restores

(* A directory takes on a content it never had. *)
Change(d) ==
    /\ version < MaxVersions /\ version' = version + 1
    /\ disk' = [disk EXCEPT ![d] = version + 1]

-----------------------------------------------------------------------------
(* writeTree: the directory is staged and the whole index written. *)
Staged(d) == [index EXCEPT ![d] = disk[d]]

Snapshot(k, s) ==
    /\ lock = Free
    /\ LET t == Staged(DirOf(s)) IN
       /\ index' = t /\ tree' = [tree EXCEPT ![k][s] = t]
       /\ objects' = objects \union {t}
       /\ young' = young \union {t} /\ old' = old \ {t}
    /\ Go(k, s, "snapped")
    /\ UNCHANGED <<gcDue, lock>>

(* takeFileCheckpoint records the snapshot, unless the run's newest         *)
(* checkpoint has the same tree.                                            *)
RowsOf(s) == {r \in rows : r.session = s}
RowsIn(d) == {r \in rows : r.session \in d}
Newest(R) == CHOOSE r \in R : \A q \in R : q.id <= r.id
RunOf(k, s) == IF k = "run" THEN runs[s] ELSE 0

Recorded_ByAnyRun(k, s) ==
    k = "run" /\ RowsOf(s) # {} /\ Newest(RowsOf(s)).tree = tree[k][s]

Recorded(k, s) ==
    /\ k = "run" /\ RowsOf(s) # {}
    /\ Newest(RowsOf(s)).run = runs[s] /\ Newest(RowsOf(s)).tree = tree[k][s]

Then(k) == IF k = "run" THEN "free" ELSE "taken"

(* History: the first checkpoint a run recorded. *)
NoteFirst(k, s) ==
    IF k = "run" /\ undo[s].run # runs[s]
      THEN undo' = [undo EXCEPT ![s] = Row(lastID', s, runs[s], tree[k][s])] /\ changed' = changed \ {s}
      ELSE UNCHANGED <<undo, changed>>

Record(k, s) ==
    /\ pc[k][s] = "snapped"
    /\ IF Recorded(k, s)
         THEN Go(k, s, Then(k)) /\ UNCHANGED file
         ELSE /\ lastID < MaxRows /\ lastID' = lastID + 1
              /\ rows' = rows \union {Row(lastID', s, RunOf(k, s), tree[k][s])}
              /\ Go(k, s, "recorded")
    /\ NoteFirst(k, s)
    /\ tree' = [tree EXCEPT ![k][s] = NoTree]
    /\ UNCHANGED <<disk, version, repo, active, runs, target, prunes, calm, count>>

(* TrimFileCheckpoints keeps the directory's newest; what it dropped is     *)
(* pruned in the background.                                                *)
Dropped(d) == {r \in RowsIn(d) : Cardinality({q \in RowsIn(d) : q.id > r.id}) >= Keep}

Asked(d) == [dir |-> d, at |-> "asked", keep |-> {}]

Trim(k, s) ==
    /\ pc[k][s] = "recorded"
    /\ rows' = rows \ Dropped(DirOf(s)) /\ UNCHANGED lastID
    /\ prunes' = IF Dropped(DirOf(s)) = {} THEN prunes ELSE prunes \union {Asked(DirOf(s))}
    /\ Go(k, s, Then(k))
    /\ UNCHANGED <<disk, version, repo, active, runs, tree, target, past, count>>

-----------------------------------------------------------------------------
(* A run takes a checkpoint before the first call of a batch that may       *)
(* change files; one that fails is logged and the run goes on.              *)
StartRun(s) ==
    /\ s \notin active
    /\ MapThenSumSet(LAMBDA t : runs[t], Sessions) < MaxRuns
    /\ active' = active \union {s}
    /\ runs' = [runs EXCEPT ![s] = @ + 1]
    /\ Go("run", s, "batch")
    /\ UNCHANGED <<disk, version, repo, file, tree, target, prunes, past, count>>

CheckpointBatch(s) ==
    /\ pc["run"][s] = "batch"
    /\ Snapshot("run", s)
    /\ UNCHANGED <<disk, version, file, active, runs, target, prunes, past, count>>

(* A snapshot may fail before or after it staged the directory. *)
HalfSnapshot(s) ==
    /\ \/ UNCHANGED <<index, objects>>
       \/ lock = Free /\ index' = Staged(DirOf(s)) /\ objects' = objects \union {index'}
    /\ UNCHANGED <<young, old, gcDue, lock>>

SkipCheckpoint(s) ==
    /\ pc["run"][s] \in {"batch", "snapped", "recorded"} /\ Fault
    /\ IF pc["run"][s] = "batch" THEN HalfSnapshot(s) ELSE UNCHANGED repo
    /\ Go("run", s, "free")
    /\ tree' = [tree EXCEPT !["run"][s] = NoTree]
    /\ UNCHANGED <<disk, version, file, active, runs, target, prunes, past>>

WriteFiles(s) ==
    /\ pc["run"][s] = "free"
    /\ Change(DirOf(s))
    /\ changed' = IF undo[s].run = runs[s] THEN changed \union {s} ELSE changed
    /\ calm' = calm \ DirOf(s)
    /\ UNCHANGED <<repo, file, active, runs, pc, tree, target, prunes, undo, count>>

NextBatch(s) ==
    /\ pc["run"][s] = "free"
    /\ Go("run", s, "batch")
    /\ UNCHANGED <<disk, version, repo, file, active, runs, tree, target, prunes, past, count>>

EndRun(s) ==
    /\ pc["run"][s] \in {"batch", "free"}
    /\ active' = active \ {s}
    /\ Go("run", s, "none")
    /\ UNCHANGED <<disk, version, repo, file, runs, tree, target, prunes, past, count>>

(* The user, or a command left in the background, writes the directory. *)
Edit(d) ==
    /\ Change(d)
    /\ calm' = calm \ d
    /\ UNCHANGED <<repo, file, active, runs, pc, tree, target, prunes, undo, changed, count>>

-----------------------------------------------------------------------------
(* RestoreFileCheckpoint: look whether a run is active, take a checkpoint   *)
(* of what is replaced, bring the files back and tell the model.            *)
AskRestore(s) ==
    /\ pc["restore"][s] = "none" /\ s \notin active
    /\ restores < MaxRestores /\ restores' = restores + 1
    /\ \E r \in RowsOf(s) : target' = [target EXCEPT ![s] = r]
    /\ Go("restore", s, "checked")
    /\ UNCHANGED <<disk, version, repo, file, active, runs, tree, prunes, past, faults>>

CheckpointRestore_MayFail(s) ==
    /\ pc["restore"][s] = "checked"
    /\ \/ Snapshot("restore", s) /\ UNCHANGED count
       \/ Fault /\ Go("restore", s, "taken") /\ UNCHANGED <<repo, tree>>
    /\ calm' = calm \union {s}
    /\ UNCHANGED <<disk, version, file, active, runs, target, prunes, undo, changed>>

CheckpointRestore(s) ==
    /\ pc["restore"][s] = "checked"
    /\ Snapshot("restore", s)
    /\ calm' = calm \union {s}
    /\ UNCHANGED <<disk, version, file, active, runs, target, prunes, undo, changed, count>>

(* Restore, under the repository's lock: what the files are now is staged   *)
(* and compared with the checkpoint.                                        *)
Done(s) ==
    /\ Go("restore", s, "none")
    /\ target' = [target EXCEPT ![s] = NoRow(s)]
    /\ calm' = calm \ {s}

Others(s) == {t \in Sessions : t # s /\ DirOf(t) = DirOf(s)}
Back(s) == target[s].tree[DirOf(s)]

Compare(s) ==
    /\ pc["restore"][s] = "taken" /\ lock = Free
    /\ index' = Staged(DirOf(s)) /\ objects' = objects \union {index'}
    /\ CASE target[s].tree \notin objects' ->
               Go("restore", s, "missing") /\ UNCHANGED <<lock, target, calm>>
         [] target[s].tree \in objects' /\ Back(s) = disk[DirOf(s)] ->
               Done(s) /\ UNCHANGED lock
         [] OTHER ->
               Go("restore", s, "compared") /\ lock' = {s} /\ UNCHANGED <<target, calm>>
    /\ UNCHANGED <<disk, version, young, old, gcDue, file, active, runs, tree, prunes, undo, changed, count>>

Checkout(s) ==
    /\ pc["restore"][s] = "compared"
    /\ disk' = [disk EXCEPT ![DirOf(s)] = Back(s)]
    /\ index' = [index EXCEPT ![DirOf(s)] = Back(s)]
    /\ lock' = Free /\ calm' = calm \ Others(s)
    /\ Go("restore", s, "restored")
    /\ UNCHANGED <<version, objects, young, old, gcDue, file, active, runs, tree, target, prunes, undo, changed, count>>

(* A file cannot be removed or git fails: some files are back. *)
CheckoutFails(s) ==
    /\ pc["restore"][s] = "compared" /\ Fault
    /\ Change(DirOf(s))
    /\ lock' = Free /\ calm' = calm \ DirOf(s)
    /\ Go("restore", s, "none") /\ target' = [target EXCEPT ![s] = NoRow(s)]
    /\ UNCHANGED <<index, objects, young, old, gcDue, file, active, runs, tree, prunes, undo, changed>>

(* The model is told what was restored, or the client that the checkpoint   *)
(* is gone.                                                                 *)
Answer(s) ==
    /\ pc["restore"][s] \in {"restored", "missing"}
    /\ Done(s)
    /\ UNCHANGED <<disk, version, repo, file, active, runs, tree, prunes, undo, changed, count>>

(* A step of the restore fails, or its client goes. *)
GiveUp(s) ==
    /\ pc["restore"][s] \in {"checked", "snapped", "recorded", "taken", "restored"} /\ Fault
    /\ IF pc["restore"][s] = "checked" THEN HalfSnapshot(s) ELSE UNCHANGED repo
    /\ Done(s)
    /\ tree' = [tree EXCEPT !["restore"][s] = NoTree]
    /\ UNCHANGED <<disk, version, file, active, runs, prunes, undo, changed>>

-----------------------------------------------------------------------------
(* pruneCheckpoints: the trees the directory's rows keep are read, then the *)
(* refs pruned and at most hourly what no ref reaches collected.            *)
Kept(d) == {r.tree : r \in RowsIn(d)}

ListTrees(p) ==
    /\ p \in prunes /\ p.at = "asked"
    /\ prunes' = (prunes \ {p}) \union {[p EXCEPT !.at = "listed", !.keep = Kept(p.dir)]}
    /\ UNCHANGED <<disk, version, repo, file, active, runs, pc, tree, target, past, count>>

Prune_Young(p) ==
    /\ p \in prunes /\ p.at = "listed" /\ lock = Free
    /\ prunes' = prunes \ {p}
    /\ old' = old \intersect p.keep /\ young' = young \intersect p.keep
    /\ objects' = IF gcDue THEN objects \intersect (young' \union old' \union {index}) ELSE objects
    /\ gcDue' = FALSE
    /\ UNCHANGED <<disk, version, index, lock, file, active, runs, pc, tree, target, past, count>>

Prune(p) ==
    /\ p \in prunes /\ p.at = "listed" /\ lock = Free
    /\ prunes' = prunes \ {p}
    /\ old' = old \intersect p.keep
    /\ objects' = IF gcDue THEN objects \intersect (young \union old' \union {index}) ELSE objects
    /\ gcDue' = FALSE
    /\ UNCHANGED <<disk, version, index, young, lock, file, active, runs, pc, tree, target, past, count>>

(* An hour passes: refGrace and gcInterval.  A snapshot is recorded and a   *)
(* restore answered within minutes, and a prune is done within ten.         *)
Hour ==
    /\ \A s \in Sessions : pc["run"][s] # "snapped" /\ pc["restore"][s] = "none"
    /\ \A p \in prunes : p.at = "asked"
    /\ old' = old \union young /\ young' = {} /\ gcDue' = TRUE
    /\ UNCHANGED <<disk, version, index, objects, lock, file, active, runs, pc, tree, target, prunes, past, count>>

(* The daemon restarts: requests and prunes are gone, its runs go on.       *)
Restart ==
    /\ Fault
    /\ pc' = [run |-> [s \in Sessions |-> IF s \in active THEN "batch" ELSE "none"],
              restore |-> [s \in Sessions |-> "none"]]
    /\ tree' = [k \in Kinds |-> [s \in Sessions |-> NoTree]]
    /\ target' = [s \in Sessions |-> NoRow(s)] /\ calm' = {}
    /\ lock' = Free /\ prunes' = {} /\ gcDue' = TRUE
    /\ UNCHANGED <<disk, version, index, objects, young, old, file, active, runs, undo, changed>>

Run(s) == StartRun(s) \/ CheckpointBatch(s) \/ SkipCheckpoint(s) \/ WriteFiles(s) \/ NextBatch(s) \/ EndRun(s)
Restore(s) == \/ AskRestore(s) \/ CheckpointRestore(s) \/ Compare(s) \/ Checkout(s) \/ CheckoutFails(s)
              \/ Answer(s) \/ GiveUp(s)

Next ==
    \/ \E s \in Sessions : Run(s) \/ Restore(s)
    \/ \E k \in Kinds, s \in Sessions : Record(k, s) \/ Trim(k, s)
    \/ \E p \in prunes : ListTrees(p) \/ Prune(p)
    \/ \E d \in Dirs : Edit(d)
    \/ Hour \/ Restart

Spec == Init /\ [][Next]_vars
-----------------------------------------------------------------------------
RowType == [id : Nat, session : Sessions, run : Nat, tree : Trees]
Steps   == {"none", "batch", "checked", "snapped", "recorded", "free", "taken", "compared", "restored", "missing"}

(* Every variable holds what the code may store in it. *)
TypeOK ==
    /\ disk \in Trees /\ version \in Nat /\ index \in Trees
    /\ objects \subseteq Trees /\ young \subseteq Trees /\ old \subseteq Trees /\ gcDue \in BOOLEAN
    /\ rows \subseteq RowType /\ lastID \in Nat
    /\ active \subseteq Sessions /\ runs \in [Sessions -> Nat]
    /\ pc \in [Kinds -> [Sessions -> Steps]]
    /\ tree \in [Kinds -> [Sessions -> Trees]]
    /\ target \in [Sessions -> RowType]
    /\ lock \subseteq Sessions
    /\ prunes \subseteq [dir : Dirs, at : {"asked", "listed"}, keep : SUBSET Trees]
    /\ undo \in [Sessions -> RowType] /\ changed \subseteq Sessions /\ calm \subseteq Sessions
    /\ restores \in Nat /\ faults \in Nat

(* A checkpoint that is listed can be restored: the shadow repository holds *)
(* its tree, whatever prunes run beside snapshots whose row is not saved.   *)
ListedIsKept == \A r \in rows : r.tree \in objects

(* undoTarget: the first checkpoint of the newest run that took one. *)
OfRuns(s) == {r \in RowsOf(s) : r.run # 0}
Oldest(R) == CHOOSE r \in R : \A q \in R : r.id <= q.id
UndoTarget(s) == Oldest({r \in RowsOf(s) : r.run = Newest(OfRuns(s)).run})

UndoesRun(s) == OfRuns(s) # {} /\ UndoTarget(s).run = undo[s].run /\ UndoTarget(s).tree = undo[s].tree

(* /undo goes back to the first checkpoint recorded by the last run that    *)
(* recorded one and changed files since, unless as many newer checkpoints   *)
(* of the directory as it keeps have crowded that one out (checkpoints.go:  *)
(* undoTarget; file_checkpoints.go: takeFileCheckpoint).  Files changed     *)
(* before, after a checkpoint that failed, stay as they are.                *)
CrowdedOut(s) == Cardinality({r \in RowsIn(DirOf(s)) : r.id > undo[s].id}) >= Keep
UndoIsRunStart == \A s \in changed : UndoesRun(s) \/ CrowdedOut(s)

(* The same without the exception: what docs/CHECKPOINTS.md says of /undo.  *)
UndoReachesRunStart == \A s \in changed : UndoesRun(s)

(* A restore replaces nothing that was not recorded before, so that it can  *)
(* be undone, unless someone else wrote the directory since or others took  *)
(* as many checkpoints of it as it keeps.                                   *)
Crowded(s) == Cardinality({r \in RowsIn(DirOf(s)) : r.session # s \/ r.run # 0}) >= Keep
RestoreIsUndoable ==
    [][\A s \in Sessions : pc["restore"][s] = "compared" /\ disk' # disk /\ lock' = Free /\ s \in calm =>
          \/ \E r \in RowsOf(s) : r.tree[DirOf(s)] = disk[DirOf(s)]
          \/ Crowded(s)]_vars

(* A restore changes no files under a run of its session. *)
RestoreSparesRuns ==
    [][\A s \in active : pc["restore"][s] = "compared" /\ lock' = Free => disk'[DirOf(s)] = disk[DirOf(s)]]_vars

(* A restore that was asked for finds its checkpoint. *)
RestoreFinds == \A s \in Sessions : pc["restore"][s] # "missing"
=============================================================================
