------------------------- MODULE RunLifecycleProofs -------------------------
(***************************************************************************)
(* What holds of RunLifecycle for all runs, calls and tasks and for every  *)
(* number of recoveries, goroutines and crashes.                           *)
(***************************************************************************)
EXTENDS RunLifecycle, TLAPS

-----------------------------------------------------------------------------
(* Types.                                                                   *)

(* A job names what is left to do and for which run.                        *)
LEMMA JobTyped ==
    ASSUME NEW op \in JobOps, NEW r \in Runs
    PROVE  Job(op, r) \in [op : JobOps, run : Runs]
BY DEF Job

(* startRun starts at most one more goroutine.                              *)
LEMMA StartTyped ==
    ASSUME TypeOK, NEW r \in Runs, StartRun(r)
    PROVE  spawned' \in [Runs -> Nat] /\ scheduled' \in [Runs -> BOOLEAN]
<1>1. spawned \in [Runs -> Nat] /\ scheduled \in [Runs -> BOOLEAN] /\ spawned[r] + 1 \in Nat
  BY DEF TypeOK
<1>2. QED
  BY <1>1 DEF StartRun

(* Taking a job leaves jobs.                                                *)
LEMMA TakeTyped ==
    ASSUME TypeOK, NEW op, NEW r, Take(op, r)
    PROVE  jobs' \subseteq [op : JobOps, run : Runs]
BY DEF TypeOK, Take

(* A commit stores a status.                                                *)
LEMMA CommitTyped ==
    ASSUME TypeOK, NEW r \in Runs, NEW to \in Active \union Ended, Commit(r, to)
    PROVE  status' \in [Runs -> Status]
BY DEF TypeOK, Commit, Committed, Status

(* A checkpoint of the model phase is a checkpoint.                         *)
LEMMA ModelCheckpointTyped ==
    ASSUME TypeOK, NEW r \in Runs, ModelCheckpoint(r)
    PROVE  ck' \in [Runs -> Checkpoints]
BY DEF TypeOK, ModelCheckpoint, Checkpoints

(* So is the one an ended run is left with.                                 *)
LEMMA ClearTyped ==
    ASSUME TypeOK, NEW r \in Runs, ClearEnded(r)
    PROVE  /\ wakeup' \in [Runs -> Awaits]
           /\ ck' \in [Runs -> Checkpoints]
           /\ ap' \in [Calls -> Approvals]
<1>1. NoCheckpoint \in Checkpoints /\ {} \in Awaits
  BY DEF NoCheckpoint, Checkpoints, Awaits
<1>2. wakeup' \in [Runs -> Awaits] /\ ck' \in [Runs -> Checkpoints]
  BY <1>1 DEF TypeOK, ClearEnded
<1>3. ap' \in [Calls -> Approvals]
  BY DEF TypeOK, ClearEnded, RejectOpen, Approvals
<1>4. QED
  BY <1>2, <1>3

(* Keeping the results of a batch journals calls.                           *)
LEMMA KeepTyped ==
    ASSUME TypeOK, NEW r, NEW S, KeepResults(r, S)
    PROVE  /\ call' \in [Calls -> Journal]
           /\ slot' \in [Calls -> Slots]
           /\ result' \in [Calls -> Awaits]
<1>1. call' \in [Calls -> Journal]
  BY DEF TypeOK, KeepResults, Journal
<1>2. slot' \in [Calls -> Slots]
  BY DEF TypeOK, KeepResults, Slots
<1>3. result' \in [Calls -> Awaits]
  BY DEF TypeOK, KeepResults, Awaits
<1>4. QED
  BY <1>1, <1>2, <1>3

(* A new process starts with nothing in memory.                             *)
LEMMA LoseTyped ==
    ASSUME TypeOK, LoseMemory, crashes' \in Nat
    PROVE  TypeOK'
<1>1. exec' \in [Runs -> Places] /\ slot' \in [Calls -> Slots]
  BY DEF LoseMemory, Places, Slots
<1>2. stop' \in [Runs -> {"no", "canceled", "interrupted"}] /\ kept' \in [Runs -> SUBSET Calls]
  BY DEF LoseMemory
<1>3. await' \in [Runs -> Awaits] /\ result' \in [Calls -> Awaits]
  BY DEF LoseMemory, Awaits
<1>4. spawned' \in [Runs -> Nat] /\ scheduled' \in [Runs -> BOOLEAN]
  BY DEF LoseMemory
<1>5. cancel' \in [Runs -> {"no", "follow", "commands", "stop", "after"}]
  BY DEF LoseMemory
<1>6. jobs' \subseteq [op : JobOps, run : Runs] /\ told' \subseteq Tasks
  BY DEF LoseMemory
<1>7. QED
  BY <1>1, <1>2, <1>3, <1>4, <1>5, <1>6 DEF TypeOK, LoseMemory

(* Every step keeps the types.                                              *)
LEMMA TypeStep == TypeOK /\ [Next]_vars => TypeOK'
<1> SUFFICES ASSUME TypeOK, [Next]_vars PROVE TypeOK'
  OBVIOUS
<1> USE CallsAssumption, OwnerAssumption, BoundAssumption
<1>0. CASE UNCHANGED vars
  BY <1>0 DEF TypeOK, vars, tools, waits, starts, engine, daemon
<1>1. CASE Next
  <2>1. ASSUME NEW r \in Runs, AcceptRun(r) PROVE TypeOK'
    BY <2>1, JobTyped DEF TypeOK, AcceptRun, JobOps, Status, Active, tools, waits, engine, daemon
  <2>2. ASSUME NEW r \in Runs, Steer(r) PROVE TypeOK'
    BY <2>2, JobTyped DEF TypeOK, Steer, JobOps, tools, engine, daemon
  <2>3. ASSUME NEW r \in Runs, CancelRecord(r) PROVE TypeOK'
    BY <2>3 DEF TypeOK, CancelRecord, Status, Ended, tools, waits, starts, engine, daemon
  <2>4. ASSUME NEW r \in Runs, CancelFollow(r) PROVE TypeOK'
    <3>1. wakeup' \in [Runs -> Awaits] /\ ck' \in [Runs -> Checkpoints] /\ ap' \in [Calls -> Approvals]
      BY <2>4, ClearTyped DEF CancelFollow
    <3>2. QED
      BY <2>4, <3>1 DEF TypeOK, CancelFollow, engine, starts
  <2>5. ASSUME NEW r \in Runs, CancelCommands(r) PROVE TypeOK'
    <3>1. task' \in [Tasks -> {"none", "running", "ended"}] /\ told' \subseteq Tasks
      BY <2>5 DEF TypeOK, CancelCommands, TasksOf
    <3>2. QED
      BY <2>5, <3>1 DEF TypeOK, CancelCommands, tools, starts, engine
  <2>6. ASSUME NEW r \in Runs, CancelStop(r) PROVE TypeOK'
    BY <2>6 DEF TypeOK, CancelStop, tools, waits, starts, engine, daemon
  <2>7. ASSUME NEW r \in Runs, CancelAfter(r) PROVE TypeOK'
    BY <2>7, JobTyped DEF TypeOK, CancelAfter, JobOps, tools, waits, engine
  <2>8. ASSUME NEW r \in Runs, CancelGivenUp(r) PROVE TypeOK'
    BY <2>8 DEF TypeOK, CancelGivenUp, tools, waits, starts, engine, daemon
  <2>9. ASSUME NEW r \in Runs, StartAccepted(r) PROVE TypeOK'
    <3>1. status' \in [Runs -> Status]
      BY <2>9, CommitTyped DEF StartAccepted, TypeOK, Ended
    <3>2. spawned' \in [Runs -> Nat] /\ scheduled' \in [Runs -> BOOLEAN]
      BY <2>9, StartTyped DEF StartAccepted, TypeOK
    <3>3. jobs' \subseteq [op : JobOps, run : Runs]
      BY <2>9, TakeTyped DEF StartAccepted
    <3>4. QED
      BY <2>9, <3>1, <3>2, <3>3 DEF TypeOK, StartAccepted, tools, waits, engine, daemon
  <2>10. ASSUME NEW r \in Runs, StartRecovered(r) PROVE TypeOK'
    <3>1. spawned' \in [Runs -> Nat] /\ scheduled' \in [Runs -> BOOLEAN]
      BY <2>10, StartTyped DEF StartRecovered, TypeOK
    <3>2. jobs' \subseteq [op : JobOps, run : Runs]
      BY <2>10, TakeTyped DEF StartRecovered
    <3>3. QED
      BY <2>10, <3>1, <3>2 DEF TypeOK, StartRecovered, tools, waits, engine, daemon
  <2>11. ASSUME NEW r \in Runs, Resume(r) PROVE TypeOK'
    <3>1. spawned' \in [Runs -> Nat] /\ scheduled' \in [Runs -> BOOLEAN]
      BY <2>11, StartTyped DEF Resume, ResumeDecided, TypeOK
    <3>2. jobs' \subseteq [op : JobOps, run : Runs]
      BY <2>11, TakeTyped DEF Resume
    <3>3. QED
      BY <2>11, <3>1, <3>2 DEF TypeOK, Resume, tools, waits, engine, daemon
  <2>12. ASSUME NEW r \in Runs, Wake(r) PROVE TypeOK'
    <3>1. spawned' \in [Runs -> Nat] /\ scheduled' \in [Runs -> BOOLEAN]
      BY <2>12, StartTyped DEF Wake, WakeWaiting, TypeOK
    <3>2. jobs' \subseteq [op : JobOps, run : Runs]
      BY <2>12, TakeTyped DEF Wake
    <3>3. QED
      BY <2>12, <3>1, <3>2 DEF TypeOK, Wake, tools, waits, engine, daemon
  <2>13. ASSUME NEW r \in Runs, AfterRun(r) PROVE TypeOK'
    <3>1. spawned' \in [Runs -> Nat] /\ scheduled' \in [Runs -> BOOLEAN]
      BY <2>13, StartTyped DEF AfterRun, WakeWaiting, ResumeDecided, TypeOK
    <3>2. jobs' \subseteq [op : JobOps, run : Runs]
      BY <2>13, TakeTyped DEF AfterRun
    <3>3. steer' \subseteq Runs
      BY <2>13 DEF TypeOK, AfterRun
    <3>4. QED
      BY <2>13, <3>1, <3>2, <3>3 DEF TypeOK, AfterRun, tools, engine, daemon
  <2>14. ASSUME NEW r \in Runs, WakeDueRun(r) PROVE TypeOK'
    <3>1. spawned' \in [Runs -> Nat] /\ scheduled' \in [Runs -> BOOLEAN]
      BY <2>14, StartTyped DEF WakeDueRun, WakeWaiting, TypeOK
    <3>2. QED
      BY <2>14, <3>1 DEF TypeOK, WakeDueRun, tools, waits, engine, daemon
  <2>15. ASSUME NEW r \in Runs, TimeRunsOut(r) PROVE TypeOK'
    BY <2>15 DEF TypeOK, TimeRunsOut, tools, waits, starts, engine, daemon
  <2>16. ASSUME NEW r \in Runs, LeaseLapses(r) PROVE TypeOK'
    BY <2>16 DEF TypeOK, LeaseLapses, tools, waits, starts, engine, daemon
  <2>17. ASSUME NEW r \in Runs, Register(r) PROVE TypeOK'
    <3>1. spawned' \in [Runs -> Nat]
      BY <2>17 DEF TypeOK, Register
    <3>2. exec' \in [Runs -> Places]
      <4>1. CASE exec[r] = "off"
        BY <2>17, <4>1 DEF TypeOK, Register, Goto, Places
      <4>2. CASE exec[r] # "off"
        BY <2>17, <4>2 DEF TypeOK, Register
      <4>3. QED
        BY <4>1, <4>2
    <3>3. stop' \in [Runs -> {"no", "canceled", "interrupted"}] /\ scheduled' \in [Runs -> BOOLEAN]
      BY <2>17 DEF TypeOK, Register
    <3>4. QED
      BY <2>17, <3>1, <3>2, <3>3 DEF TypeOK, Register, tools, waits, daemon
  <2>18. ASSUME NEW r \in Runs, ClaimRefused(r) PROVE TypeOK'
    BY <2>18 DEF TypeOK, ClaimRefused, Goto, Places, tools, waits, starts, engine, daemon
  <2>19. ASSUME NEW r \in Runs, ClaimRun(r) PROVE TypeOK'
    <3>1. status' \in [Runs -> Status]
      BY <2>19 DEF TypeOK, ClaimRun, Status, Active
    <3>2. await' \in [Runs -> Awaits]
      BY <2>19 DEF TypeOK, ClaimRun, Checkpoints
    <3>3. exec' \in [Runs -> Places]
      BY <2>19 DEF TypeOK, ClaimRun, Goto, Places, Working
    <3>4. QED
      BY <2>19, <3>1, <3>2, <3>3 DEF TypeOK, ClaimRun, tools, waits, starts, daemon
  <2>20. ASSUME NEW r \in Runs, ClaimInterrupted(r) PROVE TypeOK'
    <3>1. ck[r] \in Checkpoints
      BY <2>20 DEF TypeOK
    <3>2. ck' \in [Runs -> Checkpoints]
      BY <2>20, <3>1 DEF TypeOK, ClaimInterrupted, Checkpoints
    <3>3. kept' \in [Runs -> SUBSET Calls] /\ await' \in [Runs -> Awaits]
      BY <2>20, <3>1 DEF TypeOK, ClaimInterrupted, Checkpoints
    <3>4. exec' \in [Runs -> Places]
      BY <2>20 DEF TypeOK, ClaimInterrupted, Goto, Places, Working
    <3>5. QED
      BY <2>20, <3>1, <3>2, <3>3, <3>4 DEF TypeOK, ClaimInterrupted, tools, waits, starts, daemon
  <2>21. ASSUME NEW r \in Runs, Unpark(r) PROVE TypeOK'
    <3>1. wakeup' \in [Runs -> Awaits]
      BY <2>21 DEF TypeOK, Unpark, Awaits
    <3>2. exec' \in [Runs -> Places]
      BY <2>21 DEF TypeOK, Unpark, Goto, Places, Working
    <3>3. QED
      BY <2>21, <3>1, <3>2 DEF TypeOK, Unpark, tools, starts, daemon
  <2>22. ASSUME NEW r \in Runs, FindLost(r) PROVE TypeOK'
    <3>1. slot' \in [Calls -> Slots]
      BY <2>22 DEF TypeOK, FindLost, Slots
    <3>2. exec' \in [Runs -> Places]
      BY <2>22 DEF TypeOK, FindLost, Goto, Places, Working
    <3>3. QED
      BY <2>22, <3>1, <3>2 DEF TypeOK, FindLost, waits, starts, daemon
  <2>23. ASSUME NEW r \in Runs, Recovered(r) PROVE TypeOK'
    BY <2>23 DEF TypeOK, Recovered, Goto, Places, Working, tools, waits, starts, engine, daemon
  <2>24. ASSUME NEW r \in Runs, RunDecided(r) PROVE TypeOK'
    <3>1. slot' \in [Calls -> Slots]
      BY <2>24 DEF TypeOK, RunDecided, Enqueue, Slots
    <3>2. exec' \in [Runs -> Places]
      BY <2>24 DEF TypeOK, RunDecided, Goto, Places, Working
    <3>3. QED
      BY <2>24, <3>1, <3>2 DEF TypeOK, RunDecided, waits, starts, daemon
  <2>25. ASSUME NEW r \in Runs, NothingDecided(r) PROVE TypeOK'
    BY <2>25 DEF TypeOK, NothingDecided, Goto, Places, Working, tools, waits, starts, engine, daemon
  <2>26. ASSUME NEW r \in Runs, CheckAwait(r) PROVE TypeOK'
    <3>1. await' \in [Runs -> Awaits] /\ steer' \subseteq Runs
      BY <2>26 DEF TypeOK, CheckAwait, Awaits
    <3>2. exec' \in [Runs -> Places]
      BY <2>26 DEF TypeOK, CheckAwait, Goto, Places, Working
    <3>3. QED
      BY <2>26, <3>1, <3>2 DEF TypeOK, CheckAwait, tools, starts, daemon
  <2>27. ASSUME NEW r \in Runs, AskModel(r) PROVE TypeOK'
    <3>1. ck' \in [Runs -> Checkpoints]
      BY <2>27, ModelCheckpointTyped DEF AskModel, TypeOK
    <3>2. exec' \in [Runs -> Places]
      BY <2>27 DEF TypeOK, AskModel, Goto, Places, Working
    <3>3. QED
      BY <2>27, <3>1, <3>2 DEF TypeOK, AskModel, tools, starts, daemon
  <2>28. ASSUME NEW r \in Runs, ModelReplies(r) PROVE TypeOK'
    BY <2>28 DEF TypeOK, ModelReplies, Goto, Places, Working, tools, waits, starts, engine, daemon
  <2>29. ASSUME NEW r \in Runs, LaunchBatch(r) PROVE TypeOK'
    <3>1. ck' \in [Runs -> Checkpoints]
      BY <2>29 DEF TypeOK, LaunchBatch, Queued, CallsOf, Checkpoints
    <3>2. call' \in [Calls -> Journal]
      BY <2>29 DEF TypeOK, LaunchBatch, Journal
    <3>3. slot' \in [Calls -> Slots]
      BY <2>29 DEF TypeOK, LaunchBatch, Slots
    <3>4. exec' \in [Runs -> Places]
      BY <2>29 DEF TypeOK, LaunchBatch, Goto, Places, Working
    <3>5. QED
      BY <2>29, <3>1, <3>2, <3>3, <3>4 DEF TypeOK, LaunchBatch, waits, starts, daemon
  <2>30. ASSUME NEW r \in Runs, EndBatch(r) PROVE TypeOK'
    <3>1. slot' \in [Calls -> Slots]
      BY <2>30 DEF TypeOK, EndBatch, Slots
    <3>2. exec' \in [Runs -> Places]
      BY <2>30 DEF TypeOK, EndBatch, Goto, Places, Working
    <3>3. QED
      BY <2>30, <3>1, <3>2 DEF TypeOK, EndBatch, waits, starts, daemon
  <2>31. ASSUME NEW r \in Runs, SettleApproval(r) PROVE TypeOK'
    <3>1. ck' \in [Runs -> Checkpoints]
      BY <2>31, ModelCheckpointTyped DEF SettleApproval, TypeOK
    <3>2. exec' \in [Runs -> Places]
      BY <2>31 DEF TypeOK, SettleApproval, Goto, Places, Working
    <3>3. QED
      BY <2>31, <3>1, <3>2 DEF TypeOK, SettleApproval, tools, waits, starts, daemon
  <2>32. ASSUME NEW r \in Runs, SettleAwait(r) PROVE TypeOK'
    <3>1. ck' \in [Runs -> Checkpoints]
      BY <2>32, ModelCheckpointTyped DEF SettleAwait, TypeOK
    <3>2. exec' \in [Runs -> Places]
      BY <2>32 DEF TypeOK, SettleAwait, Goto, Places, Working
    <3>3. QED
      BY <2>32, <3>1, <3>2 DEF TypeOK, SettleAwait, tools, waits, starts, daemon
  <2>33. ASSUME NEW r \in Runs, EngineFails(r) PROVE TypeOK'
    <3>1. call' \in [Calls -> Journal] /\ slot' \in [Calls -> Slots] /\ result' \in [Calls -> Awaits]
      BY <2>33, KeepTyped DEF EngineFails
    <3>2. exec' \in [Runs -> Places]
      BY <2>33 DEF TypeOK, EngineFails, Goto, Places, Working
    <3>3. QED
      BY <2>33, <3>1, <3>2 DEF TypeOK, EngineFails, waits, starts, daemon
  <2>34. ASSUME NEW r \in Runs, ParkInterrupted(r) PROVE TypeOK'
    BY <2>34 DEF TypeOK, ParkInterrupted, Goto, Places, Working, tools, waits, starts, engine, daemon
  <2>35. ASSUME NEW r \in Runs, EngineStops(r) PROVE TypeOK'
    <3>1. call' \in [Calls -> Journal] /\ slot' \in [Calls -> Slots] /\ result' \in [Calls -> Awaits]
      BY <2>35, KeepTyped DEF EngineStops
    <3>2. exec' \in [Runs -> Places]
      BY <2>35 DEF TypeOK, EngineStops, Goto, Places, Working
    <3>3. QED
      BY <2>35, <3>1, <3>2 DEF TypeOK, EngineStops, waits, starts, daemon
  <2>36. ASSUME NEW r \in Runs, CommitPark(r) PROVE TypeOK'
    <3>1. status' \in [Runs -> Status]
      BY <2>36, CommitTyped DEF CommitPark, Active, Ended
    <3>2. exec' \in [Runs -> Places]
      BY <2>36 DEF TypeOK, CommitPark, Goto, Places, Working
    <3>3. QED
      BY <2>36, <3>1, <3>2 DEF TypeOK, CommitPark, tools, waits, starts, daemon
  <2>37. ASSUME NEW r \in Runs, SaveWakeup(r) PROVE TypeOK'
    <3>1. wakeup' \in [Runs -> Awaits]
      BY <2>37 DEF TypeOK, SaveWakeup, Awaits
    <3>2. exec' \in [Runs -> Places]
      BY <2>37 DEF TypeOK, SaveWakeup, Goto, Places, Working
    <3>3. QED
      BY <2>37, <3>1, <3>2 DEF TypeOK, SaveWakeup, tools, starts, daemon
  <2>38. ASSUME NEW r \in Runs, CommitSleep(r) PROVE TypeOK'
    <3>1. status' \in [Runs -> Status]
      BY <2>38, CommitTyped DEF CommitSleep, Active, Ended
    <3>2. exec' \in [Runs -> Places]
      BY <2>38 DEF TypeOK, CommitSleep, Goto, Places, Working
    <3>3. wakeup' \in [Runs -> Awaits]
      BY <2>38 DEF TypeOK, CommitSleep, Awaits
    <3>4. QED
      BY <2>38, <3>1, <3>2, <3>3 DEF TypeOK, CommitSleep, tools, waits, starts, daemon
  <2>39. ASSUME NEW r \in Runs, CommitEnd(r) PROVE TypeOK'
    <3>1. status' \in [Runs -> Status]
      BY <2>39, CommitTyped DEF CommitEnd, Active, Ended
    <3>2. exec' \in [Runs -> Places]
      BY <2>39 DEF TypeOK, CommitEnd, Goto, Places, Working
    <3>3. QED
      BY <2>39, <3>1, <3>2 DEF TypeOK, CommitEnd, tools, waits, starts, daemon
  <2>40. ASSUME NEW r \in Runs, FollowEnd(r) PROVE TypeOK'
    <3>1. wakeup' \in [Runs -> Awaits] /\ ck' \in [Runs -> Checkpoints] /\ ap' \in [Calls -> Approvals]
      BY <2>40, ClearTyped DEF FollowEnd
    <3>2. exec' \in [Runs -> Places]
      BY <2>40 DEF TypeOK, FollowEnd, Goto, Places
    <3>3. QED
      BY <2>40, <3>1, <3>2 DEF TypeOK, FollowEnd, starts, daemon
  <2>41. ASSUME NEW r \in Runs, CommitFails(r) PROVE TypeOK'
    BY <2>41 DEF TypeOK, CommitFails, Goto, Places, tools, waits, starts, engine, daemon
  <2>42. ASSUME NEW r \in Runs, Release(r) PROVE TypeOK'
    <3>1. jobs' \subseteq [op : JobOps, run : Runs]
      BY <2>42, JobTyped DEF TypeOK, Release, JobOps
    <3>2. await' \in [Runs -> Awaits] /\ kept' \in [Runs -> SUBSET Calls]
      BY <2>42 DEF TypeOK, Release, Awaits
    <3>3. exec' \in [Runs -> Places]
      BY <2>42 DEF TypeOK, Release, Goto, Places
    <3>4. QED
      BY <2>42, <3>1, <3>2, <3>3 DEF TypeOK, Release, tools, waits, daemon
  <2>43. ASSUME NEW r \in Runs, NEW t \in Tasks, DrainEvent(r, t) PROVE TypeOK'
    BY <2>43 DEF TypeOK, DrainEvent, tools, waits, starts, engine, daemon
  <2>44. ASSUME NEW r \in Runs, NEW S \in SUBSET CallsOf(r), ModelCalls(r, S) PROVE TypeOK'
    <3>1. slot' \in [Calls -> Slots]
      BY <2>44 DEF TypeOK, ModelCalls, Enqueue, Slots
    <3>2. exec' \in [Runs -> Places]
      BY <2>44 DEF TypeOK, ModelCalls, Goto, Places, Working
    <3>3. QED
      BY <2>44, <3>1, <3>2 DEF TypeOK, ModelCalls, waits, starts, daemon
  <2>45. ASSUME NEW c \in Calls, SettleLost(c) PROVE TypeOK'
    <3>1. call' = call \/ \E a \in {"deferred", "answered"} : call' = [call EXCEPT ![c] = a]
      BY <2>45 DEF SettleLost
    <3>2. call' \in [Calls -> Journal]
      BY <3>1 DEF TypeOK, Journal
    <3>3. ap' \in [Calls -> Approvals]
      BY <2>45 DEF TypeOK, SettleLost, Approvals
    <3>4. slot' \in [Calls -> Slots]
      BY <2>45 DEF TypeOK, SettleLost, Slots
    <3>5. QED
      BY <2>45, <3>1, <3>2, <3>3, <3>4 DEF TypeOK, SettleLost, waits, starts, engine, daemon
  <2>46. ASSUME NEW c \in Calls, DenyCall(c) PROVE TypeOK'
    BY <2>46 DEF TypeOK, DenyCall, Journal, tools, waits, starts, engine, daemon
  <2>47. ASSUME NEW c \in Calls, AdmitCall(c) PROVE TypeOK'
    <3>1. call' = call \/ \E a \in {"journaled"} : call' = [call EXCEPT ![c] = a]
      BY <2>47 DEF AdmitCall
    <3>2. call' \in [Calls -> Journal]
      BY <3>1 DEF TypeOK, Journal
    <3>3. \E a \in {"finished", "toRun", "toAsk"} : slot' = [slot EXCEPT ![c] = a]
      BY <2>47 DEF AdmitCall
    <3>4. slot' \in [Calls -> Slots]
      BY <3>3 DEF TypeOK, Slots
    <3>5. QED
      BY <2>47, <3>1, <3>2, <3>3, <3>4 DEF TypeOK, AdmitCall, waits, starts, engine, daemon
  <2>48. ASSUME NEW c \in Calls, RunTool(c) PROVE TypeOK'
    <3>1. result' = result \/ \E a \in AwaitResults : result' = [result EXCEPT ![c] = a]
      BY <2>48 DEF RunTool
    <3>2. AwaitResults \subseteq Awaits
      BY DEF AwaitResults, Awaits
    <3>3. result' \in [Calls -> Awaits]
      BY <3>1, <3>2 DEF TypeOK
    <3>4. slot' \in [Calls -> Slots]
      BY <2>48 DEF TypeOK, RunTool, Slots
    <3>5. task' \in [Tasks -> {"none", "running", "ended"}]
      BY <2>48 DEF TypeOK, RunTool, TasksOf
    <3>6. ran' \subseteq Calls /\ fresh' \subseteq Calls /\ due' \subseteq Runs
      BY <2>48 DEF TypeOK, RunTool
    <3>7. QED
      BY <2>48, <3>1, <3>2, <3>3, <3>4, <3>5, <3>6 DEF TypeOK, RunTool, starts, engine, daemon
  <2>49. ASSUME NEW c \in Calls, ToolStops(c) PROVE TypeOK'
    BY <2>49 DEF TypeOK, ToolStops, Slots, tools, waits, starts, engine, daemon
  <2>50. ASSUME NEW c \in Calls, RequestApproval(c) PROVE TypeOK'
    BY <2>50 DEF TypeOK, RequestApproval, Approvals, Slots, tools, waits, starts, engine, daemon
  <2>51. ASSUME NEW c \in Calls, RefuseCall(c) PROVE TypeOK'
    <3>1. slot' \in [Calls -> Slots]
      BY <2>51 DEF TypeOK, RefuseCall, Slots
    <3>2. exec' \in [Runs -> Places]
      BY <2>51 DEF TypeOK, RefuseCall, Goto, Places, Working
    <3>3. QED
      BY <2>51, <3>1, <3>2 DEF TypeOK, RefuseCall, waits, starts, daemon
  <2>52. ASSUME NEW c \in Calls, RecordCall(c) PROVE TypeOK'
    <3>1. await' \in [Runs -> Awaits]
      BY <2>52 DEF TypeOK, RecordCall
    <3>2. result' \in [Calls -> Awaits]
      BY <2>52 DEF TypeOK, RecordCall, Awaits
    <3>3. slot' \in [Calls -> Slots]
      BY <2>52 DEF TypeOK, RecordCall, Slots
    <3>4. QED
      BY <2>52, <3>1, <3>2, <3>3 DEF TypeOK, RecordCall, waits, starts, engine, daemon
  <2>53. ASSUME NEW c \in Calls, JournalCall(c) PROVE TypeOK'
    BY <2>53 DEF TypeOK, JournalCall, Journal, Slots, tools, waits, starts, engine, daemon
  <2>54. ASSUME NEW c \in Calls, NEW d \in {"approved", "rejected"}, ResolveApproval(c, d) PROVE TypeOK'
    BY <2>54, JobTyped DEF TypeOK, ResolveApproval, JobOps, Approvals, waits, engine, daemon
  <2>55. ASSUME NEW t \in Tasks, TaskEnds(t) PROVE TypeOK'
    BY <2>55 DEF TypeOK, TaskEnds, tools, waits, starts, engine, daemon
  <2>56. ASSUME NEW t \in Tasks, TaskFinished(t) PROVE TypeOK'
    <3>1. jobs' \subseteq [op : JobOps, run : Runs]
      BY <2>56, JobTyped DEF TypeOK, TaskFinished, JobOps
    <3>2. QED
      BY <2>56, <3>1 DEF TypeOK, TaskFinished, tools, engine, daemon
  <2>57. ASSUME NEW j \in jobs, DropJob(j) PROVE TypeOK'
    BY <2>57 DEF TypeOK, DropJob, tools, waits, starts, engine, daemon
  <2>58. ASSUME DaemonStops PROVE TypeOK'
    BY <2>58 DEF TypeOK, DaemonStops, tools, waits, starts, engine, daemon
  <2>59. ASSUME DaemonExits PROVE TypeOK'
    BY <2>59, LoseTyped DEF DaemonExits, TypeOK
  <2>60. ASSUME Crash PROVE TypeOK'
    BY <2>60, LoseTyped DEF Crash, TypeOK
  <2>61. ASSUME Boot PROVE TypeOK'
    BY <2>61 DEF TypeOK, Boot, tools, waits, starts, engine, daemon
  <2>62. ASSUME Recover PROVE TypeOK'
    <3>1. jobs' \subseteq [op : JobOps, run : Runs]
      BY <2>62, JobTyped DEF TypeOK, Recover, JobOps
    <3>2. QED
      BY <2>62, <3>1 DEF TypeOK, Recover, tools, waits, engine
  <2> QED
    BY <1>1, <2>1, <2>2, <2>3, <2>4, <2>5, <2>6, <2>7, <2>8, <2>9, <2>10,
       <2>11, <2>12, <2>13, <2>14, <2>15, <2>16, <2>17, <2>18, <2>19, <2>20,
       <2>21, <2>22, <2>23, <2>24, <2>25, <2>26, <2>27, <2>28, <2>29, <2>30,
       <2>31, <2>32, <2>33, <2>34, <2>35, <2>36, <2>37, <2>38, <2>39, <2>40,
       <2>41, <2>42, <2>43, <2>44, <2>45, <2>46, <2>47, <2>48, <2>49, <2>50,
       <2>51, <2>52, <2>53, <2>54, <2>55, <2>56, <2>57, <2>58, <2>59, <2>60,
       <2>61, <2>62 DEF Next, NextUncanceled, RequestEnds, Client, Cancels, FollowUps, Claims, Steps,
       Leaves, CallSteps
<1> QED
  BY <1>0, <1>1

(* A new session has them.                                                  *)
LEMMA TypeInit == Init => TypeOK
<1> SUFFICES ASSUME Init PROVE TypeOK
  OBVIOUS
<1>1. NoCheckpoint \in Checkpoints /\ {} \in Awaits
  BY DEF NoCheckpoint, Checkpoints, Awaits
<1>2. status \in [Runs -> Status] /\ exec \in [Runs -> Places] /\ slot \in [Calls -> Slots]
  BY DEF Init, Idle, Status, Places, Slots
<1>3. call \in [Calls -> Journal] /\ ap \in [Calls -> Approvals]
  BY DEF Init, Idle, Journal, Approvals
<1>4. /\ ck \in [Runs -> Checkpoints]
      /\ wakeup \in [Runs -> Awaits] /\ await \in [Runs -> Awaits] /\ result \in [Calls -> Awaits]
  BY <1>1 DEF Init, Idle
<1>5. QED
  BY <1>2, <1>3, <1>4 DEF Init, Idle, TypeOK

(* Every variable always holds what the code may store in it.              *)
THEOREM TypeCorrect == Spec => []TypeOK
<1>1. Init => TypeOK
  BY TypeInit
<1>2. TypeOK /\ [Next]_vars => TypeOK'
  BY TypeStep
<1>3. QED
  BY <1>1, <1>2, PTL DEF Spec

-----------------------------------------------------------------------------
(* Who may change a run's status, and how it parks.                         *)

(* An executor past its claim owns a running run; a cancel under way has    *)
(* recorded it, as has an executor that follows an end.                     *)
Owned(r) ==
    /\ exec[r] \in Working => status[r] \in {"running"} \union Ended
    /\ cancel[r] # "no" => status[r] = "canceled"
    /\ exec[r] = "follow" => status[r] \in Ended

(* Between the engine's wait and its commit the await, then the wakeup row  *)
(* made of it, is there, and nothing but the claim of the run drops it.     *)
Parked(r) ==
    /\ exec[r] \in {"sleep", "save"} => await[r] # {}
    /\ exec[r] = "seal" => wakeup[r] # {} \/ status[r] \in Ended
    /\ status[r] = "waiting_events" => wakeup[r] # {}

Life == \A r \in Runs : Owned(r) /\ Parked(r)
LifeInv == TypeOK /\ Life

(* A new session has no executor and no parked run.                         *)
LEMMA LifeInit == Init => LifeInv
<1> SUFFICES ASSUME Init PROVE LifeInv
  OBVIOUS
<1>1. TypeOK
  BY TypeInit
<1>2. Life
  BY DEF Init, Idle, Life, Owned, Parked, Working
<1>3. QED
  BY <1>1, <1>2 DEF LifeInv

(* Every step keeps the run owned and its wait saved.                       *)
LEMMA LifeStep == LifeInv /\ [Next]_vars => LifeInv'
<1> SUFFICES ASSUME LifeInv, [Next]_vars PROVE LifeInv'
  OBVIOUS
<1>1. TypeOK /\ Life /\ TypeOK'
  BY TypeStep DEF LifeInv
<1> SUFFICES Life'
  BY <1>1 DEF LifeInv
<1> USE <1>1, OwnerAssumption DEF TypeOK, Life, Owned, Parked, Working, Stepping, Ended, Active
<1>2. CASE UNCHANGED vars
  BY <1>2 DEF vars, waits, engine, daemon
<1>3. CASE Next
  <2>1. ASSUME NEW r \in Runs, AcceptRun(r) PROVE Life'
    BY <2>1 DEF AcceptRun, tools, waits, engine, daemon
  <2>2. ASSUME NEW r \in Runs, Steer(r) PROVE Life'
    BY <2>2 DEF Steer, tools, engine, daemon
  <2>3. ASSUME NEW r \in Runs, CancelRecord(r) PROVE Life'
    BY <2>3 DEF CancelRecord, tools, waits, starts, engine
  <2>4. ASSUME NEW r \in Runs, CancelFollow(r) PROVE Life'
    BY <2>4 DEF CancelFollow, ClearEnded, starts, engine
  <2>5. ASSUME NEW r \in Runs, CancelCommands(r) PROVE Life'
    BY <2>5 DEF CancelCommands, tools, starts, engine
  <2>6. ASSUME NEW r \in Runs, CancelStop(r) PROVE Life'
    <3>1. cancel' = [cancel EXCEPT ![r] = "after"] /\ status[r] = "canceled"
      BY <2>6 DEF CancelStop
    <3>2. UNCHANGED <<status, exec, await, wakeup>>
      BY <2>6 DEF CancelStop, waits
    <3>3. QED
      BY <3>1, <3>2
  <2>7. ASSUME NEW r \in Runs, CancelAfter(r) PROVE Life'
    BY <2>7 DEF CancelAfter, tools, waits, engine
  <2>8. ASSUME NEW r \in Runs, CancelGivenUp(r) PROVE Life'
    BY <2>8 DEF CancelGivenUp, tools, waits, starts, engine
  <2>9. ASSUME NEW r \in Runs, StartAccepted(r) PROVE Life'
    BY <2>9 DEF StartAccepted, Commit, Committed, tools, waits, engine, daemon
  <2>10. ASSUME NEW r \in Runs, StartRecovered(r) PROVE Life'
    BY <2>10 DEF StartRecovered, tools, waits, engine, daemon
  <2>11. ASSUME NEW r \in Runs, Resume(r) PROVE Life'
    BY <2>11 DEF Resume, tools, waits, engine, daemon
  <2>12. ASSUME NEW r \in Runs, Wake(r) PROVE Life'
    BY <2>12 DEF Wake, tools, waits, engine, daemon
  <2>13. ASSUME NEW r \in Runs, AfterRun(r) PROVE Life'
    BY <2>13 DEF AfterRun, tools, engine, daemon
  <2>14. ASSUME NEW r \in Runs, WakeDueRun(r) PROVE Life'
    BY <2>14 DEF WakeDueRun, tools, waits, engine, daemon
  <2>15. ASSUME NEW r \in Runs, TimeRunsOut(r) PROVE Life'
    BY <2>15 DEF TimeRunsOut, tools, starts, engine, daemon
  <2>16. ASSUME NEW r \in Runs, LeaseLapses(r) PROVE Life'
    BY <2>16 DEF LeaseLapses, tools, waits, engine, daemon
  <2>17. ASSUME NEW r \in Runs, Register(r) PROVE Life'
    BY <2>17 DEF Register, Goto, tools, waits, daemon
  <2>18. ASSUME NEW r \in Runs, ClaimRefused(r) PROVE Life'
    BY <2>18 DEF ClaimRefused, Committed, Goto, tools, waits, starts, daemon
  <2>19. ASSUME NEW r \in Runs, ClaimRun(r) PROVE Life'
    BY <2>19 DEF ClaimRun, Goto, tools, waits, starts, daemon
  <2>20. ASSUME NEW r \in Runs, ClaimInterrupted(r) PROVE Life'
    BY <2>20 DEF ClaimInterrupted, Goto, tools, waits, starts, daemon
  <2>21. ASSUME NEW r \in Runs, Unpark(r) PROVE Life'
    BY <2>21 DEF Unpark, Goto, tools, starts, daemon
  <2>22. ASSUME NEW r \in Runs, FindLost(r) PROVE Life'
    BY <2>22 DEF FindLost, Goto, waits, starts, daemon
  <2>23. ASSUME NEW r \in Runs, Recovered(r) PROVE Life'
    BY <2>23 DEF Recovered, Goto, tools, waits, starts, daemon
  <2>24. ASSUME NEW r \in Runs, RunDecided(r) PROVE Life'
    BY <2>24 DEF RunDecided, Goto, waits, starts, daemon
  <2>25. ASSUME NEW r \in Runs, NothingDecided(r) PROVE Life'
    BY <2>25 DEF NothingDecided, Goto, tools, waits, starts, daemon
  <2>26. ASSUME NEW r \in Runs, CheckAwait(r) PROVE Life'
    BY <2>26 DEF CheckAwait, Goto, tools, starts, daemon
  <2>27. ASSUME NEW r \in Runs, AskModel(r) PROVE Life'
    BY <2>27 DEF AskModel, Goto, tools, starts, daemon
  <2>28. ASSUME NEW r \in Runs, ModelReplies(r) PROVE Life'
    BY <2>28 DEF ModelReplies, Goto, tools, waits, starts, daemon
  <2>29. ASSUME NEW r \in Runs, LaunchBatch(r) PROVE Life'
    BY <2>29 DEF LaunchBatch, Goto, waits, starts, daemon
  <2>30. ASSUME NEW r \in Runs, EndBatch(r) PROVE Life'
    BY <2>30 DEF EndBatch, Goto, waits, starts, daemon
  <2>31. ASSUME NEW r \in Runs, SettleApproval(r) PROVE Life'
    BY <2>31 DEF SettleApproval, Goto, tools, waits, starts, daemon
  <2>32. ASSUME NEW r \in Runs, SettleAwait(r) PROVE Life'
    BY <2>32 DEF SettleAwait, Goto, tools, waits, starts, daemon
  <2>33. ASSUME NEW r \in Runs, EngineFails(r) PROVE Life'
    BY <2>33 DEF EngineFails, Goto, waits, starts, daemon
  <2>34. ASSUME NEW r \in Runs, ParkInterrupted(r) PROVE Life'
    BY <2>34 DEF ParkInterrupted, Goto, tools, waits, starts, daemon
  <2>35. ASSUME NEW r \in Runs, EngineStops(r) PROVE Life'
    BY <2>35 DEF EngineStops, Goto, waits, starts, daemon
  <2>36. ASSUME NEW r \in Runs, CommitPark(r) PROVE Life'
    BY <2>36 DEF CommitPark, Commit, Committed, Goto, tools, waits, starts,
       daemon
  <2>37. ASSUME NEW r \in Runs, SaveWakeup(r) PROVE Life'
    <3>1. exec[r] = "save" /\ Goto(r, "seal") /\ wakeup' = [wakeup EXCEPT ![r] = await[r]]
      BY <2>37 DEF SaveWakeup
    <3>2. UNCHANGED <<status, cancel, await>>
      BY <2>37 DEF SaveWakeup, daemon
    <3>3. wakeup'[r] # {}
      BY <3>1
    <3>4. QED
      BY <3>1, <3>2, <3>3 DEF Goto
  <2>38. ASSUME NEW r \in Runs, CommitSleep(r) PROVE Life'
    BY <2>38 DEF CommitSleep, Commit, Committed, Goto, tools, starts, daemon
  <2>39. ASSUME NEW r \in Runs, CommitEnd(r) PROVE Life'
    BY <2>39 DEF CommitEnd, Commit, Committed, Goto, tools, waits, starts, daemon
  <2>40. ASSUME NEW r \in Runs, FollowEnd(r) PROVE Life'
    BY <2>40 DEF FollowEnd, Goto, ClearEnded, starts, daemon
  <2>41. ASSUME NEW r \in Runs, CommitFails(r) PROVE Life'
    BY <2>41 DEF CommitFails, Goto, tools, waits, starts, daemon
  <2>42. ASSUME NEW r \in Runs, Release(r) PROVE Life'
    BY <2>42 DEF Release, Goto, tools, waits, daemon
  <2>43. ASSUME NEW r \in Runs, NEW t \in Tasks, DrainEvent(r, t) PROVE Life'
    BY <2>43 DEF DrainEvent, tools, starts, engine, daemon
  <2>44. ASSUME NEW r \in Runs, NEW S \in SUBSET CallsOf(r), ModelCalls(r, S) PROVE Life'
    BY <2>44 DEF ModelCalls, Goto, waits, starts, daemon
  <2>45. ASSUME NEW c \in Calls, SettleLost(c) PROVE Life'
    BY <2>45 DEF SettleLost, waits, starts, engine, daemon
  <2>46. ASSUME NEW c \in Calls, DenyCall(c) PROVE Life'
    BY <2>46 DEF DenyCall, waits, starts, engine, daemon
  <2>47. ASSUME NEW c \in Calls, AdmitCall(c) PROVE Life'
    BY <2>47 DEF AdmitCall, waits, starts, engine, daemon
  <2>48. ASSUME NEW c \in Calls, RunTool(c) PROVE Life'
    BY <2>48 DEF RunTool, starts, engine, daemon
  <2>49. ASSUME NEW c \in Calls, ToolStops(c) PROVE Life'
    BY <2>49 DEF ToolStops, waits, starts, engine, daemon
  <2>50. ASSUME NEW c \in Calls, RequestApproval(c) PROVE Life'
    BY <2>50 DEF RequestApproval, waits, starts, engine, daemon
  <2>51. ASSUME NEW c \in Calls, RefuseCall(c) PROVE Life'
    <3>1. exec[Owner[c]] = "batch" /\ \E pc \in {"admit", "batch"} : Goto(Owner[c], pc)
      BY <2>51 DEF RefuseCall, Settling
    <3>2. UNCHANGED <<status, cancel, await, wakeup>>
      BY <2>51 DEF RefuseCall, waits, daemon
    <3>3. QED
      BY <3>1, <3>2 DEF Goto
  <2>52. ASSUME NEW c \in Calls, RecordCall(c) PROVE Life'
    <3>1. exec[Owner[c]] = "batch" /\ UNCHANGED <<status, exec, cancel, wakeup>>
      BY <2>52 DEF RecordCall, Settling, waits, daemon
    <3>2. \A r \in Runs : r # Owner[c] => await'[r] = await[r]
      BY <2>52 DEF RecordCall
    <3>3. QED
      BY <3>1, <3>2
  <2>53. ASSUME NEW c \in Calls, JournalCall(c) PROVE Life'
    BY <2>53 DEF JournalCall, waits, starts, engine, daemon
  <2>54. ASSUME NEW c \in Calls, NEW d \in {"approved", "rejected"}, ResolveApproval(c, d) PROVE Life'
    BY <2>54 DEF ResolveApproval, waits, engine, daemon
  <2>55. ASSUME NEW t \in Tasks, TaskEnds(t) PROVE Life'
    BY <2>55 DEF TaskEnds, tools, starts, engine, daemon
  <2>56. ASSUME NEW t \in Tasks, TaskFinished(t) PROVE Life'
    BY <2>56 DEF TaskFinished, tools, engine, daemon
  <2>57. ASSUME NEW j \in jobs, DropJob(j) PROVE Life'
    BY <2>57 DEF DropJob, tools, waits, engine, daemon
  <2>58. ASSUME DaemonStops PROVE Life'
    BY <2>58 DEF DaemonStops, tools, waits, starts
  <2>59. ASSUME DaemonExits PROVE Life'
    BY <2>59 DEF DaemonExits, LoseMemory
  <2>60. ASSUME Crash PROVE Life'
    BY <2>60 DEF Crash, LoseMemory
  <2>61. ASSUME Boot PROVE Life'
    BY <2>61 DEF Boot, tools, starts, engine
  <2>62. ASSUME Recover PROVE Life'
    BY <2>62 DEF Recover, tools, waits, engine
  <2> HIDE DEF Life, Owned, Parked, TypeOK, Working, Stepping, Ended, Active
  <2> QED
    BY <1>3, <2>1, <2>2, <2>3, <2>4, <2>5, <2>6, <2>7, <2>8, <2>9, <2>10,
       <2>11, <2>12, <2>13, <2>14, <2>15, <2>16, <2>17, <2>18, <2>19, <2>20,
       <2>21, <2>22, <2>23, <2>24, <2>25, <2>26, <2>27, <2>28, <2>29, <2>30,
       <2>31, <2>32, <2>33, <2>34, <2>35, <2>36, <2>37, <2>38, <2>39, <2>40,
       <2>41, <2>42, <2>43, <2>44, <2>45, <2>46, <2>47, <2>48, <2>49, <2>50,
       <2>51, <2>52, <2>53, <2>54, <2>55, <2>56, <2>57, <2>58, <2>59, <2>60,
       <2>61, <2>62 DEF Next, NextUncanceled, RequestEnds, Client, Cancels, FollowUps, Claims, Steps,
       Leaves, CallSteps
<1>4. QED
  BY <1>2, <1>3

(* Both hold of every reachable state.                                     *)
THEOREM LifeInvariant == Spec => []LifeInv
<1>1. Init => LifeInv
  BY LifeInit
<1>2. LifeInv /\ [Next]_vars => LifeInv'
  BY LifeStep
<1>3. QED
  BY <1>1, <1>2, PTL DEF Spec

(* However a run is started, woken, recovered or canceled, only its end is  *)
(* recorded under a working executor.                                       *)
THEOREM ExecutorOwnership == Spec => []ExecutorOwnsRun
<1>1. LifeInv => ExecutorOwnsRun
  BY DEF LifeInv, Life, Owned, ExecutorOwnsRun
<1>2. QED
  BY <1>1, LifeInvariant, PTL

(* A run parked for events has its wakeup row, whatever crashed or was      *)
(* canceled between the saves of its commit.                                *)
THEOREM ParkedKeepsWakeup == Spec => []ParkedHasWakeup
<1>1. LifeInv => ParkedHasWakeup
  BY DEF LifeInv, Life, Parked, ParkedHasWakeup
<1>2. QED
  BY <1>1, LifeInvariant, PTL

-----------------------------------------------------------------------------
(* Tool batches, approvals and recovery.                                    *)

Unparked == {"running"} \union Ended
Loose    == {"off", "claim", "recover", "fail", "follow", "release"}
AtModel  == {"await", "drain", "model", "complete"}
Barring  == {"toAsk", "asking", "asked"}
Behind   == {"idle", "queued"}
Begun    == {"toRun", "toAsk", "running", "asking", "asked", "returned", "stopped"}

(* A call is in a batch, or lost, only where the executor keeps a batch or  *)
(* recovers; a tool stops only with its run.                                *)
Placed(c) ==
    LET at == exec[Owner[c]] IN
    /\ slot[c] # "idle" => at \in {"recovering", "admit", "batch"}
    /\ at = "recovering" => slot[c] \in {"idle", "lost"}
    /\ at \in {"admit", "batch"} => slot[c] # "lost"
    /\ at = "batch" => slot[c] \notin {"toRun", "toAsk"}
    /\ slot[c] = "stopped" => stop[Owner[c]] # "no"

(* Behind a call not admitted yet and behind a barrier that asks, no call   *)
(* of the batch was admitted.                                               *)
Ordered(c) ==
    slot[c] = "queued" \/ (c \in Mutating /\ slot[c] \in Barring)
        => \A d \in CallsOf(Owner[c]) : c < d => slot[d] \in Behind

(* The journal knows every admitted call, a call it knew before was decided *)
(* when it is taken again, and no started call is listed as deferred.       *)
Begins(c) ==
    /\ slot[c] \in Begun => call[c] = "journaled"
    /\ slot[c] = "queued" /\ call[c] = "journaled" => ap[c] # "none"
    /\ slot[c] \in {"running", "asking", "asked", "returned", "stopped"}
           => c \notin ck[Owner[c]].deferred

(* It changed something and nobody approved it since.                       *)
Stale(c) == c \in Mutating /\ c \in ran /\ c \notin fresh

(* Such a call is on no way to run again: not deferred, not in a batch      *)
(* before its tool, and not among those recovery would repeat.              *)
Reruns(c) ==
    Stale(c) => /\ call[c] \in {"journaled", "answered"}
                /\ slot[c] \in {"idle", "lost", "returned", "finished"}
                /\ c \notin ck[Owner[c]].deferred
                /\ exec[Owner[c]] \in {"recover", "recovering"} => c \notin kept[Owner[c]]

(* Journaled, with no answer and no decision that still counts.             *)
Unsettled(c) == call[c] = "journaled" /\ (ap[c] = "none" \/ (ap[c] = "approved" /\ Stale(c)))

(* Only a call of the open batch and, until recovery settled it, one an     *)
(* interrupted batch left are so; a run that parks has none.                *)
Settled(c) ==
    LET r == Owner[c] IN
    Unsettled(c) =>
        /\ status[r] \in Unparked
        /\ exec[r] \in Loose \union {"recovering", "admit", "batch"}
        /\ exec[r] = "recovering" => slot[c] = "lost"
        /\ exec[r] \in {"admit", "batch"} =>
              slot[c] \in {"toRun", "toAsk", "running", "asking", "returned", "finished", "stopped"}

(* From the last decision to the model and to the end every call is         *)
(* answered.                                                                *)
Answered(c) == exec[Owner[c]] \in AtModel => call[c] \in {"none", "answered"}

CallInv(c) == Placed(c) /\ Ordered(c) /\ Begins(c) /\ Reruns(c) /\ Settled(c) /\ Answered(c)
Batch == \A c \in Calls : CallInv(c)

(* A checkpoint that defers no other call.                                  *)
Shrunk(s) == ck'[s].deferred \subseteq ck[s].deferred

(* An approval left alone or rejected with its run.                         *)
LeftOrRejected(c) == ap'[c] = ap[c] \/ (ap[c] = "pending" /\ ap'[c] = "rejected")

(* A step that moves no executor and no call of a batch, parks no run and   *)
(* lifts no stop keeps it.                                                  *)
LEMMA Steady ==
    ASSUME LifeInv, Batch,
           UNCHANGED <<call, slot, ran, fresh, exec, kept>>,
           \A s \in Runs : /\ status[s] \in Unparked => status'[s] \in Unparked
                           /\ stop[s] # "no" => stop'[s] # "no"
                           /\ Shrunk(s),
           \A c \in Calls : LeftOrRejected(c)
    PROVE  Batch'
<1> SUFFICES ASSUME NEW c \in Calls PROVE CallInv(c)'
  BY DEF Batch
<1>1. Placed(c) /\ Ordered(c) /\ Begins(c) /\ Reruns(c) /\ Settled(c) /\ Answered(c) /\ Owner[c] \in Runs
  BY OwnerAssumption DEF Batch, CallInv
<1>2. Placed(c)'
  BY <1>1 DEF Placed
<1>3. Ordered(c)'
  BY <1>1 DEF Ordered, CallsOf
<1>4. Begins(c)'
  BY <1>1 DEF Begins, Shrunk, LeftOrRejected
<1>5. Reruns(c)'
  BY <1>1 DEF Reruns, Stale, Shrunk
<1>6. Settled(c)'
  BY <1>1 DEF Settled, Unsettled, Stale, LeftOrRejected
<1>7. Answered(c)'
  BY <1>1 DEF Answered
<1>8. QED
  BY <1>2, <1>3, <1>4, <1>5, <1>6, <1>7 DEF CallInv

(* So does an executor that moves while its run has no open batch, if its   *)
(* calls are as settled as the place it moves to asks.                      *)
LEMMA Moved ==
    ASSUME LifeInv, Batch,
           NEW r \in Runs, NEW pc \in Places \ {"recovering", "admit", "batch"}, Goto(r, pc),
           UNCHANGED <<call, slot, ran, fresh>>,
           \A c \in CallsOf(r) : slot[c] = "idle",
           \A s \in Runs : Shrunk(s),
           \A s \in Runs \ {r} : kept'[s] = kept[s] /\ status'[s] = status[s] /\ stop'[s] = stop[s],
           \A c \in Calls : LeftOrRejected(c),
           \A c \in CallsOf(r) :
              /\ Unsettled(c) => status'[r] \in Unparked /\ pc \in Loose
              /\ Stale(c) /\ pc = "recover" => c \notin kept'[r]
              /\ pc \in AtModel => call[c] \in {"none", "answered"}
    PROVE  Batch'
<1> SUFFICES ASSUME NEW c \in Calls PROVE CallInv(c)'
  BY DEF Batch
<1>1. Placed(c) /\ Ordered(c) /\ Begins(c) /\ Reruns(c) /\ Settled(c) /\ Answered(c) /\ Owner[c] \in Runs
  BY OwnerAssumption DEF Batch, CallInv
<1>2. /\ exec'[r] = pc
      /\ \A s \in Runs \ {r} : exec'[s] = exec[s]
  BY DEF Goto, LifeInv, TypeOK
<1>3. Owner[c] = r => c \in CallsOf(r)
  BY DEF CallsOf
<1>4. Placed(c)'
  BY <1>1, <1>2, <1>3 DEF Placed
<1>5. Ordered(c)'
  BY <1>1 DEF Ordered, CallsOf
<1>6. Begins(c)'
  BY <1>1 DEF Begins, Shrunk, LeftOrRejected
<1>7. Reruns(c)'
  BY <1>1, <1>2, <1>3 DEF Reruns, Stale, Shrunk
<1>8. Settled(c)'
  BY <1>1, <1>2, <1>3 DEF Settled, Unsettled, Stale, LeftOrRejected, Loose
<1>9. Answered(c)'
  BY <1>1, <1>2, <1>3 DEF Answered
<1>10. QED
  BY <1>4, <1>5, <1>6, <1>7, <1>8, <1>9 DEF CallInv

(* Elsewhere the run's calls are in no batch.                               *)
LEMMA AtRest ==
    ASSUME Batch, NEW r \in Runs, exec[r] \notin {"recovering", "admit", "batch"},
           NEW c \in CallsOf(r)
    PROVE  /\ c \in Calls /\ Owner[c] = r /\ slot[c] = "idle"
           /\ Reruns(c) /\ Settled(c) /\ Answered(c)
BY DEF Batch, CallInv, CallsOf, Placed

(* Every step keeps the order of the batches and every call settled.        *)
LEMMA BatchStep == LifeInv /\ Batch /\ [Next]_vars => Batch'
<1> SUFFICES ASSUME LifeInv, Batch, [Next]_vars PROVE Batch'
  OBVIOUS
<1>1. TypeOK /\ Life
  BY DEF LifeInv
<1> USE <1>1, OwnerAssumption
<1>2. CASE UNCHANGED vars
  BY <1>2, Steady DEF vars, tools, engine, Shrunk, LeftOrRejected
<1>3. CASE Next
  <2>0. \A c \in Calls : /\ Placed(c) /\ Ordered(c) /\ Begins(c) /\ Reruns(c) /\ Settled(c) /\ Answered(c)
                         /\ Owner[c] \in Runs
    BY DEF Batch, CallInv
  <2>1. ASSUME NEW r \in Runs, AcceptRun(r) PROVE Batch'
    BY <2>1, Steady DEF AcceptRun, Unparked, Ended, TypeOK, Shrunk, LeftOrRejected, tools, engine
  <2>2. ASSUME NEW r \in Runs, Steer(r) PROVE Batch'
    BY <2>2, Steady DEF Steer, TypeOK, Shrunk, LeftOrRejected, tools, engine
  <2>3. ASSUME NEW r \in Runs, CancelRecord(r) PROVE Batch'
    BY <2>3, Steady DEF CancelRecord, Unparked, Ended, TypeOK, Shrunk, LeftOrRejected, tools, engine
  <2>4. ASSUME NEW r \in Runs, CancelFollow(r) PROVE Batch'
    BY <2>4, Steady DEF CancelFollow, ClearEnded, RejectOpen, NoCheckpoint, TypeOK, Shrunk, LeftOrRejected, engine
  <2>5. ASSUME NEW r \in Runs, CancelCommands(r) PROVE Batch'
    BY <2>5, Steady DEF CancelCommands, TypeOK, Shrunk, LeftOrRejected, tools, engine
  <2>6. ASSUME NEW r \in Runs, CancelStop(r) PROVE Batch'
    BY <2>6, Steady DEF CancelStop, TypeOK, Shrunk, LeftOrRejected, tools
  <2>7. ASSUME NEW r \in Runs, CancelAfter(r) PROVE Batch'
    BY <2>7, Steady DEF CancelAfter, TypeOK, Shrunk, LeftOrRejected, tools, engine
  <2>8. ASSUME NEW r \in Runs, CancelGivenUp(r) PROVE Batch'
    BY <2>8, Steady DEF CancelGivenUp, TypeOK, Shrunk, LeftOrRejected, tools, engine
  <2>9. ASSUME NEW r \in Runs, StartAccepted(r) PROVE Batch'
    BY <2>9, Steady DEF StartAccepted, Commit, Committed, Unparked, Ended, TypeOK, Shrunk, LeftOrRejected, tools,
       engine
  <2>10. ASSUME NEW r \in Runs, StartRecovered(r) PROVE Batch'
    BY <2>10, Steady DEF StartRecovered, TypeOK, Shrunk, LeftOrRejected, tools, engine
  <2>11. ASSUME NEW r \in Runs, Resume(r) PROVE Batch'
    BY <2>11, Steady DEF Resume, TypeOK, Shrunk, LeftOrRejected, tools, engine
  <2>12. ASSUME NEW r \in Runs, Wake(r) PROVE Batch'
    BY <2>12, Steady DEF Wake, TypeOK, Shrunk, LeftOrRejected, tools, engine
  <2>13. ASSUME NEW r \in Runs, AfterRun(r) PROVE Batch'
    BY <2>13, Steady DEF AfterRun, TypeOK, Shrunk, LeftOrRejected, tools, engine
  <2>14. ASSUME NEW r \in Runs, WakeDueRun(r) PROVE Batch'
    BY <2>14, Steady DEF WakeDueRun, TypeOK, Shrunk, LeftOrRejected, tools, engine
  <2>15. ASSUME NEW r \in Runs, TimeRunsOut(r) PROVE Batch'
    BY <2>15, Steady DEF TimeRunsOut, TypeOK, Shrunk, LeftOrRejected, tools, engine
  <2>16. ASSUME NEW r \in Runs, LeaseLapses(r) PROVE Batch'
    BY <2>16, Steady DEF LeaseLapses, TypeOK, Shrunk, LeftOrRejected, tools, engine
  <2>17. ASSUME NEW r \in Runs, NEW t \in Tasks, DrainEvent(r, t) PROVE Batch'
    BY <2>17, Steady DEF DrainEvent, TypeOK, Shrunk, LeftOrRejected, tools, engine
  <2>18. ASSUME NEW t \in Tasks, TaskEnds(t) PROVE Batch'
    BY <2>18, Steady DEF TaskEnds, TypeOK, Shrunk, LeftOrRejected, tools, engine
  <2>19. ASSUME NEW t \in Tasks, TaskFinished(t) PROVE Batch'
    BY <2>19, Steady DEF TaskFinished, TypeOK, Shrunk, LeftOrRejected, tools, engine
  <2>20. ASSUME NEW j \in jobs, DropJob(j) PROVE Batch'
    BY <2>20, Steady DEF DropJob, TypeOK, Shrunk, LeftOrRejected, tools, engine
  <2>21. ASSUME DaemonStops PROVE Batch'
    BY <2>21, Steady DEF DaemonStops, TypeOK, Shrunk, LeftOrRejected, tools
  <2>22. ASSUME Boot PROVE Batch'
    BY <2>22, Steady DEF Boot, TypeOK, Shrunk, LeftOrRejected, tools, engine
  <2>23. ASSUME Recover PROVE Batch'
    BY <2>23, Steady DEF Recover, TypeOK, Shrunk, LeftOrRejected, tools, engine
  <2>24. ASSUME NEW r \in Runs, ClaimRefused(r) PROVE Batch'
    <3>1. PICK pc \in {"release"} : Goto(r, pc)
      BY <2>24 DEF ClaimRefused
    <3>2. /\ UNCHANGED <<call, slot, ran, fresh>>
          /\ \A s \in Runs : Shrunk(s)
          /\ \A s \in Runs \ {r} : kept'[s] = kept[s] /\ status'[s] = status[s] /\ stop'[s] = stop[s]
          /\ \A c \in Calls : LeftOrRejected(c)
      BY <2>24 DEF ClaimRefused, TypeOK, Shrunk, LeftOrRejected, tools
    <3>3. ASSUME NEW c \in CallsOf(r)
          PROVE  /\ slot[c] = "idle"
                 /\ Unsettled(c) => status'[r] \in Unparked /\ pc \in Loose
                 /\ Stale(c) /\ pc = "recover" => c \notin kept'[r]
                 /\ pc \in AtModel => call[c] \in {"none", "answered"}
      <4>1. c \in Calls /\ Owner[c] = r /\ slot[c] = "idle" /\ Reruns(c) /\ Settled(c) /\ Answered(c)
        BY <2>24, AtRest DEF ClaimRefused
      <4>2. exec'[r] = pc
        BY <3>1 DEF Goto, TypeOK
      <4>3. QED
        BY <2>24, <4>1, <4>2 DEF ClaimRefused, Goto, Reruns, Settled, Answered, Unsettled, AtModel, Loose,
           TypeOK, tools
    <3>4. pc \in Places \ {"recovering", "admit", "batch"}
      BY DEF Places, Working
    <3>5. QED
      BY <3>1, <3>2, <3>3, <3>4, Moved
  <2>25. ASSUME NEW r \in Runs, ClaimRun(r) PROVE Batch'
    <3>1. PICK pc \in {"unpark", "step"} : Goto(r, pc)
      BY <2>25 DEF ClaimRun
    <3>2. /\ UNCHANGED <<call, slot, ran, fresh>>
          /\ \A s \in Runs : Shrunk(s)
          /\ \A s \in Runs \ {r} : kept'[s] = kept[s] /\ status'[s] = status[s] /\ stop'[s] = stop[s]
          /\ \A c \in Calls : LeftOrRejected(c)
      BY <2>25 DEF ClaimRun, TypeOK, Shrunk, LeftOrRejected, tools
    <3>3. ASSUME NEW c \in CallsOf(r)
          PROVE  /\ slot[c] = "idle"
                 /\ Unsettled(c) => status'[r] \in Unparked /\ pc \in Loose
                 /\ Stale(c) /\ pc = "recover" => c \notin kept'[r]
                 /\ pc \in AtModel => call[c] \in {"none", "answered"}
      <4>1. c \in Calls /\ Owner[c] = r /\ slot[c] = "idle" /\ Reruns(c) /\ Settled(c) /\ Answered(c)
        BY <2>25, AtRest DEF ClaimRun
      <4>2. exec'[r] = pc
        BY <3>1 DEF Goto, TypeOK
      <4>3. QED
        BY <2>25, <4>1, <4>2 DEF ClaimRun, Unparked, Ended, Goto, Reruns, Settled, Answered, Unsettled, AtModel,
           Loose, TypeOK, tools
    <3>4. pc \in Places \ {"recovering", "admit", "batch"}
      BY DEF Places, Working
    <3>5. QED
      BY <3>1, <3>2, <3>3, <3>4, Moved
  <2>26. ASSUME NEW r \in Runs, Unpark(r) PROVE Batch'
    <3>1. PICK pc \in {"step"} : Goto(r, pc)
      BY <2>26 DEF Unpark
    <3>2. /\ UNCHANGED <<call, slot, ran, fresh>>
          /\ \A s \in Runs : Shrunk(s)
          /\ \A s \in Runs \ {r} : kept'[s] = kept[s] /\ status'[s] = status[s] /\ stop'[s] = stop[s]
          /\ \A c \in Calls : LeftOrRejected(c)
      BY <2>26 DEF Unpark, TypeOK, Shrunk, LeftOrRejected, tools
    <3>3. ASSUME NEW c \in CallsOf(r)
          PROVE  /\ slot[c] = "idle"
                 /\ Unsettled(c) => status'[r] \in Unparked /\ pc \in Loose
                 /\ Stale(c) /\ pc = "recover" => c \notin kept'[r]
                 /\ pc \in AtModel => call[c] \in {"none", "answered"}
      <4>1. c \in Calls /\ Owner[c] = r /\ slot[c] = "idle" /\ Reruns(c) /\ Settled(c) /\ Answered(c)
        BY <2>26, AtRest DEF Unpark
      <4>2. exec'[r] = pc
        BY <3>1 DEF Goto, TypeOK
      <4>3. QED
        BY <2>26, <4>1, <4>2 DEF Unpark, Goto, Reruns, Settled, Answered, Unsettled, AtModel, Loose, TypeOK, tools
    <3>4. pc \in Places \ {"recovering", "admit", "batch"}
      BY DEF Places, Working
    <3>5. QED
      BY <3>1, <3>2, <3>3, <3>4, Moved
  <2>27. ASSUME NEW r \in Runs, NothingDecided(r) PROVE Batch'
    <3>1. PICK pc \in {"settle", "await"} : Goto(r, pc)
      BY <2>27 DEF NothingDecided
    <3>2. /\ UNCHANGED <<call, slot, ran, fresh>>
          /\ \A s \in Runs : Shrunk(s)
          /\ \A s \in Runs \ {r} : kept'[s] = kept[s] /\ status'[s] = status[s] /\ stop'[s] = stop[s]
          /\ \A c \in Calls : LeftOrRejected(c)
      BY <2>27 DEF NothingDecided, TypeOK, Shrunk, LeftOrRejected, tools
    <3>3. ASSUME NEW c \in CallsOf(r)
          PROVE  /\ slot[c] = "idle"
                 /\ Unsettled(c) => status'[r] \in Unparked /\ pc \in Loose
                 /\ Stale(c) /\ pc = "recover" => c \notin kept'[r]
                 /\ pc \in AtModel => call[c] \in {"none", "answered"}
      <4>1. c \in Calls /\ Owner[c] = r /\ slot[c] = "idle" /\ Reruns(c) /\ Settled(c) /\ Answered(c)
        BY <2>27, AtRest DEF NothingDecided
      <4>2. exec'[r] = pc
        BY <3>1 DEF Goto, TypeOK
      <4>3. QED
        BY <2>27, <4>1, <4>2 DEF NothingDecided, Denied, Granted, Deferred, HasOpenApproval, Journal, Approvals,
           Goto, Reruns, Settled, Answered, Unsettled, AtModel, Loose, TypeOK, tools
    <3>4. pc \in Places \ {"recovering", "admit", "batch"}
      BY DEF Places, Working
    <3>5. QED
      BY <3>1, <3>2, <3>3, <3>4, Moved
  <2>28. ASSUME NEW r \in Runs, CheckAwait(r) PROVE Batch'
    <3>1. PICK pc \in {"drain", "sleep"} : Goto(r, pc)
      BY <2>28 DEF CheckAwait
    <3>2. /\ UNCHANGED <<call, slot, ran, fresh>>
          /\ \A s \in Runs : Shrunk(s)
          /\ \A s \in Runs \ {r} : kept'[s] = kept[s] /\ status'[s] = status[s] /\ stop'[s] = stop[s]
          /\ \A c \in Calls : LeftOrRejected(c)
      BY <2>28 DEF CheckAwait, TypeOK, Shrunk, LeftOrRejected, tools
    <3>3. ASSUME NEW c \in CallsOf(r)
          PROVE  /\ slot[c] = "idle"
                 /\ Unsettled(c) => status'[r] \in Unparked /\ pc \in Loose
                 /\ Stale(c) /\ pc = "recover" => c \notin kept'[r]
                 /\ pc \in AtModel => call[c] \in {"none", "answered"}
      <4>1. c \in Calls /\ Owner[c] = r /\ slot[c] = "idle" /\ Reruns(c) /\ Settled(c) /\ Answered(c)
        BY <2>28, AtRest DEF CheckAwait
      <4>2. exec'[r] = pc
        BY <3>1 DEF Goto, TypeOK
      <4>3. QED
        BY <2>28, <4>1, <4>2 DEF CheckAwait, Goto, Reruns, Settled, Answered, Unsettled, AtModel, Loose, TypeOK, tools
    <3>4. pc \in Places \ {"recovering", "admit", "batch"}
      BY DEF Places, Working
    <3>5. QED
      BY <3>1, <3>2, <3>3, <3>4, Moved
  <2>29. ASSUME NEW r \in Runs, AskModel(r) PROVE Batch'
    <3>1. PICK pc \in {"model"} : Goto(r, pc)
      BY <2>29 DEF AskModel
    <3>2. /\ UNCHANGED <<call, slot, ran, fresh>>
          /\ \A s \in Runs : Shrunk(s)
          /\ \A s \in Runs \ {r} : kept'[s] = kept[s] /\ status'[s] = status[s] /\ stop'[s] = stop[s]
          /\ \A c \in Calls : LeftOrRejected(c)
      BY <2>29 DEF AskModel, ModelCheckpoint, TypeOK, Shrunk, LeftOrRejected, tools
    <3>3. ASSUME NEW c \in CallsOf(r)
          PROVE  /\ slot[c] = "idle"
                 /\ Unsettled(c) => status'[r] \in Unparked /\ pc \in Loose
                 /\ Stale(c) /\ pc = "recover" => c \notin kept'[r]
                 /\ pc \in AtModel => call[c] \in {"none", "answered"}
      <4>1. c \in Calls /\ Owner[c] = r /\ slot[c] = "idle" /\ Reruns(c) /\ Settled(c) /\ Answered(c)
        BY <2>29, AtRest DEF AskModel
      <4>2. exec'[r] = pc
        BY <3>1 DEF Goto, TypeOK
      <4>3. QED
        BY <2>29, <4>1, <4>2 DEF AskModel, Goto, Reruns, Settled, Answered, Unsettled, AtModel, Loose, TypeOK, tools
    <3>4. pc \in Places \ {"recovering", "admit", "batch"}
      BY DEF Places, Working
    <3>5. QED
      BY <3>1, <3>2, <3>3, <3>4, Moved
  <2>30. ASSUME NEW r \in Runs, ModelReplies(r) PROVE Batch'
    <3>1. PICK pc \in {"complete", "step"} : Goto(r, pc)
      BY <2>30 DEF ModelReplies
    <3>2. /\ UNCHANGED <<call, slot, ran, fresh>>
          /\ \A s \in Runs : Shrunk(s)
          /\ \A s \in Runs \ {r} : kept'[s] = kept[s] /\ status'[s] = status[s] /\ stop'[s] = stop[s]
          /\ \A c \in Calls : LeftOrRejected(c)
      BY <2>30 DEF ModelReplies, TypeOK, Shrunk, LeftOrRejected, tools
    <3>3. ASSUME NEW c \in CallsOf(r)
          PROVE  /\ slot[c] = "idle"
                 /\ Unsettled(c) => status'[r] \in Unparked /\ pc \in Loose
                 /\ Stale(c) /\ pc = "recover" => c \notin kept'[r]
                 /\ pc \in AtModel => call[c] \in {"none", "answered"}
      <4>1. c \in Calls /\ Owner[c] = r /\ slot[c] = "idle" /\ Reruns(c) /\ Settled(c) /\ Answered(c)
        BY <2>30, AtRest DEF ModelReplies
      <4>2. exec'[r] = pc
        BY <3>1 DEF Goto, TypeOK
      <4>3. QED
        BY <2>30, <4>1, <4>2 DEF ModelReplies, Goto, Reruns, Settled, Answered, Unsettled, AtModel, Loose,
           TypeOK, tools
    <3>4. pc \in Places \ {"recovering", "admit", "batch"}
      BY DEF Places, Working
    <3>5. QED
      BY <3>1, <3>2, <3>3, <3>4, Moved
  <2>31. ASSUME NEW r \in Runs, SettleApproval(r) PROVE Batch'
    <3>1. PICK pc \in {"park", "step"} : Goto(r, pc)
      BY <2>31 DEF SettleApproval
    <3>2. /\ UNCHANGED <<call, slot, ran, fresh>>
          /\ \A s \in Runs : Shrunk(s)
          /\ \A s \in Runs \ {r} : kept'[s] = kept[s] /\ status'[s] = status[s] /\ stop'[s] = stop[s]
          /\ \A c \in Calls : LeftOrRejected(c)
      BY <2>31 DEF SettleApproval, ModelCheckpoint, TypeOK, Shrunk, LeftOrRejected, tools
    <3>3. ASSUME NEW c \in CallsOf(r)
          PROVE  /\ slot[c] = "idle"
                 /\ Unsettled(c) => status'[r] \in Unparked /\ pc \in Loose
                 /\ Stale(c) /\ pc = "recover" => c \notin kept'[r]
                 /\ pc \in AtModel => call[c] \in {"none", "answered"}
      <4>1. c \in Calls /\ Owner[c] = r /\ slot[c] = "idle" /\ Reruns(c) /\ Settled(c) /\ Answered(c)
        BY <2>31, AtRest DEF SettleApproval
      <4>2. exec'[r] = pc
        BY <3>1 DEF Goto, TypeOK
      <4>3. QED
        BY <2>31, <4>1, <4>2 DEF SettleApproval, Goto, Reruns, Settled, Answered, Unsettled, AtModel, Loose,
           TypeOK, tools
    <3>4. pc \in Places \ {"recovering", "admit", "batch"}
      BY DEF Places, Working
    <3>5. QED
      BY <3>1, <3>2, <3>3, <3>4, Moved
  <2>32. ASSUME NEW r \in Runs, SettleAwait(r) PROVE Batch'
    <3>1. PICK pc \in {"save"} : Goto(r, pc)
      BY <2>32 DEF SettleAwait
    <3>2. /\ UNCHANGED <<call, slot, ran, fresh>>
          /\ \A s \in Runs : Shrunk(s)
          /\ \A s \in Runs \ {r} : kept'[s] = kept[s] /\ status'[s] = status[s] /\ stop'[s] = stop[s]
          /\ \A c \in Calls : LeftOrRejected(c)
      BY <2>32 DEF SettleAwait, ModelCheckpoint, TypeOK, Shrunk, LeftOrRejected, tools
    <3>3. ASSUME NEW c \in CallsOf(r)
          PROVE  /\ slot[c] = "idle"
                 /\ Unsettled(c) => status'[r] \in Unparked /\ pc \in Loose
                 /\ Stale(c) /\ pc = "recover" => c \notin kept'[r]
                 /\ pc \in AtModel => call[c] \in {"none", "answered"}
      <4>1. c \in Calls /\ Owner[c] = r /\ slot[c] = "idle" /\ Reruns(c) /\ Settled(c) /\ Answered(c)
        BY <2>32, AtRest DEF SettleAwait
      <4>2. exec'[r] = pc
        BY <3>1 DEF Goto, TypeOK
      <4>3. QED
        BY <2>32, <4>1, <4>2 DEF SettleAwait, Goto, Reruns, Settled, Answered, Unsettled, AtModel, Loose, TypeOK,
           tools
    <3>4. pc \in Places \ {"recovering", "admit", "batch"}
      BY DEF Places, Working
    <3>5. QED
      BY <3>1, <3>2, <3>3, <3>4, Moved
  <2>33. ASSUME NEW r \in Runs, ParkInterrupted(r) PROVE Batch'
    <3>1. PICK pc \in {"park", "save"} : Goto(r, pc)
      BY <2>33 DEF ParkInterrupted
    <3>2. /\ UNCHANGED <<call, slot, ran, fresh>>
          /\ \A s \in Runs : Shrunk(s)
          /\ \A s \in Runs \ {r} : kept'[s] = kept[s] /\ status'[s] = status[s] /\ stop'[s] = stop[s]
          /\ \A c \in Calls : LeftOrRejected(c)
      BY <2>33 DEF ParkInterrupted, TypeOK, Shrunk, LeftOrRejected, tools
    <3>3. ASSUME NEW c \in CallsOf(r)
          PROVE  /\ slot[c] = "idle"
                 /\ Unsettled(c) => status'[r] \in Unparked /\ pc \in Loose
                 /\ Stale(c) /\ pc = "recover" => c \notin kept'[r]
                 /\ pc \in AtModel => call[c] \in {"none", "answered"}
      <4>1. c \in Calls /\ Owner[c] = r /\ slot[c] = "idle" /\ Reruns(c) /\ Settled(c) /\ Answered(c)
        BY <2>33, AtRest DEF ParkInterrupted
      <4>2. exec'[r] = pc
        BY <3>1 DEF Goto, TypeOK
      <4>3. QED
        BY <2>33, <4>1, <4>2 DEF ParkInterrupted, Goto, Reruns, Settled, Answered, Unsettled, AtModel, Loose,
           TypeOK, tools
    <3>4. pc \in Places \ {"recovering", "admit", "batch"}
      BY DEF Places, Working
    <3>5. QED
      BY <3>1, <3>2, <3>3, <3>4, Moved
  <2>34. ASSUME NEW r \in Runs, CommitPark(r) PROVE Batch'
    <3>1. PICK pc \in {"release"} : Goto(r, pc)
      BY <2>34 DEF CommitPark
    <3>2. /\ UNCHANGED <<call, slot, ran, fresh>>
          /\ \A s \in Runs : Shrunk(s)
          /\ \A s \in Runs \ {r} : kept'[s] = kept[s] /\ status'[s] = status[s] /\ stop'[s] = stop[s]
          /\ \A c \in Calls : LeftOrRejected(c)
      BY <2>34 DEF CommitPark, Commit, Committed, TypeOK, Shrunk, LeftOrRejected, tools
    <3>3. ASSUME NEW c \in CallsOf(r)
          PROVE  /\ slot[c] = "idle"
                 /\ Unsettled(c) => status'[r] \in Unparked /\ pc \in Loose
                 /\ Stale(c) /\ pc = "recover" => c \notin kept'[r]
                 /\ pc \in AtModel => call[c] \in {"none", "answered"}
      <4>1. c \in Calls /\ Owner[c] = r /\ slot[c] = "idle" /\ Reruns(c) /\ Settled(c) /\ Answered(c)
        BY <2>34, AtRest DEF CommitPark
      <4>2. exec'[r] = pc
        BY <3>1 DEF Goto, TypeOK
      <4>3. QED
        BY <2>34, <4>1, <4>2 DEF CommitPark, Commit, Committed, Goto, Reruns, Settled, Answered, Unsettled,
           AtModel, Loose, TypeOK, tools
    <3>4. pc \in Places \ {"recovering", "admit", "batch"}
      BY DEF Places, Working
    <3>5. QED
      BY <3>1, <3>2, <3>3, <3>4, Moved
  <2>35. ASSUME NEW r \in Runs, SaveWakeup(r) PROVE Batch'
    <3>1. PICK pc \in {"seal"} : Goto(r, pc)
      BY <2>35 DEF SaveWakeup
    <3>2. /\ UNCHANGED <<call, slot, ran, fresh>>
          /\ \A s \in Runs : Shrunk(s)
          /\ \A s \in Runs \ {r} : kept'[s] = kept[s] /\ status'[s] = status[s] /\ stop'[s] = stop[s]
          /\ \A c \in Calls : LeftOrRejected(c)
      BY <2>35 DEF SaveWakeup, TypeOK, Shrunk, LeftOrRejected, tools
    <3>3. ASSUME NEW c \in CallsOf(r)
          PROVE  /\ slot[c] = "idle"
                 /\ Unsettled(c) => status'[r] \in Unparked /\ pc \in Loose
                 /\ Stale(c) /\ pc = "recover" => c \notin kept'[r]
                 /\ pc \in AtModel => call[c] \in {"none", "answered"}
      <4>1. c \in Calls /\ Owner[c] = r /\ slot[c] = "idle" /\ Reruns(c) /\ Settled(c) /\ Answered(c)
        BY <2>35, AtRest DEF SaveWakeup
      <4>2. exec'[r] = pc
        BY <3>1 DEF Goto, TypeOK
      <4>3. QED
        BY <2>35, <4>1, <4>2 DEF SaveWakeup, Goto, Reruns, Settled, Answered, Unsettled, AtModel, Loose, TypeOK, tools
    <3>4. pc \in Places \ {"recovering", "admit", "batch"}
      BY DEF Places, Working
    <3>5. QED
      BY <3>1, <3>2, <3>3, <3>4, Moved
  <2>36. ASSUME NEW r \in Runs, CommitSleep(r) PROVE Batch'
    <3>1. PICK pc \in {"release"} : Goto(r, pc)
      BY <2>36 DEF CommitSleep
    <3>2. /\ UNCHANGED <<call, slot, ran, fresh>>
          /\ \A s \in Runs : Shrunk(s)
          /\ \A s \in Runs \ {r} : kept'[s] = kept[s] /\ status'[s] = status[s] /\ stop'[s] = stop[s]
          /\ \A c \in Calls : LeftOrRejected(c)
      BY <2>36 DEF CommitSleep, Commit, Committed, TypeOK, Shrunk, LeftOrRejected, tools
    <3>3. ASSUME NEW c \in CallsOf(r)
          PROVE  /\ slot[c] = "idle"
                 /\ Unsettled(c) => status'[r] \in Unparked /\ pc \in Loose
                 /\ Stale(c) /\ pc = "recover" => c \notin kept'[r]
                 /\ pc \in AtModel => call[c] \in {"none", "answered"}
      <4>1. c \in Calls /\ Owner[c] = r /\ slot[c] = "idle" /\ Reruns(c) /\ Settled(c) /\ Answered(c)
        BY <2>36, AtRest DEF CommitSleep
      <4>2. exec'[r] = pc
        BY <3>1 DEF Goto, TypeOK
      <4>3. QED
        BY <2>36, <4>1, <4>2 DEF CommitSleep, Commit, Committed, Goto, Reruns, Settled, Answered, Unsettled,
           AtModel, Loose, TypeOK, tools
    <3>4. pc \in Places \ {"recovering", "admit", "batch"}
      BY DEF Places, Working
    <3>5. QED
      BY <3>1, <3>2, <3>3, <3>4, Moved
  <2>37. ASSUME NEW r \in Runs, CommitEnd(r) PROVE Batch'
    <3>1. PICK pc \in {"follow", "release"} : Goto(r, pc)
      BY <2>37 DEF CommitEnd
    <3>2. /\ UNCHANGED <<call, slot, ran, fresh>>
          /\ \A s \in Runs : Shrunk(s)
          /\ \A s \in Runs \ {r} : kept'[s] = kept[s] /\ status'[s] = status[s] /\ stop'[s] = stop[s]
          /\ \A c \in Calls : LeftOrRejected(c)
      BY <2>37 DEF CommitEnd, Commit, Committed, TypeOK, Shrunk, LeftOrRejected, tools
    <3>3. ASSUME NEW c \in CallsOf(r)
          PROVE  /\ slot[c] = "idle"
                 /\ Unsettled(c) => status'[r] \in Unparked /\ pc \in Loose
                 /\ Stale(c) /\ pc = "recover" => c \notin kept'[r]
                 /\ pc \in AtModel => call[c] \in {"none", "answered"}
      <4>1. c \in Calls /\ Owner[c] = r /\ slot[c] = "idle" /\ Reruns(c) /\ Settled(c) /\ Answered(c)
        BY <2>37, AtRest DEF CommitEnd
      <4>2. exec'[r] = pc
        BY <3>1 DEF Goto, TypeOK
      <4>3. QED
        BY <2>37, <4>1, <4>2 DEF CommitEnd, Commit, Committed, Unparked, Ended, Goto, Reruns, Settled, Answered,
           Unsettled, AtModel, Loose, TypeOK, tools
    <3>4. pc \in Places \ {"recovering", "admit", "batch"}
      BY DEF Places, Working
    <3>5. QED
      BY <3>1, <3>2, <3>3, <3>4, Moved
  <2>38. ASSUME NEW r \in Runs, FollowEnd(r) PROVE Batch'
    <3>1. PICK pc \in {"release"} : Goto(r, pc)
      BY <2>38 DEF FollowEnd
    <3>2. /\ UNCHANGED <<call, slot, ran, fresh>>
          /\ \A s \in Runs : Shrunk(s)
          /\ \A s \in Runs \ {r} : kept'[s] = kept[s] /\ status'[s] = status[s] /\ stop'[s] = stop[s]
          /\ \A c \in Calls : LeftOrRejected(c)
      BY <2>38 DEF FollowEnd, ClearEnded, RejectOpen, NoCheckpoint, TypeOK, Shrunk, LeftOrRejected
    <3>3. ASSUME NEW c \in CallsOf(r)
          PROVE  /\ slot[c] = "idle"
                 /\ Unsettled(c) => status'[r] \in Unparked /\ pc \in Loose
                 /\ Stale(c) /\ pc = "recover" => c \notin kept'[r]
                 /\ pc \in AtModel => call[c] \in {"none", "answered"}
      <4>1. c \in Calls /\ Owner[c] = r /\ slot[c] = "idle" /\ Reruns(c) /\ Settled(c) /\ Answered(c)
        BY <2>38, AtRest DEF FollowEnd
      <4>2. exec'[r] = pc
        BY <3>1 DEF Goto, TypeOK
      <4>3. QED
        BY <2>38, <4>1, <4>2 DEF FollowEnd, Life, Owned, Unparked, Ended, Goto, Reruns, Settled, Answered,
           Unsettled, AtModel, Loose, TypeOK, tools
    <3>4. pc \in Places \ {"recovering", "admit", "batch"}
      BY DEF Places, Working
    <3>5. QED
      BY <3>1, <3>2, <3>3, <3>4, Moved
  <2>39. ASSUME NEW r \in Runs, CommitFails(r) PROVE Batch'
    <3>1. PICK pc \in {"release"} : Goto(r, pc)
      BY <2>39 DEF CommitFails
    <3>2. /\ UNCHANGED <<call, slot, ran, fresh>>
          /\ \A s \in Runs : Shrunk(s)
          /\ \A s \in Runs \ {r} : kept'[s] = kept[s] /\ status'[s] = status[s] /\ stop'[s] = stop[s]
          /\ \A c \in Calls : LeftOrRejected(c)
      BY <2>39 DEF CommitFails, TypeOK, Shrunk, LeftOrRejected, tools
    <3>3. ASSUME NEW c \in CallsOf(r)
          PROVE  /\ slot[c] = "idle"
                 /\ Unsettled(c) => status'[r] \in Unparked /\ pc \in Loose
                 /\ Stale(c) /\ pc = "recover" => c \notin kept'[r]
                 /\ pc \in AtModel => call[c] \in {"none", "answered"}
      <4>1. c \in Calls /\ Owner[c] = r /\ slot[c] = "idle" /\ Reruns(c) /\ Settled(c) /\ Answered(c)
        BY <2>39, AtRest DEF CommitFails
      <4>2. exec'[r] = pc
        BY <3>1 DEF Goto, TypeOK
      <4>3. QED
        BY <2>39, <4>1, <4>2 DEF CommitFails, Life, Owned, Unparked, Ended, Goto, Reruns, Settled, Answered,
           Unsettled, AtModel, Loose, TypeOK, tools
    <3>4. pc \in Places \ {"recovering", "admit", "batch"}
      BY DEF Places, Working
    <3>5. QED
      BY <3>1, <3>2, <3>3, <3>4, Moved
  <2>40. ASSUME NEW r \in Runs, Release(r) PROVE Batch'
    <3>1. PICK pc \in {"off"} : Goto(r, pc)
      BY <2>40 DEF Release
    <3>2. /\ UNCHANGED <<call, slot, ran, fresh>>
          /\ \A s \in Runs : Shrunk(s)
          /\ \A s \in Runs \ {r} : kept'[s] = kept[s] /\ status'[s] = status[s] /\ stop'[s] = stop[s]
          /\ \A c \in Calls : LeftOrRejected(c)
      BY <2>40 DEF Release, TypeOK, Shrunk, LeftOrRejected, tools
    <3>3. ASSUME NEW c \in CallsOf(r)
          PROVE  /\ slot[c] = "idle"
                 /\ Unsettled(c) => status'[r] \in Unparked /\ pc \in Loose
                 /\ Stale(c) /\ pc = "recover" => c \notin kept'[r]
                 /\ pc \in AtModel => call[c] \in {"none", "answered"}
      <4>1. c \in Calls /\ Owner[c] = r /\ slot[c] = "idle" /\ Reruns(c) /\ Settled(c) /\ Answered(c)
        BY <2>40, AtRest DEF Release
      <4>2. exec'[r] = pc
        BY <3>1 DEF Goto, TypeOK
      <4>3. QED
        BY <2>40, <4>1, <4>2 DEF Release, Goto, Reruns, Settled, Answered, Unsettled, AtModel, Loose, TypeOK, tools
    <3>4. pc \in Places \ {"recovering", "admit", "batch"}
      BY DEF Places, Working
    <3>5. QED
      BY <3>1, <3>2, <3>3, <3>4, Moved
  <2>41. ASSUME NEW r \in Runs, ClaimInterrupted(r) PROVE Batch'
    <3>1. PICK pc \in {"fail", "recover"} : Goto(r, pc)
      BY <2>41 DEF ClaimInterrupted
    <3>2. /\ UNCHANGED <<call, slot, ran, fresh>>
          /\ \A s \in Runs : Shrunk(s)
          /\ \A s \in Runs \ {r} : kept'[s] = kept[s] /\ status'[s] = status[s] /\ stop'[s] = stop[s]
          /\ \A c \in Calls : LeftOrRejected(c)
      BY <2>41 DEF ClaimInterrupted, TypeOK, Shrunk, LeftOrRejected, tools
    <3>3. ASSUME NEW c \in CallsOf(r)
          PROVE  /\ slot[c] = "idle"
                 /\ Unsettled(c) => status'[r] \in Unparked /\ pc \in Loose
                 /\ Stale(c) /\ pc = "recover" => c \notin kept'[r]
                 /\ pc \in AtModel => call[c] \in {"none", "answered"}
      <4>1. c \in Calls /\ Owner[c] = r /\ slot[c] = "idle" /\ Reruns(c) /\ Settled(c) /\ Answered(c)
        BY <2>41, AtRest DEF ClaimInterrupted
      <4>2. exec'[r] = pc
        BY <3>1 DEF Goto, TypeOK
      <4>3. QED
        BY <2>41, <4>1, <4>2 DEF ClaimInterrupted, Unparked, Goto, Reruns, Settled, Answered, Unsettled, AtModel,
           Loose, TypeOK, tools
    <3>4. pc \in Places \ {"recovering", "admit", "batch"}
      BY DEF Places, Working
    <3>5. QED
      BY <3>1, <3>2, <3>3, <3>4, Moved
  <2>42. ASSUME NEW r \in Runs, Recovered(r) PROVE Batch'
    <3>1. PICK pc \in {"step"} : Goto(r, pc)
      BY <2>42 DEF Recovered
    <3>2. /\ UNCHANGED <<call, slot, ran, fresh>>
          /\ \A s \in Runs : Shrunk(s)
          /\ \A s \in Runs \ {r} : kept'[s] = kept[s] /\ status'[s] = status[s] /\ stop'[s] = stop[s]
          /\ \A c \in Calls : LeftOrRejected(c)
      BY <2>42 DEF Recovered, TypeOK, Shrunk, LeftOrRejected, tools
    <3>3. ASSUME NEW c \in CallsOf(r)
          PROVE  /\ slot[c] = "idle"
                 /\ Unsettled(c) => status'[r] \in Unparked /\ pc \in Loose
                 /\ Stale(c) /\ pc = "recover" => c \notin kept'[r]
                 /\ pc \in AtModel => call[c] \in {"none", "answered"}
      <4>1. c \in Calls /\ Owner[c] = r /\ slot[c] = "idle" /\ Reruns(c) /\ Settled(c) /\ Answered(c)
        BY <2>42, <2>0 DEF Recovered, CallsOf, Placed
      <4>2. exec'[r] = pc
        BY <3>1 DEF Goto, TypeOK
      <4>3. QED
        BY <2>42, <4>1, <4>2 DEF Recovered, Goto, Reruns, Settled, Answered, Unsettled, AtModel, Loose, TypeOK, tools
    <3>4. pc \in Places \ {"recovering", "admit", "batch"}
      BY DEF Places, Working
    <3>5. QED
      BY <3>1, <3>2, <3>3, <3>4, Moved
  <2>43. ASSUME NEW r \in Runs, Register(r) PROVE Batch'
    <3> SUFFICES ASSUME NEW c \in Calls PROVE CallInv(c)'
      BY DEF Batch
    <3>1. Placed(c)'
      BY <2>43, <2>0 DEF Register, Placed, Goto, TypeOK, tools
    <3>2. Ordered(c)'
      BY <2>43, <2>0 DEF Register, Ordered, tools
    <3>3. Begins(c)'
      BY <2>43, <2>0 DEF Register, Begins, tools
    <3>4. Reruns(c)'
      BY <2>43, <2>0 DEF Register, Reruns, Goto, Stale, TypeOK, tools
    <3>5. Settled(c)'
      BY <2>43, <2>0 DEF Register, Settled, Goto, Unsettled, Stale, Loose, TypeOK, tools
    <3>6. Answered(c)'
      BY <2>43, <2>0 DEF Register, Answered, Goto, AtModel, TypeOK, tools
    <3>7. QED
      BY <3>1, <3>2, <3>3, <3>4, <3>5, <3>6 DEF CallInv
  <2>44. ASSUME NEW r \in Runs, FindLost(r) PROVE Batch'
    <3> SUFFICES ASSUME NEW c \in Calls PROVE CallInv(c)'
      BY DEF Batch
    <3>1. Placed(c)'
      BY <2>44, <2>0 DEF FindLost, Placed, Goto, TypeOK
    <3>2. Ordered(c)'
      BY <2>44, <2>0 DEF FindLost, Ordered, CallsOf, Barring, Behind, Placed
    <3>3. Begins(c)'
      BY <2>44, <2>0 DEF FindLost, Begins
    <3>4. Reruns(c)'
      BY <2>44, <2>0 DEF FindLost, Reruns, Goto, Stale
    <3>5. Settled(c)'
      BY <2>44, <2>0 DEF FindLost, Settled, Goto, Unsettled, Stale, Loose
    <3>6. Answered(c)'
      BY <2>44, <2>0 DEF FindLost, Answered, Goto, AtModel
    <3>7. QED
      BY <3>1, <3>2, <3>3, <3>4, <3>5, <3>6 DEF CallInv
  <2>45. ASSUME NEW r \in Runs, RunDecided(r) PROVE Batch'
    <3> SUFFICES ASSUME NEW c \in Calls PROVE CallInv(c)'
      BY DEF Batch
    <3>1. Placed(c)'
      BY <2>45, <2>0 DEF RunDecided, Placed, Goto, Enqueue, Granted, Deferred, CallsOf, TypeOK
    <3>2. Ordered(c)'
      BY <2>45, <2>0 DEF RunDecided, Ordered, Goto, Enqueue, Granted, Deferred, CallsOf, Barring, Behind, Placed
    <3>3. Begins(c)'
      BY <2>45, <2>0 DEF RunDecided, Begins, Goto, Enqueue, Granted, Deferred, CallsOf, Begun
    <3>4. Reruns(c)'
      BY <2>45, <2>0 DEF RunDecided, Reruns, Goto, Enqueue, Granted, Deferred, CallsOf, Stale, Settled,
         Unsettled, Loose
    <3>5. Settled(c)'
      BY <2>45, <2>0 DEF RunDecided, Settled, Goto, Enqueue, Granted, Deferred, CallsOf, Unsettled, Stale, Loose
    <3>6. Answered(c)'
      BY <2>45, <2>0 DEF RunDecided, Answered, Goto, Enqueue, Granted, Deferred, CallsOf, AtModel
    <3>7. QED
      BY <3>1, <3>2, <3>3, <3>4, <3>5, <3>6 DEF CallInv
  <2>46. ASSUME NEW r \in Runs, NEW S \in SUBSET CallsOf(r), ModelCalls(r, S) PROVE Batch'
    <3> SUFFICES ASSUME NEW c \in Calls PROVE CallInv(c)'
      BY DEF Batch
    <3>1. Placed(c)'
      BY <2>46, <2>0 DEF ModelCalls, Placed, Goto, Enqueue, CallsOf, TypeOK
    <3>2. Ordered(c)'
      BY <2>46, <2>0 DEF ModelCalls, Ordered, Goto, Enqueue, CallsOf, Barring, Behind, Placed
    <3>3. Begins(c)'
      BY <2>46, <2>0 DEF ModelCalls, Begins, Goto, Enqueue, CallsOf, Begun
    <3>4. Reruns(c)'
      BY <2>46, <2>0 DEF ModelCalls, Reruns, Goto, Enqueue, CallsOf, Stale
    <3>5. Settled(c)'
      BY <2>46, <2>0 DEF ModelCalls, Settled, Goto, Enqueue, CallsOf, Unsettled, Stale, Loose
    <3>6. Answered(c)'
      BY <2>46, <2>0 DEF ModelCalls, Answered, Goto, Enqueue, CallsOf, AtModel
    <3>7. QED
      BY <3>1, <3>2, <3>3, <3>4, <3>5, <3>6 DEF CallInv
  <2>47. ASSUME NEW r \in Runs, LaunchBatch(r) PROVE Batch'
    <3> SUFFICES ASSUME NEW c \in Calls PROVE CallInv(c)'
      BY DEF Batch
    <3>1. Placed(c)'
      BY <2>47, <2>0 DEF LaunchBatch, Placed, Goto, Queued, CallsOf
    <3>2. Ordered(c)'
      BY <2>47, <2>0 DEF LaunchBatch, Ordered, CallsOf, Barring, Behind
    <3>3. Begins(c)'
      BY <2>47, <2>0 DEF LaunchBatch, Begins, Goto, Queued, CallsOf, Begun, TypeOK
    <3>4. Reruns(c)'
      BY <2>47, <2>0 DEF LaunchBatch, Reruns, Goto, Queued, CallsOf, Stale
    <3>5. Settled(c)'
      BY <2>47, <2>0 DEF LaunchBatch, Settled, Goto, Queued, CallsOf, Unsettled, Stale, Loose
    <3>6. Answered(c)'
      BY <2>47, <2>0 DEF LaunchBatch, Answered, Goto, Queued, CallsOf, AtModel
    <3>7. QED
      BY <3>1, <3>2, <3>3, <3>4, <3>5, <3>6 DEF CallInv
  <2>48. ASSUME NEW r \in Runs, EndBatch(r) PROVE Batch'
    <3> SUFFICES ASSUME NEW c \in Calls PROVE CallInv(c)'
      BY DEF Batch
    <3>1. Placed(c)'
      BY <2>48, <2>0 DEF EndBatch, Placed, Goto, CallsOf
    <3>2. Ordered(c)'
      BY <2>48, <2>0 DEF EndBatch, Ordered, CallsOf, Barring, Behind
    <3>3. Begins(c)'
      BY <2>48, <2>0 DEF EndBatch, Begins, Begun
    <3>4. Reruns(c)'
      BY <2>48, <2>0 DEF EndBatch, Reruns, Goto, CallsOf, Stale
    <3>5. Settled(c)'
      BY <2>48, <2>0 DEF EndBatch, Settled, Goto, CallsOf, Unsettled, Stale, Loose, Placed
    <3>6. Answered(c)'
      BY <2>48, <2>0 DEF EndBatch, Answered, Goto, CallsOf, AtModel
    <3>7. QED
      BY <3>1, <3>2, <3>3, <3>4, <3>5, <3>6 DEF CallInv
  <2>49. ASSUME NEW r \in Runs, EngineFails(r) PROVE Batch'
    <3> SUFFICES ASSUME NEW c \in Calls PROVE CallInv(c)'
      BY DEF Batch
    <3>1. Placed(c)'
      BY <2>49, <2>0 DEF EngineFails, Placed, Goto, KeepResults, InBatch, CallsOf
    <3>2. Ordered(c)'
      BY <2>49, <2>0 DEF EngineFails, Ordered, Goto, KeepResults, InBatch, CallsOf, Barring, Behind
    <3>3. Begins(c)'
      BY <2>49, <2>0 DEF EngineFails, Begins, Goto, KeepResults, InBatch, CallsOf, Begun
    <3>4. Reruns(c)'
      BY <2>49, <2>0 DEF EngineFails, Reruns, Goto, KeepResults, InBatch, CallsOf, Stale
    <3>5. Settled(c)'
      BY <2>49, <2>0 DEF EngineFails, Settled, Goto, KeepResults, InBatch, CallsOf, Unsettled, Stale, Loose, TypeOK
    <3>6. Answered(c)'
      BY <2>49, <2>0 DEF EngineFails, Answered, Goto, KeepResults, InBatch, CallsOf, AtModel
    <3>7. QED
      BY <3>1, <3>2, <3>3, <3>4, <3>5, <3>6 DEF CallInv
  <2>50. ASSUME NEW r \in Runs, EngineStops(r) PROVE Batch'
    <3> SUFFICES ASSUME NEW c \in Calls PROVE CallInv(c)'
      BY DEF Batch
    <3>1. Placed(c)'
      BY <2>50, <2>0 DEF EngineStops, Placed, Goto, KeepResults, InBatch, CallsOf
    <3>2. Ordered(c)'
      BY <2>50, <2>0 DEF EngineStops, Ordered, Goto, KeepResults, InBatch, CallsOf, Barring, Behind
    <3>3. Begins(c)'
      BY <2>50, <2>0 DEF EngineStops, Begins, Goto, KeepResults, InBatch, CallsOf, Begun
    <3>4. Reruns(c)'
      BY <2>50, <2>0 DEF EngineStops, Reruns, Goto, KeepResults, InBatch, CallsOf, Stale
    <3>5. Settled(c)'
      BY <2>50, <2>0 DEF EngineStops, Settled, Goto, KeepResults, InBatch, CallsOf, Unsettled, Stale, Loose, TypeOK
    <3>6. Answered(c)'
      BY <2>50, <2>0 DEF EngineStops, Answered, Goto, KeepResults, InBatch, CallsOf, AtModel
    <3>7. QED
      BY <3>1, <3>2, <3>3, <3>4, <3>5, <3>6 DEF CallInv
  <2>51. ASSUME NEW d \in Calls, SettleLost(d) PROVE Batch'
    <3> SUFFICES ASSUME NEW c \in Calls PROVE CallInv(c)'
      BY DEF Batch
    <3>1. Placed(c)'
      BY <2>51, <2>0 DEF SettleLost, Placed, engine
    <3>2. Ordered(c)'
      BY <2>51, <2>0 DEF SettleLost, Ordered, CallsOf, Barring, Behind
    <3>3. Begins(c)'
      BY <2>51, <2>0 DEF SettleLost, Begins, Begun, TypeOK
    <3>4. Reruns(c)'
      BY <2>51, <2>0 DEF SettleLost, Reruns, Stale, TypeOK, engine
    <3>5. Settled(c)'
      BY <2>51, <2>0 DEF SettleLost, Settled, Unsettled, Stale, Loose, TypeOK, engine
    <3>6. Answered(c)'
      BY <2>51, <2>0 DEF SettleLost, Answered, AtModel, TypeOK, engine
    <3>7. QED
      BY <3>1, <3>2, <3>3, <3>4, <3>5, <3>6 DEF CallInv
  <2>52. ASSUME NEW d \in Calls, DenyCall(d) PROVE Batch'
    <3> SUFFICES ASSUME NEW c \in Calls PROVE CallInv(c)'
      BY DEF Batch
    <3>1. Placed(c)'
      BY <2>52, <2>0 DEF DenyCall, Placed, engine
    <3>2. Ordered(c)'
      BY <2>52, <2>0 DEF DenyCall, Ordered
    <3>3. Begins(c)'
      BY <2>52, <2>0 DEF DenyCall, Begins, HeldBehind, Deferred, CallsOf, Begun, Placed
    <3>4. Reruns(c)'
      BY <2>52, <2>0 DEF DenyCall, Reruns, Stale, engine
    <3>5. Settled(c)'
      BY <2>52, <2>0 DEF DenyCall, Settled, Unsettled, Stale, Loose, engine
    <3>6. Answered(c)'
      BY <2>52, <2>0 DEF DenyCall, Answered, engine
    <3>7. QED
      BY <3>1, <3>2, <3>3, <3>4, <3>5, <3>6 DEF CallInv
  <2>53. ASSUME NEW d \in Calls, AdmitCall(d) PROVE Batch'
    <3> SUFFICES ASSUME NEW c \in Calls PROVE CallInv(c)'
      BY DEF Batch
    <3>1. Placed(c)'
      BY <2>53, <2>0 DEF AdmitCall, Placed, TypeOK, engine
    <3>2. Ordered(c)'
      BY <2>53, <2>0, CallsAssumption DEF AdmitCall, Ordered, CanAdmit, Queued, CallsOf, Barring, Behind, TypeOK
    <3>3. Begins(c)'
      BY <2>53, <2>0 DEF AdmitCall, Begins, Begun, TypeOK
    <3>4. Reruns(c)'
      BY <2>53, <2>0 DEF AdmitCall, Reruns, Stale, TypeOK, engine
    <3>5. Settled(c)'
      BY <2>53, <2>0 DEF AdmitCall, Settled, Unsettled, Stale, Loose, Life, Owned, Working, Stepping, Unparked,
         Ended, TypeOK, engine
    <3>6. Answered(c)'
      BY <2>53, <2>0 DEF AdmitCall, Answered, AtModel, TypeOK, engine
    <3>7. QED
      BY <3>1, <3>2, <3>3, <3>4, <3>5, <3>6 DEF CallInv
  <2>54. ASSUME NEW d \in Calls, RunTool(d) PROVE Batch'
    <3> SUFFICES ASSUME NEW c \in Calls PROVE CallInv(c)'
      BY DEF Batch
    <3>1. Placed(c)'
      BY <2>54, <2>0 DEF RunTool, Placed, engine
    <3>2. Ordered(c)'
      BY <2>54, <2>0 DEF RunTool, Ordered, CallsOf, Barring, Behind
    <3>3. Begins(c)'
      BY <2>54, <2>0 DEF RunTool, Begins, Begun
    <3>4. Reruns(c)'
      BY <2>54, <2>0 DEF RunTool, Reruns, Stale, Placed, Begins, Begun, TypeOK, engine
    <3>5. Settled(c)'
      BY <2>54, <2>0 DEF RunTool, Settled, Unsettled, Stale, Loose, Placed, Life, Owned, Working, Stepping,
         Unparked, Ended, engine
    <3>6. Answered(c)'
      BY <2>54, <2>0 DEF RunTool, Answered, engine
    <3>7. QED
      BY <3>1, <3>2, <3>3, <3>4, <3>5, <3>6 DEF CallInv
  <2>55. ASSUME NEW d \in Calls, ToolStops(d) PROVE Batch'
    <3> SUFFICES ASSUME NEW c \in Calls PROVE CallInv(c)'
      BY DEF Batch
    <3>1. Placed(c)'
      BY <2>55, <2>0 DEF ToolStops, Placed, engine
    <3>2. Ordered(c)'
      BY <2>55, <2>0 DEF ToolStops, Ordered, CallsOf, Barring, Behind
    <3>3. Begins(c)'
      BY <2>55, <2>0 DEF ToolStops, Begins, Begun
    <3>4. Reruns(c)'
      BY <2>55, <2>0 DEF ToolStops, Reruns, Stale, engine
    <3>5. Settled(c)'
      BY <2>55, <2>0 DEF ToolStops, Settled, Unsettled, Stale, Loose, engine
    <3>6. Answered(c)'
      BY <2>55, <2>0 DEF ToolStops, Answered, engine
    <3>7. QED
      BY <3>1, <3>2, <3>3, <3>4, <3>5, <3>6 DEF CallInv
  <2>56. ASSUME NEW d \in Calls, RequestApproval(d) PROVE Batch'
    <3> SUFFICES ASSUME NEW c \in Calls PROVE CallInv(c)'
      BY DEF Batch
    <3>1. Placed(c)'
      BY <2>56, <2>0 DEF RequestApproval, Placed, engine
    <3>2. Ordered(c)'
      BY <2>56, <2>0 DEF RequestApproval, Ordered, CallsOf, Barring, Behind
    <3>3. Begins(c)'
      BY <2>56, <2>0 DEF RequestApproval, Begins, Begun
    <3>4. Reruns(c)'
      BY <2>56, <2>0 DEF RequestApproval, Reruns, Stale, engine
    <3>5. Settled(c)'
      BY <2>56, <2>0 DEF RequestApproval, Settled, Unsettled, Stale, Loose, TypeOK, engine
    <3>6. Answered(c)'
      BY <2>56, <2>0 DEF RequestApproval, Answered, engine
    <3>7. QED
      BY <3>1, <3>2, <3>3, <3>4, <3>5, <3>6 DEF CallInv
  <2>57. ASSUME NEW d \in Calls, RefuseCall(d) PROVE Batch'
    <3> SUFFICES ASSUME NEW c \in Calls PROVE CallInv(c)'
      BY DEF Batch
    <3>1. Placed(c)'
      BY <2>57, <2>0 DEF RefuseCall, Placed, Settling, Goto
    <3>2. Ordered(c)'
      BY <2>57, <2>0 DEF RefuseCall, Ordered, CallsOf, Barring, Behind
    <3>3. Begins(c)'
      BY <2>57, <2>0 DEF RefuseCall, Begins, Begun
    <3>4. Reruns(c)'
      BY <2>57, <2>0 DEF RefuseCall, Reruns, Settling, Goto, Stale
    <3>5. Settled(c)'
      BY <2>57, <2>0 DEF RefuseCall, Settled, Settling, Goto, Unsettled, Stale, Loose
    <3>6. Answered(c)'
      BY <2>57, <2>0 DEF RefuseCall, Answered, Settling, Goto, AtModel
    <3>7. QED
      BY <3>1, <3>2, <3>3, <3>4, <3>5, <3>6 DEF CallInv
  <2>58. ASSUME NEW d \in Calls, RecordCall(d) PROVE Batch'
    <3> SUFFICES ASSUME NEW c \in Calls PROVE CallInv(c)'
      BY DEF Batch
    <3>1. Placed(c)'
      BY <2>58, <2>0 DEF RecordCall, Placed
    <3>2. Ordered(c)'
      BY <2>58, <2>0 DEF RecordCall, Ordered, CallsOf, Barring, Behind
    <3>3. Begins(c)'
      BY <2>58, <2>0 DEF RecordCall, Begins, Begun
    <3>4. Reruns(c)'
      BY <2>58, <2>0 DEF RecordCall, Reruns, Stale
    <3>5. Settled(c)'
      BY <2>58, <2>0 DEF RecordCall, Settled, Unsettled, Stale, Loose
    <3>6. Answered(c)'
      BY <2>58, <2>0 DEF RecordCall, Answered
    <3>7. QED
      BY <3>1, <3>2, <3>3, <3>4, <3>5, <3>6 DEF CallInv
  <2>59. ASSUME NEW d \in Calls, JournalCall(d) PROVE Batch'
    <3> SUFFICES ASSUME NEW c \in Calls PROVE CallInv(c)'
      BY DEF Batch
    <3>1. Placed(c)'
      BY <2>59, <2>0 DEF JournalCall, Placed, engine
    <3>2. Ordered(c)'
      BY <2>59, <2>0 DEF JournalCall, Ordered, CallsOf, Barring, Behind
    <3>3. Begins(c)'
      BY <2>59, <2>0 DEF JournalCall, Begins, Begun, TypeOK
    <3>4. Reruns(c)'
      BY <2>59, <2>0 DEF JournalCall, Reruns, Stale, engine
    <3>5. Settled(c)'
      BY <2>59, <2>0 DEF JournalCall, Settled, Unsettled, Stale, Loose, TypeOK, engine
    <3>6. Answered(c)'
      BY <2>59, <2>0 DEF JournalCall, Answered, engine
    <3>7. QED
      BY <3>1, <3>2, <3>3, <3>4, <3>5, <3>6 DEF CallInv
  <2>60. ASSUME NEW d \in Calls, NEW o \in {"approved", "rejected"}, ResolveApproval(d, o) PROVE Batch'
    <3> SUFFICES ASSUME NEW c \in Calls PROVE CallInv(c)'
      BY DEF Batch
    <3>1. Placed(c)'
      BY <2>60, <2>0 DEF ResolveApproval, Placed, engine
    <3>2. Ordered(c)'
      BY <2>60, <2>0 DEF ResolveApproval, Ordered
    <3>3. Begins(c)'
      BY <2>60, <2>0 DEF ResolveApproval, Begins
    <3>4. Reruns(c)'
      BY <2>60, <2>0 DEF ResolveApproval, Reruns, Stale, engine
    <3>5. Settled(c)'
      BY <2>60, <2>0 DEF ResolveApproval, Settled, Unsettled, Stale, Loose, engine
    <3>6. Answered(c)'
      BY <2>60, <2>0 DEF ResolveApproval, Answered, engine
    <3>7. QED
      BY <3>1, <3>2, <3>3, <3>4, <3>5, <3>6 DEF CallInv
  <2>61. ASSUME DaemonExits PROVE Batch'
    <3> SUFFICES ASSUME NEW c \in Calls PROVE CallInv(c)'
      BY DEF Batch
    <3>1. Placed(c)'
      BY <2>61, <2>0 DEF DaemonExits, Placed, LoseMemory
    <3>2. Ordered(c)'
      BY <2>61, <2>0 DEF DaemonExits, Ordered, LoseMemory, CallsOf, Barring, Behind
    <3>3. Begins(c)'
      BY <2>61, <2>0 DEF DaemonExits, Begins, LoseMemory, Begun
    <3>4. Reruns(c)'
      BY <2>61, <2>0 DEF DaemonExits, Reruns, LoseMemory, Stale
    <3>5. Settled(c)'
      BY <2>61, <2>0 DEF DaemonExits, Settled, LoseMemory, Unsettled, Stale, Loose
    <3>6. Answered(c)'
      BY <2>61, <2>0 DEF DaemonExits, Answered, LoseMemory
    <3>7. QED
      BY <3>1, <3>2, <3>3, <3>4, <3>5, <3>6 DEF CallInv
  <2>62. ASSUME Crash PROVE Batch'
    <3> SUFFICES ASSUME NEW c \in Calls PROVE CallInv(c)'
      BY DEF Batch
    <3>1. Placed(c)'
      BY <2>62, <2>0 DEF Crash, Placed, LoseMemory
    <3>2. Ordered(c)'
      BY <2>62, <2>0 DEF Crash, Ordered, LoseMemory, CallsOf, Barring, Behind
    <3>3. Begins(c)'
      BY <2>62, <2>0 DEF Crash, Begins, LoseMemory, Begun
    <3>4. Reruns(c)'
      BY <2>62, <2>0 DEF Crash, Reruns, LoseMemory, Stale
    <3>5. Settled(c)'
      BY <2>62, <2>0 DEF Crash, Settled, LoseMemory, Unsettled, Stale, Loose
    <3>6. Answered(c)'
      BY <2>62, <2>0 DEF Crash, Answered, LoseMemory, AtModel
    <3>7. QED
      BY <3>1, <3>2, <3>3, <3>4, <3>5, <3>6 DEF CallInv
  <2> QED
    BY <1>3, <2>1, <2>2, <2>3, <2>4, <2>5, <2>6, <2>7, <2>8, <2>9, <2>10,
       <2>11, <2>12, <2>13, <2>14, <2>15, <2>16, <2>17, <2>18, <2>19, <2>20,
       <2>21, <2>22, <2>23, <2>24, <2>25, <2>26, <2>27, <2>28, <2>29, <2>30,
       <2>31, <2>32, <2>33, <2>34, <2>35, <2>36, <2>37, <2>38, <2>39, <2>40,
       <2>41, <2>42, <2>43, <2>44, <2>45, <2>46, <2>47, <2>48, <2>49, <2>50,
       <2>51, <2>52, <2>53, <2>54, <2>55, <2>56, <2>57, <2>58, <2>59, <2>60,
       <2>61, <2>62 DEF Next, NextUncanceled, RequestEnds, Client, Cancels, FollowUps, Claims, Steps,
       Leaves, CallSteps
<1>4. QED
  BY <1>2, <1>3

(* A new session has no call.                                               *)
LEMMA BatchInit == Init => Batch
BY OwnerAssumption DEF Init, Idle, NoCheckpoint, Batch, CallInv, Placed, Ordered, Begins, Begun, Barring, Reruns,
   Stale, Settled,
   Unsettled, Answered, AtModel

(* It holds of every reachable state.                                       *)
THEOREM BatchInvariant == Spec => []Batch
<1>1. Init => Batch
  BY BatchInit
<1>2. LifeInv /\ Batch /\ [Next]_vars => Batch'
  BY BatchStep
<1>3. QED
  BY <1>1, <1>2, LifeInvariant, PTL DEF Spec

(* While a mutating call may still ask for its approval, or asked, no later *)
(* call of its batch was admitted, whatever was refused, stopped or         *)
(* recovered before.                                                        *)
THEOREM BarriersHold == Spec => []BarrierHolds
<1>1. Batch => BarrierHolds
  BY ToolAssumption DEF Batch, CallInv, Ordered, Barring, Behind, BarrierHolds, CallsOf
<1>2. QED
  BY <1>1, BatchInvariant, PTL

(* The model is never asked, and a run never completes, over a call without *)
(* an answer: pending, granted, deferred or interrupted, across crashes.    *)
THEOREM ModelAskedAnswered == Spec => []ModelSeesAnswers
<1>1. Batch => ModelSeesAnswers
  BY DEF Batch, CallInv, Answered, AtModel, ModelSeesAnswers
<1>2. QED
  BY <1>1, BatchInvariant, PTL

(* A mutating call whose tool took effect is never run again before another *)
(* approval, though a crash lost its result.                                *)
THEOREM RerunsApproved == Spec => []RerunApproved
<1>1. Batch => RerunApproved
  BY ToolAssumption DEF Batch, CallInv, Reruns, Stale, RerunApproved
<1>2. QED
  BY <1>1, BatchInvariant, PTL

-----------------------------------------------------------------------------
(* Canceling.                                                               *)

(* The executor of a canceled run was stopped, or CancelRun is before the   *)
(* step that stops it.                                                      *)
Told(r) == /\ status[r] = "canceled"
           /\ exec[r] \in Stepping \union {"unpark"} /\ stop[r] = "no"
           => cancel[r] \in {"follow", "commands", "stop"}

AllTold == \A r \in Runs : Told(r)

(* A cancel served to its end tells the executor, and no other step lets a  *)
(* canceled run work untold.                                                *)
LEMMA ToldStep ==
    ASSUME RequestsEnd = FALSE, LifeInv, AllTold, [Next]_vars
    PROVE  AllTold'
<1>1. TypeOK /\ Life
  BY DEF LifeInv
<1> USE <1>1, OwnerAssumption DEF TypeOK, AllTold, Told, Working, Stepping, Ended, Active
<1>2. CASE UNCHANGED vars
  BY <1>2 DEF vars, engine, daemon
<1>3. CASE Next
  <2>1. ASSUME NEW r \in Runs, AcceptRun(r) PROVE AllTold'
    BY <2>1 DEF AcceptRun, tools, waits, engine, daemon
  <2>2. ASSUME NEW r \in Runs, Steer(r) PROVE AllTold'
    BY <2>2 DEF Steer, tools, engine, daemon
  <2>3. ASSUME NEW r \in Runs, CancelRecord(r) PROVE AllTold'
    BY <2>3 DEF CancelRecord, tools, waits, starts, engine
  <2>4. ASSUME NEW r \in Runs, CancelFollow(r) PROVE AllTold'
    BY <2>4 DEF CancelFollow, starts, engine
  <2>5. ASSUME NEW r \in Runs, CancelCommands(r) PROVE AllTold'
    BY <2>5 DEF CancelCommands, tools, starts, engine
  <2>6. ASSUME NEW r \in Runs, CancelStop(r) PROVE AllTold'
    BY <2>6 DEF CancelStop, tools, waits, starts
  <2>7. ASSUME NEW r \in Runs, CancelAfter(r) PROVE AllTold'
    BY <2>7 DEF CancelAfter, tools, waits, engine
  <2>8. ASSUME NEW r \in Runs, CancelGivenUp(r) PROVE AllTold'
    BY <2>8 DEF CancelGivenUp, tools, waits, starts, engine
  <2>9. ASSUME NEW r \in Runs, StartAccepted(r) PROVE AllTold'
    BY <2>9 DEF StartAccepted, Commit, Committed, tools, waits, engine, daemon
  <2>10. ASSUME NEW r \in Runs, StartRecovered(r) PROVE AllTold'
    BY <2>10 DEF StartRecovered, tools, waits, engine, daemon
  <2>11. ASSUME NEW r \in Runs, Resume(r) PROVE AllTold'
    BY <2>11 DEF Resume, tools, waits, engine, daemon
  <2>12. ASSUME NEW r \in Runs, Wake(r) PROVE AllTold'
    BY <2>12 DEF Wake, tools, waits, engine, daemon
  <2>13. ASSUME NEW r \in Runs, AfterRun(r) PROVE AllTold'
    BY <2>13 DEF AfterRun, tools, engine, daemon
  <2>14. ASSUME NEW r \in Runs, WakeDueRun(r) PROVE AllTold'
    BY <2>14 DEF WakeDueRun, tools, waits, engine, daemon
  <2>15. ASSUME NEW r \in Runs, TimeRunsOut(r) PROVE AllTold'
    BY <2>15 DEF TimeRunsOut, tools, starts, engine, daemon
  <2>16. ASSUME NEW r \in Runs, LeaseLapses(r) PROVE AllTold'
    BY <2>16 DEF LeaseLapses, tools, waits, engine, daemon
  <2>17. ASSUME NEW r \in Runs, Register(r) PROVE AllTold'
    BY <2>17 DEF Register, Goto, tools, waits, daemon
  <2>18. ASSUME NEW r \in Runs, ClaimRefused(r) PROVE AllTold'
    BY <2>18 DEF ClaimRefused, Committed, Goto, tools, waits, starts, daemon
  <2>19. ASSUME NEW r \in Runs, ClaimRun(r) PROVE AllTold'
    BY <2>19 DEF ClaimRun, Goto, tools, waits, starts, daemon
  <2>20. ASSUME NEW r \in Runs, ClaimInterrupted(r) PROVE AllTold'
    BY <2>20 DEF ClaimInterrupted, Goto, tools, waits, starts, daemon
  <2>21. ASSUME NEW r \in Runs, Unpark(r) PROVE AllTold'
    BY <2>21 DEF Unpark, Goto, tools, starts, daemon
  <2>22. ASSUME NEW r \in Runs, FindLost(r) PROVE AllTold'
    BY <2>22 DEF FindLost, Goto, waits, starts, daemon
  <2>23. ASSUME NEW r \in Runs, Recovered(r) PROVE AllTold'
    BY <2>23 DEF Recovered, Goto, tools, waits, starts, daemon
  <2>24. ASSUME NEW r \in Runs, RunDecided(r) PROVE AllTold'
    BY <2>24 DEF RunDecided, Goto, waits, starts, daemon
  <2>25. ASSUME NEW r \in Runs, NothingDecided(r) PROVE AllTold'
    BY <2>25 DEF NothingDecided, Goto, tools, waits, starts, daemon
  <2>26. ASSUME NEW r \in Runs, CheckAwait(r) PROVE AllTold'
    BY <2>26 DEF CheckAwait, Goto, tools, starts, daemon
  <2>27. ASSUME NEW r \in Runs, AskModel(r) PROVE AllTold'
    BY <2>27 DEF AskModel, Goto, tools, starts, daemon
  <2>28. ASSUME NEW r \in Runs, ModelReplies(r) PROVE AllTold'
    BY <2>28 DEF ModelReplies, Goto, tools, waits, starts, daemon
  <2>29. ASSUME NEW r \in Runs, LaunchBatch(r) PROVE AllTold'
    BY <2>29 DEF LaunchBatch, Goto, waits, starts, daemon
  <2>30. ASSUME NEW r \in Runs, EndBatch(r) PROVE AllTold'
    BY <2>30 DEF EndBatch, Goto, waits, starts, daemon
  <2>31. ASSUME NEW r \in Runs, SettleApproval(r) PROVE AllTold'
    BY <2>31 DEF SettleApproval, Goto, tools, waits, starts, daemon
  <2>32. ASSUME NEW r \in Runs, SettleAwait(r) PROVE AllTold'
    BY <2>32 DEF SettleAwait, Goto, tools, waits, starts, daemon
  <2>33. ASSUME NEW r \in Runs, EngineFails(r) PROVE AllTold'
    BY <2>33 DEF EngineFails, Goto, waits, starts, daemon
  <2>34. ASSUME NEW r \in Runs, ParkInterrupted(r) PROVE AllTold'
    BY <2>34 DEF ParkInterrupted, Goto, tools, waits, starts, daemon
  <2>35. ASSUME NEW r \in Runs, EngineStops(r) PROVE AllTold'
    BY <2>35 DEF EngineStops, Goto, waits, starts, daemon
  <2>36. ASSUME NEW r \in Runs, CommitPark(r) PROVE AllTold'
    BY <2>36 DEF CommitPark, Commit, Committed, Goto, tools, waits, starts,
       daemon
  <2>37. ASSUME NEW r \in Runs, SaveWakeup(r) PROVE AllTold'
    BY <2>37 DEF SaveWakeup, Goto, tools, starts, daemon
  <2>38. ASSUME NEW r \in Runs, CommitSleep(r) PROVE AllTold'
    BY <2>38 DEF CommitSleep, Commit, Committed, Goto, tools, starts, daemon
  <2>39. ASSUME NEW r \in Runs, CommitEnd(r) PROVE AllTold'
    BY <2>39 DEF CommitEnd, Commit, Committed, Goto, tools, waits, starts, daemon
  <2>40. ASSUME NEW r \in Runs, FollowEnd(r) PROVE AllTold'
    BY <2>40 DEF FollowEnd, Goto, starts, daemon
  <2>41. ASSUME NEW r \in Runs, CommitFails(r) PROVE AllTold'
    BY <2>41 DEF CommitFails, Goto, tools, waits, starts, daemon
  <2>42. ASSUME NEW r \in Runs, Release(r) PROVE AllTold'
    BY <2>42 DEF Release, Goto, tools, waits, daemon
  <2>43. ASSUME NEW r \in Runs, NEW t \in Tasks, DrainEvent(r, t) PROVE AllTold'
    BY <2>43 DEF DrainEvent, tools, starts, engine, daemon
  <2>44. ASSUME NEW r \in Runs, NEW S \in SUBSET CallsOf(r), ModelCalls(r, S) PROVE AllTold'
    BY <2>44 DEF ModelCalls, Goto, waits, starts, daemon
  <2>45. ASSUME NEW c \in Calls, SettleLost(c) PROVE AllTold'
    BY <2>45 DEF SettleLost, waits, starts, engine, daemon
  <2>46. ASSUME NEW c \in Calls, DenyCall(c) PROVE AllTold'
    BY <2>46 DEF DenyCall, waits, starts, engine, daemon
  <2>47. ASSUME NEW c \in Calls, AdmitCall(c) PROVE AllTold'
    BY <2>47 DEF AdmitCall, waits, starts, engine, daemon
  <2>48. ASSUME NEW c \in Calls, RunTool(c) PROVE AllTold'
    BY <2>48 DEF RunTool, starts, engine, daemon
  <2>49. ASSUME NEW c \in Calls, ToolStops(c) PROVE AllTold'
    BY <2>49 DEF ToolStops, waits, starts, engine, daemon
  <2>50. ASSUME NEW c \in Calls, RequestApproval(c) PROVE AllTold'
    BY <2>50 DEF RequestApproval, waits, starts, engine, daemon
  <2>51. ASSUME NEW c \in Calls, RefuseCall(c) PROVE AllTold'
    <3>1. exec[Owner[c]] = "batch" /\ \E pc \in {"admit", "batch"} : Goto(Owner[c], pc)
      BY <2>51 DEF RefuseCall, Settling
    <3>2. UNCHANGED <<status, cancel, stop>>
      BY <2>51 DEF RefuseCall, daemon
    <3>3. QED
      BY <3>1, <3>2 DEF Goto
  <2>52. ASSUME NEW c \in Calls, RecordCall(c) PROVE AllTold'
    BY <2>52 DEF RecordCall, waits, starts, daemon
  <2>53. ASSUME NEW c \in Calls, JournalCall(c) PROVE AllTold'
    BY <2>53 DEF JournalCall, waits, starts, engine, daemon
  <2>54. ASSUME NEW c \in Calls, NEW d \in {"approved", "rejected"}, ResolveApproval(c, d) PROVE AllTold'
    BY <2>54 DEF ResolveApproval, waits, engine, daemon
  <2>55. ASSUME NEW t \in Tasks, TaskEnds(t) PROVE AllTold'
    BY <2>55 DEF TaskEnds, tools, starts, engine, daemon
  <2>56. ASSUME NEW t \in Tasks, TaskFinished(t) PROVE AllTold'
    BY <2>56 DEF TaskFinished, tools, engine, daemon
  <2>57. ASSUME NEW j \in jobs, DropJob(j) PROVE AllTold'
    BY <2>57 DEF DropJob, tools, waits, engine, daemon
  <2>58. ASSUME DaemonStops PROVE AllTold'
    BY <2>58 DEF DaemonStops, tools, waits, starts
  <2>59. ASSUME DaemonExits PROVE AllTold'
    BY <2>59 DEF DaemonExits, LoseMemory
  <2>60. ASSUME Crash PROVE AllTold'
    BY <2>60 DEF Crash, LoseMemory
  <2>61. ASSUME Boot PROVE AllTold'
    BY <2>61 DEF Boot, tools, starts, engine
  <2>62. ASSUME Recover PROVE AllTold'
    BY <2>62 DEF Recover, tools, waits, engine
  <2> HIDE DEF AllTold, Told, TypeOK, Working, Stepping, Ended, Active
  <2> QED
    BY <1>3, <2>1, <2>2, <2>3, <2>4, <2>5, <2>6, <2>7, <2>8, <2>9, <2>10,
       <2>11, <2>12, <2>13, <2>14, <2>15, <2>16, <2>17, <2>18, <2>19, <2>20,
       <2>21, <2>22, <2>23, <2>24, <2>25, <2>26, <2>27, <2>28, <2>29, <2>30,
       <2>31, <2>32, <2>33, <2>34, <2>35, <2>36, <2>37, <2>38, <2>39, <2>40,
       <2>41, <2>42, <2>43, <2>44, <2>45, <2>46, <2>47, <2>48, <2>49, <2>50,
       <2>51, <2>52, <2>53, <2>54, <2>55, <2>56, <2>57, <2>58, <2>59, <2>60,
       <2>61, <2>62 DEF Next, NextUncanceled, RequestEnds, Client, Cancels, FollowUps, Claims, Steps,
       Leaves, CallSteps
<1>4. QED
  BY <1>2, <1>3

(* While clients wait for their cancel to be served, no executor of a       *)
(* canceled run works on without having been told.                          *)
THEOREM CanceledStops == RequestsEnd = FALSE => (Spec => []CanceledIsStopped)
<1> SUFFICES ASSUME RequestsEnd = FALSE PROVE Spec => []CanceledIsStopped
  OBVIOUS
<1>1. Init => AllTold
  BY DEF Init, Idle, AllTold, Told
<1>2. LifeInv /\ AllTold /\ [Next]_vars => AllTold'
  BY ToldStep
<1>3. AllTold => CanceledIsStopped
  BY DEF AllTold, Told, CanceledIsStopped
<1>4. QED
  BY <1>1, <1>2, <1>3, LifeInvariant, PTL DEF Spec

-----------------------------------------------------------------------------
(* The contract.                                                            *)

(* Only a run that exists waits to be started. *)
Known == \A j \in jobs : j.op = "accept" => status[j.run] # "none"

(* Only acceptRun makes such a job, and no step takes a run out of the store. *)
LEMMA KnownStep == LifeInv /\ Known /\ [Next]_vars => Known'
<1> SUFFICES ASSUME LifeInv, Known, [Next]_vars PROVE Known'
  OBVIOUS
<1>1. TypeOK
  BY DEF LifeInv
<1> USE <1>1, OwnerAssumption DEF TypeOK, Known, Job
<1>2. CASE UNCHANGED vars
  BY <1>2 DEF vars, starts
<1>3. CASE Next
  <2>1. ASSUME NEW r \in Runs, AcceptRun(r) PROVE Known'
    BY <2>1 DEF AcceptRun, tools, waits, engine, daemon
  <2>2. ASSUME NEW r \in Runs, Steer(r) PROVE Known'
    BY <2>2 DEF Steer, tools, engine, daemon
  <2>3. ASSUME NEW r \in Runs, CancelRecord(r) PROVE Known'
    BY <2>3 DEF CancelRecord, tools, waits, starts, engine
  <2>4. ASSUME NEW r \in Runs, CancelFollow(r) PROVE Known'
    BY <2>4 DEF CancelFollow, starts, engine
  <2>5. ASSUME NEW r \in Runs, CancelCommands(r) PROVE Known'
    BY <2>5 DEF CancelCommands, tools, starts, engine
  <2>6. ASSUME NEW r \in Runs, CancelStop(r) PROVE Known'
    BY <2>6 DEF CancelStop, tools, waits, starts
  <2>7. ASSUME NEW r \in Runs, CancelAfter(r) PROVE Known'
    BY <2>7 DEF CancelAfter, tools, waits, engine
  <2>8. ASSUME NEW r \in Runs, CancelGivenUp(r) PROVE Known'
    BY <2>8 DEF CancelGivenUp, tools, waits, starts, engine
  <2>9. ASSUME NEW r \in Runs, StartAccepted(r) PROVE Known'
    BY <2>9 DEF StartAccepted, Commit, Committed, Take, tools, waits, engine,
       daemon
  <2>10. ASSUME NEW r \in Runs, StartRecovered(r) PROVE Known'
    BY <2>10 DEF StartRecovered, Take, tools, waits, engine, daemon
  <2>11. ASSUME NEW r \in Runs, Resume(r) PROVE Known'
    BY <2>11 DEF Resume, Take, tools, waits, engine, daemon
  <2>12. ASSUME NEW r \in Runs, Wake(r) PROVE Known'
    BY <2>12 DEF Wake, Take, tools, waits, engine, daemon
  <2>13. ASSUME NEW r \in Runs, AfterRun(r) PROVE Known'
    BY <2>13 DEF AfterRun, Take, tools, engine, daemon
  <2>14. ASSUME NEW r \in Runs, WakeDueRun(r) PROVE Known'
    BY <2>14 DEF WakeDueRun, tools, waits, engine, daemon
  <2>15. ASSUME NEW r \in Runs, TimeRunsOut(r) PROVE Known'
    BY <2>15 DEF TimeRunsOut, tools, starts, engine, daemon
  <2>16. ASSUME NEW r \in Runs, LeaseLapses(r) PROVE Known'
    BY <2>16 DEF LeaseLapses, tools, waits, engine, daemon
  <2>17. ASSUME NEW r \in Runs, Register(r) PROVE Known'
    BY <2>17 DEF Register, tools, waits, daemon
  <2>18. ASSUME NEW r \in Runs, ClaimRefused(r) PROVE Known'
    BY <2>18 DEF ClaimRefused, Committed, tools, waits, starts, daemon
  <2>19. ASSUME NEW r \in Runs, ClaimRun(r) PROVE Known'
    BY <2>19 DEF ClaimRun, tools, waits, starts, daemon
  <2>20. ASSUME NEW r \in Runs, ClaimInterrupted(r) PROVE Known'
    BY <2>20 DEF ClaimInterrupted, tools, waits, starts, daemon
  <2>21. ASSUME NEW r \in Runs, Unpark(r) PROVE Known'
    BY <2>21 DEF Unpark, tools, starts, daemon
  <2>22. ASSUME NEW r \in Runs, FindLost(r) PROVE Known'
    BY <2>22 DEF FindLost, waits, starts, daemon
  <2>23. ASSUME NEW r \in Runs, Recovered(r) PROVE Known'
    BY <2>23 DEF Recovered, tools, waits, starts, daemon
  <2>24. ASSUME NEW r \in Runs, RunDecided(r) PROVE Known'
    BY <2>24 DEF RunDecided, waits, starts, daemon
  <2>25. ASSUME NEW r \in Runs, NothingDecided(r) PROVE Known'
    BY <2>25 DEF NothingDecided, tools, waits, starts, daemon
  <2>26. ASSUME NEW r \in Runs, CheckAwait(r) PROVE Known'
    BY <2>26 DEF CheckAwait, tools, starts, daemon
  <2>27. ASSUME NEW r \in Runs, AskModel(r) PROVE Known'
    BY <2>27 DEF AskModel, tools, starts, daemon
  <2>28. ASSUME NEW r \in Runs, ModelReplies(r) PROVE Known'
    BY <2>28 DEF ModelReplies, tools, waits, starts, daemon
  <2>29. ASSUME NEW r \in Runs, LaunchBatch(r) PROVE Known'
    BY <2>29 DEF LaunchBatch, waits, starts, daemon
  <2>30. ASSUME NEW r \in Runs, EndBatch(r) PROVE Known'
    BY <2>30 DEF EndBatch, waits, starts, daemon
  <2>31. ASSUME NEW r \in Runs, SettleApproval(r) PROVE Known'
    BY <2>31 DEF SettleApproval, tools, waits, starts, daemon
  <2>32. ASSUME NEW r \in Runs, SettleAwait(r) PROVE Known'
    BY <2>32 DEF SettleAwait, tools, waits, starts, daemon
  <2>33. ASSUME NEW r \in Runs, EngineFails(r) PROVE Known'
    BY <2>33 DEF EngineFails, waits, starts, daemon
  <2>34. ASSUME NEW r \in Runs, ParkInterrupted(r) PROVE Known'
    BY <2>34 DEF ParkInterrupted, tools, waits, starts, daemon
  <2>35. ASSUME NEW r \in Runs, EngineStops(r) PROVE Known'
    BY <2>35 DEF EngineStops, waits, starts, daemon
  <2>36. ASSUME NEW r \in Runs, CommitPark(r) PROVE Known'
    BY <2>36 DEF CommitPark, Commit, Committed, tools, waits, starts, daemon
  <2>37. ASSUME NEW r \in Runs, SaveWakeup(r) PROVE Known'
    BY <2>37 DEF SaveWakeup, tools, starts, daemon
  <2>38. ASSUME NEW r \in Runs, CommitSleep(r) PROVE Known'
    BY <2>38 DEF CommitSleep, Commit, Committed, tools, starts, daemon
  <2>39. ASSUME NEW r \in Runs, CommitEnd(r) PROVE Known'
    BY <2>39 DEF CommitEnd, Commit, Committed, tools, waits, starts, daemon
  <2>40. ASSUME NEW r \in Runs, FollowEnd(r) PROVE Known'
    BY <2>40 DEF FollowEnd, starts, daemon
  <2>41. ASSUME NEW r \in Runs, CommitFails(r) PROVE Known'
    BY <2>41 DEF CommitFails, tools, waits, starts, daemon
  <2>42. ASSUME NEW r \in Runs, Release(r) PROVE Known'
    BY <2>42 DEF Release, tools, waits, daemon
  <2>43. ASSUME NEW r \in Runs, NEW t \in Tasks, DrainEvent(r, t) PROVE Known'
    BY <2>43 DEF DrainEvent, tools, starts, engine, daemon
  <2>44. ASSUME NEW r \in Runs, NEW S \in SUBSET CallsOf(r), ModelCalls(r, S) PROVE Known'
    BY <2>44 DEF ModelCalls, waits, starts, daemon
  <2>45. ASSUME NEW c \in Calls, SettleLost(c) PROVE Known'
    BY <2>45 DEF SettleLost, waits, starts, engine, daemon
  <2>46. ASSUME NEW c \in Calls, DenyCall(c) PROVE Known'
    BY <2>46 DEF DenyCall, waits, starts, engine, daemon
  <2>47. ASSUME NEW c \in Calls, AdmitCall(c) PROVE Known'
    BY <2>47 DEF AdmitCall, waits, starts, engine, daemon
  <2>48. ASSUME NEW c \in Calls, RunTool(c) PROVE Known'
    BY <2>48 DEF RunTool, starts, engine, daemon
  <2>49. ASSUME NEW c \in Calls, ToolStops(c) PROVE Known'
    BY <2>49 DEF ToolStops, waits, starts, engine, daemon
  <2>50. ASSUME NEW c \in Calls, RequestApproval(c) PROVE Known'
    BY <2>50 DEF RequestApproval, waits, starts, engine, daemon
  <2>51. ASSUME NEW c \in Calls, RefuseCall(c) PROVE Known'
    BY <2>51 DEF RefuseCall, waits, starts, daemon
  <2>52. ASSUME NEW c \in Calls, RecordCall(c) PROVE Known'
    BY <2>52 DEF RecordCall, waits, starts, daemon
  <2>53. ASSUME NEW c \in Calls, JournalCall(c) PROVE Known'
    BY <2>53 DEF JournalCall, waits, starts, engine, daemon
  <2>54. ASSUME NEW c \in Calls, NEW d \in {"approved", "rejected"}, ResolveApproval(c, d) PROVE Known'
    BY <2>54 DEF ResolveApproval, waits, engine, daemon
  <2>55. ASSUME NEW t \in Tasks, TaskEnds(t) PROVE Known'
    BY <2>55 DEF TaskEnds, tools, starts, engine, daemon
  <2>56. ASSUME NEW t \in Tasks, TaskFinished(t) PROVE Known'
    BY <2>56 DEF TaskFinished, tools, engine, daemon
  <2>57. ASSUME NEW j \in jobs, DropJob(j) PROVE Known'
    BY <2>57 DEF DropJob, tools, waits, engine, daemon
  <2>58. ASSUME DaemonStops PROVE Known'
    BY <2>58 DEF DaemonStops, tools, waits, starts
  <2>59. ASSUME DaemonExits PROVE Known'
    BY <2>59 DEF DaemonExits, LoseMemory
  <2>60. ASSUME Crash PROVE Known'
    BY <2>60 DEF Crash, LoseMemory
  <2>61. ASSUME Boot PROVE Known'
    BY <2>61 DEF Boot, tools, starts, engine
  <2>62. ASSUME Recover PROVE Known'
    BY <2>62 DEF Recover, tools, waits, engine
  <2> HIDE DEF Known, TypeOK, Job
  <2> QED
    BY <1>3, <2>1, <2>2, <2>3, <2>4, <2>5, <2>6, <2>7, <2>8, <2>9, <2>10,
       <2>11, <2>12, <2>13, <2>14, <2>15, <2>16, <2>17, <2>18, <2>19, <2>20,
       <2>21, <2>22, <2>23, <2>24, <2>25, <2>26, <2>27, <2>28, <2>29, <2>30,
       <2>31, <2>32, <2>33, <2>34, <2>35, <2>36, <2>37, <2>38, <2>39, <2>40,
       <2>41, <2>42, <2>43, <2>44, <2>45, <2>46, <2>47, <2>48, <2>49, <2>50,
       <2>51, <2>52, <2>53, <2>54, <2>55, <2>56, <2>57, <2>58, <2>59, <2>60,
       <2>61, <2>62 DEF Next, NextUncanceled, RequestEnds, Client, Cancels, FollowUps, Claims, Steps,
       Leaves, CallSteps
<1>4. QED
  BY <1>2, <1>3

(* A step that leaves every status alone is a decision or a stutter. *)
LEMMA Decided ==
    ASSUME UNCHANGED status
    PROVE  [Contract!Next]_(Contract!vars)
BY DEF Contract!Next, Contract!Decide

(* An end recorded of an active run is a change the contract allows. *)
LEMMA Changed ==
    ASSUME TypeOK, NEW r \in Runs, NEW to \in Status,
           Contract!CanBecome(status[r], to),
           status[r] = "waiting_approval" /\ to = "running" => ~HasOpenApproval(r),
           status' = [status EXCEPT ![r] = to], UNCHANGED ap
    PROVE  [Contract!Next]_(Contract!vars)
<1>1. UNCHANGED {s \in Runs : HasOpenApproval(s)}
  BY DEF HasOpenApproval, CallsOf
<1>2. Contract!Change(r, to)
  BY DEF Contract!Change
<1>3. to \in Contract!Status
  BY DEF Status, Active, Ended, Contract!Status, Contract!Active, Contract!Ended
<1>4. QED
  BY <1>1, <1>2, <1>3 DEF Contract!Next

LEMMA Committing ==
    ASSUME TypeOK, NEW r \in Runs, NEW to \in {"waiting_approval", "waiting_events", "completed", "failed"},
           Commit(r, to), UNCHANGED ap,
           \/ status[r] \in {"running"} \union Ended
           \/ to = "failed" /\ status[r] # "none"
    PROVE  [Contract!Next]_(Contract!vars)
<1>1. CASE ~Committed(r)
  BY <1>1, Decided DEF Commit
<1>2. CASE Committed(r)
  <2>1. status' = [status EXCEPT ![r] = to] /\ to \in Status /\ to # "running"
    BY <1>2 DEF Commit, Status, Active, Ended
  <2>2. Contract!CanBecome(status[r], to)
    BY <1>2 DEF TypeOK, Committed, Status, Active, Ended, Contract!CanBecome, Contract!Edges,
                Contract!Active
  <2>3. QED
    BY <2>1, <2>2, Changed
<1>3. QED
  BY <1>1, <1>2

LEMMA ContractStep ==
    ASSUME LifeInv, Known, [Next]_vars
    PROVE  [Contract!Next]_(Contract!vars)
<1>1. TypeOK /\ Life
  BY DEF LifeInv
<1>2. CASE UNCHANGED vars
  BY <1>2, Decided DEF vars
<1>3. CASE Next
  <2>1. ASSUME NEW r \in Runs, AcceptRun(r) PROVE [Contract!Next]_(Contract!vars)
    <3>1. Contract!CanBecome(status[r], "accepted") /\ UNCHANGED ap
      BY <2>1 DEF AcceptRun, tools, Contract!CanBecome
    <3>2. QED
      BY <1>1, <2>1, <3>1, Changed DEF AcceptRun, Status, Active
  <2>2. ASSUME NEW r \in Runs, Steer(r) PROVE [Contract!Next]_(Contract!vars)
    BY <2>2, Decided DEF Steer
  <2>3. ASSUME NEW r \in Runs, CancelRecord(r) PROVE [Contract!Next]_(Contract!vars)
    <3>1. Contract!CanBecome(status[r], "canceled") /\ UNCHANGED ap
      BY <2>3 DEF CancelRecord, tools, Active, Contract!CanBecome, Contract!Active
    <3>2. QED
      BY <1>1, <2>3, <3>1, Changed DEF CancelRecord, Status, Ended
  <2>4. ASSUME NEW r \in Runs, CancelFollow(r) PROVE [Contract!Next]_(Contract!vars)
    BY <2>4, Decided DEF CancelFollow
  <2>5. ASSUME NEW r \in Runs, CancelCommands(r) PROVE [Contract!Next]_(Contract!vars)
    BY <2>5, Decided DEF CancelCommands
  <2>6. ASSUME NEW r \in Runs, CancelStop(r) PROVE [Contract!Next]_(Contract!vars)
    BY <2>6, Decided DEF CancelStop
  <2>7. ASSUME NEW r \in Runs, CancelAfter(r) PROVE [Contract!Next]_(Contract!vars)
    BY <2>7, Decided DEF CancelAfter
  <2>8. ASSUME NEW r \in Runs, CancelGivenUp(r) PROVE [Contract!Next]_(Contract!vars)
    BY <2>8, Decided DEF CancelGivenUp
  <2>9. ASSUME NEW r \in Runs, StartAccepted(r) PROVE [Contract!Next]_(Contract!vars)
    <3>1. status[r] # "none" /\ UNCHANGED ap
      BY <2>9 DEF StartAccepted, Take, Known, Job, tools
    <3>2. UNCHANGED status \/ Commit(r, "failed")
      BY <2>9 DEF StartAccepted
    <3>3. QED
      BY <1>1, <3>1, <3>2, Committing, Decided
  <2>10. ASSUME NEW r \in Runs, StartRecovered(r) PROVE [Contract!Next]_(Contract!vars)
    BY <2>10, Decided DEF StartRecovered
  <2>11. ASSUME NEW r \in Runs, Resume(r) PROVE [Contract!Next]_(Contract!vars)
    BY <2>11, Decided DEF Resume
  <2>12. ASSUME NEW r \in Runs, Wake(r) PROVE [Contract!Next]_(Contract!vars)
    BY <2>12, Decided DEF Wake
  <2>13. ASSUME NEW r \in Runs, AfterRun(r) PROVE [Contract!Next]_(Contract!vars)
    BY <2>13, Decided DEF AfterRun
  <2>14. ASSUME NEW r \in Runs, WakeDueRun(r) PROVE [Contract!Next]_(Contract!vars)
    BY <2>14, Decided DEF WakeDueRun
  <2>15. ASSUME NEW r \in Runs, TimeRunsOut(r) PROVE [Contract!Next]_(Contract!vars)
    BY <2>15, Decided DEF TimeRunsOut
  <2>16. ASSUME NEW r \in Runs, LeaseLapses(r) PROVE [Contract!Next]_(Contract!vars)
    BY <2>16, Decided DEF LeaseLapses
  <2>17. ASSUME NEW r \in Runs, Register(r) PROVE [Contract!Next]_(Contract!vars)
    BY <2>17, Decided DEF Register
  <2>18. ASSUME NEW r \in Runs, ClaimRefused(r) PROVE [Contract!Next]_(Contract!vars)
    BY <2>18, Decided DEF ClaimRefused
  <2>19. ASSUME NEW r \in Runs, ClaimRun(r) PROVE [Contract!Next]_(Contract!vars)
    <3>1. Contract!CanBecome(status[r], "running") /\ UNCHANGED ap
      BY <2>19 DEF ClaimRun, tools, Contract!CanBecome, Contract!Edges
    <3>2. QED
      BY <1>1, <2>19, <3>1, Changed DEF ClaimRun, Status, Active
  <2>20. ASSUME NEW r \in Runs, ClaimInterrupted(r) PROVE [Contract!Next]_(Contract!vars)
    BY <2>20, Decided DEF ClaimInterrupted
  <2>21. ASSUME NEW r \in Runs, Unpark(r) PROVE [Contract!Next]_(Contract!vars)
    BY <2>21, Decided DEF Unpark
  <2>22. ASSUME NEW r \in Runs, FindLost(r) PROVE [Contract!Next]_(Contract!vars)
    BY <2>22, Decided DEF FindLost
  <2>23. ASSUME NEW r \in Runs, Recovered(r) PROVE [Contract!Next]_(Contract!vars)
    BY <2>23, Decided DEF Recovered
  <2>24. ASSUME NEW r \in Runs, RunDecided(r) PROVE [Contract!Next]_(Contract!vars)
    BY <2>24, Decided DEF RunDecided
  <2>25. ASSUME NEW r \in Runs, NothingDecided(r) PROVE [Contract!Next]_(Contract!vars)
    BY <2>25, Decided DEF NothingDecided
  <2>26. ASSUME NEW r \in Runs, CheckAwait(r) PROVE [Contract!Next]_(Contract!vars)
    BY <2>26, Decided DEF CheckAwait
  <2>27. ASSUME NEW r \in Runs, AskModel(r) PROVE [Contract!Next]_(Contract!vars)
    BY <2>27, Decided DEF AskModel
  <2>28. ASSUME NEW r \in Runs, ModelReplies(r) PROVE [Contract!Next]_(Contract!vars)
    BY <2>28, Decided DEF ModelReplies
  <2>29. ASSUME NEW r \in Runs, LaunchBatch(r) PROVE [Contract!Next]_(Contract!vars)
    BY <2>29, Decided DEF LaunchBatch
  <2>30. ASSUME NEW r \in Runs, EndBatch(r) PROVE [Contract!Next]_(Contract!vars)
    BY <2>30, Decided DEF EndBatch
  <2>31. ASSUME NEW r \in Runs, SettleApproval(r) PROVE [Contract!Next]_(Contract!vars)
    BY <2>31, Decided DEF SettleApproval
  <2>32. ASSUME NEW r \in Runs, SettleAwait(r) PROVE [Contract!Next]_(Contract!vars)
    BY <2>32, Decided DEF SettleAwait
  <2>33. ASSUME NEW r \in Runs, EngineFails(r) PROVE [Contract!Next]_(Contract!vars)
    BY <2>33, Decided DEF EngineFails
  <2>34. ASSUME NEW r \in Runs, ParkInterrupted(r) PROVE [Contract!Next]_(Contract!vars)
    BY <2>34, Decided DEF ParkInterrupted
  <2>35. ASSUME NEW r \in Runs, EngineStops(r) PROVE [Contract!Next]_(Contract!vars)
    BY <2>35, Decided DEF EngineStops
  <2>36. ASSUME NEW r \in Runs, CommitPark(r) PROVE [Contract!Next]_(Contract!vars)
    <3>1. status[r] \in {"running"} \union Ended
      BY <1>1, <2>36 DEF CommitPark, Life, Owned, Working
    <3>2. PICK to \in {"waiting_approval"} : Commit(r, to)
      BY <2>36 DEF CommitPark
    <3>3. UNCHANGED ap
      BY <2>36 DEF CommitPark, tools
    <3>4. QED
      BY <1>1, <3>1, <3>2, <3>3, Committing, Zenon
  <2>37. ASSUME NEW r \in Runs, SaveWakeup(r) PROVE [Contract!Next]_(Contract!vars)
    BY <2>37, Decided DEF SaveWakeup
  <2>38. ASSUME NEW r \in Runs, CommitSleep(r) PROVE [Contract!Next]_(Contract!vars)
    <3>1. status[r] \in {"running"} \union Ended
      BY <1>1, <2>38 DEF CommitSleep, Life, Owned, Working
    <3>2. PICK to \in {"waiting_events"} : Commit(r, to)
      BY <2>38 DEF CommitSleep
    <3>3. UNCHANGED ap
      BY <2>38 DEF CommitSleep, tools
    <3>4. QED
      BY <1>1, <3>1, <3>2, <3>3, Committing, Zenon
  <2>39. ASSUME NEW r \in Runs, CommitEnd(r) PROVE [Contract!Next]_(Contract!vars)
    <3>1. status[r] \in {"running"} \union Ended
      BY <1>1, <2>39 DEF CommitEnd, Life, Owned, Working
    <3>2. PICK to \in {"completed", "failed"} : Commit(r, to)
      BY <2>39 DEF CommitEnd
    <3>3. UNCHANGED ap
      BY <2>39 DEF CommitEnd, tools
    <3>4. QED
      BY <1>1, <3>1, <3>2, <3>3, Committing, Zenon
  <2>40. ASSUME NEW r \in Runs, FollowEnd(r) PROVE [Contract!Next]_(Contract!vars)
    BY <2>40, Decided DEF FollowEnd
  <2>41. ASSUME NEW r \in Runs, CommitFails(r) PROVE [Contract!Next]_(Contract!vars)
    BY <2>41, Decided DEF CommitFails
  <2>42. ASSUME NEW r \in Runs, Release(r) PROVE [Contract!Next]_(Contract!vars)
    BY <2>42, Decided DEF Release
  <2>43. ASSUME NEW r \in Runs, NEW t \in Tasks, DrainEvent(r, t) PROVE [Contract!Next]_(Contract!vars)
    BY <2>43, Decided DEF DrainEvent
  <2>44. ASSUME NEW r \in Runs, NEW S \in SUBSET CallsOf(r), ModelCalls(r, S) PROVE [Contract!Next]_(Contract!vars)
    BY <2>44, Decided DEF ModelCalls
  <2>45. ASSUME NEW c \in Calls, SettleLost(c) PROVE [Contract!Next]_(Contract!vars)
    BY <2>45, Decided DEF SettleLost
  <2>46. ASSUME NEW c \in Calls, DenyCall(c) PROVE [Contract!Next]_(Contract!vars)
    BY <2>46, Decided DEF DenyCall
  <2>47. ASSUME NEW c \in Calls, AdmitCall(c) PROVE [Contract!Next]_(Contract!vars)
    BY <2>47, Decided DEF AdmitCall
  <2>48. ASSUME NEW c \in Calls, RunTool(c) PROVE [Contract!Next]_(Contract!vars)
    BY <2>48, Decided DEF RunTool
  <2>49. ASSUME NEW c \in Calls, ToolStops(c) PROVE [Contract!Next]_(Contract!vars)
    BY <2>49, Decided DEF ToolStops
  <2>50. ASSUME NEW c \in Calls, RequestApproval(c) PROVE [Contract!Next]_(Contract!vars)
    BY <2>50, Decided DEF RequestApproval
  <2>51. ASSUME NEW c \in Calls, RefuseCall(c) PROVE [Contract!Next]_(Contract!vars)
    BY <2>51, Decided DEF RefuseCall
  <2>52. ASSUME NEW c \in Calls, RecordCall(c) PROVE [Contract!Next]_(Contract!vars)
    BY <2>52, Decided DEF RecordCall
  <2>53. ASSUME NEW c \in Calls, JournalCall(c) PROVE [Contract!Next]_(Contract!vars)
    BY <2>53, Decided DEF JournalCall
  <2>54. ASSUME NEW c \in Calls, NEW d \in {"approved", "rejected"}, ResolveApproval(c, d) PROVE [Contract!Next]_(Contract!vars)
    BY <2>54, Decided DEF ResolveApproval
  <2>55. ASSUME NEW t \in Tasks, TaskEnds(t) PROVE [Contract!Next]_(Contract!vars)
    BY <2>55, Decided DEF TaskEnds
  <2>56. ASSUME NEW t \in Tasks, TaskFinished(t) PROVE [Contract!Next]_(Contract!vars)
    BY <2>56, Decided DEF TaskFinished
  <2>57. ASSUME NEW j \in jobs, DropJob(j) PROVE [Contract!Next]_(Contract!vars)
    BY <2>57, Decided DEF DropJob
  <2>58. ASSUME DaemonStops PROVE [Contract!Next]_(Contract!vars)
    BY <2>58, Decided DEF DaemonStops
  <2>59. ASSUME DaemonExits PROVE [Contract!Next]_(Contract!vars)
    BY <2>59, Decided DEF DaemonExits, LoseMemory
  <2>60. ASSUME Crash PROVE [Contract!Next]_(Contract!vars)
    BY <2>60, Decided DEF Crash, LoseMemory
  <2>61. ASSUME Boot PROVE [Contract!Next]_(Contract!vars)
    BY <2>61, Decided DEF Boot
  <2>62. ASSUME Recover PROVE [Contract!Next]_(Contract!vars)
    BY <2>62, Decided DEF Recover
  <2> QED
    BY <1>3, <2>1, <2>2, <2>3, <2>4, <2>5, <2>6, <2>7, <2>8, <2>9, <2>10,
       <2>11, <2>12, <2>13, <2>14, <2>15, <2>16, <2>17, <2>18, <2>19, <2>20,
       <2>21, <2>22, <2>23, <2>24, <2>25, <2>26, <2>27, <2>28, <2>29, <2>30,
       <2>31, <2>32, <2>33, <2>34, <2>35, <2>36, <2>37, <2>38, <2>39, <2>40,
       <2>41, <2>42, <2>43, <2>44, <2>45, <2>46, <2>47, <2>48, <2>49, <2>50,
       <2>51, <2>52, <2>53, <2>54, <2>55, <2>56, <2>57, <2>58, <2>59, <2>60,
       <2>61, <2>62 DEF Next, NextUncanceled, RequestEnds, Client, Cancels, FollowUps, Claims, Steps,
       Leaves, CallSteps
<1>4. QED
  BY <1>2, <1>3

(* Whatever the daemon does, its runs keep the contract clients rely on.    *)
THEOREM ContractKept == Spec => KeepsContract
<1>1. Init => Contract!Init
  <2> SUFFICES ASSUME Init PROVE Contract!Init
    OBVIOUS
  <2>1. \A r \in Runs : ~HasOpenApproval(r)
    BY DEF Init, Idle, HasOpenApproval, CallsOf
  <2>2. QED
    BY <2>1 DEF Init, Contract!Init
<1>2. Init => Known
  BY DEF Init, Idle, Known
<1>3. LifeInv /\ Known /\ [Next]_vars => Known'
  BY KnownStep
<1>4. LifeInv /\ Known /\ [Next]_vars => [Contract!Next]_(Contract!vars)
  BY ContractStep
<1>5. QED
  BY <1>1, <1>2, <1>3, <1>4, LifeInvariant, PTL DEF Spec, KeepsContract, Contract!Spec
=============================================================================
