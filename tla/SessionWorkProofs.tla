-------------------------- MODULE SessionWorkProofs --------------------------
(***************************************************************************)
(* A session heeds the stops of its wake and goal runs and is told of each *)
(* end once: proved for any tasks, allowances, chains, orders and crashes. *)
(***************************************************************************)
EXTENDS SessionWork, FiniteSetTheorems, TLAPS

Triggers == {"user", "wake", "goal"}
Ends     == {"completed", "failed", "canceled"}
RunRows  == [trigger : Triggers, status : {"running"} \union Ends, steered : BOOLEAN]
GoalRows == [status : {"none", "active", "paused", "blocked", "complete"}, used : Nat, last : Nat, since : Nat]

(* A run to be settled is one of the session's. *)
Shape ==
    /\ runs \in Seq(RunRows)
    /\ goal \in GoalRows
    /\ \A j \in jobs : j.pc = "settle" => j.of \in Indexes

(* A session starts a run when it is idle: only its newest can be running. *)
NewestOnly == Active \subseteq {Len(runs)}

(* The run a goal counted last has ended. *)
Counted == goal.last <= Len(runs) /\ goal.last \notin Active

(* A goal that goes on counted no stopped run, but those of before it was   *)
(* set or resumed.                                                          *)
Heeds == (goal.status = "active" /\ goal.last \in Stopped) => goal.last <= goal.since \/ goal.last \in resumed

WorkInv == Shape /\ NewestOnly /\ Counted /\ Heeds /\ WakesHeedStops

-----------------------------------------------------------------------------
(* What a step does to the runs. *)
Starts == Active = {} /\ \E t \in Triggers : runs' = NewRun(t) /\ (t = "wake" => ~ChainOver)
Steers == \E i \in Active, b \in BOOLEAN : b = (runs[i].trigger = "wake") /\ runs' = [runs EXCEPT ![i].steered = b]
EndsOne == \E i \in Active, s \in Ends : runs' = [runs EXCEPT ![i].status = s]

RunMove == runs' = runs \/ Starts \/ Steers \/ EndsOne

Move == (\E i \in Indexes : EndRun(i) \/ CancelRun(i)) \/ runs' = runs \/ Starts \/ Steers

LEMMA Moves == [Next]_vars => Move
  <1> SUFFICES ASSUME [Next]_vars PROVE Move
    OBVIOUS
  <1>1. CASE Send
    BY <1>1 DEF Send, Start, Move, Starts, Triggers
  <1>2. ASSUME NEW i \in Indexes, EndRun(i) \/ CancelRun(i) PROVE Move
    BY <1>2 DEF Move
  <1>3. ASSUME NEW j \in jobs, JobStep(j) PROVE Move
    BY <1>3 DEF JobStep, Look, Settle, NextMessage, WakeSession, ContinueGoal, Start, Idle, Move, Starts, Triggers
  <1>4. CASE SetGoal \/ Pause \/ Resume \/ Clear
    BY <1>4 DEF SetGoal, Pause, Resume, Clear, Order, Move
  <1>5. ASSUME NEW i \in Indexes, ReadEvents(i) \/ UpdateGoal(i) PROVE Move
    BY <1>5 DEF ReadEvents, UpdateGoal, Move
  <1>11. ASSUME NEW i \in Indexes, TakeSteers(i) PROVE Move
    BY <1>11 DEF TakeSteers, Stepping, Move, Steers
  <1>12. ASSUME NEW j \in jobs, DropJob(j) PROVE Move
    BY <1>12 DEF DropJob, Move
  <1>6. ASSUME NEW i \in Indexes, NEW t \in Tasks, StartTask(i, t) PROVE Move
    BY <1>6 DEF StartTask, Move
  <1>7. ASSUME NEW t \in Tasks, EndTask(t) \/ WriteNote(t) \/ MarkDelivered(t) PROVE Move
    BY <1>7 DEF EndTask, WriteNote, MarkDelivered, Move
  <1>8. ASSUME NEW r \in readers, (\E t \in Tasks : NoteEvent(r, t)) \/ ConsumeEvent(r) \/ StopReading(r)
        PROVE  Move
    BY <1>8 DEF NoteEvent, ConsumeEvent, StopReading, Move
  <1>9. CASE Boot \/ Crash
    BY <1>9 DEF Boot, Crash, Move
  <1>10. CASE UNCHANGED vars
    BY <1>10 DEF vars, Move
  <1> QED BY <1>1, <1>2, <1>3, <1>4, <1>5, <1>6, <1>7, <1>8, <1>9, <1>10, <1>11, <1>12 DEF Next, Work

LEMMA RunMoves == [Next]_vars => RunMove
  BY Moves DEF Move, EndRun, CancelRun, Stepping, RunMove, EndsOne, Ends, Active

(* A run that starts is the newest; all others stay as they are. *)
LEMMA Started ==
  ASSUME runs \in Seq(RunRows), NewestOnly, Starts
  PROVE  /\ runs' \in Seq(RunRows) /\ Len(runs') = Len(runs) + 1 /\ Indexes' = 1 .. Len(runs) + 1
         /\ \A i \in Indexes : runs'[i] = runs[i]
         /\ runs'[Len(runs) + 1].status = "running"
         /\ Active' = {Len(runs) + 1} /\ Stopped' = Stopped
  <1>1. PICK t \in Triggers : runs' = NewRun(t)
    BY DEF Starts
  <1> DEFINE row == [trigger |-> t, status |-> "running", steered |-> FALSE]
  <1>2. row \in RunRows /\ runs' = Append(runs, row)
    BY <1>1 DEF NewRun, RunRows
  <1>3. /\ runs' \in Seq(RunRows) /\ Len(runs') = Len(runs) + 1 /\ DOMAIN runs' = 1 .. Len(runs) + 1
        /\ \A i \in 1 .. Len(runs) : runs'[i] = runs[i]
        /\ runs'[Len(runs) + 1] = row
    BY <1>2
  <1>4. Indexes = 1 .. Len(runs) /\ Len(runs) \in Nat
    BY DEF Indexes
  <1>5. Active = {}
    BY DEF Starts
  <1>6. Indexes' = Indexes \union {Len(runs) + 1}
    BY <1>3, <1>4 DEF Indexes
  <1>7. \A i \in Indexes : runs'[i] = runs[i]
    BY <1>3, <1>4
  <1>8. Active' = {Len(runs) + 1}
    BY <1>3, <1>5, <1>6, <1>7 DEF Active
  <1>9. Stopped' = Stopped
    BY <1>3, <1>6, <1>7 DEF Stopped
  <1> QED BY <1>3, <1>4, <1>6, <1>7, <1>8, <1>9

(* A run is steered or ends: it is the newest, and no other changes. *)
LEMMA Changed ==
  ASSUME runs \in Seq(RunRows), NewestOnly, Steers \/ EndsOne
  PROVE  /\ runs' \in Seq(RunRows) /\ Len(runs') = Len(runs) /\ Indexes' = Indexes
         /\ Len(runs) \in Active
         /\ \A i \in Indexes : /\ runs'[i].trigger = runs[i].trigger
                               /\ i # Len(runs) => runs'[i] = runs[i]
         /\ Active' \subseteq Active
         /\ \A i \in Stopped' : i \in Stopped \/ i = Len(runs)
         /\ \A i \in Stopped : i \in Stopped'
  <1>1. PICK i \in Active, b \in BOOLEAN, s \in Ends :
           \/ runs' = [runs EXCEPT ![i].steered = b]
           \/ runs' = [runs EXCEPT ![i].status = s]
    BY DEF Steers, EndsOne, Ends
  <1>2. i = Len(runs) /\ i \in Indexes
    BY DEF NewestOnly, Active
  <1>3. Indexes = 1 .. Len(runs) /\ Len(runs) \in Nat /\ \A n \in Indexes : runs[n] \in RunRows
    BY DEF Indexes
  <1>4. \E row \in RunRows : /\ runs' = [runs EXCEPT ![i] = row]
                             /\ row.trigger = runs[i].trigger
                             /\ row.status = runs[i].status \/ row.status \in Ends
    <2>1. CASE runs' = [runs EXCEPT ![i].steered = b]
      <3>1. [runs[i] EXCEPT !.steered = b] \in RunRows
        BY <1>2, <1>3 DEF RunRows
      <3> QED BY <1>2, <1>3, <2>1, <3>1 DEF RunRows
    <2>2. CASE runs' = [runs EXCEPT ![i].status = s]
      <3>1. [runs[i] EXCEPT !.status = s] \in RunRows
        BY <1>2, <1>3 DEF RunRows
      <3> QED BY <1>2, <1>3, <2>2, <3>1 DEF RunRows
    <2> QED BY <1>1, <2>1, <2>2
  <1>5. PICK row \in RunRows : /\ runs' = [runs EXCEPT ![i] = row]
                               /\ row.trigger = runs[i].trigger
                               /\ row.status = runs[i].status \/ row.status \in Ends
    BY <1>4
  <1>6. /\ runs' \in Seq(RunRows) /\ Len(runs') = Len(runs) /\ DOMAIN runs' = DOMAIN runs
        /\ \A n \in Indexes : runs'[n] = IF n = i THEN row ELSE runs[n]
    BY <1>2, <1>3, <1>5
  <1>7. Indexes' = Indexes
    BY <1>6 DEF Indexes
  <1>8. Active' \subseteq Active
    BY <1>2, <1>5, <1>6, <1>7 DEF Active, Ends
  <1>9. runs[i].status = "running"
    BY DEF Active
  <1>10. \A n \in Stopped' : n \in Stopped \/ n = i
    BY <1>6, <1>7 DEF Stopped
  <1>11. \A n \in Stopped : n \in Stopped'
    BY <1>6, <1>7, <1>9 DEF Stopped
  <1> QED BY <1>2, <1>5, <1>6, <1>7, <1>8, <1>10, <1>11

-----------------------------------------------------------------------------
(* Only the newest run is ever running, and a wake run follows no other     *)
(* that stopped.                                                            *)
LEMMA RunsKept ==
  ASSUME runs \in Seq(RunRows), NewestOnly, WakesHeedStops, RunMove
  PROVE  /\ runs' \in Seq(RunRows) /\ NewestOnly' /\ WakesHeedStops'
  <1>1. CASE runs' = runs
    BY <1>1 DEF NewestOnly, WakesHeedStops, Active, Stopped, Indexes
  <1>2. CASE Starts
    <2>1. NewestOnly' /\ runs' \in Seq(RunRows)
      BY <1>2, Started DEF NewestOnly
    <2>2. Indexes = 1 .. Len(runs) /\ Len(runs) \in Nat
      BY DEF Indexes
    <2> SUFFICES ASSUME NEW i \in Indexes', runs'[i].trigger = "wake", i > 1,
                        runs'[i - 1].trigger = "wake", ~runs'[i - 1].steered, i - 1 \in Stopped'
                 PROVE  FALSE
      BY <2>1 DEF WakesHeedStops
    <2>3. i \in 1 .. Len(runs) + 1 /\ i - 1 \in Indexes /\ i - 1 \in Stopped
      BY <1>2, <2>2, Started
    <2>4. runs'[i - 1] = runs[i - 1]
      BY <1>2, <2>3, Started
    <2>5. CASE i = Len(runs) + 1
      <3>1. PICK t \in Triggers : runs' = NewRun(t) /\ (t = "wake" => ~ChainOver)
        BY <1>2 DEF Starts
      <3>2. runs'[i].trigger = t
        BY <2>2, <2>5, <3>1 DEF NewRun
      <3>3. ~ChainOver
        BY <3>1, <3>2
      <3>4. InChain(i - 1) /\ i - 1 = Len(runs)
        BY <2>2, <2>4, <2>5 DEF InChain
      <3> QED BY <2>3, <3>3, <3>4 DEF ChainOver, Chain
    <2>6. CASE i # Len(runs) + 1
      <3>1. i \in Indexes
        BY <2>2, <2>3, <2>6
      <3>2. runs'[i] = runs[i]
        BY <1>2, <3>1, Started
      <3> QED BY <2>3, <2>4, <3>1, <3>2 DEF WakesHeedStops
    <2> QED BY <2>5, <2>6
  <1>3. CASE Steers \/ EndsOne
    <2>1. NewestOnly' /\ runs' \in Seq(RunRows)
      BY <1>3, Changed DEF NewestOnly
    <2>2. Indexes = 1 .. Len(runs) /\ Len(runs) \in Nat
      BY DEF Indexes
    <2> SUFFICES ASSUME NEW i \in Indexes', runs'[i].trigger = "wake", i > 1,
                        runs'[i - 1].trigger = "wake", ~runs'[i - 1].steered, i - 1 \in Stopped'
                 PROVE  FALSE
      BY <2>1 DEF WakesHeedStops
    <2>3. i \in Indexes /\ i - 1 \in Indexes /\ i - 1 # Len(runs)
      BY <1>3, <2>2, Changed
    <2>4. runs'[i - 1] = runs[i - 1] /\ runs'[i].trigger = runs[i].trigger /\ i - 1 \in Stopped
      BY <1>3, <2>3, Changed
    <2> QED BY <2>3, <2>4 DEF WakesHeedStops
  <1> QED BY <1>1, <1>2, <1>3 DEF RunMove

-----------------------------------------------------------------------------
LEMMA Lengths ==
  ASSUME runs \in Seq(RunRows)
  PROVE  Indexes = 1 .. Len(runs) /\ Len(runs) \in Nat
  BY DEF Indexes

(* settleGoalLocked counts an ended run; a goal that then still goes on was *)
(* not stopped by it.                                                       *)
LEMMA Settling ==
  ASSUME Shape, Counted, Heeds, NEW i \in Indexes
  PROVE  /\ Settled(i) \in GoalRows
         /\ Settled(i).since = goal.since
         /\ Settled(i).last <= Len(runs) /\ Settled(i).last \notin Active
         /\ (Settled(i).status = "active" /\ Settled(i).last \in Stopped)
               => Settled(i).last <= goal.since \/ Settled(i).last \in resumed
         /\ (Settled(i).status = "active" /\ i \in Stopped) => i <= goal.since \/ i \in resumed
  <1> DEFINE mine   == runs[i].trigger = "goal"
             used   == IF mine THEN goal.used + 1 ELSE goal.used
             pauses == i \in Stopped \/ used >= GoalRuns
             stays  == \/ goal.status = "none" \/ i \in Active \/ i = goal.last \/ i <= goal.since
                       \/ goal.status # "active" /\ ~mine
             new    == [goal EXCEPT !.last = i, !.used = used,
                                    !.status = IF @ = "active" /\ pauses THEN "paused" ELSE @]
  <1>1. Settled(i) = IF stays THEN goal ELSE new
    BY DEF Settled
  <1>2. i \in 1 .. Len(runs) /\ Len(runs) \in Nat
    BY Lengths DEF Shape
  <1>3. i \in Stopped => i \notin Active
    BY DEF Stopped, Active
  <1>4. CASE stays
    BY <1>1, <1>3, <1>4 DEF Shape, Counted, Heeds
  <1>5. CASE ~stays
    <2>1. used \in Nat
      BY DEF Shape, GoalRows
    <2> HIDE DEF used, pauses
    <2>2. PICK s \in {"none", "active", "paused", "blocked", "complete"} :
             new = [goal EXCEPT !.last = i, !.used = used, !.status = s] /\ (s = "active" => ~pauses)
      BY DEF Shape, GoalRows
    <2> HIDE DEF new
    <2>4. /\ new \in GoalRows /\ new.since = goal.since /\ new.last = i
          /\ new.status = "active" => ~pauses
      <3>1. goal \in GoalRows /\ i \in Nat
        BY <1>2 DEF Shape
      <3>2. new = [status |-> s, used |-> used, last |-> i, since |-> goal.since]
        BY <2>2, <3>1 DEF GoalRows
      <3> QED BY <2>1, <2>2, <3>1, <3>2 DEF GoalRows
    <2> USE DEF new, pauses
    <2>3. i \notin Active
      BY <1>5
    <2> QED BY <1>1, <1>2, <1>5, <2>4, <2>3
  <1> QED BY <1>4, <1>5

(* Whatever the runs do, a goal left alone stays as it was. *)
LEMMA GoalStays ==
  ASSUME WorkInv, RunMove, UNCHANGED <<goal, resumed>>
  PROVE  Counted' /\ Heeds'
  <1>1. goal.last \in Nat /\ Len(runs) \in Nat
    BY Lengths DEF WorkInv, Shape, GoalRows
  <1>2. CASE runs' = runs
    BY <1>2 DEF WorkInv, Counted, Heeds, Active, Stopped, Indexes
  <1>3. CASE Starts
    BY <1>1, <1>3, Started DEF WorkInv, Shape, Counted, Heeds
  <1>4. CASE Steers \/ EndsOne
    BY <1>1, <1>4, Changed DEF WorkInv, Shape, Counted, Heeds
  <1> QED BY <1>2, <1>3, <1>4 DEF RunMove

LEMMA GoalKept ==
  ASSUME WorkInv, [Next]_vars
  PROVE  goal' \in GoalRows /\ Counted' /\ Heeds'
  <1>1. RunMove /\ Indexes = 1 .. Len(runs) /\ Len(runs) \in Nat /\ goal \in GoalRows
    BY RunMoves, Lengths DEF WorkInv, Shape
  <1>2. CASE UNCHANGED <<goal, resumed>>
    BY <1>1, <1>2, GoalStays
  <1>3. CASE SetGoal \/ Clear
    <2>3. NoGoal \in GoalRows /\ NoGoal.last = 0
      BY DEF NoGoal, GoalRows
    <2>4. NewGoal(Len(runs)) \in GoalRows /\ NewGoal(Len(runs)).last = 0
      BY <1>1, <2>3 DEF NewGoal, GoalRows
    <2>1. goal' \in GoalRows /\ goal'.last = 0 /\ runs' = runs
      BY <1>3, <2>3, <2>4 DEF SetGoal, Clear, Order
    <2>2. 0 \notin Active' /\ 0 \notin Stopped'
      BY <1>1, <2>1 DEF Active, Stopped, Indexes
    <2> QED BY <1>1, <2>1, <2>2 DEF Counted, Heeds
  <1>4. CASE Pause \/ \E i \in Indexes : UpdateGoal(i)
    <2>1. PICK s \in {"paused", "complete", "blocked"} : goal' = [goal EXCEPT !.status = s] /\ runs' = runs
      BY <1>4 DEF Pause, UpdateGoal, Order
    <2>2. goal' \in GoalRows /\ goal'.last = goal.last /\ goal'.status # "active"
      BY <1>1, <2>1 DEF GoalRows
    <2> QED BY <2>1, <2>2 DEF WorkInv, Counted, Heeds, Active, Indexes
  <1>5. CASE Resume
    <2>1. /\ goal' = [goal EXCEPT !.status = "active", !.used = IF @ >= GoalRuns THEN 0 ELSE @]
          /\ runs' = runs /\ resumed' = Indexes \ Active
      BY <1>5 DEF Resume, Order
    <2>2. goal' \in GoalRows /\ goal'.last = goal.last
      BY <1>1, <2>1 DEF GoalRows
    <2>3. Active' = Active /\ Stopped' = Stopped /\ Stopped \subseteq Indexes \ Active
      BY <2>1 DEF Active, Stopped, Indexes
    <2> QED BY <2>1, <2>2, <2>3 DEF WorkInv, Counted, Heeds
  <1>6. ASSUME NEW j \in jobs, Settle(j) PROVE goal' \in GoalRows /\ Counted' /\ Heeds'
    <2>1. j.of \in Indexes /\ goal' = Settled(j.of) /\ UNCHANGED <<runs, resumed>>
      BY <1>6 DEF Settle, WorkInv, Shape, user
    <2>2. Active' = Active /\ Stopped' = Stopped
      BY <2>1 DEF Active, Stopped, Indexes
    <2> QED BY <2>1, <2>2, Settling DEF WorkInv, Counted, Heeds
  <1>7. ASSUME NEW j \in jobs, ContinueGoal(j) PROVE goal' \in GoalRows /\ Counted' /\ Heeds'
    <2>1. CASE goal' = goal
      BY <1>1, <1>7, <2>1, GoalStays DEF ContinueGoal
    <2>2. CASE goal' # goal
      <3>1. /\ Active = {} /\ resumed' = resumed
            /\ runs # <<>> /\ goal' = Settled(Len(runs))
            /\ runs' = runs \/ runs' = NewRun("goal")
        BY <1>7, <2>2 DEF ContinueGoal, Start, Idle
      <3>2. Len(runs) \in Indexes
        BY <1>1, <3>1 DEF WorkInv, Shape
      <3>3. CASE runs' = runs
        <4>1. Active' = Active /\ Stopped' = Stopped
          BY <3>3 DEF Active, Stopped, Indexes
        <4> QED BY <3>1, <3>2, <3>3, <4>1, Settling DEF WorkInv, Counted, Heeds
      <3>4. CASE runs' = NewRun("goal")
        <4>1. Starts
          BY <3>1, <3>4 DEF Starts, Triggers
        <4>2. Active' = {Len(runs) + 1} /\ Stopped' = Stopped /\ Len(runs') = Len(runs) + 1
          BY <4>1, Started DEF WorkInv, Shape
        <4>3. goal'.last \in Nat
          BY <3>1, <3>2, Settling DEF WorkInv, GoalRows
        <4> QED BY <1>1, <3>1, <3>2, <4>2, <4>3, Settling DEF WorkInv, Counted, Heeds
      <3> QED BY <3>1, <3>3, <3>4
    <2> QED BY <2>1, <2>2
  <1>8. CASE Send \/ Crash \/ Boot \/ UNCHANGED vars
    BY <1>2, <1>8 DEF Send, Crash, Boot, vars, user
  <1>9. ASSUME NEW j \in jobs, Look(j) \/ NextMessage(j) \/ WakeSession(j)
        PROVE  UNCHANGED <<goal, resumed>>
    BY <1>9 DEF Look, NextMessage, WakeSession, user
  <1>14. ASSUME NEW j \in jobs, DropJob(j) PROVE UNCHANGED <<goal, resumed>>
    BY <1>14 DEF DropJob
  <1>10. ASSUME NEW t \in Tasks, EndTask(t) \/ WriteNote(t) \/ MarkDelivered(t)
         PROVE  UNCHANGED <<goal, resumed>>
    BY <1>10 DEF EndTask, WriteNote, MarkDelivered, user
  <1>11. ASSUME NEW i \in Indexes, EndRun(i) \/ CancelRun(i) \/ TakeSteers(i) \/ ReadEvents(i)
         PROVE  UNCHANGED <<goal, resumed>>
    BY <1>11 DEF EndRun, CancelRun, TakeSteers, ReadEvents, user
  <1>12. ASSUME NEW i \in Indexes, NEW t \in Tasks, StartTask(i, t) PROVE UNCHANGED <<goal, resumed>>
    BY <1>12 DEF StartTask, user
  <1>13. ASSUME NEW r \in readers, (\E t \in Tasks : NoteEvent(r, t)) \/ ConsumeEvent(r) \/ StopReading(r)
         PROVE  UNCHANGED <<goal, resumed>>
    BY <1>13 DEF NoteEvent, ConsumeEvent, StopReading, user
  <1> QED BY <1>2, <1>3, <1>4, <1>5, <1>6, <1>7, <1>8, <1>9, <1>10, <1>11, <1>12, <1>13, <1>14
          DEF Next, Work, JobStep

(* Only what follows the end of a run is to settle it. *)
LEMMA JobsKept ==
  ASSUME WorkInv, [Next]_vars
  PROVE  \A j \in jobs' : j.pc = "settle" => j.of \in Indexes'
  <1>1. Indexes \subseteq Indexes'
    BY RunMoves, Started, Changed, Lengths DEF WorkInv, Shape, RunMove, Indexes
  <1>2. ASSUME \A k \in jobs' : k \in jobs \/ k.pc # "settle" \/ k.of \in Indexes
        PROVE  \A j \in jobs' : j.pc = "settle" => j.of \in Indexes'
    BY <1>1, <1>2 DEF WorkInv, Shape
  <1>3. CASE UNCHANGED jobs
    BY <1>2, <1>3
  <1>4. ASSUME NEW j \in jobs, JobStep(j) PROVE \A k \in jobs' : k \in jobs \/ k.pc # "settle"
    <2>1. CASE jobs' = jobs \ {j}
      BY <2>1
    <2>2. ASSUME NEW l \in {"wake", "next", "goal"}, jobs' = Then(j, l)
          PROVE  \A k \in jobs' : k \in jobs \/ k.pc # "settle"
      <3>1. \A k \in jobs' : k \in jobs \/ k = [j EXCEPT !.pc = l]
        BY <2>2 DEF Then
      <3>2. [j EXCEPT !.pc = l].pc # "settle" \/ [j EXCEPT !.pc = l] = j
        OBVIOUS
      <3> QED BY <3>1, <3>2
    <2> QED BY <1>4, <2>1, <2>2 DEF JobStep, Look, Settle, NextMessage, WakeSession, ContinueGoal, AfterWake
  <1>5. ASSUME NEW i \in Indexes, EndRun(i) \/ CancelRun(i)
        PROVE  \A k \in jobs' : k \in jobs \/ k.of \in Indexes
    BY <1>5 DEF EndRun, CancelRun, AddJobs, Job
  <1>6. CASE SetGoal \/ Resume
    BY <1>2, <1>6 DEF SetGoal, Resume, AddJobs, Job
  <1>7. ASSUME NEW t \in Tasks, EndTask(t) PROVE \A k \in jobs' : k \in jobs \/ k.pc # "settle"
    BY <1>7 DEF EndTask, AddJobs, Job
  <1>8. CASE Crash \/ Boot
    BY <1>2, <1>8 DEF Crash, Boot, Job
  <1>9. CASE Send \/ Pause \/ Clear \/ UNCHANGED vars
    BY <1>3, <1>9 DEF Send, Pause, Clear, vars
  <1>14. ASSUME NEW j \in jobs, DropJob(j) PROVE jobs' \subseteq jobs
    BY <1>14 DEF DropJob
  <1>10. ASSUME NEW t \in Tasks, WriteNote(t) \/ MarkDelivered(t) PROVE UNCHANGED jobs
    BY <1>10 DEF WriteNote, MarkDelivered
  <1>11. ASSUME NEW i \in Indexes, TakeSteers(i) \/ ReadEvents(i) \/ UpdateGoal(i) PROVE UNCHANGED jobs
    BY <1>11 DEF TakeSteers, ReadEvents, UpdateGoal
  <1>12. ASSUME NEW i \in Indexes, NEW t \in Tasks, StartTask(i, t) PROVE UNCHANGED jobs
    BY <1>12 DEF StartTask
  <1>13. ASSUME NEW r \in readers, (\E t \in Tasks : NoteEvent(r, t)) \/ ConsumeEvent(r) \/ StopReading(r)
         PROVE  UNCHANGED jobs
    BY <1>13 DEF NoteEvent, ConsumeEvent, StopReading
  <1> QED BY <1>2, <1>3, <1>4, <1>5, <1>6, <1>7, <1>8, <1>9, <1>10, <1>11, <1>12, <1>13, <1>14 DEF Next, Work

LEMMA InitWork == Init => WorkInv
  <1> SUFFICES ASSUME Init PROVE WorkInv
    OBVIOUS
  <1>1. [trigger |-> "user", status |-> "running", steered |-> FALSE] \in RunRows
    BY DEF RunRows, Triggers
  <1>2. runs \in Seq(RunRows) /\ Len(runs) = 1 /\ Indexes = {1} /\ runs[1].status = "running" /\ runs[1].trigger = "user"
    BY <1>1 DEF Init, Indexes
  <1>3. goal \in GoalRows /\ goal.last = 0
    BY DEF Init, NewGoal, NoGoal, GoalRows
  <1> QED BY <1>2, <1>3 DEF Init, WorkInv, Shape, NewestOnly, Counted, Heeds, WakesHeedStops, Active, Stopped

LEMMA NextWork == WorkInv /\ [Next]_vars => WorkInv'
  BY RunMoves, RunsKept, GoalKept, JobsKept DEF WorkInv, Shape

(* The runs, the goal and what is to be settled agree at every step. *)
THEOREM WorkKept == Spec => []WorkInv
  BY InitWork, NextWork, PTL DEF Spec

(* A wake run never follows one that failed or was canceled, for any chains, *)
(* messages and crashes.                                                     *)
THEOREM WakesStop == Spec => []WakesHeedStops
  <1>1. WorkInv => WakesHeedStops
    BY DEF WorkInv
  <1> QED BY <1>1, WorkKept, PTL

(* The newest wake runs in a row that no message reached. *)
WakesAreFew == Cardinality(Chain) <= WakeChain

LEMMA ChainKept ==
  ASSUME WorkInv, WakesAreFew, [Next]_vars
  PROVE  WakesAreFew'
  <1>1. /\ Indexes = 1 .. Len(runs) /\ Len(runs) \in Nat /\ runs \in Seq(RunRows) /\ NewestOnly
        /\ WakeChain \in Nat \ {0}
    BY Lengths, LimitAssumption DEF WorkInv, Shape
  <1>2. IsFiniteSet(Chain) /\ Cardinality(Chain) \in Nat
    <2>1. IsFiniteSet(1 .. Len(runs)) /\ Chain \subseteq 1 .. Len(runs)
      BY <1>1, FS_Interval DEF Chain
    <2>2. IsFiniteSet(Chain)
      BY <2>1, FS_Subset
    <2> QED BY <2>2, FS_CardinalityType
  <1>3. ASSUME Chain' \subseteq Chain PROVE WakesAreFew'
    <2>1. Cardinality(Chain') <= Cardinality(Chain) /\ Cardinality(Chain') \in Nat
      BY <1>2, <1>3, FS_Subset, FS_CardinalityType
    <2> QED BY <1>1, <1>2, <2>1 DEF WakesAreFew
  <1>4. CASE runs' = runs
    BY <1>3, <1>4 DEF Chain, InChain, Indexes
  <1>5. CASE Starts
    <2>1. /\ Indexes' = 1 .. Len(runs) + 1 /\ Len(runs') = Len(runs) + 1
          /\ \A k \in Indexes : runs'[k] = runs[k]
      BY <1>1, <1>5, Started
    <2>2. Chain' \subseteq Chain \union {Len(runs) + 1}
      BY <1>1, <2>1 DEF Chain, InChain
    <2>3. Chain # {} => Len(runs) \in Chain
      BY <1>1 DEF Chain, InChain
    <2>4. PICK t \in Triggers : runs' = NewRun(t) /\ (t = "wake" => ~ChainOver)
      BY <1>5 DEF Starts
    <2>5. CASE t # "wake"
      <3>1. runs'[Len(runs) + 1].trigger # "wake"
        BY <1>1, <2>4, <2>5 DEF NewRun
      <3>2. Chain' = {}
        BY <1>1, <2>1, <3>1 DEF Chain, InChain
      <3> QED BY <1>3, <3>2
    <2>6. CASE t = "wake"
      <3>1. Cardinality(Chain) < WakeChain
        <4>1. CASE Chain = {}
          BY <1>1, <4>1, FS_EmptySet
        <4>2. CASE Chain # {}
          BY <1>1, <1>2, <2>3, <2>4, <2>6, <4>2 DEF ChainOver
        <4> QED BY <4>1, <4>2
      <3>2. /\ IsFiniteSet(Chain \union {Len(runs) + 1})
            /\ Cardinality(Chain \union {Len(runs) + 1}) <= Cardinality(Chain) + 1
            /\ Cardinality(Chain \union {Len(runs) + 1}) \in Nat
        <4>1. IsFiniteSet(Chain \union {Len(runs) + 1})
          BY <1>2, FS_AddElement
        <4> QED BY <1>2, <4>1, FS_AddElement, FS_CardinalityType
      <3>3. Cardinality(Chain') <= Cardinality(Chain \union {Len(runs) + 1}) /\ Cardinality(Chain') \in Nat
        BY <2>2, <3>2, FS_Subset, FS_CardinalityType
      <3> QED BY <1>1, <1>2, <3>1, <3>2, <3>3 DEF WakesAreFew
    <2> QED BY <2>5, <2>6
  <1>6. CASE Steers
    <2>1. PICK i \in Active, b \in BOOLEAN :
             b = (runs[i].trigger = "wake") /\ runs' = [runs EXCEPT ![i].steered = b]
      BY <1>6 DEF Steers
    <2>2. /\ Indexes' = Indexes /\ Len(runs') = Len(runs)
          /\ \A k \in Indexes : /\ runs'[k].trigger = runs[k].trigger
                                /\ runs'[k].steered = IF k = i THEN b ELSE runs[k].steered
      BY <1>1, <2>1 DEF Indexes, RunRows, Active
    <2>3. \A k \in Indexes : (runs'[k].trigger = "wake" /\ ~runs'[k].steered) => ~runs[k].steered
      BY <2>1, <2>2
    <2>4. Chain' \subseteq Chain
      BY <1>1, <2>2, <2>3 DEF Chain, InChain
    <2> QED BY <1>3, <2>4
  <1>7. CASE EndsOne
    <2>1. PICK i \in Active, s \in Ends : runs' = [runs EXCEPT ![i].status = s]
      BY <1>7 DEF EndsOne
    <2>2. /\ Indexes' = Indexes /\ Len(runs') = Len(runs)
          /\ \A k \in Indexes : runs'[k].trigger = runs[k].trigger /\ runs'[k].steered = runs[k].steered
      BY <1>1, <2>1 DEF Indexes, RunRows
    <2>3. Chain' \subseteq Chain
      BY <1>1, <2>2 DEF Chain, InChain
    <2> QED BY <1>3, <2>3
  <1> QED BY <1>4, <1>5, <1>6, <1>7, RunMoves DEF RunMove

(* A session left to itself starts at most WakeChain wake runs in a row.    *)
THEOREM ChainIsBounded == Spec => []WakesAreFew
  <1>1. Init => WakesAreFew
    <2> SUFFICES ASSUME Init PROVE WakesAreFew
      OBVIOUS
    <2>1. Len(runs) = 1 /\ Indexes = {1} /\ runs[1].trigger = "user"
      BY DEF Init, Indexes
    <2>2. Chain = {}
      BY <2>1 DEF Chain, InChain
    <2> QED BY <2>2, FS_EmptySet, LimitAssumption DEF WakesAreFew
  <1>2. WorkInv /\ WakesAreFew /\ [Next]_vars => WakesAreFew'
    BY ChainKept
  <1> QED BY <1>1, <1>2, WorkKept, PTL DEF Spec

(* A goal's run never follows one that failed or was canceled under it,     *)
(* unless the user resumed the goal since.                                  *)
THEOREM GoalStops == Spec => GoalHeedsStop
  <1> DEFINE Heeding == \A n \in {Len(runs')} :
                           (n > Len(runs) /\ runs'[n].trigger = "goal" /\ n - 1 \in Stopped)
                               => n - 1 <= goal.since \/ n - 1 \in resumed
  <1>1. WorkInv /\ [Next]_vars => [Heeding]_vars
    <2> SUFFICES ASSUME WorkInv, [Next]_vars, Len(runs') > Len(runs),
                        runs'[Len(runs')].trigger = "goal", Len(runs') - 1 \in Stopped
                 PROVE  Len(runs') - 1 <= goal.since \/ Len(runs') - 1 \in resumed
      OBVIOUS
    <2>1. Indexes = 1 .. Len(runs) /\ Len(runs) \in Nat /\ runs \in Seq(RunRows) /\ NewestOnly
      BY Lengths DEF WorkInv, Shape
    <2>2. Starts
      BY <2>1, RunMoves, Changed DEF RunMove
    <2>3. Len(runs') = Len(runs) + 1 /\ runs' # runs
      BY <2>1, <2>2, Started
    <2>4. \A t \in {"user", "wake"} : runs' # NewRun(t)
      <3> SUFFICES ASSUME NEW t \in {"user", "wake"}, runs' = NewRun(t) PROVE FALSE
        OBVIOUS
      <3>1. runs'[Len(runs) + 1] = [trigger |-> t, status |-> "running", steered |-> FALSE]
        BY <2>1 DEF NewRun
      <3> QED BY <2>3, <3>1
    <2>5. \E j \in jobs : ContinueGoal(j)
      <3>1. ASSUME NEW j \in jobs, JobStep(j), ~ContinueGoal(j) PROVE FALSE
        BY <3>1, <2>3, <2>4 DEF JobStep, Look, Settle, NextMessage, WakeSession, Start
      <3>2. ASSUME NEW i \in Indexes, EndRun(i) \/ CancelRun(i) PROVE FALSE
        BY <3>2, <2>1, <2>3 DEF EndRun, CancelRun
      <3>3. CASE Send
        BY <3>3, <2>3, <2>4 DEF Send, Start
      <3>4. ASSUME runs' = runs PROVE FALSE
        BY <3>4, <2>3
      <3>5. CASE SetGoal \/ Pause \/ Resume \/ Clear
        BY <3>4, <3>5 DEF SetGoal, Pause, Resume, Clear, Order
      <3>6. ASSUME NEW i \in Indexes, ReadEvents(i) \/ UpdateGoal(i) PROVE FALSE
        BY <3>4, <3>6 DEF ReadEvents, UpdateGoal
      <3>7. ASSUME NEW i \in Indexes, NEW t \in Tasks, StartTask(i, t) PROVE FALSE
        BY <3>4, <3>7 DEF StartTask
      <3>8. ASSUME NEW t \in Tasks, EndTask(t) \/ WriteNote(t) \/ MarkDelivered(t) PROVE FALSE
        BY <3>4, <3>8 DEF EndTask, WriteNote, MarkDelivered
      <3>9. ASSUME NEW r \in readers, (\E t \in Tasks : NoteEvent(r, t)) \/ ConsumeEvent(r) \/ StopReading(r)
            PROVE  FALSE
        BY <3>4, <3>9 DEF NoteEvent, ConsumeEvent, StopReading
      <3>11. ASSUME NEW i \in Indexes, TakeSteers(i) PROVE FALSE
        BY <3>11, <2>1, <2>3 DEF TakeSteers
      <3>12. ASSUME NEW j \in jobs, DropJob(j) PROVE FALSE
        BY <3>4, <3>12 DEF DropJob
      <3>10. CASE Boot \/ Crash \/ UNCHANGED vars
        BY <3>4, <3>10 DEF Boot, Crash, vars
      <3> QED BY <3>1, <3>2, <3>3, <3>5, <3>6, <3>7, <3>8, <3>9, <3>10, <3>11, <3>12 DEF Next, Work
    <2>6. PICK j \in jobs : ContinueGoal(j)
      BY <2>5
    <2>7. Len(runs) \in Stopped /\ runs # <<>>
      BY <2>1, <2>3 DEF Stopped
    <2>8. goal' = Settled(Len(runs)) /\ goal'.status = "active"
      BY <2>3, <2>6, <2>7 DEF ContinueGoal, Start
    <2>9. Len(runs) \in Indexes
      BY <2>7 DEF Stopped
    <2>10. Len(runs) <= goal.since \/ Len(runs) \in resumed
      BY <2>7, <2>8, <2>9, Settling DEF WorkInv
    <2> QED BY <2>1, <2>3, <2>10
  <1> QED BY <1>1, WorkKept, PTL DEF Spec, GoalHeedsStop

-----------------------------------------------------------------------------
(* Each run reads ends once at a time, and a wake run writes one note at a  *)
(* time.                                                                    *)
Readers == [run : Indexes, left : SUBSET Tasks, noted : SUBSET Tasks]

Reading ==
    /\ told \in [Tasks -> Nat] /\ crashes \in Nat
    /\ readers \subseteq Readers
    /\ \A r, s \in readers : r.run = s.run => r = s
    /\ written = {} \/ \E t \in Tasks : written = {t}

(* The notes of an end: written, and still to be written by a run reading   *)
(* or by the one that woke for it.  The only one to go on without a crash   *)
(* or a cancellation is the one that claims the end.                        *)
Pending(t) == {i \in Indexes : \E r \in readers : r.run = i /\ t \in r.left \ r.noted}
Claimed(t) == t \in delivered \/ t \in notes \/ \E r \in readers : r.run \in Active /\ t \in r.left
Bit(b)     == IF b THEN 1 ELSE 0
Spent(t)   == told[t] + Cardinality(Pending(t)) + Bit(t \in notes \ written)
Allowed(t) == crashes + Cardinality(Canceled) + Bit(Claimed(t))

Balance == \A t \in Tasks : Spent(t) <= Allowed(t)

LEMMA Small ==
  ASSUME NEW n \in Nat, NEW S, S \subseteq 1 .. n
  PROVE  IsFiniteSet(S) /\ Cardinality(S) \in Nat
  <1>1. IsFiniteSet(1 .. n)
    BY FS_Interval
  <1>2. IsFiniteSet(S)
    BY <1>1, FS_Subset
  <1> QED BY <1>2, FS_CardinalityType

LEMMA ReadingKept ==
  ASSUME WorkInv, Reading, [Next]_vars
  PROVE  Reading'
  <1>1. Indexes \subseteq Indexes'
    BY RunMoves, Started, Changed, Lengths DEF WorkInv, Shape, RunMove, Indexes
  <1>2. CASE UNCHANGED <<told, readers, written, crashes>>
    BY <1>1, <1>2 DEF Reading, Readers
  <1>3. ASSUME NEW i \in Indexes, ReadEvents(i) PROVE Reading'
    <2> DEFINE new == [run |-> i, left |-> Events, noted |-> {}]
    <2>1. /\ readers' = readers \union {new} /\ UNCHANGED <<told, written, crashes>>
          /\ \A r \in readers : r.run # i
      BY <1>3 DEF ReadEvents, Stepping, work
    <2>2. new \in Readers /\ new.run = i
      BY DEF Events, Readers
    <2> HIDE DEF new
    <2> QED BY <1>1, <2>1, <2>2 DEF Reading, Readers
  <1>4. ASSUME NEW r \in readers, NEW t \in Tasks, NoteEvent(r, t) PROVE Reading'
    <2>1. [r EXCEPT !.noted = {t}] \in Readers /\ [r EXCEPT !.noted = {t}].run = r.run
      BY DEF Reading, Readers
    <2>2. told' \in [Tasks -> Nat]
      BY <1>4 DEF NoteEvent, Reading
    <2>3. /\ readers' = (readers \ {r}) \union {[r EXCEPT !.noted = {t}]}
          /\ UNCHANGED <<written, crashes>>
      BY <1>4 DEF NoteEvent
    <2> QED BY <1>1, <2>1, <2>2, <2>3 DEF Reading, Readers
  <1>5. ASSUME NEW r \in readers, ConsumeEvent(r) PROVE Reading'
    <2> DEFINE s == [r EXCEPT !.left = r.left \ r.noted, !.noted = {}]
    <2>1. s \in Readers /\ s.run = r.run
      BY DEF Reading, Readers
    <2>2. readers' \subseteq (readers \ {r}) \union {s}
      BY <1>5 DEF ConsumeEvent
    <2>3. UNCHANGED <<told, written, crashes>>
      BY <1>5 DEF ConsumeEvent
    <2> QED BY <1>1, <2>1, <2>2, <2>3 DEF Reading, Readers
  <1>6. ASSUME NEW r \in readers, StopReading(r) PROVE Reading'
    BY <1>1, <1>6 DEF StopReading, Reading, Readers, work, wakes
  <1>7. ASSUME NEW t \in Tasks, WriteNote(t) \/ MarkDelivered(t) PROVE Reading'
    BY <1>1, <1>7 DEF WriteNote, MarkDelivered, Reading, Readers
  <1>8. CASE Crash
    BY <1>8 DEF Crash, Reading, work
  <1>9. CASE Send \/ SetGoal \/ Pause \/ Resume \/ Clear \/ Boot \/ UNCHANGED vars
    BY <1>2, <1>9 DEF Send, SetGoal, Pause, Resume, Clear, Order, Boot, vars, work, wakes
  <1>10. ASSUME NEW i \in Indexes, EndRun(i) \/ CancelRun(i) \/ TakeSteers(i) \/ UpdateGoal(i)
         PROVE  UNCHANGED <<told, readers, written, crashes>>
    BY <1>10 DEF EndRun, CancelRun, TakeSteers, UpdateGoal, work, wakes
  <1>14. ASSUME NEW j \in jobs, DropJob(j) PROVE UNCHANGED <<told, readers, written, crashes>>
    BY <1>14 DEF DropJob, work, wakes
  <1>11. ASSUME NEW i \in Indexes, NEW t \in Tasks, StartTask(i, t)
         PROVE  UNCHANGED <<told, readers, written, crashes>>
    BY <1>11 DEF StartTask, wakes
  <1>12. ASSUME NEW t \in Tasks, EndTask(t) PROVE UNCHANGED <<told, readers, written, crashes>>
    BY <1>12 DEF EndTask, wakes
  <1>13. ASSUME NEW j \in jobs, JobStep(j) PROVE UNCHANGED <<told, readers, written, crashes>>
    BY <1>13 DEF JobStep, Look, Settle, NextMessage, WakeSession, ContinueGoal, work, wakes
  <1> QED BY <1>2, <1>3, <1>4, <1>5, <1>6, <1>7, <1>8, <1>9, <1>10, <1>11, <1>12, <1>13, <1>14 DEF Next, Work

(* What a step that tells nothing makes of the runs: it may cancel one, and *)
(* then that run no longer claims an end.                                   *)
LEMMA RunsBalanced ==
  ASSUME WorkInv, Reading, Balance, [Next]_vars, UNCHANGED <<told, delivered, notes, written, readers, crashes>>
  PROVE  Balance'
  <1> SUFFICES ASSUME NEW t \in Tasks PROVE Spent(t)' <= Allowed(t)'
    BY DEF Balance
  <1>1. /\ Indexes = 1 .. Len(runs) /\ Len(runs) \in Nat /\ runs \in Seq(RunRows) /\ NewestOnly
        /\ \A r \in readers : r.run \in Indexes
    BY Lengths DEF WorkInv, Shape, Reading, Readers
  <1>2. /\ IsFiniteSet(Canceled) /\ Cardinality(Canceled) \in Nat
        /\ Cardinality(Pending(t)) \in Nat
    BY <1>1, Small DEF Canceled, Pending
  <1>3. told[t] \in Nat /\ crashes \in Nat /\ Spent(t) <= Allowed(t)
    BY DEF Reading, Balance
  <1>4. Indexes \subseteq Indexes' => Pending(t)' = Pending(t)
    BY <1>1 DEF Pending
  <1>5. ASSUME Indexes \subseteq Indexes', Canceled' = Canceled,
               \A r \in readers : r.run \in Active => r.run \in Active'
        PROVE  Spent(t)' <= Allowed(t)'
    <2>1. Claimed(t) => Claimed(t)'
      BY <1>5 DEF Claimed
    <2> QED BY <1>2, <1>3, <1>4, <1>5, <2>1 DEF Spent, Allowed, Bit
  <1>6. CASE runs' = runs
    BY <1>5, <1>6 DEF Indexes, Canceled, Active
  <1>7. CASE Starts
    <2>1. Canceled' = Canceled
      BY <1>1, <1>7, Started DEF Canceled
    <2> QED BY <1>1, <1>5, <1>7, <2>1, Started DEF Starts
  <1>8. CASE Steers
    <2>1. PICK i \in Active, b \in BOOLEAN : runs' = [runs EXCEPT ![i].steered = b]
      BY <1>8 DEF Steers
    <2>2. Indexes' = Indexes /\ \A k \in Indexes : runs'[k].status = runs[k].status
      BY <1>1, <2>1 DEF Indexes, RunRows
    <2> QED BY <1>5, <2>2 DEF Canceled, Active
  <1>9. ASSUME NEW i \in Indexes, NEW s \in Ends, i \in Active, runs' = [runs EXCEPT ![i].status = s]
        PROVE  /\ Indexes' = Indexes /\ Active' = Active \ {i} /\ i \notin Canceled
               /\ Canceled' = IF s = "canceled" THEN Canceled \union {i} ELSE Canceled
    <2>1. Indexes' = Indexes /\ \A k \in Indexes : runs'[k].status = IF k = i THEN s ELSE runs[k].status
      BY <1>1, <1>9 DEF Indexes, RunRows
    <2> QED BY <1>9, <2>1 DEF Canceled, Active, Ends
  <1>10. ASSUME NEW i \in Indexes, EndRun(i) PROVE Spent(t)' <= Allowed(t)'
    <2>1. PICK s \in {"completed", "failed"} : runs' = [runs EXCEPT ![i].status = s]
      BY <1>10 DEF EndRun
    <2>2. i \in Active /\ \A r \in readers : r.run # i
      BY <1>10 DEF EndRun, Stepping
    <2> QED BY <1>5, <1>9, <2>1, <2>2 DEF Ends
  <1>11. ASSUME NEW i \in Indexes, CancelRun(i) PROVE Spent(t)' <= Allowed(t)'
    <2>1. i \in Active /\ runs' = [runs EXCEPT ![i].status = "canceled"]
      BY <1>11 DEF CancelRun
    <2>2. Indexes' = Indexes /\ Canceled' = Canceled \union {i} /\ i \notin Canceled
      BY <1>9, <2>1 DEF Ends
    <2>3. Cardinality(Canceled') = Cardinality(Canceled) + 1
      BY <1>2, <2>2, FS_AddElement
    <2> QED BY <1>2, <1>3, <1>4, <2>2, <2>3 DEF Spent, Allowed, Bit
  <1>12. (\E i \in Indexes : EndRun(i) \/ CancelRun(i)) \/ runs' = runs \/ Starts \/ Steers
    BY Moves DEF Move
  <1> QED BY <1>6, <1>7, <1>8, <1>10, <1>11, <1>12

LEMMA BalanceKept ==
  ASSUME WorkInv, Reading, Balance, [Next]_vars
  PROVE  Balance'
  <1> SUFFICES ASSUME NEW t \in Tasks PROVE Spent(t)' <= Allowed(t)'
    BY DEF Balance
  <1>1. /\ Indexes = 1 .. Len(runs) /\ Len(runs) \in Nat /\ runs \in Seq(RunRows) /\ NewestOnly
        /\ \A r \in readers : r.run \in Indexes /\ r.left \subseteq Tasks /\ r.noted \subseteq Tasks
        /\ \A r, s \in readers : r.run = s.run => r = s
    BY Lengths DEF WorkInv, Shape, Reading, Readers
  <1>2. /\ Cardinality(Canceled) \in Nat
        /\ IsFiniteSet(Pending(t)) /\ Cardinality(Pending(t)) \in Nat
    BY <1>1, Small DEF Canceled, Pending
  <1>3. /\ told \in [Tasks -> Nat] /\ crashes \in Nat /\ told[t] \in Nat
        /\ Spent(t) <= Allowed(t)
    BY DEF Reading, Balance
  <1>4. CASE UNCHANGED <<told, delivered, notes, written, readers, crashes>>
    BY <1>4, RunsBalanced DEF Balance
  <1>5. runs' = runs => Indexes' = Indexes /\ Canceled' = Canceled /\ Active' = Active
    BY DEF Indexes, Canceled, Active
  <1>6. ASSUME NEW i \in Indexes, ReadEvents(i) PROVE Spent(t)' <= Allowed(t)'
    <2> DEFINE new == [run |-> i, left |-> Events, noted |-> {}]
    <2>1. /\ readers' = readers \union {new} /\ UNCHANGED <<runs, told, delivered, notes, written, crashes>>
          /\ i \in Active /\ notes = {} /\ \A r \in readers : r.run # i
      BY <1>6 DEF ReadEvents, Stepping, FreeGate, work
    <2>2. Active = {i}
      BY <1>1, <2>1 DEF NewestOnly
    <2>5. new.run = i /\ new.left = Events /\ new.noted = {} /\ i \in Active'
      BY <1>5, <2>1
    <2> HIDE DEF new
    <2>3. CASE t \in Events
      <3>1. Pending(t)' = Pending(t) \union {i} /\ i \notin Pending(t)
        BY <1>5, <2>1, <2>3, <2>5 DEF Pending
      <3>2. Cardinality(Pending(t)') = Cardinality(Pending(t)) + 1
        BY <1>2, <3>1, FS_AddElement
      <3>3. ~Claimed(t)
        BY <2>1, <2>2, <2>3 DEF Claimed, Events
      <3>4. Claimed(t)'
        BY <2>1, <2>3, <2>5 DEF Claimed
      <3> QED BY <1>2, <1>3, <1>5, <2>1, <3>2, <3>3, <3>4 DEF Spent, Allowed, Bit
    <2>4. CASE t \notin Events
      <3>1. Pending(t)' = Pending(t)
        BY <1>5, <2>1, <2>4, <2>5 DEF Pending
      <3>2. Claimed(t)' = Claimed(t)
        BY <1>5, <2>1, <2>4, <2>5 DEF Claimed
      <3> QED BY <1>2, <1>3, <1>5, <2>1, <3>1, <3>2 DEF Spent, Allowed, Bit
    <2> QED BY <2>3, <2>4
  <1>7. ASSUME NEW r \in readers, NEW u \in Tasks, NoteEvent(r, u) PROVE Spent(t)' <= Allowed(t)'
    <2> DEFINE new == [r EXCEPT !.noted = {u}]
    <2>1. /\ r.noted = {} /\ u \in r.left /\ told' = [told EXCEPT ![u] = @ + 1]
          /\ readers' = (readers \ {r}) \union {new}
          /\ UNCHANGED <<runs, delivered, notes, written, crashes>>
      BY <1>7 DEF NoteEvent
    <2>2. new.run = r.run /\ new.left = r.left /\ new.noted = {u}
      BY DEF Reading, Readers
    <2> HIDE DEF new
    <2>3. Claimed(t)' = Claimed(t)
      BY <1>5, <2>1, <2>2 DEF Claimed
    <2>4. CASE t = u
      <3>1. r.run \in Pending(t)
        BY <1>1, <2>1, <2>4 DEF Pending
      <3>2. Pending(t)' = Pending(t) \ {r.run}
        BY <1>1, <1>5, <2>1, <2>2, <2>4 DEF Pending
      <3>3. Cardinality(Pending(t)') = Cardinality(Pending(t)) - 1
        BY <1>2, <3>1, <3>2, FS_RemoveElement
      <3>4. told'[t] = told[t] + 1
        BY <1>3, <2>1, <2>4
      <3> QED BY <1>2, <1>3, <1>5, <2>1, <2>3, <3>3, <3>4 DEF Spent, Allowed, Bit
    <2>5. CASE t # u
      <3>1. Pending(t)' = Pending(t)
        BY <1>1, <1>5, <2>1, <2>2, <2>5 DEF Pending
      <3>2. told'[t] = told[t]
        BY <1>3, <2>1, <2>5
      <3> QED BY <1>2, <1>3, <1>5, <2>1, <2>3, <3>1, <3>2 DEF Spent, Allowed, Bit
    <2> QED BY <2>4, <2>5
  <1>8. ASSUME NEW r \in readers, ConsumeEvent(r) PROVE Spent(t)' <= Allowed(t)'
    <2> DEFINE new == [r EXCEPT !.left = r.left \ r.noted, !.noted = {}]
    <2>1. /\ delivered' = delivered \union r.noted
          /\ readers' = (readers \ {r}) \union (IF r.left \ r.noted = {} THEN {} ELSE {new})
          /\ UNCHANGED <<runs, told, notes, written, crashes>>
      BY <1>8 DEF ConsumeEvent
    <2>2. new.run = r.run /\ new.left = r.left \ r.noted /\ new.noted = {}
      BY DEF Reading, Readers
    <2> HIDE DEF new
    <2>3. Claimed(t) => Claimed(t)'
      BY <1>5, <2>1, <2>2 DEF Claimed
    <2>4. Pending(t)' = Pending(t)
      BY <1>1, <1>5, <2>1, <2>2 DEF Pending
    <2> QED BY <1>2, <1>3, <1>5, <2>1, <2>3, <2>4 DEF Spent, Allowed, Bit
  <1>9. ASSUME NEW r \in readers, StopReading(r) PROVE Spent(t)' <= Allowed(t)'
    <2>1. /\ readers' = readers \ {r} /\ r.run \notin Active
          /\ UNCHANGED <<runs, told, delivered, notes, written, crashes>>
      BY <1>9 DEF StopReading, work
    <2>2. Claimed(t) => Claimed(t)'
      BY <1>5, <2>1 DEF Claimed
    <2>3. Pending(t)' = Pending(t) \/ Pending(t)' = Pending(t) \ {r.run}
      BY <1>1, <1>5, <2>1 DEF Pending
    <2>4. Cardinality(Pending(t)') \in Nat /\ Cardinality(Pending(t)') <= Cardinality(Pending(t))
      <3>1. Cardinality(Pending(t) \ {r.run}) =
               IF r.run \in Pending(t) THEN Cardinality(Pending(t)) - 1 ELSE Cardinality(Pending(t))
        BY <1>2, FS_RemoveElement
      <3>2. IsFiniteSet(Pending(t) \ {r.run})
        BY <1>2, FS_RemoveElement
      <3>3. Cardinality(Pending(t) \ {r.run}) \in Nat
        BY <3>2, FS_CardinalityType
      <3> QED BY <1>2, <2>3, <3>1, <3>3
    <2> QED BY <1>2, <1>3, <1>5, <2>1, <2>2, <2>4 DEF Spent, Allowed, Bit
  <1>10. ASSUME NEW j \in jobs, WakeSession(j), notes' # notes PROVE Spent(t)' <= Allowed(t)'
    <2>1. /\ Active = {} /\ notes = {} /\ written = {} /\ runs' = NewRun("wake") /\ notes' = Events /\ ~ChainOver
          /\ UNCHANGED <<told, delivered, written, readers, crashes>>
      BY <1>10 DEF WakeSession, Start, Idle, FreeGate, work
    <2>2. Starts
      BY <2>1 DEF Starts, Triggers
    <2>3. Canceled' = Canceled /\ Active' = {Len(runs) + 1} /\ Indexes' = 1 .. Len(runs) + 1
      BY <1>1, <2>2, Started DEF Canceled
    <2>4. Pending(t)' = Pending(t)
      BY <1>1, <2>1, <2>3 DEF Pending
    <2>5. CASE t \in Events
      <3>1. ~Claimed(t) /\ Claimed(t)'
        BY <2>1, <2>5 DEF Claimed, Events
      <3> QED BY <1>2, <1>3, <2>1, <2>3, <2>4, <3>1 DEF Spent, Allowed, Bit
    <2>6. CASE t \notin Events
      <3>1. Claimed(t) => Claimed(t)'
        BY <2>1 DEF Claimed
      <3> QED BY <1>2, <1>3, <2>1, <2>3, <2>4, <2>6, <3>1 DEF Spent, Allowed, Bit
    <2> QED BY <2>5, <2>6
  <1>11. ASSUME NEW u \in Tasks, WriteNote(u) PROVE Spent(t)' <= Allowed(t)'
    <2>1. /\ written = {} /\ u \in notes /\ written' = {u} /\ told' = [told EXCEPT ![u] = @ + 1]
          /\ UNCHANGED <<runs, delivered, notes, readers, crashes>>
      BY <1>11 DEF WriteNote
    <2>2. Claimed(t)' = Claimed(t) /\ Pending(t)' = Pending(t)
      BY <1>5, <2>1 DEF Claimed, Pending
    <2>3. told'[t] = IF t = u THEN told[t] + 1 ELSE told[t]
      BY <1>3, <2>1
    <2> QED BY <1>2, <1>3, <1>5, <2>1, <2>2, <2>3 DEF Spent, Allowed, Bit
  <1>12. ASSUME NEW u \in Tasks, MarkDelivered(u) PROVE Spent(t)' <= Allowed(t)'
    <2>1. /\ written = {u} /\ written' = {} /\ notes' = notes \ {u} /\ delivered' = delivered \union {u}
          /\ UNCHANGED <<runs, told, readers, crashes>>
      BY <1>12 DEF MarkDelivered, Reading
    <2>2. Claimed(t) => Claimed(t)'
      BY <1>5, <2>1 DEF Claimed
    <2>3. Pending(t)' = Pending(t)
      BY <1>5, <2>1 DEF Pending
    <2> QED BY <1>2, <1>3, <1>5, <2>1, <2>2, <2>3 DEF Spent, Allowed, Bit
  <1>13. CASE Crash
    <2>1. /\ crashes' = crashes + 1 /\ notes' = {} /\ readers' = {}
          /\ UNCHANGED <<runs, told, delivered>>
      BY <1>13 DEF Crash, work
    <2>2. Pending(t)' = {}
      BY <2>1 DEF Pending
    <2>3. Cardinality(Pending(t)') = 0
      BY <2>2, FS_EmptySet
    <2> QED BY <1>2, <1>3, <1>5, <2>1, <2>3 DEF Spent, Allowed, Bit
  <1>14. CASE Send \/ SetGoal \/ Pause \/ Resume \/ Clear \/ Boot \/ UNCHANGED vars
    BY <1>4, <1>14 DEF Send, SetGoal, Pause, Resume, Clear, Order, Boot, vars, work, wakes
  <1>15. ASSUME NEW i \in Indexes, EndRun(i) \/ CancelRun(i) \/ TakeSteers(i) \/ UpdateGoal(i)
         PROVE  Spent(t)' <= Allowed(t)'
    BY <1>4, <1>15 DEF EndRun, CancelRun, TakeSteers, UpdateGoal, work, wakes
  <1>19. ASSUME NEW j \in jobs, DropJob(j) PROVE Spent(t)' <= Allowed(t)'
    BY <1>4, <1>19 DEF DropJob, work, wakes
  <1>16. ASSUME NEW i \in Indexes, NEW u \in Tasks, StartTask(i, u) PROVE Spent(t)' <= Allowed(t)'
    BY <1>4, <1>16 DEF StartTask, wakes
  <1>17. ASSUME NEW u \in Tasks, EndTask(u) PROVE Spent(t)' <= Allowed(t)'
    BY <1>4, <1>17 DEF EndTask, wakes
  <1>18. ASSUME NEW j \in jobs, JobStep(j) PROVE Spent(t)' <= Allowed(t)'
    <2>1. CASE WakeSession(j) /\ notes' # notes
      BY <1>10, <2>1
    <2>2. CASE ~(WakeSession(j) /\ notes' # notes)
      BY <1>4, <1>18, <2>2 DEF JobStep, Look, Settle, NextMessage, WakeSession, ContinueGoal, work, wakes
    <2> QED BY <2>1, <2>2
  <1> QED BY <1>6, <1>7, <1>8, <1>9, <1>11, <1>12, <1>13, <1>14, <1>15, <1>16, <1>17, <1>18, <1>19 DEF Next, Work

(* What is told of an end and still will be never exceeds what crashes,     *)
(* cancellations and its one claim allow.                                   *)
THEOREM BalanceHolds == Spec => [](WorkInv /\ Reading /\ Balance)
  <1>1. Init => WorkInv /\ Reading /\ Balance
    <2> SUFFICES ASSUME Init PROVE Reading /\ Balance
      BY InitWork
    <2>1. WorkInv /\ Len(runs) \in Nat
      BY InitWork, Lengths DEF WorkInv, Shape
    <2>2. Reading
      BY DEF Init, Reading
    <2>3. Cardinality(Canceled) \in Nat
      BY <2>1, Small, Lengths DEF WorkInv, Shape, Canceled
    <2>4. \A t \in Tasks : Pending(t) = {}
      BY DEF Init, Pending
    <2>5. \A t \in Tasks : Cardinality(Pending(t)) = 0 /\ told[t] = 0 /\ t \notin notes
      BY <2>4, FS_EmptySet DEF Init
    <2>6. crashes = 0
      BY DEF Init
    <2> QED BY <2>2, <2>3, <2>5, <2>6 DEF Balance, Spent, Allowed, Bit
  <1>2. WorkInv /\ Reading /\ Balance /\ [Next]_vars => (WorkInv /\ Reading /\ Balance)'
    BY NextWork, ReadingKept, BalanceKept
  <1> QED BY <1>1, <1>2, PTL DEF Spec

(* An end is in the history once, and once more at most for each crash and  *)
(* each canceled run.                                                       *)
THEOREM EndsToldOnce == Spec => []ToldOnce
  <1>1. WorkInv /\ Reading /\ Balance => ToldOnce
    <2> SUFFICES ASSUME WorkInv, Reading, Balance, NEW t \in Tasks
                 PROVE  told[t] <= 1 + crashes + Cardinality(Canceled)
      BY DEF ToldOnce
    <2>1. Cardinality(Canceled) \in Nat /\ Cardinality(Pending(t)) \in Nat
      BY Lengths, Small DEF WorkInv, Shape, Canceled, Pending
    <2> QED BY <2>1 DEF Reading, Balance, Spent, Allowed, Bit
  <1> QED BY <1>1, BalanceHolds, PTL
=============================================================================
