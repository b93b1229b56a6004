---------------------------- MODULE SessionWork ----------------------------
(***************************************************************************)
(* What a session does on its own (internal/core: goals.go, task_wake.go): *)
(* the runs it starts for finished background work and for its goal, the   *)
(* user's messages and orders between them, and what a crash leaves of it. *)
(*                                                                         *)
(* Every section under the session gate is one action, but for the notes   *)
(* of a wake run, which are written one by one.  A run at work writes its  *)
(* notes without the gate.  What follows a run's end, a task's end, an     *)
(* order or a start of the daemon is a job: it takes the gate for each of  *)
(* its steps.                                                              *)
(*                                                                         *)
(* Left out: the runs automation starts in a session, which neither count  *)
(* in a chain of wake runs nor end it.                                     *)
(***************************************************************************)
EXTENDS Naturals, Sequences, FiniteSets

CONSTANTS Tasks,        \* background commands
          GoalRuns,     \* SessionGoal.MaxRuns
          WakeChain,    \* maxWakeChain
          MaxActs,      \* bound: the user's messages and orders, and crashes
          MaxCancels,   \* bound: canceled runs
          MaxJobs       \* bound: jobs at once

ASSUME LimitAssumption == GoalRuns \in Nat \ {0} /\ WakeChain \in Nat \ {0}
ASSUME BoundAssumption == {MaxActs, MaxCancels, MaxJobs} \subseteq Nat

VARIABLES
    (* the store *)
    runs,       \* the session's runs, oldest first: their trigger, status and steers
    goal,       \* the session's goal
    queued,     \* the messages waiting
    steers,     \* those for the next step of a run
    task,       \* where each command stands
    starter,    \* the run each command was started by
    delivered,  \* the commands whose end a run was told
    told,       \* how often it is in the history
    (* the daemon *)
    up,
    jobs,       \* the jobs and their next step
    notes,      \* the ends a wake run is still to be told, under the gate
    written,    \* one of them is in the history, not yet marked delivered
    readers,    \* the runs' executors that read ends: those left, and one noted but not marked
    (* what happened *)
    resumed,    \* the runs that had ended when the goal was last resumed
    acts,       \* of the user
    gone,       \* a client left the session idle, and no run started since
    crashes

work  == <<task, starter, delivered, told>>
wakes == <<notes, written, readers>>
inbox == <<queued, steers>>
user  == <<resumed, acts, gone>>
vars  == <<runs, goal, inbox, work, up, jobs, wakes, user, crashes>>

-----------------------------------------------------------------------------
NoGoal == [status |-> "none", used |-> 0, last |-> 0, since |-> 0]

NewGoal(n) == [NoGoal EXCEPT !.status = "active", !.since = n]

Indexes  == DOMAIN runs
Active   == {i \in Indexes : runs[i].status = "running"}
Canceled == {i \in Indexes : runs[i].status = "canceled"}
Stopped  == {i \in Indexes : runs[i].status \in {"failed", "canceled"}}
Stepping(i) == i \in Active /\ \A r \in readers : r.run # i
FreeGate == up /\ notes = {} /\ written = {}

NewRun(trigger) == Append(runs, [trigger |-> trigger, status |-> "running", steered |-> FALSE])
Start(trigger)  == runs' = NewRun(trigger) /\ gone' = FALSE

(* taskEvents, and taskWakesSession of one of them. *)
Events   == {t \in Tasks : task[t] \in {"ended", "stopped"}} \ delivered
Wakes(t) == task[t] = "ended" /\ runs[starter[t]].status # "canceled"

Job(name, n, pc) == [name |-> name, of |-> n, pc |-> pc]
AddJobs(new)     == jobs' = jobs \union new /\ Cardinality(jobs') <= MaxJobs
Then(j, pc)      == (jobs \ {j}) \union {[j EXCEPT !.pc = pc]}

(* The first message runs, in a session with a goal. *)
Init ==
    /\ runs = <<[trigger |-> "user", status |-> "running", steered |-> FALSE]>>
    /\ goal = NewGoal(0) /\ queued = 0 /\ steers = {}
    /\ task = [t \in Tasks |-> "none"] /\ starter = [t \in Tasks |-> 0]
    /\ delivered = {} /\ told = [t \in Tasks |-> 0]
    /\ up = TRUE /\ jobs = {} /\ notes = {} /\ written = {} /\ readers = {}
    /\ resumed = {} /\ acts = 0 /\ gone = FALSE /\ crashes = 0

-----------------------------------------------------------------------------
(* A message starts a run in an idle session, also when others wait there. *)
(* In a busy one it waits or, by default, is for the run's next step.       *)
Send ==
    /\ FreeGate /\ acts + crashes < MaxActs
    /\ acts' = acts + 1
    /\ \/ Active = {} /\ Start("user") /\ UNCHANGED inbox
       \/ Active # {} /\ queued' = queued + 1 /\ UNCHANGED <<runs, steers, gone>>
       \/ \E i \in Active : steers' = steers \union {<<i, acts>>} /\ UNCHANGED <<runs, queued, gone>>
    /\ UNCHANGED <<goal, work, up, jobs, wakes, resumed, crashes>>

Order == /\ FreeGate /\ acts + crashes < MaxActs
         /\ acts' = acts + 1
         /\ UNCHANGED <<runs, inbox, work, up, wakes, gone, crashes>>

(* SetSessionGoal saves the goal; to continue it is a job of its request. *)
SetGoal ==
    /\ Order
    /\ goal' = NewGoal(Len(runs))
    /\ resumed' = {}
    /\ AddJobs({Job("order", acts, "goal")})

Pause ==
    /\ Order /\ goal.status = "active"
    /\ goal' = [goal EXCEPT !.status = "paused"]
    /\ UNCHANGED <<jobs, resumed>>

(* ChangeSessionGoal, likewise: with a fresh allowance when it was used up. *)
Resume ==
    /\ Order /\ goal.status \in {"paused", "blocked"}
    /\ goal' = [goal EXCEPT !.status = "active", !.used = IF @ >= GoalRuns THEN 0 ELSE @]
    /\ resumed' = Indexes \ Active
    /\ AddJobs({Job("order", acts, "goal")})

Clear ==
    /\ Order /\ goal # NoGoal
    /\ goal' = NoGoal
    /\ resumed' = {}
    /\ UNCHANGED jobs

-----------------------------------------------------------------------------
(* A run at work: it takes the messages for it and reads the ends of        *)
(* commands at its next step, starts commands and reports its goal complete *)
(* or blocked.  That a wake run took a message is remembered.               *)
SteersOf(i) == {s \in steers : s[1] = i}

TakeSteers(i) ==
    /\ FreeGate /\ Stepping(i) /\ SteersOf(i) # {}
    /\ runs' = [runs EXCEPT ![i].steered = runs[i].trigger = "wake"]
    /\ steers' = steers \ SteersOf(i)
    /\ UNCHANGED <<goal, queued, work, up, jobs, wakes, user, crashes>>

StartTask(i, t) ==
    /\ FreeGate /\ Stepping(i) /\ task[t] = "none"
    /\ task' = [task EXCEPT ![t] = "running"]
    /\ starter' = [starter EXCEPT ![t] = i]
    /\ UNCHANGED <<runs, goal, inbox, delivered, told, up, jobs, wakes, user, crashes>>

(* drainEvents: for each end a note, then its mark.  The executor of a run  *)
(* that was canceled meanwhile stops before a note, or not yet.             *)
ReadEvents(i) ==
    /\ FreeGate /\ Stepping(i) /\ Events # {}
    /\ readers' = readers \union {[run |-> i, left |-> Events, noted |-> {}]}
    /\ UNCHANGED <<runs, goal, inbox, work, up, jobs, notes, written, user, crashes>>

NoteEvent(r, t) ==
    /\ up /\ r \in readers /\ r.noted = {} /\ t \in r.left
    /\ told' = [told EXCEPT ![t] = @ + 1]
    /\ readers' = (readers \ {r}) \union {[r EXCEPT !.noted = {t}]}
    /\ UNCHANGED <<runs, goal, inbox, task, starter, delivered, up, jobs, notes, written, user, crashes>>

ConsumeEvent(r) ==
    /\ up /\ r \in readers /\ r.noted # {}
    /\ delivered' = delivered \union r.noted
    /\ readers' = (readers \ {r}) \union {[r EXCEPT !.left = l, !.noted = {}] : l \in {r.left \ r.noted} \ {{}}}
    /\ UNCHANGED <<runs, goal, inbox, task, starter, told, up, jobs, notes, written, user, crashes>>

StopReading(r) ==
    /\ up /\ r \in readers /\ r.noted = {} /\ r.run \notin Active
    /\ readers' = readers \ {r}
    /\ UNCHANGED <<runs, goal, inbox, work, up, jobs, notes, written, user, crashes>>

UpdateGoal(i) ==
    /\ FreeGate /\ Stepping(i) /\ goal.status = "active"
    /\ \E s \in {"complete", "blocked"} : goal' = [goal EXCEPT !.status = s]
    /\ UNCHANGED <<runs, inbox, work, up, jobs, wakes, user, crashes>>

EndRun(i) ==
    /\ FreeGate /\ Stepping(i)
    /\ \E s \in {"completed", "failed"} : runs' = [runs EXCEPT ![i].status = s]
    /\ AddJobs({Job("release", i, "settle")})
    /\ UNCHANGED <<goal, inbox, work, up, wakes, user, crashes>>

(* CancelRun takes no gate, and stops the run's commands once it is marked: *)
(* all that have not ended by then, or fewer when its client goes.  What    *)
(* follows is done by the run's executor once it let go, by CancelRun when  *)
(* there is none, or by both when the executor lets go meanwhile.           *)
CancelRun(i) ==
    /\ up /\ i \in Active /\ Cardinality(Canceled) < MaxCancels
    /\ runs' = [runs EXCEPT ![i].status = "canceled"]
    /\ \E stopped \in SUBSET {t \in Tasks : task[t] = "running" /\ starter[t] = i} :
          task' = [t \in Tasks |-> IF t \in stopped THEN "stopped" ELSE task[t]]
    /\ \E who \in (SUBSET {"release", "cancel"}) \ {{}} : AddJobs({Job(w, i, "settle") : w \in who})
    /\ UNCHANGED <<goal, inbox, starter, delivered, told, up, wakes, user, crashes>>

(* An order's job and CancelRun's run in a request and end with its client. *)
DropJob(j) ==
    /\ up /\ j \in jobs /\ j.name \in {"order", "cancel"}
    /\ jobs' = jobs \ {j}
    /\ gone' = (Active = {})
    /\ UNCHANGED <<runs, goal, inbox, work, up, wakes, resumed, acts, crashes>>

EndTask(t) ==
    /\ up /\ task[t] = "running"
    /\ task' = [task EXCEPT ![t] = "ended"]
    /\ AddJobs({Job("task", t, "look")})
    /\ UNCHANGED <<runs, goal, inbox, starter, delivered, told, up, wakes, user, crashes>>

-----------------------------------------------------------------------------
(* taskFinished looks for an active run without the gate. *)
Look_Forgets(j) ==
    /\ up /\ j \in jobs /\ j.pc = "look"
    /\ jobs' = jobs \ {j}
    /\ UNCHANGED <<runs, goal, inbox, work, up, wakes, user, crashes>>

Look(j) ==
    /\ up /\ j \in jobs /\ j.pc = "look"
    /\ jobs' = IF Active = {} THEN Then(j, "wake") ELSE jobs \ {j}
    /\ UNCHANGED <<runs, goal, inbox, work, up, wakes, user, crashes>>

(* settleGoalLocked: an ended run counts against the goal it ran under;     *)
(* one that stopped, or the last of the allowance, pauses it.               *)
Settled(i) ==
    LET r      == runs[i]
        mine   == r.trigger = "goal"
        used   == IF mine THEN goal.used + 1 ELSE goal.used
        pauses == i \in Stopped \/ used >= GoalRuns
    IN  IF \/ goal.status = "none" \/ i \in Active \/ i = goal.last \/ i <= goal.since
           \/ goal.status # "active" /\ ~mine
        THEN goal
        ELSE [goal EXCEPT !.last = i, !.used = used,
                          !.status = IF @ = "active" /\ pauses THEN "paused" ELSE @]

(* afterEnd: first, the messages that missed the run are queued. *)
Settle(j) ==
    /\ FreeGate /\ j \in jobs /\ j.pc = "settle" /\ \A r \in readers : r.run # j.of
    /\ steers' = steers \ SteersOf(j.of)
    /\ queued' = queued + Cardinality(SteersOf(j.of))
    /\ goal' = Settled(j.of)
    /\ jobs' = Then(j, "next")
    /\ UNCHANGED <<runs, work, up, wakes, user, crashes>>

(* startNextPendingSessionInput: an idle session first queues every message *)
(* that missed its run.                                                     *)
Waiting == queued + Cardinality(steers)

NextMessage(j) ==
    /\ FreeGate /\ j \in jobs /\ j.pc = "next"
    /\ IF Active = {} /\ Waiting > 0
       THEN Start("user") /\ queued' = Waiting - 1 /\ steers' = {} /\ jobs' = jobs \ {j}
       ELSE jobs' = Then(j, "wake") /\ UNCHANGED <<runs, inbox, gone>>
    /\ UNCHANGED <<goal, work, up, wakes, resumed, acts, crashes>>

(* wakeChain: the newest wake runs in a row that no message reached.        *)
InChain(i) == \A k \in i .. Len(runs) : runs[k].trigger = "wake" /\ ~runs[k].steered
Chain      == {i \in Indexes : InChain(i)}
ChainOver  == Len(runs) \in Chain /\ (Len(runs) \in Stopped \/ Cardinality(Chain) >= WakeChain)

(* After its wake, a job of a task's end or an order is done. *)
AfterWake(j) == IF j.name = "task" THEN jobs \ {j} ELSE Then(j, "goal")

Idle == Active = {} /\ Waiting = 0

WakeSession_IgnoresFailed(j) ==
    /\ FreeGate /\ j \in jobs /\ j.pc = "wake"
    /\ jobs' = AfterWake(j)
    /\ IF Idle /\ (\E t \in Events : Wakes(t)) /\ Cardinality(Chain) < WakeChain
       THEN Start("wake") /\ notes' = Events
       ELSE UNCHANGED <<runs, notes, gone>>
    /\ UNCHANGED <<goal, inbox, work, up, written, readers, resumed, acts, crashes>>

WakeSession(j) ==
    /\ FreeGate /\ j \in jobs /\ j.pc = "wake"
    /\ jobs' = AfterWake(j)
    /\ IF Idle /\ (\E t \in Events : Wakes(t)) /\ ~ChainOver
       THEN Start("wake") /\ notes' = Events
       ELSE UNCHANGED <<runs, notes, gone>>
    /\ UNCHANGED <<goal, inbox, work, up, written, readers, resumed, acts, crashes>>

(* journalWakeEvents: AppendMessage, then MarkTasksDelivered. *)
WriteNote(t) ==
    /\ up /\ written = {} /\ t \in notes
    /\ written' = {t}
    /\ told' = [told EXCEPT ![t] = @ + 1]
    /\ UNCHANGED <<runs, goal, inbox, task, starter, delivered, up, jobs, notes, readers, user, crashes>>

MarkDelivered_Only(t) ==
    /\ up /\ t \in written
    /\ written' = {} /\ notes' = notes \ {t}
    /\ UNCHANGED <<runs, goal, inbox, work, up, jobs, readers, user, crashes>>

MarkDelivered(t) ==
    /\ up /\ t \in written
    /\ written' = {} /\ notes' = notes \ {t}
    /\ delivered' = delivered \union {t}
    /\ UNCHANGED <<runs, goal, inbox, task, starter, told, up, jobs, readers, user, crashes>>

(* prepareGoalRun settles the newest run, which may not be counted yet.     *)
ContinueGoal_Unsettled(j) ==
    /\ FreeGate /\ j \in jobs /\ j.pc = "goal"
    /\ jobs' = jobs \ {j}
    /\ IF Idle /\ goal.status = "active" THEN Start("goal") ELSE UNCHANGED <<runs, gone>>
    /\ UNCHANGED <<goal, inbox, work, up, wakes, resumed, acts, crashes>>

ContinueGoal(j) ==
    /\ FreeGate /\ j \in jobs /\ j.pc = "goal"
    /\ jobs' = jobs \ {j}
    /\ IF Idle /\ goal.status = "active"
       THEN /\ goal' = IF runs = <<>> THEN goal ELSE Settled(Len(runs))
            /\ IF goal'.status = "active" THEN Start("goal") ELSE UNCHANGED <<runs, gone>>
       ELSE UNCHANGED <<goal, runs, gone>>
    /\ UNCHANGED <<inbox, work, up, wakes, resumed, acts, crashes>>

-----------------------------------------------------------------------------
Crash ==
    /\ up /\ acts + crashes < MaxActs
    /\ crashes' = crashes + 1
    /\ up' = FALSE /\ jobs' = {} /\ notes' = {} /\ written' = {} /\ readers' = {}
    /\ gone' = FALSE
    /\ UNCHANGED <<runs, goal, inbox, work, resumed, acts>>

Boot_LeavesGoals ==
    /\ ~up /\ up' = TRUE
    /\ task' = [t \in Tasks |-> IF task[t] = "running" THEN "stopped" ELSE task[t]]
    /\ jobs' = IF Waiting > 0 \/ (\E t \in Tasks \ delivered : task[t] # "none")
               THEN {Job("boot", crashes, "next")} ELSE {}
    /\ UNCHANGED <<runs, goal, inbox, starter, delivered, told, wakes, user, crashes>>

(* Recover: commands are lost, runs go on, and a session with messages,     *)
(* unseen ends or an active goal gets what it is owed.                      *)
Boot ==
    /\ ~up /\ up' = TRUE
    /\ task' = [t \in Tasks |-> IF task[t] = "running" THEN "stopped" ELSE task[t]]
    /\ jobs' = IF Waiting > 0 \/ (\E t \in Tasks \ delivered : task[t] # "none") \/ goal.status = "active"
               THEN {Job("boot", crashes, "next")} ELSE {}
    /\ UNCHANGED <<runs, goal, inbox, starter, delivered, told, wakes, user, crashes>>

-----------------------------------------------------------------------------
JobStep(j) == Look(j) \/ Settle(j) \/ NextMessage(j) \/ WakeSession(j) \/ ContinueGoal(j)

Work ==
    \/ \E j \in jobs : JobStep(j)
    \/ \E t \in Tasks : WriteNote(t) \/ MarkDelivered(t)
    \/ \E r \in readers : (\E t \in Tasks : NoteEvent(r, t)) \/ ConsumeEvent(r) \/ StopReading(r)
    \/ \E i \in Indexes : EndRun(i)
    \/ Boot

Next ==
    \/ Work
    \/ Send \/ SetGoal \/ Pause \/ Resume \/ Clear
    \/ \E i \in Indexes : TakeSteers(i) \/ ReadEvents(i) \/ UpdateGoal(i) \/ CancelRun(i)
    \/ \E j \in jobs : DropJob(j)
    \/ \E i \in Indexes, t \in Tasks : StartTask(i, t)
    \/ \E t \in Tasks : EndTask(t)
    \/ Crash

Spec == Init /\ [][Next]_vars

(* Goroutines go on, runs end and a stopped daemon is started again; a      *)
(* client stays as long as it likes.                                        *)
FairSpec == Spec /\ WF_vars(Work)

-----------------------------------------------------------------------------
TypeOK ==
    /\ \A i \in Indexes : runs[i] \in [trigger : {"user", "wake", "goal"}, steered : BOOLEAN,
                                       status : {"running", "completed", "failed", "canceled"}]
    /\ goal.status \in {"none", "active", "paused", "blocked", "complete"}
    /\ goal.last \in 0 .. Len(runs) /\ goal.since \in 0 .. Len(runs)
    /\ task \in [Tasks -> {"none", "running", "ended", "stopped"}]
    /\ Cardinality(Active) <= 1

(* An end is in the history once, and once more at most for every crash     *)
(* between its note and its mark, and for every run canceled while it read  *)
(* the ends (task_wake.go: journalWakeEvents; agent/events.go: drainEvents). *)
ToldOnce == \A t \in Tasks : told[t] <= 1 + crashes + Cardinality(Canceled)

(* Left to itself a session does not go on from a wake run that failed or   *)
(* was canceled to another (task_wake.go: wakeChain).                       *)
WakesHeedStops ==
    \A i \in Indexes : (runs[i].trigger = "wake" /\ i > 1 /\ runs[i - 1].trigger = "wake" /\ ~runs[i - 1].steered)
                           => i - 1 \notin Stopped

(* A goal's run never follows directly on a run of the goal's time that     *)
(* failed or was canceled, unless the user resumed the goal since, also     *)
(* when nothing counted that run before a crash (goals.go: prepareGoalRun). *)
GoalHeedsStop ==
    [][ \A n \in {Len(runs')} :
          (n > Len(runs) /\ runs'[n].trigger = "goal" /\ n - 1 \in Stopped)
              => n - 1 <= goal.since \/ n - 1 \in resumed ]_vars

(* A client left the session so, and nothing is under way. *)
Forsaken == gone /\ jobs = {}

(* The end of a command that should wake the session is told to a run,      *)
(* unless the session waits for the user or a client went whose cancel was  *)
(* to look after the session (task_wake.go, run_lifecycle.go: afterEnd,     *)
(* runs.go: CancelRun, shell_tasks.go: taskFinished).                       *)
EndsAreTold ==
    \A t \in Tasks : (t \in Events /\ Wakes(t))
                        ~> (t \in delivered \/ ~Wakes(t) \/ (ChainOver /\ Active = {}) \/ Forsaken)

(* A session with an active goal does not stay idle, unless the client that *)
(* set or resumed it, or canceled its last run, went before the goal was    *)
(* continued (goals.go: continueGoal; run_recovery.go: settleIdleSessions). *)
GoalGoesOn == (goal.status = "active" /\ Active = {}) ~> (goal.status # "active" \/ Active # {} \/ Forsaken)

(* The same whichever client goes. *)
GoalAlwaysGoesOn == (goal.status = "active" /\ Active = {}) ~> (goal.status # "active" \/ Active # {})
=============================================================================
