------------------------------ MODULE Automation ------------------------------
(***************************************************************************)
(* Reminders and scheduled tasks (internal/automation/service.go with its  *)
(* store and core.AcceptTriggeredRun): a tick fires the jobs due by now,   *)
(* a client may run one now, pause, resume, complete or delete it.         *)
(*                                                                         *)
(* Ticks exclude each other (Service.mu); a client's request takes no      *)
(* lock.  A statement of the store is atomic, and an update of a job       *)
(* stores the whole row as it was read.  All jobs are of one session.      *)
(***************************************************************************)
EXTENDS Naturals, FiniteSets

CONSTANTS Once,        \* the jobs that run once
          Repeating,   \* the jobs of an interval or a cron expression
          RunAt,       \* when the jobs that run once are due
          LastTime,    \* bound: the clock stops there
          BusyWindow,  \* busyRetryWindow
          DueBatch,    \* dueBatch
          AskedNow,    \* bound: the jobs clients run now, once each
          MaxChanges,  \* bound: clients' changes of a job's status
          MaxFailures  \* bound: crashes, requests given up, refused triggers

Jobs == Once \union Repeating

ASSUME JobsAssumption == Jobs \subseteq Nat /\ Once \intersect Repeating = {} /\ IsFiniteSet(Jobs)
ASSUME AskedAssumption == AskedNow \subseteq Jobs
ASSUME TimeAssumption == LastTime \in Nat /\ RunAt \in 1 .. LastTime /\ BusyWindow \in Nat \ {0}
ASSUME BoundAssumption == DueBatch \in Nat \ {0} /\ MaxChanges \in Nat /\ MaxFailures \in Nat

VARIABLES
    now,
    job,        \* automation_jobs; "stopped" is paused, completed or deleted
    fire,       \* automation_fires, by job and schedule
    busy,       \* whether the session has an active run
    runs,       \* the runs fires ever started
    delivered,  \* client deliveries created, by job and schedule
    lost,       \* fires whose thread ended before their deliveries
    pc, at,     \* each thread's place and the fire it serves
    due,        \* the jobs the tick listed and has not fired yet
    row,        \* the row a thread will store
    changes, failures

vars == <<now, job, fire, busy, runs, delivered, lost, pc, at, due, row, changes, failures>>

-----------------------------------------------------------------------------
Times    == 1 .. LastTime
Asked    == 0          \* the time of a run asked for now: no job is due then
Never    == 0          \* no next_due_at, no last_scheduled_for
Fires    == Jobs \X (Times \union {Asked})
FireIds  == 1 .. 2
Threads  == {"tick", "now", "client"}

NoFire == [status |-> "none", id |-> 1]
NoRow  == [status |-> "none", due |-> Never, last |-> Never]
NoJob  == <<0, 0>>

Row(status, at_, last) == [status |-> status, due |-> at_, last |-> last]

Settled(f) == fire[f].status \in {"completed", "failed"}

(* deterministicRunID: the run of a fire is named after the fire's id. *)
RunOf(f) == <<f[1], f[2], fire[f].id>>

Goto(t, l) == pc' = [pc EXCEPT ![t] = l]

(* CreateJob, by a client or a run: every job is due once, later than now. *)
Init ==
    /\ now = 0
    /\ job \in [Jobs -> {Row("active", t, Never) : t \in Times}]
    /\ \A j \in Once : job[j].due = RunAt
    /\ fire = [f \in Fires |-> NoFire]
    /\ busy = FALSE
    /\ runs = {}
    /\ delivered = [f \in Fires |-> 0]
    /\ lost = {}
    /\ pc = [t \in Threads |-> "off"]
    /\ at = [t \in Threads |-> NoJob]
    /\ due = {}
    /\ row = [t \in Threads |-> NoRow]
    /\ changes = 0 /\ failures = 0

-----------------------------------------------------------------------------
(* The rest of the session. *)

Clock == /\ now < LastTime
         /\ now' = now + 1
         /\ UNCHANGED <<job, fire, busy, runs, delivered, lost, pc, at, due, row, changes, failures>>

ClientRun == /\ ~busy
             /\ busy' = TRUE
             /\ UNCHANGED <<now, job, fire, runs, delivered, lost, pc, at, due, row, changes, failures>>

RunEnds == /\ busy
           /\ busy' = FALSE
           /\ UNCHANGED <<now, job, fire, runs, delivered, lost, pc, at, due, row, changes, failures>>

-----------------------------------------------------------------------------
(* Tick, and RunNow of an active job. *)

DueJobs == {j \in Jobs : job[j].status = "active" /\ job[j].due \in 1 .. now}

(* ListAutomationJobs by next_due_at, at most DueBatch of them. *)
Listed == {L \in SUBSET DueJobs :
              /\ Cardinality(L) = IF Cardinality(DueJobs) < DueBatch THEN Cardinality(DueJobs) ELSE DueBatch
              /\ \A j \in L, k \in DueJobs \ L : job[j].due <= job[k].due}

Tick == /\ pc["tick"] = "off" /\ DueJobs # {}
        /\ \E L \in Listed : due' = {<<j, job[j].due>> : j \in L}
        /\ Goto("tick", "next")
        /\ UNCHANGED <<now, job, fire, busy, runs, delivered, lost, at, row, changes, failures>>

FireNext ==
    /\ pc["tick"] = "next"
    /\ IF due = {}
       THEN Goto("tick", "off") /\ UNCHANGED <<at, due>>
       ELSE \E f \in due : /\ \A g \in due : f[2] <= g[2]
                           /\ at' = [at EXCEPT !["tick"] = f]
                           /\ due' = due \ {f}
                           /\ Goto("tick", "create")
    /\ UNCHANGED <<now, job, fire, busy, runs, delivered, lost, row, changes, failures>>

RunNow(j) ==
    /\ pc["now"] = "off" /\ job[j].status = "active"
    /\ fire[<<j, Asked>>] = NoFire
    /\ at' = [at EXCEPT !["now"] = <<j, Asked>>]
    /\ Goto("now", "create")
    /\ UNCHANGED <<now, job, fire, busy, runs, delivered, lost, due, row, changes, failures>>

-----------------------------------------------------------------------------
(* fireJob. *)

(* The tick goes on with its list. *)
Done(t) == /\ Goto(t, IF t = "tick" THEN "next" ELSE "off")
           /\ at' = [at EXCEPT ![t] = NoJob]

CreateFire(t) ==
    LET f == at[t] IN
    /\ pc[t] = "create"
    /\ IF fire[f].status = "none"
       THEN fire' = [fire EXCEPT ![f].status = "running"] /\ Goto(t, "accept")
       ELSE Goto(t, "duplicate") /\ UNCHANGED fire
    /\ UNCHANGED <<now, job, busy, runs, delivered, lost, at, due, row, changes, failures>>

DuplicateFire_NewId(t) ==
    /\ pc[t] = "duplicate"
    /\ Goto(t, IF Settled(at[t]) THEN "advance" ELSE "accept")
    /\ fire' = IF Settled(at[t]) THEN fire ELSE [fire EXCEPT ![at[t]].id = 2]
    /\ UNCHANGED <<now, job, busy, runs, delivered, lost, at, due, row, changes, failures>>

(* The tick before settled the fire, or left it running. *)
DuplicateFire(t) ==
    /\ pc[t] = "duplicate"
    /\ Goto(t, IF Settled(at[t]) THEN "advance" ELSE "accept")
    /\ UNCHANGED <<now, job, fire, busy, runs, delivered, lost, at, due, row, changes, failures>>

(* AcceptTriggeredRun: the run the trigger started already, or a new one of *)
(* an idle session.                                                         *)
AcceptRun(t) ==
    LET f == at[t] IN
    /\ pc[t] = "accept"
    /\ RunOf(f) \in runs \/ ~busy
    /\ IF RunOf(f) \in runs
       THEN UNCHANGED <<busy, runs>>
       ELSE busy' = TRUE /\ runs' = runs \union {RunOf(f)}
    /\ Goto(t, "complete")
    /\ UNCHANGED <<now, job, fire, delivered, lost, at, due, row, changes, failures>>

SessionBusy(t) == pc[t] = "accept" /\ RunOf(at[t]) \notin runs /\ busy

InWindow_Always(f) == TRUE

(* now.Sub(scheduledFor) < busyRetryWindow: a run asked for now is in it. *)
InWindow(f) == f[2] = Asked \/ now < f[2] + BusyWindow

LeaveRunning_Advances(t) ==
    /\ SessionBusy(t) /\ InWindow(at[t])
    /\ Goto(t, "advance")
    /\ UNCHANGED <<now, job, fire, busy, runs, delivered, lost, at, due, row, changes, failures>>

LeaveRunning(t) ==
    /\ SessionBusy(t) /\ InWindow(at[t])
    /\ Done(t)
    /\ UNCHANGED <<now, job, fire, busy, runs, delivered, lost, due, row, changes, failures>>

GiveUpBusy(t) ==
    /\ SessionBusy(t) /\ ~InWindow(at[t])
    /\ Goto(t, "fail")
    /\ UNCHANGED <<now, job, fire, busy, runs, delivered, lost, at, due, row, changes, failures>>

(* The session is gone, or the run cannot start and is failed at once. *)
RefuseTrigger(t) ==
    LET f == at[t] IN
    /\ pc[t] = "accept" /\ RunOf(f) \notin runs
    /\ failures < MaxFailures
    /\ \/ UNCHANGED runs
       \/ ~busy /\ runs' = runs \union {RunOf(f)}
    /\ Goto(t, "fail")
    /\ failures' = failures + 1
    /\ UNCHANGED <<now, job, fire, busy, delivered, lost, at, due, row, changes>>

CompleteFire_DeliversFirst(t) ==
    /\ pc[t] = "complete"
    /\ delivered' = [delivered EXCEPT ![at[t]] = @ + 1]
    /\ Goto(t, "deliver")
    /\ UNCHANGED <<now, job, fire, busy, runs, lost, at, due, row, changes, failures>>

(* UpdateAutomationFire, then createRunDeliveries. *)
CompleteFire(t) ==
    /\ pc[t] = "complete"
    /\ fire' = [fire EXCEPT ![at[t]].status = "completed"]
    /\ Goto(t, "deliver")
    /\ UNCHANGED <<now, job, busy, runs, delivered, lost, at, due, row, changes, failures>>

FailFire(t) ==
    /\ pc[t] = "fail"
    /\ fire' = [fire EXCEPT ![at[t]].status = "failed"]
    /\ Goto(t, "advance")
    /\ UNCHANGED <<now, job, busy, runs, delivered, lost, at, due, row, changes, failures>>

Deliver(t) ==
    /\ pc[t] = "deliver"
    /\ delivered' = [delivered EXCEPT ![at[t]] = @ + 1]
    /\ Goto(t, "advance")
    /\ UNCHANGED <<now, job, fire, busy, runs, lost, at, due, row, changes, failures>>

(* The deliveries, or some of them, cannot be made: the job is not advanced. *)
DeliverFails(t) ==
    /\ pc[t] = "deliver"
    /\ failures < MaxFailures /\ failures' = failures + 1
    /\ lost' = lost \union {at[t]}
    /\ Done(t)
    /\ UNCHANGED <<now, job, fire, busy, runs, delivered, due, row, changes>>

(* advanceJob: nothing, unless the job is still active and due for this     *)
(* fire.  A job of an expression is due again at some later time.           *)
ReadToAdvance(t) ==
    LET j == at[t][1] IN
    /\ pc[t] = "advance"
    /\ IF job[j].status # "active" \/ job[j].due = Never \/ job[j].due # at[t][2]
       THEN Done(t) /\ UNCHANGED row
       ELSE /\ IF j \in Once
               THEN row' = [row EXCEPT ![t] = Row("stopped", Never, at[t][2])]
               ELSE \E next \in {n \in Times : n > now} \union IF now = LastTime THEN {Never} ELSE {} :
                        row' = [row EXCEPT ![t] = Row("active", next, at[t][2])]
            /\ Goto(t, "store") /\ UNCHANGED at
    /\ UNCHANGED <<now, job, fire, busy, runs, delivered, lost, due, changes, failures>>

StoreAdvanced(t) ==
    /\ pc[t] = "store"
    /\ job' = [job EXCEPT ![at[t][1]] = row[t]]
    /\ row' = [row EXCEPT ![t] = NoRow]
    /\ Done(t)
    /\ UNCHANGED <<now, fire, busy, runs, delivered, lost, due, changes, failures>>

-----------------------------------------------------------------------------
(* PauseJob, CompleteJob, DeleteJob and ResumeJob read the row, then store it.   *)
(* nextDue of a job that runs once: an error once its time came.                 *)
Resumed(j) == IF j \in Once
              THEN {Row("active", IF job[j].last = Never THEN n ELSE Never, job[j].last) : n \in {k \in {RunAt} : k > now}}
              ELSE {Row("active", n, job[j].last) : n \in {k \in Times : k > now}}

ReadToChange(j) ==
    /\ pc["client"] = "off" /\ changes < MaxChanges
    /\ \E r \in {Row("stopped", Never, job[j].last)} \union Resumed(j) :
          row' = [row EXCEPT !["client"] = r]
    /\ at' = [at EXCEPT !["client"] = <<j, Asked>>]
    /\ Goto("client", "change")
    /\ changes' = changes + 1
    /\ UNCHANGED <<now, job, fire, busy, runs, delivered, lost, due, failures>>

StoreChanged ==
    /\ pc["client"] = "change"
    /\ job' = [job EXCEPT ![at["client"][1]] = row["client"]]
    /\ row' = [row EXCEPT !["client"] = NoRow]
    /\ Done("client")
    /\ UNCHANGED <<now, fire, busy, runs, delivered, lost, due, changes, failures>>

-----------------------------------------------------------------------------
(* A thread ends where it stands: the daemon's crash ends them all, a       *)
(* request whose client goes ends its own.  The active run is resumed at    *)
(* start.                                                                   *)
Abandon(T) ==
    /\ failures < MaxFailures
    /\ \E t \in T : pc[t] # "off"
    /\ pc' = [t \in Threads |-> IF t \in T THEN "off" ELSE pc[t]]
    /\ row' = [t \in Threads |-> IF t \in T THEN NoRow ELSE row[t]]
    /\ at' = [t \in Threads |-> IF t \in T THEN NoJob ELSE at[t]]
    /\ due' = IF "tick" \in T THEN {} ELSE due
    /\ lost' = lost \union {at[t] : t \in {q \in T \ {"client"} : pc[q] = "deliver"}}
    /\ failures' = failures + 1
    /\ UNCHANGED <<now, job, fire, busy, runs, delivered, changes>>

Crash == Abandon(Threads)
GiveUp == Abandon({"now"})

FireStep(t) ==
    \/ CreateFire(t) \/ DuplicateFire(t)
    \/ AcceptRun(t) \/ LeaveRunning(t) \/ GiveUpBusy(t) \/ RefuseTrigger(t)
    \/ CompleteFire(t) \/ Deliver(t) \/ DeliverFails(t) \/ FailFire(t)
    \/ ReadToAdvance(t) \/ StoreAdvanced(t)

Next ==
    \/ Clock \/ ClientRun \/ RunEnds
    \/ Tick \/ FireNext
    \/ \E j \in AskedNow : RunNow(j)
    \/ \E j \in Jobs : ReadToChange(j)
    \/ \E t \in {"tick", "now"} : FireStep(t)
    \/ StoreChanged
    \/ Crash \/ GiveUp

Spec == Init /\ [][Next]_vars

(* The ticker goes on, statements return and time passes; clients need not  *)
(* ask for anything, and nothing frees a busy session.                      *)
Fairness ==
    /\ WF_vars(Clock)
    /\ WF_vars(Tick \/ FireNext)
    /\ \A t \in {"tick", "now"} : WF_vars(FireStep(t))
    /\ WF_vars(StoreChanged)

FairSpec == Spec /\ Fairness
-----------------------------------------------------------------------------
JobRows == [status : {"active", "stopped"}, due : 0 .. LastTime, last : 0 .. LastTime]

TypeOK ==
    /\ now \in 0 .. LastTime
    /\ job \in [Jobs -> JobRows]
    /\ fire \in [Fires -> [status : {"none", "running", "completed", "failed"}, id : FireIds]]
    /\ busy \in BOOLEAN
    /\ runs \subseteq {<<f[1], f[2], i>> : f \in Fires, i \in FireIds}
    /\ due \subseteq Fires

(* A schedule of a job starts one run however often it is tried: after a    *)
(* busy session, a crash, a refused update or a tick that listed the job    *)
(* anew (service.go: handleDuplicateFire; runs.go: triggeredRun).           *)
OneRunPerSchedule == \A r, q \in runs : (r[1] = q[1] /\ r[2] = q[2]) => r = q

(* A job goes on to its next time, or is completed, only once the time it   *)
(* was due at has been settled: a busy session's reminder is not passed     *)
(* over (service.go: runFire, advanceJob).                                  *)
PassesOnlySettled == \A j \in Jobs : job[j].last # Never => Settled(<<j, job[j].last>>)

(* A run's result goes to the job's clients once; it is missing only where  *)
(* a thread ended between the fire's update and the deliveries, or failed   *)
(* to make them (service.go: runFire, createRunDeliveries).                 *)
DeliveredOnce ==
    \A f \in Fires :
        /\ delivered[f] <= 1
        /\ (delivered[f] = 0 /\ fire[f].status = "completed" /\ f \notin lost)
              => \E t \in {"tick", "now"} : pc[t] = "deliver" /\ at[t] = f

(* A due job is fired and its fire settled, unless clients change the job   *)
(* meanwhile, however long its session stays busy (service.go: Tick,        *)
(* busyRetryWindow).                                                        *)
DueSettles ==
    \A j \in Jobs, t \in {n \in Times : n + BusyWindow <= LastTime} :
        (job[j].status = "active" /\ job[j].due = t) ~> (Settled(<<j, t>>) \/ job[j].due # t)

(* A fire left running is tried again, one asked for now included           *)
(* (service.go:352).                                                        *)
RunningSettles ==
    \A j \in Jobs : (fire[<<j, Asked>>].status = "running") ~> Settled(<<j, Asked>>)
=============================================================================
