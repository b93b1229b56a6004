---------------------------- MODULE RunLifecycle ----------------------------
(***************************************************************************)
(* The life of the runs of one session (internal/core with the engine loop *)
(* of internal/agent): accepting, claiming and executing a run, its tool   *)
(* batches with approvals and barriers, parking and waking, canceling, and *)
(* what a stop, a crash and the next start of the daemon make of it.       *)
(*                                                                         *)
(* The store survives a crash, the rest does not.  A section of the code   *)
(* under the session gate is one action; what is read before the gate is   *)
(* taken, or done after it is released, is a job of its own.               *)
(***************************************************************************)
EXTENDS Naturals, FiniteSets

CONSTANTS Runs,           \* the runs the session may accept
          Calls,          \* tool call ids, in the order the model makes them
          Tasks,          \* background commands
          Owner,          \* the run each call belongs to
          Starter,        \* the run each task is started by
          Mutating,       \* the calls whose tool changes things
          Awaiting,       \* the calls of the await tool
          MaxRecoveries,  \* maxRunRecoveryAttempts
          MaxSpawned,     \* bound: goroutines of a run that did not register yet
          MaxCrashes,     \* bound: stops and crashes of the daemon
          RequestsEnd     \* whether a client may go before its request is served

ASSUME CallsAssumption == Calls \subseteq Nat /\ IsFiniteSet(Calls)
ASSUME OwnerAssumption == Owner \in [Calls -> Runs] /\ Starter \in [Tasks -> Runs]
ASSUME ToolAssumption == /\ Mutating \subseteq Calls /\ Awaiting \subseteq Calls
                         /\ Mutating \intersect Awaiting = {}
ASSUME BoundAssumption == /\ MaxRecoveries \in Nat /\ MaxSpawned \in Nat \ {0}
                          /\ MaxCrashes \in Nat /\ RequestsEnd \in BOOLEAN

VARIABLES
    (* the store *)
    status,      \* runs.status
    ck,          \* RunCheckpoint: recovery count, the open batch's deferred calls, await
    wakeup,      \* the RunWakeup row: a set with at most one await
    steer,       \* runs with a pending steer input
    call,        \* the journal of each call
    ap,          \* the newest approval of each call
    task,        \* background tasks
    delivered,   \* the ended tasks whose event a run consumed
    due,         \* runs whose await's time ran out
    (* what happened, for the properties *)
    ran,         \* calls whose tool took effect
    fresh,       \* calls approved since their tool last took effect
    (* the daemon *)
    up,          \* "starting" until Recover listed the runs; "stopping" after its lifetime
    exec,        \* where the registered executor of a run stands
    stop,        \* the cause its context stopped for
    await,       \* RunState.Await: a set with at most one await
    kept,        \* claimedRun.Batch.DeferredIDs of a recovered run
    slot,        \* batchCall.state
    result,      \* the await a returned call's result carries: a set with at most one
    spawned,     \* goroutines started for a run and not registered yet
    scheduled,   \* scheduledRuns, within its lease
    cancel,      \* where CancelRun of a run stands
    jobs,        \* work begun outside the gate and not done yet
    told,        \* ended tasks whose taskFinished has not looked yet
    crashes

tools  == <<call, ap, slot, result, ran, fresh>>
waits  == <<wakeup, steer, task, delivered, due, told>>
starts == <<spawned, scheduled, jobs>>
engine == <<exec, stop, await, kept>>
daemon == <<up, cancel, crashes>>
vars   == <<status, ck, tools, waits, starts, engine, daemon>>

-----------------------------------------------------------------------------
Ended  == {"completed", "failed", "canceled"}
Active == {"accepted", "running", "waiting_approval", "waiting_events"}

CallsOf(r) == {c \in Calls : Owner[c] = r}
TasksOf(r) == {t \in Tasks : Starter[t] = r}

NoCheckpoint == [recoveries |-> 0, inBatch |-> FALSE, deferred |-> {}, await |-> {}]

Job(op, r) == [op |-> op, run |-> r]
JobOps == {"accept", "start", "resume", "steered", "wake", "after"}
(* Done in the context of a client's request, which may end before them. *)
RequestOps == {"resume", "steered"}

Alive    == up \in {"starting", "up", "stopping"}
Lifetime == up \in {"starting", "up"}

Working  == {"unpark", "recover", "recovering", "step", "await", "drain", "model",
             "admit", "batch", "settle", "sleep", "park", "save", "seal",
             "complete", "fail"}
Stepping == {"recover", "recovering", "step", "await", "drain", "model", "admit",
             "batch", "settle", "sleep"}

-----------------------------------------------------------------------------
(* Approvals of a run: runHasPendingApprovals, Decisions.                   *)
HasOpenApproval(r) == \E c \in CallsOf(r) : ap[c] = "pending"
Granted(r)  == {c \in CallsOf(r) : ap[c] = "approved" /\ call[c] = "journaled"}
Denied(r)   == {c \in CallsOf(r) : ap[c] = "rejected" /\ call[c] = "journaled"}
Deferred(r) == {c \in CallsOf(r) : call[c] = "deferred"}

(* deferredCalls: held back behind c, with no started call between them.    *)
HeldBehind(c) == {d \in Deferred(Owner[c]) :
                    /\ c < d
                    /\ \A e \in CallsOf(Owner[c]) :
                         c < e /\ e < d => call[e] \in {"none", "deferred"}}

(* rejectRunApprovals. *)
RejectOpen(r) == [c \in Calls |->
                    IF Owner[c] = r /\ ap[c] = "pending" THEN "rejected" ELSE ap[c]]

-----------------------------------------------------------------------------
(* Waiting: agent.AwaitOver and Core.waitOver.                              *)
AwaitOver(w, r) == \/ r \in steer
                   \/ \E t \in w : task[t] = "ended"
                   \/ w = {} /\ \E t \in Tasks : task[t] = "ended" /\ t \notin delivered
                   \/ r \in due

WaitOver(r) == wakeup[r] = {} \/ \E w \in wakeup[r] : AwaitOver(w, r)

-----------------------------------------------------------------------------
(* Mutant: the store takes a change of a run that ended. *)
Committed_Unsealed(r) == status[r] = status[r]

(* transition: the store refuses a change of an ended run (ErrRunEnded).    *)
Committed(r) == status[r] \notin Ended

Commit(r, to) == status' = IF Committed(r) THEN [status EXCEPT ![r] = to] ELSE status

Goto(r, pc) == exec' = [exec EXCEPT ![r] = pc]

(* saveEngineCheckpoint in the model phase: a batch before it means a step  *)
(* finished, which resets the recovery count.                               *)
ModelCheckpoint(r) ==
    ck' = [ck EXCEPT ![r] = [recoveries |-> IF @.inBatch THEN 0 ELSE @.recoveries,
                             inBatch |-> FALSE, deferred |-> {}, await |-> await[r]]]

(* startRun: nothing while an executor is registered or, within the lease,  *)
(* one is scheduled.                                                        *)
StartRun(r) ==
    \/ /\ exec[r] # "off" \/ scheduled[r] \/ ~Lifetime
       /\ UNCHANGED <<spawned, scheduled>>
    \/ /\ exec[r] = "off" /\ ~scheduled[r] /\ Lifetime
       /\ spawned' = [spawned EXCEPT ![r] = @ + 1]
       /\ scheduled' = [scheduled EXCEPT ![r] = TRUE]

-----------------------------------------------------------------------------
(* A daemon that starts on a session none of whose runs is active. *)
Idle ==
    /\ ck = [r \in Runs |-> NoCheckpoint]
    /\ wakeup = [r \in Runs |-> {}]
    /\ steer = {} /\ delivered = {} /\ due = {} /\ told = {} /\ jobs = {}
    /\ call = [c \in Calls |-> "none"]
    /\ ap = [c \in Calls |-> "none"]
    /\ ran = {} /\ fresh = {}
    /\ up = "starting"
    /\ exec = [r \in Runs |-> "off"]
    /\ stop = [r \in Runs |-> "no"]
    /\ await = [r \in Runs |-> {}]
    /\ kept = [r \in Runs |-> {}]
    /\ slot = [c \in Calls |-> "idle"] /\ result = [c \in Calls |-> {}]
    /\ spawned = [r \in Runs |-> 0]
    /\ scheduled = [r \in Runs |-> FALSE]
    /\ cancel = [r \in Runs |-> "no"]
    /\ crashes = 0

Init == /\ Idle
        /\ status = [r \in Runs |-> "none"]
        /\ task = [t \in Tasks |-> "none"]

-----------------------------------------------------------------------------
(* Clients.                                                                 *)

(* acceptUnderGate and acceptIdleRun: an idle session takes the message as  *)
(* a new run.                                                               *)
AcceptRun(r) ==
    /\ Alive
    /\ status[r] = "none"
    /\ \A s \in Runs : status[s] \notin Active
    /\ status' = [status EXCEPT ![r] = "accepted"]
    /\ jobs' = jobs \union {Job("accept", r)}
    /\ UNCHANGED <<ck, tools, waits, spawned, scheduled, engine, daemon>>

(* acceptUnderGate: a busy session takes it as a steer of the active run,   *)
(* and wakes that run when it waits.                                        *)
Steer(r) ==
    /\ Alive
    /\ status[r] \in Active
    /\ r \notin steer
    /\ steer' = steer \union {r}
    /\ jobs' = IF status[r] = "waiting_events" THEN jobs \union {Job("steered", r)} ELSE jobs
    /\ UNCHANGED <<status, ck, tools, wakeup, task, delivered, due, told, spawned,
                   scheduled, engine, daemon>>

(* ResolveApproval: DecideApproval writes a pending approval only.          *)
ResolveApproval(c, decision) ==
    /\ Alive
    /\ ap[c] = "pending"
    /\ ap' = [ap EXCEPT ![c] = decision]
    /\ fresh' = IF decision = "approved" THEN fresh \union {c} ELSE fresh
    /\ jobs' = jobs \union {Job("resume", Owner[c])}
    /\ UNCHANGED <<status, ck, call, slot, result, ran, waits, spawned, scheduled, engine, daemon>>

-----------------------------------------------------------------------------
(* What follows outside the gate.                                           *)

(* resumeDecidedRun, and afterRun of a run waiting for approval.            *)
ResumeDecided(r) ==
    IF status[r] = "waiting_approval" /\ ~HasOpenApproval(r)
    THEN StartRun(r) ELSE UNCHANGED <<spawned, scheduled>>

(* wakeWaitingRun. *)
WakeWaiting(r) ==
    IF status[r] = "waiting_events" /\ WaitOver(r)
    THEN StartRun(r) ELSE UNCHANGED <<spawned, scheduled>>

Take(op, r) == Job(op, r) \in jobs /\ jobs' = jobs \ {Job(op, r)}

(* startRun of an accepted run; one that cannot start fails.                *)
StartAccepted(r) ==
    /\ Alive
    /\ Take("accept", r)
    /\ \/ Lifetime /\ StartRun(r) /\ UNCHANGED status
       \/ ~Lifetime /\ Commit(r, "failed") /\ UNCHANGED <<spawned, scheduled>>
    /\ UNCHANGED <<ck, tools, waits, engine, daemon>>

(* startRun of a run recoverRuns found neither parked nor ended. *)
StartRecovered(r) ==
    /\ Alive
    /\ Take("start", r)
    /\ StartRun(r)
    /\ UNCHANGED <<status, ck, tools, waits, engine, daemon>>

Resume(r) ==
    /\ Alive
    /\ Take("resume", r)
    /\ ResumeDecided(r)
    /\ UNCHANGED <<status, ck, tools, waits, engine, daemon>>

Wake(r) ==
    /\ Alive
    /\ Take("wake", r) \/ Take("steered", r)
    /\ WakeWaiting(r)
    /\ UNCHANGED <<status, ck, tools, waits, engine, daemon>>

(* Mutant: what arrived while a run parked is left to the next event. *)
AfterRun_EndedOnly(r) ==
    /\ Alive
    /\ Take("after", r)
    /\ steer' = IF Lifetime /\ status[r] \in Ended THEN steer \ {r} ELSE steer
    /\ UNCHANGED <<status, ck, tools, wakeup, task, delivered, due, told, spawned, scheduled,
                   engine, daemon>>

(* afterRun: the steers that missed an ended run are queued for the next    *)
(* one; a parked run starts when what it waits for arrived meanwhile.       *)
AfterRun(r) ==
    /\ Alive
    /\ Take("after", r)
    /\ IF Lifetime
       THEN /\ steer' = IF status[r] \in Ended THEN steer \ {r} ELSE steer
            /\ IF status[r] = "waiting_events" THEN WakeWaiting(r) ELSE ResumeDecided(r)
       ELSE UNCHANGED <<steer, spawned, scheduled>>
    /\ UNCHANGED <<status, ck, tools, wakeup, task, delivered, due, told, engine, daemon>>

(* The client of a request goes: the rest of its work fails.                *)
DropJob(j) ==
    /\ RequestsEnd
    /\ j \in jobs /\ j.op \in RequestOps
    /\ jobs' = jobs \ {j}
    /\ UNCHANGED <<status, ck, tools, waits, spawned, scheduled, engine, daemon>>

(* taskFinished reads the session's active run and wakes one that waits.    *)
TaskFinished(t) ==
    /\ t \in told /\ Alive
    /\ told' = told \ {t}
    /\ jobs' = jobs \union {Job("wake", r) : r \in
                  {s \in Runs : Lifetime /\ status[s] \in {"waiting_events", "waiting_approval"}}}
    /\ UNCHANGED <<status, ck, tools, wakeup, steer, task, delivered, due, spawned,
                   scheduled, engine, daemon>>

(* WakeDueRuns, once a second. *)
WakeDueRun(r) ==
    /\ Lifetime
    /\ wakeup[r] # {} /\ r \in due
    /\ WakeWaiting(r)
    /\ UNCHANGED <<status, ck, tools, waits, jobs, engine, daemon>>

(* The time an await gives runs out. *)
TimeRunsOut(r) ==
    /\ r \notin due
    /\ wakeup[r] # {} \/ await[r] # {} \/ ck[r].await # {} \/ \E c \in CallsOf(r) : result[c] # {}
    /\ due' = due \union {r}
    /\ UNCHANGED <<status, ck, tools, wakeup, steer, task, delivered, told, starts,
                   engine, daemon>>

(* watchShellTask: a command ends by itself. While the daemon stops, its    *)
(* task stays running in the store.                                         *)
TaskEnds(t) ==
    /\ Lifetime
    /\ task[t] = "running"
    /\ task' = [task EXCEPT ![t] = "ended"]
    /\ told' = told \union {t}
    /\ UNCHANGED <<status, ck, tools, wakeup, steer, delivered, due, starts, engine, daemon>>

-----------------------------------------------------------------------------
(* An executor: activeRunContext, claim.                                    *)

(* A goroutine that finds another executor registered returns.              *)
Register(r) ==
    /\ spawned[r] > 0 /\ Alive
    /\ spawned' = [spawned EXCEPT ![r] = @ - 1]
    /\ IF exec[r] = "off"
       THEN /\ Goto(r, "claim")
            /\ stop' = [stop EXCEPT ![r] = IF Lifetime THEN "no" ELSE "interrupted"]
            /\ scheduled' = [scheduled EXCEPT ![r] = FALSE]
       ELSE UNCHANGED <<exec, stop, scheduled>>
    /\ UNCHANGED <<status, ck, tools, waits, jobs, await, kept, daemon>>

(* runScheduleLease passes before a scheduled goroutine registers: the next *)
(* startRun starts another.                                                 *)
LeaseLapses(r) ==
    /\ scheduled[r] /\ spawned[r] < MaxSpawned
    /\ scheduled' = [scheduled EXCEPT ![r] = FALSE]
    /\ UNCHANGED <<status, ck, tools, waits, spawned, jobs, engine, daemon>>

(* release, and afterRun after it unless the lifetime ended. *)
Release(r) ==
    /\ exec[r] = "release"
    /\ Goto(r, "off")
    /\ stop' = [stop EXCEPT ![r] = "no"]
    /\ await' = [await EXCEPT ![r] = {}]
    /\ kept' = [kept EXCEPT ![r] = {}]
    /\ jobs' = IF Lifetime THEN jobs \union {Job("after", r)} ELSE jobs
    /\ UNCHANGED <<status, ck, tools, waits, spawned, scheduled, daemon>>

(* claimGated leaves an ended run and one still waiting for approval.       *)
ClaimRefused(r) ==
    /\ exec[r] = "claim"
    /\ \/ ~Lifetime
       \/ ~Committed(r)
       \/ /\ status[r] = "waiting_approval"
          /\ HasOpenApproval(r)
    /\ Goto(r, "release")
    /\ UNCHANGED <<status, ck, tools, waits, starts, stop, await, kept, daemon>>

(* Mutant: a parked run is executed before it is marked running.           *)
ClaimRun_Late(r) ==
    /\ exec[r] = "claim" /\ Lifetime
    /\ status[r] \in {"accepted", "waiting_approval", "waiting_events"}
    /\ status[r] = "waiting_approval" => ~HasOpenApproval(r)
    /\ Goto(r, IF status[r] = "waiting_events" THEN "unpark" ELSE "step")
    /\ status' = IF status[r] # "accepted" THEN status ELSE [status EXCEPT ![r] = "running"]
    /\ await' = [await EXCEPT ![r] = ck[r].await]
    /\ UNCHANGED <<ck, tools, waits, starts, stop, kept, daemon>>

(* A parked or accepted run becomes running.                                *)
ClaimRun(r) ==
    /\ exec[r] = "claim" /\ Lifetime
    /\ status[r] \in {"accepted", "waiting_approval", "waiting_events"}
    /\ status[r] = "waiting_approval" => ~HasOpenApproval(r)
    /\ Goto(r, IF status[r] = "waiting_events" THEN "unpark" ELSE "step")
    /\ status' = [status EXCEPT ![r] = "running"]
    /\ await' = [await EXCEPT ![r] = ck[r].await]
    /\ UNCHANGED <<ck, tools, waits, starts, stop, kept, daemon>>

(* A run found running was interrupted: markRunRecovery counts it and drops *)
(* the batch; a run past the limit fails.                                   *)
ClaimInterrupted(r) ==
    /\ exec[r] = "claim" /\ Lifetime
    /\ status[r] = "running"
    /\ ck' = [ck EXCEPT ![r] = [recoveries |-> @.recoveries + 1, inBatch |-> FALSE,
                                deferred |-> {}, await |-> @.await]]
    /\ kept' = [kept EXCEPT ![r] = ck[r].deferred]
    /\ await' = [await EXCEPT ![r] = ck[r].await]
    /\ Goto(r, IF ck'[r].recoveries > MaxRecoveries THEN "fail" ELSE "recover")
    /\ UNCHANGED <<status, tools, waits, starts, stop, daemon>>

(* afterCommit drops the wakeup of a run that no longer waits. *)
Unpark(r) ==
    /\ exec[r] = "unpark"
    /\ wakeup' = [wakeup EXCEPT ![r] = {}]
    /\ Goto(r, "step")
    /\ UNCHANGED <<status, ck, tools, steer, task, delivered, due, told, starts, stop,
                   await, kept, daemon>>

-----------------------------------------------------------------------------
(* run.recover: each call without a result whose approval is neither        *)
(* pending nor denied is settled.                                           *)
FindLost(r) ==
    /\ exec[r] = "recover" /\ stop[r] = "no"
    /\ slot' = [c \in Calls |->
                  IF Owner[c] = r /\ call[c] = "journaled" /\ ap[c] \notin {"pending", "rejected"}
                  THEN "lost" ELSE slot[c]]
    /\ Goto(r, "recovering")
    /\ UNCHANGED <<status, ck, call, ap, result, ran, fresh, waits, starts, stop, await, kept, daemon>>

(* Tools.Recovery: a call the open batch deferred never started and a       *)
(* read-only one may repeat, so they run again; an unknown tool's call is   *)
(* answered; any other one is asked about.                                  *)
SettleLost(c) ==
    /\ slot[c] = "lost"
    /\ exec[Owner[c]] = "recovering" /\ stop[Owner[c]] = "no"
    /\ \/ /\ c \in kept[Owner[c]] \/ c \notin Mutating
          /\ call' = [call EXCEPT ![c] = "deferred"]
          /\ UNCHANGED ap
       \/ /\ c \notin kept[Owner[c]] /\ c \in Mutating
          /\ ap' = [ap EXCEPT ![c] = "pending"]
          /\ UNCHANGED call
       \/ /\ c \notin kept[Owner[c]]
          /\ call' = [call EXCEPT ![c] = "answered"]
          /\ UNCHANGED ap
    /\ slot' = [slot EXCEPT ![c] = "idle"]
    /\ UNCHANGED <<status, ck, result, ran, fresh, waits, starts, engine, daemon>>

Recovered(r) ==
    /\ exec[r] = "recovering" /\ stop[r] = "no"
    /\ \A c \in CallsOf(r) : slot[c] # "lost"
    /\ Goto(r, "step")
    /\ UNCHANGED <<status, ck, tools, waits, starts, stop, await, kept, daemon>>

-----------------------------------------------------------------------------
(* run.step: resumeDecided. *)

(* denyCall: the calls its barrier held back are answered too. *)
DenyCall(c) ==
    /\ exec[Owner[c]] = "step" /\ stop[Owner[c]] = "no"
    /\ c \in Denied(Owner[c])
    /\ call' = [d \in Calls |-> IF d = c \/ d \in HeldBehind(c) THEN "answered" ELSE call[d]]
    /\ UNCHANGED <<status, ck, ap, slot, result, ran, fresh, waits, starts, engine, daemon>>

Enqueue(r, S) == slot' = [c \in Calls |-> IF c \in S THEN "queued" ELSE slot[c]]

(* The granted calls run, then, once none is pending, the deferred ones.    *)
RunDecided(r) ==
    /\ exec[r] = "step" /\ stop[r] = "no"
    /\ Denied(r) = {}
    /\ \/ Granted(r) # {} /\ Enqueue(r, Granted(r))
       \/ /\ Granted(r) = {} /\ ~HasOpenApproval(r)
          /\ Deferred(r) # {} /\ Enqueue(r, Deferred(r))
    /\ Goto(r, "admit")
    /\ UNCHANGED <<status, ck, call, ap, result, ran, fresh, waits, starts, stop, await, kept, daemon>>

(* Mutant: the deferred calls of an earlier batch are forgotten. *)
NothingDecided_SkipsDeferred(r) ==
    /\ exec[r] = "step" /\ stop[r] = "no"
    /\ Denied(r) = {} /\ Granted(r) = {}
    /\ \/ HasOpenApproval(r) /\ Goto(r, "settle")
       \/ ~HasOpenApproval(r) /\ Goto(r, "await")
    /\ UNCHANGED <<status, ck, tools, waits, starts, stop, await, kept, daemon>>

NothingDecided(r) ==
    /\ exec[r] = "step" /\ stop[r] = "no"
    /\ Denied(r) = {} /\ Granted(r) = {}
    /\ \/ HasOpenApproval(r) /\ Goto(r, "settle")
       \/ ~HasOpenApproval(r) /\ Deferred(r) = {} /\ Goto(r, "await")
    /\ UNCHANGED <<status, ck, tools, waits, starts, stop, await, kept, daemon>>

-----------------------------------------------------------------------------
(* resumeAwait: a run that called await goes on once its await is over; the *)
(* steers that woke it are journaled and consumed.                          *)
CheckAwait(r) ==
    /\ exec[r] = "await" /\ stop[r] = "no"
    /\ IF \A w \in await[r] : AwaitOver(w, r)
       THEN /\ await' = [await EXCEPT ![r] = {}]
            /\ steer' = IF await[r] # {} THEN steer \ {r} ELSE steer
            /\ Goto(r, "drain")
       ELSE Goto(r, "sleep") /\ UNCHANGED <<await, steer>>
    /\ UNCHANGED <<status, ck, tools, wakeup, task, delivered, due, told, starts, stop,
                   kept, daemon>>

(* drainEvents: journals the end of a task and marks it delivered. *)
DrainEvent(r, t) ==
    /\ exec[r] = "drain" /\ stop[r] = "no"
    /\ task[t] = "ended" /\ t \notin delivered
    /\ delivered' = delivered \union {t}
    /\ UNCHANGED <<status, ck, tools, wakeup, steer, task, due, told, starts, engine, daemon>>

(* appendSteers, and the checkpoint before the model is asked. *)
AskModel(r) ==
    /\ exec[r] = "drain" /\ stop[r] = "no"
    /\ \A t \in Tasks : task[t] = "ended" => t \in delivered
    /\ steer' = steer \ {r}
    /\ ModelCheckpoint(r)
    /\ Goto(r, "model")
    /\ UNCHANGED <<status, tools, wakeup, task, delivered, due, told, starts, stop, await,
                   kept, daemon>>

(* handleResponse: a batch of new calls, or the final reply.                *)
ModelCalls(r, S) ==
    /\ exec[r] = "model" /\ stop[r] = "no"
    /\ S # {}
    /\ \A c \in S : call[c] = "none"
    /\ \A c \in S, d \in CallsOf(r) : call[d] # "none" => d < c
    /\ Enqueue(r, S)
    /\ Goto(r, "admit")
    /\ UNCHANGED <<status, ck, call, ap, result, ran, fresh, waits, starts, stop, await, kept, daemon>>

(* A reply that was cut, cannot be read or leaves work open is followed by  *)
(* a note and a further step.                                               *)
ModelReplies(r) ==
    /\ exec[r] = "model" /\ stop[r] = "no"
    /\ \E place \in {"complete", "step"} : Goto(r, place)
    /\ UNCHANGED <<status, ck, tools, waits, starts, stop, await, kept, daemon>>

-----------------------------------------------------------------------------
(* A tool batch: runCalls. *)

Queued(r) == {c \in CallsOf(r) : slot[c] = "queued"}

(* Mutant: a call that asks holds the others only once its batch started. *)
CanAdmit_OnceLaunched(r) == \A c \in CallsOf(r) \intersect Mutating : slot[c] \notin {"asking", "asked"}

(* No admitted barrier is open: a mutating call that asks holds the calls   *)
(* after it until its approval is known, and once it asked for good.        *)
CanAdmit(r) == \A c \in CallsOf(r) \intersect Mutating : slot[c] \notin {"toAsk", "asking", "asked"}

(* admit takes one call: Authorize refuses it, lets it run or makes it ask  *)
(* (never a call whose newest approval granted it); startCall journals it.  *)
AdmitCall(c) ==
    LET r == Owner[c] IN
    /\ exec[r] = "admit" /\ stop[r] = "no"
    /\ slot[c] = "queued" /\ CanAdmit(r)
    /\ \A d \in Queued(r) : c <= d
    /\ \/ /\ slot' = [slot EXCEPT ![c] = "finished"]
          /\ UNCHANGED call
       \/ /\ slot' = [slot EXCEPT ![c] = "toRun"]
          /\ call' = [call EXCEPT ![c] = "journaled"]
       \/ /\ ap[c] # "approved"
          /\ slot' = [slot EXCEPT ![c] = "toAsk"]
          /\ call' = [call EXCEPT ![c] = "journaled"]
    /\ UNCHANGED <<status, ck, ap, result, ran, fresh, waits, starts, engine, daemon>>

(* Mutant: a call stays listed as deferred once its batch starts it. *)
LaunchBatch_KeepsDeferred(r) ==
    /\ exec[r] = "admit" /\ stop[r] = "no"
    /\ Queued(r) = {} \/ ~CanAdmit(r)
    /\ call' = [c \in Calls |-> IF c \in Queued(r) /\ call[c] = "none" THEN "deferred" ELSE call[c]]
    /\ ck' = [ck EXCEPT ![r] = [recoveries |-> @.recoveries, inBatch |-> TRUE,
                                deferred |-> @.deferred \union Queued(r), await |-> await[r]]]
    /\ slot' = [c \in Calls |->
                  CASE Owner[c] = r /\ slot[c] = "toRun" -> "running"
                    [] Owner[c] = r /\ slot[c] = "toAsk" -> "asking"
                    [] OTHER -> slot[c]]
    /\ Goto(r, "batch")
    /\ UNCHANGED <<status, ap, result, ran, fresh, waits, starts, stop, await, kept, daemon>>

(* The rest of admit: the calls behind a barrier are journaled deferred,    *)
(* the batch is checkpointed, and only then the admitted calls start.       *)
LaunchBatch(r) ==
    /\ exec[r] = "admit" /\ stop[r] = "no"
    /\ Queued(r) = {} \/ ~CanAdmit(r)
    /\ call' = [c \in Calls |-> IF c \in Queued(r) /\ call[c] = "none" THEN "deferred" ELSE call[c]]
    /\ ck' = [ck EXCEPT ![r] = [recoveries |-> @.recoveries, inBatch |-> TRUE,
                                deferred |-> Queued(r), await |-> await[r]]]
    /\ slot' = [c \in Calls |->
                  CASE Owner[c] = r /\ slot[c] = "toRun" -> "running"
                    [] Owner[c] = r /\ slot[c] = "toAsk" -> "asking"
                    [] OTHER -> slot[c]]
    /\ Goto(r, "batch")
    /\ UNCHANGED <<status, ap, result, ran, fresh, waits, starts, stop, await, kept, daemon>>

(* What an await tool's result asks for: nothing when no task runs, any of  *)
(* them, or some it names.                                                  *)
AwaitResults == LET running == {t \in Tasks : task[t] = "running"} IN
                {{}} \union IF running = {} THEN {}
                            ELSE {{{}}} \union {{w} : w \in SUBSET running \ {{}}}

(* A tool takes effect on its own goroutine, whatever became of the run     *)
(* meanwhile.  It may leave a command running in the background; an await   *)
(* may start its time.                                                      *)
RunTool(c) ==
    /\ slot[c] = "running"
    /\ slot' = [slot EXCEPT ![c] = "returned"]
    /\ ran' = ran \union {c}
    /\ fresh' = fresh \ {c}
    /\ \/ UNCHANGED <<task, result, due>>
       \/ /\ c \notin Awaiting
          /\ \E t \in TasksOf(Owner[c]) : /\ task[t] = "none"
                                          /\ task' = [task EXCEPT ![t] = "running"]
          /\ UNCHANGED <<result, due>>
       \/ /\ c \in Awaiting
          /\ \E a \in AwaitResults \ {{}} : result' = [result EXCEPT ![c] = a]
          /\ due' = due \ {Owner[c]}
          /\ UNCHANGED task
    /\ UNCHANGED <<status, ck, call, ap, wakeup, steer, delivered, told, starts, engine, daemon>>

(* Between two returned calls the engine journals the finished ones in call *)
(* order, up to the first that still runs.                                  *)
Journalable(r) == {c \in CallsOf(r) : /\ slot[c] = "finished"
                                      /\ \A d \in CallsOf(r) : d < c =>
                                            slot[d] \notin {"running", "asking", "returned", "stopped"}}

Settling(r) == exec[r] = "batch" /\ stop[r] = "no" /\ Journalable(r) = {}

(* batch.settle of a call that asks: its approval is requested at once.     *)
(* Nothing checks that the run has not ended.                               *)
RequestApproval(c) ==
    /\ slot[c] = "asking"
    /\ Settling(Owner[c])
    /\ ap' = [ap EXCEPT ![c] = "pending"]
    /\ slot' = [slot EXCEPT ![c] = "asked"]
    /\ UNCHANGED <<status, ck, call, result, ran, fresh, waits, starts, engine, daemon>>

(* Preview refuses a call that would ask: admission goes on behind it.      *)
RefuseCall(c) ==
    LET r == Owner[c] IN
    /\ slot[c] = "asking"
    /\ Settling(r)
    /\ slot' = [slot EXCEPT ![c] = "finished"]
    /\ Goto(r, IF Queued(r) # {} /\ CanAdmit(r)' THEN "admit" ELSE "batch")
    /\ UNCHANGED <<status, ck, call, ap, result, ran, fresh, waits, starts, stop, await, kept, daemon>>

(* record: an await's result parks the run after the batch.                 *)
RecordCall(c) ==
    LET r == Owner[c] IN
    /\ slot[c] = "returned"
    /\ Settling(r)
    /\ slot' = [slot EXCEPT ![c] = "finished"]
    /\ result' = [result EXCEPT ![c] = {}]
    /\ await' = IF result[c] # {} THEN [await EXCEPT ![r] = result[c]] ELSE await
    /\ UNCHANGED <<status, ck, call, ap, ran, fresh, waits, starts, exec, stop, kept, daemon>>

JournalCall(c) ==
    LET r == Owner[c] IN
    /\ exec[r] = "batch" /\ stop[r] = "no"
    /\ c \in Journalable(r)
    /\ call' = [call EXCEPT ![c] = "answered"]
    /\ slot' = [slot EXCEPT ![c] = "idle"]
    /\ UNCHANGED <<status, ck, ap, result, ran, fresh, waits, starts, engine, daemon>>

EndBatch(r) ==
    /\ exec[r] = "batch" /\ stop[r] = "no"
    /\ \A c \in CallsOf(r) : slot[c] \notin {"running", "asking", "returned", "finished"}
    /\ Goto(r, IF \E c \in CallsOf(r) : slot[c] = "asked" THEN "settle" ELSE "step")
    /\ slot' = [c \in Calls |-> IF Owner[c] = r THEN "idle" ELSE slot[c]]
    /\ UNCHANGED <<status, ck, call, ap, result, ran, fresh, waits, starts, stop, await, kept, daemon>>

-----------------------------------------------------------------------------
(* Leaving the engine: run.settle, Engine.Run, applyOutcome. *)

(* A run that asked parks only while a decision is still pending. *)
SettleApproval(r) ==
    /\ exec[r] = "settle" /\ stop[r] = "no"
    /\ IF HasOpenApproval(r)
       THEN ModelCheckpoint(r) /\ Goto(r, "park")
       ELSE Goto(r, "step") /\ UNCHANGED ck
    /\ UNCHANGED <<status, tools, waits, starts, stop, await, kept, daemon>>

SettleAwait(r) ==
    /\ exec[r] = "sleep" /\ stop[r] = "no"
    /\ ModelCheckpoint(r)
    /\ Goto(r, "save")
    /\ UNCHANGED <<status, tools, waits, starts, stop, await, kept, daemon>>

(* An interrupted step that had reached a wait commits it, though without   *)
(* the checkpoint; for an approval only while one is pending.               *)
ParkInterrupted(r) ==
    /\ stop[r] = "interrupted"
    /\ \/ exec[r] = "settle" /\ HasOpenApproval(r) /\ Goto(r, "park")
       \/ exec[r] = "sleep" /\ Goto(r, "save")
    /\ UNCHANGED <<status, ck, tools, waits, starts, stop, await, kept, daemon>>

(* batch.keep: the calls of a stopped batch in S get their result.          *)
KeepResults(r, S) ==
    /\ call' = [c \in Calls |-> IF c \in S THEN "answered" ELSE call[c]]
    /\ slot' = [c \in Calls |-> IF Owner[c] = r THEN "idle" ELSE slot[c]]
    /\ result' = [c \in Calls |-> IF Owner[c] = r THEN {} ELSE result[c]]

InBatch(r) == {c \in CallsOf(r) : slot[c] \notin {"idle", "lost"}}

Drained(r) == \A c \in CallsOf(r) : slot[c] # "running"

(* A failed step answers every call of its batch. *)
EngineFails(r) ==
    /\ exec[r] \in Stepping /\ stop[r] = "no"
    /\ Drained(r)
    /\ KeepResults(r, InBatch(r))
    /\ Goto(r, "fail")
    /\ UNCHANGED <<status, ck, ap, ran, fresh, waits, starts, stop, await, kept, daemon>>

(* A stopped one drains its batch: a canceled run answers every call of it, *)
(* an interrupted one those that finished, whose tool returned well, and    *)
(* stays running for recovery.                                              *)
EngineStops(r) ==
    /\ exec[r] \in Stepping /\ stop[r] # "no"
    /\ Drained(r)
    /\ \E S \in SUBSET {c \in InBatch(r) : slot[c] = "returned"} :
          KeepResults(r, IF stop[r] = "canceled" THEN InBatch(r)
                         ELSE S \union {c \in InBatch(r) : slot[c] = "finished"})
    /\ Goto(r, "release")
    /\ UNCHANGED <<status, ck, ap, ran, fresh, waits, starts, stop, await, kept, daemon>>

(* A tool stopped with its run returns without its effect. *)
ToolStops(c) ==
    /\ slot[c] = "running" /\ stop[Owner[c]] # "no"
    /\ slot' = [slot EXCEPT ![c] = "stopped"]
    /\ UNCHANGED <<status, ck, call, ap, result, ran, fresh, waits, starts, engine, daemon>>

CommitPark(r) ==
    /\ exec[r] = "park"
    /\ Commit(r, "waiting_approval")
    /\ Goto(r, "release")
    /\ UNCHANGED <<ck, tools, waits, starts, stop, await, kept, daemon>>

(* Mutant: the status is committed before its wakeup is saved. *)
SaveWakeup_CommitsFirst(r) ==
    /\ exec[r] = "save"
    /\ Commit(r, "waiting_events")
    /\ Goto(r, "seal")
    /\ UNCHANGED <<ck, tools, waits, starts, stop, await, kept, daemon>>

(* commitRun saves the wakeup first ... *)
SaveWakeup(r) ==
    /\ exec[r] = "save"
    /\ wakeup' = [wakeup EXCEPT ![r] = await[r]]
    /\ Goto(r, "seal")
    /\ UNCHANGED <<status, ck, tools, steer, task, delivered, due, told, starts, stop,
                   await, kept, daemon>>

(* ... then the status, and drops the wakeup of a run that ended meanwhile. *)
CommitSleep(r) ==
    /\ exec[r] = "seal"
    /\ Commit(r, "waiting_events")
    /\ wakeup' = IF Committed(r) THEN wakeup ELSE [wakeup EXCEPT ![r] = {}]
    /\ Goto(r, "release")
    /\ UNCHANGED <<ck, tools, steer, task, delivered, due, told, starts, stop, await, kept, daemon>>

(* Mutant: the end of a run somebody else ended is tried again. *)
CommitEnd_Retries(r) ==
    /\ exec[r] \in {"complete", "fail"}
    /\ Commit(r, IF exec[r] = "complete" THEN "completed" ELSE "failed")
    /\ Goto(r, IF Committed(r) THEN "follow" ELSE exec[r])
    /\ UNCHANGED <<ck, tools, waits, starts, stop, await, kept, daemon>>

CommitEnd(r) ==
    /\ exec[r] \in {"complete", "fail"}
    /\ Commit(r, IF exec[r] = "complete" THEN "completed" ELSE "failed")
    /\ Goto(r, IF Committed(r) THEN "follow" ELSE "release")
    /\ UNCHANGED <<ck, tools, waits, starts, stop, await, kept, daemon>>

(* afterCommit of an ended run. *)
ClearEnded(r) ==
    /\ wakeup' = [wakeup EXCEPT ![r] = {}]
    /\ ck' = [ck EXCEPT ![r] = NoCheckpoint]
    /\ ap' = RejectOpen(r)

FollowEnd(r) ==
    /\ exec[r] = "follow"
    /\ ClearEnded(r)
    /\ Goto(r, "release")
    /\ UNCHANGED <<status, call, slot, result, ran, fresh, steer, task, delivered, due, told, starts,
                   stop, await, kept, daemon>>

(* The lifetime's end fails the writes of an outcome it did not interrupt.  *)
CommitFails(r) ==
    /\ up = "stopping"
    /\ exec[r] \in {"unpark", "park", "save", "seal", "complete", "fail", "follow"}
    /\ Goto(r, "release")
    /\ UNCHANGED <<status, ck, tools, waits, starts, stop, await, kept, daemon>>

-----------------------------------------------------------------------------
(* CancelRun: the record, its follow-up, the run's commands, and only then  *)
(* the executor.                                                            *)
CancelRecord(r) ==
    /\ Alive
    /\ cancel[r] = "no" /\ status[r] \in Active
    /\ status' = [status EXCEPT ![r] = "canceled"]
    /\ cancel' = [cancel EXCEPT ![r] = "follow"]
    /\ UNCHANGED <<ck, tools, waits, starts, engine, up, crashes>>

CancelFollow(r) ==
    /\ Alive
    /\ cancel[r] = "follow"
    /\ ClearEnded(r)
    /\ cancel' = [cancel EXCEPT ![r] = "commands"]
    /\ UNCHANGED <<status, call, slot, result, ran, fresh, steer, task, delivered, due, told, starts,
                   engine, up, crashes>>

(* Mutant: the executor is left to find out by itself. *)
CancelCommands_Only(r) ==
    /\ Alive
    /\ cancel[r] = "commands"
    /\ LET running == {t \in TasksOf(r) : task[t] = "running"} IN
       /\ task' = [t \in Tasks |-> IF t \in running THEN "ended" ELSE task[t]]
       /\ told' = told \union running
    /\ cancel' = [cancel EXCEPT ![r] = "after"]
    /\ UNCHANGED <<status, ck, tools, wakeup, steer, delivered, due, starts, engine, up, crashes>>

(* stopRunCommands: the commands it finds running end as canceled. *)
CancelCommands(r) ==
    /\ Alive
    /\ cancel[r] = "commands"
    /\ LET running == {t \in TasksOf(r) : task[t] = "running"} IN
       /\ task' = [t \in Tasks |-> IF t \in running THEN "ended" ELSE task[t]]
       /\ told' = told \union running
    /\ cancel' = [cancel EXCEPT ![r] = "stop"]
    /\ UNCHANGED <<status, ck, tools, wakeup, steer, delivered, due, starts, engine, up, crashes>>

(* cancelActiveRun; the first cause of a context stands. *)
CancelStop(r) ==
    /\ Alive
    /\ cancel[r] = "stop"
    /\ stop' = [stop EXCEPT ![r] = IF exec[r] # "off" /\ @ = "no" THEN "canceled" ELSE @]
    /\ cancel' = [cancel EXCEPT ![r] = "after"]
    /\ UNCHANGED <<status, ck, tools, waits, starts, exec, await, kept, up, crashes>>

(* runIsActive: without an executor, afterRun is left to the cancel. *)
CancelAfter(r) ==
    /\ Alive
    /\ cancel[r] = "after"
    /\ jobs' = IF exec[r] = "off" /\ Lifetime THEN jobs \union {Job("after", r)} ELSE jobs
    /\ cancel' = [cancel EXCEPT ![r] = "no"]
    /\ UNCHANGED <<status, ck, tools, waits, spawned, scheduled, engine, up, crashes>>

(* The client goes while its cancel is served: the next read fails, and the *)
(* rest of CancelRun with it.                                               *)
CancelGivenUp(r) ==
    /\ RequestsEnd
    /\ cancel[r] \in {"follow", "commands", "after"}
    /\ cancel' = [cancel EXCEPT ![r] = "no"]
    /\ UNCHANGED <<status, ck, tools, waits, starts, engine, up, crashes>>

-----------------------------------------------------------------------------
(* The daemon. *)

(* Its lifetime ends: executing runs are interrupted, none starts any more. *)
DaemonStops ==
    /\ Lifetime /\ crashes < MaxCrashes
    /\ up' = "stopping"
    /\ crashes' = crashes + 1
    /\ stop' = [r \in Runs |-> IF exec[r] # "off" /\ stop[r] = "no" THEN "interrupted" ELSE stop[r]]
    /\ UNCHANGED <<status, ck, tools, waits, starts, exec, await, kept, cancel>>

LoseMemory ==
    /\ up' = "down"
    /\ exec' = [r \in Runs |-> "off"]
    /\ stop' = [r \in Runs |-> "no"]
    /\ await' = [r \in Runs |-> {}]
    /\ kept' = [r \in Runs |-> {}]
    /\ slot' = [c \in Calls |-> "idle"] /\ result' = [c \in Calls |-> {}]
    /\ spawned' = [r \in Runs |-> 0]
    /\ scheduled' = [r \in Runs |-> FALSE]
    /\ cancel' = [r \in Runs |-> "no"]
    /\ jobs' = {} /\ told' = {}
    /\ UNCHANGED <<status, ck, call, ap, ran, fresh, wakeup, steer, task, delivered, due>>

(* WaitRuns, and the process exits. *)
DaemonExits ==
    /\ up = "stopping"
    /\ \A r \in Runs : exec[r] = "off" /\ spawned[r] = 0
    /\ LoseMemory /\ UNCHANGED crashes

Crash ==
    /\ Alive /\ crashes < MaxCrashes
    /\ crashes' = crashes + 1
    /\ LoseMemory

(* The next start: recoverShellTasks marks the commands left running lost.  *)
Boot ==
    /\ up = "down"
    /\ up' = "starting"
    /\ task' = [t \in Tasks |-> IF task[t] = "running" THEN "ended" ELSE task[t]]
    /\ UNCHANGED <<status, ck, tools, wakeup, steer, delivered, due, told, starts, engine,
                   cancel, crashes>>

(* Mutant: runs accepted but not yet executing are not listed. *)
Recover_RunningOnly ==
    /\ up = "starting"
    /\ up' = "up"
    /\ jobs' = jobs \union
         {Job("wake", r)   : r \in {s \in Runs : status[s] = "waiting_events"}} \union
         {Job("resume", r) : r \in {s \in Runs : status[s] = "waiting_approval"}} \union
         {Job("start", r)  : r \in {s \in Runs : status[s] = "running"}}
    /\ UNCHANGED <<status, ck, tools, waits, spawned, scheduled, engine, cancel, crashes>>

(* recoverRuns lists the active runs, then takes each as it was listed.     *)
Recover ==
    /\ up = "starting"
    /\ up' = "up"
    /\ jobs' = jobs \union
         {Job("wake", r)   : r \in {s \in Runs : status[s] = "waiting_events"}} \union
         {Job("resume", r) : r \in {s \in Runs : status[s] = "waiting_approval"}} \union
         {Job("start", r)  : r \in {s \in Runs : status[s] \in {"accepted", "running"}}}
    /\ UNCHANGED <<status, ck, tools, waits, spawned, scheduled, engine, cancel, crashes>>

-----------------------------------------------------------------------------
Client(r) == AcceptRun(r) \/ Steer(r)

Cancels(r) == CancelFollow(r) \/ CancelCommands(r) \/ CancelStop(r) \/ CancelAfter(r)

FollowUps(r) == StartAccepted(r) \/ StartRecovered(r) \/ Resume(r) \/ Wake(r) \/ AfterRun(r)

Claims(r) == \/ Register(r) \/ ClaimRefused(r) \/ ClaimRun(r) \/ ClaimInterrupted(r)
             \/ Unpark(r) \/ FindLost(r) \/ Recovered(r)

Steps(r) == \/ RunDecided(r) \/ NothingDecided(r) \/ CheckAwait(r) \/ AskModel(r)
            \/ \E t \in Tasks : DrainEvent(r, t)
            \/ \E S \in SUBSET CallsOf(r) : ModelCalls(r, S)
            \/ ModelReplies(r) \/ LaunchBatch(r) \/ EndBatch(r)
            \/ SettleApproval(r) \/ SettleAwait(r) \/ EngineFails(r)

Leaves(r) == \/ ParkInterrupted(r) \/ EngineStops(r) \/ CommitPark(r) \/ SaveWakeup(r)
             \/ CommitSleep(r) \/ CommitEnd(r) \/ FollowEnd(r) \/ CommitFails(r) \/ Release(r)

CallSteps(c) == \/ SettleLost(c) \/ DenyCall(c) \/ AdmitCall(c) \/ RunTool(c) \/ ToolStops(c)
                \/ RequestApproval(c) \/ RefuseCall(c) \/ RecordCall(c)
                \/ JournalCall(c)

RequestEnds == \E j \in jobs : DropJob(j)

NextUncanceled ==
    \/ \E r \in Runs : \/ Client(r) \/ Cancels(r) \/ CancelGivenUp(r) \/ FollowUps(r)
                       \/ WakeDueRun(r) \/ TimeRunsOut(r) \/ LeaseLapses(r)
                       \/ Claims(r) \/ Steps(r) \/ Leaves(r)
    \/ \E c \in Calls : CallSteps(c) \/ \E d \in {"approved", "rejected"} : ResolveApproval(c, d)
    \/ \E t \in Tasks : TaskEnds(t) \/ TaskFinished(t)
    \/ RequestEnds
    \/ DaemonStops \/ DaemonExits \/ Crash \/ Boot \/ Recover

Next == NextUncanceled \/ \E r \in Runs : CancelRecord(r)

Spec == Init /\ [][Next]_vars

(* What the scheduler, the tools, the model and the service manager owe:    *)
(* an executor goes on, what was begun for a run is done, and the daemon is *)
(* started again.  Clients, timers, crashes and commands owe nothing.       *)
Executes(r) == Claims(r) \/ Steps(r) \/ Leaves(r) \/ \E c \in CallsOf(r) : CallSteps(c)

Serves(r) == \/ Cancels(r) \/ FollowUps(r) \/ WakeDueRun(r)
             \/ \E t \in TasksOf(r) : TaskFinished(t)

Daemon == DaemonExits \/ Boot \/ Recover

Fairness == /\ \A r \in Runs : WF_vars(Executes(r)) /\ WF_vars(Serves(r))
            /\ WF_vars(Daemon)

LiveSpec == Spec /\ Fairness

-----------------------------------------------------------------------------
Awaits      == {{}} \union {{w} : w \in SUBSET Tasks}
Checkpoints == [recoveries : Nat, inBatch : BOOLEAN, deferred : SUBSET Calls, await : Awaits]
Status      == {"none"} \union Active \union Ended
Places      == Working \union {"off", "claim", "follow", "release"}
Journal     == {"none", "deferred", "journaled", "answered"}
Approvals   == {"none", "pending", "approved", "rejected"}
Slots       == {"idle", "lost", "queued", "toRun", "toAsk", "running", "asking", "returned",
                "finished", "asked", "stopped"}

(* Every variable holds what the code may store in it. *)
TypeOK ==
    /\ status \in [Runs -> Status]
    /\ ck \in [Runs -> Checkpoints]
    /\ wakeup \in [Runs -> Awaits] /\ await \in [Runs -> Awaits]
    /\ steer \subseteq Runs /\ due \subseteq Runs
    /\ call \in [Calls -> Journal] /\ ap \in [Calls -> Approvals]
    /\ slot \in [Calls -> Slots] /\ result \in [Calls -> Awaits]
    /\ task \in [Tasks -> {"none", "running", "ended"}]
    /\ delivered \subseteq Tasks /\ told \subseteq Tasks
    /\ ran \subseteq Calls /\ fresh \subseteq Calls
    /\ up \in {"starting", "up", "stopping", "down"}
    /\ exec \in [Runs -> Places]
    /\ stop \in [Runs -> {"no", "canceled", "interrupted"}]
    /\ kept \in [Runs -> SUBSET Calls]
    /\ spawned \in [Runs -> Nat] /\ scheduled \in [Runs -> BOOLEAN]
    /\ cancel \in [Runs -> {"no", "follow", "commands", "stop", "after"}]
    /\ jobs \subseteq [op : JobOps, run : Runs]
    /\ crashes \in Nat

(* An executor past its claim owns a running run: nothing but the end of    *)
(* the run may be recorded under it, however often the run is started,      *)
(* woken, recovered or canceled meanwhile.                                  *)
ExecutorOwnsRun == \A r \in Runs : exec[r] \in Working => status[r] \in {"running"} \union Ended

(* A parked run has its wakeup row, across crashes and failed commits: with *)
(* none its timer never fires.                                              *)
ParkedHasWakeup == \A r \in Runs : status[r] = "waiting_events" => wakeup[r] # {}

(* The model is asked only with every call of the run answered, so that no  *)
(* approval, deferred call or interrupted tool is passed over.              *)
ModelSeesAnswers ==
    \A c \in Calls : exec[Owner[c]] \in {"await", "drain", "model", "complete"}
                        => call[c] \in {"none", "answered"}

(* docs/ARCHITECTURE.md: a mutating call never reruns without a fresh       *)
(* approval.  About to run again, it was approved after it last ran.        *)
RerunApproved == \A c \in Mutating : slot[c] = "running" /\ c \in ran => c \in fresh

(* A barrier that may still ask, or asked, has no later call of its batch   *)
(* running: the calls behind it wait for its approval.                      *)
BarrierHolds ==
    \A c \in Mutating, d \in Calls :
        /\ Owner[d] = Owner[c] /\ c < d
        /\ slot[c] \in {"asking", "asked"}
        => slot[d] \in {"idle", "queued"}

(* A canceled run's executor was told to stop, or its cancel is still on    *)
(* the way to tell it.                                                      *)
CanceledIsStopped ==
    \A r \in Runs : status[r] = "canceled" /\ exec[r] \in Stepping /\ stop[r] = "no"
                        => cancel[r] # "no"

(* rejectRunApprovals: an ended run leaves no approval pending once its     *)
(* executor and its cancel are done.                                        *)
EndedLeavesNoApproval ==
    \A r \in Runs : status[r] \in Ended /\ exec[r] = "off" /\ cancel[r] = "no"
                        => ~HasOpenApproval(r)

(* docs/ARCHITECTURE.md: canceling a run also stops the shell tasks it      *)
(* started: none is left running once its executor and its cancel are done. *)
CanceledLeavesNoCommand ==
    \A r \in Runs : status[r] = "canceled" /\ exec[r] = "off" /\ cancel[r] = "no" /\ Alive
                        => \A t \in TasksOf(r) : task[t] # "running"

(* The run keeps its contract: RunContract with its open approvals.         *)
Contract == INSTANCE RunContract WITH open <- {r \in Runs : HasOpenApproval(r)}
KeepsContract == Contract!Spec

-----------------------------------------------------------------------------
(* An accepted run is executed, though the daemon may stop or crash first.  *)
AcceptedStarts == \A r \in Runs : (status[r] = "accepted") ~> (status[r] # "accepted")

(* A run whose approvals are all decided goes on, whenever they were        *)
(* decided: while it parked, while it was parked or before a restart.       *)
DecidedResumes ==
    \A r \in Runs : (status[r] = "waiting_approval" /\ ~HasOpenApproval(r))
                        ~> (status[r] # "waiting_approval" \/ HasOpenApproval(r))

(* A parked run whose wait is over goes on: no task end, message or timer   *)
(* is lost between its check and its park, or by a restart.                 *)
OverWakes ==
    \A r \in Runs : (status[r] = "waiting_events" /\ WaitOver(r)) ~> (status[r] # "waiting_events")

(* The executor of a canceled run lets go of it. *)
CanceledLetsGo == \A r \in Runs : (status[r] = "canceled") ~> (exec[r] = "off")
=============================================================================
