------------------------------ MODULE Subagents ------------------------------
(***************************************************************************)
(* The children one run starts with its agent calls (internal/core         *)
(* subagents.go, subagents_tasks.go, runs.go, run_lifecycle.go: runEnds).  *)
(* A call reserves its child under the session gate, creates it, records   *)
(* its task under the gate and starts it; a blocking call then waits for   *)
(* the child's end and everything that follows it.  Cancels of the run and *)
(* of a child, a failure at recovery and crashes come between any steps.   *)
(*                                                                         *)
(* A section under the gate and a statement of the store are atomic.  The  *)
(* children's own work, and what an end wakes in the parent's session, are *)
(* left out.                                                               *)
(***************************************************************************)
EXTENDS Naturals, FiniteSets

CONSTANTS Calls,      \* the agent calls of the run
          Choices,    \* which of them may be the background ones
          Limit,      \* Tuning.BackgroundAgents
          MaxFaults   \* bound: crashes and cancels

ASSUME CallsAssumption == IsFiniteSet(Calls) /\ Choices \subseteq SUBSET Calls
ASSUME BoundAssumption == Limit \in Nat \ {0} /\ MaxFaults \in Nat

VARIABLES
    Background, \* the calls that return a task at once; the others wait
    parent,    \* the run's status
    exec,      \* its executor: "on", "stopped" once told to stop, "off"
    call,      \* where each agent call stands
    starting,  \* startingAgents: the calls with a reservation
    name,      \* the name each call's child was given
    task,      \* the task of each call
    child,     \* the runs of the children, by call and attempt
    run,       \* their executors
    ending,    \* runEnds.ending: the threads ending each child's run
    ender,     \* where each of these stands in transition
    waiter,    \* runEnds.waiters: the channel of each waiting call
    seen,      \* whether its look at the run found it ended
    stopper,   \* where the thread that cancels the run or follows its failure stands
    todo,      \* the tasks it listed
    halt,      \* the children it will tell to stop
    boot,      \* the tasks recovery still has to look at
    up,
    killed,    \* the calls whose child was canceled on its own
    faults

vars == <<Background, parent, exec, call, starting, name, task, child, run, ending, ender, waiter, seen,
          stopper, todo, halt, boot, up, killed, faults>>

-----------------------------------------------------------------------------
Attempts == 1 .. MaxFaults + 1
Blocking == Calls \ Background
Kids     == Calls \X Attempts
Enders   == {"exec", "stop", "kill"}
Terminal == {"completed", "failed", "canceled"}
Names    == 1 .. Cardinality(Calls)

NoTask == [status |-> "none", kid |-> 1, delivered |-> FALSE]
Kid(c) == <<c, task[c].kid>>

ActiveTasks == {c \in Calls : task[c].status = "running"}

Goto(c, l) == call' = [call EXCEPT ![c] = l]
At(w, k, l) == ender' = [ender EXCEPT ![<<w, k>>] = l]

Init ==
    /\ Background \in Choices
    /\ parent = "active" /\ exec = "on"
    /\ call = [c \in Calls |-> "idle"]
    /\ starting = {}
    /\ name = [c \in Calls |-> 0]
    /\ task = [c \in Calls |-> NoTask]
    /\ child = [k \in Kids |-> "none"]
    /\ run = [k \in Kids |-> "off"]
    /\ ending = [k \in Kids |-> {}]
    /\ ender = [e \in Enders \X Kids |-> "off"]
    /\ waiter = [c \in Calls |-> "none"]
    /\ seen = [c \in Calls |-> FALSE]
    /\ stopper = "off" /\ todo = {} /\ halt = {}
    /\ boot = {}
    /\ up = TRUE /\ killed = {} /\ faults = 0

-----------------------------------------------------------------------------
(* RunAgent. *)

(* Names no child has and none that is being started. *)
Free == Names \ {name[d] : d \in starting \union {q \in Calls : task[q] # NoTask}}

NextAttempt(c) == CHOOSE n \in Attempts : child[<<c, n>>] = "none" /\ \A m \in 1 .. n - 1 : child[<<c, m>>] # "none"

Full_CountsTasks == Cardinality(ActiveTasks \intersect Background) >= Limit
Full == Cardinality((ActiveTasks \union starting) \intersect Background) >= Limit

StartSubagent_Again(c) ==
    /\ exec = "on" /\ call[c] = "idle"
    /\ IF c \in Background /\ Full
       THEN Goto(c, "done") /\ UNCHANGED <<starting, name, child>>
       ELSE /\ starting' = starting \union {c}
            /\ name' = [name EXCEPT ![c] = CHOOSE n \in Free : \A m \in Free : n <= m]
            /\ child' = [child EXCEPT ![<<c, NextAttempt(c)>>] = "active"]
            /\ Goto(c, "record")
    /\ UNCHANGED <<Background, parent, exec, task, run, ending, ender, waiter, seen,
                   stopper, todo, halt, boot, up, killed, faults>>

(* The engine runs a call of the batch: reserveSubagent, which refuses one  *)
(* at the limit, then createSubagent, whose session and run no other thread *)
(* sees yet.                                                                *)
StartSubagent(c) ==
    /\ exec = "on" /\ call[c] = "idle" /\ task[c] = NoTask
    /\ IF c \in Background /\ Full
       THEN Goto(c, "done") /\ UNCHANGED <<starting, name, child>>
       ELSE /\ starting' = starting \union {c}
            /\ name' = [name EXCEPT ![c] = CHOOSE n \in Free : \A m \in Free : n <= m]
            /\ child' = [child EXCEPT ![<<c, NextAttempt(c)>>] = "active"]
            /\ Goto(c, "record")
    /\ UNCHANGED <<Background, parent, exec, task, run, ending, ender, waiter, seen,
                   stopper, todo, halt, boot, up, killed, faults>>

(* A call a crash left without a result is run again: its task is reported, *)
(* or waited for.                                                           *)
Rejoin(c) ==
    /\ exec = "on" /\ call[c] = "idle" /\ task[c] # NoTask
    /\ IF c \in Background
       THEN Goto(c, "done") /\ UNCHANGED waiter
       ELSE Goto(c, "look") /\ waiter' = [waiter EXCEPT ![c] = "waiting"]
    /\ UNCHANGED <<Background, parent, exec, starting, name, task, child, run, ending, ender, seen,
                   stopper, todo, halt, boot, up, killed, faults>>

Newest(c) == CHOOSE n \in Attempts : child[<<c, n>>] # "none"
                                     /\ \A m \in Attempts : m > n => child[<<c, m>>] = "none"

(* endSubagentStart: the task is recorded and the reservation dropped in    *)
(* one section; a stopped call's statement fails and its child is           *)
(* discarded.                                                               *)
Record(c) ==
    LET n == Newest(c) IN
    /\ call[c] = "record"
    /\ starting' = starting \ {c}
    /\ IF exec = "on"
       THEN /\ task' = [task EXCEPT ![c] = [status |-> "running", kid |-> n, delivered |-> FALSE]]
            /\ Goto(c, "start") /\ UNCHANGED child
       ELSE /\ child' = [child EXCEPT ![<<c, n>>] = "deleted"]
            /\ Goto(c, "done") /\ UNCHANGED task
    /\ UNCHANGED <<Background, parent, exec, name, run, ending, ender, waiter, seen,
                   stopper, todo, halt, boot, up, killed, faults>>

(* startRun, whatever became of the child meanwhile. *)
StartChild(c) ==
    /\ call[c] = "start"
    /\ run' = [run EXCEPT ![Kid(c)] = IF @ = "off" THEN "claim" ELSE @]
    /\ IF c \in Background
       THEN Goto(c, "done") /\ UNCHANGED waiter
       ELSE Goto(c, "look") /\ waiter' = [waiter EXCEPT ![c] = "waiting"]
    /\ UNCHANGED <<Background, parent, exec, starting, name, task, child, ending, ender, seen,
                   stopper, todo, halt, boot, up, killed, faults>>

-----------------------------------------------------------------------------
(* awaitSubagent: runEnds.wait, registered, looks at the run, then at the   *)
(* endings in progress, and waits for the next end to register and look     *)
(* again.                                                                   *)
Look(c) ==
    /\ call[c] = "look"
    /\ seen' = [seen EXCEPT ![c] = child[Kid(c)] \in Terminal]
    /\ Goto(c, "decide")
    /\ UNCHANGED <<Background, parent, exec, starting, name, task, child, run, ending, ender, waiter,
                   stopper, todo, halt, boot, up, killed, faults>>

Decide_IgnoresEnding(c) ==
    /\ call[c] = "decide"
    /\ Goto(c, IF seen[c] THEN "answer" ELSE "wait")
    /\ waiter' = IF seen[c] THEN [waiter EXCEPT ![c] = "none"] ELSE waiter
    /\ seen' = [seen EXCEPT ![c] = FALSE]
    /\ UNCHANGED <<Background, parent, exec, starting, name, task, child, run, ending, ender,
                   stopper, todo, halt, boot, up, killed, faults>>

Decide(c) ==
    LET done == seen[c] /\ ending[Kid(c)] = {} IN
    /\ call[c] = "decide"
    /\ Goto(c, IF done THEN "answer" ELSE "wait")
    /\ waiter' = IF done THEN [waiter EXCEPT ![c] = "none"] ELSE waiter
    /\ seen' = [seen EXCEPT ![c] = FALSE]
    /\ UNCHANGED <<Background, parent, exec, starting, name, task, child, run, ending, ender,
                   stopper, todo, halt, boot, up, killed, faults>>

(* The channel was closed, or the call's context ended. *)
Woken(c) ==
    /\ call[c] = "wait"
    /\ \/ waiter[c] = "woken" /\ Goto(c, "look") /\ waiter' = [waiter EXCEPT ![c] = "waiting"]
       \/ exec = "stopped" /\ Goto(c, "done") /\ waiter' = [waiter EXCEPT ![c] = "none"]
    /\ UNCHANGED <<Background, parent, exec, starting, name, task, child, run, ending, ender, seen,
                   stopper, todo, halt, boot, up, killed, faults>>

(* FinishTask ends a task that has not ended. *)
Finished(c, status, delivered) ==
    IF task[c].status = "running"
    THEN [task EXCEPT ![c].status = status, ![c].delivered = delivered]
    ELSE task

(* The call's result; a task a crash left running is ended first. *)
Answer(c) ==
    /\ call[c] = "answer"
    /\ task' = Finished(c, child[Kid(c)], TRUE)
    /\ Goto(c, "done")
    /\ UNCHANGED <<Background, parent, exec, starting, name, child, run, ending, ender, waiter, seen,
                   stopper, todo, halt, boot, up, killed, faults>>

-----------------------------------------------------------------------------
(* transition to an ended status, by thread w, of the child's run k: begin, *)
(* commit, syncSubagentTask, end.                                           *)
Begin(w, k) == ending' = [ending EXCEPT ![k] = @ \union {w}] /\ At(w, k, "commit")

(* SealRun: a run that ended keeps its end. *)
Commit(w, k) ==
    /\ ender[<<w, k>>] = "commit"
    /\ IF child[k] = "active"
       THEN /\ \E status \in IF w = "exec" THEN {"completed", "failed"} ELSE {"canceled"} :
                  child' = [child EXCEPT ![k] = status]
            /\ At(w, k, "sync")
       ELSE At(w, k, "refused") /\ UNCHANGED child
    /\ UNCHANGED <<Background, parent, exec, call, starting, name, task, run, ending, waiter, seen,
                   stopper, todo, halt, boot, up, killed, faults>>

(* A child a crash left without a task has none to tell. *)
Sync(w, k) ==
    /\ ender[<<w, k>>] = "sync"
    /\ task' = IF Kid(k[1]) = k THEN Finished(k[1], child[k], k[1] \in Blocking) ELSE task
    /\ At(w, k, "end")
    /\ UNCHANGED <<Background, parent, exec, call, starting, name, child, run, ending, waiter, seen,
                   stopper, todo, halt, boot, up, killed, faults>>

Told(k) == [c \in Calls |-> IF Kid(c) = k /\ waiter[c] = "waiting" THEN "woken" ELSE waiter[c]]

(* cancelActiveRun of each run in K. *)
Halted(K) == [k \in Kids |-> IF k \in K /\ run[k] = "on" THEN "stopped" ELSE run[k]]

End_WakesNone(w, k) ==
    LET ended == ender[<<w, k>>] = "end" IN
    /\ ender[<<w, k>>] \in {"refused", "end"}
    /\ ending' = [ending EXCEPT ![k] = @ \ {w}]
    /\ waiter' = IF ending[k] = {w} /\ ended THEN Told(k) ELSE waiter
    /\ At(w, k, "off")
    /\ run' = CASE w = "exec" -> [run EXCEPT ![k] = "off"]
                [] w = "kill" /\ ended -> Halted({k})
                [] OTHER -> run
    /\ halt' = IF w = "stop" /\ ended THEN halt \union {k} ELSE halt
    /\ UNCHANGED <<Background, parent, exec, call, starting, name, task, child, seen,
                   stopper, todo, boot, up, killed, faults>>

(* Then the executor lets go of the run, CancelRun stops it, or             *)
(* cancelRunRecords goes on; a run that ended on its own is not stopped.    *)
End(w, k) ==
    LET ended == ender[<<w, k>>] = "end" IN
    /\ ender[<<w, k>>] \in {"refused", "end"}
    /\ ending' = [ending EXCEPT ![k] = @ \ {w}]
    /\ waiter' = IF ending[k] = {w} THEN Told(k) ELSE waiter
    /\ At(w, k, "off")
    /\ run' = CASE w = "exec" -> [run EXCEPT ![k] = "off"]
                [] w = "kill" /\ ended -> Halted({k})
                [] OTHER -> run
    /\ halt' = IF w = "stop" /\ ended THEN halt \union {k} ELSE halt
    /\ UNCHANGED <<Background, parent, exec, call, starting, name, task, child, seen,
                   stopper, todo, boot, up, killed, faults>>

-----------------------------------------------------------------------------
(* The children's executors. *)

(* claim: a run that ended is not executed. *)
Claim(k) ==
    /\ run[k] = "claim"
    /\ run' = [run EXCEPT ![k] = IF child[k] = "active" THEN "on" ELSE "off"]
    /\ UNCHANGED <<Background, parent, exec, call, starting, name, task, child, ending, ender, waiter, seen,
                   stopper, todo, halt, boot, up, killed, faults>>

(* The child's work is done. *)
ChildEnds(k) ==
    /\ run[k] = "on" /\ ender[<<"exec", k>>] = "off"
    /\ Begin("exec", k)
    /\ UNCHANGED <<Background, parent, exec, call, starting, name, task, child, run, waiter, seen,
                   stopper, todo, halt, boot, up, killed, faults>>

(* A child told to stop seals its reply and ends nothing. *)
ChildStops(k) ==
    /\ run[k] = "stopped" /\ ender[<<"exec", k>>] = "off"
    /\ run' = [run EXCEPT ![k] = "off"]
    /\ UNCHANGED <<Background, parent, exec, call, starting, name, task, child, ending, ender, waiter, seen,
                   stopper, todo, halt, boot, up, killed, faults>>

(* CancelRun of a child: task_kill, or a client. *)
Kill(k) ==
    /\ up /\ faults < MaxFaults
    /\ task[k[1]].status # "none" /\ Kid(k[1]) = k /\ child[k] = "active"
    /\ ender[<<"kill", k>>] = "off"
    /\ Begin("kill", k)
    /\ killed' = killed \union {k[1]} /\ faults' = faults + 1
    /\ UNCHANGED <<Background, parent, exec, call, starting, name, task, child, run, waiter, seen,
                   stopper, todo, halt, boot, up>>

-----------------------------------------------------------------------------
(* The parent's end.  Its engine completes it once its calls returned; one  *)
(* told to stop returns when they did.                                      *)
ParentEnds ==
    /\ exec = "on" /\ \A c \in Calls : call[c] = "done"
    /\ parent' = IF parent = "active" THEN "completed" ELSE parent
    /\ exec' = "off"
    /\ UNCHANGED <<Background, call, starting, name, task, child, run, ending, ender, waiter, seen,
                   stopper, todo, halt, boot, up, killed, faults>>

ParentStops ==
    /\ exec = "stopped" /\ \A c \in Calls : call[c] \in {"idle", "done"}
    /\ exec' = "off"
    /\ UNCHANGED <<Background, parent, call, starting, name, task, child, run, ending, ender, waiter, seen,
                   stopper, todo, halt, boot, up, killed, faults>>

(* CancelRun of the parent: cancelSubagentChildren lists the active tasks. *)
Cancel ==
    /\ up /\ parent = "active" /\ stopper = "off" /\ faults < MaxFaults
    /\ stopper' = "cancel" /\ faults' = faults + 1
    /\ todo' = ActiveTasks
    /\ UNCHANGED <<Background, parent, exec, call, starting, name, task, child, run, ending, ender, waiter, seen,
                   halt, boot, up, killed>>

Busy == \E k \in Kids : ender[<<"stop", k>>] # "off"

(* A task ends delivered first, then its child's run. *)
CancelTask_RunFirst(c) ==
    /\ stopper \in {"cancel", "fail"} /\ ~Busy /\ c \in todo
    /\ todo' = todo \ {c}
    /\ IF child[Kid(c)] = "active"
       THEN Begin("stop", Kid(c)) /\ UNCHANGED task
       ELSE UNCHANGED <<ending, ender>> /\ task' = Finished(c, "canceled", TRUE)
    /\ UNCHANGED <<Background, parent, exec, call, starting, name, child, run, waiter, seen,
                   stopper, halt, boot, up, killed, faults>>

CancelTask(c) ==
    /\ stopper \in {"cancel", "fail"} /\ ~Busy /\ c \in todo
    /\ todo' = todo \ {c}
    /\ task' = Finished(c, "canceled", TRUE)
    /\ IF child[Kid(c)] = "active"
       THEN Begin("stop", Kid(c))
       ELSE UNCHANGED <<ending, ender>>
    /\ UNCHANGED <<Background, parent, exec, call, starting, name, child, run, waiter, seen,
                   stopper, halt, boot, up, killed, faults>>

(* The run's own end comes last; when it ended meanwhile CancelRun returns  *)
(* without the runs to stop.                                                *)
CancelParent ==
    /\ stopper = "cancel" /\ ~Busy /\ todo = {}
    /\ IF parent = "active"
       THEN parent' = "canceled" /\ stopper' = "halt" /\ UNCHANGED halt
       ELSE stopper' = "off" /\ halt' = {} /\ UNCHANGED parent
    /\ UNCHANGED <<Background, exec, call, starting, name, task, child, run, ending, ender, waiter, seen,
                   todo, boot, up, killed, faults>>

(* cancelActiveRun of the run and of the children. *)
Halt ==
    /\ \/ stopper = "halt"
       \/ stopper = "fail" /\ ~Busy /\ todo = {}
    /\ exec' = IF stopper = "halt" /\ exec = "on" THEN "stopped" ELSE exec
    /\ run' = Halted(halt)
    /\ halt' = {} /\ stopper' = "off"
    /\ UNCHANGED <<Background, parent, call, starting, name, task, child, ending, ender, waiter, seen,
                   todo, boot, up, killed, faults>>

-----------------------------------------------------------------------------
(* A crash leaves the store's rows; the calls without a result are run      *)
(* again by a parent that resumes.                                          *)
Crash ==
    /\ up /\ faults < MaxFaults
    /\ up' = FALSE /\ faults' = faults + 1
    /\ exec' = "off"
    /\ call' = [c \in Calls |-> IF call[c] = "done" THEN "done" ELSE "idle"]
    /\ starting' = {}
    /\ run' = [k \in Kids |-> "off"]
    /\ ending' = [k \in Kids |-> {}]
    /\ ender' = [e \in Enders \X Kids |-> "off"]
    /\ waiter' = [c \in Calls |-> "none"]
    /\ seen' = [c \in Calls |-> FALSE]
    /\ stopper' = "off" /\ todo' = {} /\ halt' = {} /\ boot' = {}
    /\ UNCHANGED <<Background, parent, name, task, child, killed>>

(* Recover starts every active run; claim fails a parent recovered too      *)
(* often, which cancels its blocking children.                              *)
Recover ==
    /\ ~up
    /\ up' = TRUE
    /\ run' = [k \in Kids |-> IF child[k] = "active" THEN "claim" ELSE "off"]
    /\ boot' = ActiveTasks
    /\ \/ exec' = (IF parent = "active" THEN "on" ELSE "off") /\ UNCHANGED <<parent, stopper, todo>>
       \/ /\ parent = "active"
          /\ parent' = "failed" /\ stopper' = "fail"
          /\ todo' = ActiveTasks \intersect Blocking
          /\ UNCHANGED exec
    /\ UNCHANGED <<Background, call, starting, name, task, child, ending, ender, waiter, seen, halt, killed, faults>>

(* recoverSubagentTasks. *)
RecoverTask(c) ==
    /\ c \in boot
    /\ boot' = boot \ {c}
    /\ task' = IF child[Kid(c)] \in Terminal
               THEN Finished(c, child[Kid(c)], c \in Blocking)
               ELSE task
    /\ UNCHANGED <<Background, parent, exec, call, starting, name, child, run, ending, ender, waiter, seen,
                   stopper, todo, halt, up, killed, faults>>

-----------------------------------------------------------------------------
CallStep(c) ==
    \/ StartSubagent(c) \/ Rejoin(c) \/ Record(c) \/ StartChild(c)
    \/ Look(c) \/ Decide(c) \/ Woken(c) \/ Answer(c)

EndStep(w, k) == Commit(w, k) \/ Sync(w, k) \/ End(w, k)

StopStep == (\E c \in Calls : CancelTask(c)) \/ CancelParent \/ Halt

Work ==
    \/ \E c \in Calls : CallStep(c) \/ RecoverTask(c)
    \/ \E w \in Enders, k \in Kids : EndStep(w, k)
    \/ \E k \in Kids : Claim(k) \/ ChildEnds(k) \/ ChildStops(k)
    \/ ParentEnds \/ ParentStops \/ StopStep
    \/ Recover

Next ==
    \/ Work
    \/ Cancel \/ (\E k \in Kids : Kill(k))
    \/ Crash

Spec == Init /\ [][Next]_vars

(* As long as any goroutine, statement or child's work can go on, one does, *)
(* and a crashed daemon is started again; nobody must cancel anything.      *)
FairSpec == Spec /\ WF_vars(Work)
-----------------------------------------------------------------------------
TypeOK ==
    /\ parent \in {"active"} \union Terminal
    /\ exec \in {"on", "stopped", "off"}
    /\ starting \subseteq Calls
    /\ name \in [Calls -> 0 .. Cardinality(Calls)]
    /\ task \in [Calls -> [status : {"none", "running"} \union Terminal, kid : Attempts, delivered : BOOLEAN]]
    /\ child \in [Kids -> {"none", "active", "deleted"} \union Terminal]
    /\ ending \in [Kids -> SUBSET Enders]

(* Calls run at once keep the limit of background children and give their   *)
(* children names of their own (subagents.go: reserveSubagent).             *)
StartsKeepLimit ==
    /\ Cardinality(ActiveTasks \intersect Background) <= Limit
    /\ \A c, d \in Calls : (task[c] # NoTask /\ task[d] # NoTask /\ c # d) => name[c] # name[d]

(* A blocking call that returns with a result found its child ended and all *)
(* that follows the end done, whoever ended it; another thread may still    *)
(* try to end the run and be refused (run_lifecycle.go: runEnds;            *)
(* ARCHITECTURE.md:188).                                                    *)
AnswersAfterEnd ==
    \A c \in Calls : call[c] = "answer" =>
        /\ child[Kid(c)] \in Terminal
        /\ \A w \in Enders : ender[<<w, Kid(c)>>] \notin {"sync", "end"}

(* A child its parent's cancel ended is no event for the parent, though the *)
(* child's run ends in a step of its own: only a child canceled for itself  *)
(* ends canceled and untold (runs.go: cancelSubagentChildren).              *)
CanceledIsNoEvent ==
    \A c \in Calls \ killed : task[c].status = "canceled" => task[c].delivered

(* A call run again after a crash keeps the child whose task it recorded.   *)
(* (subagents.go: RunAgent, subagentTaskOfCall).                            *)
CallKeepsChild ==
    [][\A c \in Calls : task[c] # NoTask => task'[c].kid = task[c].kid /\ task'[c] # NoTask]_vars

(* A call that waits returns, unless its run ends before it: no end of its  *)
(* child passes it by, and its task ends with the child's run               *)
(* (run_lifecycle.go: runEnds.wait).                                        *)
CallsReturn ==
    \A c \in Calls : (call[c] = "look")
        ~> (task[c].status # "running" /\ (call[c] = "done" \/ parent # "active"))

(* Canceling stops the children that were canceled with it                  *)
(* (ARCHITECTURE.md:207): one whose run reads canceled is told to stop.     *)
CanceledChildrenStop ==
    \A k \in Kids : (child[k] = "canceled" /\ run[k] = "on" /\ ender[<<"exec", k>>] = "off")
        => k \in halt \/ \E w \in {"stop", "kill"} : ender[<<w, k>>] # "off"
=============================================================================
