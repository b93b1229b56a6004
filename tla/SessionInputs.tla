---------------------------- MODULE SessionInputs ----------------------------
(***************************************************************************)
(* The messages of one session (internal/core/session_inputs.go with the   *)
(* accept and follow-up code around it): an idle session takes a message   *)
(* as a run, a busy one queues it, steers the active run with it or        *)
(* interrupts that run for it.                                             *)
(*                                                                         *)
(* Threads of the daemon share the rows of the inputs.  Those in a section *)
(* under the session gate exclude each other only: the end of a run, the   *)
(* executor's reads and writes and queuePendingSteersForRun take no gate,  *)
(* and every write stores the whole row as it was read.                    *)
(***************************************************************************)
EXTENDS Naturals, FiniteSets

CONSTANTS Messages,    \* in the order they arrive
          Runs,        \* bound: the runs of the session, in order
          Modes,       \* how clients send messages to a busy session
          ReplyOnce,   \* the messages whose address takes one reply only
          Canceled,    \* the runs clients may cancel
          Triggers,    \* whether automation, tasks and goals start runs
          MaxCrashes   \* bound: crashes of the daemon

ASSUME OrderAssumption == Messages \subseteq Nat \ {0} /\ Runs \subseteq Nat \ {0}
ASSUME ReplyOnceAssumption == ReplyOnce \subseteq Messages
ASSUME ModesAssumption == Modes \subseteq {"queue", "steer", "interrupt"}
ASSUME ChoiceAssumption == Canceled \subseteq Runs /\ Triggers \in BOOLEAN /\ MaxCrashes \in Nat

VARIABLES
    run,      \* runs.status, "active" for accepted and running
    input,    \* session_inputs: the row of each message
    given,    \* history: how often a message was put before the model
    up,       \* whether the daemon runs
    pc,       \* where each thread of the daemon stands
    todo,     \* the rows a thread read and will write back
    asked,    \* threads that are to begin
    again,    \* interrupts still to start the next message themselves
    stopped,  \* runs whose executor's context is canceled
    gate,     \* the threads in a section under the session gate
    crashes

vars == <<run, input, given, up, pc, todo, asked, again, stopped, gate, crashes>>

-----------------------------------------------------------------------------
Threads == ({"request"} \X Messages) \union ({"cancel", "release", "wake", "exec"} \X Runs)
               \union {<<"boot", 0>>}

Active == {n \in Runs : run[n] \in {"active", "waiting"}}
Unused == {n \in Runs : run[n] = "none"}

Least(S) == CHOOSE x \in S : \A y \in S : x <= y

Row(mode, target, taken) == [mode |-> mode, target |-> target, taken |-> taken]
Unsent == Row("none", 0, FALSE)

(* ListPendingSessionInputs, ListPendingSteerInputs, NextPendingSessionInput. *)
Pending == {m \in Messages : input[m].mode \in {"queue", "steer", "interrupt"} /\ ~input[m].taken}
Steers  == {m \in Pending : input[m].mode = "steer"}
SteersOf(n) == {m \in Steers : input[m].target = n}

(* What a loop over rows it read will write. *)
AsQueued(S)   == {<<m, Row("queue", 0, FALSE)>> : m \in S}
AsSteer(S, n) == {<<m, Row("steer", n, FALSE)>> : m \in S}
AsTaken(S)    == {<<m, [input[m] EXCEPT !.taken = TRUE]>> : m \in S}

Goto(t, l) == pc' = [pc EXCEPT ![t] = l]
Plan(t, S) == todo' = [todo EXCEPT ![t] = S]

(* startRun, unless an executor is registered or scheduled. *)
Starting(n) == IF pc[<<"exec", n>>] = "off" THEN {<<"exec", n>>} ELSE {}

Begin(t) == t \in asked /\ pc[t] = "off" /\ asked' = asked \ {t}

Init ==
    /\ run = [n \in Runs |-> "none"]
    /\ input = [m \in Messages |-> Unsent]
    /\ given = [m \in Messages |-> 0]
    /\ up = TRUE
    /\ pc = [t \in Threads |-> "off"]
    /\ todo = [t \in Threads |-> {}]
    /\ asked = {} /\ again = {} /\ stopped = {} /\ gate = {}
    /\ crashes = 0

-----------------------------------------------------------------------------
(* UpdateSessionInput: the whole row is stored as the thread read it. *)
WriteRow(t) ==
    \E w \in todo[t] :
        /\ pc[t] \in {"requeue", "settle", "mark", "steer", "consume"}
        /\ \A v \in todo[t] : w[1] <= v[1]
        /\ input' = [input EXCEPT ![w[1]] = w[2]]
        /\ Plan(t, todo[t] \ {w})
        /\ IF pc[t] = "consume" /\ todo[t] = {w} THEN Goto(t, "work") ELSE UNCHANGED pc
        /\ UNCHANGED <<run, given, up, asked, again, stopped, gate, crashes>>

-----------------------------------------------------------------------------
(* Clients: acceptUnderGate. *)

Arrives(m) == up /\ gate = {} /\ input[m] = Unsent /\ \A k \in Messages : k < m => input[k] # Unsent

(* createAcceptedRun: the message is the run's. *)
Create(n, m) == /\ run' = [run EXCEPT ![n] = "active"]
                /\ given' = [given EXCEPT ![m] = @ + 1]

AcceptIdle(m) ==
    /\ Arrives(m)
    /\ Active = {} /\ Unused # {}
    /\ Create(Least(Unused), m)
    /\ input' = [input EXCEPT ![m] = Row("run", 0, TRUE)]
    /\ asked' = asked \union Starting(Least(Unused))
    /\ UNCHANGED <<up, pc, todo, again, stopped, gate, crashes>>

(* A run that waits for events takes a queued message as a steer, but a     *)
(* reply-once message never steers.                                         *)
Taken(mode, m, n) == IF mode = "interrupt" THEN mode
                     ELSE IF m \notin ReplyOnce /\ (mode = "steer" \/ run[n] = "waiting")
                     THEN "steer" ELSE "queue"

AcceptBusy(m) ==
    /\ Arrives(m)
    /\ \E n \in Active, mode \in Modes :
          LET taken == Taken(mode, m, n) IN
          /\ Plan(<<"request", m>>, {<<m, Row(taken, n, FALSE)>>})
          /\ asked' = IF taken = "steer" /\ run[n] = "waiting" THEN asked \union {<<"wake", n>>} ELSE asked
    /\ Goto(<<"request", m>>, "accept")
    /\ gate' = {<<"request", m>>}
    /\ UNCHANGED <<run, input, given, up, again, stopped, crashes>>

StoreInput(m) ==
    LET t == <<"request", m>> IN
    /\ pc[t] = "accept"
    /\ \E w \in todo[t] : /\ input' = [input EXCEPT ![w[1]] = w[2]]
                          /\ Goto(t, IF w[2].mode = "interrupt" THEN "cancel" ELSE "off")
                          /\ again' = IF w[2].mode = "interrupt" THEN again \union {t} ELSE again
    /\ Plan(t, {}) /\ gate' = {}
    /\ UNCHANGED <<run, given, up, asked, stopped, crashes>>

-----------------------------------------------------------------------------
(* CancelRun, of a client or of an interrupt. *)

(* An interrupt starts the next message itself once its cancel is through.  *)
Return(t) == /\ Goto(t, IF t \in again THEN "next" ELSE "off")
             /\ again' = again \ {t}

RunOf(t) == IF t[1] = "request" THEN input[t[2]].target ELSE t[2]

ClientCancels(n) ==
    LET t == <<"cancel", n>> IN
    /\ up /\ n \in Canceled \intersect Active
    /\ pc[t] = "off"
    /\ Goto(t, "cancel")
    /\ UNCHANGED <<run, input, given, up, todo, asked, again, stopped, gate, crashes>>

(* An end of its own stands. *)
CancelRecord(t) ==
    /\ pc[t] = "cancel"
    /\ IF RunOf(t) \in Active
       THEN run' = [run EXCEPT ![RunOf(t)] = "ended"] /\ Goto(t, "stop") /\ UNCHANGED again
       ELSE Return(t) /\ UNCHANGED run
    /\ UNCHANGED <<input, given, up, todo, asked, stopped, gate, crashes>>

CancelStop(t) ==
    /\ pc[t] = "stop"
    /\ stopped' = IF pc[<<"exec", RunOf(t)>>] = "off" THEN stopped ELSE stopped \union {RunOf(t)}
    /\ Goto(t, "check")
    /\ UNCHANGED <<run, input, given, up, todo, asked, again, gate, crashes>>

(* Without an executor the cancel does what follows the end. *)
CancelCheck(t) ==
    /\ pc[t] = "check"
    /\ IF pc[<<"exec", RunOf(t)>>] = "off" THEN Goto(t, "after") /\ UNCHANGED again
                                           ELSE Return(t)
    /\ UNCHANGED <<run, input, given, up, todo, asked, stopped, gate, crashes>>

-----------------------------------------------------------------------------
(* afterRun and afterEnd. *)

AtAfter(t) == \/ pc[t] = "after"
              \/ t[1] = "release" /\ t \in asked /\ pc[t] = "off"

After_EndedOnly(t) ==
    /\ AtAfter(t)
    /\ IF run[RunOf(t)] = "ended"
       THEN Plan(t, AsQueued(SteersOf(RunOf(t)))) /\ Goto(t, "requeue") /\ UNCHANGED again
       ELSE Return(t) /\ UNCHANGED todo
    /\ asked' = asked \ {t}
    /\ UNCHANGED <<run, input, given, up, stopped, gate, crashes>>

(* queuePendingSteersForRun reads the steers that missed the run. *)
After(t) ==
    LET n == RunOf(t) IN
    /\ AtAfter(t)
    /\ IF run[n] = "ended"
       THEN Plan(t, AsQueued(SteersOf(n))) /\ Goto(t, "requeue") /\ UNCHANGED again
       ELSE Return(t) /\ UNCHANGED todo
    /\ asked' = (asked \ {t}) \union (IF run[n] = "waiting" THEN {<<"wake", n>>} ELSE {})
    /\ UNCHANGED <<run, input, given, up, stopped, gate, crashes>>

(* What follows a startNextPendingSessionInput that started nothing. *)
NothingNext(t) == IF t[1] # "request" \/ t \in again THEN "idle" ELSE "off"

(* consumeNextPendingSessionInput: an active run keeps the session; else    *)
(* queuePendingSteersForInactiveSession reads the steers left.              *)
StartNext(t) ==
    /\ pc[t] \in {"next", "requeue"} /\ todo[t] = {} /\ gate = {}
    /\ IF Active # {}
       THEN Goto(t, NothingNext(t)) /\ UNCHANGED <<todo, gate>>
       ELSE Plan(t, AsQueued(Steers)) /\ gate' = {t} /\ Goto(t, "settle")
    /\ UNCHANGED <<run, input, given, up, asked, again, stopped, crashes>>

(* NextPendingSessionInput. *)
NextInput_Newest == CHOOSE m \in Pending \ Steers : \A k \in Pending \ Steers : k <= m
NextInput == Least(Pending \ Steers)

ConsumeInput_MarksFirst(t) ==
    /\ pc[t] = "settle" /\ todo[t] = {}
    /\ IF Pending \ Steers = {}
       THEN gate' = {} /\ Goto(t, NothingNext(t)) /\ UNCHANGED todo
       ELSE Plan(t, AsTaken({NextInput})) /\ Goto(t, "mark") /\ UNCHANGED gate
    /\ UNCHANGED <<run, input, given, up, asked, again, stopped, crashes>>

(* The first message becomes a run, and then its row is marked.  The run's  *)
(* executor claims it once the gate is free.                                *)
ConsumeInput(t) ==
    /\ pc[t] = "settle" /\ todo[t] = {}
    /\ IF Pending \ Steers = {}
       THEN /\ gate' = {} /\ Goto(t, NothingNext(t))
            /\ UNCHANGED <<run, given, todo, asked>>
       ELSE /\ Unused # {}
            /\ Create(Least(Unused), NextInput)
            /\ Plan(t, AsTaken({NextInput})) /\ Goto(t, "mark")
            /\ asked' = asked \union Starting(Least(Unused))
            /\ UNCHANGED gate
    /\ UNCHANGED <<input, up, again, stopped, crashes>>

Marked(t) ==
    /\ pc[t] = "mark" /\ todo[t] = {}
    /\ gate' = {}
    /\ Return(t)
    /\ UNCHANGED <<run, input, given, up, todo, asked, stopped, crashes>>

(* A run without a message of a client; the bound keeps runs for messages.  *)
StartOwn_Unchecked ==
    /\ Triggers /\ gate = {}
    /\ Cardinality(Unused) > Cardinality({m \in Messages : given[m] = 0})
    /\ run' = [run EXCEPT ![Least(Unused)] = "active"]
    /\ asked' = asked \union Starting(Least(Unused))

StartOwn ==
    /\ Triggers /\ gate = {} /\ Active = {}
    /\ Cardinality(Unused) > Cardinality({m \in Messages : given[m] = 0})
    /\ run' = [run EXCEPT ![Least(Unused)] = "active"]
    /\ asked' = asked \union Starting(Least(Unused))

(* wakeSession and continueGoal: an idle session without messages may start *)
(* a run of its own.                                                        *)
Idle(t) ==
    /\ pc[t] = "idle"
    /\ \/ UNCHANGED <<run, asked>>
       \/ Pending = {} /\ StartOwn
    /\ Return(t)
    /\ UNCHANGED <<input, given, up, todo, stopped, gate, crashes>>

(* acceptIdleRun: automation starts a run whenever the session is idle. *)
AcceptTriggered ==
    /\ up /\ StartOwn
    /\ UNCHANGED <<input, given, up, pc, todo, again, stopped, gate, crashes>>

-----------------------------------------------------------------------------
(* wakeWaitingRun. *)

(* steerQueuedInputs reads the messages queued behind a waiting run; a task  *)
(* or a timer of its own may wake it at any time.                           *)
BeginWake(n) ==
    LET t == <<"wake", n>> IN
    /\ up /\ gate = {} /\ pc[t] = "off"
    /\ t \in asked \/ run[n] = "waiting"
    /\ asked' = asked \ {t}
    /\ IF run[n] = "waiting"
       THEN /\ gate' = {t} /\ Goto(t, "steer")
            /\ Plan(t, AsSteer({m \in Pending : input[m].mode = "queue"}, n))
       ELSE UNCHANGED <<gate, pc, todo>>
    /\ UNCHANGED <<run, input, given, up, again, stopped, crashes>>

(* waitOver: a steer ends the wait, a task or a timer may have. *)
Wake(n) ==
    LET t == <<"wake", n>> IN
    /\ pc[t] = "steer" /\ todo[t] = {}
    /\ \/ asked' = asked \union Starting(n)
       \/ SteersOf(n) = {} /\ UNCHANGED asked
    /\ gate' = {} /\ Goto(t, "off")
    /\ UNCHANGED <<run, input, given, up, todo, again, stopped, crashes>>

-----------------------------------------------------------------------------
(* An executor. *)

(* claim, under the gate: an ended run is left alone. *)
Claim(n) ==
    LET t == <<"exec", n>> IN
    /\ Begin(t) /\ gate = {}
    /\ IF n \in Active
       THEN run' = [run EXCEPT ![n] = "active"] /\ Goto(t, "work")
       ELSE Goto(t, "release") /\ UNCHANGED run
    /\ UNCHANGED <<input, given, up, todo, again, stopped, gate, crashes>>

(* appendSteers lists the steers, ... *)
ListSteers(n) ==
    LET t == <<"exec", n>> IN
    /\ pc[t] = "work" /\ n \notin stopped /\ SteersOf(n) # {}
    /\ Plan(t, AsTaken(SteersOf(n)))
    /\ Goto(t, "append")
    /\ UNCHANGED <<run, input, given, up, asked, again, stopped, gate, crashes>>

(* ... journals them as one message, ... *)
AppendSteers(n) ==
    LET t == <<"exec", n>> IN
    /\ pc[t] = "append" /\ n \notin stopped
    /\ given' = [m \in Messages |-> IF \E w \in todo[t] : w[1] = m THEN given[m] + 1 ELSE given[m]]
    /\ Goto(t, "appended")
    /\ UNCHANGED <<run, input, up, todo, asked, again, stopped, gate, crashes>>

(* ... and consumes those of them that still are the run's. *)
ConsumeSteers(n) ==
    LET t == <<"exec", n>> IN
    /\ pc[t] = "appended"
    /\ LET mine == {m \in SteersOf(n) : \E w \in todo[t] : w[1] = m} IN
       Plan(t, AsTaken(mine)) /\ Goto(t, IF mine = {} THEN "work" ELSE "consume")
    /\ UNCHANGED <<run, input, given, up, asked, again, stopped, gate, crashes>>

(* The engine parks when it finds no steer; the status follows.             *)
CheckAwait(n) ==
    LET t == <<"exec", n>> IN
    /\ pc[t] = "work" /\ n \notin stopped /\ SteersOf(n) = {}
    /\ Goto(t, "park")
    /\ UNCHANGED <<run, input, given, up, todo, asked, again, stopped, gate, crashes>>

(* Its last look at the steers may be long past when a run parks or ends.   *)
Commit(n, l, to) ==
    LET t == <<"exec", n>> IN
    /\ pc[t] = l
    /\ run' = IF n \in Active THEN [run EXCEPT ![n] = to] ELSE run
    /\ Goto(t, "release")
    /\ UNCHANGED <<input, given, up, todo, asked, again, stopped, gate, crashes>>

Park(n)   == Commit(n, "park", "waiting")
EndRun(n) == n \notin stopped /\ Commit(n, "work", "ended")

Stops(n) ==
    LET t == <<"exec", n>> IN
    /\ pc[t] \in {"work", "append"} /\ n \in stopped
    /\ Plan(t, {}) /\ Goto(t, "release")
    /\ UNCHANGED <<run, input, given, up, asked, again, stopped, gate, crashes>>

Release(n) ==
    LET t == <<"exec", n>> IN
    /\ pc[t] = "release"
    /\ Goto(t, "off")
    /\ stopped' = stopped \ {n}
    /\ asked' = asked \union {<<"release", n>>}
    /\ UNCHANGED <<run, input, given, up, todo, again, gate, crashes>>

-----------------------------------------------------------------------------
(* The daemon. *)
Crash ==
    /\ up /\ crashes < MaxCrashes
    /\ up' = FALSE /\ crashes' = crashes + 1
    /\ pc' = [t \in Threads |-> "off"] /\ todo' = [t \in Threads |-> {}]
    /\ asked' = {} /\ again' = {} /\ stopped' = {} /\ gate' = {}
    /\ UNCHANGED <<run, input, given>>

(* Recover: recoverRuns, then settleIdleSessions. *)
Boot ==
    /\ ~up /\ up' = TRUE
    /\ asked' = {<<"exec", n>> : n \in {k \in Runs : run[k] = "active"}}
                    \union {<<"wake", n>> : n \in {k \in Runs : run[k] = "waiting"}}
    /\ Goto(<<"boot", 0>>, IF Pending # {} \/ Triggers THEN "next" ELSE "off")
    /\ UNCHANGED <<run, input, given, todo, again, stopped, gate, crashes>>

-----------------------------------------------------------------------------
FollowsUp(t) == \/ CancelRecord(t) \/ CancelStop(t) \/ CancelCheck(t) \/ After(t)
                \/ StartNext(t) \/ ConsumeInput(t) \/ Marked(t) \/ Idle(t) \/ WriteRow(t)

Executes(n) == \/ Claim(n) \/ ListSteers(n) \/ AppendSteers(n) \/ ConsumeSteers(n)
               \/ CheckAwait(n) \/ Park(n) \/ EndRun(n) \/ Stops(n)
               \/ Release(n)

Next ==
    \/ \E m \in Messages : AcceptIdle(m) \/ AcceptBusy(m) \/ StoreInput(m)
    \/ \E t \in Threads : FollowsUp(t)
    \/ \E n \in Runs : \/ ClientCancels(n) \/ BeginWake(n) \/ Wake(n) \/ Executes(n)
    \/ AcceptTriggered \/ Crash \/ Boot

Spec == Init /\ [][Next]_vars

(* What is begun for a run or a request goes on, the session gate lets each *)
(* thread in some time, and the daemon is started again.  Clients, tasks    *)
(* and timers owe nothing.                                                  *)
Follows(n) == \E kind \in {"release", "cancel"} : FollowsUp(<<kind, n>>)
Wakes(n)   == \/ <<"wake", n>> \in asked /\ BeginWake(n)
              \/ Wake(n) \/ WriteRow(<<"wake", n>>)
Works(n)   == Executes(n) \/ WriteRow(<<"exec", n>>)
Answers(m) == StoreInput(m) \/ FollowsUp(<<"request", m>>)

Fairness ==
    /\ \A n \in Runs : SF_vars(Works(n)) /\ SF_vars(Wakes(n)) /\ SF_vars(Follows(n))
    /\ \A m \in Messages : SF_vars(Answers(m))
    /\ SF_vars(Boot \/ FollowsUp(<<"boot", 0>>))

LiveSpec == Spec /\ Fairness

-----------------------------------------------------------------------------
(* Every variable holds what the code may store in it, and no two threads   *)
(* are between Lock and Unlock of the session gate.                         *)
TypeOK ==
    /\ run \in [Runs -> {"none", "active", "waiting", "ended"}]
    /\ \A m \in Messages : input[m] \in [mode : {"none", "run", "queue", "steer", "interrupt"}, target : Runs \union {0}, taken : BOOLEAN]
    /\ given \in [Messages -> Nat]
    /\ up \in BOOLEAN
    /\ asked \subseteq Threads /\ again \subseteq Threads /\ gate \subseteq Threads
    /\ stopped \subseteq Runs
    /\ gate = {t \in Threads : pc[t] \in {"accept", "settle", "mark", "steer"}}

(* The gate keeps a session to one active run, whoever starts runs in it. *)
OneActiveRun == \A n, k \in Active : n = k

(* A message marked consumed was put before the model: consumeSessionInput- *)
(* AsRun and appendSteers give before they mark, so a crash between repeats *)
(* a message at worst, and a steer that came after the list stays pending.  *)
ConsumedWasGiven == \A m \in Messages : input[m].taken => given[m] > 0

(* consumeNextPendingSessionInput gives no message a run while an earlier   *)
(* one waits, whether that one was queued, missed the run it steers or      *)
(* interrupts it.                                                           *)
InOrder ==
    [][\A m \in Messages : run' # run /\ given'[m] > given[m] /\ input[m].mode # "none"
            => \A k \in Messages : k < m => given[k] > 0]_vars

(* A message is put before the model once: what follows an end may be done  *)
(* twice, but "a repeat is harmless" (run_lifecycle.go:314).                *)
InputRunsOnce == \A m \in Messages : given[m] <= 1

(* A reply-once message is put before the model by a run of its own         *)
(* (session_inputs.go:126), since no other is delivered to its address.     *)
ReplyOnceOwnRun == [][\A m \in ReplyOnce : given'[m] > given[m] => run' # run]_vars

(* A sent message is put before the model at last, across crashes, unless   *)
(* it is left behind a run that waits for its events: a reply-once message  *)
(* does not wake that run, and an interrupt whose cancel a crash cut off is *)
(* neither repeated nor turned into a steer.                                *)
LeftBehind(m) == /\ m \in ReplyOnce \/ input[m].mode = "interrupt"
                 /\ \E n \in Active : run[n] = "waiting"

MessageTaken == \A m \in Messages : (input[m].mode # "none") ~> (given[m] > 0 \/ LeftBehind(m))
=============================================================================
