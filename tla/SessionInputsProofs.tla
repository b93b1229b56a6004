------------------------- MODULE SessionInputsProofs -------------------------
(***************************************************************************)
(* The session gate keeps a session to one active run, no message is       *)
(* marked consumed unseen, and messages start in their order: proved for   *)
(* any messages, runs, modes and bounds.                                   *)
(***************************************************************************)
EXTENDS SessionInputs, WellFoundedInduction, TLAPS

Sections == {"accept", "settle", "mark", "steer"}

Labels == Sections \union {"off", "cancel", "stop", "check", "after", "requeue", "next", "idle",
                           "work", "append", "appended", "consume", "park", "release"}

(* What the steps read and write has the shape they take for granted. *)
Shape == /\ run \in [Runs -> {"none", "active", "waiting", "ended"}]
         /\ pc \in [Threads -> Labels]

(* The threads in a section of the gate are those that hold it, and they    *)
(* are at most one.                                                         *)
Exclusive == /\ gate = {t \in Threads : pc[t] \in Sections}
             /\ \A t, u \in gate : t = u

(* A thread that settles a session found it idle, and it stays so. *)
Settling == \A t \in Threads : pc[t] = "settle" => Active = {}

GateInv == Shape /\ Exclusive /\ Settling /\ OneActiveRun

-----------------------------------------------------------------------------
(* The kinds of step, by what they do to the gate. *)

(* Runs end, park or go on, none starts. *)
StartsNone == /\ run' \in [Runs -> {"none", "active", "waiting", "ended"}]
              /\ \A n \in Runs : run'[n] \in {"active", "waiting"} => run[n] \in {"active", "waiting"}

(* In an idle session one run starts. *)
StartsOne == /\ run' \in [Runs -> {"none", "active", "waiting", "ended"}]
             /\ \E n : run' = [run EXCEPT ![n] = "active"]
             /\ Active = {}

(* A step without pc and gate of its own keeps the invariant. *)
LEMMA NoMove ==
  ASSUME GateInv, StartsNone, pc' = pc, gate' = gate
  PROVE  GateInv'
  BY DEF GateInv, Shape, Exclusive, Settling, OneActiveRun, Active, StartsNone

(* A thread outside the sections that stays outside. *)
LEMMA Outside ==
  ASSUME GateInv, StartsNone, NEW t \in Threads, NEW l \in Labels,
         pc[t] \notin Sections, l \notin Sections,
         pc' = [pc EXCEPT ![t] = l], gate' = gate
  PROVE  GateInv'
  <1>1. \A u \in Threads : pc'[u] \in Sections <=> pc[u] \in Sections
    BY DEF GateInv, Shape
  <1>2. \A u \in Threads : pc'[u] = "settle" => pc[u] = "settle"
    BY DEF GateInv, Shape, Sections
  <1>3. \A n \in Active' : n \in Active
    BY DEF StartsNone, Active
  <1>4. Shape'
    BY DEF GateInv, Shape, StartsNone
  <1>5. Exclusive'
    BY <1>1 DEF GateInv, Exclusive
  <1>6. Settling' /\ OneActiveRun'
    BY <1>2, <1>3 DEF GateInv, Settling, OneActiveRun
  <1> QED BY <1>4, <1>5, <1>6 DEF GateInv

(* A thread enters a section: the gate was free. *)
LEMMA Enter ==
  ASSUME GateInv, gate = {}, run' = run, NEW t \in Threads, NEW l \in Labels,
         l \in Sections, l = "settle" => Active = {},
         pc' = [pc EXCEPT ![t] = l], gate' = {t}
  PROVE  GateInv'
  <1>1. \A u \in Threads : pc[u] \notin Sections
    BY DEF GateInv, Exclusive
  <1>2. \A u \in Threads : pc'[u] = (IF u = t THEN l ELSE pc[u])
    BY DEF GateInv, Shape
  <1>3. Active' = Active
    BY DEF Active
  <1>4. Shape'
    BY DEF GateInv, Shape
  <1>5. Exclusive'
    BY <1>1, <1>2 DEF Exclusive
  <1>6. Settling'
    BY <1>1, <1>2, <1>3 DEF Settling, Sections
  <1> QED BY <1>3, <1>4, <1>5, <1>6 DEF GateInv, OneActiveRun

(* A thread leaves its section: no other was in one. *)
LEMMA Leave ==
  ASSUME GateInv, StartsNone, NEW t \in Threads, NEW l \in Labels,
         pc[t] \in Sections, l \notin Sections,
         pc' = [pc EXCEPT ![t] = l], gate' = {}
  PROVE  GateInv'
  <1>1. \A u \in Threads : pc[u] \in Sections => u = t
    BY DEF GateInv, Exclusive
  <1>2. \A u \in Threads : pc'[u] \notin Sections
    BY <1>1 DEF GateInv, Shape
  <1>3. \A n \in Active' : n \in Active
    BY DEF StartsNone, Active
  <1>4. Shape'
    BY DEF GateInv, Shape, StartsNone
  <1>5. Exclusive'
    BY <1>2 DEF Exclusive
  <1>6. Settling'
    BY <1>2 DEF Settling, Sections
  <1>7. OneActiveRun'
    BY <1>3 DEF GateInv, OneActiveRun
  <1> QED BY <1>4, <1>5, <1>6, <1>7 DEF GateInv

(* A started run is the only active one. *)
LEMMA Alone ==
  ASSUME GateInv, StartsOne
  PROVE  OneActiveRun'
  BY DEF GateInv, Shape, StartsOne, OneActiveRun, Active

(* A run starts while nobody holds the gate. *)
LEMMA StartFree ==
  ASSUME GateInv, StartsOne, gate = {}, gate' = {}, pc' \in [Threads -> Labels],
         \A u \in Threads : pc'[u] \notin Sections
  PROVE  GateInv'
  <1>1. Shape'
    BY DEF Shape, StartsOne
  <1>2. Exclusive'
    BY DEF Exclusive
  <1>3. Settling'
    BY DEF Settling, Sections
  <1> QED BY <1>1, <1>2, <1>3, Alone DEF GateInv

(* The thread that settles a session starts the next message in it. *)
LEMMA StartSettled ==
  ASSUME GateInv, StartsOne, NEW t \in Threads, pc[t] = "settle",
         pc' = [pc EXCEPT ![t] = "mark"], gate' = gate
  PROVE  GateInv'
  <1>1. \A u \in Threads : pc[u] \in Sections => u = t
    BY DEF GateInv, Exclusive, Sections
  <1>2. \A u \in Threads : pc'[u] = (IF u = t THEN "mark" ELSE pc[u])
    BY DEF GateInv, Shape
  <1>3. Shape'
    BY DEF GateInv, Shape, StartsOne, Labels, Sections
  <1>4. Exclusive'
    BY <1>2 DEF GateInv, Exclusive, Sections
  <1>5. Settling'
    BY <1>1, <1>2 DEF Settling, Sections
  <1> QED BY <1>3, <1>4, <1>5, Alone DEF GateInv

-----------------------------------------------------------------------------
(* While the daemon is down it has no threads. *)
Down == up = FALSE => asked = {} /\ \A t \in Threads : pc[t] = "off"

LEMMA ThreadsOf ==
  /\ \A m \in Messages : <<"request", m>> \in Threads
  /\ \A n \in Runs : /\ <<"cancel", n>> \in Threads /\ <<"release", n>> \in Threads
                      /\ <<"wake", n>> \in Threads /\ <<"exec", n>> \in Threads
  /\ <<"boot", 0>> \in Threads
  BY DEF Threads

LEMMA Init_Inv == Init => GateInv /\ Down
  <1> SUFFICES ASSUME Init PROVE GateInv /\ Down
    OBVIOUS
  <1> USE DEF Init
  <1>1. Shape
    BY DEF Shape, Labels
  <1>2. Exclusive
    BY DEF Exclusive, Sections
  <1>3. Settling /\ OneActiveRun
    BY DEF Settling, OneActiveRun, Active
  <1>4. Down
    BY DEF Down
  <1> QED BY <1>1, <1>2, <1>3, <1>4 DEF GateInv

-----------------------------------------------------------------------------
(* Clients. *)

LEMMA AcceptIdle_Inv ==
  ASSUME GateInv, NEW m \in Messages, AcceptIdle(m)
  PROVE  GateInv'
  <1> USE DEF AcceptIdle, Arrives, Create
  <1>1. StartsOne
    BY DEF StartsOne, GateInv, Shape
  <1>2. gate = {} /\ gate' = {} /\ pc' = pc
    OBVIOUS
  <1>3. pc' \in [Threads -> Labels] /\ \A u \in Threads : pc'[u] \notin Sections
    BY <1>2 DEF GateInv, Shape, Exclusive
  <1> QED BY <1>1, <1>2, <1>3, StartFree

LEMMA AcceptBusy_Inv ==
  ASSUME GateInv, NEW m \in Messages, AcceptBusy(m)
  PROVE  GateInv'
  <1>1. /\ gate = {} /\ run' = run /\ gate' = {<<"request", m>>}
        /\ pc' = [pc EXCEPT ![<<"request", m>>] = "accept"]
    BY DEF AcceptBusy, Arrives, Goto
  <1>2. "accept" \in Labels /\ "accept" \in Sections
    BY DEF Sections, Labels
  <1> QED BY <1>1, <1>2, Enter, ThreadsOf

LEMMA StoreInput_Inv ==
  ASSUME GateInv, NEW m \in Messages, StoreInput(m)
  PROVE  GateInv'
  <1> DEFINE t == <<"request", m>>
  <1>1. StartsNone /\ gate' = {} /\ pc[t] \in Sections
    BY DEF StoreInput, StartsNone, GateInv, Shape, Sections
  <1>2. PICK l \in {"cancel", "off"} : pc' = [pc EXCEPT ![t] = l]
    BY DEF StoreInput, Goto
  <1>3. l \in Labels /\ l \notin Sections
    BY DEF Sections, Labels
  <1> QED BY <1>1, <1>2, <1>3, Leave, ThreadsOf

-----------------------------------------------------------------------------
(* Cancels, and what follows a run. *)

LEMMA Returns ==
  ASSUME NEW t \in Threads, Return(t)
  PROVE  \E l \in {"next", "off"} : pc' = [pc EXCEPT ![t] = l]
  BY DEF Return, Goto

LEMMA Cancel_Inv ==
  ASSUME GateInv, NEW t \in Threads, CancelRecord(t) \/ CancelStop(t) \/ CancelCheck(t)
  PROVE  GateInv'
  <1>1. pc[t] \notin Sections /\ gate' = gate
    BY DEF CancelRecord, CancelStop, CancelCheck, Sections
  <1>2. StartsNone
    BY DEF CancelRecord, CancelStop, CancelCheck, StartsNone, GateInv, Shape
  <1>3. PICK l \in {"stop", "check", "after", "next", "off"} : pc' = [pc EXCEPT ![t] = l]
    BY Returns DEF CancelRecord, CancelStop, CancelCheck, Goto
  <1>4. l \in Labels /\ l \notin Sections
    BY DEF Sections, Labels
  <1> QED BY <1>1, <1>2, <1>3, <1>4, Outside

LEMMA After_Inv ==
  ASSUME GateInv, NEW t \in Threads, After(t)
  PROVE  GateInv'
  <1>1. pc[t] \notin Sections /\ gate' = gate
    BY DEF After, AtAfter, Sections
  <1>2. StartsNone
    BY DEF After, StartsNone, GateInv, Shape
  <1>3. PICK l \in {"requeue", "next", "off"} : pc' = [pc EXCEPT ![t] = l]
    BY Returns DEF After, Goto
  <1>4. l \in Labels /\ l \notin Sections
    BY DEF Sections, Labels
  <1> QED BY <1>1, <1>2, <1>3, <1>4, Outside

LEMMA StartNext_Inv ==
  ASSUME GateInv, NEW t \in Threads, StartNext(t)
  PROVE  GateInv'
  <1>1. pc[t] \notin Sections /\ gate = {} /\ run' = run
    BY DEF StartNext, Sections
  <1>2. StartsNone
    BY <1>1 DEF StartsNone, GateInv, Shape
  <1>3. CASE Active # {}
    <2>1. gate' = gate
      BY <1>3 DEF StartNext
    <2>2. PICK l \in {"idle", "off"} : pc' = [pc EXCEPT ![t] = l]
      BY <1>3 DEF StartNext, Goto, NothingNext
    <2>3. l \in Labels /\ l \notin Sections
      BY DEF Sections, Labels
    <2> QED BY <1>1, <1>2, <2>1, <2>2, <2>3, Outside
  <1>4. CASE Active = {}
    <2>1. gate' = {t} /\ pc' = [pc EXCEPT ![t] = "settle"]
      BY <1>4 DEF StartNext, Goto
    <2>2. "settle" \in Labels /\ "settle" \in Sections
      BY DEF Sections, Labels
    <2> QED BY <1>1, <1>4, <2>1, <2>2, Enter
  <1> QED BY <1>3, <1>4

LEMMA ConsumeInput_Inv ==
  ASSUME GateInv, NEW t \in Threads, ConsumeInput(t)
  PROVE  GateInv'
  <1>1. pc[t] = "settle" /\ pc[t] \in Sections
    BY DEF ConsumeInput, Sections
  <1>2. CASE Pending \ Steers = {}
    <2>1. gate' = {} /\ StartsNone
      BY <1>2 DEF ConsumeInput, StartsNone, GateInv, Shape
    <2>2. PICK l \in {"idle", "off"} : pc' = [pc EXCEPT ![t] = l]
      BY <1>2 DEF ConsumeInput, Goto, NothingNext
    <2>3. l \in Labels /\ l \notin Sections
      BY DEF Sections, Labels
    <2> QED BY <1>1, <2>1, <2>2, <2>3, Leave
  <1>3. CASE Pending \ Steers # {}
    <2>1. pc' = [pc EXCEPT ![t] = "mark"] /\ gate' = gate
      BY <1>3 DEF ConsumeInput, Goto
    <2>2. run' = [run EXCEPT ![Least(Unused)] = "active"]
      BY <1>3 DEF ConsumeInput, Create
    <2>3. Active = {}
      BY <1>1 DEF GateInv, Settling
    <2>4. StartsOne
      BY <2>2, <2>3 DEF StartsOne, GateInv, Shape
    <2> QED BY <1>1, <2>1, <2>4, StartSettled
  <1> QED BY <1>2, <1>3

LEMMA Marked_Inv ==
  ASSUME GateInv, NEW t \in Threads, Marked(t)
  PROVE  GateInv'
  <1>1. StartsNone /\ gate' = {} /\ pc[t] \in Sections
    BY DEF Marked, StartsNone, GateInv, Shape, Sections
  <1>2. PICK l \in {"next", "off"} : pc' = [pc EXCEPT ![t] = l]
    BY Returns DEF Marked
  <1>3. l \in Labels /\ l \notin Sections
    BY DEF Sections, Labels
  <1> QED BY <1>1, <1>2, <1>3, Leave

LEMMA Idle_Inv ==
  ASSUME GateInv, NEW t \in Threads, Idle(t)
  PROVE  GateInv'
  <1>1. pc[t] \notin Sections /\ gate' = gate
    BY DEF Idle, Sections
  <1>2. PICK l \in {"next", "off"} : pc' = [pc EXCEPT ![t] = l]
    BY Returns DEF Idle
  <1>3. l \in Labels /\ l \notin Sections
    BY DEF Sections, Labels
  <1>4. CASE run' = run
    <2>1. StartsNone
      BY <1>4 DEF StartsNone, GateInv, Shape
    <2> QED BY <1>1, <1>2, <1>3, <2>1, Outside
  <1>5. CASE StartOwn
    <2>1. StartsOne /\ gate = {}
      BY <1>5 DEF StartOwn, StartsOne, GateInv, Shape
    <2>2. \A u \in Threads : pc[u] \notin Sections
      BY <2>1 DEF GateInv, Exclusive
    <2>3. pc' \in [Threads -> Labels] /\ \A u \in Threads : pc'[u] \notin Sections
      BY <1>2, <1>3, <2>2 DEF GateInv, Shape
    <2> QED BY <1>1, <2>1, <2>3, StartFree
  <1> QED BY <1>4, <1>5 DEF Idle

LEMMA WriteRow_Inv ==
  ASSUME GateInv, NEW t \in Threads, WriteRow(t)
  PROVE  GateInv'
  <1>1. StartsNone /\ gate' = gate
    BY DEF WriteRow, StartsNone, GateInv, Shape
  <1>2. CASE pc' = pc
    BY <1>1, <1>2, NoMove
  <1>3. CASE pc[t] = "consume" /\ pc' = [pc EXCEPT ![t] = "work"]
    <2>1. pc[t] \notin Sections /\ "work" \notin Sections /\ "work" \in Labels
      BY <1>3 DEF Sections, Labels
    <2> QED BY <1>1, <1>3, <2>1, Outside
  <1> QED BY <1>2, <1>3 DEF WriteRow, Goto

LEMMA FollowsUp_Inv ==
  ASSUME GateInv, NEW t \in Threads, FollowsUp(t)
  PROVE  GateInv'
  BY Cancel_Inv, After_Inv, StartNext_Inv, ConsumeInput_Inv, Marked_Inv, Idle_Inv,
     WriteRow_Inv DEF FollowsUp

-----------------------------------------------------------------------------
(* Runs. *)

LEMMA ClientCancels_Inv ==
  ASSUME GateInv, NEW n \in Runs, ClientCancels(n)
  PROVE  GateInv'
  <1>1. /\ pc[<<"cancel", n>>] \notin Sections /\ "cancel" \in Labels \ Sections /\ gate' = gate
        /\ pc' = [pc EXCEPT ![<<"cancel", n>>] = "cancel"]
    BY DEF ClientCancels, Goto, Sections, Labels
  <1>2. StartsNone
    BY DEF ClientCancels, StartsNone, GateInv, Shape
  <1> QED BY <1>1, <1>2, Outside, ThreadsOf

LEMMA BeginWake_Inv ==
  ASSUME GateInv, NEW n \in Runs, BeginWake(n)
  PROVE  GateInv'
  <1>1. gate = {} /\ run' = run
    BY DEF BeginWake
  <1>2. CASE run[n] = "waiting"
    <2>1. gate' = {<<"wake", n>>} /\ pc' = [pc EXCEPT ![<<"wake", n>>] = "steer"]
      BY <1>2 DEF BeginWake, Goto
    <2>2. "steer" \in Labels /\ "steer" \in Sections
      BY DEF Sections, Labels
    <2> QED BY <1>1, <2>1, <2>2, Enter, ThreadsOf
  <1>3. CASE run[n] # "waiting"
    <2>1. gate' = gate /\ pc' = pc
      BY <1>3 DEF BeginWake
    <2>2. StartsNone
      BY <1>1 DEF StartsNone, GateInv, Shape
    <2> QED BY <2>1, <2>2, NoMove
  <1> QED BY <1>2, <1>3

LEMMA Wake_Inv ==
  ASSUME GateInv, NEW n \in Runs, Wake(n)
  PROVE  GateInv'
  <1>1. /\ StartsNone /\ gate' = {} /\ pc[<<"wake", n>>] \in Sections /\ "off" \in Labels \ Sections
        /\ pc' = [pc EXCEPT ![<<"wake", n>>] = "off"]
    BY DEF Wake, Goto, StartsNone, GateInv, Shape, Sections, Labels
  <1> QED BY <1>1, Leave, ThreadsOf

(* An executor stays outside the sections; its claim is a section in one    *)
(* step, for a run that is active already.                                  *)
LEMMA Executes_Inv ==
  ASSUME GateInv, NEW n \in Runs, Executes(n)
  PROVE  GateInv'
  <1> DEFINE t == <<"exec", n>>
  <1> USE DEF Claim, ListSteers, AppendSteers, ConsumeSteers, CheckAwait, Park, EndRun, Commit,
              Stops, Release
  <1>1. pc[t] \notin Sections /\ gate' = gate
    BY DEF Executes, Begin, Sections
  <1>2. StartsNone
    <2>1. run' = run \/ \E s \in {"active", "waiting", "ended"} :
                           n \in Active /\ run' = [run EXCEPT ![n] = s]
      BY DEF Executes
    <2> QED BY <2>1 DEF StartsNone, GateInv, Shape, Active
  <1>3. PICK l \in {"work", "release", "append", "appended", "consume", "park", "off"} :
           pc' = [pc EXCEPT ![t] = l]
    BY DEF Executes, Goto
  <1>4. l \in Labels /\ l \notin Sections
    BY DEF Sections, Labels
  <1> QED BY <1>1, <1>2, <1>3, <1>4, Outside, ThreadsOf

-----------------------------------------------------------------------------
(* The daemon. *)

LEMMA AcceptTriggered_Inv ==
  ASSUME GateInv, AcceptTriggered
  PROVE  GateInv'
  <1>1. StartsOne /\ gate = {} /\ gate' = {} /\ pc' = pc
    BY DEF AcceptTriggered, StartOwn, StartsOne, GateInv, Shape
  <1>2. pc' \in [Threads -> Labels] /\ \A u \in Threads : pc'[u] \notin Sections
    BY <1>1 DEF GateInv, Shape, Exclusive
  <1> QED BY <1>1, <1>2, StartFree

LEMMA Crash_Inv ==
  ASSUME GateInv, Crash
  PROVE  GateInv'
  <1>1. Shape'
    BY DEF Crash, GateInv, Shape, Labels
  <1>2. Exclusive'
    BY DEF Crash, Exclusive, Sections
  <1>3. Settling' /\ OneActiveRun'
    BY DEF Crash, Settling, GateInv, OneActiveRun, Active
  <1> QED BY <1>1, <1>2, <1>3 DEF GateInv

LEMMA Boot_Inv ==
  ASSUME GateInv, Down, Boot
  PROVE  GateInv'
  <1> DEFINE t == <<"boot", 0>>
  <1>1. StartsNone /\ gate' = gate
    BY DEF Boot, StartsNone, GateInv, Shape
  <1>2. pc[t] \notin Sections
    BY ThreadsOf DEF Boot, Down, Sections
  <1>3. PICK l \in {"next", "off"} : pc' = [pc EXCEPT ![t] = l]
    BY DEF Boot, Goto
  <1>4. l \in Labels /\ l \notin Sections
    BY DEF Sections, Labels
  <1> QED BY <1>1, <1>2, <1>3, <1>4, Outside, ThreadsOf

(* Only a start ends the daemon's absence, and only a crash begins it. *)
LEMMA Down_Inv ==
  ASSUME Down, [Next]_vars
  PROVE  Down'
  <1>1. CASE UNCHANGED vars
    BY <1>1 DEF Down, vars
  <1>2. CASE Crash \/ Boot
    BY <1>2 DEF Crash, Boot, Down
  <1>3. ASSUME NEW m \in Messages, AcceptIdle(m) \/ AcceptBusy(m) \/ StoreInput(m)
        PROVE  Down'
    <2>1. up' = up
      BY <1>3 DEF AcceptIdle, AcceptBusy, StoreInput
    <2>2. up \/ pc[<<"request", m>>] = "accept"
      BY <1>3, Zenon DEF AcceptIdle, AcceptBusy, StoreInput, Arrives
    <2>3. up => up # FALSE
      BY Zenon
    <2> QED BY <2>1, <2>2, <2>3, ThreadsOf DEF Down
  <1>4. CASE \E t \in Threads : FollowsUp(t)
    BY <1>4 DEF Down, FollowsUp, CancelRecord, CancelStop, CancelCheck, After, AtAfter, StartNext,
                ConsumeInput, Marked, Idle, WriteRow
  <1>5. ASSUME NEW n \in Runs, ClientCancels(n) \/ BeginWake(n) \/ Wake(n)
        PROVE  Down'
    <2>1. up' = up
      BY <1>5 DEF ClientCancels, BeginWake, Wake
    <2>2. up \/ pc[<<"wake", n>>] = "steer"
      BY <1>5, Zenon DEF ClientCancels, BeginWake, Wake
    <2>3. up => up # FALSE
      BY Zenon
    <2> QED BY <2>1, <2>2, <2>3, ThreadsOf DEF Down
  <1>6. CASE \E n \in Runs : Executes(n)
    BY <1>6, ThreadsOf DEF Down, Executes, Begin, Claim, ListSteers, AppendSteers, ConsumeSteers,
                           CheckAwait, Park, EndRun, Commit, Stops, Release
  <1>7. CASE AcceptTriggered
    BY <1>7 DEF Down, AcceptTriggered
  <1> QED BY <1>1, <1>2, <1>3, <1>4, <1>5, <1>6, <1>7 DEF Next

LEMMA Next_Inv ==
  ASSUME GateInv, Down, [Next]_vars
  PROVE  GateInv'
  <1>1. CASE UNCHANGED vars
    <2>1. StartsNone /\ pc' = pc /\ gate' = gate
      BY <1>1 DEF vars, StartsNone, GateInv, Shape
    <2> QED BY <2>1, NoMove
  <1>2. CASE \E m \in Messages : AcceptIdle(m) \/ AcceptBusy(m) \/ StoreInput(m)
    BY <1>2, AcceptIdle_Inv, AcceptBusy_Inv, StoreInput_Inv
  <1>3. CASE \E t \in Threads : FollowsUp(t)
    BY <1>3, FollowsUp_Inv
  <1>4. CASE \E n \in Runs : ClientCancels(n) \/ BeginWake(n) \/ Wake(n) \/ Executes(n)
    BY <1>4, ClientCancels_Inv, BeginWake_Inv, Wake_Inv, Executes_Inv
  <1>5. CASE AcceptTriggered \/ Crash \/ Boot
    BY <1>5, AcceptTriggered_Inv, Crash_Inv, Boot_Inv
  <1> QED BY <1>1, <1>2, <1>3, <1>4, <1>5 DEF Next

-----------------------------------------------------------------------------
(* The inductive invariant holds in every behaviour: the sections of the    *)
(* gate exclude each other, and a session that is being settled is idle.    *)
THEOREM GateKept == Spec => [](GateInv /\ Down)
  <1>1. Init => GateInv /\ Down
    BY Init_Inv
  <1>2. GateInv /\ Down /\ [Next]_vars => (GateInv /\ Down)'
    BY Next_Inv, Down_Inv
  <1> QED BY <1>1, <1>2, PTL DEF Spec

(* A session never has two active runs, whoever starts runs in it: clients, *)
(* interrupts, what follows a run's end, automation and recovery.           *)
THEOREM OneRunActive == Spec => []OneActiveRun
  <1>1. GateInv => OneActiveRun
    BY DEF GateInv
  <1> QED BY GateKept, <1>1, PTL
-----------------------------------------------------------------------------
(* What is marked consumed was given.  A row a thread will write is one of  *)
(* a given message or stores it as pending, unless the thread has still to  *)
(* journal its steers; those it has journaled are given.                    *)
Given == {m \in Messages : given[m] > 0}

Stores == /\ DOMAIN input = Messages
          /\ DOMAIN todo = Threads
          /\ given \in [Messages -> Nat]

Taking == \A m \in Messages : m \in Given \/ input[m].taken = FALSE

Writes(l, S, G) ==
    \A w \in S : w[1] \in Messages => \/ l = "append" \/ w[1] \in G
                                      \/ l # "appended" /\ w[2].taken = FALSE

Writing == \A t \in Threads : Writes(pc[t], todo[t], Given)

GivenInv == Stores /\ Taking /\ Writing

(* Messages are only ever given more often. *)
Grows == given' \in [Messages -> Nat] /\ Given \subseteq Given'

LEMMA SameGiven ==
  ASSUME GivenInv, given' = given
  PROVE  Grows
  BY DEF GivenInv, Stores, Grows, Given

LEMMA SameRows ==
  ASSUME GivenInv, Grows, input' = input
  PROVE  Taking' /\ DOMAIN input' = Messages
  BY DEF GivenInv, Stores, Taking, Grows

LEMMA Create_Given ==
  ASSUME GivenInv, NEW n, NEW m, Create(n, m)
  PROVE  Grows /\ (m \in Messages => m \in Given')
  <1>1. given \in [Messages -> Nat] /\ given' = [given EXCEPT ![m] = given[m] + 1]
    BY DEF GivenInv, Stores, Create
  <1>2. CASE m \in Messages
    <2>1. given' \in [Messages -> Nat] /\ given'[m] = given[m] + 1
      BY <1>1, <1>2
    <2>2. \A k \in Messages : k # m => given'[k] = given[k]
      BY <1>1
    <2> QED BY <1>1, <2>1, <2>2 DEF Grows, Given
  <1>3. CASE m \notin Messages
    <2>1. given' = given
      BY <1>1, <1>3
    <2> QED BY <1>3, <2>1, SameGiven
  <1> QED BY <1>2, <1>3

(* No thread gets rows to write. *)
LEMMA Forget ==
  ASSUME GivenInv, Grows, Taking', DOMAIN input' = Messages, DOMAIN todo' = Threads,
         \A u \in Threads : /\ todo'[u] \subseteq todo[u]
                            /\ \/ todo'[u] = {} \/ pc'[u] = pc[u]
                               \/ pc[u] # "append" /\ pc'[u] # "appended"
  PROVE  GivenInv'
  <1>1. Stores'
    BY DEF Stores, Grows
  <1>2. Writing'
    <2> SUFFICES ASSUME NEW u \in Threads, NEW w \in todo'[u], w[1] \in Messages
                 PROVE  \/ pc'[u] = "append" \/ w[1] \in Given'
                        \/ pc'[u] # "appended" /\ w[2].taken = FALSE
      BY DEF Writing, Writes
    <2>1. w \in todo[u] /\ (pc'[u] = pc[u] \/ (pc[u] # "append" /\ pc'[u] # "appended"))
      OBVIOUS
    <2>2. pc[u] = "append" \/ w[1] \in Given \/ (pc[u] # "appended" /\ w[2].taken = FALSE)
      BY <2>1 DEF GivenInv, Writing, Writes
    <2> QED BY <2>1, <2>2 DEF Grows
  <1> QED BY <1>1, <1>2 DEF GivenInv

(* A thread goes on as it is. *)
LEMMA NoPlan ==
  ASSUME GateInv, GivenInv, given' = given, input' = input, todo' = todo,
         NEW t \in Threads, NEW l, pc[t] # "append", l # "appended",
         pc' = [pc EXCEPT ![t] = l] \/ pc' = pc
  PROVE  GivenInv'
  <1>1. \A u \in Threads : pc'[u] = pc[u] \/ (pc[u] # "append" /\ pc'[u] # "appended")
    BY DEF GateInv, Shape
  <1>2. Grows /\ Taking' /\ DOMAIN input' = Messages /\ DOMAIN todo' = Threads
    BY SameGiven, SameRows DEF GivenInv, Stores
  <1> QED BY <1>1, <1>2, Forget

(* A thread plans what it will write. *)
LEMMA NewPlan ==
  ASSUME GateInv, GivenInv, Grows, input' = input, NEW t \in Threads, NEW l, NEW S,
         pc' = [pc EXCEPT ![t] = l], Writes(l, S, Given'),
         todo' = [todo EXCEPT ![t] = S] \/ (todo' = todo /\ S = todo[t])
  PROVE  GivenInv'
  <1>1. Taking' /\ Stores'
    BY SameRows DEF GivenInv, Stores, Grows
  <1>2. Writing'
    <2> SUFFICES ASSUME NEW u \in Threads PROVE Writes(pc'[u], todo'[u], Given')
      BY DEF Writing
    <2>1. CASE u = t
      <3>1. pc'[u] = l /\ todo'[u] = S
        BY <2>1 DEF GateInv, Shape, GivenInv, Stores
      <3> QED BY <3>1
    <2>2. CASE u # t
      <3>1. pc'[u] = pc[u] /\ todo'[u] = todo[u]
        BY <2>2 DEF GateInv, Shape, GivenInv, Stores
      <3>2. Writes(pc[u], todo[u], Given)
        BY DEF GivenInv, Writing
      <3> QED BY <3>1, <3>2 DEF Writes, Grows
    <2> QED BY <2>1, <2>2
  <1> QED BY <1>1, <1>2 DEF GivenInv

LEMMA Untaken_Writes ==
  ASSUME NEW S, NEW l, NEW G, NEW n, l # "appended"
  PROVE  Writes(l, AsQueued(S), G) /\ Writes(l, AsSteer(S, n), G)
  BY DEF Writes, AsQueued, AsSteer, Row

LEMMA AsTaken_Writes ==
  ASSUME NEW S, NEW l, NEW G, l = "append" \/ \A m \in S : m \in Messages => m \in G
  PROVE  Writes(l, AsTaken(S), G)
  <1> SUFFICES ASSUME NEW w \in AsTaken(S) PROVE w[1] \in S
    BY DEF Writes
  <1>1. \E m \in S : w = <<m, [input[m] EXCEPT !.taken = TRUE]>>
    BY Zenon DEF AsTaken
  <1>2. \A a, b : <<a, b>>[1] = a
    OBVIOUS
  <1> QED BY <1>1, <1>2, Zenon

LEMMA Init_Given == Init => GivenInv
  <1> SUFFICES ASSUME Init PROVE GivenInv
    OBVIOUS
  <1>1. Stores /\ Taking
    BY DEF Init, Stores, Taking, Unsent, Row
  <1>2. Writing
    BY DEF Init, Writing, Writes
  <1> QED BY <1>1, <1>2 DEF GivenInv

-----------------------------------------------------------------------------
LEMMA Requests_Given ==
  ASSUME GateInv, GivenInv, NEW m \in Messages, AcceptIdle(m) \/ AcceptBusy(m) \/ StoreInput(m)
  PROVE  GivenInv'
  <1> DEFINE t == <<"request", m>>
  <1>1. CASE AcceptIdle(m)
    <2>1. Grows /\ m \in Given'
      BY <1>1, Create_Given DEF AcceptIdle
    <2>2. pc' = pc /\ todo' = todo /\ input' = [input EXCEPT ![m] = Row("run", 0, TRUE)]
      BY <1>1 DEF AcceptIdle
    <2>3. \A k \in Messages : k # m => input'[k] = input[k]
      BY <2>2 DEF GivenInv, Stores
    <2>4. Taking'
      BY <2>1, <2>3 DEF GivenInv, Taking, Grows
    <2>5. DOMAIN input' = Messages /\ DOMAIN todo' = Threads
      BY <2>2 DEF GivenInv, Stores
    <2> QED BY <2>1, <2>2, <2>4, <2>5, Forget
  <1>2. CASE AcceptBusy(m)
    <2>1. PICK n \in Active, mode \in Modes :
             todo' = [todo EXCEPT ![t] = {<<m, Row(Taken(mode, m, n), n, FALSE)>>}]
      BY <1>2 DEF AcceptBusy, Plan
    <2>2. Writes("accept", {<<m, Row(Taken(mode, m, n), n, FALSE)>>}, Given')
      BY DEF Writes, Row
    <2>3. input' = input /\ given' = given /\ pc' = [pc EXCEPT ![t] = "accept"]
      BY <1>2 DEF AcceptBusy, Goto
    <2> QED BY <2>1, <2>2, <2>3, SameGiven, NewPlan, ThreadsOf
  <1>3. CASE StoreInput(m)
    <2>1. PICK w \in todo[t] : input' = [input EXCEPT ![w[1]] = w[2]]
      BY <1>3 DEF StoreInput
    <2>2. pc[t] = "accept" /\ todo' = [todo EXCEPT ![t] = {}] /\ given' = given
      BY <1>3 DEF StoreInput, Plan
    <2>3. \A u \in Threads : todo'[u] \subseteq todo[u] /\ (todo'[u] = {} \/ pc'[u] = pc[u])
      BY <1>3, <2>2 DEF StoreInput, Goto, GivenInv, Stores, GateInv, Shape
    <2>4. w[1] \in Messages => w[1] \in Given \/ w[2].taken = FALSE
      BY <2>1, <2>2, ThreadsOf DEF GivenInv, Writing, Writes
    <2>5. Taking' /\ DOMAIN input' = Messages /\ DOMAIN todo' = Threads
      BY <2>1, <2>2, <2>4, SameGiven DEF GivenInv, Stores, Taking, Grows
    <2> QED BY <2>2, <2>3, <2>5, SameGiven, Forget
  <1> QED BY <1>1, <1>2, <1>3

LEMMA WriteRow_Given ==
  ASSUME GateInv, GivenInv, NEW t \in Threads, WriteRow(t)
  PROVE  GivenInv'
  <1>1. PICK w \in todo[t] : /\ input' = [input EXCEPT ![w[1]] = w[2]]
                             /\ todo' = [todo EXCEPT ![t] = todo[t] \ {w}]
    BY DEF WriteRow, Plan
  <1>2. pc[t] # "append" /\ given' = given
    BY DEF WriteRow
  <1>3. pc' = pc \/ pc' = [pc EXCEPT ![t] = "work"]
    BY DEF WriteRow, Goto
  <1>4. \A u \in Threads : /\ todo'[u] \subseteq todo[u]
                           /\ pc'[u] = pc[u] \/ (pc[u] # "append" /\ pc'[u] # "appended")
    BY <1>1, <1>2, <1>3 DEF GivenInv, Stores, GateInv, Shape
  <1>5. w[1] \in Messages => w[1] \in Given \/ w[2].taken = FALSE
    BY <1>1, <1>2 DEF GivenInv, Writing, Writes
  <1>6. Taking' /\ DOMAIN input' = Messages /\ DOMAIN todo' = Threads
    BY <1>1, <1>2, <1>5, SameGiven DEF GivenInv, Stores, Taking, Grows
  <1> QED BY <1>2, <1>4, <1>6, SameGiven, Forget

LEMMA FollowsUp_Given ==
  ASSUME GateInv, GivenInv, NEW t \in Threads, FollowsUp(t)
  PROVE  GivenInv'
  <1>1. CASE CancelRecord(t) \/ CancelStop(t) \/ CancelCheck(t) \/ Marked(t) \/ Idle(t)
    <2>1. given' = given /\ input' = input /\ todo' = todo /\ pc[t] # "append"
      BY <1>1 DEF CancelRecord, CancelStop, CancelCheck, Marked, Idle
    <2>2. \E l : l # "appended" /\ pc' = [pc EXCEPT ![t] = l]
      BY <1>1 DEF CancelRecord, CancelStop, CancelCheck, Marked, Idle, Goto, Return
    <2> QED BY <2>1, <2>2, NoPlan
  <1> NothingNext(t) # "appended"
    BY DEF NothingNext
  <1>2. CASE After(t)
    <2>1. given' = given /\ input' = input /\ pc[t] # "append"
      BY <1>2 DEF After, AtAfter
    <2>2. CASE run[RunOf(t)] = "ended"
      BY <1>2, <2>1, <2>2, SameGiven, NewPlan, Untaken_Writes DEF After, Plan, Goto
    <2>3. CASE run[RunOf(t)] # "ended"
      BY <1>2, <2>1, <2>3, NoPlan DEF After, Return, Goto
    <2> QED BY <2>2, <2>3
  <1>3. CASE StartNext(t)
    <2>1. given' = given /\ input' = input /\ pc[t] # "append"
      BY <1>3 DEF StartNext
    <2>2. CASE Active # {}
      BY <1>3, <2>1, <2>2, NoPlan DEF StartNext, Goto
    <2>3. CASE Active = {}
      BY <1>3, <2>1, <2>3, SameGiven, NewPlan, Untaken_Writes DEF StartNext, Plan, Goto
    <2> QED BY <2>2, <2>3
  <1>4. CASE ConsumeInput(t)
    <2>1. input' = input /\ pc[t] # "append"
      BY <1>4 DEF ConsumeInput
    <2>2. CASE Pending \ Steers = {}
      BY <1>4, <2>1, <2>2, NoPlan DEF ConsumeInput, Goto
    <2>3. CASE Pending \ Steers # {}
      <3>1. Grows /\ (NextInput \in Messages => NextInput \in Given')
        BY <1>4, <2>3, Create_Given DEF ConsumeInput
      <3>2. Writes("mark", AsTaken({NextInput}), Given')
        BY <3>1, AsTaken_Writes
      <3>3. /\ todo' = [todo EXCEPT ![t] = AsTaken({NextInput})]
            /\ pc' = [pc EXCEPT ![t] = "mark"]
        BY <1>4, <2>3 DEF ConsumeInput, Plan, Goto
      <3> QED BY <2>1, <3>1, <3>2, <3>3, NewPlan
    <2> QED BY <2>2, <2>3
  <1> QED BY <1>1, <1>2, <1>3, <1>4, WriteRow_Given DEF FollowsUp

LEMMA Runs_Given ==
  ASSUME GateInv, GivenInv, NEW n \in Runs, ClientCancels(n) \/ BeginWake(n) \/ Wake(n)
  PROVE  GivenInv'
  <1>1. given' = given /\ input' = input
    BY DEF ClientCancels, BeginWake, Wake
  <1>2. CASE ClientCancels(n)
    BY <1>1, <1>2, NoPlan, ThreadsOf DEF ClientCancels, Goto
  <1>3. CASE BeginWake(n)
    <2>1. CASE run[n] = "waiting"
      <3> DEFINE S == {m \in Pending : input[m].mode = "queue"}
      <3>1. /\ pc' = [pc EXCEPT ![<<"wake", n>>] = "steer"]
            /\ todo' = [todo EXCEPT ![<<"wake", n>>] = AsSteer(S, n)]
        BY <1>3, <2>1 DEF BeginWake, Plan, Goto
      <3>2. Writes("steer", AsSteer(S, n), Given')
        BY Untaken_Writes
      <3> QED BY <1>1, <3>1, <3>2, SameGiven, NewPlan, ThreadsOf
    <2>2. CASE run[n] # "waiting"
      BY <1>1, <1>3, <2>2, NoPlan, ThreadsOf DEF BeginWake
    <2> QED BY <2>1, <2>2
  <1>4. CASE Wake(n)
    BY <1>1, <1>4, NoPlan, ThreadsOf DEF Wake, Goto
  <1> QED BY <1>2, <1>3, <1>4

(* An executor marks the steers it has journaled and no others. *)
LEMMA Executes_Given ==
  ASSUME GateInv, GivenInv, NEW n \in Runs, Executes(n)
  PROVE  GivenInv'
  <1> DEFINE t == <<"exec", n>>
  <1> t \in Threads
    BY ThreadsOf
  <1>1. CASE Claim(n) \/ CheckAwait(n) \/ Park(n) \/ EndRun(n) \/ Release(n)
    <2>1. given' = given /\ input' = input /\ todo' = todo /\ pc[t] # "append"
      BY <1>1 DEF Claim, CheckAwait, Park, EndRun, Commit, Release, Begin
    <2>2. \E l : l # "appended" /\ pc' = [pc EXCEPT ![t] = l]
      BY <1>1 DEF Claim, CheckAwait, Park, EndRun, Commit, Release, Goto
    <2> QED BY <2>1, <2>2, NoPlan
  <1>2. CASE ListSteers(n)
    <2>1. Writes("append", AsTaken(SteersOf(n)), Given')
      BY AsTaken_Writes
    <2>2. /\ given' = given /\ input' = input /\ pc' = [pc EXCEPT ![t] = "append"]
          /\ todo' = [todo EXCEPT ![t] = AsTaken(SteersOf(n))]
      BY <1>2 DEF ListSteers, Plan, Goto
    <2> QED BY <2>1, <2>2, SameGiven, NewPlan
  <1>3. CASE AppendSteers(n)
    <2>1. /\ given' = [m \in Messages |-> IF \E w \in todo[t] : w[1] = m THEN given[m] + 1 ELSE given[m]]
          /\ input' = input /\ todo' = todo /\ pc' = [pc EXCEPT ![t] = "appended"]
      BY <1>3 DEF AppendSteers, Goto
    <2>2. Grows /\ \A w \in todo[t] : w[1] \in Messages => w[1] \in Given'
      BY <2>1 DEF GivenInv, Stores, Grows, Given
    <2>3. Writes("appended", todo[t], Given')
      BY <2>2 DEF Writes
    <2> QED BY <2>1, <2>2, <2>3, NewPlan
  <1>4. CASE ConsumeSteers(n)
    <2> DEFINE mine == {m \in SteersOf(n) : \E w \in todo[t] : w[1] = m}
    <2>1. \A m \in mine : m \in Messages => m \in Given
      BY <1>4 DEF ConsumeSteers, GivenInv, Writing, Writes
    <2>2. PICK l \in {"work", "consume"} : pc' = [pc EXCEPT ![t] = l]
      BY <1>4 DEF ConsumeSteers, Goto
    <2>3. given' = given /\ input' = input /\ todo' = [todo EXCEPT ![t] = AsTaken(mine)]
      BY <1>4 DEF ConsumeSteers, Plan
    <2>4. Writes(l, AsTaken(mine), Given')
      BY <2>1, <2>3, AsTaken_Writes, SameGiven DEF Grows
    <2> QED BY <2>2, <2>3, <2>4, SameGiven, NewPlan
  <1>5. CASE Stops(n)
    <2>1. /\ given' = given /\ input' = input
          /\ todo' = [todo EXCEPT ![t] = {}] /\ pc' = [pc EXCEPT ![t] = "release"]
      BY <1>5 DEF Stops, Plan, Goto
    <2>2. Writes("release", {}, Given')
      BY DEF Writes
    <2> QED BY <2>1, <2>2, SameGiven, NewPlan
  <1> QED BY <1>1, <1>2, <1>3, <1>4, <1>5 DEF Executes

LEMMA Daemon_Given ==
  ASSUME GateInv, Down, GivenInv, AcceptTriggered \/ Crash \/ Boot
  PROVE  GivenInv'
  <1>1. Grows /\ Taking' /\ DOMAIN input' = Messages
    BY SameGiven, SameRows DEF AcceptTriggered, Crash, Boot
  <1>2. CASE AcceptTriggered
    BY <1>1, <1>2, Forget DEF AcceptTriggered, GivenInv, Stores
  <1>3. CASE Crash
    <2>1. DOMAIN todo' = Threads /\ \A u \in Threads : todo'[u] = {}
      BY <1>3 DEF Crash
    <2> QED BY <1>1, <2>1, Forget
  <1>4. CASE Boot
    <2>1. todo' = todo /\ given' = given /\ input' = input
      BY <1>4 DEF Boot
    <2>2. PICK l \in {"next", "off"} : pc' = [pc EXCEPT ![<<"boot", 0>>] = l]
      BY <1>4 DEF Boot, Goto
    <2>3. pc[<<"boot", 0>>] = "off"
      BY <1>4, ThreadsOf DEF Boot, Down
    <2> QED BY <2>1, <2>2, <2>3, NoPlan, ThreadsOf
  <1> QED BY <1>2, <1>3, <1>4

LEMMA Next_Given ==
  ASSUME GateInv, Down, GivenInv, [Next]_vars
  PROVE  GivenInv'
  <1>1. CASE UNCHANGED vars
    <2>1. given' = given /\ input' = input /\ todo' = todo /\ pc' = pc
      BY <1>1 DEF vars
    <2> QED BY <2>1, SameGiven, SameRows, Forget DEF GivenInv, Stores
  <1>2. CASE \E m \in Messages : AcceptIdle(m) \/ AcceptBusy(m) \/ StoreInput(m)
    BY <1>2, Requests_Given
  <1>3. CASE \E t \in Threads : FollowsUp(t)
    BY <1>3, FollowsUp_Given
  <1>4. CASE \E n \in Runs : ClientCancels(n) \/ BeginWake(n) \/ Wake(n) \/ Executes(n)
    BY <1>4, Runs_Given, Executes_Given
  <1>5. CASE AcceptTriggered \/ Crash \/ Boot
    BY <1>5, Daemon_Given
  <1> QED BY <1>1, <1>2, <1>3, <1>4, <1>5 DEF Next

(* A message marked consumed was put before the model, whichever of the     *)
(* daemon's threads or crashes come between the giving and the marking: a   *)
(* write carries a mark only for a message that is given by then.           *)
THEOREM NoneConsumedUnseen == Spec => []ConsumedWasGiven
  <1>1. Init => GivenInv
    BY Init_Given
  <1>2. GateInv /\ Down /\ GivenInv /\ [Next]_vars => GivenInv'
    BY Next_Given
  <1>3. GivenInv => ConsumedWasGiven
    BY DEF GivenInv, Taking, Given, ConsumedWasGiven
  <1> QED BY GateKept, <1>1, <1>2, <1>3, PTL DEF Spec

-----------------------------------------------------------------------------
Kinds == {"queue", "steer", "interrupt"}
Rows  == [mode : {"none", "run"} \union Kinds, target : Runs \union {0}, taken : BOOLEAN]

Sent(m) == input[m].mode # "none"

(* What a thread at l may hold to write. *)
Plans(l, S) ==
    \A w \in S : /\ w \in Messages \X Rows
                 /\ w[2].mode \in Kinds
                 /\ l \in {"requeue", "settle"} => w[2].mode = "queue"
                 /\ l = "consume" => w[2].taken
                 /\ l # "accept" => Sent(w[1])

(* The rows are those of messages that came in their order; one that is a   *)
(* run's is taken.                                                          *)
Rowed   == /\ input \in [Messages -> Rows]
           /\ \A m \in Messages : /\ input[m].mode = "run" => input[m].taken
                                  /\ ~Sent(m) => input[m] = Unsent
Arrived == \A m \in Messages : Sent(m) => \A k \in Messages : k < m => Sent(k)

(* A thread that accepts a message holds its row, and those before it were  *)
(* accepted.                                                                *)
Accepting == \A m \in Messages : pc[<<"request", m>>] = "accept" =>
                /\ \A w \in todo[<<"request", m>>] : w[1] = m
                /\ \A k \in Messages : k < m => Sent(k)

(* The steers left in a session that is being settled are still to be       *)
(* written by the thread that settles it.                                   *)
Covers(S) == \A m \in Steers : \E w \in S : w[1] = m
Covered == \A t \in Threads : pc[t] = "settle" => Covers(todo[t])

OrderInv == /\ Rowed /\ Arrived /\ Accepting /\ Covered
            /\ todo \in [Threads -> SUBSET (Messages \X Rows)]
            /\ \A t \in Threads : Plans(pc[t], todo[t])

-----------------------------------------------------------------------------
(* A set of numbers that is not empty has a least one.                      *)
LEMMA LeastIsLeast ==
  ASSUME NEW S \in SUBSET Nat, S # {}
  PROVE  Least(S) \in S /\ \A y \in S : Least(S) <= y
  <1>1. PICK x \in S : \A y \in S : ~(<<y, x>> \in OpToRel(<, Nat))
    BY NatLessThanWellFounded, WFMin
  <1>2. \A y \in S : x <= y
    <2>1. ASSUME NEW y \in S PROVE ~(y < x)
      BY <1>1 DEF OpToRel
    <2> QED BY <2>1
  <1> QED BY <1>2 DEF Least

(* A message that is to be run next is pending, and none before it is. *)
LEMMA NextIsFirst ==
  ASSUME Pending \ Steers # {}
  PROVE  NextInput \in Pending \ Steers /\ \A m \in Pending \ Steers : NextInput <= m
  <1>1. Pending \ Steers \in SUBSET Nat
    BY OrderAssumption DEF Pending
  <1> QED BY <1>1, LeastIsLeast DEF NextInput

(* What the code reads before it writes. *)
LEMMA QueuedPlans ==
  ASSUME NEW S, S \subseteq Messages, \A m \in S : Sent(m), NEW l, l # "consume"
  PROVE  AsQueued(S) \subseteq Messages \X Rows /\ Plans(l, AsQueued(S))
  <1>1. Row("queue", 0, FALSE) \in Rows /\ Row("queue", 0, FALSE).mode = "queue"
    BY DEF Row, Rows, Kinds
  <1>2. ASSUME NEW w \in AsQueued(S)
        PROVE  w \in Messages \X Rows /\ w[2].mode = "queue" /\ Sent(w[1])
    <2>1. PICK m \in S : w = <<m, Row("queue", 0, FALSE)>>
      BY Zenon DEF AsQueued
    <2> QED BY <1>1, <2>1
  <1> QED BY <1>2 DEF Plans, Kinds

LEMMA SteerPlans ==
  ASSUME NEW S, S \subseteq Messages, \A m \in S : Sent(m), NEW n \in Runs
  PROVE  AsSteer(S, n) \subseteq Messages \X Rows /\ Plans("steer", AsSteer(S, n))
  <1>1. Row("steer", n, FALSE) \in Rows /\ Row("steer", n, FALSE).mode = "steer"
    BY DEF Row, Rows, Kinds
  <1>2. ASSUME NEW w \in AsSteer(S, n)
        PROVE  w \in Messages \X Rows /\ w[2].mode = "steer" /\ Sent(w[1])
    <2>1. PICK m \in S : w = <<m, Row("steer", n, FALSE)>>
      BY Zenon DEF AsSteer
    <2> QED BY <1>1, <2>1
  <1> QED BY <1>2 DEF Plans, Kinds

LEMMA TakenPlans ==
  ASSUME Rowed, NEW S, S \subseteq Pending, NEW l, l \notin {"requeue", "settle"}
  PROVE  AsTaken(S) \subseteq Messages \X Rows /\ Plans(l, AsTaken(S))
  <1>1. ASSUME NEW w \in AsTaken(S)
        PROVE  w \in Messages \X Rows /\ w[2].mode \in Kinds /\ w[2].taken = TRUE /\ Sent(w[1])
    <2>1. PICK m \in S : w = <<m, [input[m] EXCEPT !.taken = TRUE]>>
      BY Zenon DEF AsTaken
    <2>2. m \in Messages /\ input[m] \in Rows /\ input[m].mode \in Kinds
      BY DEF Pending, Rowed, Kinds
    <2>3. /\ [input[m] EXCEPT !.taken = TRUE] \in Rows
          /\ [input[m] EXCEPT !.taken = TRUE].mode = input[m].mode
          /\ [input[m] EXCEPT !.taken = TRUE].taken = TRUE
      BY <2>2 DEF Rows
    <2> QED BY <2>1, <2>2, <2>3 DEF Sent, Kinds
  <1> QED BY <1>1 DEF Plans

LEMMA PendingSent ==
  /\ Pending \subseteq Messages /\ Steers \subseteq Pending /\ (\A m \in Pending : Sent(m))
  /\ \A n : SteersOf(n) \subseteq Steers
  BY DEF Pending, Steers, SteersOf, Sent

(* A thread goes on with a plan of its own. *)
LEMMA Planned ==
  ASSUME GateInv, OrderInv, input' = input, NEW t \in Threads, NEW l, NEW S,
         l # "accept", S \subseteq Messages \X Rows, Plans(l, S), l = "settle" => Covers(S),
         pc' = [pc EXCEPT ![t] = l], todo' = [todo EXCEPT ![t] = S]
  PROVE  OrderInv'
  <1>1. \A u \in Threads : /\ pc'[u] = IF u = t THEN l ELSE pc[u]
                           /\ todo'[u] = IF u = t THEN S ELSE todo[u]
    BY DEF GateInv, Shape, OrderInv
  <1>2. Rowed' /\ Arrived' /\ \A m \in Messages : Sent(m)' <=> Sent(m)
    BY DEF OrderInv, Rowed, Arrived, Sent
  <1>3. Accepting'
    BY <1>1, <1>2, ThreadsOf DEF OrderInv, Accepting
  <1>4. Covered'
    BY <1>1 DEF OrderInv, Covered, Covers, Steers, Pending
  <1>5. \A u \in Threads : Plans(pc[u], todo[u])'
    <2> SUFFICES ASSUME NEW u \in Threads PROVE Plans(pc[u], todo[u])'
      OBVIOUS
    <2>1. Plans(pc'[u], todo'[u])
      BY <1>1 DEF OrderInv
    <2> QED BY <1>2, <2>1 DEF Plans
  <1>6. todo' \in [Threads -> SUBSET (Messages \X Rows)]
    BY DEF OrderInv
  <1> QED BY <1>2, <1>3, <1>4, <1>5, <1>6 DEF OrderInv

(* A thread goes on as it is. *)
LEMMA Plain ==
  ASSUME GateInv, OrderInv, input' = input, todo' = todo, NEW t \in Threads, NEW l,
         l \notin {"accept", "requeue", "settle", "consume"}, pc[t] # "accept",
         pc' = [pc EXCEPT ![t] = l]
  PROVE  OrderInv'
  <1>1. todo' = [todo EXCEPT ![t] = todo[t]] /\ todo[t] \subseteq Messages \X Rows
    BY DEF OrderInv
  <1>2. Plans(l, todo[t])
    BY DEF OrderInv, Plans
  <1> QED BY <1>1, <1>2, Planned

LEMMA Still ==
  ASSUME OrderInv, input' = input, todo' = todo, pc' = pc
  PROVE  OrderInv'
  <1>1. \A l, S : Plans(l, S)' <=> Plans(l, S)
    BY DEF Plans, Sent
  <1> QED BY DEF OrderInv, Rowed, Arrived, Accepting, Covered, Covers, Steers, Pending, Sent, Plans

(* A row is stored: that of a message already sent, in a mode a queue knows. *)
LEMMA Stored ==
  ASSUME GateInv, OrderInv, NEW t \in Threads, NEW w \in todo[t],
         input' = [input EXCEPT ![w[1]] = w[2]]
  PROVE  /\ w[1] \in Messages /\ w[2] \in Rows /\ w[2].mode \in Kinds
         /\ \A m \in Messages : input'[m] = IF m = w[1] THEN w[2] ELSE input[m]
         /\ \A m \in Messages : Sent(m) => Sent(m)'
         /\ Rowed'
  <1>1. w[1] \in Messages /\ w[2] \in Rows /\ w[2].mode \in Kinds
    BY DEF OrderInv, Plans
  <1>2. \A m \in Messages : input'[m] = IF m = w[1] THEN w[2] ELSE input[m]
    BY DEF OrderInv, Rowed
  <1>3. w[2].mode # "none" /\ w[2].mode # "run"
    BY <1>1 DEF Kinds
  <1>4. input' \in [Messages -> Rows]
    BY <1>1 DEF OrderInv, Rowed
  <1>5. Rowed'
    BY <1>2, <1>3, <1>4 DEF OrderInv, Rowed, Sent
  <1>6. \A m \in Messages : Sent(m) => Sent(m)'
    BY <1>2, <1>3 DEF Sent
  <1> QED BY <1>1, <1>2, <1>5, <1>6

LEMMA WriteRow_Order ==
  ASSUME GateInv, OrderInv, NEW t \in Threads, WriteRow(t)
  PROVE  OrderInv'
  <1>1. PICK w \in todo[t] : /\ input' = [input EXCEPT ![w[1]] = w[2]]
                             /\ todo' = [todo EXCEPT ![t] = todo[t] \ {w}]
    BY DEF WriteRow, Plan
  <1>2. /\ pc[t] \in {"requeue", "settle", "mark", "steer", "consume"}
        /\ pc' = pc \/ pc' = [pc EXCEPT ![t] = "work"]
    BY DEF WriteRow, Goto
  <1>3. /\ w[1] \in Messages /\ w[2] \in Rows /\ w[2].mode \in Kinds /\ Rowed'
        /\ \A m \in Messages : input'[m] = IF m = w[1] THEN w[2] ELSE input[m]
        /\ \A m \in Messages : Sent(m) => Sent(m)'
    BY <1>1, Stored
  <1>4. Plans(pc[t], todo[t])
    BY DEF OrderInv
  <1>5. \A m \in Messages : Sent(m)' <=> Sent(m)
    BY <1>1, <1>2, <1>3, <1>4 DEF Plans, Sent
  <1>6. \A u \in Threads : /\ todo'[u] \subseteq todo[u]
                           /\ u # t => todo'[u] = todo[u]
                           /\ pc'[u] = pc[u] \/ (u = t /\ pc'[u] = "work")
    BY <1>1, <1>2 DEF GateInv, Shape, OrderInv
  <1>7. Arrived'
    BY <1>5 DEF OrderInv, Arrived
  <1>8. Accepting'
    BY <1>5, <1>6, ThreadsOf DEF OrderInv, Accepting
  <1>9. Covered'
    <2> SUFFICES ASSUME NEW u \in Threads, pc'[u] = "settle", NEW m \in Steers'
                 PROVE  \E v \in todo'[u] : v[1] = m
      BY DEF Covered, Covers
    <2>1. pc[u] = "settle"
      BY <1>6
    <2>2. w[2].mode = "queue" \/ w[2].taken
      <3>1. pc[t] \in {"mark", "steer"} => FALSE
        BY <2>1 DEF GateInv, Exclusive, Sections
      <3> QED BY <1>1, <1>2, <1>4, <3>1 DEF Plans
    <2>3. m \in Steers /\ m # w[1]
      BY <1>3, <2>2 DEF Steers, Pending
    <2>4. PICK v \in todo[u] : v[1] = m
      BY <2>1, <2>3 DEF OrderInv, Covered, Covers
    <2>5. v \in todo'[u]
      BY <1>1, <1>6, <2>3, <2>4 DEF OrderInv
    <2> QED BY <2>4, <2>5
  <1>10. todo' \in [Threads -> SUBSET (Messages \X Rows)]
    BY <1>1 DEF OrderInv
  <1>11. ASSUME NEW u \in Threads PROVE Plans(pc[u], todo[u])'
    <2>1. Plans(pc[u], todo[u])
      BY DEF OrderInv
    <2> QED BY <1>2, <1>5, <1>6, <2>1 DEF Plans
  <1> QED BY <1>3, <1>7, <1>8, <1>9, <1>10, <1>11 DEF OrderInv

LEMMA Requests_Order ==
  ASSUME GateInv, OrderInv, NEW m \in Messages, AcceptIdle(m) \/ AcceptBusy(m) \/ StoreInput(m)
  PROVE  OrderInv'
  <1> DEFINE t == <<"request", m>>
  <1> t \in Threads
    BY ThreadsOf
  <1>1. ASSUME Arrives(m)
        PROVE  /\ ~Sent(m) /\ \A k \in Messages : k < m => Sent(k)
               /\ \A u \in Threads : pc[u] \notin Sections
    BY <1>1 DEF Arrives, OrderInv, Rowed, Sent, Unsent, Row, GateInv, Exclusive
  <1>2. CASE AcceptIdle(m)
    <2>1. /\ Arrives(m) /\ pc' = pc /\ todo' = todo
          /\ input' = [input EXCEPT ![m] = Row("run", 0, TRUE)]
      BY <1>2 DEF AcceptIdle
    <2>2. Row("run", 0, TRUE) \in Rows /\ Row("run", 0, TRUE).mode = "run" /\ Row("run", 0, TRUE).taken = TRUE
      BY DEF Row, Rows
    <2>3. \A k \in Messages : input'[k] = IF k = m THEN Row("run", 0, TRUE) ELSE input[k]
      BY <2>1 DEF OrderInv, Rowed
    <2>4. \A k \in Messages : Sent(k)' <=> (Sent(k) \/ k = m)
      BY <2>2, <2>3 DEF Sent
    <2>5. Rowed'
      BY <2>1, <2>2, <2>3, <2>4 DEF OrderInv, Rowed
    <2>6. Arrived'
      BY <1>1, <2>1, <2>4 DEF OrderInv, Arrived
    <2>7. Accepting' /\ Covered'
      BY <1>1, <2>1, ThreadsOf DEF Accepting, Covered, Sections
    <2>8. \A u \in Threads : Plans(pc[u], todo[u])'
      <3>1. \A u \in Threads : Plans(pc[u], todo[u])
        BY DEF OrderInv
      <3> QED BY <2>1, <2>4, <3>1 DEF Plans
    <2> QED BY <2>1, <2>5, <2>6, <2>7, <2>8 DEF OrderInv
  <1>3. CASE AcceptBusy(m)
    <2>1. \A n \in Active, mode \in Modes : /\ Row(Taken(mode, m, n), n, FALSE) \in Rows
                                           /\ Row(Taken(mode, m, n), n, FALSE).mode \in Kinds
      BY ModesAssumption DEF Taken, Kinds, Active, Row, Rows
    <2>2. Arrives(m) /\ input' = input /\ pc' = [pc EXCEPT ![t] = "accept"]
      BY <1>3 DEF AcceptBusy, Goto
    <2>3. \E n \in Active, mode \in Modes :
             todo' = [todo EXCEPT ![t] = {<<m, Row(Taken(mode, m, n), n, FALSE)>>}]
      BY <1>3 DEF AcceptBusy, Plan
    <2>4. PICK r \in Rows : todo' = [todo EXCEPT ![t] = {<<m, r>>}] /\ r.mode \in Kinds
      BY <2>1, <2>3
    <2>5. \A v \in {<<m, r>>} : v \in Messages \X Rows /\ v[1] = m /\ v[2].mode \in Kinds
      BY <2>4
    <2>6. \A u \in Threads : /\ pc'[u] = IF u = t THEN "accept" ELSE pc[u]
                             /\ todo'[u] = IF u = t THEN {<<m, r>>} ELSE todo[u]
      BY <2>2, <2>4 DEF GateInv, Shape, OrderInv
    <2>7. Rowed' /\ Arrived' /\ \A k \in Messages : Sent(k)' <=> Sent(k)
      BY <2>2 DEF OrderInv, Rowed, Arrived, Sent
    <2>8. Accepting'
      <3>1. ASSUME NEW k \in Messages, pc'[<<"request", k>>] = "accept" PROVE k = m
        BY <1>1, <2>2, <2>6, <3>1, ThreadsOf DEF Sections
      <3> QED BY <1>1, <2>2, <2>5, <2>6, <2>7, <3>1 DEF Accepting
    <2>9. Covered'
      BY <1>1, <2>2, <2>6 DEF Covered, Sections
    <2>10. \A u \in Threads : Plans(pc[u], todo[u])'
      <3>1. \A u \in Threads : Plans(pc[u], todo[u])
        BY DEF OrderInv
      <3>2. Plans("accept", {<<m, r>>})'
        BY <2>5 DEF Plans
      <3>3. ASSUME NEW u \in Threads, u # t PROVE Plans(pc[u], todo[u])'
        BY <2>6, <2>7, <3>1, <3>3 DEF Plans
      <3>4. Plans(pc[t], todo[t])'
        BY <2>6, <3>2
      <3> QED BY <3>3, <3>4
    <2>11. todo' \in [Threads -> SUBSET (Messages \X Rows)]
      BY <2>4, <2>5 DEF OrderInv
    <2> QED BY <2>7, <2>8, <2>9, <2>10, <2>11 DEF OrderInv
  <1>4. CASE StoreInput(m)
    <2>1. PICK w \in todo[t] : input' = [input EXCEPT ![w[1]] = w[2]]
      BY <1>4 DEF StoreInput
    <2>2. pc[t] = "accept" /\ todo' = [todo EXCEPT ![t] = {}]
      BY <1>4 DEF StoreInput, Plan
    <2>3. PICK l \in {"cancel", "off"} : pc' = [pc EXCEPT ![t] = l]
      BY <1>4 DEF StoreInput, Goto
    <2>4. w[1] = m /\ \A k \in Messages : k < m => Sent(k)
      BY <2>1, <2>2 DEF OrderInv, Accepting
    <2>5. /\ w[2].mode \in Kinds /\ Rowed'
          /\ \A k \in Messages : input'[k] = IF k = m THEN w[2] ELSE input[k]
          /\ \A k \in Messages : Sent(k) => Sent(k)'
      <3>1. /\ w[2].mode \in Kinds /\ Rowed' /\ \A k \in Messages : Sent(k) => Sent(k)'
            /\ \A k \in Messages : input'[k] = IF k = w[1] THEN w[2] ELSE input[k]
        BY <2>1, Stored
      <3> QED BY <2>4, <3>1
    <2>6. \A k \in Messages : Sent(k)' => Sent(k) \/ k = m
      BY <2>5 DEF Sent
    <2>7. \A u \in Threads : /\ pc'[u] = IF u = t THEN l ELSE pc[u]
                             /\ todo'[u] = IF u = t THEN {} ELSE todo[u]
      BY <2>2, <2>3 DEF GateInv, Shape, OrderInv
    <2>8. \A u \in Threads : pc'[u] \notin {"accept", "settle"}
      BY <2>2, <2>7 DEF GateInv, Exclusive, Sections
    <2>9. Arrived'
      BY <2>4, <2>5, <2>6 DEF OrderInv, Arrived
    <2>10. Accepting' /\ Covered'
      BY <2>8, ThreadsOf DEF Accepting, Covered
    <2>11. ASSUME NEW u \in Threads PROVE Plans(pc[u], todo[u])'
      <3>1. Plans(pc[u], todo[u])
        BY DEF OrderInv
      <3> QED BY <2>5, <2>7, <3>1 DEF Plans
    <2>12. todo' \in [Threads -> SUBSET (Messages \X Rows)]
      BY <2>2 DEF OrderInv
    <2> QED BY <2>5, <2>9, <2>10, <2>11, <2>12 DEF OrderInv
  <1> QED BY <1>2, <1>3, <1>4

LEMMA FollowsUp_Order ==
  ASSUME GateInv, OrderInv, NEW t \in Threads, FollowsUp(t)
  PROVE  OrderInv'
  <1> NothingNext(t) \in {"idle", "off"}
    BY DEF NothingNext
  <1>1. CASE CancelRecord(t) \/ CancelStop(t) \/ CancelCheck(t) \/ Marked(t) \/ Idle(t)
    <2>1. input' = input /\ todo' = todo /\ pc[t] # "accept"
      BY <1>1 DEF CancelRecord, CancelStop, CancelCheck, Marked, Idle
    <2>2. PICK l \in {"stop", "check", "after", "next", "off"} : pc' = [pc EXCEPT ![t] = l]
      BY <1>1, Returns DEF CancelRecord, CancelStop, CancelCheck, Marked, Idle, Goto
    <2> QED BY <2>1, <2>2, Plain
  <1>2. CASE After(t)
    <2>1. input' = input /\ pc[t] # "accept"
      BY <1>2 DEF After, AtAfter
    <2>2. CASE run[RunOf(t)] = "ended"
      <3> DEFINE S == AsQueued(SteersOf(RunOf(t)))
      <3>1. pc' = [pc EXCEPT ![t] = "requeue"] /\ todo' = [todo EXCEPT ![t] = S]
        BY <1>2, <2>2 DEF After, Plan, Goto
      <3>2. S \subseteq Messages \X Rows /\ Plans("requeue", S)
        BY PendingSent, QueuedPlans
      <3> QED BY <2>1, <3>1, <3>2, Planned
    <2>3. CASE run[RunOf(t)] # "ended"
      <3>1. todo' = todo /\ \E l \in {"next", "off"} : pc' = [pc EXCEPT ![t] = l]
        BY <1>2, <2>3, Returns DEF After
      <3> QED BY <2>1, <3>1, Plain
    <2> QED BY <2>2, <2>3
  <1>3. CASE StartNext(t)
    <2>1. input' = input /\ pc[t] # "accept"
      BY <1>3 DEF StartNext
    <2>2. CASE Active # {}
      BY <1>3, <2>1, <2>2, Plain DEF StartNext, Goto
    <2>3. CASE Active = {}
      <3>1. pc' = [pc EXCEPT ![t] = "settle"] /\ todo' = [todo EXCEPT ![t] = AsQueued(Steers)]
        BY <1>3, <2>3 DEF StartNext, Plan, Goto
      <3>2. AsQueued(Steers) \subseteq Messages \X Rows /\ Plans("settle", AsQueued(Steers))
        BY PendingSent, QueuedPlans
      <3>3. Covers(AsQueued(Steers))
        <4>1. ASSUME NEW m \in Steers PROVE \E w \in AsQueued(Steers) : w[1] = m
          <5>1. <<m, Row("queue", 0, FALSE)>> \in AsQueued(Steers)
            BY DEF AsQueued
          <5> QED BY <5>1
        <4> QED BY <4>1 DEF Covers
      <3> QED BY <2>1, <3>1, <3>2, <3>3, Planned
    <2> QED BY <2>2, <2>3
  <1>4. CASE ConsumeInput(t)
    <2>1. input' = input /\ pc[t] # "accept"
      BY <1>4 DEF ConsumeInput
    <2>2. CASE Pending \ Steers = {}
      BY <1>4, <2>1, <2>2, Plain DEF ConsumeInput, Goto
    <2>3. CASE Pending \ Steers # {}
      <3>1. {NextInput} \subseteq Pending
        BY <2>3, NextIsFirst
      <3>2. AsTaken({NextInput}) \subseteq Messages \X Rows /\ Plans("mark", AsTaken({NextInput}))
        BY <3>1, TakenPlans DEF OrderInv
      <3>3. /\ todo' = [todo EXCEPT ![t] = AsTaken({NextInput})]
            /\ pc' = [pc EXCEPT ![t] = "mark"]
        BY <1>4, <2>3 DEF ConsumeInput, Plan, Goto
      <3> QED BY <2>1, <3>2, <3>3, Planned
    <2> QED BY <2>2, <2>3
  <1> QED BY <1>1, <1>2, <1>3, <1>4, WriteRow_Order DEF FollowsUp

LEMMA Runs_Order ==
  ASSUME GateInv, OrderInv, NEW n \in Runs, ClientCancels(n) \/ BeginWake(n) \/ Wake(n) \/ Executes(n)
  PROVE  OrderInv'
  <1> DEFINE t == <<"exec", n>>
             w == <<"wake", n>>
  <1> t \in Threads /\ w \in Threads /\ <<"cancel", n>> \in Threads
    BY ThreadsOf
  <1>1. CASE ClientCancels(n)
    BY <1>1, Plain DEF ClientCancels, Goto
  <1>2. CASE BeginWake(n)
    <2>1. CASE run[n] = "waiting"
      <3> DEFINE S == {m \in Pending : input[m].mode = "queue"}
      <3>1. /\ pc' = [pc EXCEPT ![w] = "steer"] /\ input' = input
            /\ todo' = [todo EXCEPT ![w] = AsSteer(S, n)]
        BY <1>2, <2>1 DEF BeginWake, Plan, Goto
      <3>2. AsSteer(S, n) \subseteq Messages \X Rows /\ Plans("steer", AsSteer(S, n))
        BY PendingSent, SteerPlans
      <3> QED BY <3>1, <3>2, Planned
    <2>2. CASE run[n] # "waiting"
      BY <1>2, <2>2, Still DEF BeginWake
    <2> QED BY <2>1, <2>2
  <1>3. CASE Wake(n)
    BY <1>3, Plain DEF Wake, Goto
  <1>4. CASE Claim(n) \/ AppendSteers(n) \/ CheckAwait(n) \/ Park(n) \/ EndRun(n) \/ Release(n)
    <2>1. input' = input /\ todo' = todo /\ pc[t] # "accept"
      BY <1>4 DEF Claim, AppendSteers, CheckAwait, Park, EndRun, Commit, Release, Begin
    <2>2. PICK l \in {"work", "release", "appended", "park", "off"} : pc' = [pc EXCEPT ![t] = l]
      BY <1>4 DEF Claim, AppendSteers, CheckAwait, Park, EndRun, Commit, Release, Goto
    <2> QED BY <2>1, <2>2, Plain
  <1>5. CASE ListSteers(n)
    <2>1. /\ input' = input /\ pc' = [pc EXCEPT ![t] = "append"]
          /\ todo' = [todo EXCEPT ![t] = AsTaken(SteersOf(n))]
      BY <1>5 DEF ListSteers, Plan, Goto
    <2>2. AsTaken(SteersOf(n)) \subseteq Messages \X Rows /\ Plans("append", AsTaken(SteersOf(n)))
      BY PendingSent, TakenPlans DEF OrderInv
    <2> QED BY <2>1, <2>2, Planned
  <1>6. CASE ConsumeSteers(n)
    <2> DEFINE mine == {m \in SteersOf(n) : \E v \in todo[t] : v[1] = m}
    <2>1. PICK l \in {"work", "consume"} : pc' = [pc EXCEPT ![t] = l]
      BY <1>6 DEF ConsumeSteers, Goto
    <2>2. input' = input /\ todo' = [todo EXCEPT ![t] = AsTaken(mine)]
      BY <1>6 DEF ConsumeSteers, Plan
    <2>3. AsTaken(mine) \subseteq Messages \X Rows /\ Plans(l, AsTaken(mine))
      BY PendingSent, TakenPlans DEF OrderInv
    <2> QED BY <2>1, <2>2, <2>3, Planned
  <1>7. CASE Stops(n)
    <2>1. /\ input' = input /\ pc' = [pc EXCEPT ![t] = "release"]
          /\ todo' = [todo EXCEPT ![t] = {}]
      BY <1>7 DEF Stops, Plan, Goto
    <2>2. Plans("release", {})
      BY DEF Plans
    <2> QED BY <2>1, <2>2, Planned
  <1> QED BY <1>1, <1>2, <1>3, <1>4, <1>5, <1>6, <1>7 DEF Executes

LEMMA Daemon_Order ==
  ASSUME GateInv, Down, OrderInv, AcceptTriggered \/ Crash \/ Boot
  PROVE  OrderInv'
  <1>1. CASE AcceptTriggered
    BY <1>1, Still DEF AcceptTriggered
  <1>2. CASE Crash
    <2>1. input' = input /\ \A u \in Threads : pc'[u] = "off" /\ todo'[u] = {}
      BY <1>2 DEF Crash
    <2>2. todo' \in [Threads -> SUBSET (Messages \X Rows)]
      BY <1>2 DEF Crash
    <2>3. Rowed' /\ Arrived'
      BY <2>1 DEF OrderInv, Rowed, Arrived, Sent
    <2>4. Accepting' /\ Covered' /\ \A u \in Threads : Plans(pc[u], todo[u])'
      BY <2>1, ThreadsOf DEF Accepting, Covered, Plans
    <2> QED BY <2>2, <2>3, <2>4 DEF OrderInv
  <1>3. CASE Boot
    <2>1. todo' = todo /\ input' = input
      BY <1>3 DEF Boot
    <2>2. PICK l \in {"next", "off"} : pc' = [pc EXCEPT ![<<"boot", 0>>] = l]
      BY <1>3 DEF Boot, Goto
    <2>3. pc[<<"boot", 0>>] = "off"
      BY <1>3, ThreadsOf DEF Boot, Down
    <2> QED BY <2>1, <2>2, <2>3, Plain, ThreadsOf
  <1> QED BY <1>1, <1>2, <1>3

LEMMA Next_Order ==
  ASSUME GateInv, Down, OrderInv, [Next]_vars
  PROVE  OrderInv'
  <1>1. CASE UNCHANGED vars
    BY <1>1, Still DEF vars
  <1>2. CASE \E m \in Messages : AcceptIdle(m) \/ AcceptBusy(m) \/ StoreInput(m)
    BY <1>2, Requests_Order
  <1>3. CASE \E t \in Threads : FollowsUp(t)
    BY <1>3, FollowsUp_Order
  <1>4. CASE \E n \in Runs : ClientCancels(n) \/ BeginWake(n) \/ Wake(n) \/ Executes(n)
    BY <1>4, Runs_Order
  <1>5. CASE AcceptTriggered \/ Crash \/ Boot
    BY <1>5, Daemon_Order
  <1> QED BY <1>1, <1>2, <1>3, <1>4, <1>5 DEF Next

LEMMA Init_Order == Init => OrderInv
  <1> SUFFICES ASSUME Init PROVE OrderInv
    OBVIOUS
  <1>1. Unsent \in Rows /\ Unsent.mode = "none"
    BY DEF Unsent, Row, Rows
  <1>2. \A m \in Messages : ~Sent(m) /\ input[m] = Unsent
    BY <1>1 DEF Init, Sent
  <1>3. Rowed /\ Arrived
    BY <1>1, <1>2 DEF Init, Rowed, Arrived, Sent
  <1>4. Accepting /\ Covered /\ \A t \in Threads : Plans(pc[t], todo[t])
    BY ThreadsOf DEF Init, Accepting, Covered, Plans
  <1> QED BY <1>3, <1>4 DEF Init, OrderInv

(* A message becomes a run when no earlier one waits: each of those is      *)
(* taken, or a steer, and the thread that settles the session stored every  *)
(* steer as queued before.                                                  *)
LEMMA FirstStarts ==
  ASSUME GateInv, OrderInv, GivenInv, NEW t \in Threads, pc[t] = "settle", todo[t] = {},
         Pending \ Steers # {}, NEW k \in Messages, k < NextInput
  PROVE  given[k] > 0
  <1>1. NextInput \in Pending /\ \A m \in Pending \ Steers : NextInput <= m
    BY NextIsFirst
  <1>2. NextInput \in Messages /\ Sent(NextInput)
    BY <1>1, PendingSent
  <1>3. Sent(k)
    BY <1>2 DEF OrderInv, Arrived
  <1>4. Steers = {}
    BY DEF OrderInv, Covered, Covers
  <1>5. k \notin Pending
    <2>1. k \in Nat /\ NextInput \in Nat
      BY <1>2, OrderAssumption
    <2> QED BY <1>1, <1>4, <2>1
  <1>6. input[k].taken
    <2>1. input[k].mode \in {"none", "run"} \union Kinds /\ input[k].mode # "none"
      BY <1>3 DEF OrderInv, Rowed, Rows, Sent
    <2>2. input[k].mode = "run" => input[k].taken
      BY DEF OrderInv, Rowed
    <2> QED BY <1>5, <2>1, <2>2 DEF Pending, Kinds
  <1> QED BY <1>6 DEF GivenInv, Taking, Given

(* No message is given a run while an earlier one waits, whatever became of *)
(* the run that one was to steer or interrupt.                              *)
THEOREM StartsInOrder == Spec => InOrder
  <1>1. Init => GivenInv /\ OrderInv
    BY Init_Given, Init_Order
  <1>2. GateInv /\ Down /\ GivenInv /\ OrderInv /\ [Next]_vars => (GivenInv /\ OrderInv)'
    BY Next_Given, Next_Order
  <1>3. ASSUME GateInv, GivenInv, OrderInv, [Next]_vars, run' # run,
               NEW m \in Messages, given'[m] > given[m], input[m].mode # "none"
        PROVE  \A k \in Messages : k < m => given[k] > 0
    <2>1. given # given'
      <3>1. given[m] \in Nat
        BY <1>3 DEF GivenInv, Stores
      <3> QED BY <1>3, <3>1
    <2>2. (\E k \in Messages : AcceptIdle(k)) \/ (\E t \in Threads : ConsumeInput(t))
      BY <1>3, <2>1
         DEF Next, vars, FollowsUp, Executes, AcceptBusy, StoreInput, CancelRecord, CancelStop, CancelCheck,
             After, StartNext, Marked, Idle, WriteRow, ClientCancels, BeginWake, Wake, Claim, ListSteers,
             AppendSteers, ConsumeSteers, CheckAwait, Park, EndRun, Commit, Stops, Release, AcceptTriggered,
             Crash, Boot
    <2>3. ASSUME NEW n, NEW k, Create(n, k) PROVE m = k
      <3>1. given \in [Messages -> Nat] /\ given' = [given EXCEPT ![k] = given[k] + 1]
        BY <1>3, <2>3 DEF GivenInv, Stores, Create
      <3>2. m # k => given'[m] = given[m]
        BY <3>1
      <3> QED BY <1>3, <3>1, <3>2
    <2>4. ASSUME NEW k \in Messages, AcceptIdle(k) PROVE FALSE
      <3>1. m = k
        BY <2>3, <2>4 DEF AcceptIdle
      <3> QED BY <1>3, <2>4, <3>1 DEF AcceptIdle, Arrives, Unsent, Row
    <2>5. ASSUME NEW t \in Threads, ConsumeInput(t) PROVE \A k \in Messages : k < m => given[k] > 0
      <3>1. pc[t] = "settle" /\ todo[t] = {} /\ Pending \ Steers # {}
        BY <2>1, <2>5 DEF ConsumeInput
      <3>2. m = NextInput
        BY <2>3, <2>5, <3>1 DEF ConsumeInput
      <3> QED BY <1>3, <3>1, <3>2, FirstStarts
    <2> QED BY <2>2, <2>4, <2>5
  <1>4. GateInv /\ GivenInv /\ OrderInv /\ [Next]_vars =>
          \A m \in Messages : run' # run /\ given'[m] > given[m] /\ input[m].mode # "none"
              => \A k \in Messages : k < m => given[k] > 0
    BY <1>3
  <1> QED BY GateKept, <1>1, <1>2, <1>4, PTL DEF Spec, InOrder
=====
