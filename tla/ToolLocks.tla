------------------------------ MODULE ToolLocks ------------------------------
(***************************************************************************)
(* The scheduling of native runs (internal/agent/toolsched and its users): *)
(* a run takes a model slot for a reply, then runs the reply's tool calls  *)
(* at once, each under its concurrency key and then a slot of its batch.   *)
(* An agent call runs a child meanwhile, with replies and calls of its     *)
(* own, in the working directory all of them share.                        *)
(*                                                                         *)
(* A run is named by a path: the child of call c is the run c, and the     *)
(* calls of run r are r with one number more.  Each run asks the model     *)
(* twice: for a batch of calls, then to end.                               *)
(***************************************************************************)
EXTENDS Naturals, Sequences, FiniteSets

CONSTANTS Tops,        \* the runs no run started
          TopCalls,    \* bound: the calls of their batches
          ChildCalls,  \* bound: the calls of a child's batch
          AgentCalls,  \* bound: calls that start a child
          Parallel,    \* maxParallelCalls
          Slots,       \* the sizes ModelConcurrency takes
          MaxCancels,  \* bound: runs canceled and batches that fail
          MaxResizes   \* bound: changes of the setup

ASSUME SlotsAssumption == Slots \subseteq Nat \ {0} /\ Parallel \in Nat \ {0}
ASSUME BoundAssumption ==
    {TopCalls, ChildCalls, AgentCalls, MaxCancels, MaxResizes} \subseteq Nat

TopRuns      == {<<t>> : t \in Tops}
TopBatches   == {<<t, i>> : t \in Tops, i \in 1 .. TopCalls}
ChildBatches == {Append(c, i) : c \in TopBatches, i \in 1 .. ChildCalls}

VARIABLES
    kind,     \* what each call of a top run is
    run,      \* where each run stands
    replies,  \* the replies a run had
    stop,     \* the runs whose context stopped
    call,     \* where each call stands
    entry,    \* Locks.held: the entry of each key, named by the call that made it
    uses,     \* the entry each call counts in (keyLock.users)
    slot,     \* the call in each entry's slot
    limit,    \* the model slots
    cancels, resizes

locks == <<entry, uses, slot>>
vars  == <<kind, run, replies, stop, call, locks, limit, cancels, resizes>>

-----------------------------------------------------------------------------
Runs  == TopRuns \union TopBatches
Calls == TopBatches \union ChildBatches
Keys  == {"dir", "subagents"}
None  == <<>>

(* "edit" stands for every call under the key of its directory: one that    *)
(* changes files, and any command.  A "writer" is a blocking agent call     *)
(* whose child may change the directory, a "reader" one whose child may     *)
(* not; its commands take the directory's key all the same.                 *)
Kinds == {"edit", "writer", "reader"}

ParentOf  == [c \in Calls |-> SubSeq(c, 1, Len(c) - 1)]
BatchOf   == [r \in Runs |-> {c \in Calls : ParentOf[c] = r}]
BeforeOf  == [c \in Calls |-> {d \in BatchOf[ParentOf[c]] : d[Len(d)] < c[Len(c)]}]

Parent(c) == ParentOf[c]
Agents    == {c \in TopBatches : kind[c] \in {"writer", "reader"}}

(* The calls of children are of the kind that meets others. *)
Kind(c)   == IF c \in TopBatches THEN kind[c] ELSE "edit"
Before(c) == BeforeOf[c]

Key_OfDirectory(c) == IF Kind(c) = "reader" THEN "" ELSE "dir"

(* ConcurrencyKey: a directory has one writing child at a time, by a key    *)
(* the child's own calls do not take.                                       *)
Key(c) == CASE Kind(c) = "edit"   -> "dir"
            [] Kind(c) = "writer" -> "subagents"
            [] OTHER              -> ""

Stopped(r) == r \in stop
Goto(c, l) == call' = [call EXCEPT ![c] = l]

Init ==
    /\ kind \in [TopBatches -> Kinds]
    /\ Cardinality(Agents) = AgentCalls
    /\ run = [r \in Runs |-> IF r \in TopRuns THEN "ask" ELSE "off"]
    /\ replies = [r \in Runs |-> 0]
    /\ stop = {}
    /\ call = [c \in Calls |-> "off"]
    /\ entry = [k \in Keys |-> None]
    /\ uses = [c \in Calls |-> None]
    /\ slot = [c \in Calls |-> None]
    /\ limit \in Slots
    /\ cancels = 0 /\ resizes = 0

-----------------------------------------------------------------------------
(* The model slots: a Semaphore.  One that finds no slot parks until a slot *)
(* frees or their number grows; all that parked then try again.             *)
Generating == {r \in Runs : run[r] = "model"}

Unparked(runs) == [r \in Runs |-> IF runs[r] = "parked" THEN "ask" ELSE runs[r]]

Acquire(r) ==
    /\ run[r] = "ask" /\ ~Stopped(r)
    /\ run' = [run EXCEPT ![r] = IF Cardinality(Generating) < limit THEN "model" ELSE "parked"]
    /\ UNCHANGED <<kind, replies, stop, call, locks, limit, cancels, resizes>>

(* generateOnSlot gives the slot back with the reply, before its calls.     *)
Reply(r) ==
    /\ run[r] = "model"
    /\ replies' = [replies EXCEPT ![r] = @ + 1]
    /\ run' = Unparked([run EXCEPT ![r] = IF replies[r] = 0 /\ ~Stopped(r) THEN "batch" ELSE "ended"])
    /\ UNCHANGED <<kind, stop, call, locks, limit, cancels, resizes>>

StopRun(r) ==
    /\ run[r] \in {"ask", "parked"} /\ Stopped(r)
    /\ run' = [run EXCEPT ![r] = "ended"]
    /\ UNCHANGED <<kind, replies, stop, call, locks, limit, cancels, resizes>>

Children(r) == {c \in Agents : Parent(c) = r}

(* A batch ends once every call was reported, when the run stopped too; the *)
(* end of a run stops the children it waited for.                           *)
BatchEnds(r) ==
    /\ run[r] = "batch"
    /\ \A c \in BatchOf[r] : call[c] = "reported"
    /\ run' = [run EXCEPT ![r] = IF Stopped(r) THEN "ended" ELSE "ask"]
    /\ stop' = IF Stopped(r) THEN stop \union Children(r) ELSE stop
    /\ UNCHANGED <<kind, replies, call, locks, limit, cancels, resizes>>

Resize(n) ==
    /\ resizes < MaxResizes /\ n # limit
    /\ limit' = n
    /\ run' = IF n > limit THEN Unparked(run) ELSE run
    /\ resizes' = resizes + 1
    /\ UNCHANGED <<kind, replies, stop, call, locks, cancels>>

-----------------------------------------------------------------------------
(* Batch.call, on the call's own goroutine. *)

(* admit: a writing child's call holds back the calls after it until it is  *)
(* settled.                                                                 *)
Admitted(c) == \A d \in Before(c) : Kind(d) = "writer" => call[d] = "reported"

(* Batch.tails: the calls of the batch before it under its key are done.    *)
(* It then counts itself in the key's entry, made when there is none.       *)
Begin(c) ==
    LET k == Key(c)
        e == IF entry[k] = None THEN c ELSE entry[k] IN
    /\ run[Parent(c)] = "batch" /\ call[c] = "off" /\ ~Stopped(Parent(c))
    /\ Admitted(c)
    /\ \A d \in Before(c) : Key(d) = k /\ k # "" => call[d] = "reported"
    /\ IF k = ""
       THEN Goto(c, "acquire") /\ UNCHANGED <<entry, uses>>
       ELSE /\ entry' = [entry EXCEPT ![k] = e]
            /\ uses' = [uses EXCEPT ![c] = e]
            /\ Goto(c, "wait")
    /\ UNCHANGED <<kind, run, replies, stop, slot, limit, cancels, resizes>>

(* A call not begun when the batch stops never is. *)
Skip(c) ==
    /\ run[Parent(c)] = "batch" /\ call[c] = "off" /\ Stopped(Parent(c))
    /\ Goto(c, "reported")
    /\ UNCHANGED <<kind, run, replies, stop, locks, limit, cancels, resizes>>

(* The entry's slot, or the end of the context, whichever is taken first. *)
Hold(c) ==
    /\ call[c] = "wait"
    /\ slot[uses[c]] = None
    /\ slot' = [slot EXCEPT ![uses[c]] = c]
    /\ Goto(c, "acquire")
    /\ UNCHANGED <<kind, run, replies, stop, entry, uses, limit, cancels, resizes>>

GiveUp_KeepsEntry(c) ==
    /\ call[c] = "wait" /\ Stopped(Parent(c))
    /\ Goto(c, "reported")
    /\ UNCHANGED <<kind, run, replies, stop, locks, limit, cancels, resizes>>

GiveUp(c) ==
    /\ call[c] = "wait" /\ Stopped(Parent(c))
    /\ Goto(c, "leave")
    /\ UNCHANGED <<kind, run, replies, stop, locks, limit, cancels, resizes>>

Executing(r) == {c \in BatchOf[r] : call[c] = "run"}

Return_(c) == IF Key(c) = "" THEN "reported" ELSE "unlock"

(* The batch's own Semaphore; a call that is refused gives its key back. *)
Start(c) ==
    /\ call[c] = "acquire"
    /\ \/ /\ Cardinality(Executing(Parent(c))) < Parallel /\ ~Stopped(Parent(c))
          /\ Goto(c, "run")
          /\ run' = IF c \in Agents THEN [run EXCEPT ![c] = "ask"] ELSE run
       \/ /\ Stopped(Parent(c))
          /\ Goto(c, Return_(c))
          /\ UNCHANGED run
    /\ UNCHANGED <<kind, replies, stop, locks, limit, cancels, resizes>>

(* The tool returns and its slot of the batch is free: an agent call when   *)
(* its child ended or its own run stopped.                                  *)
Return(c) ==
    /\ call[c] = "run"
    /\ c \in Agents => run[c] = "ended" \/ Stopped(Parent(c))
    /\ Goto(c, Return_(c))
    /\ UNCHANGED <<kind, run, replies, stop, locks, limit, cancels, resizes>>

Unlock(c) ==
    /\ call[c] = "unlock"
    /\ slot' = [slot EXCEPT ![uses[c]] = None]
    /\ Goto(c, "leave")
    /\ UNCHANGED <<kind, run, replies, stop, entry, uses, limit, cancels, resizes>>

Leave_ForgetsHeld(c) ==
    /\ call[c] = "leave"
    /\ uses' = [uses EXCEPT ![c] = None]
    /\ entry' = [entry EXCEPT ![Key(c)] = None]
    /\ Goto(c, "reported")
    /\ UNCHANGED <<kind, run, replies, stop, slot, limit, cancels, resizes>>

(* leave: the last to leave an entry forgets its key; the batch is told.    *)
Leave(c) ==
    LET last == \A d \in Calls \ {c} : uses[d] # uses[c] IN
    /\ call[c] = "leave"
    /\ uses' = [uses EXCEPT ![c] = None]
    /\ entry' = IF last THEN [entry EXCEPT ![Key(c)] = None] ELSE entry
    /\ Goto(c, "reported")
    /\ UNCHANGED <<kind, run, replies, stop, slot, limit, cancels, resizes>>

(* CancelRun, of a run with its children. *)
Cancel(r) ==
    /\ cancels < MaxCancels /\ run[r] \notin {"off", "ended"} /\ ~Stopped(r)
    /\ stop' = stop \union {r} \union Children(r)
    /\ cancels' = cancels + 1
    /\ UNCHANGED <<kind, run, replies, call, locks, limit, resizes>>

(* An error of the batch stops its calls; the children run on meanwhile.    *)
Fail(r) ==
    /\ cancels < MaxCancels /\ run[r] = "batch" /\ ~Stopped(r)
    /\ stop' = stop \union {r}
    /\ cancels' = cancels + 1
    /\ UNCHANGED <<kind, run, replies, call, locks, limit, resizes>>

-----------------------------------------------------------------------------
CallStep(c) ==
    \/ Begin(c) \/ Skip(c) \/ Hold(c) \/ GiveUp(c) \/ Start(c) \/ Return(c) \/ Unlock(c) \/ Leave(c)

RunStep(r) == Acquire(r) \/ Reply(r) \/ StopRun(r) \/ BatchEnds(r)

Work == (\E c \in Calls : CallStep(c)) \/ (\E r \in Runs : RunStep(r))

Next ==
    \/ Work
    \/ \E n \in Slots : Resize(n)
    \/ \E r \in Runs : Cancel(r) \/ Fail(r)

Spec == Init /\ [][Next]_vars

(* As long as a goroutine can go on, one does: models and tools return. *)
FairSpec == Spec /\ WF_vars(Work)

-----------------------------------------------------------------------------
TypeOK ==
    /\ kind \in [TopBatches -> Kinds]
    /\ run \in [Runs -> {"off", "ask", "parked", "model", "batch", "ended"}]
    /\ replies \in [Runs -> 0 .. 2]
    /\ stop \subseteq Runs
    /\ call \in [Calls -> {"off", "wait", "acquire", "run", "unlock", "leave", "reported"}]
    /\ entry \in [Keys -> Calls \union {None}]
    /\ uses \in [Calls -> Calls \union {None}]
    /\ slot \in [Calls -> Calls \union {None}]

(* Calls of one key never run at once, whichever runs and batches they are  *)
(* of and however their waits were cut off (locks.go: Locks).               *)
KeyExclusive ==
    \A c, d \in Calls : (c # d /\ call[c] = "run" /\ call[d] = "run" /\ Key(c) # "") => Key(c) # Key(d)

(* A key is kept as long as a call uses it, and no longer (locks.go:        *)
(* leave).                                                                  *)
KeysForgotten ==
    \A k \in Keys : entry[k] # None <=> \E c \in Calls : call[c] \in {"wait", "acquire", "run", "unlock", "leave"} /\ Key(c) = k

(* Where a run does wait for its own children: agent calls have all slots   *)
(* of its batch, one call more holds the directory's key and waits for a    *)
(* slot, and a call of every child waits for that key.                      *)
Clogged(r) ==
    /\ Cardinality(Executing(r)) = Parallel
    /\ \E c \in BatchOf[r] :
          /\ call[c] = "acquire"
          /\ \A d \in Executing(r) : \E e \in BatchOf[d] : call[e] = "wait" /\ slot[uses[e]] = c

(* Every run ends, unless a batch is clogged for ever: apart from that, the *)
(* order in which keys, the slots of batches and those of the model are     *)
(* taken leaves no run waiting, and no freed slot is missed (batch.go: call;*)
(* semaphore.go; subagents_tools.go: ConcurrencyKey; generate.go:           *)
(* generateOnSlot).                                                         *)
RunsEnd == <>[]((\A r \in Runs : run[r] \in {"off", "ended"}) \/ \E t \in TopRuns : Clogged(t))

(* "Next reports every started call exactly once" (batch.go: Batch).  When  *)
(* every slot of a batch runs an agent call, it may not: one call more has  *)
(* the directory's key and waits for a slot, and the children's commands    *)
(* wait for that key.                                                       *)
CallsReported == \A c \in Calls : call[c] \in {"wait", "acquire"} ~> call[c] = "reported"
=============================================================================
