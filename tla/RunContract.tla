----------------------------- MODULE RunContract -----------------------------
(***************************************************************************)
(* What a run promises its clients, whatever executes it: the status moves *)
(* only along the edges of runEdges (internal/core/run_lifecycle.go), a    *)
(* run that ended keeps how it ended, and a run waiting for approval goes  *)
(* on only once none of its approvals is open.                             *)
(***************************************************************************)
CONSTANT Runs

VARIABLES status,   \* what the store says of each run; "none" before it exists
          open      \* the runs with an approval nobody decided yet

vars == <<status, open>>

Ended  == {"completed", "failed", "canceled"}
Active == {"accepted", "running", "waiting_approval", "waiting_events"}
Status == {"none"} \union Active \union Ended

(* runEdges: the changes besides ending as failed or canceled. *)
Edges == {<<"accepted", "running">>, <<"running", "waiting_approval">>,
          <<"running", "waiting_events">>, <<"running", "completed">>,
          <<"waiting_approval", "running">>, <<"waiting_events", "running">>}

(* RunStatus.canBecome, and a new run is accepted. *)
CanBecome(s, to) ==
    \/ s = "none" /\ to = "accepted"
    \/ s \in Active /\ to \in {"failed", "canceled"}
    \/ <<s, to>> \in Edges

Init == /\ status = [r \in Runs |-> "none"]
        /\ open = {}

Change(r, to) ==
    /\ CanBecome(status[r], to)
    /\ status[r] = "waiting_approval" /\ to = "running" => r \notin open
    /\ status' = [status EXCEPT ![r] = to]

(* Approvals are asked for and decided on their own. *)
Decide == status' = status /\ open' \in SUBSET Runs

Next == \/ Decide
        \/ \E r \in Runs, to \in Status : Change(r, to) /\ open' = open

Spec == Init /\ [][Next]_vars
=============================================================================
