--------------------------- MODULE MCRunLifecycle ---------------------------
(***************************************************************************)
(* Instances of RunLifecycle for TLC.                                      *)
(***************************************************************************)
EXTENDS RunLifecycle

CONSTANTS r1, r2, t1

(* All calls belong to the first run.  The task is its own in one instance  *)
(* and left by an earlier run in the others.                                *)
MCOwner == [c \in Calls |-> r1]
MCStarter == [t \in Tasks |-> r1]
MCStarterEarlier == [t \in Tasks |-> r2]

(* The session's earlier run completed and left a background command.       *)
BusyInit == /\ Idle
            /\ status = [r \in Runs |-> IF r = r2 THEN "completed" ELSE "none"]
            /\ task = [t \in Tasks |-> "running"]

BusySpec == BusyInit /\ [][Next]_vars

(* The same when no client cancels. *)
BusyLiveSpec == BusyInit /\ [][NextUncanceled]_vars /\ Fairness
=============================================================================
