-------------------------- MODULE RunCancellation --------------------------
(***************************************************************************)
(* The run cancellation manager of agno/run/cancel.py: one dictionary      *)
(* from run ids to a flag, shared by every agent, team and workflow of the *)
(* process.  Each method holds the manager's lock for its whole body, so   *)
(* each operator below is one atomic step.                                 *)
(*                                                                         *)
(* The dictionary is a total function: "untracked" stands for a missing    *)
(* key, "active" for False and "cancelled" for True.                       *)
(***************************************************************************)
CONSTANT RunIds

VARIABLE cancelledRuns

Flags == {"untracked", "active", "cancelled"}

CancellationTypeOK == cancelledRuns \in [RunIds -> Flags]

CancellationInit == cancelledRuns = [r \in RunIds |-> "untracked"]

Tracked(r) == cancelledRuns[r] # "untracked"

\* register_run overwrites the flag, whatever it was.
RegisterRun(r) == cancelledRuns' = [cancelledRuns EXCEPT ![r] = "active"]

\* cancel_run marks the run only if it is tracked; its answer is Tracked(r).
CancelRun(r) ==
    cancelledRuns' =
        [cancelledRuns EXCEPT ![r] = IF Tracked(r) THEN "cancelled" ELSE @]

\* is_cancelled: an unknown run is not cancelled.
IsCancelled(r) == cancelledRuns[r] = "cancelled"

\* cleanup_run forgets the run; forgetting an unknown run is no error.
CleanupRun(r) == cancelledRuns' = [cancelledRuns EXCEPT ![r] = "untracked"]
=============================================================================
