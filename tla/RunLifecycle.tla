---------------------------- MODULE RunLifecycle ----------------------------
(***************************************************************************)
(* What a caller of an agent may rely on, whatever function executes the   *)
(* run: a run is new, then running, and stops in one of four ways; it is   *)
(* reported cancelled only after somebody asked for it; and it does stop.  *)
(* Which runs can be taken up again differs: any run of an agent, none of  *)
(* a team or a workflow.  The counterpart in the code is the RunStatus     *)
(* that the run functions and the continuations report.                    *)
(***************************************************************************)
CONSTANTS RunIds,
          Resumable   \* the phases from which a run can be taken up again

VARIABLES phase,      \* per run, what its caller knows of it
          requested   \* per run, was a cancel of the current call acknowledged?

lifecycleVars == <<phase, requested>>

Phases == {"new", "running", "paused", "completed", "cancelled", "failed"}

LifecycleInit ==
    /\ phase = [r \in RunIds |-> "new"]
    /\ requested = [r \in RunIds |-> FALSE]

Begin(r) ==
    /\ phase[r] = "new"
    /\ phase' = [phase EXCEPT ![r] = "running"]
    /\ requested' = [requested EXCEPT ![r] = FALSE]

\* A cancel that was acknowledged before may or may not count for the new call.
Resume(r) ==
    /\ phase[r] \in Resumable
    /\ phase' = [phase EXCEPT ![r] = "running"]
    /\ \E carried \in {FALSE, requested[r]} :
            requested' = [requested EXCEPT ![r] = carried]

\* An acknowledged cancel.  It may come too late to have an effect.
Request(r) ==
    /\ phase[r] # "new"
    /\ requested' = [requested EXCEPT ![r] = TRUE]
    /\ phase' = phase

Stop(r) ==
    /\ phase[r] = "running"
    /\ \E outcome \in {"paused", "completed", "cancelled", "failed"} :
            /\ outcome = "cancelled" => requested[r]
            /\ phase' = [phase EXCEPT ![r] = outcome]
    /\ requested' = requested

LifecycleNext ==
    \E r \in RunIds : Begin(r) \/ Resume(r) \/ Request(r) \/ Stop(r)

LifecycleSafety == LifecycleInit /\ [][LifecycleNext]_lifecycleVars

LifecycleSpec ==
    /\ LifecycleSafety
    /\ \A r \in RunIds : WF_lifecycleVars(Stop(r))
=============================================================================
