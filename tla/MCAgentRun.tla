----------------------------- MODULE MCAgentRun -----------------------------
(***************************************************************************)
(* Instances of AgentRun for TLC.  One run is enough for what concerns a   *)
(* single call; two runs of one session are needed for what the session    *)
(* and its stored copy go through.                                         *)
(***************************************************************************)
EXTENDS AgentRun, TLC

CONSTANTS r1, r2

OneRun == {r1}
TwoRuns == {r1, r2}

\* The runs differ in nothing but their names.
RunSymmetry == Permutations(TwoRuns)

OnlyRun == {"_run"}

\* One function of each kind: a run that reads the session late and streams, a
\* continuation that reads it early and is retried, one that reads it late.
OneOfEachKind == {"_arun_stream", "_continue_run", "_acontinue_run"}
=============================================================================
