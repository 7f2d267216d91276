--------------------------- MODULE MCWorkflowRun ---------------------------
(* Instances of WorkflowRun.  Two runs are the least that can overlap.      *)
EXTENDS WorkflowRun

CONSTANTS r1, r2

OneRun == {r1}
TwoRuns == {r1, r2}
=============================================================================
