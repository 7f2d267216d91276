---------------------------- MODULE AgentSession ----------------------------
(***************************************************************************)
(* The stored session of an agent and the copies its runs work on          *)
(* (agno/agent/agent.py and agno/session/agent.py).  A run reads the whole *)
(* session once, adds its RunOutput to its own copy and writes the whole   *)
(* copy back: there is no lock and no version check between the two.       *)
(*                                                                         *)
(* A session is abstracted to the status under which each run is recorded  *)
(* in its list of runs ("none": the run is not in the list).  Every run of *)
(* RunIds belongs to the same session.                                     *)
(***************************************************************************)
CONSTANTS RunIds,
          DbMayFail   \* may a database call raise?  The agent swallows it.

VARIABLES db,         \* the session row of the database
          session     \* per run, the AgentSession object the run works on

Recorded == {"none", "paused", "completed", "cancelled"}

Sessions == [RunIds -> Recorded]

NewSession == [r \in RunIds |-> "none"]

SessionTypeOK == /\ db \in Sessions
                 /\ session \in [RunIds -> Sessions]

SessionInit == /\ db = NewSession
               /\ session = [r \in RunIds |-> NewSession]

\* _read_session returns None when the database raises, and a session that is
\* None is replaced by a new, empty one.
ReadOrCreateSession(r) ==
    /\ \E found \in {db} \cup (IF DbMayFail THEN {NewSession} ELSE {}) :
            session' = [session EXCEPT ![r] = found]
    /\ db' = db

\* Mutant: the list of runs is replaced, not updated.
ReplaceRuns(r, outcome) ==
    session' = [session EXCEPT ![r] = [NewSession EXCEPT ![r] = outcome]]

\* AgentSession.upsert_run: replace the entry of this run, or append it.
UpsertRun(r, outcome) ==
    session' = [session EXCEPT ![r] = [@ EXCEPT ![r] = outcome]]

\* _upsert_session writes all the runs of the copy; an error is swallowed.
SaveSession(r) ==
    \/ db' = session'[r]
    \/ DbMayFail /\ db' = db

CleanupAndStore(r, outcome) == UpsertRun(r, outcome) /\ SaveSession(r)
=============================================================================
