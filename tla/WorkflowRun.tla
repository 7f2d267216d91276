----------------------------- MODULE WorkflowRun -----------------------------
(***************************************************************************)
(* The life of the runs of one workflow on one session                     *)
(* (agno/workflow/workflow.py): the four functions that execute a run, the *)
(* two that execute it in the background, the cancellation registry and    *)
(* the stored session with the copies the functions work on.  What one     *)
(* step does is the subject of WorkflowSteps; here it goes on, asks to     *)
(* stop, or raises.                                                        *)
(***************************************************************************)
EXTENDS Naturals

CONSTANTS RunIds,       \* the run ids the application makes
          EntryPoints,  \* the functions that are called
          StepsKinds,   \* what Workflow.steps may be
          StepCount,    \* the length of a list of steps
          Overlap,      \* may two runs be in flight at once?
          DbMayFail     \* may a database call raise?  The workflow swallows it.

----------------------------------------------------------------------------
(* Entry points.                                                           *)

AllFunctions == {"_execute", "_execute_stream", "_aexecute", "_aexecute_stream",
                 "_arun_background", "_arun_background_stream"}

\* They start a task that executes _aexecute or _aexecute_stream.
Background == {"_arun_background", "_arun_background_stream"}

Streaming == {"_execute_stream", "_aexecute_stream", "_arun_background_stream"}

Async == AllFunctions \ {"_execute", "_execute_stream"}

\* A list of steps, or one callable of four kinds; "agent": a workflow agent
\* decides, modelled for _arun_background only.
AllStepsKinds == {"list", "function", "generator", "coroutine",
                  "async_generator", "agent"}

\* The callables that are executed after a look at the cancellation flag ...
ChecksBefore(f, kind) ==
    kind = "function" /\ f \notin {"_aexecute_stream", "_arun_background_stream"}

\* ... and those that a synchronous function cannot execute.
Rejects(f, kind) == f \notin Async /\ kind \in {"coroutine", "async_generator"}

ASSUME EntryPointsAssumption == EntryPoints \subseteq AllFunctions
ASSUME StepsKindsAssumption == StepsKinds \subseteq AllStepsKinds
ASSUME StepCountAssumption == StepCount \in Nat
ASSUME SwitchesAssumption == {Overlap, DbMayFail} \subseteq BOOLEAN

----------------------------------------------------------------------------
VARIABLES
    cancelledRuns,  \* the registry of RunCancellation
    db,             \* the session row: the status stored for each run
    session,        \* the copy of the session the executing function works on
    first,          \* the copy the background functions have made before
    steps,          \* what Workflow.steps is
    pc,             \* where the call or its task is
    function,       \* the function that was called
    position,       \* the step of the list
    status,         \* WorkflowRunOutput.status
    exit,           \* how the call or its task ended
    acked,          \* history: has cancel_run answered True, and when?
    disturbed       \* history: have two runs overlapped, or the database failed?

vars == <<cancelledRuns, db, session, first, steps, pc, function, position,
          status, exit, acked, disturbed>>

cancellationVars == <<cancelledRuns>>
sessionVars == <<db, session, first>>

Cancellation == INSTANCE RunCancellation

Statuses == {"pending", "running", "completed", "cancelled", "error"}

Final == {"completed", "cancelled", "error"}

Stored == Statuses \cup {"none"}

\* A copy of the session holds its own run by reference: it is stored with the
\* status it has then.
Copies == [RunIds -> Stored \cup {"own"}]

NewSession == [r \in RunIds |-> "none"]

\* The statements between register_run and cleanup_run.
ExecutingPoints == {"started", "top", "unheard", "evaluating", "stepping",
                    "stepped", "custom", "custom_running", "cancel_event",
                    "error_event", "complete_event", "storing", "cleaning"}

Points == ExecutingPoints
    \cup {"idle", "called", "accepted", "scheduled", "begin", "failing", "ended"}

Exits == {"none", "return", "validation", "raise", "abandon", "lost"}

TypeOK ==
    /\ Cancellation!CancellationTypeOK
    /\ db \in [RunIds -> Stored]
    /\ session \in [RunIds -> Copies]
    /\ first \in [RunIds -> Copies]
    /\ steps \in AllStepsKinds
    /\ pc \in [RunIds -> Points]
    /\ function \in [RunIds -> AllFunctions]
    /\ position \in [RunIds -> 1 .. StepCount + 1]
    /\ status \in [RunIds -> Statuses]
    /\ exit \in [RunIds -> Exits]
    /\ acked \in [RunIds -> {"none", "in time", "late"}]
    /\ disturbed \in BOOLEAN

Init ==
    /\ Cancellation!CancellationInit
    /\ db = NewSession
    /\ session = [r \in RunIds |-> NewSession]
    /\ first = session
    /\ steps \in StepsKinds
    /\ pc = [r \in RunIds |-> "idle"]
    /\ function = [r \in RunIds |-> "_execute"]
    /\ position = [r \in RunIds |-> 1]
    /\ status = [r \in RunIds |-> "pending"]
    /\ exit = [r \in RunIds |-> "none"]
    /\ acked = [r \in RunIds |-> "none"]
    /\ disturbed = FALSE

Goto(r, point) == pc' = [pc EXCEPT ![r] = point]

InFlight(r) == pc[r] \notin {"idle", "ended"}

\* What read_or_create_session may find: an error of the database is taken for a
\* session that does not exist.
Found == {db} \cup (IF DbMayFail THEN {NewSession} ELSE {})

Disturbs(happened) == disturbed' = (disturbed \/ happened)

\* save_session: the whole copy is written; an error is swallowed.
Save(copy, current) ==
    LET row == [q \in RunIds |-> IF copy[q] = "own" THEN current ELSE copy[q]]
    IN  \E stored \in {row} \cup (IF DbMayFail THEN {db} ELSE {}) :
            /\ db' = stored
            /\ Disturbs(stored # row)

\* The call or its task is left; the task of a background run catches what is
\* raised.
Escape(r, how) ==
    /\ exit' = [exit EXCEPT ![r] = how]
    /\ Goto(r, IF function[r] \in Background /\ how # "return" THEN "failing" ELSE "ended")

----------------------------------------------------------------------------
(* The call.                                                               *)

\* run() reads the session before it calls a synchronous function; arun() makes
\* a coroutine or an asynchronous generator.
Call(r) ==
    /\ pc[r] = "idle"
    /\ Overlap \/ \A q \in RunIds : ~InFlight(q)
    /\ \E f \in EntryPoints : function' = [function EXCEPT ![r] = f]
    /\ steps = "agent" => function'[r] = "_arun_background"
    /\ \E found \in Found :
            /\ session' = [session EXCEPT ![r] = IF function'[r] \in Async
                                                 THEN NewSession ELSE found]
            /\ Disturbs(\/ \E q \in RunIds : InFlight(q)
                        \/ function'[r] \notin Async /\ found # db)
    /\ Goto(r, "called")
    /\ UNCHANGED <<cancelledRuns, db, first, steps, position, status, exit, acked>>

\* _arun_background and _arun_background_stream read the session ...
Accept(r) ==
    /\ pc[r] = "called"
    /\ function[r] \in Background
    /\ Goto(r, "accepted")
    /\ \E found \in Found :
            /\ first' = [first EXCEPT ![r] =
                            IF function[r] = "_arun_background"
                            THEN [found EXCEPT ![r] = "own"] ELSE found]
            /\ Disturbs(found # db)
    /\ UNCHANGED <<cancelledRuns, db, session, steps, function, position, status,
                   exit, acked>>

\* ... the first of them stores the pending run in it, and both start the task.
Schedule(r) ==
    /\ pc[r] = "accepted"
    /\ Goto(r, "scheduled")
    /\ IF function[r] = "_arun_background"
       THEN Save(first[r], status[r])
       ELSE UNCHANGED <<db, disturbed>>
    /\ UNCHANGED <<cancelledRuns, session, first, steps, function, position,
                   status, exit, acked>>

\* The task stores the session with the running run, if that is in its copy.
StoreRunning(r) ==
    /\ pc[r] = "scheduled"
    /\ Goto(r, "begin")
    /\ status' = [status EXCEPT ![r] = "running"]
    /\ Save(first[r], "running")
    /\ UNCHANGED <<cancelledRuns, session, first, steps, function, position,
                   exit, acked>>

\* The coroutine of the workflow agent is made and never awaited.
AgentNotAwaited(r) ==
    /\ pc[r] = "begin"
    /\ steps = "agent"
    /\ Goto(r, "ended")
    /\ exit' = [exit EXCEPT ![r] = "lost"]
    /\ UNCHANGED <<cancelledRuns, db, session, first, steps, function, position,
                   status, acked, disturbed>>

\* The first statements of the four functions that execute: the asynchronous
\* ones read the session, all register the run.
Begin(r) ==
    /\ pc[r] = IF function[r] \in Background THEN "begin" ELSE "called"
    /\ steps # "agent"
    /\ \E found \in IF function[r] \in Async THEN Found ELSE {session[r]} :
            /\ session' = [session EXCEPT ![r] = found]
            /\ Disturbs(function[r] \in Async /\ found # db)
    /\ status' = [status EXCEPT ![r] = "running"]
    /\ Cancellation!RegisterRun(r)
    /\ Goto(r, IF function[r] \in Streaming THEN "started"
               ELSE IF steps = "list" THEN "top" ELSE "custom")
    /\ UNCHANGED <<db, first, steps, function, position, exit, acked>>

\* The consumer takes the WorkflowStarted event and comes back.
Started(r) ==
    /\ pc[r] = "started"
    /\ Goto(r, IF steps = "list" THEN "top" ELSE "custom")
    /\ UNCHANGED <<cancelledRuns, db, session, first, steps, function, position,
                   status, exit, acked, disturbed>>

----------------------------------------------------------------------------
(* A list of steps.                                                        *)

\* The loop is left: its index is not used again.
LeaveLoop(r) == position' = [position EXCEPT ![r] = 1]

\* The handler of RunCancelledException.
Cancelled(r) ==
    /\ LeaveLoop(r)
    /\ status' = [status EXCEPT ![r] = "cancelled"]
    /\ exit' = [exit EXCEPT ![r] = "return"]
    /\ Goto(r, IF function[r] \in Streaming THEN "cancel_event" ELSE "storing")

\* The steps are over.
Completed(r) ==
    /\ LeaveLoop(r)
    /\ status' = [status EXCEPT ![r] = "completed"]
    /\ exit' = [exit EXCEPT ![r] = "return"]
    /\ Goto(r, IF function[r] \in Streaming THEN "complete_event" ELSE "storing")

\* The head of the loop: after an event of the last step, or after none.
LoopHead == {"top", "unheard"}

\* raise_if_cancelled, and the next step.  In a stream a Condition or a Router
\* comes to a decision before anything can be heard of it.
TopOfLoop(r) ==
    /\ pc[r] \in LoopHead
    /\ position[r] <= StepCount
    /\ IF Cancellation!IsCancelled(r)
       THEN Cancelled(r)
       ELSE /\ \E point \in {"stepping"} \cup (IF function[r] \in Streaming
                                              THEN {"evaluating"} ELSE {}) :
                    Goto(r, point)
            /\ UNCHANGED <<position, status, exit>>
    /\ UNCHANGED <<cancelledRuns, db, session, first, steps, function, acked,
                   disturbed>>

\* A stream may have an event after the output of its step: one more look.
TrailingEvent(r) ==
    /\ pc[r] = "top"
    /\ position[r] > 1
    /\ function[r] \in Streaming
    /\ Cancellation!IsCancelled(r)
    /\ Cancelled(r)
    /\ UNCHANGED <<cancelledRuns, db, session, first, steps, function, acked,
                   disturbed>>

LoopEnds(r) ==
    /\ pc[r] \in LoopHead
    /\ position[r] > StepCount
    /\ Completed(r)
    /\ UNCHANGED <<cancelledRuns, db, session, first, steps, function, acked,
                   disturbed>>

\* The condition is met, a step is selected, or the events of the decision are
\* asked for.
Decided(r) ==
    /\ pc[r] = "evaluating"
    /\ Goto(r, "stepping")
    /\ UNCHANGED <<cancelledRuns, db, session, first, steps, function, position,
                   status, exit, acked, disturbed>>

\* The condition is not met, or no step selected: the step ends without an event,
\* and nobody looks at the flag on its account.
EndsUnheard(r) ==
    /\ pc[r] = "evaluating"
    /\ Goto(r, "unheard")
    /\ position' = [position EXCEPT ![r] = @ + 1]
    /\ UNCHANGED <<cancelledRuns, db, session, first, steps, function, status,
                   exit, acked, disturbed>>

\* The step returns, or a streaming one yields its output.
StepReturns(r) ==
    /\ pc[r] = "stepping"
    /\ Goto(r, "stepped")
    /\ UNCHANGED <<cancelledRuns, db, session, first, steps, function, position,
                   status, exit, acked, disturbed>>

\* Mutant: no look at the flag after a step.
AfterStepUnchecked(r) ==
    /\ pc[r] = "stepped"
    /\ \/ /\ Goto(r, "top")
          /\ position' = [position EXCEPT ![r] = @ + 1]
          /\ UNCHANGED <<status, exit>>
       \/ Completed(r)
    /\ UNCHANGED <<cancelledRuns, db, session, first, steps, function, acked,
                   disturbed>>

\* raise_if_cancelled, and the output of the step: go on, or stop.
AfterStep(r) ==
    /\ pc[r] = "stepped"
    /\ \/ /\ Cancellation!IsCancelled(r)
          /\ Cancelled(r)
       \/ /\ ~Cancellation!IsCancelled(r)
          /\ Goto(r, "top")
          /\ position' = [position EXCEPT ![r] = @ + 1]
          /\ UNCHANGED <<status, exit>>
       \/ /\ ~Cancellation!IsCancelled(r)
          /\ Completed(r)
    /\ UNCHANGED <<cancelledRuns, db, session, first, steps, function, acked,
                   disturbed>>

\* Mutant: the error is returned like a result.
StepRaisesSilently(r) ==
    /\ pc[r] = "stepping"
    /\ exit' = [exit EXCEPT ![r] = "return"]
    /\ Goto(r, "storing")
    /\ UNCHANGED <<cancelledRuns, db, session, first, steps, function, position,
                   status, acked, disturbed>>

\* A failed input or output check, or another exception: the streams tell it
\* before they set the status; _execute stores the run; _aexecute only raises.
StepRaises(r) ==
    /\ pc[r] \in {"evaluating", "stepping"}
    /\ LeaveLoop(r)
    /\ \E how \in {"validation", "raise"} :
            IF function[r] \in Streaming
            THEN /\ Goto(r, "error_event")
                 /\ exit' = [exit EXCEPT ![r] = how]
                 /\ status' = status
            ELSE /\ status' = [status EXCEPT ![r] = "error"]
                 /\ IF function[r] = "_execute"
                    THEN Goto(r, "storing") /\ exit' = [exit EXCEPT ![r] = how]
                    ELSE Escape(r, how)
    /\ UNCHANGED <<cancelledRuns, db, session, first, steps, function, acked,
                   disturbed>>

\* The consumer comes back after the error: a failed check is not raised.
ErrorEvent(r) ==
    /\ pc[r] = "error_event"
    /\ status' = [status EXCEPT ![r] = "error"]
    /\ IF exit[r] = "validation"
       THEN /\ Goto(r, "complete_event")
            /\ exit' = [exit EXCEPT ![r] = "return"]
       ELSE Escape(r, "raise")
    /\ UNCHANGED <<cancelledRuns, db, session, first, steps, function, position,
                   acked, disturbed>>

\* The cancelled event is followed by the completed event.
CancelEvent(r) ==
    /\ pc[r] = "cancel_event"
    /\ Goto(r, "complete_event")
    /\ UNCHANGED <<cancelledRuns, db, session, first, steps, function, position,
                   status, exit, acked, disturbed>>

----------------------------------------------------------------------------
(* A callable instead of steps: outside of any try statement.              *)

CustomStarts(r) ==
    /\ pc[r] = "custom"
    /\ IF \/ Rejects(function[r], steps)
          \/ ChecksBefore(function[r], steps) /\ Cancellation!IsCancelled(r)
       THEN Escape(r, "raise")
       ELSE Goto(r, "custom_running") /\ exit' = exit
    /\ UNCHANGED <<cancelledRuns, db, session, first, steps, function, position,
                   status, acked, disturbed>>

\* It ends: only _execute returns without storing the run.
CustomEnds(r) ==
    /\ pc[r] = "custom_running"
    /\ IF function[r] = "_execute"
       THEN /\ status' = [status EXCEPT ![r] = "completed"]
            /\ LeaveLoop(r)
            /\ Escape(r, "return")
       ELSE Completed(r)
    /\ UNCHANGED <<cancelledRuns, db, session, first, steps, function, acked,
                   disturbed>>

\* It raises, or raise_if_cancelled does after a chunk.
CustomRaises(r) ==
    /\ pc[r] = "custom_running"
    /\ Escape(r, "raise")
    /\ UNCHANGED <<cancelledRuns, db, session, first, steps, function, position,
                   status, acked, disturbed>>

----------------------------------------------------------------------------
(* The end.                                                                *)

\* The consumer has taken the completed event and comes back.
CompleteEvent(r) ==
    /\ pc[r] = "complete_event"
    /\ Goto(r, "storing")
    /\ UNCHANGED <<cancelledRuns, db, session, first, steps, function, position,
                   status, exit, acked, disturbed>>

\* Mutants: the run is stored as it was loaded, as completed whatever it is,
\* and alone.
StoreCopy(r, copy, current) ==
    /\ pc[r] = "storing"
    /\ Save(copy, current)
    /\ session' = [session EXCEPT ![r] = NewSession]
    /\ Goto(r, "cleaning")
    /\ UNCHANGED <<cancelledRuns, first, steps, function, position, status,
                   exit, acked>>

StoreWithoutUpsert(r) == StoreCopy(r, session[r], status[r])

StoreAsCompleted(r) == StoreCopy(r, [session[r] EXCEPT ![r] = "own"], "completed")

StoreAlone(r) == StoreCopy(r, [NewSession EXCEPT ![r] = "own"], status[r])

\* upsert_run and save_session.  The copy is not used again.
Store(r) == StoreCopy(r, [session[r] EXCEPT ![r] = "own"], status[r])

\* Mutant: cleanup_run is forgotten.
CleanUpNothing(r) ==
    /\ pc[r] = "cleaning"
    /\ Goto(r, "ended")
    /\ UNCHANGED <<cancelledRuns, db, session, first, steps, function, position,
                   status, exit, acked, disturbed>>

CleanUp(r) ==
    /\ pc[r] = "cleaning"
    /\ Cancellation!CleanupRun(r)
    /\ first' = [first EXCEPT ![r] = NewSession]
    /\ Goto(r, "ended")
    /\ UNCHANGED <<db, session, steps, function, position, status, exit, acked,
                   disturbed>>

\* Mutant: the error stays in memory.
BackgroundFailsUnsaved(r) ==
    /\ pc[r] = "failing"
    /\ status' = [status EXCEPT ![r] = "error"]
    /\ first' = [first EXCEPT ![r] = NewSession]
    /\ Goto(r, "ended")
    /\ UNCHANGED <<cancelledRuns, db, session, steps, function, position, exit,
                   acked, disturbed>>

\* The task of a background run stores the error with its first copy of the
\* session, which in the streaming variant does not have the run.
BackgroundFails(r) ==
    /\ pc[r] = "failing"
    /\ status' = [status EXCEPT ![r] = "error"]
    /\ Save(first[r], "error")
    /\ first' = [first EXCEPT ![r] = NewSession]
    /\ Goto(r, "ended")
    /\ UNCHANGED <<cancelledRuns, session, steps, function, position, exit, acked>>

----------------------------------------------------------------------------
(* The other actors.                                                       *)

\* Where a call can be left: Ctrl-C or a cancelled task while a step executes, a
\* consumer that closes the stream at an event, a cancelled task at an await.
AbandonPoints(f) ==
    {"evaluating", "stepping", "custom_running"}
        \cup (IF f \in Streaming
              THEN {"called", "started", "cancel_event", "error_event", "complete_event"}
              ELSE {})
        \cup (IF f \in Async THEN {"called", "storing", "cleaning"} ELSE {})

\* Only _execute has a finally statement.
Abandon(r) ==
    /\ function[r] \notin Background
    /\ pc[r] \in AbandonPoints(function[r])
    /\ LeaveLoop(r)
    /\ exit' = [exit EXCEPT ![r] = "abandon"]
    /\ Goto(r, IF function[r] = "_execute" /\ steps = "list" THEN "storing" ELSE "ended")
    /\ UNCHANGED <<cancelledRuns, db, session, first, steps, function, status,
                   acked, disturbed>>

\* After the last look of its function at the flag; an empty list of steps has
\* none, and a last step that yields no event is followed by none.
TooLate(r) ==
    \/ pc[r] \in {"complete_event", "storing", "cleaning", "ended"}
    \/ pc[r] = "started" /\ StepCount = 0
    \/ pc[r] \in LoopHead /\ position[r] > StepCount
    \/ pc[r] = "evaluating" /\ position[r] = StepCount

CancelRequest(r) ==
    /\ pc[r] # "idle"
    /\ Cancellation!CancelRun(r)
    /\ acked' = IF Cancellation!Tracked(r) /\ acked[r] = "none"
                THEN [acked EXCEPT ![r] = IF TooLate(r) THEN "late" ELSE "in time"]
                ELSE acked
    /\ UNCHANGED <<db, session, first, steps, pc, function, position, status,
                   exit, disturbed>>

----------------------------------------------------------------------------
RunStep(r) ==
    \/ Accept(r) \/ Schedule(r) \/ StoreRunning(r) \/ AgentNotAwaited(r)
    \/ Begin(r) \/ Started(r)
    \/ TopOfLoop(r) \/ TrailingEvent(r) \/ LoopEnds(r)
    \/ Decided(r) \/ EndsUnheard(r)
    \/ StepReturns(r) \/ AfterStep(r) \/ StepRaises(r)
    \/ ErrorEvent(r) \/ CancelEvent(r) \/ CompleteEvent(r)
    \/ CustomStarts(r) \/ CustomEnds(r) \/ CustomRaises(r)
    \/ Store(r) \/ CleanUp(r) \/ BackgroundFails(r)

ClientStep(r) == Call(r) \/ Abandon(r) \/ CancelRequest(r)

Next == \E r \in RunIds : RunStep(r) \/ ClientStep(r)

\* Steps and database calls end, tasks are scheduled, and who consumes a stream
\* takes the next event or closes it.
Fairness == \A r \in RunIds : WF_vars(RunStep(r))

Spec == Init /\ [][Next]_vars

FairSpec == Spec /\ Fairness

----------------------------------------------------------------------------
(* Safety.                                                                 *)

\* Does the function store and forget the run whatever happens?
HasFinally(f, kind) == f = "_execute" /\ kind = "list"

\* A run can be cancelled from its first event to its last; before it the
\* registry does not know it, and it knows a run that is over only if that was
\* left by an exception or its consumer, or is that of a callable in _execute.
RegistryFollowsRuns ==
    \A r \in RunIds :
        /\ pc[r] \in ExecutingPoints => Cancellation!Tracked(r)
        /\ pc[r] \in {"idle", "called", "accepted", "scheduled", "begin"}
              => ~Cancellation!Tracked(r)
        /\ pc[r] = "ended" /\ Cancellation!Tracked(r)
              => /\ ~HasFinally(function[r], steps)
                 /\ exit[r] = "return" => function[r] = "_execute"

\* A list of steps that ended completed had no acknowledged cancel that a look
\* at the flag was still to come for, in whichever of its steps it came.  While
\* the last step of a stream, a Condition or a Router, decides what to execute,
\* there may be none to come: it may end without an event.
CancelIsHonoured ==
    \A r \in RunIds :
        steps = "list" /\ exit[r] = "return" /\ status[r] = "completed" =>
            acked[r] # "in time"

\* Also if runs overlap and the database fails: an outcome in the store is the
\* one this run has reported.
StoreIsTruthful ==
    \A r, q \in RunIds :
        /\ db[r] \in Final => status[r] = db[r]
        /\ {session[q][r], first[q][r]} \cap Final # {} => status[r] \in Final

\* Without overlap and failures: a run that returned is in the store with its
\* outcome, and so are a list of steps in _execute, interrupted or not, and a
\* background run that failed.
OutcomeIsStored ==
    \A r \in RunIds :
        pc[r] = "ended" /\ ~disturbed =>
            /\ exit[r] = "return" /\ (function[r] = "_execute" => steps = "list")
                  => db[r] = status[r] /\ status[r] \in Final
            /\ HasFinally(function[r], steps) => db[r] = status[r]
            /\ function[r] = "_arun_background" /\ exit[r] # "lost"
                  => db[r] = status[r] /\ status[r] \in Final

Rank(s) == CASE s = "none" -> 0 [] s = "pending" -> 1 [] s = "running" -> 2
             [] OTHER -> 3

\* Who polls the store sees a run go on and never back, nor from one outcome to
\* another, unless runs overlap or the database fails.
PolledStatusAdvances ==
    [][~disturbed' =>
            \A r \in RunIds : /\ Rank(db[r]) <= Rank(db'[r])
                              /\ db[r] \in Final => db'[r] = db[r]]_vars

----------------------------------------------------------------------------
(* Implementation of RunLifecycle, liveness included: all runs end.        *)

PhaseOf(r) ==
    IF InFlight(r) THEN "running"
    ELSE IF pc[r] = "idle" THEN "new"
    ELSE IF exit[r] = "return" /\ status[r] # "error" THEN status[r]
    ELSE "failed"

Lifecycle == INSTANCE RunLifecycle WITH
    Resumable <- {},
    phase <- [r \in RunIds |-> PhaseOf(r)],
    requested <- [r \in RunIds |-> acked[r] # "none"]

\* To its callers a workflow run of any function, background runs included,
\* looks like an agent run that does not pause.
ImplementsLifecycle == Lifecycle!LifecycleSpec

----------------------------------------------------------------------------
(* Liveness.                                                               *)

HasCompleted(r) == db[r] \in {"completed", "error"}

\* Who polls a background run until it has_completed() comes to an end, however
\* the run ends, unless the run is cancelled, which has_completed() does not
\* know, or is left to an agent that nobody awaits, runs overlap, or the
\* database fails.
PollingEnds ==
    \A r \in RunIds :
        pc[r] = "scheduled" /\ function[r] = "_arun_background" /\ steps # "agent"
            ~> HasCompleted(r) \/ acked[r] # "none" \/ disturbed
=============================================================================
