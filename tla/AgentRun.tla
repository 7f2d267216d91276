------------------------------ MODULE AgentRun ------------------------------
(***************************************************************************)
(* The life of the runs of one agent on one session (agno/agent/agent.py): *)
(* the eight functions that execute or continue a run, the retry loop of   *)
(* run() and continue_run(), the background memory task, the cancellation  *)
(* registry and the stored session.                                        *)
(*                                                                         *)
(* The eight functions share one skeleton and differ in where they         *)
(* register the run and where they look at the cancellation flag.  The     *)
(* skeleton is the set of actions below, the differences are the tables of *)
(* section "entry points".                                                 *)
(***************************************************************************)
EXTENDS Naturals

CONSTANTS RunIds,       \* the run ids the application makes
          EntryPoints,  \* the functions of the agent the application calls
          MaxRetries,   \* Agent.retries
          HasMemory,    \* is a memory manager configured?
          Overlap,      \* may two runs of the session be in flight at once?
          DbMayFail     \* may a database call raise?

----------------------------------------------------------------------------
(* Entry points.                                                           *)

RunFunctions == {"_run", "_run_stream", "_arun", "_arun_stream"}

ContinueFunctions == {"_continue_run", "_continue_run_stream",
                      "_acontinue_run", "_acontinue_run_stream"}

AllFunctions == RunFunctions \cup ContinueFunctions

Streaming == {"_run_stream", "_arun_stream",
              "_continue_run_stream", "_acontinue_run_stream"}

Async == {"_arun", "_arun_stream", "_acontinue_run", "_acontinue_run_stream"}

\* Only a synchronous, non-streaming call executes inside the retry loop: the
\* others return a generator or a coroutine from within it.
Retrying == {"_run", "_continue_run"}

\* register_run is the first statement of the function ...
RegistersOnEntry == {"_run", "_run_stream", "_arun", "_continue_run"}

\* ... or the last one before the try statement.  _continue_run_stream has none.
RegistersBeforeTry == {"_arun_stream", "_acontinue_run", "_acontinue_run_stream"}

\* Where each function calls raise_if_cancelled.
ChecksOnEntry == {"_run", "_arun"}
ChecksWhilePreparing == {"_arun_stream", "_acontinue_run_stream"}
ChecksBeforeModel == RunFunctions \cup {"_continue_run"}
ChecksEveryEvent == {"_run_stream", "_arun_stream", "_acontinue_run_stream"}
\* Mutant: the run functions no longer look at the flag once the model is done.
ChecksAfterModelForgotten == {"_continue_run", "_acontinue_run"}

ChecksAfterModel == AllFunctions \ {"_continue_run_stream"}
ChecksBeforeHooks == {"_acontinue_run"}
ChecksAfterHooks == ContinueFunctions \cup {"_run", "_arun"}

ASSUME EntryPointsAssumption == EntryPoints \subseteq AllFunctions
ASSUME MaxRetriesAssumption == MaxRetries \in Nat
ASSUME SwitchesAssumption == {HasMemory, Overlap, DbMayFail} \subseteq BOOLEAN

Attempts == 0 .. MaxRetries

----------------------------------------------------------------------------
VARIABLES
    cancelledRuns,  \* the registry of RunCancellation
    db, session,    \* the store and the copies of AgentSession
    pc,             \* where the call that executes the run is
    function,       \* the function that executes the run
    status,         \* RunOutput.status
    attempt,        \* the iteration of the retry loop
    memory,         \* per attempt, the background memory task
    exit,           \* how the call left the function
    held,           \* does the client hold a RunOutput of the run?
    acked,          \* history: where the run was when cancel_run first
                    \* answered True since the run was registered
    dropped         \* history: an acknowledged cancel of this call was
                    \* forgotten by the end of an attempt or a registration

sessionVars == <<db, session>>
historyVars == <<acked, dropped>>
vars == <<cancelledRuns, db, session, pc, function, status, attempt, memory,
          exit, held, acked, dropped>>

Cancellation == INSTANCE RunCancellation
Session == INSTANCE AgentSession

\* The statements inside the try statement of the function.
TryPoints == {"entry", "preparing", "before_model", "model", "after_model",
              "before_hooks", "hooks", "after_hooks", "awaiting", "pausing",
              "cancelling", "cancel_event"}

Points == TryPoints \cup {"idle", "called", "setup", "stored", "finally",
                          "backoff", "ended"}

Statuses == {"running", "paused", "completed", "cancelled"}

TaskStates == {"none", "pending", "done", "dropped"}

Exits == {"none", "return", "setup", "provider", "error", "abandon"}

TypeOK ==
    /\ Cancellation!CancellationTypeOK
    /\ Session!SessionTypeOK
    /\ pc \in [RunIds -> Points]
    /\ function \in [RunIds -> AllFunctions]
    /\ status \in [RunIds -> Statuses]
    /\ attempt \in [RunIds -> Attempts]
    /\ memory \in [RunIds -> [Attempts -> TaskStates]]
    /\ exit \in [RunIds -> Exits]
    /\ held \in [RunIds -> BOOLEAN]
    /\ acked \in [RunIds -> Points \cup {"none"}]
    /\ dropped \in [RunIds -> BOOLEAN]

Init ==
    /\ Cancellation!CancellationInit
    /\ Session!SessionInit
    /\ pc = [r \in RunIds |-> "idle"]
    /\ function = [r \in RunIds |-> "_run"]
    /\ status = [r \in RunIds |-> "running"]
    /\ attempt = [r \in RunIds |-> 0]
    /\ memory = [r \in RunIds |-> [a \in Attempts |-> "none"]]
    /\ exit = [r \in RunIds |-> "none"]
    /\ held = [r \in RunIds |-> FALSE]
    /\ acked = [r \in RunIds |-> "none"]
    /\ dropped = [r \in RunIds |-> FALSE]

InFlight(r) == pc[r] \notin {"idle", "ended"}

MayStart == Overlap \/ \A q \in RunIds : ~InFlight(q)

Goto(r, point) == pc' = [pc EXCEPT ![r] = point]

\* The functions that await or iterate read the session themselves; run() and
\* continue_run() read it before they call the synchronous ones.
ReadsSessionAtCall(f) == f \notin Async

----------------------------------------------------------------------------
(* The call.                                                               *)

Call(r, f) ==
    /\ MayStart
    /\ Goto(r, "called")
    /\ function' = [function EXCEPT ![r] = f]
    /\ attempt' = [attempt EXCEPT ![r] = 0]
    /\ exit' = [exit EXCEPT ![r] = "none"]
    /\ acked' = [acked EXCEPT ![r] =
                     IF Cancellation!IsCancelled(r) THEN "called" ELSE "none"]
    /\ dropped' = [dropped EXCEPT ![r] = FALSE]
    /\ IF ReadsSessionAtCall(f)
       THEN Session!ReadOrCreateSession(r)
       ELSE UNCHANGED sessionVars
    /\ UNCHANGED <<cancelledRuns, status, memory, held>>

\* run() or arun(): a new run id.
Run(r) ==
    /\ pc[r] = "idle"
    /\ \E f \in EntryPoints \cap RunFunctions : Call(r, f)

\* continue_run() or acontinue_run(), on the RunOutput the client holds or by
\* the id of a run of the session.  Neither looks at the status of the run: one
\* that has failed, or is completed or cancelled, is continued like a paused one.
ContinueRun(r) ==
    /\ pc[r] = "ended"
    /\ \E f \in EntryPoints \cap ContinueFunctions : Call(r, f)

\* There is a RunOutput to continue.
Found(r) == held[r] \/ session[r][r] # "none"

\* continue_run() raises before it reaches the function: the run is not in the
\* session that was read, or its tools cannot be resolved.
ContinueRejected(r) ==
    /\ pc[r] = "called"
    /\ attempt[r] = 0
    /\ function[r] \in ContinueFunctions \ Async
    /\ Goto(r, "ended")
    /\ exit' = [exit EXCEPT ![r] = "setup"]
    /\ UNCHANGED <<cancelledRuns, db, session, function, status, attempt,
                   memory, held, acked, dropped>>

\* A registration forgets the cancel that the entry it overwrites had taken.
Register(r) ==
    /\ Cancellation!RegisterRun(r)
    /\ dropped' = [dropped EXCEPT ![r] = @ \/ acked[r] # "none"]
    /\ acked' = [acked EXCEPT ![r] = "none"]

\* One attempt: the first statements of the function.  The synchronous
\* continue_run() resets the status itself, just before.
BeginAttempt(r) ==
    /\ pc[r] = "called"
    /\ function[r] \in ContinueFunctions \ Async => Found(r)
    /\ Goto(r, "setup")
    /\ IF function[r] \in RegistersOnEntry
       THEN Register(r)
       ELSE UNCHANGED <<cancelledRuns, acked, dropped>>
    /\ status' = IF function[r] \in Async
                 THEN status
                 ELSE [status EXCEPT ![r] = "running"]
    /\ IF ReadsSessionAtCall(function[r])
       THEN UNCHANGED sessionVars
       ELSE Session!ReadOrCreateSession(r)
    /\ UNCHANGED <<function, attempt, memory, exit, held>>

\* A pre-hook rejects the input, the run is not found, a tool update is invalid,
\* the messages cannot be built: the exception leaves the function without passing its finally.
\* The asynchronous functions may or may not have reset the status by then.
SetupFails(r) ==
    /\ pc[r] = "setup"
    /\ Goto(r, "ended")
    /\ exit' = [exit EXCEPT ![r] = "setup"]
    /\ \/ status' = status
       \/ status' = [status EXCEPT ![r] = "running"]
    /\ UNCHANGED <<cancelledRuns, db, session, function, attempt, memory,
                   held, acked, dropped>>

\* Hooks, tools and messages are ready: submit the memory task, enter the try.
SetupDone(r) ==
    /\ pc[r] = "setup"
    /\ function[r] \in ContinueFunctions => Found(r)
    /\ Goto(r, "entry")
    /\ status' = [status EXCEPT ![r] = "running"]
    /\ memory' = IF HasMemory /\ function[r] \in RunFunctions
                 THEN [memory EXCEPT ![r] = [@ EXCEPT ![attempt[r]] = "pending"]]
                 ELSE memory
    /\ IF function[r] \in RegistersBeforeTry
       THEN Register(r)
       ELSE UNCHANGED <<cancelledRuns, acked, dropped>>
    /\ UNCHANGED <<db, session, function, attempt, exit, held>>

----------------------------------------------------------------------------
(* The try statement.                                                      *)

\* Go on to the next statement, or to the handler of RunCancelledException
\* when the function checks here and the run is cancelled.
Checkpoint(r, checking, next) ==
    /\ Goto(r, IF function[r] \in checking /\ Cancellation!IsCancelled(r)
               THEN "cancelling" ELSE next)
    /\ UNCHANGED <<cancelledRuns, db, session, function, status, attempt,
                   memory, exit, held, acked, dropped>>

Entry(r) == pc[r] = "entry" /\ Checkpoint(r, ChecksOnEntry, "preparing")

\* Reasoning, or the tool updates of an asynchronous continuation.
Prepare(r) ==
    pc[r] = "preparing" /\ Checkpoint(r, ChecksWhilePreparing, "before_model")

BeforeModel(r) ==
    pc[r] = "before_model" /\ Checkpoint(r, ChecksBeforeModel, "model")

\* The model has answered, all its tool calls included.  A streaming function
\* looks at the flag at every event, so a flag set by now is seen.
ModelResponds(r) ==
    pc[r] = "model" /\ Checkpoint(r, ChecksEveryEvent, "after_model")

\* The response is checked, then copied into the RunOutput; a tool call that
\* needs the user pauses the run.
AfterModel(r) ==
    /\ pc[r] = "after_model"
    /\ \E next \in {"pausing", "before_hooks"} :
            Checkpoint(r, ChecksAfterModel, next)

BeforeHooks(r) ==
    pc[r] = "before_hooks" /\ Checkpoint(r, ChecksBeforeHooks, "hooks")

PostHooks(r) == pc[r] = "hooks" /\ Checkpoint(r, {}, "after_hooks")

AfterHooks(r) ==
    pc[r] = "after_hooks" /\ Checkpoint(r, ChecksAfterHooks, "awaiting")

\* Mutant: a run does not wait for its memory task.
MemoryNotAwaited(r) == TRUE

\* wait_for_background_tasks: the continuations start no task.
MemoryAwaited(r) ==
    function[r] \in RunFunctions => memory[r][attempt[r]] # "pending"

\* Mutant: the run is stored, and its status never set.
FinishWithoutStatus(r, outcome) ==
    /\ Session!CleanupAndStore(r, outcome)
    /\ exit' = [exit EXCEPT ![r] = "return"]
    /\ held' = [held EXCEPT ![r] = TRUE]
    /\ Goto(r, "stored")
    /\ UNCHANGED <<cancelledRuns, function, status, attempt, memory, acked, dropped>>

\* Every way to leave the try statement but an error of a statement of it sets
\* the status and stores the RunOutput.
Finish(r, outcome) ==
    /\ status' = [status EXCEPT ![r] = outcome]
    /\ Session!CleanupAndStore(r, outcome)
    /\ exit' = [exit EXCEPT ![r] = "return"]
    /\ held' = [held EXCEPT ![r] = TRUE]
    /\ Goto(r, "stored")
    /\ UNCHANGED <<cancelledRuns, function, attempt, memory, acked, dropped>>

Complete(r) ==
    /\ pc[r] = "awaiting"
    /\ MemoryAwaited(r)
    /\ Finish(r, "completed")

Pause(r) ==
    /\ pc[r] = "pausing"
    /\ MemoryAwaited(r)
    /\ Finish(r, "paused")

\* The handler of RunCancelledException: a streaming function first yields the
\* cancelled event and stores the run when it is resumed.
YieldCancelledEvent(r) ==
    /\ pc[r] = "cancelling"
    /\ function[r] \in Streaming
    /\ status' = [status EXCEPT ![r] = "cancelled"]
    /\ Goto(r, "cancel_event")
    /\ UNCHANGED <<cancelledRuns, db, session, function, attempt, memory,
                   exit, held, acked, dropped>>

StoreCancelled(r) ==
    /\ IF function[r] \in Streaming
       THEN pc[r] = "cancel_event"
       ELSE pc[r] = "cancelling"
    /\ Finish(r, "cancelled")

\* The telemetry and the last events, still inside the try statement.
Return(r) ==
    /\ pc[r] = "stored"
    /\ Goto(r, "finally")
    /\ UNCHANGED <<cancelledRuns, db, session, function, status, attempt,
                   memory, exit, held, acked, dropped>>

\* Mutant: the error is swallowed and the half-made RunOutput is returned.
StepFailsSilently(r) ==
    /\ pc[r] \in {"preparing", "model", "before_hooks", "hooks"}
    /\ exit' = [exit EXCEPT ![r] = "return"]
    /\ Goto(r, "finally")
    /\ UNCHANGED <<cancelledRuns, db, session, function, status, attempt,
                   memory, held, acked, dropped>>

\* A ModelProviderError of the model, or any other exception of the statements
\* of the try: there is no handler for it, and nothing is stored.
StepFails(r) ==
    /\ pc[r] \in {"preparing", "model", "before_hooks", "hooks"}
    /\ \E kind \in {"provider", "error"} : exit' = [exit EXCEPT ![r] = kind]
    /\ Goto(r, "finally")
    /\ UNCHANGED <<cancelledRuns, db, session, function, status, attempt,
                   memory, held, acked, dropped>>

----------------------------------------------------------------------------
(* Leaving the function.                                                   *)

\* The caller gives up: Ctrl-C in a synchronous call, a cancelled asyncio task,
\* a consumer that closes the generator of a streaming call where it yields.
AbandonPoints(f) ==
    {"preparing", "model", "hooks", "awaiting", "pausing", "stored"}
        \cup (IF f \in Streaming THEN {"cancel_event"} ELSE {"cancelling"})

\* Only run() and continue_run() catch the KeyboardInterrupt, and return the
\* RunOutput as cancelled, whatever has been stored.
AbandonedStatus(r) ==
    IF function[r] \in Retrying
    THEN [status EXCEPT ![r] = "cancelled"]
    ELSE status

AbandonedHeld(r) ==
    held' = [held EXCEPT ![r] = @ \/ function[r] \in Retrying]

\* The status that is set just before the store, which a database call of an
\* asynchronous function may not survive.
StatusToStore(r) ==
    CASE pc[r] = "awaiting" -> "completed"
      [] pc[r] = "pausing" -> "paused"
      [] pc[r] = "cancelling" -> "cancelled"
      [] OTHER -> status[r]

AbandonInTry(r) ==
    /\ pc[r] \in AbandonPoints(function[r])
    /\ Goto(r, "finally")
    /\ exit' = [exit EXCEPT ![r] = "abandon"]
    /\ \/ status' = AbandonedStatus(r)
       \/ /\ function[r] \notin Retrying
          /\ status' = [status EXCEPT ![r] = StatusToStore(r)]
    /\ AbandonedHeld(r)
    /\ UNCHANGED <<cancelledRuns, db, session, function, attempt, memory,
                   acked, dropped>>

AbandonSetup(r) ==
    /\ pc[r] = "setup"
    /\ Goto(r, "ended")
    /\ exit' = [exit EXCEPT ![r] = "abandon"]
    /\ status' = AbandonedStatus(r)
    /\ AbandonedHeld(r)
    /\ UNCHANGED <<cancelledRuns, db, session, function, attempt, memory,
                   acked, dropped>>

\* A generator or coroutine that is never started, or Ctrl-C during the sleep
\* between two attempts.  A synchronous call has reset the status by then.
AbandonCall(r) ==
    /\ \/ pc[r] = "called" /\ function[r] \notin Retrying
       \/ pc[r] = "backoff"
    /\ Goto(r, "ended")
    /\ exit' = [exit EXCEPT ![r] = "abandon"]
    /\ status' = IF function[r] \in Async
                 THEN status
                 ELSE [status EXCEPT ![r] = "running"]
    /\ UNCHANGED <<cancelledRuns, db, session, function, attempt, memory,
                   held, acked, dropped>>

\* The next attempt, if the retry loop sees the error and has one left.
Retries(r) ==
    /\ exit[r] = "provider"
    /\ function[r] \in Retrying
    /\ attempt[r] < MaxRetries

\* Mutant: the finally statement does not forget the run.
FinallyWithoutCleanup(r) ==
    /\ pc[r] = "finally"
    /\ memory' = IF /\ function[r] \in Async \cap RunFunctions
                    /\ memory[r][attempt[r]] = "pending"
                 THEN [memory EXCEPT ![r] = [@ EXCEPT ![attempt[r]] = "dropped"]]
                 ELSE memory
    /\ Goto(r, IF Retries(r) THEN "backoff" ELSE "ended")
    /\ UNCHANGED <<cancelledRuns, db, session, function, status, attempt, exit,
                   held, acked, dropped>>

\* An asynchronous run cancels its memory task; all forget the run.
Finally(r) ==
    /\ pc[r] = "finally"
    /\ memory' = IF /\ function[r] \in Async \cap RunFunctions
                    /\ memory[r][attempt[r]] = "pending"
                 THEN [memory EXCEPT ![r] = [@ EXCEPT ![attempt[r]] = "dropped"]]
                 ELSE memory
    /\ Cancellation!CleanupRun(r)
    /\ Goto(r, IF Retries(r) THEN "backoff" ELSE "ended")
    /\ UNCHANGED <<db, session, function, status, attempt, exit, held, acked, dropped>>

\* time.sleep between two attempts is over.
Backoff(r) ==
    /\ pc[r] = "backoff"
    /\ Goto(r, "called")
    /\ attempt' = [attempt EXCEPT ![r] = @ + 1]
    /\ exit' = [exit EXCEPT ![r] = "none"]
    /\ dropped' = [dropped EXCEPT ![r] = @ \/ acked[r] # "none"]
    /\ acked' = [acked EXCEPT ![r] = "none"]
    /\ UNCHANGED <<cancelledRuns, db, session, function, status, memory, held>>

----------------------------------------------------------------------------
(* The other actors.                                                       *)

\* A client calls Agent.cancel_run, at any time after the run id was made.
CancelRequest(r) ==
    /\ pc[r] # "idle"
    /\ Cancellation!CancelRun(r)
    /\ acked' = IF Cancellation!Tracked(r) /\ acked[r] = "none"
                THEN [acked EXCEPT ![r] = pc[r]]
                ELSE acked
    /\ UNCHANGED <<db, session, pc, function, status, attempt, memory, exit,
                   held, dropped>>

\* The background executor or the event loop finishes a memory task.  The
\* result is not looked at: an exception of the task is only logged.
MemoryTaskEnds(r, a) ==
    /\ memory[r][a] = "pending"
    /\ memory' = [memory EXCEPT ![r] = [@ EXCEPT ![a] = "done"]]
    /\ UNCHANGED <<cancelledRuns, db, session, pc, function, status, attempt,
                   exit, held, acked, dropped>>

----------------------------------------------------------------------------
(* What the program itself does once a call is made.                       *)
RunStep(r) ==
    \/ ContinueRejected(r) \/ BeginAttempt(r) \/ SetupFails(r) \/ SetupDone(r)
    \/ Entry(r) \/ Prepare(r) \/ BeforeModel(r) \/ ModelResponds(r)
    \/ AfterModel(r) \/ BeforeHooks(r) \/ PostHooks(r) \/ AfterHooks(r)
    \/ Complete(r) \/ Pause(r)
    \/ YieldCancelledEvent(r) \/ StoreCancelled(r) \/ Return(r)
    \/ StepFails(r) \/ Finally(r) \/ Backoff(r)

\* What its callers may do.
ClientStep(r) ==
    \/ Run(r) \/ ContinueRun(r) \/ CancelRequest(r)
    \/ AbandonInTry(r) \/ AbandonSetup(r) \/ AbandonCall(r)

Next ==
    \E r \in RunIds :
        \/ RunStep(r)
        \/ ClientStep(r)
        \/ \E a \in Attempts : MemoryTaskEnds(r, a)

Fairness ==
    \A r \in RunIds :
        /\ WF_vars(RunStep(r))
        /\ \A a \in Attempts : WF_vars(MemoryTaskEnds(r, a))

Spec == Init /\ [][Next]_vars

FairSpec == Spec /\ Fairness

----------------------------------------------------------------------------
(* Safety.                                                                 *)

HasRegistration(f) == f \in RegistersOnEntry \cup RegistersBeforeTry

\* While the statements of the try run, the run can be cancelled, if its
\* function registers it at all.  A call that passed the finally has left nothing
\* behind in the registry; one that failed or was left before its try statement
\* may have, and only a continuation can come upon this entry.
RegistryFollowsRuns ==
    \A r \in RunIds :
        /\ pc[r] \in TryPoints \cup {"stored"} /\ HasRegistration(function[r])
              => Cancellation!Tracked(r)
        /\ pc[r] \in {"idle", "backoff"} => ~Cancellation!Tracked(r)
        /\ pc[r] = "called" /\ Cancellation!Tracked(r)
              => function[r] \in ContinueFunctions
        /\ pc[r] = "ended" /\ Cancellation!Tracked(r)
              => exit[r] \in {"setup", "abandon"}

\* After the last check of a function, a cancel comes too late.
TooLate(f) ==
    {"stored", "finally", "ended"}
        \cup (IF f \in ChecksAfterHooks THEN {"awaiting"}
              ELSE {"before_hooks", "hooks", "after_hooks", "awaiting"})

\* A pause is prepared after the check that follows the model's answer, which
\* _continue_run_stream does not have.
TooLateToPause(f) ==
    IF f \in ChecksAfterModel THEN {"pausing", "stored", "finally", "ended"}
    ELSE Points

\* A run that returned completed had no acknowledged cancel that one of the
\* checks of its attempt could still see, a run that returned paused had none but
\* after the check that follows the model's answer.  This counts the cancels
\* since the run was registered, and for _continue_run_stream, which does not
\* register it, those that an entry left by an earlier call had taken.
CancelIsHonoured ==
    \A r \in RunIds :
        exit[r] = "return" =>
            /\ status[r] = "completed" => acked[r] \in {"none"} \cup TooLate(function[r])
            /\ status[r] = "paused" => acked[r] \in {"none"} \cup TooLateToPause(function[r])

\* A call returns a run as cancelled only because someone cancelled this very run
\* and the entry that took the cancel was still there: during this very attempt,
\* or, for _continue_run_stream, after an earlier call had left the entry behind.
NoSpuriousCancel ==
    \A r \in RunIds :
        exit[r] = "return" /\ status[r] = "cancelled" => acked[r] # "none"

\* A completed or paused run waited for the memory task of its last attempt,
\* and an asynchronous run leaves no task of its own running behind it.
NoOrphanTask ==
    \A r \in RunIds :
        function[r] \in RunFunctions /\ pc[r] \in {"stored", "finally", "ended"} =>
            /\ exit[r] = "return" /\ status[r] # "cancelled"
                  => memory[r][attempt[r]] # "pending"
            /\ function[r] \in Async /\ pc[r] = "ended"
                  => \A a \in Attempts : memory[r][a] # "pending"

\* Without overlapping calls and with a database that never fails: from the store
\* of its outcome on, until the run is continued, the row says of a run what its
\* call returned, whatever other runs of the session store meanwhile.  A call
\* that was interrupted after the store returned something else.
StoreIsTruthful ==
    \A r \in RunIds :
        pc[r] \in {"stored", "finally", "ended"} /\ exit[r] = "return"
            => db[r] = status[r]

\* Without overlapping calls and with a database that never fails, a run that is
\* recorded stays recorded, and nothing but a call on the run itself, which
\* returns what it stores, changes how it is recorded.
StoredRunsPersist ==
    [][\A r \in RunIds :
            /\ db[r] # "none" => db'[r] # "none"
            /\ db'[r] # db[r] => /\ pc[r] \in TryPoints /\ pc'[r] = "stored"
                                 /\ db'[r] = status'[r]]_vars

----------------------------------------------------------------------------
(* Implementation of RunLifecycle.                                         *)

\* What the caller knows: a call that was left by an exception or interrupted
\* has no outcome.
PhaseOf(r) ==
    IF InFlight(r) THEN "running"
    ELSE IF pc[r] = "idle" THEN "new"
    ELSE IF exit[r] = "return" THEN status[r]
    ELSE "failed"

Lifecycle == INSTANCE RunLifecycle WITH
    Resumable <- {"paused", "completed", "cancelled", "failed"},
    phase <- [r \in RunIds |-> PhaseOf(r)],
    requested <- [r \in RunIds |-> dropped[r] \/ acked[r] # "none"]

\* Every behaviour of the agent, its retries, streams, continuations, interrupts
\* and late cancels included, looks to its callers like one of RunLifecycle.
ImplementsLifecycle == Lifecycle!LifecycleSpec
=============================================================================
