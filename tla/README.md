# Verification of Agno's runs, tool calls, teams, workflows and of its Railway provider

TLA+ models of the parts of this repository that have a logic of their own: the
life of agent runs, their tool calls and pauses, teams and the members they
delegate to, workflow runs and the steps in them, and the planning and creation
of infrastructure at Railway. TLC runs check them on small instances, TLAPS
proofs hold for every value of the constants.

Paths below are relative to the repository; `agent.py` is
`libs/agno/agno/agent/agent.py`, `team.py` is `libs/agno/agno/team/team.py`,
`base.py` is `libs/agno/agno/models/base.py`, `workflow/` is
`libs/agno/agno/workflow/` and `railway/` is `libs/agno_infra/agno/railway/`.

The repository is two Python packages. `libs/agno` is a runtime for agents,
teams and workflows built on language models, with a server (AgentOS) around
it. `libs/agno_infra` creates the infrastructure the runtime is deployed on
(Docker, AWS, Railway). Most of the code by volume is adapters of external
services and examples; the logic of its own is in the execution of runs and in
the planning and creation of resources.

## Inventory

| Component | State | Operations | Interacts with | What is hard |
|---|---|---|---|---|
| Run cancellation (`run/cancel.py`) | one dictionary run id -> flag per process, under a lock | register, cancel, is_cancelled, cleanup | called by every agent, team, workflow; cancel by the server | a cancel at any point of a run |
| Agent runs (`agent/agent.py`) | RunOutput, retry counter, background tasks | run, arun, continue_run, acontinue_run (each with or without stream), cancel_run | model, hooks, tools, registry, session, memory | eight copies of one skeleton; retries, pauses, interrupts, abandoned generators |
| Agent session (`session/agent.py`, `agent.py`) | session row, one copy per call, optional cached copy | read or create, upsert_run, save | database | read-modify-write without a lock; swallowed database errors |
| Background tasks (`utils/agent.py`) | one memory and one culture task per attempt | submit, wait, cancel | executor or event loop | tasks that outlive their run |
| Model loop (`models/base.py`) | messages, count of tool calls, calls of the last answer | response, aresponse and their streams | remote model, functions | four copies that differ in when they stop; limits; exceptions of a tool |
| Tool calls and human in the loop (`agent.py`, `tools/function.py`) | tools and messages of a RunOutput, in the client and in the database | pause, confirm, reject, execute elsewhere, fill in, continue | model loop, client, session | the same call over several pauses and failures |
| Workflow runs (`workflow/workflow.py`) | status of the run, session copies | run, arun, background runs, polling | registry, database, consumer of the stream | six functions; background tasks with copies of their own |
| Workflow steps (`workflow/step.py`, `steps.py`, `condition.py`, `router.py`, `loop.py`, `parallel.py`) | output of each step, session state and its copies | execute and its three variants | executors, threads, tasks, queues | stop and failure on their way up; branches that outlive their container |
| State merge (`utils/merge_dict.py`) | none | merge_dictionaries, merge_parallel_session_states | Parallel, functions of steps | writes of several branches |
| Functions, toolkits, MCP (`tools/`) | function call state, result cache, MCP connections | execute, connect, close | agent, servers | connections shared by runs |
| Teams (`team/team.py`) | as agents; queues and tasks of a delegation, copies of the session state | run, arun (each with or without stream), delegate to one or all, cancel_run | members, model loop, registry, session | concurrent members; cancels and failures on either level; what is left at work |
| Memory, culture, knowledge | stores | create, update, load | database, vector database | asynchronous loading |
| Databases, vector databases | external | read, upsert | | |
| AgentOS (`os/`) | WebSocket connections | HTTP and WebSocket endpoints | all of the above | reconnects |
| Evaluation, guardrails, reasoning | none of their own | | agent | |
| Railway client (`railway/api_client.py`) | none | execute | Railway | lost answers |
| Railway plan and deployment (`railway/resources.py`, `railway/resource/`) | ids, cached objects, force flags of the resource objects | create_resources, delete_resources, update, save | client | partial failure, restarts, stale ids |
| Railway apps (`railway/app/`) | cached resources | build_resources | deployment | references by template |
| Docker, AWS, CLI | as Railway | as Railway | external | |

What makes each of them correct:

- *registry*: an executing run is in it, a finished one is not, and a flag
  concerns one run and one attempt;
- *runs*: every call ends; a caller sees one simple life cycle whichever of the
  functions serves it; a cancel that can still be seen is obeyed, and nothing is
  cancelled that nobody cancelled;
- *session*: the store never claims what did not happen; without overlapping
  calls it loses nothing;
- *background tasks*: a run waits for its task or, if asynchronous, cancels it;
- *tool calls*: nothing is executed that has to be confirmed first and was not;
  the model sees one answer to each of its calls, and a true one; the limit of
  calls is kept; a call is executed once;
- *workflow runs*: who polls a background run sees it go on and come to an end;
- *steps*: a write of one step survives, a failure is reported upwards, a stop
  ends the sequence it was asked in, nothing runs after its container;
- *client*: what `execute` reports accounts for what the server did;
- *plan*: nothing is created twice or forgotten, contents go before containers;
- *deployment*: the counts that are reported are true, whatever failed before;
- *teams*: a delegation ends, the answers of all members and no others are stored,
  what a member wrote is not undone, and members end with their team;
- *MCP, knowledge, server*: see the plan.

## Modules

```
RunLifecycle <--implemented by--  AgentRun    --INSTANCE--> RunCancellation, AgentSession
             <--implemented by--  WorkflowRun --INSTANCE--> RunCancellation
             <--implemented by--  TeamRun     --INSTANCE--> RunCancellation, SessionStateMerge,
                                                            RunLifecycle (the members)
      MCAgentRun, AgentRunProofs, MCWorkflowRun, WorkflowRunProofs, TeamRunProofs

ToolCalls             ToolCallsProofs

SessionStateMerge <--EXTENDS-- WorkflowSteps <--EXTENDS-- MCWorkflowSteps
                                             <--EXTENDS-- WorkflowStepsProofs

RailwayApiClient --EXTENDS--> RailwayApiOutcomes <--EXTENDS-- RailwayDeployment
InstallPlanCheck --EXTENDS--> InstallPlan        <--INSTANCE-- RailwayDeployment
      MCInstallPlan, RailwayApiClientProofs, InstallPlanProofs, MCRailwayDeployment
InstallPlanProofs <--INSTANCE-- RailwayDeploymentProofs
```

Operators marked "Mutant:" stand before the definition they alter. They are a
plausible mistake in that place, and the property `PROJECT.json` lists beside
each is violated with it; the models do not use them.

### RunCancellation

`cancelledRuns` is the dictionary `_cancelled_runs`: `untracked` is a missing
key, `active` is False, `cancelled` is True. Each method holds the lock for its
whole body, so each is one step.

### AgentSession

`db` is the session row, `session[r]` the `AgentSession` object the call of run
`r` works on. A session is abstracted to the status recorded for each run in
its list of runs. `ReadOrCreateSession` includes what `_read_session` does with
an exception of the database (it answers None, and a new session is made);
`SaveSession` includes the error that `_upsert_session` swallows.

### AgentRun

`pc[r]` says at which statement the call for run `r` is. The eight functions
`_run`, `_run_stream`, `_arun`, `_arun_stream`, `_continue_run`,
`_continue_run_stream`, `_acontinue_run` and `_acontinue_run_stream` share the
skeleton

    called -> setup -> try { entry, preparing, before_model, model, after_model,
    before_hooks, hooks, after_hooks, awaiting | pausing | cancelling -> stored } -> finally -> ended

and differ in where they call `register_run`, where they call
`raise_if_cancelled`, when they read the session, whether they are inside the
retry loop and whether they yield. These differences are the sets in the first
section of the module (`RegistersOnEntry`, `ChecksAfterModel`, ...), one table
per question, each read off the source. `Checkpoint` is the step from one
statement to the next: it goes to the handler of `RunCancelledException` if the
function checks there and the flag is set.

- `ContinueRun`: any run that is over. Neither `continue_run()` nor
  `acontinue_run()` nor the endpoint looks at the status of the run
  (agent.py:2792-2843, 3459-3477), so a failed, completed or cancelled run is taken
  up like a paused one, with the RunOutput the client `held` or with that of the
  session (`Found`). A call that failed or was left before its try statement has left its
  registry entry behind, and the continuation comes upon it: `Register` overwrites
  it with the cancel it may hold, and `_continue_run_stream`, which does not
  register, goes on with it.
- `BeginAttempt`, `SetupDone`: the statements before the try. The background
  memory task is submitted here. `SetupFails` leaves without the finally.
- `Finish`: `_cleanup_and_store` and the status before it, for the three ways
  to end normally (`Complete`, `Pause`, `StoreCancelled`). What follows is still
  inside the try (telemetry, the last events): the point `stored`, left by `Return`.
- `StepFails`: no handler of the functions catches other exceptions; nothing is
  stored, and only `run()` and `continue_run()` see a ModelProviderError inside
  their retry loop. The loops of the streaming and asynchronous calls return a
  generator or coroutine at once, so these never retry (`Retrying`).
- `AbandonInTry`, `AbandonSetup`, `AbandonCall`: Ctrl-C, a cancelled asyncio
  task, a consumer that closes the generator at one of its yields. After the store
  too: `run()` then returns as cancelled what is stored as completed. An interrupt
  inside the finally itself is left out.
- `Finally`: cancels the memory task (asynchronous runs), forgets the run.
- `CancelRequest`, `MemoryTaskEnds`: other actors, at any time.

`acked` and `dropped` are history variables: where the run was when a cancel
was first acknowledged since the run was registered, and whether one was forgotten
by the end of an attempt or by a registration. Two calls on one run id at the same
time are left out; calls on different runs may overlap.

One action is one statement group between two points at which another thread or
task can be noticed: a check of the flag, a database call, a yield or await.

### ToolCalls

The inside of the model statement of `AgentRun` as far as tool calls are
concerned, and what a pause leads to. `run` is the RunOutput the executing
function works on, `held` the one the client has, `stored` the one in the
database: the client continues with its own object (`run_response`) or with the
run id and the tools it got (`run_id`), and then the stored one counts. A
RunOutput is the calls asked for, the tool messages of each and its
ToolExecution; the kind of a call (plain, to be confirmed, executed elsewhere,
with input by the user, the form `get_user_input`, of a function the agent does
not have) decides what happens to it.

- `ModelAnswers`, `OverLimitCall`, `PauseCall`, `ExecuteCall`, `AfterCalls`:
  one round of `Model.response`, its asynchronous variant and their two
  streams. `BreaksForUser` is where the four disagree about when a call ends
  the loop. `loop` is the local variables of that function.
- `LoopEnds`: the run is paused if a question is open, else completed, and
  stored either way.
- `ModelRaises`, `CallBroken`, `UpdateBroken`: the exceptions, and a consumer
  that leaves between an execution and its message.
- `ContinueRun` and the actions of `Updating`: `_handle_tool_call_updates` and
  its three variants, which execute a confirmed call, answer a rejected one or
  append what the client has brought, one ToolExecution after the other.

Two things are history and no part of the program. `torn` says of a RunOutput that
a continuation which broke has written into it: it goes with the object, to the
client and into the database, since the next continuation takes up that very
object. `failed` holds the ways of the first continuation that failed and of those
after it: one by the run id among them works on a RunOutput from before (`Forgetful`).

### WorkflowRun

`steps` says what the workflow is made of (a list, a plain function, a
coroutine, an agent that decides); `function[r]` is one of `_execute`,
`_execute_stream`, `_aexecute`, `_aexecute_stream` and the two background
functions around the latter. As in `AgentRun`, `pc[r]` is the statement, the
sets of the first section are the differences between the functions, and an
action is what happens between two points at which somebody else can be noticed.

`session[r]` is the copy of the session the run works on, `first[r]` the one a
background run was accepted with: its task reads the session again, and uses the
first copy only to store an error. The entry of the own run in its copy is the
RunOutput object itself ("own"), so it changes with `status`; `Save` resolves
it. `Found` and `Save` include the errors of the database the code swallows.
`disturbed` is a history variable: runs have overlapped or a database call has
failed. `TooLate` says after which statement nothing looks at the flag any more.

The streaming functions look at the flag at every event a step yields. Most steps
yield at least their output (`stepping`, `stepped`, `AfterStep`), but a Condition
that is not met and a Router that selects nothing yield nothing unless
`stream_events` is set: such a step is `evaluating`, and ends by `EndsUnheard` at the
head of the loop without a look (`unheard`), or is `Decided` and goes on as any other.

### RunLifecycle

What a caller may rely on: new, running, then paused, completed, cancelled or
failed; cancelled only after a request; and it does stop. `Resumable` are the phases
from which a run can be taken up again: for an agent all in which a call is over, for
teams and workflows none. `AgentRun` and `WorkflowRun` implement it with `phase` mapped to
`PhaseOf` and `requested` to the history of acknowledged cancels. A request made
of an earlier call on the same run may count for the next one (`Resume`), as the entry that a
failed continuation leaves behind makes it do. A call that raised or was interrupted has
failed for its caller, whatever it has stored.
`TeamRun` implements the safety of it, and takes its members by the same contract.
A team run is not sure to stop: `TeamRunEnds` says what of that holds.

### TeamRun

One run of a team. The leader has a `pc` as in `AgentRun`, and the four
functions differ in the sets of the first section: where they register (`_arun`
does it twice), which of them `run()` retries, where they look at the flag. The
delegation is the part that is new. `asked` counts the tasks delegated so far,
`batch` holds those of the delegation the leader waits for: one or several calls
of `delegate_task_to_member` in one answer of the model, or one call of
`delegate_task_to_members`. `delegation[t]` and `raised[t]` are the function
around the member, `phase[t]` and `requested[t]` the member's run, which is not
modelled again but taken by its contract: `Members` is an instance of
`RunLifecycle`, and `StartMember`, `MemberEnds` or `MemberTells`, and `CancelMember`
contain its `Begin`, `Stop` and `Request`. `AgentRun` is what shows that an agent keeps that
contract, and `ImplementsLifecycle` that a team does, so that the two compose.

How the pieces wait for each other is in four operators. `MayStart`: synchronous
members one after the other, asynchronous ones at any time. `AllReported`: when
the leader goes on. `Surfacing`: whose exception it sees; several asynchronous
generators are all awaited before the first error is raised, `gather` raises at
once, a streaming worker keeps its exception to itself. `LeaveDelegation`: what
remains; generators of synchronous functions are closed, tasks in the event loop
go on (`orphans`). `streamed` is `self.stream`, which `run()` sets for ever, so
that a later call without a stream still has members that stream.

A member's end and its record in the team run (`Process`) are one step where nothing
comes between (`MemberEnds`). In a synchronous stream with `stream_events` something
does: the completed event goes up to the leader, which looks at its flag
(team.py:7006, 1582), and only then is the delegation resumed (`MemberTells`,
`MemberRecorded`). A leader that is cancelled there closes the delegation, and the
answer is not recorded: the member is `CutOff`.

`state` is the session state, `copy[t]` the copy the member works on; `Process`
merges it back whole by `MergeDictionaries`. The value task `t` writes is `t`, so
a value tells its writer. `runs` are the member runs in the team's session and
`db` is the stored row.

### SessionStateMerge, WorkflowSteps

A session state is a function from paths to values; `TopKey` gives the outer
key of a path and `Nested` the paths inside an inner dictionary, which is all
that the merge distinguishes: it compares and copies outer values whole.
`MergeDictionaries` and `MergeParallel` are the two functions of
`utils/merge_dict.py`.

`WorkflowSteps` executes a tree. The inner nodes are `Steps`, `Condition`,
`Router`, `Loop` or `Parallel`, the leaves `Step` objects with an executor,
`max_retries` and `skip_on_failure`; the root is the loop over the steps of the
workflow. `owner[n]` is the node whose copy of the session state `n` writes to:
the root, or the branch of the innermost Parallel. Executors write to a shallow
copy (`shallow`) that is merged back when they return, so that a write inside
an inner dictionary arrives although they fail, and all of it although what
follows the merge does (`merged` in `StepFails` and `StepRetries`). `Abandon` is a consumer that
closes the stream or a cancelled task, `Unwind` the end of the wait of the
thread pool for its threads. The four variants of every container differ in how
branches run and in which order they are merged (`MergeOrders`), in what a stop
does to a loop (`NextIteration`), and in what is left running (`LeftAtOnce`). A
Router executes whatever list its selector returns (router.py:111-128); here that is
its first choice and some of the later ones in their order, not another order and no repetition.

The tree is a parameter: `TreeAssumption` says that every node but the root stands
at one place of one container and that none is inside itself. `Under[n]` is what
is inside of `n` at any depth. A step object that is listed at two places of a
workflow is two nodes. `StateAssumption` is `_initialize_session_state` (workflow.py:384): the run
puts its ids into the session state, so it is never the empty dictionary that
`merge_parallel_session_states` would not merge into.

### RailwayApiClient, RailwayApiOutcomes

One call of `execute`: up to `max_retries` requests. A 429 means the server did
nothing; a 5xx, a timeout or a broken connection leaves open whether it did, and so
does an answer that is there and cannot be used (`AnswerUnusable`): a body that is no
JSON or no object, which no handler expects, or `errors` beside the data of a
mutation that was executed. These end the call at once. `effects` counts executions, `lost`
the answers that got lost or were of no use. A JSON object without `errors` is taken to
be the answer of a request that was executed.
`Outcomes(losses)` is the summary that `RailwayDeployment` uses in place of the
loop, and `OutcomeIsAccounted` is the reason why it may.

### InstallPlan, InstallPlanCheck

The pure part of `create_resources` and `delete_resources`: stable sort by the
install order of the class, deduplication by type and name, dependencies before
the resource (one level). The loops of the code are recursive functions over the
positions of a list: `AppendAllNew` is the "append if not in" that both
deduplication and dependency insertion consist of, and `StableSort` takes the
resources of each install order in turn, as they are listed. `InstallPlanCheck`
compares the plans with what they must contain for every input.

### RailwayDeployment

`railwayId`, `active`, `force`, `projectId`, `environmentId` are the fields of
the resource objects that change; `objects` is what exists at Railway. One
action is one query or mutation of the loop with the assignments around it:
`Check` (`is_active`, `_read`), `Remove` (deletion before re-creation), `Make`
(`_create`, the read after it, the propagation of ids to later resources and
the count), `DeleteStep`. `_create` of a service or database goes on with further mutations
(`FollowUps`: the variables of a database, the deployment), whose failure is logged
and has no consequence; `settled` is what of them took effect. `Restart` loses all
fields, since nothing is written to disk; `objects` stays. `Interrupt` is the restart
between the creation of a service and its deployment. A service and a
database are looked up among the services of the project by their name only
(`Alike`), so they may find each other. `scenario` is chosen once: the calls made, their
bound, the faults that may strike, the options of the program and the name of the database.

Railway is outside the repository and modelled from how the code uses it, as
well-behaved as it can be: it refuses dead containers, deletes contents with
containers, gives a new project a `production` environment, keeps names unique
inside a project, and accepts the service id of a variable, a template string
(`{{service.railway_id}}`) that nothing in the code resolves. Everything that
goes wrong goes wrong in the code or by the faults of the scenario.

`ListingAssumption` is what `RailwayApp.build_resources` makes of every list: each
resource is listed with a project and an environment of its app. An app that is
given the id of its project lists none, and is left out.

The counts are honest only on conditions, which the properties name. A project
whose query fails is created anew, while its environment and services are found by
name in the old one: `CreateCountIsHonest` is about programs whose queries are
answered, and whose databases do not bear the name of their app. That everything exists is
also all it says: a service whose deployment failed, or was never asked for, is found by
name and counted. `CreateCountIsDeployed` says where "n of n" does mean that all is
deployed: where no mutation fails, even if the program was interrupted before; the
project of the interrupted run is never found again. `DeleteCountIsHonest` needs a program that `ForgetsNothing`: an id that
got lost with an answer or with the process, or was replaced because the deletion
before a re-creation failed, names a project that nobody deletes.

## Runs

| Run | Instance | Shows |
|---|---|---|
| `agent_lifecycle` | one run, all functions, any continuations, 2 retries, memory, failing database | `RegistryFollowsRuns`, `CancelIsHonoured`, `NoOrphanTask`, `ImplementsLifecycle` |
| `agent_serial` | two runs, a function of each kind, one call at a time, any continuations, database works | `StoreIsTruthful`, `StoredRunsPersist` |
| `tool_calls` | three calls of all kinds, all functions, both ways to continue, limit 2, 1 retry, 2 continuations | `OnlyConfirmedCallsRun`, `ModelSeesEveryAnswer`, `AnsweredAtMostOnce`, `AnswersAreTrue`, `LimitIsKept`, `NoSecondExecution` |
| `workflow_run` | two overlapping runs, six functions, four kinds of workflow, failing database | `RegistryFollowsRuns`, `CancelIsHonoured`, `StoreIsTruthful`, `OutcomeIsStored`, `PolledStatusAdvances`, `ImplementsLifecycle`, `PollingEnds` |
| `workflow_steps` | a container of any kind in a container of any kind and steps around them, four variants; three keys of the session state, two of them in one inner dictionary | `TypeOK`, `LoneWriteSurvives`, `FailuresAreReported`, `NoOrphanStep`, `StopEndsItsSequence`, `WorkflowEnds` |
| `team_run` | up to two members, all functions, to one or to all, 1 retry | `CancelIsHonoured`, `MembersAreRecorded`, `NoMemberIsLeft`, `StateKeepsWrites`, `ImplementsLifecycle`, `TeamRunEnds` |
| `railway_execute` | up to 6 requests | `OutcomeIsAccounted`, `ExecuteEnds` |
| `railway_plan` | lists of up to 3 of 4 resources, all graphs of out-degree at most 1 | `CreatePlanIsExact`, `ContentsAreDeletedFirst` |
| `railway_deploy` | one app of six resources in the scenarios `Creation`, `Interruption`, `Deletion`, `Recreation` | `CreateCountIsHonest`, `CreateCountIsDeployed`, `TemplatesAreResolved`, `DeleteCountIsHonest`, `OneProjectPerApp` |
| `agent_readerror` | two runs, one after the other, failing database | violates `StoredRunsPersist` |
| `railway_twoapps` | two apps | violates `ServiceRunsInItsEnvironment` |
| `team_drain` | two concurrent members that stream | violates `DelegationEnds` |

The type invariants of `AgentRun`, `ToolCalls`, `WorkflowRun`, `TeamRun` and `RailwayDeployment`,
`NoSpuriousCancel` of `AgentRun` and `RegistryFollowsRuns` of `TeamRun` are not in
these runs, being proved (see Proofs).

Bounds and why they are enough:

- *agents*. Runs share only the registry, keyed by run id, and the session. One
  run shows everything about the registry, the cancel contract and the tasks;
  the proofs lift this to any number. Two runs are the least that can lose an
  entry of the session; they differ in their names only, so that TLC may take them
  as symmetric, and the functions of `agent_serial` are one for each way to read the
  session and to leave the try statement. Continuations are not bounded. Two retries
  give a first, a middle and a last attempt.
- *tool calls*. Three calls are one that pauses, one beside it in the same
  answer and one of a later answer, in every order; a limit of 2 falls between
  any two of them. The second continuation is the one that finds what the first
  has left. `CallCount`, `MaxContinues` and `MaxRetries` bound the run;
  `CallCount` also stands for a limit that is not set.
- *workflow runs*. With lists of one step all statements of the loop are
  passed, by a step that ends without an event as well; the proofs hold for lists of
  any length, also empty ones.
- *workflow steps*. What a container does with the result of a child depends on
  that child's output alone, so two levels show every pair of kinds, a step
  beside and a step after the inner container, a retry, a skipped failure and a
  second iteration (`MaxIterations` = 2, the code's `max_iterations`).
- *teams*. Two tasks are two members at once, one after the other in one answer,
  or in two answers with the model between them; two keys are one that is there
  from the beginning and one that is not. One retry gives a first and a last
  attempt, with members of the first in the session of the second. Not allowed by
  two tasks: a delegation to all after another one.
- *Railway*. Six requests allow every mixture of twice the default three. Three
  listed resources with a fourth outside the list include chains, cycles,
  repetitions, ties in the install order and dependencies that are not listed.
  Three calls of `create_resources` are a first one, one that finds what the
  first left, and one after both; `MaxLosses` = 1 already duplicates a project.
  `Deletion` and `Recreation` allow five and six calls, because their hazards
  need create, delete, create, delete and then some. In `Recreation` the database
  bears the name of its app, in the others a name of its own.
- Deadlock is not checked: when every call is over and nobody makes another,
  the program is idle.

No run has a state constraint. `MaxRetries`, `Limit`, `MemberCount` and
`MaxIterations` are parameters of the code; `CallCount`, `TaskCount`,
`MaxContinues`, `StepCount`, `MaxLosses`, `MaxListed`, `MaxDependencies` and the
`maxCalls` of a scenario are the bounds of the models.

Fairness. Only the program's own steps are fair, never a client, a cancel or a
fault.

- `AgentRun`: model, hooks and database calls return or raise, the consumer of
  a stream pulls the next event or closes it, `time.sleep` ends. Memory tasks
  end because the model call inside them does; `wait_for_background_tasks` has
  no limit of its own, and without this assumption no run with a memory manager
  need ever end.
- `WorkflowRun`: steps and database calls end, the event loop schedules the
  tasks it was given, the consumer of a stream takes the next event or closes
  it. Each run is fair by itself, since one that waits does not stop another.
- `TeamRun`: the leader's next step and each member's are fair, members end
  because agents do (`RunLifecycle`), and the consumer of a stream takes the next
  event or closes it. That a stream notices a cancel during a delegation is not
  assumed: there may be no further event.
- `WorkflowSteps`: executors end, threads and tasks are scheduled. One condition
  for the whole tree is enough, since its steps are finitely many: retries and
  iterations are bounded by the code.
- `RailwayApiClient`: every request has a timeout, so each ends in one of the
  modelled ways.

## Proofs

Every theorem below holds for all values of the constants that satisfy the named
assumptions of its module (sets of functions the code has, natural numbers as
limits) and for nothing else.

| Module | Theorem | States |
|---|---|---|
| `AgentRunProofs` | `TypesAreCorrect` | `Spec => []TypeOK` |
| | `RegistryIsSafe` | `Spec => []RegistryFollowsRuns` |
| | `CancelIsSafe` | `Spec => []CancelIsHonoured` |
| | `CancelIsOwn` | `Spec => []NoSpuriousCancel` |
| | `NoTaskIsLost` | `Spec => []NoOrphanTask` |
| | `StoreIsSafe` | with `Overlap` and `DbMayFail` FALSE, `Spec => []StoreIsTruthful` |
| | `SerialStoreKeepsRuns` | with `Overlap` and `DbMayFail` FALSE, `Spec => StoredRunsPersist` |
| | `AgentImplementsLifecycle` | initial states and steps map to `RunLifecycle` |
| `ToolCallsProofs` | `TypesAreCorrect` | `Spec => []TypeOK` |
| | `ConfirmedFirst` | `Spec => []OnlyConfirmedCallsRun` |
| | `OneAnswer` | `Spec => []AnsweredAtMostOnce` |
| | `LimitHolds` | `Spec => []LimitIsKept` |
| | `AnswersTellTheTruth` | `Spec => []AnswersAreTrue` |
| | `ExecutedOnce` | `Spec => NoSecondExecution` |
| | `EveryCallIsAnswered` | `Spec => []ModelSeesEveryAnswer` |
| `WorkflowRunProofs` | `TypesAreCorrect` | `Spec => []TypeOK` |
| | `RegistryIsSafe` | `Spec => []RegistryFollowsRuns` |
| | `CancelIsSafe` | `Spec => []CancelIsHonoured` |
| | `StoreIsSafe` | `Spec => []StoreIsTruthful` |
| | `OutcomeIsKept` | `Spec => []OutcomeIsStored` |
| | `PollingNeverGoesBack` | `Spec => PolledStatusAdvances` |
| | `WorkflowImplementsLifecycle` | initial states and steps map to `RunLifecycle` |
| `TeamRunProofs` | `TypesAreCorrect` | `Spec => []TypeOK` |
| | `RegistryIsSafe` | `Spec => []RegistryFollowsRuns` |
| | `CancelIsSafe` | `Spec => []CancelIsHonoured` |
| | `MembersAreSafe` | `Spec => []MembersAreRecorded` |
| | `NobodyIsLeft` | `Spec => []NoMemberIsLeft` |
| | `StateIsSafe` | `Spec => []StateKeepsWrites` |
| | `TeamImplementsLifecycle` | `Spec => ImplementsLifecycle` |
| `RailwayApiClientProofs` | `ExecuteAccounts` | `ClientSpec => []OutcomeIsAccounted` |
| `InstallPlanProofs` | `CreatePlanHoldsAll` | `Spec => []CreatePlanIsExact` |
| | `DeletePlanIsContentsFirst` | `Spec => []ContentsAreDeletedFirst` |
| `RailwayDeploymentProofs` | `DeploymentTypes` | `Spec => []TypeOK` |
| | `NamesAreResolved` | `Spec => []TemplatesAreResolved` |
| | `NoSecondProject` | `Spec => []OneProjectPerApp` |
| | `DeletedMeansNothingLeft` | `Spec => []DeleteCountIsHonest` |
| | `CreatedMeansAllExists` | for one app, `Spec => []CreateCountIsHonest` |
| `WorkflowStepsProofs` | `TypesAreCorrect` | `Spec => []TypeOK` |
| | `NobodyIsOrphaned` | `Spec => []NoOrphanStep` |
| | `StopIsTheLast` | `Spec => StopEndsItsSequence` |
| | `NoFailureIsLost` | `Spec => []FailuresAreReported` |
| | `LoneWriteIsKept` | `Spec => []LoneWriteSurvives` |
| | `LastChangeWins`, `LoneChangeSurvives`, `MergeInventsNothing` | what `MergeParallel` makes of any number of branches and any nesting |

*Agent runs.* `TypeOK` alone is not inductive: `attempt + 1` stays in range only
because the backoff is entered with an attempt left (`BackoffInv`). For the
registry and the cancel contract the inductive invariant is `IInv`, a
conjunction over runs of four parts that hold at one run: `RegistryInv` (who is
tracked where), `StatusInv` (which status goes with which point and exit),
`FlagInv` (a set flag was acknowledged in this attempt) and `LateInv` (what an
acknowledgement means for the point reached since). `CancelIsHonoured` needs
all four: that no check was passed since the acknowledgement follows from the
flag being still set, which follows from the registration not being repeated.
`OtherRuns` says that a step of one run changes nothing of `IInv` at another.
`MemoryInv` says where the task of which attempt may be pending.

`FlagInv` speaks of acknowledgements since the registration, not since the call: a
continuation may come upon the entry of a call that failed before its try.

For the store, `SerialInv` adds that with one call at a time the copy of the
run in flight is the stored session, and that the row says of a run what the call that
returned has reported, from the point `stored` on. It is about one call at a time
because a run may be continued after it has ended: a copy from before that can then
take the older outcome back. The refinement is by cases on the actions
(`PhaseSteps`), and needs `IInv` for the condition that a run ends cancelled
only after a request.

*Tool calls.* A run has three RunOutputs, and any of them may become the one it
goes on with; so `CallInv` is claimed of each: an open question has no message, a
message is the only one, and only the client confirms. That an answer is not
given twice follows from `LoopInv`, which is about the local variables of the
loop: a call that is still to be handled, or has its result there, has neither
message nor question (`InHand`). The two are inductive only together
(`CallsInv`). The limit has an invariant of its own, `LimitInv`, which counts the
executed calls by their place in the answer while it is handled and by their
results at its end.

What the model is told of a call is the truth by `TruthInv`: as long as no stream
was broken off and no continuation was `Forgetful`, a call that waits for the user
or is still to be handled was not executed, and every answer is true.
`BaseInv` is its other half: the object the next continuation starts with knows
all that was done. The same invariant gives `NoSecondExecution`.
`ModelSeesEveryAnswer` follows from `WholeInv`: every call of each of the three
objects is answered, is still a question, or is in the hands of the loop. The
run has two continuations, the theorems any number of them; it was the proof
that showed which history the properties have to except from the third one on.

*Workflow runs.* `RunInv` has the same form as `IInv`: `RegistryInv`, `PathInv`
and `FlagInv` at one run, and `OtherRuns` for the steps of the others. `StoreInv`
claims the truth of the row, of every copy and of every first copy, and `OwnInv`
that a run is "own" only in its own copy. That the outcome is in the store, and
that polling never goes back, holds as long as nobody disturbs (`disturbed`): then
at most one run is in flight (`Solo`), `RowInv` says what the row has of a run at
each point of it, and `CopyInv` that every copy is the row but for its own entry.

*Teams.* `IInv` has a part for each thing a team run keeps. `ControlInv` and
`FlagInv` are about the leader, as `RegistryInv` and `FlagInv` of `AgentRun`.
`MemberInv` is claimed of every task: its function, the member's run and what is
stored of it go together, so that what is in the session is what members have
answered (`StoreInv` for the row); `CutInv` that at most one answer was cut off, and only in
a synchronous stream that is cancelled. `OrphanInv` says whom the leader has left at
work and how it must have ended then. For the refinement `CauseInv` says that a
team about to be cancelled has a request of its own or an exception of a
cancelled member, and `RaisedInv` that such a member was asked to stop: nothing
takes a request back (`NextRequested`), since a member's run begins without one.
The session state needs two more. `OrderInv` says that synchronous members work
in the order of their tasks, so one at a time (`OneAtATime`); `WriteInv` that
every value belongs to a writer of its key and that,
while a synchronous member works, the state is what its copy was made from (what
the member writes enters the copy as it ends). With that a merge of the
whole copy takes nothing back (`MergeKeepsWrites`). Concurrent members have no
such copy, and `StateKeepsWrites` promises less for them.

*Railway client.* `ExecutionInv`: as long as there is no outcome, every
execution goes with a lost answer; one that was executed and answered unusably ends the
call and counts among them.

*State merge.* Of the branches that changed an outer key there is a last one
(by well-founded induction on the order of the integers), it decides every path
under that key, and everything else is what it was.

*Workflow steps.* The theorems are about every tree. An argument about all nodes
below one is not made by recursion but by the topmost node for which it fails
(`HasTop`), or by `Under[n]` being the least set that is closed under children
(`UnderLeast`). `TypeOK` needs that the branches in the queue of a Parallel are
distinct, so that no more complete than there are (`NoMoreThan`). `ControlInv`
says who waits for whom: at one node `CallInv` (its parent runs, and which
session state it was given) and `QueueInv`, and `RootInv` for a run that was left;
`QuietBelow` follows, that nothing is at work inside a node that is over.
`OutputInv` says what the output of a node is while it runs, in particular that no
child but the current one has asked to stop (`RestInv`). `StopEndsItsSequence`
needs beside it `AskedInv`: in a sequence that was asked to stop the one who asked, or
a Parallel around it, has returned with a stop, and by the others that can only be
its current child. A failure is found by `FailureInv` on its way
upwards: some node around the one that failed says so, and nothing
says so that has no failure below it.
For `LoneWriteSurvives` the invariant is `WriteInv`, of a run that was not left.
While a step or a Parallel is at work, nobody else holds a copy of the
state it works on (`BaseIsOwn`): of two nodes that run on one state one is inside the
other (`OneAtWork`), and inside a Parallel nobody works on what the Parallel was given
(`OwnBelowParallel`). So a write goes to the one state that is `Nearest` to its step, and the
copies of other branches agree with what they were made from (`ValueInv`). At the join
one branch at most has another value, and wins (`LoneMerge`); this needs that no outer key
gets lost on the way (`KeepInv`). What a step finds in its shallow copy needs no
invariant: a stale value that it brings back counts as a write of its own.

*Install plan.* The loops are functions of the number of resources handled. That
such a function has a value at every number, and what a loop keeps, is shown by
first-order induction on the set of numbers for which it holds (`SetInduction`,
`Iterates`), since the induction theorems of the library take an operator. On it
rest what the loops compute: `AppendAllNew` extends a list without repeating
anything, deduplication keeps the order, `StableSort` sorts and loses nothing.
`CreatePlanFacts` and `DeletePlanFacts` put them together for every list of
resources, of any length.

*Railway deployment.* The plans are those of `InstallPlan` (`PlansAgree`,
`SameCreatePlan`), so that whatever was listed, projects are handled before
environments and these before services (`ProjectsComeFirst`). `TypeOK` needs that
a pass has a current resource while it lasts (`Running`). `FillInv`: where the id of a
project is known, every resource that refers to a project has one in place of the
template. `EnvironmentFillInv` says so of environments, where nothing is forced:
environments are created before services and variables (`EnvironmentsComeNext`). `ObjectsInv` says which objects of Railway go with
which ids, and `OneProjectInv` that the project an app has made is the one its
resource names, unless that id was lost; the project is created only when it
is missed. `DeleteInv` is about a program that `ForgetsNothing`: every project
that exists is named by its resource (`KnownInv`), nothing is forced unless such a call is made (`ForceInv`), and what
was counted as deleted is gone with its contents (`DeletedInv`).
`CreateInv` is about creations alone: what was counted exists (`CountedInv`),
which needs that ids name what they should (`IdsInv`), that variables stand for
their service which needs that ids name what they should (`IdsInv`), that variables stand for
their service (`VariablesInv`), that services and databases do not find each other
(`ServicesInv`, `NamesTellApart`), that a resource held for active is (`CachedInv`)

and that a missed one is not there under its name (`MissedInv`). The theorem is
about one app: with two, ids end in the resources of the other app, which
is what `railway_twoapps` shows.

Only model-checked. Liveness (the fairness part of `ImplementsLifecycle` of
agents and workflows, `TeamRunEnds`, `ExecuteEnds`, `WorkflowEnds`,
`PollingEnds`) is out of the prover's reach and rests on the instances above. Of the
safety properties that a passing run checks `CreateCountIsDeployed` is not proved; all
others are, three of them under the conditions the table names.

## What the code does and its documents do not say

Three disagreements are shown by runs and described in `PROJECT.json`. Others met
while reading and modelling, which no run shows, or which a property excepts by
name:

Agent runs

- `_continue_run_stream` never registers its run (agent.py:3070), the only one of
  the eight functions: it cannot be cancelled, though the endpoint promises
  "Cancel a currently executing agent run" (`os/router.py`:923).
- `_arun_stream` yields RunStarted (agent.py:2036) before it registers the run
  (2138): a client that cancels at the first event is told the run is unknown.
- An exception between `register_run` and the try statement leaves the registry
  entry behind for the life of the process (agent.py:947), though "Always clean
  up the run tracking" (1129). `RegistryFollowsRuns` allows exactly this.
- A retry overwrites a flag that was acknowledged (`register_run` at each
  attempt), and so does a continuation after one that failed before its try.
- Any run can be continued, not only a paused one: `continue_run` resets the
  status without a look at it (agent.py:2843), and a completed or cancelled run gets
  another outcome in the store.
- `_continue_run` handles the tool updates between `register_run` and the try
  statement (agent.py:2935-2940). When they fail, and the run is cancelled then, a
  later continuation by `_continue_run_stream` ends at once by that old flag.
- Ctrl-C during the telemetry after the store (agent.py:1103-1111, 3001-3009) makes
  `run()` return a cancelled run that the database has as completed.
- A streaming run whose consumer stops at the cancelled event is not stored
  (agent.py:1430-1440).

Tool calls

- `get_user_input` in a synchronous stream does not end the loop: the call is
  reported as paused (base.py:1596), but the flag the loop looks at is set only by
  the asynchronous functions (1750). "If we have any tool calls that require user
  input, break the loop" (986); the model is asked again, with the call open.
- StopAgentRun without a message does not stop the loop: the flag is set on the
  message of the result (base.py:103-105; `exceptions.py:42`), and the example
  cookbook/tools/other/stop_agent_exception.py:17 raises it with a text only.
- Neither it nor `stop_after_tool_call` stops a run whose call is executed by a
  continuation: `_handle_tool_call_updates` is followed by the model.
- "Maximum number of tool calls allowed." (agent.py:253): the count starts again
  in each continuation, and calls executed by one are not counted.
- A confirmed call whose stream was closed at its completed event is answered as
  rejected by the next continuation (agent.py:4447-4451), since it has a result.
- A continuation by run id after a failed one executes confirmed calls again; the
  ToolExecution in the database does not know they were run (`Forgetful`).
- A confirmation nobody decided counts as a rejection.
- A stream ends without the model's last word when a call of a function that
  needs the user is over the limit: its flags are looked at, not its outcome
  (`BreaksForUser`).

Teams

- Every member gets a copy of the session state and the whole copy is merged back
  (team.py:6932), with the keys it has not touched: what one of two concurrent
  members wrote is undone when the other ends. "Teams can maintain shared state
  that persists across interactions" (cookbook/teams/state/README.md:18).
- `run_member_agent` and `stream_member` hand the loop variable `member_agent` of
  the function around them to `_process_delegate_task_to_member` (team.py:7436,
  7368): concurrent members are all credited to the last one, and "scrub the
  member run based on that member's storage flags" (6919) takes another's flags.
- "Ensure tasks do not leak on cancellation" (team.py:7391): the generator with
  this finally is consumed by a task of the model loop (base.py:1907) that nobody
  cancels when the leader ends, so members go on working after a cancelled run.
- `_arun` registers its run twice (team.py:2061, 2157); a cancel acknowledged in
  between is forgotten, and the run completes (`os/router.py`:1307).
- `arun()` without a stream retries nothing: the coroutine is awaited outside of
  the loop that catches ModelProviderError (team.py:2804); streams are the same
  (2787, 1954).
- A cancel of the leader is not passed on to its members, and a cancel of one
  member cancels a leader that delegated to it alone (`check_if_run_cancelled`,
  team.py:7000), with whatever the other members have answered.
- A member that pauses while it streams gives no final response, and a stream
  that delegated to it ends with an AttributeError (team.py:6898).
- `self.stream = self.stream or stream` (team.py:1904): after one call with a
  stream the members of later calls without one stream as well.
- A retry delegates again, and the members' runs of the failed attempt remain in
  the session.
- The answer of a member is lost when the leader is cancelled at the member's last
  event (`CutOff`): the member is completed, and the team run stored without it.

Workflows

- A step of a `Steps` sequence that asks to stop ends this sequence only: the
  output of the sequence has no `stop` (workflow/steps.py:185), and the workflow
  goes on. "Won't execute if pipeline stopped"
  (`early_stop_workflow_with_steps.py`:90), "Any step can trigger early
  termination" (cookbook/workflows/README.md:506).
- `has_completed` is true of completed and failed runs only (run/workflow.py:708),
  so the loop of cookbook/workflows/README.md:866 never ends for a cancelled run.
- `merge_parallel_session_states` compares outer keys (utils/merge_dict.py:36): of
  two branches that write into one inner dictionary the last one undoes the other,
  though "This prevents parallel steps from overwriting each other's changes" (26).
- WorkflowCompletedEvent follows the cancelled event and a failed validation.
- `_aexecute` raises an error of a step without storing the run or cleaning the
  registry; a callable in place of steps is neither stored nor cleaned up by
  `_execute`.
- An empty list of steps never looks at the cancellation flag; `TooLate` excepts
  it, which the proof of `CancelIsHonoured` asked for. Nor is the flag looked at after
  a last step that yields nothing: a Condition that is not met (workflow/condition.py:324),
  a Router that selects nothing (workflow/router.py:309).
- A workflow agent in the background is never awaited (workflow/workflow.py:2316):
  the run stays "running" in the store.
- `aget_run` calls `db.aget_session` (2479), which no asynchronous database has.
- A streaming background run stores neither its pending state nor its error: the
  run is not in the copy that is saved.

Railway

- Dependencies of dependencies may be created too late (resources.py:203), and
  deletion ignores depends_on (resources.py:416), though "Delete Railway
  resources in reverse dependency order" (railway/README.md:429).
- A variable collection is never created: reading it answers a dictionary, which
  is not None (railway/resource/variable.py:157). `CreateCountIsHonest` excepts it
  by name.
- "If resources already exist, Railway will return the existing resource."
  (railway/README.md:505): a project is looked up only by an id that is lost with
  the process (railway/resource/project.py:25), so a second run of the program
  creates it again.
- `force` is sticky (resources.py:273), its deletion is not looked at
  (railway/resource/base.py:119), and after it the later resources keep the
  ids of what was deleted (resources.py:288).
- A deployment that fails is a warning in the log (railway/resource/service.py:162),
  and so is a variable of a database (railway/resource/postgres.py:177): the next
  call finds the service by its name and counts "n of n" for what was never deployed.
- A database with the name of its app takes the app's service for itself, or the
  service the database, since both are looked up by name among the services of the
  project (railway/resource/service.py:65, railway/resource/postgres.py:65).
- A 200 answer that is no JSON is not handled (railway/api_client.py:93), and errors
  beside data count as a failure although the mutation was executed (96-99).
- Service ids of variables are never resolved (railway/app/base.py:129).

## Not modelled, and plan

Not modelled, by choice: providers, database and vector back ends, concrete
tools, interfaces, evaluation, CLI (adapters and input/output without state of
their own worth checking). Left out of the modelled parts: what the model says,
message building, reasoning, event formatting, session summaries, filters and
flags of resources, the rate limit of project creation, dry runs; what steps read
of earlier outputs, media, workflow sessions' names and metrics, the workflow
agent but for the case named above, the fields of a form; of teams: sub-teams,
inner dictionaries of the session state, history, shared interactions, media,
`respond_directly` (the model is always asked once more), errors of the database.

Next, in this order:

1. `CachedSession`: the session object shared by overlapping runs; what
   `cache_session` adds to and takes from `StoredRunsPersist`.
2. `McpLifecycle`: connect and disconnect by concurrent runs.
3. The WebSocket manager of AgentOS, and delivery of background runs to it.
4. Teams in teams, database errors and inner dictionaries in `TeamRun`.
5. Filters and app dependencies in `InstallPlan`; the Docker and AWS loops,
   which are copies of the Railway one.
