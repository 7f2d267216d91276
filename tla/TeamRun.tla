------------------------------- MODULE TeamRun -------------------------------
(***************************************************************************)
(* One run of a team (agno/team/team.py): the leader's function, the       *)
(* registry of its cancellations, the members it delegates tasks to, and   *)
(* what comes back from them: their runs, kept in the session of the team, *)
(* and their changes of the session state.                                 *)
(*                                                                         *)
(* A task is one call of a member.  The member's run is not modelled again *)
(* but taken by its contract, RunLifecycle, which AgentRun implements.     *)
(* Members of a team are given a copy of the session state, and do not     *)
(* store their runs themselves.                                            *)
(***************************************************************************)
EXTENDS Integers, FiniteSets

CONSTANTS TaskCount,     \* bound: so many tasks are delegated
          MemberCount,   \* so many members get a task that is for all members
          EntryPoints,   \* the functions that execute the run
          ToAllChoices,  \* may delegate_task_to_all_members be set, and unset?
          StickyChoices, \* has an earlier call set self.stream?
          MaxRetries,    \* retries of a model error
          Keys,          \* keys of the session state
          InitialKeys,   \* those that are there from the beginning
          Absent         \* marks a key without a value

AllFunctions == {"_run", "_run_stream", "_arun", "_arun_stream"}

Streaming == {"_run_stream", "_arun_stream"}

Async == {"_arun", "_arun_stream"}

\* run() retries, but the exceptions of a generator or a coroutine are raised
\* when it is outside of the loop.
Retrying == {"_run"}

RegistersOnEntry == {"_run", "_run_stream", "_arun"}

\* _arun registers the run twice.
RegistersBeforeTry == {"_arun", "_arun_stream"}

ASSUME CountsAssumption ==
    TaskCount \in Nat /\ MemberCount \in Nat \ {0} /\ MaxRetries \in Nat
ASSUME EntryPointsAssumption == EntryPoints \subseteq AllFunctions
ASSUME ChoicesAssumption ==
    ToAllChoices \subseteq BOOLEAN /\ StickyChoices \subseteq BOOLEAN
ASSUME KeysAssumption == InitialKeys \subseteq Keys
ASSUME AbsentAssumption == Absent \notin Int

Tasks == 1 .. TaskCount

Leader == "leader"

----------------------------------------------------------------------------
VARIABLES
    cancelledRuns,  \* the registry of RunCancellation: the leader's entry
    function,       \* the function that executes the run
    toAll,          \* Team.delegate_task_to_all_members
    streamed,       \* self.stream: do the members stream?
    pc,             \* where the leader is
    status,         \* TeamRunOutput.status
    attempt,        \* the iteration of the retry loop
    exit,           \* how the call left the function
    asked,          \* the tasks so far are 1 .. asked
    batch,          \* those of the delegation the leader is in
    delegation,     \* per task, how far the code around the member's run is
    raised,         \* per task, the exception that code has raised
    phase,          \* per task, the member's run, as in RunLifecycle
    requested,      \* per task, was a cancel of the member's run acknowledged?
    state,          \* run_context.session_state
    copy,           \* per task, the copy the member works on
    runs,           \* the members' runs in the team's session
    db,             \* the session row: the team's status, the members' runs
    written,        \* history: per task, the keys whose new values were merged
    orphans,        \* history: tasks at work when the leader went on without them
    acked,          \* history: has cancel_run answered True for the leader?
    interrupted     \* history: has Ctrl-C hit a member's run?

leaderVars == <<function, toAll, streamed, pc, status, attempt, exit>>
taskVars == <<asked, batch>>
memberVars == <<delegation, raised, phase, requested, copy>>
sessionVars == <<state, runs, db>>
historyVars == <<written, orphans, acked, interrupted>>
vars == <<cancelledRuns, leaderVars, taskVars, memberVars, sessionVars, historyVars>>

Cancellation == INSTANCE RunCancellation WITH RunIds <- {Leader}

Members == INSTANCE RunLifecycle WITH
    RunIds <- Tasks, Resumable <- {}

\* The value a key gets from task t is t.
Values == 0 .. TaskCount

Merge == INSTANCE SessionStateMerge WITH
    Nested <- {}, TopKey <- [k \in Keys |-> k]

InitialState == [k \in Keys |-> IF k \in InitialKeys THEN 0 ELSE Absent]

\* The statements of the try statement.
TryPoints == {"entry", "before_model", "model", "delegating", "after_model",
              "hooks", "memory", "summary", "storing", "cancelling",
              "cancel_event"}

Points == TryPoints \cup {"idle", "called", "setup", "finally", "backoff", "ended"}

Exceptions == {"cancelled", "provider", "error"}

Acks == {"none", "in time", "late", "dropped"}

TypeOK ==
    /\ Cancellation!CancellationTypeOK
    /\ function \in AllFunctions
    /\ {toAll, streamed, interrupted} \subseteq BOOLEAN
    /\ pc \in Points
    /\ status \in {"running", "completed", "cancelled"}
    /\ attempt \in 0 .. MaxRetries
    /\ exit \in {"none", "return", "setup", "abandon", "provider", "error"}
    /\ asked \in 0 .. TaskCount
    /\ batch \subseteq 1 .. asked
    /\ delegation \in [Tasks -> {"none", "waiting", "running", "told", "over", "cut"}]
    /\ raised \in [Tasks -> Exceptions \cup {"none"}]
    /\ phase \in [Tasks -> Members!Phases]
    /\ requested \in [Tasks -> BOOLEAN]
    /\ state \in Merge!States
    /\ copy \in [Tasks -> Merge!States]
    /\ runs \subseteq 1 .. asked
    /\ db \in [status : {"none", "completed", "cancelled"}, members : SUBSET runs]
    /\ written \in [Tasks -> SUBSET Keys]
    /\ orphans \subseteq 1 .. asked
    /\ acked \in Acks

Init ==
    /\ Cancellation!CancellationInit
    /\ Members!LifecycleInit
    /\ function = "_run"
    /\ toAll \in ToAllChoices
    /\ streamed \in StickyChoices
    /\ pc = "idle"
    /\ status = "running"
    /\ attempt = 0
    /\ exit = "none"
    /\ asked = 0
    /\ batch = {}
    /\ delegation = [t \in Tasks |-> "none"]
    /\ raised = [t \in Tasks |-> "none"]
    /\ state = InitialState
    /\ copy = [t \in Tasks |-> InitialState]
    /\ runs = {}
    /\ db = [status |-> "none", members |-> {}]
    /\ written = [t \in Tasks |-> {}]
    /\ orphans = {}
    /\ acked = "none"
    /\ interrupted = FALSE

Goto(point) == pc' = point

IsAsync == function \in Async

\* register_run forgets a cancel that was acknowledged before.
RegisterRun ==
    /\ Cancellation!RegisterRun(Leader)
    /\ acked' = IF acked = "in time" THEN "dropped" ELSE acked

----------------------------------------------------------------------------
(* The call.                                                               *)

\* run() or arun(), which write the stream argument back into the team.
Call ==
    /\ pc = "idle"
    /\ function' \in EntryPoints
    /\ streamed' = (streamed \/ function' \in Streaming)
    /\ Goto("called")
    /\ UNCHANGED <<cancelledRuns, toAll, status, attempt, exit, taskVars,
                   memberVars, sessionVars, historyVars>>

Begin ==
    /\ pc = "called"
    /\ Goto("setup")
    /\ IF function \in RegistersOnEntry
       THEN RegisterRun
       ELSE UNCHANGED <<cancelledRuns, acked>>
    /\ UNCHANGED <<function, toAll, streamed, status, attempt, exit, taskVars,
                   memberVars, sessionVars, written, orphans, interrupted>>

\* Hooks, tools and messages are ready: submit the memory task, enter the try.
SetupDone ==
    /\ pc = "setup"
    /\ Goto("entry")
    /\ IF function \in RegistersBeforeTry
       THEN RegisterRun
       ELSE UNCHANGED <<cancelledRuns, acked>>
    /\ UNCHANGED <<function, toAll, streamed, status, attempt, exit, taskVars,
                   memberVars, sessionVars, written, orphans, interrupted>>

\* Before the try statement: the exception does not pass the finally.
SetupFails ==
    /\ pc = "setup"
    /\ Goto("ended")
    /\ exit' = "setup"
    /\ UNCHANGED <<cancelledRuns, function, toAll, streamed, status, attempt,
                   taskVars, memberVars, sessionVars, historyVars>>

----------------------------------------------------------------------------
(* The try statement of the leader.                                        *)

\* The handler of RunCancelledException; a stream first tells its consumer.
Cancelled ==
    /\ status' = "cancelled"
    /\ Goto(IF function \in Streaming THEN "cancel_event" ELSE "cancelling")

\* Where the leader calls raise_if_cancelled, and what comes next.
After == [entry |-> "before_model", before_model |-> "model",
          after_model |-> "hooks", hooks |-> "memory", memory |-> "summary",
          summary |-> "storing"]

\* Mutant: no look after the summary.
LooksBeforeSummary == (DOMAIN After \ {"summary"})
                          \ (IF function = "_arun_stream" THEN {"entry"} ELSE {})

\* _arun_stream looks first when the reasoning is over.
Looks == DOMAIN After \ (IF function = "_arun_stream" THEN {"entry"} ELSE {})

\* raise_if_cancelled, and the statements up to the next look: the reasoning,
\* the output and parser models, the post-hooks, the wait for the memory task,
\* the summary.  A failed summary or memory task is only logged.
Look ==
    /\ pc \in DOMAIN After
    /\ IF pc \in Looks /\ Cancellation!IsCancelled(Leader)
       THEN Cancelled
       ELSE Goto(After[pc]) /\ status' = status
    /\ UNCHANGED <<cancelledRuns, function, toAll, streamed, attempt, exit,
                   taskVars, memberVars, sessionVars, historyVars>>

\* Streams look at the flag at every event of the model, its members' events
\* and the results of its tool calls included.
Responds(next) ==
    IF function \in Streaming /\ Cancellation!IsCancelled(Leader)
    THEN Cancelled
    ELSE Goto(next) /\ status' = status

\* The model answers without a tool call.
ModelAnswers ==
    /\ pc = "model"
    /\ Responds("after_model")
    /\ UNCHANGED <<cancelledRuns, function, toAll, streamed, attempt, exit,
                   taskVars, memberVars, sessionVars, historyVars>>

\* The model calls delegate_task_to_member once or several times, or
\* delegate_task_to_members once, and a stream tells it.
Delegate ==
    /\ pc = "model"
    /\ ~(function \in Streaming /\ Cancellation!IsCancelled(Leader))
    /\ \E n \in IF toAll THEN {MemberCount} ELSE 1 .. TaskCount :
            /\ asked + n <= TaskCount
            /\ asked' = asked + n
    /\ batch' = asked + 1 .. asked'
    /\ delegation' = [t \in Tasks |-> IF t \in batch' THEN "waiting" ELSE delegation[t]]
    /\ Goto("delegating")
    /\ UNCHANGED <<cancelledRuns, function, toAll, streamed, status, attempt,
                   exit, raised, phase, requested, copy, sessionVars, historyVars>>

Raised == {t \in batch : raised[t] # "none"}

AllOver == \A t \in batch : delegation[t] = "over"

\* The first task of a set, as a set.
First(S) == {t \in S : \A u \in S : t <= u}

\* Mutant: the first member that has reported is taken for the last.
AnyReported == Raised = {} /\ \E t \in batch : delegation[t] = "over"

\* Has every member reported?  A streaming worker that raises does not.
AllReported == AllOver /\ Raised = {}

\* Mutant: the exception of a generator that is awaited in a task is lost.
SurfacingIfSynchronous == IF ~IsAsync THEN Raised ELSE {}

\* The members whose exception the leader sees next.  Generators of several
\* calls are all awaited; gather() raises at once; streaming workers keep their
\* exceptions to themselves.
Surfacing ==
    IF ~IsAsync \/ (toAll /\ ~streamed) THEN Raised
    ELSE IF toAll \/ ~AllOver \/ Raised = {} THEN {}
    ELSE First(Raised)

\* The leader leaves the delegation.  What was still at work in the event loop
\* goes on; generators of synchronous functions are closed.
AtWork == {t \in batch : delegation[t] \in {"waiting", "running", "told"}}

LeaveDelegation ==
    /\ batch' = {}
    /\ IF IsAsync
       THEN /\ orphans' = orphans \cup AtWork
            /\ UNCHANGED memberVars
       ELSE /\ phase' = [t \in Tasks |->
                            IF t \in AtWork /\ phase[t] = "running"
                            THEN "failed" ELSE phase[t]]
            /\ delegation' = [t \in Tasks |->
                                 IF t \notin AtWork THEN delegation[t]
                                 ELSE IF delegation[t] = "told" THEN "cut" ELSE "over"]
            /\ copy' = [t \in Tasks |->
                           IF t \in AtWork THEN InitialState ELSE copy[t]]
            /\ UNCHANGED <<raised, requested, orphans>>

\* The results are added to the messages, and the model is asked again.
DelegationDone ==
    /\ pc = "delegating"
    /\ AllReported
    /\ Responds("model")
    /\ LeaveDelegation
    /\ UNCHANGED <<cancelledRuns, function, toAll, streamed, attempt, exit,
                   asked, sessionVars, written, acked, interrupted>>

\* Mutant: whatever a member raises is taken for a cancel.
DelegationRaisesCancelled ==
    /\ pc = "delegating"
    /\ Surfacing # {}
    /\ Cancelled
    /\ LeaveDelegation
    /\ UNCHANGED <<cancelledRuns, function, toAll, streamed, attempt, exit,
                   asked, sessionVars, written, acked, interrupted>>

\* The exception of a member is raised in the leader.
DelegationRaises ==
    /\ pc = "delegating"
    /\ \E t \in Surfacing :
            IF raised[t] = "cancelled"
            THEN Cancelled /\ exit' = exit
            ELSE exit' = raised[t] /\ status' = status /\ Goto("finally")
    /\ LeaveDelegation
    /\ UNCHANGED <<cancelledRuns, function, toAll, streamed, attempt, asked,
                   sessionVars, written, acked, interrupted>>

\* A stream looks at the flag at an event of a member.
CancelledWhileDelegating ==
    /\ pc = "delegating"
    /\ function \in Streaming
    /\ Cancellation!IsCancelled(Leader)
    /\ \E t \in batch : delegation[t] # "waiting"
    /\ Cancelled
    /\ LeaveDelegation
    /\ UNCHANGED <<cancelledRuns, function, toAll, streamed, attempt, exit,
                   asked, sessionVars, written, acked, interrupted>>

\* An exception of the reasoning, of a model or of a post-hook.
StepFails ==
    /\ pc \in {"before_model", "model", "hooks"}
    /\ exit' \in {"provider", "error"}
    /\ Goto("finally")
    /\ UNCHANGED <<cancelledRuns, function, toAll, streamed, status, attempt,
                   taskVars, memberVars, sessionVars, historyVars>>

----------------------------------------------------------------------------
(* The end of the leader.                                                  *)

\* Mutant: only the runs of the members that a run returned completed with are
\* stored.
StoreWithoutMembers(outcome) ==
    /\ status' = outcome
    /\ db' = [status |-> outcome, members |-> IF outcome = "completed" THEN runs ELSE {}]
    /\ exit' = "return"
    /\ Goto("finally")
    /\ UNCHANGED <<cancelledRuns, function, toAll, streamed, attempt, taskVars,
                   memberVars, state, runs, historyVars>>

\* _cleanup_and_store: the session is saved with the runs of its members.
CleanupAndStore(outcome) ==
    /\ status' = outcome
    /\ db' = [status |-> outcome, members |-> runs]
    /\ exit' = "return"
    /\ Goto("finally")
    /\ UNCHANGED <<cancelledRuns, function, toAll, streamed, attempt, taskVars,
                   memberVars, state, runs, historyVars>>

Complete == pc = "storing" /\ CleanupAndStore("completed")

StoreCancelled == pc \in {"cancelling", "cancel_event"} /\ CleanupAndStore("cancelled")

\* The next attempt, if the retry loop sees the error and has one left.
Retries == exit = "provider" /\ function \in Retrying /\ attempt < MaxRetries

Finally ==
    /\ pc = "finally"
    /\ Cancellation!CleanupRun(Leader)
    /\ Goto(IF Retries THEN "backoff" ELSE "ended")
    /\ UNCHANGED <<function, toAll, streamed, status, attempt, exit, taskVars,
                   memberVars, sessionVars, historyVars>>

\* The next attempt works on the same session and the same session state.
Backoff ==
    /\ pc = "backoff"
    /\ Goto("called")
    /\ attempt' = attempt + 1
    /\ exit' = "none"
    /\ UNCHANGED <<cancelledRuns, function, toAll, streamed, status, taskVars,
                   memberVars, sessionVars, historyVars>>

----------------------------------------------------------------------------
(* The members.                                                            *)

\* Synchronous delegations are executed one after the other; asynchronous ones
\* start when the event loop gets to them, even if the leader has gone.
MayStart(t) ==
    /\ delegation[t] = "waiting"
    /\ IsAsync \/ \A u \in batch : u < t => delegation[u] = "over" /\ raised[u] = "none"

\* Mutant: the copy is made once, at the beginning of the run.
StartMemberOnOldCopy(t) ==
    /\ MayStart(t)
    /\ Members!Begin(t)
    /\ delegation' = [delegation EXCEPT ![t] = "running"]
    /\ copy' = copy
    /\ UNCHANGED <<cancelledRuns, leaderVars, taskVars, raised, sessionVars, historyVars>>

\* The member gets a copy of the session state, and its run begins.
StartMember(t) ==
    /\ MayStart(t)
    /\ Members!Begin(t)
    /\ delegation' = [delegation EXCEPT ![t] = "running"]
    /\ copy' = [copy EXCEPT ![t] = state]
    /\ UNCHANGED <<cancelledRuns, leaderVars, taskVars, raised, sessionVars, historyVars>>

\* What check_if_run_cancelled and the member's run raise.  A member that
\* streams ends a paused run without a final response, whose id is looked for
\* if the leader streams, too.
Raises(outcome) ==
    CASE outcome = "cancelled" -> {"cancelled"}
      [] outcome = "failed" -> {"provider", "error"}
      [] outcome = "paused" /\ function \in Streaming /\ ~toAll -> {"error"}
      [] OTHER -> {"none"}

\* Is there a final response to keep?
HasResponse(outcome) ==
    outcome = "completed" \/ (outcome = "paused" /\ ~streamed)

\* Is the result processed although the member has raised?
ProcessesAlways == toAll /\ IsAsync /\ streamed

\* check_if_run_cancelled and _process_delegate_task_to_member: the run of the
\* member is kept in the team's session, and its copy of the state merged back.
Process(t, outcome, result) ==
    /\ delegation' = [delegation EXCEPT ![t] = "over"]
    /\ copy' = [copy EXCEPT ![t] = InitialState]
    /\ \E exception \in Raises(outcome) :
            /\ raised' = [raised EXCEPT ![t] = exception]
            /\ runs' = IF exception = "none" /\ HasResponse(outcome)
                       THEN runs \cup {t} ELSE runs
            /\ IF exception = "none" \/ ProcessesAlways
               THEN /\ state' = Merge!MergeDictionaries(state, result)
                    /\ written' = [written EXCEPT ![t] = {k \in Keys : result[k] = t}]
               ELSE UNCHANGED <<state, written>>

\* The copy of the member, after it has written some keys.
Result(t, W) == [k \in Keys |-> IF k \in W THEN t ELSE copy[t][k]]

\* The member's run ends, and its delegation does the rest without another await.
MemberEnds(t) ==
    /\ delegation[t] = "running"
    /\ Members!Stop(t)
    /\ \E W \in SUBSET Keys : Process(t, phase'[t], Result(t, W))
    /\ UNCHANGED <<cancelledRuns, leaderVars, taskVars, db, orphans, acked, interrupted>>

\* With stream_events a member of a synchronous stream first tells that it has
\* completed or paused: the event goes up to the leader, which looks at its flag.
MemberTells(t) ==
    /\ function = "_run_stream"
    /\ delegation[t] = "running"
    /\ Members!Stop(t)
    /\ phase'[t] \in {"completed", "paused"}
    /\ delegation' = [delegation EXCEPT ![t] = "told"]
    /\ \E W \in SUBSET Keys : copy' = [copy EXCEPT ![t] = Result(t, W)]
    /\ UNCHANGED <<cancelledRuns, leaderVars, taskVars, raised, sessionVars, historyVars>>

\* The delegation is resumed after the event.
MemberRecorded(t) ==
    /\ delegation[t] = "told"
    /\ Process(t, phase[t], copy[t])
    /\ UNCHANGED <<cancelledRuns, leaderVars, taskVars, phase, requested, db,
                   orphans, acked, interrupted>>

\* Ctrl-C in a synchronous member: its run() returns a cancelled run.
InterruptMember(t) ==
    /\ delegation[t] = "running"
    /\ function = "_run" /\ ~streamed
    /\ phase' = [phase EXCEPT ![t] = "failed"]
    /\ delegation' = [delegation EXCEPT ![t] = "over"]
    /\ raised' = [raised EXCEPT ![t] = "cancelled"]
    /\ copy' = [copy EXCEPT ![t] = InitialState]
    /\ interrupted' = TRUE
    /\ UNCHANGED <<cancelledRuns, leaderVars, taskVars, requested, sessionVars,
                   written, orphans, acked>>

----------------------------------------------------------------------------
(* The other actors.                                                       *)

\* A client cancels the run of a member; one that is over is not known any more.
CancelMember(t) ==
    /\ phase[t] = "running" \/ delegation[t] = "told"
    /\ ~requested[t]
    /\ Members!Request(t)
    /\ UNCHANGED <<cancelledRuns, leaderVars, taskVars, delegation, raised,
                   copy, sessionVars, historyVars>>

\* After the last look.
TooLate == pc \in {"storing", "cancelling", "cancel_event", "finally", "ended"}

\* A client cancels the run of the team; its members are not told.
CancelRequest ==
    /\ pc # "idle"
    /\ Cancellation!CancelRun(Leader)
    /\ acked' = IF ~Cancellation!Tracked(Leader) THEN acked
                ELSE IF ~TooLate THEN "in time"
                ELSE IF acked = "none" THEN "late" ELSE acked
    /\ UNCHANGED <<leaderVars, taskVars, memberVars, sessionVars, written,
                   orphans, interrupted>>

\* Ctrl-C, a cancelled asyncio task, or a consumer that closes the stream where
\* it yields.  Only run() catches the KeyboardInterrupt.
AbandonPoints ==
    {"setup", "entry", "before_model", "model", "delegating", "hooks", "memory", "summary"}
        \cup (IF function = "_run" THEN {"backoff", "cancelling"} ELSE {"called"})
        \cup (IF function = "_arun" THEN {"cancelling"} ELSE {})
        \cup (IF function \in Streaming THEN {"cancel_event"} ELSE {})
        \cup (IF IsAsync THEN {"storing"} ELSE {})

Abandon ==
    /\ pc \in AbandonPoints
    /\ Goto(IF pc \in TryPoints THEN "finally" ELSE "ended")
    /\ exit' = "abandon"
    /\ status' = IF function = "_run" THEN "cancelled" ELSE status
    /\ IF pc = "delegating"
       THEN LeaveDelegation
       ELSE UNCHANGED <<batch, memberVars, orphans>>
    /\ UNCHANGED <<cancelledRuns, function, toAll, streamed, attempt, asked,
                   sessionVars, written, acked, interrupted>>

----------------------------------------------------------------------------
LeaderStep ==
    \/ Begin \/ SetupDone \/ SetupFails \/ Look \/ ModelAnswers \/ Delegate
    \/ DelegationDone \/ DelegationRaises \/ StepFails
    \/ Complete \/ StoreCancelled \/ Finally \/ Backoff

MemberStep(t) ==
    StartMember(t) \/ MemberEnds(t) \/ MemberTells(t) \/ MemberRecorded(t)

ClientStep ==
    \/ Call \/ CancelRequest \/ Abandon \/ CancelledWhileDelegating
    \/ \E t \in Tasks : CancelMember(t) \/ InterruptMember(t)

Next == LeaderStep \/ ClientStep \/ \E t \in Tasks : MemberStep(t)

\* Models and hooks answer, the event loop gets to every task, members' runs
\* end, and who consumes a stream takes the next event or closes it.  Whether
\* another event comes after a cancel is left open.
Fairness == WF_vars(LeaderStep) /\ \A t \in Tasks : WF_vars(MemberStep(t))

Spec == Init /\ [][Next]_vars

FairSpec == Spec /\ Fairness

----------------------------------------------------------------------------
(* Safety.                                                                 *)

\* From the beginning of the try statement to its end the run of the team can
\* be cancelled; between two attempts it cannot; and the registry keeps only
\* the runs that were left before the try statement.
RegistryFollowsRuns ==
    /\ pc \in TryPoints => Cancellation!Tracked(Leader)
    /\ pc \in {"idle", "called", "backoff"} => ~Cancellation!Tracked(Leader)
    /\ pc = "ended" /\ Cancellation!Tracked(Leader) => exit \in {"setup", "abandon"}

\* A team run that returned completed had no acknowledged cancel left, except
\* one that came after the last look, or one that a second registration had
\* overwritten.
CancelIsHonoured ==
    exit = "return" /\ status = "completed" => acked # "in time"

\* The members whose run was over when the leader was stopped by their event.
CutOff == {t \in Tasks : delegation[t] = "cut"}

\* A stored team run has with it exactly the responses of its members, of all
\* its attempts: none is there of a member that did not answer, and none is lost
\* because the team was cancelled, but that of members the team went on without
\* and, in a synchronous stream that is stored as cancelled, that of the one
\* member whose last event the leader was looking at.
MembersAreRecorded ==
    db.status # "none" =>
        /\ db.members \subseteq {t \in Tasks : HasResponse(phase[t])}
        /\ {t \in Tasks : phase[t] = "completed"}
              \subseteq db.members \cup orphans \cup CutOff
        /\ CutOff # {} => function = "_run_stream" /\ db.status = "cancelled"
        /\ \A t, u \in CutOff : t = u

\* A team run that returned completed leaves no member at work, whatever
\* happened before, and neither does a synchronous one however it ends, nor one
\* whose model asks members one by one and that is neither cancelled nor left.
NoMemberIsLeft ==
    /\ pc = "ended" /\ exit = "return" /\ status = "completed" => orphans = {}
    /\ ~IsAsync /\ batch = {} => \A t \in Tasks : phase[t] # "running"
    /\ ~toAll /\ orphans # {} => acked # "none" \/ exit = "abandon"

Writers(k) == {t \in Tasks : k \in written[t]}

\* The session state after the members' copies are merged back: a key nobody
\* wrote is unchanged; one that was not there at first has a value of one of
\* its writers; and members that work one after the other see and overwrite
\* each other's values in their order.
StateKeepsWrites ==
    \A k \in Keys :
        /\ Writers(k) = {} => state[k] = InitialState[k]
        /\ Writers(k) # {} /\ k \notin InitialKeys => state[k] \in Writers(k)
        /\ Writers(k) # {} /\ ~IsAsync =>
                state[k] \in Writers(k) /\ \A t \in Writers(k) : t <= state[k]

----------------------------------------------------------------------------
(* Implementation of RunLifecycle, without its liveness.                   *)

PhaseOf ==
    CASE pc = "idle" -> "new"
      [] pc = "ended" -> IF exit = "return" THEN status ELSE "failed"
      [] OTHER -> "running"

\* A cancel of a member's run, or Ctrl-C in one, cancels the team.
Requested ==
    acked # "none" \/ interrupted \/ \E t \in Tasks : requested[t]

Lifecycle == INSTANCE RunLifecycle WITH
    RunIds <- {Leader},
    Resumable <- {},
    phase <- [r \in {Leader} |-> PhaseOf],
    requested <- [r \in {Leader} |-> Requested]

\* To its caller a team run looks like an agent run that does not pause: in
\* particular it is reported cancelled only if it, or one of its members, was
\* cancelled or interrupted.
ImplementsLifecycle == Lifecycle!LifecycleSafety

----------------------------------------------------------------------------
(* Liveness.                                                               *)

\* A streaming worker of delegate_task_to_members has raised: the leader waits
\* for its report.
Stuck == pc = "delegating" /\ toAll /\ streamed /\ IsAsync /\ Raised # {}

\* Every call of a team ends, with all its delegations and retries, unless it
\* is stuck with a concurrent member that streamed and failed or was cancelled.
TeamRunEnds == pc = "called" ~> pc = "ended" \/ Stuck

----------------------------------------------------------------------------
(* What the docs and comments say, and the code does not do.               *)

\* "Drain queue until all members reported done" (team.py): the delegation to
\* all members ends.
DelegationEnds == pc = "delegating" ~> pc # "delegating"

=============================================================================
