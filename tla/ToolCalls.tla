------------------------------ MODULE ToolCalls ------------------------------
(***************************************************************************)
(* The tool calls of one agent run, from the question of the model to the  *)
(* answer it is given (agno/models/base.py), and over the pauses in which  *)
(* a person confirms a call, executes it elsewhere or fills in a form      *)
(* (agno/agent/agent.py, continue_run).                                    *)
(*                                                                         *)
(* A run is the RunOutput object: the calls the model has asked for, the   *)
(* tool messages that answer them, and the ToolExecution objects.  There   *)
(* may be two of it: the one the client holds and the one in the database. *)
(* "torn" is no field of the program: it tells of an object whether it, or *)
(* the one it is a copy of, was left between an execution and its message. *)
(***************************************************************************)
EXTENDS Naturals, Sequences, FiniteSets

CONSTANTS CallCount,     \* the calls the model may ask for, in this order
          Kinds,         \* what their functions may be
          Functions,     \* how the run is executed and continued
          Ways,          \* how the client continues it
          Limit,         \* Agent.tool_call_limit; CallCount stands for None
          MaxRetries,    \* Agent.retries
          MaxContinues   \* bound: the calls of continue_run

Calls == 1 .. CallCount

AllFunctions == {"sync", "sync_stream", "async", "async_stream"}

Streaming == {"sync_stream", "async_stream"}

Async == {"async", "async_stream"}

\* Only one of the three flags of a function may be set; "form" is the tool
\* get_user_input, "unknown" a function the agent does not have.
AllKinds == {"plain", "confirm", "external", "input", "form", "unknown"}

\* The client passes the RunOutput it was given, or the run id and the tools.
AllWays == {"run_response", "run_id"}

ASSUME CallCountAssumption == CallCount \in Nat
ASSUME KindsAssumption == Kinds \subseteq AllKinds
ASSUME FunctionsAssumption == Functions \subseteq AllFunctions
ASSUME WaysAssumption == Ways \subseteq AllWays
ASSUME BoundsAssumption ==
    Limit \in Nat /\ MaxRetries \in Nat /\ MaxContinues \in Nat

----------------------------------------------------------------------------
VARIABLES
    kind,       \* what the function of each call is
    pc,         \* where the run is
    function,   \* the function that executes it
    way,        \* how it was continued; "run": it was not
    attempt,    \* of the retry loop of a synchronous call without a stream
    run,        \* the RunOutput the function works on
    held,       \* the RunOutput the client holds
    stored,     \* the RunOutput in the session in the database
    loop,       \* the local variables of Model.response
    continues,  \* the continuations so far
    used,       \* history: the calls any answer of the model had
    executed,   \* history: how often each call was executed
    confirmed,  \* history: the calls the client has confirmed
    failed,     \* history: the ways of the first continuation that was left by
                \* an exception and of those after it
    broken      \* history: was one left between an execution and its message?

vars == <<kind, pc, function, way, attempt, run, held, stored, loop, continues,
          used, executed, confirmed, failed, broken>>

history == <<used, executed, confirmed, failed, broken>>

Needs == {"nothing", "confirm", "external", "input", "form"}

Answers == {"result", "error", "limit", "rejected", "given"}

\* A ToolExecution: what it waits for, and what the client has put into it.
Executions == [needs : Needs, confirmed : {"no", "yes"}, result : {"none", "some"}]

NoExecution == [needs |-> "nothing", confirmed |-> "no", result |-> "none"]

NewRun == [asked |-> {},
           answers |-> [c \in Calls |-> <<>>],
           tools |-> [c \in Calls |-> NoExecution],
           torn |-> FALSE]

NoResults == [c \in Calls |-> "none"]

\* One call of Model.response: the messages counted by the limit, the calls of
\* the last answer and those of them not handled yet, their results not yet in
\* the messages, other messages of exceptions, and the calls that pause.
NewLoop == [count |-> 0, batch |-> {}, todo |-> {}, results |-> NoResults,
            extra |-> 0, stop |-> FALSE, paused |-> {}, ran |-> 0]

\* The calls of the last answer that have a result.
Settling == {c \in Calls : loop.results[c] # "none"}

Open(r) == {c \in Calls : r.tools[c].needs # "nothing"}

Unanswered(r) == {c \in r.asked : r.answers[c] = <<>>}

Runs == [asked : SUBSET Calls, answers : [Calls -> Seq(Answers)],
         tools : [Calls -> Executions], torn : BOOLEAN]

Loops == [count : Nat, batch : SUBSET Calls, todo : SUBSET Calls,
          results : [Calls -> Answers \cup {"none"}], extra : Nat,
          stop : BOOLEAN, paused : SUBSET Calls, ran : Nat]

Pausing(c) == kind[c] \in {"confirm", "external", "input", "form"}

TypeOK ==
    /\ kind \in [Calls -> AllKinds]
    /\ pc \in {"idle", "model", "calls", "loop_ends", "updating", "paused",
               "completed", "failed"}
    /\ function \in AllFunctions
    /\ way \in AllWays \cup {"run"}
    /\ attempt \in 0 .. MaxRetries
    /\ run \in Runs /\ held \in Runs /\ stored \in Runs
    /\ loop \in Loops
    /\ loop.todo \subseteq loop.batch /\ loop.batch \subseteq run.asked
    /\ loop.paused \subseteq {c \in run.asked : Pausing(c)}
    /\ continues \in 0 .. MaxContinues
    /\ used \subseteq Calls
    /\ executed \in [Calls -> Nat]
    /\ confirmed \subseteq Calls
    /\ failed \subseteq AllWays /\ broken \in BOOLEAN

Init ==
    /\ kind \in [Calls -> Kinds]
    /\ pc = "idle"
    /\ function \in Functions
    /\ way = "run"
    /\ attempt = 0
    /\ run = NewRun /\ held = NewRun /\ stored = NewRun
    /\ loop = NewLoop
    /\ continues = 0
    /\ used = {}
    /\ executed = [c \in Calls |-> 0]
    /\ confirmed = {} /\ failed = {} /\ broken = FALSE

IsFirst(c, S) == c \in S /\ \A d \in S : c <= d

\* A tool message for call c.
Answer(r, c, how) == [r EXCEPT !.answers[c] = Append(@, how)]

----------------------------------------------------------------------------
(* The loop of Model.response and its three variants.                      *)

StartRun ==
    /\ pc = "idle"
    /\ pc' = "model"
    /\ UNCHANGED <<kind, function, way, attempt, run, held, stored, loop, continues,
                   history>>

\* The model asks for new calls, or for none.  A call of a function that the
\* agent does not have is answered at once.
ModelAnswers ==
    /\ pc = "model"
    /\ \E S \in SUBSET {c \in Calls : \A d \in used : d < c} :
            LET known == {c \in S : kind[c] # "unknown"}
            IN  /\ run' = [run EXCEPT
                              !.asked = @ \cup S,
                              !.answers = [c \in Calls |->
                                              IF c \in S \ known
                                              THEN Append(@[c], "error") ELSE @[c]]]
                /\ loop' = [loop EXCEPT !.batch = known, !.todo = known,
                                        !.results = NoResults, !.extra = 0]
                /\ pc' = IF S = {} THEN "loop_ends" ELSE "calls"
                /\ used' = used \cup S
    /\ UNCHANGED <<kind, function, way, attempt, held, stored, continues, executed, confirmed,
                   failed, broken>>

\* The place of the call that is handled among the calls of this answer.
Place == Cardinality(loop.batch) - Cardinality(loop.todo) + 1

\* Mutant: only the calls of this answer count.
OverLimitOfAnswer == Place > Limit

OverLimit == loop.count + Place > Limit

Handling(c) ==
    /\ pc = "calls"
    /\ IsFirst(c, loop.todo)

Handled(c) == [loop EXCEPT !.todo = @ \ {c}]

OverLimitCall(c) ==
    /\ Handling(c)
    /\ OverLimit
    /\ loop' = [Handled(c) EXCEPT !.results[c] = "limit"]
    /\ UNCHANGED <<kind, pc, function, way, attempt, run, held, stored, continues,
                   history>>

Waiting(c) == [NoExecution EXCEPT !.needs = kind[c]]

\* A paused ToolExecution: the streams put it into the RunOutput at once.
PauseCall(c) ==
    /\ Handling(c)
    /\ ~OverLimit
    /\ Pausing(c)
    /\ loop' = [Handled(c) EXCEPT !.paused = @ \cup {c}]
    /\ run' = IF function \in Streaming
              THEN [run EXCEPT !.tools[c] = Waiting(c)] ELSE run
    /\ UNCHANGED <<kind, pc, function, way, attempt, held, stored, continues, history>>

\* The call is executed.  It may have to be the last one (stop_after_tool_call,
\* or StopAgentRun with a message), or bring another message (RetryAgentRun).
ExecuteCall(c) ==
    /\ Handling(c)
    /\ ~OverLimit
    /\ ~Pausing(c)
    /\ executed' = [executed EXCEPT ![c] = @ + 1]
    /\ \E how \in {"result", "error"}, stop \in {loop.stop, TRUE}, extra \in 0 .. 1 :
            loop' = [Handled(c) EXCEPT !.results[c] = how,
                                       !.stop = stop,
                                       !.extra = @ + extra,
                                       !.ran = @ + 1]
    /\ UNCHANGED <<kind, pc, function, way, attempt, run, held, stored, continues,
                   used, confirmed, failed, broken>>

\* Does the loop end because of a paused call?  The streams look at the flags of
\* the functions, whatever became of the calls; get_user_input has the flag in
\* the asynchronous functions only.
BreaksForUser ==
    IF function \in Streaming
    THEN \E c \in loop.batch :
            \/ kind[c] \in {"confirm", "external", "input"}
            \/ kind[c] = "form" /\ function \in Async /\ c \in loop.paused
    ELSE loop.paused # {}

\* The results become messages.
ResultsAdded ==
    [run EXCEPT !.answers =
        [c \in Calls |-> IF c \in Settling THEN Append(@[c], loop.results[c]) ELSE @[c]]]

AfterCalls ==
    /\ pc = "calls"
    /\ loop.todo = {}
    /\ run' = ResultsAdded
    /\ pc' = IF loop.stop \/ BreaksForUser THEN "loop_ends" ELSE "model"
    /\ loop' = [loop EXCEPT !.count = @ + Cardinality(Settling) + loop.extra,
                            !.batch = {}, !.results = NoResults, !.extra = 0]
    /\ UNCHANGED <<kind, function, way, attempt, held, stored, continues, history>>

\* All open questions of the loop are in the RunOutput when it ends: the run is
\* paused if there are any, also old ones, and stored either way.
Outcome == [run EXCEPT !.tools = [c \in Calls |-> IF c \in loop.paused
                                                  THEN Waiting(c) ELSE @[c]]]

LoopEnds ==
    /\ pc = "loop_ends"
    /\ run' = Outcome
    /\ held' = Outcome
    /\ stored' = Outcome
    /\ loop' = NewLoop
    /\ pc' = IF Open(Outcome) # {} THEN "paused" ELSE "completed"
    /\ UNCHANGED <<kind, function, way, attempt, continues, history>>

----------------------------------------------------------------------------
(* Errors.                                                                 *)

\* The call of run or continue_run is left by an exception.  A client that
\* passed its RunOutput finds in it what has been done so far.
Raises ==
    /\ pc' = "failed"
    /\ held' = IF way = "run_response" THEN run' ELSE held
    /\ loop' = NewLoop
    /\ failed' = failed \cup ({way} \ {"run"})

\* The model raises: run starts again with new messages, continue_run goes on
\* with those it has.
ModelRaises ==
    /\ pc = "model"
    /\ IF function = "sync" /\ attempt < MaxRetries
       THEN /\ attempt' = attempt + 1
            /\ run' = IF way = "run" THEN [NewRun EXCEPT !.tools = run.tools] ELSE run
            /\ pc' = IF way = "run" THEN "model" ELSE "updating"
            /\ loop' = NewLoop
            /\ UNCHANGED <<held, failed>>
       ELSE UNCHANGED <<attempt, run>> /\ Raises
    /\ UNCHANGED <<kind, function, way, stored, continues, used, executed,
                   confirmed, broken>>

\* A call is executed, and then its generator raises or the consumer leaves the
\* stream: its result does not become a message, nor do those before it.  The
\* asynchronous functions execute other calls at the same time.
CallBroken(c) ==
    /\ Handling(c)
    /\ ~OverLimit
    /\ ~Pausing(c)
    /\ \E others \in SUBSET {d \in loop.todo \ {c} : function \in Async /\ ~Pausing(d)} :
            executed' = [d \in Calls |-> IF d \in others \cup {c}
                                         THEN executed[d] + 1 ELSE executed[d]]
    /\ broken' = TRUE
    /\ run' = [run EXCEPT !.torn = TRUE]
    /\ Raises
    /\ UNCHANGED <<kind, function, way, attempt, stored, continues, used,
                   confirmed>>

----------------------------------------------------------------------------
(* continue_run.                                                           *)

\* What the client does with a ToolExecution object that waits for it: it is
\* confirmed or given a result, or it is left as it is or rejected.
Accepted(tool) ==
    CASE tool.needs = "confirm"  -> [tool EXCEPT !.confirmed = "yes"]
      [] tool.needs = "external" -> [tool EXCEPT !.result = "some"]
      [] OTHER -> tool

Declined(tool) ==
    IF tool.needs = "confirm" THEN [tool EXCEPT !.confirmed = "no"] ELSE tool

Decided(r, yes) ==
    [r EXCEPT !.tools = [c \in Calls |-> IF c \in yes THEN Accepted(@[c])
                                                      ELSE Declined(@[c])]]

\* A run that has paused is continued, again if an exception ended it.
ContinueRun ==
    /\ pc \in {"paused", "failed"}
    /\ Open(stored) # {}
    /\ continues < MaxContinues
    /\ continues' = continues + 1
    /\ \E w \in Ways, f \in Functions :
            LET base == IF w = "run_response" THEN held ELSE stored
            IN  \E yes \in SUBSET Open(base) :
                    /\ run' = Decided(base, yes)
                    /\ held' = IF w = "run_response" THEN run' ELSE held
                    /\ confirmed' = confirmed \cup
                            {c \in yes : base.tools[c].needs = "confirm"}
                    /\ way' = w
                    /\ failed' = IF failed = {} THEN {} ELSE failed \cup {w}
                    /\ function' = f
    /\ attempt' = 0
    /\ pc' = "updating"
    /\ UNCHANGED <<kind, stored, loop, used, executed, broken>>

\* The ToolExecution that _handle_tool_call_updates has come to.
Updating(c) ==
    /\ pc = "updating"
    /\ IsFirst(c, Open(run))

\* Mutant: the flag of the ToolExecution stays.
SettledNever(r, c) == r

Settled(r, c) == [r EXCEPT !.tools[c].needs = "nothing"]

\* Mutant: the answer of the user is not looked at.
MayRunUnconfirmed(tool) == tool.needs \in {"confirm", "input"}

\* A confirmed call that has a result counts as one that was run before ...
MayRun(tool) ==
    \/ tool.needs = "confirm" /\ tool.confirmed = "yes" /\ tool.result = "none"
    \/ tool.needs = "input"

UpdateRuns(c) ==
    /\ Updating(c)
    /\ MayRun(run.tools[c])
    /\ executed' = [executed EXCEPT ![c] = @ + 1]
    /\ \E how \in {"result", "error"} :
            run' = Answer([Settled(run, c) EXCEPT !.tools[c].result = "some"], c, how)
    /\ UNCHANGED <<kind, pc, function, way, attempt, held, stored, loop, continues,
                   used, confirmed, failed, broken>>

\* Mutant: the call is executed before the answer of the user is looked at.
UpdateRejectsAfterRun(c) ==
    /\ Updating(c)
    /\ run.tools[c].needs = "confirm"
    /\ ~MayRun(run.tools[c])
    /\ executed' = [executed EXCEPT ![c] = @ + 1]
    /\ run' = Answer(Settled(run, c), c, "rejected")
    /\ UNCHANGED <<kind, pc, function, way, attempt, held, stored, loop, continues,
                   used, confirmed, failed, broken>>

\* ... and is answered as if the user had rejected it.
UpdateRejects(c) ==
    /\ Updating(c)
    /\ run.tools[c].needs = "confirm"
    /\ ~MayRun(run.tools[c])
    /\ run' = Answer([Settled(run, c) EXCEPT !.tools[c].confirmed = "no"], c, "rejected")
    /\ UNCHANGED <<kind, pc, function, way, attempt, held, stored, loop, continues,
                   history>>

\* Mutant: the message of an external result is forgotten.
UpdateGivenSilently(c) ==
    /\ Updating(c)
    /\ \/ run.tools[c].needs = "form"
       \/ run.tools[c].needs = "external" /\ run.tools[c].result = "some"
    /\ run' = Settled(run, c)
    /\ UNCHANGED <<kind, pc, function, way, attempt, held, stored, loop, continues,
                   history>>

UpdateGiven(c) ==
    /\ Updating(c)
    /\ \/ run.tools[c].needs = "form"
       \/ run.tools[c].needs = "external" /\ run.tools[c].result = "some"
    /\ run' = Answer(Settled(run, c), c, "given")
    /\ UNCHANGED <<kind, pc, function, way, attempt, held, stored, loop, continues,
                   history>>

\* "Tool ... requires external execution, cannot continue run".
UpdateRefused(c) ==
    /\ Updating(c)
    /\ run.tools[c].needs = "external"
    /\ run.tools[c].result = "none"
    /\ run' = run
    /\ Raises
    /\ UNCHANGED <<kind, function, way, attempt, stored, continues, used, executed,
                   confirmed, broken>>

\* The call is executed and the function left before its message is there: by
\* its generator, or by the consumer of a stream at the event that tells the
\* result.  Only "sync" settles the input of a user before it executes.
UpdateBroken(c) ==
    /\ Updating(c)
    /\ MayRun(run.tools[c])
    /\ executed' = [executed EXCEPT ![c] = @ + 1]
    /\ \E told \in {"none"} \cup (IF function \in Streaming THEN {"some"} ELSE {}) :
            LET left == [run EXCEPT !.tools[c].result = told, !.torn = TRUE]
            IN  run' = IF function = "sync" /\ run.tools[c].needs = "input"
                       THEN Settled(left, c) ELSE left
    /\ broken' = TRUE
    /\ Raises
    /\ UNCHANGED <<kind, function, way, attempt, stored, continues, used,
                   confirmed>>

UpdatesDone ==
    /\ pc = "updating"
    /\ Open(run) = {}
    /\ pc' = "model"
    /\ UNCHANGED <<kind, function, way, attempt, run, held, stored, loop, continues,
                   history>>

----------------------------------------------------------------------------
Next ==
    \/ StartRun \/ ModelAnswers \/ ModelRaises
    \/ \E c \in Calls : \/ OverLimitCall(c) \/ PauseCall(c)
                        \/ ExecuteCall(c) \/ CallBroken(c)
    \/ AfterCalls \/ LoopEnds
    \/ ContinueRun
    \/ \E c \in Calls : \/ UpdateRuns(c) \/ UpdateRejects(c) \/ UpdateGiven(c)
                        \/ UpdateRefused(c) \/ UpdateBroken(c)
    \/ UpdatesDone

Spec == Init /\ [][Next]_vars

----------------------------------------------------------------------------
(* Safety.                                                                 *)

\* Whatever the pauses, errors and continuations: a call that needs it is only
\* executed after the client has confirmed this very call, and one that is to
\* be executed elsewhere is not executed here.
OnlyConfirmedCallsRun ==
    \A c \in Calls :
        executed[c] > 0 =>
            /\ kind[c] \in {"plain", "confirm", "input"}
            /\ kind[c] = "confirm" => c \in confirmed

\* The synchronous stream goes on after a form.
GoesOnAfterForm == function = "sync_stream" /\ \E c \in run.asked : kind[c] = "form"

\* When the model is asked, every call it has made has exactly one answer, as
\* the providers demand, and no call is open.  A run is returned paused only
\* with a question for the client, and completed only with all its answers.
\* Not so a run continued with an object that was left torn.
ModelSeesEveryAnswer ==
    /\ pc = "model" /\ ~run.torn /\ ~GoesOnAfterForm =>
        /\ Open(run) = {}
        /\ \A c \in run.asked : Len(run.answers[c]) = 1
    /\ pc = "paused" => Open(run) # {}
    /\ pc = "completed" /\ ~run.torn => Unanswered(run) = {}

\* Nor does a torn run answer a call twice: what the break in
\* _handle_external_execution_update is for cannot happen.
AnsweredAtMostOnce ==
    \A r \in {run, held, stored}, c \in Calls : Len(r.answers[c]) <= 1

\* A continuation failed, and that one or one after it was by the run id: what
\* was done is not all known.
Forgetful == "run_id" \in failed

\* What an answer says of its call: that it was executed, or that it was not.
IsTrue(how, c) ==
    CASE how = "result" -> executed[c] > 0
      [] how = "error"  -> executed[c] > 0 \/ kind[c] = "unknown"
      [] OTHER -> executed[c] = 0

\* What an answer says of its call is true: it says that it was executed exactly
\* if it was.  A continuation by run id does not know what one that failed did.
AnswersAreTrue ==
    \A c \in Calls :
        run.answers[c] # <<>> /\ ~broken /\ ~Forgetful => IsTrue(Head(run.answers[c]), c)

\* A call is executed a second time only by a continuation of that sort, or if
\* the run was left between the execution and its message.
NoSecondExecution ==
    [][\A c \in Calls :
            executed[c] > 0 /\ executed'[c] > executed[c] => broken \/ Forgetful]_vars

\* One call of Model.response never executes more calls than the limit, over
\* all answers of the model and with the messages that exceptions bring.
LimitIsKept == loop.ran <= Limit

=============================================================================
