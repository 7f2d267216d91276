--------------------------- MODULE WorkflowSteps ---------------------------
(***************************************************************************)
(* The steps of one workflow run (agno/workflow/): a tree of containers    *)
(* (Steps, Condition, Router, Loop, Parallel) over single steps, executed  *)
(* by one of the four functions every class has.  The root stands for the  *)
(* loop over the steps in Workflow._execute and its three variants.        *)
(*                                                                         *)
(* What a step is told by its parent is a reference to a session state:    *)
(* owner[n] is the node whose dictionary node n works on.  The containers  *)
(* hand theirs on, Parallel makes a deep copy for each branch.             *)
(***************************************************************************)
EXTENDS SessionStateMerge, FiniteSets

CONSTANTS Nodes, Root,
          Children,       \* the steps of a container, in order
          ContainerKinds, \* the kinds the inner nodes may be of
          Functions,      \* the functions the workflow may be executed by
          InitialState,   \* the session state before the first step
          WriteSets,      \* what the executor of a step may do to its state
          Results,        \* what it may return
          MaxRetries,     \* Step.max_retries
          SkipOnFailure,  \* the steps with skip_on_failure
          MaxIterations   \* Loop.max_iterations

AllFunctions == {"execute", "execute_stream", "aexecute", "aexecute_stream"}

Streaming == {"execute_stream", "aexecute_stream"}

Kinds == {"Workflow", "Steps", "Condition", "Router", "Loop", "Parallel", "Step"}

ChildSet(n) == {Children[n][i] : i \in DOMAIN Children[n]}

Leaves == {n \in Nodes : Children[n] = <<>>}

Containers == Nodes \ Leaves

Parent(n) == CHOOSE p \in Nodes : n \in ChildSet(p)

\* Every node but the root stands at one place, and none is inside itself.
ASSUME TreeAssumption ==
    /\ Root \in Containers
    /\ \A n \in Nodes : Children[n] \in Seq(Nodes \ {Root})
    /\ \A n \in Nodes \ {Root} : \E p \in Nodes : n \in ChildSet(p)
    /\ \A p, q \in Nodes : \A i \in DOMAIN Children[p], j \in DOMAIN Children[q] :
           Children[p][i] = Children[q][j] => p = q /\ i = j
    /\ \A S \in SUBSET Nodes : S # {} => \E n \in S : \A p \in S : n \notin ChildSet(p)
ASSUME ContainerKindsAssumption == ContainerKinds \subseteq Kinds \ {"Workflow", "Step"}
ASSUME FunctionsAssumption == Functions \subseteq AllFunctions
ASSUME BoundsAssumption ==
    /\ MaxRetries \in [Leaves -> Nat]
    /\ MaxIterations \in Nat \ {0}

\* What is inside a container, at any depth.
Under ==
    [n \in Nodes |->
        {m \in Nodes : \A S \in SUBSET Nodes :
            ChildSet(n) \subseteq S /\ (\A p \in S : ChildSet(p) \subseteq S) => m \in S}]

Unwritten == "unwritten"   \* not a value: the executor leaves the path alone

Outputs == [stop : BOOLEAN, success : BOOLEAN]

\* The run puts its own ids into the session state, so that it is never empty.
ASSUME StateAssumption ==
    /\ InitialState \in States
    /\ ~IsEmpty(InitialState)
    /\ Unwritten \notin Values \cup {Absent}
ASSUME ExecutorsAssumption ==
    \A n \in Leaves : /\ WriteSets[n] \subseteq [Keys -> Values \cup {Absent, Unwritten}]
                      /\ Results[n] \subseteq Outputs

----------------------------------------------------------------------------
VARIABLES
    kind,       \* what each node is
    function,   \* the function that executes the tree
    pc,         \* per node: has it run, with what end?
    owner,      \* the node whose session state this node was given
    state,      \* the session state of the root and of the branches
    shallow,    \* the copy of it that a step gives to its executor
    position,   \* the child a sequential container is at
    iteration,  \* of a Loop
    attempt,    \* of a Step
    output,     \* the StepOutput of a node; while a container runs, so far
    completed,  \* the branches of a Parallel in the order they ended
    abandoned,  \* was the run left by its consumer?
    wrote,      \* history: the last value a step has brought into its owner's
                \* state, per path
    asked,      \* history: has a step asked to stop that this sequence, or a
                \* Parallel of it, executes in this iteration?
    failures    \* history: the nodes that failed

vars == <<kind, function, pc, owner, state, shallow, position, iteration,
          attempt, output, completed, abandoned, wrote, asked, failures>>

NoStop == [stop |-> FALSE, success |-> TRUE]

TypeOK ==
    /\ kind \in [Nodes -> Kinds]
    /\ function \in AllFunctions
    /\ pc \in [Nodes -> {"idle", "running", "returned", "raised", "abandoned"}]
    /\ owner \in [Nodes -> Nodes]
    /\ state \in [Nodes -> States]
    /\ shallow \in [Nodes -> States]
    /\ \A n \in Containers : position[n] \in DOMAIN Children[n]
    /\ iteration \in [Nodes -> 0 .. MaxIterations - 1]
    /\ \A n \in Leaves : attempt[n] \in 0 .. MaxRetries[n]
    /\ output \in [Nodes -> Outputs]
    /\ \A n \in Nodes : /\ Len(completed[n]) <= Len(Children[n])
                        /\ \A i \in DOMAIN completed[n] :
                               completed[n][i] \in DOMAIN Children[n]
    /\ abandoned \in BOOLEAN
    /\ wrote \in [Nodes -> [Keys -> Values \cup {Absent, Unwritten}]]
    /\ asked \in [Nodes -> BOOLEAN]
    /\ failures \subseteq Nodes

Init ==
    /\ kind \in {k \in [Nodes -> ContainerKinds \cup {"Workflow", "Step"}] :
                    /\ \A n \in Nodes : k[n] = "Workflow" <=> n = Root
                    /\ \A n \in Nodes : k[n] = "Step" <=> n \in Leaves}
    /\ function \in Functions
    /\ pc = [n \in Nodes |-> "idle"]
    /\ owner = [n \in Nodes |-> Root]
    /\ state = [n \in Nodes |-> InitialState]
    /\ shallow = state
    /\ position = [n \in Nodes |-> 1]
    /\ iteration = [n \in Nodes |-> 0]
    /\ attempt = [n \in Nodes |-> 0]
    /\ output = [n \in Nodes |-> NoStop]
    /\ completed = [n \in Nodes |-> <<>>]
    /\ abandoned = FALSE
    /\ wrote = [n \in Nodes |-> [k \in Keys |-> Unwritten]]
    /\ asked = [n \in Nodes |-> FALSE]
    /\ failures = {}

Current(n) == Children[n][position[n]]

Over(n) == pc[n] \in {"returned", "raised"}


----------------------------------------------------------------------------
(* Calls and returns.                                                      *)

\* The nodes of C are called with the session state of node `base`, or, if deep,
\* each with a deep copy of it.  A step makes a shallow copy for its executor.
Enter(C, base, deep) ==
    /\ pc' = [n \in Nodes |-> IF n \in C THEN "running" ELSE pc[n]]
    /\ owner' = [n \in Nodes |-> IF n \notin C THEN owner[n]
                                 ELSE IF deep THEN n ELSE base]
    /\ state' = [n \in Nodes |-> IF n \in C /\ deep THEN state[base] ELSE state[n]]
    /\ shallow' = [n \in Nodes |-> IF n \in C \cap Leaves THEN state[base]
                                   ELSE shallow[n]]
    /\ position' = [n \in Nodes |-> IF n \in C THEN 1 ELSE position[n]]
    /\ iteration' = [n \in Nodes |-> IF n \in C THEN 0 ELSE iteration[n]]
    /\ attempt' = [n \in Nodes |-> IF n \in C THEN 0 ELSE attempt[n]]
    /\ output' = [n \in Nodes |-> IF n \in C THEN NoStop ELSE output[n]]
    /\ asked' = [n \in Nodes |-> n \notin C /\ asked[n]]
    /\ UNCHANGED <<kind, function, completed, abandoned, wrote, failures>>

\* Node n ends.  What it knew of its children is forgotten with it.
Leave(n, end, result) ==
    /\ pc' = [m \in Nodes |-> IF m = n THEN end
                              ELSE IF m \in ChildSet(n) THEN "idle" ELSE pc[m]]
    /\ output' = [m \in Nodes |-> IF m = n THEN result
                                  ELSE IF m \in ChildSet(n) THEN NoStop
                                  ELSE output[m]]

Failed == [stop |-> FALSE, success |-> FALSE]

Returns(n, result) == Leave(n, "returned", result)

Raises(n) == Leave(n, "raised", Failed)

RunWorkflow ==
    /\ pc[Root] = "idle"
    /\ Enter({Root}, Root, FALSE)

----------------------------------------------------------------------------
(* Single steps.                                                           *)

\* The executor works on the copy; a path inside an inner dictionary is written
\* to the shared dictionary itself.
InPlace(n, writes) ==
    [k \in Keys |-> IF k \in Nested /\ writes[k] # Unwritten THEN writes[k]
                    ELSE state[owner[n]][k]]

OnCopy(n, writes) ==
    [k \in Keys |-> IF k \notin Nested /\ writes[k] # Unwritten THEN writes[k]
                    ELSE shallow[n][k]]

\* What has reached the owner's state: the paths of inner dictionaries at once,
\* the outer keys only with the merge, and not those removed from the copy.
Recorded(n, writes, copied, merged) ==
    [k \in Keys |->
        IF k \in Nested
        THEN IF writes[k] # Unwritten THEN writes[k] ELSE wrote[n][k]
        ELSE IF merged /\ copied[k] # Absent /\ copied[k] # state[owner[n]][k]
             THEN copied[k] ELSE wrote[n][k]]

\* One attempt, up to its merge or to an exception before it.
Executes(n, writes, merged) ==
    LET copied == OnCopy(n, writes)
        shared == InPlace(n, writes)
    IN  /\ state' = [state EXCEPT ![owner[n]] =
                        IF merged THEN MergeDictionaries(shared, copied) ELSE shared]
        /\ wrote' = [wrote EXCEPT ![n] = Recorded(n, writes, copied, merged)]

Forget(C) == shallow' = [n \in Nodes |-> IF n \in C THEN InitialState ELSE shallow[n]]

\* n is a step of the sequence m: one of its own or of a Parallel of it.
InSequence(n, m) ==
    /\ kind[m] # "Parallel"
    /\ n \in Under[m]
    /\ \A p \in Under[m] : n \in Under[p] => kind[p] = "Parallel"

StepSucceeds(n) ==
    /\ n \in Leaves
    /\ pc[n] = "running"
    /\ \E writes \in WriteSets[n], result \in Results[n] :
            /\ Executes(n, writes, TRUE)
            /\ Returns(n, result)
            /\ failures' = IF result.success THEN failures ELSE failures \cup {n}
            /\ asked' = [m \in Nodes |-> asked[m] \/ (result.stop /\ InSequence(n, m))]
    /\ Forget({n})
    /\ UNCHANGED <<kind, function, owner, position, iteration, attempt,
                   completed, abandoned>>

\* Mutant: one retry too many.
StepRetriesOnceMore(n) ==
    /\ n \in Leaves
    /\ pc[n] = "running"
    /\ attempt[n] <= MaxRetries[n]
    /\ \E writes \in WriteSets[n] : Executes(n, writes, FALSE)
    /\ attempt' = [attempt EXCEPT ![n] = @ + 1]
    /\ UNCHANGED <<kind, function, pc, owner, shallow, position, iteration, output,
                   completed, abandoned, asked, failures>>

\* The executor raises, or what comes after the merge does.  The next attempt
\* goes on with the same copy.
StepRetries(n) ==
    /\ n \in Leaves
    /\ pc[n] = "running"
    /\ attempt[n] < MaxRetries[n]
    /\ \E writes \in WriteSets[n], merged \in BOOLEAN :
            /\ Executes(n, writes, merged)
            /\ shallow' = [shallow EXCEPT ![n] = OnCopy(n, writes)]
    /\ attempt' = [attempt EXCEPT ![n] = @ + 1]
    /\ UNCHANGED <<kind, function, pc, owner, position, iteration, output,
                   completed, abandoned, asked, failures>>

\* The last attempt fails, before its merge or after.
StepFails(n) ==
    /\ n \in Leaves
    /\ pc[n] = "running"
    /\ attempt[n] = MaxRetries[n]
    /\ \E writes \in WriteSets[n], merged \in BOOLEAN : Executes(n, writes, merged)
    /\ IF n \in SkipOnFailure THEN Returns(n, Failed) ELSE Raises(n)
    /\ failures' = failures \cup {n}
    /\ Forget({n})
    /\ UNCHANGED <<kind, function, owner, position, iteration, attempt,
                   completed, abandoned, asked>>

----------------------------------------------------------------------------
(* Containers that execute their steps in order.                           *)

Sequential(n) == n \in Containers /\ kind[n] # "Parallel" /\ pc[n] = "running"

\* The consumer has closed the generators that wait for this Parallel.
Closing(n) == abandoned /\ owner[n] = Root

\* Before the first step: a condition that is not met, a router that selects
\* nothing; or the function that is asked raises.
IsAsked(n) ==
    /\ Sequential(n)
    /\ kind[n] \in {"Condition", "Router"}
    /\ position[n] = 1
    /\ pc[Current(n)] = "idle"

NothingSelected(n) ==
    /\ IsAsked(n)
    /\ Returns(n, NoStop)
    /\ UNCHANGED <<kind, function, owner, state, shallow, position, iteration,
                   attempt, completed, abandoned, wrote, asked, failures>>

SelectorRaises(n) ==
    /\ IsAsked(n)
    /\ Raises(n)
    /\ failures' = failures \cup {n}
    /\ UNCHANGED <<kind, function, owner, state, shallow, position, iteration,
                   attempt, completed, abandoned, wrote, asked>>

CallChild(n) ==
    /\ Sequential(n)
    /\ pc[Current(n)] = "idle"
    /\ Enter({Current(n)}, owner[n], FALSE)

SoFar(n) == [stop |-> output[Current(n)].stop,
             success |-> output[n].success /\ output[Current(n)].success]

GoesOn(n) == position[n] < Len(Children[n]) /\ ~output[Current(n)].stop

\* The child has returned and the next one is called.  A router skips the
\* children it has not selected: its selection is taken to be the first choice
\* and some of the later ones, in their order.
NextChild(n) ==
    /\ Sequential(n)
    /\ pc[Current(n)] = "returned"
    /\ GoesOn(n)
    /\ output' = [output EXCEPT ![n].success = SoFar(n).success]
    /\ \E next \in IF kind[n] = "Router"
                   THEN position[n] + 1 .. Len(Children[n])
                   ELSE {position[n] + 1} :
            position' = [position EXCEPT ![n] = next]
    /\ UNCHANGED <<kind, function, pc, owner, state, shallow, iteration, attempt,
                   completed, abandoned, wrote, asked, failures>>

\* The last child has returned, or one that asks to stop.  Only the loop over
\* the steps of the workflow keeps the stop: the StepOutput of a container does
\* not have it.
SequenceEnds(n) ==
    /\ Sequential(n)
    /\ kind[n] # "Loop"
    /\ pc[Current(n)] = "returned"
    /\ kind[n] = "Router" \/ ~GoesOn(n)
    /\ Returns(n, [stop |-> kind[n] = "Workflow" /\ SoFar(n).stop,
                   success |-> SoFar(n).success])
    /\ UNCHANGED <<kind, function, owner, state, shallow, position, iteration,
                   attempt, completed, abandoned, wrote, asked, failures>>

\* The end of an iteration: by its end condition or max_iterations the loop is
\* over, and, if streaming, by a step that asks to stop.
IterationEnds(n) ==
    /\ Sequential(n)
    /\ kind[n] = "Loop"
    /\ pc[Current(n)] = "returned"
    /\ ~GoesOn(n)
    /\ Returns(n, [stop |-> FALSE, success |-> SoFar(n).success])
    /\ UNCHANGED <<kind, function, owner, state, shallow, position, iteration,
                   attempt, completed, abandoned, wrote, asked, failures>>

\* Mutant: the iterations are not counted.
IterationNotCounted(n) ==
    /\ Sequential(n)
    /\ kind[n] = "Loop"
    /\ pc[Current(n)] = "returned"
    /\ ~GoesOn(n)
    /\ iteration' = iteration
    /\ position' = [position EXCEPT ![n] = 1]
    /\ pc' = [m \in Nodes |-> IF m \in ChildSet(n) THEN "idle" ELSE pc[m]]
    /\ UNCHANGED <<kind, function, owner, state, shallow, attempt, output,
                   completed, abandoned, wrote, asked, failures>>

NextIteration(n) ==
    /\ Sequential(n)
    /\ kind[n] = "Loop"
    /\ pc[Current(n)] = "returned"
    /\ ~GoesOn(n)
    /\ iteration[n] + 1 < MaxIterations
    /\ ~(function \in Streaming /\ SoFar(n).stop)
    /\ iteration' = [iteration EXCEPT ![n] = @ + 1]
    /\ position' = [position EXCEPT ![n] = 1]
    /\ pc' = [m \in Nodes |-> IF m \in ChildSet(n) THEN "idle" ELSE pc[m]]
    /\ output' = [m \in Nodes |-> IF m \in ChildSet(n) THEN NoStop
                                  ELSE IF m = n
                                  THEN [stop |-> FALSE, success |-> SoFar(n).success]
                                  ELSE output[m]]
    /\ asked' = [asked EXCEPT ![n] = FALSE]
    /\ UNCHANGED <<kind, function, owner, state, shallow, attempt, completed,
                   abandoned, wrote, failures>>

\* Steps, Condition and Router turn an exception of a step into a failure of
\* their own; Loop and the workflow hand it on.
ChildRaised(n) ==
    /\ Sequential(n)
    /\ pc[Current(n)] = "raised"
    /\ IF kind[n] \in {"Steps", "Condition", "Router"}
       THEN Returns(n, Failed)
       ELSE Raises(n)
    /\ UNCHANGED <<kind, function, owner, state, shallow, position, iteration,
                   attempt, completed, abandoned, wrote, asked, failures>>

----------------------------------------------------------------------------
(* Parallel.                                                               *)

IsParallel(n) == n \in Containers /\ kind[n] = "Parallel" /\ pc[n] = "running"

\* Every branch is submitted at once, with a deep copy of the state.
CallBranches(n) ==
    /\ IsParallel(n)
    /\ \A c \in ChildSet(n) : pc[c] = "idle"
    /\ Enter(ChildSet(n), owner[n], TRUE)

\* A branch is over, and "complete" goes into the queue of the Parallel.
BranchCompletes(n, i) ==
    /\ IsParallel(n)
    /\ Over(Children[n][i])
    /\ \A j \in DOMAIN completed[n] : completed[n][j] # i
    /\ completed' = [completed EXCEPT ![n] = Append(@, i)]
    /\ UNCHANGED <<kind, function, pc, owner, state, shallow, position, iteration,
                   attempt, output, abandoned, wrote, asked, failures>>

Permutations(m) == {p \in [1 .. m -> 1 .. m] : \A i, j \in 1 .. m : i # j => p[i] # p[j]}

\* The order in which the states of the branches are merged: gather keeps the
\* order of the steps, the queues the order in which they ended, and
\* as_completed may yield futures that have ended already in any order.
MergeOrders(n) ==
    CASE function = "aexecute" -> {[i \in DOMAIN Children[n] |-> i]}
      [] function = "execute" -> Permutations(Len(Children[n]))
      [] OTHER -> {completed[n]}

\* Mutant: the stop of a branch is not aggregated.
AggregateWithoutStop(n) ==
    [stop |-> FALSE, success |-> \A c \in ChildSet(n) : output[c].success]

\* Mutant: a branch that failed does not count.
AggregateWithoutFailures(n) ==
    [stop |-> \E c \in ChildSet(n) : output[c].stop, success |-> TRUE]

\* _aggregate_results: a branch that raised counts as a failure.
AggregateResults(n) ==
    [stop |-> \E c \in ChildSet(n) : output[c].stop,
     success |-> \A c \in ChildSet(n) : output[c].success]

Join(n) ==
    /\ IsParallel(n)
    /\ ~Closing(n)
    /\ Len(completed[n]) = Len(Children[n])
    /\ \E order \in MergeOrders(n) :
            state' = [m \in Nodes |->
                IF m = owner[n]
                THEN MergeParallel(state[m],
                        [i \in DOMAIN order |-> state[Children[n][order[i]]]])
                ELSE IF m \in ChildSet(n) THEN InitialState ELSE state[m]]
    /\ completed' = [completed EXCEPT ![n] = <<>>]
    /\ Returns(n, AggregateResults(n))
    /\ UNCHANGED <<kind, function, owner, shallow, position, iteration, attempt,
                   abandoned, wrote, asked, failures>>

----------------------------------------------------------------------------
(* A run that is left: the consumer closes the generator, or the task is    *)
(* cancelled.                                                              *)

\* The frames that are left at once: those that do not run in a thread or task
\* of their own.  gather cancels its tasks; create_task starts tasks that
\* nobody cancels.
LeftAtOnce ==
    IF function = "aexecute" THEN {n \in Nodes : pc[n] = "running"}
    ELSE {n \in Nodes : pc[n] = "running" /\ (owner[n] = Root \/ n = Root)}

\* Mutant: the threads of the pool are left behind.
PoolNotAwaited == FALSE

\* The pool of a streaming Parallel waits for its threads before the generators
\* around it are closed.
MustWait ==
    /\ function = "execute_stream"
    /\ \E n \in Nodes : IsParallel(n) /\ owner[n] = Root
                        /\ \E c \in ChildSet(n) : pc[c] # "idle"

Abandon ==
    /\ function # "execute"
    /\ ~abandoned
    /\ pc[Root] = "running"
    /\ abandoned' = TRUE
    /\ pc' = IF MustWait THEN pc
             ELSE [n \in Nodes |-> IF n \in LeftAtOnce THEN "abandoned" ELSE pc[n]]
    /\ UNCHANGED <<kind, function, owner, state, shallow, position, iteration,
                   attempt, output, completed, wrote, asked, failures>>

\* The threads have ended: the generators are closed, and nothing is merged.
Unwind ==
    /\ abandoned
    /\ pc[Root] = "running"
    /\ \A n \in Nodes : IsParallel(n) /\ owner[n] = Root
                            => \A c \in ChildSet(n) : Over(c)
    /\ pc' = [n \in Nodes |-> IF n \in LeftAtOnce THEN "abandoned" ELSE pc[n]]
    /\ UNCHANGED <<kind, function, owner, state, shallow, position, iteration,
                   attempt, output, completed, abandoned, wrote, asked, failures>>

----------------------------------------------------------------------------
ContainerStep(n) ==
    \/ NothingSelected(n) \/ SelectorRaises(n)
    \/ CallChild(n) \/ NextChild(n) \/ ChildRaised(n)
    \/ SequenceEnds(n) \/ IterationEnds(n) \/ NextIteration(n)
    \/ CallBranches(n) \/ Join(n)
    \/ \E i \in DOMAIN Children[n] : BranchCompletes(n, i)

Progress ==
    \/ RunWorkflow
    \/ \E n \in Leaves : StepSucceeds(n) \/ StepRetries(n) \/ StepFails(n)
    \/ \E n \in Containers : ContainerStep(n)
    \/ Unwind

Next == Progress \/ Abandon

\* Every executor ends, and threads and tasks are scheduled.
Fairness == WF_vars(Progress)

Spec == Init /\ [][Next]_vars

FairSpec == Spec /\ Fairness

----------------------------------------------------------------------------
(* Properties.                                                             *)

Finished == pc[Root] \in {"returned", "raised"} /\ ~abandoned

\* The steps whose writes reached a path with the same outer key as k.
Writers(k) ==
    {n \in Leaves : \E j \in Keys : TopKey[j] = TopKey[k] /\ wrote[n][j] # Unwritten}

ValueAfter(n, k) == IF wrote[n][k] = Unwritten THEN InitialState[k] ELSE wrote[n][k]

\* When the steps are over, an outer key that one step alone wrote to has the
\* value that step gave it last, wherever in the tree the step is and however
\* often it was executed, and a key that no step wrote to is as it was.  A step
\* whose executor raised has written nothing but to inner dictionaries.
LoneWriteSurvives ==
    Finished =>
        \A k \in Keys :
            /\ Writers(k) = {} => state[Root][k] = InitialState[k]
            /\ \A n \in Writers(k) :
                   Writers(k) = {n} => state[Root][k] = ValueAfter(n, k)

\* A step that asks to stop is the last one of its sequence in this iteration,
\* also if it is a branch of a Parallel of the sequence, whichever of the
\* branches ends first.
StopEndsItsSequence ==
    [][\A n \in Containers :
            pc[n] = "running" /\ position'[n] > position[n] => ~asked[n]]_vars

Descendants(n) == {n} \cup Under[n]

\* The StepOutput of a step of the workflow says success exactly if nothing
\* below it failed in any iteration, whatever swallowed the exception.
FailuresAreReported ==
    \A n \in ChildSet(Root) :
        pc[n] = "returned"
            => (output[n].success <=> Descendants(n) \cap failures = {})

\* No step runs after the container that called it has ended, be it by a
\* result, an exception or because the run was left; only the tasks of
\* Parallel.aexecute_stream outlive a consumer that leaves.
NoOrphanStep ==
    \A n \in Nodes \ {Root} :
        pc[n] = "running" =>
            \/ pc[Parent(n)] = "running"
            \/ function = "aexecute_stream" /\ abandoned

\* Whatever the steps answer, the workflow ends.
WorkflowEnds == pc[Root] = "running" ~> pc[Root] # "running"
=============================================================================
