--------------------------- MODULE ToolCallsProofs ---------------------------
(***************************************************************************)
(* Theorems about ToolCalls, for any number of calls, retries and          *)
(* continuations, any limit, and every choice of functions and ways.       *)
(*                                                                         *)
(* CallInv is what each of the three RunOutput objects says of each call;  *)
(* LoopInv, what the local variables of Model.response add to it while the *)
(* calls of one answer are handled.  Both are inductive only together: a   *)
(* call that is still to be handled has no message and no open question.   *)
(***************************************************************************)
EXTENDS ToolCalls, FiniteSetTheorems, TLAPS

\* A tool message keeps a RunOutput well formed and touches nothing else.
LEMMA AnswerType ==
    ASSUME NEW r \in Runs, NEW c \in Calls, NEW how \in Answers
    PROVE  /\ Answer(r, c, how) \in Runs
           /\ Answer(r, c, how).asked = r.asked
           /\ Answer(r, c, how).tools = r.tools
           /\ Answer(r, c, how).answers = [r.answers EXCEPT ![c] = Append(r.answers[c], how)]
  <1>1. Append(r.answers[c], how) \in Seq(Answers)
    BY DEF Runs
  <1> QED
    BY <1>1 DEF Answer, Runs

\* The values a run, a call and a loop begin with.
LEMMA InitialTypes == NoExecution \in Executions /\ NewRun \in Runs /\ NewLoop \in Loops
  <1>1. NoExecution \in Executions
    BY DEF NoExecution, Executions, Needs
  <1>2. <<>> \in Seq(Answers)
    OBVIOUS
  <1>3. NewRun \in Runs
    BY <1>1, <1>2 DEF NewRun, Runs
  <1>4. NewLoop \in Loops
    BY DEF NewLoop, NoResults, Loops
  <1> QED
    BY <1>1, <1>3, <1>4

\* A call that pauses waits for what its function asks for.
LEMMA WaitingType ==
    ASSUME TypeOK, NEW c \in Calls, Pausing(c)
    PROVE  /\ Waiting(c) \in Executions
           /\ Waiting(c).needs = kind[c]
           /\ Waiting(c).confirmed = "no"
  BY DEF Waiting, Pausing, NoExecution, Executions, Needs

\* A settled ToolExecution waits for nothing; nothing else changes.
LEMMA SettledType ==
    ASSUME NEW r \in Runs, NEW c \in Calls
    PROVE  /\ Settled(r, c) \in Runs
           /\ Settled(r, c).asked = r.asked
           /\ Settled(r, c).answers = r.answers
           /\ Settled(r, c).tools[c].needs = "nothing"
           /\ Settled(r, c).tools[c].confirmed = r.tools[c].confirmed
           /\ \A d \in Calls \ {c} : Settled(r, c).tools[d] = r.tools[d]
  BY DEF Settled, Runs, Executions, Needs

\* What a continuation writes into the ToolExecution of a call.
LEMMA ResultNoted ==
    ASSUME NEW r \in Runs, NEW c \in Calls, NEW b \in {"none", "some"}
    PROVE  LET n == [r EXCEPT !.tools[c].result = b]
           IN  /\ n \in Runs /\ n.asked = r.asked /\ n.answers = r.answers
               /\ \A d \in Calls : /\ n.tools[d].needs = r.tools[d].needs
                                    /\ n.tools[d].confirmed = r.tools[d].confirmed
  BY DEF Runs, Executions

\* An object that is left between an execution and its message.
LEMMA LeftTorn ==
    ASSUME NEW r \in Runs
    PROVE  LET n == [r EXCEPT !.torn = TRUE]
           IN  /\ n \in Runs /\ n.asked = r.asked /\ n.answers = r.answers
               /\ n.tools = r.tools /\ n.torn
  BY DEF Runs

\* The same with what the client was told of the result.
LEMMA ToldAndTorn ==
    ASSUME NEW r \in Runs, NEW c \in Calls, NEW told \in {"none", "some"}
    PROVE  LET n == [r EXCEPT !.tools[c].result = told, !.torn = TRUE]
           IN  /\ n \in Runs /\ n.asked = r.asked /\ n.answers = r.answers /\ n.torn
               /\ \A d \in Calls : /\ n.tools[d].needs = r.tools[d].needs
                                    /\ n.tools[d].confirmed = r.tools[d].confirmed
  BY ZenonT(60) DEF Runs, Executions

\* A rejection is noted in the ToolExecution of this call only.
LEMMA Unconfirmed ==
    ASSUME NEW r \in Runs, NEW c \in Calls
    PROVE  LET n == [r EXCEPT !.tools[c].confirmed = "no"]
           IN  /\ n \in Runs /\ n.asked = r.asked /\ n.answers = r.answers
               /\ \A d \in Calls :
                    /\ n.tools[d].needs = r.tools[d].needs
                    /\ n.tools[d].confirmed = "yes" => r.tools[d].confirmed = "yes"
  BY DEF Runs, Executions

\* The client confirms only what it has been asked to confirm.
LEMMA DecidedType ==
    ASSUME NEW r \in Runs, NEW yes
    PROVE  /\ Decided(r, yes) \in Runs
           /\ Decided(r, yes).asked = r.asked
           /\ Decided(r, yes).answers = r.answers
           /\ \A c \in Calls :
                /\ Decided(r, yes).tools[c].needs = r.tools[c].needs
                /\ Decided(r, yes).tools[c].confirmed = "yes"
                      => \/ r.tools[c].confirmed = "yes"
                         \/ c \in yes /\ r.tools[c].needs = "confirm"
  <1>1. ASSUME NEW t \in Executions
        PROVE  /\ Accepted(t) \in Executions /\ Accepted(t).needs = t.needs
               /\ Accepted(t).confirmed = "yes"
                     => t.confirmed = "yes" \/ t.needs = "confirm"
               /\ Declined(t) \in Executions /\ Declined(t).needs = t.needs
               /\ Declined(t).confirmed = "yes" => t.confirmed = "yes"
    BY DEF Accepted, Declined, Executions
  <1> QED
    BY <1>1 DEF Decided, Runs

\* The calls with a result can be counted.
LEMMA SettlingIsFinite == IsFiniteSet(Settling)
  <1>1. IsFiniteSet(Calls)
    BY FS_Interval, CallCountAssumption DEF Calls
  <1> QED
    BY <1>1, FS_Subset DEF Settling

\* The variables of Model.response live only while it runs.
LoopIsLocal == pc \notin {"model", "calls", "loop_ends"} => loop = NewLoop

TypeInv == TypeOK /\ LoopIsLocal

\* The inductive form of TypesAreCorrect.
LEMMA TypeInvariant == Spec => []TypeInv
<1> USE DEF TypeInv
<1>1. Init => TypeInv
  <2> SUFFICES ASSUME Init PROVE TypeInv
    OBVIOUS
  <2>1. kind \in [Calls -> AllKinds] /\ function \in AllFunctions
    BY KindsAssumption, FunctionsAssumption DEF Init
  <2>2. loop.todo \subseteq loop.batch /\ loop.batch \subseteq run.asked
        /\ loop.paused = {}
    BY DEF Init, NewLoop
  <2>3. executed \in [Calls -> Nat]
    BY DEF Init
  <2> QED
    <3>1. TypeOK
      <4>1. run \in Runs /\ held \in Runs /\ stored \in Runs /\ loop \in Loops
        BY InitialTypes DEF Init
      <4>2. attempt \in 0 .. MaxRetries /\ continues \in 0 .. MaxContinues
        BY BoundsAssumption DEF Init
      <4>3. pc = "idle" /\ way = "run" /\ broken = FALSE
            /\ used = {} /\ confirmed = {} /\ failed = {}
        BY DEF Init
      <4> QED
        BY <2>1, <2>2, <2>3, <4>1, <4>2, <4>3 DEF TypeOK
    <3>2. LoopIsLocal
      BY DEF Init, LoopIsLocal
    <3> QED
      BY <3>1, <3>2
<1>2. TypeInv /\ [Next]_vars => TypeInv'
  <2> SUFFICES ASSUME TypeOK, LoopIsLocal, [Next]_vars PROVE TypeInv'
    OBVIOUS
  <2> USE DEF TypeOK, LoopIsLocal, Pausing
  <2>1. CASE StartRun
    BY <2>1 DEF StartRun, history
  <2>2. CASE ModelAnswers
    <3>1. PICK S \in SUBSET {c \in Calls : \A d \in used : d < c} :
            /\ run' = [run EXCEPT
                        !.asked = @ \cup S,
                        !.answers = [c \in Calls |->
                                        IF c \in S \ {d \in S : kind[d] # "unknown"}
                                        THEN Append(@[c], "error") ELSE @[c]]]
            /\ loop' = [loop EXCEPT !.batch = {d \in S : kind[d] # "unknown"},
                                    !.todo = {d \in S : kind[d] # "unknown"},
                                    !.results = NoResults, !.extra = 0]
            /\ pc' = (IF S = {} THEN "loop_ends" ELSE "calls")
            /\ used' = used \cup S
      BY <2>2 DEF ModelAnswers
    <3>2. \A c \in Calls : Append(run.answers[c], "error") \in Seq(Answers)
      BY DEF Runs, Answers
    <3>3. run' \in Runs /\ run'.asked = run.asked \cup S
      BY <3>1, <3>2 DEF Runs
    <3>4. loop' \in Loops /\ loop'.batch \subseteq S /\ loop'.todo = loop'.batch
          /\ loop'.paused = loop.paused
      BY <3>1 DEF Loops, NoResults
    <3> QED
      BY <2>2, <3>1, <3>3, <3>4 DEF ModelAnswers
  <2>3. CASE ModelRaises
    <3>1. run' \in Runs /\ attempt' \in 0 .. MaxRetries
      <4>1. [NewRun EXCEPT !.tools = run.tools] \in Runs
        BY InitialTypes DEF Runs
      <4> QED
        BY <2>3, <4>1, BoundsAssumption DEF ModelRaises
    <3>2. loop' = NewLoop /\ pc' \in {"model", "updating", "failed"}
      BY <2>3 DEF ModelRaises, Raises
    <3>3. held' \in Runs /\ failed' \subseteq AllWays
      BY <2>3, <3>1 DEF ModelRaises, Raises
    <3> QED
      BY <2>3, <3>1, <3>2, <3>3, InitialTypes DEF ModelRaises, NewLoop
  <2>4. ASSUME NEW c \in Calls, OverLimitCall(c) PROVE TypeInv'
    <3>1. loop' \in Loops /\ loop'.batch = loop.batch /\ loop'.todo \subseteq loop.todo
          /\ loop'.paused = loop.paused
      BY <2>4 DEF OverLimitCall, Handled, Loops, Answers
    <3> QED
      BY <2>4, <3>1 DEF OverLimitCall, Handling, history
  <2>5. ASSUME NEW c \in Calls, PauseCall(c) PROVE TypeInv'
    <3>1. loop' \in Loops /\ loop'.batch = loop.batch /\ loop'.todo \subseteq loop.todo
          /\ loop'.paused = loop.paused \cup {c} /\ c \in loop.todo
      BY <2>5 DEF PauseCall, Handled, Handling, IsFirst, Loops
    <3>2. run' \in Runs /\ run'.asked = run.asked
      BY <2>5, WaitingType DEF PauseCall, Runs
    <3> QED
      BY <2>5, <3>1, <3>2 DEF PauseCall, Handling, history
  <2>6. ASSUME NEW c \in Calls, ExecuteCall(c) PROVE TypeInv'
    <3>0. PICK how \in {"result", "error"}, stop \in {loop.stop, TRUE}, extra \in 0 .. 1 :
             loop' = [Handled(c) EXCEPT !.results[c] = how, !.stop = stop,
                                        !.extra = @ + extra, !.ran = @ + 1]
      BY <2>6 DEF ExecuteCall
    <3>1. /\ loop' \in Loops /\ loop'.batch = loop.batch /\ loop'.todo \subseteq loop.todo
          /\ loop'.paused = loop.paused
      <4>1. stop \in BOOLEAN
        BY DEF Loops
      <4>2. loop \in Loops
        OBVIOUS
      <4> HIDE DEF TypeOK
      <4> QED
        <5>1. loop.extra + extra \in Nat /\ loop.ran + 1 \in Nat
          BY <4>2 DEF Loops
        <5>2. [loop.results EXCEPT ![c] = how] \in [Calls -> Answers \cup {"none"}]
          BY <4>2 DEF Loops, Answers
        <5> QED
          BY <4>1, <4>2, <5>1, <5>2, <3>0 DEF Handled, Loops
    <3>2. executed' \in [Calls -> Nat]
      BY <2>6 DEF ExecuteCall
    <3> QED
      BY <2>6, <3>1, <3>2 DEF ExecuteCall, Handling
  <2>7. ASSUME NEW c \in Calls, CallBroken(c) PROVE TypeInv'
    <3>1. run' = [run EXCEPT !.torn = TRUE] /\ run' \in Runs
      BY <2>7, LeftTorn DEF CallBroken
    <3>2. /\ held' \in Runs /\ failed' \subseteq AllWays /\ loop' = NewLoop
          /\ pc' = "failed"
      BY <2>7, <3>1 DEF CallBroken, Raises
    <3>3. executed' \in [Calls -> Nat]
      BY <2>7 DEF CallBroken
    <3>4. NewLoop.batch = {} /\ NewLoop.todo = {} /\ NewLoop.paused = {}
      BY DEF NewLoop
    <3> QED
      BY <2>7, <3>1, <3>2, <3>3, <3>4, InitialTypes DEF CallBroken
  <2>8. CASE AfterCalls
    <3>1. \A c \in Calls : loop.results[c] # "none" =>
                Append(run.answers[c], loop.results[c]) \in Seq(Answers)
      BY DEF Runs, Loops
    <3>2. run' \in Runs /\ run'.asked = run.asked
      BY <2>8, <3>1 DEF AfterCalls, ResultsAdded, Settling, Runs
    <3>3. Cardinality(Settling) \in Nat
      BY SettlingIsFinite, FS_CardinalityType
    <3>4. /\ loop' \in Loops /\ loop'.batch = {} /\ loop'.todo = {}
          /\ loop'.paused = loop.paused
      <4>1. loop.count + Cardinality(Settling) + loop.extra \in Nat
        BY <3>3 DEF Loops
      <4>2. loop' = [loop EXCEPT !.count = loop.count + Cardinality(Settling) + loop.extra,
                                 !.batch = {}, !.results = NoResults, !.extra = 0]
        BY <2>8 DEF AfterCalls
      <4>3. loop.todo = {}
        BY <2>8 DEF AfterCalls
      <4> QED
        BY <4>1, <4>2, <4>3 DEF NoResults, Loops
    <3> QED
      BY <2>8, <3>2, <3>4 DEF AfterCalls, history
  <2>9. CASE LoopEnds
    <3>1. Outcome \in Runs
      <4>1. \A c \in loop.paused : Waiting(c) \in Executions
        BY WaitingType DEF Loops
      <4> QED
        BY <4>1 DEF Outcome, Runs
    <3> QED
      BY <2>9, <3>1, InitialTypes DEF LoopEnds, NewLoop, history
  <2>10. CASE ContinueRun
    <3>1. PICK w \in Ways, f \in Functions :
             \E yes \in SUBSET Open(IF w = "run_response" THEN held ELSE stored) :
                /\ run' = Decided(IF w = "run_response" THEN held ELSE stored, yes)
                /\ held' = (IF w = "run_response" THEN run' ELSE held)
                /\ way' = w
                /\ failed' = (IF failed = {} THEN {} ELSE failed \cup {w})
                /\ function' = f
      BY <2>10 DEF ContinueRun
    <3>2. run' \in Runs
      BY <3>1, DecidedType
    <3>3. loop' = NewLoop /\ loop.batch = {} /\ loop.todo = {} /\ loop.paused = {}
      BY <2>10 DEF ContinueRun, NewLoop
    <3>4. confirmed' \subseteq Calls
      BY <2>10 DEF ContinueRun, Open
    <3>5. /\ held' \in Runs /\ way' \in AllWays /\ failed' \subseteq AllWays
          /\ function' \in AllFunctions
      BY <3>1, <3>2, FunctionsAssumption, WaysAssumption
    <3>6. continues' \in 0 .. MaxContinues /\ attempt' \in 0 .. MaxRetries
      BY <2>10, BoundsAssumption DEF ContinueRun
    <3>7. UNCHANGED <<kind, stored, used, executed, broken>> /\ pc' = "updating"
      BY <2>10 DEF ContinueRun
    <3> QED
      BY <3>2, <3>3, <3>4, <3>5, <3>6, <3>7, InitialTypes DEF NewLoop
  <2>11. ASSUME NEW c \in Calls, UpdateRuns(c) PROVE TypeInv'
    <3>1. PICK how \in {"result", "error"} :
             run' = Answer([Settled(run, c) EXCEPT !.tools[c].result = "some"], c, how)
      BY <2>11 DEF UpdateRuns
    <3> DEFINE S == Settled(run, c)
    <3>2. S \in Runs /\ S.asked = run.asked
      BY SettledType
    <3> HIDE DEF S
    <3>3. [S EXCEPT !.tools[c].result = "some"] \in Runs
          /\ [S EXCEPT !.tools[c].result = "some"].asked = run.asked
      BY <3>2, ResultNoted
    <3>4. how \in Answers
      BY DEF Answers
    <3>5. run' = Answer([S EXCEPT !.tools[c].result = "some"], c, how)
      BY <3>1 DEF S
    <3>6. run' \in Runs /\ run'.asked = run.asked
      BY <3>3, <3>4, <3>5, AnswerType
    <3>7. executed' \in [Calls -> Nat]
      BY <2>11 DEF UpdateRuns
    <3> QED
      BY <2>11, <3>6, <3>7 DEF UpdateRuns, Updating
  <2>12. ASSUME NEW c \in Calls, UpdateRejects(c) PROVE TypeInv'
    <3> DEFINE S == Settled(run, c)
    <3>1. S \in Runs /\ S.asked = run.asked
      BY SettledType
    <3>2. run' = Answer([S EXCEPT !.tools[c].confirmed = "no"], c, "rejected")
      BY <2>12 DEF UpdateRejects
    <3> HIDE DEF S
    <3>3. [S EXCEPT !.tools[c].confirmed = "no"] \in Runs
          /\ [S EXCEPT !.tools[c].confirmed = "no"].asked = run.asked
      BY <3>1, Unconfirmed
    <3>4. "rejected" \in Answers
      BY DEF Answers
    <3>5. run' \in Runs /\ run'.asked = run.asked
      BY <3>2, <3>3, <3>4, AnswerType, ZenonT(60)
    <3> QED
      BY <2>12, <3>5 DEF UpdateRejects, Updating, history
  <2>13. ASSUME NEW c \in Calls, UpdateGiven(c) PROVE TypeInv'
    <3>1. Settled(run, c) \in Runs /\ Settled(run, c).asked = run.asked
      BY SettledType
    <3>2. "given" \in Answers /\ run' = Answer(Settled(run, c), c, "given")
      BY <2>13 DEF UpdateGiven, Answers
    <3>3. run' \in Runs /\ run'.asked = run.asked
      BY <3>1, <3>2, AnswerType
    <3> QED
      BY <2>13, <3>3 DEF UpdateGiven, Updating, history
  <2>14. ASSUME NEW c \in Calls, UpdateRefused(c) PROVE TypeInv'
    BY <2>14, InitialTypes DEF UpdateRefused, Updating, Raises, NewLoop
  <2>15. ASSUME NEW c \in Calls, UpdateBroken(c) PROVE TypeInv'
    <3>1. PICK told \in {"none", "some"} :
             run' = IF function = "sync" /\ run.tools[c].needs = "input"
                    THEN Settled([run EXCEPT !.tools[c].result = told, !.torn = TRUE], c)
                    ELSE [run EXCEPT !.tools[c].result = told, !.torn = TRUE]
      BY <2>15 DEF UpdateBroken
    <3>2. [run EXCEPT !.tools[c].result = told, !.torn = TRUE] \in Runs
      BY ToldAndTorn
    <3>3. run' \in Runs
      BY <3>1, <3>2, SettledType
    <3>4. executed' \in [Calls -> Nat]
      BY <2>15 DEF UpdateBroken
    <3>5. held' \in Runs /\ failed' \subseteq AllWays /\ loop' = NewLoop /\ pc' = "failed"
      BY <2>15, <3>3 DEF UpdateBroken, Raises
    <3>6. NewLoop.batch = {} /\ NewLoop.todo = {} /\ NewLoop.paused = {}
      BY DEF NewLoop
    <3> QED
      BY <2>15, <3>3, <3>4, <3>5, <3>6, InitialTypes DEF UpdateBroken
  <2>16. CASE UpdatesDone
    BY <2>16 DEF UpdatesDone, history
  <2>17. CASE UNCHANGED vars
    BY <2>17 DEF vars
  <2> QED
    BY <2>1, <2>2, <2>3, <2>4, <2>5, <2>6, <2>7, <2>8, <2>9, <2>10, <2>11, <2>12,
       <2>13, <2>14, <2>15, <2>16, <2>17 DEF Next
<1> QED
  BY <1>1, <1>2, PTL DEF Spec

\* Every variable keeps its type: a RunOutput stays well formed whatever a loop,
\* a continuation or an exception writes into it, and only calls of the run are
\* handled.
THEOREM TypesAreCorrect == Spec => []TypeOK
  <1>1. TypeInv => TypeOK
    BY DEF TypeInv
  <1> QED
    BY <1>1, TypeInvariant, PTL

----------------------------------------------------------------------------
(* What the RunOutput objects and the local variables say of each call.    *)

\* An open question has no answer, an answer is the only one, and only the client
\* confirms.
CallInv(r, c) ==
    /\ r.tools[c].needs \in {"nothing", kind[c]}
    /\ r.tools[c].needs # "nothing" => r.answers[c] = <<>> /\ c \in used
    /\ r.tools[c].confirmed = "yes" => c \in confirmed
    /\ Len(r.answers[c]) <= 1
    /\ r.answers[c] # <<>> => c \in used

RunsInv == \A c \in Calls : CallInv(run, c) /\ CallInv(held, c) /\ CallInv(stored, c)

\* Call c is in the hands of Model.response: it has neither answer nor question.
InHand(c) == run.answers[c] = <<>> /\ run.tools[c].needs = "nothing" /\ c \notin loop.paused

LoopInv ==
    /\ loop.batch \subseteq used /\ loop.paused \subseteq used
    /\ \A c \in loop.todo : InHand(c) /\ loop.results[c] = "none" /\ kind[c] # "unknown"
    /\ \A c \in Settling : InHand(c) /\ c \in loop.batch
    /\ \A c \in loop.paused : run.answers[c] = <<>>
    /\ pc # "calls" => loop.todo = {} /\ loop.results = NoResults

CallsInv == RunsInv /\ LoopInv /\ OnlyConfirmedCallsRun

\* A question that is settled with the answer to its call leaves all as it was.
LEMMA SettledAndAnswered ==
    ASSUME TypeOK, RunsInv,
           NEW c \in Calls, run.tools[c].needs # "nothing",
           NEW how \in Answers,
           NEW n \in Runs,
           n.answers = run.answers,
           n.tools[c].needs = "nothing",
           \A d \in Calls \ {c} : n.tools[d].needs = run.tools[d].needs,
           \A d \in Calls : n.tools[d].confirmed = "yes" => run.tools[d].confirmed = "yes"
    PROVE  \A d \in Calls : CallInv(Answer(n, c, how), d)
  <1>1. Append(run.answers[c], how) = <<how>>
    <2>1. run.answers[c] = <<>>
      BY DEF RunsInv, CallInv
    <2> QED
      BY <2>1
  <1>2. /\ Answer(n, c, how).tools = n.tools
        /\ Answer(n, c, how).answers[c] = <<how>>
        /\ \A d \in Calls \ {c} : Answer(n, c, how).answers[d] = run.answers[d]
    <2>1. Answer(n, c, how).answers = [run.answers EXCEPT ![c] = Append(run.answers[c], how)]
          /\ Answer(n, c, how).tools = n.tools
      BY AnswerType
    <2>2. run.answers \in [Calls -> Seq(Answers)]
      BY DEF TypeOK, Runs
    <2> QED
      BY <1>1, <2>1, <2>2
  <1>3. CallInv(Answer(n, c, how), c)
    <2>1. Len(<<how>>) = 1
      OBVIOUS
    <2> QED
      BY <1>2, <2>1 DEF RunsInv, CallInv
  <1>4. ASSUME NEW d \in Calls \ {c} PROVE CallInv(Answer(n, c, how), d)
    BY <1>2 DEF RunsInv, CallInv
  <1> QED
    BY <1>3, <1>4

\* What the messages, the questions and the confirmations have to do with each
\* other, through all steps.
LEMMA CallsInvariant == Spec => []CallsInv
<1>1. Init => CallsInv
  BY DEF Init, CallsInv, RunsInv, CallInv, LoopInv, OnlyConfirmedCallsRun, Settling,
         NewRun, NoExecution, NewLoop, NoResults
<1>2. TypeInv /\ TypeInv' /\ CallsInv /\ [Next]_vars => CallsInv'
  <2> SUFFICES ASSUME TypeOK, LoopIsLocal, TypeOK', LoopIsLocal', CallsInv, [Next]_vars
               PROVE  CallsInv'
    BY DEF TypeInv
  <2> USE DEF CallsInv
  <2>1. CASE StartRun
    BY <2>1 DEF StartRun, history, RunsInv, CallInv, LoopInv, Settling, InHand,
                OnlyConfirmedCallsRun
  <2>2. CASE ModelAnswers
    <3>1. PICK S \in SUBSET {c \in Calls : \A d \in used : d < c} :
            /\ run' = [run EXCEPT
                        !.asked = @ \cup S,
                        !.answers = [c \in Calls |->
                                        IF c \in S \ {d \in S : kind[d] # "unknown"}
                                        THEN Append(@[c], "error") ELSE @[c]]]
            /\ loop' = [loop EXCEPT !.batch = {d \in S : kind[d] # "unknown"},
                                    !.todo = {d \in S : kind[d] # "unknown"},
                                    !.results = NoResults, !.extra = 0]
            /\ pc' = (IF S = {} THEN "loop_ends" ELSE "calls")
            /\ used' = used \cup S
      BY <2>2 DEF ModelAnswers
    <3>2. UNCHANGED <<kind, held, stored, executed, confirmed>>
      BY <2>2 DEF ModelAnswers
    <3>3. used \subseteq Nat /\ S \subseteq Nat /\ S \cap used = {}
      <4>1. Calls \subseteq Nat /\ used \subseteq Calls
        BY CallCountAssumption DEF Calls, TypeOK
      <4>2. \A c \in S : c \notin used
        <5> SUFFICES ASSUME NEW c \in S, c \in used PROVE FALSE
          OBVIOUS
        <5>1. c < c /\ c \in Nat
          BY <3>1, <4>1
        <5> QED
          BY <5>1
      <4> QED
        BY <4>1, <4>2
    <3>4. \A c \in S : run.answers[c] = <<>> /\ run.tools[c].needs = "nothing"
                      /\ c \notin loop.paused
      BY <3>3, <3>1 DEF RunsInv, CallInv, LoopInv
    <3>5. /\ run'.tools = run.tools
          /\ \A c \in Calls : run'.answers[c] =
                IF c \in S /\ kind[c] = "unknown" THEN <<"error">> ELSE run.answers[c]
      <4>1. Append(<<>>, "error") = <<"error">>
        OBVIOUS
      <4>2. \A c \in S : Append(run.answers[c], "error") = <<"error">>
        BY <3>4, <4>1
      <4>3. run'.answers = [c \in Calls |->
                                IF c \in S \ {d \in S : kind[d] # "unknown"}
                                THEN Append(run.answers[c], "error") ELSE run.answers[c]]
            /\ run'.tools = run.tools
        BY <3>1 DEF TypeOK, Runs
      <4> QED
        BY <4>2, <4>3
    <3>6. RunsInv'
      BY <3>1, <3>2, <3>4, <3>5 DEF RunsInv, CallInv
    <3>7. LoopInv'
      <4>1. /\ loop'.batch = {d \in S : kind[d] # "unknown"} /\ loop'.todo = loop'.batch
            /\ loop'.results = NoResults /\ loop'.paused = loop.paused
        BY <3>1 DEF TypeOK, Loops
      <4>2. Settling' = {}
        BY <4>1 DEF Settling, NoResults
      <4>3. \A d \in loop'.todo :
                InHand(d)' /\ loop'.results[d] = "none" /\ kind'[d] # "unknown"
        BY <3>2, <3>4, <3>5, <4>1 DEF InHand, NoResults
      <4>4. \A d \in loop'.paused : run'.answers[d] = <<>>
        BY <3>3, <3>5, <4>1 DEF LoopInv, TypeOK, Loops
      <4>5. loop'.batch \subseteq used' /\ loop'.paused \subseteq used'
        BY <3>1, <4>1 DEF LoopInv
      <4>6. pc' # "calls" => loop'.todo = {} /\ loop'.results = NoResults
        BY <3>1, <4>1
      <4> QED
        BY <4>2, <4>3, <4>4, <4>5, <4>6 DEF LoopInv
    <3> QED
      BY <3>2, <3>6, <3>7 DEF OnlyConfirmedCallsRun
  <2>3. CASE ModelRaises
    <3>1. run' = run \/ run' = [NewRun EXCEPT !.tools = run.tools]
      BY <2>3 DEF ModelRaises
    <3>2. /\ held' \in {held, run'} /\ loop' = NewLoop
          /\ UNCHANGED <<kind, stored, used, executed, confirmed>>
      BY <2>3 DEF ModelRaises, Raises
    <3>3. /\ run'.tools = run.tools
          /\ \A c \in Calls : \/ run'.answers[c] = run.answers[c]
                               \/ run'.answers[c] = <<>>
      BY <3>1 DEF NewRun
    <3>4. RunsInv'
      BY <3>2, <3>3 DEF RunsInv, CallInv
    <3>5. LoopInv'
      BY <3>2 DEF LoopInv, NewLoop, NoResults, Settling
    <3> QED
      BY <3>2, <3>4, <3>5 DEF OnlyConfirmedCallsRun
  <2>4. ASSUME NEW c \in Calls, OverLimitCall(c) PROVE CallsInv'
    <3>1. /\ loop'.todo = loop.todo \ {c} /\ c \in loop.todo
          /\ loop'.results = [loop.results EXCEPT ![c] = "limit"]
          /\ loop'.batch = loop.batch /\ loop'.paused = loop.paused
      BY <2>4 DEF OverLimitCall, Handling, IsFirst, Handled, TypeOK, Loops
    <3>2. UNCHANGED <<kind, pc, run, held, stored, history>>
      BY <2>4 DEF OverLimitCall
    <3>3. Settling' = Settling \cup {c}
      BY <3>1 DEF Settling, TypeOK, Loops
    <3>4. LoopInv'
      <4>1. pc = "calls"
        BY <2>4 DEF OverLimitCall, Handling
      <4> QED
        BY <3>1, <3>2, <3>3, <4>1 DEF LoopInv, InHand, history, TypeOK, Loops
    <3> QED
      BY <3>2, <3>4 DEF RunsInv, CallInv, OnlyConfirmedCallsRun, history
  <2>5. ASSUME NEW c \in Calls, PauseCall(c) PROVE CallsInv'
    <3>1. /\ loop'.todo = loop.todo \ {c} /\ c \in loop.todo
          /\ loop'.results = loop.results /\ Settling' = Settling
          /\ loop'.batch = loop.batch /\ loop'.paused = loop.paused \cup {c}
      BY <2>5 DEF PauseCall, Handling, IsFirst, Handled, TypeOK, Loops, Settling
    <3>2. UNCHANGED <<kind, pc, held, stored, history>> /\ pc = "calls" /\ Pausing(c)
      BY <2>5 DEF PauseCall, Handling
    <3>3. /\ run'.answers = run.answers
          /\ \A d \in Calls \ {c} : run'.tools[d] = run.tools[d]
          /\ run'.tools[c] \in {run.tools[c], Waiting(c)}
      BY <2>5 DEF PauseCall, TypeOK, Runs
    <3>4. InHand(c) /\ c \in used /\ c \notin Settling
      BY <3>1 DEF LoopInv, TypeOK, Settling
    <3>5. RunsInv'
      BY <3>2, <3>3, <3>4, WaitingType DEF RunsInv, CallInv, InHand, history
    <3>6. LoopInv'
      <4>1. /\ loop.todo \subseteq Calls /\ Settling \subseteq Calls
            /\ loop.paused \subseteq Calls
        BY DEF TypeOK, Loops, Settling
      <4>2. \A d \in Calls \ {c} : InHand(d) => InHand(d)'
        BY <3>1, <3>3 DEF InHand
      <4>3. \A d \in loop'.todo : InHand(d)' /\ loop'.results[d] = "none" /\ kind'[d] # "unknown"
        BY <3>1, <3>2, <4>1, <4>2 DEF LoopInv
      <4>4. \A d \in Settling' : InHand(d)' /\ d \in loop'.batch
        BY <3>1, <3>4, <4>1, <4>2 DEF LoopInv
      <4>5. \A d \in loop'.paused : run'.answers[d] = <<>>
        BY <3>1, <3>3, <3>4 DEF LoopInv, InHand
      <4> QED
        BY <3>1, <3>2, <3>4, <4>3, <4>4, <4>5 DEF LoopInv, history
    <3> QED
      BY <3>2, <3>5, <3>6 DEF OnlyConfirmedCallsRun, history
  <2>6. ASSUME NEW c \in Calls, ExecuteCall(c) PROVE CallsInv'
    <3>1. PICK how \in {"result", "error"} :
             /\ loop'.todo = loop.todo \ {c} /\ c \in loop.todo
             /\ loop'.results = [loop.results EXCEPT ![c] = how]
             /\ loop'.batch = loop.batch /\ loop'.paused = loop.paused
      BY <2>6 DEF ExecuteCall, Handling, IsFirst, Handled, TypeOK, Loops
    <3>2. UNCHANGED <<kind, pc, run, held, stored, used, confirmed>> /\ pc = "calls"
      BY <2>6 DEF ExecuteCall, Handling
    <3>3. Settling' = Settling \cup {c}
      BY <3>1 DEF Settling, TypeOK, Loops
    <3>4. LoopInv'
      BY <3>1, <3>2, <3>3 DEF LoopInv, InHand, TypeOK, Loops
    <3>5. OnlyConfirmedCallsRun'
      <4>1. kind[c] = "plain"
        BY <2>6, <3>1 DEF ExecuteCall, LoopInv, Pausing, TypeOK, AllKinds
      <4>2. executed' = [executed EXCEPT ![c] = executed[c] + 1]
        BY <2>6 DEF ExecuteCall
      <4> QED
        BY <3>2, <4>1, <4>2 DEF OnlyConfirmedCallsRun, TypeOK
    <3> QED
      BY <3>2, <3>4, <3>5 DEF RunsInv, CallInv
  <2>7. ASSUME NEW c \in Calls, CallBroken(c) PROVE CallsInv'
    <3>1. PICK others \in SUBSET {d \in loop.todo \ {c} : ~Pausing(d)} :
             executed' = [d \in Calls |-> IF d \in others \cup {c}
                                          THEN executed[d] + 1 ELSE executed[d]]
      BY <2>7 DEF CallBroken
    <3>2. /\ UNCHANGED <<kind, stored, used, confirmed>> /\ loop' = NewLoop
          /\ held' \in {held, run'}
          /\ run'.answers = run.answers /\ run'.tools = run.tools
      <4>1. run' = [run EXCEPT !.torn = TRUE] /\ run \in Runs
        BY <2>7 DEF CallBroken, TypeOK
      <4> QED
        BY <2>7, <4>1, LeftTorn DEF CallBroken, Raises
    <3>3. \A d \in others \cup {c} : kind[d] = "plain"
      <4>1. others \cup {c} \subseteq {d \in loop.todo : ~Pausing(d)}
        BY <2>7, <3>1 DEF CallBroken, Handling, IsFirst
      <4> QED
        BY <4>1 DEF LoopInv, Pausing, TypeOK, Loops, AllKinds
    <3>4. OnlyConfirmedCallsRun'
      BY <3>1, <3>2, <3>3 DEF OnlyConfirmedCallsRun
    <3>5. LoopInv'
      BY <3>2 DEF LoopInv, NewLoop, NoResults, Settling
    <3>6. RunsInv'
      BY <3>2 DEF RunsInv, CallInv
    <3> QED
      BY <3>4, <3>5, <3>6
  <2>8. CASE AfterCalls
    <3>1. /\ loop'.batch = {} /\ loop'.todo = {} /\ loop'.results = NoResults
          /\ loop'.paused = loop.paused /\ Settling' = {}
      BY <2>8 DEF AfterCalls, TypeOK, Loops, Settling, NoResults
    <3>2. UNCHANGED <<kind, held, stored, history>>
      BY <2>8 DEF AfterCalls
    <3>3. /\ run'.tools = run.tools
          /\ \A c \in Settling : run'.answers[c] = <<loop.results[c]>>
          /\ \A c \in Calls \ Settling : run'.answers[c] = run.answers[c]
      <4>1. \A c \in Settling : Append(run.answers[c], loop.results[c]) = <<loop.results[c]>>
        <5>1. ASSUME NEW c \in Settling
              PROVE  Append(run.answers[c], loop.results[c]) = <<loop.results[c]>>
          <6>1. run.answers[c] = <<>>
            BY DEF LoopInv, InHand
          <6> QED
            BY <6>1
        <5> QED
          BY <5>1
      <4> QED
        BY <2>8, <4>1 DEF AfterCalls, ResultsAdded, TypeOK, Runs, Settling
    <3>4. \A c \in Settling : c \in used /\ run.tools[c].needs = "nothing"
                             /\ c \notin loop.paused
      BY DEF LoopInv, InHand
    <3>5. \A c \in Settling : Len(<<loop.results[c]>>) = 1 /\ <<loop.results[c]>> # <<>>
      OBVIOUS
    <3>6. RunsInv'
      <4>1. ASSUME NEW c \in Settling PROVE CallInv(run, c)'
        <5>1. /\ run'.answers[c] = <<loop.results[c]>> /\ c \in used
              /\ run'.tools[c] = run.tools[c] /\ run.tools[c].needs = "nothing"
          BY <3>3, <3>4
        <5>2. Len(run'.answers[c]) <= 1
          BY <3>5, <5>1
        <5>3. CallInv(run, c) /\ used' = used /\ confirmed' = confirmed /\ kind' = kind
          BY <3>2 DEF RunsInv, history, Settling
        <5> QED
          BY <5>1, <5>2, <5>3 DEF CallInv
      <4>2. ASSUME NEW c \in Calls \ Settling PROVE CallInv(run, c)'
        BY <3>2, <3>3 DEF RunsInv, CallInv, history
      <4> QED
        BY <3>2, <4>1, <4>2 DEF RunsInv, CallInv, history
    <3>7. LoopInv'
      <4>1. \A c \in loop.paused : run'.answers[c] = <<>>
        BY <3>3, <3>4 DEF LoopInv, TypeOK, Loops
      <4> QED
        BY <3>1, <3>2, <4>1 DEF LoopInv, history
    <3> QED
      BY <3>2, <3>6, <3>7 DEF OnlyConfirmedCallsRun, history
  <2>9. CASE LoopEnds
    <3>1. /\ Outcome.answers = run.answers
          /\ \A c \in loop.paused : Outcome.tools[c] = Waiting(c)
          /\ \A c \in Calls \ loop.paused : Outcome.tools[c] = run.tools[c]
      BY DEF Outcome, TypeOK, Runs, Loops
    <3>2. \A c \in loop.paused : Pausing(c) /\ run.answers[c] = <<>> /\ c \in used
      BY DEF LoopInv, TypeOK
    <3>3. /\ run' = Outcome /\ held' = Outcome /\ stored' = Outcome /\ loop' = NewLoop
          /\ UNCHANGED <<kind, history>>
      BY <2>9 DEF LoopEnds
    <3>4. \A c \in Calls : CallInv(Outcome, c)
      <4>1. ASSUME NEW c \in loop.paused PROVE CallInv(Outcome, c)
        BY <3>1, <3>2, WaitingType DEF CallInv, TypeOK, Loops
      <4>2. ASSUME NEW c \in Calls \ loop.paused PROVE CallInv(Outcome, c)
        BY <3>1 DEF RunsInv, CallInv
      <4> QED
        BY <4>1, <4>2
    <3>5. RunsInv'
      BY <3>3, <3>4 DEF RunsInv, CallInv, history
    <3>6. LoopInv'
      BY <3>3 DEF LoopInv, NewLoop, NoResults, Settling
    <3> QED
      BY <3>3, <3>5, <3>6 DEF OnlyConfirmedCallsRun, history
  <2>10. CASE ContinueRun
    <3>0. PICK w \in Ways, base \in {held, stored} : \E yes \in SUBSET Open(base) :
             /\ run' = Decided(base, yes)
             /\ held' = (IF w = "run_response" THEN run' ELSE held)
             /\ confirmed' = confirmed \cup {c \in yes : base.tools[c].needs = "confirm"}
      BY <2>10 DEF ContinueRun
    <3>1. PICK yes \in SUBSET Open(base) :
             /\ run' = Decided(base, yes)
             /\ held' = (IF w = "run_response" THEN run' ELSE held)
             /\ confirmed' = confirmed \cup {c \in yes : base.tools[c].needs = "confirm"}
      BY <3>0
    <3>2. UNCHANGED <<kind, stored, loop, used, executed>> /\ loop = NewLoop
      BY <2>10 DEF ContinueRun, LoopIsLocal
    <3>3. base \in Runs /\ yes \subseteq Calls
      BY DEF TypeOK, Open
    <3>4. \A c \in Calls : CallInv(run, c)'
      BY <3>1, <3>2, <3>3, DecidedType DEF RunsInv, CallInv
    <3>5. RunsInv'
      BY <3>1, <3>2, <3>4 DEF RunsInv, CallInv
    <3>6. LoopInv'
      BY <3>2 DEF LoopInv, NewLoop, NoResults, Settling
    <3> QED
      BY <3>1, <3>2, <3>5, <3>6 DEF OnlyConfirmedCallsRun
  <2>11. ASSUME NEW c \in Calls, UpdateRuns(c) PROVE CallsInv'
    <3>1. PICK how \in {"result", "error"} :
             run' = Answer([Settled(run, c) EXCEPT !.tools[c].result = "some"], c, how)
      BY <2>11 DEF UpdateRuns
    <3> DEFINE S == Settled(run, c)
               n == [S EXCEPT !.tools[c].result = "some"]
    <3>2. /\ S \in Runs /\ S.answers = run.answers /\ S.tools[c].needs = "nothing"
          /\ \A d \in Calls \ {c} : S.tools[d] = run.tools[d]
          /\ S.tools[c].confirmed = run.tools[c].confirmed
      BY SettledType DEF TypeOK
    <3> HIDE DEF S
    <3>3. /\ n \in Runs /\ n.answers = S.answers
          /\ \A d \in Calls : n.tools[d].needs = S.tools[d].needs
          /\ \A d \in Calls : n.tools[d].confirmed = "yes" => S.tools[d].confirmed = "yes"
      BY <3>2, ResultNoted
    <3> HIDE DEF n
    <3>4. /\ UNCHANGED <<kind, pc, loop, held, stored, used, confirmed>> /\ loop = NewLoop
          /\ run.tools[c].needs # "nothing"
      BY <2>11 DEF UpdateRuns, Updating, IsFirst, Open, LoopIsLocal
    <3>5. \A d \in Calls : CallInv(run', d)
      <4>1. \A d \in Calls : CallInv(Answer(n, c, how), d)
        BY <3>2, <3>3, <3>4, SettledAndAnswered DEF Answers
      <4>2. run' = Answer(n, c, how)
        BY <3>1 DEF n, S
      <4> QED
        BY <4>1, <4>2
    <3>6. RunsInv'
      BY <3>4, <3>5 DEF RunsInv, CallInv
    <3>7. LoopInv'
      BY <3>4 DEF LoopInv, NewLoop, NoResults, Settling
    <3>8. OnlyConfirmedCallsRun'
      <4>1. executed' = [executed EXCEPT ![c] = executed[c] + 1] /\ MayRun(run.tools[c])
        BY <2>11 DEF UpdateRuns
      <4>2. (kind[c] = "confirm" /\ c \in confirmed) \/ kind[c] = "input"
        BY <4>1 DEF MayRun, RunsInv, CallInv
      <4> QED
        BY <3>4, <4>1, <4>2 DEF OnlyConfirmedCallsRun, TypeOK
    <3> QED
      BY <3>6, <3>7, <3>8
  <2>12. ASSUME NEW c \in Calls, UpdateRejects(c) PROVE CallsInv'
    <3> DEFINE S == Settled(run, c)
               n == [S EXCEPT !.tools[c].confirmed = "no"]
               how == "rejected"
    <3>1. run' = Answer(n, c, how)
      BY <2>12 DEF UpdateRejects
    <3>2. /\ S \in Runs /\ S.answers = run.answers /\ S.tools[c].needs = "nothing"
          /\ \A d \in Calls \ {c} : S.tools[d] = run.tools[d]
          /\ S.tools[c].confirmed = run.tools[c].confirmed
      BY SettledType DEF TypeOK
    <3> HIDE DEF S
    <3>3. /\ n \in Runs /\ n.answers = S.answers
          /\ \A d \in Calls : n.tools[d].needs = S.tools[d].needs
          /\ \A d \in Calls : n.tools[d].confirmed = "yes" => S.tools[d].confirmed = "yes"
      BY <3>2, Unconfirmed
    <3> HIDE DEF n
    <3>4. /\ UNCHANGED <<kind, pc, loop, held, stored, history>> /\ loop = NewLoop
          /\ run.tools[c].needs # "nothing"
      BY <2>12 DEF UpdateRejects, Updating, IsFirst, Open, LoopIsLocal
    <3>5. \A d \in Calls : CallInv(run', d)
      <4>1. \A d \in Calls : CallInv(Answer(n, c, how), d)
        BY <3>2, <3>3, <3>4, SettledAndAnswered DEF Answers
      <4>2. run' = Answer(n, c, how)
        BY <3>1
      <4> QED
        BY <4>1, <4>2
    <3>6. RunsInv'
      BY <3>4, <3>5 DEF RunsInv, CallInv, history
    <3>7. LoopInv'
      BY <3>4 DEF LoopInv, NewLoop, NoResults, Settling
    <3> QED
      BY <3>4, <3>6, <3>7 DEF OnlyConfirmedCallsRun, history
  <2>13. ASSUME NEW c \in Calls, UpdateGiven(c) PROVE CallsInv'
    <3> DEFINE n == Settled(run, c)
    <3>1. /\ n \in Runs /\ n.answers = run.answers /\ n.tools[c].needs = "nothing"
          /\ \A d \in Calls \ {c} : n.tools[d] = run.tools[d]
          /\ n.tools[c].confirmed = run.tools[c].confirmed
      BY SettledType DEF TypeOK
    <3>2. run' = Answer(n, c, "given")
      BY <2>13 DEF UpdateGiven
    <3> HIDE DEF n
    <3>3. /\ UNCHANGED <<kind, pc, loop, held, stored, history>> /\ loop = NewLoop
          /\ run.tools[c].needs # "nothing"
      BY <2>13 DEF UpdateGiven, Updating, IsFirst, Open, LoopIsLocal
    <3>4. \A d \in Calls : CallInv(run', d)
      <4>1. "given" \in Answers
        BY DEF Answers
      <4>2. \A d \in Calls : CallInv(Answer(n, c, "given"), d)
        BY <3>1, <3>3, <4>1, SettledAndAnswered
      <4> QED
        BY <3>2, <4>2
    <3>5. RunsInv'
      BY <3>3, <3>4 DEF RunsInv, CallInv, history
    <3>6. LoopInv'
      BY <3>3 DEF LoopInv, NewLoop, NoResults, Settling
    <3> QED
      BY <3>3, <3>5, <3>6 DEF OnlyConfirmedCallsRun, history
  <2>14. ASSUME NEW c \in Calls, UpdateRefused(c) PROVE CallsInv'
    <3>1. /\ UNCHANGED <<kind, run, stored, used, executed, confirmed>>
          /\ held' \in {held, run}
          /\ loop' = NewLoop
      BY <2>14 DEF UpdateRefused, Raises
    <3>2. LoopInv'
      BY <3>1 DEF LoopInv, NewLoop, NoResults, Settling
    <3> QED
      BY <3>1, <3>2 DEF RunsInv, CallInv, OnlyConfirmedCallsRun
  <2>15. ASSUME NEW c \in Calls, UpdateBroken(c) PROVE CallsInv'
    <3>1. PICK told \in {"none", "some"} :
             run' = IF function = "sync" /\ run.tools[c].needs = "input"
                    THEN Settled([run EXCEPT !.tools[c].result = told, !.torn = TRUE], c)
                    ELSE [run EXCEPT !.tools[c].result = told, !.torn = TRUE]
      BY <2>15 DEF UpdateBroken
    <3> DEFINE n == [run EXCEPT !.tools[c].result = told, !.torn = TRUE]
    <3>2. /\ n \in Runs /\ n.answers = run.answers
          /\ \A d \in Calls : /\ n.tools[d].needs = run.tools[d].needs
                               /\ n.tools[d].confirmed = run.tools[d].confirmed
      <4>1. run \in Runs
        BY DEF TypeOK
      <4> QED
        BY <4>1, ToldAndTorn
    <3>3. run' \in {n, Settled(n, c)}
      BY <3>1
    <3> HIDE DEF n
    <3>4. /\ UNCHANGED <<kind, stored, used, confirmed>> /\ loop' = NewLoop
          /\ held' \in {held, run'}
          /\ executed' = [executed EXCEPT ![c] = executed[c] + 1] /\ MayRun(run.tools[c])
      BY <2>15 DEF UpdateBroken, Raises
    <3>5. \A d \in Calls : CallInv(run', d)
      <4>1. \A d \in Calls : CallInv(n, d)
        BY <3>2 DEF RunsInv, CallInv
      <4>2. \A d \in Calls : CallInv(Settled(n, c), d)
        BY <3>2, <4>1, SettledType DEF CallInv
      <4> QED
        BY <3>3, <4>1, <4>2
    <3>6. RunsInv'
      BY <3>4, <3>5 DEF RunsInv, CallInv
    <3>7. LoopInv'
      BY <3>4 DEF LoopInv, NewLoop, NoResults, Settling
    <3>8. (kind[c] = "confirm" /\ c \in confirmed) \/ kind[c] = "input"
      BY <3>4 DEF MayRun, RunsInv, CallInv
    <3>9. OnlyConfirmedCallsRun'
      BY <3>4, <3>8 DEF OnlyConfirmedCallsRun, TypeOK
    <3> QED
      BY <3>6, <3>7, <3>9
  <2>16. CASE UpdatesDone
    BY <2>16 DEF UpdatesDone, history, RunsInv, CallInv, LoopInv, Settling, InHand,
                 OnlyConfirmedCallsRun
  <2>17. CASE UNCHANGED vars
    BY <2>17 DEF vars, RunsInv, CallInv, LoopInv, Settling, InHand, OnlyConfirmedCallsRun
  <2> QED
    BY <2>1, <2>2, <2>3, <2>4, <2>5, <2>6, <2>7, <2>8, <2>9, <2>10, <2>11, <2>12,
       <2>13, <2>14, <2>15, <2>16, <2>17 DEF Next
<1> QED
  BY <1>1, <1>2, TypeInvariant, PTL DEF Spec

\* A call that needs a confirmation is executed only after the client has given it
\* for this call, and one to be executed elsewhere never (handle_tool_call_updates,
\* create_function_call_results), whatever fails in between.
THEOREM ConfirmedFirst == Spec => []OnlyConfirmedCallsRun
  BY CallsInvariant, PTL DEF CallsInv

\* No RunOutput ever has two answers to a call: what the check in
\* _handle_external_execution_update is for cannot happen.
THEOREM OneAnswer == Spec => []AnsweredAtMostOnce
  <1>1. CallsInv => AnsweredAtMostOnce
    BY DEF CallsInv, RunsInv, CallInv, AnsweredAtMostOnce
  <1> QED
    BY <1>1, CallsInvariant, PTL

----------------------------------------------------------------------------
(* Truth.  As long as nothing was left between an execution and its        *)
(* message, and no continuation by the run id has lost what another did,   *)
(* a call without an answer that may still be given one was not executed.  *)

TruthOf(c) ==
    /\ c \notin used => executed[c] = 0
    /\ run.tools[c].needs # "nothing" => executed[c] = 0
    /\ run.answers[c] # <<>> => IsTrue(Head(run.answers[c]), c)
    /\ c \in loop.todo \cup loop.paused => executed[c] = 0
    /\ loop.results[c] # "none" => IsTrue(loop.results[c], c)

\* The object that the next continuation starts with knows all that was done.
BaseInv ==
    /\ pc \in {"paused", "completed"} => held = run /\ stored = run
    /\ pc = "failed" /\ way # "run" => way = "run_response" /\ held = run /\ failed # {}
    /\ way = "run" /\ pc \notin {"paused", "completed"} => stored = NewRun

TruthInv == ~broken /\ ~Forgetful => BaseInv /\ \A c \in Calls : TruthOf(c)

\* A call that is executed for the first time: whatever its result says is true.
LEMMA FirstExecution ==
    ASSUME TypeOK, NEW c \in Calls, executed' = [executed EXCEPT ![c] = @ + 1]
    PROVE  /\ \A how \in {"result", "error"} : IsTrue(how, c)'
           /\ kind' = kind =>
                \A d \in Calls \ {c}, how \in Answers : IsTrue(how, d) => IsTrue(how, d)'
  BY DEF TypeOK, IsTrue

\* The truth of the answers, through all steps.
LEMMA TruthInvariant == Spec => []TruthInv
<1>1. Init => TruthInv
  BY DEF Init, TruthInv, BaseInv, TruthOf, NewRun, NoExecution, NewLoop, NoResults
<1>2. TypeInv /\ TypeInv' /\ CallsInv /\ TruthInv /\ [Next]_vars => TruthInv'
  <2> SUFFICES ASSUME TypeOK, LoopIsLocal, TypeOK', LoopIsLocal', CallsInv, TruthInv,
                      [Next]_vars, ~broken', ~Forgetful'
               PROVE  BaseInv' /\ \A c \in Calls : TruthOf(c)'
    BY DEF TypeInv, TruthInv
  <2>0. ~broken /\ ~Forgetful /\ BaseInv /\ \A c \in Calls : TruthOf(c)
    <3>1. broken => broken'
      BY DEF Next, vars, history, StartRun, ModelAnswers, ModelRaises, OverLimitCall,
             PauseCall, ExecuteCall, CallBroken, AfterCalls, LoopEnds, ContinueRun,
             UpdateRuns, UpdateRejects, UpdateGiven, UpdateRefused, UpdateBroken, UpdatesDone
    <3>2. failed \subseteq failed'
      BY DEF Next, vars, history, StartRun, ModelAnswers, ModelRaises, OverLimitCall,
             PauseCall, ExecuteCall, CallBroken, AfterCalls, LoopEnds, ContinueRun, Raises,
             UpdateRuns, UpdateRejects, UpdateGiven, UpdateRefused, UpdateBroken, UpdatesDone
    <3> QED
      BY <3>1, <3>2 DEF Forgetful, TruthInv
  <2>a. ASSUME UNCHANGED <<kind, used, executed, run, loop>> PROVE \A c \in Calls : TruthOf(c)'
    BY <2>0, <2>a DEF TruthOf, IsTrue
  <2>b. ASSUME Raises, UNCHANGED <<run, way, stored>>, pc \in {"model", "updating"}
        PROVE  BaseInv'
    <3>1. way # "run" => way = "run_response" /\ failed' # {}
      BY <2>b DEF Raises, Forgetful, TypeOK, AllWays
    <3>2. way = "run" => stored = NewRun
      BY <2>0, <2>b DEF BaseInv
    <3> QED
      BY <2>b, <3>1, <3>2 DEF Raises, BaseInv
  <2>1. CASE StartRun
    BY <2>0, <2>1, <2>a DEF StartRun, history, BaseInv
  <2>2. CASE ModelAnswers
    <3>1. PICK S \in SUBSET {c \in Calls : \A d \in used : d < c} :
            /\ run' = [run EXCEPT
                        !.asked = @ \cup S,
                        !.answers = [c \in Calls |->
                                        IF c \in S \ {d \in S : kind[d] # "unknown"}
                                        THEN Append(@[c], "error") ELSE @[c]]]
            /\ loop' = [loop EXCEPT !.batch = {d \in S : kind[d] # "unknown"},
                                    !.todo = {d \in S : kind[d] # "unknown"},
                                    !.results = NoResults, !.extra = 0]
            /\ used' = used \cup S
      BY <2>2 DEF ModelAnswers
    <3>2. /\ UNCHANGED <<kind, held, stored, executed, way, failed>> /\ pc = "model"
          /\ pc' \in {"loop_ends", "calls"}
      BY <2>2 DEF ModelAnswers
    <3>3. \A c \in S : c \notin used /\ run.answers[c] = <<>>
      <4> SUFFICES ASSUME NEW c \in S PROVE c \notin used
        BY DEF RunsInv, CallInv, CallsInv
      <4>1. c \in Nat
        BY CallCountAssumption DEF Calls
      <4> QED
        BY <3>1, <4>1
    <3>4. ASSUME NEW c \in Calls PROVE TruthOf(c)'
      <4>1. /\ run'.tools = run.tools /\ loop'.paused = loop.paused
            /\ loop'.todo \subseteq S /\ loop'.results[c] = "none"
        BY <3>1 DEF TypeOK, Runs, Loops, NoResults
      <4>2. IF c \in S /\ kind[c] = "unknown"
            THEN run'.answers[c] = Append(run.answers[c], "error")
            ELSE run'.answers[c] = run.answers[c]
        BY <3>1 DEF TypeOK, Runs
      <4>3. c \in S /\ run'.answers[c] # <<>> => Head(run'.answers[c]) = "error" /\ kind[c] = "unknown"
        <5> SUFFICES ASSUME c \in S, kind[c] = "unknown"
                     PROVE  Head(run'.answers[c]) = "error"
          BY <3>3, <4>2
        <5>1. run'.answers[c] = <<"error">>
          BY <3>3, <4>2
        <5> QED
          BY <5>1
      <4> QED
        BY <2>0, <3>1, <3>2, <3>3, <4>1, <4>2, <4>3 DEF TruthOf, IsTrue
    <3>5. BaseInv'
      BY <2>0, <3>2 DEF BaseInv
    <3> QED
      BY <3>4, <3>5
  <2>3. CASE ModelRaises
    <3>1. /\ run' = run \/ run' = [NewRun EXCEPT !.tools = run.tools]
          /\ loop' = NewLoop /\ UNCHANGED <<kind, used, executed, way, stored>> /\ pc = "model"
      BY <2>3 DEF ModelRaises, Raises
    <3>2. ASSUME NEW c \in Calls PROVE TruthOf(c)'
      <4>1. /\ run'.tools = run.tools
            /\ run'.answers[c] = run.answers[c] \/ run'.answers[c] = <<>>
        BY <3>1 DEF NewRun
      <4>2. loop'.todo = {} /\ loop'.paused = {} /\ loop'.results[c] = "none"
        BY <3>1 DEF NewLoop, NoResults
      <4> QED
        BY <2>0, <3>1, <4>1, <4>2 DEF TruthOf, IsTrue
    <3>3. BaseInv'
      <4>1. CASE pc' = "failed"
        <5>1. run' = run /\ Raises
          BY <2>3, <4>1 DEF ModelRaises
        <5> QED
          BY <2>b, <3>1, <5>1
      <4>2. CASE pc' # "failed"
        <5>1. pc' \in {"model", "updating"}
          BY <2>3, <4>2 DEF ModelRaises, Raises
        <5> QED
          BY <2>0, <3>1, <5>1 DEF BaseInv
      <4> QED
        BY <4>1, <4>2
    <3> QED
      BY <3>2, <3>3
  <2>4. ASSUME NEW c \in Calls, OverLimitCall(c)
        PROVE  BaseInv' /\ \A d \in Calls : TruthOf(d)'
    <3>1. /\ loop'.todo = loop.todo \ {c} /\ c \in loop.todo
          /\ loop'.results = [loop.results EXCEPT ![c] = "limit"]
          /\ loop'.paused = loop.paused
      BY <2>4 DEF OverLimitCall, Handling, IsFirst, Handled, TypeOK, Loops
    <3>2. UNCHANGED <<kind, pc, run, held, stored, way, used, executed, failed>>
      BY <2>4 DEF OverLimitCall, history
    <3>3. executed[c] = 0
      BY <2>0, <3>1 DEF TruthOf
    <3>4. \A d \in Calls : TruthOf(d)'
      BY <2>0, <3>1, <3>2, <3>3 DEF TruthOf, IsTrue, TypeOK, Loops
    <3> QED
      BY <2>0, <3>2, <3>4 DEF BaseInv
  <2>5. ASSUME NEW c \in Calls, PauseCall(c)
        PROVE  BaseInv' /\ \A d \in Calls : TruthOf(d)'
    <3>1. /\ loop'.todo = loop.todo \ {c} /\ c \in loop.todo
          /\ loop'.results = loop.results /\ loop'.paused = loop.paused \cup {c}
      BY <2>5 DEF PauseCall, Handling, IsFirst, Handled, TypeOK, Loops
    <3>2. UNCHANGED <<kind, pc, held, stored, way, used, executed, failed>> /\ pc = "calls"
      BY <2>5 DEF PauseCall, Handling, history
    <3>3. /\ run'.answers = run.answers
          /\ \A d \in Calls \ {c} : run'.tools[d] = run.tools[d]
      BY <2>5 DEF PauseCall, TypeOK, Runs
    <3>4. executed[c] = 0
      BY <2>0, <3>1 DEF TruthOf
    <3>5. \A d \in Calls : TruthOf(d)'
      BY <2>0, <3>1, <3>2, <3>3, <3>4 DEF TruthOf, IsTrue
    <3> QED
      BY <2>0, <3>2, <3>5 DEF BaseInv
  <2>6. ASSUME NEW c \in Calls, ExecuteCall(c)
        PROVE  BaseInv' /\ \A d \in Calls : TruthOf(d)'
    <3>1. PICK how \in {"result", "error"} :
             /\ loop'.todo = loop.todo \ {c} /\ c \in loop.todo
             /\ loop'.results = [loop.results EXCEPT ![c] = how]
             /\ loop'.paused = loop.paused
      BY <2>6 DEF ExecuteCall, Handling, IsFirst, Handled, TypeOK, Loops
    <3>2. /\ UNCHANGED <<kind, pc, run, held, stored, way, used, failed>> /\ pc = "calls"
          /\ executed' = [executed EXCEPT ![c] = @ + 1]
      BY <2>6 DEF ExecuteCall, Handling
    <3>3. InHand(c) /\ c \in used
      BY <3>1 DEF CallsInv, LoopInv, TypeOK
    <3>4. TruthOf(c)'
      <4>1. loop'.results[c] = how /\ executed'[c] > 0
        BY <3>1, <3>2 DEF TypeOK, Loops
      <4>2. IsTrue(loop.results[c], c)'
        BY <4>1 DEF IsTrue
      <4> QED
        BY <3>1, <3>2, <3>3, <4>2 DEF TruthOf, InHand
    <3>5. ASSUME NEW d \in Calls \ {c} PROVE TruthOf(d)'
      <4>1. loop'.results[d] = loop.results[d] /\ executed'[d] = executed[d]
        BY <3>1, <3>2 DEF TypeOK, Loops
      <4> QED
        BY <2>0, <3>1, <3>2, <4>1 DEF TruthOf, IsTrue
    <3> QED
      BY <2>0, <3>2, <3>4, <3>5 DEF BaseInv
  <2>7. ASSUME NEW c \in Calls, CallBroken(c)
        PROVE  BaseInv' /\ \A d \in Calls : TruthOf(d)'
    BY <2>7 DEF CallBroken
  <2>8. CASE AfterCalls
    <3>1. /\ loop'.todo = {} /\ loop'.results = NoResults /\ loop'.paused = loop.paused
          /\ run'.tools = run.tools
          /\ UNCHANGED <<kind, held, stored, way, used, executed, failed>>
          /\ pc = "calls" /\ pc' \in {"loop_ends", "model"}
      BY <2>8 DEF AfterCalls, ResultsAdded, history, TypeOK, Loops, Runs
    <3>2. ASSUME NEW c \in Calls
          PROVE  run'.answers[c] = IF loop.results[c] # "none"
                                   THEN <<loop.results[c]>> ELSE run.answers[c]
      <4>1. run'.answers[c] = IF loop.results[c] # "none"
                              THEN Append(run.answers[c], loop.results[c]) ELSE run.answers[c]
        BY <2>8 DEF AfterCalls, ResultsAdded, Settling, TypeOK, Runs
      <4>2. ASSUME loop.results[c] # "none"
            PROVE  Append(run.answers[c], loop.results[c]) = <<loop.results[c]>>
        <5>1. run.answers[c] = <<>>
          BY <4>2 DEF CallsInv, LoopInv, InHand, Settling
        <5> QED
          BY <5>1
      <4> QED
        BY <4>1, <4>2
    <3>3. ASSUME NEW c \in Calls PROVE TruthOf(c)'
      <4>0. Head(<<loop.results[c]>>) = loop.results[c]
        OBVIOUS
      <4>1. loop.results[c] # "none" => Head(run'.answers[c]) = loop.results[c]
        BY <3>2, <4>0
      <4>2. loop'.results[c] = "none"
        BY <3>1 DEF NoResults
      <4> QED
        BY <2>0, <3>1, <3>2, <4>1, <4>2 DEF TruthOf, IsTrue
    <3> QED
      BY <2>0, <3>1, <3>3 DEF BaseInv
  <2>9. CASE LoopEnds
    <3>1. /\ run' = Outcome /\ held' = Outcome /\ stored' = Outcome /\ loop' = NewLoop
          /\ UNCHANGED <<kind, way, used, executed, failed>>
          /\ pc' \in {"paused", "completed"}
      BY <2>9 DEF LoopEnds, history
    <3>2. ASSUME NEW c \in Calls PROVE TruthOf(c)'
      <4>1. /\ Outcome.answers = run.answers
            /\ c \notin loop.paused => Outcome.tools[c] = run.tools[c]
        BY DEF Outcome, TypeOK, Runs
      <4>2. loop'.todo = {} /\ loop'.paused = {} /\ loop'.results[c] = "none"
        BY <3>1 DEF NewLoop, NoResults
      <4> QED
        BY <2>0, <3>1, <4>1, <4>2 DEF TruthOf, IsTrue
    <3> QED
      BY <3>1, <3>2 DEF BaseInv
  <2>10. CASE ContinueRun
    <3>0. PICK w \in Ways, base \in {held, stored} : \E yes \in SUBSET Open(base) :
             /\ run' = Decided(base, yes) /\ way' = w
             /\ base = (IF w = "run_response" THEN held ELSE stored)
             /\ failed' = (IF failed = {} THEN {} ELSE failed \cup {w})
      BY <2>10 DEF ContinueRun
    <3>1. PICK yes \in SUBSET Open(base) :
             /\ run' = Decided(base, yes) /\ way' = w
             /\ base = (IF w = "run_response" THEN held ELSE stored)
             /\ failed' = (IF failed = {} THEN {} ELSE failed \cup {w})
      BY <3>0
    <3>2. /\ UNCHANGED <<kind, loop, used, executed>> /\ loop = NewLoop
          /\ pc \in {"paused", "failed"} /\ pc' = "updating" /\ Open(stored) # {}
      BY <2>10 DEF ContinueRun, LoopIsLocal
    <3>3. w \in {"run_response", "run_id"}
      BY WaysAssumption DEF AllWays
    <3>4. base = run
      <4>1. CASE pc = "paused"
        BY <2>0, <3>1, <4>1 DEF BaseInv
      <4>2. CASE pc = "failed"
        <5>1. way # "run"
          <6>1. Open(NewRun) = {}
            BY DEF Open, NewRun, NoExecution
          <6> QED
            BY <2>0, <3>2, <4>2, <6>1 DEF BaseInv
        <5>2. failed # {} /\ held = run
          BY <2>0, <4>2, <5>1 DEF BaseInv
        <5>3. w = "run_response"
          BY <3>1, <3>3, <5>2 DEF Forgetful
        <5> QED
          BY <3>1, <5>2, <5>3
      <4> QED
        BY <3>2, <4>1, <4>2
    <3>5. ASSUME NEW c \in Calls PROVE TruthOf(c)'
      <4>1. run'.answers = run.answers /\ run'.tools[c].needs = run.tools[c].needs
        BY <3>1, <3>4, DecidedType DEF TypeOK
      <4> QED
        BY <2>0, <3>2, <4>1 DEF TruthOf, IsTrue
    <3> QED
      BY <3>1, <3>2, <3>3, <3>5 DEF BaseInv
  <2>11. ASSUME NEW c \in Calls, NEW n \in Runs, NEW how \in Answers,
                run' = Answer(n, c, how), n.answers = run.answers,
                n.tools[c].needs = "nothing",
                \A d \in Calls \ {c} : n.tools[d].needs = run.tools[d].needs,
                run.tools[c].needs # "nothing", IsTrue(how, c)',
                \A d \in Calls \ {c} : executed'[d] = executed[d],
                UNCHANGED <<kind, used, loop>>, loop = NewLoop
         PROVE  \A d \in Calls : TruthOf(d)'
    <3>1. /\ run'.tools = n.tools
          /\ run'.answers = [run.answers EXCEPT ![c] = Append(run.answers[c], how)]
      BY <2>11, AnswerType
    <3>2. run.answers \in [Calls -> Seq(Answers)] /\ run.answers[c] = <<>> /\ c \in used
      BY <2>11 DEF TypeOK, Runs, CallsInv, RunsInv, CallInv
    <3>3. run'.answers[c] = <<how>> /\ Head(<<how>>) = how
      BY <3>1, <3>2
    <3>4. TruthOf(c)'
      BY <2>11, <3>1, <3>2, <3>3 DEF TruthOf, NewLoop, NoResults
    <3>5. ASSUME NEW d \in Calls \ {c} PROVE TruthOf(d)'
      <4>1. run'.answers[d] = run.answers[d] /\ run'.tools[d].needs = run.tools[d].needs
        BY <2>11, <3>1, <3>2
      <4>2. executed'[d] = executed[d] /\ UNCHANGED <<kind, used, loop>>
        BY <2>11
      <4> QED
        BY <2>0, <4>1, <4>2 DEF TruthOf, IsTrue
    <3> QED
      BY <3>4, <3>5
  <2>12. ASSUME NEW c \in Calls, Updating(c)
         PROVE  /\ pc = "updating" /\ loop = NewLoop /\ run.tools[c].needs # "nothing"
                /\ executed[c] = 0
    BY <2>0, <2>12 DEF Updating, IsFirst, Open, LoopIsLocal, TruthOf
  <2>13. ASSUME NEW c \in Calls, UpdateRuns(c)
         PROVE  BaseInv' /\ \A d \in Calls : TruthOf(d)'
    <3>1. PICK how \in {"result", "error"} :
             run' = Answer([Settled(run, c) EXCEPT !.tools[c].result = "some"], c, how)
      BY <2>13 DEF UpdateRuns
    <3> DEFINE S == Settled(run, c)
               n == [S EXCEPT !.tools[c].result = "some"]
    <3>2. /\ S \in Runs /\ S.answers = run.answers /\ S.tools[c].needs = "nothing"
          /\ \A d \in Calls \ {c} : S.tools[d] = run.tools[d]
      BY SettledType DEF TypeOK
    <3> HIDE DEF S
    <3>3. /\ n \in Runs /\ n.answers = S.answers
          /\ \A d \in Calls : n.tools[d].needs = S.tools[d].needs
      BY <3>2, ResultNoted
    <3>4. run' = Answer(n, c, how)
      BY <3>1 DEF S
    <3> HIDE DEF n
    <3>5. /\ UNCHANGED <<kind, pc, loop, held, stored, way, used, failed>> /\ Updating(c)
          /\ executed' = [executed EXCEPT ![c] = @ + 1]
      BY <2>13 DEF UpdateRuns
    <3>6. IsTrue(how, c)' /\ \A d \in Calls \ {c} : executed'[d] = executed[d]
      BY <3>5, FirstExecution DEF TypeOK
    <3>7. how \in Answers
      BY DEF Answers
    <3>8. \A d \in Calls : TruthOf(d)'
      BY <2>11, <2>12, <3>2, <3>3, <3>4, <3>5, <3>6, <3>7
    <3> QED
      BY <2>0, <2>12, <3>5, <3>8 DEF BaseInv
  <2>14. ASSUME NEW c \in Calls, UpdateRejects(c)
         PROVE  BaseInv' /\ \A d \in Calls : TruthOf(d)'
    <3> DEFINE S == Settled(run, c)
               n == [S EXCEPT !.tools[c].confirmed = "no"]
    <3>1. run' = Answer(n, c, "rejected")
      BY <2>14 DEF UpdateRejects
    <3>2. /\ S \in Runs /\ S.answers = run.answers /\ S.tools[c].needs = "nothing"
          /\ \A d \in Calls \ {c} : S.tools[d] = run.tools[d]
      BY SettledType DEF TypeOK
    <3> HIDE DEF S
    <3>3. /\ n \in Runs /\ n.answers = S.answers
          /\ \A d \in Calls : n.tools[d].needs = S.tools[d].needs
      BY <3>2, Unconfirmed
    <3> HIDE DEF n
    <3>4. UNCHANGED <<kind, pc, loop, held, stored, way, used, failed, executed>> /\ Updating(c)
      BY <2>14 DEF UpdateRejects, history
    <3>5. "rejected" \in Answers /\ IsTrue("rejected", c)'
      BY <2>12, <3>4 DEF Answers, IsTrue
    <3>6. \A d \in Calls : TruthOf(d)'
      BY <2>11, <2>12, <3>1, <3>2, <3>3, <3>4, <3>5
    <3> QED
      BY <2>0, <2>12, <3>4, <3>6 DEF BaseInv
  <2>15. ASSUME NEW c \in Calls, UpdateGiven(c)
         PROVE  BaseInv' /\ \A d \in Calls : TruthOf(d)'
    <3> DEFINE n == Settled(run, c)
    <3>1. /\ n \in Runs /\ n.answers = run.answers /\ n.tools[c].needs = "nothing"
          /\ \A d \in Calls \ {c} : n.tools[d] = run.tools[d]
      BY SettledType DEF TypeOK
    <3>2. run' = Answer(n, c, "given")
      BY <2>15 DEF UpdateGiven
    <3> HIDE DEF n
    <3>3. UNCHANGED <<kind, pc, loop, held, stored, way, used, failed, executed>> /\ Updating(c)
      BY <2>15 DEF UpdateGiven, history
    <3>4. "given" \in Answers /\ IsTrue("given", c)'
      BY <2>12, <3>3 DEF Answers, IsTrue
    <3>5. \A d \in Calls : TruthOf(d)'
      BY <2>11, <2>12, <3>1, <3>2, <3>3, <3>4
    <3> QED
      BY <2>0, <2>12, <3>3, <3>5 DEF BaseInv
  <2>16. ASSUME NEW c \in Calls, UpdateRefused(c)
         PROVE  BaseInv' /\ \A d \in Calls : TruthOf(d)'
    <3>1. /\ UNCHANGED <<kind, run, stored, used, executed, way>> /\ Raises /\ Updating(c)
          /\ loop' = loop
      BY <2>12, <2>16 DEF UpdateRefused, Raises
    <3> QED
      BY <2>12, <2>a, <2>b, <3>1
  <2>17. ASSUME NEW c \in Calls, UpdateBroken(c)
         PROVE  BaseInv' /\ \A d \in Calls : TruthOf(d)'
    BY <2>17 DEF UpdateBroken
  <2>18. CASE UpdatesDone
    BY <2>0, <2>18, <2>a DEF UpdatesDone, history, BaseInv
  <2>19. CASE UNCHANGED vars
    BY <2>0, <2>19, <2>a DEF vars, history, BaseInv
  <2> QED
    BY <2>1, <2>2, <2>3, <2>4, <2>5, <2>6, <2>7, <2>8, <2>9, <2>10, <2>13,
       <2>14, <2>15, <2>16, <2>17, <2>18, <2>19 DEF Next
<1> QED
  BY <1>1, <1>2, TypeInvariant, CallsInvariant, PTL DEF Spec

\* An answer tells the model whether its call was executed, through pauses, retries
\* and continuations (create_function_call_result, _handle_tool_call_updates), unless
\* a continuation that failed is followed by one that cannot know of it.
THEOREM AnswersTellTheTruth == Spec => []AnswersAreTrue
  <1>1. TruthInv => AnswersAreTrue
    BY DEF TruthInv, TruthOf, AnswersAreTrue
  <1> QED
    BY <1>1, TruthInvariant, PTL

\* With the same exception no call is executed a second time: it is executed while it
\* is handled or while its question is open, and was not executed then.
THEOREM ExecutedOnce == Spec => NoSecondExecution
<1> DEFINE Once == \A c \in Calls :
              executed[c] > 0 /\ executed'[c] > executed[c] => broken \/ Forgetful
<1>1. TypeInv /\ TruthInv /\ [Next]_vars => Once
  <2> SUFFICES ASSUME TypeOK, LoopIsLocal, TruthInv, [Next]_vars, ~broken, ~Forgetful,
                      NEW c \in Calls, executed[c] > 0
               PROVE  ~(executed'[c] > executed[c])
    BY DEF TypeInv
  <2>0. executed[c] \in Nat /\ c \notin loop.todo /\ run.tools[c].needs = "nothing"
    BY DEF TypeOK, TruthInv, TruthOf
  <2>1. ASSUME NEW d \in Calls, ExecuteCall(d) PROVE executed'[c] = executed[c]
    BY <2>0, <2>1 DEF ExecuteCall, Handling, IsFirst, TypeOK
  <2>2. ASSUME NEW d \in Calls, CallBroken(d) PROVE executed'[c] = executed[c]
    BY <2>0, <2>2 DEF CallBroken, Handling, IsFirst
  <2>3. ASSUME NEW d \in Calls, UpdateRuns(d) PROVE executed'[c] = executed[c]
    BY <2>0, <2>3 DEF UpdateRuns, Updating, IsFirst, Open, TypeOK
  <2>4. ASSUME NEW d \in Calls, UpdateBroken(d) PROVE executed'[c] = executed[c]
    BY <2>0, <2>4 DEF UpdateBroken, Updating, IsFirst, Open, TypeOK
  <2>5. executed'[c] = executed[c]
    BY <2>1, <2>2, <2>3, <2>4
       DEF Next, vars, history, StartRun, ModelAnswers, ModelRaises, OverLimitCall, PauseCall,
           AfterCalls, LoopEnds, ContinueRun, UpdateRejects, UpdateGiven, UpdateRefused,
           UpdatesDone
  <2> QED
    BY <2>0, <2>5
<1>2. [Next]_vars /\ TypeInv /\ TruthInv => [Once]_vars
  BY <1>1
<1> QED
  BY <1>2, TypeInvariant, TruthInvariant, PTL DEF Spec, NoSecondExecution

----------------------------------------------------------------------------
(* Wholeness.  A call the model has made is answered, or its question is   *)
(* open, or Model.response has it in hand.                                 *)

Whole(r, inHand) ==
    ~r.torn => \A c \in r.asked : \/ Len(r.answers[c]) = 1
                                  \/ r.tools[c].needs # "nothing"
                                  \/ c \in inHand

InLoop == pc \in {"model", "calls", "loop_ends"}

\* The form that the synchronous stream does not wait for.
FormOfStream(c) == function = "sync_stream" /\ kind[c] = "form"

\* While Model.response runs, the open questions are those of its paused calls; it
\* goes on only over a form of the stream.
QuestionsInv ==
    /\ InLoop => /\ Open(run) \subseteq loop.paused
                 /\ function \in Streaming => loop.paused \subseteq Open(run)
    /\ pc = "model" => \A c \in loop.paused : FormOfStream(c)
    /\ pc = "calls" => \A c \in loop.paused : FormOfStream(c) \/ c \in loop.batch
    /\ pc = "paused" => Open(run) # {}
    /\ pc \in {"idle", "completed"} => Open(run) = {}

RunIsWhole == Whole(run, loop.todo \cup Settling \cup loop.paused)

WholeInv == Whole(held, {}) /\ Whole(stored, {}) /\ RunIsWhole /\ QuestionsInv

\* The run without a loop: nothing is in hand.
LEMMA NothingInHand ==
    ASSUME loop = NewLoop
    PROVE  loop.todo \cup Settling \cup loop.paused = {} /\ loop.paused = {}
  BY DEF NewLoop, NoResults, Settling

\* An answer and the question it settles, in a run without a loop.
LEMMA AnsweredStaysWhole ==
    ASSUME TypeOK, CallsInv, WholeInv, NEW c \in Calls, NEW n \in Runs, NEW how \in Answers,
           run.tools[c].needs # "nothing", n.torn = run.torn, n.asked = run.asked,
           n.answers = run.answers,
           \A d \in Calls \ {c} : n.tools[d].needs = run.tools[d].needs,
           loop = NewLoop
    PROVE  Whole(Answer(n, c, how), {})
<1>1. /\ Answer(n, c, how).answers = [run.answers EXCEPT ![c] = Append(run.answers[c], how)]
      /\ Answer(n, c, how).tools = n.tools /\ Answer(n, c, how).asked = run.asked
  BY AnswerType
<1>2. Answer(n, c, how).torn = run.torn
  BY DEF Answer, Runs
<1>3. run.answers[c] = <<>> /\ run.answers \in [Calls -> Seq(Answers)] /\ run.asked \subseteq Calls
  BY DEF CallsInv, RunsInv, CallInv, TypeOK, Runs
<1>4. Len(Answer(n, c, how).answers[c]) = 1
  BY <1>1, <1>3
<1>5. \A d \in Calls \ {c} : Answer(n, c, how).answers[d] = run.answers[d]
  BY <1>1, <1>3
<1>6. Whole(run, {})
  BY NothingInHand DEF WholeInv, RunIsWhole
<1> QED
  BY <1>1, <1>2, <1>3, <1>4, <1>5, <1>6 DEF Whole

\* Where the calls, their answers and their questions are, through all steps.
LEMMA WholeInvariant == Spec => []WholeInv
<1>1. Init => WholeInv
  BY DEF Init, WholeInv, Whole, RunIsWhole, QuestionsInv, InLoop, Open, NewRun, NoExecution
<1>2. TypeInv /\ TypeInv' /\ CallsInv /\ CallsInv' /\ WholeInv /\ [Next]_vars => WholeInv'
  <2> SUFFICES ASSUME TypeOK, LoopIsLocal, TypeOK', LoopIsLocal', CallsInv, CallsInv',
                      WholeInv, [Next]_vars
               PROVE  WholeInv'
    BY DEF TypeInv
  <2>0. Whole(held, {}) /\ Whole(stored, {}) /\ RunIsWhole /\ QuestionsInv
    BY DEF WholeInv
  <2>a. ASSUME loop = NewLoop PROVE Whole(run, {})
    BY <2>0, <2>a, NothingInHand DEF RunIsWhole
  <2>b. ASSUME loop' = NewLoop, Whole(run', {}) PROVE RunIsWhole'
    <3>1. Whole(run, {})'
      BY <2>b DEF Whole
    <3>2. (loop.todo \cup Settling \cup loop.paused)' = {}
      BY <2>b DEF NewLoop, NoResults, Settling
    <3> QED
      BY <3>1, <3>2 DEF RunIsWhole
  <2>c. ASSUME loop = NewLoop, UNCHANGED <<loop, held, stored>>, Whole(run', {}), pc' = "updating"
        PROVE  WholeInv'
    BY <2>0, <2>b, <2>c DEF WholeInv, QuestionsInv, InLoop, Whole
  <2>d. ASSUME Raises, Whole(run', {}), stored' = stored PROVE WholeInv'
    <3>1. Whole(held', {})
      BY <2>0, <2>d DEF Raises
    <3>2. pc' = "failed" /\ loop' = NewLoop
      BY <2>d DEF Raises
    <3> QED
      BY <2>0, <2>b, <2>d, <3>1, <3>2 DEF WholeInv, QuestionsInv, InLoop, Whole
  <2>1. CASE StartRun
    <3>1. /\ UNCHANGED <<run, held, stored, loop>> /\ pc = "idle" /\ pc' = "model"
          /\ loop = NewLoop /\ Open(run) = {}
      BY <2>0, <2>1 DEF StartRun, LoopIsLocal, QuestionsInv
    <3>2. Whole(run', {}) /\ loop.paused = {}
      BY <2>a, <3>1, NothingInHand
    <3>3. RunIsWhole'
      BY <2>b, <3>1, <3>2
    <3> QED
      BY <2>0, <3>1, <3>2, <3>3 DEF WholeInv, QuestionsInv, InLoop, Whole, Open
  <2>2. CASE ModelAnswers
    <3>1. PICK S \in SUBSET {c \in Calls : \A d \in used : d < c} :
            /\ run' = [run EXCEPT
                        !.asked = @ \cup S,
                        !.answers = [c \in Calls |->
                                        IF c \in S \ {d \in S : kind[d] # "unknown"}
                                        THEN Append(@[c], "error") ELSE @[c]]]
            /\ loop' = [loop EXCEPT !.batch = {d \in S : kind[d] # "unknown"},
                                    !.todo = {d \in S : kind[d] # "unknown"},
                                    !.results = NoResults, !.extra = 0]
            /\ pc' = (IF S = {} THEN "loop_ends" ELSE "calls")
      BY <2>2 DEF ModelAnswers
    <3>2. UNCHANGED <<kind, function, held, stored>> /\ pc = "model"
      BY <2>2 DEF ModelAnswers
    <3>3. \A c \in S : run.answers[c] = <<>>
      <4> SUFFICES ASSUME NEW c \in S PROVE c \notin used
        BY DEF RunsInv, CallInv, CallsInv
      <4>1. c \in Nat
        BY CallCountAssumption DEF Calls
      <4> QED
        BY <3>1, <4>1
    <3>4. /\ run'.tools = run.tools /\ run'.asked = run.asked \cup S /\ run'.torn = run.torn
          /\ loop'.paused = loop.paused /\ loop'.todo = {d \in S : kind[d] # "unknown"}
          /\ loop.todo = {} /\ Settling = {}
      <4>1. loop.todo = {} /\ Settling = {}
        BY <3>2 DEF CallsInv, LoopInv, Settling, NoResults
      <4>2. /\ run'.tools = run.tools /\ run'.asked = run.asked \cup S
            /\ run'.torn = run.torn
        BY <3>1 DEF TypeOK, Runs
      <4>3. loop'.paused = loop.paused /\ loop'.todo = {d \in S : kind[d] # "unknown"}
        BY <3>1 DEF TypeOK, Loops
      <4> QED
        BY <4>1, <4>2, <4>3
    <3>5. RunIsWhole'
      <4>1. ASSUME NEW c \in S PROVE Len(run'.answers[c]) = 1 \/ c \in loop'.todo
        <5>1. CASE kind[c] = "unknown"
          <6>1. run'.answers[c] = Append(run.answers[c], "error")
            BY <3>1, <5>1 DEF TypeOK, Runs
          <6>2. Append(run.answers[c], "error") = <<"error">>
            <7>1. run.answers[c] = <<>>
              BY <3>3
            <7> QED
              BY <7>1
          <6> QED
            BY <6>1, <6>2
        <5>2. CASE kind[c] # "unknown"
          BY <3>4, <5>2
        <5> QED
          BY <5>1, <5>2
      <4>2. ASSUME NEW c \in run.asked \ S PROVE run'.answers[c] = run.answers[c]
        BY <3>1 DEF TypeOK, Runs
      <4>3. ~run.torn => \A c \in run.asked : \/ Len(run.answers[c]) = 1
                                              \/ run.tools[c].needs # "nothing"
                                              \/ c \in loop.paused
        BY <2>0, <3>4 DEF RunIsWhole, Whole
      <4> QED
        BY <3>4, <4>1, <4>2, <4>3 DEF RunIsWhole, Whole
    <3>6. QuestionsInv'
      <4>1. Open(run') = Open(run)
        BY <3>4 DEF Open
      <4>2. pc' \in {"loop_ends", "calls"}
        BY <3>1
      <4> QED
        BY <2>0, <3>2, <3>4, <4>1, <4>2 DEF QuestionsInv, InLoop, FormOfStream, Open
    <3> QED
      BY <2>0, <3>2, <3>5, <3>6 DEF WholeInv, Whole
  <2>3. CASE ModelRaises
    <3>1. pc = "model" /\ stored' = stored /\ loop' = NewLoop
      BY <2>3 DEF ModelRaises, Raises
    <3>2. loop.todo = {} /\ Settling = {}
      BY <3>1 DEF CallsInv, LoopInv, Settling, NoResults
    <3>3. loop.paused \subseteq Open(run)
      BY <2>0, <3>1 DEF QuestionsInv, InLoop, FormOfStream, Streaming
    <3>4. Whole(run, {})
      BY <2>0, <3>2, <3>3 DEF RunIsWhole, Whole, Open
    <3>5. CASE Raises /\ run' = run
      BY <2>d, <3>1, <3>4, <3>5
    <3>6. CASE function = "sync" /\ pc' = "updating" /\ run' = run /\ held' = held
      <4>1. Whole(run', {})
        BY <3>4, <3>6
      <4> QED
        BY <2>0, <2>b, <3>1, <3>6, <4>1 DEF WholeInv, QuestionsInv, InLoop, Whole
    <3>7. CASE /\ function = "sync" /\ pc' = "model" /\ held' = held
               /\ run' = [NewRun EXCEPT !.tools = run.tools]
      <4>1. run'.asked = {} /\ run'.tools = run.tools
        BY <3>7 DEF NewRun
      <4>2. Open(run) = {}
        BY <2>0, <3>1, <3>7 DEF QuestionsInv, InLoop, FormOfStream
      <4>3. Whole(run', {})
        BY <4>1 DEF Whole
      <4>4. loop'.paused = {}
        BY <3>1 DEF NewLoop
      <4> QED
        BY <2>0, <2>b, <3>1, <3>7, <4>1, <4>2, <4>3, <4>4
           DEF WholeInv, QuestionsInv, InLoop, Whole, Open
    <3> QED
      BY <2>3, <3>5, <3>6, <3>7 DEF ModelRaises
  <2>4. ASSUME NEW c \in Calls, OverLimitCall(c) PROVE WholeInv'
    <3>1. /\ loop'.todo = loop.todo \ {c} /\ c \in loop.todo /\ pc = "calls"
          /\ loop'.results = [loop.results EXCEPT ![c] = "limit"]
          /\ loop'.batch = loop.batch /\ loop'.paused = loop.paused
      BY <2>4 DEF OverLimitCall, Handling, IsFirst, Handled, TypeOK, Loops
    <3>2. UNCHANGED <<kind, pc, run, held, stored, function>>
      BY <2>4 DEF OverLimitCall
    <3>3. Settling' = Settling \cup {c}
      BY <3>1 DEF Settling, TypeOK, Loops
    <3> QED
      BY <2>0, <3>1, <3>2, <3>3
         DEF WholeInv, RunIsWhole, QuestionsInv, InLoop, Whole, Open, FormOfStream
  <2>5. ASSUME NEW c \in Calls, PauseCall(c) PROVE WholeInv'
    <3>1. /\ loop'.todo = loop.todo \ {c} /\ c \in loop.todo /\ c \in loop.batch
          /\ loop'.results = loop.results /\ Settling' = Settling
          /\ loop'.batch = loop.batch /\ loop'.paused = loop.paused \cup {c}
      BY <2>5 DEF PauseCall, Handling, IsFirst, Handled, TypeOK, Loops, Settling
    <3>2. UNCHANGED <<kind, pc, held, stored, function>> /\ pc = "calls" /\ Pausing(c)
      BY <2>5 DEF PauseCall, Handling
    <3>3. /\ run'.answers = run.answers /\ run'.asked = run.asked /\ run'.torn = run.torn
          /\ \A d \in Calls \ {c} : run'.tools[d] = run.tools[d]
          /\ run'.tools[c] = (IF function \in Streaming THEN Waiting(c) ELSE run.tools[c])
      BY <2>5 DEF PauseCall, TypeOK, Runs
    <3>4. RunIsWhole'
      BY <2>0, <3>1, <3>3 DEF RunIsWhole, Whole, TypeOK, Runs
    <3>5. Waiting(c).needs # "nothing"
      BY <3>2, WaitingType DEF Pausing
    <3>6. QuestionsInv'
      BY <2>0, <3>1, <3>2, <3>3, <3>5 DEF QuestionsInv, InLoop, Open, FormOfStream
    <3> QED
      BY <2>0, <3>2, <3>4, <3>6 DEF WholeInv, Whole
  <2>6. ASSUME NEW c \in Calls, ExecuteCall(c) PROVE WholeInv'
    <3>1. PICK how \in {"result", "error"} :
             /\ loop'.todo = loop.todo \ {c} /\ c \in loop.todo
             /\ loop'.results = [loop.results EXCEPT ![c] = how]
             /\ loop'.batch = loop.batch /\ loop'.paused = loop.paused
      BY <2>6 DEF ExecuteCall, Handling, IsFirst, Handled, TypeOK, Loops
    <3>2. UNCHANGED <<kind, pc, run, held, stored, function>>
      BY <2>6 DEF ExecuteCall
    <3>3. Settling' = Settling \cup {c}
      BY <3>1 DEF Settling, TypeOK, Loops
    <3> QED
      BY <2>0, <3>1, <3>2, <3>3
         DEF WholeInv, RunIsWhole, QuestionsInv, InLoop, Whole, Open, FormOfStream
  <2>7. ASSUME NEW c \in Calls, CallBroken(c) PROVE WholeInv'
    <3>1. run'.torn
      <4>1. run' = [run EXCEPT !.torn = TRUE] /\ run \in Runs
        BY <2>7 DEF CallBroken, TypeOK
      <4> QED
        BY <4>1, LeftTorn
    <3>2. Raises /\ stored' = stored
      BY <2>7 DEF CallBroken
    <3> QED
      BY <2>d, <3>1, <3>2 DEF Whole
  <2>8. CASE AfterCalls
    <3>1. /\ loop'.todo = {} /\ loop'.batch = {} /\ loop'.paused = loop.paused
          /\ loop.todo = {} /\ Settling' = {}
          /\ run'.tools = run.tools /\ run'.asked = run.asked /\ run'.torn = run.torn
          /\ UNCHANGED <<kind, held, stored, function>>
          /\ pc = "calls" /\ pc' \in {"loop_ends", "model"}
      BY <2>8 DEF AfterCalls, ResultsAdded, history, TypeOK, Loops, Runs, Settling, NoResults
    <3>2. ASSUME NEW c \in Calls
          PROVE  IF c \in Settling THEN Len(run'.answers[c]) = 1
                                   ELSE run'.answers[c] = run.answers[c]
      <4>1. run'.answers[c] = IF c \in Settling
                              THEN Append(run.answers[c], loop.results[c]) ELSE run.answers[c]
        BY <2>8 DEF AfterCalls, ResultsAdded, TypeOK, Runs
      <4>2. ASSUME c \in Settling
            PROVE  Len(Append(run.answers[c], loop.results[c])) = 1
        <5>1. run.answers[c] = <<>>
          BY <4>2 DEF CallsInv, LoopInv, InHand
        <5> QED
          BY <5>1
      <4> QED
        BY <4>1, <4>2
    <3>3. RunIsWhole'
      BY <2>0, <3>1, <3>2 DEF RunIsWhole, Whole, TypeOK, Runs
    <3>4. pc' = "model" => \A c \in loop.paused : FormOfStream(c)
      <4> SUFFICES ASSUME ~BreaksForUser, NEW c \in loop.paused, ~FormOfStream(c)
                   PROVE  FALSE
        BY <2>8 DEF AfterCalls
      <4>1. c \in loop.batch /\ Pausing(c)
        BY <2>0, <3>1 DEF QuestionsInv, TypeOK
      <4> QED
        BY <4>1 DEF BreaksForUser, FormOfStream, Pausing, Streaming, Async
    <3>5. QuestionsInv'
      BY <2>0, <3>1, <3>4 DEF QuestionsInv, InLoop, Open, FormOfStream
    <3> QED
      BY <2>0, <3>1, <3>3, <3>5 DEF WholeInv, Whole
  <2>9. CASE LoopEnds
    <3>1. /\ run' = Outcome /\ held' = Outcome /\ stored' = Outcome /\ loop' = NewLoop
          /\ pc = "loop_ends" /\ pc' = (IF Open(Outcome) # {} THEN "paused" ELSE "completed")
      BY <2>9 DEF LoopEnds
    <3>2. loop.todo = {} /\ Settling = {}
      BY <3>1 DEF CallsInv, LoopInv, Settling, NoResults
    <3>3. /\ Outcome.answers = run.answers /\ Outcome.asked = run.asked
          /\ Outcome.torn = run.torn
          /\ \A c \in loop.paused : Outcome.tools[c] = Waiting(c)
          /\ \A c \in Calls \ loop.paused : Outcome.tools[c] = run.tools[c]
      BY DEF Outcome, TypeOK, Runs, Loops
    <3>4. \A c \in loop.paused : Waiting(c).needs # "nothing"
      BY WaitingType DEF TypeOK, Runs, Pausing
    <3>5. Whole(Outcome, {})
      <4>1. run.asked \subseteq Calls
        BY DEF TypeOK, Runs
      <4> QED
        BY <2>0, <3>2, <3>3, <3>4, <4>1 DEF RunIsWhole, Whole
    <3>6. QuestionsInv'
      BY <3>1 DEF QuestionsInv, InLoop, Open
    <3> QED
      BY <2>b, <3>1, <3>5, <3>6 DEF WholeInv, Whole
  <2>10. CASE ContinueRun
    <3>0. PICK w \in Ways, base \in {held, stored} : \E yes \in SUBSET Open(base) :
             /\ run' = Decided(base, yes)
             /\ held' = (IF w = "run_response" THEN run' ELSE held)
      BY <2>10 DEF ContinueRun
    <3>1. PICK yes \in SUBSET Open(base) :
             /\ run' = Decided(base, yes)
             /\ held' = (IF w = "run_response" THEN run' ELSE held)
      BY <3>0
    <3>2. loop' = NewLoop /\ stored' = stored /\ pc' = "updating"
      BY <2>10 DEF ContinueRun, LoopIsLocal
    <3>3. Whole(run', {})
      <4>1. /\ run'.asked = base.asked /\ run'.answers = base.answers
            /\ \A c \in Calls : run'.tools[c].needs = base.tools[c].needs
            /\ base.asked \subseteq Calls
        <5>1. base \in Runs
          BY DEF TypeOK
        <5> QED
          BY <3>1, <5>1, DecidedType DEF Runs
      <4>2. run'.torn = base.torn
        BY <3>1 DEF Decided, TypeOK, Runs
      <4> QED
        BY <2>0, <4>1, <4>2 DEF Whole
    <3>4. Whole(held', {})
      BY <2>0, <3>1, <3>3
    <3> QED
      BY <2>0, <2>b, <3>2, <3>3, <3>4 DEF WholeInv, QuestionsInv, InLoop, Whole
  <2>11. ASSUME NEW c \in Calls, Updating(c)
         PROVE  pc = "updating" /\ loop = NewLoop /\ run.tools[c].needs # "nothing"
    BY <2>11 DEF Updating, IsFirst, Open, LoopIsLocal
  <2>12. /\ run \in Runs
         /\ \A c \in Calls : Settled(run, c) \in Runs /\ Settled(run, c).torn = run.torn
    BY SettledType DEF Settled, TypeOK, Runs
  <2>13. ASSUME NEW c \in Calls, UpdateRuns(c) PROVE WholeInv'
    <3>1. PICK how \in {"result", "error"} :
             run' = Answer([Settled(run, c) EXCEPT !.tools[c].result = "some"], c, how)
      BY <2>13 DEF UpdateRuns
    <3> DEFINE S == Settled(run, c)
               n == [S EXCEPT !.tools[c].result = "some"]
    <3>2. /\ S \in Runs /\ S.answers = run.answers /\ S.asked = run.asked /\ S.torn = run.torn
          /\ \A d \in Calls \ {c} : S.tools[d] = run.tools[d]
      BY <2>12, SettledType
    <3> HIDE DEF S
    <3>3. /\ n \in Runs /\ n.answers = S.answers /\ n.asked = S.asked
          /\ \A d \in Calls : n.tools[d].needs = S.tools[d].needs
      BY <3>2, ResultNoted
    <3>4. n.torn = S.torn
      BY <3>2 DEF Runs
    <3>5. run' = Answer(n, c, how)
      BY <3>1 DEF S
    <3> HIDE DEF n
    <3>6. UNCHANGED <<pc, loop, held, stored>> /\ Updating(c)
      BY <2>13 DEF UpdateRuns
    <3>7. Whole(Answer(n, c, how), {})
      BY <2>11, <3>2, <3>3, <3>4, <3>6, AnsweredStaysWhole DEF Answers
    <3> QED
      BY <2>11, <2>c, <3>5, <3>6, <3>7
  <2>14. ASSUME NEW c \in Calls, UpdateRejects(c) PROVE WholeInv'
    <3> DEFINE S == Settled(run, c)
               n == [S EXCEPT !.tools[c].confirmed = "no"]
    <3>1. run' = Answer(n, c, "rejected")
      BY <2>14 DEF UpdateRejects
    <3>2. /\ S \in Runs /\ S.answers = run.answers /\ S.asked = run.asked /\ S.torn = run.torn
          /\ \A d \in Calls \ {c} : S.tools[d] = run.tools[d]
      BY <2>12, SettledType
    <3> HIDE DEF S
    <3>3. /\ n \in Runs /\ n.answers = S.answers /\ n.asked = S.asked
          /\ \A d \in Calls : n.tools[d].needs = S.tools[d].needs
      BY <3>2, Unconfirmed
    <3>4. n.torn = S.torn
      BY <3>2 DEF Runs
    <3> HIDE DEF n
    <3>5. UNCHANGED <<pc, loop, held, stored>> /\ Updating(c)
      BY <2>14 DEF UpdateRejects
    <3>6. Whole(Answer(n, c, "rejected"), {})
      BY <2>11, <3>2, <3>3, <3>4, <3>5, AnsweredStaysWhole DEF Answers
    <3> QED
      BY <2>11, <2>c, <3>1, <3>5, <3>6
  <2>15. ASSUME NEW c \in Calls, UpdateGiven(c) PROVE WholeInv'
    <3> DEFINE n == Settled(run, c)
    <3>1. /\ n \in Runs /\ n.answers = run.answers /\ n.asked = run.asked /\ n.torn = run.torn
          /\ \A d \in Calls \ {c} : n.tools[d] = run.tools[d]
      BY <2>12, SettledType
    <3>2. run' = Answer(n, c, "given")
      BY <2>15 DEF UpdateGiven
    <3> HIDE DEF n
    <3>3. UNCHANGED <<pc, loop, held, stored>> /\ Updating(c)
      BY <2>15 DEF UpdateGiven
    <3>4. Whole(Answer(n, c, "given"), {})
      BY <2>11, <3>1, <3>3, AnsweredStaysWhole DEF Answers
    <3> QED
      BY <2>11, <2>c, <3>2, <3>3, <3>4
  <2>16. ASSUME NEW c \in Calls, UpdateRefused(c) PROVE WholeInv'
    <3>1. run' = run /\ Raises /\ stored' = stored /\ Updating(c)
      BY <2>16 DEF UpdateRefused
    <3> QED
      BY <2>11, <2>a, <2>d, <3>1
  <2>17. ASSUME NEW c \in Calls, UpdateBroken(c) PROVE WholeInv'
    <3>1. PICK told \in {"none", "some"} :
             run' = IF function = "sync" /\ run.tools[c].needs = "input"
                    THEN Settled([run EXCEPT !.tools[c].result = told, !.torn = TRUE], c)
                    ELSE [run EXCEPT !.tools[c].result = told, !.torn = TRUE]
      BY <2>17 DEF UpdateBroken
    <3>2. run'.torn
      BY <2>12, <3>1, ToldAndTorn DEF Settled, Runs
    <3>3. Raises /\ stored' = stored
      BY <2>17 DEF UpdateBroken
    <3> QED
      BY <2>d, <3>2, <3>3 DEF Whole
  <2>18. CASE UpdatesDone
    <3>1. /\ UNCHANGED <<run, held, stored, loop>> /\ pc' = "model"
          /\ loop = NewLoop /\ Open(run) = {}
      BY <2>18 DEF UpdatesDone, LoopIsLocal
    <3>2. Whole(run', {}) /\ loop.paused = {}
      BY <2>a, <3>1, NothingInHand
    <3>3. RunIsWhole'
      BY <2>b, <3>1, <3>2
    <3> QED
      BY <2>0, <3>1, <3>2, <3>3 DEF WholeInv, QuestionsInv, InLoop, Whole, Open
  <2>19. CASE UNCHANGED vars
    BY <2>0, <2>19 DEF vars, WholeInv, RunIsWhole, QuestionsInv, InLoop, Whole, Open,
                      FormOfStream, Settling
  <2> QED
    BY <2>1, <2>2, <2>3, <2>4, <2>5, <2>6, <2>7, <2>8, <2>9, <2>10, <2>13,
       <2>14, <2>15, <2>16, <2>17, <2>18, <2>19 DEF Next
<1> QED
  BY <1>1, <1>2, TypeInvariant, CallsInvariant, PTL DEF Spec

\* Whenever the model is asked, it finds exactly one message for each call it has made
\* and no question is open, and the client is given a paused run with a question or a
\* completed one with all answers, but for torn objects and the form that the
\* synchronous stream passes over (Model.response_stream).
THEOREM EveryCallIsAnswered == Spec => []ModelSeesEveryAnswer
  <1>1. TypeInv /\ CallsInv /\ WholeInv => ModelSeesEveryAnswer
    <2> SUFFICES ASSUME TypeOK, LoopIsLocal, CallsInv, WholeInv PROVE ModelSeesEveryAnswer
      BY DEF TypeInv
    <2>1. ASSUME pc = "model", ~run.torn, ~GoesOnAfterForm
          PROVE  Open(run) = {} /\ \A c \in run.asked : Len(run.answers[c]) = 1
      <3>1. loop.paused = {}
        BY <2>1 DEF WholeInv, QuestionsInv, FormOfStream, GoesOnAfterForm, TypeOK
      <3>2. loop.todo = {} /\ Settling = {}
        BY <2>1 DEF CallsInv, LoopInv, Settling, NoResults
      <3>3. Open(run) = {}
        BY <2>1, <3>1 DEF WholeInv, QuestionsInv, InLoop
      <3> QED
        BY <2>1, <3>1, <3>2, <3>3 DEF WholeInv, RunIsWhole, Whole, Open, TypeOK, Runs
    <2>2. ASSUME pc = "completed", ~run.torn PROVE Unanswered(run) = {}
      <3>1. Open(run) = {} /\ Whole(run, {})
        BY <2>2, NothingInHand DEF LoopIsLocal, WholeInv, QuestionsInv, RunIsWhole
      <3>2. \A c \in run.asked : Len(run.answers[c]) = 1
        BY <2>2, <3>1 DEF Whole, Open, TypeOK, Runs
      <3>3. Len(<<>>) = 0
        OBVIOUS
      <3> QED
        BY <3>2, <3>3 DEF Unanswered
    <2> QED
      BY <2>1, <2>2 DEF ModelSeesEveryAnswer, WholeInv, QuestionsInv
  <1> QED
    BY <1>1, TypeInvariant, CallsInvariant, WholeInvariant, PTL

----------------------------------------------------------------------------
(* The limit.  Executed calls are counted by their place in the answer and *)
(* by their results; the messages that exceptions bring only add to it.    *)

LimitInv ==
    /\ loop.ran <= Limit
    /\ pc # "calls" => loop.ran <= loop.count
    /\ pc = "calls" =>
         /\ loop.ran + Cardinality(loop.todo) <= loop.count + Cardinality(loop.batch)
         /\ loop.ran <= loop.count + Cardinality(Settling)

\* The calls of an answer can be counted.
LEMMA BatchIsFinite ==
    ASSUME TypeOK
    PROVE  /\ IsFiniteSet(loop.batch) /\ IsFiniteSet(loop.todo)
           /\ Cardinality(loop.batch) \in Nat /\ Cardinality(loop.todo) \in Nat
  <1>1. IsFiniteSet(Calls)
    BY FS_Interval, CallCountAssumption DEF Calls
  <1>2. loop.batch \subseteq Calls /\ loop.todo \subseteq Calls
    BY DEF TypeOK, Loops
  <1> QED
    BY <1>1, <1>2, FS_Subset, FS_CardinalityType

\* A call that has been handled leaves one call less to handle.
LEMMA HandledCount ==
    ASSUME TypeOK, NEW c \in loop.todo
    PROVE  Cardinality(loop.todo \ {c}) = Cardinality(loop.todo) - 1
  BY BatchIsFinite, FS_RemoveElement

\* The count of the limit, through all steps.
LEMMA LimitInvariant == Spec => []LimitInv
<1>1. Init => LimitInv
  BY BoundsAssumption DEF Init, NewLoop, LimitInv
<1>2. TypeInv /\ TypeInv' /\ CallsInv /\ LimitInv /\ [Next]_vars => LimitInv'
  <2> SUFFICES ASSUME TypeOK, TypeOK', CallsInv, LimitInv, [Next]_vars
               PROVE  LimitInv'
    BY DEF TypeInv
  <2>0. /\ loop.ran \in Nat /\ loop.count \in Nat /\ loop.extra \in Nat /\ Limit \in Nat
        /\ Cardinality(loop.batch) \in Nat /\ Cardinality(loop.todo) \in Nat
        /\ Cardinality(Settling) \in Nat
    BY BatchIsFinite, SettlingIsFinite, FS_CardinalityType, BoundsAssumption DEF TypeOK, Loops
  <2>a. ASSUME loop' = NewLoop, pc' # "calls" PROVE LimitInv'
    BY <2>a, <2>0 DEF LimitInv, NewLoop
  <2>1. CASE StartRun
    BY <2>1 DEF StartRun, LimitInv
  <2>2. CASE ModelAnswers
    <3>0. PICK known :
            loop' = [loop EXCEPT !.batch = known, !.todo = known,
                                 !.results = NoResults, !.extra = 0]
      BY <2>2 DEF ModelAnswers
    <3>1. /\ pc # "calls" /\ loop'.ran = loop.ran /\ loop'.count = loop.count
          /\ loop'.todo = loop'.batch
      <4>1. pc = "model"
        BY <2>2 DEF ModelAnswers
      <4>2. loop \in Loops
        BY DEF TypeOK
      <4> QED
        BY <3>0, <4>1, <4>2 DEF Loops
    <3>2. Settling' = {}
      <4>1. loop'.results = NoResults
        BY <3>0 DEF TypeOK, Loops
      <4> QED
        BY <4>1 DEF Settling, NoResults
    <3>3. Cardinality(Settling') = 0
      BY <3>2, FS_EmptySet
    <3>4. Cardinality(loop'.batch) \in Nat
      <4>1. loop'.batch \subseteq Calls
        BY DEF TypeOK, Loops
      <4>2. IsFiniteSet(Calls)
        BY FS_Interval, CallCountAssumption DEF Calls
      <4>3. IsFiniteSet(loop'.batch)
        BY <4>1, <4>2, FS_Subset
      <4> QED
        BY <4>3, FS_CardinalityType
    <3> QED
      BY <2>0, <3>1, <3>3, <3>4 DEF LimitInv
  <2>3. CASE ModelRaises
    BY <2>3, <2>a DEF ModelRaises, Raises
  <2>4. ASSUME NEW c \in Calls, OverLimitCall(c) PROVE LimitInv'
    <3>1. /\ loop'.todo = loop.todo \ {c} /\ c \in loop.todo /\ pc = "calls" /\ pc' = pc
          /\ loop'.results = [loop.results EXCEPT ![c] = "limit"]
          /\ loop'.batch = loop.batch /\ loop'.ran = loop.ran /\ loop'.count = loop.count
      BY <2>4 DEF OverLimitCall, Handling, IsFirst, Handled, TypeOK, Loops
    <3>2. Settling' = Settling \cup {c} /\ c \notin Settling
      BY <3>1 DEF Settling, TypeOK, Loops, CallsInv, LoopInv
    <3>3. Cardinality(Settling') = Cardinality(Settling) + 1
      BY <3>2, SettlingIsFinite, FS_AddElement
    <3> QED
      BY <2>0, <3>1, <3>3, HandledCount DEF LimitInv
  <2>5. ASSUME NEW c \in Calls, PauseCall(c) PROVE LimitInv'
    <3>1. /\ loop'.todo = loop.todo \ {c} /\ c \in loop.todo /\ pc = "calls" /\ pc' = pc
          /\ Settling' = Settling
          /\ loop'.batch = loop.batch /\ loop'.ran = loop.ran /\ loop'.count = loop.count
      BY <2>5 DEF PauseCall, Handling, IsFirst, Handled, TypeOK, Loops, Settling
    <3> QED
      BY <2>0, <3>1, HandledCount DEF LimitInv
  <2>6. ASSUME NEW c \in Calls, ExecuteCall(c) PROVE LimitInv'
    <3>1. PICK how \in {"result", "error"} :
             /\ loop'.todo = loop.todo \ {c} /\ c \in loop.todo /\ pc = "calls" /\ pc' = pc
             /\ loop'.results = [loop.results EXCEPT ![c] = how]
             /\ loop'.batch = loop.batch /\ loop'.ran = loop.ran + 1
             /\ loop'.count = loop.count
      BY <2>6 DEF ExecuteCall, Handling, IsFirst, Handled, TypeOK, Loops
    <3>2. Settling' = Settling \cup {c} /\ c \notin Settling
      BY <3>1 DEF Settling, TypeOK, Loops, CallsInv, LoopInv
    <3>3. Cardinality(Settling') = Cardinality(Settling) + 1
      BY <3>2, SettlingIsFinite, FS_AddElement
    <3>4. loop.count + Cardinality(loop.batch) - Cardinality(loop.todo) + 1 <= Limit
      BY <2>0, <2>6 DEF ExecuteCall, OverLimit, Place
    <3> QED
      BY <2>0, <3>1, <3>3, <3>4, HandledCount DEF LimitInv
  <2>7. ASSUME NEW c \in Calls, CallBroken(c) PROVE LimitInv'
    BY <2>7, <2>a DEF CallBroken, Raises
  <2>8. CASE AfterCalls
    <3>1. /\ loop'.ran = loop.ran /\ pc = "calls" /\ pc' # "calls"
          /\ loop'.count = loop.count + Cardinality(Settling) + loop.extra
      BY <2>8 DEF AfterCalls, TypeOK, Loops
    <3> QED
      BY <2>0, <3>1 DEF LimitInv
  <2>9. CASE LoopEnds
    BY <2>9, <2>a DEF LoopEnds
  <2>10. CASE ContinueRun
    BY <2>10 DEF ContinueRun, LimitInv
  <2>11. ASSUME NEW c \in Calls, UpdateRuns(c) PROVE LimitInv'
    BY <2>11 DEF UpdateRuns, Updating, LimitInv
  <2>12. ASSUME NEW c \in Calls, UpdateRejects(c) PROVE LimitInv'
    BY <2>12 DEF UpdateRejects, Updating, LimitInv
  <2>13. ASSUME NEW c \in Calls, UpdateGiven(c) PROVE LimitInv'
    BY <2>13 DEF UpdateGiven, Updating, LimitInv
  <2>14. ASSUME NEW c \in Calls, UpdateRefused(c) PROVE LimitInv'
    BY <2>14, <2>a DEF UpdateRefused, Raises
  <2>15. ASSUME NEW c \in Calls, UpdateBroken(c) PROVE LimitInv'
    BY <2>15, <2>a DEF UpdateBroken, Raises
  <2>16. CASE UpdatesDone
    BY <2>16 DEF UpdatesDone, LimitInv
  <2>17. CASE UNCHANGED vars
    BY <2>17 DEF vars, LimitInv, Settling
  <2> QED
    BY <2>1, <2>2, <2>3, <2>4, <2>5, <2>6, <2>7, <2>8, <2>9, <2>10, <2>11, <2>12,
       <2>13, <2>14, <2>15, <2>16, <2>17 DEF Next
<1> QED
  BY <1>1, <1>2, TypeInvariant, CallsInvariant, PTL DEF Spec

\* One call of Model.response executes at most as many calls as the limit allows
\* (Model.run_function_calls), over any number of answers of the model.
THEOREM LimitHolds == Spec => []LimitIsKept
  <1>1. LimitInv => LimitIsKept
    BY DEF LimitInv, LimitIsKept
  <1> QED
    BY <1>1, LimitInvariant, PTL
=============================================================================
