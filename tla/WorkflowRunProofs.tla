-------------------------- MODULE WorkflowRunProofs --------------------------
(***************************************************************************)
(* Theorems about WorkflowRun, for every set of run ids, every choice of   *)
(* entry points and steps, any length of the list, with overlapping runs   *)
(* and failing database calls.                                             *)
(*                                                                         *)
(* RunInv is what holds of each run at each point of its function; it      *)
(* speaks of one run only, so a step of another run cannot disturb it.     *)
(* StoreInv is what the session row and the copies of it may say of a run. *)
(***************************************************************************)
EXTENDS WorkflowRun, TLAPS

Tracked(r) == cancelledRuns[r] # "untracked"
IsCancelled(r) == cancelledRuns[r] = "cancelled"

\* The points before the run is registered, and those at which its steps go on.
Before == {"idle", "called", "accepted", "scheduled", "begin"}

Working == {"started", "top", "unheard", "evaluating", "stepping", "stepped",
            "custom", "custom_running"}

\* Where the registry has an entry for the run.
RegistryInv(r) ==
    /\ pc[r] \in ExecutingPoints => Tracked(r)
    /\ pc[r] \in Before => ~Tracked(r)
    /\ pc[r] = "failing" => function[r] \in Background /\ exit[r] # "return"
    /\ pc[r] = "ended" /\ Tracked(r)
          => /\ ~HasFinally(function[r], steps)
             /\ exit[r] = "return" => function[r] = "_execute"

\* Where the run is in its list, and what its RunOutput and its exit say there.
PathInv(r) ==
    /\ pc[r] \in Before \cup {"started"} => position[r] = 1
    /\ pc[r] \in {"evaluating", "stepping", "stepped"} => position[r] <= StepCount
    /\ pc[r] \in {"custom", "custom_running"} => steps # "list"
    /\ pc[r] \in Before \cup Working => exit[r] = "none"
    /\ pc[r] \in {"idle", "called", "accepted", "scheduled"} => status[r] = "pending"
    /\ pc[r] \in {"begin", "error_event"} \cup Working => status[r] = "running"
    /\ pc[r] = "error_event"
          => exit[r] \in {"validation", "raise"} /\ function[r] \in Streaming
    /\ pc[r] = "cancel_event" => exit[r] = "return" /\ status[r] = "cancelled"
    /\ pc[r] = "complete_event" => exit[r] = "return"
    /\ exit[r] = "return" => status[r] \in Final

\* How the flag of the run and the acknowledgements it gave belong together.
FlagInv(r) ==
    /\ pc[r] \in Before => acked[r] = "none"
    /\ acked[r] # "none" /\ Tracked(r) => IsCancelled(r)
    /\ IsCancelled(r) \/ status[r] = "cancelled" => acked[r] # "none"
    /\ pc[r] = "started" /\ StepCount = 0 => acked[r] # "in time"
    /\ pc[r] \in LoopHead /\ position[r] > StepCount => acked[r] # "in time"
    /\ pc[r] = "evaluating" /\ position[r] = StepCount => acked[r] # "in time"
    /\ steps = "list" /\ exit[r] = "return" /\ status[r] = "completed"
          => acked[r] # "in time"

RunInv(r) == RegistryInv(r) /\ PathInv(r) /\ FlagInv(r)

IInv == TypeOK /\ \A r \in RunIds : RunInv(r)

\* The run has written its outcome and does not touch it again.
Over(r, outcome) == pc[r] \in {"cleaning", "ended"} /\ status[r] = outcome

\* What a copy says of a run that ended is what the run says.
Truthful(copy) == \A s \in RunIds : copy[s] \in Final => Over(s, copy[s])

\* No copy but the first one of the run itself refers to the run.
OwnInv ==
    \A q, s \in RunIds : session[q][s] # "own" /\ (first[q][s] = "own" => q = s)

StoreInv ==
    /\ Truthful(db)
    /\ \A q \in RunIds : Truthful(session[q]) /\ Truthful(first[q])
    /\ OwnInv

\* Where the outcome of a run is not in the session row yet.
Unstored == (ExecutingPoints \ {"cleaning"}) \cup {"failing"}

\* What the row says of a run, if nothing has disturbed it: only _arun_background
\* stores a run before its end.
RowInv(r) ==
    /\ pc[r] \in {"idle", "called", "accepted"} => db[r] = "none"
    /\ pc[r] = "scheduled"
          => db[r] = IF function[r] = "_arun_background" THEN "pending" ELSE "none"
    /\ pc[r] \in Unstored \cup {"begin"}
          => db[r] = IF function[r] = "_arun_background" THEN "running" ELSE "none"
    /\ pc[r] = "cleaning" => db[r] = status[r]
    /\ pc[r] = "ended" =>
         /\ exit[r] = "return" /\ (function[r] = "_execute" => steps = "list")
               => db[r] = status[r] /\ status[r] \in Final
         /\ HasFinally(function[r], steps) => db[r] = status[r]
         /\ function[r] = "_arun_background" /\ exit[r] # "lost"
               => db[r] = status[r] /\ status[r] \in Final

\* The copies a run works on are the row, but for the run itself.
CopyInv(r) ==
    /\ pc[r] = "called" /\ function[r] \notin Async => session[r] = db
    /\ pc[r] \in ExecutingPoints \ {"cleaning"} => session[r] = db
    /\ pc[r] \in Unstored \cup {"accepted", "scheduled", "begin"}
       /\ function[r] \in Background
          => first[r] = IF function[r] = "_arun_background"
                        THEN [db EXCEPT ![r] = "own"] ELSE db

\* The points of a background run, which stores its run only if it returns.
BackgroundInv(r) ==
    /\ pc[r] \in {"accepted", "scheduled", "begin", "failing"}
          => function[r] \in Background
    /\ pc[r] \in {"storing", "cleaning"} /\ function[r] \in Background
          => exit[r] = "return"

\* At most one run is in flight.
Solo == \A q, r \in RunIds : InFlight(q) /\ InFlight(r) => q = r

SoloInv == ~disturbed => Solo /\ \A r \in RunIds : RowInv(r) /\ CopyInv(r)

----------------------------------------------------------------------------
(* Types.                                                                  *)

\* The registry operations keep the registry a function to flags.
LEMMA CancellationTypes ==
    ASSUME Cancellation!CancellationTypeOK, NEW r \in RunIds
    PROVE  /\ Cancellation!RegisterRun(r) => Cancellation!CancellationTypeOK'
           /\ Cancellation!CancelRun(r) => Cancellation!CancellationTypeOK'
           /\ Cancellation!CleanupRun(r) => Cancellation!CancellationTypeOK'
           /\ UNCHANGED cancelledRuns => Cancellation!CancellationTypeOK'
  BY DEF Cancellation!CancellationTypeOK, Cancellation!Flags,
         Cancellation!RegisterRun, Cancellation!CancelRun,
         Cancellation!CleanupRun, Cancellation!Tracked

\* What is read from the store is a session.
LEMMA FoundTypes == TypeOK => Found \subseteq [RunIds -> Stored]
  BY DEF TypeOK, Found, NewSession, Stored

\* Saving a copy of the session stores a session.
LEMMA SaveTypes ==
    ASSUME TypeOK, NEW copy \in Copies, NEW current \in Statuses, Save(copy, current)
    PROVE  db' \in [RunIds -> Stored] /\ disturbed' \in BOOLEAN
  <1> DEFINE row == [q \in RunIds |-> IF copy[q] = "own" THEN current ELSE copy[q]]
  <1>1. row \in [RunIds -> Stored]
    BY DEF Copies, Stored
  <1>2. db' \in {row, db}
    BY DEF Save
  <1>3. disturbed' \in BOOLEAN
    BY DEF Save, Disturbs
  <1> HIDE DEF row
  <1> QED
    BY <1>1, <1>2, <1>3 DEF TypeOK

\* The initial state is well typed.
LEMMA InitTypes == Init => TypeOK
  <1> SUFFICES ASSUME Init PROVE TypeOK
    OBVIOUS
  <1>1. Cancellation!CancellationTypeOK
    BY DEF Init, Cancellation!CancellationInit, Cancellation!CancellationTypeOK,
           Cancellation!Flags
  <1>2. NewSession \in [RunIds -> Stored] /\ NewSession \in Copies
    BY DEF NewSession, Stored, Copies
  <1>3. 1 \in 1 .. StepCount + 1
    BY StepCountAssumption
  <1>4. steps \in AllStepsKinds
    BY StepsKindsAssumption DEF Init
  <1> QED
    BY <1>1, <1>2, <1>3, <1>4
    DEF Init, TypeOK, Points, Statuses, AllFunctions, Exits

\* The last step is reached at most once: where a step has been executed, there
\* is room for the index of the next.
PositionInv ==
    \A r \in RunIds :
        pc[r] \in {"evaluating", "stepping", "stepped"} => position[r] <= StepCount

\* The indexes of the loop.
LEMMA Positions ==
    /\ 1 \in 1 .. StepCount + 1
    /\ \A i \in 1 .. StepCount + 1 : i <= StepCount => i + 1 \in 1 .. StepCount + 1
  BY StepCountAssumption

\* Every action keeps the types.
LEMMA NextTypes == TypeOK /\ PositionInv /\ [Next]_vars => TypeOK'
<1> SUFFICES ASSUME TypeOK, PositionInv, [Next]_vars PROVE TypeOK'
  OBVIOUS
<1> USE StepCountAssumption, EntryPointsAssumption
<1> USE DEF TypeOK, Goto
<1>p. \A r \in RunIds, point \in Points :
         [pc EXCEPT ![r] = point] \in [RunIds -> Points]
  OBVIOUS
<1>q. \A r \in RunIds : [position EXCEPT ![r] = 1] \in [RunIds -> 1 .. StepCount + 1]
  BY Positions
<1>c. UNCHANGED cancelledRuns => Cancellation!CancellationTypeOK'
  BY DEF Cancellation!CancellationTypeOK
<1>1. CASE UNCHANGED vars
  BY <1>1, <1>c DEF vars
<1>2. ASSUME NEW r \in RunIds, RunStep(r) PROVE TypeOK'
  <2>1. CASE Accept(r)
    <3>1. \A found \in Found :
             /\ [found EXCEPT ![r] = "own"] \in Copies /\ found \in Copies
      BY FoundTypes DEF Copies, Stored
    <3>2. first' \in [RunIds -> Copies] /\ disturbed' \in BOOLEAN
      BY <2>1, <3>1 DEF Accept, Disturbs
    <3> QED
      BY <2>1, <3>2, <1>c DEF Accept, Points
  <2>2. CASE Schedule(r)
    <3>1. db' \in [RunIds -> Stored] /\ disturbed' \in BOOLEAN
      BY <2>2, SaveTypes DEF Schedule
    <3> QED
      BY <2>2, <3>1, <1>c DEF Schedule, Points
  <2>3. CASE StoreRunning(r)
    <3>1. db' \in [RunIds -> Stored] /\ disturbed' \in BOOLEAN
      BY <2>3, SaveTypes DEF StoreRunning, Statuses
    <3> QED
      BY <2>3, <3>1, <1>c DEF StoreRunning, Points, Statuses
  <2>4. CASE AgentNotAwaited(r)
    BY <2>4, <1>c DEF AgentNotAwaited, Points, Exits
  <2>5. CASE Begin(r)
    <3>1. session' \in [RunIds -> Copies] /\ disturbed' \in BOOLEAN
      <4>1. PICK found \in IF function[r] \in Async THEN Found ELSE {session[r]} :
               /\ session' = [session EXCEPT ![r] = found]
               /\ Disturbs(function[r] \in Async /\ found # db)
        BY <2>5 DEF Begin
      <4>2. found \in Copies
        <5>1. \A f \in Found : f \in Copies
          BY FoundTypes DEF Copies
        <5>2. session[r] \in Copies
          OBVIOUS
        <5>3. found \in Found \/ found = session[r]
          BY <4>1
        <5> QED
          BY <5>1, <5>2, <5>3
      <4> QED
        BY <4>1, <4>2 DEF Disturbs
    <3>2. Cancellation!CancellationTypeOK'
      BY <2>5, CancellationTypes DEF Begin
    <3>3. pc' \in [RunIds -> Points]
      BY <2>5 DEF Begin, Points, ExecutingPoints
    <3> QED
      BY <2>5, <3>1, <3>2, <3>3 DEF Begin, Statuses
  <2>6. CASE Started(r)
    BY <2>6, <1>c DEF Started, Points, ExecutingPoints
  <2>7. CASE TopOfLoop(r)
    <3>1. CASE Cancelled(r)
      BY <2>7, <3>1, <1>c, <1>q
      DEF TopOfLoop, Cancelled, LeaveLoop, Points, ExecutingPoints, Statuses, Exits
    <3>2. CASE ~Cancelled(r)
      BY <2>7, <3>2, <1>c DEF TopOfLoop, Points, ExecutingPoints
    <3> QED
      BY <3>1, <3>2
  <2>18. CASE TrailingEvent(r) \/ LoopEnds(r)
    <3>1. CASE TrailingEvent(r)
      BY <2>18, <3>1, <1>c, <1>q
      DEF TrailingEvent, Cancelled, LeaveLoop, Points, ExecutingPoints,
          Statuses, Exits
    <3>2. CASE LoopEnds(r)
      BY <2>18, <3>2, <1>c, <1>q
      DEF LoopEnds, Completed, LeaveLoop, Points, ExecutingPoints, Statuses,
          Exits
    <3> QED
      BY <2>18, <3>1, <3>2
  <2>8. CASE StepReturns(r) \/ Decided(r)
    BY <2>8, <1>c DEF StepReturns, Decided, Points, ExecutingPoints
  <2>19. CASE EndsUnheard(r)
    <3>1. position[r] + 1 \in 1 .. StepCount + 1
      BY <2>19, Positions DEF EndsUnheard, PositionInv
    <3>2. position' \in [RunIds -> 1 .. StepCount + 1]
      BY <2>19, <3>1 DEF EndsUnheard
    <3> QED
      BY <2>19, <3>2, <1>c DEF EndsUnheard, Points, ExecutingPoints
  <2>9. CASE AfterStep(r)
    <3>1. position[r] \in 1 .. StepCount + 1 /\ position[r] <= StepCount
      BY <2>9 DEF AfterStep, PositionInv
    <3>2. [position EXCEPT ![r] = @ + 1] \in [RunIds -> 1 .. StepCount + 1]
      <4>1. position[r] + 1 \in 1 .. StepCount + 1
        BY <3>1, Positions
      <4> QED
        BY <4>1
    <3>3. position' \in [RunIds -> 1 .. StepCount + 1]
      <4>1. CASE Cancelled(r) \/ Completed(r)
        <5>1. position' = [position EXCEPT ![r] = 1]
          BY <4>1 DEF Cancelled, Completed, LeaveLoop
        <5> QED
          BY <5>1, <1>q
      <4>2. CASE position' = [position EXCEPT ![r] = @ + 1]
        BY <4>2, <3>2
      <4> QED
        BY <2>9, <4>1, <4>2 DEF AfterStep
    <3>4. pc' \in [RunIds -> Points]
      <4>1. {"cancel_event", "storing", "top", "complete_event"} \subseteq Points
        BY DEF Points, ExecutingPoints
      <4>2. \E point \in {"cancel_event", "storing", "top", "complete_event"} :
                pc' = [pc EXCEPT ![r] = point]
        BY <2>9 DEF AfterStep, Cancelled, Completed
      <4> QED
        BY <4>1, <4>2, <1>p
    <3>5. status' \in [RunIds -> Statuses] /\ exit' \in [RunIds -> Exits]
      BY <2>9 DEF AfterStep, Cancelled, Completed, Statuses, Exits
    <3> QED
      BY <2>9, <3>3, <3>4, <3>5, <1>c DEF AfterStep
  <2>10. CASE StepRaises(r)
    BY <2>10, <1>c, <1>q, ZenonT(60)
    DEF StepRaises, Escape, LeaveLoop, Points, ExecutingPoints, Statuses, Exits
  <2>11. CASE ErrorEvent(r)
    BY <2>11, <1>c DEF ErrorEvent, Escape, Points, ExecutingPoints, Statuses, Exits
  <2>12. CASE CancelEvent(r) \/ CompleteEvent(r)
    BY <2>12, <1>c DEF CancelEvent, CompleteEvent, Points, ExecutingPoints
  <2>13. CASE CustomStarts(r) \/ CustomRaises(r)
    BY <2>13, <1>c DEF CustomStarts, CustomRaises, Escape, Points, ExecutingPoints, Exits
  <2>14. CASE CustomEnds(r)
    BY <2>14, <1>c, <1>q
    DEF CustomEnds, Completed, LeaveLoop, Escape, Points, ExecutingPoints, Statuses, Exits
  <2>15. CASE Store(r)
    <3>1. [session[r] EXCEPT ![r] = "own"] \in Copies
      BY DEF Copies
    <3>2. db' \in [RunIds -> Stored] /\ disturbed' \in BOOLEAN
      BY <2>15, <3>1, SaveTypes DEF Store, StoreCopy
    <3>3. NewSession \in Copies
      BY DEF NewSession, Copies, Stored
    <3> QED
      BY <2>15, <3>2, <3>3, <1>c DEF Store, StoreCopy, Points, ExecutingPoints
  <2>16. CASE CleanUp(r)
    <3>1. NewSession \in Copies
      BY DEF NewSession, Copies, Stored
    <3>2. Cancellation!CancellationTypeOK'
      BY <2>16, CancellationTypes DEF CleanUp
    <3> QED
      BY <2>16, <3>1, <3>2 DEF CleanUp, Points
  <2>17. CASE BackgroundFails(r)
    <3>1. NewSession \in Copies
      BY DEF NewSession, Copies, Stored
    <3>2. db' \in [RunIds -> Stored] /\ disturbed' \in BOOLEAN
      BY <2>17, SaveTypes DEF BackgroundFails, Statuses
    <3> QED
      BY <2>17, <3>1, <3>2, <1>c DEF BackgroundFails, Points, Statuses
  <2> QED
    BY <1>2, <2>1, <2>2, <2>3, <2>4, <2>5, <2>6, <2>7, <2>8, <2>9, <2>10, <2>11,
       <2>12, <2>13, <2>14, <2>15, <2>16, <2>17, <2>18, <2>19 DEF RunStep
<1>3. ASSUME NEW r \in RunIds, ClientStep(r) PROVE TypeOK'
  <2>1. CASE Call(r)
    <3>1. function' \in [RunIds -> AllFunctions]
      BY <2>1 DEF Call
    <3>2. session' \in [RunIds -> Copies] /\ disturbed' \in BOOLEAN
      <4>1. NewSession \in Copies /\ \A found \in Found : found \in Copies
        BY FoundTypes DEF Copies, NewSession, Stored
      <4>2. PICK found \in Found :
               session' = [session EXCEPT ![r] = IF function'[r] \in Async
                                                 THEN NewSession ELSE found]
        BY <2>1 DEF Call
      <4>3. disturbed' \in BOOLEAN
        BY <2>1 DEF Call, Disturbs
      <4> QED
        BY <4>1, <4>2, <4>3
    <3> QED
      BY <2>1, <3>1, <3>2, <1>c DEF Call, Points
  <2>2. CASE Abandon(r)
    BY <2>2, <1>c, <1>q DEF Abandon, LeaveLoop, Points, ExecutingPoints, Exits
  <2>3. CASE CancelRequest(r)
    BY <2>3, CancellationTypes DEF CancelRequest
  <2> QED
    BY <1>3, <2>1, <2>2, <2>3 DEF ClientStep
<1> QED
  BY <1>1, <1>2, <1>3 DEF Next

----------------------------------------------------------------------------
(* One run.                                                                *)

SameRun(q) ==
    /\ pc'[q] = pc[q]
    /\ function'[q] = function[q]
    /\ position'[q] = position[q]
    /\ status'[q] = status[q]
    /\ exit'[q] = exit[q]
    /\ acked'[q] = acked[q]
    /\ cancelledRuns'[q] = cancelledRuns[q]
    /\ steps' = steps

\* RunInv speaks of a few variables, at one run only.
LEMMA SameRunInv ==
    ASSUME NEW q \in RunIds, RunInv(q), SameRun(q)
    PROVE  RunInv(q)'
<1>1. RegistryInv(q)'
  BY DEF SameRun, RunInv, RegistryInv, Tracked
<1>2. PathInv(q)'
  BY DEF SameRun, RunInv, PathInv
<1>3. FlagInv(q)'
  BY DEF SameRun, RunInv, FlagInv, Tracked, IsCancelled
<1> QED
  BY <1>1, <1>2, <1>3 DEF RunInv

\* A step of one run leaves the others alone.
LEMMA OtherRuns ==
    ASSUME TypeOK, NEW r \in RunIds, NEW q \in RunIds, q # r,
           RunStep(r) \/ ClientStep(r)
    PROVE  SameRun(q)
<1> USE DEF TypeOK, Goto, SameRun, Cancellation!CancellationTypeOK
<1>1. CASE Accept(r) \/ Schedule(r) \/ StoreRunning(r) \/ AgentNotAwaited(r)
  BY <1>1 DEF Accept, Schedule, StoreRunning, AgentNotAwaited
<1>2. CASE Begin(r) \/ Started(r)
  BY <1>2 DEF Begin, Started, Cancellation!RegisterRun
<1>3. CASE TopOfLoop(r) \/ TrailingEvent(r) \/ LoopEnds(r)
  BY <1>3 DEF TopOfLoop, TrailingEvent, LoopEnds, Cancelled, Completed, LeaveLoop
<1>10. CASE Decided(r) \/ EndsUnheard(r) \/ StepReturns(r)
  BY <1>10 DEF Decided, EndsUnheard, StepReturns
<1>4. CASE AfterStep(r)
  BY <1>4 DEF AfterStep, Cancelled, Completed, LeaveLoop
<1>5. CASE StepRaises(r) \/ ErrorEvent(r) \/ CancelEvent(r) \/ CompleteEvent(r)
  BY <1>5, ZenonT(60) DEF StepRaises, ErrorEvent, CancelEvent, CompleteEvent, Escape, LeaveLoop
<1>6. CASE CustomStarts(r) \/ CustomEnds(r) \/ CustomRaises(r)
  BY <1>6 DEF CustomStarts, CustomEnds, CustomRaises, Escape, Completed, LeaveLoop
<1>7. CASE Store(r) \/ CleanUp(r) \/ BackgroundFails(r)
  BY <1>7 DEF Store, StoreCopy, CleanUp, BackgroundFails, Cancellation!CleanupRun
<1>8. CASE Call(r)
  BY <1>8 DEF Call
<1>9. CASE Abandon(r) \/ CancelRequest(r)
  BY <1>9 DEF Abandon, CancelRequest, LeaveLoop, Cancellation!CancelRun
<1> QED
  BY <1>1, <1>2, <1>3, <1>4, <1>5, <1>6, <1>7, <1>8, <1>9, <1>10
  DEF RunStep, ClientStep

\* The steps before the run is registered, and its registration.
LEMMA BeforeInv ==
    ASSUME TypeOK, NEW r \in RunIds, RunInv(r),
           \/ Call(r) \/ Accept(r) \/ Schedule(r) \/ StoreRunning(r)
           \/ AgentNotAwaited(r) \/ Begin(r) \/ Started(r)
    PROVE  RunInv(r)'
<1> USE DEF TypeOK, Goto, RunInv, RegistryInv, PathInv, FlagInv, Tracked, IsCancelled,
            Before, Working, ExecutingPoints, Cancellation!CancellationTypeOK, Final
<1>1. CASE Call(r) \/ Accept(r) \/ Schedule(r)
  BY <1>1 DEF Call, Accept, Schedule
<1>2. CASE StoreRunning(r) \/ AgentNotAwaited(r)
  BY <1>2 DEF StoreRunning, AgentNotAwaited
<1>3. CASE Begin(r)
  BY <1>3 DEF Begin, Cancellation!RegisterRun
<1>4. CASE Started(r)
  <2>1. /\ pc[r] = "started"
        /\ pc'[r] = IF steps = "list" THEN "top" ELSE "custom"
        /\ UNCHANGED <<cancelledRuns, steps, function, position, status, exit, acked>>
    BY <1>4 DEF Started
  <2>2. RegistryInv(r)'
    BY <2>1
  <2>3. PathInv(r)'
    BY <2>1
  <2>4. position[r] = 1 /\ (1 > StepCount => StepCount = 0)
    <3>1. 1 > StepCount => StepCount = 0
      BY ONLY StepCountAssumption
    <3>2. position[r] = 1
      BY <2>1
    <3> QED
      BY <3>1, <3>2
  <2>5. FlagInv(r)'
    <3> HIDE DEF TypeOK
    <3> QED
      BY <2>1, <2>4
  <2> QED
    BY <2>2, <2>3, <2>5
<1> QED
  BY <1>1, <1>2, <1>3, <1>4

\* The steps of the list.
LEMMA ListInv ==
    ASSUME TypeOK, NEW r \in RunIds, RunInv(r),
           \/ TopOfLoop(r) \/ TrailingEvent(r) \/ LoopEnds(r)
           \/ Decided(r) \/ EndsUnheard(r)
           \/ StepReturns(r) \/ AfterStep(r) \/ StepRaises(r)
    PROVE  RunInv(r)'
<1> USE DEF TypeOK, Goto, RunInv, RegistryInv, PathInv, FlagInv, Tracked, IsCancelled,
            Before, Working, ExecutingPoints, Cancellation!CancellationTypeOK, Final,
            Cancellation!IsCancelled, LoopHead
<1>1. CASE TopOfLoop(r)
  BY <1>1 DEF TopOfLoop, Cancelled, LeaveLoop
<1>2. CASE TrailingEvent(r)
  BY <1>2 DEF TrailingEvent, Cancelled, LeaveLoop
<1>3. CASE LoopEnds(r)
  BY <1>3 DEF LoopEnds, Completed, LeaveLoop
<1>4. CASE StepReturns(r) \/ Decided(r)
  BY <1>4 DEF StepReturns, Decided
<1>7. CASE EndsUnheard(r)
  <2>1. /\ pc[r] = "evaluating" /\ pc'[r] = "unheard"
        /\ position'[r] = position[r] + 1
        /\ UNCHANGED <<cancelledRuns, steps, function, status, exit, acked>>
    BY <1>7 DEF EndsUnheard
  <2>2. /\ position[r] \in 1 .. StepCount + 1 /\ position[r] <= StepCount
        /\ position'[r] > StepCount => position[r] = StepCount
    <3>1. \A i \in 1 .. StepCount + 1 : i <= StepCount /\ i + 1 > StepCount => i = StepCount
      BY ONLY StepCountAssumption
    <3>2. position[r] \in 1 .. StepCount + 1 /\ position[r] <= StepCount
      BY <2>1
    <3> QED
      BY <2>1, <3>1, <3>2
  <2>3. RegistryInv(r)'
    BY <2>1
  <2>4. PathInv(r)'
    BY <2>1
  <2>5. FlagInv(r)'
    <3> HIDE DEF TypeOK
    <3> QED
      BY <2>1, <2>2
  <2> QED
    BY <2>3, <2>4, <2>5
<1>5. CASE AfterStep(r)
  BY <1>5, ZenonT(60) DEF AfterStep, Cancelled, Completed, LeaveLoop
<1>6. CASE StepRaises(r)
  <2>1. /\ pc[r] \in {"evaluating", "stepping"} /\ position'[r] = 1
        /\ UNCHANGED <<cancelledRuns, steps, function, acked>>
        /\ exit'[r] \in {"validation", "raise"}
    BY <1>6 DEF StepRaises, Escape, LeaveLoop
  <2>2. \/ /\ pc'[r] = "error_event" /\ status'[r] = "running"
           /\ function[r] \in Streaming
        \/ pc'[r] = "storing" /\ status'[r] = "error"
        \/ /\ pc'[r] = "ended" /\ status'[r] = "error"
           /\ function[r] # "_execute"
        \/ /\ pc'[r] = "failing" /\ status'[r] = "error"
           /\ function[r] \in Background
    <3>1. CASE function[r] \in Streaming
      BY <1>6, <3>1 DEF StepRaises
    <3>2. CASE function[r] \notin Streaming /\ function[r] = "_execute"
      BY <1>6, <3>2 DEF StepRaises
    <3>3. CASE function[r] \notin Streaming /\ function[r] # "_execute"
      BY <1>6, <3>3 DEF StepRaises, Escape
    <3> QED
      BY <3>1, <3>2, <3>3
  <2>3. RegistryInv(r)'
    BY <2>1, <2>2 DEF HasFinally
  <2>4. PathInv(r)'
    BY <2>1, <2>2
  <2>5. FlagInv(r)'
    BY <2>1, <2>2
  <2> QED
    BY <2>3, <2>4, <2>5
<1> QED
  BY <1>1, <1>2, <1>3, <1>4, <1>5, <1>6, <1>7

\* The steps of a callable, and the end of the call or its task.
LEMMA EndInv ==
    ASSUME TypeOK, NEW r \in RunIds, RunInv(r),
           \/ ErrorEvent(r) \/ CancelEvent(r) \/ CompleteEvent(r)
           \/ CustomStarts(r) \/ CustomEnds(r) \/ CustomRaises(r)
           \/ Store(r) \/ CleanUp(r) \/ BackgroundFails(r)
    PROVE  RunInv(r)'
<1> USE DEF TypeOK, Goto, RunInv, RegistryInv, PathInv, FlagInv, Tracked, IsCancelled,
            Before, Working, ExecutingPoints, Cancellation!CancellationTypeOK, Final, LoopHead
<1>1. CASE ErrorEvent(r)
  <2>1. /\ pc[r] = "error_event" /\ status'[r] = "error"
        /\ UNCHANGED <<cancelledRuns, steps, function, position, acked>>
    BY <1>1 DEF ErrorEvent
  <2>2. \/ pc'[r] = "complete_event" /\ exit'[r] = "return"
        \/ pc'[r] = "ended" /\ exit'[r] = "raise"
        \/ pc'[r] = "failing" /\ exit'[r] = "raise" /\ function[r] \in Background
    BY <1>1 DEF ErrorEvent, Escape
  <2>3. function[r] # "_execute"
    BY <2>1 DEF Streaming
  <2>4. RegistryInv(r)'
    BY <2>1, <2>2, <2>3 DEF HasFinally
  <2>5. PathInv(r)'
    BY <2>1, <2>2
  <2>6. FlagInv(r)'
    BY <2>1, <2>2
  <2> QED
    BY <2>4, <2>5, <2>6
<1>2. CASE CancelEvent(r) \/ CompleteEvent(r)
  BY <1>2 DEF CancelEvent, CompleteEvent
<1>3. CASE CustomStarts(r) \/ CustomRaises(r)
  BY <1>3 DEF CustomStarts, CustomRaises, Escape, HasFinally
<1>4. CASE CustomEnds(r)
  BY <1>4 DEF CustomEnds, Escape, Completed, LeaveLoop, HasFinally, Background
<1>5. CASE Store(r)
  BY <1>5 DEF Store, StoreCopy
<1>6. CASE CleanUp(r)
  BY <1>6 DEF CleanUp, Cancellation!CleanupRun
<1>7. CASE BackgroundFails(r)
  BY <1>7 DEF BackgroundFails, HasFinally, Background
<1> QED
  BY <1>1, <1>2, <1>3, <1>4, <1>5, <1>6, <1>7

\* An interrupt, a closed stream, and a cancel request.
LEMMA ClientInv ==
    ASSUME TypeOK, NEW r \in RunIds, RunInv(r), Abandon(r) \/ CancelRequest(r)
    PROVE  RunInv(r)'
<1> USE DEF TypeOK, Goto, RunInv, RegistryInv, PathInv, FlagInv, Tracked, IsCancelled,
            Before, Working, ExecutingPoints, Cancellation!CancellationTypeOK, Final
<1>1. CASE Abandon(r)
  BY <1>1 DEF Abandon, AbandonPoints, LeaveLoop, HasFinally, Streaming, Async, LoopHead
<1>2. CASE CancelRequest(r)
  <2>1. /\ UNCHANGED <<pc, steps, function, position, status, exit>>
        /\ cancelledRuns'[r] = IF Tracked(r) THEN "cancelled" ELSE cancelledRuns[r]
        /\ acked'[r] = IF Tracked(r) /\ acked[r] = "none"
                       THEN (IF TooLate(r) THEN "late" ELSE "in time") ELSE acked[r]
    BY <1>2 DEF CancelRequest, Cancellation!CancelRun, Cancellation!Tracked
  <2>2. RegistryInv(r)'
    BY <2>1
  <2>3. PathInv(r)'
    BY <2>1
  <2>4. FlagInv(r)'
    <3>1. pc[r] \in Points
      OBVIOUS
    <3>2. exit[r] = "return" /\ status[r] = "completed" => TooLate(r)
      <4> HIDE DEF TypeOK
      <4> QED
        BY <3>1 DEF Points, TooLate
    <3>3. /\ pc[r] = "started" /\ StepCount = 0 => TooLate(r)
          /\ pc[r] \in LoopHead /\ position[r] > StepCount => TooLate(r)
          /\ pc[r] = "evaluating" /\ position[r] = StepCount => TooLate(r)
      BY DEF TooLate
    <3> HIDE DEF TypeOK
    <3> QED
      BY <2>1, <3>2, <3>3
  <2> QED
    BY <2>2, <2>3, <2>4
<1> QED
  BY <1>1, <1>2

\* The initial state satisfies the invariant of every run.
LEMMA InitIInv == Init => IInv
  BY InitTypes
  DEF Init, IInv, RunInv, RegistryInv, PathInv, FlagInv, Tracked, IsCancelled, Before,
      Working, ExecutingPoints, Cancellation!CancellationInit, Final

\* Every step keeps it, for its own run and for the others.
LEMMA NextIInv == IInv /\ [Next]_vars => IInv'
<1> SUFFICES ASSUME IInv, [Next]_vars PROVE IInv'
  OBVIOUS
<1>0. TypeOK /\ PositionInv
  BY DEF IInv, RunInv, PathInv, PositionInv
<1>1. TypeOK'
  BY <1>0, NextTypes
<1>2. ASSUME NEW r \in RunIds, RunStep(r) \/ ClientStep(r)
      PROVE  \A q \in RunIds : RunInv(q)'
  <2>1. RunInv(r)'
    BY <1>0, <1>2, BeforeInv, ListInv, EndInv, ClientInv DEF IInv, RunStep, ClientStep
  <2>2. ASSUME NEW q \in RunIds, q # r PROVE RunInv(q)'
    BY <1>0, <1>2, <2>2, OtherRuns, SameRunInv DEF IInv
  <2> QED
    BY <2>1, <2>2
<1>3. CASE UNCHANGED vars
  <2>1. \A q \in RunIds : SameRun(q)
    BY <1>3 DEF vars, SameRun
  <2> QED
    BY <1>1, <2>1, SameRunInv DEF IInv
<1> QED
  BY <1>1, <1>2, <1>3 DEF Next, IInv

\* So it always holds.
LEMMA IInvAlways == Spec => []IInv
  BY InitIInv, NextIInv, PTL DEF Spec

----------------------------------------------------------------------------
(* The session row and its copies.                                         *)

\* A run that has written its outcome stays as it is.
LEMMA OverStays ==
    ASSUME TypeOK, NEW r \in RunIds, RunStep(r) \/ ClientStep(r),
           NEW s \in RunIds, NEW outcome, Over(s, outcome)
    PROVE  Over(s, outcome)'
<1>1. CASE s # r
  BY <1>1, OtherRuns DEF Over, SameRun
<1>2. CASE s = r
  <2> USE DEF TypeOK, Goto, Over
  <2>1. CASE CleanUp(r) \/ Abandon(r) \/ CancelRequest(r)
    BY <1>2, <2>1 DEF CleanUp, Abandon, AbandonPoints, Streaming, Async, CancelRequest
  <2>2. CASE ~(CleanUp(r) \/ Abandon(r) \/ CancelRequest(r))
    <3>1. pc[r] \notin {"cleaning", "ended"}
      BY <2>2 DEF RunStep, ClientStep, Call, Accept, Schedule, StoreRunning,
         AgentNotAwaited, Begin, Started, TopOfLoop, TrailingEvent, LoopEnds,
         LoopHead, Decided, EndsUnheard, StepReturns, AfterStep, StepRaises, ErrorEvent, CancelEvent, CompleteEvent,
         CustomStarts, CustomEnds, CustomRaises, Store, StoreCopy, BackgroundFails
    <3> QED
      BY <1>2, <3>1
  <2> QED
    BY <2>1, <2>2
<1> QED
  BY <1>1, <1>2

\* What is read from the store is as truthful as the store, and does not refer to
\* the run.
LEMMA FoundTruthful ==
    ASSUME TypeOK, Truthful(db)
    PROVE  \A found \in Found \cup {NewSession} :
               Truthful(found) /\ \A s \in RunIds : found[s] # "own"
<1>1. Truthful(NewSession) /\ \A s \in RunIds : NewSession[s] # "own"
  BY DEF Truthful, NewSession, Final
<1>2. \A s \in RunIds : db[s] # "own"
  BY DEF TypeOK, Stored, Statuses
<1> QED
  BY <1>1, <1>2 DEF Found

\* A saved copy is as truthful as the copy, if what it says of its own run is.
LEMMA SaveTruthful ==
    ASSUME NEW r \in RunIds, NEW copy, NEW current, Save(copy, current),
           Truthful(db), Truthful(copy),
           \A s \in RunIds : copy[s] = "own" => s = r,
           \A s \in RunIds, outcome \in Final : Over(s, outcome) => Over(s, outcome)',
           current \in Final => pc'[r] \in {"cleaning", "ended"} /\ status'[r] = current
    PROVE  Truthful(db)'
<1> DEFINE row == [q \in RunIds |-> IF copy[q] = "own" THEN current ELSE copy[q]]
<1>1. db' \in {row, db}
  BY DEF Save
<1>2. \A s \in RunIds : row[s] \in Final => Over(s, row[s])'
  BY DEF Truthful, Final, Over
<1> QED
  BY <1>1, <1>2 DEF Truthful

\* At first nothing is stored.
LEMMA InitStoreInv == Init => StoreInv
  BY DEF Init, StoreInv, OwnInv, Truthful, NewSession, Final

\* Every step keeps the store and its copies truthful.
LEMMA NextStoreInv == IInv /\ StoreInv /\ [Next]_vars => StoreInv'
<1> SUFFICES ASSUME IInv, StoreInv, [Next]_vars PROVE StoreInv'
  OBVIOUS
<1>0. TypeOK
  BY DEF IInv
<1>1. CASE UNCHANGED vars
  BY <1>1 DEF vars, StoreInv, OwnInv, Truthful, Over
<1>2. ASSUME NEW r \in RunIds, RunStep(r) \/ ClientStep(r) PROVE StoreInv'
  <2>1. \A s \in RunIds : \A outcome : Over(s, outcome) => Over(s, outcome)'
    BY <1>0, <1>2, OverStays
  <2> DEFINE StillTruthful(copy) ==
                 \A s \in RunIds : copy[s] \in Final =>
                     pc'[s] \in {"cleaning", "ended"} /\ status'[s] = copy[s]
             Readable == Found \cup {NewSession}
  <2>2. \A copy : Truthful(copy) => StillTruthful(copy)
    BY <2>1 DEF Truthful, Over
  <2>3. Truthful(db)'
    <3>0. \A outcome \in Final, s \in RunIds : Over(s, outcome) => Over(s, outcome)'
      BY <2>1
    <3>1. Truthful(db) /\ Truthful(first[r]) /\ Truthful(session[r])
      BY DEF StoreInv
    <3>2. \A s \in RunIds : session[r][s] # "own" /\ (first[r][s] = "own" => s = r)
      BY DEF StoreInv, OwnInv
    <3>3. CASE Schedule(r)
      <4>1. CASE Save(first[r], status[r])
        <5>1. status[r] \notin Final
          BY <3>3 DEF Schedule, IInv, RunInv, PathInv, Final
        <5> QED
          BY <3>0, <3>1, <3>2, <4>1, <5>1, SaveTruthful
      <4>2. CASE db' = db
        BY <2>2, <3>1, <4>2 DEF Truthful, Over
      <4> QED
        BY <3>3, <4>1, <4>2 DEF Schedule
    <3>4. CASE StoreRunning(r)
      <4>1. Save(first[r], "running") /\ "running" \notin Final
        BY <3>4 DEF StoreRunning, Final
      <4> QED
        BY <3>0, <3>1, <3>2, <4>1, SaveTruthful
    <3>5. CASE Store(r)
      <4> DEFINE copy == [session[r] EXCEPT ![r] = "own"]
      <4>1. Save(copy, status[r]) /\ pc'[r] = "cleaning" /\ status'[r] = status[r]
        BY <1>0, <3>5 DEF Store, StoreCopy, TypeOK, Goto
      <4>2. \A s \in RunIds : copy[s] = IF s = r THEN "own" ELSE session[r][s]
        BY <1>0 DEF TypeOK, Copies
      <4> HIDE DEF copy
      <4>3. Truthful(copy) /\ \A s \in RunIds : copy[s] = "own" => s = r
        <5>1. Truthful(copy)
          BY <3>1, <4>2 DEF Truthful, Final, Over
        <5>2. \A s \in RunIds : copy[s] = "own" => s = r
          BY <3>2, <4>2
        <5> QED
          BY <5>1, <5>2
      <4> QED
        BY <3>0, <3>1, <4>1, <4>3, SaveTruthful
    <3>6. CASE BackgroundFails(r)
      <4>1. Save(first[r], "error") /\ pc'[r] = "ended" /\ status'[r] = "error"
        BY <1>0, <3>6 DEF BackgroundFails, TypeOK, Goto
      <4> QED
        BY <3>0, <3>1, <3>2, <4>1, SaveTruthful
    <3>7. CASE ~(Schedule(r) \/ StoreRunning(r) \/ Store(r) \/ BackgroundFails(r))
      <4>1. db' = db
        BY <1>2, <3>7 DEF RunStep, ClientStep, Call, Accept, AgentNotAwaited, Begin,
           Started, TopOfLoop, TrailingEvent, LoopEnds, LoopHead,
         Decided, EndsUnheard, StepReturns, AfterStep,
           StepRaises, ErrorEvent, CancelEvent, CompleteEvent, CustomStarts, CustomEnds,
           CustomRaises, CleanUp, Abandon, CancelRequest
      <4> QED
        BY <2>2, <3>1, <4>1 DEF Truthful, Over
    <3> QED
      BY <3>3, <3>4, <3>5, <3>6, <3>7
  <2>4. \/ session' = session
        \/ \E found \in Readable \cup {session[r]} :
               session' = [session EXCEPT ![r] = found]
    <3>1. CASE Call(r)
      BY <3>1 DEF Call
    <3>2. CASE Begin(r)
      BY <3>2 DEF Begin
    <3>3. CASE Store(r)
      BY <3>3 DEF Store, StoreCopy
    <3>4. CASE ~(Call(r) \/ Begin(r) \/ Store(r))
      BY <1>2, <3>4 DEF RunStep, ClientStep, Accept, Schedule, StoreRunning,
         AgentNotAwaited, Started, TopOfLoop, TrailingEvent, LoopEnds, LoopHead,
         Decided, EndsUnheard, StepReturns,
         AfterStep, StepRaises, ErrorEvent, CancelEvent, CompleteEvent, CustomStarts,
         CustomEnds, CustomRaises, CleanUp, BackgroundFails, Abandon, CancelRequest
    <3> QED
      BY <3>1, <3>2, <3>3, <3>4
  <2>5. \/ first' = first
        \/ \E found \in Readable :
               \/ first' = [first EXCEPT ![r] = found]
               \/ first' = [first EXCEPT ![r] = [found EXCEPT ![r] = "own"]]
    <3>1. CASE Accept(r)
      BY <3>1 DEF Accept
    <3>2. CASE CleanUp(r) \/ BackgroundFails(r)
      BY <3>2 DEF CleanUp, BackgroundFails
    <3>3. CASE ~(Accept(r) \/ CleanUp(r) \/ BackgroundFails(r))
      BY <1>2, <3>3 DEF RunStep, ClientStep, Call, Schedule, StoreRunning, Begin,
         AgentNotAwaited, Started, TopOfLoop, TrailingEvent, LoopEnds, LoopHead,
         Decided, EndsUnheard, StepReturns,
         AfterStep, StepRaises, ErrorEvent, CancelEvent, CompleteEvent, CustomStarts,
         CustomEnds, CustomRaises, Store, StoreCopy, Abandon, CancelRequest
    <3> QED
      BY <3>1, <3>2, <3>3
  <2>6. \A found \in Readable :
           StillTruthful(found) /\ \A s \in RunIds : found[s] # "own"
    BY <1>0, <2>2, FoundTruthful DEF StoreInv
  <2>7. \A q \in RunIds : StillTruthful(session[q]) /\ StillTruthful(first[q])
    BY <2>2 DEF StoreInv
  <2>8. \A q \in RunIds : /\ Truthful(session[q])'
                         /\ \A s \in RunIds : session'[q][s] # "own"
    <3>1. ASSUME NEW q \in RunIds
          PROVE  StillTruthful(session'[q]) /\ \A s \in RunIds : session'[q][s] # "own"
      <4>1. session'[q] \in Readable \cup {session[q]}
        BY <1>0, <2>4 DEF TypeOK
      <4>2. \A s \in RunIds : session[q][s] # "own"
        BY DEF StoreInv, OwnInv
      <4> HIDE DEF StillTruthful, Readable
      <4> QED
        BY <2>6, <2>7, <4>1, <4>2
    <3> QED
      BY <3>1 DEF Truthful, Over
  <2>9. \A q \in RunIds : /\ Truthful(first[q])'
                         /\ \A s \in RunIds : first'[q][s] = "own" => q = s
    <3> DEFINE Own(copy) == [copy EXCEPT ![r] = "own"]
    <3>1. ASSUME NEW found \in Readable
          PROVE  StillTruthful(Own(found)) /\ \A s \in RunIds : Own(found)[s] = "own" => s = r
      <4>1. found \in [RunIds -> Stored]
        BY <1>0, FoundTypes DEF NewSession, Stored
      <4>2. \A s \in RunIds : Own(found)[s] = IF s = r THEN "own" ELSE found[s]
        BY <4>1
      <4> HIDE DEF Own
      <4>3. \A s \in RunIds : Own(found)[s] = "own" => s = r
        BY <2>6, <4>2
      <4>4. StillTruthful(Own(found))
        BY <2>6, <4>2 DEF Final
      <4> QED
        BY <4>3, <4>4
    <3>2. ASSUME NEW q \in RunIds
          PROVE  /\ StillTruthful(first'[q])
                 /\ \A s \in RunIds : first'[q][s] = "own" => q = s
      <4>1. \/ first'[q] \in Readable \cup {first[q]}
            \/ q = r /\ \E found \in Readable : first'[q] = Own(found)
        BY <1>0, <2>5 DEF TypeOK
      <4>2. \A s \in RunIds : first[q][s] = "own" => q = s
        BY DEF StoreInv, OwnInv
      <4> HIDE DEF StillTruthful, Readable, Own
      <4> QED
        BY <2>6, <2>7, <3>1, <4>1, <4>2
    <3> QED
      BY <3>2 DEF Truthful, Over
  <2> QED
    BY <2>3, <2>8, <2>9 DEF StoreInv, OwnInv
<1> QED
  BY <1>1, <1>2 DEF Next

\* Whoever steps is in flight, unless a run is called or cancelled.
LEMMA StepsInFlight ==
    ASSUME NEW r \in RunIds, RunStep(r) \/ Abandon(r)
    PROVE  InFlight(r)
  BY DEF RunStep, Abandon, AbandonPoints, InFlight, Accept, Schedule, StoreRunning,
     AgentNotAwaited, Begin, Started, TopOfLoop, TrailingEvent, LoopEnds, LoopHead,
         Decided, EndsUnheard, StepReturns,
     AfterStep, StepRaises, ErrorEvent, CancelEvent, CompleteEvent, CustomStarts,
     CustomEnds, CustomRaises, Store, StoreCopy, CleanUp, BackgroundFails

\* What has been disturbed stays so.
LEMMA DisturbedStays ==
    ASSUME TypeOK, NEW r \in RunIds, RunStep(r) \/ ClientStep(r), ~disturbed'
    PROVE  ~disturbed
  BY DEF TypeOK, Disturbs, Save, RunStep, ClientStep, Call, Accept, Schedule,
     StoreRunning, AgentNotAwaited, Begin, Started, TopOfLoop, TrailingEvent, LoopEnds,
     LoopHead,
         Decided, EndsUnheard, StepReturns, AfterStep, StepRaises, ErrorEvent, CancelEvent, CompleteEvent,
     CustomStarts, CustomEnds, CustomRaises, Store, StoreCopy, CleanUp, BackgroundFails,
     Abandon, CancelRequest

\* Undisturbed, a copy that is the row but for the own run changes only this run
\* in the row, and a copy that is the row changes nothing.
LEMMA SavesOwn ==
    ASSUME TypeOK, NEW r \in RunIds, NEW current \in Statuses, NEW copy,
           Save(copy, current), ~disturbed'
    PROVE  /\ copy = [db EXCEPT ![r] = "own"] => db' = [db EXCEPT ![r] = current]
           /\ copy = db => db' = db
<1> DEFINE row == [q \in RunIds |-> IF copy[q] = "own" THEN current ELSE copy[q]]
<1>1. db' = row
  BY DEF Save, Disturbs
<1>2. db \in [RunIds -> Stored] /\ "own" \notin Stored
  BY DEF TypeOK, Stored, Statuses
<1>3. copy = db => row = db
  BY <1>2
<1>4. copy = [db EXCEPT ![r] = "own"] => row = [db EXCEPT ![r] = current]
  BY <1>2, ZenonT(60)
<1> QED
  BY <1>1, <1>3, <1>4

\* The task of a background run is where BackgroundInv says.
LEMMA NextBackground ==
    ASSUME TypeOK, NEW r \in RunIds, RunInv(r), BackgroundInv(r),
           RunStep(r) \/ ClientStep(r)
    PROVE  BackgroundInv(r)'
<1> USE DEF TypeOK, Goto, BackgroundInv
<1>1. CASE Call(r) \/ Abandon(r) \/ CancelRequest(r)
  BY <1>1 DEF Call, Abandon, CancelRequest
<1>2. CASE Accept(r) \/ Schedule(r) \/ StoreRunning(r) \/ AgentNotAwaited(r)
  BY <1>2 DEF Accept, Schedule, StoreRunning, AgentNotAwaited
<1>3. CASE Begin(r) \/ Started(r) \/ TopOfLoop(r) \/ TrailingEvent(r) \/ LoopEnds(r)
           \/ Decided(r) \/ EndsUnheard(r) \/ StepReturns(r)
  BY <1>3 DEF Begin, Started, TopOfLoop, TrailingEvent, LoopEnds, LoopHead,
         Decided, EndsUnheard, StepReturns, Cancelled,
     Completed
<1>4. CASE AfterStep(r)
  BY <1>4 DEF AfterStep, Cancelled, Completed
<1>5. CASE StepRaises(r) \/ ErrorEvent(r)
  <2>1. CASE StepRaises(r)
    <3>1. \/ pc'[r] \in {"error_event", "ended"}
          \/ pc'[r] = "storing" /\ function[r] = "_execute"
          \/ pc'[r] = "failing" /\ function[r] \in Background
      BY <2>1 DEF StepRaises, Escape
    <3>2. function' = function
      BY <2>1 DEF StepRaises
    <3> QED
      BY <3>1, <3>2 DEF Background
  <2>2. CASE ErrorEvent(r)
    BY <2>2 DEF ErrorEvent, Escape
  <2> QED
    BY <1>5, <2>1, <2>2
<1>6. CASE CancelEvent(r) \/ CompleteEvent(r)
  BY <1>6 DEF CancelEvent, CompleteEvent, RunInv, PathInv
<1>7. CASE CustomStarts(r) \/ CustomEnds(r) \/ CustomRaises(r)
  BY <1>7 DEF CustomStarts, CustomEnds, CustomRaises, Escape, Completed, Background
<1>8. CASE Store(r) \/ CleanUp(r) \/ BackgroundFails(r)
  BY <1>8 DEF Store, StoreCopy, CleanUp, BackgroundFails
<1> QED
  BY <1>1, <1>2, <1>3, <1>4, <1>5, <1>6, <1>7, <1>8 DEF RunStep, ClientStep

\* What an undisturbed step writes into the row: the status of its own run, and
\* that only where _arun_background stores it and at the end of each function.
LEMMA SoloWrites ==
    ASSUME TypeOK, NEW r \in RunIds, RunInv(r), BackgroundInv(r), CopyInv(r),
           RunStep(r) \/ ClientStep(r), ~disturbed'
    PROVE  /\ Store(r) => db' = [db EXCEPT ![r] = status[r]]
           /\ Schedule(r) /\ function[r] = "_arun_background"
                 => db' = [db EXCEPT ![r] = status[r]]
           /\ StoreRunning(r) /\ function[r] = "_arun_background"
                 => db' = [db EXCEPT ![r] = "running"]
           /\ BackgroundFails(r) /\ function[r] = "_arun_background"
                 => db' = [db EXCEPT ![r] = "error"]
           /\ (StoreRunning(r) \/ BackgroundFails(r) \/ Schedule(r))
              /\ function[r] # "_arun_background"
                 => db' = db
           /\ ~(Store(r) \/ Schedule(r) \/ StoreRunning(r) \/ BackgroundFails(r))
                 => db' = db
<1>t. status[r] \in Statuses /\ {"running", "error"} \subseteq Statuses
  BY DEF TypeOK, Statuses
<1>1. Store(r) => db' = [db EXCEPT ![r] = status[r]]
  <2> SUFFICES ASSUME Store(r) PROVE db' = [db EXCEPT ![r] = status[r]]
    OBVIOUS
  <2>1. session[r] = db
    BY DEF Store, StoreCopy, CopyInv, ExecutingPoints
  <2> QED
    BY <1>t, <2>1, SavesOwn DEF Store, StoreCopy
<1>2. Schedule(r) \/ StoreRunning(r) \/ BackgroundFails(r) =>
         first[r] = IF function[r] = "_arun_background" THEN [db EXCEPT ![r] = "own"] ELSE db
  BY DEF Schedule, StoreRunning, BackgroundFails, CopyInv, Unstored, BackgroundInv,
     Background
<1>3. Schedule(r) => IF function[r] = "_arun_background"
                     THEN db' = [db EXCEPT ![r] = status[r]] ELSE db' = db
  BY <1>t, <1>2, SavesOwn DEF Schedule
<1>4. StoreRunning(r) => IF function[r] = "_arun_background"
                         THEN db' = [db EXCEPT ![r] = "running"] ELSE db' = db
  BY <1>t, <1>2, SavesOwn DEF StoreRunning
<1>5. BackgroundFails(r) => IF function[r] = "_arun_background"
                            THEN db' = [db EXCEPT ![r] = "error"] ELSE db' = db
  BY <1>t, <1>2, SavesOwn DEF BackgroundFails
<1>6. ~(Store(r) \/ Schedule(r) \/ StoreRunning(r) \/ BackgroundFails(r)) => db' = db
  BY DEF RunStep, ClientStep, Call, Accept, AgentNotAwaited, Begin, Started, TopOfLoop,
     TrailingEvent, LoopEnds, LoopHead,
         Decided, EndsUnheard, StepReturns, AfterStep, StepRaises, ErrorEvent, CancelEvent,
     CompleteEvent, CustomStarts, CustomEnds, CustomRaises, CleanUp, Abandon, CancelRequest
<1> QED
  BY <1>1, <1>3, <1>4, <1>5, <1>6

\* The own run in the row, if nothing has disturbed it.
LEMMA NextRow ==
    ASSUME TypeOK, NEW r \in RunIds, RunInv(r), BackgroundInv(r), RowInv(r), CopyInv(r),
           RunStep(r) \/ ClientStep(r), ~disturbed'
    PROVE  RowInv(r)'
<1> USE DEF TypeOK, Goto, RowInv, Unstored, ExecutingPoints, HasFinally
<1>1. CASE Call(r) \/ Accept(r)
  BY <1>1 DEF Call, Accept
<1>2. CASE Schedule(r) \/ StoreRunning(r)
  <2>1. CASE function[r] = "_arun_background"
    <3>1. status[r] = "pending"
      BY <1>2 DEF Schedule, StoreRunning, RunInv, PathInv
    <3>2. db'[r] = IF Schedule(r) THEN "pending" ELSE "running"
      BY <1>2, <2>1, <3>1, SoloWrites
    <3> QED
      BY <1>2, <2>1, <3>2 DEF Schedule, StoreRunning
  <2>2. CASE function[r] # "_arun_background"
    <3>1. db' = db
      BY <1>2, <2>2, SoloWrites
    <3> QED
      BY <1>2, <2>2, <3>1 DEF Schedule, StoreRunning
  <2> QED
    BY <2>1, <2>2
<1>3. CASE AgentNotAwaited(r)
  BY <1>3 DEF AgentNotAwaited, BackgroundInv, Background
<1>4. CASE Begin(r) \/ Started(r)
  BY <1>4 DEF Begin, Started, Background
<1>5. CASE TopOfLoop(r) \/ TrailingEvent(r) \/ LoopEnds(r) \/ Decided(r) \/ EndsUnheard(r) \/ StepReturns(r)
  BY <1>5 DEF TopOfLoop, TrailingEvent, LoopEnds, LoopHead,
         Decided, EndsUnheard, StepReturns, Cancelled, Completed
<1>6. CASE AfterStep(r)
  BY <1>6 DEF AfterStep, Cancelled, Completed
<1>7. CASE StepRaises(r)
  <2>1. \/ pc'[r] \in {"error_event", "storing", "failing"}
        \/ /\ pc'[r] = "ended" /\ exit'[r] # "return"
           /\ function[r] # "_execute" /\ function[r] \notin Background
    BY <1>7 DEF StepRaises, Escape
  <2>2. pc[r] \in {"evaluating", "stepping"} /\ UNCHANGED <<db, function, steps>>
    BY <1>7 DEF StepRaises
  <2> QED
    BY <2>1, <2>2 DEF Background
<1>8. CASE ErrorEvent(r)
  <2>1. \/ pc'[r] \in {"complete_event", "failing"}
        \/ pc'[r] = "ended" /\ exit'[r] # "return" /\ function[r] \notin Background
    BY <1>8 DEF ErrorEvent, Escape
  <2>2. pc[r] = "error_event" /\ UNCHANGED <<db, function, steps>>
    BY <1>8 DEF ErrorEvent
  <2>3. function[r] # "_execute"
    BY <2>2 DEF RunInv, PathInv, Streaming
  <2> QED
    BY <2>1, <2>2, <2>3 DEF Background
<1>9. CASE CancelEvent(r) \/ CompleteEvent(r)
  BY <1>9 DEF CancelEvent, CompleteEvent
<1>10. CASE CustomStarts(r) \/ CustomRaises(r)
  <2>1. \/ pc'[r] \in {"custom_running", "failing"}
        \/ pc'[r] = "ended" /\ exit'[r] # "return" /\ function[r] \notin Background
    BY <1>10 DEF CustomStarts, CustomRaises, Escape
  <2>2. /\ pc[r] \in {"custom", "custom_running"} /\ UNCHANGED <<db, function, steps>>
        /\ steps # "list"
    BY <1>10 DEF CustomStarts, CustomRaises, RunInv, PathInv
  <2> QED
    BY <2>1, <2>2 DEF Background
<1>11. CASE CustomEnds(r)
  <2>1. \/ pc'[r] \in {"complete_event", "storing"}
        \/ pc'[r] = "ended" /\ function[r] = "_execute"
    BY <1>11 DEF CustomEnds, Escape, Completed, Background
  <2>2. /\ pc[r] = "custom_running" /\ UNCHANGED <<db, function, steps>>
        /\ steps # "list"
    BY <1>11 DEF CustomEnds, RunInv, PathInv
  <2> QED
    BY <2>1, <2>2
<1>12. CASE Store(r)
  <2>1. db'[r] = status[r]
    BY <1>12, SoloWrites
  <2>2. pc'[r] = "cleaning" /\ status' = status
    BY <1>12 DEF Store, StoreCopy
  <2> QED
    BY <2>1, <2>2
<1>13. CASE CleanUp(r)
  <2>1. /\ pc[r] = "cleaning" /\ pc'[r] = "ended"
        /\ UNCHANGED <<db, function, steps, status, exit>>
    BY <1>13 DEF CleanUp
  <2>2. exit[r] = "return" => status[r] \in Final
    BY DEF RunInv, PathInv
  <2>3. function[r] = "_arun_background" => exit[r] = "return"
    BY <2>1 DEF BackgroundInv, Background
  <2> QED
    BY <2>1, <2>2, <2>3
<1>14. CASE BackgroundFails(r)
  <2>1. /\ pc'[r] = "ended" /\ UNCHANGED <<function, steps, exit>>
        /\ status'[r] = "error" /\ function[r] \in Background /\ exit[r] # "return"
    BY <1>14 DEF BackgroundFails, RunInv, RegistryInv
  <2>2. function[r] = "_arun_background" => db'[r] = "error"
    BY <1>14, SoloWrites
  <2> QED
    BY <2>1, <2>2 DEF Background, Final
<1>15. CASE Abandon(r)
  <2>1. /\ exit'[r] = "abandon" /\ UNCHANGED <<db, function, steps>>
        /\ function[r] \notin Background
        /\ pc'[r] = IF HasFinally(function[r], steps) THEN "storing" ELSE "ended"
        /\ pc[r] \in AbandonPoints(function[r])
    BY <1>15 DEF Abandon
  <2>2. HasFinally(function[r], steps) => pc[r] \in {"evaluating", "stepping", "custom_running"}
    BY <2>1 DEF AbandonPoints, Streaming, Async
  <2> QED
    BY <2>1, <2>2 DEF Background
<1>16. CASE CancelRequest(r)
  BY <1>16 DEF CancelRequest
<1> QED
  BY <1>1, <1>2, <1>3, <1>4, <1>5, <1>6, <1>7, <1>8, <1>9, <1>10, <1>11, <1>12, <1>13,
     <1>14, <1>15, <1>16 DEF RunStep, ClientStep

\* The copies of the run that is alone in flight.
LEMMA NextCopy ==
    ASSUME TypeOK, NEW r \in RunIds, RunInv(r), BackgroundInv(r), CopyInv(r),
           RunStep(r) \/ ClientStep(r), ~disturbed'
    PROVE  CopyInv(r)'
<1> USE DEF TypeOK, Goto, CopyInv, Unstored, ExecutingPoints
<1>1. CASE Call(r)
  <2>1. /\ pc'[r] = "called" /\ db' = db
        /\ function'[r] \notin Async => session'[r] = db
    BY <1>1 DEF Call, Disturbs
  <2> QED
    BY <2>1
<1>2. CASE Accept(r)
  <2>1. /\ pc'[r] = "accepted" /\ UNCHANGED <<db, function>>
        /\ first'[r] = IF function[r] = "_arun_background"
                       THEN [db EXCEPT ![r] = "own"] ELSE db
    BY <1>2 DEF Accept, Disturbs
  <2> QED
    BY <2>1
<1>3. CASE Schedule(r) \/ StoreRunning(r)
  <2>1. /\ pc[r] \in {"accepted", "scheduled"} /\ pc'[r] \in {"scheduled", "begin"}
        /\ UNCHANGED <<first, function>>
    BY <1>3 DEF Schedule, StoreRunning
  <2>2. \/ db' = db
        \/ /\ function[r] = "_arun_background"
           /\ \E s : db' = [db EXCEPT ![r] = s]
    BY <1>3, SoloWrites
  <2>3. function[r] = "_arun_background" => [db' EXCEPT ![r] = "own"] = [db EXCEPT ![r] = "own"]
    BY <2>2
  <2>4. function[r] # "_arun_background" => db' = db
    BY <2>2
  <2> QED
    BY <2>1, <2>3, <2>4
<1>4. CASE AgentNotAwaited(r)
  BY <1>4 DEF AgentNotAwaited
<1>5. CASE Begin(r)
  <2>1. session'[r] = db /\ UNCHANGED <<db, first, function>>
    <3>1. PICK found \in IF function[r] \in Async THEN Found ELSE {session[r]} :
             /\ session' = [session EXCEPT ![r] = found]
             /\ Disturbs(function[r] \in Async /\ found # db)
      BY <1>5 DEF Begin
    <3>2. function[r] \notin Async => pc[r] = "called"
      BY <1>5 DEF Begin, Background, Async, AllFunctions
    <3>3. found = db
      BY <3>1, <3>2 DEF Disturbs
    <3> QED
      BY <1>5, <3>1, <3>3 DEF Begin
  <2>2. pc[r] = "begin" \/ function[r] \notin Background
    BY <1>5 DEF Begin
  <2>3. pc'[r] \in {"started", "top", "custom"}
    BY <1>5 DEF Begin
  <2> QED
    BY <2>1, <2>2, <2>3
<1>6. CASE Started(r) \/ TopOfLoop(r) \/ TrailingEvent(r) \/ LoopEnds(r) \/ Decided(r) \/ EndsUnheard(r) \/ StepReturns(r)
  BY <1>6 DEF Started, TopOfLoop, TrailingEvent, LoopEnds, LoopHead,
         Decided, EndsUnheard, StepReturns, Cancelled, Completed
<1>7. CASE AfterStep(r)
  BY <1>7 DEF AfterStep, Cancelled, Completed
<1>8. CASE StepRaises(r) \/ ErrorEvent(r)
  <2>1. /\ UNCHANGED <<session, first, db, function>>
        /\ pc[r] \in {"evaluating", "stepping", "error_event"}
        /\ pc'[r] # "called"
    BY <1>8 DEF StepRaises, ErrorEvent, Escape
  <2> QED
    BY <2>1
<1>9. CASE \/ CancelEvent(r) \/ CompleteEvent(r)
           \/ CustomStarts(r) \/ CustomEnds(r) \/ CustomRaises(r)
  <2>1. /\ UNCHANGED <<session, first, db, function>>
        /\ pc[r] \in {"cancel_event", "complete_event", "custom", "custom_running"}
        /\ pc'[r] # "called"
    BY <1>9 DEF CancelEvent, CompleteEvent, CustomStarts, CustomEnds, CustomRaises, Escape,
       Completed
  <2> QED
    BY <2>1
<1>10. CASE Store(r) \/ CleanUp(r) \/ BackgroundFails(r)
  BY <1>10 DEF Store, StoreCopy, CleanUp, BackgroundFails
<1>11. CASE Abandon(r)
  <2>1. /\ UNCHANGED <<session, first, db, function>> /\ function[r] \notin Background
        /\ pc'[r] \in {"storing", "ended"}
        /\ pc'[r] = "storing" => pc[r] \in {"evaluating", "stepping", "custom_running"}
    BY <1>11 DEF Abandon, AbandonPoints, Streaming, Async
  <2> QED
    BY <2>1
<1>12. CASE CancelRequest(r)
  BY <1>12 DEF CancelRequest
<1> QED
  BY <1>1, <1>2, <1>3, <1>4, <1>5, <1>6, <1>7, <1>8, <1>9, <1>10, <1>11, <1>12
  DEF RunStep, ClientStep

\* A step of one run leaves the copies of the others alone, and an undisturbed one
\* also what the row says of them; only a cancel request finds another in flight.
LEMMA SoloOthers ==
    ASSUME TypeOK, NEW r \in RunIds, RunInv(r), BackgroundInv(r), CopyInv(r), Solo,
           RunStep(r) \/ ClientStep(r), ~disturbed', NEW q \in RunIds, q # r
    PROVE  /\ db'[q] = db[q]
           /\ InFlight(q) => UNCHANGED <<db, session, first>>
<1>1. db'[q] = db[q]
  <2>1. db' = db \/ \E s : db' = [db EXCEPT ![r] = s]
    BY SoloWrites
  <2> QED
    BY <2>1 DEF TypeOK
<1>2. InFlight(q) => UNCHANGED <<db, session, first>>
  <2>1. CASE CancelRequest(r)
    BY <2>1 DEF CancelRequest
  <2>2. CASE RunStep(r) \/ Abandon(r)
    BY <2>2, StepsInFlight DEF Solo
  <2>3. CASE Call(r)
    BY <2>3 DEF Call, Disturbs
  <2> QED
    BY <2>1, <2>2, <2>3 DEF ClientStep
<1> QED
  BY <1>1, <1>2

\* The invariant of the undisturbed workflow.
LEMMA NextSolo ==
    IInv /\ (\A r \in RunIds : BackgroundInv(r)) /\ SoloInv /\ [Next]_vars
        => (\A r \in RunIds : BackgroundInv(r)') /\ SoloInv'
<1> SUFFICES ASSUME IInv, \A r \in RunIds : BackgroundInv(r), SoloInv, [Next]_vars
             PROVE  (\A r \in RunIds : BackgroundInv(r)') /\ SoloInv'
  OBVIOUS
<1>0. TypeOK /\ \A r \in RunIds : RunInv(r)
  BY DEF IInv
<1>1. CASE UNCHANGED vars
  BY <1>1 DEF vars, BackgroundInv, SoloInv, Solo, RowInv, CopyInv, InFlight
<1>2. ASSUME NEW r \in RunIds, RunStep(r) \/ ClientStep(r)
      PROVE  (\A q \in RunIds : BackgroundInv(q)') /\ SoloInv'
  <2>1. \A q \in RunIds \ {r} : SameRun(q)
    BY <1>0, <1>2, OtherRuns
  <2>2. \A q \in RunIds : BackgroundInv(q)'
    <3>1. BackgroundInv(r)'
      BY <1>0, <1>2, NextBackground
    <3>2. ASSUME NEW q \in RunIds \ {r} PROVE BackgroundInv(q)'
      BY <2>1 DEF SameRun, BackgroundInv
    <3> QED
      BY <3>1, <3>2
  <2>3. ASSUME ~disturbed' PROVE Solo' /\ \A q \in RunIds : RowInv(q)' /\ CopyInv(q)'
    <3>1. Solo /\ \A q \in RunIds : RowInv(q) /\ CopyInv(q)
      BY <1>0, <1>2, <2>3, DisturbedStays DEF SoloInv
    <3>2. RowInv(r)' /\ CopyInv(r)'
      BY <1>0, <1>2, <2>3, <3>1, NextRow, NextCopy
    <3>3. ASSUME NEW q \in RunIds \ {r}
          PROVE  RowInv(q)' /\ CopyInv(q)' /\ (InFlight(q)' <=> InFlight(q))
      <4>1. SameRun(q) /\ db'[q] = db[q]
        BY <1>0, <1>2, <2>1, <2>3, <3>1, SoloOthers
      <4>2. InFlight(q)' <=> InFlight(q)
        BY <4>1 DEF SameRun, InFlight
      <4>3. RowInv(q)'
        BY <3>1, <4>1 DEF RowInv, SameRun
      <4>4. CASE InFlight(q)
        <5>1. UNCHANGED <<db, session, first>>
          BY <1>0, <1>2, <2>3, <3>1, <4>4, SoloOthers
        <5> QED
          BY <3>1, <4>1, <4>2, <4>3, <5>1 DEF CopyInv, SameRun
      <4>5. CASE ~InFlight(q)
        <5>1. pc'[q] \in {"idle", "ended"}
          BY <4>1, <4>5 DEF SameRun, InFlight
        <5>2. CopyInv(q)'
          BY <5>1 DEF CopyInv, ExecutingPoints, Unstored
        <5> QED
          BY <4>2, <4>3, <5>2
      <4> QED
        BY <4>4, <4>5
    <3>4. Solo'
      <4>1. ASSUME NEW q \in RunIds \ {r}, InFlight(q), InFlight(r)' PROVE FALSE
        <5>1. CASE CancelRequest(r)
          BY <1>0, <3>1, <4>1, <5>1 DEF Solo, CancelRequest, InFlight
        <5>2. CASE RunStep(r) \/ Abandon(r)
          BY <3>1, <4>1, <5>2, StepsInFlight DEF Solo
        <5>3. CASE Call(r)
          BY <2>3, <4>1, <5>3 DEF Call, Disturbs
        <5> QED
          BY <1>2, <5>1, <5>2, <5>3 DEF ClientStep
      <4> QED
        BY <3>1, <3>3, <4>1 DEF Solo
    <3> QED
      BY <3>2, <3>3, <3>4
  <2> QED
    BY <2>2, <2>3 DEF SoloInv
<1> QED
  BY <1>1, <1>2 DEF Next

\* It holds at the beginning.
LEMMA InitSolo == Init => (\A r \in RunIds : BackgroundInv(r)) /\ SoloInv
  BY DEF Init, BackgroundInv, SoloInv, Solo, RowInv, CopyInv, InFlight, ExecutingPoints,
     Unstored, NewSession

\* So it always holds.
LEMMA SoloAlways == Spec => [](IInv /\ (\A r \in RunIds : BackgroundInv(r)) /\ SoloInv)
<1>1. Init => IInv /\ (\A r \in RunIds : BackgroundInv(r)) /\ SoloInv
  BY InitIInv, InitSolo
<1>2. IInv /\ (\A r \in RunIds : BackgroundInv(r)) /\ SoloInv /\ [Next]_vars
        => (IInv /\ (\A r \in RunIds : BackgroundInv(r)) /\ SoloInv)'
  BY NextIInv, NextSolo
<1> QED
  BY <1>1, <1>2, PTL DEF Spec

\* Every variable keeps its type; the loop over the steps never looks behind the
\* end of the list, however many steps there are.
THEOREM TypesAreCorrect == Spec => []TypeOK
  <1>1. IInv => TypeOK
    BY DEF IInv
  <1> QED
    BY <1>1, IInvAlways, PTL

\* A run can be cancelled from its first event to its last, and only the exits
\* that are named leave an entry behind, for any number of overlapping runs.
THEOREM RegistryIsSafe == Spec => []RegistryFollowsRuns
  <1>1. IInv => RegistryFollowsRuns
    BY DEF IInv, RunInv, RegistryInv, RegistryFollowsRuns, Tracked, Before,
           Cancellation!Tracked
  <1> QED
    BY <1>1, IInvAlways, PTL

\* An acknowledged cancel that a look at the flag could still see is never
\* followed by a completed list of steps, in whichever of the steps it came.
THEOREM CancelIsSafe == Spec => []CancelIsHonoured
  <1>1. IInv => CancelIsHonoured
    BY DEF IInv, RunInv, FlagInv, CancelIsHonoured
  <1> QED
    BY <1>1, IInvAlways, PTL

\* Also if runs overlap and database calls fail, an outcome in the session row or
\* in a copy of it is the one that the run itself has reported.
THEOREM StoreIsSafe == Spec => []StoreIsTruthful
  <1>1. Init => IInv /\ StoreInv
    BY InitIInv, InitStoreInv
  <1>2. IInv /\ StoreInv /\ [Next]_vars => (IInv /\ StoreInv)'
    BY NextIInv, NextStoreInv
  <1>3. IInv /\ StoreInv => StoreIsTruthful
    BY DEF StoreInv, StoreIsTruthful, Truthful, Over
  <1> QED
    BY <1>1, <1>2, <1>3, PTL DEF Spec

\* Without overlap and database errors every function that promises it leaves the
\* outcome of its run in the session row, for any number of runs one after the
\* other, any steps and any interrupt.
THEOREM OutcomeIsKept == Spec => []OutcomeIsStored
<1>1. SoloInv => OutcomeIsStored
  BY DEF SoloInv, RowInv, OutcomeIsStored
<1> QED
  BY <1>1, SoloAlways, PTL

\* Who polls the session row of an undisturbed workflow sees every run go forward,
\* and no outcome replaced by another.
THEOREM PollingNeverGoesBack == Spec => PolledStatusAdvances
<1> DEFINE Advances ==
               ~disturbed' =>
                   \A r \in RunIds : /\ Rank(db[r]) <= Rank(db'[r])
                                     /\ db[r] \in Final => db'[r] = db[r]
<1>1. ASSUME IInv, \A r \in RunIds : BackgroundInv(r), SoloInv, [Next]_vars
      PROVE  [Advances]_vars
  <2>0. TypeOK /\ \A r \in RunIds : RunInv(r)
    BY <1>1 DEF IInv
  <2>r. \A s \in Stored : Rank(s) <= Rank(s)
    BY DEF Rank, Stored, Statuses
  <2>1. ASSUME NEW r \in RunIds, RunStep(r) \/ ClientStep(r), ~disturbed', NEW q \in RunIds
        PROVE  Rank(db[q]) <= Rank(db'[q]) /\ (db[q] \in Final => db'[q] = db[q])
    <3>1. Solo /\ RowInv(r) /\ CopyInv(r) /\ BackgroundInv(r)
      BY <1>1, <2>0, <2>1, DisturbedStays DEF SoloInv
    <3>2. CASE q # r
      <4>1. db'[q] = db[q]
        BY <2>0, <2>1, <3>1, <3>2, SoloOthers
      <4> QED
        BY <2>0, <2>r, <4>1 DEF TypeOK
    <3>3. CASE q = r /\ db' = db
      BY <2>0, <2>r, <3>3 DEF TypeOK
    <3>4. CASE q = r /\ Store(r)
      <4>1. db'[r] = status[r]
        BY <2>0, <2>1, <3>1, <3>4, SoloWrites DEF TypeOK
      <4>2. db[r] = IF function[r] = "_arun_background" THEN "running" ELSE "none"
        BY <3>1, <3>4 DEF Store, StoreCopy, RowInv, Unstored, ExecutingPoints
      <4>3. function[r] = "_arun_background" => status[r] \in Final
        BY <2>0, <3>1, <3>4 DEF Store, StoreCopy, BackgroundInv, Background, RunInv, PathInv
      <4>4. status[r] \in Statuses
        BY <2>0 DEF TypeOK
      <4> QED
        BY <3>4, <4>1, <4>2, <4>3, <4>4 DEF Rank, Final, Statuses
    <3>5. CASE q = r /\ Schedule(r) /\ function[r] = "_arun_background"
      <4>1. db[r] = "none" /\ status[r] = "pending"
        BY <2>0, <3>1, <3>5 DEF Schedule, RowInv, RunInv, PathInv
      <4>2. db'[r] = "pending"
        BY <2>0, <2>1, <3>1, <3>5, <4>1, SoloWrites DEF TypeOK
      <4> QED
        BY <3>5, <4>1, <4>2 DEF Rank, Final
    <3>6. CASE q = r /\ StoreRunning(r) /\ function[r] = "_arun_background"
      <4>1. db[r] = "pending"
        BY <3>1, <3>6 DEF StoreRunning, RowInv
      <4>2. db'[r] = "running"
        BY <2>0, <2>1, <3>1, <3>6, SoloWrites DEF TypeOK
      <4> QED
        BY <3>6, <4>1, <4>2 DEF Rank, Final
    <3>7. CASE q = r /\ BackgroundFails(r) /\ function[r] = "_arun_background"
      <4>1. db[r] = "running"
        BY <3>1, <3>7 DEF BackgroundFails, RowInv, Unstored
      <4>2. db'[r] = "error"
        BY <2>0, <2>1, <3>1, <3>7, SoloWrites DEF TypeOK
      <4> QED
        BY <3>7, <4>1, <4>2 DEF Rank, Final
    <3> QED
      BY <2>0, <2>1, <3>1, <3>2, <3>3, <3>4, <3>5, <3>6, <3>7, SoloWrites
  <2>2. CASE UNCHANGED vars
    BY <2>2
  <2> QED
    BY <1>1, <2>1, <2>2 DEF Next
<1> QED
  BY <1>1, SoloAlways, PTL DEF Spec, PolledStatusAdvances

----------------------------------------------------------------------------
(* RunLifecycle.                                                           *)

\* What the callers of a run see does not change.
SameView(r) == PhaseOf(r)' = PhaseOf(r) /\ (acked'[r] # "none") = (acked[r] # "none")

\* A step of a run starts it, stops it, or is a cancel request; the others change
\* nothing its callers can see.
LEMMA PhaseSteps ==
    ASSUME TypeOK, NEW r \in RunIds, RunInv(r), RunStep(r) \/ ClientStep(r)
    PROVE  \/ SameView(r)
           \/ PhaseOf(r) = "new" /\ PhaseOf(r)' = "running" /\ acked'[r] = "none"
           \/ /\ PhaseOf(r) # "new" /\ PhaseOf(r)' = PhaseOf(r)
              /\ acked'[r] # "none"
           \/ /\ PhaseOf(r) = "running" /\ acked'[r] = acked[r]
              /\ PhaseOf(r)' \in {"completed", "cancelled", "failed"}
              /\ PhaseOf(r)' = "cancelled" => acked[r] # "none"
<1> USE DEF TypeOK, Goto, PhaseOf, InFlight, SameView
<1>1. CASE Call(r)
  BY <1>1 DEF Call, RunInv, FlagInv, Before
<1>2. CASE CancelRequest(r)
  <2>1. PhaseOf(r)' = PhaseOf(r) /\ PhaseOf(r) # "new"
    BY <1>2 DEF CancelRequest, Statuses
  <2>2. acked'[r] = acked[r] \/ acked'[r] # "none"
    BY <1>2 DEF CancelRequest
  <2> QED
    BY <2>1, <2>2
<1>3. CASE CleanUp(r)
  BY <1>3 DEF CleanUp, RunInv, PathInv, FlagInv, Final, Statuses
<1>4. CASE \/ Abandon(r) \/ BackgroundFails(r) \/ AgentNotAwaited(r)
  BY <1>4 DEF Abandon, AbandonPoints, BackgroundFails, AgentNotAwaited, RunInv,
     RegistryInv
<1>5. CASE Accept(r) \/ Schedule(r) \/ StoreRunning(r) \/ Begin(r) \/ Started(r)
  BY <1>5 DEF Accept, Schedule, StoreRunning, Begin, Started
<1>6. CASE \/ TopOfLoop(r) \/ TrailingEvent(r) \/ LoopEnds(r) \/ Decided(r) \/ EndsUnheard(r) \/ StepReturns(r)
           \/ AfterStep(r)
  BY <1>6 DEF TopOfLoop, TrailingEvent, LoopEnds, LoopHead,
         Decided, EndsUnheard, StepReturns, AfterStep, Cancelled,
     Completed
<1>7. CASE StepRaises(r) \/ ErrorEvent(r)
  BY <1>7 DEF StepRaises, ErrorEvent, Escape
<1>8. CASE CancelEvent(r) \/ CompleteEvent(r) \/ Store(r)
  BY <1>8 DEF CancelEvent, CompleteEvent, Store, StoreCopy
<1>9. CASE CustomStarts(r) \/ CustomEnds(r) \/ CustomRaises(r)
  BY <1>9 DEF CustomStarts, CustomEnds, CustomRaises, Escape, Completed
<1> QED
  BY <1>1, <1>2, <1>3, <1>4, <1>5, <1>6, <1>7, <1>8, <1>9 DEF RunStep, ClientStep

\* Every step of the workflow is a step of RunLifecycle or stutters.
LEMMA LifecycleSteps ==
    IInv /\ [Next]_vars => [Lifecycle!LifecycleNext]_(Lifecycle!lifecycleVars)
<1> SUFFICES ASSUME IInv, [Next]_vars
             PROVE  \/ \E r \in RunIds : \/ Lifecycle!Begin(r)
                                          \/ Lifecycle!Request(r)
                                          \/ Lifecycle!Stop(r)
                    \/ UNCHANGED Lifecycle!lifecycleVars
  BY DEF Lifecycle!LifecycleNext
<1>0. TypeOK /\ \A r \in RunIds : RunInv(r)
  BY DEF IInv
<1>s. ASSUME NEW q \in RunIds, SameRun(q) PROVE SameView(q)
  BY <1>s DEF SameRun, SameView, PhaseOf, InFlight
<1>1. CASE \A q \in RunIds : SameView(q)
  BY <1>1 DEF Lifecycle!lifecycleVars, SameView
<1>2. ASSUME NEW r \in RunIds, RunStep(r) \/ ClientStep(r)
      PROVE  \/ Lifecycle!Begin(r) \/ Lifecycle!Request(r) \/ Lifecycle!Stop(r)
             \/ UNCHANGED Lifecycle!lifecycleVars
  <2>1. \A q \in RunIds \ {r} : SameView(q)
    BY <1>0, <1>2, <1>s, OtherRuns
  <2> QED
    BY <1>0, <1>2, <2>1, PhaseSteps
    DEF Lifecycle!Begin, Lifecycle!Request, Lifecycle!Stop,
        Lifecycle!lifecycleVars, SameView
<1>3. CASE UNCHANGED vars
  BY <1>1, <1>3, <1>s DEF vars, SameRun
<1> QED
  BY <1>2, <1>3 DEF Next

\* The four functions that execute a run and the two that do it in the background
\* implement the life cycle of an agent run that does not pause (safety part).
THEOREM WorkflowImplementsLifecycle ==
    Spec => Lifecycle!LifecycleInit
            /\ [][Lifecycle!LifecycleNext]_(Lifecycle!lifecycleVars)
<1>1. Init => Lifecycle!LifecycleInit
  <2> SUFFICES ASSUME Init PROVE Lifecycle!LifecycleInit
    OBVIOUS
  <2>1. \A r \in RunIds : PhaseOf(r) = "new"
    BY DEF Init, PhaseOf, InFlight
  <2>2. \A r \in RunIds : (acked[r] # "none") = FALSE
    BY DEF Init
  <2> QED
    BY <2>1, <2>2, Zenon DEF Lifecycle!LifecycleInit
<1> QED
  BY <1>1, LifecycleSteps, IInvAlways, PTL DEF Spec
=============================================================================
